---------------------------- MODULE HistoryStore ----------------------------
(***************************************************************************)
(* What a store.Store promises about history, as the in-memory store does  *)
(* it: Save, Rollup and Prune are atomic.  Every backend is meant to       *)
(* behave like this one; SqlStore is shown to.                             *)
(*                                                                         *)
(* A sample is the moment it was observed at; a daily bucket is what the   *)
(* upstream reported for the day, or the samples it was folded from.       *)
(***************************************************************************)
EXTENDS Integers

CONSTANTS
    Ids,        \* service ids
    DayLength,  \* instants in a day
    MaxDay      \* bound: the last day

(* Of the constants; assumed where the module is instantiated. *)
HistoryAssumption ==
    /\ DayLength \in Nat \ {0}
    /\ MaxDay \in Nat

Days == 0 .. MaxDay

Times == 0 .. ((MaxDay + 1) * DayLength - 1)

Day(t) == t \div DayLength

VARIABLES
    samples,   \* samples[i]: the raw samples of service i
    buckets    \* buckets[i][d]: the daily bucket of service i for day d

storeVars == <<samples, buckets>>

(* No row for the day; the figure some Save carried; the samples rolled up. *)
NoBucket == [by |-> "nobody", of |-> {}]

Upstream == [by |-> "upstream", of |-> {}]

Rolled(times) == [by |-> "rollup", of |-> times]

Bucket == [by : {"nobody", "upstream", "rollup"}, of : SUBSET Times]

TypeOK ==
    /\ samples \in [Ids -> SUBSET Times]
    /\ buckets \in [Ids -> [Days -> Bucket]]

Init ==
    /\ samples = [i \in Ids |-> {}]
    /\ buckets = [i \in Ids |-> [d \in Days |-> NoBucket]]

OfDay(times, d) == {t \in times : Day(t) = d}

(* A snapshot of the services ids, each with the moment of its reading and   *)
(* the days of history it carries.                                          *)
Save(ids, at, days) ==
    /\ samples' = [i \in Ids |-> IF i \in ids THEN samples[i] \cup {at[i]} ELSE samples[i]]
    /\ buckets' = [i \in Ids |-> [d \in Days |->
                     IF i \in ids /\ d \in days[i] THEN Upstream ELSE buckets[i][d]]]

(* mergeExisting: a day already recorded is left alone. *)
Rollup(limit) ==
    /\ buckets' = [i \in Ids |-> [d \in Days |->
                     IF d <= limit /\ OfDay(samples[i], d) # {} /\ buckets[i][d] = NoBucket
                     THEN Rolled(OfDay(samples[i], d)) ELSE buckets[i][d]]]
    /\ UNCHANGED samples

Prune(sampleCutoff, dayCutoff) ==
    /\ samples' = [i \in Ids |-> {t \in samples[i] : t >= sampleCutoff}]
    /\ buckets' = [i \in Ids |-> [d \in Days |->
                     IF d < dayCutoff THEN NoBucket ELSE buckets[i][d]]]

Next ==
    \/ \E ids \in SUBSET Ids :
          \E at \in [ids -> Times], days \in [ids -> SUBSET Days] : Save(ids, at, days)
    \/ \E limit \in Days : Rollup(limit)
    \/ \E sampleCutoff \in Times, dayCutoff \in Days : Prune(sampleCutoff, dayCutoff)

Spec == Init /\ [][Next]_storeVars

=============================================================================
