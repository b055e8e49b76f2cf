------------------------------ MODULE SqlStore ------------------------------
(***************************************************************************)
(* The SQL store's history tables under persist.Recorder: samples and      *)
(* history_daily.  Save and Prune are transactions; Rollup reads the       *)
(* samples and the days already recorded in two queries of their own and   *)
(* writes what it concluded in a third, so it acts on what it read.  Only  *)
(* one goroutine, Recorder.Run, calls RollupOnce.  In a pull deployment it *)
(* is also the only one that saves; in a push deployment (Concurrent)      *)
(* handlers save meanwhile.                                                *)
(***************************************************************************)
EXTENDS Integers

CONSTANTS
    Ids, DayLength, MaxDay,   \* as in HistoryStore
    RawAge,      \* rawSampleRetentionHours, in instants
    Retention,   \* retentionDays
    Lag,         \* bound: how old an observation may be when it is saved
    Concurrent   \* BOOLEAN: do other goroutines save while a rollup runs?

VARIABLES
    samples, buckets,   \* the two tables, as in HistoryStore
    now,     \* the clock
    step,    \* the next operation of RollupOnce
    began,   \* RollupOnce's now
    read,    \* loadSamples' result
    known    \* existingDays' result

Memory == INSTANCE HistoryStore

ASSUME SqlAssumption ==
    /\ Memory!HistoryAssumption
    /\ RawAge \in Nat /\ Retention \in Nat /\ Lag \in Nat
    /\ Concurrent \in BOOLEAN

localVars == <<step, began, read, known>>
vars      == <<samples, buckets, now, localVars>>

Days == Memory!Days

Day(t) == Memory!Day(t)

NoBucket == Memory!NoBucket

Upstream == Memory!Upstream

Steps == {"idle", "samples", "existing", "write", "prune"}

Unread == [i \in Ids |-> {}]

TypeOK ==
    /\ Memory!TypeOK
    /\ now \in Memory!Times
    /\ step \in Steps
    /\ began \in Memory!Times
    /\ read \in [Ids -> SUBSET Memory!Times]
    /\ known \in SUBSET (Ids \X Days)

Init ==
    /\ Memory!Init
    /\ now = 0
    /\ step = "idle"
    /\ began = 0
    /\ read = Unread
    /\ known = {}

(* Mutant: the day before. *)
MutantLimit == Day(began) - 2

(* Yesterday, when RollupOnce began. *)
Limit == Day(began) - 1

(* RollupOnce returns; its locals go out of scope. *)
Return ==
    /\ step' = "idle"
    /\ began' = 0
    /\ read' = Unread
    /\ known' = {}

-----------------------------------------------------------------------------
Tick ==
    /\ now + 1 \in Memory!Times
    /\ now' = now + 1
    /\ UNCHANGED <<samples, buckets, localVars>>

(* A snapshot read from the source; the readings are as old as the source    *)
(* says, and an upstream reports no day that has not begun.                 *)
Save ==
    /\ Concurrent \/ step = "idle"
    /\ \E ids \in SUBSET Ids :
          \E at \in [ids -> {t \in Memory!Times : now - Lag <= t /\ t <= now}],
             days \in [ids -> SUBSET {d \in Days : d <= Day(now)}] :
                Memory!Save(ids, at, days)
    /\ UNCHANGED <<now, localVars>>

(* Mutant: the clock of a zone east of UTC. *)
MutantRollupOnce ==
    /\ step = "idle"
    /\ step' = "samples"
    /\ began' = now + 1
    /\ UNCHANGED <<samples, buckets, now, read, known>>

(* The rollup ticker fires. *)
RollupOnce ==
    /\ step = "idle"
    /\ step' = "samples"
    /\ began' = now
    /\ UNCHANGED <<samples, buckets, now, read, known>>

(* Mutant: up to the start of the last day, not to its end. *)
MutantLoadSamples ==
    /\ step = "samples"
    /\ read' = [i \in Ids |-> {t \in samples[i] : t <= Limit * DayLength}]
    /\ step' = IF read' = Unread THEN "prune" ELSE "existing"
    /\ UNCHANGED <<samples, buckets, now, began, known>>

LoadSamples ==
    /\ step = "samples"
    /\ read' = [i \in Ids |-> {t \in samples[i] : Day(t) <= Limit}]
    /\ step' = IF read' = Unread THEN "prune" ELSE "existing"
    /\ UNCHANGED <<samples, buckets, now, began, known>>

ExistingDays ==
    /\ step = "existing"
    /\ known' = {k \in Ids \X Days : buckets[k[1]][k[2]] # NoBucket}
    /\ step' = "write"
    /\ UNCHANGED <<samples, buckets, now, began, read>>

(* Mutant: every day read is written. *)
MutantRecorded(i, d) == FALSE

(* Mutant: a service that has any history is left alone. *)
MutantHasHistory(i, d) == \E k \in known : k[1] = i

(* Does Rollup leave the day alone? *)
Recorded(i, d) == <<i, d>> \in known

(* saveHistory overwrites: the row it finds is not looked at again. *)
WriteBuckets ==
    /\ step = "write"
    /\ buckets' = [i \in Ids |-> [d \in Days |->
                     IF Memory!OfDay(read[i], d) # {} /\ ~Recorded(i, d)
                     THEN Memory!Rolled(Memory!OfDay(read[i], d)) ELSE buckets[i][d]]]
    /\ step' = "prune"
    /\ UNCHANGED <<samples, now, began, read, known>>

Prune ==
    /\ step = "prune"
    /\ Memory!Prune(began - RawAge, Day(began) - Retention)
    /\ Return
    /\ UNCHANGED now

(* An operation fails, its transaction is rolled back and RollupOnce gives   *)
(* up until the next tick; or the process goes down here.                   *)
GiveUp ==
    /\ step # "idle"
    /\ Return
    /\ UNCHANGED <<samples, buckets, now>>

Rollup ==
    \/ RollupOnce
    \/ LoadSamples
    \/ ExistingDays
    \/ WriteBuckets
    \/ Prune

Next == Tick \/ Save \/ Rollup \/ GiveUp

Spec == Init /\ [][Next]_vars

(* The ticker keeps firing and the database does not fail for ever. *)
Fairness ==
    /\ WF_vars(Rollup)
    /\ SF_vars(LoadSamples) /\ SF_vars(ExistingDays) /\ SF_vars(WriteBuckets)

FairSpec == Spec /\ Fairness

-----------------------------------------------------------------------------
(* Properties *)

(* storetest: every backend behaves as the in-memory store does.  With one   *)
(* caller, reading outside the transaction is as good as reading inside it. *)
ImplementsMemory == Memory!Spec

(* sqlstore.go, Rollup: "A day already recorded is left alone.  An upstream  *)
(* that reported its own figure for the day knows more about it than the    *)
(* dashboard's sparse sampling does."                                       *)
UpstreamKept ==
    [][\A i \in Ids, d \in Days :
         buckets[i][d] = Upstream => buckets'[i][d] \in {Upstream, NoBucket}]_vars

(* A day's rolled figure is final: the rollups that follow, which find fewer *)
(* and fewer of its samples as pruning eats into the day, do not redo it.   *)
SealedDayIsStable ==
    [][\A i \in Ids, d \in Days :
         buckets[i][d].by = "rollup"
         => buckets'[i][d] \in {buckets[i][d], Upstream, NoBucket}]_vars

(* store.go, Prune: it "discards raw samples already rolled up".  A sample   *)
(* leaves the table only once its day has a bucket.  The exception is named: *)
(* where samples are kept for less than a day, which validation accepts, a   *)
(* prune also reaches into the day it began on, which no rollup has folded. *)
PruneKeepsUnrolled ==
    [][\A i \in Ids : \A t \in samples[i] \ samples'[i] :
         \/ buckets[i][Day(t)] # NoBucket
         \/ RawAge < DayLength /\ Day(t) = Day(began)]_vars

(* A day that is over is sealed, unless it has passed out of retention.      *)
EveryDaySealed ==
    \A i \in Ids, t \in Memory!Times :
        (t \in samples[i] /\ Day(t) < Day(now))
        ~> (buckets[i][Day(t)] # NoBucket \/ Day(t) < Day(now) - Retention)

=============================================================================
