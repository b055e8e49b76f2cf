--------------------------- MODULE HistoryProofs ---------------------------
(***************************************************************************)
(* Proofs about SqlStore, for every set of services, length of day,        *)
(* retention and lag: it implements the in-memory store when one goroutine *)
(* calls it, and a rollup neither redoes a day nor loses a sample.         *)
(***************************************************************************)
EXTENDS SqlStore, TLAPS

-----------------------------------------------------------------------------
(* Days *)

(* The defining bounds of an integer quotient. *)
LEMMA Quotient ==
    ASSUME NEW t \in Nat, NEW n \in Nat \ {0}
    PROVE  /\ t \div n \in Nat
           /\ n * (t \div n) <= t
           /\ t < n * (t \div n) + n
OBVIOUS

(* A product by a positive number is monotone. *)
LEMMA Monotone ==
    ASSUME NEW n \in Nat \ {0}, NEW a \in Nat, NEW b \in Nat, n * a < n * b
    PROVE  a < b
OBVIOUS

(* Day: every instant of the horizon belongs to one of the days. *)
LEMMA DayInRange ==
    ASSUME NEW t \in Memory!Times
    PROVE  Day(t) \in Days
<1> DEFINE n == DayLength
<1>1. t \in Nat /\ n \in Nat \ {0} /\ MaxDay \in Nat /\ t < (MaxDay + 1) * n
  BY SqlAssumption DEF SqlAssumption, Memory!HistoryAssumption, Memory!Times
<1>2. (MaxDay + 1) * n = n * (MaxDay + 1)
  BY <1>1
<1>3. Day(t) \in Nat /\ n * Day(t) <= t
  BY <1>1, Quotient DEF Day, Memory!Day
<1>4. n * Day(t) < n * (MaxDay + 1)
  <2> HIDE DEF n
  <2>1. n * Day(t) \in Nat /\ n * (MaxDay + 1) \in Nat
    BY <1>1, <1>3
  <2> QED
    BY <1>1, <1>2, <1>3, <2>1
<1>5. Day(t) < MaxDay + 1
  <2> HIDE DEF n
  <2> QED
    BY <1>1, <1>3, <1>4, Monotone
<1> QED
  BY <1>1, <1>3, <1>5 DEF Days, Memory!Days

(* Two instants a day apart lie in different days, the earlier one first. *)
LEMMA DayApart ==
    ASSUME NEW t \in Nat, NEW u \in Nat, t + DayLength <= u
    PROVE  Day(t) < Day(u)
<1> DEFINE n == DayLength
<1>1. n \in Nat \ {0}
  BY SqlAssumption DEF SqlAssumption, Memory!HistoryAssumption
<1>2. /\ Day(t) \in Nat /\ n * Day(t) <= t
      /\ Day(u) \in Nat /\ u < n * Day(u) + n
  BY <1>1, Quotient DEF Day, Memory!Day
<1>3. n * Day(t) < n * Day(u)
  <2> HIDE DEF n
  <2>1. n * Day(t) \in Nat /\ n * Day(u) \in Nat
    BY <1>1, <1>2
  <2>2. t + n <= u
    BY DEF n
  <2> QED
    BY <1>1, <1>2, <2>1, <2>2
<1> HIDE DEF n
<1> QED
  BY <1>1, <1>2, <1>3, Monotone

(* An instant is in no later day than a later one. *)
LEMMA DayOrder ==
    ASSUME NEW t \in Nat, NEW u \in Nat, t <= u
    PROVE  Day(t) <= Day(u)
<1> DEFINE n == DayLength
<1>1. n \in Nat \ {0}
  BY SqlAssumption DEF SqlAssumption, Memory!HistoryAssumption
<1>2. /\ Day(t) \in Nat /\ n * Day(t) <= t
      /\ Day(u) \in Nat /\ u < n * Day(u) + n
  BY <1>1, Quotient DEF Day, Memory!Day
<1>3. n * (Day(u) + 1) = n * Day(u) + n
  BY <1>1, <1>2
<1>4. n * Day(t) < n * (Day(u) + 1)
  <2> HIDE DEF n
  <2>1. n * Day(t) \in Nat /\ n * Day(u) \in Nat /\ n * (Day(u) + 1) \in Nat
    BY <1>1, <1>2
  <2> QED
    BY <1>1, <1>2, <1>3, <2>1
<1> HIDE DEF n
<1>5. Day(t) < Day(u) + 1
  BY <1>1, <1>2, <1>4, Monotone
<1> QED
  BY <1>2, <1>5

(* The clock starts inside the horizon. *)
LEMMA Origin == 0 \in Memory!Times
<1>1. DayLength \in Nat \ {0} /\ MaxDay + 1 \in Nat \ {0}
  BY SqlAssumption DEF SqlAssumption, Memory!HistoryAssumption
<1>2. ASSUME NEW a \in Nat \ {0}, NEW b \in Nat \ {0}
      PROVE  a * b \in Nat \ {0}
  OBVIOUS
<1>3. (MaxDay + 1) * DayLength \in Nat \ {0}
  BY <1>1, <1>2
<1> QED
  BY <1>3 DEF Memory!Times

-----------------------------------------------------------------------------
(* Types *)

(* The tables and RollupOnce's locals have their types. *)
THEOREM TypeCorrect == Spec => []TypeOK
<1>1. Init => TypeOK
  <2> SUFFICES ASSUME Init PROVE TypeOK
    OBVIOUS
  <2>1. Memory!TypeOK
    BY DEF Init, Memory!Init, Memory!TypeOK, Memory!Bucket, Memory!NoBucket
  <2>2. read \in [Ids -> SUBSET Memory!Times] /\ known \in SUBSET (Ids \X Days)
    BY DEF Init, Unread
  <2> QED
    BY <2>1, <2>2, Origin DEF Init, TypeOK, Steps
<1>2. TypeOK /\ [Next]_vars => TypeOK'
  <2> SUFFICES ASSUME TypeOK, [Next]_vars PROVE TypeOK'
    OBVIOUS
  <2> USE DEF TypeOK
  <2>0. ASSUME Return PROVE /\ step' \in Steps /\ began' \in Memory!Times
                            /\ read' \in [Ids -> SUBSET Memory!Times]
                            /\ known' \in SUBSET (Ids \X Days)
    BY <2>0, Origin DEF Return, Unread, Steps
  <2>1. CASE Tick
    BY <2>1 DEF Tick, localVars, Memory!TypeOK
  <2>2. CASE Save
    <3>1. PICK ids \in SUBSET Ids :
             \E at \in [ids -> {t \in Memory!Times : now - Lag <= t /\ t <= now}],
                days \in [ids -> SUBSET {d \in Days : d <= Day(now)}] :
                   Memory!Save(ids, at, days)
      BY <2>2 DEF Save
    <3>2. PICK at \in [ids -> {t \in Memory!Times : now - Lag <= t /\ t <= now}],
               days \in [ids -> SUBSET {d \in Days : d <= Day(now)}] :
                  Memory!Save(ids, at, days)
      BY <3>1
    <3>3. samples' \in [Ids -> SUBSET Memory!Times]
      BY <3>2 DEF Memory!Save, Memory!TypeOK
    <3>4. buckets' \in [Ids -> [Memory!Days -> Memory!Bucket]]
      <4>1. Memory!Upstream \in Memory!Bucket
        BY DEF Memory!Upstream, Memory!Bucket
      <4> QED
        BY <3>2, <4>1 DEF Memory!Save, Memory!TypeOK
    <3> QED
      BY <2>2, <3>3, <3>4 DEF Save, localVars, Memory!TypeOK
  <2>3. CASE RollupOnce
    BY <2>3 DEF RollupOnce, Memory!TypeOK, Steps
  <2>4. CASE LoadSamples
    <3>1. read' \in [Ids -> SUBSET Memory!Times]
      BY <2>4 DEF LoadSamples, Memory!TypeOK
    <3> QED
      BY <2>4, <3>1 DEF LoadSamples, Memory!TypeOK, Steps
  <2>5. CASE ExistingDays
    BY <2>5 DEF ExistingDays, Memory!TypeOK, Steps
  <2>6. CASE WriteBuckets
    <3>1. \A i \in Ids, d \in Days : Memory!Rolled(Memory!OfDay(read[i], d)) \in Memory!Bucket
      BY DEF Memory!Rolled, Memory!OfDay, Memory!Bucket
    <3>2. buckets' \in [Ids -> [Memory!Days -> Memory!Bucket]]
      BY <2>6, <3>1 DEF WriteBuckets, Memory!TypeOK, Days
    <3> QED
      BY <2>6, <3>2 DEF WriteBuckets, Memory!TypeOK, Steps
  <2>7. CASE Prune
    <3>1. samples' \in [Ids -> SUBSET Memory!Times]
      BY <2>7 DEF Prune, Memory!Prune, Memory!TypeOK
    <3>2. buckets' \in [Ids -> [Memory!Days -> Memory!Bucket]]
      <4>1. Memory!NoBucket \in Memory!Bucket
        BY DEF Memory!NoBucket, Memory!Bucket
      <4> QED
        BY <2>7, <4>1 DEF Prune, Memory!Prune, Memory!TypeOK
    <3> QED
      BY <2>7, <2>0, <3>1, <3>2 DEF Prune, Memory!TypeOK
  <2>8. CASE GiveUp
    BY <2>8, <2>0 DEF GiveUp, Memory!TypeOK
  <2>9. CASE UNCHANGED vars
    BY <2>9 DEF vars, localVars, Memory!TypeOK
  <2> QED
    BY <2>1, <2>2, <2>3, <2>4, <2>5, <2>6, <2>7, <2>8, <2>9 DEF Next, Rollup
<1> QED
  BY <1>1, <1>2, PTL DEF Spec

-----------------------------------------------------------------------------
(* A day is rolled up once *)

(* When the buckets are about to be written, every day already rolled up is  *)
(* among the days known to be recorded: nobody else rolls up.               *)
RolledKnown ==
    step = "write" =>
        \A i \in Ids, d \in Days : buckets[i][d].by = "rollup" => <<i, d>> \in known

(* No step but a rollup's makes a rolled bucket. *)
LEMMA OthersDoNotRoll ==
    ASSUME TypeOK, Tick \/ Save \/ UNCHANGED vars,
           NEW i \in Ids, NEW d \in Days
    PROVE  buckets'[i][d] \in {buckets[i][d], Upstream}
<1>1. CASE Tick
  BY <1>1 DEF Tick
<1>2. CASE Save
  <2>1. PICK ids \in SUBSET Ids :
           \E at \in [ids -> {t \in Memory!Times : now - Lag <= t /\ t <= now}],
              days \in [ids -> SUBSET {e \in Days : e <= Day(now)}] :
                 Memory!Save(ids, at, days)
    BY <1>2 DEF Save
  <2>2. PICK at \in [ids -> {t \in Memory!Times : now - Lag <= t /\ t <= now}],
             days \in [ids -> SUBSET {e \in Days : e <= Day(now)}] :
                Memory!Save(ids, at, days)
    BY <2>1
  <2> QED
    BY <2>2 DEF Memory!Save, Days, Upstream
<1>3. CASE UNCHANGED vars
  BY <1>3 DEF vars
<1> QED
  BY <1>1, <1>2, <1>3

LEMMA RolledKnownHolds == Spec => []RolledKnown
<1>1. Init => RolledKnown
  BY DEF Init, RolledKnown
<1>2. TypeOK /\ RolledKnown /\ [Next]_vars => RolledKnown'
  <2> SUFFICES ASSUME TypeOK, RolledKnown, [Next]_vars, step' = "write",
                      NEW i \in Ids, NEW d \in Days, buckets'[i][d].by = "rollup"
               PROVE  <<i, d>> \in known'
    BY DEF RolledKnown, Days, Memory!Days
  <2>1. CASE Tick \/ Save \/ UNCHANGED vars
    <3>1. step' = step /\ known' = known
      BY <2>1 DEF Tick, Save, vars, localVars
    <3>2. buckets[i][d].by = "rollup"
      BY <2>1, OthersDoNotRoll DEF Upstream, Memory!Upstream
    <3> QED
      BY <3>1, <3>2 DEF RolledKnown
  <2>2. CASE ExistingDays
    <3>1. buckets[i][d] # NoBucket
      BY <2>2 DEF ExistingDays, NoBucket, Memory!NoBucket
    <3> QED
      BY <2>2, <3>1 DEF ExistingDays
  <2>3. CASE RollupOnce \/ LoadSamples \/ WriteBuckets \/ Prune \/ GiveUp
    BY <2>3 DEF RollupOnce, LoadSamples, WriteBuckets, Prune, GiveUp, Return
  <2> QED
    BY <2>1, <2>2, <2>3 DEF Next, Rollup
<1> QED
  BY <1>1, <1>2, TypeCorrect, PTL DEF Spec

(* Rollup: the figure of a sealed day is not redone from what pruning has    *)
(* left of its samples, whoever saves meanwhile.                            *)
THEOREM SealedOnce == Spec => SealedDayIsStable
<1> DEFINE Stable == \A i \in Ids, d \in Days :
                        buckets[i][d].by = "rollup"
                        => buckets'[i][d] \in {buckets[i][d], Upstream, NoBucket}
<1>1. TypeOK /\ RolledKnown /\ [Next]_vars => Stable
  <2> SUFFICES ASSUME TypeOK, RolledKnown, [Next]_vars,
                      NEW i \in Ids, NEW d \in Days, buckets[i][d].by = "rollup"
               PROVE  buckets'[i][d] \in {buckets[i][d], Upstream, NoBucket}
    OBVIOUS
  <2>1. CASE Tick \/ Save \/ UNCHANGED vars
    BY <2>1, OthersDoNotRoll
  <2>2. CASE WriteBuckets
    <3>1. <<i, d>> \in known
      BY <2>2 DEF WriteBuckets, RolledKnown
    <3> QED
      BY <2>2, <3>1 DEF WriteBuckets, Recorded
  <2>3. CASE Prune
    BY <2>3 DEF Prune, Memory!Prune, Days, NoBucket
  <2>4. CASE RollupOnce \/ LoadSamples \/ ExistingDays \/ GiveUp
    BY <2>4 DEF RollupOnce, LoadSamples, ExistingDays, GiveUp
  <2> QED
    BY <2>1, <2>2, <2>3, <2>4 DEF Next, Rollup
<1> QED
  BY <1>1, TypeCorrect, RolledKnownHolds, PTL DEF Spec, SealedDayIsStable

-----------------------------------------------------------------------------
(* One goroutine saves and rolls up *)

(* What a rollup has read is still what the tables hold, and once it has     *)
(* written every day up to its limit that has a sample has a bucket.        *)
ReadIsCurrent ==
    /\ step \in {"existing", "write"} =>
          read = [i \in Ids |-> {t \in samples[i] : Day(t) <= Limit}]
    /\ step = "write" =>
          known = {k \in Ids \X Days : buckets[k[1]][k[2]] # NoBucket}
    /\ step = "prune" =>
          \A i \in Ids : \A t \in samples[i] :
              Day(t) <= Limit => buckets[i][Day(t)] # NoBucket

(* What WriteBuckets writes of a service's day, while what it read is current. *)
LEMMA WritesUnrecorded ==
    ASSUME TypeOK, ReadIsCurrent, WriteBuckets, NEW i \in Ids, NEW d \in Days
    PROVE  buckets'[i][d] =
              IF d <= Limit /\ Memory!OfDay(samples[i], d) # {} /\ buckets[i][d] = NoBucket
              THEN Memory!Rolled(Memory!OfDay(samples[i], d)) ELSE buckets[i][d]
<1>1. read[i] = {t \in samples[i] : Day(t) <= Limit}
  BY DEF WriteBuckets, ReadIsCurrent
<1>2. Recorded(i, d) <=> buckets[i][d] # NoBucket
  BY DEF WriteBuckets, ReadIsCurrent, Recorded
<1>3. CASE d <= Limit
  <2>1. Memory!OfDay(read[i], d) = Memory!OfDay(samples[i], d)
    BY <1>1, <1>3 DEF Memory!OfDay, Day
  <2> QED
    BY <1>2, <1>3, <2>1 DEF WriteBuckets
<1>4. CASE ~(d <= Limit)
  <2>1. Memory!OfDay(read[i], d) = {}
    BY <1>1, <1>4 DEF Memory!OfDay, Day
  <2> QED
    BY <1>4, <2>1 DEF WriteBuckets
<1> QED
  BY <1>3, <1>4

LEMMA ReadIsCurrentHolds ==
    ASSUME Concurrent = FALSE
    PROVE  Spec => []ReadIsCurrent
<1>1. Init => ReadIsCurrent
  BY DEF Init, ReadIsCurrent
<1>2. TypeOK /\ ReadIsCurrent /\ [Next]_vars => ReadIsCurrent'
  <2> SUFFICES ASSUME TypeOK, ReadIsCurrent, [Next]_vars PROVE ReadIsCurrent'
    OBVIOUS
  <2>1. CASE Tick \/ UNCHANGED vars
    BY <2>1 DEF Tick, vars, localVars, ReadIsCurrent, Limit, Day, Memory!Day
  <2>2. CASE Save
    BY <2>2 DEF Save, localVars, ReadIsCurrent
  <2>3. CASE RollupOnce \/ GiveUp
    BY <2>3 DEF RollupOnce, GiveUp, Return, ReadIsCurrent
  <2>4. CASE LoadSamples
    <3>1. /\ read' = [i \in Ids |-> {t \in samples'[i] : Day(t) <= Limit'}]
          /\ step' = IF read' = Unread THEN "prune" ELSE "existing"
          /\ Limit' = Limit /\ samples' = samples
      BY <2>4 DEF LoadSamples, Limit, Day, Memory!Day
    <3>2. ASSUME read' = Unread, NEW i \in Ids, NEW t \in samples'[i], Day(t) <= Limit'
          PROVE  FALSE
      BY <3>1, <3>2 DEF Unread
    <3> QED
      BY <3>1, <3>2 DEF ReadIsCurrent, Day, Memory!Day
  <2>5. CASE ExistingDays
    BY <2>5 DEF ExistingDays, ReadIsCurrent, Limit, Day, Memory!Day, Days, Memory!Days,
                NoBucket, Memory!NoBucket
  <2>6. CASE WriteBuckets
    <3> SUFFICES ASSUME NEW i \in Ids, NEW t \in samples[i], Day(t) <= Limit
                 PROVE  buckets'[i][Day(t)] # NoBucket
      BY <2>6 DEF WriteBuckets, ReadIsCurrent, Limit, Day, Memory!Day, NoBucket, Memory!NoBucket
    <3>1. Day(t) \in Days
      BY DayInRange DEF TypeOK, Memory!TypeOK
    <3>2. t \in Memory!OfDay(samples[i], Day(t))
      BY DEF Memory!OfDay, Day
    <3>3. buckets'[i][Day(t)] =
             IF buckets[i][Day(t)] = NoBucket
             THEN Memory!Rolled(Memory!OfDay(samples[i], Day(t))) ELSE buckets[i][Day(t)]
      BY <2>6, <3>1, <3>2, WritesUnrecorded
    <3> QED
      BY <3>3 DEF NoBucket, Memory!NoBucket, Memory!Rolled
  <2>7. CASE Prune
    BY <2>7 DEF Prune, Return, ReadIsCurrent
  <2> QED
    BY <2>1, <2>2, <2>3, <2>4, <2>5, <2>6, <2>7 DEF Next, Rollup
<1> QED
  BY <1>1, <1>2, TypeCorrect, PTL DEF Spec

(* Rollup: with one caller, an upstream's figure for a day is left alone.    *)
THEOREM UpstreamWins ==
    ASSUME Concurrent = FALSE
    PROVE  Spec => UpstreamKept
<1> DEFINE Kept == \A i \in Ids, d \in Days :
                      buckets[i][d] = Upstream => buckets'[i][d] \in {Upstream, NoBucket}
<1>1. TypeOK /\ ReadIsCurrent /\ [Next]_vars => Kept
  <2> SUFFICES ASSUME TypeOK, ReadIsCurrent, [Next]_vars,
                      NEW i \in Ids, NEW d \in Days, buckets[i][d] = Upstream
               PROVE  buckets'[i][d] \in {Upstream, NoBucket}
    OBVIOUS
  <2>1. CASE Tick \/ Save \/ UNCHANGED vars
    BY <2>1, OthersDoNotRoll
  <2>2. CASE WriteBuckets
    BY <2>2, WritesUnrecorded DEF NoBucket, Memory!NoBucket, Upstream, Memory!Upstream
  <2>3. CASE Prune
    BY <2>3 DEF Prune, Memory!Prune, Days, NoBucket
  <2>4. CASE RollupOnce \/ LoadSamples \/ ExistingDays \/ GiveUp
    BY <2>4 DEF RollupOnce, LoadSamples, ExistingDays, GiveUp
  <2> QED
    BY <2>1, <2>2, <2>3, <2>4 DEF Next, Rollup
<1> QED
  BY <1>1, TypeCorrect, ReadIsCurrentHolds, PTL DEF Spec, UpstreamKept

(* Prune: with one caller, and whatever the retention, a sample of any day   *)
(* but the one on which the rollup began is discarded only after its day    *)
(* has been sealed; and if samples are kept for a day at least, so is a      *)
(* sample of that day.                                                      *)
THEOREM NoSampleLost ==
    ASSUME Concurrent = FALSE
    PROVE  Spec => PruneKeepsUnrolled
<1> DEFINE Kept == \A i \in Ids : \A t \in samples[i] \ samples'[i] :
                      \/ buckets[i][Day(t)] # NoBucket
                      \/ RawAge < DayLength /\ Day(t) = Day(began)
<1>1. TypeOK /\ ReadIsCurrent /\ [Next]_vars => Kept
  <2> SUFFICES ASSUME TypeOK, ReadIsCurrent, [Next]_vars,
                      NEW i \in Ids, NEW t \in samples[i] \ samples'[i]
               PROVE  \/ buckets[i][Day(t)] # NoBucket
                      \/ RawAge < DayLength /\ Day(t) = Day(began)
    OBVIOUS
  <2>1. CASE Save
    BY <2>1 DEF Save, Memory!Save
  <2>2. CASE Prune
    <3>1. t \in Memory!Times /\ began \in Memory!Times /\ t \in Nat /\ began \in Nat
      BY DEF TypeOK, Memory!TypeOK, Memory!Times
    <3>2. DayLength \in Nat \ {0} /\ RawAge \in Nat
      BY SqlAssumption DEF SqlAssumption, Memory!HistoryAssumption
    <3>3. step = "prune" /\ t < began - RawAge
      BY <2>2, <3>1, <3>2 DEF Prune, Memory!Prune
    <3>4. Day(t) \in Int /\ Day(began) \in Int
      BY <3>1, DayInRange DEF Days, Memory!Days
    <3>5. ASSUME Day(t) < Day(began) PROVE buckets[i][Day(t)] # NoBucket
      <4>1. Day(t) <= Limit
        BY <3>4, <3>5 DEF Limit
      <4> QED
        BY <3>3, <4>1 DEF ReadIsCurrent
    <3>6. CASE RawAge >= DayLength
      <4>1. t + DayLength <= began
        BY <3>1, <3>2, <3>3, <3>6
      <4> QED
        BY <3>1, <3>5, <4>1, DayApart
    <3>7. CASE RawAge < DayLength
      <4>1. Day(t) <= Day(began)
        BY <3>1, <3>2, <3>3, DayOrder
      <4> QED
        BY <3>4, <3>5, <3>7, <4>1
    <3> QED
      BY <3>2, <3>6, <3>7
  <2>3. CASE Tick \/ UNCHANGED vars \/ RollupOnce \/ LoadSamples \/ ExistingDays
             \/ WriteBuckets \/ GiveUp
    BY <2>3 DEF Tick, vars, RollupOnce, LoadSamples, ExistingDays, WriteBuckets, GiveUp
  <2> QED
    BY <2>1, <2>2, <2>3 DEF Next, Rollup
<1> QED
  BY <1>1, TypeCorrect, ReadIsCurrentHolds, PTL DEF Spec, PruneKeepsUnrolled

-----------------------------------------------------------------------------
(* With one caller the SQL store is the in-memory store *)

(* A prune whose cutoffs lie before the origin discards what one at the      *)
(* origin does.                                                             *)
LEMMA PruneIsPrune ==
    ASSUME TypeOK, Prune
    PROVE  Memory!Next
<1> DEFINE early == IF began < RawAge THEN 0 ELSE began - RawAge
           old   == IF Day(began) < Retention THEN 0 ELSE Day(began) - Retention
<1>1. began \in Memory!Times /\ Day(began) \in Days /\ RawAge \in Nat /\ Retention \in Nat
  BY DayInRange, SqlAssumption DEF TypeOK, SqlAssumption
<1>2. early \in Memory!Times
  <2> DEFINE last == (MaxDay + 1) * DayLength - 1
  <2>1. last \in Int
    BY SqlAssumption DEF SqlAssumption, Memory!HistoryAssumption
  <2>2. began \in 0 .. last /\ 0 \in 0 .. last
    BY <1>1, Origin DEF Memory!Times
  <2>3. early \in 0 .. last
    <3> HIDE DEF last
    <3> QED
      BY <1>1, <2>1, <2>2
  <2> QED
    BY <2>3 DEF Memory!Times
<1>3. old \in Memory!Days
  BY <1>1, SqlAssumption DEF Days, Memory!Days, SqlAssumption, Memory!HistoryAssumption
<1>4. \A i \in Ids : \A t \in samples[i] : t >= early <=> t >= began - RawAge
  BY <1>1 DEF TypeOK, Memory!TypeOK, Memory!Times
<1>5. \A d \in Memory!Days : d < old <=> d < Day(began) - Retention
  BY <1>1 DEF Days, Memory!Days
<1> HIDE DEF early, old
<1>6. \A i \in Ids : {t \in samples[i] : t >= early} = {t \in samples[i] : t >= began - RawAge}
  BY <1>4
<1>7. samples' = [i \in Ids |-> {t \in samples[i] : t >= early}]
  BY <1>6 DEF Prune, Memory!Prune
<1>8. buckets' = [i \in Ids |-> [d \in Memory!Days |->
                    IF d < old THEN Memory!NoBucket ELSE buckets[i][d]]]
  BY <1>5 DEF Prune, Memory!Prune
<1>9. Memory!Prune(early, old)
  BY <1>7, <1>8 DEF Memory!Prune
<1> QED
  BY <1>2, <1>3, <1>9 DEF Memory!Next

(* Rollup's three queries amount to the atomic rollup at its limit.          *)
LEMMA WriteIsRollup ==
    ASSUME TypeOK, ReadIsCurrent, WriteBuckets
    PROVE  Memory!Next \/ UNCHANGED <<samples, buckets>>
<1>1. Limit \in Int /\ Limit < MaxDay /\ (Limit \in Memory!Days \/ Limit = -1)
  BY DayInRange, SqlAssumption DEF TypeOK, Limit, Days, Memory!Days, SqlAssumption, Memory!HistoryAssumption
<1>2. buckets' = [i \in Ids |-> [d \in Memory!Days |->
         IF d <= Limit /\ Memory!OfDay(samples[i], d) # {} /\ buckets[i][d] = Memory!NoBucket
         THEN Memory!Rolled(Memory!OfDay(samples[i], d)) ELSE buckets[i][d]]]
  <2>1. buckets' = [i \in Ids |-> [d \in Memory!Days |-> buckets'[i][d]]]
    BY DEF WriteBuckets, Days
  <2> QED
    BY <2>1, WritesUnrecorded DEF Days, NoBucket
<1>3. CASE Limit \in Memory!Days
  <2>1. Memory!Rollup(Limit)
    BY <1>2 DEF Memory!Rollup, WriteBuckets
  <2> QED
    BY <1>3, <2>1 DEF Memory!Next
<1>4. CASE Limit = -1
  <2>1. \A d \in Memory!Days : ~(d <= Limit)
    BY <1>4 DEF Memory!Days
  <2>2. buckets' = [i \in Ids |-> [d \in Memory!Days |-> buckets[i][d]]]
    BY <1>2, <2>1
  <2>3. buckets' = buckets
    BY <2>2 DEF TypeOK, Memory!TypeOK
  <2> QED
    BY <2>3 DEF WriteBuckets
<1> QED
  BY <1>1, <1>3, <1>4

(* storetest: whatever a caller can see of the SQL store it could have seen  *)
(* of the in-memory one, whose operations are atomic.                       *)
THEOREM Refines ==
    ASSUME Concurrent = FALSE
    PROVE  Spec => ImplementsMemory
<1>1. Init => Memory!Init
  BY DEF Init
<1>2. TypeOK /\ ReadIsCurrent /\ [Next]_vars => [Memory!Next]_<<samples, buckets>>
  <2> SUFFICES ASSUME TypeOK, ReadIsCurrent, [Next]_vars
               PROVE  Memory!Next \/ UNCHANGED <<samples, buckets>>
    OBVIOUS
  <2>1. CASE Save
    <3>1. PICK ids \in SUBSET Ids :
             \E at \in [ids -> {t \in Memory!Times : now - Lag <= t /\ t <= now}],
                days \in [ids -> SUBSET {d \in Days : d <= Day(now)}] :
                   Memory!Save(ids, at, days)
      BY <2>1 DEF Save
    <3>2. PICK at \in [ids -> {t \in Memory!Times : now - Lag <= t /\ t <= now}],
               days \in [ids -> SUBSET {d \in Days : d <= Day(now)}] :
                  Memory!Save(ids, at, days)
      BY <3>1
    <3>3. at \in [ids -> Memory!Times] /\ days \in [ids -> SUBSET Memory!Days]
      BY DEF Days
    <3> QED
      BY <3>2, <3>3 DEF Memory!Next
  <2>2. CASE WriteBuckets
    BY <2>2, WriteIsRollup
  <2>3. CASE Prune
    BY <2>3, PruneIsPrune
  <2>4. CASE Tick \/ UNCHANGED vars \/ RollupOnce \/ LoadSamples \/ ExistingDays \/ GiveUp
    BY <2>4 DEF Tick, vars, RollupOnce, LoadSamples, ExistingDays, GiveUp
  <2> QED
    BY <2>1, <2>2, <2>3, <2>4 DEF Next, Rollup
<1> QED
  BY <1>1, <1>2, TypeCorrect, ReadIsCurrentHolds, PTL
  DEF Spec, ImplementsMemory, Memory!Spec, Memory!storeVars

=============================================================================
