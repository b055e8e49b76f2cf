---------------------------- MODULE PullProofs ----------------------------
(* Theorems about PullDashboard, for any number of endpoints and services. *)
EXTENDS PullDashboard, Induction

USE RecorderAssumption, PullDashboardAssumption DEF Driver!PullAssumption

LEMMA EmptyTyped == EmptySnapshot \in Snapshot /\ Driver!EmptySnapshot = EmptySnapshot
BY DEF EmptySnapshot, Snapshot, Estate, Nothing, Driver!EmptySnapshot, Driver!Nothing

LEMMA SameTypes == Driver!Snapshot = Snapshot /\ Driver!Estate = Estate
BY DEF Driver!Snapshot, Snapshot, Driver!Estate, Estate

(* Merging keeps the type, and an id that some endpoint has.                 *)
LEMMA MergedTyped ==
    ASSUME NEW l \in [Driver!Endpoints -> Estate]
    PROVE  /\ Driver!Merged(l) \in Estate
           /\ \A e \in Driver!Endpoints, i \in Ids :
                 l[e][i] # Absent => Driver!Merged(l)[i] # Absent
<1>1. ASSUME NEW i \in Ids
      PROVE  /\ Driver!Merged(l)[i] \in Readings \cup {Absent}
             /\ \A e \in Driver!Endpoints : l[e][i] # Absent => Driver!Merged(l)[i] # Absent
  <2> DEFINE having == {e \in Driver!Endpoints : l[e][i] # Absent}
             first == CHOOSE e \in having : \A f \in having : e <= f
  <2>1. Driver!Merged(l)[i] = IF having = {} THEN Absent ELSE l[first][i]
    BY <1>1 DEF Driver!Merged
  <2>2. having # {} => first \in having
    <3>1. having \in SUBSET Nat
      BY DEF Driver!Endpoints
    <3> QED BY <3>1, HasLeast
  <2>3. \A e \in Driver!Endpoints : l[e][i] \in Readings \cup {Absent}
    BY DEF Estate
  <2> QED BY <2>1, <2>2, <2>3
<1> QED BY <1>1 DEF Driver!Merged, Estate

-----------------------------------------------------------------------------
(* Type correctness.                                                        *)

LEMMA RecorderTyped ==
    ASSUME TypeOK, SyncStep(Runner) \/ Boot \/ RunLoop \/ SyncTick \/ RollupTick \/ Signal
    PROVE  RecorderTypeOK' /\ pc' \in [Syncers -> RunnerSteps] /\ src' = src
<1> USE EmptyTyped DEF TypeOK, RecorderTypeOK, Return, Goto, RunnerSteps, SyncSteps
<1>1. CASE SyncStep(Runner)
  <2>1. CASE SyncSave(Runner)
    <3>1. live[Runner].services \in Estate /\ live[Runner].gen \in Nat
      BY DEF Snapshot
    <3>2. rows' \in Estate /\ updatedAt' \in [Ids -> Nat]
      BY <2>1, <3>1 DEF SyncSave, Overlay, Estate
    <3> QED BY <2>1, <3>2 DEF SyncSave
  <2>2. CASE SyncRead(Runner) \/ SyncCheck(Runner) \/ SyncMark(Runner)
             \/ SyncSaveFails(Runner) \/ Publish(Runner)
    BY <2>2 DEF SyncRead, SyncCheck, SyncMark, SyncSaveFails, Publish, Snapshot
  <2> QED BY <1>1, <2>1, <2>2 DEF SyncStep
<1>2. CASE Boot
  <2>1. CASE LoadStored
    <3>1. PICK newest \in {updatedAt[i] : i \in Ids} :
             live' = [live EXCEPT ![Runner] = [services |-> rows, gen |-> newest]]
      BY <2>1 DEF LoadStored
    <3>2. [services |-> rows, gen |-> newest] \in Snapshot
      BY <3>1 DEF Snapshot
    <3> QED BY <2>1, <3>1, <3>2 DEF LoadStored
  <2>2. CASE Start \/ LoadFails \/ AdoptLive \/ Booted \/ Listen
    BY <2>2 DEF Start, LoadFails, AdoptLive, Booted, Listen, Phases
  <2> QED BY <1>2, <2>1, <2>2 DEF Boot
<1>3. CASE RunLoop \/ SyncTick \/ RollupTick \/ Signal
  BY <1>3 DEF RunLoop, Loop, RollupAndPrune, RollupOrPruneFails, FinalSync, Stopped,
     SyncTick, RollupTick, Signal, Phases
<1> QED BY <1>1, <1>2, <1>3

LEMMA DriverTyped ==
    ASSUME TypeOK, Polling \/ \E e \in Driver!Endpoints : Publishing(e)
    PROVE  Driver!TypeOK'
<1> USE SameTypes, EmptyTyped DEF TypeOK, RecorderTypeOK, Driver!TypeOK, Driver!Goto, Driver!PollSteps
<1>1. CASE Driver!FirstPoll
  BY <1>1 DEF Driver!FirstPoll, Driver!Endpoints
<1>2. CASE Driver!Run
  BY <1>2 DEF Driver!Run, Driver!Endpoints
<1>3. ASSUME NEW e \in Driver!Endpoints, Driver!FetchFails(e) PROVE Driver!TypeOK'
  BY <1>3 DEF Driver!FetchFails
<1>4. ASSUME NEW e \in Driver!Endpoints, Driver!FetchSucceeds(e) PROVE Driver!TypeOK'
  <2>1. PICK some \in (SUBSET Claims[e]) \ {{}}, v \in Values :
           result' = [result EXCEPT ![e] =
              [services |-> [i \in Ids |-> IF i \in some THEN <<e, v>> ELSE Absent],
               gen |-> clock']]
    BY <1>4 DEF Driver!FetchSucceeds
  <2>2. [i \in Ids |-> IF i \in some THEN <<e, v>> ELSE Absent] \in Estate
    BY DEF Estate, Driver!Reports
  <2>3. clock' \in 0 .. MaxClock /\ clock' \in Nat
    BY <1>4 DEF Driver!FetchSucceeds
  <2>4. result' \in [Driver!Endpoints -> Snapshot]
    BY <2>1, <2>2, <2>3 DEF Snapshot
  <2> QED BY <1>4, <2>3, <2>4 DEF Driver!FetchSucceeds
<1>5. ASSUME NEW e \in Driver!Endpoints, Driver!MergeLatest(e) PROVE Driver!TypeOK'
  <2>1. latest' \in [Driver!Endpoints -> Estate]
    BY <1>5 DEF Driver!MergeLatest, Snapshot
  <2>2. Driver!Merged(latest') \in Estate
    BY <2>1, MergedTyped
  <2>3. result' \in [Driver!Endpoints -> Snapshot]
    BY <1>5, <2>2 DEF Driver!MergeLatest, Snapshot
  <2> QED BY <1>5, <2>1, <2>3 DEF Driver!MergeLatest
<1>6. ASSUME NEW e \in Driver!Endpoints, Driver!StoreSnap(e) PROVE Driver!TypeOK'
  BY <1>6 DEF Driver!StoreSnap
<1>7. ASSUME NEW e \in Driver!Endpoints, Driver!NextPoll(e) PROVE Driver!TypeOK'
  BY <1>7 DEF Driver!NextPoll
<1> QED BY <1>1, <1>2, <1>3, <1>4, <1>5, <1>6, <1>7 DEF Polling, Publishing

LEMMA ExitTyped ==
    ASSUME TypeOK, ProcessEnds
    PROVE  TypeOK'
<1> USE SameTypes, EmptyTyped DEF TypeOK
<1>1. RecorderTypeOK' /\ pc' \in [Syncers -> RunnerSteps]
  BY DEF RecorderTypeOK, ProcessEnds, Halt, Phases, RunnerSteps
<1>2. Driver!TypeOK'
  BY DEF ProcessEnds, Driver!Exit, Driver!TypeOK, Driver!NoResults, Driver!Unpolled,
     Driver!NoFailures, Driver!NoSnapshots, Driver!PollSteps, Driver!Nothing, Estate,
     Driver!Endpoints
<1> QED BY <1>1, <1>2 DEF ProcessEnds

LEMMA InitTyped == Init => TypeOK
BY SameTypes, EmptyTyped DEF Init, TypeOK, RecorderInit, RecorderTypeOK, Driver!Init, Driver!TypeOK,
   Driver!NoResults, Driver!Unpolled, Driver!NoFailures, Driver!NoSnapshots, Driver!PollSteps,
   Driver!Nothing, Estate, Nothing, Phases, RunnerSteps, Driver!Endpoints

LEMMA NextTyped ==
    ASSUME TypeOK, [Next]_vars
    PROVE  TypeOK'
<1>1. CASE Drive(Polling) \/ \E e \in Driver!Endpoints : Drive(Publishing(e))
  <2>1. Driver!TypeOK'
    BY <1>1, DriverTyped DEF Drive
  <2>2. UNCHANGED <<merged, lastSeen, rows, updatedAt, phase, halts, pc, live, attempted>>
    BY <1>1 DEF Drive, storageVars
  <2> QED BY <2>1, <2>2, SameTypes DEF TypeOK, RecorderTypeOK, Driver!TypeOK
<1>2. CASE Syncing \/ Quiet(Boot) \/ Quiet(RunLoop) \/ Quiet(SyncTick) \/ Quiet(RollupTick)
           \/ Quiet(Signal)
  <2>1. RecorderTypeOK' /\ pc' \in [Syncers -> RunnerSteps] /\ src' = src
    BY <1>2, RecorderTyped DEF Syncing, Quiet
  <2>2. UNCHANGED localVars
    BY <1>2 DEF Syncing, Quiet
  <2>3. live[Runner].gen \in Nat /\ attempted \subseteq Nat
    BY DEF TypeOK, RecorderTypeOK, Snapshot
  <2>4. attempted' = attempted \/ attempted' = attempted \cup {live[Runner].gen}
    BY <1>2 DEF Syncing, Quiet
  <2> QED BY <2>1, <2>2, <2>3, <2>4 DEF TypeOK, Driver!TypeOK, localVars
<1>3. CASE ProcessEnds
  BY <1>3, ExitTyped
<1>4. CASE UNCHANGED vars
  BY <1>4 DEF vars, recorderVars, localVars, TypeOK, RecorderTypeOK, Driver!TypeOK
<1> QED BY <1>1, <1>2, <1>3, <1>4 DEF Next

(* Type correctness of the pull deployment, driver and recorder together.    *)
THEOREM TypeCorrect == Spec => []TypeOK
BY InitTyped, NextTyped, PTL DEF Spec

-----------------------------------------------------------------------------
(* No snapshot is saved twice.                                              *)

Carrying(e) == poll[e] \in {"publish", "store"}

(* A generation the driver still carries is known to nobody else.            *)
Fresh ==
    \A e \in Driver!Endpoints : Carrying(e) =>
        /\ result[e].gen \in 1 .. clock
        /\ result[e].gen \notin attempted \cup {src.gen, lastSeen}
        /\ pc[Runner] \in {"check", "mark", "save"} => result[e].gen # live[Runner].gen
        /\ \A f \in Driver!Endpoints \ {e} : Carrying(f) => result[f].gen # result[e].gen

(* Of the snapshots that were handed to Save the source can hold only the    *)
(* one that lastSeen remembers.                                             *)
OnlyLastSeen ==
    /\ src.gen \in attempted => lastSeen = src.gen
    /\ pc[Runner] = "check" => (live[Runner].gen \in attempted => lastSeen = live[Runner].gen)
    /\ pc[Runner] \in {"mark", "save"} => live[Runner].gen \notin attempted
    /\ pc[Runner] = "save" => lastSeen = live[Runner].gen
    /\ pc[Runner] \in {"check", "mark", "save"}
       => (src.gen = live[Runner].gen \/ src.gen \notin attempted) /\ live[Runner].gen # 0

(* Generations are clock values already read.                               *)
Dated ==
    /\ src.gen \in 0 .. clock
    /\ lastSeen \in 0 .. clock
    /\ attempted \subseteq 1 .. clock
    /\ pc[Runner] \in {"check", "mark", "save"} => live[Runner].gen \in 0 .. clock
    /\ src.gen = 0 => IsEmpty(src)

SaveInv == TypeOK /\ Fresh /\ OnlyLastSeen /\ Dated

(* The poller only takes new generations, and moves one to the source.       *)
LEMMA DrivingSaves ==
    ASSUME SaveInv, Drive(Polling) \/ \E e \in Driver!Endpoints : Drive(Publishing(e))
    PROVE  Fresh' /\ OnlyLastSeen' /\ Dated'
<1> USE DEF SaveInv
<1>1. UNCHANGED <<lastSeen, pc, live, attempted>>
  BY DEF Drive, storageVars
<1>2. /\ clock \in Nat /\ poll \in [Driver!Endpoints -> Driver!PollSteps]
      /\ result \in [Driver!Endpoints -> Snapshot]
  BY SameTypes DEF TypeOK, Driver!TypeOK
<1>3. CASE Polling /\ ~\E e \in Driver!Endpoints : Driver!FetchSucceeds(e)
  <2>1. UNCHANGED <<src, clock, result>>
    BY <1>3 DEF Polling, Driver!FirstPoll, Driver!Run, Driver!FetchFails, Driver!NextPoll
  <2>2. \A e \in Driver!Endpoints : Carrying(e)' => Carrying(e)
    BY <1>2, <1>3 DEF Polling, Driver!FirstPoll, Driver!Run, Driver!FetchFails, Driver!NextPoll,
       Driver!Goto, Carrying
  <2> QED BY <1>1, <2>1, <2>2 DEF Fresh, OnlyLastSeen, Dated, IsEmpty
<1>4. ASSUME NEW e \in Driver!Endpoints, Driver!FetchSucceeds(e)
      PROVE  Fresh' /\ OnlyLastSeen' /\ Dated'
  <2>1. src' = src /\ clock' = clock + 1 /\ result'[e].gen = clock + 1
    BY <1>2, <1>4 DEF Driver!FetchSucceeds
  <2>2. \A f \in Driver!Endpoints \ {e} : result'[f] = result[f] /\ (Carrying(f)' <=> Carrying(f))
    BY <1>2, <1>4 DEF Driver!FetchSucceeds, Driver!Goto, Carrying
  <2>3. Dated'
    BY <1>1, <1>2, <2>1 DEF Dated, IsEmpty
  <2>4. OnlyLastSeen'
    BY <1>1, <2>1 DEF OnlyLastSeen
  <2>5. ASSUME NEW f \in Driver!Endpoints, Carrying(f)'
        PROVE  /\ result'[f].gen \in 1 .. clock'
               /\ result'[f].gen \notin attempted' \cup {src'.gen, lastSeen'}
               /\ pc'[Runner] \in {"check", "mark", "save"} => result'[f].gen # live'[Runner].gen
    BY <1>1, <1>2, <2>1, <2>2, <2>5 DEF Fresh, Dated
  <2>6. ASSUME NEW f \in Driver!Endpoints, NEW g \in Driver!Endpoints \ {f},
               Carrying(f)', Carrying(g)'
        PROVE  result'[g].gen # result'[f].gen
    BY <1>2, <2>1, <2>2, <2>6 DEF Fresh
  <2> QED BY <2>3, <2>4, <2>5, <2>6 DEF Fresh
<1>5. ASSUME NEW e \in Driver!Endpoints, Driver!MergeLatest(e)
      PROVE  Fresh' /\ OnlyLastSeen' /\ Dated'
  <2>1. UNCHANGED <<src, clock>>
    BY <1>5 DEF Driver!MergeLatest
  <2>2. \A f \in Driver!Endpoints : result'[f].gen = result[f].gen /\ (Carrying(f)' <=> Carrying(f))
    BY <1>2, <1>5 DEF Driver!MergeLatest, Driver!Goto, Carrying, Snapshot
  <2> QED BY <1>1, <2>1, <2>2 DEF Fresh, OnlyLastSeen, Dated, IsEmpty
<1>6. ASSUME NEW e \in Driver!Endpoints, Driver!StoreSnap(e)
      PROVE  Fresh' /\ OnlyLastSeen' /\ Dated'
  <2>1. clock' = clock /\ src' = result[e] /\ Carrying(e) /\ ~Carrying(e)'
    BY <1>2, <1>6 DEF Driver!StoreSnap, Driver!Goto, Carrying
  <2>2. \A f \in Driver!Endpoints \ {e} : result'[f] = result[f] /\ (Carrying(f)' <=> Carrying(f))
    BY <1>2, <1>6 DEF Driver!StoreSnap, Driver!Goto, Carrying
  <2>3. src'.gen \in 1 .. clock /\ src'.gen \notin attempted
    BY <2>1 DEF Fresh
  <2>4. OnlyLastSeen' /\ Dated'
    BY <1>1, <1>2, <2>1, <2>3 DEF OnlyLastSeen, Dated
  <2>5. Fresh'
    BY <1>1, <2>1, <2>2 DEF Fresh
  <2> QED BY <2>4, <2>5
<1> QED BY <1>3, <1>4, <1>5, <1>6 DEF Drive, Publishing

LEMMA SyncingSaves ==
    ASSUME SaveInv, Syncing
    PROVE  Fresh' /\ OnlyLastSeen' /\ Dated'
<1> USE DEF SaveInv
<1>1. UNCHANGED <<src, poll, result, clock>>
  BY DEF Syncing, localVars, SyncStep, SyncRead, SyncCheck, SyncMark, SyncSave, SyncSaveFails,
     Publish
<1>2. pc \in [Syncers -> RunnerSteps] /\ live \in [Syncers -> Snapshot] /\ clock \in Nat
  BY DEF TypeOK, RecorderTypeOK, Driver!TypeOK
<1>3. \A e \in Driver!Endpoints : Carrying(e)' <=> Carrying(e)
  BY <1>1 DEF Carrying
<1> USE DEF Return, Goto
<1>4. CASE SyncRead(Runner)
  <2>1. UNCHANGED <<lastSeen, attempted>>
    BY <1>4 DEF Syncing, SyncRead
  <2>2. \/ pc'[Runner] = "done"
        \/ pc'[Runner] = "check" /\ live'[Runner] = src /\ ~IsEmpty(src)
    BY <1>2, <1>4 DEF SyncRead
  <2> QED BY <1>1, <1>3, <2>1, <2>2 DEF Fresh, OnlyLastSeen, Dated, IsEmpty
<1>5. CASE SyncCheck(Runner)
  <2>1. UNCHANGED <<lastSeen, attempted>> /\ pc[Runner] = "check"
    BY <1>5 DEF Syncing, SyncCheck
  <2>2. \/ pc'[Runner] = "done"
        \/ pc'[Runner] = "mark" /\ live' = live /\ ~SeenBefore(live[Runner])
    BY <1>2, <1>5 DEF SyncCheck
  <2> QED BY <1>1, <1>3, <2>1, <2>2 DEF Fresh, OnlyLastSeen, Dated, IsEmpty, SeenBefore
<1>6. CASE SyncMark(Runner)
  <2>1. /\ attempted' = attempted /\ live' = live /\ lastSeen' = live[Runner].gen
        /\ pc[Runner] = "mark" /\ pc'[Runner] = "save"
    BY <1>2, <1>6 DEF Syncing, SyncMark
  <2> QED BY <1>1, <1>3, <2>1 DEF Fresh, OnlyLastSeen, Dated, IsEmpty
<1>7. CASE SyncSave(Runner) \/ SyncSaveFails(Runner)
  <2>1. /\ attempted' = attempted \cup {live[Runner].gen} /\ lastSeen' = lastSeen
        /\ pc[Runner] = "save" /\ pc'[Runner] = "publish"
    BY <1>2, <1>7 DEF Syncing, SyncSave, SyncSaveFails
  <2>2. Fresh'
    BY <1>1, <1>3, <2>1 DEF Fresh
  <2>3. OnlyLastSeen'
    BY <1>1, <2>1 DEF OnlyLastSeen
  <2>4. live[Runner].gen \in 1 .. clock
    BY <1>2, <2>1 DEF OnlyLastSeen, Dated
  <2>5. Dated'
    BY <1>1, <2>1, <2>4 DEF Dated, IsEmpty
  <2> QED BY <2>2, <2>3, <2>5
<1>8. CASE Publish(Runner)
  <2>1. UNCHANGED <<lastSeen, attempted>> /\ pc'[Runner] = "done"
    BY <1>2, <1>8 DEF Syncing, Publish
  <2> QED BY <1>1, <1>3, <2>1 DEF Fresh, OnlyLastSeen, Dated, IsEmpty
<1> QED BY <1>4, <1>5, <1>6, <1>7, <1>8 DEF Syncing, SyncStep

LEMMA QuietSaves ==
    ASSUME SaveInv, Quiet(Boot) \/ Quiet(RunLoop) \/ Quiet(SyncTick) \/ Quiet(RollupTick) \/ Quiet(Signal)
    PROVE  Fresh' /\ OnlyLastSeen' /\ Dated'
<1> USE DEF SaveInv
<1>1. UNCHANGED <<src, lastSeen, poll, result, clock, attempted>>
  BY DEF Quiet, localVars, Boot, Start, LoadStored, LoadFails, AdoptLive, Booted, Listen,
     RunLoop, Loop, RollupAndPrune, RollupOrPruneFails, FinalSync, Stopped,
     SyncTick, RollupTick, Signal
<1>2. pc'[Runner] \notin {"check", "mark", "save"} \/ (pc' = pc /\ live' = live)
  BY DEF TypeOK, RecorderTypeOK, Goto, Return, Quiet, Boot, Start, LoadStored, LoadFails,
     AdoptLive, Booted, Listen, RunLoop, Loop, RollupAndPrune, RollupOrPruneFails, FinalSync,
     Stopped, SyncTick, RollupTick, Signal
<1> QED BY <1>1, <1>2 DEF Fresh, OnlyLastSeen, Dated, IsEmpty, Carrying

LEMMA SaveInvStep ==
    ASSUME SaveInv, [Next]_vars
    PROVE  SaveInv'
<1>0. TypeOK'
  BY NextTyped DEF SaveInv
<1>1. CASE ProcessEnds
  <2>1. /\ src' = EmptySnapshot /\ lastSeen' = 0 /\ attempted' = {} /\ clock' = clock
        /\ pc'[Runner] = "off" /\ \A e \in Driver!Endpoints : ~Carrying(e)'
    BY <1>1, EmptyTyped DEF ProcessEnds, Halt, Driver!Exit, Driver!Unpolled, Carrying
  <2>2. clock \in Nat
    BY DEF SaveInv, TypeOK, Driver!TypeOK
  <2> QED BY <1>0, <2>1, <2>2 DEF SaveInv, Fresh, OnlyLastSeen, Dated, IsEmpty, EmptySnapshot
<1>2. CASE UNCHANGED vars
  BY <1>0, <1>2 DEF SaveInv, vars, recorderVars, localVars, Fresh, OnlyLastSeen, Dated, IsEmpty,
     Carrying
<1> QED BY <1>0, <1>1, <1>2, DrivingSaves, SyncingSaves, QuietSaves DEF Next, SaveInv

(* What the Runner hands to Store.Save it has never handed to it before, for *)
(* every number of endpoints and every order of their publishes.            *)
THEOREM NoDuplicateSamples == Spec => []SavedOnce
<1>1. Init => SaveInv
  <2> SUFFICES ASSUME Init PROVE SaveInv
    OBVIOUS
  <2>1. /\ src = EmptySnapshot /\ lastSeen = 0 /\ attempted = {} /\ clock = 0
        /\ pc[Runner] = "off" /\ \A e \in Driver!Endpoints : ~Carrying(e)
    BY DEF Init, RecorderInit, Driver!Init, Driver!Unpolled, Carrying
  <2> QED BY <2>1, InitTyped DEF SaveInv, Fresh, OnlyLastSeen, Dated, IsEmpty, EmptySnapshot
<1>2. SaveInv => SavedOnce
  BY DEF SaveInv, OnlyLastSeen, SavedOnce
<1> QED BY <1>1, <1>2, SaveInvStep, PTL DEF Spec

-----------------------------------------------------------------------------
(* Readers are never blanked.                                               *)

(* A snapshot with services exists only while the source or the store has    *)
(* some.                                                                    *)
Backed(snap) == ~IsEmpty(snap) => ~IsEmpty(src) \/ rows # Nothing

Alive ==
    /\ \A e \in Driver!Endpoints : Carrying(e) => ~IsEmpty(result[e])
    /\ Backed(live[Runner])
    /\ merged # NoSnapshot => Backed(merged)
    /\ pc[Runner] = "adopt" => live[Runner].services = rows
    /\ pc[Runner] \in {"check", "mark", "save"} => ~IsEmpty(live[Runner])
    /\ pc[Runner] = "publish" /\ merged # NoSnapshot /\ ~IsEmpty(merged)
       => ~IsEmpty(live[Runner])

BlankInv == TypeOK /\ Alive

LEMMA DrivingBlanks ==
    ASSUME BlankInv, Drive(Polling) \/ \E e \in Driver!Endpoints : Drive(Publishing(e))
    PROVE  Alive' /\ merged' = merged
<1> USE DEF BlankInv
<1>1. UNCHANGED <<merged, rows, pc, live>>
  BY DEF Drive, storageVars
<1>2. /\ latest \in [Driver!Endpoints -> Estate]
      /\ poll \in [Driver!Endpoints -> Driver!PollSteps]
      /\ result \in [Driver!Endpoints -> Snapshot]
  BY SameTypes DEF TypeOK, Driver!TypeOK
<1>3. /\ ~IsEmpty(src) => ~IsEmpty(src')
      /\ \A f \in Driver!Endpoints : Carrying(f)' => ~IsEmpty(result'[f])
  <2>1. CASE Polling /\ ~\E e \in Driver!Endpoints : Driver!FetchSucceeds(e)
    <3>1. UNCHANGED <<src, result>>
      BY <2>1 DEF Polling, Driver!FirstPoll, Driver!Run, Driver!FetchFails, Driver!NextPoll
    <3>2. \A e \in Driver!Endpoints : Carrying(e)' => Carrying(e)
      BY <1>2, <2>1 DEF Polling, Driver!FirstPoll, Driver!Run, Driver!FetchFails, Driver!NextPoll,
         Driver!Goto, Carrying
    <3> QED BY <3>1, <3>2 DEF Alive
  <2>2. ASSUME NEW e \in Driver!Endpoints, Driver!FetchSucceeds(e)
        PROVE  <1>3!1 /\ <1>3!2
    <3>1. PICK some \in (SUBSET Claims[e]) \ {{}}, v \in Values :
             result' = [result EXCEPT ![e] =
                [services |-> [i \in Ids |-> IF i \in some THEN <<e, v>> ELSE Absent],
                 gen |-> clock']]
      BY <2>2 DEF Driver!FetchSucceeds
    <3>2. PICK i \in some : i \in Ids
      <4>1. Claims[e] \subseteq Ids
        OBVIOUS
      <4>2. some \subseteq Claims[e] /\ some # {}
        BY <3>1
      <4> QED BY <4>1, <4>2, Zenon
    <3>3. <<e, v>> # Absent
      OBVIOUS
    <3>4. result'[e].services[i] # Nothing[i]
      BY <1>2, <3>1, <3>2, <3>3 DEF Nothing
    <3>5. ~IsEmpty(result'[e])
      BY <3>4 DEF IsEmpty
    <3>6. \A f \in Driver!Endpoints \ {e} : result'[f] = result[f] /\ (Carrying(f)' <=> Carrying(f))
      BY <1>2, <2>2 DEF Driver!FetchSucceeds, Driver!Goto, Carrying
    <3>7. src' = src
      BY <2>2 DEF Driver!FetchSucceeds
    <3> QED BY <3>5, <3>6, <3>7 DEF Alive
  <2>3. ASSUME NEW e \in Driver!Endpoints, Driver!MergeLatest(e)
        PROVE  <1>3!1 /\ <1>3!2
    <3>1. latest' \in [Driver!Endpoints -> Estate] /\ latest'[e] = result[e].services
      BY <1>2, <2>3 DEF Driver!MergeLatest, Snapshot
    <3>2. PICK i \in Ids : latest'[e][i] # Absent
      <4>1. Carrying(e) /\ ~IsEmpty(result[e]) /\ result[e].services \in Estate
        BY <1>2, <2>3 DEF Driver!MergeLatest, Carrying, Alive, Snapshot
      <4> QED BY <3>1, <4>1 DEF IsEmpty, Nothing, Estate
    <3>3. result'[e].services = Driver!Merged(latest')
      BY <1>2, <2>3 DEF Driver!MergeLatest, Snapshot
    <3>4. result'[e].services[i] # Nothing[i]
      BY <3>1, <3>2, <3>3, MergedTyped DEF Nothing
    <3>5. ~IsEmpty(result'[e])
      BY <3>4 DEF IsEmpty
    <3>6. \A f \in Driver!Endpoints \ {e} : result'[f] = result[f] /\ (Carrying(f)' <=> Carrying(f))
      BY <1>2, <2>3 DEF Driver!MergeLatest, Driver!Goto, Carrying
    <3>7. src' = src
      BY <2>3 DEF Driver!MergeLatest
    <3> QED BY <3>5, <3>6, <3>7 DEF Alive
  <2>4. ASSUME NEW e \in Driver!Endpoints, Driver!StoreSnap(e)
        PROVE  <1>3!1 /\ <1>3!2
    <3>1. src' = result[e] /\ Carrying(e) /\ ~Carrying(e)'
      BY <1>2, <2>4 DEF Driver!StoreSnap, Driver!Goto, Carrying
    <3>2. \A f \in Driver!Endpoints \ {e} : result'[f] = result[f] /\ (Carrying(f)' <=> Carrying(f))
      BY <1>2, <2>4 DEF Driver!StoreSnap, Driver!Goto, Carrying
    <3> QED BY <3>1, <3>2 DEF Alive
  <2> QED BY <2>1, <2>2, <2>3, <2>4 DEF Drive, Publishing
<1> QED BY <1>1, <1>3 DEF Alive, Backed, IsEmpty

LEMMA SyncingBlanks ==
    ASSUME BlankInv, Syncing
    PROVE  /\ Alive'
           /\ merged # NoSnapshot /\ ~IsEmpty(merged) => ~IsEmpty(merged')
<1> USE DEF BlankInv
<1>1. UNCHANGED <<src, poll, result>>
  BY DEF Syncing, localVars, SyncStep, SyncRead, SyncCheck, SyncMark, SyncSave, SyncSaveFails,
     Publish
<1>2. /\ pc \in [Syncers -> RunnerSteps] /\ live \in [Syncers -> Snapshot]
      /\ rows \in Estate /\ IsEmpty(EmptySnapshot)
  BY DEF TypeOK, RecorderTypeOK, IsEmpty, EmptySnapshot
<1>3. \A e \in Driver!Endpoints : Carrying(e)' => ~IsEmpty(result'[e])
  BY <1>1 DEF Carrying, Alive
<1> USE DEF Return, Goto
<1>4. CASE SyncRead(Runner)
  <2>1. /\ UNCHANGED <<merged, rows>>
        /\ \/ pc'[Runner] = "done" /\ live'[Runner] = EmptySnapshot
           \/ pc'[Runner] = "check" /\ live'[Runner] = src /\ ~IsEmpty(src)
    BY <1>2, <1>4 DEF SyncRead
  <2> QED BY <1>1, <1>2, <1>3, <2>1 DEF Alive, Backed, IsEmpty
<1>5. CASE SyncCheck(Runner) \/ SyncMark(Runner)
  <2>1. /\ UNCHANGED <<merged, rows>> /\ pc[Runner] \in {"check", "mark"}
        /\ \/ pc'[Runner] = "done" /\ live'[Runner] = EmptySnapshot
           \/ pc'[Runner] \in {"mark", "save"} /\ live' = live
    BY <1>2, <1>5 DEF SyncCheck, SyncMark
  <2> QED BY <1>1, <1>2, <1>3, <2>1 DEF Alive, Backed, IsEmpty
<1>6. CASE SyncSave(Runner) \/ SyncSaveFails(Runner)
  <2>1. UNCHANGED <<merged, live>> /\ pc[Runner] = "save" /\ pc'[Runner] = "publish"
    BY <1>2, <1>6 DEF SyncSave, SyncSaveFails
  <2>2. rows # Nothing => rows' # Nothing
    <3> SUFFICES ASSUME rows # Nothing, SyncSave(Runner) PROVE rows' # Nothing
      BY <1>6 DEF SyncSaveFails
    <3>1. PICK i \in Ids : rows[i] # Absent
      BY <1>2 DEF Nothing, Estate
    <3>2. rows'[i] # Nothing[i]
      BY <3>1 DEF SyncSave, Overlay, Nothing
    <3> QED BY <3>2
  <2> QED BY <1>1, <1>3, <2>1, <2>2 DEF Alive, Backed, IsEmpty
<1>7. CASE Publish(Runner)
  <2>1. /\ merged' = live[Runner] /\ rows' = rows /\ pc[Runner] = "publish"
        /\ pc'[Runner] = "done" /\ live'[Runner] = EmptySnapshot
    BY <1>2, <1>7 DEF Publish
  <2> QED BY <1>1, <1>2, <1>3, <2>1 DEF Alive, Backed, IsEmpty
<1> QED BY <1>4, <1>5, <1>6, <1>7 DEF Syncing, SyncStep

LEMMA QuietBlanks ==
    ASSUME BlankInv,
           Quiet(Boot) \/ Quiet(RunLoop) \/ Quiet(SyncTick) \/ Quiet(RollupTick) \/ Quiet(Signal)
    PROVE  Alive' /\ merged' = merged
<1> USE DEF BlankInv
<1>1. UNCHANGED <<src, merged, rows, poll, result>>
  BY DEF Quiet, localVars, Boot, Start, LoadStored, LoadFails, AdoptLive, Booted, Listen,
     RunLoop, Loop, RollupAndPrune, RollupOrPruneFails, FinalSync, Stopped,
     SyncTick, RollupTick, Signal
<1>2. \/ pc'[Runner] \notin {"adopt", "check", "mark", "save", "publish"}
         /\ live'[Runner] \in {live[Runner], EmptySnapshot}
      \/ pc' = pc /\ live' = live
      \/ pc'[Runner] = "adopt" /\ live'[Runner].services = rows
      \/ /\ pc[Runner] = "adopt" /\ pc'[Runner] = "publish"
         /\ live'[Runner] = IF IsEmpty(src) THEN live[Runner] ELSE src
  BY DEF TypeOK, RecorderTypeOK, Goto, Return, Quiet, Boot, Start, LoadStored, LoadFails,
     AdoptLive, Booted, Listen, RunLoop, Loop, RollupAndPrune, RollupOrPruneFails, FinalSync,
     Stopped, SyncTick, RollupTick, Signal
<1>3. IsEmpty(EmptySnapshot)
  BY DEF IsEmpty, EmptySnapshot
<1> QED BY <1>1, <1>2, <1>3 DEF Alive, Backed, IsEmpty, Carrying

LEMMA BlankInvStep ==
    ASSUME BlankInv, [Next]_vars
    PROVE  /\ BlankInv'
           /\ merged # NoSnapshot /\ merged' # NoSnapshot /\ ~IsEmpty(merged)
              => ~IsEmpty(merged')
<1>0. TypeOK'
  BY NextTyped DEF BlankInv
<1>1. CASE ProcessEnds
  <2>1. /\ live'[Runner] = EmptySnapshot /\ merged' = NoSnapshot
        /\ pc'[Runner] = "off" /\ \A e \in Driver!Endpoints : ~Carrying(e)'
    BY <1>1 DEF ProcessEnds, Halt, Driver!Exit, Driver!Unpolled, Carrying
  <2> QED BY <1>0, <2>1 DEF BlankInv, Alive, Backed, IsEmpty, EmptySnapshot
<1>2. CASE UNCHANGED vars
  BY <1>0, <1>2 DEF BlankInv, vars, recorderVars, localVars, Alive, Backed, IsEmpty, Carrying
<1>3. CASE Drive(Polling) \/ \E e \in Driver!Endpoints : Drive(Publishing(e))
  BY <1>0, <1>3, DrivingBlanks DEF BlankInv, IsEmpty
<1>4. CASE Syncing
  BY <1>0, <1>4, SyncingBlanks DEF BlankInv
<1>5. CASE Quiet(Boot) \/ Quiet(RunLoop) \/ Quiet(SyncTick) \/ Quiet(RollupTick) \/ Quiet(Signal)
  BY <1>0, <1>5, QuietBlanks DEF BlankInv, IsEmpty
<1> QED BY <1>1, <1>2, <1>3, <1>4, <1>5 DEF Next

(* A failing upstream, an empty source and a rollup never blank the page.    *)
THEOREM NoBlanking == Spec => NeverBlanks
<1>1. Init => BlankInv
  <2> SUFFICES ASSUME Init PROVE BlankInv
    OBVIOUS
  <2>1. /\ live[Runner] = EmptySnapshot /\ merged = NoSnapshot
        /\ pc[Runner] = "off" /\ \A e \in Driver!Endpoints : ~Carrying(e)
    BY DEF Init, RecorderInit, Driver!Init, Driver!Unpolled, Carrying
  <2> QED BY <2>1, InitTyped DEF BlankInv, Alive, Backed, IsEmpty, EmptySnapshot
<1>2. BlankInv /\ [Next]_vars => BlankInv'
  BY BlankInvStep
<1>3. BlankInv /\ [Next]_vars
      => [merged # NoSnapshot /\ merged' # NoSnapshot /\ ~IsEmpty(merged)
          => ~IsEmpty(merged')]_vars
  BY BlankInvStep
<1> QED BY <1>1, <1>2, <1>3, PTL DEF Spec, NeverBlanks

-----------------------------------------------------------------------------
(* Backoff and health.                                                      *)

(* A poll that is about to swap its snapshot in has cleared its error.       *)
HealthInv ==
    /\ TypeOK
    /\ \A e \in Driver!Endpoints : poll[e] = "store" => e \notin lastErr
    /\ BackoffMatchesHealth

LEMMA DrivingHealth ==
    ASSUME HealthInv, Polling \/ \E e \in Driver!Endpoints : Publishing(e)
    PROVE  /\ \A e \in Driver!Endpoints : poll'[e] = "store" => e \notin lastErr'
           /\ BackoffMatchesHealth'
<1> USE DEF HealthInv, BackoffMatchesHealth, Driver!Running, Driver!Goto
<1>1. /\ poll \in [Driver!Endpoints -> Driver!PollSteps] /\ boot \in 0 .. (Last + 1)
      /\ failures \in [Driver!Endpoints -> 0 .. BackoffCap] /\ BackoffCap \in Nat \ {0}
  BY DEF TypeOK, Driver!TypeOK
<1>2. CASE Driver!FirstPoll
  BY <1>1, <1>2 DEF Driver!FirstPoll, Driver!Endpoints
<1>3. CASE Driver!Run
  BY <1>3 DEF Driver!Run
<1>4. ASSUME NEW e \in Driver!Endpoints, Driver!FetchFails(e)
      PROVE  /\ \A f \in Driver!Endpoints : poll'[f] = "store" => f \notin lastErr'
             /\ BackoffMatchesHealth'
  <2>1. /\ poll'[e] = "wait" /\ e \in lastErr' /\ boot' = boot
        /\ boot = Last + 1 => failures'[e] > 0
    BY <1>1, <1>4 DEF Driver!FetchFails
  <2>2. \A f \in Driver!Endpoints \ {e} :
           poll'[f] = poll[f] /\ failures'[f] = failures[f] /\ (f \in lastErr' <=> f \in lastErr)
    BY <1>1, <1>4 DEF Driver!FetchFails
  <2> QED BY <2>1, <2>2
<1>5. ASSUME NEW e \in Driver!Endpoints, Driver!FetchSucceeds(e) \/ Driver!NextPoll(e)
      PROVE  /\ \A f \in Driver!Endpoints : poll'[f] = "store" => f \notin lastErr'
             /\ BackoffMatchesHealth'
  <2>1. /\ poll'[e] \in {"publish", "fetch"} /\ UNCHANGED <<lastErr, failures, boot>>
        /\ \A f \in Driver!Endpoints \ {e} : poll'[f] = poll[f]
    BY <1>1, <1>5 DEF Driver!FetchSucceeds, Driver!NextPoll
  <2> QED BY <2>1
<1>6. ASSUME NEW e \in Driver!Endpoints, Driver!MergeLatest(e)
      PROVE  /\ \A f \in Driver!Endpoints : poll'[f] = "store" => f \notin lastErr'
             /\ BackoffMatchesHealth'
  <2>1. /\ poll'[e] = "store" /\ e \notin lastErr' /\ UNCHANGED <<failures, boot>>
        /\ \A f \in Driver!Endpoints \ {e} : poll'[f] = poll[f] /\ (f \in lastErr' <=> f \in lastErr)
    BY <1>1, <1>6 DEF Driver!MergeLatest
  <2> QED BY <2>1
<1>7. ASSUME NEW e \in Driver!Endpoints, Driver!StoreSnap(e)
      PROVE  /\ \A f \in Driver!Endpoints : poll'[f] = "store" => f \notin lastErr'
             /\ BackoffMatchesHealth'
  <2>1. /\ poll[e] = "store" /\ poll'[e] = "wait" /\ failures'[e] = 0 /\ UNCHANGED <<lastErr, boot>>
        /\ \A f \in Driver!Endpoints \ {e} : poll'[f] = poll[f] /\ failures'[f] = failures[f]
    BY <1>1, <1>7 DEF Driver!StoreSnap
  <2> QED BY <2>1
<1> QED BY <1>2, <1>3, <1>4, <1>5, <1>6, <1>7 DEF Polling, Publishing

LEMMA HealthStep ==
    ASSUME HealthInv, [Next]_vars
    PROVE  HealthInv'
<1>1. TypeOK'
  BY NextTyped DEF HealthInv
<1>2. CASE Drive(Polling) \/ \E e \in Driver!Endpoints : Drive(Publishing(e))
  BY <1>1, <1>2, DrivingHealth DEF Drive, HealthInv
<1>3. CASE ProcessEnds
  <2>1. boot' = 0 /\ lastErr' = {} /\ Last + 1 # 0
    BY <1>3 DEF ProcessEnds, Driver!Exit
  <2> QED BY <1>1, <2>1 DEF HealthInv, BackoffMatchesHealth, Driver!Running
<1>4. CASE UNCHANGED localVars
  BY <1>1, <1>4 DEF localVars, HealthInv, BackoffMatchesHealth, Driver!Running
<1> QED BY <1>2, <1>3, <1>4 DEF Next, Syncing, Quiet, vars

LEMMA HealthInit == Init => HealthInv
<1> SUFFICES ASSUME Init PROVE HealthInv
  OBVIOUS
<1>1. boot = 0 /\ lastErr = {} /\ Last + 1 # 0
  BY DEF Init, Driver!Init
<1> QED BY <1>1, InitTyped DEF HealthInv, BackoffMatchesHealth, Driver!Running

(* An endpoint that waits is under backoff exactly if its health shows an    *)
(* error, for any number of endpoints and whatever their polls overlap with *)
(* (loop's count of failures and recordFailure's map).                      *)
THEOREM BackoffIsHealth == Spec => []BackoffMatchesHealth
<1>1. HealthInv => BackoffMatchesHealth
  BY DEF HealthInv
<1> QED BY HealthInit, HealthStep, <1>1, PTL DEF Spec

=============================================================================
