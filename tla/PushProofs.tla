---------------------------- MODULE PushProofs ----------------------------
(* Theorems about PushDashboard, for any number of handlers and services. *)
EXTENDS PushDashboard, TLAPS

(* A handler that is serving a request has read a clock value for it.        *)
Stamped ==
    \A h \in Handlers : pc[h] \notin {"off", "idle"} => req[h].now \in 1 .. MaxClock

(* TypeOK is inductive only together with Stamped: merge copies now into     *)
(* the readings.                                                            *)
TypeInv == TypeOK /\ Stamped

LEMMA EmptyTyped == EmptySnapshot \in Snapshot
BY DEF EmptySnapshot, Snapshot, Estate, Nothing

LEMMA OverlayTyped ==
    ASSUME NEW old \in Estate, NEW new \in Estate
    PROVE  Overlay(old, new) \in Estate
BY DEF Overlay, Estate

(* A Recorder step of any goroutine keeps the recorder's variables typed.   *)
LEMMA SyncTyped ==
    ASSUME TypeOK, NEW p \in Syncers, SyncStep(p)
    PROVE  RecorderTypeOK' /\ Labelled'
<1> USE PushAssumption, RecorderAssumption, EmptyTyped DEF TypeOK, RecorderTypeOK, Labelled
<1>1. CASE SyncRead(p)
  BY <1>1 DEF SyncRead, Return, Goto, RunnerSteps, HandlerSteps, SyncSteps
<1>2. CASE SyncCheck(p)
  BY <1>2 DEF SyncCheck, Return, Goto, RunnerSteps, HandlerSteps, SyncSteps
<1>3. CASE SyncMark(p)
  BY <1>3 DEF SyncMark, Goto, RunnerSteps, HandlerSteps, SyncSteps, Snapshot
<1>4. CASE SyncSave(p)
  <2>1. Labelled' /\ UNCHANGED <<src, merged, lastSeen, phase, halts, live>>
    BY <1>4 DEF SyncSave, Goto, RunnerSteps, HandlerSteps, SyncSteps
  <2>2. live[p].services \in Estate /\ live[p].gen \in Nat
    BY DEF Snapshot
  <2>3. rows' \in Estate
    BY <1>4, <2>2, OverlayTyped DEF SyncSave
  <2>4. updatedAt' \in [Ids -> Nat]
    BY <1>4, <2>2 DEF SyncSave
  <2> QED BY <2>1, <2>3, <2>4
<1>5. CASE SyncSaveFails(p)
  BY <1>5 DEF SyncSaveFails, Goto, RunnerSteps, HandlerSteps, SyncSteps
<1>6. CASE Publish(p)
  BY <1>6 DEF Publish, Return, Goto, RunnerSteps, HandlerSteps, SyncSteps
<1> QED BY <1>1, <1>2, <1>3, <1>4, <1>5, <1>6 DEF SyncStep

LEMMA BootTyped ==
    ASSUME TypeOK, Boot
    PROVE  RecorderTypeOK' /\ Labelled'
<1> USE PushAssumption, RecorderAssumption, EmptyTyped DEF TypeOK, RecorderTypeOK, Labelled
<1>1. CASE Quiet(Start)
  BY <1>1 DEF Quiet, Start, Goto, RunnerSteps, HandlerSteps, SyncSteps, Phases
<1>2. CASE Quiet(LoadStored)
  <2>1. PICK newest \in {updatedAt[i] : i \in Ids} :
           live' = [live EXCEPT ![Runner] = [services |-> rows, gen |-> newest]]
    BY <1>2 DEF Quiet, LoadStored
  <2>2. [services |-> rows, gen |-> newest] \in Snapshot
    BY <2>1 DEF Snapshot
  <2>3. live' \in [Syncers -> Snapshot]
    BY <2>1, <2>2
  <2> QED
    BY <1>2, <2>3 DEF Quiet, LoadStored, Goto, RunnerSteps, HandlerSteps, SyncSteps
<1>3. CASE Quiet(LoadFails)
  BY <1>3 DEF Quiet, LoadFails, Return, Goto, RunnerSteps, HandlerSteps, SyncSteps
<1>4. CASE Quiet(AdoptLive)
  BY <1>4 DEF Quiet, AdoptLive, Goto, RunnerSteps, HandlerSteps, SyncSteps
<1>5. CASE Quiet(Booted)
  BY <1>5 DEF Quiet, Booted, Goto, RunnerSteps, HandlerSteps, SyncSteps, Phases
<1>6. CASE Quiet(Listen)
  BY <1>6 DEF Quiet, Listen, RunnerSteps, HandlerSteps, SyncSteps, Phases
<1> QED BY <1>1, <1>2, <1>3, <1>4, <1>5, <1>6 DEF Boot

LEMMA LoopTyped ==
    ASSUME TypeOK, RunLoop \/ Quiet(Signal)
    PROVE  RecorderTypeOK' /\ Labelled'
<1> USE PushAssumption, RecorderAssumption, EmptyTyped DEF TypeOK, RecorderTypeOK, Labelled, Quiet, Goto, RunnerSteps, HandlerSteps, SyncSteps, Phases
<1>1. CASE Quiet(Loop)
  BY <1>1 DEF Loop
<1>2. CASE Quiet(SyncTick)
  BY <1>2 DEF SyncTick
<1>3. CASE Quiet(RollupTick)
  BY <1>3 DEF RollupTick
<1>4. CASE Quiet(RollupAndPrune)
  BY <1>4 DEF RollupAndPrune
<1>5. CASE Quiet(RollupOrPruneFails)
  BY <1>5 DEF RollupOrPruneFails, Return
<1>6. CASE Quiet(Signal)
  BY <1>6 DEF Signal
<1>7. CASE Quiet(FinalSync)
  BY <1>7 DEF FinalSync
<1>8. CASE Quiet(Stopped)
  BY <1>8 DEF Stopped
<1> QED BY <1>1, <1>2, <1>3, <1>4, <1>5, <1>6, <1>7, <1>8 DEF RunLoop

LEMMA PushTyped ==
    ASSUME TypeInv, NEW h \in Handlers, Receive(h) \/ HandlerStep(h)
    PROVE  TypeInv'
<1> USE PushAssumption, RecorderAssumption, EmptyTyped
    DEF TypeInv, TypeOK, RecorderTypeOK, Labelled, Goto, RunnerSteps, HandlerSteps, SyncSteps
<1>0. h \in Syncers /\ h # Runner
  OBVIOUS
<1>1. CASE Receive(h)
  <2>1. PICK mode \in Modes, ids \in SUBSET Ids :
           req' = [req EXCEPT ![h] = [mode |-> mode, ids |-> ids, now |-> clock']]
    BY <1>1 DEF Receive
  <2>2. clock' \in 1 .. MaxClock /\ clock' \in Nat
    BY <1>1 DEF Receive
  <2>3. [mode |-> mode, ids |-> ids, now |-> clock'] \in Request
    BY <2>2 DEF Request
  <2>4. TypeOK'
    BY <1>0, <1>1, <2>1, <2>2, <2>3 DEF Receive, history
  <2>5. Stamped'
    BY <1>0, <1>1, <2>1, <2>2 DEF Receive, Stamped
  <2> QED BY <2>4, <2>5
<1>2. CASE Merge(h)
  <2> DEFINE r == req[h]
             existing == IF r.mode = "replace" THEN Nothing ELSE View.services
             snap == [services |-> Overlay(existing, Incoming(r)), gen |-> r.now]
  <2>1. r \in Request /\ r.now \in Readings /\ r.now \in Nat
    BY <1>2 DEF Merge, Stamped, Request
  <2>2. Incoming(r) \in Estate
    BY <2>1 DEF Incoming, Estate
  <2>3. View \in Snapshot
    BY DEF View
  <2>4. existing \in Estate
    BY <2>3 DEF Nothing, Estate, Snapshot
  <2>5. snap \in Snapshot
    BY <2>1, <2>2, <2>4, OverlayTyped DEF Snapshot
  <2>6. built' = [built EXCEPT ![h] = snap]
    BY <1>2 DEF Merge
  <2>7. built' \in [Handlers -> Snapshot]
    BY <2>5, <2>6
  <2>8. TypeOK'
    BY <1>0, <1>2, <2>7 DEF Merge, history
  <2>9. Stamped'
    BY <1>0, <1>2 DEF Merge, Stamped
  <2> QED BY <2>8, <2>9
<1>3. CASE SinkStore(h)
  <2>1. src.gen \in Nat
    BY DEF Snapshot
  <2>2. TypeOK'
    BY <1>0, <1>3, <2>1 DEF SinkStore
  <2> QED BY <1>0, <1>3, <2>2 DEF SinkStore, Stamped
<1>4. CASE Ack(h)
  <2>1. NoRequest \in Request /\ req[h].now \in Nat
    BY DEF NoRequest, Request, Modes
  <2>2. TypeOK'
    BY <1>0, <1>4, <2>1 DEF Ack
  <2> QED BY <1>0, <1>4, <2>2 DEF Ack, Stamped
<1> QED BY <1>1, <1>2, <1>3, <1>4 DEF HandlerStep

LEMMA HaltTyped ==
    ASSUME TypeInv, ProcessEnds
    PROVE  TypeInv'
<1> USE PushAssumption, RecorderAssumption, EmptyTyped
<1>1. NoRequest \in Request
  BY DEF NoRequest, Request, Modes
<1>2. RecorderTypeOK'
  BY DEF TypeInv, TypeOK, RecorderTypeOK, ProcessEnds, Halt, Phases
<1>3. Labelled' /\ Stamped'
  BY DEF TypeInv, ProcessEnds, Halt, Labelled, Stamped, RunnerSteps, HandlerSteps
<1> QED BY <1>1, <1>2, <1>3 DEF TypeInv, TypeOK, ProcessEnds, Halt

LEMMA InitTyped == Init => TypeInv
<1> SUFFICES ASSUME Init PROVE TypeInv
  OBVIOUS
<1> USE PushAssumption, RecorderAssumption, EmptyTyped
<1>1. RecorderTypeOK
  BY DEF Init, RecorderInit, RecorderTypeOK, Phases, Estate, Nothing
<1>2. Labelled /\ Stamped
  BY DEF Init, RecorderInit, Labelled, Stamped, RunnerSteps, HandlerSteps
<1>3. NoRequest \in Request
  BY DEF NoRequest, Request, Modes
<1> QED BY <1>1, <1>2, <1>3 DEF Init, TypeInv, TypeOK

LEMMA NextTyped ==
    ASSUME TypeInv, [Next]_vars
    PROVE  TypeInv'
<1> USE PushAssumption, RecorderAssumption
<1>1. CASE Boot
  <2>1. RecorderTypeOK' /\ Labelled'
    BY <1>1, BootTyped DEF TypeInv
  <2>2. UNCHANGED <<pushVars, history>>
    BY <1>1 DEF Boot, Quiet
  <2>3. \A h \in Handlers : pc'[h] = pc[h] \/ pc'[h] = "idle"
    BY <1>1 DEF Boot, Quiet, Start, LoadStored, LoadFails, AdoptLive, Booted, Listen,
         Return, Goto, TypeInv, TypeOK, Labelled
  <2> QED BY <2>1, <2>2, <2>3 DEF TypeInv, TypeOK, Stamped, pushVars, history
<1>2. CASE RunLoop \/ Quiet(Signal)
  <2>1. RecorderTypeOK' /\ Labelled'
    BY <1>2, LoopTyped DEF TypeInv
  <2>2. UNCHANGED <<pushVars, history>>
    BY <1>2 DEF RunLoop, Quiet
  <2>3. \A h \in Handlers : pc'[h] = pc[h]
    BY <1>2 DEF RunLoop, Quiet, Loop, SyncTick, RollupTick, RollupAndPrune,
         RollupOrPruneFails, Signal, FinalSync, Stopped, Return, Goto,
         TypeInv, TypeOK, Labelled
  <2> QED BY <2>1, <2>2, <2>3 DEF TypeInv, TypeOK, Stamped, pushVars, history
<1>3. CASE ProcessEnds
  BY <1>3, HaltTyped
<1>4. CASE \E p \in Syncers : Syncing(p)
  <2>1. PICK p \in Syncers : Syncing(p)
    BY <1>4
  <2>2. RecorderTypeOK' /\ Labelled'
    BY <2>1, SyncTyped DEF TypeInv, Syncing
  <2>3. UNCHANGED <<pushVars, acked, replaced>>
    BY <2>1 DEF Syncing
  <2>4. attempted' \subseteq Nat
    BY ZenonT(40), <2>1 DEF Syncing, TypeInv, TypeOK, RecorderTypeOK, Snapshot
  <2>5. \A h \in Handlers : pc'[h] = pc[h] \/ pc[h] \notin {"off", "idle"}
    BY <2>1 DEF Syncing, SyncStep, SyncRead, SyncCheck, SyncMark, SyncSave, SyncSaveFails,
         Publish, Return, Goto, TypeInv, TypeOK, Labelled
  <2> QED BY <2>2, <2>3, <2>4, <2>5 DEF TypeInv, TypeOK, Stamped, pushVars
<1>5. CASE \E h \in Handlers : Receive(h) \/ HandlerStep(h)
  BY <1>5, PushTyped
<1>6. CASE UNCHANGED vars
  BY <1>6 DEF TypeInv, TypeOK, RecorderTypeOK, Labelled, Stamped, vars, recorderVars,
       pushVars, history
<1> QED BY <1>1, <1>2, <1>3, <1>4, <1>5, <1>6 DEF Next

(* Type correctness: every variable of the push deployment keeps its type,   *)
(* whatever the number of handlers, services and restarts.                  *)
THEOREM Typed == Spec => []TypeInv
BY InitTyped, NextTyped, PTL DEF Spec

THEOREM TypeCorrect == Spec => []TypeOK
BY Typed, PTL DEF TypeInv

-----------------------------------------------------------------------------
(* No acknowledged payload is forgotten.                                    *)

(* Handlers run only once main listens, and Run starts from nothing.        *)
BootOrder ==
    /\ phase = "down" => pc[Runner] = "off"
    /\ phase \in {"down", "restoring", "starting"} => \A h \in Handlers : pc[h] = "off"

BuiltIsNow == \A h \in Handlers : pc[h] = "store" => built[h].gen = req[h].now

(* A generation is remembered as seen only by a goroutine that goes on to    *)
(* save it.                                                                 *)
SeenAccountedFor == lastSeen # 0 => lastSeen \in attempted \/ InFlight(lastSeen)

(* What a handler that has stored its payload still carries, or has left to  *)
(* others.                                                                  *)
Carried ==
    \A h \in Handlers :
        /\ pc[h] = "read" => src.gen = req[h].now \/ req[h].now \in replaced
        /\ pc[h] \in {"check", "mark", "save"}
           => live[h].gen = req[h].now \/ req[h].now \in replaced
        /\ pc[h] \in {"publish", "done"} => Accounted(req[h].now)

AckInv ==
    /\ TypeInv
    /\ BootOrder
    /\ BuiltIsNow
    /\ SeenAccountedFor
    /\ Carried
    /\ AckedAccountedFor

(* The steps of boot and of the Run loop outside SyncOnce.                   *)
QuietStep == Boot \/ RunLoop \/ Quiet(Signal)

LEMMA QuietKeeps ==
    ASSUME TypeInv, BootOrder, QuietStep
    PROVE  /\ UNCHANGED <<src, lastSeen, pushVars, history>>
           /\ \A h \in Handlers : live'[h] = live[h]
           /\ \A h \in Handlers : pc'[h] = pc[h] \/ (pc[h] = "off" /\ pc'[h] = "idle")
           /\ pc[Runner] = "save" => pc'[Runner] = "save" /\ live'[Runner] = live[Runner]
           /\ BootOrder'
<1> USE PushAssumption, RecorderAssumption
    DEF TypeInv, TypeOK, RecorderTypeOK, Labelled, BootOrder, Quiet, Return, Goto
<1>1. CASE Boot
  BY <1>1 DEF Boot, Start, LoadStored, LoadFails, AdoptLive, Booted, Listen
<1>2. CASE RunLoop \/ Quiet(Signal)
  <2>1. /\ UNCHANGED <<src, lastSeen, pushVars, history>>
        /\ \A h \in Handlers : live'[h] = live[h] /\ pc'[h] = pc[h]
    BY <1>2 DEF RunLoop, Loop, SyncTick, RollupTick, RollupAndPrune, RollupOrPruneFails,
         Signal, FinalSync, Stopped
  <2>2. phase # "down"
    BY <1>2 DEF RunLoop, Loop, SyncTick, RollupTick, RollupAndPrune, RollupOrPruneFails,
         Signal, FinalSync, Stopped
  <2>3. phase' = phase \/ phase' \in {"draining", "flushing"}
    BY <1>2 DEF RunLoop, Loop, SyncTick, RollupTick, RollupAndPrune, RollupOrPruneFails,
         Signal, FinalSync, Stopped
  <2>4. pc[Runner] = "save" => pc'[Runner] = "save" /\ live'[Runner] = live[Runner]
    BY <1>2 DEF RunLoop, Loop, SyncTick, RollupTick, RollupAndPrune, RollupOrPruneFails,
         Signal, FinalSync, Stopped
  <2> QED BY <2>1, <2>2, <2>3, <2>4
<1> QED BY <1>1, <1>2 DEF QuietStep

(* The step of one goroutine in SyncOnce, seen from the others.              *)
LEMMA SyncingKeeps ==
    ASSUME TypeInv, NEW p \in Syncers, Syncing(p)
    PROVE  /\ UNCHANGED <<src, phase, pushVars, acked, replaced>>
           /\ \A q \in Syncers \ {p} : pc'[q] = pc[q] /\ live'[q] = live[q]
           /\ attempted \subseteq attempted'
           /\ pc[p] = "save" => live[p].gen \in attempted'
           /\ pc[p] \in SyncSteps \ {"done"} /\ pc'[p] \in SyncSteps
<1> USE DEF TypeInv, TypeOK, RecorderTypeOK, Labelled, Return, Goto
<1>1. SyncStep(p)
  BY DEF Syncing
<1>2. /\ UNCHANGED <<src, phase>>
      /\ \A q \in Syncers \ {p} : pc'[q] = pc[q] /\ live'[q] = live[q]
      /\ pc[p] \in SyncSteps \ {"done"} /\ pc'[p] \in SyncSteps
  BY <1>1 DEF SyncStep, SyncRead, SyncCheck, SyncMark, SyncSave, SyncSaveFails, Publish,
       SyncSteps
<1>3. pc[p] = "save" => pc'[p] = "publish"
  BY <1>1 DEF SyncStep, SyncRead, SyncCheck, SyncMark, SyncSave, SyncSaveFails, Publish
<1> QED BY <1>2, <1>3 DEF Syncing, Saving

LEMMA HandlerKeeps ==
    ASSUME TypeInv, NEW h \in Handlers, Receive(h) \/ HandlerStep(h)
    PROVE  /\ UNCHANGED <<merged, lastSeen, rows, phase, live, attempted>>
           /\ \A q \in Syncers \ {h} : pc'[q] = pc[q]
           /\ \A g \in Handlers \ {h} : req'[g] = req[g] /\ built'[g] = built[g]
           /\ replaced \subseteq replaced'
           /\ src' = src \/ src.gen \in replaced'
           /\ pc[h] \notin {"off", "save"}
BY DEF TypeInv, TypeOK, RecorderTypeOK, Labelled, Goto, HandlerStep, Receive, Merge,
   SinkStore, Ack, history

(* A step other than the end of the process.                                *)
Running == QuietStep \/ (\E p \in Syncers : Syncing(p))
           \/ (\E h \in Handlers : Receive(h) \/ HandlerStep(h))

LEMMA BootOrderStays ==
    ASSUME TypeInv, BootOrder, Running
    PROVE  BootOrder'
<1>1. CASE QuietStep
  BY <1>1, QuietKeeps
<1>2. CASE \E p \in Syncers : Syncing(p)
  BY <1>2, SyncingKeeps, PushAssumption DEF BootOrder, SyncSteps
<1>3. CASE \E h \in Handlers : Receive(h) \/ HandlerStep(h)
  BY <1>3, HandlerKeeps, RecorderAssumption, PushAssumption DEF BootOrder
<1> QED BY <1>1, <1>2, <1>3 DEF Running

LEMMA BuiltStays ==
    ASSUME TypeInv, BootOrder, BuiltIsNow, Running
    PROVE  BuiltIsNow'
<1>1. CASE QuietStep
  BY <1>1, QuietKeeps DEF BuiltIsNow, pushVars
<1>2. CASE \E p \in Syncers : Syncing(p)
  BY <1>2, SyncingKeeps, PushAssumption DEF BuiltIsNow, pushVars, SyncSteps
<1>3. ASSUME NEW h \in Handlers, Receive(h) \/ HandlerStep(h) PROVE BuiltIsNow'
  <2>1. \A g \in Handlers \ {h} : pc'[g] = pc[g] /\ req'[g] = req[g] /\ built'[g] = built[g]
    BY <1>3, HandlerKeeps, PushAssumption
  <2>2. pc'[h] = "store" => built'[h].gen = req'[h].now
    BY <1>3, PushAssumption DEF TypeInv, TypeOK, Labelled, HandlerStep, Receive, Merge,
         SinkStore, Ack, Goto
  <2> QED BY <2>1, <2>2 DEF BuiltIsNow
<1> QED BY <1>1, <1>2, <1>3 DEF Running

(* While the process runs, a payload that is accounted for stays so.         *)
LEMMA AccountedStays ==
    ASSUME TypeInv, BootOrder, Running, NEW g, Accounted(g)
    PROVE  Accounted(g)'
<1> USE PushAssumption
<1>1. CASE QuietStep
  <2>1. CASE InFlight(g)
    BY <1>1, <2>1, QuietKeeps DEF InFlight, Accounted
  <2>2. CASE ~InFlight(g)
    BY <1>1, <2>2, QuietKeeps DEF Accounted, history, IsEmpty
  <2> QED BY <2>1, <2>2
<1>2. CASE \E p \in Syncers : Syncing(p)
  <2>1. PICK p \in Syncers : Syncing(p)
    BY <1>2
  <2>2. CASE InFlight(g)
    <3>1. PICK q \in Syncers : pc[q] = "save" /\ live[q].gen = g
      BY <2>2 DEF InFlight
    <3> QED BY <2>1, <3>1, SyncingKeeps DEF InFlight, Accounted
  <2>3. CASE ~InFlight(g)
    BY <2>1, <2>3, SyncingKeeps DEF Accounted, IsEmpty
  <2> QED BY <2>2, <2>3
<1>3. CASE \E h \in Handlers : Receive(h) \/ HandlerStep(h)
  <2>1. PICK h \in Handlers : Receive(h) \/ HandlerStep(h)
    BY <1>3
  <2>2. CASE InFlight(g)
    <3>1. PICK q \in Syncers : pc[q] = "save" /\ live[q].gen = g
      BY <2>2 DEF InFlight
    <3> QED BY <2>1, <3>1, HandlerKeeps DEF InFlight, Accounted
  <2>3. CASE ~InFlight(g)
    BY <2>1, <2>3, HandlerKeeps DEF Accounted, IsEmpty
  <2> QED BY <2>2, <2>3
<1> QED BY <1>1, <1>2, <1>3 DEF Running

LEMMA SeenStays ==
    ASSUME AckInv, Running
    PROVE  SeenAccountedFor'
<1> USE PushAssumption DEF AckInv
<1>1. ASSUME lastSeen' = lastSeen, lastSeen # 0 PROVE lastSeen \in attempted' \/ InFlight(lastSeen)'
  <2>1. CASE QuietStep
    BY <1>1, <2>1, QuietKeeps DEF SeenAccountedFor, InFlight, history
  <2>2. CASE \E p \in Syncers : Syncing(p)
    <3>1. PICK p \in Syncers : Syncing(p)
      BY <2>2
    <3> QED BY <1>1, <3>1, SyncingKeeps DEF SeenAccountedFor, InFlight
  <2>3. CASE \E h \in Handlers : Receive(h) \/ HandlerStep(h)
    <3>1. PICK h \in Handlers : Receive(h) \/ HandlerStep(h)
      BY <2>3
    <3> QED BY <1>1, <3>1, HandlerKeeps DEF SeenAccountedFor, InFlight
  <2> QED BY <2>1, <2>2, <2>3 DEF Running
<1>2. ASSUME lastSeen' # lastSeen PROVE InFlight(lastSeen)'
  <2>1. PICK p \in Syncers : Syncing(p)
    BY <1>2, QuietKeeps, HandlerKeeps DEF Running
  <2>2. SyncMark(p)
    BY <1>2, <2>1 DEF Syncing, SyncStep, SyncRead, SyncCheck, SyncSave, SyncSaveFails, Publish
  <2>3. lastSeen' = live'[p].gen /\ pc'[p] = "save"
    BY <2>2 DEF SyncMark, Goto, TypeInv, TypeOK, Labelled
  <2> QED BY <2>3 DEF InFlight
<1> QED BY <1>1, <1>2 DEF SeenAccountedFor, InFlight

(* What one handler carries across a step of somebody else.                  *)
LEMMA CarriedByOthers ==
    ASSUME AckInv, Running, NEW h \in Handlers,
           pc'[h] = pc[h] \/ pc'[h] \in {"off", "idle"},
           live'[h] = live[h], req'[h] = req[h]
    PROVE  /\ pc'[h] = "read" => (src.gen = req[h].now \/ req[h].now \in replaced)'
           /\ pc'[h] \in {"check", "mark", "save"}
              => (live[h].gen = req[h].now \/ req[h].now \in replaced)'
           /\ pc'[h] \in {"publish", "done"} => Accounted(req[h].now)'
<1> USE DEF AckInv
<1>1. replaced \subseteq replaced' /\ (src' = src \/ src.gen \in replaced')
  BY QuietKeeps, SyncingKeeps, HandlerKeeps DEF Running, history
<1>2. pc'[h] \in {"publish", "done"} => Accounted(req[h].now)
  BY DEF Carried
<1>3. pc'[h] \in {"publish", "done"} => Accounted(req[h].now)'
  <2> SUFFICES ASSUME pc'[h] \in {"publish", "done"} PROVE Accounted(req[h].now)'
    OBVIOUS
  <2>1. PICK g \in Nat : g = req[h].now
    BY DEF TypeInv, TypeOK, Request
  <2>2. Accounted(g)'
    BY <1>2, <2>1, AccountedStays
  <2> QED BY <2>1, <2>2 DEF Accounted, InFlight
<1> QED BY <1>1, <1>3 DEF Carried

(* The step of a handler in SyncOnce.                                        *)
LEMMA CarriedBySync ==
    ASSUME AckInv, NEW h \in Handlers, Syncing(h)
    PROVE  /\ pc'[h] = "read" => (src.gen = req[h].now \/ req[h].now \in replaced)'
           /\ pc'[h] \in {"check", "mark", "save"}
              => (live[h].gen = req[h].now \/ req[h].now \in replaced)'
           /\ pc'[h] \in {"publish", "done"} => Accounted(req[h].now)'
<1> USE PushAssumption
<1>0. /\ h \in Syncers
      /\ UNCHANGED <<src, req, replaced>> /\ attempted \subseteq attempted'
      /\ pc \in [Syncers -> RunnerSteps \cup HandlerSteps] /\ live \in [Syncers -> Snapshot]
      /\ req[h].now # 0
  BY SyncingKeeps DEF AckInv, TypeInv, TypeOK, RecorderTypeOK, Labelled, pushVars, Stamped,
     Syncing, SyncStep, SyncRead, SyncCheck, SyncMark, SyncSave, SyncSaveFails, Publish
<1> DEFINE now == req[h].now
<1>1. CASE SyncRead(h)
  BY <1>0, <1>1 DEF SyncRead, Return, Goto, AckInv, Carried, Accounted
<1>2. CASE SyncCheck(h)
  <2>1. CASE SeenBefore(live[h])
    <3>1. PICK g \in Nat : g = now
      BY DEF AckInv, TypeInv, TypeOK, Request
    <3>2. Accounted(g)
      BY <1>2, <2>1, <3>1 DEF SyncCheck, AckInv, Carried, SeenBefore, SeenAccountedFor, Accounted
    <3>3. Accounted(g)'
      BY <1>0, <3>2, AccountedStays DEF Running, AckInv
    <3> QED BY <1>0, <1>2, <2>1, <3>1, <3>3 DEF SyncCheck, Return, Goto, Accounted, InFlight
  <2>2. CASE ~SeenBefore(live[h])
    BY <1>0, <1>2, <2>2 DEF SyncCheck, Goto, AckInv, Carried
  <2> QED BY <2>1, <2>2
<1>3. CASE SyncMark(h)
  BY <1>0, <1>3 DEF SyncMark, Goto, AckInv, Carried
<1>4. CASE SyncSave(h) \/ SyncSaveFails(h)
  <2>1. pc[h] = "save" /\ pc'[h] = "publish"
    BY <1>0, <1>4 DEF SyncSave, SyncSaveFails, Goto
  <2>2. live[h].gen \in attempted'
    BY <1>0, <2>1, SyncingKeeps DEF AckInv
  <2>3. Accounted(req[h].now)'
    BY <1>0, <2>1, <2>2 DEF AckInv, Carried, Accounted
  <2> QED BY <2>1, <2>3
<1>5. CASE Publish(h)
  <2>1. pc[h] = "publish" /\ pc'[h] = "done"
    BY <1>0, <1>5 DEF Publish, Return, Goto
  <2>2. PICK g \in Nat : g = now
    BY DEF AckInv, TypeInv, TypeOK, Request
  <2>3. Accounted(g)'
    BY <1>0, <2>1, <2>2, AccountedStays DEF Running, AckInv, Carried
  <2> QED BY <1>0, <2>1, <2>2, <2>3 DEF Accounted, InFlight
<1> QED BY <1>1, <1>2, <1>3, <1>4, <1>5 DEF Syncing, SyncStep

LEMMA CarriedStays ==
    ASSUME AckInv, Running
    PROVE  Carried'
<1> USE PushAssumption
<1> SUFFICES ASSUME NEW h \in Handlers
             PROVE  /\ pc'[h] = "read" => (src.gen = req[h].now \/ req[h].now \in replaced)'
                    /\ pc'[h] \in {"check", "mark", "save"}
                       => (live[h].gen = req[h].now \/ req[h].now \in replaced)'
                    /\ pc'[h] \in {"publish", "done"} => Accounted(req[h].now)'
  BY DEF Carried
<1>1. CASE QuietStep
  BY <1>1, QuietKeeps, CarriedByOthers DEF AckInv, pushVars
<1>2. CASE Syncing(h)
  BY <1>2, CarriedBySync
<1>3. CASE \E p \in Syncers \ {h} : Syncing(p)
  BY <1>3, SyncingKeeps, CarriedByOthers DEF AckInv, pushVars
<1>4. CASE \E g \in Handlers \ {h} : Receive(g) \/ HandlerStep(g)
  BY <1>4, HandlerKeeps, CarriedByOthers DEF AckInv
<1>5. CASE Receive(h) \/ Merge(h) \/ Ack(h)
  BY <1>5 DEF AckInv, TypeInv, TypeOK, Labelled, Receive, Merge, Ack, Goto
<1>6. CASE SinkStore(h)
  BY <1>6 DEF AckInv, BuiltIsNow, TypeInv, TypeOK, Labelled, SinkStore, Goto
<1> QED BY <1>1, <1>2, <1>3, <1>4, <1>5, <1>6 DEF Running, HandlerStep

LEMMA AckInvStep ==
    ASSUME AckInv, [Next]_vars
    PROVE  AckInv'
<1> USE PushAssumption
<1>0. TypeInv'
  BY NextTyped DEF AckInv
<1>1. CASE Running
  <2>1. BootOrder'
    BY <1>1, BootOrderStays DEF AckInv
  <2>2. BuiltIsNow'
    BY <1>1, BuiltStays DEF AckInv
  <2>3. SeenAccountedFor'
    BY <1>1, SeenStays
  <2>4. Carried'
    BY <1>1, CarriedStays
  <2>5. AckedAccountedFor'
    <3> SUFFICES ASSUME NEW g \in acked' PROVE Accounted(g)'
      BY DEF AckedAccountedFor
    <3>1. g \in acked \/ \E h \in Handlers : pc[h] = "done" /\ g = req[h].now
      BY <1>1, QuietKeeps, SyncingKeeps DEF Running, AckInv, history, HandlerStep, Receive,
         Merge, SinkStore, Ack
    <3>2. Accounted(g)
      BY <3>1 DEF AckInv, AckedAccountedFor, Carried
    <3> QED BY <1>1, <3>2, AccountedStays DEF AckInv
  <2> QED BY <1>0, <2>1, <2>2, <2>3, <2>4, <2>5 DEF AckInv
<1>2. CASE ProcessEnds
  BY <1>0, <1>2, RecorderAssumption DEF AckInv, ProcessEnds, Halt, BootOrder, BuiltIsNow,
     SeenAccountedFor, Carried, AckedAccountedFor
<1>3. CASE UNCHANGED vars
  BY <1>0, <1>3 DEF AckInv, vars, recorderVars, pushVars, history, BootOrder, BuiltIsNow,
     SeenAccountedFor, Carried, AckedAccountedFor, Accounted, InFlight, IsEmpty
<1> QED BY <1>1, <1>2, <1>3 DEF Next, Running, QuietStep

(* No 200 without somebody who writes the payload, or a later push that      *)
(* replaced it: for every number of handlers, services, restarts, failures. *)
THEOREM AckedPayloads == Spec => []AckedAccountedFor
<1>1. Init => AckInv
  BY InitTyped, PushAssumption, RecorderAssumption DEF Init, RecorderInit, AckInv, BootOrder, BuiltIsNow,
     SeenAccountedFor, Carried, AckedAccountedFor
<1>2. AckInv /\ [Next]_vars => AckInv'
  BY AckInvStep
<1>3. AckInv => AckedAccountedFor
  BY DEF AckInv
<1> QED BY <1>1, <1>2, <1>3, PTL DEF Spec

-----------------------------------------------------------------------------
(* After a restart readers get what was stored.                             *)

(* Until a push has reached the sink nobody carries a snapshot of it, and    *)
(* Restore carries the rows.                                                *)
Unpushed ==
    /\ IsEmpty(src)
    /\ \A h \in Handlers : pc[h] \in {"off", "idle", "merge", "store"}
    /\ pc[Runner] \notin {"check", "mark", "save"}
    /\ pc[Runner] \in {"adopt", "publish"} => live[Runner].services = rows

RestartInv ==
    /\ TypeInv
    /\ BootOrder
    /\ BuiltIsNow
    /\ src.gen = 0 => Unpushed
    /\ RestartServesStored

LEMMA UnpushedQuiet ==
    ASSUME RestartInv, QuietStep, src.gen = 0
    PROVE  /\ UNCHANGED <<src, merged, rows, pushVars>> /\ Unpushed'
           /\ \A h \in Handlers : pc'[h] = pc[h] \/ pc'[h] = "idle"
<1> USE PushAssumption, RecorderAssumption
    DEF RestartInv, Unpushed, TypeInv, TypeOK, RecorderTypeOK, Labelled, Quiet, Return, Goto,
        IsEmpty
<1>1. CASE Boot
  BY <1>1 DEF Boot, Start, LoadStored, LoadFails, AdoptLive, Booted, Listen
<1>2. CASE RunLoop \/ Quiet(Signal)
  BY <1>2 DEF RunLoop, Loop, SyncTick, RollupTick, RollupAndPrune, RollupOrPruneFails,
       Signal, FinalSync, Stopped
<1> QED BY <1>1, <1>2 DEF QuietStep

(* With an empty source the only steps of SyncOnce are the early return and  *)
(* the publish of what Restore loaded.                                      *)
LEMMA UnpushedSync ==
    ASSUME RestartInv, NEW p \in Syncers, Syncing(p), src.gen = 0
    PROVE  /\ UNCHANGED <<src, rows, pushVars>> /\ Unpushed'
           /\ \A h \in Handlers : pc'[h] = pc[h]
           /\ merged' = merged \/ merged'.services = rows'
<1> USE PushAssumption, RecorderAssumption
    DEF RestartInv, Unpushed, TypeInv, TypeOK, RecorderTypeOK, Labelled, Return, Goto, IsEmpty
<1>1. p = Runner /\ (SyncRead(p) \/ Publish(p))
  BY DEF Syncing, SyncStep, SyncRead, SyncCheck, SyncMark, SyncSave, SyncSaveFails, Publish
<1>2. UNCHANGED <<src, rows, pushVars>>
  BY <1>1 DEF Syncing, SyncRead, Publish
<1>3. pc[p] \in {"read", "publish"} /\ pc' = [pc EXCEPT ![p] = "done"]
  BY <1>1 DEF SyncRead, Publish
<1>4. merged' = merged \/ merged'.services = rows
  BY <1>1 DEF SyncRead, Publish
<1> QED BY <1>1, <1>2, <1>3, <1>4

LEMMA RestartInvStep ==
    ASSUME RestartInv, [Next]_vars
    PROVE  RestartInv'
<1> USE PushAssumption DEF RestartInv
<1>0. TypeInv'
  BY NextTyped
<1>1. CASE Running
  <2>1. BootOrder' /\ BuiltIsNow'
    BY <1>1, BootOrderStays, BuiltStays
  <2>2. CASE src.gen # 0
    <3>1. src' = src \/ \E h \in Handlers : SinkStore(h)
      BY <1>1, QuietKeeps, SyncingKeeps DEF Running, HandlerStep, Receive, Merge, Ack
    <3>2. src'.gen # 0
      BY <2>2, <3>1 DEF SinkStore, BuiltIsNow, TypeInv, Stamped
    <3> QED BY <1>0, <2>1, <3>2 DEF RestartServesStored
  <2>3. CASE src.gen = 0 /\ QuietStep
    BY <1>0, <2>1, <2>3, UnpushedQuiet DEF RestartServesStored
  <2>4. CASE src.gen = 0 /\ \E p \in Syncers : Syncing(p)
    BY <1>0, <2>1, <2>4, UnpushedSync DEF RestartServesStored
  <2>5. ASSUME src.gen = 0, NEW h \in Handlers, Receive(h) \/ HandlerStep(h)
        PROVE  RestartInv'
    <3>1. CASE SinkStore(h)
      <4>1. src'.gen # 0
        BY <3>1 DEF SinkStore, BuiltIsNow, TypeInv, Stamped
      <4> QED BY <1>0, <2>1, <4>1 DEF RestartServesStored
    <3>2. CASE Receive(h) \/ Merge(h)
      <4>1. UNCHANGED <<src, merged, rows, live>> /\ pc'[Runner] = pc[Runner]
            /\ \A g \in Handlers : pc'[g] = pc[g] \/ pc'[g] \in {"merge", "store"}
        BY <3>2 DEF Receive, Merge, Goto, TypeInv, TypeOK, Labelled
      <4> QED BY <1>0, <2>1, <2>5, <4>1 DEF RestartServesStored, Unpushed, IsEmpty
    <3>3. ~Ack(h)
      BY <2>5 DEF Ack, Unpushed
    <3> QED BY <2>5, <3>1, <3>2, <3>3 DEF HandlerStep
  <2> QED BY <1>1, <2>2, <2>3, <2>4, <2>5 DEF Running
<1>2. CASE ProcessEnds
  BY <1>0, <1>2, RecorderAssumption DEF ProcessEnds, Halt, BootOrder, BuiltIsNow, Unpushed,
     IsEmpty, EmptySnapshot, RestartServesStored
<1>3. CASE UNCHANGED vars
  BY <1>0, <1>3 DEF vars, recorderVars, pushVars, history, BootOrder, BuiltIsNow, Unpushed,
     IsEmpty, RestartServesStored
<1> QED BY <1>1, <1>2, <1>3 DEF Next, Running, QuietStep

LEMMA RestartInvHolds == Spec => []RestartInv
<1>1. Init => RestartInv
  BY InitTyped, PushAssumption, RecorderAssumption DEF Init, RecorderInit, RestartInv, BootOrder,
     BuiltIsNow, Unpushed, IsEmpty, EmptySnapshot, RestartServesStored
<1> QED BY <1>1, RestartInvStep, PTL DEF Spec

(* Until the first push after a start, readers are served the rows.          *)
THEOREM RestartServes == Spec => []RestartServesStored
BY RestartInvHolds, PTL DEF RestartInv

(* The first upsert after a start is laid over the rows.                     *)
THEOREM FirstUpsert == Spec => FirstUpsertKeepsStored
<1> DEFINE Kept ==
      \A h \in Handlers :
         (/\ pc[h] = "merge" /\ pc'[h] = "store"
          /\ req[h].mode = "upsert" /\ src.gen = 0 /\ merged # NoSnapshot)
         => \A i \in Ids \ req[h].ids : built'[h].services[i] = rows[i]
<1>1. RestartInv /\ [Next]_vars => [Kept]_vars
  <2> SUFFICES ASSUME RestartInv, Next, NEW h \in Handlers,
                      pc[h] = "merge", pc'[h] = "store", req[h].mode = "upsert",
                      src.gen = 0, merged # NoSnapshot,
                      NEW i \in Ids \ req[h].ids
               PROVE  built'[h].services[i] = rows[i]
    OBVIOUS
  <2>1. Merge(h)
    <3> USE PushAssumption DEF RestartInv
    <3>1. ~QuietStep
      BY QuietKeeps
    <3>2. ~\E p \in Syncers : Syncing(p)
      BY SyncingKeeps DEF SyncSteps
    <3>3. ~ProcessEnds
      BY DEF ProcessEnds, Halt
    <3>4. PICK g \in Handlers : Receive(g) \/ HandlerStep(g)
      BY <3>1, <3>2, <3>3 DEF Next, QuietStep
    <3>5. g = h
      BY <3>4, HandlerKeeps
    <3> QED BY <3>4, <3>5 DEF HandlerStep, Receive, SinkStore, Ack
  <2>2. View.services = rows
    BY DEF View, RestartInv, RestartServesStored
  <2> QED BY <2>1, <2>2 DEF Merge, Overlay, Incoming, RestartInv, TypeInv, TypeOK
<1> QED BY <1>1, RestartInvHolds, PTL DEF Spec, FirstUpsertKeepsStored

===========================================================================
