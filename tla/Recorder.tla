------------------------------ MODULE Recorder ------------------------------
(***************************************************************************)
(* persist.Recorder: the layer between a data source and the HTTP server.  *)
(* It writes every new source snapshot to the store, serves a merged       *)
(* snapshot to readers, and after a restart serves what was stored.        *)
(*                                                                         *)
(* SyncOnce is called by several goroutines (the Run loop and, in a push   *)
(* deployment, every HTTP handler) and holds no lock, so each of its       *)
(* atomic operations is a step of its own here.  A service's history       *)
(* series is left out: this module follows the current reading only.       *)
(* The module has no writer of src; PushDashboard and PullDashboard add    *)
(* the push handlers and the poller.                                       *)
(***************************************************************************)
EXTENDS Naturals

CONSTANTS
    Ids,          \* service ids
    Readings,     \* what one report says of one service
    Absent,       \* no row, or no entry in a snapshot
    Syncers,      \* the goroutines that call SyncOnce
    Runner,       \* the one that boots and then executes Recorder.Run
    NoSnapshot,   \* the nil atomic pointer
    StoreErrors,  \* BOOLEAN: may the database refuse an operation?
    MaxHalts      \* bound: times the process goes down

ASSUME RecorderAssumption ==
    /\ Absent \notin Readings
    /\ Runner \in Syncers
    /\ StoreErrors \in BOOLEAN
    /\ MaxHalts \in Nat

Estate == [Ids -> Readings \cup {Absent}]

Nothing == [i \in Ids |-> Absent]

(* gen is GeneratedAt; 0 is Go's zero time. *)
Snapshot == [services : Estate, gen : Nat]

EmptySnapshot == [services |-> Nothing, gen |-> 0]

IsEmpty(snap) == snap.services = Nothing

Overlay(old, new) == [i \in Ids |-> IF new[i] = Absent THEN old[i] ELSE new[i]]

VARIABLES
    src,        \* what Source.Snapshot() returns
    merged,     \* Recorder.merged
    lastSeen,   \* Recorder.lastSeen
    rows,       \* the services and service_state tables
    updatedAt,  \* services.updated_at, 0 where there is no row
    phase,      \* where main's serve() is
    halts,      \* times the process went down
    pc,         \* per syncer: the next operation of its call
    live        \* per syncer: the local variable live of SyncOnce and Restore

recorderVars == <<src, merged, lastSeen, rows, updatedAt, phase, halts, pc, live>>

SyncSteps == {"read", "check", "mark", "save", "publish", "done"}

RunnerSteps == SyncSteps \cup {"off", "load", "adopt", "idle", "rollup", "stopped"}

Phases == {"down", "restoring", "starting", "serving", "draining", "flushing"}

RecorderTypeOK ==
    /\ src \in Snapshot
    /\ merged \in Snapshot \cup {NoSnapshot}
    /\ lastSeen \in Nat
    /\ rows \in Estate
    /\ updatedAt \in [Ids -> Nat]
    /\ phase \in Phases
    /\ halts \in 0 .. MaxHalts
    /\ live \in [Syncers -> Snapshot]

RecorderInit ==
    /\ src = EmptySnapshot
    /\ merged = NoSnapshot
    /\ lastSeen = 0
    /\ rows = Nothing
    /\ updatedAt = [i \in Ids |-> 0]
    /\ phase = "down"
    /\ halts = 0
    /\ pc = [p \in Syncers |-> "off"]
    /\ live = [p \in Syncers |-> EmptySnapshot]

(* Mutant: readers are served the source, not the merged snapshot. *)
MutantView == src

(* Recorder.Snapshot: what readers, and an upsert, see. *)
View == IF merged = NoSnapshot THEN src ELSE merged

Goto(p, label) == pc' = [pc EXCEPT ![p] = label]

(* The call returns; its locals go out of scope. *)
Return(p) ==
    /\ Goto(p, "done")
    /\ live' = [live EXCEPT ![p] = EmptySnapshot]

(* A call of the Run loop carries the signal context, so its database work  *)
(* may be cancelled once the signal has arrived; a handler's and the final  *)
(* SyncOnce's does not.                                                     *)
MayFail(p) == StoreErrors \/ (p = Runner /\ phase = "draining")

-----------------------------------------------------------------------------
(* Recorder.Restore *)

LoadStored ==
    /\ pc[Runner] = "load"
    /\ \E newest \in {updatedAt[i] : i \in Ids} :
          /\ \A i \in Ids : updatedAt[i] <= newest
          /\ live' = [live EXCEPT ![Runner] = [services |-> rows, gen |-> newest]]
    /\ Goto(Runner, "adopt")
    /\ UNCHANGED <<src, merged, lastSeen, rows, updatedAt, phase, halts>>

LoadFails ==
    /\ pc[Runner] = "load"
    /\ MayFail(Runner)
    /\ Return(Runner)
    /\ UNCHANGED <<src, merged, lastSeen, rows, updatedAt, phase, halts>>

AdoptLive ==
    /\ pc[Runner] = "adopt"
    /\ live' = [live EXCEPT ![Runner] = IF IsEmpty(src) THEN @ ELSE src]
    /\ Goto(Runner, "publish")
    /\ UNCHANGED <<src, merged, lastSeen, rows, updatedAt, phase, halts>>

-----------------------------------------------------------------------------
(* Recorder.SyncOnce *)

(* Mutant: no early return on an empty source. *)
MutantSyncRead(p) ==
    /\ pc[p] = "read"
    /\ live' = [live EXCEPT ![p] = src]
    /\ Goto(p, "check")
    /\ UNCHANGED <<src, merged, lastSeen, rows, updatedAt, phase, halts>>

SyncRead(p) ==
    /\ pc[p] = "read"
    /\ \/ /\ IsEmpty(src)
          /\ Return(p)
       \/ /\ ~IsEmpty(src)
          /\ live' = [live EXCEPT ![p] = src]
          /\ Goto(p, "check")
    /\ UNCHANGED <<src, merged, lastSeen, rows, updatedAt, phase, halts>>

(* Mutant: snapshots older than the last one seen are skipped too. *)
MutantSeenBefore(snap) == snap.gen # 0 /\ snap.gen <= lastSeen

SeenBefore(snap) == snap.gen # 0 /\ snap.gen = lastSeen

SyncCheck(p) ==
    /\ pc[p] = "check"
    /\ \/ /\ SeenBefore(live[p])
          /\ Return(p)
       \/ /\ ~SeenBefore(live[p])
          /\ Goto(p, "mark")
          /\ UNCHANGED live
    /\ UNCHANGED <<src, merged, lastSeen, rows, updatedAt, phase, halts>>

(* Mutant: the generation is not remembered. *)
MutantSyncMark(p) ==
    /\ pc[p] = "mark"
    /\ Goto(p, "save")
    /\ UNCHANGED <<src, merged, lastSeen, rows, updatedAt, phase, halts, live>>

SyncMark(p) ==
    /\ pc[p] = "mark"
    /\ lastSeen' = live[p].gen
    /\ Goto(p, "save")
    /\ UNCHANGED <<src, merged, rows, updatedAt, phase, halts, live>>

(* Mutant: a save that succeeds returns before the publish. *)
MutantSyncSave(p) ==
    /\ pc[p] = "save"
    /\ rows' = Overlay(rows, live[p].services)
    /\ updatedAt' = [i \in Ids |-> IF live[p].services[i] = Absent
                                   THEN updatedAt[i] ELSE live[p].gen]
    /\ Return(p)
    /\ UNCHANGED <<src, merged, lastSeen, phase, halts>>

(* Store.Save: one transaction, serialised by the store. *)
SyncSave(p) ==
    /\ pc[p] = "save"
    /\ rows' = Overlay(rows, live[p].services)
    /\ updatedAt' = [i \in Ids |-> IF live[p].services[i] = Absent
                                   THEN updatedAt[i] ELSE live[p].gen]
    /\ Goto(p, "publish")
    /\ UNCHANGED <<src, merged, lastSeen, phase, halts, live>>

(* The error is logged and SyncOnce falls through to publish. *)
SyncSaveFails(p) ==
    /\ pc[p] = "save"
    /\ MayFail(p)
    /\ Goto(p, "publish")
    /\ UNCHANGED <<src, merged, lastSeen, rows, updatedAt, phase, halts, live>>

Publish(p) ==
    /\ pc[p] = "publish"
    /\ merged' = live[p]
    /\ Return(p)
    /\ UNCHANGED <<src, lastSeen, rows, updatedAt, phase, halts>>

SyncStep(p) ==
    \/ SyncRead(p)
    \/ SyncCheck(p)
    \/ SyncMark(p)
    \/ SyncSave(p)
    \/ SyncSaveFails(p)
    \/ Publish(p)

-----------------------------------------------------------------------------
(* serve() and Recorder.Run *)

Start ==
    /\ phase = "down"
    /\ phase' = "restoring"
    /\ Goto(Runner, "load")
    /\ UNCHANGED <<src, merged, lastSeen, rows, updatedAt, halts, live>>

(* The call made by serve() or by the Run loop has returned. *)
Booted ==
    /\ phase = "restoring" /\ pc[Runner] = "done"
    /\ phase' = "starting"
    /\ Goto(Runner, "read")
    /\ UNCHANGED <<src, merged, lastSeen, rows, updatedAt, halts, live>>

Listen ==
    /\ phase = "starting" /\ pc[Runner] = "done"
    /\ phase' = "serving"
    /\ pc' = [p \in Syncers |-> "idle"]
    /\ UNCHANGED <<src, merged, lastSeen, rows, updatedAt, halts, live>>

Loop ==
    /\ phase \in {"serving", "draining"} /\ pc[Runner] = "done"
    /\ Goto(Runner, "idle")
    /\ UNCHANGED <<src, merged, lastSeen, rows, updatedAt, phase, halts, live>>

SyncTick ==
    /\ phase \in {"serving", "draining"} /\ pc[Runner] = "idle"
    /\ Goto(Runner, "read")
    /\ UNCHANGED <<src, merged, lastSeen, rows, updatedAt, phase, halts, live>>

RollupTick ==
    /\ phase \in {"serving", "draining"} /\ pc[Runner] = "idle"
    /\ Goto(Runner, "rollup")
    /\ UNCHANGED <<src, merged, lastSeen, rows, updatedAt, phase, halts, live>>

(* Mutant: no Restore at the end of RollupOnce. *)
MutantRollupAndPrune ==
    /\ pc[Runner] = "rollup"
    /\ Return(Runner)
    /\ UNCHANGED <<src, merged, lastSeen, rows, updatedAt, phase, halts>>

(* Rollup and Prune touch samples and history only; Restore follows. *)
RollupAndPrune ==
    /\ pc[Runner] = "rollup"
    /\ Goto(Runner, "load")
    /\ UNCHANGED <<src, merged, lastSeen, rows, updatedAt, phase, halts, live>>

RollupOrPruneFails ==
    /\ pc[Runner] = "rollup"
    /\ MayFail(Runner)
    /\ Return(Runner)
    /\ UNCHANGED <<src, merged, lastSeen, rows, updatedAt, phase, halts>>

(* SIGTERM: the context is cancelled and Shutdown begins. *)
Signal ==
    /\ phase = "serving"
    /\ phase' = "draining"
    /\ UNCHANGED <<src, merged, lastSeen, rows, updatedAt, halts, pc, live>>

(* The ctx.Done() case of Run: one last SyncOnce. *)
FinalSync ==
    /\ phase = "draining" /\ pc[Runner] = "idle"
    /\ phase' = "flushing"
    /\ Goto(Runner, "read")
    /\ UNCHANGED <<src, merged, lastSeen, rows, updatedAt, halts, live>>

Stopped ==
    /\ phase = "flushing" /\ pc[Runner] = "done"
    /\ Goto(Runner, "stopped")
    /\ UNCHANGED <<src, merged, lastSeen, rows, updatedAt, phase, halts, live>>

(* The process ends: a crash at any moment, or main returning after a       *)
(* signal without waiting for Run.  Only the store survives.                *)
Halt ==
    /\ halts < MaxHalts
    /\ halts' = halts + 1
    /\ phase' = "down"
    /\ src' = EmptySnapshot
    /\ merged' = NoSnapshot
    /\ lastSeen' = 0
    /\ pc' = [p \in Syncers |-> "off"]
    /\ live' = [p \in Syncers |-> EmptySnapshot]
    /\ UNCHANGED <<rows, updatedAt>>

=============================================================================
