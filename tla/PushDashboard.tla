--------------------------- MODULE PushDashboard ---------------------------
(***************************************************************************)
(* A push deployment: HTTP handlers run applyIngest concurrently against a *)
(* SinkRecorder over main's staticSource, while Recorder.Run syncs and     *)
(* rolls up.  A reading is the number of the request that reported it, and *)
(* a request is numbered by the clock value its handler read, so readings  *)
(* are Nat and a larger one is the later report.                           *)
(***************************************************************************)
EXTENDS Recorder

CONSTANTS
    Handlers,   \* handler goroutines, one request at a time each
    MaxClock    \* bound: requests over the whole behaviour

ASSUME PushAssumption ==
    /\ Syncers = Handlers \cup {Runner}
    /\ Runner \notin Handlers
    /\ Readings \subseteq Nat \ {0}
    /\ 1 .. MaxClock \subseteq Readings
    /\ MaxClock \in Nat

VARIABLES
    clock,      \* the last value read from s.clock
    req,        \* per handler: mode, accepted ids and now of its request
    built,      \* per handler: the result of merge
    acked,      \* history: requests answered 200 by this process
    attempted,  \* history: snapshots handed to Store.Save by this process
    replaced    \* history: snapshots overwritten in the sink by this process

pushVars == <<clock, req, built>>
history  == <<acked, attempted, replaced>>
vars     == <<recorderVars, pushVars, history>>

Modes == {"upsert", "replace"}

Request == [mode : Modes, ids : SUBSET Ids, now : Nat]

NoRequest == [mode |-> "upsert", ids |-> {}, now |-> 0]

HandlerSteps == SyncSteps \cup {"off", "idle", "merge", "store"}

Labelled ==
    /\ pc \in [Syncers -> RunnerSteps \cup HandlerSteps]
    /\ pc[Runner] \in RunnerSteps
    /\ \A h \in Handlers : pc[h] \in HandlerSteps

TypeOK ==
    /\ RecorderTypeOK
    /\ Labelled
    /\ clock \in 0 .. MaxClock
    /\ req \in [Handlers -> Request]
    /\ built \in [Handlers -> Snapshot]
    /\ acked \subseteq Nat /\ attempted \subseteq Nat /\ replaced \subseteq Nat

Init ==
    /\ RecorderInit
    /\ clock = 0
    /\ req = [h \in Handlers |-> NoRequest]
    /\ built = [h \in Handlers |-> EmptySnapshot]
    /\ acked = {} /\ attempted = {} /\ replaced = {}

-----------------------------------------------------------------------------
(* The push handler *)

(* handleIngest reads the clock and validates; ids are the records that     *)
(* passed.  A request refused with 401 or 400 changes nothing.              *)
Receive(h) ==
    /\ phase = "serving" /\ pc[h] = "idle"
    /\ clock < MaxClock
    /\ clock' = clock + 1
    /\ \E mode \in Modes, ids \in SUBSET Ids :
          req' = [req EXCEPT ![h] = [mode |-> mode, ids |-> ids, now |-> clock']]
    /\ Goto(h, "merge")
    /\ UNCHANGED <<src, merged, lastSeen, rows, updatedAt, phase, halts, live, built, history>>

(* Mutant: a reading stamped with the tick before its request. *)
MutantIncoming(r) == [i \in Ids |-> IF i \in r.ids THEN r.now - 1 ELSE Absent]

Incoming(r) == [i \in Ids |-> IF i \in r.ids THEN r.now ELSE Absent]

(* Server.merge *)
Merge(h) ==
    /\ pc[h] = "merge"
    /\ LET r == req[h]
           existing == IF r.mode = "replace" THEN Nothing ELSE View.services
       IN built' = [built EXCEPT ![h] =
                      [services |-> Overlay(existing, Incoming(r)), gen |-> r.now]]
    /\ Goto(h, "store")
    /\ UNCHANGED <<src, merged, lastSeen, rows, updatedAt, phase, halts, live, clock, req, history>>

(* Mutant: persisting is left to the next tick. *)
MutantSinkStore(h) ==
    /\ pc[h] = "store"
    /\ src' = built[h]
    /\ built' = [built EXCEPT ![h] = EmptySnapshot]
    /\ replaced' = replaced \cup {src.gen}
    /\ Goto(h, "done")
    /\ UNCHANGED <<merged, lastSeen, rows, updatedAt, phase, halts, live, clock, req, acked, attempted>>

(* SinkRecorder.Store: the sink first, then SyncOnce. *)
SinkStore(h) ==
    /\ pc[h] = "store"
    /\ src' = built[h]
    /\ built' = [built EXCEPT ![h] = EmptySnapshot]
    /\ replaced' = replaced \cup {src.gen}
    /\ Goto(h, "read")
    /\ UNCHANGED <<merged, lastSeen, rows, updatedAt, phase, halts, live, clock, req, acked, attempted>>

(* The 200 is written. *)
Ack(h) ==
    /\ pc[h] = "done"
    /\ acked' = acked \cup {req[h].now}
    /\ req' = [req EXCEPT ![h] = NoRequest]
    /\ Goto(h, "idle")
    /\ UNCHANGED <<src, merged, lastSeen, rows, updatedAt, phase, halts, live, clock, built, attempted, replaced>>

HandlerStep(h) ==
    \/ Merge(h)
    \/ SinkStore(h)
    \/ Ack(h)

-----------------------------------------------------------------------------
(* Recorder steps leave the handlers' locals alone; Save is remembered. *)

Saving(p) == pc[p] = "save" /\ pc'[p] = "publish"

Syncing(p) ==
    /\ SyncStep(p)
    /\ attempted' = IF Saving(p) THEN attempted \cup {live[p].gen} ELSE attempted
    /\ UNCHANGED <<pushVars, acked, replaced>>

Quiet(A) == A /\ UNCHANGED <<pushVars, history>>

Boot ==
    \/ Quiet(Start)
    \/ Quiet(LoadStored)
    \/ Quiet(LoadFails)
    \/ Quiet(AdoptLive)
    \/ Quiet(Booted)
    \/ Quiet(Listen)

RunLoop ==
    \/ Quiet(Loop)
    \/ Quiet(SyncTick)
    \/ Quiet(RollupTick)
    \/ Quiet(RollupAndPrune)
    \/ Quiet(RollupOrPruneFails)
    \/ Quiet(FinalSync)
    \/ Quiet(Stopped)

ProcessEnds ==
    /\ phase # "down"
    /\ Halt
    /\ req' = [h \in Handlers |-> NoRequest]
    /\ built' = [h \in Handlers |-> EmptySnapshot]
    /\ acked' = {} /\ attempted' = {} /\ replaced' = {}
    /\ UNCHANGED clock

Next ==
    \/ Boot
    \/ RunLoop
    \/ Quiet(Signal)
    \/ ProcessEnds
    \/ \E p \in Syncers : Syncing(p)
    \/ \E h \in Handlers : Receive(h) \/ HandlerStep(h)

Spec == Init /\ [][Next]_vars

(* Every goroutine keeps running.  A ticker's channel keeps a due tick and   *)
(* Go's select picks among ready cases at random, so a rollup that is due   *)
(* is taken sooner or later, and the database is not down for ever.         *)
Fairness ==
    /\ WF_vars(Boot)
    /\ WF_vars(RunLoop)
    /\ \A p \in Syncers : WF_vars(Syncing(p))
    /\ \A h \in Handlers : WF_vars(HandlerStep(h))
    /\ SF_vars(Quiet(RollupTick))
    /\ SF_vars(Quiet(RollupAndPrune))
    /\ SF_vars(Quiet(LoadStored))

FairSpec == Spec /\ Fairness

-----------------------------------------------------------------------------
(* Properties *)

InFlight(g) == \E p \in Syncers : pc[p] = "save" /\ live[p].gen = g

Accounted(g) ==
    \/ g \in attempted
    \/ InFlight(g)
    \/ g \in replaced
    \/ src.gen = g /\ IsEmpty(src)

(* No 200 is given for a payload nobody will write: at any time after the   *)
(* answer the payload's snapshot has been handed to Store.Save, is about to *)
(* be by some goroutine, was overwritten in the sink by a later push before *)
(* anyone read it, or held no service at all.  This is what the order sink, *)
(* SyncOnce, answer in SinkRecorder.Store and handleIngest buys.            *)
AckedAccountedFor == \A g \in acked : Accounted(g)

(* Restart: until the first push of this process reaches the sink, what     *)
(* readers are served is exactly what the store holds; neither a sync tick  *)
(* on the empty source nor a rollup blanks or ages it.                      *)
RestartServesStored ==
    src.gen = 0 /\ merged # NoSnapshot => merged.services = rows

(* The first upsert after a restart is laid over the restored services, so  *)
(* whatever it does not mention keeps its last stored state.  (A Restore    *)
(* that failed leaves nothing to lay it over, and is exempt.)               *)
FirstUpsertKeepsStored ==
    [][\A h \in Handlers :
         (/\ pc[h] = "merge" /\ pc'[h] = "store"
          /\ req[h].mode = "upsert" /\ src.gen = 0 /\ merged # NoSnapshot)
         => \A i \in Ids \ req[h].ids : built'[h].services[i] = rows[i]]_vars

(* Whatever the interleaving of publishes, once pushes stop readers come to *)
(* see the sink's snapshot and keep seeing it.  The Restore at the end of   *)
(* each rollup is what repairs a stale publish.  An empty sink is exempt:   *)
(* SyncOnce and Restore both step over it.                                  *)
EventuallyServed ==
    <>[](phase = "serving" => IsEmpty(src) \/ View.services = src.services)

(* main.go: "a push is made durable before the collector is told it was     *)
(* accepted".  When a handler is about to answer and no later push has      *)
(* replaced its snapshot, the accepted readings are in the store.           *)
AckedIsDurable ==
    \A h \in Handlers :
        pc[h] = "done" /\ src.gen = req[h].now
        => \A i \in req[h].ids : rows[i] = req[h].now

(* ingest.go: "Anything not mentioned keeps its last known state".  An      *)
(* upsert stored over a pushed snapshot leaves the services it does not     *)
(* mention as they were in the sink.                                        *)
UpsertKeepsUnmentioned ==
    [][\A h \in Handlers :
         (/\ pc[h] = "store" /\ pc'[h] = "read"
          /\ req[h].mode = "upsert" /\ src.gen # 0)
         => \A i \in Ids \ req[h].ids : src'.services[i] = src.services[i]]_vars

=============================================================================
