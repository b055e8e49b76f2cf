--------------------------- MODULE PullDashboard ---------------------------
(***************************************************************************)
(* A pull deployment: main polls every endpoint once, starts a poll loop   *)
(* for each, and then restores, syncs and runs the Recorder beside them.   *)
(* The source is the driver of PullDriver, its snap being the recorder's   *)
(* src; the only caller of SyncOnce is the Runner.                         *)
(***************************************************************************)
EXTENDS Recorder

CONSTANTS
    Last,         \* the constants of PullDriver
    Claims,
    Values,
    BackoffCap,
    MaxClock

VARIABLES latest, lastErr, failures, poll, result, boot, clock

Driver == INSTANCE PullDriver WITH snap <- src

ASSUME PullDashboardAssumption ==
    /\ Syncers = {Runner}
    /\ Readings = Driver!Reports
    /\ Driver!PullAssumption

VARIABLE
    attempted   \* history: snapshots handed to Store.Save by this process

localVars   == <<latest, lastErr, failures, poll, result, boot, clock>>
storageVars == <<merged, lastSeen, rows, updatedAt, phase, halts, pc, live>>
vars        == <<recorderVars, localVars, attempted>>

TypeOK ==
    /\ RecorderTypeOK
    /\ Driver!TypeOK
    /\ pc \in [Syncers -> RunnerSteps]
    /\ attempted \subseteq Nat

Init ==
    /\ RecorderInit
    /\ Driver!Init
    /\ attempted = {}

-----------------------------------------------------------------------------
(* The signal's context ends the poll loops; what a poll has under way may   *)
(* still finish, or fail.                                                   *)
Polling ==
    \/ Driver!FirstPoll
    \/ Driver!Run
    \/ \E e \in Driver!Endpoints :
          \/ Driver!FetchFails(e)
          \/ Driver!FetchSucceeds(e)
          \/ phase \notin {"draining", "flushing"} /\ Driver!NextPoll(e)

Publishing(e) == Driver!MergeLatest(e) \/ Driver!StoreSnap(e)

Drive(A) == A /\ UNCHANGED <<storageVars, attempted>>

(* Recorder steps. *)

Quiet(A) == A /\ UNCHANGED <<localVars, attempted>>

Syncing ==
    /\ SyncStep(Runner)
    /\ attempted' = IF pc[Runner] = "save" THEN attempted \cup {live[Runner].gen}
                    ELSE attempted
    /\ UNCHANGED localVars

(* serve() restores after PollOnce, with the poll loops already going. *)
Boot ==
    \/ Driver!Running /\ Start
    \/ LoadStored
    \/ LoadFails
    \/ AdoptLive
    \/ Booted
    \/ Listen

RunLoop ==
    \/ Loop
    \/ RollupAndPrune
    \/ RollupOrPruneFails
    \/ FinalSync
    \/ Stopped

ProcessEnds ==
    /\ Driver!Exit
    /\ Halt
    /\ attempted' = {}

Next ==
    \/ Drive(Polling)
    \/ \E e \in Driver!Endpoints : Drive(Publishing(e))
    \/ Syncing
    \/ Quiet(Boot)
    \/ Quiet(RunLoop)
    \/ Quiet(SyncTick)
    \/ Quiet(RollupTick)
    \/ Quiet(Signal)
    \/ ProcessEnds

Spec == Init /\ [][Next]_vars

(* Every goroutine keeps running, every poll ends (it has a timeout), and    *)
(* Go's select, which picks among ready cases at random, takes a pending    *)
(* tick sooner or later.                                                    *)
Fairness ==
    /\ WF_vars(Drive(Polling))
    /\ \A e \in Driver!Endpoints : WF_vars(Drive(Publishing(e)))
    /\ WF_vars(Syncing)
    /\ WF_vars(Quiet(Boot))
    /\ WF_vars(Quiet(RunLoop))
    /\ SF_vars(Quiet(SyncTick))

FairSpec == Spec /\ Fairness

-----------------------------------------------------------------------------
(* Properties *)

(* persist.go, SyncOnce: an unchanged source is not rewritten, because a     *)
(* second Save of one snapshot appends a duplicate sample for every service *)
(* and inflates the rollup.  However polls, rollups and ticks interleave,   *)
(* and although the driver may swap two snapshots' order, what Save is      *)
(* about to be handed was never handed to it before.                        *)
SavedOnce == pc[Runner] = "save" => live[Runner].gen \notin attempted

(* pull.go, recordFailure: a dashboard does not blank out because its        *)
(* upstream hiccups.  A merged snapshot with services is never replaced by  *)
(* one without: not by a failing endpoint, an empty source or a rollup.     *)
NeverBlanks ==
    [][merged # NoSnapshot /\ merged' # NoSnapshot /\ ~IsEmpty(merged)
       => ~IsEmpty(merged')]_vars

(* An endpoint that waits under backoff is one whose health shows an error,  *)
(* and the other way round: loop's count and lastErr are two records of one *)
(* outcome, kept by different code at different moments.                    *)
BackoffMatchesHealth ==
    Driver!Running => \A e \in Driver!Endpoints :
        poll[e] = "wait" => (failures[e] > 0 <=> e \in lastErr)

(* While the process serves and polls have stopped bringing anything new,    *)
(* readers get the driver's snapshot, for good.                             *)
EventuallyServed ==
    <>[](phase = "serving" => IsEmpty(src) \/ View.services = src.services)

Stored(snap) ==
    \A i \in Ids : snap.services[i] # Absent => rows[i] = snap.services[i]

(* ... and the store has it too, if the database takes every write: neither  *)
(* the skip of an unchanged source nor the rollup's Restore loses one.      *)
EventuallyDurable == <>[](phase = "serving" => Stored(src))

(* persist.go, Run: "One last write, so a graceful shutdown does not discard *)
(* the reading taken between the final tick and the signal."  When Run has  *)
(* returned, the last snapshot it took up is in the store.                  *)
GracefulStopKeepsReading ==
    pc[Runner] = "stopped" /\ ~IsEmpty(src) /\ src.gen = lastSeen => Stored(src)

=============================================================================
