----------------------------- MODULE PullDriver -----------------------------
(***************************************************************************)
(* pull.Driver: one goroutine per endpoint polls it, and publishes what it *)
(* got merged with the latest result of every other endpoint.  Only the    *)
(* merge is built under the driver's mutex; the snapshot is swapped in     *)
(* after the unlock, so those are two steps.                               *)
(*                                                                         *)
(* Endpoints are their positions in the configuration.  What a fetch does  *)
(* on the wire (headers, auth, size cap, JSON) is one outcome: an error,   *)
(* or the services the mapper could read.                                  *)
(***************************************************************************)
EXTENDS Naturals

CONSTANTS
    Ids,          \* service ids
    Absent,       \* no entry
    Last,         \* the number of endpoints
    Claims,       \* Claims[e]: the ids endpoint e may report
    Values,       \* the readings an endpoint may report of a service
    BackoffCap,   \* consecutive failures beyond which the delay stops growing
    MaxClock      \* bound: successful polls over the whole behaviour

Endpoints == 1 .. Last

(* Of the constants; assumed where the module is instantiated. *)
PullAssumption ==
    /\ Last \in Nat \ {0}
    /\ Claims \in [Endpoints -> SUBSET Ids]
    /\ Absent \notin Endpoints \X Values
    /\ BackoffCap \in Nat \ {0}
    /\ MaxClock \in Nat

(* A reading names the endpoint it came from. *)
Reports == Endpoints \X Values

Estate == [Ids -> Reports \cup {Absent}]

Nothing == [i \in Ids |-> Absent]

Snapshot == [services : Estate, gen : Nat]

EmptySnapshot == [services |-> Nothing, gen |-> 0]

VARIABLES
    snap,      \* Driver.snap
    latest,    \* Driver.latest
    lastErr,   \* the endpoints with an entry in Driver.lastErr
    failures,  \* per endpoint: loop's count, up to BackoffCap (min(failures, 10))
    poll,      \* per endpoint: where its poll is
    result,    \* per endpoint: the services, then the merged snapshot, of its poll
    boot,      \* 0: no process; 1 .. Last: main polls it; Last + 1: Run is going
    clock      \* the last value read from now()

driverVars == <<snap, latest, lastErr, failures, poll, result, boot, clock>>

PollSteps == {"off", "fetch", "publish", "store", "wait"}

TypeOK ==
    /\ snap \in Snapshot
    /\ latest \in [Endpoints -> Estate]
    /\ lastErr \subseteq Endpoints
    /\ failures \in [Endpoints -> 0 .. BackoffCap]
    /\ poll \in [Endpoints -> PollSteps]
    /\ result \in [Endpoints -> Snapshot]
    /\ boot \in 0 .. (Last + 1)
    /\ clock \in 0 .. MaxClock

NoResults == [e \in Endpoints |-> Nothing]

Unpolled == [e \in Endpoints |-> "off"]

NoFailures == [e \in Endpoints |-> 0]

NoSnapshots == [e \in Endpoints |-> EmptySnapshot]

Init ==
    /\ snap = EmptySnapshot
    /\ latest = NoResults
    /\ lastErr = {}
    /\ failures = NoFailures
    /\ poll = Unpolled
    /\ result = NoSnapshots
    /\ boot = 0
    /\ clock = 0

(* The first endpoint that has i, in configured order, supplies it. *)
Merged(l) ==
    [i \in Ids |->
        LET having == {e \in Endpoints : l[e][i] # Absent}
        IN IF having = {} THEN Absent
           ELSE l[CHOOSE e \in having : \A f \in having : e <= f][i]]

Goto(e, label) == poll' = [poll EXCEPT ![e] = label]

Running == boot = Last + 1

-----------------------------------------------------------------------------

(* serve(): PollOnce takes the endpoints one after another ... *)
FirstPoll ==
    /\ boot < Last
    /\ boot # 0 => poll[boot] = "wait"
    /\ boot' = boot + 1
    /\ Goto(boot + 1, "fetch")
    /\ UNCHANGED <<snap, latest, lastErr, failures, result, clock>>

(* ... and go Run starts a loop for each, which polls at once. *)
Run ==
    /\ boot = Last /\ poll[boot] = "wait"
    /\ boot' = Last + 1
    /\ poll' = [e \in Endpoints |-> "fetch"]
    /\ UNCHANGED <<snap, latest, lastErr, failures, result, clock>>

(* Mutant: the count of failures is not capped. *)
MutantFetchFails(e) ==
    /\ poll[e] = "fetch"
    /\ lastErr' = lastErr \cup {e}
    /\ failures' = IF Running THEN [failures EXCEPT ![e] = @ + 1] ELSE failures
    /\ Goto(e, "wait")
    /\ UNCHANGED <<snap, latest, result, boot, clock>>

(* recordFailure: a transport error, a bad status, a timeout, an unreadable *)
(* body, or a body without one readable service.                            *)
FetchFails(e) ==
    /\ poll[e] = "fetch"
    /\ lastErr' = lastErr \cup {e}
    /\ failures' = IF Running /\ failures[e] < BackoffCap
                   THEN [failures EXCEPT ![e] = @ + 1] ELSE failures
    /\ Goto(e, "wait")
    /\ UNCHANGED <<snap, latest, result, boot, clock>>

(* Some, not necessarily all, of the upstream's records are readable. *)
FetchSucceeds(e) ==
    /\ poll[e] = "fetch"
    /\ clock < MaxClock
    /\ clock' = clock + 1
    /\ \E some \in (SUBSET Claims[e]) \ {{}}, v \in Values :
          result' = [result EXCEPT ![e] =
              [services |-> [i \in Ids |-> IF i \in some THEN <<e, v>> ELSE Absent],
               gen |-> clock']]
    /\ Goto(e, "publish")
    /\ UNCHANGED <<snap, latest, lastErr, failures, boot>>

(* Mutant: a good poll does not clear the endpoint's error. *)
MutantMergeLatest(e) ==
    /\ poll[e] = "publish"
    /\ latest' = [latest EXCEPT ![e] = result[e].services]
    /\ result' = [result EXCEPT ![e].services = Merged(latest')]
    /\ Goto(e, "store")
    /\ UNCHANGED <<snap, lastErr, failures, boot, clock>>

(* publish, up to the unlock. *)
MergeLatest(e) ==
    /\ poll[e] = "publish"
    /\ latest' = [latest EXCEPT ![e] = result[e].services]
    /\ lastErr' = lastErr \ {e}
    /\ result' = [result EXCEPT ![e].services = Merged(latest')]
    /\ Goto(e, "store")
    /\ UNCHANGED <<snap, failures, boot, clock>>

(* publish, after the unlock; the poll has succeeded. *)
StoreSnap(e) ==
    /\ poll[e] = "store"
    /\ snap' = result[e]
    /\ result' = [result EXCEPT ![e] = EmptySnapshot]
    /\ failures' = [failures EXCEPT ![e] = 0]
    /\ Goto(e, "wait")
    /\ UNCHANGED <<latest, lastErr, boot, clock>>

(* The delay is over. *)
NextPoll(e) ==
    /\ Running
    /\ poll[e] = "wait"
    /\ Goto(e, "fetch")
    /\ UNCHANGED <<snap, latest, lastErr, failures, result, boot, clock>>

(* The process ends; New makes an empty driver when it starts again. *)
Exit ==
    /\ boot # 0
    /\ snap' = EmptySnapshot
    /\ latest' = NoResults
    /\ lastErr' = {}
    /\ failures' = NoFailures
    /\ poll' = Unpolled
    /\ result' = NoSnapshots
    /\ boot' = 0
    /\ UNCHANGED clock

PollStep(e) ==
    \/ FetchFails(e)
    \/ FetchSucceeds(e)
    \/ MergeLatest(e)
    \/ StoreSnap(e)

Next ==
    \/ FirstPoll
    \/ Run
    \/ \E e \in Endpoints : PollStep(e) \/ NextPoll(e)

Spec == Init /\ [][Next]_driverVars

-----------------------------------------------------------------------------
(* Properties *)

(* publish: endpoints are merged "rather than replacing each other", and an *)
(* overlap does not depend on "whichever poll happened to finish last".     *)
(* When no publish is under way, what readers get is the merge of every     *)
(* endpoint's latest result.                                                *)
QuietSnapshotIsMerge ==
    (\A e \in Endpoints : poll[e] \notin {"publish", "store"})
    => snap.services = Merged(latest)

=============================================================================
