------------------------------ MODULE Database ------------------------------
(***************************************************************************)
(* A SQL database under processes that migrate it as they start and save   *)
(* snapshots into it while they run.                                       *)
(***************************************************************************)
EXTENDS Migrations, SqlRows

CONSTANT MaxSaves  \* bound: successful saves

VARIABLE reported  \* for each service what its last report said, the
                   \* empty one included, and which Save brought it

vars == <<migrating, rows, reported>>

ASSUME DatabaseAssumption ==
    /\ MigrationsAssumption
    /\ RowsAssumption
    /\ MaxSaves \in Nat

TypeOK == MigrationsTypeOK /\ RowsTypeOK

Init ==
    /\ MigrationsInit
    /\ RowsInit
    /\ reported = [s \in Services |->
                     [incidents |-> <<>>, errors |-> NoBuckets, save |-> 0]]

(* A snapshot mentions a service once, in any order. *)
Snapshots ==
    {snapshot \in SeqOf(Report, Cardinality(Services)) :
        IsInjective([k \in DOMAIN snapshot |-> snapshot[k].service])}

Mentions(snapshot, s) == {k \in DOMAIN snapshot : snapshot[k].service = s}

(* What a report says of a service, as it is saved now. *)
Recall(r) == [incidents |-> r.incidents, errors |-> r.errors, save |-> saves + 1]

(* What each service's last report says, this snapshot being the latest. *)
Remember(snapshot) ==
    [s \in Services |->
        IF Mentions(snapshot, s) = {} THEN reported[s]
        ELSE Recall(snapshot[CHOOSE k \in Mentions(snapshot, s) : TRUE])]

SaveSnapshot ==
    /\ saves < MaxSaves
    /\ \E p \in Processes : pc[p] = "ready"
    /\ \E snapshot \in Snapshots :
          /\ Save(snapshot)
          /\ reported' = Remember(snapshot)
    /\ UNCHANGED migrating

Next ==
    \/ \E p \in Processes : (Migrate(p) \/ Crash(p)) /\ UNCHANGED <<rows, reported>>
    \/ SaveSnapshot

Spec == Init /\ [][Next]_vars /\ \A p \in Processes : WF_vars(Migrate(p) /\ UNCHANGED <<rows, reported>>)

-----------------------------------------------------------------------------
(* Migrations, on a database whose schema changes are transactional. *)

(* What a failure or a kill part way leaves behind is exactly the recorded   *)
(* migrations: the next start resumes (migrate.go:68) and repeats none.     *)
RecordedIsApplied ==
    ~ImplicitCommit => schema = UNION {Adds(v) : v \in recorded}

(* No migration is recorded before one it builds on, whatever builds of the  *)
(* program migrate at once.                                                 *)
InOrder == \A v \in recorded : 1..v \subseteq recorded

(* A process that serves finds every column its build knows of, and keeps    *)
(* finding them while others migrate, fail and restart.                     *)
ReadyHasSchema ==
    \A p \in Processes : pc[p] = "ready" =>
        UNION {Adds(v) : v \in 1..Embeds[p]} \subseteq schema

(* Once nobody is killed any more, every process gets to serve, the ones     *)
(* another process outran included.                                         *)
EventuallyReady == \A p \in Processes : <>[](pc[p] = "ready")

(* Rows *)

(* A list of incidents replaces the one that was stored, wholesale: while a  *)
(* service's last report names incidents they are the ones stored, in their *)
(* order and each with that report's events alone.  An incident is only one *)
(* service's, its events are one report's, and none are left of an incident *)
(* that is gone (saveIncidents).  What an empty list does is not what the   *)
(* code says it does: see StoredIsLastReport.                               *)
LastListStored ==
    /\ \A s \in Services : reported[s].incidents # <<>> =>
          /\ incidents[s] = reported[s].incidents
          /\ \A i \in Range(incidents[s]) : events[i] = {reported[s].save}
    /\ \A i \in IncidentIds : LET owners == {s \in Services : i \in Range(incidents[s])} IN
          \/ owners = {} /\ events[i] = {}
          \/ (\E s \in Services : owners = {s}) /\ (\E n \in 1 .. saves : events[i] = {n})

(* A restart loads every service ever reported and no other, with the       *)
(* incidents its last report named, in their order, if it named any, and    *)
(* with the error breakdown it carried, if it carried one.  The lists a      *)
(* last report left empty are StoredIsLastReport's, once more.              *)
LoadedIsReported ==
    /\ {Loaded[i].service : i \in DOMAIN Loaded} = {s \in Services : reported[s].save # 0}
    /\ \A i \in DOMAIN Loaded : LET last == reported[Loaded[i].service] IN
          /\ last.errors # NoBuckets => Loaded[i].errors = last.errors
          /\ last.incidents # <<>> =>
                [k \in DOMAIN Loaded[i].incidents |-> Loaded[i].incidents[k].id] = last.incidents

(* "An incident that has disappeared upstream should disappear here", and "a *)
(* code that stopped occurring should stop being shown" (saveIncidents,     *)
(* saveErrors): what is stored of a service is what its last report said,   *)
(* an empty list included.                                                  *)
StoredIsLastReport ==
    \A s \in Services : /\ incidents[s] = reported[s].incidents
                        /\ errors[s] = reported[s].errors

(* A service keeps its place, and a new one comes after all those known      *)
(* (sqlstore.go:174).                                                       *)
FirstSeenOrder ==
    [][\A s, t \in Services : seqs[s] # 0 =>
          /\ seqs'[s] = seqs[s]
          /\ seqs[t] = 0 /\ seqs'[t] # 0 => seqs[s] < seqs'[t]]_vars

(* Load reconstructs the last known state (sqlstore.go:355): an incident     *)
(* comes back with the events that are stored for it.                       *)
LoadedEventsComplete ==
    \A s \in Services : \A k \in DOMAIN incidents[s] :
        LoadedIncidents(s)[k].events = events[incidents[s][k]]
=============================================================================
