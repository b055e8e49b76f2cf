------------------------------ MODULE SqlRows -------------------------------
(***************************************************************************)
(* The SQL store's rows about the present: services, incidents, their      *)
(* events, and error buckets; what Save writes into them and what Load     *)
(* makes of them.  Current readings are in Recorder, history in SqlStore.  *)
(***************************************************************************)
EXTENDS Integers, Sequences, FiniteSets, Functions, SequencesExt

CONSTANTS
    Services,
    IncidentIds,
    Buckets,     \* what an error breakdown may be
    NoBuckets    \* none reported

VARIABLES
    seqs,       \* services.seq; 0: no row
    incidents,  \* for each service the ids of its rows, by incidents.seq
    events,     \* [IncidentIds -> reports whose events are stored for an id]
    errors,     \* a service's error_buckets
    saves       \* how many reports were saved: the number of the last one

rows == <<seqs, incidents, events, errors, saves>>

(* A service in a snapshot; every incident comes with its events. *)
Report == [service : Services,
           incidents : {s \in SeqOf(IncidentIds, Cardinality(IncidentIds)) : IsInjective(s)},
           errors : Buckets \cup {NoBuckets}]

RowsAssumption ==
    /\ IsFiniteSet(Services) /\ IsFiniteSet(IncidentIds)
    /\ NoBuckets \notin Buckets

RowsTypeOK ==
    /\ seqs \in [Services -> Nat]
    /\ incidents \in [Services -> Seq(IncidentIds)]
    /\ events \in [IncidentIds -> SUBSET (1..saves)]
    /\ errors \in [Services -> Buckets \cup {NoBuckets}]
    /\ saves \in Nat

RowsInit ==
    /\ seqs = [s \in Services |-> 0]
    /\ incidents = [s \in Services |-> <<>>]
    /\ events = [i \in IncidentIds |-> {}]
    /\ errors = [s \in Services |-> NoBuckets]
    /\ saves = 0

-----------------------------------------------------------------------------
(* Save: what the transaction holds, service by service.  It is "ok" until a *)
(* statement fails.                                                         *)
Tables == [seqs |-> seqs, incidents |-> incidents, events |-> events,
           errors |-> errors, ok |-> TRUE]

NextSeq(t) == 1 + CHOOSE n \in Range(t.seqs) : \A m \in Range(t.seqs) : m <= n

(* Mutant: seq is among the columns an upsert updates. *)
MutantSaveService(t, r) == [t EXCEPT !.seqs[r.service] = NextSeq(t)]

(* First-seen order: seq is not among the columns an upsert updates. *)
SaveService(t, r) ==
    IF t.seqs[r.service] # 0 THEN t
    ELSE [t EXCEPT !.seqs[r.service] = NextSeq(t)]

Owned(t, s) == Range(t.incidents[s])

(* Mutant: the incidents are deleted before their events. *)
MutantSaveIncidents(t, r, n) ==
    IF r.incidents = <<>> THEN t
    ELSE [t EXCEPT !.incidents[r.service] = r.incidents,
                   !.events = [i \in IncidentIds |->
                       IF i \in Range(r.incidents) THEN {n} ELSE t.events[i]],
                   !.ok = @ /\ \A s \in Services \ {r.service} :
                                  Range(r.incidents) \cap Owned(t, s) = {}]

(* Replaces the service's incidents and their events, unless none is        *)
(* reported; an incident's id is a key across services.                     *)
SaveIncidents(t, r, n) ==
    LET kept == [i \in IncidentIds |->
                    IF i \in Owned(t, r.service) THEN {} ELSE t.events[i]]
    IN  IF r.incidents = <<>> THEN t
        ELSE [t EXCEPT
                !.incidents[r.service] = r.incidents,
                !.events = [i \in IncidentIds |->
                    IF i \in Range(r.incidents) THEN kept[i] \cup {n} ELSE kept[i]],
                !.ok = @ /\ \A i \in Range(r.incidents) :
                              /\ kept[i] = {}
                              /\ \A s \in Services \ {r.service} : i \notin Owned(t, s)]

(* Mutant: the early return of saveIncidents guards both lists. *)
MutantSaveErrors(t, r) ==
    IF r.errors = NoBuckets \/ r.incidents = <<>> THEN t
    ELSE [t EXCEPT !.errors[r.service] = r.errors]

(* Replaces the stored breakdown, unless none is reported. *)
SaveErrors(t, r) ==
    IF r.errors = NoBuckets THEN t
    ELSE [t EXCEPT !.errors[r.service] = r.errors]

SaveReport(t, r, n) == SaveErrors(SaveIncidents(SaveService(t, r), r, n), r)

(* What the transaction holds once the first k services are written. *)
Transaction(snapshot, n) ==
    LET t[k \in 0 .. Len(snapshot)] ==
          IF k = 0 THEN Tables ELSE SaveReport(t[k - 1], snapshot[k], n)
    IN  t

(* The whole snapshot in one transaction. *)
Saved(snapshot, n) == Transaction(snapshot, n)[Len(snapshot)]

(* A Save that fails is rolled back and leaves every row as it was. *)
Save(snapshot) ==
    LET t == Saved(snapshot, saves + 1)
    IN  /\ t.ok
        /\ seqs' = t.seqs
        /\ incidents' = t.incidents
        /\ events' = t.events
        /\ errors' = t.errors
        /\ saves' = saves + 1

-----------------------------------------------------------------------------
(* Load *)

(* ORDER BY services.seq *)
LoadedServices ==
    LET known == {s \in Services : seqs[s] # 0} IN
    CHOOSE list \in Surjection(1 .. Cardinality(known), known) :
       \A i, j \in DOMAIN list : i < j => seqs[list[i]] < seqs[list[j]]

(* The room Go's append gives a slice of n incidents it grew one by one. *)
Capacity(n) == CHOOSE c \in {1, 2, 4, 8} : n <= c /\ (c = 1 \/ 2 * n > c)

(* loadIncidents keeps the address of each incident as it appends it, and    *)
(* loadIncidentEvents appends to what is there.  The address is still that   *)
(* of the k-th of n incidents only if no later append moved the slice.      *)
Addressed(k, n) == n <= Capacity(k)

(* An incident as Load returns it. *)
LoadedIncidents(s) ==
    [k \in DOMAIN incidents[s] |->
        [id |-> incidents[s][k],
         events |-> IF Addressed(k, Len(incidents[s]))
                      THEN events[incidents[s][k]] ELSE {}]]

Loaded == [i \in DOMAIN LoadedServices |->
              LET s == LoadedServices[i]
              IN  [service |-> s, incidents |-> LoadedIncidents(s), errors |-> errors[s]]]
=============================================================================
