--------------------------- MODULE DatabaseProofs ---------------------------
(***************************************************************************)
(* Theorems about the database.  Migrations leave a schema that its ledger *)
(* describes, for any number of processes, of builds and of files, and any *)
(* order of failures; and the rows are what was saved, and a restart loads *)
(* what was reported, for any number of services, incidents and saves.     *)
(* Save is a fold over the snapshot, so the facts about it go from each    *)
(* service to the next (UpTo), and the invariant says what the transaction *)
(* holds after the first k services.                                       *)
(***************************************************************************)
EXTENDS Database, Induction, FiniteSetTheorems

-----------------------------------------------------------------------------
(* Migrations *)


(* The statements of its file that a process has run. *)
Ran(p) == {Files[version[p]][j].adds : j \in 1..(statement[p] - 1)}

(* What a process that is applying a file knows and holds. *)
ProcessInv(p) ==
    /\ applied[p] \subseteq recorded
    /\ version[p] = 0 => pending[p] = {}
    /\ version[p] # 0 =>
          /\ version[p] \in 1..Embeds[p]
          /\ 1..(version[p] - 1) \subseteq applied[p]
          /\ pending[p] \subseteq Adds(version[p])
          /\ statement[p] \in 1..(Len(Files[version[p]]) + 1)
          /\ Ran(p) \subseteq schema \cup pending[p]
    /\ pc[p] = "ready" => 1..Embeds[p] \subseteq applied[p]
    /\ pc[p] # "apply" => version[p] = 0

LedgerInv ==
    /\ MigrationsTypeOK
    /\ RecordedIsApplied
    /\ InOrder
    /\ \A v \in recorded : Adds(v) \subseteq schema
    /\ \A p \in Processes : ProcessInv(p)

LEMMA AddsAreThings == \A v \in Versions : Adds(v) \subseteq Things
  BY DatabaseAssumption DEF MigrationsAssumption, Adds, Things, Versions

LEMMA UpcomingIsStatement ==
    ASSUME MigrationsTypeOK, NEW p \in Processes, HasNext(p)
    PROVE  /\ Upcoming(p) \in Statement
           /\ version[p] \in Versions
           /\ Upcoming(p).adds \in Adds(version[p])
  BY DatabaseAssumption
  DEF MigrationsAssumption, MigrationsTypeOK, HasNext, Applying, Upcoming, Versions, Adds

LEMMA LedgerInit == Init => LedgerInv
<1> SUFFICES ASSUME Init PROVE LedgerInv
  OBVIOUS
<1> USE DatabaseAssumption DEF Init, MigrationsInit, MigrationsAssumption
<1>1. MigrationsTypeOK
  BY DEF MigrationsTypeOK, MigrateSteps
<1>2. RecordedIsApplied
  BY DEF RecordedIsApplied
<1>3. InOrder /\ \A v \in recorded : Adds(v) \subseteq schema
  BY DEF InOrder
<1>4. \A p \in Processes : ProcessInv(p)
  BY DEF ProcessInv
<1> QED
  BY <1>1, <1>2, <1>3, <1>4 DEF LedgerInv

(* Each action keeps the types. *)
LEMMA TypeStep == MigrationsTypeOK /\ [Next]_vars => MigrationsTypeOK'
<1> SUFFICES ASSUME MigrationsTypeOK, [Next]_vars PROVE MigrationsTypeOK'
  OBVIOUS
<1> USE DatabaseAssumption DEF MigrationsTypeOK, MigrationsAssumption
<1>1. ASSUME NEW p \in Processes, Start(p) PROVE MigrationsTypeOK'
  BY <1>1 DEF Start, MigrateSteps
<1>2. ASSUME NEW p \in Processes, AppliedVersions(p) PROVE MigrationsTypeOK'
  BY <1>2 DEF AppliedVersions, MigrateSteps
<1>3. ASSUME NEW p \in Processes, Begin(p) PROVE MigrationsTypeOK'
  <2>1. Unapplied(p) \subseteq 0..Len(Files) /\ Unapplied(p) \subseteq Nat
    BY DEF Unapplied
  <2> QED
    BY <1>3, <2>1 DEF Begin
<1>4. ASSUME NEW p \in Processes, Execute(p) PROVE MigrationsTypeOK'
  <2>1. Upcoming(p) \in Statement /\ Upcoming(p).adds \in Things
    BY <1>4, UpcomingIsStatement DEF Execute, Statement
  <2>2. schema' \in SUBSET Things /\ writer' \in Processes \cup {Nobody}
    BY <1>4, <2>1 DEF Execute
  <2>3. pending' \in [Processes -> SUBSET Things]
    <3>1. pending[p] \cup {Upcoming(p).adds} \in SUBSET Things
      BY <2>1
    <3>2. CASE ImplicitCommit
      BY <1>4, <3>2 DEF Execute
    <3>3. CASE ~ImplicitCommit
      <4>1. pending' = [pending EXCEPT ![p] = @ \cup {Upcoming(p).adds}]
        BY <1>4, <3>3 DEF Execute
      <4> QED
        BY <3>1, <4>1
    <3> QED
      BY <3>2, <3>3
  <2>4. statement' \in [Processes -> Nat \ {0}]
    <3>1. \A n \in Nat \ {0} : n + 1 \in Nat \ {0}
      OBVIOUS
    <3> QED
      BY <1>4, <3>1 DEF Execute
  <2> QED
    BY <1>4, <2>2, <2>3, <2>4 DEF Execute
<1>5. ASSUME NEW p \in Processes, Commit(p) PROVE MigrationsTypeOK'
  <2>1. version[p] \in Versions
    BY <1>5 DEF Commit, Applying, Versions
  <2> QED
    BY <1>5, <2>1 DEF Commit
<1>6. ASSUME NEW p \in Processes, Migrated(p) PROVE MigrationsTypeOK'
  BY <1>6 DEF Migrated, MigrateSteps
<1>7. ASSUME NEW p \in Processes, Gone(p), crashes' \in 0..MaxCrashes
      PROVE  MigrationsTypeOK'
  BY <1>7 DEF Gone, MigrateSteps
<1>8. CASE SaveSnapshot \/ UNCHANGED vars
  BY <1>8 DEF SaveSnapshot, vars, migrating
<1> QED
  BY SMTT(40), <1>1, <1>2, <1>3, <1>4, <1>5, <1>6, <1>7, <1>8
  DEF Next, Migrate, Refuse, Crash

-----------------------------------------------------------------------------
(* What a process knows stays true while others act: the schema and the      *)
(* ledger only grow.                                                        *)
LEMMA OthersKeep ==
    ASSUME LedgerInv, NEW p \in Processes,
           schema \subseteq schema', recorded \subseteq recorded',
           pc'[p] = pc[p], applied'[p] = applied[p], version'[p] = version[p],
           statement'[p] = statement[p], pending'[p] = pending[p]
    PROVE  ProcessInv(p)'
<1>1. ProcessInv(p)
  BY DEF LedgerInv
<1>2. version[p] # 0 => Ran(p)' \subseteq (schema \cup pending[p])'
  BY <1>1 DEF ProcessInv, Ran
<1> QED
  BY <1>1, <1>2 DEF ProcessInv

(* A process that is gone knows nothing. *)
LEMMA GoneKeeps ==
    ASSUME LedgerInv, NEW p \in Processes, Gone(p), MigrationsTypeOK'
    PROVE  LedgerInv'
<1> USE DEF LedgerInv, MigrationsTypeOK
<1>1. ASSUME NEW q \in Processes, q # p PROVE ProcessInv(q)'
  BY <1>1, OthersKeep DEF Gone
<1>2. ProcessInv(p)'
  BY DEF Gone, ProcessInv
<1>3. RecordedIsApplied' /\ InOrder' /\ \A v \in recorded' : Adds(v)' \subseteq schema'
  BY DEF Gone, RecordedIsApplied, InOrder, Adds
<1> QED
  BY <1>1, <1>2, <1>3

LEMMA ExecuteKeeps ==
    ASSUME LedgerInv, NEW p \in Processes, Execute(p), MigrationsTypeOK'
    PROVE  LedgerInv'
<1> USE DatabaseAssumption DEF LedgerInv, MigrationsTypeOK
<1>0. /\ ProcessInv(p) /\ version[p] # 0 /\ statement[p] <= Len(Files[version[p]])
      /\ Upcoming(p) = Files[version[p]][statement[p]]
  BY DEF Execute, HasNext, Applying, Upcoming
<1>1. ASSUME NEW q \in Processes, q # p PROVE ProcessInv(q)'
  BY <1>1, OthersKeep DEF Execute
<1>2. Upcoming(p).adds \in Adds(version[p]) /\ version[p] \in Versions
  BY UpcomingIsStatement DEF Execute
<1>3. /\ version' = version /\ applied' = applied /\ pc' = pc /\ recorded' = recorded
      /\ statement'[p] = statement[p] + 1
      /\ schema \subseteq schema'
  BY DEF Execute
<1>4. pending'[p] \subseteq Adds(version[p]) /\ pending[p] \subseteq pending'[p]
  BY <1>0, <1>2 DEF Execute, ProcessInv
<1>5. Upcoming(p).adds \in schema' \cup pending'[p]
  BY DEF Execute
<1>6. Ran(p)' \subseteq schema' \cup pending'[p]
  <2>1. ASSUME NEW j \in 1..(statement'[p] - 1)
        PROVE  Files[version[p]][j].adds \in schema' \cup pending'[p]
    <3>1. j \in 1..(statement[p] - 1) \/ j = statement[p]
      BY <1>3
    <3>2. CASE j = statement[p]
      BY <1>0, <1>5, <3>2
    <3>3. CASE j \in 1..(statement[p] - 1)
      <4>1. Files[version[p]][j].adds \in Ran(p)
        BY <3>3 DEF Ran
      <4> QED
        BY <1>0, <1>3, <1>4, <4>1 DEF ProcessInv
    <3> QED
      BY <3>1, <3>2, <3>3
  <2> QED
    BY <1>3, <2>1 DEF Ran
<1>7. statement'[p] \in 1..(Len(Files[version[p]]) + 1)
  <2>1. Len(Files[version[p]]) \in Nat /\ statement[p] \in Nat \ {0}
    BY <1>2 DEF MigrationsAssumption
  <2> QED
    BY SMTT(40), <1>0, <1>3, <2>1
<1>8. ProcessInv(p)'
  <2>2. pending'[p] \subseteq Adds(version'[p])
    BY <1>3, <1>4
  <2>3. applied'[p] \subseteq recorded' /\ (pc'[p] = "ready" => 1..Embeds[p] \subseteq applied'[p])
        /\ (pc'[p] # "apply" => version'[p] = 0)
    BY <1>0, <1>3 DEF ProcessInv
  <2>4. version'[p] \in 1..Embeds[p] /\ 1..(version'[p] - 1) \subseteq applied'[p]
    BY <1>0, <1>3 DEF ProcessInv
  <2>5. version'[p] # 0
    BY <1>0, <1>3
  <2> QED
    BY <1>3, <1>6, <1>7, <2>2, <2>3, <2>4, <2>5 DEF ProcessInv
<1>9. RecordedIsApplied' /\ InOrder' /\ \A v \in recorded' : Adds(v) \subseteq schema'
  BY <1>3 DEF Execute, RecordedIsApplied, InOrder
<1> QED
  BY <1>1, <1>8, <1>9

LEMMA BeginKeeps ==
    ASSUME LedgerInv, NEW p \in Processes, Begin(p), MigrationsTypeOK'
    PROVE  LedgerInv'
<1> USE DatabaseAssumption DEF LedgerInv, MigrationsTypeOK
<1>1. ASSUME NEW q \in Processes, q # p PROVE ProcessInv(q)'
  BY <1>1, OthersKeep DEF Begin
<1>2. PICK v \in Unapplied(p) : /\ \A u \in Unapplied(p) : v <= u
                                /\ version' = [version EXCEPT ![p] = v]
  BY DEF Begin
<1>3. v \in 1..Embeds[p] /\ v \in Versions /\ v # 0
  BY SMTT(40) DEF Unapplied, Versions, MigrationsAssumption
<1>4. 1..(v - 1) \subseteq applied[p]
  <2>1. ASSUME NEW u \in 1..(v - 1), u \notin applied[p] PROVE FALSE
    <3>1. u \in Unapplied(p)
      BY <1>3, <2>1 DEF Unapplied, MigrationsAssumption
    <3> QED
      BY <1>2, <1>3, <2>1, <3>1 DEF MigrationsAssumption
  <2> QED
    BY <2>1
<1>5. ProcessInv(p)'
  <2>1. version'[p] = v /\ statement'[p] = 1 /\ pending'[p] = {}
    BY <1>2 DEF Begin, ProcessInv
  <2>2. Ran(p)' = {}
    BY <2>1 DEF Ran
  <2>3. 1 \in 1..(Len(Files[v]) + 1)
    BY SMTT(40), <1>3 DEF MigrationsAssumption
  <2> QED
    BY <1>3, <1>4, <2>1, <2>2, <2>3 DEF Begin, ProcessInv
<1>6. RecordedIsApplied' /\ InOrder' /\ \A w \in recorded' : Adds(w) \subseteq schema'
  BY DEF Begin, RecordedIsApplied, InOrder
<1> QED
  BY <1>1, <1>5, <1>6

LEMMA CommitKeeps ==
    ASSUME LedgerInv, NEW p \in Processes, Commit(p), MigrationsTypeOK'
    PROVE  LedgerInv'
<1> USE DatabaseAssumption DEF LedgerInv, MigrationsTypeOK
<1> DEFINE v == version[p]
<1>0. ProcessInv(p) /\ v # 0 /\ v \in Versions
  BY DEF Commit, Applying, Versions
<1>1. ASSUME NEW q \in Processes, q # p PROVE ProcessInv(q)'
  BY <1>1, OthersKeep DEF Commit
<1>2. Adds(v) \subseteq schema \cup pending[p]
  <2>1. Len(Files[v]) \in Nat /\ statement[p] \in Nat \ {0}
    BY <1>0 DEF MigrationsAssumption
  <2>2. statement[p] > Len(Files[v])
    BY <1>0, <2>1 DEF Commit, HasNext
  <2>3. 1..Len(Files[v]) \subseteq 1..(statement[p] - 1)
    BY <2>1, <2>2
  <2>4. Adds(v) \subseteq Ran(p)
    BY <2>3 DEF Adds, Ran
  <2> QED
    BY <1>0, <2>4 DEF ProcessInv
<1>3. /\ recorded' = recorded \cup {v} /\ schema' = schema \cup pending[p]
      /\ pending[p] \subseteq Adds(v)
  BY <1>0 DEF Commit, ProcessInv
<1>4. \A w \in recorded' : Adds(w) \subseteq schema'
  BY <1>2, <1>3
<1>5. RecordedIsApplied'
  <2> SUFFICES ASSUME ~ImplicitCommit
               PROVE  schema' = UNION {Adds(w) : w \in recorded'}
    BY DEF RecordedIsApplied
  <2>1. schema = UNION {Adds(w) : w \in recorded}
    BY DEF RecordedIsApplied
  <2>2. schema' = schema \cup Adds(v)
    BY <1>2, <1>3
  <2>3. UNION {Adds(w) : w \in recorded \cup {v}} = (UNION {Adds(w) : w \in recorded}) \cup Adds(v)
    OBVIOUS
  <2> QED
    BY <1>3, <2>1, <2>2, <2>3
<1>6. InOrder'
  <2>1. 1..(v - 1) \subseteq recorded
    BY <1>0 DEF ProcessInv
  <2>2. 1..v \subseteq recorded \cup {v}
    BY <1>0, <2>1 DEF Versions, MigrationsAssumption
  <2> QED
    BY <1>3, <2>2 DEF InOrder
<1>7. ProcessInv(p)'
  <2>1. version'[p] = 0 /\ pending'[p] = {} /\ pc'[p] = "apply"
        /\ applied'[p] = applied[p] \cup {v}
    BY DEF Commit, Applying
  <2>2. applied'[p] \subseteq recorded'
    BY <1>0, <1>3, <2>1 DEF ProcessInv
  <2> QED
    BY <2>1, <2>2 DEF ProcessInv
<1> QED
  BY <1>1, <1>4, <1>5, <1>6, <1>7

LEMMA OtherStepsKeep ==
    ASSUME LedgerInv, NEW p \in Processes, MigrationsTypeOK',
           Start(p) \/ AppliedVersions(p) \/ Migrated(p)
    PROVE  LedgerInv'
<1> USE DatabaseAssumption DEF LedgerInv, MigrationsTypeOK
<1>1. UNCHANGED <<schema, recorded, version, pending, statement>>
  BY DEF Start, AppliedVersions, Migrated
<1>2. ASSUME NEW q \in Processes, q # p PROVE ProcessInv(q)'
  BY <1>1, <1>2, OthersKeep DEF Start, AppliedVersions, Migrated
<1>3. version[p] = 0
  BY DEF Start, AppliedVersions, Migrated, ProcessInv
<1>4. ProcessInv(p)'
  <2>1. CASE Start(p)
    BY <1>1, <1>3, <2>1 DEF Start, ProcessInv
  <2>2. CASE AppliedVersions(p)
    BY <1>1, <1>3, <2>2 DEF AppliedVersions, ProcessInv
  <2>3. CASE Migrated(p)
    <3>1. 1..Embeds[p] \subseteq applied[p]
      BY <2>3 DEF Migrated, Unapplied
    <3> QED
      BY <1>1, <1>3, <2>3, <3>1 DEF Migrated, ProcessInv
  <2> QED
    BY <2>1, <2>2, <2>3
<1>5. RecordedIsApplied' /\ InOrder' /\ \A v \in recorded' : Adds(v) \subseteq schema'
  BY <1>1 DEF RecordedIsApplied, InOrder
<1> QED
  BY <1>2, <1>4, <1>5

LEMMA LedgerStep == LedgerInv /\ [Next]_vars => LedgerInv'
<1> SUFFICES ASSUME LedgerInv, [Next]_vars PROVE LedgerInv'
  OBVIOUS
<1>0. MigrationsTypeOK'
  BY TypeStep DEF LedgerInv
<1>1. ASSUME NEW p \in Processes, Migrate(p) PROVE LedgerInv'
  BY <1>0, <1>1, BeginKeeps, ExecuteKeeps, CommitKeeps, OtherStepsKeep, GoneKeeps
  DEF Migrate, Refuse
<1>2. ASSUME NEW p \in Processes, Crash(p) PROVE LedgerInv'
  BY <1>0, <1>2, GoneKeeps DEF Crash
<1>3. CASE SaveSnapshot \/ UNCHANGED vars
  <2>1. UNCHANGED migrating
    BY <1>3 DEF SaveSnapshot, vars
  <2>2. \A p \in Processes : ProcessInv(p)'
    BY <2>1 DEF LedgerInv, ProcessInv, Ran, migrating
  <2> QED
    BY <1>0, <2>1, <2>2 DEF LedgerInv, RecordedIsApplied, InOrder, migrating
<1> QED
  BY <1>1, <1>2, <1>3 DEF Next

THEOREM LedgerSound == Spec => []LedgerInv
BY LedgerInit, LedgerStep, PTL DEF Spec

-----------------------------------------------------------------------------
(* Where schema changes are transactional, a start that fails or is killed   *)
(* leaves exactly what schema_migrations says.                              *)
THEOREM LedgerDescribesSchema == Spec => []RecordedIsApplied
<1>1. LedgerInv => RecordedIsApplied
  BY DEF LedgerInv
<1> QED
  BY <1>1, LedgerSound, PTL

(* Builds that know different files never record one before its elders, with *)
(* or without transactional schema changes.                                 *)
THEOREM MigrationsInOrder == Spec => []InOrder
<1>1. LedgerInv => InOrder
  BY DEF LedgerInv
<1> QED
  BY <1>1, LedgerSound, PTL

(* A serving process never lacks a column, whoever else migrates or fails.   *)
THEOREM SchemaReady == Spec => []ReadyHasSchema
<1>1. LedgerInv => ReadyHasSchema
  BY DEF LedgerInv, ProcessInv, ReadyHasSchema
<1> QED
  BY <1>1, LedgerSound, PTL

-----------------------------------------------------------------------------
(* The transaction *)

(* The transaction begins with the tables as they are and is written service *)
(* by service.  A recursive function is one only if some function satisfies  *)
(* its equation, so one is built for every prefix.                          *)
LEMMA TransactionSteps ==
    ASSUME NEW snapshot, Len(snapshot) \in Nat, NEW n
    PROVE  LET t == Transaction(snapshot, n)
           IN  /\ t[0] = Tables
               /\ \A k \in 1 .. Len(snapshot) : t[k] = SaveReport(t[k - 1], snapshot[k], n)
<1> DEFINE top == Len(snapshot)
           Rest(t, k) == IF k = 0 THEN Tables ELSE SaveReport(t[k - 1], snapshot[k], n)
           Reached == {m \in 0 .. top : \E t : t = [k \in 0 .. m |-> Rest(t, k)]}
<1>1. 0 \in Reached
  <2> DEFINE u == [k \in 0 .. 0 |-> Tables]
  <2>1. u = [k \in 0 .. 0 |-> Rest(u, k)]
    OBVIOUS
  <2> HIDE DEF u, Rest
  <2> QED BY <2>1
<1>2. ASSUME NEW m \in 0 .. (top - 1), m \in Reached PROVE m + 1 \in Reached
  <2>1. PICK t : t = [k \in 0 .. m |-> Rest(t, k)]
    BY <1>2
  <2> DEFINE u == [k \in 0 .. (m + 1) |-> IF k = m + 1 THEN SaveReport(t[m], snapshot[m + 1], n) ELSE t[k]]
  <2> HIDE DEF Rest
  <2>2. ASSUME NEW k \in 0 .. (m + 1) PROVE u[k] = Rest(u, k)
    <3>1. CASE k = m + 1
      BY <3>1 DEF Rest
    <3>2. CASE k \in 0 .. m
      <4>1. u[k] = t[k] /\ (k # 0 => u[k - 1] = t[k - 1])
        BY <3>2
      <4>2. t[k] = Rest(t, k)
        BY <2>1, <3>2
      <4> QED BY <4>1, <4>2 DEF Rest
    <3> QED BY <3>1, <3>2
  <2>3. u = [k \in 0 .. (m + 1) |-> Rest(u, k)]
    BY <2>2
  <2> HIDE DEF u
  <2> QED BY <2>3
<1>3. top \in Reached
  <2> HIDE DEF Reached, top
  <2>1. top \in Nat
    BY DEF top
  <2>2. \A k \in 0 .. top : k \in Reached
    BY <1>1, <1>2, <2>1, UpTo
  <2> QED BY <2>1, <2>2
<1>4. Transaction(snapshot, n) = [k \in 0 .. top |-> Rest(Transaction(snapshot, n), k)]
  BY <1>3 DEF Transaction
<1> QED BY <1>4

-----------------------------------------------------------------------------
(* What a transaction holds *)

Table == [seqs : [Services -> Nat], incidents : [Services -> Seq(IncidentIds)],
          events : [IncidentIds -> SUBSET Nat], errors : [Services -> Buckets \cup {NoBuckets}],
          ok : BOOLEAN]

(* The places taken are 1, 2, ..., one service each. *)
Placed(t) ==
    /\ \A s, u \in Services : t.seqs[s] = t.seqs[u] /\ t.seqs[s] # 0 => s = u
    /\ \A s \in Services : \A m \in 1 .. t.seqs[s] : \E u \in Services : t.seqs[u] = m
    /\ \A s \in Services : \E u \in Services : \A w \in Services : t.seqs[w] <= t.seqs[u]

(* The rows are those of what was last said of each service, unless that     *)
(* was nothing; events are of one of the first top reports.                 *)
Holds(t, last, top) ==
    /\ \A s \in Services : last[s].errors # NoBuckets => t.errors[s] = last[s].errors
    /\ \A s \in Services : last[s].incidents # <<>> =>
          t.incidents[s] = last[s].incidents /\ \A i \in Owned(t, s) : t.events[i] = {last[s].save}
    /\ \A s, u \in Services : \A i \in Owned(t, s) \cap Owned(t, u) : s = u
    /\ \A s \in Services : \A i \in Owned(t, s) : \E m \in 1 .. top : t.events[i] = {m}
    /\ \A i \in IncidentIds : (\A s \in Services : i \notin Owned(t, s)) => t.events[i] = {}

(* The services that have a row are those that were ever reported. *)
Known(t, last) == \A s \in Services : last[s].save # 0 <=> t.seqs[s] # 0

(* Services keep their places, and new ones come after them. *)
Follows(t, u) ==
    \A s \in Services : t.seqs[s] # 0 =>
       /\ u.seqs[s] = t.seqs[s]
       /\ \A w \in Services : t.seqs[w] = 0 /\ u.seqs[w] # 0 => t.seqs[s] < u.seqs[w]

(* The next place is after every place taken, and follows on the last. *)
LEMMA Maximum ==
    ASSUME NEW t \in Table, Placed(t), NEW s \in Services
    PROVE  /\ NextSeq(t) \in Nat /\ NextSeq(t) # 0
           /\ \A u \in Services : t.seqs[u] < NextSeq(t)
           /\ \A m \in 1 .. (NextSeq(t) - 1) : \E u \in Services : t.seqs[u] = m
<1>1. PICK u \in Services : \A w \in Services : t.seqs[w] <= t.seqs[u]
  BY DEF Placed
<1>2. DOMAIN t.seqs = Services /\ \A w \in Services : t.seqs[w] \in Nat
  BY DEF Table
<1>3. \A w \in Services : t.seqs[w] \in Range(t.seqs)
  BY <1>2 DEF Range
<1>4. t.seqs[u] \in Range(t.seqs) /\ \A m \in Range(t.seqs) : m <= t.seqs[u] /\ m \in Nat
  BY <1>1, <1>2 DEF Range
<1>5. (CHOOSE n \in Range(t.seqs) : \A m \in Range(t.seqs) : m <= n) = t.seqs[u]
  BY <1>4
<1>6. NextSeq(t) = 1 + t.seqs[u]
  BY <1>5 DEF NextSeq
<1> QED BY <1>1, <1>2, <1>6 DEF Placed

(* A known service keeps its place; an unknown one is put after all others. *)
LEMMA SaveServiceKeeps ==
    ASSUME NEW t \in Table, Placed(t), NEW r \in Report
    PROVE  LET u == SaveService(t, r)
           IN  /\ u \in Table /\ Placed(u) /\ Follows(t, u) /\ u = [t EXCEPT !.seqs = u.seqs]
               /\ u.seqs[r.service] # 0
               /\ \A s \in Services \ {r.service} : u.seqs[s] = t.seqs[s]
<1> DEFINE u == SaveService(t, r)
<1>1. r.service \in Services
  BY DEF Report
<1>2. CASE t.seqs[r.service] # 0
  BY <1>2 DEF SaveService, Table, Follows
<1>3. CASE t.seqs[r.service] = 0
  <2>1. /\ NextSeq(t) \in Nat /\ NextSeq(t) # 0
        /\ \A w \in Services : t.seqs[w] < NextSeq(t)
        /\ \A m \in 1 .. (NextSeq(t) - 1) : \E w \in Services : t.seqs[w] = m
    BY <1>1, Maximum
  <2>2. /\ u = [t EXCEPT !.seqs = [t.seqs EXCEPT ![r.service] = NextSeq(t)]]
        /\ u.seqs = [t.seqs EXCEPT ![r.service] = NextSeq(t)]
    BY <1>3 DEF SaveService, Table
  <2>3. u \in Table /\ u = [t EXCEPT !.seqs = u.seqs]
    <3>1. u = [t EXCEPT !.seqs = u.seqs]
      BY <2>2, Zenon
    <3>2. u.seqs \in [Services -> Nat]
      BY <1>1, <2>1, <2>2 DEF Table
    <3> HIDE DEF u
    <3> QED BY <3>1, <3>2 DEF Table
  <2>4. u.seqs[r.service] = NextSeq(t) /\ \A w \in Services \ {r.service} : u.seqs[w] = t.seqs[w]
    BY <1>1, <2>2 DEF Table
  <2>5. \A w \in Services : t.seqs[w] \in Nat
    BY DEF Table
  <2> HIDE DEF u
  <2>6. \A s, w \in Services : u.seqs[s] = u.seqs[w] /\ u.seqs[s] # 0 => s = w
    BY <2>1, <2>4, <2>5 DEF Placed
  <2>7. \A s \in Services : \A m \in 1 .. u.seqs[s] : \E w \in Services : u.seqs[w] = m
    <3> SUFFICES ASSUME NEW s \in Services, NEW m \in 1 .. u.seqs[s]
                 PROVE  \E w \in Services : u.seqs[w] = m
      OBVIOUS
    <3>1. CASE m = NextSeq(t)
      BY <1>1, <2>4, <3>1
    <3>2. CASE m # NextSeq(t)
      <4>1. m \in 1 .. (NextSeq(t) - 1)
        BY <2>1, <2>4, <2>5, <3>2
      <4>2. PICK w \in Services : t.seqs[w] = m
        BY <2>1, <4>1
      <4> QED BY <1>3, <2>4, <4>1, <4>2
    <3> QED BY <3>1, <3>2
  <2>8. \A w \in Services : u.seqs[w] <= u.seqs[r.service]
    BY <2>1, <2>4, <2>5
  <2>9. Follows(t, u)
    BY <1>3, <2>1, <2>4, <2>5 DEF Follows
  <2> QED BY <1>1, <2>1, <2>3, <2>4, <2>6, <2>7, <2>8, <2>9 DEF Placed, u
<1> QED BY <1>2, <1>3

(* The rows of a reported list replace those of the service, unless an id    *)
(* belongs to another one: then the transaction is no longer ok.            *)
LEMMA SaveIncidentsKeeps ==
    ASSUME NEW t \in Table, NEW n \in Nat \ {0}, NEW last, t.ok => Holds(t, last, n), NEW r \in Report,
           NEW next, next[r.service].incidents = r.incidents, next[r.service].save = n,
           next[r.service].errors = last[r.service].errors,
           \A s \in Services \ {r.service} : next[s] = last[s]
    PROVE  LET u == SaveIncidents(t, r, n)
           IN  /\ u \in Table /\ u.seqs = t.seqs
               /\ u.ok => t.ok /\ Holds(u, next, n)
<1> DEFINE u == SaveIncidents(t, r, n)
           who == r.service
           kept == [i \in IncidentIds |-> IF i \in Owned(t, who) THEN {} ELSE t.events[i]]
<1>1. who \in Services /\ r.incidents \in Seq(IncidentIds)
  BY DEF Report, SeqOf
<1>2. CASE r.incidents = <<>>
  BY <1>1, <1>2 DEF SaveIncidents, Holds, Owned
<1>3. CASE r.incidents # <<>>
  <2> DEFINE timed == [i \in IncidentIds |->
                          IF i \in Range(r.incidents) THEN kept[i] \cup {n} ELSE kept[i]]
             ok == t.ok /\ \A i \in Range(r.incidents) :
                     /\ kept[i] = {}
                     /\ \A s \in Services \ {who} : i \notin Owned(t, s)
  <2>1. u = [t EXCEPT !.incidents[who] = r.incidents, !.events = timed, !.ok = ok]
    BY <1>3 DEF SaveIncidents, Table
  <2>2. /\ u.incidents = [t.incidents EXCEPT ![who] = r.incidents]
        /\ u.events = timed /\ u.ok = ok /\ u.seqs = t.seqs /\ u.errors = t.errors
    BY <2>1 DEF Table
  <2>3. u \in Table
    <3>1. u.incidents \in [Services -> Seq(IncidentIds)]
      BY <1>1, <2>2 DEF Table
    <3>2. u.events \in [IncidentIds -> SUBSET Nat]
      BY <2>2 DEF Table
    <3>3. u.ok \in BOOLEAN
      BY <2>2
    <3>4. DOMAIN u = DOMAIN t
      BY <2>1
    <3> QED BY <2>1, <2>2, <3>1, <3>2, <3>3 DEF Table
  <2>4. ASSUME u.ok PROVE Holds(u, next, n)
    <3>0. Holds(t, last, n)
      BY <2>2, <2>4
    <3>1. /\ \A i \in Range(r.incidents) : kept[i] = {}
          /\ \A i \in Range(r.incidents) : \A s \in Services \ {who} : i \notin Owned(t, s)
      BY <2>2, <2>4
    <3>2. Owned(u, who) = Range(r.incidents) /\ \A s \in Services \ {who} : Owned(u, s) = Owned(t, s)
      BY <1>1, <2>2 DEF Owned, Table
    <3>3. Range(r.incidents) \subseteq IncidentIds /\ \A s \in Services : Owned(t, s) \subseteq IncidentIds
      BY <1>1 DEF Range, Owned, Table
    <3>4. \A i \in Range(r.incidents) : u.events[i] = {n}
      BY <2>2, <3>1, <3>3
    <3>5. \A i \in IncidentIds \ Range(r.incidents) :
             u.events[i] = IF i \in Owned(t, who) THEN {} ELSE t.events[i]
      BY <2>2
    <3>6. \A s \in Services : /\ next[s].errors # NoBuckets => u.errors[s] = next[s].errors
                              /\ next[s].incidents # <<>> => u.incidents[s] = next[s].incidents
      BY <3>0, <1>1, <1>3, <2>2 DEF Holds, Table
    <3> HIDE DEF u
    <3>7. \A s, w \in Services : \A i \in Owned(u, s) \cap Owned(u, w) : s = w
      BY <3>0, <3>1, <3>2 DEF Holds
    <3>8. ASSUME NEW s \in Services, NEW i \in Owned(u, s)
          PROVE  /\ \E m \in 1 .. n : u.events[i] = {m}
                 /\ next[s].incidents # <<>> => u.events[i] = {next[s].save}
      <4>1. CASE s = who
        BY <3>2, <3>4, <3>8, <4>1
      <4>2. CASE s # who
        <5>1. i \in Owned(t, s) /\ i \notin Range(r.incidents) /\ i \in IncidentIds
          BY <3>1, <3>2, <3>3, <3>8, <4>2
        <5>2. i \notin Owned(t, who)
          BY <3>0, <1>1, <4>2, <5>1 DEF Holds
        <5> QED BY <3>0, <3>5, <4>2, <5>1, <5>2 DEF Holds
      <4> QED BY <4>1, <4>2
    <3>9. ASSUME NEW i \in IncidentIds, \A s \in Services : i \notin Owned(u, s) PROVE u.events[i] = {}
      BY <3>0, <1>1, <3>2, <3>5, <3>9 DEF Holds
    <3> QED BY <3>6, <3>7, <3>8, <3>9 DEF Holds
  <2> QED BY <2>2, <2>3, <2>4
<1> QED BY <1>2, <1>3

(* A breakdown that is reported replaces the stored one, an empty one none. *)
LEMMA SaveErrorsKeeps ==
    ASSUME NEW t \in Table, NEW n, NEW last, NEW r \in Report,
           NEW next, next[r.service].incidents = last[r.service].incidents,
           next[r.service].save = last[r.service].save,
           next[r.service].errors = r.errors,
           \A s \in Services \ {r.service} : next[s] = last[s]
    PROVE  LET u == SaveErrors(t, r)
           IN  u \in Table /\ u.seqs = t.seqs /\ u.ok = t.ok /\ (Holds(t, last, n) => Holds(u, next, n))
<1> DEFINE u == SaveErrors(t, r)
<1>1. r.service \in Services /\ r.errors \in Buckets \cup {NoBuckets}
  BY DEF Report
<1>2. CASE r.errors = NoBuckets
  <2>1. u = t
    BY <1>2 DEF SaveErrors
  <2>2. \A s \in Services : /\ next[s].incidents = last[s].incidents /\ next[s].save = last[s].save
                            /\ next[s].errors # NoBuckets => next[s].errors = last[s].errors
    BY <1>1, <1>2
  <2> HIDE DEF u
  <2>3. Holds(t, last, n) => Holds(t, next, n)
    BY <2>2 DEF Holds
  <2> QED BY <2>1, <2>3 DEF u
<1>3. CASE r.errors # NoBuckets
  <2>1. /\ u = [t EXCEPT !.errors = [t.errors EXCEPT ![r.service] = r.errors]]
        /\ u.errors = [t.errors EXCEPT ![r.service] = r.errors]
        /\ u.incidents = t.incidents /\ u.events = t.events /\ u.seqs = t.seqs /\ u.ok = t.ok
    BY <1>3 DEF SaveErrors, Table
  <2>2. u.errors \in [Services -> Buckets \cup {NoBuckets}]
    BY <1>1, <2>1 DEF Table
  <2>3. u \in Table
    BY <2>1, <2>2 DEF Table
  <2>4. /\ u.errors[r.service] = r.errors
        /\ \A s \in Services \ {r.service} : u.errors[s] = t.errors[s]
        /\ \A s \in Services : Owned(u, s) = Owned(t, s)
    BY <1>1, <2>1 DEF Table, Owned
  <2>5. \A s \in Services : next[s].incidents = last[s].incidents /\ next[s].save = last[s].save
    OBVIOUS
  <2> HIDE DEF u
  <2>6. Holds(t, last, n) => Holds(u, next, n)
    BY <1>3, <2>1, <2>4, <2>5 DEF Holds
  <2> QED BY <2>1, <2>3, <2>6 DEF u
<1> QED BY <1>2, <1>3

(* One service of a snapshot, all its rows. *)
LEMMA SaveReportKeeps ==
    ASSUME NEW t \in Table, Placed(t), saves \in Nat, NEW r \in Report,
           NEW last, t.ok => Holds(t, last, saves + 1),
           NEW next, next[r.service] = Recall(r),
           \A s \in Services \ {r.service} : next[s] = last[s]
    PROVE  LET u == SaveReport(t, r, saves + 1)
           IN  /\ u \in Table /\ Placed(u) /\ Follows(t, u)
               /\ Known(t, last) => Known(u, next)
               /\ u.ok => t.ok /\ Holds(u, next, saves + 1)
<1> DEFINE t1 == SaveService(t, r)
           t2 == SaveIncidents(t1, r, saves + 1)
           t3 == SaveErrors(t2, r)
           said == [Recall(r) EXCEPT !.errors = last[r.service].errors]
           mid  == [s \in Services |-> IF s = r.service THEN said ELSE last[s]]
<1>0. r.service \in Services
  BY DEF Report
<1>1. /\ t1 \in Table /\ Placed(t1) /\ Follows(t, t1) /\ t1 = [t EXCEPT !.seqs = t1.seqs]
      /\ t1.seqs[r.service] # 0
      /\ \A s \in Services \ {r.service} : t1.seqs[s] = t.seqs[s]
  BY SaveServiceKeeps
<1>2. t1.ok = t.ok /\ t1.incidents = t.incidents /\ t1.events = t.events /\ t1.errors = t.errors
  <2> HIDE DEF t1
  <2> QED BY <1>1 DEF Table
<1>3. t1.ok => Holds(t1, last, saves + 1)
  <2> HIDE DEF t1
  <2> QED BY <1>2 DEF Holds, Owned
<1>4. /\ said.incidents = r.incidents /\ said.save = saves + 1
      /\ said.errors = last[r.service].errors
  BY DEF Recall
<1>5. mid[r.service] = said /\ \A s \in Services \ {r.service} : mid[s] = last[s]
  BY <1>0
<1> HIDE DEF said, mid, t1
<1>6. t2 \in Table /\ t2.seqs = t1.seqs /\ (t2.ok => t1.ok /\ Holds(t2, mid, saves + 1))
  BY <1>1, <1>3, <1>4, <1>5, SaveIncidentsKeeps
<1>7. /\ next[r.service].incidents = mid[r.service].incidents
      /\ next[r.service].save = mid[r.service].save
      /\ next[r.service].errors = r.errors
      /\ \A s \in Services \ {r.service} : next[s] = mid[s]
  BY <1>4, <1>5 DEF Recall
<1> HIDE DEF t2
<1>8. t3 \in Table /\ t3.seqs = t2.seqs /\ t3.ok = t2.ok /\ (Holds(t2, mid, saves + 1) => Holds(t3, next, saves + 1))
  BY <1>6, <1>7, SaveErrorsKeeps
<1>9. SaveReport(t, r, saves + 1) = t3
  BY DEF SaveReport, t1, t2
<1> HIDE DEF t3
<1>10. Placed(t3) /\ Follows(t, t3)
  BY <1>1, <1>6, <1>8 DEF Placed, Follows
<1>11. Known(t, last) => Known(t3, next)
  <2>1. next[r.service].save # 0
    BY DEF Recall
  <2> QED BY <1>1, <1>6, <1>8, <2>1 DEF Known
<1> QED BY <1>2, <1>6, <1>8, <1>9, <1>10, <1>11

-----------------------------------------------------------------------------
(* A whole snapshot *)

(* What is remembered once the first k services are written. *)
After(snapshot, k) ==
    [s \in Services |-> IF \E j \in 1 .. k : snapshot[j].service = s THEN Remember(snapshot)[s]
                        ELSE reported[s]]

(* A snapshot is a list of reports about different services. *)
LEMMA SnapshotIsList ==
    ASSUME NEW snapshot \in Snapshots
    PROVE  /\ Len(snapshot) \in Nat /\ DOMAIN snapshot = 1 .. Len(snapshot)
           /\ \A k \in 1 .. Len(snapshot) : snapshot[k] \in Report
           /\ \A j, k \in 1 .. Len(snapshot) : snapshot[j].service = snapshot[k].service => j = k
<1>1. PICK m \in 0 .. Cardinality(Services) : snapshot \in [1 .. m -> Report]
  BY DEF Snapshots, SeqOf
<1>2. m \in Nat
  OBVIOUS
<1>3. snapshot \in Seq(Report) /\ Len(snapshot) = m
  BY <1>1, <1>2
<1>4. \A j, k \in 1 .. m : snapshot[j].service = snapshot[k].service => j = k
  BY <1>1 DEF Snapshots, IsInjective
<1> QED BY <1>1, <1>2, <1>3, <1>4

(* The k-th report changes what is remembered of its own service only. *)
LEMMA AfterSteps ==
    ASSUME NEW snapshot \in Snapshots, NEW k \in 1 .. Len(snapshot)
    PROVE  LET who == snapshot[k].service IN
           /\ who \in Services
           /\ After(snapshot, k)[who] = Recall(snapshot[k])
           /\ \A s \in Services \ {who} : After(snapshot, k)[s] = After(snapshot, k - 1)[s]
<1> DEFINE who == snapshot[k].service
<1>1. who \in Services /\ Len(snapshot) \in Nat /\ DOMAIN snapshot = 1 .. Len(snapshot)
  BY SnapshotIsList DEF Report
<1>2. \A j \in 1 .. Len(snapshot) : snapshot[j].service = who => j = k
  BY SnapshotIsList
<1>3. Mentions(snapshot, who) = {k}
  BY <1>1, <1>2 DEF Mentions
<1>4. Remember(snapshot)[who] = Recall(snapshot[k])
  BY <1>1, <1>3 DEF Remember
<1>6. After(snapshot, k)[who] = Remember(snapshot)[who]
  BY <1>1 DEF After
<1>7. ASSUME NEW s \in Services \ {who} PROVE After(snapshot, k)[s] = After(snapshot, k - 1)[s]
  <2>1. (\E j \in 1 .. k : snapshot[j].service = s) <=> \E j \in 1 .. (k - 1) : snapshot[j].service = s
    BY <1>7
  <2> QED BY <2>1 DEF After
<1> QED BY <1>1, <1>4, <1>6, <1>7

(* After none all is as it was; after all it is what the snapshot leaves. *)
LEMMA AfterAll ==
    ASSUME NEW snapshot \in Snapshots, reported = [s \in Services |-> reported[s]]
    PROVE  After(snapshot, 0) = reported /\ After(snapshot, Len(snapshot)) = Remember(snapshot)
<1>1. DOMAIN snapshot = 1 .. Len(snapshot)
  BY SnapshotIsList
<1>2. \A s \in Services : Mentions(snapshot, s) = {} => Remember(snapshot)[s] = reported[s]
  BY DEF Remember
<1>3. \A s \in Services : Mentions(snapshot, s) # {} <=> \E j \in 1 .. Len(snapshot) : snapshot[j].service = s
  BY <1>1 DEF Mentions
<1>4. Remember(snapshot) = [s \in Services |-> Remember(snapshot)[s]]
  BY DEF Remember
<1> QED BY <1>2, <1>3, <1>4 DEF After

(* The rows, what is remembered of the reports, and that they agree. *)
RowsInv ==
    /\ TypeOK
    /\ reported = [s \in Services |-> reported[s]]
    /\ Known(Tables, reported)
    /\ Placed(Tables)
    /\ Holds(Tables, reported, saves)

LEMMA TablesTyped == RowsTypeOK => Tables \in Table
  BY DEF RowsTypeOK, Tables, Table

(* A whole snapshot, whatever it says and in whatever order. *)
LEMMA SavedKeeps ==
    ASSUME RowsInv, NEW snapshot \in Snapshots
    PROVE  LET t == Saved(snapshot, saves + 1)
           IN  /\ t \in Table /\ Placed(t) /\ Follows(Tables, t)
               /\ Known(t, Remember(snapshot))
               /\ t.ok => Holds(t, Remember(snapshot), saves + 1)
<1> DEFINE t == Transaction(snapshot, saves + 1)
           Good == {k \in 0 .. Len(snapshot) :
                      /\ t[k] \in Table /\ Placed(t[k]) /\ Follows(Tables, t[k])
                      /\ Known(t[k], After(snapshot, k))
                      /\ t[k].ok => Holds(t[k], After(snapshot, k), saves + 1)}
<1>0. /\ Len(snapshot) \in Nat /\ \A k \in 1 .. Len(snapshot) : snapshot[k] \in Report
      /\ saves \in Nat /\ Tables \in Table
      /\ After(snapshot, 0) = reported /\ After(snapshot, Len(snapshot)) = Remember(snapshot)
  <2>1. reported = [s \in Services |-> reported[s]]
    BY DEF RowsInv
  <2> QED BY <2>1, SnapshotIsList, AfterAll, TablesTyped DEF RowsInv, TypeOK, RowsTypeOK
<1>1. t[0] = Tables /\ \A k \in 1 .. Len(snapshot) : t[k] = SaveReport(t[k - 1], snapshot[k], saves + 1)
  BY <1>0, TransactionSteps
<1> HIDE DEF t
<1>2. 0 \in Good
  <2>1. Follows(Tables, Tables)
    BY DEF Follows
  <2>2. Holds(Tables, reported, saves + 1)
    <3>1. \A s \in Services : \A i \in Owned(Tables, s) : \E m \in 1 .. (saves + 1) : Tables.events[i] = {m}
      BY <1>0 DEF RowsInv, Holds
    <3> QED BY <3>1 DEF RowsInv, Holds
  <2> QED BY <1>0, <1>1, <2>1, <2>2 DEF RowsInv
<1>3. ASSUME NEW k \in 0 .. (Len(snapshot) - 1), k \in Good PROVE k + 1 \in Good
  <2> DEFINE r == snapshot[k + 1]
  <2>1. k + 1 \in 1 .. Len(snapshot) /\ (k + 1) - 1 = k
    BY <1>0
  <2>2. /\ r \in Report /\ t[k + 1] = SaveReport(t[k], r, saves + 1)
        /\ After(snapshot, k + 1)[r.service] = Recall(r)
        /\ \A s \in Services \ {r.service} : After(snapshot, k + 1)[s] = After(snapshot, k)[s]
    BY <1>0, <1>1, <2>1, AfterSteps
  <2> HIDE DEF r
  <2>3. /\ t[k + 1] \in Table /\ Placed(t[k + 1]) /\ Follows(t[k], t[k + 1])
        /\ Known(t[k + 1], After(snapshot, k + 1))
        /\ t[k + 1].ok => Holds(t[k + 1], After(snapshot, k + 1), saves + 1)
    BY <1>0, <1>3, <2>2, SaveReportKeeps
  <2>4. Follows(Tables, t[k + 1])
    <3>1. \A s \in Services : Tables.seqs[s] \in Nat /\ t[k].seqs[s] \in Nat /\ t[k + 1].seqs[s] \in Nat
      BY <1>0, <1>3, <2>3 DEF Table
    <3>2. Follows(Tables, t[k])
      BY <1>3
    <3> QED BY <2>3, <3>1, <3>2 DEF Follows
  <2> QED BY <2>1, <2>3, <2>4
<1>4. Len(snapshot) \in Good
  <2> HIDE DEF Good
  <2>1. \A k \in 0 .. Len(snapshot) : k \in Good
    BY <1>0, <1>2, <1>3, UpTo
  <2> QED BY <1>0, <2>1
<1>5. Saved(snapshot, saves + 1) = t[Len(snapshot)]
  BY DEF Saved, t
<1> QED BY <1>0, <1>4, <1>5

LEMMA RowsInitially == Init => RowsInv
<1> SUFFICES ASSUME Init PROVE RowsInv
  OBVIOUS
<1> USE DEF Init, RowsInit
<1>1. MigrationsTypeOK
  BY LedgerInit DEF LedgerInv
<1>2. RowsTypeOK
  BY DEF RowsTypeOK
<1>3. Known(Tables, reported)
  BY DEF Known, Tables
<1>4. Placed(Tables)
  BY DEF Placed, Tables
<1>5. Holds(Tables, reported, saves)
  BY DEF Holds, Tables, Owned, Range
<1> QED BY <1>1, <1>2, <1>3, <1>4, <1>5 DEF RowsInv, TypeOK

LEMMA SaveKeeps ==
    ASSUME RowsInv, SaveSnapshot, MigrationsTypeOK'
    PROVE  RowsInv' /\ Follows(Tables, Tables')
<1>0. PICK snapshot \in Snapshots : Save(snapshot) /\ reported' = Remember(snapshot)
  BY DEF SaveSnapshot
<1> DEFINE t == Saved(snapshot, saves + 1)
<1>1. t \in Table /\ Placed(t) /\ Follows(Tables, t) /\ t.ok
      /\ Known(t, reported') /\ Holds(t, reported', saves + 1)
  BY <1>0, SavedKeeps DEF Save
<1>2. /\ seqs' = t.seqs /\ incidents' = t.incidents /\ events' = t.events /\ errors' = t.errors
      /\ saves' = saves + 1 /\ saves \in Nat
  BY <1>0 DEF Save, RowsInv, TypeOK, RowsTypeOK
<1> HIDE DEF t
<1>3. Tables' = t
  BY <1>1, <1>2 DEF Tables, Table
<1>4. reported' = [s \in Services |-> reported'[s]]
  BY <1>0 DEF Remember
<1>5. RowsTypeOK'
  <2>1. \A i \in IncidentIds : t.events[i] \subseteq 1 .. saves'
    <3> SUFFICES ASSUME NEW i \in IncidentIds PROVE t.events[i] \subseteq 1 .. saves'
      OBVIOUS
    <3>1. CASE \A s \in Services : i \notin Owned(t, s)
      BY <1>1, <3>1 DEF Holds
    <3>2. CASE \E s \in Services : i \in Owned(t, s)
      <4>1. PICK s \in Services : i \in Owned(t, s)
        BY <3>2
      <4> QED BY <1>1, <1>2, <4>1 DEF Holds
    <3> QED BY <3>1, <3>2
  <2> QED BY <1>1, <1>2, <2>1 DEF RowsTypeOK, Table
<1> QED BY <1>1, <1>2, <1>3, <1>4, <1>5 DEF RowsInv, TypeOK, Placed, Known, Holds, Owned

LEMMA RowsStep == RowsInv /\ [Next]_vars => RowsInv' /\ (Follows(Tables, Tables') \/ UNCHANGED rows)
<1> SUFFICES ASSUME RowsInv, [Next]_vars PROVE RowsInv' /\ (Follows(Tables, Tables') \/ UNCHANGED rows)
  OBVIOUS
<1>1. MigrationsTypeOK'
  BY TypeStep DEF RowsInv, TypeOK
<1>2. CASE SaveSnapshot
  BY <1>1, <1>2, SaveKeeps
<1>3. CASE UNCHANGED <<rows, reported>>
  <2>1. Tables' = Tables /\ reported' = reported /\ saves' = saves
    BY <1>3 DEF rows, Tables
  <2>2. RowsTypeOK'
    BY <1>3 DEF rows, RowsInv, TypeOK, RowsTypeOK
  <2>3. Placed(Tables)' /\ Known(Tables, reported)'
    BY <2>1 DEF RowsInv, Placed, Known
  <2>4. Holds(Tables, reported, saves)'
    BY <2>1 DEF RowsInv, Holds, Owned
  <2> QED BY <1>1, <1>3, <2>1, <2>2, <2>3, <2>4 DEF RowsInv, TypeOK
<1> QED BY <1>2, <1>3 DEF Next, vars

(* Whatever processes migrate, crash and save, the rows are those of the     *)
(* reports, and the places taken are 1, 2, ... without a gap (Save).        *)
THEOREM RowsSound == Spec => []RowsInv
<1>1. RowsInv /\ [Next]_vars => RowsInv'
  BY RowsStep
<1> QED BY RowsInitially, <1>1, PTL DEF Spec

-----------------------------------------------------------------------------
(* What the rows promise *)

(* The ledger, the schema and every table keep their types: an event is only *)
(* ever of a Save that was done (migrate.go, Save).                         *)
THEOREM DatabaseTyped == Spec => []TypeOK
<1>1. RowsInv => TypeOK
  BY DEF RowsInv
<1> QED BY <1>1, RowsSound, PTL

(* Whatever is saved and in whatever order, while a service's last report    *)
(* names incidents they are the ones stored, each with the events of that    *)
(* report; an incident is one service's, and no event outlives its incident  *)
(* (saveIncidents).  Nothing is claimed of a list the last report left      *)
(* empty: saveIncidents leaves the one before it in place.                  *)
THEOREM LastListIsStored == Spec => []LastListStored
<1>1. RowsInv => LastListStored
  <2> SUFFICES ASSUME RowsInv PROVE LastListStored
    OBVIOUS
  <2>1. ASSUME NEW s \in Services, reported[s].incidents # <<>>
        PROVE  /\ incidents[s] = reported[s].incidents
               /\ \A i \in Range(incidents[s]) : events[i] = {reported[s].save}
    BY <2>1 DEF RowsInv, Holds, Tables, Owned
  <2>2. ASSUME NEW i \in IncidentIds
        PROVE  LET owners == {s \in Services : i \in Range(incidents[s])} IN
               \/ owners = {} /\ events[i] = {}
               \/ (\E s \in Services : owners = {s}) /\ \E n \in 1 .. saves : events[i] = {n}
    <3>1. CASE \A s \in Services : i \notin Range(incidents[s])
      BY <3>1 DEF RowsInv, Holds, Tables, Owned
    <3>2. CASE \E s \in Services : i \in Range(incidents[s])
      <4>1. PICK s \in Services : i \in Range(incidents[s])
        BY <3>2
      <4>2. \E n \in 1 .. saves : events[i] = {n}
        <5>1. i \in Owned(Tables, s) /\ Tables.events[i] = events[i]
          BY <4>1 DEF Tables, Owned
        <5> QED BY <5>1 DEF RowsInv, Holds
      <4>3. {u \in Services : i \in Range(incidents[u])} = {s}
        BY <4>1 DEF RowsInv, Holds, Tables, Owned
      <4> QED BY <4>2, <4>3
    <3> QED BY <3>1, <3>2
  <2> QED BY <2>1, <2>2 DEF LastListStored
<1> QED BY <1>1, RowsSound, PTL

(* A service keeps the place it was first given, and every service that is   *)
(* new comes after all that were known (nextSeq, saveService).              *)
THEOREM PlacesAreKept == Spec => FirstSeenOrder
<1> DEFINE Ordered == \A s, t \in Services : seqs[s] # 0 =>
                         /\ seqs'[s] = seqs[s]
                         /\ seqs[t] = 0 /\ seqs'[t] # 0 => seqs[s] < seqs'[t]
<1>1. RowsInv /\ [Next]_vars => [Ordered]_vars
  <2> SUFFICES ASSUME RowsInv, [Next]_vars PROVE Ordered
    OBVIOUS
  <2>1. CASE Follows(Tables, Tables')
    BY <2>1 DEF Follows, Tables
  <2>2. CASE UNCHANGED rows
    BY <2>2 DEF rows
  <2> QED BY <2>1, <2>2, RowsStep
<1> HIDE DEF Ordered
<1>2. Spec => [][Ordered]_vars
  BY <1>1, RowsSound, PTL DEF Spec
<1> QED BY <1>2 DEF FirstSeenOrder, Ordered

(* There is a list of the known services by place, and it has all of them.   *)
LEMMA LoadedInOrder ==
    ASSUME RowsInv
    PROVE  LET known == {s \in Services : seqs[s] # 0} IN
           /\ LoadedServices \in Surjection(1 .. Cardinality(known), known)
           /\ \A i, j \in DOMAIN LoadedServices : i < j => seqs[LoadedServices[i]] < seqs[LoadedServices[j]]
<1> DEFINE known == {s \in Services : seqs[s] # 0}
<1>1. /\ \A s, u \in Services : seqs[s] = seqs[u] /\ seqs[s] # 0 => s = u
      /\ \A s \in Services : \A m \in 1 .. seqs[s] : \E u \in Services : seqs[u] = m
      /\ \A s \in Services : \E u \in Services : \A w \in Services : seqs[w] <= seqs[u]
      /\ seqs \in [Services -> Nat]
  BY DEF RowsInv, Placed, Tables, TypeOK, RowsTypeOK
<1>2. PICK top \in Nat : (\A s \in known : seqs[s] \in 1 .. top) /\ \A m \in 1 .. top : \E s \in known : seqs[s] = m
  <2>1. CASE Services = {}
    <3>1. known = {} /\ 1 .. 0 = {}
      BY <2>1
    <3> QED BY <3>1
  <2>2. CASE Services # {}
    <3>1. PICK u \in Services : \A w \in Services : seqs[w] <= seqs[u]
      BY <1>1, <2>2
    <3> QED BY <1>1, <3>1
  <2> QED BY <2>1, <2>2
<1> DEFINE list == [m \in 1 .. top |-> CHOOSE s \in known : seqs[s] = m]
<1>3. \A m \in 1 .. top : list[m] \in known /\ seqs[list[m]] = m
  BY <1>2
<1>4. list \in Bijection(1 .. top, known)
  <2>1. list \in [1 .. top -> known]
    BY <1>3
  <2>2. \A m, k \in 1 .. top : list[m] = list[k] => m = k
    BY <1>3
  <2>3. \A s \in known : seqs[s] \in 1 .. top /\ list[seqs[s]] = s
    BY <1>1, <1>2, <1>3
  <2> HIDE DEF list
  <2> QED BY <2>1, <2>2, <2>3 DEF Bijection, Injection, Surjection, IsInjective
<1>5. Cardinality(known) = top
  <2>1. ExistsBijection(1 .. top, known)
    BY <1>4 DEF ExistsBijection
  <2> HIDE DEF known
  <2> QED BY <2>1, FS_CountingElements
<1>6. /\ list \in Surjection(1 .. Cardinality(known), known)
      /\ \A i, j \in DOMAIN list : i < j => seqs[list[i]] < seqs[list[j]]
  <2>1. DOMAIN list = 1 .. top
    OBVIOUS
  <2> HIDE DEF list, known
  <2> QED BY <1>3, <1>4, <1>5, <2>1 DEF Bijection
<1> HIDE DEF list
<1> QED BY <1>6 DEF LoadedServices

(* A restart loads every service that was ever reported and no other, with   *)
(* the incidents and the errors of its last report where that named any      *)
(* (loadServices, Load).  Where it named none, the ones of an earlier report *)
(* come back, and no claim is made.                                         *)
THEOREM RestartShowsReported == Spec => []LoadedIsReported
<1>1. RowsInv => LoadedIsReported
  <2> SUFFICES ASSUME RowsInv PROVE LoadedIsReported
    OBVIOUS
  <2> DEFINE known == {s \in Services : seqs[s] # 0}
  <2>1. LoadedServices \in [1 .. Cardinality(known) -> known]
        /\ \A s \in known : \E i \in 1 .. Cardinality(known) : LoadedServices[i] = s
    BY LoadedInOrder DEF Surjection
  <2>2. /\ DOMAIN Loaded = 1 .. Cardinality(known)
        /\ \A i \in DOMAIN Loaded : Loaded[i] = [service |-> LoadedServices[i],
               incidents |-> LoadedIncidents(LoadedServices[i]), errors |-> errors[LoadedServices[i]]]
    BY <2>1 DEF Loaded
  <2>3. {Loaded[i].service : i \in DOMAIN Loaded} = {s \in Services : reported[s].save # 0}
    <3>1. known = {s \in Services : reported[s].save # 0}
      BY DEF RowsInv, Known, Tables
    <3> HIDE DEF known
    <3> QED BY <2>1, <2>2, <3>1
  <2>4. ASSUME NEW i \in DOMAIN Loaded
        PROVE  LET last == reported[Loaded[i].service] IN
               /\ last.errors # NoBuckets => Loaded[i].errors = last.errors
               /\ last.incidents # <<>> =>
                     [k \in DOMAIN Loaded[i].incidents |-> Loaded[i].incidents[k].id] = last.incidents
    <3> DEFINE s == LoadedServices[i]
    <3>1. /\ s \in Services
          /\ reported[s].errors # NoBuckets => errors[s] = reported[s].errors
          /\ reported[s].incidents # <<>> => incidents[s] = reported[s].incidents
      BY <2>1, <2>2, <2>4 DEF RowsInv, Holds, Tables
    <3>2. incidents[s] \in Seq(IncidentIds)
      BY <3>1 DEF RowsInv, TypeOK, RowsTypeOK
    <3>3. [k \in DOMAIN LoadedIncidents(s) |-> LoadedIncidents(s)[k].id] = incidents[s]
      <4>1. /\ DOMAIN LoadedIncidents(s) = DOMAIN incidents[s]
            /\ \A k \in DOMAIN incidents[s] : LoadedIncidents(s)[k].id = incidents[s][k]
        BY DEF LoadedIncidents
      <4>2. incidents[s] = [k \in DOMAIN incidents[s] |-> incidents[s][k]]
        BY <3>2
      <4> QED BY <4>1, <4>2
    <3> QED BY <2>2, <3>1, <3>3
  <2> QED BY <2>3, <2>4, Zenon DEF LoadedIsReported
<1> QED BY <1>1, RowsSound, PTL
=============================================================================
