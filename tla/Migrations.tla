----------------------------- MODULE Migrations -----------------------------
(***************************************************************************)
(* How a process brings the database's schema up to date when it starts    *)
(* (sqlstore.Migrate, called by main.openStore): it reads which migration  *)
(* files are recorded, then runs each of the others in a transaction that  *)
(* also records it.  Several processes may start at once, as in a rolling  *)
(* deploy, and some may be of an older build that embeds fewer files.  Any *)
(* of them may fail or be killed at any step; a supervisor starts it again.*)
(***************************************************************************)
EXTENDS Integers, Sequences

CONSTANTS
    Processes,
    Files,      \* the migrations in order: sequences of statements
    Embeds,     \* [Processes -> how many of the files its build knows]
    Nobody,     \* no process
    ImplicitCommit,  \* BOOLEAN: MySQL, where a DDL statement commits
    MaxCrashes  \* bound: how often a process is killed

VARIABLES
    schema,    \* what committed statements have added
    recorded,  \* schema_migrations
    writer,    \* the process whose transaction has changed the schema
    pc,        \* where each process is
    applied,   \* its appliedVersions
    version,   \* the file it is applying, 0 between two files
    statement, \* the next statement of that file
    pending,   \* what its transaction has added
    crashes

Versions == 1..Len(Files)

Things == UNION {{Files[v][i].adds : i \in 1..Len(Files[v])} : v \in Versions}

Statement == [adds : Things, repeatable : BOOLEAN]

(* What a file adds to the schema. *)
Adds(v) == {Files[v][i].adds : i \in 1..Len(Files[v])}

MigrationsAssumption ==
    /\ \A v \in Versions : /\ Len(Files[v]) \in Nat
                           /\ Files[v] \in [1..Len(Files[v]) -> Statement]
    /\ Len(Files) \in Nat
    /\ Embeds \in [Processes -> 0..Len(Files)]
    /\ Nobody \notin Processes
    /\ ImplicitCommit \in BOOLEAN
    /\ MaxCrashes \in Nat

migrating == <<schema, recorded, writer, pc, applied, version, statement, pending, crashes>>

MigrateSteps == {"down", "read", "apply", "ready"}

MigrationsTypeOK ==
    /\ schema \in SUBSET Things
    /\ recorded \in SUBSET Versions
    /\ writer \in Processes \cup {Nobody}
    /\ pc \in [Processes -> MigrateSteps]
    /\ applied \in [Processes -> SUBSET Versions]
    /\ version \in [Processes -> 0..Len(Files)]
    /\ statement \in [Processes -> Nat \ {0}]
    /\ pending \in [Processes -> SUBSET Things]
    /\ crashes \in 0..MaxCrashes

MigrationsInit ==
    /\ schema = {}
    /\ recorded = {}
    /\ writer = Nobody
    /\ pc = [p \in Processes |-> "down"]
    /\ applied = [p \in Processes |-> {}]
    /\ version = [p \in Processes |-> 0]
    /\ statement = [p \in Processes |-> 1]
    /\ pending = [p \in Processes |-> {}]
    /\ crashes = 0

-----------------------------------------------------------------------------
(* The process starts; ensureMigrationsTable may run any number of times. *)
Start(p) ==
    /\ pc[p] = "down"
    /\ pc' = [pc EXCEPT ![p] = "read"]
    /\ UNCHANGED <<schema, recorded, writer, applied, version, statement, pending, crashes>>

(* Mutant: an error while the rows are scanned is dropped. *)
MutantAppliedVersions(p) ==
    /\ pc[p] = "read"
    /\ pc' = [pc EXCEPT ![p] = "apply"]
    /\ applied' = [applied EXCEPT ![p] = {}]
    /\ UNCHANGED <<schema, recorded, writer, version, statement, pending, crashes>>

AppliedVersions(p) ==
    /\ pc[p] = "read"
    /\ pc' = [pc EXCEPT ![p] = "apply"]
    /\ applied' = [applied EXCEPT ![p] = recorded]
    /\ UNCHANGED <<schema, recorded, writer, version, statement, pending, crashes>>

(* The files this process still has to apply, as it believes. *)
Unapplied(p) == 1..Embeds[p] \ applied[p]

(* Mutant: the files in the order of a directory, not of their versions. *)
MutantBegin(p) ==
    /\ pc[p] = "apply"
    /\ version[p] = 0
    /\ \E v \in Unapplied(p) :
          /\ \A u \in Unapplied(p) : u <= v
          /\ version' = [version EXCEPT ![p] = v]
    /\ statement' = [statement EXCEPT ![p] = 1]
    /\ UNCHANGED <<schema, recorded, writer, pc, applied, pending, crashes>>

(* Mutant: a file is recorded before its statements run. *)
MutantBeginRecords(p) ==
    /\ pc[p] = "apply"
    /\ version[p] = 0
    /\ \E v \in Unapplied(p) :
          /\ \A u \in Unapplied(p) : v <= u
          /\ version' = [version EXCEPT ![p] = v]
    /\ recorded' = recorded \cup {version'[p]}
    /\ statement' = [statement EXCEPT ![p] = 1]
    /\ UNCHANGED <<schema, writer, pc, applied, pending, crashes>>

(* The next file's transaction. *)
Begin(p) ==
    /\ pc[p] = "apply"
    /\ version[p] = 0
    /\ \E v \in Unapplied(p) :
          /\ \A u \in Unapplied(p) : v <= u
          /\ version' = [version EXCEPT ![p] = v]
    /\ statement' = [statement EXCEPT ![p] = 1]
    /\ UNCHANGED <<schema, recorded, writer, pc, applied, pending, crashes>>

Applying(p) == pc[p] = "apply" /\ version[p] # 0

Upcoming(p) == Files[version[p]][statement[p]]

HasNext(p) == Applying(p) /\ statement[p] <= Len(Files[version[p]])

(* ALTER TABLE ADD COLUMN fails on a column that is there; CREATE ... IF NOT *)
(* EXISTS does not.                                                         *)
Refused(p) == ~Upcoming(p).repeatable /\ Upcoming(p).adds \in schema \cup pending[p]

(* Mutant: outside a transaction. *)
MutantExecute(p) ==
    /\ HasNext(p)
    /\ writer \in {Nobody, p}
    /\ ~Refused(p)
    /\ schema' = schema \cup {Upcoming(p).adds}
    /\ statement' = [statement EXCEPT ![p] = @ + 1]
    /\ UNCHANGED <<recorded, writer, pc, applied, version, pending, crashes>>

(* A statement waits for a transaction that has changed the schema, and      *)
(* holds off the others until its own ends; under implicit commit it ends it.*)
Execute(p) ==
    /\ HasNext(p)
    /\ writer \in {Nobody, p}
    /\ ~Refused(p)
    /\ IF ImplicitCommit
         THEN /\ schema' = schema \cup {Upcoming(p).adds}
              /\ UNCHANGED <<writer, pending>>
         ELSE /\ pending' = [pending EXCEPT ![p] = @ \cup {Upcoming(p).adds}]
              /\ writer' = p
              /\ UNCHANGED schema
    /\ statement' = [statement EXCEPT ![p] = @ + 1]
    /\ UNCHANGED <<recorded, pc, applied, version, crashes>>

(* Mutant: it goes on to the file after it, recorded or not. *)
MutantCommit(p) ==
    /\ Applying(p)
    /\ ~HasNext(p)
    /\ recorded' = recorded \cup {version[p]}
    /\ schema' = schema \cup pending[p]
    /\ applied' = [applied EXCEPT ![p] = @ \cup {version[p]}]
    /\ version' = [version EXCEPT ![p] = @ + 1]
    /\ statement' = [statement EXCEPT ![p] = 1]
    /\ pending' = [pending EXCEPT ![p] = {}]
    /\ writer' = IF writer = p THEN Nobody ELSE writer
    /\ UNCHANGED <<pc, crashes>>

(* The version is recorded, unless it is already, and all of it committed. *)
Commit(p) ==
    /\ Applying(p)
    /\ ~HasNext(p)
    /\ recorded' = recorded \cup {version[p]}
    /\ schema' = schema \cup pending[p]
    /\ applied' = [applied EXCEPT ![p] = @ \cup {version[p]}]
    /\ version' = [version EXCEPT ![p] = 0]
    /\ pending' = [pending EXCEPT ![p] = {}]
    /\ writer' = IF writer = p THEN Nobody ELSE writer
    /\ UNCHANGED <<pc, statement, crashes>>

Migrated(p) ==
    /\ pc[p] = "apply"
    /\ version[p] = 0
    /\ Unapplied(p) = {}
    /\ pc' = [pc EXCEPT ![p] = "ready"]
    /\ UNCHANGED <<schema, recorded, writer, applied, version, statement, pending, crashes>>

(* The process is gone: its transaction is rolled back. *)
Gone(p) ==
    /\ pc' = [pc EXCEPT ![p] = "down"]
    /\ applied' = [applied EXCEPT ![p] = {}]
    /\ version' = [version EXCEPT ![p] = 0]
    /\ statement' = [statement EXCEPT ![p] = 1]
    /\ pending' = [pending EXCEPT ![p] = {}]
    /\ writer' = IF writer = p THEN Nobody ELSE writer
    /\ UNCHANGED <<schema, recorded>>

(* A statement is refused: Migrate returns the error and main exits. *)
Refuse(p) ==
    /\ HasNext(p)
    /\ writer \in {Nobody, p}
    /\ Refused(p)
    /\ Gone(p)
    /\ UNCHANGED crashes

(* Killed, timed out or refused by the database, at any moment. *)
Crash(p) ==
    /\ pc[p] # "down"
    /\ crashes < MaxCrashes
    /\ crashes' = crashes + 1
    /\ Gone(p)

Migrate(p) ==
    \/ Start(p)
    \/ AppliedVersions(p)
    \/ Begin(p)
    \/ Execute(p)
    \/ Commit(p)
    \/ Migrated(p)
    \/ Refuse(p)
=============================================================================
