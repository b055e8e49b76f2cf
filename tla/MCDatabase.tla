----------------------------- MODULE MCDatabase -----------------------------
EXTENDS Database

CONSTANTS one, other, a, b, x, y, codes

Repeatable(thing) == [adds |-> thing, repeatable |-> TRUE]
Once(thing)       == [adds |-> thing, repeatable |-> FALSE]

(* 0001_initial: tables; 0002_role: columns, then an index. *)
MCFiles == << <<Repeatable("services"), Repeatable("incidents")>>,
              <<Once("role_id"), Once("calls_key"), Repeatable("services_role")>> >>


(* A deploy of two replicas of the newest build. *)
MCEmbeds == [p \in {one, other} |-> 2]
=============================================================================
