---------------------------- MODULE MCPullDriver ----------------------------
(* Two endpoints that may both report every service. *)
EXTENDS PullDriver

MCClaims == [e \in Endpoints |-> Ids]

=============================================================================
