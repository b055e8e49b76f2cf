-------------------------- MODULE MCPullDashboard --------------------------
(* Each endpoint reports its own part of the estate; ids are numbers. *)
EXTENDS PullDashboard

MCSyncers == {Runner}

MCReadings == (1 .. Last) \X Values

MCClaims == [e \in 1 .. Last |-> {e}]

=============================================================================
