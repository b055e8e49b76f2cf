-------------------------- MODULE MCPushDashboard --------------------------
(* Small instances of PushDashboard: readings are the request numbers. *)
EXTENDS PushDashboard

MCReadings == 1 .. MaxClock

MCSyncers == Handlers \cup {Runner}

=============================================================================
