-------------------------- MODULE MCServerStartup --------------------------
(* Model values for ServerStartup: the first authority is run often.       *)
EXTENDS ServerStartup

CONSTANTS a1, a2

RunsOfFirst(n) == [a \in Authorities |-> IF a = a1 THEN n ELSE 1]
ThreeRuns == RunsOfFirst(3)
OneRun == RunsOfFirst(1)
=============================================================================
