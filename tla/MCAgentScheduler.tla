-------------------------- MODULE MCAgentScheduler --------------------------
(***************************************************************************)
(* AgentScheduler with two metrics, one of which the server's list may     *)
(* leave out or report at another interval.                                *)
(***************************************************************************)
EXTENDS AgentScheduler, TLC

CONSTANTS cpu, disk

MCLists == {cpu :> 1, (cpu :> 2) @@ (disk :> 1)}

MCMaxReadings == (cpu :> 1) @@ (disk :> 2)
=============================================================================
