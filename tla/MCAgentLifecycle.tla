-------------------------- MODULE MCAgentLifecycle --------------------------
(***************************************************************************)
(* AgentLifecycle with two agents that share one piece of knowledge, which *)
(* has two fragments; one of them has a second piece, which preprocessing  *)
(* leaves empty.  With a third runtime two requests for one agent can      *)
(* overlap.                                                                *)
(***************************************************************************)
EXTENDS AgentLifecycle, TLC

CONSTANTS a, b, shared, own

Knowledge == a :> <<shared>> @@ b :> <<own, shared>>

Chunks == shared :> 2 @@ own :> 0

BothAgents == <<a, b>>
=============================================================================
