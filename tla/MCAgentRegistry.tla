-------------------------- MODULE MCAgentRegistry --------------------------
(***************************************************************************)
(* Instances of AgentRegistry: a seeded agent and one that is created, two *)
(* configurations, and requests that overlap.                              *)
(***************************************************************************)
EXTENDS AgentRegistry
=============================================================================
