-------------------------- MODULE MCAgentSessions --------------------------
(***************************************************************************)
(* Instances of AgentSessions for TLC.  Agents are alike.                  *)
(***************************************************************************)
EXTENDS AgentSessions, TLC

Symmetry == Permutations(Agents)
=============================================================================
