---------------------------- MODULE MCAgentRuns ----------------------------
(* Small instances of AgentRuns for TLC. *)
EXTENDS AgentRuns, TLC

CONSTANTS k1, a1, a2, a3, i1, i2, o1, o2

\* a2 is a retry of a1, and a3 reuses its id for another objective.
MCId == k1 :> i1 @@ a1 :> i2 @@ a2 :> i2 @@ a3 :> i2
MCObjective == k1 :> o1 @@ a1 :> o1 @@ a2 :> o1 @@ a3 :> o2

MCCrowds == {{k1}, {k1, a1}, {a1, a2, a3}}
=============================================================================
