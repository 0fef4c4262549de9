--------------------------- MODULE MCAgentUpdate ---------------------------
(* Instances of AgentUpdate for TLC.                                       *)
EXTENDS AgentUpdate, TLC

\* Builds have no order: sound for the run without liveness properties.
VersionSymmetry == Permutations(Versions)
=============================================================================
