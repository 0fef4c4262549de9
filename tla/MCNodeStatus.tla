---------------------------- MODULE MCNodeStatus ----------------------------
(* Instances of NodeStatus for TLC.                                        *)
EXTENDS NodeStatus, TLC

Symmetry == Permutations(Readers) \cup Permutations(Slots) \cup Permutations(Channels)
=============================================================================
