----------------------------- MODULE MCAssistant -----------------------------
(* Instances of Assistant for TLC.                                         *)
EXTENDS Assistant, TLC

\* Workers and fingerprints have no order.
Symmetry == Permutations(Workers) \cup Permutations(Args)
=============================================================================
