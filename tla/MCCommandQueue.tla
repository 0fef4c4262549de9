--------------------------- MODULE MCCommandQueue ---------------------------
(* Instances of CommandQueue for TLC.                                      *)
EXTENDS CommandQueue, TLC

\* Ids of commands and of sockets are only compared.
Symmetry == Permutations(Cmds) \cup Permutations(Sockets)
=============================================================================
