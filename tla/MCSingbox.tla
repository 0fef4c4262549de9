----------------------------- MODULE MCSingbox -----------------------------
(* Instances of Singbox for TLC.                                           *)
EXTENDS Singbox, TLC

CONSTANTS v1, v2, c1, c2

\* The newer version refuses the older config.
SomeLoads == {<<v1, c1>>, <<v1, c2>>, <<v2, c2>>} \cap (Versions \X Configs)
=============================================================================
