------------------------------ MODULE MCReleases ------------------------------
(***************************************************************************)
(* One node that the panel holds to version 1, and version 2 to be         *)
(* downloaded: by a click, the seed and distribution jobs, at once.        *)
(***************************************************************************)
EXTENDS Releases, TLC

Init == ReleaseInit /\ dir["2"] = "none" /\ \A n \in Targets : box[n].desired = "1" /\ box[n].version \in {"0", "1"}
Spec == Init /\ [][ReleaseNext]_releaseVars /\ ReleaseFairness
=============================================================================
