----------------------------- MODULE MCBuildDist -----------------------------
(***************************************************************************)
(* Instances of BuildDist: two revisions with the same kernel release, and *)
(* one whose FIT is too large.                                             *)
(***************************************************************************)
EXTENDS BuildDist

CONSTANTS r1, r2, big, k49

MCSafe == {r1, r2, big}
MCKrelOf == [r \in Revs |-> k49]
=============================================================================
