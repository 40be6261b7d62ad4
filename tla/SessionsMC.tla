----------------------------- MODULE SessionsMC -----------------------------
(***************************************************************************)
(* Small instances of Sessions for TLC.                                     *)
(***************************************************************************)
EXTENDS Sessions, TLC

CONSTANTS u1, u2, s1, s2, r1, w1, w2

Symmetry ==
    Permutations(SessionIds) \cup Permutations(ResetIds) \cup Permutations(Workers)

=============================================================================
