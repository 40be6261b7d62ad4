---------------------------- MODULE ChargeRunMC ----------------------------
(***************************************************************************)
(* Small instances of ChargeRun for TLC.                                    *)
(***************************************************************************)
EXTENDS ChargeRun, TLC

CONSTANTS s1, s2, x1, x2, t1, t2, k1, k2, n1, n2, w1, w2

Symmetry ==
    Permutations(Students) \cup Permutations(Places) \cup Permutations(Structures)
        \cup Permutations(Categories) \cup Permutations(RunIds) \cup Permutations(Workers)

=============================================================================
