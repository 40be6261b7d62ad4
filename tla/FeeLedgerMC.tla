---------------------------- MODULE FeeLedgerMC ----------------------------
(***************************************************************************)
(* Small instances of FeeLedger for TLC.  The .cfg files give the constants *)
(* sets of the model values below, which are interchangeable.               *)
(***************************************************************************)
EXTENDS FeeLedger, TLC

CONSTANTS s1, s2, u1, u2, w1, w2, p1, p2, c1, c2, r1, r2, r3

Symmetry ==
    Permutations(Students) \cup Permutations(Users) \cup Permutations(Workers)
        \cup Permutations(Periods) \cup Permutations(ChargeIds) \cup Permutations(ReliefIds)

=============================================================================
