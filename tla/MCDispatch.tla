----------------------------- MODULE MCDispatch -----------------------------
(* Small instances of Dispatch for TLC. *)
EXTENDS Dispatch, TLC

CONSTANTS c1, c2, i1, i2, m1

MCSymmetry == Permutations(Instances)
=============================================================================
