---------------------------- MODULE MCOutboxRelay ----------------------------
(* Small instances of OutboxRelay for TLC. *)
EXTENDS OutboxRelay, TLC

CONSTANTS w1, w2

MCWorkerSymmetry == Permutations(Workers)
=============================================================================
