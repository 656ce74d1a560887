-------------------------- MODULE MCMessagePipeline --------------------------
(* Small instances of MessagePipeline for TLC. *)
EXTENDS MessagePipeline, TLC

CONSTANTS s1, s2, d1, alice, c1, w1, w2

MCCommands == {[key |-> "k1", user |-> alice, conv |-> c1],
               [key |-> "k2", user |-> alice, conv |-> c1]}

MCSymmetry == Permutations(SendCalls)
=============================================================================
