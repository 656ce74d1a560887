-------------------------- MODULE MCMessageService --------------------------
(* Small instances of MessageService for TLC. *)
EXTENDS MessageService, TLC

CONSTANTS s1, s2, d1, d2, alice, bob, c1

\* One client message id, used by two users of a conversation.
MCCommands == {[key |-> "k1", user |-> alice, conv |-> c1],
               [key |-> "k1", user |-> bob, conv |-> c1]}

MCSymmetry == Permutations(SendCalls) \cup Permutations(DeleteCalls)
=============================================================================
