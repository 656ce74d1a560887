--------------------------- MODULE MCConversation ---------------------------
(* Small instances of Conversation for TLC. *)
EXTENDS Conversation, TLC

CONSTANTS u1, u2, u3, p1, p2, p3, r1, r2

MCSymmetry == Permutations(Users) \cup Permutations(Calls) \cup Permutations(Readers)
=============================================================================
