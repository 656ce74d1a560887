---------------------------- MODULE MCAccounts ----------------------------
(* Small instances of Accounts for TLC. *)
EXTENDS Accounts

CONSTANTS a1, a2, p1, p2, e1, e2, w1, w2

MCOwners == Uids

\* A contact, and a user that names itself.
MCRelations == {<<FirstUser, a1>>, <<FirstUser, FirstUser>>}
===========================================================================
