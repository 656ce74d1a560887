----------------------------- MODULE Membership -----------------------------
(***************************************************************************)
(* What the conversation service promises of one conversation's rows,      *)
(* without calls, snapshots, locks or a cache: who is a participant is     *)
(* changed in groups only, one user at a time, by somebody who is an admin *)
(* at that very moment, and never so that no admin is left; a receipt      *)
(* moves a participant's mark forward only, and not beyond the numbers     *)
(* given out; and each of these changes comes, in one step, with the event *)
(* that announces it.                                                      *)
(***************************************************************************)
EXTENDS Integers, FiniteSets

CONSTANT Users

VARIABLES type, role, last_read, next_sequence, outbox

vars == <<type, role, last_read, next_sequence, outbox>>

WithRole(r) == {u \in Users : role[u] = r}

Init ==
    /\ role \in [Users -> {"none", "member", "admin"}]
    /\ \/ type = "direct" /\ Cardinality(WithRole("member")) = 2
          /\ WithRole("admin") = {}
       \/ type = "group" /\ Cardinality(WithRole("admin")) = 1
    /\ last_read = [u \in Users |-> 0]
    /\ next_sequence = 0 /\ outbox = {}

\* Event e tells of user u; its id is new.
Announce(e, kind, u) ==
    /\ e.kind = kind /\ e.user = u
    /\ \A f \in outbox : f.id # e.id
    /\ outbox' = outbox \cup {e}

\* User u, in a group, gets the role r and loses its read mark.  The event
\* follows all those of earlier changes.
Change(u, r, e) ==
    /\ type = "group"
    /\ \A f \in outbox : f.kind \in {"ADDED", "REMOVED"} => f.id < e.id
    /\ role' = [role EXCEPT ![u] = r]
    /\ last_read' = [last_read EXCEPT ![u] = 0]
    /\ UNCHANGED <<type, next_sequence>>

Add(actor, u, e) ==
    /\ role[actor] = "admin" /\ role[u] = "none"
    /\ Announce(e, "ADDED", u) /\ Change(u, "member", e)

Remove(actor, u, e) ==
    /\ role[actor] = "admin" /\ role[u] # "none"
    /\ WithRole("admin") \ {u} # {}
    /\ Announce(e, "REMOVED", u) /\ Change(u, "none", e)

\* User u has read up to e.sequence; if u is no participant, only the event
\* says so.
Receipt(u, e) ==
    /\ Announce(e, "READ", u)
    /\ e.sequence <= next_sequence
    /\ last_read' = [last_read EXCEPT ![u] =
          IF role[u] # "none" /\ e.sequence > last_read[u]
          THEN e.sequence ELSE last_read[u]]
    /\ UNCHANGED <<type, role, next_sequence>>

GiveSequence ==
    /\ next_sequence' = next_sequence + 1
    /\ UNCHANGED <<type, role, last_read, outbox>>

Next ==
    \/ \E actor, u \in Users, e \in outbox' : Add(actor, u, e) \/ Remove(actor, u, e)
    \/ \E u \in Users, e \in outbox' : Receipt(u, e)
    \/ GiveSequence

Spec == Init /\ [][Next]_vars
=============================================================================
