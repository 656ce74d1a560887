------------------------------ MODULE MessageLog ------------------------------
(***************************************************************************)
(* What the message service promises of its database, without calls,       *)
(* transactions, retries or the conversation service: a command is         *)
(* accepted at most once, with a sequence number no message of the         *)
(* conversation has; a message is deleted at most once; and each of these  *)
(* changes comes, in one step, with the event that announces it.           *)
(***************************************************************************)
EXTENDS Naturals

CONSTANTS Commands, NoMessage

VARIABLES messages, deleted_at, idempotency, outbox

vars == <<messages, deleted_at, idempotency, outbox>>

Init ==
    /\ messages = {} /\ deleted_at = {} /\ outbox = {}
    /\ idempotency = [k \in Commands |-> NoMessage]

FreshEvent(e) == \A f \in outbox : f.id # e.id

\* Command k is accepted as message m, announced by event e.
Accept(k, m, e) ==
    /\ idempotency[k] = NoMessage
    /\ m.conv = k.conv /\ m.sender = k.user
    /\ \A n \in messages :
          n.id # m.id /\ (n.conv = m.conv => n.sequence # m.sequence)
    /\ FreshEvent(e) /\ e.type = "MESSAGE_SENT" /\ e.msg = m.id
    /\ messages' = messages \cup {m}
    /\ idempotency' = [idempotency EXCEPT ![k] = m.id]
    /\ outbox' = outbox \cup {e}
    /\ UNCHANGED deleted_at

\* Message m is deleted, announced by an event that follows m's own.
Delete(m, e) ==
    /\ m.id \notin deleted_at
    /\ FreshEvent(e) /\ e.type = "MESSAGE_DELETED" /\ e.msg = m.id
    /\ \E f \in outbox : f.type = "MESSAGE_SENT" /\ f.msg = m.id /\ f.id < e.id
    /\ deleted_at' = deleted_at \cup {m.id}
    /\ outbox' = outbox \cup {e}
    /\ UNCHANGED <<messages, idempotency>>

Next ==
    \/ \E k \in Commands, m \in messages', e \in outbox' : Accept(k, m, e)
    \/ \E m \in messages, e \in outbox' : Delete(m, e)

Spec == Init /\ [][Next]_vars
=============================================================================
