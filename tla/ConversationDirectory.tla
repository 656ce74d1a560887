----------------------- MODULE ConversationDirectory -----------------------
(***************************************************************************)
(* What CreateConversation promises, without lookups, transactions,        *)
(* retries or a cache: there is one conversation for an id and one for a   *)
(* pair of users; a call finds it or makes it, in one step with the event  *)
(* that announces it, and is answered at most once.                        *)
(***************************************************************************)

CONSTANTS Creates, NoConv, NoKey

VARIABLES asked,          \* the id and the lookup key each call has asked for
          conversations, outbox,
          reply           \* the conversation each call was answered with

vars == <<asked, conversations, outbox, reply>>

Init ==
    /\ conversations = {} /\ outbox = {}
    /\ reply = [p \in Creates |-> NoConv]

\* Row r is the conversation that call p means.
Meant(p, r) == r.id = asked[p].id \/ (r.key # NoKey /\ r.key = asked[p].key)

\* No conversation is meant, and r is made, announced by e.  The caller may not
\* learn of it.
Make(p, r, e) ==
    /\ reply[p] = NoConv
    /\ \A s \in conversations : ~Meant(p, s)
    /\ r.id = asked[p].id /\ r.key = asked[p].key
    /\ \A f \in outbox : f.id # e.id
    /\ e.kind = "CREATED" /\ e.conv = r.id
    /\ conversations' = conversations \cup {r}
    /\ outbox' = outbox \cup {e}
    /\ reply' \in {reply, [reply EXCEPT ![p] = r]}
    /\ UNCHANGED asked

Find(p, r) ==
    /\ reply[p] = NoConv
    /\ Meant(p, r)
    /\ reply' = [reply EXCEPT ![p] = r]
    /\ UNCHANGED <<asked, conversations, outbox>>

Next ==
    \E p \in Creates : \/ \E r \in conversations', e \in outbox' : Make(p, r, e)
                       \/ \E r \in conversations : Find(p, r)

Spec == Init /\ [][Next]_vars
=============================================================================
