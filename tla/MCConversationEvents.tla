------------------------ MODULE MCConversationEvents ------------------------
(* Small instances of ConversationEvents for TLC. *)
EXTENDS ConversationEvents, TLC

CONSTANTS p1, p2, i1, i2, u1, u2, w1

Direct1 == [id |-> i1, type |-> "direct", participants |-> <<u1, u2>>]
Direct2 == [id |-> i2, type |-> "direct", participants |-> <<u2, u1>>]
Group1  == [id |-> i1, type |-> "group", participants |-> <<u1>>]
Twice   == [id |-> i2, type |-> "group", participants |-> <<u2, u2>>]
Empty   == [id |-> i1, type |-> "group", participants |-> <<>>]

\* The same direct conversation from either side, two conversations with one id,
\* and commands that are refused.
MCRequests ==
    {[p \in {p1, p2} |-> IF p = p1 THEN r[1] ELSE r[2]] :
        r \in {<<Direct1, Direct2>>, <<Direct1, Group1>>,
               <<Empty, Twice>>}}
=============================================================================
