--------------------------- MODULE AccountsProofs ---------------------------
(***************************************************************************)
(* Proofs about Auth, Profile and Accounts, for any number of calls,       *)
(* users, emails and passwords, and any bound on failures.                 *)
(***************************************************************************)
EXTENDS Accounts, TLAPS

-----------------------------------------------------------------------------
(* Refresh tokens *)

CallSet ==
    [op : {"none", "register", "login", "refresh", "logout"},
     pc : {"idle", "start", "commit", "revoke", "save", "done", "refused", "failed"},
     email : Emails \cup {None}, password : Passwords \cup {None},
     token : Tokens \cup {None}, user : Uids \cup {None}, dead : BOOLEAN,
     ignored : BOOLEAN]

TokenSet == [id : Tokens, user : Uids, revoked : BOOLEAN, expired : BOOLEAN]

\* A refresh or logout that has revoked its token, or ignored that it could not.
Ended(x) == x.op \in {"refresh", "logout"} /\ x.pc = "done"
Past(x)  == Ended(x) \/ (x.op = "refresh" /\ x.pc = "save")

\* A call with the rows T of refresh_tokens.  Every row of a token that a call is
\* past revoking is revoked, and stays so, unless it ignored the error.
CallOK(x, T) ==
    /\ x \in CallSet
    /\ x.op = "register" => x.email \in Emails /\ x.password \in Passwords
    /\ x.pc \in {"revoke", "save"} => x.user \in Uids
    /\ x.op \in {"refresh", "logout"} => \E r \in T : r.id = x.token
    /\ x.op = "logout" => x.pc \notin {"revoke", "save"}
    /\ Past(x) /\ ~x.ignored => \A r \in T : r.id = x.token => r.revoked

\* A call p with the record x whose token was dead when it came: another call has
\* ended with the token, and ignored the error if p got past GetRefresh.
DeadOK(p, x, C) ==
    x.dead => \E q \in AuthCalls \ {p} :
                 /\ C[q].token = x.token /\ Ended(C[q])
                 /\ x.op = "refresh" /\ x.pc \in {"revoke", "save", "done"} => C[q].ignored

\* A call makes its token, if at all, as its last step: no token is made twice.
TokenInv ==
    /\ users \subseteq [id : Uids, email : Emails, hash : Passwords]
    /\ refresh_tokens \subseteq TokenSet
    /\ outbox_events \subseteq Uids
    /\ call \in [AuthCalls -> CallSet]
    /\ \A p \in AuthCalls : CallOK(call[p], refresh_tokens) /\ DeadOK(p, call[p], call)
    /\ \A r \in refresh_tokens : r.id \in AuthCalls => call[r.id].pc = "done"

\* The rows U come of the rows T: each is one of T, with perhaps more revoked or
\* expired, and none is gone.
Later(T, U) ==
    /\ U \subseteq TokenSet
    /\ \A r \in U : \E s \in T : s.id = r.id /\ (s.revoked => r.revoked)
    /\ \A s \in T : \E r \in U : r.id = s.id

LEMMA CallStaysOK ==
    ASSUME NEW x, NEW T, NEW U, CallOK(x, T), T \subseteq TokenSet, U \subseteq TokenSet,
           \A r \in U : \/ \E s \in T : s.id = r.id /\ (s.revoked => r.revoked)
                        \/ \A s \in T : s.id # r.id,
           \A s \in T : \E r \in U : r.id = s.id
    PROVE  CallOK(x, U)
  BY DEF CallOK, Past, Ended

\* A step of one call that is not done: what others know of calls that have ended
\* stays true.
LEMMA OneDead ==
    ASSUME TokenInv, NEW p \in AuthCalls, NEW x \in CallSet, call[p].pc # "done",
           call' = [call EXCEPT ![p] = x], DeadOK(p, x, call)
    PROVE  \A q \in AuthCalls : DeadOK(q, call'[q], call')
  <1>1. call \in [AuthCalls -> CallSet]
    BY DEF TokenInv
  <1>2. call'[p] = x /\ \A q \in AuthCalls \ {p} : call'[q] = call[q]
    BY <1>1
  <1>3. ASSUME NEW q \in AuthCalls, call'[q].dead
        PROVE  \E w \in AuthCalls \ {q} :
                  /\ call'[w].token = call'[q].token /\ Ended(call'[w])
                  /\ call'[q].op = "refresh" /\ call'[q].pc \in {"revoke", "save", "done"}
                        => call'[w].ignored
    <2>1. DeadOK(q, call'[q], call)
      BY <1>2 DEF TokenInv
    <2>2. PICK w \in AuthCalls \ {q} :
             /\ call[w].token = call'[q].token /\ Ended(call[w])
             /\ call'[q].op = "refresh" /\ call'[q].pc \in {"revoke", "save", "done"}
                   => call[w].ignored
      BY <1>3, <2>1 DEF DeadOK
    <2>3. w # p /\ call'[w] = call[w]
      BY <1>2, <2>2 DEF Ended
    <2> QED BY <2>2, <2>3
  <1> QED BY <1>3 DEF DeadOK

\* A step of one call: its own record is in order, and it is not done before.
LEMMA OneCall ==
    ASSUME TokenInv, NEW p \in AuthCalls, NEW x, call[p].pc # "done",
           call' = [call EXCEPT ![p] = x], DeadOK(p, x, call),
           CallOK(x, refresh_tokens'), Later(refresh_tokens, refresh_tokens'),
           UNCHANGED <<users, outbox_events>>
    PROVE  TokenInv'
  <1>1. x \in CallSet /\ call \in [AuthCalls -> CallSet] /\ refresh_tokens' \subseteq TokenSet
    BY DEF CallOK, Later, TokenInv
  <1>2. call' \in [AuthCalls -> CallSet] /\ call'[p] = x
    BY <1>1
  <1>3. \A q \in AuthCalls \ {p} : call'[q] = call[q]
    BY <1>1
  <1>4. ASSUME NEW q \in AuthCalls
        PROVE  CallOK(call'[q], refresh_tokens')
    <2>1. CASE q = p
      BY <1>2, <2>1
    <2>2. CASE q # p
      <3>1. CallOK(call[q], refresh_tokens)
        BY DEF TokenInv
      <3>2. CallOK(call[q], refresh_tokens')
        BY <1>1, <3>1, CallStaysOK DEF TokenInv, Later
      <3> QED BY <1>3, <2>2, <3>2
    <2> QED BY <2>1, <2>2
  <1>5. ASSUME NEW r \in refresh_tokens', r.id \in AuthCalls
        PROVE  call'[r.id].pc = "done"
    <2>1. PICK s \in refresh_tokens : s.id = r.id
      BY <1>5 DEF Later
    <2>2. call[r.id].pc = "done"
      BY <1>5, <2>1 DEF TokenInv
    <2> QED BY <1>3, <1>5, <2>2
  <1>6. \A q \in AuthCalls : DeadOK(q, call'[q], call')
    BY <1>1, OneDead
  <1> QED BY <1>1, <1>2, <1>4, <1>5, <1>6 DEF TokenInv

LEMMA SameTokens == ASSUME NEW T, T \subseteq TokenSet PROVE Later(T, T)
  BY DEF Later

LEMMA RevokedLater ==
    ASSUME TokenInv, NEW t
    PROVE  Later(refresh_tokens, Revoked(t))
  <1>1. refresh_tokens \subseteq TokenSet
    BY DEF TokenInv
  <1>2. \A r \in refresh_tokens :
           /\ [r EXCEPT !.revoked = TRUE] \in TokenSet
           /\ [r EXCEPT !.revoked = TRUE].id = r.id
           /\ [r EXCEPT !.revoked = TRUE].revoked
    BY <1>1 DEF TokenSet
  <1> QED BY <1>1, <1>2 DEF Later, Revoked

\* What a move of a call to another pc does to its record.
LEMMA MovedCall ==
    ASSUME TokenInv, NEW p \in AuthCalls, NEW c, Go(p, c),
           c \in {"commit", "save", "done", "refused", "failed"}
    PROVE  \E x \in CallSet :
              /\ call' = [call EXCEPT ![p] = x]
              /\ x.pc = c /\ x.op = call[p].op /\ x.email = call[p].email
              /\ x.password = call[p].password /\ x.user = call[p].user
              /\ x.token = call[p].token /\ x.dead = call[p].dead
              /\ x.ignored = call[p].ignored
  <1>1. call[p] \in CallSet /\ call \in [AuthCalls -> CallSet]
    BY DEF TokenInv
  <1>2. PICK x : x = [call[p] EXCEPT !.pc = c]
    OBVIOUS
  <1>3. /\ x \in CallSet /\ x.pc = c /\ x.op = call[p].op /\ x.email = call[p].email
        /\ x.password = call[p].password /\ x.user = call[p].user
        /\ x.token = call[p].token /\ x.dead = call[p].dead
        /\ x.ignored = call[p].ignored
    BY <1>1, <1>2 DEF CallSet
  <1>4. call' = [call EXCEPT ![p] = x]
    BY <1>1, <1>2 DEF Go, CallSet
  <1> QED BY <1>3, <1>4

LEMMA MovedDead ==
    ASSUME NEW p \in AuthCalls, NEW x, DeadOK(p, call[p], call), x.op = call[p].op,
           x.token = call[p].token, x.dead = call[p].dead,
           x.op = "refresh" /\ x.pc \in {"revoke", "save", "done"}
              => call[p].pc \in {"revoke", "save"}
    PROVE  DeadOK(p, x, call)
  BY DEF DeadOK

\* Every step of the auth service keeps the calls and the tokens in order.
LEMMA AuthCallStep ==
    ASSUME TokenInv, NEW p \in AuthCalls, AskAuth(p) \/ AuthStep(p) \/ AuthFails(p)
    PROVE  TokenInv'
  <1> USE AuthAssumption
  <1>0. /\ call[p] \in CallSet /\ call \in [AuthCalls -> CallSet]
        /\ CallOK(call[p], refresh_tokens) /\ DeadOK(p, call[p], call)
        /\ Later(refresh_tokens, refresh_tokens)
        /\ refresh_tokens \subseteq TokenSet
        /\ NoCall \in CallSet
    BY SameTokens DEF TokenInv, NoCall, CallSet
  <1>1. ASSUME NEW e \in Emails, NEW w \in Passwords, AskRegister(p, e, w) \/ AskLogin(p, e, w)
        PROVE  TokenInv'
    <2>1. PICK op \in {"register", "login"} :
             /\ call[p].pc = "idle" /\ UNCHANGED <<users, refresh_tokens, outbox_events>>
             /\ call' = [call EXCEPT ![p] = [NoCall EXCEPT !.op = op, !.pc = "start",
                                                           !.email = e, !.password = w]]
      BY <1>1 DEF AskRegister, AskLogin
    <2>2. PICK x : x = [NoCall EXCEPT !.op = op, !.pc = "start",
                                      !.email = e, !.password = w]
      OBVIOUS
    <2>3. /\ x \in CallSet /\ x.op = op /\ x.pc = "start" /\ x.email = e /\ x.password = w
          /\ ~x.dead
      BY <2>2 DEF NoCall, CallSet
    <2>4. CallOK(x, refresh_tokens') /\ DeadOK(p, x, call)
      BY <2>3 DEF CallOK, DeadOK, Past, Ended
    <2> QED BY <1>0, <2>1, <2>2, <2>4, OneCall
  <1>2. ASSUME NEW t \in Tokens, NEW op \in {"refresh", "logout"}, AskWithToken(p, op, t)
        PROVE  TokenInv'
    <2>1. /\ call[p].pc = "idle" /\ UNCHANGED <<users, refresh_tokens, outbox_events>>
          /\ \E r \in refresh_tokens : r.id = t
          /\ call' = [call EXCEPT ![p] = [NoCall EXCEPT !.op = op, !.pc = "start",
                                                        !.token = t, !.dead = Spent(t)]]
      BY <1>2 DEF AskWithToken
    <2>2. PICK x : x = [NoCall EXCEPT !.op = op, !.pc = "start",
                                      !.token = t, !.dead = Spent(t)]
      OBVIOUS
    <2>3. Spent(t) \in BOOLEAN
      BY DEF Spent
    <2>4. /\ x \in CallSet /\ x.op = op /\ x.pc = "start" /\ x.token = t
          /\ x.dead = Spent(t)
      BY <2>2, <2>3 DEF NoCall, CallSet
    <2>5. DeadOK(p, x, call)
      BY <2>1, <2>4 DEF Spent, DeadOK, Ended
    <2>6. CallOK(x, refresh_tokens')
      BY <2>1, <2>4 DEF CallOK, Past, Ended
    <2> QED BY <1>0, <2>1, <2>2, <2>5, <2>6, OneCall
  <1>3. CASE CreateUser(p)
    <2>1. PICK c \in {"refused", "commit"} : Go(p, c)
      BY <1>3 DEF CreateUser
    <2>2. PICK x \in CallSet :
              /\ call' = [call EXCEPT ![p] = x]
              /\ x.pc = c /\ x.op = call[p].op /\ x.email = call[p].email
              /\ x.password = call[p].password /\ x.user = call[p].user
              /\ x.token = call[p].token /\ x.dead = call[p].dead
              /\ x.ignored = call[p].ignored
      BY <2>1, MovedCall
    <2>3. /\ call[p].op = "register" /\ call[p].pc = "start"
          /\ UNCHANGED <<users, refresh_tokens, outbox_events>>
      BY <1>3 DEF CreateUser
    <2>4. CallOK(x, refresh_tokens') /\ DeadOK(p, x, call)
      BY <1>0, <2>2, <2>3, MovedDead DEF CallOK, Past, Ended
    <2> QED BY <1>0, <2>2, <2>3, <2>4, OneCall
  <1>4. CASE CommitRegister(p)
    <2>1. /\ call[p].op = "register" /\ call[p].pc = "commit" /\ UNCHANGED refresh_tokens
          /\ users' = users \cup {[id |-> p, email |-> call[p].email,
                                   hash |-> call[p].password]}
          /\ outbox_events' = outbox_events \cup {p} /\ Go(p, "done")
      BY <1>4 DEF CommitRegister, InsertOutbox
    <2>2. PICK x \in CallSet :
              /\ call' = [call EXCEPT ![p] = x]
              /\ x.pc = "done" /\ x.op = call[p].op /\ x.email = call[p].email
              /\ x.password = call[p].password /\ x.user = call[p].user
              /\ x.token = call[p].token /\ x.dead = call[p].dead
              /\ x.ignored = call[p].ignored
      BY <2>1, MovedCall
    <2>3. CallOK(x, refresh_tokens) /\ DeadOK(p, x, call)
      BY <1>0, <2>1, <2>2, MovedDead DEF CallOK, Past, Ended
    <2>4. /\ users' \subseteq [id : Uids, email : Emails, hash : Passwords]
          /\ outbox_events' \subseteq Uids
      BY <1>0, <2>1 DEF TokenInv, CallOK, Uids
    <2>5. call' \in [AuthCalls -> CallSet] /\ call'[p] = x
          /\ \A q \in AuthCalls \ {p} : call'[q] = call[q]
      BY <1>0, <2>2
    <2>6. \A q \in AuthCalls : CallOK(call'[q], refresh_tokens')
      BY <2>1, <2>3, <2>5 DEF TokenInv
    <2>7. \A r \in refresh_tokens' : r.id \in AuthCalls => call'[r.id].pc = "done"
      BY <2>1, <2>2, <2>5 DEF TokenInv
    <2>8. \A q \in AuthCalls : DeadOK(q, call'[q], call')
      BY <2>1, <2>2, <2>3, OneDead
    <2> QED BY <1>0, <2>1, <2>4, <2>5, <2>6, <2>7, <2>8 DEF TokenInv
  <1>5. CASE CheckPassword(p)
    <2>1. /\ call[p].op = "login" /\ call[p].pc = "start"
          /\ UNCHANGED <<users, refresh_tokens, outbox_events>>
      BY <1>5 DEF CheckPassword
    <2>2. \/ call' = [call EXCEPT ![p].pc = "refused"]
          \/ \E r \in users : call' = [call EXCEPT ![p].pc = "save", ![p].user = r.id]
      <3>1. PICK found : found = {r \in users : r.email = call[p].email
                                                /\ ComparePassword(r, call[p].password)}
        OBVIOUS
      <3>2. call' = IF found = {} THEN [call EXCEPT ![p].pc = "refused"]
                    ELSE [call EXCEPT ![p].pc = "save",
                                      ![p].user = (CHOOSE r \in found : TRUE).id]
        BY <1>5, <3>1 DEF CheckPassword
      <3>3. found # {} => (CHOOSE r \in found : TRUE) \in users
        BY <3>1
      <3> QED BY <3>2, <3>3
    <2>3. CASE call' = [call EXCEPT ![p].pc = "refused"]
      <3>1. Go(p, "refused")
        BY <2>3 DEF Go
      <3>2. PICK x \in CallSet :
              /\ call' = [call EXCEPT ![p] = x]
              /\ x.pc = "refused" /\ x.op = call[p].op /\ x.email = call[p].email
              /\ x.password = call[p].password /\ x.user = call[p].user
              /\ x.token = call[p].token /\ x.dead = call[p].dead
              /\ x.ignored = call[p].ignored
        BY <3>1, MovedCall
      <3>3. CallOK(x, refresh_tokens') /\ DeadOK(p, x, call)
        BY <1>0, <2>1, <3>2, MovedDead DEF CallOK, Past, Ended
      <3> QED BY <1>0, <2>1, <3>2, <3>3, OneCall
    <2>4. ASSUME NEW r \in users, call' = [call EXCEPT ![p].pc = "save", ![p].user = r.id]
          PROVE  TokenInv'
      <3>1. PICK x : x = [call[p] EXCEPT !.pc = "save", !.user = r.id]
        OBVIOUS
      <3>2. r.id \in Uids
        BY DEF TokenInv
      <3>3. /\ x \in CallSet /\ x.op = "login" /\ x.user \in Uids /\ x.pc = "save"
            /\ x.token = call[p].token /\ x.dead = call[p].dead
        BY <1>0, <2>1, <3>1, <3>2 DEF CallSet
      <3>4. call' = [call EXCEPT ![p] = x]
        BY <1>0, <2>4, <3>1 DEF CallSet
      <3>5. CallOK(x, refresh_tokens') /\ DeadOK(p, x, call)
        BY <1>0, <2>1, <3>3, MovedDead DEF CallOK, Past, Ended
      <3> QED BY <1>0, <2>1, <3>4, <3>5, OneCall
    <2> QED BY <2>2, <2>3, <2>4
  <1>6. CASE GetRefresh(p)
    <2>1. /\ call[p].op = "refresh" /\ call[p].pc = "start"
          /\ UNCHANGED <<users, refresh_tokens, outbox_events>>
      BY <1>6 DEF GetRefresh
    <2>2. \/ call' = [call EXCEPT ![p].pc = "refused"]
          \/ \E r \in refresh_tokens :
                /\ r.id = call[p].token /\ ~r.revoked
                /\ call' = [call EXCEPT ![p].pc = "revoke", ![p].user = r.user]
      <3>1. PICK found : found = {r \in refresh_tokens : r.id = call[p].token /\ Usable(r)}
        OBVIOUS
      <3>2. call' = IF found = {} THEN [call EXCEPT ![p].pc = "refused"]
                    ELSE [call EXCEPT ![p].pc = "revoke",
                                      ![p].user = (CHOOSE r \in found : TRUE).user]
        BY <1>6, <3>1 DEF GetRefresh
      <3>3. PICK r : r = CHOOSE s \in found : TRUE
        OBVIOUS
      <3>4. found # {} => r \in refresh_tokens /\ r.id = call[p].token /\ ~r.revoked
        BY <3>1, <3>3 DEF Usable
      <3> QED BY <3>2, <3>3, <3>4
    <2>3. CASE call' = [call EXCEPT ![p].pc = "refused"]
      <3>1. Go(p, "refused")
        BY <2>3 DEF Go
      <3>2. PICK x \in CallSet :
              /\ call' = [call EXCEPT ![p] = x]
              /\ x.pc = "refused" /\ x.op = call[p].op /\ x.email = call[p].email
              /\ x.password = call[p].password /\ x.user = call[p].user
              /\ x.token = call[p].token /\ x.dead = call[p].dead
              /\ x.ignored = call[p].ignored
        BY <3>1, MovedCall
      <3>3. CallOK(x, refresh_tokens') /\ DeadOK(p, x, call)
        BY <1>0, <2>1, <3>2, MovedDead DEF CallOK, Past, Ended
      <3> QED BY <1>0, <2>1, <3>2, <3>3, OneCall
    <2>4. ASSUME NEW r \in refresh_tokens, r.id = call[p].token, ~r.revoked,
                 call' = [call EXCEPT ![p].pc = "revoke", ![p].user = r.user]
          PROVE  TokenInv'
      <3>1. PICK x : x = [call[p] EXCEPT !.pc = "revoke", !.user = r.user]
        OBVIOUS
      <3>2. r.user \in Uids
        BY <1>0 DEF TokenSet
      <3>3. /\ x \in CallSet /\ x.op = "refresh" /\ x.user \in Uids /\ x.pc = "revoke"
            /\ x.dead = call[p].dead /\ x.token = call[p].token
        BY <1>0, <2>1, <3>1, <3>2 DEF CallSet
      \* The row is not revoked: whoever has ended with the token ignored that.
      <3>4. DeadOK(p, x, call)
        <4>1. \A q \in AuthCalls : Ended(call[q]) /\ call[q].token = r.id => call[q].ignored
          BY <2>4 DEF TokenInv, CallOK, Past
        <4> QED BY <1>0, <2>4, <3>3, <4>1 DEF DeadOK
      <3>5. call' = [call EXCEPT ![p] = x]
        BY <1>0, <2>4, <3>1 DEF CallSet
      <3>6. CallOK(x, refresh_tokens')
        BY <1>0, <2>1, <3>3 DEF CallOK, Past, Ended
      <3> QED BY <1>0, <2>1, <3>4, <3>5, <3>6, OneCall
    <2> QED BY <2>2, <2>3, <2>4
  <1>7. CASE RevokeRefresh(p) \/ Logout(p)
    <2>1. PICK c \in {"save", "done"} :
             /\ RevokeOrIgnore(p, c) /\ UNCHANGED <<users, outbox_events>>
             /\ \/ call[p].op = "refresh" /\ call[p].pc = "revoke" /\ c = "save"
                \/ call[p].op = "logout" /\ call[p].pc = "start" /\ c = "done"
      BY <1>7 DEF RevokeRefresh, Logout
    <2>2. CASE refresh_tokens' = Revoked(call[p].token) /\ Go(p, c)
      <3>1. PICK x \in CallSet :
              /\ call' = [call EXCEPT ![p] = x]
              /\ x.pc = c /\ x.op = call[p].op /\ x.email = call[p].email
              /\ x.password = call[p].password /\ x.user = call[p].user
              /\ x.token = call[p].token /\ x.dead = call[p].dead
              /\ x.ignored = call[p].ignored
        BY <2>2, MovedCall
      <3>2. Later(refresh_tokens, refresh_tokens')
        BY <2>2, RevokedLater
      <3>3. \A r \in refresh_tokens' : r.id = call[p].token => r.revoked
        <4>1. \A r \in refresh_tokens : [r EXCEPT !.revoked = TRUE].revoked
          BY <1>0 DEF TokenSet
        <4>2. PICK t : t = call[p].token
          OBVIOUS
        <4>3. refresh_tokens' = {IF r.id = t THEN [r EXCEPT !.revoked = TRUE] ELSE r :
                                    r \in refresh_tokens}
          BY <2>2, <4>2 DEF Revoked
        <4> QED BY <4>1, <4>2, <4>3
      <3>4. CallOK(x, refresh_tokens')
        <4>1. \E r \in refresh_tokens' : r.id = x.token
          BY <1>0, <2>1, <3>1, <3>2 DEF CallOK, Later
        <4> QED BY <1>0, <2>1, <3>1, <3>3, <4>1 DEF CallOK
      <3>5. DeadOK(p, x, call)
        BY <1>0, <2>1, <3>1, MovedDead
      <3> QED BY <2>1, <3>1, <3>2, <3>4, <3>5, OneCall
    <2>3. CASE /\ call' = [call EXCEPT ![p].pc = c, ![p].ignored = TRUE]
               /\ UNCHANGED refresh_tokens
      <3>1. PICK x : x = [call[p] EXCEPT !.pc = c, !.ignored = TRUE]
        OBVIOUS
      <3>2. /\ x \in CallSet /\ x.pc = c /\ x.ignored /\ x.op = call[p].op
            /\ x.user = call[p].user /\ x.token = call[p].token /\ x.dead = call[p].dead
        BY <1>0, <3>1 DEF CallSet
      <3>3. call' = [call EXCEPT ![p] = x]
        BY <1>0, <2>3, <3>1 DEF CallSet
      <3>4. CallOK(x, refresh_tokens')
        BY <1>0, <2>1, <2>3, <3>2 DEF CallOK
      <3>5. DeadOK(p, x, call)
        BY <1>0, <2>1, <3>2, MovedDead
      <3> QED BY <1>0, <2>1, <2>3, <3>3, <3>4, <3>5, OneCall
    <2> QED BY <2>1, <2>2, <2>3 DEF RevokeOrIgnore
  <1>8. CASE SaveRefresh(p)
    <2>1. /\ call[p].pc = "save" /\ UNCHANGED <<users, outbox_events>> /\ Go(p, "done")
          /\ refresh_tokens' = refresh_tokens \cup
                {[id |-> p, user |-> call[p].user, revoked |-> FALSE, expired |-> FALSE]}
      BY <1>8 DEF SaveRefresh
    <2>2. PICK x \in CallSet :
              /\ call' = [call EXCEPT ![p] = x]
              /\ x.pc = "done" /\ x.op = call[p].op /\ x.email = call[p].email
              /\ x.password = call[p].password /\ x.user = call[p].user
              /\ x.token = call[p].token /\ x.dead = call[p].dead
              /\ x.ignored = call[p].ignored
      BY <2>1, MovedCall
    <2>3. PICK n : n = [id |-> p, user |-> call[p].user, revoked |-> FALSE, expired |-> FALSE]
      OBVIOUS
    <2>4. n \in TokenSet /\ n.id = p
      BY <1>0, <2>1, <2>3 DEF CallOK, TokenSet, Tokens
    <2>5. \A s \in refresh_tokens : s.id # p
      BY <2>1 DEF TokenInv
    <2>6. refresh_tokens' = refresh_tokens \cup {n} /\ refresh_tokens' \subseteq TokenSet
      BY <1>0, <2>1, <2>3, <2>4
    \* The new row is not one of the token that was refreshed.
    <2>7. CallOK(x, refresh_tokens') /\ DeadOK(p, x, call)
      <3>1. CallOK(x, refresh_tokens)
        BY <1>0, <2>1, <2>2 DEF CallOK, Past, Ended
      <3>2. \A r \in refresh_tokens' :
               \/ \E s \in refresh_tokens : s.id = r.id /\ (s.revoked => r.revoked)
               \/ \A s \in refresh_tokens : s.id # r.id
        BY <2>4, <2>5, <2>6
      <3>3. CallOK(x, refresh_tokens')
        BY <1>0, <2>6, <3>1, <3>2, CallStaysOK
      <3> QED BY <1>0, <2>1, <2>2, <3>3, MovedDead
    <2>8. call' \in [AuthCalls -> CallSet] /\ call'[p] = x
          /\ \A q \in AuthCalls \ {p} : call'[q] = call[q]
      BY <1>0, <2>2
    <2>9. ASSUME NEW q \in AuthCalls
          PROVE  CallOK(call'[q], refresh_tokens')
      <3>1. CASE q = p
        BY <2>7, <2>8, <3>1
      <3>2. CASE q # p
        <4>1. CallOK(call[q], refresh_tokens)
          BY DEF TokenInv
        <4>2. \A r \in refresh_tokens' :
                 \/ \E s \in refresh_tokens : s.id = r.id /\ (s.revoked => r.revoked)
                 \/ \A s \in refresh_tokens : s.id # r.id
          BY <2>4, <2>5, <2>6
        <4>3. CallOK(call[q], refresh_tokens')
          BY <1>0, <2>6, <4>1, <4>2, CallStaysOK
        <4> QED BY <2>8, <3>2, <4>3
      <3> QED BY <3>1, <3>2
    <2>10. ASSUME NEW r \in refresh_tokens', r.id \in AuthCalls
           PROVE  call'[r.id].pc = "done"
      <3>1. CASE r = n
        BY <2>2, <2>4, <2>8, <3>1
      <3>2. CASE r \in refresh_tokens
        BY <2>5, <2>8, <2>10, <3>2 DEF TokenInv
      <3> QED BY <2>6, <2>10, <3>1, <3>2
    <2>11. \A q \in AuthCalls : DeadOK(q, call'[q], call')
      BY <2>1, <2>2, <2>7, OneDead
    <2> QED BY <2>1, <2>6, <2>8, <2>9, <2>10, <2>11 DEF TokenInv
  <1>9. CASE AuthFails(p)
    <2>1. /\ UNCHANGED <<users, refresh_tokens, outbox_events>> /\ call[p].pc # "done"
          /\ Go(p, "failed")
      BY <1>9 DEF AuthFails
    <2>2. PICK x \in CallSet :
              /\ call' = [call EXCEPT ![p] = x]
              /\ x.pc = "failed" /\ x.op = call[p].op /\ x.email = call[p].email
              /\ x.password = call[p].password /\ x.user = call[p].user
              /\ x.token = call[p].token /\ x.dead = call[p].dead
              /\ x.ignored = call[p].ignored
      BY <2>1, MovedCall
    <2>3. CallOK(x, refresh_tokens') /\ DeadOK(p, x, call)
      BY <1>0, <2>1, <2>2, MovedDead DEF CallOK, Past, Ended
    <2> QED BY <1>0, <2>1, <2>2, <2>3, OneCall
  <1> QED BY <1>1, <1>2, <1>3, <1>4, <1>5, <1>6, <1>7, <1>8, <1>9 DEF AskAuth, AuthStep

LEMMA ExpiryStep ==
    ASSUME TokenInv, NEW t \in Tokens, TokenExpires(t)
    PROVE  TokenInv'
  <1>1. /\ refresh_tokens' = {IF r.id = t THEN [r EXCEPT !.expired = TRUE] ELSE r :
                                 r \in refresh_tokens}
        /\ UNCHANGED <<users, outbox_events, call>> /\ refresh_tokens \subseteq TokenSet
    BY DEF TokenExpires, TokenInv
  <1>2. \A r \in refresh_tokens :
           /\ [r EXCEPT !.expired = TRUE] \in TokenSet
           /\ [r EXCEPT !.expired = TRUE].id = r.id
           /\ [r EXCEPT !.expired = TRUE].revoked = r.revoked
    BY <1>1 DEF TokenSet
  <1>3. Later(refresh_tokens, refresh_tokens')
    BY <1>1, <1>2 DEF Later
  <1>4. ASSUME NEW q \in AuthCalls
        PROVE  CallOK(call'[q], refresh_tokens')
    <2>1. CallOK(call[q], refresh_tokens)
      BY DEF TokenInv
    <2>2. CallOK(call[q], refresh_tokens')
      BY <1>3, <2>1, CallStaysOK DEF Later, TokenInv
    <2> QED BY <1>1, <2>2
  <1>5. ASSUME NEW r \in refresh_tokens', r.id \in AuthCalls
        PROVE  call'[r.id].pc = "done"
    <2>1. PICK s \in refresh_tokens : s.id = r.id
      BY <1>3 DEF Later
    <2>2. call[r.id].pc = "done" /\ UNCHANGED call
      BY <1>1, <1>5, <2>1 DEF TokenInv
    <2> QED BY <2>2
  <1> QED BY <1>1, <1>3, <1>4, <1>5 DEF TokenInv, Later

LEMMA TokenStep ==
    ASSUME TokenInv, [Next]_vars
    PROVE  TokenInv'
  <1>1. CASE UNCHANGED authVars
    BY <1>1 DEF authVars, TokenInv
  <1>2. CASE OfAuth
    BY <1>2, AuthCallStep, ExpiryStep DEF OfAuth
  <1>3. CASE ~OfAuth
    BY <1>1, <1>3 DEF Next, OfProfile, Relay, SelectRows, CommitRows, PublishCreated,
       RollBackRows, Consumer, ReadMessage, CreateIfNotExists, CreateFails, vars
  <1> QED BY <1>2, <1>3

\* The calls and the tokens are in order in every reachable state.
LEMMA TokenInvariant == Spec => []TokenInv
  <1>1. Init => TokenInv
    <2> SUFFICES ASSUME Init
                 PROVE  TokenInv
      OBVIOUS
    <2> USE AuthAssumption
    <2>1. /\ (CHOOSE e \in Emails : TRUE) \in Emails
          /\ (CHOOSE w \in Passwords : TRUE) \in Passwords
      OBVIOUS
    <2>2. users \subseteq [id : Uids, email : Emails, hash : Passwords]
      BY <2>1 DEF Init, AuthInit, Uids
    <2>3. refresh_tokens \subseteq TokenSet
          /\ \A r \in refresh_tokens : r.id \notin AuthCalls
      BY DEF Init, AuthInit, TokenSet, Tokens, Uids
    <2>4. NoCall \in CallSet /\ NoCall.op = "none" /\ NoCall.pc = "idle" /\ ~NoCall.dead
      BY DEF NoCall, CallSet
    <2>5. call = [p \in AuthCalls |-> NoCall] /\ outbox_events = {FirstUser}
      BY DEF Init, AuthInit
    <2>6. \A p \in AuthCalls : CallOK(call[p], refresh_tokens) /\ DeadOK(p, call[p], call)
      BY <2>4, <2>5 DEF CallOK, Past, Ended, DeadOK
    <2> QED BY <2>2, <2>3, <2>4, <2>5, <2>6 DEF TokenInv, Uids
  <1>2. TokenInv /\ [Next]_vars => TokenInv'
    BY TokenStep
  <1> QED BY <1>1, <1>2, PTL DEF Spec

\* For any number of concurrent calls: a refresh with a token that was used or
\* logged out before the call came is not answered with a new session, unless an
\* earlier call with the token ignored that it could not be revoked.
THEOREM DeadTokenStaysDeadCorrect == Spec => []DeadTokenStaysDead
  <1>1. TokenInv => DeadTokenStaysDead
    BY DEF TokenInv, DeadOK, Revived, DeadTokenStaysDead
  <1> QED BY <1>1, TokenInvariant, PTL

-----------------------------------------------------------------------------
(* Profiles *)

\* From the users table through the outbox, the batch of the worker, the topic
\* and the consumer: only users that are committed.
ProfileInv ==
    /\ DOMAIN profiles = Uids
    /\ outbox_events \subseteq Registered
    /\ abatch.rows \subseteq Registered
    /\ user_created \in Seq(Uids) /\ offset \in Nat
    /\ \A n \in 1 .. Len(user_created) : user_created[n] \in Registered
    /\ creating \in Registered \cup {None}
    /\ ProfileHasUser

LEMMA ProfileInvStep ==
    ASSUME TokenInv, ProfileInv, [Next]_vars
    PROVE  ProfileInv'
  <1> USE AuthAssumption, AccountsAssumption
  <1>1. Registered \subseteq Uids
    BY DEF TokenInv, Registered
  \* A step that creates no profile and sends nothing new.
  <1>2. ASSUME Registered \subseteq Registered', outbox_events' \subseteq Registered',
               UNCHANGED <<profiles, abatch, user_created, offset, creating>>
        PROVE  ProfileInv'
    BY <1>2 DEF ProfileInv, ProfileHasUser
  <1>3. CASE OfAuth
    <2>1. UNCHANGED <<profiles, abatch, user_created, offset, creating>>
      BY <1>3 DEF OfAuth, profileVars, relayVars, consumerVars
    <2>2. CASE UNCHANGED <<users, outbox_events>>
      BY <1>2, <2>1, <2>2 DEF Registered, ProfileInv
    <2>3. ASSUME NEW p \in AuthCalls, CommitRegister(p)
          PROVE  ProfileInv'
      <3>1. /\ users' = users \cup {[id |-> p, email |-> call[p].email,
                                     hash |-> call[p].password]}
            /\ outbox_events' = outbox_events \cup {p}
        BY <2>3 DEF CommitRegister, InsertOutbox
      <3>2. Registered \subseteq Registered' /\ p \in Registered'
        <4>1. PICK n : /\ n = [id |-> p, email |-> call[p].email, hash |-> call[p].password]
                       /\ n.id = p /\ users' = users \cup {n}
          BY <3>1
        <4>2. Registered' = {r.id : r \in users'} /\ Registered = {r.id : r \in users}
          BY DEF Registered
        <4> QED BY <4>1, <4>2
      <3>3. outbox_events' \subseteq Registered'
        BY <3>1, <3>2 DEF ProfileInv
      <3> QED BY <1>2, <2>1, <3>2, <3>3
    <2>4. ASSUME NEW p \in AuthCalls, ~CommitRegister(p),
                 AskAuth(p) \/ AuthStep(p) \/ AuthFails(p)
          PROVE  UNCHANGED <<users, outbox_events>>
      BY <2>4 DEF AskAuth, AskRegister, AskLogin, AskWithToken, AuthStep, CreateUser,
         CheckPassword, GetRefresh, RevokeRefresh, SaveRefresh, Logout, AuthFails
    <2>5. ASSUME NEW t \in Tokens, TokenExpires(t)
          PROVE  UNCHANGED <<users, outbox_events>>
      BY <2>5 DEF TokenExpires
    <2> QED BY <1>3, <2>2, <2>3, <2>4, <2>5 DEF OfAuth
  <1>4. CASE OfProfile
    <2>1. UNCHANGED <<users, outbox_events, abatch, user_created, offset, creating>>
      BY <1>4 DEF OfProfile, authVars, relayVars, consumerVars
    <2>2. CASE UNCHANGED profiles
      BY <1>2, <2>1, <2>2 DEF Registered, ProfileInv
    <2>3. ASSUME NEW p \in ProfileCalls, UpdateRow(p)
          PROVE  ProfileInv'
      <3>1. \/ UNCHANGED profiles
            \/ /\ profiles[request[p].user] # NoProfile
               /\ profiles' = [profiles EXCEPT ![request[p].user] = request[p].copy]
        BY <2>3 DEF UpdateRow
      <3>2. DOMAIN profiles' = Uids
            /\ \A u \in Uids : profiles'[u] # NoProfile => profiles[u] # NoProfile
        BY <3>1 DEF ProfileInv
      <3> QED BY <2>1, <3>2 DEF ProfileInv, ProfileHasUser, Registered
    <2>4. ASSUME NEW p \in ProfileCalls, ~UpdateRow(p),
                 AskProfileService(p) \/ ProfileStep(p) \/ RequestFails(p)
          PROVE  UNCHANGED profiles
      BY <2>4 DEF AskProfileService, AskProfile, AskContact, AskBlock, ProfileStep,
         GetProfile, CacheSet, CacheDelete, ContactStep, CheckBlocked, InsertContact,
         DeleteContact, BlockStep, InsertBlock, DeleteBlock, OutboxAdd, RequestFails
    <2>5. CASE PublisherStep \/ PublishFails \/ \E u \in Owners : CacheExpires(u)
      BY <2>2, <2>5 DEF PublisherStep, Fetch, PublishRow, MarkPublished, PublishFails,
         CacheExpires
    <2> QED BY <1>4, <2>2, <2>3, <2>4, <2>5 DEF OfProfile
  <1>5. CASE SelectRows
    <2>1. /\ abatch'.rows = outbox_events \ processed
          /\ UNCHANGED <<users, outbox_events, profiles, user_created, offset, creating>>
      BY <1>5 DEF SelectRows, authVars, profileVars, consumerVars
    <2> QED BY <2>1 DEF ProfileInv, ProfileHasUser, Registered
  <1>6. ASSUME NEW u \in Uids, PublishCreated(u)
        PROVE  ProfileInv'
    <2>1. /\ u \in abatch.rows
          /\ user_created' = Append(user_created, u) \/ UNCHANGED user_created
          /\ abatch' = [abatch EXCEPT !.sent = @ \cup {u}]
          /\ UNCHANGED <<users, outbox_events, profiles, offset, creating>>
      BY <1>6 DEF PublishCreated, authVars, profileVars
    <2>2. abatch'.rows = abatch.rows /\ UNCHANGED Registered
      BY <2>1 DEF Registered
    <2>3. CASE user_created' = Append(user_created, u)
      <3>1. /\ user_created' \in Seq(Uids) /\ Len(user_created') = Len(user_created) + 1
            /\ Len(user_created) \in Nat
            /\ \A n \in 1 .. Len(user_created) : user_created'[n] = user_created[n]
            /\ user_created'[Len(user_created) + 1] = u
        BY <2>3 DEF ProfileInv
      <3>2. \A n \in 1 .. Len(user_created') : user_created'[n] \in Registered'
        BY <2>1, <2>2, <3>1 DEF ProfileInv
      <3> QED BY <2>1, <2>2, <3>1, <3>2 DEF ProfileInv, ProfileHasUser
    <2>4. CASE UNCHANGED user_created
      BY <2>1, <2>2, <2>4 DEF ProfileInv, ProfileHasUser
    <2> QED BY <2>1, <2>3, <2>4
  <1>7. CASE CommitRows \/ RollBackRows
    <2>1. /\ abatch'.rows = {}
          /\ UNCHANGED <<users, outbox_events, profiles, user_created, offset, creating>>
      BY <1>7 DEF CommitRows, RollBackRows, NoBatch, authVars, profileVars, consumerVars
    <2> QED BY <2>1 DEF ProfileInv, ProfileHasUser, Registered
  <1>8. CASE ReadMessage
    <2>1. /\ offset < Len(user_created) /\ offset' = offset + 1
          /\ creating' = user_created[offset + 1]
          /\ UNCHANGED <<users, outbox_events, profiles, user_created, abatch>>
      BY <1>8 DEF ReadMessage, authVars, profileVars, relayVars
    <2>2. offset + 1 \in 1 .. Len(user_created) /\ offset' \in Nat
      BY <2>1 DEF ProfileInv
    <2> QED BY <2>1, <2>2 DEF ProfileInv, ProfileHasUser, Registered
  <1>9. CASE CreateIfNotExists
    <2>1. /\ creating # None /\ creating' = None
          /\ profiles' = [profiles EXCEPT ![creating] = IF @ = NoProfile THEN NewProfile ELSE @]
          /\ UNCHANGED <<users, outbox_events, user_created, abatch, offset>>
      BY <1>9 DEF CreateIfNotExists, authVars, relayVars
    <2>2. /\ DOMAIN profiles' = Uids
          /\ \A u \in Uids \ {creating} : profiles'[u] = profiles[u]
      BY <2>1 DEF ProfileInv
    <2>3. ProfileHasUser'
      BY <2>1, <2>2 DEF ProfileInv, ProfileHasUser, Registered
    <2> QED BY <2>1, <2>2, <2>3 DEF ProfileInv, Registered
  <1>10. CASE CreateFails
    <2>1. /\ creating' = None
          /\ UNCHANGED <<users, outbox_events, profiles, user_created, abatch, offset>>
      BY <1>10 DEF CreateFails, authVars, relayVars
    <2> QED BY <2>1 DEF ProfileInv, ProfileHasUser, Registered
  <1>11. CASE UNCHANGED vars
    <2>1. UNCHANGED <<users, outbox_events, profiles, user_created, abatch, offset, creating>>
      BY <1>11 DEF vars, authVars, profileVars, relayVars, consumerVars
    <2> QED BY <2>1 DEF ProfileInv, ProfileHasUser, Registered
  <1> QED BY <1>3, <1>4, <1>5, <1>6, <1>7, <1>8, <1>9, <1>10, <1>11
          DEF Next, Relay, Consumer

\* The path of a registration stays inside the users that are committed.
LEMMA ProfileInvariant == Spec => []ProfileInv
  <1>1. Init => ProfileInv
    <2> SUFFICES ASSUME Init
                 PROVE  ProfileInv
      OBVIOUS
    <2> USE AuthAssumption, AccountsAssumption
    <2>1. Registered = {FirstUser} /\ FirstUser \in Uids
      BY DEF Init, AuthInit, Registered, Uids
    <2>2. /\ outbox_events = {FirstUser} /\ abatch.rows = {} /\ user_created = <<FirstUser>>
          /\ offset = 1 /\ creating = None
      BY DEF Init, AuthInit, NoBatch
    <2>3. DOMAIN profiles = Uids /\ ProfileHasUser
      BY <2>1 DEF Init, ProfileInit, ProfileHasUser
    <2> QED BY <2>1, <2>2, <2>3 DEF ProfileInv
  <1>2. TokenInv /\ ProfileInv /\ [Next]_vars => ProfileInv'
    BY ProfileInvStep
  <1> QED BY <1>1, <1>2, TokenInvariant, PTL DEF Spec

\* For any number of calls, deliveries, restarts and failures: a profile belongs
\* to a registration that was committed.
THEOREM ProfileHasUserCorrect == Spec => []ProfileHasUser
  BY ProfileInvariant, PTL DEF ProfileInv

-----------------------------------------------------------------------------
(* Changes of the profile service *)

Copies == [Fields -> Values]

RequestSet ==
    [op : Changes \cup {"none", "get"},
     pc : {"idle", "get", "set", "update", "delete", "event", "check", "insert",
           "remove", "done", "refused", "failed"},
     user : Owners \cup {NoProfile}, other : Owners \cup {NoProfile},
     field : Fields, copy : Copies \cup {NoProfile}]

\* A call that goes to the cache or to the table has a copy to put there, and
\* one about a contact or a block has its pair of users.
RequestOK(x) ==
    /\ x \in RequestSet
    /\ x.pc # "idle" => x.user \in Owners
    /\ x.pc \in {"set", "update"} => x.copy \in Copies
    /\ x.pc \in {"check", "insert", "remove"} => <<x.user, x.other>> \in Relations

\* A call that the profile service has answered is one whose event is written.
Kept(x, p, rows) == x.op \in Changes /\ x.pc = "done" => p \in rows

\* The publisher marks only rows it has sent.
ChangeInv ==
    /\ ProfileTypeOK
    /\ \A p \in ProfileCalls : RequestOK(request[p]) /\ Kept(request[p], p, outbox)
    /\ fetched.rows \subseteq outbox /\ fetched.mark \subseteq outbox \cap sent
    /\ published \subseteq sent

\* What a move of a request to another pc does to its record.
LEMMA MovedRequest ==
    ASSUME request \in [ProfileCalls -> RequestSet], NEW p \in ProfileCalls, NEW c, Move(p, c),
           c \in {"delete", "event", "insert", "remove", "done", "refused", "failed"}
    PROVE  \E x \in RequestSet :
              /\ request' = [request EXCEPT ![p] = x]
              /\ x.pc = c /\ x.op = request[p].op /\ x.user = request[p].user
              /\ x.other = request[p].other /\ x.copy = request[p].copy
  <1>1. request[p] \in RequestSet
    OBVIOUS
  <1>2. PICK x : x = [request[p] EXCEPT !.pc = c]
    OBVIOUS
  <1>3. /\ x \in RequestSet /\ x.pc = c /\ x.op = request[p].op
        /\ x.user = request[p].user /\ x.other = request[p].other
        /\ x.copy = request[p].copy
    BY <1>1, <1>2 DEF RequestSet
  <1>4. request' = [request EXCEPT ![p] = x]
    BY <1>1, <1>2 DEF Move, RequestSet
  <1> QED BY <1>3, <1>4

\* A step of one request that leaves the publisher alone.
LEMMA OneRequest ==
    ASSUME ChangeInv, NEW p \in ProfileCalls, NEW x,
           request' = [request EXCEPT ![p] = x],
           RequestOK(x), Kept(x, p, outbox'),
           outbox \subseteq outbox', outbox' \subseteq ProfileCalls,
           profiles' \in [Owners -> Copies \cup {NoProfile}],
           cache' \in [Owners -> Copies \cup {NoProfile}],
           contacts' \subseteq Relations, blocks' \subseteq Relations,
           UNCHANGED <<published, topic, sent, fetched, failures>>
    PROVE  ChangeInv'
  <1>1. x \in RequestSet /\ request \in [ProfileCalls -> RequestSet]
    BY DEF RequestOK, ChangeInv, ProfileTypeOK, RequestSet, Copies
  <1>2. request' \in [ProfileCalls -> RequestSet]
    BY <1>1
  <1>3. ProfileTypeOK'
    BY <1>2 DEF ChangeInv, ProfileTypeOK, RequestSet, Copies
  <1>4. ASSUME NEW q \in ProfileCalls
        PROVE  RequestOK(request'[q]) /\ Kept(request'[q], q, outbox')
    <2>1. CASE q = p
      BY <1>1, <2>1
    <2>2. CASE q # p
      <3>1. request'[q] = request[q]
        BY <1>1, <2>2
      <3>2. RequestOK(request[q]) /\ Kept(request[q], q, outbox)
        BY DEF ChangeInv
      <3> QED BY <3>1, <3>2 DEF Kept
    <2> QED BY <2>1, <2>2
  <1> QED BY <1>3, <1>4 DEF ChangeInv
\* GetProfile ends with the copy; UpdateProfile goes on with one field changed.
LEMMA GotOK ==
    ASSUME NEW p \in ProfileCalls, RequestOK(request[p]), request[p].pc # "idle",
           NEW x \in Copies
    PROVE  RequestOK(Got(p, x)) /\ (Got(p, x).op \in Changes => Got(p, x).pc # "done")
  <1>1. /\ request[p] \in RequestSet /\ request[p].user \in Owners
        /\ request[p].field \in Fields
    BY DEF RequestOK, RequestSet
  <1>2. CASE request[p].op = "get"
    <2>1. Got(p, x) = [request[p] EXCEPT !.pc = "done", !.copy = x]
      BY <1>2 DEF Got
    <2>2. /\ Got(p, x) \in RequestSet /\ Got(p, x).pc = "done" /\ Got(p, x).op = "get"
          /\ Got(p, x).user = request[p].user
      BY <1>1, <1>2, <2>1 DEF RequestSet
    <2> QED BY <1>1, <2>2 DEF RequestOK, Changes
  <1>3. CASE request[p].op # "get"
    <2>1. PICK y : y = [x EXCEPT ![request[p].field] = p]
      OBVIOUS
    <2>2. y \in Copies
      BY <1>1, <2>1 DEF Copies, Values
    <2>3. Got(p, x) = [request[p] EXCEPT !.pc = "update", !.copy = y]
      BY <1>3, <2>1 DEF Got
    <2>4. /\ Got(p, x) \in RequestSet /\ Got(p, x).pc = "update" /\ Got(p, x).copy = y
          /\ Got(p, x).user = request[p].user
      BY <1>1, <2>2, <2>3 DEF RequestSet
    <2> QED BY <1>1, <2>2, <2>4 DEF RequestOK
  <1> QED BY <1>2, <1>3

\* A new request.
LEMMA AskStep ==
    ASSUME ChangeInv, Registered \subseteq Owners, NEW p \in ProfileCalls, AskProfileService(p)
    PROVE  ChangeInv'
  <1> DEFINE Begins == \E x : /\ request' = [request EXCEPT ![p] = x]
                              /\ RequestOK(x) /\ x.pc # "done"
  <1>1. Begins
    <2>1. ASSUME NEW u \in Registered, AskProfile(p, u)
          PROVE  Begins
      <3>1. PICK op \in {"get", "update", "put"}, f \in Fields :
               request' = [request EXCEPT ![p] =
                  [NoRequest EXCEPT !.op = op, !.user = u, !.field = f,
                       !.pc = IF op = "put" THEN "update" ELSE "get",
                       !.copy = IF op = "put" THEN [g \in Fields |-> p] ELSE NoProfile]]
        BY <2>1 DEF AskProfile
      <3>2. PICK x : x = [NoRequest EXCEPT !.op = op, !.user = u, !.field = f,
                             !.pc = IF op = "put" THEN "update" ELSE "get",
                             !.copy = IF op = "put" THEN [g \in Fields |-> p] ELSE NoProfile]
        OBVIOUS
      <3>3. request' = [request EXCEPT ![p] = x]
        BY <3>1, <3>2
      <3>4. [g \in Fields |-> p] \in Copies
        BY DEF Copies, Values
      <3>5. /\ x.op = op /\ x.pc = (IF op = "put" THEN "update" ELSE "get")
            /\ x.user = u /\ x.copy = IF op = "put" THEN [g \in Fields |-> p] ELSE NoProfile
        BY <3>2 DEF NoRequest
      <3>6. x \in RequestSet
        BY <3>2, <3>4 DEF NoRequest, RequestSet, Changes
      <3> QED BY <3>3, <3>4, <3>5, <3>6 DEF RequestOK
    <2>2. ASSUME NEW u \in Owners, NEW v \in Owners, <<u, v>> \in Relations,
                 NEW op \in Changes,
                 NEW c \in {"remove", "refused", "check", "insert"},
                 request' = [request EXCEPT ![p] =
                    [NoRequest EXCEPT !.op = op, !.user = u, !.other = v, !.pc = c]]
          PROVE  Begins
      <3>1. PICK x : x = [NoRequest EXCEPT !.op = op, !.user = u, !.other = v, !.pc = c]
        OBVIOUS
      <3>2. request' = [request EXCEPT ![p] = x]
        BY <2>2, <3>1
      <3>3. x \in RequestSet /\ x.pc = c /\ x.user = u /\ x.other = v
        BY <3>1 DEF NoRequest, RequestSet, Fields
      <3> QED BY <2>2, <3>2, <3>3 DEF RequestOK
    <2>3. ASSUME NEW u \in Owners, NEW v \in Owners, <<u, v>> \in Relations,
                 AskContact(p, u, v) \/ AskBlock(p, u, v)
          PROVE  Begins
      <3>1. CASE AskContact(p, u, v)
        <4>1. PICK op \in {"add_contact", "remove_contact"} :
                 request' = [request EXCEPT ![p] =
                    [NoRequest EXCEPT !.op = op, !.user = u, !.other = v,
                         !.pc = CASE op = "remove_contact"          -> "remove"
                                  [] op = "add_contact" /\ u = v    -> "refused"
                                  [] op = "add_contact" /\ ~(u = v) -> "check"]]
          BY <3>1 DEF AskContact
        <4>2. PICK c : c = CASE op = "remove_contact"          -> "remove"
                             [] op = "add_contact" /\ u = v    -> "refused"
                             [] op = "add_contact" /\ ~(u = v) -> "check"
          OBVIOUS
        <4>3. c \in {"remove", "refused", "check", "insert"} /\ op \in Changes
          BY <4>2 DEF Changes
        <4> QED BY <2>2, <2>3, <4>1, <4>2, <4>3
      <3>2. CASE AskBlock(p, u, v)
        <4>1. PICK op \in {"block", "unblock"} :
                 request' = [request EXCEPT ![p] =
                    [NoRequest EXCEPT !.op = op, !.user = u, !.other = v,
                         !.pc = CASE op = "unblock"            -> "remove"
                                  [] op = "block" /\ u = v     -> "refused"
                                  [] op = "block" /\ ~(u = v)  -> "insert"]]
          BY <3>2 DEF AskBlock
        <4>2. PICK c : c = CASE op = "unblock"            -> "remove"
                             [] op = "block" /\ u = v     -> "refused"
                             [] op = "block" /\ ~(u = v)  -> "insert"
          OBVIOUS
        <4>3. c \in {"remove", "refused", "check", "insert"} /\ op \in Changes
          BY <4>2 DEF Changes
        <4> QED BY <2>2, <2>3, <4>1, <4>2, <4>3
      <3> QED BY <2>3, <3>1, <3>2
    <2>4. \A pair \in Relations : /\ pair[1] \in Owners /\ pair[2] \in Owners
                                  /\ <<pair[1], pair[2]>> = pair
      BY ProfileAssumption
    <2> QED BY <2>1, <2>3, <2>4 DEF AskProfileService
  <1>2. PICK x : request' = [request EXCEPT ![p] = x] /\ RequestOK(x) /\ x.pc # "done"
    BY <1>1
  <1>3. UNCHANGED <<profiles, cache, contacts, blocks, outbox, published, topic, sent, fetched,
                    failures>>
    BY DEF AskProfileService, AskProfile, AskContact, AskBlock, relations, publisher
  <1>4. Kept(x, p, outbox')
    BY <1>2 DEF Kept
  <1>5. /\ profiles' \in [Owners -> Copies \cup {NoProfile}]
        /\ cache' \in [Owners -> Copies \cup {NoProfile}]
        /\ contacts' \subseteq Relations /\ blocks' \subseteq Relations
        /\ outbox \subseteq outbox' /\ outbox' \subseteq ProfileCalls
    BY <1>3 DEF ChangeInv, ProfileTypeOK, Copies
  <1> HIDE DEF ChangeInv
  <1> QED BY <1>2, <1>3, <1>4, <1>5, OneRequest
\* Every step of a request keeps the profiles, the cache and the requests in
\* order: what goes to the table or to the cache is a profile, and a change is
\* answered only by the step that writes its event.
LEMMA ChangeCallStep ==
    ASSUME ChangeInv, NEW p \in ProfileCalls, ProfileStep(p) \/ RequestFails(p)
    PROVE  ChangeInv'
  <1>0. /\ request \in [ProfileCalls -> RequestSet] /\ RequestOK(request[p])
        /\ profiles \in [Owners -> Copies \cup {NoProfile}]
        /\ cache \in [Owners -> Copies \cup {NoProfile}]
        /\ contacts \subseteq Relations /\ blocks \subseteq Relations
        /\ outbox \subseteq ProfileCalls
    BY DEF ChangeInv, ProfileTypeOK, RequestSet, Copies
  <1>1. ASSUME NEW c \in {"delete", "event", "insert", "remove", "refused", "failed"},
               Move(p, c), request[p].pc # "idle",
               c \in {"insert", "remove"} => Pair(p) \in Relations,
               UNCHANGED <<outbox, published, topic, sent, fetched, failures>>,
               profiles' \in [Owners -> Copies \cup {NoProfile}],
               cache' \in [Owners -> Copies \cup {NoProfile}],
               contacts' \subseteq Relations, blocks' \subseteq Relations
        PROVE  ChangeInv'
    <2>1. PICK x \in RequestSet : /\ request' = [request EXCEPT ![p] = x]
                                  /\ x.pc = c /\ x.user = request[p].user
                                  /\ x.other = request[p].other
      BY <1>0, <1>1, MovedRequest
    <2>2. RequestOK(x) /\ Kept(x, p, outbox')
      BY <1>0, <1>1, <2>1 DEF RequestOK, Kept, Pair
    <2>3. outbox \subseteq outbox' /\ outbox' \subseteq ProfileCalls
      BY <1>0, <1>1
    <2> QED BY <1>1, <2>1, <2>2, <2>3, OneRequest
  <1>2. ASSUME NEW x, request' = [request EXCEPT ![p] = x], RequestOK(x),
               x.op \in Changes => x.pc # "done",
               UNCHANGED <<profiles, contacts, blocks, outbox, published, topic, sent, fetched,
                           failures>>,
               cache' \in [Owners -> Copies \cup {NoProfile}]
        PROVE  ChangeInv'
    <2>1. Kept(x, p, outbox')
      BY <1>2 DEF Kept
    <2>2. /\ profiles' \in [Owners -> Copies \cup {NoProfile}]
          /\ contacts' \subseteq Relations /\ blocks' \subseteq Relations
          /\ outbox \subseteq outbox' /\ outbox' \subseteq ProfileCalls
      BY <1>0, <1>2
    <2> QED BY <1>2, <2>1, <2>2, OneRequest
  <1>3. CASE GetProfile(p)
    <2>1. /\ request[p].pc = "get" /\ request[p].user \in Owners
          /\ UNCHANGED <<profiles, cache, contacts, blocks, outbox, published, topic, sent,
                         fetched, failures>>
      BY <1>0, <1>3 DEF GetProfile, RequestOK, relations, publisher
    <2>2. CASE cache[request[p].user] # NoProfile
      <3>1. PICK x : x = cache[request[p].user]
        OBVIOUS
      <3>2. x \in Copies
        BY <1>0, <2>1, <2>2, <3>1
      <3>3. RequestOK(Got(p, x)) /\ (Got(p, x).op \in Changes => Got(p, x).pc # "done")
        BY <1>0, <2>1, <3>2, GotOK
      <3>4. request' = [request EXCEPT ![p] = Got(p, x)]
        BY <1>3, <2>2, <3>1 DEF GetProfile
      <3>5. cache' \in [Owners -> Copies \cup {NoProfile}]
        BY <1>0, <2>1
      <3> HIDE DEF Got
      <3> QED BY <1>2, <2>1, <3>3, <3>4, <3>5
    <2>3. CASE cache[request[p].user] = NoProfile /\ profiles[request[p].user] = NoProfile
      <3>1. request' = [request EXCEPT ![p] = [request[p] EXCEPT !.pc = "refused"]]
        BY <1>0, <1>3, <2>3 DEF GetProfile
      <3>2. Move(p, "refused")
        BY <1>0, <3>1 DEF Move
      <3> QED BY <1>0, <1>1, <2>1, <3>2
    <2>4. CASE cache[request[p].user] = NoProfile /\ profiles[request[p].user] # NoProfile
      <3>1. PICK y : y = profiles[request[p].user]
        OBVIOUS
      <3>2. y \in Copies
        BY <1>0, <2>1, <2>4, <3>1
      <3>3. PICK x : x = [request[p] EXCEPT !.pc = "set", !.copy = y]
        OBVIOUS
      <3>4. request' = [request EXCEPT ![p] = x]
        BY <1>0, <1>3, <2>4, <3>1, <3>3 DEF GetProfile
      <3>5. x \in RequestSet /\ x.pc = "set" /\ x.copy = y /\ x.user = request[p].user
        BY <1>0, <3>2, <3>3 DEF RequestSet
      <3>6. RequestOK(x)
        BY <2>1, <3>2, <3>5 DEF RequestOK
      <3>7. cache' \in [Owners -> Copies \cup {NoProfile}] /\ x.pc # "done"
        BY <1>0, <2>1, <3>5
      <3> QED BY <1>2, <2>1, <3>4, <3>6, <3>7
    <2> QED BY <2>2, <2>3, <2>4
  <1>4. CASE CacheSet(p)
    <2>1. /\ request[p].pc = "set" /\ request[p].user \in Owners
          /\ request[p].copy \in Copies
          /\ UNCHANGED <<profiles, contacts, blocks, outbox, published, topic, sent, fetched,
                         failures>>
      BY <1>0, <1>4 DEF CacheSet, RequestOK, relations, publisher
    <2>2. cache' \in [Owners -> Copies \cup {NoProfile}]
      BY <1>0, <1>4, <2>1 DEF CacheSet
    <2>3. PICK x : x = request[p].copy
      OBVIOUS
    <2>4. RequestOK(Got(p, x)) /\ (Got(p, x).op \in Changes => Got(p, x).pc # "done")
      BY <1>0, <2>1, <2>3, GotOK
    <2>5. request' = [request EXCEPT ![p] = Got(p, x)]
      BY <1>4, <2>3 DEF CacheSet
    <2> QED BY <1>2, <2>1, <2>2, <2>4, <2>5
  <1>5. CASE UpdateRow(p)
    <2>1. /\ request[p].pc = "update" /\ request[p].user \in Owners
          /\ request[p].copy \in Copies
          /\ UNCHANGED <<cache, contacts, blocks, outbox, published, topic, sent, fetched,
                         failures>>
      BY <1>0, <1>5 DEF UpdateRow, RequestOK, relations, publisher
    <2>2. profiles' \in [Owners -> Copies \cup {NoProfile}]
      BY <1>0, <1>5, <2>1 DEF UpdateRow
    <2>3. Move(p, "refused") \/ Move(p, "delete")
      BY <1>5 DEF UpdateRow
    <2> QED BY <1>0, <1>1, <2>1, <2>2, <2>3
  <1>6. CASE CacheDelete(p)
    <2>1. /\ request[p].pc = "delete" /\ request[p].user \in Owners /\ Move(p, "event")
          /\ UNCHANGED <<profiles, contacts, blocks, outbox, published, topic, sent, fetched,
                         failures>>
      BY <1>0, <1>6 DEF CacheDelete, RequestOK, relations, publisher
    <2>2. cache' \in [Owners -> Copies \cup {NoProfile}]
      BY <1>0, <1>6, <2>1 DEF CacheDelete
    <2> QED BY <1>0, <1>1, <2>1, <2>2
  <1>7. CASE ContactStep(p) \/ BlockStep(p)
    <2>1. /\ request[p].pc # "idle" /\ request[p].pc \in {"check", "insert", "remove"}
          /\ UNCHANGED <<profiles, cache, outbox, published, topic, sent, fetched, failures>>
          /\ \E c \in {"event", "insert", "remove", "refused"} : Move(p, c)
      BY <1>7 DEF ContactStep, CheckBlocked, InsertContact, DeleteContact, BlockStep,
         InsertBlock, DeleteBlock, relations, publisher
    <2>2. Pair(p) \in Relations
      BY <1>0, <2>1 DEF RequestOK, Pair
    <2>3. contacts' \subseteq Relations /\ blocks' \subseteq Relations
      BY <1>0, <1>7, <2>2 DEF ContactStep, CheckBlocked, InsertContact, DeleteContact,
         BlockStep, InsertBlock, DeleteBlock, relations
    <2> QED BY <1>0, <1>1, <2>1, <2>2, <2>3
  <1>8. CASE OutboxAdd(p)
    <2>1. /\ request[p].pc = "event" /\ Move(p, "done") /\ outbox' = outbox \cup {p}
          /\ UNCHANGED <<profiles, cache, contacts, blocks, published, topic, sent, fetched,
                         failures>>
      BY <1>8 DEF OutboxAdd, relations, publisher
    <2>2. PICK x \in RequestSet : /\ request' = [request EXCEPT ![p] = x]
                                  /\ x.pc = "done" /\ x.user = request[p].user
      BY <1>0, <2>1, MovedRequest
    <2>3. RequestOK(x) /\ Kept(x, p, outbox')
      BY <1>0, <2>1, <2>2 DEF RequestOK, Kept
    <2>4. /\ outbox \subseteq outbox' /\ outbox' \subseteq ProfileCalls
          /\ profiles' \in [Owners -> Copies \cup {NoProfile}]
          /\ cache' \in [Owners -> Copies \cup {NoProfile}]
          /\ contacts' \subseteq Relations /\ blocks' \subseteq Relations
      BY <1>0, <2>1
    <2> QED BY <2>1, <2>2, <2>3, <2>4, OneRequest
  <1>9. CASE RequestFails(p)
    <2>1. /\ request[p].pc # "idle" /\ Move(p, "failed")
          /\ UNCHANGED <<profiles, cache, contacts, blocks, outbox, published, topic, sent,
                         fetched, failures>>
      BY <1>9 DEF RequestFails, relations, publisher
    <2> QED BY <1>0, <1>1, <2>1
  <1> QED BY <1>3, <1>4, <1>5, <1>6, <1>7, <1>8, <1>9 DEF ProfileStep
LEMMA ChangeInvStep ==
    ASSUME TokenInv, ProfileInv, ChangeInv, [Next]_vars
    PROVE  ChangeInv'
  <1>1. Registered \subseteq Owners
    BY AccountsAssumption DEF TokenInv, Registered
  \* A step that is none of the profile service's own.
  <1>2. ASSUME profiles' \in [Owners -> Copies \cup {NoProfile}],
               failures' \in 0 .. MaxFailures,
               UNCHANGED <<cache, contacts, blocks, outbox, published, topic, sent, fetched,
                           request>>
        PROVE  ChangeInv'
    BY <1>2 DEF ChangeInv, ProfileTypeOK, Copies
  <1>3. /\ profiles \in [Owners -> Copies \cup {NoProfile}] /\ failures \in 0 .. MaxFailures
        /\ cache \in [Owners -> Copies \cup {NoProfile}]
        /\ MaxFailures \in Nat
    BY ProfileAssumption DEF ChangeInv, ProfileTypeOK, Copies
  <1>4. CASE UNCHANGED profileVars
    BY <1>2, <1>3, <1>4 DEF profileVars
  <1>5. ASSUME NEW p \in ProfileCalls,
               AskProfileService(p) \/ ProfileStep(p) \/ RequestFails(p)
        PROVE  ChangeInv'
    BY <1>1, <1>5, AskStep, ChangeCallStep
  <1>6. ASSUME PublisherStep \/ PublishFails
        PROVE  ChangeInv'
    <2>1. /\ fetched \in [rows : SUBSET ProfileCalls, mark : SUBSET ProfileCalls]
          /\ fetched.rows \subseteq outbox /\ fetched.mark \subseteq outbox \cap sent
          /\ published \subseteq outbox \cap sent /\ outbox \subseteq ProfileCalls
      BY DEF ChangeInv, ProfileTypeOK
    <2> DEFINE Marked ==
                 /\ fetched' \in [rows : SUBSET ProfileCalls, mark : SUBSET ProfileCalls]
                 /\ topic' \subseteq sent' /\ sent' \subseteq ProfileCalls
                 /\ fetched'.rows \subseteq outbox /\ fetched'.mark \subseteq outbox \cap sent'
                 /\ published' \subseteq outbox \cap sent'
    <2>2. Marked
      <3>1. CASE Fetch
        BY <2>1, <3>1 DEF Fetch, ChangeInv, ProfileTypeOK
      <3>2. ASSUME NEW p \in ProfileCalls, PublishRow(p)
            PROVE  Marked
        BY <2>1, <3>2 DEF PublishRow, ChangeInv, ProfileTypeOK
      <3>3. ASSUME NEW p \in ProfileCalls, MarkPublished(p)
            PROVE  Marked
        BY <2>1, <3>3 DEF MarkPublished, ChangeInv, ProfileTypeOK
      <3>4. CASE PublishFails
        BY <2>1, <3>4 DEF PublishFails, ChangeInv, ProfileTypeOK
      <3> QED BY <1>6, <3>1, <3>2, <3>3, <3>4 DEF PublisherStep
    <2>3. /\ UNCHANGED <<profiles, cache, contacts, blocks, outbox, request>>
          /\ failures' \in 0 .. MaxFailures
      BY <1>3, <1>6 DEF PublisherStep, Fetch, PublishRow, MarkPublished, PublishFails,
         relations
    <2> QED BY <2>2, <2>3 DEF ChangeInv, ProfileTypeOK
  <1>7. ASSUME NEW u \in Owners, CacheExpires(u)
        PROVE  ChangeInv'
    <2>1. cache' \in [Owners -> Copies \cup {NoProfile}]
      BY <1>3, <1>7 DEF CacheExpires
    <2>2. UNCHANGED <<profiles, contacts, blocks, outbox, published, topic, sent, fetched,
                      request, failures>>
      BY <1>7 DEF CacheExpires, relations, publisher
    <2> QED BY <2>1, <2>2 DEF ChangeInv, ProfileTypeOK, Copies
  <1>8. CASE RollBackRows \/ CreateFails
    BY <1>2, <1>3, <1>8 DEF RollBackRows, CreateFails, relations, publisher
  <1>9. CASE CreateIfNotExists
    <2>1. creating \in Owners
      BY <1>1, <1>9 DEF CreateIfNotExists, ProfileInv
    <2>2. NewProfile \in Copies
      BY DEF NewProfile, Copies, Values
    <2>3. profiles' \in [Owners -> Copies \cup {NoProfile}]
      BY <1>3, <1>9, <2>1, <2>2 DEF CreateIfNotExists
    <2>4. UNCHANGED <<cache, contacts, blocks, outbox, published, topic, sent, fetched,
                      request, failures>>
      BY <1>9 DEF CreateIfNotExists, relations, publisher
    <2> QED BY <1>2, <1>3, <2>3, <2>4
  <1> QED BY <1>4, <1>5, <1>6, <1>7, <1>8, <1>9
          DEF Next, OfAuth, OfProfile, Relay, SelectRows, CommitRows, PublishCreated,
              Consumer, ReadMessage, vars

\* The tables, the cache and the publisher of the profile service are in order in
\* every reachable state.
LEMMA ChangeInvariant == Spec => []ChangeInv
  <1>1. Init => ChangeInv
    <2> SUFFICES ASSUME Init
                 PROVE  ChangeInv
      OBVIOUS
    <2>1. NewProfile \in Copies
      BY DEF NewProfile, Copies, Values
    <2>2. NoRequest \in RequestSet /\ NoRequest.pc = "idle"
      BY DEF NoRequest, RequestSet, Fields
    <2>3. /\ profiles \in [Owners -> Copies \cup {NoProfile}]
          /\ cache \in [Owners -> Copies \cup {NoProfile}]
      BY <2>1 DEF Init, ProfileInit
    <2>4. request = [p \in ProfileCalls |-> NoRequest] /\ failures \in 0 .. MaxFailures
      BY ProfileAssumption DEF Init, ProfileInit
    <2>5. \A p \in ProfileCalls : RequestOK(request[p]) /\ Kept(request[p], p, outbox)
      BY <2>2, <2>4 DEF RequestOK, Kept
    <2>6. /\ contacts = {} /\ blocks = {} /\ outbox = {} /\ published = {} /\ topic = {}
          /\ sent = {} /\ fetched = [rows |-> {}, mark |-> {}]
      BY DEF Init, ProfileInit
    <2>7. request \in [ProfileCalls -> RequestSet]
      BY <2>2, <2>4
    <2> QED BY <2>3, <2>4, <2>5, <2>6, <2>7
            DEF ChangeInv, ProfileTypeOK, RequestSet, Copies
  <1>2. TokenInv /\ ProfileInv /\ ChangeInv /\ [Next]_vars => ChangeInv'
    BY ChangeInvStep
  <1> QED BY <1>1, <1>2, TokenInvariant, ProfileInvariant, PTL DEF Spec

\* For any number of calls, restarts and failures: a change that the profile
\* service answered with success has its event in the outbox until it is sent.
THEOREM AnsweredIsKeptCorrect == Spec => []AnsweredIsKept
  <1>1. ChangeInv => AnsweredIsKept
    BY DEF ChangeInv, Kept, Changed, AnsweredIsKept
  <1> QED BY <1>1, ChangeInvariant, PTL
-----------------------------------------------------------------------------
(* No registration is lost *)

\* The topic has an event of user u that the profile service has not read.
Unread(u) == \E n \in offset + 1 .. Len(user_created) : user_created[n] = u

\* What became of the event of user u once it was sent.
Reached(u) == profiles[u] # NoProfile \/ u \in lost \/ creating = u \/ Unread(u)

\* Users and their outbox rows are committed together; a row counts as processed
\* only after it was sent.
PathInv ==
    /\ Registered \subseteq outbox_events
    /\ processed \subseteq Uids /\ lost \subseteq Uids
    /\ abatch \in [rows : SUBSET Uids, sent : SUBSET Uids]
    /\ offset <= Len(user_created)
    /\ \A u \in processed \cup abatch.sent : Reached(u)

LEMMA PathStep ==
    ASSUME TokenInv, ProfileInv, ChangeInv, PathInv, [Next]_vars
    PROVE  PathInv'
  <1> USE AuthAssumption, AccountsAssumption
  <1>0. /\ Registered \subseteq Uids /\ outbox_events \subseteq Uids
        /\ user_created \in Seq(Uids) /\ Len(user_created) \in Nat /\ offset \in Nat
        /\ profiles \in [Uids -> Copies \cup {NoProfile}]
    BY DEF TokenInv, Registered, ProfileInv, ChangeInv, ProfileTypeOK, Copies
  \* A step of a service: users come with their rows, profiles stay.
  <1>1. ASSUME Registered' \subseteq outbox_events',
               \A u \in Uids : profiles[u] # NoProfile => profiles'[u] # NoProfile,
               UNCHANGED <<processed, abatch, user_created, offset, creating, lost>>
        PROVE  PathInv'
    <2>1. \A u \in Uids : Reached(u) => Reached(u)'
      BY <1>1 DEF Reached, Unread
    <2> QED BY <1>1, <2>1 DEF PathInv
  <1>2. CASE OfAuth
    <2>1. UNCHANGED <<profiles, processed, abatch, user_created, offset, creating, lost>>
      BY <1>2 DEF OfAuth, profileVars, relayVars, consumerVars
    <2>2. Registered' \subseteq outbox_events'
      <3>1. CASE UNCHANGED <<users, outbox_events>>
        BY <3>1 DEF PathInv, Registered
      <3>2. ASSUME NEW p \in AuthCalls, CommitRegister(p)
            PROVE  Registered' \subseteq outbox_events'
        <4>1. PICK n : /\ n.id = p /\ users' = users \cup {n}
                       /\ outbox_events' = outbox_events \cup {p}
          BY <3>2 DEF CommitRegister, InsertOutbox
        <4>2. Registered' = {r.id : r \in users'} /\ Registered = {r.id : r \in users}
          BY DEF Registered
        <4> QED BY <4>1, <4>2 DEF PathInv
      <3>3. ASSUME NEW p \in AuthCalls, ~CommitRegister(p),
                   AskAuth(p) \/ AuthStep(p) \/ AuthFails(p)
            PROVE  UNCHANGED <<users, outbox_events>>
        BY <3>3 DEF AskAuth, AskRegister, AskLogin, AskWithToken, AuthStep, CreateUser,
           CheckPassword, GetRefresh, RevokeRefresh, SaveRefresh, Logout, AuthFails
      <3>4. ASSUME NEW t \in Tokens, TokenExpires(t)
            PROVE  UNCHANGED <<users, outbox_events>>
        BY <3>4 DEF TokenExpires
      <3> QED BY <1>2, <3>1, <3>2, <3>3, <3>4 DEF OfAuth
    <2> QED BY <1>1, <2>1, <2>2
  <1>3. CASE OfProfile
    <2>1. UNCHANGED <<users, outbox_events, processed, abatch, user_created, offset,
                      creating, lost>>
      BY <1>3 DEF OfProfile, authVars, relayVars, consumerVars
    <2>2. Registered' \subseteq outbox_events'
      BY <2>1 DEF PathInv, Registered
    <2>3. \A u \in Uids : profiles[u] # NoProfile => profiles'[u] # NoProfile
      <3>1. ASSUME NEW p \in ProfileCalls, UpdateRow(p)
            PROVE  \A u \in Uids : profiles[u] # NoProfile => profiles'[u] # NoProfile
        <4>1. request[p].copy \in Copies
          BY <3>1 DEF UpdateRow, ChangeInv, RequestOK
        <4>2. request[p].copy # NoProfile
          BY <4>1, ProfileAssumption DEF Copies
        <4>3. \/ UNCHANGED profiles
              \/ profiles' = [profiles EXCEPT ![request[p].user] = request[p].copy]
          BY <3>1 DEF UpdateRow
        <4> QED BY <1>0, <4>2, <4>3
      <3>2. ASSUME NEW p \in ProfileCalls, ~UpdateRow(p),
                   AskProfileService(p) \/ ProfileStep(p) \/ RequestFails(p)
            PROVE  UNCHANGED profiles
        BY <3>2 DEF AskProfileService, AskProfile, AskContact, AskBlock, ProfileStep,
           GetProfile, CacheSet, CacheDelete, ContactStep, CheckBlocked, InsertContact,
           DeleteContact, BlockStep, InsertBlock, DeleteBlock, OutboxAdd, RequestFails
      <3>3. CASE PublisherStep \/ PublishFails \/ \E u \in Owners : CacheExpires(u)
        BY <3>3 DEF PublisherStep, Fetch, PublishRow, MarkPublished, PublishFails,
           CacheExpires
      <3> QED BY <1>3, <3>1, <3>2, <3>3 DEF OfProfile
    <2> QED BY <1>1, <2>1, <2>2, <2>3
  \* The rest leaves the users and their rows.
  <1>4. ASSUME UNCHANGED authVars
        PROVE  Registered' \subseteq outbox_events'
    BY <1>4 DEF authVars, Registered, PathInv
  <1>5. CASE SelectRows \/ RollBackRows
    <2>1. /\ UNCHANGED <<authVars, profiles, processed, user_created, offset, creating, lost>>
          /\ abatch' \in [rows : SUBSET Uids, sent : SUBSET Uids] /\ abatch'.sent = {}
      BY <1>0, <1>5 DEF SelectRows, RollBackRows, NoBatch, profileVars, consumerVars
    <2>2. \A u : Reached(u) => Reached(u)'
      BY <2>1 DEF Reached, Unread
    <2> QED BY <1>4, <2>1, <2>2 DEF PathInv
  <1>6. ASSUME NEW u \in Uids, PublishCreated(u)
        PROVE  PathInv'
    <2>1. /\ abatch' = [abatch EXCEPT !.sent = @ \cup {u}]
          /\ UNCHANGED <<authVars, profiles, processed, offset, creating>>
          /\ \/ user_created' = Append(user_created, u) /\ lost' = lost \ {u}
             \/ lost' = lost \cup {u} /\ UNCHANGED user_created
      BY <1>6 DEF PublishCreated, profileVars
    <2>2. /\ abatch' \in [rows : SUBSET Uids, sent : SUBSET Uids]
          /\ abatch'.sent = abatch.sent \cup {u} /\ lost' \subseteq Uids
      BY <2>1 DEF PathInv
    <2>3. offset <= Len(user_created)
      BY DEF PathInv
    <2>4. /\ Reached(u)' /\ \A v : Reached(v) => Reached(v)'
          /\ offset' <= Len(user_created')
      <3>1. CASE user_created' = Append(user_created, u) /\ lost' = lost \ {u}
        <4>1. /\ Len(user_created') = Len(user_created) + 1
              /\ \A n \in 1 .. Len(user_created) : user_created'[n] = user_created[n]
              /\ user_created'[Len(user_created) + 1] = u
          BY <1>0, <3>1
        <4>2. Unread(u)' /\ \A v : Unread(v) => Unread(v)'
          BY <1>0, <2>1, <2>3, <4>1 DEF Unread
        <4>3. offset' <= Len(user_created')
          BY <1>0, <2>1, <2>3, <4>1
        <4> QED BY <2>1, <3>1, <4>2, <4>3 DEF Reached
      <3>2. CASE lost' = lost \cup {u} /\ UNCHANGED user_created
        BY <2>1, <2>3, <3>2 DEF Reached, Unread
      <3> QED BY <2>1, <3>1, <3>2
    <2>5. \A v \in processed' \cup abatch'.sent : Reached(v)'
      BY <2>1, <2>2, <2>4 DEF PathInv
    <2> QED BY <1>4, <2>1, <2>2, <2>4, <2>5 DEF PathInv
  <1>7. CASE CommitRows
    <2>1. /\ processed' = processed \cup abatch.sent /\ abatch' = NoBatch
          /\ UNCHANGED <<authVars, profiles, user_created, offset, creating, lost>>
      BY <1>7 DEF CommitRows, AllSent, profileVars, consumerVars
    <2>2. \A u : Reached(u) => Reached(u)'
      BY <2>1 DEF Reached, Unread
    <2>3. abatch' \in [rows : SUBSET Uids, sent : SUBSET Uids] /\ abatch'.sent = {}
      BY <2>1 DEF NoBatch
    <2>4. abatch.sent \subseteq Uids
      BY DEF PathInv
    <2> QED BY <1>4, <2>1, <2>2, <2>3, <2>4 DEF PathInv
  <1>8. CASE ReadMessage
    <2>1. /\ offset < Len(user_created) /\ offset' = offset + 1 /\ creating = None
          /\ creating' = user_created[offset + 1]
          /\ UNCHANGED <<authVars, profiles, processed, abatch, user_created, lost>>
      BY <1>8 DEF ReadMessage, profileVars, relayVars
    <2>2. ASSUME NEW u \in Uids, Reached(u)
          PROVE  Reached(u)'
      <3>1. Unread(u) => Unread(u)' \/ creating' = u
        BY <1>0, <2>1 DEF Unread
      <3>2. creating # u
        BY <2>1
      <3> QED BY <2>1, <2>2, <3>1, <3>2 DEF Reached
    <2>3. offset' <= Len(user_created') /\ processed \cup abatch.sent \subseteq Uids
      BY <1>0, <2>1 DEF PathInv
    <2> QED BY <1>4, <2>1, <2>2, <2>3 DEF PathInv
  <1>9. CASE CreateIfNotExists \/ CreateFails
    <2>1. /\ creating # None /\ creating' = None
          /\ UNCHANGED <<authVars, processed, abatch, user_created, offset>>
      BY <1>9 DEF CreateIfNotExists, CreateFails, relayVars
    <2>2. creating \in Uids
      BY <1>0, <2>1 DEF ProfileInv
    <2>3. /\ \A u \in Uids : profiles[u] # NoProfile => profiles'[u] # NoProfile
          /\ lost \subseteq lost' /\ lost' \subseteq Uids
          /\ profiles'[creating] # NoProfile \/ creating \in lost'
      <3>1. CASE CreateIfNotExists
        <4>1. NewProfile # NoProfile
          BY ProfileAssumption DEF NewProfile, Values
        <4>2. UNCHANGED lost
          BY <3>1 DEF CreateIfNotExists
        <4>3. profiles' = [profiles EXCEPT ![creating] =
                              IF profiles[creating] = NoProfile THEN NewProfile
                              ELSE profiles[creating]]
          BY <3>1 DEF CreateIfNotExists
        <4> QED BY <1>0, <2>2, <4>1, <4>2, <4>3 DEF PathInv
      <3>2. CASE CreateFails
        BY <2>2, <3>2 DEF CreateFails, PathInv
      <3> QED BY <1>9, <3>1, <3>2
    <2>4. ASSUME NEW u \in Uids, Reached(u)
          PROVE  Reached(u)'
      <3>1. Unread(u) => Unread(u)'
        BY <2>1 DEF Unread
      <3> QED BY <2>3, <2>4, <3>1 DEF Reached
    <2>5. processed \cup abatch.sent \subseteq Uids
      BY DEF PathInv
    <2> QED BY <1>4, <2>1, <2>3, <2>4, <2>5 DEF PathInv
  <1>10. CASE UNCHANGED vars
    <2>1. UNCHANGED <<authVars, profiles, processed, abatch, user_created, offset,
                      creating, lost>>
      BY <1>10 DEF vars, profileVars, relayVars, consumerVars
    <2> QED BY <1>1, <1>4, <2>1
  <1> QED BY <1>2, <1>3, <1>5, <1>6, <1>7, <1>8, <1>9, <1>10 DEF Next, Relay, Consumer

LEMMA PathInvariant == Spec => []PathInv
  <1>1. Init => PathInv
    <2> SUFFICES ASSUME Init
                 PROVE  PathInv
      OBVIOUS
    <2>1. Registered = {FirstUser} /\ FirstUser \in Uids
      BY DEF Init, AuthInit, Registered, Uids
    <2>2. /\ outbox_events = {FirstUser} /\ processed = {FirstUser} /\ lost = {}
          /\ abatch = NoBatch /\ user_created = <<FirstUser>> /\ offset = 1
      BY DEF Init, AuthInit
    <2>3. profiles[FirstUser] = NewProfile
      BY <2>1, AccountsAssumption DEF Init, ProfileInit
    <2>4. NewProfile # NoProfile
      BY ProfileAssumption DEF NewProfile, Values
    <2>5. abatch \in [rows : SUBSET Uids, sent : SUBSET Uids] /\ abatch.sent = {}
      BY <2>2 DEF NoBatch
    <2>6. \A u \in processed \cup abatch.sent : Reached(u)
      BY <2>2, <2>3, <2>4, <2>5 DEF Reached
    <2>7. offset <= Len(user_created)
      BY <2>2
    <2> QED BY <2>1, <2>2, <2>5, <2>6, <2>7 DEF PathInv
  <1>2. TokenInv /\ ProfileInv /\ ChangeInv /\ PathInv /\ [Next]_vars => PathInv'
    BY PathStep
  <1> QED BY <1>1, <1>2, TokenInvariant, ProfileInvariant, ChangeInvariant, PTL DEF Spec

\* For any number of registrations, restarts and repeated deliveries: a user that
\* is registered has a profile, or its USER_CREATED event is on its way, or the
\* broker lost the unacknowledged event, or the consumer's one attempt to create
\* the profile has failed.
THEOREM NoRegistrationLostCorrect == Spec => []NoRegistrationLost
  <1>1. PathInv => NoRegistrationLost
    <2> SUFFICES ASSUME PathInv, NEW u \in Registered
                 PROVE  profiles[u] # NoProfile \/ u \in lost \/ OnItsWay(u)
      BY DEF NoRegistrationLost
    <2>1. CASE u \in processed
      BY <2>1 DEF PathInv, Reached, Unread, OnItsWay
    <2>2. CASE u \notin processed
      BY <2>2 DEF PathInv, OnItsWay
    <2> QED BY <2>1, <2>2
  <1> QED BY <1>1, PathInvariant, PTL

\* The type invariant of both services, the outbox worker and the consumer.
THEOREM TypeCorrect == Spec => []TypeOK
  <1>1. TokenInv /\ ProfileInv /\ ChangeInv /\ PathInv => TypeOK
    <2> SUFFICES ASSUME TokenInv, ProfileInv, ChangeInv, PathInv
                 PROVE  TypeOK
      OBVIOUS
    <2>1. AuthTypeOK
      BY DEF TokenInv, AuthTypeOK, TokenSet, CallSet
    <2>2. ProfileTypeOK
      BY DEF ChangeInv
    <2>3. creating \in Uids \cup {None}
      BY DEF ProfileInv, TokenInv, Registered
    <2>4. user_created \in Seq(Uids) /\ offset \in 0 .. Len(user_created)
      BY DEF ProfileInv, PathInv
    <2> QED BY <2>1, <2>2, <2>3, <2>4 DEF TypeOK, PathInv
  <1> QED BY <1>1, TokenInvariant, ProfileInvariant, ChangeInvariant, PathInvariant, PTL
=============================================================================
