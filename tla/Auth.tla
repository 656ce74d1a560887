-------------------------------- MODULE Auth --------------------------------
(***************************************************************************)
(* The auth service: Register, Login, Refresh and Logout over the tables   *)
(* users, refresh_tokens and outbox_events.  A user and a refresh token    *)
(* are named by the call that made them (uuid.NewString, RandomToken).  A  *)
(* register runs in a transaction; the other calls are single statements,  *)
(* between which anything may happen.                                      *)
(***************************************************************************)
EXTENDS Naturals, FiniteSets

CONSTANTS AuthCalls, Emails, Passwords,
          FirstUser, FirstToken,  \* a user that is registered and logged in
          None

Uids   == AuthCalls \cup {FirstUser}
Tokens == AuthCalls \cup {FirstToken}

ASSUME AuthAssumption ==
    /\ FirstUser \notin AuthCalls /\ FirstToken \notin AuthCalls
    /\ None \notin Uids \cup Tokens /\ Emails # {} /\ Passwords # {}

VARIABLES
    users,           \* rows of users
    refresh_tokens,  \* rows of refresh_tokens
    outbox_events,   \* the users whose USER_CREATED row is committed
    call             \* what each call was asked, and where it is; history: whether its
                     \* token was dead when it came, and it ignored an error of
                     \* RevokeRefresh

authVars == <<users, refresh_tokens, outbox_events, call>>

NoCall == [op |-> "none", pc |-> "idle", email |-> None, password |-> None,
           token |-> None, user |-> None, dead |-> FALSE, ignored |-> FALSE]

AuthTypeOK ==
    /\ users \subseteq [id : Uids, email : Emails, hash : Passwords]
    /\ refresh_tokens \subseteq [id : Tokens, user : Uids,
                                 revoked : BOOLEAN, expired : BOOLEAN]
    /\ outbox_events \subseteq Uids
    /\ call \in [AuthCalls ->
                    [op : {"none", "register", "login", "refresh", "logout"},
                     pc : {"idle", "start", "commit", "revoke", "save",
                           "done", "refused", "failed"},
                     email : Emails \cup {None}, password : Passwords \cup {None},
                     token : Tokens \cup {None}, user : Uids \cup {None},
                     dead : BOOLEAN, ignored : BOOLEAN]]

AuthInit ==
    /\ users = {[id |-> FirstUser, email |-> CHOOSE e \in Emails : TRUE,
                 hash |-> CHOOSE w \in Passwords : TRUE]}
    /\ refresh_tokens = {[id |-> FirstToken, user |-> FirstUser,
                          revoked |-> FALSE, expired |-> FALSE]}
    /\ outbox_events = {FirstUser}
    /\ call = [p \in AuthCalls |-> NoCall]

Go(p, pc) == call' = [call EXCEPT ![p].pc = pc]

\* A refresh or a logout with token t was answered with success.
Spent(t) ==
    \E q \in AuthCalls : /\ call[q].op \in {"refresh", "logout"} /\ call[q].token = t
                         /\ call[q].pc = "done"
-----------------------------------------------------------------------------
(* The clients' requests *)

AskRegister(p, e, w) ==
    /\ call[p].pc = "idle"
    /\ call' = [call EXCEPT ![p] = [NoCall EXCEPT !.op = "register", !.pc = "start",
                                                  !.email = e, !.password = w]]
    /\ UNCHANGED <<users, refresh_tokens, outbox_events>>

AskLogin(p, e, w) ==
    /\ call[p].pc = "idle"
    /\ call' = [call EXCEPT ![p] = [NoCall EXCEPT !.op = "login", !.pc = "start",
                                                  !.email = e, !.password = w]]
    /\ UNCHANGED <<users, refresh_tokens, outbox_events>>

\* A token that was issued, valid or not.
AskWithToken(p, op, t) ==
    /\ call[p].pc = "idle" /\ \E r \in refresh_tokens : r.id = t
    /\ call' = [call EXCEPT ![p] = [NoCall EXCEPT !.op = op, !.pc = "start",
                                                  !.token = t, !.dead = Spent(t)]]
    /\ UNCHANGED <<users, refresh_tokens, outbox_events>>

-----------------------------------------------------------------------------
(* Register *)

\* The open transaction of a register has the email in the unique index, and
\* makes other inserts of the same email wait.
HoldsEmail(p, e) == call[p].op = "register" /\ call[p].pc = "commit" /\ call[p].email = e

\* InsertOutbox: the USER_CREATED row of the user.
InsertOutbox(p) == outbox_events' = outbox_events \cup {p}

\* Mutant of CreateUser: the outbox row is inserted outside the transaction.
CreateUserOutboxOutsideTx(p) ==
    /\ call[p].op = "register" /\ call[p].pc = "start"
    /\ \A q \in AuthCalls : ~HoldsEmail(q, call[p].email)
    /\ Go(p, IF \E r \in users : r.email = call[p].email THEN "refused" ELSE "commit")
    /\ InsertOutbox(p)
    /\ UNCHANGED <<users, refresh_tokens>>

\* CreateUser and InsertOutbox, in the transaction.
CreateUser(p) ==
    /\ call[p].op = "register" /\ call[p].pc = "start"
    /\ \A q \in AuthCalls : ~HoldsEmail(q, call[p].email)
    /\ Go(p, IF \E r \in users : r.email = call[p].email THEN "refused" ELSE "commit")
    /\ UNCHANGED <<users, refresh_tokens, outbox_events>>

CommitRegister(p) ==
    /\ call[p].op = "register" /\ call[p].pc = "commit"
    /\ users' = users \cup {[id |-> p, email |-> call[p].email, hash |-> call[p].password]}
    /\ InsertOutbox(p)
    /\ Go(p, "done")
    /\ UNCHANGED refresh_tokens

-----------------------------------------------------------------------------
(* Login, Refresh and Logout *)

\* The hash of the password is the password of the user.
ComparePassword(r, w) == r.hash = w

\* GetUserByEmail and ComparePassword: one error for both.
CheckPassword(p) ==
    LET found == {r \in users : r.email = call[p].email
                               /\ ComparePassword(r, call[p].password)} IN
    /\ call[p].op = "login" /\ call[p].pc = "start"
    /\ call' = IF found = {} THEN [call EXCEPT ![p].pc = "refused"]
               ELSE [call EXCEPT ![p].pc = "save", ![p].user = (CHOOSE r \in found : TRUE).id]
    /\ UNCHANGED <<users, refresh_tokens, outbox_events>>

\* Mutant of Usable: GetRefresh forgets revoked_at.
UsableUntilExpired(r) == ~r.expired

\* GetRefresh finds the token, and it has not expired.
Usable(r) == ~r.revoked /\ ~r.expired

GetRefresh(p) ==
    LET found == {r \in refresh_tokens : r.id = call[p].token /\ Usable(r)} IN
    /\ call[p].op = "refresh" /\ call[p].pc = "start"
    /\ call' = IF found = {} THEN [call EXCEPT ![p].pc = "refused"]
               ELSE [call EXCEPT ![p].pc = "revoke", ![p].user = (CHOOSE r \in found : TRUE).user]
    /\ UNCHANGED <<users, refresh_tokens, outbox_events>>

Revoked(t) == {IF r.id = t THEN [r EXCEPT !.revoked = TRUE] ELSE r : r \in refresh_tokens}

\* RevokeRefresh is done, or its error is ignored; call p goes on at pc.
RevokeOrIgnore(p, pc) ==
    \/ refresh_tokens' = Revoked(call[p].token) /\ Go(p, pc)
    \/ /\ call' = [call EXCEPT ![p].pc = pc, ![p].ignored = TRUE]
       /\ UNCHANGED refresh_tokens

\* Refresh ignores the error.
RevokeRefresh(p) ==
    /\ call[p].op = "refresh" /\ call[p].pc = "revoke"
    /\ RevokeOrIgnore(p, "save")
    /\ UNCHANGED <<users, outbox_events>>

\* The end of Login and Refresh: a new token.
SaveRefresh(p) ==
    /\ call[p].pc = "save"
    /\ refresh_tokens' = refresh_tokens \cup
          {[id |-> p, user |-> call[p].user, revoked |-> FALSE, expired |-> FALSE]}
    /\ Go(p, "done")
    /\ UNCHANGED <<users, outbox_events>>

\* Logout: the HTTP handler answers 204 also when the statement failed; that of
\* gRPC, which the gateway calls, returns the error (AuthFails).
Logout(p) ==
    /\ call[p].op = "logout" /\ call[p].pc = "start"
    /\ RevokeOrIgnore(p, "done")
    /\ UNCHANGED <<users, outbox_events>>

-----------------------------------------------------------------------------
(* Failures *)

\* A statement fails, or the request times out: an open transaction is rolled
\* back, what was already written stays.
AuthFails(p) ==
    /\ call[p].pc \in {"start", "commit", "revoke", "save"}
    /\ Go(p, "failed")
    /\ UNCHANGED <<users, refresh_tokens, outbox_events>>

\* RefreshTokenTTL is over.
TokenExpires(t) ==
    /\ \E r \in refresh_tokens : r.id = t /\ ~r.expired
    /\ refresh_tokens' = {IF r.id = t THEN [r EXCEPT !.expired = TRUE] ELSE r :
                             r \in refresh_tokens}
    /\ UNCHANGED <<users, outbox_events, call>>

-----------------------------------------------------------------------------
AskAuth(p) ==
    \/ \E e \in Emails, w \in Passwords : AskRegister(p, e, w) \/ AskLogin(p, e, w)
    \/ \E t \in Tokens, op \in {"refresh", "logout"} : AskWithToken(p, op, t)

AuthStep(p) ==
    \/ CreateUser(p) \/ CommitRegister(p) \/ CheckPassword(p) \/ GetRefresh(p)
    \/ RevokeRefresh(p) \/ SaveRefresh(p) \/ Logout(p)

-----------------------------------------------------------------------------
(* Properties *)

\* Call p got a session for a token that was used or logged out before it came.
Revived(p) == call[p].op = "refresh" /\ call[p].dead /\ call[p].pc = "done"

\* A refresh token that was already used or logged out when a call came gives no
\* new session, whatever runs at the same time, unless an earlier call with it
\* ignored that it could not be revoked.  (Two calls that both come before the
\* token is used may both get one: GetRefresh and RevokeRefresh are two
\* statements.)
DeadTokenStaysDead ==
    \A p \in AuthCalls : Revived(p) =>
        \E q \in AuthCalls \ {p} : call[q].token = call[p].token /\ call[q].ignored

\* What services/auth/README.md says of refresh tokens: they are consumed on each
\* use, and logging out revokes them.
UsedTokenStaysDead == \A p \in AuthCalls : ~Revived(p)
=============================================================================
