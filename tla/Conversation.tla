---------------------------- MODULE Conversation ----------------------------
(***************************************************************************)
(* One conversation of the conversation service after its creation:        *)
(* AddParticipant and RemoveParticipant, UpdateReadReceipt, NextSequence,  *)
(* and GetConversation with its Redis cache.  Conversations share nothing  *)
(* but the outbox counter.                                                 *)
(*                                                                         *)
(* Membership changes are serializable transactions (tx.Manager.WithTx)    *)
(* that lock the conversation's row but not its participants.  The         *)
(* snapshot is taken before the lock is waited for, so a transaction may   *)
(* decide on an old list of participants; PostgreSQL then refuses the      *)
(* commit of what it wrote.  UpdateReadReceipt and NextSequence talk to    *)
(* nothing but the database, and are single steps.                         *)
(***************************************************************************)
EXTENDS Integers, FiniteSets

CONSTANTS Users,
          Calls,       \* invocations of AddParticipant and RemoveParticipant
          Readers,     \* GetConversation calls that may run at the same time
          MaxRetries,  \* attempts of WithTx (5 in the code)
          MaxSequence, \* bound on NextSequence
          MaxReceipts, \* bound on UpdateReadReceipt
          NoEntry      \* the cache has no entry

Role    == {"none", "member", "admin"}
Roles   == [Users -> Role]
Command == [op : {"add", "remove"}, actor : Users, target : Users]
Event   == [id : Nat, kind : {"ADDED", "REMOVED", "READ"}, user : Users,
            sequence : Int]

ASSUME ConversationAssumption ==
    /\ MaxRetries \in Nat \ {0} /\ MaxSequence \in Nat /\ MaxReceipts \in Nat
    /\ NoEntry \notin Roles

VARIABLES
    type,           \* "direct" or "group"
    created,        \* the roles of the users when it was created
    role,           \* conversation_participants: the role of each user
    last_read,      \* conversation_participants.last_read_sequence
    next_sequence,  \* conversation_sequences.next_sequence
    outbox,         \* rows of outbox_events
    outbox_id,
    receipts,       \* UpdateReadReceipt calls so far
    cache,          \* conv:<id> in Redis
    cmd, pc, attempt,
    snapshot,       \* the participants a transaction sees
    event_id,
    rpc, fetched    \* GetConversation: where it is and what it read

callVars == <<cmd, pc, attempt, snapshot, event_id>>
readVars == <<rpc, fetched>>
rows     == <<type, created, role, last_read, next_sequence, outbox>>
vars     == <<rows, outbox_id, receipts, cache, callVars, readVars>>

Admins(r)       == {u \in Users : r[u] = "admin"}
Participants(r) == {u \in Users : r[u] # "none"}

\* What CreateConversation leaves: two members, or a group whose first
\* participant is the admin.
CreatedRoles(t) ==
    {r \in Roles : IF t = "direct"
                   THEN Admins(r) = {} /\ Cardinality(Participants(r)) = 2
                   ELSE Cardinality(Admins(r)) = 1}

TypeOK ==
    /\ type \in {"direct", "group"} /\ created \in Roles /\ role \in Roles
    /\ last_read \in [Users -> Nat] /\ next_sequence \in Nat
    /\ outbox \subseteq Event /\ outbox_id \in Nat /\ receipts \in 0 .. MaxReceipts
    /\ cache \in Roles \cup {NoEntry}
    /\ cmd \in [Calls -> Command]
    /\ pc \in [Calls -> {"begin", "lock", "locked", "invalidate", "commit",
                         "done", "failed"}]
    /\ attempt \in [Calls -> 1 .. MaxRetries]
    /\ snapshot \in [Calls -> Roles] /\ event_id \in [Calls -> Nat]
    /\ rpc \in [Readers -> {"idle", "miss", "fetched"}]
    /\ fetched \in [Readers -> Roles]

Init ==
    /\ type \in {"direct", "group"}
    /\ created \in CreatedRoles(type) /\ role = created
    /\ last_read = [u \in Users |-> 0]
    /\ next_sequence = 0   \* InitSequence
    /\ outbox = {} /\ outbox_id = 0 /\ receipts = 0
    /\ cache = NoEntry
    /\ cmd \in [Calls -> Command]
    /\ pc = [p \in Calls |-> "begin"]
    /\ attempt = [p \in Calls |-> 1]
    /\ snapshot = [p \in Calls |-> created]
    /\ event_id = [p \in Calls |-> 0]
    /\ rpc = [r \in Readers |-> "idle"]
    /\ fetched = [r \in Readers |-> created]

-----------------------------------------------------------------------------
(* AddParticipant and RemoveParticipant *)

\* The first statement, SELECT ... FOR UPDATE, takes the snapshot ...
BeginTx(p) ==
    /\ pc[p] = "begin"
    /\ pc' = [pc EXCEPT ![p] = "lock"]
    /\ snapshot' = [snapshot EXCEPT ![p] = role]
    /\ UNCHANGED <<rows, outbox_id, receipts, cache, cmd, attempt, event_id, readVars>>

\* Call q has the lock of the conversation's row.
HoldsLock(q) == pc[q] \in {"locked", "invalidate", "commit"}

\* ... and waits for the lock.  The row itself never changes.
GetConversationLocked(p) ==
    /\ pc[p] = "lock"
    /\ \A q \in Calls : ~HoldsLock(q)
    /\ pc' = [pc EXCEPT ![p] = "locked"]
    /\ UNCHANGED <<rows, outbox_id, receipts, cache, cmd, attempt, snapshot,
                   event_id, readVars>>

\* Groups only, and only admins.
Allowed(p) == type = "group" /\ snapshot[p][cmd[p].actor] = "admin"

\* Something to do: the target is not there yet, or still there.
Changes(p) == (snapshot[p][cmd[p].target] = "none") <=> (cmd[p].op = "add")

\* Mutant of LastAdmin: the admins are not counted.
NotLastAdmin(p) == FALSE

\* The removal of the only admin.
LastAdmin(p) == /\ cmd[p].op = "remove"
                /\ snapshot[p][cmd[p].target] = "admin"
                /\ Cardinality(Admins(snapshot[p])) <= 1

Reject(p) ==
    /\ pc[p] = "locked"
    /\ ~Allowed(p) \/ LastAdmin(p)
    /\ pc' = [pc EXCEPT ![p] = "failed"]
    /\ UNCHANGED <<rows, outbox_id, receipts, cache, cmd, attempt, snapshot,
                   event_id, readVars>>

\* Already added or already removed: success without a change.
NothingToDo(p) ==
    /\ pc[p] = "locked"
    /\ Allowed(p) /\ ~Changes(p)
    /\ pc' = [pc EXCEPT ![p] = "done"]
    /\ UNCHANGED <<rows, outbox_id, receipts, cache, cmd, attempt, snapshot,
                   event_id, readVars>>

\* InsertParticipant or DeleteParticipant, and InsertOutbox.
WriteRows(p) ==
    /\ pc[p] = "locked"
    /\ Allowed(p) /\ Changes(p) /\ ~LastAdmin(p)
    /\ pc' = [pc EXCEPT ![p] = "invalidate"]
    /\ outbox_id' = outbox_id + 1
    /\ event_id' = [event_id EXCEPT ![p] = outbox_id + 1]
    /\ UNCHANGED <<rows, receipts, cache, cmd, attempt, snapshot, readVars>>

\* The cache entry is deleted inside the transaction, before its commit.
InvalidateConversation(p) ==
    /\ pc[p] = "invalidate"
    /\ pc' = [pc EXCEPT ![p] = "commit"]
    /\ cache' = NoEntry
    /\ UNCHANGED <<rows, outbox_id, receipts, cmd, attempt, snapshot, event_id,
                   readVars>>

\* Mutant of Serializable: a weaker isolation level.
MaySkipCheck(p) == TRUE

\* Serializable: no participant was added or removed since the snapshot.
Serializable(p) == snapshot[p] = role

\* The commit takes effect; the caller may still see an error.
Commit(p) ==
    /\ pc[p] = "commit"
    /\ Serializable(p)
    /\ LET t == cmd[p].target IN
       /\ role' = [role EXCEPT ![t] = IF cmd[p].op = "add" THEN "member" ELSE "none"]
       /\ last_read' = [last_read EXCEPT ![t] = 0]
       /\ outbox' = outbox \cup
             {[id |-> event_id[p], user |-> t, sequence |-> 0,
               kind |-> IF cmd[p].op = "add" THEN "ADDED" ELSE "REMOVED"]}
    /\ pc' \in {[pc EXCEPT ![p] = "done"], [pc EXCEPT ![p] = "failed"]}
    /\ UNCHANGED <<type, created, next_sequence, outbox_id, receipts, cache, cmd,
                   attempt, snapshot, event_id, readVars>>

\* "could not serialize": roll back and start again, MaxRetries attempts in all.
SerializationFailure(p) ==
    /\ pc[p] \in {"lock", "locked", "commit"}
    /\ \/ /\ attempt[p] < MaxRetries
          /\ pc' = [pc EXCEPT ![p] = "begin"]
          /\ attempt' = [attempt EXCEPT ![p] = @ + 1]
       \/ /\ attempt[p] = MaxRetries
          /\ pc' = [pc EXCEPT ![p] = "failed"]
          /\ UNCHANGED attempt
    /\ UNCHANGED <<rows, outbox_id, receipts, cache, cmd, snapshot, event_id, readVars>>

\* Any other error, a deadline or a crash.
Abort(p) ==
    /\ pc[p] \notin {"done", "failed"}
    /\ pc' = [pc EXCEPT ![p] = "failed"]
    /\ UNCHANGED <<rows, outbox_id, receipts, cache, cmd, attempt, snapshot,
                   event_id, readVars>>

-----------------------------------------------------------------------------
(* Sequence numbers and read receipts *)

NextSequence ==
    /\ next_sequence < MaxSequence
    /\ next_sequence' = next_sequence + 1
    /\ UNCHANGED <<type, created, role, last_read, outbox, outbox_id, receipts,
                   cache, callVars, readVars>>

\* SELECT next_sequence - 1.
GetCurrentMaxSequence == next_sequence - 1

\* Mutant of Clamped: the number is taken as it comes.
Unclamped(n) == n

\* A client cannot claim more than there is.
Clamped(n) == IF n > GetCurrentMaxSequence THEN GetCurrentMaxSequence ELSE n

\* Mutant of Greatest: SET last_read_sequence = $3.
LastWriteWins(a, b) == b

Greatest(a, b) == IF a >= b THEN a ELSE b

\* The row is updated if the user is a participant; the event is written in
\* any case.
UpdateReadReceipt(u, n) ==
    /\ receipts < MaxReceipts
    /\ receipts' = receipts + 1
    /\ last_read' = IF role[u] = "none" THEN last_read
                    ELSE [last_read EXCEPT ![u] = Greatest(@, Clamped(n))]
    /\ outbox_id' = outbox_id + 1
    /\ outbox' = outbox \cup {[id |-> outbox_id + 1, kind |-> "READ", user |-> u,
                               sequence |-> Clamped(n)]}
    /\ UNCHANGED <<type, created, role, next_sequence, cache, callVars, readVars>>

-----------------------------------------------------------------------------
(* GetConversation.  A hit returns the entry and changes nothing. *)

CacheMiss(r) ==
    /\ rpc[r] = "idle" /\ cache = NoEntry
    /\ rpc' = [rpc EXCEPT ![r] = "miss"]
    /\ UNCHANGED <<rows, outbox_id, receipts, cache, callVars, fetched>>

FetchConversation(r) ==
    /\ rpc[r] = "miss"
    /\ rpc' = [rpc EXCEPT ![r] = "fetched"]
    /\ fetched' = [fetched EXCEPT ![r] = role]
    /\ UNCHANGED <<rows, outbox_id, receipts, cache, callVars>>

\* SetConversation; an error of Redis is ignored.
SetConversation(r) ==
    /\ rpc[r] = "fetched"
    /\ rpc' = [rpc EXCEPT ![r] = "idle"]
    /\ cache' \in {fetched[r], cache}
    /\ UNCHANGED <<rows, outbox_id, receipts, callVars, fetched>>

\* Mutant of Expire: SET without a time to live.
NeverExpires == FALSE /\ UNCHANGED vars

\* The entry's time to live (10 minutes) is over.
Expire ==
    /\ cache # NoEntry
    /\ cache' = NoEntry
    /\ UNCHANGED <<rows, outbox_id, receipts, callVars, readVars>>

-----------------------------------------------------------------------------
CallStep(p) ==
    \/ BeginTx(p) \/ GetConversationLocked(p)
    \/ Reject(p) \/ NothingToDo(p) \/ WriteRows(p)
    \/ InvalidateConversation(p) \/ Commit(p)
    \/ SerializationFailure(p) \/ Abort(p)

ReadStep(r) == CacheMiss(r) \/ FetchConversation(r) \/ SetConversation(r)

Next ==
    \/ \E p \in Calls : CallStep(p)
    \/ NextSequence
    \/ \E u \in Users, n \in 0 .. MaxSequence : UpdateReadReceipt(u, n)
    \/ \E r \in Readers : ReadStep(r)
    \/ Expire

Spec == Init /\ [][Next]_vars

\* Redis expires entries, and a GetConversation that has begun goes on.
FairSpec == /\ Spec /\ WF_vars(Expire)
            /\ \A r \in Readers : WF_vars(FetchConversation(r) \/ SetConversation(r))
-----------------------------------------------------------------------------
(* Properties *)

\* domain/conversation.go: a direct conversation has exactly two participants,
\* a group at least one admin, whatever calls race.
MembershipInvariants ==
    IF type = "direct" THEN Cardinality(Participants(role)) = 2 ELSE Admins(role) # {}

MembershipEvents(u) == {e \in outbox : e.user = u /\ e.kind \in {"ADDED", "REMOVED"}}

EventsBelow(u, n) == {e \in MembershipEvents(u) : e.id < n}

\* User u is inside after the events with ids below n.
Inside(u, n) ==
    IF EventsBelow(u, n) = {} THEN created[u] # "none"
    ELSE (CHOOSE e \in EventsBelow(u, n) :
             \A f \in EventsBelow(u, n) : f.id <= e.id).kind = "ADDED"

\* The membership events of a user, taken in the order of their outbox ids,
\* lead from the created conversation to the present one, and each changes
\* something: ADDED for one outside, REMOVED for one inside.  The consumers of
\* the events (the delivery service) rebuild the participants from them.
EventsReplayMembership ==
    \A u \in Users :
        /\ Inside(u, outbox_id + 1) <=> role[u] # "none"
        /\ \A e \in MembershipEvents(u) : Inside(u, e.id) <=> e.kind = "REMOVED"

Atomic == INSTANCE Membership

\* AddParticipant, RemoveParticipant, UpdateReadReceipt and NextSequence
\* implement the atomic steps of Membership, although the first two decide on
\* a snapshot taken before they wait for the lock.
MembershipSpec == Atomic!Spec

\* No read receipt, stored or published, is beyond the sequence numbers given
\* out, whatever clients claim.
ReadWithinSequence ==
    /\ \A u \in Users : last_read[u] <= next_sequence
    /\ \A e \in outbox : e.sequence <= next_sequence

\* A participant's read receipt never goes back while it stays a participant,
\* even if its receipts arrive out of order.
ReceiptNeverGoesBack ==
    [][\A u \in Users : role[u] # "none" /\ role'[u] # "none"
                           => last_read'[u] >= last_read[u]]_vars

\* An entry that a GetConversation racing with a change left behind does not
\* stay for ever: from some point on the cache agrees with the database.
CacheEventuallyCurrent == <>[](cache \in {NoEntry, role})

\* services/conversation/README.md: "ensure `sender_id` is an active member".
\* While no change of membership is in progress, the participants the message
\* service is given are those of conversation_participants.
MembershipCheckIsCurrent ==
    (\A p \in Calls : pc[p] \in {"begin", "done", "failed"})
        => cache \in {NoEntry, role}

\* POSTMAN_TESTING_EXECUTION.md: the sequence of a read receipt "should equal
\* the highest sequence number the user has read".  A participant that reports
\* a number that was given out has it recorded.
ReceiptRecorded ==
    [][\A u \in Users, n \in 0 .. MaxSequence :
          UpdateReadReceipt(u, n) /\ role[u] # "none" /\ n <= next_sequence
             => last_read'[u] >= n]_vars
=============================================================================
