------------------------- MODULE ConversationProofs -------------------------
(***************************************************************************)
(* Proofs about Conversation, for any sets of users, calls and readers and *)
(* any number of attempts, receipts and sequence numbers.                  *)
(***************************************************************************)
EXTENDS Conversation, FiniteSetTheorems, TLAPS

-----------------------------------------------------------------------------
(* The inductive invariant *)

\* The lock of the conversation's row is exclusive.
LockInv == \A p, q \in Calls : HoldsLock(p) /\ HoldsLock(q) => p = q

\* Call p has written its rows, and its transaction is open.
Writes(p) == pc[p] \in {"invalidate", "commit"}

\* What a call has written, it was allowed to write on its snapshot.
WriteInv == \A p \in Calls : Writes(p) => Allowed(p) /\ Changes(p) /\ ~LastAdmin(p)

IsMembership(e) == e.kind \in {"ADDED", "REMOVED"}

\* Ids are given out once, and in the order in which the calls that hold the
\* lock commit.
EventIdInv ==
    /\ \A e \in outbox : e.id <= outbox_id
    /\ \A p \in Calls : Writes(p) =>
          /\ event_id[p] <= outbox_id
          /\ \A e \in outbox : e.id # event_id[p] /\ (IsMembership(e) => e.id < event_id[p])

\* A direct conversation keeps the participants it was created with.
DirectInv == /\ created \in CreatedRoles(type)
             /\ type = "direct" => role = created

MembershipInv == DirectInv /\ MembershipInvariants

IInv == /\ TypeOK /\ LockInv /\ WriteInv /\ EventIdInv /\ MembershipInv
        /\ EventsReplayMembership /\ ReadWithinSequence

-----------------------------------------------------------------------------
(* Types *)

\* Every step keeps the variables in their types.
LEMMA TypeStep ==
    ASSUME TypeOK, [Next]_vars
    PROVE  TypeOK'
  <1> USE ConversationAssumption
  <1>1. ASSUME NEW p \in Calls,
               \/ BeginTx(p) \/ GetConversationLocked(p) \/ Reject(p)
               \/ NothingToDo(p) \/ InvalidateConversation(p) \/ Abort(p)
        PROVE  TypeOK'
    BY <1>1 DEF BeginTx, GetConversationLocked, Reject, NothingToDo,
          InvalidateConversation, Abort, TypeOK, rows, readVars
  <1>2. ASSUME NEW p \in Calls, WriteRows(p)
        PROVE  TypeOK'
    BY <1>2 DEF WriteRows, TypeOK, rows, readVars
  <1>3. ASSUME NEW p \in Calls, Commit(p)
        PROVE  TypeOK'
    <2>1. cmd[p].target \in Users /\ event_id[p] \in Nat
      BY DEF TypeOK, Command
    <2>2. role' \in Roles /\ last_read' \in [Users -> Nat]
      BY <1>3, <2>1 DEF Commit, TypeOK, Roles, Role
    <2>3. outbox' \subseteq Event
      BY <1>3, <2>1 DEF Commit, TypeOK, Event
    <2>4. pc' \in [Calls -> {"begin", "lock", "locked", "invalidate", "commit",
                             "done", "failed"}]
      BY <1>3 DEF Commit, TypeOK
    <2> QED BY <1>3, <2>2, <2>3, <2>4 DEF Commit, TypeOK, readVars
  <1>4. ASSUME NEW p \in Calls, SerializationFailure(p)
        PROVE  TypeOK'
    <2>1. attempt' \in [Calls -> 1 .. MaxRetries]
      BY <1>4 DEF SerializationFailure, TypeOK
    <2> QED BY <1>4, <2>1 DEF SerializationFailure, TypeOK, rows, readVars
  <1>5. CASE NextSequence
    BY <1>5 DEF NextSequence, TypeOK, callVars, readVars
  <1>6. ASSUME NEW u \in Users, NEW n \in 0 .. MaxSequence, UpdateReadReceipt(u, n)
        PROVE  TypeOK'
    <2>1. Clamped(n) \in Int /\ \A a \in Nat : Greatest(a, Clamped(n)) \in Nat
      BY DEF Clamped, GetCurrentMaxSequence, Greatest, TypeOK
    <2>2. last_read' \in [Users -> Nat]
      BY <1>6, <2>1 DEF UpdateReadReceipt, TypeOK
    <2>3. outbox' \subseteq Event
      BY <1>6, <2>1 DEF UpdateReadReceipt, TypeOK, Event
    <2> QED BY <1>6, <2>2, <2>3 DEF UpdateReadReceipt, TypeOK, callVars, readVars
  <1>7. ASSUME NEW r \in Readers, ReadStep(r)
        PROVE  TypeOK'
    BY <1>7 DEF ReadStep, CacheMiss, FetchConversation, SetConversation, TypeOK,
          rows, callVars
  <1>8. CASE Expire
    BY <1>8 DEF Expire, TypeOK, rows, callVars, readVars
  <1>9. CASE UNCHANGED vars
    BY <1>9 DEF vars, TypeOK, rows, callVars, readVars
  <1> QED BY <1>1, <1>2, <1>3, <1>4, <1>5, <1>6, <1>7, <1>8, <1>9
          DEF Next, CallStep

\* The type invariant holds in every reachable state.
THEOREM TypeCorrect == Spec => []TypeOK
  <1>1. Init => TypeOK
    BY ConversationAssumption DEF Init, TypeOK, CreatedRoles
  <1>2. TypeOK /\ [Next]_vars => TypeOK'
    BY TypeStep
  <1> QED BY <1>1, <1>2, PTL DEF Spec

-----------------------------------------------------------------------------
(* Membership changes *)

\* The lock is given to one call at a time, and what a call may write is decided
\* on its own snapshot, which nobody else changes.
LEMMA WriteStep ==
    ASSUME TypeOK, LockInv, WriteInv, [Next]_vars
    PROVE  LockInv' /\ WriteInv'
  <1> USE DEF HoldsLock, Writes
  <1>1. ASSUME NEW p \in Calls, CallStep(p)
        PROVE  LockInv' /\ WriteInv'
    <2>1. cmd' = cmd /\ type' = type
          /\ \A q \in Calls \ {p} : pc'[q] = pc[q] /\ snapshot'[q] = snapshot[q]
      BY <1>1 DEF CallStep, BeginTx, GetConversationLocked, Reject, NothingToDo,
         WriteRows, InvalidateConversation, Commit, SerializationFailure, Abort,
         TypeOK, rows
    <2>2. HoldsLock(p)' => HoldsLock(p) \/ \A q \in Calls : ~HoldsLock(q)
      BY <1>1 DEF CallStep, BeginTx, GetConversationLocked, Reject, NothingToDo,
         WriteRows, InvalidateConversation, Commit, SerializationFailure, Abort,
         TypeOK
    <2>3. LockInv'
      BY <2>1, <2>2 DEF LockInv
    <2>4. Writes(p)' => /\ snapshot' = snapshot
                        /\ Writes(p) \/ (Allowed(p) /\ Changes(p) /\ ~LastAdmin(p))
      BY <1>1 DEF CallStep, BeginTx, GetConversationLocked, Reject, NothingToDo,
         WriteRows, InvalidateConversation, Commit, SerializationFailure, Abort,
         TypeOK
    <2>5. WriteInv'
      BY <2>1, <2>4 DEF WriteInv, Allowed, Changes, LastAdmin
    <2> QED BY <2>3, <2>5
  <1>2. CASE UNCHANGED <<type, callVars>>
    BY <1>2 DEF callVars, LockInv, WriteInv, Allowed, Changes, LastAdmin
  <1> QED BY <1>1, <1>2
          DEF Next, NextSequence, UpdateReadReceipt, ReadStep, CacheMiss,
              FetchConversation, SetConversation, Expire, vars, rows

\* A step that is no commit changes neither the participants nor the membership
\* events.
LEMMA NoCommit ==
    ASSUME TypeOK, [Next]_vars, \A p \in Calls : ~Commit(p)
    PROVE  /\ UNCHANGED <<type, created, role>>
           /\ outbox \subseteq outbox'
           /\ \A e \in outbox' \ outbox : ~IsMembership(e) /\ e.id = outbox_id + 1
                                          /\ outbox_id' = outbox_id + 1
           /\ outbox_id' \in {outbox_id, outbox_id + 1}
  <1>1. ASSUME NEW p \in Calls, CallStep(p)
        PROVE  UNCHANGED rows /\ outbox_id' \in {outbox_id, outbox_id + 1}
    BY <1>1 DEF CallStep, BeginTx, GetConversationLocked, Reject, NothingToDo,
         WriteRows, InvalidateConversation, SerializationFailure, Abort
  <1>2. ASSUME NEW u \in Users, NEW n \in 0 .. MaxSequence, UpdateReadReceipt(u, n)
        PROVE  /\ UNCHANGED <<type, created, role>> /\ outbox_id' = outbox_id + 1
               /\ outbox \subseteq outbox'
               /\ \A e \in outbox' \ outbox : ~IsMembership(e) /\ e.id = outbox_id + 1
    BY <1>2 DEF UpdateReadReceipt, IsMembership
  <1>3. CASE UNCHANGED <<type, created, role, outbox, outbox_id>>
    BY <1>3
  <1> QED BY <1>1, <1>2, <1>3
          DEF Next, NextSequence, ReadStep, CacheMiss,
              FetchConversation, SetConversation, Expire, vars, rows

\* Ids of membership events grow in the order of the commits: a call takes its
\* id when it has the lock, and keeps the lock until it commits.
LEMMA EventIdStep ==
    ASSUME TypeOK, TypeOK', LockInv, EventIdInv, [Next]_vars
    PROVE  EventIdInv'
  <1> USE DEF HoldsLock, Writes
  <1>1. ASSUME NEW p \in Calls, Commit(p)
        PROVE  EventIdInv'
    <2>1. /\ outbox_id' = outbox_id /\ event_id' = event_id
          /\ \A e \in outbox' : e \in outbox \/ e.id = event_id[p]
      BY <1>1 DEF Commit
    <2>2. ~Writes(p)' /\ \A q \in Calls \ {p} : ~Writes(q)'
      BY <1>1 DEF Commit, LockInv, TypeOK
    <2>3. event_id[p] <= outbox_id
      BY <1>1 DEF Commit, EventIdInv
    <2> QED BY <2>1, <2>2, <2>3 DEF EventIdInv
  <1>2. ASSUME \A p \in Calls : ~Commit(p)
        PROVE  EventIdInv'
    <2>1. outbox_id \in Nat /\ outbox_id' \in Nat /\ \A e \in outbox : e.id \in Nat
      BY DEF TypeOK, Event
    <2>2. \A e \in outbox' : e.id <= outbox_id'
      BY <1>2, <2>1, NoCommit DEF EventIdInv
    <2>3. ASSUME NEW p \in Calls, Writes(p)'
          PROVE  /\ event_id'[p] <= outbox_id'
                 /\ \A e \in outbox' : /\ e.id # event_id'[p]
                                       /\ IsMembership(e) => e.id < event_id'[p]
      <3>1. CASE WriteRows(p)
        BY <3>1, <2>1 DEF WriteRows, EventIdInv, TypeOK, rows
      <3>2. CASE ~WriteRows(p)
        <4>1. Writes(p) /\ event_id'[p] = event_id[p]
          BY <1>2, <2>3, <3>2 DEF Next, CallStep, BeginTx, GetConversationLocked,
             Reject, NothingToDo, WriteRows, InvalidateConversation,
             SerializationFailure, Abort, TypeOK, NextSequence, UpdateReadReceipt,
             ReadStep, CacheMiss, FetchConversation, SetConversation, Expire, vars,
             callVars
        <4>2. event_id[p] \in Nat
          BY DEF TypeOK
        <4> QED BY <1>2, <2>1, <4>1, <4>2, NoCommit DEF EventIdInv
      <3> QED BY <3>1, <3>2
    <2> QED BY <2>2, <2>3 DEF EventIdInv
  <1> QED BY <1>1, <1>2

\* The rules of membership: a commit is decided on the participants it finds,
\* because the database refuses it otherwise, and the last admin stays.
LEMMA MembershipStep ==
    ASSUME TypeOK, WriteInv, MembershipInv, [Next]_vars
    PROVE  MembershipInv'
  <1>1. ASSUME NEW p \in Calls, Commit(p)
        PROVE  MembershipInv'
    <2>1. /\ UNCHANGED <<type, created>> /\ snapshot[p] = role
          /\ role' = [role EXCEPT ![cmd[p].target] =
                         IF cmd[p].op = "add" THEN "member" ELSE "none"]
      BY <1>1 DEF Commit, Serializable
    <2>2. type = "group" /\ Changes(p) /\ ~LastAdmin(p)
      BY <1>1 DEF Commit, WriteInv, Writes, Allowed
    <2>3. cmd[p].target \in Users /\ cmd[p].op \in {"add", "remove"} /\ role \in Roles
      BY DEF TypeOK, Command
    <2>4. Admins(role) # {}
      BY <2>2 DEF MembershipInv, MembershipInvariants
    <2>5. Admins(role)' # {}
      <3>1. CASE role[cmd[p].target] # "admin"
        BY <2>1, <2>3, <2>4, <3>1 DEF Admins, Roles
      <3>2. CASE role[cmd[p].target] = "admin"
        <4>1. cmd[p].op = "remove"
          BY <2>1, <2>2, <2>3, <3>2 DEF Changes
        <4>2. Admins(role) # {cmd[p].target}
          BY <2>1, <2>2, <3>2, <4>1, FS_Singleton DEF LastAdmin
        <4>3. PICK a \in Users : role[a] = "admin" /\ a # cmd[p].target
          BY <2>3, <2>4, <4>2, <3>2 DEF Admins
        <4> QED BY <2>1, <2>3, <4>3 DEF Admins, Roles
      <3> QED BY <3>1, <3>2
    <2> QED BY <2>1, <2>2, <2>5 DEF MembershipInv, DirectInv, MembershipInvariants
  <1>2. ASSUME \A p \in Calls : ~Commit(p)
        PROVE  MembershipInv'
    BY <1>2, NoCommit DEF MembershipInv, DirectInv, MembershipInvariants
  <1> QED BY <1>1, <1>2

\* A user that is inside after all events so far: whatever comes later is not
\* among them.
LEMMA InsideNow ==
    ASSUME TypeOK, EventIdInv, NEW u, NEW n \in Nat, n > outbox_id
    PROVE  EventsBelow(u, n) = MembershipEvents(u)
  BY DEF TypeOK, Event, EventIdInv, EventsBelow, MembershipEvents

\* The events go on telling the story of the table.
LEMMA ReplayStep ==
    ASSUME TypeOK, TypeOK', WriteInv, EventIdInv, EventIdInv', EventsReplayMembership,
           [Next]_vars
    PROVE  EventsReplayMembership'
  <1> USE DEF IsMembership
  <1>0. outbox_id \in Nat /\ outbox_id' \in Nat /\ \A e \in outbox : e.id \in Nat
    BY DEF TypeOK, Event
  <1>1. ASSUME NEW p \in Calls, Commit(p)
        PROVE  EventsReplayMembership'
    <2>1. PICK t \in Users, new \in Event :
             /\ UNCHANGED <<created, outbox_id>>
             /\ new.user = t /\ new.kind = IF role[t] = "none" THEN "ADDED" ELSE "REMOVED"
             /\ role' = [role EXCEPT ![t] = IF role[t] = "none" THEN "member" ELSE "none"]
             /\ outbox' = outbox \cup {new}
             /\ new.id = event_id[p]
      <3> DEFINE t == cmd[p].target
                 new == [id |-> event_id[p], user |-> t, sequence |-> 0,
                         kind |-> IF cmd[p].op = "add" THEN "ADDED" ELSE "REMOVED"]
      <3>1. t \in Users /\ cmd[p].op \in {"add", "remove"} /\ event_id[p] \in Nat
        BY DEF TypeOK, Command
      <3>2. (role[t] = "none") <=> (cmd[p].op = "add")
        BY <1>1 DEF Commit, Serializable, WriteInv, Writes, Changes
      <3>3. new \in Event
        BY <3>1 DEF Event
      <3>4. /\ UNCHANGED <<created, outbox_id>>
            /\ role' = [role EXCEPT ![t] = IF cmd[p].op = "add" THEN "member" ELSE "none"]
            /\ outbox' = outbox \cup {new}
        BY <1>1 DEF Commit
      <3> QED BY <3>1, <3>2, <3>3, <3>4
    <2>2. new.id \in Nat /\ new.kind \in {"ADDED", "REMOVED"}
      BY <2>1 DEF Event
    <2>4. /\ new.id <= outbox_id
          /\ \A e \in outbox : IsMembership(e) => e.id < new.id
      BY <1>1, <2>1 DEF Commit, EventIdInv, Writes
    <2>5. ASSUME NEW u \in Users, u # t
          PROVE  /\ Inside(u, outbox_id + 1)' <=> role'[u] # "none"
                 /\ \A e \in MembershipEvents(u)' : Inside(u, e.id)' <=> e.kind = "REMOVED"
      <3>1. MembershipEvents(u)' = MembershipEvents(u)
        BY <2>1, <2>5 DEF MembershipEvents
      <3>2. \A n : EventsBelow(u, n)' = EventsBelow(u, n)
        BY <3>1 DEF EventsBelow
      <3>3. ASSUME NEW n
            PROVE  Inside(u, n)' <=> Inside(u, n)
        <4>1. EventsBelow(u, n)' = EventsBelow(u, n)
          BY <3>2
        <4>2. created' = created
          BY <2>1
        <4> QED BY <4>1, <4>2, Zenon DEF Inside
      <3>4. role'[u] = role[u]
        BY <2>1, <2>5 DEF TypeOK, Roles
      <3> QED BY <2>1, <3>1, <3>3, <3>4 DEF EventsReplayMembership
    <2>6. MembershipEvents(t)' = MembershipEvents(t) \cup {new}
      BY <2>1 DEF MembershipEvents
    <2>7. \A e \in MembershipEvents(t) : e.id < new.id /\ e.id \in Nat
      BY <1>0, <2>4 DEF MembershipEvents
    <2>8. /\ EventsBelow(t, outbox_id + 1)' = MembershipEvents(t) \cup {new}
          /\ EventsBelow(t, new.id)' = MembershipEvents(t)
          /\ EventsBelow(t, outbox_id + 1) = MembershipEvents(t)
          /\ \A e \in MembershipEvents(t) : EventsBelow(t, e.id)' = EventsBelow(t, e.id)
      BY <1>0, <2>1, <2>2, <2>4, <2>6, <2>7 DEF EventsBelow
    <2>9. Inside(t, outbox_id + 1)' <=> role'[t] # "none"
      <3>1. \A f \in MembershipEvents(t) \cup {new} : f.id <= new.id
        BY <2>2, <2>7
      <3>2. \A e \in MembershipEvents(t) \cup {new} :
               (\A f \in MembershipEvents(t) \cup {new} : f.id <= e.id) => e = new
        BY <2>2, <2>7
      <3>3. (CHOOSE e \in MembershipEvents(t) \cup {new} :
                \A f \in MembershipEvents(t) \cup {new} : f.id <= e.id) = new
        BY <3>1, <3>2
      <3>4. Inside(t, outbox_id + 1)' <=> new.kind = "ADDED"
        BY <2>8, <3>3 DEF Inside
      <3>5. role'[t] # "none" <=> role[t] = "none"
        BY <2>1 DEF TypeOK, Roles
      <3> QED BY <2>1, <3>4, <3>5
    <2>10. Inside(t, new.id)' <=> new.kind = "REMOVED"
      <3>1. Inside(t, new.id)' <=> Inside(t, outbox_id + 1)
        BY <2>1, <2>8 DEF Inside
      <3> QED BY <2>1, <3>1 DEF EventsReplayMembership
    <2>11. \A e \in MembershipEvents(t) : Inside(t, e.id)' <=> e.kind = "REMOVED"
      <3>1. \A e \in MembershipEvents(t) : Inside(t, e.id)' <=> Inside(t, e.id)
        BY <2>1, <2>8 DEF Inside
      <3> QED BY <3>1 DEF EventsReplayMembership
    <2>12. /\ Inside(t, outbox_id + 1)' <=> role'[t] # "none"
           /\ \A e \in MembershipEvents(t)' : Inside(t, e.id)' <=> e.kind = "REMOVED"
      BY <2>6, <2>9, <2>10, <2>11
    <2> QED BY <2>5, <2>12 DEF EventsReplayMembership
  <1>2. ASSUME \A p \in Calls : ~Commit(p)
        PROVE  EventsReplayMembership'
    <2>1. UNCHANGED <<created, role>> /\ \A u : MembershipEvents(u)' = MembershipEvents(u)
      BY <1>2, NoCommit DEF MembershipEvents
    <2>2. \A u, n : EventsBelow(u, n)' = EventsBelow(u, n)
      BY <2>1 DEF EventsBelow
    <2>3. \A u, n : Inside(u, n)' <=> Inside(u, n)
      BY <2>1, <2>2 DEF Inside
    <2>4. outbox_id' >= outbox_id
      BY <1>0, <1>2, NoCommit
    <2>5. \A u : EventsBelow(u, outbox_id' + 1) = EventsBelow(u, outbox_id + 1)
      BY <1>0, <2>4, InsideNow
    <2>6. \A u : Inside(u, outbox_id' + 1) <=> Inside(u, outbox_id + 1)
      BY <2>5 DEF Inside
    <2> QED BY <2>1, <2>3, <2>6 DEF EventsReplayMembership
  <1> QED BY <1>1, <1>2

-----------------------------------------------------------------------------
(* Read receipts *)

\* A receipt is cut to the sequence numbers given out, and those only grow.
LEMMA ReceiptStep ==
    ASSUME TypeOK, ReadWithinSequence, [Next]_vars
    PROVE  ReadWithinSequence'
  <1>0. next_sequence \in Nat /\ (\A e \in outbox : e.sequence \in Int)
        /\ \A u \in Users : last_read[u] \in Nat
    BY DEF TypeOK, Event
  <1>1. ASSUME NEW p \in Calls, Commit(p)
        PROVE  ReadWithinSequence'
    <2>1. next_sequence' = next_sequence
          /\ (\A u \in Users : last_read'[u] \in {0, last_read[u]})
          /\ \A e \in outbox' : e \in outbox \/ e.sequence = 0
      BY <1>1 DEF Commit, TypeOK
    <2> QED BY <1>0, <2>1 DEF ReadWithinSequence
  <1>2. ASSUME NEW u \in Users, NEW n \in 0 .. MaxSequence, UpdateReadReceipt(u, n)
        PROVE  ReadWithinSequence'
    <2>1. Clamped(n) \in Int /\ Clamped(n) <= next_sequence
      BY <1>0, ConversationAssumption DEF Clamped, GetCurrentMaxSequence
    <2>2. \A a \in Nat : a <= next_sequence => Greatest(a, Clamped(n)) <= next_sequence
      BY <1>0, <2>1 DEF Greatest
    <2>3. next_sequence' = next_sequence
          /\ (\A v \in Users : \/ last_read'[v] = last_read[v]
                               \/ last_read'[v] = Greatest(last_read[v], Clamped(n)))
          /\ \A e \in outbox' : e \in outbox \/ e.sequence = Clamped(n)
      BY <1>2 DEF UpdateReadReceipt, TypeOK
    <2> QED BY <1>0, <2>1, <2>2, <2>3 DEF ReadWithinSequence
  <1>3. CASE NextSequence
    BY <1>0, <1>3 DEF NextSequence, ReadWithinSequence
  <1>4. CASE UNCHANGED rows
    BY <1>4 DEF rows, ReadWithinSequence
  <1> QED BY <1>1, <1>2, <1>3, <1>4
          DEF Next, CallStep, BeginTx, GetConversationLocked, Reject, NothingToDo,
              WriteRows, InvalidateConversation, SerializationFailure, Abort,
              ReadStep, CacheMiss, FetchConversation, SetConversation, Expire, vars

-----------------------------------------------------------------------------
(* The theorems *)

\* The inductive invariant holds at creation: a new group has its admin, and no
\* event is needed to tell who is in it.
LEMMA InitInv == Init => IInv
  <1> SUFFICES ASSUME Init PROVE IInv
    OBVIOUS
  <1>1. TypeOK
    BY ConversationAssumption DEF Init, TypeOK, CreatedRoles
  <1>2. LockInv /\ WriteInv /\ EventIdInv
    BY DEF Init, LockInv, WriteInv, EventIdInv, HoldsLock, Writes
  <1>3. MembershipInv
    <2>1. type = "group" => Admins(created) # {}
      BY FS_EmptySet DEF Init, CreatedRoles
    <2> QED BY <2>1 DEF Init, MembershipInv, DirectInv, MembershipInvariants, CreatedRoles
  <1>4. EventsReplayMembership
    BY DEF Init, EventsReplayMembership, MembershipEvents, EventsBelow, Inside
  <1>5. ReadWithinSequence
    BY DEF Init, ReadWithinSequence
  <1> QED BY <1>1, <1>2, <1>3, <1>4, <1>5 DEF IInv

\* The conjuncts of IInv support each other: the replay of the events needs the
\* lock to order their ids and the isolation level to make each a change.
THEOREM InductiveInvariant == Spec => []IInv
  <1>1. IInv /\ [Next]_vars => IInv'
    BY TypeStep, WriteStep, EventIdStep, MembershipStep, ReplayStep, ReceiptStep DEF IInv
  <1> QED BY <1>1, InitInv, PTL DEF Spec

\* For any number of users, calls and retries: a direct conversation keeps its
\* two participants and a group keeps an admin, whatever AddParticipant and
\* RemoveParticipant calls race.
THEOREM MembershipInvariantsCorrect == Spec => []MembershipInvariants
  BY InductiveInvariant, PTL DEF IInv, MembershipInv

\* For any number of users, calls and retries: the membership events, read in
\* the order of their outbox ids, rebuild the participants, and each of them is
\* a change.
THEOREM EventsReplayMembershipCorrect == Spec => []EventsReplayMembership
  BY InductiveInvariant, PTL DEF IInv

\* For any claims of the clients: no receipt that UpdateReadReceipt stores or
\* publishes is beyond the sequence numbers given out.
THEOREM ReadWithinSequenceCorrect == Spec => []ReadWithinSequence
  BY InductiveInvariant, PTL DEF IInv

-----------------------------------------------------------------------------
(* Membership is implemented *)

\* A commit is an atomic change of the participants: what its call decided on
\* its snapshot it would decide now, and its event id is still unused.
LEMMA CommitRefines ==
    ASSUME IInv, NEW p \in Calls, Commit(p)
    PROVE  Atomic!Next
  <1>0. PICK a \in Users, t \in Users : a = cmd[p].actor /\ t = cmd[p].target
    BY DEF IInv, TypeOK, Command
  <1>1. PICK new : new = [id |-> event_id[p], user |-> t, sequence |-> 0,
                          kind |-> IF cmd[p].op = "add" THEN "ADDED" ELSE "REMOVED"]
    OBVIOUS
  <1>2. /\ UNCHANGED <<type, next_sequence>> /\ snapshot[p] = role
        /\ role' = [role EXCEPT ![t] = IF cmd[p].op = "add" THEN "member" ELSE "none"]
        /\ last_read' = [last_read EXCEPT ![t] = 0]
        /\ outbox' = outbox \cup {new}
    BY <1>0, <1>1 DEF Commit, Serializable
  <1>3. Allowed(p) /\ Changes(p) /\ ~LastAdmin(p)
    BY DEF Commit, IInv, WriteInv, Writes
  <1>4. /\ type = "group" /\ role[a] = "admin"
        /\ (role[t] = "none") <=> (cmd[p].op = "add")
    BY <1>0, <1>2, <1>3 DEF Allowed, Changes
  <1>5. \A f \in outbox : f.id # new.id /\ (f.kind \in {"ADDED", "REMOVED"} => f.id < new.id)
    BY <1>1 DEF Commit, IInv, EventIdInv, Writes, IsMembership
  <1>6. cmd[p].op \in {"add", "remove"} /\ new.user = t /\ new \in outbox'
    BY <1>1, <1>2 DEF IInv, TypeOK, Command
  <1>7. CASE cmd[p].op = "add"
    <2>1. new.kind = "ADDED"
      BY <1>1, <1>7
    <2>2. Atomic!Announce(new, "ADDED", t)
      BY <1>2, <1>5, <1>6, <2>1 DEF Atomic!Announce
    <2>3. Atomic!Change(t, "member", new)
      BY <1>2, <1>4, <1>5, <1>7 DEF Atomic!Change
    <2>4. Atomic!Add(a, t, new)
      BY <1>4, <1>7, <2>2, <2>3 DEF Atomic!Add
    <2> QED BY <1>6, <2>4 DEF Atomic!Next
  <1>8. CASE cmd[p].op = "remove"
    <2>1. new.kind = "REMOVED"
      BY <1>1, <1>8
    <2>2. Atomic!Announce(new, "REMOVED", t)
      BY <1>2, <1>5, <1>6, <2>1 DEF Atomic!Announce
    <2>3. Atomic!Change(t, "none", new)
      BY <1>2, <1>4, <1>5, <1>8 DEF Atomic!Change
    <2>4. \E u \in Users : role[u] = "admin" /\ u # t
      <3>1. CASE role[t] = "admin"
        <4>1. ~(Cardinality(Admins(role)) <= 1)
          BY <1>0, <1>2, <1>3, <1>8, <3>1 DEF LastAdmin
        <4>2. Cardinality({t}) = 1
          BY FS_Singleton
        <4>3. Admins(role) # {t}
          BY <4>1, <4>2
        <4> QED BY <3>1, <4>3 DEF Admins
      <3>2. CASE role[t] # "admin"
        BY <1>4, <3>2
      <3> QED BY <3>1, <3>2
    <2>5. Atomic!Remove(a, t, new)
      BY <1>4, <1>8, <2>2, <2>3, <2>4 DEF Atomic!Remove, Atomic!WithRole
    <2> QED BY <1>6, <2>5 DEF Atomic!Next
  <1> QED BY <1>6, <1>7, <1>8

\* A read receipt is one step, and what it claims was cut before it was stored.
LEMMA ReceiptRefines ==
    ASSUME IInv, NEW u \in Users, NEW n \in 0 .. MaxSequence, UpdateReadReceipt(u, n)
    PROVE  Atomic!Next
  <1>0. next_sequence \in Nat /\ outbox_id \in Nat /\ last_read \in [Users -> Nat]
    BY DEF IInv, TypeOK
  <1>1. Clamped(n) \in Int /\ Clamped(n) <= next_sequence
    BY <1>0, ConversationAssumption DEF Clamped, GetCurrentMaxSequence
  <1>2. PICK new : new = [id |-> outbox_id + 1, kind |-> "READ", user |-> u,
                          sequence |-> Clamped(n)]
    OBVIOUS
  <1>3. new.id = outbox_id + 1 /\ new.kind = "READ" /\ new.user = u
        /\ new.sequence = Clamped(n)
    BY <1>2
  <1>4. UNCHANGED <<type, role, next_sequence>> /\ outbox' = outbox \cup {new}
    BY <1>2 DEF UpdateReadReceipt
  <1>5. \A f \in outbox : f.id # new.id
    BY <1>0, <1>3 DEF IInv, TypeOK, Event, EventIdInv
  <1>6. Atomic!Announce(new, "READ", u)
    BY <1>3, <1>4, <1>5 DEF Atomic!Announce
  <1>7. last_read' = [last_read EXCEPT ![u] =
           IF role[u] # "none" /\ new.sequence > last_read[u]
           THEN new.sequence ELSE last_read[u]]
    <2>1. Greatest(last_read[u], Clamped(n)) =
             IF new.sequence > last_read[u] THEN new.sequence ELSE last_read[u]
      BY <1>0, <1>1, <1>3 DEF Greatest
    <2>2. CASE role[u] = "none"
      BY <1>0, <2>2 DEF UpdateReadReceipt
    <2>3. CASE role[u] # "none"
      BY <1>0, <2>1, <2>3 DEF UpdateReadReceipt
    <2> QED BY <2>2, <2>3
  <1>8. Atomic!Receipt(u, new)
    BY <1>1, <1>3, <1>4, <1>6, <1>7 DEF Atomic!Receipt
  <1> QED BY <1>4, <1>8 DEF Atomic!Next

\* For any number of users, calls, retries and receipts: the transactions of the
\* conversation service implement the atomic steps of Membership.  In
\* particular the actor of a change is an admin, and another admin remains,
\* when the change takes effect, not only when it was checked.
THEOREM Refinement == Spec => MembershipSpec
  <1>1. Init => Atomic!Init
    <2> SUFFICES ASSUME Init PROVE Atomic!Init
      OBVIOUS
    <2>1. \A S : Atomic!Cardinality(S) = Cardinality(S)
      BY Zenon DEF Atomic!Cardinality, Cardinality
    <2>2. role \in Roles /\ role \in CreatedRoles(type)
      BY DEF Init, CreatedRoles
    <2>3. Atomic!WithRole("admin") = Admins(role)
      BY DEF Atomic!WithRole, Admins
    <2>4. CASE type = "direct"
      <3>1. Admins(role) = {} /\ Cardinality(Participants(role)) = 2
        BY <2>2, <2>4 DEF CreatedRoles
      <3>2. Atomic!WithRole("member") = Participants(role)
        BY <2>2, <3>1 DEF Atomic!WithRole, Participants, Admins, Roles, Role
      <3>3. Atomic!Cardinality(Atomic!WithRole("member")) = 2
        BY <2>1, <3>1, <3>2
      <3> QED BY <2>2, <2>3, <2>4, <3>1, <3>3 DEF Init, Atomic!Init, Roles, Role
    <2>5. CASE type = "group"
      <3>1. Cardinality(Admins(role)) = 1
        BY <2>2, <2>5 DEF CreatedRoles
      <3>2. Atomic!Cardinality(Atomic!WithRole("admin")) = 1
        BY <2>1, <2>3, <3>1
      <3> QED BY <2>2, <2>5, <3>2 DEF Init, Atomic!Init, Roles, Role
    <2> QED BY <2>4, <2>5 DEF Init
  <1>2. ASSUME IInv, [Next]_vars
        PROVE  [Atomic!Next]_(Atomic!vars)
    <2>1. ASSUME NEW p \in Calls, CallStep(p), ~Commit(p)
          PROVE  UNCHANGED Atomic!vars
      BY <2>1 DEF CallStep, BeginTx, GetConversationLocked, Reject, NothingToDo,
         WriteRows, InvalidateConversation, SerializationFailure, Abort, rows,
         Atomic!vars
    <2>2. CASE NextSequence
      BY <2>2 DEF NextSequence, Atomic!Next, Atomic!GiveSequence
    <2>3. ASSUME NEW r \in Readers, ReadStep(r)
          PROVE  UNCHANGED Atomic!vars
      BY <2>3 DEF ReadStep, CacheMiss, FetchConversation, SetConversation, rows,
         Atomic!vars
    <2>4. CASE Expire \/ UNCHANGED vars
      BY <2>4 DEF Expire, vars, rows, Atomic!vars
    <2> QED BY <1>2, <2>1, <2>2, <2>3, <2>4, CommitRefines, ReceiptRefines DEF Next
  <1> QED BY <1>1, <1>2, InductiveInvariant, PTL DEF Spec, MembershipSpec, Atomic!Spec

\* For any order of the receipts: last_read_sequence of a user that stays a
\* participant never decreases.  Only a commit resets it, and it resets it for
\* the user it adds or removes.
THEOREM ReceiptNeverGoesBackCorrect == Spec => ReceiptNeverGoesBack
  <1> DEFINE Kept(u) == role[u] # "none" /\ role'[u] # "none"
                           => last_read'[u] >= last_read[u]
  <1>1. ASSUME IInv, [Next]_vars, NEW u \in Users
        PROVE  Kept(u)
    <2>0. last_read[u] \in Nat
      BY <1>1 DEF IInv, TypeOK
    <2>1. ASSUME NEW p \in Calls, Commit(p)
          PROVE  Kept(u)
      <3>1. cmd[p].target \in Users /\ cmd[p].op \in {"add", "remove"}
        BY <1>1 DEF IInv, TypeOK, Command
      <3>2. snapshot[p] = role /\ Changes(p)
        BY <1>1, <2>1 DEF IInv, WriteInv, Writes, Commit, Serializable
      <3>3. CASE u = cmd[p].target
        BY <1>1, <2>1, <3>1, <3>2, <3>3 DEF Commit, Changes, IInv, TypeOK, Roles
      <3>4. CASE u # cmd[p].target
        <4>1. last_read'[u] = last_read[u]
          BY <1>1, <2>1, <3>1, <3>4 DEF Commit, IInv, TypeOK
        <4> QED BY <2>0, <4>1
      <3> QED BY <3>3, <3>4
    <2>2. ASSUME NEW v \in Users, NEW n \in 0 .. MaxSequence, UpdateReadReceipt(v, n)
          PROVE  Kept(u)
      <3>1. Clamped(n) \in Int
        BY <1>1, ConversationAssumption DEF Clamped, GetCurrentMaxSequence, IInv, TypeOK
      <3>2. Greatest(last_read[u], Clamped(n)) >= last_read[u]
        BY <2>0, <3>1 DEF Greatest
      <3>3. last_read'[u] \in {last_read[u], Greatest(last_read[u], Clamped(n))}
        BY <1>1, <2>2 DEF UpdateReadReceipt, IInv, TypeOK
      <3> QED BY <2>0, <3>2, <3>3
    <2>3. CASE UNCHANGED last_read
      BY <2>0, <2>3
    <2> QED BY <1>1, <2>1, <2>2, <2>3
          DEF Next, CallStep, BeginTx, GetConversationLocked, Reject, NothingToDo,
              WriteRows, InvalidateConversation, SerializationFailure, Abort,
              ReadStep, CacheMiss, FetchConversation, SetConversation, Expire, vars,
              rows, NextSequence
  <1>2. IInv /\ [Next]_vars => [\A u \in Users : Kept(u)]_vars
    BY <1>1
  <1> QED BY <1>2, InductiveInvariant, PTL DEF Spec, ReceiptNeverGoesBack
=============================================================================
