---------------------- MODULE ConversationEventsProofs ----------------------
(***************************************************************************)
(* Proofs about ConversationCreate and ConversationEvents, for any number  *)
(* of calls, attempts, faults and membership changes, and any batch size.  *)
(***************************************************************************)
EXTENDS ConversationEvents, FiniteSetTheorems, WellFoundedInduction, TLAPS

-----------------------------------------------------------------------------
(* CreateConversation: the inductive invariant *)

\* A call that got past the early returns had a valid command, and one that is
\* about to commit has taken the id of its event.
ValidInv == \A p \in Creates : /\ pc[p] # "failed" => ValidCommand(cmd[p])
                               /\ pc[p] = "commit" => event_id[p] # 0

\* Rows with one id or one lookup key.
SameRow(r, s) == r.id = s.id \/ (r.key # NoKey /\ r.key = s.key)

\* The unique indexes, with the entries of open transactions.
IndexInv ==
    /\ \A r, s \in conversations : SameRow(r, s) => r = s
    /\ \A p \in Creates : HoldsIndex(p) => ~Conflict(p)
    /\ \A p, q \in Creates : HoldsIndex(p) /\ HoldsIndex(q) /\ Same(cmd[p], cmd[q])
                                => p = q

\* Row r answers the request of call p.
Answers(p, r) == \/ r.id = cmd[p].id
                 \/ r.key # NoKey /\ r.key = LookupKey(cmd[p])

\* What a call has found or made is what it was asked for.
ResultInv ==
    /\ \A p \in Creates : \A r \in found[p] : Answers(p, r)
    /\ \A p \in Creates : pc[p] \in {"done", "commitfound"}
                             => result[p] \in conversations /\ Answers(p, result[p])
    /\ \A p \in Creates : pc[p] = "commit" => result[p] = Row(cmd[p])

CreateInv == TypeOK /\ ValidInv /\ IndexInv /\ ResultInv

-----------------------------------------------------------------------------
\* The fields of a row.
LEMMA RowFields ==
    ASSUME NEW c
    PROVE  /\ Row(c).id = c.id /\ Row(c).key = LookupKey(c)
           /\ Row(c).members = Members(c)
  BY DEF Row

\* Every step keeps the variables in their types.
LEMMA TypeStep ==
    ASSUME TypeOK, ValidInv, [CreateNext]_vars
    PROVE  TypeOK' /\ ValidInv'
  <1> USE CreateAssumption
  <1>1. ASSUME NEW p \in Creates, LookupById(p)
        PROVE  TypeOK' /\ ValidInv'
    BY <1>1 DEF LookupById, TypeOK, ValidInv, ById, tables
  <1>2. ASSUME NEW p \in Creates, LookupByKey(p)
        PROVE  TypeOK' /\ ValidInv'
    BY <1>2 DEF LookupByKey, TypeOK, ValidInv, ByKey, tables
  <1>3. ASSUME NEW p \in Creates, LookupHit(p)
        PROVE  TypeOK' /\ ValidInv'
    BY <1>3 DEF LookupHit, TypeOK, ValidInv, tables
  <1>4. ASSUME NEW p \in Creates, \/ LookupMiss(p) \/ InsertConversation(p)
                                  \/ DuplicateParticipant(p) \/ CommitFound(p)
        PROVE  TypeOK' /\ ValidInv'
    BY <1>4 DEF LookupMiss, InsertConversation, DuplicateParticipant, CommitFound,
       TypeOK, ValidInv, tables
  <1>5. ASSUME NEW p \in Creates, CheckId(p)
        PROVE  TypeOK' /\ ValidInv'
    <2>1. result' \in [Creates -> ValidRows \cup {NoConv}]
      BY <1>5 DEF CheckId, TypeOK, ById
    <2>2. cached' \subseteq conversations
      BY <1>5 DEF CheckId, TypeOK
    <2> QED BY <1>5, <2>1, <2>2 DEF CheckId, TypeOK, ValidInv, tables
  <1>6. ASSUME NEW p \in Creates, CheckKey(p)
        PROVE  TypeOK' /\ ValidInv'
    <2>1. result' \in [Creates -> ValidRows \cup {NoConv}]
      BY <1>6 DEF CheckKey, TypeOK, ByKey
    <2> QED BY <1>6, <2>1 DEF CheckKey, TypeOK, ValidInv, tables
  <1>7. ASSUME NEW p \in Creates, LostRace(p)
        PROVE  TypeOK' /\ ValidInv'
    BY <1>7 DEF LostRace, Retry, TypeOK, ValidInv, tables
  <1>8. ASSUME NEW p \in Creates, EmitConversationCreated(p)
        PROVE  TypeOK' /\ ValidInv'
    <2>1. cmd[p] \in Commands /\ ValidCommand(cmd[p])
      BY <1>8 DEF EmitConversationCreated, TypeOK, ValidInv, Commands
    <2>2. Row(cmd[p]) \in ValidRows
      BY <2>1 DEF ValidRows
    <2>3. 1 .. outbox_id \subseteq 1 .. outbox_id + 1 /\ outbox_id + 1 \in Nat
      BY DEF TypeOK
    <2>4. outbox' \subseteq [id : 1 .. outbox_id', conv : {r.id : r \in conversations'},
                             kind : {"CREATED"}]
      BY <1>8, <2>3 DEF EmitConversationCreated, TypeOK
    <2>5. event_id' \in [Creates -> 0 .. outbox_id']
      BY <1>8, <2>3 DEF EmitConversationCreated, TypeOK
    <2> QED BY <1>8, <2>2, <2>3, <2>4, <2>5
            DEF EmitConversationCreated, TypeOK, ValidInv
  <1>9. ASSUME NEW p \in Creates, Commit(p)
        PROVE  TypeOK' /\ ValidInv'
    <2>1. cmd[p] \in Commands /\ ValidCommand(cmd[p])
      BY <1>9 DEF Commit, TypeOK, ValidInv, Commands
    <2>2. Row(cmd[p]) \in ValidRows
      BY <2>1 DEF ValidRows
    <2>3. faults' \in 0 .. MaxFaults
      BY <1>9 DEF Commit, AfterCommit, TypeOK
    <2>4. Created(p) \in [id : 1 .. outbox_id', conv : {r.id : r \in conversations'},
                          kind : {"CREATED"}]
      <3>1. cmd[p].id \in {r.id : r \in conversations'}
        BY <1>9, RowFields DEF Commit
      <3>2. event_id[p] \in 1 .. outbox_id'
        BY <1>9 DEF Commit, TypeOK, ValidInv
      <3> QED BY <3>1, <3>2 DEF Created
    <2>5. outbox' \subseteq [id : 1 .. outbox_id', conv : {r.id : r \in conversations'},
                             kind : {"CREATED"}]
      BY <1>9, <2>4 DEF Commit, TypeOK
    <2>6. pc' \in [Creates -> {"lookup", "begin", "bykey", "insert", "emit", "commit",
                               "commitfound", "done", "failed"}]
      BY <1>9 DEF Commit, AfterCommit, TypeOK
    <2>7. ValidInv'
      BY <1>9, <2>1 DEF Commit, ValidInv, TypeOK
    <2> QED BY <1>9, <2>2, <2>3, <2>5, <2>6, <2>7 DEF Commit, TypeOK
  <1>10. ASSUME NEW p \in Creates, Abort(p) \/ SerializationFailure(p)
         PROVE  TypeOK' /\ ValidInv'
    BY <1>10 DEF Abort, SerializationFailure, Retry, InTx, TypeOK, ValidInv, tables
  <1>11. ASSUME NEW r \in conversations, ReadConversation(r)
         PROVE  TypeOK' /\ ValidInv'
    BY <1>11 DEF ReadConversation, TypeOK, ValidInv, tables, createVars
  <1>12. CASE UNCHANGED vars
    BY <1>12 DEF vars, tables, createVars, TypeOK, ValidInv
  <1> QED BY <1>1, <1>2, <1>3, <1>4, <1>5, <1>6, <1>7, <1>8, <1>9, <1>10, <1>11, <1>12
          DEF CreateNext, CreateStep

-----------------------------------------------------------------------------
(* The unique indexes and the answers *)

\* The insert waits for open transactions and is refused by committed rows, so
\* the indexes stay unique.
LEMMA IndexStep ==
    ASSUME TypeOK, IndexInv, [CreateNext]_vars
    PROVE  IndexInv'
  <1> USE DEF HoldsIndex
  <1>0. ASSUME UNCHANGED <<cmd, conversations>>,
               \A q \in Creates : HoldsIndex(q)' => HoldsIndex(q)
        PROVE  IndexInv'
    BY <1>0 DEF IndexInv, Conflict, ById, ByKey
  <1>1. ASSUME NEW p \in Creates, InsertConversation(p)
        PROVE  IndexInv'
    <2>1. /\ UNCHANGED <<cmd, conversations>> /\ ~Waits(p) /\ ~Conflict(p)
          /\ \A q \in Creates \ {p} : HoldsIndex(q)' <=> HoldsIndex(q)
      BY <1>1 DEF InsertConversation, tables, TypeOK
    <2>2. \A q \in Creates : Conflict(q)' <=> Conflict(q)
      BY <2>1 DEF Conflict, ById, ByKey
    <2>3. \A q \in Creates \ {p} : HoldsIndex(q)' => ~Same(cmd[p], cmd[q])
                                                     /\ ~Same(cmd[q], cmd[p])
      BY <2>1 DEF Waits, Same
    <2>4. \A q \in Creates : HoldsIndex(q)' => ~Conflict(q)'
      BY <2>1, <2>2 DEF IndexInv
    <2>5. \A q, r \in Creates : HoldsIndex(q)' /\ HoldsIndex(r)' /\ Same(cmd[q], cmd[r])
                                   => q = r
      BY <2>1, <2>3 DEF IndexInv
    <2> QED BY <2>1, <2>4, <2>5 DEF IndexInv
  <1>2. ASSUME NEW p \in Creates, Commit(p)
        PROVE  IndexInv'
    <2>1. /\ cmd' = cmd /\ conversations' = conversations \cup {Row(cmd[p])}
          /\ \A q \in Creates : HoldsIndex(q)' <=> HoldsIndex(q) /\ q # p
      BY <1>2 DEF Commit, AfterCommit, TypeOK
    <2>2. HoldsIndex(p) /\ ~Conflict(p)
      BY <1>2 DEF Commit, IndexInv
    <2>3. \A r \in conversations : ~SameRow(r, Row(cmd[p])) /\ ~SameRow(Row(cmd[p]), r)
      BY <2>2, RowFields DEF Conflict, ById, ByKey, SameRow
    <2>4. \A q \in Creates : HoldsIndex(q)' => ~Conflict(q)'
      BY <2>1, <2>2, RowFields DEF IndexInv, Conflict, ById, ByKey, Same
    <2> QED BY <2>1, <2>3, <2>4 DEF IndexInv
  <1>3. ASSUME NEW p \in Creates, ~InsertConversation(p), ~Commit(p),
               CreateStep(p) \/ Abort(p) \/ SerializationFailure(p)
        PROVE  IndexInv'
    <2>1. UNCHANGED <<cmd, conversations>> /\ \A q \in Creates : HoldsIndex(q)' => HoldsIndex(q)
      BY <1>3 DEF CreateStep, LookupById, LookupByKey, LookupHit, LookupMiss, CheckId,
         CheckKey, LostRace, Retry, DuplicateParticipant, EmitConversationCreated,
         CommitFound, Abort, SerializationFailure, tables, TypeOK
    <2> QED BY <1>0, <2>1
  <1>4. ASSUME NEW r \in conversations, ReadConversation(r)
        PROVE  IndexInv'
    BY <1>0, <1>4 DEF ReadConversation, tables, createVars
  <1>5. CASE UNCHANGED vars
    BY <1>0, <1>5 DEF vars, tables, createVars
  <1> QED BY <1>1, <1>2, <1>3, <1>4, <1>5 DEF CreateNext

\* A call answers with what it found or made, and committed rows stay.
LEMMA ResultStep ==
    ASSUME TypeOK, ResultInv, [CreateNext]_vars
    PROVE  ResultInv'
  <1>0. ASSUME NEW p \in Creates, CreateStep(p) \/ Abort(p) \/ SerializationFailure(p)
        PROVE  /\ cmd' = cmd /\ conversations \subseteq conversations'
               /\ \A q \in Creates \ {p} : /\ pc'[q] = pc[q] /\ result'[q] = result[q]
                                           /\ found'[q] = found[q]
    BY <1>0 DEF CreateStep, LookupById, LookupByKey, LookupHit, LookupMiss, CheckId,
         CheckKey, InsertConversation, LostRace, Retry, DuplicateParticipant,
         EmitConversationCreated, Commit, CommitFound, Abort, SerializationFailure,
         tables, TypeOK
  <1>1. ASSUME NEW p \in Creates, CreateStep(p) \/ Abort(p) \/ SerializationFailure(p),
               \A r \in found'[p] : Answers(p, r),
               pc'[p] \in {"done", "commitfound"}
                  => result'[p] \in conversations' /\ Answers(p, result'[p]),
               pc'[p] = "commit" => result'[p] = Row(cmd[p])
        PROVE  ResultInv'
    BY <1>0, <1>1 DEF ResultInv, Answers
  <1>2. ASSUME NEW p \in Creates, LookupById(p) \/ LookupByKey(p)
        PROVE  ResultInv'
    <2>1. \A r \in found'[p] : Answers(p, r)
      BY <1>2 DEF LookupById, LookupByKey, ResultInv, Answers, ById, ByKey, TypeOK
    <2> QED BY <1>1, <1>2, <2>1
            DEF CreateStep, LookupById, LookupByKey, ResultInv, TypeOK, tables
  <1>3. ASSUME NEW p \in Creates, LookupHit(p)
        PROVE  ResultInv'
    <2>1. /\ found'[p] = {} /\ pc'[p] = "done" /\ conversations' = conversations
          /\ result'[p] \in found[p] /\ found[p] \subseteq conversations
      BY <1>3 DEF LookupHit, TypeOK, tables
    <2>2. Answers(p, result'[p])
      BY <2>1 DEF ResultInv
    <2> QED BY <1>1, <1>3, <2>1, <2>2 DEF CreateStep
  <1>4. ASSUME NEW p \in Creates, CheckId(p)
        PROVE  ResultInv'
    <2>1. \A r \in ById(cached, cmd[p]) \cup ById(conversations, cmd[p]) :
             r \in conversations /\ Answers(p, r)
      BY DEF ById, Answers, TypeOK
    <2>2. /\ conversations' = conversations /\ found' = found
          /\ \/ pc'[p] = "bykey"
             \/ /\ pc'[p] = "commitfound"
                /\ result'[p] \in ById(cached, cmd[p]) \cup ById(conversations, cmd[p])
      BY <1>4 DEF CheckId, TypeOK, tables
    <2> QED BY <1>1, <1>4, <2>1, <2>2 DEF CreateStep, ResultInv
  <1>5. ASSUME NEW p \in Creates, CheckKey(p)
        PROVE  ResultInv'
    <2>1. \A r \in ByKey(snapshot[p], cmd[p]) : r \in conversations /\ Answers(p, r)
      BY DEF ByKey, Answers, TypeOK
    <2>2. /\ conversations' = conversations /\ found' = found
          /\ \/ pc'[p] = "insert"
             \/ /\ pc'[p] = "commitfound"
                /\ result'[p] \in ByKey(snapshot[p], cmd[p])
      BY <1>5 DEF CheckKey, TypeOK, tables
    <2> QED BY <1>1, <1>5, <2>1, <2>2 DEF CreateStep, ResultInv
  <1>6. ASSUME NEW p \in Creates, EmitConversationCreated(p)
        PROVE  ResultInv'
    BY <1>1, <1>6 DEF CreateStep, EmitConversationCreated, ResultInv, TypeOK
  <1>7. ASSUME NEW p \in Creates, Commit(p)
        PROVE  ResultInv'
    <2>1. Answers(p, Row(cmd[p])) /\ result[p] = Row(cmd[p])
      BY <1>7, RowFields DEF Answers, Commit, ResultInv
    <2>2. pc'[p] # "commit" /\ result' = result /\ found' = found
          /\ Row(cmd[p]) \in conversations'
      BY <1>7 DEF Commit, AfterCommit, TypeOK
    <2> QED BY <1>1, <1>7, <2>1, <2>2 DEF CreateStep, ResultInv
  <1>8. ASSUME NEW p \in Creates, \/ LookupMiss(p) \/ InsertConversation(p) \/ LostRace(p)
                                  \/ DuplicateParticipant(p) \/ CommitFound(p)
                                  \/ Abort(p) \/ SerializationFailure(p)
        PROVE  ResultInv'
    <2>1. /\ UNCHANGED <<result, found, conversations>> /\ pc'[p] # "commit"
          /\ pc'[p] \in {"done", "commitfound"} => pc[p] = "commitfound"
      BY <1>8 DEF LookupMiss, InsertConversation, LostRace, Retry,
         DuplicateParticipant, CommitFound, Abort, SerializationFailure, TypeOK, tables
    <2> QED BY <1>1, <1>8, <2>1 DEF CreateStep, ResultInv
  <1>9. CASE UNCHANGED <<cmd, pc, found, result, conversations>>
    BY <1>9 DEF ResultInv, Answers
  <1> QED BY <1>2, <1>3, <1>4, <1>5, <1>6, <1>7, <1>8, <1>9
          DEF CreateNext, CreateStep, ReadConversation, vars, tables, createVars

\* Steps of CreateConversation preserve the invariant, ...
LEMMA CreateInvStep ==
    ASSUME CreateInv, [CreateNext]_vars
    PROVE  CreateInv'
  BY TypeStep, IndexStep, ResultStep DEF CreateInv

\* ... and it holds before the first call.
LEMMA CreateInit == Init => CreateInv
  <1> SUFFICES ASSUME Init PROVE CreateInv
    OBVIOUS
  <1>1. TypeOK
    <2>1. looking \in [Creates -> SUBSET {"id", "key"}]
      BY DEF Init
    <2> QED BY <2>1, CreateAssumption DEF Init, TypeOK
  <1>2. ValidInv /\ IndexInv /\ ResultInv
    BY DEF Init, ValidInv, IndexInv, HoldsIndex, ResultInv
  <1> QED BY <1>1, <1>2 DEF CreateInv

-----------------------------------------------------------------------------
(* The outbox: ids and rows *)

Events == outbox \cup changes
AllIds == {e.id : e \in Events}

\* An id is given to one event, of a conversation that exists, or to an open
\* transaction.
EventIdInv ==
    /\ changes \subseteq [id : 1 .. outbox_id, conv : {r.id : r \in conversations},
                          kind : {"PARTICIPANT"}]
    /\ \A e, f \in Events : e.id = f.id => e = f
    /\ \A p \in Creates : pc[p] = "commit" => \A e \in Events : e.id # event_id[p]
    /\ \A p, q \in Creates : pc[p] = "commit" /\ pc[q] = "commit" /\ event_id[p] = event_id[q]
                                => p = q

\* The attempts that have taken their id, or never will.
CreateAttempts ==
    {x \in Creates \X (1 .. MaxAttempts) :
        \/ x[2] < attempt[x[1]]
        \/ x[2] = attempt[x[1]] /\ pc[x[1]] \in {"commit", "commitfound", "done", "failed"}}

\* Each id was taken by an attempt or by a membership change.
RowCountInv ==
    /\ IsFiniteSet(changes) /\ Cardinality(changes) <= MaxChanges
    /\ outbox_id <= Cardinality(CreateAttempts) + Cardinality(changes)

TableInv == CreateInv /\ EventIdInv /\ RowCountInv

\* A step of the table: nothing, or one event more, which is the newest of its
\* conversation.
NewEvent(e) ==
    /\ Events' = Events \cup {e}
    /\ e.id \in Nat /\ e.id \notin AllIds
    /\ \A f \in Events : f.conv = e.conv => f.id < e.id

\* The types of events.
LEMMA EventFields ==
    ASSUME TypeOK, EventIdInv
    PROVE  \A e \in Events : e.id \in 1 .. outbox_id /\ e.id \in Nat
                             /\ \E r \in conversations : e.conv = r.id
  BY DEF TypeOK, EventIdInv, Events

\* The rows that can exist fit the functions over RowIds.
LEMMA RowsFit ==
    ASSUME TableInv
    PROVE  1 .. outbox_id \subseteq RowIds
  <1> DEFINE S == Creates \X (1 .. MaxAttempts)
  <1>1. IsFiniteSet(1 .. MaxAttempts) /\ Cardinality(1 .. MaxAttempts) = MaxAttempts
    BY CreateAssumption, FS_Interval
  <1>2. IsFiniteSet(Creates)
    BY EventsAssumption
  <1>3. IsFiniteSet(S) /\ Cardinality(S) = Cardinality(Creates) * MaxAttempts
    BY <1>1, <1>2, FS_Product
  <1>4. CreateAttempts \in SUBSET S
    BY DEF CreateAttempts
  <1> HIDE DEF S
  <1>5. /\ Cardinality(CreateAttempts) \in Nat /\ Cardinality(S) \in Nat
        /\ Cardinality(CreateAttempts) <= Cardinality(S)
    BY <1>3, <1>4, FS_Subset, FS_CardinalityType
  <1>6. Cardinality(changes) \in Nat /\ Cardinality(changes) <= MaxChanges
        /\ outbox_id <= Cardinality(CreateAttempts) + Cardinality(changes)
        /\ outbox_id \in Nat
    BY FS_CardinalityType DEF TableInv, RowCountInv, CreateInv, TypeOK
  <1>7. outbox_id <= Cardinality(Creates) * MaxAttempts + MaxChanges
    BY <1>3, <1>5, <1>6, EventsAssumption
  <1> QED BY <1>3, <1>5, <1>6, <1>7, EventsAssumption DEF RowIds

\* A set of attempts that grows.
LEMMA AttemptsGrow ==
    ASSUME NEW A \in SUBSET (Creates \X (1 .. MaxAttempts)),
           NEW B \in SUBSET (Creates \X (1 .. MaxAttempts)), A \subseteq B
    PROVE  /\ Cardinality(A) \in Nat /\ Cardinality(B) \in Nat
           /\ Cardinality(A) <= Cardinality(B)
           /\ B # A => Cardinality(A) + 1 <= Cardinality(B)
  <1>1. IsFiniteSet(Creates \X (1 .. MaxAttempts))
    <2>1. IsFiniteSet(1 .. MaxAttempts)
      BY CreateAssumption, FS_Interval
    <2> QED BY <2>1, EventsAssumption, FS_Product
  <1>2. IsFiniteSet(A) /\ IsFiniteSet(B)
    BY <1>1, FS_Subset
  <1>3. Cardinality(A) <= Cardinality(B) /\ (Cardinality(B) = Cardinality(A) => A = B)
    BY <1>2, FS_Subset
  <1>4. Cardinality(A) \in Nat /\ Cardinality(B) \in Nat
    BY <1>2, FS_CardinalityType
  <1> QED BY <1>3, <1>4

\* Steps of CreateConversation keep the account of ids, ...
LEMMA CreateTableStep ==
    ASSUME TableInv, CreateInv', CreateNext, UNCHANGED changes
    PROVE  /\ EventIdInv' /\ RowCountInv'
           /\ \/ Events' = Events
              \/ \E e : NewEvent(e)
  <1> USE DEF TableInv
  <1>0. /\ TypeOK /\ TypeOK' /\ outbox_id \in Nat /\ outbox_id' \in Nat
        /\ event_id \in [Creates -> 0 .. outbox_id]
    BY DEF CreateInv, TypeOK
  <1>1. ASSUME NEW p \in Creates, CreateStep(p) \/ Abort(p) \/ SerializationFailure(p),
               ~Commit(p), ~EmitConversationCreated(p)
        PROVE  /\ UNCHANGED <<outbox, outbox_id, conversations, event_id>>
               /\ \A q \in Creates : /\ pc'[q] = "commit" => pc[q] = "commit"
                                     /\ \/ attempt'[q] > attempt[q]
                                        \/ /\ attempt'[q] = attempt[q]
                                           /\ pc[q] \in {"commit", "commitfound", "done", "failed"}
                                              => pc'[q] \in {"commit", "commitfound", "done", "failed"}
    <2>1. UNCHANGED <<outbox, outbox_id, conversations, event_id>>
      BY <1>1 DEF CreateStep, LookupById, LookupByKey, LookupHit, LookupMiss, CheckId,
         CheckKey, InsertConversation, LostRace, DuplicateParticipant,
         CommitFound, Abort, SerializationFailure, tables
    <2>2. \A q \in Creates \ {p} : pc'[q] = pc[q] /\ attempt'[q] = attempt[q]
      BY <1>0, <1>1 DEF CreateStep, LookupById, LookupByKey, LookupHit, LookupMiss, CheckId,
         CheckKey, InsertConversation, LostRace, Retry, DuplicateParticipant,
         CommitFound, Abort, SerializationFailure, TypeOK
    <2>3. \/ pc'[p] = "begin" /\ attempt'[p] = attempt[p] + 1
          \/ pc'[p] = "failed" /\ attempt' = attempt
          \/ pc' = pc /\ attempt' = attempt
          \/ pc[p] \notin {"commit", "commitfound", "done", "failed"}
             /\ pc'[p] # "commit" /\ attempt' = attempt
          \/ pc'[p] = "done" /\ attempt' = attempt
      BY <1>0, <1>1 DEF CreateStep, LookupById, LookupByKey, LookupHit, LookupMiss, CheckId,
         CheckKey, InsertConversation, LostRace, Retry, DuplicateParticipant,
         CommitFound, Abort, SerializationFailure, TypeOK
    <2>4. \A q \in Creates : attempt[q] \in Nat
      BY <1>0, CreateAssumption DEF TypeOK
    <2> QED BY <2>1, <2>2, <2>3, <2>4
  <1>2. ASSUME NEW p \in Creates, EmitConversationCreated(p)
        PROVE  /\ UNCHANGED <<outbox, conversations, attempt>> /\ outbox_id' = outbox_id + 1
               /\ event_id' = [event_id EXCEPT ![p] = outbox_id + 1]
               /\ pc' = [pc EXCEPT ![p] = "commit"] /\ pc[p] = "emit"
    BY <1>2 DEF EmitConversationCreated
  <1>3. ASSUME NEW p \in Creates, Commit(p)
        PROVE  /\ UNCHANGED <<outbox_id, event_id, attempt>> /\ pc[p] = "commit"
               /\ outbox' = outbox \cup {Created(p)} /\ conversations \subseteq conversations'
               /\ \A q \in Creates : pc'[q] = IF q = p THEN pc'[p] ELSE pc[q]
               /\ pc'[p] \in {"done", "failed"}
    BY <1>3, <1>0 DEF Commit, AfterCommit, TypeOK
  <1>4. CASE \E r \in conversations : ReadConversation(r)
    <2>1. UNCHANGED <<outbox, outbox_id, conversations, event_id, pc, attempt>>
      BY <1>4 DEF ReadConversation, tables, createVars
    <2> QED BY <2>1 DEF EventIdInv, RowCountInv, CreateAttempts, Events
  <1> DEFINE S == Creates \X (1 .. MaxAttempts)
  <1>5. CreateAttempts \in SUBSET S /\ CreateAttempts' \in SUBSET S
    BY DEF CreateAttempts
  <1>6. Cardinality(changes) \in Nat
    BY FS_CardinalityType DEF RowCountInv
  <1>7. \A q \in Creates : attempt[q] \in Nat /\ attempt'[q] \in Nat
                           /\ attempt[q] \in 1 .. MaxAttempts
    BY <1>0, CreateAssumption DEF TypeOK
  <1>8. ASSUME NEW p \in Creates, CreateStep(p) \/ Abort(p) \/ SerializationFailure(p),
               ~Commit(p), ~EmitConversationCreated(p)
        PROVE  EventIdInv' /\ RowCountInv' /\ Events' = Events
    <2>1. Events' = Events
      BY <1>1, <1>8 DEF Events
    <2>2. EventIdInv'
      BY <1>1, <1>8, <2>1 DEF EventIdInv
    <2>3. CreateAttempts \subseteq CreateAttempts'
      BY <1>1, <1>7, <1>8, CreateAssumption DEF CreateAttempts
    <2>4. RowCountInv'
      BY <1>0, <1>1, <1>5, <1>6, <1>8, <2>3, AttemptsGrow DEF RowCountInv
    <2> QED BY <2>1, <2>2, <2>4
  <1>9. ASSUME NEW p \in Creates, EmitConversationCreated(p)
        PROVE  EventIdInv' /\ RowCountInv' /\ Events' = Events
    <2>1. Events' = Events
      BY <1>2, <1>9 DEF Events
    <2>2. \A e \in Events : e.id \in Nat /\ e.id <= outbox_id
      BY <1>0, EventFields
    <2>3. \A q \in Creates : event_id'[q] = IF q = p THEN outbox_id + 1 ELSE event_id[q]
      BY <1>0, <1>2, <1>9
    <2>4. \A q \in Creates : pc'[q] = IF q = p THEN "commit" ELSE pc[q]
      BY <1>0, <1>2, <1>9 DEF TypeOK
    <2>5. \A q \in Creates : event_id[q] \in Nat /\ event_id[q] <= outbox_id
      BY <1>0
    <2>6. changes' \subseteq [id : 1 .. outbox_id', conv : {r.id : r \in conversations'},
                              kind : {"PARTICIPANT"}]
      <3>1. 1 .. outbox_id \subseteq 1 .. outbox_id'
        BY <1>0, <1>2, <1>9
      <3> QED BY <1>2, <1>9, <3>1 DEF EventIdInv
    <2>7. /\ \A q \in Creates : pc'[q] = "commit" => \A e \in Events : e.id # event_id'[q]
          /\ \A q, r \in Creates : pc'[q] = "commit" /\ pc'[r] = "commit"
                                   /\ event_id'[q] = event_id'[r] => q = r
      BY <1>0, <2>2, <2>3, <2>4, <2>5 DEF EventIdInv
    <2>8. EventIdInv'
      BY <2>1, <2>6, <2>7 DEF EventIdInv
    <2>9. CreateAttempts \subseteq CreateAttempts'
      BY <1>2, <1>9, <2>4 DEF CreateAttempts
    <2>10. <<p, attempt[p]>> \in CreateAttempts' /\ <<p, attempt[p]>> \notin CreateAttempts
      BY <1>2, <1>7, <1>9, <2>4 DEF CreateAttempts
    <2>11. RowCountInv'
      BY <1>0, <1>2, <1>5, <1>6, <1>9, <2>9, <2>10, AttemptsGrow DEF RowCountInv
    <2> QED BY <2>1, <2>8, <2>11
  <1>10. ASSUME NEW p \in Creates, Commit(p)
         PROVE  EventIdInv' /\ RowCountInv' /\ NewEvent(Created(p))
    <2> DEFINE new == Created(p)
    <2>1. new.id = event_id[p] /\ new.conv = cmd[p].id
      BY DEF Created
    <2>2. Events' = Events \cup {new}
      BY <1>3, <1>10 DEF Events
    <2> HIDE DEF new
    <2>3. event_id[p] \in Nat /\ \A e \in Events : e.id # event_id[p]
      BY <1>0, <1>3, <1>10 DEF EventIdInv
    <2>4. \A f \in Events : f.conv # new.conv
      <3>1. ~Conflict(p)
        BY <1>3, <1>10 DEF CreateInv, IndexInv, HoldsIndex
      <3> QED BY <1>0, <2>1, <3>1, EventFields DEF Conflict, ById
    <2>5. NewEvent(new)
      BY <2>1, <2>2, <2>3, <2>4 DEF NewEvent, AllIds
    <2>6. changes' \subseteq [id : 1 .. outbox_id', conv : {r.id : r \in conversations'},
                              kind : {"PARTICIPANT"}]
      <3>1. {r.id : r \in conversations} \subseteq {r.id : r \in conversations'}
        BY <1>3, <1>10
      <3> QED BY <1>3, <1>10, <3>1 DEF EventIdInv
    <2>7. \A e, f \in Events' : e.id = f.id => e = f
      BY <2>1, <2>2, <2>3 DEF EventIdInv
    <2>8. \A q \in Creates : pc'[q] = "commit" => pc[q] = "commit" /\ q # p
      BY <1>3, <1>10
    <2>9. EventIdInv'
      BY <1>3, <1>10, <2>1, <2>2, <2>6, <2>7, <2>8 DEF EventIdInv
    <2>10. CreateAttempts \subseteq CreateAttempts'
      BY <1>3, <1>10 DEF CreateAttempts
    <2>11. RowCountInv'
      BY <1>0, <1>3, <1>5, <1>6, <1>10, <2>10, AttemptsGrow DEF RowCountInv
    <2> QED BY <2>5, <2>9, <2>11 DEF new
  <1>11. ASSUME NEW r \in conversations, ReadConversation(r)
         PROVE  Events' = Events
    BY <1>11 DEF ReadConversation, tables, Events
  <1> QED BY <1>4, <1>8, <1>9, <1>10, <1>11 DEF CreateNext

\* ... and so does a membership change, whose row is the newest of all.
LEMMA ChangeStep ==
    ASSUME TableInv, ChangeMembership
    PROVE  TableInv' /\ \E e : NewEvent(e)
  <1> USE DEF TableInv
  <1>1. PICK r \in conversations :
           changes' = changes \cup {[id |-> outbox_id + 1, conv |-> r.id,
                                     kind |-> "PARTICIPANT"]}
    BY DEF ChangeMembership
  <1>2. /\ Cardinality(changes) < MaxChanges /\ outbox_id' = outbox_id + 1
        /\ UNCHANGED <<conversations, outbox, cached, faults, cmd, pc, attempt, looking,
                       found, snapshot, event_id, result>>
    BY DEF ChangeMembership, createVars
  <1> DEFINE new == [id |-> outbox_id + 1, conv |-> r.id, kind |-> "PARTICIPANT"]
  <1>3. TypeOK /\ outbox_id \in Nat
    BY DEF CreateInv, TypeOK
  <1>4. 1 .. outbox_id \subseteq 1 .. outbox_id' /\ 0 .. outbox_id \subseteq 0 .. outbox_id'
        /\ outbox_id' \in Nat /\ outbox_id + 1 \in 1 .. outbox_id'
    BY <1>2, <1>3
  <1>5. CreateInv'
    <2>1. TypeOK'
      BY <1>2, <1>3, <1>4 DEF TypeOK
    <2> QED BY <1>2, <2>1 DEF CreateInv, ValidInv, IndexInv, ResultInv, HoldsIndex,
               Conflict, ById, ByKey, Answers
  <1>6. \A e \in Events : e.id \in Nat /\ e.id <= outbox_id
    BY <1>3, EventFields
  <1>7. Events' = Events \cup {new}
    BY <1>1, <1>2 DEF Events
  <1>8. new.id = outbox_id + 1 /\ new.id # 0
        /\ new \in [id : 1 .. outbox_id', conv : {x.id : x \in conversations},
                    kind : {"PARTICIPANT"}]
    BY <1>3, <1>4
  <1>9. changes' \subseteq [id : 1 .. outbox_id', conv : {x.id : x \in conversations'},
                            kind : {"PARTICIPANT"}]
    BY <1>1, <1>2, <1>4, <1>8 DEF EventIdInv
  <1> HIDE DEF new
  <1>10. NewEvent(new)
    BY <1>3, <1>6, <1>7, <1>8 DEF NewEvent, AllIds
  <1>11. \A e, f \in Events' : e.id = f.id => e = f
    BY <1>3, <1>6, <1>7, <1>8 DEF EventIdInv
  <1>12. \A p \in Creates : event_id[p] \in Nat /\ event_id[p] <= outbox_id
    BY <1>3 DEF TypeOK
  <1>13. \A p \in Creates : pc'[p] = "commit" => \A e \in Events' : e.id # event_id'[p]
    BY <1>2, <1>3, <1>7, <1>8, <1>12 DEF EventIdInv
  <1>14. EventIdInv'
    BY <1>2, <1>9, <1>11, <1>13 DEF EventIdInv
  <1>15. new \notin changes
    BY <1>3, <1>6, <1>8 DEF Events
  <1>16. /\ IsFiniteSet(changes') /\ Cardinality(changes') = Cardinality(changes) + 1
         /\ Cardinality(changes) \in Nat
    <2>1. changes' = changes \cup {new}
      BY <1>1 DEF new
    <2> QED BY <1>15, <2>1, FS_AddElement, FS_CardinalityType DEF RowCountInv
  <1>17. CreateAttempts' = CreateAttempts /\ Cardinality(CreateAttempts) \in Nat
    <2>1. CreateAttempts \in SUBSET (Creates \X (1 .. MaxAttempts))
      BY DEF CreateAttempts
    <2> QED BY <1>2, <2>1, AttemptsGrow DEF CreateAttempts
  <1>18. RowCountInv'
    BY <1>2, <1>3, <1>16, <1>17, EventsAssumption DEF RowCountInv
  <1> QED BY <1>5, <1>10, <1>14, <1>18

\* Every step keeps the tables' invariant.  A step of the writers adds at most
\* one event, the newest of its conversation; the relays add none.
LEMMA TableStep ==
    ASSUME TableInv, [EventsNext]_eventVars
    PROVE  /\ TableInv'
           /\ \/ UNCHANGED relayVars /\ (Events' = Events \/ \E e : NewEvent(e))
              \/ Events' = Events /\ \E w \in Relays : RelayStep(w)
  <1>1. CASE Create
    <2>1. CreateInv'
      BY <1>1, CreateInvStep DEF Create, TableInv
    <2> QED BY <1>1, <2>1, CreateTableStep DEF Create, TableInv
  <1>2. CASE ChangeMembership
    BY <1>2, ChangeStep DEF ChangeMembership
  <1>3. ASSUME UNCHANGED <<vars, changes>>
        PROVE  TableInv' /\ Events' = Events
    <2>1. CreateInv'
      BY <1>3, CreateInvStep DEF TableInv
    <2>2. UNCHANGED <<outbox, outbox_id, conversations, event_id, pc, attempt, changes>>
      BY <1>3 DEF vars, tables, createVars
    <2> QED BY <2>1, <2>2 DEF TableInv, EventIdInv, RowCountInv, CreateAttempts, Events
  <1>4. ASSUME NEW w \in Relays, RelayStep(w)
        PROVE  TableInv' /\ Events' = Events
    BY <1>3, <1>4 DEF RelayStep, SelectBatch, Publish, PublishFails, CommitBatch, RollBack
  <1>5. CASE UNCHANGED eventVars
    BY <1>3, <1>5 DEF eventVars
  <1> QED BY <1>1, <1>2, <1>4, <1>5 DEF EventsNext

\* The invariant of the tables holds in every reachable state.
THEOREM TableInvariant == EventsSpec => []TableInv
  <1>1. EventsInit => TableInv
    <2> SUFFICES ASSUME EventsInit PROVE TableInv
      OBVIOUS
    <2>1. CreateInv
      BY CreateInit DEF EventsInit
    <2>2. EventIdInv
      BY DEF EventsInit, Init, EventIdInv, Events
    <2>3. IsFiniteSet(changes) /\ Cardinality(changes) = 0 /\ outbox_id = 0
      BY FS_EmptySet DEF EventsInit, Init
    <2>4. CreateAttempts \in SUBSET (Creates \X (1 .. MaxAttempts))
      BY DEF CreateAttempts
    <2>5. Cardinality(CreateAttempts) \in Nat
      BY <2>4, AttemptsGrow
    <2>6. RowCountInv
      BY <2>3, <2>5, EventsAssumption DEF RowCountInv
    <2> QED BY <2>1, <2>2, <2>6 DEF TableInv
  <1>2. TableInv /\ [EventsNext]_eventVars => TableInv'
    BY TableStep
  <1> QED BY <1>1, <1>2, PTL DEF EventsSpec

\* For any number of racing calls, attempts and faults: CreateConversation never
\* stores two conversations with one id, nor two for one pair of users.
THEOREM OneConversationPerPairCorrect == EventsSpec => []OneConversationPerPair
  <1>1. TableInv => OneConversationPerPair
    <2> SUFFICES ASSUME TableInv, NEW r \in conversations, NEW s \in conversations, r # s
                 PROVE  /\ r.id # s.id
                        /\ r.key # NoKey /\ s.key # NoKey => r.members # s.members
      BY DEF OneConversationPerPair
    <2>1. ~SameRow(r, s)
      BY DEF TableInv, CreateInv, IndexInv
    <2>2. \A x \in conversations : x.key # NoKey => x.key = x.members
      BY RowFields DEF TableInv, CreateInv, TypeOK, ValidRows, LookupKey
    <2> QED BY <2>1, <2>2 DEF SameRow
  <1> QED BY <1>1, TableInvariant, PTL

\* For any number of racing calls, attempts and faults: a CreateConversation that
\* succeeds returns a stored conversation with the id or the pair it asked for.
THEOREM AnswersAreStoredCorrect == EventsSpec => []AnswersAreStored
  <1>1. TableInv => AnswersAreStored
    BY DEF TableInv, CreateInv, ResultInv, Answers, AnswersAreStored
  <1> QED BY <1>1, TableInvariant, PTL

-----------------------------------------------------------------------------
(* ConversationDirectory is implemented *)

\* What call p was answered with.
Reply(p) == IF pc[p] = "done" THEN result[p] ELSE NoConv

\* A step that makes no conversation and answers no call.
LEMMA NoAnswer ==
    ASSUME UNCHANGED <<cmd, conversations, outbox>>,
           \A p \in Creates : Reply(p)' = Reply(p)
    PROVE  UNCHANGED Directory!vars
  BY DEF Directory!vars, Reply

\* A call is answered with a conversation that is there.
LEMMA FindRefines ==
    ASSUME TableInv, NEW p \in Creates, LookupHit(p) \/ CommitFound(p)
    PROVE  Directory!Next
  <1>1. /\ UNCHANGED <<cmd, conversations, outbox>>
        /\ pc[p] # "done" /\ pc' = [pc EXCEPT ![p] = "done"]
        /\ \A q \in Creates \ {p} : result'[q] = result[q]
    BY DEF LookupHit, CommitFound, tables, TableInv, CreateInv, TypeOK
  <1>2. PICK r \in conversations : r = result'[p] /\ Answers(p, r)
    <2>1. CASE LookupHit(p)
      BY <2>1 DEF LookupHit, TableInv, CreateInv, TypeOK, ResultInv
    <2>2. CASE CommitFound(p)
      BY <2>2 DEF CommitFound, TableInv, CreateInv, ResultInv
    <2> QED BY <2>1, <2>2
  <1>3. DOMAIN pc = Creates
    BY DEF TableInv, CreateInv, TypeOK
  <1>4. Directory!Meant(p, r)
    BY <1>2 DEF Directory!Meant, Answers
  <1>5. Directory!Find(p, r)
    BY <1>1, <1>2, <1>3, <1>4 DEF Directory!Find
  <1> QED BY <1>5 DEF Directory!Next

\* A commit makes the conversation: none with its id or key was committed while
\* the call held the index.
LEMMA MakeRefines ==
    ASSUME TableInv, NEW p \in Creates, Commit(p)
    PROVE  Directory!Next
  <1>1. PICK r, e : r = Row(cmd[p]) /\ e = Created(p)
    OBVIOUS
  <1>2. /\ conversations' = conversations \cup {r} /\ outbox' = outbox \cup {e}
        /\ UNCHANGED <<cmd, result>> /\ pc[p] = "commit"
        /\ pc' \in {[pc EXCEPT ![p] = "done"], [pc EXCEPT ![p] = "failed"]}
    BY <1>1 DEF Commit, AfterCommit
  <1>3. result[p] = r /\ r.id = cmd[p].id /\ r.key = LookupKey(cmd[p])
    BY <1>1, <1>2, RowFields DEF TableInv, CreateInv, ResultInv
  <1>4. /\ e.id = event_id[p] /\ e.kind = "CREATED" /\ e.conv = r.id
        /\ \A f \in outbox : f.id # e.id
    BY <1>1, <1>2, <1>3 DEF Created, TableInv, EventIdInv, Events
  <1>5. \A s \in conversations : ~Directory!Meant(p, s)
    BY <1>2 DEF TableInv, CreateInv, IndexInv, HoldsIndex, Conflict, ById, ByKey,
       Directory!Meant
  <1>6. DOMAIN pc = Creates
    BY DEF TableInv, CreateInv, TypeOK
  <1>7. Directory!Make(p, r, e)
    BY <1>2, <1>3, <1>4, <1>5, <1>6 DEF Directory!Make
  <1> QED BY <1>2, <1>7 DEF Directory!Next

\* For any number of racing calls, attempts and faults: CreateConversation, with
\* its lookups before the transaction and its retries, is an atomic find-or-make
\* with one conversation per id and per pair of users, and one answer per call.
THEOREM DirectoryRefinement == EventsSpec => DirectorySpec
  <1>1. EventsInit => Directory!Init
    BY DEF EventsInit, Init, Directory!Init
  <1>2. ASSUME TableInv, [EventsNext]_eventVars
        PROVE  [Directory!Next]_(Directory!vars)
    <2>1. ASSUME NEW p \in Creates, CreateStep(p) \/ Abort(p) \/ SerializationFailure(p),
                 ~Commit(p), ~LookupHit(p), ~CommitFound(p)
          PROVE  UNCHANGED Directory!vars
      <3>1. UNCHANGED <<cmd, conversations, outbox>>
        BY <2>1 DEF CreateStep, LookupById, LookupByKey, LookupMiss, CheckId, CheckKey,
           InsertConversation, LostRace, Retry, DuplicateParticipant,
           EmitConversationCreated, Abort, SerializationFailure, tables
      <3>2. \A q \in Creates : /\ pc'[q] = "done" <=> pc[q] = "done"
                               /\ pc[q] = "done" => result'[q] = result[q]
        BY <1>2, <2>1 DEF CreateStep, LookupById, LookupByKey, LookupMiss, CheckId,
           CheckKey, InsertConversation, LostRace, Retry, DuplicateParticipant,
           EmitConversationCreated, Abort, SerializationFailure, InTx, TableInv,
           CreateInv, TypeOK
      <3> QED BY <3>1, <3>2, NoAnswer DEF Reply
    <2>2. ASSUME UNCHANGED <<conversations, outbox, createVars>>
          PROVE  UNCHANGED Directory!vars
      BY <2>2, NoAnswer DEF createVars, Reply
    <2>3. CASE Create
      BY <1>2, <2>1, <2>2, <2>3, FindRefines, MakeRefines
         DEF Create, CreateNext, CreateStep, ReadConversation, tables
    <2>4. CASE ~Create
      BY <1>2, <2>2, <2>4 DEF EventsNext, ChangeMembership, RelayStep, SelectBatch, Publish,
         PublishFails, CommitBatch, RollBack, eventVars, vars, tables
    <2> QED BY <2>3, <2>4
  <1> QED BY <1>1, <1>2, TableInvariant, PTL DEF EventsSpec, DirectorySpec, Directory!Spec

-----------------------------------------------------------------------------
(* The relays *)

\* What the relays have: rows of the table, each in one batch at most, and the
\* row that failed is not among those that were sent.
RelayTypes ==
    /\ processed \subseteq AllIds /\ outbox_dlq \subseteq AllIds
    /\ topic \in Seq(Nat) /\ \A k \in 1 .. Len(topic) : topic[k] \in AllIds
    /\ retry_count \in [RowIds -> Nat] /\ failures \in [RowIds -> Nat]
    /\ batch \in [Relays -> SUBSET AllIds] /\ sent \in [Relays -> SUBSET AllIds]
    /\ failed \in [Relays -> AllIds \cup {0}]

BatchInv ==
    /\ \A v, w \in Relays : v # w => batch[v] \cap batch[w] = {}
    /\ \A w \in Relays :
          /\ batch[w] \cap (processed \cup outbox_dlq) = {}
          /\ sent[w] \subseteq batch[w]
          /\ failed[w] # 0 => failed[w] \in batch[w] \ sent[w]
          /\ \A n \in sent[w] : InTopic(n, Len(topic))

\* retry_count counts failed publishes whose batch was committed; the failure of
\* an open batch comes on top.
RetryInv ==
    /\ \A n \in RowIds : retry_count[n] <= failures[n]
    /\ \A w \in Relays : failed[w] # 0 => retry_count[failed[w]] < failures[failed[w]]

RelayInv == RelayTypes /\ BatchInv /\ RetryInv /\ NoEventLost

\* Naturals are well ordered: the lowest id of a batch exists.
LEMMA MinOf ==
    ASSUME NEW S \in SUBSET Nat, S # {}
    PROVE  Min(S) \in S /\ \A y \in S : Min(S) <= y
  <1> DEFINE R == OpToRel(<, Nat)
  <1>1. IsWellFoundedOn(R, Nat)
    BY NatLessThanWellFounded
  <1>2. \A x, y \in Nat : x < y => <<x, y>> \in R
    BY DEF OpToRel
  <1> HIDE DEF R
  <1>3. PICK x \in S : \A y \in S : ~ (<<y, x>> \in R)
    BY <1>1, WFMin
  <1>4. \A y \in S : x <= y
    <2> TAKE y \in S
    <2>1. x \in Nat /\ y \in Nat
      OBVIOUS
    <2>2. ~(y < x)
      BY <1>2, <1>3, <2>1
    <2> QED BY <2>1, <2>2
  <1> QED BY <1>4 DEF Min

\* What is appended to the topic is in it, and what was in it stays.
LEMMA AppendTopic ==
    ASSUME topic \in Seq(Nat), NEW n \in Nat, topic' = Append(topic, n)
    PROVE  /\ topic' \in Seq(Nat) /\ Len(topic) \in Nat /\ Len(topic') = Len(topic) + 1
           /\ \A k \in 1 .. Len(topic) : topic'[k] = topic[k]
           /\ topic'[Len(topic) + 1] = n
           /\ \A m : InTopic(m, Len(topic)) => InTopic(m, Len(topic))'
           /\ InTopic(n, Len(topic))'
  <1>1. /\ topic' \in Seq(Nat) /\ Len(topic) \in Nat /\ Len(topic') = Len(topic) + 1
        /\ \A k \in 1 .. Len(topic) : topic'[k] = topic[k]
        /\ topic'[Len(topic) + 1] = n
    OBVIOUS
  <1>2. \A m : InTopic(m, Len(topic)) => InTopic(m, Len(topic))'
    BY <1>1 DEF InTopic
  <1>3. InTopic(n, Len(topic))'
    BY <1>1 DEF InTopic
  <1> QED BY <1>1, <1>2, <1>3

\* The ids of events are row ids.
LEMMA AllIdsType ==
    ASSUME TableInv
    PROVE  AllIds \subseteq RowIds /\ AllIds \subseteq Nat /\ 0 \notin AllIds
  <1>1. \A e \in Events : e.id \in 1 .. outbox_id /\ e.id \in Nat
    BY EventFields DEF TableInv, CreateInv
  <1>2. outbox_id \in Nat
    BY DEF TableInv, CreateInv, TypeOK
  <1> QED BY <1>1, <1>2, RowsFit DEF AllIds

\* The writers only add rows.
LEMMA WriterStep ==
    ASSUME TableInv, RelayInv, UNCHANGED relayVars, Events' = Events \/ \E e : NewEvent(e)
    PROVE  RelayInv'
  <1>1. AllIds \subseteq AllIds'
    BY DEF AllIds, NewEvent
  <1>2. UNCHANGED <<processed, retry_count, outbox_dlq, topic, batch, sent, failed, failures>>
    BY DEF relayVars, relayTables, workVars
  <1>3. RelayTypes'
    BY <1>1, <1>2 DEF RelayInv, RelayTypes
  <1> QED BY <1>2, <1>3 DEF RelayInv, BatchInv, RetryInv, NoEventLost, InTopic

\* The row a relay publishes next.
LEMMA NextRowFacts ==
    ASSUME TableInv, RelayInv, NEW w \in Relays, NextRow(w) # {}
    PROVE  /\ Min(NextRow(w)) \in batch[w] \ sent[w] /\ failed[w] = 0
           /\ Min(NextRow(w)) \in AllIds /\ Min(NextRow(w)) \in Nat
           /\ Min(NextRow(w)) \in RowIds /\ Min(NextRow(w)) # 0
           /\ \A m \in batch[w] \ sent[w] : Min(NextRow(w)) <= m
  <1>1. failed[w] = 0 /\ NextRow(w) = batch[w] \ sent[w]
    BY DEF NextRow
  <1>2. NextRow(w) \subseteq AllIds
    BY <1>1 DEF RelayInv, RelayTypes
  <1>3. Min(NextRow(w)) \in NextRow(w) /\ \A m \in NextRow(w) : Min(NextRow(w)) <= m
    BY <1>2, AllIdsType, MinOf
  <1> QED BY <1>1, <1>2, <1>3, AllIdsType

\* Every step of a relay preserves the invariant.
LEMMA RelayInvStep ==
    ASSUME TableInv, RelayInv, Events' = Events, NEW w \in Relays, RelayStep(w)
    PROVE  RelayInv'
  <1>0. AllIds' = AllIds
    BY DEF AllIds
  <1> USE DEF RelayInv
  <1>1. CASE SelectBatch(w)
    <2>1. PICK B \in SUBSET Selectable : batch' = [batch EXCEPT ![w] = B]
      BY <1>1 DEF SelectBatch
    <2>2. /\ UNCHANGED <<processed, retry_count, outbox_dlq, topic, sent, failed, failures>>
          /\ batch[w] = {}
      BY <1>1 DEF SelectBatch, relayTables
    <2>3. B \subseteq AllIds /\ B \cap (processed \cup outbox_dlq) = {}
          /\ \A v \in Relays : B \cap batch[v] = {}
      BY DEF Selectable, Rows, Locked, AllIds, Events
    <2>4. RelayTypes'
      BY <1>0, <2>1, <2>2, <2>3 DEF RelayTypes
    <2>5. \A v \in Relays : batch'[v] = IF v = w THEN B ELSE batch[v]
      BY <2>1 DEF RelayTypes
    <2>6. BatchInv'
      BY <2>2, <2>3, <2>5 DEF BatchInv, InTopic
    <2> QED BY <2>2, <2>4, <2>6 DEF RetryInv, NoEventLost, InTopic
  <1>2. CASE Publish(w)
    <2>1. PICK n \in batch[w] \ sent[w] :
             /\ topic' = Append(topic, n) /\ sent' = [sent EXCEPT ![w] = @ \cup {n}]
             /\ n \in AllIds /\ n \in Nat /\ failed[w] = 0
      BY <1>2, NextRowFacts DEF Publish
    <2>2. UNCHANGED <<processed, retry_count, outbox_dlq, batch, failed, failures>>
      BY <1>2 DEF Publish, relayTables
    <2>3. /\ topic' \in Seq(Nat) /\ Len(topic) \in Nat /\ Len(topic') = Len(topic) + 1
          /\ \A k \in 1 .. Len(topic) : topic'[k] = topic[k]
          /\ topic'[Len(topic) + 1] = n
          /\ \A m : InTopic(m, Len(topic)) => InTopic(m, Len(topic))'
          /\ InTopic(n, Len(topic))'
      BY <2>1, AppendTopic DEF RelayTypes
    <2>4. RelayTypes'
      BY <1>0, <2>1, <2>2, <2>3 DEF RelayTypes
    <2>5. \A v \in Relays : sent'[v] = IF v = w THEN sent[v] \cup {n} ELSE sent[v]
      BY <2>1 DEF RelayTypes
    <2>6. BatchInv'
      BY <2>1, <2>2, <2>3, <2>5 DEF BatchInv
    <2> QED BY <2>2, <2>3, <2>4, <2>6 DEF RetryInv, NoEventLost
  <1>3. CASE PublishFails(w)
    <2>1. PICK n \in batch[w] \ sent[w] :
             /\ topic' \in {topic, Append(topic, n)} /\ failed' = [failed EXCEPT ![w] = n]
             /\ failures' = [failures EXCEPT ![n] = @ + 1]
             /\ n \in AllIds /\ n \in Nat /\ failed[w] = 0 /\ n \in RowIds
      BY <1>3, NextRowFacts DEF PublishFails
    <2>2. UNCHANGED <<processed, retry_count, outbox_dlq, batch, sent>>
      BY <1>3 DEF PublishFails, relayTables
    <2>3. /\ topic' \in Seq(Nat) /\ \A k \in 1 .. Len(topic') : topic'[k] \in AllIds
          /\ \A m : InTopic(m, Len(topic)) => InTopic(m, Len(topic))'
      <3>1. CASE topic' = topic
        BY <3>1 DEF RelayTypes, InTopic
      <3>2. CASE topic' = Append(topic, n)
        BY <2>1, <3>2, AppendTopic DEF RelayTypes
      <3> QED BY <2>1, <3>1, <3>2
    <2>4. RelayTypes'
      BY <1>0, <2>1, <2>2, <2>3 DEF RelayTypes
    <2>5. \A v \in Relays : failed'[v] = IF v = w THEN n ELSE failed[v]
      BY <2>1 DEF RelayTypes
    <2>6. \A m \in RowIds : /\ failures'[m] = IF m = n THEN failures[m] + 1 ELSE failures[m]
                            /\ failures[m] \in Nat /\ retry_count[m] \in Nat
      BY <2>1 DEF RelayTypes
    <2>7. BatchInv'
      BY <2>1, <2>2, <2>3, <2>5 DEF BatchInv
    <2>8. \A v \in Relays : failed[v] # 0 => failed[v] \in RowIds
      BY AllIdsType DEF RelayTypes
    <2>9. RetryInv'
      BY <2>1, <2>2, <2>5, <2>6, <2>8 DEF RetryInv
    <2>10. outbox_dlq \subseteq RowIds
      BY AllIdsType DEF RelayTypes
    <2>11. NoEventLost'
      BY <2>2, <2>3, <2>6, <2>10, EventsAssumption DEF NoEventLost
    <2> QED BY <2>4, <2>7, <2>9, <2>11
  <1>4. CASE CommitBatch(w)
    <2>1. /\ processed' = processed \cup sent[w] /\ outbox_dlq' = outbox_dlq \cup DeadLetters(w)
          /\ retry_count' = [n \in RowIds |->
                IF n = failed[w] THEN retry_count[n] + 1 ELSE retry_count[n]]
          /\ batch' = [batch EXCEPT ![w] = {}] /\ sent' = [sent EXCEPT ![w] = {}]
          /\ failed' = [failed EXCEPT ![w] = 0] /\ UNCHANGED <<topic, failures>>
      BY <1>4 DEF CommitBatch
    <2>2. \A n \in DeadLetters(w) : /\ n = failed[w] /\ n # 0 /\ n \in batch[w] \ sent[w]
                                    /\ n \in AllIds /\ n \in RowIds
                                    /\ retry_count[n] >= RelayRetries
      <3> TAKE n \in DeadLetters(w)
      <3>1. n = failed[w] /\ n # 0 /\ retry_count[n] >= RelayRetries
        BY DEF DeadLetters, Exhausted
      <3>2. n \in batch[w] \ sent[w] /\ batch[w] \subseteq AllIds
        BY <3>1 DEF BatchInv, RelayTypes
      <3> QED BY <3>1, <3>2, AllIdsType
    <2>3. \A v \in Relays : /\ batch'[v] = IF v = w THEN {} ELSE batch[v]
                            /\ sent'[v] = IF v = w THEN {} ELSE sent[v]
                            /\ failed'[v] = IF v = w THEN 0 ELSE failed[v]
      BY <2>1 DEF RelayTypes
    <2>4. \A n \in RowIds : retry_count[n] \in Nat /\ failures[n] \in Nat
      BY DEF RelayTypes
    <2>5. RelayTypes'
      BY <1>0, <2>1, <2>2 DEF RelayTypes
    <2>6. BatchInv'
      BY <2>1, <2>2, <2>3 DEF BatchInv, InTopic
    <2>7. \A v \in Relays : failed[v] # 0 => failed[v] \in RowIds
      BY AllIdsType DEF RelayTypes
    <2>8. \A v \in Relays \ {w} : failed[v] # 0 => failed[v] # failed[w]
      BY DEF BatchInv
    <2>9. RetryInv'
      <3>1. \A n \in RowIds : retry_count'[n] <= failures'[n]
        <4> TAKE n \in RowIds
        <4>1. n # 0
          BY DEF RowIds
        <4>2. CASE n = failed[w]
          BY <2>1, <2>4, <4>1, <4>2 DEF RetryInv
        <4>3. CASE n # failed[w]
          BY <2>1, <4>3 DEF RetryInv
        <4> QED BY <4>2, <4>3
      <3>2. \A v \in Relays : failed'[v] # 0 => retry_count'[failed'[v]] < failures'[failed'[v]]
        BY <2>1, <2>3, <2>7, <2>8 DEF RetryInv
      <3> QED BY <3>1, <3>2 DEF RetryInv
    <2>10. \A n \in DeadLetters(w) : failures[n] > RelayRetries
      BY <2>2, <2>4, EventsAssumption DEF RetryInv
    <2>11. NoEventLost'
      BY <2>1, <2>2, <2>10 DEF NoEventLost, BatchInv, InTopic
    <2> QED BY <2>5, <2>6, <2>9, <2>11
  <1>5. CASE RollBack(w)
    <2>1. /\ batch' = [batch EXCEPT ![w] = {}] /\ sent' = [sent EXCEPT ![w] = {}]
          /\ failed' = [failed EXCEPT ![w] = 0]
          /\ UNCHANGED <<processed, retry_count, outbox_dlq, topic, failures>>
      BY <1>5 DEF RollBack, relayTables
    <2>2. \A v \in Relays : /\ batch'[v] = IF v = w THEN {} ELSE batch[v]
                            /\ sent'[v] = IF v = w THEN {} ELSE sent[v]
                            /\ failed'[v] = IF v = w THEN 0 ELSE failed[v]
      BY <2>1 DEF RelayTypes
    <2>3. RelayTypes'
      BY <1>0, <2>1 DEF RelayTypes
    <2>4. BatchInv'
      BY <2>1, <2>2 DEF BatchInv, InTopic
    <2> QED BY <2>1, <2>2, <2>3, <2>4 DEF RetryInv, NoEventLost, InTopic
  <1> QED BY <1>1, <1>2, <1>3, <1>4, <1>5 DEF RelayStep

\* The relays' invariant holds at the start.
LEMMA RelayInit == EventsInit => RelayInv
  <1> SUFFICES ASSUME EventsInit PROVE RelayInv
    OBVIOUS
  <1>1. RelayTypes
    BY DEF EventsInit, RelayTypes
  <1>2. BatchInv /\ RetryInv /\ NoEventLost
    BY DEF EventsInit, BatchInv, RetryInv, NoEventLost
  <1> QED BY <1>1, <1>2 DEF RelayInv

\* For any number of relays, failures and attempts: an event that left the
\* queue was published, or is a dead letter after more than RelayRetries failed
\* publishes.
THEOREM NoEventLostCorrect == EventsSpec => []NoEventLost
  <1>1. TableInv /\ RelayInv /\ [EventsNext]_eventVars => RelayInv'
    BY TableStep, WriterStep, RelayInvStep
  <1>2. RelayInv => NoEventLost
    BY DEF RelayInv
  <1> QED BY <1>1, <1>2, RelayInit, TableInvariant, PTL DEF EventsSpec

-----------------------------------------------------------------------------
(* The order of a conversation's events, with one relay *)

\* Event e comes before event f in their conversation.
Earlier(e, f) == e.conv = f.conv /\ e.id < f.id

\* A batch has what comes before its rows and is still in the queue.
BatchOrder ==
    \A w \in Relays : \A e, f \in Events :
        f.id \in batch[w] /\ Earlier(e, f) => e.id \in processed \cup outbox_dlq \cup batch[w]

TopicOrder ==
    \A k \in 1 .. Len(topic) : \A e, f \in Events :
        topic[k] = f.id /\ Earlier(e, f) => InTopic(e.id, k) \/ e.id \in outbox_dlq

OrderInv == BatchOrder /\ TopicOrder

\* A new event is the last of its conversation, so it comes before none.
LEMMA WriterOrder ==
    ASSUME TableInv, RelayInv, OrderInv, UNCHANGED relayVars,
           Events' = Events \/ \E e : NewEvent(e)
    PROVE  OrderInv'
  <1>1. UNCHANGED <<processed, outbox_dlq, topic, batch>>
    BY DEF relayVars, relayTables, workVars
  <1>2. CASE Events' = Events
    BY <1>1, <1>2 DEF OrderInv, BatchOrder, TopicOrder, InTopic
  <1>3. ASSUME NEW n, NewEvent(n)
        PROVE  OrderInv'
    <2>1. /\ Events' = Events \cup {n} /\ n.id \in Nat /\ n.id \notin AllIds
          /\ \A f \in Events : ~Earlier(n, f)
      <3>1. \A f \in Events : f.id \in Nat
        BY EventFields DEF TableInv, CreateInv
      <3> QED BY <1>3, <3>1 DEF NewEvent, Earlier
    <2>2. ~Earlier(n, n)
      BY <2>1 DEF Earlier
    <2>3. \A e, f \in Events' : /\ f.id \in AllIds /\ Earlier(e, f)
                                => e \in Events /\ f \in Events
      BY <2>1, <2>2
    <2>4. BatchOrder'
      BY <1>1, <2>3 DEF OrderInv, BatchOrder, RelayInv, RelayTypes
    <2>5. TopicOrder'
      BY <1>1, <2>3 DEF OrderInv, TopicOrder, RelayInv, RelayTypes, InTopic
    <2> QED BY <2>4, <2>5 DEF OrderInv
  <1> QED BY <1>2, <1>3

\* The row published next finds what comes before it in the topic.
LEMMA PublishInOrder ==
    ASSUME TableInv, RelayInv, OrderInv, Events' = Events, outbox_dlq' = outbox_dlq,
           NEW w \in Relays, NextRow(w) # {}, topic' = Append(topic, Min(NextRow(w)))
    PROVE  TopicOrder'
  <1>1. PICK n \in Nat : n = Min(NextRow(w))
    BY NextRowFacts
  <1>2. n \in batch[w] \ sent[w] /\ \A m \in batch[w] \ sent[w] : n <= m
    BY <1>1, NextRowFacts
  <1>3. topic' = Append(topic, n) /\ topic \in Seq(Nat)
    BY <1>1 DEF RelayInv, RelayTypes
  <1>4. /\ Len(topic) \in Nat /\ Len(topic') = Len(topic) + 1
        /\ \A k \in 1 .. Len(topic) : topic'[k] = topic[k]
        /\ topic'[Len(topic) + 1] = n
    BY <1>3, AppendTopic
  <1>5. \A e \in Events : e.id \in Nat
    BY EventFields DEF TableInv, CreateInv
  <1>6. ASSUME NEW e \in Events, NEW f \in Events, f.id = n, Earlier(e, f)
        PROVE  InTopic(e.id, Len(topic)) \/ e.id \in outbox_dlq
    <2>1. e.id \in processed \cup outbox_dlq \cup batch[w] /\ e.id < n
      BY <1>2, <1>6 DEF OrderInv, BatchOrder, Earlier
    <2>2. e.id \in batch[w] => e.id \in sent[w]
      BY <1>2, <1>5, <2>1
    <2> QED BY <2>1, <2>2 DEF RelayInv, BatchInv, NoEventLost
  <1>7. ASSUME NEW k \in 1 .. Len(topic'), NEW e \in Events, NEW f \in Events,
               topic'[k] = f.id, Earlier(e, f)
        PROVE  InTopic(e.id, k)' \/ e.id \in outbox_dlq
    <2>1. CASE k = Len(topic) + 1
      <3>1. InTopic(e.id, Len(topic)) \/ e.id \in outbox_dlq
        BY <1>4, <1>6, <1>7, <2>1
      <3> QED BY <1>4, <2>1, <3>1 DEF InTopic
    <2>2. CASE k \in 1 .. Len(topic)
      <3>1. InTopic(e.id, k) \/ e.id \in outbox_dlq
        BY <1>4, <1>7, <2>2 DEF OrderInv, TopicOrder
      <3> QED BY <1>4, <2>2, <3>1 DEF InTopic
    <2> QED BY <1>4, <2>1, <2>2
  <1> QED BY <1>7 DEF TopicOrder

\* ORDER BY id LIMIT BatchSize takes the lower of two rows if it takes the
\* higher.
LEMMA LowestFirst ==
    ASSUME NEW S \in SUBSET Nat, IsFiniteSet(S), NEW m \in S, NEW n \in S, m < n,
           Cardinality({k \in S : k < n}) < BatchSize
    PROVE  Cardinality({k \in S : k < m}) < BatchSize
  <1> DEFINE M == {k \in S : k < m}
             N == {k \in S : k < n}
  <1>1. M \subseteq N
    <2>1. m \in Nat /\ n \in Nat /\ \A k \in S : k \in Nat
      OBVIOUS
    <2>2. \A k \in S : k < m => k < n
      BY <2>1
    <2> QED BY <2>2
  <1>2. IsFiniteSet(N)
    <2>1. N \in SUBSET S
      OBVIOUS
    <2> QED BY <2>1, FS_Subset
  <1>3. IsFiniteSet(M) /\ Cardinality(M) <= Cardinality(N)
    BY <1>1, <1>2, FS_Subset
  <1>4. Cardinality(M) \in Nat /\ Cardinality(N) \in Nat
    BY <1>2, <1>3, FS_CardinalityType
  <1> QED BY <1>3, <1>4, EventsAssumption

\* Every step of the only relay keeps the order.
LEMMA RelayOrder ==
    ASSUME TableInv, RelayInv, OrderInv, Events' = Events, NEW w, Relays = {w}, RelayStep(w)
    PROVE  OrderInv'
  <1>1. CASE SelectBatch(w)
    <2>1. PICK B : /\ B = {n \in Selectable :
                              Cardinality({m \in Selectable : m < n}) < BatchSize}
                   /\ batch' = [batch EXCEPT ![w] = B]
      BY <1>1 DEF SelectBatch
    <2>2. UNCHANGED <<processed, outbox_dlq, topic>> /\ batch[w] = {} /\ batch'[w] = B
      BY <1>1, <2>1 DEF SelectBatch, relayTables, RelayInv, RelayTypes
    <2>3. Selectable = AllIds \ (processed \cup outbox_dlq)
      BY <2>2 DEF Selectable, Rows, Locked, AllIds, Events
    <2>4. Selectable \subseteq Nat /\ IsFiniteSet(Selectable)
      <3>1. Selectable \subseteq 1 .. outbox_id /\ outbox_id \in Nat
        BY <2>3, EventFields DEF TableInv, CreateInv, TypeOK, AllIds
      <3>2. IsFiniteSet(1 .. outbox_id)
        BY <3>1, FS_Interval
      <3>3. IsFiniteSet(Selectable)
        BY <3>1, <3>2, FS_Subset
      <3> QED BY <3>1, <3>3
    <2>5. ASSUME NEW e \in Events, NEW f \in Events, f.id \in B, Earlier(e, f)
          PROVE  e.id \in processed \cup outbox_dlq \cup B
      <3>1. CASE e.id \in Selectable
        <4>1. f.id \in Selectable /\ e.id < f.id
              /\ Cardinality({m \in Selectable : m < f.id}) < BatchSize
          BY <2>1, <2>5 DEF Earlier
        <4>2. Cardinality({m \in Selectable : m < e.id}) < BatchSize
          BY <2>4, <3>1, <4>1, LowestFirst
        <4> QED BY <2>1, <3>1, <4>2
      <3>2. CASE e.id \notin Selectable
        BY <2>3, <3>2 DEF AllIds
      <3> QED BY <3>1, <3>2
    <2>6. BatchOrder'
      BY <2>2, <2>5 DEF BatchOrder
    <2> QED BY <2>2, <2>6 DEF OrderInv, TopicOrder, InTopic
  <1>2. CASE Publish(w) \/ PublishFails(w)
    <2>1. UNCHANGED <<processed, outbox_dlq, batch>> /\ NextRow(w) # {}
          /\ topic' \in {topic, Append(topic, Min(NextRow(w)))}
      BY <1>2 DEF Publish, PublishFails, relayTables
    <2>2. TopicOrder'
      <3>1. CASE topic' = topic
        BY <2>1, <3>1 DEF OrderInv, TopicOrder, InTopic
      <3>2. CASE topic' = Append(topic, Min(NextRow(w)))
        BY <2>1, <3>2, PublishInOrder
      <3> QED BY <2>1, <3>1, <3>2
    <2> QED BY <2>1, <2>2 DEF OrderInv, BatchOrder
  <1>3. CASE CommitBatch(w) \/ RollBack(w)
    <2>1. /\ batch' = [batch EXCEPT ![w] = {}] /\ topic' = topic
          /\ outbox_dlq \subseteq outbox_dlq'
      BY <1>3 DEF CommitBatch, RollBack, relayTables
    <2>2. batch'[w] = {}
      BY <2>1 DEF RelayInv, RelayTypes
    <2>3. TopicOrder'
      BY <2>1 DEF OrderInv, TopicOrder, InTopic
    <2> QED BY <2>2, <2>3 DEF OrderInv, BatchOrder
  <1> QED BY <1>1, <1>2, <1>3 DEF RelayStep

\* With one relay, for any number of calls, changes, failures and dead letters:
\* the first copy of an event comes after the earlier events of its
\* conversation, unless those became dead letters.
THEOREM EventsInOrderCorrect ==
    ASSUME NEW u, Relays = {u}
    PROVE  EventsSpec => []EventsInOrder
  <1>1. EventsInit => OrderInv
    BY DEF EventsInit, Init, OrderInv, BatchOrder, TopicOrder, Events
  <1>2. TableInv /\ RelayInv /\ [EventsNext]_eventVars => RelayInv'
    BY TableStep, WriterStep, RelayInvStep
  <1>3. TableInv /\ RelayInv /\ OrderInv /\ [EventsNext]_eventVars => OrderInv'
    BY TableStep, WriterOrder, RelayOrder
  <1>4. TableInv /\ RelayInv /\ OrderInv => EventsInOrder
    <2> SUFFICES ASSUME TableInv, RelayInv, OrderInv, NEW k \in 1 .. Len(topic),
                        NEW e \in outbox \cup changes,
                        e.conv = EventOf(topic[k]).conv, e.id < topic[k]
                 PROVE  InTopic(e.id, k) \/ e.id \in outbox_dlq
      BY DEF EventsInOrder
    <2>1. PICK f \in Events : f.id = topic[k]
      BY DEF RelayInv, RelayTypes, AllIds
    <2>2. EventOf(topic[k]) = f
      BY <2>1 DEF EventOf, TableInv, EventIdInv, Events
    <2> QED BY <2>1, <2>2 DEF OrderInv, TopicOrder, Earlier, Events
  <1> QED BY <1>1, <1>2, <1>3, <1>4, RelayInit, TableInvariant, PTL DEF EventsSpec
=============================================================================
