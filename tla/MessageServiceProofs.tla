------------------------ MODULE MessageServiceProofs ------------------------
(***************************************************************************)
(* Proofs about MessageService, for any sets of calls, commands, users and *)
(* conversations and any number of retries, and about MessagePipeline, for *)
(* any number of relays and failures as well.                              *)
(***************************************************************************)
EXTENDS MessagePipeline, FiniteSetTheorems, TLAPS

-----------------------------------------------------------------------------
(* The inductive invariant *)

\* Types, and a delete past its first statement has a target.
TypeInv ==
    /\ TypeOK
    /\ \A d \in DeleteCalls : dpc[d] \in {"lock", "check", "mark", "commit"}
                                 => target[d] \in MsgIds

\* The idempotency table, the messages and the calls that hold a key.
KeyInv ==
    /\ \A p \in SendCalls : snapshot[p] # NoMessage
                               => snapshot[p] = idempotency[cmd[p]]
    /\ \A p \in SendCalls : pc[p] = "replay" => snapshot[p] # NoMessage
    /\ \A p \in SendCalls : HoldsKey(p) => idempotency[cmd[p]] = NoMessage
    /\ \A p, q \in SendCalls : p # q /\ cmd[p] = cmd[q]
                                  => ~(HoldsKey(p) /\ HoldsKey(q))
    /\ \A p \in SendCalls : reply[p] # NoMessage
                               => reply[p] = idempotency[cmd[p]]

\* Each stored message is the one its command's idempotency row names.
StoredInv ==
    /\ \A m \in messages : /\ idempotency[CommandOf(m)] = m.id
                           /\ m.conv = CommandOf(m).conv
                           /\ m.sender = CommandOf(m).user
    /\ \A k \in Commands : idempotency[k] # NoMessage =>
          \E m \in messages : m.id = idempotency[k] /\ CommandOf(m) = k
    /\ \A m, n \in messages : m.id = n.id => m = n

\* Call p has been given a sequence number it may still use.
Numbered(p) == HoldsKey(p) /\ seq_rpc[p] = "ok"

\* A number given out is used by at most one call or message.
SequenceInv ==
    /\ \A p \in SendCalls : pc[p] \in {"write", "commit"} => seq_rpc[p] = "ok"
    /\ \A m \in messages : m.sequence <= next_sequence[m.conv]
    /\ \A p \in SendCalls : Numbered(p) => sequence[p] <= next_sequence[cmd[p].conv]
    /\ \A p, q \in SendCalls :
          /\ p # q /\ Numbered(p) /\ Numbered(q)
          /\ cmd[p].conv = cmd[q].conv
          => sequence[p] # sequence[q]
    /\ \A p \in SendCalls, m \in messages :
          Numbered(p) /\ m.conv = cmd[p].conv => m.sequence # sequence[p]
    /\ SequenceUnique

\* Outbox ids are given out once, to rows and to open transactions.
EventIdInv ==
    /\ \A e \in outbox : e.id <= outbox_id
    /\ \A e, f \in outbox : e.id = f.id => e = f
    /\ \A p \in SendCalls : pc[p] = "commit" =>
          event_id[p] <= outbox_id /\ \A e \in outbox : e.id # event_id[p]
    /\ \A d \in DeleteCalls : dpc[d] = "commit" =>
          devent_id[d] <= outbox_id /\ \A e \in outbox : e.id # devent_id[d]
    /\ \A p, q \in SendCalls : p # q /\ pc[p] = "commit" /\ pc[q] = "commit"
                                  => event_id[p] # event_id[q]
    /\ \A d, e \in DeleteCalls : d # e /\ dpc[d] = "commit" /\ dpc[e] = "commit"
                                    => devent_id[d] # devent_id[e]
    /\ \A p \in SendCalls, d \in DeleteCalls :
          pc[p] = "commit" /\ dpc[d] = "commit" => event_id[p] # devent_id[d]

\* Messages and MESSAGE_SENT events.
SentInv ==
    /\ \A m \in messages : \E e \in outbox : e.type = "MESSAGE_SENT" /\ e.msg = m.id
    /\ \A e \in outbox : \E m \in messages : m.id = e.msg
    /\ \A e, f \in outbox : /\ e.type = "MESSAGE_SENT" /\ f.type = "MESSAGE_SENT"
                            /\ e.msg = f.msg
                            => e = f

\* Row locks, deletions and MESSAGE_DELETED events.
DeleteInv ==
    /\ \A d \in DeleteCalls : dpc[d] \in {"lock", "check", "mark", "commit"} =>
          \E m \in messages : m.id = target[d]
    /\ \A d \in DeleteCalls : dpc[d] = "check"
                                 => dsnapshot[d] = (target[d] \in deleted_at)
    /\ \A d \in DeleteCalls : dpc[d] \in {"mark", "commit"}
                                 => target[d] \notin deleted_at
    /\ \A d, e \in DeleteCalls : d # e /\ target[d] = target[e]
                                    => ~(HoldsRow(d) /\ HoldsRow(e))
    /\ \A d \in DeleteCalls : dpc[d] = "commit" =>
          \E f \in outbox : /\ f.type = "MESSAGE_SENT" /\ f.msg = target[d]
                            /\ f.id < devent_id[d]
    /\ \A id \in deleted_at :
          \E e \in outbox : e.type = "MESSAGE_DELETED" /\ e.msg = id
    /\ \A e \in outbox : e.type = "MESSAGE_DELETED" =>
          /\ e.msg \in deleted_at
          /\ \E f \in outbox : /\ f.type = "MESSAGE_SENT" /\ f.msg = e.msg
                               /\ f.id < e.id
    /\ \A e, f \in outbox : /\ e.type = "MESSAGE_DELETED" /\ f.type = "MESSAGE_DELETED"
                            /\ e.msg = f.msg
                            => e = f

IInv == /\ TypeInv /\ KeyInv /\ StoredInv /\ SequenceInv
        /\ EventIdInv /\ SentInv /\ DeleteInv

-----------------------------------------------------------------------------
(* Types *)

\* A row NewMessage builds is a row of the messages table.
LEMMA NewMessageType ==
    ASSUME TypeOK, NEW p \in SendCalls
    PROVE  /\ NewMessage(p) \in Message
           /\ NewMessage(p).id \in MsgIds
           /\ NewMessage(p).id = <<p, attempt[p]>>
           /\ NewMessage(p).id # NoMessage
           /\ CommandOf(NewMessage(p)) = cmd[p]
           /\ NewMessage(p).conv = cmd[p].conv
           /\ NewMessage(p).sender = cmd[p].user
           /\ NewMessage(p).sequence = sequence[p]
  BY MessageServiceAssumption
     DEF TypeOK, NewMessage, Message, MsgIds, CommandOf

\* Every step keeps the variables in their types.
LEMMA TypeStep ==
    ASSUME TypeInv, [Next]_vars
    PROVE  TypeInv'
  <1> USE MessageServiceAssumption DEF TypeInv, TypeOK
  <1>1. ASSUME NEW p \in SendCalls, BeginTx(p)
        PROVE  TypeInv'
    BY <1>1 DEF BeginTx, tables, sendVars, delVars, SendPc, DeletePc
  <1>2. ASSUME NEW p \in SendCalls, TryInsertOwned(p)
        PROVE  TypeInv'
    BY <1>2 DEF TryInsertOwned, tables, sendVars, delVars, SendPc, DeletePc
  <1>3. ASSUME NEW p \in SendCalls, TryInsertNotOwned(p)
        PROVE  TypeInv'
    BY <1>3 DEF TryInsertNotOwned, tables, sendVars, delVars, SendPc,
       DeletePc
  <1>4. ASSUME NEW p \in SendCalls, GetIdempotencyForUpdate(p)
        PROVE  TypeInv'
    BY <1>4 DEF GetIdempotencyForUpdate, tables, sendVars, delVars, SendPc,
       DeletePc
  <1>5. ASSUME NEW p \in SendCalls, NextSequence(p)
        PROVE  TypeInv'
    BY <1>5 DEF NextSequence, Incremented, tables, sendVars, delVars, SendPc,
       DeletePc
  <1>6. ASSUME NEW p \in SendCalls, NextSequenceFails(p)
        PROVE  TypeInv'
    BY <1>6 DEF NextSequenceFails, tables, sendVars, delVars, SendPc,
       DeletePc
  <1>7. ASSUME NEW p \in SendCalls, ConvCallsReturn(p)
        PROVE  TypeInv'
    BY <1>7 DEF ConvCallsReturn, tables, sendVars, delVars, SendPc, DeletePc
  <1>8. ASSUME NEW p \in SendCalls, ConvCallsReject(p)
        PROVE  TypeInv'
    BY <1>8 DEF ConvCallsReject, tables, sendVars, delVars, SendPc, DeletePc
  <1>9. ASSUME NEW p \in SendCalls, InsertRows(p)
        PROVE  TypeInv'
    BY <1>9 DEF InsertRows, tables, sendVars, delVars, SendPc, DeletePc
  <1>10. ASSUME NEW p \in SendCalls, Commit(p)
        PROVE  TypeInv'
    <2>1. NewMessage(p) \in Message /\ NewMessage(p).id \in MsgIds
      BY NewMessageType
    <2>2. [id |-> event_id[p], type |-> "MESSAGE_SENT",
           msg |-> NewMessage(p).id] \in Event
      BY <2>1 DEF Event
    <2> QED BY <1>10, <2>1, <2>2 DEF Commit, tables, sendVars, delVars, SendPc
  <1>11. ASSUME NEW p \in SendCalls, SerializationFailure(p)
        PROVE  TypeInv'
    BY <1>11 DEF SerializationFailure, CanRetry, tables, sendVars, delVars,
       SendPc, DeletePc
  <1>12. ASSUME NEW p \in SendCalls, Abort(p)
        PROVE  TypeInv'
    BY <1>12 DEF Abort, tables, sendVars, delVars, SendPc, DeletePc
  <1>13. ASSUME NEW d \in DeleteCalls, BeginDelete(d)
        PROVE  TypeInv'
    <2>1. \A m \in messages : m.id \in MsgIds
      BY DEF Message
    <2> QED BY <1>13, <2>1
            DEF BeginDelete, tables, sendVars, delVars, DeletePc
  <1>14. ASSUME NEW d \in DeleteCalls, MessageNotFound(d)
        PROVE  TypeInv'
    BY <1>14 DEF MessageNotFound, tables, sendVars, delVars, SendPc, DeletePc
  <1>15. ASSUME NEW d \in DeleteCalls, GetMessageForUpdate(d)
        PROVE  TypeInv'
    BY <1>15 DEF GetMessageForUpdate, tables, sendVars, delVars, SendPc,
       DeletePc
  <1>16. ASSUME NEW d \in DeleteCalls, NEW isAdmin \in BOOLEAN,
               CheckRequester(d, isAdmin)
        PROVE  TypeInv'
    BY <1>16 DEF CheckRequester, tables, sendVars, delVars, SendPc, DeletePc
  <1>17. ASSUME NEW d \in DeleteCalls, MarkMessageDeleted(d)
        PROVE  TypeInv'
    BY <1>17 DEF MarkMessageDeleted, tables, sendVars, delVars, SendPc,
       DeletePc
  <1>18. ASSUME NEW d \in DeleteCalls, CommitDelete(d)
        PROVE  TypeInv'
    <2>1. target[d] \in MsgIds
      BY <1>18 DEF CommitDelete
    <2>2. [id |-> devent_id[d], type |-> "MESSAGE_DELETED",
           msg |-> target[d]] \in Event
      BY <2>1 DEF Event
    <2> QED BY <1>18, <2>1, <2>2
            DEF CommitDelete, tables, sendVars, delVars, DeletePc
  <1>19. ASSUME NEW d \in DeleteCalls, SerializationFailureDelete(d)
        PROVE  TypeInv'
    BY <1>19 DEF SerializationFailureDelete, CanRetry, tables, sendVars,
       delVars, SendPc, DeletePc
  <1>20. ASSUME NEW d \in DeleteCalls, AbortDelete(d)
        PROVE  TypeInv'
    BY <1>20 DEF AbortDelete, tables, sendVars, delVars, SendPc, DeletePc
  <1>21. CASE UNCHANGED vars
    BY <1>21 DEF vars, tables, sendVars, delVars, SendPc, DeletePc
  <1> QED BY <1>1, <1>2, <1>3, <1>4, <1>5, <1>6, <1>7, <1>8, <1>9, <1>10,
       <1>11, <1>12, <1>13, <1>14, <1>15, <1>16, <1>17, <1>18, <1>19, <1>20,
       <1>21
       DEF Next, SendStep, DeleteStep, Idle

\* Every variable of the message service keeps its type; in particular no call
\* makes more than MaxRetries attempts.
THEOREM TypeCorrect == Spec => []TypeOK
  <1>1. Init => TypeInv
    BY MessageServiceAssumption
       DEF Init, TypeInv, TypeOK, SendPc, DeletePc, Message, Event
  <1>2. TypeInv /\ [Next]_vars => TypeInv'
    BY TypeStep
  <1>3. TypeInv => TypeOK
    BY DEF TypeInv
  <1> QED BY <1>1, <1>2, <1>3, PTL DEF Spec

-----------------------------------------------------------------------------
(* Idempotency *)

\* A key is held by one call at a time, and an answer is the committed one.
LEMMA KeyStep ==
    ASSUME TypeInv, KeyInv, [Next]_vars
    PROVE  KeyInv'
  <1> USE MessageServiceAssumption DEF TypeInv, TypeOK, KeyInv, HoldsKey
  <1>1. ASSUME NEW p \in SendCalls, BeginTx(p)
        PROVE  KeyInv'
    BY <1>1 DEF BeginTx, tables, sendVars, delVars
  <1>2. ASSUME NEW p \in SendCalls, TryInsertOwned(p)
        PROVE  KeyInv'
    BY <1>2 DEF TryInsertOwned, KeyFree, KeyUnused, tables, sendVars, delVars
  <1>3. ASSUME NEW p \in SendCalls, TryInsertNotOwned(p)
        PROVE  KeyInv'
    BY <1>3 DEF TryInsertNotOwned, tables, sendVars, delVars
  <1>4. ASSUME NEW p \in SendCalls, GetIdempotencyForUpdate(p)
        PROVE  KeyInv'
    BY <1>4 DEF GetIdempotencyForUpdate, tables, sendVars, delVars
  <1>5. ASSUME NEW p \in SendCalls, NextSequence(p)
        PROVE  KeyInv'
    BY <1>5 DEF NextSequence, Incremented, tables, sendVars, delVars
  <1>6. ASSUME NEW p \in SendCalls, NextSequenceFails(p)
        PROVE  KeyInv'
    BY <1>6 DEF NextSequenceFails, tables, sendVars, delVars
  <1>7. ASSUME NEW p \in SendCalls, ConvCallsReturn(p)
        PROVE  KeyInv'
    BY <1>7 DEF ConvCallsReturn, tables, sendVars, delVars
  <1>8. ASSUME NEW p \in SendCalls, ConvCallsReject(p)
        PROVE  KeyInv'
    BY <1>8 DEF ConvCallsReject, tables, sendVars, delVars
  <1>9. ASSUME NEW p \in SendCalls, InsertRows(p)
        PROVE  KeyInv'
    BY <1>9 DEF InsertRows, tables, sendVars, delVars
  <1>10. ASSUME NEW p \in SendCalls, Commit(p)
        PROVE  KeyInv'
    <2>1. NewMessage(p).id \in MsgIds /\ NewMessage(p).id # NoMessage
      BY NewMessageType
    <2>2. \A q \in SendCalls : idempotency'[cmd[q]] =
             IF cmd[q] = cmd[p] THEN NewMessage(p).id ELSE idempotency[cmd[q]]
      BY <1>10 DEF Commit
    <2>3. idempotency[cmd[p]] = NoMessage
      BY <1>10 DEF Commit
    <2> QED BY <1>10, <2>1, <2>2, <2>3 DEF Commit, tables, sendVars, delVars
  <1>11. ASSUME NEW p \in SendCalls, SerializationFailure(p)
        PROVE  KeyInv'
    BY <1>11 DEF SerializationFailure, CanRetry, tables, sendVars, delVars
  <1>12. ASSUME NEW p \in SendCalls, Abort(p)
        PROVE  KeyInv'
    BY <1>12 DEF Abort, tables, sendVars, delVars
  <1>13. ASSUME NEW d \in DeleteCalls, BeginDelete(d)
        PROVE  KeyInv'
    BY <1>13 DEF BeginDelete, tables, sendVars, delVars
  <1>14. ASSUME NEW d \in DeleteCalls, MessageNotFound(d)
        PROVE  KeyInv'
    BY <1>14 DEF MessageNotFound, tables, sendVars, delVars
  <1>15. ASSUME NEW d \in DeleteCalls, GetMessageForUpdate(d)
        PROVE  KeyInv'
    BY <1>15 DEF GetMessageForUpdate, tables, sendVars, delVars
  <1>16. ASSUME NEW d \in DeleteCalls, NEW isAdmin \in BOOLEAN,
               CheckRequester(d, isAdmin)
        PROVE  KeyInv'
    BY <1>16 DEF CheckRequester, tables, sendVars, delVars
  <1>17. ASSUME NEW d \in DeleteCalls, MarkMessageDeleted(d)
        PROVE  KeyInv'
    BY <1>17 DEF MarkMessageDeleted, tables, sendVars, delVars
  <1>18. ASSUME NEW d \in DeleteCalls, CommitDelete(d)
        PROVE  KeyInv'
    BY <1>18 DEF CommitDelete, tables, sendVars, delVars
  <1>19. ASSUME NEW d \in DeleteCalls, SerializationFailureDelete(d)
        PROVE  KeyInv'
    BY <1>19 DEF SerializationFailureDelete, CanRetry, tables, sendVars,
       delVars
  <1>20. ASSUME NEW d \in DeleteCalls, AbortDelete(d)
        PROVE  KeyInv'
    BY <1>20 DEF AbortDelete, tables, sendVars, delVars
  <1>21. CASE UNCHANGED vars
    BY <1>21 DEF vars, tables, sendVars, delVars
  <1> QED BY <1>1, <1>2, <1>3, <1>4, <1>5, <1>6, <1>7, <1>8, <1>9, <1>10,
       <1>11, <1>12, <1>13, <1>14, <1>15, <1>16, <1>17, <1>18, <1>19, <1>20,
       <1>21
       DEF Next, SendStep, DeleteStep, Idle

\* A message is stored together with the idempotency row that names it.
LEMMA StoredStep ==
    ASSUME TypeInv, KeyInv, StoredInv, [Next]_vars
    PROVE  StoredInv'
  <1> USE DEF TypeInv, TypeOK, StoredInv, CommandOf
  <1>1. ASSUME NEW p \in SendCalls, BeginTx(p)
        PROVE  StoredInv'
    BY <1>1 DEF BeginTx, tables, sendVars, delVars
  <1>2. ASSUME NEW p \in SendCalls, TryInsertOwned(p)
        PROVE  StoredInv'
    BY <1>2 DEF TryInsertOwned, tables, sendVars, delVars
  <1>3. ASSUME NEW p \in SendCalls, TryInsertNotOwned(p)
        PROVE  StoredInv'
    BY <1>3 DEF TryInsertNotOwned, tables, sendVars, delVars
  <1>4. ASSUME NEW p \in SendCalls, GetIdempotencyForUpdate(p)
        PROVE  StoredInv'
    BY <1>4 DEF GetIdempotencyForUpdate, tables, sendVars, delVars
  <1>5. ASSUME NEW p \in SendCalls, NextSequence(p)
        PROVE  StoredInv'
    BY <1>5 DEF NextSequence, Incremented, tables, sendVars, delVars
  <1>6. ASSUME NEW p \in SendCalls, NextSequenceFails(p)
        PROVE  StoredInv'
    BY <1>6 DEF NextSequenceFails, tables, sendVars, delVars
  <1>7. ASSUME NEW p \in SendCalls, ConvCallsReturn(p)
        PROVE  StoredInv'
    BY <1>7 DEF ConvCallsReturn, tables, sendVars, delVars
  <1>8. ASSUME NEW p \in SendCalls, ConvCallsReject(p)
        PROVE  StoredInv'
    BY <1>8 DEF ConvCallsReject, tables, sendVars, delVars
  <1>9. ASSUME NEW p \in SendCalls, InsertRows(p)
        PROVE  StoredInv'
    BY <1>9 DEF InsertRows, tables, sendVars, delVars
  <1>10. ASSUME NEW p \in SendCalls, Commit(p)
        PROVE  StoredInv'
    <2> DEFINE new == NewMessage(p)
    <2>1. /\ new \in Message /\ new.id \in MsgIds /\ new.id # NoMessage
          /\ CommandOf(new) = cmd[p] /\ new.conv = cmd[p].conv
          /\ new.sender = cmd[p].user
      BY NewMessageType
    <2>2. idempotency[cmd[p]] = NoMessage
      BY <1>10 DEF Commit, KeyInv, HoldsKey
    <2>3. \A m \in messages : CommandOf(m) \in Commands /\ CommandOf(m) # cmd[p]
      <3> SUFFICES ASSUME NEW m \in messages
                   PROVE  CommandOf(m) \in Commands /\ CommandOf(m) # cmd[p]
        OBVIOUS
      <3>1. m.id \in MsgIds /\ m.id # NoMessage
        BY MessageServiceAssumption DEF Message
      <3>2. idempotency[CommandOf(m)] = m.id
        OBVIOUS
      <3>3. CommandOf(m) \in Commands
        BY <3>1 DEF MsgIds
      <3> QED BY <2>2, <3>1, <3>2, <3>3
    <2>4. \A m \in messages : m.id # new.id
      BY <2>1, <2>3
    <2>5. /\ messages' = messages \cup {new} /\ cmd' = cmd
          /\ idempotency' = [idempotency EXCEPT ![cmd[p]] = new.id]
      BY <1>10 DEF Commit
    <2> HIDE DEF new
    <2>6. \A m \in messages' : /\ idempotency'[CommandOf(m)] = m.id
                               /\ m.conv = CommandOf(m).conv
                               /\ m.sender = CommandOf(m).user
      BY <2>1, <2>3, <2>5
    <2>7. \A k \in Commands : idempotency'[k] # NoMessage =>
             \E m \in messages' : m.id = idempotency'[k] /\ CommandOf(m) = k
      BY <2>1, <2>5
    <2>8. \A m, n \in messages' : m.id = n.id => m = n
      BY <2>4, <2>5
    <2> QED BY <2>5, <2>6, <2>7, <2>8
  <1>11. ASSUME NEW p \in SendCalls, SerializationFailure(p)
        PROVE  StoredInv'
    BY <1>11 DEF SerializationFailure, CanRetry, tables, sendVars, delVars
  <1>12. ASSUME NEW p \in SendCalls, Abort(p)
        PROVE  StoredInv'
    BY <1>12 DEF Abort, tables, sendVars, delVars
  <1>13. ASSUME NEW d \in DeleteCalls, BeginDelete(d)
        PROVE  StoredInv'
    BY <1>13 DEF BeginDelete, tables, sendVars, delVars
  <1>14. ASSUME NEW d \in DeleteCalls, MessageNotFound(d)
        PROVE  StoredInv'
    BY <1>14 DEF MessageNotFound, tables, sendVars, delVars
  <1>15. ASSUME NEW d \in DeleteCalls, GetMessageForUpdate(d)
        PROVE  StoredInv'
    BY <1>15 DEF GetMessageForUpdate, tables, sendVars, delVars
  <1>16. ASSUME NEW d \in DeleteCalls, NEW isAdmin \in BOOLEAN,
               CheckRequester(d, isAdmin)
        PROVE  StoredInv'
    BY <1>16 DEF CheckRequester, tables, sendVars, delVars
  <1>17. ASSUME NEW d \in DeleteCalls, MarkMessageDeleted(d)
        PROVE  StoredInv'
    BY <1>17 DEF MarkMessageDeleted, tables, sendVars, delVars
  <1>18. ASSUME NEW d \in DeleteCalls, CommitDelete(d)
        PROVE  StoredInv'
    BY <1>18 DEF CommitDelete, tables, sendVars, delVars
  <1>19. ASSUME NEW d \in DeleteCalls, SerializationFailureDelete(d)
        PROVE  StoredInv'
    BY <1>19 DEF SerializationFailureDelete, CanRetry, tables, sendVars,
       delVars
  <1>20. ASSUME NEW d \in DeleteCalls, AbortDelete(d)
        PROVE  StoredInv'
    BY <1>20 DEF AbortDelete, tables, sendVars, delVars
  <1>21. CASE UNCHANGED vars
    BY <1>21 DEF vars, tables, sendVars, delVars
  <1> QED BY <1>1, <1>2, <1>3, <1>4, <1>5, <1>6, <1>7, <1>8, <1>9, <1>10,
       <1>11, <1>12, <1>13, <1>14, <1>15, <1>16, <1>17, <1>18, <1>19, <1>20,
       <1>21
       DEF Next, SendStep, DeleteStep, Idle

\* Types and the idempotency invariants hold in every reachable state.
THEOREM KeyCorrect == Spec => [](TypeInv /\ KeyInv /\ StoredInv)
  <1>1. Init => TypeInv /\ KeyInv /\ StoredInv
    BY MessageServiceAssumption
       DEF Init, TypeInv, TypeOK, SendPc, DeletePc, Message, Event, KeyInv,
           StoredInv, HoldsKey
  <1>2. TypeInv /\ KeyInv /\ StoredInv /\ [Next]_vars
           => (TypeInv /\ KeyInv /\ StoredInv)'
    BY TypeStep, KeyStep, StoredStep
  <1> QED BY <1>1, <1>2, PTL DEF Spec

\* For any number of calls and retries: a command is stored at most once
\* (send_message.go, idempotency_keys).
THEOREM OneMessagePerCommandCorrect == Spec => []OneMessagePerCommand
  <1>1. TypeInv /\ KeyInv /\ StoredInv => OneMessagePerCommand
    BY DEF StoredInv, OneMessagePerCommand
  <1> QED BY <1>1, KeyCorrect, PTL

\* For any number of calls and retries: every successful call for a command
\* answers with the one stored message of that command.
THEOREM RepliesAgreeCorrect == Spec => []RepliesAgree
  <1>1. TypeInv /\ KeyInv /\ StoredInv => RepliesAgree
    <2> SUFFICES ASSUME TypeInv, KeyInv, StoredInv PROVE RepliesAgree
      OBVIOUS
    <2>1. \A p \in SendCalls : cmd[p] \in Commands
      BY DEF TypeInv, TypeOK
    <2>2. ASSUME NEW p \in SendCalls, reply[p] # NoMessage
          PROVE  \E m \in messages : /\ m.id = reply[p]
                                     /\ m.sender = cmd[p].user
                                     /\ m.conv = cmd[p].conv
      <3>1. reply[p] = idempotency[cmd[p]]
        BY <2>2 DEF KeyInv
      <3>2. PICK m \in messages : m.id = idempotency[cmd[p]] /\ CommandOf(m) = cmd[p]
        BY <2>1, <2>2, <3>1 DEF StoredInv
      <3> QED BY <3>1, <3>2 DEF StoredInv
    <2>3. ASSUME NEW p \in SendCalls, NEW q \in SendCalls,
                 reply[p] # NoMessage, reply[q] # NoMessage, cmd[p] = cmd[q]
          PROVE  reply[p] = reply[q]
      BY <2>3 DEF KeyInv
    <2> QED BY <2>2, <2>3 DEF RepliesAgree
  <1> QED BY <1>1, KeyCorrect, PTL

-----------------------------------------------------------------------------
(* Sequence numbers *)

\* A sequence number reaches one call, and from it one message.
LEMMA SequenceStep ==
    ASSUME TypeInv, KeyInv, StoredInv, SequenceInv, [Next]_vars
    PROVE  SequenceInv'
  <1> USE DEF SequenceInv, SequenceUnique, Numbered, HoldsKey
  <1>1. ASSUME NEW p \in SendCalls, BeginTx(p)
        PROVE  SequenceInv'
    BY <1>1 DEF BeginTx, tables, sendVars, delVars, TypeInv, TypeOK
  <1>2. ASSUME NEW p \in SendCalls, TryInsertOwned(p)
        PROVE  SequenceInv'
    BY <1>2 DEF TryInsertOwned, tables, sendVars, delVars, TypeInv, TypeOK
  <1>3. ASSUME NEW p \in SendCalls, TryInsertNotOwned(p)
        PROVE  SequenceInv'
    BY <1>3 DEF TryInsertNotOwned, tables, sendVars, delVars, TypeInv, TypeOK
  <1>4. ASSUME NEW p \in SendCalls, GetIdempotencyForUpdate(p)
        PROVE  SequenceInv'
    BY <1>4 DEF GetIdempotencyForUpdate, tables, sendVars, delVars, TypeInv,
       TypeOK
  <1>5. ASSUME NEW p \in SendCalls, NextSequence(p)
        PROVE  SequenceInv'
    <2> DEFINE c == cmd[p].conv
    <2>1. c \in Convs /\ \A q \in SendCalls : cmd[q].conv \in Convs
      BY MessageServiceAssumption DEF TypeInv, TypeOK
    <2>2. \A m \in messages : m.conv \in Convs /\ m.sequence \in Nat
      BY DEF TypeInv, TypeOK, Message
    <2>3. /\ next_sequence \in [Convs -> Nat] /\ sequence \in [SendCalls -> Nat]
          /\ seq_rpc \in [SendCalls -> {"idle", "sent", "ok", "err"}]
      BY DEF TypeInv, TypeOK
    <2>4. next_sequence' = [next_sequence EXCEPT ![c] = @ + 1]
      BY <1>5 DEF NextSequence, Incremented
    <2>5. /\ messages' = messages /\ cmd' = cmd /\ pc' = pc
          /\ seq_rpc[p] = "sent"
      BY <1>5 DEF NextSequence, tables
    <2>6. CASE /\ seq_rpc' = [seq_rpc EXCEPT ![p] = "ok"]
               /\ sequence' = [sequence EXCEPT ![p] = next_sequence[c] + 1]
      BY <2>1, <2>2, <2>3, <2>4, <2>5, <2>6
    <2>7. CASE /\ seq_rpc' = [seq_rpc EXCEPT ![p] = "err"]
               /\ sequence' = sequence
      BY <2>1, <2>2, <2>3, <2>4, <2>5, <2>7
    <2> QED BY <1>5, <2>6, <2>7 DEF NextSequence
  <1>6. ASSUME NEW p \in SendCalls, NextSequenceFails(p)
        PROVE  SequenceInv'
    BY <1>6 DEF NextSequenceFails, tables, sendVars, delVars, TypeInv, TypeOK
  <1>7. ASSUME NEW p \in SendCalls, ConvCallsReturn(p)
        PROVE  SequenceInv'
    BY <1>7 DEF ConvCallsReturn, tables, sendVars, delVars, TypeInv, TypeOK
  <1>8. ASSUME NEW p \in SendCalls, ConvCallsReject(p)
        PROVE  SequenceInv'
    BY <1>8 DEF ConvCallsReject, tables, sendVars, delVars, TypeInv, TypeOK
  <1>9. ASSUME NEW p \in SendCalls, InsertRows(p)
        PROVE  SequenceInv'
    BY <1>9 DEF InsertRows, tables, sendVars, delVars, TypeInv, TypeOK
  <1>10. ASSUME NEW p \in SendCalls, Commit(p)
        PROVE  SequenceInv'
    <2> DEFINE new == NewMessage(p)
    <2>1. new.conv = cmd[p].conv /\ new.sequence = sequence[p]
      BY NewMessageType DEF TypeInv
    <2>2. /\ messages' = messages \cup {new} /\ cmd' = cmd
          /\ pc[p] = "commit" /\ seq_rpc' = seq_rpc /\ sequence' = sequence
          /\ next_sequence' = next_sequence
          /\ \/ pc' = [pc EXCEPT ![p] = "done"]
             \/ pc' = [pc EXCEPT ![p] = "failed"]
      BY <1>10 DEF Commit
    <2>3. pc \in [SendCalls -> SendPc]
      BY DEF TypeInv, TypeOK
    <2> HIDE DEF new
    <2> QED BY <2>1, <2>2, <2>3
  <1>11. ASSUME NEW p \in SendCalls, SerializationFailure(p)
        PROVE  SequenceInv'
    <2>1. /\ messages' = messages /\ cmd' = cmd /\ sequence' = sequence
          /\ next_sequence' = next_sequence
      BY <1>11 DEF SerializationFailure, tables
    <2>2. pc \in [SendCalls -> SendPc] /\ DOMAIN seq_rpc = SendCalls
      BY DEF TypeInv, TypeOK
    <2>3. \/ /\ pc' = [pc EXCEPT ![p] = "begin"]
             /\ seq_rpc' = [seq_rpc EXCEPT ![p] = "idle"]
          \/ pc' = [pc EXCEPT ![p] = "failed"] /\ seq_rpc' = seq_rpc
      BY <1>11 DEF SerializationFailure
    <2> QED BY <2>1, <2>2, <2>3
  <1>12. ASSUME NEW p \in SendCalls, Abort(p)
        PROVE  SequenceInv'
    BY <1>12 DEF Abort, tables, sendVars, delVars, TypeInv, TypeOK
  <1>13. ASSUME NEW d \in DeleteCalls, BeginDelete(d)
        PROVE  SequenceInv'
    BY <1>13 DEF BeginDelete, tables, sendVars, delVars, TypeInv, TypeOK
  <1>14. ASSUME NEW d \in DeleteCalls, MessageNotFound(d)
        PROVE  SequenceInv'
    BY <1>14 DEF MessageNotFound, tables, sendVars, delVars, TypeInv, TypeOK
  <1>15. ASSUME NEW d \in DeleteCalls, GetMessageForUpdate(d)
        PROVE  SequenceInv'
    BY <1>15 DEF GetMessageForUpdate, tables, sendVars, delVars, TypeInv,
       TypeOK
  <1>16. ASSUME NEW d \in DeleteCalls, NEW isAdmin \in BOOLEAN,
               CheckRequester(d, isAdmin)
        PROVE  SequenceInv'
    BY <1>16 DEF CheckRequester, tables, sendVars, delVars, TypeInv, TypeOK
  <1>17. ASSUME NEW d \in DeleteCalls, MarkMessageDeleted(d)
        PROVE  SequenceInv'
    BY <1>17 DEF MarkMessageDeleted, tables, sendVars, delVars, TypeInv,
       TypeOK
  <1>18. ASSUME NEW d \in DeleteCalls, CommitDelete(d)
        PROVE  SequenceInv'
    BY <1>18 DEF CommitDelete, tables, sendVars, delVars, TypeInv, TypeOK
  <1>19. ASSUME NEW d \in DeleteCalls, SerializationFailureDelete(d)
        PROVE  SequenceInv'
    BY <1>19 DEF SerializationFailureDelete, CanRetry, tables, sendVars,
       delVars, TypeInv, TypeOK
  <1>20. ASSUME NEW d \in DeleteCalls, AbortDelete(d)
        PROVE  SequenceInv'
    BY <1>20 DEF AbortDelete, tables, sendVars, delVars, TypeInv, TypeOK
  <1>21. CASE UNCHANGED vars
    BY <1>21 DEF vars, tables, sendVars, delVars, TypeInv, TypeOK
  <1> QED BY <1>1, <1>2, <1>3, <1>4, <1>5, <1>6, <1>7, <1>8, <1>9, <1>10,
       <1>11, <1>12, <1>13, <1>14, <1>15, <1>16, <1>17, <1>18, <1>19, <1>20,
       <1>21
       DEF Next, SendStep, DeleteStep, Idle

\* For any number of calls and retries: no two messages of a conversation have
\* the same sequence number, whatever numbers are lost on the way.
THEOREM SequenceUniqueCorrect == Spec => []SequenceUnique
  <1>1. Init => SequenceInv
    BY DEF Init, SequenceInv, SequenceUnique, Numbered, HoldsKey
  <1>2. TypeInv /\ KeyInv /\ StoredInv /\ SequenceInv /\ [Next]_vars => SequenceInv'
    BY SequenceStep
  <1>3. SequenceInv => SequenceUnique
    BY DEF SequenceInv
  <1> QED BY <1>1, <1>2, <1>3, KeyCorrect, PTL DEF Spec

-----------------------------------------------------------------------------
(* Outbox events *)

\* An outbox id is given to one row.
LEMMA EventIdStep ==
    ASSUME TypeInv, EventIdInv, [Next]_vars
    PROVE  EventIdInv'
  <1> USE DEF EventIdInv
  <1>1. ASSUME NEW p \in SendCalls, BeginTx(p)
        PROVE  EventIdInv'
    BY <1>1 DEF BeginTx, tables, sendVars, delVars, TypeInv, TypeOK
  <1>2. ASSUME NEW p \in SendCalls, TryInsertOwned(p)
        PROVE  EventIdInv'
    BY <1>2 DEF TryInsertOwned, tables, sendVars, delVars, TypeInv, TypeOK
  <1>3. ASSUME NEW p \in SendCalls, TryInsertNotOwned(p)
        PROVE  EventIdInv'
    BY <1>3 DEF TryInsertNotOwned, tables, sendVars, delVars, TypeInv, TypeOK
  <1>4. ASSUME NEW p \in SendCalls, GetIdempotencyForUpdate(p)
        PROVE  EventIdInv'
    BY <1>4 DEF GetIdempotencyForUpdate, tables, sendVars, delVars, TypeInv,
       TypeOK
  <1>5. ASSUME NEW p \in SendCalls, NextSequence(p)
        PROVE  EventIdInv'
    BY <1>5 DEF NextSequence, Incremented, tables, sendVars, delVars,
       TypeInv, TypeOK
  <1>6. ASSUME NEW p \in SendCalls, NextSequenceFails(p)
        PROVE  EventIdInv'
    BY <1>6 DEF NextSequenceFails, tables, sendVars, delVars, TypeInv, TypeOK
  <1>7. ASSUME NEW p \in SendCalls, ConvCallsReturn(p)
        PROVE  EventIdInv'
    BY <1>7 DEF ConvCallsReturn, tables, sendVars, delVars, TypeInv, TypeOK
  <1>8. ASSUME NEW p \in SendCalls, ConvCallsReject(p)
        PROVE  EventIdInv'
    BY <1>8 DEF ConvCallsReject, tables, sendVars, delVars, TypeInv, TypeOK
  <1>9. ASSUME NEW p \in SendCalls, InsertRows(p)
        PROVE  EventIdInv'
    <2>1. /\ outbox' = outbox /\ outbox_id' = outbox_id + 1
          /\ pc' = [pc EXCEPT ![p] = "commit"] /\ dpc' = dpc
          /\ event_id' = [event_id EXCEPT ![p] = outbox_id + 1]
          /\ devent_id' = devent_id
      BY <1>9 DEF InsertRows, tables, delVars
    <2>2. /\ outbox_id \in Nat /\ DOMAIN pc = SendCalls
          /\ event_id \in [SendCalls -> Nat] /\ devent_id \in [DeleteCalls -> Nat]
          /\ \A e \in outbox : e.id \in Nat
      BY DEF TypeInv, TypeOK, Event
    <2> QED BY <2>1, <2>2
  <1>10. ASSUME NEW p \in SendCalls, Commit(p)
        PROVE  EventIdInv'
    <2> DEFINE new == [id |-> event_id[p], type |-> "MESSAGE_SENT",
                       msg |-> NewMessage(p).id]
    <2>1. /\ outbox' = outbox \cup {new} /\ outbox_id' = outbox_id
          /\ dpc' = dpc /\ event_id' = event_id /\ devent_id' = devent_id
          /\ pc[p] = "commit"
          /\ \A q \in SendCalls : pc'[q] = "commit" => pc[q] = "commit" /\ q # p
      BY <1>10 DEF Commit, delVars, TypeInv, TypeOK
    <2>2. new.id = event_id[p]
      OBVIOUS
    <2> HIDE DEF new
    <2> QED BY <2>1, <2>2
  <1>11. ASSUME NEW p \in SendCalls, SerializationFailure(p)
        PROVE  EventIdInv'
    <2>1. /\ outbox' = outbox /\ outbox_id' = outbox_id /\ dpc' = dpc
          /\ event_id' = event_id /\ devent_id' = devent_id
          /\ \A q \in SendCalls : pc'[q] = "commit" => pc[q] = "commit"
      BY <1>11 DEF SerializationFailure, tables, delVars, TypeInv, TypeOK
    <2> QED BY <2>1
  <1>12. ASSUME NEW p \in SendCalls, Abort(p)
        PROVE  EventIdInv'
    BY <1>12 DEF Abort, tables, sendVars, delVars, TypeInv, TypeOK
  <1>13. ASSUME NEW d \in DeleteCalls, BeginDelete(d)
        PROVE  EventIdInv'
    BY <1>13 DEF BeginDelete, tables, sendVars, delVars, TypeInv, TypeOK
  <1>14. ASSUME NEW d \in DeleteCalls, MessageNotFound(d)
        PROVE  EventIdInv'
    BY <1>14 DEF MessageNotFound, tables, sendVars, delVars, TypeInv, TypeOK
  <1>15. ASSUME NEW d \in DeleteCalls, GetMessageForUpdate(d)
        PROVE  EventIdInv'
    BY <1>15 DEF GetMessageForUpdate, tables, sendVars, delVars, TypeInv,
       TypeOK
  <1>16. ASSUME NEW d \in DeleteCalls, NEW isAdmin \in BOOLEAN,
               CheckRequester(d, isAdmin)
        PROVE  EventIdInv'
    BY <1>16 DEF CheckRequester, tables, sendVars, delVars, TypeInv, TypeOK
  <1>17. ASSUME NEW d \in DeleteCalls, MarkMessageDeleted(d)
        PROVE  EventIdInv'
    <2>1. /\ outbox' = outbox /\ outbox_id' = outbox_id + 1
          /\ dpc' = [dpc EXCEPT ![d] = "commit"] /\ pc' = pc
          /\ devent_id' = [devent_id EXCEPT ![d] = outbox_id + 1]
          /\ event_id' = event_id
      BY <1>17 DEF MarkMessageDeleted, tables, sendVars
    <2>2. /\ outbox_id \in Nat /\ DOMAIN dpc = DeleteCalls
          /\ event_id \in [SendCalls -> Nat] /\ devent_id \in [DeleteCalls -> Nat]
          /\ \A e \in outbox : e.id \in Nat
      BY DEF TypeInv, TypeOK, Event
    <2> QED BY <2>1, <2>2
  <1>18. ASSUME NEW d \in DeleteCalls, CommitDelete(d)
        PROVE  EventIdInv'
    <2> DEFINE new == [id |-> devent_id[d], type |-> "MESSAGE_DELETED",
                       msg |-> target[d]]
    <2>1. /\ outbox' = outbox \cup {new} /\ outbox_id' = outbox_id
          /\ pc' = pc /\ event_id' = event_id /\ devent_id' = devent_id
          /\ dpc[d] = "commit"
          /\ \A e \in DeleteCalls : dpc'[e] = "commit" => dpc[e] = "commit" /\ e # d
      BY <1>18 DEF CommitDelete, sendVars, TypeInv, TypeOK
    <2>2. new.id = devent_id[d]
      OBVIOUS
    <2> HIDE DEF new
    <2> QED BY <2>1, <2>2
  <1>19. ASSUME NEW d \in DeleteCalls, SerializationFailureDelete(d)
        PROVE  EventIdInv'
    BY <1>19 DEF SerializationFailureDelete, CanRetry, tables, sendVars,
       delVars, TypeInv, TypeOK
  <1>20. ASSUME NEW d \in DeleteCalls, AbortDelete(d)
        PROVE  EventIdInv'
    BY <1>20 DEF AbortDelete, tables, sendVars, delVars, TypeInv, TypeOK
  <1>21. CASE UNCHANGED vars
    BY <1>21 DEF vars, tables, sendVars, delVars, TypeInv, TypeOK
  <1> QED BY <1>1, <1>2, <1>3, <1>4, <1>5, <1>6, <1>7, <1>8, <1>9, <1>10,
       <1>11, <1>12, <1>13, <1>14, <1>15, <1>16, <1>17, <1>18, <1>19, <1>20,
       <1>21
       DEF Next, SendStep, DeleteStep, Idle

\* A message and its MESSAGE_SENT event are committed together.
LEMMA SentStep ==
    ASSUME TypeInv, KeyInv, StoredInv, DeleteInv, SentInv, [Next]_vars
    PROVE  SentInv'
  <1> USE DEF SentInv
  <1>1. ASSUME NEW p \in SendCalls, BeginTx(p)
        PROVE  SentInv'
    BY <1>1 DEF BeginTx, tables, sendVars, delVars
  <1>2. ASSUME NEW p \in SendCalls, TryInsertOwned(p)
        PROVE  SentInv'
    BY <1>2 DEF TryInsertOwned, tables, sendVars, delVars
  <1>3. ASSUME NEW p \in SendCalls, TryInsertNotOwned(p)
        PROVE  SentInv'
    BY <1>3 DEF TryInsertNotOwned, tables, sendVars, delVars
  <1>4. ASSUME NEW p \in SendCalls, GetIdempotencyForUpdate(p)
        PROVE  SentInv'
    BY <1>4 DEF GetIdempotencyForUpdate, tables, sendVars, delVars
  <1>5. ASSUME NEW p \in SendCalls, NextSequence(p)
        PROVE  SentInv'
    BY <1>5 DEF NextSequence, Incremented, tables, sendVars, delVars
  <1>6. ASSUME NEW p \in SendCalls, NextSequenceFails(p)
        PROVE  SentInv'
    BY <1>6 DEF NextSequenceFails, tables, sendVars, delVars
  <1>7. ASSUME NEW p \in SendCalls, ConvCallsReturn(p)
        PROVE  SentInv'
    BY <1>7 DEF ConvCallsReturn, tables, sendVars, delVars
  <1>8. ASSUME NEW p \in SendCalls, ConvCallsReject(p)
        PROVE  SentInv'
    BY <1>8 DEF ConvCallsReject, tables, sendVars, delVars
  <1>9. ASSUME NEW p \in SendCalls, InsertRows(p)
        PROVE  SentInv'
    BY <1>9 DEF InsertRows, tables, sendVars, delVars
  <1>10. ASSUME NEW p \in SendCalls, Commit(p)
        PROVE  SentInv'
    <2> DEFINE new == [id |-> event_id[p], type |-> "MESSAGE_SENT",
                       msg |-> NewMessage(p).id]
    <2>1. /\ outbox' = outbox \cup {new}
          /\ messages' = messages \cup {NewMessage(p)}
      BY <1>10 DEF Commit
    <2>2. \A m \in messages : m.id # NewMessage(p).id
      <3>1. idempotency[cmd[p]] = NoMessage
        BY <1>10 DEF Commit, KeyInv, HoldsKey
      <3>2. CommandOf(NewMessage(p)) = cmd[p] /\ NewMessage(p).id # NoMessage
        BY NewMessageType DEF TypeInv
      <3> QED BY <3>1, <3>2 DEF StoredInv, CommandOf
    <2>3. new.type = "MESSAGE_SENT" /\ new.msg = NewMessage(p).id
      OBVIOUS
    <2> HIDE DEF new
    <2> QED BY <2>1, <2>2, <2>3
  <1>11. ASSUME NEW p \in SendCalls, SerializationFailure(p)
        PROVE  SentInv'
    BY <1>11 DEF SerializationFailure, CanRetry, tables, sendVars, delVars
  <1>12. ASSUME NEW p \in SendCalls, Abort(p)
        PROVE  SentInv'
    BY <1>12 DEF Abort, tables, sendVars, delVars
  <1>13. ASSUME NEW d \in DeleteCalls, BeginDelete(d)
        PROVE  SentInv'
    BY <1>13 DEF BeginDelete, tables, sendVars, delVars
  <1>14. ASSUME NEW d \in DeleteCalls, MessageNotFound(d)
        PROVE  SentInv'
    BY <1>14 DEF MessageNotFound, tables, sendVars, delVars
  <1>15. ASSUME NEW d \in DeleteCalls, GetMessageForUpdate(d)
        PROVE  SentInv'
    BY <1>15 DEF GetMessageForUpdate, tables, sendVars, delVars
  <1>16. ASSUME NEW d \in DeleteCalls, NEW isAdmin \in BOOLEAN,
               CheckRequester(d, isAdmin)
        PROVE  SentInv'
    BY <1>16 DEF CheckRequester, tables, sendVars, delVars
  <1>17. ASSUME NEW d \in DeleteCalls, MarkMessageDeleted(d)
        PROVE  SentInv'
    BY <1>17 DEF MarkMessageDeleted, tables, sendVars, delVars
  <1>18. ASSUME NEW d \in DeleteCalls, CommitDelete(d)
        PROVE  SentInv'
    <2> DEFINE new == [id |-> devent_id[d], type |-> "MESSAGE_DELETED",
                       msg |-> target[d]]
    <2>1. outbox' = outbox \cup {new} /\ messages' = messages
      BY <1>18 DEF CommitDelete
    <2>2. \E m \in messages : m.id = target[d]
      BY <1>18 DEF CommitDelete, DeleteInv
    <2>3. new.type # "MESSAGE_SENT" /\ new.msg = target[d]
      OBVIOUS
    <2> HIDE DEF new
    <2> QED BY <2>1, <2>2, <2>3
  <1>19. ASSUME NEW d \in DeleteCalls, SerializationFailureDelete(d)
        PROVE  SentInv'
    BY <1>19 DEF SerializationFailureDelete, CanRetry, tables, sendVars,
       delVars
  <1>20. ASSUME NEW d \in DeleteCalls, AbortDelete(d)
        PROVE  SentInv'
    BY <1>20 DEF AbortDelete, tables, sendVars, delVars
  <1>21. CASE UNCHANGED vars
    BY <1>21 DEF vars, tables, sendVars, delVars
  <1> QED BY <1>1, <1>2, <1>3, <1>4, <1>5, <1>6, <1>7, <1>8, <1>9, <1>10,
       <1>11, <1>12, <1>13, <1>14, <1>15, <1>16, <1>17, <1>18, <1>19, <1>20,
       <1>21
       DEF Next, SendStep, DeleteStep, Idle

\* A message is deleted once, by the call that holds its row.
LEMMA DeleteStepInv ==
    ASSUME TypeInv, KeyInv, StoredInv, EventIdInv, SentInv, DeleteInv, [Next]_vars
    PROVE  DeleteInv'
  <1> USE DEF DeleteInv, HoldsRow
  <1>1. ASSUME NEW p \in SendCalls, BeginTx(p)
        PROVE  DeleteInv'
    BY <1>1 DEF BeginTx, tables, sendVars, delVars, TypeInv, TypeOK
  <1>2. ASSUME NEW p \in SendCalls, TryInsertOwned(p)
        PROVE  DeleteInv'
    BY <1>2 DEF TryInsertOwned, tables, sendVars, delVars, TypeInv, TypeOK
  <1>3. ASSUME NEW p \in SendCalls, TryInsertNotOwned(p)
        PROVE  DeleteInv'
    BY <1>3 DEF TryInsertNotOwned, tables, sendVars, delVars, TypeInv, TypeOK
  <1>4. ASSUME NEW p \in SendCalls, GetIdempotencyForUpdate(p)
        PROVE  DeleteInv'
    BY <1>4 DEF GetIdempotencyForUpdate, tables, sendVars, delVars, TypeInv,
       TypeOK
  <1>5. ASSUME NEW p \in SendCalls, NextSequence(p)
        PROVE  DeleteInv'
    BY <1>5 DEF NextSequence, Incremented, tables, sendVars, delVars,
       TypeInv, TypeOK
  <1>6. ASSUME NEW p \in SendCalls, NextSequenceFails(p)
        PROVE  DeleteInv'
    BY <1>6 DEF NextSequenceFails, tables, sendVars, delVars, TypeInv, TypeOK
  <1>7. ASSUME NEW p \in SendCalls, ConvCallsReturn(p)
        PROVE  DeleteInv'
    BY <1>7 DEF ConvCallsReturn, tables, sendVars, delVars, TypeInv, TypeOK
  <1>8. ASSUME NEW p \in SendCalls, ConvCallsReject(p)
        PROVE  DeleteInv'
    BY <1>8 DEF ConvCallsReject, tables, sendVars, delVars, TypeInv, TypeOK
  <1>9. ASSUME NEW p \in SendCalls, InsertRows(p)
        PROVE  DeleteInv'
    BY <1>9 DEF InsertRows, tables, sendVars, delVars, TypeInv, TypeOK
  <1>10. ASSUME NEW p \in SendCalls, Commit(p)
        PROVE  DeleteInv'
    <2> DEFINE new == [id |-> event_id[p], type |-> "MESSAGE_SENT",
                       msg |-> NewMessage(p).id]
    <2>1. /\ outbox' = outbox \cup {new} /\ deleted_at' = deleted_at
          /\ messages \subseteq messages'
          /\ dpc' = dpc /\ target' = target /\ devent_id' = devent_id
          /\ dsnapshot' = dsnapshot
      BY <1>10 DEF Commit, delVars
    <2>2. new.type # "MESSAGE_DELETED"
      OBVIOUS
    <2> HIDE DEF new
    <2> QED BY <2>1, <2>2
  <1>11. ASSUME NEW p \in SendCalls, SerializationFailure(p)
        PROVE  DeleteInv'
    BY <1>11 DEF SerializationFailure, CanRetry, tables, sendVars, delVars,
       TypeInv, TypeOK
  <1>12. ASSUME NEW p \in SendCalls, Abort(p)
        PROVE  DeleteInv'
    BY <1>12 DEF Abort, tables, sendVars, delVars, TypeInv, TypeOK
  <1>13. ASSUME NEW d \in DeleteCalls, BeginDelete(d)
        PROVE  DeleteInv'
    BY <1>13 DEF BeginDelete, tables, sendVars, delVars, TypeInv, TypeOK
  <1>14. ASSUME NEW d \in DeleteCalls, MessageNotFound(d)
        PROVE  DeleteInv'
    BY <1>14 DEF MessageNotFound, tables, sendVars, delVars, TypeInv, TypeOK
  <1>15. ASSUME NEW d \in DeleteCalls, GetMessageForUpdate(d)
        PROVE  DeleteInv'
    BY <1>15 DEF GetMessageForUpdate, tables, sendVars, delVars, TypeInv,
       TypeOK
  <1>16. ASSUME NEW d \in DeleteCalls, NEW isAdmin \in BOOLEAN,
               CheckRequester(d, isAdmin)
        PROVE  DeleteInv'
    BY <1>16 DEF CheckRequester, tables, sendVars, delVars, TypeInv, TypeOK
  <1>17. ASSUME NEW d \in DeleteCalls, MarkMessageDeleted(d)
        PROVE  DeleteInv'
    <2>1. /\ outbox' = outbox /\ messages' = messages /\ deleted_at' = deleted_at
          /\ dpc[d] = "mark" /\ dpc' = [dpc EXCEPT ![d] = "commit"]
          /\ target' = target /\ dsnapshot' = dsnapshot
          /\ devent_id' = [devent_id EXCEPT ![d] = outbox_id + 1]
      BY <1>17 DEF MarkMessageDeleted, tables
    <2>2. /\ DOMAIN dpc = DeleteCalls /\ devent_id \in [DeleteCalls -> Nat]
      BY DEF TypeInv, TypeOK
    <2>3. \E f \in outbox : /\ f.type = "MESSAGE_SENT" /\ f.msg = target[d]
                            /\ f.id < outbox_id + 1
      <3>1. PICK m \in messages : m.id = target[d]
        BY <2>1
      <3>2. PICK f \in outbox : f.type = "MESSAGE_SENT" /\ f.msg = m.id
        BY DEF SentInv
      <3>3. f.id \in Nat /\ outbox_id \in Nat /\ f.id <= outbox_id
        BY DEF TypeInv, TypeOK, Event, EventIdInv
      <3> QED BY <3>1, <3>2, <3>3
    <2> QED BY <2>1, <2>2, <2>3
  <1>18. ASSUME NEW d \in DeleteCalls, CommitDelete(d)
        PROVE  DeleteInv'
    <2> DEFINE new == [id |-> devent_id[d], type |-> "MESSAGE_DELETED",
                       msg |-> target[d]]
    <2>1. /\ outbox' = outbox \cup {new} /\ messages' = messages
          /\ deleted_at' = deleted_at \cup {target[d]}
          /\ target' = target /\ devent_id' = devent_id
          /\ dsnapshot' = dsnapshot /\ dpc[d] = "commit"
          /\ \A e \in DeleteCalls : dpc'[e] =
                IF e = d THEN dpc'[d] ELSE dpc[e]
          /\ dpc'[d] \in {"done", "failed"}
      BY <1>18 DEF CommitDelete, TypeInv, TypeOK
    <2>2. /\ new.type = "MESSAGE_DELETED" /\ new.msg = target[d]
          /\ new.id = devent_id[d]
      OBVIOUS
    <2> HIDE DEF new
    <2>3. \A e \in DeleteCalls : HoldsRow(e)' => e # d /\ HoldsRow(e) /\ target[e] # target[d]
      BY <2>1
    <2> QED BY <2>1, <2>2, <2>3
  <1>19. ASSUME NEW d \in DeleteCalls, SerializationFailureDelete(d)
        PROVE  DeleteInv'
    BY <1>19 DEF SerializationFailureDelete, CanRetry, tables, sendVars,
       delVars, TypeInv, TypeOK
  <1>20. ASSUME NEW d \in DeleteCalls, AbortDelete(d)
        PROVE  DeleteInv'
    BY <1>20 DEF AbortDelete, tables, sendVars, delVars, TypeInv, TypeOK
  <1>21. CASE UNCHANGED vars
    BY <1>21 DEF vars, tables, sendVars, delVars, TypeInv, TypeOK
  <1> QED BY <1>1, <1>2, <1>3, <1>4, <1>5, <1>6, <1>7, <1>8, <1>9, <1>10,
       <1>11, <1>12, <1>13, <1>14, <1>15, <1>16, <1>17, <1>18, <1>19, <1>20,
       <1>21
       DEF Next, SendStep, DeleteStep, Idle

-----------------------------------------------------------------------------
(* The theorems *)

\* The inductive invariant holds in every reachable state.
THEOREM InductiveInvariant == Spec => []IInv
  <1>1. Init => IInv
    BY MessageServiceAssumption
       DEF Init, IInv, TypeInv, TypeOK, SendPc, DeletePc, Message, Event, KeyInv,
           StoredInv, SequenceInv, SequenceUnique, Numbered, HoldsKey,
           EventIdInv, SentInv, DeleteInv, HoldsRow
  <1>2. IInv /\ [Next]_vars => IInv'
    BY TypeStep, KeyStep, StoredStep, SequenceStep, EventIdStep, SentStep,
       DeleteStepInv DEF IInv
  <1> QED BY <1>1, <1>2, PTL DEF Spec

\* For any number of calls and retries: a message is stored exactly when one
\* MESSAGE_SENT event announces it.
THEOREM SentEventPerMessageCorrect == Spec => []SentEventPerMessage
  <1>1. IInv => SentEventPerMessage
    BY DEF IInv, SentInv, SentEventPerMessage, EventsOf
  <1> QED BY <1>1, InductiveInvariant, PTL

\* For any number of calls and retries: a message is deleted exactly when one
\* MESSAGE_DELETED event says so, and that event follows its MESSAGE_SENT.
THEOREM DeleteEventAfterSentCorrect == Spec => []DeleteEventAfterSent
  <1>1. IInv => DeleteEventAfterSent
    BY DEF IInv, DeleteInv, DeleteEventAfterSent, EventsOf
  <1> QED BY <1>1, InductiveInvariant, PTL

\* What each step of the service does to the tables: a Commit accepts a
\* command, a CommitDelete deletes a message, nothing else changes them.
LEMMA StepRefines ==
    ASSUME IInv, [Next]_vars
    PROVE  [Log!Next]_(Log!vars)
  <1>1. ASSUME NEW p \in SendCalls, Commit(p)
        PROVE  Log!Next
    <2> DEFINE m == NewMessage(p)
               e == [id |-> event_id[p], type |-> "MESSAGE_SENT", msg |-> m.id]
    <2>1. /\ messages' = messages \cup {m} /\ outbox' = outbox \cup {e}
          /\ idempotency' = [idempotency EXCEPT ![cmd[p]] = m.id]
          /\ deleted_at' = deleted_at
      BY <1>1 DEF Commit
    <2>2. cmd[p] \in Commands /\ idempotency[cmd[p]] = NoMessage
      BY <1>1 DEF IInv, TypeInv, TypeOK, KeyInv, HoldsKey, Commit
    <2>3. /\ CommandOf(m) = cmd[p] /\ m.id # NoMessage /\ m.conv = cmd[p].conv
          /\ m.sender = cmd[p].user /\ m.sequence = sequence[p]
      BY NewMessageType DEF IInv, TypeInv
    <2>4. \A n \in messages : n.id # m.id
      BY <2>2, <2>3 DEF IInv, StoredInv, CommandOf
    <2>5. \A n \in messages : n.conv = m.conv => n.sequence # m.sequence
      BY <1>1, <2>3 DEF IInv, SequenceInv, Numbered, HoldsKey, Commit
    <2>6. Log!FreshEvent(e)
      BY <1>1 DEF IInv, EventIdInv, Commit, Log!FreshEvent
    <2>7. e.type = "MESSAGE_SENT" /\ e.msg = m.id
      OBVIOUS
    <2> HIDE DEF m, e
    <2>8. Log!Accept(cmd[p], m, e)
      BY <2>1, <2>2, <2>3, <2>4, <2>5, <2>6, <2>7 DEF Log!Accept
    <2> QED BY <2>1, <2>2, <2>8 DEF Log!Next
  <1>2. ASSUME NEW d \in DeleteCalls, CommitDelete(d)
        PROVE  Log!Next
    <2> DEFINE e == [id |-> devent_id[d], type |-> "MESSAGE_DELETED",
                     msg |-> target[d]]
    <2>1. /\ outbox' = outbox \cup {e} /\ messages' = messages
          /\ idempotency' = idempotency
          /\ deleted_at' = deleted_at \cup {target[d]}
      BY <1>2 DEF CommitDelete
    <2>2. PICK m \in messages : m.id = target[d]
      BY <1>2 DEF CommitDelete, IInv, DeleteInv
    <2>3. target[d] \notin deleted_at
      BY <1>2 DEF CommitDelete, IInv, DeleteInv
    <2>4. Log!FreshEvent(e)
      BY <1>2 DEF IInv, EventIdInv, CommitDelete, Log!FreshEvent
    <2>5. \E f \in outbox : /\ f.type = "MESSAGE_SENT" /\ f.msg = target[d]
                            /\ f.id < e.id
      BY <1>2 DEF CommitDelete, IInv, DeleteInv
    <2>6. e.type = "MESSAGE_DELETED" /\ e.msg = target[d]
      OBVIOUS
    <2> HIDE DEF e
    <2>7. Log!Delete(m, e)
      BY <2>1, <2>2, <2>3, <2>4, <2>5, <2>6 DEF Log!Delete
    <2> QED BY <2>1, <2>7 DEF Log!Next
  <1>3. ASSUME NEW p \in SendCalls, SendStep(p), ~Commit(p)
        PROVE  UNCHANGED Log!vars
    BY <1>3 DEF SendStep, Log!vars, tables, BeginTx, TryInsertOwned,
       TryInsertNotOwned, GetIdempotencyForUpdate, NextSequence,
       NextSequenceFails, ConvCallsReturn, ConvCallsReject, InsertRows,
       SerializationFailure, Abort
  <1>4. ASSUME NEW d \in DeleteCalls, DeleteStep(d), ~CommitDelete(d)
        PROVE  UNCHANGED Log!vars
    BY <1>4 DEF DeleteStep, Log!vars, tables, BeginDelete, MessageNotFound,
       GetMessageForUpdate, CheckRequester, MarkMessageDeleted,
       SerializationFailureDelete, AbortDelete
  <1>5. CASE UNCHANGED vars
    BY <1>5 DEF vars, tables, Log!vars
  <1> QED BY <1>1, <1>2, <1>3, <1>4, <1>5 DEF Next, Idle

\* For any number of calls and retries: the message service implements
\* MessageLog, each command accepted once and each change announced with it.
THEOREM Refinement == Spec => LogSpec
  <1>1. Init => Log!Init
    BY DEF Init, Log!Init
  <1>2. IInv /\ [Next]_vars => [Log!Next]_(Log!vars)
    BY StepRefines
  <1> QED BY <1>1, <1>2, InductiveInvariant, PTL DEF Spec, LogSpec, Log!Spec

\* For any number of calls and retries: committed messages, deletions, answers
\* and events are never changed or removed.
THEOREM HistoryIsImmutableCorrect == Spec => HistoryIsImmutable
  <1>1. TypeOK /\ [Log!Next]_(Log!vars) =>
          /\ messages \subseteq messages' /\ deleted_at \subseteq deleted_at'
          /\ outbox \subseteq outbox'
          /\ \A k \in Commands : idempotency[k] # NoMessage
                                  => idempotency'[k] = idempotency[k]
    BY DEF Log!Next, Log!Accept, Log!Delete, Log!vars, TypeOK
  <1>2. IInv /\ [Next]_vars =>
          [/\ messages \subseteq messages' /\ deleted_at \subseteq deleted_at'
           /\ outbox \subseteq outbox'
           /\ \A k \in Commands : idempotency[k] # NoMessage
                                   => idempotency'[k] = idempotency[k]]_vars
    BY <1>1, StepRefines DEF IInv, TypeInv
  <1> QED BY <1>2, InductiveInvariant, PTL DEF Spec, HistoryIsImmutable

-----------------------------------------------------------------------------
(* The pipeline: the service writes the table the relay reads *)

\* The attempts that have inserted their outbox row, or never will.
SendAttempts ==
    {x \in SendCalls \X (1 .. MaxRetries) :
        \/ x[2] < attempt[x[1]]
        \/ x[2] = attempt[x[1]] /\ pc[x[1]] \in {"commit", "done", "failed"}}
DeleteAttempts ==
    {x \in DeleteCalls \X (1 .. MaxRetries) :
        \/ x[2] < dattempt[x[1]]
        \/ x[2] = dattempt[x[1]] /\ dpc[x[1]] \in {"commit", "done", "failed"}}

\* Each id was taken by an attempt of its own.
RowCountInv == outbox_id <= Cardinality(SendAttempts) + Cardinality(DeleteAttempts)

\* The sets of attempts are finite and the rows they allow fit the bound.
LEMMA AttemptsBound ==
    /\ IsFiniteSet(SendCalls \X (1 .. MaxRetries))
    /\ IsFiniteSet(DeleteCalls \X (1 .. MaxRetries))
    /\ Cardinality(SendCalls \X (1 .. MaxRetries))
       + Cardinality(DeleteCalls \X (1 .. MaxRetries)) <= MaxRows
  <1>1. IsFiniteSet(1 .. MaxRetries) /\ Cardinality(1 .. MaxRetries) = MaxRetries
    BY MessageServiceAssumption, FS_Interval
  <1>2. IsFiniteSet(SendCalls) /\ IsFiniteSet(DeleteCalls)
    BY MessagePipelineAssumption
  <1>3. /\ IsFiniteSet(SendCalls \X (1 .. MaxRetries))
        /\ Cardinality(SendCalls \X (1 .. MaxRetries)) = Cardinality(SendCalls) * MaxRetries
    BY <1>1, <1>2, FS_Product
  <1>4. /\ IsFiniteSet(DeleteCalls \X (1 .. MaxRetries))
        /\ Cardinality(DeleteCalls \X (1 .. MaxRetries)) = Cardinality(DeleteCalls) * MaxRetries
    BY <1>1, <1>2, FS_Product
  <1>5. /\ Cardinality(SendCalls \X (1 .. MaxRetries)) \in Nat
        /\ Cardinality(DeleteCalls \X (1 .. MaxRetries)) \in Nat
    BY <1>3, <1>4, FS_CardinalityType
  <1> QED BY <1>3, <1>4, <1>5, MessagePipelineAssumption

\* A set of attempts that only grows, and by an attempt that takes an id.
LEMMA AttemptsGrow ==
    ASSUME NEW S, IsFiniteSet(S), NEW A \in SUBSET S, NEW B \in SUBSET S, A \subseteq B
    PROVE  /\ Cardinality(A) \in Nat /\ Cardinality(B) \in Nat
           /\ Cardinality(A) <= Cardinality(B) /\ Cardinality(B) <= Cardinality(S)
           /\ B # A => Cardinality(A) + 1 <= Cardinality(B)
  <1>1. IsFiniteSet(A) /\ IsFiniteSet(B) /\ Cardinality(B) <= Cardinality(S)
    BY FS_Subset
  <1>2. Cardinality(A) <= Cardinality(B) /\ (Cardinality(B) = Cardinality(A) => A = B)
    BY <1>1, FS_Subset
  <1>3. Cardinality(A) \in Nat /\ Cardinality(B) \in Nat
    BY <1>1, FS_CardinalityType
  <1> QED BY <1>1, <1>2, <1>3

\* The attempts account for the ids in every state.
LEMMA RowCountStep ==
    ASSUME TypeInv, RowCountInv, [Next]_vars
    PROVE  RowCountInv'
  <1>1. /\ SendAttempts \subseteq SendAttempts' /\ DeleteAttempts \subseteq DeleteAttempts'
        /\ \/ outbox_id' = outbox_id
           \/ outbox_id' = outbox_id + 1 /\ SendAttempts' # SendAttempts
           \/ outbox_id' = outbox_id + 1 /\ DeleteAttempts' # DeleteAttempts
    <2>1. ASSUME NEW p \in SendCalls, SendStep(p)
          PROVE  /\ UNCHANGED <<dattempt, dpc>>
                 /\ \A q \in SendCalls : /\ attempt[q] \in 1 .. MaxRetries
                                         /\ attempt'[q] \in 1 .. MaxRetries
                 /\ \A q \in SendCalls :
                       \/ attempt'[q] > attempt[q]
                       \/ /\ attempt'[q] = attempt[q]
                          /\ pc[q] \in {"commit", "done", "failed"}
                               => pc'[q] \in {"commit", "done", "failed"}
                 /\ \/ outbox_id' = outbox_id
                    \/ /\ outbox_id' = outbox_id + 1
                       /\ attempt'[p] = attempt[p]
                       /\ pc[p] = "write" /\ pc'[p] = "commit"
      <3>1. TypeOK'
        BY TypeStep DEF TypeInv
      <3>2. \A q \in SendCalls : /\ attempt[q] \in 1 .. MaxRetries
                                 /\ attempt'[q] \in 1 .. MaxRetries
        BY <3>1 DEF TypeInv, TypeOK
      <3> QED BY <2>1, <3>2, MessageServiceAssumption DEF TypeInv, TypeOK, SendStep, BeginTx, TryInsertOwned,
       TryInsertNotOwned, GetIdempotencyForUpdate, NextSequence,
       NextSequenceFails, ConvCallsReturn, ConvCallsReject, InsertRows, Commit,
       SerializationFailure, CanRetry, Abort, delVars
    <2>2. ASSUME NEW d \in DeleteCalls, DeleteStep(d)
          PROVE  /\ UNCHANGED <<attempt, pc>>
                 /\ \A q \in DeleteCalls : /\ dattempt[q] \in 1 .. MaxRetries
                                           /\ dattempt'[q] \in 1 .. MaxRetries
                 /\ \A q \in DeleteCalls :
                       \/ dattempt'[q] > dattempt[q]
                       \/ /\ dattempt'[q] = dattempt[q]
                          /\ dpc[q] \in {"commit", "done", "failed"}
                               => dpc'[q] \in {"commit", "done", "failed"}
                 /\ \/ outbox_id' = outbox_id
                    \/ /\ outbox_id' = outbox_id + 1
                       /\ dattempt'[d] = dattempt[d]
                       /\ dpc[d] = "mark" /\ dpc'[d] = "commit"
      <3>1. TypeOK'
        BY TypeStep DEF TypeInv
      <3>2. \A q \in DeleteCalls : /\ dattempt[q] \in 1 .. MaxRetries
                                   /\ dattempt'[q] \in 1 .. MaxRetries
        BY <3>1 DEF TypeInv, TypeOK
      <3> QED BY <2>2, <3>2, MessageServiceAssumption DEF TypeInv, TypeOK, DeleteStep, BeginDelete,
       MessageNotFound, GetMessageForUpdate, CheckRequester, MarkMessageDeleted,
       CommitDelete, SerializationFailureDelete, CanRetry, AbortDelete, sendVars
    <2>3. ASSUME NEW p \in SendCalls, SendStep(p)
          PROVE  /\ DeleteAttempts' = DeleteAttempts
                 /\ SendAttempts \subseteq SendAttempts'
                 /\ \/ outbox_id' = outbox_id
                    \/ outbox_id' = outbox_id + 1 /\ SendAttempts' # SendAttempts
      <3>1. DeleteAttempts' = DeleteAttempts
        BY <2>1, <2>3 DEF DeleteAttempts
      <3>2. SendAttempts \subseteq SendAttempts'
        BY <2>1, <2>3, MessageServiceAssumption DEF SendAttempts
      <3>3. CASE outbox_id' # outbox_id
        <4>1. <<p, attempt[p]>> \in SendCalls \X (1 .. MaxRetries)
              /\ attempt'[p] = attempt[p] /\ pc[p] = "write" /\ pc'[p] = "commit"
          BY <2>1, <2>3, <3>3
        <4>2. <<p, attempt[p]>> \in SendAttempts' /\ <<p, attempt[p]>> \notin SendAttempts
          BY <4>1, MessageServiceAssumption DEF SendAttempts
        <4> QED BY <2>1, <2>3, <3>1, <3>2, <3>3, <4>2
      <3> QED BY <3>1, <3>2, <3>3
    <2>4. ASSUME NEW d \in DeleteCalls, DeleteStep(d)
          PROVE  /\ SendAttempts' = SendAttempts
                 /\ DeleteAttempts \subseteq DeleteAttempts'
                 /\ \/ outbox_id' = outbox_id
                    \/ outbox_id' = outbox_id + 1 /\ DeleteAttempts' # DeleteAttempts
      <3>1. SendAttempts' = SendAttempts
        BY <2>2, <2>4 DEF SendAttempts
      <3>2. DeleteAttempts \subseteq DeleteAttempts'
        BY <2>2, <2>4, MessageServiceAssumption DEF DeleteAttempts
      <3>3. CASE outbox_id' # outbox_id
        <4>1. <<d, dattempt[d]>> \in DeleteCalls \X (1 .. MaxRetries)
              /\ dattempt'[d] = dattempt[d] /\ dpc[d] = "mark" /\ dpc'[d] = "commit"
          BY <2>2, <2>4, <3>3
        <4>2. <<d, dattempt[d]>> \in DeleteAttempts' /\ <<d, dattempt[d]>> \notin DeleteAttempts
          BY <4>1, MessageServiceAssumption DEF DeleteAttempts
        <4> QED BY <2>2, <2>4, <3>1, <3>2, <3>3, <4>2
      <3> QED BY <3>1, <3>2, <3>3
    <2>5. CASE UNCHANGED vars
      BY <2>5 DEF vars, sendVars, delVars, SendAttempts, DeleteAttempts
    <2> QED BY <2>3, <2>4, <2>5 DEF Next, Idle
  <1> DEFINE S == SendCalls \X (1 .. MaxRetries)
             D == DeleteCalls \X (1 .. MaxRetries)
  <1>2. /\ SendAttempts \in SUBSET S /\ SendAttempts' \in SUBSET S
        /\ DeleteAttempts \in SUBSET D /\ DeleteAttempts' \in SUBSET D
    BY DEF SendAttempts, DeleteAttempts
  <1>3. IsFiniteSet(S) /\ IsFiniteSet(D)
    BY AttemptsBound
  <1> HIDE DEF S, D
  <1>4. /\ Cardinality(SendAttempts) \in Nat /\ Cardinality(SendAttempts') \in Nat
        /\ Cardinality(SendAttempts) <= Cardinality(SendAttempts')
        /\ SendAttempts' # SendAttempts
             => Cardinality(SendAttempts) + 1 <= Cardinality(SendAttempts')
    BY <1>1, <1>2, <1>3, AttemptsGrow
  <1>5. /\ Cardinality(DeleteAttempts) \in Nat /\ Cardinality(DeleteAttempts') \in Nat
        /\ Cardinality(DeleteAttempts) <= Cardinality(DeleteAttempts')
        /\ DeleteAttempts' # DeleteAttempts
             => Cardinality(DeleteAttempts) + 1 <= Cardinality(DeleteAttempts')
    BY <1>1, <1>2, <1>3, AttemptsGrow
  <1>6. outbox_id \in Nat
    BY DEF TypeInv, TypeOK
  <1> QED BY <1>1, <1>4, <1>5, <1>6 DEF RowCountInv

\* Before a row is inserted there is room for it.
LEMMA RowsFit ==
    ASSUME TypeInv, RowCountInv
    PROVE  outbox_id <= MaxRows
  <1> DEFINE S == SendCalls \X (1 .. MaxRetries)
             D == DeleteCalls \X (1 .. MaxRetries)
  <1>1. SendAttempts \in SUBSET S /\ DeleteAttempts \in SUBSET D
    BY DEF SendAttempts, DeleteAttempts
  <1>2. IsFiniteSet(S) /\ IsFiniteSet(D) /\ Cardinality(S) + Cardinality(D) <= MaxRows
    BY AttemptsBound
  <1> HIDE DEF S, D
  <1>3. /\ Cardinality(SendAttempts) \in Nat /\ Cardinality(SendAttempts) <= Cardinality(S)
        /\ Cardinality(DeleteAttempts) \in Nat /\ Cardinality(DeleteAttempts) <= Cardinality(D)
        /\ Cardinality(S) \in Nat /\ Cardinality(D) \in Nat
    BY <1>1, <1>2, FS_Subset, FS_CardinalityType
  <1> QED BY <1>2, <1>3, MessagePipelineAssumption DEF RowCountInv, TypeInv, TypeOK

\* What a step of the service means to the table: nothing, a row inserted, a
\* row committed or a row rolled back.
LEMMA ServiceRefines ==
    ASSUME TypeInv, EventIdInv, outbox_id' <= MaxRows, ServiceStep
    PROVE  Relay!TableStep \/ UNCHANGED Relay!vars
  <1> USE DEF Relay!TableStep
  <1>0. /\ before' = before \cup (Rows \X (OpenRows' \ OpenRows))
        /\ UNCHANGED relayVars /\ outbox_id \in Nat
    BY DEF ServiceStep, TypeInv, TypeOK
  <1>1. ASSUME OpenRows' = OpenRows, Rows' = Rows, outbox_id' = outbox_id
        PROVE  UNCHANGED Relay!vars
    <2>1. Rows \X (OpenRows' \ OpenRows) = {}
      BY <1>1
    <2> QED BY <1>0, <1>1, <2>1 DEF Relay!vars, Relay!tableVars, Relay!relayVars, relayVars
  <1>2. ASSUME outbox_id' = outbox_id + 1, OpenRows' = OpenRows \cup {outbox_id + 1},
               Rows' = Rows
        PROVE  Relay!InsertOutbox
    <2>1. outbox_id + 1 \notin OpenRows
      BY <1>0 DEF OpenRows, EventIdInv, TypeInv, TypeOK
    <2>2. OpenRows' \ OpenRows = {outbox_id + 1}
      BY <1>2, <2>1
    <2> QED BY <1>0, <1>2, <2>2, MessagePipelineAssumption
            DEF Relay!InsertOutbox, Relay!relayVars, relayVars
  <1>3. ASSUME NEW i \in OpenRows, OpenRows' = OpenRows \ {i},
               Rows' = Rows \cup {i} \/ Rows' = Rows, outbox_id' = outbox_id
        PROVE  Relay!CommitRow(i) \/ Relay!RollbackRow(i)
    <2>1. Rows \X (OpenRows' \ OpenRows) = {}
      BY <1>3
    <2> QED BY <1>0, <1>3, <2>1
            DEF Relay!CommitRow, Relay!RollbackRow, Relay!relayVars, relayVars
  <1>4. ASSUME NEW p \in SendCalls, SendStep(p), ~InsertRows(p), pc[p] # "commit"
        PROVE  UNCHANGED Relay!vars
    <2>1. /\ UNCHANGED <<outbox, outbox_id, event_id, dpc, devent_id>>
          /\ \A q \in SendCalls : pc'[q] = "commit" <=> pc[q] = "commit"
      BY <1>4 DEF SendStep, tables, delVars, BeginTx, TryInsertOwned,
         TryInsertNotOwned, GetIdempotencyForUpdate, NextSequence,
         NextSequenceFails, ConvCallsReturn, ConvCallsReject, Commit,
         SerializationFailure, Abort, TypeInv, TypeOK
    <2>2. OpenRows' = OpenRows /\ Rows' = Rows
      BY <2>1 DEF OpenRows, Rows
    <2> QED BY <1>1, <2>1, <2>2
  <1>5. ASSUME NEW p \in SendCalls, InsertRows(p)
        PROVE  Relay!InsertOutbox
    <2>1. /\ UNCHANGED <<outbox, dpc, devent_id>> /\ pc[p] = "write"
          /\ outbox_id' = outbox_id + 1 /\ pc' = [pc EXCEPT ![p] = "commit"]
          /\ event_id' = [event_id EXCEPT ![p] = outbox_id + 1]
      BY <1>5 DEF InsertRows, tables, delVars
    <2>2. /\ \A q \in SendCalls : pc'[q] = "commit" <=> pc[q] = "commit" \/ q = p
          /\ \A q \in SendCalls : event_id'[q] = IF q = p THEN outbox_id + 1 ELSE event_id[q]
      BY <2>1 DEF TypeInv, TypeOK
    <2>3. OpenRows' = OpenRows \cup {outbox_id + 1} /\ Rows' = Rows
      BY <2>1, <2>2 DEF OpenRows, Rows
    <2> QED BY <1>2, <2>1, <2>3
  <1>6. ASSUME NEW p \in SendCalls, SendStep(p), pc[p] = "commit", pc'[p] = "commit"
        PROVE  UNCHANGED Relay!vars
    <2>1. UNCHANGED <<outbox, outbox_id, event_id, dpc, devent_id, pc>>
      BY <1>6 DEF SendStep, tables, delVars, BeginTx, TryInsertOwned,
         TryInsertNotOwned, GetIdempotencyForUpdate, NextSequence,
         NextSequenceFails, ConvCallsReturn, ConvCallsReject, Commit, InsertRows,
         SerializationFailure, Abort, TypeInv, TypeOK
    <2>2. OpenRows' = OpenRows /\ Rows' = Rows
      BY <2>1 DEF OpenRows, Rows
    <2> QED BY <1>1, <2>1, <2>2
  <1>7. ASSUME NEW p \in SendCalls, SendStep(p), pc[p] = "commit", pc'[p] # "commit"
        PROVE  Relay!CommitRow(event_id[p]) \/ Relay!RollbackRow(event_id[p])
    <2>1. /\ UNCHANGED <<outbox_id, event_id, dpc, devent_id>>
          /\ \A q \in SendCalls : pc'[q] = "commit" <=> pc[q] = "commit" /\ q # p
      BY <1>7 DEF SendStep, tables, delVars, BeginTx, TryInsertOwned,
         TryInsertNotOwned, GetIdempotencyForUpdate, NextSequence,
         NextSequenceFails, ConvCallsReturn, ConvCallsReject, Commit, InsertRows,
         SerializationFailure, Abort, TypeInv, TypeOK
    <2>2. OpenRows' = OpenRows \ {event_id[p]} /\ event_id[p] \in OpenRows
      BY <1>7, <2>1 DEF OpenRows, EventIdInv
    <2>3. \/ outbox' = outbox
          \/ \E e : outbox' = outbox \cup {e} /\ e.id = event_id[p]
      BY <1>7 DEF SendStep, tables, BeginTx, TryInsertOwned,
         TryInsertNotOwned, GetIdempotencyForUpdate, NextSequence,
         NextSequenceFails, ConvCallsReturn, ConvCallsReject, Commit, InsertRows,
         SerializationFailure, Abort
    <2>4. Rows' = Rows \cup {event_id[p]} \/ Rows' = Rows
      BY <2>3 DEF Rows
    <2> QED BY <1>3, <2>1, <2>2, <2>4
  <1>8. ASSUME NEW d \in DeleteCalls, DeleteStep(d), ~MarkMessageDeleted(d),
               dpc[d] # "commit"
        PROVE  UNCHANGED Relay!vars
    <2>1. /\ UNCHANGED <<outbox, outbox_id, devent_id, pc, event_id>>
          /\ \A e \in DeleteCalls : dpc'[e] = "commit" <=> dpc[e] = "commit"
      BY <1>8 DEF DeleteStep, tables, sendVars, BeginDelete, MessageNotFound,
         GetMessageForUpdate, CheckRequester, CommitDelete,
         SerializationFailureDelete, AbortDelete, TypeInv, TypeOK
    <2>2. OpenRows' = OpenRows /\ Rows' = Rows
      BY <2>1 DEF OpenRows, Rows
    <2> QED BY <1>1, <2>1, <2>2
  <1>9. ASSUME NEW d \in DeleteCalls, MarkMessageDeleted(d)
        PROVE  Relay!InsertOutbox
    <2>1. /\ UNCHANGED <<outbox, pc, event_id>> /\ dpc[d] = "mark"
          /\ outbox_id' = outbox_id + 1 /\ dpc' = [dpc EXCEPT ![d] = "commit"]
          /\ devent_id' = [devent_id EXCEPT ![d] = outbox_id + 1]
      BY <1>9 DEF MarkMessageDeleted, tables, sendVars
    <2>2. /\ \A e \in DeleteCalls : dpc'[e] = "commit" <=> dpc[e] = "commit" \/ e = d
          /\ \A e \in DeleteCalls :
                devent_id'[e] = IF e = d THEN outbox_id + 1 ELSE devent_id[e]
      BY <2>1 DEF TypeInv, TypeOK
    <2>3. OpenRows' = OpenRows \cup {outbox_id + 1} /\ Rows' = Rows
      BY <2>1, <2>2 DEF OpenRows, Rows
    <2> QED BY <1>2, <2>1, <2>3
  <1>10. ASSUME NEW d \in DeleteCalls, DeleteStep(d), dpc[d] = "commit"
         PROVE  Relay!CommitRow(devent_id[d]) \/ Relay!RollbackRow(devent_id[d])
    <2>1. /\ UNCHANGED <<outbox_id, event_id, pc, devent_id>>
          /\ \A e \in DeleteCalls : dpc'[e] = "commit" <=> dpc[e] = "commit" /\ e # d
      BY <1>10 DEF DeleteStep, tables, sendVars, BeginDelete, MessageNotFound,
         GetMessageForUpdate, CheckRequester, MarkMessageDeleted, CommitDelete,
         SerializationFailureDelete, AbortDelete, TypeInv, TypeOK
    <2>2. OpenRows' = OpenRows \ {devent_id[d]} /\ devent_id[d] \in OpenRows
      BY <1>10, <2>1 DEF OpenRows, EventIdInv
    <2>3. \/ outbox' = outbox
          \/ \E e : outbox' = outbox \cup {e} /\ e.id = devent_id[d]
      BY <1>10 DEF DeleteStep, tables, BeginDelete, MessageNotFound,
         GetMessageForUpdate, CheckRequester, MarkMessageDeleted, CommitDelete,
         SerializationFailureDelete, AbortDelete
    <2>4. Rows' = Rows \cup {devent_id[d]} \/ Rows' = Rows
      BY <2>3 DEF Rows
    <2> QED BY <1>3, <2>1, <2>2, <2>4
  <1>11. CASE UNCHANGED vars
    <2>1. OpenRows' = OpenRows /\ Rows' = Rows /\ outbox_id' = outbox_id
      BY <1>11 DEF vars, tables, sendVars, delVars, OpenRows, Rows
    <2> QED BY <1>1, <2>1
  <1>12. ASSUME NEW i, Relay!CommitRow(i) \/ Relay!RollbackRow(i)
         PROVE  Relay!TableStep
    BY <1>12 DEF Relay!CommitRow, Relay!RollbackRow
  <1> QED BY <1>4, <1>5, <1>6, <1>7, <1>8, <1>9, <1>10, <1>11, <1>12
          DEF ServiceStep, Next, Idle

\* Every step of the pipeline is one of the relay's specification, or none.
LEMMA PipelineRefines ==
    ASSUME TypeInv, EventIdInv, outbox_id' <= MaxRows, [PipelineNext]_pipelineVars
    PROVE  [Relay!Next]_(Relay!vars)
  <1>1. CASE ServiceStep
    BY <1>1, ServiceRefines DEF Relay!Next
  <1>2. ASSUME NEW w \in Workers, RelayStep(w)
        PROVE  Relay!Next
    BY <1>2 DEF RelayStep, Relay!Next
  <1>3. CASE UNCHANGED pipelineVars
    <2>1. OpenRows' = OpenRows /\ Rows' = Rows
      BY <1>3 DEF pipelineVars, vars, tables, sendVars, delVars, OpenRows, Rows
    <2> QED BY <1>3, <2>1
            DEF pipelineVars, relayVars, vars, Relay!vars, Relay!tableVars, Relay!relayVars
  <1> QED BY <1>1, <1>2, <1>3 DEF PipelineNext

\* The pipeline runs the service as it is: what is proved about MessageService
\* holds in it.
LEMMA PipelineInvariant == PipelineSpec => [](IInv /\ RowCountInv)
  <1>1. PipelineInit => Init
    BY DEF PipelineInit
  <1>2. [PipelineNext]_pipelineVars => [Next]_vars
    BY DEF PipelineNext, ServiceStep, RelayStep, pipelineVars
  <1>3. PipelineSpec => Spec
    BY <1>1, <1>2, PTL DEF PipelineSpec, Spec
  <1>4. Init => RowCountInv
    <2> SUFFICES ASSUME Init PROVE RowCountInv
      OBVIOUS
    <2> DEFINE S == SendCalls \X (1 .. MaxRetries)
               D == DeleteCalls \X (1 .. MaxRetries)
    <2>1. SendAttempts \in SUBSET S /\ DeleteAttempts \in SUBSET D
      BY DEF SendAttempts, DeleteAttempts
    <2>2. IsFiniteSet(S) /\ IsFiniteSet(D)
      BY AttemptsBound
    <2> HIDE DEF S, D
    <2>3. Cardinality(SendAttempts) \in Nat /\ Cardinality(DeleteAttempts) \in Nat
      BY <2>1, <2>2, AttemptsGrow
    <2> QED BY <2>3 DEF Init, RowCountInv
  <1>5. IInv /\ RowCountInv /\ [Next]_vars => RowCountInv'
    BY RowCountStep DEF IInv
  <1> QED BY <1>3, <1>4, <1>5, InductiveInvariant, PTL DEF Spec

\* For any number of calls, retries and workers: the transactions of SendMessage
\* and DeleteMessage use outbox_events as OutboxRelay assumes of its writers.
THEOREM RelaySpecCorrect == PipelineSpec => RelaySpec
  <1>1. PipelineInit => Relay!Init
    BY DEF PipelineInit, Init, Relay!Init, Relay!TableInit, OpenRows, Rows
  <1>2. IInv /\ RowCountInv => outbox_id <= MaxRows
    BY RowsFit DEF IInv
  <1>3. IInv /\ (outbox_id <= MaxRows)' /\ [PipelineNext]_pipelineVars
          => [Relay!Next]_(Relay!vars)
    BY PipelineRefines DEF IInv
  <1> QED BY <1>1, <1>2, <1>3, PipelineInvariant, PTL DEF PipelineSpec, RelaySpec, Relay!Spec

-----------------------------------------------------------------------------
(* What OutboxRelayProofs proves, of the pipeline's outbox *)

Proofs == INSTANCE OutboxRelayProofs WITH
             last_id <- outbox_id, open <- OpenRows, rows <- Rows

\* The assumptions of OutboxRelay hold of the pipeline's constants.
LEMMA RelayAssumption == Proofs!OutboxRelayAssumption
  BY MessagePipelineAssumption DEF Proofs!OutboxRelayAssumption

\* The two instances bring the same Cardinality.
LEMMA SameCardinality == \A S : Relay!Cardinality(S) = Proofs!Cardinality(S)
  BY Zenon DEF Relay!Cardinality, Proofs!Cardinality

\* Proofs is about the same relay.
LEMMA SameRelay == RelaySpec => Proofs!Spec
  <1>1. Relay!Init => Proofs!Init
    BY DEF Relay!Init, Proofs!Init, Relay!TableInit, Proofs!TableInit,
       Relay!RelayInit, Proofs!RelayInit
  <1>2. ASSUME Relay!TableStep
        PROVE  Proofs!TableStep
    BY <1>2 DEF Relay!TableStep, Proofs!TableStep, Relay!InsertOutbox,
       Proofs!InsertOutbox, Relay!CommitRow, Proofs!CommitRow, Relay!RollbackRow,
       Proofs!RollbackRow, Relay!relayVars, Proofs!relayVars
  <1>3. ASSUME NEW w \in Workers, Relay!SelectBatch(w)
        PROVE  Proofs!SelectBatch(w)
    BY <1>3, SameCardinality DEF Relay!SelectBatch, Proofs!SelectBatch, Relay!Selectable,
       Proofs!Selectable, Relay!IsFirstOf, Proofs!IsFirstOf, Relay!tableVars,
       Proofs!tableVars
  <1>4. ASSUME NEW w \in Workers, Relay!Publish(w)
        PROVE  Proofs!Publish(w)
    BY <1>4 DEF Relay!Publish, Proofs!Publish, Relay!NextToPublish,
       Proofs!NextToPublish, Relay!tableVars, Proofs!tableVars
  <1>5. ASSUME NEW w \in Workers, Relay!PublishFails(w)
        PROVE  Proofs!PublishFails(w)
    BY <1>5 DEF Relay!PublishFails, Proofs!PublishFails, Relay!NextToPublish,
       Proofs!NextToPublish, Relay!Rollback, Proofs!Rollback, Relay!tableVars,
       Proofs!tableVars
  <1>6. ASSUME NEW w \in Workers, Relay!Crash(w)
        PROVE  Proofs!Crash(w)
    BY <1>6 DEF Relay!Crash, Proofs!Crash, Relay!Rollback, Proofs!Rollback,
       Relay!tableVars, Proofs!tableVars
  <1>7. ASSUME NEW w \in Workers, Relay!CommitBatch(w)
        PROVE  Proofs!CommitBatch(w)
    BY <1>7 DEF Relay!CommitBatch, Proofs!CommitBatch, Relay!BatchPublished,
       Proofs!BatchPublished, Relay!tableVars, Proofs!tableVars
  <1>8. ASSUME UNCHANGED Relay!vars
        PROVE  UNCHANGED Proofs!vars
    BY <1>8 DEF Relay!vars, Proofs!vars, Relay!tableVars, Proofs!tableVars,
       Relay!relayVars, Proofs!relayVars
  <1>9. [Relay!Next]_(Relay!vars) => [Proofs!Next]_(Proofs!vars)
    BY <1>2, <1>3, <1>4, <1>5, <1>6, <1>7, <1>8
       DEF Relay!Next, Proofs!Next, Relay!WorkerStep, Proofs!WorkerStep
  <1> QED BY <1>1, <1>9, PTL DEF RelaySpec, Relay!Spec, Proofs!Spec

\* For any number of calls, retries, workers and failures: what reaches Kafka is
\* what the service has committed, each event once more than there were failures
\* at most.
THEOREM PipelineDelivers ==
    PipelineSpec => [](Relay!NothingLostNothingInvented
                       /\ Relay!DuplicatesOnlyAfterFailure)
  <1>1. Proofs!NothingLostNothingInvented => Relay!NothingLostNothingInvented
    BY DEF Proofs!NothingLostNothingInvented, Relay!NothingLostNothingInvented,
       Proofs!Published, Relay!Published
  <1>2. Proofs!DuplicatesOnlyAfterFailure => Relay!DuplicatesOnlyAfterFailure
    BY SameCardinality DEF Proofs!DuplicatesOnlyAfterFailure, Relay!DuplicatesOnlyAfterFailure
  <1>3. Proofs!Spec => []Proofs!NothingLostNothingInvented
    BY RelayAssumption, Proofs!NothingLostCorrect
  <1>4. Proofs!Spec => []Proofs!DuplicatesOnlyAfterFailure
    BY RelayAssumption, Proofs!DuplicatesCorrect
  <1> QED BY <1>1, <1>2, <1>3, <1>4, RelaySpecCorrect, SameRelay, PTL

\* With one relay, for any number of calls, retries and failures: an event of
\* the service is first published after the events committed when it was written.
THEOREM EventsInCausalOrderCorrect ==
    ASSUME NEW u, Workers = {u}
    PROVE  PipelineSpec => []EventsInCausalOrder
  <1>1. Proofs!CausalOrder => EventsInCausalOrder
    BY DEF Proofs!CausalOrder, EventsInCausalOrder, Relay!CausalOrder
  <1>2. Proofs!Spec => []Proofs!CausalOrder
    BY RelayAssumption, Proofs!CausalOrderCorrect
  <1> QED BY <1>1, <1>2, RelaySpecCorrect, SameRelay, PTL
=============================================================================
