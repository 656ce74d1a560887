--------------------------- MODULE MessageService ---------------------------
(***************************************************************************)
(* The write path of the message service: SendMessage and DeleteMessage,   *)
(* each a serializable PostgreSQL transaction run by tx.Manager.WithTx,    *)
(* with the calls SendMessage makes to the conversation service while its  *)
(* transaction is open.                                                    *)
(*                                                                         *)
(* A call is one invocation of a handler.  A client that retries makes     *)
(* another call with the same command.  A command is the triple (client    *)
(* message id, user, conversation), the primary key of idempotency_keys;   *)
(* the message text is abstracted away.                                    *)
(*                                                                         *)
(* PostgreSQL is modelled by what its serializable level gives the code:   *)
(* a transaction reads the snapshot taken by its first statement, its      *)
(* writes become visible together when it commits, a statement that meets  *)
(* a row locked by another transaction waits, a statement that meets a row *)
(* changed since its snapshot fails with "could not serialize", and any    *)
(* statement or commit may fail that way.                                  *)
(***************************************************************************)
EXTENDS Naturals

CONSTANTS SendCalls,    \* invocations of SendMessage
          DeleteCalls,  \* invocations of DeleteMessage
          Commands,     \* SendMessage requests: records with fields user, conv
          Users,
          Convs,
          MaxRetries,   \* attempts WithTx makes (maxRetries = 5 in the code)
          NoMessage     \* the absent message id

MsgIds == SendCalls \X (1 .. MaxRetries)   \* uuid.NewString(): fresh per attempt

ASSUME MessageServiceAssumption ==
    /\ MaxRetries \in Nat \ {0}
    /\ \A k \in Commands : k.user \in Users /\ k.conv \in Convs
    /\ NoMessage \notin MsgIds

VARIABLES
    \* committed rows of the message database
    messages,        \* rows of messages: [id, conv, sender, sequence]
    deleted_at,      \* ids of the messages whose deleted_at is set
    idempotency,     \* [Commands -> id of the message in payload, or NoMessage]
    outbox,          \* rows of outbox_events: [id, type, msg]
    outbox_id,       \* last value of the BIGSERIAL of outbox_events
    \* the conversation service's counter
    next_sequence,   \* [Convs -> Nat]
    \* SendMessage calls
    cmd,             \* the command of each call
    pc,              \* where each call is
    attempt,         \* the attempt of WithTx it is in
    snapshot,        \* what its snapshot shows for its idempotency key
    seq_rpc,         \* its NextSequence goroutine
    sequence,        \* the number NextSequence returned to it
    event_id,        \* the id of its outbox row
    reply,           \* the message a successful call returned
    \* DeleteMessage calls
    dpc, dattempt,
    target,          \* id of the message to delete
    requester,       \* the user asking
    dsnapshot,       \* was target deleted in the snapshot?
    devent_id

tables   == <<messages, deleted_at, idempotency, outbox>>
sendVars == <<pc, attempt, snapshot, seq_rpc, sequence, event_id, reply>>
delVars  == <<dpc, dattempt, target, requester, dsnapshot, devent_id>>
vars     == <<tables, outbox_id, next_sequence, cmd, sendVars, delVars>>

Message == [id : MsgIds, conv : Convs, sender : Users, sequence : Nat]
Event   == [id : Nat, type : {"MESSAGE_SENT", "MESSAGE_DELETED"}, msg : MsgIds]

SendPc   == {"begin", "insert", "replay", "conv", "write", "commit",
             "done", "failed"}
DeletePc == {"begin", "lock", "check", "mark", "commit", "done", "failed"}

TypeOK ==
    /\ messages \subseteq Message
    /\ deleted_at \subseteq MsgIds
    /\ idempotency \in [Commands -> MsgIds \cup {NoMessage}]
    /\ outbox \subseteq Event
    /\ outbox_id \in Nat
    /\ next_sequence \in [Convs -> Nat]
    /\ cmd \in [SendCalls -> Commands]
    /\ pc \in [SendCalls -> SendPc]
    /\ attempt \in [SendCalls -> 1 .. MaxRetries]
    /\ snapshot \in [SendCalls -> MsgIds \cup {NoMessage}]
    /\ seq_rpc \in [SendCalls -> {"idle", "sent", "ok", "err"}]
    /\ sequence \in [SendCalls -> Nat]
    /\ event_id \in [SendCalls -> Nat]
    /\ reply \in [SendCalls -> MsgIds \cup {NoMessage}]
    /\ dpc \in [DeleteCalls -> DeletePc]
    /\ dattempt \in [DeleteCalls -> 1 .. MaxRetries]
    /\ target \in [DeleteCalls -> MsgIds \cup {NoMessage}]
    /\ requester \in [DeleteCalls -> Users]
    /\ dsnapshot \in [DeleteCalls -> BOOLEAN]
    /\ devent_id \in [DeleteCalls -> Nat]

Init ==
    /\ messages = {} /\ deleted_at = {} /\ outbox = {} /\ outbox_id = 0
    /\ idempotency = [k \in Commands |-> NoMessage]
    /\ next_sequence = [c \in Convs |-> 0]
    /\ cmd \in [SendCalls -> Commands]
    /\ pc = [p \in SendCalls |-> "begin"]
    /\ attempt = [p \in SendCalls |-> 1]
    /\ snapshot = [p \in SendCalls |-> NoMessage]
    /\ seq_rpc = [p \in SendCalls |-> "idle"]
    /\ sequence = [p \in SendCalls |-> 0]
    /\ event_id = [p \in SendCalls |-> 0]
    /\ reply = [p \in SendCalls |-> NoMessage]
    /\ dpc = [d \in DeleteCalls |-> "begin"]
    /\ dattempt = [d \in DeleteCalls |-> 1]
    /\ target = [d \in DeleteCalls |-> NoMessage]
    /\ requester \in [DeleteCalls -> Users]
    /\ dsnapshot = [d \in DeleteCalls |-> FALSE]
    /\ devent_id = [d \in DeleteCalls |-> 0]

-----------------------------------------------------------------------------
(* SendMessage *)

\* BeginTx: the snapshot is the one of the first statement that follows.
BeginTx(p) ==
    /\ pc[p] = "begin"
    /\ pc' = [pc EXCEPT ![p] = "insert"]
    /\ snapshot' = [snapshot EXCEPT ![p] = idempotency[cmd[p]]]
    /\ UNCHANGED <<tables, outbox_id, next_sequence, cmd, attempt, seq_rpc,
                   sequence, event_id, reply, delVars>>

\* Mutants of HoldsKey: the key is taken only by the last UPDATE; a failed call
\* never lets go of it.
HoldsKeyAtCommitOnly(q) == pc[q] = "commit"
NeverReleasesKey(q) == pc[q] \in {"conv", "write", "commit", "failed"}

\* Call q has an uncommitted idempotency row.
HoldsKey(q) == pc[q] \in {"conv", "write", "commit"}

\* INSERT ... ON CONFLICT DO NOTHING waits for a transaction that has
\* inserted the same key.
KeyFree(p) == \A q \in SendCalls : q # p /\ cmd[q] = cmd[p] => ~HoldsKey(q)

\* Mutant of KeyUnused: a row committed since the snapshot is not noticed.
KeyUnusedInSnapshot(p) == snapshot[p] = NoMessage

\* No committed row has the key, in the snapshot or since.
KeyUnused(p) == snapshot[p] = NoMessage /\ idempotency[cmd[p]] = NoMessage

\* The insert takes the key: go on to the calls of parallelConvCalls.
TryInsertOwned(p) ==
    /\ pc[p] = "insert"
    /\ KeyFree(p)
    /\ KeyUnused(p)
    /\ pc' = [pc EXCEPT ![p] = "conv"]
    /\ seq_rpc' = [seq_rpc EXCEPT ![p] = "sent"]
    /\ UNCHANGED <<tables, outbox_id, next_sequence, cmd, attempt, snapshot,
                   sequence, event_id, reply, delVars>>

\* The insert meets a row of the snapshot and does nothing.
TryInsertNotOwned(p) ==
    /\ pc[p] = "insert"
    /\ snapshot[p] # NoMessage
    /\ pc' = [pc EXCEPT ![p] = "replay"]
    /\ UNCHANGED <<tables, outbox_id, next_sequence, cmd, attempt, snapshot,
                   seq_rpc, sequence, event_id, reply, delVars>>

\* GetIdempotencyForUpdate finds the payload: it is the answer, and the
\* transaction commits without a change.
GetIdempotencyForUpdate(p) ==
    /\ pc[p] = "replay"
    /\ pc' = [pc EXCEPT ![p] = "done"]
    /\ reply' = [reply EXCEPT ![p] = snapshot[p]]
    /\ UNCHANGED <<tables, outbox_id, next_sequence, cmd, attempt, snapshot,
                   seq_rpc, sequence, event_id, delVars>>

\* Mutant of Incremented: the counter is read, not updated.
NotIncremented(c) == next_sequence

\* UPDATE conversation_sequences SET next_sequence = next_sequence + 1.
Incremented(c) == [next_sequence EXCEPT ![c] = @ + 1]

\* The conversation service increments its counter in a transaction of its
\* own.  The goroutine may outlive the call that started it; the answer may be
\* lost on the way back.
NextSequence(p) ==
    /\ seq_rpc[p] = "sent"
    /\ LET c == cmd[p].conv IN
       /\ next_sequence' = Incremented(c)
       /\ \/ /\ seq_rpc' = [seq_rpc EXCEPT ![p] = "ok"]
             /\ sequence' = [sequence EXCEPT ![p] = next_sequence[c] + 1]
          \/ /\ seq_rpc' = [seq_rpc EXCEPT ![p] = "err"]
             /\ UNCHANGED sequence
    /\ UNCHANGED <<tables, outbox_id, cmd, pc, attempt, snapshot, event_id,
                   reply, delVars>>

NextSequenceFails(p) ==
    /\ seq_rpc[p] = "sent"
    /\ seq_rpc' = [seq_rpc EXCEPT ![p] = "err"]
    /\ UNCHANGED <<tables, outbox_id, next_sequence, cmd, pc, attempt, snapshot,
                   sequence, event_id, reply, delVars>>

\* parallelConvCalls returns both answers and the user is a participant in the
\* (possibly cached) conversation.
ConvCallsReturn(p) ==
    /\ pc[p] = "conv" /\ seq_rpc[p] = "ok"
    /\ pc' = [pc EXCEPT ![p] = "write"]
    /\ UNCHANGED <<tables, outbox_id, next_sequence, cmd, attempt, snapshot,
                   seq_rpc, sequence, event_id, reply, delVars>>

\* GetConversation fails (NextSequence may still be in flight), NextSequence
\* fails, the user is not a participant, or NewMessage rejects the message.
ConvCallsReject(p) ==
    /\ pc[p] = "conv"
    /\ pc' = [pc EXCEPT ![p] = "failed"]
    /\ UNCHANGED <<tables, outbox_id, next_sequence, cmd, attempt, snapshot,
                   seq_rpc, sequence, event_id, reply, delVars>>

\* Mutant of InsertRows: the event is inserted outside the transaction.
InsertOutboxOutsideTx(p) ==
    /\ pc[p] = "write"
    /\ pc' = [pc EXCEPT ![p] = "commit"]
    /\ outbox_id' = outbox_id + 1
    /\ event_id' = [event_id EXCEPT ![p] = outbox_id + 1]
    /\ outbox' = outbox \cup {[id |-> outbox_id + 1, type |-> "MESSAGE_SENT",
                               msg |-> <<p, attempt[p]>>]}
    /\ UNCHANGED <<messages, deleted_at, idempotency, next_sequence, cmd,
                   attempt, snapshot, seq_rpc, sequence, reply, delVars>>

\* InsertMessage, InsertOutbox and UpdateIdempotencyResponse: invisible until
\* the commit, except that the outbox row takes its id now.
InsertRows(p) ==
    /\ pc[p] = "write"
    /\ pc' = [pc EXCEPT ![p] = "commit"]
    /\ outbox_id' = outbox_id + 1
    /\ event_id' = [event_id EXCEPT ![p] = outbox_id + 1]
    /\ UNCHANGED <<tables, next_sequence, cmd, attempt, snapshot, seq_rpc,
                   sequence, reply, delVars>>

\* domain.NewMessage with the id of this attempt.
NewMessage(p) == [id |-> <<p, attempt[p]>>, conv |-> cmd[p].conv,
                  sender |-> cmd[p].user, sequence |-> sequence[p]]

\* The commit takes effect; the caller learns of it, or only sees an error
\* (deadline, lost connection, crash of the service).
Commit(p) ==
    /\ pc[p] = "commit"
    /\ messages' = messages \cup {NewMessage(p)}
    /\ idempotency' = [idempotency EXCEPT ![cmd[p]] = NewMessage(p).id]
    /\ outbox' = outbox \cup {[id |-> event_id[p], type |-> "MESSAGE_SENT",
                               msg |-> NewMessage(p).id]}
    /\ \/ /\ pc' = [pc EXCEPT ![p] = "done"]
          /\ reply' = [reply EXCEPT ![p] = NewMessage(p).id]
       \/ /\ pc' = [pc EXCEPT ![p] = "failed"]
          /\ UNCHANGED reply
    /\ UNCHANGED <<deleted_at, outbox_id, next_sequence, cmd, attempt, snapshot,
                   seq_rpc, sequence, event_id, delVars>>

\* The loop condition of WithTx.
CanRetry(n) == n < MaxRetries

\* A statement or the commit answers "could not serialize": WithTx rolls back
\* and starts again, up to MaxRetries attempts.
SerializationFailure(p) ==
    /\ pc[p] \in {"insert", "replay", "write", "commit"}
    /\ \/ /\ CanRetry(attempt[p])
          /\ pc' = [pc EXCEPT ![p] = "begin"]
          /\ attempt' = [attempt EXCEPT ![p] = @ + 1]
          /\ seq_rpc' = [seq_rpc EXCEPT ![p] = "idle"]
       \/ /\ ~CanRetry(attempt[p])
          /\ pc' = [pc EXCEPT ![p] = "failed"]
          /\ UNCHANGED <<attempt, seq_rpc>>
    /\ UNCHANGED <<tables, outbox_id, next_sequence, cmd, snapshot, sequence,
                   event_id, reply, delVars>>

\* Any other error, the caller's deadline or a crash: the transaction is
\* rolled back, a NextSequence call in flight is not.
Abort(p) ==
    /\ pc[p] \notin {"done", "failed"}
    /\ pc' = [pc EXCEPT ![p] = "failed"]
    /\ UNCHANGED <<tables, outbox_id, next_sequence, cmd, attempt, snapshot,
                   seq_rpc, sequence, event_id, reply, delVars>>

-----------------------------------------------------------------------------
(* DeleteMessage *)

\* The first statement takes the snapshot; the row asked for is in it.
BeginDelete(d) ==
    /\ dpc[d] = "begin"
    /\ \E m \in messages :
          /\ target' = [target EXCEPT ![d] = m.id]
          /\ dsnapshot' = [dsnapshot EXCEPT ![d] = m.id \in deleted_at]
    /\ dpc' = [dpc EXCEPT ![d] = "lock"]
    /\ UNCHANGED <<tables, outbox_id, next_sequence, cmd, sendVars, dattempt,
                   requester, devent_id>>

\* No row has the id, or the row belongs to another conversation.
MessageNotFound(d) ==
    /\ dpc[d] = "begin"
    /\ dpc' = [dpc EXCEPT ![d] = "failed"]
    /\ UNCHANGED <<tables, outbox_id, next_sequence, cmd, sendVars, dattempt,
                   target, requester, dsnapshot, devent_id>>

\* Mutant of HoldsRow: SELECT without FOR UPDATE.
HoldsNoRow(d) == FALSE

\* Call d has the FOR UPDATE lock of its target.
HoldsRow(d) == dpc[d] \in {"check", "mark", "commit"}

\* SELECT ... FOR UPDATE waits for the row's lock; a row changed since the
\* snapshot is a serialization failure instead.
GetMessageForUpdate(d) ==
    /\ dpc[d] = "lock"
    /\ \A e \in DeleteCalls : e # d /\ target[e] = target[d] => ~HoldsRow(e)
    /\ dsnapshot[d] = (target[d] \in deleted_at)
    /\ dpc' = [dpc EXCEPT ![d] = "check"]
    /\ UNCHANGED <<tables, outbox_id, next_sequence, cmd, sendVars, dattempt,
                   target, requester, dsnapshot, devent_id>>

IsSender(d) == \E m \in messages : m.id = target[d] /\ m.sender = requester[d]

\* The requester is the sender, or an admin according to GetConversation
\* (isAdmin).  A message already deleted is left as it is.
CheckRequester(d, isAdmin) ==
    /\ dpc[d] = "check"
    /\ dpc' = [dpc EXCEPT ![d] = IF ~IsSender(d) /\ ~isAdmin THEN "failed"
                                 ELSE IF dsnapshot[d] THEN "done" ELSE "mark"]
    /\ UNCHANGED <<tables, outbox_id, next_sequence, cmd, sendVars, dattempt,
                   target, requester, dsnapshot, devent_id>>

\* MarkMessageDeleted and InsertOutbox, inside the transaction.
MarkMessageDeleted(d) ==
    /\ dpc[d] = "mark"
    /\ dpc' = [dpc EXCEPT ![d] = "commit"]
    /\ outbox_id' = outbox_id + 1
    /\ devent_id' = [devent_id EXCEPT ![d] = outbox_id + 1]
    /\ UNCHANGED <<tables, next_sequence, cmd, sendVars, dattempt, target,
                   requester, dsnapshot>>

CommitDelete(d) ==
    /\ dpc[d] = "commit"
    /\ deleted_at' = deleted_at \cup {target[d]}
    /\ outbox' = outbox \cup {[id |-> devent_id[d], type |-> "MESSAGE_DELETED",
                               msg |-> target[d]]}
    /\ dpc' \in {[dpc EXCEPT ![d] = "done"], [dpc EXCEPT ![d] = "failed"]}
    /\ UNCHANGED <<messages, idempotency, outbox_id, next_sequence, cmd,
                   sendVars, dattempt, target, requester, dsnapshot, devent_id>>

SerializationFailureDelete(d) ==
    /\ dpc[d] \in {"lock", "mark", "commit"}
    /\ \/ /\ CanRetry(dattempt[d])
          /\ dpc' = [dpc EXCEPT ![d] = "begin"]
          /\ dattempt' = [dattempt EXCEPT ![d] = @ + 1]
       \/ /\ ~CanRetry(dattempt[d])
          /\ dpc' = [dpc EXCEPT ![d] = "failed"]
          /\ UNCHANGED dattempt
    /\ UNCHANGED <<tables, outbox_id, next_sequence, cmd, sendVars, target,
                   requester, dsnapshot, devent_id>>

AbortDelete(d) ==
    /\ dpc[d] \notin {"done", "failed"}
    /\ dpc' = [dpc EXCEPT ![d] = "failed"]
    /\ UNCHANGED <<tables, outbox_id, next_sequence, cmd, sendVars, dattempt,
                   target, requester, dsnapshot, devent_id>>

-----------------------------------------------------------------------------
SendStep(p) ==
    \/ BeginTx(p) \/ TryInsertOwned(p) \/ TryInsertNotOwned(p)
    \/ GetIdempotencyForUpdate(p)
    \/ NextSequence(p) \/ NextSequenceFails(p)
    \/ ConvCallsReturn(p) \/ ConvCallsReject(p)
    \/ InsertRows(p) \/ Commit(p)
    \/ SerializationFailure(p) \/ Abort(p)

DeleteStep(d) ==
    \/ BeginDelete(d) \/ MessageNotFound(d) \/ GetMessageForUpdate(d)
    \/ \E isAdmin \in BOOLEAN : CheckRequester(d, isAdmin)
    \/ MarkMessageDeleted(d) \/ CommitDelete(d)
    \/ SerializationFailureDelete(d) \/ AbortDelete(d)

\* Every call has been answered and nothing is in flight.
Quiescent ==
    /\ \A p \in SendCalls : pc[p] \in {"done", "failed"} /\ seq_rpc[p] # "sent"
    /\ \A d \in DeleteCalls : dpc[d] \in {"done", "failed"}

Idle == Quiescent /\ UNCHANGED vars

Next ==
    \/ \E p \in SendCalls : SendStep(p)
    \/ \E d \in DeleteCalls : DeleteStep(d)
    \/ Idle

Spec == Init /\ [][Next]_vars

\* The key was committed by another call after this call's snapshot.
Conflict(p) == pc[p] = "insert" /\ snapshot[p] = NoMessage
               /\ idempotency[cmd[p]] # NoMessage

\* The row was deleted by another call after this call's snapshot.
RowConflict(d) == dpc[d] = "lock" /\ dsnapshot[d] # (target[d] \in deleted_at)

\* Steps a running service and database take by themselves.  Errors, crashes
\* and serialization failures without a conflict are not among them.
SendProgress(p) ==
    \/ BeginTx(p) \/ TryInsertOwned(p) \/ TryInsertNotOwned(p)
    \/ GetIdempotencyForUpdate(p)
    \/ NextSequence(p) \/ NextSequenceFails(p)
    \/ ConvCallsReturn(p) \/ ConvCallsReject(p)
    \/ InsertRows(p) \/ Commit(p)
    \/ Conflict(p) /\ SerializationFailure(p)

DeleteProgress(d) ==
    \/ BeginDelete(d) \/ MessageNotFound(d) \/ GetMessageForUpdate(d)
    \/ \E isAdmin \in BOOLEAN : CheckRequester(d, isAdmin)
    \/ MarkMessageDeleted(d) \/ CommitDelete(d)
    \/ RowConflict(d) /\ SerializationFailureDelete(d)

Fairness == /\ \A p \in SendCalls : WF_vars(SendProgress(p))
            /\ \A d \in DeleteCalls : WF_vars(DeleteProgress(d))

FairSpec == Spec /\ Fairness
-----------------------------------------------------------------------------
(* Properties *)

\* The command of the call that wrote a message.
CommandOf(m) == cmd[m.id[1]]

\* However often a client repeats a SendMessage, before or after the first
\* attempt commits, times out or crashes, the messages table holds at most one
\* message for its command (send_message.go, idempotency_keys).
OneMessagePerCommand ==
    \A m, n \in messages : CommandOf(m) = CommandOf(n) => m = n

\* A successful SendMessage answers with a message that is stored, and that
\* has the sender and the conversation of the request; all successful calls
\* for one command answer with the same message.
RepliesAgree ==
    /\ \A p \in SendCalls : reply[p] # NoMessage =>
          \E m \in messages : /\ m.id = reply[p]
                              /\ m.sender = cmd[p].user /\ m.conv = cmd[p].conv
    /\ \A p, q \in SendCalls :
          /\ reply[p] # NoMessage /\ reply[q] # NoMessage
          /\ cmd[p] = cmd[q]
          => reply[p] = reply[q]

\* No two messages of a conversation share a sequence number, so the UNIQUE
\* (conversation_id, sequence) constraint never refuses an InsertMessage: the
\* model does without it.
SequenceUnique ==
    \A m, n \in messages : m.conv = n.conv /\ m.sequence = n.sequence => m = n

EventsOf(id, t) == {e \in outbox : e.msg = id /\ e.type = t}

\* A message is stored exactly when one MESSAGE_SENT event announces it, never
\* before and never twice ("Creation must emit a MessageSentEvent").
SentEventPerMessage ==
    /\ \A m \in messages : \E e \in outbox : EventsOf(m.id, "MESSAGE_SENT") = {e}
    /\ \A e \in outbox : \E m \in messages : m.id = e.msg

\* A message is deleted exactly when one MESSAGE_DELETED event says so, however
\* many DeleteMessage calls raced, and the event comes after the MESSAGE_SENT
\* of the message in the order the relay publishes (the outbox id).
DeleteEventAfterSent ==
    /\ \A id \in deleted_at :
          \E e \in outbox : EventsOf(id, "MESSAGE_DELETED") = {e}
    /\ \A e \in outbox : e.type = "MESSAGE_DELETED" =>
          /\ e.msg \in deleted_at
          /\ \E f \in EventsOf(e.msg, "MESSAGE_SENT") : f.id < e.id

\* What has been committed stays: a message's fields never change, a deletion
\* is never undone, an idempotency row keeps its first answer, and no event
\* disappears ("Standard fields are immutable. Only DeletedAt can change").
HistoryIsImmutable ==
    [][/\ messages \subseteq messages' /\ deleted_at \subseteq deleted_at'
       /\ outbox \subseteq outbox'
       /\ \A k \in Commands : idempotency[k] # NoMessage
                               => idempotency'[k] = idempotency[k]]_vars

Log == INSTANCE MessageLog

\* The transactions of the service implement the atomic steps of MessageLog.
LogSpec == Log!Spec

\* A call that waits for another call's idempotency row or message row is
\* always released: every call is answered, whatever errors, crashes and
\* serialization failures the others meet.
EveryCallAnswered ==
    /\ \A p \in SendCalls : <>(pc[p] \in {"done", "failed"})
    /\ \A d \in DeleteCalls : <>(dpc[d] \in {"done", "failed"})

\* domain/message.go: "Sequence must be strictly increasing, gapless, and
\* unique per conversation_id".  Once nothing is in flight, the sequence
\* numbers of a conversation are 1 .. n.
GaplessWhenQuiescent ==
    Quiescent => \A m \in messages : \A s \in 1 .. m.sequence - 1 :
                    \E n \in messages : n.conv = m.conv /\ n.sequence = s
=============================================================================
