------------------------- MODULE ConversationEvents -------------------------
(***************************************************************************)
(* The outbox of the conversation service from its writers to Kafka: the   *)
(* CREATED events of ConversationCreate, a membership event that follows   *)
(* in a conversation that exists, and the relay (outbox/worker.go).        *)
(*                                                                         *)
(* Unlike the relay of the message service, this one keeps what it         *)
(* published before a failure, and moves an event that failed too often to *)
(* outbox_dlq.                                                             *)
(***************************************************************************)
EXTENDS ConversationCreate, FiniteSetsExt

CONSTANTS Relays,         \* outbox workers, one in each replica
          BatchSize,
          RelayRetries,   \* Worker.MaxRetries (3 by default)
          MaxFailures,    \* bound on failed publishes and crashes of relays
          MaxChanges      \* bound on membership changes

ASSUME EventsAssumption ==
    /\ IsFiniteSet(Creates)
    /\ BatchSize \in Nat \ {0} /\ RelayRetries \in Nat
    /\ MaxFailures \in Nat /\ MaxChanges \in Nat

VARIABLES
    changes,      \* committed membership events
    processed,    \* rows with processed_at
    retry_count,  \* outbox_events.retry_count of each row
    outbox_dlq,   \* rows moved to the dead letter table
    topic,        \* the Kafka topic: row ids in the order they were appended
    batch,        \* the rows a worker has selected and locked
    sent,         \* those it has published
    failed,       \* the row whose publish failed, or 0
    failures,     \* publishes that failed, of each row
    crashes

relayTables == <<processed, retry_count, outbox_dlq>>
workVars    == <<batch, sent, failed>>
relayVars   == <<relayTables, topic, workVars, failures, crashes>>
eventVars   == <<vars, changes, relayVars>>

RowIds == 1 .. Cardinality(Creates) * MaxAttempts + MaxChanges

\* The rows of outbox_events: inserted, and not moved away.
Rows == {e.id : e \in outbox \cup changes} \ outbox_dlq

EventOf(n) == CHOOSE e \in outbox \cup changes : e.id = n

EventsInit ==
    /\ Init
    /\ changes = {} /\ processed = {} /\ outbox_dlq = {}
    /\ retry_count = [n \in RowIds |-> 0] /\ failures = [n \in RowIds |-> 0]
    /\ topic = <<>> /\ crashes = 0
    /\ batch = [w \in Relays |-> {}] /\ sent = [w \in Relays |-> {}]
    /\ failed = [w \in Relays |-> 0]

\* A step of CreateConversation.
Create == CreateNext /\ UNCHANGED <<changes, relayVars>>

\* AddParticipant or RemoveParticipant of a conversation that exists: a row in
\* the outbox (Conversation has their transactions).
ChangeMembership ==
    /\ Cardinality(changes) < MaxChanges
    /\ \E r \in conversations :
          changes' = changes \cup {[id |-> outbox_id + 1, conv |-> r.id,
                                    kind |-> "PARTICIPANT"]}
    /\ outbox_id' = outbox_id + 1
    /\ UNCHANGED <<conversations, outbox, cached, faults, createVars, relayVars>>

-----------------------------------------------------------------------------
(* processBatch *)

Locked == UNION {batch[w] : w \in Relays}

\* WHERE processed_at IS NULL FOR UPDATE SKIP LOCKED.
Selectable == Rows \ (processed \cup Locked)

\* ORDER BY id LIMIT BatchSize.
SelectBatch(w) ==
    /\ batch[w] = {} /\ Selectable # {}
    /\ batch' = [batch EXCEPT ![w] = {n \in Selectable :
                    Cardinality({m \in Selectable : m < n}) < BatchSize}]
    /\ UNCHANGED <<vars, changes, relayTables, topic, sent, failed, failures, crashes>>

\* Mutant of NextRow: the loop goes on after a failure.
NextRowAfterFailure(w) == batch[w] \ (sent[w] \cup {failed[w]})

\* The rows still to be published; the loop ends at the first failure.
NextRow(w) == IF failed[w] # 0 THEN {} ELSE batch[w] \ sent[w]

Publish(w) ==
    /\ NextRow(w) # {}
    /\ LET n == Min(NextRow(w)) IN
       /\ topic' = Append(topic, n)
       /\ sent' = [sent EXCEPT ![w] = @ \cup {n}]
    /\ UNCHANGED <<vars, changes, relayTables, batch, failed, failures, crashes>>

MayFail == crashes + MapThenSumSet(LAMBDA n : failures[n], RowIds) < MaxFailures

\* Publish returns an error; the event may have reached the topic all the same.
PublishFails(w) ==
    /\ NextRow(w) # {} /\ MayFail
    /\ LET n == Min(NextRow(w)) IN
       /\ failed' = [failed EXCEPT ![w] = n]
       /\ failures' = [failures EXCEPT ![n] = @ + 1]
       /\ topic' \in {topic, Append(topic, n)}
    /\ UNCHANGED <<vars, changes, relayTables, batch, sent, crashes>>

\* Mutant of Exhausted: one attempt less.
ExhaustedEarly(n) == retry_count[n] + 1 >= RelayRetries

\* The failed row has had all its attempts.
Exhausted(n) == retry_count[n] >= RelayRetries

\* The row that goes to outbox_dlq with this batch.
DeadLetters(w) == {n \in {failed[w]} \ {0} : Exhausted(n)}

\* The transaction of the batch commits: what was sent is processed, and the
\* row that failed is counted or moved to outbox_dlq.
CommitBatch(w) ==
    /\ batch[w] # {} /\ NextRow(w) = {}
    /\ processed' = processed \cup sent[w]
    /\ outbox_dlq' = outbox_dlq \cup DeadLetters(w)
    /\ retry_count' = [n \in RowIds |->
                          IF n = failed[w] THEN retry_count[n] + 1 ELSE retry_count[n]]
    /\ batch' = [batch EXCEPT ![w] = {}] /\ sent' = [sent EXCEPT ![w] = {}]
    /\ failed' = [failed EXCEPT ![w] = 0]
    /\ UNCHANGED <<vars, changes, topic, failures, crashes>>

\* A crash, or an error of a statement or of the commit: the batch is rolled
\* back, what was published stays published.
RollBack(w) ==
    /\ batch[w] # {} /\ MayFail
    /\ crashes' = crashes + 1
    /\ batch' = [batch EXCEPT ![w] = {}] /\ sent' = [sent EXCEPT ![w] = {}]
    /\ failed' = [failed EXCEPT ![w] = 0]
    /\ UNCHANGED <<vars, changes, relayTables, topic, failures>>

RelayStep(w) == SelectBatch(w) \/ Publish(w) \/ PublishFails(w) \/ CommitBatch(w)
                \/ RollBack(w)

EventsNext == Create \/ ChangeMembership \/ \E w \in Relays : RelayStep(w)

EventsSpec == EventsInit /\ [][EventsNext]_eventVars

\* Calls that began go on, and the workers poll.
FairEventsSpec ==
    /\ EventsSpec
    /\ \A p \in Creates : WF_eventVars(CreateStep(p) /\ UNCHANGED <<changes, relayVars>>)
    /\ \A w \in Relays : WF_eventVars(SelectBatch(w) \/ Publish(w) \/ CommitBatch(w))
-----------------------------------------------------------------------------
(* Properties *)

InTopic(n, k) == \E m \in 1 .. k : topic[m] = n

\* README.md of the service: "At-Least-Once", with a dead letter table.  No
\* event is lost: one that left the queue was published, or is kept as a dead
\* letter after all the attempts it has failed.
NoEventLost ==
    /\ \A n \in processed : InTopic(n, Len(topic))
    /\ \A n \in outbox_dlq : n \notin processed /\ failures[n] > RelayRetries

\* With one relay, a consumer meets the events of a conversation in the order
\* they were written: before the first copy of a later event there is the
\* earlier one, unless that became a dead letter.
EventsInOrder ==
    \A k \in 1 .. Len(topic) : \A e \in outbox \cup changes :
        e.conv = EventOf(topic[k]).conv /\ e.id < topic[k]
            => InTopic(e.id, k) \/ e.id \in outbox_dlq

\* A call that has begun is answered, and once it was answered with a new
\* conversation its CREATED event reaches the topic or the dead letters.
CreatedIsAnnounced ==
    \A p \in Creates :
        /\ <>(pc[p] \in {"done", "failed"})
        /\ (pc[p] = "done" /\ event_id[p] # 0 /\ Created(p) \in outbox)
              ~> (event_id[p] \in outbox_dlq \/ InTopic(event_id[p], Len(topic)))
=============================================================================
