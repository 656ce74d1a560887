--------------------------- MODULE MessagePipeline ---------------------------
(***************************************************************************)
(* The message service and its outbox relay over one outbox_events table:  *)
(* what reaches Kafka of what clients were told.  The transactions of      *)
(* MessageService are the writers of the table OutboxRelay reads.          *)
(***************************************************************************)
EXTENDS MessageService, Sequences, FiniteSets

CONSTANTS Workers, BatchSize, MaxFailures,
          MaxRows

\* MaxRows is no restriction: each attempt of a call inserts one row at most.
ASSUME MessagePipelineAssumption ==
    /\ IsFiniteSet(SendCalls) /\ IsFiniteSet(DeleteCalls)
    /\ Workers # {} /\ BatchSize \in Nat \ {0} /\ MaxFailures \in Nat
    /\ MaxRows \in Nat
    /\ MaxRows >= Cardinality(SendCalls) * MaxRetries
                  + Cardinality(DeleteCalls) * MaxRetries

VARIABLES processed, topic, batch, sent, failures, before

\* The rows open transactions have inserted, and the committed rows.
OpenRows == {event_id[p] : p \in {q \in SendCalls : pc[q] = "commit"}}
            \cup {devent_id[d] : d \in {e \in DeleteCalls : dpc[e] = "commit"}}
Rows     == {e.id : e \in outbox}

Relay == INSTANCE OutboxRelay WITH
            last_id <- outbox_id, open <- OpenRows, rows <- Rows

relayVars == <<processed, topic, batch, sent, failures>>

\* A step of the service, and its effect on the order of the rows.
ServiceStep ==
    /\ Next
    /\ before' = before \cup (Rows \X (OpenRows' \ OpenRows))
    /\ UNCHANGED relayVars

RelayStep(w) == UNCHANGED vars /\ Relay!WorkerStep(w)

PipelineInit == Init /\ Relay!RelayInit /\ before = {}

PipelineNext == ServiceStep \/ \E w \in Workers : RelayStep(w)

pipelineVars == <<vars, relayVars, before>>

PipelineSpec == PipelineInit /\ [][PipelineNext]_pipelineVars

\* The relay polls on; calls need not make progress.
FairPipelineSpec ==
    /\ PipelineSpec
    /\ \A w \in Workers : WF_pipelineVars(
          UNCHANGED vars /\ (Relay!SelectBatch(w) \/ Relay!Publish(w)
                             \/ Relay!CommitBatch(w)))
-----------------------------------------------------------------------------
(* Properties *)

EventAt(n) == CHOOSE e \in outbox : e.id = topic[n]

\* The service's transactions use the outbox table as OutboxRelay assumes: ids
\* grow, a row appears when its transaction commits, and rows never go away.
RelaySpec == Relay!Spec

\* OutboxRelay's CausalOrder over the events the service writes: with one
\* relay, an event is first published after the events that were committed
\* when it was written.
EventsInCausalOrder == Relay!CausalOrder

\* A client that was told its message is stored can count on its MESSAGE_SENT
\* event reaching Kafka, even if every later call fails.
AcknowledgedIsPublished ==
    \A p \in SendCalls : reply[p] # NoMessage ~>
        \E n \in DOMAIN topic : /\ EventAt(n).type = "MESSAGE_SENT"
                                /\ EventAt(n).msg = reply[p]

\* services/message/README.md: publishing to the conversation's partition is
\* "preserving sequence order for consumers".  A message is first published
\* after the messages of its conversation with lower sequence numbers.
TopicFollowsSequence ==
    \A n \in DOMAIN topic : \A a, b \in messages :
        /\ a.conv = b.conv /\ a.sequence < b.sequence
        /\ EventAt(n).type = "MESSAGE_SENT" /\ EventAt(n).msg = a.id
        => \/ \E m \in 1 .. n - 1 : topic[m] = topic[n]
           \/ \A m \in 1 .. n - 1 : EventAt(m).msg # b.id
=============================================================================
