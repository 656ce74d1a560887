----------------------------- MODULE OutboxRelay -----------------------------
(***************************************************************************)
(* The outbox relay of the message service (outbox.Worker): each replica   *)
(* of the service runs one worker that polls outbox_events and publishes   *)
(* to Kafka.  A batch is one READ COMMITTED transaction that locks the     *)
(* unprocessed rows with the lowest ids (FOR UPDATE SKIP LOCKED),          *)
(* publishes them in id order, marks each processed, and commits; an error *)
(* or a crash rolls all the marks back, not what Kafka has accepted.       *)
(*                                                                         *)
(* The writers of the table are transactions of the service.  A row's id   *)
(* is taken from the BIGSERIAL when it is inserted, and becomes visible    *)
(* when its transaction commits, so ids need not appear in order.          *)
(***************************************************************************)
EXTENDS Naturals, Sequences, FiniteSets

CONSTANTS Workers,      \* replicas running a relay
          BatchSize,    \* 100 in main.go
          MaxRows,      \* bound on the rows inserted
          MaxFailures   \* bound on publish failures and crashes

ASSUME OutboxRelayAssumption ==
    /\ BatchSize \in Nat \ {0} /\ MaxRows \in Nat /\ MaxFailures \in Nat
    /\ Workers # {}

VARIABLES
    last_id,    \* last value of the BIGSERIAL
    open,       \* ids of rows inserted by transactions still open
    rows,       \* ids of the committed rows
    before,     \* pairs <<a, b>>: row a was committed when row b was inserted
    processed,  \* ids whose processed_at is set
    topic,      \* what Kafka has accepted, in order
    batch,      \* [Workers -> rows its transaction has locked]
    sent,       \* [Workers -> rows of its batch published and marked so far]
    failures    \* failures so far

tableVars == <<last_id, open, rows, before>>
relayVars == <<processed, topic, batch, sent, failures>>
vars      == <<tableVars, relayVars>>

RowIds == Nat \ {0}

TypeOK ==
    /\ last_id \in Nat
    /\ open \subseteq RowIds /\ rows \subseteq RowIds
    /\ before \subseteq RowIds \X RowIds
    /\ processed \subseteq RowIds
    /\ topic \in Seq(RowIds)
    /\ batch \in [Workers -> SUBSET RowIds]
    /\ sent \in [Workers -> SUBSET RowIds]
    /\ failures \in 0 .. MaxFailures

TableInit == last_id = 0 /\ open = {} /\ rows = {} /\ before = {}

RelayInit ==
    /\ processed = {} /\ topic = <<>> /\ failures = 0
    /\ batch = [w \in Workers |-> {}]
    /\ sent = [w \in Workers |-> {}]

Init == TableInit /\ RelayInit

-----------------------------------------------------------------------------
(* The writers of the table *)

InsertOutbox ==
    /\ last_id < MaxRows
    /\ last_id' = last_id + 1
    /\ open' = open \cup {last_id + 1}
    /\ before' = before \cup (rows \X {last_id + 1})
    /\ UNCHANGED <<rows, relayVars>>

CommitRow(i) ==
    /\ i \in open
    /\ open' = open \ {i}
    /\ rows' = rows \cup {i}
    /\ UNCHANGED <<last_id, before, relayVars>>

RollbackRow(i) ==
    /\ i \in open
    /\ open' = open \ {i}
    /\ UNCHANGED <<last_id, rows, before, relayVars>>

-----------------------------------------------------------------------------
(* The worker *)

\* Mutants of Selectable: a poll that goes on from the highest id processed; a
\* SELECT without FOR UPDATE SKIP LOCKED.
SelectableAboveProcessed(w) ==
    {i \in rows \ processed : /\ \A j \in processed : j < i
                              /\ \A v \in Workers : i \notin batch[v]}
SelectableWithoutLock(w) == rows \ processed

\* WHERE processed_at IS NULL, without the rows other workers have locked.
Selectable(w) == {i \in rows \ processed : \A v \in Workers : i \notin batch[v]}

\* ORDER BY id ... LIMIT BatchSize.
IsFirstOf(B, S) ==
    /\ B \subseteq S /\ B # {}
    /\ Cardinality(B) <= BatchSize
    /\ B # S => Cardinality(B) = BatchSize
    /\ \A i \in B, j \in S \ B : i < j

\* An empty answer is not a step: the worker sleeps and polls again.
SelectBatch(w) ==
    /\ batch[w] = {}
    /\ \E B \in SUBSET Selectable(w) :
          /\ IsFirstOf(B, Selectable(w))
          /\ batch' = [batch EXCEPT ![w] = B]
    /\ UNCHANGED <<tableVars, processed, topic, sent, failures>>

\* The events of a batch are published one after the other, in id order.
NextToPublish(w, i) ==
    /\ i \in batch[w] \ sent[w]
    /\ \A j \in batch[w] \ sent[w] : i <= j

\* Publish waits for the delivery report, then processed_at is set in the
\* transaction.
Publish(w) ==
    /\ \E i \in batch[w] :
          /\ NextToPublish(w, i)
          /\ topic' = Append(topic, i)
          /\ sent' = [sent EXCEPT ![w] = @ \cup {i}]
    /\ UNCHANGED <<tableVars, processed, batch, failures>>

\* The transaction of worker w ends without a commit.
Rollback(w) ==
    /\ batch' = [batch EXCEPT ![w] = {}]
    /\ sent' = [sent EXCEPT ![w] = {}]
    /\ failures < MaxFailures
    /\ failures' = failures + 1

\* Publish returns an error; Kafka may have accepted the event all the same.
PublishFails(w) ==
    /\ \E i \in batch[w] :
          /\ NextToPublish(w, i)
          /\ topic' \in {topic, Append(topic, i)}
    /\ Rollback(w)
    /\ UNCHANGED <<tableVars, processed>>

\* The worker crashes, an UPDATE fails, or the commit fails.
Crash(w) ==
    /\ batch[w] # {}
    /\ Rollback(w)
    /\ UNCHANGED <<tableVars, processed, topic>>

\* Mutant of BatchPublished: rows are marked before they are published.
ReadyEarly(w) == batch[w] # {}

\* The loop over the batch is finished.
BatchPublished(w) == batch[w] # {} /\ sent[w] = batch[w]

CommitBatch(w) ==
    /\ BatchPublished(w)
    /\ processed' = processed \cup batch[w]
    /\ batch' = [batch EXCEPT ![w] = {}]
    /\ sent' = [sent EXCEPT ![w] = {}]
    /\ UNCHANGED <<tableVars, topic, failures>>

WorkerStep(w) ==
    \/ SelectBatch(w) \/ Publish(w) \/ PublishFails(w)
    \/ Crash(w) \/ CommitBatch(w)

-----------------------------------------------------------------------------
TableStep == \/ InsertOutbox
             \/ \E i \in open : CommitRow(i) \/ RollbackRow(i)

Next == TableStep \/ \E w \in Workers : WorkerStep(w)

Spec == Init /\ [][Next]_vars

\* A worker keeps polling; failures are not fair, and there are finitely many.
Fairness == \A w \in Workers : WF_vars(SelectBatch(w) \/ Publish(w) \/ CommitBatch(w))

FairSpec == Spec /\ Fairness
-----------------------------------------------------------------------------
(* Properties *)

Published == {topic[n] : n \in DOMAIN topic}

\* A row is marked processed only after Kafka accepted its event, and only
\* events of committed rows are published: no event is lost to a crash, none
\* announces a transaction that was rolled back.
NothingLostNothingInvented ==
    /\ processed \subseteq Published
    /\ Published \subseteq rows

\* SKIP LOCKED: two workers never work on the same row, nor on one that is
\* processed, so an event is published again only after a failure, at most
\* once for each.
DuplicatesOnlyAfterFailure ==
    \A i \in rows : Cardinality({n \in DOMAIN topic : topic[n] = i}) <= 1 + failures

\* README.md: "Causal ordering within a single conversation".  A row committed
\* before another one was inserted (a message, and an answer to it) is first
\* published before the other.  (All rows are of one conversation.)
CausalOrder ==
    \A n \in DOMAIN topic : \A a \in rows :
        <<a, topic[n]>> \in before => \E m \in 1 .. n - 1 : topic[m] = a

\* Every committed event is eventually published and marked, also one whose
\* id is lower than ids already processed.
EveryRowPublished == \A i \in 1 .. MaxRows : i \in rows ~> i \in processed \cap Published
=============================================================================
