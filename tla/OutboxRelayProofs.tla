-------------------------- MODULE OutboxRelayProofs --------------------------
(***************************************************************************)
(* Proofs about OutboxRelay, for any number of workers, rows, failures and *)
(* any batch size.                                                         *)
(***************************************************************************)
EXTENDS OutboxRelay, FiniteSetTheorems, TLAPS

\* Ids grow; an open row is not yet a row, and a row that was committed before
\* another was inserted has the lower id.
TableInv ==
    /\ \A i \in open \cup rows : i <= last_id
    /\ open \cap rows = {}
    /\ \A b \in before : /\ b[1] \in rows /\ b[1] < b[2]
                         /\ b[2] <= last_id

\* What a worker has locked and published so far.
BatchInv ==
    \A w \in Workers : /\ batch[w] \subseteq rows
                       /\ sent[w] \subseteq batch[w]
                       /\ sent[w] \subseteq Published

IInv == TypeOK /\ TableInv /\ BatchInv /\ NothingLostNothingInvented

-----------------------------------------------------------------------------
\* An event accepted by Kafka is added to what was published.
LEMMA AppendPublished ==
    ASSUME TypeOK, NEW i \in RowIds, topic' = Append(topic, i)
    PROVE  /\ topic' \in Seq(RowIds)
           /\ Published' = Published \cup {i}
           /\ DOMAIN topic' = 1 .. Len(topic) + 1
           /\ \A n \in DOMAIN topic : topic'[n] = topic[n]
           /\ topic'[Len(topic) + 1] = i
  <1>1. topic \in Seq(RowIds)
    BY DEF TypeOK
  <1>2. /\ topic' \in Seq(RowIds) /\ Len(topic') = Len(topic) + 1
        /\ DOMAIN topic = 1 .. Len(topic) /\ DOMAIN topic' = 1 .. Len(topic) + 1
        /\ \A n \in 1 .. Len(topic) : topic'[n] = topic[n]
        /\ topic'[Len(topic) + 1] = i
    BY <1>1
  <1>3. Len(topic) \in Nat
    BY <1>1
  <1>4. 1 .. Len(topic) + 1 = 1 .. Len(topic) \cup {Len(topic) + 1}
    BY <1>3
  <1>5. Published' = {topic'[n] : n \in 1 .. Len(topic) + 1}
    BY <1>2 DEF Published
  <1>6. Published' = {topic'[n] : n \in 1 .. Len(topic)} \cup {topic'[Len(topic) + 1]}
    BY <1>4, <1>5
  <1>7. {topic'[n] : n \in 1 .. Len(topic)} = Published
    BY <1>2 DEF Published
  <1> QED BY <1>2, <1>6, <1>7

\* Every step preserves the invariant.
LEMMA InvariantStep ==
    ASSUME IInv, [Next]_vars
    PROVE  IInv'
  <1> USE OutboxRelayAssumption DEF IInv
  <1>1. CASE InsertOutbox
    <2>1. /\ last_id' = last_id + 1 /\ open' = open \cup {last_id + 1}
          /\ rows' = rows /\ before' = before \cup (rows \X {last_id + 1})
          /\ UNCHANGED relayVars
      BY <1>1 DEF InsertOutbox
    <2>2. last_id \in Nat /\ rows \subseteq Nat /\ open \subseteq Nat
      BY DEF TypeOK, RowIds
    <2>3. TypeOK'
      <3>1. last_id + 1 \in RowIds /\ last_id' \in Nat
        BY <2>1, <2>2 DEF RowIds
      <3>2. rows \X {last_id + 1} \subseteq RowIds \X RowIds
        BY <3>1 DEF TypeOK
      <3> QED BY <2>1, <3>1, <3>2 DEF TypeOK, relayVars
    <2>4. \A b \in before' : b[1] \in rows /\ b[1] < b[2] /\ b[2] <= last_id'
      <3> SUFFICES ASSUME NEW b \in before'
                   PROVE  b[1] \in rows /\ b[1] < b[2] /\ b[2] <= last_id'
        OBVIOUS
      <3>1. CASE b \in before
        <4>1. b[1] \in rows /\ b[1] < b[2] /\ b[2] <= last_id /\ b[2] \in Nat
          BY <3>1 DEF TableInv, TypeOK, RowIds
        <4> QED BY <4>1, <2>1, <2>2
      <3>2. CASE b \in rows \X {last_id + 1}
        <4>1. PICK a \in rows : b = <<a, last_id + 1>>
          BY <3>2
        <4>2. a \in Nat /\ a <= last_id
          BY <2>2 DEF TableInv
        <4> QED BY <4>1, <4>2, <2>1, <2>2
      <3> QED BY <2>1, <3>1, <3>2
    <2>5. TableInv'
      BY <2>1, <2>2, <2>4 DEF TableInv
    <2> QED BY <2>1, <2>3, <2>5
            DEF BatchInv, NothingLostNothingInvented, Published, relayVars
  <1>2. ASSUME NEW i \in open, CommitRow(i) \/ RollbackRow(i)
        PROVE  IInv'
    <2>1. /\ rows \subseteq rows' /\ rows' \subseteq rows \cup {i}
          /\ open' = open \ {i} /\ UNCHANGED <<last_id, before, relayVars>>
      BY <1>2 DEF CommitRow, RollbackRow
    <2> QED BY <2>1
            DEF TypeOK, TableInv, BatchInv, NothingLostNothingInvented, Published,
                relayVars
  <1>3. ASSUME NEW w \in Workers, SelectBatch(w)
        PROVE  IInv'
    <2>1. PICK B \in SUBSET Selectable(w) : batch' = [batch EXCEPT ![w] = B]
      BY <1>3 DEF SelectBatch
    <2>2. B \subseteq rows /\ B \subseteq RowIds
      BY DEF Selectable, TypeOK
    <2>3. UNCHANGED <<tableVars, processed, topic, sent, failures>>
          /\ batch[w] = {}
      BY <1>3 DEF SelectBatch
    <2> QED BY <2>1, <2>2, <2>3
            DEF TypeOK, TableInv, BatchInv, NothingLostNothingInvented, Published,
                tableVars
  <1>4. ASSUME NEW w \in Workers, Publish(w)
        PROVE  IInv'
    <2>1. PICK i \in batch[w] : /\ topic' = Append(topic, i)
                                /\ sent' = [sent EXCEPT ![w] = @ \cup {i}]
      BY <1>4 DEF Publish
    <2>2. UNCHANGED <<tableVars, processed, batch, failures>>
      BY <1>4 DEF Publish
    <2>3. i \in RowIds /\ i \in rows
      BY DEF TypeOK, BatchInv
    <2>4. topic' \in Seq(RowIds) /\ Published' = Published \cup {i}
      BY <2>1, <2>3, AppendPublished
    <2> QED BY <2>1, <2>2, <2>3, <2>4
            DEF TypeOK, TableInv, BatchInv, NothingLostNothingInvented, tableVars
  <1>5. ASSUME NEW w \in Workers, PublishFails(w) \/ Crash(w)
        PROVE  IInv'
    <2>1. /\ batch' = [batch EXCEPT ![w] = {}]
          /\ sent' = [sent EXCEPT ![w] = {}]
          /\ failures < MaxFailures /\ failures' = failures + 1
          /\ UNCHANGED <<tableVars, processed>>
      BY <1>5 DEF PublishFails, Crash, Rollback
    <2>2. \/ topic' = topic
          \/ \E i \in batch[w] : topic' = Append(topic, i)
      BY <1>5 DEF PublishFails, Crash
    <2>3. /\ topic' \in Seq(RowIds)
          /\ Published \subseteq Published' /\ Published' \subseteq rows
      <3>1. CASE topic' = topic
        BY <3>1 DEF TypeOK, NothingLostNothingInvented, Published
      <3>2. ASSUME NEW i \in batch[w], topic' = Append(topic, i)
            PROVE  /\ topic' \in Seq(RowIds)
                   /\ Published \subseteq Published' /\ Published' \subseteq rows
        <4>1. i \in RowIds /\ i \in rows
          BY DEF TypeOK, BatchInv
        <4> QED BY <3>2, <4>1, AppendPublished DEF NothingLostNothingInvented
      <3> QED BY <2>2, <3>1, <3>2
    <2> QED BY <2>1, <2>3
            DEF TypeOK, TableInv, BatchInv, NothingLostNothingInvented, tableVars
  <1>6. ASSUME NEW w \in Workers, CommitBatch(w)
        PROVE  IInv'
    <2>1. /\ sent[w] = batch[w] /\ processed' = processed \cup batch[w]
          /\ batch' = [batch EXCEPT ![w] = {}]
          /\ sent' = [sent EXCEPT ![w] = {}]
          /\ UNCHANGED <<tableVars, topic, failures>>
      BY <1>6 DEF CommitBatch, BatchPublished
    <2>2. Published' = Published
      BY <2>1 DEF Published
    <2> QED BY <2>1, <2>2
            DEF TypeOK, TableInv, BatchInv, NothingLostNothingInvented, tableVars
  <1>7. CASE UNCHANGED vars
    BY <1>7 DEF vars, tableVars, relayVars, TypeOK, TableInv, BatchInv,
       NothingLostNothingInvented, Published
  <1> QED BY <1>1, <1>2, <1>3, <1>4, <1>5, <1>6, <1>7
          DEF Next, TableStep, WorkerStep

\* The invariant holds in every reachable state.
THEOREM RelayInvariant == Spec => []IInv
  <1>1. Init => IInv
    BY OutboxRelayAssumption
       DEF Init, TableInit, RelayInit, IInv, TypeOK, TableInv, BatchInv,
           NothingLostNothingInvented, Published
  <1>2. IInv /\ [Next]_vars => IInv'
    BY InvariantStep
  <1> QED BY <1>1, <1>2, PTL DEF Spec

\* For any number of workers, rows and failures: no committed event is marked
\* processed without having been published, and nothing else is published.
THEOREM NothingLostCorrect == Spec => []NothingLostNothingInvented
  <1>1. IInv => NothingLostNothingInvented
    BY DEF IInv
  <1> QED BY <1>1, RelayInvariant, PTL

-----------------------------------------------------------------------------
(* Duplicates *)

\* Where the event of row i is in the topic.
Places(i) == {n \in DOMAIN topic : topic[n] = i}

\* Row i is marked processed, for good or in an open transaction.
Marked(i) == i \in processed \/ \E w \in Workers : i \in sent[w]

\* SKIP LOCKED: a row is in one batch at most, and in none once it is processed.
ExclusiveInv ==
    /\ \A v, w \in Workers : v # w => batch[v] \cap batch[w] = {}
    /\ \A w \in Workers : batch[w] \cap processed = {}

\* A row that is not marked was published only by transactions that failed.
CountInv ==
    \A i \in RowIds : Cardinality(Places(i)) <= failures + (IF Marked(i) THEN 1 ELSE 0)

OnceInv == IInv /\ ExclusiveInv /\ CountInv

\* A topic is finite.
LEMMA PlacesCount ==
    ASSUME NEW t \in Seq(RowIds), NEW i
    PROVE  LET S == {n \in DOMAIN t : t[n] = i}
           IN  IsFiniteSet(S) /\ Cardinality(S) \in Nat
  <1> DEFINE S == {n \in DOMAIN t : t[n] = i}
  <1>1. Len(t) \in Nat /\ DOMAIN t = 1 .. Len(t)
    OBVIOUS
  <1>2. S \subseteq 1 .. Len(t) /\ IsFiniteSet(1 .. Len(t))
    BY <1>1, FS_Interval
  <1>3. IsFiniteSet(S)
    BY <1>2, FS_Subset
  <1> QED BY <1>3, FS_CardinalityType

\* Append adds one place for one row.
LEMMA PlacesAppend ==
    ASSUME TypeOK, NEW i \in RowIds, topic' = Append(topic, i)
    PROVE  /\ Cardinality(Places(i)') = Cardinality(Places(i)) + 1
           /\ \A j \in RowIds \ {i} : Places(j)' = Places(j)
  <1>1. /\ DOMAIN topic' = 1 .. Len(topic) + 1
        /\ \A n \in DOMAIN topic : topic'[n] = topic[n]
        /\ topic'[Len(topic) + 1] = i
    BY AppendPublished
  <1>2. Len(topic) \in Nat /\ DOMAIN topic = 1 .. Len(topic)
    BY DEF TypeOK
  <1>3. Places(i)' = Places(i) \cup {Len(topic) + 1} /\ Len(topic) + 1 \notin Places(i)
    BY <1>1, <1>2 DEF Places
  <1>4. \A j \in RowIds \ {i} : Places(j)' = Places(j)
    BY <1>1, <1>2 DEF Places
  <1>5. IsFiniteSet(Places(i))
    BY PlacesCount DEF TypeOK, Places
  <1> QED BY <1>3, <1>4, <1>5, FS_AddElement

\* Every step keeps the account of failures and duplicates.
LEMMA OnceStep ==
    ASSUME OnceInv, [Next]_vars
    PROVE  OnceInv'
  <1> USE DEF OnceInv
  <1>1. IInv'
    BY InvariantStep
  <1>2. TypeOK /\ failures \in Nat /\ \A i : Cardinality(Places(i)) \in Nat
    <2>1. topic \in Seq(RowIds) /\ TypeOK /\ failures \in Nat
      BY OutboxRelayAssumption DEF IInv, TypeOK
    <2> QED BY <2>1, PlacesCount DEF Places
  <1>3. CASE UNCHANGED <<processed, topic, batch, sent, failures>>
    <2>1. \A i : (Marked(i)' <=> Marked(i)) /\ Places(i)' = Places(i)
      BY <1>3 DEF Marked, Places
    <2> QED BY <1>1, <1>3, <2>1 DEF ExclusiveInv, CountInv
  <1>4. ASSUME NEW w \in Workers, SelectBatch(w)
        PROVE  OnceInv'
    <2>1. PICK B \in SUBSET Selectable(w) : batch' = [batch EXCEPT ![w] = B]
      BY <1>4 DEF SelectBatch
    <2>2. UNCHANGED <<processed, topic, sent, failures>>
      BY <1>4 DEF SelectBatch
    <2>3. ExclusiveInv'
      BY <1>2, <2>1, <2>2 DEF ExclusiveInv, Selectable, TypeOK
    <2>4. \A i : (Marked(i)' <=> Marked(i)) /\ Places(i)' = Places(i)
      BY <2>2 DEF Marked, Places
    <2> QED BY <1>1, <2>2, <2>3, <2>4 DEF CountInv
  <1>5. ASSUME NEW w \in Workers, NEW i \in batch[w], NextToPublish(w, i)
        PROVE  i \in RowIds /\ Cardinality(Places(i)) <= failures
    <2>1. i \in RowIds
      BY <1>2 DEF TypeOK
    <2>2. ~Marked(i)
      BY <1>5 DEF Marked, NextToPublish, ExclusiveInv, IInv, BatchInv
    <2> QED BY <1>2, <2>1, <2>2 DEF CountInv
  <1>6. ASSUME NEW w \in Workers, Publish(w)
        PROVE  OnceInv'
    <2>1. PICK i \in batch[w] : /\ NextToPublish(w, i) /\ topic' = Append(topic, i)
                                /\ sent' = [sent EXCEPT ![w] = @ \cup {i}]
      BY <1>6 DEF Publish
    <2>2. UNCHANGED <<processed, batch, failures>>
      BY <1>6 DEF Publish
    <2>3. i \in RowIds /\ Cardinality(Places(i)) <= failures
      BY <1>5, <2>1
    <2>4. Marked(i)' /\ \A j : Marked(j) => Marked(j)'
      BY <1>2, <2>1, <2>2 DEF Marked, TypeOK
    <2>5. Cardinality(Places(i)') = Cardinality(Places(i)) + 1
          /\ \A j \in RowIds \ {i} : Places(j)' = Places(j)
      BY <1>2, <2>1, <2>3, PlacesAppend
    <2>6. ASSUME NEW j \in RowIds
          PROVE  Cardinality(Places(j)') <= failures' + (IF Marked(j)' THEN 1 ELSE 0)
      <3>1. CASE j = i
        BY <1>2, <2>2, <2>3, <2>4, <2>5, <3>1
      <3>2. CASE j # i
        <4>1. Places(j)' = Places(j)
          BY <2>5, <3>2
        <4>2. Cardinality(Places(j)) <= failures + (IF Marked(j) THEN 1 ELSE 0)
          BY DEF CountInv
        <4>3. Cardinality(Places(j)) \in Nat /\ (Marked(j) => Marked(j)')
          BY <1>2, <2>4
        <4> HIDE DEF OnceInv
        <4> QED BY <1>2, <2>2, <4>1, <4>2, <4>3
      <3> QED BY <3>1, <3>2
    <2> QED BY <1>1, <2>2, <2>6 DEF ExclusiveInv, CountInv
  <1>7. ASSUME NEW w \in Workers, PublishFails(w) \/ Crash(w)
        PROVE  OnceInv'
    <2>1. /\ batch' = [batch EXCEPT ![w] = {}]
          /\ failures' = failures + 1 /\ processed' = processed
      BY <1>7 DEF PublishFails, Crash, Rollback
    <2>2. ExclusiveInv'
      BY <1>2, <2>1 DEF ExclusiveInv, TypeOK
    <2>3. ASSUME NEW j \in RowIds
          PROVE  Cardinality(Places(j)') <= failures + 1
      <3>1. CASE topic' = topic
        <4>1. Places(j)' = Places(j)
          BY <3>1 DEF Places
        <4> QED BY <1>2, <4>1 DEF CountInv
      <3>2. ASSUME NEW i \in batch[w], NextToPublish(w, i), topic' = Append(topic, i)
            PROVE  Cardinality(Places(j)') <= failures + 1
        <4>1. i \in RowIds /\ Cardinality(Places(i)) <= failures
          BY <1>5, <3>2
        <4>2. Cardinality(Places(i)') = Cardinality(Places(i)) + 1
              /\ \A k \in RowIds \ {i} : Places(k)' = Places(k)
          BY <1>2, <3>2, <4>1, PlacesAppend
        <4>3. CASE j = i
          BY <1>2, <4>1, <4>2, <4>3
        <4>4. CASE j # i
          <5>1. Places(j)' = Places(j)
            BY <4>2, <4>4
          <5> QED BY <1>2, <5>1 DEF CountInv
        <4> QED BY <4>3, <4>4
      <3> QED BY <1>7, <3>1, <3>2 DEF PublishFails, Crash
    <2>4. \A j \in RowIds : Cardinality(Places(j)') \in Nat
      BY <1>1, PlacesCount DEF IInv, TypeOK, Places
    <2>5. CountInv'
      BY <1>2, <2>1, <2>3, <2>4 DEF CountInv
    <2> QED BY <1>1, <2>2, <2>5
  <1>8. ASSUME NEW w \in Workers, CommitBatch(w)
        PROVE  OnceInv'
    <2>1. /\ sent[w] = batch[w] /\ processed' = processed \cup batch[w]
          /\ batch' = [batch EXCEPT ![w] = {}]
          /\ sent' = [sent EXCEPT ![w] = {}]
          /\ UNCHANGED <<topic, failures>>
      BY <1>8 DEF CommitBatch, BatchPublished
    <2>2. ExclusiveInv'
      BY <1>2, <2>1 DEF ExclusiveInv, TypeOK
    <2>3. \A i : (Marked(i)' <=> Marked(i)) /\ Places(i)' = Places(i)
      BY <1>2, <2>1 DEF Marked, Places, TypeOK
    <2> QED BY <1>1, <2>1, <2>2, <2>3 DEF CountInv
  <1> QED BY <1>3, <1>4, <1>6, <1>7, <1>8
          DEF Next, TableStep, InsertOutbox, CommitRow, RollbackRow, WorkerStep,
              vars, relayVars

\* For any number of workers, rows and failures: an event is in the topic at most
\* once more than there were failures.
THEOREM DuplicatesCorrect == Spec => []DuplicatesOnlyAfterFailure
  <1>1. Init => OnceInv
    <2> SUFFICES ASSUME Init PROVE OnceInv
      OBVIOUS
    <2>1. IInv
      BY OutboxRelayAssumption
         DEF Init, TableInit, RelayInit, IInv, TypeOK, TableInv, BatchInv,
             NothingLostNothingInvented, Published
    <2>2. \A i : Places(i) = {}
      BY DEF Init, RelayInit, Places
    <2>3. ExclusiveInv
      BY DEF Init, RelayInit, ExclusiveInv
    <2>4. CountInv
      BY <2>2, FS_EmptySet DEF Init, RelayInit, CountInv
    <2> QED BY <2>1, <2>3, <2>4 DEF OnceInv
  <1>2. OnceInv /\ [Next]_vars => OnceInv'
    BY OnceStep
  <1>3. OnceInv => DuplicatesOnlyAfterFailure
    <2> SUFFICES ASSUME OnceInv, NEW i \in rows
                 PROVE  Cardinality(Places(i)) <= 1 + failures
      BY DEF DuplicatesOnlyAfterFailure, Places
    <2>1. i \in RowIds /\ failures \in Nat /\ topic \in Seq(RowIds)
      BY OutboxRelayAssumption DEF OnceInv, IInv, TypeOK
    <2>2. Cardinality(Places(i)) \in Nat
      BY <2>1, PlacesCount DEF Places
    <2> QED BY <2>1, <2>2 DEF OnceInv, CountInv
  <1> QED BY <1>1, <1>2, <1>3, PTL DEF Spec

-----------------------------------------------------------------------------
(* The order of publication, with one worker *)

\* A row of the batch comes with every row committed before it was inserted,
\* unless that one is processed already.
ClosedBatch ==
    \A w \in Workers : \A b \in batch[w], a \in rows :
        <<a, b>> \in before => a \in processed \cup batch[w]

CausalInv == IInv /\ ClosedBatch /\ CausalOrder

\* The row a worker publishes next finds the rows it depends on published.
LEMMA PublishInOrder ==
    ASSUME CausalInv, NEW w \in Workers, NEW i \in batch[w],
           NextToPublish(w, i), topic' = Append(topic, i), rows' = rows,
           before' = before
    PROVE  CausalOrder'
  <1>1. i \in RowIds /\ TypeOK
    BY DEF CausalInv, IInv, TypeOK
  <1>2. /\ DOMAIN topic' = 1 .. Len(topic) + 1
        /\ \A n \in DOMAIN topic : topic'[n] = topic[n]
        /\ topic'[Len(topic) + 1] = i
    BY <1>1, AppendPublished
  <1>3. Len(topic) \in Nat /\ DOMAIN topic = 1 .. Len(topic)
    BY <1>1 DEF TypeOK
  <1>4. ASSUME NEW a \in rows, <<a, i>> \in before
        PROVE  \E m \in 1 .. Len(topic) : topic[m] = a
    <2>1. a \in processed \cup batch[w] /\ a < i
      BY <1>4 DEF CausalInv, ClosedBatch, IInv, TableInv
    <2>2. a \in Nat /\ i \in Nat
      BY <1>1 DEF TypeOK, RowIds
    <2>3. a \in Published
      <3>1. CASE a \in processed
        BY <3>1 DEF CausalInv, IInv, NothingLostNothingInvented
      <3>2. CASE a \in batch[w]
        BY <2>1, <2>2, <3>2 DEF NextToPublish, CausalInv, IInv, BatchInv
      <3> QED BY <2>1, <3>1, <3>2
    <2> QED BY <1>3, <2>3 DEF Published
  <1>5. ASSUME NEW n \in DOMAIN topic', NEW a \in rows', <<a, topic'[n]>> \in before'
        PROVE  \E m \in 1 .. n - 1 : topic'[m] = a
    <2>1. CASE n = Len(topic) + 1
      <3>1. PICK m \in 1 .. Len(topic) : topic[m] = a
        BY <1>2, <1>4, <1>5, <2>1
      <3>2. m \in 1 .. n - 1 /\ topic'[m] = a
        BY <1>2, <1>3, <2>1, <3>1
      <3> QED BY <3>2
    <2>2. CASE n \in 1 .. Len(topic)
      <3>1. PICK m \in 1 .. n - 1 : topic[m] = a
        BY <1>2, <1>3, <1>5, <2>2 DEF CausalInv, CausalOrder
      <3>2. m \in DOMAIN topic
        BY <1>3, <2>2
      <3> QED BY <1>2, <3>1, <3>2
    <2> QED BY <1>2, <1>3, <1>5, <2>1, <2>2
  <1> QED BY <1>5 DEF CausalOrder

\* Every step of a system with one worker preserves the order.
LEMMA CausalStep ==
    ASSUME CausalInv, [Next]_vars, NEW u, Workers = {u}
    PROVE  CausalInv'
  <1>1. IInv'
    BY InvariantStep DEF CausalInv
  <1>2. CASE InsertOutbox
    <2>1. /\ rows' = rows /\ before' = before \cup (rows \X {last_id + 1})
          /\ topic' = topic /\ batch' = batch /\ processed' = processed
      BY <1>2 DEF InsertOutbox, relayVars
    <2>2. last_id + 1 \notin rows
      BY DEF CausalInv, IInv, TableInv, TypeOK, RowIds
    <2>3. \A w \in Workers : last_id + 1 \notin batch[w]
      BY <2>2 DEF CausalInv, IInv, BatchInv
    <2>4. \A n \in DOMAIN topic : topic[n] # last_id + 1
      BY <2>2 DEF CausalInv, IInv, NothingLostNothingInvented, Published
    <2>5. \A a, b : <<a, b>> \in before' /\ b # last_id + 1 => <<a, b>> \in before
      BY <2>1
    <2> QED BY <1>1, <2>1, <2>3, <2>4, <2>5 DEF CausalInv, ClosedBatch, CausalOrder
  <1>3. ASSUME NEW i \in open, CommitRow(i) \/ RollbackRow(i)
        PROVE  CausalInv'
    <2>1. UNCHANGED <<before, topic, batch, processed>>
      BY <1>3 DEF CommitRow, RollbackRow, relayVars
    <2>2. \A a, b : <<a, b>> \in before => a \in rows
      BY DEF CausalInv, IInv, TableInv
    <2> QED BY <1>1, <2>1, <2>2 DEF CausalInv, ClosedBatch, CausalOrder
  <1>4. ASSUME NEW w \in Workers, SelectBatch(w)
        PROVE  CausalInv'
    <2>1. PICK B \in SUBSET Selectable(w) :
             IsFirstOf(B, Selectable(w)) /\ batch' = [batch EXCEPT ![w] = B]
      BY <1>4 DEF SelectBatch
    <2>2. UNCHANGED <<rows, before, processed, topic>> /\ batch[w] = {}
      BY <1>4 DEF SelectBatch, tableVars
    <2>3. Selectable(w) = rows \ processed
      BY <2>2 DEF Selectable
    <2>4. batch'[w] = B /\ Workers = {w}
      BY <2>1 DEF CausalInv, IInv, TypeOK
    <2>5. ASSUME NEW b \in B, NEW a \in rows, <<a, b>> \in before
          PROVE  a \in processed \cup B
      <3>1. a < b /\ a \in Nat /\ b \in Nat
        BY <2>3, <2>5 DEF CausalInv, IInv, TableInv, TypeOK, RowIds
      <3> QED BY <2>1, <2>3, <3>1 DEF IsFirstOf
    <2>6. ClosedBatch'
      BY <2>2, <2>4, <2>5 DEF ClosedBatch
    <2> QED BY <1>1, <2>2, <2>6 DEF CausalInv, CausalOrder
  <1>5. ASSUME NEW w \in Workers, Publish(w)
        PROVE  CausalInv'
    <2>1. UNCHANGED <<rows, before, processed, batch>>
      BY <1>5 DEF Publish, tableVars
    <2>2. CausalOrder'
      BY <1>5, <2>1, PublishInOrder DEF Publish
    <2> QED BY <1>1, <2>1, <2>2 DEF CausalInv, ClosedBatch
  <1>6. ASSUME NEW w \in Workers, PublishFails(w) \/ Crash(w)
        PROVE  CausalInv'
    <2>1. /\ UNCHANGED <<rows, before, processed>>
          /\ batch' = [batch EXCEPT ![w] = {}]
      BY <1>6 DEF PublishFails, Crash, Rollback, tableVars
    <2>2. CausalOrder'
      <3>1. CASE topic' = topic
        BY <2>1, <3>1 DEF CausalInv, CausalOrder
      <3>2. CASE \E i \in batch[w] : NextToPublish(w, i) /\ topic' = Append(topic, i)
        BY <2>1, <3>2, PublishInOrder
      <3> QED BY <1>6, <3>1, <3>2 DEF PublishFails, Crash
    <2>3. ClosedBatch'
      BY <2>1 DEF CausalInv, ClosedBatch, IInv, TypeOK
    <2> QED BY <1>1, <2>2, <2>3 DEF CausalInv
  <1>7. ASSUME NEW w \in Workers, CommitBatch(w)
        PROVE  CausalInv'
    <2>1. /\ UNCHANGED <<rows, before, topic>>
          /\ batch' = [batch EXCEPT ![w] = {}]
          /\ processed' = processed \cup batch[w]
      BY <1>7 DEF CommitBatch, tableVars
    <2>2. ClosedBatch'
      BY <2>1 DEF CausalInv, ClosedBatch, IInv, TypeOK
    <2> QED BY <1>1, <2>1, <2>2 DEF CausalInv, CausalOrder
  <1>8. CASE UNCHANGED vars
    BY <1>1, <1>8 DEF vars, tableVars, relayVars, CausalInv, ClosedBatch, CausalOrder
  <1> QED BY <1>2, <1>3, <1>4, <1>5, <1>6, <1>7, <1>8
          DEF Next, TableStep, WorkerStep

\* With one relay, whatever its failures and the order in which transactions
\* commit: an event is first published after the events committed before it
\* was inserted.
THEOREM CausalOrderCorrect ==
    ASSUME NEW u, Workers = {u}
    PROVE  Spec => []CausalOrder
  <1>1. Init => CausalInv
    BY OutboxRelayAssumption
       DEF Init, TableInit, RelayInit, CausalInv, IInv, TypeOK, TableInv, BatchInv,
           NothingLostNothingInvented, Published, ClosedBatch, CausalOrder
  <1>2. CausalInv /\ [Next]_vars => CausalInv'
    BY CausalStep
  <1>3. CausalInv => CausalOrder
    BY DEF CausalInv
  <1> QED BY <1>1, <1>2, <1>3, PTL DEF Spec
=============================================================================
