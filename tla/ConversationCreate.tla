------------------------- MODULE ConversationCreate -------------------------
(***************************************************************************)
(* CreateConversation of the conversation service: the lookups before the  *)
(* transaction, the serializable transaction with its retries, and the     *)
(* race of calls that create the same conversation, by its id (a client    *)
(* that repeats its call) or by its pair of users (both open the direct    *)
(* conversation at once).                                                  *)
(*                                                                         *)
(* conversations.id and conversations.lookup_key are unique.  An insert    *)
(* waits for an open transaction that inserted the same value; if that one *)
(* commits, PostgreSQL refuses the insert with a serialization failure,    *)
(* because both transactions looked the value up first.                    *)
(***************************************************************************)
EXTENDS Integers, Sequences, FiniteSets

CONSTANTS Creates,      \* invocations of CreateConversation
          Requests,     \* what they may be asked to create: functions of Creates
          MaxAttempts,  \* attempts of WithTx (5 in the code)
          MaxFaults,    \* bound on errors and crashes
          NoConv,       \* no conversation
          NoKey         \* lookup_key is NULL

ASSUME CreateAssumption ==
    /\ MaxAttempts \in Nat \ {0} /\ MaxFaults \in Nat
    /\ \A f \in Requests : DOMAIN f = Creates /\ \A p \in Creates :
          /\ DOMAIN f[p] = {"id", "type", "participants"}
          /\ f[p].type \in {"direct", "group"}

VARIABLES
    conversations,  \* committed rows of conversations and their participants
    cached,         \* the rows that have a conv:<id> entry in Redis
    outbox,         \* committed rows of outbox_events
    outbox_id,      \* the last id of outbox_events given out (BIGSERIAL)
    faults,
    cmd, pc, attempt,
    looking,        \* parallelLookup: the goroutines that still run
    found,          \* parallelLookup: what is in resChan
    snapshot,       \* the committed rows the transaction sees
    event_id,       \* the outbox row of the transaction
    result          \* the conversation of the answer

createVars == <<cmd, pc, attempt, looking, found, snapshot, event_id, result>>
tables     == <<conversations, outbox, outbox_id>>
vars       == <<tables, cached, faults, createVars>>

Commands == {f[p] : f \in Requests, p \in Creates}

Members(c) == {c.participants[n] : n \in DOMAIN c.participants}

\* Mutant of LookupKey: the two users are not sorted.
LookupKeyUnsorted(c) == IF c.type = "direct" THEN c.participants ELSE NoKey

\* getLookupKey: one key for the two users, in whatever order they come.
LookupKey(c) == IF c.type = "direct" THEN Members(c) ELSE NoKey

\* insertParticipants: the first participant of a group is its admin.
Row(c) == [id |-> c.id, key |-> LookupKey(c), members |-> Members(c),
           admins |-> IF c.type = "group" THEN {c.participants[1]} ELSE {}]

\* The early returns of CreateConversation.
ValidCommand(c) ==
    /\ c.id # ""
    /\ IF c.type = "direct" THEN Len(c.participants) = 2 ELSE Len(c.participants) > 0

ById(rows, c)  == {r \in rows : r.id = c.id}
ByKey(rows, c) == {r \in rows : r.key # NoKey /\ r.key = LookupKey(c)}

\* The rows a call can insert.
ValidRows == {Row(c) : c \in {d \in Commands : ValidCommand(d)}}

TypeOK ==
    /\ conversations \subseteq ValidRows /\ cached \subseteq conversations
    /\ outbox_id \in Nat /\ faults \in 0 .. MaxFaults
    /\ outbox \subseteq [id : 1 .. outbox_id, conv : {r.id : r \in conversations},
                         kind : {"CREATED"}]
    /\ cmd \in Requests
    /\ pc \in [Creates -> {"lookup", "begin", "bykey", "insert", "emit", "commit",
                           "commitfound", "done", "failed"}]
    /\ attempt \in [Creates -> 1 .. MaxAttempts]
    /\ looking \in [Creates -> SUBSET {"id", "key"}]
    /\ found \in [Creates -> SUBSET conversations]
    /\ snapshot \in [Creates -> SUBSET conversations]
    /\ event_id \in [Creates -> 0 .. outbox_id]
    /\ result \in [Creates -> ValidRows \cup {NoConv}]

Init ==
    /\ conversations = {} /\ cached = {} /\ outbox = {} /\ outbox_id = 0 /\ faults = 0
    /\ cmd \in Requests
    /\ pc = [p \in Creates |-> IF ValidCommand(cmd[p]) THEN "lookup" ELSE "failed"]
    /\ attempt = [p \in Creates |-> 1]
    /\ looking = [p \in Creates |->
                     CASE ~ValidCommand(cmd[p]) -> {}
                       [] cmd[p].type = "direct" -> {"id", "key"}
                       [] OTHER -> {"id"}]
    /\ found = [p \in Creates |-> {}] /\ snapshot = [p \in Creates |-> {}]
    /\ event_id = [p \in Creates |-> 0] /\ result = [p \in Creates |-> NoConv]

-----------------------------------------------------------------------------
(* parallelLookup *)

\* The goroutine that reads the conversation of the id, through the cache; an
\* error counts as not found.
LookupById(p) ==
    /\ "id" \in looking[p]
    /\ looking' = [looking EXCEPT ![p] = @ \ {"id"}]
    /\ \E r \in {{}, ById(cached, cmd[p]), ById(conversations, cmd[p])} :
          /\ found' = [found EXCEPT ![p] = IF pc[p] = "lookup" THEN @ \cup r ELSE @]
          /\ cached' \in {cached, cached \cup r}
    /\ UNCHANGED <<tables, faults, cmd, pc, attempt, snapshot, event_id, result>>

\* The goroutine that reads the conversation of the lookup key.
LookupByKey(p) ==
    /\ "key" \in looking[p]
    /\ looking' = [looking EXCEPT ![p] = @ \ {"key"}]
    /\ \E r \in {{}, ByKey(conversations, cmd[p])} :
          found' = [found EXCEPT ![p] = IF pc[p] = "lookup" THEN @ \cup r ELSE @]
    /\ UNCHANGED <<tables, cached, faults, cmd, pc, attempt, snapshot, event_id, result>>

\* The first conversation on the channel is the answer, without a transaction;
\* the other goroutine runs on, and nobody reads the channel any more.
LookupHit(p) ==
    /\ pc[p] = "lookup"
    /\ \E r \in found[p] : result' = [result EXCEPT ![p] = r]
    /\ pc' = [pc EXCEPT ![p] = "done"] /\ found' = [found EXCEPT ![p] = {}]
    /\ UNCHANGED <<tables, cached, faults, cmd, attempt, looking, snapshot, event_id>>

\* Both goroutines are through, and the channel is closed.
LookupMiss(p) ==
    /\ pc[p] = "lookup" /\ looking[p] = {} /\ found[p] = {}
    /\ pc' = [pc EXCEPT ![p] = "begin"]
    /\ UNCHANGED <<tables, cached, faults, cmd, attempt, looking, found, snapshot,
                   event_id, result>>

-----------------------------------------------------------------------------
(* The transaction *)

\* GetConversation inside the transaction: the cache, or else the first query,
\* which takes the snapshot, and whose result is put into the cache.
CheckId(p) ==
    /\ pc[p] = "begin"
    /\ snapshot' = [snapshot EXCEPT ![p] = conversations]
    /\ \/ /\ ById(cached \cup conversations, cmd[p]) = {}
          /\ pc' = [pc EXCEPT ![p] = "bykey"]
          /\ UNCHANGED <<result, cached>>
       \/ \E r \in ById(cached, cmd[p]) \cup ById(conversations, cmd[p]) :
          /\ pc' = [pc EXCEPT ![p] = "commitfound"]
          /\ result' = [result EXCEPT ![p] = r]
          /\ cached' \in {cached, cached \cup (conversations \cap {r})}
    /\ UNCHANGED <<tables, faults, cmd, attempt, looking, found, event_id>>

\* GetConversationByLookupKey inside the transaction; no later statement reads
\* the snapshot.
CheckKey(p) ==
    /\ pc[p] = "bykey"
    /\ LET seen == ByKey(snapshot[p], cmd[p]) IN
       IF seen = {}
       THEN pc' = [pc EXCEPT ![p] = "insert"] /\ UNCHANGED result
       ELSE /\ pc' = [pc EXCEPT ![p] = "commitfound"]
            /\ \E r \in seen : result' = [result EXCEPT ![p] = r]
    /\ snapshot' = [snapshot EXCEPT ![p] = {}]
    /\ UNCHANGED <<tables, cached, faults, cmd, attempt, looking, found, event_id>>

Same(c, d) == \/ c.id = d.id
              \/ LookupKey(c) # NoKey /\ LookupKey(c) = LookupKey(d)

\* Mutant of HoldsIndex: a failed transaction is not rolled back.
NeverRollsBack(q) == pc[q] \in {"emit", "commit", "failed"}

\* Call q has inserted its row, and its transaction is open.
HoldsIndex(q) == pc[q] \in {"emit", "commit"}

Waits(p) == \E q \in Creates \ {p} : HoldsIndex(q) /\ Same(cmd[p], cmd[q])

\* Mutant of Conflict: lookup_key has no unique index.
ConflictById(p) == ById(conversations, cmd[p]) # {}

\* A row committed since the snapshot has the same id or lookup key.
Conflict(p) == ById(conversations, cmd[p]) \cup ByKey(conversations, cmd[p]) # {}

InsertConversation(p) ==
    /\ pc[p] = "insert" /\ ~Waits(p) /\ ~Conflict(p)
    /\ pc' = [pc EXCEPT ![p] = "emit"]
    /\ UNCHANGED <<tables, cached, faults, cmd, attempt, looking, found, snapshot,
                   event_id, result>>

\* WithTx starts the transaction over, or gives up.
Retry(p) == IF attempt[p] < MaxAttempts
            THEN /\ pc' = [pc EXCEPT ![p] = "begin"]
                 /\ attempt' = [attempt EXCEPT ![p] = @ + 1]
            ELSE /\ pc' = [pc EXCEPT ![p] = "failed"]
                 /\ UNCHANGED attempt

\* The insert is refused.  The conversation is looked up again in the failed
\* transaction: only a cache hit can succeed, and then the commit fails with
\* an error that is not retried.  Otherwise the call starts over.
LostRace(p) ==
    /\ pc[p] = "insert" /\ ~Waits(p) /\ Conflict(p)
    /\ \/ /\ ById(cached, cmd[p]) = {}
          /\ Retry(p)
       \/ /\ ById(cached, cmd[p]) # {}
          /\ pc' = [pc EXCEPT ![p] = "failed"]
          /\ UNCHANGED attempt
    /\ UNCHANGED <<tables, cached, faults, cmd, looking, found, snapshot, event_id,
                   result>>

\* A user that is listed twice violates the key of conversation_participants.
DuplicateParticipant(p) ==
    /\ pc[p] = "emit" /\ Cardinality(Members(cmd[p])) # Len(cmd[p].participants)
    /\ pc' = [pc EXCEPT ![p] = "failed"]
    /\ UNCHANGED <<tables, cached, faults, cmd, attempt, looking, found, snapshot,
                   event_id, result>>

\* The rest of doCreateConversation: InitSequence, insertParticipants and
\* emitConversationCreated, which reads the row back with its own lock.
EmitConversationCreated(p) ==
    /\ pc[p] = "emit" /\ Cardinality(Members(cmd[p])) = Len(cmd[p].participants)
    /\ pc' = [pc EXCEPT ![p] = "commit"]
    /\ outbox_id' = outbox_id + 1
    /\ event_id' = [event_id EXCEPT ![p] = outbox_id + 1]
    /\ result' = [result EXCEPT ![p] = Row(cmd[p])]
    /\ UNCHANGED <<conversations, outbox, cached, faults, cmd, attempt, looking, found,
                   snapshot>>

Created(p) == [id |-> event_id[p], conv |-> cmd[p].id, kind |-> "CREATED"]

\* What the caller learns of a commit that took effect; it may be an error.
AfterCommit == {"done"} \cup (IF faults < MaxFaults THEN {"failed"} ELSE {})

\* All rows become visible together.
Commit(p) ==
    /\ pc[p] = "commit"
    /\ conversations' = conversations \cup {Row(cmd[p])}
    /\ outbox' = outbox \cup {Created(p)}
    /\ \E a \in AfterCommit : /\ pc' = [pc EXCEPT ![p] = a]
                              /\ faults' = IF a = "failed" THEN faults + 1 ELSE faults
    /\ UNCHANGED <<outbox_id, cached, cmd, attempt, looking, found, snapshot, event_id,
                   result>>

\* The transaction only read.
CommitFound(p) ==
    /\ pc[p] = "commitfound"
    /\ pc' = [pc EXCEPT ![p] = "done"]
    /\ UNCHANGED <<tables, cached, faults, cmd, attempt, looking, found, snapshot,
                   event_id, result>>

InTx(p) == pc[p] \in {"begin", "bykey", "insert", "emit", "commit", "commitfound"}

\* Mutant of Abort: the error of WithTx is dropped, and the result returned.
AbortUnnoticed(p) ==
    /\ InTx(p) /\ faults < MaxFaults
    /\ pc' = [pc EXCEPT ![p] = "done"] /\ faults' = faults + 1
    /\ UNCHANGED <<tables, cached, cmd, attempt, looking, found, snapshot, event_id,
                   result>>

\* An error of a statement or of the commit, a timeout or a crash: everything
\* the transaction did is undone, and the call fails.
Abort(p) ==
    /\ InTx(p) /\ faults < MaxFaults
    /\ pc' = [pc EXCEPT ![p] = "failed"] /\ faults' = faults + 1
    /\ UNCHANGED <<tables, cached, cmd, attempt, looking, found, snapshot, event_id,
                   result>>

\* PostgreSQL may report a serialization failure at any statement.
SerializationFailure(p) ==
    /\ InTx(p) /\ faults < MaxFaults
    /\ Retry(p) /\ faults' = faults + 1
    /\ UNCHANGED <<tables, cached, cmd, looking, found, snapshot, event_id, result>>

-----------------------------------------------------------------------------
\* A GetConversation call of another client or service fills the cache.
ReadConversation(r) ==
    /\ r \in conversations \ cached
    /\ cached' = cached \cup {r}
    /\ UNCHANGED <<tables, faults, createVars>>

CreateStep(p) ==
    \/ LookupById(p) \/ LookupByKey(p) \/ LookupHit(p) \/ LookupMiss(p)
    \/ CheckId(p) \/ CheckKey(p) \/ InsertConversation(p) \/ LostRace(p)
    \/ DuplicateParticipant(p) \/ EmitConversationCreated(p) \/ Commit(p)
    \/ CommitFound(p)

CreateNext ==
    \/ \E p \in Creates : CreateStep(p) \/ Abort(p) \/ SerializationFailure(p)
    \/ \E r \in conversations : ReadConversation(r)

CreateSpec == Init /\ [][CreateNext]_vars
-----------------------------------------------------------------------------
(* Properties *)

\* Two conversations never share an id, nor two direct conversations their pair
\* of users, however many clients create them at once.
OneConversationPerPair ==
    \A r, s \in conversations : r # s =>
        /\ r.id # s.id
        /\ r.key # NoKey /\ s.key # NoKey => r.members # s.members

\* A call that succeeds answers with a stored conversation, that of its id or of
\* its pair of users, also if the conversation was made by somebody else or the
\* transaction was tried several times.
AnswersAreStored ==
    \A p \in Creates : pc[p] = "done" =>
        /\ result[p] \in conversations
        /\ \/ result[p].id = cmd[p].id
           \/ result[p].key # NoKey /\ result[p].key = LookupKey(cmd[p])

Directory == INSTANCE ConversationDirectory WITH
    asked <- [p \in Creates |-> [id |-> cmd[p].id, key |-> LookupKey(cmd[p])]],
    reply <- [p \in Creates |-> IF pc[p] = "done" THEN result[p] ELSE NoConv]

\* Lookups, transactions and retries together are the atomic find-or-make of
\* ConversationDirectory: racing calls are answered with one conversation, which
\* was announced in the step that made it.
DirectorySpec == Directory!Spec

\* README.md: "All state-mutating APIs ... safely handle network retries".  Of
\* calls that race to create one conversation none fails, unless something else
\* went wrong.
RaceIsResolved ==
    \A p \in Creates : pc[p] = "failed" =>
        \/ ~ValidCommand(cmd[p]) \/ faults > 0
        \/ Cardinality(Members(cmd[p])) # Len(cmd[p].participants)
=============================================================================
