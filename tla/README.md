# A TLA+ model of RealChat

RealChat is a chat backend in Go: six services behind an HTTP gateway, with PostgreSQL databases (one per
service), Redis and Kafka. This directory models the gateway, the services and the messages between them, checks
them with TLC, and proves their safety properties with TLAPS. Paths below are relative to `src/`.

## The system

| part | state | operations | talks to |
|---|---|---|---|
| message service (`services/message`) | tables `messages`, `idempotency_keys`, `outbox_events` | `SendMessage`, `DeleteMessage`, `SyncMessages`; a relay goroutine per replica | conversation service (gRPC), Kafka |
| conversation service (`services/conversation`) | tables `conversations`, `conversation_participants`, `conversation_sequences`, `outbox_events`, `outbox_dlq`; Redis cache `conv:<id>` | `CreateConversation`, `AddParticipant`, `RemoveParticipant`, `UpdateReadReceipt`, `NextSequence`, `GetConversation`, `ListConversations`; a relay | Redis, Kafka |
| delivery service (`services/delivery`) | WebSocket sessions and their queues, registry, membership cache, presence watcher (all in memory) | Kafka consumer and dispatcher, resume of a session, routing between replicas by Redis pub/sub, heartbeat | Kafka, Redis, presence, message and conversation services |
| presence service (`services/presence`) | Redis keys per device with expiry, set of devices per user | register, unregister, refresh, query | Redis |
| auth service (`services/auth`) | users, refresh tokens, outbox | register, login, refresh, logout; a relay | Kafka |
| profile service (`services/profile`) | profiles, contacts, blocks, outbox; Redis cache | profile update and read, contacts, blocks; a publisher; a consumer of auth events | Kafka, Redis |
| gateway (`edge/gateway`) | rate limit counters in memory | HTTP to gRPC with timeouts | all services |

What makes it hard:

* Everything that writes may fail after its effect from the caller's point of view and is repeated by clients;
  transactions are retried by `tx.Manager.WithTx`.
* `SendMessage` calls another service while its transaction is open, and that service commits on its own.
* Events leave through outbox tables polled by every replica; ids are assigned before commit, crashes repeat
  events, Kafka does not take part in the transactions. The relays differ in what they do after a failure.
* Caches are invalidated before the commit they belong to, or filled from an answer that is already old.
* The delivery service handles events concurrently, keeps a membership cache per replica, and hands a resuming
  session over from history to live events. The end of a replaced session runs beside the new session.
* The auth and profile services do most of their work in single statements, between which anything may happen.

What makes each part correct:

* message service: a command is stored once and always answered with the same message; sequence numbers are
  unique; message, event and answer appear together; a deletion is announced once, after its message.
* relays: nothing lost, nothing invented, repeated only after a failure, in order, everything published.
* conversation service: one conversation per pair and id, also under races; the rules of membership hold, events
  tell the same story as the table, receipts are bounded and monotonic, a stale cache entry goes away.
* delivery: a connected member is sent every event of its conversations, nobody else is; a client that resumes or
  comes back misses nothing; a replaced session does not take the new one down. The code has this only of members
  that presence knows of, and of clients that report what has no gap below it.
* presence: no connection is remembered for ever, and contacts are told when the last one has ended.
* auth and profile: a spent refresh token stays dead, registrations get a profile, changes are announced. A failed
  revocation, and a producer that waits for no acknowledgement, are where the code falls short of it.
* gateway: success is never reported without an effect, every request is answered. That a request can be repeated
  safely holds only if the client brings its own key.

## Modules

| module | models | state and actions |
|---|---|---|
| `MessageService` | `send_message.go`, `delete_message.go`, `tx/manager.go`, `repository/postgres/repo.go`, `NextSequence` of the conversation service | The committed tables are variables. A call is a process: `pc`/`dpc` say which statement of which attempt it is at. Writes of an open transaction are in no table until `Commit`, except that the outbox row takes its `BIGSERIAL` id and the idempotency row blocks others (`HoldsKey`). `NextSequence` changes the other service's counter outside the transaction, possibly after the call was given up |
| `MessageLog` | what the message service promises | `Accept` and `Delete`, each one atomic step on the four tables |
| `OutboxRelay` | `outbox/worker.go`, `kafka/producer.go` of the message service | One transaction per batch and worker: `SelectBatch` (SKIP LOCKED, lowest ids first), `Publish` in id order, `CommitBatch`; `PublishFails` and `Crash` roll the marks back but not the topic. Writers of the table are `InsertOutbox`, `CommitRow`, `RollbackRow` |
| `MessagePipeline` | both over one table (`cmd/server/main.go` starts both) | `MessageService` plus an instance of `OutboxRelay` whose table is `outbox` |
| `Conversation` | `add_participant.go`, `remove_participants.go`, `update_receipt.go`, `next_sequence.go`, `GetConversation` and `cache.go` | One conversation. Membership changes are processes like those of `MessageService`; the cache entry is deleted before the commit, as in the code; a `GetConversation` that misses is three steps. Receipts and sequence numbers are single steps |
| `Membership` | what the conversation service promises of one conversation | `Add`, `Remove`, `Receipt` and `GiveSequence`, each one atomic step: the actor is an admin at that moment, another admin remains, marks only move forward, and the event comes with the change |
| `ConversationCreate` | `create_conversation.go` with its repository and cache calls | Calls look up the id and the pair, open a serializable transaction, insert, and retry. An insert waits for an open insert of the same id or `lookup_key` |
| `ConversationDirectory` | what `CreateConversation` promises | `Make` and `Find`, each one atomic step: a call makes the conversation of its id or pair, with its event, or is answered with the one there is |
| `ConversationEvents` | extends `ConversationCreate` with the service's `outbox/worker.go` | A batch keeps what it published before a failure, counts the failed row in `retry_count`, and moves it to `outbox_dlq` when its attempts are used up |
| `Presence` | `presence/redis.go` and the RPCs of the presence service | One user. Every Redis command or pipeline is a step, so is the clean-up that `GetUserDevices` starts |
| `Sessions` | extends it with `websocket/handler.go`, `session.go`, `registry.go`, the heartbeat and the presence client | A session goes from `ServeHTTP` to the end of its read loop; registry per instance; crash, shutdown and failed calls |
| `Resume` | queue, buffer and flush of `session.go`, `handleResume`, `SyncMessages`, the presence watcher's `TrySend` | A session record (state, queue, buffer, page, position) per client; the page is the set of rows still to be sent, lowest first; messages are committed in any order; the client reads, loses its connection, connects again. What it then reports as `last_sequences` is the highest number it has (`LastOf`), or, for the clients in `Careful`, the last without a gap below it (`PrefixOf`) |
| `Dispatch` | `kafka/consumer.go`, `dispatcher.go`, `membership` cache, `router` over Redis, presence watcher, and of `websocket/handler.go` and `presence/redis.go` what moves a device's key | A task per consumed event, a cache per instance, a channel per instance; offsets are committed without waiting, so a crash consumes events again. `DeliverToUser` goes by `key`, what `GetUserDevices` answers, not by `at`, where the connection is: sessions register after they are in the registry, and those that are over register and unregister late (`starting`, `ending`); keys expire, and a lookup that found none removes the device (`CleanupStale`) |
| `Auth` | service, repository and transport of the auth service | Calls as processes, one step per statement; `Register` is one transaction. `Refresh`, and `Logout` over HTTP, go on when `RevokeRefresh` fails (`RevokeOrIgnore`); `Logout` over gRPC returns the error |
| `Profile` | services, repositories, cache, `publisher` and Kafka producer of the profile service | Calls as processes, one step per statement, no transaction, as in the code. An event that was `sent` may or may not be in the topic |
| `Accounts` | both, with the auth outbox worker and producer, the topic `auth.user.created` and the profile consumer | Clients use the profile service with the id of a registered user. `lost` has the users whose event the broker lost, or whose profile could not be created |
| `Gateway` | router, middlewares, handlers and error mapping of the gateway | A table of the sixteen routes (`HandlerOf`) with what the handler checks, calls and answers; a request is a process with a deadline, its RPC may be executed after the deadline |
| `MessageServiceProofs`, `OutboxRelayProofs`, `ConversationProofs`, `ConversationEventsProofs`, `EdgeProofs`, `ResumeProofs`, `DispatchProofs`, `AccountsProofs` | | theorems and proofs; `MessageServiceProofs` also has those of `MessagePipeline`, `EdgeProofs` those of `Sessions`, `Presence` and `Gateway` |
| `MC*` | | constants for TLC |

Operators whose comment begins with "Mutant of" are not part of the specifications: each is what a plausible bug
would make of the definition that follows, and shows that a property can fail.

What the modules share and how they fit together: `Resume` takes from `MessageService` that messages of one
conversation commit in any order and that numbers may be missing; `Dispatch` takes the topics of `MessagePipeline`
and `ConversationEvents` as its input, and of `Sessions` the calls that sessions of one device make to presence; it has
no failures of those calls and one device per user, `Sessions` has both. `Gateway` uses of each service whether
repeating a call changes something (`repeat`): `OneMessagePerCommand` and `OneConversationPerPair` give it for sends
and creates; a read receipt and a profile update write one more event each time they are repeated. What is shared is
stated in the header of each module.

The auth and the profile service make their producers as `kafka.Writer` literals without `RequiredAcks`. In kafka-go
(v0.4.50, `go.mod`; the library is not part of the repository) the zero value is `RequireNone`: `WriteMessages` returns
nil without an answer of the broker. `PublishRow` and `PublishCreated` therefore succeed whether or not the event
reaches the topic. The producers of the message and the conversation service ask for all acknowledgements and wait for
the delivery report.

PostgreSQL is modelled by what its serializable level gives the code: the snapshot of the first statement, writes
visible at commit, waiting for row locks, "could not serialize" when a needed row has changed since the snapshot,
and the freedom to give that error at any statement. For the membership changes, which read all participants,
`Serializable` refuses the commit when the participants changed since the snapshot. In `ConversationCreate` an insert
that loses to a committed one gets the serialization failure, because both transactions have looked the value up.

Left out of the data: message text, type and metadata (`NewMessage` may reject any message), names and avatars,
the 24 hours of `expires_at` (no code reads it), timestamps, password hashes and JWT contents (a password matches or
it does not), logs, metrics. The branch of `SendMessage` for an idempotency row without a payload is not modelled:
the payload is written in the transaction that inserts the row, so no committed row is without one. Modules are
about one conversation or one user where these share no state. The batches of the auth and the profile outbox take
all rows in any order (their `LIMIT` is far above the instance, and nothing depends on it). `DeliverRemote` fetches
and caches the members in one step. Reads that change nothing (`BatchGet`, the lists, `ListConversations`) are not
steps of the service modules; their routes are in `Gateway`.

## Runs

| run | instance | checks |
|---|---|---|
| `message` | 2 sends of one or two commands, 2 deletes, 1 attempt, fairness; 197,504 states | `OneMessagePerCommand`, `RepliesAgree`, `SentEventPerMessage`, `DeleteEventAfterSent`, refinement `LogSpec`, `EveryCallAnswered` |
| `relay` | 2 workers, 3 rows, batches of 2, 2 failures, fairness | `NothingLostNothingInvented`, `DuplicatesOnlyAfterFailure`, `EveryRowPublished` |
| `pipeline` | 2 sends, 1 delete, 1 worker, 1 failure, fairness of the relay; 192,240 states | `EventsInCausalOrder`, refinement `RelaySpec`, `AcknowledgedIsPublished` |
| `membership` | 3 users, 3 calls, 1 attempt | `MembershipInvariants`, `EventsReplayMembership`, refinement `MembershipSpec` |
| `receipts_and_cache` | 2 users, 1 call, 2 attempts, 2 readers, 2 receipts, 2 sequence numbers, fairness | refinement `MembershipSpec`, `CacheEventuallyCurrent` |
| `conversation_events` | 2 creates of the same pair, the same id, a group or malformed requests, 2 attempts, 1 fault; 1 relay, batches of 2, 1 retry, 2 failures; 1 membership change; 256,829 states | `OneConversationPerPair`, `AnswersAreStored`, refinement `DirectorySpec`, `NoEventLost`, `EventsInOrder`, `CreatedIsAnnounced` |
| `sessions` | 2 connections, 2 devices, 2 instances, 1 lookup, 1 fault, fairness; 84,584 states | `LiveSessionIsRegistered`, `OfflineAtTheEnd`, `NoGhostDevice` |
| `resume` | 1 careful client, 4 messages, 1 other event, queue of 1, pages of 2, and a lost connection, a failed call or a presence update, fairness; 355,257 states | `NoGap`, `CaughtUp` |
| `dispatch` | 2 clients, 2 instances, 2 of 3 events at a time and 1 disturbance, or 1 event and 2 disturbances; 3,393,077 states | `LiveMemberGetsEvent`, `OncePerConsumption`, `OutsiderGetsNothing` |
| `accounts` | 2 calls of either service, 2 emails, 2 passwords, 1 failure, fairness; 386,325 states | `DeadTokenStaysDead`, `ProfileHasUser`, `NoRegistrationLost`, `AnsweredIsKept`, `RegisteredGetsProfile`, `AnsweredIsSent` |
| `gateway` | 1 operation on any of 16 routes, 3 requests, limit of 2, fairness; 692,562 states | `SuccessIsApplied`, `EveryRequestAnswered` |

The bounds: two calls are the least that race, a third membership call makes an addition follow a removal follow
an addition; two attempts (`receipts_and_cache`, `conversation_events`) show what a retry does after the first has
left traces; batches of two over three rows make both full and partial batches; two failures let an event be
published three times, and with one retry let a row become a dead letter. Four messages over pages of
two and a queue of one need two pages and overflow the queue. They are three more than the queue holds, and that matters:
above a number that is missing a careful client may be sent the same messages again on every connection, overflow, and
never get the last one. `CaughtUp` is therefore about messages whose predecessors are all stored; without that condition
it fails on this instance, and passes on one with fewer messages. Two instances and two clients let an event be consumed
where its receiver is and where it is not; a disturbance is a connection made or ended, an error or a crash. Two of them
let a client have two older sessions, whose calls reach presence in any order. In `gateway` the third request comes after
a deadline and after the limit, and a late execution of the first may follow the answer to the second. `MaxRetries` is
5, `BatchSize` 100 and the queue 128 in the code; the theorems hold for every `MaxRetries` and `BatchSize`. Symmetry
is used only in the runs without liveness properties. `message` and `pipeline` check for deadlock, with `Idle` as the
only step once every call has been answered; the other runs may end because their inputs are bounded.

The type invariants are in no run: they document the state and are part of the inductive invariants, which are proved.
Properties that follow from a refinement a run checks are proved as theorems of their own and not checked a second
time: `SequenceUnique` and `HistoryIsImmutable` (from `LogSpec`), `ReadWithinSequence` and `ReceiptNeverGoesBack` (from
`MembershipSpec`).

### What the code does not do

`receipt_off_by_one` ends in a counterexample: `GetCurrentMaxSequence` returns `next_sequence - 1`, but
`next_sequence` is the last number given out. A receipt for the newest message is recorded as one less.

These formulas of the modules also state what the repository says, and do not hold; TLC shows it when they are made
an `INVARIANT`, or for `AnsweredIsPublished` a `PROPERTY`, of a run (`TopicFollowsSequence` with `pipeline`,
`CausalOrder` with `relay`, `NothingMissed` with `resume` and `Careful = {}`, the others with the run of their module):

* `GaplessWhenQuiescent` (`MessageService`): `domain/message.go:8` and `services/conversation/README.md:86` promise
  sequences without gaps. A number taken by a call that fails later is never used.
* `CausalOrder` (`OutboxRelay`): `README.md:39` promises causal order in a conversation, and `README.md:59` horizontal
  scaling. With two relays an event passes one that the other relay holds. With one relay the order holds
  (`pipeline`, and the theorem `CausalOrderCorrect`).
* `TopicFollowsSequence` (`MessagePipeline`): `services/message/README.md:94` says consumers see sequence order. The
  number is taken before the commit, and a later number may commit first.
* `MembershipCheckIsCurrent` (`Conversation`): `services/conversation/README.md:38` says that the sender is looked up
  in `conversation_participants`. A `GetConversation` between the invalidation and the commit of a removal caches the
  old participants for ten minutes.
* `RaceIsResolved` (`ConversationCreate`): `README.md:32`. The loser of a race for one id looks the
  conversation up again in the transaction PostgreSQL has just failed. If the answer comes from the cache, the error of
  the insert is dropped, the commit fails, and that error is not retried; otherwise the transaction is tried again.
* `NothingMissed` (`Resume`): `services/delivery/README.md:52` says that a client fetches any missed events when it
  reconnects. The resume request has one number per conversation, `last_sequences`, and the history starts above it.
  Messages commit and are delivered in another order than their numbers: a client that has 2 and was away when 1 came
  reports 2, and is never sent 1. `NoGap` and `CaughtUp` are about clients that know of this and report the last number
  without a gap below it (`Careful`); nothing in the repository tells them to.
* `ConnectedIsPresent` (`Sessions`): `services/presence/README.md:33`. The end of a replaced session unregisters the
  device of the new one (`handler.go:100`, `redis.go:57`), and the clean-up of a lookup removes a device that has
  registered again since. The heartbeat only extends what is there (`EXPIRE`): the device comes back with its next
  connection.
* `ConnectedMemberGetsEvent` (`Dispatch`): `services/delivery/README.md:9` has events go "to the correct, connected user
  devices". It is what the one above means for delivery: a member reconnects and registers, its old session unregisters
  the device, and from then on the member is sent nothing, also on the instance that has its session, because
  `deliverToUser` asks presence first. No fault is needed. `LiveMemberGetsEvent` is about members presence knows of.
* `UsedTokenStaysDead` (`Auth`): `services/auth/README.md:27` says of a refresh token "Consumed and rotated on each use",
  and line 54 that logging out revokes it. `Refresh` drops the error of `RevokeRefresh` (`auth_service.go:126`), and so
  does `Logout` over HTTP: the token is good for a later `Refresh`. `DeadTokenStaysDead` excludes the tokens
  for which that happened, and shows that there is no other way. Besides, two `Refresh` calls that both read
  the token before one revokes it both get a session; both properties are about calls that come later.
* `AnsweredIsPublished` (`Profile`): `services/profile/README.md:60` says "Events are guaranteed to reach Kafka" and line
  54 that a row is marked when the broker has acknowledged the event. The producer does not ask for
  acknowledgements (see above), so a marked row may not be in Kafka. `AnsweredIsSent` and `AnsweredIsKept` are about what
  the service itself does: the event of an answered change is kept until it was given to the producer without an error.
* `NoUpdateLost` (`Profile`): `services/profile/README.md:72` says that concurrent updates are processed strictly
  sequentially. `UpdateProfile` reads the profile, perhaps from the cache, and writes all of it back: of two updates of
  different fields one may be lost.
* `RetriesAreSafe` (`Gateway`): `README.md:32` says "All state-mutating APIs and message consumers safely handle network
  retries". Without a key of the client the gateway makes a new one for each request (`message_handler.go:48`), and a new
  conversation id (`conversation_handler.go:82`): repeating a request that timed out stores a second message, or makes
  a second group. Read receipts and profile updates write an event every time they are repeated.

Seen while modelling, and visible in the actions:

* `services/conversation/README.md:70` says that publishing resumes by itself when Kafka is back. An event whose
  attempts were used up in the meantime is in `outbox_dlq`, which nothing reads: `NoEventLost` and
  `CreatedIsAnnounced` therefore count the dead letters.
* `services/profile/README.md:51` says that a change and its event share a transaction. They are two statements: a
  failure between them leaves the change without event. `AnsweredIsSent` is about changes that were answered.
  The keys of the events are random, not the user id of `README.md:61`.
* A contact can be added while the other user is being blocked.
* The auth worker marks a row when its unacknowledged write returns, and the profile consumer's offset moves on whether
  or not the profile could be created (`ReadMessage` commits it). `lost` records both, and `RegisteredGetsProfile` and
  `NoRegistrationLost` exclude these users: there is no third way to lose one.
* `UpdateReadReceipt` of a user that is no participant is answered with success and stores no mark. `SuccessIsApplied` is
  about the gateway: that a service which answers OK has done its work is assumed there.
* A `MEMBERSHIP_CHANGED` that adds a user to an empty membership cache makes an entry with that user alone, and the
  other members get no events that this instance consumes, for entries have no expiry: `LiveMemberGetsEvent` leaves
  additions out.

## Fairness

* `MessageService`: weak fairness of the steps a running service and database take by themselves, for each call,
  including the serialization failure that a real conflict forces. Errors, deadlines and crashes are never fair.
  gRPC deadlines and the gateway's timeouts make sure that a call to the conversation service returns.
* `OutboxRelay`: weak fairness of select, publish and commit of each worker: `Worker.Start` loops until shutdown.
  Failures are bounded, that is, Kafka and the database are back at some time.
* `MessagePipeline`: fairness of the relay only. What a client was told must reach Kafka even if no call moves.
* `Conversation`: Redis expires entries (`10*time.Minute`), and a `GetConversation` that has begun goes on.
* `ConversationEvents`: the steps of a call that began, and the polling of the relay, as above.
* `Sessions`: the steps of the handler; the read loop of a closed session ends, because `Close` closes the connection
  and every read has a deadline; keys of devices that do not refresh expire.
* `Resume`: the client connects again, the steps of `handleResume` go on, live events are delivered (weak); what the
  client reports is its own matter. The write
  loop is strongly fair: it is a goroutine of its own, which stops with every overflow or lost connection and starts
  with the next one, and is not starved on all of them.
* `Accounts`: the polling loops of the auth worker, the profile publisher and the consumer. No call is fair, and
  nothing makes the broker keep what was sent to it.
* `Gateway`: the steps of a handler, `Deadline` among them: `context.WithTimeout` ends the call of a silent service.

## Proofs

Every safety invariant, action property and refinement of the passing runs is proved for all values of the constants;
liveness is left to TLC (below). A proof module `XProofs` extends module `X`, and `EdgeProofs` extends both `Sessions`
and `Gateway`. Each invariant was first checked by TLC on the instance of a run, and is proved with one step per
action.

**Message service** (`MessageServiceProofs`; `MessageServiceAssumption`: at least one attempt, commands of known
users and conversations, `NoMessage` is no id). All safety properties of the `message` run,
`SequenceUnique`, `HistoryIsImmutable` and `Refinement`, `Spec => LogSpec`. The inductive invariant `IInv` has these parts:

* `TypeInv`: types, and a delete past its first statement has a target;
* `KeyInv`: at most one call holds the idempotency row of a command, and while it does no row is committed.
  `OneMessagePerCommand` alone is not inductive: a second commit is prevented by the lock and the snapshot, so the
  lock has to be in the invariant;
* `StoredInv`: an idempotency row, a message and every reply of a command agree;
* `SequenceInv`: numbers stored or held by a call are at most the counter, and no two of the calls and messages of one
  conversation share one;
* `EventIdInv`, `SentInv`, `DeleteInv`: ids of outbox rows, open or committed, are distinct and at most the
  counter; messages and events correspond; the lock of `GetMessageForUpdate` makes deletions exclusive.

**Relay of the message service** (`OutboxRelayProofs`). `NothingLostNothingInvented` from: locked rows are committed
rows, and what a worker counts as sent is in the topic. `DuplicatesOnlyAfterFailure` needs `ExclusiveInv` (no row is
in two batches: SKIP LOCKED) and `CountInv`, which counts the places of a row in the topic against the failures and
the batch that has just sent it. `CausalOrderCorrect` has the hypothesis that there is one worker; with two the
property fails (see above). The invariant says that a batch is closed under what was committed before.

**Both together** (`MessageServiceProofs`, second half; `MessagePipelineAssumption`: finitely many calls, and `MaxRows` is at
least the number of rows that all their attempts can insert, so that the bound of `OutboxRelay` stops no call).
`RelaySpecCorrect`: every step of the message service is a writer's step of `OutboxRelay` or changes nothing of
it, so `PipelineSpec => RelaySpec`. With that the theorems of `OutboxRelayProofs` hold of the pipeline
(`PipelineDelivers`, and `EventsInCausalOrderCorrect` for one worker).

**Membership and receipts** (`ConversationProofs`). `MembershipInvariants` is not inductive: that a removal may not take
the last admin was decided on a snapshot. `LockInv` (the row lock is exclusive), `WriteInv` (what an open transaction
wrote was allowed on its snapshot) and the check at commit make the decision hold of the table. `EventIdInv` says
that ids are taken under the lock, so the ids of membership events follow the commits; this gives
`EventsReplayMembership`. The receipt properties hold step by step. `Refinement`, `Spec => MembershipSpec`, puts them
together: a commit is an `Add` or a `Remove` of `Membership`, because what the call decided on its snapshot it would
decide now; that its event is new needs the part of `EventIdInv` that keeps the ids of open transactions and of
receipts apart. All other steps of a membership change, and those of the cache, change nothing of `Membership`.

**CreateConversation and its relay** (`ConversationEventsProofs`; `EventsAssumption`: finitely many creates,
a batch size and bounds). `OneConversationPerPair` and `AnswersAreStored` from `IndexInv`, the unique indexes with
the entries of open inserts, `ResultInv`, what a call has found or made, and `ValidInv`. From the same invariants
`DirectoryRefinement`, `EventsSpec => DirectorySpec`: a call's answer takes effect when it returns, a new conversation
when it commits, and every other step of lookups, transactions and retries is invisible. `RowCountInv` bounds the ids by
the number of attempts, which shows that the bound on rows of the model cuts nothing off. `NoEventLost` from `BatchInv`
and `RetryInv` (`retry_count` never exceeds the failures, so a dead letter has failed every attempt), for any number of
relays; `EventsInOrder` under the hypothesis that there is one relay.

**Sessions and presence** (`EdgeProofs`). `LiveSessionIsRegistered` is inductive with the types. `OfflineAtTheEnd`
speaks of the end only; `CleanInv` says what holds on the way: a key has a session that will delete it, and while
the last status is ONLINE a session will still count the devices.

**Gateway** (`EdgeProofs`, second half). `SuccessIsApplied`, for any number of operations and requests and any rate
limit. `GateInv` has `RequestTypes` and `SuccessInv`, that a handler which reports success has had its service's answer,
and the service its effect before that. `NoErrorIsSuccess` is the fact about the error mapping.

**Resume** (`ResumeProofs`; `ResumeAssumption`: queue and page are not of size 0, presence updates are no messages).
`NoGap` is about ready sessions of careful clients; `GapInv` follows a delivered message through the resume: it is with
the client, in the queue or in the buffer, or in the page, or above it while more pages follow. `PageHolds` shows that a
page that is not full holds all the rows there are, and a full one the lowest, and `ResumeFromHolds` that a careful client
has everything up to the number it reports.

**Dispatcher** (`DispatchProofs`; `DispatchAssumption`). `OutsiderInv`: caches and tasks hold past and present members
only. `OnceInv` gives each consumption one copy per connection: sent, in the channel of its instance, or still to be
made; the copy in the channel has to be counted because a client may move to the instance that has one. `LiveInv`: while
nothing fails and nobody is added, an event is on its way to every member whose connection presence has had since before
the event was consumed; it needs `CacheInv`, that a cache is empty or has every member. That presence has the connection
may change with every call of an older session: `Register` makes what was consumed so far `late`, so the
invariant holds again from there on.

**Accounts** (`AccountsProofs`; `AccountsAssumption`: the profile service is used with the ids of the auth service).
`DeadTokenStaysDead` from `TokenInv`: a token is made by the last step of its call, so none is made twice; the token of a
call that was answered is revoked, or the call ignored that it is not; and a revoked token stays so. `ProfileHasUser` from `ProfileInv`, which follows a registration through
the outbox, the batch, the topic and the consumer. `ChangeInv` is the same for the profile service: a request that goes
to the table or the cache has a whole profile to put there, a change is answered only by the step that writes its event,
and the publisher marks only what it has given to the producer without an error; this gives `AnsweredIsKept`. `NoRegistrationLost` from `PathInv`: users
are committed with their outbox rows, and the event of a row that was sent was lost by the broker, has led to a profile, to a
failed attempt, or is still with the consumer. It needs `ChangeInv`, because an update must not overwrite a profile by none. These two are
the safety half of `RegisteredGetsProfile` and `AnsweredIsSent`. `TypeCorrect` covers both services.

The bounds in the constants (`MaxFaults`, `MaxDisturbances`, `MaxCalls`, ...) are arbitrary naturals in the theorems.

Only model-checked:

* all liveness (`EveryCallAnswered`, `EveryRowPublished`, `AcknowledgedIsPublished`, `CacheEventuallyCurrent`,
  `CreatedIsAnnounced`, `NoGhostDevice`, `CaughtUp`, `RegisteredGetsProfile`, `AnsweredIsSent`,
  `EveryRequestAnswered`): fairness and ENABLED are beyond the prover.

## Not modelled

* Generated contracts: the protobuf and gRPC stubs under `contracts/gen` are over a third of the Go code and have no
  behaviour of their own.
* Observability, configuration, migrations and deployment: no state that the services read back.
* The order in which each `main` connects and closes its clients; crashes, restarts and shutdown of sessions are
  actions of the modules.
* Code without a caller: the methods of the conversation service's `domain.Conversation` that repeat the rules of the
  application layer, and `InsertTx` of the profile service's outbox.
* PostgreSQL, Redis and Kafka are external; what the code relies on is part of the modules that use it.
