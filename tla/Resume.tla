------------------------------- MODULE Resume -------------------------------
(***************************************************************************)
(* One WebSocket session of the delivery service from the resume request   *)
(* to live delivery, and the client that reads it and connects again: the  *)
(* send queue, the buffer of live events that arrive during the resume,    *)
(* and the pages of history it reads from the message service.             *)
(*                                                                         *)
(* There is one conversation.  A message is its sequence number; messages  *)
(* are committed in any order, as concurrent senders commit them, and some *)
(* numbers may never be.  Every client has one device, and one connection  *)
(* at a time, which presence knows of (Sessions has the replacement of     *)
(* connections, and what it does to presence).  The dispatcher is one step *)
(* for each event (Dispatch has its goroutines).                           *)
(***************************************************************************)
EXTENDS Integers, Sequences, FiniteSets

CONSTANTS Clients,
          Careful,      \* the clients that report only what has no gap below it
          MaxMessage,   \* bound on sequence numbers
          OtherEvents,  \* events that carry no sequence number (receipts, ...)
          PresenceUpdate, \* sent by the presence watcher, past the buffer
          QueueSize,    \* SendQueueSize (128)
          PageSize,     \* page of the history (100)
          MaxDisturbances  \* bound on lost connections, failed calls and
                           \* presence updates

Messages == 1 .. MaxMessage
Events   == Messages \cup OtherEvents

ASSUME ResumeAssumption ==
    /\ Careful \subseteq Clients
    /\ MaxMessage \in Nat /\ QueueSize \in Nat \ {0} /\ PageSize \in Nat \ {0}
    /\ MaxDisturbances \in Nat
    /\ OtherEvents \cap Messages = {} /\ PresenceUpdate \notin Events

VARIABLES
    committed,  \* messages: the sequence numbers of the stored rows
    session,    \* the session of each client
    got,        \* the messages each client has received
    handled,    \* the events the dispatcher has delivered
    updates,    \* presence updates so far
    drops, faults

vars == <<committed, session, got, handled, updates, drops, faults>>

\* No connection, or a closed one: its queue and buffer are lost.
NoSession == [st |-> "offline", queue |-> <<>>, buffer |-> {}, page |-> {},
              cur |-> 0]

SessionType ==
    [st : {"offline", "connected", "sync", "page", "lastpage", "flush", "ready"},
     queue : Seq(Events \cup {PresenceUpdate}), buffer : SUBSET Events,
     page : SUBSET Messages, cur : 0 .. MaxMessage]

TypeOK ==
    /\ committed \subseteq Messages /\ handled \subseteq Events
    /\ session \in [Clients -> SessionType]
    /\ \A c \in Clients : Len(session[c].queue) <= QueueSize
    /\ got \in [Clients -> SUBSET Messages] /\ updates \in 0 .. MaxDisturbances
    /\ drops \in 0 .. MaxDisturbances /\ faults \in 0 .. MaxDisturbances

Init ==
    /\ committed = {} /\ handled = {} /\ updates = 0
    /\ session = [c \in Clients |-> NoSession]
    /\ got = [c \in Clients |-> {}] /\ drops = 0 /\ faults = 0

MayDisturb == drops + faults + updates < MaxDisturbances

\* SendMessage of some client commits.
CommitMessage(m) ==
    /\ m \in Messages \ committed
    /\ committed' = committed \cup {m}
    /\ UNCHANGED <<session, got, handled, updates, drops, faults>>

-----------------------------------------------------------------------------
(* The session *)

\* The event goes to the queue, or the session is closed because it is full.
TrySend(s, e) ==
    CASE s.st = "offline" -> s
      [] s.st # "offline" /\ Len(s.queue) < QueueSize
            -> [s EXCEPT !.queue = Append(@, e)]
      [] OTHER -> NoSession

\* Mutant of Deliver: what arrives before the session is ready is dropped.
DeliverReadyOnly(s, e) == IF s.st # "ready" THEN s
                          ELSE TrySend(s, e)

\* Buffer, or else TrySend: a live event for a session, ready or not.
Deliver(s, e) ==
    CASE s.st = "offline" -> s
      [] s.st = "ready" -> TrySend(s, e)
      [] OTHER -> [s EXCEPT !.buffer = @ \cup {e}]

\* FlushBufferSorted holds the lock that Buffer needs.
Flushing(c) == session[c].st = "flush"

\* All messages up to there were received.
PrefixOf(g) == CHOOSE n \in 0 .. MaxMessage : 1 .. n \subseteq g /\ n + 1 \notin g

\* The highest message that was received.
LastOf(g) == CHOOSE n \in g \cup {0} : \A k \in g : k <= n

\* last_sequences of the resume request.  Its name asks for the last number
\* received; a client that knows of the gaps may report less.
ResumeFrom(c) == IF c \in Careful THEN PrefixOf(got[c]) ELSE LastOf(got[c])

\* ListConversations finds the conversation of the user, or fails.
Listed == {TRUE} \cup (IF MayDisturb THEN {FALSE} ELSE {})

\* handleResume: the conversations to sync are those the client reports and
\* those ListConversations finds.
ReadResume(c) ==
    /\ session[c].st = "connected"
    /\ \E listed \in Listed :
          /\ session' = [session EXCEPT ![c].st = IF got[c] # {} \/ listed THEN "sync"
                                                 ELSE "flush",
                                        ![c].cur = ResumeFrom(c)]
          /\ faults' = IF listed THEN faults ELSE faults + 1
    /\ UNCHANGED <<committed, got, handled, updates, drops>>

\* FetchMessages: of the stored messages above cur the lowest, at most a page.
FetchMessages(cur) ==
    LET rows == {m \in committed : m > cur}
    IN {m \in rows : Cardinality({n \in rows : n < m}) < PageSize}

\* Mutant of NextPage: a full page is taken for the last one.
OnlyOnePage(rows) == IF rows = {} THEN "flush" ELSE "lastpage"

\* syncConversation: stop at an empty page, and after one that is not full.
NextPage(rows) == CASE rows = {} -> "flush"
                    [] Cardinality(rows) = PageSize -> "page"
                    [] OTHER -> "lastpage"

\* One SyncMessages call.
SyncPage(c) ==
    /\ session[c].st = "sync"
    /\ LET rows == FetchMessages(session[c].cur) IN
       session' = [session EXCEPT ![c].page = rows, ![c].st = NextPage(rows)]
    /\ UNCHANGED <<committed, got, handled, updates, drops, faults>>

\* SyncMessages fails, or the user is no participant: the error is logged, and
\* the resume goes on without.
SyncFails(c) ==
    /\ session[c].st = "sync" /\ MayDisturb
    /\ session' = [session EXCEPT ![c].st = "flush"] /\ faults' = faults + 1
    /\ UNCHANGED <<committed, got, handled, updates, drops>>

\* Where the resume goes on when the messages rest of the page are left.
AfterHistory(st, rest) ==
    IF rest # {} THEN st ELSE IF st = "page" THEN "sync" ELSE "flush"

\* sendMsgAsEvent for the next message of the page, in the order of the rows.
SendHistory(c) ==
    /\ session[c].st \in {"page", "lastpage"}
    /\ \E m \in session[c].page :
          LET rest == session[c].page \ {m} IN
          /\ \A n \in rest : m < n
          /\ session' = [session EXCEPT ![c] =
                TrySend([session[c] EXCEPT !.page = rest, !.cur = m,
                                           !.st = AfterHistory(@, rest)], m)]
    /\ UNCHANGED <<committed, got, handled, updates, drops, faults>>

\* Messages are sorted by their numbers; the comparison is not transitive when
\* there are other events among them, and then any order may come out.
FirstOf(buffer) ==
    IF buffer \subseteq Messages THEN {m \in buffer : \A n \in buffer : m <= n}
    ELSE buffer

\* FlushBufferSorted: one of the buffered events, or the end of the resume.
Flush(c) ==
    /\ Flushing(c)
    /\ \/ /\ session[c].buffer = {}
          /\ session' = [session EXCEPT ![c].st = "ready"]
       \/ \E e \in FirstOf(session[c].buffer) :
             session' = [session EXCEPT ![c] =
                            TrySend([session[c] EXCEPT !.buffer = @ \ {e}], e)]
    /\ UNCHANGED <<committed, got, handled, updates, drops, faults>>

\* The write loop sends the head of the queue, and the client receives it.
WriteLoop(c) ==
    /\ session[c].queue # <<>>
    /\ session' = [session EXCEPT ![c].queue = Tail(@)]
    /\ got' = [got EXCEPT ![c] = @ \cup ({Head(session[c].queue)} \cap Messages)]
    /\ UNCHANGED <<committed, handled, updates, drops, faults>>

\* A new session, registered, and present for the dispatcher, before the resume
\* request is read.
Connect(c) ==
    /\ session[c].st = "offline"
    /\ session' = [session EXCEPT ![c].st = "connected"]
    /\ UNCHANGED <<committed, got, handled, updates, drops, faults>>

\* The connection breaks, is closed by the client (or for a request that is not
\* JSON), or misses a pong.
Drop(c) ==
    /\ session[c].st # "offline" /\ MayDisturb
    /\ session' = [session EXCEPT ![c] = NoSession] /\ drops' = drops + 1
    /\ UNCHANGED <<committed, got, handled, updates, faults>>

\* The dispatcher delivers a live event to whoever is connected.
LiveEvent(e) ==
    /\ e \notin handled /\ (e \in Messages => e \in committed)
    /\ \A c \in Clients : ~Flushing(c)
    /\ handled' = handled \cup {e}
    /\ session' = [c \in Clients |-> Deliver(session[c], e)]
    /\ UNCHANGED <<committed, got, updates, drops, faults>>

\* notifySubscribers of the presence watcher sends to the queue directly, also
\* during a resume.
NotifySubscribers ==
    /\ MayDisturb /\ updates' = updates + 1
    /\ session' = [c \in Clients |-> TrySend(session[c], PresenceUpdate)]
    /\ UNCHANGED <<committed, got, handled, drops, faults>>

-----------------------------------------------------------------------------
ResumeStep(c) == ReadResume(c) \/ SyncPage(c) \/ SendHistory(c) \/ Flush(c)

Next ==
    \/ \E m \in Messages : CommitMessage(m)
    \/ \E c \in Clients : Connect(c) \/ Drop(c) \/ ResumeStep(c) \/ SyncFails(c)
                          \/ WriteLoop(c)
    \/ \E e \in Events : LiveEvent(e)
    \/ NotifySubscribers

Spec == Init /\ [][Next]_vars

\* Clients connect again, events are delivered, sessions go on, and a write loop
\* that has something to write is not passed over for ever.
FairSpec ==
    /\ Spec
    /\ \A c \in Clients : WF_vars(Connect(c)) /\ WF_vars(ResumeStep(c))
                          /\ SF_vars(WriteLoop(c))
    /\ \A e \in Events : WF_vars(LiveEvent(e))
-----------------------------------------------------------------------------
(* Properties *)

Queued(c) == {session[c].queue[n] : n \in DOMAIN session[c].queue}

\* Nothing that was stored and whose event was delivered is missing.
Complete(c) == session[c].st = "ready" => committed \cap handled \subseteq got[c] \cup Queued(c)

\* A client that reports only what has no gap below it, and whose session is
\* ready, misses nothing: every stored message is on its way to it, from the
\* history, the buffer or live, unless its event has yet to be delivered.  No
\* message falls between the sync and the live events.
NoGap == faults = 0 => \A c \in Careful : Complete(c)

\* What services/delivery/README.md promises of every client: on reconnection
\* it fetches any missed events.
NothingMissed == faults = 0 => \A c \in Clients : Complete(c)

\* A careful client that always connects again gets every message whose
\* predecessors are stored, even if its connection is lost, or its queue
\* overflows again and again while it catches up.  (Above a number that is
\* missing it may for ever be sent the same messages again, and overflow.)
CaughtUp ==
    \A c \in Careful, m \in Messages :
        1 .. m \subseteq committed ~> (m \in got[c] \/ faults > 0)

=============================================================================
