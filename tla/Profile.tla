------------------------------- MODULE Profile -------------------------------
(***************************************************************************)
(* The profile service: profiles with their cache, contacts and blocks,    *)
(* and the outbox with its publisher.  Nothing here runs in a transaction: *)
(* each statement is a step, and a call that fails in between leaves what  *)
(* it has written.  A change is named by the call that made it, and so is  *)
(* its outbox row.                                                         *)
(***************************************************************************)
EXTENDS Naturals, FiniteSets

CONSTANTS Owners,        \* users that have a profile, or may get one
          ProfileCalls,
          Relations,       \* the pairs (user, other) of contact and block calls
          NoProfile,
          NoValue,         \* the value of a field that was never set
          MaxFailures      \* bound on failures of publishers and consumers

Fields == {"display_name", "bio"}
Values == ProfileCalls \cup {NoValue}

ASSUME ProfileAssumption ==
    /\ Relations \subseteq Owners \X Owners /\ NoValue \notin ProfileCalls
    /\ NoProfile \notin [Fields -> Values] /\ MaxFailures \in Nat

VARIABLES
    profiles,   \* rows of profiles
    cache,      \* profile:<id> in Redis
    contacts, blocks,
    outbox,     \* the calls whose event is in the outbox table
    published,  \* rows with published_at
    topic,      \* events that Kafka has
    sent,       \* history: events that were written to the connection to Kafka
    fetched,    \* what publishBatch has still to do
    request,    \* what each call was asked, and where it is
    failures

profileVars == <<profiles, cache, contacts, blocks, outbox, published, topic,
                 sent, fetched, request, failures>>

relations == <<contacts, blocks>>
publisher == <<published, topic, sent, fetched>>

Changes == {"update", "put", "add_contact", "remove_contact", "block", "unblock"}

NoRequest == [op |-> "none", pc |-> "idle", user |-> NoProfile, other |-> NoProfile,
              field |-> "bio", copy |-> NoProfile]

ProfileTypeOK ==
    /\ profiles \in [Owners -> [Fields -> Values] \cup {NoProfile}]
    /\ cache \in [Owners -> [Fields -> Values] \cup {NoProfile}]
    /\ contacts \subseteq Relations /\ blocks \subseteq Relations
    /\ outbox \subseteq ProfileCalls /\ published \subseteq outbox
    /\ topic \subseteq sent /\ sent \subseteq ProfileCalls
    /\ fetched \in [rows : SUBSET ProfileCalls, mark : SUBSET ProfileCalls]
    /\ request \in [ProfileCalls ->
                       [op : Changes \cup {"none", "get"},
                        pc : {"idle", "get", "set", "update", "delete", "event", "check",
                              "insert", "remove", "done", "refused", "failed"},
                        user : Owners \cup {NoProfile}, other : Owners \cup {NoProfile},
                        field : Fields, copy : [Fields -> Values] \cup {NoProfile}]]
    /\ failures \in 0 .. MaxFailures

NewProfile == [f \in Fields |-> NoValue]

ProfileInit(existing) ==
    /\ profiles = [u \in Owners |-> IF u \in existing THEN NewProfile ELSE NoProfile]
    /\ cache = [u \in Owners |-> NoProfile]
    /\ contacts = {} /\ blocks = {} /\ outbox = {} /\ published = {} /\ topic = {}
    /\ sent = {}
    /\ fetched = [rows |-> {}, mark |-> {}]
    /\ request = [p \in ProfileCalls |-> NoRequest]
    /\ failures = 0

Move(p, pc) == request' = [request EXCEPT ![p].pc = pc]

\* Of the calls that only read rows, GetProfile fills the cache; BatchGet and
\* List change nothing.
AskProfile(p, u) ==
    /\ request[p].pc = "idle"
    /\ \E op \in {"get", "update", "put"}, f \in Fields :
          request' = [request EXCEPT ![p] =
             [NoRequest EXCEPT !.op = op, !.user = u, !.field = f,
                  !.pc = IF op = "put" THEN "update" ELSE "get",
                  !.copy = IF op = "put" THEN [g \in Fields |-> p] ELSE NoProfile]]
    /\ UNCHANGED <<profiles, cache, relations, outbox, publisher, failures>>

\* Contacts of the HTTP API.  Adding oneself is refused.
AskContact(p, u, v) ==
    /\ request[p].pc = "idle"
    /\ \E op \in {"add_contact", "remove_contact"} :
          request' = [request EXCEPT ![p] =
             [NoRequest EXCEPT !.op = op, !.user = u, !.other = v,
                  !.pc = CASE op = "remove_contact"          -> "remove"
                           [] op = "add_contact" /\ u = v    -> "refused"
                           [] op = "add_contact" /\ ~(u = v) -> "check"]]
    /\ UNCHANGED <<profiles, cache, relations, outbox, publisher, failures>>

\* Blocks of the HTTP API.  Blocking oneself is refused.
AskBlock(p, u, v) ==
    /\ request[p].pc = "idle"
    /\ \E op \in {"block", "unblock"} :
          request' = [request EXCEPT ![p] =
             [NoRequest EXCEPT !.op = op, !.user = u, !.other = v,
                  !.pc = CASE op = "unblock"            -> "remove"
                           [] op = "block" /\ u = v     -> "refused"
                           [] op = "block" /\ ~(u = v)  -> "insert"]]
    /\ UNCHANGED <<profiles, cache, relations, outbox, publisher, failures>>

-----------------------------------------------------------------------------
(* Get and Update *)

\* With a copy of the profile: GetProfile is done, UpdateProfile changes the
\* field that was given.
Got(p, x) ==
    IF request[p].op = "get" THEN [request[p] EXCEPT !.pc = "done", !.copy = x]
    ELSE [request[p] EXCEPT !.pc = "update", !.copy = [x EXCEPT ![request[p].field] = p]]

\* ProfileService.Get: from the cache, or else from the table.
GetProfile(p) ==
    LET u == request[p].user
    IN /\ request[p].pc = "get"
       /\ request' = [request EXCEPT ![p] =
             IF cache[u] # NoProfile THEN Got(p, cache[u])
             ELSE IF profiles[u] = NoProfile THEN [@ EXCEPT !.pc = "refused"]
             ELSE [@ EXCEPT !.pc = "set", !.copy = profiles[u]]]
       /\ UNCHANGED <<profiles, cache, relations, outbox, publisher, failures>>

\* The copy goes to the cache, whatever happened to the row since; an error is
\* ignored.
CacheSet(p) ==
    /\ request[p].pc = "set"
    /\ cache' \in {[cache EXCEPT ![request[p].user] = request[p].copy], cache}
    /\ request' = [request EXCEPT ![p] = Got(p, request[p].copy)]
    /\ UNCHANGED <<profiles, relations, outbox, publisher, failures>>

\* ProfileRepo.Update of all fields of the copy.
UpdateRow(p) ==
    LET u == request[p].user
    IN /\ request[p].pc = "update"
       /\ IF profiles[u] = NoProfile
          THEN Move(p, "refused") /\ UNCHANGED profiles
          ELSE /\ profiles' = [profiles EXCEPT ![u] = request[p].copy]
               /\ Move(p, "delete")
       /\ UNCHANGED <<cache, relations, outbox, publisher, failures>>

\* Cache.Delete, whose error is ignored.
CacheDelete(p) ==
    /\ request[p].pc = "delete"
    /\ cache' \in {[cache EXCEPT ![request[p].user] = NoProfile], cache}
    /\ Move(p, "event")
    /\ UNCHANGED <<profiles, relations, outbox, publisher, failures>>

-----------------------------------------------------------------------------
(* Contacts and blocks *)

Pair(p) == <<request[p].user, request[p].other>>

\* BlockRepo.Exists, before a contact is added.
CheckBlocked(p) ==
    /\ request[p].pc = "check"
    /\ Move(p, IF Pair(p) \in blocks THEN "refused" ELSE "insert")
    /\ UNCHANGED <<profiles, cache, relations, outbox, publisher, failures>>

InsertContact(p) ==
    /\ request[p].op = "add_contact" /\ request[p].pc = "insert"
    /\ contacts' = contacts \cup {Pair(p)} /\ Move(p, "event")
    /\ UNCHANGED <<profiles, cache, blocks, outbox, publisher, failures>>

\* Blocking then removes the contact.
InsertBlock(p) ==
    /\ request[p].op = "block" /\ request[p].pc = "insert"
    /\ blocks' = blocks \cup {Pair(p)} /\ Move(p, "remove")
    /\ UNCHANGED <<profiles, cache, contacts, outbox, publisher, failures>>

DeleteContact(p) ==
    /\ request[p].op \in {"remove_contact", "block"} /\ request[p].pc = "remove"
    /\ contacts' = contacts \ {Pair(p)} /\ Move(p, "event")
    /\ UNCHANGED <<profiles, cache, blocks, outbox, publisher, failures>>

DeleteBlock(p) ==
    /\ request[p].op = "unblock" /\ request[p].pc = "remove"
    /\ blocks' = blocks \ {Pair(p)} /\ Move(p, "event")
    /\ UNCHANGED <<profiles, cache, contacts, outbox, publisher, failures>>

-----------------------------------------------------------------------------
(* The outbox *)

\* Outbox.Add, a statement of its own; then the call is answered.
OutboxAdd(p) ==
    /\ request[p].pc = "event"
    /\ outbox' = outbox \cup {p} /\ Move(p, "done")
    /\ UNCHANGED <<profiles, cache, relations, publisher, failures>>

\* A statement fails: the call ends, and what it has written stays.
RequestFails(p) ==
    /\ request[p].pc \notin {"idle", "done", "refused", "failed"}
    /\ Move(p, "failed")
    /\ UNCHANGED <<profiles, cache, relations, outbox, publisher, failures>>

\* Fetch, without a lock.
Fetch ==
    /\ fetched.rows = {} /\ fetched.mark = {} /\ outbox # published
    /\ fetched' = [fetched EXCEPT !.rows = outbox \ published]
    /\ UNCHANGED <<profiles, cache, relations, outbox, published, topic, sent, request,
                   failures>>

\* Mutant of PublishRow: an error of Publish is ignored, and the row is marked.
PublishErrorIgnored(p) ==
    /\ p \in fetched.rows /\ fetched.mark = {}
    /\ sent' \in {sent \cup {p}, sent} /\ topic' \in {topic, topic \cup sent'}
    /\ fetched' = [rows |-> fetched.rows \ {p}, mark |-> {p}]
    /\ UNCHANGED <<profiles, cache, relations, outbox, published, request, failures>>

\* Publish.  The writer asks for no acknowledgement (RequiredAcks is not set), so
\* that it succeeds does not mean that Kafka has the event.
PublishRow(p) ==
    /\ p \in fetched.rows /\ fetched.mark = {}
    /\ sent' = sent \cup {p} /\ topic' \in {topic, topic \cup {p}}
    /\ fetched' = [rows |-> fetched.rows \ {p}, mark |-> {p}]
    /\ UNCHANGED <<profiles, cache, relations, outbox, published, request, failures>>

MarkPublished(p) ==
    /\ p \in fetched.mark
    /\ published' = published \cup {p} /\ fetched' = [fetched EXCEPT !.mark = {}]
    /\ UNCHANGED <<profiles, cache, relations, outbox, topic, sent, request, failures>>

\* Publishing or marking fails, and the publisher goes on with the next row; or
\* the service restarts.
PublishFails ==
    /\ fetched.rows # {} \/ fetched.mark # {}
    /\ failures < MaxFailures /\ failures' = failures + 1
    /\ \/ \E p \in fetched.rows :
             fetched.mark = {} /\ fetched' = [fetched EXCEPT !.rows = @ \ {p}]
       \/ fetched.mark # {} /\ fetched' = [fetched EXCEPT !.mark = {}]
       \/ fetched' = [rows |-> {}, mark |-> {}]
    /\ UNCHANGED <<profiles, cache, relations, outbox, published, topic, sent, request>>

\* The hour of the cache entry is over.
CacheExpires(u) ==
    /\ cache[u] # NoProfile /\ cache' = [cache EXCEPT ![u] = NoProfile]
    /\ UNCHANGED <<profiles, relations, outbox, publisher, request, failures>>

-----------------------------------------------------------------------------
ContactStep(p) == CheckBlocked(p) \/ InsertContact(p) \/ DeleteContact(p)

BlockStep(p) == InsertBlock(p) \/ DeleteBlock(p)

ProfileStep(p) ==
    \/ GetProfile(p) \/ CacheSet(p) \/ UpdateRow(p) \/ CacheDelete(p)
    \/ ContactStep(p) \/ BlockStep(p) \/ OutboxAdd(p)

PublisherStep == Fetch \/ \E p \in ProfileCalls : PublishRow(p) \/ MarkPublished(p)

-----------------------------------------------------------------------------
(* Properties *)

\* The change p was answered with success.
Changed(p) == request[p].op \in Changes /\ request[p].pc = "done"

\* A change that was answered with success has its event in the outbox, not
\* marked, until it was sent to Kafka, although nothing here runs in a
\* transaction.
AnsweredIsKept ==
    \A p \in ProfileCalls : Changed(p) => p \in sent \/ p \in outbox \ published

\* The event of a change that was answered with success is sent to Kafka at least
\* once, also when the publisher fails or restarts between its steps.
AnsweredIsSent == \A p \in ProfileCalls : Changed(p) ~> p \in sent

\* What services/profile/README.md guarantees: the events reach Kafka.
AnsweredIsPublished == \A p \in ProfileCalls : Changed(p) ~> p \in topic

\* What services/profile/README.md says of concurrent updates, that they are
\* processed sequentially: a field that an update has set keeps its value until
\* another call sets the same field.
NoUpdateLost ==
    \A p \in ProfileCalls :
        LET r == request[p] IN
        r.op = "update" /\ r.pc = "done" =>
            \/ profiles[r.user][r.field] = p
            \/ \E q \in ProfileCalls \ {p} :
                  /\ request[q].user = r.user
                  /\ \/ request[q].op = "put"
                     \/ request[q].op = "update" /\ request[q].field = r.field
=============================================================================
