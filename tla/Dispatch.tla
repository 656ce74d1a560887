------------------------------ MODULE Dispatch ------------------------------
(***************************************************************************)
(* The dispatcher of the delivery service: from the Kafka topic to the     *)
(* sessions of the members of one conversation.  An event is handled by a  *)
(* goroutine of its own on the instance that consumes it, which delivers   *)
(* to its own sessions and forwards the event, over Redis, to the          *)
(* instances of the other members.  Each instance has its own cache of the *)
(* members, which the events it happens to consume keep up to date.        *)
(*                                                                         *)
(* A client has one device and at most one connection.  Where the device   *)
(* is, the dispatcher asks the presence service, which knows what the      *)
(* sessions of the device, old ones included, have told it.  Sessions has  *)
(* more devices and the failures of those calls, Resume the queue and the  *)
(* buffer of a session.                                                    *)
(***************************************************************************)
EXTENDS Naturals, FiniteSets

CONSTANTS Clients,
          Instances,
          Messages,      \* events of the message service in the conversation
          Created,       \* the CONVERSATION_CREATED event
          Change,        \* the MEMBERSHIP_CHANGED event
          Changing,      \* the user it adds or removes
          NoInstance,    \* the client is not connected
          MaxEvents,     \* how many of the events are handled at the same time
          MaxDisturbances,  \* bound on connections made or ended, errors and crashes
          MaxLoad        \* bound on both together

KafkaEvents == Messages \cup {Created, Change}

ASSUME DispatchAssumption ==
    /\ Changing \in Clients /\ NoInstance \notin Instances
    /\ Created # Change /\ {Created, Change} \cap Messages = {}
    /\ MaxEvents \in Nat /\ MaxDisturbances \in Nat /\ MaxLoad \in Nat

VARIABLES
    topic,     \* the events that are not handled yet at the beginning
    created,   \* the participants CONVERSATION_CREATED names
    members,   \* the participants, as the conversation service has them
    changed,   \* MEMBERSHIP_CHANGED is committed
    at,        \* the instance that has the client's connection
    copies,    \* how often the connection was sent each event
    late,      \* the events that were consumed before presence had the connection
    told,      \* the clients that were sent the presence of a member, of those that
               \* CONVERSATION_CREATED does not name
    key,       \* the instance GetUserDevices answers for the client's device
    stale,     \* a lookup found no key for the device, which is back, and will remove it
    joining,   \* the client's session has yet to call RegisterSession
    starting,  \* how many sessions of the client that are over have yet to call
               \* RegisterSession, on each instance,
    ending,    \* and how many have yet to call UnregisterSession
    data,      \* membership.Cache.data of each instance
    index,     \* membership.Cache.userToConvs: the users that have an entry
    task,      \* the goroutine that handles an event
    channel,   \* delivery:<instance>: copies of each event in Redis pub/sub
    connects, faults

tables   == <<topic, created, members, changed>>
sessions == <<at, copies, late, told>>
calls    == <<joining, starting, ending>>
presence == <<key, stale, calls>>
caches   == <<data, index>>
vars     == <<tables, sessions, presence, caches, task, channel, connects, faults>>

NoTask == [st |-> "none", on |-> NoInstance, todo |-> {}, remote |-> {}, times |-> 0]

NoCopies == [e \in KafkaEvents |-> 0]

NoSessions == [c \in Clients |-> [i \in Instances |-> 0]]

PresenceOK ==
    /\ key \in [Clients -> Instances \cup {NoInstance}]
    /\ stale \in [Clients -> BOOLEAN] /\ joining \in [Clients -> BOOLEAN]
    /\ starting \in [Clients -> [Instances -> Nat]]
    /\ ending \in [Clients -> [Instances -> Nat]]

TypeOK ==
    /\ topic \subseteq KafkaEvents
    /\ created \subseteq Clients /\ members \subseteq Clients /\ changed \in BOOLEAN
    /\ at \in [Clients -> Instances \cup {NoInstance}]
    /\ copies \in [Clients -> [KafkaEvents -> Nat]]
    /\ late \in [Clients -> SUBSET KafkaEvents] /\ told \subseteq Clients
    /\ PresenceOK
    /\ data \in [Instances -> SUBSET Clients] /\ index \in [Instances -> SUBSET Clients]
    /\ task \in [KafkaEvents ->
                    [st : {"none", "resolve", "fetched", "deliver", "done"},
                     on : Instances \cup {NoInstance}, todo : SUBSET Clients,
                     remote : SUBSET Instances, times : 0 .. MaxDisturbances + 1]]
    /\ channel \in [Instances -> [KafkaEvents -> Nat]]
    /\ connects \in 0 .. MaxDisturbances /\ faults \in 0 .. MaxDisturbances

\* The clients are connected, and registered, or not.  An instance that has handled
\* an event of the conversation before has its members cached, one that has not has
\* nothing.
Init ==
    /\ topic \in {T \in SUBSET KafkaEvents : Cardinality(T) \in 1 .. MaxEvents}
    /\ created \in {Clients, Clients \ {Changing}} /\ members = created
    /\ changed = FALSE
    /\ at \in [Clients -> Instances \cup {NoInstance}]
    /\ copies = [c \in Clients |-> NoCopies]
    /\ late = [c \in Clients |-> {}] /\ told = {}
    /\ key = at /\ stale = [c \in Clients |-> FALSE]
    /\ joining = [c \in Clients |-> FALSE]
    /\ starting = NoSessions /\ ending = NoSessions
    /\ data \in [Instances -> IF Created \in topic THEN {{}} ELSE {{}, created}]
    /\ index = data
    /\ task = [e \in KafkaEvents |-> NoTask]
    /\ channel = [i \in Instances |-> NoCopies]
    /\ connects = 0 /\ faults = 0

-----------------------------------------------------------------------------
(* What the conversation service and the clients do *)

MayDisturb == /\ connects + faults < MaxDisturbances
              /\ Cardinality(topic) + connects + faults < MaxLoad

\* AddParticipant or RemoveParticipant, once.
ChangeMembership ==
    /\ Change \in topic /\ ~changed /\ changed' = TRUE
    /\ members' = IF Changing \in members THEN members \ {Changing}
                  ELSE members \cup {Changing}
    /\ UNCHANGED <<topic, created, sessions, presence, caches, task, channel, connects,
                   faults>>

Consumed == {e \in KafkaEvents : task[e].times > 0}

\* The client's session, if it has one, is over: what it has yet to tell presence
\* it tells later.
EndSession(c) ==
    /\ starting' = IF at[c] # NoInstance /\ joining[c]
                   THEN [starting EXCEPT ![c][at[c]] = @ + 1] ELSE starting
    /\ ending' = IF at[c] # NoInstance /\ ~joining[c]
                 THEN [ending EXCEPT ![c][at[c]] = @ + 1] ELSE ending

\* A client connects, or connects again: ServeHTTP adds a new session to the
\* registry.
Connect(c, i) ==
    /\ MayDisturb /\ connects' = connects + 1
    /\ at' = [at EXCEPT ![c] = i]
    /\ copies' = [copies EXCEPT ![c] = NoCopies] /\ told' = told \ {c}
    /\ late' = [late EXCEPT ![c] = Consumed]
    /\ joining' = [joining EXCEPT ![c] = TRUE] /\ EndSession(c)
    /\ UNCHANGED <<tables, key, stale, caches, task, channel, faults>>

\* The client's connection breaks: readLoop takes the session off the registry.
Leave(c) ==
    /\ at[c] # NoInstance
    /\ MayDisturb /\ connects' = connects + 1
    /\ at' = [at EXCEPT ![c] = NoInstance]
    /\ joining' = [joining EXCEPT ![c] = FALSE] /\ EndSession(c)
    /\ UNCHANGED <<tables, copies, late, told, key, stale, caches, task, channel, faults>>

-----------------------------------------------------------------------------
(* What presence knows *)

\* Register: the session key is set and the device is in the set.  A lookup that
\* found the device there without a key may still be about to remove it.
Register(c, i) ==
    /\ key' = [key EXCEPT ![c] = i]
    /\ late' = IF key[c] = i THEN late ELSE [late EXCEPT ![c] = Consumed]
    /\ \E seen \in BOOLEAN :
          stale' = [stale EXCEPT ![c] = @ \/ (seen /\ key[c] = NoInstance)]

DropKey(c) == key' = [key EXCEPT ![c] = NoInstance]

\* The client's session calls RegisterSession.
RegisterSession(c) ==
    /\ joining[c] /\ joining' = [joining EXCEPT ![c] = FALSE]
    /\ Register(c, at[c])
    /\ UNCHANGED <<starting, ending>>

\* So does one that is over already, and will unregister.
OldRegisters(c, i) ==
    /\ starting[c][i] > 0 /\ starting' = [starting EXCEPT ![c][i] = @ - 1]
    /\ ending' = [ending EXCEPT ![c][i] = @ + 1]
    /\ Register(c, i)
    /\ UNCHANGED joining

\* UnregisterSession, at the end of readLoop: whichever session the key is of.
UnregisterSession(c, i) ==
    /\ ending[c][i] > 0 /\ ending' = [ending EXCEPT ![c][i] = @ - 1]
    /\ DropKey(c)
    /\ UNCHANGED <<late, stale, joining, starting>>

\* The key expires, if no session refreshes it.
KeyExpires(c) ==
    /\ key[c] # NoInstance /\ (at[c] = NoInstance \/ joining[c])
    /\ DropKey(c)
    /\ UNCHANGED <<late, stale, calls>>

\* GetUserDevices removes the device it found without a key from the set,
\* although it is back.
CleanupStale(c) ==
    /\ stale[c] /\ stale' = [stale EXCEPT ![c] = FALSE]
    /\ DropKey(c)
    /\ UNCHANGED <<late, calls>>

PresenceStep(c) ==
    /\ \/ RegisterSession(c) \/ KeyExpires(c) \/ CleanupStale(c)
       \/ \E i \in Instances : OldRegisters(c, i) \/ UnregisterSession(c, i)
    /\ UNCHANGED <<tables, at, copies, told, caches, task, channel, connects, faults>>

-----------------------------------------------------------------------------
(* Handle *)

Available(e) == e \in topic /\ (e = Change => changed)

\* The partition's consumer starts a goroutine for the record.
Consume(e, i) ==
    /\ Available(e) /\ task[e].st = "none"
    /\ task' = [task EXCEPT ![e].st = "resolve", ![e].on = i, ![e].times = @ + 1]
    /\ UNCHANGED <<tables, sessions, presence, caches, channel, connects, faults>>

\* Cache.SetMembers.
SetMembers(i, us) == /\ data' = [data EXCEPT ![i] = us]
                     /\ index' = [index EXCEPT ![i] = (@ \ data[i]) \cup us]

\* Cache.Add, which makes an entry where there is none, and Cache.Remove.
Add(i, u) == /\ data' = [data EXCEPT ![i] = @ \cup {u}]
             /\ index' = [index EXCEPT ![i] = @ \cup {u}]

Remove(i, us) == /\ data' = [data EXCEPT ![i] = @ \ us]
                 /\ index' = [index EXCEPT ![i] = @ \ us]

\* Cache.UserConvs: the conversation is among those of the user.
UserConvs(i, c) == c \in index[i]

\* Mutant of ResolvedMembers: nothing is fetched on a cache miss.
CachedMembers(cached) == cached

\* resolveMembers: the cached entry, or what GetConversation answers.
ResolvedMembers(cached) == IF cached # {} THEN cached ELSE members

\* Before routing: CONVERSATION_CREATED sets the members, an addition adds one.
\* A removal is done after routing.
PreRoute(e) ==
    LET i == task[e].on IN
    /\ task[e].st = "resolve"
    /\ CASE e = Created -> SetMembers(i, created)
         [] e = Change /\ Changing \notin created -> Add(i, Changing)
         [] OTHER -> UNCHANGED <<data, index>>
    /\ task' = [task EXCEPT ![e].st = IF data'[i] # {} THEN "deliver" ELSE "fetched",
                            ![e].todo = ResolvedMembers(data'[i])]
    /\ UNCHANGED <<tables, sessions, presence, channel, connects, faults>>

\* resolveMembers without a cached entry: what GetConversation answered is put
\* into the cache.
CacheFetched(e) ==
    /\ task[e].st = "fetched"
    /\ SetMembers(task[e].on, task[e].todo)
    /\ task' = [task EXCEPT ![e].st = "deliver"]
    /\ UNCHANGED <<tables, sessions, presence, channel, connects, faults>>

\* deliverToUser: GetUserDevices names the instance of the user's device.  If it
\* is this one the event goes to the session in the registry, if there is one;
\* another one is noted.
DeliverToUser(e, c) ==
    LET i == task[e].on IN
    /\ task[e].st = "deliver" /\ c \in task[e].todo
    /\ copies' = IF key[c] = i /\ at[c] = i THEN [copies EXCEPT ![c][e] = @ + 1] ELSE copies
    /\ task' = [task EXCEPT ![e].todo = @ \ {c},
                            ![e].remote = @ \cup ({key[c]} \ {i, NoInstance})]
    /\ UNCHANGED <<tables, at, late, told, presence, caches, channel, connects, faults>>

\* Mutant of Copies: an event is published for every user of the instance.
CopiesPerUser(e, j) == Cardinality({c \in Clients : at[c] = j})

\* Published to each remote instance only once.
Copies(e, j) == 1

\* handleMembershipPostRoute: the user that leaves the cache with the event.
Removed(e) == IF e = Change /\ Changing \in created THEN {Changing} ELSE {}

\* After all users: the event is published to the remote instances, and then a
\* removed user leaves the cache.
PublishRemote(e) ==
    /\ task[e].st = "deliver" /\ task[e].todo = {}
    /\ channel' = [j \in Instances |->
                      IF j \in task[e].remote
                      THEN [channel[j] EXCEPT ![e] = @ + Copies(e, j)]
                      ELSE channel[j]]
    /\ Remove(task[e].on, Removed(e))
    /\ task' = [task EXCEPT ![e].st = "done", ![e].remote = {}]
    /\ UNCHANGED <<tables, sessions, presence, connects, faults>>

\* Mutant of RemoteReceivers: every session of the instance.
EverySession(j, us) == {c \in Clients : at[c] = j}

\* The sessions DeliverRemote finds for the members.
RemoteReceivers(j, us) == {c \in us : at[c] = j}

\* DeliverRemote, on the instance that subscribed to the channel.  (What it
\* fetches it caches in the same step; CacheFetched has the step in between.)
DeliverRemote(j, e) ==
    LET us == ResolvedMembers(data[j])
        to == RemoteReceivers(j, us)
    IN /\ channel[j][e] > 0
       /\ channel' = [channel EXCEPT ![j][e] = @ - 1]
       /\ IF data[j] # {} THEN UNCHANGED <<data, index>> ELSE SetMembers(j, us)
       /\ copies' = [c \in Clients |-> IF c \in to THEN [copies[c] EXCEPT ![e] = @ + 1]
                                       ELSE copies[c]]
       /\ UNCHANGED <<tables, at, late, told, presence, task, connects, faults>>

\* handlePresenceUpdate: an update of the user's presence, which all instances
\* subscribe to, notifies the members of the user's conversations that are
\* connected here.  This is the message to one that told is about.
NotifySubscribers(i, c, u) ==
    /\ UserConvs(i, c) /\ u \in data[i] \ {c} /\ at[u] = i
    /\ u \notin created /\ told' = told \cup {u}
    /\ UNCHANGED <<tables, at, copies, late, presence, caches, task, channel, connects,
                   faults>>

-----------------------------------------------------------------------------
(* Failures *)

\* An instance crashes and starts again with an empty cache; its sessions tell
\* presence nothing any more, and their keys stay.  Of the events it
\* was handling some are consumed again, by whoever gets the partition, and
\* some are lost: their offsets were already committed.
Crash(i) ==
    /\ MayDisturb /\ faults' = faults + 1
    /\ at' = [c \in Clients |-> IF at[c] = i THEN NoInstance ELSE at[c]]
    /\ joining' = [c \in Clients |-> joining[c] /\ at[c] # i]
    /\ starting' = [c \in Clients |-> [starting[c] EXCEPT ![i] = 0]]
    /\ ending' = [c \in Clients |-> [ending[c] EXCEPT ![i] = 0]]
    /\ data' = [data EXCEPT ![i] = {}] /\ index' = [index EXCEPT ![i] = {}]
    /\ channel' = [channel EXCEPT ![i] = NoCopies]
    /\ \E again \in SUBSET {e \in KafkaEvents : task[e].on = i} :
          task' = [e \in KafkaEvents |->
                      IF e \in again THEN [NoTask EXCEPT !.times = task[e].times]
                      ELSE IF task[e].on = i
                           THEN [task[e] EXCEPT !.st = "done", !.todo = {}, !.remote = {}]
                           ELSE task[e]]
    /\ UNCHANGED <<tables, copies, late, told, key, stale, connects>>

\* GetConversation or the presence lookup fails, and the goroutine gives up.
HandleFails(e) ==
    /\ task[e].st \in {"fetched", "deliver"} /\ MayDisturb
    /\ faults' = faults + 1
    /\ \/ task[e].st = "fetched"
          /\ task' = [task EXCEPT ![e].st = "done", ![e].todo = {}]
       \/ task[e].st = "deliver"
          /\ \E c \in task[e].todo : task' = [task EXCEPT ![e].todo = @ \ {c}]
    /\ UNCHANGED <<tables, sessions, presence, caches, channel, connects>>

\* The forwarded event is lost: Publish fails, the connection to Redis is being
\* made again, or GetConversation fails on the instance that received it.
RemoteFails(j, e) ==
    /\ channel[j][e] > 0 /\ MayDisturb
    /\ faults' = faults + 1
    /\ channel' = [channel EXCEPT ![j][e] = @ - 1]
    /\ UNCHANGED <<tables, sessions, presence, caches, task, connects>>

-----------------------------------------------------------------------------
HandleStep(e) ==
    \/ PreRoute(e) \/ CacheFetched(e) \/ PublishRemote(e)
    \/ \E c \in Clients : DeliverToUser(e, c)

Next ==
    \/ ChangeMembership
    \/ \E c \in Clients : \/ \E i \in Instances : Connect(c, i)
                          \/ Leave(c) \/ PresenceStep(c)
    \/ \E e \in KafkaEvents : \/ \E i \in Instances : Consume(e, i)
                              \/ HandleStep(e) \/ HandleFails(e)
    \/ \E i \in Instances : \/ \E e \in KafkaEvents : DeliverRemote(i, e) \/ RemoteFails(i, e)
                            \/ \E c, u \in Clients : NotifySubscribers(i, c, u)
                            \/ Crash(i)

Spec == Init /\ [][Next]_vars
-----------------------------------------------------------------------------
(* Properties *)

Handled(e) == task[e].st = "done" /\ \A i \in Instances : channel[i][e] = 0

\* Nobody has been added.  An instance with an empty cache takes an added member
\* for the only one (handleMembershipPreRoute).
NoneAdded == ~changed \/ Changing \in created

\* A user that is a member all the time, and whose connection presence has had
\* since before an event was consumed, is sent the event, on whichever instances
\* the event, the members and their older sessions are, and while another member
\* is removed.
LiveMemberGetsEvent ==
    faults = 0 /\ NoneAdded =>
        \A c \in created \cap members, e \in topic :
            Handled(e) /\ key[c] = at[c] /\ at[c] # NoInstance /\ e \notin late[c]
                => copies[c][e] > 0

\* services/delivery/README.md: events go "to the correct, connected user
\* devices", so a member that is connected before an event is consumed, and has
\* called RegisterSession, is sent the event, whatever presence has made of it.
ConnectedMemberGetsEvent ==
    faults = 0 /\ NoneAdded =>
        \A c \in created \cap members, e \in topic :
            Handled(e) /\ at[c] # NoInstance /\ ~joining[c] /\ e \notin late[c]
                => copies[c][e] > 0

\* A connection is sent no event more often than the event was consumed, however
\* the members are spread over the instances, and wherever they move.
OncePerConsumption ==
    \A c \in Clients, e \in KafkaEvents : copies[c][e] <= task[e].times

\* A user that was not yet added to the conversation is sent nothing of it, not
\* even the presence of its members.
OutsiderGetsNothing ==
    \A c \in Clients \ (created \cup members) : copies[c] = NoCopies /\ c \notin told

=============================================================================
