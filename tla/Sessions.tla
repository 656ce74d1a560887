------------------------------ MODULE Sessions ------------------------------
(***************************************************************************)
(* The WebSocket sessions of one user on the instances of the delivery     *)
(* service: the registry of each instance, the life of a session from      *)
(* ServeHTTP to the end of its read loop, its heartbeat, and the calls it  *)
(* makes to the presence service.  Every connection is a session of its    *)
(* own; a device that connects again gets the next one.                    *)
(***************************************************************************)
EXTENDS Presence, Naturals, FiniteSets

CONSTANTS Session,    \* connections that may be made
          Lookups,    \* GetUserDevices and GetPresence calls of others
          MaxFaults,  \* bound on crashes, shutdowns and failed calls
          NoSession   \* no entry in the registry

ASSUME SessionsAssumption ==
    /\ NoSession \notin Session /\ MaxFaults \in Nat
    /\ Callers = Session \cup Lookups /\ Session \cap Lookups = {}

VARIABLES
    registry,    \* Registry.sessions of each instance
    pc,          \* where ServeHTTP and the read loop of a session are
    device, instance,
    closed,      \* Session.closed
    stopping,    \* instances that shut down
    faults

sessionVars == <<registry, pc, device, instance, closed, stopping, faults>>
vars        == <<presenceVars, sessionVars>>

TypeOK ==
    /\ PresenceTypeOK
    /\ registry \in [Instances -> [Devices -> Session \cup {NoSession}]]
    /\ pc \in [Session -> {"none", "added", "registered", "open", "left", "members",
                           "keys", "ended"}]
    /\ device \in [Session -> Devices] /\ instance \in [Session -> Instances]
    /\ closed \subseteq Session /\ stopping \subseteq Instances
    /\ faults \in 0 .. MaxFaults

Init ==
    /\ PresenceInit
    /\ registry = [i \in Instances |-> [d \in Devices |-> NoSession]]
    /\ pc = [s \in Session |-> "none"]
    /\ device \in [Session -> Devices] /\ instance \in [Session -> Instances]
    /\ closed = {} /\ stopping = {} /\ faults = 0

-----------------------------------------------------------------------------
(* ServeHTTP *)

\* The session that Add closes with "session_replaced".
Replaced(s) == {registry[instance[s]][device[s]]} \ {NoSession}

\* The connection is upgraded and the session added to the registry.
Connect(s) ==
    /\ pc[s] = "none" /\ instance[s] \notin stopping
    /\ pc' = [pc EXCEPT ![s] = "added"]
    /\ closed' = closed \cup Replaced(s)
    /\ registry' = [registry EXCEPT ![instance[s]][device[s]] = s]
    /\ UNCHANGED <<presenceVars, device, instance, stopping, faults>>

RegisterSession(s) ==
    /\ pc[s] = "added"
    /\ Register(device[s], instance[s])
    /\ pc' = [pc EXCEPT ![s] = "registered"]
    /\ UNCHANGED <<registry, device, instance, closed, stopping, faults>>

\* The end of Register, and of ServeHTTP, which starts the heartbeat, the write
\* loop and the read loop.
PublishOnline(s) ==
    /\ pc[s] = "registered"
    /\ PublishUpdate("ONLINE")
    /\ pc' = [pc EXCEPT ![s] = "open"]
    /\ UNCHANGED <<registry, device, instance, closed, stopping, faults>>

-----------------------------------------------------------------------------
(* The end of the read loop *)

\* Mutant of RemoveFromRegistry: whatever session the device has is removed.
RemoveAny(s) == [registry EXCEPT ![instance[s]][device[s]] = NoSession]

\* Remove: only if the entry is still this session.
RemoveFromRegistry(s) ==
    IF registry[instance[s]][device[s]] = s
    THEN [registry EXCEPT ![instance[s]][device[s]] = NoSession]
    ELSE registry

\* ReadMessage fails, because the session was closed or its client is gone:
\* the session leaves the registry and is closed.
ReadLoopEnds(s) ==
    /\ pc[s] = "open"
    /\ pc' = [pc EXCEPT ![s] = "left"]
    /\ registry' = RemoveFromRegistry(s)
    /\ closed' = closed \cup {s}
    /\ UNCHANGED <<presenceVars, device, instance, stopping, faults>>

\* UnregisterSession of the device, also if it has a newer session.
UnregisterSession(s) ==
    /\ pc[s] = "left"
    /\ Unregister(device[s])
    /\ pc' = [pc EXCEPT ![s] = "members"]
    /\ UNCHANGED <<registry, device, instance, closed, stopping, faults>>

\* Unregister asks for the devices that are left ...
CountMembers(s) ==
    /\ pc[s] = "members"
    /\ GetMembers(s)
    /\ pc' = [pc EXCEPT ![s] = "keys"]
    /\ UNCHANGED <<registry, device, instance, closed, stopping, faults>>

\* Mutant of NoneLeft: the device itself is expected to be there still.
OnlyOwnLeft(s) == Online(s) = {device[s]}

NoneLeft(s) == Online(s) = {}

\* ... and publishes OFFLINE if there is none.
PublishOffline(s) ==
    /\ pc[s] = "keys"
    /\ GetKeys(s)
    /\ status' = IF NoneLeft(s) THEN "OFFLINE" ELSE status
    /\ pc' = [pc EXCEPT ![s] = "ended"]
    /\ UNCHANGED <<registry, device, instance, closed, stopping, faults>>

-----------------------------------------------------------------------------
(* Failures *)

\* A call to the presence service fails, or only its update is not published: it
\* is logged, and the session goes on.
PresenceCallFails(s) ==
    /\ faults < MaxFaults /\ faults' = faults + 1
    /\ \/ pc[s] \in {"added", "registered"} /\ pc' = [pc EXCEPT ![s] = "open"]
       \/ pc[s] = "left" /\ pc' = [pc EXCEPT ![s] = "ended"]
    /\ UNCHANGED <<presenceVars, registry, device, instance, closed, stopping>>

\* GetUserDevices fails in Unregister, which then publishes OFFLINE.
CountFails(s) ==
    /\ faults < MaxFaults /\ faults' = faults + 1
    /\ pc[s] \in {"members", "keys"} /\ pc' = [pc EXCEPT ![s] = "ended"]
    /\ status' = "OFFLINE" /\ members' = [members EXCEPT ![s] = {}]
    /\ UNCHANGED <<session_key, devices, cleanup, registry, device, instance, closed,
                   stopping>>

\* Graceful shutdown, CloseAll: no new connections, and every registered
\* session is closed.
CloseAll(i) ==
    /\ i \notin stopping /\ faults < MaxFaults
    /\ stopping' = stopping \cup {i} /\ faults' = faults + 1
    /\ closed' = closed \cup ({registry[i][d] : d \in Devices} \ {NoSession})
    /\ UNCHANGED <<presenceVars, registry, pc, device, instance>>

\* The process ends, after a shutdown or by a crash, and is started again.
Exit(i) ==
    /\ i \in stopping \/ faults < MaxFaults
    /\ faults' = IF i \in stopping THEN faults ELSE faults + 1
    /\ stopping' = stopping \ {i}
    /\ registry' = [registry EXCEPT ![i] = [d \in Devices |-> NoSession]]
    /\ LET lost == {s \in Session : instance[s] = i /\ pc[s] # "none"} IN
       /\ pc' = [s \in Session |-> IF s \in lost THEN "ended" ELSE pc[s]]
       /\ closed' = closed \cup lost
    /\ UNCHANGED <<presenceVars, device, instance>>

\* Mutant of Heartbeat: the ticker is not stopped when the session is done.
HeartbeatForever(s) == pc[s] \in {"registered", "open", "left", "members", "keys", "ended"}

\* Session s keeps the key of its device alive, if the key still exists.
Heartbeat(s) == pc[s] \in {"registered", "open"} /\ s \notin closed

\* A key that no heartbeat refreshes expires.
Expire(d) ==
    /\ \A s \in Session : device[s] = d => ~Heartbeat(s)
    /\ ExpireKey(d)
    /\ UNCHANGED sessionVars

\* GetUserDevices for the dispatcher of some instance, or GetPresence.
GetUserDevices(l) ==
    /\ \/ members[l] = {} /\ devices # {} /\ GetMembers(l)
       \/ members[l] # {} /\ GetKeys(l) /\ UNCHANGED status
    /\ UNCHANGED sessionVars

Cleanup(c) == CleanupStale(c) /\ UNCHANGED sessionVars

-----------------------------------------------------------------------------
SessionStep(s) ==
    \/ RegisterSession(s) \/ PublishOnline(s)
    \/ UnregisterSession(s) \/ CountMembers(s) \/ PublishOffline(s)

Next ==
    \/ \E s \in Session : Connect(s) \/ SessionStep(s) \/ ReadLoopEnds(s)
                          \/ PresenceCallFails(s) \/ CountFails(s)
    \/ \E i \in Instances : CloseAll(i) \/ Exit(i)
    \/ \E d \in Devices : Expire(d)
    \/ \E l \in Lookups : GetUserDevices(l)
    \/ \E c \in Callers : Cleanup(c)

Spec == Init /\ [][Next]_vars

\* Calls that began go on, keys expire, and a session that was closed (or whose
\* client is silent for a minute: the read deadline) ends its read loop.
FairSpec ==
    /\ Spec
    /\ \A s \in Session : WF_vars(SessionStep(s))
                          /\ WF_vars(s \in closed /\ ReadLoopEnds(s))
    /\ \A d \in Devices : WF_vars(Expire(d))
-----------------------------------------------------------------------------
(* Properties *)

Live(s) == pc[s] \notin {"none", "ended"} /\ s \notin closed

\* A device has at most one connection on an instance, and its events find it:
\* the registry has the session from Connect until it is closed, whatever the
\* read loops of the sessions it replaced do later.
LiveSessionIsRegistered ==
    \A s \in Session : Live(s) => registry[instance[s]][device[s]] = s

\* When all sessions have ended in order, their contacts are told: no key is
\* left, and the last update is OFFLINE, however the calls of the sessions
\* interleaved.
OfflineAtTheEnd ==
    (\A s \in Session : pc[s] = "ended") /\ faults = 0
        => status = "OFFLINE" /\ \A d \in Devices : session_key[d] = NoInstance

\* A device whose connections are all gone is not taken for connected for ever,
\* even if the instance crashed before it could unregister it.
NoGhostDevice ==
    \A d \in Devices :
        (\A s \in Session : device[s] = d => ~Live(s))
            ~> \/ session_key[d] = NoInstance
               \/ \E s \in Session : device[s] = d /\ Live(s)

\* services/presence/README.md: device sets and session keys "stay strictly
\* synchronized".  While no call is in progress, a device that is connected can
\* be found.
ConnectedIsPresent ==
    (faults = 0 /\ \A s \in Session : pc[s] \in {"none", "open", "ended"}) =>
        \A s \in Session : Live(s) =>
            device[s] \in devices /\ session_key[device[s]] # NoInstance
=============================================================================
