----------------------------- MODULE EdgeProofs -----------------------------
(***************************************************************************)
(* Proofs about the two ways into the system: WebSocket connections        *)
(* (Sessions), for any number of connections, devices, instances, lookups  *)
(* and faults, and HTTP requests (Gateway), for any number of operations   *)
(* and requests and any rate limit.                                        *)
(***************************************************************************)
EXTENDS Sessions, Gateway, TLAPS

-----------------------------------------------------------------------------
(* Types *)

\* Every step keeps the variables in their types.
LEMMA TypeStep ==
    ASSUME TypeOK, [Next]_vars
    PROVE  TypeOK'
  <1> USE SessionsAssumption DEF PresenceTypeOK
  <1>1. ASSUME NEW s \in Session, Connect(s)
        PROVE  TypeOK'
    BY <1>1 DEF Connect, Replaced, TypeOK, presenceVars
  <1>2. ASSUME NEW s \in Session, RegisterSession(s) \/ PublishOnline(s)
        PROVE  TypeOK'
    <2>1. device[s] \in Devices /\ instance[s] \in Instances
      BY DEF TypeOK
    <2>2. CASE RegisterSession(s)
      BY <2>1, <2>2 DEF RegisterSession, Register, TypeOK
    <2>3. CASE PublishOnline(s)
      BY <2>3 DEF PublishOnline, PublishUpdate, TypeOK
    <2> QED BY <1>2, <2>2, <2>3
  <1>3. ASSUME NEW s \in Session, ReadLoopEnds(s)
        PROVE  TypeOK'
    BY <1>3 DEF ReadLoopEnds, RemoveFromRegistry, TypeOK, presenceVars
  <1>4. ASSUME NEW s \in Session, UnregisterSession(s) \/ CountMembers(s)
        PROVE  TypeOK'
    BY <1>4 DEF UnregisterSession, Unregister, CountMembers, GetMembers, TypeOK
  <1>5. ASSUME NEW s \in Session, PublishOffline(s)
        PROVE  TypeOK'
    BY <1>5 DEF PublishOffline, GetKeys, Online, TypeOK
  <1>6. ASSUME NEW s \in Session, PresenceCallFails(s) \/ CountFails(s)
        PROVE  TypeOK'
    <2>1. faults' = faults + 1 /\ faults < MaxFaults
      BY <1>6 DEF PresenceCallFails, CountFails
    <2>2. faults' \in 0 .. MaxFaults
      BY <2>1 DEF TypeOK
    <2>3. CASE PresenceCallFails(s)
      BY <2>2, <2>3 DEF PresenceCallFails, TypeOK, presenceVars
    <2>4. CASE CountFails(s)
      BY <2>2, <2>4 DEF CountFails, TypeOK
    <2> QED BY <1>6, <2>3, <2>4
  <1>7. ASSUME NEW i \in Instances, CloseAll(i)
        PROVE  TypeOK'
    BY <1>7 DEF CloseAll, TypeOK, presenceVars
  <1>8. ASSUME NEW i \in Instances, Exit(i)
        PROVE  TypeOK'
    BY <1>8 DEF Exit, TypeOK, presenceVars
  <1>9. ASSUME NEW d \in Devices, Expire(d)
        PROVE  TypeOK'
    BY <1>9 DEF Expire, ExpireKey, TypeOK, sessionVars
  <1>10. ASSUME NEW l \in Lookups, GetUserDevices(l)
         PROVE  TypeOK'
    <2>1. l \in Callers
      OBVIOUS
    <2>2. CASE GetMembers(l)
      BY <1>10, <2>1, <2>2 DEF GetUserDevices, GetMembers, TypeOK, sessionVars
    <2>3. CASE GetKeys(l) /\ UNCHANGED status
      BY <1>10, <2>1, <2>3 DEF GetUserDevices, GetKeys, Online, TypeOK, sessionVars
    <2> QED BY <1>10, <2>2, <2>3 DEF GetUserDevices
  <1>11. ASSUME NEW c \in Callers, Cleanup(c)
         PROVE  TypeOK'
    BY <1>11 DEF Cleanup, CleanupStale, TypeOK, sessionVars
  <1>12. CASE UNCHANGED vars
    BY <1>12 DEF vars, presenceVars, sessionVars, TypeOK
  <1> QED BY <1>1, <1>2, <1>3, <1>4, <1>5, <1>6, <1>7, <1>8, <1>9, <1>10, <1>11, <1>12
          DEF Next, SessionStep

\* The type invariant holds in every reachable state.
THEOREM TypeCorrect == Spec => []TypeOK
  <1>1. Init => TypeOK
    BY SessionsAssumption DEF Init, PresenceInit, TypeOK, PresenceTypeOK
  <1>2. TypeOK /\ [Next]_vars => TypeOK'
    BY TypeStep
  <1> QED BY <1>1, <1>2, PTL DEF Spec

-----------------------------------------------------------------------------
(* The registry *)

\* Add closes the session it replaces, and Remove leaves the entry of another
\* session alone.
LEMMA RegistryStep ==
    ASSUME TypeOK, LiveSessionIsRegistered, [Next]_vars
    PROVE  LiveSessionIsRegistered'
  <1> USE SessionsAssumption DEF Live
  <1>1. ASSUME NEW s \in Session, Connect(s)
        PROVE  LiveSessionIsRegistered'
    <2>1. /\ pc[s] = "none" /\ pc' = [pc EXCEPT ![s] = "added"]
          /\ closed' = closed \cup Replaced(s)
          /\ registry' = [registry EXCEPT ![instance[s]][device[s]] = s]
          /\ UNCHANGED <<device, instance>>
      BY <1>1 DEF Connect
    <2>2. ASSUME NEW t \in Session, Live(t)'
          PROVE  registry'[instance[t]][device[t]] = t
      <3>1. instance[s] \in Instances /\ device[s] \in Devices
            /\ instance[t] \in Instances /\ device[t] \in Devices
        BY DEF TypeOK
      <3>2. CASE t = s
        BY <2>1, <3>1, <3>2 DEF TypeOK
      <3>3. CASE t # s
        <4>1. Live(t) /\ t \notin Replaced(s)
          BY <2>1, <2>2, <3>3 DEF TypeOK
        <4>2. registry[instance[t]][device[t]] = t
          BY <4>1 DEF LiveSessionIsRegistered
        <4>3. ~(instance[t] = instance[s] /\ device[t] = device[s])
          BY <4>1, <4>2 DEF Replaced
        <4> QED BY <2>1, <3>1, <4>2, <4>3 DEF TypeOK
      <3> QED BY <3>2, <3>3
    <2> QED BY <2>1, <2>2 DEF LiveSessionIsRegistered
  <1>2. ASSUME NEW s \in Session, ReadLoopEnds(s)
        PROVE  LiveSessionIsRegistered'
    <2>1. /\ pc' = [pc EXCEPT ![s] = "left"] /\ closed' = closed \cup {s}
          /\ registry' = RemoveFromRegistry(s) /\ UNCHANGED <<device, instance>>
      BY <1>2 DEF ReadLoopEnds
    <2>2. ASSUME NEW t \in Session, Live(t)'
          PROVE  registry'[instance[t]][device[t]] = t
      <3>1. t # s /\ Live(t)
        BY <2>1, <2>2 DEF TypeOK
      <3>2. registry[instance[t]][device[t]] = t
        BY <3>1 DEF LiveSessionIsRegistered
      <3>3. instance[s] \in Instances /\ device[s] \in Devices
            /\ instance[t] \in Instances /\ device[t] \in Devices
        BY DEF TypeOK
      <3> QED BY <2>1, <3>1, <3>2, <3>3 DEF RemoveFromRegistry, TypeOK
    <2> QED BY <2>1, <2>2 DEF LiveSessionIsRegistered
  <1>3. ASSUME NEW i \in Instances, Exit(i)
        PROVE  LiveSessionIsRegistered'
    <2>1. /\ registry' = [registry EXCEPT ![i] = [d \in Devices |-> NoSession]]
          /\ UNCHANGED <<device, instance>> /\ closed \subseteq closed'
          /\ pc' = [s \in Session |-> IF instance[s] = i /\ pc[s] # "none"
                                      THEN "ended" ELSE pc[s]]
      BY <1>3 DEF Exit
    <2>2. ASSUME NEW t \in Session, Live(t)'
          PROVE  registry'[instance[t]][device[t]] = t
      <3>1. Live(t) /\ instance[t] # i
        BY <2>1, <2>2
      <3> QED BY <2>1, <3>1 DEF LiveSessionIsRegistered, TypeOK
    <2> QED BY <2>1, <2>2 DEF LiveSessionIsRegistered
  <1>4. ASSUME UNCHANGED <<registry, device, instance>>, closed \subseteq closed',
               \A s \in Session : pc'[s] \notin {"none", "ended"}
                                     => pc[s] \notin {"none", "ended"}
        PROVE  LiveSessionIsRegistered'
    BY <1>4 DEF LiveSessionIsRegistered
  <1>5. ASSUME NEW s \in Session, SessionStep(s) \/ PresenceCallFails(s) \/ CountFails(s)
        PROVE  LiveSessionIsRegistered'
    <2>1. /\ UNCHANGED <<registry, device, instance, closed>>
          /\ \A t \in Session : pc'[t] \notin {"none", "ended"}
                                   => pc[t] \notin {"none", "ended"}
      BY <1>5 DEF SessionStep, RegisterSession, PublishOnline, UnregisterSession,
         CountMembers, PublishOffline, PresenceCallFails, CountFails, TypeOK
    <2> QED BY <1>4, <2>1
  <1>6. ASSUME UNCHANGED <<registry, device, instance, pc>>, closed \subseteq closed'
        PROVE  LiveSessionIsRegistered'
    BY <1>4, <1>6
  <1>7. ASSUME NEW i \in Instances, CloseAll(i)
        PROVE  LiveSessionIsRegistered'
    BY <1>6, <1>7 DEF CloseAll
  <1>8. CASE UNCHANGED sessionVars
    BY <1>6, <1>8 DEF sessionVars
  <1> QED BY <1>1, <1>2, <1>3, <1>5, <1>7, <1>8
          DEF Next, Expire, GetUserDevices, Cleanup, vars

\* For any number of connections and instances: a session that is not closed is
\* the one the registry of its instance has for its device.
THEOREM LiveSessionIsRegisteredCorrect == Spec => []LiveSessionIsRegistered
  <1>1. Init => LiveSessionIsRegistered
    BY DEF Init, LiveSessionIsRegistered, Live
  <1>2. TypeOK /\ LiveSessionIsRegistered /\ [Next]_vars => LiveSessionIsRegistered'
    BY RegistryStep
  <1> QED BY <1>1, <1>2, TypeCorrect, PTL DEF Spec

-----------------------------------------------------------------------------
(* The end of the sessions *)

\* Session s has set the key of its device, and will delete it.
WillUnregister(s) == pc[s] \in {"registered", "open", "left"}

\* Session s will still count the devices that are left.
WillCount(s) == WillUnregister(s) \/ pc[s] \in {"members", "keys"}

\* As long as nothing fails: a key has a session that will delete it, and an
\* ONLINE a session that will count.
CleanInv ==
    faults = 0 =>
        /\ stopping = {}
        /\ \A d \in Devices : session_key[d] # NoInstance
              => \E s \in Session : device[s] = d /\ WillUnregister(s)
        /\ status = "ONLINE" => \E s \in Session : WillCount(s)

\* The session that counts last finds no key, because a key it finds has a
\* session that counts later.
LEMMA CleanStep ==
    ASSUME TypeOK, CleanInv, [Next]_vars
    PROVE  CleanInv'
  <1> USE DEF WillUnregister, WillCount
  <1>0. SUFFICES ASSUME faults' = 0, faults = 0
                 PROVE  CleanInv'
    <2>1. faults \in Nat
      BY SessionsAssumption DEF TypeOK
    <2>2. CASE faults' = faults \/ faults' = faults + 1
      BY <2>1, <2>2 DEF CleanInv
    <2>3. ASSUME NEW s \in Session, Connect(s) \/ SessionStep(s) \/ ReadLoopEnds(s)
          PROVE  faults' = faults
      BY <2>3 DEF Connect, SessionStep, RegisterSession, PublishOnline,
         UnregisterSession, CountMembers, PublishOffline, ReadLoopEnds
    <2>4. ASSUME NEW s \in Session, PresenceCallFails(s) \/ CountFails(s)
          PROVE  faults' = faults + 1
      BY <2>4 DEF PresenceCallFails, CountFails
    <2>5. ASSUME NEW i \in Instances, CloseAll(i) \/ Exit(i)
          PROVE  faults' = faults \/ faults' = faults + 1
      BY <2>5 DEF CloseAll, Exit
    <2>6. CASE UNCHANGED sessionVars
      BY <2>2, <2>6 DEF sessionVars
    <2> QED BY <2>2, <2>3, <2>4, <2>5, <2>6
            DEF Next, Expire, GetUserDevices, Cleanup, vars
  <1>1. /\ stopping = {} /\ faults \in Nat
        /\ \A d \in Devices : session_key[d] # NoInstance
              => \E s \in Session : device[s] = d /\ WillUnregister(s)
        /\ status = "ONLINE" => \E s \in Session : WillCount(s)
    BY <1>0, SessionsAssumption DEF CleanInv, TypeOK
  <1>2. ASSUME NEW s \in Session, Connect(s)
        PROVE  CleanInv'
    <2>1. /\ UNCHANGED <<session_key, status, device, stopping>>
          /\ \A t \in Session : WillUnregister(t)' <=> WillUnregister(t)
          /\ \A t \in Session : WillCount(t)' <=> WillCount(t)
      BY <1>2 DEF Connect, presenceVars, TypeOK
    <2> QED BY <1>1, <2>1 DEF CleanInv
  <1>3. ASSUME NEW s \in Session, RegisterSession(s)
        PROVE  CleanInv'
    <2>1. /\ UNCHANGED <<status, device, stopping>> /\ WillUnregister(s)'
          /\ \A t \in Session : WillUnregister(t) => WillUnregister(t)'
          /\ \A t \in Session : WillCount(t) => WillCount(t)'
          /\ \A d \in Devices \ {device[s]} : session_key'[d] = session_key[d]
      BY <1>3 DEF RegisterSession, Register, TypeOK, PresenceTypeOK
    <2> QED BY <1>1, <2>1 DEF CleanInv
  <1>4. ASSUME NEW s \in Session, PublishOnline(s)
        PROVE  CleanInv'
    <2>1. /\ UNCHANGED <<session_key, device, stopping>> /\ WillCount(s)'
          /\ \A t \in Session : WillUnregister(t) => WillUnregister(t)'
      BY <1>4 DEF PublishOnline, PublishUpdate, TypeOK
    <2> QED BY <1>1, <2>1 DEF CleanInv
  <1>5. ASSUME NEW s \in Session, ReadLoopEnds(s)
        PROVE  CleanInv'
    <2>1. /\ UNCHANGED <<session_key, status, device, stopping>>
          /\ \A t \in Session : WillUnregister(t) => WillUnregister(t)'
          /\ \A t \in Session : WillCount(t) => WillCount(t)'
      BY <1>5 DEF ReadLoopEnds, presenceVars, TypeOK
    <2> QED BY <1>1, <2>1 DEF CleanInv
  <1>6. ASSUME NEW s \in Session, UnregisterSession(s)
        PROVE  CleanInv'
    <2>1. /\ UNCHANGED <<status, device, stopping>>
          /\ \A t \in Session \ {s} : WillUnregister(t) => WillUnregister(t)'
          /\ \A t \in Session : WillCount(t) => WillCount(t)'
          /\ \A d \in Devices : session_key'[d] # NoInstance
                => session_key[d] # NoInstance /\ d # device[s]
      BY <1>6 DEF UnregisterSession, Unregister, TypeOK, PresenceTypeOK
    <2> QED BY <1>1, <2>1 DEF CleanInv
  <1>7. ASSUME NEW s \in Session, CountMembers(s)
        PROVE  CleanInv'
    <2>1. /\ UNCHANGED <<session_key, status, device, stopping>>
          /\ \A t \in Session : WillUnregister(t) => WillUnregister(t)'
          /\ \A t \in Session : WillCount(t) => WillCount(t)'
      BY <1>7 DEF CountMembers, GetMembers, TypeOK
    <2> QED BY <1>1, <2>1 DEF CleanInv
  <1>8. ASSUME NEW s \in Session, PublishOffline(s)
        PROVE  CleanInv'
    <2>1. /\ UNCHANGED <<session_key, device, stopping>> /\ pc[s] = "keys"
          /\ \A t \in Session : WillUnregister(t) => WillUnregister(t)'
          /\ status' = IF Online(s) = {} THEN "OFFLINE" ELSE status
      BY <1>8 DEF PublishOffline, NoneLeft, GetKeys, TypeOK
    <2>2. ASSUME status' = "ONLINE"
          PROVE  \E t \in Session : WillCount(t)'
      <3>1. PICK d \in Online(s) : TRUE
        BY <2>1, <2>2
      <3>2. d \in Devices /\ session_key[d] # NoInstance
        BY <3>1, SessionsAssumption DEF Online, TypeOK, PresenceTypeOK
      <3>3. PICK t \in Session : WillUnregister(t)
        BY <1>1, <3>2
      <3> QED BY <2>1, <3>3
    <2> QED BY <1>1, <2>1, <2>2 DEF CleanInv
  <1>9. ASSUME NEW s \in Session, PresenceCallFails(s) \/ CountFails(s)
        PROVE  FALSE
    BY <1>0, <1>9 DEF PresenceCallFails, CountFails
  <1>10. ASSUME NEW i \in Instances, CloseAll(i) \/ Exit(i)
         PROVE  FALSE
    BY <1>0, <1>1, <1>10 DEF CloseAll, Exit
  <1>11. ASSUME UNCHANGED <<pc, device, stopping, status>>,
                \A d \in Devices : session_key'[d] # NoInstance
                                      => session_key[d] # NoInstance
         PROVE  CleanInv'
    BY <1>1, <1>11 DEF CleanInv
  <1>12. ASSUME NEW d \in Devices, Expire(d)
         PROVE  CleanInv'
    <2>1. /\ UNCHANGED <<pc, device, stopping, status>>
          /\ \A e \in Devices : session_key'[e] # NoInstance => session_key[e] # NoInstance
      BY <1>12 DEF Expire, ExpireKey, sessionVars, TypeOK, PresenceTypeOK
    <2> QED BY <1>11, <2>1
  <1>13. CASE UNCHANGED <<pc, device, stopping, status, session_key>>
    BY <1>11, <1>13
  <1>14. ASSUME NEW l \in Lookups, GetUserDevices(l)
         PROVE  CleanInv'
    BY <1>13, <1>14 DEF GetUserDevices, GetMembers, GetKeys, sessionVars
  <1>15. ASSUME NEW c \in Callers, Cleanup(c)
         PROVE  CleanInv'
    BY <1>13, <1>15 DEF Cleanup, CleanupStale, sessionVars
  <1>16. CASE UNCHANGED vars
    BY <1>13, <1>16 DEF vars, presenceVars, sessionVars
  <1> QED BY <1>2, <1>3, <1>4, <1>5, <1>6, <1>7, <1>8, <1>9, <1>10, <1>12, <1>14,
             <1>15, <1>16
          DEF Next, SessionStep

\* For any number of sessions, devices and instances, and any interleaving of
\* their calls: when all have ended and nothing failed, no session key is left
\* and the last update says OFFLINE.
THEOREM OfflineAtTheEndCorrect == Spec => []OfflineAtTheEnd
  <1>1. Init => CleanInv
    BY DEF Init, PresenceInit, CleanInv
  <1>2. TypeOK /\ CleanInv /\ [Next]_vars => CleanInv'
    BY CleanStep
  <1>3. TypeOK /\ CleanInv => OfflineAtTheEnd
    BY DEF TypeOK, PresenceTypeOK, CleanInv, OfflineAtTheEnd, WillUnregister, WillCount
  <1> QED BY <1>1, <1>2, <1>3, TypeCorrect, PTL DEF Spec

-----------------------------------------------------------------------------
(* The gateway *)

\* What a handler answers, and what becomes of a second call, on every route.
LEMMA RouteFields ==
    ASSUME NEW r \in Routes
    PROVE  /\ Route[r].ok \in Nat
           /\ Route[r].repeat \in {"new", "same", "key", "conflict", "read"}
  <1>1. r \in {"Login", "Register", "Refresh", "Logout", "GetProfile", "UpdateProfile",
               "CreateConversation", "ListConversations", "GetConversation",
               "AddParticipant", "RemoveParticipant", "ReadReceipt", "SendMessage",
               "SyncMessages", "DeleteMessage", "GetPresence"}
    BY DEF Routes, Route
  <1>2. Route[r] \in {Login, RegisterUser, Refresh, Logout,
               GetProfile, UpdateProfile, CreateConversation,
               ListConversations, GetConversation, AddParticipant,
               RemoveParticipant, ReadReceipt, SendMessage,
               SyncMessages, DeleteMessage, GetPresence}
    BY <1>1 DEF Route
  <1> DEFINE Good(h) == /\ h.ok \in Nat
                        /\ h.repeat \in {"new", "same", "key", "conflict", "read"}
  <1>3. Good(Login) /\ Good(RegisterUser) /\ Good(Refresh) /\ Good(Logout)
    BY DEF Handler, WithNames, Login, RegisterUser, Refresh, Logout
  <1>4. Good(GetProfile) /\ Good(UpdateProfile) /\ Good(GetPresence)
    BY DEF Handler, WithNames, GetProfile, UpdateProfile, GetPresence
  <1>5. /\ Good(CreateConversation) /\ Good(ListConversations)
        /\ Good(GetConversation)
    BY DEF Handler, WithNames, CreateConversation, ListConversations, GetConversation
  <1>6. /\ Good(AddParticipant) /\ Good(RemoveParticipant)
        /\ Good(ReadReceipt)
    BY DEF Handler, WithNames, AddParticipant, RemoveParticipant, ReadReceipt
  <1>7. Good(SendMessage) /\ Good(SyncMessages) /\ Good(DeleteMessage)
    BY DEF Handler, WithNames, SendMessage, SyncMessages, DeleteMessage
  <1>8. Good(Route[r])
    <2> HIDE DEF Good
    <2> QED BY <1>2, <1>3, <1>4, <1>5, <1>6, <1>7
  <1> QED BY <1>8

-----------------------------------------------------------------------------
Pc == {"none", "calling", "names", "answered", "gone"}

\* The types of what the steps of a request work on.
RequestTypes ==
    /\ ask \in [Operations -> [route : Routes, good : BOOLEAN, token : BOOLEAN,
                               own : BOOLEAN]]
    /\ http \in [Operations -> [Attempts -> [pc : Pc, status : Nat]]]
    /\ rpc \in [Operations -> [Attempts -> {"none", "sent", "applied"} \cup Codes]]
    /\ applied \in [Operations -> SUBSET (Attempts \cup {0})]

Repeat(o) == HandlerOf(o).repeat

\* A handler that answers with success, or is about to, has had the answer of its
\* service, and the service has done its work before it answered.
SuccessInv ==
    \A o \in Operations, n \in Attempts :
        /\ rpc[o][n] = "applied" /\ Repeat(o) # "read" => applied[o] # {}
        /\ http[o][n].pc = "names" => rpc[o][n] = "applied"
        /\ http[o][n].pc = "answered" /\ http[o][n].status \in 200 .. 299
              => rpc[o][n] = "applied"

GateInv == RequestTypes /\ SuccessInv

\* No code becomes a status of success.
LEMMA NoErrorIsSuccess ==
    ASSUME NEW code
    PROVE  StatusOf(code) \in Nat /\ StatusOf(code) \notin 200 .. 299
  BY DEF StatusOf

\* A step that changes one request: x is its new state, y that of its call.
LEMMA OneRequest ==
    ASSUME GateInv, NEW o \in Operations, NEW n \in Attempts, NEW x, NEW y,
           http' = [http EXCEPT ![o][n] = x], rpc' = [rpc EXCEPT ![o][n] = y],
           UNCHANGED <<ask, applied>>,
           x \in [pc : Pc, status : Nat], y \in {"none", "sent", "applied"} \cup Codes,
           y = "applied" /\ Repeat(o) # "read" => applied[o] # {},
           x.pc = "names" => y = "applied",
           x.pc = "answered" /\ x.status \in 200 .. 299 => y = "applied"
    PROVE  GateInv'
  <1>1. http \in [Operations -> [Attempts -> [pc : Pc, status : Nat]]]
        /\ rpc \in [Operations -> [Attempts -> {"none", "sent", "applied"} \cup Codes]]
    BY DEF GateInv, RequestTypes
  <1>2. http' \in [Operations -> [Attempts -> [pc : Pc, status : Nat]]]
        /\ rpc' \in [Operations -> [Attempts -> {"none", "sent", "applied"} \cup Codes]]
    BY <1>1
  <1>3. RequestTypes'
    BY <1>2 DEF GateInv, RequestTypes
  <1>4. \A q \in Operations : Repeat(q)' = Repeat(q)
    BY DEF Repeat, HandlerOf
  <1>5. http'[o][n] = x /\ rpc'[o][n] = y
    BY <1>1
  <1>6. \A q \in Operations, m \in Attempts :
           q # o \/ m # n => http'[q][m] = http[q][m] /\ rpc'[q][m] = rpc[q][m]
    BY <1>1
  <1>7. ASSUME NEW q \in Operations, NEW m \in Attempts
        PROVE  /\ rpc'[q][m] = "applied" /\ Repeat(q) # "read" => applied[q] # {}
               /\ http'[q][m].pc = "names" => rpc'[q][m] = "applied"
               /\ http'[q][m].pc = "answered" /\ http'[q][m].status \in 200 .. 299
                     => rpc'[q][m] = "applied"
    <2>1. CASE q = o /\ m = n
      BY <1>5, <2>1
    <2>2. CASE q # o \/ m # n
      BY <1>6, <2>2 DEF GateInv, SuccessInv
    <2> QED BY <2>1, <2>2
  <1>8. SuccessInv'
    BY <1>4, <1>7 DEF SuccessInv
  <1> QED BY <1>3, <1>8 DEF GateInv

\* Every step of the gateway, its clients and the services keeps the invariant.
LEMMA GateStep ==
    ASSUME GateInv, [GatewayNext]_gatewayVars
    PROVE  GateInv'
  <1>0. /\ RequestTypes /\ SuccessInv
        /\ ask \in [Operations -> [route : Routes, good : BOOLEAN, token : BOOLEAN,
                                   own : BOOLEAN]]
        /\ http \in [Operations -> [Attempts -> [pc : Pc, status : Nat]]]
        /\ rpc \in [Operations -> [Attempts -> {"none", "sent", "applied"} \cup Codes]]
        /\ applied \in [Operations -> SUBSET (Attempts \cup {0})]
    BY DEF GateInv, RequestTypes
  <1>1. ASSUME NEW o \in Operations, NEW n \in Attempts
        PROVE  /\ http[o][n] \in [pc : Pc, status : Nat]
               /\ rpc[o][n] \in {"none", "sent", "applied"} \cup Codes
               /\ rpc = [rpc EXCEPT ![o][n] = rpc[o][n]]
               /\ http = [http EXCEPT ![o][n] = http[o][n]]
               /\ rpc[o][n] = "applied" /\ Repeat(o) # "read" => applied[o] # {}
               /\ http[o][n].pc = "names" => rpc[o][n] = "applied"
    <2>1. /\ http[o][n] \in [pc : Pc, status : Nat]
          /\ rpc[o][n] \in {"none", "sent", "applied"} \cup Codes
      BY <1>0
    <2>2. rpc = [rpc EXCEPT ![o][n] = rpc[o][n]]
      BY <1>0
    <2>3. http = [http EXCEPT ![o][n] = http[o][n]]
      BY <1>0
    <2> QED BY <1>0, <2>1, <2>2, <2>3 DEF SuccessInv
  \* An answer that is no success.
  <1>2. ASSUME NEW o \in Operations, NEW n \in Attempts, NEW code \in Nat,
               code \notin 200 .. 299 \/ rpc[o][n] = "applied",
               Answered(o, n, code), UNCHANGED <<ask, rpc, applied>>
        PROVE  GateInv'
    <2>1. PICK x : x = [pc |-> "answered", status |-> code]
      OBVIOUS
    <2>2. x \in [pc : Pc, status : Nat] /\ x.pc = "answered" /\ x.status = code
      BY <2>1 DEF Pc
    <2>3. PICK y : y = rpc[o][n]
      OBVIOUS
    <2>4. http' = [http EXCEPT ![o][n] = x] /\ rpc' = [rpc EXCEPT ![o][n] = y]
      BY <1>1, <1>2, <2>1, <2>3 DEF Answered
    <2>5. /\ y \in {"none", "sent", "applied"} \cup Codes
          /\ y = "applied" /\ Repeat(o) # "read" => applied[o] # {}
      BY <1>1, <2>3
    <2>6. x.pc # "names" /\ (x.status \in 200 .. 299 => y = "applied")
      BY <1>2, <2>2, <2>3
    <2> QED BY <1>2, <2>2, <2>4, <2>5, <2>6, OneRequest
  <1>3. ASSUME NEW o \in Operations, NEW n \in Attempts, NEW st \in Pc,
               st \notin {"answered"}, st = "names" => rpc[o][n] = "applied",
               http' = [http EXCEPT ![o][n].pc = st], UNCHANGED <<ask, rpc, applied>>
        PROVE  GateInv'
    <2>1. PICK x : x = [http[o][n] EXCEPT !.pc = st]
      OBVIOUS
    <2>2. x \in [pc : Pc, status : Nat] /\ x.pc = st
      BY <1>1, <2>1
    <2>3. PICK y : y = rpc[o][n]
      OBVIOUS
    <2>4. http' = [http EXCEPT ![o][n] = x] /\ rpc' = [rpc EXCEPT ![o][n] = y]
      BY <1>0, <1>1, <1>3, <2>1, <2>3
    <2>5. /\ y \in {"none", "sent", "applied"} \cup Codes
          /\ y = "applied" /\ Repeat(o) # "read" => applied[o] # {}
      BY <1>1, <2>3
    <2>6. x.pc # "answered" /\ (x.pc = "names" => y = "applied")
      BY <1>3, <2>2, <2>3
    <2> QED BY <1>3, <2>2, <2>4, <2>5, <2>6, OneRequest
  <1>4. CASE NewWindow \/ UNCHANGED gatewayVars
    <2>1. UNCHANGED <<ask, http, rpc, applied>>
      BY <1>4 DEF NewWindow, gatewayVars
    <2> QED BY <2>1 DEF GateInv, RequestTypes, SuccessInv, Repeat, HandlerOf
  <1>5. ASSUME NEW o \in Operations, NEW n \in Attempts, TooMany(o, n)
        PROVE  GateInv'
    BY <1>2, <1>5 DEF TooMany
  <1>6. ASSUME NEW o \in Operations, NEW n \in Attempts, Serve(o, n)
        PROVE  GateInv'
    <2>1. CASE Answered(o, n, 401) /\ UNCHANGED rpc
      BY <1>2, <1>6, <2>1 DEF Serve
    <2>2. CASE Answered(o, n, 400) /\ UNCHANGED rpc
      BY <1>2, <1>6, <2>2 DEF Serve
    <2>3. CASE /\ http' = [http EXCEPT ![o][n].pc = "calling"]
               /\ rpc' = [rpc EXCEPT ![o][n] = "sent"]
      <3>1. PICK x : x = [http[o][n] EXCEPT !.pc = "calling"]
        OBVIOUS
      <3>2. x \in [pc : Pc, status : Nat] /\ x.pc = "calling"
        BY <1>1, <3>1 DEF Pc
      <3>3. http' = [http EXCEPT ![o][n] = x]
        BY <1>0, <2>3, <3>1
      <3>4. UNCHANGED <<ask, applied>>
        BY <1>6 DEF Serve
      <3> QED BY <2>3, <3>2, <3>3, <3>4, OneRequest
    <2> QED BY <1>6, <2>1, <2>2, <2>3 DEF Serve
  <1>7. ASSUME NEW o \in Operations, NEW n \in Attempts, NEW code \in Codes,
               RefuseCall(o, n, code)
        PROVE  GateInv'
    <2>1. /\ rpc[o][n] = "sent" /\ rpc' = [rpc EXCEPT ![o][n] = code]
          /\ UNCHANGED <<ask, http, applied>>
      BY <1>7 DEF RefuseCall
    <2>2. code # "applied"
      BY DEF Codes, AuthErrors, ProfileErrors, ConversationErrors,
             MessageErrors, PresenceErrors, NoUser
    <2>3. http[o][n].pc # "names"
          /\ (http[o][n].pc = "answered" => http[o][n].status \notin 200 .. 299)
      BY <1>0, <2>1 DEF SuccessInv
    <2>4. http' = [http EXCEPT ![o][n] = http[o][n]]
      BY <1>1, <2>1
    <2> QED BY <1>1, <2>1, <2>2, <2>3, <2>4, OneRequest
  <1>8. ASSUME NEW o \in Operations, NEW n \in Attempts, HandlerStep(o, n)
        PROVE  GateInv'
    <2>1. HandlerOf(o).ok \in Nat
      BY <1>0, RouteFields DEF HandlerOf
    <2>2. CASE Answer(o, n)
      <3>1. CASE http' = [http EXCEPT ![o][n].pc = "names"]
        BY <1>3, <2>2, <3>1 DEF Answer, Pc
      <3>2. CASE Answered(o, n, HandlerOf(o).ok)
        BY <1>2, <2>1, <2>2, <3>2 DEF Answer
      <3> QED BY <2>2, <3>1, <3>2 DEF Answer
    <2>3. CASE AnswerError(o, n)
      BY <1>2, <2>3, NoErrorIsSuccess DEF AnswerError
    <2>4. CASE NamesResolved(o, n)
      BY <1>1, <1>2, <2>1, <2>4 DEF NamesResolved
    <2>5. CASE Deadline(o, n)
      BY <1>2, <2>5, NoErrorIsSuccess DEF Deadline
    <2> QED BY <1>8, <2>2, <2>3, <2>4, <2>5 DEF HandlerStep
  <1>9. ASSUME NEW o \in Operations, NEW n \in Attempts, ClientGone(o, n)
        PROVE  GateInv'
    BY <1>3, <1>9 DEF ClientGone, Pc
  <1>10. ASSUME NEW o \in Operations, NEW n \in Attempts, Execute(o, n)
         PROVE  GateInv'
    <2>1. /\ rpc[o][n] = "sent" /\ UNCHANGED <<ask, http>>
      BY <1>10 DEF Execute
    <2>2. CASE rpc' = [rpc EXCEPT ![o][n] = "AlreadyExists"] /\ UNCHANGED applied
      <3>1. "AlreadyExists" \in {"none", "sent", "applied"} \cup Codes
        BY DEF Codes, AuthErrors
      <3>2. http[o][n].pc # "names"
            /\ (http[o][n].pc = "answered" => http[o][n].status \notin 200 .. 299)
        BY <1>0, <2>1 DEF SuccessInv
      <3>3. PICK x : x = http[o][n]
        OBVIOUS
      <3>4. http' = [http EXCEPT ![o][n] = x] /\ x \in [pc : Pc, status : Nat]
        BY <1>1, <2>1, <3>3
      <3>5. x.pc # "names" /\ (x.pc = "answered" => x.status \notin 200 .. 299)
        BY <3>2, <3>3
      <3> QED BY <2>1, <2>2, <3>1, <3>4, <3>5, OneRequest
    <2>3. CASE /\ rpc' = [rpc EXCEPT ![o][n] = "applied"]
               /\ applied' = IF Repeat(o) = "read" THEN applied
                             ELSE [applied EXCEPT ![o] = @ \cup {KeyOf(o, n)}]
      <3>1. PICK k : k = KeyOf(o, n)
        OBVIOUS
      <3>2. k \in Attempts \cup {0}
        BY <3>1 DEF KeyOf
      <3>3. /\ applied' \in [Operations -> SUBSET (Attempts \cup {0})]
            /\ \A q \in Operations \ {o} : applied'[q] = applied[q]
            /\ Repeat(o) = "read" => applied'[o] = applied[o]
            /\ Repeat(o) # "read" => applied'[o] = applied[o] \cup {k}
        BY <1>0, <2>3, <3>1, <3>2
      <3>4. \A q \in Operations : Repeat(q)' = Repeat(q)
        BY <2>1 DEF Repeat, HandlerOf
      <3>5. rpc' \in [Operations -> [Attempts -> {"none", "sent", "applied"} \cup Codes]]
            /\ rpc'[o][n] = "applied"
            /\ \A q \in Operations, m \in Attempts :
                  q # o \/ m # n => rpc'[q][m] = rpc[q][m]
        BY <1>0, <2>3
      <3>6. RequestTypes'
        BY <1>0, <2>1, <3>3, <3>5 DEF RequestTypes
      <3>7. ASSUME NEW q \in Operations, NEW m \in Attempts
            PROVE  /\ rpc'[q][m] = "applied" /\ Repeat(q)' # "read" => applied'[q] # {}
                   /\ http'[q][m].pc = "names" => rpc'[q][m] = "applied"
                   /\ http'[q][m].pc = "answered" /\ http'[q][m].status \in 200 .. 299
                         => rpc'[q][m] = "applied"
        <4>1. /\ rpc[q][m] = "applied" /\ Repeat(q) # "read" => applied[q] # {}
              /\ http[q][m].pc = "names" => rpc[q][m] = "applied"
              /\ http[q][m].pc = "answered" /\ http[q][m].status \in 200 .. 299
                    => rpc[q][m] = "applied"
          BY <1>0 DEF SuccessInv
        <4>2. rpc'[q][m] = rpc[q][m] \/ (q = o /\ rpc'[q][m] = "applied")
          BY <3>5
        <4> QED BY <2>1, <3>3, <3>4, <4>1, <4>2
      <3>8. SuccessInv'
        BY <3>7 DEF SuccessInv
      <3> QED BY <3>6, <3>8 DEF GateInv
    <2> QED BY <1>10, <2>2, <2>3 DEF Execute, Repeat
  <1> QED BY <1>4, <1>5, <1>6, <1>7, <1>8, <1>9, <1>10 DEF GatewayNext

LEMMA GateInvariant == GatewaySpec => []GateInv
  <1>1. GatewayInit => GateInv
    BY DEF GatewayInit, GateInv, RequestTypes, SuccessInv, Repeat, HandlerOf, Pc
  <1>2. GateInv /\ [GatewayNext]_gatewayVars => GateInv'
    BY GateStep
  <1> QED BY <1>1, <1>2, PTL DEF GatewaySpec

\* For any number of operations, requests and limits, and any error of a service:
\* a client that is told of success can count on the effect.
THEOREM SuccessIsAppliedCorrect == GatewaySpec => []SuccessIsApplied
  <1>1. GateInv => SuccessIsApplied
    BY DEF GateInv, SuccessInv, Repeat, SuccessIsApplied
  <1> QED BY <1>1, GateInvariant, PTL
=============================================================================
