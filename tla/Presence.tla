------------------------------ MODULE Presence ------------------------------
(***************************************************************************)
(* The presence service: what it keeps in Redis about the devices of one   *)
(* user, and the Redis commands of its calls.  Users share nothing.  A     *)
(* transaction pipeline is one step; the calls of different callers        *)
(* interleave between their pipelines and commands.                        *)
(***************************************************************************)
CONSTANTS Devices,
          Instances,   \* instances of the delivery service
          Callers,     \* callers of the presence service
          NoInstance   \* the session key does not exist

ASSUME PresenceAssumption == NoInstance \notin Instances

VARIABLES
    session_key,  \* session:<user>:<device>: the instance with its connection
    devices,      \* presence:user:<user>:devices
    status,       \* the last update published on presence:updates
    members,      \* the answer of SMEMBERS a GetUserDevices works with
    cleanup       \* the stale devices a GetUserDevices is about to SREM

presenceVars == <<session_key, devices, status, members, cleanup>>

PresenceTypeOK ==
    /\ session_key \in [Devices -> Instances \cup {NoInstance}]
    /\ devices \subseteq Devices /\ status \in {"OFFLINE", "ONLINE"}
    /\ members \in [Callers -> SUBSET Devices]
    /\ cleanup \in [Callers -> SUBSET Devices]

PresenceInit ==
    /\ session_key = [d \in Devices |-> NoInstance] /\ devices = {}
    /\ status = "OFFLINE"
    /\ members = [c \in Callers |-> {}] /\ cleanup = [c \in Callers |-> {}]

\* Register: SET, SADD and EXPIRE.
Register(d, i) ==
    /\ session_key' = [session_key EXCEPT ![d] = i]
    /\ devices' = devices \cup {d}
    /\ UNCHANGED <<status, members, cleanup>>

PublishUpdate(st) ==
    /\ status' = st
    /\ UNCHANGED <<session_key, devices, members, cleanup>>

\* Unregister: DEL and SREM, whoever set the key.
Unregister(d) ==
    /\ session_key' = [session_key EXCEPT ![d] = NoInstance]
    /\ devices' = devices \ {d}
    /\ UNCHANGED <<status, members, cleanup>>

\* GetUserDevices: SMEMBERS ...
GetMembers(c) ==
    /\ members' = [members EXCEPT ![c] = devices]
    /\ UNCHANGED <<session_key, devices, status, cleanup>>

Online(c) == {d \in members[c] : session_key[d] # NoInstance}

\* ... then MGET.  A goroutine is started for the devices without a key.
GetKeys(c) ==
    /\ cleanup[c] = {}
    /\ cleanup' = [cleanup EXCEPT ![c] = members[c] \ Online(c)]
    /\ members' = [members EXCEPT ![c] = {}]
    /\ UNCHANGED <<session_key, devices>>

\* The goroutine removes them, without another look at their keys.
CleanupStale(c) ==
    /\ cleanup[c] # {}
    /\ devices' = devices \ cleanup[c]
    /\ cleanup' = [cleanup EXCEPT ![c] = {}]
    /\ UNCHANGED <<session_key, status, members>>

\* The session key of a device expires (TTL, one minute).
ExpireKey(d) ==
    /\ session_key[d] # NoInstance
    /\ session_key' = [session_key EXCEPT ![d] = NoInstance]
    /\ UNCHANGED <<devices, status, members, cleanup>>
=============================================================================
