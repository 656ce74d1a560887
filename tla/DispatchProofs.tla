--------------------------- MODULE DispatchProofs ---------------------------
(***************************************************************************)
(* Proofs about Dispatch, for any number of clients, instances and events, *)
(* and any bound on new connections, errors and crashes.                   *)
(***************************************************************************)
EXTENDS Dispatch, TLAPS

-----------------------------------------------------------------------------
(* Types and tasks *)

\* The goroutine of an event is on an instance, does not note its own instance
\* as a remote one, and was started once and again after each crash at most.
TaskInv ==
    \A e \in KafkaEvents :
        /\ task[e].st # "none" => task[e].on \in Instances /\ task[e].times > 0
        /\ task[e].st = "none" => /\ task[e].on = NoInstance /\ task[e].todo = {}
                                  /\ task[e].remote = {} /\ task[e].times <= faults
        /\ task[e].on \notin task[e].remote
        /\ task[e].times <= faults + 1
        /\ e = Change /\ task[e].st # "none" => changed

\* What the proofs of a step start from.
TypeInv == TypeOK /\ TaskInv

TaskSet ==
    [st : {"none", "resolve", "fetched", "deliver", "done"},
     on : Instances \cup {NoInstance}, todo : SUBSET Clients,
     remote : SUBSET Instances, times : 0 .. MaxDisturbances + 1]

\* The condition on one task.
TaskOK(t) ==
    /\ t \in TaskSet
    /\ t.st # "none" => t.on \in Instances /\ t.times > 0
    /\ t.on \notin t.remote

\* A step of one goroutine that leaves the tables and the counters alone keeps
\* the tasks in order, if its own task is.
LEMMA OneTask ==
    ASSUME TypeInv, NEW e \in KafkaEvents, NEW t,
           UNCHANGED <<changed, faults>>,
           task' = [task EXCEPT ![e] = t],
           TaskOK(t), t.st # "none", t.times <= faults + 1, e = Change => changed
    PROVE  task' \in [KafkaEvents -> TaskSet] /\ TaskInv'
  <1>1. task \in [KafkaEvents -> TaskSet]
    BY DEF TypeInv, TypeOK, TaskSet
  <1>2. task' \in [KafkaEvents -> TaskSet]
    BY <1>1 DEF TaskOK
  <1>3. ASSUME NEW f \in KafkaEvents, f # e
        PROVE  task'[f] = task[f]
    BY <1>1, <1>3
  <1>4. task'[e] = t
    BY <1>1
  <1>5. TaskInv'
    BY <1>3, <1>4, DispatchAssumption DEF TypeInv, TaskInv, TaskOK
  <1> QED BY <1>2, <1>5

\* What the end of a session leaves to be done is counted.
LEMMA EndSessionType ==
    ASSUME TypeOK, NEW c \in Clients, EndSession(c), NEW b \in BOOLEAN,
           joining' = [joining EXCEPT ![c] = b], UNCHANGED <<key, stale>>
    PROVE  PresenceOK'
  <1>1. /\ PresenceOK /\ at[c] \in Instances \cup {NoInstance}
    BY DEF TypeOK
  <1>2. starting' \in [Clients -> [Instances -> Nat]]
    BY <1>1 DEF EndSession, PresenceOK
  <1>3. ending' \in [Clients -> [Instances -> Nat]]
    BY <1>1 DEF EndSession, PresenceOK
  <1> QED BY <1>1, <1>2, <1>3 DEF PresenceOK

\* A call of a session to presence, or what presence does later.  Whether a key
\* was set or dropped, presence has a connection it did not have before only
\* together with a new mark of what was consumed.
LEMMA PresenceStepType ==
    ASSUME TypeInv, NEW c \in Clients, PresenceStep(c)
    PROVE  /\ PresenceOK' /\ late' \in [Clients -> SUBSET KafkaEvents]
           /\ \A d \in Clients : \/ key'[d] = key[d] /\ late'[d] = late[d]
                                 \/ key'[d] = NoInstance
                                 \/ late'[d] = Consumed
  <1>1. /\ TypeOK /\ PresenceOK /\ key \in [Clients -> Instances \cup {NoInstance}]
        /\ at \in [Clients -> Instances \cup {NoInstance}]
        /\ late \in [Clients -> SUBSET KafkaEvents] /\ Consumed \in SUBSET KafkaEvents
    BY DEF TypeInv, TypeOK, PresenceOK, Consumed
  <1>2. ASSUME NEW i \in Instances \cup {NoInstance}, Register(c, i)
        PROVE  /\ key' \in [Clients -> Instances \cup {NoInstance}]
               /\ late' \in [Clients -> SUBSET KafkaEvents]
               /\ stale' \in [Clients -> BOOLEAN]
               /\ \A d \in Clients : \/ key'[d] = key[d] /\ late'[d] = late[d]
                                     \/ late'[d] = Consumed
    BY <1>1, <1>2 DEF Register, PresenceOK
  <1>3. ASSUME DropKey(c)
        PROVE  /\ key' \in [Clients -> Instances \cup {NoInstance}]
               /\ \A d \in Clients : key'[d] = key[d] \/ key'[d] = NoInstance
    BY <1>1, <1>3 DEF DropKey
  <1>4. CASE RegisterSession(c)
    BY <1>1, <1>2, <1>4 DEF RegisterSession, PresenceOK
  <1>5. ASSUME NEW i \in Instances, OldRegisters(c, i)
        PROVE  /\ PresenceOK' /\ late' \in [Clients -> SUBSET KafkaEvents]
               /\ \A d \in Clients : \/ key'[d] = key[d] /\ late'[d] = late[d]
                                     \/ late'[d] = Consumed
    <2>1. starting' \in [Clients -> [Instances -> Nat]]
      BY <1>1, <1>5 DEF OldRegisters, PresenceOK
    <2>2. ending' \in [Clients -> [Instances -> Nat]]
      BY <1>1, <1>5 DEF OldRegisters, PresenceOK
    <2> QED BY <1>1, <1>2, <1>5, <2>1, <2>2 DEF OldRegisters, PresenceOK
  <1>6. ASSUME NEW i \in Instances, UnregisterSession(c, i)
        PROVE  /\ PresenceOK' /\ UNCHANGED late
               /\ \A d \in Clients : key'[d] = key[d] \/ key'[d] = NoInstance
    <2>1. ending' \in [Clients -> [Instances -> Nat]]
      BY <1>1, <1>6 DEF UnregisterSession, PresenceOK
    <2> QED BY <1>1, <1>3, <1>6, <2>1 DEF UnregisterSession, PresenceOK
  <1>7. CASE KeyExpires(c)
    BY <1>1, <1>3, <1>7 DEF KeyExpires, PresenceOK, calls
  <1>8. CASE CleanupStale(c)
    BY <1>1, <1>3, <1>8 DEF CleanupStale, PresenceOK, calls
  <1> QED BY <1>1, <1>4, <1>5, <1>6, <1>7, <1>8 DEF PresenceStep

\* Every step keeps the variables in their types and the tasks in order.
LEMMA TypeStep ==
    ASSUME TypeInv, [Next]_vars
    PROVE  TypeInv'
  <1> USE DispatchAssumption
  <1>1. /\ task \in [KafkaEvents -> TaskSet] /\ TypeOK /\ TaskInv
        /\ faults \in Nat /\ connects \in Nat /\ (UNCHANGED presence => PresenceOK')
    BY DEF TypeInv, TypeOK, TaskSet, PresenceOK, presence, calls
  <1>2. CASE ChangeMembership
    BY <1>1, <1>2 DEF ChangeMembership, TypeInv, TypeOK, TaskInv, sessions, caches
  <1>3. ASSUME NEW c \in Clients, NEW i \in Instances, Connect(c, i)
        PROVE  TypeInv'
    <2>1. NoCopies \in [KafkaEvents -> Nat]
      BY DEF NoCopies
    <2>2. connects' \in 0 .. MaxDisturbances
      BY <1>1, <1>3 DEF Connect, MayDisturb
    <2>3. PresenceOK'
      BY <1>1, <1>3, EndSessionType DEF Connect
    <2>4. TypeOK'
      BY <1>1, <1>3, <2>1, <2>2, <2>3 DEF Connect, TypeOK, Consumed, tables, caches
    <2> QED BY <1>1, <1>3, <2>4 DEF Connect, TypeInv, TaskInv, tables
  <1>16. ASSUME NEW c \in Clients, Leave(c)
         PROVE  TypeInv'
    <2>1. connects' \in 0 .. MaxDisturbances
      BY <1>1, <1>16 DEF Leave, MayDisturb
    <2>2. PresenceOK'
      BY <1>1, <1>16, EndSessionType DEF Leave
    <2>3. TypeOK'
      BY <1>1, <1>16, <2>1, <2>2 DEF Leave, TypeOK, tables, caches
    <2> QED BY <1>1, <1>16, <2>3 DEF Leave, TypeInv, TaskInv, tables
  <1>17. ASSUME NEW c \in Clients, PresenceStep(c)
         PROVE  TypeInv'
    <2>1. PresenceOK' /\ late' \in [Clients -> SUBSET KafkaEvents]
      BY <1>17, PresenceStepType
    <2>2. TypeOK'
      BY <1>1, <1>17, <2>1 DEF PresenceStep, TypeOK, tables, caches
    <2> QED BY <1>1, <1>17, <2>2 DEF PresenceStep, TypeInv, TaskInv, tables
  <1>4. ASSUME NEW e \in KafkaEvents, NEW i \in Instances, Consume(e, i)
        PROVE  TypeInv'
    <2>1. PICK t : /\ t = [task[e] EXCEPT !.st = "resolve", !.on = i, !.times = @ + 1]
                   /\ task' = [task EXCEPT ![e] = t]
      BY <1>1, <1>4 DEF Consume, TaskSet
    <2>2. /\ task[e].st = "none" /\ task[e] \in TaskSet /\ task[e].remote = {}
          /\ task[e].times <= faults /\ faults <= MaxDisturbances
          /\ e = Change => changed
      BY <1>1, <1>4 DEF Consume, Available, TaskInv, TypeOK
    <2>3. task[e].times + 1 \in 0 .. MaxDisturbances + 1
      BY <1>1, <2>2 DEF TaskSet
    <2>4. TaskOK(t) /\ t.st # "none" /\ t.times <= faults + 1
      <3>1. /\ t \in TaskSet /\ t.st = "resolve" /\ t.on = i
            /\ t.remote = task[e].remote /\ t.times = task[e].times + 1
        BY <2>1, <2>2, <2>3 DEF TaskSet
      <3>2. task[e].times \in Nat
        BY <2>2 DEF TaskSet
      <3> QED BY <1>1, <2>2, <3>1, <3>2 DEF TaskOK
    <2>5. task' \in [KafkaEvents -> TaskSet] /\ TaskInv'
      BY <1>4, <2>1, <2>2, <2>4, OneTask DEF Consume, tables
    <2> QED BY <1>1, <1>4, <2>5 DEF Consume, TypeInv, TypeOK, TaskSet, tables, sessions, caches
  <1>5. ASSUME NEW e \in KafkaEvents, NEW t, task' = [task EXCEPT ![e] = t],
               t \in TaskSet, t.st # "none", task[e].st # "none",
               t.on = task[e].on, t.times = task[e].times, t.on \notin t.remote,
               UNCHANGED <<changed, faults>>
        PROVE  task' \in [KafkaEvents -> TaskSet] /\ TaskInv'
    <2>1. TaskOK(t) /\ t.times <= faults + 1 /\ (e = Change => changed)
      BY <1>1, <1>5 DEF TaskOK, TaskInv
    <2> QED BY <1>5, <2>1, OneTask
  <1>6. ASSUME NEW e \in KafkaEvents, PreRoute(e)
        PROVE  TypeInv'
    <2>1. task[e].st = "resolve" /\ task[e].on \in Instances /\ task[e] \in TaskSet
          /\ task[e].on \notin task[e].remote
      BY <1>1, <1>6 DEF PreRoute, TaskInv
    <2>2. data' \in [Instances -> SUBSET Clients] /\ index' \in [Instances -> SUBSET Clients]
      <3>1. CASE e = Created
        <4>1. SetMembers(task[e].on, created)
          BY <1>6, <3>1 DEF PreRoute
        <4> QED BY <1>1, <2>1, <4>1 DEF SetMembers, TypeOK
      <3>2. CASE e = Change /\ Changing \notin created
        <4>1. Add(task[e].on, Changing)
          BY <1>6, <3>2 DEF PreRoute
        <4> QED BY <1>1, <2>1, <4>1 DEF Add, TypeOK
      <3>3. CASE e # Created /\ ~(e = Change /\ Changing \notin created)
        <4>1. UNCHANGED <<data, index>>
          BY <1>6, <3>3 DEF PreRoute
        <4> QED BY <1>1, <4>1 DEF TypeOK
      <3> QED BY <3>1, <3>2, <3>3
    <2>3. ResolvedMembers(data'[task[e].on]) \in SUBSET Clients
      BY <1>1, <2>1, <2>2 DEF ResolvedMembers, TypeOK
    <2>4. PICK t : /\ t = [task[e] EXCEPT
                              !.st = IF data'[task[e].on] # {} THEN "deliver" ELSE "fetched",
                              !.todo = ResolvedMembers(data'[task[e].on])]
                   /\ task' = [task EXCEPT ![e] = t]
      BY <1>1, <1>6 DEF PreRoute, TaskSet
    <2>5. t \in TaskSet /\ t.st # "none" /\ t.on = task[e].on /\ t.times = task[e].times
          /\ t.remote = task[e].remote
      BY <2>1, <2>3, <2>4 DEF TaskSet
    <2>6. task' \in [KafkaEvents -> TaskSet] /\ TaskInv'
      <3>1. UNCHANGED <<changed, faults>>
        BY <1>6 DEF PreRoute, tables
      <3> QED BY <1>5, <2>1, <2>4, <2>5, <3>1
    <2> QED BY <1>1, <1>6, <2>2, <2>6 DEF PreRoute, TypeInv, TypeOK, TaskSet, tables, sessions
  <1>7. ASSUME NEW e \in KafkaEvents, CacheFetched(e)
        PROVE  TypeInv'
    <2>1. task[e].st = "fetched" /\ task[e].on \in Instances /\ task[e] \in TaskSet
          /\ task[e].on \notin task[e].remote
      BY <1>1, <1>7 DEF CacheFetched, TaskInv
    <2>2. data' \in [Instances -> SUBSET Clients] /\ index' \in [Instances -> SUBSET Clients]
      BY <1>1, <1>7, <2>1 DEF CacheFetched, SetMembers, TypeOK, TaskSet
    <2>3. PICK t : /\ t = [task[e] EXCEPT !.st = "deliver"]
                   /\ task' = [task EXCEPT ![e] = t]
      BY <1>1, <1>7 DEF CacheFetched, TaskSet
    <2>4. t \in TaskSet /\ t.st # "none" /\ t.on = task[e].on /\ t.times = task[e].times
          /\ t.remote = task[e].remote
      BY <2>1, <2>3 DEF TaskSet
    <2>5. task' \in [KafkaEvents -> TaskSet] /\ TaskInv'
      BY <1>5, <1>7, <2>1, <2>3, <2>4 DEF CacheFetched, tables
    <2> QED BY <1>1, <1>7, <2>2, <2>5 DEF CacheFetched, TypeInv, TypeOK, TaskSet, tables,
               sessions
  <1>8. ASSUME NEW e \in KafkaEvents, NEW c \in Clients, DeliverToUser(e, c)
        PROVE  TypeInv'
    <2>1. task[e].st = "deliver" /\ task[e].on \in Instances /\ task[e] \in TaskSet
          /\ task[e].on \notin task[e].remote /\ key[c] \in Instances \cup {NoInstance}
      BY <1>1, <1>8 DEF DeliverToUser, TaskInv, TypeOK, PresenceOK
    <2>2. copies' \in [Clients -> [KafkaEvents -> Nat]]
      BY <1>1, <1>8 DEF DeliverToUser, TypeOK
    <2>3. PICK t : /\ t = [task[e] EXCEPT
                              !.todo = @ \ {c},
                              !.remote = @ \cup ({key[c]} \ {task[e].on, NoInstance})]
                   /\ task' = [task EXCEPT ![e] = t]
      BY <1>1, <1>8 DEF DeliverToUser, TaskSet
    <2>4. t \in TaskSet /\ t.st # "none" /\ t.on = task[e].on /\ t.times = task[e].times
          /\ t.remote = task[e].remote \cup ({key[c]} \ {task[e].on, NoInstance})
      BY <2>1, <2>3 DEF TaskSet
    <2>5. task' \in [KafkaEvents -> TaskSet] /\ TaskInv'
      BY <1>5, <1>8, <2>1, <2>3, <2>4 DEF DeliverToUser, tables
    <2> QED BY <1>1, <1>8, <2>2, <2>5 DEF DeliverToUser, TypeInv, TypeOK, TaskSet, tables,
               caches
  <1>9. ASSUME NEW e \in KafkaEvents, PublishRemote(e)
        PROVE  TypeInv'
    <2>1. task[e].st = "deliver" /\ task[e].on \in Instances /\ task[e] \in TaskSet
      BY <1>1, <1>9 DEF PublishRemote, TaskInv
    <2>2. data' \in [Instances -> SUBSET Clients] /\ index' \in [Instances -> SUBSET Clients]
      BY <1>1, <1>9, <2>1 DEF PublishRemote, Remove, TypeOK
    <2>3. channel' \in [Instances -> [KafkaEvents -> Nat]]
      BY <1>1, <1>9 DEF PublishRemote, Copies, TypeOK
    <2>4. PICK t : /\ t = [task[e] EXCEPT !.st = "done", !.remote = {}]
                   /\ task' = [task EXCEPT ![e] = t]
      BY <1>1, <1>9 DEF PublishRemote, TaskSet
    <2>5. t \in TaskSet /\ t.st # "none" /\ t.on = task[e].on /\ t.times = task[e].times
          /\ t.remote = {}
      BY <2>1, <2>4 DEF TaskSet
    <2>6. task' \in [KafkaEvents -> TaskSet] /\ TaskInv'
      BY <1>5, <1>9, <2>1, <2>4, <2>5 DEF PublishRemote, tables
    <2> QED BY <1>1, <1>9, <2>2, <2>3, <2>6 DEF PublishRemote, TypeInv, TypeOK, TaskSet,
               tables, sessions
  <1>10. ASSUME NEW e \in KafkaEvents, HandleFails(e)
         PROVE  TypeInv'
    <2>1. task[e].st # "none" /\ task[e] \in TaskSet
          /\ task[e].on \notin task[e].remote
      BY <1>1, <1>10 DEF HandleFails, TaskInv
    <2>2. PICK t : /\ t \in TaskSet /\ t.st # "none"
                   /\ t.on = task[e].on /\ t.times = task[e].times
                   /\ t.remote = task[e].remote
                   /\ task' = [task EXCEPT ![e] = t]
      <3>1. CASE task' = [task EXCEPT ![e].st = "done", ![e].todo = {}]
        <4>1. PICK t : t = [task[e] EXCEPT !.st = "done", !.todo = {}]
          OBVIOUS
        <4>2. t \in TaskSet /\ t.st # "none" /\ t.on = task[e].on
              /\ t.times = task[e].times /\ t.remote = task[e].remote
          BY <2>1, <4>1 DEF TaskSet
        <4>3. task' = [task EXCEPT ![e] = t]
          BY <1>1, <3>1, <4>1 DEF TaskSet
        <4> QED BY <4>2, <4>3
      <3>2. ASSUME NEW c \in task[e].todo, task' = [task EXCEPT ![e].todo = @ \ {c}]
            PROVE  \E t : /\ t \in TaskSet /\ t.st # "none"
                          /\ t.on = task[e].on /\ t.times = task[e].times
                          /\ t.remote = task[e].remote
                          /\ task' = [task EXCEPT ![e] = t]
        <4>1. PICK t : t = [task[e] EXCEPT !.todo = @ \ {c}]
          OBVIOUS
        <4>2. t \in TaskSet /\ t.st # "none" /\ t.on = task[e].on
              /\ t.times = task[e].times /\ t.remote = task[e].remote
          BY <2>1, <4>1 DEF TaskSet
        <4>3. task' = [task EXCEPT ![e] = t]
          BY <1>1, <3>2, <4>1 DEF TaskSet
        <4> QED BY <4>2, <4>3
      <3> QED BY <1>10, <3>1, <3>2 DEF HandleFails
    <2>3. faults' = faults + 1 /\ faults' \in 0 .. MaxDisturbances
      BY <1>1, <1>10 DEF HandleFails, MayDisturb
    <2>4. task' \in [KafkaEvents -> TaskSet]
      BY <1>1, <2>2
    <2>5. ASSUME NEW f \in KafkaEvents
          PROVE  /\ task'[f].on = task[f].on /\ task'[f].times = task[f].times
                 /\ task'[f].remote = task[f].remote
                 /\ f # e => task'[f] = task[f]
                 /\ f = e => task'[f].st # "none"
      BY <1>1, <2>2
    <2>6. \A f \in KafkaEvents : task[f].times \in Nat
      BY <1>1 DEF TaskSet
    <2>7. TaskInv'
      BY <1>1, <1>10, <2>1, <2>3, <2>5, <2>6 DEF HandleFails, TaskInv, tables
    <2> QED BY <1>1, <1>10, <2>3, <2>4, <2>7 DEF HandleFails, TypeInv, TypeOK, TaskSet,
               tables, sessions, caches
  <1>11. ASSUME NEW j \in Instances, NEW e \in KafkaEvents, DeliverRemote(j, e)
         PROVE  TypeInv'
    <2>1. channel' \in [Instances -> [KafkaEvents -> Nat]]
      BY <1>1, <1>11 DEF DeliverRemote, TypeOK
    <2>2. data' \in [Instances -> SUBSET Clients] /\ index' \in [Instances -> SUBSET Clients]
      <3>1. \/ UNCHANGED <<data, index>>
            \/ data[j] = {} /\ SetMembers(j, ResolvedMembers(data[j]))
        BY <1>11 DEF DeliverRemote
      <3>2. ResolvedMembers(data[j]) \in SUBSET Clients
        BY <1>1 DEF ResolvedMembers, TypeOK
      <3>3. CASE UNCHANGED <<data, index>>
        BY <1>1, <3>3 DEF TypeOK
      <3>4. CASE SetMembers(j, ResolvedMembers(data[j]))
        BY <1>1, <3>2, <3>4 DEF SetMembers, TypeOK
      <3> QED BY <3>1, <3>3, <3>4
    <2>3. copies' \in [Clients -> [KafkaEvents -> Nat]]
      BY <1>1, <1>11 DEF DeliverRemote, TypeOK
    <2>4. TypeOK'
      BY <1>1, <1>11, <2>1, <2>2, <2>3 DEF DeliverRemote, TypeOK, tables
    <2> QED BY <1>1, <1>11, <2>4 DEF DeliverRemote, TypeInv, TaskInv, tables
  <1>12. ASSUME NEW j \in Instances, NEW e \in KafkaEvents, RemoteFails(j, e)
         PROVE  TypeInv'
    <2>1. channel' \in [Instances -> [KafkaEvents -> Nat]]
      BY <1>1, <1>12 DEF RemoteFails, TypeOK
    <2>2. faults' = faults + 1 /\ faults' \in 0 .. MaxDisturbances
      BY <1>1, <1>12 DEF RemoteFails, MayDisturb
    <2>3. TypeOK'
      BY <1>1, <1>12, <2>1, <2>2 DEF RemoteFails, TypeOK, tables, sessions, caches
    <2>4. \A f \in KafkaEvents : task[f].times \in Nat
      BY <1>1 DEF TaskSet
    <2>5. TaskInv'
      BY <1>1, <1>12, <2>2, <2>4 DEF RemoteFails, TaskInv, tables
    <2> QED BY <2>3, <2>5 DEF TypeInv
  <1>13. ASSUME NEW i \in Instances, NEW c \in Clients, NEW u \in Clients,
                NotifySubscribers(i, c, u)
         PROVE  TypeInv'
    BY <1>1, <1>13 DEF NotifySubscribers, TypeInv, TypeOK, TaskInv, tables, caches
  <1>14. ASSUME NEW i \in Instances, Crash(i)
         PROVE  TypeInv'
    <2>1. NoCopies \in [KafkaEvents -> Nat]
      BY DEF NoCopies
    <2>2. faults' = faults + 1 /\ faults' \in 0 .. MaxDisturbances
      <3>1. connects + faults < MaxDisturbances /\ faults' = faults + 1
        BY <1>14 DEF Crash, MayDisturb
      <3> QED BY <1>1, <3>1
    <2>3. PICK again \in SUBSET {e \in KafkaEvents : task[e].on = i} :
             task' = [e \in KafkaEvents |->
                         IF e \in again THEN [NoTask EXCEPT !.times = task[e].times]
                         ELSE IF task[e].on = i
                              THEN [task[e] EXCEPT !.st = "done", !.todo = {}, !.remote = {}]
                              ELSE task[e]]
      BY <1>14 DEF Crash
    <2>4. ASSUME NEW e \in KafkaEvents
          PROVE  /\ task'[e] \in TaskSet
                 /\ task'[e].st # "none" => task'[e].on \in Instances /\ task'[e].times > 0
                 /\ task'[e].st = "none" =>
                       /\ task'[e].on = NoInstance /\ task'[e].todo = {}
                       /\ task'[e].remote = {} /\ task'[e].times <= faults'
                 /\ task'[e].on \notin task'[e].remote
                 /\ task'[e].times <= faults' + 1
                 /\ e = Change /\ task'[e].st # "none" => changed'
      <3>1. /\ task[e] \in TaskSet /\ task[e].times \in 0 .. MaxDisturbances + 1
            /\ task[e].on = i => task[e].st # "none"
            /\ UNCHANGED changed
        BY <1>1, <1>14 DEF TaskSet, TaskInv, Crash, tables
      <3>2. CASE e \in again
        <4>1. task'[e] = [NoTask EXCEPT !.times = task[e].times]
          BY <2>3, <3>2
        <4> QED BY <1>1, <2>2, <3>1, <4>1 DEF NoTask, TaskSet, TaskInv
      <3>3. CASE e \notin again /\ task[e].on = i
        <4>1. task'[e] = [task[e] EXCEPT !.st = "done", !.todo = {}, !.remote = {}]
          BY <2>3, <3>3
        <4>2. /\ task'[e].st = "done" /\ task'[e].on = i /\ task'[e].remote = {}
              /\ task'[e].times = task[e].times /\ task'[e] \in TaskSet
          BY <3>1, <3>3, <4>1 DEF TaskSet
        <4>3. /\ task[e].times > 0 /\ task[e].times <= faults + 1
              /\ e = Change => changed
          BY <1>1, <3>1, <3>3 DEF TaskInv
        <4> QED BY <1>1, <2>2, <3>1, <4>2, <4>3
      <3>4. CASE e \notin again /\ task[e].on # i
        <4>1. task'[e] = task[e]
          BY <2>3, <3>4
        <4> QED BY <1>1, <2>2, <3>1, <4>1 DEF TaskSet, TaskInv
      <3> QED BY <3>2, <3>3, <3>4
    <2>5. task' \in [KafkaEvents -> TaskSet]
      BY <2>3, <2>4
    <2>6. TaskInv'
      BY <2>4 DEF TaskInv
    <2>7. PresenceOK'
      BY <1>1, <1>14 DEF Crash, TypeOK, PresenceOK
    <2> QED BY <1>1, <1>14, <2>1, <2>2, <2>5, <2>6, <2>7
            DEF Crash, TypeInv, TypeOK, TaskSet, tables
  <1>15. CASE UNCHANGED vars
    BY <1>1, <1>15 DEF vars, tables, sessions, caches, TypeInv, TypeOK, TaskInv
  <1> QED BY <1>2, <1>3, <1>4, <1>6, <1>7, <1>8, <1>9, <1>10, <1>11, <1>12, <1>13, <1>14,
             <1>15, <1>16, <1>17
          DEF Next, HandleStep

\* The type invariant holds in every reachable state.
THEOREM TypeCorrect == Spec => []TypeInv
  <1>1. Init => TypeInv
    <2> SUFFICES ASSUME Init
                 PROVE  TypeInv
      OBVIOUS
    <2>1. /\ topic \subseteq KafkaEvents /\ created \subseteq Clients
          /\ members = created /\ changed = FALSE
          /\ task = [e \in KafkaEvents |-> NoTask]
          /\ connects = 0 /\ faults = 0
      BY DEF Init
    <2>2. /\ data \in [Instances -> SUBSET Clients] /\ index = data
          /\ at \in [Clients -> Instances \cup {NoInstance}]
          /\ late \in [Clients -> SUBSET KafkaEvents] /\ told = {} /\ PresenceOK
      BY <2>1 DEF Init, PresenceOK, NoSessions
    <2>3. /\ copies \in [Clients -> [KafkaEvents -> Nat]]
          /\ channel \in [Instances -> [KafkaEvents -> Nat]]
      BY DEF Init, NoCopies
    <2>4. NoTask \in TaskSet
      BY DispatchAssumption DEF NoTask, TaskSet
    <2>5. TypeOK
      <3>1. task \in [KafkaEvents -> TaskSet]
        BY <2>1, <2>4
      <3>2. connects \in 0 .. MaxDisturbances /\ faults \in 0 .. MaxDisturbances
        BY <2>1, DispatchAssumption
      <3> QED BY <2>1, <2>2, <2>3, <3>1, <3>2 DEF TypeOK, TaskSet
    <2>6. TaskInv
      BY <2>1, <2>4, DispatchAssumption DEF TaskInv, NoTask
    <2> QED BY <2>5, <2>6 DEF TypeInv
  <1>2. TypeInv /\ [Next]_vars => TypeInv'
    BY TypeStep
  <1> QED BY <1>1, <1>2, PTL DEF Spec

-----------------------------------------------------------------------------
(* What the steps do to the tasks *)

\* A step of the goroutine of e leaves the other tasks alone.
OthersSame(e) == \A f \in KafkaEvents \ {e} : task'[f] = task[f]

LEMMA ConsumeTask ==
    ASSUME TypeInv, NEW e \in KafkaEvents, NEW i \in Instances, Consume(e, i)
    PROVE  /\ OthersSame(e) /\ task'[e].st = "resolve" /\ task'[e].on = i
           /\ task'[e].todo = task[e].todo /\ task'[e].remote = task[e].remote
           /\ task'[e].times = task[e].times + 1
  BY DEF Consume, OthersSame, TypeInv, TypeOK

LEMMA PreRouteTask ==
    ASSUME TypeInv, NEW e \in KafkaEvents, PreRoute(e)
    PROVE  /\ task[e].st = "resolve" /\ task[e].on \in Instances
           /\ OthersSame(e)
           /\ task'[e].st = IF data'[task[e].on] # {} THEN "deliver" ELSE "fetched"
           /\ task'[e].todo = ResolvedMembers(data'[task[e].on])
           /\ task'[e].on = task[e].on /\ task'[e].remote = task[e].remote
           /\ task'[e].times = task[e].times
           /\ UNCHANGED <<topic, created, members, changed, at, copies, late, told, key,
                          channel, connects, faults>>
           /\ \/ e = Created /\ data' = [data EXCEPT ![task[e].on] = created]
              \/ /\ e = Change /\ Changing \notin created
                 /\ data' = [data EXCEPT ![task[e].on] = @ \cup {Changing}]
              \/ UNCHANGED data
  <1>1. /\ task[e].st = "resolve"
        /\ task' = [task EXCEPT
                       ![e].st = IF data'[task[e].on] # {} THEN "deliver" ELSE "fetched",
                       ![e].todo = ResolvedMembers(data'[task[e].on])]
        /\ UNCHANGED <<tables, sessions, presence, channel, connects, faults>>
    BY DEF PreRoute
  <1>2. /\ OthersSame(e)
        /\ task'[e].st = IF data'[task[e].on] # {} THEN "deliver" ELSE "fetched"
        /\ task'[e].todo = ResolvedMembers(data'[task[e].on])
        /\ task'[e].on = task[e].on /\ task'[e].remote = task[e].remote
        /\ task'[e].times = task[e].times
    BY <1>1 DEF OthersSame, TypeInv, TypeOK
  <1>3. task[e].on \in Instances
    BY <1>1 DEF TypeInv, TaskInv
  <1>4. \/ e = Created /\ data' = [data EXCEPT ![task[e].on] = created]
        \/ /\ e = Change /\ Changing \notin created
           /\ data' = [data EXCEPT ![task[e].on] = @ \cup {Changing}]
        \/ UNCHANGED data
    <2>1. CASE e = Created
      <3>1. SetMembers(task[e].on, created)
        BY <2>1, DispatchAssumption DEF PreRoute
      <3> QED BY <2>1, <3>1 DEF SetMembers
    <2>2. CASE e = Change /\ Changing \notin created
      BY <2>2, DispatchAssumption DEF PreRoute, Add
    <2>3. CASE e # Created /\ ~(e = Change /\ Changing \notin created)
      BY <2>3 DEF PreRoute
    <2> QED BY <2>1, <2>2, <2>3
  <1> QED BY <1>1, <1>2, <1>3, <1>4 DEF tables, sessions, presence

LEMMA CacheFetchedTask ==
    ASSUME TypeInv, NEW e \in KafkaEvents, CacheFetched(e)
    PROVE  /\ task[e].st = "fetched" /\ task[e].on \in Instances
           /\ OthersSame(e) /\ task'[e].st = "deliver"
           /\ task'[e].todo = task[e].todo /\ task'[e].remote = task[e].remote
           /\ task'[e].on = task[e].on /\ task'[e].times = task[e].times
           /\ data' = [data EXCEPT ![task[e].on] = task[e].todo]
  BY DEF CacheFetched, SetMembers, OthersSame, TypeInv, TypeOK, TaskInv

LEMMA DeliverToUserTask ==
    ASSUME TypeInv, NEW e \in KafkaEvents, NEW c \in Clients, DeliverToUser(e, c)
    PROVE  /\ task[e].st = "deliver" /\ task[e].on \in Instances /\ c \in task[e].todo
           /\ OthersSame(e) /\ task'[e].st = "deliver"
           /\ task'[e].todo = task[e].todo \ {c}
           /\ task'[e].remote = task[e].remote \cup ({key[c]} \ {task[e].on, NoInstance})
           /\ task'[e].on = task[e].on /\ task'[e].times = task[e].times
  BY DEF DeliverToUser, OthersSame, TypeInv, TypeOK, TaskInv

LEMMA PublishRemoteTask ==
    ASSUME TypeInv, NEW e \in KafkaEvents, PublishRemote(e)
    PROVE  /\ task[e].st = "deliver" /\ task[e].on \in Instances /\ task[e].todo = {}
           /\ OthersSame(e) /\ task'[e].st = "done"
           /\ task'[e].todo = {} /\ task'[e].remote = {}
           /\ task'[e].on = task[e].on /\ task'[e].times = task[e].times
           /\ \A j \in Instances, f \in KafkaEvents :
                 channel'[j][f] = IF j \in task[e].remote /\ f = e
                                  THEN channel[j][f] + 1 ELSE channel[j][f]
           /\ data' = [data EXCEPT ![task[e].on] = @ \ Removed(e)]
  <1>1. \A j \in Instances, f \in KafkaEvents :
           channel'[j][f] = IF j \in task[e].remote /\ f = e
                            THEN channel[j][f] + 1 ELSE channel[j][f]
    BY DEF PublishRemote, Copies, TypeInv, TypeOK
  <1> QED BY <1>1 DEF PublishRemote, Remove, OthersSame, TypeInv, TypeOK, TaskInv

LEMMA HandleFailsTask ==
    ASSUME TypeInv, NEW e \in KafkaEvents, HandleFails(e)
    PROVE  /\ OthersSame(e)
           /\ task[e].st \in {"fetched", "deliver"} /\ task'[e].st \in {"done", task[e].st}
           /\ task[e].st = "fetched" => task'[e].st = "done"
           /\ task'[e].todo \subseteq task[e].todo /\ task'[e].remote = task[e].remote
           /\ task'[e].on = task[e].on /\ task'[e].times = task[e].times
  BY DEF HandleFails, OthersSame, TypeInv, TypeOK

LEMMA CrashTask ==
    ASSUME TypeInv, NEW i \in Instances, Crash(i), NEW e \in KafkaEvents
    PROVE  /\ task'[e].times = task[e].times
           /\ \/ task'[e] = task[e] /\ task[e].on # i
              \/ task'[e].st \in {"none", "done"} /\ task'[e].todo = {}
  <1>1. PICK again \in SUBSET {f \in KafkaEvents : task[f].on = i} :
           task' = [f \in KafkaEvents |->
                       IF f \in again THEN [NoTask EXCEPT !.times = task[f].times]
                       ELSE IF task[f].on = i
                            THEN [task[f] EXCEPT !.st = "done", !.todo = {}, !.remote = {}]
                            ELSE task[f]]
    BY DEF Crash
  <1>2. task[e] \in TaskSet
    BY DEF TypeInv, TypeOK, TaskSet
  <1>3. CASE e \in again
    BY <1>1, <1>2, <1>3 DEF NoTask, TaskSet
  <1>4. CASE e \notin again /\ task[e].on = i
    BY <1>1, <1>2, <1>4 DEF TaskSet
  <1>5. CASE e \notin again /\ task[e].on # i
    BY <1>1, <1>5
  <1> QED BY <1>3, <1>4, <1>5

LEMMA DeliverRemoteCache ==
    ASSUME TypeInv, NEW j \in Instances, NEW e \in KafkaEvents, DeliverRemote(j, e)
    PROVE  UNCHANGED data \/ (data[j] = {} /\ data' = [data EXCEPT ![j] = members])
  <1>1. UNCHANGED data \/ (data[j] = {} /\ SetMembers(j, ResolvedMembers(data[j])))
    BY DEF DeliverRemote
  <1> QED BY <1>1 DEF SetMembers, ResolvedMembers

-----------------------------------------------------------------------------
(* Nothing for outsiders *)

\* What became of the participants CONVERSATION_CREATED names.
MembersInv ==
    members = IF ~changed THEN created
              ELSE IF Changing \in created THEN created \ {Changing}
                   ELSE created \cup {Changing}

Insiders == created \cup members

\* Who is, or ever was, a participant: the only users a cache has and a
\* goroutine delivers to.
OutsiderInv ==
    /\ MembersInv
    /\ \A i \in Instances : data[i] \subseteq Insiders
    /\ \A e \in KafkaEvents : task[e].todo \subseteq Insiders
    /\ OutsiderGetsNothing

LEMMA OutsiderStep ==
    ASSUME TypeInv, OutsiderInv, [Next]_vars
    PROVE  OutsiderInv'
  <1> USE DispatchAssumption
  <1>0. /\ MembersInv /\ OutsiderGetsNothing
        /\ \A i \in Instances : data[i] \subseteq Insiders
        /\ \A e \in KafkaEvents : task[e].todo \subseteq Insiders
        /\ data \in [Instances -> SUBSET Clients] /\ TypeOK
    BY DEF OutsiderInv, TypeInv, TypeOK
  \* A step that leaves the tables alone, and sends only to insiders.
  <1>1. ASSUME UNCHANGED <<created, members, changed>>,
               \A i \in Instances : data'[i] \subseteq Insiders,
               \A e \in KafkaEvents : task'[e].todo \subseteq Insiders,
               \A c \in Clients \ Insiders : /\ copies'[c] = copies[c] \/ copies'[c] = NoCopies
                                             /\ c \in told' => c \in told
        PROVE  OutsiderInv'
    BY <1>0, <1>1 DEF OutsiderInv, MembersInv, OutsiderGetsNothing, Insiders
  <1>2. CASE ChangeMembership
    <2>1. Insiders \subseteq Insiders'
      BY <1>0, <1>2 DEF ChangeMembership, MembersInv, Insiders
    <2>2. MembersInv'
      BY <1>0, <1>2 DEF ChangeMembership, MembersInv
    <2>3. UNCHANGED <<copies, told, data, task>>
      BY <1>2 DEF ChangeMembership, sessions, caches
    <2>4. OutsiderGetsNothing'
      BY <1>0, <2>1, <2>3 DEF OutsiderGetsNothing, Insiders
    <2> QED BY <1>0, <2>1, <2>2, <2>3, <2>4 DEF OutsiderInv
  <1>3. ASSUME NEW c \in Clients, NEW i \in Instances, Connect(c, i)
        PROVE  OutsiderInv'
    <2>1. \A d \in Clients : copies'[d] = copies[d] \/ copies'[d] = NoCopies
      BY <1>0, <1>3 DEF Connect, TypeOK
    <2> QED BY <1>0, <1>1, <1>3, <2>1 DEF Connect, tables, caches
  <1>15. ASSUME NEW c \in Clients, Leave(c) \/ PresenceStep(c)
         PROVE  OutsiderInv'
    <2>1. UNCHANGED <<created, members, changed, copies, told, data, task>>
      BY <1>15 DEF Leave, PresenceStep, tables, caches
    <2> QED BY <1>0, <1>1, <2>1
  <1>4. ASSUME NEW e \in KafkaEvents, NEW i \in Instances, Consume(e, i)
        PROVE  OutsiderInv'
    <2>1. \A f \in KafkaEvents : task'[f].todo = task[f].todo
      BY <1>4, ConsumeTask DEF OthersSame
    <2> QED BY <1>0, <1>1, <1>4, <2>1 DEF Consume, tables, caches, sessions
  <1>5. ASSUME NEW e \in KafkaEvents, PreRoute(e)
        PROVE  OutsiderInv'
    <2>1. \A i \in Instances : data'[i] \subseteq Insiders
      <3>1. CASE e = Created /\ data' = [data EXCEPT ![task[e].on] = created]
        BY <1>0, <3>1 DEF Insiders
      <3>2. CASE e = Change /\ data' = [data EXCEPT ![task[e].on] = @ \cup {Changing}]
        <4>1. changed
          BY <1>5, <3>2, PreRouteTask DEF TypeInv, TaskInv
        <4>2. Changing \in Insiders
          BY <1>0, <4>1 DEF MembersInv, Insiders
        <4> QED BY <1>0, <3>2, <4>2
      <3>3. CASE UNCHANGED data
        BY <1>0, <3>3
      <3> QED BY <1>5, <3>1, <3>2, <3>3, PreRouteTask
    <2>2. task[e].on \in Instances /\ OthersSame(e)
          /\ task'[e].todo = ResolvedMembers(data'[task[e].on])
          /\ UNCHANGED <<created, members, changed, copies, told>>
      BY <1>5, PreRouteTask
    <2>3. \A f \in KafkaEvents : task'[f].todo \subseteq Insiders
      BY <1>0, <2>1, <2>2 DEF OthersSame, ResolvedMembers, Insiders
    <2> QED BY <1>1, <2>1, <2>2, <2>3
  <1>6. ASSUME NEW e \in KafkaEvents, CacheFetched(e)
        PROVE  OutsiderInv'
    <2>1. \A f \in KafkaEvents : task'[f].todo = task[f].todo
      BY <1>6, CacheFetchedTask DEF OthersSame
    <2>2. \A i \in Instances : data'[i] \subseteq Insiders
      BY <1>0, <1>6, CacheFetchedTask
    <2> QED BY <1>0, <1>1, <1>6, <2>1, <2>2 DEF CacheFetched, tables, sessions
  <1>7. ASSUME NEW e \in KafkaEvents, NEW c \in Clients, DeliverToUser(e, c)
        PROVE  OutsiderInv'
    <2>1. c \in Insiders /\ \A f \in KafkaEvents : task'[f].todo \subseteq task[f].todo
      BY <1>0, <1>7, DeliverToUserTask DEF OthersSame
    <2>2. \A d \in Clients \ Insiders : copies'[d] = copies[d]
      BY <1>0, <1>7, <2>1 DEF DeliverToUser, TypeOK
    <2> QED BY <1>0, <1>1, <1>7, <2>1, <2>2 DEF DeliverToUser, tables, caches
  <1>8. ASSUME NEW e \in KafkaEvents, PublishRemote(e)
        PROVE  OutsiderInv'
    <2>1. \A f \in KafkaEvents : task'[f].todo \subseteq task[f].todo
      BY <1>8, PublishRemoteTask DEF OthersSame
    <2>2. \A i \in Instances : data'[i] \subseteq Insiders
      BY <1>0, <1>8, PublishRemoteTask
    <2> QED BY <1>0, <1>1, <1>8, <2>1, <2>2 DEF PublishRemote, tables, sessions
  <1>9. ASSUME NEW e \in KafkaEvents, HandleFails(e)
        PROVE  OutsiderInv'
    <2>1. \A f \in KafkaEvents : task'[f].todo \subseteq task[f].todo
      BY <1>9, HandleFailsTask DEF OthersSame
    <2>2. UNCHANGED <<created, members, changed, copies, told, data>>
      BY <1>9 DEF HandleFails, tables, sessions, caches
    <2> QED BY <1>0, <1>1, <2>1, <2>2
  <1>10. ASSUME NEW j \in Instances, NEW e \in KafkaEvents, DeliverRemote(j, e)
         PROVE  OutsiderInv'
    <2>1. \A i \in Instances : data'[i] \subseteq Insiders
      BY <1>0, <1>10, DeliverRemoteCache DEF Insiders
    <2>2. ResolvedMembers(data[j]) \subseteq Insiders
      BY <1>0 DEF ResolvedMembers, Insiders
    <2>3. \A d \in Clients \ Insiders : copies'[d] = copies[d]
      BY <1>0, <1>10, <2>2 DEF DeliverRemote, RemoteReceivers
    <2>4. UNCHANGED <<created, members, changed, told, task>>
      BY <1>10 DEF DeliverRemote, tables
    <2> QED BY <1>0, <1>1, <2>1, <2>3, <2>4
  <1>11. ASSUME NEW j \in Instances, NEW e \in KafkaEvents, RemoteFails(j, e)
         PROVE  OutsiderInv'
    <2>1. UNCHANGED <<created, members, changed, copies, told, data, task>>
      BY <1>11 DEF RemoteFails, tables, sessions, caches
    <2> QED BY <1>0, <1>1, <2>1
  <1>12. ASSUME NEW i \in Instances, NEW c \in Clients, NEW u \in Clients,
                NotifySubscribers(i, c, u)
         PROVE  OutsiderInv'
    <2>1. told' \subseteq told \cup data[i]
      BY <1>12 DEF NotifySubscribers
    <2>2. UNCHANGED <<created, members, changed, copies, data, task>>
      BY <1>12 DEF NotifySubscribers, tables, caches
    <2> QED BY <1>0, <1>1, <2>1, <2>2
  <1>13. ASSUME NEW i \in Instances, Crash(i)
         PROVE  OutsiderInv'
    <2>1. UNCHANGED <<created, members, changed, copies, told>>
          /\ data' = [data EXCEPT ![i] = {}]
      BY <1>13 DEF Crash, tables
    <2>2. \A f \in KafkaEvents : task'[f].todo \subseteq task[f].todo
      BY <1>13, CrashTask
    <2> QED BY <1>0, <1>1, <2>1, <2>2
  <1>14. CASE UNCHANGED vars
    BY <1>0, <1>1, <1>14 DEF vars, tables, sessions, caches
  <1> QED BY <1>2, <1>3, <1>4, <1>5, <1>6, <1>7, <1>8, <1>9, <1>10, <1>11, <1>12, <1>13,
             <1>14, <1>15
          DEF Next, HandleStep

\* For any number of clients, instances and events: who never was a participant
\* is sent no event of the conversation, and no presence of its members.
THEOREM OutsiderGetsNothingCorrect == Spec => []OutsiderGetsNothing
  <1>1. Init => OutsiderInv
    BY DispatchAssumption DEF Init, NoTask, OutsiderInv, OutsiderGetsNothing, MembersInv, Insiders
  <1>2. TypeInv /\ OutsiderInv /\ [Next]_vars => OutsiderInv'
    BY OutsiderStep
  <1>3. OutsiderInv => OutsiderGetsNothing
    BY DEF OutsiderInv
  <1> QED BY <1>1, <1>2, <1>3, TypeCorrect, PTL DEF Spec

-----------------------------------------------------------------------------
(* Once per consumption *)

\* The goroutine of the event is still at work.
Active(e) == task[e].st \in {"resolve", "fetched", "deliver"}

\* The goroutine may still deliver the event to c: to its session here, if c is
\* yet to be served, or through the channel of the instance that has c.
Pending(c, e) ==
    Active(e) /\ (at[c] = task[e].on => task[e].st # "deliver" \/ c \in task[e].todo)

\* Each consumption is good for one copy: the connection has it, it is in the
\* channel of its instance, or the goroutine has yet to make it.
OnceInv ==
    /\ \A j \in Instances, e \in KafkaEvents :
          channel[j][e] <= task[e].times /\ (Active(e) => channel[j][e] < task[e].times)
    /\ \A c \in Clients, e \in KafkaEvents :
          /\ copies[c][e] <= task[e].times
          /\ at[c] \in Instances => copies[c][e] + channel[at[c]][e] <= task[e].times
          /\ at[c] \in Instances /\ Pending(c, e)
                => copies[c][e] + channel[at[c]][e] < task[e].times

LEMMA OnceStep ==
    ASSUME TypeInv, OnceInv, [Next]_vars
    PROVE  OnceInv'
  <1> USE DispatchAssumption
  <1>0. /\ at \in [Clients -> Instances \cup {NoInstance}]
        /\ copies \in [Clients -> [KafkaEvents -> Nat]]
        /\ channel \in [Instances -> [KafkaEvents -> Nat]]
        /\ \A e \in KafkaEvents : task[e].times \in Nat
    BY DEF TypeInv, TypeOK
  \* What one consumption of f may not exceed, on the instances and at the clients.
  <1>1. ASSUME \A j \in Instances, f \in KafkaEvents :
                  /\ channel'[j][f] <= task'[f].times
                  /\ Active(f)' => channel'[j][f] < task'[f].times,
               \A c \in Clients, f \in KafkaEvents :
                  /\ copies'[c][f] <= task'[f].times
                  /\ at'[c] \in Instances =>
                        copies'[c][f] + channel'[at'[c]][f] <= task'[f].times
                  /\ at'[c] \in Instances /\ Pending(c, f)' =>
                        copies'[c][f] + channel'[at'[c]][f] < task'[f].times
        PROVE  OnceInv'
    BY <1>1 DEF OnceInv
  \* A step that makes no copy and takes none off a connection.
  <1>2. ASSUME UNCHANGED <<at, copies>>,
               \A f \in KafkaEvents : /\ task'[f].times = task[f].times
                                      /\ Active(f)' => Active(f)
                                      /\ \A c \in Clients : Pending(c, f)' => Pending(c, f),
               \A j \in Instances, f \in KafkaEvents :
                  channel'[j][f] \in Nat /\ channel'[j][f] <= channel[j][f]
        PROVE  OnceInv'
    <2>1. ASSUME NEW j \in Instances, NEW f \in KafkaEvents
          PROVE  /\ channel'[j][f] <= task'[f].times
                 /\ Active(f)' => channel'[j][f] < task'[f].times
      <3>1. /\ channel[j][f] <= task[f].times
            /\ Active(f) => channel[j][f] < task[f].times
        BY DEF OnceInv
      <3> QED BY <1>0, <1>2, <3>1
    <2>2. ASSUME NEW c \in Clients, NEW f \in KafkaEvents
          PROVE  /\ copies'[c][f] <= task'[f].times
                 /\ at'[c] \in Instances =>
                       copies'[c][f] + channel'[at'[c]][f] <= task'[f].times
                 /\ at'[c] \in Instances /\ Pending(c, f)' =>
                       copies'[c][f] + channel'[at'[c]][f] < task'[f].times
      <3>1. /\ copies[c][f] <= task[f].times
            /\ at[c] \in Instances => copies[c][f] + channel[at[c]][f] <= task[f].times
            /\ at[c] \in Instances /\ Pending(c, f)
                  => copies[c][f] + channel[at[c]][f] < task[f].times
        BY DEF OnceInv
      <3>2. copies[c][f] \in Nat /\ task[f].times \in Nat
        BY <1>0
      <3>3. at[c] \in Instances => /\ channel[at[c]][f] \in Nat /\ channel'[at[c]][f] \in Nat
                                   /\ channel'[at[c]][f] <= channel[at[c]][f]
        BY <1>0, <1>2
      <3> QED BY <1>2, <3>1, <3>2, <3>3
    <2> QED BY <1>1, <2>1, <2>2
  <1>3. ASSUME UNCHANGED <<at, copies, task, channel>>
        PROVE  OnceInv'
    BY <1>0, <1>2, <1>3 DEF Active, Pending
  <1>4. ASSUME NEW c \in Clients, NEW i \in Instances, Connect(c, i)
        PROVE  OnceInv'
    <2>1. UNCHANGED <<task, channel>> /\ at' = [at EXCEPT ![c] = i]
          /\ copies' = [copies EXCEPT ![c] = NoCopies]
      BY <1>4 DEF Connect
    <2>2. ASSUME NEW d \in Clients, NEW f \in KafkaEvents
          PROVE  /\ copies'[d][f] <= task'[f].times
                 /\ at'[d] \in Instances =>
                       copies'[d][f] + channel'[at'[d]][f] <= task'[f].times
                 /\ at'[d] \in Instances /\ Pending(d, f)' =>
                       copies'[d][f] + channel'[at'[d]][f] < task'[f].times
      <3>1. CASE d = c
        <4>1. copies'[d][f] = 0 /\ at'[d] = i /\ channel[i][f] \in Nat
          BY <1>0, <2>1, <3>1 DEF NoCopies
        <4>2. channel[i][f] <= task[f].times /\ (Active(f) => channel[i][f] < task[f].times)
          BY DEF OnceInv
        <4>3. Pending(d, f)' => Active(f)
          BY <2>1 DEF Pending, Active
        <4> QED BY <1>0, <2>1, <4>1, <4>2, <4>3
      <3>2. CASE d # c
        <4>1. copies'[d] = copies[d] /\ at'[d] = at[d] /\ (Pending(d, f)' <=> Pending(d, f))
          BY <1>0, <2>1, <3>2 DEF Pending, Active
        <4> QED BY <2>1, <4>1 DEF OnceInv
      <3> QED BY <3>1, <3>2
    <2>3. ASSUME NEW j \in Instances, NEW f \in KafkaEvents
          PROVE  /\ channel'[j][f] <= task'[f].times
                 /\ Active(f)' => channel'[j][f] < task'[f].times
      BY <2>1 DEF OnceInv, Active
    <2> QED BY <1>1, <2>2, <2>3
  <1>17. ASSUME NEW c \in Clients, Leave(c)
         PROVE  OnceInv'
    <2>1. UNCHANGED <<copies, task, channel>> /\ at' = [at EXCEPT ![c] = NoInstance]
      BY <1>17 DEF Leave
    <2>2. ASSUME NEW d \in Clients, NEW f \in KafkaEvents
          PROVE  /\ copies'[d][f] <= task'[f].times
                 /\ at'[d] \in Instances =>
                       copies'[d][f] + channel'[at'[d]][f] <= task'[f].times
                 /\ at'[d] \in Instances /\ Pending(d, f)' =>
                       copies'[d][f] + channel'[at'[d]][f] < task'[f].times
      <3>1. at'[d] \in Instances => at'[d] = at[d] /\ (Pending(d, f)' <=> Pending(d, f))
        BY <1>0, <2>1 DEF Pending, Active
      <3> QED BY <2>1, <3>1 DEF OnceInv
    <2>3. ASSUME NEW j \in Instances, NEW f \in KafkaEvents
          PROVE  /\ channel'[j][f] <= task'[f].times
                 /\ Active(f)' => channel'[j][f] < task'[f].times
      BY <2>1 DEF OnceInv, Active
    <2> QED BY <1>1, <2>2, <2>3
  <1>18. ASSUME NEW c \in Clients, PresenceStep(c)
         PROVE  OnceInv'
    BY <1>3, <1>18 DEF PresenceStep
  <1>5. ASSUME NEW e \in KafkaEvents, NEW i \in Instances, Consume(e, i)
        PROVE  OnceInv'
    <2>1. UNCHANGED <<at, copies, channel>>
      BY <1>5 DEF Consume, sessions
    <2>2. task'[e].times = task[e].times + 1 /\ OthersSame(e)
      BY <1>5, ConsumeTask
    <2>3. ASSUME NEW j \in Instances, NEW f \in KafkaEvents
          PROVE  /\ channel'[j][f] <= task'[f].times
                 /\ Active(f)' => channel'[j][f] < task'[f].times
      <3>1. channel[j][f] \in Nat /\ task[f].times \in Nat
        BY <1>0
      <3> QED BY <2>1, <2>2, <3>1 DEF OnceInv, Active, OthersSame
    <2>4. ASSUME NEW c \in Clients, NEW f \in KafkaEvents
          PROVE  /\ copies'[c][f] <= task'[f].times
                 /\ at'[c] \in Instances =>
                       copies'[c][f] + channel'[at'[c]][f] <= task'[f].times
                 /\ at'[c] \in Instances /\ Pending(c, f)' =>
                       copies'[c][f] + channel'[at'[c]][f] < task'[f].times
      <3>1. /\ copies[c][f] \in Nat /\ task[f].times \in Nat
            /\ at[c] \in Instances => channel[at[c]][f] \in Nat
        BY <1>0
      <3>2. CASE f = e
        BY <2>1, <2>2, <3>1, <3>2 DEF OnceInv
      <3>3. CASE f # e
        <4>1. task'[f] = task[f]
          BY <2>2, <3>3 DEF OthersSame
        <4> QED BY <2>1, <4>1 DEF OnceInv, Pending, Active
      <3> QED BY <3>2, <3>3
    <2> QED BY <1>1, <2>3, <2>4
  <1>6. ASSUME NEW e \in KafkaEvents, PreRoute(e)
        PROVE  OnceInv'
    <2>1. UNCHANGED <<at, copies, channel>>
      BY <1>6, PreRouteTask
    <2>2. /\ OthersSame(e) /\ task'[e].times = task[e].times /\ task'[e].on = task[e].on
          /\ task[e].st = "resolve"
      BY <1>6, PreRouteTask
    <2>3. ASSUME NEW f \in KafkaEvents
          PROVE  /\ task'[f].times = task[f].times
                 /\ Active(f)' => Active(f)
                 /\ \A c \in Clients : Pending(c, f)' => Pending(c, f)
      BY <2>1, <2>2 DEF Active, Pending, OthersSame
    <2> QED BY <1>0, <1>2, <2>1, <2>3
  <1>7. ASSUME NEW e \in KafkaEvents, CacheFetched(e)
        PROVE  OnceInv'
    <2>1. UNCHANGED <<at, copies, channel>>
      BY <1>7 DEF CacheFetched, sessions
    <2>2. /\ OthersSame(e) /\ task'[e].times = task[e].times /\ task'[e].on = task[e].on
          /\ task[e].st = "fetched"
      BY <1>7, CacheFetchedTask
    <2>3. ASSUME NEW f \in KafkaEvents
          PROVE  /\ task'[f].times = task[f].times
                 /\ Active(f)' => Active(f)
                 /\ \A c \in Clients : Pending(c, f)' => Pending(c, f)
      BY <2>1, <2>2 DEF Active, Pending, OthersSame
    <2> QED BY <1>0, <1>2, <2>1, <2>3
  <1>8. ASSUME NEW e \in KafkaEvents, NEW c \in Clients, DeliverToUser(e, c)
        PROVE  OnceInv'
    <2>1. /\ UNCHANGED <<at, channel>>
          /\ \/ UNCHANGED copies
             \/ at[c] = task[e].on /\ copies' = [copies EXCEPT ![c][e] = @ + 1]
      BY <1>8 DEF DeliverToUser
    <2>2. /\ OthersSame(e) /\ task'[e].times = task[e].times /\ task'[e].on = task[e].on
          /\ task[e].st = "deliver" /\ task'[e].st = "deliver" /\ c \in task[e].todo
          /\ task'[e].todo = task[e].todo \ {c} /\ task[e].on \in Instances
      BY <1>8, DeliverToUserTask
    <2>3. ASSUME NEW f \in KafkaEvents
          PROVE  /\ task'[f].times = task[f].times
                 /\ Active(f)' => Active(f)
                 /\ \A d \in Clients : Pending(d, f)' => Pending(d, f)
      BY <2>1, <2>2 DEF Active, Pending, OthersSame
    <2>4. CASE UNCHANGED copies
      BY <1>0, <1>2, <2>1, <2>3, <2>4
    <2>5. CASE at[c] = task[e].on /\ copies' = [copies EXCEPT ![c][e] = @ + 1]
      <3>1. Pending(c, e) /\ ~Pending(c, e)'
        BY <2>1, <2>2, <2>5 DEF Pending, Active
      <3>2. copies'[c][e] = copies[c][e] + 1
            /\ \A d \in Clients, f \in KafkaEvents :
                  d # c \/ f # e => copies'[d][f] = copies[d][f]
        BY <1>0, <2>5
      <3>3. ASSUME NEW j \in Instances, NEW f \in KafkaEvents
            PROVE  /\ channel'[j][f] <= task'[f].times
                   /\ Active(f)' => channel'[j][f] < task'[f].times
        BY <2>1, <2>3 DEF OnceInv
      <3>4. ASSUME NEW d \in Clients, NEW f \in KafkaEvents
            PROVE  /\ copies'[d][f] <= task'[f].times
                   /\ at'[d] \in Instances =>
                         copies'[d][f] + channel'[at'[d]][f] <= task'[f].times
                   /\ at'[d] \in Instances /\ Pending(d, f)' =>
                         copies'[d][f] + channel'[at'[d]][f] < task'[f].times
        <4>1. CASE d = c /\ f = e
          <5>1. copies[c][e] \in Nat /\ task[e].times \in Nat /\ channel[at[c]][e] \in Nat
            BY <1>0, <2>2, <2>5
          <5>2. copies[c][e] + channel[at[c]][e] < task[e].times
            BY <2>2, <2>5, <3>1 DEF OnceInv
          <5> QED BY <2>1, <2>3, <3>1, <3>2, <4>1, <5>1, <5>2
        <4>2. CASE d # c \/ f # e
          <5>1. copies'[d][f] = copies[d][f]
            BY <3>2, <4>2
          <5> QED BY <2>1, <2>3, <5>1 DEF OnceInv
        <4> QED BY <4>1, <4>2
      <3> QED BY <1>1, <3>3, <3>4
    <2> QED BY <2>1, <2>4, <2>5
  <1>9. ASSUME NEW e \in KafkaEvents, PublishRemote(e)
        PROVE  OnceInv'
    <2>1. UNCHANGED <<at, copies>>
      BY <1>9 DEF PublishRemote, sessions
    <2>2. /\ OthersSame(e) /\ task'[e].times = task[e].times /\ task'[e].st = "done"
          /\ task[e].st = "deliver"
          /\ \A j \in Instances, f \in KafkaEvents :
                channel'[j][f] = IF j \in task[e].remote /\ f = e
                                 THEN channel[j][f] + 1 ELSE channel[j][f]
      BY <1>9, PublishRemoteTask
    <2>3. Active(e) /\ ~Active(e)' /\ task[e].on \notin task[e].remote
      BY <2>2 DEF Active, TypeInv, TaskInv
    <2>4. ASSUME NEW j \in Instances, NEW f \in KafkaEvents
          PROVE  /\ channel'[j][f] <= task'[f].times
                 /\ Active(f)' => channel'[j][f] < task'[f].times
      <3>1. channel[j][f] \in Nat /\ task[f].times \in Nat
        BY <1>0
      <3>2. CASE f = e
        <4>1. channel[j][f] < task[f].times
          BY <2>3, <3>2 DEF OnceInv
        <4> QED BY <2>2, <2>3, <3>1, <3>2, <4>1
      <3>3. CASE f # e
        BY <2>2, <3>3 DEF OnceInv, Active, OthersSame
      <3> QED BY <3>2, <3>3
    <2>5. ASSUME NEW c \in Clients, NEW f \in KafkaEvents
          PROVE  /\ copies'[c][f] <= task'[f].times
                 /\ at'[c] \in Instances =>
                       copies'[c][f] + channel'[at'[c]][f] <= task'[f].times
                 /\ at'[c] \in Instances /\ Pending(c, f)' =>
                       copies'[c][f] + channel'[at'[c]][f] < task'[f].times
      <3>1. /\ copies[c][f] \in Nat /\ task[f].times \in Nat
            /\ at[c] \in Instances => channel[at[c]][f] \in Nat
        BY <1>0
      <3>2. CASE f = e
        <4>1. at[c] \in task[e].remote => Pending(c, e)
          BY <2>3 DEF Pending
        <4>2. ~Pending(c, e)'
          BY <2>3 DEF Pending
        <4> QED BY <2>1, <2>2, <3>1, <3>2, <4>1, <4>2 DEF OnceInv
      <3>3. CASE f # e
        <4>1. task'[f] = task[f]
          BY <2>2, <3>3 DEF OthersSame
        <4> QED BY <2>1, <2>2, <3>3, <4>1 DEF OnceInv, Pending, Active
      <3> QED BY <3>2, <3>3
    <2> QED BY <1>1, <2>4, <2>5
  <1>10. ASSUME NEW e \in KafkaEvents, HandleFails(e)
         PROVE  OnceInv'
    <2>1. UNCHANGED <<at, copies, channel>>
      BY <1>10 DEF HandleFails, sessions
    <2>2. ASSUME NEW f \in KafkaEvents
          PROVE  /\ task'[f].times = task[f].times
                 /\ Active(f)' => Active(f)
                 /\ \A c \in Clients : Pending(c, f)' => Pending(c, f)
      BY <1>10, <2>1, HandleFailsTask DEF Active, Pending, OthersSame
    <2> QED BY <1>0, <1>2, <2>1, <2>2
  <1>11. ASSUME NEW j \in Instances, NEW e \in KafkaEvents, DeliverRemote(j, e)
         PROVE  OnceInv'
    <2>1. /\ UNCHANGED <<at, task>> /\ channel[j][e] > 0
          /\ channel' = [channel EXCEPT ![j][e] = @ - 1]
      BY <1>11 DEF DeliverRemote
    <2>2. ASSUME NEW c \in Clients, NEW f \in KafkaEvents
          PROVE  /\ copies'[c][f] = copies[c][f] \/ copies'[c][f] = copies[c][f] + 1
                 /\ copies'[c][f] # copies[c][f] => at[c] = j /\ f = e
      BY <1>0, <1>11 DEF DeliverRemote, RemoteReceivers
    <2>3. ASSUME NEW k \in Instances, NEW f \in KafkaEvents
          PROVE  /\ channel'[k][f] = IF k = j /\ f = e THEN channel[k][f] - 1
                                     ELSE channel[k][f]
                 /\ channel[k][f] \in Nat
      BY <1>0, <2>1
    <2>4. ASSUME NEW k \in Instances, NEW f \in KafkaEvents
          PROVE  /\ channel'[k][f] <= task'[f].times
                 /\ Active(f)' => channel'[k][f] < task'[f].times
      BY <1>0, <2>1, <2>3 DEF OnceInv, Active
    <2>5. ASSUME NEW c \in Clients, NEW f \in KafkaEvents
          PROVE  /\ copies'[c][f] <= task'[f].times
                 /\ at'[c] \in Instances =>
                       copies'[c][f] + channel'[at'[c]][f] <= task'[f].times
                 /\ at'[c] \in Instances /\ Pending(c, f)' =>
                       copies'[c][f] + channel'[at'[c]][f] < task'[f].times
      <3>1. /\ copies[c][f] \in Nat /\ task[f].times \in Nat
            /\ copies[c][f] <= task[f].times
            /\ at[c] \in Instances => copies[c][f] + channel[at[c]][f] <= task[f].times
            /\ at[c] \in Instances /\ Pending(c, f)
                  => copies[c][f] + channel[at[c]][f] < task[f].times
        BY <1>0 DEF OnceInv
      <3>2. Pending(c, f)' <=> Pending(c, f)
        BY <2>1 DEF Pending, Active
      <3>3. CASE at[c] = j /\ f = e
        BY <2>1, <2>2, <2>3, <3>1, <3>2, <3>3
      <3>4. CASE ~(at[c] = j /\ f = e)
        <4>1. copies'[c][f] = copies[c][f]
              /\ (at[c] \in Instances => channel'[at[c]][f] = channel[at[c]][f])
          BY <2>2, <2>3, <3>4
        <4> QED BY <2>1, <3>1, <3>2, <4>1
      <3> QED BY <3>3, <3>4
    <2> QED BY <1>1, <2>4, <2>5
  <1>12. ASSUME NEW j \in Instances, NEW e \in KafkaEvents, RemoteFails(j, e)
         PROVE  OnceInv'
    <2>1. /\ UNCHANGED <<at, copies, task>> /\ channel[j][e] > 0
          /\ channel' = [channel EXCEPT ![j][e] = @ - 1]
      BY <1>12 DEF RemoteFails, sessions
    <2>2. ASSUME NEW k \in Instances, NEW f \in KafkaEvents
          PROVE  channel'[k][f] \in Nat /\ channel'[k][f] <= channel[k][f]
      BY <1>0, <2>1
    <2> QED BY <1>2, <2>1, <2>2 DEF Pending, Active
  <1>13. ASSUME NEW i \in Instances, Crash(i)
         PROVE  OnceInv'
    <2>1. /\ UNCHANGED copies
          /\ at' = [c \in Clients |-> IF at[c] = i THEN NoInstance ELSE at[c]]
          /\ channel' = [channel EXCEPT ![i] = NoCopies]
      BY <1>13 DEF Crash
    <2>2. ASSUME NEW f \in KafkaEvents
          PROVE  task'[f].times = task[f].times /\ (Active(f)' => task'[f] = task[f])
      BY <1>13, CrashTask DEF Active
    <2>3. ASSUME NEW k \in Instances, NEW f \in KafkaEvents
          PROVE  /\ channel'[k][f] <= channel[k][f] /\ channel[k][f] \in Nat
                 /\ channel'[k][f] \in Nat /\ (k # i => channel'[k][f] = channel[k][f])
      BY <1>0, <2>1 DEF NoCopies
    <2>4. ASSUME NEW k \in Instances, NEW f \in KafkaEvents
          PROVE  /\ channel'[k][f] <= task'[f].times
                 /\ Active(f)' => channel'[k][f] < task'[f].times
      <3>1. /\ channel[k][f] <= task[f].times
            /\ Active(f) => channel[k][f] < task[f].times
        BY DEF OnceInv
      <3> QED BY <1>0, <2>2, <2>3, <3>1 DEF Active
    <2>5. ASSUME NEW c \in Clients, NEW f \in KafkaEvents
          PROVE  /\ copies'[c][f] <= task'[f].times
                 /\ at'[c] \in Instances =>
                       copies'[c][f] + channel'[at'[c]][f] <= task'[f].times
                 /\ at'[c] \in Instances /\ Pending(c, f)' =>
                       copies'[c][f] + channel'[at'[c]][f] < task'[f].times
      <3>1. /\ copies[c][f] <= task[f].times
            /\ at[c] \in Instances => copies[c][f] + channel[at[c]][f] <= task[f].times
            /\ at[c] \in Instances /\ Pending(c, f)
                  => copies[c][f] + channel[at[c]][f] < task[f].times
        BY DEF OnceInv
      <3>2. at'[c] \in Instances =>
               at'[c] = at[c] /\ channel'[at[c]][f] = channel[at[c]][f]
        BY <2>1, <2>3
      <3>3. at'[c] \in Instances /\ Pending(c, f)' => Pending(c, f)
        BY <2>2, <3>2 DEF Pending, Active
      <3> QED BY <2>1, <2>2, <3>1, <3>2, <3>3
    <2> QED BY <1>1, <2>4, <2>5
  <1>14. CASE ChangeMembership
    BY <1>3, <1>14 DEF ChangeMembership, sessions
  <1>15. ASSUME NEW i \in Instances, NEW c \in Clients, NEW u \in Clients,
                NotifySubscribers(i, c, u)
         PROVE  OnceInv'
    BY <1>3, <1>15 DEF NotifySubscribers
  <1>16. CASE UNCHANGED vars
    BY <1>3, <1>16 DEF vars, sessions
  <1> QED BY <1>4, <1>5, <1>6, <1>7, <1>8, <1>9, <1>10, <1>11, <1>12, <1>13, <1>14, <1>15,
             <1>16, <1>17, <1>18
          DEF Next, HandleStep

\* For any number of clients, instances, moves and crashes: a connection is sent
\* no event more often than the event was consumed.
THEOREM OncePerConsumptionCorrect == Spec => []OncePerConsumption
  <1>1. Init => OnceInv
    <2> SUFFICES ASSUME Init
                 PROVE  OnceInv
      OBVIOUS
    <2>1. /\ \A e \in KafkaEvents : task[e].times = 0 /\ task[e].st = "none"
          /\ \A j \in Instances, e \in KafkaEvents : channel[j][e] = 0
          /\ \A c \in Clients, e \in KafkaEvents : copies[c][e] = 0
      BY DEF Init, NoTask, NoCopies
    <2> QED BY <2>1 DEF OnceInv, Pending, Active
  <1>2. TypeInv /\ OnceInv /\ [Next]_vars => OnceInv'
    BY OnceStep
  <1>3. OnceInv => OncePerConsumption
    BY DEF OnceInv, OncePerConsumption
  <1> QED BY <1>1, <1>2, <1>3, TypeCorrect, PTL DEF Spec

-----------------------------------------------------------------------------
(* Every live member *)

\* A cache that is not empty, and what was fetched for one that is, has every
\* participant.
CacheInv ==
    NoneAdded =>
        /\ \A i \in Instances : data[i] = {} \/ members \subseteq data[i]
        /\ \A e \in KafkaEvents : task[e].st = "fetched" => members \subseteq task[e].todo

\* The event is on its way to c, or there.
OnItsWay(c, e) ==
    \/ task[e].st \in {"none", "resolve"}
    \/ task[e].st \in {"fetched", "deliver"} /\ c \in task[e].todo
    \/ task[e].st = "deliver" /\ at[c] \in task[e].remote
    \/ channel[at[c]][e] > 0
    \/ copies[c][e] > 0

LiveInv ==
    /\ MembersInv /\ CacheInv
    /\ faults = 0 /\ NoneAdded =>
          \A c \in members, e \in KafkaEvents :
              key[c] = at[c] /\ at[c] # NoInstance /\ e \notin late[c] => OnItsWay(c, e)

\* The caches keep every participant: a removal leaves the tables before it
\* leaves a cache, and what was fetched before it has more than is needed.
LEMMA CacheStep ==
    ASSUME TypeInv, MembersInv, CacheInv, [Next]_vars
    PROVE  MembersInv' /\ CacheInv'
  <1> USE DispatchAssumption
  <1>0. /\ data \in [Instances -> SUBSET Clients] /\ TypeOK
        /\ NoneAdded => members \subseteq created
        /\ NoneAdded => \A i \in Instances : data[i] = {} \/ members \subseteq data[i]
        /\ NoneAdded => \A e \in KafkaEvents : task[e].st = "fetched"
                                                  => members \subseteq task[e].todo
    BY DEF TypeInv, TypeOK, MembersInv, NoneAdded, CacheInv
  <1>1. ASSUME UNCHANGED <<created, members, changed>>,
               NoneAdded => \A i \in Instances : data'[i] = {} \/ members \subseteq data'[i],
               NoneAdded => \A e \in KafkaEvents : task'[e].st = "fetched"
                                                      => members \subseteq task'[e].todo
        PROVE  MembersInv' /\ CacheInv'
    BY <1>1 DEF MembersInv, CacheInv, NoneAdded
  <1>2. CASE ChangeMembership
    <2>1. MembersInv'
      BY <1>2 DEF ChangeMembership, MembersInv
    <2>2. NoneAdded' => NoneAdded /\ members' \subseteq members
      BY <1>2 DEF ChangeMembership, MembersInv, NoneAdded
    <2>3. UNCHANGED <<data, task>>
      BY <1>2 DEF ChangeMembership, caches
    <2> QED BY <1>0, <2>1, <2>2, <2>3 DEF CacheInv
  <1>3. ASSUME NEW e \in KafkaEvents, NEW i \in Instances, Consume(e, i)
        PROVE  MembersInv' /\ CacheInv'
    <2>1. UNCHANGED <<created, members, changed, data>>
      BY <1>3 DEF Consume, tables, caches
    <2>2. \A f \in KafkaEvents : task'[f].st = "fetched" => task'[f] = task[f]
      BY <1>3, ConsumeTask DEF OthersSame
    <2> QED BY <1>0, <1>1, <2>1, <2>2
  <1>4. ASSUME NEW e \in KafkaEvents, PreRoute(e)
        PROVE  MembersInv' /\ CacheInv'
    <2>1. /\ UNCHANGED <<created, members, changed>> /\ OthersSame(e)
          /\ task[e].on \in Instances /\ task[e].st = "resolve"
          /\ task'[e].todo = ResolvedMembers(data'[task[e].on])
          /\ task'[e].st = IF data'[task[e].on] # {} THEN "deliver" ELSE "fetched"
      BY <1>4, PreRouteTask
    <2>2. NoneAdded => \A i \in Instances : data'[i] = {} \/ members \subseteq data'[i]
      <3>1. CASE data' = [data EXCEPT ![task[e].on] = created]
        BY <1>0, <2>1, <3>1
      <3>2. CASE e = Change /\ Changing \notin created
        BY <2>1, <3>2 DEF NoneAdded, TypeInv, TaskInv
      <3>3. CASE UNCHANGED data
        BY <1>0, <3>3
      <3> QED BY <1>4, <3>1, <3>2, <3>3, PreRouteTask
    <2>3. NoneAdded => \A f \in KafkaEvents : task'[f].st = "fetched"
                                                 => members \subseteq task'[f].todo
      BY <1>0, <2>1 DEF OthersSame, ResolvedMembers
    <2> QED BY <1>1, <2>1, <2>2, <2>3
  <1>5. ASSUME NEW e \in KafkaEvents, CacheFetched(e)
        PROVE  MembersInv' /\ CacheInv'
    <2>1. UNCHANGED <<created, members, changed>>
      BY <1>5 DEF CacheFetched, tables
    <2>2. \A f \in KafkaEvents : task'[f].st = "fetched" => task'[f] = task[f]
      BY <1>5, CacheFetchedTask DEF OthersSame
    <2>3. NoneAdded => \A i \in Instances : data'[i] = {} \/ members \subseteq data'[i]
      BY <1>0, <1>5, CacheFetchedTask
    <2> QED BY <1>0, <1>1, <2>1, <2>2, <2>3
  <1>6. ASSUME NEW e \in KafkaEvents, NEW c \in Clients, DeliverToUser(e, c)
        PROVE  MembersInv' /\ CacheInv'
    <2>1. UNCHANGED <<created, members, changed, data>>
      BY <1>6 DEF DeliverToUser, tables, caches
    <2>2. \A f \in KafkaEvents : task'[f].st = "fetched" => task'[f] = task[f]
      BY <1>6, DeliverToUserTask DEF OthersSame
    <2> QED BY <1>0, <1>1, <2>1, <2>2
  <1>7. ASSUME NEW e \in KafkaEvents, PublishRemote(e)
        PROVE  MembersInv' /\ CacheInv'
    <2>1. UNCHANGED <<created, members, changed>>
      BY <1>7 DEF PublishRemote, tables
    <2>2. \A f \in KafkaEvents : task'[f].st = "fetched" => task'[f] = task[f]
      BY <1>7, PublishRemoteTask DEF OthersSame
    <2>3. members \cap Removed(e) = {}
      <3>1. CASE e = Change /\ Changing \in created
        <4>1. changed
          BY <1>7, <3>1, PublishRemoteTask DEF TypeInv, TaskInv
        <4> QED BY <3>1, <4>1 DEF Removed, MembersInv
      <3> QED BY <3>1 DEF Removed
    <2>4. NoneAdded => \A i \in Instances : data'[i] = {} \/ members \subseteq data'[i]
      <3>1. /\ task[e].on \in Instances
            /\ data' = [data EXCEPT ![task[e].on] = @ \ Removed(e)]
        BY <1>7, PublishRemoteTask
      <3>2. ASSUME NEW i \in Instances
            PROVE  data'[i] = data[i] \/ data'[i] = data[i] \ Removed(e)
        BY <1>0, <3>1
      <3> QED BY <1>0, <2>3, <3>2
    <2> QED BY <1>0, <1>1, <2>1, <2>2, <2>4
  <1>8. ASSUME NEW e \in KafkaEvents, HandleFails(e)
        PROVE  MembersInv' /\ CacheInv'
    <2>1. UNCHANGED <<created, members, changed, data>>
      BY <1>8 DEF HandleFails, tables, caches
    <2>2. \A f \in KafkaEvents : task'[f].st = "fetched" => task'[f] = task[f]
      BY <1>8, HandleFailsTask DEF OthersSame
    <2> QED BY <1>0, <1>1, <2>1, <2>2
  <1>9. ASSUME NEW j \in Instances, NEW e \in KafkaEvents, DeliverRemote(j, e)
        PROVE  MembersInv' /\ CacheInv'
    <2>1. UNCHANGED <<created, members, changed, task>>
      BY <1>9 DEF DeliverRemote, tables
    <2>2. NoneAdded => \A i \in Instances : data'[i] = {} \/ members \subseteq data'[i]
      BY <1>0, <1>9, DeliverRemoteCache
    <2> QED BY <1>0, <1>1, <2>1, <2>2
  <1>10. ASSUME NEW i \in Instances, Crash(i)
         PROVE  MembersInv' /\ CacheInv'
    <2>1. UNCHANGED <<created, members, changed>> /\ data' = [data EXCEPT ![i] = {}]
      BY <1>10 DEF Crash, tables
    <2>2. \A f \in KafkaEvents : task'[f].st = "fetched" => task'[f] = task[f]
      BY <1>10, CrashTask
    <2> QED BY <1>0, <1>1, <2>1, <2>2
  <1>11. CASE UNCHANGED <<created, members, changed, data, task>>
    BY <1>0, <1>1, <1>11
  <1>12. ASSUME NEW c \in Clients, NEW i \in Instances, NEW u \in Clients,
                Connect(c, i) \/ NotifySubscribers(i, c, u)
         PROVE  MembersInv' /\ CacheInv'
    BY <1>11, <1>12 DEF Connect, NotifySubscribers, tables, caches
  <1>15. ASSUME NEW c \in Clients, Leave(c) \/ PresenceStep(c)
         PROVE  MembersInv' /\ CacheInv'
    BY <1>11, <1>15 DEF Leave, PresenceStep, tables, caches
  <1>13. ASSUME NEW j \in Instances, NEW e \in KafkaEvents, RemoteFails(j, e)
         PROVE  MembersInv' /\ CacheInv'
    BY <1>11, <1>13 DEF RemoteFails, tables, caches
  <1>14. CASE UNCHANGED vars
    BY <1>11, <1>14 DEF vars, tables, caches
  <1> QED BY <1>2, <1>3, <1>4, <1>5, <1>6, <1>7, <1>8, <1>9, <1>10, <1>12, <1>13, <1>14,
             <1>15
          DEF Next, HandleStep

\* Nothing that goes right takes an event off its way.
LEMMA LiveStep ==
    ASSUME TypeInv, LiveInv, [Next]_vars
    PROVE  LiveInv'
  <1> USE DispatchAssumption
  <1>0. /\ MembersInv' /\ CacheInv'
        /\ MembersInv /\ CacheInv
    BY CacheStep DEF LiveInv
  <1>1. SUFFICES ASSUME faults' = 0, NoneAdded',
                        NEW c \in members', NEW e \in KafkaEvents,
                        key'[c] = at'[c], at'[c] # NoInstance, e \notin late'[c]
                 PROVE  OnItsWay(c, e)'
    BY <1>0 DEF LiveInv
  <1>2. /\ at \in [Clients -> Instances \cup {NoInstance}] /\ members \subseteq Clients
        /\ copies \in [Clients -> [KafkaEvents -> Nat]]
        /\ channel \in [Instances -> [KafkaEvents -> Nat]]
        /\ faults \in Nat /\ members' \subseteq Clients
        /\ late \in [Clients -> SUBSET KafkaEvents]
    BY TypeStep DEF TypeInv, TypeOK
  \* The event was on its way, unless this step made the connection, or presence
  \* know of it.
  <1>3. ASSUME c \in members, faults = 0, NoneAdded, key[c] = at[c], at[c] # NoInstance,
               e \notin late[c]
        PROVE  OnItsWay(c, e) /\ c \in Clients /\ at[c] \in Instances
    BY <1>2, <1>3 DEF LiveInv
  <1>4. CASE ChangeMembership
    <2>1. UNCHANGED <<at, key, late, faults, task, channel, copies>>
      BY <1>4 DEF ChangeMembership, sessions, presence
    <2>2. NoneAdded /\ c \in members
      BY <1>0, <1>1, <1>4 DEF ChangeMembership, MembersInv, NoneAdded
    <2> QED BY <1>1, <1>3, <2>1, <2>2 DEF OnItsWay
  <1>5. ASSUME UNCHANGED <<created, members, changed, faults, at, key, late>>
        PROVE  OnItsWay(c, e) /\ c \in Clients /\ at[c] \in Instances /\ NoneAdded
    BY <1>1, <1>3, <1>5 DEF NoneAdded
  <1>16. e \notin Consumed => task[e].st = "none"
    BY DEF Consumed, TypeInv, TaskInv
  <1>6. ASSUME NEW d \in Clients, NEW i \in Instances, Connect(d, i)
        PROVE  OnItsWay(c, e)'
    <2>1. /\ UNCHANGED <<created, members, changed, faults, task, channel, key>>
          /\ at' = [at EXCEPT ![d] = i]
          /\ copies' = [copies EXCEPT ![d] = NoCopies]
          /\ late' = [late EXCEPT ![d] = Consumed]
      BY <1>6 DEF Connect, tables
    <2>2. CASE c = d
      <3>1. task[e].st = "none"
        BY <1>1, <1>2, <1>16, <2>1, <2>2
      <3> QED BY <2>1, <3>1 DEF OnItsWay
    <2>3. CASE c # d
      <3>1. c \in Clients
        BY <1>1, <1>2
      <3>2. at'[c] = at[c] /\ copies'[c] = copies[c] /\ late'[c] = late[c]
        BY <1>2, <2>1, <2>3, <3>1
      <3>3. OnItsWay(c, e)
        BY <1>1, <1>3, <2>1, <3>2 DEF NoneAdded
      <3> QED BY <2>1, <3>2, <3>3 DEF OnItsWay
    <2> QED BY <2>2, <2>3
  <1>17. ASSUME NEW d \in Clients, Leave(d)
         PROVE  OnItsWay(c, e)'
    <2>1. /\ UNCHANGED <<created, members, changed, faults, task, channel, copies, key, late>>
          /\ at' = [at EXCEPT ![d] = NoInstance]
      BY <1>17 DEF Leave, tables
    <2>2. at'[c] = at[c]
      BY <1>1, <1>2, <2>1
    <2>3. OnItsWay(c, e)
      BY <1>1, <1>3, <2>1, <2>2 DEF NoneAdded
    <2> QED BY <2>1, <2>2, <2>3 DEF OnItsWay
  <1>18. ASSUME NEW d \in Clients, PresenceStep(d)
         PROVE  OnItsWay(c, e)'
    <2>1. UNCHANGED <<created, members, changed, faults, task, channel, copies, at>>
      BY <1>18 DEF PresenceStep, tables
    <2>2. \/ key'[c] = key[c] /\ late'[c] = late[c]
          \/ key'[c] = NoInstance
          \/ late'[c] = Consumed
      BY <1>1, <1>2, <1>18, PresenceStepType
    <2>3. CASE key'[c] = key[c] /\ late'[c] = late[c]
      <3>1. OnItsWay(c, e)
        BY <1>1, <1>3, <2>1, <2>3 DEF NoneAdded
      <3> QED BY <2>1, <3>1 DEF OnItsWay
    <2>4. CASE late'[c] = Consumed
      BY <1>1, <1>16, <2>1, <2>4 DEF OnItsWay
    <2> QED BY <1>1, <2>2, <2>3, <2>4
  <1>7. ASSUME NEW f \in KafkaEvents, NEW i \in Instances, Consume(f, i)
        PROVE  OnItsWay(c, e)'
    <2>1. UNCHANGED <<created, members, changed, faults, at, key, late, copies, channel>>
      BY <1>7 DEF Consume, tables, sessions, presence
    <2>2. OnItsWay(c, e)
      BY <1>5, <2>1
    <2>3. task'[e] = task[e] \/ task'[e].st = "resolve"
      BY <1>7, ConsumeTask DEF OthersSame
    <2> QED BY <2>1, <2>2, <2>3 DEF OnItsWay
  <1>8. ASSUME NEW f \in KafkaEvents, PreRoute(f)
        PROVE  OnItsWay(c, e)'
    <2>1. UNCHANGED <<created, members, changed, faults, at, key, late, copies, channel>>
      BY <1>8, PreRouteTask
    <2>2. OnItsWay(c, e)
      BY <1>5, <2>1
    <2>3. CASE e = f
      <3>1. /\ task'[e].st \in {"fetched", "deliver"} /\ task[e].on \in Instances
            /\ task'[e].todo = ResolvedMembers(data'[task[e].on])
        BY <1>8, <2>3, PreRouteTask
      <3>2. data'[task[e].on] = {} \/ members' \subseteq data'[task[e].on]
        BY <1>0, <1>1, <3>1 DEF CacheInv
      <3>3. c \in task'[e].todo
        BY <1>1, <2>1, <3>1, <3>2 DEF ResolvedMembers
      <3> QED BY <3>1, <3>3 DEF OnItsWay
    <2>4. CASE e # f
      <3>1. task'[e] = task[e]
        BY <1>8, <2>4, PreRouteTask DEF OthersSame
      <3> QED BY <2>1, <2>2, <3>1 DEF OnItsWay
    <2> QED BY <2>3, <2>4
  <1>9. ASSUME NEW f \in KafkaEvents, CacheFetched(f)
        PROVE  OnItsWay(c, e)'
    <2>1. UNCHANGED <<created, members, changed, faults, at, key, late, copies, channel>>
      BY <1>9 DEF CacheFetched, tables, sessions, presence
    <2>2. OnItsWay(c, e)
      BY <1>5, <2>1
    <2>3. \/ task'[e] = task[e]
          \/ /\ task[e].st = "fetched" /\ task'[e].st = "deliver"
             /\ task'[e].todo = task[e].todo /\ task'[e].remote = task[e].remote
      BY <1>9, CacheFetchedTask DEF OthersSame
    <2> QED BY <2>1, <2>2, <2>3 DEF OnItsWay
  <1>10. ASSUME NEW f \in KafkaEvents, NEW d \in Clients, DeliverToUser(f, d)
         PROVE  OnItsWay(c, e)'
    <2>1. /\ UNCHANGED <<created, members, changed, faults, at, key, late, channel>>
          /\ copies' = IF key[d] = task[f].on /\ at[d] = task[f].on
                       THEN [copies EXCEPT ![d][f] = @ + 1] ELSE copies
      BY <1>10 DEF DeliverToUser, tables, presence
    <2>2. OnItsWay(c, e) /\ c \in Clients /\ at[c] \in Instances /\ key[c] = at[c]
      BY <1>1, <1>5, <2>1
    <2>3. /\ OthersSame(f) /\ task[f].st = "deliver" /\ task'[f].st = "deliver"
          /\ task'[f].todo = task[f].todo \ {d}
          /\ task'[f].remote = task[f].remote \cup ({key[d]} \ {task[f].on, NoInstance})
      BY <1>10, DeliverToUserTask
    <2>4. copies[c][e] \in Nat /\ copies[d][f] \in Nat /\ (copies[c][e] > 0 => copies'[c][e] > 0)
      BY <1>2, <2>1, <2>2
    <2>5. CASE e # f
      <3>1. task'[e] = task[e]
        BY <2>3, <2>5 DEF OthersSame
      <3> QED BY <2>1, <2>2, <2>4, <3>1 DEF OnItsWay
    <2>6. CASE e = f /\ c # d
      BY <2>1, <2>2, <2>3, <2>4, <2>6 DEF OnItsWay
    <2>7. CASE e = f /\ c = d
      <3>1. CASE at[c] = task[e].on
        <4>1. copies'[c][e] = copies[c][e] + 1
          BY <1>2, <2>1, <2>2, <2>7, <3>1
        <4> QED BY <2>4, <4>1 DEF OnItsWay
      <3>2. CASE at[c] # task[e].on
        <4>1. at[c] \in task'[e].remote
          BY <2>2, <2>3, <2>7, <3>2
        <4> QED BY <2>1, <2>3, <2>7, <4>1 DEF OnItsWay
      <3> QED BY <3>1, <3>2
    <2> QED BY <2>5, <2>6, <2>7
  <1>11. ASSUME NEW f \in KafkaEvents, PublishRemote(f)
         PROVE  OnItsWay(c, e)'
    <2>1. UNCHANGED <<created, members, changed, faults, at, key, late, copies>>
      BY <1>11 DEF PublishRemote, tables, sessions, presence
    <2>2. OnItsWay(c, e) /\ c \in Clients /\ at[c] \in Instances
      BY <1>5, <2>1
    <2>3. /\ OthersSame(f) /\ task[f].st = "deliver" /\ task[f].todo = {}
          /\ channel'[at[c]][e] = IF at[c] \in task[f].remote /\ e = f
                                  THEN channel[at[c]][e] + 1 ELSE channel[at[c]][e]
      BY <1>11, <2>2, PublishRemoteTask
    <2>4. channel[at[c]][e] \in Nat
      BY <1>2, <2>2
    <2>5. CASE e = f
      BY <2>1, <2>2, <2>3, <2>4, <2>5 DEF OnItsWay
    <2>6. CASE e # f
      <3>1. task'[e] = task[e]
        BY <2>3, <2>6 DEF OthersSame
      <3> QED BY <2>1, <2>2, <2>3, <2>6, <3>1 DEF OnItsWay
    <2> QED BY <2>5, <2>6
  <1>12. ASSUME NEW j \in Instances, NEW f \in KafkaEvents, DeliverRemote(j, f)
         PROVE  OnItsWay(c, e)'
    <2>1. /\ UNCHANGED <<created, members, changed, faults, at, key, late, task>>
          /\ channel' = [channel EXCEPT ![j][f] = @ - 1]
          /\ copies' = [d \in Clients |->
                           IF d \in RemoteReceivers(j, ResolvedMembers(data[j]))
                           THEN [copies[d] EXCEPT ![f] = @ + 1] ELSE copies[d]]
      BY <1>12 DEF DeliverRemote, tables, presence
    <2>2. OnItsWay(c, e) /\ c \in Clients /\ at[c] \in Instances /\ NoneAdded
      BY <1>5, <2>1
    <2>3. copies[c][e] \in Nat /\ copies'[c][e] >= copies[c][e]
      BY <1>2, <2>1, <2>2
    <2>4. CASE at[c] = j /\ e = f
      <3>1. c \in ResolvedMembers(data[j])
        BY <1>0, <1>1, <2>1, <2>2 DEF CacheInv, ResolvedMembers
      <3>2. copies'[c][e] = copies[c][e] + 1
        BY <1>2, <2>1, <2>2, <2>4, <3>1 DEF RemoteReceivers
      <3> QED BY <2>3, <3>2 DEF OnItsWay
    <2>5. CASE ~(at[c] = j /\ e = f)
      <3>1. channel'[at[c]][e] = channel[at[c]][e]
        BY <1>2, <2>1, <2>2, <2>5
      <3>2. copies[c][e] > 0 => copies'[c][e] > 0
        BY <1>2, <2>1, <2>2
      <3> QED BY <2>1, <2>2, <3>1, <3>2 DEF OnItsWay
    <2> QED BY <2>4, <2>5
  <1>13. ASSUME NEW i \in Instances, NEW d \in Clients, NEW u \in Clients,
                NotifySubscribers(i, d, u)
         PROVE  OnItsWay(c, e)'
    <2>1. UNCHANGED <<created, members, changed, faults, at, key, late, copies, channel, task>>
      BY <1>13 DEF NotifySubscribers, tables, presence
    <2> QED BY <1>5, <2>1 DEF OnItsWay
  <1>14. CASE \/ \E f \in KafkaEvents : HandleFails(f)
              \/ \E j \in Instances, f \in KafkaEvents : RemoteFails(j, f)
              \/ \E i \in Instances : Crash(i)
    <2>1. faults' = faults + 1
      BY <1>14 DEF HandleFails, RemoteFails, Crash
    <2> QED BY <1>1, <1>2, <2>1
  <1>15. CASE UNCHANGED vars
    <2>1. UNCHANGED <<created, members, changed, faults, at, key, late, copies, channel, task>>
      BY <1>15 DEF vars, tables, sessions, presence
    <2> QED BY <1>5, <2>1 DEF OnItsWay
  <1> QED BY <1>4, <1>6, <1>7, <1>8, <1>9, <1>10, <1>11, <1>12, <1>13, <1>14, <1>15,
             <1>17, <1>18
          DEF Next, HandleStep

\* For any number of clients, instances, events and older sessions, wherever they
\* are: an event that is handled has reached every participant whose connection
\* presence has had since before the event was consumed.
THEOREM LiveMemberGetsEventCorrect == Spec => []LiveMemberGetsEvent
  <1>1. Init => LiveInv
    <2> SUFFICES ASSUME Init
                 PROVE  LiveInv
      OBVIOUS
    <2>1. \A e \in KafkaEvents : task[e].st = "none"
      BY DEF Init, NoTask
    <2>2. members = created /\ changed = FALSE
      BY DEF Init
    <2>3. \A i \in Instances : data[i] = {} \/ data[i] = created
      BY DEF Init
    <2> QED BY <2>1, <2>2, <2>3 DEF LiveInv, MembersInv, CacheInv, OnItsWay
  <1>2. TypeInv /\ LiveInv /\ [Next]_vars => LiveInv'
    BY LiveStep
  <1>3. TypeInv /\ LiveInv => LiveMemberGetsEvent
    <2> SUFFICES ASSUME TypeInv, LiveInv, faults = 0, NoneAdded,
                        NEW c \in created \cap members, NEW e \in topic,
                        Handled(e), key[c] = at[c], at[c] # NoInstance, e \notin late[c]
                 PROVE  copies[c][e] > 0
      BY DEF LiveMemberGetsEvent
    <2>1. e \in KafkaEvents /\ at[c] \in Instances
      BY DEF TypeInv, TypeOK
    <2>2. OnItsWay(c, e)
      BY <2>1 DEF LiveInv
    <2> QED BY <2>1, <2>2 DEF OnItsWay, Handled
  <1> QED BY <1>1, <1>2, <1>3, TypeCorrect, PTL DEF Spec
=============================================================================
