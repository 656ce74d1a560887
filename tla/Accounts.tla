------------------------------ MODULE Accounts ------------------------------
(***************************************************************************)
(* The auth and the profile service: the worker of the auth service's      *)
(* outbox sends USER_CREATED to Kafka, and the profile service creates the *)
(* profile.  Clients use the profile service with the id of a registered   *)
(* user.                                                                   *)
(***************************************************************************)
EXTENDS Auth, Profile, Sequences

CONSTANT MaxCalls   \* bound on the calls of both services

\* The profile service has the profiles of the users of the auth service.
ASSUME AccountsAssumption == MaxCalls \in Nat /\ Owners = Uids

VARIABLES
    processed,     \* outbox_events rows with processed_at
    abatch,        \* the rows processBatch has locked, and those it has sent
    user_created,  \* the topic auth.user.created
    offset,        \* committed offset of the group "profile"
    creating,      \* the user of the message that was read last
    lost           \* history: users whose event the broker lost, or whose profile
                   \* could not be created

relayVars == <<processed, abatch, user_created>>
consumerVars == <<offset, creating, lost>>
vars == <<authVars, profileVars, relayVars, consumerVars>>

NoBatch == [rows |-> {}, sent |-> {}]

TypeOK ==
    /\ AuthTypeOK /\ ProfileTypeOK
    /\ processed \subseteq Uids /\ lost \subseteq Uids
    /\ abatch \in [rows : SUBSET Uids, sent : SUBSET Uids]
    /\ user_created \in Seq(Uids) /\ offset \in 0 .. Len(user_created)
    /\ creating \in Uids \cup {None}

Init ==
    /\ AuthInit /\ ProfileInit({FirstUser})
    /\ processed = {FirstUser} /\ abatch = NoBatch
    /\ user_created = <<FirstUser>> /\ offset = 1
    /\ creating = None /\ lost = {}

-----------------------------------------------------------------------------
(* processBatch of the auth service *)

SelectRows ==
    /\ abatch = NoBatch /\ outbox_events # processed
    /\ abatch' = [rows |-> outbox_events \ processed, sent |-> {}]
    /\ UNCHANGED <<authVars, profileVars, processed, user_created, consumerVars>>

\* Publish.  The writer asks for no acknowledgement (RequiredAcks is not set), so
\* that it succeeds does not mean that Kafka has the event.
PublishCreated(u) ==
    /\ u \in abatch.rows \ abatch.sent
    /\ \/ user_created' = Append(user_created, u) /\ lost' = lost \ {u}
       \/ lost' = lost \cup {u} /\ UNCHANGED user_created
    /\ abatch' = [abatch EXCEPT !.sent = @ \cup {u}]
    /\ UNCHANGED <<authVars, profileVars, processed, offset, creating>>

\* Mutant of AllSent: the batch is committed although rows were not sent.
SomeSent == TRUE

AllSent == abatch.sent = abatch.rows

CommitRows ==
    /\ abatch # NoBatch /\ AllSent
    /\ processed' = processed \cup abatch.rows /\ abatch' = NoBatch
    /\ UNCHANGED <<authVars, profileVars, user_created, consumerVars>>

\* Publish, the update or the commit fails, or the service restarts: the
\* transaction is rolled back, and the rows that were sent are sent again.
RollBackRows ==
    /\ abatch # NoBatch /\ failures < MaxFailures
    /\ failures' = failures + 1 /\ abatch' = NoBatch
    /\ UNCHANGED <<authVars, profiles, cache, relations, outbox, publisher, request,
                   processed, user_created, consumerVars>>

-----------------------------------------------------------------------------
(* StartUserCreatedConsumer *)

\* ReadMessage commits the offset before the profile exists.
ReadMessage ==
    /\ creating = None /\ offset < Len(user_created)
    /\ offset' = offset + 1 /\ creating' = user_created[offset + 1]
    /\ UNCHANGED <<authVars, profileVars, relayVars, lost>>

CreateIfNotExists ==
    /\ creating # None
    /\ profiles' = [profiles EXCEPT ![creating] = IF @ = NoProfile THEN NewProfile ELSE @]
    /\ creating' = None
    /\ UNCHANGED <<authVars, cache, relations, outbox, publisher, request, failures,
                   relayVars, offset, lost>>

\* The insert fails and is only logged, or the service restarts.
CreateFails ==
    /\ creating # None /\ failures < MaxFailures
    /\ failures' = failures + 1
    /\ creating' = None /\ lost' = lost \cup {creating}
    /\ UNCHANGED <<authVars, profiles, cache, relations, outbox, publisher, request,
                   relayVars, offset>>

-----------------------------------------------------------------------------
Registered == {r.id : r \in users}

Asked == Cardinality({p \in AuthCalls : call[p].pc # "idle"})
         + Cardinality({p \in ProfileCalls : request[p].pc # "idle"})

WithinBound == Asked < MaxCalls

AskProfileService(p) ==
    \/ \E u \in Registered : AskProfile(p, u)
    \/ \E pair \in Relations : 
          /\ pair[1] \in Registered
          /\ AskContact(p, pair[1], pair[2]) \/ AskBlock(p, pair[1], pair[2])

OfAuth ==
    /\ \/ \E p \in AuthCalls : (WithinBound /\ AskAuth(p)) \/ AuthStep(p) \/ AuthFails(p)
       \/ \E t \in Tokens : TokenExpires(t)
    /\ UNCHANGED <<profileVars, relayVars, consumerVars>>

OfProfile ==
    /\ \/ \E p \in ProfileCalls : \/ WithinBound /\ AskProfileService(p)
                                  \/ ProfileStep(p) \/ RequestFails(p)
       \/ PublisherStep \/ PublishFails \/ \E u \in Owners : CacheExpires(u)
    /\ UNCHANGED <<authVars, relayVars, consumerVars>>

Relay    == SelectRows \/ CommitRows \/ \E u \in Uids : PublishCreated(u)
Consumer == ReadMessage \/ CreateIfNotExists

Next == OfAuth \/ OfProfile \/ Relay \/ RollBackRows \/ Consumer \/ CreateFails

Spec == Init /\ [][Next]_vars

\* The loops of the workers go on; nothing makes a call progress.
FairSpec ==
    /\ Spec /\ WF_vars(Relay) /\ WF_vars(Consumer)
    /\ WF_vars(PublisherStep /\ UNCHANGED <<authVars, relayVars, consumerVars>>)
-----------------------------------------------------------------------------
(* Properties *)

\* Every user that registered gets a profile, also when its event is sent twice
\* or the worker restarts, unless the broker lost the event, which nobody waits
\* to be acknowledged, or the one attempt to create the profile failed.
RegisteredGetsProfile ==
    \A u \in Uids : u \in Registered ~> profiles[u] # NoProfile \/ u \in lost

\* The event of user u is still to be sent, or to be read, or its profile is
\* just being created.
OnItsWay(u) ==
    \/ u \in outbox_events \ processed
    \/ \E n \in offset + 1 .. Len(user_created) : user_created[n] = u
    \/ creating = u

\* A registration gets lost between the two services in two places only: where
\* the event is sent without an acknowledgement, and where the one attempt to
\* create the profile fails.  At every other moment the profile exists or the
\* event is on its way: restarts and batches that are sent again leave no gap.
NoRegistrationLost ==
    \A u \in Registered : profiles[u] # NoProfile \/ u \in lost \/ OnItsWay(u)

\* A profile belongs to a user that is registered: no rolled back registration
\* leaves one.
ProfileHasUser == \A u \in Uids : profiles[u] # NoProfile => u \in Registered
=============================================================================
