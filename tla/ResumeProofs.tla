---------------------------- MODULE ResumeProofs ----------------------------
(***************************************************************************)
(* Proofs about Resume, for any number of clients and messages, any size   *)
(* of queue and page, and any number of lost connections and faults.       *)
(***************************************************************************)
EXTENDS Resume, FiniteSetTheorems, WellFoundedInduction, TLAPS

-----------------------------------------------------------------------------
(* Numbers *)

LEMMA LeastElement ==
    ASSUME NEW T, T \subseteq Nat, T # {}
    PROVE  \E x \in T : \A y \in T : x <= y
  <1>1. PICK R : R = OpToRel(<, Nat)
    OBVIOUS
  <1>2. IsWellFoundedOn(R, Nat)
    BY <1>1, NatLessThanWellFounded
  <1>3. PICK x \in T : \A y \in T : ~(<<y, x>> \in R)
    BY <1>2, WFMin
  <1>4. \A y \in T : y < x => <<y, x>> \in R
    BY <1>1 DEF OpToRel
  <1>5. x \in Nat /\ \A y \in T : y \in Nat /\ ~(y < x)
    BY <1>3, <1>4
  <1>6. \A y \in T : x <= y
    BY <1>5
  <1> QED BY <1>6

LEMMA GreatestElement ==
    ASSUME NEW N \in Nat, NEW T, T \subseteq 0 .. N, T # {}
    PROVE  \E x \in T : \A y \in T : y <= x
  <1>1. PICK D : D = {N - y : y \in T}
    OBVIOUS
  <1>2. D \subseteq Nat /\ D # {}
    <2>1. ASSUME NEW y \in T
          PROVE  N - y \in Nat
      <3>1. y \in 0 .. N
        OBVIOUS
      <3> QED BY <3>1
    <2>2. D # {}
      BY <1>1
    <2> QED BY <1>1, <2>1, <2>2
  <1>3. PICK d \in D : \A e \in D : d <= e
    BY <1>2, LeastElement
  <1>4. PICK x \in T : d = N - x
    BY <1>1, <1>3
  <1>5. \A y \in T : N - x <= N - y
    BY <1>1, <1>3, <1>4
  <1> QED BY <1>4, <1>5

\* What a page P of the rows R holds, where below[m] is the set of the rows that
\* are lower than m: the lowest rows, and all of them unless it is full.
LEMMA PageHolds ==
    ASSUME NEW N \in Nat, NEW size \in Nat \ {0}, NEW R, R \subseteq 1 .. N, NEW below,
           \A m \in R, n \in R : n \in below[m] <=> n < m,
           \A m \in R : below[m] \subseteq R,
           NEW P, P \subseteq R, \A m \in R : m \in P <=> Cardinality(below[m]) < size
    PROVE  /\ \A m \in P, n \in R : n < m => n \in P
           /\ Cardinality(P) # size => P = R
  <1>1. IsFiniteSet(R) /\ IsFiniteSet(P) /\ Cardinality(P) \in Nat
    <2>1. IsFiniteSet(1 .. N)
      BY FS_Interval
    <2> QED BY <2>1, FS_Subset, FS_CardinalityType
  <1>2. ASSUME NEW m \in R
        PROVE  IsFiniteSet(below[m]) /\ Cardinality(below[m]) \in Nat /\ m \in Nat
    <2>1. m \in 1 .. N
      OBVIOUS
    <2> QED BY <1>1, <2>1, FS_Subset, FS_CardinalityType
  <1>3. ASSUME NEW m \in P, NEW n \in R, n < m
        PROVE  n \in P
    <2>1. ASSUME NEW k \in below[n]
          PROVE  k \in below[m]
      <3>1. k \in R /\ m \in R /\ k < n
        OBVIOUS
      <3>2. k \in Nat /\ n \in Nat /\ m \in Nat
        BY <1>2, <3>1
      <3>3. k < m
        BY <1>3, <3>1, <3>2
      <3> QED BY <3>1, <3>3
    <2>2. Cardinality(below[n]) <= Cardinality(below[m])
      BY <1>2, <2>1, FS_Subset
    <2>3. Cardinality(below[n]) \in Nat /\ Cardinality(below[m]) \in Nat
          /\ Cardinality(below[m]) < size
      BY <1>2
    <2>4. Cardinality(below[n]) < size
      BY <2>2, <2>3
    <2> QED BY <2>4
  <1>4. ASSUME P # R
        PROVE  Cardinality(P) = size
    <2>1. PICK m \in R \ P : \A n \in R \ P : m <= n
      <3>1. R \ P \subseteq Nat
        BY <1>2
      <3>2. R \ P # {}
        BY <1>4
      <3> QED BY <3>1, <3>2, LeastElement
    <2>2. ASSUME NEW n \in below[m]
          PROVE  n \in P
      <3>1. n \in R /\ n < m
        BY <2>1
      <3>2. n \in Nat /\ m \in Nat
        BY <1>2, <2>1, <3>1
      <3>3. ~(m <= n)
        BY <3>1, <3>2
      <3> QED BY <2>1, <3>1, <3>3
    <2>3. Cardinality(below[m]) <= Cardinality(P)
      BY <1>1, <2>2, FS_Subset
    <2>4. size <= Cardinality(P)
      <3>1. ~(Cardinality(below[m]) < size) /\ Cardinality(below[m]) \in Nat
        BY <1>2, <2>1
      <3> QED BY <1>1, <2>3, <3>1
    <2>5. P # {}
      <3>1. Cardinality(P) # 0
        BY <1>1, <2>4
      <3> QED BY <3>1, FS_EmptySet
    <2>6. PICK x \in P : \A y \in P : y <= x
      <3>1. ASSUME NEW y \in P
            PROVE  y \in 0 .. N
        <4>1. y \in 1 .. N
          OBVIOUS
        <4> QED BY <4>1
      <3>2. P \subseteq 0 .. N
        BY <3>1
      <3> QED BY <2>5, <3>2, GreatestElement
    <2>7. ASSUME NEW y \in P \ {x}
          PROVE  y \in below[x]
      <3>1. y \in R /\ x \in R /\ y <= x /\ y # x
        BY <2>6
      <3>2. y \in Nat /\ x \in Nat
        BY <1>2, <3>1
      <3>3. y < x
        BY <3>1, <3>2
      <3> QED BY <3>1, <3>3
    <2>8. /\ Cardinality(P \ {x}) <= Cardinality(below[x])
          /\ Cardinality(below[x]) \in Nat /\ Cardinality(below[x]) < size
      <3>1. x \in R
        BY <2>6
      <3>2. P \ {x} \subseteq below[x]
        BY <2>7
      <3> QED BY <1>2, <2>6, <3>1, <3>2, FS_Subset
    <2>9. Cardinality(P \ {x}) = Cardinality(P) - 1
      BY <1>1, <2>6, FS_RemoveElement
    <2> QED BY <1>1, <2>4, <2>8, <2>9
  <1> QED BY <1>3, <1>4

\* A client with the messages g has everything up to the end of its prefix.
LEMMA PrefixHolds ==
    ASSUME NEW g, g \subseteq Messages
    PROVE  PrefixOf(g) \in 0 .. MaxMessage /\ 1 .. PrefixOf(g) \subseteq g
  <1> USE ResumeAssumption DEF Messages
  <1>1. PICK T : T = {n \in Nat : n + 1 \notin g}
    OBVIOUS
  <1>2. MaxMessage \in T
    BY <1>1
  <1>3. PICK x \in T : \A y \in T : x <= y
    BY <1>1, <1>2, LeastElement
  <1>4. x \in 0 .. MaxMessage /\ x + 1 \notin g
    BY <1>1, <1>2, <1>3
  <1>5. ASSUME NEW k \in 1 .. x
        PROVE  k \in g
    <2>1. k - 1 \in Nat /\ k - 1 < x /\ (k - 1) + 1 = k
      BY <1>4
    <2>2. k - 1 \notin T
      BY <1>3, <1>4, <2>1
    <2> QED BY <1>1, <2>1, <2>2
  <1>6. 1 .. x \subseteq g /\ x + 1 \notin g /\ x \in 0 .. MaxMessage
    BY <1>4, <1>5
  <1> QED BY <1>6 DEF PrefixOf

LEMMA LastHolds ==
    ASSUME NEW g, g \subseteq Messages
    PROVE  LastOf(g) \in 0 .. MaxMessage
  <1> USE ResumeAssumption DEF Messages
  <1>1. PICK T : T = g \cup {0}
    OBVIOUS
  <1>2. T \subseteq 0 .. MaxMessage /\ T # {}
    BY <1>1
  <1>3. PICK x \in T : \A y \in T : y <= x
    BY <1>2, GreatestElement
  <1>4. LastOf(g) \in T
    BY <1>1, <1>3 DEF LastOf
  <1> QED BY <1>2, <1>4

\* What the client reports: if it is careful it has everything up to there.
LEMMA ResumeFromHolds ==
    ASSUME NEW c \in Clients, got[c] \subseteq Messages
    PROVE  /\ ResumeFrom(c) \in 0 .. MaxMessage
           /\ c \in Careful => 1 .. ResumeFrom(c) \subseteq got[c]
  BY PrefixHolds, LastHolds DEF ResumeFrom

-----------------------------------------------------------------------------
(* Where a message is *)

QueuedIn(q) == {q[n] : n \in DOMAIN q}

\* What a client with the messages g has, or has in the session s.
Here(s, g) == g \cup QueuedIn(s.queue) \cup s.buffer

\* Every message of M is with the client or in its session, or in the part of the
\* history that is still to come: in the page or above it, and after the last
\* page nowhere else.
Covered(s, g, M) ==
    \A m \in M :
        /\ s.st \in {"sync", "page", "lastpage"} /\ m <= s.cur => m \in Here(s, g)
        /\ s.st = "page" => m \in Here(s, g) \cup s.page \/ \A n \in s.page : n < m
        /\ s.st = "lastpage" => m \in Here(s, g) \cup s.page
        /\ s.st = "flush" => m \in Here(s, g)
        /\ s.st = "ready" => m \in g \cup QueuedIn(s.queue)

\* The messages that were stored and whose events were delivered.
Known == committed \cap handled

GapInv ==
    /\ TypeOK
    /\ handled \cap Messages \subseteq committed
    /\ faults = 0 => \A c \in Careful : Covered(session[c], got[c], Known)

Sendable == Events \cup {PresenceUpdate}

\* The queue has one more event, or the session is closed.
LEMMA TrySendHolds ==
    ASSUME NEW s \in SessionType, NEW e \in Sendable, Len(s.queue) <= QueueSize,
           NEW t, t = TrySend(s, e)
    PROVE  /\ t \in SessionType /\ Len(t.queue) <= QueueSize
           /\ \/ t.st = "offline"
              \/ /\ t.st = s.st /\ t.buffer = s.buffer /\ t.page = s.page /\ t.cur = s.cur
                 /\ QueuedIn(t.queue) = QueuedIn(s.queue) \cup {e}
  <1> USE ResumeAssumption
  <1>1. NoSession \in SessionType /\ NoSession.st = "offline" /\ NoSession.queue = <<>>
    BY DEF NoSession, SessionType
  <1>2. CASE s.st = "offline"
    BY <1>2 DEF TrySend
  <1>3. CASE s.st # "offline" /\ Len(s.queue) < QueueSize
    <2>1. t = [s EXCEPT !.queue = Append(s.queue, e)]
      BY <1>3 DEF TrySend
    <2>2. s.queue \in Seq(Sendable)
      BY DEF SessionType, Sendable
    <2>3. PICK q : q = Append(s.queue, e)
      OBVIOUS
    <2>4. q \in Seq(Sendable) /\ Len(q) = Len(s.queue) + 1 /\ Len(s.queue) \in Nat
      BY <2>2, <2>3
    <2>5. /\ t \in SessionType /\ t.queue = q /\ t.st = s.st /\ t.buffer = s.buffer
          /\ t.page = s.page /\ t.cur = s.cur
      BY <2>1, <2>3, <2>4 DEF SessionType, Sendable
    <2>6. QueuedIn(q) = QueuedIn(s.queue) \cup {e}
      <3>1. /\ DOMAIN q = 1 .. Len(s.queue) + 1 /\ DOMAIN s.queue = 1 .. Len(s.queue)
            /\ q[Len(s.queue) + 1] = e
            /\ \A n \in 1 .. Len(s.queue) : q[n] = s.queue[n]
        BY <2>2, <2>3
      <3>2. DOMAIN q = DOMAIN s.queue \cup {Len(s.queue) + 1}
        BY <2>4, <3>1
      <3> QED BY <3>1, <3>2 DEF QueuedIn
    <2> QED BY <1>3, <2>4, <2>5, <2>6
  <1>4. CASE s.st # "offline" /\ ~(Len(s.queue) < QueueSize)
    <2>1. t = NoSession
      BY <1>4 DEF TrySend
    <2> QED BY <1>1, <2>1
  <1> QED BY <1>2, <1>3, <1>4

\* A session that has more, and is where it was, covers what it covered.
LEMMA MoreCovered ==
    ASSUME NEW s, NEW g, NEW M, NEW t, NEW h, Covered(s, g, M),
           t.st = s.st, t.page = s.page, t.cur = s.cur, Here(s, g) \subseteq Here(t, h),
           g \cup QueuedIn(s.queue) \subseteq h \cup QueuedIn(t.queue)
    PROVE  Covered(t, h, M)
  BY DEF Covered

LEMMA NothingToCover ==
    ASSUME NEW s, NEW g, NEW M, s.st \in {"offline", "connected"}
    PROVE  Covered(s, g, M)
  BY DEF Covered

\* A step of the session of one client.
LEMMA OneSession ==
    ASSUME GapInv, NEW c \in Clients, NEW t,
           session' = [session EXCEPT ![c] = t], t \in SessionType, Len(t.queue) <= QueueSize,
           got' \in [Clients -> SUBSET Messages], \A d \in Clients \ {c} : got'[d] = got[d],
           UNCHANGED <<committed, handled, updates>>,
           drops' \in 0 .. MaxDisturbances, faults' \in 0 .. MaxDisturbances,
           faults' = 0 => faults = 0,
           faults' = 0 /\ c \in Careful => Covered(t, got'[c], Known)
    PROVE  GapInv'
  <1>1. session \in [Clients -> SessionType] /\ \A d \in Clients : Len(session[d].queue) <= QueueSize
    BY DEF GapInv, TypeOK
  <1>2. session' \in [Clients -> SessionType] /\ session'[c] = t
        /\ \A d \in Clients \ {c} : session'[d] = session[d]
    BY <1>1
  <1>3. TypeOK'
    BY <1>1, <1>2 DEF GapInv, TypeOK
  <1>4. ASSUME faults' = 0, NEW d \in Careful
        PROVE  Covered(session'[d], got'[d], Known')
    <2>1. Known' = Known /\ d \in Clients
      BY ResumeAssumption DEF Known
    <2>2. CASE d = c
      BY <1>2, <1>4, <2>1, <2>2
    <2>3. CASE d # c
      <3>1. Covered(session[d], got[d], Known)
        BY <1>4 DEF GapInv
      <3> QED BY <1>2, <2>1, <2>3, <3>1
    <2> QED BY <2>2, <2>3
  <1> QED BY <1>3, <1>4 DEF GapInv

LEMMA GapStep ==
    ASSUME GapInv, [Next]_vars
    PROVE  GapInv'
  <1> USE ResumeAssumption
  <1>0. /\ TypeOK /\ handled \cap Messages \subseteq committed
        /\ session \in [Clients -> SessionType]
        /\ got \in [Clients -> SUBSET Messages]
        /\ drops \in 0 .. MaxDisturbances /\ faults \in 0 .. MaxDisturbances
        /\ updates \in 0 .. MaxDisturbances
        /\ committed \subseteq Messages /\ handled \subseteq Events
    BY DEF GapInv, TypeOK
  <1>14. MayDisturb => /\ drops < MaxDisturbances /\ faults < MaxDisturbances
                       /\ updates < MaxDisturbances
    BY <1>0 DEF MayDisturb
  <1>1. ASSUME NEW c \in Clients
        PROVE  /\ session[c] \in SessionType /\ Len(session[c].queue) <= QueueSize
               /\ got[c] \subseteq Messages
               /\ faults = 0 /\ c \in Careful => Covered(session[c], got[c], Known)
    BY DEF GapInv, TypeOK
  <1>2. ASSUME NEW m \in Messages, CommitMessage(m)
        PROVE  GapInv'
    <2>1. /\ m \notin committed /\ committed' = committed \cup {m}
          /\ UNCHANGED <<session, got, handled, updates, drops, faults>>
      BY <1>2 DEF CommitMessage
    <2>2. m \notin handled
      BY <1>0, <2>1
    <2>3. Known' = Known
      BY <2>1, <2>2 DEF Known
    <2>4. TypeOK'
      BY <1>0, <2>1 DEF TypeOK
    <2> QED BY <1>0, <1>1, <2>1, <2>3, <2>4 DEF GapInv
  <1>3. ASSUME NEW c \in Clients, Connect(c)
        PROVE  GapInv'
    <2>1. PICK t : t = [session[c] EXCEPT !.st = "connected"]
      OBVIOUS
    <2>2. session' = [session EXCEPT ![c] = t]
          /\ UNCHANGED <<committed, got, handled, updates, drops, faults>>
      BY <1>0, <1>3, <2>1 DEF Connect
    <2>3. t \in SessionType /\ t.st = "connected" /\ t.queue = session[c].queue
      BY <1>1, <2>1 DEF SessionType
    <2>4. Covered(t, got[c], Known)
      BY <2>3, NothingToCover
    <2> QED BY <1>0, <1>1, <2>2, <2>3, <2>4, OneSession
  <1>4. ASSUME NEW c \in Clients, Drop(c)
        PROVE  GapInv'
    <2>1. /\ session' = [session EXCEPT ![c] = NoSession] /\ drops < MaxDisturbances
          /\ drops' = drops + 1 /\ UNCHANGED <<committed, got, handled, updates, faults>>
      BY <1>4, <1>14 DEF Drop
    <2>2. /\ NoSession \in SessionType /\ Len(NoSession.queue) <= QueueSize
          /\ NoSession.st = "offline"
      BY DEF NoSession, SessionType
    <2>3. Covered(NoSession, got[c], Known)
      BY <2>2, NothingToCover
    <2>4. drops' \in 0 .. MaxDisturbances
      BY <1>0, <2>1
    <2> QED BY <1>0, <2>1, <2>2, <2>3, <2>4, OneSession
  <1>5. ASSUME NEW c \in Clients, ReadResume(c)
        PROVE  GapInv'
    <2>1. PICK listed \in BOOLEAN :
             /\ ~listed => faults < MaxDisturbances
             /\ session' = [session EXCEPT ![c].st = IF got[c] # {} \/ listed THEN "sync"
                                                     ELSE "flush",
                                           ![c].cur = ResumeFrom(c)]
             /\ faults' = IF listed THEN faults ELSE faults + 1
             /\ UNCHANGED <<committed, got, handled, updates, drops>>
      BY <1>5, <1>14 DEF ReadResume, Listed
    <2>2. /\ ResumeFrom(c) \in 0 .. MaxMessage
          /\ c \in Careful => 1 .. ResumeFrom(c) \subseteq got[c]
      BY <1>1, ResumeFromHolds
    <2>3. PICK n : n = ResumeFrom(c)
      OBVIOUS
    <2>4. PICK t : t = [session[c] EXCEPT !.st = IF got[c] # {} \/ listed THEN "sync"
                                                 ELSE "flush",
                                          !.cur = n]
      OBVIOUS
    <2>5. session' = [session EXCEPT ![c] = t]
      BY <1>0, <2>1, <2>3, <2>4
    <2>6. /\ t \in SessionType /\ t.queue = session[c].queue /\ t.cur = n
          /\ listed => t.st = "sync"
      BY <1>1, <2>2, <2>3, <2>4 DEF SessionType
    <2>7. faults' \in 0 .. MaxDisturbances /\ (faults' = 0 => faults = 0 /\ listed)
      BY <1>0, <2>1
    <2>8. ASSUME faults' = 0, c \in Careful
          PROVE  Covered(t, got[c], Known)
      <3>1. t.st = "sync" /\ t.cur = n
        BY <2>6, <2>7, <2>8
      <3>2. ASSUME NEW m \in Known, m <= n
            PROVE  m \in got[c]
        <4>1. m \in 1 .. MaxMessage /\ n \in 0 .. MaxMessage
          BY <1>0, <2>2, <2>3 DEF Known, Messages
        <4>2. m \in 1 .. n
          BY <3>2, <4>1
        <4> QED BY <2>2, <2>3, <2>8, <4>2
      <3> QED BY <3>1, <3>2 DEF Covered, Here
    <2> QED BY <1>0, <1>1, <2>1, <2>5, <2>6, <2>7, <2>8, OneSession
  <1>6. ASSUME NEW c \in Clients, SyncPage(c)
        PROVE  GapInv'
    <2>1. PICK P : P = FetchMessages(session[c].cur)
      OBVIOUS
    <2>2. /\ session[c].st = "sync"
          /\ session' = [session EXCEPT ![c].page = P, ![c].st = NextPage(P)]
          /\ UNCHANGED <<committed, got, handled, updates, drops, faults>>
      BY <1>6, <2>1 DEF SyncPage
    <2>3. PICK R : R = {m \in committed : m > session[c].cur}
      OBVIOUS
    <2>4. PICK below : below = [m \in R |-> {n \in R : n < m}]
      OBVIOUS
    <2>5. P \subseteq R /\ \A m \in R : m \in P <=> Cardinality(below[m]) < PageSize
      BY <2>1, <2>3, <2>4 DEF FetchMessages
    <2>6. R \subseteq 1 .. MaxMessage
      BY <1>0, <2>3 DEF Messages
    <2>7. /\ \A m \in R, n \in R : n \in below[m] <=> n < m
          /\ \A m \in R : below[m] \subseteq R
      BY <2>4
    <2>8. /\ \A m \in P, n \in R : n < m => n \in P
          /\ Cardinality(P) # PageSize => P = R
      <3>1. MaxMessage \in Nat /\ PageSize \in Nat \ {0}
        OBVIOUS
      <3> HIDE ResumeAssumption
      <3> QED BY <2>5, <2>6, <2>7, <3>1, PageHolds
    <2>9. PICK t : t = [session[c] EXCEPT !.page = P, !.st = NextPage(P)]
      OBVIOUS
    <2>10. session' = [session EXCEPT ![c] = t]
      BY <1>0, <2>2, <2>9
    <2>11. /\ NextPage(P) \in {"flush", "page", "lastpage"}
           /\ NextPage(P) = "flush" => P = {}
           /\ NextPage(P) = "lastpage" => Cardinality(P) # PageSize
      BY DEF NextPage
    <2>12. /\ t \in SessionType /\ t.queue = session[c].queue /\ t.cur = session[c].cur
           /\ t.buffer = session[c].buffer /\ t.page = P /\ t.st = NextPage(P)
      BY <1>1, <2>5, <2>6, <2>9, <2>11 DEF SessionType, Messages
    <2>13. ASSUME faults = 0, c \in Careful
           PROVE  Covered(t, got[c], Known)
      <3>1. PICK H : H = Here(session[c], got[c])
        OBVIOUS
      <3>2. H = Here(t, got[c])
        BY <2>12, <3>1 DEF Here
      <3>3. ASSUME NEW m \in Known
            PROVE  /\ m <= t.cur => m \in H
                   /\ m \in R \/ m <= t.cur
        <4>1. m <= session[c].cur => m \in H
          BY <1>1, <2>2, <2>13, <3>1 DEF Covered
        <4>2. m \in 1 .. MaxMessage /\ session[c].cur \in 0 .. MaxMessage
          BY <1>0, <1>1 DEF Known, Messages, SessionType
        <4>3. m \in R \/ m <= session[c].cur
          BY <2>3, <4>2 DEF Known
        <4> QED BY <2>12, <4>1, <4>3
      <3>4. ASSUME NEW m \in Known
            PROVE  m \in H \cup P \/ \A n \in P : n < m
        <4>1. CASE m \in R
          <5>1. ASSUME m \notin P, NEW n \in P
                PROVE  n < m
            <6>1. ~(m < n) /\ m # n /\ n \in 1 .. MaxMessage /\ m \in 1 .. MaxMessage
              BY <2>5, <2>6, <2>8, <4>1, <5>1
            <6> QED BY <6>1
          <5> QED BY <5>1
        <4> QED BY <3>3, <4>1
      <3>5. CASE t.st = "page"
        BY <2>12, <3>2, <3>3, <3>4, <3>5 DEF Covered
      <3>6. CASE t.st = "lastpage"
        <4>1. P = R
          BY <2>8, <2>11, <2>12, <3>6
        <4> QED BY <2>12, <3>2, <3>3, <3>6, <4>1 DEF Covered
      <3>7. CASE t.st = "flush"
        <4>1. P = {} /\ Cardinality(P) = 0
          BY <2>11, <2>12, <3>7, FS_EmptySet
        <4>2. R = {}
          BY <2>8, <4>1
        <4> QED BY <2>12, <3>2, <3>3, <3>7, <4>2 DEF Covered
      <3> QED BY <2>11, <2>12, <3>5, <3>6, <3>7
    <2> QED BY <1>0, <1>1, <2>2, <2>10, <2>12, <2>13, OneSession
  <1>7. ASSUME NEW c \in Clients, SyncFails(c)
        PROVE  GapInv'
    <2>1. PICK t : t = [session[c] EXCEPT !.st = "flush"]
      OBVIOUS
    <2>2. /\ session' = [session EXCEPT ![c] = t] /\ faults < MaxDisturbances
          /\ faults' = faults + 1 /\ UNCHANGED <<committed, got, handled, updates, drops>>
      BY <1>0, <1>7, <1>14, <2>1 DEF SyncFails
    <2>3. t \in SessionType /\ t.queue = session[c].queue
      BY <1>1, <2>1 DEF SessionType
    <2>4. faults' \in 0 .. MaxDisturbances /\ faults' # 0
      BY <1>0, <2>2
    <2> QED BY <1>0, <1>1, <2>2, <2>3, <2>4, OneSession
  <1>8. ASSUME NEW c \in Clients, SendHistory(c)
        PROVE  GapInv'
    <2>1. PICK k \in session[c].page :
             /\ \A n \in session[c].page \ {k} : k < n
             /\ session' = [session EXCEPT ![c] =
                   TrySend([session[c] EXCEPT !.page = session[c].page \ {k}, !.cur = k,
                              !.st = AfterHistory(session[c].st, session[c].page \ {k})], k)]
      BY <1>0, <1>8 DEF SendHistory
    <2>2. /\ session[c].st \in {"page", "lastpage"}
          /\ UNCHANGED <<committed, got, handled, updates, drops, faults>>
      BY <1>8 DEF SendHistory
    <2>3. PICK rest : rest = session[c].page \ {k}
      OBVIOUS
    <2>4. PICK u : u = [session[c] EXCEPT !.page = rest, !.cur = k,
                                          !.st = AfterHistory(session[c].st, rest)]
      OBVIOUS
    <2>5. k \in Messages /\ k \in Sendable /\ k \in 0 .. MaxMessage
      <3>1. k \in Messages
        BY <1>1, <2>1 DEF SessionType
      <3> QED BY <3>1 DEF Sendable, Events, Messages
    <2>6. /\ AfterHistory(session[c].st, rest) \in {"page", "lastpage", "sync", "flush"}
          /\ rest # {} => AfterHistory(session[c].st, rest) = session[c].st
          /\ rest = {} => AfterHistory(session[c].st, rest)
                             = IF session[c].st = "page" THEN "sync" ELSE "flush"
      BY <2>2 DEF AfterHistory
    <2>7. /\ u \in SessionType /\ u.page = rest /\ u.cur = k
          /\ u.st = AfterHistory(session[c].st, rest)
          /\ u.queue = session[c].queue /\ u.buffer = session[c].buffer
      BY <1>1, <2>3, <2>4, <2>5, <2>6 DEF SessionType
    <2>8. PICK t : t = TrySend(u, k)
      OBVIOUS
    <2>9. session' = [session EXCEPT ![c] = t]
      BY <2>1, <2>3, <2>4, <2>8
    <2>10. /\ t \in SessionType /\ Len(t.queue) <= QueueSize
           /\ \/ t.st = "offline"
              \/ /\ t.st = u.st /\ t.buffer = u.buffer /\ t.page = u.page /\ t.cur = u.cur
                 /\ QueuedIn(t.queue) = QueuedIn(u.queue) \cup {k}
      <3>1. Len(u.queue) <= QueueSize
        BY <1>1, <2>7
      <3>2. u \in SessionType /\ k \in Sendable
        BY <2>5, <2>7
      <3> HIDE ResumeAssumption
      <3> QED BY <2>8, <3>1, <3>2, TrySendHolds
    <2>11. ASSUME faults = 0, c \in Careful
           PROVE  Covered(t, got[c], Known)
      <3>1. CASE t.st = "offline"
        BY <3>1, NothingToCover
      <3>2. CASE t.st # "offline"
        <4>1. PICK H : H = Here(session[c], got[c])
          OBVIOUS
        <4>2. /\ t.st = AfterHistory(session[c].st, rest) /\ t.page = rest /\ t.cur = k
              /\ Here(t, got[c]) = H \cup {k}
          BY <2>7, <2>10, <3>2, <4>1 DEF Here
        <4>3. ASSUME NEW m \in Known
              PROVE  /\ m <= k => m \in H \cup {k}
                     /\ session[c].st = "page" => m \in H \cup {k} \cup rest
                                                  \/ \A n \in rest : n < m
                     /\ session[c].st = "lastpage" => m \in H \cup {k} \cup rest
          <5>1. /\ session[c].st = "page" => m \in H \cup session[c].page
                                             \/ \A n \in session[c].page : n < m
                /\ session[c].st = "lastpage" => m \in H \cup session[c].page
            BY <1>1, <2>11, <4>1 DEF Covered
          <5>2. m \in 1 .. MaxMessage /\ k \in 1 .. MaxMessage
            BY <1>0, <2>5 DEF Known, Messages
          <5>3. \A n \in rest : k < n
            BY <2>1, <2>3
          <5>4. session[c].page = rest \cup {k}
            BY <2>1, <2>3
          <5>5. m <= k => ~(k < m)
            BY <5>2
          <5>6. m <= k => m \in H \cup {k}
            BY <2>2, <5>1, <5>3, <5>4, <5>5
          <5> QED BY <5>1, <5>4, <5>6
        <4>4. CASE rest # {}
          <5>1. t.st = session[c].st
            BY <2>6, <4>2, <4>4
          <5> QED BY <2>2, <4>2, <4>3, <5>1 DEF Covered
        <4>5. CASE rest = {}
          <5>1. t.st = IF session[c].st = "page" THEN "sync" ELSE "flush"
            BY <2>6, <4>2, <4>5
          <5> QED BY <2>2, <4>2, <4>3, <4>5, <5>1 DEF Covered
        <4> QED BY <4>4, <4>5
      <3> QED BY <3>1, <3>2
    <2> QED BY <1>0, <2>2, <2>9, <2>10, <2>11, OneSession
  <1>9. ASSUME NEW c \in Clients, Flush(c)
        PROVE  GapInv'
    <2>1. /\ session[c].st = "flush"
          /\ UNCHANGED <<committed, got, handled, updates, drops, faults>>
      BY <1>9 DEF Flush, Flushing
    <2>2. CASE session[c].buffer = {} /\ session' = [session EXCEPT ![c].st = "ready"]
      <3>1. PICK t : t = [session[c] EXCEPT !.st = "ready"]
        OBVIOUS
      <3>2. session' = [session EXCEPT ![c] = t]
        BY <1>0, <2>2, <3>1
      <3>3. /\ t \in SessionType /\ t.queue = session[c].queue /\ t.st = "ready"
        BY <1>1, <3>1 DEF SessionType
      <3>4. faults = 0 /\ c \in Careful => Covered(t, got[c], Known)
        BY <1>1, <2>1, <2>2, <3>3 DEF Covered, Here
      <3> QED BY <1>0, <1>1, <2>1, <3>2, <3>3, <3>4, OneSession
    <2>3. ASSUME NEW e \in FirstOf(session[c].buffer),
                 session' = [session EXCEPT ![c] =
                    TrySend([session[c] EXCEPT !.buffer = session[c].buffer \ {e}], e)]
          PROVE  GapInv'
      <3>1. e \in session[c].buffer /\ e \in Sendable
        BY <1>1 DEF FirstOf, SessionType, Sendable
      <3>2. PICK u : u = [session[c] EXCEPT !.buffer = session[c].buffer \ {e}]
        OBVIOUS
      <3>3. /\ u \in SessionType /\ u.buffer = session[c].buffer \ {e}
            /\ u.st = "flush" /\ u.queue = session[c].queue
            /\ u.page = session[c].page /\ u.cur = session[c].cur
        BY <1>1, <2>1, <3>2 DEF SessionType
      <3>4. PICK t : t = TrySend(u, e)
        OBVIOUS
      <3>5. session' = [session EXCEPT ![c] = t]
        BY <2>3, <3>2, <3>4
      <3>6. /\ t \in SessionType /\ Len(t.queue) <= QueueSize
            /\ \/ t.st = "offline"
               \/ /\ t.st = u.st /\ t.buffer = u.buffer /\ t.page = u.page /\ t.cur = u.cur
                  /\ QueuedIn(t.queue) = QueuedIn(u.queue) \cup {e}
        <4>1. Len(u.queue) <= QueueSize
          BY <1>1, <3>3
        <4> QED BY <3>1, <3>3, <3>4, <4>1, TrySendHolds
      <3>7. ASSUME faults = 0, c \in Careful
            PROVE  Covered(t, got[c], Known)
        <4>1. CASE t.st = "offline"
          BY <4>1, NothingToCover
        <4>2. CASE t.st # "offline"
          <5>1. /\ t.st = session[c].st /\ t.page = session[c].page /\ t.cur = session[c].cur
                /\ Here(session[c], got[c]) \subseteq Here(t, got[c])
                /\ got[c] \cup QueuedIn(session[c].queue) \subseteq got[c] \cup QueuedIn(t.queue)
            BY <2>1, <3>1, <3>3, <3>6, <4>2 DEF Here
          <5> QED BY <1>1, <3>7, <5>1, MoreCovered
        <4> QED BY <4>1, <4>2
      <3> QED BY <1>0, <2>1, <3>5, <3>6, <3>7, OneSession
    <2> QED BY <1>0, <1>9, <2>2, <2>3 DEF Flush
  <1>10. ASSUME NEW c \in Clients, WriteLoop(c)
         PROVE  GapInv'
    <2>1. /\ session[c].queue # <<>>
          /\ UNCHANGED <<committed, handled, updates, drops, faults>>
          /\ got' = [got EXCEPT ![c] = @ \cup ({Head(session[c].queue)} \cap Messages)]
      BY <1>10 DEF WriteLoop
    <2>2. PICK q : q = session[c].queue
      OBVIOUS
    <2>3. PICK t : t = [session[c] EXCEPT !.queue = Tail(q)]
      OBVIOUS
    <2>4. session' = [session EXCEPT ![c] = t]
      BY <1>0, <1>10, <2>2, <2>3 DEF WriteLoop
    <2>5. q \in Seq(Sendable) /\ q # <<>> /\ Len(q) <= QueueSize
      BY <1>1, <2>1, <2>2 DEF SessionType, Sendable
    <2>6. /\ Tail(q) \in Seq(Sendable) /\ Len(q) \in Nat /\ Len(Tail(q)) = Len(q) - 1
          /\ Len(Tail(q)) <= QueueSize
      BY <2>5
    <2>7. /\ t \in SessionType /\ t.queue = Tail(q) /\ t.st = session[c].st
          /\ t.page = session[c].page /\ t.cur = session[c].cur
          /\ t.buffer = session[c].buffer
      BY <1>1, <2>3, <2>6 DEF SessionType, Sendable
    <2>8. QueuedIn(q) \subseteq {Head(q)} \cup QueuedIn(Tail(q))
      <3>1. ASSUME NEW n \in DOMAIN q
            PROVE  q[n] \in {Head(q)} \cup QueuedIn(Tail(q))
        <4>1. n \in 1 .. Len(q)
          BY <2>5
        <4>2. CASE n = 1
          BY <2>5, <4>2
        <4>3. CASE n # 1
          <5>1. n - 1 \in 1 .. Len(Tail(q)) /\ (n - 1) + 1 = n
            BY <2>6, <4>1, <4>3
          <5>2. Tail(q)[n - 1] = q[n] /\ n - 1 \in DOMAIN Tail(q)
            BY <2>5, <2>6, <5>1
          <5> QED BY <5>2 DEF QueuedIn
        <4> QED BY <4>2, <4>3
      <3> QED BY <3>1 DEF QueuedIn
    <2>9. /\ got' \in [Clients -> SUBSET Messages]
          /\ \A d \in Clients \ {c} : got'[d] = got[d]
          /\ got'[c] = got[c] \cup ({Head(q)} \cap Messages)
      BY <1>0, <2>1, <2>2
    <2>10. ASSUME faults = 0, c \in Careful
           PROVE  Covered(t, got'[c], Known)
      <3>1. Known \subseteq Messages
        BY <1>0 DEF Known
      <3>2. Covered(session[c], got[c], Known)
        BY <1>1, <2>10
      <3>3. PICK g : g = got'[c]
        OBVIOUS
      <3>4. ASSUME NEW m \in Known
            PROVE  /\ m \in Here(session[c], got[c]) => m \in Here(t, g)
                   /\ m \in got[c] \cup QueuedIn(session[c].queue)
                         => m \in g \cup QueuedIn(t.queue)
        BY <2>2, <2>7, <2>8, <2>9, <3>1, <3>3 DEF Here
      <3>5. Covered(t, g, Known)
        BY <2>7, <3>2, <3>4 DEF Covered
      <3> QED BY <3>3, <3>5
    <2> QED BY <1>0, <2>1, <2>4, <2>6, <2>7, <2>9, <2>10, OneSession
  <1>11. ASSUME NEW e \in Events, LiveEvent(e)
         PROVE  GapInv'
    <2>1. /\ e \in Messages => e \in committed
          /\ \A c \in Clients : session[c].st # "flush"
          /\ handled' = handled \cup {e}
          /\ session' = [c \in Clients |-> Deliver(session[c], e)]
          /\ UNCHANGED <<committed, got, updates, drops, faults>>
      BY <1>11 DEF LiveEvent, Flushing
    <2>2. ASSUME NEW c \in Clients
          PROVE  /\ session'[c] \in SessionType /\ Len(session'[c].queue) <= QueueSize
                 /\ faults = 0 /\ c \in Careful => Covered(session'[c], got[c], Known')
      <3>1. PICK s : s = session[c]
        OBVIOUS
      <3>2. PICK t : t = Deliver(s, e)
        OBVIOUS
      <3>3. /\ session'[c] = t /\ s \in SessionType /\ Len(s.queue) <= QueueSize
            /\ s.st # "flush"
            /\ (faults = 0 /\ c \in Careful => Covered(s, got[c], Known))
        BY <1>1, <2>1, <3>1, <3>2
      <3>4. Known' \subseteq Known \cup {e}
        BY <2>1 DEF Known
      <3>5. CASE s.st = "offline"
        <4>1. t = s
          BY <3>2, <3>5 DEF Deliver
        <4> QED BY <3>3, <3>5, <4>1, NothingToCover
      <3>6. CASE s.st = "ready"
        <4>1. t = TrySend(s, e) /\ e \in Sendable
          BY <3>2, <3>6 DEF Deliver, Sendable
        <4>2. /\ t \in SessionType /\ Len(t.queue) <= QueueSize
              /\ \/ t.st = "offline"
                 \/ /\ t.st = s.st /\ t.buffer = s.buffer /\ t.page = s.page /\ t.cur = s.cur
                    /\ QueuedIn(t.queue) = QueuedIn(s.queue) \cup {e}
          BY <3>3, <4>1, TrySendHolds
        <4>3. CASE t.st = "offline"
          BY <3>3, <4>2, <4>3, NothingToCover
        <4>4. CASE t.st # "offline"
          BY <3>3, <3>4, <3>6, <4>2, <4>4 DEF Covered
        <4> QED BY <4>3, <4>4
      <3>7. CASE s.st \notin {"offline", "ready"}
        <4>1. t = [s EXCEPT !.buffer = s.buffer \cup {e}]
          BY <3>2, <3>7 DEF Deliver
        <4>2. /\ t \in SessionType /\ t.queue = s.queue /\ t.st = s.st /\ t.page = s.page
              /\ t.cur = s.cur /\ t.buffer = s.buffer \cup {e}
          BY <3>3, <4>1 DEF SessionType
        <4>3. Here(t, got[c]) = Here(s, got[c]) \cup {e}
          BY <4>2 DEF Here
        <4> QED BY <3>3, <3>4, <3>7, <4>2, <4>3 DEF Covered
      <3> QED BY <3>5, <3>6, <3>7
    <2>3. session' \in [Clients -> SessionType]
      BY <2>1, <2>2
    <2>4. handled' \subseteq Events /\ handled' \cap Messages \subseteq committed'
      BY <1>0, <2>1
    <2>5. TypeOK'
      BY <1>0, <2>1, <2>2, <2>3, <2>4 DEF TypeOK
    <2> QED BY <2>1, <2>2, <2>4, <2>5 DEF GapInv
  <1>12. CASE NotifySubscribers
    <2>1. /\ updates < MaxDisturbances /\ updates' = updates + 1
          /\ session' = [c \in Clients |-> TrySend(session[c], PresenceUpdate)]
          /\ UNCHANGED <<committed, got, handled, drops, faults>>
      BY <1>12, <1>14 DEF NotifySubscribers
    <2>2. ASSUME NEW c \in Clients
          PROVE  /\ session'[c] \in SessionType /\ Len(session'[c].queue) <= QueueSize
                 /\ faults = 0 /\ c \in Careful => Covered(session'[c], got[c], Known)
      <3>1. PICK s : s = session[c]
        OBVIOUS
      <3>2. PICK t : t = TrySend(s, PresenceUpdate)
        OBVIOUS
      <3>3. /\ session'[c] = t /\ s \in SessionType /\ Len(s.queue) <= QueueSize
            /\ (faults = 0 /\ c \in Careful => Covered(s, got[c], Known))
        BY <1>1, <2>1, <3>1, <3>2
      <3>4. PresenceUpdate \in Sendable
        BY DEF Sendable
      <3>5. /\ t \in SessionType /\ Len(t.queue) <= QueueSize
            /\ \/ t.st = "offline"
               \/ /\ t.st = s.st /\ t.buffer = s.buffer /\ t.page = s.page /\ t.cur = s.cur
                  /\ QueuedIn(t.queue) = QueuedIn(s.queue) \cup {PresenceUpdate}
        BY <3>2, <3>3, <3>4, TrySendHolds
      <3>6. CASE t.st = "offline"
        BY <3>3, <3>5, <3>6, NothingToCover
      <3>7. CASE t.st # "offline"
        <4>1. Here(s, got[c]) \subseteq Here(t, got[c])
          BY <3>5, <3>7 DEF Here
        <4> QED BY <3>3, <3>5, <3>7, <4>1, MoreCovered
      <3> QED BY <3>6, <3>7
    <2>3. session' \in [Clients -> SessionType]
      BY <2>1, <2>2
    <2>4. updates' \in 0 .. MaxDisturbances
      BY <1>0, <2>1 DEF TypeOK
    <2>5. TypeOK'
      BY <1>0, <2>1, <2>2, <2>3, <2>4 DEF TypeOK
    <2>6. Known' = Known
      BY <2>1 DEF Known
    <2> QED BY <1>0, <2>1, <2>2, <2>5, <2>6 DEF GapInv
  <1>13. CASE UNCHANGED vars
    BY <1>13 DEF vars, GapInv, TypeOK, Known
  <1> QED BY <1>2, <1>3, <1>4, <1>5, <1>6, <1>7, <1>8, <1>9, <1>10, <1>11, <1>12, <1>13
          DEF Next, ResumeStep

LEMMA GapInvariant == Spec => []GapInv
  <1>1. Init => GapInv
    <2> SUFFICES ASSUME Init
                 PROVE  GapInv
      OBVIOUS
    <2> USE ResumeAssumption
    <2>1. /\ NoSession \in SessionType /\ Len(NoSession.queue) <= QueueSize
          /\ NoSession.st = "offline"
      BY DEF NoSession, SessionType
    <2>2. TypeOK
      BY <2>1 DEF Init, TypeOK
    <2>3. handled \cap Messages \subseteq committed
      BY DEF Init
    <2>4. ASSUME NEW c \in Clients
          PROVE  Covered(session[c], got[c], Known)
      <3>1. session[c].st = "offline"
        BY <2>1 DEF Init
      <3> QED BY <3>1, NothingToCover
    <2> QED BY <2>2, <2>3, <2>4 DEF GapInv
  <1>2. GapInv /\ [Next]_vars => GapInv'
    BY GapStep
  <1> QED BY <1>1, <1>2, PTL DEF Spec

\* The type invariant holds in every reachable state: no queue is longer than
\* SendQueueSize.
THEOREM TypeCorrect == Spec => []TypeOK
  <1>1. GapInv => TypeOK
    BY DEF GapInv
  <1> QED BY <1>1, GapInvariant, PTL

\* For any number of clients and messages, any size of queue and page, however
\* the messages are committed and delivered, and however often the connection is
\* lost: a session that is ready has missed nothing, if its client reports only
\* what has no gap below it.
THEOREM NoGapCorrect == Spec => []NoGap
  <1>1. GapInv => NoGap
    BY DEF GapInv, NoGap, Complete, Covered, Known, Queued, QueuedIn
  <1> QED BY <1>1, GapInvariant, PTL
=============================================================================
