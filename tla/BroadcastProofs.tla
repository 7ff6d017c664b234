-------------------------- MODULE BroadcastProofs --------------------------
(***************************************************************************)
(* Theorems about Broadcast, for every network, any number of items, any   *)
(* capacity of the channels and any maxBroadcastLevel.  A message only     *)
(* travels after its loop has added the targets, at least one and none of  *)
(* them addressed before, so its addresses outnumber its level by one      *)
(* while it is sent and its handlers run.                                  *)
(***************************************************************************)
EXTENDS Broadcast, FiniteSetTheorems, SequenceTheorems, TLAPS

\* A message in a channel has been handed on at most as often as it has
\* addresses.
Paid(m) == m.level <= Cardinality(m.addresses)

\* A message that is sent has one address more.
PaidAhead(m) == m.level + 1 <= Cardinality(m.addresses)

Queued ==
  \A n \in Host, k \in Kind : \A j \in DOMAIN channel[n][k] : Paid(channel[n][k][j])

\* A loop never calls its own host.
Sending ==
  \A n \in Host : sending[n] # Idle => PaidAhead(sending[n].msg) /\ n \notin sending[n].left

\* A handler of a local caller only announces.
Handling ==
  \A h \in BagToSet(handlers) :
    IF h.from = h.at THEN h.stage = "announce" /\ h.msg.level = 0 ELSE PaidAhead(h.msg)

\* The handlers that host n waits for.
AwaitedBy(n) == {h \in BagToSet(handlers) : h.from = n /\ h.awaited}

\* A loop that waits has exactly one handler under way to end its waiting, and one
\* that does not has none whose end would disturb it.
AwaitedOnce ==
  \A n \in Host : IF sending[n].waiting
                  THEN \E h \in AwaitedBy(n) : AwaitedBy(n) = {h} /\ handlers[h] = 1
                  ELSE AwaitedBy(n) = {}

IInv == TypeOK /\ Queued /\ Sending /\ Handling /\ AwaitedOnce
----------------------------------------------------------------------------
\* A bag with one element more.
With(B, h) == B (+) SetToBag({h})

LEMMA BagAdd ==
  ASSUME NEW B, IsABag(B), NEW h
  PROVE  /\ IsABag(With(B, h))
         /\ BagToSet(With(B, h)) = BagToSet(B) \cup {h}
         /\ \A g \in BagToSet(B) : g # h => With(B, h)[g] = B[g]
         /\ h \notin BagToSet(B) => With(B, h)[h] = 1
<1> DEFINE C == With(B, h)
<1>1. C = [e \in (DOMAIN B) \cup {h} |->
             (IF e \in DOMAIN B THEN B[e] ELSE 0) + (IF e \in {h} THEN 1 ELSE 0)]
  BY DEF With, SetToBag, (+)
<1>2. \A e \in DOMAIN B : B[e] \in Nat /\ B[e] > 0
  BY DEF IsABag
<1>3. DOMAIN C = DOMAIN B \cup {h}
  BY <1>1
<1>4. \A e \in DOMAIN C : C[e] = IF e = h THEN (IF h \in DOMAIN B THEN B[h] + 1 ELSE 1) ELSE B[e]
  BY <1>1, <1>2
<1>5. \A e \in DOMAIN C : C[e] \in Nat /\ C[e] > 0
  BY <1>2, <1>3, <1>4
<1>6. C \in [DOMAIN C -> {n \in Nat : n > 0}]
  BY <1>1, <1>3, <1>5
<1> QED BY <1>3, <1>4, <1>6 DEF IsABag, BagToSet

\* A bag with one of its elements less.
LEMMA BagRemove ==
  ASSUME NEW B, IsABag(B), NEW h \in BagToSet(B)
  PROVE  /\ IsABag(B (-) SetToBag({h}))
         /\ BagToSet(B (-) SetToBag({h})) \subseteq BagToSet(B)
         /\ BagToSet(B) \subseteq BagToSet(B (-) SetToBag({h})) \cup {h}
         /\ \A g \in BagToSet(B) : g # h => (B (-) SetToBag({h}))[g] = B[g]
         /\ B[h] = 1 => h \notin BagToSet(B (-) SetToBag({h}))
<1> DEFINE D == [e \in DOMAIN B |-> IF e \in {h} THEN B[e] - 1 ELSE B[e]]
           C == B (-) SetToBag({h})
<1>1. C = [e \in {d \in DOMAIN D : D[d] > 0} |-> D[e]]
  BY DEF SetToBag, (-)
<1>2. \A e \in DOMAIN B : B[e] \in Nat /\ B[e] > 0
  BY DEF IsABag
<1>3. \A e \in DOMAIN B : D[e] = IF e = h THEN B[h] - 1 ELSE B[e]
  OBVIOUS
<1>4. DOMAIN D = DOMAIN B /\ \A e \in DOMAIN B : D[e] \in Nat
  BY <1>2, <1>3
<1>5. h \in DOMAIN B
  BY DEF BagToSet
<1> HIDE DEF D
<1>6. DOMAIN C = {d \in DOMAIN B : D[d] > 0} /\ \A e \in DOMAIN C : C[e] = D[e]
  BY <1>1, <1>4
<1>7. C \in [DOMAIN C -> {n \in Nat : n > 0}]
  BY <1>1, <1>4, <1>6
<1>8. \A g \in DOMAIN B : g # h => g \in DOMAIN C /\ C[g] = B[g]
  BY <1>2, <1>3, <1>6
<1>9. B[h] = 1 => h \notin DOMAIN C
  BY <1>3, <1>5, <1>6
<1> HIDE DEF C
<1>10. /\ IsABag(C) /\ BagToSet(C) \subseteq BagToSet(B)
       /\ BagToSet(B) \subseteq BagToSet(C) \cup {h}
       /\ \A g \in BagToSet(B) : g # h => C[g] = B[g]
       /\ B[h] = 1 => h \notin BagToSet(C)
  BY <1>6, <1>7, <1>8, <1>9 DEF IsABag, BagToSet
<1> QED BY <1>10 DEF C

\* Nothing is in the empty bag.
LEMMA BagEmpty == IsABag(EmptyBag) /\ BagToSet(EmptyBag) = {}
BY DEF IsABag, BagToSet, EmptyBag, SetToBag

\* The number of addresses of a message.
LEMMA AddressCount ==
  ASSUME NEW s \in SUBSET Host
  PROVE  IsFiniteSet(s) /\ Cardinality(s) \in Nat
BY BroadcastAssumption, FS_Subset, FS_CardinalityType

\* Addressed gives a message at least one new address if there are targets.
LEMMA AddressedPays ==
  ASSUME NEW m \in Message, NEW n \in Host, Neighbors(n) \subseteq Host,
         Paid(m), Targets(m, n) # {}
  PROVE  Addressed(m, n) \in Message /\ PaidAhead(Addressed(m, n))
<1> DEFINE t == Targets(m, n)
<1>1. t \subseteq Host /\ t \cap m.addresses = {}
  BY DEF Targets
<1>2. /\ m.addresses \subseteq Host /\ m.level \in 0 .. MaxLevel /\ m.item \in Item
      /\ m = [item |-> m.item, level |-> m.level, addresses |-> m.addresses]
  BY DEF Message
<1>3. Addressed(m, n) = [item |-> m.item, level |-> m.level, addresses |-> m.addresses \cup t]
  BY <1>2 DEF Addressed
<1> HIDE DEF t
<1>4. t # {}
  BY DEF t
<1>5. /\ IsFiniteSet(t) /\ Cardinality(t) \in Nat
      /\ IsFiniteSet(m.addresses) /\ Cardinality(m.addresses) \in Nat
  BY <1>1, <1>2, AddressCount
<1>6. Cardinality(t) # 0
  BY <1>4, <1>5, FS_EmptySet
<1>7. Cardinality(m.addresses \cup t)
        = Cardinality(m.addresses) + Cardinality(t) - Cardinality(m.addresses \cap t)
  BY <1>5, FS_Union
<1>8. Cardinality(m.addresses \cap t) = 0
  <2>1. m.addresses \cap t = {}
    BY <1>1
  <2> QED BY <2>1, FS_EmptySet
<1>9. Cardinality(m.addresses \cup t) >= Cardinality(m.addresses) + 1
  BY <1>5, <1>6, <1>7, <1>8
<1>10. /\ Cardinality(m.addresses \cup t) \in Nat
       /\ m.addresses \cup t \subseteq Host
  BY <1>1, <1>2, AddressCount
<1>11. m.level + 1 <= Cardinality(m.addresses \cup t)
  BY <1>2, <1>5, <1>9, <1>10 DEF Paid
<1> QED BY <1>2, <1>3, <1>10, <1>11 DEF PaidAhead, Message

\* What a loop is after one of its calls.
LEMMA AfterCallType ==
  ASSUME NEW s \in {Idle} \cup [msg : Message, left : SUBSET Host, waiting : BOOLEAN]
  PROVE  /\ AfterCall(s) \in {Idle} \cup [msg : Message, left : SUBSET Host, waiting : BOOLEAN]
         /\ ~AfterCall(s).waiting
         /\ AfterCall(s) # Idle =>
              s # Idle /\ AfterCall(s).msg = s.msg /\ AfterCall(s).left = s.left
<1>1. CASE s = Idle
  BY <1>1 DEF Idle, AfterCall
<1>2. CASE s \in [msg : Message, left : SUBSET Host, waiting : BOOLEAN]
  <2>1. s # Idle
    BY <1>2 DEF Idle
  <2>2. CASE s.left = {}
    BY <2>2 DEF Idle, AfterCall
  <2>3. CASE s.left # {}
    BY <1>2, <2>1, <2>3 DEF AfterCall
  <2> QED BY <2>2, <2>3
<1> QED BY <1>1, <1>2

\* A loop that is idle waits for nobody.
LEMMA WaitingSends ==
  ASSUME TypeOK, NEW n \in Host
  PROVE  /\ sending[n].waiting => sending[n] # Idle
         /\ sending[n].left # {} => sending[n] # Idle
         /\ sending[n].left \subseteq Host
         /\ sending[n] # Idle => sending[n] \in [msg : Message, left : SUBSET Host, waiting : BOOLEAN]
BY DEF TypeOK, Idle

\* A handler that starts and that nobody waits for.
LEMMA StartLocal ==
  ASSUME IInv, NEW h \in Handler, h.from = h.at, h.stage = "announce", h.msg.level = 0,
         ~h.awaited, Start(h), UNCHANGED <<channel, sending>>
  PROVE  /\ IsABag(handlers') /\ BagToSet(handlers') \subseteq Handler
         /\ Handling' /\ AwaitedOnce'
<1>1. IsABag(handlers) /\ BagToSet(handlers) \subseteq Handler
  BY DEF IInv, TypeOK
<1>2. /\ IsABag(handlers')
      /\ BagToSet(handlers') = BagToSet(handlers) \cup {h}
      /\ \A g \in BagToSet(handlers) : g # h => handlers'[g] = handlers[g]
  <2> DEFINE C == With(handlers, h)
  <2>1. /\ IsABag(C) /\ BagToSet(C) = BagToSet(handlers) \cup {h}
        /\ \A g \in BagToSet(handlers) : g # h => C[g] = handlers[g]
    BY <1>1, BagAdd
  <2>2. handlers' = C
    BY DEF Start, With
  <2> HIDE DEF C
  <2> QED BY <2>1, <2>2
<1>3. Handling'
  BY <1>2 DEF IInv, Handling, PaidAhead
<1>4. \A n \in Host : AwaitedBy(n)' = AwaitedBy(n)
  BY <1>2 DEF AwaitedBy
<1>5. AwaitedOnce'
  BY <1>2, <1>4 DEF IInv, AwaitedOnce, AwaitedBy
<1> QED BY <1>1, <1>2, <1>3, <1>5

\* A handler that goes on to its next stage; nobody's waiting is disturbed.
LEMMA MoveKeeps ==
  ASSUME IInv, NEW h \in BagToSet(handlers), NEW stage \in {"receive", "announce", "forward"},
         h.from # h.at, Move(h, stage), UNCHANGED sending
  PROVE  /\ IsABag(handlers') /\ BagToSet(handlers') \subseteq Handler
         /\ Handling' /\ AwaitedOnce'
<1> DEFINE B == handlers (-) SetToBag({h})
           m == [h EXCEPT !.stage = stage]
<1>1. IsABag(handlers) /\ BagToSet(handlers) \subseteq Handler
  BY DEF IInv, TypeOK
<1>2. /\ m \in Handler /\ m.from = h.from /\ m.at = h.at /\ m.msg = h.msg
      /\ m.awaited = h.awaited
  BY <1>1 DEF Handler
<1>3. /\ IsABag(B) /\ BagToSet(B) \subseteq BagToSet(handlers)
      /\ BagToSet(handlers) \subseteq BagToSet(B) \cup {h}
      /\ \A g \in BagToSet(handlers) : g # h => B[g] = handlers[g]
      /\ handlers[h] = 1 => h \notin BagToSet(B)
  BY <1>1, BagRemove
<1>4. handlers' = B (+) SetToBag({m})
  BY DEF Move
<1> HIDE DEF B, m
<1>5. /\ IsABag(handlers')
      /\ BagToSet(handlers') = BagToSet(B) \cup {m}
      /\ \A g \in BagToSet(B) : g # m => handlers'[g] = B[g]
      /\ m \notin BagToSet(B) => handlers'[m] = 1
  <2> DEFINE C == With(B, m)
  <2>1. /\ IsABag(C) /\ BagToSet(C) = BagToSet(B) \cup {m}
        /\ \A g \in BagToSet(B) : g # m => C[g] = B[g]
        /\ m \notin BagToSet(B) => C[m] = 1
    BY <1>3, BagAdd
  <2>2. handlers' = C
    BY <1>4 DEF With
  <2> HIDE DEF C
  <2> QED BY <2>1, <2>2
<1>6. Handling'
  BY <1>2, <1>3, <1>5 DEF IInv, Handling
<1>7. ASSUME NEW n \in Host
      PROVE  IF sending'[n].waiting
             THEN \E g \in AwaitedBy(n)' : AwaitedBy(n)' = {g} /\ handlers'[g] = 1
             ELSE AwaitedBy(n)' = {}
  <2>1. IF sending[n].waiting
        THEN \E g \in AwaitedBy(n) : AwaitedBy(n) = {g} /\ handlers[g] = 1
        ELSE AwaitedBy(n) = {}
    BY DEF IInv, AwaitedOnce
  <2>2. CASE h \in AwaitedBy(n)
    <3>1. sending[n].waiting /\ AwaitedBy(n) = {h} /\ handlers[h] = 1
      BY <2>1, <2>2
    <3>2. h \notin BagToSet(B) /\ m.from = n /\ m.awaited
      BY <1>2, <1>3, <2>2, <3>1 DEF AwaitedBy
    <3>3. \A g \in BagToSet(B) : ~(g.from = n /\ g.awaited)
      BY <1>3, <3>1, <3>2 DEF AwaitedBy
    <3>4. m \notin BagToSet(B) /\ AwaitedBy(n)' = {m}
      BY <1>5, <3>2, <3>3 DEF AwaitedBy
    <3> QED BY <1>5, <3>1, <3>4
  <2>3. CASE h \notin AwaitedBy(n)
    <3>1. ~(m.from = n /\ m.awaited) /\ ~(h.from = n /\ h.awaited)
      BY <1>2, <2>3 DEF AwaitedBy
    <3>2. AwaitedBy(n)' = AwaitedBy(n)
      BY <1>3, <1>5, <3>1 DEF AwaitedBy
    <3>3. \A g \in AwaitedBy(n) : handlers'[g] = handlers[g]
      BY <1>3, <1>5, <3>1 DEF AwaitedBy
    <3> QED BY <2>1, <3>2, <3>3
  <2> QED BY <2>2, <2>3
<1>8. AwaitedOnce'
  BY <1>7 DEF AwaitedOnce
<1> QED BY <1>1, <1>2, <1>3, <1>5, <1>6, <1>8

\* A handler that ends; the loop that waits for it, and only this one, goes on.
LEMMA FinishKeeps ==
  ASSUME IInv, NEW h \in BagToSet(handlers), Finish(h)
  PROVE  /\ IsABag(handlers') /\ BagToSet(handlers') \subseteq Handler
         /\ sending' \in [Host -> {Idle} \cup [msg : Message, left : SUBSET Host, waiting : BOOLEAN]]
         /\ Sending' /\ Handling' /\ AwaitedOnce'
<1>1. IsABag(handlers) /\ BagToSet(handlers) \subseteq Handler /\ h.from \in Host
  BY DEF IInv, TypeOK, Handler
<1>2. sending \in [Host -> {Idle} \cup [msg : Message, left : SUBSET Host, waiting : BOOLEAN]]
  BY DEF IInv, TypeOK
<1>3. /\ IsABag(handlers') /\ BagToSet(handlers') \subseteq BagToSet(handlers)
      /\ BagToSet(handlers) \subseteq BagToSet(handlers') \cup {h}
      /\ \A g \in BagToSet(handlers) : g # h => handlers'[g] = handlers[g]
      /\ handlers[h] = 1 => h \notin BagToSet(handlers')
  BY <1>1, BagRemove DEF Finish
<1>4. sending' = IF h.awaited THEN [sending EXCEPT ![h.from] = AfterCall(sending[h.from])] ELSE sending
  BY DEF Finish
<1>5. Handling'
  BY <1>3 DEF IInv, Handling
<1>6. CASE h.awaited
  <2> DEFINE s == AfterCall(sending[h.from])
  <2>1. /\ s \in {Idle} \cup [msg : Message, left : SUBSET Host, waiting : BOOLEAN]
        /\ ~s.waiting
        /\ s # Idle => /\ sending[h.from] # Idle
                       /\ s.msg = sending[h.from].msg
                       /\ s.left = sending[h.from].left
    BY <1>1, <1>2, AfterCallType
  <2>2. sending' = [sending EXCEPT ![h.from] = s]
    BY <1>4, <1>6
  <2> HIDE DEF s
  <2>3. Sending'
    BY <1>1, <1>2, <2>1, <2>2 DEF IInv, Sending
  <2>4. AwaitedBy(h.from) = {h} /\ handlers[h] = 1
    BY <1>1, <1>6 DEF IInv, AwaitedOnce, AwaitedBy
  <2>5. AwaitedBy(h.from)' = {}
    BY <1>3, <2>4 DEF AwaitedBy
  <2>6. \A n \in Host \ {h.from} : AwaitedBy(n)' = AwaitedBy(n) /\ h \notin AwaitedBy(n)
    BY <1>3 DEF AwaitedBy
  <2>7. \A n \in Host \ {h.from} : \A g \in AwaitedBy(n) : handlers'[g] = handlers[g]
    BY <1>3, <2>6 DEF AwaitedBy
  <2>8. AwaitedOnce'
    BY <1>1, <1>2, <2>1, <2>2, <2>5, <2>6, <2>7 DEF IInv, AwaitedOnce
  <2> QED BY <1>1, <1>2, <1>3, <1>5, <2>1, <2>2, <2>3, <2>8
<1>7. CASE ~h.awaited
  <2>1. sending' = sending
    BY <1>4, <1>7
  <2>2. \A n \in Host : AwaitedBy(n)' = AwaitedBy(n)
    BY <1>3, <1>7 DEF AwaitedBy
  <2>3. \A n \in Host : \A g \in AwaitedBy(n) : handlers'[g] = handlers[g]
    BY <1>3, <1>7 DEF AwaitedBy
  <2>4. AwaitedOnce'
    BY <2>1, <2>2, <2>3 DEF IInv, AwaitedOnce
  <2> QED BY <1>1, <1>2, <1>3, <1>5, <2>1, <2>4 DEF IInv, Sending
<1> QED BY <1>6, <1>7

\* A queue with one message more, or none if the message is at the highest level.
LEMMA EnqueueKeeps ==
  ASSUME IInv, NEW n \in Host, NEW m, m.level < MaxLevel => m \in Message, Paid(m),
         Enqueue(n, m)
  PROVE  /\ channel' \in [Host -> [Kind -> Seq(Message)]]
         /\ \A x \in Host, k \in Kind : Len(channel'[x][k]) <= Capacity
         /\ Queued'
<1> USE BroadcastAssumption
<1>1. /\ channel \in [Host -> [Kind -> Seq(Message)]]
      /\ \A x \in Host, k \in Kind : Len(channel[x][k]) <= Capacity
      /\ Queued
  BY DEF IInv, TypeOK
<1>2. CASE m.level < MaxLevel
  <2> DEFINE k == KindOf(m.item)
             q == Append(channel[n][k], m)
  <2>1. k \in Kind /\ m \in Message
    BY <1>2 DEF KindOf, Kind
  <2>2. channel' = [channel EXCEPT ![n][k] = q] /\ Len(channel[n][k]) < Capacity
    BY <1>2 DEF Enqueue, Room
  <2>3. channel[n][k] \in Seq(Message) /\ Len(channel[n][k]) \in Nat
    BY <1>1, <2>1, LenProperties
  <2>4. /\ q \in Seq(Message)
        /\ Len(q) = Len(channel[n][k]) + 1
        /\ \A j \in 1 .. Len(channel[n][k]) : q[j] = channel[n][k][j]
        /\ q[Len(channel[n][k]) + 1] = m
    BY <2>1, <2>3, AppendProperties
  <2>5. DOMAIN q = 1 .. Len(q) /\ DOMAIN channel[n][k] = 1 .. Len(channel[n][k])
    BY <2>3, <2>4, LenProperties
  <2> HIDE DEF k, q
  <2>6. \A j \in DOMAIN q : Paid(q[j])
    <3>1. ASSUME NEW j \in DOMAIN q PROVE Paid(q[j])
      <4>1. j \in 1 .. Len(channel[n][k]) \/ j = Len(channel[n][k]) + 1
        BY <2>3, <2>4, <2>5
      <4>2. CASE j = Len(channel[n][k]) + 1
        BY <2>4, <4>2
      <4>3. CASE j \in 1 .. Len(channel[n][k])
        BY <1>1, <2>1, <2>4, <2>5, <4>3 DEF Queued
      <4> QED BY <4>1, <4>2, <4>3
    <3> QED BY <3>1
  <2>7. Len(q) <= Capacity
    BY <2>2, <2>3, <2>4
  <2>8. /\ channel' \in [Host -> [Kind -> Seq(Message)]]
        /\ \A x \in Host, y \in Kind :
             channel'[x][y] = IF x = n /\ y = k THEN q ELSE channel[x][y]
    BY <1>1, <2>1, <2>2, <2>4
  <2>9. Queued'
    BY <1>1, <2>6, <2>8 DEF Queued
  <2> QED BY <1>1, <2>7, <2>8, <2>9
<1>3. CASE ~(m.level < MaxLevel)
  <2>1. channel' = channel
    BY <1>3 DEF Enqueue
  <2> QED BY <1>1, <2>1 DEF Queued
<1> QED BY <1>2, <1>3

\* The first state sends nothing.
LEMMA InitIInv == Init => IInv
<1> SUFFICES ASSUME Init PROVE IInv
  OBVIOUS
<1> USE BroadcastAssumption DEF Init
<1>1. <<>> \in Seq(Message) /\ Len(<<>>) = 0 /\ DOMAIN <<>> = {}
  BY EmptySeq
<1>2. \A n \in Host, k \in Kind : channel[n][k] = <<>>
  OBVIOUS
<1>3. network.items \subseteq Item
  BY DEF Item
<1>4. TypeOK
  BY <1>1, <1>2, <1>3, BagEmpty DEF TypeOK
<1>5. Queued
  BY <1>1, <1>2 DEF Queued
<1>6. Sending /\ Handling /\ AwaitedOnce
  BY BagEmpty DEF Sending, Handling, AwaitedOnce, AwaitedBy, Idle
<1> QED BY <1>4, <1>5, <1>6 DEF IInv

\* The types of what Push and Fetch change, and of what has not come up yet.
Pools ==
  /\ known \in [Host -> SUBSET Item]
  /\ pooled \in [Host -> SUBSET Transaction]
  /\ locked \subseteq Host
  /\ fetches \in 0 .. MaxFetches
  /\ unborn \subseteq Item

\* Push keeps the types of what it changes.
LEMMA PoolKeeps ==
  ASSUME NEW n \in Host, NEW i \in Transaction, Pools, PoolTransaction(n, i)
  PROVE  /\ known' \in [Host -> SUBSET Item]
         /\ pooled' \in [Host -> SUBSET Transaction]
         /\ locked' \subseteq Host
<1>1. i \in Item
  BY DEF Item
<1> QED BY <1>1 DEF Pools, PoolTransaction

\* Fetch changes hashes only.
LEMMA FetchKeeps ==
  ASSUME IInv, NEW n \in Host, Fetch(n), UNCHANGED network
  PROVE  IInv'
<1>1. UNCHANGED <<channel, sending, handlers, known, locked, unborn>>
  BY DEF Fetch
<1>2. pooled' \in [Host -> SUBSET Transaction]
  BY DEF Fetch, IInv, TypeOK
<1>3. fetches' \in 0 .. MaxFetches
  BY BroadcastAssumption DEF Fetch, IInv, TypeOK
<1> QED BY <1>1, <1>2, <1>3
        DEF IInv, TypeOK, Queued, Sending, Handling, AwaitedOnce, AwaitedBy

\* Mining a block or entering a transaction starts a local caller.
LEMMA OriginKeeps ==
  ASSUME IInv, NEW i \in Item, MineBlock(i) \/ EnterTransaction(i), UNCHANGED network
  PROVE  IInv'
<1> USE BroadcastAssumption
<1> DEFINE m == [item |-> i, level |-> 0, addresses |-> {}]
           h == [at |-> Origin[i], from |-> Origin[i], awaited |-> FALSE,
                 stage |-> "announce", msg |-> m]
<1>1. h \in Handler
  BY DEF Handler, Message
<1>2. /\ h.from = h.at /\ h.stage = "announce" /\ h.msg.level = 0 /\ ~h.awaited
      /\ UNCHANGED <<channel, sending>>
  BY DEF MineBlock, EnterTransaction
<1>3. Pools'
  <2>1. Pools /\ Origin[i] \in Host
    BY DEF IInv, TypeOK, Pools
  <2>2. CASE MineBlock(i)
    BY <2>1, <2>2 DEF MineBlock, Pools, pools
  <2>3. CASE EnterTransaction(i)
    <3>1. i \in Transaction /\ unborn' \subseteq Item /\ UNCHANGED fetches
      BY <2>1, <2>3 DEF EnterTransaction, Pools
    <3>2. CASE UNCHANGED <<known, pooled, locked>>
      BY <2>1, <3>1, <3>2 DEF Pools
    <3>3. CASE PoolTransaction(Origin[i], i)
      BY <2>1, <3>1, <3>3, PoolKeeps DEF Pools
    <3> QED BY <2>3, <3>2, <3>3 DEF EnterTransaction
  <2> QED BY <2>2, <2>3
<1>4. Start(h) \/ UNCHANGED handlers
  BY DEF MineBlock, EnterTransaction
<1> HIDE DEF h
<1>5. CASE Start(h)
  <2>1. /\ IsABag(handlers') /\ BagToSet(handlers') \subseteq Handler
        /\ Handling' /\ AwaitedOnce'
    BY <1>1, <1>2, <1>5, StartLocal
  <2> QED BY <1>2, <1>3, <2>1 DEF IInv, TypeOK, Pools, Queued, Sending
<1>6. CASE UNCHANGED handlers
  BY <1>2, <1>3, <1>6
  DEF IInv, TypeOK, Pools, Queued, Sending, Handling, AwaitedOnce, AwaitedBy
<1> QED BY <1>4, <1>5, <1>6

\* What the invariant says of one handler.
LEMMA HandlerFacts ==
  ASSUME IInv, NEW h \in BagToSet(handlers)
  PROVE  /\ h \in Handler
         /\ h.stage # "announce" => h.from # h.at /\ PaidAhead(h.msg)
BY DEF IInv, TypeOK, Handling

\* A message one level up, if it may still travel.
LEMMA RaisedPaid ==
  ASSUME NEW m \in Message, PaidAhead(m)
  PROVE  /\ Raised(m).level < MaxLevel => Raised(m) \in Message
         /\ Paid(Raised(m))
<1>1. /\ m.addresses \subseteq Host /\ m.level \in 0 .. MaxLevel /\ m.item \in Item
      /\ m = [item |-> m.item, level |-> m.level, addresses |-> m.addresses]
  BY DEF Message
<1>2. Raised(m) = [item |-> m.item, level |-> m.level + 1, addresses |-> m.addresses]
  BY <1>1 DEF Raised
<1>3. m.level + 1 < MaxLevel => m.level + 1 \in 0 .. MaxLevel
  BY <1>1, BroadcastAssumption
<1> QED BY <1>1, <1>2, <1>3 DEF Message, Paid, PaidAhead

\* A message as its own host sends it.
LEMMA AnnouncedPaid ==
  ASSUME NEW m \in Message
  PROVE  /\ [m EXCEPT !.level = 0, !.addresses = {}] \in Message
         /\ Paid([m EXCEPT !.level = 0, !.addresses = {}])
<1>1. 0 \in 0 .. MaxLevel
  BY BroadcastAssumption
<1>2. [m EXCEPT !.level = 0, !.addresses = {}] \in Message
  BY <1>1 DEF Message
<1>3. /\ [m EXCEPT !.level = 0, !.addresses = {}].level = 0
      /\ [m EXCEPT !.level = 0, !.addresses = {}].addresses = {}
  BY DEF Message
<1> QED BY <1>2, <1>3, FS_EmptySet DEF Paid

\* The handlers of calls that arrive, in all their stages.
LEMMA HandlerKeeps ==
  ASSUME IInv, NEW h \in BagToSet(handlers), UNCHANGED network,
         \/ ReceiveBlock(h) \/ RefuseBlock(h) \/ ReceiveTransaction(h)
         \/ Announce(h) \/ Forward(h)
  PROVE  IInv'
<1>1. /\ h \in Handler
      /\ h.at \in Host /\ h.msg \in Message /\ h.msg.item \in Item
      /\ h.stage # "announce" => h.from # h.at /\ PaidAhead(h.msg)
  BY HandlerFacts DEF Handler, Message
<1>2. CASE ReceiveBlock(h)
  <2>1. /\ IsABag(handlers') /\ BagToSet(handlers') \subseteq Handler
        /\ Handling' /\ AwaitedOnce'
    BY <1>1, <1>2, MoveKeeps DEF ReceiveBlock
  <2>2. /\ UNCHANGED <<channel, sending, pooled, locked, fetches, unborn>>
        /\ known' \in [Host -> SUBSET Item]
    BY <1>1, <1>2 DEF ReceiveBlock, IInv, TypeOK, pools
  <2> QED BY <2>1, <2>2 DEF IInv, TypeOK, Queued, Sending
<1>3. CASE RefuseBlock(h)
  <2>1. /\ IsABag(handlers') /\ BagToSet(handlers') \subseteq Handler
        /\ sending' \in [Host -> {Idle} \cup [msg : Message, left : SUBSET Host, waiting : BOOLEAN]]
        /\ Sending' /\ Handling' /\ AwaitedOnce'
    BY <1>3, FinishKeeps DEF RefuseBlock
  <2>2. UNCHANGED <<channel, known, pooled, locked, fetches, unborn>>
    BY <1>3 DEF RefuseBlock, pools
  <2> QED BY <2>1, <2>2 DEF IInv, TypeOK, Queued
<1>4. CASE ReceiveTransaction(h)
  <2>1. /\ h.from # h.at /\ UNCHANGED <<channel, sending, unborn>>
        /\ Move(h, "forward") \/ Move(h, "announce")
    BY <1>1, <1>4 DEF ReceiveTransaction
  <2>2. /\ IsABag(handlers') /\ BagToSet(handlers') \subseteq Handler
        /\ Handling' /\ AwaitedOnce'
    BY <2>1, MoveKeeps
  <2>3. Pools /\ h.msg.item \in Transaction /\ UNCHANGED <<fetches, unborn>>
    BY <1>4 DEF ReceiveTransaction, IInv, TypeOK, Pools
  <2>4. UNCHANGED <<known, pooled, locked>> \/ PoolTransaction(h.at, h.msg.item)
    BY <1>4 DEF ReceiveTransaction
  <2>5. Pools'
    <3>1. CASE UNCHANGED <<known, pooled, locked>>
      BY <2>3, <3>1 DEF Pools
    <3>2. CASE PoolTransaction(h.at, h.msg.item)
      BY <1>1, <2>3, <3>2, PoolKeeps DEF Pools
    <3> QED BY <2>4, <3>1, <3>2
  <2> QED BY <2>1, <2>2, <2>5 DEF IInv, TypeOK, Pools, Queued, Sending
<1>5. CASE Announce(h)
  <2> DEFINE m == [h.msg EXCEPT !.level = 0, !.addresses = {}]
  <2>1. m \in Message /\ Paid(m)
    BY <1>1, AnnouncedPaid
  <2>2. Enqueue(h.at, m)
    BY <1>5 DEF Announce
  <2> HIDE DEF m
  <2>3. /\ channel' \in [Host -> [Kind -> Seq(Message)]]
        /\ \A x \in Host, k \in Kind : Len(channel'[x][k]) <= Capacity
        /\ Queued'
    BY <1>1, <2>1, <2>2, EnqueueKeeps
  <2>4. UNCHANGED <<known, pooled, fetches, unborn>> /\ locked' \subseteq Host
    BY <1>5 DEF Announce, IInv, TypeOK
  <2>5. CASE h.from = h.at
    <3>1. Finish(h)
      BY <1>5, <2>5 DEF Announce
    <3>2. /\ IsABag(handlers') /\ BagToSet(handlers') \subseteq Handler
          /\ sending' \in [Host -> {Idle} \cup [msg : Message, left : SUBSET Host, waiting : BOOLEAN]]
          /\ Sending' /\ Handling' /\ AwaitedOnce'
      BY <3>1, FinishKeeps
    <3> QED BY <2>3, <2>4, <3>2 DEF IInv, TypeOK
  <2>6. CASE h.from # h.at
    <3>1. Move(h, "forward") /\ UNCHANGED sending
      BY <1>5, <2>6 DEF Announce
    <3>2. /\ IsABag(handlers') /\ BagToSet(handlers') \subseteq Handler
          /\ Handling' /\ AwaitedOnce'
      BY <2>6, <3>1, MoveKeeps
    <3> QED BY <2>3, <2>4, <3>1, <3>2 DEF IInv, TypeOK, Sending
  <2> QED BY <2>5, <2>6
<1>6. CASE Forward(h)
  <2>1. PaidAhead(h.msg)
    BY <1>1, <1>6 DEF Forward
  <2>2. (Raised(h.msg).level < MaxLevel => Raised(h.msg) \in Message) /\ Paid(Raised(h.msg))
    BY <1>1, <2>1, RaisedPaid
  <2>3. /\ Enqueue(h.at, Raised(h.msg)) /\ Finish(h)
        /\ UNCHANGED <<known, pooled, locked, fetches, unborn>>
    BY <1>6 DEF Forward, pools
  <2>4. /\ channel' \in [Host -> [Kind -> Seq(Message)]]
        /\ \A x \in Host, k \in Kind : Len(channel'[x][k]) <= Capacity
        /\ Queued'
    BY <1>1, <2>2, <2>3, EnqueueKeeps
  <2>5. /\ IsABag(handlers') /\ BagToSet(handlers') \subseteq Handler
        /\ sending' \in [Host -> {Idle} \cup [msg : Message, left : SUBSET Host, waiting : BOOLEAN]]
        /\ Sending' /\ Handling' /\ AwaitedOnce'
    BY <2>3, FinishKeeps
  <2> QED BY <2>3, <2>4, <2>5 DEF IInv, TypeOK
<1> QED BY <1>2, <1>3, <1>4, <1>5, <1>6

\* A loop takes a message and adds its targets to the addresses.
LEMMA TakeKeeps ==
  ASSUME IInv, NEW n \in Host, NEW k \in Kind, Take(n, k), UNCHANGED network
  PROVE  IInv'
<1> USE BroadcastAssumption
<1> DEFINE q == channel[n][k]
           m == Head(q)
<1>1. /\ q \in Seq(Message) /\ q # <<>> /\ Len(q) <= Capacity
      /\ \A j \in DOMAIN q : Paid(q[j])
      /\ channel \in [Host -> [Kind -> Seq(Message)]]
      /\ sending \in [Host -> {Idle} \cup [msg : Message, left : SUBSET Host, waiting : BOOLEAN]]
      /\ Neighbors(n) \subseteq Host
  BY DEF Take, IInv, TypeOK, Queued, Neighbors
<1>2. Len(q) \in Nat \ {0} /\ DOMAIN q = 1 .. Len(q)
  BY <1>1, EmptySeq, LenProperties
<1>3. /\ m \in Message /\ m = q[1]
      /\ Tail(q) \in Seq(Message) /\ Len(Tail(q)) = Len(q) - 1
      /\ \A j \in 1 .. Len(Tail(q)) : Tail(q)[j] = q[j + 1]
  BY <1>1, HeadTailProperties
<1>4. Paid(m)
  <2>1. 1 \in DOMAIN q
    BY <1>2
  <2> QED BY <1>1, <1>3, <2>1
<1>5. DOMAIN Tail(q) = 1 .. Len(Tail(q))
  BY <1>3, LenProperties
<1>6. /\ sending[n] = Idle
      /\ sending' = [sending EXCEPT ![n] =
           IF Targets(m, n) = {} THEN Idle
           ELSE [msg |-> Addressed(m, n), left |-> Targets(m, n), waiting |-> FALSE]]
      /\ channel' = [channel EXCEPT ![n][k] = Tail(q)]
      /\ UNCHANGED <<handlers, known, pooled, locked, fetches, unborn>>
  BY DEF Take, pools
<1> DEFINE t == Tail(q)
<1> HIDE DEF q, m, t
<1>7. \A j \in DOMAIN t : Paid(t[j])
  <2>1. ASSUME NEW j \in DOMAIN t PROVE Paid(t[j])
    <3>1. j + 1 \in DOMAIN q /\ t[j] = q[j + 1]
      BY <1>2, <1>3, <1>5 DEF t
    <3> QED BY <1>1, <3>1
  <2> QED BY <2>1
<1>8. /\ t \in Seq(Message) /\ Len(t) <= Capacity
  BY <1>1, <1>2, <1>3 DEF t
<1>9. /\ channel' \in [Host -> [Kind -> Seq(Message)]]
      /\ \A x \in Host, y \in Kind :
           channel'[x][y] = IF x = n /\ y = k THEN t ELSE channel[x][y]
  BY <1>1, <1>6, <1>8 DEF t
<1>10. Queued' /\ \A x \in Host, y \in Kind : Len(channel'[x][y]) <= Capacity
  BY <1>7, <1>8, <1>9 DEF IInv, TypeOK, Queued
<1> DEFINE s == IF Targets(m, n) = {} THEN Idle
                ELSE [msg |-> Addressed(m, n), left |-> Targets(m, n), waiting |-> FALSE]
<1>11. Targets(m, n) \subseteq Host /\ n \notin Targets(m, n)
  BY <1>1 DEF Targets
<1>12. /\ s \in {Idle} \cup [msg : Message, left : SUBSET Host, waiting : BOOLEAN]
       /\ ~s.waiting
       /\ s # Idle => PaidAhead(s.msg) /\ n \notin s.left
  <2>1. CASE Targets(m, n) = {}
    BY <2>1 DEF Idle
  <2>2. CASE Targets(m, n) # {}
    BY <1>1, <1>3, <1>4, <1>11, <2>2, AddressedPays
  <2> QED BY <2>1, <2>2
<1>13. sending' = [sending EXCEPT ![n] = s]
  BY <1>6
<1> HIDE DEF s
<1>14. /\ sending' \in [Host -> {Idle} \cup [msg : Message, left : SUBSET Host, waiting : BOOLEAN]]
       /\ Sending'
  BY <1>1, <1>12, <1>13 DEF IInv, Sending
<1>15. Handling' /\ AwaitedOnce'
  <2>1. \A x \in Host : sending'[x].waiting <=> sending[x].waiting
    BY <1>1, <1>6, <1>12, <1>13 DEF Idle
  <2>2. \A x \in Host : AwaitedBy(x)' = AwaitedBy(x)
    BY <1>6 DEF AwaitedBy
  <2> QED BY <1>6, <2>1, <2>2 DEF IInv, Handling, AwaitedOnce
<1> QED BY <1>6, <1>9, <1>10, <1>14, <1>15 DEF IInv, TypeOK

\* A call to a host that is left: its handler is the one the loop waits for.
LEMMA SendKeeps ==
  ASSUME IInv, NEW n \in Host, NEW t \in Host, Send(n, t), UNCHANGED network
  PROVE  IInv'
<1> DEFINE h == [at |-> t, from |-> n, msg |-> sending[n].msg, awaited |-> TRUE,
                 stage |-> "receive"]
<1>1. /\ sending[n] \in [msg : Message, left : SUBSET Host, waiting : BOOLEAN]
      /\ sending[n] # Idle /\ ~sending[n].waiting /\ t \in sending[n].left
      /\ PaidAhead(sending[n].msg) /\ n \notin sending[n].left
      /\ sending \in [Host -> {Idle} \cup [msg : Message, left : SUBSET Host, waiting : BOOLEAN]]
      /\ IsABag(handlers) /\ BagToSet(handlers) \subseteq Handler
  BY WaitingSends DEF Send, IInv, TypeOK, Sending
<1>2. /\ h \in Handler /\ h.from = n /\ h.at = t /\ h.msg = sending[n].msg /\ h.awaited
      /\ h.from # h.at
  BY <1>1 DEF Handler
<1>3. Start(h) /\ UNCHANGED <<channel, known, pooled, locked, fetches, unborn>>
  BY DEF Send, pools
<1>4. sending' = [sending EXCEPT ![n] = [msg |-> sending[n].msg, left |-> sending[n].left \ {t},
                                        waiting |-> TRUE]]
  BY <1>1 DEF Send
<1> DEFINE s == [msg |-> sending[n].msg, left |-> sending[n].left \ {t}, waiting |-> TRUE]
<1>5. /\ s \in [msg : Message, left : SUBSET Host, waiting : BOOLEAN] /\ s.waiting
      /\ PaidAhead(s.msg) /\ n \notin s.left
  BY <1>1
<1>6. sending' = [sending EXCEPT ![n] = s]
  BY <1>4
<1> HIDE DEF h, s
<1>7. /\ IsABag(handlers')
      /\ BagToSet(handlers') = BagToSet(handlers) \cup {h}
      /\ \A g \in BagToSet(handlers) : g # h => handlers'[g] = handlers[g]
      /\ h \notin BagToSet(handlers) => handlers'[h] = 1
  <2> DEFINE C == With(handlers, h)
  <2>1. /\ IsABag(C) /\ BagToSet(C) = BagToSet(handlers) \cup {h}
        /\ \A g \in BagToSet(handlers) : g # h => C[g] = handlers[g]
        /\ h \notin BagToSet(handlers) => C[h] = 1
    BY <1>1, BagAdd
  <2>2. handlers' = C
    BY <1>3 DEF Start, With
  <2> HIDE DEF C
  <2> QED BY <2>1, <2>2
<1>8. /\ sending' \in [Host -> {Idle} \cup [msg : Message, left : SUBSET Host, waiting : BOOLEAN]]
      /\ Sending'
  BY <1>1, <1>5, <1>6 DEF IInv, Sending
<1>9. Handling'
  BY <1>1, <1>2, <1>7 DEF IInv, Handling
<1>10. AwaitedOnce'
  <2>1. AwaitedBy(n) = {}
    BY <1>1 DEF IInv, AwaitedOnce
  <2>2. h \notin BagToSet(handlers) /\ AwaitedBy(n)' = {h}
    BY <1>2, <1>7, <2>1 DEF AwaitedBy
  <2>3. \A x \in Host \ {n} : AwaitedBy(x)' = AwaitedBy(x)
    BY <1>2, <1>7 DEF AwaitedBy
  <2>4. \A x \in Host \ {n} : \A g \in AwaitedBy(x) : handlers'[g] = handlers[g]
    BY <1>2, <1>7 DEF AwaitedBy
  <2> QED BY <1>1, <1>5, <1>6, <1>7, <2>2, <2>3, <2>4 DEF IInv, AwaitedOnce
<1> QED BY <1>1, <1>2, <1>3, <1>7, <1>8, <1>9, <1>10 DEF IInv, TypeOK, Queued

\* A call that reaches nobody.
LEMMA LoseKeeps ==
  ASSUME IInv, NEW n \in Host, NEW t \in Host, Lose(n, t), UNCHANGED network
  PROVE  IInv'
<1> DEFINE r == [sending[n] EXCEPT !.left = sending[n].left \ {t}]
           s == AfterCall(r)
<1>1. /\ sending[n] \in [msg : Message, left : SUBSET Host, waiting : BOOLEAN]
      /\ sending[n] # Idle /\ ~sending[n].waiting
      /\ PaidAhead(sending[n].msg) /\ n \notin sending[n].left
      /\ sending \in [Host -> {Idle} \cup [msg : Message, left : SUBSET Host, waiting : BOOLEAN]]
  BY WaitingSends DEF Lose, IInv, TypeOK, Sending
<1>2. /\ r \in [msg : Message, left : SUBSET Host, waiting : BOOLEAN]
      /\ r.msg = sending[n].msg /\ r.left = sending[n].left \ {t}
  BY <1>1
<1>3. /\ sending' = [sending EXCEPT ![n] = s]
      /\ UNCHANGED <<channel, handlers, known, pooled, locked, fetches, unborn>>
  BY DEF Lose, pools
<1> HIDE DEF r
<1>4. /\ s \in {Idle} \cup [msg : Message, left : SUBSET Host, waiting : BOOLEAN]
      /\ ~s.waiting
      /\ s # Idle => PaidAhead(s.msg) /\ n \notin s.left
  BY <1>1, <1>2, AfterCallType
<1> HIDE DEF s
<1>5. /\ sending' \in [Host -> {Idle} \cup [msg : Message, left : SUBSET Host, waiting : BOOLEAN]]
      /\ Sending'
  BY <1>1, <1>3, <1>4 DEF IInv, Sending
<1>6. Handling' /\ AwaitedOnce'
  <2>1. \A x \in Host : sending'[x].waiting <=> sending[x].waiting
    BY <1>1, <1>3, <1>4
  <2>2. \A x \in Host : AwaitedBy(x)' = AwaitedBy(x)
    BY <1>3 DEF AwaitedBy
  <2> QED BY <1>3, <2>1, <2>2 DEF IInv, Handling, AwaitedOnce
<1> QED BY <1>3, <1>5, <1>6 DEF IInv, TypeOK, Queued

\* A context that is done before its call: the handler goes on, and nobody waits
\* for it any more.
LEMMA TimeoutKeeps ==
  ASSUME IInv, NEW n \in Host, Timeout(n), UNCHANGED network
  PROVE  IInv'
<1>1. PICK h \in BagToSet(handlers) :
        /\ h.from = n /\ h.awaited
        /\ handlers' = (handlers (-) SetToBag({h}))
                       (+) SetToBag({[h EXCEPT !.awaited = FALSE]})
  BY DEF Timeout
<1> DEFINE B == handlers (-) SetToBag({h})
           g == [h EXCEPT !.awaited = FALSE]
<1>2. /\ sending[n].waiting
      /\ sending' = [sending EXCEPT ![n] = AfterCall(sending[n])]
      /\ UNCHANGED <<channel, known, pooled, locked, fetches, unborn>>
  BY DEF Timeout, pools
<1>3. /\ IsABag(handlers) /\ BagToSet(handlers) \subseteq Handler
      /\ sending \in [Host -> {Idle} \cup [msg : Message, left : SUBSET Host, waiting : BOOLEAN]]
  BY DEF IInv, TypeOK
<1>4. /\ g \in Handler /\ g.from = h.from /\ g.at = h.at /\ g.msg = h.msg
      /\ g.stage = h.stage /\ ~g.awaited
  BY <1>3 DEF Handler
<1>5. /\ IsABag(B) /\ BagToSet(B) \subseteq BagToSet(handlers)
      /\ \A x \in BagToSet(handlers) : x # h => x \in BagToSet(B) /\ B[x] = handlers[x]
      /\ handlers[h] = 1 => h \notin BagToSet(B)
  BY <1>3, BagRemove
<1>6. handlers' = B (+) SetToBag({g})
  BY <1>1
<1> HIDE DEF B, g
<1>7. /\ IsABag(handlers')
      /\ BagToSet(handlers') = BagToSet(B) \cup {g}
      /\ \A x \in BagToSet(B) : x # g => handlers'[x] = B[x]
  <2> DEFINE C == With(B, g)
  <2>1. IsABag(B)
    BY <1>5
  <2>2. /\ IsABag(C) /\ BagToSet(C) = BagToSet(B) \cup {g}
        /\ \A x \in BagToSet(B) : x # g => C[x] = B[x]
    BY <2>1, BagAdd
  <2>3. handlers' = C
    BY <1>6 DEF With
  <2> HIDE DEF C
  <2> QED BY <2>2, <2>3
<1>8. Handling'
  BY <1>4, <1>5, <1>7 DEF IInv, Handling
<1> DEFINE s == AfterCall(sending[n])
<1>9. /\ s \in {Idle} \cup [msg : Message, left : SUBSET Host, waiting : BOOLEAN]
      /\ ~s.waiting
      /\ s # Idle => /\ sending[n] # Idle /\ s.msg = sending[n].msg
                     /\ s.left = sending[n].left
  BY <1>3, AfterCallType
<1>10. sending' = [sending EXCEPT ![n] = s]
  BY <1>2
<1> HIDE DEF s
<1>11. /\ sending' \in [Host -> {Idle} \cup [msg : Message, left : SUBSET Host, waiting : BOOLEAN]]
       /\ Sending'
  BY <1>3, <1>9, <1>10 DEF IInv, Sending
<1>12. AwaitedOnce'
  <2>1. AwaitedBy(n) = {h} /\ handlers[h] = 1
    BY <1>1, <1>2 DEF IInv, AwaitedOnce, AwaitedBy
  <2>2. AwaitedBy(n)' = {}
    BY <1>4, <1>5, <1>7, <2>1 DEF AwaitedBy
  <2>3. \A x \in Host \ {n} : AwaitedBy(x)' = AwaitedBy(x)
    BY <1>1, <1>4, <1>5, <1>7 DEF AwaitedBy
  <2>4. \A x \in Host \ {n} : \A f \in AwaitedBy(x) : handlers'[f] = handlers[f]
    BY <1>1, <1>4, <1>5, <1>7 DEF AwaitedBy
  <2> QED BY <1>3, <1>9, <1>10, <2>2, <2>3, <2>4 DEF IInv, AwaitedOnce
<1> QED BY <1>2, <1>3, <1>4, <1>5, <1>7, <1>8, <1>11, <1>12 DEF IInv, TypeOK, Queued

\* Every step of every host keeps the invariant.
LEMMA NextIInv == IInv /\ [Next /\ UNCHANGED network]_<<vars, network>> => IInv'
<1> SUFFICES ASSUME IInv, [Next /\ UNCHANGED network]_<<vars, network>>
             PROVE  IInv'
  OBVIOUS
<1>1. ASSUME Next, UNCHANGED network PROVE IInv'
  <2>1. ASSUME NEW i \in Item, MineBlock(i) \/ EnterTransaction(i) PROVE IInv'
    BY <1>1, <2>1, OriginKeeps
  <2>2. ASSUME NEW n \in Host, HandlerStep(n) PROVE IInv'
    BY <1>1, <2>2, HandlerKeeps DEF HandlerStep
  <2>3. ASSUME NEW n \in Host, LoopStep(n) PROVE IInv'
    BY <1>1, <2>3, TakeKeeps, SendKeeps DEF LoopStep
  <2>4. ASSUME NEW n \in Host, Timeout(n) PROVE IInv'
    BY <1>1, <2>4, TimeoutKeeps
  <2>5. ASSUME NEW n \in Host, NEW t \in Host, Lose(n, t) PROVE IInv'
    BY <1>1, <2>5, LoseKeeps
  <2>6. ASSUME NEW h \in BagToSet(handlers), RefuseBlock(h) PROVE IInv'
    BY <1>1, <2>6, HandlerKeeps
  <2>7. ASSUME NEW n \in Host, Fetch(n) PROVE IInv'
    BY <1>1, <2>7, FetchKeeps
  <2> QED BY <1>1, <2>1, <2>2, <2>3, <2>4, <2>5, <2>6, <2>7 DEF Next
<1>2. CASE UNCHANGED <<vars, network>>
  BY <1>2
  DEF IInv, TypeOK, Queued, Sending, Handling, AwaitedOnce, AwaitedBy, vars, pools, Neighbors
<1> QED BY <1>1, <1>2

\* The inductive invariant holds of every behaviour.
THEOREM SpecIInv == Spec => []IInv
BY InitIInv, NextIInv, PTL DEF Spec

\* Every variable keeps its type; in particular no channel holds more than its
\* capacity, and no message that travels is above maxBroadcastLevel.
THEOREM TypeCorrect == Spec => []TypeOK
<1>1. IInv => TypeOK
  BY DEF IInv
<1> QED BY SpecIInv, <1>1, PTL

\* No message has made more hops than it has addresses, so none makes more than
\* there are hosts, whatever the network and maxBroadcastLevel are.
THEOREM HopsPaid == Spec => []HopsAddressed
<1>1. IInv => HopsAddressed
  <2> SUFFICES ASSUME IInv, NEW m \in InFlight PROVE m.level <= Cardinality(m.addresses)
    BY DEF HopsAddressed
  <2>1. CASE \E h \in BagToSet(handlers) : m = h.msg
    <3>1. PICK h \in BagToSet(handlers) : m = h.msg
      BY <2>1
    <3>2. h \in Handler /\ (m.level = 0 \/ PaidAhead(m))
      BY <3>1 DEF IInv, TypeOK, Handling
    <3>3. m.level \in 0 .. MaxLevel /\ m.addresses \subseteq Host
      BY <3>1, <3>2 DEF Handler, Message
    <3>4. Cardinality(m.addresses) \in Nat
      BY <3>3, AddressCount
    <3> QED BY <3>2, <3>3, <3>4, BroadcastAssumption DEF PaidAhead
  <2>2. CASE \E n \in Host, k \in Kind : \E j \in DOMAIN channel[n][k] : m = channel[n][k][j]
    BY <2>2 DEF IInv, Queued, Paid
  <2> QED BY <2>1, <2>2 DEF InFlight
<1> QED BY SpecIInv, <1>1, PTL

\* A loop that waits for a call waits for one handler that is still under way: no
\* answer is lost, none comes twice, and one that is late ends nobody else's wait.
THEOREM OneAnswer == Spec => []AwaitedOnce
<1>1. IInv => AwaitedOnce
  BY DEF IInv
<1> QED BY SpecIInv, <1>1, PTL
=============================================================================
