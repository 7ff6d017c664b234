----------------------- MODULE TransactionPoolProofs -----------------------
(***************************************************************************)
(* Theorems about TransactionPool, for any number of pushers, any capacity *)
(* and any length of the heap.  HashPooled is kept because the two places  *)
(* where the map and the heap change - Push and PopUnsafe - change both,   *)
(* and NothingLost because a transaction that leaves one of the sequences  *)
(* enters another or is given up in the same step.                         *)
(***************************************************************************)
EXTENDS TransactionPool, SequenceTheorems, TLAPS

\* The lock is held by the goroutine that is between Lock and Unlock.
Locking ==
  /\ lock = Miner <=> fetching = "pop"
  /\ \A p \in Pusher : lock = p <=> pc[p] = "announce"

\* A goroutine inside of Push has a transaction; one that announces it has put it
\* into the pool.
Pushing ==
  \A p \in Pusher : /\ pc[p] # "idle" => pushing[p] \in Tx
                    /\ pc[p] = "announce" => pushing[p] \in accepted

\* The map never has a hash whose transaction is not in the heap, also while the
\* lock is held.
HashInHeap == hash \subseteq ToSet(heap)

\* Only what the pool has taken is announced.
AnnouncedTaken == ToSet(channel) \subseteq accepted

IInv == TypeOK /\ Locking /\ Pushing /\ HashInHeap /\ NothingLost /\ AnnouncedTaken
----------------------------------------------------------------------------
\* What a sequence has after Append.
LEMMA ToSetAppend ==
  ASSUME NEW S, NEW s \in Seq(S), NEW e \in S
  PROVE  ToSet(Append(s, e)) = ToSet(s) \cup {e}
<1> DEFINE t == Append(s, e)
<1>1. /\ t \in Seq(S) /\ Len(t) = Len(s) + 1 /\ t[Len(s) + 1] = e
      /\ \A i \in 1 .. Len(s) : t[i] = s[i]
  BY AppendProperties
<1>2. DOMAIN s = 1 .. Len(s) /\ DOMAIN t = 1 .. Len(t) /\ Len(s) \in Nat
  BY <1>1, LenProperties
<1> HIDE DEF t
<1>3. \A i \in 1 .. Len(t) : i \in 1 .. Len(s) \/ i = Len(s) + 1
  BY <1>1, <1>2
<1>4. ASSUME NEW x \in ToSet(t) PROVE x \in ToSet(s) \cup {e}
  BY <1>1, <1>2, <1>3, <1>4 DEF ToSet
<1>5. ASSUME NEW x \in ToSet(s) \cup {e} PROVE x \in ToSet(t)
  <2>1. CASE x = e
    BY <1>1, <1>2, <2>1 DEF ToSet
  <2>2. CASE x \in ToSet(s)
    <3>1. PICK i \in 1 .. Len(s) : x = s[i]
      BY <1>2, <2>2 DEF ToSet
    <3>2. i \in DOMAIN t /\ t[i] = x
      BY <1>1, <1>2, <3>1
    <3> QED BY <3>2 DEF ToSet
  <2> QED BY <1>5, <2>1, <2>2
<1>6. ToSet(t) = ToSet(s) \cup {e}
  BY <1>4, <1>5
<1> QED BY <1>6 DEF t

\* What two sequences have one after the other.
LEMMA ToSetConcat ==
  ASSUME NEW S, NEW s \in Seq(S), NEW t \in Seq(S)
  PROVE  ToSet(s \o t) = ToSet(s) \cup ToSet(t)
<1>1. \A u : ToSet(u) = Range(u)
  BY DEF ToSet, Range
<1> QED BY <1>1, RangeConcatenation

\* The members of a sequence.
LEMMA ToSetType ==
  ASSUME NEW S, NEW s \in Seq(S)
  PROVE  ToSet(s) \subseteq S
BY LenProperties, ElementOfSeq DEF ToSet

\* What a heap has without its last element.
LEMMA FrontAndLast ==
  ASSUME NEW S, NEW s \in Seq(S), s # <<>>
  PROVE  /\ Front(s) \in Seq(S)
         /\ Last(s) \in S
         /\ ToSet(s) = ToSet(Front(s)) \cup {Last(s)}
<1> DEFINE f == Front(s)
<1>1. Len(s) \in Nat \ {0} /\ DOMAIN s = 1 .. Len(s)
  BY EmptySeq, LenProperties
<1>2. /\ f \in Seq(S) /\ Len(f) = Len(s) - 1
      /\ \A i \in 1 .. Len(s) - 1 : f[i] = s[i]
  BY <1>1 DEF Front
<1>3. Last(s) \in S
  BY <1>1, ElementOfSeq DEF Last
<1>4. f \in Seq(S) /\ DOMAIN f = 1 .. Len(s) - 1
  BY <1>2, LenProperties
<1> HIDE DEF f
<1>5. ASSUME NEW x \in ToSet(s) PROVE x \in ToSet(f) \cup {Last(s)}
  <2>1. PICK i \in 1 .. Len(s) : x = s[i]
    BY <1>1, <1>5 DEF ToSet
  <2>2. CASE i = Len(s)
    BY <2>1, <2>2 DEF Last
  <2>3. CASE i \in 1 .. Len(s) - 1
    <3>1. i \in DOMAIN f /\ f[i] = x
      BY <1>2, <1>4, <2>1, <2>3
    <3> QED BY <3>1 DEF ToSet
  <2>4. i = Len(s) \/ i \in 1 .. Len(s) - 1
    <3> DEFINE n == Len(s)
    <3>1. n \in Nat /\ i \in 1 .. n
      BY <1>1
    <3> HIDE DEF n
    <3>2. i = n \/ i \in 1 .. n - 1
      BY <3>1
    <3> QED BY <3>2 DEF n
  <2> QED BY <2>2, <2>3, <2>4
<1>6. ASSUME NEW x \in ToSet(f) \cup {Last(s)} PROVE x \in ToSet(s)
  <2>1. CASE x = Last(s)
    BY <1>1, <2>1 DEF ToSet, Last
  <2>2. CASE x \in ToSet(f)
    <3>1. PICK i \in 1 .. Len(s) - 1 : x = f[i]
      BY <1>4, <2>2 DEF ToSet
    <3>2. i \in DOMAIN s /\ x = s[i]
      BY <1>1, <1>2, <3>1
    <3> QED BY <3>2 DEF ToSet
  <2> QED BY <1>6, <2>1, <2>2
<1>7. ToSet(s) = ToSet(f) \cup {Last(s)}
  BY <1>5, <1>6
<1> QED BY <1>3, <1>4, <1>7 DEF f

\* What a channel has without its first element.
LEMMA TailInSet ==
  ASSUME NEW S, NEW s \in Seq(S), s # <<>>
  PROVE  /\ Tail(s) \in Seq(S)
         /\ Len(Tail(s)) = Len(s) - 1
         /\ ToSet(Tail(s)) \subseteq ToSet(s)
<1> DEFINE t == Tail(s)
<1>1. Len(s) \in Nat \ {0} /\ DOMAIN s = 1 .. Len(s)
  BY EmptySeq, LenProperties
<1>2. /\ t \in Seq(S) /\ Len(t) = Len(s) - 1
      /\ \A i \in 1 .. Len(t) : t[i] = s[i + 1]
  BY HeadTailProperties
<1>3. DOMAIN t = 1 .. Len(t)
  BY <1>2, LenProperties
<1> HIDE DEF t
<1>4. ASSUME NEW x \in ToSet(t) PROVE x \in ToSet(s)
  <2>1. PICK i \in 1 .. Len(t) : x = t[i]
    BY <1>3, <1>4 DEF ToSet
  <2>2. i + 1 \in DOMAIN s /\ x = s[i + 1]
    BY <1>1, <1>2, <2>1
  <2> QED BY <2>2 DEF ToSet
<1> QED BY <1>2, <1>4 DEF t

\* An empty pool has nothing to lose.
LEMMA InitIInv == Init => IInv
<1> SUFFICES ASSUME Init PROVE IInv
  OBVIOUS
<1> USE PoolAssumption DEF Init
<1>1. <<>> \in Seq(Tx) /\ Len(<<>>) = 0
  BY EmptySeq
<1>2. TypeOK
  BY <1>1 DEF TypeOK
<1>3. Locking /\ Pushing
  BY DEF Locking, Pushing
<1>4. HashInHeap /\ NothingLost /\ AnnouncedTaken
  BY <1>1 DEF HashInHeap, NothingLost, AnnouncedTaken, ToSet
<1> QED BY <1>2, <1>3, <1>4 DEF IInv

\* A push enters the transaction into the heap and the map together.
LEMMA PushLockedIInv ==
  ASSUME IInv, NEW p \in Pusher, PushLocked(p)
  PROVE  IInv'
<1> USE PoolAssumption
<1>1. /\ pc[p] = "lock" /\ lock = Nobody
      /\ UNCHANGED <<channel, fetching, result, back>>
      /\ pushing[p] \in Tx
  BY DEF PushLocked, IInv, Pushing
<1>2. CASE pushing[p] \in hash
  <2>1. Return(p) /\ UNCHANGED <<heap, hash, lock, history>>
    BY <1>2 DEF PushLocked
  <2> USE <1>1, <2>1 DEF IInv, Return, history
  <2>2. TypeOK'
    BY DEF TypeOK
  <2>3. Locking' /\ Pushing'
    BY DEF TypeOK, Locking, Pushing
  <2>4. HashInHeap' /\ NothingLost' /\ AnnouncedTaken'
    BY DEF HashInHeap, NothingLost, AnnouncedTaken
  <2> QED BY <2>2, <2>3, <2>4
<1>3. CASE pushing[p] \notin hash
  <2>1. /\ heap' = Append(heap, pushing[p])
        /\ hash' = hash \cup {pushing[p]}
        /\ accepted' = accepted \cup {pushing[p]}
        /\ gone' = gone \ {pushing[p]}
        /\ lock' = p
        /\ pc' = [pc EXCEPT ![p] = "announce"]
        /\ UNCHANGED pushing
    BY <1>3 DEF PushLocked
  <2>2. heap' \in Seq(Tx) /\ ToSet(heap') = ToSet(heap) \cup {pushing[p]}
    BY <1>1, <2>1, AppendProperties, ToSetAppend DEF IInv, TypeOK
  <2>3. TypeOK'
    BY <1>1, <2>1, <2>2 DEF IInv, TypeOK
  <2>4. Locking' /\ Pushing'
    BY <1>1, <2>1 DEF IInv, TypeOK, Locking, Pushing
  <2>5. HashInHeap' /\ NothingLost' /\ AnnouncedTaken'
    BY <1>1, <2>1, <2>2 DEF IInv, HashInHeap, NothingLost, AnnouncedTaken
  <2> QED BY <2>3, <2>4, <2>5 DEF IInv
<1> QED BY <1>2, <1>3

\* PopUnsafe takes the last element of the heap and one hash out of the map: a
\* hash that stays belongs to what stays of the heap.
LEMMA FetchPopIInv ==
  ASSUME IInv, FetchPop
  PROVE  IInv'
<1> USE PoolAssumption
<1> DEFINE tx == Last(heap)
<1>1. /\ Front(heap) \in Seq(Tx)
      /\ tx \in Tx
      /\ ToSet(heap) = ToSet(Front(heap)) \cup {tx}
  BY FrontAndLast DEF FetchPop, IInv, TypeOK
<1>2. /\ heap' = Front(heap)
      /\ hash' = hash \ {tx}
      /\ \/ gone' = gone \cup {tx} /\ UNCHANGED <<result, back>>
         \/ back' = Append(back, tx) /\ UNCHANGED <<result, gone>>
         \/ result' = Append(result, tx) /\ UNCHANGED <<back, gone>>
      /\ UNCHANGED <<lock, channel, pc, pushing, fetching, accepted>>
      /\ Len(result) < BlockCapacity
  BY DEF FetchPop, RoomInBlock
<1> HIDE DEF tx
<1>3. /\ ToSet(Append(back, tx)) = ToSet(back) \cup {tx}
      /\ ToSet(Append(result, tx)) = ToSet(result) \cup {tx}
  BY <1>1, ToSetAppend DEF IInv, TypeOK
<1>4. /\ Append(back, tx) \in Seq(Tx)
      /\ Append(result, tx) \in Seq(Tx)
      /\ Len(Append(result, tx)) = Len(result) + 1
      /\ Len(result) \in Nat
  BY <1>1, AppendProperties, LenProperties DEF IInv, TypeOK
<1>5. result' \in Seq(Tx) /\ Len(result') <= BlockCapacity
  <2>1. CASE result' = Append(result, tx)
    <3>1. \A m, n \in Nat : m < n => m + 1 <= n
      OBVIOUS
    <3> QED BY <1>2, <1>4, <2>1, <3>1
  <2>2. CASE result' = result
    BY <2>2 DEF IInv, TypeOK
  <2> QED BY <1>2, <2>1, <2>2
<1>6. TypeOK'
  BY <1>1, <1>2, <1>4, <1>5 DEF IInv, TypeOK
<1>7. Locking' /\ Pushing' /\ AnnouncedTaken'
  BY <1>2 DEF IInv, Locking, Pushing, AnnouncedTaken
<1>8. HashInHeap'
  BY <1>1, <1>2 DEF IInv, HashInHeap
<1>9. NothingLost'
  BY <1>1, <1>2, <1>3 DEF IInv, NothingLost
<1> QED BY <1>6, <1>7, <1>8, <1>9 DEF IInv

\* Every step of the pool, its pushers and its watcher keeps the invariant.
LEMMA NextIInv == IInv /\ [Next]_vars => IInv'
<1> SUFFICES ASSUME IInv, [Next]_vars PROVE IInv'
  OBVIOUS
<1> USE PoolAssumption
<1>1. ASSUME NEW p \in Pusher, NEW t \in Tx, Push(p, t) PROVE IInv'
  <2> USE <1>1 DEF IInv, Push, history
  <2>1. TypeOK'
    BY DEF TypeOK
  <2>2. Locking' /\ Pushing'
    BY DEF TypeOK, Locking, Pushing
  <2>3. HashInHeap' /\ NothingLost' /\ AnnouncedTaken'
    BY DEF HashInHeap, NothingLost, AnnouncedTaken
  <2> QED BY <2>1, <2>2, <2>3
<1>2. ASSUME NEW p \in Pusher, PushLocked(p) PROVE IInv'
  BY <1>2, PushLockedIInv
<1>3. ASSUME NEW p \in Pusher, Announce(p) PROVE IInv'
  <2>1. /\ channel' = Append(channel, pushing[p])
        /\ Len(channel) < Capacity
        /\ pc[p] = "announce" /\ lock' = Nobody /\ Return(p)
        /\ UNCHANGED <<heap, hash, fetching, result, back, accepted, gone>>
    BY <1>3 DEF Announce, history
  <2>2. pushing[p] \in Tx /\ pushing[p] \in accepted
    BY <2>1 DEF IInv, Pushing
  <2>3. /\ channel' \in Seq(Tx) /\ Len(channel') <= Capacity
        /\ ToSet(channel') = ToSet(channel) \cup {pushing[p]}
    BY <2>1, <2>2, AppendProperties, ToSetAppend, LenProperties DEF IInv, TypeOK
  <2>4. TypeOK'
    BY <2>1, <2>3 DEF IInv, TypeOK, Return
  <2>5. Locking' /\ Pushing'
    BY <2>1, <2>2 DEF IInv, TypeOK, Locking, Pushing, Return
  <2>6. HashInHeap' /\ NothingLost' /\ AnnouncedTaken'
    BY <2>1, <2>2, <2>3 DEF IInv, HashInHeap, NothingLost, AnnouncedTaken
  <2> QED BY <2>4, <2>5, <2>6 DEF IInv
<1>4. CASE Take
  <2>1. /\ channel' = Tail(channel) /\ channel # <<>>
        /\ UNCHANGED <<heap, hash, lock, pc, pushing, fetching, result, back,
                       accepted, gone>>
    BY <1>4 DEF Take, history
  <2>2. /\ channel' \in Seq(Tx) /\ Len(channel') <= Capacity
        /\ ToSet(channel') \subseteq ToSet(channel)
    BY <2>1, TailInSet, LenProperties DEF IInv, TypeOK
  <2>3. TypeOK'
    BY <2>1, <2>2 DEF IInv, TypeOK
  <2>4. Locking' /\ Pushing'
    BY <2>1 DEF IInv, Locking, Pushing
  <2>5. HashInHeap' /\ NothingLost' /\ AnnouncedTaken'
    BY <2>1, <2>2 DEF IInv, HashInHeap, NothingLost, AnnouncedTaken
  <2> QED BY <2>3, <2>4, <2>5 DEF IInv
<1>5. CASE FetchLock
  <2> USE <1>5 DEF IInv, FetchLock, history
  <2>1. TypeOK'
    BY DEF TypeOK
  <2>2. Locking' /\ Pushing'
    BY DEF TypeOK, Locking, Pushing
  <2>3. HashInHeap' /\ NothingLost' /\ AnnouncedTaken'
    BY DEF HashInHeap, NothingLost, AnnouncedTaken
  <2> QED BY <2>1, <2>2, <2>3
<1>6. CASE FetchPop
  BY <1>6, FetchPopIInv
<1>7. CASE FetchReturn
  <2>1. /\ heap' = heap \o back /\ back' = <<>>
        /\ lock' = Nobody /\ fetching' = "mine" /\ fetching = "pop"
        /\ UNCHANGED <<hash, channel, pc, pushing, result, accepted, gone>>
    BY <1>7 DEF FetchReturn, history
  <2>2. /\ heap' \in Seq(Tx) /\ back' \in Seq(Tx)
        /\ ToSet(heap') = ToSet(heap) \cup ToSet(back)
    BY <2>1, ToSetConcat, ConcatProperties, EmptySeq DEF IInv, TypeOK
  <2>3. TypeOK'
    BY <2>1, <2>2 DEF IInv, TypeOK
  <2>4. Locking' /\ Pushing'
    BY <2>1 DEF IInv, TypeOK, Locking, Pushing
  <2>5. HashInHeap' /\ NothingLost' /\ AnnouncedTaken'
    BY <2>1, <2>2 DEF IInv, HashInHeap, NothingLost, AnnouncedTaken
  <2> QED BY <2>3, <2>4, <2>5 DEF IInv
<1>8. CASE EndJob
  <2>1. /\ gone' = gone \cup ToSet(result) /\ result' = <<>>
        /\ fetching = "mine" /\ fetching' = "idle"
        /\ UNCHANGED <<heap, hash, lock, channel, pc, pushing, back, accepted>>
    BY <1>8 DEF EndJob
  <2>2. /\ ToSet(result) \subseteq Tx
        /\ result' \in Seq(Tx) /\ Len(result') = 0
    BY <2>1, ToSetType, EmptySeq DEF IInv, TypeOK
  <2>3. TypeOK'
    BY <2>1, <2>2 DEF IInv, TypeOK
  <2>4. Locking' /\ Pushing'
    BY <2>1 DEF IInv, Locking, Pushing
  <2>5. HashInHeap' /\ NothingLost' /\ AnnouncedTaken'
    BY <2>1 DEF IInv, HashInHeap, NothingLost, AnnouncedTaken
  <2> QED BY <2>3, <2>4, <2>5 DEF IInv
<1>9. CASE UNCHANGED vars
  BY <1>9 DEF IInv, TypeOK, Locking, Pushing, HashInHeap, NothingLost,
              AnnouncedTaken, vars, history
<1> QED
  BY <1>1, <1>2, <1>3, <1>4, <1>5, <1>6, <1>7, <1>8, <1>9
  DEF Next, PushStep, FetchStep

\* The inductive invariant holds of every behaviour.
THEOREM SpecIInv == Spec => []IInv
BY InitIInv, NextIInv, PTL DEF Spec

\* Every variable of the pool keeps its type, and neither the channel nor the
\* template grows beyond its capacity.
THEOREM TypeCorrect == Spec => []TypeOK
<1>1. IInv => TypeOK
  BY DEF IInv
<1> QED BY SpecIInv, <1>1, PTL

\* Push refuses no transaction as pooled that Fetch will never see.
THEOREM PooledInHeap == Spec => []HashPooled
<1>1. IInv => HashPooled
  BY DEF IInv, HashInHeap, HashPooled
<1> QED BY SpecIInv, <1>1, PTL

\* A transaction the pool took stays in the heap or on its way through Fetch until
\* it is given up, wherever pushes and fetches are interrupted.
THEOREM NoneLost == Spec => []NothingLost
<1>1. IInv => NothingLost
  BY DEF IInv
<1> QED BY SpecIInv, <1>1, PTL

\* The broadcast queue gets only transactions the pool took: Push announces after
\* it has entered the transaction, under the same lock.
THEOREM TakenBeforeAnnounced == Spec => []AnnouncedTaken
<1>1. IInv => AnnouncedTaken
  BY DEF IInv
<1> QED BY SpecIInv, <1>1, PTL
=============================================================================
