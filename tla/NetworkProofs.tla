--------------------------- MODULE NetworkProofs ---------------------------
(***************************************************************************)
(* Theorems about the two parts of the network client.                     *)
(*                                                                         *)
(* Neighbors, for any finite set of addresses and any goroutines: who uses *)
(* a client of the pool finds one there, whoever closes or replaces it,    *)
(* and the table keeps its bound.                                          *)
(*                                                                         *)
(* Sync, for all neighbours, blocks and windows and any number of rounds   *)
(* at a time: NothingLeftBehind speaks of the levels below a window; it is *)
(* kept because inside the window every block of the neighbour is still in *)
(* the hands of the round.                                                 *)
(***************************************************************************)
EXTENDS Neighbors, Sync, FiniteSetTheorems, TLAPS
----------------------------------------------------------------------------
(* The neighbours *)

\* A goroutine that is not idle has an address; one that is idle has no client, and
\* who uses the client in the pool finds one there.  The loop only renews clients, for
\* the address of the ping it waits for.
Calling ==
  /\ \A x \in Proc : IF stage[x] = "idle" THEN client[x] = "none"
                       ELSE address[x] \in Address
  /\ \A x \in Proc : client[x] = "pooled" => pool[address[x]] # "none"
  /\ stage[Loop] \in {"idle", "update", "redial", "failed"} /\ client[Loop] = "none"
  /\ loop \in {"wait", "late"} => awaited \in Pinger /\ stage[awaited] # "idle"

NInv == TypeOK /\ Calling /\ TableBounded

\* The host knows nobody.
LEMMA InitNInv == Init => NInv
<1> SUFFICES ASSUME Init PROVE NInv
  OBVIOUS
<1> USE NeighborsAssumption DEF Init
<1>1. TypeOK
  BY DEF TypeOK, Stages
<1>2. Calling
  BY DEF Calling, Proc
<1>3. Cardinality(table) = 0
  BY FS_EmptySet
<1>4. TableBounded
  BY <1>3, FS_EmptySet DEF TableBounded
<1> QED BY <1>1, <1>2, <1>4 DEF NInv

\* The steps of a call, which other goroutines' clients depend on.
LEMMA StepKeepsTypes ==
  ASSUME NInv, NEW x \in Proc, Step(x)
  PROVE  TypeOK' /\ Calling'
<1> USE NeighborsAssumption DEF NInv, TypeOK, Calling, To, Stages, Proc
<1>1. CASE Get(x)
  <2> USE <1>1 DEF Get
  <2>1. TypeOK'
    OBVIOUS
  <2>2. Calling'
    OBVIOUS
  <2> QED BY <2>1, <2>2
<1>2. CASE Dial(x)
  <2> USE <1>2 DEF Dial, Connect, AfterFailure
  <2>1. TypeOK'
    OBVIOUS
  <2>2. Calling'
    OBVIOUS
  <2> QED BY <2>1, <2>2
<1>3. CASE Call(x)
  <2> USE <1>3 DEF Call, AfterFailure
  <2>1. TypeOK'
    OBVIOUS
  <2>2. Calling'
    OBVIOUS
  <2> QED BY <2>1, <2>2
<1>4. CASE HungFails(x)
  <2> USE <1>4 DEF HungFails, AfterFailure
  <2>1. TypeOK'
    OBVIOUS
  <2>2. Calling'
    OBVIOUS
  <2> QED BY <2>1, <2>2
<1>5. CASE Close(x)
  <2> USE <1>5 DEF Close
  <2>1. TypeOK'
    OBVIOUS
  <2>2. Calling'
    OBVIOUS
  <2> QED BY <2>1, <2>2
<1>6. CASE Redial(x)
  <2> USE <1>6 DEF Redial, Connect
  <2>1. TypeOK'
    OBVIOUS
  <2>2. Calling'
    OBVIOUS
  <2> QED BY <2>1, <2>2
<1>7. CASE End(x)
  <2> USE <1>7 DEF End, Stop
  <2>1. TypeOK'
    OBVIOUS
  <2>2. Calling'
    OBVIOUS
  <2> QED BY <2>1, <2>2
<1> QED BY <1>1, <1>2, <1>3, <1>4, <1>5, <1>6, <1>7 DEF Step

\* Only the loop touches the table, and it counts only after an eviction.
LEMMA StepKeepsTable ==
  ASSUME NEW x \in Proc, Step(x)
  PROVE  UNCHANGED <<table, loop>>
BY DEF Step, Get, Dial, Call, HungFails, Close, Redial, End

\* The steps of the loop of SyncNeighbors.
LEMMA LoopKeeps ==
  ASSUME NInv, LoopStep
  PROVE  NInv'
<1> USE NeighborsAssumption DEF NInv, TypeOK, Calling, TableBounded, To, Stages, Proc, proc
<1>1. CASE Count
  BY <1>1 DEF Count
<1>2. CASE RefreshFails
  BY <1>2 DEF RefreshFails
<1>3. CASE Pinged
  BY <1>3 DEF Pinged
<1>4. CASE Timeout
  BY <1>4 DEF Timeout, Start
<1>5. CASE Enter
  BY <1>5 DEF Enter, Stop
<1>6. CASE Evict
  <2>1. \A kept \in kSubset(MaxNeighbors, table) :
          kept \subseteq Address /\ Cardinality(kept) = MaxNeighbors
    BY DEF kSubset
  <2> QED BY <1>6, <2>1 DEF Evict
<1>7. ASSUME NEW s \in SUBSET Address, Refresh(s) PROVE NInv'
  BY <1>7 DEF Refresh
<1>8. ASSUME NEW g \in Pinger, NEW a \in Address, Ping(g, a) PROVE NInv'
  BY <1>8 DEF Ping, Start
<1> QED BY <1>1, <1>2, <1>3, <1>4, <1>5, <1>6, <1>7, <1>8 DEF LoopStep

\* Every step of the loop, of a goroutine and of a host keeps the invariant.
LEMMA NextNInv == NInv /\ [Next]_vars => NInv'
<1> SUFFICES ASSUME NInv, [Next]_vars PROVE NInv'
  OBVIOUS
<1> USE NeighborsAssumption
<1>1. ASSUME NEW x \in Proc, Step(x) PROVE NInv'
  BY <1>1, StepKeepsTypes, StepKeepsTable DEF NInv, TableBounded
<1>2. ASSUME NEW x \in Proc, NEW a \in Address, Use(x, a) PROVE NInv'
  <2> USE <1>2 DEF Use, Start, To, NInv, User, Proc
  <2>1. TypeOK'
    BY DEF TypeOK, Stages, Calling
  <2>2. Calling'
    BY DEF TypeOK, Calling
  <2>3. TableBounded'
    BY DEF TableBounded
  <2> QED BY <2>1, <2>2, <2>3
<1>3. ASSUME NEW a \in Address, Crash(a) PROVE NInv'
  <2> USE <1>3 DEF Crash, NInv
  <2>1. TypeOK'
    BY DEF TypeOK, Stages, Calling
  <2>2. Calling'
    <3>1. \A x \in Proc : /\ client'[x] = "none" <=> client[x] = "none"
                          /\ client'[x] = "pooled" <=> client[x] = "pooled"
      OBVIOUS
    <3>2. \A d \in Address : pool'[d] = "none" <=> pool[d] = "none"
      BY DEF TypeOK
    <3>3. \A x \in Proc : client[x] = "pooled" => address[x] \in Address
      BY DEF Calling
    <3> QED BY <3>1, <3>2, <3>3 DEF Calling, Proc
  <2>3. TableBounded'
    BY DEF TableBounded
  <2> QED BY <2>1, <2>2, <2>3
<1>4. ASSUME NEW a \in Address, Restart(a) PROVE NInv'
  <2> USE <1>4 DEF Restart, proc, NInv
  <2>1. TypeOK'
    BY DEF TypeOK, Stages
  <2>2. Calling'
    BY DEF Calling
  <2>3. TableBounded'
    BY DEF TableBounded
  <2> QED BY <2>1, <2>2, <2>3
<1>5. CASE UNCHANGED vars
  <2> USE <1>5 DEF vars, proc, NInv
  <2>1. TypeOK'
    BY DEF TypeOK, Stages
  <2>2. Calling'
    BY DEF Calling
  <2>3. TableBounded'
    BY DEF TableBounded
  <2> QED BY <2>1, <2>2, <2>3
<1> QED BY <1>1, <1>2, <1>3, <1>4, <1>5, LoopKeeps DEF Next

\* Every variable keeps its type; in particular no goroutine makes a call without a
\* client, although others close it, replace it or forget it.
THEOREM NeighborTypes == Spec => []TypeOK
<1>1. NInv => TypeOK
  BY DEF NInv
<1> QED BY InitNInv, NextNInv, <1>1, PTL DEF Spec

\* After an eviction the table is within its bound, and nothing fills it before the
\* loop counts it.
THEOREM TableIsBounded == Spec => []TableBounded
<1>1. NInv => TableBounded
  BY DEF NInv
<1> QED BY InitNInv, NextNInv, <1>1, PTL DEF Spec
----------------------------------------------------------------------------
(* Catching up *)

\* A round outside of its loop has not begun a window, and one that adds has
\* done with the hashes.
Resting ==
  \A r \in Round : /\ pc[r] = "idle" => level0[r] = 0
                   /\ pc[r] = "add" => hashes[r] = {}

\* What is below the window of a round with a neighbour that answers.
Below ==
  \A r \in Round : \A b \in Stored[peer[r]] :
    peer[r] \notin Faulty /\ Level[b] < level0[r] => b \in known \cup Refused

\* What is in the window once the neighbour has answered: a block is stored,
\* refused, or among those the round still has to fetch or to add.
InWindow ==
  \A r \in Round : \A b \in Stored[peer[r]] :
    /\ pc[r] \in {"filter", "fetch", "add"}
    /\ peer[r] \notin Faulty
    /\ Level[b] \in level0[r] .. (level0[r] + Width - 1)
    => b \in known \cup Refused \cup hashes[r] \cup toAdd[r]

RInv == SyncTypeOK /\ Resting /\ Below /\ InWindow
----------------------------------------------------------------------------
\* No level is below the first window.
LEMMA InitRInv == SyncInit => RInv
<1> SUFFICES ASSUME SyncInit PROVE RInv
  OBVIOUS
<1> USE SyncAssumption DEF SyncInit
<1>1. SyncTypeOK
  BY DEF SyncTypeOK
<1>2. Resting /\ InWindow
  BY DEF Resting, InWindow
<1>3. Below
  BY DEF Below
<1> QED BY <1>1, <1>2, <1>3 DEF RInv

\* A round that ends forgets its window; the others are not touched.
LEMMA ReturnRInv ==
  ASSUME RInv, NEW r \in Round, Return(r), UNCHANGED known
  PROVE  RInv'
<1> USE SyncAssumption
<1>1. SyncTypeOK'
  BY DEF RInv, SyncTypeOK, Return
<1>2. Resting'
  BY DEF RInv, SyncTypeOK, Resting, Return
<1>3. Below'
  BY DEF RInv, SyncTypeOK, Below, Return
<1>4. InWindow'
  BY DEF RInv, SyncTypeOK, InWindow, Return
<1> QED BY <1>1, <1>2, <1>3, <1>4 DEF RInv

\* Every step of a round keeps the invariant of all rounds.
LEMMA NextRInv == RInv /\ [SyncNext]_syncVars => RInv'
<1> SUFFICES ASSUME RInv, [SyncNext]_syncVars PROVE RInv'
  OBVIOUS
<1> USE SyncAssumption
<1>1. ASSUME NEW r \in Round, NEW p \in Peer, SyncBlocks(r, p) PROVE RInv'
  <2> USE <1>1 DEF RInv, SyncBlocks
  <2>1. SyncTypeOK'
    BY DEF SyncTypeOK
  <2>2. Resting'
    BY DEF SyncTypeOK, Resting
  <2>3. Below'
    BY DEF SyncTypeOK, Below, Resting
  <2>4. InWindow'
    BY DEF SyncTypeOK, InWindow
  <2> QED BY <2>1, <2>2, <2>3, <2>4
<1>2. ASSUME NEW r \in Round, QueryLevel(r) PROVE RInv'
  <2> DEFINE answer == GetBlocksLevelHash(peer[r], level0[r])
  <2>1. CASE answer = {}
    BY <1>2, <2>1, ReturnRInv DEF QueryLevel
  <2>2. CASE answer # {}
    <3>1. /\ pc[r] = "query"
          /\ hashes' = [hashes EXCEPT ![r] = answer]
          /\ pc' = [pc EXCEPT ![r] = "filter"]
          /\ UNCHANGED <<known, peer, level0, toAdd>>
      BY <1>2, <2>2 DEF QueryLevel
    <3>2. answer \subseteq Block
      BY DEF RInv, SyncTypeOK, GetBlocksLevelHash
    <3>3. \A b \in Stored[peer[r]] :
            Level[b] \in level0[r] .. (level0[r] + Width - 1) => b \in answer
      BY <2>2 DEF GetBlocksLevelHash
    <3> HIDE DEF answer
    <3>4. SyncTypeOK'
      BY <3>1, <3>2 DEF RInv, SyncTypeOK
    <3>5. Resting' /\ Below'
      BY <3>1 DEF RInv, SyncTypeOK, Resting, Below
    <3>6. InWindow'
      BY <3>1, <3>3 DEF RInv, SyncTypeOK, InWindow
    <3> QED BY <3>4, <3>5, <3>6 DEF RInv
  <2> QED BY <2>1, <2>2
<1>3. ASSUME NEW r \in Round, FilterNewHashes(r) PROVE RInv'
  <2> USE <1>3 DEF RInv, FilterNewHashes
  <2>1. SyncTypeOK'
    BY DEF SyncTypeOK
  <2>2. Resting' /\ Below'
    BY DEF SyncTypeOK, Resting, Below
  <2>3. InWindow'
    BY DEF SyncTypeOK, InWindow
  <2> QED BY <2>1, <2>2, <2>3
<1>4. ASSUME NEW r \in Round, QueryHashes(r) PROVE RInv'
  <2>1. PICK newBlocks \in SUBSET hashes[r] :
          /\ peer[r] \notin Faulty => newBlocks = hashes[r]
          /\ IF newBlocks = {}
             THEN Return(r)
             ELSE /\ toAdd' = [toAdd EXCEPT ![r] = newBlocks]
                  /\ hashes' = [hashes EXCEPT ![r] = {}]
                  /\ pc' = [pc EXCEPT ![r] = "add"]
                  /\ UNCHANGED <<peer, level0>>
    BY <1>4 DEF QueryHashes
  <2>2. pc[r] = "fetch" /\ UNCHANGED known
    BY <1>4 DEF QueryHashes
  <2>3. CASE newBlocks = {}
    BY <2>1, <2>2, <2>3, ReturnRInv
  <2>4. CASE newBlocks # {}
    <3>1. SyncTypeOK'
      BY <2>1, <2>2, <2>4 DEF RInv, SyncTypeOK
    <3>2. Resting' /\ Below'
      BY <2>1, <2>2, <2>4 DEF RInv, SyncTypeOK, Resting, Below
    <3>3. InWindow'
      BY <2>1, <2>2, <2>4 DEF RInv, SyncTypeOK, InWindow
    <3> QED BY <3>1, <3>2, <3>3 DEF RInv
  <2> QED BY <2>3, <2>4
<1>5. ASSUME NEW r \in Round, AddBlock(r) PROVE RInv'
  <2>1. PICK b \in toAdd[r] : /\ known' = known \cup ({b} \ Refused)
                             /\ toAdd' = [toAdd EXCEPT ![r] = @ \ {b}]
    BY <1>5 DEF AddBlock
  <2>2. pc[r] = "add" /\ UNCHANGED <<pc, peer, level0, hashes>>
    BY <1>5 DEF AddBlock
  <2>3. SyncTypeOK'
    BY <2>1, <2>2 DEF RInv, SyncTypeOK
  <2>4. Resting' /\ Below'
    BY <2>1, <2>2 DEF RInv, SyncTypeOK, Resting, Below
  <2>5. InWindow'
    BY <2>1, <2>2 DEF RInv, SyncTypeOK, InWindow
  <2> QED BY <2>3, <2>4, <2>5 DEF RInv
<1>6. ASSUME NEW r \in Round, NextWindow(r) PROVE RInv'
  <2> USE <1>6 DEF RInv, NextWindow, NextLevel
  <2>1. SyncTypeOK'
    BY DEF SyncTypeOK
  <2>2. Resting'
    BY DEF SyncTypeOK, Resting
  \* What was in the window is below the next one: nothing is left in the hands
  \* of the round.
  <2>3. Below'
    <3>1. \A b \in Stored[peer[r]] :
            peer[r] \notin Faulty /\ Level[b] < level0[r] + Width
              => b \in known \cup Refused
      BY DEF SyncTypeOK, Resting, Below, InWindow
    <3> QED BY <3>1 DEF SyncTypeOK, Below
  <2>4. InWindow'
    BY DEF SyncTypeOK, InWindow
  <2> QED BY <2>1, <2>2, <2>3, <2>4
<1>7. ASSUME NEW r \in Round, Fail(r) PROVE RInv'
  BY <1>7, ReturnRInv DEF Fail
<1>8. CASE UNCHANGED syncVars
  BY <1>8 DEF RInv, SyncTypeOK, Resting, Below, InWindow, syncVars
<1> QED BY <1>1, <1>2, <1>3, <1>4, <1>5, <1>6, <1>7, <1>8 DEF SyncNext, RoundStep

\* The inductive invariant holds of every behaviour.
THEOREM SpecRInv == SyncSpec => []RInv
BY InitRInv, NextRInv, PTL DEF SyncSpec

\* Every variable of the rounds keeps its type.
THEOREM RoundTypes == SyncSpec => []SyncTypeOK
<1>1. RInv => SyncTypeOK
  BY DEF RInv
<1> QED BY SpecRInv, <1>1, PTL

\* A round of SyncBlocks with a neighbour that answers leaves nothing behind below
\* its window, whatever the rounds beside it add, refuse or fail to fetch.
THEOREM LeftBehind == SyncSpec => []NothingLeftBehind
<1>1. RInv => NothingLeftBehind
  BY DEF RInv, Below, NothingLeftBehind
<1> QED BY SpecRInv, <1>1, PTL
=============================================================================
