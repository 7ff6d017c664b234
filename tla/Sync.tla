-------------------------------- MODULE Sync --------------------------------
(***************************************************************************)
(* How a host catches up (NetworkClient.SyncBlocks).  Every period it      *)
(* starts one round for each of some neighbours.  A round asks its         *)
(* neighbour for the hashes of a window of levels, fetches the blocks that *)
(* are new, adds them one by one and goes on with the next window; it ends *)
(* at a window that is empty or brings nothing new.  Rounds are goroutines *)
(* that share the storage; nothing keeps a round from starting while those *)
(* before it are under way.                                                *)
(*                                                                         *)
(* Abstractions.  What a neighbour has stored does not change here.  A     *)
(* block is its hash; what its adding does to the storage is in module     *)
(* Storage.                                                                *)
(***************************************************************************)
EXTENDS Integers

CONSTANTS Block,
          Level,    \* HippoBlock.Level
          Peer,     \* the neighbours
          Stored,   \* what each neighbour has in its storage
          Top,      \* HippoStorage.maxLevel of each neighbour
          Refused,  \* blocks that do not pass Check here
          Round,    \* the goroutines that may run at a time, a bound
          Width,    \* levels of a window, 5 in SyncBlocks
          Faulty    \* the neighbours that calls to may fail

ASSUME SyncAssumption == /\ Level \in [Block -> Nat]
                         /\ Stored \in [Peer -> SUBSET Block]
                         /\ Top \in [Peer -> Nat \cup {-1}]
                         /\ Refused \subseteq Block
                         /\ Width \in Nat \ {0}
                         /\ Faulty \subseteq Peer

VARIABLES known,   \* the blocks in the storage of the host
          pc,      \* where each round is
          peer,    \* the neighbour it asks
          level0,  \* the lowest level of its window
          hashes,  \* what the neighbour answered, then the new ones of these
          toAdd    \* newBlocks that are not added yet

syncVars == <<known, pc, peer, level0, hashes, toAdd>>

SyncTypeOK ==
  /\ known \subseteq Block
  /\ pc \in [Round -> {"idle", "query", "filter", "fetch", "add"}]
  /\ peer \in [Round -> Peer]
  /\ level0 \in [Round -> Nat]
  /\ hashes \in [Round -> SUBSET Block]
  /\ toAdd \in [Round -> SUBSET Block]
  /\ \A r \in Round : pc[r] # "add" => toAdd[r] = {}

\* A host that has just been started.
SyncInit ==
  /\ known = {}
  /\ pc = [r \in Round |-> "idle"]
  /\ peer \in {[r \in Round |-> p] : p \in Peer}
  /\ level0 = [r \in Round |-> 0]
  /\ hashes = [r \in Round |-> {}]
  /\ toAdd = [r \in Round |-> {}]

Return(r) ==
  /\ pc' = [pc EXCEPT ![r] = "idle"]
  /\ level0' = [level0 EXCEPT ![r] = 0]
  /\ hashes' = [hashes EXCEPT ![r] = {}]
  /\ toAdd' = [toAdd EXCEPT ![r] = {}]
  /\ UNCHANGED peer
----------------------------------------------------------------------------
\* Mistaken forms of what follows, used by none of it: see "mutants" in
\* PROJECT.json.

\* A round that asks for the same window again.
SameWindow(l) == l

\* A round that leaves out the level after its window.
SkipLevel(l) == l + Width + 1
----------------------------------------------------------------------------
\* StartSyncBlocks and SyncAddressesN: a round with one of the neighbours.
SyncBlocks(r, p) ==
  /\ pc[r] = "idle"
  /\ pc' = [pc EXCEPT ![r] = "query"]
  /\ peer' = [peer EXCEPT ![r] = p]
  /\ UNCHANGED <<known, level0, hashes, toAdd>>

\* HippoStorage.GetBlocksLevelHash of the neighbour: blocks above its maxLevel
\* are in the answer only if the window reaches down to it.
GetBlocksLevelHash(p, l) ==
  IF l > Top[p] THEN {} ELSE {b \in Stored[p] : Level[b] \in l .. (l + Width - 1)}

QueryLevel(r) ==
  /\ pc[r] = "query"
  /\ LET answer == GetBlocksLevelHash(peer[r], level0[r])
     IN IF answer = {}
        THEN Return(r)
        ELSE /\ hashes' = [hashes EXCEPT ![r] = answer]
             /\ pc' = [pc EXCEPT ![r] = "filter"]
             /\ UNCHANGED <<peer, level0, toAdd>>
  /\ UNCHANGED known

FilterNewHashes(r) ==
  /\ pc[r] = "filter"
  /\ hashes' = [hashes EXCEPT ![r] = @ \ known]
  /\ pc' = [pc EXCEPT ![r] = "fetch"]
  /\ UNCHANGED <<known, peer, level0, toAdd>>

\* One call for each hash; one that fails leaves its block out.
QueryHashes(r) ==
  /\ pc[r] = "fetch"
  /\ \E newBlocks \in SUBSET hashes[r] :
       /\ peer[r] \notin Faulty => newBlocks = hashes[r]
       /\ IF newBlocks = {}
          THEN Return(r)
          ELSE /\ toAdd' = [toAdd EXCEPT ![r] = newBlocks]
               /\ hashes' = [hashes EXCEPT ![r] = {}]
               /\ pc' = [pc EXCEPT ![r] = "add"]
               /\ UNCHANGED <<peer, level0>>
  /\ UNCHANGED known

\* AddBlocks: the lowest level first, within a level in any order.
AddBlock(r) ==
  /\ pc[r] = "add"
  /\ \E b \in toAdd[r] :
       /\ \A x \in toAdd[r] : Level[b] <= Level[x]
       /\ known' = known \cup ({b} \ Refused)
       /\ toAdd' = [toAdd EXCEPT ![r] = @ \ {b}]
  /\ UNCHANGED <<pc, peer, level0, hashes>>

NextLevel(l) == l + Width

NextWindow(r) ==
  /\ pc[r] = "add" /\ toAdd[r] = {}
  /\ level0' = [level0 EXCEPT ![r] = NextLevel(@)]
  /\ pc' = [pc EXCEPT ![r] = "query"]
  /\ UNCHANGED <<known, peer, hashes, toAdd>>

\* QueryLevel or QueryHashes fails or takes too long.
Fail(r) ==
  /\ peer[r] \in Faulty
  /\ pc[r] \in {"query", "fetch"}
  /\ Return(r)
  /\ UNCHANGED known

RoundStep(r) ==
  QueryLevel(r) \/ FilterNewHashes(r) \/ QueryHashes(r) \/ AddBlock(r) \/ NextWindow(r)

SyncNext == \E r \in Round : RoundStep(r) \/ Fail(r) \/ \E p \in Peer : SyncBlocks(r, p)

SyncSpec == SyncInit /\ [][SyncNext]_syncVars

\* Rounds run, and each neighbour is asked again and again.
FairSync ==
  /\ SyncSpec
  /\ \A r \in Round : WF_syncVars(RoundStep(r))
  /\ \A p \in Peer : SF_syncVars(\E r \in Round : SyncBlocks(r, p))
----------------------------------------------------------------------------
\* A round with a neighbour that answers leaves nothing behind: what this has
\* below the window is in the storage or was refused, whatever other rounds
\* added, left out or found in the storage in the meantime.
NothingLeftBehind ==
  \A r \in Round : \A b \in Stored[peer[r]] :
    pc[r] # "idle" /\ peer[r] \notin Faulty /\ Level[b] < level0[r]
      => b \in known \cup Refused

\* Every round ends, also if calls fail and blocks are refused again and again.
RoundEnds == \A r \in Round : pc[r] # "idle" ~> pc[r] = "idle"

\* "Sync blocks from the first level up to the latest one" (network.go:488): a
\* host that syncs with a neighbour, again and again, comes to have its blocks.
\* The code does not keep this, also if no call fails: see MCSyncLatest.
SyncedToLatest == \A p \in Peer : <>(Stored[p] \subseteq known)
=============================================================================
