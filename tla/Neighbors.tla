----------------------------- MODULE Neighbors -----------------------------
(***************************************************************************)
(* How a host finds its neighbours and keeps connections to them.  The     *)
(* loop of SyncNeighbors asks the register for addresses, pings them one   *)
(* after the other, enters those that answer into the table and evicts     *)
(* those that are too many.  Each ping runs in a goroutine that is left    *)
(* behind when it takes too long.  Pings, queries and broadcasts to the    *)
(* same address share one client of the NetworkPool, which a failed ping   *)
(* or query closes and replaces, whoever is using it.                      *)
(*                                                                         *)
(* Abstractions.  The time of a ping only decides who is evicted: any      *)
(* choice of the neighbours that stay is possible.  The register gives any *)
(* set of addresses, or fails.  A client nobody can reach any more is      *)
(* forgotten here; in the code it keeps its connection.                    *)
(***************************************************************************)
EXTENDS Integers, FiniteSets, FiniteSetsExt

CONSTANTS Address,
          MaxNeighbors,
          Nowhere,     \* not an address
          Loop,        \* the goroutine of SyncNeighbors
          Pinger,      \* the goroutines Ping starts, a bound
          Querier,     \* goroutines in QueryLevel
          Sender       \* goroutines in BroadcastBlock or BroadcastTransaction

ASSUME NeighborsAssumption ==
  /\ MaxNeighbors \in Nat
  /\ IsFiniteSet(Address) /\ Nowhere \notin Address
  /\ Loop \notin Pinger \cup Querier \cup Sender
  /\ Pinger \cap (Querier \cup Sender) = {} /\ Querier \cap Sender = {}

User == Querier \cup Sender
Proc == {Loop} \cup Pinger \cup User

VARIABLES
  up,       \* the hosts that run
  table,    \* HippoNetworkClient.neighbors
  pool,     \* NetworkPool.data: the client of each address, open or lost, or none
  loop,     \* where the loop is
  todo,     \* the addresses it has still to ping
  awaited,  \* the pinger of its last ping, or Loop if there was none
  stage,    \* where each goroutine is
  address,  \* the address it calls
  client    \* the client it uses: none, the one in the pool, or another, which
            \* is open or lost (closed, or its host has gone)

proc == <<stage, address, client>>
vars == <<up, table, pool, loop, todo, awaited, proc>>

Stages == {"idle", "get", "dial", "call", "hung", "update", "redial", "ok", "failed"}

TypeOK ==
  /\ up \subseteq Address /\ table \subseteq Address /\ todo \subseteq Address
  /\ pool \in [Address -> {"none", "open", "lost"}]
  /\ loop \in {"count", "refresh", "ping", "wait", "late", "evict"}
  /\ awaited \in Pinger \cup {Loop}
  /\ stage \in [Proc -> Stages]
  /\ address \in [Proc -> Address \cup {Nowhere}]
  /\ client \in [Proc -> {"none", "pooled", "open", "lost"}]
  /\ \A x \in Proc : stage[x] = "call" => client[x] # "none"

Init ==
  /\ up = Address
  /\ table = {} /\ todo = {}
  /\ pool = [a \in Address |-> "none"]
  /\ loop = "count" /\ awaited = Loop
  /\ stage = [x \in Proc |-> "idle"]
  /\ address = [x \in Proc |-> Nowhere]
  /\ client = [x \in Proc |-> "none"]

To(x, s) == stage' = [stage EXCEPT ![x] = s]

\* Goroutine x starts to call a, or has ended.
Start(x, a, s) == To(x, s) /\ address' = [address EXCEPT ![x] = a]
Stop(x) ==
  /\ To(x, "idle")
  /\ address' = [address EXCEPT ![x] = Nowhere]
  /\ client' = [client EXCEPT ![x] = "none"]

Usable(x) == "open" \in {client[x], IF client[x] = "pooled" THEN pool[address[x]] ELSE "lost"}

\* What a goroutine does when it got no client, or when its call failed: a ping
\* renews the client, a query does so after a call, a broadcast never.
AfterFailure(x) ==
  IF x \in Pinger \/ (x \in Querier /\ client[x] # "none") THEN "update" ELSE "failed"
----------------------------------------------------------------------------
\* Mistaken forms of the actions below, used by none of them: see "mutants" in
\* PROJECT.json.

\* An Update that closes the client and does not dial again.
RedialNever(x) ==
  /\ stage[x] = "redial"
  /\ To(x, "failed")
  /\ UNCHANGED <<up, table, pool, loop, todo, awaited, address, client>>

\* An eviction that keeps one neighbour too many.
EvictOneLess ==
  /\ loop = "evict"
  /\ IF Cardinality(table) <= MaxNeighbors + 1
     THEN UNCHANGED table
     ELSE \E kept \in kSubset(MaxNeighbors + 1, table) : table' = kept
  /\ loop' = "count"
  /\ UNCHANGED <<up, pool, todo, awaited, proc>>
----------------------------------------------------------------------------
(* NetworkPool *)

\* Get: the client in the map, or else a new one.
Get(x) ==
  /\ stage[x] = "get"
  /\ IF pool[address[x]] # "none"
     THEN client' = [client EXCEPT ![x] = "pooled"] /\ To(x, "call")
     ELSE To(x, "dial") /\ UNCHANGED client
  /\ UNCHANGED <<up, table, pool, loop, todo, awaited, address>>

\* The new client, if the host answers, goes into the map over what another
\* goroutine has put there in the meantime.
Connect(x, mine) ==
  /\ client' = [y \in Proc |->
                  IF y = x THEN mine
                  ELSE IF client[y] = "pooled" /\ address[y] = address[x]
                       THEN pool[address[x]] ELSE client[y]]
  /\ pool' = [pool EXCEPT ![address[x]] = "open"]

Dial(x) ==
  /\ stage[x] = "dial"
  /\ IF address[x] \in up
     THEN Connect(x, "pooled") /\ To(x, "call")
     ELSE /\ To(x, "hung") \/ To(x, AfterFailure(x))
          /\ UNCHANGED <<pool, client>>
  /\ UNCHANGED <<up, table, loop, todo, awaited, address>>

\* Update: the client in the map is closed, whoever uses it, and stays in the
\* map if the new one cannot connect.
Close(x) ==
  /\ stage[x] = "update"
  /\ pool' = [pool EXCEPT ![address[x]] = IF @ = "none" THEN "none" ELSE "lost"]
  /\ To(x, "redial")
  /\ UNCHANGED <<up, table, loop, todo, awaited, address, client>>

Redial(x) ==
  /\ stage[x] = "redial"
  /\ IF address[x] \in up THEN Connect(x, "none") ELSE UNCHANGED <<pool, client>>
  /\ To(x, "failed")
  /\ UNCHANGED <<up, table, loop, todo, awaited, address>>
----------------------------------------------------------------------------
\* A call over a client.  One that is closed fails; with one that has lost its
\* host the call may also hang.
Call(x) ==
  /\ stage[x] = "call"
  /\ IF Usable(x) THEN To(x, "ok")
     ELSE \/ To(x, AfterFailure(x))
          \/ address[x] \notin up /\ To(x, "hung")
  /\ UNCHANGED <<up, table, pool, loop, todo, awaited, address, client>>

\* A call or dial that hangs fails in the end.
HungFails(x) ==
  /\ stage[x] = "hung"
  /\ To(x, AfterFailure(x))
  /\ UNCHANGED <<up, table, pool, loop, todo, awaited, address, client>>

\* A query or a broadcast to a neighbour; pingers are started by the loop.
Use(x, a) ==
  /\ x \in User /\ stage[x] = "idle" /\ a \in table
  /\ Start(x, a, "get")
  /\ UNCHANGED <<up, table, pool, loop, todo, awaited, client>>

\* It is over; a ping's outcome is kept until the loop has read it.
End(x) ==
  /\ stage[x] \in {"ok", "failed"}
  /\ x # Loop /\ (loop \in {"wait", "late"} => x # awaited)
  /\ Stop(x)
  /\ UNCHANGED <<up, table, pool, loop, todo, awaited>>

Step(x) == Get(x) \/ Dial(x) \/ Call(x) \/ HungFails(x) \/ Close(x) \/ Redial(x) \/ End(x)
----------------------------------------------------------------------------
(* The loop of SyncNeighbors *)

\* TryUpdateNeighbors.
Count ==
  /\ loop = "count"
  /\ loop' = IF Cardinality(table) >= MaxNeighbors THEN "evict" ELSE "refresh"
  /\ UNCHANGED <<up, table, pool, todo, awaited, proc>>

\* AddressesRefresh of the register fails.
RefreshFails ==
  /\ loop = "refresh"
  /\ loop' = "evict"
  /\ UNCHANGED <<up, table, pool, todo, awaited, proc>>

Refresh(addresses) ==
  /\ loop = "refresh"
  /\ todo' = addresses
  /\ loop' = "ping"
  /\ UNCHANGED <<up, table, pool, awaited, proc>>

Pinged ==
  /\ loop = "ping" /\ todo = {}
  /\ loop' = "evict"
  /\ UNCHANGED <<up, table, pool, todo, awaited, proc>>

Ping(g, a) ==
  /\ loop = "ping" /\ a \in todo
  /\ g \in Pinger /\ stage[g] = "idle"
  /\ todo' = todo \ {a}
  /\ loop' = "wait" /\ awaited' = g
  /\ Start(g, a, "get")
  /\ UNCHANGED <<up, table, pool, client>>

\* The ping takes too long: the loop itself renews the client.  The goroutine
\* is left behind and may still succeed.
Timeout ==
  /\ loop = "wait" /\ stage[awaited] \notin {"ok", "failed"}
  /\ stage[awaited] = "hung" \/ address[awaited] \notin up
  /\ loop' = "late"
  /\ Start(Loop, address[awaited], "update")
  /\ UNCHANGED <<up, table, pool, todo, awaited, client>>

\* The end of Ping: the address is entered, if the goroutine has succeeded by
\* now, or else deleted.
Enter ==
  /\ \/ loop = "wait" /\ stage[awaited] \in {"ok", "failed"}
     \/ loop = "late" /\ stage[Loop] = "failed"
  /\ table' = IF stage[awaited] = "ok" THEN table \cup {address[awaited]}
              ELSE table \ {address[awaited]}
  /\ loop' = "ping"
  /\ Stop(Loop)
  /\ UNCHANGED <<up, pool, todo, awaited>>

\* EvictNeighbors keeps the MaxNeighbors with the shortest pings.
Evict ==
  /\ loop = "evict"
  /\ IF Cardinality(table) <= MaxNeighbors
     THEN UNCHANGED table
     ELSE \E kept \in kSubset(MaxNeighbors, table) : table' = kept
  /\ loop' = "count"
  /\ UNCHANGED <<up, pool, todo, awaited, proc>>

LoopStep == \/ Count \/ RefreshFails \/ Pinged \/ Timeout \/ Enter \/ Evict
            \/ \E s \in SUBSET Address : Refresh(s)
            \/ \E g \in Pinger, a \in Address : Ping(g, a)
----------------------------------------------------------------------------
\* A host goes down, with its connections, or comes back.
Crash(a) ==
  /\ a \in up
  /\ up' = up \ {a}
  /\ pool' = [pool EXCEPT ![a] = IF @ = "none" THEN "none" ELSE "lost"]
  /\ client' = [x \in Proc |-> IF address[x] = a /\ client[x] = "open" THEN "lost" ELSE client[x]]
  /\ UNCHANGED <<table, loop, todo, awaited, stage, address>>

Restart(a) ==
  /\ a \notin up
  /\ up' = up \cup {a}
  /\ UNCHANGED <<table, pool, loop, todo, awaited, proc>>

Next ==
  \/ LoopStep
  \/ \E x \in Proc : Step(x) \/ \E a \in Address : Use(x, a)
  \/ \E a \in Address : Crash(a) \/ Restart(a)

Spec == Init /\ [][Next]_vars

\* The goroutines run, and the register gives all addresses again and again.
FairSpec ==
  /\ Spec
  /\ WF_vars(LoopStep) /\ SF_vars(Refresh(Address))
  /\ \A x \in Proc : WF_vars(Step(x))
----------------------------------------------------------------------------
\* After an eviction there are at most MaxNeighbors neighbours, however many
\* answered.
TableBounded == loop = "count" => Cardinality(table) <= MaxNeighbors

\* A host that stays up and that the register knows is a neighbour again and
\* again, or the table is full without it: neither goroutines left behind by
\* pings that were too late, nor clients that another goroutine closed, nor
\* queries and pings that renew the same client keep the table from filling up.
FoundAgain ==
  \A a \in Address :
    <>[](a \in up) => []<>(a \in table \/ Cardinality(table) >= MaxNeighbors)
=============================================================================
