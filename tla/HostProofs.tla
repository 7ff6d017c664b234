----------------------------- MODULE HostProofs -----------------------------
(***************************************************************************)
(* Theorems about the host, for every forest of blocks, every set of peers,*)
(* every capacity of the channel, every height, any threads and nonces and *)
(* every choice of the blocks this host signs.  First, Mining and Solve by *)
(* themselves.  Then, Host: it runs Storage, so what StorageProofs proves  *)
(* holds in it, and implements Mining, so what was proved of Mining does   *)
(* too.  Last, the blocks a host signs: a block it found counts at once,   *)
(* and each is higher than all before; the invariant OInv follows a block  *)
(* of the host from the template, built on a verified block of the top     *)
(* level, through the channel and main to the end of its Add.              *)
(***************************************************************************)
EXTENDS Host, Solve, TLAPS

SP == INSTANCE StorageProofs WITH Adder <- Caller
----------------------------------------------------------------------------
(* The miner and the watcher *)

\* The two halves of TypeOK.
Places ==
  /\ channel \in Seq(Levels) /\ Len(channel) <= Capacity
  /\ miner \in {"select", "register", "solve", "callback", "announce", "signal",
                "stopped"}
  /\ job \in Levels \cup {-1}
  /\ watcher \in {"poll", "length", "top", "fetch", "put", "stopped"}
  /\ template \in Levels \cup {-1}
  /\ maxLevel \in (0 .. MaxHeight) \cup {-1}
  /\ miningCancel \in {"nil", "old", "current"}
  /\ call \in [Caller -> {"idle", "store", "raised", "nil", "level", "fire", "clear"}]
  /\ level \in [Caller -> Levels \cup {-1}]

Flags == /\ done \in BOOLEAN /\ closed \in BOOLEAN /\ hostClosed \in BOOLEAN
         /\ crashed \in BOOLEAN

\* A template that waits for its transactions or to be put has a level.
Templates == watcher \in {"fetch", "put"} => template \in Levels

\* A queue that is closed has cancelled the context of the present job, also of
\* one whose cancel function is not in the storage yet.
Closing == closed /\ miner \in {"register", "solve"} => done

\* main calls Add only in the callback.
InCallback == call[Miner] # "idle" => miner = "callback"

IInv == Places /\ Flags /\ Templates /\ Closing /\ InCallback /\ OneJob
----------------------------------------------------------------------------
\* The host starts with its genesis block in the channel and nothing else.
LEMMA InitIInv == Init => IInv
<1> SUFFICES ASSUME Init PROVE IInv
    OBVIOUS
<1>1. channel \in Seq(Levels) /\ Len(channel) = 1
  BY MiningAssumption DEF Init, Levels
<1>2. Places
  BY <1>1, MiningAssumption DEF Init, Places, Levels
<1>3. Flags
  BY DEF Init, Flags
<1>4. QED
  BY <1>1, <1>2, <1>3 DEF Init, IInv, Templates, Closing, InCallback, OneJob, Caller

\* No flag is ever anything but true or false.
LEMMA FlagsKept == Flags /\ [Next]_vars => Flags'
<1> SUFFICES ASSUME Flags, [Next]_vars PROVE Flags'
    OBVIOUS
<1>1. CASE MinerStep
  BY <1>1 DEF MinerStep, TakeJob, Register, GiveUp, CallbackReturns, MinerStops,
              Flags, contexts, watch, storage, calls
<1>2. CASE Find \/ Announce
  BY <1>2 DEF Find, Announce, Flags, contexts, watch, storage
<1>3. CASE WatcherStep \/ Fetch
  BY <1>3 DEF WatcherStep, Status, WatcherStops, CheckLength, BuildTemplate, Put, Fetch,
              Flags, queue, contexts, storage, calls
<1>4. CASE Cancel \/ Stop \/ Close
  BY <1>4 DEF Cancel, Stop, Close, Flags, watch, storage, calls
<1>5. ASSUME NEW c \in Caller, AddStep(c)
      PROVE  Flags'
  BY <1>5 DEF AddStep, Refuse, Raise, Stored, TestNil, TestLevel, Fire, Clear,
              Flags, queue, contexts, watch, storage, calls
<1>6. ASSUME NEW c \in Peer, NEW l \in 0 .. MaxHeight, Receive(c, l)
      PROVE  Flags'
  BY <1>6 DEF Receive, Flags, queue, contexts, watch, storage
<1>7. CASE UNCHANGED vars
  BY <1>7 DEF vars, Flags, queue, contexts, watch, storage, calls
<1>8. QED
  BY <1>1, <1>2, <1>3, <1>4, <1>5, <1>6, <1>7 DEF Next
----------------------------------------------------------------------------
\* main takes a job when there is none elsewhere, and its context is cancelled
\* if the queue is closed.
LEMMA MinerKeeps == IInv /\ MinerStep => (Places /\ Templates /\ Closing /\ InCallback /\ OneJob)'
<1> SUFFICES ASSUME IInv, MinerStep PROVE (Places /\ Templates /\ Closing /\ InCallback /\ OneJob)'
    OBVIOUS
<1> USE MiningAssumption DEF IInv, Templates, Closing, InCallback, OneJob, Levels, MinerAt,
                             contexts
<1>1. CASE TakeJob
  <2>1. /\ Head(channel) \in Levels /\ Tail(channel) \in Seq(Levels)
        /\ Len(Tail(channel)) = Len(channel) - 1
    BY <1>1 DEF TakeJob, Places
  <2>2. Places'
    BY <1>1, <2>1 DEF TakeJob, Places, watch, calls
  <2>3. (Templates /\ Closing /\ InCallback)'
    BY <1>1 DEF TakeJob, watch, calls
  <2>4. OneJob'
    BY <1>1, <2>1 DEF TakeJob, Places, watch
  <2>5. QED
    BY <2>2, <2>3, <2>4
<1>2. CASE Register
  BY <1>2 DEF Register, Places, watch, calls
<1>3. CASE GiveUp
  BY <1>3 DEF GiveUp, Places, watch, storage, calls
<1>4. CASE CallbackReturns
  BY <1>4 DEF CallbackReturns, Places, watch, storage, calls
<1>5. CASE MinerStops
  BY <1>5 DEF MinerStops, Places, watch, storage, calls
<1>6. QED
  BY <1>1, <1>2, <1>3, <1>4, <1>5 DEF MinerStep

\* A solved block is handed to Add, and to the broadcast queue.
LEMMA FindKeeps == IInv /\ (Find \/ Announce) => (Places /\ Templates /\ Closing /\ InCallback /\ OneJob)'
<1> SUFFICES ASSUME IInv, Find \/ Announce
             PROVE  (Places /\ Templates /\ Closing /\ InCallback /\ OneJob)'
    OBVIOUS
<1>1. Places'
  BY MiningAssumption DEF Find, Announce, IInv, Places, Levels, watch, storage, calls
<1>2. (Templates /\ Closing)'
  BY DEF Find, Announce, IInv, Templates, Closing, Levels, contexts, watch, storage
<1>3. InCallback'
  BY DEF Find, Announce, IInv, InCallback, MinerAt, calls
<1>4. OneJob'
  BY DEF Find, Announce, IInv, Places, OneJob, MinerAt, watch
<1>5. QED
  BY <1>1, <1>2, <1>3, <1>4

\* The watcher is told that a job is over, and only then builds the next.
LEMMA WatcherKeeps ==
  IInv /\ (WatcherStep \/ Fetch) => (Places /\ Templates /\ Closing /\ InCallback /\ OneJob)'
<1> SUFFICES ASSUME IInv, WatcherStep \/ Fetch
             PROVE  (Places /\ Templates /\ Closing /\ InCallback /\ OneJob)'
    OBVIOUS
<1> USE MiningAssumption DEF IInv, Places, Templates, Closing, InCallback, OneJob, Levels,
                             MinerAt, WatcherAt, contexts
<1>1. CASE Status
  BY <1>1 DEF Status, storage, calls
<1>2. CASE WatcherStops
  BY <1>2 DEF WatcherStops, queue, storage, calls
<1>3. CASE CheckLength
  <2>1. Len(channel) \in Nat
    OBVIOUS
  <2>2. Len(channel) = 0 /\ watcher' = "top"
    BY <1>3, <2>1 DEF CheckLength
  <2>3. QED
    BY <1>3, <2>2 DEF CheckLength, queue, storage, calls
<1>4. CASE BuildTemplate
  BY <1>4 DEF BuildTemplate, queue, storage, calls
<1>5. CASE Put
  <2>1. /\ Append(channel, template) \in Seq(Levels)
        /\ Len(Append(channel, template)) = Len(channel) + 1
    BY <1>5 DEF Put
  <2>2. QED
    BY <1>5, <2>1 DEF Put, storage, calls
<1>6. CASE Fetch
  BY <1>6 DEF Fetch, queue, storage, calls
<1>7. QED
  BY <1>1, <1>2, <1>3, <1>4, <1>5, <1>6 DEF WatcherStep

\* A call of Add may cancel the job, but it hands nothing over.
LEMMA AddKeeps ==
  ASSUME NEW c \in Caller, IInv, AddStep(c)
  PROVE  (Places /\ Templates /\ Closing /\ InCallback /\ OneJob)'
<1> USE DEF AddStep, Refuse, ReturnFalse, Raise, Stored, TestNil, TestLevel, Fire, Clear,
            contexts, queue, watch, storage
<1>1. UNCHANGED <<channel, job, closed, watcher, template>>
  OBVIOUS
<1>2. done => done'
  OBVIOUS
<1>3. /\ miner' = miner \/ (c = Miner /\ miner = "callback" /\ miner' = "signal")
      /\ InCallback'
  BY DEF IInv, InCallback, Places, At, Return, CallAt, Caller
<1>4. (Templates /\ Closing /\ InCallback /\ OneJob)'
  BY <1>1, <1>2, <1>3 DEF IInv, Templates, Closing, OneJob
<1>5. call' \in [Caller -> {"idle", "store", "raised", "nil", "level", "fire", "clear"}]
  BY DEF At, Return, IInv, Places
<1>6. level' \in [Caller -> Levels \cup {-1}]
  BY DEF Return, IInv, Places
<1>7. maxLevel' \in (0 .. MaxHeight) \cup {-1}
  BY MiningAssumption DEF IInv, Places
<1>8. miningCancel' \in {"nil", "old", "current"}
  BY DEF IInv, Places
<1>9. Places'
  BY <1>1, <1>3, <1>5, <1>6, <1>7, <1>8 DEF IInv, Places
<1>10. QED
  BY <1>4, <1>9

\* Every step keeps the invariant.
LEMMA NextIInv == IInv /\ [Next]_vars => IInv'
<1> SUFFICES ASSUME IInv, [Next]_vars PROVE (Places /\ Templates /\ Closing /\ InCallback /\ OneJob)'
    BY FlagsKept DEF IInv
<1>1. CASE Cancel \/ Stop \/ Close
  <2>1. /\ UNCHANGED <<channel, miner, job, watcher, template, maxLevel, miningCancel, call, level>>
        /\ done' = TRUE
    BY <1>1 DEF Cancel, Stop, Close, watch, storage, calls
  <2>2. (Templates /\ Closing /\ InCallback /\ OneJob)'
    BY <2>1 DEF IInv, Templates, Closing, InCallback, OneJob
  <2>3. Places'
    BY <2>1 DEF IInv, Places
  <2> QED BY <2>2, <2>3
<1>2. ASSUME NEW c \in Peer, NEW l \in 0 .. MaxHeight, Receive(c, l)
      PROVE  (Places /\ Templates /\ Closing /\ InCallback /\ OneJob)'
  <2>1. UNCHANGED <<channel, miner, job, done, closed, watcher, template, maxLevel, miningCancel>>
    BY <1>2 DEF Receive, queue, contexts, watch, storage
  <2>2. (Templates /\ Closing /\ InCallback /\ OneJob)'
    BY <1>2, <2>1, MiningAssumption
       DEF Receive, At, IInv, Places, Templates, Closing, InCallback, OneJob, Caller
  <2>3. l \in Levels
    BY MiningAssumption DEF Levels
  <2>4. Places'
    BY <1>2, <2>1, <2>3 DEF Receive, At, IInv, Places, Caller
  <2>5. QED
    BY <2>2, <2>4
<1>3. CASE UNCHANGED vars
  <2>1. UNCHANGED <<channel, miner, job, done, closed, watcher, template, maxLevel, miningCancel,
                    call, level>>
    BY <1>3 DEF vars, queue, contexts, watch, storage, calls
  <2>2. (Templates /\ Closing /\ InCallback /\ OneJob)'
    BY <2>1 DEF IInv, Templates, Closing, InCallback, OneJob
  <2>3. Places'
    BY <2>1 DEF IInv, Places
  <2>4. QED
    BY <2>2, <2>3
<1>4. QED
  BY <1>1, <1>2, <1>3, MinerKeeps, FindKeeps, WatcherKeeps, AddKeeps DEF Next

\* IInv is an invariant of Mining.
THEOREM Invariance == Spec => []IInv
BY InitIInv, NextIInv, PTL DEF Spec
----------------------------------------------------------------------------
\* The variables of Mining keep their types: every template has a level, and the
\* channel never holds more than it may.
THEOREM TypesKept == Spec => []TypeOK
<1>1. IInv => TypeOK
  BY DEF IInv, Places, Flags, TypeOK
<1>2. QED
  BY Invariance, <1>1, PTL

\* There is one job in the host, whatever arrives and whenever it is cancelled:
\* main and the watcher cannot both wait for the other.
THEOREM JobIsOne == Spec => []OneJob
<1>1. IInv => OneJob
  BY DEF IInv
<1>2. QED
  BY Invariance, <1>1, PTL

\* After Stop the running job is cancelled, also if main took it after Stop.
THEOREM JobIsCancelled == Spec => []StopCancels
<1>1. IInv => StopCancels
  BY DEF IInv, Closing, StopCancels
<1>2. QED
  BY Invariance, <1>1, PTL
----------------------------------------------------------------------------
\* A call that has found miningCancel set, and has not cleared it yet, finds it set.
Tested == /\ ~crashed
          /\ \A c \in Caller : call[c] \in {"level", "fire", "clear"} => miningCancel # "nil"

\* While one call is under way, nobody else clears it.
LEMMA TestedKept == IInv /\ Tested /\ OneCall /\ [Next]_vars => Tested'
<1> SUFFICES ASSUME IInv, Tested, OneCall, [Next]_vars PROVE Tested'
  OBVIOUS
<1> USE DEF Tested
<1>1. CASE MinerStep
  BY <1>1 DEF MinerStep, TakeJob, Register, GiveUp, CallbackReturns, MinerStops,
              watch, storage, calls
<1>2. CASE Find \/ Announce
  BY <1>2 DEF Find, Announce, watch, storage, calls, IInv, Places
<1>3. CASE WatcherStep \/ Fetch
  BY <1>3 DEF WatcherStep, Status, WatcherStops, CheckLength, BuildTemplate, Put, Fetch,
              queue, storage, calls
<1>4. CASE Cancel \/ Stop \/ Close
  BY <1>4 DEF Cancel, Stop, Close, watch, storage, calls
<1>5. ASSUME NEW c \in Caller, AddStep(c) PROVE Tested'
  <2>1. call[c] # "idle" /\ \A d \in Caller : d # c => call[d] = "idle"
    BY <1>5 DEF AddStep, Refuse, Raise, Stored, TestNil, TestLevel, Fire, Clear, CallAt, OneCall
  <2>2. \A d \in Caller : d # c => call'[d] = "idle"
    BY <1>5, <2>1 DEF AddStep, Refuse, ReturnFalse, Raise, Stored, TestNil, TestLevel, Fire,
                      Clear, At, Return, IInv, Places
  <2>3. /\ ~crashed'
        /\ call'[c] \in {"level", "fire", "clear"} => miningCancel' # "nil"
    BY <1>5 DEF AddStep, Refuse, ReturnFalse, Raise, Stored, TestNil, TestLevel, Fire, Clear,
                CallAt, At, Return, storage, IInv, Places
  <2> QED BY <2>2, <2>3
<1>6. ASSUME NEW c \in Peer, NEW l \in 0 .. MaxHeight, Receive(c, l) PROVE Tested'
  BY <1>6 DEF Receive, At, queue, watch, storage, IInv, Places
<1>7. CASE UNCHANGED vars
  BY <1>7 DEF vars, queue, watch, storage, calls
<1> QED BY <1>1, <1>2, <1>3, <1>4, <1>5, <1>6, <1>7 DEF Next

\* The process dies of a nil cancel function only if two calls of Add overlap: with
\* one at a time what the test of miningCancel has found is there when it is called.
THEOREM CrashNeedsTwo == Spec => NilTakesTwo
<1>1. Init => Tested
  BY DEF Init, Tested
<1>2. Spec /\ []OneCall => []Tested
  BY <1>1, TestedKept, Invariance, PTL DEF Spec
<1>3. Tested => ~crashed
  BY DEF Tested
<1> QED BY <1>2, <1>3, PTL DEF NilTakesTwo
----------------------------------------------------------------------------
(* The search for a nonce *)

\* Only a thread that has found a nonce has one, and one that has ended with it has
\* been to once.Do; the nonce that is stored is one of theirs.
Nonces ==
  /\ \A t \in Thread : thread[t] \in {"check", "try"} => nonce[t] = NoNonce
  /\ \A t \in Thread : thread[t] = "found" => nonce[t] \in Nonce
  /\ \A t \in Thread : thread[t] = "ended" /\ nonce[t] # NoNonce => once
  /\ once = result
  /\ once => total \in Nonce /\ \E t \in Thread : nonce[t] = total
  /\ returned => \A t \in Thread : thread[t] = "ended"

NonceInv == SolveTypeOK /\ Nonces

\* No thread has found anything.
LEMMA InitNonceInv == SolveInit => NonceInv
BY SolveAssumption DEF SolveInit, NonceInv, Nonces, SolveTypeOK

\* Every step of a thread, the return and the cancellation keep it.
LEMMA NextNonceInv == NonceInv /\ [SolveNext]_solveVars => NonceInv'
<1> SUFFICES ASSUME NonceInv, [SolveNext]_solveVars PROVE NonceInv'
  OBVIOUS
<1> USE SolveAssumption DEF NonceInv, Nonces, SolveTypeOK
<1>1. ASSUME NEW t \in Thread, Check(t) PROVE NonceInv'
  BY <1>1 DEF Check
<1>2. ASSUME NEW t \in Thread, Try(t) PROVE NonceInv'
  BY <1>2 DEF Try
<1>3. ASSUME NEW t \in Thread, Store(t) PROVE NonceInv'
  BY <1>3 DEF Store
<1>4. CASE Finish
  BY <1>4 DEF Finish
<1>5. CASE CancelJob
  BY <1>5 DEF CancelJob
<1>6. CASE UNCHANGED solveVars
  BY <1>6 DEF solveVars
<1> QED BY <1>1, <1>2, <1>3, <1>4, <1>5, <1>6 DEF SolveNext, ThreadStep

\* Solve returns a nonce that a thread has found, also if the job is cancelled while
\* it is found, and none only if no thread has found any.
THEOREM SolutionIsKept == SolveSpec => []SolutionKept
<1>1. NonceInv => SolutionKept
  BY DEF NonceInv, Nonces, SolveTypeOK, SolutionKept
<1> QED BY InitNonceInv, NextNonceInv, <1>1, PTL DEF SolveSpec

\* The first nonce that a thread stores is the one that Solve returns.
THEOREM SolutionIsFirst == SolveSpec => StoredOnce
<1>1. NonceInv /\ [SolveNext]_solveVars => [total # NoNonce => total' = total]_solveVars
  <2> SUFFICES ASSUME NonceInv, SolveNext, total # NoNonce PROVE total' = total
    BY DEF solveVars
  <2>1. once
    BY SolveAssumption DEF NonceInv, Nonces, SolveTypeOK
  <2> QED BY <2>1 DEF SolveNext, ThreadStep, Check, Try, Store, Finish, CancelJob
<1> QED BY InitNonceInv, NextNonceInv, <1>1, PTL DEF SolveSpec, StoredOnce
----------------------------------------------------------------------------
(* The host: Mining above Storage *)

\* Block b is what the level l stands for; above the bound there is none.
Matches(l, b) == l <= MaxHeight => b \in Block /\ Level[b] = l

\* The blocks behind the levels of the jobs.
Jobs ==
  /\ inChannel \in Seq(Block \cup {NoBlock}) /\ Len(inChannel) = Len(channel)
  /\ Len(channel) > 0 => Matches(channel[1], inChannel[1])
  /\ miner \in {"register", "solve"} => Matches(job, solving)
  /\ watcher \in {"fetch", "put"} => Matches(template, draft) /\ draft \in Block \cup {NoBlock}

\* The two halves of a call of Add: the steps of Storage come before the tests
\* of miningCancel, and the level UpdateChild comes to is no lower than that of
\* the block.
Calls ==
  \A c \in Caller :
    /\ pc[c] # "idle" => /\ call[c] \in {"store", "raised"}
                         /\ level[c] = Level[adding[c]]
    /\ pc[c] \in {"mark", "descend", "raise"} => level[c] <= Level[at[c]]

HInv == IInv /\ SP!IInv /\ Jobs /\ Calls
----------------------------------------------------------------------------
\* The assumptions of Storage.
LEMMA StorageAssumptions == SP!AdderAssumption /\ SP!BlockTreeAssumption
BY BlockTreeAssumption DEF SP!AdderAssumption, SP!BlockTreeAssumption, Caller, IsGenesis, SP!IsGenesis

\* Every host starts with an empty storage and its genesis block to mine.
LEMMA InitHInv == HostInit => HInv
<1> SUFFICES ASSUME HostInit PROVE HInv
    OBVIOUS
<1>1. IInv
  BY InitIInv DEF HostInit
<1>2. SP!Init
  BY DEF HostInit, S!Init, SP!Init
<1>3. SP!IInv
  BY <1>2, SP!InitIInv, StorageAssumptions
<1>4. Genesis \in Block /\ Level[Genesis] = 0
  BY OwnAssumption, BlockTreeAssumption DEF Genesis, IsGenesis
<1>5. Jobs
  BY <1>4 DEF HostInit, Init, Jobs, Matches
<1>6. Calls
  BY <1>2 DEF SP!Init, Calls
<1>7. QED
  BY <1>1, <1>3, <1>5, <1>6 DEF HInv
----------------------------------------------------------------------------
(* What Host does to the storage is what Storage does *)

\* The steps of Add that only Storage knows.
LEMMA AddIsStorage ==
  ASSUME NEW c \in Caller,
         \/ S!Refuse(c) \/ S!StoreBlock(c) \/ S!IndexLevel(c) \/ S!LinkParent(c) \/ S!CheckParent(c)
         \/ S!MarkVerified(c) \/ S!Descend(c) \/ S!RaiseMaxLevel(c)
         \/ S!LockBalance(c) \/ S!ReadMaxLevel(c) \/ S!PickTop(c)
  PROVE  SP!Step(c)
<1> USE DEF S!Go, SP!Go, S!Return, SP!Return, S!Release, SP!Release, S!TopBlocks, SP!TopBlocks,
            S!shared, SP!shared, S!money, SP!money, SP!Step
<1>1. CASE S!StoreBlock(c)
  BY <1>1 DEF S!StoreBlock, SP!StoreBlock
<1>2. CASE S!IndexLevel(c)
  BY <1>2 DEF S!IndexLevel, SP!IndexLevel
<1>3. CASE S!LinkParent(c)
  BY <1>3 DEF S!LinkParent, SP!LinkParent
<1>4. CASE S!CheckParent(c)
  BY <1>4 DEF S!CheckParent, SP!CheckParent, S!IsGenesis, SP!IsGenesis
<1>5. CASE S!MarkVerified(c)
  BY <1>5 DEF S!MarkVerified, SP!MarkVerified
<1>6. CASE S!Descend(c)
  BY <1>6 DEF S!Descend, SP!Descend
<1>7. CASE S!RaiseMaxLevel(c)
  BY <1>7 DEF S!RaiseMaxLevel, SP!RaiseMaxLevel
<1>8. CASE S!LockBalance(c)
  BY <1>8 DEF S!LockBalance, SP!LockBalance
<1>9. CASE S!ReadMaxLevel(c)
  BY <1>9 DEF S!ReadMaxLevel, SP!ReadMaxLevel
<1>10. CASE S!PickTop(c)
  BY <1>10 DEF S!PickTop, SP!PickTop, S!Chain, SP!Chain, S!ParentClosed, SP!ParentClosed,
               S!IsGenesis, SP!IsGenesis
<1>11. CASE S!Refuse(c)
  BY <1>11 DEF S!Refuse, SP!Refuse
<1>12. QED
  BY <1>1, <1>2, <1>3, <1>4, <1>5, <1>6, <1>7, <1>8, <1>9, <1>10, <1>11

\* A call of Add begins.
LEMMA CallIsStorage ==
  ASSUME NEW c \in Caller, NEW b \in Block, S!Call(c, b)
  PROVE  SP!Call(c, b)
BY DEF S!Call, SP!Call, S!Go, SP!Go, S!shared, SP!shared, S!money, SP!money

\* The storage and its goroutines as they are.
LEMMA StorageStutters ==
  ASSUME UNCHANGED <<adds, maxLevel>>
  PROVE  UNCHANGED SP!vars
BY DEF adds, SP!vars, SP!shared, SP!money, SP!local

\* Every step of the host is a step of Storage or none.
LEMMA StepIsStorage ==
  ASSUME HInv, [HostNext]_hostVars
  PROVE  [SP!Next]_(SP!vars)
<1>1. CASE HostMinerStep \/ HostAnnounce
  <2>1. UNCHANGED <<adds, maxLevel>>
    BY <1>1 DEF HostMinerStep, HostTakeJob, HostMinerSignals, TakeJob, Register, GiveUp,
                CallbackReturns, MinerStops, HostAnnounce, Announce, storage
  <2>2. QED
    BY <2>1, StorageStutters
<1>2. CASE HostFind
  <2>1. solving \in Block
    BY <1>2 DEF HostFind, Find, MinerAt, HInv, Jobs, Matches
  <2>2. SP!Call(Miner, solving)
    BY <1>2, <2>1, CallIsStorage DEF HostFind, Caller
  <2>3. QED
    BY <2>1, <2>2 DEF SP!Next, Caller
<1>3. CASE HostWatcherStep \/ HostFetch
  <2>1. UNCHANGED <<adds, maxLevel>>
    BY <1>3 DEF HostWatcherStep, HostStatus, HostWatches, HostBuildTemplate, HostPut,
                Status, WatcherStops, CheckLength, BuildTemplate, Put, HostFetch, Fetch, storage
  <2>2. QED
    BY <2>1, StorageStutters
<1>4. CASE HostControl
  <2>1. UNCHANGED <<adds, maxLevel>>
    BY <1>4 DEF HostControl, Cancel, Stop, Close, storage
  <2>2. QED
    BY <2>1, StorageStutters
<1>5. ASSUME NEW c \in Caller, HostAddStep(c)
      PROVE  [SP!Next]_(SP!vars)
  <2>1. CASE HostRefuse(c)
    BY <2>1, AddIsStorage DEF HostRefuse, SP!Next
  <2>2. CASE HostStoreBlock(c)
    BY <2>2, AddIsStorage DEF HostStoreBlock, SP!Next
  <2>3. CASE HostIndex(c)
    BY <2>3, AddIsStorage DEF HostIndex, SP!Next
  <2>4. CASE HostRaise(c)
    BY <2>4, AddIsStorage DEF HostRaise, SP!Next
  <2>5. CASE HostBalance(c)
    BY <2>5, AddIsStorage DEF HostBalance, SP!Next
  <2>6. CASE HostCancelMiner(c)
    <3>1. UNCHANGED <<adds, maxLevel>>
      BY <2>6 DEF HostCancelMiner, TestNil, TestLevel, Fire, Clear, storage
    <3>2. QED
      BY <3>1, StorageStutters
  <2>7. QED
    BY <1>5, <2>1, <2>2, <2>3, <2>4, <2>5, <2>6 DEF HostAddStep
<1>6. ASSUME NEW c \in Peer, NEW b \in Block, HostReceive(c, b)
      PROVE  [SP!Next]_(SP!vars)
  BY <1>6, CallIsStorage DEF HostReceive, SP!Next, Caller
<1>7. CASE UNCHANGED hostVars
  BY <1>7, StorageStutters DEF hostVars, vars, storage
<1>8. QED
  BY <1>1, <1>2, <1>3, <1>4, <1>5, <1>6, <1>7 DEF HostNext
----------------------------------------------------------------------------
(* What Host does to the miner is what Mining does *)

\* A step of Add is one of Mining or none: the level is raised to no less than
\* that of the block and never lowered.
LEMMA AddIsMining ==
  ASSUME HInv, NEW c \in Caller, HostAddStep(c)
  PROVE  AddStep(c) \/ UNCHANGED vars
<1> USE DEF vars, queue, watch, storage, calls, jobs
<1>1. CASE HostRefuse(c)
  BY <1>1 DEF HostRefuse, AddStep
<1>2. CASE HostStoreBlock(c)
  BY <1>2 DEF HostStoreBlock, AddStep, Refuse, ReturnFalse, contexts
<1>3. CASE HostIndex(c)
  BY <1>3 DEF HostIndex
<1>4. CASE HostRaise(c)
  <2>1. /\ pc[c] = "raise" /\ at[c] \in Block /\ adding[c] \in Block
        /\ level[c] = Level[adding[c]] /\ level[c] <= Level[at[c]]
    BY <1>4 DEF HostRaise, S!RaiseMaxLevel, HInv, Calls, SP!IInv, SP!Locals, SP!TypeOK
  <2>2. Level[at[c]] \in 0 .. MaxHeight /\ level[c] \in Nat
    BY <2>1, OwnAssumption, BlockTreeAssumption, MiningAssumption
  <2>3. maxLevel \in (0 .. MaxHeight) \cup {-1}
    BY DEF HInv, IInv, Places
  <2>4. maxLevel' = IF Level[at[c]] > maxLevel THEN Level[at[c]] ELSE maxLevel
    BY <1>4 DEF HostRaise, S!RaiseMaxLevel
  <2>5. maxLevel' \in maxLevel .. MaxHeight /\ level[c] <= maxLevel'
    BY <2>1, <2>2, <2>3, <2>4, MiningAssumption
  <2>6. Raise(c)
    BY <1>4, <2>5 DEF HostRaise, Raise
  <2>7. QED
    BY <2>6 DEF AddStep
<1>5. CASE HostBalance(c)
  <2>1. pc \in [Caller -> SP!Labels]
    BY DEF HInv, SP!IInv, SP!TypeOK
  <2>2. CASE S!ReadMaxLevel(c)
    <3>1. CASE maxLevel >= 0
      <4>1. pc'[c] = "pick" /\ maxLevel' = maxLevel
        BY <2>1, <2>2, <3>1 DEF S!ReadMaxLevel, S!Go, S!shared
      <4>2. QED
        BY <1>5, <4>1 DEF HostBalance
    <3>2. CASE ~(maxLevel >= 0)
      <4>1. pc'[c] = "idle" /\ maxLevel' = maxLevel
        BY <2>1, <2>2, <3>2 DEF S!ReadMaxLevel, S!Release, S!Return, S!Go, S!shared
      <4>2. QED
        BY <1>5, <4>1 DEF HostBalance, AddStep, Stored
    <3>3. QED
      BY <3>1, <3>2
  <2>3. CASE S!PickTop(c)
    <3>1. S!TopBlocks(top[c]) # {}
      BY <2>3 DEF S!PickTop, HInv, SP!IInv, SP!Picking, SP!TopBlocks, S!TopBlocks
    <3>2. pc'[c] = "idle" /\ maxLevel' = maxLevel
      BY <2>1, <2>3, <3>1 DEF S!PickTop, S!Release, S!Return, S!Go
    <3>3. QED
      BY <1>5, <3>2 DEF HostBalance, AddStep, Stored
  <2>4. QED
    BY <1>5, <2>2, <2>3 DEF HostBalance
<1>6. CASE HostCancelMiner(c)
  BY <1>6 DEF HostCancelMiner, AddStep
<1>7. QED
  BY <1>1, <1>2, <1>3, <1>4, <1>5, <1>6 DEF HostAddStep

\* Every step of the host is a step of Mining or none.
LEMMA StepIsMining ==
  ASSUME HInv, [HostNext]_hostVars
  PROVE  [Next]_vars
<1>1. CASE HostMinerStep \/ HostAnnounce
  BY <1>1 DEF HostMinerStep, HostTakeJob, HostMinerSignals, HostAnnounce, Next, MinerStep
<1>2. CASE HostFind
  BY <1>2 DEF HostFind, Next
<1>3. CASE HostWatcherStep \/ HostFetch
  BY <1>3 DEF HostWatcherStep, HostStatus, HostWatches, HostBuildTemplate, HostPut, HostFetch,
              Next, WatcherStep
<1>4. CASE HostControl
  BY <1>4 DEF HostControl, Next
<1>5. ASSUME NEW c \in Caller, HostAddStep(c)
      PROVE  [Next]_vars
  BY <1>5, AddIsMining DEF Next
<1>6. ASSUME NEW c \in Peer, NEW b \in Block, HostReceive(c, b)
      PROVE  [Next]_vars
  <2>1. Level[b] \in 0 .. MaxHeight
    BY OwnAssumption, BlockTreeAssumption, MiningAssumption
  <2>2. QED
    BY <1>6, <2>1 DEF HostReceive, Next
<1>7. CASE UNCHANGED hostVars
  BY <1>7 DEF hostVars
<1>8. QED
  BY <1>1, <1>2, <1>3, <1>4, <1>5, <1>6, <1>7 DEF HostNext
----------------------------------------------------------------------------
(* The blocks go with the levels *)

\* Where the jobs are, at each point of main and of the watcher.
LEMMA OneJobFacts ==
  ASSUME HInv
  PROVE  /\ Len(channel) \in Nat /\ Len(inChannel) = Len(channel)
         /\ Len(channel) > 0 => /\ Len(channel) = 1 /\ watcher \notin {"length", "top", "fetch", "put"}
                                /\ miner \in {"select", "stopped"}
         /\ channel # <<>> => Len(channel) > 0
<1>1. channel \in Seq(Levels)
  BY DEF HInv, IInv, Places
<1>2. Len(channel) \in Nat
  BY <1>1
<1>3. channel # <<>> => Len(channel) > 0
  BY <1>1
<1>4. ASSUME Len(channel) > 0
      PROVE  /\ Len(channel) = 1 /\ watcher \notin {"length", "top", "fetch", "put"}
             /\ miner \in {"select", "stopped"}
  <2> DEFINE queued  == Len(channel)
             mined   == IF miner \in {"select", "stopped"} THEN 0 ELSE 1
             watched == IF watcher \in {"length", "top", "fetch", "put"} THEN 1 ELSE 0
  <2>1. queued + mined + watched = 1
    BY DEF HInv, IInv, OneJob
  <2>2. queued \in Nat /\ queued > 0 /\ mined \in {0, 1} /\ watched \in {0, 1}
    BY <1>2, <1>4
  <2>3. queued = 1 /\ mined = 0 /\ watched = 0
    <3> HIDE DEF queued, mined, watched
    <3>1. QED
      BY <2>1, <2>2
  <2>4. QED
    BY <2>3
<1>5. QED
  BY <1>2, <1>3, <1>4 DEF HInv, Jobs

\* What is left of a channel with one element.
LEMMA TailOfOne ==
  ASSUME NEW T, NEW s \in Seq(T), Len(s) = 1
  PROVE  Tail(s) \in Seq(T) /\ Len(Tail(s)) = 0
<1>1. s # <<>>
  <2>1. s = <<>> => Len(s) = 0
    OBVIOUS
  <2> QED BY <2>1
<1>2. Tail(s) \in Seq(T)
  BY <1>1
<1>3. Len(Tail(s)) = Len(s) - 1
  BY <1>1
<1> QED BY <1>2, <1>3

\* Main and the watcher hand a block over with its level.
LEMMA JobsKept ==
  ASSUME HInv, HostMinerStep \/ HostAnnounce \/ HostWatcherStep \/ HostFetch
  PROVE  Jobs'
<1> USE DEF HInv, Jobs, MinerAt, WatcherAt
<1>1. CASE HostTakeJob
  <2>1. /\ Len(channel) = 1 /\ Len(inChannel) = 1 /\ watcher \notin {"fetch", "put"}
        /\ job' = channel[1] /\ solving' = inChannel[1]
        /\ channel' = Tail(channel) /\ inChannel' = Tail(inChannel)
        /\ draft' = draft /\ watcher' = watcher
    BY <1>1, OneJobFacts DEF HostTakeJob, TakeJob, watch
  <2>2. channel \in Seq(Levels) /\ inChannel \in Seq(Block \cup {NoBlock})
    BY DEF IInv, Places
  <2>3. Tail(channel) \in Seq(Levels) /\ Len(Tail(channel)) = 0
    BY <2>1, <2>2, TailOfOne
  <2>4. Tail(inChannel) \in Seq(Block \cup {NoBlock}) /\ Len(Tail(inChannel)) = 0
    BY <2>1, <2>2, TailOfOne
  <2>5. Matches(job, solving)'
    BY <2>1 DEF Matches
  <2>6. QED
    BY <2>1, <2>3, <2>4, <2>5
<1>2. CASE HostMinerSignals \/ HostAnnounce
  <2>1. /\ UNCHANGED <<inChannel, channel, solving, draft, watcher, template>>
        /\ miner' \in {"register", "solve"} => miner \in {"register", "solve"} /\ job' = job
    BY <1>2 DEF HostMinerSignals, Register, GiveUp, CallbackReturns, MinerStops,
                HostAnnounce, Announce, jobs, watch
  <2>2. QED
    BY <2>1 DEF Matches
<1>3. CASE HostStatus
  BY <1>3 DEF HostStatus, Status, Matches
<1>4. CASE HostWatches \/ HostFetch
  BY <1>4 DEF HostWatches, CheckLength, WatcherStops, HostFetch, Fetch, jobs, queue, Matches
<1>5. CASE HostBuildTemplate
  <2>1. PICK parent \in S!TopBlocks(maxLevel) :
             IF maxLevel = MaxHeight THEN draft' = NoBlock
             ELSE \E b \in Own \ blocks : Parent[b] = parent /\ draft' = b
    BY <1>5 DEF HostBuildTemplate
  <2>2. parent \in Block /\ Level[parent] = maxLevel
    BY <2>1 DEF S!TopBlocks, SP!IInv, SP!TypeOK
  <2>3. template' = maxLevel + 1 /\ maxLevel \in Nat
    BY <1>5, <2>2, BlockTreeAssumption DEF HostBuildTemplate, BuildTemplate
  <2>4. Matches(template, draft)' /\ draft' \in Block \cup {NoBlock}
    BY <2>1, <2>2, <2>3, BlockTreeAssumption, OwnAssumption, MiningAssumption DEF Matches
  <2>5. UNCHANGED <<inChannel, channel, solving, miner, job>>
    BY <1>5 DEF HostBuildTemplate, BuildTemplate, queue
  <2>6. QED
    BY <2>4, <2>5 DEF Matches
<1>6. CASE HostPut
  <2>1. /\ Len(channel) = 0 /\ Len(inChannel) = 0 /\ channel \in Seq(Levels)
        /\ channel' = Append(channel, template) /\ inChannel' = Append(inChannel, draft)
        /\ watcher' = "poll" /\ UNCHANGED <<miner, job, solving>>
        /\ watcher = "put"
    BY <1>6, OneJobFacts DEF HostPut, Put, IInv, Places
  <2>2. draft \in Block \cup {NoBlock} /\ template \in Levels /\ Matches(template, draft)
    BY <2>1 DEF IInv, Templates
  <2>3. /\ inChannel' \in Seq(Block \cup {NoBlock}) /\ Len(inChannel') = 1 /\ Len(channel') = 1
        /\ channel'[1] = template /\ inChannel'[1] = draft
    BY <2>1, <2>2
  <2>4. QED
    BY <2>1, <2>2, <2>3 DEF Matches
<1>7. QED
  BY <1>1, <1>2, <1>3, <1>4, <1>5, <1>6 DEF HostMinerStep, HostWatcherStep


\* A call of Add goes on with its block, and UpdateChild goes up: a child is
\* higher than its parent.
LEMMA CallsKept ==
  ASSUME HInv, NEW c \in Caller, HostAddStep(c)
  PROVE  Calls'
<1>1. /\ pc \in [Caller -> SP!Labels] /\ DOMAIN call = Caller /\ DOMAIN level = Caller
      /\ adding \in [Caller -> Block \cup {NoBlock}] /\ at \in [Caller -> Block \cup {NoBlock}]
      /\ Calls
  BY DEF HInv, IInv, Places, SP!IInv, SP!TypeOK
<1> USE <1>1 DEF Calls, S!Go, S!shared, S!money
<1>2. CASE HostRefuse(c)
  BY <1>2 DEF HostRefuse, Refuse, ReturnFalse, Return, At, S!Refuse, S!Return
<1>3. CASE HostStoreBlock(c)
  BY <1>3 DEF HostStoreBlock, ReturnFalse, Return, At, S!StoreBlock, S!Return, calls
<1>4. CASE HostIndex(c)
  <2>1. UNCHANGED <<call, level, adding>> /\ call[c] \in {"store", "raised"}
    BY <1>4 DEF HostIndex, vars, calls, CallAt, S!IndexLevel, S!LinkParent, S!CheckParent,
                S!MarkVerified, S!Descend, S!LockBalance
  <2>2. CASE S!CheckParent(c)
    BY <2>1, <2>2, BlockTreeAssumption DEF S!CheckParent, HInv, SP!IInv, SP!Locals
  <2>3. CASE S!Descend(c)
    <3>1. at[c] \in Block /\ Level[at[c]] \in Nat /\ level[c] <= Level[at[c]]
      BY <2>3, BlockTreeAssumption DEF S!Descend, HInv, SP!IInv, SP!Locals, SP!TypeOK
    <3>2. child[at[c]] # NoBlock =>
            child[at[c]] \in Block /\ Parent[child[at[c]]] = at[c]
      BY <3>1 DEF HInv, SP!IInv, SP!Children, SP!TypeOK
    <3>3. child[at[c]] # NoBlock => Level[child[at[c]]] = Level[at[c]] + 1
      BY <3>1, <3>2, BlockTreeAssumption
    <3>4. level[c] = Level[adding[c]] /\ level[c] \in Nat
      BY <2>3, BlockTreeAssumption DEF S!Descend, HInv, SP!IInv, SP!Locals
    <3>5. QED
      BY <2>1, <2>3, <3>1, <3>3, <3>4 DEF S!Descend
  <2>4. CASE S!IndexLevel(c) \/ S!LinkParent(c) \/ S!MarkVerified(c) \/ S!LockBalance(c)
    BY <2>1, <2>4 DEF S!IndexLevel, S!LinkParent, S!MarkVerified, S!LockBalance
  <2>5. QED
    BY <1>4, <2>2, <2>3, <2>4 DEF HostIndex
<1>5. CASE HostRaise(c)
  BY <1>5 DEF HostRaise, At, S!RaiseMaxLevel
<1>6. CASE HostBalance(c)
  BY <1>6 DEF HostBalance, At, CallAt, S!ReadMaxLevel, S!PickTop, S!Release, S!Return
<1>7. CASE HostCancelMiner(c)
  BY <1>7 DEF HostCancelMiner, TestNil, TestLevel, Fire, Clear, CallAt, Return, At, adds
<1>8. QED
  BY <1>2, <1>3, <1>4, <1>5, <1>6, <1>7, HostAddStep(c) DEF HostAddStep

\* Every step keeps the invariant.
LEMMA NextHInv == HInv /\ [HostNext]_hostVars => HInv'
<1> SUFFICES ASSUME HInv, [HostNext]_hostVars PROVE HInv'
  OBVIOUS
<1>1. IInv'
  BY StepIsMining, NextIInv DEF HInv
<1>2. SP!IInv'
  BY StepIsStorage, SP!NextIInv, StorageAssumptions DEF HInv
<1>3. ASSUME HostMinerStep \/ HostAnnounce \/ HostWatcherStep \/ HostFetch
      PROVE  (Jobs /\ Calls)'
  <2>1. UNCHANGED <<adds, calls>>
    BY <1>3 DEF HostMinerStep, HostTakeJob, HostMinerSignals, TakeJob, Register, GiveUp,
                CallbackReturns, MinerStops, HostWatcherStep, HostStatus, HostWatches,
                HostBuildTemplate, HostPut, Status, WatcherStops, CheckLength, BuildTemplate, Put,
                HostAnnounce, Announce, HostFetch, Fetch
  <2>2. Calls'
    BY <2>1 DEF HInv, Calls, adds, calls
  <2>3. QED
    BY <1>3, <2>2, JobsKept
<1>4. ASSUME HostFind
      PROVE  (Jobs /\ Calls)'
  <2>1. UNCHANGED <<channel, job, watcher, template, jobs>> /\ miner' = "callback"
    BY <1>4 DEF HostFind, Find, watch
  <2>2. Jobs'
    BY <2>1 DEF HInv, Jobs, jobs, Matches
  <2>3. solving \in Block /\ Level[solving] = job
    BY <1>4 DEF HostFind, Find, MinerAt, HInv, Jobs, Matches
  <2>4. Calls'
    BY <1>4, <2>3 DEF HostFind, Find, S!Call, S!Go, HInv, Calls, IInv, Places, SP!IInv, SP!TypeOK
  <2>5. QED
    BY <2>2, <2>4
<1>5. ASSUME HostControl
      PROVE  (Jobs /\ Calls)'
  BY <1>5 DEF HostControl, Cancel, Stop, Close, watch, calls, adds, jobs, HInv, Jobs, Calls, Matches
<1>6. ASSUME NEW c \in Caller, HostAddStep(c)
      PROVE  (Jobs /\ Calls)'
  <2>1. /\ UNCHANGED <<channel, job, watcher, template, jobs>>
        /\ miner' \in {miner, "signal"}
    BY <1>6 DEF HostAddStep, HostRefuse, Refuse, ReturnFalse, HostStoreBlock, HostIndex,
                HostRaise, HostBalance, HostCancelMiner, TestNil, TestLevel, Fire, Clear,
                vars, queue, watch
  <2>2. Jobs'
    BY <2>1 DEF HInv, Jobs, jobs, Matches
  <2>3. QED
    BY <1>6, <2>2, CallsKept
<1>7. ASSUME NEW c \in Peer, NEW b \in Block, HostReceive(c, b)
      PROVE  (Jobs /\ Calls)'
  <2>1. UNCHANGED <<channel, miner, job, watcher, template, jobs>>
    BY <1>7 DEF HostReceive, Receive, queue, watch
  <2>2. Jobs'
    BY <2>1 DEF HInv, Jobs, jobs, Matches
  <2>3. Calls'
    BY <1>7 DEF HostReceive, Receive, At, S!Call, S!Go, HInv, Calls, IInv, Places, SP!IInv, SP!TypeOK
  <2>4. QED
    BY <2>2, <2>3
<1>8. ASSUME UNCHANGED hostVars
      PROVE  (Jobs /\ Calls)'
  BY <1>8 DEF hostVars, vars, queue, watch, calls, adds, jobs, HInv, Jobs, Calls, Matches
<1>9. (Jobs /\ Calls)'
  BY <1>3, <1>4, <1>5, <1>6, <1>7, <1>8 DEF HostNext
<1>10. QED
  BY <1>1, <1>2, <1>9 DEF HInv

\* HInv is an invariant of the host.
THEOREM HostInvariant == HostSpec => []HInv
BY InitHInv, NextHInv, PTL DEF HostSpec
----------------------------------------------------------------------------
\* The host does to its storage what Storage says of an Add, by whatever the
\* miner and the peers interleave: the theorems of StorageProofs hold in it.
THEOREM HostRunsStorage == HostSpec => SP!Spec
<1>1. HostInit => SP!Init
  BY DEF HostInit, S!Init, SP!Init
<1>2. HInv /\ [HostNext]_hostVars => [SP!Next]_(SP!vars)
  BY StepIsStorage
<1>3. QED
  BY <1>1, <1>2, HostInvariant, PTL DEF HostSpec, SP!Spec

\* What Mining assumes of the storage is so: an Add raises the level at most
\* once, never lowers it, and to no less than the level of its block.
THEOREM MiningImplemented == HostSpec => ImplementsMining
<1>1. HostInit => Init
  BY DEF HostInit
<1>2. HInv /\ [HostNext]_hostVars => [Next]_vars
  BY StepIsMining
<1>3. QED
  BY <1>1, <1>2, HostInvariant, PTL DEF HostSpec, ImplementsMining, Spec

\* With the real storage below it the host has one job, and after Stop the
\* running one is cancelled.
THEOREM HostJobs == HostSpec => [](OneJob /\ StopCancels)
<1>1. IInv => OneJob /\ StopCancels
  BY DEF IInv, Closing, StopCancels
<1>2. HInv => IInv
  BY DEF HInv
<1>3. QED
  BY <1>1, <1>2, HostInvariant, PTL

\* With the real storage below it too, the process dies of a nil cancel function
\* only if two calls of Add overlap.
THEOREM HostCrashNeedsTwo == HostSpec => NilTakesTwo
BY CrashNeedsTwo, MiningImplemented, PTL DEF ImplementsMining
----------------------------------------------------------------------------
(* The blocks a host signs *)

\* A block to come: nothing the host has stored of its own is as high, and the
\* parent it is built on is verified.
Verifiable(b) == IsGenesis(b) \/ Parent[b] \in verified

Fresh(b) == /\ b \in Own /\ Verifiable(b)
            /\ \A x \in Own \cap blocks : Level[x] < Level[b]

\* The jobs below the bound are such blocks.
JobsFresh ==
  /\ Len(channel) > 0 /\ channel[1] <= MaxHeight => Fresh(inChannel[1])
  /\ miner \in {"register", "solve"} /\ job <= MaxHeight => Fresh(solving)
  /\ watcher \in {"fetch", "put"} /\ template <= MaxHeight => Fresh(draft)

\* What the Add of the callback has done at each of its points.
Counting == pc[Miner] \in {"lock", "read", "pick"}
Counted  == call[Miner] \in {"nil", "level", "fire", "clear"}

Progress ==
  /\ pc[Miner] # "idle" => adding[Miner] = solving /\ Verifiable(solving)
  /\ pc[Miner] = "store" => Fresh(solving)
  /\ pc[Miner] = "mark" => at[Miner] = solving \/ solving \in verified
  /\ pc[Miner] \in {"descend", "raise"} \/ Counting \/ Counted => solving \in verified
  /\ Counting \/ Counted => Level[solving] <= maxLevel
  /\ pc[Miner] = "pick" => Level[solving] <= top[Miner]
  /\ Counted => Height(shown) >= Level[solving]

\* The blocks of the host in its storage are below the top, the one it is about
\* to count excepted; a peer only sends those back.
OwnStored ==
  /\ \A x \in Own \cap blocks :
       Level[x] <= maxLevel \/ (x = solving /\ pc[Miner] # "idle")
  /\ \A c \in Peer : pc[c] # "idle" /\ adding[c] \in Own => adding[c] \in blocks

OInv == HInv /\ JobsFresh /\ Progress /\ OwnStored
----------------------------------------------------------------------------
\* The genesis block is the first.
LEMMA InitOInv == HostInit => OInv
<1> SUFFICES ASSUME HostInit PROVE OInv
  OBVIOUS
<1>1. Genesis \in Own /\ IsGenesis(Genesis)
  BY OwnAssumption DEF Genesis
<1>2. SP!Init
  BY DEF HostInit, S!Init, SP!Init
<1>3. JobsFresh
  BY <1>1, <1>2 DEF HostInit, Init, JobsFresh, Fresh, Verifiable, SP!Init
<1>4. Progress
  BY <1>2 DEF HostInit, Init, Progress, Counting, Counted, SP!Init, Caller
<1>5. OwnStored
  BY <1>2 DEF OwnStored, SP!Init, Caller
<1>6. QED
  BY <1>3, <1>4, <1>5, InitHInv DEF OInv

\* The types of HInv that every proof below needs.
LEMMA HostTypes ==
  ASSUME HInv
  PROVE  /\ pc \in [Caller -> SP!Labels]
         /\ call \in [Caller -> {"idle", "store", "raised", "nil", "level", "fire", "clear"}]
         /\ adding \in [Caller -> Block \cup {NoBlock}]
         /\ at \in [Caller -> Block \cup {NoBlock}]
         /\ top \in [Caller -> Nat \cup {-1}] /\ level \in [Caller -> Levels \cup {-1}]
         /\ maxLevel \in Nat \cup {-1} /\ shown \in Block \cup {NoBlock}
         /\ blocks \subseteq Block /\ verified \subseteq blocks
         /\ Miner \in Caller /\ Own \subseteq Block /\ Caller = Peer \cup {Miner} /\ Miner \notin Peer
BY OwnAssumption, MiningAssumption
   DEF HInv, IInv, Places, SP!IInv, SP!TypeOK, SP!VerifiedChains, Caller

\* No step takes a block, a verification or a level back.
LEMMA NothingLost ==
  ASSUME HInv, [HostNext]_hostVars
  PROVE  /\ blocks \subseteq blocks' /\ verified \subseteq verified'
         /\ maxLevel <= maxLevel' /\ Height(shown) <= Height(shown')
<1>1. [SP!Next]_(SP!vars) /\ SP!IInv
  BY StepIsStorage DEF HInv
<1>2. SP!Height(shown) <= SP!Height(shown')
  <2>1. SP!Height(shown) \in Nat \cup {-1}
    BY HostTypes, SP!HeightType, StorageAssumptions
  <2>2. QED
    BY <1>1, <2>1, SP!ShownStep, StorageAssumptions
<1>3. blocks \subseteq blocks' /\ verified \subseteq verified' /\ maxLevel <= maxLevel'
  <2> USE HostTypes, BlockTreeAssumption DEF SP!Go, SP!Return, SP!Release, SP!shared, SP!money
  <2>1. ASSUME NEW c \in Caller, SP!Step(c)
        PROVE  blocks \subseteq blocks' /\ verified \subseteq verified' /\ maxLevel <= maxLevel'
    <3>1. CASE SP!RaiseMaxLevel(c)
      <4>1. Level[at[c]] \in Nat
        BY <3>1, <1>1 DEF SP!RaiseMaxLevel, SP!IInv, SP!Locals
      <4>2. QED
        BY <3>1, <4>1 DEF SP!RaiseMaxLevel
    <3>2. CASE SP!PickTop(c)
      <4>1. SP!TopBlocks(top[c]) # {}
        BY <3>2, <1>1 DEF SP!PickTop, SP!IInv, SP!Picking
      <4>2. QED
        BY <3>2, <4>1 DEF SP!PickTop
    <3>3. CASE \/ SP!Refuse(c) \/ SP!StoreBlock(c) \/ SP!IndexLevel(c) \/ SP!LinkParent(c)
               \/ SP!CheckParent(c) \/ SP!MarkVerified(c) \/ SP!Descend(c)
               \/ SP!LockBalance(c) \/ SP!ReadMaxLevel(c)
      BY <3>3 DEF SP!Refuse, SP!StoreBlock, SP!IndexLevel, SP!LinkParent, SP!CheckParent,
                  SP!MarkVerified, SP!Descend, SP!LockBalance, SP!ReadMaxLevel
    <3>4. QED
      BY <2>1, <3>1, <3>2, <3>3 DEF SP!Step
  <2>2. ASSUME NEW c \in Caller, NEW b \in Block, SP!Call(c, b)
        PROVE  blocks \subseteq blocks' /\ verified \subseteq verified' /\ maxLevel <= maxLevel'
    BY <2>2 DEF SP!Call
  <2>3. CASE UNCHANGED SP!vars
    BY <2>3 DEF SP!vars
  <2>4. QED
    BY <1>1, <2>1, <2>2, <2>3 DEF SP!Next
<1>4. QED
  BY <1>2, <1>3 DEF SP!Height, Height

\* A block of the host is new to its storage only where its own Add stores it.
LEMMA OwnNew ==
  ASSUME OInv, [HostNext]_hostVars
  PROVE  \/ Own \cap blocks' = Own \cap blocks
         \/ /\ HostStoreBlock(Miner) /\ pc[Miner] = "store" /\ solving \notin blocks
            /\ blocks' = blocks \cup {solving}
<1> USE HostTypes DEF OInv
<1>1. ASSUME NEW c \in Caller, HostAddStep(c)
      PROVE  \/ Own \cap blocks' = Own \cap blocks
             \/ /\ HostStoreBlock(Miner) /\ pc[Miner] = "store" /\ solving \notin blocks
                /\ blocks' = blocks \cup {solving}
  <2>1. CASE HostStoreBlock(c)
    <3>1. pc[c] = "store" /\ blocks' = blocks \cup {adding[c]}
      BY <2>1 DEF HostStoreBlock, S!StoreBlock, S!shared
    <3>2. CASE c = Miner
      BY <2>1, <3>1, <3>2 DEF Progress
    <3>3. CASE c \in Peer
      BY <3>1, <3>3 DEF OwnStored
    <3>4. QED
      BY <3>2, <3>3
  <2>2. CASE HostRefuse(c) \/ HostIndex(c) \/ HostRaise(c) \/ HostBalance(c) \/ HostCancelMiner(c)
    <3>1. blocks' = blocks
      BY <2>2 DEF HostRefuse, HostIndex, HostRaise, HostBalance, HostCancelMiner, adds,
                  S!Refuse, S!IndexLevel, S!LinkParent, S!CheckParent, S!MarkVerified, S!Descend,
                  S!LockBalance, S!RaiseMaxLevel, S!ReadMaxLevel, S!PickTop, S!shared
    <3>2. QED
      BY <3>1
  <2>3. QED
    BY <1>1, <2>1, <2>2 DEF HostAddStep
<1>2. ASSUME \/ HostMinerStep \/ HostFind \/ HostAnnounce \/ HostWatcherStep \/ HostFetch
             \/ HostControl \/ UNCHANGED hostVars
             \/ \E c \in Peer, b \in Block : HostReceive(c, b)
      PROVE  blocks' = blocks
  BY <1>2 DEF HostMinerStep, HostTakeJob, HostMinerSignals, HostFind, HostWatcherStep, HostStatus,
              HostWatches, HostBuildTemplate, HostPut, HostAnnounce, HostFetch, HostControl,
              HostReceive, S!Call, S!shared, hostVars, adds
<1>3. QED
  BY <1>1, <1>2 DEF HostNext

\* A block to come stays one.
LEMMA FreshKept ==
  ASSUME HInv, [HostNext]_hostVars, Own \cap blocks' = Own \cap blocks, NEW b, Fresh(b)
  PROVE  /\ b \in Own /\ (IsGenesis(b) \/ Parent[b] \in verified')
         /\ \A x \in Own \cap blocks' : Level[x] < Level[b]
BY NothingLost DEF Fresh, Verifiable

\* While the callback is in Add no other job is about.
LEMMA Alone ==
  ASSUME OInv
  PROVE  /\ pc[Miner] # "idle" => call[Miner] \in {"store", "raised"}
         /\ call[Miner] # "idle" => miner = "callback"
         /\ miner = "callback" => Len(channel) = 0 /\ watcher \notin {"length", "top", "fetch", "put"}
         /\ watcher \in {"length", "top", "fetch", "put"} =>
              miner \in {"select", "stopped"} /\ Len(channel) = 0
<1>1. Len(channel) \in Nat
  BY OneJobFacts DEF OInv
<1>2. miner = "callback" => Len(channel) = 0 /\ watcher \notin {"length", "top", "fetch", "put"}
  <2>1. SUFFICES ASSUME miner = "callback"
                 PROVE  Len(channel) = 0 /\ watcher \notin {"length", "top", "fetch", "put"}
    OBVIOUS
  <2> DEFINE queued == Len(channel)
  <2>2. queued + 1 + (IF watcher \in {"length", "top", "fetch", "put"} THEN 1 ELSE 0) = 1
    BY <2>1 DEF OInv, HInv, IInv, OneJob
  <2>3. queued \in Nat
    BY <1>1
  <2>4. QED
    <3> HIDE DEF queued
    <3>1. queued = 0 /\ watcher \notin {"length", "top", "fetch", "put"}
      BY <2>2, <2>3
    <3>2. QED
      BY <3>1 DEF queued
<1>3. watcher \in {"length", "top", "fetch", "put"} => miner \in {"select", "stopped"} /\ Len(channel) = 0
  <2>1. SUFFICES ASSUME watcher \in {"length", "top", "fetch", "put"}
                 PROVE  miner \in {"select", "stopped"} /\ Len(channel) = 0
    OBVIOUS
  <2> DEFINE queued == Len(channel)
  <2>2. queued + (IF miner \in {"select", "stopped"} THEN 0 ELSE 1) + 1 = 1
    BY <2>1 DEF OInv, HInv, IInv, OneJob
  <2>3. queued \in Nat
    BY <1>1
  <2>4. QED
    <3> HIDE DEF queued
    <3>1. queued = 0 /\ miner \in {"select", "stopped"}
      BY <2>2, <2>3
    <3>2. QED
      BY <3>1 DEF queued
<1>4. /\ pc[Miner] # "idle" => call[Miner] \in {"store", "raised"}
      /\ call[Miner] # "idle" => miner = "callback"
  BY HostTypes DEF OInv, HInv, IInv, InCallback, Calls
<1>5. QED
  BY <1>2, <1>3, <1>4

\* The jobs on their way stay blocks to come.
LEMMA JobsFreshKept ==
  ASSUME OInv, [HostNext]_hostVars
  PROVE  JobsFresh'
<1> USE HostTypes DEF MinerAt, WatcherAt, OInv
<1>1. CASE HostStoreBlock(Miner)
  <2>1. /\ UNCHANGED <<channel, watcher>> /\ miner = "callback"
        /\ miner' \in {miner, "signal"}
    BY <1>1, Alone DEF HostStoreBlock, CallAt, ReturnFalse, queue, watch
  <2>2. QED
    BY <2>1, Alone DEF JobsFresh
<1>2. CASE Own \cap blocks' = Own \cap blocks
  <2>1. \A b : Fresh(b) => /\ b \in Own /\ (IsGenesis(b) \/ Parent[b] \in verified')
                          /\ \A x \in Own \cap blocks' : Level[x] < Level[b]
    BY <1>2, FreshKept
  <2>2. CASE HostTakeJob
    <3>1. /\ channel \in Seq(Levels) /\ inChannel \in Seq(Block \cup {NoBlock})
          /\ Len(channel) = 1 /\ Len(inChannel) = 1 /\ watcher \notin {"fetch", "put"}
      BY <2>2, OneJobFacts DEF HostTakeJob, TakeJob, HInv, IInv, Places, Jobs
    <3>2. /\ job' = Head(channel) /\ solving' = Head(inChannel) /\ channel' = Tail(channel)
          /\ watcher' = watcher
      BY <2>2 DEF HostTakeJob, TakeJob, watch
    <3>3. job' = channel[1] /\ solving' = inChannel[1] /\ Len(channel') = 0
      BY <3>1, <3>2
    <3>4. job' <= MaxHeight => Fresh(solving')
      BY <3>1, <3>3 DEF JobsFresh
    <3>5. job' <= MaxHeight => Fresh(solving)'
      BY <2>1, <3>4 DEF Fresh, Verifiable
    <3>6. QED
      BY <3>1, <3>2, <3>3, <3>5 DEF JobsFresh
  <2>3. CASE HostPut
    <3>1. /\ Len(channel) = 0 /\ Len(inChannel) = 0 /\ watcher = "put"
          /\ channel' = Append(channel, template) /\ inChannel' = Append(inChannel, draft)
          /\ watcher' = "poll" /\ UNCHANGED <<miner, job, solving>>
      BY <2>3, OneJobFacts DEF HostPut, Put
    <3>2. /\ channel \in Seq(Levels) /\ inChannel \in Seq(Block \cup {NoBlock})
          /\ template \in Levels /\ draft \in Block \cup {NoBlock}
      BY <3>1 DEF HInv, IInv, Places, Templates, Jobs
    <3>3. channel'[1] = template /\ inChannel'[1] = draft
      BY <3>1, <3>2
    <3>4. QED
      BY <2>1, <3>1, <3>3 DEF JobsFresh, Fresh, Verifiable
  <2>4. CASE HostBuildTemplate
    <3>1. watcher = "top" /\ watcher' = "fetch" /\ template' = maxLevel + 1 /\ maxLevel \in Nat
      BY <2>4 DEF HostBuildTemplate, BuildTemplate
    <3>2. PICK parent \in S!TopBlocks(maxLevel) :
               IF maxLevel = MaxHeight THEN draft' = NoBlock
               ELSE \E b \in Own \ blocks : Parent[b] = parent /\ draft' = b
      BY <2>4 DEF HostBuildTemplate
    <3>3. parent \in verified /\ parent \in Block /\ Level[parent] = maxLevel
      BY <3>2 DEF S!TopBlocks
    <3>4. \A x \in Own \cap blocks : Level[x] <= maxLevel
      BY <3>1, Alone DEF OwnStored
    <3>5. UNCHANGED <<inChannel, channel, solving, miner, job, blocks, verified>>
      BY <2>4 DEF HostBuildTemplate, BuildTemplate, queue, adds
    <3>6. ASSUME template' <= MaxHeight PROVE Fresh(draft)'
      <4>1. draft' \in Own /\ Parent[draft'] = parent
        BY <3>1, <3>2, <3>6, MiningAssumption
      <4>2. Level[draft'] = maxLevel + 1
        BY <3>3, <4>1, BlockTreeAssumption
      <4>3. \A x \in Own \cap blocks : Level[x] < Level[draft']
        <5>1. \A x \in Own \cap blocks : Level[x] \in Nat
          BY BlockTreeAssumption
        <5>2. QED
          BY <3>1, <3>4, <4>2, <5>1
      <4>4. QED
        BY <3>3, <3>5, <4>1, <4>3 DEF Fresh, Verifiable
    <3>7. watcher' = "fetch" /\ Len(channel) = 0 /\ miner \in {"select", "stopped"}
      BY <3>1, Alone
    <3>8. QED
      BY <3>5, <3>6, <3>7 DEF JobsFresh
  <2>5. ASSUME \/ HostMinerSignals \/ HostFind \/ HostAnnounce
               \/ HostStatus \/ HostWatches \/ HostFetch \/ HostControl
               \/ UNCHANGED hostVars \/ \E c \in Caller : HostAddStep(c)
               \/ \E c \in Peer, b \in Block : HostReceive(c, b)
        PROVE  JobsFresh'
    <3>1. /\ UNCHANGED <<channel, inChannel, draft, template>>
          /\ miner' \in {"register", "solve"} =>
               miner \in {"register", "solve"} /\ UNCHANGED <<job, solving>>
          /\ watcher' \in {"fetch", "put"} => watcher \in {"fetch", "put"}
      BY <2>5 DEF HostMinerSignals, Register, GiveUp, CallbackReturns, MinerStops, HostFind, Find,
                  HostStatus, Status, HostWatches, CheckLength, WatcherStops, HostControl, Cancel, Stop,
                  Close, HostAnnounce, Announce, HostFetch, Fetch,
                  HostAddStep, HostRefuse, Refuse, ReturnFalse, HostStoreBlock, HostIndex, HostRaise, HostBalance,
                  HostCancelMiner, TestNil, TestLevel, Fire, Clear, HostReceive, Receive,
                  hostVars, vars, queue, watch, jobs
    <3>2. QED
      BY <2>1, <3>1 DEF JobsFresh, Fresh, Verifiable
  <2>6. QED
    BY <2>2, <2>3, <2>4, <2>5 DEF HostNext, HostMinerStep, HostWatcherStep
<1>3. QED
  BY <1>1, <1>2, OwnNew

\* Where the callback is in Add.
MinerInAdd == <<pc[Miner], call[Miner], adding[Miner], at[Miner], top[Miner]>>

\* Only the callback begins an Add of main, and only its own steps go on with it.
LEMMA WhoMoves ==
  ASSUME HInv, [HostNext]_hostVars
  PROVE  HostFind \/ HostAddStep(Miner) \/ UNCHANGED MinerInAdd
<1> USE HostTypes DEF MinerInAdd, S!Go, S!Return, S!shared, S!money, At, Return
<1>1. ASSUME NEW c \in Peer, HostAddStep(c) PROVE UNCHANGED MinerInAdd
  <2>1. c # Miner
    OBVIOUS
  <2> USE <2>1
  <2>2. CASE HostRefuse(c)
    BY <2>2 DEF HostRefuse, Refuse, ReturnFalse, S!Refuse
  <2>3. CASE HostStoreBlock(c)
    BY <2>3 DEF HostStoreBlock, ReturnFalse, S!StoreBlock, calls
  <2>4. CASE HostIndex(c)
    BY <2>4 DEF HostIndex, vars, calls, S!IndexLevel, S!LinkParent, S!CheckParent, S!MarkVerified,
                S!Descend, S!LockBalance
  <2>5. CASE HostRaise(c)
    BY <2>5 DEF HostRaise, S!RaiseMaxLevel
  <2>6. CASE HostBalance(c)
    BY <2>6 DEF HostBalance, S!ReadMaxLevel, S!PickTop, S!Release
  <2>7. CASE HostCancelMiner(c)
    BY <2>7 DEF HostCancelMiner, TestNil, TestLevel, Fire, Clear, adds
  <2>8. QED
    BY <1>1, <2>2, <2>3, <2>4, <2>5, <2>6, <2>7 DEF HostAddStep
<1>2. ASSUME NEW c \in Peer, NEW b \in Block, HostReceive(c, b) PROVE UNCHANGED MinerInAdd
  BY <1>2 DEF HostReceive, Receive, S!Call
<1>3. CASE \/ HostMinerStep \/ HostAnnounce \/ HostWatcherStep \/ HostFetch
           \/ HostControl \/ UNCHANGED hostVars
  BY <1>3 DEF HostMinerStep, HostTakeJob, TakeJob, HostMinerSignals, Register, GiveUp, CallbackReturns,
              MinerStops, HostWatcherStep, HostStatus, Status, HostWatches, CheckLength, WatcherStops,
              HostBuildTemplate, BuildTemplate, HostPut, Put, HostAnnounce, Announce,
              HostFetch, Fetch, HostControl, Cancel, Stop, Close, hostVars, vars, calls, adds
<1>4. QED
  BY <1>1, <1>2, <1>3 DEF HostNext

\* Main stays with the block it adds.
LEMMA Stays ==
  ASSUME OInv, [HostNext]_hostVars, call[Miner] # "idle"
  PROVE  solving' = solving
<1>1. miner = "callback"
  BY Alone
<1>2. QED
  BY <1>1 DEF HostNext, HostMinerStep, HostTakeJob, TakeJob, HostMinerSignals, Register, GiveUp,
      CallbackReturns, MinerStops, HostFind, Find, HostWatcherStep, HostStatus, Status, HostWatches,
      CheckLength, WatcherStops, HostBuildTemplate, BuildTemplate, HostPut, Put, HostControl,
      Cancel, Stop, Close, HostAnnounce, HostFetch,
      HostAddStep, HostRefuse, Refuse, HostStoreBlock, HostIndex, HostRaise,
      HostBalance, HostCancelMiner, TestNil, TestLevel, Fire, Clear, HostReceive, Receive,
      hostVars, vars, queue, jobs, MinerAt

\* The steps of others undo nothing of what the Add of the callback has done.
LEMMA StillProgress ==
  ASSUME OInv, [HostNext]_hostVars, UNCHANGED MinerInAdd
  PROVE  Progress'
<1> USE HostTypes DEF OInv, MinerInAdd
<1>1. pc'[Miner] = pc[Miner] /\ call'[Miner] = call[Miner] /\ adding'[Miner] = adding[Miner]
      /\ at'[Miner] = at[Miner] /\ top'[Miner] = top[Miner]
  OBVIOUS
<1>2. CASE call[Miner] = "idle"
  <2>1. pc[Miner] = "idle"
    BY <1>2, Alone
  <2>2. QED
    BY <1>1, <1>2, <2>1 DEF Progress, Counting, Counted
<1>3. CASE call[Miner] # "idle"
  <2>1. solving' = solving
    BY <1>3, Stays
  <2>2. verified \subseteq verified' /\ maxLevel <= maxLevel' /\ Height(shown) <= Height(shown')
    BY NothingLost
  <2>3. pc[Miner] = "store" => Fresh(solving)'
    <3>1. SUFFICES ASSUME pc[Miner] = "store" PROVE Fresh(solving)'
      OBVIOUS
    <3>2. ~HostStoreBlock(Miner) \/ blocks' = blocks
      BY <1>1, <3>1 DEF HostStoreBlock, S!StoreBlock, S!Go, S!Return, S!shared
    <3>3. Own \cap blocks' = Own \cap blocks
      BY <3>2, OwnNew
    <3>4. Fresh(solving)
      BY <3>1 DEF Progress
    <3>5. QED
      BY <2>1, <3>3, <3>4, FreshKept DEF Fresh, Verifiable
  <2>4. maxLevel' \in Int /\ maxLevel \in Int /\ Height(shown) \in Int /\ Height(shown') \in Int
    <3>1. HInv'
      BY NextHInv
    <3>2. maxLevel' \in Nat \cup {-1} /\ shown' \in Block \cup {NoBlock}
      BY <3>1 DEF HInv, SP!IInv, SP!TypeOK
    <3>3. QED
      BY <3>2, BlockTreeAssumption DEF Height
  <2>5. (Counting \/ Counted) => solving \in Block /\ Level[solving] \in Nat
    BY BlockTreeAssumption DEF Progress
  <2>6. /\ Verifiable(solving) => Verifiable(solving)'
        /\ Counting' <=> Counting
        /\ Counted' <=> Counted
    BY <1>1, <2>1, <2>2 DEF Verifiable, Counting, Counted
  <2>7. Counting \/ Counted => Level[solving] <= maxLevel'
    BY <2>2, <2>4, <2>5 DEF Progress
  <2>8. Counted => Height(shown') >= Level[solving]
    BY <2>2, <2>4, <2>5 DEF Progress
  <2>9. QED
    BY <1>1, <2>1, <2>2, <2>3, <2>6, <2>7, <2>8 DEF Progress
<1>4. QED
  BY <1>2, <1>3

\* Each step of the callback's own Add takes its block one step further.
LEMMA OwnProgress ==
  ASSUME OInv, [HostNext]_hostVars, HostAddStep(Miner)
  PROVE  Progress'
<1> USE HostTypes DEF OInv, Counting, Counted
<1> DEFINE b == solving
<1>1. HInv' /\ verified \subseteq verified' /\ maxLevel <= maxLevel'
  BY NextHInv, NothingLost
<1>2. solving' = solving
  <2>1. call[Miner] # "idle"
    BY Alone DEF HostAddStep, HostRefuse, Refuse, HostStoreBlock, HostIndex, HostRaise, HostBalance,
                 HostCancelMiner, TestNil, TestLevel, Fire, Clear, CallAt
  <2>2. QED
    BY <2>1, Stays
<1>3. pc[Miner] # "idle" => /\ b \in Block /\ Level[b] \in Nat /\ adding[Miner] = b
                           /\ Verifiable(b) /\ level[Miner] = Level[b]
  BY BlockTreeAssumption DEF Progress, HInv, Calls, SP!IInv, SP!Locals
<1> USE <1>2, <1>3 DEF Progress, S!Go, S!Return, S!shared, S!money
<1>4. CASE HostRefuse(Miner)
  BY <1>4 DEF HostRefuse, S!Refuse, Refuse, ReturnFalse, Return, At
<1>5. CASE HostStoreBlock(Miner)
  BY <1>5 DEF HostStoreBlock, S!StoreBlock, ReturnFalse, Return, At, CallAt, calls, Verifiable
<1>6. CASE HostIndex(Miner)
  <2>1. UNCHANGED call /\ call[Miner] \in {"store", "raised"} /\ UNCHANGED <<maxLevel, adding>>
    BY <1>6 DEF HostIndex, vars, calls, storage, CallAt, S!IndexLevel, S!LinkParent, S!CheckParent,
                S!MarkVerified, S!Descend, S!LockBalance
  <2> USE <2>1
  <2>2. CASE S!IndexLevel(Miner)
    BY <2>2 DEF S!IndexLevel, Verifiable
  <2>3. CASE S!LinkParent(Miner)
    BY <2>3 DEF S!LinkParent, Verifiable
  <2>4. CASE S!CheckParent(Miner)
    BY <2>4 DEF S!CheckParent, S!IsGenesis, IsGenesis, Verifiable
  <2>5. CASE S!MarkVerified(Miner)
    BY <2>5 DEF S!MarkVerified, Verifiable
  <2>6. CASE S!Descend(Miner)
    BY <2>6 DEF S!Descend, Verifiable
  <2>7. CASE S!LockBalance(Miner)
    BY <2>7 DEF S!LockBalance, Verifiable
  <2>8. QED
    BY <1>6, <2>2, <2>3, <2>4, <2>5, <2>6, <2>7 DEF HostIndex
<1>7. CASE HostRaise(Miner)
  <2>1. pc[Miner] = "raise" /\ Level[b] <= Level[at[Miner]] /\ Level[at[Miner]] \in Nat
    BY <1>7, BlockTreeAssumption
       DEF HostRaise, S!RaiseMaxLevel, HInv, Calls, SP!IInv, SP!Locals, SP!TypeOK
  <2>2. maxLevel' = IF Level[at[Miner]] > maxLevel THEN Level[at[Miner]] ELSE maxLevel
    BY <1>7 DEF HostRaise, S!RaiseMaxLevel
  <2>3. Level[b] <= maxLevel'
    BY <2>1, <2>2
  <2>4. /\ pc'[Miner] = "lock" /\ call'[Miner] = "raised" /\ adding' = adding /\ verified' = verified
    BY <1>7 DEF HostRaise, S!RaiseMaxLevel, At
  <2>5. QED
    BY <2>1, <2>3, <2>4 DEF Verifiable
<1>8. CASE HostBalance(Miner)
  <2>1. /\ pc[Miner] \in {"read", "pick"} /\ b \in verified /\ Level[b] <= maxLevel
        /\ verified' = verified
    BY <1>8 DEF HostBalance, S!ReadMaxLevel, S!PickTop
  <2>2. Level[b] <= maxLevel'
    BY <1>1, <2>1 DEF HInv, SP!IInv, SP!TypeOK
  <2>3. CASE S!ReadMaxLevel(Miner)
    <3>1. maxLevel >= 0
      BY <2>1
    <3>2. pc'[Miner] = "pick" /\ top'[Miner] = maxLevel /\ adding' = adding
      BY <2>3, <3>1 DEF S!ReadMaxLevel
    <3>3. call' = call /\ call[Miner] \in {"store", "raised"}
      BY <1>8, <3>2 DEF HostBalance, CallAt
    <3>4. QED
      BY <2>1, <2>2, <3>2, <3>3 DEF Verifiable
  <2>4. CASE S!PickTop(Miner)
    <3>1. S!TopBlocks(top[Miner]) # {} /\ Level[b] <= top[Miner]
      BY <2>4 DEF S!PickTop, HInv, SP!IInv, SP!Picking, SP!TopBlocks, S!TopBlocks
    <3>2. PICK t \in S!TopBlocks(top[Miner]) :
               S!Release(Miner, IF S!Chain(t) \subseteq blocks THEN t ELSE NoBlock)
      BY <2>4, <3>1 DEF S!PickTop
    <3>3. t \in verified /\ Level[t] = top[Miner] /\ t \in Block
      BY <3>2 DEF S!TopBlocks
    <3>4. S!Chain(t) \subseteq blocks
      <4>1. verified \in SUBSET Block /\ SP!ParentClosed(verified) /\ verified \subseteq blocks
        BY DEF HInv, SP!IInv, SP!VerifiedChains
      <4>2. SP!Chain(t) \subseteq verified
        BY <3>3, <4>1, SP!ChainInClosed, StorageAssumptions
      <4>3. QED
        BY <4>1, <4>2 DEF SP!Chain, S!Chain, SP!ParentClosed, S!ParentClosed, SP!IsGenesis, S!IsGenesis
    <3>5. shown' = t /\ pc'[Miner] = "idle"
      BY <3>2, <3>4 DEF S!Release
    <3>6. call'[Miner] = "nil"
      BY <1>8, <3>5 DEF HostBalance, At
    <3>7. t # NoBlock /\ Height(shown') >= Level[b]
      BY <3>1, <3>3, <3>5, BlockTreeAssumption DEF Height
    <3>8. QED
      BY <2>1, <2>2, <3>5, <3>6, <3>7
  <2>5. QED
    BY <1>8, <2>3, <2>4 DEF HostBalance
<1>9. CASE HostCancelMiner(Miner)
  <2>1. /\ call[Miner] \in {"nil", "level", "fire", "clear"} /\ pc[Miner] = "idle"
        /\ call'[Miner] \in {"idle", "nil", "level", "fire", "clear"}
        /\ UNCHANGED <<adds, maxLevel>>
    BY <1>9, Alone DEF HostCancelMiner, TestNil, TestLevel, Fire, Clear, CallAt, Return, At, storage
  <2>2. UNCHANGED <<pc, verified, shown>>
    BY <2>1 DEF adds
  <2>3. QED
    BY <2>1, <2>2 DEF Height
<1>10. QED
  BY <1>4, <1>5, <1>6, <1>7, <1>8, <1>9 DEF HostAddStep

\* The callback begins with a block to come.
LEMMA FindProgress ==
  ASSUME OInv, HostFind
  PROVE  Progress'
<1> USE HostTypes DEF OInv
<1>1. /\ pc[Miner] = "idle" /\ pc'[Miner] = "store"
      /\ adding'[Miner] = solving /\ call'[Miner] = "store"
      /\ solving' = solving /\ UNCHANGED <<blocks, verified>>
  BY DEF HostFind, Find, S!Call, S!Go, S!shared, jobs
<1>2. Fresh(solving)
  BY DEF HostFind, Find, MinerAt, JobsFresh
<1>3. Fresh(solving)' /\ Verifiable(solving)'
  BY <1>1, <1>2 DEF Fresh, Verifiable
<1>4. QED
  BY <1>1, <1>3 DEF Progress, Counting, Counted

\* What is stored of the host's own stays below the top.
LEMMA OwnStoredKept ==
  ASSUME OInv, [HostNext]_hostVars
  PROVE  OwnStored'
<1> USE HostTypes DEF OInv
<1>1. blocks \subseteq blocks' /\ maxLevel <= maxLevel' /\ HInv'
  BY NothingLost, NextHInv
<1>2. maxLevel' \in Nat \cup {-1}
  BY <1>1 DEF HInv, SP!IInv, SP!TypeOK
<1>3. ASSUME NEW x \in Own \cap blocks'
      PROVE  Level[x] <= maxLevel' \/ (x = solving' /\ pc'[Miner] # "idle")
  <2>1. Level[x] \in Nat
    BY BlockTreeAssumption
  <2>2. CASE x \in blocks /\ Level[x] <= maxLevel
    BY <1>1, <1>2, <2>1, <2>2
  <2>3. CASE x \in blocks /\ x = solving /\ pc[Miner] # "idle"
    <3>1. solving' = solving
      BY <2>3, Alone, Stays
    <3>2. pc[Miner] # "store"
      BY <2>3, <2>1 DEF Progress, Fresh
    <3>3. ASSUME pc'[Miner] = "idle" PROVE Level[x] <= maxLevel
      <4>1. HostAddStep(Miner)
        BY <2>3, <3>3, WhoMoves DEF MinerInAdd, HostFind, S!Call
      <4>2. pc[Miner] \in {"read", "pick"}
        BY <2>3, <3>2, <3>3, <4>1, Alone
           DEF HostAddStep, HostRefuse, HostStoreBlock, HostIndex, HostRaise, HostBalance,
               HostCancelMiner, S!Refuse, S!StoreBlock, S!IndexLevel, S!LinkParent, S!CheckParent,
               S!MarkVerified, S!Descend, S!LockBalance, S!RaiseMaxLevel, S!ReadMaxLevel, S!PickTop,
               S!Go, adds
      <4>3. QED
        BY <2>3, <4>2 DEF Progress, Counting
    <3>4. QED
      BY <1>1, <1>2, <2>1, <2>3, <3>1, <3>3
  <2>4. CASE x \notin blocks
    <3>1. /\ HostStoreBlock(Miner) /\ pc[Miner] = "store" /\ solving \notin blocks /\ x = solving
      BY <2>4, OwnNew
    <3>2. solving' = solving /\ adding[Miner] = solving
      BY <3>1, Alone, Stays DEF Progress
    <3>3. pc'[Miner] = "level"
      BY <3>1, <3>2 DEF HostStoreBlock, S!StoreBlock, S!Go
    <3>4. QED
      BY <3>1, <3>2, <3>3
  <2>5. QED
    BY <2>2, <2>3, <2>4 DEF OwnStored
<1>4. ASSUME NEW c \in Peer, pc'[c] # "idle", adding'[c] \in Own
      PROVE  adding'[c] \in blocks'
  <2>1. CASE pc[c] # "idle" /\ adding'[c] = adding[c]
    BY <1>1, <1>4, <2>1 DEF OwnStored
  <2>2. ASSUME NEW b \in Block, HostReceive(c, b) PROVE adding'[c] \in blocks
    <3>1. adding'[c] = b /\ OursBelow[b] \subseteq blocks
      BY <2>2 DEF HostReceive, S!Call
    <3>2. b \in Chain(b)
      BY DEF Chain
    <3>3. QED
      BY <1>4, <3>1, <3>2 DEF OursBelow
  <2>3. ASSUME ~(pc[c] # "idle" /\ adding'[c] = adding[c])
        PROVE  \E b \in Block : HostReceive(c, b)
    <3> USE DEF S!Go, S!Return, S!shared, S!money
    <3>1. ASSUME NEW d \in Caller, HostAddStep(d) PROVE FALSE
      <4>1. pc[d] = "idle" => UNCHANGED adds
        BY <3>1 DEF HostAddStep, HostRefuse, HostStoreBlock, HostIndex, HostRaise, HostBalance,
               HostCancelMiner, S!Refuse, S!StoreBlock, S!IndexLevel, S!LinkParent, S!CheckParent,
               S!MarkVerified, S!Descend, S!LockBalance, S!RaiseMaxLevel, S!ReadMaxLevel, S!PickTop
      <4>2. (pc'[d] = "idle" \/ adding'[d] = adding[d])
            /\ (d # c => pc'[c] = pc[c] /\ adding'[c] = adding[c])
        BY <3>1 DEF HostAddStep, HostRefuse, HostStoreBlock, HostIndex, HostRaise, HostBalance,
               HostCancelMiner, S!Refuse, S!StoreBlock, S!IndexLevel, S!LinkParent, S!CheckParent,
               S!MarkVerified, S!Descend, S!LockBalance, S!RaiseMaxLevel, S!ReadMaxLevel, S!PickTop,
               S!Release, adds
      <4>3. QED
        BY <1>4, <2>3, <4>1, <4>2 DEF adds
    <3>2. ASSUME NEW d \in Peer, NEW b \in Block, HostReceive(d, b), d # c PROVE FALSE
      BY <1>4, <2>3, <3>2 DEF HostReceive, S!Call
    <3>3. ASSUME \/ HostMinerStep \/ HostFind \/ HostAnnounce \/ HostWatcherStep \/ HostFetch
                 \/ HostControl \/ UNCHANGED hostVars
          PROVE  FALSE
      BY <1>4, <2>3, <3>3
         DEF HostMinerStep, HostTakeJob, HostMinerSignals, HostFind, HostWatcherStep, HostStatus,
             HostWatches, HostBuildTemplate, HostPut, HostAnnounce, HostFetch, HostControl,
             S!Call, hostVars, adds
    <3>4. QED
      BY <3>1, <3>2, <3>3 DEF HostNext
  <2>4. QED
    BY <1>1, <2>1, <2>2, <2>3
<1>5. QED
  BY <1>3, <1>4 DEF OwnStored

\* Every step keeps the invariant.
LEMMA NextOInv == OInv /\ [HostNext]_hostVars => OInv'
<1> SUFFICES ASSUME OInv, [HostNext]_hostVars PROVE OInv'
  OBVIOUS
<1>1. HInv'
  BY NextHInv DEF OInv
<1>2. Progress'
  BY WhoMoves, FindProgress, OwnProgress, StillProgress DEF OInv
<1>3. QED
  BY <1>1, <1>2, JobsFreshKept, OwnStoredKept DEF OInv

\* OInv is an invariant of the host.
THEOREM OwnInvariant == HostSpec => []OInv
BY InitOInv, NextOInv, PTL DEF HostSpec
----------------------------------------------------------------------------
\* A block the host found counts at once, whatever arrives while it is solved
\* and stored: its parent was verified when the template was built.
THEOREM MinedBlocksCount == HostSpec => []MinedCounts
<1>1. OInv => MinedCounts
  BY DEF OInv, Progress, Counted, MinedCounts
<1>2. QED
  BY <1>1, OwnInvariant, PTL

\* The host never stores two blocks of its own on one level, and each is higher
\* than all it stored before.
THEOREM OwnBlocksRise == HostSpec => OwnLevelsRise
<1>1. ASSUME OInv, [HostNext]_hostVars
      PROVE  [\A b \in Own \cap (blocks' \ blocks) :
                \A x \in Own \cap blocks : Level[x] < Level[b]]_hostVars
  BY <1>1, OwnNew DEF OInv, Progress, Fresh
<1>2. QED
  BY <1>1, OwnInvariant, PTL DEF HostSpec, OwnLevelsRise
=============================================================================
