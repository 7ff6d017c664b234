----------------------------- MODULE ChainView -----------------------------
(***************************************************************************)
(* What a host's storage promises to the rest of the host.  Blocks are     *)
(* stored and never forgotten; a stored block may become verified once its *)
(* whole chain is; and the balances, when they change, come to be those of *)
(* a verified chain that is at least as long as the one they showed before.*)
(* The promise does not say that a block whose parent is verified becomes  *)
(* verified: the storage does not keep that promise (MCStorageForks).      *)
(***************************************************************************)
EXTENDS BlockTree

VARIABLES stored,     \* the blocks a peer can be given
          confirmed,  \* the stored blocks whose chain is known to be complete
          ledger      \* top of the chain the visible balances are computed from

vars == <<stored, confirmed, ledger>>

Init == /\ stored = {}
        /\ confirmed = {}
        /\ ledger = NoBlock

Store(b) == /\ b \notin stored
            /\ stored' = stored \cup {b}
            /\ UNCHANGED <<confirmed, ledger>>

Confirm(b) == /\ b \in stored
              /\ IsGenesis(b) \/ Parent[b] \in confirmed
              /\ confirmed' = confirmed \cup {b}
              /\ UNCHANGED <<stored, ledger>>

Publish(b) == /\ Chain(b) \subseteq confirmed
              /\ b \in confirmed
              /\ Height(b) >= Height(ledger)
              /\ ledger' = b
              /\ UNCHANGED <<stored, confirmed>>

Next == \E b \in Block : Store(b) \/ Confirm(b) \/ Publish(b)

Spec == Init /\ [][Next]_vars
=============================================================================
