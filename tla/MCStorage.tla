----------------------------- MODULE MCStorage -----------------------------
(***************************************************************************)
(* Small block trees for Storage.                                          *)
(***************************************************************************)
EXTENDS Storage, TLC

CONSTANTS g, a1, a2, c1

\* A chain g - a1 - a2 and a fork at its first block.
ForkParent == g :> NoBlock @@ a1 :> g @@ a2 :> a1 @@ c1 :> g
ForkLevel  == g :> 0 @@ a1 :> 1 @@ a2 :> 2 @@ c1 :> 1

\* The part of the tree a run uses.
MCParent == [b \in Block |-> ForkParent[b]]
MCLevel  == [b \in Block |-> ForkLevel[b]]

AdderSymmetry == Permutations(Adder)
=============================================================================
