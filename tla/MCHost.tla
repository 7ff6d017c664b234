------------------------------ MODULE MCHost ------------------------------
(***************************************************************************)
(* A small block tree for Host: two genesis blocks, of this host and of a  *)
(* peer, the peer's chain on its own, and what this host builds on each.   *)
(***************************************************************************)
EXTENDS Host, TLC

CONSTANTS g, g1, h, h1, f1

MCParent == g :> NoBlock @@ g1 :> g @@ h :> NoBlock @@ h1 :> h @@ f1 :> h
MCLevel  == g :> 0 @@ g1 :> 1 @@ h :> 0 @@ h1 :> 1 @@ f1 :> 1
=============================================================================
