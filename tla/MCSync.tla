------------------------------- MODULE MCSync -------------------------------
(***************************************************************************)
(* A chain of six blocks and a fork at its second one, served by two       *)
(* neighbours that have all of it, or by one of these and one that has     *)
(* only the beginning.                                                     *)
(***************************************************************************)
EXTENDS Sync, TLC

CONSTANTS b0, b1, b2, b3, b4, b5, f2, long, flaky, short

MCLevel == b0 :> 0 @@ b1 :> 1 @@ b2 :> 2 @@ b3 :> 3 @@ b4 :> 4 @@ b5 :> 5 @@ f2 :> 2

Storages == long :> Block @@ flaky :> Block @@ short :> {b0, b1}
MCStored == [p \in Peer |-> Storages[p]]

Tops == long :> 5 @@ flaky :> 5 @@ short :> 1
MCTop == [p \in Peer |-> Tops[p]]
=============================================================================
