---------------------------- MODULE MCBroadcast ----------------------------
(***************************************************************************)
(* Small networks for Broadcast.                                           *)
(***************************************************************************)
EXTENDS Broadcast, TLC

CONSTANTS a, b, c, d, x, y, t

\* Two hosts that know each other and both fail at times, two blocks and a
\* transaction: the channels fill up in a circle.
Pair == [neighbors |-> a :> {a, b} @@ b :> {a, b} @@ c :> {} @@ d :> {},
         items |-> {x, y, t}, failing |-> {a, b}, miners |-> {}]

\* Both mine: what they fetch is pooled and announced again when it comes again.
Echo == [Pair EXCEPT !.items = {t}, !.miners = {a, b}]

\* d is two hops from a, over b and over c, of which c fails at times: messages
\* arrive over several paths.  Hosts need not know who knows them.
Diamond == [neighbors |-> a :> {b, c} @@ b :> {c, d} @@ c :> {d} @@ d :> {},
            items |-> {x, y}, failing |-> {c}, miners |-> {}]

Networks == {Pair, Echo, Diamond}

Origins == x :> a @@ y :> b @@ t :> a
=============================================================================
