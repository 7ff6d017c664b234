----------------------------- MODULE MCExchange -----------------------------
(***************************************************************************)
(* Two users and two hosts, amounts of five bits.                          *)
(***************************************************************************)
EXTENDS Exchange

\* The hosts' keys are in no form and have nothing in any balances.
HostSymmetry == Permutations(Host)

CONSTANTS alice, bob

Form(addresses, amounts) == [addresses |-> addresses, amounts |-> amounts]

\* Two senders, and one who is named twice.
MCSenders == {Form(<<alice, bob>>, <<1, 2>>), Form(<<alice, alice>>, <<1, 2>>)}

\* One who is named twice, with a fee left, and a sum that wraps around to what the
\* senders pay; without receivers all is fee.
MCReceivers == {Form(<<alice, alice>>, <<1, 1>>), Form(<<alice, alice, bob>>, <<9, 13, 13>>)}

\* What both can pay, and balances in which bob has spent it.
Rich == [k \in Key |-> IF k \in {alice, bob} THEN 3 ELSE 0]
MCBalances == {Rich, [Rich EXCEPT ![bob] = 0]}
=============================================================================
