--------------------------- MODULE MCClientSelection ---------------------------
(***************************************************************************)
(* Three clients over two directions, stored in another order than the     *)
(* lexical one, with the budgets of the configuration: one, two and three  *)
(* clients.  Radii 6, 3 and 2 belong to the smallest eigenvalues 0, 3, 8.  *)
(***************************************************************************)
EXTENDS ClientSelection

MCPosition == [c \in 1 .. 3 |-> (c % 3) + 1]
MCInformations == {<<0, 8>>, <<8, 3>>, <<8, 8>>}
MCSupports == {<<4, 4>>, <<5, 0>>}
MCDirections == 1 .. 2
MCRadiusOf == (0 :> 6) @@ (3 :> 3) @@ (8 :> 2)
MCActionNorms == <<1, 2>>
MCBudgetFractions == <<1, 2, 3>>

=============================================================================
