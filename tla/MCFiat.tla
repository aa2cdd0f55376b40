------------------------------- MODULE MCFiat -------------------------------
(* Payloads for model checking Fiat. *)
EXTENDS Fiat

\* Amounts of either sign that cross the floors of the tiers 1, 2 and 4.
SomeAmounts == {-1, 1, 4}
=============================================================================
