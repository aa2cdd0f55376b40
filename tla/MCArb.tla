------------------------------- MODULE MCArb -------------------------------
(* A committee for model checking Arb. *)
EXTENDS Arb

CONSTANTS member

OneMember == [i \in DisputeIds |-> {member}]
=============================================================================
