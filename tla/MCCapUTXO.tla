----------------------------- MODULE MCCapUTXO -----------------------------
(***************************************************************************)
(* Instance of CapUTXO for TLC.  Child ids and scopes are interchangeable: *)
(* the handlers only test them for equality, so permuting them is sound    *)
(* for safety properties.  One actor is enough: the handlers compare the   *)
(* sender with issuer and holder and do nothing else with keys, so giving  *)
(* everybody the same key only adds behaviours.                            *)
(***************************************************************************)
EXTENDS CapUTXO, TLC

IdSymmetry == Permutations(ChildIds) \cup Permutations(ScopeNames)

\* A negative expiry, never, and the second block.
PayloadExpiries == {-1, 0, 2}
=============================================================================
