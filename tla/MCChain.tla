------------------------------ MODULE MCChain ------------------------------
(* Transactions for model checking Chain. *)
EXTENDS Chain

CONSTANTS alice

Good(n, timeout) ==
  [sender |-> alice, nonce |-> n, gasLimit |-> 1010, kib |-> 1,
   timeoutHeight |-> timeout, wellFormed |-> TRUE, signed |-> TRUE]

\* Two transactions in sequence, the first also with a deadline, and one whose
\* gas limit is one short.
SequenceTxs ==
  {Good(0, 0), Good(0, 1), Good(1, 0), [Good(0, 0) EXCEPT !.gasLimit = 1009]}
=============================================================================
