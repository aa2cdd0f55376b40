------------------------------- MODULE Admin -------------------------------
(***************************************************************************)
(* The three modules that administer the network, on one chain: reputation *)
(* (Rep), the node registry (Node) and governance (Gov).                   *)
(*                                                                         *)
(* The router hands a transaction to one module, which writes under its    *)
(* own prefixes, so a transaction is a step of one module.  They share the *)
(* block height; only rep reads it, divided by 1000.                       *)
(***************************************************************************)
EXTENDS Rep, Node, Gov

CONSTANTS
  BlockEpochs,  \* the values of height / 1000 at which transactions arrive
  MaxAdminTxs   \* bound: transactions in all

ASSUME AdminConstants ==
  /\ 0 \in BlockEpochs
  /\ BlockEpochs \subseteq 0..(EpochWidth - 1)
  /\ MaxAdminTxs \in Nat

VARIABLES
  blockEpoch,  \* height / 1000
  adminTxs     \* history: transactions executed

adminVars == <<blockEpoch, adminTxs>>
networkVars == <<repVars, nodeVars, govVars, adminVars>>

AdminInit ==
  /\ RepInit /\ NodeInit /\ GovInit
  /\ blockEpoch = 0
  /\ adminTxs = 0

\* Blocks go by, a thousand of them and more.
AdvanceEpoch ==
  /\ blockEpoch' \in {e \in BlockEpochs : e > blockEpoch}
  /\ UNCHANGED <<repVars, nodeVars, govVars, adminTxs>>

\* Router.Execute: the module that the envelope names.
RouteTx ==
  /\ adminTxs < MaxAdminTxs
  /\ adminTxs' = adminTxs + 1
  /\ UNCHANGED blockEpoch
  /\ \/ RepNext(blockEpoch) /\ UNCHANGED <<nodeVars, govVars>>
     \/ NodeNext /\ UNCHANGED <<repVars, govVars>>
     \/ GovNext /\ UNCHANGED <<repVars, nodeVars>>

AdminNext == AdvanceEpoch \/ RouteTx

AdminSpec == AdminInit /\ [][AdminNext]_networkVars
=============================================================================
