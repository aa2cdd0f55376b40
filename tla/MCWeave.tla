------------------------------ MODULE MCWeave ------------------------------
(* The scheduler together with the check of the graphs it is given. *)
EXTENDS Weave, WeaveValidate

(***************************************************************************)
(* ValidateDAG accepts a payload exactly when it declares two nodes, its   *)
(* edges join declared nodes and can be ordered, so a DAG in the store     *)
(* never has a cycle and no acyclic one is refused, whatever the order and *)
(* number of its edges.                                                    *)
(* It does not look at the store: stated for the empty one.                *)
(***************************************************************************)
AcceptsExactlyDags ==
  Dags = {} =>
    \A edges \in EdgeLists :
      ValidateDAG(edges) <=> Cardinality(Nodes) >= 2 /\ TopologicalOrderExists(edges)
=============================================================================
