--------------------------- MODULE WeaveValidate ---------------------------
(***************************************************************************)
(* ValidateDAG of internal/modules/weave/module.go: Kahn's algorithm,      *)
(* checked against the definition of an acyclic graph on every list of     *)
(* edges up to a bound, repeated edges included.  The code keeps its queue *)
(* sorted and without repetitions: a set, of which it takes the minimum.   *)
(***************************************************************************)
EXTENDS Integers, Sequences, FiniteSets

CONSTANTS
  N,        \* nodes are 1..N, ordered like their ids
  MaxEdges  \* bound: edges in a payload

ASSUME ValidateConstants == N \in Nat \ {0} /\ MaxEdges \in Nat

\* The last node number is one that the payload does not declare.
Nodes == 1..(N - 1)

\* The edge lists of create_dag payloads.
EdgeLists == UNION {[1..n -> (1..N) \X (1..N)] : n \in 0..MaxEdges}

\* The number of edges from m to n.
Edges(edges, m, n) == Cardinality({k \in DOMAIN edges : edges[k] = <<m, n>>})

\* Predecessors counted instead of edges.
Predecessors(edges, n) == Cardinality({edges[k][1] : k \in {k \in DOMAIN edges : edges[k][2] = n}})

Indegree(edges, n) == Cardinality({k \in DOMAIN edges : edges[k][2] = n})

\* The counts and the queue when the main loop begins.
Started(edges) ==
  LET indeg == [n \in Nodes |-> Indegree(edges, n)] IN
  [indeg |-> indeg, queue |-> {n \in Nodes : indeg[n] = 0}, visited |-> 0]

\* One turn of the main loop.  A successor is enqueued when the edge that brings
\* its count to zero is removed.
Turn(edges, s) ==
  LET curr == CHOOSE n \in s.queue : \A m \in s.queue : n <= m
      ready == {n \in Nodes : s.indeg[n] \in 1..Edges(edges, curr, n)} IN
  [indeg |-> [n \in Nodes |-> s.indeg[n] - Edges(edges, curr, n)],
   queue |-> (s.queue \ {curr}) \cup ready,
   visited |-> s.visited + 1]

\* The main loop after each number of turns; it stops at an empty queue.
Loop(edges) ==
  LET run[k \in 0..N] ==
        IF k = 0 THEN Started(edges)
        ELSE LET s == run[k - 1] IN IF s.queue = {} THEN s ELSE Turn(edges, s)
  IN  run

\* The number of nodes taken from the queue.  No node is queued twice, so that
\* after N turns the loop has stopped (WeaveProofs has the proof).
Visited(edges) == Loop(edges)[N].visited

ValidateDAG(edges) ==
  /\ Cardinality(Nodes) >= 2
  /\ \A k \in DOMAIN edges :
       edges[k][1] \in Nodes /\ edges[k][2] \in Nodes /\ edges[k][1] # edges[k][2]
  /\ Visited(edges) = Cardinality(Nodes)

\* An order of the nodes in which every edge goes forward.
TopologicalOrderExists(edges) ==
  \E rank \in [Nodes -> Nodes] :
    \A k \in DOMAIN edges :
      edges[k][1] \in Nodes /\ edges[k][2] \in Nodes /\ rank[edges[k][1]] < rank[edges[k][2]]
=============================================================================
