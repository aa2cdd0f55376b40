---------------------------- MODULE WeaveProofs ----------------------------
(***************************************************************************)
(* Proofs about the scheduler, for every number of DAGs and nodes, every   *)
(* timeout and any node statuses, and about ValidateDAG: Kahn's loop takes *)
(* the graphs that have a topological order, and no other.                 *)
(***************************************************************************)
EXTENDS MCWeave, TLAPS, FiniteSetTheorems, WellFoundedInduction, NaturalsInduction

\* A record with the fields of a DAG, whatever its nodes, not started later than t.
Shaped(d, t) ==
  /\ d \in [nodes : {d.nodes}, status : DagStatuses, startedAt : Nat,
            timeout : 1..(2 * Wrap - 1)]
  /\ d.startedAt <= t

(* The inductive invariant.                                                *)
DagInv ==
  /\ now \in Nat
  /\ dag = [i \in Dags |-> dag[i]]
  /\ \A i \in Dags : Shaped(dag[i], now)

\* What OutcomeIsEarnedAndFinal says of one DAG.
Earned(d, e) ==
  /\ (d.status # "DAG_COMPLETED" /\ e.status = "DAG_COMPLETED") =>
       /\ d.status = "DAG_RUNNING"
       /\ \A n \in DOMAIN e.nodes : e.nodes[n] \in {"NODE_COMPLETED", "NODE_SKIPPED"}
       /\ d.timeout < Wrap /\ now <= d.startedAt + d.timeout
  /\ d.status \in {"DAG_COMPLETED", "DAG_FAILED", "DAG_CANCELED"} =>
       \/ e.status \in {d.status, "DAG_CANCELED"}
       \/ e.status = "DAG_PENDING" /\ e.startedAt = 0

Kept == DagInv' /\ \A i \in Dags : Earned(dag[i], dag'[i])

\* Transactions replace one DAG and leave the time alone.
LEMMA ReplaceKeeps ==
  ASSUME DagInv, NEW id \in Dags, NEW e, Shaped(e, now), Earned(dag[id], e),
         dag' = [dag EXCEPT ![id] = e], now' = now
  PROVE  Kept
<1>1. /\ Dags' = Dags /\ dag' = [i \in Dags' |-> dag'[i]]
      /\ dag'[id] = e /\ \A i \in Dags : i # id => dag'[i] = dag[i]
  BY DEF DagInv, Dags
<1>2. DagInv'
  BY <1>1 DEF DagInv
<1>3. ASSUME NEW i \in Dags PROVE Earned(dag[i], dag'[i])
  BY <1>1 DEF Earned
<1> QED BY <1>2, <1>3 DEF Kept

LEMMA CreateKeeps ==
  ASSUME DagInv, NEW id \in DagIds, NEW nodes, NEW t \in Timeouts, createDAG(id, nodes, t)
  PROVE  Kept
<1> DEFINE e == [nodes |-> nodes, status |-> "DAG_PENDING", startedAt |-> 0, timeout |-> t]
<1>1. t \in 1..(2 * Wrap - 1)
  BY WeaveConstants DEF createDAG, ValidNodesAndTimeout
<1>2. Shaped(e, now) /\ e.status = "DAG_PENDING" /\ e.startedAt = 0
  BY <1>1 DEF DagInv, Shaped, DagStatuses
<1>3. dag' = saveDAG(id, e) /\ now' = now
  BY DEF createDAG
<1> HIDE DEF e
<1>4. /\ Dags' = Dags \cup {id} /\ dag' = [i \in Dags' |-> dag'[i]]
      /\ dag'[id] = e /\ \A i \in Dags : i # id => dag'[i] = dag[i]
  BY <1>3 DEF saveDAG, Dags
<1>5. DagInv'
  BY <1>2, <1>3, <1>4 DEF DagInv
<1>6. ASSUME NEW i \in Dags PROVE Earned(dag[i], dag'[i])
  BY <1>2, <1>4 DEF Earned
<1> QED BY <1>5, <1>6 DEF Kept

LEMMA StartKeeps ==
  ASSUME DagInv, NEW id \in Dags, startDAG(id)
  PROVE  Kept
<1> DEFINE ns == [n \in DOMAIN dag[id].nodes |-> "NODE_PENDING"]
           e == [dag[id] EXCEPT !.status = "DAG_RUNNING", !.startedAt = now, !.nodes = ns]
<1>1. /\ now' = now /\ dag[id].status = "DAG_PENDING" /\ Shaped(dag[id], now) /\ now \in Nat
  BY DEF startDAG, Startable, DagInv
<1>2. dag' = [dag EXCEPT ![id] = e]
  BY DEF startDAG
<1> HIDE DEF ns
<1>3. /\ e \in [nodes : {ns}, status : DagStatuses, startedAt : Nat,
                timeout : 1..(2 * Wrap - 1)]
      /\ e.nodes = ns /\ e.startedAt = now /\ e.status = "DAG_RUNNING"
  BY <1>1 DEF Shaped, DagStatuses
<1> HIDE DEF e
<1>4. Shaped(e, now) /\ Earned(dag[id], e)
  BY <1>1, <1>3 DEF Shaped, Earned
<1> QED BY <1>1, <1>2, <1>4, ReplaceKeeps

\* update_node_status and submit_node_output.
LEMMA NodeKeeps ==
  ASSUME DagInv, NEW id \in Dags, NEW n, NEW st,
         dag' = IF n \in DOMAIN dag[id].nodes THEN [dag EXCEPT ![id].nodes[n] = st] ELSE dag,
         now' = now
  PROVE  Kept
<1>0. Shaped(dag[id], now)
  BY DEF DagInv
<1> DEFINE ns == [dag[id].nodes EXCEPT ![n] = st]
           e == [dag[id] EXCEPT !.nodes = ns]
<1>1. CASE dag' = [dag EXCEPT ![id].nodes[n] = st]
  <2>1. dag' = [dag EXCEPT ![id] = e]
    BY <1>1
  <2> HIDE DEF ns
  <2>2. Shaped(e, now) /\ Earned(dag[id], e)
    BY <1>0 DEF Shaped, Earned
  <2> HIDE DEF e
  <2> QED BY <2>1, <2>2, ReplaceKeeps
<1>2. CASE dag' = dag
  BY <1>2 DEF Kept, DagInv, Dags, Earned
<1> QED BY <1>1, <1>2

LEMMA CancelKeeps ==
  ASSUME DagInv, NEW id \in Dags, cancelDAG(id)
  PROVE  Kept
<1> DEFINE e == [dag[id] EXCEPT !.status = "DAG_CANCELED"]
<1>1. dag' = [dag EXCEPT ![id] = e] /\ now' = now /\ Shaped(dag[id], now)
  BY DEF cancelDAG, DagInv
<1>2. Shaped(e, now) /\ Earned(dag[id], e)
  BY <1>1 DEF Shaped, Earned, DagStatuses
<1> HIDE DEF e
<1> QED BY <1>1, <1>2, ReplaceKeeps

\* EndBlock, for one DAG: it completes only when it is running, all done and
\* within a timeout that does not wrap.
LEMMA EndedKeeps ==
  ASSUME now \in Nat, NEW d, Shaped(d, now)
  PROVE  Shaped(Ended(d), now) /\ Earned(d, Ended(d))
<1>1. /\ d.startedAt \in Nat /\ d.timeout \in 1..(2 * Wrap - 1) /\ d.startedAt <= now
      /\ Wrap \in Nat
  BY WeaveConstants DEF Shaped
<1>2. CASE d.status # "DAG_RUNNING"
  <2>1. Ended(d) = d
    BY <1>2 DEF Ended
  <2> QED BY <2>1 DEF Earned
<1>3. CASE d.status = "DAG_RUNNING" /\ Expired(d)
  <2>1. Ended(d) = [d EXCEPT !.status = "DAG_FAILED"]
    BY <1>3 DEF Ended
  <2> QED BY <1>3, <2>1 DEF Shaped, Earned, DagStatuses
<1>4. CASE d.status = "DAG_RUNNING" /\ ~Expired(d)
  <2> DEFINE ns == [n \in DOMAIN d.nodes |-> NextStage(d.nodes[n])]
             st == IF AllDone(ns) THEN "DAG_COMPLETED" ELSE d.status
             e == [d EXCEPT !.nodes = ns, !.status = st]
  <2>1. Ended(d) = e
    BY <1>4 DEF Ended, progressDag
  <2>2. d.timeout < Wrap /\ now <= d.startedAt + d.timeout
    BY <1>1, <1>4 DEF Expired, Int64
  <2>3. st \in DagStatuses /\ (st = "DAG_COMPLETED" => AllDone(ns)) /\ st # "DAG_PENDING"
    BY <1>4 DEF DagStatuses
  <2> HIDE DEF ns, st
  <2>4. Shaped(e, now) /\ e.nodes = ns /\ e.status = st
    BY <2>3 DEF Shaped
  <2> HIDE DEF e
  <2>5. Earned(d, e)
    BY <1>4, <2>2, <2>3, <2>4 DEF Earned, AllDone
  <2> QED BY <2>1, <2>4, <2>5
<1> QED BY <1>2, <1>3, <1>4

LEMMA EndBlockKeeps ==
  ASSUME DagInv, EndBlock
  PROVE  Kept
<1>1. now \in Nat /\ now' \in Nat /\ now <= now'
  BY WeaveConstants DEF DagInv, EndBlock
<1>2. /\ Dags' = Dags /\ dag' = [i \in Dags' |-> dag'[i]]
      /\ \A i \in Dags : dag'[i] = Ended(dag[i])
  BY DEF EndBlock, Dags
<1>3. \A i \in Dags : Shaped(dag'[i], now) /\ Earned(dag[i], dag'[i])
  BY <1>1, <1>2, EndedKeeps DEF DagInv
<1>4. \A i \in Dags' : Shaped(dag'[i], now')
  BY <1>1, <1>2, <1>3 DEF Shaped
<1> QED BY <1>1, <1>2, <1>3, <1>4 DEF Kept, DagInv

LEMMA DagStep ==
  ASSUME DagInv, Next
  PROVE  Kept
<1>1. ASSUME NEW id \in Dags, NEW n \in NodeIds, NEW st \in NodeStatuses,
             updateNodeStatus(id, n, st)
      PROVE  Kept
  BY <1>1, NodeKeeps DEF updateNodeStatus
<1>2. ASSUME NEW id \in Dags, NEW n \in NodeIds, submitNodeOutput(id, n)
      PROVE  Kept
  BY <1>2, NodeKeeps DEF submitNodeOutput
<1> QED BY <1>1, <1>2, CreateKeeps, StartKeeps, CancelKeeps, EndBlockKeeps DEF Next

LEMMA DagInvStep ==
  ASSUME DagInv, [Next]_vars
  PROVE  DagInv'
<1>1. CASE UNCHANGED vars
  BY <1>1 DEF vars, DagInv, Dags
<1>2. CASE Next
  BY <1>2, DagStep DEF Kept
<1> QED BY <1>1, <1>2

\* A DAG completes only when it is running, done and in time, and stays ended.
\* That a started DAG was not started in the future is what rules out the
\* timeouts that wrap to negative ones.
THEOREM OutcomesCorrect == Spec => OutcomeIsEarnedAndFinal
<1> DEFINE Step == \A i \in Dags :
       /\ (dag[i].status # "DAG_COMPLETED" /\ dag'[i].status = "DAG_COMPLETED") =>
            /\ dag[i].status = "DAG_RUNNING"
            /\ \A n \in DOMAIN dag'[i].nodes :
                 dag'[i].nodes[n] \in {"NODE_COMPLETED", "NODE_SKIPPED"}
            /\ dag[i].timeout < Wrap /\ now <= dag[i].startedAt + dag[i].timeout
       /\ dag[i].status \in {"DAG_COMPLETED", "DAG_FAILED", "DAG_CANCELED"} =>
            \/ dag'[i].status \in {dag[i].status, "DAG_CANCELED"}
            \/ dag'[i].status = "DAG_PENDING" /\ dag'[i].startedAt = 0
<1>1. Init => DagInv
  BY DEF Init, DagInv, Dags
<1>2. DagInv /\ [Next]_vars => [Step]_vars
  <2>1. DagInv /\ Next => Step
    BY DagStep DEF Kept, Earned
  <2> QED BY <2>1
<1>3. DagInv /\ [Next]_vars => DagInv'
  BY DagInvStep
<1> QED BY <1>1, <1>2, <1>3, PTL DEF Spec, OutcomeIsEarnedAndFinal

-----------------------------------------------------------------------------
(***************************************************************************)
(* ValidateDAG: Kahn's loop accepts exactly the acyclic graphs, whatever   *)
(* the number of nodes and edges.                                          *)
(***************************************************************************)
\* A set of numbers that holds the successors of all it holds, and zero, is Nat:
\* otherwise there would be a smallest number outside.
LEMMA NatSetInduction ==
  ASSUME NEW T \in SUBSET Nat, 0 \in T, \A n \in T : n + 1 \in T
  PROVE  T = Nat
<1> DEFINE Out == Nat \ T
<1>1. SUFFICES ASSUME Out # {} PROVE FALSE
  OBVIOUS
<1>2. PICK n \in Out : \A m \in Out : <<m, n>> \notin OpToRel(<, Nat)
  <2>1. Out \subseteq Nat
    OBVIOUS
  <2> HIDE DEF Out
  <2> QED BY <1>1, <2>1, NatLessThanWellFounded, WFMin
<1>3. n \in Nat /\ n # 0 /\ n - 1 \in Nat
  OBVIOUS
<1>4. n - 1 \in T
  <2>1. <<n - 1, n>> \in OpToRel(<, Nat)
    BY <1>3 DEF OpToRel
  <2> QED BY <1>2, <1>3, <2>1
<1> QED BY <1>3, <1>4

\* The edges into n that do not come from V, and their number.
EdgesLeft(edges, V, n) == {k \in DOMAIN edges : edges[k][2] = n /\ edges[k][1] \notin V}
Left(edges, V, n) == Cardinality(EdgesLeft(edges, V, n))

\* The payload's edges join different declared nodes.
Proper(edges) ==
  \A k \in DOMAIN edges :
    edges[k][1] \in Nodes /\ edges[k][2] \in Nodes /\ edges[k][1] # edges[k][2]

\* The nodes of V are ranked, and every edge into V comes from a lower rank.
Ranks(edges, V, rank) ==
  /\ rank \in [V -> 1..Cardinality(V)]
  /\ \A k \in DOMAIN edges :
       edges[k][2] \in V => edges[k][1] \in V /\ rank[edges[k][1]] < rank[edges[k][2]]

\* The loop invariant: V is what was taken from the queue, in a topological order.
LoopInv(edges, s, V) ==
  /\ s \in [indeg : [Nodes -> Nat], queue : SUBSET Nodes, visited : Nat]
  /\ V \subseteq Nodes
  /\ s.visited = Cardinality(V)
  /\ \A n \in Nodes : s.indeg[n] = Left(edges, V, n)
  /\ s.queue = {n \in Nodes \ V : Left(edges, V, n) = 0}
  /\ \E rank : Ranks(edges, V, rank)

\* What a turn of the loop, or its end, makes of its state.
After(edges, s) == IF s.queue = {} THEN s ELSE Turn(edges, s)

\* The loop is well defined.
LEMMA LoopSteps ==
  ASSUME NEW edges
  PROVE  /\ Loop(edges)[0] = Started(edges)
         /\ \A k \in 1..N : Loop(edges)[k] = After(edges, Loop(edges)[k - 1])
<1> DEFINE F(g, m) == [k \in 0..m |->
                        IF k = 0 THEN Started(edges) ELSE After(edges, g[k - 1])]
           T == {m \in Nat : \E g : g = F(g, m)}
           run == CHOOSE g : g = F(g, N)
<1>1. 0 \in T
  <2> DEFINE g == [k \in 0..0 |-> Started(edges)]
  <2>1. g = F(g, 0)
    OBVIOUS
  <2> QED BY <2>1
<1>2. ASSUME NEW m \in T PROVE m + 1 \in T
  <2>1. PICK g : g = F(g, m)
    OBVIOUS
  <2> DEFINE h == [k \in 0..(m + 1) |-> IF k = m + 1 THEN After(edges, g[m]) ELSE g[k]]
  <2>2. m \in Nat
    OBVIOUS
  <2>3. \A k \in 0..m : g[k] = IF k = 0 THEN Started(edges) ELSE After(edges, g[k - 1])
    BY <2>1
  <2> HIDE DEF T
  <2>4. ASSUME NEW k \in 0..(m + 1)
        PROVE  h[k] = IF k = 0 THEN Started(edges) ELSE After(edges, h[k - 1])
    <3>1. CASE k = m + 1
      <4>1. k # 0 /\ k - 1 = m /\ m \in 0..(m + 1) /\ m # m + 1
        BY <2>2, <3>1
      <4>2. h[k - 1] = g[m] /\ h[k] = After(edges, g[m])
        BY <3>1, <4>1
      <4> HIDE DEF h
      <4> QED BY <4>1, <4>2
    <3>2. CASE k # m + 1
      <4>1. k \in 0..m /\ (k # 0 => k - 1 \in 0..m /\ k - 1 \in 0..(m + 1) /\ k - 1 # m + 1)
        BY <2>2, <3>2
      <4>2. h[k] = g[k] /\ (k # 0 => h[k - 1] = g[k - 1])
        BY <3>2, <4>1
      <4> HIDE DEF h
      <4> QED BY <2>3, <4>1, <4>2
    <3> QED BY <3>1, <3>2
  <2>5. h = F(h, m + 1)
    BY <2>4
  <2> HIDE DEF h, F
  <2> QED BY <2>2, <2>5 DEF T
<1>3. T = Nat
  <2>1. T \in SUBSET Nat
    OBVIOUS
  <2> HIDE DEF T
  <2> QED BY <1>1, <1>2, <2>1, NatSetInduction
<1>4. N \in T
  BY <1>3, ValidateConstants
<1>5. run = F(run, N)
  <2>1. \E g : g = F(g, N)
    BY <1>4
  <2> HIDE DEF F
  <2> QED BY <2>1
<1>6. Loop(edges) = run
  BY DEF Loop, After, run, F
<1> HIDE DEF run
<1> QED BY <1>5, <1>6, ValidateConstants

\* Removing the edges from c lowers the count of n by their number.
LEMMA LeftAfter ==
  ASSUME NEW edges, IsFiniteSet(DOMAIN edges), NEW V, NEW c, c \notin V, NEW n,
         \A k \in DOMAIN edges : edges[k] = <<edges[k][1], edges[k][2]>>
  PROVE  /\ Left(edges, V, n) \in Nat /\ Edges(edges, c, n) \in Nat
         /\ Left(edges, V \cup {c}, n) \in Nat
         /\ Left(edges, V, n) = Left(edges, V \cup {c}, n) + Edges(edges, c, n)
<1> DEFINE A == EdgesLeft(edges, V \cup {c}, n)
           B == {k \in DOMAIN edges : edges[k] = <<c, n>>}
           C == EdgesLeft(edges, V, n)
<1>1. A \subseteq DOMAIN edges /\ B \subseteq DOMAIN edges /\ C \subseteq DOMAIN edges
  BY DEF EdgesLeft
<1>2. \A k \in DOMAIN edges : edges[k] = <<c, n>> <=> edges[k][1] = c /\ edges[k][2] = n
  OBVIOUS
<1>3. C = A \cup B /\ A \cap B = {}
  BY <1>2 DEF EdgesLeft
<1>4. Left(edges, V, n) = Cardinality(C) /\ Left(edges, V \cup {c}, n) = Cardinality(A)
      /\ Edges(edges, c, n) = Cardinality(B)
  BY DEF Left, Edges
<1> HIDE DEF A, B, C
<1>5. IsFiniteSet(A) /\ IsFiniteSet(B) /\ IsFiniteSet(C)
  BY <1>1, FS_Subset
<1>6. Cardinality(A \cup B) = Cardinality(A) + Cardinality(B) - Cardinality(A \cap B)
  BY <1>5, FS_Union
<1>7. Cardinality(A \cap B) = 0
  BY <1>3, FS_EmptySet
<1>8. Cardinality(A) \in Nat /\ Cardinality(B) \in Nat /\ Cardinality(C) \in Nat
  BY <1>5, FS_CardinalityType
<1> QED BY <1>3, <1>4, <1>6, <1>7, <1>8

\* No edge is left into n exactly when all edges into n come from V.
LEMMA NoneLeft ==
  ASSUME NEW edges, IsFiniteSet(DOMAIN edges), NEW V, NEW n
  PROVE  Left(edges, V, n) = 0 <=> \A k \in DOMAIN edges : edges[k][2] = n => edges[k][1] \in V
<1>1. EdgesLeft(edges, V, n) \subseteq DOMAIN edges
  BY DEF EdgesLeft
<1>2. IsFiniteSet(EdgesLeft(edges, V, n))
  BY <1>1, FS_Subset
<1>3. Left(edges, V, n) = 0 <=> EdgesLeft(edges, V, n) = {}
  BY <1>2, FS_EmptySet DEF Left
<1> QED BY <1>3 DEF EdgesLeft

\* The queue's minimum is in the queue.
LEMMA MinExists ==
  ASSUME NEW Q \in SUBSET Nat, Q # {}
  PROVE  \E n \in Q : \A m \in Q : n <= m
<1>1. PICK n \in Q : \A m \in Q : <<m, n>> \notin OpToRel(<, Nat)
  BY NatLessThanWellFounded, WFMin
<1>2. \A m \in Q : ~(m < n)
  BY <1>1 DEF OpToRel
<1> QED BY <1>2

\* Nodes are numbers, and there are N - 1 of them.
LEMMA NodesCount ==
  Nodes \in SUBSET Nat /\ IsFiniteSet(Nodes) /\ Cardinality(Nodes) = N - 1
<1>1. 1 \in Int /\ N - 1 \in Int
  BY ValidateConstants
<1>2. IsFiniteSet(1..(N - 1)) /\ Cardinality(1..(N - 1)) = IF 1 > N - 1 THEN 0 ELSE N - 1 - 1 + 1
  BY <1>1, FS_Interval
<1> QED BY <1>2, ValidateConstants DEF Nodes

\* A payload's edges are finitely many pairs.
LEMMA EdgeListFacts ==
  ASSUME NEW edges \in EdgeLists
  PROVE  /\ IsFiniteSet(DOMAIN edges)
         /\ \A k \in DOMAIN edges : edges[k] = <<edges[k][1], edges[k][2]>>
<1>1. PICK m \in 0..MaxEdges : edges \in [1..m -> (1..N) \X (1..N)]
  BY DEF EdgeLists
<1>2. IsFiniteSet(1..m)
  BY FS_Interval, ValidateConstants
<1> QED BY <1>1, <1>2

\* The loop starts with its invariant, nothing taken.
LEMMA LoopStarts ==
  ASSUME NEW edges, IsFiniteSet(DOMAIN edges)
  PROVE  LoopInv(edges, Started(edges), {})
<1>1. \A n : Indegree(edges, n) = Left(edges, {}, n) /\ Left(edges, {}, n) \in Nat
  <2> TAKE n
  <2>1. EdgesLeft(edges, {}, n) = {k \in DOMAIN edges : edges[k][2] = n}
    BY DEF EdgesLeft
  <2>2. IsFiniteSet(EdgesLeft(edges, {}, n))
    BY <2>1, FS_Subset
  <2> QED BY <2>1, <2>2, FS_CardinalityType DEF Indegree, Left
<1>2. Cardinality({}) = 0
  BY FS_EmptySet
<1>3. Ranks(edges, {}, [n \in {} |-> 0])
  BY DEF Ranks
<1>4. Started(edges) = [indeg |-> [n \in Nodes |-> Left(edges, {}, n)],
                        queue |-> {n \in Nodes : Left(edges, {}, n) = 0}, visited |-> 0]
  BY <1>1 DEF Started
<1> QED BY <1>1, <1>2, <1>3, <1>4 DEF LoopInv

\* A turn keeps the invariant and takes one more node.
LEMMA TurnKeeps ==
  ASSUME NEW edges, IsFiniteSet(DOMAIN edges), Proper(edges),
         \A k \in DOMAIN edges : edges[k] = <<edges[k][1], edges[k][2]>>,
         NEW s, NEW V, LoopInv(edges, s, V), s.queue # {}
  PROVE  \E W : LoopInv(edges, Turn(edges, s), W) /\ Cardinality(W) = Cardinality(V) + 1
<1> DEFINE c == CHOOSE n \in s.queue : \A m \in s.queue : n <= m
           W == V \cup {c}
           t == Turn(edges, s)
<1>1. c \in s.queue
  <2>1. s.queue \in SUBSET Nat
    BY NodesCount DEF LoopInv
  <2> QED BY <2>1, MinExists
<1>2. /\ t.indeg = [n \in Nodes |-> s.indeg[n] - Edges(edges, c, n)]
      /\ t.queue = (s.queue \ {c}) \cup {n \in Nodes : s.indeg[n] \in 1..Edges(edges, c, n)}
      /\ t.visited = s.visited + 1
      /\ t = [indeg |-> t.indeg, queue |-> t.queue, visited |-> t.visited]
  BY DEF Turn
<1> HIDE DEF c, t
<1>3. c \in Nodes /\ c \notin V /\ Left(edges, V, c) = 0 /\ V \subseteq Nodes
  BY <1>1 DEF LoopInv
<1>4. ASSUME NEW n
      PROVE  /\ Left(edges, V, n) \in Nat /\ Edges(edges, c, n) \in Nat
             /\ Left(edges, W, n) \in Nat
             /\ Left(edges, V, n) = Left(edges, W, n) + Edges(edges, c, n)
  BY <1>3, LeftAfter
<1>5. IsFiniteSet(V) /\ Cardinality(V) \in Nat /\ Cardinality(W) = Cardinality(V) + 1
  BY <1>3, NodesCount, FS_Subset, FS_CardinalityType, FS_AddElement
<1>6. PICK rank : Ranks(edges, V, rank)
  BY DEF LoopInv
<1>7. \A n \in V : Left(edges, V, n) = 0
  BY <1>6, NoneLeft DEF Ranks
<1>8. \E r : Ranks(edges, W, r)
  <2> DEFINE r == [n \in W |-> IF n = c THEN Cardinality(W) ELSE rank[n]]
  <2>1. \A n \in V : rank[n] \in 1..Cardinality(V)
    BY <1>6 DEF Ranks
  <2>2. r \in [W -> 1..Cardinality(W)]
    <3> SUFFICES ASSUME NEW n \in W PROVE r[n] \in 1..Cardinality(W)
      OBVIOUS
    <3> QED BY <1>5, <2>1
  <2>3. ASSUME NEW k \in DOMAIN edges, edges[k][2] \in W
        PROVE  edges[k][1] \in W /\ r[edges[k][1]] < r[edges[k][2]]
    <3> DEFINE a == edges[k][1]
               b == edges[k][2]
    <3>1. b = c => a \in V
      BY <1>3, NoneLeft
    <3>2. b # c => b \in V /\ a \in V /\ rank[a] < rank[b]
      BY <1>6, <2>3 DEF Ranks
    <3>3. a \in V /\ a # c
      BY <1>3, <3>1, <3>2
    <3> HIDE DEF a, b
    <3>4. r[a] = rank[a] /\ rank[a] \in 1..Cardinality(V)
      BY <2>1, <3>3
    <3>5. r[a] < r[b]
      <4>1. CASE b = c
        <5>1. r[b] = Cardinality(W)
          BY <4>1
        <5> HIDE DEF r, W
        <5> QED BY <1>5, <3>4, <5>1
      <4>2. CASE b # c
        BY <3>2, <3>4, <4>2
      <4> QED BY <4>1, <4>2
    <3> QED BY <3>3, <3>5 DEF a, b
  <2>4. Ranks(edges, W, r)
    BY <2>2, <2>3 DEF Ranks
  <2> QED BY <2>4
<1>9. \A n \in Nodes : s.indeg[n] = Left(edges, V, n)
  BY DEF LoopInv
<1>10. t.indeg = [n \in Nodes |-> Left(edges, W, n)]
  <2>1. ASSUME NEW n \in Nodes PROVE s.indeg[n] - Edges(edges, c, n) = Left(edges, W, n)
    <3> DEFINE l == Left(edges, V, n)
               m == Left(edges, W, n)
               e == Edges(edges, c, n)
    <3>1. l \in Nat /\ m \in Nat /\ e \in Nat /\ l = m + e
      BY <1>4
    <3>2. s.indeg[n] = l
      BY <1>9
    <3> HIDE DEF l, m, e
    <3>3. s.indeg[n] - e = m
      BY <3>1, <3>2
    <3> QED BY <3>3 DEF m, e
  <2>2. t.indeg = [n \in Nodes |-> s.indeg[n] - Edges(edges, c, n)]
    BY <1>2
  <2> QED BY <2>1, <2>2
<1>11. t.queue = {n \in Nodes \ W : Left(edges, W, n) = 0}
  <2>1. s.queue = {n \in Nodes \ V : Left(edges, V, n) = 0}
    BY DEF LoopInv
  <2>2. ASSUME NEW n \in Nodes
        PROVE  n \in t.queue <=> n \notin W /\ Left(edges, W, n) = 0
    <3> DEFINE l == Left(edges, V, n)
               m == Left(edges, W, n)
               e == Edges(edges, c, n)
    <3>1. l \in Nat /\ m \in Nat /\ e \in Nat /\ l = m + e
      BY <1>4
    <3>2. n \in t.queue <=> (n # c /\ n \notin V /\ l = 0) \/ l \in 1..e
      BY <1>2, <1>9, <2>1
    <3>3. n \in V \/ n = c => l = 0
      BY <1>3, <1>7
    <3> HIDE DEF l, m, e
    <3>4. l \in 1..e <=> l # 0 /\ m = 0
      BY <3>1
    <3>5. l = 0 => m = 0
      BY <3>1
    <3>6. n \notin W <=> n \notin V /\ n # c
      OBVIOUS
    <3> QED BY <3>2, <3>3, <3>4, <3>5, <3>6 DEF m
  <2>3. t.queue \subseteq Nodes
    BY <1>2, <2>1
  <2> QED BY <2>2, <2>3
<1>12. t \in [indeg : [Nodes -> Nat], queue : SUBSET Nodes, visited : Nat]
  <2>1. t.indeg \in [Nodes -> Nat]
    <3>1. \A n \in Nodes : Left(edges, W, n) \in Nat
      BY <1>4
    <3> HIDE DEF W
    <3> QED BY <1>10, <3>1
  <2>2. t.queue \in SUBSET Nodes /\ t.visited \in Nat
    BY <1>2, <1>11 DEF LoopInv
  <2> QED BY <1>2, <2>1, <2>2
<1>13. t.visited = Cardinality(W) /\ W \subseteq Nodes
  BY <1>2, <1>3, <1>5 DEF LoopInv
<1>14. LoopInv(edges, t, W)
  BY <1>8, <1>10, <1>11, <1>12, <1>13 DEF LoopInv
<1> QED BY <1>5, <1>14 DEF t

\* After N turns the queue is empty, with the invariant.
LEMMA LoopEnds ==
  ASSUME NEW edges \in EdgeLists, Proper(edges)
  PROVE  \E V : LoopInv(edges, Loop(edges)[N], V) /\ Loop(edges)[N].queue = {}
<1> DEFINE run == Loop(edges)
           Good(k, V) == LoopInv(edges, run[k], V) /\ (run[k].queue = {} \/ Cardinality(V) = k)
           T == {k \in Nat : k <= N => \E V : Good(k, V)}
<1>1. /\ IsFiniteSet(DOMAIN edges)
      /\ \A k \in DOMAIN edges : edges[k] = <<edges[k][1], edges[k][2]>>
  BY EdgeListFacts
<1>2. run[0] = Started(edges) /\ \A k \in 1..N : run[k] = After(edges, run[k - 1])
  BY LoopSteps
<1> HIDE DEF run
<1>3. 0 \in T
  <2>1. LoopInv(edges, run[0], {}) /\ Cardinality({}) = 0
    BY <1>1, <1>2, LoopStarts, FS_EmptySet
  <2> QED BY <2>1
<1>4. ASSUME NEW k \in T PROVE k + 1 \in T
  <2> SUFFICES ASSUME k + 1 <= N PROVE \E V : Good(k + 1, V)
    OBVIOUS
  <2>1. k \in Nat /\ N \in Nat
    BY ValidateConstants
  <2>2. k <= N /\ k + 1 \in 1..N /\ (k + 1) - 1 = k
    <3> HIDE DEF T
    <3> QED BY <2>1
  <2>3. PICK V : Good(k, V)
    BY <2>2
  <2>4. run[k + 1] = After(edges, run[k])
    BY <1>2, <2>2
  <2> HIDE DEF T
  <2>5. CASE run[k].queue = {}
    <3>1. run[k + 1] = run[k]
      BY <2>4, <2>5 DEF After
    <3> QED BY <2>3, <2>5, <3>1
  <2>6. CASE run[k].queue # {}
    <3>1. run[k + 1] = Turn(edges, run[k])
      BY <2>4, <2>6 DEF After
    <3>2. LoopInv(edges, run[k], V) /\ Cardinality(V) = k
      BY <2>3, <2>6
    <3>3. PICK W : LoopInv(edges, Turn(edges, run[k]), W) /\ Cardinality(W) = Cardinality(V) + 1
      BY <1>1, <2>6, <3>2, TurnKeeps
    <3>4. Good(k + 1, W)
      BY <3>1, <3>2, <3>3
    <3> QED BY <3>4
  <2> QED BY <2>5, <2>6
<1>5. T = Nat
  <2>1. T \in SUBSET Nat
    OBVIOUS
  <2> HIDE DEF T
  <2> QED BY <1>3, <1>4, <2>1, NatSetInduction
<1>6. PICK V : Good(N, V)
  BY <1>5, ValidateConstants
<1>7. Cardinality(V) # N
  <2>1. V \subseteq Nodes
    BY <1>6 DEF LoopInv
  <2>2. Cardinality(V) <= Cardinality(Nodes) /\ Cardinality(V) \in Nat
    BY <2>1, NodesCount, FS_Subset, FS_CardinalityType
  <2> QED BY <2>2, NodesCount, ValidateConstants
<1> QED BY <1>6, <1>7 DEF run

(***************************************************************************)
(* For every number of nodes and of edges, repeated ones included,         *)
(* ValidateDAG accepts exactly the payloads whose graph has a topological  *)
(* order: what its loop took is in such an order, and when it stops with   *)
(* nodes left each of them waits for another.                              *)
(***************************************************************************)
THEOREM ValidationCorrect == Spec => []AcceptsExactlyDags
<1>1. ASSUME NEW edges \in EdgeLists
      PROVE  ValidateDAG(edges) <=> Cardinality(Nodes) >= 2 /\ TopologicalOrderExists(edges)
  <2>1. TopologicalOrderExists(edges) => Proper(edges)
    <3> SUFFICES ASSUME TopologicalOrderExists(edges), NEW k \in DOMAIN edges
                 PROVE  edges[k][1] \in Nodes /\ edges[k][2] \in Nodes /\ edges[k][1] # edges[k][2]
      BY DEF Proper
    <3>1. PICK r \in [Nodes -> Nodes] :
            edges[k][1] \in Nodes /\ edges[k][2] \in Nodes /\ r[edges[k][1]] < r[edges[k][2]]
      BY DEF TopologicalOrderExists
    <3>2. r[edges[k][1]] \in Nat
      BY <3>1, NodesCount
    <3> QED BY <3>1, <3>2
  <2>2. ASSUME Proper(edges)
        PROVE  Visited(edges) = Cardinality(Nodes) <=> TopologicalOrderExists(edges)
    <3>1. PICK V : LoopInv(edges, Loop(edges)[N], V) /\ Loop(edges)[N].queue = {}
      BY <2>2, LoopEnds
    <3>2. V \subseteq Nodes /\ Visited(edges) = Cardinality(V)
      BY <3>1 DEF LoopInv, Visited
    <3>3. Cardinality(V) = Cardinality(Nodes) <=> V = Nodes
      BY <3>2, NodesCount, FS_Subset
    <3>4. V = Nodes => TopologicalOrderExists(edges)
      <4> SUFFICES ASSUME V = Nodes PROVE TopologicalOrderExists(edges)
        OBVIOUS
      <4>1. PICK rank : Ranks(edges, Nodes, rank)
        BY <3>1 DEF LoopInv
      <4>2. 1..Cardinality(Nodes) = Nodes
        BY NodesCount DEF Nodes
      <4> QED BY <2>2, <4>1, <4>2 DEF Ranks, Proper, TopologicalOrderExists
    <3>5. ASSUME TopologicalOrderExists(edges), V # Nodes PROVE FALSE
      <4>1. PICK r \in [Nodes -> Nodes] : \A k \in DOMAIN edges :
              edges[k][1] \in Nodes /\ edges[k][2] \in Nodes /\ r[edges[k][1]] < r[edges[k][2]]
        BY <3>5 DEF TopologicalOrderExists
      <4> DEFINE Q == {r[n] : n \in Nodes \ V}
      <4>2. Q \in SUBSET Nat /\ Q # {}
        BY <3>2, <3>5, NodesCount
      <4>3. PICK q \in Q : \A m \in Q : q <= m
        <5> HIDE DEF Q
        <5> QED BY <4>2, MinExists
      <4>4. PICK n \in Nodes \ V : r[n] = q
        OBVIOUS
      <4>5. ASSUME NEW k \in DOMAIN edges, edges[k][2] = n, edges[k][1] \notin V PROVE FALSE
        <5>1. edges[k][1] \in Nodes \ V /\ r[edges[k][1]] < q
          BY <4>1, <4>4, <4>5
        <5>2. r[edges[k][1]] \in Q
          BY <5>1
        <5>3. q <= r[edges[k][1]]
          BY <4>3, <5>2
        <5>4. q \in Nat /\ r[edges[k][1]] \in Nat
          BY <4>2, <5>2
        <5> QED BY <5>1, <5>3, <5>4
      <4>6. Left(edges, V, n) = 0
        BY <4>5, NoneLeft, EdgeListFacts
      <4> QED BY <3>1, <4>4, <4>6 DEF LoopInv
    <3> QED BY <3>2, <3>3, <3>4, <3>5
  <2> QED BY <2>1, <2>2 DEF ValidateDAG, Proper
<1>2. AcceptsExactlyDags
  BY <1>1 DEF AcceptsExactlyDags
<1> QED BY <1>2, PTL
=============================================================================
