------------------------------- MODULE Weave -------------------------------
(***************************************************************************)
(* The DAG scheduler, internal/modules/weave/module.go.                    *)
(*                                                                         *)
(* weave/d/<id> holds DAGs with their nodes.  The id comes from the        *)
(* payload, so creating may overwrite.  No handler checks the sender, and  *)
(* only start_dag and EndBlock look at the DAG's status.  EndBlock moves   *)
(* every node of a running DAG on by one stage; it does not look at the    *)
(* edges, which matter only for ValidateDAG (see WeaveValidate) and are    *)
(* left out here.  A DAG is created with nodes in any status.              *)
(***************************************************************************)
EXTENDS Integers, FiniteSets

CONSTANTS
  DagIds,         \* DAG ids
  NodeIds,        \* node ids
  Timeouts,       \* global_timeout_sec in payloads
  Wrap,           \* 2^63: int64(global_timeout_sec) wraps there
  OtherStatuses,  \* node statuses outside the scheduler's, set by a client
  MaxTime,        \* bound: the last block time explored
  LastTx          \* bound: the block time after which clients fall silent

ASSUME WeaveConstants ==
  /\ Wrap \in Nat \ {0} /\ Timeouts \subseteq 0..(2 * Wrap - 1) /\ MaxTime \in Nat /\ LastTx \in Nat

VARIABLES
  dag,  \* weave/d/: partial function from DagIds
  now   \* the time of the block being executed

vars == <<dag, now>>

Scheduled == {"NODE_PENDING", "NODE_READY", "NODE_RUNNING", "NODE_COMPLETED", "NODE_SKIPPED"}
NodeStatuses == Scheduled \cup OtherStatuses
DagStatuses == {"DAG_PENDING", "DAG_RUNNING", "DAG_COMPLETED", "DAG_FAILED", "DAG_CANCELED"}

TaskDAG(ns) == [nodes : [ns -> NodeStatuses], status : DagStatuses,
                startedAt : Nat, timeout : 1..(2 * Wrap - 1)]

Dags == DOMAIN dag

saveDAG(id, d) == [i \in Dags \cup {id} |-> IF i = id THEN d ELSE dag[i]]

-----------------------------------------------------------------------------
Init ==
  /\ dag = [i \in {} |-> 0]
  /\ now = 1

\* What ValidateDAG asks of nodes and timeout; it also refuses cycles.
ValidNodesAndTimeout(nodes, timeout) == Cardinality(DOMAIN nodes) >= 2 /\ timeout > 0

createDAG(id, nodes, timeout) ==
  /\ now <= LastTx
  /\ ValidNodesAndTimeout(nodes, timeout)
  /\ dag' = saveDAG(id, [nodes |-> nodes, status |-> "DAG_PENDING",
                         startedAt |-> 0, timeout |-> timeout])
  /\ UNCHANGED now

Startable(st) == st = "DAG_PENDING"

startDAG(id) ==
  /\ now <= LastTx
  /\ Startable(dag[id].status)
  /\ dag' = [dag EXCEPT ![id] =
       [dag[id] EXCEPT !.status = "DAG_RUNNING", !.startedAt = now,
                       !.nodes = [n \in DOMAIN dag[id].nodes |-> "NODE_PENDING"]]]
  /\ UNCHANGED now

\* Any status of the DAG, any text as the node's status; an unknown node is
\* no error and changes nothing.
updateNodeStatus(id, n, status) ==
  /\ now <= LastTx
  /\ dag' = IF n \in DOMAIN dag[id].nodes
              THEN [dag EXCEPT ![id].nodes[n] = status] ELSE dag
  /\ UNCHANGED now

submitNodeOutput(id, n) ==
  /\ now <= LastTx
  /\ dag' = IF n \in DOMAIN dag[id].nodes
              THEN [dag EXCEPT ![id].nodes[n] = "NODE_COMPLETED"] ELSE dag
  /\ UNCHANGED now

\* Whatever the status was.
cancelDAG(id) ==
  /\ now <= LastTx
  /\ dag' = [dag EXCEPT ![id].status = "DAG_CANCELED"]
  /\ UNCHANGED now

-----------------------------------------------------------------------------
\* One stage: a pending node passes through ready within the same block.
NextStage(st) ==
  CASE st \in {"NODE_PENDING", "NODE_READY"} -> "NODE_RUNNING"
    [] st = "NODE_RUNNING" -> "NODE_COMPLETED"
    [] OTHER -> st

\* A DAG that is done when it has no node running.
DoneWhenIdle(nodes) == \A n \in DOMAIN nodes : nodes[n] # "NODE_RUNNING"

AllDone(nodes) == \A n \in DOMAIN nodes : nodes[n] \in {"NODE_COMPLETED", "NODE_SKIPPED"}

progressDag(d) ==
  LET nodes == [n \in DOMAIN d.nodes |-> NextStage(d.nodes[n])] IN
    [d EXCEPT !.nodes = nodes,
              !.status = IF AllDone(nodes) THEN "DAG_COMPLETED" ELSE @]

Int64(t) == IF t < Wrap THEN t ELSE t - 2 * Wrap

Expired(d) == d.timeout > 0 /\ now - d.startedAt > Int64(d.timeout)

\* A loop that skips a DAG past its timeout instead of failing it.
SkipExpired(d) ==
  IF d.status # "DAG_RUNNING" \/ Expired(d) THEN d ELSE progressDag(d)

\* EndBlock's loop over all DAGs, and the start of a block not earlier.
Ended(d) ==
  CASE d.status # "DAG_RUNNING" -> d
    [] d.status = "DAG_RUNNING" /\ Expired(d) -> [d EXCEPT !.status = "DAG_FAILED"]
    [] OTHER -> progressDag(d)

EndBlock ==
  /\ dag' = [i \in Dags |-> Ended(dag[i])]
  /\ now' \in now..MaxTime

Next ==
  \/ \E id \in DagIds, ns \in SUBSET NodeIds, t \in Timeouts :
       \E nodes \in [ns -> NodeStatuses] : createDAG(id, nodes, t)
  \/ \E id \in Dags : startDAG(id)
  \/ \E id \in Dags, n \in NodeIds, st \in NodeStatuses : updateNodeStatus(id, n, st)
  \/ \E id \in Dags, n \in NodeIds : submitNodeOutput(id, n)
  \/ \E id \in Dags : cancelDAG(id)
  \/ EndBlock

Spec == Init /\ [][Next]_vars

(***************************************************************************)
(* Blocks keep coming and their time moves on; clients owe nothing.        *)
(***************************************************************************)
FairSpec ==
  /\ Spec
  /\ WF_vars(EndBlock)
  /\ WF_vars(EndBlock /\ now' > now)

-----------------------------------------------------------------------------
(***************************************************************************)
(* Types of the stored DAGs.                                               *)
(***************************************************************************)
TypeOK ==
  /\ Dags \subseteq DagIds
  /\ \A i \in Dags : \E ns \in SUBSET NodeIds : dag[i] \in TaskDAG(ns)
  /\ now \in Nat

(***************************************************************************)
(* A DAG only completes in the block in which its last node is done, after *)
(* having been started, and never once its timeout has passed (a timeout   *)
(* of 2^63 seconds or more, which wraps to a negative one, always has).    *)
(* Clients and scheduler cannot bring a finished DAG back: completed,      *)
(* failed or canceled it stays so, or is canceled, or is created anew.     *)
(***************************************************************************)
OutcomeIsEarnedAndFinal ==
  [][\A i \in Dags :
       /\ (dag[i].status # "DAG_COMPLETED" /\ dag'[i].status = "DAG_COMPLETED") =>
            /\ dag[i].status = "DAG_RUNNING"
            /\ \A n \in DOMAIN dag'[i].nodes :
                 dag'[i].nodes[n] \in {"NODE_COMPLETED", "NODE_SKIPPED"}
            /\ dag[i].timeout < Wrap /\ now <= dag[i].startedAt + dag[i].timeout
       /\ dag[i].status \in {"DAG_COMPLETED", "DAG_FAILED", "DAG_CANCELED"} =>
            \/ dag'[i].status \in {dag[i].status, "DAG_CANCELED"}
            \/ dag'[i].status = "DAG_PENDING" /\ dag'[i].startedAt = 0]_vars

(***************************************************************************)
(* A started DAG ends: its nodes finish, it is canceled or replaced, or    *)
(* the global timeout fails it, even if a client left a node in a status   *)
(* the scheduler does not move.                                            *)
(***************************************************************************)
RunningDagEnds ==
  \A i \in DagIds :
    (i \in Dags /\ dag[i].status = "DAG_RUNNING")
      ~> ~(i \in Dags /\ dag[i].status = "DAG_RUNNING")
=============================================================================
