\* One DAG of two or three nodes, a timeout of one or two seconds or one that wraps
\* to a negative number; the clients fall silent after the second block.  Graphs of
\* three declared nodes and an unknown one, with up to four edges.
CONSTANTS
  DagIds = {d1}
  NodeIds = {n1, n2, n3}
  Wrap = 4
  Timeouts = {0, 1, 2, 7}
  OtherStatuses = {"NODE_FAILED"}
  MaxTime = 5
  LastTx = 2
  N = 4
  MaxEdges = 4
SPECIFICATION FairSpec
INVARIANTS AcceptsExactlyDags
PROPERTIES OutcomeIsEarnedAndFinal RunningDagEnds
