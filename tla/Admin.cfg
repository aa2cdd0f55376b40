\* Five transactions to the three modules: scores that decay, are set back and
\* overridden, three keys that compete, rotate and are banned, and a proposal
\* that is voted on, put up again and executed.
CONSTANTS
  Entities = {"e1", "e2"}
  Updates <- SomeUpdates
  Overrides = {0, 70}
  Epochs = {0, 3, 8}
  Base = 50
  Top = 60
  Floor = 10
  DecayDiv = 5
  EpochWidth = 16
  MaxTasks = 2
  Keys = {1, 2, 3}
  Tiers = {"T1_FULL", "T4_EDGE"}
  Deposits = {0, 3, 9}
  Wrap = 8
  Exact = 5
  MaxValidators = {0, 1}
  MaxRegs = 2
  ProposalIds = {"p1"}
  Voters = {"v1"}
  Params = {"p", "q"}
  ChangeLists <- SomeChanges
  Unset = Unset
  MaxBallots = 3
  BlockEpochs = {0, 4}
  MaxAdminTxs = 5
SPECIFICATION AdminSpec
INVARIANTS TotalFollowsParts DecayIsRateLimited OnlyElectedAreActive
PROPERTIES ElectionIsByStake ParamsChangeOnlyByApproval
CHECK_DEADLOCK FALSE
