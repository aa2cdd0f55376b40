\* One task id created by either of two senders, a result and the empty one; the
\* senders fall silent two blocks before the end.
CONSTANTS
  TaskIds = {t1}
  Actors = {alice, bob}
  Results = {r1, NoResult}
  RetryLimits = {0, 1, 2}
  Timestamps = {0, 1}
  NoResult = NoResult
  Nothing = Nothing
  Timeout = 1
  MaxSeq = 2
  MaxTime = 5
  LastBeat = 3
  MaxFails = 4
SPECIFICATION FairSpec
INVARIANTS SettledResultWasVerified
PROPERTIES LateHeartbeatIsHarmless SilentTaskEnds
