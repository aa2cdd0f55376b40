\* One minted capability and three derived from it: chains, forks and both.
CONSTANTS
  RootIds = {r}
  ChildIds = {c1, c2, c3}
  Actors = {alice}
  CapTypes = {t}
  ScopeNames = {s}
  Expiries = {0, 2}
  UseLimits = {1}
  Depths = {3}
  MaxTime = 2
  UseBound = 1
  None = None
SYMMETRY OrderSymmetry
SPECIFICATION Spec
INVARIANTS RevokeComputesCascade SweepIsOrderIndependent
CHECK_DEADLOCK FALSE
