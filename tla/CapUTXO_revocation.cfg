\* The documented effect of revoke_capability on the capabilities below it.
CONSTANTS
  RootIds = {r}
  ChildIds = {c1, c2}
  Actors = {alice}
  CapTypes = {t}
  ScopeNames = {s}
  Expiries = {0}
  UseLimits = {0, 1}
  Depths = {2}
  MaxTime = 1
  UseBound = 1
  None = None
SPECIFICATION Spec
INVARIANTS RevokedTreeIsDead
CHECK_DEADLOCK FALSE
