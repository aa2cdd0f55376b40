\* One minted capability and two derived, in a chain or side by side; payloads
\* range over every kind of limit, a negative expiry included.  UseBound bounds
\* only capabilities without a limit, which are not used here; the others are
\* used up to their limit of 1 or 2.
CONSTANTS
  RootIds = {r}
  ChildIds = {c1, c2}
  Actors = {alice}
  CapTypes = {t}
  ScopeNames = {s1, s2}
  Expiries <- PayloadExpiries
  UseLimits = {0, 1, 2}
  Depths = {1, 2}
  MaxTime = 2
  UseBound = 0
  None = None
SYMMETRY IdSymmetry
SPECIFICATION Spec
INVARIANTS TypeOK DeriveIndexSound NoAmplification
PROPERTIES StatusOnlyEnds NoStrandedChild SweepIsComplete NoUsePastAncestorExpiry
CHECK_DEADLOCK FALSE
