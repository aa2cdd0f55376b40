\* Two stories at the same time; the second one's request matches the first one's listing.
CONSTANTS
  Stories = {1, 2}
  RivalIds = {0}
  RivalPrices = {150, 199}
  BadPrice = BadPrice
  None = None
  NoResult = NoResult
  Nothing = Nothing
  Nobody = Nobody
  MaxTime = 1
  MaxForeign = 1
SPECIFICATION Spec
INVARIANTS OrderIsTraceable
