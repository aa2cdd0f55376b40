\* Two stories at the same time, the caputxo demonstration, a rival listing at the
\* same or a lower price, one transaction of another client on a story's records,
\* and empty blocks.
CONSTANTS
  Stories = {1, 2}
  RivalIds = {0}
  RivalPrices = {150, 199}
  BadPrice = BadPrice
  None = None
  NoResult = NoResult
  Nothing = Nothing
  Nobody = Nobody
  MaxTime = 1
  MaxForeign = 1
SPECIFICATION Spec
INVARIANTS StoriesDoNotInterfere
PROPERTIES StoriesFinish
