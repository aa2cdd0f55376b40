\* Two listings of either of two parties competing for one order; a millionth is a
\* tenth of a unit, so that prices, capabilities and the epsilon all weigh in.
CONSTANTS
  ListingIds = {1, 2}
  OrderIds = {o1}
  Actors = {alice, bob}
  CapLists <- TwoLists
  Required <- Needs
  Currencies = {"CNY", "USD"}
  Prices = {0, 3}
  BadPrice = BadPrice
  Budgets = {1, 3}
  Micro = 10
  None = None
SPECIFICATION Spec
INVARIANTS IndexCoversListings OrderNamesItsProvider
PROPERTIES NoBetterOffer OrdersOnlyAdvance
CHECK_DEADLOCK FALSE
