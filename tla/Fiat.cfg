\* A provider crossing the tier floors 1, 2 and 4, and an escrow id used twice, with
\* commissions of 0, 2 and 3 units; amounts of either sign.
CONSTANTS
  EscrowIds = {e1}
  Providers = {p1}
  Fees = {20}
  BPS = {0, 1, 1500}
  Amounts <- SomeAmounts
  Sub = 1
  StarterMin = 1
  ProMin = 2
  EnterpriseMin = 4
  Unbonding = 1
  MaxTime = 2
  MaxFundings = 2
  MaxTotal = 5
  MaxDebt = 1
SPECIFICATION Spec
INVARIANTS PaidOutOnce DepositConserved NoOverdraft PoolIsBacked
PROPERTIES WithdrawKeepsTier
