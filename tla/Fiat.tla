-------------------------------- MODULE Fiat --------------------------------
(***************************************************************************)
(* The settlement module, internal/modules/fiat/module.go, with the money  *)
(* arithmetic of internal/types/money.go.                                  *)
(*                                                                         *)
(* fiat/e/<id> holds escrows, fiat/d/<provider> deposit accounts and       *)
(* fiat/p the insurance pool.  No handler checks who sends it, so senders  *)
(* appear only where the code uses them as a key.                          *)
(*                                                                         *)
(* Amounts.  The code stores decimal strings with 8 fractional digits and  *)
(* computes with rationals, rounding every stored result.  Here an amount  *)
(* is a number of subunits, Sub of which make one stored unit (10^-8).     *)
(* Sub = 1 says that payloads carry at most 8 digits; a larger Sub lets    *)
(* them carry more.  An amount may be negative: ParseDecimal accepts a     *)
(* sign and only distributeCommission looks at one.  Two history variables *)
(* follow what a negative payload can reach.                               *)
(* An amount that does not parse makes addDecimal panic before any write:  *)
(* that ends the block and is modelled in Chain.                           *)
(***************************************************************************)
EXTENDS Integers, FiniteSetsExt

CONSTANTS
  EscrowIds,     \* escrow ids
  Providers,     \* owners of deposit accounts
  Fees,          \* service fees in a create_escrow payload
  BPS,           \* commission_bps in a create_escrow payload; 0 means default
  Amounts,       \* amounts in deposit, withdraw and slash payloads
  Sub,           \* subunits in one stored unit
  StarterMin, ProMin, EnterpriseMin,  \* the deposit floors of the tiers
  Unbonding,     \* seven days
  MaxTime,       \* bound: the last block time explored
  MaxFundings,   \* bound: fundings of one escrow id
  MaxTotal,      \* bound: what a provider's totals and the pool reach
  MaxDebt        \* bound: how far below zero they fall

ASSUME FiatConstants ==
  /\ Fees \subseteq Int /\ BPS \subseteq Nat /\ Amounts \subseteq Int
  /\ Sub \in Nat \ {0}
  /\ StarterMin \in Nat /\ ProMin \in Nat /\ EnterpriseMin \in Nat
  /\ StarterMin <= ProMin /\ ProMin <= EnterpriseMin
  /\ Unbonding \in Nat /\ MaxTime \in Nat
  /\ MaxFundings \in Nat /\ MaxTotal \in Nat /\ MaxDebt \in Nat

VARIABLES
  escrow,       \* fiat/e/: partial function from EscrowIds
  deposit,      \* fiat/d/: partial function from Providers
  pool,         \* fiat/p
  now,          \* the time of the block being executed
  fundings,     \* history: how often each escrow id was funded
  settlements,  \* history: how often it was released or refunded
  releases,     \* history: how many releases there were
  withdrawn,    \* history: what each provider has withdrawn
  tainted,      \* history: the accounts a negative payload has named
  drained       \* history: the balances a slash may have taken money from

storeVars == <<escrow, deposit, pool>>
signs == <<tainted, drained>>
history == <<fundings, settlements, releases, withdrawn, signs>>
vars == <<escrow, deposit, pool, now, history>>

Currencies == {"CNY", "USD"}
Tiers == {"starter", "pro", "enterprise"}
EscrowStatuses == {"ESCROW_PENDING", "ESCROW_FUNDED", "ESCROW_LOCKED",
                   "ESCROW_RELEASED", "ESCROW_REFUNDED"}

Escrow == [fee : Int, commission : Int, total : Int, currency : Currencies,
           status : EscrowStatuses]

DepositAccount == [totalDeposited : Int, available : Int, slashed : Int,
                   lastDepositAt : Nat, tier : Tiers]

InsurancePool == [balance : [Currencies -> Int], totalIncome : Int]

-----------------------------------------------------------------------------
(* Arithmetic: Rat.FloatString(8) rounds to the nearest, halves away from  *)
(* zero.                                                                   *)

RoundDiv(n, d) ==
  IF n >= 0 THEN (2 * n + d) \div (2 * d) ELSE -((d - 2 * n) \div (2 * d))

\* FormatDecimal(x, 8): x rounded to a whole number of stored units.
Format8(x) == Sub * RoundDiv(x, Sub)

\* ApplyBPS: the part bps/10000 of fee, rounded.
ApplyBPS(fee, bps) == Sub * RoundDiv(fee * bps, 10000 * Sub)

EffectiveBPS(bps) == IF bps = 0 THEN 1200 ELSE bps

\* The share the pool would get if validators' 40 percent went to it.
DoubleInsuranceShare(commission) == Sub * RoundDiv(40 * commission, 100 * Sub)

\* distributeCommission pays 20 percent into the pool; the other shares are
\* computed and dropped.
InsuranceShare(commission) == Sub * RoundDiv(20 * commission, 100 * Sub)

tierFor(available) ==
  IF available >= EnterpriseMin THEN "enterprise"
  ELSE IF available >= ProMin THEN "pro" ELSE "starter"

minDepositForTier(tier) ==
  CASE tier = "enterprise" -> EnterpriseMin
    [] tier = "pro" -> ProMin
    [] OTHER -> StarterMin

Saved(f, k, v) == [i \in DOMAIN f \cup {k} |-> IF i = k THEN v ELSE f[i]]

-----------------------------------------------------------------------------
Init ==
  /\ escrow = [i \in {} |-> 0]
  /\ deposit = [i \in {} |-> 0]
  /\ pool = [balance |-> [c \in Currencies |-> 0], totalIncome |-> 0]
  /\ now = 1
  /\ fundings = [i \in EscrowIds |-> 0]
  /\ settlements = [i \in EscrowIds |-> 0]
  /\ releases = 0
  /\ withdrawn = [p \in Providers |-> 0]
  /\ tainted = {}
  /\ drained = {}

\* Nothing looks for an escrow that already has this id.
createEscrow(id, fee, bps, cur) ==
  LET commission == ApplyBPS(fee, EffectiveBPS(bps)) IN
  /\ escrow' = Saved(escrow, id,
       [fee |-> fee, commission |-> commission, total |-> Format8(fee + commission),
        currency |-> cur, status |-> "ESCROW_PENDING"])
  /\ UNCHANGED <<deposit, pool, now, history>>

SetStatus(id, st) == escrow' = [escrow EXCEPT ![id].status = st]

fundEscrow(id) ==
  /\ escrow[id].status = "ESCROW_PENDING"
  /\ fundings[id] < MaxFundings
  /\ SetStatus(id, "ESCROW_FUNDED")
  /\ fundings' = [fundings EXCEPT ![id] = @ + 1]
  /\ UNCHANGED <<deposit, pool, now, settlements, releases, withdrawn, signs>>

lockEscrow(id) ==
  /\ escrow[id].status = "ESCROW_FUNDED"
  /\ SetStatus(id, "ESCROW_LOCKED")
  /\ UNCHANGED <<deposit, pool, now, history>>

Held(st) == st \in {"ESCROW_FUNDED", "ESCROW_LOCKED"}

\* A release or refund that also accepts an escrow already paid out.
HeldOrReleased(st) == Held(st) \/ st = "ESCROW_RELEASED"

\* The guard release and refund share.
MaySettle(st) == Held(st)

Settle(id, st) ==
  /\ SetStatus(id, st)
  /\ settlements' = [settlements EXCEPT ![id] = @ + 1]

\* distributeCommission refuses a commission of zero before any write.
releaseEscrow(id) ==
  LET e == escrow[id] IN
  /\ MaySettle(e.status)
  /\ e.commission > 0
  /\ Settle(id, "ESCROW_RELEASED")
  /\ pool' = [balance |-> [pool.balance EXCEPT ![e.currency] =
                             Format8(@ + InsuranceShare(e.commission))],
              totalIncome |-> Format8(pool.totalIncome + e.commission)]
  /\ releases' = releases + 1
  /\ UNCHANGED <<deposit, now, fundings, withdrawn, signs>>

refundEscrow(id) ==
  /\ MaySettle(escrow[id].status)
  /\ Settle(id, "ESCROW_REFUNDED")
  /\ UNCHANGED <<deposit, pool, now, fundings, releases, withdrawn, signs>>

NewAccount == [totalDeposited |-> 0, available |-> 0, slashed |-> 0,
               lastDepositAt |-> 0, tier |-> "starter"]

Bounded(x) == x \in -MaxDebt..MaxTotal

\* Nothing rejects a negative amount: what it names is tainted from then on.
Taint(p, amount) == tainted' = IF amount < 0 THEN tainted \cup {p} ELSE tainted

\* A slash moves a negative amount when the payload, or what is available, is one.
Drain(p, amount, cur) ==
  drained' = IF amount < 0 \/ p \in tainted THEN drained \cup {cur} ELSE drained

\* A deposit that forgets to recompute the tier.
KeepTier(acc, available) == acc.tier

TierAfterDeposit(acc, available) == tierFor(available)

depositFunds(p, amount) ==
  LET acc == IF p \in DOMAIN deposit THEN deposit[p] ELSE NewAccount
      available == Format8(acc.available + amount) IN
  /\ Bounded(acc.totalDeposited + amount)
  /\ deposit' = Saved(deposit, p,
       [acc EXCEPT !.totalDeposited = Format8(@ + amount),
                   !.available = available,
                   !.lastDepositAt = now,
                   !.tier = TierAfterDeposit(acc, available)])
  /\ Taint(p, amount)
  /\ UNCHANGED <<escrow, pool, now, fundings, settlements, releases, withdrawn, drained>>

\* The slash of the whole amount, whatever is available.
UncappedSlash(acc, amount) == amount

CappedSlash(acc, amount) == IF acc.available < amount THEN acc.available ELSE amount

\* A slash that records what was asked for and takes what there is.
slashRecordsRequest(p, amount, cur) ==
  LET acc == deposit[p]
      slash == CappedSlash(acc, amount) IN
  /\ Bounded(acc.slashed + slash) /\ Bounded(pool.balance[cur] + slash)
  /\ deposit' = [deposit EXCEPT ![p] =
       [acc EXCEPT !.available = Format8(@ - slash), !.slashed = Format8(@ + amount)]]
  /\ pool' = [pool EXCEPT !.balance[cur] = Format8(@ + slash)]
  /\ Taint(p, amount) /\ Drain(p, amount, cur)
  /\ UNCHANGED <<escrow, now, fundings, settlements, releases, withdrawn>>

\* The tier is not recomputed.
slashDeposit(p, amount, cur) ==
  LET acc == deposit[p]
      slash == CappedSlash(acc, amount) IN
  /\ Bounded(acc.slashed + slash) /\ Bounded(pool.balance[cur] + slash)
  /\ deposit' = [deposit EXCEPT ![p] =
       [acc EXCEPT !.available = Format8(@ - slash), !.slashed = Format8(@ + slash)]]
  /\ pool' = [pool EXCEPT !.balance[cur] = Format8(@ + slash)]
  /\ Taint(p, amount) /\ Drain(p, amount, cur)
  /\ UNCHANGED <<escrow, now, fundings, settlements, releases, withdrawn>>

withdrawDeposit(p, amount) ==
  LET acc == deposit[p]
      newAvail == Format8(acc.available - amount) IN
  /\ now - acc.lastDepositAt >= Unbonding
  /\ amount <= acc.available
  /\ newAvail >= minDepositForTier(acc.tier)
  /\ Bounded(withdrawn[p] + amount)
  /\ deposit' = [deposit EXCEPT ![p].available = newAvail]
  /\ withdrawn' = [withdrawn EXCEPT ![p] = @ + amount]
  /\ Taint(p, amount)
  /\ UNCHANGED <<escrow, pool, now, fundings, settlements, releases, drained>>

(***************************************************************************)
(* EndBlock writes nothing (it compares the pool with a threshold that is  *)
(* always zero, because nothing sets max_single_payout); the next block    *)
(* has a time that is not earlier.                                         *)
(***************************************************************************)
EndBlock ==
  /\ now' \in now..MaxTime
  /\ UNCHANGED <<storeVars, history>>

Next ==
  \/ \E id \in EscrowIds, fee \in Fees, bps \in BPS, cur \in Currencies :
       createEscrow(id, fee, bps, cur)
  \/ \E id \in DOMAIN escrow : fundEscrow(id)
  \/ \E id \in DOMAIN escrow : lockEscrow(id)
  \/ \E id \in DOMAIN escrow : releaseEscrow(id)
  \/ \E id \in DOMAIN escrow : refundEscrow(id)
  \/ \E p \in Providers, a \in Amounts : depositFunds(p, a)
  \/ \E p \in DOMAIN deposit, a \in Amounts, c \in Currencies : slashDeposit(p, a, c)
  \/ \E p \in DOMAIN deposit, a \in Amounts : withdrawDeposit(p, a)
  \/ EndBlock

Spec == Init /\ [][Next]_vars

-----------------------------------------------------------------------------
(***************************************************************************)
(* Types of the stored records: a tier is always one of the three.         *)
(***************************************************************************)
TypeOK ==
  /\ DOMAIN escrow \subseteq EscrowIds
  /\ escrow = [i \in DOMAIN escrow |-> escrow[i]]
  /\ \A i \in DOMAIN escrow : escrow[i] \in Escrow
  /\ DOMAIN deposit \subseteq Providers
  /\ deposit = [p \in DOMAIN deposit |-> deposit[p]]
  /\ \A p \in DOMAIN deposit : deposit[p] \in DepositAccount
  /\ pool \in InsurancePool
  /\ now \in Nat
  /\ fundings \in [EscrowIds -> Nat]
  /\ settlements \in [EscrowIds -> Nat]
  /\ releases \in Nat
  /\ withdrawn \in [Providers -> Int]
  /\ tainted \subseteq Providers
  /\ drained \subseteq Currencies

(***************************************************************************)
(* However escrow ids are reused, locked, released and refunded, an id is  *)
(* paid out at most as often as it was funded, and while it is held one    *)
(* funding is still unpaid: no double release, no refund after a release.  *)
(***************************************************************************)
PaidOutOnce ==
  \A id \in EscrowIds :
    /\ settlements[id] <= fundings[id]
    /\ id \in DOMAIN escrow /\ Held(escrow[id].status)
         => settlements[id] < fundings[id]

(***************************************************************************)
(* With payloads of at most 8 digits, no sequence of deposits, slashes and *)
(* withdrawals creates or loses money, not even with negative amounts:     *)
(* what a provider ever put in is available, slashed or withdrawn.         *)
(***************************************************************************)
DepositConserved ==
  \A p \in DOMAIN deposit :
    deposit[p].available + deposit[p].slashed + withdrawn[p] = deposit[p].totalDeposited

(***************************************************************************)
(* No order of deposits, slashes and withdrawals overdraws an account:     *)
(* slashes are capped by what earlier slashes and withdrawals left         *)
(* (slashDeposit).  The code takes negative amounts too, which can         *)
(* overdraw what they name; but they overdraw nothing else: an account no  *)
(* negative payload has named, and a pool balance no slash with a negative *)
(* payload or of such an account has named, never fall below zero.         *)
(***************************************************************************)
NoOverdraft ==
  /\ \A p \in DOMAIN deposit \ tainted :
       deposit[p].available >= 0 /\ deposit[p].slashed >= 0
  /\ \A c \in Currencies \ drained : pool.balance[c] >= 0

(***************************************************************************)
(* The insurance pool holds exactly what was slashed plus a fifth of the   *)
(* commissions, up to the rounding of each release (distributeCommission,  *)
(* slashDeposit): at most two fifths of a unit per release.                *)
(***************************************************************************)
PoolIsBacked ==
  LET slashed == MapThenSumSet(LAMBDA p : deposit[p].slashed, DOMAIN deposit)
      shares == pool.balance["CNY"] + pool.balance["USD"] - slashed
      drift == 5 * shares - pool.totalIncome IN
  drift <= 2 * releases /\ -drift <= 2 * releases

(***************************************************************************)
(* The stored tier, which slashing does not update, never understates what *)
(* the available balance deserves; so a withdrawal, which checks the       *)
(* stored tier, never takes a provider below the tier it really has.  Only *)
(* an account that a negative payload has named may escape this: a         *)
(* negative slash or withdrawal raises the balance and not the tier.       *)
(***************************************************************************)
WithdrawKeepsTier ==
  [][\A p \in DOMAIN deposit \ tainted' :
       /\ minDepositForTier(deposit'[p].tier) >= minDepositForTier(tierFor(deposit'[p].available))
       /\ withdrawn'[p] # withdrawn[p] =>
            tierFor(deposit'[p].available) = tierFor(deposit[p].available)]_vars
=============================================================================
