----------------------------- MODULE FiatProofs -----------------------------
(***************************************************************************)
(* Proofs about Fiat, for every set of escrows and providers, every tier   *)
(* table and every amount.  That the insurance pool holds what was put in  *)
(* it needs a sum over all accounts: a fold over a finite set, shown not   *)
(* to depend on the order and to change by what one save adds.             *)
(***************************************************************************)
EXTENDS Fiat, TLAPS, FiniteSetTheorems, WellFoundedInduction, NaturalsInduction

\* Division of naturals.
LEMMA DivNat == \A n \in Nat, d \in Nat \ {0} : n \div d \in Nat
OBVIOUS

\* Rounding gives an integer, and a natural number for a natural one.
LEMMA RoundDivType ==
  ASSUME NEW n \in Int, NEW d \in Nat \ {0}
  PROVE  RoundDiv(n, d) \in Int /\ (n >= 0 => RoundDiv(n, d) \in Nat)
<1>1. CASE n >= 0
  <2>1. 2 * n + d \in Nat /\ 2 * d \in Nat \ {0}
    BY <1>1
  <2>2. (2 * n + d) \div (2 * d) \in Nat
    BY <2>1, DivNat
  <2> QED BY <1>1, <2>2 DEF RoundDiv
<1>2. CASE ~(n >= 0)
  <2>1. d - 2 * n \in Nat /\ 2 * d \in Nat \ {0}
    BY <1>2
  <2>2. (d - 2 * n) \div (2 * d) \in Nat
    BY <2>1, DivNat
  <2> QED BY <1>2, <2>2 DEF RoundDiv
<1> QED BY <1>1, <1>2

\* A product of integers, and of naturals.
LEMMA TimesType ==
  /\ \A a \in Int, b \in Int : a * b \in Int
  /\ \A a \in Nat, b \in Nat : a * b \in Nat
OBVIOUS

\* Formatting to 8 digits gives an amount, and never a negative one for an
\* amount that is not negative.
LEMMA Format8Type ==
  ASSUME NEW x \in Int
  PROVE  Format8(x) \in Int /\ (x >= 0 => Format8(x) \in Nat)
<1>1. RoundDiv(x, Sub) \in Int /\ (x >= 0 => RoundDiv(x, Sub) \in Nat)
  BY RoundDivType, FiatConstants
<1> QED BY <1>1, TimesType, FiatConstants DEF Format8

\* The commission of create_escrow is an amount.
LEMMA CommissionType ==
  \A fee \in Int, bps \in Nat : ApplyBPS(fee, EffectiveBPS(bps)) \in Int
<1> SUFFICES ASSUME NEW fee \in Int, NEW bps \in Nat
             PROVE  ApplyBPS(fee, EffectiveBPS(bps)) \in Int
  OBVIOUS
<1>1. EffectiveBPS(bps) \in Int
  BY DEF EffectiveBPS
<1>2. fee * EffectiveBPS(bps) \in Int /\ 10000 * Sub \in Nat \ {0}
  BY <1>1, TimesType, FiatConstants
<1>3. RoundDiv(fee * EffectiveBPS(bps), 10000 * Sub) \in Int
  BY <1>2, RoundDivType
<1> QED BY <1>3, TimesType, FiatConstants DEF ApplyBPS

\* So is the insurance share, which is not negative for a positive commission.
LEMMA ShareType ==
  ASSUME NEW c \in Int
  PROVE  InsuranceShare(c) \in Int /\ (c >= 0 => InsuranceShare(c) \in Nat)
<1>1. 20 * c \in Int /\ 100 * Sub \in Nat \ {0} /\ (c >= 0 => 20 * c >= 0)
  BY FiatConstants
<1>2. /\ RoundDiv(20 * c, 100 * Sub) \in Int
      /\ c >= 0 => RoundDiv(20 * c, 100 * Sub) \in Nat
  BY <1>1, RoundDivType
<1> QED BY <1>2, TimesType, FiatConstants DEF InsuranceShare

\* SetStatus changes one status.
LEMMA SetStatusFacts ==
  ASSUME TypeOK, NEW id \in DOMAIN escrow, NEW st \in EscrowStatuses, SetStatus(id, st)
  PROVE  /\ DOMAIN escrow' = DOMAIN escrow
         /\ \A i \in DOMAIN escrow : escrow'[i] \in Escrow
         /\ escrow'[id].status = st
         /\ \A i \in DOMAIN escrow : i # id => escrow'[i] = escrow[i]
         /\ escrow' = [i \in DOMAIN escrow' |-> escrow'[i]]
<1>1. DOMAIN escrow' = DOMAIN escrow /\ escrow' = [i \in DOMAIN escrow' |-> escrow'[i]]
  BY DEF SetStatus, TypeOK
<1>2. \A i \in DOMAIN escrow : i # id => escrow'[i] = escrow[i]
  BY DEF SetStatus, TypeOK
<1>3. escrow[id] \in Escrow /\ escrow'[id] = [escrow[id] EXCEPT !.status = st]
  BY DEF SetStatus, TypeOK
<1>4. escrow'[id] \in Escrow /\ escrow'[id].status = st
  BY <1>3 DEF Escrow
<1> QED BY <1>1, <1>2, <1>4 DEF TypeOK

(***************************************************************************)
(* One lemma per family of handlers: the store stays well typed.           *)
(***************************************************************************)
EscrowTypes ==
  /\ DOMAIN escrow \subseteq EscrowIds
  /\ escrow = [i \in DOMAIN escrow |-> escrow[i]]
  /\ \A i \in DOMAIN escrow : escrow[i] \in Escrow

DepositTypes ==
  /\ DOMAIN deposit \subseteq Providers
  /\ deposit = [p \in DOMAIN deposit |-> deposit[p]]
  /\ \A p \in DOMAIN deposit : deposit[p] \in DepositAccount

HistoryTypes ==
  /\ fundings \in [EscrowIds -> Nat]
  /\ settlements \in [EscrowIds -> Nat]
  /\ releases \in Nat
  /\ withdrawn \in [Providers -> Int]
  /\ tainted \subseteq Providers
  /\ drained \subseteq Currencies

\* create_escrow stores a well-typed escrow.
LEMMA CreateTypes ==
  ASSUME TypeOK, NEW id \in EscrowIds, NEW fee \in Fees, NEW bps \in BPS,
         NEW cur \in Currencies, createEscrow(id, fee, bps, cur)
  PROVE  EscrowTypes'
<1> DEFINE c == ApplyBPS(fee, EffectiveBPS(bps))
           e == [fee |-> fee, commission |-> c, total |-> Format8(fee + c),
                 currency |-> cur, status |-> "ESCROW_PENDING"]
<1>1. fee \in Int /\ bps \in Nat
  BY FiatConstants
<1>2. c \in Int
  BY <1>1, CommissionType
<1>3. escrow' = Saved(escrow, id, e)
  BY DEF createEscrow
<1> HIDE DEF c
<1>4. Format8(fee + c) \in Int
  BY <1>1, <1>2, Format8Type
<1>5. e \in Escrow
  BY <1>1, <1>2, <1>4 DEF Escrow, EscrowStatuses
<1> HIDE DEF e
<1>6. /\ DOMAIN escrow' = DOMAIN escrow \cup {id} /\ escrow'[id] = e
      /\ \A i \in DOMAIN escrow : i # id => escrow'[i] = escrow[i]
      /\ escrow' = [i \in DOMAIN escrow' |-> escrow'[i]]
  BY <1>3 DEF Saved
<1> QED BY <1>5, <1>6 DEF EscrowTypes, TypeOK

\* The three handlers of deposit accounts store well-typed accounts.
LEMMA DepositTypesStep ==
  ASSUME TypeOK,
         \/ \E p \in Providers, a \in Amounts : depositFunds(p, a)
         \/ \E p \in DOMAIN deposit, a \in Amounts, c \in Currencies : slashDeposit(p, a, c)
         \/ \E p \in DOMAIN deposit, a \in Amounts : withdrawDeposit(p, a)
  PROVE  DepositTypes'
<1>1. ASSUME NEW p \in Providers, NEW a \in Amounts, depositFunds(p, a)
      PROVE  DepositTypes'
  <2> DEFINE acc == IF p \in DOMAIN deposit THEN deposit[p] ELSE NewAccount
             av == Format8(acc.available + a)
             td == Format8(acc.totalDeposited + a)
             r == [acc EXCEPT !.totalDeposited = td, !.available = av,
                              !.lastDepositAt = now, !.tier = TierAfterDeposit(acc, av)]
  <2>1. acc \in DepositAccount
    BY DEF TypeOK, NewAccount, DepositAccount, Tiers
  <2>2. deposit' = Saved(deposit, p, r)
    BY <1>1 DEF depositFunds
  <2> HIDE DEF acc
  <2>3. a \in Int /\ acc.available + a \in Int /\ acc.totalDeposited + a \in Int
    BY <2>1, FiatConstants DEF DepositAccount
  <2>4. av \in Int /\ td \in Int
    BY <2>3, Format8Type
  <2> HIDE DEF av, td
  <2>5. TierAfterDeposit(acc, av) \in Tiers
    BY DEF TierAfterDeposit, tierFor, Tiers
  <2>6. r \in DepositAccount
    BY <2>1, <2>4, <2>5 DEF DepositAccount, TypeOK
  <2> HIDE DEF r
  <2>7. /\ DOMAIN deposit' = DOMAIN deposit \cup {p} /\ deposit'[p] = r
        /\ \A i \in DOMAIN deposit : i # p => deposit'[i] = deposit[i]
        /\ deposit' = [i \in DOMAIN deposit' |-> deposit'[i]]
    BY <2>2 DEF Saved
  <2> QED BY <2>6, <2>7 DEF DepositTypes, TypeOK
<1>2. ASSUME NEW p \in DOMAIN deposit, NEW a \in Amounts, NEW c \in Currencies,
             slashDeposit(p, a, c)
      PROVE  DepositTypes'
  <2> DEFINE acc == deposit[p]
             s == CappedSlash(acc, a)
             av == Format8(acc.available - s)
             sl == Format8(acc.slashed + s)
             r == [acc EXCEPT !.available = av, !.slashed = sl]
  <2>1. acc \in DepositAccount /\ a \in Int
    BY FiatConstants DEF TypeOK
  <2>2. deposit' = [deposit EXCEPT ![p] = r]
    BY <1>2 DEF slashDeposit
  <2>3. s \in Int /\ acc.available - s \in Int /\ acc.slashed + s \in Int
    BY <2>1 DEF DepositAccount, CappedSlash
  <2>4. av \in Int /\ sl \in Int
    BY <2>3, Format8Type
  <2> HIDE DEF av, sl
  <2>5. r \in DepositAccount
    BY <2>1, <2>4 DEF DepositAccount
  <2> HIDE DEF r
  <2> QED BY <2>2, <2>5 DEF DepositTypes, TypeOK
<1>3. ASSUME NEW p \in DOMAIN deposit, NEW a \in Amounts, withdrawDeposit(p, a)
      PROVE  DepositTypes'
  <2> DEFINE acc == deposit[p]
             av == Format8(acc.available - a)
             r == [acc EXCEPT !.available = av]
  <2>1. acc \in DepositAccount /\ a \in Int
    BY FiatConstants DEF TypeOK
  <2>2. deposit' = [deposit EXCEPT ![p] = r] /\ a <= acc.available
    BY <1>3 DEF withdrawDeposit
  <2>3. acc.available - a \in Int
    BY <2>1, <2>2 DEF DepositAccount
  <2>4. av \in Int
    BY <2>3, Format8Type
  <2> HIDE DEF av
  <2>5. r \in DepositAccount
    BY <2>1, <2>4 DEF DepositAccount
  <2> HIDE DEF r
  <2> QED BY <2>2, <2>5 DEF DepositTypes, TypeOK
<1> QED BY <1>1, <1>2, <1>3

\* The two handlers that pay into the pool leave it well typed.
LEMMA PoolTypesStep ==
  ASSUME TypeOK,
         \/ \E id \in DOMAIN escrow : releaseEscrow(id)
         \/ \E p \in DOMAIN deposit, a \in Amounts, c \in Currencies : slashDeposit(p, a, c)
  PROVE  pool' \in InsurancePool
<1>1. ASSUME NEW id \in DOMAIN escrow, releaseEscrow(id) PROVE pool' \in InsurancePool
  <2> DEFINE e == escrow[id]
             b == Format8(pool.balance[e.currency] + InsuranceShare(e.commission))
             t == Format8(pool.totalIncome + e.commission)
  <2>1. e \in Escrow /\ pool \in InsurancePool
    BY DEF TypeOK
  <2>2. e.commission \in Int /\ e.currency \in Currencies /\ pool.totalIncome \in Int
        /\ pool.balance \in [Currencies -> Int]
    BY <2>1 DEF Escrow, InsurancePool
  <2>3. b \in Int /\ t \in Int
    BY <2>2, ShareType, Format8Type
  <2>4. pool' = [balance |-> [pool.balance EXCEPT ![e.currency] = b], totalIncome |-> t]
    BY <1>1 DEF releaseEscrow
  <2> HIDE DEF b, t
  <2> QED BY <2>2, <2>3, <2>4 DEF InsurancePool
<1>2. ASSUME NEW p \in DOMAIN deposit, NEW a \in Amounts, NEW c \in Currencies,
             slashDeposit(p, a, c)
      PROVE  pool' \in InsurancePool
  <2> DEFINE s == CappedSlash(deposit[p], a)
             b == Format8(pool.balance[c] + s)
  <2>1. deposit[p] \in DepositAccount /\ a \in Int /\ pool \in InsurancePool
    BY FiatConstants DEF TypeOK
  <2>2. s \in Int /\ pool.balance \in [Currencies -> Int]
    BY <2>1 DEF DepositAccount, CappedSlash, InsurancePool
  <2>3. b \in Int
    BY <2>2, Format8Type
  <2>4. pool' = [pool EXCEPT !.balance[c] = b]
    BY <1>2 DEF slashDeposit
  <2> HIDE DEF b
  <2> QED BY <2>1, <2>2, <2>3, <2>4 DEF InsurancePool
<1> QED BY <1>1, <1>2

(***************************************************************************)
(* Stored records are well typed whatever the handlers are fed.            *)
(***************************************************************************)
THEOREM TypeCorrect == Spec => []TypeOK
<1>1. Init => TypeOK
  BY DEF Init, TypeOK, InsurancePool
<1>2. TypeOK /\ [Next]_vars => TypeOK'
  <2> SUFFICES ASSUME TypeOK, [Next]_vars PROVE TypeOK'
    OBVIOUS
  <2>1. ASSUME NEW id \in EscrowIds, NEW fee \in Fees, NEW bps \in BPS,
               NEW cur \in Currencies, createEscrow(id, fee, bps, cur)
        PROVE  TypeOK'
    <3>1. EscrowTypes'
      BY <2>1, CreateTypes
    <3> QED BY <2>1, <3>1 DEF EscrowTypes, createEscrow, history, signs, TypeOK
  <2>2. ASSUME NEW id \in DOMAIN escrow,
               fundEscrow(id) \/ lockEscrow(id) \/ refundEscrow(id)
        PROVE  TypeOK'
    <3>1. PICK st \in EscrowStatuses : SetStatus(id, st)
      BY <2>2 DEF fundEscrow, lockEscrow, refundEscrow, Settle, EscrowStatuses
    <3>2. EscrowTypes'
      BY <3>1, SetStatusFacts DEF EscrowTypes, TypeOK
    <3>3. HistoryTypes'
      BY <2>2 DEF fundEscrow, lockEscrow, refundEscrow, Settle, history, signs, HistoryTypes, TypeOK
    <3> QED BY <2>2, <3>2, <3>3
        DEF EscrowTypes, HistoryTypes, fundEscrow, lockEscrow, refundEscrow, history, signs, TypeOK
  <2>3. ASSUME NEW id \in DOMAIN escrow, releaseEscrow(id) PROVE TypeOK'
    <3>1. SetStatus(id, "ESCROW_RELEASED") /\ Settle(id, "ESCROW_RELEASED")
      BY <2>3 DEF releaseEscrow, Settle
    <3>2. EscrowTypes'
      BY <3>1, SetStatusFacts DEF EscrowTypes, TypeOK, EscrowStatuses
    <3>3. pool' \in InsurancePool
      BY <2>3, PoolTypesStep
    <3>4. HistoryTypes'
      BY <2>3 DEF releaseEscrow, Settle, signs, HistoryTypes, TypeOK
    <3> QED BY <2>3, <3>2, <3>3, <3>4
        DEF EscrowTypes, HistoryTypes, releaseEscrow, TypeOK
  <2>4. ASSUME NEW p \in Providers, NEW a \in Amounts, depositFunds(p, a) PROVE TypeOK'
    <3>1. DepositTypes'
      BY <2>4, DepositTypesStep
    <3>2. tainted' \subseteq Providers
      BY <2>4 DEF depositFunds, Taint, TypeOK
    <3> QED BY <2>4, <3>1, <3>2 DEF DepositTypes, depositFunds, TypeOK
  <2>5. ASSUME NEW p \in DOMAIN deposit, NEW a \in Amounts, NEW c \in Currencies,
               slashDeposit(p, a, c)
        PROVE  TypeOK'
    <3>1. DepositTypes' /\ pool' \in InsurancePool
      BY <2>5, DepositTypesStep, PoolTypesStep
    <3>2. tainted' \subseteq Providers /\ drained' \subseteq Currencies
      BY <2>5 DEF slashDeposit, Taint, Drain, TypeOK
    <3> QED BY <2>5, <3>1, <3>2 DEF DepositTypes, slashDeposit, TypeOK
  <2>6. ASSUME NEW p \in DOMAIN deposit, NEW a \in Amounts, withdrawDeposit(p, a)
        PROVE  TypeOK'
    <3>1. DepositTypes'
      BY <2>6, DepositTypesStep
    <3>2. withdrawn' \in [Providers -> Int]
      BY <2>6, FiatConstants DEF withdrawDeposit, TypeOK
    <3>3. tainted' \subseteq Providers
      BY <2>6 DEF withdrawDeposit, Taint, TypeOK
    <3> QED BY <2>6, <3>1, <3>2, <3>3 DEF DepositTypes, withdrawDeposit, TypeOK
  <2>7. CASE EndBlock
    BY <2>7, FiatConstants DEF EndBlock, storeVars, history, signs, TypeOK
  <2>8. CASE UNCHANGED vars
    BY <2>8 DEF vars, history, signs, TypeOK
  <2> QED BY <2>1, <2>2, <2>3, <2>4, <2>5, <2>6, <2>7, <2>8 DEF Next
<1> QED BY <1>1, <1>2, PTL DEF Spec

(***************************************************************************)
(* PaidOutOnce is inductive: a settlement needs a held escrow, which has   *)
(* an unpaid funding, and leaves it not held.                              *)
(***************************************************************************)
THEOREM SettlementCorrect == Spec => []PaidOutOnce
<1>1. Init => PaidOutOnce
  BY DEF Init, PaidOutOnce
<1>2. ASSUME TypeOK, PaidOutOnce, [Next]_vars PROVE PaidOutOnce'
  <2>1. ASSUME NEW id \in EscrowIds, NEW fee \in Fees, NEW bps \in BPS,
               NEW cur \in Currencies, createEscrow(id, fee, bps, cur)
        PROVE  PaidOutOnce'
    <3>1. UNCHANGED <<fundings, settlements>>
      BY <2>1 DEF createEscrow, history, signs
    <3>2. \A i \in DOMAIN escrow' : i = id \/ (i \in DOMAIN escrow /\ escrow'[i] = escrow[i])
      BY <2>1 DEF createEscrow, Saved
    <3>3. ~Held(escrow'[id].status)
      BY <2>1 DEF createEscrow, Saved, Held
    <3> QED BY <1>2, <3>1, <3>2, <3>3 DEF PaidOutOnce
  <2>2. ASSUME NEW id \in DOMAIN escrow, fundEscrow(id) PROVE PaidOutOnce'
    <3>1. SetStatus(id, "ESCROW_FUNDED") /\ UNCHANGED settlements
          /\ fundings' = [fundings EXCEPT ![id] = fundings[id] + 1]
      BY <2>2 DEF fundEscrow
    <3>2. DOMAIN escrow' = DOMAIN escrow
          /\ \A i \in DOMAIN escrow : i # id => escrow'[i] = escrow[i]
      BY <1>2, <3>1, SetStatusFacts DEF EscrowStatuses
    <3> QED BY <1>2, <3>1, <3>2 DEF PaidOutOnce, TypeOK
  <2>3. ASSUME NEW id \in DOMAIN escrow, lockEscrow(id) PROVE PaidOutOnce'
    <3>1. SetStatus(id, "ESCROW_LOCKED") /\ UNCHANGED <<fundings, settlements>>
          /\ Held(escrow[id].status)
      BY <2>3 DEF lockEscrow, history, signs, Held
    <3>2. DOMAIN escrow' = DOMAIN escrow
          /\ \A i \in DOMAIN escrow : i # id => escrow'[i] = escrow[i]
      BY <1>2, <3>1, SetStatusFacts DEF EscrowStatuses
    <3> QED BY <1>2, <3>1, <3>2 DEF PaidOutOnce
  <2>4. ASSUME NEW id \in DOMAIN escrow, releaseEscrow(id) \/ refundEscrow(id)
        PROVE  PaidOutOnce'
    <3>1. PICK st \in {"ESCROW_RELEASED", "ESCROW_REFUNDED"} : SetStatus(id, st)
      BY <2>4 DEF releaseEscrow, refundEscrow, Settle
    <3>2. /\ Held(escrow[id].status) /\ UNCHANGED fundings
          /\ settlements' = [settlements EXCEPT ![id] = settlements[id] + 1]
      BY <2>4 DEF releaseEscrow, refundEscrow, Settle, MaySettle
    <3>3. /\ DOMAIN escrow' = DOMAIN escrow /\ escrow'[id].status = st
          /\ \A i \in DOMAIN escrow : i # id => escrow'[i] = escrow[i]
      BY <1>2, <3>1, SetStatusFacts DEF EscrowStatuses
    <3>4. ~Held(escrow'[id].status)
      BY <3>3 DEF Held
    <3> QED BY <1>2, <3>2, <3>3, <3>4 DEF PaidOutOnce, TypeOK
  <2>5. ASSUME UNCHANGED <<escrow, fundings, settlements>> PROVE PaidOutOnce'
    BY <1>2, <2>5 DEF PaidOutOnce
  <2> QED BY <1>2, <2>1, <2>2, <2>3, <2>4, <2>5
      DEF Next, depositFunds, slashDeposit, withdrawDeposit, EndBlock, storeVars, history, signs, vars
<1> QED BY <1>1, <1>2, TypeCorrect, PTL DEF Spec

\* With 8-digit payloads formatting is exact.
LEMMA Format8Exact == ASSUME Sub = 1, NEW x \in Int PROVE Format8(x) = x
BY DEF Format8, RoundDiv

\* A provider without an account has withdrawn nothing.
NoAccountNoWithdrawal ==
  \A p \in Providers : p \notin DOMAIN deposit => withdrawn[p] = 0

(***************************************************************************)
(* Deposits are conserved when amounts carry at most 8 digits, whatever    *)
(* their sign (depositFunds, slashDeposit, withdrawDeposit).  With more    *)
(* digits each stored sum is rounded on its own and they need not be.      *)
(***************************************************************************)
THEOREM ConservationCorrect ==
  ASSUME Sub = 1
  PROVE  Spec => []DepositConserved
<1> DEFINE Inv == DepositConserved /\ NoAccountNoWithdrawal
<1>1. Init => Inv
  BY DEF Init, DepositConserved, NoAccountNoWithdrawal
<1>2. ASSUME TypeOK, Inv, [Next]_vars PROVE Inv'
  <2>1. ASSUME NEW p \in Providers, NEW a \in Amounts, depositFunds(p, a) PROVE Inv'
    <3> DEFINE acc == IF p \in DOMAIN deposit THEN deposit[p] ELSE NewAccount
               r == [acc EXCEPT !.totalDeposited = Format8(acc.totalDeposited + a),
                                !.available = Format8(acc.available + a),
                                !.lastDepositAt = now,
                                !.tier = TierAfterDeposit(acc, Format8(acc.available + a))]
    <3>1. acc \in DepositAccount /\ a \in Int
      BY <1>2, FiatConstants DEF TypeOK, NewAccount, DepositAccount, Tiers
    <3>2. acc.available + acc.slashed + withdrawn[p] = acc.totalDeposited
      BY <1>2 DEF DepositConserved, NoAccountNoWithdrawal, NewAccount
    <3>3. deposit' = Saved(deposit, p, r) /\ UNCHANGED withdrawn
      BY <2>1 DEF depositFunds, history, signs
    <3> HIDE DEF acc
    <3>4. Format8(acc.totalDeposited + a) = acc.totalDeposited + a
          /\ Format8(acc.available + a) = acc.available + a
      BY <3>1, Format8Exact DEF DepositAccount
    <3>5. /\ r.available = acc.available + a
          /\ r.totalDeposited = acc.totalDeposited + a
          /\ r.slashed = acc.slashed
      BY <3>1, <3>4 DEF DepositAccount
    <3> HIDE DEF r
    <3>6. /\ DOMAIN deposit' = DOMAIN deposit \cup {p} /\ deposit'[p] = r
          /\ \A i \in DOMAIN deposit : i # p => deposit'[i] = deposit[i]
      BY <3>3 DEF Saved
    <3>7. withdrawn[p] \in Int
      BY <1>2 DEF TypeOK
    <3>8. r.available + r.slashed + withdrawn[p] = r.totalDeposited
      BY <3>1, <3>2, <3>5, <3>7 DEF DepositAccount
    <3> QED BY <1>2, <3>3, <3>6, <3>8 DEF DepositConserved, NoAccountNoWithdrawal
  <2>2. ASSUME NEW p \in DOMAIN deposit, NEW a \in Amounts, NEW c \in Currencies,
               slashDeposit(p, a, c)
        PROVE  Inv'
    <3> DEFINE acc == deposit[p]
               s == CappedSlash(acc, a)
               r == [acc EXCEPT !.available = Format8(acc.available - s),
                                !.slashed = Format8(acc.slashed + s)]
    <3>1. acc \in DepositAccount /\ a \in Int
      BY <1>2, FiatConstants DEF TypeOK
    <3>2. s \in Int /\ acc.available - s \in Int /\ acc.slashed + s \in Int
      BY <3>1 DEF DepositAccount, CappedSlash
    <3>3. deposit' = [deposit EXCEPT ![p] = r] /\ UNCHANGED withdrawn
      BY <2>2 DEF slashDeposit, history, signs
    <3> HIDE DEF s
    <3>4. r.available = acc.available - s /\ r.slashed = acc.slashed + s
          /\ r.totalDeposited = acc.totalDeposited
      BY <3>1, <3>2, Format8Exact DEF DepositAccount
    <3>5. acc.available + acc.slashed + withdrawn[p] = acc.totalDeposited
      BY <1>2 DEF DepositConserved
    <3> HIDE DEF r
    <3>6. /\ DOMAIN deposit' = DOMAIN deposit /\ deposit'[p] = r
          /\ \A i \in DOMAIN deposit : i # p => deposit'[i] = deposit[i]
      BY <3>3
    <3>7. withdrawn[p] \in Int
      BY <1>2 DEF TypeOK
    <3>8. r.available + r.slashed + withdrawn[p] = r.totalDeposited
      BY <3>1, <3>2, <3>4, <3>5, <3>7 DEF DepositAccount
    <3> QED BY <1>2, <3>3, <3>6, <3>8 DEF DepositConserved, NoAccountNoWithdrawal
  <2>3. ASSUME NEW p \in DOMAIN deposit, NEW a \in Amounts, withdrawDeposit(p, a)
        PROVE  Inv'
    <3> DEFINE acc == deposit[p]
               r == [acc EXCEPT !.available = Format8(acc.available - a)]
    <3>1. acc \in DepositAccount /\ a \in Int /\ p \in Providers
      BY <1>2, FiatConstants DEF TypeOK
    <3>2. a <= acc.available /\ deposit' = [deposit EXCEPT ![p] = r]
          /\ withdrawn' = [withdrawn EXCEPT ![p] = withdrawn[p] + a]
      BY <2>3 DEF withdrawDeposit
    <3>3. acc.available - a \in Int
      BY <3>1, <3>2 DEF DepositAccount
    <3>4. r.available = acc.available - a /\ r.slashed = acc.slashed
          /\ r.totalDeposited = acc.totalDeposited
      BY <3>1, <3>3, Format8Exact DEF DepositAccount
    <3>5. acc.available + acc.slashed + withdrawn[p] = acc.totalDeposited
      BY <1>2 DEF DepositConserved
    <3> HIDE DEF r
    <3>6. /\ DOMAIN deposit' = DOMAIN deposit /\ deposit'[p] = r
          /\ \A i \in DOMAIN deposit : i # p => deposit'[i] = deposit[i]
      BY <3>2
    <3>7. /\ withdrawn[p] \in Int /\ withdrawn'[p] = withdrawn[p] + a
          /\ \A i \in Providers : i # p => withdrawn'[i] = withdrawn[i]
      BY <1>2, <3>1, <3>2 DEF TypeOK
    <3>8. r.available + r.slashed + withdrawn'[p] = r.totalDeposited
      BY <3>1, <3>3, <3>4, <3>5, <3>7 DEF DepositAccount
    <3> QED BY <1>2, <3>6, <3>7, <3>8 DEF DepositConserved, NoAccountNoWithdrawal, TypeOK
  <2>4. ASSUME UNCHANGED <<deposit, withdrawn>> PROVE Inv'
    BY <1>2, <2>4 DEF DepositConserved, NoAccountNoWithdrawal
  <2> QED BY <1>2, <2>1, <2>2, <2>3, <2>4
      DEF Next, createEscrow, fundEscrow, lockEscrow, releaseEscrow, refundEscrow,
          EndBlock, storeVars, history, signs, vars
<1> QED BY <1>1, <1>2, TypeCorrect, PTL DEF Spec

(***************************************************************************)
(* Whatever the digits and the signs of the payloads, no account and no    *)
(* pool balance is overdrawn but those that a negative payload has reached *)
(* (depositFunds, slashDeposit, withdrawDeposit, distributeCommission).    *)
(***************************************************************************)
THEOREM OverdraftCorrect == Spec => []NoOverdraft
<1>1. Init => NoOverdraft
  BY DEF Init, NoOverdraft
<1>2. ASSUME TypeOK, NoOverdraft, [Next]_vars PROVE NoOverdraft'
  <2>0. /\ \A p \in DOMAIN deposit : deposit[p] \in DepositAccount
        /\ \A p \in DOMAIN deposit \ tainted :
             deposit[p].available \in Nat /\ deposit[p].slashed \in Nat
        /\ pool \in InsurancePool
        /\ \A c \in Currencies \ drained : pool.balance[c] \in Nat
    BY <1>2 DEF TypeOK, NoOverdraft, DepositAccount, InsurancePool
  <2>1. ASSUME NEW p \in Providers, NEW a \in Amounts, depositFunds(p, a) PROVE NoOverdraft'
    <3> DEFINE acc == IF p \in DOMAIN deposit THEN deposit[p] ELSE NewAccount
               av == Format8(acc.available + a)
               r == [acc EXCEPT !.totalDeposited = Format8(acc.totalDeposited + a),
                                !.available = av, !.lastDepositAt = now,
                                !.tier = TierAfterDeposit(acc, av)]
    <3>1. /\ acc \in DepositAccount /\ a \in Int
          /\ p \notin tainted => acc.available \in Nat /\ acc.slashed \in Nat
      BY <2>0, FiatConstants DEF NewAccount, DepositAccount, Tiers
    <3>2. /\ deposit' = Saved(deposit, p, r) /\ UNCHANGED <<pool, drained>>
          /\ tainted' = IF a < 0 THEN tainted \cup {p} ELSE tainted
      BY <2>1 DEF depositFunds, Taint
    <3> HIDE DEF acc
    <3>3. p \notin tainted' => av \in Nat /\ acc.slashed \in Nat
      <4> SUFFICES ASSUME p \notin tainted' PROVE av \in Nat /\ acc.slashed \in Nat
        OBVIOUS
      <4>1. acc.available + a \in Int /\ acc.available + a >= 0 /\ acc.slashed \in Nat
        BY <3>1, <3>2
      <4> QED BY <4>1, Format8Type
    <3> HIDE DEF av
    <3>4. r.available = av /\ r.slashed = acc.slashed
      BY <3>1 DEF DepositAccount
    <3> HIDE DEF r
    <3>5. /\ DOMAIN deposit' = DOMAIN deposit \cup {p} /\ deposit'[p] = r
          /\ \A i \in DOMAIN deposit : i # p => deposit'[i] = deposit[i]
      BY <3>2 DEF Saved
    <3>6. tainted \subseteq tainted'
      BY <3>2
    <3> QED BY <2>0, <3>2, <3>3, <3>4, <3>5, <3>6 DEF NoOverdraft
  <2>2. ASSUME NEW p \in DOMAIN deposit, NEW a \in Amounts, NEW c \in Currencies,
               slashDeposit(p, a, c)
        PROVE  NoOverdraft'
    <3> DEFINE acc == deposit[p]
               s == CappedSlash(acc, a)
               av == Format8(acc.available - s)
               sl == Format8(acc.slashed + s)
               b == Format8(pool.balance[c] + s)
               r == [acc EXCEPT !.available = av, !.slashed = sl]
    <3>1. acc \in DepositAccount /\ a \in Int
      BY <2>0, FiatConstants
    <3>2. /\ s \in Int /\ acc.available \in Int /\ acc.slashed \in Int
          /\ pool.balance \in [Currencies -> Int]
      BY <2>0, <3>1 DEF DepositAccount, InsurancePool, CappedSlash
    <3>3. p \notin tainted /\ a >= 0 => s \in Nat /\ acc.available - s \in Nat
      BY <2>0, <3>1 DEF CappedSlash
    <3>4. /\ deposit' = [deposit EXCEPT ![p] = r] /\ pool' = [pool EXCEPT !.balance[c] = b]
          /\ tainted' = IF a < 0 THEN tainted \cup {p} ELSE tainted
          /\ drained' = IF a < 0 \/ p \in tainted THEN drained \cup {c} ELSE drained
      BY <2>2 DEF slashDeposit, Taint, Drain
    <3> HIDE DEF s
    <3>5. p \notin tainted' => av \in Nat /\ sl \in Nat
      <4> SUFFICES ASSUME p \notin tainted' PROVE av \in Nat /\ sl \in Nat
        OBVIOUS
      <4>1. p \notin tainted /\ a >= 0
        BY <3>1, <3>4
      <4>2. acc.available - s >= 0 /\ acc.slashed + s >= 0
        BY <2>0, <3>2, <3>3, <4>1
      <4> QED BY <3>2, <4>2, Format8Type
    <3>6. c \notin drained' => b \in Nat
      <4> SUFFICES ASSUME c \notin drained' PROVE b \in Nat
        OBVIOUS
      <4>1. p \notin tainted /\ a >= 0 /\ c \notin drained
        BY <3>1, <3>4
      <4>2. pool.balance[c] + s \in Int /\ pool.balance[c] + s >= 0
        BY <2>0, <3>3, <4>1
      <4> QED BY <4>2, Format8Type
    <3> HIDE DEF av, sl, b
    <3>7. r.available = av /\ r.slashed = sl
      BY <2>0 DEF DepositAccount
    <3> HIDE DEF r
    <3>8. \A q \in DOMAIN deposit' \ tainted' :
            deposit'[q].available >= 0 /\ deposit'[q].slashed >= 0
      BY <2>0, <3>4, <3>5, <3>7
    <3>9. pool'.balance = [pool.balance EXCEPT ![c] = b]
      BY <2>0, <3>4 DEF InsurancePool
    <3>10. \A d \in Currencies \ drained' : pool'.balance[d] >= 0
      BY <2>0, <3>2, <3>4, <3>6, <3>9
    <3> QED BY <3>8, <3>10 DEF NoOverdraft
  <2>3. ASSUME NEW p \in DOMAIN deposit, NEW a \in Amounts, withdrawDeposit(p, a)
        PROVE  NoOverdraft'
    <3> DEFINE av == Format8(deposit[p].available - a)
               r == [deposit[p] EXCEPT !.available = av]
    <3>1. /\ deposit' = [deposit EXCEPT ![p] = r] /\ UNCHANGED <<pool, drained>>
          /\ a <= deposit[p].available /\ tainted \subseteq tainted'
      BY <2>3 DEF withdrawDeposit, Taint
    <3>2. av \in Nat
      <4>1. deposit[p].available - a \in Int /\ deposit[p].available - a >= 0
        BY <2>0, <3>1, FiatConstants DEF DepositAccount
      <4> QED BY <4>1, Format8Type
    <3> HIDE DEF av
    <3>3. r.available = av /\ r.slashed = deposit[p].slashed
      BY <2>0 DEF DepositAccount
    <3> HIDE DEF r
    <3>4. /\ DOMAIN deposit' = DOMAIN deposit /\ deposit'[p] = r
          /\ \A i \in DOMAIN deposit : i # p => deposit'[i] = deposit[i]
      BY <3>1
    <3> QED BY <2>0, <3>1, <3>2, <3>3, <3>4 DEF NoOverdraft
  <2>4. ASSUME NEW id \in DOMAIN escrow, releaseEscrow(id) PROVE NoOverdraft'
    <3> DEFINE e == escrow[id]
               b == Format8(pool.balance[e.currency] + InsuranceShare(e.commission))
               t == Format8(pool.totalIncome + e.commission)
    <3>1. e.commission \in Nat /\ e.currency \in Currencies
          /\ UNCHANGED <<deposit, tainted, drained>>
      BY <1>2, <2>4 DEF releaseEscrow, signs, TypeOK, Escrow
    <3>2. pool' = [balance |-> [pool.balance EXCEPT ![e.currency] = b], totalIncome |-> t]
      BY <2>4 DEF releaseEscrow
    <3>3. e.currency \notin drained => b \in Nat
      <4> SUFFICES ASSUME e.currency \notin drained PROVE b \in Nat
        OBVIOUS
      <4>1. InsuranceShare(e.commission) \in Nat
        BY <3>1, ShareType
      <4>2. pool.balance[e.currency] \in Nat
        BY <2>0, <3>1
      <4> QED BY <4>1, <4>2, Format8Type
    <3> HIDE DEF b, t
    <3>4. pool.balance \in [Currencies -> Int]
      BY <2>0 DEF InsurancePool
    <3> QED BY <2>0, <3>1, <3>2, <3>3, <3>4 DEF NoOverdraft
  <2>5. ASSUME UNCHANGED <<deposit, pool, tainted, drained>> PROVE NoOverdraft'
    BY <1>2, <2>5 DEF NoOverdraft
  <2> QED BY <1>2, <2>1, <2>2, <2>3, <2>4, <2>5
      DEF Next, createEscrow, fundEscrow, lockEscrow, refundEscrow,
          EndBlock, storeVars, history, signs, vars
<1> QED BY <1>1, <1>2, TypeCorrect, PTL DEF Spec

\* The stored tier of an account no negative payload has named is at least the
\* tier of its available balance.
TierNotUnderstated ==
  \A p \in DOMAIN deposit \ tainted :
    minDepositForTier(deposit[p].tier) >= minDepositForTier(tierFor(deposit[p].available))

\* The floor of the tier of a balance grows with the balance.
LEMMA TierMonotone ==
  ASSUME NEW a \in Nat, NEW b \in Nat, a <= b
  PROVE  /\ minDepositForTier(tierFor(a)) <= minDepositForTier(tierFor(b))
         /\ a >= minDepositForTier(tierFor(b)) => tierFor(a) = tierFor(b)
BY FiatConstants DEF minDepositForTier, tierFor

\* The floor of a tier is a natural number.
LEMMA FloorNat == \A t \in Tiers : minDepositForTier(t) \in Nat
BY FiatConstants DEF minDepositForTier, Tiers

\* A larger factor makes a product larger by the other factor at least.
LEMMA TimesStep == \A d \in Nat, a \in Nat, b \in Nat : a > b => d * a >= d * b + d
<1> SUFFICES ASSUME NEW d \in Nat, NEW a \in Nat, NEW b \in Nat, a > b PROVE d * a >= d * b + d
  OBVIOUS
<1>1. a - b - 1 \in Nat
  OBVIOUS
<1>2. d * (a - b - 1) \in Nat
  BY <1>1, TimesType
<1>3. d * (a - b - 1) = d * a - d * b - d
  OBVIOUS
<1>4. d * a \in Int /\ d * b \in Int
  OBVIOUS
<1> QED BY <1>2, <1>3, <1>4

\* What a quotient of naturals is at most.
LEMMA DivBound == \A n \in Nat, d \in Nat \ {0} : n \div d \in Nat /\ d * (n \div d) <= n
OBVIOUS

\* Formatting does not round beyond a whole number of units.
LEMMA Format8Below ==
  ASSUME NEW x \in Nat, NEW k \in Nat, x <= Sub * k
  PROVE  Format8(x) <= Sub * k
<1> DEFINE q == (2 * x + Sub) \div (2 * Sub)
<1>1. q \in Nat /\ (2 * Sub) * q <= 2 * x + Sub
  <2>1. 2 * x + Sub \in Nat /\ 2 * Sub \in Nat \ {0}
    BY FiatConstants
  <2> QED BY <2>1, DivBound
<1>2. Format8(x) = Sub * q
  BY DEF Format8, RoundDiv
<1> HIDE DEF q
<1>3. (2 * Sub) * q = 2 * (Sub * q)
  BY <1>1, FiatConstants
<1>4. Sub * q \in Nat /\ Sub * k \in Nat /\ Sub \in Nat \ {0}
  BY <1>1, FiatConstants, TimesType
<1>5. q <= k
  <2> SUFFICES ASSUME q > k PROVE FALSE
    BY <1>1
  <2>1. Sub * q >= Sub * k + Sub
    BY <1>1, <1>4, TimesStep
  <2> QED BY <1>1, <1>3, <1>4, <2>1
<1>6. q = k \/ Sub * q + Sub <= Sub * k
  <2>1. CASE q = k
    BY <2>1
  <2>2. CASE k > q
    BY <1>1, <1>4, <2>2, TimesStep
  <2> QED BY <1>1, <1>5, <2>1, <2>2
<1> QED BY <1>2, <1>4, <1>6

\* The balance of an account no negative payload has named is a whole number of
\* units.
WholeUnits ==
  \A p \in DOMAIN deposit \ tainted : \E k \in Nat : deposit[p].available = Sub * k

\* So formatting what is left of such a balance does not raise it.
LEMMA FormatDoesNotRaise ==
  ASSUME NEW b \in Nat, NEW x \in Nat, x <= b, \E k \in Nat : b = Sub * k
  PROVE  /\ Format8(x) \in Nat /\ Format8(x) <= b
         /\ \E k \in Nat : Format8(x) = Sub * k
<1>1. PICK k \in Nat : b = Sub * k
  OBVIOUS
<1>2. Format8(x) \in Nat /\ Format8(x) <= b
  BY <1>1, Format8Below, Format8Type
<1>3. RoundDiv(x, Sub) \in Nat
  BY RoundDivType, FiatConstants
<1> QED BY <1>2, <1>3 DEF Format8

(***************************************************************************)
(* Whatever the digits and the signs of the payloads, a withdrawal never   *)
(* costs a provider the tier its balance has, unless a negative payload    *)
(* has named the account before (withdrawDeposit, slashDeposit).           *)
(***************************************************************************)
THEOREM WithdrawalCorrect == Spec => WithdrawKeepsTier
<1> DEFINE Inv == TierNotUnderstated /\ WholeUnits
           Step ==
      \A p \in DOMAIN deposit \ tainted' :
       /\ minDepositForTier(deposit'[p].tier) >= minDepositForTier(tierFor(deposit'[p].available))
       /\ withdrawn'[p] # withdrawn[p] =>
            tierFor(deposit'[p].available) = tierFor(deposit[p].available)
<1>1. Init => Inv
  BY DEF Init, TierNotUnderstated, WholeUnits
<1>2. ASSUME TypeOK, TypeOK', NoOverdraft, NoOverdraft', Inv, [Next]_vars
      PROVE  Inv' /\ Step
  <2>0. /\ \A p \in DOMAIN deposit : deposit[p] \in DepositAccount
        /\ \A p \in DOMAIN deposit \ tainted : deposit[p].available \in Nat
    BY <1>2 DEF TypeOK, NoOverdraft, DepositAccount
  <2>1. ASSUME NEW p \in Providers, NEW a \in Amounts, depositFunds(p, a)
        PROVE  Inv' /\ Step
    <3> DEFINE acc == IF p \in DOMAIN deposit THEN deposit[p] ELSE NewAccount
               av == Format8(acc.available + a)
               r == [acc EXCEPT !.totalDeposited = Format8(acc.totalDeposited + a),
                                !.available = av, !.lastDepositAt = now,
                                !.tier = TierAfterDeposit(acc, av)]
    <3>1. /\ acc \in DepositAccount /\ a \in Int
          /\ p \notin tainted => acc.available \in Nat
      BY <1>2, <2>0, FiatConstants DEF TypeOK, NewAccount, DepositAccount, Tiers
    <3>2. /\ deposit' = Saved(deposit, p, r) /\ UNCHANGED withdrawn
          /\ tainted' = IF a < 0 THEN tainted \cup {p} ELSE tainted
      BY <2>1 DEF depositFunds, Taint
    <3> HIDE DEF acc
    <3>3. p \notin tainted' => \E k \in Nat : av = Sub * k
      <4> SUFFICES ASSUME p \notin tainted' PROVE \E k \in Nat : av = Sub * k
        OBVIOUS
      <4>1. acc.available + a \in Int /\ acc.available + a >= 0
        BY <3>1, <3>2
      <4>2. RoundDiv(acc.available + a, Sub) \in Nat
        BY <4>1, RoundDivType, FiatConstants
      <4> QED BY <4>2 DEF Format8
    <3> HIDE DEF av
    <3>4. r.available = av /\ r.tier = tierFor(av)
      BY <3>1 DEF DepositAccount, TierAfterDeposit
    <3> HIDE DEF r
    <3>5. /\ DOMAIN deposit' = DOMAIN deposit \cup {p} /\ deposit'[p] = r
          /\ \A i \in DOMAIN deposit : i # p => deposit'[i] = deposit[i]
          /\ tainted \subseteq tainted'
      BY <3>2 DEF Saved
    <3>6. tierFor(av) \in Tiers
      BY DEF tierFor, Tiers
    <3>7. minDepositForTier(r.tier) >= minDepositForTier(tierFor(r.available))
      BY <3>4, <3>6, FloorNat
    <3>8. TierNotUnderstated' /\ Step
      BY <1>2, <3>2, <3>5, <3>7 DEF TierNotUnderstated
    <3>9. WholeUnits'
      BY <1>2, <3>3, <3>4, <3>5 DEF WholeUnits
    <3> QED BY <3>8, <3>9
  <2>2. ASSUME NEW p \in DOMAIN deposit, NEW acc, acc.tier = deposit[p].tier,
               deposit' = [deposit EXCEPT ![p] = acc], tainted \subseteq tainted',
               \A i \in Providers : i # p => withdrawn'[i] = withdrawn[i],
               p \notin tainted' =>
                 /\ acc.available \in Nat /\ acc.available <= deposit[p].available
                 /\ \E k \in Nat : acc.available = Sub * k
                 /\ withdrawn'[p] # withdrawn[p] =>
                      acc.available >= minDepositForTier(deposit[p].tier)
        PROVE  Inv' /\ Step
    <3> DEFINE av == acc.available
    <3>1. /\ DOMAIN deposit' = DOMAIN deposit /\ deposit'[p] = acc
          /\ \A i \in DOMAIN deposit : i # p => deposit'[i] = deposit[i]
      BY <2>2
    <3>2. DOMAIN deposit \subseteq Providers
      BY <1>2 DEF TypeOK
    <3>3. ASSUME p \notin tainted'
          PROVE  /\ minDepositForTier(deposit[p].tier) >= minDepositForTier(tierFor(av))
                 /\ withdrawn'[p] # withdrawn[p] => tierFor(av) = tierFor(deposit[p].available)
      <4>1. /\ deposit[p].tier \in Tiers /\ deposit[p].available \in Nat
            /\ tierFor(deposit[p].available) \in Tiers /\ tierFor(av) \in Tiers
        BY <2>0, <2>2, <3>3 DEF DepositAccount, tierFor, Tiers
      <4>2. /\ minDepositForTier(deposit[p].tier) \in Nat
            /\ minDepositForTier(tierFor(deposit[p].available)) \in Nat
            /\ minDepositForTier(tierFor(av)) \in Nat
        BY <4>1, FloorNat
      <4>3. minDepositForTier(deposit[p].tier) >= minDepositForTier(tierFor(deposit[p].available))
        BY <1>2, <2>2, <3>3 DEF TierNotUnderstated
      <4> QED BY <2>2, <3>3, <4>1, <4>2, <4>3, TierMonotone
    <3>4. TierNotUnderstated' /\ Step
      BY <1>2, <2>2, <3>1, <3>2, <3>3 DEF TierNotUnderstated
    <3>5. WholeUnits'
      BY <1>2, <2>2, <3>1 DEF WholeUnits
    <3> QED BY <3>4, <3>5
  <2>3. ASSUME NEW p \in DOMAIN deposit, NEW a \in Amounts, NEW c \in Currencies,
               slashDeposit(p, a, c)
        PROVE  Inv' /\ Step
    <3> DEFINE s == CappedSlash(deposit[p], a)
               av == Format8(deposit[p].available - s)
               r == [deposit[p] EXCEPT !.available = av,
                                       !.slashed = Format8(deposit[p].slashed + s)]
    <3>1. deposit[p] \in DepositAccount /\ a \in Int
      BY <2>0, FiatConstants
    <3>2. /\ deposit' = [deposit EXCEPT ![p] = r] /\ UNCHANGED withdrawn
          /\ tainted' = IF a < 0 THEN tainted \cup {p} ELSE tainted
      BY <2>3 DEF slashDeposit, Taint
    <3>3. p \notin tainted' =>
            av \in Nat /\ av <= deposit[p].available /\ \E k \in Nat : av = Sub * k
      <4> SUFFICES ASSUME p \notin tainted'
                   PROVE  av \in Nat /\ av <= deposit[p].available
                          /\ \E k \in Nat : av = Sub * k
        OBVIOUS
      <4>1. a \in Nat /\ deposit[p].available \in Nat
            /\ \E k \in Nat : deposit[p].available = Sub * k
        BY <1>2, <2>0, <3>1, <3>2 DEF WholeUnits
      <4>2. deposit[p].available - s \in Nat
            /\ deposit[p].available - s <= deposit[p].available
        BY <4>1 DEF CappedSlash
      <4> HIDE DEF s
      <4> QED BY <4>1, <4>2, FormatDoesNotRaise
    <3> HIDE DEF s, av
    <3>4. r.available = av /\ r.tier = deposit[p].tier
      BY <3>1 DEF DepositAccount
    <3> HIDE DEF r
    <3>5. tainted \subseteq tainted'
      BY <3>2
    <3> QED BY <2>2, <3>2, <3>3, <3>4, <3>5
  <2>4. ASSUME NEW p \in DOMAIN deposit, NEW a \in Amounts, withdrawDeposit(p, a)
        PROVE  Inv' /\ Step
    <3> DEFINE av == Format8(deposit[p].available - a)
               r == [deposit[p] EXCEPT !.available = av]
    <3>1. deposit[p] \in DepositAccount /\ a \in Int
      BY <2>0, FiatConstants
    <3>2. /\ a <= deposit[p].available /\ deposit' = [deposit EXCEPT ![p] = r]
          /\ av >= minDepositForTier(deposit[p].tier)
          /\ withdrawn' = [withdrawn EXCEPT ![p] = withdrawn[p] + a]
          /\ tainted' = IF a < 0 THEN tainted \cup {p} ELSE tainted
      BY <2>4 DEF withdrawDeposit, Taint
    <3>3. p \notin tainted' =>
            av \in Nat /\ av <= deposit[p].available /\ \E k \in Nat : av = Sub * k
      <4> SUFFICES ASSUME p \notin tainted'
                   PROVE  av \in Nat /\ av <= deposit[p].available
                          /\ \E k \in Nat : av = Sub * k
        OBVIOUS
      <4>1. a \in Nat /\ deposit[p].available \in Nat
            /\ \E k \in Nat : deposit[p].available = Sub * k
        BY <1>2, <2>0, <3>1, <3>2 DEF WholeUnits
      <4>2. deposit[p].available - a \in Nat
            /\ deposit[p].available - a <= deposit[p].available
        BY <3>2, <4>1
      <4> QED BY <4>1, <4>2, FormatDoesNotRaise
    <3> HIDE DEF av
    <3>4. r.available = av /\ r.tier = deposit[p].tier
      BY <3>1 DEF DepositAccount
    <3> HIDE DEF r
    <3>5. tainted \subseteq tainted'
      BY <3>2
    <3>6. \A i \in Providers : i # p => withdrawn'[i] = withdrawn[i]
      BY <1>2, <3>2 DEF TypeOK
    <3> QED BY <2>2, <3>2, <3>3, <3>4, <3>5, <3>6
  <2>5. ASSUME UNCHANGED <<deposit, withdrawn, tainted>> PROVE Inv' /\ Step
    BY <1>2, <2>5 DEF TierNotUnderstated, WholeUnits
  <2> QED BY <1>2, <2>1, <2>3, <2>4, <2>5
      DEF Next, createEscrow, fundEscrow, lockEscrow, releaseEscrow, refundEscrow,
          EndBlock, storeVars, history, signs, vars
<1>3. TypeOK /\ TypeOK' /\ NoOverdraft /\ NoOverdraft' /\ Inv /\ [Next]_vars
        => Inv' /\ [Step]_vars
  BY <1>2
<1> QED BY <1>1, <1>3, TypeCorrect, OverdraftCorrect, PTL DEF Spec, WithdrawKeepsTier
-----------------------------------------------------------------------------
(***************************************************************************)
(* The sum over the deposit accounts in PoolIsBacked is a fold over a set  *)
(* in an arbitrary order: it exists, the order does not matter, and saving *)
(* one account changes it by the change of that account.                   *)
(***************************************************************************)
\* A set of numbers that holds the successors of all it holds, and zero, is Nat:
\* otherwise there would be a smallest number outside.
LEMMA NatSetInduction ==
  ASSUME NEW T \in SUBSET Nat, 0 \in T, \A n \in T : n + 1 \in T
  PROVE  T = Nat
<1> DEFINE Out == Nat \ T
<1>1. SUFFICES ASSUME Out # {} PROVE FALSE
  OBVIOUS
<1>2. PICK n \in Out : \A m \in Out : <<m, n>> \notin OpToRel(<, Nat)
  <2>1. Out \subseteq Nat
    OBVIOUS
  <2> HIDE DEF Out
  <2> QED BY <1>1, <2>1, NatLessThanWellFounded, WFMin
<1>3. n \in Nat /\ n # 0 /\ n - 1 \in Nat
  OBVIOUS
<1>4. n - 1 \in T
  <2>1. <<n - 1, n>> \in OpToRel(<, Nat)
    BY <1>3 DEF OpToRel
  <2> QED BY <1>2, <1>3, <2>1
<1> QED BY <1>3, <1>4

\* g folds G over each subset of S, from b, taking elements in the order of c.
Folds(g, S, b, c, G) ==
  \A s \in SUBSET S : g[s] = IF s = {} THEN b ELSE G[<<c[s], g[s \ {c[s]}]>>]

\* A fold over the subsets of a finite set that takes the elements in the order a
\* choice function gives them is well defined.
LEMMA FoldExists ==
  ASSUME NEW S, IsFiniteSet(S), NEW A, NEW b \in A,
         NEW c \in [(SUBSET S) \ {{}} -> S], \A s \in (SUBSET S) \ {{}} : c[s] \in s,
         NEW G \in [S \X A -> A]
  PROVE  \E g \in [SUBSET S -> A] : Folds(g, S, b, c, G)
<1> DEFINE small(k) == {s \in SUBSET S : Cardinality(s) <= k}
           Holds(g, s) == g[s] = IF s = {} THEN b ELSE G[<<c[s], g[s \ {c[s]}]>>]
           T == {k \in Nat : \E g \in [small(k) -> A] : \A s \in small(k) : Holds(g, s)}
<1>1. \A s \in SUBSET S : IsFiniteSet(s) /\ Cardinality(s) \in Nat
  BY FS_Subset, FS_CardinalityType
<1>2. \A s \in (SUBSET S) \ {{}} :
        /\ c[s] \in S /\ s \ {c[s]} \in SUBSET S
        /\ Cardinality(s) > 0 /\ Cardinality(s \ {c[s]}) = Cardinality(s) - 1
  <2> SUFFICES ASSUME NEW s \in (SUBSET S) \ {{}}
               PROVE  /\ c[s] \in S /\ s \ {c[s]} \in SUBSET S
                      /\ Cardinality(s) > 0 /\ Cardinality(s \ {c[s]}) = Cardinality(s) - 1
    OBVIOUS
  <2>1. c[s] \in s /\ s \subseteq S /\ IsFiniteSet(s) /\ Cardinality(s) \in Nat
    BY <1>1
  <2>2. Cardinality(s) # 0
    BY <2>1, FS_EmptySet
  <2>3. Cardinality(s \ {c[s]}) = Cardinality(s) - 1
    <3> DEFINE x == c[s]
    <3> HIDE DEF x
    <3>1. Cardinality(s \ {x}) = IF x \in s THEN Cardinality(s) - 1 ELSE Cardinality(s)
      BY <2>1, FS_RemoveElement
    <3> QED BY <2>1, <3>1 DEF x
  <2> QED BY <2>1, <2>2, <2>3
<1>3. 0 \in T
  <2> DEFINE g == [s \in small(0) |-> b]
  <2>1. small(0) \subseteq {{}}
    <3> SUFFICES ASSUME NEW s \in SUBSET S, Cardinality(s) <= 0, s # {} PROVE FALSE
      OBVIOUS
    <3>1. Cardinality(s) > 0 /\ Cardinality(s) \in Nat
      BY <1>1, <1>2
    <3> QED BY <3>1
  <2>2. \A s \in small(0) : Holds(g, s)
    BY <2>1
  <2>3. g \in [small(0) -> A]
    OBVIOUS
  <2> QED BY <2>2, <2>3
<1>4. ASSUME NEW k \in T PROVE k + 1 \in T
  <2>1. PICK g \in [small(k) -> A] : \A s \in small(k) : Holds(g, s)
    OBVIOUS
  <2> DEFINE h == [s \in small(k + 1) |->
                    IF s \in small(k) THEN g[s] ELSE G[<<c[s], g[s \ {c[s]}]>>]]
  <2>2. k \in Nat /\ small(k) \subseteq small(k + 1) /\ \A s \in small(k) : h[s] = g[s]
    BY <1>1
  <2>3. {} \in small(k)
    BY FS_EmptySet, <2>2
  <2>4. \A s \in small(k + 1) : s # {} => s \ {c[s]} \in small(k) /\ c[s] \in S
    BY <1>1, <1>2, <2>2
  <2>5. h \in [small(k + 1) -> A]
    <3> SUFFICES ASSUME NEW s \in small(k + 1), s \notin small(k)
                 PROVE  G[<<c[s], g[s \ {c[s]}]>>] \in A
      BY <2>1
    <3>1. <<c[s], g[s \ {c[s]}]>> \in S \X A
      BY <2>1, <2>3, <2>4
    <3> QED BY <3>1
  <2>6. \A s \in small(k + 1) : Holds(h, s)
    <3> SUFFICES ASSUME NEW s \in small(k + 1) PROVE Holds(h, s)
      OBVIOUS
    <3>1. CASE s = {}
      BY <2>1, <2>2, <2>3, <3>1
    <3>2. CASE s # {}
      <4>1. h[s \ {c[s]}] = g[s \ {c[s]}]
        BY <2>2, <2>4, <3>2
      <4>2. h[s] = G[<<c[s], g[s \ {c[s]}]>>]
        BY <2>1, <2>2, <3>2
      <4> QED BY <3>2, <4>1, <4>2
    <3> QED BY <3>1, <3>2
  <2>7. k + 1 \in Nat
    BY <2>2
  <2> HIDE DEF h, small, Holds
  <2> QED BY <2>5, <2>6, <2>7
<1>5. T = Nat
  <2>1. T \in SUBSET Nat
    OBVIOUS
  <2> HIDE DEF T
  <2> QED BY <1>3, <1>4, <2>1, NatSetInduction
<1>6. Cardinality(S) \in T /\ small(Cardinality(S)) = SUBSET S
  BY <1>1, <1>5, FS_CardinalityType, FS_Subset
<1> QED BY <1>6 DEF Folds

\* The sum of what all accounts of d have lost to slashing.
Slashed(d) == MapThenSumSet(LAMBDA p : d[p].slashed, DOMAIN d)

\* What each account of d has lost.
Losses(d) == [p \in DOMAIN d |-> d[p].slashed]

\* g gives the sum of v over each subset of D, whichever element is taken first.
IsSum(g, v, D) ==
  g[{}] = 0 /\ \A s \in SUBSET D : \A x \in s : g[s] = v[x] + g[s \ {x}]

\* The order in which a sum takes the elements does not matter.
LEMMA AnyOrder ==
  ASSUME NEW D, IsFiniteSet(D), NEW v \in [D -> Int], NEW g \in [SUBSET D -> Int],
         NEW c, \A s \in (SUBSET D) \ {{}} : c[s] \in s,
         g[{}] = 0, \A s \in (SUBSET D) \ {{}} : g[s] = v[c[s]] + g[s \ {c[s]}]
  PROVE  IsSum(g, v, D)
<1> DEFINE Good(s) == \A x \in s : g[s] = v[x] + g[s \ {x}]
           T == {k \in Nat : \A s \in SUBSET D : Cardinality(s) <= k => Good(s)}
<1>1. \A s \in SUBSET D : IsFiniteSet(s) /\ Cardinality(s) \in Nat
  BY FS_Subset, FS_CardinalityType
<1>2. \A s \in SUBSET D : \A x \in s : Cardinality(s \ {x}) = Cardinality(s) - 1
  BY <1>1, FS_RemoveElement
<1>3. 0 \in T
  <2> SUFFICES ASSUME NEW s \in SUBSET D, Cardinality(s) <= 0, NEW x \in s PROVE FALSE
    OBVIOUS
  <2>1. Cardinality(s \ {x}) \in Nat /\ s \ {x} \in SUBSET D
    BY <1>1
  <2> QED BY <1>1, <1>2, <2>1
<1>4. ASSUME NEW k \in T PROVE k + 1 \in T
  <2> SUFFICES ASSUME NEW s \in SUBSET D, Cardinality(s) <= k + 1, NEW x \in s
               PROVE  g[s] = v[x] + g[s \ {x}]
    OBVIOUS
  <2>1. PICK y \in s : g[s] = v[y] + g[s \ {y}]
    OBVIOUS
  <2>2. CASE x = y
    BY <2>1, <2>2
  <2>3. CASE x # y
    <3> DEFINE sx == s \ {x}
               sy == s \ {y}
               rest == s \ {x, y}
    <3>1. /\ sx \in SUBSET D /\ sy \in SUBSET D /\ y \in sx /\ x \in sy
          /\ sx \ {y} = rest /\ sy \ {x} = rest /\ rest \in SUBSET D
      BY <2>1, <2>3
    <3>2. Cardinality(sx) <= k /\ Cardinality(sy) <= k
      <4>1. /\ Cardinality(sx) = Cardinality(s) - 1 /\ Cardinality(sy) = Cardinality(s) - 1
            /\ Cardinality(s) \in Nat /\ k \in Nat
        BY <1>1, <1>2, <2>1
      <4> HIDE DEF sx, sy, T
      <4> QED BY <4>1
    <3> HIDE DEF sx, sy, rest
    <3>3. Good(sx) /\ Good(sy)
      BY <1>4, <3>1, <3>2
    <3>4. g[sx] = v[y] + g[rest] /\ g[sy] = v[x] + g[rest]
      <4> HIDE DEF T
      <4> QED BY <3>1, <3>3
    <3>5. v[x] \in Int /\ v[y] \in Int /\ g[rest] \in Int
      BY <2>1, <3>1
    <3>6. g[s] = v[y] + g[sy]
      BY <2>1 DEF sy
    <3> HIDE DEF T
    <3>7. g[s] = v[x] + g[sx]
      BY <3>4, <3>5, <3>6
    <3> QED BY <3>7 DEF sx
  <2> QED BY <2>2, <2>3
<1>5. T = Nat
  <2>1. T \in SUBSET Nat
    OBVIOUS
  <2> HIDE DEF T
  <2> QED BY <1>3, <1>4, <2>1, NatSetInduction
<1>6. \A s \in SUBSET D : Good(s)
  <2> SUFFICES ASSUME NEW s \in SUBSET D PROVE Good(s)
    OBVIOUS
  <2>1. Cardinality(s) \in T
    BY <1>1, <1>5
  <2> QED BY <1>1, <2>1
<1> QED BY <1>6 DEF IsSum

\* Two sums agree on a set whose elements have the same value in both.
LEMMA SumsAgree ==
  ASSUME NEW D, NEW E, IsFiniteSet(D), NEW v \in [D -> Int], NEW w \in [E -> Int],
         NEW g, NEW h, IsSum(g, v, D), IsSum(h, w, E),
         NEW S, S \subseteq D, S \subseteq E, \A x \in S : v[x] = w[x]
  PROVE  g[S] = h[S]
<1> DEFINE T == {k \in Nat : \A s \in SUBSET S : Cardinality(s) <= k => g[s] = h[s]}
<1>1. \A s \in SUBSET S : IsFiniteSet(s) /\ Cardinality(s) \in Nat
  BY FS_Subset, FS_CardinalityType
<1>2. \A s \in SUBSET S : \A x \in s : Cardinality(s \ {x}) = Cardinality(s) - 1
  BY <1>1, FS_RemoveElement
<1>3. 0 \in T
  <2> SUFFICES ASSUME NEW s \in SUBSET S, Cardinality(s) <= 0 PROVE g[s] = h[s]
    OBVIOUS
  <2>1. s = {}
    <3> SUFFICES ASSUME NEW x \in s PROVE FALSE
      OBVIOUS
    <3>1. Cardinality(s \ {x}) \in Nat
      BY <1>1
    <3> QED BY <1>1, <1>2, <3>1
  <2> QED BY <2>1 DEF IsSum
<1>4. ASSUME NEW k \in T PROVE k + 1 \in T
  <2> SUFFICES ASSUME NEW s \in SUBSET S, Cardinality(s) <= k + 1 PROVE g[s] = h[s]
    OBVIOUS
  <2>1. CASE s = {}
    BY <2>1 DEF IsSum
  <2>2. CASE s # {}
    <3>1. PICK x \in s : TRUE
      BY <2>2
    <3>2. g[s] = v[x] + g[s \ {x}] /\ h[s] = w[x] + h[s \ {x}]
      BY <3>1 DEF IsSum
    <3>3. s \ {x} \in SUBSET S /\ Cardinality(s \ {x}) <= k
      BY <1>1, <1>2, <3>1
    <3>4. g[s \ {x}] = h[s \ {x}]
      BY <1>4, <3>3
    <3> QED BY <3>1, <3>2, <3>4
  <2> QED BY <2>1, <2>2
<1>5. T = Nat
  <2>1. T \in SUBSET Nat
    OBVIOUS
  <2> HIDE DEF T
  <2> QED BY <1>3, <1>4, <2>1, NatSetInduction
<1>6. Cardinality(S) \in T
  BY <1>1, <1>5
<1> QED BY <1>1, <1>6

\* Slashed is such a sum.
LEMMA SlashedSums ==
  ASSUME NEW d, IsFiniteSet(DOMAIN d), \A p \in DOMAIN d : d[p].slashed \in Int
  PROVE  \E g \in [SUBSET DOMAIN d -> Int] :
           IsSum(g, Losses(d), DOMAIN d) /\ Slashed(d) = g[DOMAIN d]
<1> DEFINE D == DOMAIN d
           first(s) == CHOOSE x \in s : TRUE
           c == [s \in (SUBSET D) \ {{}} |-> first(s)]
           G == [p \in D \X Int |-> d[p[1]].slashed + p[2]]
           F(g) == [s \in SUBSET D |->
                     IF s = {} THEN 0 ELSE d[first(s)].slashed + g[s \ {first(s)}]]
           iter == CHOOSE g : g = F(g)
<1>1. \A s \in (SUBSET D) \ {{}} : first(s) \in s
  OBVIOUS
<1> HIDE DEF first
<1>2. c \in [(SUBSET D) \ {{}} -> D] /\ \A s \in (SUBSET D) \ {{}} : c[s] \in s
  BY <1>1
<1>3. G \in [D \X Int -> Int]
  OBVIOUS
<1>4. \E g \in [SUBSET D -> Int] : Folds(g, D, 0, c, G)
  <2>1. 0 \in Int
    OBVIOUS
  <2> HIDE DEF D, G, c
  <2>2. IsFiniteSet(D)
    BY DEF D
  <2> QED BY <1>2, <1>3, <2>1, <2>2, FoldExists
<1>5. PICK g \in [SUBSET D -> Int] : g = F(g)
  <2>1. PICK g \in [SUBSET D -> Int] : \A s \in SUBSET D :
          g[s] = IF s = {} THEN 0 ELSE G[<<c[s], g[s \ {c[s]}]>>]
    BY <1>4 DEF Folds
  <2>2. ASSUME NEW s \in SUBSET D, s # {}
        PROVE  g[s] = d[first(s)].slashed + g[s \ {first(s)}]
    <3>1. first(s) \in D /\ g[s \ {first(s)}] \in Int /\ c[s] = first(s)
      BY <1>1, <2>1, <2>2
    <3>2. G[<<first(s), g[s \ {first(s)}]>>] = d[first(s)].slashed + g[s \ {first(s)}]
      BY <3>1
    <3> HIDE DEF G, c, D
    <3> QED BY <2>1, <2>2, <3>1, <3>2
  <2>3. g[{}] = 0
    BY <2>1
  <2>4. g = F(g)
    <3> HIDE DEF G, D
    <3> QED BY <2>1, <2>2, <2>3
  <2> QED BY <2>1, <2>4
<1>6. iter = F(iter)
  <2> HIDE DEF F
  <2> QED BY <1>5
<1>7. Slashed(d) = iter[D]
  BY DEF Slashed, MapThenSumSet, MapThenFoldSet, iter, first
<1> HIDE DEF iter
<1>8. /\ DOMAIN iter = SUBSET D /\ iter[{}] = 0
      /\ \A s \in (SUBSET D) \ {{}} : iter[s] = d[first(s)].slashed + iter[s \ {first(s)}]
  BY <1>6
<1>9. \A s \in SUBSET D : iter[s] \in Int
  <2> DEFINE T == {k \in Nat : \A s \in SUBSET D : Cardinality(s) <= k => iter[s] \in Int}
  <2>1. \A s \in SUBSET D : IsFiniteSet(s) /\ Cardinality(s) \in Nat
    BY FS_Subset, FS_CardinalityType
  <2>2. \A s \in (SUBSET D) \ {{}} :
          Cardinality(s \ {first(s)}) = Cardinality(s) - 1 /\ s \ {first(s)} \in SUBSET D
    BY <1>1, <2>1, FS_RemoveElement
  <2>3. 0 \in T
    <3> SUFFICES ASSUME NEW s \in SUBSET D, Cardinality(s) <= 0 PROVE iter[s] \in Int
      OBVIOUS
    <3>1. s # {} => Cardinality(s \ {first(s)}) \in Nat
      BY <2>1, <2>2
    <3>2. s = {}
      BY <2>1, <2>2, <3>1
    <3> QED BY <1>8, <3>2
  <2>4. ASSUME NEW k \in T PROVE k + 1 \in T
    <3> SUFFICES ASSUME NEW s \in SUBSET D, Cardinality(s) <= k + 1 PROVE iter[s] \in Int
      OBVIOUS
    <3>1. CASE s = {}
      BY <1>8, <3>1
    <3>2. CASE s # {}
      <4>1. Cardinality(s \ {first(s)}) <= k /\ s \ {first(s)} \in SUBSET D
        BY <2>1, <2>2, <3>2
      <4>2. d[first(s)].slashed \in Int /\ iter[s \ {first(s)}] \in Int
        BY <1>1, <2>4, <3>2, <4>1
      <4> QED BY <1>8, <3>2, <4>2
    <3> QED BY <3>1, <3>2
  <2>5. T = Nat
    <3>1. T \in SUBSET Nat
      OBVIOUS
    <3> HIDE DEF T
    <3> QED BY <2>3, <2>4, <3>1, NatSetInduction
  <2> SUFFICES ASSUME NEW s \in SUBSET D PROVE iter[s] \in Int
    OBVIOUS
  <2>6. Cardinality(s) \in T
    BY <2>1, <2>5
  <2> QED BY <2>1, <2>6
<1>10. iter \in [SUBSET D -> Int]
  BY <1>6, <1>9
<1>11. IsSum(iter, Losses(d), D)
  <2> DEFINE v == Losses(d)
  <2>1. v \in [D -> Int] /\ \A p \in D : v[p] = d[p].slashed
    BY DEF Losses
  <2>2. /\ iter[{}] = 0
        /\ \A s \in (SUBSET D) \ {{}} : c[s] \in s
        /\ \A s \in (SUBSET D) \ {{}} : iter[s] = v[c[s]] + iter[s \ {c[s]}]
    <3>1. \A s \in (SUBSET D) \ {{}} : c[s] = first(s) /\ first(s) \in D
      BY <1>1
    <3> HIDE DEF v, c, D
    <3> QED BY <1>2, <1>8, <2>1, <3>1
  <2> HIDE DEF v, c, D
  <2>3. IsFiniteSet(D)
    BY DEF D
  <2>4. IsSum(iter, v, D)
    BY <1>10, <2>1, <2>2, <2>3, AnyOrder
  <2> QED BY <2>4 DEF v
<1> QED BY <1>7, <1>10, <1>11

\* e is d with the account of p saved, which had lost was before.
Saves(d, e, p, was) ==
  /\ IsFiniteSet(DOMAIN d) /\ DOMAIN e = DOMAIN d \cup {p}
  /\ \A i \in DOMAIN d : d[i].slashed \in Int
  /\ \A i \in DOMAIN e : e[i].slashed \in Int
  /\ \A i \in DOMAIN d : i # p => e[i].slashed = d[i].slashed
  /\ was \in Int
  /\ p \in DOMAIN d => was = d[p].slashed
  /\ p \notin DOMAIN d => was = 0

\* Saving one account changes the sum by what that account changes.
LEMMA SaveChanges ==
  \A d, e, p, was : Saves(d, e, p, was) =>
    Slashed(d) \in Int /\ Slashed(e) = Slashed(d) - was + e[p].slashed
<1> SUFFICES ASSUME NEW d, NEW e, NEW p, NEW was, Saves(d, e, p, was)
             PROVE  Slashed(d) \in Int /\ Slashed(e) = Slashed(d) - was + e[p].slashed
  OBVIOUS
<1> USE DEF Saves
<1> DEFINE D == DOMAIN d
           E == DOMAIN e
           v == Losses(d)
           w == Losses(e)
           S == D \ {p}
<1>1. IsFiniteSet(E)
  BY FS_AddElement
<1>2. /\ v \in [D -> Int] /\ \A i \in D : v[i] = d[i].slashed
      /\ w \in [E -> Int] /\ \A i \in E : w[i] = e[i].slashed
  BY DEF Losses
<1>3. PICK g \in [SUBSET D -> Int] : IsSum(g, v, D) /\ Slashed(d) = g[D]
  BY SlashedSums
<1>4. PICK h \in [SUBSET E -> Int] : IsSum(h, w, E) /\ Slashed(e) = h[E]
  BY <1>1, SlashedSums
<1>5. S \subseteq D /\ S \subseteq E /\ (\A i \in S : v[i] = w[i]) /\ E \ {p} = S /\ p \in E
  BY <1>2
<1>6. p \in D => v[p] = was
  BY <1>2
<1>7. p \notin D => was = 0 /\ S = D
  OBVIOUS
<1>8. w[p] = e[p].slashed /\ w[p] \in Int
  BY <1>2, <1>5
<1>9. IsFiniteSet(D)
  OBVIOUS
<1> HIDE DEF D, E, v, w, S
<1>10. g[S] = h[S]
  BY <1>2, <1>3, <1>4, <1>5, <1>9, SumsAgree
<1>11. h[E] = w[p] + h[S]
  BY <1>4, <1>5 DEF IsSum
<1>12. p \in D => g[D] = was + g[S]
  BY <1>3, <1>6 DEF IsSum, S
<1>13. g[D] \in Int /\ g[S] \in Int
  BY <1>3, <1>5
<1> QED BY <1>3, <1>4, <1>7, <1>8, <1>10, <1>11, <1>12, <1>13

\* Without accounts nothing was slashed.
LEMMA NothingSlashed ==
  ASSUME NEW d, DOMAIN d = {}
  PROVE  IsFiniteSet(DOMAIN d) /\ Slashed(d) = 0
<1>1. IsFiniteSet(DOMAIN d)
  BY FS_EmptySet
<1>2. PICK g \in [SUBSET DOMAIN d -> Int] :
        IsSum(g, Losses(d), DOMAIN d) /\ Slashed(d) = g[DOMAIN d]
  BY <1>1, SlashedSums
<1> QED BY <1>1, <1>2 DEF IsSum

\* A fifth of the commission, rounded, is off by at most two fifths of a unit.
LEMMA ShareIsAFifth ==
  ASSUME Sub = 1, NEW c \in Int, c > 0
  PROVE  5 * InsuranceShare(c) - c \in -2..2
<1>1. InsuranceShare(c) = (40 * c + 100) \div 200
  BY DEF InsuranceShare, RoundDiv
<1>2. \A n \in Nat : LET q == n \div 200 IN q \in Int /\ 200 * q <= n /\ n < 200 * q + 200
  OBVIOUS
<1>3. 40 * c + 100 \in Nat
  OBVIOUS
<1>4. /\ InsuranceShare(c) \in Int /\ 200 * InsuranceShare(c) <= 40 * c + 100
      /\ 40 * c + 100 < 200 * InsuranceShare(c) + 200
  BY <1>1, <1>2, <1>3
<1> HIDE DEF InsuranceShare
<1> QED BY <1>4

\* How far five times the pool's shares are from the commissions they came from.
Drift == 5 * (pool.balance["CNY"] + pool.balance["USD"] - Slashed(deposit)) - pool.totalIncome

\* There are finitely many accounts, and the drift is at most two a release.
PoolInv ==
  /\ IsFiniteSet(DOMAIN deposit)
  /\ Drift <= 2 * releases /\ -Drift <= 2 * releases

\* Paying x into one of the two balances adds x to their sum.
LEMMA PayIn ==
  ASSUME NEW b \in [Currencies -> Int], NEW c \in Currencies, NEW x \in Int
  PROVE  LET after == [b EXCEPT ![c] = b[c] + x] IN
         after["CNY"] + after["USD"] = b["CNY"] + b["USD"] + x
BY DEF Currencies

(***************************************************************************)
(* However releases and slashes interleave, and whoever is slashed, the    *)
(* pool's two balances (distributeCommission, slashDeposit) hold what was  *)
(* slashed and a fifth of the commissions up to the rounding, when         *)
(* amounts carry at most 8 digits.                                         *)
(***************************************************************************)
THEOREM PoolCorrect ==
  ASSUME Sub = 1
  PROVE  Spec => []PoolIsBacked
<1>1. Init => PoolInv
  <2> SUFFICES ASSUME Init PROVE PoolInv
    OBVIOUS
  <2>1. IsFiniteSet(DOMAIN deposit) /\ Slashed(deposit) = 0
    BY NothingSlashed DEF Init
  <2> QED BY <2>1 DEF Init, PoolInv, Drift, Currencies
<1>2. ASSUME TypeOK, TypeOK', PoolInv, [Next]_vars PROVE PoolInv'
  <2>1. /\ pool.balance \in [Currencies -> Int] /\ pool.totalIncome \in Int /\ releases \in Nat
        /\ \A i \in DOMAIN deposit : deposit[i].slashed \in Int
        /\ \A i \in DOMAIN deposit' : deposit'[i].slashed \in Int
    BY <1>2 DEF TypeOK, InsurancePool, DepositAccount
  <2>2. pool.balance["CNY"] \in Int /\ pool.balance["USD"] \in Int
    BY <2>1 DEF Currencies
  <2>3. Slashed(deposit) \in Int
    <3>1. IsFiniteSet(DOMAIN deposit)
      BY <1>2 DEF PoolInv
    <3>2. PICK g \in [SUBSET DOMAIN deposit -> Int] : Slashed(deposit) = g[DOMAIN deposit]
      BY <2>1, <3>1, SlashedSums
    <3> QED BY <3>2
  <2>4. ASSUME NEW p \in Providers, NEW a \in Amounts, depositFunds(p, a) PROVE PoolInv'
    <3> DEFINE acc == IF p \in DOMAIN deposit THEN deposit[p] ELSE NewAccount
    <3>1. acc \in DepositAccount
      BY <1>2 DEF TypeOK, NewAccount, DepositAccount, Tiers
    <3>2. acc.slashed = IF p \in DOMAIN deposit THEN deposit[p].slashed ELSE 0
      BY DEF NewAccount
    <3>3. PICK td, av, ti : deposit' = Saved(deposit, p,
            [acc EXCEPT !.totalDeposited = td, !.available = av,
                        !.lastDepositAt = now, !.tier = ti])
      BY <2>4 DEF depositFunds
    <3> HIDE DEF acc
    <3>4. /\ DOMAIN deposit' = DOMAIN deposit \cup {p} /\ deposit'[p].slashed = acc.slashed
          /\ \A i \in DOMAIN deposit : i # p => deposit'[i].slashed = deposit[i].slashed
      BY <3>1, <3>3 DEF Saved, DepositAccount
    <3>5. IsFiniteSet(DOMAIN deposit)
      BY <1>2 DEF PoolInv
    <3>6. acc.slashed \in Int
      BY <3>1 DEF DepositAccount
    <3>7. Slashed(deposit') = Slashed(deposit) - acc.slashed + deposit'[p].slashed
      <4>1. Saves(deposit, deposit', p, acc.slashed)
        BY <2>1, <3>2, <3>4, <3>5, <3>6 DEF Saves
      <4> QED BY <4>1, SaveChanges
    <3>8. Slashed(deposit') = Slashed(deposit)
      BY <2>3, <3>4, <3>6, <3>7
    <3>9. IsFiniteSet(DOMAIN deposit')
      BY <3>4, <3>5, FS_AddElement
    <3>10. UNCHANGED <<pool, releases>>
      BY <2>4 DEF depositFunds, history, signs
    <3>11. Drift' = Drift
      BY <3>8, <3>10 DEF Drift
    <3> QED BY <1>2, <3>9, <3>10, <3>11 DEF PoolInv
  <2>5. ASSUME NEW p \in DOMAIN deposit, NEW a \in Amounts, NEW c \in Currencies,
               slashDeposit(p, a, c)
        PROVE  PoolInv'
    <3> DEFINE acc == deposit[p]
               s == CappedSlash(acc, a)
               r == [acc EXCEPT !.available = Format8(acc.available - s),
                                !.slashed = Format8(acc.slashed + s)]
    <3>1. acc \in DepositAccount /\ a \in Int
      BY <1>2, FiatConstants DEF TypeOK
    <3>2. s \in Int /\ acc.slashed \in Int
      BY <3>1 DEF DepositAccount, CappedSlash
    <3>3. /\ deposit' = [deposit EXCEPT ![p] = r] /\ UNCHANGED releases
          /\ pool' = [pool EXCEPT !.balance[c] = Format8(pool.balance[c] + s)]
      BY <2>5 DEF slashDeposit, history, signs
    <3> HIDE DEF s
    <3>4. r.slashed = acc.slashed + s
      BY <3>1, <3>2, Format8Exact DEF DepositAccount
    <3> HIDE DEF r
    <3>5. /\ DOMAIN deposit' = DOMAIN deposit /\ deposit'[p] = r
          /\ \A i \in DOMAIN deposit : i # p => deposit'[i].slashed = deposit[i].slashed
      BY <3>3
    <3>6. IsFiniteSet(DOMAIN deposit) /\ DOMAIN deposit' = DOMAIN deposit \cup {p}
      BY <1>2, <3>5 DEF PoolInv
    <3>7. Slashed(deposit') = Slashed(deposit) - acc.slashed + deposit'[p].slashed
      <4>1. Saves(deposit, deposit', p, acc.slashed)
        BY <2>1, <3>2, <3>5, <3>6 DEF Saves
      <4> QED BY <4>1, SaveChanges
    <3>8. Slashed(deposit') = Slashed(deposit) + s
      BY <2>3, <3>2, <3>4, <3>5, <3>7
    <3>9. Format8(pool.balance[c] + s) = pool.balance[c] + s
      BY <2>1, <3>2, Format8Exact
    <3>10. /\ pool'.balance = [pool.balance EXCEPT ![c] = pool.balance[c] + s]
           /\ pool'.totalIncome = pool.totalIncome
      BY <1>2, <3>3, <3>9 DEF TypeOK, InsurancePool
    <3>11. pool'.balance["CNY"] + pool'.balance["USD"]
             = pool.balance["CNY"] + pool.balance["USD"] + s
      BY <2>1, <3>2, <3>10, PayIn
    <3>12. pool'.balance["CNY"] \in Int /\ pool'.balance["USD"] \in Int
      BY <1>2 DEF TypeOK, InsurancePool, Currencies
    <3>13. Drift' = Drift
      BY <2>1, <2>2, <2>3, <3>2, <3>8, <3>10, <3>11, <3>12 DEF Drift
    <3> QED BY <1>2, <3>3, <3>5, <3>13 DEF PoolInv
  <2>6. ASSUME NEW p \in DOMAIN deposit, NEW a \in Amounts, withdrawDeposit(p, a)
        PROVE  PoolInv'
    <3>1. deposit[p] \in DepositAccount /\ UNCHANGED <<pool, releases>>
      BY <1>2, <2>6 DEF TypeOK, withdrawDeposit
    <3>2. /\ DOMAIN deposit' = DOMAIN deposit /\ deposit'[p].slashed = deposit[p].slashed
          /\ \A i \in DOMAIN deposit : i # p => deposit'[i].slashed = deposit[i].slashed
      BY <2>6, <3>1 DEF withdrawDeposit, DepositAccount
    <3>3. IsFiniteSet(DOMAIN deposit) /\ DOMAIN deposit' = DOMAIN deposit \cup {p}
      BY <1>2, <3>2 DEF PoolInv
    <3>4. Slashed(deposit') = Slashed(deposit) - deposit[p].slashed + deposit'[p].slashed
      <4>1. Saves(deposit, deposit', p, deposit[p].slashed)
        BY <2>1, <3>2, <3>3 DEF Saves
      <4> QED BY <4>1, SaveChanges
    <3>5. Drift' = Drift
      BY <2>1, <2>3, <3>1, <3>2, <3>4 DEF Drift
    <3> QED BY <1>2, <3>1, <3>2, <3>5 DEF PoolInv
  <2>7. ASSUME NEW id \in DOMAIN escrow, releaseEscrow(id) PROVE PoolInv'
    <3> DEFINE e == escrow[id]
               cur == e.currency
               x == InsuranceShare(e.commission)
    <3>1. e.commission \in Int /\ e.commission > 0 /\ cur \in Currencies
      BY <1>2, <2>7 DEF TypeOK, Escrow, releaseEscrow
    <3>2. x \in Int /\ 5 * x - e.commission \in -2..2
      BY <3>1, ShareType, ShareIsAFifth
    <3>3. /\ pool' = [balance |-> [pool.balance EXCEPT ![cur] = Format8(pool.balance[cur] + x)],
                      totalIncome |-> Format8(pool.totalIncome + e.commission)]
          /\ releases' = releases + 1 /\ UNCHANGED deposit
      BY <2>7 DEF releaseEscrow
    <3> HIDE DEF x
    <3>4. /\ Format8(pool.balance[cur] + x) = pool.balance[cur] + x
          /\ Format8(pool.totalIncome + e.commission) = pool.totalIncome + e.commission
      BY <2>1, <3>1, <3>2, Format8Exact
    <3>5. /\ pool'.balance = [pool.balance EXCEPT ![cur] = pool.balance[cur] + x]
          /\ pool'.totalIncome = pool.totalIncome + e.commission
      BY <3>3, <3>4
    <3>6. pool'.balance["CNY"] + pool'.balance["USD"]
             = pool.balance["CNY"] + pool.balance["USD"] + x
      BY <2>1, <3>1, <3>2, <3>5, PayIn
    <3>7. pool'.balance["CNY"] \in Int /\ pool'.balance["USD"] \in Int
      BY <1>2 DEF TypeOK, InsurancePool, Currencies
    <3> HIDE DEF e, cur
    <3>8. Slashed(deposit') = Slashed(deposit) /\ pool'.totalIncome = pool.totalIncome + e.commission
      BY <3>3, <3>5
    <3>9. Drift \in Int
      BY <2>1, <2>2, <2>3 DEF Drift
    <3>10. Drift' = Drift + (5 * x - e.commission)
      BY <2>1, <2>2, <2>3, <3>1, <3>2, <3>6, <3>7, <3>8 DEF Drift
    <3> QED BY <1>2, <2>1, <3>2, <3>3, <3>9, <3>10 DEF PoolInv
  <2>8. ASSUME UNCHANGED <<deposit, pool, releases>> PROVE PoolInv'
    BY <1>2, <2>8 DEF PoolInv, Drift
  <2> QED BY <1>2, <2>4, <2>5, <2>6, <2>7, <2>8
      DEF Next, createEscrow, fundEscrow, lockEscrow, refundEscrow,
          EndBlock, storeVars, history, signs, vars
<1>3. PoolInv => PoolIsBacked
  BY DEF PoolInv, Drift, Slashed, PoolIsBacked
<1> QED BY <1>1, <1>2, <1>3, TypeCorrect, PTL DEF Spec
=============================================================================
