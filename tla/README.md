# AACP: a verification project

AACP is an application chain for AI agents, written in Go. Clients send signed
transactions over HTTP; the daemon executes them in blocks against a key-value store.
Ten modules own a prefix of the store each and keep a market, tasks, escrows,
capabilities, disputes and task graphs there. This directory holds TLA+ models of the
parts that carry the logic, the TLC runs over them and TLAPS proofs.

`PROJECT.json` maps every definition to the source lines it stands for and lists
components, runs, mutants, hazards, findings and theorems.

## 1. The system

| Part | State | Operations | Hard behaviour |
|---|---|---|---|
| `cmd/aacpd` | one mutex, height, last app hash | finalize endpoints, health, state/prefix | requests race for the mutex; a prefix is read without it |
| `internal/abci` | none beyond the store | InitChain, FinalizeBlock, Commit | a failed transaction is not rolled back, a panic leaves half a block |
| `internal/state` | key-value store, nonces, version | Get, Set, IteratePrefix, Commit | no transactions; readers run in parallel |
| `internal/router` | the module table | Execute, EndBlock | hooks run in map order |
| `caputxo` | cap/u, cap/d, cap/h, cap/t | mint, spend, delegate, revoke, batch_expire, EndBlock | recursive cascades over an index, a sweep over a stale snapshot, 0 as "inherit" |
| `fiat` (with `types/money.go`) | escrows, deposit accounts, pool | create, fund, lock, release, refund, deposit, slash, withdraw, EndBlock | rounding to 8 digits, signs, reused ids, stale tiers |
| `aap` | tasks, heartbeats, evidence | create, sign, heartbeat, result, verify, settle, dispute, EndBlock | results arrive in every status, late heartbeats, timeouts, ids shared by senders |
| `arb` | disputes with votes | file, evidence, auto_resolve, committee_vote, full_vote, appeal, execute | votes after the decision, map-order tally, phase and status kept apart |
| `amx` | listings, capability index, orders | create, update, pause, delist, request, confirm, reject, cancel | scoring over a moving price range, two parties, ids that collide |
| `weave` | DAGs | create, start, update node, output, cancel, EndBlock | node updates at any time, uint64 to int64, parked nodes |
| `rep` | a score of five parts and a total per entity | update, decay, override | float rounding, uint64 epochs, a total written from two sides |
| `node` | registrations, elected keys | register, rotate key, elect, ban | records copied from key to key, bans and elections that overwrite each other |
| `gov` (with `state/params.go`) | proposals, votes, parameters | create, vote, execute | ids put up again, votes counted apart from the votes stored |
| `afd` | alerts | submit | none: it stores what it is given |
| demonstrations of `cmd/aacpd` | ids and nonces computed beforehand | ten and three blocks, one transaction each | other clients' blocks in between, on the same records too |
| `p2p`, `eventbus`, `crypto`, API stubs, CLI, relay | little or none | | not wired to the chain's state |

How they interact: a client's request takes the mutex, increments the height and calls
FinalizeBlock. For each transaction FinalizeBlock decodes and checks it (form, timeout
height, signature, nonce, gas), has the router call one module's handler and, on success,
stores the next nonce. Then every module's EndBlock runs and the store is committed.
Modules never call each other: what connects an order, its escrow, its task and its
dispute is only the ids that clients put in payloads. So each module is verified on its
own, and the pipeline is verified with the handlers as free choices of what a handler can
do to it. The composition that the repository itself ships, the daemon's scripted
demonstrations, is verified with the real handlers (`Demos`).

## 2. Modules

| Module | Models | State of the model |
|---|---|---|
| `Chain` | `lifecycle.go`, the daemon's `finalize`, `/api/state/prefix`, health, commit | `height`, `holder` (mutex), `pc` per request, `block`, `answer`, `nonce`, `writes`, `committed`, `reader`; history `done`, `abandoned` |
| `CapUTXO` | `caputxo/module.go` | `utxo`, `derive`, `byHolder`, `byType`, `now` |
| `CapCascade` | its loops over keys and their recursion | that of `CapUTXO` |
| `Fiat` | `fiat/module.go` and `money.go` | `escrow`, `deposit`, `pool`, `now`; history `fundings`, `settlements`, `releases`, `withdrawn`, `tainted`, `drained` |
| `Aap` | `aap/module.go` | `task`, `heartbeat`, `evidence`, `now`; history `accepted` |
| `Arb` | `arb/module.go` | `dispute` |
| `Amx` | `amx/module.go` | `listing`, `index`, `order` |
| `Weave` | `weave/module.go` | `dag`, `now` |
| `WeaveValidate` | `ValidateDAG` as an algorithm | none: operators on a list of edges |
| `Rep` | `rep/module.go` | `score`; history `overridden`, `decays`, `rewound` |
| `Node` | `node/module.go` | `node`, `val`; history `lineage`, `elected`, `regs` |
| `Gov` | `gov/module.go`, `state/params.go` | `proposal`, `ballot`, `param`; history `round`, `cast` |
| `Admin` | `Rep`, `Node` and `Gov` behind the router, sharing the block height | theirs and `blockEpoch`, `adminTxs` |
| `Demos` | `/api/demo/story-poster` and `/api/demo/caputxo-full` over instances of `Amx`, `Fiat`, `Aap`, `Arb` and `CapUTXO` | theirs and `step`, `demo`, `nonce`, `open`; history `touched`, `foreign` |
| `Ledger` | nothing in the code: the abstract specification of block execution | `log`, `writer`, `height`, `sealed` |
| `ChainProofs`, `CapUTXOProofs`, `FiatProofs`, `AapProofs`, `ArbProofs`, `AmxProofs`, `WeaveProofs`, `CompositionProofs` | theorems, the last about `Admin` and `Demos` | |
| `MCChain`, `MCCapUTXO`, `MCFiat`, `MCArb`, `MCAmx`, `MCWeave`, `MCAdmin` | constants for TLC | |

Conventions. One action stands for one handler, all of it: what it checks, writes and
saves. A handler that fails before it writes changes nothing and is a stuttering step.
The error paths that write are actions: `SpendExpired` in `CapUTXO`,
`submitRequestFails` in `Amx`. The transactions of a block are executed one after the
other under the mutex, so the modules interleave whole handlers, and only `Chain` looks
inside a block. `EndBlock` includes the start of the next block, whose time is never
earlier. A map in the store is a partial function; a key's owner, payload or hash is a
model value. Where a module computes an id by hashing, the model keeps what the hash
covers: `FreshID` (sender and nonce: new), `ListingID` (may be one's own earlier
listing), any id at all for tasks, disputes, escrows and DAGs. That `FreshID` is fresh
rests on `NoncesInSequence` of `Chain`.

Simplifications that matter:

* `Chain`: a handler's effect is one write tagged with its origin. It succeeds, fails,
  fails after writing, or panics before writing. The panics in the code are of that kind
  (`addDecimal` on an amount that does not parse); `net/http` recovers them and the
  deferred unlock runs. No module's EndBlock returns an error in a reachable state: the
  only one that could is caputxo's, when `cap/d` names a record that is missing, which
  `DeriveIndexSound` excludes.
* `CapUTXO` states a cascade as the least set closed under live children. `CapCascade`
  states it the way the code runs it. That they agree is checked by `cap_loops` and proved.
  A call there nests at most as deep as there are records, since each marks one that was
  UNSPENT; the proof includes that this is deep enough.
* `Fiat` counts in subunits, `Sub` of which make 10^-8. `Sub = 1` says that payloads have
  at most 8 digits. Rounding is half away from zero, as `big.Rat.FloatString` does.
  Amounts are of either sign, as in the code; `tainted` and `drained` keep which accounts
  and which pool balances a negative payload can have reached.
* `Amx` compares scores as exact fractions, as the code does; the reputation and latency
  terms are the same for every listing and are left out.
* `Arb` lets the owners of committee keys vote. The code derives these keys from a hash,
  so whether anybody holds one is outside the model.
* `Weave` leaves the edges out: after validation nothing reads them.
* `Rep` computes the total exactly and lets it round either way at an exact half, where the
  float sum of the code depends on the build. The scale is a parameter.
* `Node` reads a deposit as `parseFloat` does, digit by digit into an int64 that wraps
  (`Wrap` stands for 2^63). Of the float64 score it keeps what the sort sees of it: it never
  inverts the order of the parsed deposits, and it tells them apart when all are at most
  `Exact` (2^50; beyond, it may merge different ones). The score's terms for reputation and
  uptime are the same for every registration because nothing changes them.
* `Demos` takes an id to be the tuple that is hashed. A step that a module would refuse
  stops the demonstration. Other clients list, finalize empty blocks, and send the
  transactions that `fiat`, `aap` and `arb` accept from anybody on a story's own records:
  creating, funding, locking, releasing and refunding its escrow; creating, signing,
  verifying and disputing its task; filing, deciding, appealing and executing its dispute
  (`OthersSettle`, `OthersWork`, `OthersArbitrate`). Left out is what becomes possible only
  after another such transaction on the same record (`settle_task`, the results and
  heartbeats of a new provider, the later stages of a dispute), and other clients' other
  transactions to `amx` and `caputxo`, whose handlers look at the owner.

Refinement. `Ledger` says what block execution promises, without goroutines, mutex, stored
nonces or commits: every sender has a log, one writer at a time opens a block and appends
the next transaction of a sender, not above its timeout height and after everything
earlier in the block, and then seals the block or abandons it. `Chain` implements it
under the mapping `log <- done`, `writer <- holder`, `sealed <- committed.nonce`: a
handler's success is the append, taking the mutex opens, committing seals, a panic
abandons, and every other step of `Chain` stutters. That `sealed` can be read off the
committed nonces is part of the claim. TLC checks it (`ImplementsLedger` in `blocks`)
and TLAPS proves it (`Refinement`).

## 3. Runs

Properties are explained where they are defined. Every property has a mutant: a plausible
bug in a mapped definition under which the same run finds the property violated.

| Run | Configuration | Shows |
|---|---|---|
| `blocks` | `Chain.cfg` | Two clients race two blocks of up to two transactions and a reader looks in. Nonces take effect in order and once and never after the timeout height; a client is told success exactly for what took effect; the app hash covers the store when the mutex is free; a reported height covers every entry returned; the whole implements `Ledger`; every request ends |
| `capabilities` | `CapUTXO.cfg` | A root and two derived capabilities under every kind of payload. The index is sound, nothing is stronger than an ancestor, statuses only end, cascades and sweeps leave nothing usable behind; nothing is used past an ancestor's expiry but what a negative `expires_at` in between lets escape (section 4) |
| `cap_loops` | `CapCascade.cfg` | A root and three derived ones: for every key order the loops compute the sets of `CapUTXO` |
| `settlement` | `Fiat.cfg` | An escrow id used twice and a provider crossing the tier floors, with amounts of either sign. No double payout, deposits conserved, the pool backed up to rounding; but for what a negative payload has named, nothing overdrawn and no withdrawal below the real tier |
| `tasks` | `Aap.cfg` | One id, two senders, results in every status, retries, late heartbeats, silence. Only the verified result is settled; late heartbeats do no harm; a silent task ends |
| `disputes` | `Arb.cfg` | Up to four committee and five full votes with three ballots, evidence, appeals, executions. A verdict rests on the rule or on the votes on record; a review can be voted in; a final verdict yields only to votes |
| `market` | `Amx.cfg` | Two listings, two parties, two currencies. The match is active and not dominated, the index complete, the order's provider owns the listing, orders only advance |
| `dags` | `Weave.cfg` | Kahn's loop accepts exactly the acyclic lists of edges over declared nodes. A DAG of two or three nodes: completion is earned, a finished DAG stays finished, a running one ends |
| `admin` | `Admin.cfg` | Five transactions to rep, node and gov. Totals follow their parts, decay is rate-limited, a key is an active validator exactly by an election or a copy of an active record that no ban of it followed, an election goes by stake, parameters change only by votes on what is executed |
| `demos` | `Demos.cfg` | Two stories, the caputxo demonstration, a rival listing, empty blocks and a transaction of another client on a story's escrow, task or dispute. Each story nobody else touched ends with its own task, dispute and escrow as it should; each that was begun gets through |
| `cap_revocation` | `CapUTXO_revocation.cfg` | violation, finding 1 |
| `story_trace` | `Demos_trace.cfg` | violation, finding 2 |

Deadlock checking is off where the model ends because ids, blocks or transactions are used
up.

### Bounds

Each bound is a constant or the size of a constant set.

* `Chain`: `MaxBlocks`, `MaxTxs`, `MaxReads`. Two blocks of two transactions are the least
  with a replay inside a block, between blocks and across a panic; a third client only
  waits longer. With two blocks nobody can take the mutex without end, so that a waiter
  does get it rests on the fairness below, not on this run. Of the transactions one is a replay with a deadline of height 1 and one
  is a unit of gas short, which stands for every refusal.
* `CapUTXO`: one root and two children give a chain and a fork, the two shapes on which
  attenuation and cascades differ; `UseBound` caps the count of an unlimited capability
  (0 here: its uses change nothing but the count, and the theorems hold for every bound;
  a limited one is used up to its limit of 1 or 2),
  `MaxTime` the clock at the block in which the only expiry falls. One actor is enough:
  keys are only compared, and with one key more comparisons succeed. `CapCascade` has
  three children, so that a fork hangs below a chain.
* `Fiat`: the floors 1, 2 and 4 with amounts -1, 1 and 4 put balances on, below and above
  each floor; a fee of 20 with three rates gives commissions of 0, 2 and 3 units;
  `MaxFundings` 2 is the least with a reuse; `MaxTotal` and `MaxDebt` cap balances above
  and below zero.
* `Aap`: `MaxTime` exceeds `LastBeat`, after which nobody sends, by the timeout and one
  block, so that silence has time to be noticed; `MaxFails` exceeds the largest retry
  limit.
* `Arb`: `MaxCommittee` is one vote past the quorum of 3, `MaxFull` the quorum of 5; with
  three ballots 1-1-1 and 2-2-1 tie, and a tie that a later candidate beats occurs.
* `Amx`: two listings are enough to compare a match with its rival; `Micro` is small so
  that the epsilon of the price range weighs.
* `Weave`: `Wrap` is 4 for 2^63, and a timeout of 7 wraps to -1.
* `Admin`: five transactions are the least in which a score is updated, decays, is set back
  and decays again, in which a key is registered, elected, rotated, banned and elected, and
  in which a proposal is voted on, put up again, voted on and executed. Two epochs, 0 and
  4, put the distance on and below the limit of 4, and an epoch of 3 after 8 wraps at
  `EpochWidth`. With `Wrap` 8 and `Exact` 5 the deposits 0, 3 and 9 are an exact pair and
  one that wraps to below zero. `MaxTasks`, `MaxRegs` and `MaxBallots` cap the histories;
  two registrations and three keys are the least with a rotation onto a registered key. The scale of 60
  with floor 10 and divisor 5 makes clamping, the floor and an exact half occur.
* `Demos`: two stories are the least that can disturb each other; the rival's price is
  lower than or equal to a story's. `MaxForeign` 1 lets another client act once on the
  records of either story, before, between or after its steps; the proofs are for any
  number. `MaxTime` is 1: the clock stands still, since no timeout of a module is reached
  in a story's time (the proofs let it move).
* `WeaveValidate`: three declared nodes, an undeclared one, four edges: enough for every
  cycle of up to three nodes with a repeated edge.

### Fairness

* `Chain`: a goroutine that can run does (weak fairness on the steps of a block). Lock and
  the reader's lock are strongly fair: Go's mutex hands itself to a starved waiter. Nobody
  is obliged to send a request, and no handler outcome is owed.
* `Aap`, `Weave`: blocks keep being finalized and their time moves on (weak fairness on
  `EndBlock`, also with a later time). Clients owe nothing.
* `Demos`: an open block ends (weak fairness), and a demonstration that was begun gets the
  mutex again (strong fairness, as in `Chain`; it is one running HTTP handler). Nobody
  must begin one.

## 4. Findings

1. Revocation (`cap_revocation`). The daemon's catalogue says that revoking cascades to
   the capabilities below. `cascade` stops at a child that is not UNSPENT, and `delegate`
   does not look at the parent's status, so a usable capability can hang below a revoked
   one. What does hold is `NoStrandedChild`: the revoking step leaves no direct child
   usable.
2. Story (`story_trace`). The daemon's summary of a story says that demand, escrow,
   delivery, dispute and refund form a traceable chain. The story computes its order's id
   from its own listing, but its request is matched with the best listing of the whole
   market, so when another listing wins, escrow, task and dispute name an order that is
   not stored.

Limits that need no run of their own, because a property states them as its exception.

`fiat`: no handler rejects a negative amount (`fiat/module.go:249-322`). A negative slash
pays from the pool into the account, a negative deposit takes the account below zero, and
a negative slash or withdrawal raises a balance without its tier. `NoOverdraft` and
`WithdrawKeepsTier` say how far this reaches: only the accounts such a payload has named
and the pool balances that a slash with one, or of such an account, has named. With `Sub` above 1, payloads of more
than 8 digits, each stored result is rounded on its own and `DepositConserved` fails,
so `ConservationCorrect` and `PoolCorrect` assume `Sub = 1`. And `createEscrow` overwrites a funded id,
whose record then no longer shows the amount as held (`PaidOutOnce` shows that it is not
paid out twice either).

`caputxo`: `delegate` takes a negative `expires_at` under a parent that expires
(`caputxo/module.go:182`), and `spend` reads it as never (line 145). Such a child, and what
derives from it, can be used after the parent's expiry, until the sweep at the end of the
block takes it. `NoUsePastAncestorExpiry` shows that this is the only way.

`node`: `ban_node` reaches the record of the key it names. A record that `rotate_key` copied
to another key before keeps the standing of a validator there; `OnlyElectedAreActive` says
exactly which keys have it. Above 2^50 an election may take a smaller deposit for a larger
one (`parseFloat`, `node/module.go:270`), which `ElectionIsByStake` excepts.

The demonstrations: since `fiat`, `aap` and `arb` do not look at the sender of most
transactions, another client can write a story's records and so stop the story. A
`refund_escrow` by anybody (`fiat/module.go:230-247`) gets the tenth step refused.
`StoriesFinish` and `StoriesDoNotInterfere` are about the stories this has not happened to
(`touched`), and show that it harms no other.

`Rep`: an `apply_decay` with an epoch before
the stored one decays at once and sets the epoch back, because the subtraction is one of
uint64. `DecayIsRateLimited` is about every score this has not happened to.

## 5. Proofs

All theorems hold for every value of the constants that satisfies the named assumptions
(`ChainConstants`, `CapConstants`, `FiatConstants`, `AapConstants`, `AmxConstants`,
`ArbConstants`, `WeaveConstants`, `ValidateConstants`, `RepConstants`, `NodeConstants`,
`GovConstants`, `AdminConstants`, `DemosConstants`). `DemosConstants` has what the
assumptions of the five modules become under the constants of a story, and says besides
that the names for an absent or unreadable value are none of the real ones.

Loops and sums are proved by induction, in a form the provers accept. An induction rule
with a predicate as parameter cannot be instantiated, so the rule is one about sets:
`NatSetInduction` says that a set of naturals with zero and the successors of its members
is all of them (a smallest number outside would contradict it), and a proof names the set
of those `k` after which the loop invariant holds. A loop is a recursive function, and a
fold a `CHOOSE` of one: that such a function exists comes first (`FoldExists`, `TallyRuns`,
`LoopSteps`, `WalkRuns`, `DescendRuns`, `SweepRuns`). Each proof module has the few it
needs. Where a maximum over a finite set matters, a smallest set without one is refuted.

`ChainProofs`. `SequenceCorrect`: `NoncesInSequence` is not inductive, because nothing in
it says that the stored nonce counts the successes. The strengthening `IInv` adds `Mutex`
(whoever is past Lock holds the mutex), `NonceIsDue` (between the handler's success and
SetNonce the transaction's nonce is still the stored one) and `Counted` (the stored nonce
is the number of successes, less the pending one). `Mutex` is what `Counted` needs: at
most one success is pending. `TypeCorrect` follows from the same invariant, since
SetNonce's value is a natural only inside a block. `ReadsCorrect` rests on two facts:
no write is from above the present height (`NoWriteAbove`), and a reader's entries are
not above the height it will read (`ReadersBehind`). `AnswersCorrect` and `Refinement`
need `LInv`, which adds where in its block each success took effect: `Requests` (whoever
holds the mutex is in its block, and answers do not outnumber transactions), `Placed`
(what took effect in the open block comes before the present position),
`PendingIsPlaced` and `Told` (`AnswersAreTrue` while the nonce is still to be stored).
`Placed` is also what lets a success append to the ledger, and `Counted` what makes the
committed nonces the length of the sealed logs. `HashCorrect` adds `Versions`, which
counts the blocks that committed and panicked, and `Covered`.

`CapUTXOProofs`. `TypeCorrect`; then `DeriveEntries`, the index stated entry by entry,
which is inductive and gives `DeriveIndexSound`. `StepKeeps` and `StepAdds` say once what
any step does to a stored and to a new record (terms never change; a new record is a mint
or one delegation below a stored parent), so the invariants need no case split over the
actions. `AttenuationCorrect` is about ancestors at any distance, which is not inductive;
its strengthening `Attenuation` compares a capability with its direct parent only. From
it the statement about ancestors follows without an induction over paths: the set of
capabilities no stronger than the ancestor is closed under children, and `Reach` is the
least closed set (`ReachLeast`). `ExpiryRespected` uses the same argument for expiries.
`StatusesOnlyEnd`, `UsesCorrect`, `SweepCorrect` and `NoChildStranded` rest on what
`Cascade` contains (`CascadeLive`, `CascadeCovers`).

The loops of `CapCascade`: `Post` says what a call of `cascade` has done when it returns.
It marked only records that were UNSPENT (`Marks`) and that every closed set around the
parent holds (`Within`); what it marked has no UNSPENT child left (`Done`); nor has the
parent. `WalkWorks` shows this for a call whose nested calls satisfy it, by an invariant of
the loop over the keys (`Progress`, kept by `VisitKeeps`); `CascadeWorks` is an induction on
the number of UNSPENT records, which falls from call to call (`FewerWhite`). So what is
marked is closed and inside every closed set: it is `Cascade`, and `RevocationComputed`
follows. `SweepOrderCorrect` uses the same loop invariant with all due records as roots;
that the snapshot is stale does not matter, because a record an earlier cascade already
expired gets the same status again, and the cascade below it finds nothing. Both need that
the records are finitely many (`FinitelyMany`) and that a key order has each (`KeysInOrder`).

`FiatProofs`. `TypeCorrect`, for payloads of either sign (rounding and commission are
integers). `SettlementCorrect`: `PaidOutOnce` is inductive because its second part says
that a held escrow has an unpaid funding. `ConservationCorrect` assumes `Sub = 1` and
takes payloads of either sign; it is strengthened by `NoAccountNoWithdrawal`.
`OverdraftCorrect` and `WithdrawalCorrect` assume nothing of the payloads, neither their
sign nor their digits. `NoOverdraft` is inductive: it speaks of what no negative payload
has reached, where a slash is capped by a balance that is not negative. `WithdrawalCorrect`
is strengthened by `TierNotUnderstated` (slashing leaves the stored tier too high, never
too low) and by `WholeUnits`: an untainted balance is a whole number of units, so that
rounding what a slash or withdrawal leaves of it never exceeds it. `PoolCorrect` assumes `Sub = 1`. Its
invariant `PoolInv` says that the accounts are finitely many and that the drift is at most
two a release. The sum over the accounts is a fold in an arbitrary order: `AnyOrder` and
`SumsAgree` show that the order does not matter, `SaveChanges` that one saved account
changes the sum by what its own field changes; `ShareIsAFifth` bounds the rounding of one
release.

`AapProofs`. `TypeCorrect`; `SettlementCorrect`: `SettledResultWasVerified` is inductive
as it stands; `RetriesCorrect`: a task is retried fewer times than its limit. The lemmas
say what each handler writes (`OnlyChanges`): one task, and in it named fields.
`HeartbeatsCorrect` follows from them action by action.

`ArbProofs`. `ArbInv` says of every dispute its shape and what `ReviewCanBeVoted` says of
it. Each action is shown once to keep `ArbInv` and to yield only to votes (`Kept`), from
which both `ReviewsCorrect` and `FinalityCorrect` follow. `VerdictsCorrect` adds that every
verdict is grounded (`Grounded`). Its core is `MajorityIsPlurality`: in every order of the
ballots the tally ends with the one that has strictly more votes than any other, or with a
tie when there is none. The invariant of that loop (`LoopInv`) is that the best count so far
is the maximum and that the tie flag says whether it is reached twice.

`AmxProofs`. `ListingInv` (the listings' types and the index) gives `IndexCorrect`.
`OrderInv` (the shape of an order) gives `OrdersCorrect`; the actions that touch an order
are few (`OrderStep`), the others leave it alone. `ProviderCorrect` and `MatchCorrect` need
that a best candidate exists: the scores, fractions with positive denominators, are totally
ordered (`FractionsOrdered`), and there are finitely many (`BestExists`). That a dominating
offer scores more, for every price range and with the epsilon in its denominator, is
`DominatingScoresMore`. `ProviderCorrect` is inductive together with `ListingInv` and
`OrderInv`, since an id is created over only by its owner.

`WeaveProofs`. `DagInv` keeps the shape of a DAG and that it did not start in the future,
without which an expired DAG could still complete: `startedAt` plus a wrapped timeout must
lie behind the clock. It gives `OutcomesCorrect`. `ValidationCorrect` is about Kahn's loop,
for any number of nodes and edges. Its invariant `LoopInv` keeps the set `V` of nodes taken
so far: the counts are those of edges from outside `V`, the queue holds the nodes outside
`V` with count zero, and `V` has an order in which its edges go forward. If the loop takes
every node, that order is the topological one; if it stops short, every node left has a
predecessor left, and of the nodes left the first of any order would have none.

`CompositionProofs`, the network's administration (`Admin`). `RepInv` joins the types,
`TotalFollowsParts` and `DecayIsRateLimited` with the fact that an entity without a score never decayed. The arithmetic is in lemmas: either
rounding of the weighted sum is within half a point (`computeTotal`), and clamping keeps
it there; due epochs that are not before the stored one are four later. `NodeInv` joins
the types with `OnlyElectedAreActive`. `ElectionCorrect` shows that score and key order
the candidates totally, whatever scores an election computes (`RanksIsOrder`), and that the set of those with too few above them
has as many members as there are places (`ElectionFills`). `GovInv` ties the stored counts
to the votes cast since the proposal was last put up; with it, and with `AppliedIsLast`, by
which the last entry of a list of changes wins, `GovernanceCorrect` follows. Steps of one
module leave the others' variables alone, so each invariant is shown for its own module's
actions.

`CompositionProofs`, the demonstrations (`Demos`), for any number of stories, rival
listings, prices and transactions of other clients on the stories' records. `StoriesDoNotInterfere` speaks of stories that are through, so it is
far from inductive. `DemosInv` says of every story, at whichever step it is, the nonces of
its two keys (`StepsInv`), its listing and that no order has its number before its request
(`MarketInv`), and of every story that no other client touched (`Intact`) the very records
that `fiat`, `aap` and `arb` hold for it (`EscrowInv`, `WorkInv`, `CourtInv`); `CapsInv` says
the same of the caputxo demonstration. Of a touched story nothing is said of these records,
so another client's transaction need only be shown to leave the other stories' alone
(`EscrowTouched`, `TaskTouched`, `DisputeTouched`). That it does, and that a step of one
story leaves what is said of the others, rests on `StoriesDiffer`: ids and keys of different stories differ, because a task's and a
dispute's id are made from the order's. The clock matters too: `EndBlock` of `aap` fails a
silent task only while it is executing, which a story's never is, and nothing the caputxo
demonstration mints is ever due (`NothingDue`). `StoriesCorrect` follows.

`NoStepIsRefused` draws the other conclusion from `DemosInv`: in every state the next
block of every intact story, and of the caputxo demonstration, meets the guards of its
action (`StoryIsAccepted`, `DemoIsAccepted`). The nonces and ids are those computed beforehand,
and a request finds at least the story's own listing and makes an order under a free id,
whichever listing wins. What `StoriesFinish` adds to it is only that a step which can be
taken is taken.

`StoriesDriveTheModules` is the composition, other clients' transactions included: every
step of `Demos` is for each of the five
modules one of its own actions, with payloads the instance allows, or leaves its variables
alone (`MarketRuns`, `EscrowsRun`, `WorkRuns`, `CourtRuns`, `CapsRun`). For `amx` this needs
that the match is a stored listing, hence that a best candidate exists. So the theorems of
the five proof modules, instantiated under the same substitution, hold of `Demos`;
`GuaranteesCarryOver` states the ones that matter there.

Only model-checked: liveness (`EveryoneIsAnswered`, `SilentTaskEnds`, `RunningDagEnds`,
`StoriesFinish`), which is out of the prover's reach under fairness. Every other property
of the passing runs is stated by a theorem.

## 6. Properties by component

* Pipeline: `NoncesInSequence`, `AnswersAreTrue`, `HashCoversStore`,
  `HeightCoversEntries`, `ImplementsLedger`, `EveryoneIsAnswered`. `HashCoversStore` also
  relates the store's version to the height: InitChain commits as well, and a block that panicked does not,
  so the version is the height plus one minus the panicked blocks.
* Capabilities: `DeriveIndexSound`, `NoAmplification`, `NoUsePastAncestorExpiry`,
  `StatusOnlyEnds`, `NoStrandedChild`, `SweepIsComplete`,
  `RevokeComputesCascade`, `SweepIsOrderIndependent`.
* Settlement: `PaidOutOnce`, `DepositConserved`, `NoOverdraft`, `PoolIsBacked`,
  `WithdrawKeepsTier`.
* Tasks: `SettledResultWasVerified`, `LateHeartbeatIsHarmless`, `SilentTaskEnds`.
* Disputes: `VerdictHasGround`, `ReviewCanBeVoted`, `FinalVerdictYieldsOnlyToVotes`.
* Market: `NoBetterOffer`, `IndexCoversListings`, `OrderNamesItsProvider`,
  `OrdersOnlyAdvance`.
* DAGs: `OutcomeIsEarnedAndFinal`, `RunningDagEnds`, `AcceptsExactlyDags`.
* Reputation, registry, governance: `TotalFollowsParts`, `DecayIsRateLimited`,
  `OnlyElectedAreActive`, `ElectionIsByStake`, `ParamsChangeOnlyByApproval`.
* Demonstrations: `StoriesDoNotInterfere`, `StoriesFinish`.

`UsesWithinLimit`, `RetriesBounded` and the types of `Chain`, `Fiat`, `Aap` and `Rep` are
proved and not among the properties of the runs; the types of the other modules are part
of the inductive invariants above.

## 7. Not modelled

* `afd` stores an alert as it is given; its detectors are floating-point statistics that
  nothing calls.
* The iavl engine sits behind a build tag. It runs over an in-memory database, so it
  persists nothing either, and has the interface of the memory engine; its tree is an
  external library. There is no restart to model: state does not outlive the process.
* The CometBFT adapter, behind a build tag too, converts types and passes every call on.
* PrepareProposal, ProcessProposal and Query change no state.
* The catalogue, the snapshots for display and the UI of the daemon are presentation.
* The event bus feeds the response only. p2p is message types and a table of limits, not
  wired to the daemon. Ed25519, hashing and JSON are library code: a transaction is signed
  and well formed or not.
* The REST and gRPC servers, CLI and relay are stubs without state.

## 8. What could follow

1. An abstract escrow that `Fiat` implements for each id, and that `Demos` could be stated
   over.
2. Two transactions of other clients on one story's records, and a client that pauses its
   listing between a story's steps, when the state space allows.
