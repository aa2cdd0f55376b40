------------------------------- MODULE Demos -------------------------------
(***************************************************************************)
(* The two demonstrations of cmd/aacpd/main.go, run against the modules    *)
(* they drive: /api/demo/story-poster (amx, fiat, aap and arb) and         *)
(* /api/demo/caputxo-full (caputxo).                                       *)
(*                                                                         *)
(* A demonstration is one HTTP request that finalizes a block for each of  *)
(* its steps, under keys of its own, and computes beforehand every id it   *)
(* will need and every nonce it will sign with.  Between two of its blocks *)
(* others run: other stories, empty blocks, other clients' listings and    *)
(* their transactions on the story's own escrow, task and dispute, which   *)
(* fiat, aap and arb mostly accept from anybody who knows the id.  Blocks  *)
(* themselves do not overlap (see Chain).  A block is a transaction and    *)
(* then the modules' EndBlock.                                             *)
(*                                                                         *)
(* Ids are hashes; here an id is the tuple of what is hashed.  Prices are  *)
(* whole yuan in the market and cents in the escrow.  A step whose         *)
(* transaction would be refused ends a demonstration; here it stops it,    *)
(* and StoriesFinish says when this does not happen.  The request of step  *)
(* 2 has a deadline of two hours, which its block is taken to make.        *)
(***************************************************************************)
EXTENDS Integers, Sequences

CONSTANTS
  Stories,      \* requests to story-poster; a number orders its listing's id
  RivalIds,     \* ids of listings by other clients, numbers
  RivalPrices,  \* their prices
  BadPrice, None, NoResult, Nothing, Nobody,   \* see Amx, Aap and Arb
  MaxTime,      \* bound: the last block time explored
  MaxForeign    \* bound: other clients' transactions on stories' records

-----------------------------------------------------------------------------
Provider(s) == <<"provider", s>>
Consumer(s) == <<"consumer", s>>
Rival == <<"rival", 0>>
Issuer == <<"issuer", 0>>
Holder == <<"holder", 0>>
DelegateKey == <<"delegate", 0>>

\* The nonce a story counts up to for the sender of each step.
StepNonce == <<0, 0, 1, 2, 3, 1, 4, 5, 6, 7>>

\* A task id that is a hash of the nonce alone.
TaskIDWithoutOrder(order, nonce) == <<0, nonce>>

\* The ids modules compute from the nonce of the transaction.
NewOrderID(s, nonce, l) == <<s, nonce, l>>
NewTaskID(order, nonce) == <<order, nonce>>
NewDisputeID(order, task, nonce) == <<order, task, nonce>>

\* The ids a story computes before its first step.
listingID(s) == s
orderID(s) == NewOrderID(s, 0, listingID(s))
escrowID(s) == orderID(s)

\* An id computed with the wrong nonce.
TaskIDOffByOne(s) == NewTaskID(orderID(s), 2)

taskID(s) == NewTaskID(orderID(s), 3)
disputeID(s) == NewDisputeID(orderID(s), taskID(s), 5)
ParentUTXOID == "parent"
ChildUTXOID == "child"

VARIABLES
  step,      \* the step each story is at; 11 when it is through
  demo,      \* the step of the caputxo demonstration; 4 when it is through
  nonce,     \* nonce/<sender>, of the keys of the demonstrations
  open,      \* whether a block is open
  touched,   \* history: the stories whose records another client's transaction wrote
  foreign,   \* history: how many such transactions there were
  now,       \* the time of the block being executed
  listing, index, order,                                               \* amx
  escrow, deposit, pool, fundings, settlements, releases, withdrawn,
  tainted, drained,                                                    \* fiat
  task, heartbeat, evidence, accepted,                                 \* aap
  dispute,                                                             \* arb
  utxo, derive, byHolder, byType                                       \* caputxo

amxVars == <<listing, index, order>>
fiatVars == <<escrow, deposit, pool, fundings, settlements, releases, withdrawn,
              tainted, drained>>
aapVars == <<task, heartbeat, evidence, accepted>>
capVars == <<utxo, derive, byHolder, byType>>
otherVars == <<touched, foreign>>
vars == <<step, demo, nonce, open, now, otherVars, amxVars, fiatVars, aapVars, dispute,
          capVars>>

StoryKeys == {Provider(s) : s \in Stories} \cup {Consumer(s) : s \in Stories}
Actors == StoryKeys \cup {Rival, Issuer, Holder, DelegateKey}

\* The names for what is absent or does not parse are none of the real ones.
ASSUME DemosConstants ==
  /\ Stories \subseteq Nat /\ RivalIds \subseteq Nat /\ Stories \cap RivalIds = {}
  /\ RivalPrices \subseteq Nat
  /\ MaxTime \in Nat \ {0} /\ MaxForeign \in Nat
  /\ BadPrice \notin Int
  /\ None \notin Stories \cup RivalIds /\ None \notin Actors
  /\ None \notin {ParentUTXOID, ChildUTXOID}
  /\ Nothing \notin {"poster-hash-v1", NoResult} /\ Nobody # "consumer"

Market == INSTANCE Amx WITH
  ListingIds <- Stories \cup RivalIds,
  OrderIds <- {NewOrderID(s, 0, l) : s \in Stories, l \in Stories \cup RivalIds},
  CapLists <- {<<"poster_design">>}, Required <- {{"poster_design"}},
  Currencies <- {"CNY"}, Prices <- RivalPrices \cup {199}, Budgets <- {299},
  Micro <- 1000000

Escrows == INSTANCE Fiat WITH
  EscrowIds <- {escrowID(s) : s \in Stories},
  Providers <- {Provider(s) : s \in Stories},
  Fees <- {19900}, BPS <- {1200}, Amounts <- {}, Sub <- 1,
  StarterMin <- 0, ProMin <- 0, EnterpriseMin <- 0, Unbonding <- 0,
  MaxFundings <- 1 + MaxForeign, MaxTotal <- 0, MaxDebt <- 0

Work == INSTANCE Aap WITH
  TaskIds <- {taskID(s) : s \in Stories}, Results <- {"poster-hash-v1", NoResult},
  RetryLimits <- {1}, Timestamps <- {0}, Timeout <- 180, MaxSeq <- 0,
  LastBeat <- 0, MaxFails <- 1 + MaxForeign

Court == INSTANCE Arb WITH
  DisputeIds <- {disputeID(s) : s \in Stories}, Reasons <- {"quality"}, Ballots <- {},
  Committee <- [d \in {disputeID(s) : s \in Stories} |-> {}],
  MaxEvidence <- 0, MaxCommittee <- 0, MaxFull <- 0

Caps == INSTANCE CapUTXO WITH
  RootIds <- {ParentUTXOID}, ChildIds <- {ChildUTXOID},
  CapTypes <- {"text_generation"}, ScopeNames <- {"read", "write"},
  Expiries <- {0}, UseLimits <- {0}, Depths <- {3}, UseBound <- 0

-----------------------------------------------------------------------------
Init ==
  /\ step = [s \in Stories |-> 1]
  /\ demo = 1
  /\ nonce = [k \in StoryKeys \cup {Issuer, Holder} |-> 0]
  /\ open = FALSE
  /\ touched = {} /\ foreign = 0
  /\ Market!Init /\ Escrows!Init /\ Work!Init /\ Court!Init /\ Caps!Init

\* FinalizeBlock with a transaction of this key, which succeeds.
Executes(key, n) ==
  /\ ~open /\ open' = TRUE
  /\ nonce[key] = n
  /\ nonce' = [nonce EXCEPT ![key] = n + 1]

\* runStoryStep: story s finalizes its k-th block.
runStoryStep(s, k, sender) ==
  /\ step[s] = k
  /\ step' = [step EXCEPT ![s] = k + 1]
  /\ Executes(sender, StepNonce[k])
  /\ UNCHANGED <<demo, otherVars, capVars>>

createListing(s) ==
  /\ runStoryStep(s, 1, Provider(s))
  /\ Market!createListing(Provider(s), listingID(s), <<"poster_design">>, "CNY", 199)
  /\ UNCHANGED <<now, fiatVars, aapVars, dispute>>

\* The order's id is made from the listing that is matched.
submitRequest(s) ==
  LET match == Market!Best(Market!Candidates({"poster_design"}, "CNY", 299)) IN
  /\ runStoryStep(s, 2, Consumer(s))
  /\ Market!submitRequest(Consumer(s), NewOrderID(s, StepNonce[2], match),
                          {"poster_design"}, "CNY", 299)
  /\ UNCHANGED <<now, fiatVars, aapVars, dispute>>

createEscrow(s) ==
  /\ runStoryStep(s, 3, Consumer(s))
  /\ Escrows!createEscrow(escrowID(s), 19900, 1200, "CNY")
  /\ UNCHANGED <<amxVars, aapVars, dispute>>

fundEscrow(s) ==
  /\ runStoryStep(s, 4, Consumer(s))
  /\ escrowID(s) \in DOMAIN escrow
  /\ Escrows!fundEscrow(escrowID(s))
  /\ UNCHANGED <<amxVars, aapVars, dispute>>

createTask(s) ==
  /\ runStoryStep(s, 5, Consumer(s))
  /\ Work!createTask(NewTaskID(orderID(s), StepNonce[5]), Provider(s), 1)
  /\ UNCHANGED <<amxVars, fiatVars, dispute>>

submitResult(s) ==
  /\ runStoryStep(s, 6, Provider(s))
  /\ taskID(s) \in DOMAIN task
  /\ Work!submitResult(Provider(s), taskID(s), "poster-hash-v1")
  /\ UNCHANGED <<amxVars, fiatVars, dispute>>

verifyResult(s) ==
  /\ runStoryStep(s, 7, Consumer(s))
  /\ taskID(s) \in DOMAIN task
  /\ Work!verifyFailed(taskID(s))
  /\ UNCHANGED <<amxVars, fiatVars, dispute>>

fileDispute(s) ==
  /\ runStoryStep(s, 8, Consumer(s))
  /\ Court!fileDispute(NewDisputeID(orderID(s), taskID(s), StepNonce[8]),
                       Consumer(s), Provider(s), "quality")
  /\ UNCHANGED <<now, amxVars, fiatVars, aapVars>>

autoResolve(s) ==
  /\ runStoryStep(s, 9, Consumer(s))
  /\ disputeID(s) \in DOMAIN dispute
  /\ Court!autoResolveByRule(disputeID(s))
  /\ UNCHANGED <<now, amxVars, fiatVars, aapVars>>

refundEscrow(s) ==
  /\ runStoryStep(s, 10, Consumer(s))
  /\ escrowID(s) \in DOMAIN escrow
  /\ Escrows!refundEscrow(escrowID(s))
  /\ UNCHANGED <<amxVars, aapVars, dispute>>

StoryStep(s) ==
  \/ createListing(s) \/ submitRequest(s) \/ createEscrow(s) \/ fundEscrow(s)
  \/ createTask(s) \/ submitResult(s) \/ verifyResult(s) \/ fileDispute(s)
  \/ autoResolve(s) \/ refundEscrow(s)

\* The caputxo demonstration finalizes its k-th block.
runDemoStep(k, sender, n) ==
  /\ demo = k
  /\ demo' = k + 1
  /\ Executes(sender, n)
  /\ UNCHANGED <<step, now, otherVars, amxVars, fiatVars, aapVars, dispute>>

DemoStep ==
  \/ /\ runDemoStep(1, Issuer, 0)
     /\ Caps!Mint(Issuer, [holder |-> Holder, capType |-> "text_generation",
                           scopes |-> {"read", "write"}, expiresAt |-> 0, maxUses |-> 0,
                           delegatable |-> TRUE, maxDepth |-> 3])
  \/ /\ runDemoStep(2, Holder, 0)
     /\ Caps!Delegate(Holder, ParentUTXOID,
          [newHolder |-> DelegateKey, scopes |-> {"read"}, expiresAt |-> 0, maxUses |-> 0])
  \/ /\ runDemoStep(3, Issuer, 1)
     /\ Caps!Revoke(Issuer, ParentUTXOID)

\* Another client's listing, sent to /api/finalize.
RivalLists(l, price) ==
  /\ ~open /\ open' = TRUE
  /\ l \notin DOMAIN listing
  /\ Market!createListing(Rival, l, <<"poster_design">>, "CNY", price)
  /\ UNCHANGED <<step, demo, nonce, now, otherVars, fiatVars, aapVars, dispute, capVars>>

(***************************************************************************)
(* Another client's transaction, sent to /api/finalize, on a record of     *)
(* story s.  Its ids can be read from the store or computed, and a record  *)
(* may be created under them before the story does, or again.  Only what   *)
(* the records of a story nobody touched allow is here: settle_task, the   *)
(* results and heartbeats of a new provider and the later stages of a      *)
(* dispute all need another such transaction before them.                  *)
(***************************************************************************)
ByOthers(s) ==
  /\ ~open /\ open' = TRUE
  /\ foreign < MaxForeign /\ foreign' = foreign + 1
  /\ touched' = touched \cup {s}
  /\ UNCHANGED <<step, demo, nonce, now, amxVars, capVars>>

\* No handler of an escrow looks at the sender.
OthersSettle(s) ==
  /\ ByOthers(s)
  /\ \/ Escrows!createEscrow(escrowID(s), 19900, 1200, "CNY")
     \/ /\ escrowID(s) \in DOMAIN escrow
        /\ \/ Escrows!fundEscrow(escrowID(s)) \/ Escrows!lockEscrow(escrowID(s))
           \/ Escrows!releaseEscrow(escrowID(s)) \/ Escrows!refundEscrow(escrowID(s))
  /\ UNCHANGED <<aapVars, dispute>>

\* Nor do those of a task, but for its heartbeats and results.
OthersWork(s) ==
  /\ ByOthers(s)
  /\ \/ \E p \in {Rival, Provider(s)} : Work!createTask(taskID(s), p, 1)
     \/ /\ taskID(s) \in DOMAIN task
        /\ \/ Work!signSLA(taskID(s)) \/ Work!verifyPassed(taskID(s))
           \/ Work!verifyFailed(taskID(s)) \/ Work!fileDispute(taskID(s))
  /\ UNCHANGED <<fiatVars, dispute>>

\* Nor those of a dispute, but for its evidence and the committee's votes.
OthersArbitrate(s) ==
  /\ ByOthers(s)
  /\ \/ Court!fileDispute(disputeID(s), Rival, Provider(s), "quality")
     \/ /\ disputeID(s) \in DOMAIN dispute
        /\ \/ Court!autoResolveByRule(disputeID(s)) \/ Court!appealRule(disputeID(s))
           \/ Court!executeVerdict(disputeID(s))
  /\ UNCHANGED <<fiatVars, aapVars>>

OthersStep(s) == OthersSettle(s) \/ OthersWork(s) \/ OthersArbitrate(s)

\* /api/finalize-empty.
EmptyBlock ==
  /\ ~open /\ open' = TRUE
  /\ UNCHANGED <<step, demo, nonce, now, otherVars, amxVars, fiatVars, aapVars, dispute, capVars>>

\* The modules' EndBlock and the end of finalize.
BlockEnds ==
  /\ open /\ open' = FALSE
  /\ Escrows!EndBlock /\ Work!EndBlock /\ Caps!EndBlock
  /\ UNCHANGED <<step, demo, nonce, otherVars, amxVars, dispute>>

Next ==
  \/ \E s \in Stories : StoryStep(s)
  \/ DemoStep
  \/ \E l \in RivalIds, p \in RivalPrices : RivalLists(l, p)
  \/ \E s \in Stories : OthersStep(s)
  \/ EmptyBlock
  \/ BlockEnds

(***************************************************************************)
(* A block that was begun ends, and a demonstration that was begun gets    *)
(* the daemon's mutex again (sync.Mutex does not starve a waiter, see      *)
(* Chain).  Nobody is obliged to begin one, or to send anything else.      *)
(***************************************************************************)
Spec ==
  /\ Init /\ [][Next]_vars
  /\ WF_vars(BlockEnds)
  /\ \A s \in Stories : SF_vars(step[s] > 1 /\ StoryStep(s))
  /\ SF_vars(demo > 1 /\ DemoStep)

-----------------------------------------------------------------------------
(***************************************************************************)
(* Stories that run at the same time, with whatever is on the market and   *)
(* whatever others do to the records of other stories, do not disturb one  *)
(* another: when a story is through whose own records no other client      *)
(* wrote, its task is disputed, its dispute decided for its consumer by    *)
(* the rule for quality, and its escrow funded once and refunded once, and *)
(* that stays so until another client writes one of them.  When the        *)
(* caputxo demonstration is through, the capability and the one derived    *)
(* from it are both revoked, whatever became of the stories.               *)
(***************************************************************************)
StoriesDoNotInterfere ==
  /\ \A s \in Stories \ touched : step[s] = 11 =>
       /\ escrow[escrowID(s)].status = "ESCROW_REFUNDED"
       /\ fundings[escrowID(s)] = 1 /\ settlements[escrowID(s)] = 1
       /\ task[taskID(s)].status = "TASK_DISPUTED"
       /\ task[taskID(s)].provider = Provider(s)
       /\ dispute[disputeID(s)].status = "DISPUTE_AUTO_RESOLVED"
       /\ dispute[disputeID(s)].verdict.winner = "consumer"
       /\ dispute[disputeID(s)].plaintiff = Consumer(s)
  /\ demo = 4 =>
       \A i \in {ParentUTXOID, ChildUTXOID} : utxo[i].status = "UTXO_REVOKED"

(***************************************************************************)
(* Every demonstration that was begun gets through all of its steps: no    *)
(* nonce or id that main.go computed beforehand is refused by a module,    *)
(* whatever blocks of other demonstrations, listings of others, empty      *)
(* blocks and transactions on other stories' records come between.  Only a *)
(* story one of whose own records another client wrote may stop: fiat, aap *)
(* and arb do not look at the sender, and a refund_escrow from anybody     *)
(* (fiat/module.go:230), say, gets its tenth step refused.                 *)
(***************************************************************************)
StoriesFinish ==
  <>[](/\ \A s \in Stories : step[s] > 1 => step[s] = 11 \/ s \in touched
       /\ demo > 1 => demo = 4)

(***************************************************************************)
(* What the summary of a story says: demand, escrow, delivery, dispute and *)
(* refund form a traceable chain.  The chain hangs on the order: escrow,   *)
(* task and dispute all name the order id the story reports, so an order   *)
(* of that id is stored.                                                   *)
(***************************************************************************)
OrderIsTraceable ==
  \A s \in Stories : step[s] = 11 => orderID(s) \in DOMAIN order
=============================================================================
