-------------------------------- MODULE Node --------------------------------
(***************************************************************************)
(* The node registry, internal/modules/node/module.go.                     *)
(*                                                                         *)
(* node/r/<key> holds registrations and node/v/<key> an entry for every    *)
(* key that was ever elected.  A registration is always filed under its    *)
(* own public key; keys are numbers, ordered like their hex strings.       *)
(* Only rotate_key looks at its sender.  Nothing removes a registration or *)
(* an entry, so a rotated key leaves its old record behind and a validator *)
(* stays one until it is banned or registers again.                        *)
(*                                                                         *)
(* A registration's reputation is 500 and its uptime 1.0 for ever: nothing *)
(* changes them.  So the election score, half of it the deposit's share of *)
(* the largest deposit, depends on the deposit alone.  A deposit is read   *)
(* digit by digit into an int64, which wraps around, and the score is      *)
(* computed in float64, which may merge scores.  Here a score is its place *)
(* among the candidates' scores.                                           *)
(***************************************************************************)
EXTENDS Integers, FiniteSets

CONSTANTS
  Keys,          \* public keys, numbers
  Tiers,         \* values of tier
  Deposits,      \* deposits, the number their leading digits make
  Wrap,          \* 2^63: an int64 goes from -Wrap to Wrap - 1
  Exact,         \* 2^50: deposits up to here get scores float64 tells apart
  MaxValidators, \* max_validators in an elect_validators payload; 0 means 21
  MaxRegs        \* bound: registrations

ValidatorTiers == {"T0_VALIDATOR", "T1_FULL"}

ASSUME NodeConstants ==
  /\ Keys \subseteq Nat /\ Deposits \subseteq Nat
  /\ Wrap \in Nat \ {0} /\ Exact \in Nat /\ Exact < Wrap
  /\ MaxValidators \subseteq Nat /\ MaxRegs \in Nat

VARIABLES
  node,     \* node/r/: partial function from Keys
  val,      \* node/v/: the keys that were elected
  lineage,  \* history: the registration that the record of a key goes back to
  elected,  \* history: the <<key, registration>> with the standing of a validator
  regs      \* history: how many registrations there were

nodeVars == <<node, val, lineage, elected, regs>>

Nodes == DOMAIN node

NodeStatuses == {"REGISTERED", "ACTIVE_VALIDATOR", "BANNED"}
NodeRegistration == [tier : Tiers, deposit : Deposits, status : NodeStatuses]

saveNode(k, r) == [i \in Nodes \cup {k} |-> IF i = k THEN r ELSE node[i]]

Traced(k, n) == [i \in Nodes \cup {k} |-> IF i = k THEN n ELSE lineage[i]]

-----------------------------------------------------------------------------
NodeInit ==
  /\ node = [i \in {} |-> 0]
  /\ val = {}
  /\ lineage = [i \in {} |-> 0]
  /\ elected = {}
  /\ regs = 0

\* A second registration that keeps the standing of the first.
KeepStatus(k) == IF k \in Nodes THEN node[k].status ELSE "REGISTERED"

\* Whatever was registered under the key before, a ban included.
StatusOnRegister(k) == "REGISTERED"

\* The hardware meets validateHardware's demands of the tier.
registerNode(sender, tier, deposit) ==
  /\ regs < MaxRegs
  /\ node' = saveNode(sender,
       [tier |-> tier, deposit |-> deposit, status |-> StatusOnRegister(sender)])
  /\ lineage' = Traced(sender, regs + 1)
  /\ regs' = regs + 1
  /\ UNCHANGED <<val, elected>>

\* The record is copied, status included, over whatever the new key had.
rotateKey(sender, newKey) ==
  /\ sender \in Nodes
  /\ node' = saveNode(newKey, node[sender])
  /\ lineage' = Traced(newKey, lineage[sender])
  /\ elected' = IF <<sender, lineage[sender]>> \in elected
                  THEN elected \cup {<<newKey, lineage[sender]>>}
                  ELSE elected \ {<<newKey, lineage[sender]>>}
  /\ UNCHANGED <<val, regs>>

\* The status is not among the conditions.
Candidates == {k \in Nodes : node[k].tier \in ValidatorTiers}

\* The whole units of a deposit as an int64.
parseFloat(deposit) == ((deposit + Wrap) % (2 * Wrap)) - Wrap

\* Every candidate's deposit is one whose score float64 keeps apart.
AllExact == \A k \in Candidates : node[k].deposit <= Exact

\* The scores an election may compute: they never invert the order of what
\* parseFloat returns, but may merge different values unless all are exact.
Scores ==
  {f \in [Candidates -> 0..Cardinality(Candidates)] : \A j, k \in Candidates :
     /\ parseFloat(node[j].deposit) <= parseFloat(node[k].deposit) => f[j] <= f[k]
     /\ AllExact /\ node[j].deposit < node[k].deposit => f[j] < f[k]}

\* An order by key that forgets the scores.
RanksByKeyOnly(f, j, k) == j < k

\* sort.Slice: the better score first, then the smaller key.
Ranks(f, j, k) == f[j] > f[k] \/ (f[j] = f[k] /\ j < k)

EffectiveMax(max) == IF max = 0 THEN 21 ELSE max

\* Those that fewer than max candidates outrank.
Chosen(f, max) ==
  {k \in Candidates : Cardinality({j \in Candidates : Ranks(f, j, k)}) < EffectiveMax(max)}

Elect(top) ==
  /\ node' = [k \in Nodes |->
       IF k \in top THEN [node[k] EXCEPT !.status = "ACTIVE_VALIDATOR"] ELSE node[k]]
  /\ val' = val \cup top
  /\ elected' = elected \cup {<<k, lineage[k]>> : k \in top}
  /\ UNCHANGED <<lineage, regs>>

electValidators(max) == \E f \in Scores : Elect(Chosen(f, max))

\* The record of this key alone, whatever was copied from it or to it.
banNode(k) ==
  /\ node' = [node EXCEPT ![k].status = "BANNED"]
  /\ elected' = elected \ {<<k, lineage[k]>>}
  /\ UNCHANGED <<val, lineage, regs>>

NodeNext ==
  \/ \E s \in Keys, t \in Tiers, d \in Deposits : registerNode(s, t, d)
  \/ \E s, k \in Keys : rotateKey(s, k)
  \/ \E m \in MaxValidators : electValidators(m)
  \/ \E k \in Nodes : banNode(k)

-----------------------------------------------------------------------------
(***************************************************************************)
(* Types of the stored registrations.                                      *)
(***************************************************************************)
NodeTypeOK ==
  /\ Nodes \subseteq Keys
  /\ node = [k \in Nodes |-> node[k]]
  /\ \A k \in Nodes : node[k] \in NodeRegistration
  /\ val \subseteq Nodes
  /\ DOMAIN lineage = Nodes
  /\ lineage = [k \in Nodes |-> lineage[k]]
  /\ \A k \in Nodes : lineage[k] \in 1..regs
  /\ elected \subseteq Nodes \X (1..regs)
  /\ regs \in Nat

(***************************************************************************)
(* However keys are rotated onto one another, registered anew and banned,  *)
(* a key is an active validator exactly when, under the registration its   *)
(* record goes back to, an election chose it or its record was copied from *)
(* an active validator's, and neither a ban of this key nor a copy of a    *)
(* record that was not active came after (registerNode, rotateKey,         *)
(* electValidators, banNode).  A ban reaches only the key it names: the    *)
(* copy a rotation made before keeps its standing.                         *)
(***************************************************************************)
OnlyElectedAreActive ==
  \A k \in Nodes :
    node[k].status = "ACTIVE_VALIDATOR" <=> <<k, lineage[k]>> \in elected

(***************************************************************************)
(* Every election keeps the best: it makes validators of as many nodes of  *)
(* a validator tier as there is room for, and nobody else's standing       *)
(* changes.  When all deposits are at most 2^50, nobody it leaves out has  *)
(* a larger deposit, or the same and a smaller key, than one it takes.     *)
(* Beyond that float64 may merge scores and parseFloat wraps around, and   *)
(* what remains is that a key beats a smaller one only by a larger parsed  *)
(* deposit.  A former validator and a banned node compete like anybody.    *)
(***************************************************************************)
ElectionIsByStake ==
  [][\A m \in MaxValidators : electValidators(m) =>
       \E in \in SUBSET Candidates :
         /\ Cardinality(in) = IF Cardinality(Candidates) < EffectiveMax(m)
                                THEN Cardinality(Candidates) ELSE EffectiveMax(m)
         /\ \A k \in in : node'[k].status = "ACTIVE_VALIDATOR" /\ k \in val'
         /\ \A k \in Nodes \ in : node'[k] = node[k]
         /\ \A j \in in, k \in Candidates \ in :
              /\ AllExact => node[j].deposit >= node[k].deposit
              /\ k < j => parseFloat(node[j].deposit) > parseFloat(node[k].deposit)]_nodeVars
=============================================================================
