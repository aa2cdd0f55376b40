-------------------------- MODULE CompositionProofs --------------------------
(***************************************************************************)
(* Proofs about the two compositions of modules.  On the chain of module   *)
(* Admin: the reputation module, the node registry, the election and the   *)
(* governance, for every scale, payload, number of entities and number of  *)
(* votes.  On the daemon of module Demos: the demonstrations, for every    *)
(* number of stories, of other clients' listings and of their transactions *)
(* on the stories' records, and the theorems of the modules they drive,    *)
(* carried over to them.                                                   *)
(***************************************************************************)
EXTENDS Admin, Demos, TLAPS, FiniteSetTheorems, WellFoundedInduction, NaturalsInduction

-----------------------------------------------------------------------------
\* Decay keeps a part within the scale.
LEMMA DecayInRange ==
  ASSUME NEW v \in 0..Top
  PROVE  decayScore(v) \in 0..Top
<1>1. Top \in Nat /\ Floor \in Nat /\ Floor <= Top /\ DecayDiv \in Nat \ {0}
  BY RepConstants
<1>2. v \div DecayDiv \in Nat /\ v \div DecayDiv <= v
  BY <1>1, Z3
<1> QED BY <1>1, <1>2 DEF decayScore

\* Clamping brings any integer into the scale.
LEMMA ClampInRange ==
  ASSUME NEW v \in Int
  PROVE  clampU32(v, 0, Top) \in 0..Top
BY RepConstants DEF clampU32

\* The deltas of an update are integers.
LEMMA DeltasAreIntegers ==
  ASSUME NEW p \in Updates, NEW k \in Parts
  PROVE  computeDeltas(p)[k] \in Int
<1>1. p \in UpdatePayload
  BY RepConstants
<1>2. p.rating \in Nat /\ p.hbMiss \in Nat /\ p.compMS \in Nat /\ p.slaMS \in Nat
      /\ p.verifyOK \in BOOLEAN
  BY <1>1 DEF UpdatePayload
<1>3. clampU32(p.rating, 1, 5) \in Int
  BY <1>2 DEF clampU32
<1>4. reliabilityDelta(p.hbMiss) \in Int
  BY <1>2 DEF reliabilityDelta
<1>5. TimelinessDelta(p) \in Int
  BY <1>2 DEF TimelinessDelta
<1> DEFINE c == clampU32(p.rating, 1, 5)
           r == reliabilityDelta(p.hbMiss)
           t == TimelinessDelta(p)
<1> HIDE DEF c, r, t
<1>6. c \in Int /\ r \in Int /\ t \in Int
  BY <1>3, <1>4, <1>5 DEF c, r, t
<1> QED BY <1>1, <1>6 DEF computeDeltas, Parts, UpdatePayload, c, r, t

\* A total is within the scale and within half a point of the weighted sum.
LEMMA TotalIsClose ==
  ASSUME NEW part \in [Parts -> 0..Top], NEW total \in computeTotal(part)
  PROVE  /\ total \in 0..Top
         /\ 100 * total - Weighted(part) <= 50
         /\ -(100 * total - Weighted(part)) <= 50
<1> DEFINE w == Weighted(part)
<1>1. \A k \in Parts : part[k] \in 0..Top
  OBVIOUS
<1>2. Top \in Nat
  BY RepConstants
<1>3. w \in Nat /\ w <= 100 * Top
  <2>1. /\ part["quality"] \in 0..Top /\ part["timeliness"] \in 0..Top
        /\ part["reliability"] \in 0..Top /\ part["dispute"] \in 0..Top
        /\ part["network"] \in 0..Top
    BY <1>1 DEF Parts
  <2> QED BY <1>2, <2>1 DEF Weighted
<1> HIDE DEF w
<1>4. total \in {clampU32((w + 50) \div 100, 0, Top), clampU32((w + 49) \div 100, 0, Top)}
  BY DEF computeTotal, w
<1>5. ASSUME NEW h \in 49..50, total = clampU32((w + h) \div 100, 0, Top)
      PROVE  total \in 0..Top /\ 100 * total - w <= 50 /\ -(100 * total - w) <= 50
  <2> DEFINE q == (w + h) \div 100
  <2>1. q \in Nat /\ 100 * q <= w + h /\ w + h < 100 * q + 100
    BY <1>3, <1>5
  <2>2. total = clampU32(q, 0, Top)
    BY <1>5
  <2> HIDE DEF q
  <2>3. q <= Top
    BY <1>2, <1>3, <2>1
  <2>4. total = q
    BY <1>2, <2>1, <2>2, <2>3 DEF clampU32
  <2> QED BY <1>2, <1>3, <2>1, <2>3, <2>4
<1> QED BY <1>4, <1>5 DEF w

-----------------------------------------------------------------------------
\* The parts of TotalFollowsParts and DecayIsRateLimited for one score.
Close(s) ==
  LET drift == 100 * s.total - Weighted(s.part) IN drift <= 50 /\ -drift <= 50

(* The inductive invariant of the scores.  An entity without a score has   *)
(* never decayed.                                                          *)
RepInv ==
  /\ RepTypeOK
  /\ blockEpoch \in 0..(EpochWidth - 1)
  /\ TotalFollowsParts
  /\ DecayIsRateLimited
  /\ \A e \in Entities \ Scored : decays[e] = 0

\* What loadScore returns: a score of the right type; a default one is close and
\* has epoch 0.
LEMMA LoadType ==
  ASSUME RepTypeOK, NEW e \in Entities
  PROVE  /\ loadScore(e) \in ReputationScore
         /\ e \in Scored => loadScore(e) = score[e]
         /\ e \notin Scored => loadScore(e).updateEpoch = 0
<1>1. defaultScore \in ReputationScore /\ defaultScore.updateEpoch = 0
  BY RepConstants DEF defaultScore, ReputationScore
<1> QED BY <1>1 DEF loadScore, RepTypeOK

\* One score is stored, with the epoch it had.
LEMMA SaveKeeps ==
  ASSUME RepInv, NEW e \in Entities, NEW s \in ReputationScore,
         s.updateEpoch = loadScore(e).updateEpoch,
         score' = saveScore(e, s),
         \/ overridden' = overridden \ {e} /\ Close(s)
         \/ overridden' = overridden \cup {e},
         UNCHANGED <<decays, rewound, blockEpoch>>
  PROVE  RepInv'
<1>1. RepTypeOK
  BY DEF RepInv
<1>2. /\ Scored' = Scored \cup {e} /\ score'[e] = s
      /\ \A i \in Scored : i # e => score'[i] = score[i]
      /\ score' = [i \in Scored' |-> score'[i]]
  BY DEF saveScore, Scored
<1>3. RepTypeOK'
  BY <1>1, <1>2 DEF RepTypeOK
<1>4. TotalFollowsParts'
  <2> SUFFICES ASSUME NEW i \in Scored' \ overridden' PROVE Close(score'[i])
    BY DEF TotalFollowsParts, Close
  <2>1. CASE i = e
    BY <1>2, <2>1
  <2>2. CASE i # e
    <3>1. i \in Scored \ overridden /\ score'[i] = score[i]
      BY <1>2, <2>2
    <3> QED BY <3>1 DEF RepInv, TotalFollowsParts, Close
  <2> QED BY <2>1, <2>2
<1>5. DecayIsRateLimited'
  <2> SUFFICES ASSUME NEW i \in Scored' \ rewound
               PROVE  4 * decays[i] <= score'[i].updateEpoch
    BY DEF DecayIsRateLimited
  <2>1. CASE i # e
    BY <1>2, <2>1 DEF RepInv, DecayIsRateLimited
  <2>2. CASE i = e /\ e \in Scored
    BY <1>1, <1>2, <2>2, LoadType DEF RepInv, DecayIsRateLimited
  <2>3. CASE i = e /\ e \notin Scored
    <3>1. decays[e] = 0 /\ s.updateEpoch = 0
      BY <1>1, <2>3, LoadType DEF RepInv
    <3> QED BY <1>2, <2>3, <3>1
  <2> QED BY <2>1, <2>2, <2>3
<1>6. \A i \in Entities \ Scored' : decays'[i] = 0
  BY <1>2 DEF RepInv
<1> QED BY <1>3, <1>4, <1>5, <1>6 DEF RepInv

\* Counting a result keeps the type and the epoch of a score.
LEMMA CountedType ==
  ASSUME NEW s \in ReputationScore, NEW result
  PROVE  /\ Counted(s, result) \in ReputationScore
         /\ Counted(s, result).updateEpoch = s.updateEpoch
<1> DEFINE a == s.tasks + 1
           b == IF result = "SUCCESS" THEN s.success + 1 ELSE s.success
           c == IF result = "FAILED" THEN s.failed + 1 ELSE s.failed
           d == IF result \in {"DISPUTED_LOST", "DISPUTED_WON"} THEN s.disputed + 1
                ELSE s.disputed
<1>1. s.tasks \in Nat /\ s.success \in Nat /\ s.failed \in Nat /\ s.disputed \in Nat
  BY DEF ReputationScore
<1>2. a \in Nat /\ b \in Nat /\ c \in Nat /\ d \in Nat
  BY <1>1
<1>3. Counted(s, result) =
        [s EXCEPT !.tasks = a, !.success = b, !.failed = c, !.disputed = d]
  BY DEF Counted
<1> HIDE DEF a, b, c, d
<1> QED BY <1>2, <1>3 DEF ReputationScore

LEMMA UpdateKeeps ==
  ASSUME RepInv, NEW e \in Entities, NEW p \in Updates,
         updateReputation(e, p), UNCHANGED blockEpoch
  PROVE  RepInv'
<1> DEFINE s == loadScore(e)
           part == [k \in Parts |-> clampU32(s.part[k] + computeDeltas(p)[k], 0, Top)]
<1>1. s \in ReputationScore
  BY LoadType DEF RepInv
<1>2. part \in [Parts -> 0..Top]
  <2> SUFFICES ASSUME NEW k \in Parts
               PROVE  clampU32(s.part[k] + computeDeltas(p)[k], 0, Top) \in 0..Top
    OBVIOUS
  <2>1. s.part[k] \in Int /\ computeDeltas(p)[k] \in Int
    BY <1>1, DeltasAreIntegers DEF ReputationScore
  <2>2. s.part[k] + computeDeltas(p)[k] \in Int
    BY <2>1
  <2> QED BY <2>2, ClampInRange
<1>3. PICK total \in computeTotal(part) :
        score' = saveScore(e, [Counted(s, p.result) EXCEPT !.part = part, !.total = total])
  BY DEF updateReputation
<1>4. overridden' = overridden \ {e} /\ UNCHANGED <<decays, rewound>>
  BY DEF updateReputation
<1> DEFINE new == [Counted(s, p.result) EXCEPT !.part = part, !.total = total]
<1> HIDE DEF s, part
<1>5. total \in 0..Top /\ 100 * total - Weighted(part) <= 50
      /\ -(100 * total - Weighted(part)) <= 50
  BY <1>2, <1>3, TotalIsClose
<1>6. Counted(s, p.result) \in ReputationScore
      /\ Counted(s, p.result).updateEpoch = s.updateEpoch
  BY <1>1, CountedType
<1> DEFINE c == Counted(s, p.result)
<1> HIDE DEF c
<1>7. new \in ReputationScore /\ new.updateEpoch = s.updateEpoch
      /\ new.part = part /\ new.total = total
  BY <1>2, <1>5, <1>6 DEF ReputationScore, c
<1> HIDE DEF new
<1>8. Close(new)
  BY <1>5, <1>7 DEF Close
<1>9. score' = saveScore(e, new)
  BY <1>3 DEF new, c
<1> QED BY <1>4, <1>7, <1>8, <1>9, SaveKeeps DEF s

LEMMA OverrideKeeps ==
  ASSUME RepInv, NEW e \in Entities, NEW v \in Overrides,
         overrideScore(e, v), UNCHANGED blockEpoch
  PROVE  RepInv'
<1> DEFINE new == [loadScore(e) EXCEPT !.total = CappedOverride(v)]
<1>1. loadScore(e) \in ReputationScore
  BY LoadType DEF RepInv
<1>2. CappedOverride(v) \in 0..Top
  BY RepConstants DEF CappedOverride
<1>3. new \in ReputationScore /\ new.updateEpoch = loadScore(e).updateEpoch
  BY <1>1, <1>2 DEF ReputationScore
<1> QED BY <1>3, SaveKeeps DEF overrideScore

\* A decay that is due and not set back comes at least four epochs later.
LEMMA DueMeansFourLater ==
  ASSUME NEW epoch \in 0..(EpochWidth - 1), NEW old \in 0..(EpochWidth - 1),
         Due(epoch, old), ~(epoch < old)
  PROVE  epoch >= old + 4
<1>1. epoch - old \in 0..(EpochWidth - 1) /\ EpochWidth \in Nat
  BY RepConstants
<1>2. (epoch - old) % EpochWidth = epoch - old
  BY <1>1
<1> QED BY <1>2 DEF Due

\* A decayed score.
LEMMA DecayedType ==
  ASSUME NEW s \in ReputationScore, NEW epoch \in 0..(EpochWidth - 1),
         NEW d \in Decayed(s, epoch)
  PROVE  d \in ReputationScore /\ d.updateEpoch = epoch /\ Close(d)
<1> DEFINE part == [k \in Parts |-> decayScore(s.part[k])]
<1>1. part \in [Parts -> 0..Top]
  BY DecayInRange DEF ReputationScore
<1>2. PICK total \in computeTotal(part) :
        d = [s EXCEPT !.part = part, !.total = total, !.updateEpoch = epoch]
  BY DEF Decayed
<1> HIDE DEF part
<1>3. total \in 0..Top /\ 100 * total - Weighted(part) <= 50
      /\ -(100 * total - Weighted(part)) <= 50
  BY <1>1, <1>2, TotalIsClose
<1>4. d \in ReputationScore /\ d.updateEpoch = epoch /\ d.part = part /\ d.total = total
  BY <1>1, <1>2, <1>3 DEF ReputationScore
<1> QED BY <1>3, <1>4 DEF Close

LEMMA DecayKeeps ==
  ASSUME RepInv, NEW current \in Epochs, applyDecay(current, blockEpoch),
         UNCHANGED blockEpoch
  PROVE  RepInv'
<1> DEFINE epoch == IF current = 0 THEN blockEpoch ELSE current
           due == {e \in Scored : Due(epoch, score[e].updateEpoch)}
<1>1. RepTypeOK /\ epoch \in 0..(EpochWidth - 1)
  BY RepConstants DEF RepInv
<1>2. /\ Scored' = Scored /\ score' = [e \in Scored' |-> score'[e]]
      /\ \A e \in Scored : IF e \in due THEN score'[e] \in Decayed(score[e], epoch)
                                        ELSE score'[e] = score[e]
      /\ overridden' = overridden \ due
      /\ decays' = [e \in Entities |-> IF e \in due THEN decays[e] + 1 ELSE decays[e]]
      /\ rewound' = rewound \cup {e \in due : epoch < score[e].updateEpoch}
  BY DEF applyDecay, Scored
<1>3. due \subseteq Scored /\ Scored \subseteq Entities
      /\ \A e \in due : Due(epoch, score[e].updateEpoch)
  BY <1>1 DEF RepTypeOK
<1>4. \A e \in Scored : score[e] \in ReputationScore
  BY <1>1 DEF RepTypeOK
<1> HIDE DEF epoch, due
<1>5. \A e \in due : /\ score'[e] \in ReputationScore /\ score'[e].updateEpoch = epoch
                     /\ Close(score'[e])
  BY <1>1, <1>2, <1>3, <1>4, DecayedType
<1>6. RepTypeOK'
  <2>1. \A e \in Scored' : score'[e] \in ReputationScore
    BY <1>2, <1>4, <1>5
  <2>2. decays' \in [Entities -> Nat]
    BY <1>1, <1>2 DEF RepTypeOK
  <2>3. /\ Scored' \subseteq Entities /\ overridden' \subseteq Scored'
        /\ rewound' \subseteq Scored'
    BY <1>1, <1>2, <1>3 DEF RepTypeOK
  <2> QED BY <1>2, <2>1, <2>2, <2>3 DEF RepTypeOK
<1>7. TotalFollowsParts'
  <2> SUFFICES ASSUME NEW e \in Scored' \ overridden' PROVE Close(score'[e])
    BY DEF TotalFollowsParts, Close
  <2>1. CASE e \in due
    BY <1>5, <2>1
  <2>2. CASE e \notin due
    <3>1. e \in Scored \ overridden /\ score'[e] = score[e]
      BY <1>2, <2>2
    <3> QED BY <3>1 DEF RepInv, TotalFollowsParts, Close
  <2> QED BY <2>1, <2>2
<1>8. DecayIsRateLimited'
  <2> SUFFICES ASSUME NEW e \in Scored' \ rewound'
               PROVE  4 * decays'[e] <= score'[e].updateEpoch
    BY DEF DecayIsRateLimited
  <2>1. e \in Scored \ rewound /\ e \in Entities /\ 4 * decays[e] <= score[e].updateEpoch
    BY <1>2, <1>3 DEF RepInv, DecayIsRateLimited
  <2>2. decays[e] \in Nat /\ score[e].updateEpoch \in 0..(EpochWidth - 1)
    BY <1>1, <1>4, <2>1 DEF RepTypeOK, ReputationScore
  <2>3. CASE e \in due
    <3>1. ~(epoch < score[e].updateEpoch)
      BY <1>2, <2>3
    <3>2. epoch >= score[e].updateEpoch + 4
      BY <1>1, <1>3, <2>2, <2>3, <3>1, DueMeansFourLater
    <3>3. decays'[e] = decays[e] + 1 /\ score'[e].updateEpoch = epoch
      BY <1>2, <1>5, <2>1, <2>3
    <3> QED BY <1>1, <2>1, <2>2, <3>2, <3>3, RepConstants
  <2>4. CASE e \notin due
    BY <1>2, <2>1, <2>4
  <2> QED BY <2>3, <2>4
<1>9. \A e \in Entities \ Scored' : decays'[e] = 0
  BY <1>2, <1>3 DEF RepInv
<1> QED BY <1>6, <1>7, <1>8, <1>9 DEF RepInv

LEMMA RepStep ==
  ASSUME RepInv, [AdminNext]_networkVars
  PROVE  RepInv'
<1>1. ASSUME UNCHANGED repVars, blockEpoch' \in 0..(EpochWidth - 1) PROVE RepInv'
  BY <1>1 DEF repVars, RepInv, RepTypeOK, Scored, TotalFollowsParts, DecayIsRateLimited
<1>2. CASE AdvanceEpoch
  BY <1>1, <1>2, AdminConstants DEF AdvanceEpoch
<1>3. CASE RouteTx
  <2>1. CASE RepNext(blockEpoch)
    BY <1>3, <2>1, UpdateKeeps, DecayKeeps, OverrideKeeps DEF RepNext, RouteTx
  <2>2. CASE UNCHANGED repVars
    BY <1>1, <1>3, <2>2 DEF RouteTx, RepInv
  <2> QED BY <1>3, <2>1, <2>2 DEF RouteTx
<1>4. CASE UNCHANGED networkVars
  BY <1>1, <1>4 DEF networkVars, adminVars, RepInv
<1> QED BY <1>2, <1>3, <1>4 DEF AdminNext

LEMMA RepInvInit == AdminInit => RepInv
<1> SUFFICES ASSUME AdminInit PROVE RepInv
  OBVIOUS
<1>1. Scored = {} /\ score = [e \in Scored |-> score[e]]
  BY DEF AdminInit, RepInit, Scored
<1>2. RepTypeOK
  BY <1>1 DEF AdminInit, RepInit, RepTypeOK
<1> QED BY <1>1, <1>2, RepConstants
        DEF AdminInit, RepInit, RepInv, TotalFollowsParts, DecayIsRateLimited

\* No sequence of updates, decays and overrides, and no rounding, takes a part or
\* a total out of the scale.
THEOREM ScoresInRange == AdminSpec => []RepTypeOK
<1>1. RepInv => RepTypeOK
  BY DEF RepInv
<1> QED BY <1>1, RepInvInit, RepStep, PTL DEF AdminSpec

\* A total that override_score did not write last is within half a point of the
\* weighted sum of its parts.
THEOREM TotalsCorrect == AdminSpec => []TotalFollowsParts
<1>1. RepInv => TotalFollowsParts
  BY DEF RepInv
<1> QED BY <1>1, RepInvInit, RepStep, PTL DEF AdminSpec

\* A score that never decayed at an epoch before its own decays at most once in
\* four epochs, over its whole life.
THEOREM DecayCorrect == AdminSpec => []DecayIsRateLimited
<1>1. RepInv => DecayIsRateLimited
  BY DEF RepInv
<1> QED BY <1>1, RepInvInit, RepStep, PTL DEF AdminSpec

-----------------------------------------------------------------------------
(* The inductive invariant of the registry.                                *)
NodeInv == NodeTypeOK /\ OnlyElectedAreActive

\* A record is filed under a key together with its origin, and the standing of
\* that key under that origin is noted.
LEMMA FileKeeps ==
  ASSUME NodeInv, NEW k \in Keys, NEW r \in NodeRegistration, NEW n \in 1..regs',
         node' = saveNode(k, r), lineage' = Traced(k, n),
         r.status = "ACTIVE_VALIDATOR" <=> <<k, n>> \in elected',
         elected' \subseteq (Nodes \cup {k}) \X (1..regs'),
         \A p \in Nodes \X (1..regs) : p[1] # k => (p \in elected' <=> p \in elected),
         regs' \in {regs, regs + 1}, UNCHANGED val
  PROVE  NodeInv'
<1>1. /\ Nodes' = Nodes \cup {k} /\ DOMAIN lineage' = Nodes'
      /\ node' = [i \in Nodes' |-> node'[i]] /\ lineage' = [i \in Nodes' |-> lineage'[i]]
      /\ node'[k] = r /\ lineage'[k] = n
      /\ \A i \in Nodes : i # k => node'[i] = node[i] /\ lineage'[i] = lineage[i]
  BY DEF saveNode, Traced, Nodes
<1>2. regs \in Nat /\ regs' \in Nat /\ 1..regs \subseteq 1..regs'
  BY DEF NodeInv, NodeTypeOK
<1>3. NodeTypeOK'
  <2>1. \A i \in Nodes' : node'[i] \in NodeRegistration /\ lineage'[i] \in 1..regs'
    BY <1>1, <1>2 DEF NodeInv, NodeTypeOK
  <2>2. Nodes' \subseteq Keys /\ val' \subseteq Nodes' /\ elected' \subseteq Nodes' \X (1..regs')
    BY <1>1, <1>2 DEF NodeInv, NodeTypeOK
  <2> QED BY <1>1, <1>2, <2>1, <2>2 DEF NodeTypeOK
<1>4. ASSUME NEW i \in Nodes'
      PROVE  node'[i].status = "ACTIVE_VALIDATOR" <=> <<i, lineage'[i]>> \in elected'
  <2>1. CASE i = k
    BY <1>1, <2>1
  <2>2. CASE i # k
    <3>1. i \in Nodes /\ node'[i] = node[i] /\ lineage'[i] = lineage[i]
      BY <1>1, <2>2
    <3>2. <<i, lineage[i]>> \in Nodes \X (1..regs) /\ <<i, lineage[i]>>[1] # k
      BY <2>2, <3>1 DEF NodeInv, NodeTypeOK
    <3>3. <<i, lineage[i]>> \in elected' <=> <<i, lineage[i]>> \in elected
      BY <3>2
    <3> QED BY <3>1, <3>3 DEF NodeInv, OnlyElectedAreActive
  <2> QED BY <2>1, <2>2
<1> QED BY <1>3, <1>4 DEF NodeInv, OnlyElectedAreActive

LEMMA RegisterKeeps ==
  ASSUME NodeInv, NEW s \in Keys, NEW t \in Tiers, NEW d \in Deposits,
         registerNode(s, t, d)
  PROVE  NodeInv'
<1> DEFINE r == [tier |-> t, deposit |-> d, status |-> StatusOnRegister(s)]
<1>1. r \in NodeRegistration /\ r.status # "ACTIVE_VALIDATOR"
  BY DEF NodeRegistration, NodeStatuses, StatusOnRegister
<1>2. /\ node' = saveNode(s, r) /\ lineage' = Traced(s, regs + 1)
      /\ regs' = regs + 1 /\ val' = val /\ elected' = elected
  BY DEF registerNode
<1>3. regs \in Nat /\ regs + 1 \in 1..regs' /\ 1..regs \subseteq 1..regs' /\ regs + 1 \notin 1..regs
  BY <1>2 DEF NodeInv, NodeTypeOK
<1>4. elected \subseteq Nodes \X (1..regs)
  BY DEF NodeInv, NodeTypeOK
<1>5. <<s, regs + 1>> \notin elected' /\ elected' \subseteq (Nodes \cup {s}) \X (1..regs')
  BY <1>2, <1>3, <1>4
<1> HIDE DEF r
<1> QED BY <1>1, <1>2, <1>3, <1>5, FileKeeps

LEMMA RotateKeeps ==
  ASSUME NodeInv, NEW s \in Keys, NEW k \in Keys, rotateKey(s, k)
  PROVE  NodeInv'
<1> DEFINE n == lineage[s]
<1>1. /\ s \in Nodes /\ node[s] \in NodeRegistration /\ n \in 1..regs
      /\ node[s].status = "ACTIVE_VALIDATOR" <=> <<s, n>> \in elected
      /\ elected \subseteq Nodes \X (1..regs)
  BY DEF rotateKey, NodeInv, NodeTypeOK, OnlyElectedAreActive
<1>2. /\ node' = saveNode(k, node[s]) /\ lineage' = Traced(k, n) /\ val' = val /\ regs' = regs
      /\ elected' = IF <<s, n>> \in elected THEN elected \cup {<<k, n>>} ELSE elected \ {<<k, n>>}
  BY DEF rotateKey
<1> HIDE DEF n
<1>3. node[s].status = "ACTIVE_VALIDATOR" <=> <<k, n>> \in elected'
  BY <1>1, <1>2
<1>4. elected' \subseteq (Nodes \cup {k}) \X (1..regs')
  BY <1>1, <1>2
<1>5. \A p \in Nodes \X (1..regs) : p[1] # k => (p \in elected' <=> p \in elected)
  BY <1>2
<1> QED BY <1>1, <1>2, <1>3, <1>4, <1>5, FileKeeps

LEMMA ElectKeeps ==
  ASSUME NodeInv, NEW m \in MaxValidators, electValidators(m)
  PROVE  NodeInv'
<1>1. PICK f \in Scores : Elect(Chosen(f, m))
  BY DEF electValidators
<1> DEFINE top == Chosen(f, m)
<1>2. top \subseteq Nodes
  BY DEF Chosen, Candidates
<1>3. /\ Nodes' = Nodes /\ node' = [k \in Nodes' |-> node'[k]]
      /\ \A k \in Nodes :
           node'[k] = IF k \in top THEN [node[k] EXCEPT !.status = "ACTIVE_VALIDATOR"]
                      ELSE node[k]
      /\ val' = val \cup top
      /\ elected' = elected \cup {<<k, lineage[k]>> : k \in top}
      /\ lineage' = lineage /\ regs' = regs
  BY <1>1 DEF Elect, Nodes
<1> HIDE DEF top
<1>4. \A k \in Nodes : node'[k] \in NodeRegistration
  <2>1. \A k \in Nodes : node[k] \in NodeRegistration
    BY DEF NodeInv, NodeTypeOK
  <2> QED BY <1>3, <2>1 DEF NodeRegistration, NodeStatuses
<1>5. elected' \subseteq Nodes' \X (1..regs')
  BY <1>2, <1>3 DEF NodeInv, NodeTypeOK
<1>6. NodeTypeOK'
  BY <1>2, <1>3, <1>4, <1>5 DEF NodeInv, NodeTypeOK
<1>7. ASSUME NEW k \in Nodes
      PROVE  node'[k].status = "ACTIVE_VALIDATOR" <=> <<k, lineage[k]>> \in elected'
  <2>1. CASE k \in top
    BY <1>3, <2>1 DEF NodeInv, NodeTypeOK, NodeRegistration
  <2>2. CASE k \notin top
    <3>1. <<k, lineage[k]>> \in elected' <=> <<k, lineage[k]>> \in elected
      BY <1>3, <2>2
    <3> QED BY <1>3, <2>2, <3>1 DEF NodeInv, OnlyElectedAreActive
  <2> QED BY <2>1, <2>2
<1>8. OnlyElectedAreActive'
  BY <1>3, <1>7 DEF OnlyElectedAreActive
<1> QED BY <1>6, <1>8 DEF NodeInv

LEMMA BanKeeps ==
  ASSUME NodeInv, NEW k \in Nodes, banNode(k)
  PROVE  NodeInv'
<1>1. node[k] \in NodeRegistration /\ node = [i \in Nodes |-> node[i]]
  BY DEF NodeInv, NodeTypeOK
<1> DEFINE r == [node[k] EXCEPT !.status = "BANNED"]
<1>2. r \in NodeRegistration /\ r.status = "BANNED"
  BY <1>1 DEF NodeRegistration, NodeStatuses
<1>3. /\ node' = [node EXCEPT ![k] = r] /\ UNCHANGED <<val, lineage, regs>>
      /\ elected' = elected \ {<<k, lineage[k]>>}
  BY DEF banNode
<1> HIDE DEF r
<1>4. /\ Nodes' = Nodes /\ node' = [i \in Nodes' |-> node'[i]] /\ node'[k] = r
      /\ \A i \in Nodes : i # k => node'[i] = node[i]
  BY <1>1, <1>3 DEF Nodes
<1>5. NodeTypeOK'
  BY <1>2, <1>3, <1>4 DEF NodeInv, NodeTypeOK
<1>6. ASSUME NEW i \in Nodes
      PROVE  node'[i].status = "ACTIVE_VALIDATOR" <=> <<i, lineage[i]>> \in elected'
  <2>1. CASE i = k
    BY <1>2, <1>3, <1>4, <2>1
  <2>2. CASE i # k
    BY <1>3, <1>4, <2>2 DEF NodeInv, OnlyElectedAreActive
  <2> QED BY <2>1, <2>2
<1>7. OnlyElectedAreActive'
  BY <1>3, <1>4, <1>6 DEF OnlyElectedAreActive
<1> QED BY <1>5, <1>7 DEF NodeInv

LEMMA NodeStep ==
  ASSUME NodeInv, [AdminNext]_networkVars
  PROVE  NodeInv'
<1>1. ASSUME UNCHANGED nodeVars PROVE NodeInv'
  BY <1>1 DEF nodeVars, NodeInv, NodeTypeOK, Nodes, OnlyElectedAreActive
<1>2. CASE AdvanceEpoch \/ UNCHANGED networkVars
  BY <1>1, <1>2 DEF AdvanceEpoch, networkVars
<1>3. CASE RouteTx
  <2>1. CASE NodeNext
    BY <2>1, RegisterKeeps, RotateKeeps, ElectKeeps, BanKeeps DEF NodeNext
  <2> QED BY <1>1, <1>3, <2>1 DEF RouteTx
<1> QED BY <1>2, <1>3 DEF AdminNext

LEMMA NodeInvInit == AdminInit => NodeInv
<1> SUFFICES ASSUME AdminInit PROVE NodeInv
  OBVIOUS
<1>1. /\ Nodes = {} /\ node = [k \in Nodes |-> node[k]]
      /\ DOMAIN lineage = Nodes /\ lineage = [k \in Nodes |-> lineage[k]]
  BY DEF AdminInit, NodeInit, Nodes
<1> QED BY <1>1 DEF AdminInit, NodeInit, NodeInv, NodeTypeOK, OnlyElectedAreActive

\* However keys are registered, rotated onto one another, banned and elected, a
\* key is an active validator exactly when an election, or a copy of an active
\* record, gave it that standing under its present registration and no ban of
\* the key took it away since.
THEOREM ValidatorsCorrect == AdminSpec => []OnlyElectedAreActive
<1>1. NodeInv => OnlyElectedAreActive
  BY DEF NodeInv
<1> QED BY <1>1, NodeInvInit, NodeStep, PTL DEF AdminSpec

-----------------------------------------------------------------------------
(* Elections.                                                              *)

\* Ranking is a strict order of the candidates in which any two are ordered.
LEMMA RanksIsOrder ==
  ASSUME NodeTypeOK, IsFiniteSet(Nodes), NEW f \in Scores
  PROVE  /\ \A j \in Candidates : ~Ranks(f, j, j)
         /\ \A j, k \in Candidates : j # k => Ranks(f, j, k) \/ Ranks(f, k, j)
         /\ \A i, j, k \in Candidates : Ranks(f, i, j) /\ Ranks(f, j, k) => Ranks(f, i, k)
<1>1. \A k \in Candidates : k \in Nat /\ f[k] \in Nat
  <2>1. Cardinality(Candidates) \in Nat
    BY FS_Subset, FS_CardinalityType DEF Candidates
  <2>2. f \in [Candidates -> 0..Cardinality(Candidates)]
    BY DEF Scores
  <2>3. \A k \in Candidates : k \in Nat
    BY NodeConstants DEF Candidates, NodeTypeOK
  <2> QED BY <2>1, <2>2, <2>3
<1> QED BY <1>1 DEF Ranks

\* A candidate's place: how many outrank it.  No two candidates share one and
\* they fill 0 .. n - 1, so an election takes the first of them.
LEMMA ElectionFills ==
  ASSUME NodeTypeOK, IsFiniteSet(Nodes), NEW f \in Scores, NEW m \in MaxValidators
  PROVE  Cardinality(Chosen(f, m)) = IF Cardinality(Candidates) < EffectiveMax(m)
                                    THEN Cardinality(Candidates) ELSE EffectiveMax(m)
<1> DEFINE C == Candidates  n == Cardinality(C)  M == EffectiveMax(m)
           above(k) == {j \in C : Ranks(f, j, k)}
           place == [k \in C |-> Cardinality(above(k))]
           size == IF n < M THEN n ELSE M
<1>1. IsFiniteSet(C) /\ n \in Nat
  BY FS_Subset, FS_CardinalityType DEF Candidates
<1>2. M \in Nat /\ M > 0
  BY NodeConstants DEF EffectiveMax
<1>3. \A k \in C : IsFiniteSet(above(k)) /\ Cardinality(above(k)) \in Nat
  BY <1>1, FS_Subset, FS_CardinalityType
<1>4. \A k \in C : place[k] \in 0..(n - 1)
  <2> SUFFICES ASSUME NEW k \in C PROVE Cardinality(above(k)) \in 0..(n - 1)
    OBVIOUS
  <2>1. above(k) \subseteq C /\ above(k) # C
    BY RanksIsOrder
  <2>2. Cardinality(above(k)) <= n /\ Cardinality(above(k)) # n
    BY <1>1, <2>1, FS_Subset
  <2> QED BY <1>1, <1>3, <2>2
<1>5. ASSUME NEW j \in C, NEW k \in C, Ranks(f, j, k) PROVE place[j] < place[k]
  <2>1. above(j) \subseteq above(k) /\ j \in above(k) /\ j \notin above(j)
    BY <1>5, RanksIsOrder
  <2>2. Cardinality(above(j)) <= Cardinality(above(k))
        /\ Cardinality(above(j)) # Cardinality(above(k))
    BY <1>3, <2>1, FS_Subset
  <2>3. place[j] = Cardinality(above(j)) /\ place[k] = Cardinality(above(k))
    OBVIOUS
  <2> HIDE DEF place, above
  <2> QED BY <1>3, <2>2, <2>3
<1>6. place \in Injection(C, 0..(n - 1))
  <2>1. place \in [C -> 0..(n - 1)]
    BY <1>4
  <2>2. \A j, k \in C : place[j] = place[k] => j = k
    <3> SUFFICES ASSUME NEW j \in C, NEW k \in C, place[j] = place[k], j # k PROVE FALSE
      OBVIOUS
    <3>1. place[j] \in 0..(n - 1) /\ place[k] \in 0..(n - 1)
      BY <1>4
    <3>2. place[j] < place[k] \/ place[k] < place[j]
      BY <1>5, RanksIsOrder
    <3> HIDE DEF place
    <3> QED BY <1>1, <3>1, <3>2
  <2> HIDE DEF place
  <2> QED BY <2>1, <2>2 DEF Injection, IsInjective
<1>7. place \in Surjection(C, 0..(n - 1))
  <2>1. IsFiniteSet(0..(n - 1)) /\ Cardinality(0..(n - 1)) = n
    BY <1>1, FS_Interval
  <2> HIDE DEF place, C
  <2> QED BY <1>6, <2>1, FS_Injection DEF n
<1> DEFINE top == Chosen(f, m)  seat == [k \in top |-> place[k]]
<1>8. top \subseteq C /\ \A k \in C : k \in top <=> place[k] < M
  BY DEF Chosen
<1>9. size \in Nat /\ size <= n /\ size <= M /\ (size = n \/ size = M)
  BY <1>1, <1>2
<1> HIDE DEF place, C, n, M, size, top
<1>10. \A k \in top : seat[k] \in 0..(size - 1)
  BY <1>1, <1>2, <1>6, <1>8, <1>9 DEF Injection
<1>11. seat \in Bijection(top, 0..(size - 1))
  <2>1. seat \in [top -> 0..(size - 1)]
    BY <1>10
  <2>2. \A j, k \in top : seat[j] = seat[k] => j = k
    BY <1>6, <1>8 DEF Injection, IsInjective
  <2>3. \A x \in 0..(size - 1) : \E k \in top : seat[k] = x
    <3> SUFFICES ASSUME NEW x \in 0..(size - 1) PROVE \E k \in top : seat[k] = x
      OBVIOUS
    <3>1. x \in 0..(n - 1) /\ x < M
      BY <1>1, <1>2, <1>9
    <3>2. PICK k \in C : place[k] = x
      BY <1>7, <3>1 DEF Surjection
    <3> QED BY <1>8, <3>1, <3>2
  <2> HIDE DEF seat
  <2> QED BY <2>1, <2>2, <2>3 DEF Bijection, Injection, Surjection, IsInjective
<1>12. ExistsBijection(top, 0..(size - 1)) /\ IsFiniteSet(top)
  BY <1>1, <1>8, <1>11, FS_Subset DEF ExistsBijection
<1>13. Cardinality(0..(size - 1)) = Cardinality(top)
  BY <1>12, FS_Bijection
<1>14. Cardinality(0..(size - 1)) = size
  BY <1>9, FS_Interval
<1> QED BY <1>13, <1>14 DEF size, top, n, C, M

\* Nobody who is left out ranks before one who is taken.
LEMMA ElectionIsFair ==
  ASSUME NodeTypeOK, IsFiniteSet(Nodes), NEW f \in Scores, NEW m \in MaxValidators,
         NEW j \in Chosen(f, m), NEW k \in Candidates \ Chosen(f, m)
  PROVE  /\ AllExact => node[j].deposit >= node[k].deposit
         /\ k < j => parseFloat(node[j].deposit) > parseFloat(node[k].deposit)
<1> DEFINE above(i) == {x \in Candidates : Ranks(f, x, i)}  M == EffectiveMax(m)
<1>1. IsFiniteSet(above(j)) /\ IsFiniteSet(Candidates)
  BY FS_Subset DEF Candidates
<1>2. Cardinality(above(j)) < M /\ ~(Cardinality(above(k)) < M) /\ j \in Candidates
  BY DEF Chosen
<1>3. Cardinality(above(j)) \in Nat /\ Cardinality(above(k)) \in Nat /\ M \in Nat
  BY <1>1, FS_Subset, FS_CardinalityType, NodeConstants DEF EffectiveMax
<1>4. ~Ranks(f, k, j)
  <2> SUFFICES ASSUME Ranks(f, k, j) PROVE FALSE
    OBVIOUS
  <2>1. above(k) \subseteq above(j)
    BY <1>2, RanksIsOrder
  <2>2. Cardinality(above(k)) <= Cardinality(above(j))
    BY <1>1, <2>1, FS_Subset
  <2> HIDE DEF above, M
  <2> QED BY <1>2, <1>3, <2>2
<1>5. j # k
  OBVIOUS
<1>6. Ranks(f, j, k)
  BY <1>2, <1>4, <1>5, RanksIsOrder
<1>7. /\ node[j].deposit \in Nat /\ node[k].deposit \in Nat /\ j \in Nat /\ k \in Nat
      /\ f[j] \in Int /\ f[k] \in Int
  <2>1. Cardinality(Candidates) \in Nat /\ f \in [Candidates -> 0..Cardinality(Candidates)]
    BY <1>1, FS_CardinalityType DEF Scores
  <2>2. f[j] \in Int /\ f[k] \in Int
    BY <1>2, <2>1
  <2> QED BY <1>2, <2>2, NodeConstants DEF Candidates, NodeTypeOK, NodeRegistration
<1>8. /\ AllExact /\ node[j].deposit < node[k].deposit => f[j] < f[k]
      /\ parseFloat(node[j].deposit) <= parseFloat(node[k].deposit) => f[j] <= f[k]
  BY <1>2 DEF Scores
<1>9. parseFloat(node[j].deposit) \in Int /\ parseFloat(node[k].deposit) \in Int
  BY <1>7, NodeConstants DEF parseFloat
<1>10. f[j] > f[k] \/ (f[j] = f[k] /\ j < k)
  BY <1>6 DEF Ranks
<1> QED BY <1>7, <1>8, <1>9, <1>10

\* There are finitely many registrations at any time.
LEMMA NodesFinite == AdminSpec => []IsFiniteSet(Nodes)
<1>1. AdminInit => IsFiniteSet(Nodes)
  BY FS_EmptySet DEF AdminInit, NodeInit, Nodes
<1>2. IsFiniteSet(Nodes) /\ [AdminNext]_networkVars => IsFiniteSet(Nodes)'
  <2> SUFFICES ASSUME IsFiniteSet(Nodes), [AdminNext]_networkVars PROVE IsFiniteSet(Nodes')
    OBVIOUS
  <2>1. Nodes' = Nodes \/ \E k \in Keys : Nodes' = Nodes \cup {k}
    <3>1. CASE node' = node
      BY <3>1 DEF Nodes
    <3>2. ASSUME NEW k \in Keys, NEW r, node' = saveNode(k, r) PROVE Nodes' = Nodes \cup {k}
      BY <3>2 DEF saveNode, Nodes
    <3>3. CASE NodeNext
      <4>1. ASSUME NEW k \in Nodes, banNode(k) PROVE Nodes' = Nodes
        BY <4>1 DEF banNode, Nodes
      <4>2. ASSUME NEW m \in MaxValidators, electValidators(m) PROVE Nodes' = Nodes
        BY <4>2 DEF electValidators, Elect, Nodes
      <4> QED BY <3>2, <3>3, <4>1, <4>2 DEF NodeNext, registerNode, rotateKey
    <3> QED BY <3>1, <3>3 DEF AdminNext, RouteTx, AdvanceEpoch, networkVars, nodeVars
  <2> QED BY <2>1, FS_AddElement
<1> QED BY <1>1, <1>2, PTL DEF AdminSpec

\* Every election takes as many candidates as there is room for, of whatever
\* number, nobody it leaves out ranks before one it takes, and nobody else's
\* standing changes.
THEOREM ElectionCorrect == AdminSpec => ElectionIsByStake
<1> DEFINE Step == \A m \in MaxValidators : electValidators(m) =>
       \E in \in SUBSET Candidates :
         /\ Cardinality(in) = IF Cardinality(Candidates) < EffectiveMax(m)
                                THEN Cardinality(Candidates) ELSE EffectiveMax(m)
         /\ \A k \in in : node'[k].status = "ACTIVE_VALIDATOR" /\ k \in val'
         /\ \A k \in Nodes \ in : node'[k] = node[k]
         /\ \A j \in in, k \in Candidates \ in :
              /\ AllExact => node[j].deposit >= node[k].deposit
              /\ k < j => parseFloat(node[j].deposit) > parseFloat(node[k].deposit)
<1>1. NodeInv /\ IsFiniteSet(Nodes) => Step
  <2> SUFFICES ASSUME NodeInv, IsFiniteSet(Nodes), NEW m \in MaxValidators, electValidators(m)
               PROVE  \E in \in SUBSET Candidates :
         /\ Cardinality(in) = IF Cardinality(Candidates) < EffectiveMax(m)
                                THEN Cardinality(Candidates) ELSE EffectiveMax(m)
         /\ \A k \in in : node'[k].status = "ACTIVE_VALIDATOR" /\ k \in val'
         /\ \A k \in Nodes \ in : node'[k] = node[k]
         /\ \A j \in in, k \in Candidates \ in :
              /\ AllExact => node[j].deposit >= node[k].deposit
              /\ k < j => parseFloat(node[j].deposit) > parseFloat(node[k].deposit)
    OBVIOUS
  <2>f. PICK f \in Scores : Elect(Chosen(f, m))
    BY DEF electValidators
  <2> DEFINE top == Chosen(f, m)
  <2>1. top \in SUBSET Candidates /\ Candidates \subseteq Nodes
    BY DEF Chosen, Candidates
  <2>2. NodeTypeOK
    BY DEF NodeInv
  <2>3. Cardinality(top) = IF Cardinality(Candidates) < EffectiveMax(m)
                             THEN Cardinality(Candidates) ELSE EffectiveMax(m)
    BY <2>2, ElectionFills
  <2>4. /\ \A k \in top : node'[k].status = "ACTIVE_VALIDATOR" /\ k \in val'
        /\ \A k \in Nodes \ top : node'[k] = node[k]
    <3>1. val' = val \cup top /\ node' = [k \in Nodes |->
            IF k \in top THEN [node[k] EXCEPT !.status = "ACTIVE_VALIDATOR"] ELSE node[k]]
      BY <2>f DEF Elect
    <3>2. \A k \in Nodes : node[k] \in NodeRegistration
      BY <2>2 DEF NodeTypeOK
    <3> HIDE DEF top
    <3> QED BY <2>1, <3>1, <3>2 DEF NodeRegistration
  <2>5. \A j \in top, k \in Candidates \ top :
              /\ AllExact => node[j].deposit >= node[k].deposit
              /\ k < j => parseFloat(node[j].deposit) > parseFloat(node[k].deposit)
    BY <2>2, ElectionIsFair
  <2> HIDE DEF top
  <2> QED BY <2>1, <2>3, <2>4, <2>5
<1>2. NodeInv /\ IsFiniteSet(Nodes) => [Step]_nodeVars
  BY <1>1
<1>3. NodeInv /\ [AdminNext]_networkVars => NodeInv'
  BY NodeStep
<1> QED BY <1>2, <1>3, NodeInvInit, NodesFinite, PTL DEF AdminSpec, ElectionIsByStake

-----------------------------------------------------------------------------
(* Governance.                                                             *)

\* A set of numbers that holds the successors of all it holds, and zero, is Nat:
\* otherwise there would be a smallest number outside.
LEMMA NatSetInduction ==
  ASSUME NEW T \in SUBSET Nat, 0 \in T, \A n \in T : n + 1 \in T
  PROVE  T = Nat
<1> DEFINE Out == Nat \ T
<1>1. SUFFICES ASSUME Out # {} PROVE FALSE
  OBVIOUS
<1>2. PICK n \in Out : \A m \in Out : <<m, n>> \notin OpToRel(<, Nat)
  <2>1. Out \subseteq Nat
    OBVIOUS
  <2> HIDE DEF Out
  <2> QED BY <1>1, <2>1, NatLessThanWellFounded, WFMin
<1>3. n \in Nat /\ n # 0 /\ n - 1 \in Nat
  OBVIOUS
<1>4. n - 1 \in T
  <2>1. <<n - 1, n>> \in OpToRel(<, Nat)
    BY <1>3 DEF OpToRel
  <2> QED BY <1>2, <1>3, <2>1
<1> QED BY <1>3, <1>4

\* A nonempty set of numbers up to n has a largest one.
LEMMA MaxExists ==
  ASSUME NEW n \in Nat, NEW s \in SUBSET (1..n), s # {}
  PROVE  Max(s) \in s /\ \A y \in s : Max(s) >= y
<1> DEFINE T == {n - x : x \in s}
<1>1. T \subseteq Nat /\ T # {}
  OBVIOUS
<1>2. PICK t \in T : \A y \in T : <<y, t>> \notin OpToRel(<, Nat)
  <2> HIDE DEF T
  <2> QED BY <1>1, NatLessThanWellFounded, WFMin
<1>3. \A y \in T : ~(y < t)
  BY <1>1, <1>2 DEF OpToRel
<1>4. PICK x \in s : t = n - x
  OBVIOUS
<1>5. \A y \in s : x >= y
  <2> SUFFICES ASSUME NEW y \in s PROVE x >= y
    OBVIOUS
  <2>1. ~(n - y < n - x) /\ x \in Int /\ y \in Int
    BY <1>3, <1>4
  <2> QED BY <2>1
<1>6. \E m \in s : \A y \in s : m >= y
  BY <1>4, <1>5
<1> QED BY <1>6 DEF Max


\* The last of the changes at positions s that are for parameter k.
For(cs, s, k) == {i \in s : cs[i].param = k}
LastWins(cs, s) ==
  [k \in Params |-> IF For(cs, s, k) = {} THEN param[k] ELSE cs[Max(For(cs, s, k))].value]

\* Setting one more parameter, after all the others.
LEMMA LastWinsStep ==
  ASSUME NEW n \in Nat, NEW cs \in [1..n -> ParamChange], NEW s \in SUBSET (1..n), s # {},
         param \in [Params -> Int \cup {Unset}]
  PROVE  LastWins(cs, s) = SetParam(LastWins(cs, s \ {Max(s)}), cs[Max(s)])
<1> DEFINE m == Max(s)  r == s \ {m}
<1>1. m \in s /\ \A y \in s : m >= y
  BY MaxExists
<1> HIDE DEF m
<1>2. cs[m] \in ParamChange /\ cs[m].param \in Params
  BY <1>1 DEF ParamChange
<1>3. SetParam(LastWins(cs, r), cs[m]) =
        [k \in Params |-> IF k = cs[m].param THEN cs[m].value ELSE LastWins(cs, r)[k]]
  BY <1>2 DEF SetParam, LastWins
<1>4. ASSUME NEW k \in Params, k # cs[m].param
      PROVE  For(cs, s, k) = For(cs, r, k)
  BY <1>4 DEF For
<1>5. Max(For(cs, s, cs[m].param)) = m /\ For(cs, s, cs[m].param) # {}
  <2> DEFINE f == For(cs, s, cs[m].param)
  <2>1. f \in SUBSET (1..n) /\ f \subseteq s /\ m \in f
    BY <1>1 DEF For
  <2>2. Max(f) \in f /\ \A y \in f : Max(f) >= y
    BY <2>1, MaxExists
  <2>3. Max(f) >= m /\ m >= Max(f) /\ m \in Nat /\ Max(f) \in Nat
    BY <1>1, <2>1, <2>2
  <2> HIDE DEF f
  <2>4. Max(f) = m
    BY <2>3
  <2> QED BY <2>1, <2>4 DEF f
<1>6. \A k \in Params : LastWins(cs, s)[k] =
        IF k = cs[m].param THEN cs[m].value ELSE LastWins(cs, r)[k]
  BY <1>4, <1>5 DEF LastWins
<1>7. LastWins(cs, s) = [k \in Params |-> LastWins(cs, s)[k]]
  BY DEF LastWins
<1> QED BY <1>3, <1>6, <1>7 DEF m

\* The loop over the changes ends where the last change for each parameter says.
LEMMA AppliedIsLast ==
  ASSUME NEW n \in Nat, NEW cs \in [1..n -> ParamChange], param \in [Params -> Int \cup {Unset}]
  PROVE  Applied(cs) = LastWins(cs, 1..n)
<1> DEFINE D == 1..n
           F(g) == [s \in SUBSET D |->
                     IF s = {} THEN param ELSE SetParam(g[s \ {Max(s)}], cs[Max(s)])]
           iter == CHOOSE g : g = F(g)
           last == [s \in SUBSET D |-> LastWins(cs, s)]
<1>1. DOMAIN cs = D
  OBVIOUS
<1>2. last = F(last)
  <2>1. LastWins(cs, {}) = param
    BY DEF LastWins, For
  <2>2. ASSUME NEW s \in SUBSET D, s # {}
        PROVE  last[s] = SetParam(last[s \ {Max(s)}], cs[Max(s)])
    BY <2>2, LastWinsStep
  <2> QED BY <2>1, <2>2
<1>3. iter = F(iter)
  <2> HIDE DEF F, last
  <2> QED BY <1>2
<1>4. Applied(cs) = iter[D]
  BY <1>1 DEF Applied, FoldLeft, MapThenFoldSet
<1> HIDE DEF iter
<1>5. /\ iter[{}] = param /\ last[{}] = param
      /\ \A s \in (SUBSET D) \ {{}} : /\ iter[s] = SetParam(iter[s \ {Max(s)}], cs[Max(s)])
                                      /\ last[s] = SetParam(last[s \ {Max(s)}], cs[Max(s)])
  <2>1. \A g : g = F(g) => g[{}] = param /\ \A s \in (SUBSET D) \ {{}} :
                                              g[s] = SetParam(g[s \ {Max(s)}], cs[Max(s)])
    OBVIOUS
  <2> HIDE DEF F, last
  <2> QED BY <1>2, <1>3, <2>1
<1> DEFINE T == {k \in Nat : k <= n => iter[1..k] = last[1..k]}
<1>6. 0 \in T
  <2> HIDE DEF last
  <2>1. 1..0 = {}
    OBVIOUS
  <2> QED BY <1>5, <2>1
<1>7. ASSUME NEW k \in T PROVE k + 1 \in T
  <2> HIDE DEF last
  <2> SUFFICES ASSUME k + 1 <= n PROVE iter[1..(k + 1)] = last[1..(k + 1)]
    OBVIOUS
  <2>1. 1..(k + 1) \in (SUBSET D) \ {{}} /\ k + 1 \in 1..(k + 1)
    OBVIOUS
  <2>2. Max(1..(k + 1)) = k + 1
    <3>1. Max(1..(k + 1)) \in 1..(k + 1) /\ Max(1..(k + 1)) >= k + 1
      BY <2>1, MaxExists
    <3> QED BY <3>1
  <2>3. (1..(k + 1)) \ {k + 1} = 1..k /\ iter[1..k] = last[1..k]
    OBVIOUS
  <2> QED BY <1>5, <2>1, <2>2, <2>3
<1>8. T = Nat
  <2>1. T \in SUBSET Nat
    OBVIOUS
  <2> HIDE DEF T
  <2> QED BY <1>6, <1>7, <2>1, NatSetInduction
<1>9. iter[D] = last[D]
  <2> HIDE DEF last
  <2>1. n \in T
    BY <1>8
  <2> QED BY <2>1
<1> QED BY <1>4, <1>9

(* The inductive invariant of governance: the counts of a proposal are of  *)
(* the votes cast since it was put up, and no vote is of a later round.    *)
GovInv ==
  /\ GovTypeOK
  /\ \A id \in ProposalIds : \A i \in DOMAIN cast[id] : cast[id][i].round <= round[id]
  /\ \A id \in Proposals : \A v \in Votes : proposal[id].votes[v] = CastNow(id, v)

\* The votes v of round r among some votes.
Having(c, r, v) == {i \in DOMAIN c : c[i].round = r /\ c[i].vote = v}

LEMMA CreateKeeps ==
  ASSUME GovInv, NEW id \in ProposalIds, NEW cs \in ChangeLists, createProposal(id, cs)
  PROVE  GovInv'
<1> DEFINE p == [status |-> "OPEN", changes |-> cs, votes |-> NewVotes(id)]
<1>1. p \in Proposal /\ \A v \in Votes : p.votes[v] = 0
  BY DEF Proposal, NewVotes
<1>2. /\ proposal' = saveProposal(id, p) /\ round' = [round EXCEPT ![id] = @ + 1]
      /\ UNCHANGED <<ballot, param, cast>>
  BY DEF createProposal
<1> HIDE DEF p
<1>3. /\ Proposals' = Proposals \cup {id} /\ proposal' = [i \in Proposals' |-> proposal'[i]]
      /\ proposal'[id] = p /\ \A i \in Proposals : i # id => proposal'[i] = proposal[i]
  BY <1>2 DEF saveProposal, Proposals
<1>4. /\ round' \in [ProposalIds -> Nat] /\ round'[id] = round[id] + 1 /\ round[id] \in Nat
      /\ \A i \in ProposalIds : i # id => round'[i] = round[i]
  BY <1>2 DEF GovInv, GovTypeOK
<1>5. GovTypeOK'
  <2>1. \A i \in Proposals' : proposal'[i] \in Proposal
    BY <1>1, <1>3 DEF GovInv, GovTypeOK
  <2> QED BY <1>2, <1>3, <1>4, <2>1 DEF GovInv, GovTypeOK
<1>6. \A i \in ProposalIds : \A j \in DOMAIN cast[i] :
        cast[i][j].round \in Nat /\ cast[i][j].round <= round[i]
  <2> SUFFICES ASSUME NEW i \in ProposalIds, NEW j \in DOMAIN cast[i]
               PROVE  cast[i][j].round \in Nat /\ cast[i][j].round <= round[i]
    OBVIOUS
  <2>1. cast[i] \in Seq([round : Nat, vote : Votes])
    BY DEF GovInv, GovTypeOK
  <2> DEFINE c == cast[i]  V == [round : Nat, vote : Votes]
  <2>2. c[j] \in V
    <3> HIDE DEF c, V
    <3>1. c \in Seq(V) /\ j \in DOMAIN c
      BY <2>1 DEF c, V
    <3>2. DOMAIN c = 1..Len(c)
      BY <3>1
    <3> QED BY <3>1, <3>2
  <2> QED BY <2>2 DEF GovInv
<1>7. \A i \in ProposalIds : \A j \in DOMAIN cast'[i] : cast'[i][j].round <= round'[i]
  <2> SUFFICES ASSUME NEW i \in ProposalIds, NEW j \in DOMAIN cast[i]
               PROVE  cast[i][j].round <= round'[i]
    BY <1>2
  <2>1. CASE i = id
    BY <1>4, <1>6, <2>1
  <2>2. CASE i # id
    BY <1>4, <1>6, <2>2
  <2> QED BY <2>1, <2>2
<1>8. ASSUME NEW i \in Proposals', NEW v \in Votes PROVE proposal'[i].votes[v] = CastNow(i, v)'
  <2>1. CASE i = id
    <3>1. Having(cast[id], round'[id], v) = {}
      <4> SUFFICES ASSUME NEW j \in DOMAIN cast[id], cast[id][j].round = round'[id] PROVE FALSE
        BY DEF Having
      <4> QED BY <1>4, <1>6
    <3>2. CastNow(id, v)' = 0
      BY <1>2, <3>1, FS_EmptySet DEF CastNow, Having
    <3> QED BY <1>1, <1>3, <2>1, <3>2
  <2>2. CASE i # id
    <3>1. i \in Proposals /\ i \in ProposalIds /\ round'[i] = round[i] /\ proposal'[i] = proposal[i]
      BY <1>3, <1>4, <2>2 DEF GovInv, GovTypeOK
    <3>2. CastNow(i, v)' = CastNow(i, v)
      BY <1>2, <3>1 DEF CastNow
    <3> QED BY <3>1, <3>2 DEF GovInv
  <2> QED BY <2>1, <2>2
<1> QED BY <1>5, <1>7, <1>8 DEF GovInv

LEMMA VoteKeeps ==
  ASSUME GovInv, NEW s \in Voters, NEW id \in Proposals, NEW v \in Votes, voteProposal(s, id, v)
  PROVE  GovInv'
<1> DEFINE old == cast[id]  e == [round |-> round[id], vote |-> v]  new == Append(old, e)
           p == [proposal[id] EXCEPT !.votes[v] = @ + 1]
<1>1. /\ id \in ProposalIds /\ proposal[id] \in Proposal /\ proposal = [i \in Proposals |-> proposal[i]]
      /\ round \in [ProposalIds -> Nat] /\ cast \in [ProposalIds -> Seq([round : Nat, vote : Votes])]
  BY DEF GovInv, GovTypeOK
<1>2. /\ p \in Proposal /\ p.votes[v] = proposal[id].votes[v] + 1
      /\ \A w \in Votes : w # v => p.votes[w] = proposal[id].votes[w]
  <2> DEFINE n == proposal[id].votes  c == [n EXCEPT ![v] = @ + 1]
  <2>1. n \in [Votes -> Nat]
    BY <1>1 DEF Proposal
  <2> HIDE DEF n
  <2>2. c \in [Votes -> Nat] /\ c[v] = n[v] + 1 /\ \A w \in Votes : w # v => c[w] = n[w]
    BY <2>1
  <2> HIDE DEF c
  <2>3. p = [proposal[id] EXCEPT !.votes = c]
    BY <1>1 DEF Proposal, c, n
  <2>4. p \in Proposal /\ p.votes = c
    BY <1>1, <2>2, <2>3 DEF Proposal
  <2> QED BY <2>2, <2>4 DEF n
<1>3. /\ proposal' = [proposal EXCEPT ![id] = p] /\ cast' = [cast EXCEPT ![id] = new]
      /\ UNCHANGED <<param, round>>
  BY DEF voteProposal
<1>4. /\ DOMAIN ballot' = DOMAIN ballot \cup {<<id, s>>}
      /\ ballot' = [b \in DOMAIN ballot' |-> ballot'[b]]
      /\ \A b \in DOMAIN ballot' : ballot'[b] = IF b = <<id, s>> THEN v ELSE ballot[b]
  BY DEF voteProposal
<1>5. /\ old \in Seq([round : Nat, vote : Votes]) /\ e \in [round : Nat, vote : Votes]
      /\ e.round = round[id] /\ e.vote = v
  BY <1>1
<1> HIDE DEF p, old, e
<1>6. /\ new \in Seq([round : Nat, vote : Votes]) /\ DOMAIN old = 1..Len(old) /\ Len(old) \in Nat
      /\ DOMAIN new = DOMAIN old \cup {Len(old) + 1} /\ new[Len(old) + 1] = e
      /\ \A i \in DOMAIN old : new[i] = old[i]
  BY <1>5
<1> HIDE DEF new
<1>7. /\ Proposals' = Proposals /\ proposal' = [i \in Proposals' |-> proposal'[i]]
      /\ proposal'[id] = p /\ \A i \in Proposals : i # id => proposal'[i] = proposal[i]
      /\ cast' \in [ProposalIds -> Seq([round : Nat, vote : Votes])]
      /\ cast'[id] = new /\ \A i \in ProposalIds : i # id => cast'[i] = cast[i]
  BY <1>1, <1>3, <1>6 DEF Proposals
<1>8. GovTypeOK'
  <2>1. \A i \in Proposals' : proposal'[i] \in Proposal
    BY <1>2, <1>7 DEF GovInv, GovTypeOK
  <2>2. /\ DOMAIN ballot' \subseteq ProposalIds \X Voters
        /\ \A b \in DOMAIN ballot' : ballot'[b] \in Votes
    BY <1>1, <1>4 DEF GovInv, GovTypeOK
  <2> QED BY <1>1, <1>3, <1>4, <1>7, <2>1, <2>2 DEF GovInv, GovTypeOK
<1>9. \A i \in ProposalIds : \A j \in DOMAIN cast'[i] : cast'[i][j].round <= round'[i]
  <2> SUFFICES ASSUME NEW i \in ProposalIds, NEW j \in DOMAIN cast'[i]
               PROVE  cast'[i][j].round <= round[i]
    BY <1>3
  <2>1. CASE i # id
    BY <1>7, <2>1 DEF GovInv
  <2>2. CASE i = id /\ j \in DOMAIN old
    BY <1>6, <1>7, <2>2 DEF GovInv, old
  <2>3. CASE i = id /\ j = Len(old) + 1
    BY <1>1, <1>5, <1>6, <1>7, <2>3
  <2> QED BY <1>6, <1>7, <2>1, <2>2, <2>3
<1>10. ASSUME NEW i \in Proposals', NEW w \in Votes PROVE proposal'[i].votes[w] = CastNow(i, w)'
  <2>0. i \in Proposals /\ i \in ProposalIds
    BY <1>7 DEF GovInv, GovTypeOK
  <2>1. CASE i # id
    <3>1. CastNow(i, w)' = CastNow(i, w)
      BY <1>3, <1>7, <2>0, <2>1 DEF CastNow
    <3> QED BY <1>7, <2>0, <2>1, <3>1 DEF GovInv
  <2>2. CASE i = id
    <3> DEFINE a == Having(old, round[id], w)  b == Having(new, round[id], w)
    <3>1. Cardinality(a) = proposal[id].votes[w] /\ CastNow(id, w)' = Cardinality(b)
      BY <1>3, <1>7 DEF GovInv, CastNow, Having, old
    <3>2. IsFiniteSet(a) /\ Len(old) + 1 \notin a
      <4>1. IsFiniteSet(DOMAIN old) /\ Len(old) + 1 \notin DOMAIN old
        BY <1>6, FS_Interval
      <4> QED BY <4>1, FS_Subset DEF Having
    <3>3. CASE w = v
      <4>1. b = a \cup {Len(old) + 1}
        BY <1>5, <1>6, <3>3 DEF Having
      <4>2. Cardinality(b) = Cardinality(a) + 1
        BY <3>2, <4>1, FS_AddElement
      <4> QED BY <1>2, <1>7, <2>2, <3>1, <3>3, <4>2
    <3>4. CASE w # v
      <4>1. b = a
        BY <1>5, <1>6, <3>4 DEF Having
      <4> QED BY <1>2, <1>7, <2>2, <3>1, <3>4, <4>1
    <3> QED BY <3>3, <3>4
  <2> QED BY <2>1, <2>2
<1> QED BY <1>8, <1>9, <1>10 DEF GovInv

LEMMA ExecuteIsApproved ==
  ASSUME GovInv, NEW id \in Proposals, executeProposal(id)
  PROVE  /\ GovInv'
         /\ proposal[id].status = "OPEN" /\ proposal'[id].status = "EXECUTED"
         /\ \A i \in Proposals : i # id => proposal'[i] = proposal[i]
         /\ CastNow(id, "yes") > CastNow(id, "no")
         /\ param' = LastWins(proposal[id].changes, DOMAIN proposal[id].changes)
<1> DEFINE p == [proposal[id] EXCEPT !.status = "EXECUTED"]  cs == proposal[id].changes
           n == Len(cs)
<1>1. /\ id \in ProposalIds /\ proposal[id] \in Proposal /\ proposal = [i \in Proposals |-> proposal[i]]
      /\ param \in [Params -> Int \cup {Unset}]
  BY DEF GovInv, GovTypeOK
<1>2. p \in Proposal /\ p.status = "EXECUTED" /\ p.votes = proposal[id].votes
  BY <1>1 DEF Proposal
<1>3. /\ proposal[id].status = "OPEN" /\ Approved(proposal[id].votes)
      /\ param' = Applied(cs) /\ proposal' = [proposal EXCEPT ![id] = p]
      /\ UNCHANGED <<ballot, round, cast>>
  BY DEF executeProposal
<1>4. cs \in Seq(ParamChange)
  BY <1>1, GovConstants DEF Proposal
<1> HIDE DEF p, cs
<1>5. n \in Nat /\ cs \in [1..n -> ParamChange] /\ DOMAIN cs = 1..n
  BY <1>4
<1>6. param' = LastWins(cs, 1..n)
  BY <1>1, <1>3, <1>5, AppliedIsLast
<1>7. /\ Proposals' = Proposals /\ proposal' = [i \in Proposals' |-> proposal'[i]]
      /\ proposal'[id] = p /\ \A i \in Proposals : i # id => proposal'[i] = proposal[i]
  BY <1>1, <1>3 DEF Proposals
<1>8. param' \in [Params -> Int \cup {Unset}]
  <2> SUFFICES ASSUME NEW k \in Params
               PROVE  (IF For(cs, 1..n, k) = {} THEN param[k] ELSE cs[Max(For(cs, 1..n, k))].value)
                        \in Int \cup {Unset}
    BY <1>6 DEF LastWins
  <2>1. ASSUME For(cs, 1..n, k) # {} PROVE cs[Max(For(cs, 1..n, k))].value \in Int
    <3>1. For(cs, 1..n, k) \in SUBSET (1..n)
      BY DEF For
    <3>2. Max(For(cs, 1..n, k)) \in 1..n
      BY <1>5, <2>1, <3>1, MaxExists
    <3> QED BY <1>5, <3>2 DEF ParamChange
  <2> QED BY <1>1, <2>1
<1>9. GovTypeOK'
  <2>1. \A i \in Proposals' : proposal'[i] \in Proposal
    BY <1>2, <1>7 DEF GovInv, GovTypeOK
  <2> QED BY <1>3, <1>7, <1>8, <2>1 DEF GovInv, GovTypeOK
<1>10. ASSUME NEW i \in Proposals', NEW v \in Votes PROVE proposal'[i].votes[v] = CastNow(i, v)'
  <2>1. CastNow(i, v)' = CastNow(i, v)
    BY <1>3 DEF CastNow
  <2>2. i \in Proposals /\ proposal'[i].votes = proposal[i].votes
    BY <1>2, <1>7
  <2> QED BY <2>1, <2>2 DEF GovInv
<1>11. GovInv'
  BY <1>3, <1>9, <1>10 DEF GovInv
<1>12. CastNow(id, "yes") > CastNow(id, "no")
  <2>1. "yes" \in Votes /\ "no" \in Votes
    BY DEF Votes
  <2> QED BY <1>3, <2>1 DEF GovInv, Approved
<1> QED BY <1>2, <1>3, <1>5, <1>6, <1>7, <1>11, <1>12 DEF cs

\* What ParamsChangeOnlyByApproval says of an executed proposal and of a step.
Approves(id) ==
  LET cs == proposal[id].changes
      for(k) == {i \in DOMAIN cs : cs[i].param = k}
  IN  /\ CastNow(id, "yes") > CastNow(id, "no")
      /\ \A k \in Params :
           param'[k] = IF for(k) = {} THEN param[k]
                       ELSE cs[CHOOSE i \in for(k) : \A j \in for(k) : j <= i].value

ByApproval ==
  /\ param' # param =>
       \E id \in Proposals :
         proposal[id].status = "OPEN" /\ proposal'[id].status = "EXECUTED"
  /\ \A id \in Proposals :
       proposal[id].status = "OPEN" /\ proposal'[id].status = "EXECUTED" => Approves(id)

LEMMA GovStep ==
  ASSUME GovInv, [AdminNext]_networkVars
  PROVE  GovInv' /\ ByApproval
<1>1. ASSUME UNCHANGED govVars PROVE GovInv' /\ ByApproval
  <2>1. GovTypeOK'
    BY <1>1 DEF govVars, GovInv, GovTypeOK, Proposals
  <2>2. GovInv'
    BY <1>1, <2>1 DEF govVars, GovInv, Proposals, CastNow
  <2>3. ByApproval
    BY <1>1 DEF govVars, ByApproval
  <2> QED BY <2>2, <2>3
<1>2. ASSUME NEW id \in ProposalIds, NEW cs \in ChangeLists, createProposal(id, cs)
      PROVE  GovInv' /\ ByApproval
  <2>1. param' = param /\ \A i \in Proposals : proposal'[i] = proposal[i]
                                               \/ proposal'[i].status = "OPEN"
    BY <1>2 DEF createProposal, saveProposal, Proposals
  <2> QED BY <1>2, <2>1, CreateKeeps DEF ByApproval
<1>3. ASSUME NEW s \in Voters, NEW id \in Proposals, NEW v \in Votes, voteProposal(s, id, v)
      PROVE  GovInv' /\ ByApproval
  <2>1. param' = param /\ \A i \in Proposals : proposal'[i].status = proposal[i].status
    BY <1>3 DEF voteProposal, GovInv, GovTypeOK, Proposal, Proposals
  <2> QED BY <1>3, <2>1, VoteKeeps DEF ByApproval
<1>4. ASSUME NEW id \in Proposals, executeProposal(id)
      PROVE  GovInv' /\ ByApproval
  <2> DEFINE cs == proposal[id].changes  for(k) == {i \in DOMAIN cs : cs[i].param = k}
  <2>1. /\ GovInv'
        /\ proposal[id].status = "OPEN" /\ proposal'[id].status = "EXECUTED"
        /\ \A i \in Proposals : i # id => proposal'[i] = proposal[i]
        /\ CastNow(id, "yes") > CastNow(id, "no")
        /\ param' = LastWins(cs, DOMAIN cs)
    BY <1>4, ExecuteIsApproved
  <2>2. \A k \in Params : param'[k] = IF for(k) = {} THEN param[k] ELSE cs[Max(for(k))].value
    BY <2>1 DEF LastWins, For
  <2>3. cs \in Seq(ParamChange)
    BY GovConstants DEF GovInv, GovTypeOK, Proposal
  <2>4. \A k \in Params : Max(for(k)) = CHOOSE i \in for(k) : \A j \in for(k) : j <= i
    <3>1. DOMAIN cs \subseteq Int
      BY <2>3
    <3> SUFFICES ASSUME NEW S \in SUBSET Int
                 PROVE  Max(S) = CHOOSE i \in S : \A j \in S : j <= i
      BY <3>1
    <3>2. \A i \in S : (\A j \in S : i >= j) <=> (\A j \in S : j <= i)
      OBVIOUS
    <3> QED BY <3>2 DEF Max
  <2>5. \A k \in Params : param'[k] = IF for(k) = {} THEN param[k]
            ELSE cs[CHOOSE i \in for(k) : \A j \in for(k) : j <= i].value
    BY <2>2, <2>4
  <2>6. ASSUME NEW i \in Proposals, proposal[i].status = "OPEN", proposal'[i].status = "EXECUTED"
        PROVE  i = id
    BY <2>1, <2>6
  <2>7. Approves(id)
    BY <2>1, <2>5 DEF Approves
  <2> QED BY <2>1, <2>6, <2>7 DEF ByApproval
<1>5. CASE GovNext
  BY <1>2, <1>3, <1>4, <1>5 DEF GovNext
<1> QED BY <1>1, <1>5 DEF AdminNext, RouteTx, AdvanceEpoch, networkVars

LEMMA GovInvInit == AdminInit => GovInv
<1> SUFFICES ASSUME AdminInit PROVE GovInv
  OBVIOUS
<1>1. /\ Proposals = {} /\ proposal = [i \in Proposals |-> proposal[i]]
      /\ DOMAIN ballot = {} /\ ballot = [b \in DOMAIN ballot |-> ballot[b]]
  BY DEF AdminInit, GovInit, Proposals
<1>2. cast \in [ProposalIds -> Seq([round : Nat, vote : Votes])]
      /\ \A id \in ProposalIds : DOMAIN cast[id] = {}
  BY DEF AdminInit, GovInit
<1>3. param \in [Params -> Int \cup {Unset}] /\ round \in [ProposalIds -> Nat]
  BY DEF AdminInit, GovInit
<1> QED BY <1>1, <1>2, <1>3 DEF GovInv, GovTypeOK

\* Parameters change only by executing a proposal that more yes than no votes,
\* cast since its present changes were put up, approve; the last change for a
\* parameter wins and no other parameter moves, however long the list.
THEOREM GovernanceCorrect == AdminSpec => ParamsChangeOnlyByApproval
<1>1. GovInv /\ [AdminNext]_networkVars => [ByApproval]_govVars
  BY GovStep
<1>2. GovInv /\ [AdminNext]_networkVars => GovInv'
  BY GovStep
<1> QED BY <1>1, <1>2, GovInvInit, PTL DEF AdminSpec, ParamsChangeOnlyByApproval, ByApproval, Approves

-----------------------------------------------------------------------------
(* The demonstrations.  The inductive invariant says, of every story at    *)
(* every step, the nonces of its two keys and, as long as no other client  *)
(* wrote its records, what the four modules hold for it, and likewise of   *)
(* the caputxo demonstration.  The ids of different stories differ, so a   *)
(* step of one, or of another client on its records, leaves what is said   *)
(* of the others.                                                          *)

\* The stories that are past step k.
Past(k) == {s \in Stories : step[s] > k}

\* The stories whose records no other client wrote.
Intact == Stories \ touched

StoryListing(s) ==
  [provider |-> Provider(s), caps |-> <<"poster_design">>, currency |-> "CNY", price |-> 199,
   status |-> "LISTING_ACTIVE"]

StoryCommission == Escrows!ApplyBPS(19900, Escrows!EffectiveBPS(1200))

StoryEscrow(st) ==
  [fee |-> 19900, commission |-> StoryCommission,
   total |-> Escrows!Format8(19900 + StoryCommission), currency |-> "CNY", status |-> st]

StoryTask(s, st, result, retries) ==
  [provider |-> Provider(s), status |-> st, result |-> result, heartbeatSeq |-> 0,
   lastHeartbeat |-> 0, retryCount |-> retries, maxRetries |-> 1]

StoryDispute(s, st, verdict) ==
  [plaintiff |-> Consumer(s), defendant |-> Provider(s), reason |-> "quality",
   phase |-> "PHASE_AUTO", status |-> st, verdict |-> verdict, committee |-> {},
   committeeVotes |-> <<>>, fullVotes |-> <<>>, plaintiffEvidence |-> 0, defendantEvidence |-> 0]

\* The provider signs steps 1 and 6, the consumer the others.
ProviderNonce(k) == IF k = 1 THEN 0 ELSE IF k <= 6 THEN 1 ELSE 2
ConsumerNonce(k) == IF k = 1 THEN 0 ELSE IF k <= 6 THEN k - 2 ELSE k - 3

StepsInv ==
  /\ step \in [Stories -> 1..11] /\ demo \in 1..4 /\ open \in BOOLEAN
  /\ nonce \in [StoryKeys \cup {Issuer, Holder} -> Nat]
  /\ \A s \in Stories : /\ nonce[Provider(s)] = ProviderNonce(step[s])
                        /\ nonce[Consumer(s)] = ConsumerNonce(step[s])
  /\ nonce[Issuer] = IF demo = 1 THEN 0 ELSE IF demo <= 3 THEN 1 ELSE 2
  /\ nonce[Holder] = IF demo <= 2 THEN 0 ELSE 1

(* Rivals list at any time, so only a story's own listing is known.        *)
MarketInv ==
  /\ \A s \in Stories : s \in DOMAIN listing <=> s \in Past(1)
  /\ \A s \in Past(1) : listing[s] = StoryListing(s)
  /\ \A o \in DOMAIN order : o[1] \in Past(2)

\* What the modules hold for a story at step k: escrow, task and dispute.
EscrowAt(k) ==
  StoryEscrow(IF k = 4 THEN "ESCROW_PENDING"
              ELSE IF k <= 10 THEN "ESCROW_FUNDED" ELSE "ESCROW_REFUNDED")

FundingsAt(k) == IF k > 4 THEN 1 ELSE 0
SettlementsAt(k) == IF k > 10 THEN 1 ELSE 0

TaskAt(s, k) ==
  IF k = 6 THEN StoryTask(s, "TASK_CREATED", NoResult, 0)
  ELSE IF k = 7 THEN StoryTask(s, "TASK_SUBMIT_RESULT", "poster-hash-v1", 0)
  ELSE StoryTask(s, "TASK_DISPUTED", "poster-hash-v1", 1)

DisputeAt(s, k) ==
  IF k = 9 THEN StoryDispute(s, "DISPUTE_FILED", [winner |-> Nobody, by |-> "nothing"])
  ELSE StoryDispute(s, "DISPUTE_AUTO_RESOLVED", [winner |-> "consumer", by |-> "rule"])

\* The records of story s are those of step k.
EscrowIs(s, k) ==
  /\ k > 3 => escrowID(s) \in DOMAIN escrow /\ escrow[escrowID(s)] = EscrowAt(k)
  /\ fundings[escrowID(s)] = FundingsAt(k)
  /\ settlements[escrowID(s)] = SettlementsAt(k)

TaskIs(s, k) == k > 5 => taskID(s) \in DOMAIN task /\ task[taskID(s)] = TaskAt(s, k)

DisputeIs(s, k) ==
  k > 8 => disputeID(s) \in DOMAIN dispute /\ dispute[disputeID(s)] = DisputeAt(s, k)

EscrowShape ==
  /\ escrow = [i \in DOMAIN escrow |-> escrow[i]]
  /\ fundings = [i \in {escrowID(s) : s \in Stories} |-> fundings[i]]
  /\ settlements = [i \in {escrowID(s) : s \in Stories} |-> settlements[i]]

EscrowInv == EscrowShape /\ \A s \in Intact : EscrowIs(s, step[s])

WorkInv == /\ task = [i \in DOMAIN task |-> task[i]]
           /\ \A s \in Intact : TaskIs(s, step[s])

CourtInv == /\ dispute = [i \in DOMAIN dispute |-> dispute[i]]
            /\ \A s \in Intact : DisputeIs(s, step[s])

DemoCap(holder, scopes, depth, parent, st) ==
  [issuer |-> Issuer, holder |-> holder, capType |-> "text_generation", scopes |-> scopes,
   expiresAt |-> 0, maxUses |-> 0, usedCount |-> 0, delegatable |-> TRUE, maxDepth |-> 3,
   curDepth |-> depth, parent |-> parent, status |-> st]

CapsInv ==
  LET st == IF demo = 4 THEN "UTXO_REVOKED" ELSE "UTXO_UNSPENT" IN
  /\ utxo = [i \in {j \in {ParentUTXOID, ChildUTXOID} :
                      demo > (IF j = ParentUTXOID THEN 1 ELSE 2)} |-> utxo[i]]
  /\ demo > 1 => utxo[ParentUTXOID] = DemoCap(Holder, {"read", "write"}, 0, None, st)
  /\ demo > 2 => utxo[ChildUTXOID] = DemoCap(DelegateKey, {"read"}, 1, ParentUTXOID, st)
  /\ derive = IF demo > 2 THEN {<<ParentUTXOID, ChildUTXOID>>} ELSE {}

DemosInv == StepsInv /\ MarketInv /\ EscrowInv /\ WorkInv /\ CourtInv /\ CapsInv

(***************************************************************************)
(* What the next block of a story asks: that its key is at the nonce which *)
(* main.go counted up to, and that the module takes the transaction.       *)
(***************************************************************************)
StoryIsAccepted(s) ==
  LET k == step[s]
      cand == Market!Candidates({"poster_design"}, "CNY", 299)
      e == escrow[escrowID(s)]
      t == task[taskID(s)]
      d == dispute[disputeID(s)] IN
  /\ k <= 10 => nonce[IF k \in {1, 6} THEN Provider(s) ELSE Consumer(s)] = StepNonce[k]
  /\ k = 1 => Market!ListingID(Provider(s), listingID(s))
  /\ k = 2 => cand # {} /\ NewOrderID(s, StepNonce[2], Market!Best(cand)) \notin DOMAIN order
  /\ k \in {4, 10} => escrowID(s) \in DOMAIN escrow
  /\ k = 4 => e.status = "ESCROW_PENDING" /\ fundings[escrowID(s)] < 1 + MaxForeign
  /\ k \in {6, 7} => taskID(s) \in DOMAIN task
  /\ k = 6 => t.provider = Provider(s)
  /\ k = 7 => t.status = "TASK_SUBMIT_RESULT" /\ t.retryCount < 1 + MaxForeign
  /\ k = 9 => /\ disputeID(s) \in DOMAIN dispute
              /\ Court!MayAutoResolve(d.status) /\ Court!applyRules(d.reason) # Nobody
  /\ k = 10 => Escrows!MaySettle(e.status)

\* The same of the caputxo demonstration.
DemoIsAccepted ==
  /\ demo = 1 => nonce[Issuer] = 0 /\ Caps!FreshID({ParentUTXOID}) # {}
  /\ demo = 2 => /\ nonce[Holder] = 0 /\ Caps!FreshID({ChildUTXOID}) # {}
                 /\ Caps!MayDelegate(Holder, utxo[ParentUTXOID],
                      [newHolder |-> DelegateKey, scopes |-> {"read"}, expiresAt |-> 0,
                       maxUses |-> 0])
  /\ demo = 3 => nonce[Issuer] = 1 /\ utxo[ParentUTXOID].issuer = Issuer

\* Story s takes its k-th step.
Moves(s, k) ==
  step[s] = k /\ step' = [step EXCEPT ![s] = k + 1] /\ touched' = touched

\* Different stories have different keys and ids.
LEMMA StoriesDiffer ==
  /\ \A s, t \in Stories : s # t =>
       /\ Provider(s) # Provider(t) /\ Consumer(s) # Consumer(t)
       /\ escrowID(s) # escrowID(t) /\ taskID(s) # taskID(t) /\ disputeID(s) # disputeID(t)
  /\ \A s, t \in Stories :
       /\ Provider(s) # Consumer(t)
       /\ Provider(s) \notin {Issuer, Holder} /\ Consumer(s) \notin {Issuer, Holder}
  /\ Issuer # Holder
BY DEF Provider, Consumer, Issuer, Holder, escrowID, taskID, disputeID, orderID, listingID,
       NewOrderID, NewTaskID, NewDisputeID

\* What each step of a story leaves alone.
LEMMA StoryFrame ==
  ASSUME NEW s \in Stories
  PROVE  /\ createListing(s) => Moves(s, 1)
              /\ UNCHANGED <<now, fiatVars, aapVars, dispute, demo, capVars>>
         /\ submitRequest(s) => Moves(s, 2)
              /\ UNCHANGED <<now, fiatVars, aapVars, dispute, demo, capVars>>
         /\ createEscrow(s) => Moves(s, 3)
              /\ UNCHANGED <<now, amxVars, aapVars, dispute, demo, capVars>>
         /\ fundEscrow(s) => Moves(s, 4)
              /\ UNCHANGED <<now, amxVars, aapVars, dispute, demo, capVars>>
         /\ createTask(s) => Moves(s, 5)
              /\ UNCHANGED <<now, amxVars, fiatVars, dispute, demo, capVars>>
         /\ submitResult(s) => Moves(s, 6)
              /\ UNCHANGED <<now, amxVars, fiatVars, dispute, demo, capVars>>
         /\ verifyResult(s) => Moves(s, 7)
              /\ UNCHANGED <<now, amxVars, fiatVars, dispute, demo, capVars>>
         /\ fileDispute(s) => Moves(s, 8)
              /\ UNCHANGED <<now, amxVars, fiatVars, aapVars, demo, capVars>>
         /\ autoResolve(s) => Moves(s, 9)
              /\ UNCHANGED <<now, amxVars, fiatVars, aapVars, demo, capVars>>
         /\ refundEscrow(s) => Moves(s, 10)
              /\ UNCHANGED <<now, amxVars, aapVars, dispute, demo, capVars>>
BY DEF createListing, submitRequest, createEscrow, fundEscrow, createTask, submitResult,
       verifyResult, fileDispute, autoResolve, refundEscrow, runStoryStep, Moves, otherVars,
       Escrows!createEscrow, Escrows!fundEscrow, Escrows!refundEscrow, Escrows!history,
       Work!createTask, Work!submitResult, Work!verifyFailed

\* A step of a story keeps the steps of the others.
LEMMA MovesFacts ==
  ASSUME step \in [Stories -> 1..11], NEW s \in Stories, NEW k \in 1..10, Moves(s, k)
  PROVE  /\ step' \in [Stories -> 1..11] /\ step'[s] = k + 1
         /\ \A t \in Stories : t # s => step'[t] = step[t]
         /\ \A n \in Int : Past(n)' = IF n = k THEN Past(n) \cup {s} ELSE Past(n)
<1>1. /\ step' \in [Stories -> 1..11] /\ step'[s] = k + 1
      /\ \A t \in Stories : t # s => step'[t] = step[t]
  BY DEF Moves
<1>2. ASSUME NEW n \in Int
      PROVE  Past(n)' = IF n = k THEN Past(n) \cup {s} ELSE Past(n)
  <2>1. ASSUME NEW t \in Stories
        PROVE  step'[t] > n <=> step[t] > n \/ (n = k /\ t = s)
    <3>1. step[t] \in Int /\ step[s] = k
      BY DEF Moves
    <3> QED BY <1>1, <3>1
  <2> QED BY <2>1 DEF Past
<1> QED BY <1>1, <1>2

-----------------------------------------------------------------------------
\* Every block of a demonstration uses the nonce that its key is at.
LEMMA NonceStep ==
  ASSUME StepsInv, NEW s \in Stories, NEW k \in 1..10, NEW key \in {Provider(s), Consumer(s)},
         key = IF k \in {1, 6} THEN Provider(s) ELSE Consumer(s),
         runStoryStep(s, k, key)
  PROVE  StepsInv'
<1>1. StepNonce[k] \in Nat /\ step \in [Stories -> 1..11] /\ Moves(s, k) /\ demo' = demo
  BY DEF StepNonce, StepsInv, runStoryStep, Moves, otherVars
<1>2. /\ step' \in [Stories -> 1..11] /\ step'[s] = k + 1 /\ step[s] = k
      /\ \A t \in Stories : t # s => step'[t] = step[t]
  BY <1>1, MovesFacts DEF Moves
<1>3. /\ nonce[key] = StepNonce[k] /\ open' = TRUE
      /\ nonce' = [nonce EXCEPT ![key] = nonce[key] + 1]
  BY DEF runStoryStep, Executes
<1>4. key \in StoryKeys
  BY DEF StoryKeys
<1>5. /\ nonce' \in [StoryKeys \cup {Issuer, Holder} -> Nat] /\ nonce'[key] = nonce[key] + 1
      /\ \A i \in StoryKeys \cup {Issuer, Holder} : i # key => nonce'[i] = nonce[i]
  BY <1>3, <1>4 DEF StepsInv
<1>6. nonce'[Issuer] = nonce[Issuer] /\ nonce'[Holder] = nonce[Holder]
  BY <1>5, StoriesDiffer
<1>7. ASSUME NEW t \in Stories
      PROVE  /\ nonce'[Provider(t)] = ProviderNonce(step'[t])
             /\ nonce'[Consumer(t)] = ConsumerNonce(step'[t])
  <2>1. Provider(t) \in StoryKeys /\ Consumer(t) \in StoryKeys
    BY DEF StoryKeys
  <2>2. nonce[Provider(t)] = ProviderNonce(step[t]) /\ nonce[Consumer(t)] = ConsumerNonce(step[t])
    BY DEF StepsInv
  <2>3. CASE t # s
    <3>1. Provider(t) # key /\ Consumer(t) # key
      BY <2>3, StoriesDiffer
    <3> QED BY <1>2, <1>5, <2>1, <2>2, <2>3, <3>1
  <2>4. CASE t = s /\ key = Provider(s)
    <3>1. k \in {1, 6} /\ Consumer(s) # key
      BY <2>4, StoriesDiffer
    <3> QED BY <1>2, <1>5, <2>1, <2>2, <2>4, <3>1 DEF ProviderNonce, ConsumerNonce
  <2>5. CASE t = s /\ key = Consumer(s)
    <3>1. k \notin {1, 6} /\ Provider(s) # key
      BY <2>5, StoriesDiffer
    <3> QED BY <1>2, <1>5, <2>1, <2>2, <2>5, <3>1 DEF ProviderNonce, ConsumerNonce
  <2> QED BY <2>3, <2>4, <2>5
<1> QED BY <1>1, <1>2, <1>3, <1>5, <1>6, <1>7 DEF StepsInv

\* Steps and nonces stay in step.
LEMMA StepsKeep ==
  ASSUME StepsInv, [Next]_vars
  PROVE  StepsInv'
<1>1. ASSUME NEW s \in Stories, StoryStep(s) PROVE StepsInv'
  <2>1. \E k \in 1..10, key \in {Provider(s), Consumer(s)} :
          /\ key = IF k \in {1, 6} THEN Provider(s) ELSE Consumer(s)
          /\ runStoryStep(s, k, key)
    BY <1>1 DEF StoryStep, createListing, submitRequest, createEscrow, fundEscrow, createTask,
                submitResult, verifyResult, fileDispute, autoResolve, refundEscrow
  <2> QED BY <2>1, NonceStep
<1>2. CASE DemoStep
  <2>1. ASSUME NEW k \in 1..3, NEW key \in {Issuer, Holder}, NEW n \in Nat,
               key = (IF k = 2 THEN Holder ELSE Issuer), runDemoStep(k, key, n)
        PROVE  StepsInv'
    <3>1. /\ demo = k /\ demo' = k + 1 /\ step' = step /\ open' = TRUE /\ nonce[key] = n
          /\ nonce' = [nonce EXCEPT ![key] = n + 1]
      BY <2>1 DEF runDemoStep, Executes
    <3>2. /\ nonce' \in [StoryKeys \cup {Issuer, Holder} -> Nat] /\ nonce'[key] = nonce[key] + 1
          /\ \A i \in StoryKeys \cup {Issuer, Holder} : i # key => nonce'[i] = nonce[i]
      BY <3>1 DEF StepsInv
    <3>3. \A t \in Stories : /\ nonce'[Provider(t)] = nonce[Provider(t)]
                             /\ nonce'[Consumer(t)] = nonce[Consumer(t)]
      BY <3>2, StoriesDiffer DEF StoryKeys
    <3>4. key = Issuer => nonce'[Holder] = nonce[Holder]
      BY <3>2, StoriesDiffer
    <3>5. key = Holder => nonce'[Issuer] = nonce[Issuer]
      BY <3>2, StoriesDiffer
    <3>6. /\ nonce'[Issuer] = IF demo' = 1 THEN 0 ELSE IF demo' <= 3 THEN 1 ELSE 2
          /\ nonce'[Holder] = IF demo' <= 2 THEN 0 ELSE 1
      <4>1. CASE k = 2
        BY <2>1, <3>1, <3>2, <3>5, <4>1 DEF StepsInv
      <4>2. CASE k # 2
        BY <2>1, <3>1, <3>2, <3>4, <4>2 DEF StepsInv
      <4> QED BY <4>1, <4>2
    <3> QED BY <3>1, <3>2, <3>3, <3>6 DEF StepsInv
  <2> QED BY <1>2, <2>1 DEF DemoStep
<1>3. CASE UNCHANGED <<step, demo, nonce>> /\ open' \in BOOLEAN
  BY <1>3 DEF StepsInv, Past
<1>4. CASE UNCHANGED vars
  BY <1>4 DEF vars, StepsInv
<1>5. ASSUME NEW s \in Stories, OthersStep(s) PROVE StepsInv'
  <2>1. ByOthers(s)
    BY <1>5 DEF OthersStep, OthersSettle, OthersWork, OthersArbitrate
  <2> QED BY <1>3, <2>1 DEF ByOthers
<1> QED BY <1>1, <1>2, <1>3, <1>4, <1>5 DEF Next, RivalLists, EmptyBlock, BlockEnds

\* What another client's transaction leaves alone.
LEMMA OthersFrame ==
  ASSUME NEW s \in Stories, OthersStep(s)
  PROVE  /\ UNCHANGED <<step, demo, nonce, now, amxVars, capVars>>
         /\ touched' = touched \cup {s}
         /\ OthersSettle(s) \/ UNCHANGED fiatVars
         /\ OthersWork(s) \/ UNCHANGED aapVars
         /\ OthersArbitrate(s) \/ dispute' = dispute
BY DEF OthersStep, OthersSettle, OthersWork, OthersArbitrate, ByOthers

\* A record is filed or changed under one id: the others stay.
LEMMA OneRecord ==
  ASSUME NEW f, f = [i \in DOMAIN f |-> f[i]], NEW g, NEW k, NEW r,
         \/ g = [i \in DOMAIN f \cup {k} |-> IF i = k THEN r ELSE f[i]]
         \/ g = [f EXCEPT ![k] = r]
  PROVE  /\ g = [i \in DOMAIN g |-> g[i]]
         /\ \A i \in DOMAIN f : i # k => i \in DOMAIN g /\ g[i] = f[i]
OBVIOUS

-----------------------------------------------------------------------------
\* At most the escrow of story s is written.
EscrowOthersStay(s) ==
  \A t \in Stories : t # s =>
    /\ escrowID(t) \in DOMAIN escrow =>
         escrowID(t) \in DOMAIN escrow' /\ escrow'[escrowID(t)] = escrow[escrowID(t)]
    /\ fundings'[escrowID(t)] = fundings[escrowID(t)]
    /\ settlements'[escrowID(t)] = settlements[escrowID(t)]

LEMMA EscrowUpdate ==
  ASSUME EscrowShape, NEW s \in Stories, NEW r, NEW x, NEW y,
         \/ escrow' = [i \in DOMAIN escrow \cup {escrowID(s)} |->
                         IF i = escrowID(s) THEN r ELSE escrow[i]]
         \/ escrow' = [escrow EXCEPT ![escrowID(s)] = r],
         fundings' = fundings \/ fundings' = [fundings EXCEPT ![escrowID(s)] = x],
         settlements' = settlements \/ settlements' = [settlements EXCEPT ![escrowID(s)] = y]
  PROVE  EscrowShape' /\ EscrowOthersStay(s)
<1>1. /\ escrow' = [i \in DOMAIN escrow' |-> escrow'[i]]
      /\ \A i \in DOMAIN escrow : i # escrowID(s) => i \in DOMAIN escrow' /\ escrow'[i] = escrow[i]
  BY OneRecord DEF EscrowShape
<1>2. ASSUME NEW f, NEW g, NEW z, f = [i \in {escrowID(t) : t \in Stories} |-> f[i]],
             g = f \/ g = [f EXCEPT ![escrowID(s)] = z]
      PROVE  /\ g = [i \in {escrowID(t) : t \in Stories} |-> g[i]]
             /\ \A t \in Stories : t # s => g[escrowID(t)] = f[escrowID(t)]
  BY <1>2, StoriesDiffer
<1>3. /\ fundings' = [i \in {escrowID(t) : t \in Stories} |-> fundings'[i]]
      /\ settlements' = [i \in {escrowID(t) : t \in Stories} |-> settlements'[i]]
      /\ \A t \in Stories : t # s => /\ fundings'[escrowID(t)] = fundings[escrowID(t)]
                                     /\ settlements'[escrowID(t)] = settlements[escrowID(t)]
  BY <1>2 DEF EscrowShape
<1>4. \A t \in Stories : t # s => escrowID(t) # escrowID(s)
  BY StoriesDiffer
<1> QED BY <1>1, <1>3, <1>4 DEF EscrowShape, EscrowOthersStay

\* A step of story s keeps what is said of the others' escrows.
LEMMA EscrowMoves ==
  ASSUME StepsInv, EscrowInv, NEW s \in Stories, NEW k \in 1..10, Moves(s, k),
         NEW n, n = k + 1, EscrowShape', EscrowOthersStay(s), s \in Intact => EscrowIs(s, n)'
  PROVE  EscrowInv'
<1>1. step'[s] = n /\ \A t \in Stories : t # s => step'[t] = step[t]
  BY MovesFacts DEF StepsInv
<1>2. Intact' = Intact
  BY DEF Moves, Intact
<1>3. ASSUME NEW t \in Intact, t # s PROVE EscrowIs(t, step[t])'
  <2>1. t \in Stories /\ step'[t] = step[t] /\ EscrowIs(t, step[t])
    BY <1>1, <1>3 DEF EscrowInv, Intact
  <2> QED BY <1>3, <2>1 DEF EscrowIs, EscrowOthersStay
<1>4. s \in Intact => EscrowIs(s, step[s])'
  BY <1>1 DEF EscrowIs
<1> QED BY <1>2, <1>3, <1>4 DEF EscrowInv

\* So does another client's transaction on its records.
LEMMA EscrowTouched ==
  ASSUME StepsInv, EscrowInv, NEW s \in Stories, step' = step, touched' = touched \cup {s},
         EscrowShape', EscrowOthersStay(s)
  PROVE  EscrowInv'
<1>1. ASSUME NEW t \in Intact' PROVE EscrowIs(t, step[t])'
  <2>1. t \in Stories /\ t # s /\ EscrowIs(t, step[t])
    BY <1>1 DEF EscrowInv, Intact
  <2> QED BY <2>1 DEF EscrowIs, EscrowOthersStay
<1> QED BY <1>1 DEF EscrowInv

\* What a story's escrow holds follows its steps.
LEMMA EscrowKeep ==
  ASSUME StepsInv, EscrowInv, [Next]_vars
  PROVE  EscrowInv'
<1>1. /\ step \in [Stories -> 1..11] /\ EscrowShape
      /\ \A s \in Stories : escrowID(s) \in DOMAIN fundings /\ escrowID(s) \in DOMAIN settlements
  BY DEF StepsInv, EscrowInv, EscrowShape
<1>2. ASSUME NEW s \in Stories, createEscrow(s) PROVE EscrowInv'
  <2>1. Moves(s, 3) /\ step[s] = 3
    BY <1>2, StoryFrame DEF Moves
  <2>2. /\ escrow' = [i \in DOMAIN escrow \cup {escrowID(s)} |->
                        IF i = escrowID(s) THEN StoryEscrow("ESCROW_PENDING") ELSE escrow[i]]
        /\ fundings' = fundings /\ settlements' = settlements
    BY <1>2 DEF createEscrow, Escrows!createEscrow, Escrows!Saved, Escrows!history, StoryEscrow,
                StoryCommission
  <2>3. EscrowShape' /\ EscrowOthersStay(s)
    BY <1>1, <2>2, EscrowUpdate
  <2>4. escrowID(s) \in DOMAIN escrow' /\ escrow'[escrowID(s)] = EscrowAt(4)
    BY <2>2 DEF EscrowAt
  <2>5. s \in Intact => EscrowIs(s, 4)'
    <3>1. s \in Intact => EscrowIs(s, 3)
      BY <2>1 DEF EscrowInv
    <3> QED BY <2>2, <2>4, <3>1 DEF EscrowIs, FundingsAt, SettlementsAt
  <2> QED BY <2>1, <2>3, <2>5, EscrowMoves
<1>3. ASSUME NEW s \in Stories, fundEscrow(s) PROVE EscrowInv'
  <2>1. Moves(s, 4) /\ step[s] = 4
    BY <1>3, StoryFrame DEF Moves
  <2>2. /\ escrow' = [escrow EXCEPT ![escrowID(s)].status = "ESCROW_FUNDED"]
        /\ fundings' = [fundings EXCEPT ![escrowID(s)] = fundings[escrowID(s)] + 1]
        /\ settlements' = settlements
    BY <1>3 DEF fundEscrow, Escrows!fundEscrow, Escrows!SetStatus
  <2>3. EscrowShape' /\ EscrowOthersStay(s)
    BY <1>1, <2>2, EscrowUpdate
  <2>4. s \in Intact => EscrowIs(s, 5)'
    <3> SUFFICES ASSUME s \in Intact PROVE EscrowIs(s, 5)'
      OBVIOUS
    <3>1. EscrowIs(s, 4)
      BY <2>1 DEF EscrowInv
    <3>2. escrow[escrowID(s)] = EscrowAt(4) /\ escrowID(s) \in DOMAIN escrow
      BY <3>1 DEF EscrowIs
    <3>3. escrowID(s) \in DOMAIN escrow' /\ escrow'[escrowID(s)] = EscrowAt(5)
      BY <2>2, <3>2 DEF EscrowAt, StoryEscrow
    <3>4. fundings[escrowID(s)] = 0 /\ settlements[escrowID(s)] = 0
      BY <3>1 DEF EscrowIs, FundingsAt, SettlementsAt
    <3>5. fundings'[escrowID(s)] = 1 /\ settlements'[escrowID(s)] = 0
      BY <1>1, <2>2, <3>4
    <3> QED BY <3>3, <3>5 DEF EscrowIs, FundingsAt, SettlementsAt
  <2> QED BY <2>1, <2>3, <2>4, EscrowMoves
<1>4. ASSUME NEW s \in Stories, refundEscrow(s) PROVE EscrowInv'
  <2>1. Moves(s, 10) /\ step[s] = 10
    BY <1>4, StoryFrame DEF Moves
  <2>2. /\ escrow' = [escrow EXCEPT ![escrowID(s)].status = "ESCROW_REFUNDED"]
        /\ settlements' = [settlements EXCEPT ![escrowID(s)] = settlements[escrowID(s)] + 1]
        /\ fundings' = fundings
    BY <1>4 DEF refundEscrow, Escrows!refundEscrow, Escrows!Settle, Escrows!SetStatus
  <2>3. EscrowShape' /\ EscrowOthersStay(s)
    BY <1>1, <2>2, EscrowUpdate
  <2>4. s \in Intact => EscrowIs(s, 11)'
    <3> SUFFICES ASSUME s \in Intact PROVE EscrowIs(s, 11)'
      OBVIOUS
    <3>1. EscrowIs(s, 10)
      BY <2>1 DEF EscrowInv
    <3>2. escrow[escrowID(s)] = EscrowAt(10) /\ escrowID(s) \in DOMAIN escrow
      BY <3>1 DEF EscrowIs
    <3>3. escrowID(s) \in DOMAIN escrow' /\ escrow'[escrowID(s)] = EscrowAt(11)
      BY <2>2, <3>2 DEF EscrowAt, StoryEscrow
    <3>4. fundings[escrowID(s)] = 1 /\ settlements[escrowID(s)] = 0
      BY <3>1 DEF EscrowIs, FundingsAt, SettlementsAt
    <3>5. fundings'[escrowID(s)] = 1 /\ settlements'[escrowID(s)] = 1
      BY <1>1, <2>2, <3>4
    <3> QED BY <3>3, <3>5 DEF EscrowIs, FundingsAt, SettlementsAt
  <2> QED BY <2>1, <2>3, <2>4, EscrowMoves
<1>5. ASSUME escrow' = escrow, fundings' = fundings, settlements' = settlements
      PROVE  EscrowShape' /\ \A s \in Stories : EscrowOthersStay(s)
  BY <1>1, <1>5 DEF EscrowShape, EscrowOthersStay
<1>6. ASSUME escrow' = escrow, fundings' = fundings, settlements' = settlements,
             NEW s \in Stories, NEW k \in (1..10) \ {3, 4, 10}, Moves(s, k)
      PROVE  EscrowInv'
  <2>1. k \in 1..10 /\ k \notin {3, 4, 10} /\ step[s] = k
    BY <1>6 DEF Moves
  <2>2. FundingsAt(k + 1) = FundingsAt(k) /\ SettlementsAt(k + 1) = SettlementsAt(k)
    BY <2>1 DEF FundingsAt, SettlementsAt
  <2>3. k + 1 > 3 => k > 3 /\ EscrowAt(k + 1) = EscrowAt(k)
    BY <2>1 DEF EscrowAt
  <2>4. s \in Intact => EscrowIs(s, k + 1)'
    <3>1. s \in Intact => EscrowIs(s, k)
      BY <2>1 DEF EscrowInv
    <3> QED BY <1>6, <2>2, <2>3, <3>1 DEF EscrowIs
  <2> QED BY <1>5, <1>6, <2>1, <2>4, EscrowMoves
<1>7. CASE /\ step' = step /\ touched' = touched
           /\ escrow' = escrow /\ fundings' = fundings /\ settlements' = settlements
  BY <1>7 DEF EscrowInv, EscrowShape, EscrowIs, Intact
<1>8. ASSUME NEW s \in Stories, StoryStep(s) PROVE EscrowInv'
  BY <1>2, <1>3, <1>4, <1>6, <1>8, StoryFrame DEF StoryStep, fiatVars
<1>9. ASSUME NEW s \in Stories, OthersStep(s) PROVE EscrowInv'
  <2>1. step' = step /\ touched' = touched \cup {s} /\ (OthersSettle(s) \/ UNCHANGED fiatVars)
    BY <1>9, OthersFrame
  <2>2. CASE UNCHANGED fiatVars
    BY <1>5, <2>1, <2>2, EscrowTouched DEF fiatVars
  <2>3. CASE OthersSettle(s)
    <3>1. \E r, x, y :
            /\ \/ escrow' = [i \in DOMAIN escrow \cup {escrowID(s)} |->
                               IF i = escrowID(s) THEN r ELSE escrow[i]]
               \/ escrow' = [escrow EXCEPT ![escrowID(s)] = r]
            /\ fundings' = fundings \/ fundings' = [fundings EXCEPT ![escrowID(s)] = x]
            /\ settlements' = settlements \/ settlements' = [settlements EXCEPT ![escrowID(s)] = y]
      BY <2>3 DEF OthersSettle, Escrows!createEscrow, Escrows!fundEscrow, Escrows!lockEscrow,
          Escrows!releaseEscrow, Escrows!refundEscrow, Escrows!Settle, Escrows!SetStatus,
          Escrows!Saved, Escrows!history
    <3>2. EscrowShape' /\ EscrowOthersStay(s)
      BY <1>1, <3>1, EscrowUpdate
    <3> QED BY <2>1, <3>2, EscrowTouched
  <2> QED BY <2>1, <2>2, <2>3
<1>10. CASE DemoStep \/ (\E l \in RivalIds, p \in RivalPrices : RivalLists(l, p)) \/ EmptyBlock
           \/ BlockEnds \/ UNCHANGED vars
  <2>1. /\ step' = step /\ touched' = touched
        /\ escrow' = escrow /\ fundings' = fundings /\ settlements' = settlements
    BY <1>10 DEF DemoStep, runDemoStep, RivalLists, EmptyBlock, BlockEnds, vars, otherVars,
                fiatVars, Escrows!EndBlock, Escrows!storeVars, Escrows!history
  <2> QED BY <1>7, <2>1
<1> QED BY <1>8, <1>9, <1>10 DEF Next

-----------------------------------------------------------------------------
\* At most the task of story s is written.
TaskOthersStay(s) ==
  \A t \in Stories : t # s /\ taskID(t) \in DOMAIN task =>
    taskID(t) \in DOMAIN task' /\ task'[taskID(t)] = task[taskID(t)]

LEMMA TaskUpdate ==
  ASSUME WorkInv, NEW s \in Stories, NEW r,
         \/ task' = [i \in DOMAIN task \cup {taskID(s)} |->
                       IF i = taskID(s) THEN r ELSE task[i]]
         \/ task' = [task EXCEPT ![taskID(s)] = r]
  PROVE  task' = [i \in DOMAIN task' |-> task'[i]] /\ TaskOthersStay(s)
<1>1. /\ task' = [i \in DOMAIN task' |-> task'[i]]
      /\ \A i \in DOMAIN task : i # taskID(s) => i \in DOMAIN task' /\ task'[i] = task[i]
  BY OneRecord DEF WorkInv
<1>2. \A t \in Stories : t # s => taskID(t) # taskID(s)
  BY StoriesDiffer
<1> QED BY <1>1, <1>2 DEF TaskOthersStay

\* A step of story s keeps what is said of the others' tasks.
LEMMA TaskMoves ==
  ASSUME StepsInv, WorkInv, NEW s \in Stories, NEW k \in 1..10, Moves(s, k),
         NEW n, n = k + 1, task' = [i \in DOMAIN task' |-> task'[i]],
         TaskOthersStay(s), s \in Intact => TaskIs(s, n)'
  PROVE  WorkInv'
<1>1. step'[s] = n /\ \A t \in Stories : t # s => step'[t] = step[t]
  BY MovesFacts DEF StepsInv
<1>2. Intact' = Intact
  BY DEF Moves, Intact
<1>3. ASSUME NEW t \in Intact, t # s PROVE TaskIs(t, step[t])'
  <2>1. t \in Stories /\ step'[t] = step[t] /\ TaskIs(t, step[t])
    BY <1>1, <1>3 DEF WorkInv, Intact
  <2> QED BY <1>3, <2>1 DEF TaskIs, TaskOthersStay
<1>4. s \in Intact => TaskIs(s, step[s])'
  BY <1>1 DEF TaskIs
<1> QED BY <1>2, <1>3, <1>4 DEF WorkInv

\* So does another client's transaction on its records.
LEMMA TaskTouched ==
  ASSUME StepsInv, WorkInv, NEW s \in Stories, step' = step, touched' = touched \cup {s},
         task' = [i \in DOMAIN task' |-> task'[i]], TaskOthersStay(s)
  PROVE  WorkInv'
<1>1. ASSUME NEW t \in Intact' PROVE TaskIs(t, step[t])'
  <2>1. t \in Stories /\ t # s /\ TaskIs(t, step[t])
    BY <1>1 DEF WorkInv, Intact
  <2> QED BY <2>1 DEF TaskIs, TaskOthersStay
<1> QED BY <1>1 DEF WorkInv

\* A story's task follows its steps, and the end of a block does not fail it:
\* without heartbeats it is not executing.
LEMMA WorkKeep ==
  ASSUME StepsInv, WorkInv, [Next]_vars
  PROVE  WorkInv'
<1>1. step \in [Stories -> 1..11] /\ task = [i \in DOMAIN task |-> task[i]]
  BY DEF StepsInv, WorkInv
<1>2. ASSUME NEW s \in Stories, createTask(s) PROVE WorkInv'
  <2>1. Moves(s, 5)
    BY <1>2, StoryFrame
  <2>2. task' = [i \in DOMAIN task \cup {taskID(s)} |->
                   IF i = taskID(s) THEN StoryTask(s, "TASK_CREATED", NoResult, 0) ELSE task[i]]
    BY <1>2 DEF createTask, Work!createTask, Work!saveTask, Work!Tasks, StoryTask, StepNonce, taskID
  <2>3. task' = [i \in DOMAIN task' |-> task'[i]] /\ TaskOthersStay(s)
    BY <2>2, TaskUpdate
  <2>4. TaskIs(s, 6)'
    BY <2>2 DEF TaskIs, TaskAt
  <2> QED BY <2>1, <2>3, <2>4, TaskMoves
<1>3. ASSUME NEW s \in Stories, submitResult(s) PROVE WorkInv'
  <2>1. Moves(s, 6) /\ step[s] = 6
    BY <1>3, StoryFrame DEF Moves
  <2>2. task' = [task EXCEPT ![taskID(s)].result = "poster-hash-v1",
                             ![taskID(s)].status = "TASK_SUBMIT_RESULT"]
    BY <1>3 DEF submitResult, Work!submitResult, Work!Resubmitted
  <2>3. taskID(s) \in DOMAIN task
    BY <1>3 DEF submitResult
  <2>4. task' = [task EXCEPT ![taskID(s)] = [task[taskID(s)] EXCEPT
                   !.result = "poster-hash-v1", !.status = "TASK_SUBMIT_RESULT"]]
    BY <1>1, <2>2, <2>3
  <2>5. task' = [i \in DOMAIN task' |-> task'[i]] /\ TaskOthersStay(s)
    BY <2>4, TaskUpdate
  <2>6. s \in Intact => TaskIs(s, 7)'
    <3> SUFFICES ASSUME s \in Intact PROVE TaskIs(s, 7)'
      OBVIOUS
    <3>1. task'[taskID(s)] = [task[taskID(s)] EXCEPT !.result = "poster-hash-v1",
                                                     !.status = "TASK_SUBMIT_RESULT"]
          /\ taskID(s) \in DOMAIN task'
      BY <1>1, <2>3, <2>4
    <3>2. task[taskID(s)] = StoryTask(s, "TASK_CREATED", NoResult, 0)
      BY <2>1 DEF WorkInv, TaskIs, TaskAt
    <3>3. [StoryTask(s, "TASK_CREATED", NoResult, 0) EXCEPT !.result = "poster-hash-v1"] =
            StoryTask(s, "TASK_CREATED", "poster-hash-v1", 0)
      BY DEF StoryTask
    <3>4. [StoryTask(s, "TASK_CREATED", "poster-hash-v1", 0) EXCEPT !.status = "TASK_SUBMIT_RESULT"] =
            StoryTask(s, "TASK_SUBMIT_RESULT", "poster-hash-v1", 0)
      BY DEF StoryTask
    <3>5. task'[taskID(s)] = StoryTask(s, "TASK_SUBMIT_RESULT", "poster-hash-v1", 0)
      BY <3>1, <3>2, <3>3, <3>4
    <3> QED BY <3>1, <3>5 DEF TaskIs, TaskAt
  <2> QED BY <2>1, <2>5, <2>6, TaskMoves
<1>4. ASSUME NEW s \in Stories, verifyResult(s) PROVE WorkInv'
  <2>1. Moves(s, 7) /\ step[s] = 7
    BY <1>4, StoryFrame DEF Moves
  <2> DEFINE n == task[taskID(s)].retryCount + 1
             st == Work!AfterFailure(n, task[taskID(s)].maxRetries)
  <2>2. taskID(s) \in DOMAIN task
        /\ task' = [task EXCEPT ![taskID(s)].retryCount = n, ![taskID(s)].status = st]
    BY <1>4 DEF verifyResult, Work!verifyFailed
  <2> HIDE DEF n, st
  <2>3. task' = [task EXCEPT ![taskID(s)] =
                   [task[taskID(s)] EXCEPT !.retryCount = n, !.status = st]]
    BY <1>1, <2>2
  <2>4. task' = [i \in DOMAIN task' |-> task'[i]] /\ TaskOthersStay(s)
    BY <2>3, TaskUpdate
  <2>5. s \in Intact => TaskIs(s, 8)'
    <3> SUFFICES ASSUME s \in Intact PROVE TaskIs(s, 8)'
      OBVIOUS
    <3>1. task[taskID(s)] = StoryTask(s, "TASK_SUBMIT_RESULT", "poster-hash-v1", 0)
      BY <2>1 DEF WorkInv, TaskIs, TaskAt
    <3>2. n = 1 /\ st = "TASK_DISPUTED"
      BY <3>1 DEF n, st, StoryTask, Work!AfterFailure
    <3>3. task'[taskID(s)] = [task[taskID(s)] EXCEPT !.retryCount = 1, !.status = "TASK_DISPUTED"]
          /\ taskID(s) \in DOMAIN task'
      BY <1>1, <2>2, <2>3, <3>2
    <3>4. [StoryTask(s, "TASK_SUBMIT_RESULT", "poster-hash-v1", 0) EXCEPT !.retryCount = 1] =
            StoryTask(s, "TASK_SUBMIT_RESULT", "poster-hash-v1", 1)
      BY DEF StoryTask
    <3>5. [StoryTask(s, "TASK_SUBMIT_RESULT", "poster-hash-v1", 1) EXCEPT !.status = "TASK_DISPUTED"] =
            StoryTask(s, "TASK_DISPUTED", "poster-hash-v1", 1)
      BY DEF StoryTask
    <3>6. task'[taskID(s)] = StoryTask(s, "TASK_DISPUTED", "poster-hash-v1", 1)
      BY <3>1, <3>3, <3>4, <3>5
    <3> QED BY <3>3, <3>6 DEF TaskIs, TaskAt
  <2> QED BY <2>1, <2>4, <2>5, TaskMoves
<1>5. ASSUME task' = task, NEW s \in Stories, NEW k \in (1..10) \ {5, 6, 7}, Moves(s, k)
      PROVE  WorkInv'
  <2>1. k \in 1..10 /\ k \notin {5, 6, 7} /\ step[s] = k
    BY <1>5 DEF Moves
  <2>2. k + 1 > 5 => k > 5 /\ TaskAt(s, k + 1) = TaskAt(s, k)
    BY <2>1 DEF TaskAt
  <2>3. s \in Intact => TaskIs(s, k + 1)'
    <3>1. s \in Intact => TaskIs(s, k)
      BY <2>1 DEF WorkInv
    <3> QED BY <1>5, <2>2, <3>1 DEF TaskIs
  <2>4. task' = [i \in DOMAIN task' |-> task'[i]] /\ TaskOthersStay(s)
    BY <1>1, <1>5 DEF TaskOthersStay
  <2> QED BY <1>5, <2>1, <2>3, <2>4, TaskMoves
<1>6. CASE step' = step /\ touched' = touched /\ task' = task
  BY <1>6 DEF WorkInv, TaskIs, Intact
<1>7. ASSUME NEW s \in Stories, StoryStep(s) PROVE WorkInv'
  BY <1>2, <1>3, <1>4, <1>5, <1>7, StoryFrame DEF StoryStep, aapVars
<1>8. CASE BlockEnds
  <2>1. step' = step /\ touched' = touched
    BY <1>8 DEF BlockEnds, otherVars
  <2>2. task' = [i \in DOMAIN task |-> IF Work!Overdue(i)
                   THEN [task[i] EXCEPT !.status = "TASK_FAILED"] ELSE task[i]]
    BY <1>8 DEF BlockEnds, Work!EndBlock, Work!TimedOut, Work!Tasks
  <2>3. ASSUME NEW t \in Intact PROVE TaskIs(t, step[t])'
    <3>1. t \in Stories /\ step'[t] = step[t] /\ TaskIs(t, step[t])
      BY <2>1 DEF WorkInv, Intact
    <3>2. ASSUME step[t] > 5
          PROVE  taskID(t) \in DOMAIN task' /\ task'[taskID(t)] = TaskAt(t, step[t])
      <4>1. taskID(t) \in DOMAIN task /\ task[taskID(t)] = TaskAt(t, step[t])
        BY <3>1, <3>2 DEF TaskIs
      <4>2. ~Work!Overdue(taskID(t))
        BY <4>1 DEF TaskAt, StoryTask, Work!Overdue
      <4> QED BY <2>2, <4>1, <4>2
    <3> QED BY <3>1, <3>2 DEF TaskIs
  <2>4. Intact' = Intact /\ task' = [i \in DOMAIN task' |-> task'[i]]
    BY <2>1, <2>2 DEF Intact
  <2> QED BY <2>3, <2>4 DEF WorkInv
<1>9. ASSUME NEW s \in Stories, OthersStep(s) PROVE WorkInv'
  <2>1. step' = step /\ touched' = touched \cup {s} /\ (OthersWork(s) \/ UNCHANGED aapVars)
    BY <1>9, OthersFrame
  <2>2. CASE UNCHANGED aapVars
    <3>1. task' = [i \in DOMAIN task' |-> task'[i]] /\ TaskOthersStay(s)
      BY <1>1, <2>2 DEF aapVars, TaskOthersStay
    <3> QED BY <2>1, <3>1, TaskTouched
  <2>3. CASE OthersWork(s)
    <3>1. \E r : \/ task' = [i \in DOMAIN task \cup {taskID(s)} |->
                               IF i = taskID(s) THEN r ELSE task[i]]
                 \/ task' = [task EXCEPT ![taskID(s)] = r]
      <4>1. ASSUME NEW p, Work!createTask(taskID(s), p, 1)
            PROVE  \E r : task' = [i \in DOMAIN task \cup {taskID(s)} |->
                                     IF i = taskID(s) THEN r ELSE task[i]]
        BY <4>1 DEF Work!createTask, Work!saveTask, Work!Tasks
      <4>2. ASSUME Work!signSLA(taskID(s)) \/ Work!verifyPassed(taskID(s))
                     \/ Work!fileDispute(taskID(s))
            PROVE  \E r : task' = [task EXCEPT ![taskID(s)] = r]
        BY <4>2 DEF Work!signSLA, Work!verifyPassed, Work!fileDispute
      <4>3. ASSUME Work!verifyFailed(taskID(s)), taskID(s) \in DOMAIN task
            PROVE  \E r : task' = [task EXCEPT ![taskID(s)] = r]
        <5>1. PICK x, y : task' = [task EXCEPT ![taskID(s)].retryCount = x, ![taskID(s)].status = y]
          BY <4>3 DEF Work!verifyFailed
        <5>2. task' = [task EXCEPT ![taskID(s)] =
                         [task[taskID(s)] EXCEPT !.retryCount = x, !.status = y]]
          BY <1>1, <4>3, <5>1
        <5> QED BY <5>2
      <4> QED BY <2>3, <4>1, <4>2, <4>3 DEF OthersWork
    <3>2. task' = [i \in DOMAIN task' |-> task'[i]] /\ TaskOthersStay(s)
      BY <3>1, TaskUpdate
    <3> QED BY <2>1, <3>2, TaskTouched
  <2> QED BY <2>1, <2>2, <2>3
<1>10. CASE DemoStep \/ (\E l \in RivalIds, p \in RivalPrices : RivalLists(l, p)) \/ EmptyBlock
           \/ UNCHANGED vars
  <2>1. step' = step /\ touched' = touched /\ task' = task
    BY <1>10 DEF DemoStep, runDemoStep, RivalLists, EmptyBlock, vars, otherVars, aapVars
  <2> QED BY <1>6, <2>1
<1> QED BY <1>7, <1>8, <1>9, <1>10 DEF Next

-----------------------------------------------------------------------------
\* At most the dispute of story s is written.
DisputeOthersStay(s) ==
  \A t \in Stories : t # s /\ disputeID(t) \in DOMAIN dispute =>
    disputeID(t) \in DOMAIN dispute' /\ dispute'[disputeID(t)] = dispute[disputeID(t)]

LEMMA DisputeUpdate ==
  ASSUME CourtInv, NEW s \in Stories, NEW r,
         \/ dispute' = [i \in DOMAIN dispute \cup {disputeID(s)} |->
                       IF i = disputeID(s) THEN r ELSE dispute[i]]
         \/ dispute' = [dispute EXCEPT ![disputeID(s)] = r]
  PROVE  dispute' = [i \in DOMAIN dispute' |-> dispute'[i]] /\ DisputeOthersStay(s)
<1>1. /\ dispute' = [i \in DOMAIN dispute' |-> dispute'[i]]
      /\ \A i \in DOMAIN dispute : i # disputeID(s) => i \in DOMAIN dispute' /\ dispute'[i] = dispute[i]
  BY OneRecord DEF CourtInv
<1>2. \A t \in Stories : t # s => disputeID(t) # disputeID(s)
  BY StoriesDiffer
<1> QED BY <1>1, <1>2 DEF DisputeOthersStay

\* A step of story s keeps what is said of the others' disputes.
LEMMA DisputeMoves ==
  ASSUME StepsInv, CourtInv, NEW s \in Stories, NEW k \in 1..10, Moves(s, k),
         NEW n, n = k + 1, dispute' = [i \in DOMAIN dispute' |-> dispute'[i]],
         DisputeOthersStay(s), s \in Intact => DisputeIs(s, n)'
  PROVE  CourtInv'
<1>1. step'[s] = n /\ \A t \in Stories : t # s => step'[t] = step[t]
  BY MovesFacts DEF StepsInv
<1>2. Intact' = Intact
  BY DEF Moves, Intact
<1>3. ASSUME NEW t \in Intact, t # s PROVE DisputeIs(t, step[t])'
  <2>1. t \in Stories /\ step'[t] = step[t] /\ DisputeIs(t, step[t])
    BY <1>1, <1>3 DEF CourtInv, Intact
  <2> QED BY <1>3, <2>1 DEF DisputeIs, DisputeOthersStay
<1>4. s \in Intact => DisputeIs(s, step[s])'
  BY <1>1 DEF DisputeIs
<1> QED BY <1>2, <1>3, <1>4 DEF CourtInv

\* So does another client's transaction on its records.
LEMMA DisputeTouched ==
  ASSUME StepsInv, CourtInv, NEW s \in Stories, step' = step, touched' = touched \cup {s},
         dispute' = [i \in DOMAIN dispute' |-> dispute'[i]], DisputeOthersStay(s)
  PROVE  CourtInv'
<1>1. ASSUME NEW t \in Intact' PROVE DisputeIs(t, step[t])'
  <2>1. t \in Stories /\ t # s /\ DisputeIs(t, step[t])
    BY <1>1 DEF CourtInv, Intact
  <2> QED BY <2>1 DEF DisputeIs, DisputeOthersStay
<1> QED BY <1>1 DEF CourtInv

\* A record changed in one field is the record that differs in that field only.
LEMMA ExceptOne ==
  ASSUME NEW F, NEW f, f = [i \in F |-> f[i]], NEW g, g = [i \in F |-> g[i]],
         NEW k, \A i \in F : i # k => g[i] = f[i]
  PROVE  [f EXCEPT ![k] = g[k]] = g
OBVIOUS

\* The two updates of a story's dispute.
LEMMA DisputeUpdates ==
  ASSUME NEW s, NEW st, NEW st2, NEW v, NEW v2
  PROVE  /\ [StoryDispute(s, st, v) EXCEPT !.verdict = v2] = StoryDispute(s, st, v2)
         /\ [StoryDispute(s, st, v) EXCEPT !.status = st2] = StoryDispute(s, st2, v)
<1> DEFINE D(a, b) == StoryDispute(s, a, b)
           F == {"plaintiff", "defendant", "reason", "phase", "status", "verdict", "committee",
                 "committeeVotes", "fullVotes", "plaintiffEvidence", "defendantEvidence"}
<1>1. \A a, b : D(a, b) = [i \in F |-> D(a, b)[i]] /\ D(a, b).status = a /\ D(a, b).verdict = b
  BY DEF StoryDispute
<1>2. \A a, b, c : /\ \A i \in F : i # "verdict" => D(a, b)[i] = D(a, c)[i]
                   /\ \A i \in F : i # "status" => D(a, b)[i] = D(c, b)[i]
  BY DEF StoryDispute
<1> HIDE DEF D, F
<1>3. [D(st, v) EXCEPT !.verdict = D(st, v2).verdict] = D(st, v2)
  BY <1>1, <1>2, ExceptOne
<1>4. [D(st, v) EXCEPT !.status = D(st2, v).status] = D(st2, v)
  BY <1>1, <1>2, ExceptOne
<1> QED BY <1>1, <1>3, <1>4 DEF D

\* A story's dispute follows its steps.
LEMMA CourtKeep ==
  ASSUME StepsInv, CourtInv, [Next]_vars
  PROVE  CourtInv'
<1>1. step \in [Stories -> 1..11] /\ dispute = [i \in DOMAIN dispute |-> dispute[i]]
  BY DEF StepsInv, CourtInv
<1>2. ASSUME NEW s \in Stories, fileDispute(s) PROVE CourtInv'
  <2>1. Moves(s, 8)
    BY <1>2, StoryFrame
  <2>2. dispute' = [i \in DOMAIN dispute \cup {disputeID(s)} |->
                      IF i = disputeID(s)
                        THEN StoryDispute(s, "DISPUTE_FILED", [winner |-> Nobody, by |-> "nothing"])
                        ELSE dispute[i]]
    BY <1>2 DEF fileDispute, Court!fileDispute, Court!saveDispute, Court!Disputes, StoryDispute,
                StepNonce, disputeID
  <2>3. dispute' = [i \in DOMAIN dispute' |-> dispute'[i]] /\ DisputeOthersStay(s)
    BY <2>2, DisputeUpdate
  <2>4. DisputeIs(s, 9)'
    BY <2>2 DEF DisputeIs, DisputeAt
  <2> QED BY <2>1, <2>3, <2>4, DisputeMoves
<1>3. ASSUME NEW s \in Stories, autoResolve(s) PROVE CourtInv'
  <2>1. Moves(s, 9) /\ step[s] = 9
    BY <1>3, StoryFrame DEF Moves
  <2> DEFINE v == Court!RuleVerdict(Court!applyRules(dispute[disputeID(s)].reason))
  <2>2. disputeID(s) \in DOMAIN dispute
        /\ dispute' = [dispute EXCEPT ![disputeID(s)].verdict = v,
                                      ![disputeID(s)].status = "DISPUTE_AUTO_RESOLVED"]
    BY <1>3 DEF autoResolve, Court!autoResolveByRule
  <2> HIDE DEF v
  <2>3. dispute' = [dispute EXCEPT ![disputeID(s)] = [dispute[disputeID(s)] EXCEPT
                      !.verdict = v, !.status = "DISPUTE_AUTO_RESOLVED"]]
    BY <1>1, <2>2
  <2>4. dispute' = [i \in DOMAIN dispute' |-> dispute'[i]] /\ DisputeOthersStay(s)
    BY <2>3, DisputeUpdate
  <2>5. s \in Intact => DisputeIs(s, 10)'
    <3> SUFFICES ASSUME s \in Intact PROVE DisputeIs(s, 10)'
      OBVIOUS
    <3>1. dispute'[disputeID(s)] = [dispute[disputeID(s)] EXCEPT
            !.verdict = v, !.status = "DISPUTE_AUTO_RESOLVED"] /\ disputeID(s) \in DOMAIN dispute'
      BY <1>1, <2>2, <2>3
    <3>2. dispute[disputeID(s)] =
            StoryDispute(s, "DISPUTE_FILED", [winner |-> Nobody, by |-> "nothing"])
      BY <2>1 DEF CourtInv, DisputeIs, DisputeAt
    <3>3. dispute[disputeID(s)].reason = "quality"
      BY <3>2 DEF StoryDispute
    <3>4. v = [winner |-> "consumer", by |-> "rule"]
      BY <3>3 DEF v, Court!RuleVerdict, Court!applyRules
    <3> DEFINE none == [winner |-> Nobody, by |-> "nothing"]
    <3> HIDE DEF none
    <3>5. [StoryDispute(s, "DISPUTE_FILED", none) EXCEPT !.verdict = v] =
            StoryDispute(s, "DISPUTE_FILED", v)
      BY DisputeUpdates
    <3>6. [StoryDispute(s, "DISPUTE_FILED", v) EXCEPT !.status = "DISPUTE_AUTO_RESOLVED"] =
            StoryDispute(s, "DISPUTE_AUTO_RESOLVED", v)
      BY DisputeUpdates
    <3>7. dispute'[disputeID(s)] = StoryDispute(s, "DISPUTE_AUTO_RESOLVED", v)
      BY <3>1, <3>2, <3>5, <3>6 DEF none
    <3> QED BY <3>1, <3>4, <3>7 DEF DisputeIs, DisputeAt
  <2> QED BY <2>1, <2>4, <2>5, DisputeMoves
<1>4. ASSUME dispute' = dispute, NEW s \in Stories, NEW k \in (1..10) \ {8, 9}, Moves(s, k)
      PROVE  CourtInv'
  <2>1. k \in 1..10 /\ k \notin {8, 9} /\ step[s] = k
    BY <1>4 DEF Moves
  <2>2. k + 1 > 8 => k > 8 /\ DisputeAt(s, k + 1) = DisputeAt(s, k)
    BY <2>1 DEF DisputeAt
  <2>3. s \in Intact => DisputeIs(s, k + 1)'
    <3>1. s \in Intact => DisputeIs(s, k)
      BY <2>1 DEF CourtInv
    <3> QED BY <1>4, <2>2, <3>1 DEF DisputeIs
  <2>4. dispute' = [i \in DOMAIN dispute' |-> dispute'[i]] /\ DisputeOthersStay(s)
    BY <1>1, <1>4 DEF DisputeOthersStay
  <2> QED BY <1>4, <2>1, <2>3, <2>4, DisputeMoves
<1>5. CASE step' = step /\ touched' = touched /\ dispute' = dispute
  BY <1>5 DEF CourtInv, DisputeIs, Intact
<1>6. ASSUME NEW s \in Stories, StoryStep(s) PROVE CourtInv'
  BY <1>2, <1>3, <1>4, <1>6, StoryFrame DEF StoryStep
<1>7. ASSUME NEW s \in Stories, OthersStep(s) PROVE CourtInv'
  <2>1. step' = step /\ touched' = touched \cup {s} /\ (OthersArbitrate(s) \/ dispute' = dispute)
    BY <1>7, OthersFrame
  <2>2. CASE dispute' = dispute
    <3>1. dispute' = [i \in DOMAIN dispute' |-> dispute'[i]] /\ DisputeOthersStay(s)
      BY <1>1, <2>2 DEF DisputeOthersStay
    <3> QED BY <2>1, <3>1, DisputeTouched
  <2>3. CASE OthersArbitrate(s)
    <3>1. \E r : \/ dispute' = [i \in DOMAIN dispute \cup {disputeID(s)} |->
                                  IF i = disputeID(s) THEN r ELSE dispute[i]]
                 \/ dispute' = [dispute EXCEPT ![disputeID(s)] = r]
      <4>1. ASSUME Court!fileDispute(disputeID(s), Rival, Provider(s), "quality")
            PROVE  \E r : dispute' = [i \in DOMAIN dispute \cup {disputeID(s)} |->
                                        IF i = disputeID(s) THEN r ELSE dispute[i]]
        BY <4>1 DEF Court!fileDispute, Court!saveDispute, Court!Disputes
      <4>2. ASSUME Court!appealRule(disputeID(s)) \/ Court!executeVerdict(disputeID(s))
            PROVE  \E r : dispute' = [dispute EXCEPT ![disputeID(s)] = r]
        BY <4>2 DEF Court!appealRule, Court!executeVerdict
      <4>3. ASSUME Court!autoResolveByRule(disputeID(s)), disputeID(s) \in DOMAIN dispute
            PROVE  \E r : dispute' = [dispute EXCEPT ![disputeID(s)] = r]
        <5>1. PICK x, y : dispute' = [dispute EXCEPT ![disputeID(s)].verdict = x,
                                                     ![disputeID(s)].status = y]
          BY <4>3 DEF Court!autoResolveByRule
        <5>2. dispute' = [dispute EXCEPT ![disputeID(s)] =
                            [dispute[disputeID(s)] EXCEPT !.verdict = x, !.status = y]]
          BY <1>1, <4>3, <5>1
        <5> QED BY <5>2
      <4> QED BY <2>3, <4>1, <4>2, <4>3 DEF OthersArbitrate
    <3>2. dispute' = [i \in DOMAIN dispute' |-> dispute'[i]] /\ DisputeOthersStay(s)
      BY <3>1, DisputeUpdate
    <3> QED BY <2>1, <3>2, DisputeTouched
  <2> QED BY <2>1, <2>2, <2>3
<1>8. CASE DemoStep \/ (\E l \in RivalIds, p \in RivalPrices : RivalLists(l, p)) \/ EmptyBlock
           \/ BlockEnds \/ UNCHANGED vars
  <2>1. step' = step /\ touched' = touched /\ dispute' = dispute
    BY <1>8 DEF DemoStep, runDemoStep, RivalLists, EmptyBlock, BlockEnds, vars, otherVars
  <2> QED BY <1>5, <2>1
<1> QED BY <1>6, <1>7, <1>8 DEF Next

-----------------------------------------------------------------------------
\* An update of a capability of the demonstration.
LEMMA CapUpdates ==
  ASSUME NEW h, NEW sc, NEW d, NEW p, NEW st, NEW st2
  PROVE  [DemoCap(h, sc, d, p, st) EXCEPT !.status = st2] = DemoCap(h, sc, d, p, st2)
<1> DEFINE D(a) == DemoCap(h, sc, d, p, a)
           F == {"issuer", "holder", "capType", "scopes", "expiresAt", "maxUses", "usedCount",
                 "delegatable", "maxDepth", "curDepth", "parent", "status"}
<1>1. \A a : D(a) = [i \in F |-> D(a)[i]] /\ D(a).status = a
  BY DEF DemoCap
<1>2. \A a, b : \A i \in F : i # "status" => D(a)[i] = D(b)[i]
  <2>1. \A a, b : \A i \in F \ {"delegatable"} : i # "status" => D(a)[i] = D(b)[i]
    BY DEF DemoCap
  <2>2. \A a : D(a)["delegatable"] = TRUE
    BY Zenon DEF DemoCap
  <2> HIDE DEF D, F
  <2> QED BY <2>1, <2>2
<1> HIDE DEF D, F
<1>3. [D(st) EXCEPT !.status = D(st2).status] = D(st2)
  BY <1>1, <1>2, ExceptOne
<1> QED BY <1>1, <1>3 DEF D

\* The capabilities of the demonstration may be delegated.
LEMMA CapIsDelegatable ==
  \A h, sc, d, p, st : DemoCap(h, sc, d, p, st).delegatable = TRUE
BY Zenon DEF DemoCap

\* A capability that never expires is not due.
LEMMA NothingDue ==
  ASSUME \A i \in DOMAIN utxo : utxo[i].expiresAt = 0, utxo = [i \in DOMAIN utxo |-> utxo[i]],
         NEW t
  PROVE  Caps!ExpireAtTime(t) = utxo
<1>1. Caps!Due(t) = {}
  BY DEF Caps!Due, Caps!Live, Caps!Stored
<1>2. Caps!ClosedSet({}, {}, Caps!Live)
  BY DEF Caps!ClosedSet
<1>3. Caps!Cascade({}) = {}
  BY <1>2 DEF Caps!Cascade, Caps!Reach
<1> QED BY <1>1, <1>3 DEF Caps!ExpireAtTime, Caps!WithStatus, Caps!Stored

\* The capabilities follow the steps of their demonstration: the revocation of the
\* first cascades to the second, and the end of a block expires neither.
LEMMA CapsKeep ==
  ASSUME StepsInv, CapsInv, [Next]_vars
  PROVE  CapsInv'
<1> DEFINE P == ParentUTXOID
           C == ChildUTXOID
           Parent(st) == DemoCap(Holder, {"read", "write"}, 0, None, st)
           Child(st) == DemoCap(DelegateKey, {"read"}, 1, P, st)
<1>1. P # C /\ demo \in 1..4
  BY DEF ParentUTXOID, ChildUTXOID, StepsInv
<1> HIDE DEF P, C
<1>2. ASSUME runDemoStep(1, Issuer, 0),
             Caps!Mint(Issuer, [holder |-> Holder, capType |-> "text_generation",
                                scopes |-> {"read", "write"}, expiresAt |-> 0, maxUses |-> 0,
                                delegatable |-> TRUE, maxDepth |-> 3])
      PROVE  CapsInv'
  <2>1. demo = 1 /\ demo' = 2
    BY <1>2 DEF runDemoStep
  <2>2. DOMAIN utxo = {} /\ derive = {}
    BY <2>1 DEF CapsInv, ParentUTXOID, ChildUTXOID
  <2>3. /\ utxo' = [i \in {P} |-> Parent("UTXO_UNSPENT")]
        /\ derive' = derive
    BY <1>2, <2>2 DEF Caps!Mint, Caps!FreshID, Caps!saveUTXO, Caps!Stored, DemoCap, P
  <2> QED BY <1>1, <2>1, <2>2, <2>3 DEF CapsInv, P, C
<1>3. ASSUME runDemoStep(2, Holder, 0),
             Caps!Delegate(Holder, ParentUTXOID,
               [newHolder |-> DelegateKey, scopes |-> {"read"}, expiresAt |-> 0, maxUses |-> 0])
      PROVE  CapsInv'
  <2>1. demo = 2 /\ demo' = 3
    BY <1>3 DEF runDemoStep
  <2>2. DOMAIN utxo = {P} /\ utxo[P] = Parent("UTXO_UNSPENT") /\ derive = {}
    BY <1>1, <2>1 DEF CapsInv, P, C
  <2>3. /\ utxo[P].issuer = Issuer /\ utxo[P].capType = "text_generation"
        /\ utxo[P].expiresAt = 0 /\ utxo[P].maxUses = 0 /\ utxo[P].maxDepth = 3
        /\ utxo[P].curDepth = 0
    BY <2>2 DEF DemoCap
  <2>4. utxo[P].delegatable = TRUE
    BY <2>2, CapIsDelegatable
  <2>5. /\ utxo' = [i \in {P, C} |-> IF i = C THEN Child("UTXO_UNSPENT") ELSE utxo[i]]
        /\ derive' = {<<P, C>>}
    <3>1. PICK id \in Caps!FreshID({ChildUTXOID}) :
            /\ utxo' = Caps!saveUTXO(id,
                 [issuer |-> utxo[P].issuer, holder |-> DelegateKey, capType |-> utxo[P].capType,
                  scopes |-> {"read"}, expiresAt |-> Caps!OrInherit(0, utxo[P].expiresAt),
                  maxUses |-> Caps!OrInherit(0, utxo[P].maxUses), usedCount |-> 0,
                  delegatable |-> utxo[P].delegatable, maxDepth |-> utxo[P].maxDepth,
                  curDepth |-> utxo[P].curDepth + 1, parent |-> P, status |-> "UTXO_UNSPENT"])
            /\ derive' = derive \cup {<<P, id>>}
      BY <1>3 DEF Caps!Delegate, P
    <3>2. id = C
      BY <3>1 DEF Caps!FreshID, C
    <3>3. [issuer |-> utxo[P].issuer, holder |-> DelegateKey, capType |-> utxo[P].capType,
           scopes |-> {"read"}, expiresAt |-> Caps!OrInherit(0, utxo[P].expiresAt),
           maxUses |-> Caps!OrInherit(0, utxo[P].maxUses), usedCount |-> 0,
           delegatable |-> utxo[P].delegatable, maxDepth |-> utxo[P].maxDepth,
           curDepth |-> utxo[P].curDepth + 1, parent |-> P, status |-> "UTXO_UNSPENT"]
            = Child("UTXO_UNSPENT")
      <4>1. /\ Caps!OrInherit(0, utxo[P].expiresAt) = 0 /\ Caps!OrInherit(0, utxo[P].maxUses) = 0
            /\ utxo[P].curDepth + 1 = 1
        BY <2>3 DEF Caps!OrInherit
      <4> QED BY <2>3, <2>4, <4>1, Zenon DEF DemoCap
    <3> QED BY <2>2, <3>1, <3>2, <3>3 DEF Caps!saveUTXO, Caps!Stored
  <2> QED BY <1>1, <2>1, <2>2, <2>5 DEF CapsInv, P, C
<1>4. ASSUME runDemoStep(3, Issuer, 1), Caps!Revoke(Issuer, ParentUTXOID)
      PROVE  CapsInv'
  <2>1. demo = 3 /\ demo' = 4
    BY <1>4 DEF runDemoStep
  <2>2. /\ DOMAIN utxo = {P, C} /\ utxo[P] = Parent("UTXO_UNSPENT")
        /\ utxo[C] = Child("UTXO_UNSPENT") /\ derive = {<<P, C>>}
    BY <1>1, <2>1 DEF CapsInv, P, C
  <2>3. C \in Caps!Live
    BY <2>2 DEF Caps!Live, Caps!Stored, DemoCap
  <2>4. ASSUME NEW T \in SUBSET Caps!Stored, Caps!ClosedSet(T, {P}, Caps!Live)
        PROVE  P \in T /\ C \in T
    <3>1. P \in T
      BY <2>4 DEF Caps!ClosedSet
    <3>2. <<P, C>>[1] = P /\ <<P, C>>[2] = C /\ <<P, C>> \in derive
      BY <2>2
    <3>3. C \in T
      BY <2>3, <2>4, <3>1, <3>2 DEF Caps!ClosedSet
    <3> QED BY <3>1, <3>3
  <2>5. Caps!Cascade({P}) = {P, C}
    BY <2>2, <2>4 DEF Caps!Cascade, Caps!Reach, Caps!Stored
  <2>6. /\ utxo' = [i \in {P, C} |-> [utxo[i] EXCEPT !.status = "UTXO_REVOKED"]]
        /\ derive' = derive
    BY <1>4, <2>2, <2>5 DEF Caps!Revoke, Caps!WithStatus, Caps!Stored, P
  <2>7. /\ utxo'[P] = Parent("UTXO_REVOKED") /\ utxo'[C] = Child("UTXO_REVOKED")
        /\ utxo' = [i \in {P, C} |-> utxo'[i]]
    BY <2>2, <2>6, CapUpdates
  <2> QED BY <1>1, <2>1, <2>2, <2>6, <2>7 DEF CapsInv, P, C
<1>5. CASE BlockEnds
  <2>1. demo' = demo /\ derive' = derive /\ utxo' = Caps!ExpireAtTime(now)
    BY <1>5 DEF BlockEnds, Caps!EndBlock
  <2>2. utxo = [i \in DOMAIN utxo |-> utxo[i]] /\ DOMAIN utxo \subseteq {P, C}
        /\ (P \in DOMAIN utxo => demo > 1) /\ (C \in DOMAIN utxo => demo > 2)
    BY <1>1 DEF CapsInv, P, C
  <2>3. \A i \in DOMAIN utxo : utxo[i].expiresAt = 0
    BY <1>1, <2>2 DEF CapsInv, P, C, DemoCap
  <2> QED BY <2>1, <2>2, <2>3, NothingDue DEF CapsInv
<1>6. CASE UNCHANGED <<demo, utxo, derive>>
  BY <1>6 DEF CapsInv
<1>7. CASE (\E s \in Stories : StoryStep(s)) \/ EmptyBlock \/ UNCHANGED vars
           \/ (\E l \in RivalIds, p \in RivalPrices : RivalLists(l, p))
  <2>1. UNCHANGED <<demo, utxo, derive>>
    BY <1>7, StoryFrame DEF StoryStep, EmptyBlock, RivalLists, vars, capVars
  <2> QED BY <1>6, <2>1
<1>8. ASSUME NEW s \in Stories, OthersStep(s) PROVE CapsInv'
  <2>1. UNCHANGED <<demo, utxo, derive>>
    BY <1>8, OthersFrame DEF capVars
  <2> QED BY <1>6, <2>1
<1> QED BY <1>2, <1>3, <1>4, <1>5, <1>7, <1>8 DEF Next, DemoStep

-----------------------------------------------------------------------------
\* The demonstrations begin with empty stores and nonce 0.
LEMMA DemosInit ==
  ASSUME Init
  PROVE  StepsInv /\ EscrowInv /\ WorkInv /\ CourtInv /\ CapsInv
<1>1. step = [s \in Stories |-> 1] /\ demo = 1
  BY DEF Init
<1>2. \A s \in Stories : step[s] = 1
  BY <1>1
<1>3. StepsInv
  <2>1. nonce = [k \in StoryKeys \cup {Issuer, Holder} |-> 0] /\ open = FALSE
    BY DEF Init
  <2>2. \A s \in Stories : Provider(s) \in StoryKeys /\ Consumer(s) \in StoryKeys
    BY DEF StoryKeys
  <2>3. nonce \in [StoryKeys \cup {Issuer, Holder} -> Nat] /\ nonce[Issuer] = 0 /\ nonce[Holder] = 0
    BY <2>1
  <2>4. \A s \in Stories : /\ nonce[Provider(s)] = ProviderNonce(step[s])
                           /\ nonce[Consumer(s)] = ConsumerNonce(step[s])
    BY <1>1, <2>1, <2>2 DEF ProviderNonce, ConsumerNonce
  <2>5. step \in [Stories -> 1..11] /\ demo \in 1..4
    BY <1>1
  <2>6. open \in BOOLEAN
    BY <2>1
  <2> QED BY <1>1, <2>3, <2>4, <2>5, <2>6 DEF StepsInv
<1>4. EscrowInv
  <2>1. /\ escrow = [i \in {} |-> 0]
        /\ fundings = [i \in {escrowID(s) : s \in Stories} |-> 0]
        /\ settlements = [i \in {escrowID(s) : s \in Stories} |-> 0]
    BY DEF Init, Escrows!Init
  <2>2. EscrowShape
    BY <2>1 DEF EscrowShape
  <2>3. \A s \in Stories : fundings[escrowID(s)] = 0 /\ settlements[escrowID(s)] = 0
    BY <2>1
  <2>4. \A s \in Stories : EscrowIs(s, 1)
    BY <2>3 DEF EscrowIs, FundingsAt, SettlementsAt
  <2> QED BY <1>2, <2>2, <2>4 DEF EscrowInv, Intact
<1>5. WorkInv
  BY <1>2 DEF WorkInv, TaskIs, Intact, Init, Work!Init
<1>6. CourtInv
  BY <1>2 DEF CourtInv, DisputeIs, Intact, Init, Court!Init
<1>7. CapsInv
  BY <1>1 DEF CapsInv, Init, Caps!Init, ParentUTXOID
<1> QED BY <1>3, <1>4, <1>5, <1>6, <1>7

(***************************************************************************)
(* However many stories run at the same time, whatever is on the market    *)
(* and whatever other clients do to the records of other stories, a story  *)
(* that is through (main.go) and whose own records no other client wrote   *)
(* has its own task disputed, its own dispute decided for its consumer and *)
(* its own escrow funded once and refunded once; the caputxo demonstration *)
(* ends with both of its capabilities revoked.                             *)
(***************************************************************************)
THEOREM StoriesCorrect == Spec => []StoriesDoNotInterfere
<1> DEFINE I == StepsInv /\ EscrowInv /\ WorkInv /\ CourtInv /\ CapsInv
<1>1. Init => I
  BY DemosInit
<1>2. I /\ [Next]_vars => I'
  BY StepsKeep, EscrowKeep, WorkKeep, CourtKeep, CapsKeep
<1>3. I => StoriesDoNotInterfere
  <2> SUFFICES ASSUME I PROVE StoriesDoNotInterfere
    OBVIOUS
  <2>1. ASSUME NEW s \in Stories \ touched, step[s] = 11
        PROVE  /\ escrow[escrowID(s)].status = "ESCROW_REFUNDED"
               /\ fundings[escrowID(s)] = 1 /\ settlements[escrowID(s)] = 1
               /\ task[taskID(s)].status = "TASK_DISPUTED"
               /\ task[taskID(s)].provider = Provider(s)
               /\ dispute[disputeID(s)].status = "DISPUTE_AUTO_RESOLVED"
               /\ dispute[disputeID(s)].verdict.winner = "consumer"
               /\ dispute[disputeID(s)].plaintiff = Consumer(s)
    <3>1. EscrowIs(s, 11) /\ TaskIs(s, 11) /\ DisputeIs(s, 11)
      BY <2>1 DEF EscrowInv, WorkInv, CourtInv, Intact
    <3>2. /\ escrow[escrowID(s)] = EscrowAt(11)
          /\ fundings[escrowID(s)] = FundingsAt(11) /\ settlements[escrowID(s)] = SettlementsAt(11)
      BY <3>1 DEF EscrowIs
    <3>3. task[taskID(s)] = TaskAt(s, 11) /\ dispute[disputeID(s)] = DisputeAt(s, 11)
      BY <3>1 DEF TaskIs, DisputeIs
    <3>4. task[taskID(s)] = StoryTask(s, "TASK_DISPUTED", "poster-hash-v1", 1)
      BY <3>3 DEF TaskAt
    <3>5. dispute[disputeID(s)] =
            StoryDispute(s, "DISPUTE_AUTO_RESOLVED", [winner |-> "consumer", by |-> "rule"])
      BY <3>3 DEF DisputeAt
    <3>6. escrow[escrowID(s)].status = "ESCROW_REFUNDED"
      BY <3>2 DEF EscrowAt, StoryEscrow
    <3>7. fundings[escrowID(s)] = 1 /\ settlements[escrowID(s)] = 1
      BY <3>2 DEF FundingsAt, SettlementsAt
    <3>8. task[taskID(s)].status = "TASK_DISPUTED" /\ task[taskID(s)].provider = Provider(s)
      BY <3>4 DEF StoryTask
    <3>9. /\ dispute[disputeID(s)].status = "DISPUTE_AUTO_RESOLVED"
          /\ dispute[disputeID(s)].verdict.winner = "consumer"
          /\ dispute[disputeID(s)].plaintiff = Consumer(s)
      BY <3>5 DEF StoryDispute
    <3> QED BY <3>6, <3>7, <3>8, <3>9
  <2>2. demo = 4 => \A i \in {ParentUTXOID, ChildUTXOID} : utxo[i].status = "UTXO_REVOKED"
    <3>1. demo = 4 =>
            /\ utxo[ParentUTXOID] = DemoCap(Holder, {"read", "write"}, 0, None, "UTXO_REVOKED")
            /\ utxo[ChildUTXOID] = DemoCap(DelegateKey, {"read"}, 1, ParentUTXOID, "UTXO_REVOKED")
      BY DEF CapsInv
    <3> QED BY <3>1 DEF DemoCap
  <2> QED BY <2>1, <2>2 DEF StoriesDoNotInterfere
<1> QED BY <1>1, <1>2, <1>3, PTL DEF Spec

-----------------------------------------------------------------------------
(* Composition.  Every step of the demonstrations is a step of the modules *)
(* they drive, so what is proved of the modules holds of them together.    *)

(* The instances of the modules with their proofs: a theorem of theirs     *)
(* holds of the instance under the module's assumption on its constants.   *)

MarketProofs == INSTANCE AmxProofs WITH
  ListingIds <- Stories \cup RivalIds,
  OrderIds <- {NewOrderID(s, 0, l) : s \in Stories, l \in Stories \cup RivalIds},
  CapLists <- {<<"poster_design">>}, Required <- {{"poster_design"}},
  Currencies <- {"CNY"}, Prices <- RivalPrices \cup {199}, Budgets <- {299},
  Micro <- 1000000

EscrowsProofs == INSTANCE FiatProofs WITH
  EscrowIds <- {escrowID(s) : s \in Stories},
  Providers <- {Provider(s) : s \in Stories},
  Fees <- {19900}, BPS <- {1200}, Amounts <- {}, Sub <- 1,
  StarterMin <- 0, ProMin <- 0, EnterpriseMin <- 0, Unbonding <- 0,
  MaxFundings <- 1 + MaxForeign, MaxTotal <- 0, MaxDebt <- 0

WorkProofs == INSTANCE AapProofs WITH
  TaskIds <- {taskID(s) : s \in Stories}, Results <- {"poster-hash-v1", NoResult},
  RetryLimits <- {1}, Timestamps <- {0}, Timeout <- 180, MaxSeq <- 0,
  LastBeat <- 0, MaxFails <- 1 + MaxForeign

CourtProofs == INSTANCE ArbProofs WITH
  DisputeIds <- {disputeID(s) : s \in Stories}, Reasons <- {"quality"}, Ballots <- {},
  Committee <- [d \in {disputeID(s) : s \in Stories} |-> {}],
  MaxEvidence <- 0, MaxCommittee <- 0, MaxFull <- 0

CapsProofs == INSTANCE CapUTXOProofs WITH
  RootIds <- {ParentUTXOID}, ChildIds <- {ChildUTXOID},
  CapTypes <- {"text_generation"}, ScopeNames <- {"read", "write"},
  Expiries <- {0}, UseLimits <- {0}, Depths <- {3}, UseBound <- 0

\* A step of a module, in either instance, or none.
EscrowsStep ==
  [Escrows!Next]_(Escrows!vars) /\ [EscrowsProofs!Next]_(EscrowsProofs!vars)
WorkStep == [Work!Next]_(Work!vars) /\ [WorkProofs!Next]_(WorkProofs!vars)
CourtStep == [Court!Next]_dispute /\ [CourtProofs!Next]_dispute
CapsStep == [Caps!Next]_(Caps!vars) /\ [CapsProofs!Next]_(CapsProofs!vars)

\* fiat: stories create, fund and refund, others lock and release too; a block end
\* moves the clock.
LEMMA EscrowsRun ==
  ASSUME [Next]_vars
  PROVE  EscrowsStep
<1> USE DEF EscrowsStep
<1>1. ASSUME NEW s \in Stories, Escrows!createEscrow(escrowID(s), 19900, 1200, "CNY")
      PROVE  EscrowsStep
  <2>1. /\ escrowID(s) \in {escrowID(t) : t \in Stories}
        /\ "CNY" \in Escrows!Currencies /\ "CNY" \in EscrowsProofs!Currencies
    BY DEF Escrows!Currencies, EscrowsProofs!Currencies
  <2>2. EscrowsProofs!createEscrow(escrowID(s), 19900, 1200, "CNY")
    BY <1>1 DEF Escrows!createEscrow, EscrowsProofs!createEscrow, Escrows!ApplyBPS,
        EscrowsProofs!ApplyBPS, Escrows!EffectiveBPS, EscrowsProofs!EffectiveBPS, Escrows!Format8,
        EscrowsProofs!Format8, Escrows!RoundDiv, EscrowsProofs!RoundDiv, Escrows!Saved,
        EscrowsProofs!Saved, Escrows!history, EscrowsProofs!history, Escrows!signs,
        EscrowsProofs!signs
  <2>3. Escrows!Next /\ EscrowsProofs!Next
    BY <1>1, <2>1, <2>2 DEF Escrows!Next, EscrowsProofs!Next
  <2> QED BY <2>3
<1>2. ASSUME NEW i \in DOMAIN escrow,
             \/ Escrows!fundEscrow(i) \/ Escrows!lockEscrow(i)
             \/ Escrows!releaseEscrow(i) \/ Escrows!refundEscrow(i)
      PROVE  EscrowsStep
  <2> USE DEF Escrows!SetStatus, EscrowsProofs!SetStatus, Escrows!history, EscrowsProofs!history,
              Escrows!signs, EscrowsProofs!signs
  <2>1. Escrows!fundEscrow(i) => EscrowsProofs!fundEscrow(i)
    BY DEF Escrows!fundEscrow, EscrowsProofs!fundEscrow
  <2>2. Escrows!lockEscrow(i) => EscrowsProofs!lockEscrow(i)
    BY DEF Escrows!lockEscrow, EscrowsProofs!lockEscrow
  <2>3. Escrows!releaseEscrow(i) => EscrowsProofs!releaseEscrow(i)
    BY DEF Escrows!releaseEscrow, EscrowsProofs!releaseEscrow, Escrows!MaySettle,
        EscrowsProofs!MaySettle, Escrows!Held, EscrowsProofs!Held, Escrows!Settle,
        EscrowsProofs!Settle, Escrows!InsuranceShare, EscrowsProofs!InsuranceShare,
        Escrows!Format8, EscrowsProofs!Format8, Escrows!RoundDiv, EscrowsProofs!RoundDiv
  <2>4. Escrows!refundEscrow(i) => EscrowsProofs!refundEscrow(i)
    BY DEF Escrows!refundEscrow, EscrowsProofs!refundEscrow, Escrows!MaySettle,
        EscrowsProofs!MaySettle, Escrows!Held, EscrowsProofs!Held, Escrows!Settle,
        EscrowsProofs!Settle
  <2>5. Escrows!Next /\ EscrowsProofs!Next
    BY <1>2, <2>1, <2>2, <2>3, <2>4 DEF Escrows!Next, EscrowsProofs!Next
  <2> QED BY <2>5
<1>3. ASSUME NEW s \in Stories, OthersStep(s) PROVE EscrowsStep
  <2>1. CASE UNCHANGED <<fiatVars, now>>
    BY <2>1 DEF fiatVars, Escrows!vars, EscrowsProofs!vars, Escrows!history,
        EscrowsProofs!history, Escrows!signs, EscrowsProofs!signs
  <2>2. CASE OthersSettle(s)
    BY <1>1, <1>2, <2>2 DEF OthersSettle
  <2> QED BY <1>3, <2>1, <2>2, OthersFrame
<1>4. CASE BlockEnds
  <2>1. Escrows!EndBlock
    BY <1>4 DEF BlockEnds
  <2>2. EscrowsProofs!EndBlock
    BY <2>1 DEF Escrows!EndBlock, EscrowsProofs!EndBlock, Escrows!storeVars,
        EscrowsProofs!storeVars, Escrows!history, EscrowsProofs!history, Escrows!signs,
        EscrowsProofs!signs
  <2> QED BY <2>1, <2>2 DEF Escrows!Next, EscrowsProofs!Next
<1>5. CASE UNCHANGED <<fiatVars, now>>
  BY <1>5 DEF fiatVars, Escrows!vars, EscrowsProofs!vars, Escrows!history,
      EscrowsProofs!history, Escrows!signs, EscrowsProofs!signs
<1>6. ASSUME NEW s \in Stories, StoryStep(s) PROVE EscrowsStep
  BY <1>1, <1>2, <1>5, <1>6, StoryFrame DEF StoryStep, createEscrow, fundEscrow, refundEscrow
<1>7. CASE DemoStep \/ (\E l \in RivalIds, p \in RivalPrices : RivalLists(l, p)) \/ EmptyBlock
           \/ UNCHANGED vars
  <2>1. UNCHANGED <<fiatVars, now>>
    BY <1>7 DEF DemoStep, runDemoStep, RivalLists, EmptyBlock, vars
  <2> QED BY <1>5, <2>1
<1> QED BY <1>3, <1>4, <1>6, <1>7 DEF Next

\* aap: stories create a task, submit its result and refuse it, others also sign,
\* accept and dispute it.
LEMMA WorkRuns ==
  ASSUME [Next]_vars
  PROVE  WorkStep
<1> USE DEF WorkStep
<1>1. ASSUME NEW s \in Stories, NEW p \in Actors, Work!createTask(taskID(s), p, 1)
      PROVE  WorkStep
  <2>1. taskID(s) \in {taskID(t) : t \in Stories}
    OBVIOUS
  <2>2. WorkProofs!createTask(taskID(s), p, 1)
    BY <1>1 DEF Work!createTask, WorkProofs!createTask, Work!saveTask, WorkProofs!saveTask,
        Work!Tasks, WorkProofs!Tasks
  <2>3. Work!Next /\ WorkProofs!Next
    BY <1>1, <2>1, <2>2 DEF Work!Next, WorkProofs!Next
  <2> QED BY <2>3
<1>2. ASSUME NEW s \in Stories, submitResult(s) PROVE WorkStep
  <2>1. Provider(s) \in Actors
    BY DEF Actors, StoryKeys
  <2>2. Work!submitResult(Provider(s), taskID(s), "poster-hash-v1") /\ taskID(s) \in DOMAIN task
    BY <1>2 DEF submitResult
  <2>3. WorkProofs!submitResult(Provider(s), taskID(s), "poster-hash-v1")
    BY <2>2 DEF Work!submitResult, WorkProofs!submitResult, Work!Resubmitted, WorkProofs!Resubmitted
  <2>4. Work!Next /\ WorkProofs!Next
    BY <2>1, <2>2, <2>3 DEF Work!Next, WorkProofs!Next, Work!Tasks, WorkProofs!Tasks
  <2> QED BY <2>4
<1>3. ASSUME NEW i \in DOMAIN task,
             \/ Work!signSLA(i) \/ Work!verifyPassed(i)
             \/ Work!verifyFailed(i) \/ Work!fileDispute(i)
      PROVE  WorkStep
  <2>1. Work!signSLA(i) => WorkProofs!signSLA(i)
    BY DEF Work!signSLA, WorkProofs!signSLA
  <2>2. Work!verifyPassed(i) => WorkProofs!verifyPassed(i)
    BY DEF Work!verifyPassed, WorkProofs!verifyPassed
  <2>3. Work!verifyFailed(i) => WorkProofs!verifyFailed(i)
    BY DEF Work!verifyFailed, WorkProofs!verifyFailed, Work!AfterFailure, WorkProofs!AfterFailure
  <2>4. Work!fileDispute(i) => WorkProofs!fileDispute(i)
    BY DEF Work!fileDispute, WorkProofs!fileDispute
  <2>5. Work!Next /\ WorkProofs!Next
    BY <1>3, <2>1, <2>2, <2>3, <2>4 DEF Work!Next, WorkProofs!Next, Work!Tasks, WorkProofs!Tasks
  <2> QED BY <2>5
<1>4. CASE BlockEnds
  <2>1. Work!EndBlock
    BY <1>4 DEF BlockEnds
  <2>2. WorkProofs!EndBlock
    BY <2>1 DEF Work!EndBlock, WorkProofs!EndBlock, Work!TimedOut, WorkProofs!TimedOut,
        Work!Tasks, WorkProofs!Tasks, Work!Overdue, WorkProofs!Overdue
  <2> QED BY <2>1, <2>2 DEF Work!Next, WorkProofs!Next
<1>5. CASE UNCHANGED <<aapVars, now>>
  BY <1>5 DEF aapVars, Work!vars, WorkProofs!vars
<1>6. ASSUME NEW s \in Stories, StoryStep(s) PROVE WorkStep
  <2>1. Provider(s) \in Actors
    BY DEF Actors, StoryKeys
  <2>2. createTask(s) => Work!createTask(taskID(s), Provider(s), 1)
    BY DEF createTask, taskID, StepNonce
  <2>3. verifyResult(s) => Work!verifyFailed(taskID(s)) /\ taskID(s) \in DOMAIN task
    BY DEF verifyResult
  <2> QED BY <1>1, <1>2, <1>3, <1>5, <1>6, <2>1, <2>2, <2>3, StoryFrame DEF StoryStep
<1>8. ASSUME NEW s \in Stories, OthersStep(s) PROVE WorkStep
  <2>1. CASE OthersWork(s)
    <3>1. Provider(s) \in Actors /\ Rival \in Actors
      BY DEF Actors, StoryKeys
    <3> QED BY <1>1, <1>3, <2>1, <3>1 DEF OthersWork
  <2> QED BY <1>5, <1>8, <2>1, OthersFrame
<1>7. CASE DemoStep \/ (\E l \in RivalIds, p \in RivalPrices : RivalLists(l, p)) \/ EmptyBlock
           \/ UNCHANGED vars
  <2>1. UNCHANGED <<aapVars, now>>
    BY <1>7 DEF DemoStep, runDemoStep, RivalLists, EmptyBlock, vars
  <2> QED BY <1>5, <2>1
<1> QED BY <1>4, <1>6, <1>7, <1>8 DEF Next

\* arb: stories file a dispute and have it decided by rule, others also appeal and
\* execute the verdict.
LEMMA CourtRuns ==
  ASSUME [Next]_vars
  PROVE  CourtStep
<1> USE DEF CourtStep
<1>1. ASSUME NEW s \in Stories, NEW a \in Actors,
             Court!fileDispute(disputeID(s), a, Provider(s), "quality")
      PROVE  CourtStep
  <2>1. disputeID(s) \in {disputeID(t) : t \in Stories} /\ Provider(s) \in Actors
    BY DEF Actors, StoryKeys
  <2>2. CourtProofs!fileDispute(disputeID(s), a, Provider(s), "quality")
    BY <1>1 DEF Court!fileDispute, CourtProofs!fileDispute, Court!saveDispute,
        CourtProofs!saveDispute, Court!Disputes, CourtProofs!Disputes
  <2>3. Court!Next /\ CourtProofs!Next
    BY <1>1, <2>1, <2>2 DEF Court!Next, CourtProofs!Next
  <2> QED BY <2>3
<1>2. ASSUME NEW i \in DOMAIN dispute,
             Court!autoResolveByRule(i) \/ Court!appealRule(i) \/ Court!executeVerdict(i)
      PROVE  CourtStep
  <2>1. Court!autoResolveByRule(i) => CourtProofs!autoResolveByRule(i)
    BY DEF Court!autoResolveByRule, CourtProofs!autoResolveByRule, Court!MayAutoResolve,
        CourtProofs!MayAutoResolve, Court!applyRules, CourtProofs!applyRules, Court!RuleVerdict,
        CourtProofs!RuleVerdict
  <2>2. Court!appealRule(i) => CourtProofs!appealRule(i)
    BY DEF Court!appealRule, CourtProofs!appealRule, Court!ToCommittee, CourtProofs!ToCommittee
  <2>3. Court!executeVerdict(i) => CourtProofs!executeVerdict(i)
    BY DEF Court!executeVerdict, CourtProofs!executeVerdict, Court!Executable,
        CourtProofs!Executable
  <2>4. Court!Next /\ CourtProofs!Next
    BY <1>2, <2>1, <2>2, <2>3 DEF Court!Next, CourtProofs!Next, Court!Disputes,
        CourtProofs!Disputes
  <2> QED BY <2>4
<1>3. CASE dispute' = dispute
  BY <1>3
<1>4. ASSUME NEW s \in Stories, StoryStep(s) PROVE CourtStep
  <2>1. Consumer(s) \in Actors
    BY DEF Actors, StoryKeys
  <2>2. fileDispute(s) => Court!fileDispute(disputeID(s), Consumer(s), Provider(s), "quality")
    BY DEF fileDispute, disputeID, StepNonce
  <2>3. autoResolve(s) => Court!autoResolveByRule(disputeID(s)) /\ disputeID(s) \in DOMAIN dispute
    BY DEF autoResolve
  <2> QED BY <1>1, <1>2, <1>3, <1>4, <2>1, <2>2, <2>3, StoryFrame DEF StoryStep
<1>6. ASSUME NEW s \in Stories, OthersStep(s) PROVE CourtStep
  <2>1. CASE OthersArbitrate(s)
    <3>1. Rival \in Actors
      BY DEF Actors
    <3> QED BY <1>1, <1>2, <2>1, <3>1 DEF OthersArbitrate
  <2> QED BY <1>3, <1>6, <2>1, OthersFrame
<1>5. CASE DemoStep \/ (\E l \in RivalIds, p \in RivalPrices : RivalLists(l, p)) \/ EmptyBlock
           \/ BlockEnds \/ UNCHANGED vars
  <2>1. dispute' = dispute
    BY <1>5 DEF DemoStep, runDemoStep, RivalLists, EmptyBlock, BlockEnds, vars
  <2> QED BY <1>3, <2>1
<1> QED BY <1>4, <1>5, <1>6 DEF Next

\* caputxo: the demonstration mints, delegates from what it minted and revokes it.
LEMMA CapsRun ==
  ASSUME StepsInv, CapsInv, [Next]_vars
  PROVE  CapsStep
<1> USE DEF CapsStep
<1>1. Issuer \in Actors /\ Holder \in Actors /\ DelegateKey \in Actors
  BY DEF Actors
<1>2. ASSUME NEW p, p = [holder |-> Holder, capType |-> "text_generation",
                         scopes |-> {"read", "write"}, expiresAt |-> 0, maxUses |-> 0,
                         delegatable |-> TRUE, maxDepth |-> 3],
             Caps!Mint(Issuer, p)
      PROVE  CapsStep
  <2>1. p \in Caps!MintPayload /\ p \in CapsProofs!MintPayload
    BY <1>1, <1>2 DEF Caps!MintPayload, CapsProofs!MintPayload
  <2>2. CapsProofs!Mint(Issuer, p)
    BY <1>2 DEF Caps!Mint, CapsProofs!Mint, Caps!FreshID, CapsProofs!FreshID, Caps!saveUTXO,
        CapsProofs!saveUTXO, Caps!Stored, CapsProofs!Stored
  <2>3. Caps!Next /\ CapsProofs!Next
    BY <1>1, <1>2, <2>1, <2>2 DEF Caps!Next, CapsProofs!Next
  <2> QED BY <2>3
<1>3. ASSUME NEW p, p = [newHolder |-> DelegateKey, scopes |-> {"read"}, expiresAt |-> 0,
                         maxUses |-> 0],
             demo = 2, Caps!Delegate(Holder, ParentUTXOID, p)
      PROVE  CapsStep
  <2>1. p \in Caps!DelegatePayload /\ p \in CapsProofs!DelegatePayload
    BY <1>1, <1>3 DEF Caps!DelegatePayload, CapsProofs!DelegatePayload
  <2>2. ParentUTXOID \in Caps!Stored /\ ParentUTXOID \in CapsProofs!Stored
    BY <1>3 DEF CapsInv, Caps!Stored, CapsProofs!Stored
  <2>3. CapsProofs!Delegate(Holder, ParentUTXOID, p)
    BY <1>3 DEF Caps!Delegate, CapsProofs!Delegate, Caps!MayDelegate, CapsProofs!MayDelegate,
        Caps!FreshID, CapsProofs!FreshID, Caps!saveUTXO, CapsProofs!saveUTXO, Caps!OrInherit,
        CapsProofs!OrInherit, Caps!Stored, CapsProofs!Stored
  <2>4. Caps!Next /\ CapsProofs!Next
    BY <1>1, <1>3, <2>1, <2>2, <2>3 DEF Caps!Next, CapsProofs!Next
  <2> QED BY <2>4
<1>4. ASSUME demo = 3, Caps!Revoke(Issuer, ParentUTXOID) PROVE CapsStep
  <2>1. ParentUTXOID \in Caps!Stored /\ ParentUTXOID \in CapsProofs!Stored
    BY <1>4 DEF CapsInv, Caps!Stored, CapsProofs!Stored
  <2>2. CapsProofs!Revoke(Issuer, ParentUTXOID)
    BY <1>4 DEF Caps!Revoke, CapsProofs!Revoke, Caps!WithStatus, CapsProofs!WithStatus,
        Caps!Cascade, CapsProofs!Cascade, Caps!Reach, CapsProofs!Reach, Caps!ClosedSet,
        CapsProofs!ClosedSet, Caps!Live, CapsProofs!Live, Caps!Stored, CapsProofs!Stored
  <2>3. Caps!Next /\ CapsProofs!Next
    BY <1>1, <1>4, <2>1, <2>2 DEF Caps!Next, CapsProofs!Next
  <2> QED BY <2>3
<1>5. CASE DemoStep
  BY <1>2, <1>3, <1>4, <1>5 DEF DemoStep, runDemoStep
<1>6. CASE BlockEnds
  <2>1. Caps!EndBlock
    BY <1>6 DEF BlockEnds
  <2>2. CapsProofs!EndBlock
    BY <2>1 DEF Caps!EndBlock, CapsProofs!EndBlock, Caps!ExpireAtTime, CapsProofs!ExpireAtTime,
        Caps!Due, CapsProofs!Due, Caps!WithStatus, CapsProofs!WithStatus, Caps!Cascade,
        CapsProofs!Cascade, Caps!Reach, CapsProofs!Reach, Caps!ClosedSet, CapsProofs!ClosedSet,
        Caps!Live, CapsProofs!Live, Caps!Stored, CapsProofs!Stored
  <2> QED BY <2>1, <2>2 DEF Caps!Next, CapsProofs!Next
<1>7. ASSUME UNCHANGED <<capVars, now>> PROVE CapsStep
  BY <1>7 DEF capVars, Caps!vars, CapsProofs!vars
\* A story leaves the capabilities alone.
<1>8. CASE (\E s \in Stories : StoryStep(s)) \/ EmptyBlock \/ UNCHANGED vars
           \/ (\E l \in RivalIds, p \in RivalPrices : RivalLists(l, p))
  <2>1. UNCHANGED <<capVars, now>>
    BY <1>8, StoryFrame DEF StoryStep, EmptyBlock, RivalLists, vars
  <2> QED BY <1>7, <2>1
<1>9. ASSUME NEW s \in Stories, OthersStep(s) PROVE CapsStep
  BY <1>7, <1>9, OthersFrame
<1> QED BY <1>5, <1>6, <1>8, <1>9 DEF Next

\* The instance with the proofs filters and chooses alike.
LEMMA SameChoice ==
  /\ Market!Candidates({"poster_design"}, "CNY", 299)
       = MarketProofs!Candidates({"poster_design"}, "CNY", 299)
  /\ \A C : Market!Best(C) = MarketProofs!Best(C)
<1>1. Market!Candidates({"poster_design"}, "CNY", 299)
        = MarketProofs!Candidates({"poster_design"}, "CNY", 299)
  BY DEF Market!Candidates, MarketProofs!Candidates, Market!Candidate, MarketProofs!Candidate,
      Market!capsContain, MarketProofs!capsContain, Market!ToSet, MarketProofs!ToSet,
      Market!exceedsBudget, MarketProofs!exceedsBudget, Market!Listings, MarketProofs!Listings
<1>2. \A C : Market!Best(C) = MarketProofs!Best(C)
  BY DEF Market!Best, MarketProofs!Best, Market!Score, MarketProofs!Score, Market!minMaxPrice,
      MarketProofs!minMaxPrice, Market!Min, MarketProofs!Min, Market!Max, MarketProofs!Max
<1> QED BY <1>1, <1>2

MarketStep == [Market!Next]_(Market!vars) /\ [MarketProofs!Next]_(MarketProofs!vars)

\* amx: stories and rivals list, and a story's request is matched with a listing
\* whose id is known, so the order's id is one of the market's.
LEMMA MarketRuns ==
  ASSUME MarketProofs!ListingInv, [Next]_vars
  PROVE  MarketStep
<1> USE DEF MarketStep
<1> DEFINE cand == Market!Candidates({"poster_design"}, "CNY", 299)
<1>1. ASSUME NEW a \in Actors, NEW l \in Stories \cup RivalIds, NEW p \in RivalPrices \cup {199},
             Market!createListing(a, l, <<"poster_design">>, "CNY", p)
      PROVE  MarketStep
  <2>1. MarketProofs!createListing(a, l, <<"poster_design">>, "CNY", p)
    BY <1>1 DEF Market!createListing, MarketProofs!createListing, Market!ListingID,
        MarketProofs!ListingID, Market!Indexed, MarketProofs!Indexed, Market!ToSet,
        MarketProofs!ToSet, Market!Stored, MarketProofs!Stored, Market!Listings,
        MarketProofs!Listings
  <2>2. Market!Next /\ MarketProofs!Next
    BY <1>1, <2>1 DEF Market!Next, MarketProofs!Next
  <2> QED BY <2>2
<1>2. ASSUME NEW s \in Stories, submitRequest(s) PROVE MarketStep
  <2> DEFINE o == NewOrderID(s, 0, Market!Best(cand))
  <2>1. Market!submitRequest(Consumer(s), o, {"poster_design"}, "CNY", 299)
    BY <1>2 DEF submitRequest, StepNonce
  <2>2. MarketProofs!submitRequest(Consumer(s), o, {"poster_design"}, "CNY", 299)
    BY <2>1, SameChoice DEF Market!submitRequest, MarketProofs!submitRequest, Market!Stored,
        MarketProofs!Stored, Market!Orders, MarketProofs!Orders
  <2>3. cand # {}
    BY <2>1 DEF Market!submitRequest
  <2>4. cand \subseteq MarketProofs!Listings /\ \A i \in cand : listing[i].price # BadPrice
    BY SameChoice DEF MarketProofs!Candidates, MarketProofs!Candidate, MarketProofs!exceedsBudget
  <2> HIDE DEF cand
  <2>5. MarketProofs!Listings \subseteq Stories \cup RivalIds
    BY DEF MarketProofs!ListingInv
  <2>6. \A i \in cand : listing[i].price \in RivalPrices \cup {199, BadPrice}
    BY <2>4 DEF MarketProofs!ListingInv, MarketProofs!Listing
  <2>7. \A i \in cand : listing[i].price \in Int
    <3>1. RivalPrices \subseteq Int /\ 199 \in Int
      BY DemosConstants
    <3> QED BY <2>4, <2>6, <3>1
  <2>8. MarketProofs!Best(cand) \in cand
    BY <2>3, <2>4, <2>7, DemosConstants, MarketProofs!BestIsUndominated, SMT
  <2>9. Market!Best(cand) \in Stories \cup RivalIds
    BY <2>4, <2>5, <2>8, SameChoice
  <2>10. o \in {NewOrderID(t, 0, l) : t \in Stories, l \in Stories \cup RivalIds}
    BY <2>9
  <2>11. Consumer(s) \in Actors
    BY DEF Actors, StoryKeys
  <2> HIDE DEF o
  <2>12. Market!Next /\ MarketProofs!Next
    BY <2>1, <2>2, <2>10, <2>11 DEF Market!Next, MarketProofs!Next
  <2> QED BY <2>12
<1>3. ASSUME NEW s \in Stories, createListing(s) PROVE MarketStep
  <2>1. Provider(s) \in Actors /\ listingID(s) \in Stories \cup RivalIds
    BY DEF Actors, StoryKeys, listingID
  <2> QED BY <1>1, <1>3, <2>1 DEF createListing
<1>4. ASSUME NEW l \in RivalIds, NEW p \in RivalPrices, RivalLists(l, p) PROVE MarketStep
  <2>1. Rival \in Actors
    BY DEF Actors
  <2> QED BY <1>1, <1>4, <2>1 DEF RivalLists
<1>5. CASE UNCHANGED amxVars
  BY <1>5 DEF amxVars, Market!vars, MarketProofs!vars
<1>6. ASSUME NEW s \in Stories, StoryStep(s) PROVE MarketStep
  BY <1>2, <1>3, <1>5, <1>6 DEF StoryStep, createEscrow, fundEscrow, createTask, submitResult,
      verifyResult, fileDispute, autoResolve, refundEscrow
<1>7. CASE DemoStep \/ EmptyBlock \/ BlockEnds \/ UNCHANGED vars
  <2>1. UNCHANGED amxVars
    BY <1>7 DEF DemoStep, runDemoStep, EmptyBlock, BlockEnds, vars
  <2> QED BY <1>5, <2>1
<1>8. ASSUME NEW s \in Stories, OthersStep(s) PROVE MarketStep
  BY <1>5, <1>8, OthersFrame
<1> QED BY <1>4, <1>6, <1>7, <1>8 DEF Next

\* The market's own invariant, from its proofs.
LEMMA MarketKeep ==
  /\ Init => MarketProofs!ListingInv
  /\ MarketProofs!ListingInv /\ [Next]_vars => MarketProofs!ListingInv'
<1>1. Init => MarketProofs!Init
  BY DEF Init, Market!Init, MarketProofs!Init
<1>2. Init => MarketProofs!ListingInv
  BY <1>1, DemosConstants, MarketProofs!ListingInit
<1>3. ASSUME MarketProofs!ListingInv, [Next]_vars PROVE MarketProofs!ListingInv'
  <2>1. [MarketProofs!Next]_(MarketProofs!vars)
    BY <1>3, MarketRuns DEF MarketStep
  <2> QED BY <1>3, <2>1, DemosConstants, MarketProofs!ListingStep
<1> QED BY <1>2, <1>3

\* The instance of a module and the one with its proofs both run.
LEMMA ModulesRun ==
  Spec => /\ Market!Spec /\ Escrows!Spec /\ Work!Spec /\ Court!Spec /\ Caps!Spec
          /\ MarketProofs!Spec /\ EscrowsProofs!Spec /\ CourtProofs!Spec /\ CapsProofs!Spec
<1> DEFINE I == StepsInv /\ CapsInv /\ MarketProofs!ListingInv
           Step == /\ [Market!Next]_(Market!vars) /\ [MarketProofs!Next]_(MarketProofs!vars)
                   /\ [Escrows!Next]_(Escrows!vars) /\ [EscrowsProofs!Next]_(EscrowsProofs!vars)
                   /\ [Work!Next]_(Work!vars)
                   /\ [Court!Next]_dispute /\ [CourtProofs!Next]_dispute
                   /\ [Caps!Next]_(Caps!vars) /\ [CapsProofs!Next]_(CapsProofs!vars)
<1>1. Init => I
  BY DemosInit, MarketKeep
<1>2. I /\ [Next]_vars => I'
  BY StepsKeep, CapsKeep, MarketKeep
<1>3. I /\ [Next]_vars => Step
  BY MarketRuns, EscrowsRun, WorkRuns, CourtRuns, CapsRun
     DEF MarketStep, EscrowsStep, WorkStep, CourtStep, CapsStep
<1>4. Init => Market!Init /\ Escrows!Init /\ Work!Init /\ Court!Init /\ Caps!Init
  BY DEF Init
<1>5. Init => MarketProofs!Init
  BY <1>4 DEF Market!Init, MarketProofs!Init
<1>6. Init => EscrowsProofs!Init
  BY <1>4 DEF Escrows!Init, EscrowsProofs!Init, Escrows!Currencies, EscrowsProofs!Currencies
<1>7. Init => CourtProofs!Init /\ CapsProofs!Init
  BY <1>4 DEF Court!Init, CourtProofs!Init, Caps!Init, CapsProofs!Init
<1> QED
  BY <1>1, <1>2, <1>3, <1>4, <1>5, <1>6, <1>7, PTL
     DEF Spec, Market!Spec, Escrows!Spec, Work!Spec, Court!Spec, Caps!Spec,
         MarketProofs!Spec, EscrowsProofs!Spec, CourtProofs!Spec, CapsProofs!Spec

(***************************************************************************)
(* The demonstrations (main.go) use the modules only through the modules'  *)
(* own operations: a run of any number of stories, of other clients and of *)
(* the caputxo demonstration is, for each of amx, fiat, aap, arb and       *)
(* caputxo, a run of that module alone, so every theorem about a module    *)
(* holds of it here too.                                                   *)
(***************************************************************************)
THEOREM StoriesDriveTheModules ==
  Spec => Market!Spec /\ Escrows!Spec /\ Work!Spec /\ Court!Spec /\ Caps!Spec
BY ModulesRun, PTL

(***************************************************************************)
(* What is proved of the modules in isolation therefore holds while the    *)
(* demonstrations interleave: every story's request gets an undominated    *)
(* match and its order names the owner of the listing, no escrow is paid   *)
(* out twice, every verdict has its ground, a delegated capability is no   *)
(* stronger than its parent and none is stranded by a revocation.          *)
(***************************************************************************)
THEOREM GuaranteesCarryOver ==
  Spec => /\ Market!NoBetterOffer /\ []Market!OrderNamesItsProvider
          /\ []Escrows!PaidOutOnce
          /\ []Court!VerdictHasGround
          /\ []Caps!NoAmplification /\ Caps!NoStrandedChild
<1>1. MarketProofs!Spec => MarketProofs!NoBetterOffer
  BY DemosConstants, MarketProofs!MatchCorrect
<1>2. MarketProofs!Spec => []MarketProofs!OrderNamesItsProvider
  BY DemosConstants, MarketProofs!ProviderCorrect
<1>3. EscrowsProofs!Spec => []EscrowsProofs!PaidOutOnce
  BY DemosConstants, EscrowsProofs!SettlementCorrect
<1>4. CourtProofs!Spec => []CourtProofs!VerdictHasGround
  BY DemosConstants, CourtProofs!VerdictsCorrect
<1>5. CapsProofs!Spec => []CapsProofs!NoAmplification
  BY DemosConstants, CapsProofs!AttenuationCorrect DEF CapsProofs!Ids
<1>6. CapsProofs!Spec => CapsProofs!NoStrandedChild
  BY DemosConstants, CapsProofs!NoChildStranded DEF CapsProofs!Ids
\* A property says the same in both instances of its module.
<1>7. MarketProofs!OrderNamesItsProvider => Market!OrderNamesItsProvider
  BY DEF Market!OrderNamesItsProvider, MarketProofs!OrderNamesItsProvider, Market!Orders,
      MarketProofs!Orders, Market!Listings, MarketProofs!Listings
<1>8. EscrowsProofs!PaidOutOnce => Escrows!PaidOutOnce
  BY DEF Escrows!PaidOutOnce, EscrowsProofs!PaidOutOnce, Escrows!Held, EscrowsProofs!Held
<1>9. CourtProofs!VerdictHasGround => Court!VerdictHasGround
  <2>1. \A v : Court!Plurality(v) = CourtProofs!Plurality(v)
    <3>1. \A S : Court!Cardinality(S) = CourtProofs!Cardinality(S)
      BY DEF Court!Cardinality, CourtProofs!Cardinality, Court!IsFiniteSet, CourtProofs!IsFiniteSet
    <3>2. \A v, b : Court!Count(v, b) = CourtProofs!Count(v, b)
      BY <3>1 DEF Court!Count, CourtProofs!Count
    <3> SUFFICES ASSUME NEW v PROVE Court!Plurality(v) = CourtProofs!Plurality(v)
      OBVIOUS
    <3> DEFINE voted == {v[i].vote : i \in DOMAIN v}
               best == {b \in voted : \A o \in voted : Court!Count(v, o) <= Court!Count(v, b)}
               bestP == {b \in voted : \A o \in voted :
                           CourtProofs!Count(v, o) <= CourtProofs!Count(v, b)}
    <3>3. best = bestP
      BY <3>2
    <3>4. /\ Court!Plurality(v) =
               IF Court!Cardinality(best) = 1 THEN CHOOSE b \in best : TRUE ELSE "tie"
          /\ CourtProofs!Plurality(v) =
               IF CourtProofs!Cardinality(bestP) = 1 THEN CHOOSE b \in bestP : TRUE ELSE "tie"
      BY DEF Court!Plurality, CourtProofs!Plurality
    <3> HIDE DEF best, bestP
    <3> QED BY <3>1, <3>3, <3>4
  <2> QED
    BY <2>1 DEF Court!VerdictHasGround, CourtProofs!VerdictHasGround, Court!Disputes,
        CourtProofs!Disputes, Court!RuleGround, CourtProofs!RuleGround, Court!CommitteeGround,
        CourtProofs!CommitteeGround, Court!FullGround, CourtProofs!FullGround, Court!RuleVerdict,
        CourtProofs!RuleVerdict, Court!applyRules, CourtProofs!applyRules, Court!simpleVerdict,
        CourtProofs!simpleVerdict
<1>10. CapsProofs!NoAmplification => Caps!NoAmplification
  BY DEF Caps!NoAmplification, CapsProofs!NoAmplification, Caps!Reach, CapsProofs!Reach,
      Caps!ClosedSet, CapsProofs!ClosedSet, Caps!Stored, CapsProofs!Stored
<1>11. MarketProofs!NoBetterOffer => Market!NoBetterOffer
  BY DEF Market!NoBetterOffer, MarketProofs!NoBetterOffer, Market!Dominates,
      MarketProofs!Dominates, Market!ToSet, MarketProofs!ToSet, Market!Orders,
      MarketProofs!Orders, Market!Listings, MarketProofs!Listings, Market!vars, MarketProofs!vars
<1>12. CapsProofs!NoStrandedChild => Caps!NoStrandedChild
  BY DEF Caps!NoStrandedChild, CapsProofs!NoStrandedChild, Caps!vars, CapsProofs!vars,
      Caps!EndBlock, CapsProofs!EndBlock, Caps!ExpireAtTime, CapsProofs!ExpireAtTime,
      Caps!Due, CapsProofs!Due, Caps!WithStatus, CapsProofs!WithStatus, Caps!Cascade,
      CapsProofs!Cascade, Caps!Reach, CapsProofs!Reach, Caps!ClosedSet, CapsProofs!ClosedSet,
      Caps!Live, CapsProofs!Live, Caps!Stored, CapsProofs!Stored
<1> QED
  BY <1>1, <1>2, <1>3, <1>4, <1>5, <1>6, <1>7, <1>8, <1>9, <1>10, <1>11, <1>12, ModulesRun, PTL

-----------------------------------------------------------------------------
(* No step of a demonstration is refused that others leave alone.          *)

\* A story's own listing stays as it is and no order takes its order's id.
LEMMA MarketInvKeep ==
  ASSUME StepsInv, MarketInv, [Next]_vars
  PROVE  MarketInv'
<1>1. step \in [Stories -> 1..11]
  BY DEF StepsInv
<1>2. ASSUME NEW s \in Stories, NEW k \in 3..10, Moves(s, k), UNCHANGED amxVars
      PROVE  MarketInv'
  <2>1. Past(1)' = Past(1) /\ Past(2)' = Past(2)
    BY <1>1, <1>2, MovesFacts
  <2> QED BY <1>2, <2>1 DEF MarketInv, amxVars
<1>3. ASSUME NEW s \in Stories, createListing(s) PROVE MarketInv'
  <2>1. Moves(s, 1)
    BY <1>3, StoryFrame
  <2>2. Past(1)' = Past(1) \cup {s} /\ Past(2)' = Past(2)
    BY <1>1, <2>1, MovesFacts
  <2>3. listing' = Market!Stored(listing, s, StoryListing(s)) /\ order' = order
    BY <1>3 DEF createListing, Market!createListing, StoryListing, listingID
  <2>4. /\ DOMAIN listing' = DOMAIN listing \cup {s} /\ listing'[s] = StoryListing(s)
        /\ \A i \in DOMAIN listing : i # s => listing'[i] = listing[i]
    BY <2>3 DEF Market!Stored
  <2>5. /\ \A t \in Stories : t \in DOMAIN listing' <=> t \in Past(1)'
        /\ \A o \in DOMAIN order' : o[1] \in Past(2)'
    BY <2>2, <2>3, <2>4 DEF MarketInv
  <2>6. \A t \in Past(1)' : listing'[t] = StoryListing(t)
    <3>1. \A t \in Past(1) : t \in DOMAIN listing /\ listing[t] = StoryListing(t)
      BY DEF MarketInv, Past
    <3> QED BY <2>2, <2>4, <3>1
  <2> QED BY <2>5, <2>6 DEF MarketInv, StoryListing
<1>4. ASSUME NEW s \in Stories, submitRequest(s) PROVE MarketInv'
  <2>1. Moves(s, 2)
    BY <1>4, StoryFrame
  <2>2. Past(1)' = Past(1) /\ Past(2)' = Past(2) \cup {s}
    BY <1>1, <2>1, MovesFacts
  <2>3. PICK l, r : order' = Market!Stored(order, NewOrderID(s, 0, l), r) /\ listing' = listing
    BY <1>4 DEF submitRequest, Market!submitRequest, StepNonce
  <2>4. DOMAIN order' = DOMAIN order \cup {NewOrderID(s, 0, l)} /\ NewOrderID(s, 0, l)[1] = s
    BY <2>3 DEF Market!Stored, NewOrderID
  <2> QED BY <2>2, <2>3, <2>4 DEF MarketInv
<1>5. ASSUME NEW s \in Stories, StoryStep(s) PROVE MarketInv'
  BY <1>2, <1>3, <1>4, <1>5, StoryFrame DEF StoryStep
<1>6. ASSUME NEW l \in RivalIds, NEW p \in RivalPrices, RivalLists(l, p) PROVE MarketInv'
  <2>1. PICK r : listing' = Market!Stored(listing, l, r) /\ order' = order /\ step' = step
    BY <1>6 DEF RivalLists, Market!createListing
  <2>2. /\ DOMAIN listing' = DOMAIN listing \cup {l}
        /\ \A i \in DOMAIN listing : i # l => listing'[i] = listing[i]
    BY <2>1 DEF Market!Stored
  <2>3. l \notin Stories
    BY DemosConstants
  <2> QED BY <2>1, <2>2, <2>3 DEF MarketInv, Past
<1>7. CASE UNCHANGED <<step, amxVars>>
  BY <1>7 DEF MarketInv, Past, amxVars
<1>8. CASE DemoStep \/ EmptyBlock \/ BlockEnds \/ UNCHANGED vars
  <2>1. UNCHANGED <<step, amxVars>>
    BY <1>8 DEF DemoStep, runDemoStep, EmptyBlock, BlockEnds, vars
  <2> QED BY <1>7, <2>1
<1>9. ASSUME NEW s \in Stories, OthersStep(s) PROVE MarketInv'
  BY <1>7, <1>9, OthersFrame
<1> QED BY <1>5, <1>6, <1>8, <1>9 DEF Next

\* A story that has listed finds a candidate, its own listing at least, and the
\* order is made under an id of its own, whichever listing is the best.
LEMMA RequestIsAccepted ==
  ASSUME StepsInv, MarketInv, NEW s \in Stories, step[s] = 2
  PROVE  /\ Market!Candidates({"poster_design"}, "CNY", 299) # {}
         /\ \A l : NewOrderID(s, 0, l) \notin DOMAIN order
<1>1. s \in Past(1) /\ s \notin Past(2)
  BY DEF Past
<1>2. s \in DOMAIN listing /\ listing[s] = StoryListing(s)
  BY <1>1 DEF MarketInv
<1>3. /\ listing[s].status = "LISTING_ACTIVE" /\ listing[s].currency = "CNY"
      /\ listing[s].caps = <<"poster_design">> /\ listing[s].price = 199
  BY <1>2 DEF StoryListing
<1>4. Market!capsContain(<<"poster_design">>, {"poster_design"})
  BY DEF Market!capsContain, Market!ToSet
<1>5. ~Market!exceedsBudget(199, 299)
  BY DemosConstants DEF Market!exceedsBudget
<1>6. Market!Candidate(listing[s], {"poster_design"}, "CNY", 299)
  BY <1>3, <1>4, <1>5 DEF Market!Candidate
<1>7. s \in Market!Candidates({"poster_design"}, "CNY", 299)
  BY <1>2, <1>6 DEF Market!Candidates, Market!Listings
<1>8. \A l : NewOrderID(s, 0, l)[1] = s
  BY DEF NewOrderID
<1> QED BY <1>1, <1>7, <1>8 DEF MarketInv

\* Step by step, what the invariant says of a story is what its block asks.
LEMMA StoryAccepted ==
  ASSUME DemosInv, NEW s \in Intact
  PROVE  StoryIsAccepted(s)
<1> s \in Stories
  BY DEF Intact
<1>1. step[s] \in 1..11 /\ 1 <= 1 + MaxForeign
  BY DemosConstants DEF DemosInv, StepsInv
<1>2. step[s] <= 10 =>
        nonce[IF step[s] \in {1, 6} THEN Provider(s) ELSE Consumer(s)] = StepNonce[step[s]]
  <2>1. nonce[Provider(s)] = ProviderNonce(step[s]) /\ nonce[Consumer(s)] = ConsumerNonce(step[s])
    BY DEF DemosInv, StepsInv
  <2> QED BY <1>1, <2>1 DEF ProviderNonce, ConsumerNonce, StepNonce
<1>3. step[s] = 1 => Market!ListingID(Provider(s), listingID(s))
  <2>1. step[s] = 1 => s \notin DOMAIN listing
    BY DEF DemosInv, MarketInv, Past
  <2> QED BY <2>1 DEF Market!ListingID, Market!Listings, listingID
<1>4. ASSUME step[s] = 2
      PROVE  /\ Market!Candidates({"poster_design"}, "CNY", 299) # {}
             /\ \A l : NewOrderID(s, StepNonce[2], l) \notin DOMAIN order
  <2>1. StepNonce[2] = 0
    BY DEF StepNonce
  <2> QED BY <1>4, <2>1, RequestIsAccepted DEF DemosInv
<1>5. /\ step[s] \in {4, 10} => escrowID(s) \in DOMAIN escrow
      /\ step[s] = 4 => /\ escrow[escrowID(s)].status = "ESCROW_PENDING"
                        /\ fundings[escrowID(s)] < 1 + MaxForeign
      /\ step[s] = 10 => Escrows!MaySettle(escrow[escrowID(s)].status)
  <2>1. EscrowIs(s, step[s])
    BY DEF DemosInv, EscrowInv
  <2>2. step[s] \in {4, 10} =>
          escrowID(s) \in DOMAIN escrow /\ escrow[escrowID(s)] = EscrowAt(step[s])
    BY <2>1 DEF EscrowIs
  <2>3. EscrowAt(4).status = "ESCROW_PENDING" /\ EscrowAt(10).status = "ESCROW_FUNDED"
    BY DEF EscrowAt, StoryEscrow
  <2>4. step[s] = 4 => fundings[escrowID(s)] = 0
    BY <2>1 DEF EscrowIs, FundingsAt
  <2> QED BY <1>1, <2>2, <2>3, <2>4, DemosConstants DEF Escrows!MaySettle, Escrows!Held
<1>6. /\ step[s] \in {6, 7} => taskID(s) \in DOMAIN task
      /\ step[s] = 6 => task[taskID(s)].provider = Provider(s)
      /\ step[s] = 7 => /\ task[taskID(s)].status = "TASK_SUBMIT_RESULT"
                        /\ task[taskID(s)].retryCount < 1 + MaxForeign
  <2>1. TaskIs(s, step[s])
    BY DEF DemosInv, WorkInv
  <2>2. step[s] \in {6, 7} => taskID(s) \in DOMAIN task /\ task[taskID(s)] = TaskAt(s, step[s])
    BY <2>1 DEF TaskIs
  <2>3. /\ TaskAt(s, 6).provider = Provider(s)
        /\ TaskAt(s, 7).status = "TASK_SUBMIT_RESULT" /\ TaskAt(s, 7).retryCount = 0
    BY DEF TaskAt, StoryTask
  <2> QED BY <1>1, <2>2, <2>3, DemosConstants
<1>7. step[s] = 9 => /\ disputeID(s) \in DOMAIN dispute
                     /\ Court!MayAutoResolve(dispute[disputeID(s)].status)
                     /\ Court!applyRules(dispute[disputeID(s)].reason) # Nobody
  <2>1. DisputeIs(s, step[s])
    BY DEF DemosInv, CourtInv
  <2>2. step[s] = 9 => disputeID(s) \in DOMAIN dispute /\ dispute[disputeID(s)] = DisputeAt(s, 9)
    BY <2>1 DEF DisputeIs
  <2>3. DisputeAt(s, 9).status = "DISPUTE_FILED" /\ DisputeAt(s, 9).reason = "quality"
    BY DEF DisputeAt, StoryDispute
  <2>4. Court!applyRules("quality") = "consumer"
    BY DEF Court!applyRules
  <2>5. Nobody # "consumer"
    BY DemosConstants
  <2> QED BY <2>2, <2>3, <2>4, <2>5 DEF Court!MayAutoResolve
<1> QED BY <1>1, <1>2, <1>3, <1>4, <1>5, <1>6, <1>7 DEF StoryIsAccepted

\* The same of the caputxo demonstration.
LEMMA DemoAccepted ==
  ASSUME DemosInv
  PROVE  DemoIsAccepted
<1>1. /\ demo = 1 => nonce[Issuer] = 0
      /\ demo = 2 => nonce[Holder] = 0
      /\ demo = 3 => nonce[Issuer] = 1
  BY DEF DemosInv, StepsInv
<1>2. /\ demo = 1 => DOMAIN utxo = {}
      /\ demo = 2 => DOMAIN utxo = {ParentUTXOID}
  BY DEF DemosInv, CapsInv, ParentUTXOID, ChildUTXOID
<1>3. /\ demo = 1 => Caps!FreshID({ParentUTXOID}) # {}
      /\ demo = 2 => Caps!FreshID({ChildUTXOID}) # {}
  BY <1>2 DEF Caps!FreshID, Caps!Stored, ParentUTXOID, ChildUTXOID
<1> DEFINE p == [newHolder |-> DelegateKey, scopes |-> {"read"}, expiresAt |-> 0, maxUses |-> 0]
           u == DemoCap(Holder, {"read", "write"}, 0, None, "UTXO_UNSPENT")
<1>4. demo \in {2, 3} => utxo[ParentUTXOID] = u
  BY DEF DemosInv, CapsInv
<1>5. /\ u.holder = Holder /\ u.issuer = Issuer /\ u.maxDepth = 3 /\ u.curDepth = 0
      /\ u.scopes = {"read", "write"} /\ u.expiresAt = 0 /\ u.maxUses = 0
  BY DEF DemoCap
<1>6. u.delegatable
  BY Zenon DEF DemoCap
<1>7. p.scopes = {"read"}
  OBVIOUS
<1>8. Caps!MayDelegate(Holder, u, p)
  <2> HIDE DEF p, u
  <2> QED BY <1>5, <1>6, <1>7 DEF Caps!MayDelegate
<1> QED BY <1>1, <1>3, <1>4, <1>5, <1>8 DEF DemoIsAccepted

(***************************************************************************)
(* A story is never refused a step as long as no other client has written  *)
(* one of its own records, and the caputxo demonstration is never refused  *)
(* one: whatever other demonstrations, listings and transactions on other  *)
(* stories' records come between, the nonce and the ids main.go computed   *)
(* before the first step are what the chain and the modules ask for at     *)
(* every later one, and a request always finds a listing.  So a block of   *)
(* it can be finalized as soon as none is open; that it is finalized then  *)
(* is StoriesFinish.  Nothing is said of a story after another client's    *)
(* transaction on its records: since fiat checks no sender, a              *)
(* refund_escrow from anybody gets its tenth step refused.                 *)
(***************************************************************************)
THEOREM NoStepIsRefused ==
  Spec => [](DemoIsAccepted /\ \A s \in Stories \ touched : StoryIsAccepted(s))
<1>1. Init => DemosInv
  <2>1. Init => MarketInv
    BY DEF Init, Market!Init, MarketInv, Past
  <2> QED BY <2>1, DemosInit DEF DemosInv
<1>2. DemosInv /\ [Next]_vars => DemosInv'
  BY StepsKeep, MarketInvKeep, EscrowKeep, WorkKeep, CourtKeep, CapsKeep DEF DemosInv
<1>3. DemosInv => DemoIsAccepted /\ \A s \in Stories \ touched : StoryIsAccepted(s)
  BY StoryAccepted, DemoAccepted DEF Intact
<1> QED BY <1>1, <1>2, <1>3, PTL DEF Spec
=============================================================================
