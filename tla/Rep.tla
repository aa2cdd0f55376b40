-------------------------------- MODULE Rep --------------------------------
(***************************************************************************)
(* The reputation module, internal/modules/rep/module.go.                  *)
(*                                                                         *)
(* rep/s/<entity> holds a score of five parts and a total.  No handler     *)
(* checks its sender.  The scale (500, 1000, 100 and the divisor 50 of the *)
(* code) is a parameter; the deltas are the code's.                        *)
(*                                                                         *)
(* The total is a float64 sum of weighted parts, plus a half, truncated.   *)
(* The exact sum is a multiple of 1/20; when its fraction is exactly a     *)
(* half, the float sum may lie on either side of it, depending on the      *)
(* values and on whether the compiler fuses multiply and add (it does on   *)
(* arm64 and not on amd64): both roundings are possible outcomes.          *)
(***************************************************************************)
EXTENDS Integers

CONSTANTS
  Entities,    \* public keys of scored entities
  Updates,     \* update_reputation payloads, see UpdatePayload
  Overrides,   \* score in an override_score payload
  Epochs,      \* current_epoch in an apply_decay payload; 0 means the block's
  Base,        \* 500, every part of a new score
  Top,         \* 1000, the largest score
  Floor,       \* 100, what decay leaves at least
  DecayDiv,    \* 50, the part that decay takes away
  EpochWidth,  \* 2^64: epochs are uint64
  MaxTasks     \* bound: updates of one entity

UpdatePayload ==
  [result : {"SUCCESS", "FAILED", "DISPUTED_LOST", "DISPUTED_WON", "OTHER"},
   verifyOK : BOOLEAN, rating : Nat, compMS : Nat, slaMS : Nat, hbMiss : Nat]

ASSUME RepConstants ==
  /\ Updates \subseteq UpdatePayload
  /\ Overrides \subseteq Nat
  /\ EpochWidth \in Nat /\ EpochWidth > 4
  /\ Epochs \subseteq 0..(EpochWidth - 1)
  /\ Base \in Nat /\ Top \in Nat /\ Floor \in Nat /\ DecayDiv \in Nat \ {0}
  /\ Base <= Top /\ Floor <= Top
  /\ MaxTasks \in Nat

VARIABLES
  score,       \* rep/s/: partial function from Entities
  overridden,  \* history: whose total was last written by override_score
  decays,      \* history: how often each entity's score decayed
  rewound      \* history: whose score decayed at an epoch before its own

repVars == <<score, overridden, decays, rewound>>

Scored == DOMAIN score

Parts == {"quality", "timeliness", "reliability", "dispute", "network"}

ReputationScore ==
  [part : [Parts -> 0..Top], total : 0..Top, tasks : Nat, success : Nat,
   failed : Nat, disputed : Nat, updateEpoch : 0..(EpochWidth - 1)]

-----------------------------------------------------------------------------
clampU32(v, lo, hi) == IF v < lo THEN lo ELSE IF v > hi THEN hi ELSE v

\* Hundredths of the exact weighted sum.
Weighted(part) ==
  30 * part["quality"] + 25 * part["timeliness"] + 20 * part["reliability"]
    + 15 * part["dispute"] + 10 * part["network"]

\* The totals computeTotal may return: two at an exact half.
computeTotal(part) ==
  LET w == Weighted(part) IN
    {clampU32((w + 50) \div 100, 0, Top), clampU32((w + 49) \div 100, 0, Top)}

reliabilityDelta(missed) ==
  CASE missed = 0 -> 5
    [] missed \in 1..2 -> 2
    [] missed \in 3..5 -> -10
    [] OTHER -> -30

\* The branches on ratio(compMS, slaMS); without an SLA the ratio is 2.
TimelinessDelta(p) ==
  CASE p.slaMS > 0 /\ 2 * p.compMS <= p.slaMS -> 8
    [] p.slaMS < 2 * p.compMS /\ p.compMS <= p.slaMS -> 4
    [] p.slaMS < p.compMS /\ 2 * p.compMS <= 3 * p.slaMS -> -10
    [] OTHER -> -25

\* computeDeltas; the network part is never updated.
computeDeltas(p) ==
  LET delta(q, t, r, d) == [quality |-> q, timeliness |-> t, reliability |-> r,
                            dispute |-> d, network |-> 0]
      rel == reliabilityDelta(p.hbMiss)
  IN  CASE p.result = "SUCCESS" ->
             delta(IF p.verifyOK THEN 2 * clampU32(p.rating, 1, 5) ELSE 0,
                   TimelinessDelta(p), rel, 3)
        [] p.result = "FAILED" -> delta(-30, -25, rel - 15, 0)
        [] p.result = "DISPUTED_LOST" -> delta(-50, -25, rel, -60)
        [] p.result = "DISPUTED_WON" -> delta(5, -25, rel, 0)
        [] OTHER -> delta(0, 0, 0, 0)

\* A part below the floor is lifted to it.
decayScore(v) ==
  LET d == v - v \div DecayDiv IN IF d < Floor THEN Floor ELSE d

defaultScore ==
  [part |-> [k \in Parts |-> Base], total |-> Base, tasks |-> 0, success |-> 0,
   failed |-> 0, disputed |-> 0, updateEpoch |-> 0]

loadScore(e) == IF e \in Scored THEN score[e] ELSE defaultScore

saveScore(e, s) == [i \in Scored \cup {e} |-> IF i = e THEN s ELSE score[i]]

-----------------------------------------------------------------------------
RepInit ==
  /\ score = [i \in {} |-> 0]
  /\ overridden = {}
  /\ decays = [e \in Entities |-> 0]
  /\ rewound = {}

Counted(s, result) ==
  [s EXCEPT !.tasks = @ + 1,
            !.success = IF result = "SUCCESS" THEN @ + 1 ELSE @,
            !.failed = IF result = "FAILED" THEN @ + 1 ELSE @,
            !.disputed = IF result \in {"DISPUTED_LOST", "DISPUTED_WON"} THEN @ + 1 ELSE @]

\* The epoch of the score is left alone.
updateReputation(e, p) ==
  LET s == loadScore(e)
      part == [k \in Parts |-> clampU32(s.part[k] + computeDeltas(p)[k], 0, Top)]
  IN  /\ s.tasks < MaxTasks
      /\ \E total \in computeTotal(part) :
           score' = saveScore(e, [Counted(s, p.result) EXCEPT !.part = part, !.total = total])
      /\ overridden' = overridden \ {e}
      /\ UNCHANGED <<decays, rewound>>

\* A test that lets one epoch too few pass.
DueEarly(epoch, updateEpoch) == (epoch - updateEpoch) % EpochWidth >= 3

\* The subtraction is one of uint64: an earlier epoch wraps to a large number.
Due(epoch, updateEpoch) == (epoch - updateEpoch) % EpochWidth >= 4

\* A decay that keeps the total it finds.
DecayedKeepsTotal(s, epoch) ==
  {[s EXCEPT !.part = [k \in Parts |-> decayScore(s.part[k])], !.updateEpoch = epoch]}

Decayed(s, epoch) ==
  LET part == [k \in Parts |-> decayScore(s.part[k])] IN
    {[s EXCEPT !.part = part, !.total = total, !.updateEpoch = epoch] :
       total \in computeTotal(part)}

\* blockEpoch is height / 1000.
applyDecay(current, blockEpoch) ==
  LET epoch == IF current = 0 THEN blockEpoch ELSE current
      due == {e \in Scored : Due(epoch, score[e].updateEpoch)}
  IN  /\ score' \in {f \in [Scored -> UNION {Decayed(score[e], epoch) \cup {score[e]} : e \in Scored}] :
           \A e \in Scored : IF e \in due THEN f[e] \in Decayed(score[e], epoch) ELSE f[e] = score[e]}
      /\ overridden' = overridden \ due
      /\ decays' = [e \in Entities |-> IF e \in due THEN decays[e] + 1 ELSE decays[e]]
      /\ rewound' = rewound \cup {e \in due : epoch < score[e].updateEpoch}

CappedOverride(v) == IF v > Top THEN Top ELSE v

\* Only the total: the next update or decay computes it from the parts again.
overrideScore(e, v) ==
  /\ score' = saveScore(e, [loadScore(e) EXCEPT !.total = CappedOverride(v)])
  /\ overridden' = overridden \cup {e}
  /\ UNCHANGED <<decays, rewound>>

RepNext(blockEpoch) ==
  \/ \E e \in Entities, p \in Updates : updateReputation(e, p)
  \/ \E c \in Epochs : applyDecay(c, blockEpoch)
  \/ \E e \in Entities, v \in Overrides : overrideScore(e, v)

-----------------------------------------------------------------------------
(***************************************************************************)
(* Types and ranges: no delta, decay or override takes a part or a total   *)
(* out of 0..Top.                                                          *)
(***************************************************************************)
RepTypeOK ==
  /\ Scored \subseteq Entities
  /\ score = [e \in Scored |-> score[e]]
  /\ \A e \in Scored : score[e] \in ReputationScore
  /\ overridden \subseteq Scored
  /\ decays \in [Entities -> Nat]
  /\ rewound \subseteq Scored

(***************************************************************************)
(* Whatever the order of updates, decays and overrides, and however each   *)
(* build rounds, a total is within half a point of the weighted sum of the *)
(* parts stored beside it, unless override_score wrote it last.  An error  *)
(* of rounding does not build up: every update and decay starts from the   *)
(* parts, never from the total.                                            *)
(***************************************************************************)
TotalFollowsParts ==
  \A e \in Scored \ overridden :
    LET drift == 100 * score[e].total - Weighted(score[e].part) IN
    drift <= 50 /\ -drift <= 50

(***************************************************************************)
(* Over its whole life a score decays at most once in four epochs, however *)
(* often apply_decay is sent or sent again, as long as it never decays at  *)
(* an epoch before the one stored: the uint64 subtraction lets that happen *)
(* and sets the stored epoch back.                                         *)
(***************************************************************************)
DecayIsRateLimited ==
  \A e \in Scored \ rewound : 4 * decays[e] <= score[e].updateEpoch
=============================================================================
