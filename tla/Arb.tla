-------------------------------- MODULE Arb --------------------------------
(***************************************************************************)
(* The dispute module, internal/modules/arb/module.go.                     *)
(*                                                                         *)
(* arb/d/<id> holds disputes.  An id is a hash of the order, the task and  *)
(* the filer's nonce, not of the filer, so filing may overwrite.  A        *)
(* dispute climbs from the automatic rules to a committee of five keys     *)
(* derived from its id and from there to a vote of everybody.  Votes are   *)
(* counted in the order of a Go map iteration, which is a free choice      *)
(* here.  A verdict is represented by its winner and by what it rests on.  *)
(* The committee's keys are bytes of a hash, for which nobody is known to  *)
(* hold a private key; the model lets their owners vote if there are any.  *)
(***************************************************************************)
EXTENDS Integers, Sequences, FiniteSets, SequencesExt

CONSTANTS
  DisputeIds,      \* dispute ids
  Actors,          \* public keys
  Reasons,         \* reason codes, in lower case
  Ballots,         \* strings put in a vote
  Committee,       \* Committee[id]: the keys deterministicCommittee derives
  Nobody,          \* the winner of an empty verdict
  MaxEvidence,     \* bound: pieces of evidence of one party
  MaxCommittee,    \* bound: committee votes on one dispute
  MaxFull          \* bound: votes of everybody on one dispute

ASSUME ArbConstants ==
  /\ Committee \in [DisputeIds -> SUBSET Actors]
  /\ Nobody \notin Ballots
  /\ MaxEvidence \in Nat /\ MaxCommittee \in Nat /\ MaxFull \in Nat

VARIABLE dispute   \* arb/d/: partial function from DisputeIds

Phases == {"PHASE_AUTO", "PHASE_COMMITTEE", "PHASE_FULL"}
Statuses == {"DISPUTE_FILED", "DISPUTE_AUTO_RESOLVED", "DISPUTE_COMM_REVIEW",
             "DISPUTE_COMM_RESOLVED", "DISPUTE_FULL_REVIEW", "DISPUTE_FINAL_RESOLVED"}
Winners == Ballots \cup {"consumer", "provider", Nobody}

Verdict == [winner : Winners, by : {"nothing", "rule", "votes"}]
VoteRecord == [validator : Actors, vote : Ballots]

\* Who cast a full vote is recorded too, but nobody ever reads it.
FullVoteRecord == [vote : Ballots]

Dispute == [plaintiff : Actors, defendant : Actors, reason : Reasons,
            phase : Phases, status : Statuses, verdict : Verdict,
            committee : SUBSET Actors,
            committeeVotes : Seq(VoteRecord), fullVotes : Seq(FullVoteRecord),
            plaintiffEvidence : Nat, defendantEvidence : Nat]

Disputes == DOMAIN dispute

saveDispute(id, d) == [i \in Disputes \cup {id} |-> IF i = id THEN d ELSE dispute[i]]

-----------------------------------------------------------------------------
\* The winner the first matching rule names, Nobody when none matches.
applyRules(reason) ==
  CASE reason \in {"timeout", "heartbeat", "quality"} -> "consumer"
    [] reason = "payment" -> "provider"
    [] OTHER -> Nobody

Count(votes, b) == Cardinality({i \in DOMAIN votes : votes[i].vote = b})

\* A count that forgets to lift the tie when a better candidate turns up.
TallyKeepsTie(votes, acc, b) ==
  LET n == Count(votes, b) IN
    IF n > acc.best THEN [winner |-> b, best |-> n, tie |-> acc.tie]
    ELSE IF n = acc.best THEN [acc EXCEPT !.tie = TRUE] ELSE acc

\* The body of majorityVote's loop, for candidate b.
Tally(votes, acc, b) ==
  LET n == Count(votes, b) IN
    IF n > acc.best THEN [winner |-> b, best |-> n, tie |-> FALSE]
    ELSE IF n = acc.best THEN [acc EXCEPT !.tie = TRUE] ELSE acc

\* The outcomes majorityVote may have: one for each order of the map.
majorityVote(votes) ==
  {LET end == FoldLeft(LAMBDA acc, b : Tally(votes, acc, b),
                       [winner |-> Nobody, best |-> 0, tie |-> FALSE], order)
   IN  IF end.tie THEN "tie" ELSE end.winner :
     order \in SetToSeqs({votes[i].vote : i \in DOMAIN votes})}

RuleVerdict(winner) == [winner |-> winner, by |-> "rule"]

simpleVerdict(winner) == [winner |-> winner, by |-> "votes"]

-----------------------------------------------------------------------------
Init == dispute = [i \in {} |-> Nobody]

fileDispute(id, plaintiff, defendant, reason) ==
  dispute' = saveDispute(id,
    [plaintiff |-> plaintiff, defendant |-> defendant, reason |-> reason,
     phase |-> "PHASE_AUTO", status |-> "DISPUTE_FILED",
     verdict |-> [winner |-> Nobody, by |-> "nothing"], committee |-> {},
     committeeVotes |-> <<>>, fullVotes |-> <<>>,
     plaintiffEvidence |-> 0, defendantEvidence |-> 0])

\* The plaintiff is looked for first: suing oneself files for the plaintiff.
submitPlaintiffEvidence(sender, id) ==
  /\ dispute[id].plaintiff = sender
  /\ dispute[id].plaintiffEvidence < MaxEvidence
  /\ dispute' = [dispute EXCEPT ![id].plaintiffEvidence = @ + 1]

submitDefendantEvidence(sender, id) ==
  /\ dispute[id].plaintiff # sender /\ dispute[id].defendant = sender
  /\ dispute[id].defendantEvidence < MaxEvidence
  /\ dispute' = [dispute EXCEPT ![id].defendantEvidence = @ + 1]

\* An auto_resolve that may always be called again.
MayAlwaysAutoResolve(st) == TRUE

\* auto_resolve leaves only a final dispute alone; it may be called again.
MayAutoResolve(st) == st # "DISPUTE_FINAL_RESOLVED"

autoResolveByRule(id) ==
  /\ MayAutoResolve(dispute[id].status)
  /\ applyRules(dispute[id].reason) # Nobody
  /\ dispute' = [dispute EXCEPT
       ![id].verdict = RuleVerdict(applyRules(dispute[id].reason)),
       ![id].status = "DISPUTE_AUTO_RESOLVED"]

\* An escalation that leaves the committee to be named later.
NoCommittee(id, d) ==
  [d EXCEPT !.phase = "PHASE_COMMITTEE", !.status = "DISPUTE_COMM_REVIEW"]

\* To the committee, from the rules or on appeal.
ToCommittee(id, d) ==
  [d EXCEPT !.phase = "PHASE_COMMITTEE", !.status = "DISPUTE_COMM_REVIEW",
            !.committee = Committee[id]]

autoResolveEscalates(id) ==
  /\ MayAutoResolve(dispute[id].status)
  /\ applyRules(dispute[id].reason) = Nobody
  /\ dispute' = [dispute EXCEPT ![id] = ToCommittee(id, @)]

\* What three or more committee votes decide.
CommitteeDecides(d, winner) ==
  IF winner = "tie"
    THEN [d EXCEPT !.phase = "PHASE_FULL", !.status = "DISPUTE_FULL_REVIEW"]
    ELSE [d EXCEPT !.status = "DISPUTE_COMM_RESOLVED", !.verdict = simpleVerdict(winner)]

\* A committee decision taken one vote early.
CommitteeQuorumTwo(votes) == Len(votes) >= 2

CommitteeQuorum(votes) == Len(votes) >= 3

\* The phase is looked at, not the status: members may vote, and vote again,
\* after a decision.
committeeVote(sender, id, vote) ==
  LET votes == Append(dispute[id].committeeVotes, [validator |-> sender, vote |-> vote])
      d == [dispute[id] EXCEPT !.committeeVotes = votes]
  IN  /\ dispute[id].phase = "PHASE_COMMITTEE"
      /\ sender \in dispute[id].committee
      /\ Len(votes) <= MaxCommittee
      /\ IF CommitteeQuorum(votes)
           THEN \E w \in majorityVote(votes) :
                  dispute' = [dispute EXCEPT ![id] = CommitteeDecides(d, w)]
           ELSE dispute' = [dispute EXCEPT ![id] = d]

\* A tie among everybody goes to the consumer.
TieToConsumer(winner) == IF winner = "tie" THEN "consumer" ELSE winner

\* Any sender votes, and the fifth and every later vote decides anew.
fullVote(id, vote) ==
  LET votes == Append(dispute[id].fullVotes, [vote |-> vote])
      d == [dispute[id] EXCEPT !.fullVotes = votes]
  IN  /\ dispute[id].phase = "PHASE_FULL"
      /\ Len(votes) <= MaxFull
      /\ IF Len(votes) >= 5
           THEN \E w \in majorityVote(votes) :
                  dispute' = [dispute EXCEPT ![id] =
                    [d EXCEPT !.verdict = simpleVerdict(TieToConsumer(w)),
                              !.status = "DISPUTE_FINAL_RESOLVED"]]
           ELSE dispute' = [dispute EXCEPT ![id] = d]

appealRule(id) ==
  /\ dispute[id].status = "DISPUTE_AUTO_RESOLVED"
  /\ dispute' = [dispute EXCEPT ![id] = ToCommittee(id, @)]

appealCommittee(id) ==
  /\ dispute[id].status = "DISPUTE_COMM_RESOLVED"
  /\ dispute' = [dispute EXCEPT ![id].phase = "PHASE_FULL",
                                ![id].status = "DISPUTE_FULL_REVIEW"]

Executable(st) ==
  st \in {"DISPUTE_AUTO_RESOLVED", "DISPUTE_COMM_RESOLVED", "DISPUTE_FINAL_RESOLVED"}

executeVerdict(id) ==
  /\ Executable(dispute[id].status)
  /\ dispute' = [dispute EXCEPT ![id].status = "DISPUTE_FINAL_RESOLVED"]

Next ==
  \/ \E id \in DisputeIds, p, q \in Actors, r \in Reasons : fileDispute(id, p, q, r)
  \/ \E id \in Disputes, s \in Actors : submitPlaintiffEvidence(s, id)
  \/ \E id \in Disputes, s \in Actors : submitDefendantEvidence(s, id)
  \/ \E id \in Disputes : autoResolveByRule(id)
  \/ \E id \in Disputes : autoResolveEscalates(id)
  \/ \E id \in Disputes, s \in Actors, v \in Ballots : committeeVote(s, id, v)
  \/ \E id \in Disputes, v \in Ballots : fullVote(id, v)
  \/ \E id \in Disputes : appealRule(id)
  \/ \E id \in Disputes : appealCommittee(id)
  \/ \E id \in Disputes : executeVerdict(id)

Spec == Init /\ [][Next]_dispute

-----------------------------------------------------------------------------
(***************************************************************************)
(* Types of the stored disputes.                                           *)
(***************************************************************************)
TypeOK ==
  /\ Disputes \subseteq DisputeIds
  /\ dispute = [i \in Disputes |-> dispute[i]]
  /\ \A i \in Disputes : dispute[i] \in Dispute

\* The ballot with strictly more votes than any other, "tie" without one.
Plurality(votes) ==
  LET cast == {votes[i].vote : i \in DOMAIN votes}
      best == {b \in cast : \A o \in cast : Count(votes, o) <= Count(votes, b)}
  IN  IF Cardinality(best) = 1 THEN CHOOSE b \in best : TRUE ELSE "tie"

\* What a verdict can rest on.
RuleGround(d) == d.verdict = RuleVerdict(applyRules(d.reason)) /\ d.verdict.winner # Nobody
CommitteeGround(d) ==
  /\ Len(d.committeeVotes) >= 3
  /\ Plurality(d.committeeVotes) # "tie"
  /\ d.verdict = simpleVerdict(Plurality(d.committeeVotes))
FullGround(d) ==
  /\ Len(d.fullVotes) >= 5
  /\ d.verdict.by = "votes"
  /\ d.verdict.winner = IF Plurality(d.fullVotes) = "tie" THEN "consumer"
                                                         ELSE Plurality(d.fullVotes)

(***************************************************************************)
(* A resolved dispute always has a verdict somebody competent gave on the  *)
(* votes now on record, whatever the order of votes, appeals, repeated     *)
(* auto_resolve and the order in which Go iterates the tally: the rule for *)
(* its reason, a strict plurality of at least three committee votes, or    *)
(* the outcome of at least five votes of everybody.                        *)
(***************************************************************************)
VerdictHasGround ==
  \A i \in Disputes : LET d == dispute[i] IN
    /\ d.status = "DISPUTE_AUTO_RESOLVED" => RuleGround(d)
    /\ d.status = "DISPUTE_COMM_RESOLVED" => CommitteeGround(d)
    /\ d.status = "DISPUTE_FINAL_RESOLVED" =>
         RuleGround(d) \/ CommitteeGround(d) \/ FullGround(d)

(***************************************************************************)
(* Phase and status are written separately (auto_resolve by rule and       *)
(* execute_verdict leave the phase alone) yet stay in step, so that no     *)
(* dispute is under a review in which nobody may vote: a review by the     *)
(* committee has a committee, and only its members' votes are counted.     *)
(***************************************************************************)
ReviewCanBeVoted ==
  \A i \in Disputes : LET d == dispute[i] IN
    /\ d.status = "DISPUTE_FILED" => d.phase = "PHASE_AUTO"
    /\ d.status \in {"DISPUTE_COMM_REVIEW", "DISPUTE_COMM_RESOLVED"} => d.phase = "PHASE_COMMITTEE"
    /\ d.status = "DISPUTE_FULL_REVIEW" <=>
         d.phase = "PHASE_FULL" /\ d.status \notin {"DISPUTE_AUTO_RESOLVED", "DISPUTE_FINAL_RESOLVED"}
    /\ d.phase = "PHASE_COMMITTEE" => d.committee = Committee[i]
    /\ \A k \in 1..Len(d.committeeVotes) : d.committeeVotes[k].validator \in Committee[i]

(***************************************************************************)
(* Once a verdict is final only a vote on record can change it: auto       *)
(* resolution, appeals and a second execution leave it alone.  (Filing the *)
(* same id again starts over.)                                             *)
(***************************************************************************)
FinalVerdictYieldsOnlyToVotes ==
  [][\A i \in Disputes :
       (dispute[i].status = "DISPUTE_FINAL_RESOLVED" /\ dispute'[i].status # "DISPUTE_FILED")
         => \/ /\ dispute'[i].verdict = dispute[i].verdict
               /\ dispute'[i].status = "DISPUTE_FINAL_RESOLVED"
            \/ /\ Len(dispute'[i].committeeVotes) > Len(dispute[i].committeeVotes)
               /\ Len(dispute'[i].committeeVotes) >= 3
            \/ /\ Len(dispute'[i].fullVotes) > Len(dispute[i].fullVotes)
               /\ Len(dispute'[i].fullVotes) >= 5]_dispute
=============================================================================
