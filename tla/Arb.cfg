\* One dispute between two keys, one of them on the committee; three ballots, so
\* that three votes tie 1-1-1 and five 2-2-1, and one vote past the committee's quorum.
CONSTANTS
  DisputeIds = {d1}
  member = member
  Actors = {member, party}
  Reasons = {"quality", "other"}
  Ballots = {"consumer", "provider", "split"}
  Committee <- OneMember
  Nobody = Nobody
  MaxEvidence = 1
  MaxCommittee = 4
  MaxFull = 5
SPECIFICATION Spec
INVARIANTS VerdictHasGround ReviewCanBeVoted
PROPERTIES FinalVerdictYieldsOnlyToVotes
