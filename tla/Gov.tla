-------------------------------- MODULE Gov --------------------------------
(***************************************************************************)
(* Governance, internal/modules/gov/module.go, and the parameters of       *)
(* internal/state/params.go that it sets.                                  *)
(*                                                                         *)
(* gov/p/<id> holds proposals and gov/v/<id>/<sender> the last vote of a   *)
(* sender; nothing reads the latter.  Anybody may create, vote, vote again *)
(* and execute.  The id comes from the payload and an existing proposal is *)
(* overwritten, open or executed.  A parameter's value came out of a JSON  *)
(* payload, so SetParam can always encode it and never fails.              *)
(***************************************************************************)
EXTENDS Integers, Sequences, FiniteSets, SequencesExt

CONSTANTS
  ProposalIds,  \* proposal ids
  Voters,       \* public keys
  Params,       \* pairs of module and key
  ChangeLists,  \* lists of changes, see ParamChange
  Unset,        \* a parameter that has no value
  MaxBallots    \* bound: votes on one proposal, and times it is created

ParamChange == [param : Params, value : Int]

ASSUME GovConstants ==
  /\ ChangeLists \subseteq Seq(ParamChange)
  /\ Unset \notin Int
  /\ MaxBallots \in Nat

VARIABLES
  proposal,  \* gov/p/: partial function from ProposalIds
  ballot,    \* gov/v/: partial function from <<proposal id, sender>>
  param,     \* params/: the value of each parameter
  round,     \* history: how often each proposal id was created
  cast       \* history: every vote cast, with the round it was cast in

govVars == <<proposal, ballot, param, round, cast>>

Proposals == DOMAIN proposal

Votes == {"yes", "no", "abstain"}

Proposal == [status : {"OPEN", "EXECUTED"}, changes : ChangeLists, votes : [Votes -> Nat]]

saveProposal(id, p) == [i \in Proposals \cup {id} |-> IF i = id THEN p ELSE proposal[i]]

-----------------------------------------------------------------------------
GovInit ==
  /\ proposal = [i \in {} |-> 0]
  /\ ballot = [b \in {} |-> 0]
  /\ param = [k \in Params |-> Unset]
  /\ round = [i \in ProposalIds |-> 0]
  /\ cast = [i \in ProposalIds |-> <<>>]

\* A second creation that goes on counting.
KeepVotes(id) ==
  IF id \in Proposals THEN proposal[id].votes ELSE [v \in Votes |-> 0]

NewVotes(id) == [v \in Votes |-> 0]

\* The votes recorded for a former proposal of this id stay in gov/v/.
createProposal(id, changes) ==
  /\ round[id] < MaxBallots
  /\ proposal' = saveProposal(id,
       [status |-> "OPEN", changes |-> changes, votes |-> NewVotes(id)])
  /\ round' = [round EXCEPT ![id] = @ + 1]
  /\ UNCHANGED <<ballot, param, cast>>

\* The count goes up for every vote, whoever voted before.
voteProposal(sender, id, vote) ==
  /\ proposal[id].status = "OPEN"
  /\ vote \in DOMAIN proposal[id].votes
  /\ Len(cast[id]) < MaxBallots
  /\ proposal' = [proposal EXCEPT ![id].votes[vote] = @ + 1]
  /\ ballot' = [b \in DOMAIN ballot \cup {<<id, sender>>} |->
                  IF b = <<id, sender>> THEN vote ELSE ballot[b]]
  /\ cast' = [cast EXCEPT ![id] = Append(@, [round |-> round[id], vote |-> vote])]
  /\ UNCHANGED <<param, round>>

SetParam(f, c) == [f EXCEPT ![c.param] = c.value]

\* The loop over the changes, in order.
Applied(changes) == FoldLeft(SetParam, param, changes)

Approved(votes) == votes["yes"] > votes["no"]

executeProposal(id) ==
  /\ proposal[id].status = "OPEN"
  /\ Approved(proposal[id].votes)
  /\ param' = Applied(proposal[id].changes)
  /\ proposal' = [proposal EXCEPT ![id].status = "EXECUTED"]
  /\ UNCHANGED <<ballot, round, cast>>

GovNext ==
  \/ \E id \in ProposalIds, cs \in ChangeLists : createProposal(id, cs)
  \/ \E s \in Voters, id \in Proposals, v \in Votes : voteProposal(s, id, v)
  \/ \E id \in Proposals : executeProposal(id)

-----------------------------------------------------------------------------
(***************************************************************************)
(* Types of the stored proposals, votes and parameters.                    *)
(***************************************************************************)
GovTypeOK ==
  /\ Proposals \subseteq ProposalIds
  /\ proposal = [i \in Proposals |-> proposal[i]]
  /\ \A i \in Proposals : proposal[i] \in Proposal
  /\ DOMAIN ballot \subseteq ProposalIds \X Voters
  /\ ballot = [b \in DOMAIN ballot |-> ballot[b]]
  /\ \A b \in DOMAIN ballot : ballot[b] \in Votes
  /\ param \in [Params -> Int \cup {Unset}]
  /\ round \in [ProposalIds -> Nat]
  /\ cast \in [ProposalIds -> Seq([round : Nat, vote : Votes])]

\* How many votes v were cast on what proposal id says now.
CastNow(id, v) ==
  Cardinality({i \in DOMAIN cast[id] : cast[id][i].round = round[id] /\ cast[id][i].vote = v})

(***************************************************************************)
(* Parameters change only when a proposal is executed for which more yes   *)
(* than no votes (of however many senders) were cast since its present     *)
(* changes were put up: votes for what the id stood for before never count *)
(* for new changes, and what was executed is not executed again before it  *)
(* is put up and voted on again.  The change is the whole list: the last   *)
(* entry for a parameter wins and no other parameter moves.                *)
(***************************************************************************)
ParamsChangeOnlyByApproval ==
  [][/\ param' # param =>
          \E id \in Proposals :
            proposal[id].status = "OPEN" /\ proposal'[id].status = "EXECUTED"
     /\ \A id \in Proposals :
          proposal[id].status = "OPEN" /\ proposal'[id].status = "EXECUTED" =>
            LET cs == proposal[id].changes
                for(k) == {i \in DOMAIN cs : cs[i].param = k}
            IN  /\ CastNow(id, "yes") > CastNow(id, "no")
                /\ \A k \in Params :
                     param'[k] = IF for(k) = {} THEN param[k]
                                 ELSE cs[CHOOSE i \in for(k) : \A j \in for(k) : j <= i].value]_govVars
=============================================================================
