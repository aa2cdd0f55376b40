-------------------------------- MODULE Aap --------------------------------
(***************************************************************************)
(* The task module, internal/modules/aap/module.go.                        *)
(*                                                                         *)
(* aap/t/<id> holds tasks, aap/h/<id>/<seq> the heartbeats received and    *)
(* aap/e/<id> the evidence root written at settlement.  A task id is a     *)
(* hash of the order and the sender's nonce but not of the sender, so two  *)
(* senders can create the same id and the later one overwrites.  Only      *)
(* heartbeats and results check the sender.  A result is represented by    *)
(* its content hash, an evidence root by the result it commits to.         *)
(***************************************************************************)
EXTENDS Integers

CONSTANTS
  TaskIds,     \* task ids
  Actors,      \* public keys
  Results,     \* content hashes of results, the empty one included
  RetryLimits, \* max_retries in a create_task payload; 0 means the default
  Timestamps,  \* timestamps in a heartbeat; 0 means the block's time
  NoResult,    \* the empty result hash
  Nothing,     \* no evidence root, or no verification yet
  Timeout,     \* 180 seconds
  MaxSeq,      \* bound: heartbeat sequence numbers
  MaxTime,     \* bound: the last block time explored
  LastBeat,    \* bound: the block time after which providers fall silent
  MaxFails     \* bound: failed verifications of one task

ASSUME AapConstants ==
  /\ RetryLimits \subseteq Nat /\ Timestamps \subseteq Int
  /\ NoResult \in Results /\ Nothing \notin Results
  /\ Timeout \in Nat /\ MaxSeq \in Nat /\ MaxTime \in Nat
  /\ LastBeat \in Nat /\ MaxFails \in Nat

VARIABLES
  task,       \* aap/t/: partial function from TaskIds
  heartbeat,  \* aap/h/: the set of <<id, seq>> logged
  evidence,   \* aap/e/: the result each evidence root commits to
  now,        \* the time of the block being executed
  accepted    \* history: the result that last passed verification

vars == <<task, heartbeat, evidence, now, accepted>>

TaskStatuses ==
  {"TASK_CREATED", "TASK_SLA_SIGNED", "TASK_AUTHORIZED", "TASK_EXECUTING",
   "TASK_SUBMIT_RESULT", "TASK_VERIFIED", "TASK_COMPLETED", "TASK_DISPUTED",
   "TASK_FAILED"}

Task == [provider : Actors, status : TaskStatuses, result : Results,
         heartbeatSeq : Nat, lastHeartbeat : Int, retryCount : Nat, maxRetries : Nat]

Tasks == DOMAIN task

saveTask(id, r) == [i \in Tasks \cup {id} |-> IF i = id THEN r ELSE task[i]]

-----------------------------------------------------------------------------
Init ==
  /\ task = [i \in {} |-> NoResult]
  /\ heartbeat = {}
  /\ evidence = [i \in TaskIds |-> Nothing]
  /\ now = 1
  /\ accepted = [i \in TaskIds |-> Nothing]

createTask(id, provider, maxRetries) ==
  /\ task' = saveTask(id,
       [provider |-> provider, status |-> "TASK_CREATED", result |-> NoResult,
        heartbeatSeq |-> 0, lastHeartbeat |-> 0, retryCount |-> 0,
        maxRetries |-> IF maxRetries = 0 THEN 3 ELSE maxRetries])
  /\ UNCHANGED <<heartbeat, evidence, now, accepted>>

signSLA(id) ==
  /\ task[id].status = "TASK_CREATED"
  /\ task' = [task EXCEPT ![id].status = "TASK_SLA_SIGNED"]
  /\ UNCHANGED <<heartbeat, evidence, now, accepted>>

\* A heartbeat that restarts whatever it reaches.
AlwaysStarted(st) == "TASK_EXECUTING"

\* A heartbeat starts a task that has not started or was sent back.
Started(st) ==
  IF st \in {"TASK_AUTHORIZED", "TASK_CREATED", "TASK_SLA_SIGNED"}
    THEN "TASK_EXECUTING" ELSE st

submitHeartbeat(sender, id, seq, timestamp) ==
  /\ now <= LastBeat
  /\ task[id].provider = sender
  /\ seq > task[id].heartbeatSeq
  /\ task' = [task EXCEPT ![id].status = Started(@),
                          ![id].heartbeatSeq = seq,
                          ![id].lastHeartbeat = IF timestamp = 0 THEN now ELSE timestamp]
  /\ heartbeat' = heartbeat \cup {<<id, seq>>}
  /\ UNCHANGED <<evidence, now, accepted>>

\* A resubmission that leaves a verified or completed task where it is.
KeepIfAccepted(st) ==
  IF st \in {"TASK_VERIFIED", "TASK_COMPLETED"} THEN st ELSE "TASK_SUBMIT_RESULT"

\* The status is not looked at: every submission goes back to verification.
Resubmitted(st) == "TASK_SUBMIT_RESULT"

submitResult(sender, id, result) ==
  /\ task[id].provider = sender
  /\ task' = [task EXCEPT ![id].result = result,
                          ![id].status = Resubmitted(@)]
  /\ UNCHANGED <<heartbeat, evidence, now, accepted>>

AfterFailure(retries, max) ==
  IF retries >= max THEN "TASK_DISPUTED" ELSE "TASK_AUTHORIZED"

\* TASK_VERIFYING, which the guard of the code also accepts, is never stored.
verifyPassed(id) ==
  /\ task[id].status = "TASK_SUBMIT_RESULT"
  /\ task' = [task EXCEPT ![id].status = "TASK_VERIFIED"]
  /\ accepted' = [accepted EXCEPT ![id] = task[id].result]
  /\ UNCHANGED <<heartbeat, evidence, now>>

verifyFailed(id) ==
  LET retries == task[id].retryCount + 1 IN
  /\ task[id].status = "TASK_SUBMIT_RESULT"
  /\ task[id].retryCount < MaxFails
  /\ task' = [task EXCEPT ![id].retryCount = retries,
                          ![id].status = AfterFailure(retries, task[id].maxRetries)]
  /\ UNCHANGED <<heartbeat, evidence, now, accepted>>

MaySettle(st) == st = "TASK_VERIFIED"

settleTask(id) ==
  /\ MaySettle(task[id].status)
  /\ task' = [task EXCEPT ![id].status = "TASK_COMPLETED"]
  /\ evidence' = [evidence EXCEPT ![id] = task[id].result]
  /\ UNCHANGED <<heartbeat, now, accepted>>

\* Any sender, any status.
fileDispute(id) ==
  /\ task' = [task EXCEPT ![id].status = "TASK_DISPUTED"]
  /\ UNCHANGED <<heartbeat, evidence, now, accepted>>

Overdue(id) ==
  task[id].status = "TASK_EXECUTING" /\ now - task[id].lastHeartbeat > Timeout

\* An EndBlock that forgets the tasks nobody heard from.
NoTimeouts == task

\* EndBlock's loop: every overdue task fails.
TimedOut ==
  [id \in Tasks |-> IF Overdue(id) THEN [task[id] EXCEPT !.status = "TASK_FAILED"]
                                   ELSE task[id]]

\* EndBlock, and the start of a block whose time is not earlier.
EndBlock ==
  /\ task' = TimedOut
  /\ now' \in now..MaxTime
  /\ UNCHANGED <<heartbeat, evidence, accepted>>

Next ==
  \/ \E id \in TaskIds, p \in Actors, m \in RetryLimits : createTask(id, p, m)
  \/ \E id \in Tasks : signSLA(id)
  \/ \E id \in Tasks, s \in Actors, q \in 1..MaxSeq, t \in Timestamps :
       submitHeartbeat(s, id, q, t)
  \/ \E id \in Tasks, s \in Actors, r \in Results : submitResult(s, id, r)
  \/ \E id \in Tasks : verifyPassed(id)
  \/ \E id \in Tasks : verifyFailed(id)
  \/ \E id \in Tasks : settleTask(id)
  \/ \E id \in Tasks : fileDispute(id)
  \/ EndBlock

Spec == Init /\ [][Next]_vars

(***************************************************************************)
(* Blocks keep being finalized and their time moves on; nothing obliges a  *)
(* client to send anything.                                                *)
(***************************************************************************)
FairSpec ==
  /\ Spec
  /\ WF_vars(EndBlock)
  /\ WF_vars(EndBlock /\ now' > now)

-----------------------------------------------------------------------------
(***************************************************************************)
(* Types of the stored tasks and of the evidence.                          *)
(***************************************************************************)
TypeOK ==
  /\ Tasks \subseteq TaskIds
  /\ task = [i \in Tasks |-> task[i]]
  /\ \A i \in Tasks : task[i] \in Task
  /\ heartbeat \subseteq TaskIds \X Nat
  /\ evidence \in [TaskIds -> Results \cup {Nothing}]
  /\ now \in Nat
  /\ accepted \in [TaskIds -> Results \cup {Nothing}]

(***************************************************************************)
(* No result slips in between verification and settlement: the result of a *)
(* verified or completed task is the one that passed verify_result, and a  *)
(* completed task's evidence root commits to exactly that result, although *)
(* submit_result is accepted in every status.                              *)
(***************************************************************************)
SettledResultWasVerified ==
  \A i \in Tasks :
    /\ task[i].status \in {"TASK_VERIFIED", "TASK_COMPLETED"} =>
         task[i].result = accepted[i]
    /\ task[i].status = "TASK_COMPLETED" => evidence[i] = task[i].result

(***************************************************************************)
(* A failed verification sends a task back for a retry only while retries  *)
(* are left (verify_result): an authorized task has failed fewer times     *)
(* than max_retries, and max_retries is never zero.                        *)
(***************************************************************************)
RetriesBounded ==
  \A i \in Tasks :
    /\ task[i].maxRetries > 0
    /\ task[i].status = "TASK_AUTHORIZED" =>
         task[i].retryCount \in 1..(task[i].maxRetries - 1)

(***************************************************************************)
(* EndBlock and the heartbeats of a late provider cannot fail or restart a *)
(* task that left execution: only a running task whose last heartbeat is   *)
(* older than the timeout fails, and only a task that has not started or   *)
(* was sent back for a retry starts executing.                             *)
(***************************************************************************)
LateHeartbeatIsHarmless ==
  [][\A i \in Tasks :
       /\ i \in DOMAIN task'
       /\ (task'[i].status = "TASK_FAILED" /\ task[i].status # "TASK_FAILED") =>
            /\ task[i].status = "TASK_EXECUTING"
            /\ now > task[i].lastHeartbeat + Timeout
       /\ (task'[i].status = "TASK_EXECUTING" /\ task[i].status # "TASK_EXECUTING") =>
            task[i].status \in {"TASK_CREATED", "TASK_SLA_SIGNED", "TASK_AUTHORIZED"}]_vars

(***************************************************************************)
(* A task whose provider falls silent does not stay in execution forever:  *)
(* EndBlock's timeout, or another transaction, ends it, provided its last  *)
(* timestamp is one the chain's clock can pass by the timeout.             *)
(***************************************************************************)
SilentTaskEnds ==
  \A i \in TaskIds :
    (i \in Tasks /\ task[i].status = "TASK_EXECUTING")
      ~> ~(i \in Tasks /\ task[i].status = "TASK_EXECUTING")
=============================================================================
