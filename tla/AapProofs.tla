----------------------------- MODULE AapProofs -----------------------------
(***************************************************************************)
(* Proofs about Aap, for every set of tasks, actors and results, every     *)
(* timeout and every retry limit.                                          *)
(***************************************************************************)
EXTENDS Aap, TLAPS

(* The effect of one handler on the task it names: every other task stays. *)
OnlyChanges(id, r) ==
  /\ Tasks' = Tasks
  /\ task'[id] = r
  /\ \A i \in Tasks : i # id => task'[i] = task[i]
  /\ task' = [i \in DOMAIN task' |-> task'[i]]

\* sign_sla, settle_task and file_dispute only write a status.
LEMMA StatusWrite ==
  ASSUME TypeOK, NEW id \in Tasks, NEW st \in TaskStatuses,
         task' = [task EXCEPT ![id].status = st]
  PROVE  /\ OnlyChanges(id, [task[id] EXCEPT !.status = st])
         /\ [task[id] EXCEPT !.status = st] \in Task
<1>1. task[id] \in Task
  BY DEF TypeOK
<1>2. [task[id] EXCEPT !.status = st] \in Task
  BY <1>1 DEF Task
<1> QED BY <1>2 DEF OnlyChanges, Tasks, TypeOK

\* A heartbeat writes status, sequence number and time.
LEMMA HeartbeatWrite ==
  ASSUME TypeOK, NEW s \in Actors, NEW id \in Tasks, NEW q \in 1..MaxSeq,
         NEW t \in Timestamps, submitHeartbeat(s, id, q, t)
  PROVE  \E r \in Task :
           /\ OnlyChanges(id, r)
           /\ r.status = Started(task[id].status)
           /\ r.result = task[id].result
           /\ r.retryCount = task[id].retryCount /\ r.maxRetries = task[id].maxRetries
<1> DEFINE lh == IF t = 0 THEN now ELSE t
           st == Started(task[id].status)
           r == [task[id] EXCEPT !.status = st, !.heartbeatSeq = q, !.lastHeartbeat = lh]
<1>1. task[id] \in Task
  BY DEF TypeOK
<1>2. lh \in Int /\ q \in Nat /\ st \in TaskStatuses
  BY <1>1, AapConstants DEF TypeOK, Started, Task, TaskStatuses
<1>3. task' = [task EXCEPT ![id] = r]
  BY DEF submitHeartbeat
<1> HIDE DEF lh, st
<1>4. r \in Task
  BY <1>1, <1>2 DEF Task
<1>5. r.status = st /\ r.result = task[id].result
      /\ r.retryCount = task[id].retryCount /\ r.maxRetries = task[id].maxRetries
  BY <1>1 DEF Task
<1> HIDE DEF r
<1>6. OnlyChanges(id, r)
  BY <1>3 DEF OnlyChanges, Tasks, TypeOK
<1> QED BY <1>4, <1>5, <1>6 DEF st

\* A submission writes the result and goes back to verification.
LEMMA ResultWrite ==
  ASSUME TypeOK, NEW s \in Actors, NEW id \in Tasks, NEW res \in Results,
         submitResult(s, id, res)
  PROVE  \E r \in Task :
           /\ OnlyChanges(id, r)
           /\ r.status = "TASK_SUBMIT_RESULT" /\ r.result = res
           /\ r.retryCount = task[id].retryCount /\ r.maxRetries = task[id].maxRetries
<1> DEFINE r == [task[id] EXCEPT !.result = res, !.status = "TASK_SUBMIT_RESULT"]
<1>1. task[id] \in Task
  BY DEF TypeOK
<1>2. task' = [task EXCEPT ![id] = r]
  BY DEF submitResult, Resubmitted
<1>3. r \in Task
  BY <1>1 DEF Task, TaskStatuses
<1>4. r.status = "TASK_SUBMIT_RESULT" /\ r.result = res
      /\ r.retryCount = task[id].retryCount /\ r.maxRetries = task[id].maxRetries
  BY <1>1 DEF Task
<1> HIDE DEF r
<1>5. OnlyChanges(id, r)
  BY <1>2 DEF OnlyChanges, Tasks, TypeOK
<1> QED BY <1>3, <1>4, <1>5

\* A failed verification counts a retry.
LEMMA FailWrite ==
  ASSUME TypeOK, NEW id \in Tasks, verifyFailed(id)
  PROVE  \E r \in Task :
           /\ OnlyChanges(id, r)
           /\ r.retryCount = task[id].retryCount + 1
           /\ r.status = AfterFailure(task[id].retryCount + 1, task[id].maxRetries)
           /\ r.maxRetries = task[id].maxRetries
<1> DEFINE n == task[id].retryCount + 1
           st == AfterFailure(n, task[id].maxRetries)
           r == [task[id] EXCEPT !.retryCount = n, !.status = st]
<1>1. task[id] \in Task
  BY DEF TypeOK
<1>2. n \in Nat /\ st \in TaskStatuses
  BY <1>1 DEF Task, AfterFailure, TaskStatuses
<1>3. task' = [task EXCEPT ![id] = r]
  BY DEF verifyFailed
<1> HIDE DEF n, st
<1>4. r \in Task
  BY <1>1, <1>2 DEF Task
<1>5. r.retryCount = n /\ r.status = st /\ r.maxRetries = task[id].maxRetries
  BY <1>1 DEF Task
<1> HIDE DEF r
<1>6. OnlyChanges(id, r)
  BY <1>3 DEF OnlyChanges, Tasks, TypeOK
<1> QED BY <1>4, <1>5, <1>6 DEF n, st

\* create_task stores a fresh record, whatever was there.
LEMMA CreateWrite ==
  ASSUME TypeOK, NEW id \in TaskIds, NEW p \in Actors, NEW m \in RetryLimits,
         createTask(id, p, m)
  PROVE  \E r \in Task :
           /\ Tasks' = Tasks \cup {id} /\ task'[id] = r
           /\ \A i \in Tasks : i # id => task'[i] = task[i]
           /\ task' = [i \in DOMAIN task' |-> task'[i]]
           /\ r.status = "TASK_CREATED" /\ r.maxRetries > 0
<1> DEFINE max == IF m = 0 THEN 3 ELSE m
           r == [provider |-> p, status |-> "TASK_CREATED", result |-> NoResult,
                 heartbeatSeq |-> 0, lastHeartbeat |-> 0, retryCount |-> 0,
                 maxRetries |-> max]
<1>1. max \in Nat /\ max > 0
  BY AapConstants
<1>2. task' = saveTask(id, r)
  BY DEF createTask
<1> HIDE DEF max
<1>3. r \in Task /\ r.status = "TASK_CREATED" /\ r.maxRetries = max
  BY <1>1, AapConstants DEF Task, TaskStatuses
<1> HIDE DEF r
<1> QED BY <1>1, <1>2, <1>3 DEF saveTask, Tasks

\* EndBlock only fails overdue tasks.
LEMMA EndBlockWrite ==
  ASSUME TypeOK, EndBlock
  PROVE  /\ Tasks' = Tasks /\ task' = [i \in DOMAIN task' |-> task'[i]]
         /\ \A i \in Tasks :
              /\ task'[i] \in Task
              /\ \/ task'[i] = task[i]
                 \/ task'[i].status = "TASK_FAILED" /\ task'[i].maxRetries = task[i].maxRetries
<1>1. Tasks' = Tasks /\ task' = [i \in DOMAIN task' |-> task'[i]]
  BY DEF EndBlock, TimedOut, Tasks
<1>2. ASSUME NEW i \in Tasks
      PROVE  /\ task'[i] \in Task
             /\ \/ task'[i] = task[i]
                \/ task'[i].status = "TASK_FAILED" /\ task'[i].maxRetries = task[i].maxRetries
  <2>1. task[i] \in Task
    BY DEF TypeOK
  <2>2. task'[i] = task[i] \/ task'[i] = [task[i] EXCEPT !.status = "TASK_FAILED"]
    BY DEF EndBlock, TimedOut
  <2> QED BY <2>1, <2>2 DEF Task, TaskStatuses
<1> QED BY <1>1, <1>2

(***************************************************************************)
(* Stored tasks are well typed.                                            *)
(***************************************************************************)
THEOREM TypeCorrect == Spec => []TypeOK
<1>1. Init => TypeOK
  BY DEF Init, TypeOK, Tasks
<1>2. ASSUME TypeOK, [Next]_vars PROVE TypeOK'
  <2>1. ASSUME NEW id \in TaskIds, NEW p \in Actors, NEW m \in RetryLimits,
               createTask(id, p, m)
        PROVE  TypeOK'
    <3>1. PICK r \in Task :
            /\ Tasks' = Tasks \cup {id} /\ task'[id] = r
            /\ \A i \in Tasks : i # id => task'[i] = task[i]
            /\ task' = [i \in DOMAIN task' |-> task'[i]]
      BY <1>2, <2>1, CreateWrite
    <3> QED BY <1>2, <2>1, <3>1 DEF createTask, TypeOK, Tasks
  <2>2. ASSUME NEW id \in Tasks, NEW st \in TaskStatuses,
               task' = [task EXCEPT ![id].status = st],
               UNCHANGED <<heartbeat, now>>,
               evidence' \in [TaskIds -> Results \cup {Nothing}],
               accepted' \in [TaskIds -> Results \cup {Nothing}]
        PROVE  TypeOK'
    BY <1>2, <2>2, StatusWrite DEF OnlyChanges, TypeOK
  <2>3. ASSUME NEW id \in Tasks, signSLA(id) \/ fileDispute(id) PROVE TypeOK'
    BY <1>2, <2>2, <2>3 DEF signSLA, fileDispute, TypeOK, TaskStatuses
  <2>4. ASSUME NEW id \in Tasks, verifyPassed(id) \/ settleTask(id) PROVE TypeOK'
    <3>1. task[id].result \in Results /\ id \in TaskIds
      BY <1>2 DEF TypeOK, Task
    <3>2. evidence' \in [TaskIds -> Results \cup {Nothing}]
          /\ accepted' \in [TaskIds -> Results \cup {Nothing}]
      BY <1>2, <2>4, <3>1 DEF verifyPassed, settleTask, TypeOK
    <3> QED BY <2>2, <2>4, <3>2 DEF verifyPassed, settleTask, TaskStatuses
  <2>5. ASSUME NEW id \in Tasks, NEW s \in Actors, NEW q \in 1..MaxSeq,
               NEW t \in Timestamps, submitHeartbeat(s, id, q, t)
        PROVE  TypeOK'
    <3>1. heartbeat' \subseteq TaskIds \X Nat
      BY <1>2, <2>5, AapConstants DEF submitHeartbeat, TypeOK
    <3>2. PICK r \in Task : OnlyChanges(id, r)
      BY <1>2, <2>5, HeartbeatWrite
    <3> QED BY <1>2, <2>5, <3>1, <3>2 DEF submitHeartbeat, OnlyChanges, TypeOK, Tasks
  <2>6. ASSUME NEW id \in Tasks, NEW s \in Actors, NEW r \in Results, submitResult(s, id, r)
        PROVE  TypeOK'
    <3>1. PICK w \in Task : OnlyChanges(id, w)
      BY <1>2, <2>6, ResultWrite
    <3> QED BY <1>2, <2>6, <3>1 DEF submitResult, OnlyChanges, TypeOK, Tasks
  <2>7. ASSUME NEW id \in Tasks, verifyFailed(id) PROVE TypeOK'
    <3>1. PICK r \in Task : OnlyChanges(id, r)
      BY <1>2, <2>7, FailWrite
    <3> QED BY <1>2, <2>7, <3>1 DEF verifyFailed, OnlyChanges, TypeOK, Tasks
  <2>8. CASE EndBlock
    <3>1. now' \in Nat
      BY <1>2, <2>8, AapConstants DEF EndBlock, TypeOK
    <3> QED BY <1>2, <2>8, <3>1, EndBlockWrite DEF EndBlock, TypeOK, Tasks
  <2>9. CASE UNCHANGED vars
    BY <1>2, <2>9 DEF vars, TypeOK, Tasks
  <2> QED BY <1>2, <2>1, <2>3, <2>4, <2>5, <2>6, <2>7, <2>8, <2>9 DEF Next
<1> QED BY <1>1, <1>2, PTL DEF Spec

-----------------------------------------------------------------------------
\* SettledResultWasVerified is inductive as it stands.  This is one task's
\* part of it.
SettlementOf(r, acc, ev) ==
  /\ r.status \in {"TASK_VERIFIED", "TASK_COMPLETED"} => r.result = acc
  /\ r.status = "TASK_COMPLETED" => ev = r.result

\* The invariant, task by task.
LEMMA SettlementByTask ==
  SettledResultWasVerified <=> \A i \in Tasks : SettlementOf(task[i], accepted[i], evidence[i])
BY DEF SettledResultWasVerified, SettlementOf

(***************************************************************************)
(* What is settled, and what the evidence root commits to, is the result   *)
(* that passed verification, however transactions interleave.              *)
(***************************************************************************)
THEOREM SettlementCorrect == Spec => []SettledResultWasVerified
<1>1. Init => SettledResultWasVerified
  BY DEF Init, SettledResultWasVerified, Tasks
<1>2. ASSUME TypeOK, SettledResultWasVerified, [Next]_vars PROVE SettledResultWasVerified'
  <2>0. SUFFICES \A i \in Tasks' : SettlementOf(task'[i], accepted'[i], evidence'[i])
    BY DEF SettledResultWasVerified, SettlementOf
  <2>a. \A i \in Tasks : SettlementOf(task[i], accepted[i], evidence[i]) /\ task[i] \in Task
    BY <1>2, SettlementByTask DEF TypeOK
  <2> DEFINE Goal == \A i \in Tasks' : SettlementOf(task'[i], accepted'[i], evidence'[i])
  <2>1. ASSUME NEW id \in TaskIds, NEW p \in Actors, NEW m \in RetryLimits,
               createTask(id, p, m)
        PROVE  Goal
    <3>1. PICK r \in Task :
            /\ Tasks' = Tasks \cup {id} /\ task'[id] = r
            /\ \A i \in Tasks : i # id => task'[i] = task[i]
            /\ r.status = "TASK_CREATED"
      BY <1>2, <2>1, CreateWrite
    <3> QED BY <2>1, <2>a, <3>1 DEF createTask, SettlementOf
  <2>2. ASSUME NEW id \in Tasks, NEW r \in Task, OnlyChanges(id, r),
               SettlementOf(r, accepted'[id], evidence'[id]),
               \A i \in Tasks : i # id => accepted'[i] = accepted[i] /\ evidence'[i] = evidence[i]
        PROVE  Goal
    BY <2>a, <2>2 DEF OnlyChanges
  <2>3. ASSUME NEW id \in Tasks, signSLA(id) \/ fileDispute(id) \/ verifyPassed(id) \/ settleTask(id)
        PROVE  Goal
    <3> DEFINE w(st) == [task[id] EXCEPT !.status = st]
    <3>1. id \in TaskIds /\ task[id] \in Task
      BY <1>2 DEF TypeOK
    <3>2. \A st \in TaskStatuses : w(st).status = st /\ w(st).result = task[id].result
      BY <3>1 DEF Task
    <3>3. \A i \in Tasks : i # id => accepted'[i] = accepted[i] /\ evidence'[i] = evidence[i]
      BY <1>2, <2>3, <3>1 DEF signSLA, fileDispute, verifyPassed, settleTask, TypeOK
    <3>4. ASSUME NEW st \in TaskStatuses, task' = [task EXCEPT ![id].status = st]
          PROVE  OnlyChanges(id, w(st)) /\ w(st) \in Task
      BY <1>2, <3>4, StatusWrite
    <3> HIDE DEF w
    <3>5. CASE signSLA(id)
      <4>1. OnlyChanges(id, w("TASK_SLA_SIGNED")) /\ w("TASK_SLA_SIGNED") \in Task
        BY <3>4, <3>5 DEF signSLA, TaskStatuses
      <4>2. SettlementOf(w("TASK_SLA_SIGNED"), accepted'[id], evidence'[id])
        BY <3>2 DEF SettlementOf, TaskStatuses
      <4> QED BY <2>2, <3>3, <4>1, <4>2
    <3>6. CASE fileDispute(id)
      <4>1. OnlyChanges(id, w("TASK_DISPUTED")) /\ w("TASK_DISPUTED") \in Task
        BY <3>4, <3>6 DEF fileDispute, TaskStatuses
      <4>2. SettlementOf(w("TASK_DISPUTED"), accepted'[id], evidence'[id])
        BY <3>2 DEF SettlementOf, TaskStatuses
      <4> QED BY <2>2, <3>3, <4>1, <4>2
    <3>7. CASE verifyPassed(id)
      <4>1. OnlyChanges(id, w("TASK_VERIFIED")) /\ w("TASK_VERIFIED") \in Task
        BY <3>4, <3>7 DEF verifyPassed, TaskStatuses
      <4>2. accepted'[id] = task[id].result
        BY <1>2, <2>a, <3>1, <3>7 DEF verifyPassed, TypeOK, SettlementOf
      <4>3. SettlementOf(w("TASK_VERIFIED"), accepted'[id], evidence'[id])
        BY <3>2, <4>2 DEF SettlementOf, TaskStatuses
      <4> QED BY <2>2, <3>3, <4>1, <4>3
    <3>8. CASE settleTask(id)
      <4>1. OnlyChanges(id, w("TASK_COMPLETED")) /\ w("TASK_COMPLETED") \in Task
        BY <3>4, <3>8 DEF settleTask, TaskStatuses
      <4>2. /\ evidence'[id] = task[id].result /\ accepted'[id] = accepted[id]
            /\ task[id].result = accepted[id]
        BY <1>2, <2>a, <3>1, <3>8 DEF settleTask, MaySettle, TypeOK, SettlementOf
      <4>3. SettlementOf(w("TASK_COMPLETED"), accepted'[id], evidence'[id])
        BY <3>2, <4>2 DEF SettlementOf, TaskStatuses
      <4> QED BY <2>2, <3>3, <4>1, <4>3
    <3> QED BY <2>3, <3>5, <3>6, <3>7, <3>8
  <2>4. ASSUME NEW id \in Tasks, NEW s \in Actors, NEW q \in 1..MaxSeq,
               NEW t \in Timestamps, submitHeartbeat(s, id, q, t)
        PROVE  Goal
    <3>1. PICK r \in Task :
            /\ OnlyChanges(id, r)
            /\ r.status = Started(task[id].status) /\ r.result = task[id].result
      BY <1>2, <2>4, HeartbeatWrite
    <3>2. accepted' = accepted /\ evidence' = evidence
      BY <2>4 DEF submitHeartbeat
    <3>3. SettlementOf(r, accepted'[id], evidence'[id])
      BY <2>a, <3>1, <3>2 DEF SettlementOf, Started
    <3> QED BY <2>2, <3>1, <3>2, <3>3
  <2>5. ASSUME NEW id \in Tasks, NEW s \in Actors, NEW res \in Results, submitResult(s, id, res)
        PROVE  Goal
    <3>1. PICK r \in Task :
            OnlyChanges(id, r) /\ r.status = "TASK_SUBMIT_RESULT" /\ r.result = res
      BY <1>2, <2>5, ResultWrite
    <3>2. accepted' = accepted /\ evidence' = evidence
      BY <2>5 DEF submitResult
    <3>3. SettlementOf(r, accepted'[id], evidence'[id])
      BY <3>1, AapConstants DEF SettlementOf
    <3> QED BY <2>2, <3>1, <3>2, <3>3
  <2>6. ASSUME NEW id \in Tasks, verifyFailed(id) PROVE Goal
    <3>1. PICK r \in Task :
            /\ OnlyChanges(id, r)
            /\ r.status = AfterFailure(task[id].retryCount + 1, task[id].maxRetries)
      BY <1>2, <2>6, FailWrite
    <3>2. accepted' = accepted /\ evidence' = evidence
      BY <2>6 DEF verifyFailed
    <3>3. SettlementOf(r, accepted'[id], evidence'[id])
      BY <3>1 DEF SettlementOf, AfterFailure
    <3> QED BY <2>2, <3>1, <3>2, <3>3
  <2>7. CASE EndBlock
    BY <1>2, <2>a, <2>7, EndBlockWrite DEF EndBlock, SettlementOf
  <2>8. CASE UNCHANGED vars
    BY <2>a, <2>8 DEF vars, Tasks
  <2> QED BY <1>2, <2>1, <2>3, <2>4, <2>5, <2>6, <2>7, <2>8 DEF Next
<1> QED BY <1>1, <1>2, TypeCorrect, PTL DEF Spec

-----------------------------------------------------------------------------
\* A task's part of RetriesBounded.
RetryOf(r) ==
  /\ r.maxRetries > 0
  /\ r.status = "TASK_AUTHORIZED" => r.retryCount \in 1..(r.maxRetries - 1)

(***************************************************************************)
(* A task is sent back for a retry only while it has failed fewer times    *)
(* than its limit, for every limit.                                        *)
(***************************************************************************)
THEOREM RetriesCorrect == Spec => []RetriesBounded
<1>1. Init => RetriesBounded
  BY DEF Init, RetriesBounded, Tasks
<1>2. ASSUME TypeOK, RetriesBounded, [Next]_vars PROVE RetriesBounded'
  <2>0. SUFFICES \A i \in Tasks' : RetryOf(task'[i])
    BY DEF RetriesBounded, RetryOf
  <2>a. \A i \in Tasks : RetryOf(task[i]) /\ task[i] \in Task
    BY <1>2 DEF RetriesBounded, RetryOf, TypeOK
  <2> DEFINE Goal == \A i \in Tasks' : RetryOf(task'[i])
  <2>1. ASSUME NEW id \in TaskIds, NEW p \in Actors, NEW m \in RetryLimits,
               createTask(id, p, m)
        PROVE  Goal
    <3>1. PICK r \in Task :
            /\ Tasks' = Tasks \cup {id} /\ task'[id] = r
            /\ \A i \in Tasks : i # id => task'[i] = task[i]
            /\ r.status = "TASK_CREATED" /\ r.maxRetries > 0
      BY <1>2, <2>1, CreateWrite
    <3> QED BY <2>a, <3>1 DEF RetryOf
  <2>2. ASSUME NEW id \in Tasks, NEW r \in Task, OnlyChanges(id, r), RetryOf(r)
        PROVE  Goal
    BY <2>a, <2>2 DEF OnlyChanges
  <2>3. ASSUME NEW id \in Tasks, NEW st \in TaskStatuses, st # "TASK_AUTHORIZED",
               task' = [task EXCEPT ![id].status = st]
        PROVE  Goal
    <3> DEFINE w == [task[id] EXCEPT !.status = st]
    <3>1. OnlyChanges(id, w) /\ w \in Task
      BY <1>2, <2>3, StatusWrite
    <3>2. w.status = st /\ w.maxRetries = task[id].maxRetries
      BY <2>a DEF Task
    <3> HIDE DEF w
    <3>3. RetryOf(w)
      BY <2>a, <2>3, <3>2 DEF RetryOf
    <3> QED BY <2>2, <3>1, <3>3
  <2>4. ASSUME NEW id \in Tasks, NEW s \in Actors, NEW q \in 1..MaxSeq,
               NEW t \in Timestamps, submitHeartbeat(s, id, q, t)
        PROVE  Goal
    <3>1. PICK r \in Task :
            /\ OnlyChanges(id, r) /\ r.status = Started(task[id].status)
            /\ r.retryCount = task[id].retryCount /\ r.maxRetries = task[id].maxRetries
      BY <1>2, <2>4, HeartbeatWrite
    <3>2. RetryOf(r)
      BY <2>a, <3>1 DEF RetryOf, Started
    <3> QED BY <2>2, <3>1, <3>2
  <2>5. ASSUME NEW id \in Tasks, NEW s \in Actors, NEW res \in Results, submitResult(s, id, res)
        PROVE  Goal
    <3>1. PICK r \in Task :
            /\ OnlyChanges(id, r) /\ r.status = "TASK_SUBMIT_RESULT"
            /\ r.maxRetries = task[id].maxRetries
      BY <1>2, <2>5, ResultWrite
    <3>2. RetryOf(r)
      BY <2>a, <3>1 DEF RetryOf
    <3> QED BY <2>2, <3>1, <3>2
  <2>6. ASSUME NEW id \in Tasks, verifyFailed(id) PROVE Goal
    <3>1. PICK r \in Task :
            /\ OnlyChanges(id, r) /\ r.retryCount = task[id].retryCount + 1
            /\ r.status = AfterFailure(task[id].retryCount + 1, task[id].maxRetries)
            /\ r.maxRetries = task[id].maxRetries
      BY <1>2, <2>6, FailWrite
    <3>2. task[id].retryCount \in Nat /\ task[id].maxRetries \in Nat
      BY <2>a DEF Task
    <3>3. RetryOf(r)
      BY <2>a, <3>1, <3>2 DEF RetryOf, AfterFailure
    <3> QED BY <2>2, <3>1, <3>3
  <2>7. CASE EndBlock
    BY <1>2, <2>a, <2>7, EndBlockWrite DEF RetryOf
  <2>8. CASE UNCHANGED vars
    BY <2>a, <2>8 DEF vars, Tasks
  <2>9. ASSUME NEW id \in Tasks, signSLA(id) \/ fileDispute(id) \/ verifyPassed(id) \/ settleTask(id)
        PROVE  Goal
    BY <2>3, <2>9 DEF signSLA, fileDispute, verifyPassed, settleTask, TaskStatuses
  <2> QED BY <1>2, <2>1, <2>4, <2>5, <2>6, <2>7, <2>8, <2>9 DEF Next
<1> QED BY <1>1, <1>2, TypeCorrect, PTL DEF Spec

-----------------------------------------------------------------------------
\* What LateHeartbeatIsHarmless says of one task, from status a to status b.
Harmless(i, a, b) ==
  /\ (b = "TASK_FAILED" /\ a # "TASK_FAILED") =>
       a = "TASK_EXECUTING" /\ now > task[i].lastHeartbeat + Timeout
  /\ (b = "TASK_EXECUTING" /\ a # "TASK_EXECUTING") =>
       a \in {"TASK_CREATED", "TASK_SLA_SIGNED", "TASK_AUTHORIZED"}

\* Every step of a handler and EndBlock is harmless to every task.
LEMMA HarmlessStep ==
  ASSUME TypeOK, Next
  PROVE  \A i \in Tasks : i \in Tasks' /\ Harmless(i, task[i].status, task'[i].status)
<1> DEFINE Goal ==
      \A i \in Tasks : i \in Tasks' /\ Harmless(i, task[i].status, task'[i].status)
<1>1. ASSUME NEW id, Tasks \subseteq Tasks', \A i \in Tasks : i # id => task'[i] = task[i],
             id \in Tasks => \/ task'[id].status \notin {"TASK_FAILED", "TASK_EXECUTING"}
                             \/ task'[id].status = Started(task[id].status)
      PROVE  Goal
  BY <1>1 DEF Harmless, Started
<1>2. ASSUME NEW id \in TaskIds, NEW p \in Actors, NEW m \in RetryLimits, createTask(id, p, m)
      PROVE  Goal
  <2>1. /\ Tasks' = Tasks \cup {id} /\ task'[id].status = "TASK_CREATED"
        /\ \A i \in Tasks : i # id => task'[i] = task[i]
    BY <1>2, CreateWrite
  <2> QED BY <1>1, <2>1
<1>3. ASSUME NEW id \in Tasks,
             NEW st \in TaskStatuses \ {"TASK_FAILED", "TASK_EXECUTING"},
             task' = [task EXCEPT ![id].status = st]
      PROVE  Goal
  <2> DEFINE w == [task[id] EXCEPT !.status = st]
  <2>1. OnlyChanges(id, w) /\ w \in Task
    BY <1>3, StatusWrite
  <2>2. w.status = st
    BY DEF TypeOK, Task
  <2> HIDE DEF w
  <2> QED BY <1>1, <2>1, <2>2 DEF OnlyChanges
<1>4. ASSUME NEW id \in Tasks, NEW s \in Actors, NEW q \in 1..MaxSeq,
             NEW t \in Timestamps, submitHeartbeat(s, id, q, t)
      PROVE  Goal
  <2>1. PICK r \in Task : OnlyChanges(id, r) /\ r.status = Started(task[id].status)
    BY <1>4, HeartbeatWrite
  <2> QED BY <1>1, <2>1 DEF OnlyChanges
<1>5. ASSUME NEW id \in Tasks, NEW s \in Actors, NEW res \in Results, submitResult(s, id, res)
      PROVE  Goal
  <2>1. PICK r \in Task : OnlyChanges(id, r) /\ r.status = "TASK_SUBMIT_RESULT"
    BY <1>5, ResultWrite
  <2> QED BY <1>1, <2>1 DEF OnlyChanges
<1>6. ASSUME NEW id \in Tasks, verifyFailed(id) PROVE Goal
  <2>1. PICK r \in Task :
          /\ OnlyChanges(id, r)
          /\ r.status = AfterFailure(task[id].retryCount + 1, task[id].maxRetries)
    BY <1>6, FailWrite
  <2>2. r.status \in {"TASK_DISPUTED", "TASK_AUTHORIZED"}
    BY <2>1 DEF AfterFailure
  <2> QED BY <1>1, <2>1, <2>2 DEF OnlyChanges
<1>7. ASSUME NEW id \in Tasks, signSLA(id) \/ fileDispute(id) \/ verifyPassed(id) \/ settleTask(id)
      PROVE  Goal
  BY <1>3, <1>7 DEF signSLA, fileDispute, verifyPassed, settleTask, TaskStatuses
<1>8. CASE EndBlock
  <2> SUFFICES ASSUME NEW i \in Tasks
               PROVE  i \in Tasks' /\ Harmless(i, task[i].status, task'[i].status)
    OBVIOUS
  <2>1. /\ i \in Tasks'
        /\ task'[i] = IF Overdue(i) THEN [task[i] EXCEPT !.status = "TASK_FAILED"] ELSE task[i]
    BY <1>8 DEF EndBlock, TimedOut, Tasks
  <2>2. task[i] \in Task /\ now \in Nat /\ Timeout \in Nat
    BY AapConstants DEF TypeOK
  <2>3. task[i].lastHeartbeat \in Int
    BY <2>2 DEF Task
  <2>4. CASE Overdue(i)
    <3>1. task'[i].status = "TASK_FAILED"
      BY <2>1, <2>2, <2>4 DEF Task
    <3>2. task[i].status = "TASK_EXECUTING" /\ now > task[i].lastHeartbeat + Timeout
      BY <2>2, <2>3, <2>4 DEF Overdue
    <3> QED BY <2>1, <3>1, <3>2 DEF Harmless
  <2>5. CASE ~Overdue(i)
    BY <2>1, <2>5 DEF Harmless
  <2> QED BY <2>4, <2>5
<1> QED BY <1>2, <1>4, <1>5, <1>6, <1>7, <1>8 DEF Next

\* No late heartbeat and no EndBlock fails or restarts a task that left
\* execution, for every timeout and every timestamp a provider may claim.
THEOREM HeartbeatsCorrect == Spec => LateHeartbeatIsHarmless
<1> DEFINE Step == \A i \in Tasks :
       /\ i \in DOMAIN task'
       /\ (task'[i].status = "TASK_FAILED" /\ task[i].status # "TASK_FAILED") =>
            /\ task[i].status = "TASK_EXECUTING"
            /\ now > task[i].lastHeartbeat + Timeout
       /\ (task'[i].status = "TASK_EXECUTING" /\ task[i].status # "TASK_EXECUTING") =>
            task[i].status \in {"TASK_CREATED", "TASK_SLA_SIGNED", "TASK_AUTHORIZED"}
<1>1. TypeOK /\ [Next]_vars => [Step]_vars
  <2>1. TypeOK /\ Next => Step
    BY HarmlessStep DEF Harmless, Tasks
  <2> QED BY <2>1
<1> QED BY <1>1, TypeCorrect, PTL DEF Spec, LateHeartbeatIsHarmless
=============================================================================
