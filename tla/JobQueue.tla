------------------------------ MODULE JobQueue ------------------------------
(***************************************************************************)
(* The BullMQ queue "notifications" (an external library, version 4) as    *)
(* queue.module.ts and notification.service.ts configure and use it: the   *)
(* idempotency key is the job id, a job has a fixed number of attempts     *)
(* with a backoff between them, finished jobs are retained for a while,    *)
(* and a job whose lock is lost is stalled.                                *)
(***************************************************************************)
EXTENDS GatewayData, Naturals

CONSTANTS Attempts,    \* defaultJobOptions.attempts
          MaxStalled   \* BullMQ's maxStalledCount, 1 by default

ASSUME AttemptsAssumption == Attempts \in Nat \ {0} /\ MaxStalled \in Nat

VARIABLES jobState,      \* where the job record of a key is, if there is one
          jobData,       \* the jobId in the data of that record
          attemptsMade,  \* activations of the record
          stalls,        \* its stalled counter
          lockedBy       \* the processor whose token holds the job's lock

queueVars == <<jobState, jobData, attemptsMade, stalls, lockedBy>>

JobStates == {"absent", "waiting", "active", "delayed", "completed", "failed"}

QueueTypeOK == /\ jobState \in [Keys -> JobStates]
               /\ jobData \in [Keys -> Requests \cup {NoJob}]
               /\ attemptsMade \in [Keys -> Nat]
               /\ stalls \in [Keys -> Nat]
               /\ lockedBy \in [Keys -> Slots \cup {NoSlot}]

QueueInit == /\ jobState = [k \in Keys |-> "absent"]
             /\ jobData = [k \in Keys |-> NoJob]
             /\ attemptsMade = [k \in Keys |-> 0]
             /\ stalls = [k \in Keys |-> 0]
             /\ lockedBy = [k \in Keys |-> NoSlot]

Pending(k) == jobState[k] \in {"waiting", "active", "delayed"}

\* Mutant of Add: only unfinished jobs count as duplicates.
AddUnlessPending(k, r) ==
  \/ /\ ~Pending(k)
     /\ jobState' = [jobState EXCEPT ![k] = "waiting"]
     /\ jobData' = [jobData EXCEPT ![k] = r]
     /\ attemptsMade' = [attemptsMade EXCEPT ![k] = 0]
     /\ stalls' = [stalls EXCEPT ![k] = 0]
     /\ UNCHANGED lockedBy
  \/ Pending(k) /\ UNCHANGED queueVars

\* queue.add with jobId k: no effect while a record with that id exists.
Add(k, r) ==
  \/ /\ jobState[k] = "absent"
     /\ jobState' = [jobState EXCEPT ![k] = "waiting"]
     /\ jobData' = [jobData EXCEPT ![k] = r]
     /\ attemptsMade' = [attemptsMade EXCEPT ![k] = 0]
     /\ stalls' = [stalls EXCEPT ![k] = 0]
     /\ UNCHANGED lockedBy
  \/ /\ jobState[k] # "absent"
     /\ UNCHANGED queueVars

\* A processor fetches the job and locks it with its token.
Activate(k, s) ==
  /\ jobState[k] = "waiting"
  /\ jobState' = [jobState EXCEPT ![k] = "active"]
  /\ attemptsMade' = [attemptsMade EXCEPT ![k] = @ + 1]
  /\ lockedBy' = [lockedBy EXCEPT ![k] = s]
  /\ UNCHANGED <<jobData, stalls>>

Unlock(k) == lockedBy' = [lockedBy EXCEPT ![k] = NoSlot]

\* The processor's promise resolved or rejected.  Without the lock the job is
\* not moved: the worker only emits an error.
Complete(k, s) ==
  \/ /\ lockedBy[k] = s
     /\ jobState' = [jobState EXCEPT ![k] = "completed"]
     /\ Unlock(k)
     /\ UNCHANGED <<jobData, attemptsMade, stalls>>
  \/ lockedBy[k] # s /\ UNCHANGED queueVars

\* Mutant of NextTry: one attempt too many.
OneTryMore(k) == IF attemptsMade[k] <= Attempts THEN "delayed" ELSE "failed"

NextTry(k) == IF attemptsMade[k] < Attempts THEN "delayed" ELSE "failed"

Fail(k, s) ==
  \/ /\ lockedBy[k] = s
     /\ jobState' = [jobState EXCEPT ![k] = NextTry(k)]
     /\ Unlock(k)
     /\ UNCHANGED <<jobData, attemptsMade, stalls>>
  \/ lockedBy[k] # s /\ UNCHANGED queueVars

\* Mutant of Promote: the retry starts counting its attempts again.
PromoteAfresh(k) ==
  /\ jobState[k] = "delayed"
  /\ jobState' = [jobState EXCEPT ![k] = "waiting"]
  /\ attemptsMade' = [attemptsMade EXCEPT ![k] = 0]
  /\ UNCHANGED <<jobData, stalls, lockedBy>>

\* The backoff of a retried job is over.
Promote(k) ==
  /\ jobState[k] = "delayed"
  /\ jobState' = [jobState EXCEPT ![k] = "waiting"]
  /\ UNCHANGED <<jobData, attemptsMade, stalls, lockedBy>>

\* The lock of a running processor is not renewed in time.
LoseLock(k) ==
  /\ lockedBy[k] # NoSlot
  /\ Unlock(k)
  /\ UNCHANGED <<jobState, jobData, attemptsMade, stalls>>

\* The stalled checker finds an active job without a lock.
AfterStall(k) == IF stalls[k] < MaxStalled THEN "waiting" ELSE "failed"

\* Mutant of RecoverStalled: a job that is still locked counts as stalled.
RecoverRunning(k) ==
  /\ jobState[k] = "active"
  /\ jobState' = [jobState EXCEPT ![k] = AfterStall(k)]
  /\ stalls' = [stalls EXCEPT ![k] = @ + 1]
  /\ UNCHANGED <<jobData, attemptsMade, lockedBy>>

RecoverStalled(k) ==
  /\ jobState[k] = "active" /\ lockedBy[k] = NoSlot
  /\ jobState' = [jobState EXCEPT ![k] = AfterStall(k)]
  /\ stalls' = [stalls EXCEPT ![k] = @ + 1]
  /\ UNCHANGED <<jobData, attemptsMade, lockedBy>>

\* Mutant of RemoveJob: a job waiting for its retry is removed as failed.
RemoveRetriedJob(k) ==
  /\ jobState[k] \in {"completed", "failed", "delayed"}
  /\ jobState' = [jobState EXCEPT ![k] = "absent"]
  /\ jobData' = [jobData EXCEPT ![k] = NoJob]
  /\ UNCHANGED <<attemptsMade, stalls, lockedBy>>

\* removeOnComplete and removeOnFail: the retention of a finished job ends.
RemoveJob(k) ==
  /\ jobState[k] \in {"completed", "failed"}
  /\ jobState' = [jobState EXCEPT ![k] = "absent"]
  /\ jobData' = [jobData EXCEPT ![k] = NoJob]
  /\ UNCHANGED <<attemptsMade, stalls, lockedBy>>
=============================================================================
