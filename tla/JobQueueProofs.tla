--------------------------- MODULE JobQueueProofs ---------------------------
(***************************************************************************)
(* Every operation of the queue keeps its records well formed.             *)
(***************************************************************************)
EXTENDS JobQueue, TLAPS

\* A record holds the data of a request with its key, and only a job that is
\* active is locked.
QueueOK ==
  /\ QueueTypeOK
  /\ \A k \in Keys : jobState[k] # "absent" => jobData[k] \in Duplicates(k)
  /\ \A k \in Keys : lockedBy[k] # NoSlot => jobState[k] = "active"

\* The empty queue is well formed.
LEMMA QueueInitOK == QueueInit => QueueOK
BY DEF QueueInit, QueueOK, QueueTypeOK, JobStates

\* A step that leaves the queue alone keeps it well formed.
LEMMA QueueStutterOK == QueueOK /\ UNCHANGED queueVars => QueueOK'
BY DEF QueueOK, QueueTypeOK, queueVars

\* Adding a job under the key of its request keeps the queue well formed.
LEMMA AddOK ==
  ASSUME QueueOK, NEW k \in Keys, NEW r \in Duplicates(k), Add(k, r)
  PROVE  QueueOK'
<1>1. CASE UNCHANGED queueVars
  BY <1>1, QueueStutterOK
<1>2. CASE /\ jobState[k] = "absent"
           /\ jobState' = [jobState EXCEPT ![k] = "waiting"]
           /\ jobData' = [jobData EXCEPT ![k] = r]
           /\ attemptsMade' = [attemptsMade EXCEPT ![k] = 0]
           /\ stalls' = [stalls EXCEPT ![k] = 0]
           /\ UNCHANGED lockedBy
  <2>1. r \in Requests
    BY DEF Duplicates
  <2>2. QueueTypeOK'
    BY <1>2, <2>1 DEF QueueOK, QueueTypeOK, JobStates
  <2>3. (\A q \in Keys : jobState[q] # "absent" => jobData[q] \in Duplicates(q))'
    BY <1>2 DEF QueueOK, QueueTypeOK
  <2>4. (\A q \in Keys : lockedBy[q] # NoSlot => jobState[q] = "active")'
    BY <1>2 DEF QueueOK, QueueTypeOK
  <2>5. QED
    BY <2>2, <2>3, <2>4 DEF QueueOK
<1>3. QED
  BY <1>1, <1>2 DEF Add

\* So does fetching a job, which locks only that job.
LEMMA ActivateOK ==
  ASSUME QueueOK, NEW k \in Keys, NEW s \in Slots, Activate(k, s)
  PROVE  QueueOK'
<1>1. QueueTypeOK'
  BY DEF Activate, QueueOK, QueueTypeOK, JobStates
<1>2. (\A q \in Keys : jobState[q] # "absent" => jobData[q] \in Duplicates(q))'
  BY DEF Activate, QueueOK, QueueTypeOK
<1>3. (\A q \in Keys : lockedBy[q] # NoSlot => jobState[q] = "active")'
  BY DEF Activate, QueueOK, QueueTypeOK
<1>4. QED
  BY <1>1, <1>2, <1>3 DEF QueueOK

\* Complete and Fail move a locked job to a state and unlock it.
LEMMA UnlockToOK ==
  ASSUME QueueOK, NEW k \in Keys, jobState[k] # "absent", NEW state \in JobStates,
         jobState' = [jobState EXCEPT ![k] = state], Unlock(k),
         UNCHANGED <<jobData, attemptsMade, stalls>>
  PROVE  QueueOK'
<1>1. QueueTypeOK'
  BY DEF Unlock, QueueOK, QueueTypeOK
<1>2. (\A q \in Keys : jobState[q] # "absent" => jobData[q] \in Duplicates(q))'
  BY DEF Unlock, QueueOK, QueueTypeOK
<1>3. (\A q \in Keys : lockedBy[q] # NoSlot => jobState[q] = "active")'
  BY DEF Unlock, QueueOK, QueueTypeOK
<1>4. QED
  BY <1>1, <1>2, <1>3 DEF QueueOK

\* So does completing a job, with or without its lock.
LEMMA CompleteOK ==
  ASSUME QueueOK, NEW k \in Keys, NEW s \in Slots, Complete(k, s)
  PROVE  QueueOK'
<1>1. CASE UNCHANGED queueVars
  BY <1>1, QueueStutterOK
<1>2. CASE lockedBy[k] = s
  <2>1. jobState[k] # "absent"
    BY <1>2, NoSlotAssumption DEF QueueOK
  <2>2. "completed" \in JobStates
    BY DEF JobStates
  <2>3. /\ jobState' = [jobState EXCEPT ![k] = "completed"]
        /\ Unlock(k)
        /\ UNCHANGED <<jobData, attemptsMade, stalls>>
    BY <1>2 DEF Complete
  <2>4. QED
    BY <2>1, <2>2, <2>3, UnlockToOK
<1>3. QED
  BY <1>1, <1>2 DEF Complete

\* So does failing one: it goes to the delayed set or to the failed set.
LEMMA FailOK ==
  ASSUME QueueOK, NEW k \in Keys, NEW s \in Slots, Fail(k, s)
  PROVE  QueueOK'
<1>1. CASE UNCHANGED queueVars
  BY <1>1, QueueStutterOK
<1>2. CASE lockedBy[k] = s
  <2>1. jobState[k] # "absent"
    BY <1>2, NoSlotAssumption DEF QueueOK
  <2>2. NextTry(k) \in JobStates
    BY DEF NextTry, JobStates
  <2>3. /\ jobState' = [jobState EXCEPT ![k] = NextTry(k)]
        /\ Unlock(k)
        /\ UNCHANGED <<jobData, attemptsMade, stalls>>
    BY <1>2 DEF Fail
  <2>4. QED
    BY <2>1, <2>2, <2>3, UnlockToOK
<1>3. QED
  BY <1>1, <1>2 DEF Fail

\* So does the end of a backoff.
LEMMA PromoteOK == ASSUME QueueOK, NEW k \in Keys, Promote(k) PROVE QueueOK'
<1>1. QueueTypeOK'
  BY DEF Promote, QueueOK, QueueTypeOK, JobStates
<1>2. (\A q \in Keys : jobState[q] # "absent" => jobData[q] \in Duplicates(q))'
  BY DEF Promote, QueueOK, QueueTypeOK
<1>3. (\A q \in Keys : lockedBy[q] # NoSlot => jobState[q] = "active")'
  BY DEF Promote, QueueOK, QueueTypeOK
<1>4. QED
  BY <1>1, <1>2, <1>3 DEF QueueOK

\* So does losing a lock.
LEMMA LoseLockOK == ASSUME QueueOK, NEW k \in Keys, LoseLock(k) PROVE QueueOK'
BY DEF LoseLock, Unlock, QueueOK, QueueTypeOK

\* So does recovering a stalled job, which has no lock to leave behind.
LEMMA RecoverStalledOK ==
  ASSUME QueueOK, NEW k \in Keys, RecoverStalled(k)
  PROVE  QueueOK'
<1>1. QueueTypeOK'
  BY DEF RecoverStalled, AfterStall, QueueOK, QueueTypeOK, JobStates
<1>2. (\A q \in Keys : jobState[q] # "absent" => jobData[q] \in Duplicates(q))'
  BY DEF RecoverStalled, QueueOK, QueueTypeOK
<1>3. (\A q \in Keys : lockedBy[q] # NoSlot => jobState[q] = "active")'
  BY DEF RecoverStalled, QueueOK, QueueTypeOK
<1>4. QED
  BY <1>1, <1>2, <1>3 DEF QueueOK

\* So does removing a finished job, which has no lock to leave behind.
LEMMA RemoveJobOK == ASSUME QueueOK, NEW k \in Keys, RemoveJob(k) PROVE QueueOK'
<1>1. QueueTypeOK'
  BY DEF RemoveJob, QueueOK, QueueTypeOK, JobStates
<1>2. (\A q \in Keys : jobState[q] # "absent" => jobData[q] \in Duplicates(q))'
  BY DEF RemoveJob, QueueOK, QueueTypeOK
<1>3. (\A q \in Keys : lockedBy[q] # NoSlot => jobState[q] = "active")'
  BY DEF RemoveJob, QueueOK, QueueTypeOK
<1>4. QED
  BY <1>1, <1>2, <1>3 DEF QueueOK
=============================================================================
