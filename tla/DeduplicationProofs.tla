------------------------- MODULE DeduplicationProofs -------------------------
(***************************************************************************)
(* Proofs of the two properties of the gateway that rest on its processors *)
(* excluding each other: a completed job is no longer reported failed, and *)
(* a key is delivered at most once where no fault can repeat a delivery.   *)
(***************************************************************************)
EXTENDS GatewayProofs

-----------------------------------------------------------------------------
\* Once the delivery of a job is stored, nothing stores a failure of it: the job
\* is completed, or the processor that stored it still holds its lock.
SuccessStands ==
  Without({"lock"}) =>
    /\ \A k \in Keys : jobState[k] = "completed" => cache[k].kind # "failed"
    /\ \A s \in Slots :
         slotPc[s] = "completing" => cache[slotKey[s]].kind # "failed"

\* A placeholder reports no failure.
LEMMA NotYetFailed == Missing.kind # "failed" /\ Placeholder.kind # "failed"
BY DEF Missing, Placeholder

\* Nothing is stored before the first request.
LEMMA SuccessStandsInit == Init => SuccessStands
BY KindOfEntry DEF Init, QueueInit, SuccessStands

\* Only a processor that stored a failure stores one, and it holds the job's lock.
LEMMA SuccessStandsStep ==
  Consistent /\ Exclusive /\ SuccessStands /\ [Next]_vars => SuccessStands'
<1> SUFFICES ASSUME Consistent, Exclusive, SuccessStands, [Next]_vars, Without({"lock"})
             PROVE  /\ \A k \in Keys : jobState'[k] = "completed" => cache'[k].kind # "failed"
                    /\ \A s \in Slots :
                         slotPc'[s] = "completing" => cache'[slotKey'[s]].kind # "failed"
    BY DEF SuccessStands, Without
<1> DEFINE Over(k) == \/ jobState[k] = "completed"
                      \/ \E s \in Slots : slotPc[s] = "completing" /\ slotKey[s] = k
<1>a. /\ cache \in [Keys -> Entries]
      /\ slotPc \in [Slots -> SlotSteps]
      /\ slotKey \in [Slots -> Keys \cup {NoJob}]
      /\ jobState \in [Keys -> JobStates]
  BY DEF Consistent, CacheTypeOK, GatewayTypeOK, QueueOK, QueueTypeOK
<1>b. \A s \in Slots : slotPc[s] # "idle" =>
        /\ slotKey[s] \in Keys /\ lockedBy[slotKey[s]] = s
        /\ jobState[slotKey[s]] = "active"
  BY NoSlotAssumption DEF Exclusive, Consistent, SlotsHaveJobs, QueueOK
<1>c. \A k \in Keys : Over(k) => cache[k].kind # "failed"
  BY DEF SuccessStands
<1>1. \A k \in Keys : Over(k) => cache'[k].kind # "failed"
  <2> SUFFICES ASSUME NEW k \in Keys, Over(k) PROVE cache'[k].kind # "failed"
    OBVIOUS
  <2>1. CASE \E s \in Slots : /\ slotPc[s] = "storingFailure"
                              /\ SetEntry(slotKey[s], Failed(slotJob[s]))
    <3>1. PICK s \in Slots : /\ slotPc[s] = "storingFailure"
                             /\ SetEntry(slotKey[s], Failed(slotJob[s]))
      BY <2>1
    <3>2. slotKey[s] # k
      BY <1>b, <3>1
    <3>3. QED
      BY <1>a, <1>c, <3>1, <3>2 DEF SetEntry
  <2>2. CASE UNCHANGED cache \/ \E q, e : SetEntry(q, e) /\ e.kind # "failed"
    BY <1>a, <1>c, <2>2 DEF SetEntry
  <2>3. QED
    BY <2>1, <2>2, CacheChanges, KindOfEntry, NotYetFailed
<1>2. \A k \in Keys : jobState'[k] = "completed" => Over(k)
  BY <1>a, QueueChanges
     DEF Add, Activate, Complete, Promote, RecoverStalled, RemoveJob, FailJob, Fail,
         RequeueStalled, NextTry, AfterStall, queueVars
<1>3. ASSUME NEW s \in Slots, slotPc'[s] = "completing"
      PROVE  cache'[slotKey'[s]].kind # "failed"
  <2>1. CASE StoreSent(s)
    <3>1. slotKey'[s] = slotKey[s] /\ SetEntry(slotKey[s], Sent(slotJob[s]))
      BY <2>1 DEF StoreSent, SlotGoto, StoreSuccess
    <3>2. slotKey[s] \in Keys
      BY <1>b, <2>1 DEF StoreSent
    <3>3. QED
      BY <1>a, <3>1, <3>2, KindOfEntry DEF SetEntry
  <2>2. CASE slotPc[s] = "completing" /\ slotKey'[s] = slotKey[s]
    BY <1>1, <1>b, <2>2
  <2>3. CASE UNCHANGED slotVars
    BY <1>3, <2>2, <2>3 DEF slotVars
  <2>4. CASE \E t \in Slots, k \in Keys : TakeJob(t, k)
    BY <1>a, <1>3, <2>2, <2>4 DEF TakeJob
  <2>5. CASE \E t \in Slots :
               Send(t) \/ ProviderHangs(t) \/ StoreSent(t) \/ StoreFailed(t)
    BY <1>a, <1>3, <2>1, <2>2, <2>5
       DEF Send, SlotStepAfter, ProviderHangs, StoreSent, StoreFailed, SlotGoto
  <2>6. CASE \E t \in Slots : SlotCommandFails(t) \/ SlotCommandRefused(t)
    BY <1>a, <1>3, <2>2, <2>6
       DEF SlotCommandFails, SlotCommandRefused, SlotRejected, SlotGoto
  <2>7. CASE \E t \in Slots : FinishJob(t) \/ FailJob(t)
    BY <1>a, <1>3, <2>2, <2>7 DEF FinishJob, FailJob, Free
  <2>8. CASE \E k \in Keys : LockLost(k)
    BY <2>3, <2>8 DEF LockLost
  <2>9. CASE \E i \in Instances : Crash(i)
    BY <1>a, <1>3, <2>2, <2>9 DEF Crash
  <2>10. QED
    BY <2>3, <2>4, <2>5, <2>6, <2>7, <2>8, <2>9, SlotChanges DEF slotVars
<1>4. QED
  BY <1>1, <1>2, <1>3

-----------------------------------------------------------------------------
\* Where AtMostOncePerKey applies, a processor sends what the record of its key
\* holds, and a delivery is the end of that record's processing.
Repeating == {"redis", "end", "crash", "lock", "removal"}

Finishing(k) == \/ jobState[k] = "completed"
                \/ \E s \in Slots : /\ slotPc[s] \in {"hung", "storing", "completing"}
                                    /\ slotKey[s] = k

DeliveredOnce ==
  Without(Repeating) =>
    /\ \A s \in Slots : slotPc[s] # "idle" => slotJob[s] = jobData[slotKey[s]]
    /\ \A r \in Requests : sends[r] > 0 =>
         sends[r] = 1 /\ r = jobData[KeyOf[r]] /\ Finishing(KeyOf[r])

\* Nothing is delivered before the first request.
LEMMA DeliveredOnceInit == Init => DeliveredOnce
BY DEF Init, DeliveredOnce

\* The data of a record never changes, while none is removed.
LEMMA JobDataStays ==
  ASSUME Consistent, [Next]_vars, Without(Repeating),
         NEW k \in Keys, jobState[k] # "absent"
  PROVE  jobData'[k] = jobData[k]
<1>1. jobData \in [Keys -> Requests \cup {NoJob}]
  BY DEF Consistent, QueueOK, QueueTypeOK
<1>2. CASE \E r \in Requests : Add(KeyOf[r], r)
  BY <1>1, <1>2 DEF Add, queueVars
<1>3. CASE UNCHANGED jobData
  BY <1>3
<1>4. UNCHANGED jobData \/ \E r \in Requests : Add(KeyOf[r], r)
  BY DEF Next, Handler, Processor, QueueTimer, Quiescent, vars, queueVars,
         CheckRateLimit, Lookup, LockKey, Record, Enqueue, Store, HandlerCommandFails,
         HandlerCommandResent, HandlerCommandRefused, CommandExecutes, TakeJob,
         Activate, Send, ProviderHangs, StoreSent, StoreFailed, SlotCommandFails,
         SlotCommandResent, SlotCommandRefused, SlotRejected, SlotCommandExecutes,
         FinishJob, Complete, FailJob, Fail, WakeJob, Promote, RequeueStalled,
         RecoverStalled, WindowSlides, LockLost, LoseLock, CacheExpires, JobRemoved,
         Fault, Without, Repeating, Crash, ClientEnds, CloseWorker, Restart, StartAgain
<1>5. QED
  BY <1>2, <1>3, <1>4

\* A key that is about to be completed, or is, stays so.
LEMMA FinishingStays ==
  ASSUME Consistent, Exclusive, NoneEnded, [Next]_vars, Without(Repeating),
         NEW k \in Keys, Finishing(k)
  PROVE  Finishing(k)'
<1>a. /\ slotPc \in [Slots -> SlotSteps]
      /\ slotKey \in [Slots -> Keys \cup {NoJob}]
      /\ jobState \in [Keys -> JobStates]
      /\ lockedBy \in [Keys -> Slots \cup {NoSlot}]
  BY DEF Consistent, GatewayTypeOK, QueueOK, QueueTypeOK
<1>b. \A s \in Slots : slotPc[s] # "idle" =>
        /\ slotKey[s] \in Keys /\ lockedBy[slotKey[s]] = s
        /\ jobState[slotKey[s]] = "active"
  BY NoSlotAssumption
     DEF Exclusive, Consistent, SlotsHaveJobs, QueueOK, Without, Repeating
<1>1. CASE jobState[k] = "completed"
  <2>1. jobState'[k] = "completed"
    <3>1. \A s \in Slots : slotPc[s] # "idle" => slotKey[s] # k
      BY <1>b, <1>1
    <3>2. \A q \in Keys : ~JobRemoved(q)
      BY DEF JobRemoved, Fault, Without, Repeating
    <3>3. QED
      BY <1>a, <1>1, <3>1, <3>2
         DEF Next, Handler, Processor, QueueTimer, Quiescent, vars, queueVars,
             CheckRateLimit, Lookup, LockKey, Record, Enqueue, Store,
             HandlerCommandFails, HandlerCommandResent, HandlerCommandRefused,
             CommandExecutes, TakeJob, Activate, Send, ProviderHangs, StoreSent,
             StoreFailed, SlotCommandFails, SlotCommandResent, SlotCommandRefused,
             SlotRejected, SlotCommandExecutes, FinishJob, Complete, FailJob, Fail,
             WakeJob, Promote, RequeueStalled, RecoverStalled, WindowSlides, LockLost,
             LoseLock, CacheExpires, Crash, Add, ClientEnds, CloseWorker, Restart,
             StartAgain
  <2>2. QED
    BY <2>1 DEF Finishing
<1>2. ASSUME NEW s \in Slots, slotPc[s] \in {"hung", "storing", "completing"},
             slotKey[s] = k
      PROVE  Finishing(k)'
  <2>a. lockedBy[k] = s
    BY <1>b, <1>2
  <2>1. CASE FinishJob(s)
    BY <1>a, <1>2, <2>a, <2>1 DEF FinishJob, Complete, Finishing
  <2>2. CASE StoreSent(s)
    BY <1>a, <1>2, <2>2 DEF StoreSent, SlotGoto, Finishing
  <2>3. CASE slotPc'[s] = slotPc[s] /\ slotKey'[s] = slotKey[s]
    BY <1>2, <2>3 DEF Finishing
  <2>4. CASE \E t \in Slots, q \in Keys : TakeJob(t, q)
    BY <1>a, <1>2, <2>3, <2>4 DEF TakeJob
  <2>5. CASE \E t \in Slots :
               Send(t) \/ ProviderHangs(t) \/ StoreSent(t) \/ StoreFailed(t)
    BY <1>a, <1>2, <2>2, <2>3, <2>5
       DEF Send, ProviderHangs, StoreSent, StoreFailed, SlotGoto
  <2>6. CASE \E t \in Slots : FinishJob(t) \/ FailJob(t)
    BY <1>a, <1>2, <2>1, <2>3, <2>6 DEF FinishJob, FailJob, Free
  <2>7. CASE \/ \E t \in Slots : SlotCommandFails(t) \/ SlotCommandRefused(t)
             \/ \E q \in Keys : LockLost(q)
             \/ \E i \in Instances : Crash(i)
    BY <2>7
       DEF SlotCommandFails, SlotCommandRefused, NoneEnded, Connected, LockLost, Crash,
           Fault, Without, Repeating
  <2>8. CASE UNCHANGED slotVars
    BY <2>3, <2>8 DEF slotVars
  <2>9. QED
    BY <2>4, <2>5, <2>6, <2>7, <2>8, SlotChanges DEF slotVars
<1>3. QED
  BY <1>1, <1>2 DEF Finishing

\* A processor that delivers has the only copy of a record not yet delivered.
LEMMA DeliveredOnceStep ==
  Consistent /\ Exclusive /\ NoneEnded /\ DeliveredOnce /\ [Next]_vars
    => DeliveredOnce'
<1> SUFFICES ASSUME Consistent, Exclusive, NoneEnded, DeliveredOnce, [Next]_vars,
                    Without(Repeating)
             PROVE  /\ \A s \in Slots :
                         slotPc'[s] # "idle" => slotJob'[s] = jobData'[slotKey'[s]]
                    /\ \A r \in Requests : sends'[r] > 0 =>
                         /\ sends'[r] = 1 /\ r = jobData'[KeyOf[r]]
                         /\ Finishing(KeyOf[r])'
    BY DEF DeliveredOnce, Without
<1> USE RequestFields
<1>a. /\ slotPc \in [Slots -> SlotSteps]
      /\ slotKey \in [Slots -> Keys \cup {NoJob}]
      /\ slotJob \in [Slots -> Requests \cup {NoJob}]
      /\ sends \in [Requests -> Nat]
  BY DEF Consistent, GatewayTypeOK
<1>b. \A s \in Slots : slotPc[s] # "idle" =>
        /\ slotKey[s] \in Keys /\ lockedBy[slotKey[s]] = s
        /\ jobState[slotKey[s]] = "active"
        /\ slotJob[s] \in Requests /\ KeyOf[slotJob[s]] = slotKey[s]
  BY NoSlotAssumption
     DEF Exclusive, Consistent, SlotsHaveJobs, Duplicates, QueueOK, Without, Repeating
<1>c. \A k \in Keys : Finishing(k) => jobState[k] # "absent"
  BY <1>b DEF Finishing
<1>1. ASSUME NEW s \in Slots, slotPc'[s] # "idle"
      PROVE  slotJob'[s] = jobData'[slotKey'[s]]
  <2>1. CASE slotPc[s] # "idle" /\ slotKey'[s] = slotKey[s] /\ slotJob'[s] = slotJob[s]
    BY <1>b, <2>1, JobDataStays DEF DeliveredOnce
  <2>2. CASE \E t \in Slots, k \in Keys : TakeJob(t, k)
    BY <1>a, <1>1, <2>1, <2>2 DEF TakeJob, Activate
  <2>3. CASE \E t \in Slots :
               Send(t) \/ ProviderHangs(t) \/ StoreSent(t) \/ StoreFailed(t)
    BY <1>a, <1>1, <2>1, <2>3
       DEF Send, ProviderHangs, StoreSent, StoreFailed, SlotGoto
  <2>4. CASE \E t \in Slots : FinishJob(t) \/ FailJob(t)
    BY <1>a, <1>1, <2>1, <2>4 DEF FinishJob, FailJob, Free
  <2>5. CASE \/ \E t \in Slots : SlotCommandFails(t) \/ SlotCommandRefused(t)
             \/ \E q \in Keys : LockLost(q)
             \/ \E i \in Instances : Crash(i)
    BY <2>5
       DEF SlotCommandFails, SlotCommandRefused, NoneEnded, Connected, LockLost, Crash,
           Fault, Without, Repeating
  <2>6. CASE UNCHANGED slotVars
    BY <1>1, <2>1, <2>6 DEF slotVars
  <2>7. QED
    BY <2>2, <2>3, <2>4, <2>5, <2>6, SlotChanges DEF slotVars
<1>2. ASSUME NEW r \in Requests, sends[r] > 0
      PROVE  r = jobData'[KeyOf[r]] /\ Finishing(KeyOf[r])'
  <2>1. r = jobData[KeyOf[r]] /\ Finishing(KeyOf[r]) /\ KeyOf[r] \in Keys
    BY <1>2 DEF DeliveredOnce
  <2>2. QED
    BY <1>c, <2>1, JobDataStays, FinishingStays
<1>3. CASE UNCHANGED sends
  BY <1>1, <1>2, <1>3 DEF DeliveredOnce
<1>4. ASSUME NEW s \in Slots, slotPc[s] = "sending", UNCHANGED <<jobData, slotKey, slotJob>>,
             slotPc'[s] \in {"hung", "storing"},
             sends' = [sends EXCEPT ![slotJob[s]] = @ + 1]
      PROVE  \A r \in Requests : sends'[r] > 0 =>
               sends'[r] = 1 /\ r = jobData'[KeyOf[r]] /\ Finishing(KeyOf[r])'
  <2>1. ~Finishing(slotKey[s])
    BY <1>b, <1>4 DEF Finishing
  <2>2. sends[slotJob[s]] = 0
    <3>1. ~(sends[slotJob[s]] > 0)
      BY <1>b, <1>4, <2>1 DEF DeliveredOnce
    <3>2. QED
      BY <1>a, <1>b, <1>4, <3>1
  <2>3. Finishing(slotKey[s])'
    BY <1>4 DEF Finishing
  <2>4. slotJob[s] = jobData'[slotKey[s]]
    BY <1>4 DEF DeliveredOnce
  <2>5. /\ sends'[slotJob[s]] = 1
        /\ \A r \in Requests : r # slotJob[s] => sends'[r] = sends[r]
    BY <1>a, <1>b, <1>4, <2>2
  <2>6. QED
    BY <1>2, <1>b, <1>4, <2>3, <2>4, <2>5 DEF DeliveredOnce
<1>5. CASE \E s \in Slots : Send(s)
  <2>1. PICK s \in Slots, o \in Outcomes :
          /\ slotPc[s] = "sending"
          /\ ProviderAnswers(s, o)
          /\ slotPc' = [slotPc EXCEPT ![s] = SlotStepAfter(callPhase'[s])]
          /\ sends' = IF o = "ok" THEN [sends EXCEPT ![slotJob[s]] = @ + 1] ELSE sends
          /\ UNCHANGED <<queueVars, slotKey, slotJob>>
    BY <1>5 DEF Send
  <2>2. CASE o # "ok"
    BY <1>3, <2>1, <2>2
  <2>3. CASE o = "ok"
    <3>1. callPhase'[s] = PhaseAfter(s, o)
      BY <2>1 DEF ProviderAnswers, Consistent, CallTypeOK
    <3>2. callPhase'[s] = "sent"
      BY <2>3, <3>1 DEF PhaseAfter
    <3>3. slotPc'[s] = "storing"
      BY <1>a, <2>1, <3>2 DEF SlotStepAfter
    <3>4. QED
      BY <1>1, <1>4, <2>1, <2>3, <3>3 DEF queueVars
  <2>4. QED
    BY <2>2, <2>3
<1>6. CASE \E s \in Slots : ProviderHangs(s)
  <2>1. PICK s \in Slots : /\ slotPc[s] = "sending"
                          /\ slotPc' = [slotPc EXCEPT ![s] = "hung"]
                          /\ sends' \in {sends, [sends EXCEPT ![slotJob[s]] = @ + 1]}
                          /\ UNCHANGED <<queueVars, slotKey, slotJob>>
    BY <1>6 DEF ProviderHangs
  <2>2. slotPc'[s] = "hung"
    BY <1>a, <2>1
  <2>3. QED
    BY <1>1, <1>3, <1>4, <2>1, <2>2 DEF queueVars
<1>7. UNCHANGED sends \/ \E s \in Slots : Send(s) \/ ProviderHangs(s)
  BY DEF Next, Handler, Processor, QueueTimer, Quiescent, vars, observed,
         CheckRateLimit, Lookup, LockKey, Record, Enqueue, Store, HandlerCommandFails,
         HandlerCommandResent, HandlerCommandRefused, CommandExecutes, TakeJob,
         StoreSent, StoreFailed, SlotCommandFails, SlotCommandResent,
         SlotCommandRefused, SlotRejected, SlotCommandExecutes, FinishJob, FailJob,
         WakeJob, RequeueStalled, WindowSlides, LockLost, CacheExpires, JobRemoved,
         Crash, ClientEnds, CloseWorker, Restart, StartAgain
<1>8. QED
  BY <1>3, <1>5, <1>6, <1>7

-----------------------------------------------------------------------------
\* No client is told that a completed job failed, while no lock is lost.
THEOREM CompletionReported == Spec => []CompletedIsNotReportedFailed
<1>1. Spec => []SuccessStands
  BY ConsistentAlways, ExclusiveAlways, SuccessStandsInit, SuccessStandsStep, PTL
     DEF Spec
<1>2. SuccessStands => CompletedIsNotReportedFailed
  BY DEF SuccessStands, CompletedIsNotReportedFailed
<1>3. QED
  BY <1>1, <1>2, PTL

\* Deduplication: duplicates, retries, expiring cache entries and a moving rate
\* limit never deliver a key twice.
THEOREM Deduplicated == Spec => []AtMostOncePerKey
<1>1. Spec => []DeliveredOnce
  BY ConsistentAlways, ExclusiveAlways, NoneEndedAlways, DeliveredOnceInit,
     DeliveredOnceStep, PTL DEF Spec
<1>2. DeliveredOnce => AtMostOncePerKey
  BY DEF DeliveredOnce, AtMostOncePerKey, Repeating
<1>3. QED
  BY <1>1, <1>2, PTL
=============================================================================
