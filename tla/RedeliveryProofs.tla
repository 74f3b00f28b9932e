--------------------------- MODULE RedeliveryProofs ---------------------------
(***************************************************************************)
(* Proofs of the two bounds on how often a notification is delivered.      *)
(* What counts against a bound is the deliveries so far and the processors *)
(* that may still deliver; the inductive invariants below say how many of  *)
(* them the attempts of the job, or the faults so far, can pay for.        *)
(***************************************************************************)
EXTENDS GatewayProofs, FiniteSetTheorems

\* A lock is held by a processor that works on the record it locks, with the
\* data of that record, and a record that is not there has no data.
Holders ==
  /\ \A k \in Keys : lockedBy[k] # NoSlot =>
       /\ slotPc[lockedBy[k]] # "idle" /\ slotKey[lockedBy[k]] = k
       /\ slotJob[lockedBy[k]] = jobData[k]
  /\ \A k \in Keys : jobState[k] = "absent" => jobData[k] = NoJob

\* Which steps write the records of the queue, locks apart.
LEMMA RecordChanges ==
  ASSUME [Next]_vars
  PROVE  \/ UNCHANGED <<jobState, jobData, attemptsMade, stalls>>
         \/ \E r \in Requests : pc[r] = "enqueue" /\ Add(KeyOf[r], r) /\ UNCHANGED slotVars
         \/ \E s \in Slots, k \in Keys : TakeJob(s, k)
         \/ \E s \in Slots : FinishJob(s) \/ FailJob(s)
         \/ \E k \in Keys : WakeJob(k) \/ RequeueStalled(k) \/ JobRemoved(k)
BY DEF Next, Handler, Processor, QueueTimer, Quiescent, vars, queueVars, slotVars,
       observed, CheckRateLimit, Lookup, LockKey, Record, Enqueue, Store,
       HandlerCommandFails, HandlerCommandResent, HandlerCommandRefused,
       CommandExecutes, Send, ProviderHangs, StoreSent, StoreFailed, SlotCommandFails,
       SlotCommandResent, SlotCommandRefused, WindowSlides, LockLost, LoseLock,
       CacheExpires, Crash, ClientEnds, CloseWorker, Restart, StartAgain

\* The data of a record changes only when it is added or removed.
LEMMA DataChanges ==
  ASSUME Consistent, [Next]_vars, NEW k \in Keys
  PROVE  \/ /\ jobData'[k] = jobData[k]
            /\ jobState'[k] = "absent" => jobState[k] = "absent"
         \/ /\ jobState[k] = "absent" /\ jobState'[k] = "waiting"
            /\ \E r \in Duplicates(k) : jobData'[k] = r /\ pc[r] = "enqueue"
         \/ /\ jobState[k] \in {"completed", "failed"} /\ jobState'[k] = "absent"
            /\ jobData'[k] = NoJob
            /\ \E q \in Keys : JobRemoved(q)
<1>a. /\ jobState \in [Keys -> JobStates]
      /\ jobData \in [Keys -> Requests \cup {NoJob}]
  BY DEF Consistent, QueueOK, QueueTypeOK
<1>1. CASE UNCHANGED <<jobState, jobData>>
  BY <1>1
<1>2. CASE \E r \in Requests : pc[r] = "enqueue" /\ Add(KeyOf[r], r)
  <2>1. PICK r \in Requests : pc[r] = "enqueue" /\ Add(KeyOf[r], r)
    BY <1>2
  <2>2. KeyOf[r] = k => r \in Duplicates(k)
    BY DEF Duplicates
  <2>3. QED
    BY <1>a, <2>1, <2>2 DEF Add, queueVars
<1>3. CASE \E s \in Slots, q \in Keys : TakeJob(s, q)
  BY <1>a, <1>3 DEF TakeJob, Activate
<1>4. CASE \E s \in Slots : FinishJob(s) \/ FailJob(s)
  BY <1>a, <1>4 DEF FinishJob, FailJob, Complete, Fail, NextTry, queueVars
<1>5. CASE \E q \in Keys : WakeJob(q) \/ RequeueStalled(q)
  BY <1>a, <1>5 DEF WakeJob, Promote, RequeueStalled, RecoverStalled, AfterStall
<1>6. CASE \E q \in Keys : JobRemoved(q)
  BY <1>a, <1>6 DEF JobRemoved, RemoveJob
<1>7. QED
  BY <1>1, <1>2, <1>3, <1>4, <1>5, <1>6, RecordChanges

\* Nothing is locked and no record exists at first.
LEMMA HoldersInit == Init => Holders
BY DEF Init, QueueInit, Holders

\* A processor that leaves its job unlocks it, and a locked record stays.
LEMMA HoldersStep == Consistent /\ Holders /\ [Next]_vars => Holders'
<1> SUFFICES ASSUME Consistent, Holders, [Next]_vars, NEW k \in Keys
             PROVE  /\ lockedBy'[k] # NoSlot =>
                         /\ slotPc'[lockedBy'[k]] # "idle" /\ slotKey'[lockedBy'[k]] = k
                         /\ slotJob'[lockedBy'[k]] = jobData'[k]
                    /\ jobState'[k] = "absent" => jobData'[k] = NoJob
    BY DEF Holders
<1>a. /\ slotPc \in [Slots -> SlotSteps]
      /\ slotKey \in [Slots -> Keys \cup {NoJob}]
      /\ slotJob \in [Slots -> Requests \cup {NoJob}]
      /\ lockedBy \in [Keys -> Slots \cup {NoSlot}]
  BY DEF Consistent, GatewayTypeOK, QueueOK, QueueTypeOK
<1>b. \A q \in Keys : lockedBy[q] # NoSlot =>
        /\ lockedBy[q] \in Slots /\ jobState[q] = "active"
        /\ slotPc[lockedBy[q]] # "idle" /\ slotKey[lockedBy[q]] = q
        /\ slotJob[lockedBy[q]] = jobData[q]
  BY <1>a DEF Holders, Consistent, QueueOK
<1>1. jobState'[k] = "absent" => jobData'[k] = NoJob
  BY DataChanges DEF Holders
<1>2. lockedBy[k] # NoSlot => jobData'[k] = jobData[k]
  BY <1>b, DataChanges
<1>3. ASSUME lockedBy'[k] = lockedBy[k], lockedBy[k] # NoSlot =>
               /\ slotPc'[lockedBy[k]] # "idle"
               /\ slotKey'[lockedBy[k]] = slotKey[lockedBy[k]]
               /\ slotJob'[lockedBy[k]] = slotJob[lockedBy[k]]
      PROVE  lockedBy'[k] # NoSlot =>
               /\ slotPc'[lockedBy'[k]] # "idle" /\ slotKey'[lockedBy'[k]] = k
               /\ slotJob'[lockedBy'[k]] = jobData'[k]
  BY <1>b, <1>2, <1>3
<1>4. CASE \E s \in Slots, q \in Keys : TakeJob(s, q)
  <2>1. PICK s \in Slots, q \in Keys : TakeJob(s, q)
    BY <1>4
  <2>2. /\ slotPc[s] = "idle" /\ lockedBy' = [lockedBy EXCEPT ![q] = s]
        /\ slotPc'[s] # "idle" /\ slotKey'[s] = q /\ slotJob'[s] = jobData[q]
        /\ jobData' = jobData
        /\ \A t \in Slots \ {s} : /\ slotPc'[t] = slotPc[t] /\ slotKey'[t] = slotKey[t]
                                  /\ slotJob'[t] = slotJob[t]
    BY <1>a, <2>1 DEF TakeJob, Activate
  <2>3. CASE k = q
    BY <1>a, <1>1, <2>2, <2>3
  <2>4. CASE k # q
    BY <1>a, <1>b, <1>1, <1>3, <2>2, <2>4
  <2>5. QED
    BY <2>3, <2>4
<1>5. CASE \E s \in Slots : Send(s) \/ ProviderHangs(s) \/ StoreSent(s) \/ StoreFailed(s)
  <2>1. /\ UNCHANGED <<slotKey, slotJob, lockedBy>>
        /\ \A t \in Slots : slotPc[t] # "idle" => slotPc'[t] # "idle"
    BY <1>a, <1>5 DEF Send, SlotStepAfter, ProviderHangs, StoreSent, StoreFailed,
                      SlotGoto, queueVars
  <2>2. QED
    BY <1>b, <1>1, <1>3, <2>1
<1>6. CASE \E s \in Slots : SlotCommandFails(s) \/ SlotCommandRefused(s)
  <2>1. /\ UNCHANGED <<slotKey, slotJob, lockedBy>>
        /\ \A t \in Slots : slotPc[t] # "idle" => slotPc'[t] # "idle"
    BY <1>a, <1>6 DEF SlotCommandFails, SlotCommandRefused, SlotRejected, SlotGoto,
                      queueVars
  <2>2. QED
    BY <1>b, <1>1, <1>3, <2>1
<1>7. CASE \E s \in Slots : FinishJob(s) \/ FailJob(s)
  <2>1. PICK s \in Slots : FinishJob(s) \/ FailJob(s)
    BY <1>7
  <2>2. /\ slotPc[s] # "idle" /\ slotKey[s] \in Keys
        /\ \/ lockedBy[slotKey[s]] # s /\ UNCHANGED lockedBy
           \/ lockedBy' = [lockedBy EXCEPT ![slotKey[s]] = NoSlot]
        /\ \A t \in Slots \ {s} : /\ slotPc'[t] = slotPc[t] /\ slotKey'[t] = slotKey[t]
                                  /\ slotJob'[t] = slotJob[t]
    BY <1>a, <2>1 DEF FinishJob, FailJob, Free, Complete, Fail, Unlock, queueVars,
                      Consistent, SlotsHaveJobs
  <2>3. lockedBy'[k] # NoSlot => lockedBy'[k] = lockedBy[k] /\ lockedBy[k] # s
    BY <1>a, <1>b, <2>2
  <2>4. QED
    BY <1>b, <1>1, <1>3, <2>2, <2>3
<1>8. CASE \E q \in Keys : LockLost(q)
  <2>1. UNCHANGED slotVars /\ (lockedBy'[k] = lockedBy[k] \/ lockedBy'[k] = NoSlot)
    BY <1>a, <1>8 DEF LockLost, LoseLock, Unlock
  <2>2. QED
    BY <1>b, <1>1, <1>3, <2>1 DEF slotVars
<1>9. CASE \E i \in Instances : Crash(i)
  <2>1. PICK i \in Instances : Crash(i)
    BY <1>9
  <2>2. /\ lockedBy[k] \in Slots /\ HostOf[lockedBy[k]] = i => lockedBy'[k] = NoSlot
        /\ lockedBy'[k] \in {lockedBy[k], NoSlot}
        /\ \A t \in Slots : HostOf[t] # i =>
             /\ slotPc'[t] = slotPc[t] /\ slotKey'[t] = slotKey[t]
             /\ slotJob'[t] = slotJob[t]
    BY <2>1 DEF Crash
  <2>3. QED
    BY <1>b, <1>1, <1>3, <2>2
<1>10. CASE UNCHANGED <<slotVars, lockedBy>>
  BY <1>b, <1>1, <1>3, <1>10 DEF slotVars
<1>11. QED
  BY <1>4, <1>5, <1>6, <1>7, <1>8, <1>9, <1>10, SlotChanges

-----------------------------------------------------------------------------
\* How many activations a record has had, and that it has one left if it waits
\* for one.
AttemptsLeft ==
  \A k \in Keys :
    /\ attemptsMade[k] <= Attempts + MaxStalled
    /\ Pending(k) => stalls[k] <= MaxStalled
    /\ jobState[k] \in {"waiting", "delayed"} => attemptsMade[k] < Attempts + stalls[k]
    /\ jobState[k] = "active" => attemptsMade[k] <= Attempts + stalls[k]

\* No record has been activated at first.
LEMMA AttemptsLeftInit == Init => AttemptsLeft
BY AttemptsAssumption DEF Init, QueueInit, AttemptsLeft, Pending

\* A failed job is retried only while attempts are left, and each recovery of a
\* stalled one adds an attempt.
LEMMA AttemptsLeftStep == Consistent /\ AttemptsLeft /\ [Next]_vars => AttemptsLeft'
<1> SUFFICES ASSUME Consistent, AttemptsLeft, [Next]_vars, NEW k \in Keys
             PROVE  (/\ attemptsMade[k] <= Attempts + MaxStalled
                     /\ Pending(k) => stalls[k] <= MaxStalled
                     /\ jobState[k] \in {"waiting", "delayed"} =>
                          attemptsMade[k] < Attempts + stalls[k]
                     /\ jobState[k] = "active" => attemptsMade[k] <= Attempts + stalls[k])'
    BY DEF AttemptsLeft
<1> USE AttemptsAssumption DEF Pending
<1>a. /\ jobState \in [Keys -> JobStates]
      /\ attemptsMade \in [Keys -> Nat]
      /\ stalls \in [Keys -> Nat]
      /\ \A s \in Slots : slotPc[s] # "idle" => slotKey[s] \in Keys
  BY DEF Consistent, QueueOK, QueueTypeOK, SlotsHaveJobs
<1>b. /\ attemptsMade[k] \in Nat /\ stalls[k] \in Nat
      /\ attemptsMade[k] <= Attempts + MaxStalled
      /\ Pending(k) => stalls[k] <= MaxStalled
      /\ jobState[k] \in {"waiting", "delayed"} => attemptsMade[k] < Attempts + stalls[k]
      /\ jobState[k] = "active" => attemptsMade[k] <= Attempts + stalls[k]
  BY <1>a DEF AttemptsLeft
<1>c. CASE UNCHANGED <<jobState, attemptsMade, stalls>>
  BY <1>b, <1>c
<1>1. CASE \E r \in Requests : Add(KeyOf[r], r)
  BY <1>a, <1>b, <1>1 DEF Add, queueVars
<1>2. CASE \E s \in Slots, q \in Keys : TakeJob(s, q)
  BY <1>a, <1>b, <1>2 DEF TakeJob, Activate
<1>3. CASE \E s \in Slots : FinishJob(s)
  BY <1>a, <1>b, <1>3 DEF FinishJob, Complete, queueVars
<1>4. CASE \E s \in Slots : FailJob(s)
  BY <1>a, <1>b, <1>4, NoSlotAssumption
     DEF FailJob, Fail, NextTry, queueVars, Consistent, QueueOK
<1>5. CASE \E q \in Keys : WakeJob(q)
  BY <1>a, <1>b, <1>5 DEF WakeJob, Promote
<1>6. CASE \E q \in Keys : RequeueStalled(q)
  BY <1>a, <1>b, <1>6 DEF RequeueStalled, RecoverStalled, AfterStall
<1>7. CASE \E q \in Keys : JobRemoved(q)
  BY <1>a, <1>b, <1>7 DEF JobRemoved, RemoveJob
<1>8. QED
  BY <1>c, <1>1, <1>2, <1>3, <1>4, <1>5, <1>6, <1>7, RecordChanges

-----------------------------------------------------------------------------
\* No processor has had the notification in its hands.
Unsent(r) == /\ sends[r] = 0
             /\ \A s \in Slots : slotPc[s] # "idle" => slotJob[s] # r

\* The handler has not written the queue.
BeforeQueue == {"checkRate", "lookup", "lock", "record", "enqueue"}

\* A notification is added to the queue once: a command that is not sent twice adds
\* it once, and a record that is not removed bars the way to another one.
Fresh ==
  /\ Without({"resend"}) =>
       \A r \in Requests : pc[r] \in BeforeQueue => Unsent(r) /\ jobData[KeyOf[r]] # r
  /\ Without({"removal"}) =>
       \A r \in Requests : jobState[KeyOf[r]] = "absent" => Unsent(r)

\* Only a processor that takes its job has a new notification in its hands.
LEMMA UnsentStays ==
  ASSUME Consistent, [Next]_vars, NEW r \in Requests, Unsent(r)
  PROVE  Unsent(r)' \/ \E s \in Slots : TakeJob(s, KeyOf[r]) /\ jobData[KeyOf[r]] = r
<1>a. /\ slotPc \in [Slots -> SlotSteps]
      /\ slotKey \in [Slots -> Keys \cup {NoJob}]
      /\ slotJob \in [Slots -> Requests \cup {NoJob}]
      /\ sends \in [Requests -> Nat]
  BY DEF Consistent, GatewayTypeOK
<1>b. sends'[r] = 0
  <2>1. CASE \E s \in Slots : /\ slotPc[s] = "sending"
                              /\ sends' = [sends EXCEPT ![slotJob[s]] = @ + 1]
    BY <1>a, <2>1 DEF Unsent
  <2>2. CASE UNCHANGED sends
    BY <2>2 DEF Unsent
  <2>3. \/ UNCHANGED sends
        \/ \E s \in Slots : /\ slotPc[s] = "sending"
                            /\ sends' = [sends EXCEPT ![slotJob[s]] = @ + 1]
    BY DEF Next, Handler, Processor, QueueTimer, Quiescent, vars, observed,
           CheckRateLimit, Lookup, LockKey, Record, Enqueue, Store,
           HandlerCommandFails, HandlerCommandResent, HandlerCommandRefused, TakeJob,
           Send, ProviderHangs, StoreSent, StoreFailed, SlotCommandFails,
           SlotCommandResent, SlotCommandRefused, FinishJob, FailJob, WakeJob,
           RequeueStalled, WindowSlides, LockLost, CacheExpires, JobRemoved, Crash,
           ClientEnds, CloseWorker, Restart, StartAgain
  <2>4. QED
    BY <2>1, <2>2, <2>3
<1>1. CASE \E s \in Slots, k \in Keys : TakeJob(s, k)
  <2>1. PICK s \in Slots, k \in Keys : TakeJob(s, k)
    BY <1>1
  <2>2. jobData[k] \in Duplicates(k) /\ slotJob' = [slotJob EXCEPT ![s] = jobData[k]]
    BY <2>1 DEF TakeJob, Activate, Consistent, QueueOK
  <2>3. \A t \in Slots \ {s} : slotPc'[t] = slotPc[t] /\ slotJob'[t] = slotJob[t]
    BY <1>a, <2>1 DEF TakeJob
  <2>4. CASE jobData[k] = r
    BY <2>1, <2>2, <2>4 DEF Duplicates
  <2>5. CASE jobData[k] # r
    BY <1>a, <1>b, <2>2, <2>3, <2>5 DEF Unsent
  <2>6. QED
    BY <2>4, <2>5
<1>2. CASE \A t \in Slots : slotPc'[t] # "idle" =>
             slotPc[t] # "idle" /\ slotJob'[t] = slotJob[t]
  BY <1>b, <1>2 DEF Unsent
<1>3. CASE \E s \in Slots : Send(s) \/ ProviderHangs(s) \/ StoreSent(s) \/ StoreFailed(s)
  BY <1>a, <1>2, <1>3 DEF Send, ProviderHangs, StoreSent, StoreFailed, SlotGoto
<1>4. CASE \E s \in Slots : SlotCommandFails(s) \/ SlotCommandRefused(s)
  BY <1>a, <1>2, <1>4 DEF SlotCommandFails, SlotCommandRefused, SlotRejected, SlotGoto
<1>5. CASE \E s \in Slots : FinishJob(s) \/ FailJob(s)
  BY <1>a, <1>2, <1>5 DEF FinishJob, FailJob, Free
<1>6. CASE \E i \in Instances : Crash(i)
  BY <1>a, <1>2, <1>6 DEF Crash
<1>7. CASE UNCHANGED slotVars
  BY <1>2, <1>7 DEF slotVars
<1>8. QED
  BY <1>1, <1>3, <1>4, <1>5, <1>6, <1>7, SlotChanges DEF LockLost, slotVars

\* Nothing has been added or sent at first.
LEMMA FreshInit == Init => Fresh
BY RequestFields, NoJobAssumption DEF Init, QueueInit, Fresh, Unsent

\* The step that adds a notification is the last of its handler to do so.
LEMMA FreshStep == Consistent /\ Fresh /\ [Next]_vars => Fresh'
<1> SUFFICES ASSUME Consistent, Fresh, [Next]_vars, NEW r \in Requests
             PROVE  /\ Without({"resend"}) /\ pc'[r] \in BeforeQueue =>
                         Unsent(r)' /\ jobData'[KeyOf[r]] # r
                    /\ Without({"removal"}) /\ jobState'[KeyOf[r]] = "absent" => Unsent(r)'
    BY DEF Fresh, Without
<1>a. /\ pc \in [Requests -> HandlerSteps \cup {"checkRate", "done"}]
      /\ jobData \in [Keys -> Requests \cup {NoJob}]
      /\ jobState \in [Keys -> JobStates]
      /\ KeyOf[r] \in Keys
  BY RequestFields DEF Consistent, GatewayTypeOK, QueueOK, QueueTypeOK
<1>1. ASSUME Without({"resend"}), pc'[r] \in BeforeQueue
      PROVE  Unsent(r)' /\ jobData'[KeyOf[r]] # r
  <2>1. pc[r] \in BeforeQueue /\ ~Enqueue(r) /\ ~HandlerCommandFails(r)
    BY <1>a, <1>1
       DEF BeforeQueue, HandlerSteps, Next, Handler, Processor, QueueTimer, Quiescent,
           vars, handlerVars, Goto, Answer, CheckRateLimit, Lookup, LockKey, Record,
           Enqueue, Store, HandlerCommandFails, HandlerCommandResent,
           HandlerCommandRefused, TakeJob, Send, ProviderHangs, StoreSent, StoreFailed,
           SlotCommandFails, SlotCommandResent, SlotCommandRefused, FinishJob, FailJob,
           WakeJob, RequeueStalled, WindowSlides, LockLost, CacheExpires, JobRemoved,
           Crash, ClientEnds, CloseWorker, Restart, StartAgain
  <2>2. Unsent(r) /\ jobData[KeyOf[r]] # r
    BY <1>1, <2>1 DEF Fresh
  <2>3. Unsent(r)'
    BY <2>2, UnsentStays
  <2>4. jobData'[KeyOf[r]] # r
    <3>1. \/ jobData'[KeyOf[r]] = jobData[KeyOf[r]]
          \/ \E q \in Requests : q # r /\ jobData' = [jobData EXCEPT ![KeyOf[q]] = q]
          \/ \E k \in Keys : jobData' = [jobData EXCEPT ![k] = NoJob]
      BY <1>1, <2>1
         DEF Without, Fault, Next, Handler, Processor, QueueTimer, Quiescent, vars,
             queueVars, CheckRateLimit, Lookup, LockKey, Record, Enqueue, Store,
             HandlerCommandFails, HandlerCommandResent, HandlerCommandRefused,
             CommandExecutes, Add, TakeJob, Activate, Send, ProviderHangs, StoreSent,
             StoreFailed, SlotCommandFails, SlotCommandResent, SlotCommandRefused,
             FinishJob, Complete, FailJob, Fail, WakeJob, Promote, RequeueStalled,
             RecoverStalled, WindowSlides, LockLost, LoseLock, CacheExpires, JobRemoved,
             RemoveJob, Crash, ClientEnds, CloseWorker, Restart, StartAgain
    <3>2. QED
      BY <1>a, <2>2, <3>1, NoJobAssumption
  <2>5. QED
    BY <2>3, <2>4
<1>2. ASSUME Without({"removal"}), jobState'[KeyOf[r]] = "absent" PROVE Unsent(r)'
  <2>1. \A q \in Keys : ~JobRemoved(q)
    BY <1>2 DEF JobRemoved, Fault, Without
  <2>2. jobState[KeyOf[r]] = "absent"
    BY <1>a, <1>2, <2>1, DataChanges
  <2>3. Unsent(r) /\ \A s \in Slots : ~TakeJob(s, KeyOf[r])
    BY <1>2, <2>2 DEF Fresh, TakeJob, Activate
  <2>4. QED
    BY <2>3, UnsentStays
<1>3. QED
  BY <1>1, <1>2

-----------------------------------------------------------------------------
\* The processors that may still deliver a notification, and what is charged to it.
Sending(r) == {s \in Slots : slotPc[s] = "sending" /\ slotJob[s] = r}

Charged(r) == sends[r] + Cardinality(Sending(r))

\* Finitely many processors are sending a notification, as each began to.
FewSend == \A r \in Requests : IsFiniteSet(Sending(r))

\* How a step may change the deliveries of a notification and its senders.
LEMMA SendingMoves ==
  ASSUME Consistent, [Next]_vars, NEW r \in Requests
  PROVE  \/ Sending(r)' \subseteq Sending(r) /\ sends'[r] = sends[r]
         \/ \E s \in Sending(r) : /\ Sending(r)' = Sending(r) \ {s}
                                  /\ sends'[r] = sends[r] + 1
         \/ \E s \in Slots : /\ TakeJob(s, KeyOf[r]) /\ jobData[KeyOf[r]] = r
                             /\ slotPc'[s] = "sending"
                             /\ Sending(r)' = Sending(r) \cup {s} /\ s \notin Sending(r)
                             /\ sends'[r] = sends[r]
<1>a. /\ slotPc \in [Slots -> SlotSteps]
      /\ slotKey \in [Slots -> Keys \cup {NoJob}]
      /\ slotJob \in [Slots -> Requests \cup {NoJob}]
      /\ sends \in [Requests -> Nat]
  BY DEF Consistent, GatewayTypeOK
<1>1. CASE \E s \in Slots, k \in Keys : TakeJob(s, k)
  <2>1. PICK s \in Slots, k \in Keys : TakeJob(s, k)
    BY <1>1
  <2>2. /\ jobData[k] \in Duplicates(k) /\ slotPc[s] = "idle"
        /\ sends' = sends /\ slotJob'[s] = jobData[k]
        /\ slotPc'[s] \in {"sending", "storingFailure"}
        /\ \A t \in Slots \ {s} : slotPc'[t] = slotPc[t] /\ slotJob'[t] = slotJob[t]
    BY <1>a, <2>1 DEF TakeJob, Activate, observed, Consistent, QueueOK
  <2>3. CASE jobData[k] = r /\ slotPc'[s] = "sending"
    <3>1. k = KeyOf[r]
      BY <2>2, <2>3 DEF Duplicates
    <3>2. Sending(r)' = Sending(r) \cup {s} /\ s \notin Sending(r)
      BY <2>2, <2>3 DEF Sending
    <3>3. QED
      BY <2>1, <2>2, <2>3, <3>1, <3>2
  <2>4. CASE ~(jobData[k] = r /\ slotPc'[s] = "sending")
    BY <2>2, <2>4 DEF Sending
  <2>5. QED
    BY <2>3, <2>4
<1>2. CASE \E s \in Slots : Send(s)
  <2>1. PICK s \in Slots, o \in Outcomes :
          /\ slotPc[s] = "sending"
          /\ ProviderAnswers(s, o)
          /\ slotPc' = [slotPc EXCEPT ![s] = SlotStepAfter(callPhase'[s])]
          /\ sends' = IF o = "ok" THEN [sends EXCEPT ![slotJob[s]] = @ + 1] ELSE sends
          /\ UNCHANGED <<slotKey, slotJob>>
    BY <1>2 DEF Send
  <2>2. \A t \in Slots \ {s} : slotPc'[t] = slotPc[t] /\ slotJob'[t] = slotJob[t]
    BY <1>a, <2>1
  <2>3. o = "ok" => slotPc'[s] = "storing"
    <3>1. callPhase'[s] = PhaseAfter(s, o)
      BY <2>1 DEF ProviderAnswers, Consistent, CallTypeOK
    <3>2. QED
      BY <1>a, <2>1, <3>1 DEF SlotStepAfter, PhaseAfter
  <2>4. CASE o = "ok" /\ slotJob[s] = r
    <3>1. s \in Sending(r) /\ Sending(r)' = Sending(r) \ {s}
      BY <2>1, <2>2, <2>3, <2>4 DEF Sending
    <3>2. sends'[r] = sends[r] + 1
      BY <1>a, <2>1, <2>4
    <3>3. QED
      BY <3>1, <3>2
  <2>5. CASE ~(o = "ok" /\ slotJob[s] = r)
    <3>1. sends'[r] = sends[r]
      BY <1>a, <2>1, <2>5
    <3>2. Sending(r)' \subseteq Sending(r)
      BY <2>1, <2>2 DEF Sending
    <3>3. QED
      BY <3>1, <3>2
  <2>6. QED
    BY <2>4, <2>5
<1>3. CASE \E s \in Slots : ProviderHangs(s)
  <2>1. PICK s \in Slots :
          /\ slotPc[s] = "sending" /\ slotPc' = [slotPc EXCEPT ![s] = "hung"]
          /\ sends' \in {sends, [sends EXCEPT ![slotJob[s]] = @ + 1]}
          /\ UNCHANGED <<slotKey, slotJob>>
    BY <1>3 DEF ProviderHangs
  <2>2. \A t \in Slots \ {s} : slotPc'[t] = slotPc[t] /\ slotJob'[t] = slotJob[t]
    BY <1>a, <2>1
  <2>3. slotPc'[s] = "hung"
    BY <1>a, <2>1
  <2>4. CASE slotJob[s] = r
    <3>1. s \in Sending(r) /\ Sending(r)' = Sending(r) \ {s}
      BY <2>1, <2>2, <2>3, <2>4 DEF Sending
    <3>2. sends'[r] \in {sends[r], sends[r] + 1}
      BY <1>a, <2>1, <2>4
    <3>3. QED
      BY <3>1, <3>2
  <2>5. CASE slotJob[s] # r
    <3>1. sends'[r] = sends[r]
      BY <1>a, <2>1, <2>5
    <3>2. Sending(r)' \subseteq Sending(r)
      BY <2>1, <2>2 DEF Sending
    <3>3. QED
      BY <3>1, <3>2
  <2>6. QED
    BY <2>4, <2>5
<1>4. CASE /\ UNCHANGED sends
           /\ \A t \in Slots : slotPc'[t] = "sending" =>
                slotPc[t] = "sending" /\ slotJob'[t] = slotJob[t]
  BY <1>4 DEF Sending
<1>5. CASE \E s \in Slots : \/ StoreSent(s) \/ StoreFailed(s)
                            \/ SlotCommandFails(s) \/ SlotCommandRefused(s)
  BY <1>a, <1>4, <1>5 DEF StoreSent, StoreFailed, SlotCommandFails, SlotCommandRefused,
                          SlotRejected, SlotGoto, observed
<1>6. CASE \E s \in Slots : FinishJob(s) \/ FailJob(s)
  BY <1>a, <1>4, <1>6 DEF FinishJob, FailJob, Free, observed
<1>7. CASE \E i \in Instances : Crash(i)
  BY <1>a, <1>4, <1>7 DEF Crash, observed
<1>8. CASE UNCHANGED <<slotVars, sends>>
  BY <1>4, <1>8 DEF slotVars
<1>9. \/ \E s \in Slots, k \in Keys : TakeJob(s, k)
      \/ \E s \in Slots : \/ Send(s) \/ ProviderHangs(s) \/ StoreSent(s) \/ StoreFailed(s)
                          \/ SlotCommandFails(s) \/ SlotCommandRefused(s)
                          \/ FinishJob(s) \/ FailJob(s)
      \/ \E i \in Instances : Crash(i)
      \/ UNCHANGED <<slotVars, sends>>
  BY DEF Next, Handler, Processor, QueueTimer, Quiescent, vars, observed,
         CheckRateLimit, Lookup, LockKey, Record, Enqueue, Store, HandlerCommandFails,
         HandlerCommandResent, HandlerCommandRefused, SlotCommandResent, WakeJob,
         RequeueStalled, WindowSlides, LockLost, CacheExpires, JobRemoved, ClientEnds,
         CloseWorker, Restart, StartAgain
<1>10. QED
  BY <1>1, <1>2, <1>3, <1>5, <1>6, <1>7, <1>8, <1>9
\* A step charges a notification for nothing but taking its job, and a processor
\* that a provider has failed may no longer deliver.
LEMMA ChargedMoves ==
  ASSUME Consistent, FewSend, [Next]_vars, NEW r \in Requests
  PROVE  /\ IsFiniteSet(Sending(r)') /\ Charged(r) \in Nat /\ Charged(r)' \in Nat
         /\ \/ Charged(r)' <= Charged(r)
            \/ \E s \in Slots : /\ TakeJob(s, KeyOf[r]) /\ jobData[KeyOf[r]] = r
                                /\ slotPc'[s] = "sending"
                                /\ Charged(r)' <= Charged(r) + 1
         /\ \A s \in Slots :
              Send(s) /\ slotJob[s] = r /\ slotPc'[s] = "storingFailure"
                => Charged(r)' + 1 <= Charged(r)
<1> DEFINE S == Sending(r)
           n == sends[r]
<1>a. /\ IsFiniteSet(S) /\ n \in Nat /\ Cardinality(S) \in Nat /\ sends'[r] \in Nat
      /\ Charged(r) = n + Cardinality(S) /\ Charged(r)' = sends'[r] + Cardinality(S')
  <2>1. Consistent'
    BY ConsistentStep
  <2>2. IsFiniteSet(S) /\ Cardinality(S) \in Nat
    BY FS_CardinalityType DEF FewSend
  <2>3. QED
    BY <2>1, <2>2 DEF Consistent, GatewayTypeOK, Charged
<1>b. ASSUME S' \subseteq S, sends'[r] = n
      PROVE  IsFiniteSet(S') /\ Charged(r)' \in Nat /\ Charged(r)' <= Charged(r)
  <2>1. IsFiniteSet(S') /\ Cardinality(S') \in Nat /\ Cardinality(S') <= Cardinality(S)
    BY <1>a, <1>b, FS_Subset, FS_CardinalityType
  <2>2. QED
    BY <1>a, <1>b, <2>1
<1>c. ASSUME NEW s \in S, S' = S \ {s}
      PROVE  IsFiniteSet(S') /\ Cardinality(S') + 1 = Cardinality(S) /\ Cardinality(S') \in Nat
  <2>1. IsFiniteSet(S') /\ Cardinality(S') = Cardinality(S) - 1
    BY <1>a, <1>c, FS_RemoveElement
  <2>2. Cardinality(S') \in Nat
    BY <2>1, FS_CardinalityType
  <2>3. QED
    BY <1>a, <2>1, <2>2
<1>1. /\ IsFiniteSet(S') /\ Charged(r)' \in Nat
      /\ \/ Charged(r)' <= Charged(r)
         \/ \E s \in Slots : /\ TakeJob(s, KeyOf[r]) /\ jobData[KeyOf[r]] = r
                             /\ slotPc'[s] = "sending" /\ Charged(r)' <= Charged(r) + 1
  <2>1. CASE S' \subseteq S /\ sends'[r] = n
    BY <1>b, <2>1
  <2>2. CASE \E s \in S : S' = S \ {s} /\ sends'[r] = n + 1
    <3>1. PICK s \in S : S' = S \ {s} /\ sends'[r] = n + 1
      BY <2>2
    <3>2. IsFiniteSet(S') /\ Cardinality(S') + 1 = Cardinality(S) /\ Cardinality(S') \in Nat
      BY <1>c, <3>1
    <3>3. QED
      BY <1>a, <3>1, <3>2
  <2>3. CASE \E s \in Slots : /\ TakeJob(s, KeyOf[r]) /\ jobData[KeyOf[r]] = r
                              /\ slotPc'[s] = "sending"
                              /\ S' = S \cup {s} /\ s \notin S /\ sends'[r] = n
    <3>1. PICK s \in Slots : /\ TakeJob(s, KeyOf[r]) /\ jobData[KeyOf[r]] = r
                             /\ slotPc'[s] = "sending"
                             /\ S' = S \cup {s} /\ s \notin S /\ sends'[r] = n
      BY <2>3
    <3>2. IsFiniteSet(S') /\ Cardinality(S') = Cardinality(S) + 1
      BY <1>a, <3>1, FS_AddElement
    <3>3. Charged(r)' \in Nat /\ Charged(r)' = Charged(r) + 1
      BY <1>a, <3>1, <3>2
    <3>4. QED
      BY <3>1, <3>2, <3>3
  <2>4. QED
    BY <2>1, <2>2, <2>3, SendingMoves
<1>2. ASSUME NEW s \in Slots, Send(s), slotJob[s] = r, slotPc'[s] = "storingFailure"
      PROVE  Charged(r)' + 1 <= Charged(r)
  <2>1. /\ slotPc \in [Slots -> SlotSteps]
        /\ slotJob \in [Slots -> Requests \cup {NoJob}]
        /\ sends \in [Requests -> Nat]
    BY DEF Consistent, GatewayTypeOK
  <2>2. PICK o \in Outcomes :
          /\ slotPc[s] = "sending"
          /\ ProviderAnswers(s, o)
          /\ slotPc' = [slotPc EXCEPT ![s] = SlotStepAfter(callPhase'[s])]
          /\ sends' = IF o = "ok" THEN [sends EXCEPT ![slotJob[s]] = @ + 1] ELSE sends
          /\ UNCHANGED <<slotKey, slotJob>>
    BY <1>2 DEF Send
  <2>3. callPhase'[s] = PhaseAfter(s, o)
    BY <2>2 DEF ProviderAnswers, Consistent, CallTypeOK
  <2>4. sends'[r] = n
    BY <1>2, <2>1, <2>2, <2>3 DEF SlotStepAfter, PhaseAfter
  <2>5. \A t \in Slots \ {s} : slotPc'[t] = slotPc[t] /\ slotJob'[t] = slotJob[t]
    BY <2>1, <2>2
  <2>6. s \in S /\ S' = S \ {s}
    BY <1>2, <2>2, <2>5 DEF Sending
  <2>7. Cardinality(S') + 1 = Cardinality(S) /\ Cardinality(S') \in Nat
    BY <1>c, <2>6
  <2>8. QED
    BY <1>a, <2>4, <2>7
<1>3. QED
  BY <1>a, <1>1, <1>2

\* No processor is sending at first.
LEMMA FewSendInit == Init => FewSend
<1>1. Init => \A r \in Requests : Sending(r) = {}
  BY DEF Init, Sending
<1>2. QED
  BY <1>1, FS_EmptySet DEF FewSend

\* A step adds at most one sender.
LEMMA FewSendStep == Consistent /\ FewSend /\ [Next]_vars => FewSend'
BY ChargedMoves DEF FewSend

-----------------------------------------------------------------------------
\* What is charged to a notification is paid for by the attempts of its record,
\* while it has one, and never exceeds the attempts a record can have.
AttemptsPay ==
  Without({"resend"}) \/ Without({"removal"}) =>
    \A r \in Requests :
      /\ Charged(r) <= Attempts + MaxStalled
      /\ jobData[KeyOf[r]] = r => Charged(r) <= attemptsMade[KeyOf[r]]

\* What the invariants above say together.
Charges == Consistent /\ Holders /\ AttemptsLeft /\ Fresh /\ FewSend

\* A notification nobody has in his hands costs nothing.
LEMMA UnsentIsFree == ASSUME NEW r, Unsent(r) PROVE Charged(r) = 0
<1>1. Sending(r) = {}
  BY DEF Unsent, Sending
<1>2. QED
  BY <1>1, FS_EmptySet DEF Unsent, Charged

\* Nothing is charged at first.
LEMMA AttemptsPayInit == Init => AttemptsPay
<1> SUFFICES ASSUME Init, NEW r \in Requests
             PROVE  Charged(r) = 0 /\ jobData[KeyOf[r]] # r
  BY AttemptsAssumption DEF AttemptsPay
<1>1. Unsent(r)
  BY DEF Init, Unsent
<1>2. QED
  BY <1>1, UnsentIsFree, RequestFields, NoJobAssumption DEF Init, QueueInit

\* Activations are counted up until the record is added again.
LEMMA AttemptsGrow ==
  ASSUME Consistent, [Next]_vars, NEW k \in Keys
  PROVE  \/ attemptsMade'[k] >= attemptsMade[k]
         \/ jobState[k] = "absent"
<1>a. attemptsMade \in [Keys -> Nat]
  BY DEF Consistent, QueueOK, QueueTypeOK
<1>1. CASE \E s \in Slots, q \in Keys : TakeJob(s, q)
  BY <1>a, <1>1 DEF TakeJob, Activate
<1>2. CASE \E r \in Requests : Add(KeyOf[r], r)
  BY <1>a, <1>2 DEF Add, queueVars
<1>3. CASE UNCHANGED attemptsMade
  BY <1>a, <1>3
<1>4. QED
  BY <1>1, <1>2, <1>3, RecordChanges
     DEF FinishJob, Complete, FailJob, Fail, WakeJob, Promote, RequeueStalled,
         RecoverStalled, JobRemoved, RemoveJob, queueVars
\* Taking the job is an attempt, and a notification that is added is unsent.
LEMMA AttemptsPayStep == Charges /\ AttemptsPay /\ [Next]_vars => AttemptsPay'
<1> SUFFICES ASSUME Charges, AttemptsPay, [Next]_vars, NEW r \in Requests,
                    Without({"resend"}) \/ Without({"removal"})
             PROVE  /\ Charged(r)' <= Attempts + MaxStalled
                    /\ jobData'[KeyOf[r]] = r => Charged(r)' <= attemptsMade'[KeyOf[r]]
    BY DEF AttemptsPay, Without
<1>a. PICK k \in Keys : k = KeyOf[r]
  BY RequestFields
<1>b. /\ Charged(r) \in Nat /\ Charged(r)' \in Nat
      /\ attemptsMade[k] \in Nat /\ attemptsMade'[k] \in Nat
      /\ attemptsMade'[k] <= Attempts + MaxStalled
  <2>1. Consistent' /\ AttemptsLeft'
    BY ConsistentStep, AttemptsLeftStep DEF Charges
  <2>2. QED
    BY <2>1, ChargedMoves DEF Charges, Consistent, QueueOK, QueueTypeOK, AttemptsLeft
<1>c. /\ Charged(r) <= Attempts + MaxStalled
      /\ jobData[k] = r => Charged(r) <= attemptsMade[k]
  BY <1>a DEF AttemptsPay
<1>d. r # NoJob
  BY NoJobAssumption
<1>1. CASE Charged(r)' <= Charged(r)
  <2>1. Charged(r)' <= Attempts + MaxStalled
    BY <1>1, <1>b, <1>c, AttemptsAssumption
  <2>2. ASSUME jobData'[k] = r, jobData[k] = r PROVE Charged(r)' <= attemptsMade'[k]
    <3>1. jobState[k] # "absent"
      BY <1>d, <2>2 DEF Charges, Holders
    <3>2. attemptsMade'[k] >= attemptsMade[k]
      BY <3>1, AttemptsGrow DEF Charges
    <3>3. QED
      BY <1>1, <1>b, <1>c, <2>2, <3>2
  <2>3. ASSUME jobData'[k] = r, jobData[k] # r PROVE Charged(r)' <= attemptsMade'[k]
    <3>1. jobState[k] = "absent" /\ pc[r] = "enqueue"
      BY <1>d, <2>3, DataChanges DEF Charges
    <3>2. Unsent(r)
      BY <1>a, <3>1 DEF Charges, Fresh, BeforeQueue
    <3>3. Charged(r) = 0
      BY <3>2, UnsentIsFree
    <3>4. QED
      BY <1>1, <1>b, <3>3
  <2>4. QED
    BY <1>a, <2>1, <2>2, <2>3
<1>2. CASE \E s \in Slots : /\ TakeJob(s, KeyOf[r]) /\ jobData[KeyOf[r]] = r
                            /\ Charged(r)' <= Charged(r) + 1
  <2>1. attemptsMade'[k] = attemptsMade[k] + 1 /\ jobData[k] = r
    BY <1>a, <1>2 DEF TakeJob, Activate, Charges, Consistent, QueueOK, QueueTypeOK
  <2>2. Charged(r)' <= attemptsMade'[k]
    BY <1>2, <1>b, <1>c, <2>1
  <2>3. QED
    BY <1>a, <1>b, <2>2, AttemptsAssumption
<1>3. QED
  BY <1>1, <1>2, ChargedMoves DEF Charges

\* What is charged to notifications is accounted for in every reachable state.
THEOREM ChargesAlways == Spec => []Charges
<1>1. Spec => []Holders
  BY ConsistentAlways, HoldersInit, HoldersStep, PTL DEF Spec
<1>2. Spec => []AttemptsLeft
  BY ConsistentAlways, AttemptsLeftInit, AttemptsLeftStep, PTL DEF Spec
<1>3. Spec => []Fresh
  BY ConsistentAlways, FreshInit, FreshStep, PTL DEF Spec
<1>4. Spec => []FewSend
  BY ConsistentAlways, FewSendInit, FewSendStep, PTL DEF Spec
<1>5. QED
  BY <1>1, <1>2, <1>3, <1>4, ConsistentAlways, PTL DEF Charges

\* A notification is delivered at most once per attempt of its job, and has at most
\* the configured attempts and one more for each stall BullMQ tolerates.
THEOREM AttemptsBoundDeliveries == Spec => []DeliveriesBounded
<1>1. Spec => []AttemptsPay
  BY ChargesAlways, AttemptsPayInit, AttemptsPayStep, PTL DEF Spec
<1>2. Charges /\ AttemptsPay => DeliveriesBounded
  <2> SUFFICES ASSUME Charges, AttemptsPay, Without({"resend"}) \/ Without({"removal"}),
                      NEW r \in Requests
               PROVE  sends[r] <= Attempts + MaxStalled
    BY DEF DeliveriesBounded
  <2>1. Charged(r) <= Attempts + MaxStalled
    BY DEF AttemptsPay
  <2>2. sends[r] \in Nat /\ Cardinality(Sending(r)) \in Nat
    BY FS_CardinalityType DEF Charges, FewSend, Consistent, GatewayTypeOK
  <2>3. QED
    BY <2>1, <2>2, AttemptsAssumption DEF Charged
<1>3. QED
  BY <1>1, <1>2, ChargesAlways, PTL

-----------------------------------------------------------------------------
\* The notification is going to be tried again, unless something else happens: its
\* job waits, or no processor holds it, or the one that does reports a failure.
Retrying(r) ==
  /\ jobData[KeyOf[r]] = r
  /\ \/ jobState[KeyOf[r]] \in {"waiting", "delayed"}
     \/ /\ jobState[KeyOf[r]] = "active"
        /\ \/ lockedBy[KeyOf[r]] = NoSlot
           \/ slotPc[lockedBy[KeyOf[r]]] \in {"storingFailure", "failing"}

Cost(b) == IF b THEN 1 ELSE 0

\* Each fault pays for one delivery, and being in the queue for the first one.
FaultsPay ==
  Without({"end"}) =>
    \A r \in Requests :
      Charged(r) + Cost(Retrying(r)) <= faults + Cost(jobData[KeyOf[r]] = r)

\* What happens to jobs and processors without a fault, while clients are connected.
LEMMA CalmChanges ==
  ASSUME Consistent, [Next]_vars, ended = {}
  PROVE  \/ faults' = faults + 1
         \/ /\ faults' = faults
            /\ \/ UNCHANGED <<queueVars, slotVars>>
               \/ \E r \in Requests : Add(KeyOf[r], r) /\ UNCHANGED slotVars
               \/ \E s \in Slots, k \in Keys : TakeJob(s, k)
               \/ \E s \in Slots : \/ Send(s) \/ StoreSent(s) \/ StoreFailed(s)
                                   \/ FinishJob(s) \/ FailJob(s)
               \/ \E k \in Keys : WakeJob(k) \/ RequeueStalled(k)
BY DEF Next, Handler, Processor, QueueTimer, Quiescent, vars, Fault, Connected, envVars,
       slotVars, CheckRateLimit, Lookup, LockKey, Record, Enqueue, Store,
       HandlerCommandFails, HandlerCommandResent, HandlerCommandRefused, TakeJob, Send,
       ProviderHangs, StoreSent, StoreFailed, SlotCommandFails, SlotCommandResent,
       SlotCommandRefused, FinishJob, FailJob, WakeJob, RequeueStalled, WindowSlides,
       LockLost, CacheExpires, JobRemoved, Crash, ClientEnds, CloseWorker, Restart,
       StartAgain

\* Without a fault, a notification is going to be tried again only if it was before,
\* if it is new, or if every provider has just failed it.
LEMMA RetryingMoves ==
  ASSUME Charges, ended = {}, [Next]_vars, NEW r \in Requests
  PROVE  \/ faults' = faults + 1
         \/ /\ faults' = faults
            /\ jobData[KeyOf[r]] # r /\ jobData'[KeyOf[r]] = r
         \/ /\ faults' = faults
            /\ jobData'[KeyOf[r]] = r <=> jobData[KeyOf[r]] = r
            /\ \/ Retrying(r)' => Retrying(r)
               \/ \E s \in Slots : /\ Send(s) /\ slotJob[s] = r
                                   /\ slotPc'[s] = "storingFailure"
<1>a. PICK k \in Keys : k = KeyOf[r]
  BY RequestFields
<1>b. /\ jobState \in [Keys -> JobStates]
      /\ lockedBy \in [Keys -> Slots \cup {NoSlot}]
      /\ slotPc \in [Slots -> SlotSteps]
      /\ \A s \in Slots : slotPc[s] # "idle" => slotKey[s] \in Keys
      /\ r # NoJob
  BY NoJobAssumption
     DEF Charges, Consistent, QueueOK, QueueTypeOK, GatewayTypeOK, SlotsHaveJobs
<1>c. lockedBy[k] # NoSlot =>
        /\ lockedBy[k] \in Slots /\ slotPc[lockedBy[k]] # "idle"
        /\ slotKey[lockedBy[k]] = k /\ slotJob[lockedBy[k]] = jobData[k]
  BY <1>b DEF Charges, Holders
<1>d. CASE faults' = faults + 1
  BY <1>d
<1>e. CASE jobData[k] = r /\ jobData'[k] # r
  <2>1. \E q \in Keys : JobRemoved(q)
    BY <1>b, <1>e, DataChanges DEF Charges, Holders
  <2>2. QED
    BY <2>1 DEF JobRemoved, Fault
<1>f. CASE jobData'[k] # r /\ jobData[k] # r
  BY <1>a, <1>f, CalmChanges DEF Charges, Retrying
<1>g. CASE jobData'[k] = r /\ jobData[k] # r
  BY <1>a, <1>g, CalmChanges DEF Charges
<1>h. ASSUME jobData'[k] = r, jobData[k] = r, faults' = faults
      PROVE  \/ Retrying(r)' => Retrying(r)
             \/ \E s \in Slots : /\ Send(s) /\ slotJob[s] = r
                                 /\ slotPc'[s] = "storingFailure"
  <2>a. jobState[k] # "absent"
    BY <1>b, <1>h DEF Charges, Holders
  <2>b. ASSUME jobState'[k] = jobState[k], lockedBy'[k] = lockedBy[k],
               lockedBy[k] # NoSlot => slotPc'[lockedBy[k]] = slotPc[lockedBy[k]]
        PROVE  Retrying(r)' => Retrying(r)
    BY <1>a, <1>h, <2>b DEF Retrying
  <2>1. CASE UNCHANGED <<queueVars, slotVars>>
    BY <2>b, <2>1 DEF queueVars, slotVars
  <2>2. CASE \E q \in Requests : Add(KeyOf[q], q) /\ UNCHANGED slotVars
    <3>1. jobState'[k] = jobState[k] /\ UNCHANGED <<lockedBy, slotPc>>
      BY <1>b, <2>a, <2>2 DEF Add, queueVars, slotVars
    <3>2. QED
      BY <2>b, <3>1
  <2>3. CASE \E s \in Slots, q \in Keys : TakeJob(s, q)
    <3>1. PICK s \in Slots, q \in Keys : TakeJob(s, q)
      BY <2>3
    <3>2. CASE q = k
      BY <1>a, <1>h, <3>1, <3>2 DEF TakeJob, Activate, Retrying
    <3>3. CASE q # k
      <4>1. /\ jobState'[k] = jobState[k] /\ lockedBy'[k] = lockedBy[k]
            /\ slotPc[s] = "idle"
            /\ \A t \in Slots \ {s} : slotPc'[t] = slotPc[t]
        BY <1>b, <3>1, <3>3 DEF TakeJob, Activate
      <4>2. QED
        BY <1>c, <2>b, <4>1
    <3>4. QED
      BY <3>2, <3>3
  <2>4. CASE \E s \in Slots : Send(s) \/ StoreSent(s) \/ StoreFailed(s)
    <3>1. PICK s \in Slots : Send(s) \/ StoreSent(s) \/ StoreFailed(s)
      BY <2>4
    <3>2. /\ UNCHANGED <<jobState, lockedBy>>
          /\ \A t \in Slots \ {s} : slotPc'[t] = slotPc[t]
      BY <1>b, <3>1 DEF Send, StoreSent, StoreFailed, SlotGoto, queueVars
    <3>3. CASE lockedBy[k] # s
      BY <1>c, <2>b, <3>2, <3>3
    <3>4. CASE lockedBy[k] = s
      <4>1. slotJob[s] = r /\ lockedBy[k] # NoSlot /\ jobState'[k] = "active"
        BY <1>c, <1>h, <3>2, <3>4, NoSlotAssumption DEF Charges, Consistent, QueueOK
      <4>2. CASE StoreFailed(s)
        BY <1>a, <1>h, <3>2, <3>4, <4>1, <4>2 DEF Retrying, StoreFailed
      <4>3. CASE slotPc'[s] \notin {"storingFailure", "failing"}
        BY <1>a, <3>2, <3>4, <4>1, <4>3 DEF Retrying
      <4>4. CASE Send(s) /\ slotPc'[s] = "storingFailure"
        BY <4>1, <4>4
      <4>5. Send(s) \/ StoreSent(s) =>
              slotPc'[s] \in {"sending", "storing", "storingFailure", "completing"}
        BY <1>b DEF Send, SlotStepAfter, StoreSent, SlotGoto
      <4>6. StoreSent(s) => slotPc'[s] = "completing"
        BY <1>b DEF StoreSent, SlotGoto
      <4>7. QED
        BY <3>1, <4>2, <4>3, <4>4, <4>5, <4>6
    <3>5. QED
      BY <3>3, <3>4
  <2>5. CASE \E s \in Slots : FinishJob(s) \/ FailJob(s)
    <3>1. PICK s \in Slots : FinishJob(s) \/ FailJob(s)
      BY <2>5
    <3>2. \A t \in Slots \ {s} : slotPc'[t] = slotPc[t]
      BY <1>b, <3>1 DEF FinishJob, FailJob, Free
    <3>3. CASE lockedBy[k] # s
      <4>1. jobState'[k] = jobState[k] /\ lockedBy'[k] = lockedBy[k]
        BY <1>b, <3>1, <3>3 DEF FinishJob, FailJob, Complete, Fail, Unlock, queueVars
      <4>2. QED
        BY <1>c, <2>b, <3>2, <3>3, <4>1
    <3>4. CASE lockedBy[k] = s
      <4>1. slotKey[s] = k /\ lockedBy[k] # NoSlot /\ jobState[k] = "active"
        BY <1>c, <3>4, NoSlotAssumption DEF Charges, Consistent, QueueOK
      <4>2. CASE FinishJob(s)
        <5>1. jobState'[k] = "completed"
          BY <1>b, <3>4, <4>1, <4>2 DEF FinishJob, Complete
        <5>2. QED
          BY <1>a, <5>1 DEF Retrying
      <4>3. CASE FailJob(s)
        BY <1>a, <1>h, <3>4, <4>1, <4>3 DEF FailJob, Retrying
      <4>4. QED
        BY <3>1, <4>2, <4>3
    <3>5. QED
      BY <3>3, <3>4
  <2>6. CASE \E q \in Keys : WakeJob(q) \/ RequeueStalled(q)
    <3>1. PICK q \in Keys : WakeJob(q) \/ RequeueStalled(q)
      BY <2>6
    <3>2. CASE q = k
      BY <1>a, <1>h, <3>1, <3>2
         DEF WakeJob, Promote, RequeueStalled, RecoverStalled, Retrying
    <3>3. CASE q # k
      <4>1. jobState'[k] = jobState[k] /\ UNCHANGED <<lockedBy, slotPc>>
        BY <1>b, <3>1, <3>3
           DEF WakeJob, Promote, RequeueStalled, RecoverStalled, slotVars
      <4>2. QED
        BY <2>b, <4>1
    <3>4. QED
      BY <3>2, <3>3
  <2>7. QED
    <3>1. faults' # faults + 1
      BY <1>h DEF Charges, Consistent, GatewayTypeOK
    <3>2. QED
      BY <3>1, <2>1, <2>2, <2>3, <2>4, <2>5, <2>6, CalmChanges DEF Charges
<1>i. QED
  BY <1>a, <1>d, <1>e, <1>f, <1>g, <1>h, CalmChanges DEF Charges

\* Nothing is charged or tried at first.
LEMMA FaultsPayInit == Init => FaultsPay
<1> SUFFICES ASSUME Init, NEW r \in Requests
             PROVE  Charged(r) = 0 /\ jobData[KeyOf[r]] # r /\ faults = 0
  BY DEF FaultsPay, Retrying, Cost
<1>1. Unsent(r)
  BY DEF Init, Unsent
<1>2. QED
  BY <1>1, UnsentIsFree, RequestFields, NoJobAssumption DEF Init, QueueInit

\* A processor that takes the job of a notification tries it, and only a fault, or
\* the failure of every provider, brings it back.
LEMMA FaultsPayStep ==
  Charges /\ NoneEnded /\ FaultsPay /\ [Next]_vars => FaultsPay'
<1> SUFFICES ASSUME Charges, NoneEnded, FaultsPay, [Next]_vars, NEW r \in Requests,
                    Without({"end"})
             PROVE  Charged(r)' + Cost(Retrying(r)')
                      <= faults' + Cost(jobData'[KeyOf[r]] = r)
    BY DEF FaultsPay, Without, Cost
<1> DEFINE here == jobData[KeyOf[r]] = r
<1>a. /\ Charged(r) \in Nat /\ Charged(r)' \in Nat /\ faults \in Nat /\ ended = {}
      /\ Charged(r) + Cost(Retrying(r)) <= faults + Cost(here)
  BY ChargedMoves DEF Charges, Consistent, GatewayTypeOK, NoneEnded, FaultsPay
<1>b. Retrying(r) => here
  BY DEF Retrying
<1>c. Retrying(r)' => here'
  BY DEF Retrying
<1> HIDE DEF here
<1>1. CASE \E s \in Slots : /\ TakeJob(s, KeyOf[r]) /\ jobData[KeyOf[r]] = r
                            /\ slotPc'[s] = "sending"
                            /\ Charged(r)' <= Charged(r) + 1
  <2>1. PICK s \in Slots : /\ TakeJob(s, KeyOf[r]) /\ jobData[KeyOf[r]] = r
                           /\ slotPc'[s] = "sending" /\ Charged(r)' <= Charged(r) + 1
    BY <1>1
  <2>2. Retrying(r) /\ here /\ here' /\ faults' = faults
    BY <2>1 DEF TakeJob, Activate, Retrying, envVars, here
  <2>3. ~Retrying(r)'
    BY <2>1, RequestFields, NoSlotAssumption
       DEF TakeJob, Activate, Retrying, Charges, Consistent, QueueOK, QueueTypeOK
  <2>4. QED
    BY <1>a, <2>1, <2>2, <2>3 DEF Cost, here
<1>2. CASE Charged(r)' <= Charged(r)
  <2>1. CASE faults' = faults + 1
    BY <1>a, <1>b, <1>c, <1>2, <2>1 DEF Cost, here
  <2>2. CASE faults' = faults /\ ~here /\ here'
    BY <1>a, <1>b, <1>2, <2>2 DEF Cost, here
  <2>3. CASE faults' = faults /\ (here' <=> here) /\ (Retrying(r)' => Retrying(r))
    BY <1>a, <1>2, <2>3 DEF Cost, here
  <2>4. CASE /\ faults' = faults /\ (here' <=> here)
             /\ \E s \in Slots : /\ Send(s) /\ slotJob[s] = r
                                 /\ slotPc'[s] = "storingFailure"
    <3>1. Charged(r)' + 1 <= Charged(r)
      BY <2>4, ChargedMoves DEF Charges
    <3>2. QED
      BY <1>a, <2>4, <3>1 DEF Cost, here
  <2>5. QED
    BY <1>a, <2>1, <2>2, <2>3, <2>4, RetryingMoves DEF here
<1>3. QED
  BY <1>1, <1>2, ChargedMoves DEF Charges

\* While clients stay connected, each delivery of a notification after its first one
\* is the price of a fault of its own.
THEOREM FaultsBoundDeliveries == Spec => []RedeliveryNeedsFault
<1>1. Spec => []FaultsPay
  BY ChargesAlways, NoneEndedAlways, FaultsPayInit, FaultsPayStep, PTL DEF Spec
<1>2. Charges /\ FaultsPay => RedeliveryNeedsFault
  <2> SUFFICES ASSUME Charges, FaultsPay, Without({"end"}), NEW r \in Requests
               PROVE  sends[r] <= 1 + faults
    BY DEF RedeliveryNeedsFault
  <2>1. Charged(r) + Cost(Retrying(r)) <= faults + Cost(jobData[KeyOf[r]] = r)
    BY DEF FaultsPay
  <2>2. /\ sends[r] \in Nat /\ Cardinality(Sending(r)) \in Nat /\ faults \in Nat
    BY FS_CardinalityType DEF Charges, FewSend, Consistent, GatewayTypeOK
  <2>3. QED
    BY <2>1, <2>2 DEF Charged, Cost
<1>3. QED
  BY <1>1, <1>2, ChargesAlways, PTL
=============================================================================
