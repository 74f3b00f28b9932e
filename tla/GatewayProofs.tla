---------------------------- MODULE GatewayProofs ----------------------------
(***************************************************************************)
(* Proofs about the gateway, for every number of requests, keys, users,    *)
(* processors, instances, providers, attempts and faults.  Each invariant  *)
(* below is inductive relative to the ones named before it:                *)
(*   Consistent           types, and what records and processors refer to  *)
(*   NoCrossTalk          what concerns a key belongs to that key          *)
(*   Reported             SentIsTrue, and what busy processors have sent   *)
(*   Kept                 PromiseKept, and why a job is finished           *)
(*   Exclusive            a busy processor holds the lock of its job       *)
(*   PlaceholderHasOwner  a placeholder is about to be replaced            *)
(***************************************************************************)
EXTENDS GatewayProperties, JobQueueProofs

\* A busy processor works on a request with the key of its job.
SlotsHaveJobs ==
  \A s \in Slots : slotPc[s] # "idle" =>
    slotKey[s] \in Keys /\ slotJob[s] \in Duplicates(slotKey[s])

Consistent == /\ WindowTypeOK /\ CacheTypeOK /\ CallTypeOK /\ GatewayTypeOK
              /\ QueueOK /\ SlotsHaveJobs

\* Writing a well-formed entry keeps the cache well formed.
LEMMA SetEntryTyped ==
  ASSUME CacheTypeOK, NEW k, NEW e \in Entries, SetEntry(k, e)
  PROVE  CacheTypeOK'
BY DEF CacheTypeOK, SetEntry

\* The entries the code writes are well formed.
LEMMA EntriesOf ==
  /\ Missing \in Entries /\ Placeholder \in Entries
  /\ \A r \in Requests : /\ Accepted(r) \in Entries
                         /\ Sent(r) \in Entries
                         /\ Failed(r) \in Entries
BY DEF Entries

\* Consistent holds before the first request.
LEMMA ConsistentInit == Init => Consistent
<1> SUFFICES ASSUME Init PROVE Consistent
    OBVIOUS
<1>1. QueueOK
      BY QueueInitOK DEF Init
<1>2. WindowTypeOK /\ CacheTypeOK
      BY EntriesOf DEF Init, WindowInit, CacheInit, WindowTypeOK, CacheTypeOK
<1>3. CallTypeOK
      BY DEF Init, CallInit, CallTypeOK, Phases
<1>4. GatewayTypeOK /\ SlotsHaveJobs
      BY EntriesOf DEF Init, GatewayTypeOK, SlotsHaveJobs, HandlerSteps, Replies, SlotSteps
<1>5. QED
      BY <1>1, <1>2, <1>3, <1>4 DEF Consistent

\* Consistent is inductive by itself: one step per action.
LEMMA ConsistentStep == Consistent /\ [Next]_vars => Consistent'
<1> SUFFICES ASSUME Consistent, [Next]_vars PROVE Consistent'
    OBVIOUS
<1> USE RequestFields, UserAssumption DEF Consistent
<1>1. ASSUME NEW r \in Requests, CheckRateLimit(r) PROVE Consistent'
  <2>1. GatewayTypeOK' /\ SlotsHaveJobs'
    BY <1>1 DEF CheckRateLimit, Goto, Answer, slotVars, envVars, observed, GatewayTypeOK,
                SlotsHaveJobs, HandlerSteps, Replies
  <2>2. UNCHANGED <<window, cache, queueVars, callVars>>
    BY <1>1 DEF CheckRateLimit
  <2>3. QED
    BY <2>1, <2>2, QueueStutterOK DEF WindowTypeOK, CacheTypeOK, CallTypeOK, callVars
<1>2. ASSUME NEW r \in Requests, Lookup(r) PROVE Consistent'
  <2>1. shown' \in [Requests -> Entries]
    <3>1. cache[KeyOf[r]] \in Entries
      BY DEF CacheTypeOK
    <3>2. QED
      BY <1>2, <3>1 DEF Lookup, GatewayTypeOK
  <2>2. GatewayTypeOK' /\ SlotsHaveJobs'
    BY <1>2, <2>1 DEF Lookup, Goto, Answer, slotVars, envVars, observed, GatewayTypeOK,
                      SlotsHaveJobs, HandlerSteps, Replies
  <2>3. UNCHANGED <<window, cache, queueVars, callVars>>
    BY <1>2 DEF Lookup
  <2>4. QED
    BY <2>2, <2>3, QueueStutterOK DEF WindowTypeOK, CacheTypeOK, CallTypeOK, callVars
<1>3. ASSUME NEW r \in Requests, LockKey(r) PROVE Consistent'
  <2>1. CacheTypeOK'
    BY <1>3, EntriesOf, SetEntryTyped DEF LockKey, Lock
  <2>2. GatewayTypeOK' /\ SlotsHaveJobs'
    BY <1>3 DEF LockKey, Goto, slotVars, envVars, observed, GatewayTypeOK, SlotsHaveJobs,
                HandlerSteps
  <2>3. UNCHANGED <<window, queueVars, callVars>>
    BY <1>3 DEF LockKey
  <2>4. QED
    BY <2>1, <2>2, <2>3, QueueStutterOK DEF WindowTypeOK, CallTypeOK, callVars
<1>4. ASSUME NEW r \in Requests, Record(r) PROVE Consistent'
  <2>1. WindowTypeOK'
    BY <1>4 DEF Record, RecordRequest, WindowTypeOK
  <2>2. GatewayTypeOK' /\ SlotsHaveJobs'
    BY <1>4 DEF Record, Goto, slotVars, envVars, observed, GatewayTypeOK, SlotsHaveJobs,
                HandlerSteps
  <2>3. UNCHANGED <<cache, queueVars, callVars>>
    BY <1>4 DEF Record
  <2>4. QED
    BY <2>1, <2>2, <2>3, QueueStutterOK DEF CacheTypeOK, CallTypeOK, callVars
<1>5. ASSUME NEW r \in Requests, Enqueue(r) PROVE Consistent'
  <2>1. KeyOf[r] \in Keys /\ r \in Duplicates(KeyOf[r])
    BY DEF Duplicates
  <2>2. QueueOK'
    BY <1>5, <2>1, AddOK DEF Enqueue
  <2>3. GatewayTypeOK' /\ SlotsHaveJobs'
    BY <1>5 DEF Enqueue, Goto, slotVars, envVars, observed, GatewayTypeOK, SlotsHaveJobs,
                HandlerSteps
  <2>4. UNCHANGED <<window, cache, callVars>>
    BY <1>5 DEF Enqueue
  <2>5. QED
    BY <2>2, <2>3, <2>4 DEF WindowTypeOK, CacheTypeOK, CallTypeOK, callVars
<1>6. ASSUME NEW r \in Requests, Store(r) PROVE Consistent'
  <2>1. CacheTypeOK'
    BY <1>6, EntriesOf, SetEntryTyped DEF Store, StoreResponse
  <2>2. GatewayTypeOK' /\ SlotsHaveJobs'
    BY <1>6, EntriesOf DEF Store, Answer, Goto, slotVars, envVars, observed, GatewayTypeOK,
                           SlotsHaveJobs, HandlerSteps, Replies
  <2>3. UNCHANGED <<window, queueVars, callVars>>
    BY <1>6 DEF Store
  <2>4. QED
    BY <2>1, <2>2, <2>3, QueueStutterOK DEF WindowTypeOK, CallTypeOK, callVars
<1>7. ASSUME NEW r \in Requests, HandlerCommandFails(r) PROVE Consistent'
  <2>1. GatewayTypeOK' /\ SlotsHaveJobs' /\ UNCHANGED callVars
    BY <1>7 DEF HandlerCommandFails, Fault, Answer, Goto, slotVars, hosts, observed,
                GatewayTypeOK, SlotsHaveJobs, HandlerSteps, Replies
  <2>2. WindowTypeOK'
    BY <1>7 DEF HandlerCommandFails, CommandExecutes, RecordRequest, WindowTypeOK
  <2>3. CacheTypeOK'
    <3>1. \/ UNCHANGED cache
          \/ SetEntry(KeyOf[r], Placeholder)
          \/ SetEntry(KeyOf[r], Accepted(r))
      BY <1>7 DEF HandlerCommandFails, CommandExecutes, Lock, StoreResponse
    <3>2. QED
      BY <3>1, EntriesOf, SetEntryTyped DEF CacheTypeOK
  <2>4. QueueOK'
    <3>1. KeyOf[r] \in Keys /\ r \in Duplicates(KeyOf[r])
      BY DEF Duplicates
    <3>2. UNCHANGED queueVars \/ Add(KeyOf[r], r)
      BY <1>7 DEF HandlerCommandFails, CommandExecutes
    <3>3. QED
      BY <3>1, <3>2, QueueStutterOK, AddOK
  <2>5. QED
    BY <2>1, <2>2, <2>3, <2>4 DEF CallTypeOK, callVars
<1>7a. ASSUME NEW r \in Requests, HandlerCommandResent(r) PROVE Consistent'
  <2>1. GatewayTypeOK' /\ SlotsHaveJobs' /\ UNCHANGED callVars
    BY <1>7a DEF HandlerCommandResent, Fault, handlerVars, slotVars, hosts, observed,
                 GatewayTypeOK, SlotsHaveJobs
  <2>2. WindowTypeOK'
    BY <1>7a DEF HandlerCommandResent, CommandExecutes, RecordRequest, WindowTypeOK
  <2>3. CacheTypeOK'
    <3>1. \/ UNCHANGED cache
          \/ SetEntry(KeyOf[r], Placeholder)
          \/ SetEntry(KeyOf[r], Accepted(r))
      BY <1>7a DEF HandlerCommandResent, CommandExecutes, Lock, StoreResponse
    <3>2. QED
      BY <3>1, EntriesOf, SetEntryTyped DEF CacheTypeOK
  <2>4. QueueOK'
    <3>1. KeyOf[r] \in Keys /\ r \in Duplicates(KeyOf[r])
      BY DEF Duplicates
    <3>2. UNCHANGED queueVars \/ Add(KeyOf[r], r)
      BY <1>7a DEF HandlerCommandResent, CommandExecutes
    <3>3. QED
      BY <3>1, <3>2, QueueStutterOK, AddOK
  <2>5. QED
    BY <2>1, <2>2, <2>3, <2>4 DEF CallTypeOK, callVars
<1>7b. ASSUME NEW r \in Requests, HandlerCommandRefused(r) PROVE Consistent'
  <2>1. GatewayTypeOK' /\ SlotsHaveJobs'
    BY <1>7b DEF HandlerCommandRefused, Answer, Goto, slotVars, envVars, observed,
                 GatewayTypeOK, SlotsHaveJobs, HandlerSteps, Replies
  <2>2. UNCHANGED <<window, cache, queueVars, callVars>>
    BY <1>7b DEF HandlerCommandRefused
  <2>3. QED
    BY <2>1, <2>2, QueueStutterOK DEF WindowTypeOK, CacheTypeOK, CallTypeOK, callVars
<1>8. ASSUME NEW s \in Slots, NEW k \in Keys, TakeJob(s, k) PROVE Consistent'
  <2>1. jobData[k] \in Duplicates(k) /\ jobData[k] \in Requests
    BY <1>8 DEF TakeJob, Activate, QueueOK, Duplicates
  <2>2. QueueOK'
    BY <1>8, ActivateOK DEF TakeJob
  <2>3. CallTypeOK'
    BY <1>8, <2>1 DEF TakeJob, BeginCall, CallTypeOK, Phases
  <2>4. GatewayTypeOK' /\ SlotsHaveJobs'
    BY <1>8, <2>1 DEF TakeJob, handlerVars, envVars, observed, GatewayTypeOK, SlotsHaveJobs,
                      SlotSteps
  <2>5. UNCHANGED <<window, cache>>
    BY <1>8 DEF TakeJob
  <2>6. QED
    BY <2>2, <2>3, <2>4, <2>5 DEF WindowTypeOK, CacheTypeOK
<1>9. ASSUME NEW s \in Slots, Send(s) PROVE Consistent'
  <2>1. PICK o \in Outcomes :
          /\ slotPc[s] = "sending"
          /\ ProviderAnswers(s, o)
          /\ slotPc' = [slotPc EXCEPT ![s] = SlotStepAfter(callPhase'[s])]
          /\ sends' = IF o = "ok" THEN [sends EXCEPT ![slotJob[s]] = @ + 1] ELSE sends
          /\ UNCHANGED <<window, cache, queueVars, handlerVars, slotKey, slotJob,
                         envVars, gaveUp>>
    BY <1>9 DEF Send
  <2>2. CallTypeOK'
    <3>1. PhaseAfter(s, o) \in Phases
      BY DEF PhaseAfter, Phases, Outcomes
    <3>2. QED
      BY <2>1, <3>1 DEF ProviderAnswers, CallTypeOK
  <2>3. GatewayTypeOK' /\ SlotsHaveJobs'
    <3>1. SlotStepAfter(callPhase'[s]) \in SlotSteps
      BY DEF SlotStepAfter, SlotSteps
    <3>2. sends' \in [Requests -> Nat]
      <4>1. sends \in [Requests -> Nat] /\ slotJob[s] \in Requests
        BY <2>1 DEF GatewayTypeOK, SlotsHaveJobs, Duplicates
      <4>2. sends[slotJob[s]] + 1 \in Nat
        BY <4>1
      <4>3. [sends EXCEPT ![slotJob[s]] = @ + 1] \in [Requests -> Nat]
        BY <4>1, <4>2
      <4>4. QED
        BY <2>1, <4>1, <4>3
    <3>3. QED
      BY <2>1, <3>1, <3>2 DEF handlerVars, envVars, GatewayTypeOK, SlotsHaveJobs
  <2>4. QED
    BY <2>1, <2>2, <2>3, QueueStutterOK DEF WindowTypeOK, CacheTypeOK
<1>9a. ASSUME NEW s \in Slots, ProviderHangs(s) PROVE Consistent'
  <2>1. sends' \in [Requests -> Nat]
    <3>1. sends \in [Requests -> Nat] /\ slotJob[s] \in Requests
      BY <1>9a DEF ProviderHangs, GatewayTypeOK, SlotsHaveJobs, Duplicates
    <3>2. sends[slotJob[s]] + 1 \in Nat
      BY <3>1
    <3>3. [sends EXCEPT ![slotJob[s]] = @ + 1] \in [Requests -> Nat]
      BY <3>1, <3>2
    <3>4. QED
      BY <1>9a, <3>1, <3>3 DEF ProviderHangs
  <2>2. GatewayTypeOK' /\ SlotsHaveJobs'
    BY <1>9a, <2>1 DEF ProviderHangs, Fault, handlerVars, hosts, GatewayTypeOK,
                       SlotsHaveJobs, SlotSteps
  <2>3. UNCHANGED <<window, cache, queueVars, callVars>>
    BY <1>9a DEF ProviderHangs
  <2>4. QED
    BY <2>2, <2>3, QueueStutterOK DEF WindowTypeOK, CacheTypeOK, CallTypeOK, callVars
<1>10. ASSUME NEW s \in Slots, StoreSent(s) PROVE Consistent'
  <2>1. slotJob[s] \in Requests
    BY <1>10 DEF StoreSent, SlotsHaveJobs, Duplicates
  <2>2. CacheTypeOK'
    BY <1>10, <2>1, EntriesOf, SetEntryTyped DEF StoreSent, StoreSuccess
  <2>3. GatewayTypeOK' /\ SlotsHaveJobs'
    BY <1>10 DEF StoreSent, SlotGoto, handlerVars, envVars, observed, GatewayTypeOK,
                 SlotsHaveJobs, SlotSteps
  <2>4. UNCHANGED <<window, queueVars, callVars>>
    BY <1>10 DEF StoreSent
  <2>5. QED
    BY <2>2, <2>3, <2>4, QueueStutterOK DEF WindowTypeOK, CallTypeOK, callVars
<1>11. ASSUME NEW s \in Slots, StoreFailed(s) PROVE Consistent'
  <2>1. slotJob[s] \in Requests
    BY <1>11 DEF StoreFailed, SlotsHaveJobs, Duplicates
  <2>2. CacheTypeOK'
    BY <1>11, <2>1, EntriesOf, SetEntryTyped DEF StoreFailed, StoreFailure
  <2>3. GatewayTypeOK' /\ SlotsHaveJobs'
    BY <1>11 DEF StoreFailed, SlotGoto, handlerVars, envVars, observed, GatewayTypeOK,
                 SlotsHaveJobs, SlotSteps
  <2>4. UNCHANGED <<window, queueVars, callVars>>
    BY <1>11 DEF StoreFailed
  <2>5. QED
    BY <2>2, <2>3, <2>4, QueueStutterOK DEF WindowTypeOK, CallTypeOK, callVars
<1>12. ASSUME NEW s \in Slots, SlotCommandFails(s) PROVE Consistent'
  <2>1. slotJob[s] \in Requests
    BY <1>12 DEF SlotCommandFails, SlotRejected, SlotsHaveJobs, Duplicates
  <2>2. CacheTypeOK'
    <3>1. \/ UNCHANGED cache
          \/ SetEntry(slotKey[s], Sent(slotJob[s]))
          \/ SetEntry(slotKey[s], Failed(slotJob[s]))
      BY <1>12 DEF SlotCommandFails, SlotCommandExecutes, StoreSuccess, StoreFailure
    <3>2. QED
      BY <2>1, <3>1, EntriesOf, SetEntryTyped DEF CacheTypeOK
  <2>3. GatewayTypeOK' /\ SlotsHaveJobs'
    BY <1>12 DEF SlotCommandFails, SlotRejected, Fault, SlotGoto, handlerVars, hosts, observed,
                 GatewayTypeOK, SlotsHaveJobs, SlotSteps
  <2>4. UNCHANGED <<window, queueVars, callVars>>
    BY <1>12 DEF SlotCommandFails
  <2>5. QED
    BY <2>2, <2>3, <2>4, QueueStutterOK DEF WindowTypeOK, CallTypeOK, callVars
<1>12a. ASSUME NEW s \in Slots, SlotCommandResent(s) PROVE Consistent'
  <2>1. slotJob[s] \in Requests
    BY <1>12a DEF SlotCommandResent, SlotCommandExecutes, SlotsHaveJobs, Duplicates
  <2>2. CacheTypeOK'
    <3>1. \/ SetEntry(slotKey[s], Sent(slotJob[s]))
          \/ SetEntry(slotKey[s], Failed(slotJob[s]))
      BY <1>12a DEF SlotCommandResent, SlotCommandExecutes, StoreSuccess, StoreFailure
    <3>2. QED
      BY <2>1, <3>1, EntriesOf, SetEntryTyped
  <2>3. GatewayTypeOK' /\ SlotsHaveJobs'
    BY <1>12a DEF SlotCommandResent, Fault, handlerVars, slotVars, hosts, observed,
                  GatewayTypeOK, SlotsHaveJobs
  <2>4. UNCHANGED <<window, queueVars, callVars>>
    BY <1>12a DEF SlotCommandResent
  <2>5. QED
    BY <2>2, <2>3, <2>4, QueueStutterOK DEF WindowTypeOK, CallTypeOK, callVars
<1>12b. ASSUME NEW s \in Slots, SlotCommandRefused(s) PROVE Consistent'
  <2>1. GatewayTypeOK' /\ SlotsHaveJobs'
    BY <1>12b DEF SlotCommandRefused, SlotRejected, SlotGoto, handlerVars, envVars,
                  observed, GatewayTypeOK, SlotsHaveJobs, SlotSteps
  <2>2. UNCHANGED <<window, cache, queueVars, callVars>>
    BY <1>12b DEF SlotCommandRefused
  <2>3. QED
    BY <2>1, <2>2, QueueStutterOK DEF WindowTypeOK, CacheTypeOK, CallTypeOK, callVars
<1>13. ASSUME NEW s \in Slots, FinishJob(s) PROVE Consistent'
  <2>1. QueueOK'
    BY <1>13, CompleteOK DEF FinishJob, SlotsHaveJobs
  <2>2. CallTypeOK' /\ GatewayTypeOK' /\ SlotsHaveJobs'
    BY <1>13 DEF FinishJob, Free, EndCall, handlerVars, envVars, observed, CallTypeOK,
                 GatewayTypeOK, SlotsHaveJobs, SlotSteps, Phases
  <2>3. QED
    BY <1>13, <2>1, <2>2 DEF FinishJob, WindowTypeOK, CacheTypeOK
<1>14. ASSUME NEW s \in Slots, FailJob(s) PROVE Consistent'
  <2>1. slotKey[s] \in Keys
    BY <1>14 DEF FailJob, SlotsHaveJobs
  <2>2. QueueOK'
    BY <1>14, <2>1, FailOK DEF FailJob
  <2>3. gaveUp' \in SUBSET Keys
    BY <1>14, <2>1 DEF FailJob, GatewayTypeOK
  <2>4. CallTypeOK' /\ GatewayTypeOK' /\ SlotsHaveJobs'
    BY <1>14, <2>3 DEF FailJob, Free, EndCall, handlerVars, envVars, CallTypeOK,
                       GatewayTypeOK, SlotsHaveJobs, SlotSteps, Phases
  <2>5. QED
    BY <1>14, <2>2, <2>4 DEF FailJob, WindowTypeOK, CacheTypeOK
<1>15. ASSUME NEW k \in Keys, WakeJob(k) PROVE Consistent'
  <2>1. QueueOK'
    BY <1>15, PromoteOK DEF WakeJob
  <2>2. QED
    BY <1>15, <2>1 DEF WakeJob, handlerVars, callVars, slotVars, envVars, observed,
                       WindowTypeOK, CacheTypeOK, CallTypeOK, GatewayTypeOK, SlotsHaveJobs
<1>16. ASSUME NEW k \in Keys, RequeueStalled(k) PROVE Consistent'
  <2>1. QueueOK'
    BY <1>16, RecoverStalledOK DEF RequeueStalled
  <2>2. QED
    BY <1>16, <2>1 DEF RequeueStalled, handlerVars, callVars, slotVars, envVars,
                       WindowTypeOK, CacheTypeOK, CallTypeOK, GatewayTypeOK, SlotsHaveJobs
<1>17. ASSUME NEW u \in Users, WindowSlides(u) PROVE Consistent'
  <2>1. WindowTypeOK'
    BY <1>17 DEF WindowSlides, Slide, WindowTypeOK
  <2>2. QED
    BY <1>17, <2>1, QueueStutterOK
       DEF WindowSlides, handlerVars, callVars, slotVars, envVars, observed, CacheTypeOK,
           CallTypeOK, GatewayTypeOK, SlotsHaveJobs
<1>18. ASSUME NEW k \in Keys, LockLost(k) PROVE Consistent'
  <2>1. QueueOK'
    BY <1>18, LoseLockOK DEF LockLost
  <2>2. QED
    BY <1>18, <2>1 DEF LockLost, Fault, handlerVars, callVars, slotVars, hosts, observed,
                       WindowTypeOK, CacheTypeOK, CallTypeOK, GatewayTypeOK, SlotsHaveJobs
<1>19. ASSUME NEW k \in Keys, CacheExpires(k) PROVE Consistent'
  <2>1. CacheTypeOK'
    BY <1>19, EntriesOf, SetEntryTyped DEF CacheExpires, EntryExpires
  <2>2. QED
    BY <1>19, <2>1, QueueStutterOK
       DEF CacheExpires, Fault, handlerVars, callVars, slotVars, hosts, observed,
           WindowTypeOK, CallTypeOK, GatewayTypeOK, SlotsHaveJobs
<1>20. ASSUME NEW k \in Keys, JobRemoved(k) PROVE Consistent'
  <2>1. QueueOK'
    BY <1>20, RemoveJobOK DEF JobRemoved
  <2>2. QED
    BY <1>20, <2>1 DEF JobRemoved, Fault, handlerVars, callVars, slotVars, hosts, observed,
                       WindowTypeOK, CacheTypeOK, CallTypeOK, GatewayTypeOK, SlotsHaveJobs
<1>21. ASSUME NEW i \in Instances, Crash(i) PROVE Consistent'
  <2>1. QueueOK'
    BY <1>21 DEF Crash, QueueOK, QueueTypeOK
  <2>2. CallTypeOK' /\ WindowTypeOK' /\ CacheTypeOK'
    BY <1>21 DEF Crash, CallTypeOK, WindowTypeOK, CacheTypeOK, Phases
  <2>3. GatewayTypeOK' /\ SlotsHaveJobs'
    BY <1>21 DEF Crash, Fault, observed, GatewayTypeOK, SlotsHaveJobs, HandlerSteps,
                 Replies, SlotSteps
  <2>4. QED
    BY <2>1, <2>2, <2>3
<1>21a. ASSUME NEW i \in Instances, ClientEnds(i) \/ CloseWorker(i) \/ Restart(i)
        PROVE  Consistent'
  <2>1. /\ closing' \in SUBSET Instances /\ ended' \in SUBSET Instances
        /\ faults' \in Nat
    BY <1>21a DEF ClientEnds, CloseWorker, Restart, StartAgain, Fault, GatewayTypeOK
  <2>2. UNCHANGED <<window, cache, queueVars, callVars, handlerVars, slotVars, observed>>
    BY <1>21a DEF ClientEnds, CloseWorker, Restart, StartAgain
  <2>3. GatewayTypeOK' /\ SlotsHaveJobs'
    BY <2>1, <2>2 DEF handlerVars, slotVars, observed, GatewayTypeOK, SlotsHaveJobs
  <2>4. QED
    BY <2>2, <2>3, QueueStutterOK DEF WindowTypeOK, CacheTypeOK, CallTypeOK, callVars
<1>22. CASE UNCHANGED vars
  BY <1>22, QueueStutterOK
     DEF vars, handlerVars, callVars, slotVars, envVars, observed, WindowTypeOK, CacheTypeOK,
         CallTypeOK, GatewayTypeOK, SlotsHaveJobs
<1>23. QED
  BY <1>1, <1>2, <1>3, <1>4, <1>5, <1>6, <1>7, <1>7a, <1>7b, <1>8, <1>9,
     <1>9a, <1>10, <1>11, <1>12, <1>12a, <1>12b, <1>13, <1>14, <1>15, <1>16, <1>17,
     <1>18, <1>19, <1>20, <1>21, <1>21a, <1>22
     DEF Next, Handler, Processor, QueueTimer, Quiescent

\* Consistent holds in every reachable state: everything below relies on it.
THEOREM ConsistentAlways == Spec => []Consistent
BY ConsistentInit, ConsistentStep, PTL DEF Spec

-----------------------------------------------------------------------------
\* Which steps write the cache, and which decide what a client is shown.
LEMMA CacheChanges ==
  ASSUME [Next]_vars
  PROVE  \/ UNCHANGED cache
         \/ \E k \in Keys : SetEntry(k, Missing) \/ SetEntry(k, Placeholder)
         \/ \E r \in Requests : pc[r] = "store" /\ SetEntry(KeyOf[r], Accepted(r))
         \/ \E s \in Slots :
              \/ slotPc[s] = "storing" /\ SetEntry(slotKey[s], Sent(slotJob[s]))
              \/ slotPc[s] = "storingFailure" /\ SetEntry(slotKey[s], Failed(slotJob[s]))
BY RequestFields
   DEF Next, Handler, Processor, QueueTimer, Quiescent, vars, CheckRateLimit, Lookup,
       LockKey, Record, Enqueue, Store, HandlerCommandFails, HandlerCommandResent,
       HandlerCommandRefused, CommandExecutes, TakeJob, Send, ProviderHangs, StoreSent,
       StoreFailed, SlotCommandFails, SlotCommandResent, SlotCommandRefused,
       SlotRejected, SlotCommandExecutes, FinishJob, FailJob, WakeJob, RequeueStalled,
       WindowSlides, LockLost, CacheExpires, JobRemoved, Crash, Lock, StoreResponse,
       StoreSuccess, StoreFailure, EntryExpires, ClientEnds, CloseWorker, Restart,
       StartAgain

\* Only a lookup that hits and a handler that accepts show a client a body.
LEMMA ShownChanges ==
  ASSUME [Next]_vars
  PROVE  (\E r \in Requests : Lookup(r) \/ Store(r)) \/ UNCHANGED shown
BY DEF Next, Handler, Processor, QueueTimer, Quiescent, vars, handlerVars,
       CheckRateLimit, LockKey, Record, Enqueue, HandlerCommandFails,
       HandlerCommandResent, HandlerCommandRefused, CommandExecutes, TakeJob, Send,
       ProviderHangs, StoreSent, StoreFailed, SlotCommandFails, SlotCommandResent,
       SlotCommandRefused, SlotRejected, SlotCommandExecutes, FinishJob, FailJob,
       WakeJob, RequeueStalled, WindowSlides, LockLost, CacheExpires, JobRemoved, Crash,
       ClientEnds, CloseWorker, Restart, StartAgain

\* The observed deliveries and failures only ever grow.
LEMMA ObservedGrow ==
  ASSUME Consistent, [Next]_vars
  PROVE  /\ \A r \in Requests : sends[r] > 0 => sends'[r] > 0
         /\ gaveUp \subseteq gaveUp'
<1>1. CASE \E s \in Slots : Send(s)
  <2>1. PICK s \in Slots : Send(s)
    BY <1>1
  <2>2. sends \in [Requests -> Nat] /\ UNCHANGED gaveUp
    BY <2>1 DEF Send, Consistent, GatewayTypeOK
  <2>3. sends' = sends \/ sends' = [sends EXCEPT ![slotJob[s]] = @ + 1]
    BY <2>1 DEF Send
  <2>4. QED
    BY <2>2, <2>3
<1>2. CASE UNCHANGED sends /\ gaveUp \subseteq gaveUp'
  BY <1>2
<1>a. CASE \E s \in Slots : ProviderHangs(s)
  <2>1. PICK s \in Slots : ProviderHangs(s)
    BY <1>a
  <2>2. sends \in [Requests -> Nat] /\ UNCHANGED gaveUp
    BY <2>1 DEF ProviderHangs, Consistent, GatewayTypeOK
  <2>3. sends' = sends \/ sends' = [sends EXCEPT ![slotJob[s]] = @ + 1]
    BY <2>1 DEF ProviderHangs
  <2>4. QED
    BY <2>2, <2>3
<1>3. \/ \E s \in Slots : Send(s) \/ ProviderHangs(s)
      \/ UNCHANGED sends /\ gaveUp \subseteq gaveUp'
  BY DEF Next, Handler, Processor, QueueTimer, Quiescent, vars, observed,
         CheckRateLimit, Lookup, LockKey, Record, Enqueue, Store, HandlerCommandFails,
         HandlerCommandResent, HandlerCommandRefused, CommandExecutes, TakeJob,
         StoreSent, StoreFailed, SlotCommandFails, SlotCommandResent,
         SlotCommandRefused, SlotRejected, SlotCommandExecutes, FinishJob, FailJob,
         WakeJob, RequeueStalled, WindowSlides, LockLost, CacheExpires, JobRemoved,
         Crash, ClientEnds, CloseWorker, Restart, StartAgain
<1>4. QED
  BY <1>1, <1>2, <1>a, <1>3

-----------------------------------------------------------------------------
\* NoCrossTalk is inductive on its own, given Consistent.

\* The invariant is preserved by writing an entry of the key.
LEMMA KeyedEntry ==
  ASSUME CacheTypeOK, \A q \in Keys : cache[q].job # NoJob => KeyOf[cache[q].job] = q,
         NEW k, NEW e, e.job # NoJob => KeyOf[e.job] = k, SetEntry(k, e)
  PROVE  (\A q \in Keys : cache[q].job # NoJob => KeyOf[cache[q].job] = q)'
BY DEF CacheTypeOK, SetEntry

\* The jobId in each kind of entry.
LEMMA JobOfEntry ==
  /\ Missing.job = NoJob /\ Placeholder.job = NoJob
  /\ \A r : Accepted(r).job = r /\ Sent(r).job = r /\ Failed(r).job = r
BY DEF Missing, Placeholder, Accepted, Sent, Failed

\* Nothing refers to a key before the first request.
LEMMA NoCrossTalkInit == Init => NoCrossTalk
BY JobOfEntry DEF Init, CacheInit, NoCrossTalk

\* Cache, clients and processors keep to their keys at each step.
LEMMA NoCrossTalkStep ==
  Consistent /\ NoCrossTalk /\ [Next]_vars => NoCrossTalk'
<1> SUFFICES ASSUME Consistent, NoCrossTalk, [Next]_vars PROVE NoCrossTalk'
    OBVIOUS
<1> DEFINE CacheKeyed == \A k \in Keys : cache[k].job # NoJob => KeyOf[cache[k].job] = k
           ShownKeyed == \A r \in Requests :
                           shown[r].job # NoJob => KeyOf[shown[r].job] = KeyOf[r]
           SlotsKeyed == \A s \in Slots :
                           slotJob[s] # NoJob => KeyOf[slotJob[s]] = slotKey[s]
<1>a. CacheKeyed /\ ShownKeyed /\ SlotsKeyed /\ CacheTypeOK
  BY DEF NoCrossTalk, Consistent
<1>b. SUFFICES CacheKeyed' /\ ShownKeyed' /\ SlotsKeyed'
  BY DEF NoCrossTalk
<1>1. CacheKeyed'
  <2>1. CASE UNCHANGED cache
    BY <1>a, <2>1
  <2>2. CASE \E k \in Keys : SetEntry(k, Missing) \/ SetEntry(k, Placeholder)
    <3>1. PICK k \in Keys : SetEntry(k, Missing) \/ SetEntry(k, Placeholder)
      BY <2>2
    <3>2. QED
      BY <1>a, <3>1, KeyedEntry, JobOfEntry
  <2>3. CASE \E r \in Requests : pc[r] = "store" /\ SetEntry(KeyOf[r], Accepted(r))
    <3>1. PICK r \in Requests : SetEntry(KeyOf[r], Accepted(r))
      BY <2>3
    <3>2. QED
      BY <1>a, <3>1, KeyedEntry, JobOfEntry
  <2>4. CASE \E s \in Slots :
               \/ slotPc[s] = "storing" /\ SetEntry(slotKey[s], Sent(slotJob[s]))
               \/ slotPc[s] = "storingFailure" /\ SetEntry(slotKey[s], Failed(slotJob[s]))
    <3>1. PICK s \in Slots :
            \/ slotPc[s] = "storing" /\ SetEntry(slotKey[s], Sent(slotJob[s]))
            \/ slotPc[s] = "storingFailure" /\ SetEntry(slotKey[s], Failed(slotJob[s]))
      BY <2>4
    <3>2. KeyOf[slotJob[s]] = slotKey[s]
      BY <3>1 DEF Consistent, SlotsHaveJobs, Duplicates
    <3>3. QED
      BY <1>a, <3>1, <3>2, KeyedEntry, JobOfEntry
  <2>5. QED
    BY <2>1, <2>2, <2>3, <2>4, CacheChanges
<1>2. ShownKeyed'
  <2>1. CASE \E r \in Requests : Lookup(r)
    <3>1. PICK r \in Requests : Lookup(r)
      BY <2>1
    <3>2. UNCHANGED shown \/ shown' = [shown EXCEPT ![r] = cache[KeyOf[r]]]
      BY <3>1 DEF Lookup
    <3>3. cache[KeyOf[r]].job # NoJob => KeyOf[cache[KeyOf[r]].job] = KeyOf[r]
      BY <1>a, RequestFields
    <3>4. QED
      BY <1>a, <3>2, <3>3 DEF Consistent, GatewayTypeOK
  <2>2. CASE \E r \in Requests : Store(r)
    <3>1. PICK r \in Requests : Store(r)
      BY <2>2
    <3>2. shown' = [shown EXCEPT ![r] = Accepted(r)]
      BY <3>1 DEF Store
    <3>3. QED
      BY <1>a, <3>2, JobOfEntry DEF Consistent, GatewayTypeOK
  <2>3. CASE UNCHANGED shown
    BY <1>a, <2>3
  <2>4. QED
    BY <2>1, <2>2, <2>3, ShownChanges
<1>3. SlotsKeyed'
  <2>1. CASE \E s \in Slots, k \in Keys : TakeJob(s, k)
    <3>1. PICK s \in Slots, k \in Keys : TakeJob(s, k)
      BY <2>1
    <3>2. KeyOf[jobData[k]] = k
      BY <3>1 DEF TakeJob, Activate, Consistent, QueueOK, Duplicates
    <3>3. /\ slotKey' = [slotKey EXCEPT ![s] = k]
          /\ slotJob' = [slotJob EXCEPT ![s] = jobData[k]]
      BY <3>1 DEF TakeJob
    <3>4. QED
      BY <1>a, <3>2, <3>3 DEF Consistent, GatewayTypeOK
  <2>2. CASE \E s \in Slots : Free(s)
    BY <1>a, <2>2 DEF Free, Consistent, GatewayTypeOK
  <2>3. CASE \E i \in Instances : Crash(i)
    BY <1>a, <2>3 DEF Crash
  <2>4. CASE UNCHANGED <<slotKey, slotJob>>
    BY <1>a, <2>4
  <2>5. \/ \E s \in Slots, k \in Keys : TakeJob(s, k)
        \/ \E s \in Slots : Free(s)
        \/ \E i \in Instances : Crash(i)
        \/ UNCHANGED <<slotKey, slotJob>>
    BY DEF Next, Handler, Processor, QueueTimer, Quiescent, vars, slotVars, SlotGoto,
           CheckRateLimit, Lookup, LockKey, Record, Enqueue, Store, HandlerCommandFails,
           HandlerCommandResent, HandlerCommandRefused, CommandExecutes, Send,
           ProviderHangs, StoreSent, StoreFailed, SlotCommandFails, SlotCommandResent,
           SlotCommandRefused, SlotRejected, SlotCommandExecutes, FinishJob, FailJob,
           WakeJob, RequeueStalled, WindowSlides, LockLost, CacheExpires, JobRemoved,
           ClientEnds, CloseWorker, Restart, StartAgain
  <2>6. QED
    BY <2>1, <2>2, <2>3, <2>4, <2>5
<1>4. QED
  BY <1>1, <1>2, <1>3

-----------------------------------------------------------------------------
\* SentIsTrue needs to know where a "sent" comes from: a processor about to store
\* or to report a success has had its request delivered.
SlotsDelivered ==
  \A s \in Slots : slotPc[s] \in {"storing", "completing"} => sends[slotJob[s]] > 0

Reported == SentIsTrue /\ SlotsDelivered

\* Which writer each kind of entry comes from.
LEMMA KindOfEntry ==
  /\ Missing.kind # "sent" /\ Placeholder.kind # "sent"
  /\ Missing.kind # "accepted" /\ Placeholder.kind # "accepted"
  /\ \A r : /\ Accepted(r).kind = "accepted"
            /\ Sent(r).kind = "sent"
            /\ Failed(r).kind = "failed"
BY DEF Missing, Placeholder, Accepted, Sent, Failed

\* Only a request has a delivery reported.
LEMMA SentEntry ==
  ASSUME NEW e \in Entries, e.kind = "sent"
  PROVE  e.job \in Requests
BY DEF Entries, Missing, Placeholder, Accepted, Sent, Failed

\* Nothing is reported before the first request.
LEMMA ReportedInit == Init => Reported
BY KindOfEntry DEF Init, CacheInit, Reported, SentIsTrue, SlotsDelivered

\* A success is stored only after a delivery, which is never undone.
LEMMA ReportedStep == Consistent /\ Reported /\ [Next]_vars => Reported'
<1> SUFFICES ASSUME Consistent, Reported, [Next]_vars PROVE Reported'
    OBVIOUS
<1> DEFINE Grown == \A r \in Requests : sends[r] > 0 => sends'[r] > 0
<1>a. Grown
  BY ObservedGrow
<1>b. CacheTypeOK /\ shown \in [Requests -> Entries]
  BY DEF Consistent, GatewayTypeOK
<1>c. \A s \in Slots : slotPc[s] # "idle" => slotJob[s] \in Requests
  BY DEF Consistent, SlotsHaveJobs, Duplicates
<1>d. \A k \in Keys : cache[k].kind = "sent" => sends'[cache[k].job] > 0
  BY <1>a, <1>b, SentEntry DEF CacheTypeOK, Reported, SentIsTrue
<1>1. (\A k \in Keys : cache[k].kind = "sent" => sends[cache[k].job] > 0)'
  <2>1. CASE UNCHANGED cache
    BY <1>d, <2>1
  <2>2. CASE \E k \in Keys : SetEntry(k, Missing) \/ SetEntry(k, Placeholder)
    BY <1>b, <1>d, <2>2, KindOfEntry DEF CacheTypeOK, SetEntry
  <2>3. CASE \E r \in Requests : pc[r] = "store" /\ SetEntry(KeyOf[r], Accepted(r))
    BY <1>b, <1>d, <2>3, KindOfEntry DEF CacheTypeOK, SetEntry
  <2>4. CASE \E s \in Slots :
               \/ slotPc[s] = "storing" /\ SetEntry(slotKey[s], Sent(slotJob[s]))
               \/ slotPc[s] = "storingFailure" /\ SetEntry(slotKey[s], Failed(slotJob[s]))
    <3>1. PICK s \in Slots :
            \/ slotPc[s] = "storing" /\ SetEntry(slotKey[s], Sent(slotJob[s]))
            \/ slotPc[s] = "storingFailure" /\ SetEntry(slotKey[s], Failed(slotJob[s]))
      BY <2>4
    <3>2. CASE slotPc[s] = "storing" /\ SetEntry(slotKey[s], Sent(slotJob[s]))
      <4>1. sends'[slotJob[s]] > 0
        BY <1>a, <1>c, <3>2 DEF Reported, SlotsDelivered
      <4>2. QED
        BY <1>b, <1>d, <3>2, <4>1, JobOfEntry DEF CacheTypeOK, SetEntry
    <3>3. CASE SetEntry(slotKey[s], Failed(slotJob[s]))
      BY <1>b, <1>d, <3>3, KindOfEntry DEF CacheTypeOK, SetEntry
    <3>4. QED
      BY <3>1, <3>2, <3>3
  <2>5. QED
    BY <2>1, <2>2, <2>3, <2>4, CacheChanges
<1>2. (\A r \in Requests : shown[r].kind = "sent" => sends[shown[r].job] > 0)'
  <2>a. \A r \in Requests : shown[r].kind = "sent" => sends'[shown[r].job] > 0
    BY <1>a, <1>b, SentEntry DEF Reported, SentIsTrue
  <2>1. CASE \E r \in Requests : Lookup(r)
    <3>1. PICK r \in Requests : Lookup(r)
      BY <2>1
    <3>2. UNCHANGED shown \/ shown' = [shown EXCEPT ![r] = cache[KeyOf[r]]]
      BY <3>1 DEF Lookup
    <3>3. cache[KeyOf[r]].kind = "sent" => sends'[cache[KeyOf[r]].job] > 0
      BY <1>d, RequestFields
    <3>4. QED
      BY <1>b, <2>a, <3>2, <3>3
  <2>2. CASE \E r \in Requests : Store(r)
    BY <1>b, <2>a, <2>2, KindOfEntry DEF Store
  <2>3. CASE UNCHANGED shown
    BY <2>a, <2>3
  <2>4. QED
    BY <2>1, <2>2, <2>3, ShownChanges
<1>3. SlotsDelivered'
  <2> USE DEF SlotsDelivered
  <2>a. \A s \in Slots : slotPc[s] \in {"storing", "completing"} => sends'[slotJob[s]] > 0
    BY <1>a, <1>c DEF Reported
  <2>b. slotPc \in [Slots -> SlotSteps] /\ slotJob \in [Slots -> Requests \cup {NoJob}]
    BY DEF Consistent, GatewayTypeOK
  <2>1. CASE \E s \in Slots, k \in Keys : TakeJob(s, k)
    BY <2>a, <2>b, <2>1 DEF TakeJob
  <2>2. CASE \E s \in Slots : Send(s)
    <3>1. PICK s \in Slots, o \in Outcomes :
            /\ slotPc[s] = "sending"
            /\ ProviderAnswers(s, o)
            /\ slotPc' = [slotPc EXCEPT ![s] = SlotStepAfter(callPhase'[s])]
            /\ sends' = IF o = "ok" THEN [sends EXCEPT ![slotJob[s]] = @ + 1] ELSE sends
            /\ UNCHANGED <<slotKey, slotJob>>
      BY <2>2 DEF Send
    <3>2. callPhase'[s] = PhaseAfter(s, o)
      BY <3>1 DEF ProviderAnswers, Consistent, CallTypeOK
    <3>3. slotPc'[s] \in {"storing", "completing"} => o = "ok"
      BY <2>b, <3>1, <3>2 DEF SlotStepAfter, PhaseAfter, Outcomes
    <3>4. o = "ok" => sends'[slotJob[s]] > 0
      <4>1. slotJob[s] \in Requests /\ sends \in [Requests -> Nat]
        BY <1>c, <3>1 DEF Consistent, GatewayTypeOK
      <4>2. QED
        BY <3>1, <4>1
    <3>5. QED
      BY <2>a, <2>b, <3>1, <3>3, <3>4
  <2>c. CASE \E s \in Slots : ProviderHangs(s)
    BY <2>a, <2>b, <2>c DEF ProviderHangs
  <2>3. CASE \E s \in Slots : SlotGoto(s, "completing") /\ slotPc[s] = "storing"
    BY <2>a, <2>b, <2>3 DEF SlotGoto
  <2>4. CASE \E s \in Slots : SlotGoto(s, "failing") \/ SlotGoto(s, "storingFailure")
    BY <2>a, <2>b, <2>4 DEF SlotGoto
  <2>5. CASE \E s \in Slots : Free(s)
    BY <2>a, <2>b, <2>5 DEF Free
  <2>6. CASE \E i \in Instances : Crash(i)
    BY <2>a, <2>b, <2>6 DEF Crash
  <2>7. CASE UNCHANGED slotVars
    BY <2>a, <2>7 DEF slotVars
  <2>8. \/ \E s \in Slots, k \in Keys : TakeJob(s, k)
        \/ \E s \in Slots : Send(s)
        \/ \E s \in Slots : ProviderHangs(s)
        \/ \E s \in Slots : SlotGoto(s, "completing") /\ slotPc[s] = "storing"
        \/ \E s \in Slots : SlotGoto(s, "failing") \/ SlotGoto(s, "storingFailure")
        \/ \E s \in Slots : Free(s)
        \/ \E i \in Instances : Crash(i)
        \/ UNCHANGED slotVars
    BY DEF Next, Handler, Processor, QueueTimer, Quiescent, vars, CheckRateLimit,
           Lookup, LockKey, Record, Enqueue, Store, HandlerCommandFails,
           HandlerCommandResent, HandlerCommandRefused, CommandExecutes, StoreSent,
           StoreFailed, SlotCommandFails, SlotCommandResent,
           SlotCommandRefused, SlotRejected, SlotCommandExecutes, FinishJob, FailJob,
           WakeJob, RequeueStalled, WindowSlides, LockLost, CacheExpires, JobRemoved,
           ClientEnds, CloseWorker, Restart, StartAgain
  <2>9. QED
    BY <2>1, <2>2, <2>c, <2>3, <2>4, <2>5, <2>6, <2>7, <2>8
<1>4. QED
  BY <1>1, <1>2, <1>3 DEF Reported, SentIsTrue

-----------------------------------------------------------------------------
\* PromiseKept needs to know why a job leaves the queue.
Settled(k) == Delivered(k) \/ k \in gaveUp

JobsSettle ==
  \A k \in Keys : jobState[k] \in {"completed", "failed"} => Settled(k)

Kept == JobsSettle /\ PromiseKept

\* Nothing is promised before the first request.
LEMMA KeptInit == Init => Kept
BY KindOfEntry DEF Init, QueueInit, CacheInit, Kept, JobsSettle, PromiseKept, Promised,
                      Duplicates

\* Which steps move a job from one state of the queue to another.
LEMMA QueueChanges ==
  ASSUME [Next]_vars
  PROVE  \/ UNCHANGED jobState
         \/ \E r \in Requests : Add(KeyOf[r], r)
         \/ \E s \in Slots, k \in Keys : Activate(k, s)
         \/ \E s \in Slots : slotPc[s] = "completing" /\ Complete(slotKey[s], s)
         \/ \E s \in Slots : FailJob(s)
         \/ \E k \in Keys : Promote(k) \/ RequeueStalled(k) \/ RemoveJob(k)
BY DEF Next, Handler, Processor, QueueTimer, Quiescent, vars, queueVars, CheckRateLimit,
       Lookup, LockKey, Record, Enqueue, Store, HandlerCommandFails,
       HandlerCommandResent, HandlerCommandRefused, CommandExecutes, TakeJob, Send,
       ProviderHangs, StoreSent, StoreFailed, SlotCommandFails, SlotCommandResent,
       SlotCommandRefused, SlotRejected, SlotCommandExecutes, FinishJob, WakeJob,
       WindowSlides, LockLost, LoseLock, CacheExpires, JobRemoved, Crash, ClientEnds,
       CloseWorker, Restart, StartAgain

\* A job in the queue stays there or is settled, and a finished one is settled.
LEMMA JobMoves ==
  ASSUME Consistent, Reported, JobsSettle, [Next]_vars, NEW k \in Keys
  PROVE  /\ jobState[k] # "absent" => Pending(k)' \/ Settled(k)'
         /\ jobState'[k] \in {"completed", "failed"} => Settled(k)'
<1> DEFINE Goal == /\ jobState[k] # "absent" => Pending(k)' \/ Settled(k)'
                   /\ jobState'[k] \in {"completed", "failed"} => Settled(k)'
<1>a. Settled(k) => Settled(k)'
  BY ObservedGrow DEF Settled, Delivered, Duplicates
<1>b. jobState \in [Keys -> JobStates]
  BY DEF Consistent, QueueOK, QueueTypeOK
<1>c. jobState[k] # "absent" => Pending(k) \/ Settled(k)
  BY <1>b DEF JobsSettle, Pending, JobStates
<1>1. CASE jobState'[k] = jobState[k]
  BY <1>a, <1>c, <1>1 DEF JobsSettle, Pending
<1>2. CASE \E r \in Requests : Add(KeyOf[r], r)
  <2>1. jobState'[k] = jobState[k] \/ jobState'[k] = "waiting"
    BY <1>b, <1>2 DEF Add, queueVars
  <2>2. QED
    BY <1>1, <2>1 DEF Pending
<1>3. CASE \E s \in Slots, q \in Keys : Activate(q, s)
  <2>1. jobState'[k] = jobState[k] \/ jobState'[k] = "active"
    BY <1>b, <1>3 DEF Activate
  <2>2. QED
    BY <1>1, <2>1 DEF Pending
<1>4. CASE \E s \in Slots : slotPc[s] = "completing" /\ Complete(slotKey[s], s)
  <2>1. PICK s \in Slots : slotPc[s] = "completing" /\ Complete(slotKey[s], s)
    BY <1>4
  <2>2. jobState'[k] = jobState[k] \/ k = slotKey[s]
    BY <1>b, <2>1 DEF Complete, queueVars
  <2>3. CASE k = slotKey[s]
    <3>1. slotJob[s] \in Duplicates(k) /\ sends[slotJob[s]] > 0
      BY <2>1, <2>3 DEF Consistent, SlotsHaveJobs, Reported, SlotsDelivered
    <3>2. Settled(k)
      BY <3>1 DEF Settled, Delivered
    <3>3. QED
      BY <1>a, <3>2
  <2>4. QED
    BY <1>1, <2>2, <2>3
<1>5. CASE \E s \in Slots : FailJob(s)
  <2>1. PICK s \in Slots : FailJob(s)
    BY <1>5
  <2>2. jobState'[k] = jobState[k] \/ jobState'[k] = NextTry(k)
    BY <1>b, <2>1 DEF FailJob, Fail, queueVars
  <2>3. CASE jobState'[k] # jobState[k]
    <3>1. k = slotKey[s]
      BY <1>b, <2>1, <2>3 DEF FailJob, Fail, queueVars
    <3>2. jobState'[k] = "failed" => k \in gaveUp'
      BY <2>1, <3>1 DEF FailJob
    <3>3. jobState'[k] = "failed" \/ jobState'[k] = "delayed"
      BY <2>2, <2>3 DEF NextTry
    <3>4. QED
      BY <3>2, <3>3 DEF Pending, Settled
  <2>4. QED
    BY <1>1, <2>3
<1>6. CASE \E q \in Keys : Promote(q)
  <2>1. jobState'[k] = jobState[k] \/ jobState'[k] = "waiting"
    BY <1>b, <1>6 DEF Promote
  <2>2. QED
    BY <1>1, <2>1 DEF Pending
<1>7. CASE \E q \in Keys : RequeueStalled(q)
  <2>1. PICK q \in Keys : RequeueStalled(q)
    BY <1>7
  <2>2. jobState'[k] = jobState[k] \/ (k = q /\ jobState'[k] = AfterStall(k))
    BY <1>b, <2>1 DEF RequeueStalled, RecoverStalled
  <2>3. CASE k = q /\ jobState'[k] = AfterStall(k)
    <3>1. jobState'[k] = "failed" => k \in gaveUp'
      BY <2>1, <2>3 DEF RequeueStalled
    <3>2. jobState'[k] = "failed" \/ jobState'[k] = "waiting"
      BY <2>3 DEF AfterStall
    <3>3. QED
      BY <3>1, <3>2 DEF Pending, Settled
  <2>4. QED
    BY <1>1, <2>2, <2>3
<1>8. CASE \E q \in Keys : RemoveJob(q)
  <2>1. jobState'[k] = jobState[k]
          \/ (jobState[k] \in {"completed", "failed"} /\ jobState'[k] = "absent")
    BY <1>b, <1>8 DEF RemoveJob
  <2>2. QED
    BY <1>1, <1>a, <2>1 DEF JobsSettle
<1>9. QED
  BY <1>1, <1>2, <1>3, <1>4, <1>5, <1>6, <1>7, <1>8, QueueChanges

\* A promise is made only by a request that has written the queue.
LEMMA PromisesMade ==
  ASSUME Consistent, [Next]_vars, NEW k \in Keys, Promised(k)'
  PROVE  Promised(k) \/ jobState'[k] # "absent"
<1>1. CASE cache'[k].kind = "accepted"
  <2>1. CASE cache'[k] = cache[k]
    BY <1>1, <2>1 DEF Promised
  <2>2. CASE \E r \in Requests : pc[r] = "store" /\ SetEntry(KeyOf[r], Accepted(r))
    <3>1. PICK r \in Requests : pc[r] = "store" /\ SetEntry(KeyOf[r], Accepted(r))
      BY <2>2
    <3>2. cache'[k] = cache[k] \/ r \in Duplicates(k)
      BY <3>1 DEF Consistent, CacheTypeOK, SetEntry, Duplicates
    <3>3. QED
      BY <2>1, <3>1, <3>2 DEF Promised
  <2>3. CASE \E q, e : SetEntry(q, e) /\ e.kind # "accepted"
    BY <1>1, <2>1, <2>3 DEF Consistent, CacheTypeOK, SetEntry
  <2>4. QED
    BY <2>1, <2>2, <2>3, CacheChanges, KindOfEntry
<1>2. ASSUME NEW r \in Duplicates(k), pc'[r] = "store" \/ reply'[r] = "accepted"
      PROVE  Promised(k) \/ jobState'[k] # "absent"
  <2>1. r \in Requests /\ KeyOf[r] = k
    BY DEF Duplicates
  <2>2. pc[r] = "store" \/ reply[r] = "accepted" \/ Enqueue(r)
    BY <1>2, <2>1
       DEF Consistent, GatewayTypeOK, Next, Handler, Processor, QueueTimer, Quiescent,
           vars, handlerVars, Goto, Answer, CheckRateLimit, Lookup, LockKey, Record,
           Enqueue, Store, HandlerCommandFails, HandlerCommandResent,
           HandlerCommandRefused, CommandExecutes, TakeJob, Send, ProviderHangs,
           StoreSent, StoreFailed, SlotCommandFails, SlotCommandResent,
           SlotCommandRefused, SlotRejected, SlotCommandExecutes, FinishJob, FailJob,
           WakeJob, RequeueStalled, WindowSlides, LockLost, CacheExpires, JobRemoved,
           Crash, ClientEnds, CloseWorker, Restart, StartAgain
  <2>3. CASE Enqueue(r)
    BY <2>1, <2>3 DEF Enqueue, Add, Consistent, QueueOK, QueueTypeOK, queueVars
  <2>4. QED
    BY <2>2, <2>3 DEF Promised
<1>3. QED
  BY <1>1, <1>2 DEF Promised, Duplicates

\* A promise follows a queued job, and a job leaves the queue settled.
LEMMA KeptStep == Consistent /\ Reported /\ Kept /\ [Next]_vars => Kept'
<1> SUFFICES ASSUME Consistent, Reported, Kept, [Next]_vars PROVE Kept'
    OBVIOUS
<1>1. JobsSettle'
  BY JobMoves DEF Kept, JobsSettle
<1>2. PromiseKept'
  <2> SUFFICES ASSUME NEW k \in Keys, Promised(k)'
               PROVE  Pending(k)' \/ Delivered(k)' \/ k \in gaveUp'
    BY DEF PromiseKept
  <2>1. CASE jobState[k] # "absent"
    BY <2>1, JobMoves DEF Kept, Settled
  <2>2. CASE jobState[k] = "absent" /\ Promised(k)
    <3>1. Settled(k)
      BY <2>2 DEF Kept, PromiseKept, Pending, Settled
    <3>2. Settled(k)'
      BY <3>1, ObservedGrow DEF Settled, Delivered, Duplicates
    <3>3. QED
      BY <3>2 DEF Settled
  <2>3. CASE jobState'[k] # "absent"
    <3>1. Consistent'
      BY ConsistentStep
    <3>2. Pending(k)' \/ jobState'[k] \in {"completed", "failed"}
      BY <2>3, <3>1 DEF Consistent, QueueOK, QueueTypeOK, JobStates, Pending
    <3>3. QED
      BY <3>2, JobMoves DEF Kept, Settled
  <2>4. QED
    BY <2>1, <2>2, <2>3, PromisesMade
<1>3. QED
  BY <1>1, <1>2 DEF Kept

-----------------------------------------------------------------------------
\* Without lost locks a busy processor holds the lock of its job.
Exclusive ==
  Without({"lock"}) => \A s \in Slots : slotPc[s] # "idle" => lockedBy[slotKey[s]] = s

\* No processor is busy at first.
LEMMA ExclusiveInit == Init => Exclusive
BY DEF Init, Exclusive

\* Which steps change the locks or the processors.
LEMMA SlotChanges ==
  ASSUME [Next]_vars
  PROVE  \/ \E s \in Slots, k \in Keys : TakeJob(s, k)
         \/ \E s \in Slots : Send(s) \/ ProviderHangs(s) \/ StoreSent(s) \/ StoreFailed(s)
         \/ \E s \in Slots : SlotCommandFails(s) \/ SlotCommandRefused(s)
         \/ \E s \in Slots : FinishJob(s) \/ FailJob(s)
         \/ \E k \in Keys : LockLost(k)
         \/ \E i \in Instances : Crash(i)
         \/ UNCHANGED <<slotVars, lockedBy>>
BY DEF Next, Handler, Processor, QueueTimer, Quiescent, vars, queueVars, slotVars,
       CheckRateLimit, Lookup, LockKey, Record, Enqueue, Store, HandlerCommandFails,
       HandlerCommandResent, HandlerCommandRefused, CommandExecutes, SlotCommandResent,
       Add, WakeJob, Promote, RequeueStalled, RecoverStalled, WindowSlides,
       CacheExpires, JobRemoved, RemoveJob, ClientEnds, CloseWorker, Restart, StartAgain

\* Only a lost lock lets a job go from under a live processor.
LEMMA ExclusiveStep == Consistent /\ Exclusive /\ [Next]_vars => Exclusive'
<1> SUFFICES ASSUME Consistent, Exclusive, [Next]_vars, Without({"lock"}),
                    NEW t \in Slots, slotPc'[t] # "idle"
             PROVE  lockedBy'[slotKey'[t]] = t
    BY DEF Exclusive, Without
<1>a. /\ slotPc \in [Slots -> SlotSteps]
      /\ slotKey \in [Slots -> Keys \cup {NoJob}]
      /\ lockedBy \in [Keys -> Slots \cup {NoSlot}]
  BY DEF Consistent, GatewayTypeOK, QueueOK, QueueTypeOK
<1>b. \A s \in Slots : slotPc[s] # "idle" =>
        /\ slotKey[s] \in Keys /\ lockedBy[slotKey[s]] = s
        /\ jobState[slotKey[s]] = "active"
  BY NoSlotAssumption DEF Exclusive, Consistent, SlotsHaveJobs, QueueOK
<1>1. CASE \E s \in Slots, k \in Keys : TakeJob(s, k)
  <2>1. PICK s \in Slots, k \in Keys : TakeJob(s, k)
    BY <1>1
  <2>2. /\ slotKey' = [slotKey EXCEPT ![s] = k]
        /\ lockedBy' = [lockedBy EXCEPT ![k] = s]
        /\ jobState[k] = "waiting"
        /\ t # s => slotPc[t] # "idle"
    BY <1>a, <2>1 DEF TakeJob, Activate
  <2>3. QED
    BY <1>a, <1>b, <2>2
<1>2. CASE \E s \in Slots : Send(s) \/ ProviderHangs(s) \/ StoreSent(s) \/ StoreFailed(s)
  <2>1. slotPc[t] # "idle" /\ UNCHANGED <<slotKey, lockedBy>>
    BY <1>a, <1>2 DEF Send, ProviderHangs, StoreSent, StoreFailed, SlotGoto, queueVars
  <2>2. QED
    BY <1>b, <2>1
<1>3. CASE \E s \in Slots : SlotCommandFails(s) \/ SlotCommandRefused(s)
  <2>1. slotPc[t] # "idle" /\ UNCHANGED <<slotKey, lockedBy>>
    BY <1>a, <1>3 DEF SlotCommandFails, SlotCommandRefused, SlotRejected, SlotGoto,
                      queueVars
  <2>2. QED
    BY <1>b, <2>1
<1>4. CASE \E s \in Slots : FinishJob(s) \/ FailJob(s)
  <2>1. PICK s \in Slots : FinishJob(s) \/ FailJob(s)
    BY <1>4
  <2>2. /\ t # s /\ slotPc[t] # "idle" /\ slotKey'[t] = slotKey[t]
        /\ slotPc[s] # "idle"
        /\ UNCHANGED lockedBy \/ lockedBy' = [lockedBy EXCEPT ![slotKey[s]] = NoSlot]
    BY <1>a, <2>1 DEF FinishJob, FailJob, Free, Complete, Fail, Unlock, queueVars
  <2>3. QED
    BY <1>a, <1>b, <2>2
<1>5. CASE \E k \in Keys : LockLost(k)
  BY <1>5 DEF LockLost, Fault, Without
<1>6. CASE \E i \in Instances : Crash(i)
  <2>1. PICK i \in Instances : Crash(i)
    BY <1>6
  <2>2. HostOf[t] # i /\ slotPc[t] # "idle" /\ slotKey'[t] = slotKey[t]
    BY <1>a, <2>1 DEF Crash
  <2>3. lockedBy'[slotKey[t]] = lockedBy[slotKey[t]]
    BY <1>b, <2>1, <2>2 DEF Crash
  <2>4. QED
    BY <1>b, <2>2, <2>3
<1>7. CASE UNCHANGED <<slotVars, lockedBy>>
  BY <1>b, <1>7 DEF slotVars
<1>8. QED
  BY <1>1, <1>2, <1>3, <1>4, <1>5, <1>6, <1>7, SlotChanges

-----------------------------------------------------------------------------
\* Without that fault no client ever gives up.
NoneEnded == Without({"end"}) => ended = {}

\* The clients of all instances are connected at first.
LEMMA NoneEndedInit == Init => NoneEnded
BY DEF Init, NoneEnded

\* Only the fault makes one give up.
LEMMA NoneEndedStep == NoneEnded /\ [Next]_vars => NoneEnded'
BY DEF NoneEnded, Without, Fault, hosts, envVars, Next, Handler, Processor, QueueTimer,
       Quiescent, vars, CheckRateLimit, Lookup, LockKey, Record, Enqueue, Store,
       HandlerCommandFails, HandlerCommandResent, HandlerCommandRefused, TakeJob, Send,
       ProviderHangs, StoreSent, StoreFailed, SlotCommandFails, SlotCommandResent,
       SlotCommandRefused, FinishJob, FailJob, WakeJob, RequeueStalled, WindowSlides,
       LockLost, CacheExpires, JobRemoved, Crash, ClientEnds, CloseWorker, Restart,
       StartAgain

\* NoneEnded holds in every reachable state.
THEOREM NoneEndedAlways == Spec => []NoneEnded
BY NoneEndedInit, NoneEndedStep, PTL DEF Spec

\* A placeholder is written by a handler that goes on to replace it.
LEMMA PlaceholderInit == Init => PlaceholderHasOwner
BY DEF Init, CacheInit, PlaceholderHasOwner, Placeholder, Missing

\* Its handler answers only after replacing it, unless a command fails.
LEMMA PlaceholderStep ==
  Consistent /\ NoneEnded /\ PlaceholderHasOwner /\ [Next]_vars => PlaceholderHasOwner'
<1> SUFFICES ASSUME Consistent, NoneEnded, PlaceholderHasOwner, [Next]_vars,
                    Without({"redis", "end", "crash"}), NEW k \in Keys,
                    cache'[k] = Placeholder
             PROVE  \E r \in Duplicates(k) :
                      pc'[r] \in {"lock", "record", "enqueue", "store"}
    BY DEF PlaceholderHasOwner, Without
<1> DEFINE Owns(r) == pc[r] \in {"lock", "record", "enqueue", "store"}
<1>a. cache \in [Keys -> Entries] /\ pc \in [Requests -> HandlerSteps \cup {"checkRate", "done"}]
  BY DEF Consistent, CacheTypeOK, GatewayTypeOK
<1>b. \A r : Accepted(r) # Placeholder /\ Sent(r) # Placeholder /\ Failed(r) # Placeholder
  BY DEF Accepted, Sent, Failed, Placeholder
<1>c. \A r \in Requests : ~HandlerCommandFails(r) /\ ~HandlerCommandRefused(r)
  BY DEF HandlerCommandFails, HandlerCommandRefused, Fault, Without, NoneEnded, Connected
<1>d. \A i \in Instances : ~Crash(i)
  BY DEF Crash, Fault, Without
<1>1. CASE \E r \in Requests : LockKey(r)
  <2>1. PICK r \in Requests : LockKey(r)
    BY <1>1
  <2>2. CASE k = KeyOf[r]
    <3>1. r \in Duplicates(k) /\ pc'[r] = "record"
      BY <1>a, <2>1, <2>2 DEF LockKey, Goto, Duplicates
    <3>2. QED
      BY <3>1
  <2>3. CASE k # KeyOf[r]
    <3>1. cache[k] = Placeholder
      BY <1>a, <2>1, <2>3 DEF LockKey, Lock, SetEntry
    <3>2. PICK q \in Duplicates(k) : Owns(q)
      BY <3>1 DEF PlaceholderHasOwner
    <3>3. q \in Requests /\ q # r
      BY <2>3 DEF Duplicates
    <3>4. pc'[q] = pc[q]
      BY <1>a, <2>1, <3>3 DEF LockKey, Goto
    <3>5. QED
      BY <3>2, <3>4
  <2>4. QED
    BY <2>2, <2>3
<1>2. CASE \E r \in Requests : Store(r)
  <2>1. PICK r \in Requests : Store(r)
    BY <1>2
  <2>2. k # KeyOf[r] /\ cache[k] = Placeholder
    BY <1>a, <1>b, <2>1 DEF Store, StoreResponse, SetEntry
  <2>3. PICK q \in Duplicates(k) : Owns(q)
    BY <2>2 DEF PlaceholderHasOwner
  <2>4. q \in Requests /\ q # r
    BY <2>2 DEF Duplicates
  <2>5. pc'[q] = pc[q]
    BY <1>a, <2>1, <2>4 DEF Store, Answer, Goto
  <2>6. QED
    BY <2>3, <2>5
<1>3. CASE \E r \in Requests :
             CheckRateLimit(r) \/ Lookup(r) \/ Record(r) \/ Enqueue(r)
  <2>1. PICK r \in Requests :
          CheckRateLimit(r) \/ Lookup(r) \/ Record(r) \/ Enqueue(r)
    BY <1>3
  <2>2. cache[k] = Placeholder
    BY <2>1 DEF CheckRateLimit, Lookup, Record, Enqueue
  <2>3. PICK q \in Duplicates(k) : Owns(q)
    BY <2>2 DEF PlaceholderHasOwner
  <2>4. q \in Requests
    BY DEF Duplicates
  <2>5. pc'[q] \in {"lock", "record", "enqueue", "store"}
    BY <1>a, <2>1, <2>3, <2>4
       DEF CheckRateLimit, Lookup, Record, Enqueue, Goto, Answer
  <2>6. QED
    BY <2>5
<1>4. CASE \E r \in Requests : HandlerCommandResent(r)
  <2>1. PICK r \in Requests : HandlerCommandResent(r)
    BY <1>4
  <2>2. UNCHANGED pc
    BY <2>1 DEF HandlerCommandResent, handlerVars
  <2>3. CASE cache[k] = Placeholder
    BY <2>2, <2>3 DEF PlaceholderHasOwner
  <2>4. CASE cache[k] # Placeholder
    <3>1. pc[r] = "lock" /\ SetEntry(KeyOf[r], Placeholder) /\ k = KeyOf[r]
      BY <1>a, <1>b, <2>1, <2>4
         DEF HandlerCommandResent, CommandExecutes, Lock, StoreResponse, SetEntry
    <3>2. r \in Duplicates(k)
      BY <3>1 DEF Duplicates
    <3>3. QED
      BY <2>2, <3>1, <3>2
  <2>5. QED
    BY <2>3, <2>4
<1>5. CASE UNCHANGED pc /\ \A r \in Requests : ~HandlerCommandResent(r)
  <2>1. cache[k] = Placeholder
    <3>1. UNCHANGED cache \/ \E q, e : SetEntry(q, e) /\ e # Placeholder
      BY <1>b, <1>c, <1>d, <1>5
         DEF Consistent, GatewayTypeOK, Next, Handler, Processor, QueueTimer, Quiescent,
             vars, CheckRateLimit, Lookup, LockKey, Record, Enqueue, Store, Goto, Answer,
             TakeJob, Send, ProviderHangs, StoreSent, StoreFailed, SlotCommandFails,
             SlotCommandResent, SlotCommandRefused, SlotCommandExecutes, FinishJob,
             FailJob, WakeJob, RequeueStalled, WindowSlides, LockLost, CacheExpires,
             JobRemoved, StoreResponse, StoreSuccess, StoreFailure, EntryExpires,
             Missing, Placeholder, ClientEnds, CloseWorker, Restart, StartAgain
    <3>2. QED
      BY <1>a, <3>1 DEF SetEntry
  <2>2. QED
    BY <1>5, <2>1 DEF PlaceholderHasOwner
<1>6. QED
  BY <1>c, <1>d, <1>1, <1>2, <1>3, <1>4, <1>5
     DEF Next, Handler, Processor, QueueTimer, Quiescent, vars, handlerVars, TakeJob,
         Send, ProviderHangs, StoreSent, StoreFailed, SlotCommandFails,
         SlotCommandResent, SlotCommandRefused, FinishJob, FailJob, WakeJob,
         RequeueStalled, WindowSlides, LockLost, CacheExpires, JobRemoved, ClientEnds,
         CloseWorker, Restart, StartAgain

-----------------------------------------------------------------------------
(* What holds in every reachable state, of every instance of the gateway. *)

\* Every variable keeps its type, whatever requests, retries and faults do.
THEOREM TypeCorrect == Spec => []TypeOK
<1>1. Consistent => TypeOK
  BY DEF Consistent, QueueOK, TypeOK
<1>2. QED
  BY <1>1, ConsistentAlways, PTL

\* No answer, cache entry or processor of one key ever refers to another key.
THEOREM KeysSeparate == Spec => []NoCrossTalk
BY ConsistentAlways, NoCrossTalkInit, NoCrossTalkStep, PTL DEF Spec

\* A reported success names a delivered jobId, under every kind of fault.
THEOREM ReportsAreTrue == Spec => []SentIsTrue
<1>1. Spec => []Reported
  BY ConsistentAlways, ReportedInit, ReportedStep, PTL DEF Spec
<1>2. Reported => SentIsTrue
  BY DEF Reported
<1>3. QED
  BY <1>1, <1>2, PTL

\* An accepted notification is pending, delivered, or given up after its last
\* attempt, under every kind of fault.
THEOREM PromisesKept == Spec => []PromiseKept
<1>1. Spec => []Reported
  BY ConsistentAlways, ReportedInit, ReportedStep, PTL DEF Spec
<1>2. Spec => []Kept
  BY <1>1, ConsistentAlways, KeptInit, KeptStep, PTL DEF Spec
<1>3. Kept => PromiseKept
  BY DEF Kept
<1>4. QED
  BY <1>2, <1>3, PTL

\* Exclusive holds in every reachable state: modules of further proofs use it.
THEOREM ExclusiveAlways == Spec => []Exclusive
BY ConsistentAlways, ExclusiveInit, ExclusiveStep, PTL DEF Spec

\* Two processors never work on one key while no lock is lost, crashes included.
THEOREM ProcessorsExclude == Spec => []OneProcessorPerKey
<1>1. Exclusive => OneProcessorPerKey
  BY DEF Exclusive, OneProcessorPerKey
<1>2. QED
  BY <1>1, ExclusiveAlways, PTL

\* Without failed commands and crashes every placeholder is about to be replaced.
THEOREM PlaceholdersOwned == Spec => []PlaceholderHasOwner
BY ConsistentAlways, NoneEndedAlways, PlaceholderInit, PlaceholderStep, PTL DEF Spec
=============================================================================
