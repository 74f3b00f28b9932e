------------------------- MODULE NotificationGateway -------------------------
(***************************************************************************)
(* The gateway: HTTP handlers (NotificationsController.sendNotification)   *)
(* and queue processors (the Worker of queue.module.ts), on one or more    *)
(* instances, over one Redis that holds the rate-limit windows, the        *)
(* idempotency cache and the BullMQ queue.                                 *)
(*                                                                         *)
(* A handler and a processor are sequences of awaited commands.  Each      *)
(* command is one atomic action here and anything may happen between two   *)
(* of them.  A program counter names the command that comes next.          *)
(***************************************************************************)
EXTENDS SlidingWindow, IdempotencyCache, JobQueue, ProviderFailover

CONSTANTS Instances, HostOf,  \* the processes, and where each handler and slot runs
          FaultKinds,         \* the faults that may happen
          MaxFaults           \* how many of them: a bound for the checks

ASSUME HostAssumption == HostOf \in [Requests \cup Slots -> Instances]

\* redis: a command of the application's client rejects, executed or not;
\* resend: the connection breaks between a command and its reply, and the client
\* sends the command again; end: the client of an instance gives up for good;
\* crash: an instance is killed and started again; close: it is shut down;
\* hang: a provider never answers; lock: a running processor fails to renew its
\* job's lock; expiry: a cache entry reaches its TTL; removal: the retention of a
\* finished job ends.
ASSUME FaultAssumption ==
  /\ FaultKinds \subseteq {"redis", "resend", "end", "crash", "close", "hang",
                           "lock", "expiry", "removal"}
  /\ MaxFaults \in Nat

VARIABLES pc,         \* the next command of the handler of a request
          reply,      \* what the client got
          shown,      \* the body the client got, as the cache entry that holds it
          slotPc,     \* the next command of a processor
          slotKey,    \* the BullMQ job id it is processing
          slotJob,    \* the jobId in that job's data
          closing,    \* instances that wait for their worker to close
          ended,      \* instances whose Redis client has given up
          faults,     \* faults so far
          sends,      \* observed: deliveries by a provider, per jobId
          gaveUp      \* observed: keys whose job failed for good

handlerVars == <<pc, reply, shown>>
slotVars    == <<slotPc, slotKey, slotJob>>
hosts       == <<closing, ended>>
envVars     == <<closing, ended, faults>>
observed    == <<sends, gaveUp>>
vars == <<window, cache, queueVars, callVars, handlerVars, slotVars, envVars,
          observed>>

\* A handler that has begun and has not answered.
HandlerSteps == {"lookup", "lock", "record", "enqueue", "store"}

Replies == {"none", "accepted", "duplicate", "limited", "error", "lost"}

SlotSteps == {"idle", "sending", "hung", "storing", "storingFailure",
              "completing", "failing"}

GatewayTypeOK ==
  /\ pc \in [Requests -> HandlerSteps \cup {"checkRate", "done"}]
  /\ reply \in [Requests -> Replies]
  /\ shown \in [Requests -> Entries]
  /\ slotPc \in [Slots -> SlotSteps]
  /\ slotKey \in [Slots -> Keys \cup {NoJob}]
  /\ slotJob \in [Slots -> Requests \cup {NoJob}]
  /\ closing \in SUBSET Instances
  /\ ended \in SUBSET Instances
  /\ faults \in Nat
  /\ sends \in [Requests -> Nat]
  /\ gaveUp \in SUBSET Keys

Init ==
  /\ WindowInit /\ CacheInit /\ QueueInit /\ CallInit
  /\ pc = [r \in Requests |-> "checkRate"]
  /\ reply = [r \in Requests |-> "none"]
  /\ shown = [r \in Requests |-> Missing]
  /\ slotPc = [s \in Slots |-> "idle"]
  /\ slotKey = [s \in Slots |-> NoJob]
  /\ slotJob = [s \in Slots |-> NoJob]
  /\ closing = {} /\ ended = {}
  /\ faults = 0
  /\ sends = [r \in Requests |-> 0]
  /\ gaveUp = {}

Fault(kind) == /\ kind \in FaultKinds
               /\ faults < MaxFaults
               /\ faults' = faults + 1

\* The client of this handler's or processor's instance has not given up.
Connected(x) == HostOf[x] \notin ended

-----------------------------------------------------------------------------
(* The handler of a request. *)

Goto(r, step) == pc' = [pc EXCEPT ![r] = step]

Answer(r, status) == /\ Goto(r, "done")
                     /\ reply' = [reply EXCEPT ![r] = status]

\* 1. checkRateLimit; the request may arrive at any time, or never.
CheckRateLimit(r) ==
  /\ pc[r] = "checkRate"
  /\ \/ Connected(r) /\ Allowed(UserOf[r]) /\ Goto(r, "lookup") /\ UNCHANGED reply
     \/ Connected(r) /\ ~Allowed(UserOf[r]) /\ Answer(r, "limited")
     \/ ~Connected(r) /\ Answer(r, "error")
  /\ UNCHANGED <<window, cache, queueVars, callVars, shown, slotVars, envVars,
                 observed>>

\* Mutant of Lookup: a duplicate waits for the placeholder to be replaced.
LookupWaits(r) ==
  /\ pc[r] = "lookup" /\ Connected(r)
  /\ \/ cache[KeyOf[r]] = Placeholder /\ UNCHANGED <<pc, reply, shown>>
     \/ /\ cache[KeyOf[r]] \notin {Missing, Placeholder}
        /\ Answer(r, "duplicate")
        /\ shown' = [shown EXCEPT ![r] = cache[KeyOf[r]]]
     \/ /\ ~Hit(KeyOf[r])
        /\ Goto(r, "lock")
        /\ UNCHANGED <<reply, shown>>
  /\ UNCHANGED <<window, cache, queueVars, callVars, slotVars, envVars, observed>>

\* Mutant of Lookup: a duplicate that finds the placeholder is answered "accepted".
LookupAnswersEarly(r) ==
  /\ pc[r] = "lookup" /\ Connected(r)
  /\ \/ /\ Hit(KeyOf[r])
        /\ Answer(r, "duplicate")
        /\ shown' = [shown EXCEPT ![r] = IF cache[KeyOf[r]] = Placeholder
                                        THEN Accepted(r) ELSE cache[KeyOf[r]]]
     \/ /\ ~Hit(KeyOf[r])
        /\ Goto(r, "lock")
        /\ UNCHANGED <<reply, shown>>
  /\ UNCHANGED <<window, cache, queueVars, callVars, slotVars, envVars, observed>>

\* 2. checkAndLock, its GET.
Lookup(r) ==
  /\ pc[r] = "lookup" /\ Connected(r)
  /\ \/ /\ Hit(KeyOf[r])
        /\ Answer(r, "duplicate")
        /\ shown' = [shown EXCEPT ![r] = cache[KeyOf[r]]]
     \/ /\ ~Hit(KeyOf[r])
        /\ Goto(r, "lock")
        /\ UNCHANGED <<reply, shown>>
  /\ UNCHANGED <<window, cache, queueVars, callVars, slotVars, envVars, observed>>

\* 2. checkAndLock, its SET.
LockKey(r) ==
  /\ pc[r] = "lock" /\ Connected(r)
  /\ Lock(KeyOf[r])
  /\ Goto(r, "record")
  /\ UNCHANGED <<window, queueVars, callVars, reply, shown, slotVars, envVars,
                 observed>>

\* Mutant of Record: the limit is checked again once the key is locked.
RecordIfAllowed(r) ==
  /\ pc[r] = "record" /\ Connected(r)
  /\ \/ /\ Allowed(UserOf[r])
        /\ RecordRequest(UserOf[r], r)
        /\ Goto(r, "enqueue")
        /\ UNCHANGED reply
     \/ ~Allowed(UserOf[r]) /\ Answer(r, "limited") /\ UNCHANGED window
  /\ UNCHANGED <<cache, queueVars, callVars, shown, slotVars, envVars, observed>>

\* 3. recordRequest.
Record(r) ==
  /\ pc[r] = "record" /\ Connected(r)
  /\ RecordRequest(UserOf[r], r)
  /\ Goto(r, "enqueue")
  /\ UNCHANGED <<cache, queueVars, callVars, reply, shown, slotVars, envVars,
                 observed>>

\* 4. enqueueNotification.
Enqueue(r) ==
  /\ pc[r] = "enqueue"
  /\ Add(KeyOf[r], r)
  /\ Goto(r, "store")
  /\ UNCHANGED <<window, cache, callVars, reply, shown, slotVars, envVars,
                 observed>>

\* 5. storeResponse, then the 202.
Store(r) ==
  /\ pc[r] = "store" /\ Connected(r)
  /\ StoreResponse(r)
  /\ Answer(r, "accepted")
  /\ shown' = [shown EXCEPT ![r] = Accepted(r)]
  /\ UNCHANGED <<window, queueVars, callVars, slotVars, envVars, observed>>

\* The command the handler awaits takes effect.
CommandExecutes(r) ==
  \/ pc[r] = "lock" /\ Lock(KeyOf[r]) /\ UNCHANGED <<window, queueVars>>
  \/ pc[r] = "record" /\ RecordRequest(UserOf[r], r) /\ UNCHANGED <<cache, queueVars>>
  \/ pc[r] = "enqueue" /\ Add(KeyOf[r], r) /\ UNCHANGED <<window, cache>>
  \/ pc[r] = "store" /\ StoreResponse(r) /\ UNCHANGED <<window, queueVars>>

\* The command rejects: no handler step catches it, so the client gets a 500.
\* Redis may have executed the command nevertheless.
HandlerCommandFails(r) ==
  /\ pc[r] \in HandlerSteps \cup {"checkRate"}
  /\ pc[r] = "enqueue" \/ Connected(r)
  /\ Fault("redis")
  /\ Answer(r, "error")
  /\ UNCHANGED <<window, cache, queueVars>> \/ CommandExecutes(r)
  /\ UNCHANGED <<callVars, shown, slotVars, hosts, observed>>

\* The command was executed, its reply is lost with the connection, and ioredis
\* sends it once more after reconnecting: the handler still awaits it.
HandlerCommandResent(r) ==
  /\ pc[r] = "enqueue" \/ Connected(r)
  /\ Fault("resend")
  /\ CommandExecutes(r)
  /\ UNCHANGED <<callVars, handlerVars, slotVars, hosts, observed>>

\* A client that has given up rejects at once.  Only queue.add still works: it
\* uses BullMQ's own connection.
HandlerCommandRefused(r) ==
  /\ pc[r] \in HandlerSteps \ {"enqueue"}
  /\ ~Connected(r)
  /\ Answer(r, "error")
  /\ UNCHANGED <<window, cache, queueVars, callVars, shown, slotVars, envVars,
                 observed>>

-----------------------------------------------------------------------------
(* A queue processor. *)

\* A processor fetches a waiting job and calls sendWithFailover.
TakeJob(s, k) ==
  /\ slotPc[s] = "idle" /\ HostOf[s] \notin closing
  /\ Activate(k, s)
  /\ BeginCall(s, ChannelOf[jobData[k]])
  /\ slotPc' = [slotPc EXCEPT
                  ![s] = IF callPhase'[s] = "trying" THEN "sending"
                                                     ELSE "storingFailure"]
  /\ slotKey' = [slotKey EXCEPT ![s] = k]
  /\ slotJob' = [slotJob EXCEPT ![s] = jobData[k]]
  /\ UNCHANGED <<window, cache, handlerVars, envVars, observed>>

\* Mutant of SlotStepAfter: an exhausted call returns instead of throwing.
ExhaustedReturns(phase) == CASE phase = "trying" -> "sending"
                             [] phase \in {"sent", "exhausted"} -> "storing"
                             [] OTHER -> "storingFailure"

\* What the processor does once a provider has answered.
SlotStepAfter(phase) == CASE phase = "trying" -> "sending"
                          [] phase = "sent"   -> "storing"
                          [] OTHER            -> "storingFailure"

Send(s) ==
  \E o \in Outcomes :
    /\ slotPc[s] = "sending"
    /\ ProviderAnswers(s, o)
    /\ slotPc' = [slotPc EXCEPT ![s] = SlotStepAfter(callPhase'[s])]
    /\ sends' = IF o = "ok" THEN [sends EXCEPT ![slotJob[s]] = @ + 1] ELSE sends
    /\ UNCHANGED <<window, cache, queueVars, handlerVars, slotKey, slotJob,
                   envVars, gaveUp>>

\* send has no timeout: the processor waits for ever, while BullMQ goes on renewing
\* the lock of its job.  The provider may have delivered.
ProviderHangs(s) ==
  /\ slotPc[s] = "sending"
  /\ Fault("hang")
  /\ slotPc' = [slotPc EXCEPT ![s] = "hung"]
  /\ sends' \in {sends, [sends EXCEPT ![slotJob[s]] = @ + 1]}
  /\ UNCHANGED <<window, cache, queueVars, callVars, handlerVars, slotKey, slotJob,
                 hosts, gaveUp>>

SlotGoto(s, step) == /\ slotPc' = [slotPc EXCEPT ![s] = step]
                     /\ UNCHANGED <<slotKey, slotJob>>

\* Mutant of StoreSent: the processors share the variable that holds the jobId.
StoreSentShared(s) ==
  /\ slotPc[s] = "storing" /\ Connected(s)
  /\ \E t \in Slots : /\ slotJob[t] # NoJob
                     /\ StoreSuccess(slotKey[s], slotJob[t])
  /\ SlotGoto(s, "completing")
  /\ UNCHANGED <<window, queueVars, callVars, handlerVars, envVars, observed>>

\* The SET of the final result after a delivery.
StoreSent(s) ==
  /\ slotPc[s] = "storing" /\ Connected(s)
  /\ StoreSuccess(slotKey[s], slotJob[s])
  /\ SlotGoto(s, "completing")
  /\ UNCHANGED <<window, queueVars, callVars, handlerVars, envVars, observed>>

\* Mutant of StoreFailed: the catch block does not rethrow.
StoreFailedSwallows(s) ==
  /\ slotPc[s] = "storingFailure" /\ Connected(s)
  /\ StoreFailure(slotKey[s], slotJob[s])
  /\ SlotGoto(s, "completing")
  /\ UNCHANGED <<window, queueVars, callVars, handlerVars, envVars, observed>>

\* The SET of the catch block, before the rethrow.
StoreFailed(s) ==
  /\ slotPc[s] = "storingFailure" /\ Connected(s)
  /\ StoreFailure(slotKey[s], slotJob[s])
  /\ SlotGoto(s, "failing")
  /\ UNCHANGED <<window, queueVars, callVars, handlerVars, envVars, observed>>

SlotCommandExecutes(s) ==
  \/ slotPc[s] = "storing" /\ StoreSuccess(slotKey[s], slotJob[s])
  \/ slotPc[s] = "storingFailure" /\ StoreFailure(slotKey[s], slotJob[s])

\* The first SET is inside the try: its rejection leads to the catch block.  A
\* rejection of the second one leaves the catch block in place of the error.
SlotRejected(s) ==
  /\ slotPc[s] \in {"storing", "storingFailure"}
  /\ SlotGoto(s, IF slotPc[s] = "storing" THEN "storingFailure" ELSE "failing")

SlotCommandFails(s) ==
  /\ Connected(s)
  /\ Fault("redis")
  /\ SlotRejected(s)
  /\ UNCHANGED cache \/ SlotCommandExecutes(s)
  /\ UNCHANGED <<window, queueVars, callVars, handlerVars, hosts, observed>>

SlotCommandResent(s) ==
  /\ Connected(s)
  /\ Fault("resend")
  /\ SlotCommandExecutes(s)
  /\ UNCHANGED <<window, queueVars, callVars, handlerVars, slotVars, hosts, observed>>

SlotCommandRefused(s) ==
  /\ ~Connected(s)
  /\ SlotRejected(s)
  /\ UNCHANGED <<window, cache, queueVars, callVars, handlerVars, envVars, observed>>

Free(s) == /\ EndCall(s)
           /\ slotPc' = [slotPc EXCEPT ![s] = "idle"]
           /\ slotKey' = [slotKey EXCEPT ![s] = NoJob]
           /\ slotJob' = [slotJob EXCEPT ![s] = NoJob]

FinishJob(s) ==
  /\ slotPc[s] = "completing"
  /\ Complete(slotKey[s], s)
  /\ Free(s)
  /\ UNCHANGED <<window, cache, handlerVars, envVars, observed>>

FailJob(s) ==
  /\ slotPc[s] = "failing"
  /\ Fail(slotKey[s], s)
  /\ gaveUp' = IF jobState'[slotKey[s]] = "failed" THEN gaveUp \cup {slotKey[s]}
                                                   ELSE gaveUp
  /\ Free(s)
  /\ UNCHANGED <<window, cache, handlerVars, envVars, sends>>

-----------------------------------------------------------------------------
(* The environment: BullMQ's timers, time, and faults. *)

WakeJob(k) ==
  /\ Promote(k)
  /\ UNCHANGED <<window, cache, callVars, handlerVars, slotVars, envVars, observed>>

RequeueStalled(k) ==
  /\ RecoverStalled(k)
  /\ gaveUp' = IF jobState'[k] = "failed" THEN gaveUp \cup {k} ELSE gaveUp
  /\ UNCHANGED <<window, cache, callVars, handlerVars, slotVars, envVars, sends>>

WindowSlides(u) ==
  /\ Slide(u)
  /\ UNCHANGED <<cache, queueVars, callVars, handlerVars, slotVars, envVars,
                 observed>>

LockLost(k) ==
  /\ Fault("lock")
  /\ LoseLock(k)
  /\ UNCHANGED <<window, cache, callVars, handlerVars, slotVars, hosts, observed>>

CacheExpires(k) ==
  /\ Fault("expiry")
  /\ EntryExpires(k)
  /\ UNCHANGED <<window, queueVars, callVars, handlerVars, slotVars, hosts, observed>>

JobRemoved(k) ==
  /\ Fault("removal")
  /\ RemoveJob(k)
  /\ UNCHANGED <<window, cache, callVars, handlerVars, slotVars, hosts, observed>>

\* An instance dies and starts again with idle processors.  Nothing of what its
\* handlers and processors were doing is resumed; Redis keeps what they wrote.
\* The locks of its jobs only expire later, but they keep no one from anything
\* before RequeueStalled, which may wait as long: they are dropped here.
Crash(i) ==
  LET dead == {x \in Requests \cup Slots : HostOf[x] = i}
      lost == {r \in dead \cap Requests : pc[r] \in HandlerSteps}
  IN /\ Fault("crash")
     /\ pc' = [r \in Requests |-> IF r \in lost THEN "done" ELSE pc[r]]
     /\ reply' = [r \in Requests |-> IF r \in lost THEN "lost" ELSE reply[r]]
     /\ slotPc' = [s \in Slots |-> IF s \in dead THEN "idle" ELSE slotPc[s]]
     /\ slotKey' = [s \in Slots |-> IF s \in dead THEN NoJob ELSE slotKey[s]]
     /\ slotJob' = [s \in Slots |-> IF s \in dead THEN NoJob ELSE slotJob[s]]
     /\ callPhase' = [s \in Slots |-> IF s \in dead THEN "none" ELSE callPhase[s]]
     /\ callChannel' =
          [s \in Slots |-> IF s \in dead THEN NoChannel ELSE callChannel[s]]
     /\ answers' = [s \in Slots |-> IF s \in dead THEN <<>> ELSE answers[s]]
     /\ lockedBy' =
          [k \in Keys |-> IF lockedBy[k] \in dead THEN NoSlot ELSE lockedBy[k]]
     /\ closing' = closing \ {i} /\ ended' = ended \ {i}
     /\ UNCHANGED <<window, cache, jobState, jobData, attemptsMade, stalls, shown,
                    observed>>

\* The Redis client of an instance gives up: until the process is started again
\* every command of its handlers and processors is rejected.
ClientEnds(i) ==
  /\ i \notin ended
  /\ Fault("end")
  /\ ended' = ended \cup {i}
  /\ UNCHANGED <<window, cache, queueVars, callVars, handlerVars, slotVars, closing,
                 observed>>

\* onModuleDestroy: the worker takes no more jobs, and is awaited.
CloseWorker(i) ==
  /\ i \notin closing
  /\ Fault("close")
  /\ closing' = closing \cup {i}
  /\ UNCHANGED <<window, cache, queueVars, callVars, handlerVars, slotVars, ended,
                 observed>>

\* No processor and no handler of the instance is busy.
HostIdle(i) == /\ \A s \in Slots : HostOf[s] = i => slotPc[s] = "idle"
               /\ \A r \in Requests : HostOf[r] = i => pc[r] \notin HandlerSteps

StartAgain(i) ==
  /\ closing' = closing \ {i} /\ ended' = ended \ {i}
  /\ UNCHANGED <<window, cache, queueVars, callVars, handlerVars, slotVars, faults,
                 observed>>

\* Mutant of Restart: the close also waits for the queue to drain.
RestartWhenDrained(i) ==
  /\ i \in closing /\ HostIdle(i)
  /\ \A k \in Keys : ~Pending(k)
  /\ StartAgain(i)

\* The worker closes once its processors have finished their jobs, and the HTTP
\* server once its handlers have answered; then the process starts again.
Restart(i) == i \in closing /\ HostIdle(i) /\ StartAgain(i)

-----------------------------------------------------------------------------
Handler(r) == \/ Lookup(r) \/ LockKey(r) \/ Record(r) \/ Enqueue(r) \/ Store(r)
              \/ HandlerCommandRefused(r)

Processor(s) == \/ \E k \in Keys : TakeJob(s, k)
                \/ Send(s) \/ StoreSent(s) \/ StoreFailed(s) \/ SlotCommandRefused(s)
                \/ FinishJob(s) \/ FailJob(s)

QueueTimer(k) == WakeJob(k) \/ RequeueStalled(k)

\* A processor that waits for a provider for ever, or belongs to a worker that
\* takes no more jobs.
Stuck(s) == slotPc[s] = "hung" \/ HostOf[s] \in closing

HeldByHung(k) == \E s \in Slots : slotPc[s] = "hung" /\ lockedBy[k] = s

\* Every request is answered, or never arrives, and no job is left that some
\* processor could take: the checks use finitely many requests, so this is where
\* a behaviour may end.
Quiescent == /\ \A r \in Requests : pc[r] = "done"
             /\ \A s \in Slots : slotPc[s] \in {"idle", "hung"}
             /\ \A k \in Keys : Pending(k) => HeldByHung(k) \/ \A s \in Slots : Stuck(s)
             /\ UNCHANGED vars

Next ==
  \/ \E r \in Requests : \/ CheckRateLimit(r) \/ Handler(r)
                         \/ HandlerCommandFails(r) \/ HandlerCommandResent(r)
  \/ \E s \in Slots : \/ Processor(s) \/ ProviderHangs(s)
                      \/ SlotCommandFails(s) \/ SlotCommandResent(s)
  \/ \E k \in Keys : \/ QueueTimer(k) \/ LockLost(k)
                     \/ CacheExpires(k) \/ JobRemoved(k)
  \/ \E u \in Users : WindowSlides(u)
  \/ \E i \in Instances : Crash(i) \/ ClientEnds(i) \/ CloseWorker(i) \/ Restart(i)
  \/ Quiescent

\* A handler that has begun is scheduled until it answers; processors keep
\* fetching and finishing jobs; BullMQ's delayed set and stalled checker run; a
\* process that has closed is started again.
Fairness == /\ \A r \in Requests : WF_vars(Handler(r))
            /\ \A s \in Slots : WF_vars(Processor(s))
            /\ \A k \in Keys : WF_vars(QueueTimer(k))
            /\ \A i \in Instances : WF_vars(Restart(i))

Spec == Init /\ [][Next]_vars

FairSpec == Spec /\ Fairness
=============================================================================
