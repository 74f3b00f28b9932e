---------------------------- MODULE ContractProofs ----------------------------
(***************************************************************************)
(* The gateway implements DeliveryContract, for every value of the         *)
(* constants and under every kind of fault: each of its steps moves one    *)
(* key, or tells one client something the key warrants, or is invisible.   *)
(***************************************************************************)
EXTENDS GatewayProofs

\* Something has become of the notification of the key: its status is not "none".
Taken(k) == Pending(k) \/ Settled(k)

\* A failure is stored, and a job is processed, only of a key the queue has taken.
Undertaken ==
  /\ \A k \in Keys : cache[k].kind = "failed" => Taken(k)
  /\ \A s \in Slots : slotPc[s] # "idle" => Taken(slotKey[s])

\* A handler that is still running has answered nothing.
Unanswered == \A r \in Requests : pc[r] # "done" => reply[r] = "none"

\* What the proof that a step refines the contract needs to know before it.
ContractInv == Consistent /\ NoCrossTalk /\ Reported /\ Kept /\ Undertaken /\ Unanswered

\* What the queue has taken is never forgotten.
LEMMA TakenStays ==
  ASSUME Consistent, Reported, JobsSettle, [Next]_vars, NEW k \in Keys, Taken(k)
  PROVE  Taken(k)'
<1>1. CASE Pending(k)
  <2>1. jobState[k] # "absent"
    BY <1>1 DEF Pending
  <2>2. QED
    BY <2>1, JobMoves DEF Taken
<1>2. CASE Settled(k)
  BY <1>2, ObservedGrow DEF Taken, Settled, Delivered, Duplicates
<1>3. QED
  BY <1>1, <1>2 DEF Taken

\* The kinds of entry that do not come from the catch block.
LEMMA NotFailed ==
  /\ Missing.kind # "failed" /\ Placeholder.kind # "failed"
  /\ \A r : Accepted(r).kind # "failed" /\ Sent(r).kind # "failed"
BY DEF Missing, Placeholder, Accepted, Sent

\* No entry and no processor exists at first.
LEMMA UndertakenInit == Init => Undertaken
BY NotFailed DEF Init, CacheInit, Undertaken

\* A failure is stored by a processor, and a processor takes a job of the queue.
LEMMA UndertakenStep ==
  Consistent /\ Reported /\ JobsSettle /\ Undertaken /\ [Next]_vars => Undertaken'
<1> SUFFICES ASSUME Consistent, Reported, JobsSettle, Undertaken, [Next]_vars
             PROVE  Undertaken'
    OBVIOUS
<1>a. /\ cache \in [Keys -> Entries]
      /\ slotPc \in [Slots -> SlotSteps]
      /\ slotKey \in [Slots -> Keys \cup {NoJob}]
      /\ jobState \in [Keys -> JobStates]
  BY DEF Consistent, CacheTypeOK, GatewayTypeOK, QueueOK, QueueTypeOK
<1>b. \A k \in Keys : Taken(k) => Taken(k)'
  BY TakenStays
<1>c. \A s \in Slots : slotPc[s] # "idle" => slotKey[s] \in Keys /\ Taken(slotKey[s])
  BY DEF Consistent, SlotsHaveJobs, Undertaken
<1>1. ASSUME NEW k \in Keys, cache'[k].kind = "failed" PROVE Taken(k)'
  <2>1. CASE cache'[k] = cache[k]
    BY <1>1, <1>b, <2>1 DEF Undertaken
  <2>2. CASE \E s \in Slots : /\ slotPc[s] = "storingFailure"
                              /\ SetEntry(slotKey[s], Failed(slotJob[s]))
    <3>1. PICK s \in Slots : /\ slotPc[s] = "storingFailure"
                             /\ SetEntry(slotKey[s], Failed(slotJob[s]))
      BY <2>2
    <3>2. k = slotKey[s] \/ cache'[k] = cache[k]
      BY <1>a, <3>1 DEF SetEntry
    <3>3. QED
      BY <1>b, <1>c, <2>1, <3>1, <3>2
  <2>3. CASE UNCHANGED cache \/ \E q, e : SetEntry(q, e) /\ e.kind # "failed"
    BY <1>1, <1>a, <2>1, <2>3 DEF SetEntry
  <2>4. QED
    BY <2>2, <2>3, CacheChanges, NotFailed
<1>2. ASSUME NEW t \in Slots, slotPc'[t] # "idle" PROVE Taken(slotKey[t])'
  <2>1. CASE slotPc[t] # "idle" /\ slotKey'[t] = slotKey[t]
    BY <1>b, <1>c, <2>1
  <2>2. CASE UNCHANGED slotVars
    BY <1>2, <2>1, <2>2 DEF slotVars
  <2>3. CASE \E s \in Slots, k \in Keys : TakeJob(s, k)
    <3>1. PICK s \in Slots, k \in Keys : TakeJob(s, k)
      BY <2>3
    <3>2. CASE s = t
      <4>1. slotKey'[t] = k /\ jobState'[k] = "active"
        BY <1>a, <3>1, <3>2 DEF TakeJob, Activate
      <4>2. QED
        BY <4>1 DEF Taken, Pending
    <3>3. CASE s # t
      BY <1>2, <1>a, <2>1, <3>1, <3>3 DEF TakeJob
    <3>4. QED
      BY <3>2, <3>3
  <2>4. CASE \E s \in Slots :
               Send(s) \/ ProviderHangs(s) \/ StoreSent(s) \/ StoreFailed(s)
    BY <1>2, <1>a, <2>1, <2>4 DEF Send, ProviderHangs, StoreSent, StoreFailed, SlotGoto
  <2>5. CASE \E s \in Slots : SlotCommandFails(s) \/ SlotCommandRefused(s)
    BY <1>2, <1>a, <2>1, <2>5
       DEF SlotCommandFails, SlotCommandRefused, SlotRejected, SlotGoto
  <2>6. CASE \E s \in Slots : FinishJob(s) \/ FailJob(s)
    BY <1>2, <1>a, <2>1, <2>6 DEF FinishJob, FailJob, Free
  <2>7. CASE \E k \in Keys : LockLost(k)
    BY <2>2, <2>7 DEF LockLost
  <2>8. CASE \E i \in Instances : Crash(i)
    BY <1>2, <1>a, <2>1, <2>8 DEF Crash
  <2>9. QED
    BY <2>2, <2>3, <2>4, <2>5, <2>6, <2>7, <2>8, SlotChanges DEF slotVars
<1>3. QED
  BY <1>1, <1>2 DEF Undertaken

-----------------------------------------------------------------------------
\* Which steps change what clients are told: three by handlers that answer, and
\* those that end a handler without telling its client anything.
LEMMA ReplyChanges ==
  ASSUME Consistent, [Next]_vars
  PROVE  \/ \E r \in Requests : CheckRateLimit(r) \/ Lookup(r) \/ Store(r)
         \/ /\ UNCHANGED shown
            /\ \A r \in Requests :
                 \/ reply'[r] = reply[r]
                 \/ pc[r] # "done" /\ reply'[r] \in {"error", "lost"}
<1>a. reply \in [Requests -> Replies]
  BY DEF Consistent, GatewayTypeOK
<1>1. CASE \E r \in Requests : pc[r] # "done" /\ Answer(r, "error") /\ UNCHANGED shown
  BY <1>a, <1>1 DEF Answer
<1>2. CASE \E i \in Instances : Crash(i)
  BY <1>a, <1>2 DEF Crash, HandlerSteps
<1>3. CASE UNCHANGED <<reply, shown>>
  BY <1>3
<1>4. \/ \E r \in Requests : CheckRateLimit(r) \/ Lookup(r) \/ Store(r)
      \/ \E r \in Requests : pc[r] # "done" /\ Answer(r, "error") /\ UNCHANGED shown
      \/ \E i \in Instances : Crash(i)
      \/ UNCHANGED <<reply, shown>>
  BY DEF HandlerSteps, Next, Handler, Processor, QueueTimer, Quiescent, vars,
         handlerVars, LockKey, Record, Enqueue, HandlerCommandFails,
         HandlerCommandResent, HandlerCommandRefused, TakeJob, Send, ProviderHangs,
         StoreSent, StoreFailed, SlotCommandFails, SlotCommandResent,
         SlotCommandRefused, FinishJob, FailJob, WakeJob, RequeueStalled, WindowSlides,
         LockLost, CacheExpires, JobRemoved, ClientEnds, CloseWorker, Restart, StartAgain
<1>5. QED
  BY <1>1, <1>2, <1>3, <1>4

\* No client is answered at first.
LEMMA UnansweredInit == Init => Unanswered
BY DEF Init, Unanswered

\* An answer ends the handler.
LEMMA UnansweredStep == Consistent /\ Unanswered /\ [Next]_vars => Unanswered'
BY DEF Consistent, GatewayTypeOK, HandlerSteps, Unanswered, Next, Handler, Processor, QueueTimer,
       Quiescent, vars, handlerVars, Goto, Answer, CheckRateLimit, Lookup, LockKey,
       Record, Enqueue, Store, HandlerCommandFails, HandlerCommandResent,
       HandlerCommandRefused, TakeJob, Send, ProviderHangs, StoreSent, StoreFailed,
       SlotCommandFails, SlotCommandResent, SlotCommandRefused, FinishJob, FailJob,
       WakeJob, RequeueStalled, WindowSlides, LockLost, CacheExpires, JobRemoved,
       Crash, ClientEnds, CloseWorker, Restart, StartAgain

\* What ContractInv collects holds in every reachable state.
THEOREM ContractInvAlways == Spec => []ContractInv
<1>1. Spec => []Reported
  BY ConsistentAlways, ReportedInit, ReportedStep, PTL DEF Spec
<1>2. Spec => []Kept
  BY <1>1, ConsistentAlways, KeptInit, KeptStep, PTL DEF Spec
<1>3. Kept => JobsSettle
  BY DEF Kept
<1>4. Spec => []Undertaken
  BY <1>1, <1>2, <1>3, ConsistentAlways, UndertakenInit, UndertakenStep, PTL DEF Spec
<1>5. Spec => []Unanswered
  BY ConsistentAlways, UnansweredInit, UnansweredStep, PTL DEF Spec
<1>6. QED
  BY <1>1, <1>2, <1>4, <1>5, ConsistentAlways, KeysSeparate, PTL DEF ContractInv

-----------------------------------------------------------------------------
(* The values the refinement gives the variables of the contract. *)
StatusMap == [k \in Keys |-> StatusOf(k)]

ToldMap == [r \in Requests |-> ToldTo(r)]

\* A key of which nothing changes keeps its status.
LEMMA StatusFrame ==
  ASSUME NEW k, jobState'[k] = jobState[k], k \in gaveUp' <=> k \in gaveUp,
         \A r \in Duplicates(k) : sends'[r] = sends[r]
  PROVE  StatusOf(k)' = StatusOf(k)
<1>1. Delivered(k)' <=> Delivered(k)
  BY DEF Delivered, Duplicates
<1>2. QED
  BY <1>1 DEF StatusOf, Pending

\* Which steps may change the status of a key.
LEMMA StatusChanges ==
  ASSUME [Next]_vars
  PROVE  \/ UNCHANGED <<jobState, sends, gaveUp>>
         \/ /\ UNCHANGED <<sends, gaveUp>>
            /\ \/ \E r \in Requests : Add(KeyOf[r], r)
               \/ \E s \in Slots, k \in Keys : Activate(k, s)
               \/ \E s \in Slots : slotPc[s] = "completing" /\ Complete(slotKey[s], s)
               \/ \E k \in Keys : Promote(k) \/ RemoveJob(k)
         \/ \E s \in Slots : /\ slotPc[s] = "sending"
                             /\ sends' = [sends EXCEPT ![slotJob[s]] = @ + 1]
                             /\ UNCHANGED <<jobState, gaveUp>>
         \/ \E s \in Slots : FailJob(s)
         \/ \E k \in Keys : RequeueStalled(k)
BY DEF Next, Handler, Processor, QueueTimer, Quiescent, vars, queueVars, observed,
       CheckRateLimit, Lookup, LockKey, Record, Enqueue, Store, HandlerCommandFails,
       HandlerCommandResent, HandlerCommandRefused, CommandExecutes, TakeJob, Send,
       ProviderHangs, StoreSent, StoreFailed, SlotCommandFails, SlotCommandResent,
       SlotCommandRefused, FinishJob, WakeJob, WindowSlides, LockLost, LoseLock,
       CacheExpires, JobRemoved, Crash, ClientEnds, CloseWorker, Restart, StartAgain

\* The moves the contract allows a key.
Legal(old, new) == \/ new = old
                   \/ new = "pending" /\ old \in {"none", "givenUp"}
                   \/ new = "delivered" /\ old \in {"pending", "givenUp"}
                   \/ new = "givenUp" /\ old = "pending"

\* At each step at most one key moves, and it moves as the contract allows.
LEMMA StatusMoves ==
  ASSUME ContractInv, [Next]_vars
  PROVE  \/ UNCHANGED StatusMap
         \/ \E q \in Keys : /\ Legal(StatusMap[q], StatusMap'[q])
                            /\ \A k \in Keys \ {q} : StatusMap'[k] = StatusMap[k]
<1> DEFINE Live == {"waiting", "active", "delayed"}
<1>a. /\ jobState \in [Keys -> JobStates]
      /\ gaveUp \in SUBSET Keys
      /\ sends \in [Requests -> Nat]
  BY DEF ContractInv, Consistent, GatewayTypeOK, QueueOK, QueueTypeOK
<1>b. \A s \in Slots : slotPc[s] # "idle" =>
        /\ slotKey[s] \in Keys /\ Taken(slotKey[s])
        /\ slotJob[s] \in Requests /\ KeyOf[slotJob[s]] = slotKey[s]
  BY DEF ContractInv, Consistent, SlotsHaveJobs, Undertaken, Duplicates
<1>c. \A k : Duplicates(k) \subseteq Requests
  BY DEF Duplicates
<1>1. CASE UNCHANGED <<jobState, sends, gaveUp>>
  BY <1>1, StatusFrame DEF StatusMap
<1>2. ASSUME NEW q \in Keys, UNCHANGED <<sends, gaveUp>>,
             \A k \in Keys \ {q} : jobState'[k] = jobState[k],
             \/ jobState'[q] \in Live <=> jobState[q] \in Live
             \/ Delivered(q)
             \/ jobState[q] = "absent" /\ jobState'[q] = "waiting"
      PROVE  /\ Legal(StatusMap[q], StatusMap'[q])
             /\ \A k \in Keys \ {q} : StatusMap'[k] = StatusMap[k]
  <2>1. \A k \in Keys \ {q} : StatusMap'[k] = StatusMap[k]
    BY <1>2, StatusFrame DEF StatusMap
  <2>2. Delivered(q)' <=> Delivered(q)
    BY <1>2 DEF Delivered, Duplicates
  <2>3. QED
    BY <1>2, <2>1, <2>2 DEF Legal, StatusMap, StatusOf, Pending
<1>3. CASE UNCHANGED <<sends, gaveUp>> /\ \E r \in Requests : Add(KeyOf[r], r)
  <2>1. PICK r \in Requests : Add(KeyOf[r], r)
    BY <1>3
  <2>2. PICK q \in Keys : q = KeyOf[r]
    BY RequestFields
  <2>3. /\ \A k \in Keys \ {q} : jobState'[k] = jobState[k]
        /\ \/ jobState'[q] = jobState[q]
           \/ jobState[q] = "absent" /\ jobState'[q] = "waiting"
    BY <1>a, <2>1, <2>2 DEF Add, queueVars
  <2>4. QED
    BY <1>2, <1>3, <2>3
<1>4. CASE /\ UNCHANGED <<sends, gaveUp>>
           /\ \E k \in Keys :
                Promote(k) \/ RemoveJob(k) \/ \E s \in Slots : Activate(k, s)
  <2>1. PICK q \in Keys : Promote(q) \/ RemoveJob(q) \/ \E s \in Slots : Activate(q, s)
    BY <1>4
  <2>2. /\ \A k \in Keys \ {q} : jobState'[k] = jobState[k]
        /\ jobState'[q] \in Live <=> jobState[q] \in Live
    BY <1>a, <2>1 DEF Promote, RemoveJob, Activate
  <2>3. QED
    BY <1>2, <1>4, <2>2
<1>5. CASE /\ UNCHANGED <<sends, gaveUp>>
           /\ \E s \in Slots : slotPc[s] = "completing" /\ Complete(slotKey[s], s)
  <2>1. PICK s \in Slots : slotPc[s] = "completing" /\ Complete(slotKey[s], s)
    BY <1>5
  <2>2. PICK q \in Keys : q = slotKey[s] /\ Delivered(q)
    BY <1>b, <2>1 DEF ContractInv, Reported, SlotsDelivered, Delivered, Duplicates
  <2>3. \A k \in Keys \ {q} : jobState'[k] = jobState[k]
    BY <1>a, <2>1, <2>2 DEF Complete, queueVars
  <2>4. QED
    BY <1>2, <1>5, <2>2, <2>3
<1>6. CASE \E s \in Slots : /\ slotPc[s] = "sending"
                            /\ sends' = [sends EXCEPT ![slotJob[s]] = @ + 1]
                            /\ UNCHANGED <<jobState, gaveUp>>
  <2>1. PICK s \in Slots : /\ slotPc[s] = "sending"
                           /\ sends' = [sends EXCEPT ![slotJob[s]] = @ + 1]
                           /\ UNCHANGED <<jobState, gaveUp>>
    BY <1>6
  <2>2. PICK q \in Keys, r \in Requests :
          q = slotKey[s] /\ r = slotJob[s] /\ Taken(q) /\ KeyOf[r] = q
    BY <1>b, <2>1
  <2>3. sends'[r] > 0 /\ \A x \in Requests \ {r} : sends'[x] = sends[x]
    BY <1>a, <2>1, <2>2
  <2>4. \A k \in Keys \ {q} : StatusMap'[k] = StatusMap[k]
    <3>1. \A k \in Keys \ {q} : r \notin Duplicates(k)
      BY <2>2 DEF Duplicates
    <3>2. QED
      BY <1>c, <2>1, <2>3, <3>1, StatusFrame DEF StatusMap
  <2>5. StatusMap'[q] = "delivered"
    BY <2>2, <2>3 DEF StatusMap, StatusOf, Delivered, Duplicates
  <2>6. StatusMap[q] \in {"delivered", "pending", "givenUp"}
    BY <2>2 DEF StatusMap, StatusOf, Taken, Settled
  <2>7. QED
    BY <2>2, <2>4, <2>5, <2>6 DEF Legal
<1>7. ASSUME NEW q \in Keys, UNCHANGED sends,
             \A k \in Keys \ {q} : jobState'[k] = jobState[k],
             gaveUp' = IF jobState'[q] = "failed" THEN gaveUp \cup {q} ELSE gaveUp,
             \/ jobState'[q] = jobState[q]
             \/ Pending(q) /\ jobState'[q] \in {"waiting", "delayed", "failed"}
      PROVE  /\ Legal(StatusMap[q], StatusMap'[q])
             /\ \A k \in Keys \ {q} : StatusMap'[k] = StatusMap[k]
  <2>1. \A k \in Keys \ {q} : StatusMap'[k] = StatusMap[k]
    BY <1>7, StatusFrame DEF StatusMap
  <2>2. Delivered(q)' <=> Delivered(q)
    BY <1>7 DEF Delivered, Duplicates
  <2>3. jobState[q] = "failed" => Delivered(q) \/ q \in gaveUp
    BY DEF ContractInv, Kept, JobsSettle, Settled
  <2>4. QED
    BY <1>7, <2>1, <2>2, <2>3 DEF Legal, StatusMap, StatusOf, Pending
<1>8. CASE \E s \in Slots : FailJob(s)
  <2>1. PICK s \in Slots : FailJob(s)
    BY <1>8
  <2>2. PICK q \in Keys :
          /\ q = slotKey[s] /\ UNCHANGED sends
          /\ gaveUp' = IF jobState'[q] = "failed" THEN gaveUp \cup {q} ELSE gaveUp
    BY <1>b, <2>1 DEF FailJob
  <2>3. /\ \A k \in Keys \ {q} : jobState'[k] = jobState[k]
        /\ \/ jobState'[q] = jobState[q]
           \/ lockedBy[q] = s /\ jobState'[q] \in {"delayed", "failed"}
    BY <1>a, <2>1, <2>2 DEF FailJob, Fail, NextTry, queueVars
  <2>4. lockedBy[q] = s => Pending(q)
    BY <2>2, NoSlotAssumption DEF ContractInv, Consistent, QueueOK, Pending
  <2>5. QED
    BY <1>7, <2>2, <2>3, <2>4
<1>9. CASE \E k \in Keys : RequeueStalled(k)
  <2>1. PICK q \in Keys : RequeueStalled(q)
    BY <1>9
  <2>2. /\ UNCHANGED sends
        /\ gaveUp' = IF jobState'[q] = "failed" THEN gaveUp \cup {q} ELSE gaveUp
    BY <2>1 DEF RequeueStalled
  <2>3. /\ \A k \in Keys \ {q} : jobState'[k] = jobState[k]
        /\ Pending(q) /\ jobState'[q] \in {"waiting", "failed"}
    BY <1>a, <2>1 DEF RequeueStalled, RecoverStalled, AfterStall, Pending
  <2>4. QED
    BY <1>7, <2>2, <2>3
<1>10. QED
  BY <1>1, <1>3, <1>4, <1>5, <1>6, <1>8, <1>9, StatusChanges

-----------------------------------------------------------------------------
\* A request whose answer and body stay has been told what it had been told.
LEMMA ToldFrame ==
  ASSUME NEW r, reply'[r] = reply[r], shown'[r] = shown[r]
  PROVE  ToldTo(r)' = ToldTo(r)
BY DEF ToldTo

\* Only a key that is not set has no kind of entry.
LEMMA OnlyMissing == \A e \in Entries : e.kind = "none" => e = Missing
BY DEF Entries, Missing, Placeholder, Accepted, Sent, Failed

\* What the cache says of a key is warranted by what has become of the key.
LEMMA CacheWarranted ==
  ASSUME ContractInv, NEW k \in Keys, cache[k].kind # "none"
  PROVE  /\ cache[k].kind \in {"processing", "accepted", "failed", "sent"}
         /\ cache[k].kind = "processing" => cache[k] = Placeholder
         /\ cache[k].kind \in {"accepted", "failed"} => StatusMap[k] # "none"
         /\ cache[k].kind = "sent" => StatusMap[k] = "delivered"
<1>1. cache[k] \in Entries
  BY DEF ContractInv, Consistent, CacheTypeOK
<1>2. cache[k].kind = "accepted" => Taken(k)
  BY DEF ContractInv, Kept, PromiseKept, Promised, Taken, Settled
<1>3. cache[k].kind = "failed" => Taken(k)
  BY DEF ContractInv, Undertaken
<1>4. cache[k].kind = "sent" => Delivered(k)
  <2>1. cache[k].kind = "sent" => cache[k].job \in Requests /\ cache[k].job # NoJob
    BY <1>1, SentEntry, NoJobAssumption
  <2>2. QED
    BY <2>1 DEF ContractInv, Reported, SentIsTrue, NoCrossTalk, Delivered, Duplicates
<1>5. Taken(k) => StatusMap[k] # "none"
  BY DEF Taken, Settled, StatusMap, StatusOf
<1>6. Delivered(k) => StatusMap[k] = "delivered"
  BY DEF StatusMap, StatusOf
<1>7. QED
  BY <1>1, <1>2, <1>3, <1>4, <1>5, <1>6
     DEF Entries, Missing, Placeholder, Accepted, Sent, Failed

\* At each step at most one client is told something, which its key warrants.
LEMMA ToldMoves ==
  ASSUME ContractInv, [Next]_vars
  PROVE  \/ UNCHANGED ToldMap
         \/ /\ UNCHANGED StatusMap
            /\ \E r \in Requests, v \in Contract!Verdicts :
                 /\ ToldMap[r] = "nothing" /\ ToldMap' = [ToldMap EXCEPT ![r] = v]
                 /\ Contract!Warranted(v, StatusMap[KeyOf[r]])
<1>a. /\ reply \in [Requests -> Replies]
      /\ shown \in [Requests -> Entries]
      /\ \A r \in Requests : pc[r] # "done" => reply[r] = "none"
  BY DEF ContractInv, Consistent, GatewayTypeOK, Unanswered
<1>b. ASSUME NEW r \in Requests, NEW v \in Contract!Verdicts,
             ToldMap[r] = "nothing", ToldMap'[r] = v,
             Contract!Warranted(v, StatusMap[KeyOf[r]]),
             UNCHANGED <<queueVars, observed>>,
             \A q \in Requests \ {r} : reply'[q] = reply[q] /\ shown'[q] = shown[q]
      PROVE  /\ UNCHANGED StatusMap
             /\ \E q \in Requests, w \in Contract!Verdicts :
                  /\ ToldMap[q] = "nothing" /\ ToldMap' = [ToldMap EXCEPT ![q] = w]
                  /\ Contract!Warranted(w, StatusMap[KeyOf[q]])
  <2>1. UNCHANGED StatusMap
    BY <1>b, StatusFrame DEF StatusMap, queueVars, observed
  <2>2. \A q \in Requests \ {r} : ToldMap'[q] = ToldMap[q]
    BY <1>b, ToldFrame DEF ToldMap
  <2>3. ToldMap' = [ToldMap EXCEPT ![r] = v]
    BY <1>b, <2>2 DEF ToldMap
  <2>4. QED
    BY <1>b, <2>1, <2>3
<1>c. ASSUME NEW r \in Requests, pc[r] # "done"
      PROVE  ToldMap[r] = "nothing"
  BY <1>a, <1>c DEF ToldMap, ToldTo
<1>1. ASSUME NEW r \in Requests, CheckRateLimit(r)
      PROVE  \/ UNCHANGED ToldMap
             \/ /\ UNCHANGED StatusMap
                /\ \E q \in Requests, w \in Contract!Verdicts :
                     /\ ToldMap[q] = "nothing" /\ ToldMap' = [ToldMap EXCEPT ![q] = w]
                     /\ Contract!Warranted(w, StatusMap[KeyOf[q]])
  <2>1. /\ UNCHANGED <<queueVars, observed, shown>> /\ pc[r] # "done"
        /\ \A q \in Requests \ {r} : reply'[q] = reply[q]
        /\ reply'[r] = reply[r] \/ reply'[r] \in {"limited", "error"}
    BY <1>a, <1>1 DEF CheckRateLimit, Answer
  <2>2. CASE reply'[r] = "limited"
    <3>1. ToldMap'[r] = "refused"
      BY <2>2 DEF ToldMap, ToldTo
    <3>2. /\ "refused" \in Contract!Verdicts
          /\ Contract!Warranted("refused", StatusMap[KeyOf[r]])
      BY DEF Contract!Verdicts, Contract!Warranted
    <3>3. QED
      BY <1>b, <1>c, <2>1, <3>1, <3>2
  <2>3. CASE reply'[r] # "limited"
    <3>1. ToldMap'[r] = ToldMap[r]
      BY <1>a, <2>1, <2>3 DEF ToldMap, ToldTo
    <3>2. \A q \in Requests : ToldMap'[q] = ToldMap[q]
      BY <2>1, <3>1, ToldFrame DEF ToldMap
    <3>3. QED
      BY <3>2 DEF ToldMap
  <2>4. QED
    BY <2>2, <2>3
<1>2. ASSUME NEW r \in Requests, Lookup(r)
      PROVE  \/ UNCHANGED ToldMap
             \/ /\ UNCHANGED StatusMap
                /\ \E q \in Requests, w \in Contract!Verdicts :
                     /\ ToldMap[q] = "nothing" /\ ToldMap' = [ToldMap EXCEPT ![q] = w]
                     /\ Contract!Warranted(w, StatusMap[KeyOf[q]])
  <2> DEFINE v == IF cache[KeyOf[r]] = Placeholder THEN "blank" ELSE cache[KeyOf[r]].kind
  <2>1. /\ UNCHANGED <<queueVars, observed>> /\ pc[r] # "done" /\ KeyOf[r] \in Keys
        /\ \A q \in Requests \ {r} : reply'[q] = reply[q] /\ shown'[q] = shown[q]
    BY <1>a, <1>2, RequestFields DEF Lookup, Answer
  <2>2. CASE Hit(KeyOf[r])
    <3>1. reply'[r] = "duplicate" /\ shown'[r] = cache[KeyOf[r]]
      BY <1>a, <1>2, <2>2 DEF Lookup, Answer
    <3>2. ToldMap'[r] = v
      BY <3>1 DEF ToldMap, ToldTo
    <3>3. cache[KeyOf[r]].kind # "none"
      <4>1. cache[KeyOf[r]] \in Entries
        BY <2>1 DEF ContractInv, Consistent, CacheTypeOK
      <4>2. QED
        BY <2>2, <4>1, OnlyMissing DEF Hit
    <3>4. v \in Contract!Verdicts /\ Contract!Warranted(v, StatusMap[KeyOf[r]])
      BY <2>1, <3>3, CacheWarranted DEF Contract!Verdicts, Contract!Warranted
    <3>5. QED
      BY <1>b, <1>c, <2>1, <3>2, <3>4
  <2>3. CASE ~Hit(KeyOf[r])
    BY <1>2, <2>3, ToldFrame DEF Lookup, ToldMap
  <2>4. QED
    BY <2>2, <2>3
<1>3. ASSUME NEW r \in Requests, Store(r)
      PROVE  /\ UNCHANGED StatusMap
             /\ \E q \in Requests, w \in Contract!Verdicts :
                  /\ ToldMap[q] = "nothing" /\ ToldMap' = [ToldMap EXCEPT ![q] = w]
                  /\ Contract!Warranted(w, StatusMap[KeyOf[q]])
  <2>1. /\ UNCHANGED <<queueVars, observed>> /\ pc[r] = "store" /\ KeyOf[r] \in Keys
        /\ \A q \in Requests \ {r} : reply'[q] = reply[q] /\ shown'[q] = shown[q]
        /\ reply'[r] = "accepted" /\ shown'[r] = Accepted(r)
    BY <1>a, <1>3, RequestFields DEF Store, Answer
  <2>2. ToldMap'[r] = "accepted"
    BY <2>1 DEF ToldMap, ToldTo, Accepted, Placeholder
  <2>3. Taken(KeyOf[r])
    <3>1. Promised(KeyOf[r])
      BY <2>1 DEF Promised, Duplicates
    <3>2. QED
      BY <2>1, <3>1 DEF ContractInv, Kept, PromiseKept, Taken, Settled
  <2>4. StatusMap[KeyOf[r]] # "none"
    BY <2>1, <2>3 DEF Taken, Settled, StatusMap, StatusOf
  <2>5. /\ "accepted" \in Contract!Verdicts
        /\ Contract!Warranted("accepted", StatusMap[KeyOf[r]])
    BY <2>4 DEF Contract!Verdicts, Contract!Warranted
  <2>6. QED
    BY <1>b, <1>c, <2>1, <2>2, <2>5
<1>4. CASE /\ UNCHANGED shown
           /\ \A r \in Requests :
                \/ reply'[r] = reply[r]
                \/ pc[r] # "done" /\ reply'[r] \in {"error", "lost"}
  <2>1. \A r \in Requests : ToldMap'[r] = ToldMap[r]
    <3> SUFFICES ASSUME NEW r \in Requests PROVE ToldMap'[r] = ToldMap[r]
      OBVIOUS
    <3>1. CASE reply'[r] = reply[r]
      BY <1>4, <3>1, ToldFrame DEF ToldMap
    <3>2. CASE pc[r] # "done" /\ reply'[r] \in {"error", "lost"}
      BY <1>c, <3>2 DEF ToldMap, ToldTo
    <3>3. QED
      BY <1>4, <3>1, <3>2
  <2>2. QED
    BY <2>1 DEF ToldMap
<1>5. QED
  BY <1>1, <1>2, <1>3, <1>4, ReplyChanges DEF ContractInv

-----------------------------------------------------------------------------
\* A legal move of one key is a step of the contract.
LEMMA MoveRefines ==
  ASSUME NEW q \in Keys, Legal(StatusMap[q], StatusMap'[q]),
         \A k \in Keys \ {q} : StatusMap'[k] = StatusMap[k], UNCHANGED ToldMap
  PROVE  Contract!ContractNext \/ UNCHANGED <<StatusMap, ToldMap>>
<1>1. StatusMap' = [StatusMap EXCEPT ![q] = StatusMap'[q]]
  BY DEF StatusMap
<1>2. CASE StatusMap'[q] = StatusMap[q]
  BY <1>1, <1>2 DEF StatusMap
<1>3. CASE StatusMap'[q] = "pending" /\ StatusMap[q] \in {"none", "givenUp"}
  <2>1. Contract!Undertake(q)
    BY <1>1, <1>3 DEF Contract!Undertake, Contract!Become, StatusMap, ToldMap
  <2>2. QED
    BY <2>1 DEF Contract!ContractNext
<1>4. CASE StatusMap'[q] = "delivered" /\ StatusMap[q] \in {"pending", "givenUp"}
  <2>1. Contract!Deliver(q)
    BY <1>1, <1>4 DEF Contract!Deliver, Contract!Become, StatusMap, ToldMap
  <2>2. QED
    BY <2>1 DEF Contract!ContractNext
<1>5. CASE StatusMap'[q] = "givenUp" /\ StatusMap[q] = "pending"
  <2>1. Contract!GiveUp(q)
    BY <1>1, <1>5 DEF Contract!GiveUp, Contract!Become, StatusMap, ToldMap
  <2>2. QED
    BY <2>1 DEF Contract!ContractNext
<1>6. QED
  BY <1>2, <1>3, <1>4, <1>5 DEF Legal

\* Every step of the gateway is one of the contract, or invisible to its clients.
LEMMA ContractStep ==
  ContractInv /\ [Next]_vars => [Contract!ContractNext]_<<StatusMap, ToldMap>>
<1> SUFFICES ASSUME ContractInv, [Next]_vars
             PROVE  Contract!ContractNext \/ UNCHANGED <<StatusMap, ToldMap>>
    OBVIOUS
<1>1. CASE UNCHANGED ToldMap
  BY <1>1, StatusMoves, MoveRefines
<1>2. CASE /\ UNCHANGED StatusMap
           /\ \E r \in Requests, v \in Contract!Verdicts :
                /\ ToldMap[r] = "nothing" /\ ToldMap' = [ToldMap EXCEPT ![r] = v]
                /\ Contract!Warranted(v, StatusMap[KeyOf[r]])
  <2>1. PICK r \in Requests, v \in Contract!Verdicts :
          /\ ToldMap[r] = "nothing" /\ ToldMap' = [ToldMap EXCEPT ![r] = v]
          /\ Contract!Warranted(v, StatusMap[KeyOf[r]])
    BY <1>2
  <2>2. Contract!Tell(r)
    BY <1>2, <2>1 DEF Contract!Tell, StatusMap, ToldMap
  <2>3. QED
    BY <2>2 DEF Contract!ContractNext
<1>3. QED
  BY <1>1, <1>2, ToldMoves

\* The gateway implements its contract with its clients: whatever fails, no key is
\* forgotten once taken, no delivery is undone, and no client is told of its key
\* what never happened to it.
THEOREM ContractImplemented == Spec => ImplementsContract
<1>1. Init => Contract!ContractInit
  <2> SUFFICES ASSUME Init PROVE Contract!ContractInit
      OBVIOUS
  <2>1. StatusMap = [k \in Keys |-> "none"]
    BY DEF Init, QueueInit, StatusMap, StatusOf, Delivered, Duplicates, Pending
  <2>2. ToldMap = [r \in Requests |-> "nothing"]
    BY DEF Init, ToldMap, ToldTo
  <2>3. QED
    BY <2>1, <2>2 DEF Contract!ContractInit, StatusMap, ToldMap
<1>2. [Contract!ContractNext]_<<StatusMap, ToldMap>>
        <=> [Contract!ContractNext]_<<[k \in Keys |-> StatusOf(k)],
                                      [r \in Requests |-> ToldTo(r)]>>
  BY DEF StatusMap, ToldMap
<1>3. QED
  BY <1>1, <1>2, ContractStep, ContractInvAlways, PTL
     DEF Spec, ImplementsContract, Contract!ContractSpec, Contract!contractVars
=============================================================================
