-------------------------- MODULE GatewayProperties --------------------------
(***************************************************************************)
(* What clients and operators may rely on, stated of NotificationGateway.  *)
(* A property that holds only without some kind of fault says so.          *)
(***************************************************************************)
EXTENDS NotificationGateway

Without(kinds) == FaultKinds \cap kinds = {}

\* Types.
TypeOK == /\ WindowTypeOK /\ CacheTypeOK /\ QueueTypeOK /\ CallTypeOK
          /\ GatewayTypeOK

Delivered(k) == \E r \in Duplicates(k) : sends[r] > 0

\* The client, or a later duplicate, has been or will be told "accepted".
Promised(k) == \/ cache[k].kind = "accepted"
               \/ \E r \in Duplicates(k) : pc[r] = "store" \/ reply[r] = "accepted"

\* A promised notification is never dropped: its job is in the queue, or it was
\* delivered, or its attempts were used up.  This is what is left of
\* at-least-once delivery, and it holds under every kind of fault: the queue is
\* written before the promise, and a job leaves it only by completing after a
\* delivery or by failing for good.
PromiseKept ==
  \A k \in Keys : Promised(k) => Pending(k) \/ Delivered(k) \/ k \in gaveUp

\* A result "Notification sent successfully", in the cache or in the hands of a
\* client, names a jobId that a provider did deliver, whatever crashes, lost
\* locks and failed commands happened around it.  (Both SETs of the worker and
\* the rethrow between them.)
SentIsTrue ==
  /\ \A k \in Keys : cache[k].kind = "sent" => sends[cache[k].job] > 0
  /\ \A r \in Requests : shown[r].kind = "sent" => sends[shown[r].job] > 0

\* Answers are never mixed up between keys: what a client is shown, what the
\* cache of a key holds and what a processor of a key sends belong to that key.
NoCrossTalk ==
  /\ \A k \in Keys : cache[k].job # NoJob => KeyOf[cache[k].job] = k
  /\ \A r \in Requests :
       shown[r].job # NoJob => KeyOf[shown[r].job] = KeyOf[r]
  /\ \A s \in Slots : slotJob[s] # NoJob => KeyOf[slotJob[s]] = slotKey[s]

\* A notification is sent at most once per attempt, and stalls add at most
\* MaxStalled attempts: redelivery is bounded, whatever else fails.  Only a command
\* that adds the job a second time after the finished one has been removed starts
\* a new round of attempts.
DeliveriesBounded ==
  Without({"resend"}) \/ Without({"removal"}) =>
    \A r \in Requests : sends[r] <= Attempts + MaxStalled

\* A notification is delivered once, and at most once more for each fault: no fault,
\* be it a failed SET after a send, a lost lock or a crash, costs two deliveries,
\* and retries and duplicates cost none.  (An instance whose client has given up
\* delivers once per attempt for one fault.  Every fault is counted here, also those
\* that cause no delivery; without the others AtMostOncePerKey is stricter.)
RedeliveryNeedsFault ==
  Without({"end"}) => \A r \in Requests : sends[r] <= 1 + faults

\* While no running processor loses its lock, a key is processed by one slot at
\* a time, also across instances and across crashes.
OneProcessorPerKey ==
  Without({"lock"}) =>
    \A s, t \in Slots :
      slotKey[s] = slotKey[t] /\ slotPc[s] # "idle" /\ slotPc[t] # "idle" => s = t

\* Without failed commands, crashes and lost locks, and while the queue retains
\* the finished job, a key is delivered at most once, however many duplicates
\* race, however soon the cache entry expires, when commands are sent twice and
\* workers close and start again: the queue's job id, not the cache, is what
\* deduplicates.
AtMostOncePerKey ==
  Without({"redis", "end", "crash", "lock", "removal"}) =>
    \A q, r \in Requests :
      KeyOf[q] = KeyOf[r] /\ sends[q] > 0 /\ sends[r] > 0
        => q = r /\ sends[r] = 1

\* Without lost locks, once a job has completed no client is told any more that
\* its processing failed, although an earlier attempt may have said so.
CompletedIsNotReportedFailed ==
  Without({"lock"}) =>
    \A k \in Keys : jobState[k] = "completed" => cache[k].kind # "failed"

\* Without failed commands and crashes, a placeholder in the cache is always
\* owned by a handler that is still going to replace it.
PlaceholderHasOwner ==
  Without({"redis", "end", "crash"}) =>
    \A k \in Keys :
      cache[k] = Placeholder =>
        \E r \in Duplicates(k) : pc[r] \in {"lock", "record", "enqueue", "store"}

-----------------------------------------------------------------------------
(* The gateway implements the contract with its clients. *)

StatusOf(k) == IF Delivered(k) THEN "delivered"
               ELSE IF Pending(k) THEN "pending"
               ELSE IF k \in gaveUp THEN "givenUp" ELSE "none"

\* A 500 and a broken connection tell a client nothing; a duplicate is told what
\* the cache says.
ToldTo(r) == CASE reply[r] = "limited" -> "refused"
               [] reply[r] \in {"accepted", "duplicate"} ->
                    IF shown[r] = Placeholder THEN "blank" ELSE shown[r].kind
               [] OTHER -> "nothing"

Contract == INSTANCE DeliveryContract
              WITH status <- [k \in Keys |-> StatusOf(k)],
                   told   <- [r \in Requests |-> ToldTo(r)]

\* Whatever fails, a key moves only as the contract says: it is not forgotten
\* while a processor may still deliver it, a delivery is never undone, and no
\* client hears "accepted", "failed" or "sent" of a key to which that never
\* happened.  (The order of enqueue, delivery, cache and answer.)
ImplementsContract == Contract!ContractSpec

-----------------------------------------------------------------------------
\* A request the controller has begun to handle is answered, if only by the
\* death of its instance: no handler stays for ever where it is.
EveryRequestAnswered ==
  \A r \in Requests : []<>(pc[r] \notin HandlerSteps)

\* An accepted notification is eventually delivered or given up, even if
\* processors crash, workers close, clients give up and results are not written.
\* A provider that never answers costs the key it was asked for, and no other
\* key unless it keeps every processor of every worker.
EveryPromiseSettled ==
  \A k \in Keys : \/ Promised(k) ~> Delivered(k) \/ k \in gaveUp
                  \/ <>[]HeldByHung(k)
                  \/ <>[](\A s \in Slots : Stuck(s))

\* A worker that is being closed closes, whatever is left in the queue, unless a
\* provider one of its processors has asked never answers: onModuleDestroy awaits
\* it without a limit.
EveryCloseEnds ==
  \A i \in Instances : \/ []<>(i \notin closing)
                       \/ \E s \in Slots : HostOf[s] = i /\ <>[](slotPc[s] = "hung")

\* checkAndLock's placeholder "will be replaced with the full response"
\* (idempotency.service.ts:56), for as long as commands do not fail and
\* instances do not crash.
PlaceholderReplaced ==
  \A k \in Keys : cache[k] = Placeholder ~> cache[k] # Placeholder
-----------------------------------------------------------------------------
(* What comments in the code say, and the code does not do. *)

\* "Set a temporary lock to prevent race conditions" (idempotency.service.ts:55):
\* at most one request of a key is between the lock and its answer.
LockIsExclusive ==
  \A q, r \in Requests :
    (/\ KeyOf[q] = KeyOf[r]
     /\ pc[q] \in {"record", "enqueue", "store"}
     /\ pc[r] \in {"record", "enqueue", "store"}) => q = r

\* "Update idempotency cache with final result" (queue.module.ts:107): the result
\* of a delivery is final, the controller's acceptance never replaces it.
FinalResultKept ==
  [][\A k \in Keys : cache[k].kind = "sent" => cache'[k].kind # "accepted"]_vars
=============================================================================
