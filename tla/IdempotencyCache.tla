------------------------- MODULE IdempotencyCache --------------------------
(***************************************************************************)
(* The Redis keys notify:idempotency:<key>.  They have three writers that  *)
(* do not synchronise: checkAndLock writes a placeholder, storeResponse    *)
(* the controller's acceptance, and the queue worker the result of the     *)
(* send.  Each writes with a plain SET, whatever the key holds.            *)
(***************************************************************************)
EXTENDS GatewayData

VARIABLE cache

\* An entry is abstracted to the writer it comes from and the jobId in its body;
\* the placeholder { status: 'processing' } has no body.
Missing     == [kind |-> "none",       job |-> NoJob]
Placeholder == [kind |-> "processing", job |-> NoJob]
Accepted(r) == [kind |-> "accepted",   job |-> r]
Sent(r)     == [kind |-> "sent",       job |-> r]
Failed(r)   == [kind |-> "failed",     job |-> r]

Entries == {Missing, Placeholder}
             \cup {Accepted(r) : r \in Requests}
             \cup {Sent(r) : r \in Requests}
             \cup {Failed(r) : r \in Requests}

CacheTypeOK == cache \in [Keys -> Entries]

CacheInit == cache = [k \in Keys |-> Missing]

SetEntry(k, e) == cache' = [cache EXCEPT ![k] = e]

\* The GET of checkAndLock.
Hit(k) == cache[k] # Missing

\* The SET of checkAndLock: neither NX nor a transaction with the GET.
Lock(k) == SetEntry(k, Placeholder)

StoreResponse(r) == SetEntry(KeyOf[r], Accepted(r))

\* The worker's SET of the final result, on success and in the catch block.
StoreSuccess(k, job) == SetEntry(k, Sent(job))

\* Mutant of StoreFailure: the body lacks the jobId.
StoreFailureWithoutJob(k, job) == SetEntry(k, [Failed(job) EXCEPT !.job = NoJob])

StoreFailure(k, job) == SetEntry(k, Failed(job))

\* The TTL (IDEMPOTENCY_TTL in the service, 86400 s in the worker) runs out.
EntryExpires(k) == Hit(k) /\ SetEntry(k, Missing)
=============================================================================
