# A verification of the resilient notification gateway

The gateway accepts `POST /notifications/send`, limits each user's rate, deduplicates by an idempotency
key the client chooses, queues the notification in BullMQ and sends it from a worker that fails over
between providers. Everything durable is in one Redis; any number of instances share it. This directory
holds TLA+ models of that core, TLC runs on small instances, and TLAPS proofs for every instance.

Paths below are relative to `src/`, the application's own code is under `src/src/`.

## 1. Inventory

| Part | State | Operations | Interacts with |
|---|---|---|---|
| Controller (`notifications.controller.ts`) | the position of each running handler | `sendNotification`: check limit, check and lock the key, record, enqueue, store the response | all three services, by awaited calls |
| Rate limiter (`rate-limit.service.ts`) | `notify:ratelimit:<user>`: a sorted set with a TTL | `checkRateLimit`, `recordRequest`, `getCurrentCount`, `resetRateLimit` | Redis |
| Idempotency (`idempotency.service.ts`) | `notify:idempotency:<key>`: a string with a TTL | `checkAndLock`, `storeResponse`, `remove`, `getCachedResponse` | Redis; the worker writes the same keys |
| Enqueueing (`notification.service.ts`) | none | `enqueueNotification` | BullMQ; the key is the job id |
| Queue and worker (`queue.module.ts`) | BullMQ's job records and locks; the position of each running processor | the processor: send, SET of the result, SET in the catch block, rethrow | registry, idempotency keys |
| Provider registry (`provider-registry.service.ts`) | fixed chains of providers; the position of each call | `sendWithFailover` | providers |
| Mock providers (`mock-providers.service.ts`) | fixed failure rates | `send` | - |
| Redis client (`redis.module.ts`) | the connection, its retry count, the commands that wait | reconnect, resend, give up | every command of the above, but not BullMQ's |
| Health (`health.controller.ts`) | none | `/health`: a PING, then a GET; `/ping`: a constant | Redis client |
| Validation (`dto/notification.dto.ts`, `ValidationPipe` of `main.ts`) | none | conversion, validators | in front of the controller |
| Logger, bootstrap, wiring | none that matters | - | - |

What is hard here:

* **Interleaving.** Nothing holds a lock across two awaits. Handlers of one user interleave between the
  check and the recording; handlers of one key between the GET and the SET of `checkAndLock`; and the
  controller and the worker write the same cache entry in either order.
* **Partial failure and crashes.** Five Redis commands in a row, each of which may reject (executed or
  not), and no compensation for those that went before. The worker's first SET is inside the `try`, so
  its rejection looks like a failed delivery after a delivery that happened.
* **Retries.** BullMQ runs a job up to three times, and again when it stalls, on the same or on another
  instance; a processor that lost its job's lock keeps running beside its successor.
* **Clients that resend and give up.** The one Redis client of a process repeats commands whose reply was
  lost, keeps commands waiting through an outage, and after three failed reconnections rejects everything
  for ever, while BullMQ's own connections go on: the worker of such a process still takes jobs.
* **Waiting without a limit.** `send` has no timeout, and `onModuleDestroy` awaits the worker.
* **Time.** `Date.now()` is read before the awaits that use it; window, key TTL, cache TTL and the
  retention of finished jobs run out independently.

What makes each part correct: the *limiter* exceeds its limit at most by the requests in flight and by
those it forgets, of which there is a bound too, denies only with reason and keeps what an `EXPIRE` has covered; the *cache* never mixes up keys and never reports what
did not happen; the *queue* delivers a key once where no fault repeats it and loses nothing that was
promised; the *registry* asks providers in order, each once, and reports what they did; a *health probe*
reports a client that has given up, and reports no lost connection that may come back; a *worker that
closes* closes.

## 2. Modules

| Module | Models | Level |
|---|---|---|
| `RequestData`, `GatewayData` | requests, users, keys, channels; a request also stands for its `jobId` | data |
| `ProviderFailover` | `sendWithFailover`, one call per processor, one step per provider outcome | component, with its own `CallSpec` |
| `MockProviders` | the six providers as values for the constants of `ProviderFailover` | data |
| `RateLimiter`, `RateLimiterProperties` | every Redis command of `RateLimitService`, the clock, the TTL | component, with its own `Spec` |
| `SlidingWindow` | the limiter as the controller sees it: the set of requests in the window | operations |
| `IdempotencyCache` | the cache entries and the operations of their three writers | operations |
| `JobQueue` | BullMQ as this code uses it (external): states, attempts, locks, stalls, retention | operations |
| `NotificationGateway` | handlers and processors on several instances over the four above | the composed system |
| `GatewayProperties` | its properties, and the refinement mapping to `DeliveryContract` | properties |
| `DeliveryContract` | what becomes of each key and what each request is told, without cache, queue or instances | abstract specification of the gateway |
| `WindowContract` | `SlidingWindow` with the requests that use it | abstract specification of the rate limiter |
| `RedisConnection` | the ioredis client as `redis.module.ts` configures it | component |
| `RequestValidation` | what the `ValidationPipe` lets through | operators |
| `ServiceInstance` | one process: health probes and requests over the two above, and BullMQ's own connection | composed system, with its properties |
| `JobQueueProofs`, `GatewayProofs`, `DeduplicationProofs`, `ContractProofs`, `RedeliveryProofs` | theorems about the gateway and its queue | proofs |
| `FailoverProofs`, `RateLimiterProofs`, `InstanceProofs` | theorems about the other components, and about the calls of the gateway's processors | proofs |
| `MCGateway`, `MCRateLimiter`, `MCFailover`, `MCInstance` | small instances | model checking |

### How the composed model corresponds to the code

`pc[r]` names the command the handler of request `r` awaits next; the actions `CheckRateLimit`,
`Lookup`, `LockKey`, `Record`, `Enqueue`, `Store` are its steps 1 to 5, `checkAndLock` being two of them.
`HandlerCommandFails` is the rejection of the current command: the controller catches only
`DuplicateRequestException`, so the client gets a 500, and Redis may have executed the command anyway.
`slotPc[s]` does the same for one of the concurrent processors of the workers: `TakeJob` fetches a job
and begins `sendWithFailover`, `Send` is one provider outcome, `StoreSent` and `StoreFailed` are the two
SETs, `SlotCommandFails` their rejection (from the `try` to the `catch`, from the `catch` to the queue),
`FinishJob` and `FailJob` the end of the processor's promise. `Crash(i)` kills an instance with its
handlers and processors and starts it again; Redis keeps what was written. `WakeJob` and `RequeueStalled`
are BullMQ's backoff and stalled checker, `LockLost` a processor that does not renew its lock in time,
`CacheExpires` a TTL that runs out or a call of `remove`, `JobRemoved` the retention of finished jobs.

The faults of the Redis client come from `RedisConnection`. `HandlerCommandResent` and
`SlotCommandResent` execute a command whose caller goes on waiting, as the client will send it again;
`ClientEnds(i)` is the end of an instance's client, after which `HandlerCommandRefused` and
`SlotCommandRefused` reject every command of its handlers and processors at once, except `Enqueue`,
which is BullMQ's. `ProviderHangs` leaves a processor waiting in `send` for ever, with its job's lock
renewed, whether or not the provider delivered. `CloseWorker(i)` is `onModuleDestroy`: the worker takes no
more jobs and is awaited; `Restart(i)` comes once processors and handlers are idle, and starts the process
again. `bootstrap` does not enable shutdown hooks, so that only a call of `app.close()` gets there; a
SIGTERM is a `Crash`. A job that is being fetched while the worker begins to close is taken before or
not at all.

`sends` and `gaveUp` are observation only: deliveries per `jobId`, and keys whose job failed for good.
No guard reads them. `faults` counts towards a bound, and `RedeliveryNeedsFault` compares with it.

Abstractions, and why they are harmless. A cache entry is its writer and the `jobId` in its body: no code
looks at anything else. The rate limiter inside the gateway is a set from which any part may disappear at
any time; `RateLimiter` has the commands behind it. `checkRateLimit` only prunes and counts, so its
rejection changes nothing `SlidingWindow` shows. Locks of a dead process expire later in reality; no step
depends on them before `RequeueStalled`, which may come as late. Without the lock a job is not moved by
the processor's result, which is what BullMQ does. A record's stalled counter and attempts are those of
BullMQ 4: fetching a job counts an attempt, and a job may stall `MaxStalled` times.

`RateLimiter` reads the clock where the code calls `Date.now()`, so that a command may use a stale time;
`resetRateLimit` and `getCurrentCount` happen at any moment. What the limit is about is requests, so the
properties count the requests whose `ZADD` was executed in the window (`InWindow`), whatever has become of
their entries; `refreshed` (an `EXPIRE` has covered the entry) and `pardoned` (a reset has deleted it) are
observation only. `ImplementsWindow` maps its sorted set to a
set of requests and its handlers to verdicts, and checks that every command is a step of `WindowContract`
or none: the window the gateway relies on is what these commands keep. `Abort` is a rejected command or a crash
between any two commands. All instances share one clock: skew between instances is not modelled.

`ImplementsContract` maps the gateway to `DeliveryContract`. A key is "delivered" once a provider has
delivered one of its jobs, else "pending" while its job is in the queue, else "givenUp" once a job of it
has failed for good, else "none"; a request has been told "nothing" (no answer, a 500, a lost
connection), "refused" (429), "blank" (the body of a placeholder), or what the entry it was shown says.
Every step of the gateway, faults included, moves one key or tells one client, as the contract allows.

`ServiceInstance` gives each caller of the Redis client at most one command at a time, as each awaits
it. `Issue` sends, queues or rejects according to the connection; `Close` is ioredis's close handler with
both options of `redis.module.ts`, `GivesUp` (`retryStrategy`) and `Flushes` (`maxRetriesPerRequest`);
`ConnectionReady` sends what was unfulfilled again. An attempt to connect is one step, its delay and the
ready check included; a ready check that fails after TCP has connected counts as any failed attempt. The
reply of Redis is a result or an error ("refused"), which rejects the promise like the client's own
rejections do; a health check that is down tells the two apart by its error. `CheckRedis` and `CheckQueue` are the two halves of `healthCheck`, polled for ever.
A request is validated by `Passes`, and then has one command before `queue.add` and one after it, which
stand for those of the gateway model. Values of body properties are classes: a number or an object is
converted to text, an array, `null` and a missing property stay what they are.

## 3. Runs

| Run | Instance | Question |
|---|---|---|
| `failover` | two calls; three channels and an unserved one; three SMS providers with arbitrary outcomes, the shipped email and push ones with `FORCE_PRIMARY_FAILURE` | are verdicts, order, single delivery and termination right? |
| `gateway_faults` | a request and its duplicate, two processors, two providers, two attempts, up to three failed commands, crashes, lost locks, expiries and removals | what survives every fault: promises, true reports, bounded redelivery, the contract with the clients |
| `gateway_calm` | three requests, two keys, a limit of two, one provider, and one command sent twice, expiry or close | types, deduplication, ownership of placeholders |
| `gateway_recovery` | two instances, up to two crashes, clients that end, closes or providers that hang, under fairness | bounded delivery, exclusion of processors, and that every request, promise and close settles |
| `rate_limiter` | four requests, two at once, limit two, window of two ticks, four ticks | the bound under overlap, justified denials, entries that survive, the implementation of `WindowContract` |
| `rate_serial` | five requests, one at a time, window of three ticks of half a second, six ticks | what the key can forget, and an honest `retryAfter` |
| `instance` | one process, a probe, one request with one of some seventy bodies, the code's three and three retries, any number of outages and of refused commands | what `/health` tells, what is queued, that every call is answered |

Five runs end in the violation they look for; each contradicts a line of the repository:

| Run | What the code does | What the repository says |
|---|---|---|
| `lock_race` | two requests with one key both get past `checkAndLock` (GET, then SET without NX), no fault needed | `src/notifications/services/idempotency.service.ts:55` "Set a temporary lock to prevent race conditions" |
| `placeholder_stuck` | one rejected command after the lock leaves the placeholder for a day: retries get a 202 without a body and nothing is sent | `src/notifications/services/idempotency.service.ts:56` "will be replaced with the full response" |
| `final_result` | `storeResponse` replaces the result of a faster worker | `src/queue/queue.module.ts:107` "Update idempotency cache with final result" |
| `rate_race` | requests in flight together exceed the limit | `README.md:10` "sliding window (10 requests/minute)" |
| `failover_plain_error` | an error that is no `ProviderException` ends the call with a fallback left | `src/providers/provider-registry.service.spec.ts:90`, which expects the fallback |

What the passing runs say about the same hazards: the race on the lock costs a wrong `jobId` in a
response but no second delivery, because the queue's job id deduplicates (`AtMostOncePerKey`); a stuck
placeholder needs a fault (`PlaceholderHasOwner`); the limit is exceeded by no more than the requests in
flight and those the key has forgotten (`AdmissionBound`).

How the key forgets: a request is recorded at 1, which gives the key (window 3, grace 1) until 5; two more
are recorded at 4, each breaking off after its `ZADD` and before its `EXPIRE`; at 5 the key goes with both
entries, and two more are admitted. Four requests are then in a window of limit two, without any overlap:
the README's limit fails for a second reason (`LimitRespected` is refuted by the shorter trace of
`rate_race`). It gets no worse (`ForgetsOncePerWindow`): a key that has been given a TTL lives longer than
a window, so that what it loses at once is at most what it had room for. `rate_serial` reaches the
bound of twice the limit.

What `instance` shows of `/health`: a lost connection is never reported down while it may come back,
because commands wait through the outage, and the end of the client is reported by every later probe
(`ClosedIsFinal`, `EndIsReported`). A "down" may still pass: Redis refuses a PING while it cannot write to
its disk, and only the error in the report tells this from a client that has given up. About BullMQ's
connections the probe tells nothing, although the queue's status is computed from it. The two retry numbers
are tied: `ClosedIsFinal` fails as soon as `maxRetriesPerRequest` is lower than the retries of
`retryStrategy`. A connection that comes and goes for
ever keeps a call waiting for ever, since each success resets the count (`EveryCallAnswered` excludes it).

Two bounds on redelivery differ in what they survive. `RedeliveryNeedsFault` counts faults;
`DeliveriesBounded` counts attempts, and only two faults together break it: a command sent twice that adds
a job again after the finished one has been removed, which begins a new round of attempts.

What `gateway_recovery` shows of an instance whose client has ended: its worker still takes jobs and
delivers them, stores no result, and delivers again at every attempt, so that the number of deliveries is
bounded by the attempts (`DeliveriesBounded`) but no longer by the faults (`RedeliveryNeedsFault`).
A provider that never answers keeps its key, its processor and the close of its worker
(`EveryPromiseSettled` and `EveryCloseEnds` name these exceptions).

### Bounds

Two duplicates are enough for every race on a key, since each involves a first and a second writer; the
third request of `gateway_calm` adds a second key and makes the limit bind. Two processors are a running
one and the one that takes over. Two attempts and one stall give a first, a repeated and a last try; the
code has three, and the proofs are for any number. A provider of these runs serves or fails retryably: a try
that ends in another error fails all the same, and which provider is asked next is the question of
`failover`. `gateway_recovery` has two faults, one for each
instance or both for one. It has one key, so that what `EveryPromiseSettled` says of a key whose processors
are all kept by providers asked for other keys is not exercised there. `MaxFaults` of three in `gateway_faults` lets a lost lock, a failed SET and
a removal meet in one behaviour. Slots of one host are interchangeable, as are the duplicates, so the
safety runs use symmetry; `gateway_recovery` checks liveness and does not. In the rate limiter, four
ticks are two windows and six ticks two of the longer ones, so entries, TTLs and stale times all run out,
and a key expires and comes back; `MaxInFlight` and `MaxTime` bound concurrency and the clock. The five
requests of `rate_serial` are one to give the key its TTL and four for twice the limit. A probe and a
request wait for different commands of one client, and properties relate neither two probes nor two
requests, so that one of each is enough. The bodies of `instance` differ from a valid e-mail in one
property, or are text messages with any recipient; the validators look at one property each, and at the
channel. A behaviour may stop once every request is answered and no job is left that a processor could
take (`Quiescent`), and deadlock is checked everywhere.

### Fairness

`Fairness` is weak, per handler, per processor and per job: an event loop runs its continuations, a worker
fetches jobs for ever, and BullMQ's delayed set and stalled checker run on timers. Nothing is assumed of
arriving requests, nor of faults, and `MaxFaults` makes them finite: a Redis that rejects for ever settles
nothing. A provider answers or throws unless the fault "hang" takes its processor. `Restart` is fair: a
process that has closed is started again by its container (`docker-compose.yml`, `restart`), whereas
nothing restarts one whose client has ended, and nothing in the model does.

In `ServiceInstance` Redis answers what it has executed, an attempt to connect ends one way or the other,
and settled promises run their continuations. Nothing is assumed of the outcome of attempts: Redis may
stay away.

## 4. Proofs

The theorems hold for all values of the constants: any number of requests, keys, users, processors,
instances, attempts, faults, any set of fault kinds, any finite set of providers with any priorities and
outcomes, any limit, window, grace period and tick. They assume the typing of the constants in the modules
that declare them, and, where named, `FlushAssumption`; TLC evaluates each assumption in some passing run.
Every invariant, action property and refinement that a passing run checks is the conclusion of a theorem;
nothing but liveness is left to TLC alone.

| Module | Theorem | Property |
|---|---|---|
| `GatewayProofs` | `TypeCorrect` | `TypeOK` |
| | `KeysSeparate` | `NoCrossTalk` |
| | `ReportsAreTrue` | `SentIsTrue` |
| | `PromisesKept` | `PromiseKept` |
| | `ProcessorsExclude` | `OneProcessorPerKey` |
| | `PlaceholdersOwned` | `PlaceholderHasOwner` |
| `DeduplicationProofs` | `CompletionReported` | `CompletedIsNotReportedFailed` |
| | `Deduplicated` | `AtMostOncePerKey` |
| `RedeliveryProofs` | `AttemptsBoundDeliveries` | `DeliveriesBounded` |
| | `FaultsBoundDeliveries` | `RedeliveryNeedsFault` |
| `ContractProofs` | `ContractImplemented` | `ImplementsContract` |
| `FailoverProofs` | `VerdictsMatch`, `GatewayVerdicts` | `VerdictMatchesAnswers` |
| | `BestAreAskedFirst`, `GatewayOrder` | `BestProvidersFirst` |
| | `DeliveryEndsAsking`, `GatewayStopsAtDelivery` | `NoAnswerAfterDelivery` |
| `RateLimiterProofs` | `TypeCorrect` | `TypeOK` of the limiter |
| | `AdmissionsBounded` | `AdmissionBound` |
| | `ForgettingBounded` | `ForgetsOncePerWindow` |
| | `DenialsJustified` | `NoSpuriousDenial` |
| | `CoveredEntriesKept` | `CoveredEntriesSurvive` |
| | `RetryAfterIsHonest` | `HonestRetryAfter` |
| | `WindowImplemented` | `ImplementsWindow` |
| `InstanceProofs` | `InstanceTypeCorrect`, `ClosedForGood`, `EndReported`, `NothingInVain`, `EmailsAddressed` | `InstanceTypeOK`, `ClosedIsFinal`, `EndIsReported`, `NothingAddedInVain`, `EmailIsAddressed` |

### The gateway

A chain of invariants, each inductive relative to those before it.

1. `Consistent`: types; a record of the queue holds data with its own key, only an active job is locked
   (`QueueOK`, in `JobQueueProofs`, one lemma per operation); a busy processor has a job and data with
   that job's key. Everything else needs this to speak of `sends[slotJob[s]]` at all.
2. `Reported` adds to `SentIsTrue` that a processor about to store or to complete has had its job
   delivered: that is the only place a "sent" entry comes from.
3. `Kept` adds to `PromiseKept` why a finished job is finished. Without it, the removal of a completed
   job could drop a promise. A promise is made only after `Enqueue` (`PromisesMade`), and a job leaves
   the queue settled (`JobMoves`).
4. `Exclusive`: unless locks are lost, a busy processor holds the lock of its job. `OneProcessorPerKey`
   follows, since a job has one lock, and a crash drops locks of dead processors only.
5. `SuccessStands` (in `DeduplicationProofs`): a stored success is safe from a failure being stored,
   before and after completion, because only the holder of the lock would store one.
6. `DeliveredOnce`: a delivered `jobId` is the one its record holds, was delivered once, and its job is
   completed or in the hands of a processor that will complete it. It needs `Exclusive` for the step that
   delivers, and that no record is removed for the identity of the data. A hung processor may have
   delivered, so that it counts as one that will complete its job.
7. `NoneEnded`: where that fault is excluded no client ever ends; `PlaceholderHasOwner` and
   `AtMostOncePerKey` need it to exclude refused commands.

**Redelivery.** Deliveries alone are no inductive bound: two processors may be about to deliver the same
`jobId` while none has. What counts is `Charged(r)`, the deliveries so far and the processors that are
sending (a hung one has delivered or never will). `AttemptsPay` says that a record's
activations pay for what is charged to its data; `AttemptsLeft` bounds the activations by the attempts and
stalls; `Fresh` says that a notification is put into the queue once, which takes both a second command and
a removed record to undo; then the processors that have it began under this record. `FaultsPay` is about
faults instead: while clients are connected, what is charged, and one more if the job is about to be tried
again (`Retrying`), is paid for by the faults, and by the one delivery that is free. `Holders` ties a lock
to the record it locks; it is what makes a processor without its lock cost a fault.

**The contract.** `ContractStep` maps each step to a step of `DeliveryContract` or a stutter. The status of
a key is computed from queue, deliveries and `gaveUp`; `StatusMoves` shows that a step moves it for one
key at most, and only forwards. What a client is told must be warranted by the status of its key: for "sent"
this is `Reported`, for "accepted" `Kept`, and for "failed" the invariant `Undertaken`, that a failure
is only ever stored of a key the queue has taken, which `TakenStays` shows is for ever. `Unanswered` says
that a handler which is still running has told its client nothing, so that no client is told twice.

### The failover

`Chain` chooses one of the orders that are sorted by priority. `RankingExists` builds one by adding a best
provider at a time, by induction on the size of the set, so that the choice is never empty; this needs the
set of providers to be finite. `ChainRanks` is all the rest relies on. `CallSound` says how far a call
has come: every answer but the last is "retryable", and the phase is the one the last answer leads to.

The same holds inside the gateway, where calls also hang and die. `CallsInStep` says that a processor is
as far as its call is, and that the call is for the channel of its job's request; `GatewayCalls` concludes
that to the registry each step of the gateway is one of its own or a crash, which ends calls at any point.
So `CallInv` is an invariant of both specifications.

### The rate limiter

1. `Typed` adds to the types that no time that was read lies ahead of the clock.
2. `Ledger`: an entry belongs to one recorded request and carries the time its recording began. The sorted
   set is thus a function of the requests, which is what lets requests be counted instead of entries.
3. `Counted`: entries, recorded requests and requests in flight are finite sets, the last bounded by
   `MaxInFlight`. Infinitely many requests may exist; each step adds one.
4. `Covered`: once an `EXPIRE` has covered an entry, the TTL of the key runs out no earlier than its window,
   and a prune by a stale time, which is an earlier one, keeps it.
5. `RoomKept` bounds one set of requests: those that count (`Live`) and those that were admitted and whose
   handler has not finished (`Busy`). The script admits below the limit at its own time, which the clock
   can only have left behind; `ZADD` and what follows move a request within the set; a request that breaks
   off leaves it. It is inductive because it is a set and not a sum. A request in the window that is not
   in the set has lost its entry, and by `Covered` no `EXPIRE` had come: `AdmissionBound` follows.
6. `LossKept` is about the entries that are lost: a key that has a TTL again has it from an `EXPIRE` after
   the loss, so that it outlives the window of what was lost. When it expires, those have left the window,
   and what is lost then was in the set of `RoomKept`: `ForgetsOncePerWindow`, for any overlap.
7. `CheckIsAlone`, for one request at a time: during a check nothing in the set is younger than the check,
   and at most `Limit` entries are in its window. The oldest of them then leaves the window when
   `CeilSeconds` says. This invariant was found by the proof: honest is the answer at the moment it is
   given, and a state in which it has been given says nothing about a set that has changed since. That is
   why `HonestRetryAfter` is an action property.
8. `ImplementsWindow` goes command by command; what it needs is `Ledger`, since only then does the removal
   of an entry remove one request from the window, and adding one replace none.

### The instance

`InstanceProofs` is about `ServiceInstance`, with one inductive invariant, `InstanceInv`: a client that
has not ended has failed at most `MaxReconnects` times, the client rejects a command only at the end, a caller
that began after the end has only rejected commands, and whoever is past validation has a body that
passes. The lemma `NoEarlyFlush` is where the two retry numbers meet, and the reason for
`FlushAssumption`.

### Only model-checked

The liveness properties `EveryRequestAnswered`, `EveryPromiseSettled`, `EveryCloseEnds`, `EveryCallEnds`
and `EveryCallAnswered`: they rest on weak fairness, hence on `ENABLED`, which the prover does not
reason about. The refinements are proved without fairness, as the abstract specifications state none.
The counterexamples of the five runs that end in a violation are TLC's.

What the proofs changed in the models: `DeliveriesBounded` turned out to hold under more faults than it
claimed, `HonestRetryAfter` became a property of steps, and `Chain` leaves the order of equal priorities
open, where a particular sort would have hidden that nothing depends on it.

## 5. Not modelled, and the plan

Not modelled: the logger (output only), the wiring (no state), payload contents, provider delays, clock
skew between instances, the loss of Redis's own data, the constants and interfaces no code reads
(`JobStatus`, `ProviderStatus`, `PROVIDER_TIMEOUT_MS`), the order in which a client sends waiting commands
(its callers await one each), and what BullMQ does inside its connections.

Two things are seen and not stated as properties, because they are the absence of one: `/ping`, which the
health check of `docker-compose.yml` asks, answers whatever has happened to the Redis client; and an SMS
or push without a recipient is accepted, as `ValidateIf` turns off all validators of its property.

Planned, all of it proofs:

1. The window of the gateway: every command on it is a step of `WindowContract`, so that with
   `WindowImplemented` the limiter's commands stand behind the gateway's window step by step.
2. The safety halves of the liveness properties: that a handler which has not answered, a job that is
   pending and a worker that closes can always be taken a step further, stated without `ENABLED`.
3. Sharper forms of what is proved: which faults each property survives, one kind at a time, where the
   statement excludes several.
