--------------------------- MODULE ServiceInstance ---------------------------
(***************************************************************************)
(* One process of the gateway and its links: the Redis client that         *)
(* requests and health probes share, and the connection of its own that    *)
(* BullMQ opens for queue.add and never gives up.  The commands before     *)
(* queue.add stand for one, and so do those after it; module               *)
(* NotificationGateway has each of them.                                   *)
(***************************************************************************)
EXTENDS RedisConnection, RequestValidation

CONSTANTS Probes,      \* clients that poll GET /health
          Posts,       \* requests POST /notifications/send
          SomeBodies   \* the bodies they may have

ASSUME CallersAssumption == Callers = Probes \cup Posts /\ Probes \cap Posts = {}

ASSUME BodiesAssumption == SomeBodies \subseteq Bodies

VARIABLES pc,          \* what a probe or request awaits
          redisCheck,  \* checks.redis
          queueCheck,  \* checks.queue
          answer,      \* the status code a request got, 0 before
          body,        \* the body it was sent with
          queueLink,   \* BullMQ's connection
          queued,      \* requests whose job is in the queue
          sawEnd       \* observed: begun after the client had ended

processVars == <<pc, redisCheck, queueCheck, answer, body, queued, sawEnd>>
vars == <<connectionVars, processVars, queueLink>>

\* Before a request arrives.
NoBody == [idempotencyKey |-> "missing", userId |-> "missing", channel |-> "missing",
           recipient |-> "missing", subject |-> "missing", message |-> "missing",
           extra |-> FALSE]

\* A check is up, or down with an error that says that Redis refused the command or
\* that the client is closed.
Checks == {"none", "up", "refused", "closed"}

InstanceTypeOK ==
  /\ ConnectionTypeOK
  /\ pc \in [Callers -> {"idle", "ping", "get", "check", "add", "store", "done"}]
  /\ redisCheck \in [Probes -> Checks]
  /\ queueCheck \in [Probes -> Checks]
  /\ answer \in [Posts -> {0, 202, 400, 429, 500}]
  /\ body \in [Posts -> SomeBodies \cup {NoBody}]
  /\ queueLink \in {"up", "down"}
  /\ queued \subseteq Posts
  /\ sawEnd \subseteq Callers

Init == /\ ConnectionInit
        /\ pc = [x \in Callers |-> "idle"]
        /\ redisCheck = [p \in Probes |-> "none"]
        /\ queueCheck = [p \in Probes |-> "none"]
        /\ answer = [q \in Posts |-> 0]
        /\ body = [q \in Posts |-> NoBody]
        /\ queueLink = "up"
        /\ queued = {}
        /\ sawEnd = {}

Goto(x, step) == pc' = [pc EXCEPT ![x] = step]

Begin(x, step) ==
  /\ Issue(x)
  /\ Goto(x, step)
  /\ sawEnd' = IF link = "end" THEN sawEnd \cup {x} ELSE sawEnd \ {x}

Status(x) == CASE command[x] = "fulfilled" -> "up"
               [] command[x] = "refused"   -> "refused"
               [] command[x] = "rejected"  -> "closed"

-----------------------------------------------------------------------------
(* GET /health, polled again and again. *)

\* Mutant of BeginProbe: a healthy result is kept.
BeginProbeCached(p) ==
  /\ pc[p] \in {"idle", "done"}
  /\ IF redisCheck[p] = "up" /\ queueCheck[p] = "up"
       THEN /\ Goto(p, "done")
            /\ sawEnd' = IF link = "end" THEN sawEnd \cup {p} ELSE sawEnd \ {p}
            /\ UNCHANGED <<connectionVars, redisCheck, queueCheck>>
       ELSE /\ Begin(p, "ping")
            /\ redisCheck' = [redisCheck EXCEPT ![p] = "none"]
            /\ queueCheck' = [queueCheck EXCEPT ![p] = "none"]
  /\ UNCHANGED <<answer, body, queueLink, queued>>

BeginProbe(p) ==
  /\ pc[p] \in {"idle", "done"}
  /\ Begin(p, "ping")
  /\ redisCheck' = [redisCheck EXCEPT ![p] = "none"]
  /\ queueCheck' = [queueCheck EXCEPT ![p] = "none"]
  /\ UNCHANGED <<answer, body, queueLink, queued>>

\* checkRedis: the PING.  checkQueue follows, whatever the result.
CheckRedis(p) ==
  /\ pc[p] = "ping" /\ Settled(p)
  /\ redisCheck' = [redisCheck EXCEPT ![p] = Status(p)]
  /\ Issue(p)
  /\ Goto(p, "get")
  /\ UNCHANGED <<queueCheck, answer, body, queueLink, queued, sawEnd>>

\* checkQueue: a GET, by the same client as the PING.
CheckQueue(p) ==
  /\ pc[p] = "get" /\ Settled(p)
  /\ queueCheck' = [queueCheck EXCEPT ![p] = Status(p)]
  /\ Goto(p, "done")
  /\ UNCHANGED <<connectionVars, redisCheck, answer, body, queueLink, queued, sawEnd>>

\* healthCheck: the overall status.
Healthy(p) == redisCheck[p] = "up" /\ queueCheck[p] = "up"

-----------------------------------------------------------------------------
(* POST /notifications/send. *)

Respond(q, code) == /\ answer' = [answer EXCEPT ![q] = code]
                    /\ Goto(q, "done")

Receive(q) ==
  \E b \in SomeBodies :
    /\ pc[q] = "idle"
    /\ body' = [body EXCEPT ![q] = b]
    /\ \/ Passes(b) /\ Begin(q, "check") /\ UNCHANGED answer
       \/ ~Passes(b) /\ Respond(q, 400) /\ UNCHANGED <<connectionVars, sawEnd>>
    /\ UNCHANGED <<redisCheck, queueCheck, queueLink, queued>>

\* The rate limit and the idempotency key let the request pass, or answer it.
Check(q) ==
  /\ pc[q] = "check" /\ Settled(q)
  /\ \/ command[q] = "fulfilled" /\ Goto(q, "add") /\ UNCHANGED answer
     \/ command[q] = "fulfilled" /\ \E code \in {202, 429} : Respond(q, code)
     \/ command[q] \in {"refused", "rejected"} /\ Respond(q, 500)
  /\ UNCHANGED <<connectionVars, redisCheck, queueCheck, body, queueLink, queued,
                 sawEnd>>

\* Mutant of Enqueue: a rejected check does not keep the request from the queue.
EnqueueUnchecked(q) ==
  /\ \/ pc[q] = "add"
     \/ pc[q] = "check" /\ command[q] \in {"refused", "rejected"}
  /\ queueLink = "up" /\ queued' = queued \cup {q}
  /\ Issue(q) /\ Goto(q, "store")
  /\ UNCHANGED <<answer, redisCheck, queueCheck, body, queueLink, sawEnd>>

\* queue.add waits while BullMQ has no connection, and rejects after many retries.
Enqueue(q) ==
  /\ pc[q] = "add"
  /\ \/ /\ queueLink = "up" /\ queued' = queued \cup {q}
        /\ Issue(q) /\ Goto(q, "store") /\ UNCHANGED answer
     \/ queueLink = "down" /\ Respond(q, 500) /\ UNCHANGED <<connectionVars, queued>>
  /\ UNCHANGED <<redisCheck, queueCheck, body, queueLink, sawEnd>>

Store(q) ==
  /\ pc[q] = "store" /\ Settled(q)
  /\ Respond(q, IF command[q] = "fulfilled" THEN 202 ELSE 500)
  /\ UNCHANGED <<connectionVars, redisCheck, queueCheck, body, queueLink, queued,
                 sawEnd>>

-----------------------------------------------------------------------------
\* BullMQ's connection comes and goes on its own.
QueueLinkChanges == /\ queueLink' = IF queueLink = "up" THEN "down" ELSE "up"
                    /\ UNCHANGED <<connectionVars, processVars>>

Probe(p) == CheckRedis(p) \/ CheckQueue(p)

Post(q) == Check(q) \/ Enqueue(q) \/ Store(q)

Next == \/ ConnectionNext /\ UNCHANGED <<processVars, queueLink>>
        \/ \E p \in Probes : BeginProbe(p) \/ Probe(p)
        \/ \E q \in Posts : Receive(q) \/ Post(q)
        \/ QueueLinkChanges

Spec == Init /\ [][Next]_vars

\* Redis answers, an attempt to connect ends one way or the other, and Node runs
\* the continuation of a promise that has settled.
Fairness ==
  /\ \A x \in Callers :
       WF_vars((Execute(x) \/ Reply(x)) /\ UNCHANGED <<processVars, queueLink>>)
  /\ WF_vars((ConnectFails \/ ConnectionReady) /\ UNCHANGED <<processVars, queueLink>>)
  /\ \A p \in Probes : WF_vars(Probe(p))
  /\ \A q \in Posts : WF_vars(Post(q))

FairSpec == Spec /\ Fairness
-----------------------------------------------------------------------------
(* Properties. *)

\* A health probe that reports Redis or the queue "down" has been refused by a Redis
\* that answered, which may pass, or has seen the client give up, which does not: a
\* lost connection is never reported while the client still tries to get it back.
\* (retryStrategy, maxRetriesPerRequest and the two catch blocks together: the
\* flush of waiting commands must not come before the end.)
ClosedIsFinal ==
  \A p \in Probes : "closed" \in {redisCheck[p], queueCheck[p]} => link = "end"

\* Once the client has given up every later probe says so.
EndIsReported ==
  \A p \in Probes \cap sawEnd : pc[p] = "done" => ~Healthy(p)

\* A request that arrives after the client has given up is not queued although
\* queue.add would still work, and a body the pipe refuses touches nothing.
NothingAddedInVain ==
  \A q \in Posts : q \in sawEnd \/ answer[q] = 400 => q \notin queued /\ answer[q] # 202

\* What is queued for e-mail has an address and a subject.
EmailIsAddressed ==
  \A q \in queued :
    body[q].channel = "email" => /\ body[q].recipient = "mail"
                                 /\ Converted(body[q].subject) \in {"uuid", "mail", "text"}

\* Every probe and every request is answered, however long Redis is away: only a
\* connection that comes and goes for ever keeps one waiting, as each new
\* connection resets the count of attempts.
EveryCallAnswered ==
  \A x \in Callers : \/ (pc[x] \notin {"idle", "done"} ~> pc[x] = "done")
                     \/ []<>(link = "ready") /\ []<>(link = "connecting")
=============================================================================
