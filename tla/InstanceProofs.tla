---------------------------- MODULE InstanceProofs ----------------------------
(***************************************************************************)
(* Proofs about one process of the gateway: what its health probes tell of *)
(* its Redis client, for every number of retries for which waiting         *)
(* commands are not flushed before the end, and what it adds to the queue. *)
(***************************************************************************)
EXTENDS ServiceInstance, TLAPS

-----------------------------------------------------------------------------
\* Types, and the client gives up as soon as its attempts are used up.
Typed == InstanceTypeOK /\ (link # "end" => retryAttempts <= MaxReconnects)

\* A command that the client rejects is rejected by the end.
RejectedAtEnd == \A x \in Callers : command[x] = "rejected" => link = "end"

\* Who begins after the end gets no command fulfilled.
SawEnd ==
  /\ \A x \in sawEnd : link = "end" /\ command[x] = "rejected"
  /\ \A p \in Probes \cap sawEnd :
       pc[p] \in {"ping", "get", "done"} /\ (pc[p] # "ping" => redisCheck[p] = "closed")
  /\ \A q \in Posts \cap sawEnd :
       pc[q] \in {"check", "done"} /\ q \notin queued /\ answer[q] # 202

\* Only requests whose body passed go on.
Admitted ==
  /\ \A p \in Probes : pc[p] \in {"idle", "ping", "get", "done"}
  /\ \A q \in Posts : pc[q] \in {"check", "add", "store"} => Passes(body[q])
  /\ \A q \in queued : pc[q] \in {"store", "done"} /\ Passes(body[q])
  /\ \A q \in Posts : answer[q] # 0 => pc[q] = "done"
  /\ \A q \in Posts : pc[q] = "idle" => q \notin sawEnd
  /\ \A q \in Posts : answer[q] = 400 => q \notin queued

InstanceInv == Typed /\ RejectedAtEnd /\ ClosedIsFinal /\ SawEnd /\ Admitted

\* The process starts unconnected, with nothing under way.
LEMMA InstanceInit == Init => InstanceInv
BY RetryAssumption, CallersAssumption
   DEF Init, ConnectionInit, InstanceInv, Typed, InstanceTypeOK, Checks, ConnectionTypeOK,
       CommandStates, RejectedAtEnd, ClosedIsFinal, SawEnd, Admitted

\* Before the end no attempt has a number at which waiting commands are flushed.
LEMMA NoEarlyFlush ==
  ASSUME NEW n \in 1..MaxReconnects
  PROVE  ~Flushes(n)
BY RetryAssumption, FlushAssumption DEF Flushes

\* The connection keeps its part of the invariant, and once ended it stays so.
LEMMA ConnectionStep ==
  ASSUME InstanceInv, ConnectionNext
  PROVE  /\ ConnectionTypeOK'
         /\ link' # "end" => retryAttempts' <= MaxReconnects
         /\ RejectedAtEnd'
         /\ link = "end" => link' = "end"
         /\ \A x \in Callers : command[x] = "rejected" => command'[x] = "rejected"
<1>a. /\ ConnectionTypeOK /\ RejectedAtEnd
      /\ link # "end" => retryAttempts <= MaxReconnects
  BY DEF InstanceInv, Typed, InstanceTypeOK
<1> USE <1>a, RetryAssumption DEF ConnectionTypeOK, RejectedAtEnd, CommandStates
<1>1. CASE \E x \in Callers : Execute(x) \/ Reply(x)
  BY <1>1 DEF Execute, Reply
<1>2. CASE ConnectionReady
  BY <1>2 DEF ConnectionReady, Become
<1>3. CASE link # "end" /\ Close
  <2>1. retryAttempts' \in 1..(MaxReconnects + 1)
    BY <1>3 DEF Close
  <2>2. CASE retryAttempts' > MaxReconnects
    BY <1>3, <2>1, <2>2 DEF Close, GivesUp, Become
  <2>3. CASE retryAttempts' \in 1..MaxReconnects
    <3>1. ~GivesUp(retryAttempts') /\ ~Flushes(retryAttempts')
      BY <2>3, NoEarlyFlush DEF GivesUp
    <3>2. link' = "connecting" /\ Become({"sent", "executed"}, "resend")
      BY <1>3, <3>1 DEF Close
    <3>3. QED
      BY <1>3, <2>3, <3>2 DEF Become
  <2>4. QED
    BY <2>1, <2>2, <2>3
<1>4. QED
  BY <1>1, <1>2, <1>3 DEF ConnectionNext, ConnectionBreaks, ConnectFails

\* Issuing a command: after the end it is rejected at once.
LEMMA IssueStep ==
  ASSUME ConnectionTypeOK, RejectedAtEnd, NEW x \in Callers, Issue(x)
  PROVE  /\ ConnectionTypeOK' /\ RejectedAtEnd'
         /\ UNCHANGED <<link, retryAttempts>>
         /\ link = "end" => command'[x] = "rejected"
         /\ \A y \in Callers \ {x} : command'[y] = command[y]
BY DEF Issue, Issued, ConnectionTypeOK, RejectedAtEnd, CommandStates

\* Every step of the process keeps the invariant.
LEMMA InstanceStep == InstanceInv /\ [Next]_vars => InstanceInv'
<1> SUFFICES ASSUME InstanceInv, [Next]_vars PROVE InstanceInv'
  OBVIOUS
<1>a. Probes \subseteq Callers /\ Posts \subseteq Callers /\ Probes \cap Posts = {}
  BY CallersAssumption
<1> USE <1>a DEF InstanceInv, Typed, InstanceTypeOK, Checks, ClosedIsFinal, SawEnd, Admitted
<1>1. CASE ConnectionNext /\ UNCHANGED <<processVars, queueLink>>
  BY <1>1, ConnectionStep DEF processVars
<1>2. ASSUME NEW p \in Probes, BeginProbe(p) PROVE InstanceInv'
  BY <1>2, IssueStep DEF BeginProbe, Begin, Goto
<1>3. ASSUME NEW p \in Probes, CheckRedis(p) PROVE InstanceInv'
  BY <1>3, IssueStep DEF CheckRedis, Settled, Status, Goto, RejectedAtEnd
<1>4. ASSUME NEW p \in Probes, CheckQueue(p) PROVE InstanceInv'
  BY <1>4 DEF CheckQueue, Settled, Status, Goto, RejectedAtEnd, connectionVars,
              ConnectionTypeOK
<1>5. ASSUME NEW q \in Posts, Receive(q) PROVE InstanceInv'
  BY <1>5, IssueStep DEF Receive, Begin, Respond, Goto, RejectedAtEnd, connectionVars,
              ConnectionTypeOK
<1>6. ASSUME NEW q \in Posts, Check(q) PROVE InstanceInv'
  BY <1>6 DEF Check, Respond, Settled, Goto, RejectedAtEnd, connectionVars,
              ConnectionTypeOK
<1>7. ASSUME NEW q \in Posts, Enqueue(q) PROVE InstanceInv'
  BY <1>7, IssueStep DEF Enqueue, Respond, Goto, RejectedAtEnd, connectionVars,
              ConnectionTypeOK
<1>8. ASSUME NEW q \in Posts, Store(q) PROVE InstanceInv'
  BY <1>8 DEF Store, Respond, Settled, Goto, RejectedAtEnd, connectionVars,
              ConnectionTypeOK
<1>9. CASE QueueLinkChanges
  BY <1>9 DEF QueueLinkChanges, processVars, connectionVars, ConnectionTypeOK,
              RejectedAtEnd
<1>10. CASE UNCHANGED vars
  BY <1>10 DEF vars, processVars, connectionVars, ConnectionTypeOK, RejectedAtEnd
<1>11. QED
  BY <1>1, <1>2, <1>3, <1>4, <1>5, <1>6, <1>7, <1>8, <1>9, <1>10
     DEF Next, Probe, Post

\* InstanceInv holds in every reachable state.
THEOREM InstanceInvAlways == Spec => []InstanceInv
BY InstanceInit, InstanceStep, PTL DEF Spec

-----------------------------------------------------------------------------
\* Types of the process and its connection.
THEOREM InstanceTypeCorrect == Spec => []InstanceTypeOK
<1>1. InstanceInv => InstanceTypeOK
  BY DEF InstanceInv, Typed
<1>2. QED
  BY InstanceInvAlways, <1>1, PTL

\* A check that is down without a refusal by Redis is one of a client that has given
\* up for good.
THEOREM ClosedForGood == Spec => []ClosedIsFinal
<1>1. InstanceInv => ClosedIsFinal
  BY DEF InstanceInv
<1>2. QED
  BY InstanceInvAlways, <1>1, PTL

\* A client that has given up is reported by every probe that begins later.
THEOREM EndReported == Spec => []EndIsReported
<1>1. InstanceInv => EndIsReported
  BY DEF InstanceInv, SawEnd, EndIsReported, Healthy
<1>2. QED
  BY InstanceInvAlways, <1>1, PTL

\* Neither a request that meets a client that has given up nor one with a body the
\* pipe refuses reaches the queue.
THEOREM NothingInVain == Spec => []NothingAddedInVain
<1>1. InstanceInv => NothingAddedInVain
  BY DEF InstanceInv, SawEnd, Admitted, NothingAddedInVain
<1>2. QED
  BY InstanceInvAlways, <1>1, PTL

\* The validators that ValidateIf leaves on vouch for every e-mail in the queue.
THEOREM EmailsAddressed == Spec => []EmailIsAddressed
<1>1. InstanceInv => EmailIsAddressed
  <2> SUFFICES ASSUME InstanceInv, NEW q \in queued, body[q].channel = "email"
               PROVE  /\ body[q].recipient = "mail"
                      /\ Converted(body[q].subject) \in {"uuid", "mail", "text"}
    BY DEF EmailIsAddressed
  <2>1. body[q] \in Bodies /\ Passes(body[q])
    BY BodiesAssumption
       DEF InstanceInv, Typed, InstanceTypeOK, Admitted, NoBody, Bodies, Values, Strings
  <2>2. /\ Dto(body[q]).channel = Converted(body[q].channel)
        /\ Dto(body[q]).recipient = Converted(body[q].recipient)
        /\ Dto(body[q]).subject = Converted(body[q].subject)
    BY <2>1 DEF Bodies, Dto
  <2>3. Converted(body[q].channel) = "email"
    BY DEF Converted
  <2>4. QED
    BY <2>1, <2>2, <2>3
       DEF Passes, Validators, OnlyForEmail, IsGivenText, IsNotEmpty, Converted, Strings
<1>2. QED
  BY InstanceInvAlways, <1>1, PTL
=============================================================================
