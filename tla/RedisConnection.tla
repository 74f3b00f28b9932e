--------------------------- MODULE RedisConnection ---------------------------
(***************************************************************************)
(* The application's one Redis client (ioredis, an external library) as    *)
(* redis.module.ts configures it.  Commands issued without a connection    *)
(* wait in the client; commands whose connection breaks before their reply *)
(* are sent again by the next one; after MaxReconnects failed attempts in  *)
(* a row the client ends, for good.  A caller awaits one command at a      *)
(* time.  An attempt to connect is one step: its delay, the TCP connection *)
(* and the ready check (one that fails after TCP has connected is an       *)
(* attempt that fails: only ready resets the count).  The order of         *)
(* commands is left out.                                                   *)
(***************************************************************************)
EXTENDS Naturals

CONSTANTS Callers,
          MaxReconnects,          \* retryStrategy: times > 3
          MaxRetriesPerRequest

ASSUME RetryAssumption == /\ MaxReconnects \in Nat
                          /\ MaxRetriesPerRequest \in Nat

\* Both are 3 in the code: a lower maxRetriesPerRequest would reject commands of a
\* client that is still trying.
ASSUME FlushAssumption == MaxReconnects <= MaxRetriesPerRequest

VARIABLES link,            \* the connection
          retryAttempts,   \* attempts that failed since the connection last was ready
          command          \* the command a caller awaits

connectionVars == <<link, retryAttempts, command>>

\* queued: in the offline queue; sent: not executed yet; executed: the reply is on
\* its way; resend: unfulfilled when the connection broke.  The promise of a command
\* rejects with the reply of a Redis that refused it, or is rejected by the client.
CommandStates == {"none", "queued", "sent", "executed", "resend",
                  "fulfilled", "refused", "rejected"}

Outstanding == {"queued", "sent", "executed", "resend"}

ConnectionTypeOK == /\ link \in {"connecting", "ready", "end"}
                    /\ retryAttempts \in 0..(MaxReconnects + 1)
                    /\ command \in [Callers -> CommandStates]

\* lazyConnect is off: the client connects as the process starts.
ConnectionInit == /\ link = "connecting"
                  /\ retryAttempts = 0
                  /\ command = [x \in Callers |-> "none"]

Issued == CASE link = "ready"      -> "sent"
            [] link = "connecting" -> "queued"
            [] link = "end"        -> "rejected"

Issue(x) == /\ command' = [command EXCEPT ![x] = Issued]
            /\ UNCHANGED <<link, retryAttempts>>

Settled(x) == command[x] \in {"fulfilled", "refused", "rejected"}

Execute(x) == /\ command[x] = "sent"
              /\ command' = [command EXCEPT ![x] = "executed"]
              /\ UNCHANGED <<link, retryAttempts>>

\* The reply is a result or an error: a PING is refused while Redis cannot write to
\* its disk, and any command while a script is busy.
Reply(x) == \E outcome \in {"fulfilled", "refused"} :
              /\ command[x] = "executed"
              /\ command' = [command EXCEPT ![x] = outcome]
              /\ UNCHANGED <<link, retryAttempts>>

Become(from, to) ==
  command' = [x \in Callers |-> IF command[x] \in from THEN to ELSE command[x]]

\* Mutant of GivesUp: one attempt more.
GivesUpLater(times) == times > MaxReconnects + 1

\* retryStrategy: how often the client tries again.
GivesUp(times) == times > MaxReconnects

\* Mutant of Flushes: the modulus is MaxRetriesPerRequest.
FlushesEarly(times) == times % MaxRetriesPerRequest = 0

\* maxRetriesPerRequest: the attempts after which every waiting command is rejected.
Flushes(times) == times % (MaxRetriesPerRequest + 1) = 0

\* Mutant of Close: at the end only commands that were never sent are rejected.
CloseKeepsSent ==
  /\ retryAttempts' = retryAttempts + 1
  /\ IF GivesUp(retryAttempts')
       THEN link' = "end" /\ Become({"queued"}, "rejected")
       ELSE link' = "connecting" /\ Become({"sent", "executed"}, "resend")

\* The connection, or an attempt to connect, closes.
Close ==
  /\ retryAttempts' = retryAttempts + 1
  /\ IF GivesUp(retryAttempts')
       THEN link' = "end" /\ Become(Outstanding, "rejected")
       ELSE /\ link' = "connecting"
            /\ IF Flushes(retryAttempts') THEN Become(Outstanding, "rejected")
                                          ELSE Become({"sent", "executed"}, "resend")

ConnectionBreaks == link = "ready" /\ Close

ConnectFails == link = "connecting" /\ Close

\* Unfulfilled commands are sent again, then the offline queue.
ConnectionReady == /\ link = "connecting"
                   /\ link' = "ready"
                   /\ retryAttempts' = 0
                   /\ Become({"queued", "resend"}, "sent")

ConnectionNext == \/ \E x \in Callers : Execute(x) \/ Reply(x)
                  \/ ConnectionBreaks \/ ConnectFails \/ ConnectionReady
=============================================================================
