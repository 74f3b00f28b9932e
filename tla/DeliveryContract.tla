--------------------------- MODULE DeliveryContract ---------------------------
(***************************************************************************)
(* The gateway as its clients see it: what becomes of the notification of  *)
(* each idempotency key, and what each request has been told about it.     *)
(* There is no cache, no queue and no instance here.  A client is never    *)
(* told more than has become of its key, and may be told less.             *)
(***************************************************************************)
EXTENDS GatewayData

VARIABLES status,   \* what has become of the notification of a key
          told      \* what the client of a request was told

contractVars == <<status, told>>

Statuses == {"none", "pending", "delivered", "givenUp"}

\* blank is the 202 without a body of a duplicate that found the placeholder.
Verdicts == {"nothing", "refused", "blank", "accepted", "failed", "sent"}

ContractTypeOK == /\ status \in [Keys -> Statuses]
                  /\ told \in [Requests -> Verdicts]

ContractInit == /\ status = [k \in Keys |-> "none"]
                /\ told = [r \in Requests |-> "nothing"]

Become(k, s) == UNCHANGED told /\ status' = [status EXCEPT ![k] = s]

\* A key is taken into the queue: the first time, or again after a failed job has
\* been removed.
Undertake(k) == status[k] \in {"none", "givenUp"} /\ Become(k, "pending")

\* A processor that has lost its lock may deliver what was given up.
Deliver(k) == status[k] \in {"pending", "givenUp"} /\ Become(k, "delivered")

GiveUp(k) == status[k] = "pending" /\ Become(k, "givenUp")

\* What the status of a key allows to say of it.
Warranted(verdict, s) ==
  CASE verdict \in {"accepted", "failed"} -> s # "none"
    [] verdict = "sent"                   -> s = "delivered"
    [] OTHER                              -> TRUE

Tell(r) == /\ told[r] = "nothing"
           /\ UNCHANGED status
           /\ \E v \in Verdicts : /\ Warranted(v, status[KeyOf[r]])
                                  /\ told' = [told EXCEPT ![r] = v]

ContractNext == \/ \E k \in Keys : Undertake(k) \/ Deliver(k) \/ GiveUp(k)
                \/ \E r \in Requests : Tell(r)

ContractSpec == ContractInit /\ [][ContractNext]_contractVars
=============================================================================
