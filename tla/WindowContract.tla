---------------------------- MODULE WindowContract ----------------------------
(***************************************************************************)
(* The sliding window together with its users: a request is checked, and   *)
(* if it is allowed it may be recorded.  This is the rate limiter the      *)
(* gateway model relies on: the check looks at the window in one step,     *)
(* nothing but the recording adds to it, and time only takes away.         *)
(***************************************************************************)
EXTENDS SlidingWindow

VARIABLE verdict      \* what became of a request

Verdicts == {"none", "allowed", "limited", "recorded", "dropped"}

ContractInit == WindowInit /\ verdict = [r \in Requests |-> "none"]

Decide(r, v) == verdict' = [verdict EXCEPT ![r] = v]

Aging == window' \in [Users -> SUBSET Requests]
           /\ \A u \in Users : window'[u] \subseteq window[u]

\* The check may find that the window has moved on.
Check(r) == /\ verdict[r] = "none"
            /\ Aging
            /\ \A u \in Users \ {UserOf[r]} : window'[u] = window[u]
            /\ Decide(r, IF Cardinality(window'[UserOf[r]]) < Limit THEN "allowed" ELSE "limited")

\* Between the check and the recording the window may have filled up.
RecordAllowed(r) == /\ verdict[r] = "allowed"
                    /\ RecordRequest(UserOf[r], r)
                    /\ Decide(r, "recorded")

\* A request that is a duplicate, or whose handler fails, is not recorded.
Drop(r) == /\ verdict[r] # "recorded"
           /\ Decide(r, "dropped")
           /\ UNCHANGED window

ContractNext == \/ \E r \in Requests : Check(r) \/ RecordAllowed(r) \/ Drop(r)
                \/ Aging /\ UNCHANGED verdict

ContractSpec == ContractInit /\ [][ContractNext]_<<window, verdict>>
=============================================================================
