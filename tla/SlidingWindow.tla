--------------------------- MODULE SlidingWindow ---------------------------
(***************************************************************************)
(* What the rate limiter promises, seen from the controller: per user, the *)
(* set of requests recorded during the last window.  Time is abstracted to *)
(* Slide, which drops requests that have grown older than the window.      *)
(* Module RateLimiter models the sorted set, the clock and the separate    *)
(* Redis commands behind these operations.                                 *)
(***************************************************************************)
EXTENDS RequestData, Naturals, FiniteSets

CONSTANT Limit        \* RATE_LIMIT_PER_MINUTE

ASSUME LimitAssumption == Limit \in Nat

VARIABLE window

WindowTypeOK == window \in [Users -> SUBSET Requests]

WindowInit == window = [u \in Users |-> {}]

\* checkRateLimit counts without recording.
Allowed(u) == Cardinality(window[u]) < Limit

\* recordRequest adds the entry without looking at the count.
RecordRequest(u, r) == window' = [window EXCEPT ![u] = @ \cup {r}]

\* Requests leave the window as they age, and all at once when the key expires.
Slide(u) == /\ window[u] # {}
            /\ \E young \in SUBSET window[u] :
                 window' = [window EXCEPT ![u] = young]
=============================================================================
