------------------------------ MODULE MCGateway ------------------------------
(***************************************************************************)
(* Small instances of the gateway for TLC.                                 *)
(***************************************************************************)
EXTENDS GatewayProperties

CONSTANTS u1, k1, k2, r1, r2, r3, email, push, p1, p2, s1, s2, i1, i2

\* One user, one key, one channel: every request is a duplicate of the others.
OneUser  == [r \in Requests |-> u1]
OneKey   == [r \in Requests |-> k1]
AllEmail == [r \in Requests |-> email]
TwoKeys  == [r \in Requests |-> IF r = r3 THEN k2 ELSE k1]

\* Two instances, each with a processor.
TwoHosts == [x \in Requests \cup Slots |->
               IF x \in {r3, s2} THEN i2 ELSE i1]

\* Without crashes the instance makes no difference.
OneHost == [x \in Requests \cup Slots |-> i1]

\* Slots of one host are interchangeable, and so are duplicates of one request.
Interchangeable == Permutations({s1, s2}) \cup Permutations({r1, r2})

\* Either provider serves the channel or fails in a way the next one may mend.
\* What an answer that cannot be mended changes is the failover module's runs.
Serves   == [p \in Providers |-> email]
Priority == [p \in Providers |-> IF p = p1 THEN 1 ELSE 2]
Moody    == [p \in Providers |-> {"ok", "retryable"}]
=============================================================================
