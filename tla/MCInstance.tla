------------------------------ MODULE MCInstance ------------------------------
(***************************************************************************)
(* A small instance of ServiceInstance for TLC.                            *)
(***************************************************************************)
EXTENDS ServiceInstance

CONSTANTS h1, q1

Mail == [idempotencyKey |-> "uuid", userId |-> "text", channel |-> "email",
         recipient |-> "mail", subject |-> "text", message |-> "text",
         extra |-> FALSE]

\* Bodies with one or two properties other than expected.
AllBodies ==
  {Mail, [Mail EXCEPT !.extra = TRUE], [Mail EXCEPT !.channel = "text"]}
    \cup {[Mail EXCEPT ![f] = v] : f \in DOMAIN Mail \ {"channel", "extra"}, v \in Values}
    \cup {[Mail EXCEPT !.channel = "sms", !.recipient = v] : v \in Values}
=============================================================================
