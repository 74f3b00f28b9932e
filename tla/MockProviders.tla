---------------------------- MODULE MockProviders ----------------------------
(***************************************************************************)
(* The six providers the gateway ships with (mock-providers.service.ts),   *)
(* as values for the constants of ProviderFailover.  A mock waits, then    *)
(* fails with probability failureRate and always with a retryable          *)
(* ProviderException; only failure rates 0 and 1 are configured.           *)
(***************************************************************************)
EXTENDS Naturals

CONSTANTS PrimaryEmail, FallbackEmail, PrimarySms, FallbackSms,
          PrimaryPush, FallbackPush, Email, Sms, Push,
          ForcePrimaryFailure   \* process.env.FORCE_PRIMARY_FAILURE === 'true'

ASSUME ForceAssumption == ForcePrimaryFailure \in BOOLEAN

Primaries == {PrimaryEmail, PrimarySms, PrimaryPush}

MockProviderSet == Primaries \cup {FallbackEmail, FallbackSms, FallbackPush}

MockServes == [p \in MockProviderSet |->
                 CASE p \in {PrimaryEmail, FallbackEmail} -> Email
                   [] p \in {PrimarySms, FallbackSms}     -> Sms
                   [] p \in {PrimaryPush, FallbackPush}   -> Push]

MockPriority == [p \in MockProviderSet |-> IF p \in Primaries THEN 1 ELSE 2]

\* The failureRate each constructor passes to BaseMockProvider.
FailureRate(p) == IF p \in Primaries /\ ForcePrimaryFailure THEN 1 ELSE 0

\* BaseMockProvider.send: Math.random() < failureRate decides.
MockBehaviour == [p \in MockProviderSet |->
                    IF FailureRate(p) = 1 THEN {"retryable"} ELSE {"ok"}]
=============================================================================
