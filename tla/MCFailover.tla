----------------------------- MODULE MCFailover -----------------------------
(***************************************************************************)
(* The shipped providers with FORCE_PRIMARY_FAILURE on one channel, the    *)
(* same providers with arbitrary outcomes on another, as the unit tests    *)
(* mock them, and a channel nobody serves.                                 *)
(***************************************************************************)
EXTENDS ProviderFailover, MockProviders

CONSTANTS Other, Backup, s1, s2

\* A third provider for SMS, better than the shipped ones.
AllProviders == MockProviderSet \cup {Backup}

AllChannels == {Email, Sms, Push, Other}

Serves == (Backup :> Sms) @@ MockServes

Priority == (Backup :> 0) @@ MockPriority

Moody == [p \in AllProviders |->
            IF Serves[p] = Sms THEN Outcomes ELSE MockBehaviour[p]]

NoRequest == [r \in {} |-> r]

Interchangeable == Permutations({s1, s2})
=============================================================================
