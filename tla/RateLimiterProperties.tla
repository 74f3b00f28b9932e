------------------------ MODULE RateLimiterProperties ------------------------
(***************************************************************************)
(* What the sliding window guarantees although the check and the recording *)
(* of a request are separate steps, and what it does not.                  *)
(***************************************************************************)
EXTENDS RateLimiter

\* Requests whose entry was put into the sorted set, with score now[r].
RecordedOf(u) == {r \in RequestsOf(u) : pc[r] \in {"expire", "trim", "recorded"}}

\* The requests recorded in the window that ends now, whatever has become of their
\* entries since; a reset of the limit is the only pardon.
InWindow(u) == {r \in RecordedOf(u) \ pardoned : now[r] > clock - Window}

EntryOf(r) == [req |-> r, at |-> now[r]]

\* Those of them that no longer count: the key reached an older TTL before any
\* EXPIRE had covered their entry, because recordRequest broke off between its
\* ZADD and its EXPIRE, or the EXPIRE came too late.
Forgotten(u) == {r \in InWindow(u) \ refreshed :
                   pc[r] = "recorded" /\ EntryOf(r) \notin zset[u]}

\* However checks, recordings, aborts and expiries interleave, a user exceeds the
\* limit only by the requests that were being handled at the same time and by
\* those that were forgotten: in any window, recorded and admitted requests
\* together never exceed Limit - 1 + MaxInFlight and the forgotten ones.
\* (checkRateLimit counts, recordRequest adds later, in two commands.)
AdmissionBound ==
  \A u \in Users :
    Cardinality(InWindow(u)) + Cardinality(Admitted(u))
      <= Limit - 1 + MaxInFlight + Cardinality(Forgotten(u))

\* What is forgotten can double a window, and no more: the key is given more than a
\* window to live whenever it is covered, so that it expires once in a window at
\* most.  Handled one at a time, a user's requests stay below twice the limit.
ForgetsOncePerWindow ==
  \A u \in Users :
    Cardinality(InWindow(u)) + Cardinality(Admitted(u))
      <= 2 * (Limit - 1 + MaxInFlight)

\* A request is only denied when Limit requests of its user were recorded later
\* than a window before its check began: pruning is neither late nor lax.
NoSpuriousDenial ==
  \A r \in Requests :
    pc[r] \in {"oldest", "denied"} =>
      Cardinality({q \in RecordedOf(UserOf[r]) : now[q] > now[r] - Window}) >= Limit

\* An entry that some EXPIRE has covered is not lost while it counts: neither the
\* TTL of the key nor a prune with a stale time removes it.
CoveredEntriesSurvive ==
  \A r \in refreshed :
    now[r] > clock - Window => EntryOf(r) \in zset[UserOf[r]]

\* The sorted set, its scores and its TTL are only a way to keep the window.
VerdictOn(r) == CASE pc[r] \in {"idle", "eval"}                -> "none"
                  [] pc[r] \in {"admitted", "zadd"}            -> "allowed"
                  [] pc[r] \in {"oldest", "denied"}            -> "limited"
                  [] pc[r] \in {"expire", "trim", "recorded"}  -> "recorded"
                  [] pc[r] = "gone"                            -> "dropped"

Contract == INSTANCE WindowContract
              WITH window  <- [u \in Users |-> {e.req : e \in zset[u]}],
                   verdict <- [r \in Requests |-> VerdictOn(r)]

\* The Redis commands implement the window the gateway model uses: the script
\* decides on what it leaves in the set, an entry never replaces another one, and
\* no command adds to the set but the ZADD of an allowed request.
ImplementsWindow == Contract!ContractSpec

\* When a user's requests do not overlap, the retryAfter of a 429 is honest when
\* it is sent: at least a second and at most the window, and after it fewer than
\* Limit of the requests recorded so far are left.  (What is recorded later, for
\* instance after a reset of the limit, may of course be in the way.)
HonestRetryAfter ==
  [][MaxInFlight = 1 =>
       \A r \in Requests :
         pc[r] = "oldest" /\ pc'[r] = "denied" =>
           LET retryAt == now[r] + resetIn'[r] * TicksPerSecond
           IN /\ resetIn'[r] \in 1..CeilSeconds(Window)
              /\ Cardinality(Within(zset[UserOf[r]], retryAt)) < Limit]_vars

\* "Per-User Rate Limiting: Redis-based sliding window (10 requests/minute)"
\* (README.md:10): never more than Limit requests of a user are recorded in one
\* window.  Neither true of requests that overlap nor of forgotten ones.
LimitRespected == \A u \in Users : Cardinality(InWindow(u)) <= Limit
=============================================================================
