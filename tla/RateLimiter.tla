---------------------------- MODULE RateLimiter ----------------------------
(***************************************************************************)
(* RateLimitService in detail: the sorted set of a user, its time to live, *)
(* the clock, and the Redis commands of checkRateLimit and recordRequest   *)
(* as the separate steps they are.  Each method reads Date.now() before    *)
(* its first await, so a command may use a time that has already passed.   *)
(* All instances share one clock here.                                     *)
(***************************************************************************)
EXTENDS RequestData, Integers, FiniteSets

CONSTANTS Limit,           \* RATE_LIMIT_PER_MINUTE
          Window,          \* windowSizeSeconds, in clock ticks
          Grace,           \* the 10 s recordRequest adds to the key's TTL
          TicksPerSecond,
          NoTTL, NoTime,
          MaxInFlight,     \* requests of one user being handled at once
          MaxTime          \* a bound on the clock for the checks

ASSUME RateAssumption ==
  /\ Limit \in Nat \ {0} /\ Window \in Nat \ {0} /\ Grace \in Nat
  /\ TicksPerSecond \in Nat \ {0}
  /\ MaxInFlight \in Nat /\ MaxTime \in Nat
  /\ NoTTL \notin Nat /\ NoTime \notin Nat

VARIABLES clock,
          zset,       \* notify:ratelimit:<user>, entries with their scores
          expireAt,   \* when that key expires
          pc,         \* the next command of the handler of a request
          now,        \* the Date.now() its current method has read
          resetIn,    \* the retryAfter of a 429
          refreshed,  \* observed: requests whose entry an EXPIRE has covered
          pardoned    \* observed: requests whose entry a reset has deleted

vars == <<clock, zset, expireAt, pc, now, resetIn, refreshed, pardoned>>

Entries == [req : Requests, at : Nat]

Steps == {"idle", "eval", "oldest", "denied", "admitted", "zadd", "expire",
          "trim", "recorded", "gone"}

TypeOK == /\ clock \in Nat
          /\ zset \in [Users -> SUBSET Entries]
          /\ expireAt \in [Users -> Nat \cup {NoTTL}]
          /\ pc \in [Requests -> Steps]
          /\ now \in [Requests -> Nat \cup {NoTime}]
          /\ resetIn \in [Requests -> Nat]
          /\ refreshed \in SUBSET Requests
          /\ pardoned \in SUBSET Requests

Init == /\ clock = 0
        /\ zset = [u \in Users |-> {}]
        /\ expireAt = [u \in Users |-> NoTTL]
        /\ pc = [r \in Requests |-> "idle"]
        /\ now = [r \in Requests |-> NoTime]
        /\ resetIn = [r \in Requests |-> 0]
        /\ refreshed = {}
        /\ pardoned = {}

InFlight(u) == {r \in RequestsOf(u) :
                  pc[r] \in {"eval", "oldest", "admitted", "zadd", "expire", "trim"}}

\* Checked and not yet in the sorted set.
Admitted(u) == {r \in RequestsOf(u) : pc[r] \in {"admitted", "zadd"}}

Goto(r, step) == pc' = [pc EXCEPT ![r] = step]

-----------------------------------------------------------------------------
(* Redis. *)

\* A sorted set that becomes empty is deleted, together with its TTL.
SetKey(u, entries, ttl) ==
  /\ zset' = [zset EXCEPT ![u] = entries]
  /\ expireAt' = [expireAt EXCEPT ![u] = IF entries = {} THEN NoTTL ELSE ttl]

\* Mutant of Within: the bound itself is kept.
WithinOrAt(entries, t) == {e \in entries : e.at >= t - Window}

\* ZREMRANGEBYSCORE key 0 (t - window): scores up to and including the bound.
Within(entries, t) == {e \in entries : e.at > t - Window}

Prune(u, t) == SetKey(u, Within(zset[u], t), expireAt[u])

\* Time passes; keys reach their TTL.
Tick == /\ clock < MaxTime
        /\ clock' = clock + 1
        /\ LET due == {u \in Users : expireAt[u] = clock + 1}
           IN /\ zset' = [u \in Users |-> IF u \in due THEN {} ELSE zset[u]]
              /\ expireAt' = [u \in Users |-> IF u \in due THEN NoTTL ELSE expireAt[u]]
        /\ UNCHANGED <<pc, now, resetIn, refreshed, pardoned>>

-----------------------------------------------------------------------------
(* checkRateLimit. *)

BeginCheck(r) ==
  /\ pc[r] = "idle"
  /\ Cardinality(InFlight(UserOf[r])) < MaxInFlight
  /\ Goto(r, "eval")
  /\ now' = [now EXCEPT ![r] = clock]
  /\ UNCHANGED <<clock, zset, expireAt, resetIn, refreshed, pardoned>>

\* Mutant of EvalCheck: > instead of >=.
EvalCheckOneMore(r) ==
  LET u == UserOf[r]
  IN /\ pc[r] = "eval"
     /\ Prune(u, now[r])
     /\ Goto(r, IF Cardinality(zset'[u]) > Limit THEN "oldest" ELSE "admitted")
     /\ UNCHANGED <<clock, now, resetIn, refreshed, pardoned>>

\* The Lua script: prune and count in one atomic step.
EvalCheck(r) ==
  LET u == UserOf[r]
  IN /\ pc[r] = "eval"
     /\ Prune(u, now[r])
     /\ Goto(r, IF Cardinality(zset'[u]) >= Limit THEN "oldest" ELSE "admitted")
     /\ UNCHANGED <<clock, now, resetIn, refreshed, pardoned>>

\* Mutant of CeilSeconds: rounded down.
FloorSeconds(t) == t \div TicksPerSecond

CeilSeconds(t) == -((-t) \div TicksPerSecond)

AtLeastOne(n) == IF n < 1 THEN 1 ELSE n

\* Another handler may have changed the set since the script ran.
SecondsToReset(u, t) ==
  IF zset[u] = {} THEN CeilSeconds(Window)
  ELSE LET oldest == CHOOSE e \in zset[u] : \A f \in zset[u] : e.at <= f.at
       IN CeilSeconds(oldest.at + Window - t)

FetchOldest(r) ==
  /\ pc[r] = "oldest"
  /\ resetIn' = [resetIn EXCEPT ![r] = AtLeastOne(SecondsToReset(UserOf[r], now[r]))]
  /\ Goto(r, "denied")
  /\ UNCHANGED <<clock, zset, expireAt, now, refreshed, pardoned>>

-----------------------------------------------------------------------------
(* The controller between the two methods, and recordRequest. *)

\* The request is a duplicate: it is answered from the cache, not recorded.
AnswerDuplicate(r) ==
  /\ pc[r] = "admitted"
  /\ Goto(r, "gone")
  /\ now' = [now EXCEPT ![r] = NoTime]
  /\ UNCHANGED <<clock, zset, expireAt, resetIn, refreshed, pardoned>>

BeginRecord(r) ==
  /\ pc[r] = "admitted"
  /\ Goto(r, "zadd")
  /\ now' = [now EXCEPT ![r] = clock]
  /\ UNCHANGED <<clock, zset, expireAt, resetIn, refreshed, pardoned>>

\* Mutant of ZAdd: the score is windowStart instead of now.
ZAddWindowStart(r) ==
  LET u == UserOf[r]
  IN /\ pc[r] = "zadd"
     /\ SetKey(u, zset[u] \cup {[req |-> r, at |-> now[r] - Window]}, expireAt[u])
     /\ Goto(r, "expire")
     /\ UNCHANGED <<clock, now, resetIn, refreshed, pardoned>>

\* Mutant of ZAdd: members are <now> alone.
ZAddByTime(r) ==
  LET u == UserOf[r]
      others == {e \in zset[u] : e.at # now[r]}
  IN /\ pc[r] = "zadd"
     /\ SetKey(u, others \cup {[req |-> r, at |-> now[r]]}, expireAt[u])
     /\ Goto(r, "expire")
     /\ UNCHANGED <<clock, now, resetIn, refreshed, pardoned>>

\* Members are <now>:<random>, so an entry never overwrites another.
ZAdd(r) ==
  LET u == UserOf[r]
  IN /\ pc[r] = "zadd"
     /\ SetKey(u, zset[u] \cup {[req |-> r, at |-> now[r]]}, expireAt[u])
     /\ Goto(r, "expire")
     /\ UNCHANGED <<clock, now, resetIn, refreshed, pardoned>>

\* Mutant of Expire: the time to live is the grace alone.
ExpireGraceOnly(r) ==
  LET u == UserOf[r]
  IN /\ pc[r] = "expire"
     /\ SetKey(u, zset[u], clock + Grace)
     /\ refreshed' = refreshed \cup {e.req : e \in zset[u]}
     /\ Goto(r, "trim")
     /\ UNCHANGED <<clock, now, resetIn, pardoned>>

\* EXPIRE does nothing when the key is gone.
Expire(r) ==
  LET u == UserOf[r]
  IN /\ pc[r] = "expire"
     /\ SetKey(u, zset[u], clock + Window + Grace)
     /\ refreshed' = refreshed \cup {e.req : e \in zset[u]}
     /\ Goto(r, "trim")
     /\ UNCHANGED <<clock, now, resetIn, pardoned>>

Trim(r) ==
  /\ pc[r] = "trim"
  /\ Prune(UserOf[r], now[r])
  /\ Goto(r, "recorded")
  /\ UNCHANGED <<clock, now, resetIn, refreshed, pardoned>>

\* The instance dies, or a command rejects and the client gets a 500.  A
\* command that was executed all the same is the step followed by this one.
Abort(r) ==
  /\ r \in InFlight(UserOf[r])
  /\ \/ pc[r] \in {"expire", "trim"} /\ Goto(r, "recorded") /\ UNCHANGED now
     \/ /\ pc[r] \notin {"expire", "trim"}
        /\ Goto(r, "gone")
        /\ now' = [now EXCEPT ![r] = NoTime]
  /\ UNCHANGED <<clock, zset, expireAt, resetIn, refreshed, pardoned>>

\* getCurrentCount prunes, by a time it has read some while ago.
GetCurrentCount(u) ==
  /\ \E t \in 0..clock : Prune(u, t)
  /\ UNCHANGED <<clock, pc, now, resetIn, refreshed, pardoned>>

\* resetRateLimit deletes the key.
ResetRateLimit(u) ==
  /\ SetKey(u, {}, NoTTL)
  /\ refreshed' = refreshed \ RequestsOf(u)
  /\ pardoned' = pardoned \cup {e.req : e \in zset[u]}
  /\ UNCHANGED <<clock, pc, now, resetIn>>

Next == \/ Tick
        \/ \E r \in Requests : \/ BeginCheck(r) \/ EvalCheck(r) \/ FetchOldest(r)
                               \/ AnswerDuplicate(r) \/ BeginRecord(r) \/ ZAdd(r)
                               \/ Expire(r) \/ Trim(r) \/ Abort(r)
        \/ \E u \in Users : GetCurrentCount(u) \/ ResetRateLimit(u)

Spec == Init /\ [][Next]_vars
=============================================================================
