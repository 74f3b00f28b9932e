-------------------------- MODULE RateLimiterProofs --------------------------
(***************************************************************************)
(* Proofs about the rate limiter, for every number of users and requests,  *)
(* every limit, window, grace and length of a second, and every bound on   *)
(* the requests in flight and on the clock.                                *)
(***************************************************************************)
EXTENDS RateLimiterProperties, FiniteSetTheorems, TLAPS

-----------------------------------------------------------------------------
(* Arithmetic and finite sets. *)

\* A set of entries that is not empty has an oldest one.
LEMMA OldestExists ==
  ASSUME NEW S \in SUBSET Entries, S # {}
  PROVE  \E e \in S : \A f \in S : e.at <= f.at
<1> DEFINE Times == {e.at : e \in S}
           Less == {ss \in Nat \X Nat : ss[1] < ss[2]}
<1>1. Times \subseteq Nat /\ Times # {}
  BY DEF Entries
<1>2. IsWellFoundedOn(Less, Nat)
  BY NatLessThanWellFounded, Zenon DEF OpToRel
<1>3. PICK t \in Times : \A x \in Times : <<x, t>> \notin Less
  <2> HIDE DEF Times, Less
  <2> QED BY <1>1, <1>2, WFMin
<1>4. \A x \in Times : t <= x
  <2> HIDE DEF Times
  <2> SUFFICES ASSUME NEW x \in Times, x < t PROVE FALSE
    BY <1>1
  <2>1. x \in Nat /\ t \in Nat
    BY <1>1
  <2>2. <<x, t>> \in Less
    BY <2>1
  <2> QED
    BY <1>3, <2>2
<1>5. QED
  BY <1>1, <1>4 DEF Entries

\* A part of a set that has at most n elements has at most n elements.
LEMMA SubsetAtMost ==
  ASSUME NEW S, IsFiniteSet(S), NEW T \in SUBSET S, NEW n \in Int, Cardinality(S) <= n
  PROVE  Cardinality(T) <= n
BY FS_Subset, FS_CardinalityType

\* A union has no more elements than its parts together.
LEMMA UnionAtMost ==
  ASSUME NEW S, IsFiniteSet(S), NEW T, IsFiniteSet(T)
  PROVE  /\ IsFiniteSet(S \cup T)
         /\ Cardinality(S \cup T) \in Nat
         /\ Cardinality(S \cup T) <= Cardinality(S) + Cardinality(T)
<1>1. IsFiniteSet(S \cap T)
  BY FS_Subset
<1>2. /\ Cardinality(S \cap T) \in Nat /\ Cardinality(S) \in Nat
      /\ Cardinality(T) \in Nat
  BY <1>1, FS_CardinalityType
<1>3. /\ IsFiniteSet(S \cup T)
      /\ Cardinality(S \cup T) = Cardinality(S) + Cardinality(T) - Cardinality(S \cap T)
  BY FS_Union
<1>4. Cardinality(S \cup T) \in Nat
  BY <1>3, FS_CardinalityType
<1>5. QED
  BY <1>2, <1>3, <1>4

\* Parts that do not overlap add up.
LEMMA DisjointUnion ==
  ASSUME NEW S, IsFiniteSet(S), NEW T, IsFiniteSet(T), S \cap T = {}
  PROVE  Cardinality(S \cup T) = Cardinality(S) + Cardinality(T)
<1>1. Cardinality(S) \in Nat /\ Cardinality(T) \in Nat
  BY FS_CardinalityType
<1>2. Cardinality(S \cup T) = Cardinality(S) + Cardinality(T) - Cardinality({})
  BY FS_Union
<1>3. QED
  BY <1>1, <1>2, FS_EmptySet

\* Rounding up to whole seconds yields the least number of them that is enough.
LEMMA CeilSecondsBounds ==
  ASSUME NEW t \in Int
  PROVE  /\ CeilSeconds(t) \in Int
         /\ CeilSeconds(t) * TicksPerSecond >= t
         /\ CeilSeconds(t) * TicksPerSecond < t + TicksPerSecond
BY RateAssumption DEF CeilSeconds

\* A longer time is not fewer seconds.
LEMMA CeilSecondsMonotone ==
  ASSUME NEW t \in Int, NEW v \in Int, t <= v
  PROVE  CeilSeconds(t) <= CeilSeconds(v)
BY RateAssumption DEF CeilSeconds

\* A positive time is at least a second.
LEMMA CeilSecondsPositive ==
  ASSUME NEW t \in Nat \ {0}
  PROVE  CeilSeconds(t) >= 1
BY RateAssumption DEF CeilSeconds

-----------------------------------------------------------------------------
(* Types. *)

\* What a command writes keeps its type.
LEMMA SetKeyTyped ==
  ASSUME TypeOK, NEW u, NEW entries \in SUBSET Entries, NEW ttl \in Nat \cup {NoTTL},
         SetKey(u, entries, ttl)
  PROVE  zset' \in [Users -> SUBSET Entries] /\ expireAt' \in [Users -> Nat \cup {NoTTL}]
BY DEF TypeOK, SetKey

\* So does pruning.
LEMMA PruneTyped ==
  ASSUME TypeOK, NEW u \in Users, NEW t, Prune(u, t)
  PROVE  zset' \in [Users -> SUBSET Entries] /\ expireAt' \in [Users -> Nat \cup {NoTTL}]
<1>1. Within(zset[u], t) \in SUBSET Entries /\ expireAt[u] \in Nat \cup {NoTTL}
  BY DEF TypeOK, Within
<1>2. QED
  BY <1>1, SetKeyTyped DEF Prune

\* The wait a 429 announces is a number of seconds.
LEMMA SecondsToResetTyped ==
  ASSUME TypeOK, NEW u \in Users, NEW t \in Nat
  PROVE  SecondsToReset(u, t) \in Int
<1>1. CASE zset[u] = {}
  BY <1>1, CeilSecondsBounds, RateAssumption DEF SecondsToReset
<1>2. CASE zset[u] # {}
  <2> DEFINE oldest == CHOOSE e \in zset[u] : \A f \in zset[u] : e.at <= f.at
  <2>1. oldest \in zset[u]
    BY <1>2, OldestExists DEF TypeOK
  <2>2. oldest.at + Window - t \in Int
    <3> HIDE DEF oldest
    <3> QED
      BY <2>1, RateAssumption DEF TypeOK, Entries
  <2>3. SecondsToReset(u, t) = CeilSeconds(oldest.at + Window - t)
    BY <1>2 DEF SecondsToReset
  <2>4. QED
    BY <2>2, <2>3, CeilSecondsBounds
<1>3. QED
  BY <1>1, <1>2

\* A handler that is under way has read the clock, which never runs back.
Timely ==
  \A r \in Requests : pc[r] \notin {"idle", "gone"} => now[r] \in 0..clock

Typed == TypeOK /\ Timely

\* No clock has been read at first.
LEMMA TypedInit == Init => Typed
BY RateAssumption DEF Init, Typed, TypeOK, Timely, Steps

\* One step per action.
LEMMA TypedStep == Typed /\ [Next]_vars => Typed'
<1> SUFFICES ASSUME Typed, [Next]_vars PROVE Typed'
    OBVIOUS
<1> USE UserAssumption, RateAssumption DEF Typed, Timely
<1>1. CASE Tick
  <2>1. zset' \in [Users -> SUBSET Entries]
    BY <1>1 DEF Tick, TypeOK
  <2>2. expireAt' \in [Users -> Nat \cup {NoTTL}]
    BY <1>1 DEF Tick, TypeOK
  <2>3. QED
    BY <1>1, <2>1, <2>2 DEF Tick, TypeOK
<1>2. ASSUME NEW r \in Requests, BeginCheck(r) PROVE Typed'
  BY <1>2 DEF BeginCheck, Goto, TypeOK, Steps
<1>3. ASSUME NEW r \in Requests, EvalCheck(r) PROVE Typed'
  <2>1. zset' \in [Users -> SUBSET Entries] /\ expireAt' \in [Users -> Nat \cup {NoTTL}]
    BY <1>3, PruneTyped DEF EvalCheck
  <2>2. pc' \in [Requests -> Steps] /\ pc[r] = "eval"
    BY <1>3 DEF EvalCheck, Goto, TypeOK, Steps
  <2>3. QED
    BY <1>3, <2>1, <2>2 DEF EvalCheck, Goto, TypeOK
<1>4. ASSUME NEW r \in Requests, FetchOldest(r) PROVE Typed'
  <2>1. SecondsToReset(UserOf[r], now[r]) \in Int
    BY <1>4, SecondsToResetTyped DEF FetchOldest
  <2>2. resetIn' \in [Requests -> Nat]
    BY <1>4, <2>1 DEF FetchOldest, AtLeastOne, TypeOK
  <2>3. QED
    BY <1>4, <2>2 DEF FetchOldest, Goto, TypeOK, Steps
<1>5. ASSUME NEW r \in Requests, AnswerDuplicate(r) PROVE Typed'
  BY <1>5 DEF AnswerDuplicate, Goto, TypeOK, Steps
<1>6. ASSUME NEW r \in Requests, BeginRecord(r) PROVE Typed'
  BY <1>6 DEF BeginRecord, Goto, TypeOK, Steps
<1>7. ASSUME NEW r \in Requests, ZAdd(r) PROVE Typed'
  <2>1. /\ zset[UserOf[r]] \cup {[req |-> r, at |-> now[r]]} \in SUBSET Entries
        /\ expireAt[UserOf[r]] \in Nat \cup {NoTTL}
    BY <1>7 DEF ZAdd, TypeOK, Entries
  <2>2. zset' \in [Users -> SUBSET Entries] /\ expireAt' \in [Users -> Nat \cup {NoTTL}]
    BY <1>7, <2>1, SetKeyTyped DEF ZAdd
  <2>3. QED
    BY <1>7, <2>2 DEF ZAdd, Goto, TypeOK, Steps
<1>8. ASSUME NEW r \in Requests, Expire(r) PROVE Typed'
  <2>1. zset[UserOf[r]] \in SUBSET Entries /\ clock + Window + Grace \in Nat
    BY DEF TypeOK
  <2>2. zset' \in [Users -> SUBSET Entries] /\ expireAt' \in [Users -> Nat \cup {NoTTL}]
    BY <1>8, <2>1, SetKeyTyped DEF Expire
  <2>3. {e.req : e \in zset[UserOf[r]]} \subseteq Requests
    BY <2>1 DEF Entries
  <2>4. QED
    BY <1>8, <2>2, <2>3 DEF Expire, Goto, TypeOK, Steps
<1>9. ASSUME NEW r \in Requests, Trim(r) PROVE Typed'
  <2>1. zset' \in [Users -> SUBSET Entries] /\ expireAt' \in [Users -> Nat \cup {NoTTL}]
    BY <1>9, PruneTyped DEF Trim
  <2>2. QED
    BY <1>9, <2>1 DEF Trim, Goto, TypeOK, Steps
<1>10. ASSUME NEW r \in Requests, Abort(r) PROVE Typed'
  BY <1>10 DEF Abort, Goto, TypeOK, Steps
<1>11. ASSUME NEW u \in Users, GetCurrentCount(u) PROVE Typed'
  <2>1. zset' \in [Users -> SUBSET Entries] /\ expireAt' \in [Users -> Nat \cup {NoTTL}]
    BY <1>11, PruneTyped DEF GetCurrentCount
  <2>2. QED
    BY <1>11, <2>1 DEF GetCurrentCount, TypeOK
<1>12. ASSUME NEW u \in Users, ResetRateLimit(u) PROVE Typed'
  <2>1. zset' \in [Users -> SUBSET Entries] /\ expireAt' \in [Users -> Nat \cup {NoTTL}]
    BY <1>12, SetKeyTyped DEF ResetRateLimit
  <2>2. {e.req : e \in zset[u]} \subseteq Requests
    BY DEF TypeOK, Entries
  <2>3. QED
    BY <1>12, <2>1, <2>2 DEF ResetRateLimit, TypeOK
<1>13. CASE UNCHANGED vars
  BY <1>13 DEF vars, TypeOK
<1>14. QED
  BY <1>1, <1>2, <1>3, <1>4, <1>5, <1>6, <1>7, <1>8, <1>9, <1>10, <1>11, <1>12, <1>13
     DEF Next

\* Typed holds in every reachable state: everything below relies on it.
THEOREM TypedAlways == Spec => []Typed
BY TypedInit, TypedStep, PTL DEF Spec

-----------------------------------------------------------------------------
(* What a step may do to the sorted sets and to the handlers. *)

\* Pruning only takes away, and only what is not younger than the window.
LEMMA PruneShrinks ==
  ASSUME TypeOK, NEW u \in Users, NEW t, Prune(u, t)
  PROVE  /\ zset'[u] = Within(zset[u], t)
         /\ \A v \in Users : zset'[v] \subseteq zset[v] /\ (v # u => zset'[v] = zset[v])
BY DEF TypeOK, Prune, SetKey, Within

\* ZADD adds the entry of its request, and no other step adds any.
LEMMA ZsetChanges ==
  ASSUME Typed, [Next]_vars, NEW u \in Users
  PROVE  \/ zset'[u] \subseteq zset[u]
         \/ \E r \in RequestsOf(u) :
              ZAdd(r) /\ zset'[u] = zset[u] \cup {[req |-> r, at |-> now[r]]}
<1>a. TypeOK /\ UserOf \in [Requests -> Users]
  BY UserAssumption DEF Typed
<1>1. CASE \/ \E r \in Requests : EvalCheck(r) \/ Trim(r)
           \/ \E v \in Users : GetCurrentCount(v)
  <2>1. PICK v \in Users : \E t : Prune(v, t)
    BY <1>1, <1>a DEF EvalCheck, Trim, GetCurrentCount
  <2>2. QED
    BY <1>a, <2>1, PruneShrinks
<1>2. CASE \E r \in Requests : ZAdd(r)
  <2>1. PICK r \in Requests : ZAdd(r)
    BY <1>2
  <2>2. zset' = [zset EXCEPT ![UserOf[r]] = @ \cup {[req |-> r, at |-> now[r]]}]
    BY <1>a, <2>1 DEF ZAdd, SetKey, TypeOK
  <2>3. QED
    BY <1>a, <2>1, <2>2 DEF TypeOK, RequestsOf
<1>3. CASE \/ Tick \/ \E r \in Requests : Expire(r)
           \/ \E v \in Users : ResetRateLimit(v)
  BY <1>a, <1>3 DEF Tick, Expire, ResetRateLimit, SetKey, TypeOK
<1>4. CASE UNCHANGED zset
  BY <1>4
<1>5. QED
  BY <1>1, <1>2, <1>3, <1>4
     DEF Next, vars, BeginCheck, FetchOldest, AnswerDuplicate, BeginRecord, Abort

\* A handler reaches its next step by one of these actions.
LEMMA PcChanges ==
  ASSUME Typed, [Next]_vars
  PROVE  \/ UNCHANGED <<pc, now>>
         \/ \E r \in Requests :
              /\ \/ BeginCheck(r) \/ EvalCheck(r) \/ FetchOldest(r) \/ AnswerDuplicate(r)
                 \/ BeginRecord(r) \/ ZAdd(r) \/ Expire(r) \/ Trim(r) \/ Abort(r)
              /\ pc' = [pc EXCEPT ![r] = pc'[r]]
              /\ now' = [now EXCEPT ![r] = now'[r]]
<1>1. CASE UNCHANGED <<pc, now>>
  BY <1>1
<1>2. CASE \E r \in Requests :
             \/ BeginCheck(r) \/ EvalCheck(r) \/ FetchOldest(r) \/ AnswerDuplicate(r)
             \/ BeginRecord(r) \/ ZAdd(r) \/ Expire(r) \/ Trim(r) \/ Abort(r)
  <2>1. PICK r \in Requests :
          \/ BeginCheck(r) \/ EvalCheck(r) \/ FetchOldest(r) \/ AnswerDuplicate(r)
          \/ BeginRecord(r) \/ ZAdd(r) \/ Expire(r) \/ Trim(r) \/ Abort(r)
    BY <1>2
  <2>2. /\ pc' = [pc EXCEPT ![r] = pc'[r]]
        /\ now' = [now EXCEPT ![r] = now'[r]]
    BY <2>1
       DEF Typed, TypeOK, Goto, BeginCheck, EvalCheck, FetchOldest, AnswerDuplicate,
           BeginRecord, ZAdd, Expire, Trim, Abort
  <2>3. QED
    BY <2>1, <2>2
<1>3. QED
  BY <1>1, <1>2 DEF Next, vars, Tick, GetCurrentCount, ResetRateLimit

\* A recorded request stays recorded, with its time, and only ZADD records one.
LEMMA RecordedChanges ==
  ASSUME Typed, [Next]_vars, NEW u \in Users
  PROVE  /\ \A q \in RecordedOf(u) : q \in RecordedOf(u)' /\ now'[q] = now[q]
         /\ \A q \in RecordedOf(u)' \ RecordedOf(u) : ZAdd(q) /\ now'[q] = now[q]
         /\ \A r \in RequestsOf(u) : ZAdd(r) => RecordedOf(u)' = RecordedOf(u) \cup {r}
<1> USE DEF Typed, TypeOK, RecordedOf, RequestsOf
<1>1. CASE UNCHANGED <<pc, now>>
  BY <1>1 DEF ZAdd, Goto
<1>2. ASSUME NEW r \in Requests,
             pc' = [pc EXCEPT ![r] = pc'[r]], now' = [now EXCEPT ![r] = now'[r]],
             \/ BeginCheck(r) \/ EvalCheck(r) \/ FetchOldest(r) \/ AnswerDuplicate(r)
             \/ BeginRecord(r) \/ ZAdd(r) \/ Expire(r) \/ Trim(r) \/ Abort(r)
      PROVE  /\ \A q \in RecordedOf(u) : q \in RecordedOf(u)' /\ now'[q] = now[q]
             /\ \A q \in RecordedOf(u)' \ RecordedOf(u) : ZAdd(q) /\ now'[q] = now[q]
             /\ \A q \in RequestsOf(u) : ZAdd(q) => RecordedOf(u)' = RecordedOf(u) \cup {q}
  <2>1. CASE ZAdd(r)
    <3>1. pc[r] = "zadd" /\ pc' = [pc EXCEPT ![r] = "expire"] /\ now' = now
      BY <2>1 DEF ZAdd, Goto
    <3>2. \A q \in Requests : ZAdd(q) => q = r
      BY <3>1 DEF ZAdd, Goto
    <3>3. \A q \in Requests : pc'[q] \in {"expire", "trim", "recorded"}
                              <=> q = r \/ pc[q] \in {"expire", "trim", "recorded"}
      BY <3>1
    <3>4. \A q \in RequestsOf(u) : ZAdd(q) => RecordedOf(u)' = RecordedOf(u) \cup {q}
      BY <3>2, <3>3
    <3>5. QED
      BY <2>1, <3>1, <3>3, <3>4
  <2>2. CASE ~ZAdd(r)
    <3>1. /\ pc[r] \in {"expire", "trim", "recorded"} <=> pc'[r] \in {"expire", "trim", "recorded"}
          /\ pc[r] \in {"expire", "trim", "recorded"} => now'[r] = now[r]
      BY <1>2, <2>2
         DEF Goto, BeginCheck, EvalCheck, FetchOldest, AnswerDuplicate, BeginRecord,
             Expire, Trim, Abort, InFlight
    <3>2. \A q \in RequestsOf(u) : ~ZAdd(q)
      BY <1>2, <2>2, <3>1 DEF ZAdd, Goto
    <3>3. QED
      BY <1>2, <3>1, <3>2
  <2>3. QED
    BY <2>1, <2>2
<1>3. QED
  BY <1>1, <1>2, PcChanges

-----------------------------------------------------------------------------
(* The sorted set is a ledger of recorded requests. *)

\* Every entry belongs to one recorded request, and its score is the time at which
\* the recording of that request began.
Ledger ==
  \A u \in Users : \A e \in zset[u] : e.req \in RecordedOf(u) /\ e.at = now[e.req]

\* One case for what ZADD writes, one for everything else.
LEMMA LedgerStep == Typed /\ Ledger /\ [Next]_vars => Ledger'
<1> SUFFICES ASSUME Typed, Ledger, [Next]_vars, NEW u \in Users, NEW e \in zset'[u]
             PROVE  e.req \in RecordedOf(u)' /\ e.at = now'[e.req]
    BY DEF Ledger
<1>1. CASE e \in zset[u]
  <2>1. e.req \in RecordedOf(u) /\ e.at = now[e.req]
    BY <1>1 DEF Ledger
  <2>2. QED
    BY <2>1, RecordedChanges
<1>2. CASE e \notin zset[u]
  <2>1. PICK r \in RequestsOf(u) :
          ZAdd(r) /\ zset'[u] = zset[u] \cup {[req |-> r, at |-> now[r]]}
    BY <1>2, ZsetChanges
  <2>2. e.req = r /\ e.at = now[r]
    BY <1>2, <2>1
  <2>3. RecordedOf(u)' = RecordedOf(u) \cup {r} /\ now' = now
    BY <2>1, RecordedChanges DEF ZAdd
  <2>4. QED
    BY <2>2, <2>3
<1>3. QED
  BY <1>1, <1>2

-----------------------------------------------------------------------------
(* Counting. *)

\* The sets that are counted are finite, however many users and requests there are:
\* they grow by one request at a time.
Counted ==
  \A u \in Users : /\ IsFiniteSet(zset[u])
                   /\ IsFiniteSet(RecordedOf(u))
                   /\ IsFiniteSet(InFlight(u))
                   /\ Cardinality(InFlight(u)) <= MaxInFlight

\* Only the beginning of a check adds a request to those in flight.
LEMMA InFlightChanges ==
  ASSUME Typed, [Next]_vars, NEW u \in Users
  PROVE  \/ InFlight(u)' \subseteq InFlight(u)
         \/ \E r \in RequestsOf(u) : /\ BeginCheck(r)
                                     /\ InFlight(u)' = InFlight(u) \cup {r}
<1> USE DEF Typed, TypeOK, InFlight, RequestsOf
<1>1. CASE UNCHANGED <<pc, now>>
  BY <1>1
<1>2. ASSUME NEW r \in Requests,
             pc' = [pc EXCEPT ![r] = pc'[r]], now' = [now EXCEPT ![r] = now'[r]],
             \/ BeginCheck(r) \/ EvalCheck(r) \/ FetchOldest(r) \/ AnswerDuplicate(r)
             \/ BeginRecord(r) \/ ZAdd(r) \/ Expire(r) \/ Trim(r) \/ Abort(r)
      PROVE  \/ InFlight(u)' \subseteq InFlight(u)
             \/ \E q \in RequestsOf(u) : /\ BeginCheck(q)
                                         /\ InFlight(u)' = InFlight(u) \cup {q}
  <2>1. CASE BeginCheck(r)
    <3>1. pc' = [pc EXCEPT ![r] = "eval"]
      BY <2>1 DEF BeginCheck, Goto
    <3>2. CASE UserOf[r] = u
      BY <2>1, <3>1, <3>2
    <3>3. CASE UserOf[r] # u
      BY <3>1, <3>3
    <3>4. QED
      BY <3>2, <3>3
  <2>2. CASE ~BeginCheck(r)
    <3>1. pc[r] \in {"eval", "oldest", "admitted", "zadd", "expire", "trim"}
      BY <1>2, <2>2
         DEF EvalCheck, FetchOldest, AnswerDuplicate, BeginRecord, ZAdd, Expire, Trim, Abort
    <3>2. QED
      BY <1>2, <3>1
  <2>3. QED
    BY <2>1, <2>2
<1>3. QED
  BY <1>1, <1>2, PcChanges

\* Each of the sets grows by at most one element.
LEMMA CountedStep == Typed /\ Counted /\ [Next]_vars => Counted'
<1> SUFFICES ASSUME Typed, Counted, [Next]_vars, NEW u \in Users
             PROVE  /\ IsFiniteSet(zset'[u])
                    /\ IsFiniteSet(RecordedOf(u)')
                    /\ IsFiniteSet(InFlight(u)')
                    /\ Cardinality(InFlight(u)') <= MaxInFlight
    BY DEF Counted
<1>1. /\ IsFiniteSet(zset[u]) /\ IsFiniteSet(RecordedOf(u)) /\ IsFiniteSet(InFlight(u))
      /\ Cardinality(InFlight(u)) <= MaxInFlight
  BY DEF Counted
<1>2. IsFiniteSet(zset'[u])
  <2>1. CASE zset'[u] \subseteq zset[u]
    BY <1>1, <2>1, FS_Subset
  <2>2. CASE zset'[u] \notin SUBSET zset[u]
    <3>1. PICK r \in RequestsOf(u) : zset'[u] = zset[u] \cup {[req |-> r, at |-> now[r]]}
      BY <2>2, ZsetChanges
    <3>2. QED
      BY <1>1, <3>1, FS_AddElement
  <2>3. QED
    BY <2>1, <2>2
<1>3. IsFiniteSet(RecordedOf(u)')
  <2>1. CASE \E r \in RequestsOf(u) : ZAdd(r)
    <3>1. PICK r \in RequestsOf(u) : RecordedOf(u)' = RecordedOf(u) \cup {r}
      BY <2>1, RecordedChanges
    <3>2. QED
      BY <1>1, <3>1, FS_AddElement
  <2>2. CASE ~\E r \in RequestsOf(u) : ZAdd(r)
    <3>1. RecordedOf(u)' \subseteq RequestsOf(u)
      BY DEF RecordedOf
    <3>2. RecordedOf(u)' \subseteq RecordedOf(u)
      BY <2>2, <3>1, RecordedChanges
    <3>3. QED
      BY <1>1, <3>2, FS_Subset
  <2>3. QED
    BY <2>1, <2>2
<1>4. IsFiniteSet(InFlight(u)') /\ Cardinality(InFlight(u)') <= MaxInFlight
  <2>1. Cardinality(InFlight(u)) \in Nat
    BY <1>1, FS_CardinalityType
  <2>2. CASE InFlight(u)' \subseteq InFlight(u)
    <3>1. IsFiniteSet(InFlight(u)') /\ Cardinality(InFlight(u)') <= Cardinality(InFlight(u))
      BY <1>1, <2>2, FS_Subset
    <3>2. Cardinality(InFlight(u)') \in Nat
      BY <3>1, FS_CardinalityType
    <3>3. QED
      BY <1>1, <2>1, <3>1, <3>2, RateAssumption
  <2>3. CASE InFlight(u)' \notin SUBSET InFlight(u)
    <3>1. PICK r \in RequestsOf(u) : BeginCheck(r) /\ InFlight(u)' = InFlight(u) \cup {r}
      BY <2>3, InFlightChanges
    <3>2. Cardinality(InFlight(u)) < MaxInFlight
      BY <3>1 DEF BeginCheck, RequestsOf
    <3>3. IsFiniteSet(InFlight(u)') /\ Cardinality(InFlight(u)') <= Cardinality(InFlight(u)) + 1
      BY <1>1, <2>1, <3>1, FS_AddElement
    <3>4. Cardinality(InFlight(u)') \in Nat
      BY <3>3, FS_CardinalityType
    <3>5. QED
      BY <2>1, <3>2, <3>3, <3>4, RateAssumption
  <2>4. QED
    BY <2>2, <2>3
<1>5. QED
  BY <1>2, <1>3, <1>4

\* At first nothing is recorded and nothing is in flight.
LEMMA CountedInit == Init => Ledger /\ Counted
<1> SUFFICES ASSUME Init, NEW u \in Users
             PROVE  /\ zset[u] = {} /\ RecordedOf(u) = {} /\ InFlight(u) = {}
                    /\ Cardinality({}) <= MaxInFlight /\ IsFiniteSet({})
    BY DEF Ledger, Counted
<1>1. zset[u] = {} /\ RecordedOf(u) = {} /\ InFlight(u) = {}
  BY DEF Init, RecordedOf, InFlight, RequestsOf
<1>2. QED
  BY <1>1, FS_EmptySet, RateAssumption

\* The invariant the properties below rest on.
RateInv == Typed /\ Ledger /\ Counted

\* The sorted sets are ledgers of recorded requests, and everything counted is finite.
THEOREM RateInvAlways == Spec => []RateInv
<1>1. Init => RateInv
  BY TypedInit, CountedInit DEF RateInv
<1>2. RateInv /\ [Next]_vars => RateInv'
  BY TypedStep, LedgerStep, CountedStep DEF RateInv
<1>3. QED
  BY <1>1, <1>2, PTL DEF Spec

\* The variables of the rate limiter keep their types.
THEOREM TypeCorrect == Spec => []TypeOK
<1>1. Typed => TypeOK
  BY DEF Typed
<1>2. QED
  BY <1>1, TypedAlways, PTL

-----------------------------------------------------------------------------
(* NoSpuriousDenial. *)

\* The requests of a user recorded in the window before the check of r.
RecordedBefore(r) == {q \in RecordedOf(UserOf[r]) : now[q] > now[r] - Window}

\* The entries younger than some time are no more than the requests recorded since.
LEMMA EntriesAreRequests ==
  ASSUME RateInv, NEW u \in Users, NEW t \in Int
  PROVE  Cardinality(Within(zset[u], t))
           <= Cardinality({q \in RecordedOf(u) : now[q] > t - Window})
<1> DEFINE S == Within(zset[u], t)
           T == {q \in RecordedOf(u) : now[q] > t - Window}
           f == [e \in S |-> e.req]
<1>1. IsFiniteSet(T)
  BY FS_Subset DEF RateInv, Counted
<1>2. \A e \in S : /\ e.req \in RecordedOf(u) /\ e.at = now[e.req]
                   /\ e.at > t - Window /\ e = [req |-> e.req, at |-> e.at]
  BY DEF RateInv, Typed, TypeOK, Ledger, Within, Entries
<1>3. f \in [S -> T]
  BY <1>2
<1>4. \A d, e \in S : f[d] = f[e] => d = e
  BY <1>2
<1>5. f \in Injection(S, T)
  BY <1>3, <1>4 DEF Injection, IsInjective
<1>6. QED
  BY <1>1, <1>5, FS_Injection

\* Recorded requests only become more.
LEMMA RecordedBeforeGrows ==
  ASSUME RateInv, RateInv', [Next]_vars, NEW r \in Requests, now'[r] = now[r]
  PROVE  /\ Cardinality(RecordedBefore(r)) \in Nat
         /\ Cardinality(RecordedBefore(r)') \in Nat
         /\ Cardinality(RecordedBefore(r)) <= Cardinality(RecordedBefore(r)')
<1>1. UserOf[r] \in Users /\ Typed
  BY UserAssumption DEF RateInv
<1>2. RecordedBefore(r) \subseteq RecordedBefore(r)'
  BY <1>1, RecordedChanges DEF RecordedBefore
<1>3. IsFiniteSet(RecordedBefore(r)) /\ IsFiniteSet(RecordedBefore(r)')
  <2>1. IsFiniteSet(RecordedOf(UserOf[r])) /\ IsFiniteSet(RecordedOf(UserOf[r])')
    BY <1>1 DEF RateInv, Counted
  <2>2. /\ RecordedBefore(r) \subseteq RecordedOf(UserOf[r])
        /\ RecordedBefore(r)' \subseteq RecordedOf(UserOf[r])'
    BY DEF RecordedBefore
  <2>3. QED
    BY <2>1, <2>2, FS_Subset
<1>4. QED
  BY <1>2, <1>3, FS_Subset, FS_CardinalityType

\* The script that denies has just counted Limit of them.
LEMMA DenialStep == RateInv /\ RateInv' /\ NoSpuriousDenial /\ [Next]_vars => NoSpuriousDenial'
<1> SUFFICES ASSUME RateInv, RateInv', NoSpuriousDenial, [Next]_vars,
                    NEW r \in Requests, pc'[r] \in {"oldest", "denied"}
             PROVE  Cardinality(RecordedBefore(r)') >= Limit
    BY DEF NoSpuriousDenial, RecordedBefore
<1>1. UserOf[r] \in Users /\ Typed
  BY UserAssumption DEF RateInv
<1>2. CASE pc[r] \in {"oldest", "denied"}
  <2>1. now'[r] = now[r]
    <3>1. CASE UNCHANGED <<pc, now>>
      BY <3>1
    <3>2. ASSUME NEW q \in Requests,
                 pc' = [pc EXCEPT ![q] = pc'[q]], now' = [now EXCEPT ![q] = now'[q]],
                 \/ BeginCheck(q) \/ EvalCheck(q) \/ FetchOldest(q) \/ AnswerDuplicate(q)
                 \/ BeginRecord(q) \/ ZAdd(q) \/ Expire(q) \/ Trim(q) \/ Abort(q)
          PROVE  now'[r] = now[r]
      <4>1. CASE q = r
        BY <1>1, <1>2, <3>2, <4>1
           DEF Typed, TypeOK, Goto, BeginCheck, EvalCheck, FetchOldest, AnswerDuplicate,
               BeginRecord, ZAdd, Expire, Trim, Abort
      <4>2. CASE q # r
        BY <1>1, <3>2, <4>2 DEF Typed, TypeOK
      <4>3. QED
        BY <4>1, <4>2
    <3>3. QED
      BY <1>1, <3>1, <3>2, PcChanges
  <2>2. Cardinality(RecordedBefore(r)) >= Limit
    BY <1>2 DEF NoSpuriousDenial, RecordedBefore
  <2>3. QED
    BY <2>1, <2>2, RecordedBeforeGrows, RateAssumption
<1>3. CASE pc[r] \notin {"oldest", "denied"}
  <2>1. EvalCheck(r) /\ pc'[r] = "oldest"
    <3>1. PICK q \in Requests :
            /\ \/ BeginCheck(q) \/ EvalCheck(q) \/ FetchOldest(q) \/ AnswerDuplicate(q)
               \/ BeginRecord(q) \/ ZAdd(q) \/ Expire(q) \/ Trim(q) \/ Abort(q)
            /\ pc' = [pc EXCEPT ![q] = pc'[q]]
      BY <1>1, <1>3, PcChanges
    <3>2. q = r
      BY <1>1, <1>3, <3>1 DEF Typed, TypeOK
    <3>3. QED
      BY <1>1, <1>3, <3>1, <3>2
         DEF Typed, TypeOK, Goto, BeginCheck, EvalCheck, FetchOldest, AnswerDuplicate,
             BeginRecord, ZAdd, Expire, Trim, Abort
  <2>2. Cardinality(zset'[UserOf[r]]) >= Limit
    BY <1>1, <2>1 DEF EvalCheck, Goto, Typed, TypeOK
  <2>3. zset'[UserOf[r]] = Within(zset[UserOf[r]], now[r])
    BY <1>1, <2>1, PruneShrinks DEF EvalCheck, Typed
  <2>4. now[r] \in Int /\ now' = now
    BY <2>1, RateAssumption DEF EvalCheck, RateInv, Typed, TypeOK, Timely
  <2>5. Cardinality(zset'[UserOf[r]]) <= Cardinality(RecordedBefore(r))
    BY <1>1, <2>3, <2>4, EntriesAreRequests DEF RecordedBefore
  <2>6. Cardinality(zset'[UserOf[r]]) \in Nat
    BY <1>1, FS_CardinalityType DEF RateInv, Counted
  <2>7. QED
    BY <2>2, <2>4, <2>5, <2>6, RecordedBeforeGrows, RateAssumption
<1>4. QED
  BY <1>2, <1>3

\* A 429 is never an artefact of late pruning or of a stale time: Limit requests of
\* the user were recorded in the window that ended when the check began.
THEOREM DenialsJustified == Spec => []NoSpuriousDenial
<1>1. Init => NoSpuriousDenial
  BY DEF Init, NoSpuriousDenial
<1>2. QED
  BY <1>1, DenialStep, RateInvAlways, PTL DEF Spec

-----------------------------------------------------------------------------
(* CoveredEntriesSurvive. *)

\* The key lives as long as the entries an EXPIRE has covered are in the window.
Covered ==
  \A r \in refreshed :
    /\ r \in RecordedOf(UserOf[r])
    /\ [req |-> r, at |-> now[r]] \in zset[UserOf[r]] =>
         expireAt[UserOf[r]] \in Nat /\ now[r] + Window <= expireAt[UserOf[r]]
    /\ now[r] > clock - Window => [req |-> r, at |-> now[r]] \in zset[UserOf[r]]

\* What Covered says of one request.
Lasts(r) ==
  LET u == UserOf[r]
      entry == [req |-> r, at |-> now[r]]
  IN /\ entry \in zset[u] => expireAt[u] \in Nat /\ now[r] + Window <= expireAt[u]
     /\ now[r] > clock - Window => entry \in zset[u]

\* A prune by a time that has passed keeps what is in the window now, and the TTL of
\* a key that is not empty.
LEMMA PruneKeepsLasting ==
  ASSUME RateInv, NEW v \in Users, NEW t \in 0..clock, Prune(v, t),
         UNCHANGED <<clock, now>>,
         NEW r \in Requests, now[r] \in 0..clock, Lasts(r)
  PROVE  Lasts(r)'
<1> DEFINE u == UserOf[r]
           entry == [req |-> r, at |-> now[r]]
<1>1. u \in Users /\ TypeOK
  BY UserAssumption DEF RateInv, Typed
<1>2. /\ entry \in zset[u] => expireAt[u] \in Nat /\ now[r] + Window <= expireAt[u]
      /\ now[r] > clock - Window => entry \in zset[u]
  BY DEF Lasts
<1>3. CASE u # v
  <2>1. zset'[u] = zset[u] /\ expireAt'[u] = expireAt[u]
    BY <1>1, <1>3 DEF Prune, SetKey, TypeOK
  <2>2. QED
    BY <1>2, <2>1 DEF Lasts
<1>4. CASE u = v
  <2>1. /\ zset'[u] = Within(zset[u], t)
        /\ expireAt'[u] = IF zset'[u] = {} THEN NoTTL ELSE expireAt[u]
    BY <1>1, <1>4 DEF Prune, SetKey, TypeOK
  <2>2. entry \in zset'[u] => entry \in zset[u] /\ expireAt'[u] = expireAt[u]
    BY <2>1 DEF Within
  <2>3. now[r] > clock - Window /\ entry \in zset[u] => entry \in zset'[u]
    <3>1. entry.at = now[r]
      OBVIOUS
    <3>2. now[r] > clock - Window => now[r] > t - Window
      BY <1>1, RateAssumption DEF TypeOK
    <3> HIDE DEF entry
    <3>3. QED
      BY <2>1, <3>1, <3>2 DEF Within
  <2>4. QED
    BY <1>2, <2>2, <2>3 DEF Lasts
<1>5. QED
  BY <1>3, <1>4

\* When a key expires, no covered entry is in the window any more.
LEMMA TickKeepsLasting ==
  ASSUME RateInv, Tick, NEW r \in Requests, now[r] \in 0..clock, Lasts(r)
  PROVE  Lasts(r)'
<1> DEFINE u == UserOf[r]
           entry == [req |-> r, at |-> now[r]]
<1>1. u \in Users /\ TypeOK /\ clock \in Nat /\ Window \in Nat
  BY UserAssumption, RateAssumption DEF RateInv, Typed, TypeOK
<1>2. /\ entry \in zset[u] => expireAt[u] \in Nat /\ now[r] + Window <= expireAt[u]
      /\ now[r] > clock - Window => entry \in zset[u]
  BY DEF Lasts
<1>3. /\ clock' = clock + 1 /\ now' = now
      /\ zset'[u] = IF expireAt[u] = clock + 1 THEN {} ELSE zset[u]
      /\ expireAt'[u] = IF expireAt[u] = clock + 1 THEN NoTTL ELSE expireAt[u]
  BY <1>1 DEF Tick
<1>4. now[r] > clock' - Window => now[r] > clock - Window
  BY <1>1, <1>3
<1>5. now[r] > clock' - Window => entry \in zset'[u]
  <2> SUFFICES ASSUME now[r] > clock' - Window PROVE entry \in zset'[u]
      OBVIOUS
  <2>1. entry \in zset[u] /\ expireAt[u] \in Nat /\ now[r] + Window <= expireAt[u]
    BY <1>2, <1>4
  <2>2. expireAt[u] # clock + 1
    BY <1>1, <1>3, <2>1
  <2>3. QED
    BY <1>3, <2>1, <2>2
<1>6. entry \in zset'[u] => expireAt'[u] \in Nat /\ now'[r] + Window <= expireAt'[u]
  BY <1>2, <1>3
<1>7. QED
  BY <1>3, <1>5, <1>6 DEF Lasts

\* One step per action that touches the key, the clock or the covered requests.
LEMMA CoveredStep == RateInv /\ RateInv' /\ Covered /\ [Next]_vars => Covered'
<1> SUFFICES ASSUME RateInv, RateInv', Covered, [Next]_vars, NEW r \in refreshed'
             PROVE  r \in RecordedOf(UserOf[r])' /\ Lasts(r)'
    BY DEF Covered, Lasts
<1>1. /\ Typed /\ TypeOK /\ r \in Requests /\ UserOf[r] \in Users
      /\ UserOf \in [Requests -> Users]
  BY UserAssumption DEF RateInv, Typed, TypeOK
<1>2. ASSUME r \in refreshed
      PROVE  /\ r \in RecordedOf(UserOf[r]) /\ now[r] \in 0..clock /\ Lasts(r)
             /\ r \in RecordedOf(UserOf[r])' /\ now'[r] = now[r]
  <2>1. r \in RecordedOf(UserOf[r]) /\ Lasts(r)
    BY <1>2 DEF Covered, Lasts
  <2>2. now[r] \in 0..clock
    BY <1>1, <2>1 DEF RecordedOf, Typed, Timely
  <2>3. QED
    BY <1>1, <2>1, <2>2, RecordedChanges
<1>3. ASSUME NEW q \in Requests, NEW v \in Users, NEW t \in 0..clock, Prune(v, t),
             UNCHANGED <<clock, now, refreshed>>
      PROVE  Lasts(r)'
  BY <1>1, <1>2, <1>3, PruneKeepsLasting
<1>4. CASE \E q \in Requests : EvalCheck(q) \/ Trim(q)
  <2>1. PICK q \in Requests : EvalCheck(q) \/ Trim(q)
    BY <1>4
  <2>2. UserOf[q] \in Users /\ now[q] \in 0..clock
    BY <1>1, <2>1 DEF EvalCheck, Trim, Typed, Timely
  <2>3. QED
    BY <1>2, <1>3, <2>1, <2>2 DEF EvalCheck, Trim
<1>5. CASE \E v \in Users : GetCurrentCount(v)
  BY <1>1, <1>2, <1>3, <1>5 DEF GetCurrentCount
<1>6. CASE Tick
  BY <1>1, <1>2, <1>6, TickKeepsLasting DEF Tick
<1>7. ASSUME NEW v \in Users, ResetRateLimit(v)
      PROVE  r \in RecordedOf(UserOf[r])' /\ Lasts(r)'
  <2>1. r \in refreshed /\ UserOf[r] # v
    BY <1>1, <1>7 DEF ResetRateLimit, RequestsOf
  <2>2. /\ zset'[UserOf[r]] = zset[UserOf[r]] /\ expireAt'[UserOf[r]] = expireAt[UserOf[r]]
        /\ UNCHANGED <<clock, now>>
    BY <1>1, <1>7, <2>1 DEF ResetRateLimit, SetKey, TypeOK
  <2>3. QED
    BY <1>2, <2>1, <2>2 DEF Lasts
<1>8. ASSUME NEW q \in Requests, Expire(q)
      PROVE  r \in RecordedOf(UserOf[r])' /\ Lasts(r)'
  <2> DEFINE u == UserOf[q]
  <2>1. /\ zset' = zset /\ UNCHANGED <<clock, now>>
        /\ expireAt' = [expireAt EXCEPT ![u] =
                          IF zset[u] = {} THEN NoTTL ELSE clock + Window + Grace]
        /\ refreshed' = refreshed \cup {e.req : e \in zset[u]}
        /\ u \in Users
    BY <1>1, <1>8 DEF Expire, SetKey, TypeOK
  <2>2. CASE r \in refreshed
    <3>1. CASE UserOf[r] # u
      BY <1>1, <1>2, <2>1, <2>2, <3>1 DEF Lasts, TypeOK
    <3>2. CASE UserOf[r] = u
      <4>1. zset[u] # {} => expireAt'[u] = clock + Window + Grace
        BY <2>1 DEF TypeOK, RateInv, Typed
      <4>2. now[r] + Window <= clock + Window + Grace /\ clock + Window + Grace \in Nat
        BY <1>1, <1>2, <2>2, RateAssumption DEF TypeOK
      <4>3. QED
        BY <1>2, <2>1, <2>2, <3>2, <4>1, <4>2 DEF Lasts
    <3>3. QED
      BY <3>1, <3>2
  <2>3. CASE r \notin refreshed
    <3>1. PICK e \in zset[u] : e.req = r
      BY <2>1, <2>3
    <3>2. r \in RecordedOf(u) /\ UserOf[r] = u /\ e = [req |-> r, at |-> now[r]]
      BY <2>1, <3>1 DEF RateInv, Ledger, Typed, TypeOK, Entries, RecordedOf, RequestsOf
    <3>3. now[r] \in 0..clock /\ r \in RecordedOf(u)'
      BY <1>1, <2>1, <3>2, RecordedChanges DEF RecordedOf, Typed, Timely
    <3>4. expireAt'[u] = clock + Window + Grace
      BY <2>1, <3>1 DEF TypeOK, RateInv, Typed
    <3>5. now[r] + Window <= clock + Window + Grace /\ clock + Window + Grace \in Nat
      BY <1>1, <3>3, RateAssumption DEF TypeOK
    <3>6. QED
      BY <2>1, <3>1, <3>2, <3>3, <3>4, <3>5 DEF Lasts
  <2>4. QED
    BY <2>2, <2>3
<1>9. ASSUME NEW q \in Requests, ZAdd(q)
      PROVE  r \in RecordedOf(UserOf[r])' /\ Lasts(r)'
  <2> DEFINE u == UserOf[q]
  <2>1. /\ UNCHANGED <<clock, now, refreshed>> /\ u \in Users /\ pc[q] = "zadd"
        /\ zset' = [zset EXCEPT ![u] = @ \cup {[req |-> q, at |-> now[q]]}]
        /\ expireAt' = [expireAt EXCEPT ![u] = @]
    BY <1>1, <1>9 DEF ZAdd, SetKey, TypeOK
  <2>2. r \in refreshed /\ r # q
    BY <1>1, <1>2, <2>1 DEF RecordedOf
  <2>3. expireAt' = expireAt
    BY <2>1 DEF RateInv, Typed, TypeOK
  <2>4. \A v \in Users : [req |-> r, at |-> now[r]] \in zset'[v]
                         <=> [req |-> r, at |-> now[r]] \in zset[v]
    BY <2>1, <2>2 DEF RateInv, Typed, TypeOK
  <2>5. QED
    BY <1>1, <1>2, <2>1, <2>2, <2>3, <2>4 DEF Lasts
<1>10. CASE UNCHANGED <<zset, expireAt, clock, refreshed>>
  BY <1>2, <1>10 DEF Lasts
<1>11. QED
  BY <1>2, <1>4, <1>5, <1>6, <1>7, <1>8, <1>9, <1>10
     DEF Next, vars, BeginCheck, FetchOldest, AnswerDuplicate, BeginRecord, Abort, EvalCheck,
         Trim, GetCurrentCount

\* Neither a TTL that runs out nor a prune with a stale time loses an entry that
\* counts, once some EXPIRE has covered it.
THEOREM CoveredEntriesKept == Spec => []CoveredEntriesSurvive
<1>1. Init => Covered
  BY DEF Init, Covered
<1>2. Covered => CoveredEntriesSurvive
  BY DEF Covered, CoveredEntriesSurvive, EntryOf
<1>3. QED
  BY <1>1, <1>2, CoveredStep, RateInvAlways, PTL DEF Spec

-----------------------------------------------------------------------------
(* AdmissionBound and ForgetsOncePerWindow. *)

\* The most requests of a user that the script can come upon and let be handled.
Room == Limit - 1 + MaxInFlight

\* Requests whose entry counts now.
Live(u) == {r \in RecordedOf(u) : now[r] > clock - Window /\ EntryOf(r) \in zset[u]}

\* Requests that were admitted and whose handler has not finished.
Busy(u) == {r \in RequestsOf(u) : pc[r] \in {"admitted", "zadd", "expire", "trim"}}

\* The script has found fewer than Limit entries; what is admitted then is in flight,
\* stays so until it is recorded, and counts from its ZADD.
RoomKept == \A u \in Users : Cardinality(Live(u) \cup Busy(u)) <= Room

\* Requests in the window whose entry is gone, covered or not.
Lost(u) == {r \in InWindow(u) : EntryOf(r) \notin zset[u]}

\* A key that has a TTL again since an entry was lost lives until that entry's window
\* is over, and all that is lost was live when the key last expired.
LossKept ==
  \A u \in Users :
    /\ \A r \in Lost(u) : expireAt[u] \in Nat => now[r] + Window <= expireAt[u]
    /\ Cardinality(Lost(u)) <= Room

\* The clock does not run back.
LEMMA ClockChanges ==
  ASSUME Typed, [Next]_vars
  PROVE  clock \in Nat /\ clock' \in {clock, clock + 1}
BY DEF Typed, TypeOK, Next, vars, Tick, BeginCheck, EvalCheck, FetchOldest,
       AnswerDuplicate, BeginRecord, ZAdd, Expire, Trim, Abort, GetCurrentCount,
       ResetRateLimit

\* Only the script makes a request busy, and it stays so until it is recorded.
LEMMA BusyChanges ==
  ASSUME Typed, [Next]_vars, NEW u \in Users
  PROVE  /\ \/ Busy(u)' \subseteq Busy(u)
            \/ \E r \in RequestsOf(u) : EvalCheck(r) /\ pc'[r] = "admitted"
         /\ \A r \in RequestsOf(u) : ZAdd(r) => r \in Busy(u)
<1> USE DEF Typed, TypeOK, Busy, RequestsOf
<1>1. \A r \in RequestsOf(u) : ZAdd(r) => r \in Busy(u)
  BY DEF ZAdd
<1>2. CASE UNCHANGED <<pc, now>>
  BY <1>1, <1>2
<1>3. ASSUME NEW r \in Requests,
             pc' = [pc EXCEPT ![r] = pc'[r]], now' = [now EXCEPT ![r] = now'[r]],
             \/ BeginCheck(r) \/ EvalCheck(r) \/ FetchOldest(r) \/ AnswerDuplicate(r)
             \/ BeginRecord(r) \/ ZAdd(r) \/ Expire(r) \/ Trim(r) \/ Abort(r)
      PROVE  \/ Busy(u)' \subseteq Busy(u)
             \/ \E q \in RequestsOf(u) : EvalCheck(q) /\ pc'[q] = "admitted"
  <2>1. CASE EvalCheck(r) /\ pc'[r] = "admitted"
    BY <1>3, <2>1
  <2>2. CASE ~(EvalCheck(r) /\ pc'[r] = "admitted")
    <3>1. pc'[r] \in {"admitted", "zadd", "expire", "trim"}
            => pc[r] \in {"admitted", "zadd", "expire", "trim"}
      BY <1>3, <2>2
         DEF Goto, BeginCheck, EvalCheck, FetchOldest, AnswerDuplicate, BeginRecord,
             ZAdd, Expire, Trim, Abort
    <3>2. QED
      BY <1>3, <3>1
  <2>3. QED
    BY <2>1, <2>2
<1>4. QED
  BY <1>1, <1>2, <1>3, PcChanges

\* A request counts from its ZADD on, no other step makes it count.
LEMMA LiveChanges ==
  ASSUME RateInv, [Next]_vars, NEW u \in Users, NEW r \in Live(u)'
  PROVE  r \in Live(u) \/ ZAdd(r)
<1>1. Typed /\ clock \in Nat /\ clock' \in {clock, clock + 1}
  BY ClockChanges DEF RateInv
<1>2. /\ r \in RecordedOf(u)' /\ r \in RequestsOf(u) /\ r \in Requests
      /\ now'[r] > clock' - Window /\ [req |-> r, at |-> now'[r]] \in zset'[u]
  BY DEF Live, EntryOf, RecordedOf, RequestsOf
<1>3. CASE r \notin RecordedOf(u)
  BY <1>1, <1>2, <1>3, RecordedChanges
<1>4. CASE r \in RecordedOf(u)
  <2>1. now'[r] = now[r] /\ now[r] \in Nat
    <3>1. now[r] \in 0..clock
      BY <1>1, <1>4 DEF RecordedOf, RequestsOf, Typed, Timely
    <3>2. QED
      BY <1>1, <1>4, <3>1, RecordedChanges
  <2>2. now[r] > clock - Window
    BY <1>1, <1>2, <2>1, RateAssumption
  <2>3. CASE EntryOf(r) \in zset[u]
    BY <1>4, <2>2, <2>3 DEF Live
  <2>4. CASE EntryOf(r) \notin zset[u]
    <3>1. EntryOf(r) \in zset'[u] /\ EntryOf(r).req = r
      BY <1>2, <2>1 DEF EntryOf
    <3>2. PICK q \in RequestsOf(u) :
            ZAdd(q) /\ zset'[u] = zset[u] \cup {[req |-> q, at |-> now[q]]}
      BY <1>1, <2>4, <3>1, ZsetChanges
    <3>3. QED
      BY <2>4, <3>1, <3>2
  <2>5. QED
    BY <2>3, <2>4
<1>5. QED
  BY <1>3, <1>4

\* The requests that count, each with its one entry, are no more than the entries.
LiveCount ==
  \A u \in Users :
    /\ IsFiniteSet(zset[u])
    /\ IsFiniteSet(Live(u)) /\ Cardinality(Live(u)) <= Cardinality(zset[u])
    /\ Cardinality(Within(zset[u], clock)) <= Cardinality(Live(u))
    /\ IsFiniteSet(Busy(u)) /\ Cardinality(Busy(u)) <= MaxInFlight
    /\ IsFiniteSet(InWindow(u)) /\ IsFiniteSet(Admitted(u))

\* So the requests counted here are finitely many.
LEMMA LiveCounted == RateInv => LiveCount
<1> SUFFICES ASSUME RateInv, NEW u \in Users
             PROVE  /\ IsFiniteSet(zset[u])
                    /\ IsFiniteSet(Live(u)) /\ Cardinality(Live(u)) <= Cardinality(zset[u])
                    /\ Cardinality(Within(zset[u], clock)) <= Cardinality(Live(u))
                    /\ IsFiniteSet(Busy(u)) /\ Cardinality(Busy(u)) <= MaxInFlight
                    /\ IsFiniteSet(InWindow(u)) /\ IsFiniteSet(Admitted(u))
    BY DEF LiveCount
<1>1. /\ IsFiniteSet(zset[u]) /\ IsFiniteSet(RecordedOf(u)) /\ IsFiniteSet(InFlight(u))
      /\ Cardinality(InFlight(u)) <= MaxInFlight
  BY DEF RateInv, Counted
<1>2. Live(u) \subseteq RecordedOf(u) /\ InWindow(u) \subseteq RecordedOf(u)
  BY DEF Live, InWindow
<1>3. Busy(u) \subseteq InFlight(u) /\ Admitted(u) \subseteq InFlight(u)
  BY DEF Busy, InFlight, Admitted
<1>4. /\ IsFiniteSet(Live(u)) /\ IsFiniteSet(InWindow(u))
      /\ IsFiniteSet(Busy(u)) /\ IsFiniteSet(Admitted(u))
  BY <1>1, <1>2, <1>3, FS_Subset
<1>5. Cardinality(Busy(u)) <= MaxInFlight
  <2>1. Cardinality(Busy(u)) <= Cardinality(InFlight(u))
    BY <1>1, <1>3, FS_Subset
  <2>2. QED
    BY <1>1, <1>4, <2>1, FS_CardinalityType, RateAssumption
<1>6. Cardinality(Live(u)) <= Cardinality(zset[u])
  <2> DEFINE f == [r \in Live(u) |-> EntryOf(r)]
  <2>1. f \in [Live(u) -> zset[u]] /\ \A q, r \in Live(u) : f[q] = f[r] => q = r
    BY DEF Live, EntryOf
  <2>2. f \in Injection(Live(u), zset[u])
    BY <2>1 DEF Injection, IsInjective
  <2>3. QED
    BY <1>1, <2>2, FS_Injection
<1>7. Cardinality(Within(zset[u], clock)) <= Cardinality(Live(u))
  <2> DEFINE S == Within(zset[u], clock)
             g == [e \in S |-> e.req]
  <2>1. \A e \in S : /\ e.req \in RecordedOf(u) /\ e.at = now[e.req]
                     /\ e.at > clock - Window /\ e = [req |-> e.req, at |-> e.at]
                     /\ e \in zset[u]
    BY DEF RateInv, Typed, TypeOK, Ledger, Within, Entries
  <2>2. \A e \in S : e.req \in Live(u)
    BY <2>1 DEF Live, EntryOf
  <2>3. g \in [S -> Live(u)] /\ \A d, e \in S : g[d] = g[e] => d = e
    BY <2>1, <2>2
  <2>4. g \in Injection(S, Live(u))
    BY <2>3 DEF Injection, IsInjective
  <2>5. QED
    BY <1>4, <2>4, FS_Injection
<1>8. QED
  BY <1>1, <1>4, <1>5, <1>6, <1>7

\* A script that admits found fewer than Limit entries; all that is busy is in flight;
\* every other step only turns a busy request into one that counts.
LEMMA RoomStep == RateInv /\ RateInv' /\ RoomKept /\ [Next]_vars => RoomKept'
<1> SUFFICES ASSUME RateInv, RateInv', RoomKept, [Next]_vars, NEW u \in Users
             PROVE  Cardinality(Live(u)' \cup Busy(u)') <= Room
    BY DEF RoomKept, Room
<1>1. /\ IsFiniteSet(Live(u)) /\ IsFiniteSet(Busy(u))
      /\ Typed /\ Cardinality(Live(u) \cup Busy(u)) <= Room
  BY LiveCounted DEF LiveCount, RoomKept, RateInv
<1>2. /\ IsFiniteSet(Live(u)') /\ Cardinality(Live(u)') <= Cardinality(zset'[u])
      /\ IsFiniteSet(Busy(u)') /\ Cardinality(Busy(u)') <= MaxInFlight
      /\ IsFiniteSet(zset'[u])
  <2>1. RateInv' => LiveCount'
    BY LiveCounted, PTL
  <2>2. QED
    BY <2>1 DEF LiveCount
<1>3. ASSUME NEW r \in RequestsOf(u), EvalCheck(r), pc'[r] = "admitted"
      PROVE  Cardinality(Live(u)' \cup Busy(u)') <= Room
  <2>1. /\ Cardinality(zset'[u]) \in Nat /\ Cardinality(Live(u)') \in Nat
        /\ Cardinality(Busy(u)') \in Nat
    BY <1>2, FS_CardinalityType
  <2>2. Cardinality(zset'[u]) < Limit
    <3>1. pc'[r] = IF Cardinality(zset'[u]) >= Limit THEN "oldest" ELSE "admitted"
      BY <1>1, <1>3 DEF EvalCheck, Goto, RequestsOf, Typed, TypeOK
    <3>2. QED
      BY <1>3, <2>1, <3>1, RateAssumption
  <2>3. /\ Cardinality(Live(u)' \cup Busy(u)') \in Nat
        /\ Cardinality(Live(u)' \cup Busy(u)') <= Cardinality(Live(u)') + Cardinality(Busy(u)')
    BY <1>2, <2>1, UnionAtMost
  <2>4. QED
    BY <1>2, <2>1, <2>2, <2>3, RateAssumption DEF Room
<1>4. CASE ~\E r \in RequestsOf(u) : EvalCheck(r) /\ pc'[r] = "admitted"
  <2>1. Busy(u)' \subseteq Busy(u)
    BY <1>1, <1>4, BusyChanges
  <2>2. ASSUME NEW r \in Live(u)' PROVE r \in Live(u) \cup Busy(u)
    <3>1. r \in RequestsOf(u)
      BY DEF Live, RecordedOf
    <3>2. QED
      BY <1>1, <2>2, <3>1, LiveChanges, BusyChanges
  <2>3. Live(u)' \cup Busy(u)' \subseteq Live(u) \cup Busy(u)
    BY <2>1, <2>2
  <2>4. QED
    <3>1. IsFiniteSet(Live(u) \cup Busy(u)) /\ Room \in Int
      BY <1>1, UnionAtMost, RateAssumption DEF Room
    <3>2. QED
      BY <1>1, <2>3, <3>1, SubsetAtMost
<1>5. QED
  BY <1>3, <1>4

\* A request whose recording is in the window is lost when its key expires, and in no
\* other way: a prune takes only what is older, a reset pardons.
LEMMA LostChanges ==
  ASSUME RateInv, [Next]_vars, NEW u \in Users, NEW r \in Lost(u)'
  PROVE  /\ now'[r] = now[r] /\ now[r] \in 0..clock
         /\ r \in Lost(u) \/ (Tick /\ expireAt[u] = clock + 1 /\ r \in Live(u))
<1>1. /\ Typed /\ TypeOK /\ clock \in Nat /\ clock' \in {clock, clock + 1}
      /\ UserOf \in [Requests -> Users]
  BY ClockChanges, UserAssumption DEF RateInv, Typed
<1>2. /\ r \in RecordedOf(u)' /\ r \in RequestsOf(u) /\ r \notin pardoned'
      /\ now'[r] > clock' - Window /\ [req |-> r, at |-> now'[r]] \notin zset'[u]
  BY DEF Lost, InWindow, EntryOf, RecordedOf
<1>3. r \in RecordedOf(u)
  <2> SUFFICES ASSUME r \notin RecordedOf(u) PROVE FALSE
      OBVIOUS
  <2>1. ZAdd(r) /\ now'[r] = now[r]
    BY <1>1, <1>2, RecordedChanges
  <2>2. [req |-> r, at |-> now[r]] \in zset'[u]
    BY <1>1, <1>2, <2>1 DEF ZAdd, SetKey, RequestsOf, TypeOK
  <2>3. QED
    BY <1>2, <2>1, <2>2
<1>4. now'[r] = now[r] /\ now[r] \in 0..clock
  BY <1>1, <1>3, RecordedChanges DEF RecordedOf, RequestsOf, Typed, Timely
<1>5. now[r] > clock - Window
  BY <1>1, <1>2, <1>4, RateAssumption
<1>6. r \notin pardoned
  BY <1>2 DEF Next, vars, Tick, BeginCheck, EvalCheck, FetchOldest, AnswerDuplicate,
              BeginRecord, ZAdd, Expire, Trim, Abort, GetCurrentCount, ResetRateLimit
<1>7. CASE EntryOf(r) \notin zset[u]
  BY <1>3, <1>4, <1>5, <1>6, <1>7 DEF Lost, InWindow
<1>8. CASE EntryOf(r) \in zset[u]
  <2>1. EntryOf(r) \notin zset'[u] /\ EntryOf(r).at = now[r] /\ EntryOf(r).req = r
    BY <1>2, <1>4 DEF EntryOf
  <2>2. r \in Live(u)
    BY <1>3, <1>5, <1>8 DEF Live
  <2>3. ASSUME NEW v \in Users, NEW t \in 0..clock, Prune(v, t) PROVE FALSE
    <3>1. zset'[u] = zset[u] \/ zset'[u] = Within(zset[u], t)
      BY <1>1, <2>3, PruneShrinks
    <3>2. now[r] > t - Window
      BY <1>1, <1>4, <1>5, RateAssumption
    <3>3. QED
      BY <1>8, <2>1, <3>1, <3>2 DEF Within
  <2>4. ~\E q \in Requests : EvalCheck(q) \/ Trim(q)
    BY <1>1, <2>3 DEF EvalCheck, Trim, Typed, Timely
  <2>5. ~\E v \in Users : GetCurrentCount(v)
    BY <2>3 DEF GetCurrentCount
  <2>6. ~\E v \in Users : ResetRateLimit(v)
    <3> SUFFICES ASSUME NEW v \in Users, ResetRateLimit(v) PROVE FALSE
        OBVIOUS
    <3>1. u # v => zset'[u] = zset[u]
      BY <1>1 DEF ResetRateLimit, SetKey, TypeOK
    <3>2. u = v
      BY <1>8, <2>1, <3>1
    <3>3. r \in pardoned'
      BY <1>8, <2>1, <3>2 DEF ResetRateLimit
    <3>4. QED
      BY <1>2, <3>3
  <2>7. ~\E q \in Requests : ZAdd(q) \/ Expire(q)
    BY <1>1, <1>8, <2>1 DEF ZAdd, Expire, SetKey, TypeOK
  <2>8. zset' # zset
    BY <1>8, <2>1
  <2>9. Tick
    BY <2>4, <2>5, <2>6, <2>7, <2>8
       DEF Next, vars, BeginCheck, FetchOldest, AnswerDuplicate, BeginRecord, Abort
  <2>10. expireAt[u] = clock + 1
    BY <1>8, <2>1, <2>9 DEF Tick
  <2>11. QED
    BY <1>4, <2>2, <2>9, <2>10
<1>9. QED
  BY <1>4, <1>7, <1>8

\* A key gets a time to live of more than a window, keeps the one it has, or loses it.
LEMMA TtlChanges ==
  ASSUME RateInv, [Next]_vars, NEW u \in Users, expireAt'[u] \in Nat
  PROVE  expireAt'[u] = expireAt[u] \/ expireAt'[u] >= clock + Window
<1>1. /\ TypeOK /\ clock \in Nat /\ UserOf \in [Requests -> Users]
      /\ expireAt \in [Users -> Nat \cup {NoTTL}] /\ NoTTL \notin Nat
  BY UserAssumption, RateAssumption DEF RateInv, Typed, TypeOK
<1>2. ASSUME NEW v \in Users, NEW entries, NEW ttl, SetKey(v, entries, ttl),
             ttl = expireAt[v] \/ ttl = clock + Window + Grace \/ ttl = NoTTL
      PROVE  expireAt'[u] = expireAt[u] \/ expireAt'[u] >= clock + Window
  <2>1. expireAt' = [expireAt EXCEPT ![v] = IF entries = {} THEN NoTTL ELSE ttl]
    BY <1>2 DEF SetKey
  <2>2. expireAt'[u] \in {expireAt[u], clock + Window + Grace, NoTTL}
    BY <1>1, <1>2, <2>1
  <2>3. QED
    BY <1>1, <2>2, RateAssumption
<1>3. CASE \/ \E r \in Requests : EvalCheck(r) \/ ZAdd(r) \/ Expire(r) \/ Trim(r)
           \/ \E v \in Users : GetCurrentCount(v) \/ ResetRateLimit(v)
  BY <1>1, <1>2, <1>3
     DEF EvalCheck, ZAdd, Expire, Trim, GetCurrentCount, ResetRateLimit, Prune
<1>4. CASE Tick
  BY <1>1, <1>4 DEF Tick
<1>5. CASE UNCHANGED expireAt
  BY <1>5
<1>6. QED
  BY <1>3, <1>4, <1>5
     DEF Next, vars, BeginCheck, FetchOldest, AnswerDuplicate, BeginRecord, Abort

\* When the key expires, what was lost before has left the window, and what is lost
\* now was live; at no other time is anything lost.
LEMMA LossStep == RateInv /\ RateInv' /\ RoomKept /\ LossKept /\ [Next]_vars => LossKept'
<1> SUFFICES ASSUME RateInv, RateInv', RoomKept, LossKept, [Next]_vars, NEW u \in Users
             PROVE  /\ \A r \in Lost(u)' :
                         expireAt'[u] \in Nat => now'[r] + Window <= expireAt'[u]
                    /\ Cardinality(Lost(u)') <= Room
    BY DEF LossKept, Room
<1>1. /\ \A r \in Lost(u) : expireAt[u] \in Nat => now[r] + Window <= expireAt[u]
      /\ Cardinality(Lost(u)) <= Room
      /\ Cardinality(Live(u) \cup Busy(u)) <= Room /\ Room \in Int
      /\ clock \in Nat /\ TypeOK
  <2>1. Room \in Int /\ clock \in Nat /\ TypeOK
    BY RateAssumption DEF Room, RateInv, Typed, TypeOK
  <2>2. QED
    BY <2>1 DEF LossKept, RoomKept
<1>2. IsFiniteSet(Lost(u)) /\ IsFiniteSet(Live(u) \cup Busy(u))
  <2>1. IsFiniteSet(InWindow(u)) /\ IsFiniteSet(Live(u)) /\ IsFiniteSet(Busy(u))
    BY LiveCounted DEF LiveCount
  <2>2. Lost(u) \subseteq InWindow(u)
    BY DEF Lost
  <2>3. QED
    BY <2>1, <2>2, FS_Subset, UnionAtMost
<1>3. ASSUME NEW r \in Lost(u)', expireAt'[u] \in Nat
      PROVE  now'[r] + Window <= expireAt'[u]
  <2>1. now'[r] = now[r] /\ now[r] \in 0..clock
    BY LostChanges
  <2>2. CASE r \in Lost(u)
    BY <1>1, <1>3, <2>1, <2>2, TtlChanges, RateAssumption
  <2>3. CASE Tick /\ expireAt[u] = clock + 1
    BY <1>1, <1>3, <2>3, RateAssumption DEF Tick
  <2>4. QED
    BY <2>2, <2>3, LostChanges
<1>4. Cardinality(Lost(u)') <= Room
  <2>1. CASE Tick /\ expireAt[u] = clock + 1
    <3>1. ASSUME NEW r \in Lost(u)' PROVE r \in Live(u)
      <4>1. now'[r] > clock' - Window /\ clock' = clock + 1
        BY <2>1 DEF Lost, InWindow, Tick
      <4>2. now'[r] = now[r] /\ now[r] \in 0..clock
        BY LostChanges
      <4>3. r \notin Lost(u)
        BY <1>1, <2>1, <4>1, <4>2, RateAssumption
      <4>4. QED
        BY <4>3, LostChanges
    <3>2. Lost(u)' \subseteq Live(u) \cup Busy(u)
      BY <3>1
    <3>3. QED
      BY <1>1, <1>2, <3>2, SubsetAtMost
  <2>2. CASE ~(Tick /\ expireAt[u] = clock + 1)
    <3>1. Lost(u)' \subseteq Lost(u)
      BY <2>2, LostChanges
    <3>2. QED
      BY <1>1, <1>2, <3>1, SubsetAtMost
  <2>3. QED
    BY <2>1, <2>2
<1>5. QED
  BY <1>3, <1>4

\* Both hold in every reachable state: at first nothing is recorded.
LEMMA RoomAndLossKept == Spec => [](RoomKept /\ LossKept)
<1>1. Init => RoomKept /\ LossKept
  <2> SUFFICES ASSUME Init, NEW u \in Users
               PROVE  /\ Lost(u) = {} /\ Live(u) \cup Busy(u) = {}
                      /\ Cardinality({}) <= Room
      BY DEF RoomKept, LossKept
  <2>1. Lost(u) = {} /\ Live(u) \cup Busy(u) = {}
    BY DEF Init, Lost, InWindow, Live, Busy, RecordedOf, RequestsOf
  <2>2. QED
    BY <2>1, FS_EmptySet, RateAssumption DEF Room
<1>2. QED
  BY <1>1, RoomStep, LossStep, RateInvAlways, PTL DEF Spec

\* A request in the window counts, or it is lost; a lost one that no EXPIRE had covered
\* is forgotten when its recording is over.
LEMMA WindowSplits ==
  ASSUME RateInv, NEW u \in Users
  PROVE  /\ InWindow(u) \cup Admitted(u) \subseteq (Live(u) \cup Busy(u)) \cup Lost(u)
         /\ CoveredEntriesSurvive => Lost(u) \subseteq Busy(u) \cup Forgotten(u)
         /\ InWindow(u) \cap Admitted(u) = {}
<1>1. InWindow(u) \cup Admitted(u) \subseteq (Live(u) \cup Busy(u)) \cup Lost(u)
  BY DEF InWindow, Admitted, Live, Busy, Lost
<1>2. ASSUME CoveredEntriesSurvive, NEW r \in Lost(u) PROVE r \in Busy(u) \cup Forgotten(u)
  <2>1. r \in InWindow(u) /\ EntryOf(r) \notin zset[u]
    BY <1>2 DEF Lost
  <2>2. /\ now[r] > clock - Window /\ UserOf[r] = u /\ r \in RequestsOf(u)
        /\ pc[r] \in {"expire", "trim", "recorded"}
    BY <2>1 DEF InWindow, RecordedOf, RequestsOf
  <2>3. r \notin refreshed
    BY <1>2, <2>1, <2>2 DEF CoveredEntriesSurvive
  <2>4. QED
    BY <2>1, <2>2, <2>3 DEF Busy, Forgotten
<1>3. InWindow(u) \cap Admitted(u) = {}
  BY DEF InWindow, RecordedOf, Admitted
<1>4. QED
  BY <1>1, <1>2, <1>3

\* However many requests of a user overlap, break off or come when the key expires, the
\* window exceeds the limit at most by those that were in flight together and by those
\* whose entry the key has forgotten (checkRateLimit counts, recordRequest adds).
THEOREM AdmissionsBounded == Spec => []AdmissionBound
<1>1. RateInv /\ RoomKept /\ CoveredEntriesSurvive => AdmissionBound
  <2> SUFFICES ASSUME RateInv, RoomKept, CoveredEntriesSurvive, NEW u \in Users
               PROVE  Cardinality(InWindow(u)) + Cardinality(Admitted(u))
                        <= Limit - 1 + MaxInFlight + Cardinality(Forgotten(u))
      BY DEF AdmissionBound
  <2> DEFINE room == Live(u) \cup Busy(u)
             all == InWindow(u) \cup Admitted(u)
  <2>1. /\ IsFiniteSet(InWindow(u)) /\ IsFiniteSet(Admitted(u)) /\ IsFiniteSet(room)
        /\ IsFiniteSet(Forgotten(u)) /\ Cardinality(room) <= Room
    <3>1. /\ IsFiniteSet(InWindow(u)) /\ IsFiniteSet(Admitted(u))
          /\ IsFiniteSet(Live(u)) /\ IsFiniteSet(Busy(u))
      BY LiveCounted DEF LiveCount
    <3>2. Forgotten(u) \subseteq InWindow(u)
      BY DEF Forgotten
    <3>3. QED
      BY <3>1, <3>2, FS_Subset, UnionAtMost DEF RoomKept
  <2>2. all \subseteq room \cup Forgotten(u) /\ InWindow(u) \cap Admitted(u) = {}
    BY WindowSplits
  <2> HIDE DEF room
  <2>3. Cardinality(all) = Cardinality(InWindow(u)) + Cardinality(Admitted(u))
    BY <2>1, <2>2, DisjointUnion
  <2> HIDE DEF all
  <2>4. /\ Cardinality(all) <= Cardinality(room \cup Forgotten(u))
        /\ IsFiniteSet(all)
    BY <2>1, <2>2, FS_Subset, UnionAtMost
  <2>5. Cardinality(room \cup Forgotten(u)) <= Cardinality(room) + Cardinality(Forgotten(u))
    BY <2>1, UnionAtMost
  <2>6. /\ Cardinality(all) \in Nat /\ Cardinality(room \cup Forgotten(u)) \in Nat
        /\ Cardinality(room) \in Nat /\ Cardinality(Forgotten(u)) \in Nat
    BY <2>1, <2>4, UnionAtMost, FS_CardinalityType
  <2>7. QED
    BY <2>1, <2>3, <2>4, <2>5, <2>6, RateAssumption DEF Room
<1>2. QED
  BY <1>1, RoomAndLossKept, CoveredEntriesKept, RateInvAlways, PTL

\* What the key can forget is at most what it once had room for: a window never holds
\* more than twice that, and twice the limit when requests do not overlap.
THEOREM ForgettingBounded == Spec => []ForgetsOncePerWindow
<1>1. RateInv /\ RoomKept /\ LossKept => ForgetsOncePerWindow
  <2> SUFFICES ASSUME RateInv, RoomKept, LossKept, NEW u \in Users
               PROVE  Cardinality(InWindow(u)) + Cardinality(Admitted(u))
                        <= 2 * (Limit - 1 + MaxInFlight)
      BY DEF ForgetsOncePerWindow
  <2> DEFINE room == Live(u) \cup Busy(u)
             all == InWindow(u) \cup Admitted(u)
  <2>1. /\ IsFiniteSet(InWindow(u)) /\ IsFiniteSet(Admitted(u)) /\ IsFiniteSet(room)
        /\ IsFiniteSet(Lost(u)) /\ Cardinality(room) <= Room /\ Cardinality(Lost(u)) <= Room
    <3>1. /\ IsFiniteSet(InWindow(u)) /\ IsFiniteSet(Admitted(u))
          /\ IsFiniteSet(Live(u)) /\ IsFiniteSet(Busy(u))
      BY LiveCounted DEF LiveCount
    <3>2. Lost(u) \subseteq InWindow(u)
      BY DEF Lost
    <3>3. QED
      BY <3>1, <3>2, FS_Subset, UnionAtMost DEF RoomKept, LossKept
  <2>2. all \subseteq room \cup Lost(u) /\ InWindow(u) \cap Admitted(u) = {}
    BY WindowSplits
  <2> HIDE DEF room
  <2>3. Cardinality(all) = Cardinality(InWindow(u)) + Cardinality(Admitted(u))
    BY <2>1, <2>2, DisjointUnion
  <2> HIDE DEF all
  <2>4. Cardinality(all) <= Cardinality(room \cup Lost(u)) /\ IsFiniteSet(all)
    BY <2>1, <2>2, FS_Subset, UnionAtMost
  <2>5. Cardinality(room \cup Lost(u)) <= Cardinality(room) + Cardinality(Lost(u))
    BY <2>1, UnionAtMost
  <2>6. /\ Cardinality(all) \in Nat /\ Cardinality(room \cup Lost(u)) \in Nat
        /\ Cardinality(room) \in Nat /\ Cardinality(Lost(u)) \in Nat
    BY <2>1, <2>4, UnionAtMost, FS_CardinalityType
  <2>7. QED
    BY <2>1, <2>3, <2>4, <2>5, <2>6, RateAssumption DEF Room
<1>2. QED
  BY <1>1, RoomAndLossKept, RateInvAlways, PTL

-----------------------------------------------------------------------------
(* HonestRetryAfter. *)

\* While a check of a user who sends one request at a time is under way, no entry is
\* younger than the check, and the window of the check holds Limit entries at most.
CheckIsAlone ==
  \A r \in Requests :
    LET entries == zset[UserOf[r]]
    IN /\ pc[r] \in {"eval", "oldest"} =>
            /\ \A e \in entries : e.at <= now[r]
            /\ Cardinality(Within(entries, now[r])) <= Limit
       /\ pc[r] = "oldest" => Cardinality(entries) <= Limit

\* Two requests of one user are not in flight together.
LEMMA OneInFlight ==
  ASSUME MaxInFlight = 1, RateInv, NEW u \in Users,
         NEW q \in InFlight(u), NEW r \in InFlight(u)
  PROVE  q = r
<1>1. IsFiniteSet(InFlight(u)) /\ Cardinality(InFlight(u)) <= 1
  BY DEF RateInv, Counted
<1>2. {q, r} \subseteq InFlight(u)
  OBVIOUS
<1>3. Cardinality({q, r}) <= Cardinality(InFlight(u)) /\ IsFiniteSet({q, r})
  BY <1>1, <1>2, FS_Subset
<1>4. IsFiniteSet({q}) /\ Cardinality({q}) = 1
  BY FS_Singleton
<1>5. q # r => Cardinality({q} \cup {r}) = 2
  <2>1. Cardinality({q} \cup {r}) = IF r \in {q} THEN 1 ELSE 1 + 1
    BY <1>4, FS_AddElement
  <2>2. QED
    BY <2>1
<1>6. {q, r} = {q} \cup {r}
  OBVIOUS
<1>7. Cardinality(InFlight(u)) \in Nat /\ Cardinality({q, r}) \in Nat
  BY <1>1, <1>3, FS_CardinalityType
<1>8. QED
  BY <1>1, <1>3, <1>5, <1>6, <1>7

\* The entries of a user cannot become more while a check of the user is under way.
LEMMA SetShrinksDuringCheck ==
  ASSUME MaxInFlight = 1, RateInv, [Next]_vars, NEW r \in Requests,
         pc[r] \in {"eval", "oldest"}
  PROVE  /\ zset'[UserOf[r]] \subseteq zset[UserOf[r]]
         /\ \A t : Within(zset'[UserOf[r]], t) \subseteq Within(zset[UserOf[r]], t)
<1> DEFINE u == UserOf[r]
<1>1. u \in Users /\ r \in InFlight(u) /\ Typed
  BY UserAssumption DEF RateInv, InFlight, RequestsOf
<1>2. ASSUME NEW q \in RequestsOf(u), ZAdd(q) PROVE FALSE
  <2>1. q \in InFlight(u) /\ pc[q] = "zadd"
    BY <1>2 DEF ZAdd, InFlight
  <2>2. QED
    BY <1>1, <2>1, OneInFlight
<1>3. zset'[u] \subseteq zset[u]
  BY <1>1, <1>2, ZsetChanges
<1>4. QED
  BY <1>3 DEF Within

\* The check begins with what there is room for; nothing is added later.
LEMMA CheckIsAloneStep ==
  ASSUME MaxInFlight = 1
  PROVE  RateInv /\ RateInv' /\ RoomKept /\ CheckIsAlone /\ [Next]_vars => CheckIsAlone'
<1> SUFFICES ASSUME RateInv, RateInv', RoomKept, CheckIsAlone, [Next]_vars,
                    NEW r \in Requests, pc'[r] \in {"eval", "oldest"}
             PROVE  /\ \A e \in zset'[UserOf[r]] : e.at <= now'[r]
                    /\ Cardinality(Within(zset'[UserOf[r]], now'[r])) <= Limit
                    /\ pc'[r] = "oldest" => Cardinality(zset'[UserOf[r]]) <= Limit
    BY DEF CheckIsAlone, Within
<1> DEFINE u == UserOf[r]
<1>1. Typed /\ TypeOK /\ u \in Users
  BY UserAssumption DEF RateInv, Typed
<1>2. IsFiniteSet(zset[u]) /\ IsFiniteSet(zset'[u])
  BY <1>1 DEF RateInv, Counted
<1>3. CASE pc[r] \in {"eval", "oldest"}
  <2>1. now'[r] = now[r] /\ (pc'[r] = pc[r] \/ (EvalCheck(r) /\ pc'[r] = "oldest"))
    <3>1. CASE UNCHANGED <<pc, now>>
      BY <3>1
    <3>2. ASSUME NEW q \in Requests,
                 pc' = [pc EXCEPT ![q] = pc'[q]], now' = [now EXCEPT ![q] = now'[q]],
                 \/ BeginCheck(q) \/ EvalCheck(q) \/ FetchOldest(q) \/ AnswerDuplicate(q)
                 \/ BeginRecord(q) \/ ZAdd(q) \/ Expire(q) \/ Trim(q) \/ Abort(q)
          PROVE  now'[r] = now[r] /\ (pc'[r] = pc[r] \/ (EvalCheck(r) /\ pc'[r] = "oldest"))
      <4>1. CASE q = r
        BY <1>1, <1>3, <3>2, <4>1
           DEF TypeOK, Goto, BeginCheck, EvalCheck, FetchOldest, AnswerDuplicate,
               BeginRecord, ZAdd, Expire, Trim, Abort
      <4>2. CASE q # r
        BY <1>1, <3>2, <4>2 DEF TypeOK
      <4>3. QED
        BY <4>1, <4>2
    <3>3. QED
      BY <1>1, <3>1, <3>2, PcChanges
  <2>2. /\ zset'[u] \subseteq zset[u]
        /\ Within(zset'[u], now[r]) \subseteq Within(zset[u], now[r])
    BY <1>3, SetShrinksDuringCheck
  <2>3. /\ \A e \in zset[u] : e.at <= now[r]
        /\ Cardinality(Within(zset[u], now[r])) <= Limit
    BY <1>3 DEF CheckIsAlone
  <2>4. Within(zset[u], now[r]) \subseteq zset[u]
    BY DEF Within
  <2>5. IsFiniteSet(Within(zset[u], now[r]))
    BY <1>2, <2>4, FS_Subset
  <2>6. /\ Cardinality(Within(zset'[u], now[r])) <= Cardinality(Within(zset[u], now[r]))
        /\ IsFiniteSet(Within(zset'[u], now[r]))
    BY <2>2, <2>5, FS_Subset
  <2>7. Cardinality(Within(zset'[u], now[r])) <= Limit
    BY <2>3, <2>5, <2>6, FS_CardinalityType, RateAssumption
  <2>8. ASSUME pc'[r] = "oldest" PROVE Cardinality(zset'[u]) <= Limit
    <3>1. CASE pc[r] = "oldest"
      <4>1. Cardinality(zset[u]) <= Limit
        BY <3>1 DEF CheckIsAlone
      <4>2. Cardinality(zset'[u]) <= Cardinality(zset[u])
        BY <1>2, <2>2, FS_Subset
      <4>3. QED
        BY <1>2, <4>1, <4>2, FS_CardinalityType, RateAssumption
    <3>2. CASE EvalCheck(r)
      <4>1. zset'[u] = Within(zset[u], now[r])
        BY <1>1, <3>2, PruneShrinks DEF EvalCheck
      <4>2. QED
        BY <2>3, <4>1
    <3>3. QED
      BY <2>1, <2>8, <3>1, <3>2
  <2>9. QED
    BY <2>1, <2>2, <2>3, <2>7, <2>8
<1>4. CASE pc[r] \notin {"eval", "oldest"}
  <2>1. BeginCheck(r)
    <3>1. PICK q \in Requests :
            /\ \/ BeginCheck(q) \/ EvalCheck(q) \/ FetchOldest(q) \/ AnswerDuplicate(q)
               \/ BeginRecord(q) \/ ZAdd(q) \/ Expire(q) \/ Trim(q) \/ Abort(q)
            /\ pc' = [pc EXCEPT ![q] = pc'[q]]
      BY <1>1, <1>4, PcChanges
    <3>2. q = r
      BY <1>1, <1>4, <3>1 DEF TypeOK
    <3>3. QED
      BY <1>1, <1>4, <3>1, <3>2
         DEF TypeOK, Goto, BeginCheck, EvalCheck, FetchOldest, AnswerDuplicate,
             BeginRecord, ZAdd, Expire, Trim, Abort
  <2>2. now'[r] = clock /\ pc'[r] = "eval" /\ zset' = zset
    BY <1>1, <2>1 DEF BeginCheck, Goto, TypeOK
  <2>3. \A e \in zset[u] : e.at <= clock
    <3>1. \A e \in zset[u] : e.req \in RecordedOf(u) /\ e.at = now[e.req]
      BY <1>1 DEF RateInv, Ledger
    <3>2. \A q \in RecordedOf(u) : now[q] \in 0..clock
      BY <1>1 DEF RecordedOf, RequestsOf, Typed, Timely
    <3>3. QED
      BY <1>1, <3>1, <3>2 DEF TypeOK
  <2>4. Cardinality(Within(zset[u], clock)) <= Limit
    <3>1. /\ Cardinality(Within(zset[u], clock)) <= Cardinality(Live(u))
          /\ IsFiniteSet(Live(u)) /\ IsFiniteSet(Busy(u)) /\ IsFiniteSet(zset[u])
      BY <1>1, LiveCounted DEF LiveCount
    <3>2. Cardinality(Live(u) \cup Busy(u)) <= Room
      BY <1>1 DEF RoomKept
    <3>3. Room = Limit /\ Room \in Int
      BY RateAssumption DEF Room
    <3>4. Cardinality(Live(u)) <= Room
      BY <3>1, <3>2, <3>3, UnionAtMost, SubsetAtMost
    <3>5. IsFiniteSet(Within(zset[u], clock))
      BY <3>1, FS_Subset DEF Within
    <3>6. QED
      BY <3>1, <3>3, <3>4, <3>5, FS_CardinalityType
  <2>5. QED
    BY <2>2, <2>3, <2>4
<1>5. QED
  BY <1>3, <1>4

\* The oldest entry leaves the window when the announced time is over.
LEMMA RetryAfterHonest ==
  ASSUME RateInv, NEW r \in Requests, FetchOldest(r), Cardinality(zset[UserOf[r]]) <= Limit,
         \A e \in zset[UserOf[r]] : e.at <= now[r]
  PROVE  /\ resetIn'[r] \in 1..CeilSeconds(Window)
         /\ Cardinality(Within(zset[UserOf[r]], now[r] + resetIn'[r] * TicksPerSecond)) < Limit
<1>1. TypeOK /\ UserOf[r] \in Users /\ now[r] \in Nat
  <2>1. Typed /\ pc[r] = "oldest"
    BY DEF RateInv, FetchOldest
  <2>2. now[r] \in 0..clock /\ clock \in Nat
    BY <2>1 DEF Typed, TypeOK, Timely
  <2>3. QED
    BY <2>1, <2>2, UserAssumption DEF Typed
<1> DEFINE u == UserOf[r]
           retryAt == now[r] + resetIn'[r] * TicksPerSecond
<1>2. resetIn'[r] = AtLeastOne(SecondsToReset(u, now[r]))
  BY <1>1 DEF FetchOldest, TypeOK
<1>3. CeilSeconds(Window) \in Int /\ CeilSeconds(Window) >= 1
  BY CeilSecondsBounds, CeilSecondsPositive, RateAssumption
<1>4. IsFiniteSet(zset[u])
  BY <1>1 DEF RateInv, Counted
<1>5. CASE zset[u] = {}
  <2>1. resetIn'[r] = CeilSeconds(Window)
    BY <1>2, <1>3, <1>5 DEF SecondsToReset, AtLeastOne
  <2>2. Within(zset[u], retryAt) = {}
    BY <1>5 DEF Within
  <2>3. Cardinality(Within(zset[u], retryAt)) = 0
    BY <2>2, FS_EmptySet
  <2>4. QED
    BY <1>3, <2>1, <2>3, RateAssumption
<1>6. CASE zset[u] # {}
  <2> DEFINE oldest == CHOOSE e \in zset[u] : \A f \in zset[u] : e.at <= f.at
  <2>1. oldest \in zset[u] /\ \A f \in zset[u] : oldest.at <= f.at
    BY <1>1, <1>6, OldestExists DEF TypeOK
  <2>2. SecondsToReset(u, now[r]) = CeilSeconds(oldest.at + Window - now[r])
    BY <1>6 DEF SecondsToReset
  <2> HIDE DEF oldest
  <2>3. oldest.at \in Nat /\ oldest.at <= now[r]
    BY <1>1, <2>1 DEF TypeOK, Entries
  <2> DEFINE wait == oldest.at + Window - now[r]
             secs == CeilSeconds(wait)
  <2>4. wait \in Int /\ wait <= Window /\ Window \in Int
    BY <1>1, <2>3, RateAssumption
  <2>5. /\ secs \in Int /\ secs <= CeilSeconds(Window)
        /\ secs * TicksPerSecond >= wait
    <3> HIDE DEF wait
    <3> QED
      BY <2>4, CeilSecondsBounds, CeilSecondsMonotone
  <2>6. resetIn'[r] = AtLeastOne(secs)
    BY <1>2, <2>2
  <2> HIDE DEF secs
  <2>7. resetIn'[r] \in 1..CeilSeconds(Window) /\ resetIn'[r] >= secs
    BY <1>3, <2>5, <2>6 DEF AtLeastOne
  <2>8. resetIn'[r] * TicksPerSecond >= wait /\ resetIn'[r] * TicksPerSecond \in Int
    <3> HIDE DEF wait
    <3>1. resetIn'[r] * TicksPerSecond >= secs * TicksPerSecond
      BY <1>3, <2>5, <2>7, RateAssumption
    <3>2. QED
      BY <1>3, <2>4, <2>5, <2>7, <3>1, RateAssumption
  <2>9. oldest.at <= retryAt - Window
    BY <1>1, <2>3, <2>8, RateAssumption
  <2>10. Within(zset[u], retryAt) \subseteq zset[u] \ {oldest}
    <3> HIDE DEF retryAt
    <3>1. ~(oldest.at > retryAt - Window)
      BY <1>1, <2>3, <2>8, <2>9, RateAssumption DEF retryAt
    <3>2. QED
      BY <3>1 DEF Within
  <2>11. /\ IsFiniteSet(zset[u] \ {oldest})
         /\ Cardinality(zset[u] \ {oldest}) = Cardinality(zset[u]) - 1
    BY <1>4, <2>1, FS_RemoveElement
  <2>12. /\ Cardinality(Within(zset[u], retryAt)) <= Cardinality(zset[u] \ {oldest})
         /\ IsFiniteSet(Within(zset[u], retryAt))
    <3> HIDE DEF retryAt
    <3> QED
      BY <2>10, <2>11, FS_Subset
  <2>13. Cardinality(Within(zset[u], retryAt)) < Limit
    <3> HIDE DEF retryAt
    <3> QED
      BY <1>4, <2>11, <2>12, FS_CardinalityType, RateAssumption
  <2>14. QED
    BY <2>7, <2>13
<1>7. QED
  BY <1>5, <1>6

\* The retryAfter of a 429 is honest for a user whose requests do not overlap: it is
\* within the window, and when it is over a place is free.
THEOREM RetryAfterIsHonest == Spec => HonestRetryAfter
<1>1. CASE MaxInFlight = 1
  <2>1. Init => CheckIsAlone
    BY DEF Init, CheckIsAlone
  <2>2. Spec => []RoomKept
    BY RoomAndLossKept, PTL
  <2>3. RateInv /\ RateInv' /\ RoomKept /\ CheckIsAlone /\ [Next]_vars => CheckIsAlone'
    BY <1>1, CheckIsAloneStep
  <2>4. ASSUME RateInv, CheckIsAlone, [Next]_vars,
               NEW r \in Requests, pc[r] = "oldest", pc'[r] = "denied"
        PROVE  /\ resetIn'[r] \in 1..CeilSeconds(Window)
               /\ Cardinality(Within(zset[UserOf[r]],
                                     now[r] + resetIn'[r] * TicksPerSecond)) < Limit
    <3>1. PICK q \in Requests :
            /\ \/ BeginCheck(q) \/ EvalCheck(q) \/ FetchOldest(q) \/ AnswerDuplicate(q)
               \/ BeginRecord(q) \/ ZAdd(q) \/ Expire(q) \/ Trim(q) \/ Abort(q)
            /\ pc' = [pc EXCEPT ![q] = pc'[q]]
      BY <2>4, PcChanges DEF RateInv
    <3>2. q = r
      BY <2>4, <3>1 DEF RateInv, Typed, TypeOK
    <3>3. FetchOldest(r)
      BY <2>4, <3>1, <3>2
         DEF RateInv, Typed, TypeOK, Goto, BeginCheck, EvalCheck, FetchOldest,
             AnswerDuplicate, BeginRecord, ZAdd, Expire, Trim, Abort
    <3>4. /\ Cardinality(zset[UserOf[r]]) <= Limit
          /\ \A e \in zset[UserOf[r]] : e.at <= now[r]
      BY <2>4 DEF CheckIsAlone
    <3>5. QED
      BY <2>4, <3>3, <3>4, RetryAfterHonest
  <2>5. RateInv /\ CheckIsAlone /\ [Next]_vars =>
          [MaxInFlight = 1 =>
             \A r \in Requests :
               pc[r] = "oldest" /\ pc'[r] = "denied" =>
                 LET retryAt == now[r] + resetIn'[r] * TicksPerSecond
                 IN /\ resetIn'[r] \in 1..CeilSeconds(Window)
                    /\ Cardinality(Within(zset[UserOf[r]], retryAt)) < Limit]_vars
    BY <2>4
  <2>6. QED
    BY <2>1, <2>2, <2>3, <2>5, RateInvAlways, PTL DEF Spec, HonestRetryAfter
<1>2. CASE MaxInFlight # 1
  <2>1. [Next]_vars =>
          [MaxInFlight = 1 =>
             \A r \in Requests :
               pc[r] = "oldest" /\ pc'[r] = "denied" =>
                 LET retryAt == now[r] + resetIn'[r] * TicksPerSecond
                 IN /\ resetIn'[r] \in 1..CeilSeconds(Window)
                    /\ Cardinality(Within(zset[UserOf[r]], retryAt)) < Limit]_vars
    BY <1>2
  <2>2. QED
    BY <2>1, PTL DEF Spec, HonestRetryAfter
<1>3. QED
  BY <1>1, <1>2

-----------------------------------------------------------------------------
(* ImplementsWindow. *)

\* The refinement mapping.
WindowMap == [u \in Users |-> {e.req : e \in zset[u]}]
VerdictMap == [r \in Requests |-> VerdictOn(r)]

\* Entries of different requests are counted once each.
LEMMA EntriesCounted ==
  ASSUME NEW S \in SUBSET Entries, IsFiniteSet(S),
         \A d, e \in S : d.req = e.req => d = e
  PROVE  Cardinality({e.req : e \in S}) = Cardinality(S)
<1> DEFINE T == {e.req : e \in S}
           f == [e \in S |-> e.req]
<1>1. f \in [S -> T] /\ \A x \in T : \E e \in S : f[e] = x
  OBVIOUS
<1>2. \A d, e \in S : f[d] = f[e] => d = e
  OBVIOUS
<1>3. f \in Bijection(S, T)
  BY <1>1, <1>2 DEF Bijection, Injection, IsInjective, Surjection
<1>4. ExistsBijection(S, T)
  BY <1>3 DEF ExistsBijection
<1>5. QED
  BY <1>4, FS_Bijection

\* The contract counts as the rate limiter does.
LEMMA SameCount ==
  ASSUME NEW S
  PROVE  Contract!Cardinality(S) = Cardinality(S)
BY DEF Contract!Cardinality, Cardinality

\* A handler that moves on changes the verdict on its own request only.
LEMMA VerdictMoves ==
  ASSUME RateInv, NEW r \in Requests, NEW step, Goto(r, step)
  PROVE  /\ VerdictMap' = [VerdictMap EXCEPT ![r] = VerdictOn(r)']
         /\ pc'[r] = step
         /\ VerdictMap[r] = VerdictOn(r)
         /\ VerdictOn(r)' = VerdictOn(r) => UNCHANGED VerdictMap
<1>1. pc \in [Requests -> Steps] /\ pc' = [pc EXCEPT ![r] = step]
  BY DEF RateInv, Typed, TypeOK, Goto
<1>2. \A q \in Requests \ {r} : VerdictOn(q)' = VerdictOn(q)
  BY <1>1 DEF VerdictOn
<1>3. QED
  BY <1>1, <1>2 DEF VerdictMap

\* Sets of entries that shrink are windows that age.
LEMMA ShrinkingAges ==
  ASSUME RateInv, RateInv', \A u \in Users : zset'[u] \subseteq zset[u]
  PROVE  /\ WindowMap' \in [Users -> SUBSET Requests]
         /\ \A u \in Users : WindowMap'[u] \subseteq WindowMap[u]
<1>1. zset' \in [Users -> SUBSET Entries]
  BY DEF RateInv, Typed, TypeOK
<1>2. QED
  BY <1>1 DEF WindowMap, Entries

\* The script of the check is the Check of the contract.
LEMMA EvalCheckRefines ==
  ASSUME RateInv, RateInv', NEW r \in Requests, EvalCheck(r)
  PROVE  Contract!Check(r)
<1> DEFINE u == UserOf[r]
<1>1. TypeOK /\ u \in Users
  BY UserAssumption DEF RateInv, Typed
<1>2. \A v \in Users : zset'[v] \subseteq zset[v] /\ (v # u => zset'[v] = zset[v])
  BY <1>1, PruneShrinks DEF EvalCheck
<1>3. /\ WindowMap' \in [Users -> SUBSET Requests]
      /\ \A v \in Users : WindowMap'[v] \subseteq WindowMap[v]
      /\ \A v \in Users \ {u} : WindowMap'[v] = WindowMap[v]
  BY <1>2, ShrinkingAges DEF WindowMap
<1>4. Cardinality(WindowMap'[u]) = Cardinality(zset'[u])
  <2>1. zset'[u] \in SUBSET Entries /\ IsFiniteSet(zset'[u])
    BY <1>1 DEF RateInv, Typed, TypeOK, Counted
  <2>2. \A e \in zset'[u] : e.at = now'[e.req] /\ e = [req |-> e.req, at |-> e.at]
    BY <1>1, <2>1 DEF RateInv, Ledger, Entries
  <2>3. Cardinality({e.req : e \in zset'[u]}) = Cardinality(zset'[u])
    BY <2>1, <2>2, EntriesCounted
  <2>4. QED
    BY <1>1, <2>3 DEF WindowMap
<1>5. /\ VerdictMap' = [VerdictMap EXCEPT ![r] = VerdictOn(r)']
      /\ VerdictMap[r] = "none"
      /\ VerdictOn(r)' = IF Cardinality(zset'[u]) >= Limit THEN "limited" ELSE "allowed"
  BY VerdictMoves DEF EvalCheck, VerdictOn
<1>6. Cardinality(zset'[u]) \in Nat /\ Limit \in Nat
  BY <1>1, FS_CardinalityType, RateAssumption DEF RateInv, Counted
<1>7. VerdictOn(r)' = IF Cardinality(WindowMap'[u]) < Limit THEN "allowed" ELSE "limited"
  BY <1>4, <1>5, <1>6
<1>8. QED
  BY <1>3, <1>5, <1>7, SameCount
     DEF Contract!Check, Contract!Aging, Contract!Decide, WindowMap, VerdictMap

\* ZADD is the recording of the contract.
LEMMA ZAddRefines ==
  ASSUME RateInv, RateInv', NEW r \in Requests, ZAdd(r)
  PROVE  Contract!RecordAllowed(r)
<1> DEFINE u == UserOf[r]
<1>1. TypeOK /\ u \in Users
  BY UserAssumption DEF RateInv, Typed
<1>2. zset' = [zset EXCEPT ![u] = zset[u] \cup {[req |-> r, at |-> now[r]]}]
  BY DEF ZAdd, SetKey
<1>3. WindowMap' = [WindowMap EXCEPT ![u] = @ \cup {r}]
  <2> DEFINE entry == [req |-> r, at |-> now[r]]
  <2>a. zset'[u] = zset[u] \cup {entry} /\ entry.req = r
    BY <1>1, <1>2 DEF TypeOK
  <2> HIDE DEF entry
  <2>1. {e.req : e \in zset'[u]} = {e.req : e \in zset[u]} \cup {r}
    BY <2>a
  <2>2. \A v \in Users \ {u} : zset'[v] = zset[v]
    BY <1>1, <1>2 DEF TypeOK
  <2>3. QED
    BY <1>1, <2>1, <2>2 DEF WindowMap
<1>4. /\ VerdictMap' = [VerdictMap EXCEPT ![r] = "recorded"]
      /\ VerdictMap[r] = "allowed"
  BY VerdictMoves DEF ZAdd, VerdictOn
<1>5. QED
  BY <1>3, <1>4
     DEF Contract!RecordAllowed, Contract!RecordRequest, Contract!Decide, WindowMap, VerdictMap

\* A step that leaves the sets alone and takes a handler from what is not recorded to
\* what is dropped, or nowhere new.
LEMMA DropRefines ==
  ASSUME RateInv, RateInv', NEW r \in Requests, AnswerDuplicate(r) \/ Abort(r)
  PROVE  Contract!Drop(r) \/ UNCHANGED <<WindowMap, VerdictMap>>
<1>1. UNCHANGED WindowMap /\ pc[r] \in Steps
  BY DEF AnswerDuplicate, Abort, WindowMap, RateInv, Typed, TypeOK
<1>2. PICK step : Goto(r, step) /\ \/ step = "gone" /\ pc[r] \notin {"expire", "trim"}
                                   \/ step = "recorded" /\ pc[r] \in {"expire", "trim"}
  BY DEF AnswerDuplicate, Abort
<1>3. CASE step = "recorded"
  BY <1>1, <1>2, <1>3, VerdictMoves DEF VerdictOn
<1>4. CASE step = "gone"
  <2>1. pc[r] # "recorded"
    BY DEF AnswerDuplicate, Abort, InFlight
  <2>2. VerdictMap[r] # "recorded" /\ VerdictMap' = [VerdictMap EXCEPT ![r] = "dropped"]
    BY <1>1, <1>2, <1>4, <2>1, VerdictMoves DEF VerdictOn, Steps
  <2>3. QED
    BY <1>1, <2>2 DEF Contract!Drop, Contract!Decide, WindowMap, VerdictMap
<1>5. QED
  BY <1>2, <1>3, <1>4

\* Every step of the Redis commands is a step of the contract, or none.
LEMMA WindowStep ==
  RateInv /\ RateInv' /\ [Next]_vars => [Contract!ContractNext]_<<WindowMap, VerdictMap>>
<1> SUFFICES ASSUME RateInv, RateInv', [Next]_vars
             PROVE  Contract!ContractNext \/ UNCHANGED <<WindowMap, VerdictMap>>
    OBVIOUS
<1>1. TypeOK /\ UserOf \in [Requests -> Users]
  BY UserAssumption DEF RateInv, Typed
<1>2. ASSUME NEW r \in Requests, EvalCheck(r) PROVE Contract!ContractNext
  BY <1>2, EvalCheckRefines DEF Contract!ContractNext
<1>3. ASSUME NEW r \in Requests, ZAdd(r) PROVE Contract!ContractNext
  BY <1>3, ZAddRefines DEF Contract!ContractNext
<1>4. ASSUME NEW r \in Requests, AnswerDuplicate(r) \/ Abort(r)
      PROVE  Contract!ContractNext \/ UNCHANGED <<WindowMap, VerdictMap>>
  BY <1>4, DropRefines DEF Contract!ContractNext
<1>5. ASSUME NEW r \in Requests,
             \/ BeginCheck(r) \/ FetchOldest(r) \/ BeginRecord(r) \/ Expire(r)
      PROVE  UNCHANGED <<WindowMap, VerdictMap>>
  <2>1. zset' = zset
    BY <1>1, <1>5 DEF BeginCheck, FetchOldest, BeginRecord, Expire, SetKey, TypeOK
  <2>2. UNCHANGED VerdictMap
    BY <1>5, VerdictMoves DEF BeginCheck, FetchOldest, BeginRecord, Expire, VerdictOn
  <2>3. QED
    BY <2>1, <2>2 DEF WindowMap
<1>6. ASSUME UNCHANGED VerdictMap, \A u \in Users : zset'[u] \subseteq zset[u]
      PROVE  Contract!ContractNext
  <2>1. /\ WindowMap' \in [Users -> SUBSET Requests]
        /\ \A u \in Users : WindowMap'[u] \subseteq WindowMap[u]
    BY <1>6, ShrinkingAges
  <2>2. QED
    BY <1>6, <2>1 DEF Contract!ContractNext, Contract!Aging, WindowMap, VerdictMap
<1>7. ASSUME NEW r \in Requests, Trim(r) PROVE Contract!ContractNext
  <2>1. UNCHANGED VerdictMap
    BY <1>7, VerdictMoves DEF Trim, VerdictOn
  <2>2. \A u \in Users : zset'[u] \subseteq zset[u]
    BY <1>1, <1>7, PruneShrinks DEF Trim
  <2>3. QED
    BY <1>6, <2>1, <2>2
<1>8. ASSUME \/ Tick \/ \E u \in Users : GetCurrentCount(u) \/ ResetRateLimit(u)
      PROVE  Contract!ContractNext
  <2>1. UNCHANGED VerdictMap
    <3>1. pc' = pc
      BY <1>8 DEF Tick, GetCurrentCount, ResetRateLimit
    <3>2. \A r \in Requests : VerdictOn(r)' = VerdictOn(r)
      BY <3>1 DEF VerdictOn
    <3>3. QED
      BY <3>2 DEF VerdictMap
  <2>2. \A u \in Users : zset'[u] \subseteq zset[u]
    <3>1. CASE Tick
      BY <1>1, <3>1 DEF Tick, TypeOK
    <3>2. CASE \E u \in Users : GetCurrentCount(u)
      BY <1>1, <3>2, PruneShrinks DEF GetCurrentCount
    <3>3. CASE \E u \in Users : ResetRateLimit(u)
      BY <1>1, <3>3 DEF ResetRateLimit, SetKey, TypeOK
    <3>4. QED
      BY <1>8, <3>1, <3>2, <3>3
  <2>3. QED
    BY <1>6, <2>1, <2>2
<1>9. CASE UNCHANGED vars
  BY <1>9 DEF vars, WindowMap, VerdictMap, VerdictOn
<1>10. QED
  BY <1>2, <1>3, <1>4, <1>5, <1>7, <1>8, <1>9 DEF Next

\* The Redis commands implement the sliding window the gateway model relies on.
THEOREM WindowImplemented == Spec => ImplementsWindow
<1>1. Init => Contract!ContractInit
  <2> SUFFICES ASSUME Init PROVE Contract!ContractInit
      OBVIOUS
  <2>1. WindowMap = [u \in Users |-> {}]
    BY DEF Init, WindowMap
  <2>2. VerdictMap = [r \in Requests |-> "none"]
    BY DEF Init, VerdictMap, VerdictOn
  <2>3. QED
    BY <2>1, <2>2 DEF Contract!ContractInit, Contract!WindowInit, WindowMap, VerdictMap
<1>2. [Contract!ContractNext]_<<WindowMap, VerdictMap>>
        <=> [Contract!ContractNext]_<<[u \in Users |-> {e.req : e \in zset[u]}],
                                      [r \in Requests |-> VerdictOn(r)]>>
  BY DEF WindowMap, VerdictMap
<1>3. QED
  BY <1>1, <1>2, WindowStep, RateInvAlways, PTL
     DEF Spec, ImplementsWindow, Contract!ContractSpec
=============================================================================
