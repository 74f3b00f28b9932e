---------------------------- MODULE FailoverProofs ----------------------------
(***************************************************************************)
(* Proofs about sendWithFailover, for every number of processors, channels *)
(* and providers, all priorities and every behaviour of the providers: on  *)
(* its own, and as the gateway's processors call it.                       *)
(***************************************************************************)
EXTENDS GatewayProofs, FiniteSetTheorems

-----------------------------------------------------------------------------
(* The order in which the providers of a channel are asked. *)

\* An enumeration of some providers without repetition, the best one first.
IsRanking(chain, S) ==
  /\ chain \in SetToSeqs(S)
  /\ \A i, j \in DOMAIN chain : i < j => PriorityOf[chain[i]] <= PriorityOf[chain[j]]

\* Among some providers one is the best.
LEMMA BestExists ==
  ASSUME NEW S \in SUBSET Providers, S # {}
  PROVE  \E p \in S : \A q \in S : PriorityOf[p] <= PriorityOf[q]
<1> DEFINE Priorities == {PriorityOf[p] : p \in S}
           Less == {ss \in Nat \X Nat : ss[1] < ss[2]}
<1>1. Priorities \subseteq Nat /\ Priorities # {}
  BY ProviderFields
<1>2. IsWellFoundedOn(Less, Nat)
  BY NatLessThanWellFounded, Zenon DEF OpToRel
<1>3. PICK n \in Priorities : \A x \in Priorities : <<x, n>> \notin Less
  <2> HIDE DEF Priorities, Less
  <2> QED BY <1>1, <1>2, WFMin
<1>4. \A x \in Priorities : n <= x
  <2> HIDE DEF Priorities
  <2> SUFFICES ASSUME NEW x \in Priorities, x < n PROVE FALSE
    BY <1>1
  <2>1. x \in Nat /\ n \in Nat
    BY <1>1
  <2>2. <<x, n>> \in Less
    BY <2>1
  <2> QED
    BY <1>3, <2>2
<1>5. QED
  BY <1>1, <1>4

\* The best provider before a ranking of the others is a ranking.
LEMMA RankingGrows ==
  ASSUME NEW S \in SUBSET Providers, IsFiniteSet(S), NEW best \in S,
         \A q \in S : PriorityOf[best] <= PriorityOf[q],
         NEW tail, IsRanking(tail, S \ {best})
  PROVE  \E chain : IsRanking(chain, S)
<1> DEFINE n == Cardinality(S)
           rest == S \ {best}
           chain == [i \in 1..n |-> IF i = 1 THEN best ELSE tail[i - 1]]
<1>1. n \in Nat /\ Cardinality(rest) = n - 1 /\ n >= 1
  <2>1. n \in Nat /\ Cardinality(rest) = n - 1
    BY FS_CardinalityType, FS_RemoveElement
  <2>2. Cardinality(rest) \in Nat
    BY FS_CardinalityType, FS_RemoveElement
  <2> HIDE DEF n, rest
  <2>3. QED
    BY <2>1, <2>2
<1> HIDE DEF n
<1>2. /\ tail \in [1..(n - 1) -> rest]
      /\ \A i, j \in 1..(n - 1) : i # j => tail[i] # tail[j]
      /\ \A i, j \in 1..(n - 1) : i < j => PriorityOf[tail[i]] <= PriorityOf[tail[j]]
  BY <1>1 DEF IsRanking, SetToSeqs
<1>3. \A i \in 1..n : i # 1 => i - 1 \in 1..(n - 1) /\ tail[i - 1] \in rest
  BY <1>1, <1>2
<1>4. chain \in [1..n -> S]
  BY <1>3
<1>5. \A i, j \in 1..n : i # j => chain[i] # chain[j]
  <2> SUFFICES ASSUME NEW i \in 1..n, NEW j \in 1..n, i # j PROVE chain[i] # chain[j]
      OBVIOUS
  <2>1. CASE i = 1 \/ j = 1
    BY <1>3, <2>1
  <2>2. CASE i # 1 /\ j # 1
    <3>1. i - 1 \in 1..(n - 1) /\ j - 1 \in 1..(n - 1) /\ i - 1 # j - 1
      BY <1>1, <2>2
    <3>2. QED
      BY <1>2, <2>2, <3>1
  <2>3. QED
    BY <2>1, <2>2
<1>6. \A i, j \in 1..n : i < j => PriorityOf[chain[i]] <= PriorityOf[chain[j]]
  <2> SUFFICES ASSUME NEW i \in 1..n, NEW j \in 1..n, i < j
               PROVE  PriorityOf[chain[i]] <= PriorityOf[chain[j]]
      OBVIOUS
  <2>1. CASE i = 1
    BY <1>4, <2>1
  <2>2. CASE i # 1
    <3>1. i - 1 \in 1..(n - 1) /\ j - 1 \in 1..(n - 1) /\ i - 1 < j - 1 /\ j # 1
      BY <1>1, <2>2
    <3>2. QED
      BY <1>2, <2>2, <3>1
  <2>3. QED
    BY <2>1, <2>2
<1>7. IsRanking(chain, S)
  <2> HIDE DEF chain
  <2>1. DOMAIN chain = 1..n
    BY <1>4
  <2>2. QED
    BY <1>4, <1>5, <1>6, <2>1 DEF IsRanking, SetToSeqs, n
<1>8. QED
  BY <1>7

\* Every finite set of providers has a ranking: a smallest one that has none would
\* have a best provider, and a ranking of the others.
LEMMA RankingExists ==
  ASSUME NEW S \in SUBSET Providers, IsFiniteSet(S)
  PROVE  \E chain : IsRanking(chain, S)
<1> DEFINE Less == {ss \in Nat \X Nat : ss[1] < ss[2]}
           Unranked(T) == T \in SUBSET Providers /\ IsFiniteSet(T) /\ ~\E chain : IsRanking(chain, T)
           Sizes == {n \in Nat : \E T : Unranked(T) /\ Cardinality(T) = n}
<1> SUFFICES ASSUME Unranked(S) PROVE FALSE
    OBVIOUS
<1>1. Sizes \subseteq Nat /\ Sizes # {}
  BY FS_CardinalityType
<1>2. IsWellFoundedOn(Less, Nat)
  BY NatLessThanWellFounded, Zenon DEF OpToRel
<1>3. PICK n \in Sizes : \A m \in Sizes : <<m, n>> \notin Less
  <2> HIDE DEF Sizes, Less
  <2> QED BY <1>1, <1>2, WFMin
<1>4. PICK T : Unranked(T) /\ Cardinality(T) = n
  OBVIOUS
<1>5. T # {}
  <2> SUFFICES ASSUME T = {} PROVE \E chain : IsRanking(chain, T)
      BY <1>4
  <2>1. Cardinality(T) = 0
    BY FS_EmptySet
  <2>2. <<>> \in [1..0 -> T] /\ DOMAIN <<>> = 1..0 /\ 1..0 = {}
    OBVIOUS
  <2>3. IsRanking(<<>>, T)
    BY <2>1, <2>2 DEF IsRanking, SetToSeqs
  <2>4. QED
    BY <2>3
<1>6. PICK best \in T : \A q \in T : PriorityOf[best] <= PriorityOf[q]
  BY <1>4, <1>5, BestExists
<1>7. IsFiniteSet(T \ {best}) /\ Cardinality(T \ {best}) = n - 1 /\ Cardinality(T \ {best}) \in Nat
  BY <1>4, FS_RemoveElement, FS_CardinalityType
<1>8. ~Unranked(T \ {best})
  <2> SUFFICES ASSUME Unranked(T \ {best}) PROVE FALSE
      OBVIOUS
  <2>1. n - 1 \in Sizes /\ n \in Nat /\ n - 1 \in Nat
    BY <1>7
  <2>2. <<n - 1, n>> \in Less
    BY <2>1
  <2>3. QED
    BY <1>3, <2>1, <2>2
<1>9. QED
  BY <1>4, <1>6, <1>7, <1>8, RankingGrows

\* Every provider of a channel has one place in its chain, the better ones first.
LEMMA ChainRanks ==
  ASSUME NEW c
  PROVE  /\ Chain(c) \in [1..Cardinality(ProvidersFor(c)) -> ProvidersFor(c)]
         /\ Cardinality(ProvidersFor(c)) \in Nat
         /\ \A i, j \in 1..Cardinality(ProvidersFor(c)) :
              /\ i # j => Chain(c)[i] # Chain(c)[j]
              /\ i < j => PriorityOf[Chain(c)[i]] <= PriorityOf[Chain(c)[j]]
         /\ \A p \in ProvidersFor(c) :
              \E i \in 1..Cardinality(ProvidersFor(c)) : Chain(c)[i] = p
<1> DEFINE S == ProvidersFor(c)
           n == Cardinality(S)
<1>1. S \in SUBSET Providers /\ IsFiniteSet(S) /\ n \in Nat
  BY ProviderFields, FS_Subset, FS_CardinalityType DEF ProvidersFor
<1>2. PICK chain : IsRanking(chain, S)
  <2> HIDE DEF S
  <2> QED
    BY <1>1, RankingExists
<1>3. IsRanking(Chain(c), S)
  BY <1>2 DEF IsRanking, Chain
<1>4. /\ Chain(c) \in [1..n -> S]
      /\ \A i, j \in 1..n : i # j => Chain(c)[i] # Chain(c)[j]
      /\ \A i, j \in 1..n : i < j => PriorityOf[Chain(c)[i]] <= PriorityOf[Chain(c)[j]]
  BY <1>3 DEF IsRanking, SetToSeqs
<1>5. Chain(c) \in Injection(1..n, S)
  BY <1>4 DEF Injection, IsInjective
<1>6. Cardinality(1..n) = n
  BY <1>1, FS_Interval
<1>7. Chain(c) \in Surjection(1..n, S)
  BY <1>1, <1>5, <1>6, FS_Injection
<1>8. QED
  BY <1>1, <1>4, <1>7 DEF Surjection
\* As many places as providers.
LEMMA ChainLength ==
  ASSUME NEW c
  PROVE  /\ Chain(c) \in Seq(ProvidersFor(c))
         /\ Len(Chain(c)) = Cardinality(ProvidersFor(c))
         /\ Len(Chain(c)) \in Nat
         /\ Chain(c) = <<>> <=> ProvidersFor(c) = {}
<1>1. /\ Chain(c) \in [1..Cardinality(ProvidersFor(c)) -> ProvidersFor(c)]
      /\ Cardinality(ProvidersFor(c)) \in Nat
  BY ChainRanks
<1>2. Chain(c) \in Seq(ProvidersFor(c)) /\ Len(Chain(c)) = Cardinality(ProvidersFor(c))
  BY <1>1
<1>3. Chain(c) = <<>> <=> Cardinality(ProvidersFor(c)) = 0
  BY <1>1, <1>2
<1>4. IsFiniteSet(ProvidersFor(c))
  BY ProviderFields, FS_Subset DEF ProvidersFor
<1>5. QED
  BY <1>1, <1>2, <1>3, <1>4, FS_EmptySet

-----------------------------------------------------------------------------
(* One call after the other. *)

\* What the answers so far say of a call, given how far it is.
CallSound ==
  \A s \in Slots :
    LET n == Len(answers[s])
        last == Len(Chain(callChannel[s]))
    IN /\ n <= last
       /\ \A i \in 1..n : i < n => answers[s][i] = "retryable"
       /\ callPhase[s] = "none" => n = 0
       /\ callPhase[s] = "trying" => n < last /\ (n > 0 => answers[s][n] = "retryable")
       /\ callPhase[s] = "sent" => n > 0 /\ answers[s][n] = "ok"
       /\ callPhase[s] = "rethrown" => n > 0 /\ answers[s][n] \in {"fatal", "unknown"}
       /\ callPhase[s] = "exhausted" => n > 0 /\ answers[s][n] = "retryable" /\ n = last
       /\ callPhase[s] = "unconfigured" => last = 0

CallInv == CallTypeOK /\ CallSound

\* No call has begun.
LEMMA CallInvInit == CallInit => CallInv
<1> SUFFICES ASSUME CallInit PROVE CallInv
    OBVIOUS
<1>1. CallTypeOK
  BY DEF CallInit, CallTypeOK, Phases
<1>2. CallSound
  BY ChainLength DEF CallInit, CallSound
<1>3. QED
  BY <1>1, <1>2 DEF CallInv

\* One step per alternative of CallNext; only the call of one processor changes.
LEMMA CallInvStep == CallInv /\ [CallNext]_callVars => CallInv'
<1> SUFFICES ASSUME CallInv, [CallNext]_callVars PROVE CallInv'
    OBVIOUS
<1> USE DEF CallInv, CallTypeOK
<1>1. ASSUME NEW s \in Slots, NEW c \in Channels, callPhase[s] = "none", BeginCall(s, c)
      PROVE  CallInv'
  <2>1. CallTypeOK'
    BY <1>1 DEF BeginCall, Phases
  <2>2. Len(Chain(c)) \in Nat /\ (Chain(c) = <<>> => Len(Chain(c)) = 0)
        /\ (Chain(c) # <<>> => Len(Chain(c)) > 0)
    <3>1. Chain(c) \in Seq(ProvidersFor(c))
      BY ChainLength
    <3>2. QED
      BY <3>1
  <2>3. CallSound'
    BY <1>1, <2>2 DEF BeginCall, CallSound
  <2>4. QED
    BY <2>1, <2>3
<1>2. ASSUME NEW s \in Slots, NEW o \in Outcomes, ProviderAnswers(s, o)
      PROVE  CallInv'
  <2> DEFINE n == Len(answers[s])
             last == Len(Chain(callChannel[s]))
  <2>1. /\ callPhase[s] = "trying" /\ callChannel' = callChannel
        /\ answers' = [answers EXCEPT ![s] = Append(answers[s], o)]
        /\ callPhase' = [callPhase EXCEPT ![s] = PhaseAfter(s, o)]
        /\ n \in Nat /\ last \in Nat /\ n < last
        /\ \A i \in 1..n : answers[s][i] = "retryable"
    BY <1>2, ChainLength DEF ProviderAnswers, CallSound
  <2>2. PhaseAfter(s, o) = IF o = "ok" THEN "sent"
                           ELSE IF o \in {"fatal", "unknown"} THEN "rethrown"
                           ELSE IF n + 1 < last THEN "trying" ELSE "exhausted"
    BY DEF PhaseAfter, HasNextProvider, Outcomes
  <2>3. /\ Append(answers[s], o) \in Seq(Outcomes)
        /\ Len(Append(answers[s], o)) = n + 1
        /\ Append(answers[s], o)[n + 1] = o
        /\ \A i \in 1..n : Append(answers[s], o)[i] = "retryable"
    BY <2>1
  <2>4. CallTypeOK'
    BY <2>1, <2>2, <2>3 DEF Phases
  <2>5. CallSound'
    <3> SUFFICES ASSUME NEW t \in Slots
                 PROVE  LET m == Len(answers'[t])
                            end == Len(Chain(callChannel'[t]))
                        IN /\ m <= end
                           /\ \A i \in 1..m : i < m => answers'[t][i] = "retryable"
                           /\ callPhase'[t] = "none" => m = 0
                           /\ callPhase'[t] = "trying" =>
                                m < end /\ (m > 0 => answers'[t][m] = "retryable")
                           /\ callPhase'[t] = "sent" => m > 0 /\ answers'[t][m] = "ok"
                           /\ callPhase'[t] = "rethrown" =>
                                m > 0 /\ answers'[t][m] \in {"fatal", "unknown"}
                           /\ callPhase'[t] = "exhausted" =>
                                m > 0 /\ answers'[t][m] = "retryable" /\ m = end
                           /\ callPhase'[t] = "unconfigured" => end = 0
        BY DEF CallSound
    <3>1. CASE t # s
      BY <2>1, <3>1 DEF CallSound
    <3>2. CASE t = s
      <4>1. /\ answers'[t] = Append(answers[s], o) /\ callChannel'[t] = callChannel[s]
            /\ callPhase'[t] = PhaseAfter(s, o)
        BY <2>1, <3>2
      <4>2. n + 1 <= last /\ (~(n + 1 < last) => n + 1 = last) /\ n + 1 > 0
        BY <2>1
      <4>3. \A i \in 1..(n + 1) : i < n + 1 => i \in 1..n
        BY <2>1
      <4> HIDE DEF n, last
      <4>4. CASE o = "retryable"
        BY <2>2, <2>3, <4>1, <4>2, <4>3, <4>4 DEF last
      <4>5. CASE o # "retryable"
        BY <2>2, <2>3, <4>1, <4>2, <4>3, <4>5 DEF last, Outcomes
      <4>6. QED
        BY <4>4, <4>5
    <3>3. QED
      BY <3>1, <3>2
  <2>6. QED
    BY <2>4, <2>5
<1>3. ASSUME NEW s \in Slots, EndCall(s) PROVE CallInv'
  BY <1>3, ChainLength DEF EndCall, CallSound, Phases
<1>4. CASE UNCHANGED callVars
  BY <1>4 DEF callVars, CallSound
<1>5. QED
  BY <1>1, <1>2, <1>3, <1>4 DEF CallNext

\* Every call is sound as far as it has come.
THEOREM CallInvAlways == CallSpec => []CallInv
BY CallInvInit, CallInvStep, PTL DEF CallSpec

\* The asked providers are the first ones of the chain.
LEMMA AskedAreFirst ==
  ASSUME CallInv, NEW s \in Slots
  PROVE  LET c == callChannel[s]
             n == Len(answers[s])
         IN /\ n \in Nat /\ n <= Cardinality(ProvidersFor(c))
            /\ Asked(s) = {Chain(c)[i] : i \in 1..n}
BY ChainLength DEF CallInv, CallTypeOK, CallSound, Asked

\* A sound call reports what its providers did.
LEMMA SoundVerdicts == CallInv => VerdictMatchesAnswers
<1> SUFFICES ASSUME CallInv, NEW s \in Slots
             PROVE  LET asked == answers[s]
                        earlier == {asked[i] : i \in DOMAIN asked \ {Len(asked)}}
                    IN /\ earlier \subseteq {"retryable"}
                       /\ callPhase[s] = "sent" => Last(asked) = "ok"
                       /\ callPhase[s] = "rethrown" => Last(asked) \in {"fatal", "unknown"}
                       /\ callPhase[s] = "exhausted" =>
                            /\ Last(asked) = "retryable"
                            /\ Asked(s) = ProvidersFor(callChannel[s])
                       /\ callPhase[s] = "unconfigured" => ProvidersFor(callChannel[s]) = {}
    BY DEF VerdictMatchesAnswers
<1> DEFINE n == Len(answers[s])
           c == callChannel[s]
<1>1. answers[s] \in Seq(Outcomes) /\ n \in Nat /\ DOMAIN answers[s] = 1..n
  BY DEF CallInv, CallTypeOK
<1>2. /\ \A i \in 1..n : i < n => answers[s][i] = "retryable"
      /\ callPhase[s] = "sent" => answers[s][n] = "ok"
      /\ callPhase[s] = "rethrown" => answers[s][n] \in {"fatal", "unknown"}
      /\ callPhase[s] = "exhausted" => answers[s][n] = "retryable" /\ n = Len(Chain(c))
      /\ callPhase[s] = "unconfigured" => Len(Chain(c)) = 0
  BY DEF CallInv, CallSound
<1>3. \A i \in DOMAIN answers[s] \ {n} : answers[s][i] = "retryable"
  BY <1>1, <1>2
<1>4. callPhase[s] = "exhausted" => Asked(s) = ProvidersFor(c)
  <2> SUFFICES ASSUME callPhase[s] = "exhausted" PROVE Asked(s) = ProvidersFor(c)
      OBVIOUS
  <2>1. n = Cardinality(ProvidersFor(c)) /\ Asked(s) = {Chain(c)[i] : i \in 1..n}
    BY <1>2, ChainLength, AskedAreFirst
  <2> HIDE DEF n, c
  <2>2. QED
    BY <2>1, ChainRanks
<1>5. callPhase[s] = "unconfigured" => ProvidersFor(c) = {}
  <2>1. Len(Chain(c)) = 0 => Chain(c) = <<>>
    <3>1. Chain(c) \in Seq(ProvidersFor(c))
      BY ChainLength
    <3>2. QED
      BY <3>1
  <2>2. QED
    BY <1>2, <2>1, ChainLength
<1>6. QED
  BY <1>2, <1>3, <1>4, <1>5 DEF Last

\* A finished call reports what its providers did: success after the last answer,
\* exhaustion only when all of the channel's providers failed retryably.
THEOREM VerdictsMatch == CallSpec => []VerdictMatchesAnswers
BY CallInvAlways, SoundVerdicts, PTL

\* A sound call has asked the first providers of its chain.
LEMMA SoundOrder == CallInv => BestProvidersFirst
<1> SUFFICES ASSUME CallInv, NEW s \in Slots
             PROVE  /\ Cardinality(Asked(s)) = Len(answers[s])
                    /\ \A p \in Asked(s), q \in ProvidersFor(callChannel[s]) :
                         PriorityOf[q] < PriorityOf[p] => q \in Asked(s)
    BY DEF BestProvidersFirst
<1> DEFINE n == Len(answers[s])
           c == callChannel[s]
           size == Cardinality(ProvidersFor(c))
<1>1. n \in Nat /\ n <= size /\ Asked(s) = {Chain(c)[i] : i \in 1..n}
  BY AskedAreFirst
<1>2. /\ Chain(c) \in [1..size -> ProvidersFor(c)] /\ size \in Nat
      /\ \A i, j \in 1..size :
           /\ i # j => Chain(c)[i] # Chain(c)[j]
           /\ i < j => PriorityOf[Chain(c)[i]] <= PriorityOf[Chain(c)[j]]
      /\ \A p \in ProvidersFor(c) : \E i \in 1..size : Chain(c)[i] = p
  BY ChainRanks
<1> HIDE DEF n, c, size
<1>3. Cardinality(Asked(s)) = n
  <2> DEFINE first == [i \in 1..n |-> Chain(c)[i]]
  <2>1. first \in Bijection(1..n, Asked(s))
    BY <1>1, <1>2 DEF Bijection, Injection, IsInjective, Surjection
  <2>2. ExistsBijection(1..n, Asked(s))
    BY <2>1 DEF ExistsBijection
  <2>3. QED
    BY <1>1, <2>2, FS_CountingElements
<1>4. ASSUME NEW p \in Asked(s), NEW q \in ProvidersFor(c), PriorityOf[q] < PriorityOf[p]
      PROVE  q \in Asked(s)
  <2>1. PICK i \in 1..n : Chain(c)[i] = p
    BY <1>1
  <2>2. PICK j \in 1..size : Chain(c)[j] = q
    BY <1>2
  <2>3. i \in 1..size /\ PriorityOf[p] \in Nat /\ PriorityOf[q] \in Nat
    BY <1>1, <1>2, <2>1, ProviderFields DEF ProvidersFor
  <2>4. ~(i < j) /\ i # j
    BY <1>2, <1>4, <2>1, <2>2, <2>3
  <2>5. j \in 1..n
    BY <1>1, <1>2, <2>1, <2>2, <2>4
  <2>6. QED
    BY <1>1, <2>2, <2>5
<1>5. QED
  BY <1>3, <1>4 DEF n, c

\* No provider is asked before a better one of its channel, and none twice in a call.
THEOREM BestAreAskedFirst == CallSpec => []BestProvidersFirst
BY CallInvAlways, SoundOrder, PTL

\* A step of the registry leaves the answers of a call that has delivered alone, or
\* ends the call.
LEMMA NoFurtherAnswer ==
  ASSUME CallInv, [CallNext]_callVars, NEW s \in Slots,
         \E i \in DOMAIN answers[s] : answers[s][i] = "ok"
  PROVE  answers'[s] \in {answers[s], <<>>}
<1>1. callPhase[s] # "trying"
  <2>1. PICK i \in DOMAIN answers[s] : answers[s][i] = "ok"
    OBVIOUS
  <2>2. i \in 1..Len(answers[s]) /\ Len(answers[s]) \in Nat
    BY <2>1 DEF CallInv, CallTypeOK
  <2>3. i = Len(answers[s])
    BY <2>1, <2>2 DEF CallInv, CallSound
  <2>4. QED
    BY <2>1, <2>2, <2>3 DEF CallInv, CallSound
<1>2. CASE \E t \in Slots, o \in Outcomes : ProviderAnswers(t, o)
  BY <1>1, <1>2 DEF ProviderAnswers, CallInv, CallTypeOK
<1>3. CASE \E t \in Slots : EndCall(t) \/ \E c \in Channels : BeginCall(t, c)
  BY <1>3 DEF EndCall, BeginCall, CallInv, CallTypeOK
<1>4. CASE UNCHANGED callVars
  BY <1>4 DEF callVars
<1>5. QED
  BY <1>2, <1>3, <1>4 DEF CallNext

\* After a delivery the call asks nobody else.
THEOREM DeliveryEndsAsking == CallSpec => NoAnswerAfterDelivery
<1>1. CallInv /\ [CallNext]_callVars =>
        [\A s \in Slots :
           (\E i \in DOMAIN answers[s] : answers[s][i] = "ok")
             => answers'[s] \in {answers[s], <<>>}]_callVars
  BY NoFurtherAnswer
<1>2. QED
  BY <1>1, CallInvAlways, PTL DEF CallSpec, NoAnswerAfterDelivery

-----------------------------------------------------------------------------
(* The calls of the gateway's processors, which also hang and die. *)

\* A processor is busy exactly while its call is not over, is as far as its call
\* says, and has the job's notification delivered over the channel of its request.
CallsInStep ==
  \A s \in Slots :
    /\ slotPc[s] = "idle" <=> callPhase[s] = "none"
    /\ slotPc[s] \in {"sending", "hung"} => callPhase[s] = "trying"
    /\ slotPc[s] \in {"storing", "completing"} => callPhase[s] = "sent"
    /\ slotPc[s] \in {"storingFailure", "failing"} =>
         callPhase[s] \in {"sent", "rethrown", "exhausted", "unconfigured"}
    /\ slotPc[s] # "idle" => callChannel[s] = ChannelOf[slotJob[s]]

\* No processor is busy and no call has begun at first.
LEMMA CallsInStepInit == Init => CallsInStep
BY DEF Init, CallInit, CallsInStep

\* Which steps change the calls or the processors.
LEMMA CallChanges ==
  ASSUME [Next]_vars
  PROVE  \/ \E s \in Slots, k \in Keys : TakeJob(s, k)
         \/ \E s \in Slots : Send(s)
         \/ /\ UNCHANGED callVars
            /\ \E s \in Slots : \/ ProviderHangs(s) \/ StoreSent(s) \/ StoreFailed(s)
                                \/ SlotCommandFails(s) \/ SlotCommandRefused(s)
         \/ \E s \in Slots : FinishJob(s) \/ FailJob(s)
         \/ \E i \in Instances : Crash(i)
         \/ UNCHANGED <<callVars, slotVars>>
BY DEF Next, Handler, Processor, QueueTimer, Quiescent, vars, slotVars, callVars,
       CheckRateLimit, Lookup, LockKey, Record, Enqueue, Store, HandlerCommandFails,
       HandlerCommandResent, HandlerCommandRefused, SlotCommandResent, ProviderHangs,
       StoreSent, StoreFailed, SlotCommandFails, SlotCommandRefused, LockLost,
       WakeJob, RequeueStalled, WindowSlides, CacheExpires, JobRemoved, ClientEnds,
       CloseWorker, Restart, StartAgain

\* A processor begins a call when it takes a job, and goes on as the call does.
LEMMA CallsInStepStep == Consistent /\ CallsInStep /\ [Next]_vars => CallsInStep'
<1> SUFFICES ASSUME Consistent, CallsInStep, [Next]_vars PROVE CallsInStep'
    OBVIOUS
<1>a. /\ slotPc \in [Slots -> SlotSteps]
      /\ slotKey \in [Slots -> Keys \cup {NoJob}]
      /\ slotJob \in [Slots -> Requests \cup {NoJob}]
      /\ callPhase \in [Slots -> Phases]
      /\ callChannel \in [Slots -> Channels \cup {NoChannel}]
  BY DEF Consistent, GatewayTypeOK, CallTypeOK
<1>1. ASSUME NEW s \in Slots, NEW k \in Keys, TakeJob(s, k) PROVE CallsInStep'
  BY <1>a, <1>1 DEF TakeJob, BeginCall, CallsInStep
<1>2. ASSUME NEW s \in Slots, Send(s) PROVE CallsInStep'
  <2>1. PICK o \in Outcomes :
          /\ slotPc[s] = "sending" /\ callChannel' = callChannel /\ slotJob' = slotJob
          /\ callPhase' = [callPhase EXCEPT ![s] = PhaseAfter(s, o)]
          /\ slotPc' = [slotPc EXCEPT ![s] = SlotStepAfter(PhaseAfter(s, o))]
    BY <1>a, <1>2 DEF Send, ProviderAnswers
  <2>2. PhaseAfter(s, o) \in {"trying", "sent", "rethrown", "exhausted"}
    BY DEF PhaseAfter, Outcomes
  <2>3. QED
    BY <1>a, <2>1, <2>2 DEF SlotStepAfter, CallsInStep
<1>3. ASSUME UNCHANGED callVars, NEW s \in Slots,
             ProviderHangs(s) \/ StoreSent(s) \/ StoreFailed(s)
      PROVE  CallsInStep'
  BY <1>a, <1>3 DEF ProviderHangs, StoreSent, StoreFailed, SlotGoto, callVars, CallsInStep
<1>4. ASSUME UNCHANGED callVars, NEW s \in Slots,
             SlotCommandFails(s) \/ SlotCommandRefused(s)
      PROVE  CallsInStep'
  BY <1>a, <1>4 DEF SlotCommandFails, SlotCommandRefused, SlotRejected, SlotGoto,
                    callVars, CallsInStep
<1>5. ASSUME NEW s \in Slots, FinishJob(s) \/ FailJob(s) PROVE CallsInStep'
  BY <1>a, <1>5 DEF FinishJob, FailJob, Free, EndCall, CallsInStep
<1>6. ASSUME NEW i \in Instances, Crash(i) PROVE CallsInStep'
  BY <1>a, <1>6 DEF Crash, CallsInStep
<1>7. CASE UNCHANGED <<callVars, slotVars>>
  BY <1>7 DEF callVars, slotVars, CallsInStep
<1>8. QED
  BY <1>1, <1>2, <1>3, <1>4, <1>5, <1>6, <1>7, CallChanges

\* To the registry a step of the gateway is one of its own, or a crash, which ends
\* the calls of an instance wherever they are.
LEMMA GatewayCalls ==
  ASSUME Consistent, CallsInStep, [Next]_vars
  PROVE  [CallNext]_callVars \/ \E i \in Instances : Crash(i)
<1>1. ASSUME NEW s \in Slots, NEW k \in Keys, TakeJob(s, k) PROVE CallNext
  <2>1. jobData[k] \in Requests
    <3>1. jobState[k] # "absent"
      BY <1>1 DEF TakeJob, Activate
    <3>2. jobData[k] \in Duplicates(k)
      BY <3>1 DEF Consistent, QueueOK
    <3>3. QED
      BY <3>2 DEF Duplicates
  <2>2. ChannelOf[jobData[k]] \in Channels
    BY <2>1, RequestFields
  <2>3. callPhase[s] = "none" /\ BeginCall(s, ChannelOf[jobData[k]])
    BY <1>1 DEF TakeJob, CallsInStep
  <2>4. QED
    BY <2>2, <2>3 DEF CallNext
<1>2. ASSUME NEW s \in Slots, Send(s) PROVE CallNext
  BY <1>2 DEF Send, CallNext
<1>3. ASSUME NEW s \in Slots, FinishJob(s) \/ FailJob(s) PROVE CallNext
  BY <1>3 DEF FinishJob, FailJob, Free, CallsInStep, CallNext
<1>4. QED
  BY <1>1, <1>2, <1>3, CallChanges

\* The calls of the gateway's processors are sound and in step with them.
THEOREM CallsAlwaysInStep == Spec => [](Consistent /\ CallsInStep /\ CallInv)
<1>1. Init => CallInv
  BY CallInvInit DEF Init
<1>2. Consistent /\ CallsInStep /\ CallInv /\ [Next]_vars => CallInv'
  <2> SUFFICES ASSUME Consistent, CallsInStep, CallInv, [Next]_vars PROVE CallInv'
      OBVIOUS
  <2>1. CASE [CallNext]_callVars
    BY <2>1, CallInvStep
  <2>2. ASSUME NEW i \in Instances, Crash(i) PROVE CallInv'
    <3>1. \A s \in Slots :
            \/ /\ callPhase'[s] = "none" /\ callChannel'[s] = NoChannel
               /\ answers'[s] = <<>>
            \/ /\ callPhase'[s] = callPhase[s] /\ callChannel'[s] = callChannel[s]
               /\ answers'[s] = answers[s]
      BY <2>2 DEF Crash
    <3>2. CallTypeOK'
      <4>1. /\ callPhase' = [s \in Slots |-> callPhase'[s]]
            /\ callChannel' = [s \in Slots |-> callChannel'[s]]
            /\ answers' = [s \in Slots |-> answers'[s]]
        BY <2>2 DEF Crash
      <4>2. <<>> \in Seq(Outcomes) /\ "none" \in Phases
        BY DEF Phases
      <4>3. QED
        BY <3>1, <4>1, <4>2 DEF CallInv, CallTypeOK
    <3>3. CallSound'
      BY <3>1, ChainLength DEF CallInv, CallSound
    <3>4. QED
      BY <3>2, <3>3 DEF CallInv
  <2>3. QED
    BY <2>1, <2>2, GatewayCalls
<1>3. QED
  BY <1>1, <1>2, CallsInStepInit, CallsInStepStep, ConsistentAlways, PTL DEF Spec

\* Inside the gateway, too, whatever hangs or dies, a call's verdict is what its
\* providers answered.
THEOREM GatewayVerdicts == Spec => []VerdictMatchesAnswers
BY CallsAlwaysInStep, SoundVerdicts, PTL

\* Inside the gateway, too, providers are asked in the order of their priorities.
THEOREM GatewayOrder == Spec => []BestProvidersFirst
BY CallsAlwaysInStep, SoundOrder, PTL

\* Inside the gateway, too, a call that has delivered asks nobody else.
THEOREM GatewayStopsAtDelivery == Spec => NoAnswerAfterDelivery
<1>1. Consistent /\ CallsInStep /\ CallInv /\ [Next]_vars =>
        [\A s \in Slots :
           (\E i \in DOMAIN answers[s] : answers[s][i] = "ok")
             => answers'[s] \in {answers[s], <<>>}]_callVars
  <2> SUFFICES ASSUME Consistent, CallsInStep, CallInv, [Next]_vars, NEW s \in Slots,
                      \E i \in DOMAIN answers[s] : answers[s][i] = "ok"
               PROVE  answers'[s] \in {answers[s], <<>>}
      OBVIOUS
  <2>1. CASE [CallNext]_callVars
    BY <2>1, NoFurtherAnswer
  <2>2. ASSUME NEW i \in Instances, Crash(i) PROVE answers'[s] \in {answers[s], <<>>}
    BY <2>2 DEF Crash
  <2>3. QED
    BY <2>1, <2>2, GatewayCalls
<1>2. QED
  BY <1>1, CallsAlwaysInStep, PTL DEF Spec, NoAnswerAfterDelivery
=============================================================================
