-------------------------- MODULE ProviderFailover --------------------------
(***************************************************************************)
(* ProviderRegistryService: sendWithFailover asks the providers of a       *)
(* channel one after the other, in priority order, and moves to the next   *)
(* one only after a retryable ProviderException.  Every queue processor    *)
(* runs its own call; the registry itself never changes.                   *)
(***************************************************************************)
EXTENDS GatewayData, SequencesExt, FiniteSets

CONSTANTS Providers,    \* the INotificationProviders
          ServesOf,     \* [Providers -> Channels]: provider.channel
          PriorityOf,   \* [Providers -> Nat]: provider.priority, lower first
          Behaviour,    \* [Providers -> SUBSET Outcomes]: what send may do
          NoChannel     \* the channel of a processor that is not in a call

\* provider.send resolves, throws a ProviderException with isRetryable true or
\* false, or throws anything else.
Outcomes == {"ok", "retryable", "fatal", "unknown"}

ASSUME ProviderFields ==
  /\ IsFiniteSet(Providers)
  /\ ServesOf \in [Providers -> Channels]
  /\ PriorityOf \in [Providers -> Nat]
  /\ Behaviour \in [Providers -> SUBSET Outcomes]

VARIABLES callPhase,     \* how far the call of a processor is
          callChannel,   \* the channel argument of that call
          answers        \* the outcomes so far, in the order of the loop

callVars == <<callPhase, callChannel, answers>>

Phases == {"none", "trying", "sent", "exhausted", "rethrown", "unconfigured"}

\* Types.
CallTypeOK == /\ callPhase \in [Slots -> Phases]
              /\ callChannel \in [Slots -> Channels \cup {NoChannel}]
              /\ answers \in [Slots -> Seq(Outcomes)]

CallInit == /\ callPhase = [s \in Slots |-> "none"]
            /\ callChannel = [s \in Slots |-> NoChannel]
            /\ answers = [s \in Slots |-> <<>>]

\* initializeProviders: the providers of a channel sorted by priority.
ProvidersFor(c) == {p \in Providers : ServesOf[p] = c}

\* Mutant of Chain: the sort compares the wrong way round.
WorstFirst(c) == CHOOSE chain \in SetToSeqs(ProvidersFor(c)) :
                   \A i, j \in DOMAIN chain :
                     i < j => PriorityOf[chain[i]] >= PriorityOf[chain[j]]

\* Providers of equal priority come in some order.
Chain(c) == CHOOSE chain \in SetToSeqs(ProvidersFor(c)) :
              \A i, j \in DOMAIN chain :
                i < j => PriorityOf[chain[i]] <= PriorityOf[chain[j]]

\* The providers attempted before the current one are those that answered.
CurrentProvider(s) == Chain(callChannel[s])[Len(answers[s]) + 1]

\* Mutant of HasNextProvider: the loop stops one provider early.
MissesLastProvider(s) == Len(answers[s]) + 2 < Len(Chain(callChannel[s]))

HasNextProvider(s) == Len(answers[s]) + 1 < Len(Chain(callChannel[s]))

BeginCall(s, c) ==
  /\ callPhase' = [callPhase EXCEPT
                     ![s] = IF Chain(c) = <<>> THEN "unconfigured" ELSE "trying"]
  /\ callChannel' = [callChannel EXCEPT ![s] = c]
  /\ answers' = [answers EXCEPT ![s] = <<>>]

\* Mutant of PhaseAfter: a success does not return while providers are left.
NoEarlyReturn(s, o) ==
  CASE o \in {"ok", "retryable"} /\ HasNextProvider(s) -> "trying"
    [] o = "ok" /\ ~HasNextProvider(s)                 -> "sent"
    [] o \in {"fatal", "unknown"}                      -> "rethrown"
    [] o = "retryable" /\ ~HasNextProvider(s)          -> "exhausted"

\* Where the loop goes after the current provider's outcome.
PhaseAfter(s, o) ==
  CASE o = "ok"                                  -> "sent"
    [] o \in {"fatal", "unknown"}                -> "rethrown"
    [] o = "retryable" /\ HasNextProvider(s)     -> "trying"
    [] o = "retryable" /\ ~HasNextProvider(s)    -> "exhausted"

\* Mutant of ProviderAnswers: the loop starts over instead of giving up.
StartsOver(s, o) ==
  LET over == PhaseAfter(s, o) = "exhausted"
  IN /\ callPhase[s] = "trying"
     /\ o \in Behaviour[CurrentProvider(s)]
     /\ callPhase' = [callPhase EXCEPT
                        ![s] = IF over THEN "trying" ELSE PhaseAfter(s, o)]
     /\ answers' = [answers EXCEPT ![s] = IF over THEN <<>> ELSE Append(@, o)]
     /\ UNCHANGED callChannel

ProviderAnswers(s, o) ==
  /\ callPhase[s] = "trying"
  /\ o \in Behaviour[CurrentProvider(s)]
  /\ callPhase' = [callPhase EXCEPT ![s] = PhaseAfter(s, o)]
  /\ answers' = [answers EXCEPT ![s] = Append(@, o)]
  /\ UNCHANGED callChannel

\* The processor is done with the result, or its process died.
EndCall(s) == /\ callPhase' = [callPhase EXCEPT ![s] = "none"]
              /\ callChannel' = [callChannel EXCEPT ![s] = NoChannel]
              /\ answers' = [answers EXCEPT ![s] = <<>>]

(***************************************************************************)
(* The registry on its own: processors that call it again and again.       *)
(***************************************************************************)
CallNext ==
  \E s \in Slots :
    \/ /\ callPhase[s] = "none"
       /\ \E c \in Channels : BeginCall(s, c)
    \/ \E o \in Outcomes : ProviderAnswers(s, o)
    \/ callPhase[s] \notin {"none", "trying"} /\ EndCall(s)

CallFairness ==
  \A s \in Slots : WF_callVars(\E o \in Outcomes : ProviderAnswers(s, o))

CallSpec == CallInit /\ [][CallNext]_callVars /\ CallFairness

-----------------------------------------------------------------------------
\* The providers the current call has an answer from.
Asked(s) == {Chain(callChannel[s])[i] : i \in DOMAIN answers[s]}

\* A finished call reports what its providers did: it succeeded because of its
\* last answer, it gave up because every provider of the channel was asked and
\* every answer was retryable, and it rethrew the first other error.  (The
\* results and the exceptions of sendWithFailover.)
VerdictMatchesAnswers ==
  \A s \in Slots :
    LET asked == answers[s]
        earlier == {asked[i] : i \in DOMAIN asked \ {Len(asked)}}
    IN /\ earlier \subseteq {"retryable"}
       /\ callPhase[s] = "sent" => Last(asked) = "ok"
       /\ callPhase[s] = "rethrown" => Last(asked) \in {"fatal", "unknown"}
       /\ callPhase[s] = "exhausted" =>
            /\ Last(asked) = "retryable"
            /\ Asked(s) = ProvidersFor(callChannel[s])
       /\ callPhase[s] = "unconfigured" => ProvidersFor(callChannel[s]) = {}

\* A provider is asked only after every provider of the channel with a better
\* priority, and never twice in one call.  (The sort in initializeProviders and
\* the for loop over its result.)
BestProvidersFirst ==
  \A s \in Slots :
    /\ Cardinality(Asked(s)) = Len(answers[s])
    /\ \A p \in Asked(s), q \in ProvidersFor(callChannel[s]) :
         PriorityOf[q] < PriorityOf[p] => q \in Asked(s)

\* Once a provider has delivered, the same call asks no other provider: no step
\* turns a delivered call back into one that is trying.  (return inside the for.)
NoAnswerAfterDelivery ==
  [][\A s \in Slots :
       (\E i \in DOMAIN answers[s] : answers[s][i] = "ok")
         => answers'[s] \in {answers[s], <<>>}]_callVars

\* A call that began ends, as every provider answers or throws.
EveryCallEnds ==
  \A s \in Slots : callPhase[s] = "trying" ~> callPhase[s] # "trying"

\* After a plain Error, too, the next provider is tried while there is one.  The
\* unit test "should fallback to secondary provider when primary fails" of
\* provider-registry.service.spec.ts expects it: the primary's send is mocked
\* with mockRejectedValue(new Error(...)) and the fallback must be used.
PlainErrorFailsOver ==
  \A s \in Slots :
    callPhase[s] = "rethrown" /\ Last(answers[s]) = "unknown"
      => Asked(s) = ProvidersFor(callChannel[s])
=============================================================================
