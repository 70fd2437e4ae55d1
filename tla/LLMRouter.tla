------------------------------ MODULE LLMRouter ------------------------------
(***************************************************************************)
(* The LLM router (strategy/llm_router.py): estimates that are under way   *)
(* at the same time ask the providers in order of priority, skip those     *)
(* whose rate limit is used up, and retry those that fail.                 *)
(*                                                                         *)
(* A task runs without interruption from one await to the next, so an      *)
(* action is what the code does between two awaits: the request to a       *)
(* provider and the sleep before a retry.                                  *)
(*                                                                         *)
(* Probabilities and confidences are counted in units of 1/One: the code   *)
(* rounds them to four digits.                                             *)
(***************************************************************************)
EXTENDS Bounds, Sequences, FiniteSets, Totals

CONSTANTS
    Task,                \* estimates that may be under way together
    Provider,
    Priority,            \* the enabled providers, sorted by priority
    NoKey,               \* the providers without an API key
    WebSearch,           \* the providers asked for a JSON answer after a web search
    Rpm, Rpd,            \* requests a minute and a day, for each provider
    MinuteLen, DayLen,   \* the two windows, in ticks
    MaxRetries,          \* max_retries_per_provider
    Busy,                \* the volume of the market is above 100,000
    Replies,             \* what a provider may answer
    NoAnswer

One == 10000
Half == One \div 2
Section == {"for", "against"}
Word == {"low", "medium", "high", "other"}

\* What parsing makes of the content: the probability it states, the word for
\* the confidence (NoAnswer when the content is not JSON), and the sections of
\* the forced chain of thought that are there.
Reply == [prob : Nat, conf : Word \cup {NoAnswer}, sections : SUBSET Section]

\* What is assumed of the constants; module Ensemble states it of its own.
RouterAssumption ==
    /\ IsFiniteSet(Task)
    /\ Priority \in Seq(Provider)
    /\ NoKey \subseteq Provider /\ WebSearch \subseteq Provider
    /\ Rpm \in [Provider -> Nat] /\ Rpd \in [Provider -> Nat]
    /\ MinuteLen \in Nat /\ DayLen \in Nat /\ MinuteLen <= DayLen
    /\ MaxRetries \in Nat /\ Busy \in BOOLEAN
    /\ Replies \subseteq Reply /\ NoAnswer \notin Word

VARIABLES
    calls,               \* the trackers: calls recorded, by age
    pc, pos, attempt,    \* where each estimate is, in its loop over providers and attempts
    answer,              \* what a finished estimate returned
    net                  \* history: the requests less the failures of a minute, by age

vars == <<calls, pc, pos, attempt, answer, net>>

-----------------------------------------------------------------------------
(* What a reply is worth.                                                  *)

Distance(p) == IF p > Half THEN p - Half ELSE Half - p

\* A probability pulled toward a half by some percent.
Shrunk(p, percent) == (p * (100 - percent) + Half * percent) \div 100

\* apply_cot_penalty: ten percent for each missing section.
Penalised(p, reply) == Shrunk(p, 10 * Cardinality(Section \ reply.sections))

ProbabilityOf(p, reply) ==
    LET stated == AtMost(reply.prob, One)
    IN  Shrunk(IF p \in WebSearch THEN stated ELSE Penalised(stated, reply), 15)

\* _map_confidence, and the distance from a half when there is no word for it.
StatedConfidence(prob, reply) ==
    CASE reply.conf = "low" -> 2000
      [] reply.conf = "medium" -> 5000
      [] reply.conf = "high" -> 8000
      [] reply.conf = "other" -> 3000
      [] OTHER -> AtMost(AtMost(2 * Distance(prob), 8500) + (IF Busy THEN 1000 ELSE 0), 8500)

ConfidenceOf(prob, reply) ==
    LET stated == StatedConfidence(prob, reply)
    IN  IF stated < 1500 THEN 500 ELSE stated

\* The EstimateResult of _call_provider for an answer.
Estimate(p, reply) ==
    LET prob == ProbabilityOf(p, reply)
    IN  [prob |-> prob, conf |-> ConfidenceOf(prob, reply)]

-----------------------------------------------------------------------------
(* The windows of the trackers.                                            *)

Empty(len) == [a \in 0 .. len |-> 0]
Counted(window, n) == [window EXCEPT ![0] = @ + n]
Aged(window) == [a \in DOMAIN window |-> IF a = 0 THEN 0 ELSE window[a - 1]]

InMinute(p) == Total([a \in 0 .. MinuteLen |-> calls[p][a]])
InDay(p) == Total(calls[p])

\* Faulty: one call too many.
CanCall_OffByOne(p) == InMinute(p) <= Rpm[p] /\ InDay(p) <= Rpd[p]

CanCall(p) == InMinute(p) < Rpm[p] /\ InDay(p) < Rpd[p]

\* Faulty: successes are not recorded.
Recorded_Never(p) == calls

\* record_call, for both windows at once.
Recorded(p) == [calls EXCEPT ![p] = Counted(@, 1)]

-----------------------------------------------------------------------------
(* The estimates.                                                          *)

HasKey(i) == Priority[i] \notin NoKey

\* The estimate has to wait at this provider: for an answer, or, when there is
\* no key to ask with, for the sleep before the next attempt.
Waits(i) == CanCall(Priority[i]) /\ MaxRetries > 0 /\ (HasKey(i) \/ MaxRetries > 1)

\* A window of history after a request to the provider at a position.
AfterRequest(window, i) ==
    IF HasKey(i) THEN [window EXCEPT ![Priority[i]] = Counted(@, 1)] ELSE window

Return(t, result) ==
    /\ pc' = [pc EXCEPT ![t] = "done"]
    /\ answer' = [answer EXCEPT ![t] = result]
    /\ pos' = [pos EXCEPT ![t] = 1]
    /\ attempt' = [attempt EXCEPT ![t] = 0]

\* The loop of estimate() from a position in the order of priority to its next
\* await or to its end.
Route(t, from, window) ==
    LET waiting == {i \in from .. Len(Priority) : Waits(i)}
    IN  IF waiting = {}
        THEN Return(t, NoAnswer) /\ net' = window
        ELSE LET next == CHOOSE i \in waiting : \A j \in waiting : i <= j
             IN  /\ pc' = [pc EXCEPT ![t] = IF HasKey(next) THEN "calling" ELSE "sleeping"]
                 /\ pos' = [pos EXCEPT ![t] = next]
                 /\ attempt' = [attempt EXCEPT ![t] = 0]
                 /\ net' = AfterRequest(window, next)
                 /\ UNCHANGED answer

Sleep(t, n) ==
    /\ pc' = [pc EXCEPT ![t] = "sleeping"]
    /\ attempt' = [attempt EXCEPT ![t] = n]
    /\ UNCHANGED <<pos, answer>>

\* Faulty: there is always another attempt.
AfterFailure_Again(t, n, window) == Sleep(t, 0) /\ net' = window

\* Faulty: one attempt too many.
AfterFailure_OneMore(t, n, window) ==
    IF n < MaxRetries
    THEN Sleep(t, n) /\ net' = window
    ELSE Route(t, pos[t] + 1, window)

\* Attempt n has failed: sleep, or go on to the next provider.
AfterFailure(t, n, window) ==
    IF n < MaxRetries - 1
    THEN Sleep(t, n) /\ net' = window
    ELSE Route(t, pos[t] + 1, window)

Start(t) ==
    /\ pc[t] = "idle"
    /\ Route(t, 1, net)
    /\ UNCHANGED calls

Failure(t) ==
    /\ AfterFailure(t, attempt[t], [net EXCEPT ![Priority[pos[t]]] = Counted(@, -1)])
    /\ UNCHANGED calls

\* The provider answers.  An estimate with a positive confidence is a success.
Answered(t, reply) ==
    LET p == Priority[pos[t]]
        e == Estimate(p, reply)
    IN  /\ pc[t] = "calling"
        /\ IF e.conf > 0
           THEN Return(t, e) /\ calls' = Recorded(p) /\ UNCHANGED net
           ELSE Failure(t)

\* The request times out, is refused, or its content cannot be used.
Refused(t) ==
    /\ pc[t] = "calling"
    /\ Failure(t)

\* The sleep is over.  Without a key the next attempt fails at once.
Wake(t) ==
    /\ pc[t] = "sleeping"
    /\ IF HasKey(pos[t])
       THEN /\ pc' = [pc EXCEPT ![t] = "calling"]
            /\ attempt' = [attempt EXCEPT ![t] = @ + 1]
            /\ net' = AfterRequest(net, pos[t])
            /\ UNCHANGED <<pos, answer>>
       ELSE AfterFailure(t, attempt[t] + 1, net)
    /\ UNCHANGED calls

\* The caller takes the results of some estimates.
Take(S) ==
    /\ \A t \in S : pc[t] = "done"
    /\ pc' = [t \in Task |-> IF t \in S THEN "idle" ELSE pc[t]]
    /\ answer' = [t \in Task |-> IF t \in S THEN NoAnswer ELSE answer[t]]
    /\ UNCHANGED <<calls, pos, attempt, net>>

Tick ==
    /\ calls' = [p \in Provider |-> Aged(calls[p])]
    /\ net' = [p \in Provider |-> Aged(net[p])]
    /\ UNCHANGED <<pc, pos, attempt, answer>>

\* What an estimate that has begun does next.
Step(t) ==
    \/ \E reply \in Replies : Answered(t, reply)
    \/ Refused(t)
    \/ Wake(t)

Init ==
    /\ calls = [p \in Provider |-> Empty(DayLen)]
    /\ pc = [t \in Task |-> "idle"]
    /\ pos = [t \in Task |-> 1]
    /\ attempt = [t \in Task |-> 0]
    /\ answer = [t \in Task |-> NoAnswer]
    /\ net = [p \in Provider |-> Empty(MinuteLen)]

Next ==
    \/ Tick
    \/ \E t \in Task : Start(t) \/ Step(t)
    \/ \E S \in SUBSET Task : Take(S)

Spec == Init /\ [][Next]_vars

-----------------------------------------------------------------------------
(* Properties.                                                             *)

Estimates == [prob : 0 .. One, conf : 1 .. One]

\* Every variable has its type; a running estimate is at a provider.
TypeOK ==
    /\ calls \in [Provider -> [0 .. DayLen -> Nat]]
    /\ pc \in [Task -> {"idle", "calling", "sleeping", "done"}]
    /\ pos \in [Task -> Nat] /\ attempt \in [Task -> Nat]
    /\ answer \in [Task -> Estimates \cup {NoAnswer}]
    /\ net \in [Provider -> [0 .. MinuteLen -> Int]]
    /\ \A t \in Task :
         pc[t] \in {"calling", "sleeping"} =>
            pos[t] \in 1 .. Len(Priority) /\ attempt[t] \in 0 .. MaxRetries - 1

\* A limit, and what the estimates under way may add to it.
Overshoot(limit) == IF limit = 0 THEN 0 ELSE limit - 1 + Cardinality(Task)

\* can_call() is asked once, before the first attempt, and a call is recorded
\* when it has succeeded.  So each estimate under way may carry a window one
\* further, and no two of them together more than that: with n estimates
\* the calls recorded of a provider are at most the limit plus n - 1.
RecordedWithinOvershoot ==
    \A p \in Provider :
        /\ InMinute(p) <= Overshoot(Rpm[p])
        /\ InDay(p) <= Overshoot(Rpd[p])

\* What a window of history has above zero, and below.
Above(window) == [a \in DOMAIN window |-> IF window[a] > 0 THEN window[a] ELSE 0]
Below(window) == [a \in DOMAIN window |-> IF window[a] < 0 THEN -window[a] ELSE 0]

\* Failed requests are never recorded and retries are not checked.  What a
\* provider really gets in a minute is bounded by its limit only up to the
\* estimates under way and the failures of that minute.
RequestsWithinOvershoot ==
    \A p \in Provider :
        Total(Above(net[p])) <= Overshoot(Rpm[p]) + Total(Below(net[p]))

=============================================================================
