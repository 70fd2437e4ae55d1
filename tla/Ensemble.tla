------------------------------- MODULE Ensemble -------------------------------
(***************************************************************************)
(* Multi-template ensembling (strategy/ensemble.py) over the router of     *)
(* module LLMRouter.  An ensemble runs one estimate of the router for each *)
(* template it selects, all at the same time, waits for all of them, and   *)
(* aggregates those that were answered.                                    *)
(*                                                                         *)
(* The estimates differ in their template's name only: the prompt that     *)
(* build_paraphrase_prompt makes is dropped (ensemble.py:400, 416).        *)
(***************************************************************************)
EXTENDS Integers, Medians

CONSTANTS
    Template, Default,   \* PARAPHRASE_TEMPLATES, with the original one
    NTemplates, IncludeDefault,
    ByMedian,            \* the aggregation: "median", or the mean
    MinConfidence, MaxSpread,
    Provider, Priority, NoKey, WebSearch, Rpm, Rpd, MinuteLen, DayLen,
    MaxRetries, Busy, Replies, NoAnswer

VARIABLES
    calls, pc, pos, attempt, answer, net,
    asked,               \* the templates of the ensemble under way, {} when there is none
    outcome              \* the EnsembleResult, NoAnswer while there is none to aggregate

Router == INSTANCE LLMRouter WITH Task <- Template

routerVars == <<calls, pc, pos, attempt, answer, net>>
vars == <<routerVars, asked, outcome>>

One == Router!One

\* An EnsembleResult, with the estimates of some templates.
IsResult(r) ==
    \E S \in SUBSET Template :
        r \in [prob : 0 .. One, conf : 0 .. One, individual : [S -> 0 .. One]]

ASSUME EnsembleAssumption ==
    /\ Router!RouterAssumption
    /\ ~IsResult(NoAnswer)
    /\ Default \in Template
    /\ NTemplates \in Nat \ {0}
    /\ IncludeDefault \in BOOLEAN /\ ByMedian \in BOOLEAN
    /\ MinConfidence \in 0 .. One /\ MaxSpread \in 0 .. One

-----------------------------------------------------------------------------
(* Aggregation of estimates, given by template.                            *)

Spread(f) == Max(Range(f)) - Min(Range(f))

\* Faulty: nothing is left when no estimate is confident enough.
Confident_Strictly(f) == {t \in DOMAIN f : f[t].conf >= MinConfidence}

\* The estimates that are confident enough, or all when none of them is.
Confident(f) ==
    LET sure == {t \in DOMAIN f : f[t].conf >= MinConfidence}
    IN  IF sure = {} THEN DOMAIN f ELSE sure

\* Half of what the spread has above its limit, and 0.3 at most.
Doubt(spread) ==
    IF spread > MaxSpread THEN Min({3000, (spread - MaxSpread) \div 2}) ELSE 0

\* aggregate_estimates
Aggregate(f) ==
    IF Confident(f) = {}
    THEN NoAnswer
    ELSE LET probs == [t \in Confident(f) |-> f[t].prob]
             confs == [t \in Confident(f) |-> f[t].conf]
         IN  [prob |-> IF ByMedian THEN Median(probs) ELSE Average(probs),
              conf |-> Max({0, Average(confs) - Doubt(Spread(probs))}),
              individual |-> probs]

-----------------------------------------------------------------------------
(* Actions.                                                                *)

\* select_templates: the default one, if it is included, and a random choice of
\* the others.
Selections ==
    {S \in SUBSET Template :
        /\ Cardinality(S) = Min({NTemplates, Cardinality(Template) - (IF IncludeDefault THEN 0 ELSE 1)})
        /\ (Default \in S) = IncludeDefault}

\* estimate() up to the gather.
Ask ==
    /\ asked = {}
    /\ asked' \in Selections
    /\ outcome' = NoAnswer
    /\ UNCHANGED routerVars

\* The tasks of the gather.
StartEstimate(t) ==
    /\ t \in asked
    /\ Router!Start(t)
    /\ UNCHANGED <<asked, outcome>>

StepEstimate(t) == Router!Step(t) /\ UNCHANGED <<asked, outcome>>

\* The estimates that were answered; failures are dropped.
Given == {t \in asked : answer[t] # NoAnswer}

\* estimate() after the gather.
Gather ==
    /\ asked # {}
    /\ Router!Take(asked)
    /\ outcome' = Aggregate([t \in Given |-> answer[t]])
    /\ asked' = {}

Tick == Router!Tick /\ UNCHANGED <<asked, outcome>>

Init == Router!Init /\ asked = {} /\ outcome = NoAnswer

Next ==
    \/ Ask
    \/ \E t \in Template : StartEstimate(t) \/ StepEstimate(t)
    \/ Gather
    \/ Tick

Spec == Init /\ [][Next]_vars

\* The event loop runs what can run, a request is answered or times out, and a
\* sleep ends.  Nobody has to ask, and the time that passes is not bounded.
FairSpec ==
    /\ Spec
    /\ \A t \in Template : WF_vars(StartEstimate(t)) /\ WF_vars(StepEstimate(t))
    /\ WF_vars(Gather)

-----------------------------------------------------------------------------
(* Properties.                                                             *)

\* Every variable has its type.
TypeOK ==
    /\ Router!TypeOK
    /\ asked \subseteq Template
    /\ outcome = NoAnswer \/ IsResult(outcome)

\* The properties of the router, whose estimates here are those of one ensemble.
RecordedWithinOvershoot == Router!RecordedWithinOvershoot
RequestsWithinOvershoot == Router!RequestsWithinOvershoot

\* Robust to outliers (ensemble.py:7, 11-12): whatever the others say, the
\* median lies between the smallest and the largest estimate of every majority
\* of those that were used.
MedianRobust ==
    (ByMedian /\ outcome # NoAnswer) =>
        \A S \in SUBSET DOMAIN outcome.individual :
            2 * Cardinality(S) > Cardinality(DOMAIN outcome.individual) =>
                LET probs == {outcome.individual[t] : t \in S}
                IN  Min(probs) <= outcome.prob /\ outcome.prob <= Max(probs)

\* One answer is enough, however unsure it is and however many of the other
\* estimates failed: the ensemble is without a result only if all of them did.
OneAnswerSuffices ==
    [][ (asked # {} /\ asked' = {} /\ outcome' = NoAnswer)
            => \A t \in asked : answer[t] = NoAnswer ]_vars

\* Every ensemble ends: retries and fallbacks run out.
EnsembleEnds == asked # {} ~> asked = {}

=============================================================================
