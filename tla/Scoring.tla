------------------------------- MODULE Scoring -------------------------------
(***************************************************************************)
(* The estimates of the simulation (strategy/scorer_dispatcher.py,         *)
(* strategy/weather_scorer.py, strategy/estimator.py) and the signals made *)
(* of them (module Signals).                                               *)
(*                                                                         *)
(* A question about the weather is answered from a forecast: a thread asks *)
(* one model after the other, and the result is kept in a cache for as     *)
(* long as the process lives.  Tasks may estimate at the same time.        *)
(*                                                                         *)
(* Temperatures are counted in half degrees Celsius, probabilities and     *)
(* confidences in percent, time in half days of UTC.                       *)
(***************************************************************************)
EXTENDS Sequences, Medians, Signals

CONSTANTS
    Task,                \* who may wait for an estimate at the same time
    Questions, Books, Balance,
    City, Known,         \* all cities, and those with coordinates
    Warned,              \* cities whose station differs from the grid
    Ahead,               \* half days by which the clock of a city is ahead of UTC
    Models,              \* the models asked before the best match, in order
    Highs,               \* highest temperatures a model may give
    BestReplies,         \* what the best match may give, Nothing for what is missing
    Chance,              \* the normal distribution, by distance from its mean
    LastHalf,            \* bound on time
    Nothing

VARIABLES
    half,                \* the clock
    forecasts,           \* _forecast_cache, a function on the keys it has
    req,                 \* the estimate each task waits for
    fetches,             \* history: how often the forecast of a key was fetched
    decided              \* the decision taken in this step, if one was

scoringVars == <<half, forecasts, req, fetches, decided>>

Word == {"degrees", "rain", "heat", "storm"}
Best == "best_match"

\* What the extraction makes of a market: the kinds of weather keywords found
\* anywhere in its question ("degrees" for a temperature pattern, "storm" for
\* those that only route), its city, date and bucket, and its market data.
Question ==
    [words : SUBSET Word, category : {"weather", "known", "other"},
     city : City \cup {Nothing}, date : Nat \cup {Nothing},
     side : {"above", "below", "exact"}, bucket : Int \cup {Nothing},
     listed : 0 .. One, volume : Nat, spread : 0 .. One, ends : Int \cup {Nothing}]

\* A forecast, with the city and the day it was asked for: the highest temperature
\* of each model that had one, and what the best match says besides.
Source == Range(Models) \cup {Best}
Temperature == Highs \cup ({reply.high : reply \in BestReplies} \ {Nothing})
Forecast ==
    [city : City, day : Int, highs : UNION {[S -> Temperature] : S \in SUBSET Source},
     rain : 0 .. One \cup {Nothing}, max : Int \cup {Nothing}]

\* An estimate that waits for a forecast: the models still to be asked.
Request == [question : Question, left : Seq(Source), forecast : Forecast]

ASSUME ScoringAssumption ==
    /\ Questions \subseteq Question /\ IsFiniteSet(Task) /\ Balance \in Nat
    /\ Books \subseteq Book
    /\ \A book \in Books : (book.bid + book.ask) % 2 = 0   \* the midpoint is whole
    /\ Known \subseteq City /\ Warned \subseteq City /\ Ahead \in [City -> Int]
    /\ Highs \subseteq Int /\ LastHalf \in Nat
    /\ BestReplies \subseteq
          [high : Int \cup {Nothing}, rain : 0 .. One \cup {Nothing}, max : Int \cup {Nothing}]
    /\ \E far \in DOMAIN Chance : far \in Nat /\ Chance \in [-far .. far -> 0 .. One]
    /\ Models \in Seq(Range(Models)) /\ Best \notin Range(Models)
    /\ Nothing \notin Int /\ Nothing \notin City /\ Nothing \notin Request

-----------------------------------------------------------------------------
(* HeuristicEstimator.                                                     *)

\* The width of the spread, up to a half.
SpreadFactor(q) == 2 * AtMost(q.spread, 50)

VolumeConfidence(volume) ==
    IF volume >= 500000 THEN 90
    ELSE IF volume >= 50000 THEN 70
    ELSE IF volume >= 1000 THEN 40 ELSE 10

RecencyBoost(days) ==
    IF days = Nothing THEN 0
    ELSE IF days < 0 THEN 30
    ELSE IF days <= 7 THEN 25
    ELSE IF days <= 30 THEN 15
    ELSE IF days <= 90 THEN 10
    ELSE IF days <= 365 THEN 5 ELSE 0

\* The whole days from now to the end, rounded down.
Days(q) == IF q.ends = Nothing THEN Nothing ELSE (2 * q.ends - half) \div 2

Heuristic(q) ==
    [prob |-> q.listed + ((50 - q.listed) * SpreadFactor(q)) \div 200,
     conf |-> (400 * VolumeConfidence(q.volume) + 300 * (One - SpreadFactor(q))
                + 150 * (IF q.category = "other" THEN 0 ELSE 10)
                + 150 * RecencyBoost(Days(q))) \div 1000]

-----------------------------------------------------------------------------
(* WeatherScorer, for a forecast.                                          *)

Unsure == [prob |-> 50, conf |-> 0]
WithinBounds(p) == AtLeast(AtMost(p, 99), 1)

\* The probability of at most x, for a mean.
Cdf(x, mean) ==
    LET far == Max(DOMAIN Chance)
    IN  Chance[AtLeast(AtMost(x - mean, far), -far)]

TemperatureChance(q, mean) ==
    CASE q.side = "above" -> One - Cdf(q.bucket, mean)
      [] q.side = "below" -> Cdf(q.bucket, mean)
      [] q.side = "exact" -> Cdf(q.bucket + 1, mean) - Cdf(q.bucket - 1, mean)

ConfidenceOf(n, city) ==
    LET conf == CASE n >= 3 -> 85 [] n = 2 -> 70 [] n = 1 -> 50
    IN  IF city \in Warned THEN (conf * 85) \div 100 ELSE conf

\* _detect_market_type
Kind(q) ==
    CASE "degrees" \in q.words -> "temperature"
      [] "degrees" \notin q.words /\ "rain" \in q.words -> "rain"
      [] q.words \cap {"degrees", "rain"} = {} /\ "heat" \in q.words -> "heat"
      [] OTHER -> "unknown"

ScoreTemperature(q, f) ==
    IF f.highs = <<>> \/ q.bucket = Nothing
    THEN Unsure
    ELSE [prob |-> WithinBounds(TemperatureChance(q, Median(f.highs))),
          conf |-> ConfidenceOf(Cardinality(DOMAIN f.highs), q.city)]

ScoreRain(f) == IF f.rain = Nothing THEN Unsure ELSE [prob |-> WithinBounds(f.rain), conf |-> 75]

\* The temperature in degrees over 50.
ScoreHeat(f) == IF f.max = Nothing THEN Unsure ELSE [prob |-> WithinBounds(f.max), conf |-> 65]

Score(q, f) ==
    CASE Kind(q) = "temperature" -> ScoreTemperature(q, f)
      [] Kind(q) = "rain" -> ScoreRain(f)
      [] Kind(q) = "heat" -> ScoreHeat(f)

-----------------------------------------------------------------------------
(* Decisions.                                                              *)

\* The probability goes into a signal, whatever its confidence.
Decide(q, estimate) ==
    \E book \in Books :
        decided' = [question |-> q, estimate |-> estimate, book |-> book,
                    signal |-> Signal(book, estimate.prob, Balance)]

-----------------------------------------------------------------------------
(* Forecasts.                                                              *)

\* Faulty: the date is not part of the key.
Key_NoDate(q) == <<q.city, Nothing>>

\* Nothing stands for "today" in a key.
Key(q) == <<q.city, q.date>>

Today == half \div 2

\* A model has data of the local day and of the next.
InReach(city, day) == day - (half + Ahead[city]) \div 2 \in {0, 1}

NoData(city, day) == [city |-> city, day |-> day, highs |-> <<>>, rain |-> Nothing, max |-> Nothing]

\* Faulty: the forecast is fetched every time.
Cached_Never(q) == FALSE

Cached(q) == Key(q) \in DOMAIN forecasts

\* _is_weather_market
IsWeather(q) == q.category = "weather" \/ q.words # {}

\* estimate() of the dispatcher for a question that needs no new forecast.
EstimateAtOnce(q) ==
    /\ Nothing \in Range(req)
    /\ \/ ~IsWeather(q) /\ Decide(q, Heuristic(q))
       \/ IsWeather(q) /\ (Kind(q) = "unknown" \/ q.city = Nothing) /\ Decide(q, Unsure)
       \/ /\ IsWeather(q) /\ Kind(q) # "unknown" /\ q.city # Nothing /\ Cached(q)
          /\ Decide(q, Score(q, forecasts[Key(q)]))
    /\ UNCHANGED <<half, forecasts, req, fetches>>

\* The thread for a new forecast.  Without coordinates it asks nobody.
StartFetch(c, q) ==
    /\ req[c] = Nothing
    /\ IsWeather(q) /\ Kind(q) # "unknown" /\ q.city # Nothing /\ ~Cached(q)
    /\ req' = [req EXCEPT ![c] =
                  [question |-> q,
                   left |-> IF q.city \in Known THEN Append(Models, Best) ELSE <<>>,
                   forecast |-> NoData(q.city, IF q.date = Nothing THEN Today ELSE q.date)]]
    /\ fetches' = [k \in DOMAIN fetches \cup {Key(q)} |->
                      (IF k \in DOMAIN fetches THEN fetches[k] ELSE 0) + (IF k = Key(q) THEN 1 ELSE 0)]
    /\ decided' = Nothing
    /\ UNCHANGED <<half, forecasts>>

Progress(c, forecast) ==
    /\ req' = [req EXCEPT ![c].left = Tail(@), ![c].forecast = forecast]
    /\ decided' = Nothing
    /\ UNCHANGED <<half, forecasts, fetches>>

Asking(c) == req[c] # Nothing /\ req[c].left # <<>>

\* The next model fails, or has no data of the day.
NoAnswer(c) == Asking(c) /\ Progress(c, req[c].forecast)

With(f, source, high) ==
    [f EXCEPT !.highs = [s \in DOMAIN @ \cup {source} |-> IF s = source THEN high ELSE @[s]]]

ModelAnswers(c) ==
    /\ Asking(c)
    /\ LET f == req[c].forecast
           source == Head(req[c].left)
       IN  /\ InReach(f.city, f.day)
           /\ \/ source # Best /\ \E high \in Highs : Progress(c, With(f, source, high))
              \/ /\ source = Best
                 /\ \E reply \in BestReplies :
                      LET g == IF reply.high = Nothing THEN f ELSE With(f, source, reply.high)
                      IN  Progress(c, [g EXCEPT !.rain = reply.rain, !.max = reply.max])

\* The thread has ended: the result is cached, whatever is in it.
Finish(c) ==
    /\ req[c] # Nothing /\ req[c].left = <<>>
    /\ LET q == req[c].question
           f == req[c].forecast
       IN  /\ forecasts' = [k \in DOMAIN forecasts \cup {Key(q)} |-> IF k = Key(q) THEN f ELSE forecasts[k]]
           /\ Decide(q, Score(q, f))
    /\ req' = [req EXCEPT ![c] = Nothing]
    /\ UNCHANGED <<half, fetches>>

HalfDay ==
    /\ half < LastHalf
    /\ half' = half + 1
    /\ decided' = Nothing
    /\ UNCHANGED <<forecasts, req, fetches>>

ScoringInit ==
    /\ half = 0
    /\ forecasts = <<>>
    /\ req = [c \in Task |-> Nothing]
    /\ fetches = <<>>
    /\ decided = Nothing

ScoringNext ==
    \/ \E q \in Questions : EstimateAtOnce(q)
    \/ \E c \in Task :
         \/ \E q \in Questions : StartFetch(c, q)
         \/ NoAnswer(c) \/ ModelAnswers(c) \/ Finish(c)
    \/ HalfDay

ScoringSpec == ScoringInit /\ [][ScoringNext]_scoringVars

-----------------------------------------------------------------------------
(* Properties.                                                             *)

Estimate == [prob : 0 .. One, conf : 0 .. One]

\* Every variable has its type; what a decision is made of is in its bounds.
ScoringTypeOK ==
    /\ half \in 0 .. LastHalf
    /\ DOMAIN fetches \subseteq City \X (Nat \cup {Nothing})
    /\ \A k \in DOMAIN fetches : fetches[k] \in Nat
    /\ DOMAIN forecasts \subseteq DOMAIN fetches
    /\ \A k \in DOMAIN forecasts : forecasts[k] \in Forecast
    /\ req \in [Task -> Request \cup {Nothing}]
    /\ \A c \in Task : req[c] # Nothing => Key(req[c].question) \in DOMAIN fetches
    /\ decided # Nothing =>
          /\ decided.estimate \in Estimate
          /\ decided.signal # NoSignal =>
                /\ decided.signal.size \in 1 .. AtMost(Balance, MaxPosition)
                /\ decided.signal.outcome \in {"Yes", "No"}

\* An estimate with confidence rests on data of the city of its question, and of
\* the day that is asked about; for a question without a date, of a day that has
\* begun.  "Unknown city or failed forecast -> confidence=0" (weather_scorer.py:15).
EstimatesBacked ==
    (decided # Nothing /\ IsWeather(decided.question) /\ decided.estimate.conf > 0) =>
        LET q == decided.question
            f == forecasts[Key(q)]
        IN  /\ f.city = q.city
            /\ IF q.date = Nothing THEN f.day <= Today ELSE f.day = q.date
            /\ q.city \in Known
            /\ CASE Kind(q) = "temperature" -> f.highs # <<>>
                 [] Kind(q) = "rain" -> f.rain # Nothing
                 [] Kind(q) = "heat" -> f.max # Nothing

\* The cache is looked up before the thread is started and written after it has
\* ended, so estimates of one city may fetch at the same time; but a forecast is
\* never fetched more often than there are tasks.
FetchesBounded == \A k \in DOMAIN fetches : fetches[k] <= Cardinality(Task)

\* The market seen from its No side: who bids for Yes asks for No.
Mirrored(book) ==
    [bid |-> One - book.ask, ask |-> One - book.bid, bids |-> book.asks, asks |-> book.bids]

Other(outcome) == IF outcome = "Yes" THEN "No" ELSE "Yes"

\* Buyers of Yes meet the asks, buyers of No the bids; the shares they meet are
\* worth less than the minimum at the prices of Yes.
Thin(outcome, book) ==
    \/ outcome = "Yes" /\ book.ask * book.asks < One * MinLiquidity
    \/ outcome = "No" /\ book.bid * book.bids < One * MinLiquidity

\* The side of a market makes a difference to its depth and to nothing else: seen
\* from the No side, with the complementary estimate, a market gives the opposite
\* signal, unless one of the two books is too thin on the side that is hit.
SignalsMirror ==
    (decided # Nothing /\ Bias = 0) =>
        LET this == decided.signal
            mirror == Signal(Mirrored(decided.book), One - decided.estimate.prob, Balance)
        IN  /\ this # NoSignal /\ mirror # NoSignal =>
                  /\ mirror.outcome = Other(this.outcome)
                  /\ mirror.edge = -this.edge
                  /\ mirror.size = this.size
            /\ this # NoSignal /\ mirror = NoSignal =>
                  Thin(Other(this.outcome), Mirrored(decided.book))
            /\ this = NoSignal /\ mirror # NoSignal =>
                  Thin(Other(mirror.outcome), decided.book)

\* "b = (1/price - 1) = odds offered" (PLAN.md:1094): with the odds that a price
\* offers, a lower price for the same probability never makes the bet smaller.
LowerPriceLargerBet ==
    decided # Nothing =>
        \A lower \in 1 .. Mid(decided.book) :
            Kelly(decided.estimate.prob, lower, Balance)
                >= Kelly(decided.estimate.prob, Mid(decided.book), Balance)

=============================================================================
