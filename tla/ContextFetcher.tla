---------------------------- MODULE ContextFetcher ----------------------------
(***************************************************************************)
(* News for the prompts (strategy/context_fetcher.py): a ContextBuilder    *)
(* asks two services that limit their rate and a feed that does not, keeps *)
(* what it got in a cache, and rations its fetches per market and for all  *)
(* markets together.  Callers may ask at the same time; an action is what  *)
(* a call does between two requests.                                       *)
(*                                                                         *)
(* All times are ages or remaining times, in ticks.                        *)
(***************************************************************************)
EXTENDS Bounds, FiniteSets, Totals

CONSTANTS
    Caller, Market,      \* a market is a question, which is the key of the caches
    Keyed,               \* the services with a key
    Feed,                \* is feedparser installed
    Base, Longest,       \* back-off of the services: the first and the longest
    Enough,              \* so many refusals in a row make the back-off longest
    TTL,                 \* of the cache, and of an iteration
    EmptyTTL,            \* of an empty result in the cache
    FeedTTL,             \* of the cache of the feed
    Cooldown,            \* per_market_cooldown_sec
    MaxFetches,          \* max_fetches_per_iteration
    Uptime,              \* how long the machine may have been up at the start
    MaxElapsed,          \* bound on the ticks during a call
    None

Service == {"news", "web"}

\* A call between two requests: the source it waits for, and what it has found.
Calls == [market : Market, source : Service \cup {"feed"}, found : BOOLEAN, elapsed : 0 .. MaxElapsed]

ASSUME ContextAssumption ==
    /\ IsFiniteSet(Caller) /\ Keyed \subseteq Service /\ Feed \in BOOLEAN
    /\ Base \in [Service -> Nat \ {0}] /\ Longest \in [Service -> Nat] /\ Enough \in Nat \ {0}
    /\ \A s \in Service : Longest[s] <= Base[s] * 2 ^ (Enough - 1)
    /\ \A n \in 0 .. Enough : 2 ^ n \in Nat          \* the provers have no powers
    /\ TTL \in Nat /\ EmptyTTL \in 0 .. TTL /\ FeedTTL \in Nat /\ Cooldown \in Nat \ {0}
    /\ MaxFetches \in Nat /\ Uptime \subseteq Nat /\ MaxElapsed \in 0 .. Cooldown - 1
    /\ None \notin Calls /\ None \notin Service \cup {"feed"}

VARIABLES
    blocked,             \* what is left of the back-off of a service
    refusals,            \* _consecutive_429s
    cached,              \* age and kind of the result of a market, TTL when there is none
    articles,            \* age of the feed's articles for a market, FeedTTL when there are none
    since,               \* the age of _market_last_fetched
    count, window,       \* the fetches of this iteration, and the age of the iteration
    hadContext,          \* last_fetch_had_context
    call,                \* where each caller is
    starts,              \* history: fetches of a market that began within Rested, by age
    begun                \* history: fetches that began in this iteration

vars == <<blocked, refusals, cached, articles, since, count, window, hadContext, call, starts, begun>>

\* The cooldown less the time a call may take.
Rested == Cooldown - MaxElapsed

Older(age, limit) == AtMost(age + 1, limit)

-----------------------------------------------------------------------------
(* The end of a call.                                                      *)

\* An empty result is as old as it takes to expire after EmptyTTL.
Result(found) == [age |-> IF found THEN 0 ELSE TTL - EmptyTTL, found |-> found]

\* Faulty: only a fetch that found something starts the cooldown.
SinceAfter_IfFound(m, elapsed, found) ==
    IF found THEN [since EXCEPT ![m] = AtMost(elapsed, Cooldown)] ELSE since

\* The cooldown is counted from the beginning of the fetch.
SinceAfter(m, elapsed, found) == [since EXCEPT ![m] = AtMost(elapsed, Cooldown)]

Conclude(c, m, elapsed, found, fetched) ==
    /\ count' = fetched + 1
    /\ since' = SinceAfter(m, elapsed, found)
    /\ cached' = [cached EXCEPT ![m] = Result(found)]
    /\ hadContext' = found
    /\ call' = [call EXCEPT ![c] = None]

-----------------------------------------------------------------------------
(* The sources, in their order.                                            *)

\* is_enabled
CanAsk(s) == s \in Keyed /\ blocked[s] = 0

\* The next source, after one and with what was found so far.
NextSource(m, from, found) ==
    CASE from = "start" /\ CanAsk("news") -> "news"
      [] from = "start" /\ ~CanAsk("news") /\ CanAsk("web") -> "web"
      [] from = "news" /\ CanAsk("web") -> "web"
      [] from # "feed" /\ (from # "web" => ~CanAsk("web")) /\ (from = "start" => ~CanAsk("news"))
            /\ ~found /\ Feed -> "feed"
      [] OTHER -> None

\* From one source to the next request, or to the end.
Proceed(c, m, elapsed, from, found, fetched) ==
    LET source == NextSource(m, from, found)
    IN  \/ /\ source \in Service \/ (source = "feed" /\ articles[m] = FeedTTL)
           /\ call' = [call EXCEPT ![c] =
                         [market |-> m, source |-> source, found |-> found, elapsed |-> elapsed]]
           /\ count' = fetched
           /\ UNCHANGED <<cached, since, hadContext>>
        \/ /\ source = "feed" /\ articles[m] < FeedTTL
           /\ Conclude(c, m, elapsed, TRUE, fetched)
        \/ /\ source = None
           /\ Conclude(c, m, elapsed, found, fetched)

\* Faulty: one fetch too many.
Exhausted_OneMore(fetched) == fetched > MaxFetches

Exhausted(fetched) == fetched >= MaxFetches

\* fetch_context up to its first request.  Nothing changes when the cache has an
\* answer or the market is in its cooldown; the answer is then empty.
Ask(c, m) ==
    LET over == window > TTL
        fetched == IF over THEN 0 ELSE count
    IN  /\ call[c] = None
        /\ cached[m].age >= TTL /\ since[m] >= Cooldown
        /\ window' = IF over THEN 0 ELSE window
        /\ IF Exhausted(fetched)
           THEN /\ count' = fetched
                /\ begun' = IF over THEN 0 ELSE begun
                /\ UNCHANGED <<cached, since, hadContext, call, starts>>
           ELSE /\ Proceed(c, m, 0, "start", FALSE, fetched)
                /\ begun' = (IF over THEN 0 ELSE begun) + 1
                /\ starts' = [starts EXCEPT ![m][0] = @ + 1]
        /\ UNCHANGED <<blocked, refusals, articles>>

Go(c, found) ==
    /\ Proceed(c, call[c].market, call[c].elapsed, call[c].source, found, count)
    /\ UNCHANGED <<window, starts, begun>>

\* A service answers, with or without something of use.
Served(c, found) ==
    /\ call[c] # None /\ call[c].source \in Service
    /\ refusals' = [refusals EXCEPT ![call[c].source] = 0]
    /\ Go(c, call[c].found \/ found)
    /\ UNCHANGED <<blocked, articles>>

\* Faulty: the back-off doubles without end.
Backoff_Endless(s, n) == Base[s] * 2 ^ (n - 1)

Backoff(s, n) == AtMost(Base[s] * 2 ^ (n - 1), Longest[s])

\* A service answers that its limit is reached.
Refused(c) ==
    /\ call[c] # None /\ call[c].source \in Service
    /\ LET s == call[c].source
           n == AtMost(refusals[s] + 1, Enough)
       IN  /\ refusals' = [refusals EXCEPT ![s] = n]
           /\ blocked' = [blocked EXCEPT ![s] = Backoff(s, n)]
    /\ Go(c, call[c].found)
    /\ UNCHANGED articles

\* The request fails, or its answer cannot be used.
Failed(c) ==
    /\ call[c] # None
    /\ Go(c, call[c].found)
    /\ UNCHANGED <<blocked, refusals, articles>>

\* The feed keeps what it found.
FeedAnswers(c) ==
    /\ call[c] # None /\ call[c].source = "feed"
    /\ articles' = [articles EXCEPT ![call[c].market] = 0]
    /\ Go(c, TRUE)
    /\ UNCHANGED <<blocked, refusals>>

-----------------------------------------------------------------------------

\* Requests time out long before MaxElapsed.
Tick ==
    /\ \A c \in Caller : call[c] # None => call[c].elapsed < MaxElapsed
    /\ call' = [c \in Caller |-> IF call[c] = None THEN None ELSE [call[c] EXCEPT !.elapsed = @ + 1]]
    /\ blocked' = [s \in Service |-> IF blocked[s] > 0 THEN blocked[s] - 1 ELSE 0]
    /\ cached' = [m \in Market |-> [cached[m] EXCEPT !.age = Older(@, TTL)]]
    /\ articles' = [m \in Market |-> Older(articles[m], FeedTTL)]
    /\ since' = [m \in Market |-> Older(since[m], Cooldown)]
    /\ window' = Older(window, TTL + 1)
    /\ starts' = [m \in Market |->
                    [a \in 0 .. Rested - 1 |-> IF a = 0 THEN 0 ELSE starts[m][a - 1]]]
    /\ UNCHANGED <<refusals, count, hadContext, begun>>

\* Timestamps that were never set are 0.0, the time at which the machine started.
Init ==
    /\ blocked = [s \in Service |-> 0] /\ refusals = [s \in Service |-> 0]
    /\ cached = [m \in Market |-> [age |-> TTL, found |-> FALSE]]
    /\ articles = [m \in Market |-> FeedTTL]
    /\ \E up \in Uptime :
         /\ since = [m \in Market |-> AtMost(up, Cooldown)]
         /\ window = AtMost(up, TTL + 1)
    /\ count = 0 /\ hadContext = TRUE
    /\ call = [c \in Caller |-> None]
    /\ starts = [m \in Market |-> [a \in 0 .. Rested - 1 |-> 0]] /\ begun = 0

Next ==
    \/ \E c \in Caller :
         \/ \E m \in Market : Ask(c, m)
         \/ \E found \in BOOLEAN : Served(c, found)
         \/ Refused(c) \/ Failed(c) \/ FeedAnswers(c)
    \/ Tick

Spec == Init /\ [][Next]_vars

-----------------------------------------------------------------------------
(* Properties.                                                             *)

\* Every variable has its type; no back-off is longer than the longest.
TypeOK ==
    /\ \A s \in Service : blocked[s] \in 0 .. Longest[s] /\ refusals[s] \in 0 .. Enough
    /\ \A m \in Market :
         /\ cached[m].age \in 0 .. TTL /\ articles[m] \in 0 .. FeedTTL
         /\ since[m] \in 0 .. Cooldown
    /\ count \in Nat /\ window \in 0 .. TTL + 1 /\ hadContext \in BOOLEAN
    /\ call \in [Caller -> Calls \cup {None}]
    /\ \A c \in Caller :
         call[c] # None =>
            /\ call[c].source \in Keyed \cup (IF Feed THEN {"feed"} ELSE {})
            /\ call[c].source = "feed" => ~call[c].found

\* A fetch is counted when it has ended, so calls under way are not seen by the
\* test for the cap.  In an iteration the cap is exceeded by the other callers
\* at most, also when fetches of the iteration before end in it.
StartsWithinCap == begun <= (IF MaxFetches = 0 THEN 0 ELSE MaxFetches - 1 + Cardinality(Caller))

\* "don't re-fetch same market within this window" (context_fetcher.py:510), with
\* what concurrent calls make of it.  The cooldown is set when a fetch ends, and
\* to the start of the fetch that ends last, which need not have begun last; so
\* within the cooldown less the time of a call each caller fetches a market once.
MarketNotHammered ==
    \A m \in Market : Total(starts[m]) <= Cardinality(Caller)

=============================================================================
