------------------------------ MODULE PriceFeed ------------------------------
(***************************************************************************)
(* The price feed (ingestion/price_feed.py): one cache of prices that a    *)
(* polling task and a websocket task both write, and stop(), which ends    *)
(* both.  The tasks run on one event loop: an action is what one of them   *)
(* does between two awaits.                                                *)
(*                                                                         *)
(* A price is the number of times the market has changed, so that of two   *)
(* prices the larger is the newer.  The code has no such number: it keeps  *)
(* the time at which it received a price and compares nothing.             *)
(***************************************************************************)
EXTENDS Naturals, Sequences

CONSTANTS
    MarketId, NoMarket,
    LastPrice,           \* bound on the changes of a market
    MaxStream,           \* bound on the messages under way on a connection
    Overflow             \* 2 ** attempts is beyond a float from here on: 1024

ASSUME FeedAssumption ==
    /\ LastPrice \in Nat \ {0} /\ MaxStream \in Nat /\ Overflow \in Nat \ {0}
    /\ NoMarket \notin MarketId

VARIABLES
    price,               \* external: the prices of the exchange
    tracked, connected,
    cache,               \* 0 when there is no snapshot of a market
    poll,                \* where the polling task is
    round, fetching,     \* the rest of its round, and the market it waits for
    reply,               \* external: what the exchange answered to that
    ws,                  \* where the websocket task is
    subs, stream,        \* external: the subscriptions and messages of the connection
    attempts,            \* _ws_reconnect_attempts
    stopping             \* the task that stop() waits for

pollVars == <<poll, round, fetching, reply>>
wsVars == <<ws, subs, stream, attempts>>
feedVars == <<price, tracked, connected, cache, pollVars, wsVars, stopping>>

-----------------------------------------------------------------------------
(* The interface.                                                          *)

Track(m) ==
    /\ m \notin tracked
    /\ tracked' = tracked \cup {m}
    /\ UNCHANGED <<price, connected, cache, pollVars, wsVars, stopping>>

\* start_polling and start_websocket.  A caller starts a task once, and not while
\* stop() is under way.
StartPolling ==
    /\ stopping = "no"
    /\ poll = "off"
    /\ connected' = TRUE
    /\ poll' = "created"
    /\ UNCHANGED <<price, tracked, cache, round, fetching, reply, wsVars, stopping>>

StartWebsocket ==
    /\ stopping = "no"
    /\ ws = "off"
    /\ connected' = TRUE
    /\ ws' = "connecting"
    /\ UNCHANGED <<price, tracked, cache, pollVars, subs, stream, attempts, stopping>>

\* stop() up to its first await.
Stop ==
    /\ stopping = "no"
    /\ connected
    /\ connected' = FALSE
    /\ stopping' = "poll"
    /\ UNCHANGED <<price, tracked, cache, pollVars, wsVars>>

\* The cancelled polling task ends, and stop() cancels the other.
PollCancelled ==
    /\ stopping = "poll"
    /\ stopping' = "ws"
    /\ poll' = "off" /\ round' = {} /\ fetching' = NoMarket /\ reply' = 0
    /\ UNCHANGED <<price, tracked, connected, cache, wsVars>>

\* The websocket task ends, unless it is already dead of an exception, which
\* then leaves stop().
WsCancelled ==
    /\ stopping = "ws"
    /\ stopping' = "no"
    /\ ws' = IF ws = "dead" THEN "dead" ELSE "off"
    /\ subs' = {} /\ stream' = <<>>
    /\ UNCHANGED <<price, tracked, connected, cache, pollVars, attempts>>

-----------------------------------------------------------------------------
(* Polling.                                                                *)

\* The poll task runs until stop() cancels it.
Polling == stopping # "poll"

\* The next fetch of a round, or the sleep at its end.
Continue(todo) ==
    IF todo = {}
    THEN poll' = "sleeping" /\ round' = {} /\ fetching' = NoMarket
    ELSE \E m \in todo : poll' = "fetching" /\ round' = todo \ {m} /\ fetching' = m

\* A round goes over the markets tracked when it begins.
BeginRound ==
    /\ poll \in {"created", "sleeping"} /\ Polling
    /\ IF connected
       THEN Continue(tracked)
       ELSE poll' = "off" /\ UNCHANGED <<round, fetching>>
    /\ UNCHANGED <<price, tracked, connected, cache, reply, wsVars, stopping>>

\* The exchange reads the book.
Serve ==
    /\ fetching # NoMarket /\ reply = 0
    /\ reply' = price[fetching]
    /\ UNCHANGED <<price, tracked, connected, cache, poll, round, fetching, wsVars, stopping>>

\* Faulty: only a market that has no price yet gets one.
Polled_Once(m, p) == IF cache[m] = 0 THEN [cache EXCEPT ![m] = p] ELSE cache

\* update, for a book with both sides.
Polled(m, p) == [cache EXCEPT ![m] = p]

FetchAnswered ==
    /\ poll = "fetching" /\ Polling /\ reply # 0
    /\ cache' = Polled(fetching, reply)
    /\ reply' = 0
    /\ Continue(round)
    /\ UNCHANGED <<price, tracked, connected, wsVars, stopping>>

\* The request fails, or one side of the book is empty.
FetchFailed ==
    /\ poll = "fetching" /\ Polling
    /\ reply' = 0
    /\ Continue(round)
    /\ UNCHANGED <<price, tracked, connected, cache, wsVars, stopping>>

-----------------------------------------------------------------------------
(* The websocket.                                                          *)

\* Faulty: the messages of a lost connection are still received.
Closed_Reading == subs' = {} /\ UNCHANGED stream

Closed == subs' = {} /\ stream' = <<>>

\* Faulty: a connection asks for what the first one asked for.
Subscription_Once == IF attempts > 0 THEN {} ELSE tracked

Subscription == tracked

\* connect, and subscribe to what is tracked by now.
Connected ==
    /\ ws = "connecting"
    /\ ws' = "open"
    /\ subs' = Subscription
    /\ UNCHANGED <<price, tracked, connected, cache, pollVars, stream, attempts, stopping>>

\* Faulty: the loop over messages does not look at _connected.
Listening_Always == TRUE

Listening == connected

\* A message with a price.  When stop() has been called the loop breaks instead
\* and the task ends.
Receive ==
    /\ ws = "open" /\ stream # <<>>
    /\ LET m == Head(stream)[1]
           p == Head(stream)[2]
       IN  IF Listening
           THEN /\ cache' = [cache EXCEPT ![m] = p]
                /\ stream' = Tail(stream)
                /\ UNCHANGED <<ws, subs, attempts>>
           ELSE ws' = "off" /\ attempts' = 0 /\ Closed /\ UNCHANGED cache
    /\ UNCHANGED <<price, tracked, connected, pollVars, stopping>>

\* The exchange closes the connection in order.
ClosedInOrder ==
    /\ ws = "open"
    /\ ws' = IF connected THEN "connecting" ELSE "off"
    /\ attempts' = 0
    /\ Closed
    /\ UNCHANGED <<price, tracked, connected, cache, pollVars, stopping>>

\* Connecting fails, the connection breaks, or a message makes the handler
\* raise.  Computing the delay raises in turn when 2 ** attempts has no float.
Disconnected ==
    /\ ws \in {"connecting", "open"}
    /\ attempts' = attempts + 1
    /\ ws' = IF attempts + 1 >= Overflow THEN "dead" ELSE "waiting"
    /\ Closed
    /\ UNCHANGED <<price, tracked, connected, cache, pollVars, stopping>>

\* The delay is over.
Reconnect ==
    /\ ws = "waiting"
    /\ ws' = IF connected THEN "connecting" ELSE "off"
    /\ UNCHANGED <<price, tracked, connected, cache, pollVars, subs, stream, attempts, stopping>>

-----------------------------------------------------------------------------
(* The exchange.                                                           *)

\* A price changes, and the change is sent to who subscribed to it.
Change(m) ==
    /\ price[m] < LastPrice
    /\ m \in subs => Len(stream) < MaxStream
    /\ price' = [price EXCEPT ![m] = @ + 1]
    /\ stream' = IF m \in subs THEN Append(stream, <<m, price'[m]>>) ELSE stream
    /\ UNCHANGED <<tracked, connected, cache, pollVars, ws, subs, attempts, stopping>>

FeedInit ==
    /\ price = [m \in MarketId |-> 1]
    /\ tracked = {} /\ connected = FALSE
    /\ cache = [m \in MarketId |-> 0]
    /\ poll = "off" /\ round = {} /\ fetching = NoMarket /\ reply = 0
    /\ ws = "off" /\ subs = {} /\ stream = <<>> /\ attempts = 0
    /\ stopping = "no"

PollStep == BeginRound \/ FetchAnswered \/ FetchFailed
WsStep == Connected \/ Receive \/ ClosedInOrder \/ Disconnected \/ Reconnect
StopStep == PollCancelled \/ WsCancelled

FeedNext ==
    \/ \E m \in MarketId : Track(m) \/ Change(m)
    \/ StartPolling \/ StartWebsocket \/ Stop
    \/ StopStep
    \/ PollStep \/ Serve
    \/ WsStep

FeedSpec == FeedInit /\ [][FeedNext]_feedVars

\* The event loop runs what can run; requests, connection attempts and delays
\* end; and the requests for a market do not fail for ever.
FairFeedSpec ==
    /\ FeedSpec
    /\ WF_feedVars(PollStep)
    /\ \A m \in MarketId : SF_feedVars(Serve /\ fetching = m) /\ SF_feedVars(FetchAnswered /\ fetching = m)
    /\ WF_feedVars(Receive) /\ WF_feedVars(Reconnect)
    /\ WF_feedVars(ws = "connecting" /\ (Connected \/ Disconnected))
    /\ WF_feedVars(StopStep)

-----------------------------------------------------------------------------
(* Properties.                                                             *)

\* Every variable has its type; only a fetch waits for a market.
FeedTypeOK ==
    /\ price \in [MarketId -> 1 .. LastPrice] /\ cache \in [MarketId -> 0 .. LastPrice]
    /\ tracked \subseteq MarketId /\ connected \in BOOLEAN
    /\ poll \in {"off", "created", "fetching", "sleeping"}
    /\ round \subseteq tracked /\ fetching \in tracked \cup {NoMarket}
    /\ reply \in 0 .. LastPrice
    /\ (poll = "fetching") = (fetching # NoMarket)
    /\ ws \in {"off", "connecting", "open", "waiting", "dead"}
    /\ subs \subseteq tracked /\ stream \in Seq(subs \X (1 .. LastPrice))
    /\ ws # "open" => subs = {}
    /\ attempts \in 0 .. Overflow
    /\ stopping \in {"no", "poll", "ws"}

\* Once stop() has been called no price is written, although both tasks may
\* have answers waiting and the websocket task goes on until stop() reaches it.
SilentAfterStop == [][ ~connected => cache' = cache ]_feedVars

\* Prices come from two sources without any order between them, so an older
\* one may replace a newer.  It does not stay: while a market is polled, its
\* cached price becomes and remains that of the exchange once that is quiet.
CacheConverges ==
    \A m \in MarketId :
        <>[](connected /\ poll # "off" /\ m \in tracked) => <>[](cache[m] = price[m])

\* A market that is tracked while the websocket is down is subscribed to by
\* one of the next connections, unless the feed is stopped or the task dies.
ReconnectSubscribes ==
    \A m \in MarketId :
        (m \in tracked /\ ws \in {"connecting", "waiting"}) ~> (m \in subs \/ ws \in {"off", "dead"})

=============================================================================
