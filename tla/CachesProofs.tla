----------------------------- MODULE CachesProofs -----------------------------
(***************************************************************************)
(* Theorems about the three services that keep in a cache what they get    *)
(* from outside: the prices of PriceFeed, the forecasts of Scoring with    *)
(* the estimates and signals made of them, and the news of ContextFetcher. *)
(***************************************************************************)
EXTENDS ContextFetcher, PriceFeed, Scoring, SequenceTheorems, TotalsTheorems, TLAPS


-----------------------------------------------------------------------------
(* The price feed: types.                                                  *)

Fresh == 1 .. LastPrice

FeedTypes ==
    /\ price \in [MarketId -> Fresh] /\ cache \in [MarketId -> 0 .. LastPrice]
    /\ tracked \subseteq MarketId /\ connected \in BOOLEAN
    /\ stopping \in {"no", "poll", "ws"}

PollTypes ==
    /\ poll \in {"off", "created", "fetching", "sleeping"}
    /\ round \subseteq tracked /\ fetching \in tracked \cup {NoMarket}
    /\ reply \in 0 .. LastPrice
    /\ (poll = "fetching") = (fetching # NoMarket)

\* What is on a connection is about the markets it is subscribed to; there is
\* nothing on it unless it is open; and the task has not counted up to the delay
\* that it cannot compute unless it died of that.
WsTypes ==
    /\ ws \in {"off", "connecting", "open", "waiting", "dead"}
    /\ subs \subseteq tracked /\ stream \in Seq(subs \X Fresh)
    /\ ws # "open" => subs = {} /\ stream = <<>>
    /\ attempts \in 0 .. Overflow
    /\ ws # "dead" => attempts < Overflow

\* The polling task is silent from the moment stop() waits for it, and stop() waits
\* for no other task before.
Silent == (~connected /\ poll = "fetching") => stopping = "poll"

FeedInv == FeedTypes /\ PollTypes /\ WsTypes /\ Silent

LEMMA FeedInvTypes == FeedInv => FeedTypeOK
BY DEF FeedInv, FeedTypeOK, FeedTypes, PollTypes, WsTypes, Fresh

\* The task goes on to a market that is tracked, or sleeps.
LEMMA ContinueTypes ==
    ASSUME FeedTypes, NEW todo \in SUBSET tracked, Continue(todo)
    PROVE  /\ poll' \in {"fetching", "sleeping"}
           /\ round' \subseteq tracked /\ fetching' \in tracked \cup {NoMarket}
           /\ (poll' = "fetching") = (fetching' # NoMarket)
BY FeedAssumption DEF Continue, FeedTypes

\* What arrives first is about a market the connection is subscribed to.
LEMMA HeadTypes ==
    ASSUME FeedTypes, WsTypes, stream # <<>>
    PROVE  /\ Head(stream)[1] \in MarketId /\ Head(stream)[2] \in Fresh
           /\ Tail(stream) \in Seq(subs \X Fresh)
<1>1. Head(stream) \in subs \X Fresh /\ Tail(stream) \in Seq(subs \X Fresh)
  BY DEF WsTypes
<1>2. QED
  BY <1>1 DEF WsTypes, FeedTypes

\* Steps of the interface and of stop().
LEMMA InterfaceKeeps ==
    ASSUME FeedInv,
           \/ \E m \in MarketId : Track(m)
           \/ StartPolling \/ StartWebsocket \/ Stop \/ StopStep
    PROVE  FeedInv'
<1> USE DEF FeedInv, FeedTypes, PollTypes, WsTypes, Silent, pollVars, wsVars
<1>1. ASSUME NEW m \in MarketId, Track(m) PROVE FeedInv'
  BY <1>1 DEF Track
<1>2. CASE StartPolling
  BY <1>2 DEF StartPolling
<1>3. CASE StartWebsocket
  BY <1>3 DEF StartWebsocket
<1>4. CASE Stop
  BY <1>4 DEF Stop
<1>5. CASE PollCancelled
  BY <1>5, FeedAssumption DEF PollCancelled
<1>6. CASE WsCancelled
  BY <1>6 DEF WsCancelled
<1>7. QED
  BY <1>1, <1>2, <1>3, <1>4, <1>5, <1>6 DEF StopStep

\* Steps of the polling task, and the book that is read for it.
LEMMA PollKeeps ==
    ASSUME FeedInv, PollStep \/ Serve
    PROVE  FeedInv'
<1> USE DEF FeedInv, Silent
<1>1. CASE BeginRound
  <2>1. UNCHANGED <<price, tracked, connected, cache, reply, ws, subs, stream, attempts, stopping>>
    BY <1>1 DEF BeginRound, wsVars
  <2>2. CASE connected
    <3>1. Continue(tracked)
      BY <1>1, <2>2 DEF BeginRound
    <3>2. PollTypes'
      BY <2>1, <3>1, ContinueTypes DEF PollTypes
    <3>3. QED
      BY <2>1, <2>2, <3>2 DEF FeedTypes, WsTypes
  <2>3. CASE ~connected
    <3>1. poll \in {"created", "sleeping"} /\ poll' = "off" /\ UNCHANGED <<round, fetching>>
      BY <1>1, <2>3 DEF BeginRound
    <3>2. QED
      BY <2>1, <3>1 DEF FeedTypes, PollTypes, WsTypes
  <2>4. QED
    BY <2>2, <2>3
<1>2. CASE Serve
  <2>1. fetching \in MarketId
    BY <1>2 DEF Serve, PollTypes, FeedTypes
  <2>2. reply' \in 0 .. LastPrice
    BY <1>2, <2>1, FeedAssumption DEF Serve, FeedTypes, Fresh
  <2>3. QED
    BY <1>2, <2>2 DEF Serve, FeedTypes, PollTypes, WsTypes, wsVars
<1>3. CASE FetchAnswered \/ FetchFailed
  <2>1. /\ poll = "fetching" /\ stopping # "poll" /\ reply' = 0 /\ Continue(round)
        /\ UNCHANGED <<price, tracked, connected, ws, subs, stream, attempts, stopping>>
    BY <1>3 DEF FetchAnswered, FetchFailed, Polling, wsVars
  <2>2. connected
    BY <2>1 DEF FeedTypes
  <2>3. cache' \in [MarketId -> 0 .. LastPrice]
    <3>1. CASE FetchAnswered
      <4>1. fetching \in MarketId /\ reply \in 0 .. LastPrice
        BY <2>1 DEF PollTypes, FeedTypes
      <4>2. QED
        BY <3>1, <4>1 DEF FetchAnswered, Polled, FeedTypes
    <3>2. CASE FetchFailed
      BY <3>2 DEF FetchFailed, FeedTypes
    <3>3. QED
      BY <1>3, <3>1, <3>2
  <2>4. PollTypes'
    <3>1. round \in SUBSET tracked
      BY DEF PollTypes
    <3>2. 0 \in 0 .. LastPrice
      BY FeedAssumption
    <3>3. QED
      BY <2>1, <3>1, <3>2, ContinueTypes DEF PollTypes
  <2>5. QED
    BY <2>1, <2>2, <2>3, <2>4 DEF FeedTypes, WsTypes
<1>4. QED
  BY <1>1, <1>2, <1>3 DEF PollStep

\* Steps of the websocket task, and changes of prices.
LEMMA WsKeeps ==
    ASSUME FeedInv, WsStep \/ \E m \in MarketId : Change(m)
    PROVE  FeedInv'
<1> USE DEF FeedInv
<1>1. CASE Connected
  BY <1>1 DEF Connected, Subscription, FeedTypes, PollTypes, WsTypes, Silent, pollVars
<1>2. CASE Receive
  <2>1. /\ ws = "open" /\ stream # <<>>
        /\ UNCHANGED <<price, tracked, connected, poll, round, fetching, reply, stopping>>
    BY <1>2 DEF Receive, pollVars
  <2>2. CASE connected
    <3>1. /\ cache' = [cache EXCEPT ![Head(stream)[1]] = Head(stream)[2]]
          /\ stream' = Tail(stream) /\ UNCHANGED <<ws, subs, attempts>>
      BY <1>2, <2>2 DEF Receive, Listening
    <3>2. /\ Head(stream)[1] \in MarketId /\ Head(stream)[2] \in Fresh
          /\ Tail(stream) \in Seq(subs \X Fresh)
      BY <2>1, HeadTypes
    <3>3. cache' \in [MarketId -> 0 .. LastPrice]
      BY <3>1, <3>2, FeedAssumption DEF FeedTypes, Fresh
    <3>4. WsTypes'
      BY <2>1, <3>1, <3>2 DEF WsTypes
    <3>5. QED
      BY <2>1, <3>3, <3>4 DEF FeedTypes, PollTypes, Silent
  <2>3. CASE ~connected
    <3>1. /\ ws' = "off" /\ attempts' = 0 /\ subs' = {} /\ stream' = <<>> /\ cache' = cache
      BY <1>2, <2>3 DEF Receive, Listening, Closed
    <3>2. WsTypes'
      BY <2>1, <3>1, FeedAssumption DEF WsTypes
    <3>3. QED
      BY <2>1, <3>1, <3>2 DEF FeedTypes, PollTypes, Silent
  <2>4. QED
    BY <2>2, <2>3
<1>3. CASE ClosedInOrder \/ Disconnected \/ Reconnect
  <2>1. UNCHANGED <<price, tracked, connected, cache, poll, round, fetching, reply, stopping>>
    BY <1>3 DEF ClosedInOrder, Disconnected, Reconnect, pollVars
  <2>2. WsTypes'
    <3>1. CASE ClosedInOrder
      BY <3>1, <2>1, FeedAssumption DEF ClosedInOrder, Closed, WsTypes
    <3>2. CASE Disconnected
      BY <3>2, <2>1, FeedAssumption DEF Disconnected, Closed, WsTypes
    <3>3. CASE Reconnect
      BY <3>3, <2>1 DEF Reconnect, WsTypes
    <3>4. QED
      BY <1>3, <3>1, <3>2, <3>3
  <2>3. QED
    BY <2>1, <2>2 DEF FeedTypes, PollTypes, Silent
<1>4. ASSUME NEW m \in MarketId, Change(m) PROVE FeedInv'
  <2>1. /\ UNCHANGED <<tracked, connected, cache, poll, round, fetching, reply, ws, subs,
                       attempts, stopping>>
        /\ price[m] < LastPrice /\ price' = [price EXCEPT ![m] = price[m] + 1]
        /\ stream' = IF m \in subs THEN Append(stream, <<m, price'[m]>>) ELSE stream
    BY <1>4 DEF Change, pollVars
  <2>2. price[m] + 1 \in Fresh
    BY <2>1, FeedAssumption DEF FeedTypes, Fresh
  <2>3. price' \in [MarketId -> Fresh] /\ price'[m] \in Fresh
    BY <2>1, <2>2 DEF FeedTypes
  <2>4. WsTypes'
    BY <2>1, <2>3 DEF WsTypes
  <2>5. QED
    BY <2>1, <2>3, <2>4 DEF FeedTypes, PollTypes, Silent
<1>5. QED
  BY <1>1, <1>2, <1>3, <1>4 DEF WsStep

LEMMA FeedNextKeeps == FeedInv /\ [FeedNext]_feedVars => FeedInv'
<1> SUFFICES ASSUME FeedInv, [FeedNext]_feedVars PROVE FeedInv'
  OBVIOUS
<1>1. CASE UNCHANGED feedVars
  BY <1>1 DEF feedVars, pollVars, wsVars, FeedInv, FeedTypes, PollTypes, WsTypes, Silent
<1>2. CASE FeedNext
  BY <1>2, InterfaceKeeps, PollKeeps, WsKeeps DEF FeedNext
<1>3. QED
  BY <1>1, <1>2

LEMMA FeedInitInv == FeedInit => FeedInv
<1> SUFFICES ASSUME FeedInit PROVE FeedInv
  OBVIOUS
<1>1. FeedTypes
  <2>1. 1 \in Fresh /\ 0 \in 0 .. LastPrice
    BY FeedAssumption DEF Fresh
  <2>2. QED
    BY <2>1 DEF FeedInit, FeedTypes
<1>2. PollTypes /\ Silent
  BY FeedAssumption DEF FeedInit, PollTypes, Silent
<1>3. WsTypes
  BY FeedAssumption DEF FeedInit, WsTypes
<1>4. QED
  BY <1>1, <1>2, <1>3 DEF FeedInv

\* A fetch waits for a market if and only if the polling task is in a round, only
\* what a connection asked for is on it, and a connection that is lost leaves
\* nothing behind, whenever tasks are started, stopped and disconnected
\* (ingestion/price_feed.py).
THEOREM FeedTypeCorrect == FeedSpec => []FeedTypeOK
BY FeedInitInv, FeedNextKeeps, FeedInvTypes, PTL DEF FeedSpec

\* Without a connection no step writes a price: the websocket task then leaves its
\* loop, and an answer to the polling task cannot arrive, for stop() has cancelled it
\* (price_feed.py:98).
LEMMA SilentStep == FeedInv /\ [FeedNext]_feedVars => (~connected => cache' = cache)
<1> SUFFICES ASSUME FeedInv, [FeedNext]_feedVars, ~connected PROVE cache' = cache
  OBVIOUS
<1>1. CASE UNCHANGED feedVars
  BY <1>1 DEF feedVars
<1>2. ASSUME NEW m \in MarketId, Track(m) \/ Change(m) PROVE cache' = cache
  BY <1>2 DEF Track, Change
<1>3. CASE StartPolling \/ StartWebsocket \/ Stop \/ StopStep \/ BeginRound \/ FetchFailed \/ Serve
  BY <1>3 DEF StartPolling, StartWebsocket, Stop, StopStep, PollCancelled, WsCancelled,
              BeginRound, FetchFailed, Serve
<1>4. ~FetchAnswered
  BY DEF FetchAnswered, Polling, FeedInv, Silent
<1>5. CASE Receive
  BY <1>5 DEF Receive, Listening
<1>6. CASE Connected \/ ClosedInOrder \/ Disconnected \/ Reconnect
  BY <1>6 DEF Connected, ClosedInOrder, Disconnected, Reconnect
<1>7. QED
  BY <1>1, <1>2, <1>3, <1>4, <1>5, <1>6 DEF FeedNext, PollStep, WsStep

\* Once stop() has been called no price is written.
THEOREM StoppedIsSilent == FeedSpec => SilentAfterStop
<1>1. FeedInv /\ [FeedNext]_feedVars => [~connected => cache' = cache]_feedVars
  BY SilentStep
<1>2. QED
  BY <1>1, FeedInitInv, FeedNextKeeps, PTL DEF FeedSpec, SilentAfterStop

-----------------------------------------------------------------------------
(* The signals.                                                            *)

\* A bet of Kelly is never more than the balance.
LEMMA KellyType ==
    ASSUME NEW p \in Int, NEW paid \in Int, NEW balance \in Nat
    PROVE  Kelly(p, paid, balance) \in 0 .. balance
<1> DEFINE full == p * paid - (One - p) * (One - paid)
           bets == paid \in 1 .. One - 1 /\ p \in 1 .. One - 1 /\ p > paid /\ full > 0
<1>1. CASE ~bets
  BY <1>1 DEF Kelly
<1>2. CASE bets
  <2>1. full = 100 * (p + paid - 100)
    BY DEF One
  <2>2. PICK m \in Nat : full = 100 * m /\ m <= paid /\ m = p + paid - 100
    BY <1>2, <2>1 DEF One
  <2>3. PICK stake \in Nat : stake = KellyPct * balance /\ stake <= 100 * balance
    <3>1. PICK share \in Nat : share = KellyPct /\ share <= 100
      BY SignalsAssumption
    <3>2. share * balance \in Nat /\ share * balance <= 100 * balance
      BY <3>1
    <3>3. QED
      BY <3>1, <3>2
  <2>4. PICK most \in Nat : most = One * paid * 100 /\ most = 10000 * paid /\ most > 0
    BY <1>2 DEF One
  <2>5. full * KellyPct * balance = (100 * m) * stake
    <3>1. PICK share \in Nat : share = KellyPct
      BY SignalsAssumption
    <3>2. ((100 * m) * share) * balance = (100 * m) * (share * balance)
      OBVIOUS
    <3>3. QED
      BY <2>2, <2>3, <3>1, <3>2
  <2>6. (100 * m) * stake \in Nat /\ (100 * m) * stake <= most * balance
    <3>1. m * stake <= paid * stake /\ m * stake \in Nat /\ paid * stake \in Nat
      BY <1>2, <2>2
    <3>2. paid * stake <= paid * (100 * balance)
      BY <1>2, <2>3
    <3>3. (100 * m) * stake = 100 * (m * stake)
      OBVIOUS
    <3>4. most * balance = 100 * (paid * (100 * balance))
      BY <1>2, <2>4
    <3>5. QED
      BY <3>1, <3>2, <3>3, <3>4
  <2>7. PICK bet \in Nat : bet = (100 * m) * stake /\ bet <= most * balance
    BY <2>6
  <2>8. bet \div most \in 0 .. balance
    BY <2>4, <2>7
  <2>9. Kelly(p, paid, balance) = bet \div most
    BY <1>2, <2>4, <2>5, <2>7 DEF Kelly
  <2>10. QED
    BY <2>8, <2>9
<1>3. QED
  BY <1>1, <1>2

\* A stake is neither more than the balance nor more than the largest position.
LEMMA StakeType ==
    ASSUME NEW p \in Int, NEW paid \in Int, NEW balance \in Nat
    PROVE  Stake(p, paid, balance) \in 0 .. AtMost(balance, MaxPosition)
<1>1. PICK bet \in 0 .. balance : bet = Kelly(p, paid, balance)
  BY KellyType
<1>2. QED
  BY <1>1, SignalsAssumption DEF Stake, AtMost

\* The parts of a signal are numbers, for a market price and a probability.
LEMMA SignalParts ==
    ASSUME NEW cost \in 0 .. One, NEW p \in 0 .. One, NEW outcome \in {"Yes", "No"}
    PROVE  /\ Edge(cost, p) \in Int /\ Clamped(Edge(cost, p)) \in Int
           /\ View(cost, p) \in Int
           /\ Of(outcome, cost) \in Int /\ Of(outcome, View(cost, p)) \in Int
<1>1. PICK edge \in Int : edge = Edge(cost, p)
  BY SignalsAssumption DEF Edge, One
<1>2. PICK clamped \in Int : clamped = Clamped(edge)
  BY DEF Clamped, AtLeast, AtMost, MaxEdge
<1>3. View(cost, p) = IF Abs(edge) > MaxEdge THEN cost + clamped ELSE p
  BY <1>1, <1>2 DEF View
<1>4. PICK view \in Int : view = View(cost, p)
  BY <1>3 DEF One
<1>5. QED
  BY <1>1, <1>2, <1>4 DEF Of, One

\* The middle of a book is a price.
LEMMA MidType == ASSUME NEW book \in Book PROVE Mid(book) \in 0 .. One
BY DEF Mid, Book, One

\* A signal is a bet on one outcome, of the size of a stake.
LEMMA SignalType ==
    ASSUME NEW book \in Book, NEW p \in 0 .. One,
           NEW balance \in Nat, Signal(book, p, balance) # NoSignal
    PROVE  /\ Signal(book, p, balance).size \in 1 .. AtMost(balance, MaxPosition)
           /\ Signal(book, p, balance).outcome \in {"Yes", "No"}
<1>1. PICK cost \in 0 .. One : cost = Mid(book)
  BY MidType
<1>2. PICK outcome \in {"Yes", "No"} : outcome = IF Clamped(Edge(cost, p)) > 0 THEN "Yes" ELSE "No"
  OBVIOUS
<1>3. PICK edge : edge = Clamped(Edge(cost, p))
  OBVIOUS
<1>4. PICK paid \in Int, view \in Int : paid = Of(outcome, cost) /\ view = Of(outcome, View(cost, p))
  BY SignalParts
<1>5. PICK size \in 0 .. AtMost(balance, MaxPosition) : size = Stake(view, paid, balance)
  BY StakeType
<1>6. PICK accepted \in BOOLEAN :
        Signal(book, p, balance)
            = IF accepted /\ size > 0 THEN [outcome |-> outcome, edge |-> edge, size |-> size] ELSE NoSignal
  BY <1>1, <1>2, <1>3, <1>4, <1>5 DEF Signal
<1>7. QED
  BY <1>5, <1>6

\* Seen from the other side, an edge has the other sign.
LEMMA EdgeMirrored ==
    ASSUME Bias = 0, NEW cost \in 0 .. One, NEW p \in 0 .. One
    PROVE  /\ Clamped(Edge(One - cost, One - p)) = -Clamped(Edge(cost, p))
           /\ View(One - cost, One - p) = One - View(cost, p)
<1>1. PICK edge \in Int : edge = Edge(cost, p) /\ edge = p - cost
  BY DEF Edge, One
<1>2. Edge(One - cost, One - p) = -edge
  BY <1>1 DEF Edge, One
<1>3. Clamped(-edge) = -Clamped(edge) /\ Clamped(edge) \in Int
  BY DEF Clamped, AtMost, AtLeast, MaxEdge
<1>4. Abs(-edge) = Abs(edge)
  BY DEF Abs
<1>5. PICK clamped \in Int : clamped = Clamped(edge) /\ -clamped = Clamped(-edge)
  BY <1>3
<1>6. View(cost, p) = IF Abs(edge) > MaxEdge THEN cost + clamped ELSE p
  BY <1>1, <1>5 DEF View
<1>7. View(One - cost, One - p) = IF Abs(edge) > MaxEdge THEN One - cost + -clamped ELSE One - p
  BY <1>2, <1>4, <1>5 DEF View
<1>8. QED
  BY <1>1, <1>2, <1>3, <1>6, <1>7 DEF One

\* Seen from the other side, the middle of a book is the price of the other outcome.
LEMMA MidMirrored ==
    ASSUME NEW book \in Book, (book.bid + book.ask) % 2 = 0
    PROVE  Mid(Mirrored(book)) = One - Mid(book)
<1>1. PICK bid \in 0 .. One, ask \in 0 .. One : bid = book.bid /\ ask = book.ask
  BY DEF Book
<1>2. PICK mid \in Nat : bid + ask = 2 * mid
  <2>1. PICK both \in Nat : both = bid + ask /\ both % 2 = 0
    <3>1. bid + ask \in Nat
      BY DEF One
    <3>2. (bid + ask) % 2 = 0
      BY <1>1, Zenon
    <3>3. QED
      BY <3>1, <3>2, Zenon
  <2>2. both = 2 * (both \div 2) /\ both \div 2 \in Nat
    BY <2>1
  <2>3. QED
    BY <2>1, <2>2
<1>3. Mid(book) = mid
  BY <1>1, <1>2 DEF Mid, One
<1>4. Mirrored(book).bid = One - ask /\ Mirrored(book).ask = One - bid
  BY <1>1 DEF Mirrored
<1>5. Mid(Mirrored(book)) = (2 * (One - mid)) \div 2
  <2>1. One - ask + (One - bid) = 2 * (One - mid)
    BY <1>1, <1>2 DEF One
  <2>2. Mid(Mirrored(book)) = (One - ask + (One - bid)) \div 2
    BY <1>4, Zenon DEF Mid
  <2>3. QED
    BY <2>1, <2>2, Zenon
<1>6. QED
  BY <1>3, <1>5 DEF One

\* A market and its mirror give opposite signals, unless a book is too thin.
LEMMA SignalMirrored ==
    ASSUME Bias = 0, NEW book \in Book, (book.bid + book.ask) % 2 = 0,
           NEW p \in 0 .. One, NEW balance \in Nat
    PROVE  LET this == Signal(book, p, balance)
               mirror == Signal(Mirrored(book), One - p, balance)
           IN  /\ this # NoSignal /\ mirror # NoSignal =>
                     /\ mirror.outcome = Other(this.outcome)
                     /\ mirror.edge = -this.edge
                     /\ mirror.size = this.size
               /\ this # NoSignal /\ mirror = NoSignal => Thin(Other(this.outcome), Mirrored(book))
               /\ this = NoSignal /\ mirror # NoSignal => Thin(Other(mirror.outcome), book)
<1> DEFINE this == Signal(book, p, balance)
           mirror == Signal(Mirrored(book), One - p, balance)
<1>1. PICK cost \in 0 .. One : cost = Mid(book) /\ Mid(Mirrored(book)) = One - cost
  BY MidType, MidMirrored
<1>2. PICK edge \in Int, view \in Int :
        /\ edge = Clamped(Edge(cost, p)) /\ view = View(cost, p)
        /\ Clamped(Edge(One - cost, One - p)) = -edge
        /\ View(One - cost, One - p) = One - view
  <2>1. "Yes" \in {"Yes", "No"}
    OBVIOUS
  <2>2. Clamped(Edge(cost, p)) \in Int /\ View(cost, p) \in Int
    BY <2>1, SignalParts
  <2>3. QED
    BY <2>2, EdgeMirrored
<1>3. PICK there : there = Mirrored(book) /\ there \in Book
  <2>1. /\ One - book.ask \in 0 .. One /\ One - book.bid \in 0 .. One
        /\ book.asks \in Nat /\ book.bids \in Nat
    BY DEF Book, One
  <2>2. Mirrored(book) \in Book
    BY <2>1 DEF Mirrored, Book
  <2>3. QED
    BY <2>2
<1>4. Abs(-edge) = Abs(edge) /\ Abs(edge) \in Nat
  BY DEF Abs
<1>5. CASE edge = 0
  <2>1. ~(Abs(edge) >= MinEdge)
    BY <1>5, SignalsAssumption DEF Abs
  <2>2. this = NoSignal
    BY <1>1, <1>2, <2>1 DEF Signal
  <2>3. mirror = NoSignal
    BY <1>1, <1>2, <1>4, <2>1 DEF Signal
  <2>4. QED
    BY <2>2, <2>3
<1>6. ASSUME NEW outcome \in {"Yes", "No"}, NEW other \in {"Yes", "No"}, other # outcome,
             outcome = (IF edge > 0 THEN "Yes" ELSE "No"),
             other = (IF -edge > 0 THEN "Yes" ELSE "No")
      PROVE  /\ this # NoSignal /\ mirror # NoSignal =>
                   /\ mirror.outcome = Other(this.outcome)
                   /\ mirror.edge = -this.edge
                   /\ mirror.size = this.size
             /\ this # NoSignal /\ mirror = NoSignal => Thin(Other(this.outcome), there)
             /\ this = NoSignal /\ mirror # NoSignal => Thin(Other(mirror.outcome), book)
  <2>1. PICK paid \in Int : paid = Of(outcome, cost) /\ paid = Of(other, One - cost)
    BY <1>6 DEF Of, One
  <2>2. PICK believed \in Int : believed = Of(outcome, view) /\ believed = Of(other, One - view)
    BY <1>6 DEF Of, One
  <2>3. PICK deep \in BOOLEAN, deepThere \in BOOLEAN :
          /\ deep = (Depth(outcome, book) >= One * MinLiquidity)
          /\ deepThere = (Depth(other, there) >= One * MinLiquidity)
    <3>1. /\ (Depth(outcome, book) >= One * MinLiquidity) \in BOOLEAN
          /\ (Depth(other, there) >= One * MinLiquidity) \in BOOLEAN
      OBVIOUS
    <3>2. QED
      BY <3>1
  <2>4. (deep <=> ~Thin(outcome, book)) /\ (deepThere <=> ~Thin(other, there))
    <3>1. ASSUME NEW o \in {"Yes", "No"}, NEW b \in Book
          PROVE  (Depth(o, b) >= One * MinLiquidity) <=> ~Thin(o, b)
      <4>1. PICK least \in Nat : least = One * MinLiquidity
        BY SignalsAssumption DEF One
      <4>2. PICK yes \in Nat, no \in Nat : yes = b.ask * b.asks /\ no = b.bid * b.bids
        <5>1. b.ask \in Nat /\ b.bid \in Nat /\ b.asks \in Nat /\ b.bids \in Nat
          BY DEF Book, One
        <5>2. \A x, y \in Nat : x * y \in Nat
          OBVIOUS
        <5>3. QED
          BY <5>1, <5>2
      <4>3. QED
        BY <4>1, <4>2 DEF Depth, Thin
    <3>2. QED
      BY <1>3, <2>3, <3>1
  <2>5. PICK size \in 0 .. AtMost(balance, MaxPosition) : size = Stake(believed, paid, balance)
    BY StakeType
  <2>6. PICK passes \in BOOLEAN : passes <=> /\ Abs(edge) >= MinEdge /\ paid >= MinPrice /\ size > 0
    OBVIOUS
  <2>7. this = IF passes /\ deep THEN [outcome |-> outcome, edge |-> edge, size |-> size] ELSE NoSignal
    BY <1>1, <1>2, <1>6, <2>1, <2>2, <2>3, <2>5, <2>6 DEF Signal
  <2>8. mirror = IF passes /\ deepThere THEN [outcome |-> other, edge |-> -edge, size |-> size] ELSE NoSignal
    BY <1>1, <1>2, <1>3, <1>4, <1>6, <2>1, <2>2, <2>3, <2>5, <2>6 DEF Signal
  <2>9. /\ [outcome |-> outcome, edge |-> edge, size |-> size] # NoSignal
        /\ [outcome |-> other, edge |-> -edge, size |-> size] # NoSignal
    <3>1. size \in Nat /\ -edge \in Int
      BY SignalsAssumption DEF AtMost
    <3>2. QED
      BY <3>1, SignalsAssumption
  <2>10. other = Other(outcome) /\ outcome = Other(other)
    BY <1>6 DEF Other
  <2> HIDE DEF this, mirror
  <2>11. CASE this # NoSignal
    <3>1. deep /\ passes /\ this.outcome = outcome /\ this.edge = edge /\ this.size = size
      BY <2>7, <2>11
    <3>2. mirror # NoSignal =>
            mirror.outcome = other /\ mirror.edge = -edge /\ mirror.size = size
      BY <2>8
    <3>3. mirror = NoSignal => ~deepThere
      BY <2>8, <2>9, <3>1
    <3>4. QED
      BY <2>4, <2>10, <2>11, <3>1, <3>2, <3>3
  <2>12. CASE this = NoSignal
    <3>1. ~(passes /\ deep)
      BY <2>7, <2>9, <2>12
    <3>2. mirror # NoSignal => passes /\ mirror.outcome = other
      BY <2>8
    <3>3. QED
      BY <2>4, <2>10, <2>12, <3>1, <3>2
  <2>13. QED
    BY <2>11, <2>12
<1>7. CASE edge > 0
  <2>1. "Yes" = (IF edge > 0 THEN "Yes" ELSE "No") /\ "No" = (IF -edge > 0 THEN "Yes" ELSE "No")
    BY <1>7
  <2>2. QED
    BY <1>3, <1>6, <2>1
<1>8. CASE edge < 0
  <2>1. "No" = (IF edge > 0 THEN "Yes" ELSE "No") /\ "Yes" = (IF -edge > 0 THEN "Yes" ELSE "No")
    BY <1>8
  <2>2. QED
    BY <1>3, <1>6, <2>1
<1>9. QED
  BY <1>5, <1>7, <1>8

-----------------------------------------------------------------------------
(* The estimates.                                                          *)

\* A product of parts of a hundred stays in its bounds.
LEMMA PartOfPart == \A a \in 0 .. 50, b \in 0 .. 100 : a * b \in Nat /\ a * b <= 5000
<1>1. SUFFICES ASSUME NEW a \in 0 .. 50, NEW b \in 0 .. 100 PROVE a * b \in Nat /\ a * b <= 5000
  OBVIOUS
<1>2. a * b \in Nat /\ a * b <= 50 * b
  OBVIOUS
<1>3. QED
  BY <1>2

\* The heuristic moves a price towards the middle, and its confidence adds up to
\* less than a hundred.
LEMMA HeuristicType ==
    ASSUME NEW q \in Question, half \in Int
    PROVE  Heuristic(q) \in Estimate
<1>1. PICK listed \in 0 .. 100, s \in 0 .. 100 : listed = q.listed /\ s = SpreadFactor(q)
  <2>1. PICK listed \in 0 .. 100, width \in 0 .. 100 : listed = q.listed /\ width = q.spread
    BY Zenon DEF Question, One
  <2>2. 2 * AtMost(width, 50) \in 0 .. 100
    BY DEF AtMost
  <2>3. QED
    BY <2>1, <2>2, Zenon DEF SpreadFactor
<1>2. PICK prob : prob = listed + ((50 - listed) * s) \div 200
  OBVIOUS
<1>3. prob \in 0 .. 100
  <2>1. CASE listed <= 50
    <3>1. PICK d \in 0 .. 50 : d = 50 - listed
      BY <2>1
    <3>2. PICK moved \in Nat : moved = d * s /\ moved <= 5000
      <4>1. d * s \in Nat /\ d * s <= 5000
        BY PartOfPart
      <4>2. QED
        BY <4>1
    <3>3. PICK shift \in 0 .. 25 : shift = moved \div 200
      <4>1. moved \div 200 \in 0 .. 25
        BY <3>2, SMTT(30)
      <4>2. QED
        BY <4>1, Zenon
    <3>4. prob = listed + shift
      BY <1>2, <3>1, <3>2, <3>3
    <3>5. QED
      BY <2>1, <3>4
  <2>2. CASE listed > 50
    <3>1. PICK d \in 0 .. 50 : d = listed - 50
      BY <2>2
    <3>2. PICK moved \in Nat : moved = d * s /\ moved <= 5000
      <4>1. d * s \in Nat /\ d * s <= 5000
        BY PartOfPart
      <4>2. QED
        BY <4>1
    <3>3. (50 - listed) * s = -moved
      BY <3>1, <3>2
    <3>4. PICK shift \in -25 .. 0 : shift = (-moved) \div 200
      <4>1. (-moved) \div 200 \in -25 .. 0
        BY <3>2, SMTT(30)
      <4>2. QED
        BY <4>1, Zenon
    <3>5. prob = listed + shift
      BY <1>2, <3>3, <3>4
    <3>6. QED
      BY <2>2, <3>5
  <2>3. QED
    BY <2>1, <2>2
<1>4. PICK volume \in 0 .. 90 : volume = VolumeConfidence(q.volume)
  BY DEF VolumeConfidence
<1>5. PICK boost \in 0 .. 30 : boost = RecencyBoost(Days(q))
  BY DEF RecencyBoost
<1>6. PICK category \in 0 .. 10 : category = IF q.category = "other" THEN 0 ELSE 10
  OBVIOUS
<1>7. PICK conf : conf = (400 * volume + 300 * (100 - s) + 150 * category + 150 * boost) \div 1000
  OBVIOUS
<1>8. conf \in 0 .. 100
  BY <1>7
<1>9. Heuristic(q) = [prob |-> prob, conf |-> conf]
  BY <1>1, <1>2, <1>4, <1>5, <1>6, <1>7 DEF Heuristic, One
<1>10. QED
  BY <1>3, <1>8, <1>9 DEF Estimate, One

\* Bounds at 1 and 99.
LEMMA WithinBoundsType == \A p \in Int : WithinBounds(p) \in 0 .. One
BY DEF WithinBounds, AtLeast, AtMost, One

\* The distribution is looked up within its bounds, for any temperature.
LEMMA CdfType ==
    ASSUME NEW x \in Int, NEW mean \in Int
    PROVE  Cdf(x, mean) \in 0 .. One
<1>1. PICK far \in Nat : Chance \in [-far .. far -> 0 .. One]
  BY ScoringAssumption
<1>2. Max(DOMAIN Chance) = far
  <2>1. DOMAIN Chance = -far .. far
    BY <1>1
  <2>2. far \in -far .. far /\ \A y \in -far .. far : far >= y
    OBVIOUS
  <2>3. \A z \in -far .. far : (\A y \in -far .. far : z >= y) => z = far
    BY <2>2
  <2>4. QED
    BY <2>1, <2>2, <2>3 DEF Max
<1>3. PICK distance \in Int : distance = x - mean
  OBVIOUS
<1>4. AtLeast(AtMost(distance, far), -far) \in -far .. far
  BY DEF AtLeast, AtMost
<1>5. QED
  BY <1>1, <1>2, <1>3, <1>4 DEF Cdf

\* The chance that a temperature falls into a bucket, of one side or of two.
LEMMA ChanceType ==
    ASSUME NEW q \in Question, q.bucket # Nothing, NEW mean \in Int
    PROVE  TemperatureChance(q, mean) \in Int
<1>1. PICK bucket \in Int : bucket = q.bucket
  BY DEF Question
<1>2. PICK a \in 0 .. One, b \in 0 .. One, c \in 0 .. One :
        a = Cdf(bucket, mean) /\ b = Cdf(bucket + 1, mean) /\ c = Cdf(bucket - 1, mean)
  <2>1. bucket + 1 \in Int /\ bucket - 1 \in Int
    OBVIOUS
  <2>2. /\ Cdf(bucket, mean) \in 0 .. One
        /\ Cdf(bucket + 1, mean) \in 0 .. One /\ Cdf(bucket - 1, mean) \in 0 .. One
    BY <2>1, CdfType
  <2>3. QED
    BY <2>2
<1>3. q.side \in {"above", "below", "exact"}
  BY DEF Question
<1>4. TemperatureChance(q, mean) \in {One - a, a, b - c}
  BY <1>1, <1>2, <1>3 DEF TemperatureChance
<1>5. QED
  BY <1>4 DEF One

\* There are finitely many models.
LEMMA SourceFinite == IsFiniteSet(Source)
<1>1. Models \in [1 .. Len(Models) -> Range(Models)] /\ Len(Models) \in Nat
  BY ScoringAssumption
<1>2. IsFiniteSet(1 .. Len(Models))
  <2>1. 1 \in Int /\ Len(Models) \in Int
    BY <1>1
  <2>2. QED
    BY <2>1, FS_Interval, Zenon
<1>3. Models \in Surjection(1 .. Len(Models), Range(Models))
  BY <1>1 DEF Surjection, Range
<1>4. IsFiniteSet(Range(Models))
  BY <1>2, <1>3, FS_Surjection
<1>5. QED
  BY <1>4, FS_AddElement, FS_Singleton, FS_Union DEF Source

\* A forecast with temperatures has a median of them.
LEMMA HighsMedian ==
    ASSUME NEW f \in Forecast, f.highs # <<>>
    PROVE  /\ Median(f.highs) \in Int
           /\ Cardinality(DOMAIN f.highs) \in Nat \ {0}
<1>1. PICK highs : highs = f.highs
  OBVIOUS
<1>2. PICK S \in SUBSET Source : highs \in [S -> Temperature]
  BY <1>1 DEF Forecast
<1>3. S # {}
  <2>1. SUFFICES ASSUME S = {} PROVE highs = <<>>
    BY <1>1
  <2>2. highs = [s \in {} |-> highs[s]]
    BY <1>2, <2>1
  <2>3. <<>> = [s \in {} |-> highs[s]]
    OBVIOUS
  <2>4. QED
    BY <2>2, <2>3
<1>4. Temperature \subseteq Int
  BY ScoringAssumption DEF Temperature
<1>5. highs \in [S -> Int]
  BY <1>2, <1>4
<1>6. IsFiniteSet(S)
  BY SourceFinite, FS_Subset
<1>7. Median(highs) \in Int
  BY <1>3, <1>5, <1>6, MedianType
<1>8. Cardinality(S) \in Nat \ {0}
  BY <1>3, <1>6, FS_CardinalityType, FS_EmptySet
<1>9. DOMAIN highs = S
  BY <1>5
<1>10. QED
  BY <1>1, <1>7, <1>8, <1>9

\* The kinds of a question.
LEMMA KindType == \A q \in Question : Kind(q) \in {"temperature", "rain", "heat", "unknown"}
BY DEF Kind

\* A score is an estimate, whatever the forecast lacks; with confidence it rests
\* on what the forecast has.
LEMMA ScoreType ==
    ASSUME NEW q \in Question, NEW f \in Forecast, Kind(q) # "unknown"
    PROVE  /\ Score(q, f) \in Estimate
           /\ Score(q, f).conf > 0 =>
                 /\ Kind(q) = "temperature" => f.highs # <<>>
                 /\ Kind(q) = "rain" => f.rain # Nothing
                 /\ Kind(q) = "heat" => f.max # Nothing
<1>1. Unsure \in Estimate /\ ~(Unsure.conf > 0)
  BY DEF Unsure, Estimate, One
<1>2. CASE Kind(q) = "temperature"
  <2>1. Score(q, f) = ScoreTemperature(q, f)
    BY <1>2 DEF Score
  <2>2. CASE f.highs = <<>> \/ q.bucket = Nothing
    <3>1. Score(q, f) = Unsure
      BY <2>1, <2>2 DEF ScoreTemperature
    <3>2. QED
      BY <1>1, <3>1
  <2>3. CASE ~(f.highs = <<>> \/ q.bucket = Nothing)
    <3>1. PICK mean \in Int, n \in Nat \ {0} : mean = Median(f.highs) /\ n = Cardinality(DOMAIN f.highs)
      BY <2>3, HighsMedian
    <3>2. PICK prob \in 0 .. One : prob = WithinBounds(TemperatureChance(q, mean))
      BY <2>3, ChanceType, WithinBoundsType
    <3>3. PICK conf \in 0 .. One : conf = ConfidenceOf(n, q.city)
      <4>1. PICK base \in {85, 70, 50} : base = CASE n >= 3 -> 85 [] n = 2 -> 70 [] n = 1 -> 50
        OBVIOUS
      <4>2. ConfidenceOf(n, q.city) = IF q.city \in Warned THEN (base * 85) \div 100 ELSE base
        BY <4>1 DEF ConfidenceOf
      <4>3. QED
        BY <4>2 DEF One
    <3>4. Score(q, f) = [prob |-> prob, conf |-> conf]
      BY <2>1, <2>3, <3>1, <3>2, <3>3 DEF ScoreTemperature
    <3>5. QED
      BY <1>2, <2>3, <3>4 DEF Estimate
  <2>4. QED
    BY <2>2, <2>3
<1>3. CASE Kind(q) = "rain"
  <2>1. Score(q, f) = ScoreRain(f)
    BY <1>3 DEF Score
  <2>2. CASE f.rain = Nothing
    <3>1. Score(q, f) = Unsure
      BY <2>1, <2>2 DEF ScoreRain
    <3>2. QED
      BY <1>1, <3>1
  <2>3. CASE f.rain # Nothing
    <3>1. f.rain \in Int
      BY <2>3 DEF Forecast
    <3>2. PICK prob \in 0 .. One : prob = WithinBounds(f.rain)
      BY <3>1, WithinBoundsType
    <3>3. Score(q, f) = [prob |-> prob, conf |-> 75]
      BY <2>1, <2>3, <3>2 DEF ScoreRain
    <3>4. QED
      BY <1>3, <2>3, <3>3 DEF Estimate, One
  <2>4. QED
    BY <2>2, <2>3
<1>4. CASE Kind(q) = "heat"
  <2>1. Score(q, f) = ScoreHeat(f)
    BY <1>4 DEF Score
  <2>2. CASE f.max = Nothing
    <3>1. Score(q, f) = Unsure
      BY <2>1, <2>2 DEF ScoreHeat
    <3>2. QED
      BY <1>1, <3>1
  <2>3. CASE f.max # Nothing
    <3>1. f.max \in Int
      BY <2>3 DEF Forecast
    <3>2. PICK prob \in 0 .. One : prob = WithinBounds(f.max)
      BY <3>1, WithinBoundsType
    <3>3. Score(q, f) = [prob |-> prob, conf |-> 65]
      BY <2>1, <2>3, <3>2 DEF ScoreHeat
    <3>4. QED
      BY <1>4, <2>3, <3>3 DEF Estimate, One
  <2>4. QED
    BY <2>2, <2>3
<1>5. QED
  BY <1>2, <1>3, <1>4, KindType

-----------------------------------------------------------------------------
(* The forecasts.                                                          *)

ForecastTypes ==
    /\ half \in 0 .. LastHalf
    /\ DOMAIN fetches \subseteq City \X (Nat \cup {Nothing})
    /\ \A k \in DOMAIN fetches : fetches[k] \in Nat
    /\ DOMAIN forecasts \subseteq DOMAIN fetches
    /\ \A k \in DOMAIN forecasts : forecasts[k] \in Forecast
    /\ req \in [Task -> Request \cup {Nothing}]
    /\ \A c \in Task : req[c] # Nothing => Key(req[c].question) \in DOMAIN fetches

\* The tasks whose thread fetches the forecast of a key.
Fetchers(k) == {c \in Task : req[c] # Nothing /\ Key(req[c].question) = k}

\* Until a forecast is in the cache, every fetch of it belongs to a task that
\* still waits; from then on nobody starts another.
FetchCounts ==
    \A k \in DOMAIN fetches :
        /\ fetches[k] <= Cardinality(Task)
        /\ k \notin DOMAIN forecasts => fetches[k] <= Cardinality(Fetchers(k))

\* A forecast is of the city it was asked for and of its day, and has nothing
\* when the city has no coordinates.
Honest(f, city, date) ==
    /\ f.city = city
    /\ IF date = Nothing THEN f.day <= Today ELSE f.day = date
    /\ city \notin Known => f.highs = <<>> /\ f.rain = Nothing /\ f.max = Nothing

\* So are the forecasts under way.
HonestForecasts ==
    /\ \A k \in DOMAIN forecasts : Honest(forecasts[k], k[1], k[2])
    /\ \A c \in Task : req[c] # Nothing =>
          /\ Honest(req[c].forecast, req[c].question.city, req[c].question.date)
          /\ req[c].question.city \notin Known => req[c].left = <<>>

ForecastInv == ForecastTypes /\ FetchCounts /\ HonestForecasts

\* The parts of a request.
LEMMA RequestParts ==
    ASSUME ForecastTypes, NEW c \in Task, req[c] # Nothing
    PROVE  /\ req[c] \in Request /\ req[c].question \in Question
           /\ req[c].left \in Seq(Source) /\ req[c].forecast \in Forecast
BY DEF ForecastTypes, Request

\* There are at most as many fetchers as there are tasks.
LEMMA FetchersFinite ==
    \A k : Fetchers(k) \in SUBSET Task /\ IsFiniteSet(Fetchers(k))
           /\ Cardinality(Fetchers(k)) \in Nat /\ Cardinality(Task) \in Nat
           /\ Cardinality(Fetchers(k)) <= Cardinality(Task)
<1>1. \A k : Fetchers(k) \in SUBSET Task
  BY DEF Fetchers
<1>2. IsFiniteSet(Task)
  BY ScoringAssumption
<1>3. QED
  BY <1>1, <1>2, FS_Subset, FS_CardinalityType

\* Time only makes today later.
LEMMA TodayLater == \A now, later \in Nat : now <= later => now \div 2 <= later \div 2
OBVIOUS

\* A forecast without data is honest.
LEMMA NoDataHonest ==
    ASSUME NEW q \in Question, q.city # Nothing, half \in Nat,
           NEW day, day = IF q.date = Nothing THEN Today ELSE q.date
    PROVE  NoData(q.city, day) \in Forecast /\ Honest(NoData(q.city, day), q.city, q.date)
<1>1. q.city \in City /\ q.date \in Nat \cup {Nothing}
  BY DEF Question
<1>2. Today \in Int
  BY DEF Today
<1>3. day \in Int
  BY <1>1, <1>2
<1>4. PICK none : none = <<>>
  OBVIOUS
<1>5. none \in UNION {[S -> Temperature] : S \in SUBSET Source}
  <2>1. <<>> \in [{} -> Temperature]
    OBVIOUS
  <2>2. {} \in SUBSET Source
    OBVIOUS
  <2>3. QED
    BY <1>4, <2>1, <2>2
<1>6. NoData(q.city, day) = [city |-> q.city, day |-> day, highs |-> none, rain |-> Nothing, max |-> Nothing]
  BY <1>4 DEF NoData
<1>7. NoData(q.city, day) \in Forecast
  BY <1>1, <1>3, <1>5, <1>6 DEF Forecast
<1>8. QED
  BY <1>2, <1>3, <1>4, <1>6, <1>7 DEF Honest

\* A thread is started for a key that is not in the cache, by a task that fetches
\* nothing.
LEMMA StartFetchKeeps ==
    ASSUME ForecastInv, NEW c \in Task, NEW q \in Questions, StartFetch(c, q)
    PROVE  ForecastInv'
<1>1. q \in Question /\ q.city \in City /\ q.city # Nothing
  BY ScoringAssumption DEF StartFetch, Question
<1>2. half \in Nat /\ half' = half /\ forecasts' = forecasts
  BY ScoringAssumption DEF StartFetch, ForecastInv, ForecastTypes
<1>3. PICK key : key = Key(q)
  OBVIOUS
<1>4. key \notin DOMAIN forecasts /\ key \in City \X (Nat \cup {Nothing})
  BY <1>1, <1>3 DEF StartFetch, Cached, Key, Question
<1>5. PICK day : day = IF q.date = Nothing THEN Today ELSE q.date
  OBVIOUS
<1>6. PICK f : f = NoData(q.city, day) /\ f \in Forecast /\ Honest(f, q.city, q.date)
  BY <1>1, <1>2, <1>5, NoDataHonest
<1>7. PICK left \in Seq(Source) :
        /\ left = IF q.city \in Known THEN Append(Models, Best) ELSE <<>>
        /\ q.city \notin Known => left = <<>>
  <2>1. Models \in Seq(Source) /\ Best \in Source
    BY ScoringAssumption DEF Source
  <2>2. Append(Models, Best) \in Seq(Source) /\ <<>> \in Seq(Source)
    BY <2>1
  <2>3. QED
    BY <2>2
<1>8. PICK request : request = [question |-> q, left |-> left, forecast |-> f]
  OBVIOUS
<1>9. request \in Request /\ request # Nothing
  <2>1. request \in Request
    BY <1>1, <1>6, <1>7, <1>8 DEF Request
  <2>2. QED
    BY <2>1, ScoringAssumption
<1>10. req[c] = Nothing /\ req' = [req EXCEPT ![c] = request]
  BY <1>5, <1>6, <1>7, <1>8 DEF StartFetch
<1>11. req \in [Task -> Request \cup {Nothing}]
  BY DEF ForecastInv, ForecastTypes
<1>12. /\ req'[c] = request
       /\ \A d \in Task \ {c} : req'[d] = req[d]
       /\ req' \in [Task -> Request \cup {Nothing}]
  BY <1>9, <1>10, <1>11
<1>13. /\ DOMAIN fetches' = DOMAIN fetches \cup {key}
       /\ \A k \in DOMAIN fetches \ {key} : fetches'[k] = fetches[k]
       /\ fetches'[key] = (IF key \in DOMAIN fetches THEN fetches[key] ELSE 0) + 1
  <2>1. fetches' = [k \in DOMAIN fetches \cup {key} |->
                       (IF k \in DOMAIN fetches THEN fetches[k] ELSE 0) + (IF k = key THEN 1 ELSE 0)]
    BY <1>3 DEF StartFetch
  <2>2. \A k \in DOMAIN fetches : fetches[k] \in Nat
    BY DEF ForecastInv, ForecastTypes
  <2>3. QED
    BY <2>1, <2>2
<1>14. ForecastTypes'
  <2>1. \A k \in DOMAIN fetches : fetches[k] \in Nat
    BY DEF ForecastInv, ForecastTypes
  <2>2. \A k \in DOMAIN fetches' : fetches'[k] \in Nat
    BY <1>13, <2>1
  <2>3. \A d \in Task : req'[d] # Nothing => Key(req'[d].question) \in DOMAIN fetches'
    <3>1. Key(req'[c].question) = key
      BY <1>3, <1>8, <1>12
    <3>2. \A d \in Task \ {c} : req[d] # Nothing => Key(req[d].question) \in DOMAIN fetches
      BY DEF ForecastInv, ForecastTypes
    <3>3. QED
      BY <1>12, <1>13, <3>1, <3>2
  <2>4. \A d : Key(d)' = Key(d)
    BY DEF Key
  <2>5. QED
    BY <1>2, <1>4, <1>12, <1>13, <2>2, <2>3 DEF ForecastInv, ForecastTypes, Key
<1>15. FetchCounts'
  <2>1. /\ Fetchers(key)' = Fetchers(key) \cup {c} /\ c \notin Fetchers(key)
        /\ \A k : k # key => Fetchers(k)' = Fetchers(k)
    <3>1. Key(req'[c].question) = key
      BY <1>3, <1>8, <1>12
    <3>2. QED
      BY <1>9, <1>10, <1>12, <3>1 DEF Fetchers, Key
  <2>2. Cardinality(Fetchers(key) \cup {c}) = Cardinality(Fetchers(key)) + 1
    BY <2>1, FetchersFinite, FS_AddElement
  <2>3. Fetchers(key) \cup {c} \in SUBSET Task /\ IsFiniteSet(Task)
    BY FetchersFinite, ScoringAssumption
  <2>4. Cardinality(Fetchers(key) \cup {c}) <= Cardinality(Task)
    BY <2>3, FS_Subset
  <2>5. fetches'[key] <= Cardinality(Fetchers(key)) + 1
    <3>1. Cardinality(Fetchers(key)) \in Nat
      BY FetchersFinite
    <3>2. key \in DOMAIN fetches => fetches[key] \in Nat /\ fetches[key] <= Cardinality(Fetchers(key))
      BY <1>4 DEF ForecastInv, ForecastTypes, FetchCounts
    <3>3. QED
      BY <1>13, <3>1, <3>2
  <2>6. fetches'[key] \in Nat
    BY <1>13, <1>14 DEF ForecastTypes
  <2>7. fetches'[key] <= Cardinality(Task) /\ fetches'[key] <= Cardinality(Fetchers(key)')
    <3>1. Cardinality(Fetchers(key)) \in Nat /\ Cardinality(Task) \in Nat
      BY FetchersFinite
    <3>2. QED
      BY <2>1, <2>2, <2>4, <2>5, <2>6, <3>1
  <2>8. ASSUME NEW k \in DOMAIN fetches', k # key
        PROVE  /\ fetches'[k] <= Cardinality(Task)
               /\ k \notin DOMAIN forecasts' => fetches'[k] <= Cardinality(Fetchers(k)')
    <3>1. k \in DOMAIN fetches /\ fetches'[k] = fetches[k] /\ Fetchers(k)' = Fetchers(k)
      BY <1>13, <2>1, <2>8
    <3>2. QED
      BY <1>2, <3>1 DEF ForecastInv, FetchCounts
  <2>9. QED
    BY <2>7, <2>8 DEF FetchCounts
<1>16. HonestForecasts'
  <2>1. \A g, city, date : Honest(g, city, date)' = Honest(g, city, date)
    BY <1>2 DEF Honest, Today
  <2>2. ASSUME NEW d \in Task, req'[d] # Nothing
        PROVE  /\ Honest(req'[d].forecast, req'[d].question.city, req'[d].question.date)
               /\ req'[d].question.city \notin Known => req'[d].left = <<>>
    <3>1. CASE d = c
      BY <1>6, <1>7, <1>8, <1>12, <3>1
    <3>2. CASE d # c
      <4>1. req'[d] = req[d]
        BY <1>12, <3>2
      <4>2. QED
        BY <2>2, <4>1 DEF ForecastInv, HonestForecasts
    <3>3. QED
      BY <3>1, <3>2
  <2>3. \A k \in DOMAIN forecasts' : Honest(forecasts'[k], k[1], k[2])
    BY <1>2 DEF ForecastInv, HonestForecasts
  <2>4. QED
    BY <1>2, <2>2, <2>3 DEF HonestForecasts, Honest, Today
<1>17. QED
  BY <1>14, <1>15, <1>16 DEF ForecastInv

\* A temperature of one more source.
LEMMA WithType ==
    ASSUME NEW f \in Forecast, NEW source \in Source, NEW high \in Temperature
    PROVE  /\ With(f, source, high) \in Forecast
           /\ With(f, source, high).city = f.city /\ With(f, source, high).day = f.day
<1>1. PICK S \in SUBSET Source : f.highs \in [S -> Temperature]
  BY DEF Forecast
<1>2. PICK highs : highs = [s \in DOMAIN f.highs \cup {source} |->
                               IF s = source THEN high ELSE f.highs[s]]
  OBVIOUS
<1>3. highs \in [S \cup {source} -> Temperature] /\ S \cup {source} \in SUBSET Source
  BY <1>1, <1>2
<1>4. highs \in UNION {[T -> Temperature] : T \in SUBSET Source}
  BY <1>3
<1>5. With(f, source, high) = [f EXCEPT !.highs = highs]
  BY <1>2 DEF With
<1>6. QED
  BY <1>4, <1>5 DEF Forecast

\* An answer, or none, of a model: the thread goes on to the next.
LEMMA ProgressKeeps ==
    ASSUME ForecastInv, NEW c \in Task, Asking(c), NEW f \in Forecast,
           f.city = req[c].forecast.city, f.day = req[c].forecast.day, Progress(c, f)
    PROVE  ForecastInv'
<1>1. /\ req[c] # Nothing /\ req[c].left # <<>>
      /\ req[c] \in Request /\ req[c].question \in Question /\ req[c].left \in Seq(Source)
  BY RequestParts DEF Asking, ForecastInv
<1>2. PICK request \in Request :
        /\ request = [req[c] EXCEPT !.left = Tail(req[c].left), !.forecast = f]
        /\ request.question = req[c].question /\ request.forecast = f
  <2>1. PICK r \in Request, rest \in Seq(Source) : r = req[c] /\ rest = Tail(req[c].left)
    <3>1. Tail(req[c].left) \in Seq(Source)
      BY <1>1
    <3>2. QED
      BY <1>1, <3>1
  <2>2. PICK next : next = [r EXCEPT !.left = rest, !.forecast = f]
    OBVIOUS
  <2>3. next \in Request /\ next.question = r.question /\ next.forecast = f
    BY <2>2 DEF Request
  <2>4. QED
    BY <2>1, <2>2, <2>3
<1>3. request # Nothing
  BY ScoringAssumption
<1>4. req \in [Task -> Request \cup {Nothing}]
  BY DEF ForecastInv, ForecastTypes
<1>5. /\ req'[c] = request
      /\ \A d \in Task \ {c} : req'[d] = req[d]
      /\ req' \in [Task -> Request \cup {Nothing}]
  <2>1. req' = [req EXCEPT ![c] = [req[c] EXCEPT !.left = Tail(req[c].left), !.forecast = f]]
    BY <1>1, <1>4 DEF Progress, Request
  <2>2. req' = [req EXCEPT ![c] = request]
    BY <1>2, <2>1
  <2>3. QED
    BY <1>4, <2>2
<1>6. half' = half /\ forecasts' = forecasts /\ fetches' = fetches
  BY DEF Progress
<1>7. \A d \in Task : /\ req'[d] # Nothing <=> req[d] # Nothing
                      /\ req[d] # Nothing => req'[d].question = req[d].question
  <2>1. req'[c] # Nothing /\ req'[c].question = req[c].question
    BY <1>2, <1>3, <1>5
  <2>2. QED
    BY <1>1, <1>5, <2>1
<1>8. ForecastTypes'
  <2>1. \A d \in Task : req'[d] # Nothing => Key(req'[d].question) \in DOMAIN fetches
    BY <1>7 DEF ForecastInv, ForecastTypes
  <2>2. QED
    BY <1>5, <1>6, <2>1 DEF ForecastInv, ForecastTypes, Key
<1>9. FetchCounts'
  <2>1. \A k : Fetchers(k)' = Fetchers(k)
    BY <1>7 DEF Fetchers, Key
  <2>2. QED
    BY <1>6, <2>1 DEF ForecastInv, FetchCounts
<1>10. HonestForecasts'
  <2>1. req[c].question.city \in Known
    BY <1>1 DEF ForecastInv, HonestForecasts
  <2>2. Honest(f, req[c].question.city, req[c].question.date)
    BY <1>1, <2>1 DEF ForecastInv, HonestForecasts, Honest
  <2>3. \A k \in DOMAIN forecasts : Honest(forecasts[k], k[1], k[2])
    BY DEF ForecastInv, HonestForecasts
  <2>4. ASSUME NEW d \in Task, req'[d] # Nothing
        PROVE  /\ Honest(req'[d].forecast, req'[d].question.city, req'[d].question.date)
               /\ req'[d].question.city \notin Known => req'[d].left = <<>>
    <3>1. CASE d = c
      BY <1>2, <1>5, <2>1, <2>2, <3>1
    <3>2. CASE d # c
      <4>1. req'[d] = req[d]
        BY <1>5, <3>2
      <4>2. QED
        BY <2>4, <4>1 DEF ForecastInv, HonestForecasts
    <3>3. QED
      BY <3>1, <3>2
  <2>5. QED
    BY <1>6, <2>3, <2>4 DEF HonestForecasts, Honest, Today
<1>11. QED
  BY <1>8, <1>9, <1>10 DEF ForecastInv

\* A model fails, or answers with what it has of the city and the day.
LEMMA AnswerKeeps ==
    ASSUME ForecastInv, NEW c \in Task, NoAnswer(c) \/ ModelAnswers(c)
    PROVE  ForecastInv'
<1>1. Asking(c)
  BY Zenon DEF NoAnswer, ModelAnswers
<1>2. PICK f \in Forecast : f = req[c].forecast
  BY <1>1, RequestParts DEF Asking, ForecastInv
<1>3. PICK source \in Source : source = Head(req[c].left)
  <2>1. req[c].left \in Seq(Source) /\ req[c].left # <<>>
    BY <1>1, RequestParts DEF Asking, ForecastInv
  <2>2. QED
    BY <2>1
<1>4. \E g \in Forecast : g.city = f.city /\ g.day = f.day /\ Progress(c, g)
  <2>1. CASE NoAnswer(c)
    BY <1>2, <2>1 DEF NoAnswer
  <2>2. CASE ModelAnswers(c) /\ source # Best
    <3>1. PICK high \in Highs : Progress(c, With(f, source, high))
      BY <1>2, <1>3, <2>2, Zenon DEF ModelAnswers
    <3>2. high \in Temperature
      BY DEF Temperature
    <3>3. /\ With(f, source, high) \in Forecast
          /\ With(f, source, high).city = f.city /\ With(f, source, high).day = f.day
      BY <3>2, WithType
    <3>4. QED
      BY <3>1, <3>3
  <2>3. CASE ModelAnswers(c) /\ source = Best
    <3>1. PICK best \in BestReplies :
            LET g == IF best.high = Nothing THEN f ELSE With(f, source, best.high)
            IN  Progress(c, [g EXCEPT !.rain = best.rain, !.max = best.max])
      BY <1>2, <1>3, <2>3, Zenon DEF ModelAnswers
    <3>2. PICK g : g = IF best.high = Nothing THEN f ELSE With(f, Best, best.high)
      OBVIOUS
    <3>3. PICK h : h = [g EXCEPT !.rain = best.rain, !.max = best.max]
      OBVIOUS
    <3>4. h \in Forecast /\ h.city = f.city /\ h.day = f.day
      <4>1. best.rain \in 0 .. One \cup {Nothing} /\ best.max \in Int \cup {Nothing}
        BY ScoringAssumption
      <4>2. g \in Forecast /\ g.city = f.city /\ g.day = f.day
        <5>1. CASE best.high = Nothing
          BY <3>2, <5>1
        <5>2. CASE best.high # Nothing
          <6>1. best.high \in Temperature /\ Best \in Source
            BY <5>2 DEF Temperature, Source
          <6>2. QED
            BY <3>2, <5>2, <6>1, WithType
        <5>3. QED
          BY <5>1, <5>2
      <4>3. QED
        BY <3>3, <4>1, <4>2 DEF Forecast
    <3>5. Progress(c, h)
      BY <2>3, <3>1, <3>2, <3>3
    <3>6. QED
      BY <3>4, <3>5
  <2>4. QED
    BY <2>1, <2>2, <2>3
<1>5. PICK g \in Forecast : g.city = f.city /\ g.day = f.day /\ Progress(c, g)
  BY <1>4
<1>6. QED
  BY <1>1, <1>2, <1>5, ProgressKeeps

\* The result of a thread is cached under the key of its question.
LEMMA FinishKeeps ==
    ASSUME ForecastInv, NEW c \in Task, Finish(c)
    PROVE  ForecastInv'
<1>1. /\ req[c] # Nothing /\ req[c] \in Request /\ req[c].question \in Question
      /\ req[c].forecast \in Forecast
  BY RequestParts DEF Finish, ForecastInv
<1>2. PICK q, f, key : q = req[c].question /\ f = req[c].forecast /\ key = Key(q)
  OBVIOUS
<1>3. /\ DOMAIN forecasts' = DOMAIN forecasts \cup {key}
      /\ forecasts'[key] = f
      /\ \A k \in DOMAIN forecasts \ {key} : forecasts'[k] = forecasts[k]
  <2>1. forecasts' = [k \in DOMAIN forecasts \cup {key} |-> IF k = key THEN f ELSE forecasts[k]]
    BY <1>2 DEF Finish
  <2>2. QED
    BY <2>1
<1>4. half' = half /\ fetches' = fetches /\ req' = [req EXCEPT ![c] = Nothing]
  BY DEF Finish
<1>5. req \in [Task -> Request \cup {Nothing}]
  BY DEF ForecastInv, ForecastTypes
<1>6. /\ req'[c] = Nothing
      /\ \A d \in Task \ {c} : req'[d] = req[d]
      /\ req' \in [Task -> Request \cup {Nothing}]
  BY <1>4, <1>5
<1>7. ForecastTypes'
  <2>1. key \in DOMAIN fetches
    BY <1>1, <1>2 DEF ForecastInv, ForecastTypes
  <2>2. \A d \in Task : req'[d] # Nothing => Key(req'[d].question) \in DOMAIN fetches
    BY <1>6 DEF ForecastInv, ForecastTypes
  <2>3. \A k \in DOMAIN forecasts' : forecasts'[k] \in Forecast
    BY <1>1, <1>2, <1>3 DEF ForecastInv, ForecastTypes
  <2>4. QED
    BY <1>3, <1>4, <1>6, <2>1, <2>2, <2>3 DEF ForecastInv, ForecastTypes, Key
<1>8. FetchCounts'
  <2>1. ASSUME NEW k \in DOMAIN fetches
        PROVE  /\ fetches[k] <= Cardinality(Task)
               /\ k \notin DOMAIN forecasts' => fetches[k] <= Cardinality(Fetchers(k)')
    <3>1. CASE k = key
      BY <1>3, <3>1 DEF ForecastInv, FetchCounts
    <3>2. CASE k # key
      <4>1. Fetchers(k)' = Fetchers(k)
        BY <1>1, <1>2, <1>6, <3>2 DEF Fetchers, Key
      <4>2. QED
        BY <1>3, <3>2, <4>1 DEF ForecastInv, FetchCounts
    <3>3. QED
      BY <3>1, <3>2
  <2>2. QED
    BY <1>4, <2>1 DEF FetchCounts
<1>9. HonestForecasts'
  <2>1. Honest(f, q.city, q.date)
    BY <1>1, <1>2 DEF ForecastInv, HonestForecasts
  <2>2. key = <<q.city, q.date>>
    BY <1>2 DEF Key
  <2>3. ASSUME NEW k \in DOMAIN forecasts' PROVE Honest(forecasts'[k], k[1], k[2])
    <3>1. CASE k = key
      BY <1>3, <2>1, <2>2, <3>1
    <3>2. CASE k # key
      BY <1>3, <3>2 DEF ForecastInv, HonestForecasts
    <3>3. QED
      BY <3>1, <3>2
  <2>4. ASSUME NEW d \in Task, req'[d] # Nothing
        PROVE  /\ Honest(req'[d].forecast, req'[d].question.city, req'[d].question.date)
               /\ req'[d].question.city \notin Known => req'[d].left = <<>>
    <3>1. d # c /\ req'[d] = req[d]
      BY <1>6, <2>4
    <3>2. QED
      BY <2>4, <3>1 DEF ForecastInv, HonestForecasts
  <2>5. QED
    BY <1>4, <2>3, <2>4 DEF HonestForecasts, Honest, Today
<1>10. QED
  BY <1>7, <1>8, <1>9 DEF ForecastInv

\* Time passes: a day that has begun stays begun.
LEMMA HalfDayKeeps ==
    ASSUME ForecastInv, HalfDay
    PROVE  ForecastInv'
<1>1. half \in 0 .. LastHalf /\ half' = half + 1 /\ half' \in 0 .. LastHalf
  BY ScoringAssumption DEF HalfDay, ForecastInv, ForecastTypes
<1>2. UNCHANGED <<forecasts, req, fetches>>
  BY DEF HalfDay
<1>3. ForecastTypes'
  BY <1>1, <1>2 DEF ForecastInv, ForecastTypes, Key
<1>4. FetchCounts'
  BY <1>2 DEF ForecastInv, FetchCounts, Fetchers, Key
<1>5. PICK before \in Int, after \in Int : before = Today /\ after = Today' /\ before <= after
  <2>1. half \in Nat /\ half' \in Nat /\ half <= half'
    BY <1>1
  <2>2. half \div 2 <= half' \div 2
    BY <2>1, TodayLater
  <2>3. half \div 2 \in Int /\ half' \div 2 \in Int
    BY <2>1
  <2>4. QED
    BY <2>2, <2>3 DEF Today
<1>6. ASSUME NEW f \in Forecast, NEW city, NEW date, Honest(f, city, date)
      PROVE  Honest(f, city, date)'
  <2>1. f.day \in Int
    BY DEF Forecast
  <2>2. date = Nothing => f.day <= after
    BY <1>5, <1>6, <2>1 DEF Honest
  <2>3. QED
    BY <1>5, <1>6, <2>2 DEF Honest
<1>7. HonestForecasts'
  <2>1. ASSUME NEW k \in DOMAIN forecasts PROVE Honest(forecasts[k], k[1], k[2])'
    BY <1>2, <1>6 DEF ForecastInv, ForecastTypes, HonestForecasts
  <2>2. ASSUME NEW d \in Task, req[d] # Nothing
        PROVE  /\ Honest(req[d].forecast, req[d].question.city, req[d].question.date)'
               /\ req[d].question.city \notin Known => req[d].left = <<>>
    BY <1>2, <1>6, <2>2, RequestParts DEF ForecastInv, HonestForecasts
  <2>3. QED
    BY <1>2, <2>1, <2>2 DEF HonestForecasts
<1>8. QED
  BY <1>3, <1>4, <1>7 DEF ForecastInv

\* Whatever reads the forecasts leaves them alone.
LEMMA ReadingKeeps ==
    ASSUME ForecastInv, UNCHANGED <<half, forecasts, req, fetches>>
    PROVE  ForecastInv'
<1>1. ForecastTypes'
  BY DEF ForecastInv, ForecastTypes, Key
<1>2. FetchCounts'
  BY DEF ForecastInv, FetchCounts, Fetchers, Key
<1>3. HonestForecasts'
  BY DEF ForecastInv, HonestForecasts, Honest, Today
<1>4. QED
  BY <1>1, <1>2, <1>3 DEF ForecastInv

\* A process starts without forecasts.
LEMMA ForecastInit == ScoringInit => ForecastInv
<1> SUFFICES ASSUME ScoringInit PROVE ForecastInv
  OBVIOUS
<1>1. DOMAIN fetches = {} /\ DOMAIN forecasts = {}
  BY DEF ScoringInit
<1>2. \A c \in Task : req[c] = Nothing
  BY DEF ScoringInit
<1>3. ForecastTypes
  BY <1>1, <1>2, ScoringAssumption DEF ScoringInit, ForecastTypes
<1>4. FetchCounts /\ HonestForecasts
  BY <1>1, <1>2 DEF FetchCounts, HonestForecasts
<1>5. QED
  BY <1>3, <1>4 DEF ForecastInv

\* No step forgets where a forecast is from.
LEMMA ForecastNext == ForecastInv /\ [ScoringNext]_scoringVars => ForecastInv'
<1>1. SUFFICES ASSUME ForecastInv, [ScoringNext]_scoringVars PROVE ForecastInv'
  OBVIOUS
<1>2. ASSUME NEW q \in Questions, EstimateAtOnce(q) PROVE ForecastInv'
  BY <1>1, <1>2, ReadingKeeps DEF EstimateAtOnce
<1>3. ASSUME NEW c \in Task, NEW q \in Questions, StartFetch(c, q) PROVE ForecastInv'
  BY <1>1, <1>3, StartFetchKeeps
<1>4. ASSUME NEW c \in Task, NoAnswer(c) \/ ModelAnswers(c) PROVE ForecastInv'
  BY <1>1, <1>4, AnswerKeeps
<1>5. ASSUME NEW c \in Task, Finish(c) PROVE ForecastInv'
  BY <1>1, <1>5, FinishKeeps
<1>6. CASE HalfDay
  BY <1>1, <1>6, HalfDayKeeps
<1>7. CASE UNCHANGED scoringVars
  BY <1>1, <1>7, ReadingKeeps DEF scoringVars
<1>8. QED
  BY <1>1, <1>2, <1>3, <1>4, <1>5, <1>6, <1>7 DEF ScoringNext

\* A forecast is never fetched more often than there are tasks: nobody starts a
\* thread for a key once it is in the cache, and before that each fetch of it is
\* under way in a task of its own.
THEOREM FetchesCounted == ScoringSpec => []FetchesBounded
<1>1. ScoringInit => ForecastInv
  BY ForecastInit
<1>2. ForecastInv /\ [ScoringNext]_scoringVars => ForecastInv'
  BY ForecastNext
<1>3. ForecastInv => FetchesBounded
  BY DEF ForecastInv, FetchCounts, FetchesBounded
<1>4. QED
  BY <1>1, <1>2, <1>3, PTL DEF ScoringSpec

-----------------------------------------------------------------------------
(* The decisions.                                                          *)

\* An estimate about the weather is unsure, or the score of the cached forecast of
\* its question.
FromForecast(q, estimate) ==
    \/ estimate = Unsure
    \/ /\ Key(q) \in DOMAIN forecasts /\ Kind(q) # "unknown" /\ q.city \in City
       /\ estimate = Score(q, forecasts[Key(q)])

\* A decision is made of a question, an estimate and a book.
DecidedOn ==
    decided # Nothing =>
        \E q \in Question, estimate \in Estimate, book \in Books :
            /\ decided = [question |-> q, estimate |-> estimate, book |-> book,
                          signal |-> Signal(book, estimate.prob, Balance)]
            /\ IsWeather(q) => FromForecast(q, estimate)

\* Threads are started for questions of a known kind.
KnownKinds == \A c \in Task : req[c] # Nothing => Kind(req[c].question) # "unknown"

ScoringInv == ForecastInv /\ KnownKinds /\ DecidedOn

\* Deciding records what it was done on.
LEMMA DecideKeeps ==
    ASSUME NEW q \in Question, NEW estimate \in Estimate, Decide(q, estimate),
           IsWeather(q) => FromForecast(q, estimate)'
    PROVE  DecidedOn'
<1>1. PICK book \in Books :
        decided' = [question |-> q, estimate |-> estimate, book |-> book,
                    signal |-> Signal(book, estimate.prob, Balance)]
  BY DEF Decide
<1>2. QED
  BY <1>1 DEF DecidedOn, IsWeather

\* An estimate at once is heuristic, unsure, or the score of a cached forecast.
LEMMA AtOnceKeeps ==
    ASSUME ForecastInv, NEW q \in Questions, EstimateAtOnce(q)
    PROVE  DecidedOn'
<1>1. q \in Question
  BY ScoringAssumption
<1>2. half \in Int
  BY ScoringAssumption DEF ForecastInv, ForecastTypes
<1>3. forecasts' = forecasts
  BY DEF EstimateAtOnce
<1>4. CASE ~IsWeather(q) /\ Decide(q, Heuristic(q))
  <2>1. Heuristic(q) \in Estimate
    BY <1>1, <1>2, HeuristicType
  <2>2. PICK estimate \in Estimate : estimate = Heuristic(q)
    BY <2>1
  <2>3. Decide(q, estimate)
    BY <1>4, <2>2
  <2>4. QED
    BY <1>1, <1>4, <2>3, DecideKeeps
<1>5. CASE IsWeather(q) /\ Decide(q, Unsure)
  <2>1. Unsure \in Estimate
    BY DEF Unsure, Estimate, One
  <2>2. FromForecast(q, Unsure)'
    BY DEF FromForecast
  <2>3. QED
    BY <1>1, <1>5, <2>1, <2>2, DecideKeeps
<1>6. CASE /\ Kind(q) # "unknown" /\ q.city # Nothing /\ Cached(q)
           /\ Decide(q, Score(q, forecasts[Key(q)]))
  <2>1. PICK f \in Forecast : f = forecasts[Key(q)]
    BY <1>6 DEF Cached, ForecastInv, ForecastTypes
  <2>2. PICK estimate \in Estimate : estimate = Score(q, f)
    BY <1>1, <1>6, ScoreType
  <2>3. q.city \in City
    BY <1>1, <1>6 DEF Question
  <2>4. FromForecast(q, estimate)
    BY <1>6, <2>1, <2>2, <2>3 DEF FromForecast, Cached
  <2>5. FromForecast(q, estimate)'
    BY <1>3, <2>4 DEF FromForecast, Key
  <2>6. Decide(q, estimate)
    BY <1>6, <2>1, <2>2
  <2>7. QED
    BY <1>1, <2>5, <2>6, DecideKeeps
<1>7. QED
  BY <1>4, <1>5, <1>6 DEF EstimateAtOnce

\* A task that waited for a forecast decides on its score.
LEMMA FinishDecides ==
    ASSUME ForecastInv, NEW c \in Task, Finish(c),
           Kind(req[c].question) # "unknown"
    PROVE  DecidedOn'
<1>1. req[c].question \in Question /\ req[c].forecast \in Forecast
  BY RequestParts DEF Finish, ForecastInv
<1>2. PICK q \in Question, f \in Forecast : q = req[c].question /\ f = req[c].forecast
  BY <1>1
<1>3. Key(q) \in DOMAIN forecasts' /\ forecasts'[Key(q)] = f
  <2>1. PICK key : key = Key(q)
    OBVIOUS
  <2>2. forecasts' = [k \in DOMAIN forecasts \cup {key} |-> IF k = key THEN f ELSE forecasts[k]]
    BY <1>2, <2>1 DEF Finish
  <2>3. QED
    BY <2>1, <2>2
<1>4. PICK estimate \in Estimate : estimate = Score(q, f)
  BY <1>2, ScoreType
<1>5. q.city \in City
  <2>1. Key(q) \in DOMAIN fetches
    BY <1>2 DEF Finish, ForecastInv, ForecastTypes
  <2>2. QED
    BY <2>1 DEF ForecastInv, ForecastTypes, Key
<1>6. FromForecast(q, estimate)'
  BY <1>2, <1>3, <1>4, <1>5 DEF FromForecast, Key
<1>7. Decide(q, estimate)
  BY <1>2, <1>4 DEF Finish
<1>8. QED
  BY <1>6, <1>7, DecideKeeps

\* Only the start of a thread changes the questions that wait.
LEMMA KindsKept ==
    ASSUME ForecastInv, KnownKinds, ScoringNext
    PROVE  KnownKinds'
<1>1. req \in [Task -> Request \cup {Nothing}]
  BY DEF ForecastInv, ForecastTypes
<1>2. ASSUME NEW q \in Questions, EstimateAtOnce(q) PROVE KnownKinds'
  BY <1>2 DEF EstimateAtOnce, KnownKinds
<1>3. ASSUME NEW c \in Task, NEW q \in Questions, StartFetch(c, q) PROVE KnownKinds'
  <2>1. PICK request : req' = [req EXCEPT ![c] = request] /\ request.question = q
    <3>1. PICK left, f : req' = [req EXCEPT ![c] = [question |-> q, left |-> left, forecast |-> f]]
      BY <1>3 DEF StartFetch
    <3>2. PICK request : request = [question |-> q, left |-> left, forecast |-> f]
      OBVIOUS
    <3>3. request.question = q
      BY <3>2
    <3>4. req' = [req EXCEPT ![c] = request]
      BY <3>1, <3>2
    <3>5. QED
      BY <3>3, <3>4
  <2>2. Kind(q) # "unknown"
    BY <1>3 DEF StartFetch
  <2>3. QED
    BY <1>1, <2>1, <2>2 DEF KnownKinds
<1>4. ASSUME NEW c \in Task, NoAnswer(c) \/ ModelAnswers(c) PROVE KnownKinds'
  <2>1. req[c] # Nothing
    BY <1>4, Zenon DEF NoAnswer, ModelAnswers, Asking
  <2>2. PICK f : Progress(c, f)
    BY <1>4, Zenon DEF NoAnswer, ModelAnswers
  <2>3. PICK r \in Request : r = req[c]
    BY <1>1, <2>1
  <2>4. PICK next : next = [r EXCEPT !.left = Tail(r.left), !.forecast = f]
    OBVIOUS
  <2>5. next.question = r.question
    BY <2>4 DEF Request
  <2>6. req' = [req EXCEPT ![c] = next]
    <3>1. req' = [req EXCEPT ![c] = [req[c] EXCEPT !.left = Tail(req[c].left), !.forecast = f]]
      BY <1>1, <2>1, <2>2 DEF Progress, Request
    <3>2. QED
      BY <2>3, <2>4, <3>1
  <2>7. QED
    BY <1>1, <2>1, <2>3, <2>5, <2>6 DEF KnownKinds
<1>5. ASSUME NEW c \in Task, Finish(c) PROVE KnownKinds'
  BY <1>1, <1>5 DEF Finish, KnownKinds
<1>6. CASE HalfDay
  BY <1>6 DEF HalfDay, KnownKinds
<1>7. QED
  BY <1>2, <1>3, <1>4, <1>5, <1>6 DEF ScoringNext

\* Every decision is made of an estimate that its question has at that time.
LEMMA ScoringKept == ScoringInv /\ [ScoringNext]_scoringVars => ScoringInv'
<1>1. SUFFICES ASSUME ScoringInv, [ScoringNext]_scoringVars PROVE ScoringInv'
  OBVIOUS
<1>2. ForecastInv'
  BY <1>1, ForecastNext DEF ScoringInv
<1>3. CASE UNCHANGED scoringVars
  <2>1. UNCHANGED <<forecasts, req, decided>>
    BY <1>3 DEF scoringVars
  <2>2. KnownKinds' /\ DecidedOn'
    BY <1>1, <2>1 DEF ScoringInv, KnownKinds, DecidedOn, FromForecast, IsWeather, Key
  <2>3. QED
    BY <1>2, <2>2 DEF ScoringInv
<1>4. CASE ScoringNext
  <2>1. KnownKinds'
    BY <1>1, <1>4, KindsKept DEF ScoringInv
  <2>2. DecidedOn'
    <3>1. ASSUME NEW q \in Questions, EstimateAtOnce(q) PROVE DecidedOn'
      BY <1>1, <3>1, AtOnceKeeps DEF ScoringInv
    <3>2. ASSUME NEW c \in Task, Finish(c) PROVE DecidedOn'
      <4>1. Kind(req[c].question) # "unknown"
        BY <1>1, <3>2 DEF Finish, ScoringInv, KnownKinds
      <4>2. QED
        BY <1>1, <3>2, <4>1, FinishDecides DEF ScoringInv
    <3>3. ASSUME decided' = Nothing PROVE DecidedOn'
      BY <3>3 DEF DecidedOn
    <3>4. ASSUME NEW c \in Task, NEW q \in Questions, StartFetch(c, q) PROVE decided' = Nothing
      BY <3>4 DEF StartFetch
    <3>5. ASSUME NEW c \in Task, NoAnswer(c) \/ ModelAnswers(c) PROVE decided' = Nothing
      BY <3>5, Zenon DEF NoAnswer, ModelAnswers, Progress
    <3>6. CASE HalfDay
      BY <3>3, <3>6 DEF HalfDay
    <3>7. QED
      BY <1>4, <3>1, <3>2, <3>3, <3>4, <3>5, <3>6 DEF ScoringNext
  <2>3. QED
    BY <1>2, <2>1, <2>2 DEF ScoringInv
<1>5. QED
  BY <1>1, <1>3, <1>4

\* Nothing is decided at the start.
LEMMA ScoringStart == ScoringInit => ScoringInv
<1>1. ScoringInit => ForecastInv
  BY ForecastInit
<1>2. ScoringInit => KnownKinds /\ DecidedOn
  BY DEF ScoringInit, KnownKinds, DecidedOn
<1>3. QED
  BY <1>1, <1>2 DEF ScoringInv

\* What the invariant says of the types, of the estimates and of the signals.
LEMMA ScoringImplies == ScoringInv => ScoringTypeOK /\ EstimatesBacked /\ SignalsMirror
<1> SUFFICES ASSUME ScoringInv PROVE ScoringTypeOK /\ EstimatesBacked /\ SignalsMirror
  OBVIOUS
<1>1. CASE decided = Nothing
  BY <1>1 DEF ScoringInv, ForecastInv, ForecastTypes, ScoringTypeOK, EstimatesBacked, SignalsMirror
<1>2. CASE decided # Nothing
  <2>1. PICK q \in Question, estimate \in Estimate, book \in Books :
          /\ decided = [question |-> q, estimate |-> estimate, book |-> book,
                        signal |-> Signal(book, estimate.prob, Balance)]
          /\ IsWeather(q) => FromForecast(q, estimate)
    BY <1>2 DEF ScoringInv, DecidedOn
  <2>2. /\ book \in Book /\ (book.bid + book.ask) % 2 = 0 /\ Balance \in Nat
        /\ estimate.prob \in 0 .. One
    BY ScoringAssumption DEF Estimate
  <2>3. PICK p \in 0 .. One : p = estimate.prob
    BY <2>2
  <2>4. PICK signal : signal = Signal(book, p, Balance)
    OBVIOUS
  <2>5. decided.question = q /\ decided.estimate = estimate /\ decided.book = book /\ decided.signal = signal
    BY <2>1, <2>3, <2>4
  <2>6. ScoringTypeOK
    <3>1. signal # NoSignal =>
            /\ signal.size \in 1 .. AtMost(Balance, MaxPosition) /\ signal.outcome \in {"Yes", "No"}
      BY <2>2, <2>4, SignalType
    <3>2. QED
      BY <2>5, <3>1 DEF ScoringInv, ForecastInv, ForecastTypes, ScoringTypeOK
  <2>7. EstimatesBacked
    <3>1. SUFFICES ASSUME IsWeather(q), estimate.conf > 0
                   PROVE  LET f == forecasts[Key(q)]
                          IN  /\ f.city = q.city
                              /\ IF q.date = Nothing THEN f.day <= Today ELSE f.day = q.date
                              /\ q.city \in Known
                              /\ CASE Kind(q) = "temperature" -> f.highs # <<>>
                                   [] Kind(q) = "rain" -> f.rain # Nothing
                                   [] Kind(q) = "heat" -> f.max # Nothing
      BY <2>5 DEF EstimatesBacked
    <3>2. /\ Key(q) \in DOMAIN forecasts /\ Kind(q) # "unknown"
          /\ estimate = Score(q, forecasts[Key(q)])
      BY <2>1, <3>1 DEF FromForecast, Unsure
    <3>3. PICK f \in Forecast : f = forecasts[Key(q)]
      BY <3>2 DEF ScoringInv, ForecastInv, ForecastTypes
    <3>4. /\ Kind(q) = "temperature" => f.highs # <<>>
          /\ Kind(q) = "rain" => f.rain # Nothing
          /\ Kind(q) = "heat" => f.max # Nothing
      BY <3>1, <3>2, <3>3, ScoreType
    <3>5. Honest(f, q.city, q.date)
      <4>1. PICK key : key = Key(q) /\ key[1] = q.city /\ key[2] = q.date
        <5>1. PICK city, date : city = q.city /\ date = q.date
          OBVIOUS
        <5>2. PICK key : key = <<city, date>>
          OBVIOUS
        <5>3. key[1] = city /\ key[2] = date
          BY <5>2
        <5>4. QED
          BY <5>1, <5>2, <5>3 DEF Key
      <4>2. Honest(forecasts[key], key[1], key[2])
        BY <3>2, <4>1 DEF ScoringInv, ForecastInv, HonestForecasts
      <4>3. QED
        BY <3>3, <4>1, <4>2
    <3>6. q.city \in Known
      BY <3>2, <3>4, <3>5, KindType DEF Honest
    <3>7. QED
      BY <3>2, <3>3, <3>4, <3>5, <3>6, KindType DEF Honest
  <2>8. SignalsMirror
    <3>1. SUFFICES ASSUME Bias = 0
                   PROVE  LET mirror == Signal(Mirrored(book), One - p, Balance)
                          IN  /\ signal # NoSignal /\ mirror # NoSignal =>
                                    /\ mirror.outcome = Other(signal.outcome)
                                    /\ mirror.edge = -signal.edge
                                    /\ mirror.size = signal.size
                              /\ signal # NoSignal /\ mirror = NoSignal =>
                                    Thin(Other(signal.outcome), Mirrored(book))
                              /\ signal = NoSignal /\ mirror # NoSignal =>
                                    Thin(Other(mirror.outcome), book)
      BY <2>3, <2>5 DEF SignalsMirror
    <3>2. QED
      BY <2>2, <2>4, <3>1, SignalMirrored
  <2>9. QED
    BY <2>6, <2>7, <2>8
<1>3. QED
  BY <1>1, <1>2

\* The invariant of the estimates, their forecasts and their decisions.
LEMMA ScoringInvariant == ScoringSpec => []ScoringInv
BY ScoringStart, ScoringKept, PTL DEF ScoringSpec

\* Every variable of the scorers has its type: probabilities and confidences stay
\* in percent, whatever the forecast, the price and the spread; a bet is at least 1
\* and neither more than the balance nor more than the largest position.
THEOREM ScoringTypeCorrect == ScoringSpec => []ScoringTypeOK
BY ScoringInvariant, ScoringImplies, PTL

\* An estimate with confidence rests on data of its city and day, though threads
\* finish in any order and a forecast is kept for as long as the process lives.
THEOREM EstimatesAreBacked == ScoringSpec => []EstimatesBacked
BY ScoringInvariant, ScoringImplies, PTL

\* Without a bias, the side of a market makes a difference to its depth and to
\* nothing else, for every price, probability and balance that a decision is made of,
\* and every book whose midpoint is whole.
THEOREM DecisionsMirror == ScoringSpec => []SignalsMirror
BY ScoringInvariant, ScoringImplies, PTL

-----------------------------------------------------------------------------
(* The news.                                                               *)

\* What most proofs use of the constants: all but the back-off.
LEMMA ContextConstants ==
    /\ IsFiniteSet(Caller)
    /\ TTL \in Nat /\ EmptyTTL \in 0 .. TTL /\ FeedTTL \in Nat /\ Cooldown \in Nat \ {0}
    /\ MaxFetches \in Nat /\ Uptime \subseteq Nat /\ MaxElapsed \in 0 .. Cooldown - 1
    /\ None \notin Calls
BY ContextAssumption

USE ContextConstants

UnderWay == {c \in Caller : call[c] # None}

\* Every fetch of the iteration is counted or under way.  The inequality is
\* strict when fetches of the iteration before end in this one.
Counted ==
    /\ call \in [Caller -> Calls \cup {None}]
    /\ count \in Nat /\ begun \in Nat
    /\ begun <= count + Cardinality(UnderWay)

CapInv == Counted /\ StartsWithinCap

-----------------------------------------------------------------------------
(* How many calls are under way.                                           *)

\* The numbers of callers are natural, and a caller counts for one.
LEMMA CallerCounts ==
    ASSUME NEW c \in Caller, NEW S \in SUBSET (Caller \ {c})
    PROVE  /\ IsFiniteSet(S) /\ Cardinality(S) \in Nat /\ Cardinality(Caller) \in Nat
           /\ Cardinality(S \cup {c}) = Cardinality(S) + 1
           /\ Cardinality(S) + 1 <= Cardinality(Caller)
<1>1. IsFiniteSet(Caller) /\ Cardinality(Caller) \in Nat
  BY FS_CardinalityType
<1>2. IsFiniteSet(S) /\ Cardinality(S) \in Nat
  BY <1>1, FS_Subset, FS_CardinalityType
<1>3. Cardinality(S \cup {c}) = Cardinality(S) + 1
  BY <1>2, FS_AddElement
<1>4. S \cup {c} \in SUBSET Caller
  OBVIOUS
<1>5. Cardinality(S \cup {c}) <= Cardinality(Caller)
  BY <1>1, <1>4, FS_Subset, Zenon
<1>6. QED
  BY <1>1, <1>2, <1>3, <1>5

\* A call that goes on either waits for another request or is counted: with the
\* others under way and the count from which it goes on, it makes one more.
LEMMA ProceedCounts ==
    ASSUME call \in [Caller -> Calls \cup {None}],
           NEW c \in Caller, NEW m \in Market, NEW elapsed \in 0 .. MaxElapsed,
           NEW from, NEW found \in BOOLEAN, NEW fetched \in Nat,
           Proceed(c, m, elapsed, from, found, fetched)
    PROVE  /\ call' \in [Caller -> Calls \cup {None}]
           /\ count' \in Nat
           /\ count' + Cardinality(UnderWay') = fetched + Cardinality(UnderWay \ {c}) + 1
<1> DEFINE others == UnderWay \ {c}
           source == NextSource(m, from, found)
           waiting == [market |-> m, source |-> source, found |-> found, elapsed |-> elapsed]
<1>1. others \in SUBSET (Caller \ {c})
  BY DEF UnderWay
<1>2. Cardinality(others) \in Nat /\ Cardinality(others \cup {c}) = Cardinality(others) + 1
  BY <1>1, CallerCounts
<1>3. CASE /\ source \in Service \/ source = "feed"
           /\ call' = [call EXCEPT ![c] = waiting]
           /\ count' = fetched
  <2>1. waiting \in Calls
    BY <1>3 DEF Calls
  <2>2. waiting # None
    BY <2>1
  <2> HIDE DEF waiting
  <2>3. call' \in [Caller -> Calls \cup {None}]
    BY <1>3, <2>1
  <2>4. UnderWay' = others \cup {c}
    BY <1>3, <2>2 DEF UnderWay
  <2>5. QED
    BY <1>2, <1>3, <2>3, <2>4
<1>4. CASE call' = [call EXCEPT ![c] = None] /\ count' = fetched + 1
  <2>1. UnderWay' = others
    BY <1>4 DEF UnderWay
  <2>2. call' \in [Caller -> Calls \cup {None}]
    BY <1>4
  <2>3. QED
    BY <1>2, <1>4, <2>1, <2>2
<1>5. QED
  BY <1>3, <1>4 DEF Proceed, Conclude

-----------------------------------------------------------------------------
(* The steps.                                                              *)

\* A question either begins one fetch, which the cap leaves room for, or none.
LEMMA AskKeepsCap ==
    ASSUME CapInv, NEW c \in Caller, NEW m \in Market, Ask(c, m)
    PROVE  CapInv'
<1> DEFINE over == window > TTL
           fetched == IF over THEN 0 ELSE count
           before == IF over THEN 0 ELSE begun
<1>1. c \notin UnderWay /\ UnderWay \in SUBSET (Caller \ {c}) /\ UnderWay \ {c} = UnderWay
  BY DEF Ask, UnderWay
<1>2. /\ Cardinality(UnderWay) \in Nat /\ Cardinality(Caller) \in Nat
      /\ Cardinality(UnderWay) + 1 <= Cardinality(Caller)
  BY <1>1, CallerCounts
<1>3. fetched \in Nat /\ before \in Nat /\ before <= fetched + Cardinality(UnderWay)
  BY <1>2 DEF CapInv, Counted
<1>4. CASE Exhausted(fetched)
  <2>1. count' = fetched /\ begun' = before /\ call' = call
    BY <1>4 DEF Ask
  <2>2. UnderWay' = UnderWay
    BY <2>1 DEF UnderWay
  <2>3. before <= begun \/ before = 0
    BY DEF CapInv, Counted
  <2>4. QED
    <3>1. Counted'
      BY <2>1, <2>2, <1>3 DEF CapInv, Counted
    <3>2. StartsWithinCap'
      BY <2>1, <1>2 DEF CapInv, Counted, StartsWithinCap
    <3>3. QED
      BY <3>1, <3>2 DEF CapInv
<1>5. CASE ~Exhausted(fetched)
  <2>1. Proceed(c, m, 0, "start", FALSE, fetched) /\ begun' = before + 1
    BY <1>5 DEF Ask
  <2>2. 0 \in 0 .. MaxElapsed /\ FALSE \in BOOLEAN
    OBVIOUS
  <2>3. call \in [Caller -> Calls \cup {None}]
    BY DEF CapInv, Counted
  <2> HIDE DEF fetched, before, over
  <2>4. /\ call' \in [Caller -> Calls \cup {None}]
        /\ count' \in Nat
        /\ count' + Cardinality(UnderWay') = fetched + Cardinality(UnderWay \ {c}) + 1
    BY <2>1, <2>2, <2>3, <1>3, ProceedCounts
  <2>5. UnderWay' \in SUBSET Caller /\ Cardinality(UnderWay') \in Nat
    BY FS_Subset, FS_CardinalityType DEF UnderWay
  <2>6. Counted'
    <3>1. begun' \in Nat /\ begun' <= fetched + Cardinality(UnderWay) + 1
      BY <1>2, <1>3, <2>1
    <3>2. count' + Cardinality(UnderWay') = fetched + Cardinality(UnderWay) + 1
      BY <1>1, <2>4
    <3>3. begun' <= count' + Cardinality(UnderWay')
      BY <3>1, <3>2
    <3>4. QED
      BY <2>4, <3>1, <3>3 DEF Counted
  <2>7. fetched < MaxFetches
    BY <1>3, <1>5 DEF Exhausted
  <2>8. StartsWithinCap'
    BY <1>2, <1>3, <2>1, <2>7 DEF StartsWithinCap
  <2>9. QED
    BY <2>6, <2>8 DEF CapInv
<1>6. QED
  BY <1>4, <1>5

\* A call that goes on begins nothing and stays counted or under way.
LEMMA GoKeepsCap ==
    ASSUME CapInv, NEW c \in Caller, call[c] # None, NEW found \in BOOLEAN, Go(c, found)
    PROVE  CapInv'
<1>1. /\ call \in [Caller -> Calls \cup {None}] /\ call[c] \in Calls
      /\ call[c].market \in Market /\ call[c].elapsed \in 0 .. MaxElapsed
      /\ count \in Nat
  BY DEF CapInv, Counted, Calls
<1>2. Proceed(c, call[c].market, call[c].elapsed, call[c].source, found, count) /\ begun' = begun
  BY DEF Go
<1>3. /\ call' \in [Caller -> Calls \cup {None}]
      /\ count' \in Nat
      /\ count' + Cardinality(UnderWay') = count + Cardinality(UnderWay \ {c}) + 1
  <2>1. PICK m \in Market, elapsed \in 0 .. MaxElapsed :
             m = call[c].market /\ elapsed = call[c].elapsed
    BY <1>1
  <2>2. PICK from : from = call[c].source
    OBVIOUS
  <2>3. PICK fetched \in Nat : fetched = count
    BY <1>1
  <2>4. Proceed(c, m, elapsed, from, found, fetched)
    BY <1>2, <2>1, <2>2, <2>3
  <2>5. TRUE \in BOOLEAN /\ FALSE \in BOOLEAN
    OBVIOUS
  <2>6. CASE found
    <3>1. Proceed(c, m, elapsed, from, TRUE, fetched)
      BY <2>4, <2>6
    <3>2. QED
      BY <1>1, <2>3, <2>5, <3>1, ProceedCounts
  <2>7. CASE ~found
    <3>1. Proceed(c, m, elapsed, from, FALSE, fetched)
      BY <2>4, <2>7
    <3>2. QED
      BY <1>1, <2>3, <2>5, <3>1, ProceedCounts
  <2>8. QED
    BY <2>6, <2>7
<1>4. UnderWay \ {c} \in SUBSET (Caller \ {c}) /\ UnderWay = (UnderWay \ {c}) \cup {c}
  BY DEF UnderWay
<1>5. /\ Cardinality(UnderWay \ {c}) \in Nat
      /\ Cardinality((UnderWay \ {c}) \cup {c}) = Cardinality(UnderWay \ {c}) + 1
  BY <1>4, CallerCounts
<1>6. Cardinality(UnderWay) = Cardinality(UnderWay \ {c}) + 1
  BY <1>4, <1>5, Zenon
<1>7. UnderWay' \in SUBSET Caller /\ Cardinality(UnderWay') \in Nat
  BY FS_Subset, FS_CardinalityType DEF UnderWay
<1>8. Counted'
  BY <1>1, <1>2, <1>3, <1>5, <1>6, <1>7 DEF CapInv, Counted
<1>9. StartsWithinCap'
  BY <1>2 DEF CapInv, StartsWithinCap
<1>10. QED
  BY <1>8, <1>9 DEF CapInv

\* Time passes for the calls under way, and leaves them under way.
LEMMA TickKeepsCap ==
    ASSUME CapInv, Tick
    PROVE  CapInv'
<1>1. call \in [Caller -> Calls \cup {None}]
  BY DEF CapInv, Counted
<1>2. \A c \in Caller :
        call[c] # None => [call[c] EXCEPT !.elapsed = @ + 1] \in Calls
  <2>1. SUFFICES ASSUME NEW c \in Caller, call[c] # None
                 PROVE  [call[c] EXCEPT !.elapsed = @ + 1] \in Calls
    OBVIOUS
  <2>2. call[c] \in Calls /\ call[c].elapsed < MaxElapsed
    BY <1>1, <2>1 DEF Tick
  <2>3. call[c].elapsed \in 0 .. MaxElapsed /\ MaxElapsed \in Nat
    BY <2>2 DEF Calls
  <2>4. call[c].elapsed + 1 \in 0 .. MaxElapsed
    BY <2>2, <2>3
  <2>5. QED
    BY <2>2, <2>4 DEF Calls
<1>3. call' \in [Caller -> Calls \cup {None}]
  BY <1>2 DEF Tick
<1>4. UnderWay' = UnderWay
  BY <1>2 DEF Tick, UnderWay
<1>5. count' = count /\ begun' = begun
  BY DEF Tick
<1>6. QED
  BY <1>3, <1>4, <1>5 DEF CapInv, Counted, StartsWithinCap

\* Nothing is under way and nothing has begun at first.
LEMMA InitCap == Init => CapInv
<1> SUFFICES ASSUME Init PROVE CapInv
  OBVIOUS
<1>1. UnderWay = {}
  BY DEF Init, UnderWay
<1>2. Cardinality(UnderWay) = 0
  BY <1>1, FS_EmptySet
<1>3. call \in [Caller -> Calls \cup {None}] /\ count = 0 /\ begun = 0
  BY DEF Init
<1>4. Cardinality(Caller) \in Nat
  BY FS_CardinalityType
<1>5. QED
  BY <1>2, <1>3, <1>4 DEF CapInv, Counted, StartsWithinCap

LEMMA NextKeepsCap == CapInv /\ [Next]_vars => CapInv'
<1> SUFFICES ASSUME CapInv, [Next]_vars PROVE CapInv'
  OBVIOUS
<1>1. \A c \in Caller : call[c] # None => call[c].found \in BOOLEAN
  BY DEF CapInv, Counted, Calls
<1>2. ASSUME NEW c \in Caller, NEW m \in Market, Ask(c, m) PROVE CapInv'
  BY <1>2, AskKeepsCap
<1>3. ASSUME NEW c \in Caller, NEW found \in BOOLEAN, Served(c, found) PROVE CapInv'
  <2>1. call[c] # None /\ Go(c, call[c].found \/ found)
    BY <1>3 DEF Served
  <2>2. (call[c].found \/ found) \in BOOLEAN
    BY <1>1, <2>1
  <2>3. QED
    BY <2>1, <2>2, GoKeepsCap
<1>4. ASSUME NEW c \in Caller, Refused(c) \/ Failed(c) PROVE CapInv'
  <2>1. call[c] # None /\ Go(c, call[c].found)
    BY <1>4 DEF Refused, Failed
  <2>2. QED
    BY <1>1, <2>1, GoKeepsCap
<1>5. ASSUME NEW c \in Caller, FeedAnswers(c) PROVE CapInv'
  <2>1. call[c] # None /\ Go(c, TRUE)
    BY <1>5 DEF FeedAnswers
  <2>2. QED
    BY <2>1, GoKeepsCap
<1>6. CASE Tick
  BY <1>6, TickKeepsCap
<1>7. CASE UNCHANGED vars
  BY <1>7 DEF vars, CapInv, Counted, UnderWay, StartsWithinCap
<1>8. QED
  BY <1>2, <1>3, <1>4, <1>5, <1>6, <1>7 DEF Next

-----------------------------------------------------------------------------

\* The fetches that begin in an iteration exceed max_fetches_per_iteration by the
\* other callers at most (_check_rate_limits and _record_fetch, which are called
\* on different sides of the requests).
THEOREM CapKept == Spec => []StartsWithinCap
<1>1. CapInv => StartsWithinCap
  BY DEF CapInv
<1>2. QED
  BY InitCap, NextKeepsCap, <1>1, PTL DEF Spec


-----------------------------------------------------------------------------
(* How often a market is fetched.                                          *)

\* The callers whose fetch of m began a ticks ago.
Fetching(m, a) == {c \in Caller : call[c] # None /\ call[c].market = m /\ call[c].elapsed = a}

\* A fetch that ended would have set the market's timestamp to its start.  So a
\* start younger than the timestamp, by the time of a call, is of a call that is
\* still under way.
StartsUnderWay ==
    \A m \in Market, a \in 0 .. Rested - 1 :
        a + MaxElapsed < since[m] => starts[m][a] <= Cardinality(Fetching(m, a))

Timed ==
    /\ call \in [Caller -> Calls \cup {None}] /\ count \in Nat
    /\ since \in [Market -> 0 .. Cooldown]
    /\ starts \in [Market -> [0 .. Rested - 1 -> Nat]]

RestedInv == Timed /\ StartsUnderWay /\ MarketNotHammered

\* The ages that are remembered are finitely many, and the first of them is 0.
LEMMA Ages ==
    /\ Rested - 1 \in Nat /\ 0 \in 0 .. Rested - 1
    /\ IsFiniteSet(0 .. Rested - 1)
<1>1. Rested - 1 \in Nat
  BY DEF Rested
<1>2. 0 \in Int /\ Rested - 1 \in Int
  BY <1>1
<1>3. IsFiniteSet(0 .. Rested - 1)
  BY <1>2, FS_Interval, Zenon
<1>4. QED
  BY <1>1, <1>3

\* The callers that fetch a market are finitely many.
LEMMA FetchingFinite ==
    \A m, a : IsFiniteSet(Fetching(m, a)) /\ Cardinality(Fetching(m, a)) \in Nat
<1> SUFFICES ASSUME NEW m, NEW a
             PROVE  IsFiniteSet(Fetching(m, a)) /\ Cardinality(Fetching(m, a)) \in Nat
  OBVIOUS
<1>1. Fetching(m, a) \in SUBSET Caller
  BY DEF Fetching
<1>2. QED
  BY <1>1, FS_Subset, FS_CardinalityType, Zenon

\* A market whose cooldown is over has no start but those of calls under way, and
\* so fewer than there are callers when one of these is free.
LEMMA FewStarts ==
    ASSUME RestedInv, NEW c \in Caller, call[c] = None, NEW m \in Market, since[m] >= Cooldown
    PROVE  Total(starts[m]) + 1 <= Cardinality(Caller)
<1> DEFINE part == [a \in 0 .. Rested - 1 |-> Fetching(m, a)]
           rest == Caller \ {c}
<1>1. starts[m] \in [0 .. Rested - 1 -> Nat]
  BY DEF RestedInv, Timed
<1>2. \A a \in 0 .. Rested - 1 : starts[m][a] <= Cardinality(part[a])
  <2>1. SUFFICES ASSUME NEW a \in 0 .. Rested - 1
                 PROVE  starts[m][a] <= Cardinality(Fetching(m, a))
    OBVIOUS
  <2>2. since[m] \in Int
    BY DEF RestedInv, Timed
  <2>3. a + MaxElapsed < since[m]
    BY <2>2 DEF Rested
  <2>4. QED
    BY <2>3 DEF RestedInv, StartsUnderWay
<1>3. part \in [0 .. Rested - 1 -> SUBSET rest]
  BY DEF Fetching
<1>4. \A a, b \in 0 .. Rested - 1 : a # b => part[a] \cap part[b] = {}
  BY DEF Fetching
<1>5. IsFiniteSet(rest) /\ Cardinality(rest) + 1 <= Cardinality(Caller)
      /\ Cardinality(rest) \in Nat /\ Cardinality(Caller) \in Nat
  <2>1. rest \in SUBSET (Caller \ {c})
    OBVIOUS
  <2>2. QED
    BY <2>1, CallerCounts
<1>6. Total(starts[m]) <= Cardinality(rest)
  <2> HIDE DEF part, rest
  <2>1. QED
    BY <1>1, <1>2, <1>3, <1>4, <1>5, TotalWithin
<1>7. Total(starts[m]) \in Nat
  BY <1>1, Ages, TotalType
<1>8. QED
  BY <1>5, <1>6, <1>7

\* A call that goes on either ends, and sets the timestamp of its market to the
\* start of the fetch, or stays a fetch of that market of the same age.
LEMMA ProceedRests ==
    ASSUME Timed, NEW c \in Caller, NEW m \in Market, NEW elapsed \in 0 .. MaxElapsed,
           NEW from, NEW found \in BOOLEAN, NEW fetched \in Nat,
           call[c] # None => call[c].market = m /\ call[c].elapsed = elapsed,
           Proceed(c, m, elapsed, from, found, fetched)
    PROVE  /\ since' \in [Market -> 0 .. Cooldown]
           /\ \A k \in Market, a \in 0 .. Rested - 1 :
                \/ since'[k] <= MaxElapsed
                \/ /\ since'[k] = since[k]
                   /\ Fetching(k, a) \subseteq Fetching(k, a)'
                   /\ k = m /\ a = elapsed => c \in Fetching(k, a)'
<1> DEFINE source == NextSource(m, from, found)
           waiting == [market |-> m, source |-> source, found |-> found, elapsed |-> elapsed]
<1>1. CASE call' = [call EXCEPT ![c] = waiting] /\ UNCHANGED since /\ waiting \in Calls
  <2>1. waiting # None /\ waiting.market = m /\ waiting.elapsed = elapsed
    BY <1>1
  <2> HIDE DEF waiting
  <2>2. call'[c] = waiting /\ \A d \in Caller : d # c => call'[d] = call[d]
    BY <1>1 DEF Timed
  <2>3. \A k \in Market, a \in 0 .. Rested - 1 : Fetching(k, a) \subseteq Fetching(k, a)'
    BY <2>1, <2>2 DEF Fetching
  <2>4. c \in Fetching(m, elapsed)'
    BY <2>1, <2>2 DEF Fetching
  <2>5. QED
    BY <1>1, <2>3, <2>4 DEF Timed
<1>2. CASE /\ since' = [since EXCEPT ![m] = AtMost(elapsed, Cooldown)]
           /\ call' = [call EXCEPT ![c] = None]
  <2>1. AtMost(elapsed, Cooldown) = elapsed /\ elapsed \in 0 .. Cooldown /\ elapsed <= MaxElapsed
    BY DEF AtMost
  <2>2. since' \in [Market -> 0 .. Cooldown] /\ since'[m] <= MaxElapsed
    BY <1>2, <2>1 DEF Timed
  <2>3. ASSUME NEW k \in Market, NEW a \in 0 .. Rested - 1, k # m
        PROVE  since'[k] = since[k] /\ Fetching(k, a) \subseteq Fetching(k, a)'
    <3>1. c \notin Fetching(k, a)
      BY <2>3 DEF Fetching
    <3>2. \A d \in Caller : d # c => call'[d] = call[d]
      BY <1>2 DEF Timed
    <3>3. QED
      BY <1>2, <2>3, <3>1, <3>2 DEF Timed, Fetching
  <2>4. QED
    BY <2>2, <2>3
<1>3. (source \in Service \/ source = "feed") => waiting \in Calls
  BY DEF Calls
<1>4. QED
  <2> HIDE DEF waiting
  <2>1. CASE /\ source \in Service \/ (source = "feed" /\ articles[m] = FeedTTL)
             /\ call' = [call EXCEPT ![c] = waiting] /\ UNCHANGED since
    BY <1>1, <1>3, <2>1
  <2>2. \/ /\ source \in Service \/ (source = "feed" /\ articles[m] = FeedTTL)
           /\ call' = [call EXCEPT ![c] = waiting] /\ UNCHANGED since
        \/ /\ since' = [since EXCEPT ![m] = AtMost(elapsed, Cooldown)]
           /\ call' = [call EXCEPT ![c] = None]
    BY Zenon DEF Proceed, Conclude, SinceAfter, waiting, source
  <2>3. QED
    BY <1>2, <2>1, <2>2

\* What an action must keep: the starts of a market under way, and their number.
LEMMA RestedFrom ==
    ASSUME RestedInv, Timed',
           \A k \in Market, a \in 0 .. Rested - 1 :
              \/ since'[k] <= MaxElapsed
              \/ /\ since'[k] = since[k] /\ Fetching(k, a) \subseteq Fetching(k, a)'
                 /\ starts'[k][a] = starts[k][a]
              \/ starts'[k][a] <= Cardinality(Fetching(k, a)'),
           \A k \in Market : Total(starts'[k]) <= Cardinality(Caller)
    PROVE  RestedInv'
<1>1. ASSUME NEW k \in Market, NEW a \in 0 .. Rested - 1, a + MaxElapsed < since'[k]
      PROVE  starts'[k][a] <= Cardinality(Fetching(k, a)')
  <2>1. since'[k] \in Int /\ ~(since'[k] <= MaxElapsed)
    BY <1>1 DEF Timed
  <2>2. CASE /\ since'[k] = since[k] /\ Fetching(k, a) \subseteq Fetching(k, a)'
             /\ starts'[k][a] = starts[k][a]
    <3>1. starts[k][a] \in Nat /\ starts[k][a] <= Cardinality(Fetching(k, a))
      <4>1. a + MaxElapsed < since[k]
        BY <1>1, <2>2
      <4>2. starts[k][a] <= Cardinality(Fetching(k, a))
        BY <4>1 DEF RestedInv, StartsUnderWay
      <4>3. starts \in [Market -> [0 .. Rested - 1 -> Nat]]
        BY DEF RestedInv, Timed
      <4>4. starts[k][a] \in Nat
        BY <4>3, Zenon
      <4>5. QED
        BY <4>2, <4>4
    <3>2. Fetching(k, a)' \in SUBSET Caller
      BY DEF Fetching
    <3>3. IsFiniteSet(Fetching(k, a)')
      BY <3>2, FS_Subset
    <3>4. /\ Cardinality(Fetching(k, a)) <= Cardinality(Fetching(k, a)')
          /\ Cardinality(Fetching(k, a)') \in Nat
      BY <2>2, <3>3, FS_Subset, FS_CardinalityType, Zenon
    <3>5. Cardinality(Fetching(k, a)) \in Nat
      BY FetchingFinite
    <3>6. QED
      BY <2>2, <3>1, <3>4, <3>5
  <2>3. QED
    BY <2>1, <2>2
<1>2. StartsUnderWay'
  BY <1>1 DEF StartsUnderWay
<1>3. MarketNotHammered'
  BY DEF MarketNotHammered
<1>4. QED
  BY <1>2, <1>3 DEF RestedInv

\* A question that is fetched finds only starts of the others, and adds one.
LEMMA AskRests ==
    ASSUME RestedInv, NEW c \in Caller, NEW m \in Market, Ask(c, m)
    PROVE  RestedInv'
<1> DEFINE over == window > TTL
           fetched == IF over THEN 0 ELSE count
<1>1. call[c] = None /\ since[m] >= Cooldown /\ fetched \in Nat /\ Timed
  BY DEF Ask, RestedInv, Timed
<1>2. CASE Exhausted(fetched)
  <2>1. UNCHANGED <<since, call, starts>> /\ count' = fetched
    BY <1>2 DEF Ask
  <2>2. Timed'
    BY <1>1, <2>1 DEF Timed
  <2>3. \A k \in Market, a \in 0 .. Rested - 1 : Fetching(k, a)' = Fetching(k, a)
    BY <2>1 DEF Fetching
  <2>4. \A k \in Market : Total(starts'[k]) <= Cardinality(Caller)
    BY <2>1 DEF RestedInv, MarketNotHammered
  <2>5. QED
    BY <2>1, <2>2, <2>3, <2>4, RestedFrom
<1>3. CASE ~Exhausted(fetched)
  <2>1. /\ Proceed(c, m, 0, "start", FALSE, fetched)
        /\ starts' = [starts EXCEPT ![m][0] = @ + 1]
    BY <1>3 DEF Ask
  <2> HIDE DEF fetched, over
  <2>2. 0 \in 0 .. MaxElapsed /\ FALSE \in BOOLEAN
    OBVIOUS
  <2>3. /\ since' \in [Market -> 0 .. Cooldown]
        /\ \A k \in Market, a \in 0 .. Rested - 1 :
             \/ since'[k] <= MaxElapsed
             \/ /\ since'[k] = since[k]
                /\ Fetching(k, a) \subseteq Fetching(k, a)'
                /\ k = m /\ a = 0 => c \in Fetching(k, a)'
    BY <1>1, <2>1, <2>2, ProceedRests
  <2>4. call' \in [Caller -> Calls \cup {None}] /\ count' \in Nat
    BY <1>1, <2>1, <2>2, ProceedCounts DEF Timed
  <2>5. /\ starts' \in [Market -> [0 .. Rested - 1 -> Nat]]
        /\ \A k \in Market, a \in 0 .. Rested - 1 :
             starts'[k][a] = IF k = m /\ a = 0 THEN starts[k][a] + 1 ELSE starts[k][a]
        /\ starts'[m] = [starts[m] EXCEPT ![0] = @ + 1]
        /\ \A k \in Market : k # m => starts'[k] = starts[k]
    <3>1. starts \in [Market -> [0 .. Rested - 1 -> Nat]] /\ 0 \in 0 .. Rested - 1
      BY <1>1, Ages DEF Timed
    <3>2. PICK row : row = [starts[m] EXCEPT ![0] = starts[m][0] + 1]
      OBVIOUS
    <3>3. starts' = [starts EXCEPT ![m] = row]
      BY <2>1, <3>2
    <3>4. /\ row \in [0 .. Rested - 1 -> Nat] /\ row[0] = starts[m][0] + 1
          /\ \A a \in 0 .. Rested - 1 : a # 0 => row[a] = starts[m][a]
      <4>1. PICK old \in [0 .. Rested - 1 -> Nat] : old = starts[m]
        BY <3>1
      <4>2. row = [old EXCEPT ![0] = old[0] + 1] /\ old[0] + 1 \in Nat
        BY <3>1, <3>2, <4>1
      <4>3. QED
        BY <3>1, <4>1, <4>2
    <3>5. starts'[m] = row /\ \A k \in Market : k # m => starts'[k] = starts[k]
      BY <3>1, <3>3
    <3>6. starts' \in [Market -> [0 .. Rested - 1 -> Nat]]
      BY <3>1, <3>3, <3>4
    <3>7. ASSUME NEW k \in Market, NEW a \in 0 .. Rested - 1
          PROVE  starts'[k][a] = IF k = m /\ a = 0 THEN starts[k][a] + 1 ELSE starts[k][a]
      BY <3>4, <3>5
    <3>8. QED
      BY <3>2, <3>5, <3>6, <3>7
  <2>6. Timed'
    BY <2>3, <2>4, <2>5 DEF Timed
  <2>7. Total(starts'[m]) <= Cardinality(Caller)
    <3>1. Total(starts[m]) + 1 <= Cardinality(Caller)
      BY <1>1, FewStarts
    <3>2. starts[m] \in [0 .. Rested - 1 -> Nat] /\ 1 \in Nat
      BY <1>1 DEF Timed
    <3>3. \A f \in [0 .. Rested - 1 -> Nat] : Total([f EXCEPT ![0] = @ + 1]) = Total(f) + 1
      <4>1. \A f \in [0 .. Rested - 1 -> Nat], a \in 0 .. Rested - 1, n \in Nat :
              Total([f EXCEPT ![a] = @ + n]) = Total(f) + n
        BY Ages, TotalAdd
      <4>2. QED
        BY <3>2, <4>1, Ages
    <3>4. QED
      BY <2>5, <3>1, <3>2, <3>3
  <2>8. \A k \in Market : Total(starts'[k]) <= Cardinality(Caller)
    BY <2>5, <2>7 DEF RestedInv, MarketNotHammered
  <2>9. ASSUME NEW k \in Market, NEW a \in 0 .. Rested - 1, ~(since'[k] <= MaxElapsed)
        PROVE  \/ /\ since'[k] = since[k] /\ Fetching(k, a) \subseteq Fetching(k, a)'
                  /\ starts'[k][a] = starts[k][a]
               \/ starts'[k][a] <= Cardinality(Fetching(k, a)')
    <3>1. CASE k = m /\ a = 0
      <4>1. since[m] = since'[m] /\ Fetching(m, 0) \subseteq Fetching(m, 0)' /\ c \in Fetching(m, 0)'
        BY <2>3, <2>9, <3>1
      <4>2. Fetching(m, 0) \in SUBSET (Caller \ {c}) /\ Fetching(m, 0)' \in SUBSET Caller
        BY <1>1 DEF Fetching
      <4>3. Cardinality(Fetching(m, 0) \cup {c}) = Cardinality(Fetching(m, 0)) + 1
        BY <4>2, CallerCounts
      <4>4. /\ IsFiniteSet(Fetching(m, 0)') /\ Cardinality(Fetching(m, 0)') \in Nat
        BY <4>2, FS_Subset, FS_CardinalityType
      <4>5. Fetching(m, 0) \cup {c} \subseteq Fetching(m, 0)'
        BY <4>1
      <4>6. Cardinality(Fetching(m, 0) \cup {c}) <= Cardinality(Fetching(m, 0)')
        BY <4>4, <4>5, FS_Subset, Zenon
      <4>7. starts[m][0] <= Cardinality(Fetching(m, 0))
        <5>1. 0 + MaxElapsed < since[m]
          BY <1>1 DEF Timed
        <5>2. QED
          BY <5>1, Ages DEF RestedInv, StartsUnderWay
      <4>8. starts'[m][0] = starts[m][0] + 1 /\ starts[m][0] \in Nat
        BY <1>1, <2>5, Ages DEF Timed
      <4>9. Cardinality(Fetching(m, 0)) \in Nat
        BY FetchingFinite
      <4>10. starts'[m][0] <= Cardinality(Fetching(m, 0)')
        BY <4>3, <4>4, <4>6, <4>7, <4>8, <4>9
      <4>11. QED
        BY <3>1, <4>10
    <3>2. CASE ~(k = m /\ a = 0)
      BY <2>3, <2>5, <2>9, <3>2
    <3>3. QED
      BY <3>1, <3>2
  <2>10. QED
    BY <2>6, <2>8, <2>9, RestedFrom
<1>4. QED
  BY <1>2, <1>3

\* A call that goes on starts nothing.
LEMMA GoRests ==
    ASSUME RestedInv, NEW c \in Caller, call[c] # None, NEW found \in BOOLEAN, Go(c, found)
    PROVE  RestedInv'
<1>1. /\ Timed /\ call[c] \in Calls
      /\ call[c].market \in Market /\ call[c].elapsed \in 0 .. MaxElapsed /\ count \in Nat
  BY DEF RestedInv, Timed, Calls
<1>2. PICK m \in Market, elapsed \in 0 .. MaxElapsed :
           m = call[c].market /\ elapsed = call[c].elapsed
  BY <1>1
<1>3. PICK from : from = call[c].source
  OBVIOUS
<1>4. PICK fetched \in Nat : fetched = count
  BY <1>1
<1>5. Proceed(c, m, elapsed, from, found, fetched) /\ starts' = starts
  BY <1>2, <1>3, <1>4 DEF Go
<1>6. call[c] # None => call[c].market = m /\ call[c].elapsed = elapsed
  BY <1>2
<1>7. /\ call' \in [Caller -> Calls \cup {None}] /\ count' \in Nat
      /\ since' \in [Market -> 0 .. Cooldown]
      /\ \A k \in Market, a \in 0 .. Rested - 1 :
           \/ since'[k] <= MaxElapsed
           \/ since'[k] = since[k] /\ Fetching(k, a) \subseteq Fetching(k, a)'
  <2>1. TRUE \in BOOLEAN /\ FALSE \in BOOLEAN /\ call \in [Caller -> Calls \cup {None}]
    BY <1>1 DEF Timed
  <2>2. CASE found
    <3>1. Proceed(c, m, elapsed, from, TRUE, fetched)
      BY <1>5, <2>2
    <3>2. call' \in [Caller -> Calls \cup {None}] /\ count' \in Nat
      BY <2>1, <3>1, ProceedCounts
    <3>3. QED
      BY <1>1, <1>6, <2>1, <3>1, <3>2, ProceedRests
  <2>3. CASE ~found
    <3>1. Proceed(c, m, elapsed, from, FALSE, fetched)
      BY <1>5, <2>3
    <3>2. call' \in [Caller -> Calls \cup {None}] /\ count' \in Nat
      BY <2>1, <3>1, ProceedCounts
    <3>3. QED
      BY <1>1, <1>6, <2>1, <3>1, <3>2, ProceedRests
  <2>4. QED
    BY <2>2, <2>3
<1>8. Timed'
  BY <1>1, <1>5, <1>7 DEF Timed
<1>9. \A k \in Market : Total(starts'[k]) <= Cardinality(Caller)
  BY <1>5 DEF RestedInv, MarketNotHammered
<1>10. QED
  BY <1>5, <1>7, <1>8, <1>9, RestedFrom

\* As time passes the starts, the fetches under way and the timestamps age alike.
LEMMA TickRests ==
    ASSUME RestedInv, Tick
    PROVE  RestedInv'
<1> DEFINE Aged(f) == [a \in 0 .. Rested - 1 |-> IF a = 0 THEN 0 ELSE f[a - 1]]
<1>1. Timed /\ Rested - 1 \in Nat
  BY Ages DEF RestedInv
<1>2. \A c \in Caller :
        call[c] # None =>
           /\ [call[c] EXCEPT !.elapsed = @ + 1] \in Calls
           /\ [call[c] EXCEPT !.elapsed = @ + 1].market = call[c].market
           /\ [call[c] EXCEPT !.elapsed = @ + 1].elapsed = call[c].elapsed + 1
  <2>1. SUFFICES ASSUME NEW c \in Caller, call[c] # None
                 PROVE  /\ [call[c] EXCEPT !.elapsed = @ + 1] \in Calls
                        /\ [call[c] EXCEPT !.elapsed = @ + 1].market = call[c].market
                        /\ [call[c] EXCEPT !.elapsed = @ + 1].elapsed = call[c].elapsed + 1
    OBVIOUS
  <2>2. call[c] \in Calls /\ call[c].elapsed < MaxElapsed
    BY <1>1, <2>1 DEF Tick, Timed
  <2>3. call[c].elapsed \in 0 .. MaxElapsed /\ MaxElapsed \in Nat
    BY <2>2 DEF Calls
  <2>4. call[c].elapsed + 1 \in 0 .. MaxElapsed
    BY <2>2, <2>3
  <2>5. QED
    BY <2>2, <2>4 DEF Calls
<1>3. /\ call' \in [Caller -> Calls \cup {None}]
      /\ \A c \in Caller :
           call[c] # None => /\ call'[c] # None /\ call'[c].market = call[c].market
                             /\ call'[c].elapsed = call[c].elapsed + 1
  BY <1>2 DEF Tick
<1>4. /\ since' \in [Market -> 0 .. Cooldown]
      /\ \A k \in Market : since'[k] <= since[k] + 1
  BY <1>1, SMTT(30) DEF Tick, Timed, Older, AtMost
<1>5. /\ starts' \in [Market -> [0 .. Rested - 1 -> Nat]]
      /\ \A k \in Market : starts'[k] = Aged(starts[k])
  <2>1. \A k \in Market : starts[k] \in [0 .. Rested - 1 -> Nat]
    BY <1>1 DEF Timed
  <2>2. \A f \in [0 .. Rested - 1 -> Nat] : Aged(f) \in [0 .. Rested - 1 -> Nat]
    BY <1>1
  <2>3. starts' = [k \in Market |-> Aged(starts[k])]
    BY DEF Tick
  <2> HIDE DEF Aged
  <2>4. QED
    BY <2>1, <2>2, <2>3
<1>6. Timed'
  BY <1>1, <1>3, <1>4, <1>5 DEF Timed, Tick
<1>7. \A k \in Market : Total(starts'[k]) <= Cardinality(Caller)
  <2>1. SUFFICES ASSUME NEW k \in Market PROVE Total(starts'[k]) <= Cardinality(Caller)
    OBVIOUS
  <2>2. \A f \in [0 .. Rested - 1 -> Nat] : Total(Aged(f)) <= Total(f)
    BY <1>1, TotalShift
  <2>3. starts[k] \in [0 .. Rested - 1 -> Nat]
    BY <1>1 DEF Timed
  <2>4. \A f \in [0 .. Rested - 1 -> Nat] : Total(f) \in Nat /\ Total(Aged(f)) \in Nat
    <3>1. \A f \in [0 .. Rested - 1 -> Nat] : Aged(f) \in [0 .. Rested - 1 -> Nat]
      BY <1>1
    <3> HIDE DEF Aged
    <3>2. QED
      BY <3>1, Ages, TotalType
  <2>5. Cardinality(Caller) \in Nat /\ Total(starts[k]) <= Cardinality(Caller)
    BY FS_CardinalityType DEF RestedInv, MarketNotHammered
  <2> HIDE DEF Aged
  <2>6. QED
    BY <1>5, <2>2, <2>3, <2>4, <2>5
<1>8. ASSUME NEW k \in Market, NEW a \in 0 .. Rested - 1, ~(since'[k] <= MaxElapsed)
      PROVE  \/ starts'[k][a] <= Cardinality(Fetching(k, a)')
             \/ ~(a + MaxElapsed < since'[k])
  <2>1. CASE a = 0
    <3>1. starts'[k][a] = 0
      BY <1>5, <2>1
    <3>2. Fetching(k, a)' \in SUBSET Caller
      BY DEF Fetching
    <3>3. Cardinality(Fetching(k, a)') \in Nat
      BY <3>2, FS_Subset, FS_CardinalityType
    <3>4. QED
      BY <3>1, <3>3
  <2>2. CASE a # 0 /\ a + MaxElapsed < since'[k]
    <3>1. a - 1 \in 0 .. Rested - 1 /\ starts'[k][a] = starts[k][a - 1]
      BY <1>1, <1>5, <2>2
    <3>2. (a - 1) + MaxElapsed < since[k]
      BY <1>1, <1>4, <2>2 DEF Timed
    <3>3. starts[k][a - 1] <= Cardinality(Fetching(k, a - 1))
      BY <3>1, <3>2 DEF RestedInv, StartsUnderWay
    <3>4. Fetching(k, a - 1) \subseteq Fetching(k, a)'
      BY <1>1, <1>3 DEF Fetching, Timed, Calls
    <3>5. Fetching(k, a)' \in SUBSET Caller
      BY DEF Fetching
    <3>6. IsFiniteSet(Fetching(k, a)')
      BY <3>5, FS_Subset
    <3>7. /\ Cardinality(Fetching(k, a - 1)) <= Cardinality(Fetching(k, a)')
          /\ Cardinality(Fetching(k, a)') \in Nat
      BY <3>4, <3>6, FS_Subset, FS_CardinalityType, Zenon
    <3>8. Cardinality(Fetching(k, a - 1)) \in Nat /\ starts[k][a - 1] \in Nat
      BY <1>1, <3>1, FetchingFinite DEF Timed
    <3>9. QED
      BY <3>1, <3>3, <3>7, <3>8
  <2>3. QED
    BY <2>1, <2>2
<1>9. StartsUnderWay'
  <2>1. SUFFICES ASSUME NEW k \in Market, NEW a \in 0 .. Rested - 1, a + MaxElapsed < since'[k]
                 PROVE  starts'[k][a] <= Cardinality(Fetching(k, a)')
    BY DEF StartsUnderWay
  <2>2. ~(since'[k] <= MaxElapsed)
    BY <1>4, <2>1
  <2>3. QED
    BY <1>8, <2>1, <2>2
<1>10. QED
  BY <1>6, <1>7, <1>9 DEF RestedInv, MarketNotHammered

\* No market has been fetched at first.
LEMMA InitRests == Init => RestedInv
<1> SUFFICES ASSUME Init PROVE RestedInv
  OBVIOUS
<1>1. call \in [Caller -> Calls \cup {None}] /\ count \in Nat
  BY DEF Init
<1>2. since \in [Market -> 0 .. Cooldown]
  BY DEF Init, AtMost
<1>3. /\ starts \in [Market -> [0 .. Rested - 1 -> Nat]]
      /\ \A k \in Market, a \in 0 .. Rested - 1 : starts[k][a] = 0
  BY DEF Init
<1>4. StartsUnderWay
  BY <1>3, FetchingFinite DEF StartsUnderWay
<1>5. MarketNotHammered
  <2>1. SUFFICES ASSUME NEW k \in Market PROVE Total(starts[k]) <= Cardinality(Caller)
    BY DEF MarketNotHammered
  <2>2. starts[k] \in [0 .. Rested - 1 -> Nat] /\ \A a \in 0 .. Rested - 1 : starts[k][a] = 0
    BY <1>3
  <2>3. Total(starts[k]) = 0
    BY <2>2, Ages, TotalZero
  <2>4. QED
    BY <2>3, FS_CardinalityType
<1>6. QED
  BY <1>1, <1>2, <1>3, <1>4, <1>5 DEF RestedInv, Timed

LEMMA NextRests == RestedInv /\ [Next]_vars => RestedInv'
<1> SUFFICES ASSUME RestedInv, [Next]_vars PROVE RestedInv'
  OBVIOUS
<1>1. \A c \in Caller : call[c] # None => call[c].found \in BOOLEAN
  BY DEF RestedInv, Timed, Calls
<1>2. ASSUME NEW c \in Caller, NEW m \in Market, Ask(c, m) PROVE RestedInv'
  BY <1>2, AskRests
<1>3. ASSUME NEW c \in Caller, NEW found \in BOOLEAN, Served(c, found) PROVE RestedInv'
  <2>1. call[c] # None /\ Go(c, call[c].found \/ found)
    BY <1>3 DEF Served
  <2>2. (call[c].found \/ found) \in BOOLEAN
    BY <1>1, <2>1
  <2>3. QED
    BY <2>1, <2>2, GoRests
<1>4. ASSUME NEW c \in Caller, Refused(c) \/ Failed(c) PROVE RestedInv'
  <2>1. call[c] # None /\ Go(c, call[c].found)
    BY <1>4 DEF Refused, Failed
  <2>2. QED
    BY <1>1, <2>1, GoRests
<1>5. ASSUME NEW c \in Caller, FeedAnswers(c) PROVE RestedInv'
  <2>1. call[c] # None /\ Go(c, TRUE)
    BY <1>5 DEF FeedAnswers
  <2>2. QED
    BY <2>1, GoRests
<1>6. CASE Tick
  BY <1>6, TickRests
<1>7. CASE UNCHANGED vars
  <2>1. Timed' /\ starts' = starts /\ since' = since
    BY <1>7 DEF vars, RestedInv, Timed
  <2>2. \A k \in Market, a \in 0 .. Rested - 1 : Fetching(k, a)' = Fetching(k, a)
    BY <1>7 DEF vars, Fetching
  <2>3. \A k \in Market : Total(starts'[k]) <= Cardinality(Caller)
    BY <2>1 DEF RestedInv, MarketNotHammered
  <2>4. QED
    BY <2>1, <2>2, <2>3, RestedFrom
<1>8. QED
  BY <1>2, <1>3, <1>4, <1>5, <1>6, <1>7 DEF Next

\* Within the cooldown less the time of a call each caller fetches a market once
\* at most: _check_rate_limits sees the timestamp of a market, which _record_fetch
\* sets to the start of a fetch when that fetch ends.
THEOREM CooldownKept == Spec => []MarketNotHammered
<1>1. RestedInv => MarketNotHammered
  BY DEF RestedInv
<1>2. QED
  BY InitRests, NextRests, <1>1, PTL DEF Spec

-----------------------------------------------------------------------------
(* The news: types.                                                        *)

\* A call waits for a source that can be asked; the feed comes last, and only when
\* the services found nothing.
WaitsFor(request) ==
    /\ request.source \in Keyed \cup (IF Feed THEN {"feed"} ELSE {})
    /\ request.source = "feed" => ~request.found

CallTypes ==
    /\ call \in [Caller -> Calls \cup {None}]
    /\ \A c \in Caller : call[c] # None => WaitsFor(call[c])

CacheTypes ==
    /\ cached \in [Market -> [age : 0 .. TTL, found : BOOLEAN]]
    /\ since \in [Market -> 0 .. Cooldown]
    /\ count \in Nat /\ hadContext \in BOOLEAN

ServiceTypes ==
    /\ blocked \in [Service -> Nat] /\ \A s \in Service : blocked[s] <= Longest[s]
    /\ refusals \in [Service -> 0 .. Enough]
    /\ articles \in [Market -> 0 .. FeedTTL] /\ window \in 0 .. TTL + 1

ContextTypes == CallTypes /\ CacheTypes /\ ServiceTypes

LEMMA ContextTypesImply == ContextTypes => TypeOK
BY DEF ContextTypes, CallTypes, CacheTypes, ServiceTypes, WaitsFor, TypeOK

\* An age does not pass the limit at which it is kept.
LEMMA OlderType ==
    ASSUME NEW limit \in Nat, NEW age \in 0 .. limit
    PROVE  Older(age, limit) \in 0 .. limit
BY DEF Older, AtMost

\* The wait after a refusal is never longer than the longest.
LEMMA BackoffType ==
    ASSUME NEW s \in Service, NEW n \in 1 .. Enough
    PROVE  Backoff(s, n) \in 0 .. Longest[s]
<1>1. n - 1 \in 0 .. Enough
  BY ContextAssumption
<1>2. PICK power \in Nat : power = 2 ^ (n - 1)
  BY <1>1, ContextAssumption
<1>3. PICK first \in Nat, longest \in Nat : first = Base[s] /\ longest = Longest[s]
  BY ContextAssumption
<1>4. PICK wait \in Nat : wait = first * power
  OBVIOUS
<1>5. Backoff(s, n) = IF wait > longest THEN longest ELSE wait
  BY <1>2, <1>3, <1>4 DEF Backoff, AtMost
<1>6. QED
  BY <1>3, <1>5

\* The source that comes next can be asked.
LEMMA NextSourceType ==
    ASSUME NEW m, NEW from, NEW found \in BOOLEAN
    PROVE  \/ NextSource(m, from, found) = None
           \/ /\ NextSource(m, from, found) \in Keyed \cup (IF Feed THEN {"feed"} ELSE {})
              /\ NextSource(m, from, found) \in Service \cup {"feed"}
              /\ NextSource(m, from, found) = "feed" => ~found
BY ContextAssumption DEF NextSource, CanAsk, Service

\* A call goes on to a source it may ask, or leaves a result and a start.
LEMMA ProceedTypes ==
    ASSUME CallTypes, CacheTypes,
           NEW c \in Caller, NEW m \in Market, NEW elapsed \in 0 .. MaxElapsed,
           NEW from, NEW found \in BOOLEAN, NEW fetched \in Nat,
           Proceed(c, m, elapsed, from, found, fetched)
    PROVE  CallTypes' /\ CacheTypes'
<1>1. PICK source : source = NextSource(m, from, found)
  OBVIOUS
<1>2. CASE source \in Service \cup {"feed"} /\ call' = [call EXCEPT ![c] =
              [market |-> m, source |-> source, found |-> found, elapsed |-> elapsed]]
              /\ count' = fetched /\ UNCHANGED <<cached, since, hadContext>>
  <2>1. PICK request : request = [market |-> m, source |-> source, found |-> found, elapsed |-> elapsed]
    OBVIOUS
  <2>2. source # None => WaitsFor(request)
    BY <1>1, <2>1, NextSourceType DEF WaitsFor
  <2>3. request \in Calls
    BY <1>2, <2>1 DEF Calls
  <2>4. source # None
    BY <1>2, ContextAssumption
  <2>5. call' = [call EXCEPT ![c] = request]
    BY <1>2, <2>1
  <2>6. CallTypes'
    BY <2>2, <2>3, <2>4, <2>5 DEF CallTypes
  <2>7. QED
    BY <1>2, <2>6 DEF CacheTypes
<1>3. ASSUME NEW result \in BOOLEAN, Conclude(c, m, elapsed, result, fetched)
      PROVE  CallTypes' /\ CacheTypes'
  <2>1. AtMost(elapsed, Cooldown) \in 0 .. Cooldown
    BY ContextAssumption DEF AtMost
  <2>2. Result(result) \in [age : 0 .. TTL, found : BOOLEAN]
    BY ContextAssumption DEF Result
  <2>3. CacheTypes'
    BY <1>3, <2>1, <2>2 DEF Conclude, SinceAfter, CacheTypes
  <2>4. CallTypes'
    BY <1>3 DEF Conclude, CallTypes
  <2>5. QED
    BY <2>3, <2>4
<1>4. QED
  BY <1>1, <1>2, <1>3 DEF Proceed

\* What a call goes on with after an answer.
LEMMA GoTypes ==
    ASSUME CallTypes, CacheTypes,
           NEW c \in Caller, call[c] # None, NEW found \in BOOLEAN, Go(c, found)
    PROVE  CallTypes' /\ CacheTypes'
<1>1. call[c] \in Calls
  BY DEF CallTypes
<1>2. call[c].market \in Market /\ call[c].elapsed \in 0 .. MaxElapsed
  BY <1>1 DEF Calls
<1>3. count \in Nat
  BY DEF CacheTypes
<1>4. Proceed(c, call[c].market, call[c].elapsed, call[c].source, found, count)
  BY DEF Go
<1>5. QED
  BY <1>2, <1>3, <1>4, ProceedTypes

\* A call is at a source, with a market.
LEMMA CallFields ==
    ASSUME CallTypes, NEW c \in Caller, call[c] # None
    PROVE  call[c].market \in Market /\ call[c].found \in BOOLEAN
BY DEF CallTypes, Calls

\* Asking starts a fetch, or changes the counter only.
LEMMA AskTypes ==
    ASSUME ContextTypes, NEW c \in Caller, NEW m \in Market, Ask(c, m)
    PROVE  ContextTypes'
<1>1. PICK fetched \in Nat : fetched = IF window > TTL THEN 0 ELSE count
  BY DEF ContextTypes, CacheTypes
<1>2. CallTypes' /\ CacheTypes'
  <2>1. CASE Exhausted(fetched)
    <3>1. count' = fetched /\ UNCHANGED <<cached, since, hadContext, call>>
      BY <1>1, <2>1 DEF Ask
    <3>2. QED
      BY <3>1 DEF ContextTypes, CallTypes, CacheTypes
  <2>2. CASE ~Exhausted(fetched)
    <3>1. Proceed(c, m, 0, "start", FALSE, fetched)
      BY <1>1, <2>2 DEF Ask
    <3>2. 0 \in 0 .. MaxElapsed
      BY ContextAssumption
    <3>3. QED
      BY <3>1, <3>2, ProceedTypes DEF ContextTypes
  <2>3. QED
    BY <2>1, <2>2
<1>3. ServiceTypes'
  <2>1. window' \in 0 .. TTL + 1
    BY ContextAssumption DEF Ask, ContextTypes, ServiceTypes
  <2>2. UNCHANGED <<blocked, refusals, articles>>
    BY DEF Ask
  <2>3. QED
    BY <2>1, <2>2 DEF ContextTypes, ServiceTypes
<1>4. QED
  BY <1>2, <1>3 DEF ContextTypes

\* An answer of any kind moves one call.
LEMMA AnswerTypes ==
    ASSUME ContextTypes, NEW c \in Caller, NEW found \in BOOLEAN,
           Served(c, found) \/ Refused(c) \/ Failed(c) \/ FeedAnswers(c)
    PROVE  ContextTypes'
<1>1. call[c] # None
  BY DEF Served, Refused, Failed, FeedAnswers
<1>2. call[c].market \in Market /\ call[c].found \in BOOLEAN
  BY <1>1, CallFields DEF ContextTypes
<1>3. CallTypes' /\ CacheTypes'
  <2>1. \E kept \in BOOLEAN : Go(c, kept)
    BY <1>2 DEF Served, Refused, Failed, FeedAnswers
  <2>2. QED
    BY <1>1, <2>1, GoTypes DEF ContextTypes
<1>4. window' = window
  BY DEF Served, Refused, Failed, FeedAnswers, Go
<1>5. CASE Served(c, found)
  <2>1. refusals' = [refusals EXCEPT ![call[c].source] = 0] /\ UNCHANGED <<blocked, articles>>
    BY <1>5 DEF Served
  <2>2. 0 \in 0 .. Enough
    BY ContextAssumption
  <2>3. ServiceTypes'
    BY <1>4, <2>1, <2>2 DEF ContextTypes, ServiceTypes
  <2>4. QED
    BY <1>3, <2>3 DEF ContextTypes
<1>6. CASE Refused(c)
  <2>1. PICK s \in Service : \E n : /\ n = AtMost(refusals[s] + 1, Enough)
                                    /\ refusals' = [refusals EXCEPT ![s] = n]
                                    /\ blocked' = [blocked EXCEPT ![s] = Backoff(s, n)]
                                    /\ UNCHANGED articles
    BY <1>6 DEF Refused
  <2> PICK n : /\ n = AtMost(refusals[s] + 1, Enough)
               /\ refusals' = [refusals EXCEPT ![s] = n]
               /\ blocked' = [blocked EXCEPT ![s] = Backoff(s, n)]
               /\ UNCHANGED articles
    BY <2>1
  <2>2. n \in 1 .. Enough
    BY ContextAssumption DEF AtMost, ContextTypes, ServiceTypes
  <2>3. PICK wait : wait = Backoff(s, n)
    OBVIOUS
  <2>4. wait \in 0 .. Longest[s] /\ Longest[s] \in Nat
    BY <2>2, <2>3, BackoffType, ContextAssumption
  <2>5. blocked' = [blocked EXCEPT ![s] = wait]
    BY <2>3
  <2>6. blocked' \in [Service -> Nat] /\ \A t \in Service : blocked'[t] <= Longest[t]
    BY <2>4, <2>5 DEF ContextTypes, ServiceTypes
  <2>7. refusals' \in [Service -> 0 .. Enough]
    BY <2>2 DEF ContextTypes, ServiceTypes
  <2>8. ServiceTypes'
    BY <1>4, <2>6, <2>7 DEF ContextTypes, ServiceTypes
  <2>9. QED
    BY <1>3, <2>8 DEF ContextTypes
<1>7. CASE Failed(c)
  <2>1. UNCHANGED <<blocked, refusals, articles>>
    BY <1>7 DEF Failed
  <2>2. QED
    BY <1>3, <1>4, <2>1 DEF ContextTypes, ServiceTypes
<1>8. CASE FeedAnswers(c)
  <2>1. articles' = [articles EXCEPT ![call[c].market] = 0] /\ UNCHANGED <<blocked, refusals>>
    BY <1>8 DEF FeedAnswers
  <2>2. 0 \in 0 .. FeedTTL
    BY ContextAssumption
  <2>3. ServiceTypes'
    BY <1>2, <1>4, <2>1, <2>2 DEF ContextTypes, ServiceTypes
  <2>4. QED
    BY <1>3, <2>3 DEF ContextTypes
<1>9. QED
  BY <1>5, <1>6, <1>7, <1>8

\* Time passes for every call, service and cache.
LEMMA TickTypes ==
    ASSUME ContextTypes, Tick
    PROVE  ContextTypes'
<1>1. CallTypes'
  <2>1. call' = [c \in Caller |-> IF call[c] = None THEN None ELSE [call[c] EXCEPT !.elapsed = @ + 1]]
    BY DEF Tick
  <2>2. ASSUME NEW c \in Caller, call[c] # None
        PROVE  /\ call'[c] \in Calls
               /\ call'[c].source = call[c].source /\ call'[c].found = call[c].found
    <3>1. call[c] \in Calls /\ call[c].elapsed < MaxElapsed
      BY <2>2 DEF ContextTypes, CallTypes, Tick
    <3>2. call[c].elapsed + 1 \in 0 .. MaxElapsed
      BY <3>1, ContextAssumption DEF Calls
    <3>3. call'[c] = [call[c] EXCEPT !.elapsed = call[c].elapsed + 1]
      BY <2>1, <2>2
    <3>4. QED
      BY <3>1, <3>2, <3>3 DEF Calls
  <2>3. \A c \in Caller : call[c] = None => call'[c] = None
    BY <2>1
  <2>4. DOMAIN call' = Caller /\ call' = [c \in Caller |-> call'[c]]
    BY <2>1
  <2>5. call' \in [Caller -> Calls \cup {None}]
    BY <2>2, <2>3, <2>4
  <2>6. \A c \in Caller : call'[c] # None => WaitsFor(call'[c])
    BY <2>2, <2>3 DEF ContextTypes, CallTypes, WaitsFor
  <2>7. QED
    BY <2>5, <2>6 DEF CallTypes
<1>2. CacheTypes'
  <2>1. cached' = [m \in Market |-> [cached[m] EXCEPT !.age = Older(@, TTL)]]
    BY DEF Tick
  <2>2. ASSUME NEW m \in Market
        PROVE  [cached[m] EXCEPT !.age = Older(@, TTL)] \in [age : 0 .. TTL, found : BOOLEAN]
    <3>1. PICK age : age = Older(cached[m].age, TTL)
      OBVIOUS
    <3>2. cached[m] \in [age : 0 .. TTL, found : BOOLEAN]
      BY DEF ContextTypes, CacheTypes
    <3>3. TTL \in Nat /\ cached[m].age \in 0 .. TTL
      BY <3>2, ContextAssumption
    <3>4. age \in 0 .. TTL
      BY <3>1, <3>3, OlderType
    <3>5. QED
      BY <3>1, <3>2, <3>4
  <2>3. cached' \in [Market -> [age : 0 .. TTL, found : BOOLEAN]]
    BY <2>1, <2>2
  <2>4. \A m \in Market : Older(since[m], Cooldown) \in 0 .. Cooldown
    BY ContextAssumption, OlderType DEF ContextTypes, CacheTypes
  <2>5. since' \in [Market -> 0 .. Cooldown]
    BY <2>4 DEF Tick
  <2>6. QED
    BY <2>3, <2>5 DEF Tick, ContextTypes, CacheTypes
<1>3. ServiceTypes'
  <2>1. blocked' = [s \in Service |-> IF blocked[s] > 0 THEN blocked[s] - 1 ELSE 0]
    BY DEF Tick
  <2>2. \A s \in Service : /\ blocked[s] \in Nat /\ Longest[s] \in Nat
                           /\ blocked[s] <= Longest[s]
    BY ContextAssumption DEF ContextTypes, ServiceTypes
  <2>3. blocked' \in [Service -> Nat] /\ \A s \in Service : blocked'[s] <= Longest[s]
    BY <2>1, <2>2
  <2>4. \A m \in Market : Older(articles[m], FeedTTL) \in 0 .. FeedTTL
    BY ContextAssumption, OlderType DEF ContextTypes, ServiceTypes
  <2>5. articles' \in [Market -> 0 .. FeedTTL]
    BY <2>4 DEF Tick
  <2>6. TTL + 1 \in Nat /\ window \in 0 .. TTL + 1
    BY ContextAssumption DEF ContextTypes, ServiceTypes
  <2>7. PICK limit \in Nat : limit = TTL + 1
    BY <2>6
  <2>8. Older(window, limit) \in 0 .. limit
    BY <2>6, <2>7, OlderType
  <2>9. window' \in 0 .. TTL + 1
    BY <2>7, <2>8 DEF Tick
  <2>10. QED
    BY <2>3, <2>5, <2>9 DEF Tick, ContextTypes, ServiceTypes
<1>4. QED
  BY <1>1, <1>2, <1>3 DEF ContextTypes

\* A process starts with empty caches.
LEMMA ContextTypesInit == Init => ContextTypes
<1> SUFFICES ASSUME Init PROVE ContextTypes
  OBVIOUS
<1>2. \E up \in Nat : since = [m \in Market |-> AtMost(up, Cooldown)] /\ window = AtMost(up, TTL + 1)
  BY ContextAssumption DEF Init
<1>3. PICK up \in Nat : since = [m \in Market |-> AtMost(up, Cooldown)] /\ window = AtMost(up, TTL + 1)
  BY <1>2
<1>4. AtMost(up, Cooldown) \in 0 .. Cooldown /\ AtMost(up, TTL + 1) \in 0 .. TTL + 1
  BY ContextAssumption DEF AtMost
<1>5. CallTypes
  BY DEF Init, CallTypes
<1>6. CacheTypes
  <2>1. TTL \in 0 .. TTL
    BY ContextAssumption
  <2>2. QED
    BY <1>3, <1>4, <2>1 DEF Init, CacheTypes
<1>7. ServiceTypes
  <2>1. 0 \in 0 .. Enough /\ FeedTTL \in 0 .. FeedTTL /\ \A s \in Service : 0 <= Longest[s]
    BY ContextAssumption
  <2>2. QED
    BY <1>3, <1>4, <2>1 DEF Init, ServiceTypes
<1>8. QED
  BY <1>5, <1>6, <1>7 DEF ContextTypes

\* A step keeps the types.
LEMMA ContextTypesNext == ContextTypes /\ [Next]_vars => ContextTypes'
<1>1. SUFFICES ASSUME ContextTypes, [Next]_vars PROVE ContextTypes'
  OBVIOUS
<1>2. ASSUME NEW c \in Caller, NEW m \in Market, Ask(c, m) PROVE ContextTypes'
  BY <1>1, <1>2, AskTypes
<1>3. ASSUME NEW c \in Caller, NEW found \in BOOLEAN,
             Served(c, found) \/ Refused(c) \/ Failed(c) \/ FeedAnswers(c)
      PROVE  ContextTypes'
  BY <1>1, <1>3, AnswerTypes
<1>4. CASE Tick
  BY <1>1, <1>4, TickTypes
<1>5. CASE UNCHANGED vars
  BY <1>1, <1>5 DEF vars, ContextTypes, CallTypes, CacheTypes, ServiceTypes
<1>6. QED
  BY <1>1, <1>2, <1>3, <1>4, <1>5 DEF Next

\* Every variable of the fetcher has its type.  No back-off is longer than the
\* longest, as AtMost in Backoff has it; a call never waits for a service without
\* a key, nor for the feed after a service found something.
THEOREM ContextTypeCorrect == Spec => []TypeOK
<1>1. Init => ContextTypes
  BY ContextTypesInit
<1>2. ContextTypes /\ [Next]_vars => ContextTypes'
  BY ContextTypesNext
<1>3. QED
  BY <1>1, <1>2, ContextTypesImply, PTL DEF Spec
=============================================================================
