------------------------------ MODULE Positions ------------------------------
(***************************************************************************)
(* Managed positions: the signal controller (execution/signal_controller.py) *)
(* decides which signals become positions, the position executor           *)
(* (execution/position_executor.py) opens them with orders to the paper    *)
(* executor, checks them against their barriers (execution/barriers.py) and *)
(* closes them.  The paper executor is module PaperExecutor.               *)
(*                                                                         *)
(* All prices are those of "Yes", also in the orders for "No": the code    *)
(* does so.  They are counted in units of which One is a dollar.           *)
(*                                                                         *)
(* The time limit is left out: nothing gives a position the end date of    *)
(* its market, without which the limit is never looked at.                 *)
(***************************************************************************)
EXTENDS Integers, Sequences, FiniteSets

CONSTANTS
    Market, None,
    One,                 \* what a share pays at most, in units of price
    Prices,              \* the prices of markets
    EntryPrices, Shares, \* the prices and sizes of signals
    Configs,             \* the barrier configurations of new positions
    SignalLimit,         \* max_open_positions of the signal controller
    OpenLimits,          \* what max_open_positions of the executor may be
    SignalCooldown,      \* market_cooldown_sec, in ticks
    InitialBalance, FeePct,
    MaxTrades            \* bound on the length of the trade history

Optional(S) == S \cup {None}

\* TripleBarrierConfig.  The percentages are of the price paid.
Barriers ==
    [stop : Optional(Nat), take : Optional(Nat),
     trail : Optional([activation : Nat, delta : Nat])]

ASSUME PriceAssumption ==
    /\ One \in Nat /\ Prices \subseteq 1 .. One - 1
    /\ EntryPrices \subseteq Prices
    /\ Shares \subseteq Nat \ {0}
ASSUME ConfigAssumption == Configs \subseteq Barriers
ASSUME LimitAssumption ==
    OpenLimits \subseteq Nat /\ SignalLimit \in Nat /\ SignalCooldown \in Nat
ASSUME AccountAssumption ==
    /\ IsFiniteSet(Market)
    /\ InitialBalance \in Nat /\ FeePct \in 0 .. 100
ASSUME NoneAssumption == None \notin Nat /\ None \notin [activation : Nat, delta : Nat]

VARIABLES
    up, initial, balance, size, cost, fees, realized, trades, unbacked, disk,
    openLimit,           \* the executor's max_open_positions
    managed,             \* the open positions in _positions, in the dictionary's order
    pnl,                 \* _total_pnl
    signalAge,           \* the age of last_signal_time of each market
    quotes,              \* the prices given to check_barriers
    cursor               \* the position check_barriers is at, 0 when it is not running

Outcome == {"Yes", "No"}
Key == Market \X Outcome

Paper == INSTANCE PaperExecutor WITH
            Sizes <- Shares,
            InitialBalances <- {InitialBalance},
            NoFile <- None, TornFile <- None, MaxSaved <- 0, MaxUnbacked <- 0

bookVars == <<up, initial, balance, size, cost, fees, realized, trades, unbacked, disk>>
vars == <<bookVars, openLimit, managed, pnl, signalAge, quotes, cursor>>

-----------------------------------------------------------------------------
(* A position and its barriers.                                            *)

\* ManagedPosition with its metrics.  "shares" is the size of its fill, 0 when
\* the order was refused.
Position(m, o, price, n, config) ==
    [market |-> m, outcome |-> o, entry |-> price, price |-> price, peak |-> price,
     shares |-> n, config |-> config, trailing |-> FALSE]

KeyOf(p) == <<p.market, p.outcome>>

\* What a position gains at a price, and what that is a percentage of.
Gain(p, price) == IF p.outcome = "Yes" THEN price - p.entry ELSE p.entry - price
Base(p) == IF p.outcome = "Yes" THEN p.entry ELSE One - p.entry

\* Faulty: the peak follows the price down.
PeakAfter_Follows(p, price) == price

\* update_price.  The peak is the highest price for "No", too.
PeakAfter(p, price) == IF price > p.peak THEN price ELSE p.peak

\* The trailing stop is on once the peak has reached the activation.
Activated(p) ==
    /\ p.config.trail # None
    /\ p.trailing \/ 100 * Gain(p, p.peak) >= p.config.trail.activation * Base(p)

StopHit(p) ==
    /\ p.config.stop # None
    /\ 100 * Gain(p, p.price) <= -p.config.stop * Base(p)

TakeHit(p) ==
    /\ p.config.take # None
    /\ 100 * Gain(p, p.price) >= p.config.take * Base(p)

TrailHit(p) ==
    /\ Activated(p)
    /\ 100 * (Gain(p, p.peak) - Gain(p, p.price)) >= p.config.trail.delta * Base(p)

\* check_barriers() of barriers.py.
ShouldClose(p) == StopHit(p) \/ TakeHit(p) \/ TrailHit(p)

\* The position with a new price.
Priced(p, price) == [p EXCEPT !.price = price, !.peak = PeakAfter(p, price)]

\* The activation is only looked at when neither the stop loss nor the take
\* profit has been hit.
Checked(p, price) ==
    LET now == Priced(p, price)
    IN  IF StopHit(now) \/ TakeHit(now)
        THEN now
        ELSE [now EXCEPT !.trailing = Activated(now) \/ @]

-----------------------------------------------------------------------------
(* Signals: process_market, execute_signal and open_position.              *)

\* Faulty: open positions are not looked for.
HasOpen_Unseen(m) == FALSE

HasOpen(m) == \E i \in DOMAIN managed : managed[i].market = m

\* Faulty: one position too many.
Full_OneMore == Len(managed) > openLimit

Full == Len(managed) >= openLimit

\* process_market returns a signal, and the cooldown of the market starts.
Signal(m) ==
    /\ up /\ cursor = 0
    /\ ~HasOpen(m)
    /\ signalAge[m] >= SignalCooldown
    /\ Len(managed) < SignalLimit
    /\ signalAge' = [signalAge EXCEPT ![m] = 0]

\* open_position: the executor has a limit of its own and returns no position.
SignalDropped(m) ==
    /\ Signal(m)
    /\ Full
    /\ UNCHANGED <<bookVars, openLimit, managed, pnl, quotes, cursor>>

\* The bound on the history leaves room to close what is open.
RoomToClose == Len(trades) + 1 + Len(managed) < MaxTrades

OpenFilled(m, o, price, n, config) ==
    /\ Signal(m)
    /\ ~Full
    /\ RoomToClose
    /\ Paper!Buy(<<m, o>>, price, n, TRUE)
    /\ managed' = Append(managed, Position(m, o, price, n, config))
    /\ UNCHANGED <<openLimit, pnl, quotes, cursor>>

\* The order is refused: the position is managed all the same.
OpenRefused(m, o, price, n, config) ==
    /\ Signal(m)
    /\ ~Full
    /\ Paper!BuyRefused(<<m, o>>, price, n, TRUE)
    /\ managed' = Append(managed, Position(m, o, price, 0, config))
    /\ UNCHANGED <<openLimit, pnl, quotes, cursor>>

-----------------------------------------------------------------------------
(* close_position.  A closed position stays in the dictionary, where every *)
(* operation skips it.                                                     *)

Without(i) == SubSeq(managed, 1, i - 1) \o SubSeq(managed, i + 1, Len(managed))

\* Faulty: one share is sold, or the profit is that of one share.
SharesToSell_One(p) == 1
ProfitAt_PerShare(p, price) == price - p.entry

SharesToSell(p) == p.shares

\* The profit of "No" is computed as that of "Yes".
ProfitAt(p, price) == (price - p.entry) * p.shares

\* The i-th position, which has shares, is sold at a price.  Its shares are in
\* the book (SharesBacked), so the order is filled.
Sold(i, price) ==
    /\ managed[i].shares > 0
    /\ Paper!Sell(KeyOf(managed[i]), price, SharesToSell(managed[i]))
    /\ pnl' = pnl + ProfitAt(managed[i], price)
    /\ managed' = Without(i)

\* close_position called with an identifier.  For a position without shares
\* the order has size 0, which OrderRequest rejects with an exception, and
\* nothing changes.
ClosePosition(i) ==
    /\ cursor = 0
    /\ Sold(i, managed[i].price)
    /\ UNCHANGED <<openLimit, signalAge, quotes, cursor>>

-----------------------------------------------------------------------------
(* check_barriers: one pass over the positions.  The code does not suspend *)
(* in it; the pass is divided into steps because each sells on the book    *)
(* the one before left.                                                    *)

\* The prices of markets without an open position are not looked at.
NoQuotes == [m \in Market |-> None]
Returned == cursor' = 0 /\ quotes' = NoQuotes

CheckBegins(q) ==
    /\ up /\ cursor = 0
    /\ managed # << >>
    /\ \A m \in Market : ~HasOpen(m) => q[m] = None
    /\ quotes' = q
    /\ cursor' = 1
    /\ UNCHANGED <<bookVars, openLimit, managed, pnl, signalAge>>

Current == managed[cursor]
Quote == quotes[Current.market]

\* A position is being checked, and there is a price for it.
Checking == cursor \in DOMAIN managed /\ Quote # None

\* No price for this market.
CheckSkips ==
    /\ cursor \in DOMAIN managed
    /\ Quote = None
    /\ cursor' = cursor + 1
    /\ UNCHANGED <<bookVars, openLimit, managed, pnl, signalAge, quotes>>

CheckKeeps ==
    /\ Checking
    /\ ~ShouldClose(Priced(Current, Quote))
    /\ managed' = [managed EXCEPT ![cursor] = Checked(@, Quote)]
    /\ cursor' = cursor + 1
    /\ UNCHANGED <<bookVars, openLimit, pnl, signalAge, quotes>>

\* Faulty: after a position was closed the next one is passed over.
CursorAfterClose_PassesOver == cursor + 1

\* The pass is over a copy of the dictionary: the next position is the one
\* that took the place of the closed one.
CursorAfterClose == cursor

CheckCloses ==
    /\ Checking
    /\ ShouldClose(Priced(Current, Quote))
    /\ Sold(cursor, Quote)
    /\ cursor' = CursorAfterClose
    /\ UNCHANGED <<openLimit, signalAge, quotes>>

\* A position without shares cannot be closed: the exception of OrderRequest
\* ends the pass for all positions behind it.
CheckRaises ==
    /\ Checking
    /\ ShouldClose(Priced(Current, Quote))
    /\ Current.shares = 0
    /\ managed' = [managed EXCEPT ![cursor] = Checked(@, Quote)]
    /\ Returned
    /\ UNCHANGED <<bookVars, openLimit, pnl, signalAge>>

CheckEnds ==
    /\ cursor > Len(managed)
    /\ Returned
    /\ UNCHANGED <<bookVars, openLimit, managed, pnl, signalAge>>

-----------------------------------------------------------------------------

\* The objects are constructed; nothing of them outlives the process.
Start ==
    /\ Paper!Start(InitialBalance)
    /\ openLimit' \in OpenLimits
    /\ UNCHANGED <<managed, pnl, signalAge, quotes, cursor>>

Older(age) == IF age < SignalCooldown THEN age + 1 ELSE SignalCooldown

Tick ==
    /\ cursor = 0
    /\ signalAge' = [m \in Market |-> Older(signalAge[m])]
    /\ UNCHANGED <<bookVars, openLimit, managed, pnl, quotes, cursor>>

Init ==
    /\ Paper!Init
    /\ openLimit = 0
    /\ managed = << >>
    /\ pnl = 0
    /\ signalAge = [m \in Market |-> SignalCooldown]
    /\ quotes = NoQuotes
    /\ cursor = 0

Next ==
    \/ Start
    \/ \E m \in Market :
          \/ SignalDropped(m)
          \/ \E o \in Outcome, price \in EntryPrices, n \in Shares, config \in Configs :
                OpenFilled(m, o, price, n, config) \/ OpenRefused(m, o, price, n, config)
    \/ \E i \in DOMAIN managed : ClosePosition(i)
    \/ \E q \in [Market -> Optional(Prices)] : CheckBegins(q)
    \/ CheckSkips \/ CheckKeeps \/ CheckCloses \/ CheckRaises \/ CheckEnds
    \/ Tick

Spec == Init /\ [][Next]_vars

-----------------------------------------------------------------------------
(* Properties.                                                             *)

PositionType ==
    [market : Market, outcome : Outcome, entry : Prices, price : Prices, peak : Prices,
     shares : Shares \cup {0}, config : Configs, trailing : BOOLEAN]

TypeOK ==
    /\ Paper!TypeOK
    /\ openLimit \in OpenLimits \cup {0}
    /\ managed \in Seq(PositionType) /\ Len(managed) <= openLimit
    /\ pnl \in Int
    /\ signalAge \in [Market -> 0 .. SignalCooldown]
    /\ quotes \in [Market -> Optional(Prices)]
    /\ cursor \in 0 .. Len(managed) + 1

\* A market has one open position at most, over both outcomes.
OneOpenPerMarket ==
    \A i, j \in DOMAIN managed : managed[i].market = managed[j].market => i = j

\* The positions of the paper executor and those that are managed, which
\* neither of them compares, agree: every share in the book belongs to an open
\* position and every open position that was filled finds its shares there.
SharesBacked ==
    /\ \A i \in DOMAIN managed : size[KeyOf(managed[i])] = managed[i].shares
    /\ \A k \in Key : size[k] > 0 => \E i \in DOMAIN managed : KeyOf(managed[i]) = k

\* The profit that close_position adds up is the one the paper executor
\* realized with the orders.
PnlMatchesBook == pnl = realized

\* Once the trailing stop of a filled Yes position is on, the position is sold before
\* it has lost its gain: whatever prices the passes see, one that is still open has
\* gained more than the activation less the delta.
TrailingLocksGain ==
    \A i \in DOMAIN managed :
        LET p == managed[i]
        IN  p.outcome = "Yes" /\ p.shares > 0 /\ p.trailing =>
                100 * Gain(p, p.price) > (p.config.trail.activation - p.config.trail.delta) * Base(p)

\* The peak is the "Best price seen since entry" (position_executor.py:37), "Highest
\* (for BUY YES) or lowest (for BUY NO)" (barriers.py:142): a position has never
\* gained more than at its peak.
PeakIsBest ==
    \A i \in DOMAIN managed :
        Gain(managed[i], managed[i].peak) >= Gain(managed[i], managed[i].price)

\* A pass of check_barriers ends.
PassEnds == cursor # 0 /\ cursor' = 0

\* Every position with shares that is open after a pass, and for which there was
\* a price, is within its barriers at that price.
StillOpenWithinBarriers ==
    \A i \in DOMAIN managed' :
        LET p == managed'[i]
            q == quotes[p.market]
        IN  p.shares > 0 /\ q # None => ~ShouldClose(Priced(p, q))

\* A pass closes every position whose barrier was hit, as long as every order
\* that opened a position was filled.
AllFilled == \A i \in DOMAIN managed : managed[i].shares > 0
BarriersEnforced == [][ PassEnds /\ AllFilled => StillOpenWithinBarriers ]_vars

=============================================================================
