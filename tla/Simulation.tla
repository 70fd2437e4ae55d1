----------------------------- MODULE Simulation -----------------------------
(***************************************************************************)
(* The paper-trading loop (scripts/run_simulation.py): one iteration scans *)
(* the markets, runs each through signal, risk check and execution, reports *)
(* the cash to the risk controller, settles closed markets and closes a    *)
(* position at its take-profit or stop-loss.  The risk controller is module *)
(* RiskController and the executor module PaperExecutor; a second process, *)
(* `pglm killswitch`, shares the kill-switch file with the loop.           *)
(*                                                                         *)
(* The loop never files a market under a category, never records a loss or *)
(* a trade time, and never exports or saves a state: those variables of    *)
(* the components keep their first value.                                  *)
(*                                                                         *)
(* One tick is the interval between two scans.                             *)
(***************************************************************************)
EXTENDS Integers, Totals

CONSTANTS
    Market,              \* the markets a scan may return
    None,
    MaxTotal, MaxMarket, MaxTrade, DailyLossLimit, DrawdownPct, PositionPct,
    Cooldown, ArmPeriod, MinObs,
    InitialBalance,      \* paper_balance_usd
    FeePct,              \* the fee of the executor, in percent
    Dollar,              \* what a winning share pays, in units of price
    EntryPrices, Shares, \* the orders signals may ask for
    Quotes,              \* the prices a scan may report for a held outcome
    MaxTrades            \* bound on the length of the trade history

ASSUME SimulationAssumption ==
    /\ IsFiniteSet(Market) /\ None \notin Nat
    /\ MaxTotal \in Nat /\ MaxMarket \in Nat /\ MaxTrade \in Nat
    /\ DailyLossLimit \in Nat /\ DrawdownPct \in 1 .. 99 /\ PositionPct \in 1 .. 99
    /\ Cooldown \in Nat \ {0} /\ ArmPeriod \in Nat /\ MinObs \in Nat \ {0}
    /\ InitialBalance \in Nat /\ FeePct \in 0 .. 100 /\ Dollar \in Nat
    /\ EntryPrices \subseteq Nat /\ Quotes \subseteq Nat /\ Shares \subseteq Nat \ {0}

VARIABLES
    up, killActive, killAge, killReason, file, peak, obs, breaches, exposure,
    category, categoryExposure, dailyLoss, tradeAge, verdict, saved,
    initial, balance, size, cost, fees, realized, trades, unbacked, disk,
    pc,                  \* where _run_iteration is
    seen, closed,        \* the markets of this scan, and those reported closed
    todo,                \* the markets still to be processed
    entered,             \* positions opened in this iteration
    order,               \* which markets are in the executor's _positions, and which came first
    settledMarkets,      \* SettlementTracker._settled_markets
    settledProfit        \* history: what settlements paid above cost

Outcome == {"Yes", "No"}
Key == Market \X Outcome

Risk == INSTANCE RiskController WITH
            Category <- {}, MaxCategory <- 0, TradeCooldown <- 0,
            Amounts <- {}, Balances <- {}, Recategorise <- FALSE

Paper == INSTANCE PaperExecutor WITH
            Prices <- EntryPrices \cup Quotes, Sizes <- Shares,
            InitialBalances <- {InitialBalance},
            NoFile <- None, TornFile <- None, MaxSaved <- 0, MaxUnbacked <- 0

riskVars == <<killActive, killAge, killReason, file, peak, obs, breaches, exposure,
              category, categoryExposure, dailyLoss, tradeAge, verdict, saved>>
bookVars == <<initial, balance, size, cost, fees, realized, trades, unbacked, disk>>
scanVars == <<seen, closed, todo, entered>>
settleVars == <<settledMarkets, settledProfit>>
vars == <<up, riskVars, bookVars, pc, scanVars, order, settleVars>>

-----------------------------------------------------------------------------
(* Positions.                                                              *)

Held(k) == size[k] > 0
HeldIn(m) == {k \in {m} \X Outcome : Held(k)}

\* A dict keeps its keys in the order of insertion: <<l, m>> is in order when l and m
\* are keys of _positions, and l is m or was inserted before it.
Listed == {m \in Market : <<m, m>> \in order}

\* The key of m in _positions stays when a position is sold.
Inserted(m) == IF m \in Listed THEN order ELSE order \cup {<<l, m>> : l \in Listed \cup {m}}

\* account.positions lists the positions in the order of _positions.
LastHeld(k) ==
    /\ Held(k) /\ k[1] \in Listed
    /\ \A m \in Listed \ {k[1]} : <<k[1], m>> \in order => HeldIn(m) = {}

-----------------------------------------------------------------------------
(* One iteration.                                                          *)

\* fetch_markets.  Without markets, or after an error, the iteration is over.
Scan(markets, resolved) ==
    /\ up /\ pc = "scan"
    /\ IF markets = {}
       THEN /\ pc' = "wait"
            /\ UNCHANGED scanVars
       ELSE /\ pc' = "markets"
            /\ seen' = markets
            /\ closed' = resolved
            /\ todo' = markets
            /\ entered' = {}
    /\ UNCHANGED <<up, riskVars, bookVars, order, settleVars>>

Processing(m) == up /\ pc = "markets" /\ m \in todo

\* Faulty: a market with an open position is not skipped.
MaySignal_Always(m) == TRUE

\* generate_signal: none for a market with an open position.
MaySignal(m) == \A o \in Outcome : ~Held(<<m, o>>)

\* No token, no order book, no edge, or a position is open already.
Hold(m) ==
    /\ Processing(m)
    /\ todo' = todo \ {m}
    /\ UNCHANGED <<up, riskVars, bookVars, pc, seen, closed, entered, order, settleVars>>

\* The risk controller refuses the trade of usd dollars.
Refused(m, usd) ==
    \/ Risk!CheckBlocked
    \/ Risk!CheckBreach(usd, balance)
    \/ \E gate \in BOOLEAN : Risk!CheckDenied(m, usd, balance, gate)

Refuse(m, price, n) ==
    /\ Processing(m)
    /\ MaySignal(m)
    /\ Refused(m, price * n)
    /\ todo' = todo \ {m}
    /\ UNCHANGED <<bookVars, pc, seen, closed, entered, order, settleVars>>

\* Faulty: the fill is not reported to the risk controller.
Enter_Unrecorded(m, o, price, n) ==
    /\ Processing(m)
    /\ MaySignal(m)
    /\ Risk!CheckAllowed(m, price * n, balance, TRUE, 0)
    /\ Paper!Buy(<<m, o>>, price, n, TRUE)
    /\ todo' = todo \ {m}
    /\ entered' = entered \cup {<<m, o>>}
    /\ order' = Inserted(m)
    /\ UNCHANGED <<pc, seen, closed, settleVars>>

\* The trade is allowed, its order filled and the fill recorded, in one step of
\* the event loop: the paper executor answers without suspending.
Enter(m, o, price, n) ==
    /\ Processing(m)
    /\ MaySignal(m)
    /\ Risk!CheckAllowed(m, price * n, balance, TRUE, price * n)
    /\ Paper!Buy(<<m, o>>, price, n, TRUE)
    /\ todo' = todo \ {m}
    /\ entered' = entered \cup {<<m, o>>}
    /\ order' = Inserted(m)
    /\ UNCHANGED <<pc, seen, closed, settleVars>>

\* The trade is allowed but the executor refuses the order, or orders are
\* disabled (safe mode).
EnterNot(m, price, n) ==
    /\ Processing(m)
    /\ MaySignal(m)
    /\ Risk!CheckAllowed(m, price * n, balance, TRUE, 0)
    /\ todo' = todo \ {m}
    /\ UNCHANGED <<bookVars, pc, seen, closed, entered, order, settleVars>>

\* The cash, not the equity, is what the drawdown is computed from.
ReportBalance ==
    /\ pc = "markets" /\ todo = {}
    /\ Risk!UpdateBalance(balance)
    /\ pc' = "settle"
    /\ UNCHANGED <<bookVars, scanVars, order, settleVars>>

\* The positions check_settlements() settles.  The first outcome of a closed
\* market is taken for the winner; a market settled before is skipped.
ToSettle == {k \in (closed \ settledMarkets) \X Outcome : Held(k)}

\* What settled positions pay: a dollar for each share of the winner.
Payout(S) == Dollar * TotalOver(size, {k \in S : k[2] = "Yes"})

\* Faulty: a settled position stays in the book.
Removed_Kept(f, S) == f

Removed(f, S) == [k \in Key |-> IF k \in S THEN 0 ELSE f[k]]

\* The proceeds go to the balance and the position is deleted, but no profit is
\* recorded in the executor and the risk controller is not told.
Settle ==
    /\ up /\ pc = "settle"
    /\ LET S == ToSettle
           settledNow == {k[1] : k \in S}
       IN  /\ balance' = balance + Payout(S)
           /\ size' = Removed(size, S)
           /\ cost' = Removed(cost, S)
           /\ order' = {p \in order : p[1] \notin settledNow /\ p[2] \notin settledNow}
           /\ settledMarkets' = settledMarkets \cup settledNow
           /\ settledProfit' = settledProfit + Payout(S) - TotalOver(cost, S)
    /\ pc' = "manage"
    /\ UNCHANGED <<up, riskVars, initial, fees, realized, trades, unbacked, disk,
                   scanVars>>

\* PositionManager.should_close at a take-profit and a stop-loss of 50%.
ShouldClose(k, quote) ==
    /\ k \notin entered
    /\ LET gain == quote * size[k] - cost[k]
       IN  2 * gain >= cost[k] \/ -2 * gain >= cost[k]

\* The position manager.  The order is placed after the loop over the positions
\* and not in it, so it is for the last position and on the last quote.
ClosesLast(k, quote) ==
    /\ LastHeld(k)
    /\ k[1] \in seen
    /\ ShouldClose(k, quote)

Close(k, quote) ==
    /\ pc = "manage"
    /\ ClosesLast(k, quote)
    /\ Paper!Sell(k, quote, size[k])
    /\ pc' = "wait"
    /\ UNCHANGED <<riskVars, scanVars, order, settleVars>>

\* No position, none to be closed, or no quote for the last one: then the loop
\* variable may be unbound, and the exception ends the iteration.
CloseNot ==
    /\ up /\ pc = "manage"
    /\ pc' = "wait"
    /\ UNCHANGED <<up, riskVars, bookVars, scanVars, order, settleVars>>

\* The loop sleeps for the scan interval.
Wait ==
    /\ up => pc = "wait"
    /\ Risk!Tick
    /\ pc' = "scan"
    /\ UNCHANGED <<bookVars, scanVars, order, settleVars>>

Iteration ==
    \/ \E markets \in SUBSET Market : \E resolved \in SUBSET markets :
          Scan(markets, resolved)
    \/ \E m \in Market : Hold(m)
    \/ \E m \in Market, price \in EntryPrices, n \in Shares :
          \/ Refuse(m, price, n)
          \/ \E o \in Outcome : Enter(m, o, price, n)
          \/ EnterNot(m, price, n)
    \/ ReportBalance
    \/ Settle
    \/ \E k \in Key, quote \in Quotes : Close(k, quote)
    \/ CloseNot
    \/ Wait

-----------------------------------------------------------------------------
(* The processes.                                                          *)

\* The process dies at any await; executor and tracker are not persisted.
Crash ==
    /\ Risk!Crash
    /\ Paper!Crash
    /\ pc' = "scan"
    /\ seen' = {} /\ closed' = {} /\ todo' = {} /\ entered' = {}
    /\ order' = {}
    /\ settledMarkets' = {}
    /\ settledProfit' = 0

Start ==
    /\ Risk!Start(TRUE, FALSE)
    /\ Paper!Start(InitialBalance)
    /\ UNCHANGED <<pc, scanVars, order, settleVars>>

\* `pglm killswitch` and its --deactivate run in a process and a controller of
\* their own; what the loop has in common with them is the file.
OtherProcess ==
    /\ file' \in Risk!Persisted(file) \cup Risk!Cleared(file)
    /\ UNCHANGED <<up, killActive, killAge, killReason, peak, obs, breaches,
                   exposure, category, categoryExposure, dailyLoss, tradeAge, verdict,
                   saved, bookVars, pc, scanVars, order, settleVars>>

-----------------------------------------------------------------------------

Init ==
    /\ Risk!Init
    /\ Paper!Init
    /\ pc = "scan"
    /\ seen = {} /\ closed = {} /\ todo = {} /\ entered = {}
    /\ order = {}
    /\ settledMarkets = {}
    /\ settledProfit = 0

Next == Iteration \/ Crash \/ Start \/ OtherProcess

Spec == Init /\ [][Next]_vars

\* The event loop runs the iteration whenever it can take its next step.
FairSpec == Spec /\ WF_vars(Iteration)

-----------------------------------------------------------------------------
(* Properties.                                                             *)

\* The markets in _positions are in one order, and those of the positions are among
\* them.
OrderOK ==
    /\ \A k \in Key : Held(k) => k[1] \in Listed
    /\ order \subseteq Listed \X Listed
    /\ \A l, m \in Listed :
         /\ <<l, m>> \in order \/ <<m, l>> \in order
         /\ <<l, m>> \in order /\ <<m, l>> \in order => l = m
    /\ \A l, m, n \in Listed : <<l, m>> \in order /\ <<m, n>> \in order => <<l, n>> \in order

\* Every variable has its type, those of the two components among them.
TypeOK ==
    /\ Risk!TypeOK
    /\ Paper!TypeOK
    /\ pc \in {"scan", "markets", "settle", "manage", "wait"}
    /\ seen \subseteq Market /\ closed \subseteq seen /\ todo \subseteq seen
    /\ entered \subseteq Key
    /\ OrderOK
    /\ settledMarkets \subseteq Market
    /\ settledProfit \in Int

\* Capital tied up in positions never exceeds the limits on exposure: in a
\* market, and over all markets.  The controller only counts fills, and the
\* executor only knows positions.
DeployedWithinLimits ==
    /\ Total(cost) <= MaxTotal
    /\ \A m \in Market : TotalOver(cost, {m} \X Outcome) <= MaxMarket

\* The loop never holds both outcomes of a market.
OneOutcomePerMarket ==
    \A m \in Market : \A k, l \in HeldIn(m) : k = l

\* The loop never sells what it does not hold, so the book is off from what
\* reconcile_portfolio() expects by exactly what settlements paid.
BookExplained ==
    balance + Total(cost) = initial + realized - fees + settledProfit

\* While cash stays out of the drawdown, a kill switch stops blocking in time,
\* whoever engaged it and whatever other processes do to its file.
OutOfDrawdown == ~Risk!InDrawdown(Risk!PeakAfter(balance), balance)
SwitchReleasedOutOfDrawdown == <>[]OutOfDrawdown => []<>~Risk!Blocked

=============================================================================
