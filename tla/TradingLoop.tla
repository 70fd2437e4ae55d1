---------------------------- MODULE TradingLoop ----------------------------
(***************************************************************************)
(* The library's loop (engine/trading_loop.py) and the Engine it drives    *)
(* (engine/__init__.py): each iteration scans the markets and hands every  *)
(* signal to process_signal_sync, which asks the risk controller, submits  *)
(* the order to the paper executor and records the fill.  The risk         *)
(* controller is module RiskController, the executor PaperExecutor.        *)
(*                                                                         *)
(* Compared with the simulation loop (module Simulation) the Engine checks *)
(* without a balance, so there is no drawdown check; it reports a fill     *)
(* with its fee; and it places a SELL signal as a SELL of the other        *)
(* outcome, although the signal means to buy it.                           *)
(*                                                                         *)
(* The database and the alerts change nothing the loop reads.              *)
(***************************************************************************)
EXTENDS Integers, Sequences, Totals

CONSTANTS
    Market,              \* the markets a scan may return
    None,
    MaxTotal, MaxMarket, MaxTrade, PositionPct, Cooldown,
    InitialBalance,      \* paper_balance_usd
    FeePct,              \* the fee of the executor, in percent
    Quotes, Shares,      \* the prices and sizes of signals
    Limits,              \* the values of max_iterations, 0 for no limit
    MaxTrades,           \* bound on the length of the trade history
    MaxUnbacked          \* bound on the money credited for shares not held

ASSUME LoopAssumption ==
    /\ IsFiniteSet(Market) /\ None \notin Nat
    /\ MaxTotal \in Nat /\ MaxMarket \in Nat /\ MaxTrade \in Nat
    /\ PositionPct \in 1 .. 99 /\ Cooldown \in Nat \ {0}
    /\ InitialBalance \in Nat /\ FeePct \in 0 .. 100
    /\ Quotes \subseteq Nat /\ Shares \subseteq Nat \ {0}
    /\ Limits \subseteq Nat

VARIABLES
    up, killActive, killAge, killReason, file, peak, obs, breaches, exposure,
    category, categoryExposure, dailyLoss, tradeAge, verdict, saved,
    initial, balance, size, cost, fees, realized, trades, unbacked, disk,
    pc,                  \* where run() is: "none" before and after it
    state,               \* _state
    stopEvent,           \* _stop_event
    limit,               \* _max_iterations
    iterations,          \* _iteration_count, counted as far as there is a limit
    todo                 \* the markets still to be processed

Outcome == {"Yes", "No"}
Key == Market \X Outcome

Risk == INSTANCE RiskController WITH
            Category <- {}, MaxCategory <- 0, TradeCooldown <- 0,
            DailyLossLimit <- 1, DrawdownPct <- 50, ArmPeriod <- 0, MinObs <- 1,
            Amounts <- {}, Balances <- {}, Recategorise <- FALSE

Paper == INSTANCE PaperExecutor WITH
            Prices <- Quotes, Sizes <- Shares,
            InitialBalances <- {InitialBalance},
            NoFile <- None, TornFile <- None, MaxSaved <- 0

riskVars == <<killActive, killAge, killReason, file, peak, obs, breaches, exposure,
              category, categoryExposure, dailyLoss, tradeAge, verdict, saved>>
bookVars == <<initial, balance, size, cost, fees, realized, trades, unbacked, disk>>
loopVars == <<pc, state, stopEvent, limit, iterations, todo>>
vars == <<up, riskVars, bookVars, loopVars>>

-----------------------------------------------------------------------------
(* Engine.process_signal_sync, called for a signal in the market m.        *)

\* The risk controller refuses: nothing is ordered.
Blocked(m, price, n) ==
    /\ \/ Risk!CheckBlocked
       \/ Risk!CheckDenied(m, price * n, None, TRUE)
    /\ UNCHANGED bookVars

\* What the Engine passes to record_fill.  Faulty: the amount that was checked,
\* or nothing at all.
Reported_Checked(price, n) == price * n
Reported_Nothing(price, n) == 0
Reported(price, n) == price * n + Paper!Fee(price, n)

BuyFilled(m, price, n) ==
    /\ Risk!CheckAllowed(m, price * n, None, TRUE, Reported(price, n))
    /\ Paper!Buy(<<m, "Yes">>, price, n, TRUE)

BuyRefused(m, price, n) ==
    /\ Risk!CheckAllowed(m, price * n, None, TRUE, 0)
    /\ Paper!BuyRefused(<<m, "Yes">>, price, n, TRUE)

\* No BUY ever opens a position in "No", so there is none to sell.
SellRefused(m, price, n) ==
    /\ Risk!CheckAllowed(m, price * n, None, TRUE, 0)
    /\ Paper!SellNothing(<<m, "No">>, price, n)

ProcessSignal(m, price, n) ==
    \/ Blocked(m, price, n)
    \/ BuyFilled(m, price, n)
    \/ BuyRefused(m, price, n)
    \/ SellRefused(m, price, n)

-----------------------------------------------------------------------------
(* TradingLoop.run.                                                        *)

\* The caller creates a task; it starts at the event loop's leisure.
Create ==
    /\ up /\ pc = "none"
    /\ pc' = "created"
    /\ UNCHANGED <<up, riskVars, bookVars, state, stopEvent, limit, iterations, todo>>

\* run() clears the event, and with it a stop that was requested before.
Run ==
    /\ pc = "created"
    /\ pc' = "top"
    /\ state' = "running"
    /\ stopEvent' = FALSE
    /\ UNCHANGED <<up, riskVars, bookVars, limit, iterations, todo>>

\* stop(), at any time.
Stop ==
    /\ up
    /\ stopEvent' = TRUE
    /\ UNCHANGED <<up, riskVars, bookVars, pc, state, limit, iterations, todo>>

\* The finally clause, which also replaces the state "error".
Ended ==
    /\ pc' = "none"
    /\ state' = "stopped"
    /\ todo' = {}
    /\ UNCHANGED <<up, riskVars, bookVars, stopEvent, limit, iterations>>

\* Faulty: the event is only looked at while the loop sleeps, or there is one
\* iteration too many.
MayIterate_Deaf == limit > 0 => iterations < limit
MayIterate_OneMore == ~stopEvent /\ (limit > 0 => iterations <= limit)

MayIterate == ~stopEvent /\ (limit > 0 => iterations < limit)

Finish ==
    /\ pc = "top"
    /\ ~MayIterate
    /\ Ended

\* fetch_markets; a scan that fails or finds nothing ends the iteration.
Scan(markets) ==
    /\ pc = "top"
    /\ MayIterate
    /\ pc' = "markets"
    /\ todo' = markets
    /\ UNCHANGED <<up, riskVars, bookVars, state, stopEvent, limit, iterations>>

\* _process_market gets no book, no estimate or no signal, or it raises.
Skip(m) ==
    /\ pc = "markets" /\ m \in todo
    /\ todo' = todo \ {m}
    /\ UNCHANGED <<up, riskVars, bookVars, pc, state, stopEvent, limit, iterations>>

Process(m, price, n) ==
    /\ pc = "markets" /\ m \in todo
    /\ ProcessSignal(m, price, n)
    /\ todo' = todo \ {m}
    /\ UNCHANGED <<pc, state, stopEvent, limit, iterations>>

\* The iteration is counted; the loop sleeps unless it was told to stop.
EndIteration ==
    /\ pc = "markets" /\ todo = {}
    /\ iterations' = IF limit > 0 THEN iterations + 1 ELSE 0
    /\ pc' = IF stopEvent THEN "top" ELSE "sleep"
    /\ UNCHANGED <<up, riskVars, bookVars, state, stopEvent, limit, todo>>

\* The scan interval is over; one tick is one interval.
Wake ==
    /\ pc = "sleep"
    /\ Risk!Tick
    /\ pc' = "top"
    /\ UNCHANGED <<bookVars, state, stopEvent, limit, iterations, todo>>

StopWakes ==
    /\ pc = "sleep" /\ stopEvent
    /\ Ended

LoopStep ==
    \/ Finish
    \/ \E markets \in SUBSET Market : Scan(markets)
    \/ \E m \in Market : Skip(m)
    \/ \E m \in Market, price \in Quotes, n \in Shares : Process(m, price, n)
    \/ EndIteration
    \/ Wake
    \/ StopWakes

\* The task is cancelled at an await; one that never started stays as it was.
Cancel ==
    /\ pc # "none"
    /\ pc' = "none"
    /\ state' = IF pc = "created" THEN state ELSE "stopped"
    /\ todo' = {}
    /\ UNCHANGED <<up, riskVars, bookVars, stopEvent, limit, iterations>>

-----------------------------------------------------------------------------
(* The process, its clock, and the kill-switch file.                       *)

\* A process that constructs an Engine and a TradingLoop.
Start ==
    /\ Risk!Start(TRUE, FALSE)
    /\ Paper!Start(InitialBalance)
    /\ limit' \in Limits
    /\ UNCHANGED <<pc, state, stopEvent, iterations, todo>>

Crash ==
    /\ Risk!Crash
    /\ Paper!Crash
    /\ pc' = "none" /\ state' = "idle" /\ stopEvent' = FALSE
    /\ limit' = 0 /\ iterations' = 0 /\ todo' = {}

\* Time passes while no loop runs.
TimePasses ==
    /\ pc = "none"
    /\ Risk!Tick
    /\ UNCHANGED <<bookVars, loopVars>>

\* `pglm killswitch` in a process of its own; the loop shares only the file.
OtherProcess ==
    /\ file' \in Risk!Persisted(file) \cup Risk!Cleared(file)
    /\ UNCHANGED <<up, killActive, killAge, killReason, peak, obs, breaches, exposure,
                   category, categoryExposure, dailyLoss, tradeAge, verdict, saved,
                   bookVars, loopVars>>

-----------------------------------------------------------------------------

Init ==
    /\ Risk!Init
    /\ Paper!Init
    /\ pc = "none"
    /\ state = "idle"
    /\ stopEvent = FALSE
    /\ limit = 0
    /\ iterations = 0
    /\ todo = {}

Next ==
    Create \/ Run \/ Stop \/ LoopStep \/ Cancel \/ Start \/ Crash \/ TimePasses \/ OtherProcess

Spec == Init /\ [][Next]_vars

\* The event loop goes on with run() whenever it can take its next step.
FairSpec == Spec /\ WF_vars(LoopStep)

-----------------------------------------------------------------------------
(* Properties.                                                             *)

TypeOK ==
    /\ Risk!TypeOK
    /\ Paper!TypeOK
    /\ pc \in {"none", "created", "top", "markets", "sleep"}
    /\ state \in {"idle", "running", "stopped"}
    /\ stopEvent \in BOOLEAN
    /\ limit \in Nat /\ iterations \in 0 .. limit
    /\ todo \subseteq Market

\* What the controller recorded is what the executor spent on the positions it
\* holds, fees included: over all markets, whatever was refused, and whenever
\* the process died.
SpendingRecorded == Total(exposure) = Total(cost) + fees

\* The capital in positions stays within the limits of a market and of all
\* markets, although the controller counts fills and the executor positions.
DeployedWithinLimits ==
    /\ Total(cost) <= MaxTotal
    /\ \A m \in Market : TotalOver(cost, {m} \X Outcome) <= MaxMarket

\* A stop requested while run() is under way ends it: it does not get lost in
\* an iteration, in the sleep or between the two.
Running == pc \notin {"none", "created"}
StopEnds == (Running /\ stopEvent) ~> ~Running

=============================================================================
