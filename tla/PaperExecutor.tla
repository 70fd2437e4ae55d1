--------------------------- MODULE PaperExecutor ---------------------------
(***************************************************************************)
(* The paper-trading executor (execution/paper_executor.py): it fills every *)
(* order it accepts at once, at the requested price, and keeps cash,       *)
(* positions, fees and realized profit.                                    *)
(*                                                                         *)
(* Money, prices and sizes are whole numbers.  A position is its size and  *)
(* its cost, size * avg_price: an average price need not be whole.  The    *)
(* code deletes a position that is sold out, so a size of 0 stands for no  *)
(* position.                                                               *)
(***************************************************************************)
EXTENDS Integers, Sequences, Totals

CONSTANTS
    Key,                 \* a market and an outcome
    Prices, Sizes,       \* what orders ask for
    FeePct,              \* fee_rate_bps, in percent
    InitialBalances,     \* the balances an executor may be constructed with
    NoFile, TornFile,    \* no state file, and one that was not written to its end
    MaxTrades,           \* bound on the length of the trade history
    MaxSaved,            \* bound on the length of a history that is saved
    MaxUnbacked          \* bound on the money credited for shares not held

ASSUME KeyAssumption == IsFiniteSet(Key)
ASSUME OrderAssumption ==
    /\ Prices \subseteq Nat
    /\ Sizes \subseteq Nat \ {0}
    /\ FeePct \in 0 .. 100
ASSUME BalanceAssumption == InitialBalances \subseteq Nat

VARIABLES
    up,                  \* is the process running?
    initial,             \* _initial_balance
    balance,             \* _balance
    size, cost,          \* _positions: size, and size * avg_price
    fees,                \* _total_fees_paid
    realized,            \* _total_realized_pnl
    trades,              \* _trade_history
    disk,                \* the file of save_state()
    unbacked             \* history: money credited for shares not held

bookVars == <<initial, balance, size, cost, fees, realized, trades, unbacked>>
vars == <<up, bookVars, disk>>

-----------------------------------------------------------------------------
(* Fees, costs and the executor's record.                                  *)

\* _calc_fee
Fee(price, n) == (price * n * FeePct) \div 100

\* What n shares of k cost at the average price.  (Here and below a name with
\* an underscore is a faulty variant, kept to show that a property can fail.)
CostOf_OneShare(k, n) == cost[k] \div size[k]
CostOf(k, n) == (cost[k] * n) \div size[k]

Trade(side, k, n) == [side |-> side, key |-> k, size |-> n]

\* The executor a process constructs with the balance b.
Fresh(b) ==
    [initial |-> b, balance |-> b,
     size |-> [k \in Key |-> 0], cost |-> [k \in Key |-> 0],
     fees |-> 0, realized |-> 0, trades |-> << >>,
     unbacked |-> 0]

\* export_state.  "unbacked" is carried along for the properties.
Exported ==
    [initial |-> initial, balance |-> balance, size |-> size, cost |-> cost,
     fees |-> fees, realized |-> realized, trades |-> trades,
     unbacked |-> unbacked]

BookBecomes(s) ==
    /\ initial' = s.initial
    /\ balance' = s.balance
    /\ size' = s.size
    /\ cost' = s.cost
    /\ fees' = s.fees
    /\ realized' = s.realized
    /\ trades' = s.trades
    /\ unbacked' = s.unbacked

-----------------------------------------------------------------------------
(* submit_order_sync.                                                      *)

\* A BUY that is neither a close nor allowed to add to a position.
Duplicate(k, plain) == plain /\ size[k] > 0

\* Faulty: the fee is left out.
Affordable_NoFee(price, n) == price * n <= balance

Affordable(price, n) == price * n + Fee(price, n) <= balance

\* Faulty: the shares held before are forgotten.
SharesAfterBuy_Replaced(k, n) == n

\* The shares of k after a BUY of n.
SharesAfterBuy(k, n) == size[k] + n

\* A BUY opens a position or adds to one at the new average price.
BuyFilled(k, price, n) ==
    /\ balance' = balance - (price * n + Fee(price, n))
    /\ fees' = fees + Fee(price, n)
    /\ size' = [size EXCEPT ![k] = SharesAfterBuy(k, n)]
    /\ cost' = [cost EXCEPT ![k] = @ + price * n]
    /\ trades' = Append(trades, Trade("BUY", k, n))
    /\ UNCHANGED <<initial, realized, unbacked>>

Buy(k, price, n, plain) ==
    /\ up
    /\ ~Duplicate(k, plain)
    /\ Affordable(price, n)
    /\ Len(trades) < MaxTrades
    /\ BuyFilled(k, price, n)
    /\ UNCHANGED <<up, disk>>

\* A BUY that is refused changes nothing.
BuyRefused(k, price, n, plain) ==
    /\ up
    /\ Duplicate(k, plain) \/ ~Affordable(price, n)
    /\ UNCHANGED vars

\* A SELL of a position.  The profit is taken on the size asked for; a position
\* that is sold out is deleted.  A SELL of more than is held also pays for the
\* shares nobody held.
SellFilled(k, price, n) ==
    /\ balance' = balance + price * n - Fee(price, n)
    /\ fees' = fees + Fee(price, n)
    /\ realized' = realized + price * n - CostOf(k, n)
    /\ IF n < size[k]
       THEN /\ size' = [size EXCEPT ![k] = @ - n]
            /\ cost' = [cost EXCEPT ![k] = @ - CostOf(k, n)]
       ELSE /\ size' = [size EXCEPT ![k] = 0]
            /\ cost' = [cost EXCEPT ![k] = 0]
    /\ unbacked' = IF n > size[k] THEN unbacked + CostOf(k, n) - cost[k] ELSE unbacked
    /\ trades' = Append(trades, Trade("SELL", k, n))
    /\ UNCHANGED initial

Sell(k, price, n) ==
    /\ up
    /\ size[k] > 0
    /\ Len(trades) < MaxTrades
    /\ SellFilled(k, price, n)
    /\ UNCHANGED <<up, disk>>

\* A SELL without a position is refused, but its total cost is "refunded"
\* although a SELL never paid it.
SellNothing(k, price, n) ==
    /\ up
    /\ size[k] = 0
    /\ unbacked < MaxUnbacked
    /\ balance' = balance + price * n + Fee(price, n)
    /\ unbacked' = unbacked + price * n + Fee(price, n)
    /\ UNCHANGED <<up, initial, size, cost, fees, realized, trades, disk>>

-----------------------------------------------------------------------------
(* The process and its state file.                                         *)

\* A new executor; the balance comes from the settings, which may have changed.
Start(b) ==
    /\ ~up
    /\ up' = TRUE
    /\ BookBecomes(Fresh(b))
    /\ UNCHANGED disk

\* What is left of the book when the process ends: nothing.
Crash ==
    /\ up
    /\ up' = FALSE
    /\ BookBecomes(Fresh(initial))
    /\ UNCHANGED disk

\* save_state opens the file for writing, which truncates it, and writes.
SaveState ==
    /\ up
    /\ Len(trades) <= MaxSaved
    /\ disk' = Exported
    /\ UNCHANGED <<up, bookVars>>

\* The process dies while it writes.
CrashInSave ==
    /\ up
    /\ up' = FALSE
    /\ disk' = TornFile
    /\ BookBecomes(Fresh(initial))

\* load_state: everything in memory is overwritten, the initial balance too.  A
\* file that is missing or torn raises, and nothing changes.
LoadState ==
    /\ up
    /\ disk \notin {NoFile, TornFile}
    /\ BookBecomes(disk)
    /\ UNCHANGED <<up, disk>>

-----------------------------------------------------------------------------

Init ==
    /\ up = FALSE
    /\ initial \in InitialBalances
    /\ balance = initial
    /\ size = [k \in Key |-> 0]
    /\ cost = [k \in Key |-> 0]
    /\ fees = 0
    /\ realized = 0
    /\ trades = << >>
    /\ disk = NoFile
    /\ unbacked = 0

Next ==
    \/ \E k \in Key, price \in Prices, n \in Sizes, plain \in BOOLEAN :
          \/ Buy(k, price, n, plain)
          \/ BuyRefused(k, price, n, plain)
    \/ \E k \in Key, price \in Prices, n \in Sizes :
          Sell(k, price, n) \/ SellNothing(k, price, n)
    \/ \E b \in InitialBalances : Start(b)
    \/ Crash
    \/ SaveState
    \/ CrashInSave
    \/ LoadState

Spec == Init /\ [][Next]_vars

-----------------------------------------------------------------------------
(* Properties.                                                             *)

TradeType == [side : {"BUY", "SELL"}, key : Key, size : Sizes]

Book ==
    [initial : Nat, balance : Nat, size : [Key -> Nat], cost : [Key -> Nat],
     fees : Nat, realized : Int, trades : Seq(TradeType),
     unbacked : Int]

TypeOK ==
    /\ up \in BOOLEAN
    /\ Exported \in Book
    /\ disk \in Book \cup {NoFile, TornFile}

\* What reconcile_portfolio() compares, in a book b.
Equity(b) == b.balance + Total(b.cost)
ExpectedEquity(b) == b.initial + b.realized - b.fees

\* Cash and positions are worth what the initial balance, the realized profit
\* and the fees explain, except for what was credited for shares that were not
\* held; in memory and in a saved file.
Explained(b) == Equity(b) = ExpectedEquity(b) + b.unbacked

EquityExplained ==
    /\ Explained(Exported)
    /\ disk \notin {NoFile, TornFile} => Explained(disk)

\* reconcile_portfolio(): "cash + positions = total equity".
Consistent == Equity(Exported) = ExpectedEquity(Exported)

\* The shares of k that were bought or sold.
Volume(side, k) ==
    TotalOver([j \in DOMAIN trades |-> trades[j].size],
              {j \in DOMAIN trades : trades[j].side = side /\ trades[j].key = k})

\* The trade history accounts for every position, also across restarts that load
\* a saved book: no share that was bought and not sold is missing.
NoShareLost == \A k \in Key : size[k] + Volume("SELL", k) >= Volume("BUY", k)

=============================================================================
