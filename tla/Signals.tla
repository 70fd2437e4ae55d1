------------------------------- MODULE Signals -------------------------------
(***************************************************************************)
(* The signal engine (strategy/signal_engine.py): the edge of an estimate  *)
(* over the price of a market, the size of a bet, and the filters.         *)
(*                                                                         *)
(* Prices and probabilities are those of Yes, in percent.  Money is whole; *)
(* the depth of a book is counted in hundredths of it.                     *)
(***************************************************************************)
EXTENDS Bounds

CONSTANTS
    MinEdge, MaxPosition, MinPrice, MinLiquidity,
    KellyPct,            \* the fraction of Kelly, in percent
    Bias,                \* fair_estimate_bias
    NoSignal

ASSUME SignalsAssumption ==
    /\ MinEdge \in Nat \ {0} /\ MaxPosition \in Nat /\ MinPrice \in Nat /\ MinLiquidity \in Nat
    /\ KellyPct \in 0 .. 100 /\ Bias \in Int
    /\ NoSignal \notin [outcome : {"Yes", "No"}, edge : Int, size : Nat]

One == 100
MaxEdge == 30

\* An order book with both sides: the price of each in Yes, and its shares.
Book == [bid : 0 .. One, ask : 0 .. One, bids : Nat, asks : Nat]

\* midpoint
Mid(book) == (book.bid + book.ask) \div 2

\* calculate_edge
Edge(price, prob) == prob + Bias - price

Clamped(edge) == AtLeast(AtMost(edge, MaxEdge), -MaxEdge)

\* The probability behind a clamped edge.
View(price, prob) ==
    LET edge == Edge(price, prob)
    IN  IF Abs(edge) > MaxEdge THEN price + Clamped(edge) ELSE prob

\* kelly_fraction, as money: the fraction (p * b - q) / b of the balance with odds
\* b of price to One - price.
Kelly(prob, price, balance) ==
    LET full == prob * price - (One - prob) * (One - price)
    IN  IF price \in 1 .. One - 1 /\ prob \in 1 .. One - 1 /\ prob > price /\ full > 0
        THEN (full * KellyPct * balance) \div (One * price * 100)
        ELSE 0

\* Faulty: a bet as large as it likes.
Stake_Unlimited(prob, price, balance) == Kelly(prob, price, balance)

Stake(prob, price, balance) == AtMost(Kelly(prob, price, balance), MaxPosition)

\* Faulty: the depth of the asks, whatever is traded.
Depth_Asks(outcome, book) == book.ask * book.asks

\* The money on the side of the book that an order hits; BUY No is SELL Yes.  The
\* shares are valued at the prices of Yes on both sides.
Depth(outcome, book) ==
    IF outcome = "Yes" THEN book.ask * book.asks ELSE book.bid * book.bids

\* A price or probability of Yes, from the side of an outcome.
Of(outcome, p) == IF outcome = "Yes" THEN p ELSE One - p

\* generate_signal, for a market without an open position.
Signal(book, prob, balance) ==
    LET price == Mid(book)
        edge == Clamped(Edge(price, prob))
        outcome == IF edge > 0 THEN "Yes" ELSE "No"
        paid == Of(outcome, price)
        size == Stake(Of(outcome, View(price, prob)), paid, balance)
    IN  IF /\ Abs(edge) >= MinEdge
           /\ paid >= MinPrice
           /\ Depth(outcome, book) >= One * MinLiquidity
           /\ size > 0
        THEN [outcome |-> outcome, edge |-> edge, size |-> size]
        ELSE NoSignal

=============================================================================
