------------------------ MODULE PaperExecutorProofs ------------------------
(***************************************************************************)
(* Theorems about PaperExecutor for every set of positions, every price,   *)
(* size and fee: the types, cash that never goes below zero among them, and *)
(* the accounting identity behind reconcile_portfolio().                   *)
(***************************************************************************)
EXTENDS PaperExecutor, TotalsTheorems, TLAPS

USE KeyAssumption, OrderAssumption, BalanceAssumption

-----------------------------------------------------------------------------
(* Fees and costs.                                                         *)

\* A fee is never more than the trade it is charged on.
LEMMA FeeType ==
    ASSUME NEW price \in Prices, NEW n \in Sizes
    PROVE  price * n \in Nat /\ Fee(price, n) \in 0 .. price * n
<1> DEFINE value == price * n
<1>1. value \in Nat
  OBVIOUS
<1>2. (value * FeePct) \div 100 \in 0 .. value
  <2> HIDE DEF value
  <2>1. QED
    BY <1>1
<1>3. QED
  BY <1>1, <1>2 DEF Fee

\* The cost of some of the shares of a position is a part of its cost, and the
\* cost of all of them is all of it.
LEMMA CostOfType ==
    ASSUME NEW k \in Key, cost \in [Key -> Nat], size \in [Key -> Nat],
           size[k] > 0, NEW n \in Nat
    PROVE  /\ CostOf(k, n) \in Nat
           /\ n <= size[k] => CostOf(k, n) <= cost[k]
           /\ n = size[k] => CostOf(k, n) = cost[k]
<1>1. \A c \in Nat, s \in Nat \ {0} :
         /\ (c * n) \div s \in Nat
         /\ n <= s => (c * n) \div s <= c
  OBVIOUS
<1>2. \A c \in Nat, s \in Nat \ {0} : (c * s) \div s = c
  OBVIOUS
<1>3. cost[k] \in Nat /\ size[k] \in Nat \ {0}
  OBVIOUS
<1>4. QED
  BY <1>1, <1>2, <1>3 DEF CostOf

-----------------------------------------------------------------------------
(* Type correctness.                                                       *)

LEMMA AppendType ==
    ASSUME NEW S, NEW s \in Seq(S), NEW e \in S
    PROVE  Append(s, e) \in Seq(S)
OBVIOUS

\* A new executor's book is well typed.
LEMMA FreshType ==
    ASSUME NEW b \in Nat
    PROVE  Fresh(b) \in Book
<1>1. << >> \in Seq(TradeType)
  OBVIOUS
<1>2. QED
  BY <1>1 DEF Fresh, Book

\* Type-correctness of the book, field by field.
LEMMA BookFields ==
    Exported \in Book <=>
        /\ initial \in Nat /\ balance \in Nat
        /\ size \in [Key -> Nat] /\ cost \in [Key -> Nat]
        /\ fees \in Nat /\ realized \in Int
        /\ trades \in Seq(TradeType)
        /\ unbacked \in Int
BY DEF Exported, Book

LEMMA BookLoaded ==
    ASSUME NEW s \in Book, BookBecomes(s)
    PROVE  Exported' \in Book
<1>1. /\ s.initial \in Nat /\ s.balance \in Nat
      /\ s.size \in [Key -> Nat] /\ s.cost \in [Key -> Nat]
      /\ s.fees \in Nat /\ s.realized \in Int
      /\ s.trades \in Seq(TradeType)
      /\ s.unbacked \in Int
  BY DEF Book
<1>2. QED
  BY <1>1 DEF BookBecomes, Exported, Book

LEMMA TypeInit == Init => TypeOK
<1> SUFFICES ASSUME Init PROVE TypeOK
  OBVIOUS
<1>1. initial \in Nat /\ Exported = Fresh(initial)
  BY DEF Init, Exported, Fresh
<1>2. Exported \in Book
  BY <1>1, FreshType
<1>3. QED
  BY <1>2 DEF Init, TypeOK

LEMMA TypeStep == TypeOK /\ [Next]_vars => TypeOK'
<1> SUFFICES ASSUME TypeOK, [Next]_vars PROVE TypeOK'
  OBVIOUS
<1>0. /\ initial \in Nat /\ balance \in Nat
      /\ size \in [Key -> Nat] /\ cost \in [Key -> Nat]
      /\ fees \in Nat /\ realized \in Int
      /\ trades \in Seq(TradeType)
      /\ unbacked \in Int
  BY BookFields DEF TypeOK
<1>1. ASSUME NEW k \in Key, NEW price \in Prices, NEW n \in Sizes,
             NEW plain \in BOOLEAN,
             Buy(k, price, n, plain)
      PROVE TypeOK'
  <2>1. BuyFilled(k, price, n) /\ Affordable(price, n)
    BY <1>1 DEF Buy
  <2>2. price * n \in Nat /\ Fee(price, n) \in Nat
    BY FeeType
  <2>3. balance' \in Nat
    BY <1>0, <2>1, <2>2, SMTT(30) DEF BuyFilled, Affordable
  <2>4. fees' \in Nat /\ initial' \in Nat /\ realized' \in Int /\ unbacked' \in Int
    BY <1>0, <2>1, <2>2, SMTT(30) DEF BuyFilled
  <2>5. size' \in [Key -> Nat]
    BY <1>0, <2>1 DEF BuyFilled, SharesAfterBuy
  <2>6. cost' \in [Key -> Nat]
    <3> DEFINE paid == price * n
    <3>1. cost' = [cost EXCEPT ![k] = @ + paid] /\ paid \in Nat
      BY <2>1, <2>2 DEF BuyFilled
    <3> HIDE DEF paid
    <3>2. QED
      BY <1>0, <3>1
  <2>8. trades' \in Seq(TradeType)
    <3>1. Trade("BUY", k, n) \in TradeType
      BY DEF Trade, TradeType
    <3>2. QED
      BY <1>0, <2>1, <3>1 DEF BuyFilled
  <2>9. Exported' \in Book
    BY <2>3, <2>4, <2>5, <2>6, <2>8 DEF Exported, Book
  <2>10. QED
    BY <1>1, <2>9 DEF Buy, TypeOK
<1>2. ASSUME NEW k \in Key, NEW price \in Prices, NEW n \in Sizes, Sell(k, price, n)
      PROVE TypeOK'
  <2>1. SellFilled(k, price, n) /\ size[k] > 0 /\ n \in Nat
    BY <1>2 DEF Sell
  <2>2. price * n \in Nat /\ Fee(price, n) \in 0 .. price * n
    BY FeeType
  <2>3. CostOf(k, n) \in Nat /\ (n <= size[k] => CostOf(k, n) <= cost[k])
    BY <1>0, <2>1, CostOfType
  <2> DEFINE value == price * n
             fee == Fee(price, n)
             part == CostOf(k, n)
  <2>4. /\ balance' = balance + value - fee /\ fees' = fees + fee
        /\ initial' = initial /\ realized' = realized + value - part
        /\ unbacked' = IF n > size[k] THEN unbacked + part - cost[k] ELSE unbacked
        /\ size' = [size EXCEPT ![k] = IF n < size[k] THEN @ - n ELSE 0]
        /\ cost' = [cost EXCEPT ![k] = IF n < size[k] THEN @ - part ELSE 0]
    BY <2>1 DEF SellFilled
  <2>5. cost[k] \in Nat /\ size[k] \in Nat
    BY <1>0
  <2> HIDE DEF value, fee, part
  <2>6. value \in Nat /\ fee \in 0 .. value /\ part \in Nat
    BY <2>2, <2>3 DEF value, fee, part
  <2>7. /\ balance' \in Nat /\ fees' \in Nat /\ initial' \in Nat
        /\ realized' \in Int /\ unbacked' \in Int
    BY <1>0, <2>4, <2>5, <2>6
  <2>8. size' \in [Key -> Nat] /\ cost' \in [Key -> Nat]
    <3>1. n < size[k] => size[k] - n \in Nat
      BY <2>1, <2>5
    <3>2. n < size[k] => cost[k] - part \in Nat
      BY <2>1, <2>3, <2>5, <2>6 DEF part
    <3>3. QED
      BY <1>0, <2>4, <3>1, <3>2
  <2>10. trades' \in Seq(TradeType)
    <3>1. Trade("SELL", k, n) \in TradeType
      BY DEF Trade, TradeType
    <3>2. trades' = Append(trades, Trade("SELL", k, n))
      BY <2>1 DEF SellFilled
    <3>3. trades \in Seq(TradeType)
      BY <1>0
    <3>4. QED
      BY <3>1, <3>2, <3>3, AppendType, Zenon
  <2>11. Exported' \in Book
    BY <2>7, <2>8, <2>10 DEF Exported, Book
  <2>12. QED
    BY <1>2, <2>11 DEF Sell, TypeOK
<1>3. ASSUME NEW k \in Key, NEW price \in Prices, NEW n \in Sizes, SellNothing(k, price, n)
      PROVE TypeOK'
  <2>1. price * n \in Nat /\ Fee(price, n) \in Nat
    BY FeeType
  <2>2. balance' \in Nat /\ unbacked' \in Int
    <3> DEFINE value == price * n
    <3>1. /\ balance' = balance + value + Fee(price, n)
          /\ unbacked' = unbacked + value + Fee(price, n)
      BY <1>3 DEF SellNothing
    <3>2. value \in Nat
      BY <2>1
    <3> HIDE DEF value
    <3>3. QED
      BY <1>0, <2>1, <3>1, <3>2
  <2>3. Exported' \in Book
    BY <1>0, <1>3, <2>2 DEF SellNothing, Exported, Book
  <2>4. QED
    BY <1>3, <2>3 DEF SellNothing, TypeOK
<1>4. ASSUME NEW b \in InitialBalances, Start(b)
      PROVE TypeOK'
  <2>1. Exported' \in Book
    BY <1>4, FreshType, BookLoaded DEF Start
  <2>2. QED
    BY <1>4, <2>1 DEF Start, TypeOK
<1>5. CASE Crash \/ CrashInSave
  <2>1. Exported' \in Book
    BY <1>0, <1>5, FreshType, BookLoaded DEF Crash, CrashInSave
  <2>2. QED
    BY <1>5, <2>1 DEF Crash, CrashInSave, TypeOK
<1>6. CASE SaveState
  <2>1. Exported' = Exported
    BY <1>6 DEF SaveState, bookVars, Exported
  <2>2. QED
    BY <1>6, <2>1 DEF SaveState, TypeOK
<1>7. CASE LoadState
  <2>1. Exported' \in Book
    BY <1>7, BookLoaded DEF LoadState, TypeOK
  <2>2. QED
    BY <1>7, <2>1 DEF LoadState, TypeOK
<1>8. CASE UNCHANGED vars
  BY <1>8 DEF vars, bookVars, Exported, TypeOK
<1>9. ASSUME NEW k \in Key, NEW price \in Prices, NEW n \in Sizes,
             NEW plain \in BOOLEAN,
             \/ Buy(k, price, n, plain)
             \/ BuyRefused(k, price, n, plain)
      PROVE TypeOK'
  <2>1. BuyRefused(k, price, n, plain) => UNCHANGED vars
    BY DEF BuyRefused
  <2>3. QED
    BY <1>1, <1>8, <1>9, <2>1, Zenon
<1>10. QED
  BY <1>2, <1>3, <1>4, <1>5, <1>6, <1>7, <1>8, <1>9, Zenon DEF Next

\* The book is well typed in every reachable state: in particular cash is never
\* negative, whatever is bought, sold, saved and loaded.
THEOREM TypeCorrect == Spec => []TypeOK
<1>1. Init => TypeOK
  BY TypeInit
<1>2. TypeOK /\ [Next]_vars => TypeOK'
  BY TypeStep
<1>3. QED
  BY <1>1, <1>2, PTL DEF Spec

-----------------------------------------------------------------------------
(* The accounting identity.                                                *)

\* The identity, in terms of the variables.
Balanced ==
    balance + Total(cost) = initial + realized - fees + unbacked

LEMMA BalancedIsExplained == Explained(Exported) <=> Balanced
BY DEF Explained, Equity, ExpectedEquity, Exported, Balanced

\* A new executor holds its initial balance and nothing else.
LEMMA FreshExplained ==
    ASSUME NEW b \in Nat
    PROVE  Explained(Fresh(b))
<1>1. Total([k \in Key |-> 0]) = 0
  BY TotalZero
<1>2. QED
  BY <1>1 DEF Explained, Equity, ExpectedEquity, Fresh

\* A book that is loaded is explained when it was explained in the file.
LEMMA LoadedExplained ==
    ASSUME NEW s, Explained(s), BookBecomes(s)
    PROVE  Balanced'
<1>1. Total(s.cost) = Total(cost')
  BY DEF BookBecomes
<1>2. QED
  BY <1>1 DEF Explained, Equity, ExpectedEquity, BookBecomes, Balanced

\* Buying and selling move the total cost by what they change of one position.
LEMMA CostReplaced ==
    ASSUME cost \in [Key -> Nat], NEW k \in Key
    PROVE  \A v \in Nat : Total([cost EXCEPT ![k] = v]) = Total(cost) - cost[k] + v
BY TotalReplace, ZenonT(40)

LEMMA CostAdded ==
    ASSUME cost \in [Key -> Nat], NEW k \in Key
    PROVE  \A v \in Nat : Total([cost EXCEPT ![k] = @ + v]) = Total(cost) + v
<1> SUFFICES ASSUME NEW v \in Nat
             PROVE Total([cost EXCEPT ![k] = @ + v]) = Total(cost) + v
  OBVIOUS
<1>1. cost[k] + v \in Nat /\ cost[k] \in Nat
  OBVIOUS
<1>2. Total([cost EXCEPT ![k] = cost[k] + v]) = Total(cost) - cost[k] + (cost[k] + v)
  BY <1>1, CostReplaced
<1>3. Total(cost) \in Nat
  BY TotalType
<1>4. QED
  BY <1>1, <1>2, <1>3

\* What a fill does to cash, cost, profit and fees cancels out.
LEMMA BuyBalanced ==
    ASSUME TypeOK, Balanced, NEW k \in Key, NEW price \in Prices, NEW n \in Sizes,
           BuyFilled(k, price, n)
    PROVE  Balanced'
<1> DEFINE value == price * n
           fee == Fee(price, n)
<1>0. /\ cost \in [Key -> Nat] /\ balance \in Nat /\ initial \in Nat
      /\ realized \in Int /\ fees \in Nat /\ unbacked \in Int
  BY BookFields DEF TypeOK
<1>1. /\ balance' = balance - (value + fee) /\ fees' = fees + fee
      /\ cost' = [cost EXCEPT ![k] = @ + value]
      /\ initial' = initial /\ realized' = realized /\ unbacked' = unbacked
  BY DEF BuyFilled
<1>2. value \in Nat /\ fee \in Nat
  BY FeeType
<1> HIDE DEF value, fee
<1>3. Total(cost') = Total(cost) + value
  <2>1. Total([cost EXCEPT ![k] = @ + value]) = Total(cost) + value
    <3>1. \A v \in Nat : Total([cost EXCEPT ![k] = @ + v]) = Total(cost) + v
      BY <1>0, CostAdded
    <3>2. QED
      BY <1>2, <3>1
  <2>2. QED
    BY <1>1, <2>1
<1>4. Total(cost) \in Nat
  BY <1>0, TotalType
<1>5. balance' + Total(cost') = initial' + realized' - fees' + unbacked'
  BY <1>0, <1>1, <1>2, <1>3, <1>4 DEF Balanced
<1>6. QED
  BY <1>5 DEF Balanced

LEMMA SellBalanced ==
    ASSUME TypeOK, Balanced, NEW k \in Key, NEW price \in Prices, NEW n \in Sizes,
           size[k] > 0, SellFilled(k, price, n)
    PROVE  Balanced'
<1> DEFINE value == price * n
           fee == Fee(price, n)
           part == CostOf(k, n)
           left == IF n < size[k] THEN cost[k] - part ELSE 0
<1>0. /\ cost \in [Key -> Nat] /\ size \in [Key -> Nat] /\ n \in Nat
      /\ balance \in Nat /\ initial \in Nat
      /\ realized \in Int /\ fees \in Nat /\ unbacked \in Int
  BY BookFields DEF TypeOK
<1>1. /\ balance' = balance + value - fee /\ fees' = fees + fee
      /\ cost' = [cost EXCEPT ![k] = left]
      /\ initial' = initial /\ realized' = realized + value - part
      /\ unbacked' = IF n > size[k] THEN unbacked + part - cost[k] ELSE unbacked
  BY DEF SellFilled
<1>2. value \in Nat /\ fee \in Nat
  BY FeeType
<1>3. part \in Nat /\ (n <= size[k] => part <= cost[k]) /\ (n = size[k] => part = cost[k])
  BY <1>0, CostOfType
<1>4. cost[k] \in Nat /\ size[k] \in Nat
  BY <1>0
<1> HIDE DEF value, fee, part
<1>5. left \in Nat
  BY <1>0, <1>3, <1>4
<1>6. Total(cost') = Total(cost) - cost[k] + left
  <2> HIDE DEF left
  <2>1. Total([cost EXCEPT ![k] = left]) = Total(cost) - cost[k] + left
    <3>1. \A v \in Nat : Total([cost EXCEPT ![k] = v]) = Total(cost) - cost[k] + v
      BY <1>0, CostReplaced
    <3>2. QED
      BY <1>5, <3>1
  <2>2. QED
    BY <1>1, <2>1
<1>7. Total(cost) \in Nat
  BY <1>0, TotalType
<1>8. cost[k] - left + (unbacked' - unbacked) = part
  <2>1. CASE n < size[k]
    BY <2>1, <1>0, <1>1, <1>3, <1>4
  <2>2. CASE n = size[k]
    BY <2>2, <1>0, <1>1, <1>3, <1>4
  <2>3. CASE n > size[k]
    BY <2>3, <1>0, <1>1, <1>3, <1>4
  <2>4. QED
    BY <1>0, <1>4, <2>1, <2>2, <2>3
<1>9. unbacked' \in Int
  BY <1>0, <1>1, <1>3, <1>4
<1>10. balance' + Total(cost') = initial' + realized' - fees' + unbacked'
  <2> HIDE DEF left
  <2>1. QED
    BY <1>0, <1>1, <1>2, <1>3, <1>4, <1>5, <1>6, <1>7, <1>8, <1>9 DEF Balanced
<1>11. QED
  BY <1>10 DEF Balanced

LEMMA EquityStep ==
    ASSUME TypeOK, EquityExplained, [Next]_vars
    PROVE  EquityExplained'
<1>0. Balanced
  BY BalancedIsExplained DEF EquityExplained
<1>1. ASSUME Balanced', disk' = disk \/ disk' \in {TornFile, Exported}
      PROVE EquityExplained'
  <2>1. Explained(Exported)'
    BY <1>1, BalancedIsExplained, PTL
  <2>2. disk' \notin {NoFile, TornFile} => Explained(disk')
    BY <1>1 DEF EquityExplained
  <2>3. QED
    BY <2>1, <2>2 DEF EquityExplained
<1>2. ASSUME NEW k \in Key, NEW price \in Prices, NEW n \in Sizes,
             NEW plain \in BOOLEAN,
             \/ Buy(k, price, n, plain)
             \/ BuyRefused(k, price, n, plain)
      PROVE EquityExplained'
  <2>1. CASE Buy(k, price, n, plain)
    <3>2. BuyFilled(k, price, n) /\ disk' = disk
      BY <2>1 DEF Buy
    <3>3. Balanced'
      BY <1>0, <3>2, BuyBalanced
    <3>4. QED
      BY <1>1, <3>2, <3>3
  <2>2. CASE BuyRefused(k, price, n, plain)
    BY <1>0, <1>1, <2>2 DEF BuyRefused, vars, bookVars, Balanced
  <2>3. QED
    BY <1>2, <2>1, <2>2
<1>3. ASSUME NEW k \in Key, NEW price \in Prices, NEW n \in Sizes, Sell(k, price, n)
      PROVE EquityExplained'
  <2>1. size[k] > 0 /\ SellFilled(k, price, n) /\ disk' = disk
    BY <1>3 DEF Sell
  <2>2. Balanced'
    BY <1>0, <2>1, SellBalanced
  <2>3. QED
    BY <1>1, <2>1, <2>2
<1>4. ASSUME NEW k \in Key, NEW price \in Prices, NEW n \in Sizes, SellNothing(k, price, n)
      PROVE EquityExplained'
  <2> DEFINE paid == price * n
             fee == Fee(price, n)
  <2>1. /\ balance' = balance + paid + fee
        /\ unbacked' = unbacked + paid + fee
        /\ cost' = cost /\ initial' = initial /\ realized' = realized /\ fees' = fees
        /\ disk' = disk
    BY <1>4 DEF SellNothing
  <2>2. paid \in Nat /\ fee \in Nat
    BY FeeType
  <2>3. /\ cost \in [Key -> Nat] /\ balance \in Nat /\ initial \in Nat
        /\ realized \in Int /\ fees \in Nat /\ unbacked \in Int
    BY BookFields DEF TypeOK
  <2>4. Total(cost) \in Nat /\ Total(cost') = Total(cost)
    BY <2>1, <2>3, TotalType
  <2> HIDE DEF paid, fee
  <2>5. balance' + Total(cost') = initial' + realized' - fees' + unbacked'
    BY <1>0, <2>1, <2>2, <2>3, <2>4 DEF Balanced
  <2>6. QED
    BY <1>1, <2>1, <2>5 DEF Balanced
<1>5. ASSUME NEW b \in InitialBalances, Start(b)
      PROVE EquityExplained'
  <2>1. Explained(Fresh(b)) /\ BookBecomes(Fresh(b)) /\ disk' = disk
    BY <1>5, FreshExplained DEF Start
  <2>2. QED
    BY <1>1, <2>1, LoadedExplained
<1>6. CASE Crash \/ CrashInSave
  <2>1. initial \in Nat
    BY BookFields DEF TypeOK
  <2>2. /\ Explained(Fresh(initial)) /\ BookBecomes(Fresh(initial))
        /\ disk' = disk \/ disk' = TornFile
    BY <1>6, <2>1, FreshExplained DEF Crash, CrashInSave
  <2>3. QED
    BY <1>1, <2>2, LoadedExplained
<1>7. CASE SaveState
  BY <1>0, <1>1, <1>7 DEF SaveState, bookVars, Balanced
<1>8. CASE LoadState
  <2>1. Explained(disk) /\ BookBecomes(disk) /\ disk' = disk
    BY <1>8 DEF LoadState, EquityExplained
  <2>2. QED
    BY <1>1, <2>1, LoadedExplained
<1>9. CASE UNCHANGED vars
  BY <1>0, <1>1, <1>9 DEF vars, bookVars, Balanced
<1>10. QED
  BY <1>2, <1>3, <1>4, <1>5, <1>6, <1>7, <1>8, <1>9, Zenon DEF Next

\* Cash and the cost of the positions are the initial balance, the realized
\* profit and the fees, plus exactly what was credited for shares nobody held;
\* in memory and in every complete state file (reconcile_portfolio).
THEOREM EquityIdentity == Spec => []EquityExplained
<1>1. Init => TypeOK /\ EquityExplained
  <2>1. SUFFICES ASSUME Init PROVE EquityExplained
    BY TypeInit
  <2>2. initial \in Nat /\ Exported = Fresh(initial) /\ disk = NoFile
    BY <2>1 DEF Init, Exported, Fresh
  <2>3. QED
    BY <2>2, FreshExplained DEF EquityExplained
<1>2. TypeOK /\ EquityExplained /\ [Next]_vars => TypeOK' /\ EquityExplained'
  BY TypeStep, EquityStep
<1>3. QED
  BY <1>1, <1>2, PTL DEF Spec

\* So reconcile_portfolio() finds the book consistent in every state of every
\* run in which nothing was sold that was not held.
THEOREM ConsistentWhenBacked == Spec => [](unbacked = 0 => Consistent)
<1>1. TypeOK /\ EquityExplained => (unbacked = 0 => Consistent)
  <2>1. SUFFICES ASSUME TypeOK, Balanced, unbacked = 0 PROVE Consistent
    BY BalancedIsExplained DEF EquityExplained
  <2>2. initial \in Nat /\ realized \in Int /\ fees \in Nat
    BY <2>1, BookFields DEF TypeOK
  <2>3. balance + Total(cost) = initial + realized - fees
    BY <2>1, <2>2 DEF Balanced
  <2>4. QED
    BY <2>3 DEF Consistent, Equity, ExpectedEquity, Exported
<1>2. QED
  BY <1>1, TypeCorrect, EquityIdentity, PTL

-----------------------------------------------------------------------------
(* The trade history and the positions.                                    *)

\* The shares of k that a history t has bought or sold.
Moving(t, side, k) == {j \in DOMAIN t : t[j].side = side /\ t[j].key = k}
VolumeIn(t, side, k) == TotalOver([j \in DOMAIN t |-> t[j].size], Moving(t, side, k))

\* No share of k is missing from the shares held, given the history.
Kept(held, t, k) == held + VolumeIn(t, "SELL", k) >= VolumeIn(t, "BUY", k)

\* It is so in memory and in every complete state file.
SharesInv ==
    /\ \A k \in Key : Kept(size[k], trades, k)
    /\ disk \notin {NoFile, TornFile} => \A k \in Key : Kept(disk.size[k], disk.trades, k)

\* The trades of a history with a side and a position are finitely many, and
\* their volume is a natural number.
LEMMA VolumeType ==
    ASSUME NEW t \in Seq(TradeType), NEW side, NEW k
    PROVE  /\ [j \in DOMAIN t |-> t[j].size] \in [1 .. Len(t) -> Nat]
           /\ Moving(t, side, k) \in SUBSET (1 .. Len(t))
           /\ IsFiniteSet(Moving(t, side, k))
           /\ VolumeIn(t, side, k) \in Nat
<1>1. DOMAIN t = 1 .. Len(t) /\ \A j \in 1 .. Len(t) : t[j] \in TradeType
  OBVIOUS
<1>2. [j \in DOMAIN t |-> t[j].size] \in [1 .. Len(t) -> Nat]
  BY <1>1 DEF TradeType
<1>3. Moving(t, side, k) \in SUBSET (1 .. Len(t))
  BY <1>1 DEF Moving
<1>4. IsFiniteSet(1 .. Len(t))
  <2>1. 1 \in Int /\ Len(t) \in Int
    OBVIOUS
  <2>2. QED
    BY <2>1, FS_Interval, Zenon
<1>5. IsFiniteSet(Moving(t, side, k))
  BY <1>3, <1>4, FS_Subset
<1>6. VolumeIn(t, side, k) \in Nat
  BY <1>2, <1>3, <1>5, TotalOverType, Zenon DEF VolumeIn
<1>7. QED
  BY <1>2, <1>3, <1>5, <1>6

\* A trade appended to the history adds its shares to one volume.
LEMMA VolumeAppend ==
    ASSUME NEW t \in Seq(TradeType), NEW e \in TradeType, NEW side, NEW k
    PROVE  VolumeIn(Append(t, e), side, k)
             = VolumeIn(t, side, k) + (IF e.side = side /\ e.key = k THEN e.size ELSE 0)
<1> DEFINE n == Len(t) + 1
           u == Append(t, e)
           f == [j \in DOMAIN t |-> t[j].size]
           g == [j \in DOMAIN u |-> u[j].size]
           S == Moving(t, side, k)
<1>1. /\ u \in Seq(TradeType) /\ Len(u) = n /\ n \in Nat /\ u[n] = e
      /\ DOMAIN u = 1 .. n /\ DOMAIN t = 1 .. Len(t)
      /\ \A j \in 1 .. Len(t) : u[j] = t[j]
      /\ n \in 1 .. n /\ n \notin 1 .. Len(t) /\ 1 .. Len(t) \in SUBSET (1 .. n)
      /\ \A j \in 1 .. n : j \in 1 .. Len(t) \/ j = n
  OBVIOUS
<1>2. /\ g \in [1 .. n -> Nat] /\ S \in SUBSET (1 .. Len(t)) /\ IsFiniteSet(S)
      /\ VolumeIn(t, side, k) \in Nat
  BY <1>1, VolumeType
<1>3. TotalOver(g, S) = VolumeIn(t, side, k)
  <2>1. \A j \in S : g[j] = f[j]
    BY <1>1, <1>2
  <2> HIDE DEF f, g, S
  <2>2. TotalOver(g, S) = TotalOver(f, S)
    BY <2>1, TotalOverSame, Zenon
  <2>3. QED
    BY <2>2 DEF VolumeIn, f, S
<1>4. g[n] = e.size
  BY <1>1
<1>5. CASE e.side = side /\ e.key = k
  <2>1. Moving(u, side, k) = S \cup {n}
    BY <1>1, <1>5 DEF Moving
  <2>2. VolumeIn(u, side, k) = TotalOver(g, S \cup {n})
    BY <2>1 DEF VolumeIn
  <2>3. S \in SUBSET (1 .. n) /\ {n} \in SUBSET (1 .. n) /\ S \cap {n} = {}
    <3> HIDE DEF n, S
    <3>1. QED
      BY <1>1, <1>2
  <2> HIDE DEF n, g, S
  <2>4. TotalOver(g, S \cup {n}) = TotalOver(g, S) + TotalOver(g, {n})
    <3>1. PICK T : T = {n}
      OBVIOUS
    <3>2. PICK D : D = 1 .. n
      OBVIOUS
    <3>3. /\ g \in [D -> Nat] /\ S \in SUBSET D /\ T \in SUBSET D
          /\ IsFiniteSet(S) /\ IsFiniteSet(T) /\ S \cap T = {}
      BY <1>2, <2>3, <3>1, <3>2, FS_Singleton
    <3>4. TotalOver(g, S \cup T) = TotalOver(g, S) + TotalOver(g, T)
      BY <3>3, TotalOverUnion
    <3>5. QED
      BY <3>1, <3>4
  <2>5. TotalOver(g, {n}) = g[n]
    BY <1>1, <1>2, TotalOverSingle
  <2>6. QED
    BY <1>3, <1>4, <1>5, <2>2, <2>4, <2>5
<1>6. CASE ~(e.side = side /\ e.key = k)
  <2>1. Moving(u, side, k) = S
    BY <1>1, <1>6 DEF Moving
  <2>2. VolumeIn(u, side, k) = TotalOver(g, S)
    BY <2>1 DEF VolumeIn
  <2>3. VolumeIn(u, side, k) = VolumeIn(t, side, k) + 0
    <3> HIDE DEF u
    <3>1. QED
      BY <1>2, <1>3, <2>2
  <2>4. QED
    BY <1>6, <2>3, Zenon
<1>7. QED
  BY <1>5, <1>6

\* A new executor holds nothing and has traded nothing.
LEMMA EmptyHistory ==
    ASSUME NEW k
    PROVE  Kept(0, << >>, k)
<1>1. \A side : VolumeIn(<< >>, side, k) = 0
  <2>1. SUFFICES ASSUME NEW side PROVE VolumeIn(<< >>, side, k) = 0
    OBVIOUS
  <2>2. Moving(<< >>, side, k) = {}
    BY DEF Moving
  <2>3. \A j \in {} : [i \in DOMAIN << >> |-> << >>[i].size][j] = 0
    OBVIOUS
  <2>4. TotalOver([i \in DOMAIN << >> |-> << >>[i].size], {}) = 0
    BY <2>3, TotalOverZero, Zenon
  <2>5. QED
    BY <2>2, <2>4 DEF VolumeIn
<1>2. QED
  BY <1>1 DEF Kept

LEMMA FreshShares ==
    ASSUME NEW b, BookBecomes(Fresh(b)), NEW k \in Key
    PROVE  Kept(size'[k], trades', k)
<1>1. size'[k] = 0 /\ trades' = << >>
  BY DEF BookBecomes, Fresh
<1>2. QED
  BY <1>1, EmptyHistory

\* A trade that is appended, of n shares more or at most n shares fewer.
LEMMA TradeShares ==
    ASSUME NEW t \in Seq(TradeType), NEW e \in TradeType, NEW k,
           NEW before \in Nat, NEW after \in Nat, Kept(before, t, k),
           \/ e.key # k /\ after = before
           \/ e.key = k /\ e.side = "BUY" /\ after = before + e.size
           \/ e.key = k /\ e.side = "SELL" /\ after + e.size >= before
    PROVE  Kept(after, Append(t, e), k)
<1>1. /\ VolumeIn(t, "BUY", k) \in Nat /\ VolumeIn(t, "SELL", k) \in Nat
      /\ e.size \in Nat /\ e.side \in {"BUY", "SELL"}
  BY VolumeType DEF TradeType
<1>2. /\ VolumeIn(Append(t, e), "BUY", k)
           = VolumeIn(t, "BUY", k) + (IF e.side = "BUY" /\ e.key = k THEN e.size ELSE 0)
      /\ VolumeIn(Append(t, e), "SELL", k)
           = VolumeIn(t, "SELL", k) + (IF e.side = "SELL" /\ e.key = k THEN e.size ELSE 0)
  BY VolumeAppend
<1>3. PICK bought \in Nat, sold \in Nat :
         bought = VolumeIn(t, "BUY", k) /\ sold = VolumeIn(t, "SELL", k)
  BY <1>1
<1>4. before + sold >= bought
  BY <1>3 DEF Kept
<1>5. after + (sold + (IF e.side = "SELL" /\ e.key = k THEN e.size ELSE 0))
        >= bought + (IF e.side = "BUY" /\ e.key = k THEN e.size ELSE 0)
  BY <1>1, <1>4
<1>6. QED
  BY <1>2, <1>3, <1>5 DEF Kept

LEMMA SharesStep ==
    ASSUME TypeOK, SharesInv, [Next]_vars
    PROVE  SharesInv'
<1>0. size \in [Key -> Nat] /\ trades \in Seq(TradeType)
  BY BookFields DEF TypeOK
<1>1. ASSUME \A k \in Key : Kept(size'[k], trades', k), disk' = disk \/ disk' = TornFile
      PROVE SharesInv'
  BY <1>1 DEF SharesInv
<1>2. ASSUME UNCHANGED <<size, trades, disk>> PROVE SharesInv'
  BY <1>2 DEF SharesInv
<1>3. ASSUME NEW k \in Key, NEW price \in Prices, NEW n \in Sizes,
             NEW plain \in BOOLEAN,
             \/ Buy(k, price, n, plain)
             \/ BuyRefused(k, price, n, plain)
      PROVE SharesInv'
  <2>1. CASE Buy(k, price, n, plain)
    <3>1. /\ size' = [size EXCEPT ![k] = size[k] + n]
          /\ trades' = Append(trades, Trade("BUY", k, n)) /\ disk' = disk
      BY <2>1 DEF Buy, BuyFilled, SharesAfterBuy
    <3>2. Trade("BUY", k, n) \in TradeType
      BY DEF Trade, TradeType
    <3>3. ASSUME NEW l \in Key PROVE Kept(size'[l], trades', l)
      <4>1. /\ size[l] \in Nat /\ size'[l] \in Nat /\ Kept(size[l], trades, l)
            /\ IF l = k THEN size'[l] = size[l] + n ELSE size'[l] = size[l]
        BY <1>0, <3>1 DEF SharesInv
      <4>2. QED
        BY <1>0, <3>1, <3>2, <4>1, TradeShares DEF Trade
    <3>4. QED
      BY <1>1, <3>1, <3>3
  <2>2. CASE BuyRefused(k, price, n, plain)
    BY <1>2, <2>2 DEF BuyRefused, vars, bookVars
  <2>3. QED
    BY <1>3, <2>1, <2>2
<1>4. ASSUME NEW k \in Key, NEW price \in Prices, NEW n \in Sizes, Sell(k, price, n)
      PROVE SharesInv'
  <2>1. /\ size' = [size EXCEPT ![k] = IF n < size[k] THEN size[k] - n ELSE 0]
        /\ trades' = Append(trades, Trade("SELL", k, n)) /\ disk' = disk
    BY <1>4 DEF Sell, SellFilled
  <2>2. Trade("SELL", k, n) \in TradeType /\ n \in Nat
    BY DEF Trade, TradeType
  <2>3. ASSUME NEW l \in Key PROVE Kept(size'[l], trades', l)
    <3>1. /\ size[l] \in Nat /\ size'[l] \in Nat /\ Kept(size[l], trades, l)
          /\ IF l = k THEN size'[l] + n >= size[l] ELSE size'[l] = size[l]
      BY <1>0, <2>1, <2>2 DEF SharesInv
    <3>2. QED
      BY <1>0, <2>1, <2>2, <3>1, TradeShares DEF Trade
  <2>4. QED
    BY <1>1, <2>1, <2>3
<1>5. ASSUME NEW k \in Key, NEW price \in Prices, NEW n \in Sizes, SellNothing(k, price, n)
      PROVE SharesInv'
  BY <1>2, <1>5 DEF SellNothing
<1>6. ASSUME NEW b \in InitialBalances, Start(b) PROVE SharesInv'
  BY <1>1, <1>6, FreshShares DEF Start
<1>7. CASE Crash \/ CrashInSave
  BY <1>1, <1>7, FreshShares DEF Crash, CrashInSave
<1>8. CASE SaveState
  BY <1>8 DEF SaveState, bookVars, Exported, SharesInv
<1>9. CASE LoadState
  BY <1>9 DEF LoadState, BookBecomes, SharesInv
<1>10. CASE UNCHANGED vars
  BY <1>2, <1>10 DEF vars, bookVars
<1>11. QED
  BY <1>3, <1>4, <1>5, <1>6, <1>7, <1>8, <1>9, <1>10, Zenon DEF Next

\* The trade history accounts for every position: no share that was bought and
\* not sold is missing, in any run of buys, sells, saves, loads and crashes
\* (execution/paper_executor.py).
THEOREM SharesAccountedFor == Spec => []NoShareLost
<1>1. Init => TypeOK /\ SharesInv
  <2>1. SUFFICES ASSUME Init PROVE SharesInv
    BY TypeInit
  <2>2. disk = NoFile /\ trades = << >> /\ \A k \in Key : size[k] = 0
    BY <2>1 DEF Init
  <2>3. ASSUME NEW k \in Key PROVE Kept(0, << >>, k)
    BY EmptyHistory
  <2>4. QED
    BY <2>2, <2>3 DEF SharesInv
<1>2. TypeOK /\ SharesInv /\ [Next]_vars => TypeOK' /\ SharesInv'
  BY TypeStep, SharesStep
<1>3. SharesInv => NoShareLost
  BY DEF SharesInv, Kept, VolumeIn, Moving, NoShareLost, Volume
<1>4. QED
  BY <1>1, <1>2, <1>3, PTL DEF Spec

=============================================================================
