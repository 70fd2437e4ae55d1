--------------------------- MODULE SimulationProofs ---------------------------
(***************************************************************************)
(* Theorems about Simulation for any markets, prices, sizes, fee and       *)
(* limits: every state is well typed and its positions are in one order,   *)
(* the loop never holds both outcomes of a market, the capital in          *)
(* positions is within the limits, and settlements explain the book.  The  *)
(* lemmas about the components are used through instances of their proof   *)
(* modules.                                                                *)
(***************************************************************************)
EXTENDS Simulation, TotalsTheorems, TLAPS

RiskThms == INSTANCE RiskControllerProofs WITH
                Category <- {}, MaxCategory <- 0, TradeCooldown <- 0,
                Amounts <- Nat, Balances <- Nat, Recategorise <- FALSE

PaperThms == INSTANCE PaperExecutorProofs WITH
                 Prices <- EntryPrices \cup Quotes, Sizes <- Shares,
                 InitialBalances <- {InitialBalance},
                 NoFile <- None, TornFile <- None, MaxSaved <- 0, MaxUnbacked <- 0

-----------------------------------------------------------------------------
(* What the proofs use of the assumptions, also under the names that the   *)
(* definitions have in the instances.                                      *)

Price == EntryPrices \cup Quotes

LEMMA Constants ==
    /\ IsFiniteSet(Market) /\ None \notin Nat
    /\ MaxTotal \in Nat /\ MaxMarket \in Nat /\ MaxTrade \in Nat
    /\ DailyLossLimit \in Nat /\ DrawdownPct \in 1 .. 99 /\ PositionPct \in 1 .. 99
    /\ Cooldown \in Nat \ {0} /\ ArmPeriod \in Nat /\ MinObs \in Nat \ {0}
    /\ InitialBalance \in Nat /\ FeePct \in 0 .. 100 /\ Dollar \in Nat
    /\ EntryPrices \subseteq Nat /\ Quotes \subseteq Nat /\ Shares \subseteq Nat \ {0}
    /\ Price \subseteq Nat
BY SimulationAssumption DEF Price

\* The positions of an executor are those of finitely many keys.
LEMMA KeysFinite ==
    /\ IsFiniteSet(Key)
    /\ \A m \in Market : IsFiniteSet({m} \X Outcome) /\ {m} \X Outcome \subseteq Key
<1>1. IsFiniteSet({"Yes"}) /\ Outcome = {"Yes"} \cup {"No"}
  BY FS_Singleton DEF Outcome
<1>2. IsFiniteSet(Outcome)
  BY <1>1, FS_AddElement
<1>3. IsFiniteSet(Key)
  BY <1>2, Constants, FS_Product DEF Key
<1>4. ASSUME NEW m \in Market PROVE IsFiniteSet({m} \X Outcome) /\ {m} \X Outcome \subseteq Key
  <2>1. IsFiniteSet({m})
    BY FS_Singleton
  <2>2. QED
    BY <1>2, <2>1, FS_Product DEF Key
<1>5. QED
  BY <1>3, <1>4

LEMMA RiskOk == RiskThms!IsFiniteSet(Market)
<1>1. \A S : RiskThms!IsFiniteSet(S) <=> IsFiniteSet(S)
  BY DEF IsFiniteSet, RiskThms!IsFiniteSet
<1>2. QED
  BY <1>1, Constants

LEMMA PaperOk == PaperThms!IsFiniteSet(Key) /\ EntryPrices \cup Quotes \subseteq Nat
<1>1. \A S : PaperThms!IsFiniteSet(S) <=> IsFiniteSet(S)
  BY DEF IsFiniteSet, PaperThms!IsFiniteSet
<1>2. QED
  BY <1>1, KeysFinite, Constants

\* The sums of the instances are those of this module.
LEMMA SameTotals ==
    /\ \A f : Risk!Total(f) = Total(f)
    /\ \A f : RiskThms!Total(f) = Total(f)
<1>1. /\ \A S : Risk!Cardinality(S) = Cardinality(S)
      /\ \A S : RiskThms!Cardinality(S) = Cardinality(S)
  BY DEF Cardinality, Risk!Cardinality, RiskThms!Cardinality
<1>2. \A f : Risk!Units(f) = Units(f) /\ RiskThms!Units(f) = Units(f)
  BY DEF Units, Risk!Units, RiskThms!Units
<1>3. QED
  BY <1>1, <1>2 DEF Total, Risk!Total, RiskThms!Total

LEMMA SameTypes ==
    /\ Risk!TypeOK <=> RiskThms!TypeOK
    /\ Paper!TypeOK <=> PaperThms!TypeOK
<1>1. Risk!TypeOK <=> RiskThms!TypeOK
  BY DEF Risk!TypeOK, Risk!FileState, Risk!NoFile, Risk!Exported,
         RiskThms!TypeOK, RiskThms!FileState, RiskThms!NoFile, RiskThms!Exported
<1>2. Paper!TypeOK <=> PaperThms!TypeOK
  BY DEF Paper!TypeOK, Paper!Book, Paper!TradeType, Paper!Exported,
         PaperThms!TypeOK, PaperThms!Book, PaperThms!TradeType, PaperThms!Exported
<1>3. QED
  BY <1>1, <1>2

-----------------------------------------------------------------------------
(* The steps of the components, as steps their proof modules know.         *)

LEMMA SameRiskSteps ==
    /\ Risk!CheckBlocked => RiskThms!CheckBlocked
    /\ \A usd \in Nat, bal \in Nat :
          Risk!CheckBreach(usd, bal) => RiskThms!CheckBreach(usd, bal)
    /\ \A m \in Market, usd \in Nat, bal \in Nat, gate \in BOOLEAN :
          Risk!CheckDenied(m, usd, bal, gate) => RiskThms!CheckDenied(m, usd, bal, gate)
    /\ \A m \in Market, usd \in Nat, bal \in Nat, recorded \in Nat :
          Risk!CheckAllowed(m, usd, bal, TRUE, recorded)
            => RiskThms!CheckAllowed(m, usd, bal, TRUE, recorded)
    /\ \A bal \in Nat : Risk!UpdateBalance(bal) => RiskThms!UpdateBalance(bal)
    /\ Risk!Start(TRUE, FALSE) => RiskThms!Start(TRUE, FALSE)
    /\ Risk!Crash => RiskThms!Crash
    /\ Risk!Tick => RiskThms!Tick
    /\ Risk!Init => RiskThms!Init
<1> USE DEF Risk!killVars, Risk!drawdownVars, Risk!limitVars, Risk!NoFile, Risk!NoObs,
            RiskThms!killVars, RiskThms!drawdownVars, RiskThms!limitVars,
            RiskThms!NoFile, RiskThms!NoObs
<1>1. Risk!CheckBlocked => RiskThms!CheckBlocked
  BY DEF Risk!CheckBlocked, RiskThms!CheckBlocked, Risk!Blocked, RiskThms!Blocked
<1>2. \A p, bal : Risk!InDrawdown(p, bal) <=> RiskThms!InDrawdown(p, bal)
  BY DEF Risk!InDrawdown, RiskThms!InDrawdown
<1>3. /\ Risk!Blocked <=> RiskThms!Blocked
      /\ Risk!ObsAtCheck = RiskThms!ObsAtCheck
      /\ Risk!BreachesAtCheck = RiskThms!BreachesAtCheck
      /\ Risk!FilesAtCheck = RiskThms!FilesAtCheck
      /\ \A o : Risk!Armed(o) <=> RiskThms!Armed(o)
      /\ \A o : Risk!Observed(o) = RiskThms!Observed(o)
      /\ \A i : Risk!AtMost(i, MinObs) = RiskThms!AtMost(i, MinObs)
      /\ \A f : Risk!Persisted(f) = RiskThms!Persisted(f)
  BY SameTotals
     DEF Risk!Blocked, RiskThms!Blocked, Risk!ObsAtCheck, RiskThms!ObsAtCheck,
         Risk!BreachesAtCheck, RiskThms!BreachesAtCheck, Risk!FilesAtCheck, RiskThms!FilesAtCheck,
         Risk!Cleared, RiskThms!Cleared, Risk!Armed, RiskThms!Armed,
         Risk!Observed, RiskThms!Observed, Risk!AtMost, RiskThms!AtMost,
         Risk!Persisted, RiskThms!Persisted
<1>4. Risk!Released <=> RiskThms!Released
  BY <1>3 DEF Risk!Released, RiskThms!Released
<1>5. \A f : Risk!EngageFrom(f, "drawdown") <=> RiskThms!EngageFrom(f, "drawdown")
  BY <1>3 DEF Risk!EngageFrom, RiskThms!EngageFrom
<1>6. ASSUME NEW m \in Market, NEW usd \in Nat, NEW bal \in Nat, NEW gate \in BOOLEAN
      PROVE  /\ Risk!WouldBreach(usd, bal) <=> RiskThms!WouldBreach(usd, bal)
             /\ Risk!WithinLimits(m, usd, bal, gate) <=> RiskThms!WithinLimits(m, usd, bal, gate)
  BY <1>2, SameTotals
     DEF Risk!WouldBreach, RiskThms!WouldBreach, Risk!WithinLimits, RiskThms!WithinLimits
<1>7. ASSUME NEW usd \in Nat, NEW bal \in Nat, Risk!CheckBreach(usd, bal)
      PROVE  RiskThms!CheckBreach(usd, bal)
  <2>1. Risk!WouldBreach(usd, bal) <=> RiskThms!WouldBreach(usd, bal)
    BY <1>2 DEF Risk!WouldBreach, RiskThms!WouldBreach
  <2>2. Risk!Armed(obs') <=> RiskThms!Armed(obs')
    BY <1>3
  <2>3. QED
    BY <1>3, <1>4, <1>5, <1>7, <2>1, <2>2 DEF Risk!CheckBreach, RiskThms!CheckBreach
<1>8. ASSUME NEW m \in Market, NEW usd \in Nat, NEW bal \in Nat, NEW gate \in BOOLEAN,
             Risk!CheckDenied(m, usd, bal, gate)
      PROVE  RiskThms!CheckDenied(m, usd, bal, gate)
  BY <1>3, <1>4, <1>6, <1>8 DEF Risk!CheckDenied, RiskThms!CheckDenied
<1>9. ASSUME NEW m \in Market, NEW usd \in Nat, NEW bal \in Nat, NEW recorded \in Nat,
             Risk!CheckAllowed(m, usd, bal, TRUE, recorded)
      PROVE  RiskThms!CheckAllowed(m, usd, bal, TRUE, recorded)
  BY <1>3, <1>4, <1>6, <1>9
     DEF Risk!CheckAllowed, RiskThms!CheckAllowed, Risk!RecordFill, RiskThms!RecordFill
<1>10. ASSUME NEW bal \in Nat, Risk!UpdateBalance(bal)
       PROVE  RiskThms!UpdateBalance(bal)
  <2>1. Risk!InDrawdown(peak', bal) <=> RiskThms!InDrawdown(peak', bal)
    BY <1>2
  <2>2. Risk!Armed(obs') <=> RiskThms!Armed(obs')
    BY <1>3
  <2>3. Risk!Engage("drawdown") <=> RiskThms!Engage("drawdown")
    BY <1>5 DEF Risk!Engage, RiskThms!Engage
  <2>4. QED
    BY <1>3, <1>10, <2>1, <2>2, <2>3
       DEF Risk!UpdateBalance, RiskThms!UpdateBalance, Risk!PeakAfter, RiskThms!PeakAfter
<1>11. Risk!Start(TRUE, FALSE) => RiskThms!Start(TRUE, FALSE)
  BY DEF Risk!Start, RiskThms!Start, Risk!RestoreKillSwitch, RiskThms!RestoreKillSwitch,
         Risk!Cleared, RiskThms!Cleared, Risk!LimitsBecome, RiskThms!LimitsBecome,
         Risk!FreshLimits, RiskThms!FreshLimits
<1>12. Risk!Crash => RiskThms!Crash
  BY DEF Risk!Crash, RiskThms!Crash, Risk!MemoryLost, RiskThms!MemoryLost,
         Risk!LimitsBecome, RiskThms!LimitsBecome, Risk!FreshLimits, RiskThms!FreshLimits
<1>13. Risk!Tick => RiskThms!Tick
  BY DEF Risk!Tick, RiskThms!Tick, Risk!Older, RiskThms!Older, Risk!ObsAged, RiskThms!ObsAged
<1>14. Risk!Init => RiskThms!Init
  BY DEF Risk!Init, RiskThms!Init
<1>15. QED
  BY <1>1, <1>7, <1>8, <1>9, <1>10, <1>11, <1>12, <1>13, <1>14

LEMMA SamePaperSteps ==
    /\ \A k \in Key, price \in Price, n \in Shares :
          /\ Paper!Buy(k, price, n, TRUE) => PaperThms!Buy(k, price, n, TRUE)
          /\ Paper!Sell(k, price, n) => PaperThms!Sell(k, price, n)
    /\ Paper!Start(InitialBalance) => PaperThms!Start(InitialBalance)
    /\ Paper!Crash => PaperThms!Crash
    /\ Paper!Init => PaperThms!Init
<1> USE DEF Paper!vars, Paper!bookVars, PaperThms!vars, PaperThms!bookVars,
            Paper!Fee, PaperThms!Fee, Paper!Affordable, PaperThms!Affordable,
            Paper!Duplicate, PaperThms!Duplicate, Paper!Trade, PaperThms!Trade
<1>1. ASSUME NEW k \in Key, NEW price \in Price, NEW n \in Shares,
             Paper!Buy(k, price, n, TRUE)
      PROVE  PaperThms!Buy(k, price, n, TRUE)
  BY <1>1 DEF Paper!Buy, PaperThms!Buy, Paper!BuyFilled, PaperThms!BuyFilled,
              Paper!SharesAfterBuy, PaperThms!SharesAfterBuy
<1>2. ASSUME NEW k \in Key, NEW price \in Price, NEW n \in Shares, Paper!Sell(k, price, n)
      PROVE  PaperThms!Sell(k, price, n)
  BY <1>2 DEF Paper!Sell, PaperThms!Sell, Paper!SellFilled, PaperThms!SellFilled,
              Paper!CostOf, PaperThms!CostOf
<1>3. /\ Paper!Start(InitialBalance) => PaperThms!Start(InitialBalance)
      /\ Paper!Crash => PaperThms!Crash
      /\ Paper!Init => PaperThms!Init
  BY DEF Paper!Start, PaperThms!Start, Paper!Crash, PaperThms!Crash, Paper!Init, PaperThms!Init,
         Paper!BookBecomes, PaperThms!BookBecomes, Paper!Fresh, PaperThms!Fresh
<1>4. QED
  BY <1>1, <1>2, <1>3

-----------------------------------------------------------------------------
(* Type correctness of the controller and of the executor.                 *)

\* Every step the loop takes of the risk controller keeps its types.
LEMMA RiskTypes ==
    ASSUME Risk!TypeOK
    PROVE  /\ Risk!CheckBlocked => Risk!TypeOK'
           /\ \A usd \in Nat, bal \in Nat : Risk!CheckBreach(usd, bal) => Risk!TypeOK'
           /\ \A m \in Market, usd \in Nat, bal \in Nat, gate \in BOOLEAN :
                 Risk!CheckDenied(m, usd, bal, gate) => Risk!TypeOK'
           /\ \A m \in Market, usd \in Nat, bal \in Nat, recorded \in Nat :
                 Risk!CheckAllowed(m, usd, bal, TRUE, recorded) => Risk!TypeOK'
           /\ \A bal \in Nat : Risk!UpdateBalance(bal) => Risk!TypeOK'
           /\ Risk!Start(TRUE, FALSE) => Risk!TypeOK'
           /\ Risk!Crash => Risk!TypeOK'
           /\ Risk!Tick => Risk!TypeOK'
           /\ UNCHANGED <<up, riskVars>> => Risk!TypeOK'
<1>1. RiskThms!TypeOK /\ (RiskThms!TypeOK' => Risk!TypeOK')
  <2>1. Risk!TypeOK <=> RiskThms!TypeOK
    BY SameTypes
  <2>2. Risk!TypeOK' <=> RiskThms!TypeOK'
    BY SameTypes, PTL
  <2>3. QED
    BY <2>1, <2>2
<1>2. RiskThms!Next \/ UNCHANGED RiskThms!vars => RiskThms!TypeOK'
  BY <1>1, RiskOk, Constants, RiskThms!TypeStep
<1>3. RiskThms!CheckBlocked => RiskThms!Next
  BY DEF RiskThms!Next, RiskThms!Check
<1>4. \A usd \in Nat, bal \in Nat : RiskThms!CheckBreach(usd, bal) => RiskThms!Next
  BY DEF RiskThms!Next, RiskThms!Check
<1>5. \A m \in Market, usd \in Nat, bal \in Nat, gate \in BOOLEAN :
         RiskThms!CheckDenied(m, usd, bal, gate) => RiskThms!Next
  BY DEF RiskThms!Next, RiskThms!Check
<1>6. /\ RiskThms!Start(TRUE, FALSE) \/ RiskThms!Crash \/ RiskThms!Tick => RiskThms!Next
      /\ \A bal \in Nat : RiskThms!UpdateBalance(bal) => RiskThms!Next
  BY DEF RiskThms!Next
<1>7. ASSUME NEW m \in Market, NEW usd \in Nat, NEW bal \in Nat, NEW recorded \in Nat,
             RiskThms!CheckAllowed(m, usd, bal, TRUE, recorded)
      PROVE  RiskThms!TypeOK'
  <2>1. /\ RiskThms!Released /\ RiskThms!RecordFill(m, recorded)
        /\ obs' = RiskThms!ObsAtCheck /\ breaches' = RiskThms!BreachesAtCheck
        /\ verdict' = "allow"
        /\ UNCHANGED <<up, peak, category, dailyLoss, tradeAge, saved>>
    BY <1>7 DEF RiskThms!CheckAllowed
  <2>2. QED
    BY <1>1, <2>1, RiskOk, Constants, RiskThms!AllowedType
<1>8. UNCHANGED <<up, riskVars>> => UNCHANGED RiskThms!vars
  BY DEF riskVars, RiskThms!vars, RiskThms!killVars, RiskThms!drawdownVars, RiskThms!limitVars
<1>9. ASSUME NEW usd \in Nat, NEW bal \in Nat, Risk!CheckBreach(usd, bal) PROVE Risk!TypeOK'
  BY <1>1, <1>2, <1>4, <1>9, SameRiskSteps, Zenon
<1>10. ASSUME NEW m \in Market, NEW usd \in Nat, NEW bal \in Nat, NEW gate \in BOOLEAN,
              Risk!CheckDenied(m, usd, bal, gate)
       PROVE  Risk!TypeOK'
  <2>1. RiskThms!CheckDenied(m, usd, bal, gate)
    BY <1>10, SameRiskSteps
  <2>2. QED
    BY <1>1, <1>2, <1>5, <2>1
<1>11. ASSUME NEW m \in Market, NEW usd \in Nat, NEW bal \in Nat, NEW recorded \in Nat,
              Risk!CheckAllowed(m, usd, bal, TRUE, recorded)
       PROVE  Risk!TypeOK'
  <2>1. RiskThms!CheckAllowed(m, usd, bal, TRUE, recorded)
    BY <1>11, SameRiskSteps
  <2>2. QED
    BY <1>1, <1>7, <2>1
<1>12. ASSUME NEW bal \in Nat, Risk!UpdateBalance(bal) PROVE Risk!TypeOK'
  BY <1>1, <1>2, <1>6, <1>12, SameRiskSteps, Zenon
<1>13. QED
  BY <1>1, <1>2, <1>3, <1>6, <1>8, <1>9, <1>10, <1>11, <1>12, SameRiskSteps, Zenon

\* So does every step of the executor that the loop takes through its methods.
LEMMA PaperTypes ==
    ASSUME Paper!TypeOK
    PROVE  /\ \A k \in Key, price \in Price, n \in Shares :
                 Paper!Buy(k, price, n, TRUE) \/ Paper!Sell(k, price, n) => Paper!TypeOK'
           /\ Paper!Start(InitialBalance) => Paper!TypeOK'
           /\ Paper!Crash => Paper!TypeOK'
           /\ UNCHANGED <<up, bookVars>> => Paper!TypeOK'
<1>1. PaperThms!TypeOK /\ (PaperThms!TypeOK' => Paper!TypeOK')
  <2>1. Paper!TypeOK <=> PaperThms!TypeOK
    BY SameTypes
  <2>2. Paper!TypeOK' <=> PaperThms!TypeOK'
    BY SameTypes, PTL
  <2>3. QED
    BY <2>1, <2>2
<1>2. PaperThms!Next \/ UNCHANGED PaperThms!vars => PaperThms!TypeOK'
  BY <1>1, PaperOk, Constants, PaperThms!TypeStep
<1>3. \A k \in Key, price \in Price, n \in Shares :
         PaperThms!Buy(k, price, n, TRUE) \/ PaperThms!Sell(k, price, n) => PaperThms!Next
  BY DEF PaperThms!Next, Price
<1>4. PaperThms!Start(InitialBalance) \/ PaperThms!Crash => PaperThms!Next
  BY DEF PaperThms!Next
<1>5. UNCHANGED <<up, bookVars>> => UNCHANGED PaperThms!vars
  BY DEF bookVars, PaperThms!vars, PaperThms!bookVars
<1>6. QED
  BY <1>1, <1>2, <1>3, <1>4, <1>5, SamePaperSteps, Zenon

\* The fields of the book.
LEMMA BookTypes ==
    ASSUME Paper!TypeOK
    PROVE  /\ initial \in Nat /\ balance \in Nat /\ fees \in Nat /\ realized \in Int
           /\ size \in [Key -> Nat] /\ cost \in [Key -> Nat]
BY DEF Paper!TypeOK, Paper!Exported, Paper!Book

\* What an order costs, and the fee for it.
LEMMA OrderTypes ==
    ASSUME NEW price \in Price, NEW n \in Shares
    PROVE  /\ price * n \in Nat /\ Paper!Fee(price, n) \in Nat
<1>1. price * n \in Nat /\ PaperThms!Fee(price, n) \in 0 .. price * n
  BY Constants, PaperOk, PaperThms!FeeType DEF Price
<1>2. PaperThms!Fee(price, n) = Paper!Fee(price, n)
  BY DEF PaperThms!Fee, Paper!Fee
<1> DEFINE value == price * n
           fee == Paper!Fee(price, n)
<1>3. value \in Nat /\ fee \in 0 .. value
  BY <1>1, <1>2
<1> HIDE DEF value, fee
<1>4. fee \in Nat
  BY <1>3
<1>5. QED
  BY <1>3, <1>4 DEF value, fee

-----------------------------------------------------------------------------
(* The loop's own variables.                                               *)

ScanTypes ==
    /\ pc \in {"scan", "markets", "settle", "manage", "wait"}
    /\ seen \subseteq Market /\ closed \subseteq seen /\ todo \subseteq seen
    /\ entered \subseteq Key
    /\ settledMarkets \subseteq Market
    /\ settledProfit \in Int

\* The types of everything but the order of the positions.
Types == Risk!TypeOK /\ Paper!TypeOK /\ ScanTypes

\* What a position holds is what one order bought, for it is never added to and
\* sold or settled as a whole; and a process that does not run has settled
\* nothing.
WholeOrders == \A k \in Key : size[k] \in Shares \cup {0}
LoopInv == WholeOrders /\ (~up => settledProfit = 0)

\* The positions to be settled, and what they pay.
LEMMA SettleTypes ==
    ASSUME Paper!TypeOK, ScanTypes
    PROVE  /\ ToSettle \in SUBSET Key
           /\ IsFiniteSet(ToSettle)
           /\ Payout(ToSettle) \in Nat
           /\ TotalOver(cost, ToSettle) \in Nat
           /\ {k[1] : k \in ToSettle} \subseteq Market
           /\ Removed(size, ToSettle) \in [Key -> Nat]
           /\ Removed(cost, ToSettle) \in [Key -> Nat]
<1>1. ToSettle \in SUBSET Key
  BY DEF ToSettle, Key, ScanTypes
<1>2. PICK S \in SUBSET Key : S = ToSettle
  BY <1>1
<1>3. size \in [Key -> Nat] /\ cost \in [Key -> Nat]
  BY BookTypes
<1> DEFINE W == {k \in S : k[2] = "Yes"}
<1>4. W \in SUBSET Key /\ IsFiniteSet(W) /\ IsFiniteSet(S)
  BY KeysFinite, FS_Subset
<1>5. TotalOver(size, W) \in Nat /\ TotalOver(cost, S) \in Nat
  <2> HIDE DEF W
  <2>1. QED
    BY <1>3, <1>4, TotalOverType
<1>6. Payout(S) \in Nat
  <2>1. Payout(S) = Dollar * TotalOver(size, W)
    BY DEF Payout
  <2> HIDE DEF W
  <2>2. QED
    BY <1>5, <2>1, Constants
<1>7. {k[1] : k \in S} \subseteq Market
  BY DEF Key
<1>8. Removed(size, S) \in [Key -> Nat] /\ Removed(cost, S) \in [Key -> Nat]
  BY <1>3 DEF Removed
<1>9. QED
  BY <1>2, <1>4, <1>5, <1>6, <1>7, <1>8

\* A position that is closed is sold as a whole.
LEMMA CloseSells ==
    ASSUME Types, LoopInv, NEW k \in Key, NEW quote \in Quotes, Close(k, quote)
    PROVE  \E n \in Shares : n = size[k] /\ Paper!Sell(k, quote, n)
<1>1. size[k] > 0 /\ size[k] \in Shares \cup {0}
  BY DEF Close, Paper!Sell, LoopInv, WholeOrders
<1>2. size[k] \in Shares
  BY <1>1
<1>3. Paper!Sell(k, quote, size[k])
  BY DEF Close
<1>4. QED
  BY <1>2, <1>3

\* What the risk controller does in one step of the loop.
LEMMA RiskTypesStep ==
    ASSUME Types, [Next]_vars
    PROVE  Risk!TypeOK'
<1>0. Risk!TypeOK /\ Paper!TypeOK
  BY DEF Types
<1>1. PICK bal \in Nat : bal = balance
  BY <1>0, BookTypes
<1>2. CASE UNCHANGED <<up, riskVars>>
  BY <1>0, <1>2, RiskTypes
<1>3. ASSUME NEW m \in Market, NEW price \in EntryPrices, NEW n \in Shares, Refuse(m, price, n)
      PROVE  Risk!TypeOK'
  <2>1. PICK usd \in Nat : usd = price * n
    BY OrderTypes DEF Price
  <2>2. \/ Risk!CheckBlocked
        \/ Risk!CheckBreach(usd, bal)
        \/ \E gate \in BOOLEAN : Risk!CheckDenied(m, usd, bal, gate)
    BY <1>1, <1>3, <2>1 DEF Refuse, Refused
  <2>3. QED
    BY <1>0, <2>2, RiskTypes, Zenon
<1>4. ASSUME NEW m \in Market, NEW price \in EntryPrices, NEW n \in Shares,
             \/ \E o \in Outcome : Enter(m, o, price, n)
             \/ EnterNot(m, price, n)
      PROVE  Risk!TypeOK'
  <2>1. PICK usd \in Nat : usd = price * n
    BY OrderTypes DEF Price
  <2>2. 0 \in Nat
    OBVIOUS
  <2>3. Risk!CheckAllowed(m, usd, bal, TRUE, usd) \/ Risk!CheckAllowed(m, usd, bal, TRUE, 0)
    BY <1>1, <1>4, <2>1 DEF Enter, EnterNot
  <2>4. QED
    BY <1>0, <2>2, <2>3, RiskTypes, Zenon
<1>5. CASE ReportBalance
  <2>1. Risk!UpdateBalance(bal)
    BY <1>1, <1>5 DEF ReportBalance
  <2>2. QED
    BY <1>0, <2>1, RiskTypes, Zenon
<1>6. CASE Settle \/ CloseNot \/ UNCHANGED vars
  BY <1>2, <1>6 DEF Settle, CloseNot, vars
<1>7. ASSUME NEW k \in Key, NEW quote \in Quotes, Close(k, quote) PROVE Risk!TypeOK'
  BY <1>2, <1>7 DEF Close, Paper!Sell
<1>8. ASSUME NEW markets \in SUBSET Market, NEW resolved \in SUBSET markets,
             Scan(markets, resolved)
      PROVE  Risk!TypeOK'
  BY <1>2, <1>8 DEF Scan
<1>9. ASSUME NEW m \in Market, Hold(m) PROVE Risk!TypeOK'
  BY <1>2, <1>9 DEF Hold
<1>10. CASE Wait \/ Crash \/ Start
  BY <1>0, <1>10, RiskTypes, Zenon DEF Wait, Crash, Start
<1>11. CASE OtherProcess
  <2>1. file' \in Risk!FileState
    BY <1>0, <1>11, Constants
       DEF OtherProcess, Risk!TypeOK, Risk!Persisted, Risk!Cleared, Risk!FileState, Risk!NoFile
  <2>2. QED
    BY <1>0, <1>11, <2>1 DEF OtherProcess, Risk!TypeOK
<1>12. CASE Iteration
  BY <1>3, <1>4, <1>5, <1>6, <1>7, <1>8, <1>9, <1>10, <1>12, Zenon DEF Iteration
<1>13. QED
  BY <1>6, <1>10, <1>11, <1>12, Zenon DEF Next

\* What a step does to the book, its order and the exposure: nothing at all, or it
\* enters, settles or closes positions, or the process ends or starts.
Quiet == UNCHANGED <<up, exposure, bookVars, order, settledProfit>>

LEMMA StepKinds ==
    ASSUME Types, [Next]_vars
    PROVE  \/ Quiet
           \/ \E m \in Market, o \in Outcome, price \in EntryPrices, n \in Shares :
                 Enter(m, o, price, n)
           \/ Settle
           \/ \E k \in Key, quote \in Quotes : Close(k, quote)
           \/ Crash
           \/ Start
<1>0. exposure \in [Market -> Nat]
  BY DEF Types, Risk!TypeOK
<1>1. ASSUME NEW m \in Market, NEW price \in EntryPrices, NEW n \in Shares,
             Refuse(m, price, n) \/ EnterNot(m, price, n)
      PROVE  Quiet
  <2>1. CASE Refuse(m, price, n)
    BY <2>1 DEF Quiet, Refuse, Refused, Risk!CheckBlocked, Risk!CheckBreach, Risk!CheckDenied,
                Risk!limitVars, settleVars
  <2>2. CASE EnterNot(m, price, n)
    <3>1. exposure' = [exposure EXCEPT ![m] = @ + 0] /\ up' = up
      BY <2>2 DEF EnterNot, Risk!CheckAllowed, Risk!RecordFill
    <3>2. exposure' = exposure
      BY <1>0, <3>1
    <3>3. QED
      BY <2>2, <3>1, <3>2 DEF Quiet, EnterNot, settleVars
  <2>3. QED
    BY <1>1, <2>1, <2>2
<1>2. CASE CloseNot \/ UNCHANGED vars
  BY <1>2 DEF Quiet, CloseNot, riskVars, vars, settleVars
<1>3. CASE ReportBalance
  BY <1>3 DEF Quiet, ReportBalance, Risk!UpdateBalance, Risk!limitVars, settleVars
<1>4. CASE Wait
  BY <1>4 DEF Quiet, Wait, Risk!Tick, settleVars
<1>5. CASE OtherProcess
  BY <1>5 DEF Quiet, OtherProcess, settleVars
<1>6. ASSUME NEW markets \in SUBSET Market, NEW resolved \in SUBSET markets,
             Scan(markets, resolved)
      PROVE  Quiet
  BY <1>6 DEF Quiet, Scan, riskVars, settleVars
<1>7. ASSUME NEW m \in Market, Hold(m) PROVE Quiet
  BY <1>7 DEF Quiet, Hold, riskVars, settleVars
<1>8. QED
  BY <1>1, <1>2, <1>3, <1>4, <1>5, <1>6, <1>7, Zenon DEF Next, Iteration

\* What entering a position does to the book.
LEMMA EnterBuys ==
    ASSUME Types, NEW m \in Market, NEW o \in Outcome, NEW price \in EntryPrices,
           NEW n \in Shares, Enter(m, o, price, n)
    PROVE  /\ <<m, o>> \in Key /\ price \in Price
           /\ Paper!Buy(<<m, o>>, price, n, TRUE)
           /\ size[<<m, o>>] = 0
           /\ size' = [size EXCEPT ![<<m, o>>] = n]
           /\ UNCHANGED <<up, settleVars>>
<1>1. <<m, o>> \in Key /\ price \in Price
  BY DEF Key, Price
<1>2. size[<<m, o>>] \in Nat /\ size \in [Key -> Nat]
  BY <1>1, BookTypes DEF Types
<1>3. size[<<m, o>>] = 0
  BY <1>2 DEF Enter, MaySignal, Held
<1>4. Paper!Buy(<<m, o>>, price, n, TRUE) /\ UNCHANGED settleVars
  BY DEF Enter
<1>5. size' = [size EXCEPT ![<<m, o>>] = size[<<m, o>>] + n] /\ up' = up
  BY <1>4 DEF Paper!Buy, Paper!BuyFilled, Paper!SharesAfterBuy
<1>6. 0 + n = n
  BY Constants
<1>7. QED
  BY <1>1, <1>3, <1>4, <1>5, <1>6

\* What closing one does.
LEMMA CloseClears ==
    ASSUME NEW k \in Key, NEW quote \in Quotes, NEW n \in Shares, n = size[k],
           Paper!Sell(k, quote, n)
    PROVE  /\ size' = [size EXCEPT ![k] = 0] /\ cost' = [cost EXCEPT ![k] = 0]
           /\ up' = up
<1>1. ~(n < size[k])
  BY Constants
<1>2. QED
  BY <1>1 DEF Paper!Sell, Paper!SellFilled

LEMMA PaperTypesStep ==
    ASSUME Types, LoopInv, [Next]_vars
    PROVE  Paper!TypeOK'
<1>0. Paper!TypeOK /\ ScanTypes
  BY DEF Types
<1>1. CASE Quiet
  BY <1>0, <1>1, PaperTypes DEF Quiet
<1>2. ASSUME NEW m \in Market, NEW o \in Outcome, NEW price \in EntryPrices, NEW n \in Shares,
             Enter(m, o, price, n)
      PROVE  Paper!TypeOK'
  <2>1. <<m, o>> \in Key /\ price \in Price /\ Paper!Buy(<<m, o>>, price, n, TRUE)
    BY <1>2, EnterBuys
  <2>2. QED
    BY <1>0, <2>1, PaperTypes
<1>3. CASE Settle
  <2>1. /\ balance' = balance + Payout(ToSettle)
        /\ size' = Removed(size, ToSettle) /\ cost' = Removed(cost, ToSettle)
        /\ UNCHANGED <<up, initial, fees, realized, trades, unbacked, disk>>
    BY <1>3 DEF Settle
  <2>2. balance' \in Nat /\ size' \in [Key -> Nat] /\ cost' \in [Key -> Nat]
    BY <1>0, <2>1, SettleTypes, BookTypes
  <2>3. QED
    BY <1>0, <2>1, <2>2 DEF Paper!TypeOK, Paper!Exported, Paper!Book
<1>4. ASSUME NEW k \in Key, NEW quote \in Quotes, Close(k, quote) PROVE Paper!TypeOK'
  <2>1. PICK n \in Shares : Paper!Sell(k, quote, n)
    BY <1>4, CloseSells
  <2>2. quote \in Price
    BY DEF Price
  <2>3. QED
    BY <1>0, <2>1, <2>2, PaperTypes
<1>5. CASE Crash \/ Start
  BY <1>0, <1>5, PaperTypes, Zenon DEF Crash, Start
<1>6. QED
  BY <1>1, <1>2, <1>3, <1>4, <1>5, StepKinds, Zenon

LEMMA LoopInvStep ==
    ASSUME Types, LoopInv, [Next]_vars
    PROVE  LoopInv'
<1>0. size \in [Key -> Nat]
  BY BookTypes DEF Types
<1>1. CASE Quiet
  BY <1>1 DEF Quiet, LoopInv, WholeOrders, bookVars
<1>2. ASSUME NEW m \in Market, NEW o \in Outcome, NEW price \in EntryPrices, NEW n \in Shares,
             Enter(m, o, price, n)
      PROVE  LoopInv'
  <2>1. /\ <<m, o>> \in Key /\ size' = [size EXCEPT ![<<m, o>>] = n]
        /\ UNCHANGED <<up, settledProfit>>
    BY <1>2, EnterBuys DEF settleVars
  <2>2. QED
    BY <1>0, <2>1 DEF LoopInv, WholeOrders
<1>3. CASE Settle
  <2>1. up' = up /\ up /\ size' = Removed(size, ToSettle)
    BY <1>3 DEF Settle
  <2>2. QED
    BY <1>0, <2>1 DEF LoopInv, WholeOrders, Removed
<1>4. ASSUME NEW k \in Key, NEW quote \in Quotes, Close(k, quote) PROVE LoopInv'
  <2>1. PICK n \in Shares : n = size[k] /\ Paper!Sell(k, quote, n)
    BY <1>4, CloseSells
  <2>2. size' = [size EXCEPT ![k] = 0] /\ up' = up
    BY <2>1, CloseClears
  <2>3. settledProfit' = settledProfit
    BY <1>4 DEF Close, settleVars
  <2>4. QED
    BY <1>0, <2>2, <2>3 DEF LoopInv, WholeOrders
<1>5. CASE Crash
  BY <1>5 DEF Crash, Paper!Crash, Paper!BookBecomes, Paper!Fresh, LoopInv, WholeOrders
<1>6. CASE Start
  BY <1>6 DEF Start, settleVars, Paper!Start, Paper!BookBecomes, Paper!Fresh, LoopInv, WholeOrders
<1>7. QED
  BY <1>1, <1>2, <1>3, <1>4, <1>5, <1>6, StepKinds, Zenon

LEMMA ScanTypesStep ==
    ASSUME Types, [Next]_vars
    PROVE  ScanTypes'
<1>0. ScanTypes /\ Paper!TypeOK
  BY DEF Types
<1> USE DEF ScanTypes
<1>1. ASSUME NEW m \in Market, NEW price \in EntryPrices, NEW n \in Shares,
             \/ Refuse(m, price, n)
             \/ \E o \in Outcome : Enter(m, o, price, n)
             \/ EnterNot(m, price, n)
      PROVE  ScanTypes'
  <2>1. CASE Refuse(m, price, n) \/ EnterNot(m, price, n)
    <3>1. todo' = todo \ {m} /\ UNCHANGED <<pc, seen, closed, entered, settledMarkets, settledProfit>>
      BY <2>1 DEF Refuse, EnterNot, settleVars
    <3>2. QED
      BY <1>0, <3>1
  <2>2. ASSUME NEW o \in Outcome, Enter(m, o, price, n) PROVE ScanTypes'
    <3>1. /\ todo' = todo \ {m} /\ entered' = entered \cup {<<m, o>>}
          /\ UNCHANGED <<pc, seen, closed, settledMarkets, settledProfit>>
      BY <2>2 DEF Enter, settleVars
    <3>2. <<m, o>> \in Key
      BY DEF Key
    <3>3. QED
      BY <1>0, <3>1, <3>2
  <2>3. QED
    BY <1>1, <2>1, <2>2
<1>2. CASE ReportBalance \/ CloseNot \/ Wait
  BY <1>0, <1>2 DEF ReportBalance, CloseNot, Wait, scanVars, settleVars
<1>3. CASE Settle
  <2>1. /\ settledMarkets' = settledMarkets \cup {k[1] : k \in ToSettle}
        /\ settledProfit' = settledProfit + Payout(ToSettle) - TotalOver(cost, ToSettle)
        /\ pc' = "manage" /\ UNCHANGED scanVars
    BY <1>3 DEF Settle
  <2>2. /\ {k[1] : k \in ToSettle} \subseteq Market
        /\ Payout(ToSettle) \in Nat /\ TotalOver(cost, ToSettle) \in Nat
    BY <1>0, SettleTypes
  <2>3. settledProfit' \in Int
    BY <1>0, <2>1, <2>2
  <2>4. QED
    BY <1>0, <2>1, <2>2, <2>3 DEF scanVars
<1>4. ASSUME NEW k \in Key, NEW quote \in Quotes, Close(k, quote) PROVE ScanTypes'
  BY <1>0, <1>4 DEF Close, scanVars, settleVars
<1>5. ASSUME NEW markets \in SUBSET Market, NEW resolved \in SUBSET markets,
             Scan(markets, resolved)
      PROVE  ScanTypes'
  BY <1>0, <1>5 DEF Scan, scanVars, settleVars
<1>6. ASSUME NEW m \in Market, Hold(m) PROVE ScanTypes'
  BY <1>0, <1>6 DEF Hold, settleVars
<1>7. CASE Crash \/ Start
  <2>1. CASE Crash
    <3>1. /\ pc' = "scan" /\ seen' = {} /\ closed' = {} /\ todo' = {} /\ entered' = {}
          /\ settledMarkets' = {} /\ settledProfit' = 0
      BY <2>1 DEF Crash
    <3>2. QED
      BY <3>1
  <2>2. CASE Start
    BY <1>0, <2>2 DEF Start, scanVars, settleVars
  <2>3. QED
    BY <1>7, <2>1, <2>2
<1>8. CASE OtherProcess \/ UNCHANGED vars
  BY <1>0, <1>8 DEF OtherProcess, vars, scanVars, settleVars
<1>9. CASE Iteration
  BY <1>1, <1>2, <1>3, <1>4, <1>5, <1>6, <1>9, Zenon DEF Iteration
<1>10. QED
  BY <1>7, <1>8, <1>9, Zenon DEF Next

LEMMA TypesInit == Init => Types /\ LoopInv
<1> SUFFICES ASSUME Init PROVE Types /\ LoopInv
  OBVIOUS
<1>1. RiskThms!Init /\ PaperThms!Init
  BY SameRiskSteps, SamePaperSteps DEF Init
<1>2. RiskThms!TypeOK
  BY <1>1, RiskOk, Constants, RiskThms!TypeInit
<1>3. PaperThms!TypeOK
  BY <1>1, PaperOk, Constants, PaperThms!TypeInit
<1>4. Risk!TypeOK /\ Paper!TypeOK
  BY <1>2, <1>3, SameTypes
<1>5. size = [k \in Key |-> 0]
  BY DEF Init, Paper!Init
<1>6. QED
  BY <1>4, <1>5 DEF Init, Types, ScanTypes, LoopInv, WholeOrders

LEMMA TypesStep == Types /\ LoopInv /\ [Next]_vars => Types' /\ LoopInv'
BY RiskTypesStep, PaperTypesStep, ScanTypesStep, LoopInvStep DEF Types

-----------------------------------------------------------------------------
(* The order of the positions.                                             *)

\* A market that is bought for the first time comes after all others.
LEMMA EnterOrdered ==
    ASSUME Types, OrderOK, NEW m \in Market, NEW o \in Outcome, NEW price \in EntryPrices,
           NEW n \in Shares, Enter(m, o, price, n)
    PROVE  OrderOK'
<1>1. size \in [Key -> Nat] /\ size' = [size EXCEPT ![<<m, o>>] = n] /\ <<m, o>> \in Key
  BY EnterBuys, BookTypes DEF Types
<1>2. order' = Inserted(m)
  BY DEF Enter
<1>3. Listed' = Listed \cup {m}
  BY <1>2 DEF Inserted, Listed
<1>4. \A k \in Key : Held(k)' => k[1] \in Listed'
  <2>1. SUFFICES ASSUME NEW k \in Key, Held(k)' PROVE k[1] \in Listed'
    OBVIOUS
  <2>2. CASE k = <<m, o>>
    BY <1>3, <2>2
  <2>3. CASE k # <<m, o>>
    <3>1. size'[k] = size[k]
      BY <1>1, <2>3
    <3>2. k[1] \in Listed
      BY <2>1, <3>1 DEF Held, OrderOK
    <3>3. QED
      BY <1>3, <3>2
  <2>4. QED
    BY <2>2, <2>3
<1>5. CASE m \in Listed
  <2>1. order' = order /\ Listed' = Listed
    BY <1>2, <1>3, <1>5 DEF Inserted
  <2>2. QED
    BY <1>4, <2>1 DEF OrderOK
<1>6. CASE m \notin Listed
  <2>1. order' = order \cup {<<l, m>> : l \in Listed \cup {m}}
    BY <1>2, <1>6 DEF Inserted
  <2>2. \A l, k \in Listed' : <<l, k>> \in order' <=> k = m \/ <<l, k>> \in order
    BY <1>3, <2>1
  <2>3. \A l \in Market : <<m, l>> \notin order /\ <<l, m>> \notin order
    BY <1>6 DEF OrderOK
  <2>4. order' \subseteq Listed' \X Listed'
    BY <1>3, <2>1 DEF OrderOK
  <2>5. Listed \subseteq Market
    BY DEF Listed
  <2>6. \A l, k \in Listed' :
           /\ <<l, k>> \in order' \/ <<k, l>> \in order'
           /\ <<l, k>> \in order' /\ <<k, l>> \in order' => l = k
    BY <1>3, <2>2, <2>3, <2>5, Zenon DEF OrderOK
  <2>7. \A l, k, j \in Listed' : <<l, k>> \in order' /\ <<k, j>> \in order' => <<l, j>> \in order'
    <3>1. SUFFICES ASSUME NEW l \in Listed', NEW k \in Listed', NEW j \in Listed',
                          <<l, k>> \in order', <<k, j>> \in order', j # m
                   PROVE  <<l, j>> \in order
      BY <2>2
    <3>2. <<k, j>> \in order
      BY <2>2, <3>1
    <3>3. k # m /\ j \in Market
      BY <1>3, <2>3, <2>5, <3>1, <3>2
    <3>4. <<l, k>> \in order
      BY <2>2, <3>1, <3>3
    <3>5. l \in Listed /\ k \in Listed /\ j \in Listed
      BY <3>2, <3>4 DEF OrderOK
    <3>6. QED
      BY <3>2, <3>4, <3>5 DEF OrderOK
  <2>8. QED
    BY <1>4, <2>4, <2>6, <2>7 DEF OrderOK
<1>7. QED
  BY <1>5, <1>6

\* Settling deletes the keys of the markets it settles, and leaves no position in
\* any of them.
LEMMA SettleOrdered ==
    ASSUME Types, OrderOK, Settle
    PROVE  OrderOK'
<1> DEFINE settledNow == {k[1] : k \in ToSettle}
<1>1. /\ size' = Removed(size, ToSettle)
      /\ order' = {p \in order : p[1] \notin settledNow /\ p[2] \notin settledNow}
  BY DEF Settle
<1>2. Listed' = Listed \ settledNow
  BY <1>1 DEF Listed
<1>3. \A k \in Key : Held(k)' => k[1] \in Listed'
  <2>1. SUFFICES ASSUME NEW k \in Key, Held(k)' PROVE k[1] \in Listed'
    OBVIOUS
  <2>2. k \notin ToSettle /\ size'[k] = size[k]
    BY <1>1, <2>1 DEF Removed, Held
  <2>3. Held(k) /\ k[1] \in Listed
    BY <2>1, <2>2 DEF Held, OrderOK
  <2>4. k[1] \notin settledNow
    <3>1. k[1] \notin closed \ settledMarkets
      BY <2>2, <2>3 DEF ToSettle, Key
    <3>2. settledNow \subseteq closed \ settledMarkets
      BY DEF ToSettle
    <3>3. QED
      BY <3>1, <3>2
  <2>5. QED
    BY <1>2, <2>3, <2>4
<1> HIDE DEF settledNow
<1>4. order' \subseteq Listed' \X Listed'
  BY <1>1, <1>2 DEF OrderOK
<1>5. \A l, k \in Listed' : <<l, k>> \in order' <=> <<l, k>> \in order
  BY <1>1, <1>2
<1>6. QED
  BY <1>2, <1>3, <1>4, <1>5 DEF OrderOK

LEMMA OrderStep ==
    ASSUME Types, LoopInv, OrderOK, [Next]_vars
    PROVE  OrderOK'
<1>0. size \in [Key -> Nat]
  BY BookTypes DEF Types
<1>1. CASE Quiet
  BY <1>1 DEF Quiet, bookVars, OrderOK, Held, Listed
<1>2. ASSUME NEW m \in Market, NEW o \in Outcome, NEW price \in EntryPrices, NEW n \in Shares,
             Enter(m, o, price, n)
      PROVE  OrderOK'
  BY <1>2, EnterOrdered
<1>3. CASE Settle
  BY <1>3, SettleOrdered
<1>4. ASSUME NEW k \in Key, NEW quote \in Quotes, Close(k, quote) PROVE OrderOK'
  <2>1. PICK n \in Shares : n = size[k] /\ Paper!Sell(k, quote, n)
    BY <1>4, CloseSells
  <2>2. size' = [size EXCEPT ![k] = 0]
    BY <2>1, CloseClears
  <2>3. order' = order
    BY <1>4 DEF Close
  <2>4. \A j \in Key : Held(j)' => Held(j)
    BY <1>0, <2>2 DEF Held
  <2>5. QED
    BY <2>3, <2>4 DEF OrderOK, Listed
<1>5. CASE Crash \/ Start
  <2>1. size' = [k \in Key |-> 0]
    BY <1>5 DEF Crash, Paper!Crash, Start, Paper!Start, Paper!BookBecomes, Paper!Fresh
  <2>2. \A k \in Key : ~Held(k)'
    BY <2>1 DEF Held
  <2>3. order' = {} \/ order' = order
    BY <1>5 DEF Crash, Start
  <2>4. QED
    BY <2>2, <2>3 DEF OrderOK, Listed
<1>6. QED
  BY <1>1, <1>2, <1>3, <1>4, <1>5, StepKinds, Zenon

\* The controller, the executor and the scan are well typed in every reachable
\* state: among other things cash never goes below zero, whatever is bought,
\* settled and closed; and the markets of the positions are in one order, so that
\* there is one position the loop looks at last (scripts/run_simulation.py).
THEOREM TypeCorrect == Spec => []TypeOK
<1>1. Init => OrderOK
  BY DEF Init, Paper!Init, OrderOK, Held, Listed, Key
<1>2. Types /\ LoopInv /\ OrderOK /\ [Next]_vars => OrderOK'
  BY OrderStep
<1>3. Types /\ OrderOK => TypeOK
  BY DEF Types, ScanTypes, TypeOK
<1>4. QED
  BY <1>1, <1>2, <1>3, TypesInit, TypesStep, PTL DEF Spec

-----------------------------------------------------------------------------
(* One outcome per market.                                                 *)

\* What is held after a step in which no position was opened was held before.
LEMMA StillHeld ==
    ASSUME OneOutcomePerMarket,
           \A k \in Key : size'[k] > 0 => size[k] > 0
    PROVE  OneOutcomePerMarket'
BY DEF OneOutcomePerMarket, HeldIn, Held, Key

LEMMA OneOutcomeStep ==
    ASSUME Types, LoopInv, OneOutcomePerMarket, [Next]_vars
    PROVE  OneOutcomePerMarket'
<1>0. size \in [Key -> Nat]
  BY BookTypes DEF Types
<1>1. CASE Quiet
  BY <1>1, StillHeld DEF Quiet, bookVars
<1>2. ASSUME NEW m \in Market, NEW o \in Outcome, NEW price \in EntryPrices, NEW n \in Shares,
             Enter(m, o, price, n)
      PROVE  OneOutcomePerMarket'
  <2>1. size' = [size EXCEPT ![<<m, o>>] = n]
    BY <1>2, EnterBuys
  <2>2. \A p \in Outcome : ~(size[<<m, p>>] > 0)
    BY <1>2 DEF Enter, MaySignal, Held
  <2>3. SUFFICES ASSUME NEW x \in Market, NEW p \in Outcome, NEW q \in Outcome,
                        size'[<<x, p>>] > 0, size'[<<x, q>>] > 0
                 PROVE  p = q
    BY DEF OneOutcomePerMarket, HeldIn, Held
  <2>4. <<x, p>> \in Key /\ <<x, q>> \in Key
    BY DEF Key
  <2>5. CASE x = m
    BY <1>0, <2>1, <2>2, <2>3, <2>4, <2>5
  <2>6. CASE x # m
    <3>1. size[<<x, p>>] > 0 /\ size[<<x, q>>] > 0
      BY <1>0, <2>1, <2>3, <2>4, <2>6
    <3>2. <<x, p>> = <<x, q>>
      BY <3>1 DEF OneOutcomePerMarket, HeldIn, Held
    <3>3. QED
      BY <3>2
  <2>7. QED
    BY <2>5, <2>6
<1>3. CASE Settle
  <2>1. size' = Removed(size, ToSettle)
    BY <1>3 DEF Settle
  <2>2. \A k \in Key : size'[k] > 0 => size[k] > 0
    BY <2>1 DEF Removed
  <2>3. QED
    BY <2>2, StillHeld
<1>4. ASSUME NEW k \in Key, NEW quote \in Quotes, Close(k, quote) PROVE OneOutcomePerMarket'
  <2>1. PICK n \in Shares : n = size[k] /\ Paper!Sell(k, quote, n)
    BY <1>4, CloseSells
  <2>2. size' = [size EXCEPT ![k] = 0]
    BY <2>1, CloseClears
  <2>3. QED
    BY <1>0, <2>2, StillHeld
<1>5. CASE Crash \/ Start
  <2>1. size' = [k \in Key |-> 0]
    BY <1>5 DEF Crash, Start, Paper!Crash, Paper!Start, Paper!BookBecomes, Paper!Fresh
  <2>2. QED
    BY <2>1, StillHeld
<1>6. QED
  BY <1>1, <1>2, <1>3, <1>4, <1>5, StepKinds, Zenon

\* The loop never holds both outcomes of a market, through settlements of some
\* of its positions, closes, crashes and restarts (generate_signal).
THEOREM OneOutcome == Spec => []OneOutcomePerMarket
<1>1. Init => OneOutcomePerMarket
  BY DEF Init, Paper!Init, OneOutcomePerMarket, HeldIn, Held, Key
<1>2. Types /\ LoopInv /\ OneOutcomePerMarket /\ [Next]_vars => OneOutcomePerMarket'
  BY OneOutcomeStep
<1>3. QED
  BY <1>1, <1>2, TypesInit, TypesStep, PTL DEF Spec

-----------------------------------------------------------------------------
(* The capital in positions.                                               *)

InMarket(m) == {m} \X Outcome

\* The controller knows of at least the capital in the positions, in a market
\* and in all of them: closing and settling lower the capital but not the
\* exposure.  And the exposure is within the limits.
CapitalInv ==
    /\ Total(cost) <= Total(exposure) /\ Total(exposure) <= MaxTotal
    /\ \A m \in Market : /\ TotalOver(cost, InMarket(m)) <= exposure[m]
                         /\ exposure[m] <= MaxMarket

\* The types this part needs.
LEMMA MoneyTypes ==
    ASSUME Types
    PROVE  /\ exposure \in [Market -> Nat] /\ cost \in [Key -> Nat]
           /\ Total(exposure) \in Nat /\ Total(cost) \in Nat
           /\ \A m \in Market : TotalOver(cost, InMarket(m)) \in Nat
<1>1. exposure \in [Market -> Nat] /\ cost \in [Key -> Nat]
  BY BookTypes DEF Types, Risk!TypeOK
<1>2. Total(exposure) \in Nat /\ Total(cost) \in Nat
  BY <1>1, Constants, KeysFinite, TotalType
<1>3. ASSUME NEW m \in Market PROVE TotalOver(cost, InMarket(m)) \in Nat
  BY <1>1, KeysFinite, TotalOverType DEF InMarket
<1>4. QED
  BY <1>1, <1>2, <1>3

\* Adding v to one position adds v to the capital of its market and of all.
LEMMA CapitalAdd ==
    ASSUME NEW c \in [Key -> Nat], NEW m \in Market, NEW o \in Outcome, NEW v \in Nat
    PROVE  /\ Total([c EXCEPT ![<<m, o>>] = @ + v]) = Total(c) + v
           /\ TotalOver([c EXCEPT ![<<m, o>>] = @ + v], InMarket(m)) = TotalOver(c, InMarket(m)) + v
           /\ \A x \in Market \ {m} :
                 TotalOver([c EXCEPT ![<<m, o>>] = @ + v], InMarket(x)) = TotalOver(c, InMarket(x))
<1> DEFINE k == <<m, o>>
           after == [c EXCEPT ![k] = @ + v]
<1>0. k \in Key /\ k \in InMarket(m) /\ c[k] \in Nat /\ after = [c EXCEPT ![k] = c[k] + v]
      /\ c[k] + v \in Nat
  BY DEF Key, InMarket
<1>1. InMarket(m) \in SUBSET Key /\ IsFiniteSet(InMarket(m)) /\ IsFiniteSet(Key)
  BY KeysFinite DEF InMarket
<1>2. TotalOver(c, InMarket(m)) \in Nat /\ Total(c) \in Nat
  BY <1>1, TotalOverType, TotalType
<1>3. ASSUME NEW x \in Market \ {m}
      PROVE  TotalOver(after, InMarket(x)) = TotalOver(c, InMarket(x))
  <2>1. \A l \in InMarket(x) : after[l] = c[l]
    BY DEF InMarket, Key
  <2> HIDE DEF after
  <2>2. QED
    BY <2>1, TotalOverSame, Zenon
<1> HIDE DEF k
<1>4. TotalOver([c EXCEPT ![k] = c[k] + v], InMarket(m)) = TotalOver(c, InMarket(m)) - c[k] + (c[k] + v)
  <2>1. ASSUME NEW w \in Nat
        PROVE  TotalOver([c EXCEPT ![k] = w], InMarket(m)) = TotalOver(c, InMarket(m)) - c[k] + w
    <3>1. InMarket(m) \in SUBSET Key /\ IsFiniteSet(InMarket(m)) /\ k \in InMarket(m) /\ k \in Key
      BY <1>0, <1>1
    <3>2. QED
      BY <3>1, TotalOverReplace, ZenonT(40)
  <2>2. QED
    BY <1>0, <2>1
<1>5. Total([c EXCEPT ![k] = c[k] + v]) = Total(c) - c[k] + (c[k] + v)
  <2>1. \A w \in Nat : Total([c EXCEPT ![k] = w]) = Total(c) - c[k] + w
    BY <1>0, <1>1, TotalReplace, Zenon
  <2>2. QED
    BY <1>0, <2>1
<1>6. Total(after) = Total(c) + v /\ TotalOver(after, InMarket(m)) = TotalOver(c, InMarket(m)) + v
  BY <1>0, <1>2, <1>4, <1>5
<1>7. QED
  BY <1>3, <1>6 DEF k

\* So adding to the exposure of a market adds to the total.
LEMMA ExposureAdd ==
    ASSUME NEW e \in [Market -> Nat], NEW m \in Market, NEW v \in Nat
    PROVE  Total([e EXCEPT ![m] = @ + v]) = Total(e) + v
<1>1. \A f \in [Market -> Nat], x \in Market, n \in Nat :
         Total([f EXCEPT ![x] = @ + n]) = Total(f) + n
  BY Constants, TotalAdd
<1>2. QED
  BY <1>1

\* Entering moves both sides by the amount that was checked.
LEMMA EnterKeepsCapital ==
    ASSUME Types, CapitalInv,
           NEW m \in Market, NEW o \in Outcome, NEW price \in EntryPrices, NEW n \in Shares,
           Enter(m, o, price, n)
    PROVE  CapitalInv'
<1>1. PICK v \in Nat : v = price * n
  BY OrderTypes DEF Price
<1>2. Paper!BuyFilled(<<m, o>>, price, n)
  BY DEF Enter, Paper!Buy
<1>3. Risk!WithinLimits(m, v, balance, TRUE) /\ Risk!RecordFill(m, v)
  BY <1>1 DEF Enter, Risk!CheckAllowed
<1>4. Total(exposure) + v <= MaxTotal /\ exposure[m] + v <= MaxMarket
  BY <1>3, SameTotals DEF Risk!WithinLimits
<1>5. exposure' = [exposure EXCEPT ![m] = @ + v] /\ cost' = [cost EXCEPT ![<<m, o>>] = @ + v]
  BY <1>1, <1>2, <1>3 DEF Risk!RecordFill, Paper!BuyFilled
<1>6. /\ exposure \in [Market -> Nat] /\ cost \in [Key -> Nat]
      /\ Total(exposure) \in Nat /\ Total(cost) \in Nat
      /\ \A x \in Market : TotalOver(cost, InMarket(x)) \in Nat
      /\ MaxTotal \in Nat /\ MaxMarket \in Nat
  BY MoneyTypes, Constants
<1>7. /\ Total(cost') = Total(cost) + v
      /\ TotalOver(cost', InMarket(m)) = TotalOver(cost, InMarket(m)) + v
      /\ \A x \in Market \ {m} : TotalOver(cost', InMarket(x)) = TotalOver(cost, InMarket(x))
  <2>1. PICK c \in [Key -> Nat] : c = cost
    BY <1>6
  <2>2. /\ Total([c EXCEPT ![<<m, o>>] = @ + v]) = Total(c) + v
        /\ TotalOver([c EXCEPT ![<<m, o>>] = @ + v], InMarket(m)) = TotalOver(c, InMarket(m)) + v
        /\ \A x \in Market \ {m} :
              TotalOver([c EXCEPT ![<<m, o>>] = @ + v], InMarket(x)) = TotalOver(c, InMarket(x))
    BY CapitalAdd
  <2>3. QED
    BY <1>5, <2>1, <2>2
<1>8. Total(exposure') = Total(exposure) + v
  <2>1. \A e \in [Market -> Nat], u \in Nat : Total([e EXCEPT ![m] = @ + u]) = Total(e) + u
    BY ExposureAdd
  <2>2. QED
    BY <1>5, <1>6, <2>1
<1>9. ASSUME NEW x \in Market
      PROVE  TotalOver(cost', InMarket(x)) <= exposure'[x] /\ exposure'[x] <= MaxMarket
  <2>1. PICK total \in Nat : total = TotalOver(cost, InMarket(x))
    BY <1>6
  <2>2. total <= exposure[x] /\ exposure[x] <= MaxMarket /\ exposure[x] \in Nat
    BY <1>6, <2>1 DEF CapitalInv
  <2>3. CASE x = m
    BY <1>4, <1>5, <1>6, <1>7, <2>1, <2>2, <2>3
  <2>4. CASE x # m
    BY <1>5, <1>6, <1>7, <2>1, <2>2, <2>4
  <2>5. QED
    BY <2>3, <2>4
<1>10. Total(cost') <= Total(exposure') /\ Total(exposure') <= MaxTotal
  BY <1>4, <1>6, <1>7, <1>8 DEF CapitalInv
<1>11. QED
  BY <1>9, <1>10 DEF CapitalInv

\* Closing and settling take capital out of positions.
LEMMA LessCapital ==
    ASSUME Types, CapitalInv, exposure' = exposure, cost' \in [Key -> Nat],
           \A k \in Key : cost'[k] <= cost[k]
    PROVE  CapitalInv'
<1>1. PICK before \in [Key -> Nat] : before = cost
  BY MoneyTypes
<1>2. PICK after \in [Key -> Nat] : after = cost'
  OBVIOUS
<1>3. \A k \in Key : after[k] <= before[k]
  BY <1>1, <1>2
<1>4. ASSUME NEW S \in SUBSET Key
      PROVE  TotalOver(after, S) <= TotalOver(before, S)
             /\ TotalOver(after, S) \in Nat /\ TotalOver(before, S) \in Nat
  <2>1. IsFiniteSet(S)
    BY KeysFinite, FS_Subset
  <2>2. \A k \in S : after[k] <= before[k]
    BY <1>3
  <2>3. TotalOver(after, S) <= TotalOver(before, S)
    BY <2>1, <2>2, TotalOverSmaller
  <2>4. QED
    BY <2>1, <2>3, TotalOverType
<1>5. Total(after) <= Total(before) /\ Total(after) \in Nat /\ Total(before) \in Nat
  <2>1. Total(after) = TotalOver(after, Key) /\ Total(before) = TotalOver(before, Key)
    BY TotalIsOverAll
  <2>2. QED
    BY <1>4, <2>1
<1>6. \A m \in Market : InMarket(m) \in SUBSET Key
  BY DEF InMarket, Key
<1>7. exposure \in [Market -> Nat] /\ Total(exposure) \in Nat
  BY MoneyTypes
<1>8. Total(cost') <= Total(exposure') /\ Total(exposure') <= MaxTotal
  BY <1>1, <1>2, <1>5, <1>7 DEF CapitalInv
<1>9. ASSUME NEW m \in Market
      PROVE  TotalOver(cost', InMarket(m)) <= exposure'[m] /\ exposure'[m] <= MaxMarket
  <2>1. /\ TotalOver(after, InMarket(m)) <= TotalOver(before, InMarket(m))
        /\ TotalOver(after, InMarket(m)) \in Nat /\ TotalOver(before, InMarket(m)) \in Nat
    BY <1>4, <1>6
  <2>2. TotalOver(before, InMarket(m)) <= exposure[m] /\ exposure[m] <= MaxMarket
    BY <1>1 DEF CapitalInv
  <2>3. exposure[m] \in Nat
    BY <1>7
  <2>4. QED
    BY <1>2, <2>1, <2>2, <2>3
<1>10. QED
  BY <1>8, <1>9 DEF CapitalInv

\* A process that starts, and one that has ended, has no exposure and no book.
LEMMA FreshCapital ==
    ASSUME NEW e, NEW c, e = [m \in Market |-> 0], c = [k \in Key |-> 0]
    PROVE  /\ Total(c) <= Total(e) /\ Total(e) <= MaxTotal
           /\ \A m \in Market : TotalOver(c, InMarket(m)) <= e[m] /\ e[m] <= MaxMarket
<1>1. Total(e) = 0 /\ Total(c) = 0
  BY TotalZero
<1>2. ASSUME NEW m \in Market PROVE TotalOver(c, InMarket(m)) = 0
  <2>1. \A k \in InMarket(m) : c[k] = 0
    BY DEF InMarket, Key
  <2>2. QED
    BY <2>1, TotalOverZero, Zenon
<1>3. QED
  BY <1>1, <1>2, Constants

LEMMA CapitalStep ==
    ASSUME Types, LoopInv, CapitalInv, [Next]_vars
    PROVE  CapitalInv'
<1>0. cost \in [Key -> Nat]
  BY MoneyTypes
<1>1. CASE Quiet
  BY <1>1 DEF Quiet, bookVars, CapitalInv
<1>2. CASE Settle
  <2>1. cost' = Removed(cost, ToSettle) /\ exposure' = exposure
    BY <1>2 DEF Settle, riskVars
  <2>2. cost' \in [Key -> Nat] /\ \A k \in Key : cost'[k] <= cost[k]
    BY <1>0, <2>1 DEF Removed
  <2>3. QED
    BY <2>1, <2>2, LessCapital
<1>3. ASSUME NEW k \in Key, NEW quote \in Quotes, Close(k, quote) PROVE CapitalInv'
  <2>1. PICK n \in Shares : n = size[k] /\ Paper!Sell(k, quote, n)
    BY <1>3, CloseSells
  <2>2. cost' = [cost EXCEPT ![k] = 0]
    BY <2>1, CloseClears
  <2>3. exposure' = exposure
    BY <1>3 DEF Close, riskVars
  <2>4. cost' \in [Key -> Nat] /\ \A l \in Key : cost'[l] <= cost[l]
    BY <1>0, <2>2
  <2>5. QED
    BY <2>3, <2>4, LessCapital
<1>4. CASE Crash \/ Start
  <2>1. exposure' = [m \in Market |-> 0] /\ cost' = [k \in Key |-> 0]
    BY <1>4 DEF Start, Crash, Risk!Start, Risk!Crash, Risk!MemoryLost, Risk!LimitsBecome,
                Risk!FreshLimits, Paper!Start, Paper!Crash, Paper!BookBecomes, Paper!Fresh
  <2>2. QED
    BY <2>1, FreshCapital DEF CapitalInv
<1>5. QED
  BY <1>1, <1>2, <1>3, <1>4, EnterKeepsCapital, StepKinds, Zenon

\* The capital in the positions of a market and of all markets is within the
\* limits of the risk controller, although it counts fills and never hears of a
\* close or a settlement (scripts/run_simulation.py, risk/controller.py).
THEOREM CapitalWithinLimits == Spec => []DeployedWithinLimits
<1>1. Init => CapitalInv
  BY FreshCapital DEF Init, Risk!Init, Paper!Init, CapitalInv
<1>2. Types /\ LoopInv /\ CapitalInv /\ [Next]_vars => CapitalInv'
  BY CapitalStep
<1>3. Types /\ CapitalInv => DeployedWithinLimits
  <2>1. SUFFICES ASSUME Types, CapitalInv PROVE DeployedWithinLimits
    OBVIOUS
  <2>2. /\ Total(exposure) \in Nat /\ Total(cost) \in Nat /\ exposure \in [Market -> Nat]
        /\ \A m \in Market : TotalOver(cost, InMarket(m)) \in Nat
    BY <2>1, MoneyTypes
  <2>3. Total(cost) <= MaxTotal
    BY <2>1, <2>2, Constants DEF CapitalInv
  <2>4. ASSUME NEW m \in Market PROVE TotalOver(cost, InMarket(m)) <= MaxMarket
    <3>1. PICK total \in Nat : total = TotalOver(cost, InMarket(m))
      BY <2>2
    <3>2. exposure[m] \in Nat /\ total <= exposure[m] /\ exposure[m] <= MaxMarket
      BY <2>1, <2>2, <3>1 DEF CapitalInv
    <3>3. QED
      BY <3>1, <3>2, Constants
  <2>5. QED
    BY <2>3, <2>4 DEF DeployedWithinLimits, InMarket
<1>4. QED
  BY <1>1, <1>2, <1>3, TypesInit, TypesStep, PTL DEF Spec

-----------------------------------------------------------------------------
(* The book.                                                               *)

\* What an order pays for a position is what the position then costs.
LEMMA EnterExplained ==
    ASSUME Types, BookExplained,
           NEW m \in Market, NEW o \in Outcome, NEW price \in EntryPrices, NEW n \in Shares,
           Enter(m, o, price, n)
    PROVE  BookExplained'
<1>1. PICK v \in Nat : v = price * n
  BY OrderTypes DEF Price
<1>2. PICK fee \in Nat : fee = Paper!Fee(price, n)
  BY OrderTypes DEF Price
<1>3. /\ balance' = balance - (v + fee) /\ fees' = fees + fee
      /\ cost' = [cost EXCEPT ![<<m, o>>] = @ + v]
      /\ initial' = initial /\ realized' = realized /\ settledProfit' = settledProfit
  BY <1>1, <1>2 DEF Enter, Paper!Buy, Paper!BuyFilled, settleVars
<1>4. /\ initial \in Nat /\ balance \in Nat /\ fees \in Nat /\ realized \in Int
      /\ settledProfit \in Int /\ cost \in [Key -> Nat] /\ Total(cost) \in Nat
  BY BookTypes, MoneyTypes DEF Types, ScanTypes
<1>5. Total(cost') = Total(cost) + v
  <2>1. PICK c \in [Key -> Nat] : c = cost
    BY <1>4
  <2>2. Total([c EXCEPT ![<<m, o>>] = @ + v]) = Total(c) + v
    BY CapitalAdd
  <2>3. QED
    BY <1>3, <2>1, <2>2
<1>6. QED
  BY <1>3, <1>4, <1>5 DEF BookExplained

\* A settlement pays what its history variable records above the cost.
LEMMA SettleExplained ==
    ASSUME Types, BookExplained, Settle
    PROVE  BookExplained'
<1>1. PICK S \in SUBSET Key : S = ToSettle
  BY SettleTypes DEF Types
<1>2. PICK c \in [Key -> Nat] : c = cost
  BY MoneyTypes
<1>3. PICK paid \in Nat : paid = Payout(ToSettle)
  BY SettleTypes DEF Types
<1>4. PICK spent \in Nat : spent = TotalOver(c, S)
  BY <1>1, <1>2, SettleTypes DEF Types
<1>5. /\ balance' = balance + paid /\ cost' = Removed(c, S)
      /\ settledProfit' = settledProfit + paid - spent
      /\ initial' = initial /\ fees' = fees /\ realized' = realized
  BY <1>1, <1>2, <1>3, <1>4 DEF Settle
<1>6. Total(Removed(c, S)) = Total(c) - spent
  <2>1. IsFiniteSet(Key)
    BY KeysFinite
  <2>2. Total([k \in Key |-> IF k \in S THEN 0 ELSE c[k]]) = Total(c) - TotalOver(c, S)
    BY <2>1, TotalRemoved, Zenon
  <2>3. QED
    BY <1>4, <2>2 DEF Removed
<1>7. /\ initial \in Nat /\ balance \in Nat /\ fees \in Nat /\ realized \in Int
      /\ settledProfit \in Int /\ Total(c) \in Nat
  BY <1>2, BookTypes, MoneyTypes DEF Types, ScanTypes
<1>8. balance + Total(c) = initial + realized - fees + settledProfit
  BY <1>2 DEF BookExplained
<1>9. QED
  BY <1>5, <1>6, <1>7, <1>8 DEF BookExplained

\* A close takes as profit what it is paid above the cost of the position.
LEMMA CloseExplained ==
    ASSUME Types, LoopInv, BookExplained,
           NEW k \in Key, NEW quote \in Quotes, Close(k, quote)
    PROVE  BookExplained'
<1>1. PICK n \in Shares : n = size[k] /\ Paper!Sell(k, quote, n)
  BY CloseSells
<1>2. PICK v \in Nat : v = quote * n
  BY OrderTypes DEF Price
<1>3. PICK fee \in Nat : fee = Paper!Fee(quote, n)
  BY OrderTypes DEF Price
<1>4. PICK c \in [Key -> Nat] : c = cost
  BY MoneyTypes
<1>5. c[k] \in Nat /\ n \in Nat \ {0}
  BY Constants
<1>6. Paper!CostOf(k, n) = c[k]
  <2>1. \A x \in Nat, y \in Nat \ {0} : (x * y) \div y = x
    OBVIOUS
  <2>2. Paper!CostOf(k, n) = (c[k] * n) \div n
    BY <1>1, <1>4 DEF Paper!CostOf
  <2>3. QED
    BY <1>5, <2>1, <2>2
<1>7. /\ balance' = balance + v - fee /\ fees' = fees + fee
      /\ realized' = realized + v - c[k] /\ initial' = initial
      /\ settledProfit' = settledProfit
  BY <1>1, <1>2, <1>3, <1>6 DEF Close, Paper!Sell, Paper!SellFilled, settleVars
<1>8. cost' = [c EXCEPT ![k] = 0]
  BY <1>1, <1>4, CloseClears
<1>9. Total([c EXCEPT ![k] = 0]) = Total(c) - c[k] + 0
  <2>1. IsFiniteSet(Key) /\ 0 \in Nat
    BY KeysFinite
  <2>2. QED
    BY <2>1, TotalReplace, Zenon
<1>10. /\ initial \in Nat /\ balance \in Nat /\ fees \in Nat /\ realized \in Int
       /\ settledProfit \in Int /\ Total(c) \in Nat
  BY <1>4, BookTypes, MoneyTypes DEF Types, ScanTypes
<1>11. balance + Total(c) = initial + realized - fees + settledProfit
  BY <1>4 DEF BookExplained
<1>12. QED
  BY <1>5, <1>7, <1>8, <1>9, <1>10, <1>11 DEF BookExplained

LEMMA BookStep ==
    ASSUME Types, LoopInv, BookExplained, [Next]_vars
    PROVE  BookExplained'
<1>1. CASE Quiet
  BY <1>1 DEF Quiet, bookVars, BookExplained
<1>2. CASE Crash \/ Start
  <2>1. settledProfit' = 0
    BY <1>2 DEF Crash, Start, settleVars, LoopInv, Paper!Start
  <2>2. /\ balance' = initial' /\ fees' = 0 /\ realized' = 0
        /\ cost' = [k \in Key |-> 0] /\ initial' \in Nat
    BY <1>2, BookTypes, Constants
       DEF Crash, Start, Paper!Crash, Paper!Start, Paper!BookBecomes, Paper!Fresh, Types
  <2>3. Total(cost') = 0
    BY <2>2, TotalZero
  <2>4. QED
    BY <2>1, <2>2, <2>3 DEF BookExplained
<1>3. QED
  BY <1>1, <1>2, EnterExplained, SettleExplained, CloseExplained, StepKinds, Zenon

\* Cash and positions are off from what reconcile_portfolio() expects by exactly
\* what settlements paid above cost: nothing that is sold was not held, and the
\* settlement tracker pays without recording a profit.
THEOREM SettlementsExplainBook == Spec => []BookExplained
<1>1. Init => BookExplained
  <2>1. SUFFICES ASSUME Init PROVE BookExplained
    OBVIOUS
  <2>2. /\ initial \in Nat /\ balance = initial /\ fees = 0 /\ realized = 0
        /\ cost = [k \in Key |-> 0] /\ settledProfit = 0
    BY <2>1, TypesInit, BookTypes DEF Init, Paper!Init, Types
  <2>3. Total(cost) = 0
    BY <2>2, TotalZero
  <2>4. QED
    BY <2>2, <2>3 DEF BookExplained
<1>2. Types /\ LoopInv /\ BookExplained /\ [Next]_vars => BookExplained'
  BY BookStep
<1>3. QED
  BY <1>1, <1>2, TypesInit, TypesStep, PTL DEF Spec

=============================================================================
