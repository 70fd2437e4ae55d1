--------------------------- MODULE TradingLoopProofs ---------------------------
(***************************************************************************)
(* Theorems about TradingLoop for any markets, prices, sizes, fee and      *)
(* limits: what the controller recorded is what the executor spent, and    *)
(* the capital in positions is within the limits.  The lemmas about the    *)
(* two components are used through instances of their proof modules.       *)
(***************************************************************************)
EXTENDS TradingLoop, TotalsTheorems, TLAPS

RiskThms == INSTANCE RiskControllerProofs WITH
                Category <- {}, MaxCategory <- 0, TradeCooldown <- 0,
                DailyLossLimit <- 1, DrawdownPct <- 50, ArmPeriod <- 0, MinObs <- 1,
                Amounts <- Nat, Balances <- Nat, Recategorise <- FALSE

PaperThms == INSTANCE PaperExecutorProofs WITH
                 Prices <- Quotes, Sizes <- Shares,
                 InitialBalances <- {InitialBalance},
                 NoFile <- None, TornFile <- None, MaxSaved <- 0

-----------------------------------------------------------------------------
(* What the proofs use of the assumptions, also under the names that the   *)
(* definitions have in the instances.                                      *)

LEMMA Constants ==
    /\ IsFiniteSet(Market) /\ None \notin Nat
    /\ MaxTotal \in Nat /\ MaxMarket \in Nat /\ MaxTrade \in Nat
    /\ PositionPct \in 1 .. 99 /\ Cooldown \in Nat \ {0}
    /\ InitialBalance \in Nat /\ FeePct \in 0 .. 100
    /\ Quotes \subseteq Nat /\ Shares \subseteq Nat \ {0} /\ Limits \subseteq Nat
BY LoopAssumption

\* The positions of an executor are those of finitely many keys.
LEMMA KeysFinite ==
    /\ IsFiniteSet(Key) /\ IsFiniteSet(Outcome)
    /\ \A m \in Market : IsFiniteSet({m} \X Outcome) /\ {m} \X Outcome \subseteq Key
<1>1. IsFiniteSet({"Yes"}) /\ Outcome = {"Yes"} \cup {"No"}
  BY FS_Singleton DEF Outcome
<1>2. IsFiniteSet(Outcome)
  BY <1>1, FS_AddElement
<1>3. IsFiniteSet(Key)
  BY <1>2, Constants, FS_Product DEF Key
<1>4. ASSUME NEW m \in Market PROVE IsFiniteSet({m} \X Outcome) /\ {m} \X Outcome \subseteq Key
  <2>1. IsFiniteSet({m})
    BY FS_Singleton
  <2>2. QED
    BY <1>2, <2>1, FS_Product DEF Key
<1>5. QED
  BY <1>2, <1>3, <1>4

LEMMA RiskOk == RiskThms!IsFiniteSet(Market)
<1>1. \A S : RiskThms!IsFiniteSet(S) <=> IsFiniteSet(S)
  BY DEF IsFiniteSet, RiskThms!IsFiniteSet
<1>2. QED
  BY <1>1, Constants

LEMMA PaperOk == PaperThms!IsFiniteSet(Key)
<1>1. \A S : PaperThms!IsFiniteSet(S) <=> IsFiniteSet(S)
  BY DEF IsFiniteSet, PaperThms!IsFiniteSet
<1>2. QED
  BY <1>1, KeysFinite

\* The sums of the instances are those of this module.
LEMMA SameTotals ==
    /\ \A f : Risk!Total(f) = Total(f)
    /\ \A f : RiskThms!Total(f) = Total(f)
<1>1. /\ \A S : Risk!Cardinality(S) = Cardinality(S)
      /\ \A S : RiskThms!Cardinality(S) = Cardinality(S)
  BY DEF Cardinality, Risk!Cardinality, RiskThms!Cardinality
<1>2. \A f : Risk!Units(f) = Units(f) /\ RiskThms!Units(f) = Units(f)
  BY DEF Units, Risk!Units, RiskThms!Units
<1>3. QED
  BY <1>1, <1>2 DEF Total, Risk!Total, RiskThms!Total

LEMMA SameTypes ==
    /\ Risk!TypeOK <=> RiskThms!TypeOK
    /\ Paper!TypeOK <=> PaperThms!TypeOK
<1>1. Risk!TypeOK <=> RiskThms!TypeOK
  BY DEF Risk!TypeOK, Risk!FileState, Risk!NoFile, Risk!Exported,
         RiskThms!TypeOK, RiskThms!FileState, RiskThms!NoFile, RiskThms!Exported
<1>2. Paper!TypeOK <=> PaperThms!TypeOK
  BY DEF Paper!TypeOK, Paper!Book, Paper!TradeType, Paper!Exported,
         PaperThms!TypeOK, PaperThms!Book, PaperThms!TradeType, PaperThms!Exported
<1>3. QED
  BY <1>1, <1>2

-----------------------------------------------------------------------------
(* The steps of the components, as steps their proof modules know.         *)

LEMMA SameRiskSteps ==
    /\ Risk!CheckBlocked => RiskThms!CheckBlocked
    /\ \A m \in Market, usd \in Nat :
          Risk!CheckDenied(m, usd, None, TRUE) => RiskThms!CheckDenied(m, usd, None, TRUE)
    /\ \A m \in Market, usd \in Nat, recorded \in Nat :
          Risk!CheckAllowed(m, usd, None, TRUE, recorded)
            => RiskThms!CheckAllowed(m, usd, None, TRUE, recorded)
    /\ Risk!Start(TRUE, FALSE) => RiskThms!Start(TRUE, FALSE)
    /\ Risk!Crash => RiskThms!Crash
    /\ Risk!Tick => RiskThms!Tick
    /\ Risk!Init => RiskThms!Init
<1> USE DEF Risk!killVars, Risk!drawdownVars, Risk!limitVars, Risk!NoFile, Risk!NoObs,
            RiskThms!killVars, RiskThms!drawdownVars, RiskThms!limitVars,
            RiskThms!NoFile, RiskThms!NoObs
<1>1. Risk!CheckBlocked => RiskThms!CheckBlocked
  BY DEF Risk!CheckBlocked, RiskThms!CheckBlocked, Risk!Blocked, RiskThms!Blocked
<1>0. ASSUME NEW m \in Market, NEW usd \in Nat
      PROVE  /\ Risk!Blocked <=> RiskThms!Blocked
             /\ Risk!WouldBreach(usd, None) <=> RiskThms!WouldBreach(usd, None)
             /\ Risk!WithinLimits(m, usd, None, TRUE) <=> RiskThms!WithinLimits(m, usd, None, TRUE)
  BY SameTotals
     DEF Risk!Blocked, RiskThms!Blocked, Risk!WouldBreach, RiskThms!WouldBreach,
         Risk!WithinLimits, RiskThms!WithinLimits
<1>2. ASSUME NEW m \in Market, NEW usd \in Nat, Risk!CheckDenied(m, usd, None, TRUE)
      PROVE  RiskThms!CheckDenied(m, usd, None, TRUE)
  BY <1>0, <1>2
     DEF Risk!CheckDenied, RiskThms!CheckDenied, Risk!Released, RiskThms!Released,
         Risk!FilesAtCheck, RiskThms!FilesAtCheck, Risk!Cleared, RiskThms!Cleared,
         Risk!ObsAtCheck, RiskThms!ObsAtCheck, Risk!BreachesAtCheck, RiskThms!BreachesAtCheck
<1>7. ASSUME NEW m \in Market, NEW usd \in Nat, NEW recorded \in Nat,
             Risk!CheckAllowed(m, usd, None, TRUE, recorded)
      PROVE  RiskThms!CheckAllowed(m, usd, None, TRUE, recorded)
  BY <1>0, <1>7
     DEF Risk!CheckAllowed, RiskThms!CheckAllowed, Risk!Released, RiskThms!Released,
         Risk!FilesAtCheck, RiskThms!FilesAtCheck, Risk!Cleared, RiskThms!Cleared,
         Risk!ObsAtCheck, RiskThms!ObsAtCheck, Risk!BreachesAtCheck, RiskThms!BreachesAtCheck,
         Risk!RecordFill, RiskThms!RecordFill
<1>3. Risk!Start(TRUE, FALSE) => RiskThms!Start(TRUE, FALSE)
  BY DEF Risk!Start, RiskThms!Start, Risk!RestoreKillSwitch, RiskThms!RestoreKillSwitch,
         Risk!Cleared, RiskThms!Cleared, Risk!LimitsBecome, RiskThms!LimitsBecome,
         Risk!FreshLimits, RiskThms!FreshLimits
<1>4. Risk!Crash => RiskThms!Crash
  BY DEF Risk!Crash, RiskThms!Crash, Risk!MemoryLost, RiskThms!MemoryLost,
         Risk!LimitsBecome, RiskThms!LimitsBecome, Risk!FreshLimits, RiskThms!FreshLimits
<1>5. Risk!Tick => RiskThms!Tick
  BY DEF Risk!Tick, RiskThms!Tick, Risk!Older, RiskThms!Older, Risk!ObsAged, RiskThms!ObsAged
<1>6. Risk!Init => RiskThms!Init
  BY DEF Risk!Init, RiskThms!Init
<1>8. QED
  BY <1>1, <1>2, <1>3, <1>4, <1>5, <1>6, <1>7

LEMMA SamePaperSteps ==
    /\ \A k \in Key, price \in Quotes, n \in Shares :
          /\ Paper!Buy(k, price, n, TRUE) => PaperThms!Buy(k, price, n, TRUE)
          /\ Paper!BuyRefused(k, price, n, TRUE) => PaperThms!BuyRefused(k, price, n, TRUE)
          /\ Paper!SellNothing(k, price, n) => PaperThms!SellNothing(k, price, n)
    /\ Paper!Start(InitialBalance) => PaperThms!Start(InitialBalance)
    /\ Paper!Crash => PaperThms!Crash
    /\ Paper!Init => PaperThms!Init
<1> USE DEF Paper!vars, Paper!bookVars, PaperThms!vars, PaperThms!bookVars,
            Paper!Fee, PaperThms!Fee, Paper!Affordable, PaperThms!Affordable,
            Paper!Duplicate, PaperThms!Duplicate
<1>1. ASSUME NEW k \in Key, NEW price \in Quotes, NEW n \in Shares,
             Paper!Buy(k, price, n, TRUE)
      PROVE  PaperThms!Buy(k, price, n, TRUE)
  BY <1>1 DEF Paper!Buy, PaperThms!Buy, Paper!BuyFilled, PaperThms!BuyFilled,
              Paper!Trade, PaperThms!Trade, Paper!SharesAfterBuy, PaperThms!SharesAfterBuy
<1>2. ASSUME NEW k \in Key, NEW price \in Quotes, NEW n \in Shares,
             Paper!BuyRefused(k, price, n, TRUE)
      PROVE  PaperThms!BuyRefused(k, price, n, TRUE)
  BY <1>2 DEF Paper!BuyRefused, PaperThms!BuyRefused
<1>3. ASSUME NEW k \in Key, NEW price \in Quotes, NEW n \in Shares,
             Paper!SellNothing(k, price, n)
      PROVE  PaperThms!SellNothing(k, price, n)
  BY <1>3 DEF Paper!SellNothing, PaperThms!SellNothing
<1>4. /\ Paper!Start(InitialBalance) => PaperThms!Start(InitialBalance)
      /\ Paper!Crash => PaperThms!Crash
      /\ Paper!Init => PaperThms!Init
  BY DEF Paper!Start, PaperThms!Start, Paper!Crash, PaperThms!Crash, Paper!Init, PaperThms!Init,
         Paper!BookBecomes, PaperThms!BookBecomes, Paper!Fresh, PaperThms!Fresh
<1>5. QED
  BY <1>1, <1>2, <1>3, <1>4

-----------------------------------------------------------------------------
(* Type correctness.                                                       *)

\* What an order costs, and the fee for it.
LEMMA OrderTypes ==
    ASSUME NEW price \in Quotes, NEW n \in Shares
    PROVE  /\ price * n \in Nat /\ Paper!Fee(price, n) \in Nat
           /\ Reported(price, n) \in Nat
           /\ Reported(price, n) = price * n + Paper!Fee(price, n)
<1>1. price * n \in Nat /\ PaperThms!Fee(price, n) \in 0 .. price * n
  BY Constants, PaperOk, PaperThms!FeeType
<1>2. PaperThms!Fee(price, n) = Paper!Fee(price, n)
  BY DEF PaperThms!Fee, Paper!Fee
<1> DEFINE value == price * n
           fee == Paper!Fee(price, n)
<1>3. value \in Nat /\ fee \in 0 .. value
  BY <1>1, <1>2
<1>4. Reported(price, n) = value + fee
  BY DEF Reported
<1> HIDE DEF value, fee
<1>5. fee \in Nat /\ value + fee \in Nat
  BY <1>3
<1>6. QED
  BY <1>3, <1>4, <1>5 DEF value, fee

\* Every step the loop takes of the risk controller keeps its types.
LEMMA RiskTypes ==
    ASSUME Risk!TypeOK
    PROVE  /\ Risk!CheckBlocked => Risk!TypeOK'
           /\ \A m \in Market, usd \in Nat : Risk!CheckDenied(m, usd, None, TRUE) => Risk!TypeOK'
           /\ \A m \in Market, usd \in Nat, recorded \in Nat :
                 Risk!CheckAllowed(m, usd, None, TRUE, recorded) => Risk!TypeOK'
           /\ Risk!Start(TRUE, FALSE) => Risk!TypeOK'
           /\ Risk!Crash => Risk!TypeOK'
           /\ Risk!Tick => Risk!TypeOK'
           /\ UNCHANGED <<up, riskVars>> => Risk!TypeOK'
<1>1. RiskThms!TypeOK /\ (RiskThms!TypeOK' => Risk!TypeOK')
  <2>1. Risk!TypeOK <=> RiskThms!TypeOK
    BY SameTypes
  <2>2. Risk!TypeOK' <=> RiskThms!TypeOK'
    BY SameTypes, PTL
  <2>3. QED
    BY <2>1, <2>2
<1>2. RiskThms!Next \/ UNCHANGED RiskThms!vars => RiskThms!TypeOK'
  BY <1>1, RiskOk, Constants, RiskThms!TypeStep
<1>3. RiskThms!CheckBlocked => RiskThms!Next
  BY DEF RiskThms!Next, RiskThms!Check
<1>4. \A m \in Market, usd \in Nat : RiskThms!CheckDenied(m, usd, None, TRUE) => RiskThms!Next
  BY DEF RiskThms!Next, RiskThms!Check
<1>5. RiskThms!Start(TRUE, FALSE) \/ RiskThms!Crash \/ RiskThms!Tick => RiskThms!Next
  BY DEF RiskThms!Next
<1>6. ASSUME NEW m \in Market, NEW usd \in Nat, NEW recorded \in Nat,
             RiskThms!CheckAllowed(m, usd, None, TRUE, recorded)
      PROVE  RiskThms!TypeOK'
  <2>1. /\ RiskThms!Released /\ RiskThms!RecordFill(m, recorded)
        /\ obs' = RiskThms!ObsAtCheck /\ breaches' = RiskThms!BreachesAtCheck
        /\ verdict' = "allow"
        /\ UNCHANGED <<up, peak, category, dailyLoss, tradeAge, saved>>
    BY <1>6 DEF RiskThms!CheckAllowed
  <2>2. QED
    BY <1>1, <2>1, RiskOk, Constants, RiskThms!AllowedType
<1>7. UNCHANGED <<up, riskVars>> => UNCHANGED RiskThms!vars
  BY DEF riskVars, RiskThms!vars, RiskThms!killVars, RiskThms!drawdownVars, RiskThms!limitVars
<1>8. QED
  BY <1>1, <1>2, <1>3, <1>4, <1>5, <1>6, <1>7, SameRiskSteps, Zenon

\* So does every step of the executor.
LEMMA PaperTypes ==
    ASSUME Paper!TypeOK
    PROVE  /\ \A k \in Key, price \in Quotes, n \in Shares :
                 \/ Paper!Buy(k, price, n, TRUE)
                 \/ Paper!BuyRefused(k, price, n, TRUE)
                 \/ Paper!SellNothing(k, price, n)
                 => Paper!TypeOK'
           /\ Paper!Start(InitialBalance) => Paper!TypeOK'
           /\ Paper!Crash => Paper!TypeOK'
           /\ UNCHANGED <<up, bookVars>> => Paper!TypeOK'
<1>1. PaperThms!TypeOK /\ (PaperThms!TypeOK' => Paper!TypeOK')
  <2>1. Paper!TypeOK <=> PaperThms!TypeOK
    BY SameTypes
  <2>2. Paper!TypeOK' <=> PaperThms!TypeOK'
    BY SameTypes, PTL
  <2>3. QED
    BY <2>1, <2>2
<1>2. PaperThms!Next \/ UNCHANGED PaperThms!vars => PaperThms!TypeOK'
  BY <1>1, PaperOk, Constants, PaperThms!TypeStep
<1>3. \A k \in Key, price \in Quotes, n \in Shares :
         \/ PaperThms!Buy(k, price, n, TRUE)
         \/ PaperThms!BuyRefused(k, price, n, TRUE)
         \/ PaperThms!SellNothing(k, price, n)
         => PaperThms!Next
  BY DEF PaperThms!Next
<1>4. PaperThms!Start(InitialBalance) \/ PaperThms!Crash => PaperThms!Next
  BY DEF PaperThms!Next
<1>5. UNCHANGED <<up, bookVars>> => UNCHANGED PaperThms!vars
  BY DEF bookVars, PaperThms!vars, PaperThms!bookVars
<1>6. QED
  BY <1>1, <1>2, <1>3, <1>4, <1>5, SamePaperSteps, Zenon

\* `pglm killswitch` only changes the file.
LEMMA OtherProcessTypes ==
    ASSUME Risk!TypeOK, Paper!TypeOK, OtherProcess
    PROVE  Risk!TypeOK' /\ Paper!TypeOK'
<1>1. file' \in Risk!FileState
  BY Constants
     DEF OtherProcess, Risk!TypeOK, Risk!Persisted, Risk!Cleared, Risk!FileState, Risk!NoFile
<1>2. Risk!TypeOK'
  BY <1>1 DEF OtherProcess, Risk!TypeOK
<1>3. UNCHANGED <<up, bookVars>>
  BY DEF OtherProcess
<1>4. QED
  BY <1>2, <1>3, PaperTypes

\* A process that does not run has no loop, and an iteration only begins below
\* the limit: without this the type of the count would not be inductive.
LoopInv ==
    /\ ~up => pc = "none" /\ iterations = 0
    /\ pc = "markets" /\ limit > 0 => iterations < limit

\* The types of the loop's own variables.
LoopTypes ==
    /\ pc \in {"none", "created", "top", "markets", "sleep"}
    /\ state \in {"idle", "running", "stopped"}
    /\ stopEvent \in BOOLEAN
    /\ limit \in Nat /\ iterations \in 0 .. limit
    /\ todo \subseteq Market

\* What a signal does to the controller and to the executor.
LEMMA ProcessTypes ==
    ASSUME Risk!TypeOK, Paper!TypeOK,
           NEW m \in Market, NEW price \in Quotes, NEW n \in Shares,
           ProcessSignal(m, price, n)
    PROVE  Risk!TypeOK' /\ Paper!TypeOK' /\ up' = up
<1>0. /\ price * n \in Nat /\ Reported(price, n) \in Nat /\ 0 \in Nat
      /\ <<m, "Yes">> \in Key /\ <<m, "No">> \in Key
  BY OrderTypes DEF Key, Outcome
<1>1. CASE Blocked(m, price, n)
  <2>1. Risk!CheckBlocked \/ Risk!CheckDenied(m, price * n, None, TRUE)
    BY <1>1 DEF Blocked
  <2>2. up' = up /\ UNCHANGED bookVars
    BY <1>1 DEF Blocked, Risk!CheckBlocked, Risk!CheckDenied
  <2>3. Risk!TypeOK'
    BY <1>0, <2>1, RiskTypes, Zenon
  <2>4. QED
    BY <2>2, <2>3, PaperTypes
<1>2. CASE BuyFilled(m, price, n)
  <2>1. /\ Risk!CheckAllowed(m, price * n, None, TRUE, Reported(price, n))
        /\ Paper!Buy(<<m, "Yes">>, price, n, TRUE)
    BY <1>2 DEF BuyFilled
  <2>2. up' = up
    BY <2>1 DEF Paper!Buy
  <2>3. QED
    BY <1>0, <2>1, <2>2, RiskTypes, PaperTypes, Zenon
<1>3. CASE BuyRefused(m, price, n)
  <2>1. /\ Risk!CheckAllowed(m, price * n, None, TRUE, 0)
        /\ Paper!BuyRefused(<<m, "Yes">>, price, n, TRUE)
    BY <1>3 DEF BuyRefused
  <2>2. up' = up
    BY <2>1 DEF Paper!BuyRefused, Paper!vars
  <2>3. QED
    BY <1>0, <2>1, <2>2, RiskTypes, PaperTypes, Zenon
<1>4. CASE SellRefused(m, price, n)
  <2>1. /\ Risk!CheckAllowed(m, price * n, None, TRUE, 0)
        /\ Paper!SellNothing(<<m, "No">>, price, n)
    BY <1>4 DEF SellRefused
  <2>2. up' = up
    BY <2>1 DEF Paper!SellNothing
  <2>3. QED
    BY <1>0, <2>1, <2>2, RiskTypes, PaperTypes, Zenon
<1>5. QED
  BY <1>1, <1>2, <1>3, <1>4 DEF ProcessSignal

\* The components keep their types in every step of the loop.
LEMMA ComponentTypes ==
    ASSUME Risk!TypeOK, Paper!TypeOK, [Next]_vars
    PROVE  Risk!TypeOK' /\ Paper!TypeOK'
<1>1. ASSUME UNCHANGED <<up, riskVars, bookVars>> PROVE Risk!TypeOK' /\ Paper!TypeOK'
  BY <1>1, RiskTypes, PaperTypes, Zenon
<1>2. CASE Create \/ Run \/ Stop \/ Cancel \/ UNCHANGED vars
  BY <1>1, <1>2, Zenon DEF Create, Run, Stop, Cancel, vars
<1>3. CASE LoopStep
  <2>1. CASE Finish \/ EndIteration \/ StopWakes
    BY <1>1, <2>1, Zenon DEF Finish, EndIteration, StopWakes, Ended
  <2>2. CASE \E markets \in SUBSET Market : Scan(markets)
    BY <1>1, <2>2, Zenon DEF Scan
  <2>3. CASE \E m \in Market : Skip(m)
    BY <1>1, <2>3, Zenon DEF Skip
  <2>4. ASSUME NEW m \in Market, NEW price \in Quotes, NEW n \in Shares, Process(m, price, n)
        PROVE  Risk!TypeOK' /\ Paper!TypeOK'
    BY <2>4, ProcessTypes DEF Process
  <2>5. CASE Wake
    <3>1. Risk!Tick /\ UNCHANGED <<up, bookVars>>
      BY <2>5 DEF Wake, Risk!Tick
    <3>2. QED
      BY <3>1, RiskTypes, PaperTypes, Zenon
  <2>6. QED
    BY <1>3, <2>1, <2>2, <2>3, <2>4, <2>5, Zenon DEF LoopStep
<1>4. CASE Start
  BY <1>4, RiskTypes, PaperTypes, Zenon DEF Start
<1>5. CASE Crash
  BY <1>5, RiskTypes, PaperTypes, Zenon DEF Crash
<1>6. CASE TimePasses
  <2>1. Risk!Tick /\ UNCHANGED <<up, bookVars>>
    BY <1>6 DEF TimePasses, Risk!Tick
  <2>2. QED
    BY <2>1, RiskTypes, PaperTypes, Zenon
<1>7. CASE OtherProcess
  BY <1>7, OtherProcessTypes
<1>8. QED
  BY <1>2, <1>3, <1>4, <1>5, <1>6, <1>7, Zenon DEF Next

LEMMA LoopTypesStep ==
    ASSUME LoopTypes, LoopInv, up \in BOOLEAN, [Next]_vars
    PROVE  LoopTypes' /\ LoopInv'
<1> USE Constants DEF LoopTypes, LoopInv
<1>1. CASE Create \/ Run \/ Stop \/ Cancel
  BY <1>1 DEF Create, Run, Stop, Cancel
<1>2. CASE LoopStep
  <2>1. CASE Finish \/ StopWakes
    BY <2>1 DEF Finish, StopWakes, Ended
  <2>2. CASE EndIteration
    BY <2>2 DEF EndIteration
  <2>3. CASE \E markets \in SUBSET Market : Scan(markets)
    BY <2>3 DEF Scan, MayIterate
  <2>4. CASE \E m \in Market : Skip(m)
    BY <2>4 DEF Skip
  <2>5. ASSUME NEW m \in Market, NEW price \in Quotes, NEW n \in Shares, Process(m, price, n)
        PROVE  LoopTypes' /\ LoopInv'
    <3>1. up' = up
      BY <2>5 DEF Process, ProcessSignal, Blocked, BuyFilled, BuyRefused, SellRefused,
                  Risk!CheckBlocked, Risk!CheckDenied, Risk!CheckAllowed
    <3>2. QED
      BY <2>5, <3>1 DEF Process
  <2>6. CASE Wake
    BY <2>6 DEF Wake, Risk!Tick
  <2>7. QED
    BY <1>2, <2>1, <2>2, <2>3, <2>4, <2>5, <2>6, Zenon DEF LoopStep
<1>3. CASE Start
  BY <1>3 DEF Start, Risk!Start
<1>4. CASE Crash
  <2>1. 0 \in 0 .. 0 /\ 0 \in Nat
    OBVIOUS
  <2>2. /\ pc' = "none" /\ state' = "idle" /\ stopEvent' = FALSE
        /\ limit' = 0 /\ iterations' = 0 /\ todo' = {}
    BY <1>4 DEF Crash
  <2>3. QED
    BY <2>1, <2>2
<1>5. CASE TimePasses
  BY <1>5 DEF TimePasses, Risk!Tick, loopVars
<1>6. CASE OtherProcess
  BY <1>6 DEF OtherProcess, loopVars
<1>7. CASE UNCHANGED vars
  BY <1>7 DEF vars, loopVars
<1>8. QED
  BY <1>1, <1>2, <1>3, <1>4, <1>5, <1>6, <1>7, Zenon DEF Next

LEMMA TypeInit == Init => TypeOK /\ LoopInv
<1> SUFFICES ASSUME Init PROVE TypeOK /\ LoopInv
  OBVIOUS
<1>1. RiskThms!Init /\ PaperThms!Init
  BY SameRiskSteps, SamePaperSteps DEF Init
<1>2. RiskThms!TypeOK
  BY <1>1, RiskOk, Constants, RiskThms!TypeInit
<1>3. PaperThms!TypeOK
  BY <1>1, PaperOk, Constants, PaperThms!TypeInit
<1>4. Risk!TypeOK /\ Paper!TypeOK
  BY <1>2, <1>3, SameTypes
<1>5. 0 \in 0 .. 0 /\ 0 \in Nat
  OBVIOUS
<1>6. QED
  BY <1>4, <1>5 DEF Init, TypeOK, LoopInv

LEMMA TypeStep == TypeOK /\ LoopInv /\ [Next]_vars => TypeOK' /\ LoopInv'
<1> SUFFICES ASSUME TypeOK, LoopInv, [Next]_vars PROVE TypeOK' /\ LoopInv'
  OBVIOUS
<1>1. Risk!TypeOK /\ Paper!TypeOK /\ LoopTypes /\ up \in BOOLEAN
  BY DEF TypeOK, LoopTypes, Risk!TypeOK
<1>2. Risk!TypeOK' /\ Paper!TypeOK'
  BY <1>1, ComponentTypes, Zenon
<1>3. LoopTypes' /\ LoopInv'
  BY <1>1, LoopTypesStep, Zenon
<1>4. QED
  BY <1>2, <1>3 DEF TypeOK, LoopTypes

\* Controller, executor and loop are well typed in every reachable state of the
\* loop: among other things cash is never negative and no run makes more
\* iterations than max_iterations (TradingLoop.run).
THEOREM TypeCorrect == Spec => []TypeOK
<1>1. Init => TypeOK /\ LoopInv
  BY TypeInit
<1>2. TypeOK /\ LoopInv /\ [Next]_vars => TypeOK' /\ LoopInv'
  BY TypeStep
<1>3. QED
  BY <1>1, <1>2, PTL DEF Spec

-----------------------------------------------------------------------------
(* Spending and capital.                                                   *)

\* The controller knows of at least the capital that a market holds.  This is
\* what carries its limits over to the positions of the executor.
InMarket(m) == {m} \X Outcome
Covered == \A m \in Market : TotalOver(cost, InMarket(m)) <= exposure[m]

CapitalInv == SpendingRecorded /\ Covered /\ DeployedWithinLimits

\* The types this part needs.
LEMMA MoneyTypes ==
    ASSUME TypeOK
    PROVE  /\ exposure \in [Market -> Nat] /\ cost \in [Key -> Nat] /\ fees \in Nat
           /\ Total(exposure) \in Nat /\ Total(cost) \in Nat
           /\ \A m \in Market : TotalOver(cost, InMarket(m)) \in Nat
<1>1. exposure \in [Market -> Nat] /\ cost \in [Key -> Nat] /\ fees \in Nat
  BY DEF TypeOK, Risk!TypeOK, Paper!TypeOK, Paper!Exported, Paper!Book
<1>2. Total(exposure) \in Nat /\ Total(cost) \in Nat
  BY <1>1, Constants, KeysFinite, TotalType
<1>3. ASSUME NEW m \in Market PROVE TotalOver(cost, InMarket(m)) \in Nat
  BY <1>1, KeysFinite, TotalOverType DEF InMarket
<1>4. QED
  BY <1>1, <1>2, <1>3

\* Adding v to one position adds v to the capital of its market and of all.
LEMMA CapitalAdd ==
    ASSUME NEW c \in [Key -> Nat], NEW m \in Market, NEW o \in Outcome, NEW v \in Nat
    PROVE  /\ Total([c EXCEPT ![<<m, o>>] = @ + v]) = Total(c) + v
           /\ TotalOver([c EXCEPT ![<<m, o>>] = @ + v], InMarket(m)) = TotalOver(c, InMarket(m)) + v
           /\ \A x \in Market \ {m} :
                 TotalOver([c EXCEPT ![<<m, o>>] = @ + v], InMarket(x)) = TotalOver(c, InMarket(x))
<1> DEFINE k == <<m, o>>
           after == [c EXCEPT ![k] = @ + v]
<1>0. k \in Key /\ k \in InMarket(m) /\ c[k] \in Nat /\ after = [c EXCEPT ![k] = c[k] + v]
      /\ c[k] + v \in Nat
  BY DEF Key, InMarket
<1>1. InMarket(m) \in SUBSET Key /\ IsFiniteSet(InMarket(m)) /\ IsFiniteSet(Key)
  BY KeysFinite DEF InMarket
<1>2. TotalOver(c, InMarket(m)) \in Nat /\ Total(c) \in Nat
  BY <1>1, TotalOverType, TotalType
<1>3. ASSUME NEW x \in Market \ {m}
      PROVE  TotalOver(after, InMarket(x)) = TotalOver(c, InMarket(x))
  <2>1. \A l \in InMarket(x) : after[l] = c[l]
    BY DEF InMarket, Key
  <2> HIDE DEF after
  <2>2. QED
    BY <2>1, TotalOverSame, Zenon
<1> HIDE DEF k
<1>4. TotalOver([c EXCEPT ![k] = c[k] + v], InMarket(m)) = TotalOver(c, InMarket(m)) - c[k] + (c[k] + v)
  <2>1. \A w \in Nat :
           TotalOver([c EXCEPT ![k] = w], InMarket(m)) = TotalOver(c, InMarket(m)) - c[k] + w
    <3>1. SUFFICES ASSUME NEW w \in Nat
                   PROVE  TotalOver([c EXCEPT ![k] = w], InMarket(m))
                            = TotalOver(c, InMarket(m)) - c[k] + w
      OBVIOUS
    <3>2. InMarket(m) \in SUBSET Key /\ IsFiniteSet(InMarket(m)) /\ k \in InMarket(m) /\ k \in Key
      BY <1>0, <1>1
    <3>3. QED
      BY <3>2, TotalOverReplace, ZenonT(40)
  <2>2. QED
    BY <1>0, <2>1
<1>5. Total([c EXCEPT ![k] = c[k] + v]) = Total(c) - c[k] + (c[k] + v)
  <2>1. \A w \in Nat : Total([c EXCEPT ![k] = w]) = Total(c) - c[k] + w
    BY <1>0, <1>1, TotalReplace, Zenon
  <2>2. QED
    BY <1>0, <2>1
<1>6. Total(after) = Total(c) + v /\ TotalOver(after, InMarket(m)) = TotalOver(c, InMarket(m)) + v
  BY <1>0, <1>2, <1>4, <1>5
<1>7. QED
  BY <1>3, <1>6 DEF k

\* So adding to the exposure of a market adds to the total.
LEMMA ExposureAdd ==
    ASSUME NEW e \in [Market -> Nat], NEW m \in Market, NEW v \in Nat
    PROVE  Total([e EXCEPT ![m] = @ + v]) = Total(e) + v
<1>1. \A f \in [Market -> Nat], x \in Market, n \in Nat :
         Total([f EXCEPT ![x] = @ + n]) = Total(f) + n
  BY Constants, TotalAdd
<1>2. QED
  BY <1>1

\* A buy moves both sides by the same amount, and the capital by what the
\* controller had checked.
LEMMA BuyKeepsCapital ==
    ASSUME TypeOK, CapitalInv,
           NEW m \in Market, NEW price \in Quotes, NEW n \in Shares,
           BuyFilled(m, price, n)
    PROVE  CapitalInv'
<1>0. /\ price * n \in Nat /\ Paper!Fee(price, n) \in Nat
      /\ Reported(price, n) = price * n + Paper!Fee(price, n)
  BY OrderTypes
<1>1. PICK v \in Nat : v = price * n
  BY <1>0
<1>2. PICK fee \in Nat : fee = Paper!Fee(price, n)
  BY <1>0
<1>3. /\ Risk!WithinLimits(m, v, None, TRUE) /\ Risk!RecordFill(m, v + fee)
      /\ Paper!BuyFilled(<<m, "Yes">>, price, n)
  BY <1>0, <1>1, <1>2 DEF BuyFilled, Risk!CheckAllowed, Paper!Buy
<1>4. Total(exposure) + v <= MaxTotal /\ exposure[m] + v <= MaxMarket
  BY <1>3, SameTotals DEF Risk!WithinLimits
<1>5. /\ exposure' = [exposure EXCEPT ![m] = @ + (v + fee)]
      /\ fees' = fees + fee
      /\ cost' = [cost EXCEPT ![<<m, "Yes">>] = @ + v]
  BY <1>1, <1>2, <1>3 DEF Risk!RecordFill, Paper!BuyFilled
<1>6. /\ exposure \in [Market -> Nat] /\ cost \in [Key -> Nat] /\ fees \in Nat
      /\ Total(exposure) \in Nat /\ Total(cost) \in Nat
      /\ \A x \in Market : TotalOver(cost, InMarket(x)) \in Nat
      /\ "Yes" \in Outcome /\ v + fee \in Nat /\ MaxTotal \in Nat /\ MaxMarket \in Nat
  BY MoneyTypes, Constants DEF Outcome
<1>7. /\ Total(cost') = Total(cost) + v
      /\ TotalOver(cost', InMarket(m)) = TotalOver(cost, InMarket(m)) + v
      /\ \A x \in Market \ {m} : TotalOver(cost', InMarket(x)) = TotalOver(cost, InMarket(x))
  <2>1. \A c \in [Key -> Nat] :
           /\ Total([c EXCEPT ![<<m, "Yes">>] = @ + v]) = Total(c) + v
           /\ TotalOver([c EXCEPT ![<<m, "Yes">>] = @ + v], InMarket(m)) = TotalOver(c, InMarket(m)) + v
           /\ \A x \in Market \ {m} :
                 TotalOver([c EXCEPT ![<<m, "Yes">>] = @ + v], InMarket(x)) = TotalOver(c, InMarket(x))
    <3>1. \A c \in [Key -> Nat], o \in Outcome, u \in Nat :
             /\ Total([c EXCEPT ![<<m, o>>] = @ + u]) = Total(c) + u
             /\ TotalOver([c EXCEPT ![<<m, o>>] = @ + u], InMarket(m)) = TotalOver(c, InMarket(m)) + u
             /\ \A x \in Market \ {m} :
                   TotalOver([c EXCEPT ![<<m, o>>] = @ + u], InMarket(x)) = TotalOver(c, InMarket(x))
      BY CapitalAdd
    <3>2. QED
      BY <1>6, <3>1, ZenonT(40)
  <2>2. QED
    BY <1>5, <1>6, <2>1
<1>8. Total(exposure') = Total(exposure) + (v + fee)
  <2>1. \A e \in [Market -> Nat], u \in Nat : Total([e EXCEPT ![m] = @ + u]) = Total(e) + u
    BY ExposureAdd
  <2>2. QED
    BY <1>5, <1>6, <2>1
<1>9. SpendingRecorded'
  BY <1>5, <1>6, <1>7, <1>8 DEF CapitalInv, SpendingRecorded
<1>10. ASSUME NEW x \in Market
       PROVE  /\ TotalOver(cost', InMarket(x)) <= exposure'[x]
              /\ TotalOver(cost', InMarket(x)) <= MaxMarket
  <2>1. PICK total \in Nat : total = TotalOver(cost, InMarket(x))
    BY <1>6
  <2>2. total <= exposure[x] /\ total <= MaxMarket /\ exposure[x] \in Nat
    BY <1>6, <2>1 DEF CapitalInv, Covered, DeployedWithinLimits, InMarket
  <2>3. CASE x = m
    BY <1>4, <1>5, <1>6, <1>7, <2>1, <2>2, <2>3
  <2>4. CASE x # m
    BY <1>5, <1>6, <1>7, <2>1, <2>2, <2>4
  <2>5. QED
    BY <2>3, <2>4
<1>11. Total(cost') <= MaxTotal
  BY <1>4, <1>6, <1>7 DEF CapitalInv, SpendingRecorded
<1>12. QED
  BY <1>9, <1>10, <1>11 DEF CapitalInv, Covered, DeployedWithinLimits, InMarket

\* Where neither side moves, nothing changes.
LEMMA CapitalUntouched ==
    ASSUME CapitalInv, UNCHANGED <<exposure, cost, fees>>
    PROVE  CapitalInv'
BY DEF CapitalInv, SpendingRecorded, Covered, DeployedWithinLimits, InMarket

\* A process that starts, and one that has ended, has no exposure and no book.
LEMMA FreshCapital ==
    ASSUME NEW e, NEW c, NEW f,
           e = [m \in Market |-> 0], c = [k \in Key |-> 0], f = 0
    PROVE  /\ Total(e) = Total(c) + f /\ Total(c) <= MaxTotal
           /\ \A m \in Market : TotalOver(c, InMarket(m)) <= e[m] /\ TotalOver(c, InMarket(m)) <= MaxMarket
<1>1. Total(e) = 0 /\ Total(c) = 0
  BY TotalZero
<1>2. ASSUME NEW m \in Market PROVE TotalOver(c, InMarket(m)) = 0
  <2>1. \A k \in InMarket(m) : c[k] = 0
    BY DEF InMarket, Key
  <2>2. QED
    BY <2>1, TotalOverZero, Zenon
<1>3. QED
  BY <1>1, <1>2, Constants

LEMMA CapitalRestarted ==
    ASSUME exposure' = [m \in Market |-> 0], cost' = [k \in Key |-> 0], fees' = 0
    PROVE  CapitalInv'
BY FreshCapital DEF CapitalInv, SpendingRecorded, Covered, DeployedWithinLimits, InMarket

\* What a signal that is not filled changes of exposure, cost and fees: nothing.
LEMMA ProcessKeepsCapital ==
    ASSUME TypeOK, CapitalInv,
           NEW m \in Market, NEW price \in Quotes, NEW n \in Shares,
           ProcessSignal(m, price, n)
    PROVE  CapitalInv'
<1>1. CASE Blocked(m, price, n)
  BY <1>1, CapitalUntouched
     DEF Blocked, Risk!CheckBlocked, Risk!CheckDenied, Risk!limitVars, bookVars
<1>2. ASSUME Risk!CheckAllowed(m, price * n, None, TRUE, 0), UNCHANGED <<cost, fees>>
      PROVE  CapitalInv'
  <2>1. exposure \in [Market -> Nat]
    BY MoneyTypes
  <2>2. exposure' = exposure
    BY <1>2, <2>1 DEF Risk!CheckAllowed, Risk!RecordFill
  <2>3. QED
    BY <1>2, <2>2, CapitalUntouched
<1>3. CASE BuyRefused(m, price, n)
  BY <1>2, <1>3 DEF BuyRefused, Paper!BuyRefused, Paper!vars, Paper!bookVars
<1>4. CASE SellRefused(m, price, n)
  BY <1>2, <1>4 DEF SellRefused, Paper!SellNothing
<1>5. CASE BuyFilled(m, price, n)
  BY <1>5, BuyKeepsCapital
<1>6. QED
  BY <1>1, <1>3, <1>4, <1>5 DEF ProcessSignal

LEMMA CapitalStep ==
    ASSUME TypeOK, CapitalInv, [Next]_vars
    PROVE  CapitalInv'
<1>1. ASSUME UNCHANGED <<exposure, bookVars>> PROVE CapitalInv'
  BY <1>1, CapitalUntouched DEF bookVars
<1>2. CASE Create \/ Run \/ Stop \/ Cancel \/ UNCHANGED vars
  BY <1>1, <1>2 DEF Create, Run, Stop, Cancel, vars, riskVars
<1>3. CASE LoopStep
  <2>1. CASE Finish \/ EndIteration \/ StopWakes
    BY <1>1, <2>1 DEF Finish, EndIteration, StopWakes, Ended, riskVars
  <2>2. CASE \E markets \in SUBSET Market : Scan(markets)
    BY <1>1, <2>2 DEF Scan, riskVars
  <2>3. CASE \E m \in Market : Skip(m)
    BY <1>1, <2>3 DEF Skip, riskVars
  <2>4. ASSUME NEW m \in Market, NEW price \in Quotes, NEW n \in Shares, Process(m, price, n)
        PROVE  CapitalInv'
    BY <2>4, ProcessKeepsCapital DEF Process
  <2>5. CASE Wake
    BY <1>1, <2>5 DEF Wake, Risk!Tick
  <2>6. QED
    BY <1>3, <2>1, <2>2, <2>3, <2>4, <2>5, Zenon DEF LoopStep
<1>4. CASE Start \/ Crash
  BY <1>4, CapitalRestarted
     DEF Start, Crash, Risk!Start, Risk!Crash, Risk!MemoryLost, Risk!LimitsBecome,
         Risk!FreshLimits, Paper!Start, Paper!Crash, Paper!BookBecomes, Paper!Fresh
<1>5. CASE TimePasses
  BY <1>1, <1>5 DEF TimePasses, Risk!Tick
<1>6. CASE OtherProcess
  BY <1>1, <1>6 DEF OtherProcess
<1>7. QED
  BY <1>2, <1>3, <1>4, <1>5, <1>6, Zenon DEF Next

LEMMA CapitalInit == Init => CapitalInv
BY FreshCapital
   DEF Init, Risk!Init, Paper!Init, CapitalInv, SpendingRecorded, Covered,
       DeployedWithinLimits, InMarket

\* The invariant holds in every reachable state of the loop.
LEMMA CapitalKept == Spec => []CapitalInv
<1>1. Init => TypeOK /\ LoopInv /\ CapitalInv
  BY TypeInit, CapitalInit
<1>2. TypeOK /\ LoopInv /\ CapitalInv /\ [Next]_vars => TypeOK' /\ LoopInv' /\ CapitalInv'
  BY TypeStep, CapitalStep
<1>3. QED
  BY <1>1, <1>2, PTL DEF Spec

\* Whatever is refused, cancelled or lost in a crash, the exposure the risk
\* controller recorded is what the executor paid for positions and fees
\* (Engine.process_signal_sync).
THEOREM SpendingIsRecorded == Spec => []SpendingRecorded
<1>1. CapitalInv => SpendingRecorded
  BY DEF CapitalInv
<1>2. QED
  BY <1>1, CapitalKept, PTL

\* The capital in the positions of a market and of all markets is within the
\* limits that check() only compares with its own figures.
THEOREM CapitalWithinLimits == Spec => []DeployedWithinLimits
<1>1. CapitalInv => DeployedWithinLimits
  BY DEF CapitalInv
<1>2. QED
  BY <1>1, CapitalKept, PTL

-----------------------------------------------------------------------------
(* The loop uses the executor as its module allows.                        *)

LEMMA ExecutorStep == [Next]_vars => [Paper!Next]_(Paper!vars)
<1> SUFFICES ASSUME [Next]_vars PROVE [Paper!Next]_(Paper!vars)
  OBVIOUS
<1>1. ASSUME UNCHANGED <<up, bookVars>> PROVE [Paper!Next]_(Paper!vars)
  BY <1>1 DEF Paper!vars, Paper!bookVars, bookVars
<1>2. CASE Create \/ Run \/ Stop \/ Cancel \/ UNCHANGED vars
  BY <1>1, <1>2 DEF Create, Run, Stop, Cancel, vars
<1>3. CASE LoopStep
  <2>1. CASE Finish \/ EndIteration \/ StopWakes
    BY <1>1, <2>1 DEF Finish, EndIteration, StopWakes, Ended
  <2>2. CASE \E markets \in SUBSET Market : Scan(markets)
    BY <1>1, <2>2 DEF Scan
  <2>3. CASE \E m \in Market : Skip(m)
    BY <1>1, <2>3 DEF Skip
  <2>4. ASSUME NEW m \in Market, NEW price \in Quotes, NEW n \in Shares, Process(m, price, n)
        PROVE  [Paper!Next]_(Paper!vars)
    <3>1. <<m, "Yes">> \in Key /\ <<m, "No">> \in Key
      BY DEF Key, Outcome
    <3>2. CASE Blocked(m, price, n)
      BY <1>1, <3>2 DEF Blocked, Risk!CheckBlocked, Risk!CheckDenied
    <3>3. CASE BuyFilled(m, price, n)
      <4>1. Paper!Buy(<<m, "Yes">>, price, n, TRUE)
        BY <3>3 DEF BuyFilled
      <4>2. QED
        BY <3>1, <4>1 DEF Paper!Next
    <3>4. CASE BuyRefused(m, price, n)
      <4>1. Paper!BuyRefused(<<m, "Yes">>, price, n, TRUE)
        BY <3>4 DEF BuyRefused
      <4>2. QED
        BY <3>1, <4>1 DEF Paper!Next
    <3>5. CASE SellRefused(m, price, n)
      <4>1. Paper!SellNothing(<<m, "No">>, price, n)
        BY <3>5 DEF SellRefused
      <4>2. QED
        BY <3>1, <4>1 DEF Paper!Next
    <3>6. QED
      BY <2>4, <3>2, <3>3, <3>4, <3>5 DEF Process, ProcessSignal
  <2>5. CASE Wake
    BY <1>1, <2>5 DEF Wake, Risk!Tick
  <2>6. QED
    BY <1>3, <2>1, <2>2, <2>3, <2>4, <2>5, Zenon DEF LoopStep
<1>4. CASE Start
  <2>1. Paper!Start(InitialBalance) /\ InitialBalance \in {InitialBalance}
    BY <1>4 DEF Start
  <2>2. QED
    BY <2>1 DEF Paper!Next
<1>5. CASE Crash
  BY <1>5 DEF Crash, Paper!Next
<1>6. CASE TimePasses
  BY <1>1, <1>6 DEF TimePasses, Risk!Tick
<1>7. CASE OtherProcess
  BY <1>1, <1>7 DEF OtherProcess
<1>8. QED
  BY <1>2, <1>3, <1>4, <1>5, <1>6, <1>7, Zenon DEF Next

\* Every run of the loop is, for the executor, a run of module PaperExecutor: the
\* Engine never calls submit_order_sync in a way that module does not foresee.
THEOREM ExecutorRefined == Spec => Paper!Spec
<1>1. Init => Paper!Init
  BY DEF Init
<1>2. QED
  BY <1>1, ExecutorStep, PTL DEF Spec, Paper!Spec

\* A run of the executor is one for its proof module, and the books mean the same.
LEMMA SamePaperNext == [Paper!Next]_(Paper!vars) => [PaperThms!Next]_(PaperThms!vars)
<1> USE DEF Paper!vars, Paper!bookVars, PaperThms!vars, PaperThms!bookVars,
            Paper!Fee, PaperThms!Fee, Paper!Fresh, PaperThms!Fresh,
            Paper!BookBecomes, PaperThms!BookBecomes, Paper!Exported, PaperThms!Exported
<1>1. ASSUME NEW k \in Key, NEW price \in Quotes, NEW n \in Shares, NEW plain \in BOOLEAN
      PROVE  /\ Paper!Buy(k, price, n, plain) <=> PaperThms!Buy(k, price, n, plain)
             /\ Paper!BuyRefused(k, price, n, plain) <=> PaperThms!BuyRefused(k, price, n, plain)
  BY DEF Paper!Buy, PaperThms!Buy, Paper!BuyFilled, PaperThms!BuyFilled,
         Paper!BuyRefused, PaperThms!BuyRefused, Paper!Affordable, PaperThms!Affordable,
         Paper!Duplicate, PaperThms!Duplicate, Paper!Trade, PaperThms!Trade,
         Paper!SharesAfterBuy, PaperThms!SharesAfterBuy
<1>2. ASSUME NEW k \in Key, NEW price \in Quotes, NEW n \in Shares
      PROVE  /\ Paper!Sell(k, price, n) <=> PaperThms!Sell(k, price, n)
             /\ Paper!SellNothing(k, price, n) <=> PaperThms!SellNothing(k, price, n)
  BY DEF Paper!Sell, PaperThms!Sell, Paper!SellFilled, PaperThms!SellFilled,
         Paper!SellNothing, PaperThms!SellNothing, Paper!CostOf, PaperThms!CostOf,
         Paper!Trade, PaperThms!Trade
<1>3. /\ \A b \in {InitialBalance} : Paper!Start(b) <=> PaperThms!Start(b)
      /\ Paper!Crash <=> PaperThms!Crash
      /\ Paper!SaveState <=> PaperThms!SaveState
      /\ Paper!CrashInSave <=> PaperThms!CrashInSave
      /\ Paper!LoadState <=> PaperThms!LoadState
  BY DEF Paper!Start, PaperThms!Start, Paper!Crash, PaperThms!Crash,
         Paper!SaveState, PaperThms!SaveState, Paper!CrashInSave, PaperThms!CrashInSave,
         Paper!LoadState, PaperThms!LoadState
<1>4. UNCHANGED Paper!vars <=> UNCHANGED PaperThms!vars
  OBVIOUS
<1>5. Paper!Next => PaperThms!Next
  BY <1>1, <1>2, <1>3, Zenon DEF Paper!Next, PaperThms!Next
<1>6. QED
  BY <1>4, <1>5

LEMMA SameBooks == PaperThms!EquityExplained => Paper!EquityExplained
<1>1. /\ \A S : Paper!Cardinality(S) = Cardinality(S)
      /\ \A S : PaperThms!Cardinality(S) = Cardinality(S)
  BY DEF Cardinality, Paper!Cardinality, PaperThms!Cardinality
<1>2. \A f : Paper!Units(f) = Units(f) /\ PaperThms!Units(f) = Units(f)
  BY DEF Units, Paper!Units, PaperThms!Units
<1>3. \A f : Paper!Total(f) = PaperThms!Total(f)
  BY <1>1, <1>2 DEF Paper!Total, PaperThms!Total
<1>4. \A b : Paper!Explained(b) <=> PaperThms!Explained(b)
  BY <1>3 DEF Paper!Explained, PaperThms!Explained, Paper!Equity, PaperThms!Equity,
              Paper!ExpectedEquity, PaperThms!ExpectedEquity
<1>5. Paper!Exported = PaperThms!Exported
  BY DEF Paper!Exported, PaperThms!Exported
<1>6. QED
  BY <1>4, <1>5 DEF Paper!EquityExplained, PaperThms!EquityExplained

\* So the identity that reconcile_portfolio() relies on carries over to the
\* Engine, with the money its refused SELL orders were credited in "unbacked".
THEOREM BooksExplained == Spec => []Paper!EquityExplained
<1>1. PaperThms!Spec => []PaperThms!EquityExplained
  BY PaperOk, Constants, PaperThms!EquityIdentity
<1>2. Paper!Init => PaperThms!Init
  BY SamePaperSteps
<1>3. [Paper!Next]_(Paper!vars) => [PaperThms!Next]_(PaperThms!vars)
  BY SamePaperNext
<1>4. PaperThms!EquityExplained => Paper!EquityExplained
  BY SameBooks
<1>5. QED
  BY <1>1, <1>2, <1>3, <1>4, ExecutorRefined, PTL DEF Paper!Spec, PaperThms!Spec

=============================================================================
