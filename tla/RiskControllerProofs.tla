------------------------ MODULE RiskControllerProofs ------------------------
(***************************************************************************)
(* Theorems about RiskController for every set of markets, every limit and *)
(* every balance: its type invariant, the exposure limits, and that it     *)
(* implements the abstract KillSwitch.                                     *)
(***************************************************************************)
EXTENDS RiskController, TotalsTheorems, TLAPS

USE LimitAssumption, NoneAssumption, MarketAssumption, InputAssumption

-----------------------------------------------------------------------------
(* What the helpers return.                                                *)

\* An age grows towards its threshold and stays within it.
LEMMA OlderType ==
    ASSUME NEW threshold \in Nat, NEW age \in 0 .. threshold
    PROVE  Older(age, threshold) \in 0 .. threshold
BY DEF Older

\* A capped counter is within its cap.
LEMMA AtMostType ==
    ASSUME NEW limit \in Nat, NEW n \in Nat
    PROVE  AtMost(n, limit) \in 0 .. limit
BY DEF AtMost

\* A recorded loss keeps the counter of the day's losses within its cap.
LEMMA LossType ==
    ASSUME dailyLoss \in 0 .. DailyLossLimit, NEW amount \in Amounts
    PROVE  AtMost(dailyLoss + amount, DailyLossLimit) \in 0 .. DailyLossLimit
<1>1. dailyLoss \in Nat /\ amount \in Nat /\ DailyLossLimit \in Nat
  OBVIOUS
<1>2. dailyLoss + amount \in Nat
  BY <1>1
<1>3. QED
  BY <1>1, <1>2, AtMostType, Zenon

\* As an age grows by one tick, what is left to its threshold shrinks by one.
LEMMA OlderLeavesLess ==
    ASSUME NEW threshold \in Nat, NEW age \in 0 .. threshold
    PROVE  threshold - Older(age, threshold) = KS!Less(threshold - age)
BY DEF Older, KS!Less

\* Every state a file operation can leave is a state of the file.
LEMMA FileTypes ==
    ASSUME NEW f \in FileState
    PROVE  Cleared(f) \subseteq FileState /\ Persisted(f) \subseteq FileState
BY DEF Cleared, Persisted, NoFile, FileState

\* So can only be what a check finds after it released an expired switch.
LEMMA FilesAtCheckType ==
    ASSUME file \in FileState
    PROVE  FilesAtCheck \subseteq FileState
BY FileTypes DEF FilesAtCheck

\* The observation counters keep their type, appended to or aged.
LEMMA ObsTypes ==
    ASSUME NEW o \in [0 .. ArmPeriod -> 0 .. MinObs]
    PROVE  /\ NoObs \in [0 .. ArmPeriod -> 0 .. MinObs]
           /\ Observed(o) \in [0 .. ArmPeriod -> 0 .. MinObs]
           /\ ObsAged(o) \in [0 .. ArmPeriod -> 0 .. MinObs]
<1>1. NoObs \in [0 .. ArmPeriod -> 0 .. MinObs]
  BY DEF NoObs
<1>2. Observed(o) \in [0 .. ArmPeriod -> 0 .. MinObs]
  BY DEF Observed, AtMost
<1>3. ObsAged(o) \in [0 .. ArmPeriod -> 0 .. MinObs]
  BY DEF ObsAged
<1>4. QED
  BY <1>1, <1>2, <1>3

\* A fresh process and an export are both states import_state() can load.
LEMMA ExportedTypes ==
    ASSUME TypeOK
    PROVE  FreshLimits \in Exported /\ ExportedState \in Exported
<1>1. FreshLimits \in Exported
  BY DEF FreshLimits, Exported
<1>2. ExportedState \in Exported
  BY DEF ExportedState, Exported, TypeOK
<1>3. QED
  BY <1>1, <1>2

-----------------------------------------------------------------------------
(* Type correctness.                                                       *)

\* A check that is not blocked leaves the switch and its file well typed.
LEMMA ReleasedType ==
    ASSUME TypeOK, Released
    PROVE  /\ killActive' \in BOOLEAN
           /\ killAge' \in 0 .. Cooldown
           /\ killReason' \in {"none", "manual", "drawdown", "restored"}
           /\ file' \in FileState
<1>1. 0 \in 0 .. Cooldown
  OBVIOUS
<1>2. file' \in FileState
  BY FilesAtCheckType DEF TypeOK, Released
<1>3. killReason' \in {"none", "manual", "drawdown", "restored"}
  BY DEF TypeOK, Released
<1>4. QED
  BY <1>1, <1>2, <1>3 DEF Released

\* So does engaging the switch, whatever file it starts from.
LEMMA EngageType ==
    ASSUME TypeOK, NEW f \in FileState, NEW why \in {"manual", "drawdown"},
           EngageFrom(f, why)
    PROVE  /\ killActive' \in BOOLEAN
           /\ killAge' \in 0 .. Cooldown
           /\ killReason' \in {"none", "manual", "drawdown", "restored"}
           /\ file' \in FileState
BY FileTypes DEF TypeOK, EngageFrom

\* What is left when the process ends is well typed, with or without an export.
LEMMA MemoryLostType ==
    ASSUME TypeOK, MemoryLost, saved' \in Exported \cup {None}
    PROVE  TypeOK'
<1>0. 0 \in 0 .. MinObs /\ 0 \in 0 .. Cooldown
  OBVIOUS
<1>1. obs' \in [0 .. ArmPeriod -> 0 .. MinObs] /\ breaches' \in 0 .. MinObs
  <2>1. NoObs \in [0 .. ArmPeriod -> 0 .. MinObs]
    BY DEF NoObs
  <2>2. QED
    BY <1>0, <2>1 DEF MemoryLost
<1>2. \E s \in Exported : LimitsBecome(s)
  BY ExportedTypes DEF MemoryLost
<1>3. /\ exposure' \in [Market -> Nat]
      /\ category' \in [Market -> Category \cup {None}]
      /\ categoryExposure' \in [Category -> Int]
      /\ dailyLoss' \in 0 .. DailyLossLimit
      /\ peak' \in Nat
      /\ tradeAge' \in [Market -> 0 .. TradeCooldown]
  BY <1>2 DEF LimitsBecome, Exported
<1>4. /\ up' = FALSE /\ killActive' = FALSE /\ killAge' = 0 /\ killReason' = "none"
      /\ verdict' = "none" /\ file' \in FileState
  BY DEF MemoryLost, TypeOK
<1>5. QED
  BY <1>0, <1>1, <1>3, <1>4 DEF TypeOK

\* What a check starts from, after it released an expired switch.
LEMMA AtCheckTypes ==
    ASSUME TypeOK
    PROVE  /\ ObsAtCheck \in [0 .. ArmPeriod -> 0 .. MinObs]
           /\ BreachesAtCheck \in 0 .. MinObs
<1>1. 0 \in 0 .. MinObs
  OBVIOUS
<1>2. NoObs \in [0 .. ArmPeriod -> 0 .. MinObs]
  BY DEF NoObs
<1>3. QED
  BY <1>1, <1>2 DEF TypeOK, ObsAtCheck, BreachesAtCheck

\* An allowed check keeps the types, whatever amount its caller then records.
LEMMA AllowedType ==
    ASSUME TypeOK, NEW m \in Market, NEW recorded \in Nat,
           Released, RecordFill(m, recorded),
           obs' = ObsAtCheck, breaches' = BreachesAtCheck, verdict' = "allow",
           UNCHANGED <<up, peak, category, dailyLoss, tradeAge, saved>>
    PROVE  TypeOK'
<1>1. exposure' \in [Market -> Nat] /\ categoryExposure' \in [Category -> Int]
  <2>1. exposure \in [Market -> Nat] /\ categoryExposure \in [Category -> Int]
    BY DEF TypeOK
  <2>2. exposure' \in [Market -> Nat]
    BY <2>1 DEF RecordFill
  <2>3. categoryExposure' \in [Category -> Int]
    <3>1. category[m] \in Category \cup {None}
      BY DEF TypeOK
    <3>2. \A c \in Category : [categoryExposure EXCEPT ![c] = @ + recorded] \in [Category -> Int]
      BY <2>1
    <3>3. QED
      BY <2>1, <3>1, <3>2 DEF RecordFill
  <2>4. QED
    BY <2>2, <2>3
<1>2. /\ killActive' \in BOOLEAN
      /\ killAge' \in 0 .. Cooldown
      /\ killReason' \in {"none", "manual", "drawdown", "restored"}
      /\ file' \in FileState
  BY ReleasedType
<1>3. obs' \in [0 .. ArmPeriod -> 0 .. MinObs] /\ breaches' \in 0 .. MinObs
  BY AtCheckTypes
<1>4. QED
  BY <1>1, <1>2, <1>3 DEF TypeOK

LEMMA TypeInit == Init => TypeOK
<1> SUFFICES ASSUME Init PROVE TypeOK
  OBVIOUS
<1>1. NoFile \in FileState
  BY DEF NoFile, FileState
<1>2. NoObs \in [0 .. ArmPeriod -> 0 .. MinObs]
  BY DEF NoObs
<1>3. /\ [m \in Market |-> 0] \in [Market -> Nat]
      /\ [m \in Market |-> None] \in [Market -> Category \cup {None}]
      /\ [c \in Category |-> 0] \in [Category -> Int]
      /\ [m \in Market |-> TradeCooldown] \in [Market -> 0 .. TradeCooldown]
  OBVIOUS
<1>4. 0 \in 0 .. Cooldown /\ 0 \in 0 .. DailyLossLimit /\ 0 \in 0 .. MinObs
  OBVIOUS
<1>5. QED
  BY <1>1, <1>2, <1>3, <1>4 DEF Init, TypeOK

LEMMA TypeStep == TypeOK /\ [Next]_vars => TypeOK'
<1> SUFFICES ASSUME TypeOK, [Next]_vars PROVE TypeOK'
  OBVIOUS
<1> USE DEF TypeOK
<1>1. CASE ActivateKillSwitch
  BY <1>1, EngageType
     DEF ActivateKillSwitch, Engage, drawdownVars, limitVars
<1>2. CASE DeactivateKillSwitch
  <2>1. file' \in FileState
    BY <1>2, FileTypes DEF DeactivateKillSwitch
  <2>2. 0 \in 0 .. Cooldown
    OBVIOUS
  <2>3. QED
    BY <1>2, <2>1, <2>2 DEF DeactivateKillSwitch, drawdownVars, limitVars
<1>3. CASE CheckBlocked
  BY <1>3 DEF CheckBlocked, killVars, drawdownVars, limitVars
<1>4. ASSUME NEW usd \in Amounts, NEW bal \in Balances, CheckBreach(usd, bal)
      PROVE TypeOK'
  <2>1. obs' \in [0 .. ArmPeriod -> 0 .. MinObs]
    BY <1>4, ObsTypes DEF CheckBreach, ObsAtCheck
  <2>2. breaches' \in 0 .. MinObs
    <3>1. BreachesAtCheck + 1 \in Nat
      BY DEF BreachesAtCheck
    <3>2. AtMost(BreachesAtCheck + 1, MinObs) \in 0 .. MinObs
      BY <3>1, AtMostType
    <3>3. QED
      BY <1>4, <3>2 DEF CheckBreach
  <2>3. /\ killActive' \in BOOLEAN
        /\ killAge' \in 0 .. Cooldown
        /\ killReason' \in {"none", "manual", "drawdown", "restored"}
        /\ file' \in FileState
    BY <1>4, EngageType, ReleasedType, FilesAtCheckType DEF CheckBreach
  <2>4. QED
    BY <1>4, <2>1, <2>2, <2>3 DEF CheckBreach, limitVars
<1>5. ASSUME NEW m \in Market, NEW usd \in Amounts,
             NEW bal \in Balances \cup {None}, NEW gate \in BOOLEAN,
             CheckDenied(m, usd, bal, gate)
      PROVE TypeOK'
  <2>1. /\ killActive' \in BOOLEAN
        /\ killAge' \in 0 .. Cooldown
        /\ killReason' \in {"none", "manual", "drawdown", "restored"}
        /\ file' \in FileState
    BY <1>5, ReleasedType DEF CheckDenied
  <2>2. obs' \in [0 .. ArmPeriod -> 0 .. MinObs] /\ breaches' \in 0 .. MinObs
    BY <1>5, AtCheckTypes DEF CheckDenied
  <2>3. QED
    BY <1>5, <2>1, <2>2 DEF CheckDenied, limitVars
<1>6. ASSUME NEW m \in Market, NEW usd \in Amounts,
             NEW bal \in Balances \cup {None}, NEW gate \in BOOLEAN,
             NEW recorded \in Reported(usd), CheckAllowed(m, usd, bal, gate, recorded)
      PROVE TypeOK'
  <2> HIDE DEF TypeOK
  <2>1. usd \in Nat /\ recorded \in {0, usd}
    BY <1>6 DEF Reported
  <2>2. recorded \in Nat
    BY <2>1
  <2>3. QED
    BY <1>6, <2>2, AllowedType DEF CheckAllowed
<1>7. ASSUME NEW m \in Market, NEW c \in Category, SetMarketCategory(m, c)
      PROVE TypeOK'
  BY <1>7 DEF SetMarketCategory, killVars, drawdownVars
<1>8. ASSUME NEW m \in Market, RecordTradeTime(m)
      PROVE TypeOK'
  BY <1>8 DEF RecordTradeTime, killVars, drawdownVars
<1>9. ASSUME NEW amount \in Amounts, RecordLoss(amount)
      PROVE TypeOK'
  <2>1. AtMost(dailyLoss + amount, DailyLossLimit) \in 0 .. DailyLossLimit
    BY LossType, Zenon
  <2>2. QED
    BY <1>9, <2>1 DEF RecordLoss, killVars, drawdownVars
<1>10. CASE ResetDaily
  BY <1>10 DEF ResetDaily, killVars, drawdownVars
<1>11. ASSUME NEW balance \in Balances, UpdateBalance(balance)
       PROVE TypeOK'
  <2>1. peak' \in Nat
    BY <1>11 DEF UpdateBalance, PeakAfter
  <2>2. obs' \in [0 .. ArmPeriod -> 0 .. MinObs] /\ breaches' \in 0 .. MinObs
    <3>1. AtMost(breaches + 1, MinObs) \in 0 .. MinObs
      <4>1. breaches + 1 \in Nat /\ MinObs \in Nat
        OBVIOUS
      <4>2. QED
        BY <4>1, AtMostType, Zenon
    <3>2. Observed(obs) \in [0 .. ArmPeriod -> 0 .. MinObs]
      BY ObsTypes
    <3>3. QED
      BY <1>11, <3>1, <3>2 DEF UpdateBalance
  <2>3. /\ killActive' \in BOOLEAN
        /\ killAge' \in 0 .. Cooldown
        /\ killReason' \in {"none", "manual", "drawdown", "restored"}
        /\ file' \in FileState
    BY <1>11, EngageType DEF UpdateBalance, Engage, killVars
  <2>4. QED
    BY <1>11, <2>1, <2>2, <2>3 DEF UpdateBalance, limitVars
<1>12. CASE Crash
  <2>1. MemoryLost /\ saved' \in Exported \cup {None}
    BY <1>12 DEF Crash
  <2>2. QED
    BY <2>1, MemoryLostType
<1>13. CASE ExportAndStop
  <2>1. MemoryLost /\ saved' \in Exported \cup {None}
    BY <1>13, ExportedTypes DEF ExportAndStop
  <2>2. QED
    BY <2>1, MemoryLostType
<1>14. ASSUME NEW readable \in BOOLEAN, NEW import \in BOOLEAN, Start(readable, import)
       PROVE TypeOK'
  <2>1. /\ killActive' \in BOOLEAN
        /\ killAge' \in 0 .. Cooldown
        /\ killReason' \in {"none", "manual", "drawdown", "restored"}
        /\ file' \in FileState
    BY <1>14, FileTypes DEF Start, RestoreKillSwitch, FileState
  <2>2. \E s \in Exported : LimitsBecome(s)
    BY <1>14, ExportedTypes DEF Start
  <2>3. QED
    BY <1>14, <2>1, <2>2 DEF Start, LimitsBecome, Exported
<1>15. CASE Tick
  <2>1. file' \in FileState
    BY <1>15, OlderType DEF Tick, NoFile, FileState
  <2>2. \A t \in [Market -> 0 .. TradeCooldown] :
           [m \in Market |-> Older(t[m], TradeCooldown)] \in [Market -> 0 .. TradeCooldown]
    BY OlderType
  <2>3. saved' \in Exported \cup {None}
    BY <1>15, <2>2 DEF Tick, Exported
  <2>4. tradeAge' \in [Market -> 0 .. TradeCooldown]
    BY <1>15, <2>2 DEF Tick
  <2>5. obs' \in [0 .. ArmPeriod -> 0 .. MinObs]
    BY <1>15, ObsTypes DEF Tick
  <2>6. killAge' \in 0 .. Cooldown
    <3>1. Cooldown \in Nat /\ killAge \in 0 .. Cooldown /\ 0 \in 0 .. Cooldown
      OBVIOUS
    <3>2. Older(killAge, Cooldown) \in 0 .. Cooldown
      BY <3>1, OlderType, Zenon
    <3>3. QED
      BY <1>15, <3>1, <3>2 DEF Tick
  <2>7. QED
    BY <1>15, <2>1, <2>3, <2>4, <2>5, <2>6 DEF Tick
<1>16. CASE UNCHANGED vars
  BY <1>16 DEF vars, killVars, drawdownVars, limitVars
<1>17. CASE Check
  <2> HIDE DEF TypeOK
  <2>1. CASE \E usd \in Amounts, bal \in Balances : CheckBreach(usd, bal)
    BY <2>1, <1>4, Zenon
  <2>2. ASSUME NEW m \in Market, NEW usd \in Amounts,
               NEW bal \in Balances \cup {None}, NEW gate \in BOOLEAN,
               \/ CheckDenied(m, usd, bal, gate)
               \/ \E recorded \in Reported(usd) : CheckAllowed(m, usd, bal, gate, recorded)
        PROVE TypeOK'
    BY <2>2, <1>5, <1>6, Zenon
  <2>3. QED
    BY <1>3, <2>1, <2>2, <1>17, Zenon DEF Check
<1>18. QED
  <2> HIDE DEF TypeOK
  <2>1. QED
    BY <1>1, <1>2, <1>7, <1>8, <1>9, <1>10, <1>11, <1>12, <1>13, <1>14,
       <1>15, <1>16, <1>17, Zenon DEF Next

\* The variables keep their types in every reachable state.
THEOREM TypeCorrect == Spec => []TypeOK
<1>1. Init => TypeOK
  BY TypeInit
<1>2. TypeOK /\ [Next]_vars => TypeOK'
  BY TypeStep
<1>3. QED
  BY <1>1, <1>2, PTL DEF Spec

-----------------------------------------------------------------------------
(* The exposure limits.                                                    *)

\* A process without exposure is within every limit.
LEMMA NoExposure == WithinExposureLimits([m \in Market |-> 0])
<1>1. Total([m \in Market |-> 0]) = 0
  BY TotalZero
<1>2. QED
  BY <1>1 DEF WithinExposureLimits

\* What is added to one market is added to the total.
LEMMA ExposureAdd ==
    ASSUME NEW e \in [Market -> Nat], NEW m \in Market, NEW usd \in Nat
    PROVE  Total([e EXCEPT ![m] = @ + usd]) = Total(e) + usd
<1>1. \A f \in [Market -> Nat], k \in Market, n \in Nat :
         Total([f EXCEPT ![k] = @ + n]) = Total(f) + n
  BY MarketAssumption, TotalAdd
<1>2. QED
  BY <1>1

\* One fill that check() allowed keeps the exposure within its limits.
LEMMA FillWithinLimits ==
    ASSUME TypeOK, WithinExposureLimits(exposure),
           NEW m \in Market, NEW usd \in Amounts,
           NEW bal \in Balances \cup {None}, NEW gate \in BOOLEAN,
           WithinLimits(m, usd, bal, gate)
    PROVE  WithinExposureLimits([exposure EXCEPT ![m] = @ + usd])
<1> DEFINE next == [exposure EXCEPT ![m] = @ + usd]
<1>0. exposure \in [Market -> Nat] /\ usd \in Nat
  BY DEF TypeOK
<1>1. Total(next) = Total(exposure) + usd
  BY <1>0, ExposureAdd, Zenon
<1>2. Total(exposure) + usd <= MaxTotal /\ exposure[m] + usd <= MaxMarket
  BY DEF WithinLimits
<1>3. ASSUME NEW n \in Market PROVE next[n] <= MaxMarket
  <2>1. CASE n = m
    BY <1>0, <1>2, <2>1
  <2>2. CASE n # m
    BY <1>0, <2>2 DEF WithinExposureLimits
  <2>3. QED
    BY <2>1, <2>2
<1>4. QED
  BY <1>1, <1>2, <1>3 DEF WithinExposureLimits

\* The limits hold in every next state.  Only a fill raises an exposure; a
\* restart takes it from an export or starts from none.
LEMMA ExposureStep ==
    ASSUME TypeOK, ExposureWithinLimits, [Next]_vars
    PROVE  ExposureWithinLimits'
<1> DEFINE Unmoved == exposure' = exposure /\ saved' = saved
<1>1. ASSUME Unmoved PROVE ExposureWithinLimits'
  BY <1>1 DEF ExposureWithinLimits, WithinExposureLimits, Unmoved
<1>2. CASE Check
  <2>1. CASE CheckBlocked
    BY <2>1, <1>1 DEF CheckBlocked, limitVars
  <2>2. ASSUME NEW usd \in Amounts, NEW bal \in Balances, CheckBreach(usd, bal)
        PROVE ExposureWithinLimits'
    BY <2>2, <1>1 DEF CheckBreach, limitVars
  <2>3. ASSUME NEW m \in Market, NEW usd \in Amounts,
               NEW bal \in Balances \cup {None}, NEW gate \in BOOLEAN,
               CheckDenied(m, usd, bal, gate)
        PROVE ExposureWithinLimits'
    BY <2>3, <1>1 DEF CheckDenied, limitVars
  <2>4. ASSUME NEW m \in Market, NEW usd \in Amounts,
               NEW bal \in Balances \cup {None}, NEW gate \in BOOLEAN,
               NEW recorded \in Reported(usd), CheckAllowed(m, usd, bal, gate, recorded)
        PROVE ExposureWithinLimits'
    <3>1. saved' = saved /\ exposure' = [exposure EXCEPT ![m] = @ + recorded]
      BY <2>4 DEF CheckAllowed, RecordFill
    <3>2. CASE recorded = usd
      <4>1. WithinExposureLimits([exposure EXCEPT ![m] = @ + usd])
        BY <2>4, FillWithinLimits DEF CheckAllowed, ExposureWithinLimits
      <4>2. QED
        BY <3>1, <3>2, <4>1 DEF ExposureWithinLimits, WithinExposureLimits
    <3>3. CASE recorded = 0
      <4>1. exposure \in [Market -> Nat]
        BY DEF TypeOK
      <4>2. exposure' = exposure
        BY <3>1, <3>3, <4>1
      <4>3. QED
        BY <3>1, <4>2, <1>1
    <3>4. QED
      BY <2>4, <3>2, <3>3 DEF Reported
  <2>5. CASE \E usd \in Amounts, bal \in Balances : CheckBreach(usd, bal)
    BY <2>2, <2>5, Zenon
  <2>6. ASSUME NEW m \in Market, NEW usd \in Amounts,
               NEW bal \in Balances \cup {None}, NEW gate \in BOOLEAN,
               \/ CheckDenied(m, usd, bal, gate)
               \/ \E recorded \in Reported(usd) : CheckAllowed(m, usd, bal, gate, recorded)
        PROVE ExposureWithinLimits'
    BY <2>3, <2>4, <2>6, Zenon
  <2>7. QED
    BY <1>2, <2>1, <2>5, <2>6, Zenon DEF Check
<1>3. ASSUME MemoryLost, saved' = None \/ saved' = ExportedState
      PROVE ExposureWithinLimits'
  <2>1. exposure' = [m \in Market |-> 0]
    BY <1>3 DEF MemoryLost, LimitsBecome, FreshLimits
  <2>2. saved' # None => saved'.exposure = exposure
    BY <1>3 DEF ExportedState
  <2>3. QED
    BY <2>1, <2>2, NoExposure DEF ExposureWithinLimits, WithinExposureLimits
<1>4. CASE Crash
  BY <1>4, <1>3 DEF Crash
<1>5. CASE ExportAndStop
  BY <1>5, <1>3 DEF ExportAndStop
<1>6. ASSUME NEW readable \in BOOLEAN, NEW import \in BOOLEAN, Start(readable, import)
      PROVE ExposureWithinLimits'
  <2>1. saved' = None
    BY <1>6 DEF Start
  <2>2. CASE import /\ saved # None
    <3>1. exposure' = saved.exposure
      BY <1>6, <2>2 DEF Start, LimitsBecome
    <3>2. QED
      BY <2>1, <2>2, <3>1 DEF ExposureWithinLimits, WithinExposureLimits
  <2>3. CASE ~(import /\ saved # None)
    <3>1. exposure' = [m \in Market |-> 0]
      BY <1>6, <2>3 DEF Start, LimitsBecome, FreshLimits
    <3>2. QED
      BY <2>1, <3>1, NoExposure DEF ExposureWithinLimits, WithinExposureLimits
  <2>4. QED
    BY <2>2, <2>3
<1>7. CASE Tick
  <2>1. exposure' = exposure
    BY <1>7 DEF Tick
  <2>2. saved' # None => saved # None /\ saved'.exposure = saved.exposure
    BY <1>7 DEF Tick, TypeOK, Exported
  <2>3. QED
    BY <2>1, <2>2 DEF ExposureWithinLimits, WithinExposureLimits
<1>8. CASE ActivateKillSwitch
  BY <1>8, <1>1 DEF ActivateKillSwitch, limitVars
<1>9. CASE DeactivateKillSwitch
  BY <1>9, <1>1 DEF DeactivateKillSwitch, limitVars
<1>10. ASSUME NEW m \in Market, NEW c \in Category, SetMarketCategory(m, c)
       PROVE ExposureWithinLimits'
  BY <1>10, <1>1 DEF SetMarketCategory
<1>11. ASSUME NEW m \in Market, RecordTradeTime(m)
       PROVE ExposureWithinLimits'
  BY <1>11, <1>1 DEF RecordTradeTime
<1>12. ASSUME NEW amount \in Amounts, RecordLoss(amount)
       PROVE ExposureWithinLimits'
  BY <1>12, <1>1 DEF RecordLoss
<1>13. CASE ResetDaily
  BY <1>13, <1>1 DEF ResetDaily
<1>14. ASSUME NEW balance \in Balances, UpdateBalance(balance)
       PROVE ExposureWithinLimits'
  BY <1>14, <1>1 DEF UpdateBalance, limitVars
<1>15. CASE UNCHANGED vars
  BY <1>15, <1>1 DEF vars, limitVars
<1>16. QED
  BY <1>2, <1>4, <1>5, <1>6, <1>7, <1>8, <1>9, <1>10, <1>11, <1>12, <1>13,
     <1>14, <1>15, Zenon DEF Next

\* Whatever is called, exported, restarted and imported, no recorded exposure
\* exceeds the limits of record for its market or for all markets (check() in
\* risk/controller.py).  Together with TypeOK the property is inductive.
THEOREM ExposureSafe == Spec => []ExposureWithinLimits
<1>1. Init => TypeOK /\ ExposureWithinLimits
  <2>1. Init => WithinExposureLimits(exposure) /\ saved = None
    BY NoExposure DEF Init
  <2>2. QED
    BY <2>1, TypeInit DEF ExposureWithinLimits
<1>2. TypeOK /\ ExposureWithinLimits /\ [Next]_vars
        => TypeOK' /\ ExposureWithinLimits'
  BY TypeStep, ExposureStep
<1>3. QED
  BY <1>1, <1>2, PTL DEF Spec

-----------------------------------------------------------------------------
(* The limit of a category.                                                *)

\* A running figure for each category is the sum over the markets filed under
\* it, and within the limit.
Filed(cat, c) == {m \in Market : cat[m] = c}
Counted(e, cat, figure) ==
    \A c \in Category : figure[c] = TotalOver(e, Filed(cat, c)) /\ figure[c] <= MaxCategory

\* It is so in memory and in an export, from which a later process may go on.
CategoryInv ==
    /\ Counted(exposure, category, categoryExposure)
    /\ saved # None => Counted(saved.exposure, saved.category, saved.categoryExposure)

\* The markets of a category are finitely many.
LEMMA FiledTypes ==
    ASSUME NEW cat, NEW c
    PROVE  Filed(cat, c) \in SUBSET Market /\ IsFiniteSet(Filed(cat, c))
<1>1. Filed(cat, c) \in SUBSET Market
  BY DEF Filed
<1>2. QED
  BY <1>1, FS_Subset

\* The sum over the markets of a category, as one of them is filled.
LEMMA FiledAdd ==
    ASSUME NEW e \in [Market -> Nat], NEW cat, NEW c, NEW m \in Market, NEW usd \in Nat
    PROVE  TotalOver([e EXCEPT ![m] = @ + usd], Filed(cat, c))
             = TotalOver(e, Filed(cat, c)) + (IF cat[m] = c THEN usd ELSE 0)
<1> HIDE LimitAssumption, NoneAssumption, InputAssumption
<1> DEFINE S == Filed(cat, c)
           next == [e EXCEPT ![m] = @ + usd]
<1>1. S \in SUBSET Market /\ IsFiniteSet(S) /\ TotalOver(e, S) \in Nat
  BY FiledTypes, TotalOverType
<1>2. CASE cat[m] = c
  <2>1. m \in S /\ e[m] \in Nat /\ e[m] + usd \in Nat
    BY <1>2 DEF Filed
  <2> HIDE DEF S
  <2>2. \A v \in Nat : TotalOver([e EXCEPT ![m] = v], S) = TotalOver(e, S) - e[m] + v
    <3>1. SUFFICES ASSUME NEW v \in Nat
                   PROVE  TotalOver([e EXCEPT ![m] = v], S) = TotalOver(e, S) - e[m] + v
      OBVIOUS
    <3>2. S \in SUBSET Market /\ IsFiniteSet(S) /\ m \in S
      BY <1>1, <2>1
    <3>3. QED
      BY <3>2, TotalOverReplace, ZenonT(40)
  <2>3. TotalOver(next, S) = TotalOver(e, S) - e[m] + (e[m] + usd)
    BY <2>1, <2>2
  <2>4. TotalOver(next, S) = TotalOver(e, S) + usd
    BY <1>1, <2>1, <2>3
  <2>5. QED
    BY <1>1, <1>2, <2>4 DEF S
<1>3. CASE cat[m] # c
  <2>1. \A x \in S : next[x] = e[x]
    BY <1>3 DEF Filed
  <2> HIDE DEF S, next
  <2>2. TotalOver(next, S) = TotalOver(e, S)
    BY <2>1, TotalOverSame, Zenon
  <2>3. TotalOver(next, S) = TotalOver(e, S) + 0
    BY <1>1, <2>2
  <2>4. QED
    BY <1>1, <1>3, <2>3 DEF S, next
<1>4. QED
  BY <1>2, <1>3

\* Nothing is filed and nothing is exposed in a fresh process.
LEMMA FreshCounted ==
    Counted([m \in Market |-> 0], [m \in Market |-> None], [c \in Category |-> 0])
<1> SUFFICES ASSUME NEW c \in Category
             PROVE  /\ [k \in Category |-> 0][c]
                         = TotalOver([m \in Market |-> 0], Filed([m \in Market |-> None], c))
                    /\ [k \in Category |-> 0][c] <= MaxCategory
  BY DEF Counted
<1>1. \A m \in Filed([x \in Market |-> None], c) : [x \in Market |-> 0][m] = 0
  BY DEF Filed
<1>2. TotalOver([x \in Market |-> 0], Filed([x \in Market |-> None], c)) = 0
  BY <1>1, TotalOverZero, Zenon
<1>3. QED
  BY <1>2

\* One allowed fill, or an order that was not filled.
LEMMA FillCounted ==
    ASSUME TypeOK, CategoryInv,
           NEW m \in Market, NEW usd \in Amounts,
           NEW bal \in Balances \cup {None}, NEW gate \in BOOLEAN,
           NEW recorded \in Reported(usd), CheckAllowed(m, usd, bal, gate, recorded)
    PROVE  CategoryInv'
<1>0. /\ exposure \in [Market -> Nat] /\ categoryExposure \in [Category -> Int]
      /\ category[m] \in Category \cup {None} /\ usd \in Nat /\ recorded \in {0, usd}
      /\ exposure' = [exposure EXCEPT ![m] = @ + recorded]
      /\ category' = category /\ saved' = saved
  BY DEF TypeOK, CheckAllowed, RecordFill, Reported
<1>1. recorded \in Nat /\ recorded <= usd
  BY <1>0
<1>2. ASSUME NEW c \in Category
      PROVE  /\ categoryExposure'[c] = TotalOver(exposure', Filed(category, c))
             /\ categoryExposure'[c] <= MaxCategory
  <2>1. PICK total \in Nat : total = TotalOver(exposure, Filed(category, c))
    BY <1>0, FiledTypes, TotalOverType
  <2>2. TotalOver(exposure', Filed(category, c))
          = total + (IF category[m] = c THEN recorded ELSE 0)
    <3>1. \A e \in [Market -> Nat], u \in Nat :
             TotalOver([e EXCEPT ![m] = @ + u], Filed(category, c))
               = TotalOver(e, Filed(category, c)) + (IF category[m] = c THEN u ELSE 0)
      <4>1. PICK cat : cat = category
        OBVIOUS
      <4> HIDE LimitAssumption, NoneAssumption, InputAssumption
      <4>2. \A e \in [Market -> Nat], u \in Nat :
               TotalOver([e EXCEPT ![m] = @ + u], Filed(cat, c))
                 = TotalOver(e, Filed(cat, c)) + (IF cat[m] = c THEN u ELSE 0)
        <5> SUFFICES ASSUME NEW e \in [Market -> Nat], NEW u \in Nat
                     PROVE  TotalOver([e EXCEPT ![m] = @ + u], Filed(cat, c))
                              = TotalOver(e, Filed(cat, c)) + (IF cat[m] = c THEN u ELSE 0)
          OBVIOUS
        <5>1. \A f \in [Market -> Nat] : \A g, d : \A x \in Market, n \in Nat :
                 TotalOver([f EXCEPT ![x] = @ + n], Filed(g, d))
                   = TotalOver(f, Filed(g, d)) + (IF g[x] = d THEN n ELSE 0)
          BY FiledAdd
        <5>2. \A g, d : \A x \in Market, n \in Nat :
                 TotalOver([e EXCEPT ![x] = @ + n], Filed(g, d))
                   = TotalOver(e, Filed(g, d)) + (IF g[x] = d THEN n ELSE 0)
          BY <5>1
        <5>3. \A x \in Market, n \in Nat :
                 TotalOver([e EXCEPT ![x] = @ + n], Filed(cat, c))
                   = TotalOver(e, Filed(cat, c)) + (IF cat[x] = c THEN n ELSE 0)
          BY <5>2
        <5>4. \A n \in Nat :
                 TotalOver([e EXCEPT ![m] = @ + n], Filed(cat, c))
                   = TotalOver(e, Filed(cat, c)) + (IF cat[m] = c THEN n ELSE 0)
          BY <5>3
        <5> QED
          BY <5>4
      <4>3. QED
        BY <4>1, <4>2
    <3>2. QED
      BY <1>0, <1>1, <2>1, <3>1
  <2>3. categoryExposure[c] = total /\ categoryExposure[c] <= MaxCategory
    BY <2>1 DEF CategoryInv, Counted
  <2>4. CASE category[m] = c
    <3>1. categoryExposure' = [categoryExposure EXCEPT ![c] = @ + recorded]
      BY <2>4 DEF CheckAllowed, RecordFill
    <3>2. categoryExposure'[c] = total + recorded
      BY <1>0, <2>3, <3>1
    <3>3. total + usd <= MaxCategory
      BY <2>3, <2>4 DEF CheckAllowed, WithinLimits
    <3>4. QED
      BY <1>0, <1>1, <2>1, <2>2, <2>4, <3>2, <3>3
  <2>5. CASE category[m] # c
    <3>1. categoryExposure'[c] = categoryExposure[c]
      BY <1>0, <2>5 DEF CheckAllowed, RecordFill
    <3>2. QED
      BY <2>1, <2>2, <2>3, <2>5, <3>1
  <2>6. QED
    BY <2>4, <2>5
<1>3. QED
  BY <1>0, <1>2 DEF CategoryInv, Counted

\* Filing a market for the first time, before it has any exposure.
LEMMA FilingCounted ==
    ASSUME TypeOK, CategoryInv, ~Recategorise,
           NEW m \in Market, NEW c \in Category, SetMarketCategory(m, c)
    PROVE  CategoryInv'
<1>0. /\ category[m] = None /\ exposure[m] = 0 /\ exposure \in [Market -> Nat]
      /\ category \in [Market -> Category \cup {None}]
      /\ category' = [category EXCEPT ![m] = c]
      /\ categoryExposure' = categoryExposure /\ exposure' = exposure /\ saved' = saved
  BY DEF SetMarketCategory, TypeOK
<1>1. ASSUME NEW x \in Category
      PROVE  TotalOver(exposure, Filed(category', x)) = TotalOver(exposure, Filed(category, x))
  <2>1. CASE x = c
    <3>1. Filed(category', x) = Filed(category, x) \cup {m} /\ Filed(category, x) \cap {m} = {}
      BY <1>0, <2>1 DEF Filed
    <3>2. PICK S \in SUBSET Market : S = Filed(category, x) /\ IsFiniteSet(S)
      BY FiledTypes
    <3>3. PICK e \in [Market -> Nat] : e = exposure
      BY <1>0
    <3>4. {m} \in SUBSET Market /\ IsFiniteSet({m}) /\ S \cap {m} = {}
      BY <3>1, <3>2, FS_Singleton
    <3>5. TotalOver(e, S \cup {m}) = TotalOver(e, S) + TotalOver(e, {m})
      BY <3>2, <3>4, TotalOverUnion
    <3>6. TotalOver(e, {m}) = 0
      BY <1>0, <3>3, TotalOverZero
    <3>7. TotalOver(e, S) \in Nat
      BY <3>2, TotalOverType
    <3>8. TotalOver(e, S \cup {m}) = TotalOver(e, S)
      BY <3>5, <3>6, <3>7
    <3>9. QED
      BY <3>1, <3>2, <3>3, <3>8
  <2>2. CASE x # c
    <3>1. Filed(category', x) = Filed(category, x)
      BY <1>0, <2>2 DEF Filed
    <3>2. QED
      BY <3>1
  <2>3. QED
    BY <2>1, <2>2
<1>2. QED
  BY <1>0, <1>1 DEF CategoryInv, Counted

LEMMA CategoryStep ==
    ASSUME TypeOK, CategoryInv, ~Recategorise, [Next]_vars
    PROVE  CategoryInv'
<1>1. ASSUME UNCHANGED <<exposure, category, categoryExposure, saved>> PROVE CategoryInv'
  BY <1>1 DEF CategoryInv, Counted
<1>2. CASE Check
  <2>1. CASE CheckBlocked
    BY <2>1, <1>1 DEF CheckBlocked, limitVars
  <2>2. ASSUME NEW usd \in Amounts, NEW bal \in Balances, CheckBreach(usd, bal)
        PROVE CategoryInv'
    BY <2>2, <1>1 DEF CheckBreach, limitVars
  <2>3. ASSUME NEW m \in Market, NEW usd \in Amounts,
               NEW bal \in Balances \cup {None}, NEW gate \in BOOLEAN,
               CheckDenied(m, usd, bal, gate)
        PROVE CategoryInv'
    BY <2>3, <1>1 DEF CheckDenied, limitVars
  <2>4. CASE \E usd \in Amounts, bal \in Balances : CheckBreach(usd, bal)
    BY <2>2, <2>4, Zenon
  <2>5. ASSUME NEW m \in Market, NEW usd \in Amounts,
               NEW bal \in Balances \cup {None}, NEW gate \in BOOLEAN,
               \/ CheckDenied(m, usd, bal, gate)
               \/ \E recorded \in Reported(usd) : CheckAllowed(m, usd, bal, gate, recorded)
        PROVE CategoryInv'
    BY <2>3, <2>5, FillCounted, Zenon
  <2>6. QED
    BY <1>2, <2>1, <2>4, <2>5, Zenon DEF Check
<1>3. ASSUME MemoryLost, saved' = None \/ saved' = ExportedState
      PROVE CategoryInv'
  <2>1. Counted(exposure', category', categoryExposure')
    BY <1>3, FreshCounted DEF MemoryLost, LimitsBecome, FreshLimits
  <2>2. saved' # None => Counted(saved'.exposure, saved'.category, saved'.categoryExposure)
    BY <1>3 DEF ExportedState, CategoryInv
  <2>3. QED
    BY <2>1, <2>2 DEF CategoryInv, Counted
<1>4. CASE Crash \/ ExportAndStop
  BY <1>3, <1>4 DEF Crash, ExportAndStop
<1>5. ASSUME NEW readable \in BOOLEAN, NEW import \in BOOLEAN, Start(readable, import)
      PROVE CategoryInv'
  <2>1. saved' = None
    BY <1>5 DEF Start
  <2>2. CASE LimitsBecome(FreshLimits)
    BY <2>1, <2>2, FreshCounted DEF CategoryInv, LimitsBecome, FreshLimits
  <2>3. CASE saved # None /\ LimitsBecome(saved)
    BY <2>1, <2>3 DEF CategoryInv, LimitsBecome
  <2>4. QED
    BY <1>5, <2>2, <2>3 DEF Start
<1>6. CASE Tick
  <2>1. UNCHANGED <<exposure, category, categoryExposure>>
    BY <1>6 DEF Tick
  <2>2. saved' # None => /\ saved # None
                         /\ saved'.exposure = saved.exposure
                         /\ saved'.category = saved.category
                         /\ saved'.categoryExposure = saved.categoryExposure
    BY <1>6 DEF Tick, TypeOK, Exported
  <2>3. QED
    BY <2>1, <2>2 DEF CategoryInv, Counted
<1>7. ASSUME NEW m \in Market, NEW c \in Category, SetMarketCategory(m, c)
      PROVE CategoryInv'
  BY <1>7, FilingCounted
<1>8. CASE \/ ActivateKillSwitch \/ DeactivateKillSwitch \/ ResetDaily
           \/ \E m \in Market : RecordTradeTime(m)
           \/ \E amount \in Amounts : RecordLoss(amount)
           \/ \E balance \in Balances : UpdateBalance(balance)
  <2>1. UNCHANGED <<exposure, category, categoryExposure, saved>>
    BY <1>8 DEF ActivateKillSwitch, DeactivateKillSwitch, ResetDaily, RecordTradeTime,
                RecordLoss, UpdateBalance, limitVars
  <2>2. QED
    BY <1>1, <2>1
<1>9. CASE UNCHANGED vars
  BY <1>1, <1>9 DEF vars, limitVars
<1>10. QED
  BY <1>2, <1>4, <1>5, <1>6, <1>7, <1>8, <1>9, Zenon DEF Next

\* As long as no market with exposure changes its category, the markets of a
\* category together stay within its limit, of which check() only reads a running
\* figure; also across an export and an import (risk/controller.py).
THEOREM CategorySafe ==
    ASSUME ~Recategorise
    PROVE  Spec => []CategoryWithinLimit
<1>1. Init => TypeOK /\ CategoryInv
  <2>1. Init => Counted(exposure, category, categoryExposure) /\ saved = None
    BY FreshCounted DEF Init
  <2>2. QED
    BY <2>1, TypeInit DEF CategoryInv
<1>2. TypeOK /\ CategoryInv /\ [Next]_vars => TypeOK' /\ CategoryInv'
  BY TypeStep, CategoryStep
<1>3. CategoryInv => CategoryWithinLimit
  BY DEF CategoryInv, Counted, Filed, CategoryWithinLimit, MarketsOf
<1>4. QED
  BY <1>1, <1>2, <1>3, PTL DEF Spec

-----------------------------------------------------------------------------
(* The observation window of the circuit-breaker.                          *)

\* There are never more observations in the window than were made since the
\* cooldown last expired, or enough have been made since to engage the switch.
Backed(o, made) == made >= MinObs \/ Total(o) <= made
WindowInv == Backed(obs, breaches)

\* The observations counted by age sum to a natural number.
LEMMA ObsTotal ==
    ASSUME NEW o \in [0 .. ArmPeriod -> 0 .. MinObs]
    PROVE  Total(o) \in Nat /\ o \in [0 .. ArmPeriod -> Nat] /\ IsFiniteSet(0 .. ArmPeriod)
<1>1. ArmPeriod \in Nat /\ 0 \in Int /\ ArmPeriod \in Int
  OBVIOUS
<1>2. IsFiniteSet(0 .. ArmPeriod)
  BY <1>1, FS_Interval, Zenon
<1>3. o \in [0 .. ArmPeriod -> Nat]
  OBVIOUS
<1>4. Total(o) \in Nat
  BY <1>2, <1>3, TotalType, Zenon
<1>5. QED
  BY <1>2, <1>3, <1>4

\* Cleared with the count, at the expiry of the cooldown and in a new process.
LEMMA BackedCleared == Backed(NoObs, 0)
<1>1. Total(NoObs) = 0
  BY TotalZero DEF NoObs
<1>2. QED
  BY <1>1 DEF Backed

\* One observation made and counted.
LEMMA BackedObserved ==
    ASSUME NEW o \in [0 .. ArmPeriod -> 0 .. MinObs], NEW made \in 0 .. MinObs,
           Backed(o, made)
    PROVE  Backed(Observed(o), AtMost(made + 1, MinObs))
<1> DEFINE n == AtMost(o[0] + 1, MinObs)
<1>1. 0 \in 0 .. ArmPeriod /\ o[0] \in 0 .. MinObs
  OBVIOUS
<1>2. n \in Nat /\ n <= o[0] + 1
  BY <1>1 DEF AtMost
<1>3. Total(o) \in Nat /\ o \in [0 .. ArmPeriod -> Nat] /\ IsFiniteSet(0 .. ArmPeriod)
  BY ObsTotal
<1>4. Total([o EXCEPT ![0] = n]) = Total(o) - o[0] + n
  <2> HIDE DEF n
  <2>1. n \in Nat /\ 0 \in 0 .. ArmPeriod
    BY <1>1, <1>2
  <2>2. \A f \in [0 .. ArmPeriod -> Nat], k \in 0 .. ArmPeriod, v \in Nat :
           Total([f EXCEPT ![k] = v]) = Total(f) - f[k] + v
    BY <1>3, TotalReplace, Zenon
  <2>3. QED
    BY <1>3, <2>1, <2>2
<1>5. Observed(o) = [o EXCEPT ![0] = n]
  BY DEF Observed
<1>6. Total(Observed(o)) <= Total(o) + 1
  <2> HIDE DEF n
  <2>1. QED
    BY <1>1, <1>2, <1>3, <1>4, <1>5
<1>7. Total(Observed(o)) \in Nat
  BY ObsTypes, ObsTotal
<1>8. QED
  BY <1>3, <1>6, <1>7 DEF Backed, AtMost

\* Observations that age, and leave the window, are not new ones.
LEMMA BackedAged ==
    ASSUME NEW o \in [0 .. ArmPeriod -> 0 .. MinObs], NEW made \in 0 .. MinObs,
           Backed(o, made)
    PROVE  Backed(ObsAged(o), made)
<1>1. o \in [0 .. ArmPeriod -> Nat] /\ Total(o) \in Nat /\ ArmPeriod \in Nat
  BY ObsTotal
<1>2. Total([a \in 0 .. ArmPeriod |-> IF a = 0 THEN 0 ELSE o[a - 1]]) <= Total(o)
  BY <1>1, TotalShift, Zenon
<1>3. Total(ObsAged(o)) <= Total(o)
  BY <1>2 DEF ObsAged
<1>4. Total(ObsAged(o)) \in Nat
  BY ObsTypes, ObsTotal
<1>5. QED
  BY <1>1, <1>3, <1>4 DEF Backed

\* What a check that is not blocked leaves in the window.
LEMMA BackedAtCheck ==
    ASSUME WindowInv
    PROVE  Backed(ObsAtCheck, BreachesAtCheck)
BY BackedCleared DEF WindowInv, ObsAtCheck, BreachesAtCheck

LEMMA WindowStep ==
    ASSUME TypeOK, WindowInv, [Next]_vars
    PROVE  WindowInv'
<1>1. obs \in [0 .. ArmPeriod -> 0 .. MinObs] /\ breaches \in 0 .. MinObs
  BY DEF TypeOK
<1>2. ASSUME UNCHANGED <<obs, breaches>> PROVE WindowInv'
  BY <1>2 DEF WindowInv, Backed
<1>3. ASSUME obs' = ObsAtCheck, breaches' = BreachesAtCheck PROVE WindowInv'
  BY <1>3, BackedAtCheck DEF WindowInv
<1>4. ASSUME obs' = NoObs, breaches' = 0 PROVE WindowInv'
  BY <1>4, BackedCleared DEF WindowInv
<1>5. CASE Check
  <2>1. CASE CheckBlocked
    BY <2>1, <1>2 DEF CheckBlocked, drawdownVars
  <2>2. ASSUME NEW usd \in Amounts, NEW bal \in Balances, CheckBreach(usd, bal)
        PROVE WindowInv'
    <3>1. PICK o \in [0 .. ArmPeriod -> 0 .. MinObs] : o = ObsAtCheck
      BY AtCheckTypes
    <3>2. PICK made \in 0 .. MinObs : made = BreachesAtCheck
      BY AtCheckTypes
    <3>3. Backed(Observed(o), AtMost(made + 1, MinObs))
      BY <3>1, <3>2, BackedAtCheck, BackedObserved
    <3>4. QED
      BY <2>2, <3>1, <3>2, <3>3 DEF CheckBreach, WindowInv
  <2>3. CASE \E usd \in Amounts, bal \in Balances : CheckBreach(usd, bal)
    BY <2>2, <2>3, Zenon
  <2>4. ASSUME NEW m \in Market, NEW usd \in Amounts,
               NEW bal \in Balances \cup {None}, NEW gate \in BOOLEAN,
               \/ CheckDenied(m, usd, bal, gate)
               \/ \E recorded \in Reported(usd) : CheckAllowed(m, usd, bal, gate, recorded)
        PROVE WindowInv'
    BY <2>4, <1>3 DEF CheckDenied, CheckAllowed
  <2>5. QED
    BY <1>5, <2>1, <2>3, <2>4, Zenon DEF Check
<1>6. ASSUME NEW balance \in Balances, UpdateBalance(balance)
      PROVE WindowInv'
  <2>1. CASE UNCHANGED <<obs, breaches>>
    BY <1>2, <2>1
  <2>2. CASE obs' = Observed(obs) /\ breaches' = AtMost(breaches + 1, MinObs)
    <3>1. PICK o \in [0 .. ArmPeriod -> 0 .. MinObs] : o = obs
      BY <1>1
    <3>2. PICK made \in 0 .. MinObs : made = breaches
      BY <1>1
    <3>3. Backed(Observed(o), AtMost(made + 1, MinObs))
      BY <3>1, <3>2, BackedObserved DEF WindowInv
    <3>4. QED
      BY <2>2, <3>1, <3>2, <3>3 DEF WindowInv
  <2>3. QED
    BY <1>6, <2>1, <2>2 DEF UpdateBalance
<1>7. CASE Tick
  <2>1. PICK o \in [0 .. ArmPeriod -> 0 .. MinObs] : o = obs
    BY <1>1
  <2>2. PICK made \in 0 .. MinObs : made = breaches
    BY <1>1
  <2>3. Backed(ObsAged(o), made)
    BY <2>1, <2>2, BackedAged DEF WindowInv
  <2>4. QED
    BY <1>7, <2>1, <2>2, <2>3 DEF Tick, WindowInv
<1>8. CASE Crash \/ ExportAndStop
  BY <1>4, <1>8 DEF Crash, ExportAndStop, MemoryLost
<1>9. CASE \E readable, import \in BOOLEAN : Start(readable, import)
  BY <1>2, <1>9 DEF Start
<1>10. CASE \/ ActivateKillSwitch \/ DeactivateKillSwitch \/ ResetDaily
            \/ \E m \in Market, c \in Category : SetMarketCategory(m, c)
            \/ \E m \in Market : RecordTradeTime(m)
            \/ \E amount \in Amounts : RecordLoss(amount)
  <2>1. UNCHANGED <<obs, breaches>>
    BY <1>10 DEF ActivateKillSwitch, DeactivateKillSwitch, ResetDaily, SetMarketCategory,
                 RecordTradeTime, RecordLoss, drawdownVars
  <2>2. QED
    BY <1>2, <2>1
<1>11. CASE UNCHANGED vars
  BY <1>2, <1>11 DEF vars, drawdownVars
<1>12. QED
  BY <1>5, <1>6, <1>7, <1>8, <1>9, <1>10, <1>11, Zenon DEF Next

\* Only a step that finds the window full enough engages the switch for drawdown.
LEMMA EngagedWhenArmed ==
    ASSUME [Next]_vars, up, ~killActive, killActive', killReason' = "drawdown"
    PROVE  Armed(obs')
<1>1. ~UNCHANGED <<killActive>>
  OBVIOUS
<1>2. CASE Check
  <2>1. ASSUME NEW usd \in Amounts, NEW bal \in Balances, CheckBreach(usd, bal)
        PROVE Armed(obs')
    BY <2>1 DEF CheckBreach, Released
  <2>2. ~CheckBlocked
    BY <1>1 DEF CheckBlocked, killVars
  <2>3. ASSUME NEW m \in Market, NEW usd \in Amounts,
               NEW bal \in Balances \cup {None}, NEW gate \in BOOLEAN,
               \/ CheckDenied(m, usd, bal, gate)
               \/ \E recorded \in Reported(usd) : CheckAllowed(m, usd, bal, gate, recorded)
        PROVE FALSE
    BY <2>3 DEF CheckDenied, CheckAllowed, Released
  <2>4. QED
    BY <1>2, <2>1, <2>2, <2>3, Zenon DEF Check
<1>3. ASSUME NEW balance \in Balances, UpdateBalance(balance) PROVE Armed(obs')
  BY <1>1, <1>3 DEF UpdateBalance, killVars
<1>4. ~ActivateKillSwitch /\ ~DeactivateKillSwitch
  BY DEF ActivateKillSwitch, DeactivateKillSwitch, Engage, EngageFrom
<1>5. ~Crash /\ ~ExportAndStop /\ ~(\E readable, import \in BOOLEAN : Start(readable, import))
  BY DEF Crash, ExportAndStop, MemoryLost, Start
<1>6. ~Tick
  BY <1>1 DEF Tick
<1>7. ASSUME \/ \E m \in Market, c \in Category : SetMarketCategory(m, c)
             \/ \E m \in Market : RecordTradeTime(m)
             \/ \E amount \in Amounts : RecordLoss(amount)
             \/ ResetDaily
      PROVE FALSE
  BY <1>1, <1>7 DEF SetMarketCategory, RecordTradeTime, RecordLoss, ResetDaily, killVars
<1>8. ~UNCHANGED vars
  BY <1>1 DEF vars, killVars
<1>9. QED
  BY <1>2, <1>3, <1>4, <1>5, <1>6, <1>7, <1>8, Zenon DEF Next

\* After a cooldown has expired, and in every new process, the circuit-breaker
\* engages the switch only after drawdown_min_observations new observations, in
\* check() and update_balance() of risk/controller.py.
THEOREM FreshWindow == Spec => FreshWindowAfterExpiry
<1>1. Init => WindowInv
  BY BackedCleared DEF Init, WindowInv
<1>2. TypeOK /\ WindowInv /\ [Next]_vars => WindowInv'
  BY WindowStep
<1>3. TypeOK' /\ WindowInv' /\ [Next]_vars
        => [ (up /\ ~killActive /\ killActive' /\ killReason' = "drawdown")
               => breaches' >= MinObs ]_vars
  <2>1. SUFFICES ASSUME TypeOK', WindowInv', [Next]_vars,
                        up, ~killActive, killActive', killReason' = "drawdown"
                 PROVE  breaches' >= MinObs
    OBVIOUS
  <2>2. Total(obs') >= MinObs
    BY <2>1, EngagedWhenArmed DEF Armed
  <2>3. PICK o \in [0 .. ArmPeriod -> 0 .. MinObs] : o = obs'
    BY <2>1 DEF TypeOK
  <2>4. Total(o) \in Nat
    BY ObsTotal
  <2>5. breaches' \in 0 .. MinObs /\ Backed(o, breaches')
    BY <2>1, <2>3 DEF TypeOK, WindowInv
  <2>6. QED
    BY <2>2, <2>3, <2>4, <2>5 DEF Backed
<1>4. QED
  BY <1>1, <1>2, <1>3, TypeCorrect, PTL DEF Spec, FreshWindowAfterExpiry

-----------------------------------------------------------------------------
(* The kill switch implements its abstract specification.                  *)

\* What relates the two copies of the switch.  No process, no active switch
\* and no order passing; and a file left beside an active switch is at least
\* as old as the activation in memory, because a failed write leaves an older
\* one there.  So the file has expired whenever the memory has.
SwitchInv ==
    /\ ~up => ~killActive /\ verdict # "allow"
    /\ killActive /\ file # NoFile => file >= killAge

\* When a check finds the switch expired, clearing the file or failing to
\* clear it makes no difference to what a restart would find.
LEMMA ExpiredFile ==
    ASSUME TypeOK, SwitchInv, ~Blocked, NEW f \in FilesAtCheck
    PROVE  /\ f \in FileState
           /\ (IF f = NoFile THEN 0 ELSE Cooldown - f) = DiskLeft
           /\ BlockLeft = 0
<1>1. f \in FileState
  BY FilesAtCheckType DEF TypeOK
<1>2. CASE ~killActive
  BY <1>1, <1>2 DEF FilesAtCheck, DiskLeft, BlockLeft
<1>3. CASE killActive
  <2>1. killAge = Cooldown
    BY <1>3 DEF Blocked, TypeOK
  <2>2. file # NoFile => file = Cooldown
    BY <1>3, <2>1 DEF SwitchInv, TypeOK, FileState
  <2>3. f = NoFile \/ f = file
    BY <1>3 DEF FilesAtCheck, Cleared
  <2>4. QED
    BY <1>1, <1>3, <2>1, <2>2, <2>3 DEF DiskLeft, BlockLeft
<1>4. QED
  BY <1>2, <1>3

LEMMA SwitchStep ==
    ASSUME TypeOK, SwitchInv, [Next]_vars
    PROVE  SwitchInv'
<1>1. ASSUME up, up' = up, NEW f \in FileState, NEW why, EngageFrom(f, why)
      PROVE SwitchInv'
  <2>1. killAge' = 0 /\ (file' = 0 \/ file' = f)
    BY <1>1 DEF EngageFrom, Persisted
  <2>2. file' # NoFile => file' >= 0
    BY <2>1 DEF FileState, NoFile
  <2>3. QED
    BY <1>1, <2>1, <2>2 DEF SwitchInv, NoFile
<1>2. ASSUME up', ~killActive' PROVE SwitchInv'
  BY <1>2 DEF SwitchInv
<1>3. ASSUME up' = up, UNCHANGED killVars, verdict' = "none" \/ up' PROVE SwitchInv'
  BY <1>3 DEF SwitchInv, killVars, NoFile
<1>4. CASE Check
  <2>1. CASE CheckBlocked
    BY <2>1, <1>3 DEF CheckBlocked
  <2>2. ASSUME NEW usd \in Amounts, NEW bal \in Balances, CheckBreach(usd, bal)
        PROVE SwitchInv'
    <3>1. CASE Armed(obs')
      <4>1. PICK f \in FilesAtCheck : EngageFrom(f, "drawdown")
        BY <2>2, <3>1 DEF CheckBreach
      <4>2. f \in FileState
        BY FilesAtCheckType DEF TypeOK
      <4>3. up /\ up' = up
        BY <2>2 DEF CheckBreach
      <4>4. QED
        BY <4>1, <4>2, <4>3, <1>1
    <3>2. CASE ~Armed(obs')
      BY <2>2, <3>2, <1>2 DEF CheckBreach, Released
    <3>3. QED
      BY <3>1, <3>2
  <2>3. ASSUME NEW m \in Market, NEW usd \in Amounts,
               NEW bal \in Balances \cup {None}, NEW gate \in BOOLEAN,
               \/ CheckDenied(m, usd, bal, gate)
               \/ \E recorded \in Reported(usd) : CheckAllowed(m, usd, bal, gate, recorded)
        PROVE SwitchInv'
    BY <2>3, <1>2 DEF CheckDenied, CheckAllowed, Released
  <2>4. CASE \E usd \in Amounts, bal \in Balances : CheckBreach(usd, bal)
    BY <2>2, <2>4, Zenon
  <2>5. QED
    BY <1>4, <2>1, <2>3, <2>4, Zenon DEF Check
<1>5. CASE ActivateKillSwitch
  <2>1. file \in FileState /\ up /\ up' = up /\ EngageFrom(file, "manual")
    BY <1>5 DEF ActivateKillSwitch, Engage, TypeOK
  <2>2. QED
    BY <2>1, <1>1
<1>6. CASE DeactivateKillSwitch
  BY <1>6, <1>2 DEF DeactivateKillSwitch
<1>7. ASSUME NEW m \in Market, NEW c \in Category, SetMarketCategory(m, c)
      PROVE SwitchInv'
  BY <1>7, <1>3 DEF SetMarketCategory
<1>8. ASSUME NEW m \in Market, RecordTradeTime(m)
      PROVE SwitchInv'
  BY <1>8, <1>3 DEF RecordTradeTime
<1>9. ASSUME NEW amount \in Amounts, RecordLoss(amount)
      PROVE SwitchInv'
  BY <1>9, <1>3 DEF RecordLoss
<1>10. CASE ResetDaily
  BY <1>10, <1>3 DEF ResetDaily
<1>11. ASSUME NEW balance \in Balances, UpdateBalance(balance)
       PROVE SwitchInv'
  <2>1. CASE UNCHANGED killVars
    BY <1>11, <2>1, <1>3 DEF UpdateBalance
  <2>2. CASE Engage("drawdown")
    <3>1. file \in FileState /\ up /\ up' = up /\ EngageFrom(file, "drawdown")
      BY <1>11, <2>2 DEF UpdateBalance, Engage, TypeOK
    <3>2. QED
      BY <3>1, <1>1
  <2>3. QED
    BY <1>11, <2>1, <2>2 DEF UpdateBalance
<1>12. CASE Crash \/ ExportAndStop
  BY <1>12 DEF Crash, ExportAndStop, MemoryLost, SwitchInv
<1>13. ASSUME NEW readable \in BOOLEAN, NEW import \in BOOLEAN, Start(readable, import)
       PROVE SwitchInv'
  <2>1. up' /\ (killActive' => killAge' = file /\ file' = file /\ file # NoFile)
    BY <1>13 DEF Start, RestoreKillSwitch
  <2>2. file # NoFile => file >= file
    BY DEF TypeOK, FileState, NoFile
  <2>3. QED
    BY <2>1, <2>2 DEF SwitchInv, NoFile
<1>14. CASE Tick
  <2>1. up' = up /\ killActive' = killActive /\ verdict' = "none"
    BY <1>14 DEF Tick
  <2>2. ASSUME killActive, file' # NoFile PROVE file' >= killAge'
    <3>1. file # NoFile /\ file' = Older(file, Cooldown) /\ killAge' = Older(killAge, Cooldown)
      BY <1>14, <2>2 DEF Tick, NoFile
    <3>2. file >= killAge /\ file \in 0 .. Cooldown /\ killAge \in 0 .. Cooldown
      BY <2>2, <3>1 DEF SwitchInv, TypeOK, FileState
    <3>3. QED
      BY <3>1, <3>2 DEF Older
  <2>3. QED
    BY <2>1, <2>2 DEF SwitchInv, NoFile
<1>15. CASE UNCHANGED vars
  BY <1>15 DEF vars, killVars, SwitchInv, NoFile
<1>16. QED
  BY <1>4, <1>5, <1>6, <1>7, <1>8, <1>9, <1>10, <1>11, <1>12, <1>13, <1>14,
     <1>15, Zenon DEF Next

\* The initial state is one of the abstract switch.
LEMMA SwitchInit == Init => SwitchInv /\ KS!KSInit
BY DEF Init, SwitchInv, KS!KSInit, BlockLeft, DiskLeft

\* A step that leaves the switch, its file and the process alone.
LEMMA SwitchUntouched ==
    ASSUME UNCHANGED <<up, killVars>>, verdict' # "allow"
    PROVE  KS!KSNext
BY DEF KS!KSNext, KS!KSOther, BlockLeft, DiskLeft, killVars, NoFile

\* Engaging the switch from a file that a restart reads like the present one.
LEMMA SwitchEngaged ==
    ASSUME TypeOK, up, up' = up, verdict' # "allow",
           NEW f \in FileState, NEW why, EngageFrom(f, why),
           (IF f = NoFile THEN 0 ELSE Cooldown - f) = DiskLeft
    PROVE  KS!KSNext
<1>1. BlockLeft' = Cooldown
  BY DEF EngageFrom, BlockLeft
<1>2. file' = 0 \/ file' = f
  BY DEF EngageFrom, Persisted
<1>3. DiskLeft' = Cooldown \/ DiskLeft' = DiskLeft
  BY <1>2 DEF DiskLeft, NoFile
<1>4. KS!KSEngage
  BY <1>1, <1>3 DEF KS!KSEngage
<1>5. QED
  BY <1>4 DEF KS!KSNext

\* Whatever a check that is not blocked returns, it is a step of the abstract
\* switch: an order passes only when nothing is left of the block.
LEMMA SwitchReleased ==
    ASSUME TypeOK, SwitchInv, up, up' = up, ~Blocked, Released
    PROVE  KS!KSNext
<1>1. PICK f \in FilesAtCheck : file' = f
  BY DEF Released
<1>2. BlockLeft = 0 /\ BlockLeft' = 0
  BY <1>1, ExpiredFile DEF Released, BlockLeft
<1>3. DiskLeft' = DiskLeft
  <2>1. (IF f = NoFile THEN 0 ELSE Cooldown - f) = DiskLeft
    BY <1>1, ExpiredFile
  <2>2. QED
    BY <1>1, <2>1 DEF DiskLeft, NoFile
<1>4. CASE verdict' = "allow"
  BY <1>2, <1>3, <1>4 DEF KS!KSNext, KS!KSPass
<1>5. CASE verdict' # "allow"
  BY <1>2, <1>3, <1>5 DEF KS!KSNext, KS!KSOther
<1>6. QED
  BY <1>4, <1>5

\* Every step of the controller is a step of the abstract switch or stutters.
LEMMA SwitchRefines ==
    ASSUME TypeOK, SwitchInv, [Next]_vars
    PROVE  [KS!KSNext]_(KS!ksVars)
<1>1. CASE Check
  <2>1. ASSUME CheckBlocked PROVE KS!KSNext
    BY <2>1, SwitchUntouched DEF CheckBlocked
  <2>2. ASSUME NEW usd \in Amounts, NEW bal \in Balances, CheckBreach(usd, bal)
        PROVE KS!KSNext
    <3>1. up /\ up' = up /\ ~Blocked /\ verdict' # "allow"
      BY <2>2 DEF CheckBreach
    <3>2. CASE Armed(obs')
      <4>1. PICK f \in FilesAtCheck : EngageFrom(f, "drawdown")
        BY <2>2, <3>2 DEF CheckBreach
      <4>2. f \in FileState /\ (IF f = NoFile THEN 0 ELSE Cooldown - f) = DiskLeft
        BY <3>1, ExpiredFile
      <4>3. QED
        BY <3>1, <4>1, <4>2, SwitchEngaged
    <3>3. CASE ~Armed(obs')
      <4>1. Released
        BY <2>2, <3>3 DEF CheckBreach
      <4>2. QED
        BY <3>1, <4>1, SwitchReleased
    <3>4. QED
      BY <3>2, <3>3
  <2>3. ASSUME NEW m \in Market, NEW usd \in Amounts,
               NEW bal \in Balances \cup {None}, NEW gate \in BOOLEAN,
               \/ CheckDenied(m, usd, bal, gate)
               \/ \E recorded \in Reported(usd) : CheckAllowed(m, usd, bal, gate, recorded)
        PROVE KS!KSNext
    <3>1. up /\ up' = up /\ ~Blocked /\ Released
      BY <2>3 DEF CheckDenied, CheckAllowed
    <3>2. QED
      BY <3>1, SwitchReleased
  <2>4. ASSUME \E usd \in Amounts, bal \in Balances : CheckBreach(usd, bal)
        PROVE KS!KSNext
    BY <2>2, <2>4, Zenon
  <2>5. KS!KSNext
    BY <1>1, <2>1, <2>3, <2>4, Zenon DEF Check
  <2>6. QED
    BY <2>5
<1>2. CASE ActivateKillSwitch
  <2>1. /\ file \in FileState /\ up /\ up' = up /\ verdict' # "allow"
        /\ EngageFrom(file, "manual")
    BY <1>2 DEF ActivateKillSwitch, Engage, TypeOK
  <2>2. KS!KSNext
    BY <2>1, SwitchEngaged DEF DiskLeft
  <2>3. QED
    BY <2>2
<1>3. CASE DeactivateKillSwitch
  <2>1. up /\ up' = up /\ BlockLeft' = 0 /\ verdict' # "allow"
    BY <1>3 DEF DeactivateKillSwitch, BlockLeft
  <2>2. DiskLeft' = 0 \/ DiskLeft' = DiskLeft
    BY <1>3 DEF DeactivateKillSwitch, Cleared, DiskLeft, NoFile
  <2>3. KS!KSReset
    BY <2>1, <2>2 DEF KS!KSReset
  <2>4. QED
    BY <2>3 DEF KS!KSNext
<1>4. ASSUME NEW balance \in Balances, UpdateBalance(balance)
      PROVE KS!KSNext
  <2>1. up /\ up' = up /\ verdict' # "allow"
    BY <1>4 DEF UpdateBalance
  <2>2. CASE UNCHANGED killVars
    BY <2>1, <2>2, SwitchUntouched
  <2>3. CASE Engage("drawdown")
    <3>1. file \in FileState /\ EngageFrom(file, "drawdown")
      BY <2>3 DEF Engage, TypeOK
    <3>2. QED
      BY <2>1, <3>1, SwitchEngaged DEF DiskLeft
  <2>4. QED
    BY <1>4, <2>2, <2>3 DEF UpdateBalance
<1>5. CASE \/ \E m \in Market, c \in Category : SetMarketCategory(m, c)
           \/ \E m \in Market : RecordTradeTime(m)
           \/ \E amount \in Amounts : RecordLoss(amount)
           \/ ResetDaily
  <2>1. UNCHANGED <<up, killVars>> /\ verdict' # "allow"
    BY <1>5 DEF SetMarketCategory, RecordTradeTime, RecordLoss, ResetDaily
  <2>2. QED
    BY <2>1, SwitchUntouched
<1>6. CASE Crash \/ ExportAndStop
  <2>1. up /\ up' = FALSE /\ BlockLeft' = 0 /\ file' = file /\ verdict' # "allow"
    BY <1>6 DEF Crash, ExportAndStop, MemoryLost, BlockLeft
  <2>2. KS!KSStop
    BY <2>1 DEF KS!KSStop, DiskLeft, NoFile
  <2>3. QED
    BY <2>2 DEF KS!KSNext
<1>7. ASSUME NEW readable \in BOOLEAN, NEW import \in BOOLEAN, Start(readable, import)
      PROVE KS!KSNext
  <2>1. ~up /\ up' = TRUE /\ verdict' # "allow" /\ RestoreKillSwitch(readable)
    BY <1>7 DEF Start
  <2>2. file # NoFile => file \in 0 .. Cooldown
    BY DEF TypeOK, FileState
  <2>3. BlockLeft' \in {DiskLeft, 0}
    BY <2>1, <2>2 DEF RestoreKillSwitch, BlockLeft, DiskLeft, NoFile
  <2>4. DiskLeft' = DiskLeft
    BY <2>1, <2>2 DEF RestoreKillSwitch, Cleared, DiskLeft, NoFile
  <2>5. KS!KSStart
    BY <2>1, <2>3, <2>4 DEF KS!KSStart
  <2>6. QED
    BY <2>5 DEF KS!KSNext
<1>8. CASE Tick
  <2>1. up' = up /\ verdict' # "allow"
    BY <1>8 DEF Tick
  <2>0. /\ Cooldown \in Nat /\ killAge \in 0 .. Cooldown
        /\ file \in (0 .. Cooldown) \cup {None}
        /\ KS!Less(0) = 0
        /\ None \notin 0 .. Cooldown
    BY DEF TypeOK, FileState, NoFile, KS!Less
  <2>2. BlockLeft' = KS!Less(BlockLeft)
    <3>1. killActive' = killActive
      BY <1>8 DEF Tick
    <3>2. CASE killActive
      <4>1. killAge' = Older(killAge, Cooldown)
        BY <1>8, <3>2 DEF Tick
      <4>2. BlockLeft' = Cooldown - killAge'
        BY <3>1, <3>2 DEF BlockLeft
      <4>3. BlockLeft = Cooldown - killAge
        BY <3>2 DEF BlockLeft
      <4>4. Cooldown - Older(killAge, Cooldown) = KS!Less(Cooldown - killAge)
        BY <2>0, OlderLeavesLess
      <4>5. QED
        BY <4>1, <4>2, <4>3, <4>4
    <3>3. CASE ~killActive
      BY <2>0, <3>1, <3>3 DEF BlockLeft
    <3>4. QED
      BY <3>2, <3>3
  <2>3. DiskLeft' = KS!Less(DiskLeft)
    <3>1. CASE file = NoFile
      <4>1. file' = NoFile
        BY <1>8, <3>1 DEF Tick
      <4>2. QED
        BY <2>0, <3>1, <4>1 DEF DiskLeft
    <3>2. CASE file # NoFile
      <4>1. file' = Older(file, Cooldown) /\ file \in 0 .. Cooldown
        BY <1>8, <2>0, <3>2 DEF Tick, NoFile
      <4>2. file' # NoFile
        BY <2>0, <4>1, OlderType DEF NoFile
      <4>3. DiskLeft' = Cooldown - file' /\ DiskLeft = Cooldown - file
        BY <3>2, <4>2 DEF DiskLeft
      <4>4. Cooldown - Older(file, Cooldown) = KS!Less(Cooldown - file)
        BY <2>0, <4>1, OlderLeavesLess
      <4>5. QED
        BY <4>1, <4>3, <4>4
    <3>3. QED
      BY <3>1, <3>2
  <2>4. KS!KSTick
    BY <2>1, <2>2, <2>3 DEF KS!KSTick
  <2>5. QED
    BY <2>4 DEF KS!KSNext
<1>9. CASE UNCHANGED vars
  BY <1>9 DEF vars, killVars, KS!ksVars, BlockLeft, DiskLeft, NoFile
<1>10. QED
  BY <1>1, <1>2, <1>3, <1>4, <1>5, <1>6, <1>7, <1>8, <1>9, Zenon DEF Next

\* Across crashes, restarts, failing writes and expired files the controller
\* keeps the promise of the abstract switch: no order passes while any of the
\* block is left, and only a person, the clock or a restart takes it away.
THEOREM KillSwitchKept == Spec => KillSwitchPromise
<1>1. Init => TypeOK /\ SwitchInv /\ KS!KSInit
  BY TypeInit, SwitchInit
<1>2. TypeOK /\ SwitchInv /\ [Next]_vars => TypeOK' /\ SwitchInv'
  BY TypeStep, SwitchStep
<1>3. TypeOK /\ SwitchInv /\ [Next]_vars => [KS!KSNext]_(KS!ksVars)
  BY SwitchRefines
<1>4. QED
  BY <1>1, <1>2, <1>3, PTL DEF Spec, KillSwitchPromise, KS!KSSpec

=============================================================================
