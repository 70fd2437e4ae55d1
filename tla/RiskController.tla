--------------------------- MODULE RiskController ---------------------------
(***************************************************************************)
(* The pre-trade risk gate (risk/controller.py): exposure limits, daily    *)
(* loss, drawdown circuit-breaker, kill switch with a cooldown, and the    *)
(* kill-switch file that outlives the process.                             *)
(*                                                                         *)
(* Time is relative.  A timestamp t of the code is held as its age         *)
(* now - t, saturated at the threshold it is compared with, so the model   *)
(* runs for ever in finitely many states.  Amounts are whole dollars and   *)
(* percentages are integers out of 100.                                    *)
(*                                                                         *)
(* Reasons, log lines and the individual deny_* codes are not modelled:    *)
(* every limit that refuses a trade changes nothing else, so they all give *)
(* the verdict "deny".                                                     *)
(***************************************************************************)
EXTENDS Bounds, Totals

CONSTANTS
    Market, Category,    \* identifiers the callers use
    None,                \* Python's None: no balance given, no category set
    MaxTotal,            \* max_total_exposure_usd
    MaxMarket,           \* max_per_market_exposure_usd
    MaxTrade,            \* max_per_trade_usd
    MaxCategory,         \* max_category_exposure_usd
    DailyLossLimit,      \* daily_loss_limit_usd
    DrawdownPct,         \* drawdown_circuit_breaker_pct, in percent
    PositionPct,         \* max_position_pct_of_portfolio, in percent
    Cooldown,            \* kill_switch_cooldown_sec, in ticks
    ArmPeriod,           \* drawdown_arm_period_sec, in ticks
    MinObs,              \* drawdown_min_observations
    TradeCooldown,       \* trade_cooldown_sec, in ticks
    InitialBalance,      \* initial_balance of the constructor
    Amounts, Balances,   \* the dollar amounts and balances callers pass in
    Recategorise         \* may a caller give a market another category?

ASSUME MarketAssumption == IsFiniteSet(Market)
ASSUME NoneAssumption == None \notin Category /\ None \notin Nat
ASSUME LimitAssumption ==
    /\ MaxTotal \in Nat /\ MaxMarket \in Nat /\ MaxTrade \in Nat
    /\ MaxCategory \in Nat /\ DailyLossLimit \in Nat
    /\ DrawdownPct \in 1 .. 99 /\ PositionPct \in 1 .. 99
    /\ Cooldown \in Nat \ {0} /\ MinObs \in Nat \ {0}
    /\ ArmPeriod \in Nat /\ TradeCooldown \in Nat /\ InitialBalance \in Nat
ASSUME InputAssumption ==
    /\ Amounts \subseteq Nat
    /\ Balances \subseteq Nat
    /\ Recategorise \in BOOLEAN

VARIABLES
    up,                  \* is the process that owns the controller running?
    killActive,          \* _kill_switch_active
    killAge,             \* age of _kill_switch_at
    killReason,          \* _kill_switch_reason
    file,                \* data/kill_switch.json
    peak,                \* _peak_balance
    obs,                 \* _drawdown_observations: how many of each age
    exposure,            \* _market_exposure
    category,            \* _market_categories
    categoryExposure,    \* _category_exposure
    dailyLoss,           \* _daily_loss
    tradeAge,            \* age of _last_trade_at of each market
    verdict,             \* what the last call to check() returned
    saved,               \* the dict of the last export_state(), until imported
    breaches             \* history: observations since the cooldown last expired

killVars == <<killActive, killAge, killReason, file>>
drawdownVars == <<peak, obs, breaches>>
limitVars == <<exposure, category, categoryExposure, dailyLoss, tradeAge>>
vars == <<up, killVars, drawdownVars, limitVars, verdict, saved>>

-----------------------------------------------------------------------------
(* Ages, counters and the kill-switch file.                                *)

\* One tick later.  An age that reached its threshold stays there.
Older(age, threshold) == IF age < threshold THEN age + 1 ELSE threshold

\* The file is absent, or holds active = true and an activated_at of some age.
NoFile == None
FileState == (0 .. Cooldown) \cup {NoFile}

\* _persist_kill_switch writes a temporary file and renames it; any error is
\* logged and swallowed, and then the previous file is still there.
Persisted(f) == {0, f}

\* _clear_kill_switch_file unlinks the file; an error is swallowed too.
Cleared(f) == {NoFile, f}

NoObs == [age \in 0 .. ArmPeriod |-> 0]

\* Append an observation made now.
Observed(o) == [o EXCEPT ![0] = AtMost(@ + 1, MinObs)]

\* One tick later: what is older than the arm period is out of the window.
ObsAged(o) == [age \in 0 .. ArmPeriod |-> IF age = 0 THEN 0 ELSE o[age - 1]]

\* len(observations) >= drawdown_min_observations
Armed(o) == Total(o) >= MinObs

\* drawdown_pct >= drawdown_circuit_breaker_pct, against the peak p
InDrawdown(p, balance) == p > 0 /\ (p - balance) * 100 >= DrawdownPct * p

\* update_balance: a peak more than twice the balance is taken for one left by
\* an earlier session and is replaced; then the peak follows the balance up.
PeakAfter(balance) ==
    IF peak > 2 * balance \/ balance > peak THEN balance ELSE peak

-----------------------------------------------------------------------------
(* Memory a new process starts with, and what export_state() copies.       *)

FreshLimits ==
    [exposure |-> [m \in Market |-> 0],
     category |-> [m \in Market |-> None],
     categoryExposure |-> [c \in Category |-> 0],
     dailyLoss |-> 0,
     peak |-> InitialBalance,
     tradeAge |-> [m \in Market |-> TradeCooldown]]

ExportedState ==
    [exposure |-> exposure, category |-> category,
     categoryExposure |-> categoryExposure, dailyLoss |-> dailyLoss,
     peak |-> peak, tradeAge |-> tradeAge]

\* The next values of the exported fields are those of s.
LimitsBecome(s) ==
    /\ exposure' = s.exposure
    /\ category' = s.category
    /\ categoryExposure' = s.categoryExposure
    /\ dailyLoss' = s.dailyLoss
    /\ peak' = s.peak
    /\ tradeAge' = s.tradeAge

-----------------------------------------------------------------------------
(* The kill switch: activate, deactivate.                                  *)

\* activate_kill_switch, starting from the file f.
EngageFrom(f, why) ==
    /\ killActive' = TRUE
    /\ killAge' = 0
    /\ killReason' = why
    /\ file' \in Persisted(f)

Engage(why) == EngageFrom(file, why)

\* Telegram's /killswitch, the CLI and the tests call it directly.
ActivateKillSwitch ==
    /\ up
    /\ Engage("manual")
    /\ verdict' = "none"
    /\ UNCHANGED <<up, drawdownVars, limitVars, saved>>

\* The drawdown observations stay.
DeactivateKillSwitch ==
    /\ up
    /\ killActive' = FALSE
    /\ killAge' = 0
    /\ killReason' = "none"
    /\ file' \in Cleared(file)
    /\ verdict' = "none"
    /\ UNCHANGED <<up, drawdownVars, limitVars, saved>>

-----------------------------------------------------------------------------
(* check(): a pre-trade check, and the fill its caller records for it.      *)

\* The kill switch is on and its cooldown has not elapsed.  (A name with an
\* underscore is a faulty variant, kept to show that a property can fail: here
\* the cooldown never ends.)
Blocked_Forever == killActive
Blocked == killActive /\ killAge < Cooldown

\* What a check that is not blocked leaves of the observations and of the
\* file: an expired kill switch is released and both are cleared.  Faulty: the
\* observations survive the expiry.
ObsAtCheck_Kept == obs
ObsAtCheck == IF killActive THEN NoObs ELSE obs
BreachesAtCheck == IF killActive THEN 0 ELSE breaches
FilesAtCheck == IF killActive THEN Cleared(file) ELSE {file}

\* The switch is off after the check.
Released ==
    /\ killActive' = FALSE
    /\ killAge' = 0
    /\ killReason' = killReason
    /\ file' \in FilesAtCheck

\* A balance is given and the projected balance is in drawdown.
WouldBreach(usd, bal) == bal # None /\ bal >= usd /\ InDrawdown(peak, bal - usd)

\* Faulty: the limits are compared with the exposure before the trade.
WithinLimits_Before(m, usd, bal, gate) ==
    /\ bal # None => bal >= usd
    /\ usd <= MaxTrade
    /\ Total(exposure) <= MaxTotal
    /\ exposure[m] <= MaxMarket
    /\ category[m] # None => categoryExposure[category[m]] + usd <= MaxCategory
    /\ tradeAge[m] >= TradeCooldown
    /\ dailyLoss < DailyLossLimit
    /\ gate

\* Steps 3 to 12 of check().  "gate" says whether the market's spread, volume
\* and liquidity pass; the category is the one the market is filed under.
WithinLimits(m, usd, bal, gate) ==
    /\ bal # None => bal >= usd
    /\ usd <= MaxTrade
    /\ usd * 100 <= PositionPct * (IF bal = None THEN peak ELSE bal)
    /\ Total(exposure) + usd <= MaxTotal
    /\ exposure[m] + usd <= MaxMarket
    /\ category[m] # None => categoryExposure[category[m]] + usd <= MaxCategory
    /\ tradeAge[m] >= TradeCooldown
    /\ dailyLoss < DailyLossLimit
    /\ gate

\* Faulty: the category's figure is not kept up, or the fill is subtracted.
RecordFill_NoCategory(m, usd) ==
    /\ exposure' = [exposure EXCEPT ![m] = @ + usd]
    /\ UNCHANGED categoryExposure

RecordFill_Subtracted(m, usd) ==
    /\ exposure' = [exposure EXCEPT ![m] = @ - usd]
    /\ UNCHANGED categoryExposure

\* record_fill
RecordFill(m, usd) ==
    /\ exposure' = [exposure EXCEPT ![m] = @ + usd]
    /\ categoryExposure' = IF category[m] = None
                           THEN categoryExposure
                           ELSE [categoryExposure EXCEPT ![category[m]] = @ + usd]

\* The kill switch refuses every trade until its cooldown has elapsed.
CheckBlocked ==
    /\ up
    /\ Blocked
    /\ verdict' = "kill_switch"
    /\ UNCHANGED <<up, killVars, drawdownVars, limitVars, saved>>

\* The trade would breach the drawdown limit: an observation is taken, and
\* enough of them engage the kill switch.
CheckBreach(usd, bal) ==
    /\ up
    /\ ~Blocked
    /\ WouldBreach(usd, bal)
    /\ obs' = Observed(ObsAtCheck)
    /\ breaches' = AtMost(BreachesAtCheck + 1, MinObs)
    /\ IF Armed(obs')
       THEN /\ \E f \in FilesAtCheck : EngageFrom(f, "drawdown")
            /\ verdict' = "kill_switch"
       ELSE /\ Released
            /\ verdict' = "deny"
    /\ UNCHANGED <<up, peak, limitVars, saved>>

\* Some limit refuses the trade.
CheckDenied(m, usd, bal, gate) ==
    /\ up
    /\ ~Blocked
    /\ ~WouldBreach(usd, bal)
    /\ ~WithinLimits(m, usd, bal, gate)
    /\ Released
    /\ obs' = ObsAtCheck
    /\ breaches' = BreachesAtCheck
    /\ verdict' = "deny"
    /\ UNCHANGED <<up, peak, limitVars, saved>>

\* The trade is allowed.  The callers submit the order and report its fill
\* before anything else reaches the controller: "recorded" is the amount they
\* pass to record_fill, 0 for an order that was not filled.
CheckAllowed(m, usd, bal, gate, recorded) ==
    /\ up
    /\ ~Blocked
    /\ ~WouldBreach(usd, bal)
    /\ WithinLimits(m, usd, bal, gate)
    /\ Released
    /\ obs' = ObsAtCheck
    /\ breaches' = BreachesAtCheck
    /\ verdict' = "allow"
    /\ RecordFill(m, recorded)
    /\ UNCHANGED <<up, peak, category, dailyLoss, tradeAge, saved>>

-----------------------------------------------------------------------------
(* The other operations of the class.                                      *)

\* set_market_category: the exposure is taken out of the old category and is
\* not put into the new one.
SetMarketCategory(m, c) ==
    /\ up
    /\ Recategorise \/ (category[m] = None /\ exposure[m] = 0)
    /\ categoryExposure' =
           IF category[m] \notin {None, c}
           THEN [categoryExposure EXCEPT ![category[m]] = @ - exposure[m]]
           ELSE categoryExposure
    /\ category' = [category EXCEPT ![m] = c]
    /\ verdict' = "none"
    /\ UNCHANGED <<up, killVars, drawdownVars, exposure, dailyLoss, tradeAge, saved>>

RecordTradeTime(m) ==
    /\ up
    /\ tradeAge' = [tradeAge EXCEPT ![m] = 0]
    /\ verdict' = "none"
    /\ UNCHANGED <<up, killVars, drawdownVars, exposure, category,
                   categoryExposure, dailyLoss, saved>>

RecordLoss(amount) ==
    /\ up
    /\ dailyLoss' = AtMost(dailyLoss + amount, DailyLossLimit)
    /\ verdict' = "none"
    /\ UNCHANGED <<up, killVars, drawdownVars, exposure, category,
                   categoryExposure, tradeAge, saved>>

ResetDaily ==
    /\ up
    /\ dailyLoss' = 0
    /\ verdict' = "none"
    /\ UNCHANGED <<up, killVars, drawdownVars, exposure, category,
                   categoryExposure, tradeAge, saved>>

\* update_balance and _check_drawdown: after the peak is settled, a balance in
\* drawdown is an observation, and enough of them engage the kill switch,
\* whether or not it is engaged already.
UpdateBalance(balance) ==
    /\ up
    /\ peak' = PeakAfter(balance)
    /\ IF InDrawdown(peak', balance)
       THEN /\ obs' = Observed(obs)
            /\ breaches' = AtMost(breaches + 1, MinObs)
            /\ IF Armed(obs') THEN Engage("drawdown") ELSE UNCHANGED killVars
       ELSE UNCHANGED <<obs, breaches, killVars>>
    /\ verdict' = "none"
    /\ UNCHANGED <<up, limitVars, saved>>

-----------------------------------------------------------------------------
(* The process and the clock.                                              *)

\* What dies with the process.
MemoryLost ==
    /\ up' = FALSE
    /\ killActive' = FALSE
    /\ killAge' = 0
    /\ killReason' = "none"
    /\ obs' = NoObs
    /\ breaches' = 0
    /\ LimitsBecome(FreshLimits)
    /\ verdict' = "none"
    /\ file' = file

\* The process dies between two calls.
Crash ==
    /\ up
    /\ MemoryLost
    /\ saved' = None

\* The caller exports the state and ends the process.
ExportAndStop ==
    /\ up
    /\ MemoryLost
    /\ saved' = ExportedState

\* Faulty: a restored kill switch starts its cooldown anew.
RestoreKillSwitch_Anew(readable) ==
    /\ killActive' = (readable /\ file # NoFile)
    /\ killAge' = 0
    /\ killReason' = "restored"
    /\ file' = file

\* _restore_kill_switch.  An expired file is removed; a file that cannot be
\* read or parsed is ignored.
RestoreKillSwitch(readable) ==
    LET found == readable /\ file # NoFile
        live == found /\ file < Cooldown
    IN  /\ killActive' = live
        /\ killAge' = IF live THEN file ELSE 0
        /\ killReason' = IF live THEN "restored" ELSE "none"
        /\ IF found /\ ~live
           THEN file' \in Cleared(file)
           ELSE file' = file

\* The constructor, then import_state() if the caller has an export.
Start(readable, import) ==
    /\ ~up
    /\ up' = TRUE
    /\ RestoreKillSwitch(readable)
    /\ LimitsBecome(IF import /\ saved # None THEN saved ELSE FreshLimits)
    /\ saved' = None
    /\ verdict' = "none"
    /\ UNCHANGED <<obs, breaches>>

\* Time passes, for the process, for the file and for an exported state.
Tick ==
    /\ killAge' = IF killActive THEN Older(killAge, Cooldown) ELSE 0
    /\ file' = IF file = NoFile THEN NoFile ELSE Older(file, Cooldown)
    /\ obs' = ObsAged(obs)
    /\ tradeAge' = [m \in Market |-> Older(tradeAge[m], TradeCooldown)]
    /\ saved' = IF saved = None THEN None
                ELSE [saved EXCEPT !.tradeAge =
                        [m \in Market |-> Older(saved.tradeAge[m], TradeCooldown)]]
    /\ verdict' = "none"
    /\ UNCHANGED <<up, killActive, killReason, peak, breaches, exposure,
                   category, categoryExposure, dailyLoss>>

-----------------------------------------------------------------------------

Init ==
    /\ up = FALSE
    /\ killActive = FALSE
    /\ killAge = 0
    /\ killReason = "none"
    /\ file = NoFile
    /\ peak = InitialBalance
    /\ obs = NoObs
    /\ exposure = [m \in Market |-> 0]
    /\ category = [m \in Market |-> None]
    /\ categoryExposure = [c \in Category |-> 0]
    /\ dailyLoss = 0
    /\ tradeAge = [m \in Market |-> TradeCooldown]
    /\ verdict = "none"
    /\ saved = None
    /\ breaches = 0

\* What a caller reports of a trade of usd dollars: the amount it had checked,
\* as scripts/run_simulation.py does, or nothing.  The Engine reports more: see
\* module TradingLoop.
Reported(usd) == {0, usd}

Check ==
    \/ CheckBlocked
    \/ \E usd \in Amounts, bal \in Balances : CheckBreach(usd, bal)
    \/ \E m \in Market, usd \in Amounts, bal \in Balances \cup {None}, gate \in BOOLEAN :
          \/ CheckDenied(m, usd, bal, gate)
          \/ \E recorded \in Reported(usd) : CheckAllowed(m, usd, bal, gate, recorded)

Next ==
    \/ ActivateKillSwitch
    \/ DeactivateKillSwitch
    \/ Check
    \/ \E m \in Market, c \in Category : SetMarketCategory(m, c)
    \/ \E m \in Market : RecordTradeTime(m)
    \/ \E amount \in Amounts : RecordLoss(amount)
    \/ ResetDaily
    \/ \E balance \in Balances : UpdateBalance(balance)
    \/ Crash
    \/ ExportAndStop
    \/ \E readable, import \in BOOLEAN : Start(readable, import)
    \/ Tick

Spec == Init /\ [][Next]_vars

-----------------------------------------------------------------------------
(* Properties.                                                             *)

Exported ==
    [exposure : [Market -> Nat],
     category : [Market -> Category \cup {None}],
     categoryExposure : [Category -> Int],
     dailyLoss : 0 .. DailyLossLimit,
     peak : Nat,
     tradeAge : [Market -> 0 .. TradeCooldown]]

TypeOK ==
    /\ up \in BOOLEAN
    /\ killActive \in BOOLEAN
    /\ killAge \in 0 .. Cooldown
    /\ killReason \in {"none", "manual", "drawdown", "restored"}
    /\ file \in FileState
    /\ peak \in Nat
    /\ obs \in [0 .. ArmPeriod -> 0 .. MinObs]
    /\ exposure \in [Market -> Nat]
    /\ category \in [Market -> Category \cup {None}]
    /\ categoryExposure \in [Category -> Int]
    /\ dailyLoss \in 0 .. DailyLossLimit
    /\ tradeAge \in [Market -> 0 .. TradeCooldown]
    /\ verdict \in {"none", "allow", "deny", "kill_switch"}
    /\ saved \in Exported \cup {None}
    /\ breaches \in 0 .. MinObs

\* Whatever is called, exported, restarted and imported, as long as callers
\* report what they had checked, the exposure recorded for a market and over all
\* markets stays within the limits that check() compares with before each fill;
\* so does the exposure waiting in an export for the next process.
WithinExposureLimits(e) ==
    /\ Total(e) <= MaxTotal
    /\ \A m \in Market : e[m] <= MaxMarket

ExposureWithinLimits ==
    /\ WithinExposureLimits(exposure)
    /\ saved # None => WithinExposureLimits(saved.exposure)

\* The markets filed under a category do not hold more, taken together, than
\* the category's limit, although check() only ever reads the running figure
\* that record_fill and set_market_category maintain.
MarketsOf(c) == {m \in Market : category[m] = c}
CategoryWithinLimit ==
    \A c \in Category : TotalOver(exposure, MarketsOf(c)) <= MaxCategory

\* After a cooldown has expired the circuit-breaker has "a fresh observation
\* window": it engages the switch again only after min_observations new
\* observations.
FreshWindowAfterExpiry ==
    [][ (up /\ ~killActive /\ killActive' /\ killReason' = "drawdown")
          => breaches' >= MinObs ]_vars

\* The kill switch keeps the promise of module KillSwitch, across crashes,
\* restarts and failing writes: what is left of the block is read off the age
\* of the activation in memory, and off the age of the one in the file.
BlockLeft == IF killActive THEN Cooldown - killAge ELSE 0
DiskLeft == IF file = NoFile THEN 0 ELSE Cooldown - file

KS == INSTANCE KillSwitch WITH
          running <- up,
          remaining <- BlockLeft,
          disk <- DiskLeft,
          passed <- (verdict = "allow")

KillSwitchPromise == KS!KSSpec

\* A peak is dropped only if it is stale: more than 50% above the initial
\* balance, as the comment in update_balance has it.
PeakDroppedOnlyIfStale ==
    [][ (up /\ up' /\ peak' < peak) => 2 * peak > 3 * InitialBalance ]_vars

=============================================================================
