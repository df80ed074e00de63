------------------------------ MODULE RiskGates ------------------------------
(***************************************************************************)
(* What stands between a losing day and the next order: RiskManager        *)
(* (core/risk/risk_manager.py) with the file it keeps over restarts, the   *)
(* position size engine, the trading mode (core/services/mode_switch.py)   *)
(* and the loss limit of the kill switch, through the passes of main().    *)
(* Amounts are whole units; equity is counted from the starting capital,   *)
(* so the capital is 0 and a loss is negative.                             *)
(***************************************************************************)
EXTENDS Integers, Sequences, FiniteSetsExt

CONSTANTS
  DailyLoss,       \* MAX_DAILY_LOSS_AMOUNT, also the limit of the kill switch
  LockLoss,        \* 90 % of it: LOCKDOWN_LOSS_THRESHOLD
  WeeklyLoss,      \* MAX_WEEKLY_LOSS_AMOUNT
  Drawdown,        \* MAX_DRAWDOWN_AMOUNT
  Lookback,        \* DRAWDOWN_PEAK_LOOKBACK_SESSIONS, 0 for the all-time peak
  HistKept,        \* the 30 equity points a save and a load keep
  PerTrade,        \* risk_per_trade_amount
  HardCap,         \* smallest of the capital, daily and symbol caps
  LotRisk,         \* sl_points * lot_size
  Losing, Winning, \* what a lot may lose in a trade, the stop as the worst, and gain
  MaxLots,         \* max_lots
  Tolerance,       \* LotRisk * min_lot_rounding_tolerance_pct
  Floor,           \* min_lot_floor_enabled
  Multipliers,     \* soft allocation multipliers, in percent
  Cost,            \* round-trip cost of a trade
  StreakLimit,     \* consecutive_loss_limit, consecutive_win_limit
  PauseLen,        \* pause_after_consecutive_loss_sec, in ticks of the clock
  SwitchLen,       \* switch_cooldown_sec, in ticks of the clock
  LateTicks,       \* whether a late or wide tick may hide the limit (kill_switch.py)
  SaveFaults,      \* how a save may fail: "unwritten", "torn"
  DaysPerWeek,
  MaxDays,         \* bound: days
  MaxTrades,       \* bound: orders filled
  MaxLaunches,     \* bound: calls of main()
  MaxFaults        \* bound: saves that fail

ASSUME GatesAssumption ==
  /\ DailyLoss \in Nat \ {0} /\ LockLoss \in 1..DailyLoss
  /\ WeeklyLoss \in Nat \ {0} /\ Drawdown \in Nat \ {0} /\ Lookback \in Nat
  /\ HistKept \in Nat \ {0}
  /\ PerTrade \in Nat /\ HardCap \in Nat /\ LotRisk \in Nat \ {0}
  /\ Losing \subseteq 0..LotRisk /\ Winning \subseteq Nat
  /\ MaxLots \in Nat /\ Tolerance \in 0..(LotRisk - 1) /\ Floor \in BOOLEAN
  /\ Multipliers \subseteq Nat /\ Cost \in Nat
  /\ StreakLimit \in Nat \ {0} /\ PauseLen \in Nat \ {0} /\ SwitchLen \in Nat
  /\ SaveFaults \subseteq {"unwritten", "torn"}
  /\ LateTicks \in BOOLEAN /\ DaysPerWeek \in Nat \ {0}
  /\ MaxDays \in Nat \ {0} /\ MaxTrades \in Nat /\ MaxLaunches \in Nat /\ MaxFaults \in Nat

VARIABLES
  up,        \* "down", "between" two calls of main(), or "up"
  day,
  state,     \* state.state, and the steps of an exit's accounting
  lots,      \* lots of the open trade; its ACTIVE row outlives the process
  gross,     \* gross PnL of the trade being accounted
  rowPnl,    \* PnL of today's EXIT rows
  pnl,       \* state.daily_pnl_inr
  rm,        \* the RiskManager object
  file,      \* logs/risk_state.json; `whole` is FALSE when it is missing or torn
  mode, switchWait,   \* _current_mode, time left of its switch cooldown
  truth,     \* history: what record_trade was told, over all restarts
  unsaved,   \* history: the parts of it whose last save has failed
  forgot,    \* history: the parts a start has read from such a file
  fresh,     \* history: time left of the pause the last streak has earned
  lastOrder, \* history: the circumstances of the last order
  trades, launches, faults

machine == <<state, lots, gross>>
ledger == <<rowPnl, pnl>>
modes   == <<mode, switchWait>>
counts  == <<trades, launches>>
disk    == <<file, unsaved, forgot, faults>>
gateVars    == <<up, day, machine, ledger, rm, disk, modes, truth, fresh, lastOrder, counts>>

NoPause   == -1
Week(d)   == (d - 1) \div DaysPerWeek
MaxOf(a, b) == IF a >= b THEN a ELSE b
MinOf(a, b) == IF a <= b THEN a ELSE b

NewManager ==
  [daily |-> 0, weekly |-> 0, total |-> 0, peak |-> 0, equity |-> 0,
   losses |-> 0, wins |-> 0, pause |-> NoPause, hist |-> <<>>]

NoFile == [daily |-> 0, weekly |-> 0, total |-> 0, peak |-> 0, hist |-> <<>>, day |-> 1,
           whole |-> FALSE]

\* What a manager knows of the past: the day's result, the week's, the total with its peak.
Parts == {"day", "week", "total"}

NoOrder == [over |-> FALSE, late |-> FALSE, short |-> FALSE, paused |-> FALSE]

GatesInit ==
  /\ up = "down" /\ day = 1 /\ state = "IDLE" /\ lots = 0 /\ gross = 0
  /\ rowPnl = 0 /\ pnl = 0 /\ rm = NewManager
  /\ file = NoFile /\ unsaved = {} /\ forgot = {}
  /\ mode = "AGGRESSIVE" /\ switchWait = 0
  /\ truth = [day |-> 0, wiped |-> 0, week |-> 0, total |-> 0, top |-> 0]
  /\ fresh = 0 /\ lastOrder = NoOrder /\ trades = 0 /\ launches = 0 /\ faults = 0

LastOf(s, n) == SubSeq(s, MaxOf(1, Len(s) + 1 - n), Len(s))

\* _save_state
Saved(r) == [daily |-> r.daily, weekly |-> r.weekly, total |-> r.total,
             peak |-> r.peak, hist |-> LastOf(r.hist, HistKept), day |-> day,
             whole |-> TRUE]

\* The file is opened for writing, which empties it, and then dumped; what goes
\* wrong is swallowed, and a process may die in between.
Save(r) ==
  \/ file' = Saved(r) /\ unsaved' = {} /\ UNCHANGED faults
  \/ /\ faults < MaxFaults /\ faults' = faults + 1 /\ unsaved' = Parts
     /\ \/ "unwritten" \in SaveFaults /\ UNCHANGED file
        \/ "torn" \in SaveFaults /\ file' = NoFile

-----------------------------------------------------------------------------
(* The life of a process.                                                   *)
\* Slip: the day's PnL is restored whatever day it was saved on.
LoadedAnyDay ==
  IF ~file.whole THEN NewManager ELSE
  [NewManager EXCEPT
     !.daily = file.daily,
     !.weekly = IF Week(file.day) # Week(day) THEN 0 ELSE file.weekly,
     !.total = file.total, !.peak = file.peak, !.hist = file.hist]

\* _load_state and the turn of the week; streak, pause and current_equity
\* start anew.  A file that cannot be parsed leaves the manager as it was made.
Loaded ==
  IF ~file.whole THEN NewManager ELSE
  [NewManager EXCEPT
     !.daily = IF file.day = day THEN file.daily ELSE 0,
     !.weekly = IF Week(file.day) # Week(day) THEN 0 ELSE file.weekly,
     !.total = file.total, !.peak = file.peak, !.hist = file.hist]

\* init_features, restore_from_trades and the check for a leftover position.
\* The mode and the machine are those of the process.
Starts ==
  /\ up # "up" /\ launches < MaxLaunches
  /\ up' = "up" /\ launches' = launches + 1
  /\ rm' = Loaded /\ forgot' = forgot \cup unsaved
  /\ IF file.whole /\ Week(file.day) # Week(day) THEN Save(rm')
     ELSE UNCHANGED <<file, unsaved, faults>>
  /\ pnl' = rowPnl /\ fresh' = 0
  /\ state' = (IF lots > 0 THEN "HELD" ELSE state)
  /\ UNCHANGED <<day, lots, gross, rowPnl, modes, truth, lastOrder, trades>>

\* The `finally` of main(), after every way out of it; RECONNECT keeps the
\* process, its mode and the machine's state, but no manager: each main() makes one.
EndOfDay ==
  /\ Save([rm EXCEPT !.daily = 0, !.hist = Append(@, rm.equity)]) /\ UNCHANGED forgot
  /\ truth' = [truth EXCEPT !.wiped = @ + rm.daily]

NoMain == rm' = NewManager /\ pnl' = 0 /\ fresh' = 0 /\ gross' = 0 /\ lastOrder' = NoOrder
NewProcess == state' = "IDLE" /\ mode' = "AGGRESSIVE" /\ switchWait' = 0

MainEnds ==
  /\ up = "up" /\ state \notin {"EXITED", "COUNTED"} /\ EndOfDay /\ NoMain
  /\ \/ up' = "between" /\ UNCHANGED <<state, modes>>
     \/ up' = "down" /\ NewProcess
  /\ UNCHANGED <<day, lots, rowPnl, counts>>

Dies ==
  /\ up # "down" /\ up' = "down" /\ NewProcess /\ NoMain
  /\ UNCHANGED <<day, lots, rowPnl, disk, truth, counts>>

\* The operator closes a leftover position and clears its row.
OperatorClears ==
  /\ up = "down" /\ lots > 0 /\ lots' = 0
  /\ UNCHANGED <<up, day, state, gross, ledger, rm, disk, modes, truth, fresh, lastOrder, counts>>

\* A part whose time is over is neither unsaved nor forgotten.
Turned == {"day"} \cup (IF Week(day + 1) # Week(day) THEN {"week"} ELSE {})

NewDay ==
  /\ up = "down" /\ day < MaxDays /\ day' = day + 1 /\ rowPnl' = 0
  /\ unsaved' = unsaved \ Turned /\ forgot' = forgot \ Turned
  /\ truth' = [truth EXCEPT !.day = 0, !.wiped = 0,
                            !.week = IF Week(day + 1) # Week(day) THEN 0 ELSE @]
  /\ UNCHANGED <<up, machine, pnl, rm, file, faults, modes, fresh, lastOrder, counts>>

Down(n) == IF n > 0 THEN n - 1 ELSE n
Tick ==
  /\ rm' = [rm EXCEPT !.pause = Down(@)]
  /\ switchWait' = Down(switchWait) /\ fresh' = Down(fresh)
  /\ <<rm', switchWait', fresh'>> # <<rm, switchWait, fresh>>
  /\ UNCHANGED <<up, day, machine, ledger, disk, mode, truth, lastOrder, counts>>

-----------------------------------------------------------------------------
(* update_trading_mode, once in every pass that reaches a handler.          *)
Switch(m) == mode' = m /\ switchWait' = SwitchLen

\* Slip: the switch between AGGRESSIVE and SAFE comes before LOCKDOWN.
UpdateModeMarketFirst ==
  \/ switchWait > 0 /\ UNCHANGED modes
  \/ switchWait = 0 /\ mode = "LOCKDOWN" /\ UNCHANGED modes
  \/ switchWait = 0 /\ mode = "AGGRESSIVE" /\ Switch("SAFE")
  \/ switchWait = 0 /\ mode = "SAFE" /\ Switch("AGGRESSIVE")
  \/ /\ switchWait = 0 /\ mode # "LOCKDOWN"
     /\ IF pnl <= -LockLoss THEN Switch("LOCKDOWN") ELSE UNCHANGED modes

\* Between AGGRESSIVE and SAFE the market and the streak decide: left open.
UpdateMode ==
  \/ switchWait > 0 /\ UNCHANGED modes
  \/ switchWait = 0 /\ pnl <= -LockLoss /\ mode # "LOCKDOWN" /\ Switch("LOCKDOWN")
  \/ switchWait = 0 /\ mode = "LOCKDOWN" /\ UNCHANGED modes
  \/ /\ switchWait = 0 /\ pnl > -LockLoss
     /\ \/ mode = "AGGRESSIVE" /\ Switch("SAFE")
        \/ mode = "SAFE" /\ Switch("AGGRESSIVE")
        \/ mode # "LOCKDOWN" /\ UNCHANGED modes

\* emergency_check reaches the loss limit only on a tick in time.
LimitKills(late) == pnl <= -DailyLoss /\ ~late

InTime(late) == up = "up" /\ late \in (IF LateTicks THEN BOOLEAN ELSE {FALSE})

\* A standing kill holds the machine and runs no handler; in a trade it exits.
KillPass == \E late \in BOOLEAN :
  /\ InTime(late) /\ LimitKills(late) /\ state \in {"IDLE", "ENTRY_READY", "COOLDOWN"}
  /\ state' = "KILL_SWITCH"
  /\ UNCHANGED <<up, day, lots, gross, ledger, rm, disk, modes, truth, fresh, lastOrder, counts>>

-----------------------------------------------------------------------------
(* check_streak_limits                                                      *)
PauseOver == rm.pause = 0
Looked  == IF PauseOver THEN [rm EXCEPT !.pause = NoPause, !.losses = 0, !.wins = 0] ELSE rm
OnStreak(r) == r.losses >= StreakLimit \/ r.wins >= StreakLimit

\* The branch that arms the pause here finds it armed by update_streak.
StreakPaused == rm.pause > 0 \/ OnStreak(Looked)
AfterLook ==
  IF rm.pause > 0 THEN rm
  ELSE IF OnStreak(Looked) THEN [Looked EXCEPT !.pause = PauseLen] ELSE Looked

\* state_idle: the trade counts, the session, the pause and the signal.
IdlePass == \E late \in BOOLEAN :
  /\ InTime(late) /\ ~LimitKills(late) /\ state \in {"IDLE", "KILL_SWITCH"} /\ UpdateMode
  /\ \/ mode' = "LOCKDOWN" /\ state' = "IDLE" /\ UNCHANGED rm
     \/ mode' # "LOCKDOWN" /\ state' = "IDLE" /\ UNCHANGED rm
     \/ /\ mode' # "LOCKDOWN" /\ rm' = AfterLook
        /\ state' \in (IF StreakPaused THEN {"IDLE"} ELSE {"IDLE", "ENTRY_READY"})
  /\ UNCHANGED <<up, day, lots, gross, ledger, disk, truth, fresh, lastOrder, counts>>

-----------------------------------------------------------------------------
(* can_trade: drawdown, weekly loss, streak, then the other filters.        *)
Weighed(r) == [r EXCEPT !.equity = r.total, !.peak = MaxOf(r.peak, r.total)]

\* effective_peak_equity
EffectivePeak(r) ==
  IF Lookback = 0 THEN r.peak
  ELSE Max(Range(LastOf(r.hist, Lookback)) \cup {r.equity})

DrawdownHit == EffectivePeak(Weighed(rm)) - rm.total >= Drawdown
WeeklyHit == rm.weekly <= -WeeklyLoss

\* get_risk_budget
Remaining(r) == MaxOf(0, MinOf(PerTrade, DailyLoss - MaxOf(0, -r.daily)))

\* PositionSizeEngine.calculate: m stands for the product of the soft factors.
\* A clamped amount ("capped") is never rounded up to one lot.
Sized(base, m) ==
  LET ceiling == MinOf(base, HardCap)
      asked   == base * m
      capped  == asked > 100 * ceiling
      amount  == IF capped THEN ceiling ELSE asked \div 100
      whole   == amount \div LotRisk
  IN  IF whole > 0 THEN MinOf(whole, MaxLots)
      ELSE IF \/ Tolerance > 0 /\ ~capped /\ asked >= 100 * (LotRisk - Tolerance)
              \/ Floor /\ ceiling >= LotRisk
      THEN MinOf(1, MaxLots) ELSE 0

TurnedDown == state' = "COOLDOWN" /\ UNCHANGED <<lots, lastOrder, trades>>

\* Whether RiskManager counts less than today's rows do.
Short == rm.daily > rowPnl

Ordered(late, n) ==
  /\ trades < MaxTrades /\ trades' = trades + 1
  /\ state' = "IN_TRADE" /\ lots' = n
  /\ lastOrder' = [over |-> pnl <= -DailyLoss, late |-> late, short |-> Short,
                   paused |-> fresh > 0]

ReadyPass == \E late \in BOOLEAN :
  /\ InTime(late) /\ ~LimitKills(late) /\ state = "ENTRY_READY" /\ UpdateMode
  /\ \/ (DrawdownHit \/ WeeklyHit) /\ rm' = Weighed(rm) /\ TurnedDown
     \/ /\ ~DrawdownHit /\ ~WeeklyHit
        /\ rm' = Weighed(AfterLook)
        /\ \/ TurnedDown            \* streak, VIX, gap, equity curve, drift guard, failed order
           \/ /\ ~StreakPaused
              /\ \E m \in Multipliers :
                   LET n == Sized(Remaining(rm), m)
                   IN  IF n = 0 THEN TurnedDown ELSE Ordered(late, n)
  /\ UNCHANGED <<up, day, gross, ledger, disk, truth, fresh, launches>>

-----------------------------------------------------------------------------
(* The exit: EXIT row, update_pnl, record_trade, then the cooldown.         *)
\* The other passes: exits, also those of the kill switch, and cooldowns.
Exit == \E r \in {-l : l \in Losing} \cup Winning :
  /\ up = "up" /\ state = "IN_TRADE"
  /\ state' = "EXITED" /\ gross' = r * lots /\ rowPnl' = rowPnl + r * lots
  /\ UNCHANGED <<up, day, lots, pnl, rm, disk, modes, truth, fresh, lastOrder, counts>>

\* Slip: the pause starts when check_streak_limits first looks.
StreakUnarmed(r, net) ==
  [r EXCEPT !.wins   = IF net > 0 THEN @ + 1 ELSE IF net < 0 THEN 0 ELSE @,
            !.losses = IF net < 0 THEN @ + 1 ELSE IF net > 0 THEN 0 ELSE @]

\* update_streak: the pause starts with the trade that completes the streak.
Streak(r, net) ==
  LET s == [r EXCEPT !.wins   = IF net > 0 THEN @ + 1 ELSE IF net < 0 THEN 0 ELSE @,
                     !.losses = IF net < 0 THEN @ + 1 ELSE IF net > 0 THEN 0 ELSE @]
  IN  [s EXCEPT !.pause = IF OnStreak(s) /\ @ = NoPause THEN PauseLen ELSE @]

Recorded(r, net) ==
  [r EXCEPT !.daily = @ + net, !.weekly = @ + net, !.total = @ + net,
            !.equity = r.total + net, !.peak = MaxOf(@, r.total + net)]

UpdatePnl ==
  /\ up = "up" /\ state = "EXITED" /\ state' = "COUNTED"
  /\ pnl' = pnl + gross
  /\ UNCHANGED <<up, day, lots, gross, rowPnl, rm, disk, modes, truth, fresh, lastOrder, counts>>

\* record_trade; an exit of its own leaves COOLDOWN, one of the main loop KILL_SWITCH.
RecordTrade ==
  /\ up = "up" /\ state = "COUNTED" /\ state' \in {"COOLDOWN", "KILL_SWITCH"}
  /\ LET net == gross - Cost
     IN  /\ rm' = Streak(Recorded(rm, net), net)
         /\ truth' = [truth EXCEPT !.day = @ + net, !.week = @ + net, !.total = @ + net,
                                   !.top = MaxOf(@, truth.total + net)]
  /\ Save(rm') /\ UNCHANGED forgot
  /\ fresh' = (IF OnStreak(rm') THEN PauseLen ELSE fresh) /\ lastOrder' = NoOrder
  /\ gross' = 0 /\ lots' = 0
  /\ UNCHANGED <<up, day, ledger, modes, counts>>

\* A pass in a trade or a cooldown that changes no more than the mode.
HoldPass ==
  /\ up = "up" /\ state \in {"IN_TRADE", "COOLDOWN"} /\ UpdateMode /\ modes' # modes
  /\ UNCHANGED <<up, day, machine, ledger, rm, disk, truth, fresh, lastOrder, counts>>

CooldownEnds ==
  /\ up = "up" /\ state = "COOLDOWN" /\ \E late \in BOOLEAN : InTime(late) /\ ~LimitKills(late)
  /\ state' = "IDLE" /\ UpdateMode
  /\ UNCHANGED <<up, day, lots, gross, ledger, rm, disk, truth, fresh, lastOrder, counts>>

Process == Starts \/ MainEnds \/ Dies \/ OperatorClears \/ NewDay
Passes  == KillPass \/ IdlePass \/ ReadyPass \/ HoldPass \/ CooldownEnds
Account == Exit \/ RecordTrade \/ UpdatePnl
GatesNext    == Process \/ Tick \/ Passes \/ Account
GatesSpec    == GatesInit /\ [][GatesNext]_gateVars
\* Time passes and the loop of a running main() goes on.
GatesFairSpec == GatesSpec /\ WF_gateVars(Tick) /\ WF_gateVars(Passes \/ Account)

-----------------------------------------------------------------------------
Phases == {"IDLE", "ENTRY_READY", "IN_TRADE", "EXITED", "COUNTED", "COOLDOWN",
           "KILL_SWITCH", "HELD"}

GatesTypes ==
  /\ up \in {"down", "between", "up"} /\ day \in 1..MaxDays /\ state \in Phases
  /\ lots \in 0..MaxLots /\ gross \in Int /\ rowPnl \in Int /\ pnl \in Int
  /\ rm.daily \in Int /\ rm.weekly \in Int /\ rm.total \in Int
  /\ rm.peak \in Nat /\ rm.equity \in Int
  /\ rm.losses \in 0..StreakLimit /\ rm.wins \in 0..StreakLimit
  /\ rm.pause \in NoPause..PauseLen /\ Len(file.hist) <= HistKept
  /\ file.day \in 1..day /\ unsaved \subseteq Parts /\ forgot \subseteq Parts
  /\ mode \in {"AGGRESSIVE", "SAFE", "LOCKDOWN"} /\ switchWait \in 0..SwitchLen
  /\ fresh \in 0..PauseLen
  /\ trades \in 0..MaxTrades /\ launches \in 0..MaxLaunches /\ faults \in 0..MaxFaults

\* What the gates measure is what record_trade was told, over crashes,
\* reconnects, days and weeks: the day but for what end_of_day has wiped, the
\* week, the total and the peak; all but the parts a start has read from a file
\* whose last save had failed, a day so lost until the next, a week until its turn.
RiskExact == up = "up" =>
  /\ "day"   \notin forgot => rm.daily = truth.day - truth.wiped
  /\ "week"  \notin forgot => rm.weekly = truth.week
  /\ "total" \notin forgot => rm.total = truth.total /\ rm.peak = truth.top

\* With the day's loss at the limit an order goes out only if late ticks hid
\* the limit from the kill switch and RiskManager has forgotten part of the
\* day: neither alone is enough.
LossLimitHolds == lastOrder.over => lastOrder.late /\ lastOrder.short

\* The most a trade can lose.
WorstTrade == MaxOf(MinOf(PerTrade, HardCap), LotRisk) + Cost

\* One trade may end beyond a ceiling, none starts there: over restarts for the
\* week, and for the drawdown with the all-time peak.  Within one main() the
\* recorded loss of the day stays within the budget, but for the cost of the
\* last trade and the rounding up to one lot.  Nor does a file send a start
\* beyond them, and what was traded keeps to them as far as it is remembered.
WeekWithin(w)     == w > -(WeeklyLoss + WorstTrade)
DrawdownWithin(d) == Lookback = 0 => d < Drawdown + WorstTrade
Within(r) ==
  /\ WeekWithin(r.weekly) /\ DrawdownWithin(r.peak - r.total)
  /\ -r.daily <= DailyLoss + Cost + Tolerance

CeilingsHold ==
  /\ Within(rm) /\ Within(file)
  /\ up = "up" => /\ "week"  \notin forgot => WeekWithin(truth.week)
                  /\ "total" \notin forgot => DrawdownWithin(truth.top - truth.total)

\* No order within the pause a streak has earned, and the pause is not served
\* twice by the two places that arm it.
PauseHolds == ~lastOrder.paused /\ (rm.pause > 0 => rm.pause <= fresh)

\* No order passes the day's limit, the ceilings or a pause.
GatesHold == LossLimitHolds /\ CeilingsHold /\ PauseHolds

\* The gates read what was traded, and nothing passes them (risk_manager.py).
GatesExact == RiskExact /\ GatesHold

\* Near the limit the mode ends in LOCKDOWN, however often it has just
\* switched, unless the process ends, the trade recovers or the kill is first.
Locked == mode = "LOCKDOWN" \/ state \in {"KILL_SWITCH", "HELD"} \/ up # "up"
LossLocks == (up = "up" /\ pnl <= -LockLoss) ~> (Locked \/ pnl > -LockLoss)
=============================================================================
