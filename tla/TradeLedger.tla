----------------------------- MODULE TradeLedger -----------------------------
(***************************************************************************)
(* The day's account of core/engines/state_machine.py: update_pnl books a  *)
(* closed trade, is_direction_blocked reads and resets the runs of losses, *)
(* restore_from_trades rebuilds the account from the EXIT rows of          *)
(* trades.csv whenever main() starts, and the hourly counter is reset by   *)
(* the loop.  Signals, fills and prices are arbitrary.                     *)
(***************************************************************************)
EXTENDS Integers, SequencesExt

CONSTANTS
  MaxTradesPerDay,   \* MAX_TRADES_PER_DAY
  MaxTradesPerHour,  \* MAX_TRADES_PER_HOUR
  Amounts,           \* what a trade may earn
  MaxRows,           \* bound: EXIT rows in one behaviour
  MaxStarts        \* bound: times main() is called

ASSUME LedgerAssumption ==
  /\ MaxTradesPerDay \in Nat \ {0} /\ MaxTradesPerHour \in Nat \ {0}
  /\ Amounts \subseteq Int
  /\ MaxRows \in Nat /\ MaxStarts \in Nat

VARIABLES
  pc,        \* where the main thread is
  phase,     \* TradingState.state, COOLDOWN and KILL_SWITCH counted as IDLE
  dir,       \* direction of the signal or the trade in hand
  account,   \* daily_pnl_inr, total_trades_today, winning_trades,
             \* losing_trades, consecutive_losses
  run,       \* consecutive_ce_losses, consecutive_pe_losses
  until,     \* ce_blocked_until, pe_blocked_until, relative to now
  hour,      \* trades_this_hour
  newHour,   \* the clock has left the hour of last_hour_reset
  rows,      \* EXIT rows of today's trades.csv; dir is not written to them
  starts,    \* times main() was called, by the operator or to reconnect
  sentNow,   \* history: the order under way was sent in the current hour
  inHour,    \* history: orders of this process, sent this hour and filled
  lossRun,   \* history: losses since the last win, by direction, this main()
  served     \* history: a block has run out since the last loss, by direction

hourVars == <<hour, newHour, sentNow, inHour>>
dirVars  == <<run, until, lossRun, served>>
vars     == <<pc, phase, dir, account, dirVars, hourVars, rows, starts>>

Dirs       == {"CE", "PE"}
BlockAfter == 2   \* losses in a row that block a direction
Empty      == [pnl |-> 0, trades |-> 0, wins |-> 0, losses |-> 0, streak |-> 0]
Zero       == [d \in Dirs |-> 0]

\* A closed trade: its PnL, and the amount its exit_reason tells.  The reason
\* is only read when the PnL is zero.
Rows == {r \in [dir : Dirs, pnl : Amounts, told : Amounts \cup {0}] : r.pnl # 0 => r.told = 0}

TypeOK ==
  /\ pc \in {"off", "boot", "loop", "order", "booking"}
  /\ phase \in {"IDLE", "ENTRY_READY", "IN_TRADE"}
  /\ dir \in Dirs
  /\ account \in [pnl : Int, trades : Nat, wins : Nat, losses : Nat, streak : Nat]
  /\ run \in [Dirs -> Nat]
  /\ until \in [Dirs -> {"none", "running", "over"}]
  /\ hour \in Nat /\ newHour \in BOOLEAN
  /\ rows \in Seq(Rows)
  /\ starts \in 0..MaxStarts
  /\ sentNow \in BOOLEAN /\ inHour \in Nat
  /\ lossRun \in [Dirs -> Nat] /\ served \in [Dirs -> BOOLEAN]

Init ==
  /\ pc = "off" /\ phase = "IDLE" /\ dir = "CE"
  /\ account = Empty /\ run = Zero /\ until = [d \in Dirs |-> "none"]
  /\ hour = 0 /\ newHour = FALSE
  /\ rows = <<>> /\ starts = 0
  /\ sentNow = FALSE /\ inHour = 0
  /\ lossRun = Zero /\ served = [d \in Dirs |-> FALSE]

-----------------------------------------------------------------------------
(* The process.                                                             *)

Launch ==
  /\ pc = "off" /\ starts < MaxStarts
  /\ starts' = starts + 1
  /\ pc' = "boot"
  /\ UNCHANGED <<phase, dir, account, dirVars, hourVars, rows>>

\* The process ends, wherever it is, and its TradingState with it.
Crash ==
  /\ pc # "off"
  /\ pc' = "off" /\ phase' = "IDLE" /\ dir' = "CE"
  /\ account' = Empty /\ run' = Zero /\ until' = [d \in Dirs |-> "none"]
  /\ hour' = 0 /\ newHour' = FALSE
  /\ sentNow' = FALSE /\ inHour' = 0
  /\ lossRun' = Zero /\ served' = [d \in Dirs |-> FALSE]
  /\ UNCHANGED <<rows, starts>>

\* main() returns "RECONNECT" and is called again: TradingState stays.  After a
\* log error in trade_exit the trade in hand has its row already.
Reconnect ==
  /\ pc \in {"loop", "booking"} /\ starts < MaxStarts
  /\ starts' = starts + 1
  /\ pc' = "boot"
  /\ UNCHANGED <<phase, dir, account, dirVars, hourVars, rows>>

\* The amount restore_from_trades takes from a row.
Read(row) == IF row.pnl # 0 THEN row.pnl ELSE row.told

\* trade_exit leaves the symbol empty, and `'CE' in symbol` decides.
DirectionRead(row) == "PE"

Won(amount) == amount > 0

\* Slip: a win does not end the streak.
StreakKept(acc, row) == IF Won(Read(row)) THEN acc.streak ELSE acc.streak + 1

RestoredStreak(acc, row) == IF Won(Read(row)) THEN 0 ELSE acc.streak + 1

RestoreRow(acc, row) ==
  [pnl    |-> acc.pnl + Read(row),
   trades |-> acc.trades + 1,
   wins   |-> IF Won(Read(row)) THEN acc.wins + 1 ELSE acc.wins,
   losses |-> IF Won(Read(row)) THEN acc.losses ELSE acc.losses + 1,
   streak |-> RestoredStreak(acc, row)]

\* The losses in a direction since the last win in it, as the rows tell them.
LastWinRead(d) ==
  Max({0} \cup {i \in DOMAIN rows : DirectionRead(rows[i]) = d /\ Won(Read(rows[i]))})

RestoredRun(d) ==
  Cardinality({i \in DOMAIN rows : DirectionRead(rows[i]) = d /\ i > LastWinRead(d)})

\* Slip: the hour's trades are forgotten with every reconnect.
HourForgotten == 0

\* trades_this_hour after main() has set last_hour_reset to the current hour.
HourAtBoot == hour

\* main() up to its loop: restore_from_trades, then last_hour_reset.  Without
\* an EXIT row nothing is restored; blocked_until is never.
Boot ==
  /\ pc = "boot"
  /\ pc' = "loop"
  /\ account' = IF rows = <<>> THEN account ELSE FoldLeft(RestoreRow, Empty, rows)
  /\ run' = IF rows = <<>> THEN run ELSE [d \in Dirs |-> RestoredRun(d)]
  /\ hour' = HourAtBoot /\ newHour' = FALSE
  /\ lossRun' = Zero
  /\ UNCHANGED <<phase, dir, until, served, sentNow, inHour, rows, starts>>

-----------------------------------------------------------------------------
(* A pass of the loop begins with the hourly reset.                         *)

FreshHour == IF newHour THEN 0 ELSE hour

Pass == pc = "loop" /\ hour' = FreshHour /\ newHour' = FALSE

\* check_trade_limits, without the streak pause of the risk manager.
LimitsOK == FreshHour < MaxTradesPerHour /\ account.trades < MaxTradesPerDay

\* Slip: the run stays where it is.
RunKept(d) == run[d]

\* What a run is reset to when its block has run out.
RunAfterBlock(d) == 1

Expired(d) == run[d] >= BlockAfter /\ until[d] # "running"

Blocked(d) == run[d] >= BlockAfter /\ until[d] = "running"

\* The strategy asks is_direction_blocked for both directions.
CheckBlocks ==
  /\ run' = [d \in Dirs |-> IF Expired(d) THEN RunAfterBlock(d) ELSE run[d]]
  /\ until' = [d \in Dirs |-> IF Expired(d) THEN "none" ELSE until[d]]
  /\ UNCHANGED <<lossRun, served>>

\* state_idle evaluates the entry signal and finds none.
NoSignal ==
  /\ Pass /\ phase = "IDLE" /\ LimitsOK
  /\ CheckBlocks
  /\ UNCHANGED <<pc, phase, dir, account, sentNow, inHour, rows, starts>>

Signal(d) ==
  /\ Pass /\ phase = "IDLE" /\ LimitsOK
  /\ CheckBlocks /\ ~Blocked(d)
  /\ phase' = "ENTRY_READY" /\ dir' = d
  /\ UNCHANGED <<pc, account, sentNow, inHour, rows, starts>>

\* A pass that evaluates no signal: a limit or a filter holds, a halt, or the
\* trade is kept.
NoEvaluation ==
  /\ Pass
  /\ UNCHANGED <<pc, phase, dir, account, dirVars, sentNow, inHour, rows, starts>>

\* state_entry_ready is refused, or a kill ends ENTRY_READY.
EntryBlocked ==
  /\ Pass /\ phase = "ENTRY_READY"
  /\ phase' = "IDLE"
  /\ UNCHANGED <<pc, dir, account, dirVars, sentNow, inHour, rows, starts>>

\* state_entry_ready calls broker.place_order.
SendOrder ==
  /\ Pass /\ phase = "ENTRY_READY"
  /\ pc' = "order" /\ sentNow' = TRUE
  /\ UNCHANGED <<phase, dir, account, dirVars, inHour, rows, starts>>

OrderFilled ==
  /\ pc = "order"
  /\ pc' = "loop" /\ phase' = "IN_TRADE"
  /\ hour' = hour + 1
  /\ inHour' = IF sentNow THEN inHour + 1 ELSE inHour
  /\ UNCHANGED <<dir, account, dirVars, newHour, sentNow, rows, starts>>

OrderFailed ==
  /\ pc = "order"
  /\ pc' = "loop" /\ phase' = "IDLE"
  /\ UNCHANGED <<dir, account, dirVars, hourVars, rows, starts>>

\* exit_position is confirmed and trade_exit has written the row.
ExitLogged(row) ==
  /\ Pass /\ phase = "IN_TRADE" /\ Len(rows) < MaxRows
  /\ row.dir = dir
  /\ rows' = Append(rows, row)
  /\ pc' = "booking"
  /\ UNCHANGED <<phase, dir, account, dirVars, sentNow, inHour, starts>>

\* update_pnl: `is_loss` is pnl < 0, so a trade of zero counts as a win.
Booked(acc, amount) ==
  [pnl    |-> acc.pnl + amount,
   trades |-> acc.trades + 1,
   wins   |-> IF amount < 0 THEN acc.wins ELSE acc.wins + 1,
   losses |-> IF amount < 0 THEN acc.losses + 1 ELSE acc.losses,
   streak |-> IF amount < 0 THEN acc.streak + 1 ELSE 0]

TradeBooked ==
  LET amount == rows[Len(rows)].pnl
      lost   == amount < 0
  IN /\ pc = "booking"
     /\ pc' = "loop" /\ phase' = "IDLE"
     /\ account' = Booked(account, amount)
     /\ run' = [run EXCEPT ![dir] = IF lost THEN @ + 1 ELSE 0]
     /\ until' = [until EXCEPT ![dir] =
                    IF ~lost THEN "none"
                    ELSE IF run[dir] + 1 >= BlockAfter THEN "running" ELSE @]
     /\ lossRun' = [lossRun EXCEPT ![dir] = IF lost THEN @ + 1 ELSE 0]
     /\ served' = [served EXCEPT ![dir] = FALSE]
     /\ UNCHANGED <<dir, hourVars, rows, starts>>

-----------------------------------------------------------------------------
(* Time.                                                                    *)

HourPasses ==
  /\ pc # "off"
  /\ newHour' = TRUE /\ sentNow' = FALSE /\ inHour' = 0
  /\ UNCHANGED <<pc, phase, dir, account, dirVars, hour, rows, starts>>

BlockExpires(d) ==
  /\ until[d] = "running"
  /\ until' = [until EXCEPT ![d] = "over"]
  /\ served' = [served EXCEPT ![d] = TRUE]
  /\ UNCHANGED <<pc, phase, dir, account, run, lossRun, hourVars, rows, starts>>

Evaluates == NoSignal \/ (\E d \in Dirs : Signal(d))

Next ==
  \/ Launch \/ Crash \/ Reconnect \/ Boot
  \/ Evaluates \/ NoEvaluation \/ EntryBlocked \/ SendOrder
  \/ OrderFilled \/ OrderFailed
  \/ (\E row \in Rows : ExitLogged(row)) \/ TradeBooked
  \/ HourPasses \/ (\E d \in Dirs : BlockExpires(d))

Spec == Init /\ [][Next]_vars

\* The clock does not stop, main() reaches its loop, and the loop goes on
\* evaluating signals whenever it is free to.
FairSpec ==
  /\ Spec
  /\ WF_vars(Boot) /\ WF_vars(HourPasses) /\ SF_vars(Evaluates)
  /\ \A d \in Dirs : WF_vars(BlockExpires(d))

-----------------------------------------------------------------------------
(* What the account should be, from the rows alone.                         *)

LastWin(S) == Max({0} \cup {i \in S : Won(rows[i].pnl)})

AccountOfDay ==
  [pnl    |-> MapThenSumSet(LAMBDA i : rows[i].pnl, DOMAIN rows),
   trades |-> Len(rows),
   wins   |-> Cardinality({i \in DOMAIN rows : rows[i].pnl > 0}),
   losses |-> Cardinality({i \in DOMAIN rows : rows[i].pnl < 0}),
   streak |-> Len(rows) - LastWin(DOMAIN rows)]

\* The account that the limits read is the account of the day's rows, however
\* often main() restored it and wherever the process died, as long as no trade
\* ended at exactly zero: that one counts as a win live and is read as a loss,
\* or as what its exit reason tells.
AccountExact ==
  pc = "loop" /\ (\A i \in DOMAIN rows : rows[i].pnl # 0) => account = AccountOfDay

\* Not more than MAX_TRADES_PER_HOUR orders that a process sends within one
\* hour of the clock are filled, although the counter is compared in IDLE,
\* raised after the fill, and reset by a later pass than the one the hour turned in.
HourlyCap == inHour <= MaxTradesPerHour

\* After two losses of a direction in one main(), no order in it goes out until
\* a block has run out since the last of them: neither the other direction's
\* trades nor the reset of an earlier block lift it.
BlocksHold ==
  pc = "order" /\ lossRun[dir] >= BlockAfter => served[dir]

\* The limits a run of trades meets within the day.
DayLimitsHold == HourlyCap /\ BlocksHold

\* The restored account is that of the EXIT rows, and the limits read it in time
\* (restore_from_trades and state_idle of state_machine.py).
DayExact == AccountExact /\ DayLimitsHold

\* A run of losses does not block its direction for the rest of the day: as long
\* as the loop comes back to IDLE, the run is taken down, unless the daily limit holds.
BlocksEnd ==
  []<>(pc = "loop" /\ phase = "IDLE") =>
    \A d \in Dirs : (run[d] >= BlockAfter) ~> (run[d] < BlockAfter \/ account.trades >= MaxTradesPerDay)
=============================================================================
