-------------------------------- MODULE Reports --------------------------------
(***************************************************************************)
(* What the reports read and what they make of it: the decision rows and   *)
(* virtual trades of the validation reports (core/validation), which every *)
(* start of the bot prunes.                                                *)
(***************************************************************************)
EXTENDS Integers, SequencesExt

CONSTANTS
  Days,           \* dates modelled
  Week, Month,    \* window of the weekly and the monthly report, in dates
  Retention,      \* retention_days of prune_old_signal_rows
  MaxDecisions,   \* bound
  None

VARIABLES
  day, half,      \* the date and the half of it the clock is in
  signals,        \* dvf_signals: decision -> [day, half, taken] or None
  trades,         \* dvf_trades: decision -> [day, closed] or None
  logged,         \* every row signals ever held
  saved           \* dvf_reports: the decisions the daily report of a date counted, or None

reportVars == <<day, half, signals, trades, logged, saved>>
Decisions == 1..MaxDecisions
Types == {"daily", "weekly", "monthly"}
Init ==
  /\ day = 1 /\ half = 0
  /\ signals = [d \in Decisions |-> None] /\ trades = [d \in Decisions |-> None]
  /\ logged = [d \in Decisions |-> None]
  /\ saved = [d \in 1..Days |-> None]
-----------------------------------------------------------------------------
\* _date_window: the last 1, 7 or 30 dates.
Dates(t, d) == d - (CASE t = "daily" -> 1 [] t = "weekly" -> Week [] t = "monthly" -> Month) + 1 .. d

\* _signal_summary, reject_reason_stats and score_calibration: rows of the window.
Counted(t, d)  == {x \in Decisions : signals[x] # None /\ signals[x].day \in Dates(t, d)}
Accepted(t, d) == {x \in Counted(t, d) : signals[x].taken}
\* session_stats, regime_stats and the calibrations: closed trades joined to their decision.
Joined(t, d) == {x \in Counted(t, d) : trades[x] # None /\ trades[x].closed}
\* allocation_analytics, mfe_mae_summary: closed trades by their own entry date.
Alone(t, d)  == {x \in Decisions : trades[x] # None /\ trades[x].closed /\ trades[x].day \in Dates(t, d)}

\* One decision of the strategy: its row and, when it is taken, its virtual trade. Either
\* write may fail and be swallowed.
Decide(taken) ==
  /\ \E x \in Decisions :
       /\ signals[x] = None /\ trades[x] = None /\ logged[x] = None
       /\ \A y \in Decisions : y < x => logged[y] # None \/ trades[y] # None
       /\ LET row == [day |-> day, half |-> half, taken |-> taken] IN
          \/ /\ signals' = [signals EXCEPT ![x] = row] /\ logged' = [logged EXCEPT ![x] = row]
             /\ \/ taken /\ trades' = [trades EXCEPT ![x] = [day |-> day, closed |-> FALSE]]
                \/ UNCHANGED trades
          \/ /\ taken /\ UNCHANGED <<signals, logged>>
             /\ trades' = [trades EXCEPT ![x] = [day |-> day, closed |-> FALSE]]
  /\ UNCHANGED <<day, half, saved>>
CloseVirtual ==
  /\ \E x \in Decisions : /\ trades[x] # None /\ ~trades[x].closed
                          /\ trades' = [trades EXCEPT ![x].closed = TRUE]
  /\ UNCHANGED <<day, half, signals, logged, saved>>

\* Slip: the cut falls a date late.
StaleTooSoon(row) == 2 * row.day + row.half < 2 * (day - Retention + 1) + half
\* Older than retention_days, by the clock.
Stale(row) == 2 * row.day + row.half < 2 * (day - Retention) + half
\* prune_old_signal_rows, at every start of the bot.
Prune ==
  /\ signals' = [x \in Decisions |->
       IF signals[x] # None /\ Stale(signals[x]) THEN None ELSE signals[x]]
  /\ signals' # signals
  /\ UNCHANGED <<day, half, trades, logged, saved>>

\* generate_report of today and save_dvf_report: one row per date, the last one wins.
Generate ==
  /\ saved' = [saved EXCEPT ![day] = Cardinality(Counted("daily", day))]
  /\ UNCHANGED <<day, half, signals, trades, logged>>

TimePasses ==
  /\ \/ half = 0 /\ half' = 1 /\ UNCHANGED day
     \/ half = 1 /\ day < Days /\ half' = 0 /\ day' = day + 1
  /\ UNCHANGED <<signals, trades, logged, saved>>

Next ==
  \/ \E taken \in BOOLEAN : Decide(taken)
  \/ CloseVirtual \/ Prune \/ Generate \/ TimePasses
Spec == Init /\ [][Next]_reportVars
-----------------------------------------------------------------------------
\* What a pruning start leaves is enough for today's weekly report, and what the week's
\* daily reports counted it counts too (_date_window, prune_old_signal_rows).
SavedDaily(d) == IF d \in 1..Days /\ saved[d] # None THEN saved[d] ELSE 0
WeekCoversDays ==
  /\ Counted("weekly", day) = {x \in Decisions : logged[x] # None /\ logged[x].day \in Dates("weekly", day)}
  /\ Cardinality(Counted("weekly", day)) >=
       MapThenSumSet(SavedDaily, Dates("weekly", day))

\* The sections of a report speak of the same trades: a closed trade of the window is in
\* the joined sections, or its decision row was lost, never in them alone.
SectionsAgree == \A t \in Types :
  /\ Joined(t, day) \subseteq Alone(t, day) \cap Accepted(t, day)
  /\ \A x \in Alone(t, day) \ Joined(t, day) : signals[x] = None

ReportsAddUp == WeekCoversDays /\ SectionsAgree
=============================================================================
