-------------------------------- MODULE Records --------------------------------
(***************************************************************************)
(* For model checking: a trading session whose process may die anywhere,   *)
(* the broker's REST client and the trading calendar under it, and what is *)
(* kept of a session and made of it afterwards: the collected ticks, the   *)
(* imported candles, replay, backtest, journal, reports, visual record.    *)
(* Each part reads what another has finished writing and writes nothing    *)
(* another part writes, and takes its input from all the finished files    *)
(* there could be; so a behaviour follows one part, the others stand still.*)
(* TradesAccounted, OpenTradesGuarded and SlotImplemented are the session's*)
(* own.                                                                    *)
(***************************************************************************)
EXTENDS TradingSession, Sequences, TLC

CONSTANTS
  Options, Prices, Quotes, Late, DayLen, CollectedDays, DaysPerMonth, MaxBuffer,
  Interval, RefAge, MaxGap, MinRows, MaxSpacing, MinQuotes, None,
  MaxStarts, MaxEvents,                                                 \* of History
  ImportDays, ImportPerDay, Window, RowCap, Backoffs, MaxJobs,          \* of CandleImport
  Bars, Warmup, Sessions, MaxTrades, OptionPrices, HalfSpread,
  LeastPrice,                                                           \* of Replay
  Strikes, Premiums, Lowest, Highest, Middle, Tokens, Threshold,
  BreakerCooldown, Ttl, Tries, RetryWaits, MaxTime, MaxErrors,          \* of RestClient
  ReportDays, Week, MonthDays, Retention, DecisionsADay,                \* of Reports
  LoggedOrders, Pnls, MaxLines,                                         \* of Journal
  LastDay, ExpiryWeekday, MayShut, Waits, HandsOn, Wanted, Tick,        \* of Calendar
  Candles, PerDay, Closes, SignalLine, Reference, Floor, Ceiling, Quantities,
  Capital, Side, Slippage, MaxPerDay,                                   \* of Backtest
  LastSec, MaxDecisions, LinkSec, GapSec, StreamSec, BucketSec,
  Rejections, Backfills, Sides, NoSide                                  \* of AsOf

ASSUME RestAssumption ==
  /\ Len(Strikes) \in Nat \ {0} /\ \A k \in 1..Len(Strikes) : Strikes[k] # None
  /\ Premiums \subseteq Int /\ Lowest \in Int /\ Highest \in Int /\ Middle \in Int
  /\ None \notin [token : Tokens, at : Int]
  /\ Threshold \in Nat \ {0} /\ BreakerCooldown \in Nat /\ Ttl \in Nat
  /\ Tries \in Nat \ {0} /\ RetryWaits \in [1..Tries -> Nat] /\ MaxTime \in Nat

ASSUME HistoryAssumption ==
  /\ "spot" \notin Options /\ None \notin Prices
  /\ CollectedDays \in Nat /\ Late \in Nat /\ RefAge \in Nat /\ MaxGap \in Nat

ASSUME ImportAssumption ==
  /\ ImportDays \in Nat /\ ImportPerDay \in Nat /\ Window \in Nat \ {0} /\ RowCap \in Nat

ASSUME ReplayAssumption ==
  /\ Bars \in Nat /\ Warmup \in Nat /\ OptionPrices \subseteq Int
  /\ HalfSpread \in Nat /\ LeastPrice \in Int /\ None \notin Int

\* A moved expiry moves by three days at most, a week has an open day, and the
\* contracts reach beyond the days that are looked at.
ASSUME CalendarAssumption ==
  /\ LastDay \in Nat /\ Waits \in Nat /\ ExpiryWeekday \in 0..4
  /\ MayShut \subseteq 0..LastDay
  /\ LET MayOpen(d) == d % 7 < 5 /\ d \notin MayShut
     IN  /\ \A d \in 0..LastDay : d % 7 = ExpiryWeekday => \E e \in d - 3..d : e >= 0 /\ MayOpen(e)
         /\ \A d \in 0..LastDay : \E e \in d + 1..d + 7 : MayOpen(e)
  /\ \E d \in Waits..LastDay : d % 7 = ExpiryWeekday
  /\ Wanted \subseteq Nat /\ Tick \in Nat \ {0}

\* Rows are kept for the week a report looks back; a file has days, prices are numbers.
ASSUME FiguresAssumption ==
  /\ Candles \in Nat /\ PerDay \in Nat \ {0} /\ Closes \subseteq Int /\ SignalLine \in Int
  /\ Reference \in Int /\ Floor \in Int /\ Ceiling \in Int /\ Quantities \subseteq Int
  /\ Capital \in Int /\ Side \in Int /\ Slippage \in Int /\ MaxPerDay \in Nat
  /\ ReportDays \in Nat /\ DecisionsADay \in Nat /\ MonthDays \in Nat
  /\ Week \in Nat /\ Retention \in Nat /\ Week <= Retention
  /\ Pnls \subseteq Int

\* Two windows of seconds, and an intent with no side stated.
ASSUME VisualAssumption == LinkSec \in Nat /\ StreamSec \in Nat /\ NoSide \notin Sides

VARIABLES
  part,                                                                 \* the part that moves
  clock, lastSpot, buffer, flushed, socket, runner, taken, store,
  received, lost, shown, starts,                                        \* of History
  exchange, job, phase, runs, candles, gaps, ended, tornJob, jobs,      \* of CandleImport
  session, minute, step, seen, bar, lastMid, open, replayed,            \* of Replay
  now, order, loggedIn, errors, coolUntil, tokenCache, tokenMap, call,
  answer, scan, streak, openedAt, answered,                             \* of RestClient
  day, half, signals, tradeRows, logged, saved,                         \* of Reports
  journal,                                                              \* of Journal
  today, shut, declared, master, known, statted, writing, fresh, told, \* of Calendar
  i, firstSpot, price, current, tested, curve, cash, peak, worst, date,
  daily, entered,                                                       \* of Backtest
  second, decisions, tradeLog, pruned, read, record                     \* of AsOf

archiveVars  == <<clock, lastSpot, buffer, flushed, socket, runner, taken, store, received,
                  lost, shown, starts>>
importVars   == <<exchange, job, phase, runs, candles, gaps, ended, tornJob, jobs>>
replayVars   == <<session, minute, step, seen, bar, lastMid, open, replayed>>
restVars     == <<now, order, loggedIn, errors, coolUntil, tokenCache, tokenMap, call,
                  answer, scan, streak, openedAt, answered>>
reportVars   == <<day, half, signals, tradeRows, logged, saved>>
journalVars  == <<journal>>
calendarVars == <<today, shut, declared, master, known, statted, writing, fresh, told>>
backtestVars == <<i, firstSpot, price, current, tested, curve, cash, peak, worst, date,
                  daily, entered>>
visualVars   == <<second, decisions, tradeLog, pruned, read, record>>
recordVars   == <<part, vars, archiveVars, importVars, replayVars, restVars, reportVars,
                  journalVars, calendarVars, backtestVars, visualVars>>

Archive == INSTANCE History WITH Days <- CollectedDays
Import == INSTANCE CandleImport WITH
  Days <- ImportDays, PerDay <- ImportPerDay, torn <- tornJob
Replays == INSTANCE Replay WITH
  Prices <- OptionPrices, i <- minute, buffer <- seen, trades <- replayed
Rest == INSTANCE RestClient WITH
  Cooldown <- BreakerCooldown, held <- order, logged <- loggedIn,
  cache <- tokenCache, told <- answered
Report == INSTANCE Reports WITH
  Days <- ReportDays, Month <- MonthDays, MaxDecisions <- DecisionsADay, trades <- tradeRows
Log == INSTANCE Journal WITH Orders <- LoggedOrders
Year == INSTANCE Calendar WITH memory <- known
Test == INSTANCE Backtest WITH
  Line <- SignalLine, trades <- tested
Visual == INSTANCE AsOf WITH
  now <- second, trades <- tradeLog

MCStrikes == <<"atm", "otm">>
MCPnls    == {-1, 0, 1}
MCWaits   == <<2, 4>>
\* No part tells one token or one side from the other.
Interchangeable == Permutations(Tokens) \cup Permutations(Sides)

RecInit ==
  /\ part \in {"session", "archive", "import", "replay", "rest", "report", "journal",
               "calendar", "backtest", "visual"}
  /\ Init
  /\ Archive!Init
  /\ Import!Init
  /\ Replays!Init
  /\ Rest!Init
  /\ Report!Init
  /\ Log!Init
  /\ Year!Init
  /\ Test!Init
  /\ Visual!Init
  /\ part # "rest" => tokenMap = [s \in Rest!Contracts |-> None]    \* read by that part only

SessionMoves ==
  /\ part = "session" /\ Next
  /\ UNCHANGED <<part, archiveVars, importVars, replayVars, restVars, reportVars,
                 journalVars, calendarVars, backtestVars, visualVars>>
ArchiveMoves ==
  /\ part = "archive" /\ Archive!Next
  /\ UNCHANGED <<part, vars, importVars, replayVars, restVars, reportVars,
                 journalVars, calendarVars, backtestVars, visualVars>>
ImportMoves ==
  /\ part = "import" /\ Import!Next
  /\ UNCHANGED <<part, vars, archiveVars, replayVars, restVars, reportVars,
                 journalVars, calendarVars, backtestVars, visualVars>>
ReplayMoves ==
  /\ part = "replay" /\ Replays!Next
  /\ UNCHANGED <<part, vars, archiveVars, importVars, restVars, reportVars,
                 journalVars, calendarVars, backtestVars, visualVars>>
RestMoves ==
  /\ part = "rest" /\ Rest!Next
  /\ UNCHANGED <<part, vars, archiveVars, importVars, replayVars, reportVars,
                 journalVars, calendarVars, backtestVars, visualVars>>
ReportMoves ==
  /\ part = "report" /\ Report!Next
  /\ UNCHANGED <<part, vars, archiveVars, importVars, replayVars, restVars,
                 journalVars, calendarVars, backtestVars, visualVars>>
JournalMoves ==
  /\ part = "journal" /\ Log!Next
  /\ UNCHANGED <<part, vars, archiveVars, importVars, replayVars, restVars,
                 reportVars, calendarVars, backtestVars, visualVars>>
CalendarMoves ==
  /\ part = "calendar" /\ Year!Next
  /\ UNCHANGED <<part, vars, archiveVars, importVars, replayVars, restVars,
                 reportVars, journalVars, backtestVars, visualVars>>
BacktestMoves ==
  /\ part = "backtest" /\ Test!Next
  /\ UNCHANGED <<part, vars, archiveVars, importVars, replayVars, restVars,
                 reportVars, journalVars, calendarVars, visualVars>>
VisualMoves ==
  /\ part = "visual" /\ Visual!Next
  /\ UNCHANGED <<part, vars, archiveVars, importVars, replayVars, restVars,
                 reportVars, journalVars, calendarVars, backtestVars>>

RecNext ==
  \/ SessionMoves \/ ArchiveMoves \/ ImportMoves \/ ReplayMoves \/ RestMoves \/ ReportMoves
  \/ JournalMoves \/ CalendarMoves \/ BacktestMoves \/ VisualMoves
RecSpec == RecInit /\ [][RecNext]_recordVars
-----------------------------------------------------------------------------
\* A part that stands still is in the first state of its own behaviour.
In(p, P) == part = p => P

\* A tick the collector took is on file, on its way there or among the lost, and
\* days the gate lets pass hide no loss longer than a gap; an import's receipt claims no candle
\* the table lacks, and every hole is reported or the exchange's own; a replay of
\* what was imported decides on bars it has been shown, holds one trade at a time
\* and closes it inside its excursion (collector and gate of research/, importers
\* and harness of research/backtest/).
MarketDataHonest ==
  /\ In("archive", Archive!ArchiveKept /\ Archive!ReadyHidesNoHole)
  /\ In("import", Import!ImportHonest)
  /\ In("replay", Replays!ReplayHonest)

\* What is reckoned afterwards is reckoned from what was there: the backtest's
\* trades, equity, peak and drawdown agree, reports and journal agree with the
\* rows they read, through pruning and interleaved lines (core/backtest.py,
\* reports, utils/analytics.py).
FiguresHonest ==
  /\ In("backtest", Test!BacktestAddsUp)
  /\ In("report", Report!ReportsAddUp) /\ In("journal", Log!JournalRead)

\* The breaker, the token cache and the retries of the REST client answer with
\* what the broker said (market_data_rest.py and client.py of the broker).
RestHonest == In("rest", Rest!RestHonest)

\* The day the session waits for trades, and the contracts it asks for exist,
\* whichever process tore a file (trading_calendar.py, broker.py).
CalendarHonest == In("calendar", Year!CalendarHonest)

\* The visual record shows what the trader knew at each second, and marks the
\* seconds it knows nothing about (research/visual/).
AsOfHonest == In("visual", Visual!AsOfHonest)

=============================================================================
