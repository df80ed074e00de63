------------------------------ MODULE CandleImport ------------------------------
(***************************************************************************)
(* The import of candles for the backtest (research/backtest): a span is   *)
(* asked from a source a window of days at a time, the receipts of the     *)
(* requests are written first, then the candles, then the minutes that are *)
(* missing; a cross-check asks two more sources and looks for no missing   *)
(* minutes.  The process may die between any two of these.  A series is an *)
(* instrument as one source has it; a minute is a number, and PerDay of    *)
(* them make a session.                                                    *)
(***************************************************************************)
EXTENDS Integers, Sequences, FiniteSets

CONSTANTS
  Days, PerDay,
  Window,     \* MAX_WINDOW_DAYS of a request
  RowCap,     \* ROW_CAP: rows SmartAPI returns at most, the newest ones
  Backoffs,   \* tries after a refusal of the rate limit
  MaxJobs     \* bound

VARIABLES
  exchange,   \* minutes with a trade, as every source serves them
  job,        \* the command that runs: series, first and last day, next day to ask,
              \* tries, number of its first receipt, bars, receipts not yet written
  phase,      \* "idle", "fetch", "record", "write", "gaps"
  runs,       \* table fetch_runs
  candles,    \* table candles
  gaps,       \* table gaps
  ended,      \* history: receipts whose candles were written
  torn,       \* history: series whose import died before it looked for gaps
  jobs

importVars == <<exchange, job, phase, runs, candles, gaps, ended, torn, jobs>>

Angel    == {"index", "option"}          \* cmd_index, cmd_options
Imported == Angel \cup {"expired"}       \* and the candles command of the expired route
Checked  == {"upstox", "yahoo"}          \* the index, in cmd_crosscheck
Series   == Imported \cup Checked
Minutes == 0..Days * PerDay - 1
Day(t)  == t \div PerDay
On(S, a, b) == {t \in S : Day(t) \in a..b}
Stored(v)   == {c.t : c \in {x \in candles : x.v = v}}
DaysHeld(v) == {Day(t) : t \in Stored(v)}

NoJob == [v |-> "index", from |-> 0, to |-> 0, next |-> 0, tries |-> 0, first |-> 1,
          bars |-> {}, receipts |-> <<>>]

\* A series is asked from one day to another.
Ask(v, a, b) ==
  [v |-> v, from |-> a, to |-> b, next |-> a, tries |-> 0, first |-> Len(runs) + 1,
   bars |-> {}, receipts |-> <<>>]

Init ==
  /\ exchange = {} /\ job = NoJob /\ phase = "idle"
  /\ runs = <<>> /\ candles = {} /\ gaps = {} /\ ended = {} /\ torn = {} /\ jobs = 0
-----------------------------------------------------------------------------
\* The importing commands; the strikes of the options are chosen around the index.
Starts ==
  /\ phase = "idle" /\ jobs < MaxJobs /\ jobs' = jobs + 1 /\ phase' = "fetch"
  /\ \E v \in Imported, a \in 0..Days - 1 : \E b \in a..Days - 1 :
       /\ v = "option" => Stored("index") # {}
       /\ job' = Ask(v, a, b)
  /\ UNCHANGED <<exchange, runs, candles, gaps, ended, torn>>

\* cmd_crosscheck: the last sessions of the index, first from "upstox".
CrossChecks ==
  /\ phase = "idle" /\ jobs < MaxJobs /\ jobs' = jobs + 1 /\ phase' = "fetch"
  /\ \E a, b \in DaysHeld("index") :
       (\A d \in DaysHeld("index") : d <= b) /\ job' = Ask("upstox", a, b)
  /\ UNCHANGED <<exchange, runs, candles, gaps, ended, torn>>

\* It goes on to "yahoo", or ends.
Turns ==
  IF job.v = "upstox" THEN job' = Ask("yahoo", job.from, job.to) /\ phase' = "fetch"
  ELSE job' = NoJob /\ phase' = "idle"

\* _day_chunks: windows that follow each other without a day in common; the
\* cross-check asks for all of its days at once.
Until(j) ==
  IF j.v \in Imported /\ j.next + Window - 1 < j.to THEN j.next + Window - 1 ELSE j.to

\* What the source answers: SmartAPI drops the oldest rows over its cap, silently.
Answer(v, a, b) ==
  LET rows == On(exchange, a, b) IN
  IF v \in Angel THEN {t \in rows : Cardinality({u \in rows : u >= t}) <= RowCap} ELSE rows

\* Slip: only more rows than the cap are an answer cut short.
ClampedLate(v, rows) == v \in Angel /\ Cardinality(rows) > RowCap
\* An answer as long as the cap may have been cut short.
Clamped(v, rows) == v \in Angel /\ Cardinality(rows) >= RowCap

\* A receipt, with the minutes there were when it was asked for.
Receipt(rows, failed) ==
  [v |-> job.v, from |-> job.next, to |-> Until(job), clamped |-> Clamped(job.v, rows),
   failed |-> failed, held |-> On(exchange, job.next, Until(job))]

\* The end of one window, with rows or with an error: a failed one is skipped.
Window1(rows, failed) ==
  /\ job' = [job EXCEPT !.next = Until(job) + 1, !.tries = 0, !.bars = @ \cup rows,
                        !.receipts = Append(@, Receipt(rows, failed))]
  /\ phase' = IF Until(job) = job.to THEN "record" ELSE "fetch"

Fetch ==
  /\ phase = "fetch"
  /\ \/ Window1(Answer(job.v, job.next, Until(job)), FALSE)
     \/ job.v \in Imported /\ Window1({}, TRUE)
     \/ job.v \in Checked /\ Turns                    \* SourceError: no receipt
     \/ /\ job.v \in Angel /\ job.tries < Backoffs    \* refused for the rate
        /\ job' = [job EXCEPT !.tries = @ + 1] /\ UNCHANGED phase
  /\ UNCHANGED <<exchange, runs, candles, gaps, ended, torn, jobs>>

\* The expired route ends before its receipts are written, an option's after.
LeavesEarly ==
  job.bars = {} /\ <<phase, job.v>> \in {<<"record", "expired">>, <<"write", "option">>}

NoBars ==
  /\ LeavesEarly /\ phase' = "idle" /\ job' = NoJob
  /\ ended' = ended \cup job.first..Len(runs)
  /\ UNCHANGED <<exchange, runs, candles, gaps, torn, jobs>>

\* record_run commits one receipt.
RecordRun ==
  /\ phase = "record" /\ ~LeavesEarly
  /\ runs' = Append(runs, Head(job.receipts))
  /\ job' = [job EXCEPT !.receipts = Tail(@)]
  /\ phase' = IF Len(job.receipts) = 1 THEN "write" ELSE "record"
  /\ UNCHANGED <<exchange, candles, gaps, ended, torn, jobs>>

\* write_candles: INSERT OR IGNORE, one row for a minute of a series.
WriteCandles ==
  /\ phase = "write" /\ ~LeavesEarly
  /\ candles' = candles \cup {[v |-> job.v, t |-> t] : t \in job.bars}
  /\ ended' = ended \cup job.first..Len(runs)
  /\ \/ job.v \in Imported /\ phase' = "gaps" /\ torn' = torn \cup {job.v} /\ UNCHANGED job
     \/ job.v \in Checked /\ Turns /\ UNCHANGED torn
  /\ UNCHANGED <<exchange, runs, gaps, jobs>>

\* The missing minutes of the days that have any.
Holes(v) ==
  {g \in {[v |-> v, day |-> d, missing |-> On(Minutes, d, d) \ Stored(v)] :
             d \in DaysHeld(v)} : g.missing # {}}

\* detect_gaps: computed from nothing for the series.
DetectGaps ==
  /\ phase = "gaps" /\ phase' = "idle" /\ job' = NoJob
  /\ gaps' = {g \in gaps : g.v # job.v} \cup Holes(job.v)
  /\ torn' = torn \ {job.v}
  /\ UNCHANGED <<exchange, runs, candles, ended, jobs>>

Dies ==
  /\ phase # "idle" /\ phase' = "idle" /\ job' = NoJob
  /\ UNCHANGED <<exchange, runs, candles, gaps, ended, torn, jobs>>

\* The session goes on: minutes after the last one are traded.
Trades ==
  /\ phase \in {"idle", "fetch"}    \* elsewhere nobody asks
  /\ \E t \in Minutes : (\A u \in exchange : u < t) /\ exchange' = exchange \cup {t}
  /\ UNCHANGED <<job, phase, runs, candles, gaps, ended, torn, jobs>>

Next ==
  \/ Starts \/ CrossChecks \/ Fetch \/ NoBars \/ RecordRun \/ WriteCandles \/ DetectGaps \/ Dies \/ Trades

Spec == Init /\ [][Next]_importVars
-----------------------------------------------------------------------------
\* No candle is invented: it was traded, and a receipt that is on file and reports no
\* error asked its source for its day.
NothingInvented == \A c \in candles :
  /\ c.t \in exchange
  /\ \E k \in 1..Len(runs) : runs[k].v = c.v /\ ~runs[k].failed /\ Day(c.t) \in runs[k].from..runs[k].to

\* A command that got through its write, or found that it had nothing to write, has
\* every minute the source held, for each window whose receipt reports neither an
\* error nor a clamped answer.
FetchedWhole == \A k \in ended :
  ~runs[k].failed /\ ~runs[k].clamped => runs[k].held \subseteq Stored(runs[k].v)

\* The table of gaps is what the candles say, for every series an importing command
\* has written, unless it died between the two; the cross-check reports no holes.
GapsTrue == \A v \in Imported \ torn : {g \in gaps : g.v = v} = Holes(v)

\* All of it: the import says what it has and what it lacks.
ImportHonest == NothingInvented /\ FetchedWhole /\ GapsTrue
=============================================================================
