-------------------------------- MODULE History --------------------------------
(***************************************************************************)
(* The historical archive (core/historical): the collector turns ticks of  *)
(* its own websocket into rows, buffers them under a lock and flushes them *)
(* to one SQLite file a month; the gate reads the files back and calls a   *)
(* range of days ready or not.  Rows are lost to failed writes and to the  *)
(* end of the process; the gate is all that stands between such a hole and *)
(* a backtest.  Time is a number; DayLen of them make a day, the first of  *)
(* which is before the session opens, and every day is a weekday.          *)
(***************************************************************************)
EXTENDS Integers, FiniteSets, FiniteSetsExt, SequencesExt

CONSTANTS
  Options,    \* option symbols of the chain
  Prices,     \* of the spot
  Quotes,     \* that occur
  Late,       \* how late a tick may come
  DayLen, Days, DaysPerMonth,
  MaxBuffer, Interval,   \* max_buffer, flush_interval_sec
  RefAge,     \* SPOT_REF_MAX_AGE_SEC and SPOT_ALIGN_TOLERANCE_SEC
  MaxGap,     \* MAX_GAP_SEC
  MinRows, MaxSpacing,   \* of the resolution check
  MinQuotes,  \* MIN_ROWS_FOR_AUTHENTICITY_CHECK
  None,
  MaxStarts, MaxEvents   \* bounds: starts, and ticks and starts together

VARIABLES
  clock,
  lastSpot,   \* price and stamp of the newest spot tick, or None
  buffer,     \* rows not yet taken by a flush
  flushed,    \* _last_flush
  socket,     \* the socket's thread: "listens", "swap", "writes",
              \* "closing", "last", "ended"
  runner,     \* the runner: "runs", "swap", "writes", "out"
  taken,      \* rows each thread is writing
  store,      \* rows of the monthly files
  received,   \* history: every row made of a tick
  lost,       \* history: rows of failed writes and of a process that ended
  shown,      \* history: rows a backtest's data source may have looked up and cached
  starts

histVars == <<clock, lastSpot, buffer, flushed, socket, runner, taken, store, received, lost, shown, starts>>

Threads == {"socket", "runner"}
Symbols == {"spot"} \cup Options

Day(t)   == t \div DayLen
Month(t) == Day(t) \div DaysPerMonth
InSession(t) == t % DayLen # 0
Key(r)   == <<r.at, r.of>>
Near(a, b, d) == a - b <= d /\ b - a <= d

Start ==
  /\ lastSpot' = None /\ buffer' = {} /\ flushed' = clock
  /\ socket' = "listens" /\ runner' = "runs" /\ taken' = [f \in Threads |-> {}]

Init ==
  /\ clock = 1 /\ lastSpot = None /\ buffer = {} /\ flushed = 1
  /\ socket = "listens" /\ runner = "runs" /\ taken = [f \in Threads |-> {}]
  /\ store = {} /\ received = {} /\ lost = {} /\ shown = {} /\ starts = 1
-----------------------------------------------------------------------------
More == Cardinality(received) + starts < MaxEvents

\* A spot of another time than the tick's is no reference.
SpotRef(at) ==
  IF lastSpot # None /\ Near(at, lastSpot.at, RefAge) THEN lastSpot.price ELSE None

\* The quote of a row is "around" or in the exact "middle" of the trade, or "none":
\* an empty, one-sided or crossed book, or a trade outside it.
Row(s, at, p, q) == [of |-> s, at |-> at, price |-> p, quote |-> q,
                     ref |-> IF s = "spot" THEN p ELSE SpotRef(at)]

\* handle_binary: a tick of the exchange, maybe a little late.  The thread flushes
\* when the buffer is full or old.
TickReceived ==
  /\ socket = "listens" /\ More
  /\ \E s \in Symbols, at \in clock - Late..clock, p \in Prices, q \in Quotes :
       LET r == Row(s, at, p, q) IN
       /\ s = "spot" => q = CHOOSE x \in Quotes : TRUE
       /\ s # "spot" => p = Min(Prices)
       /\ r \notin received    \* bound: no tick comes twice word for word
       /\ lastSpot' = IF s = "spot" THEN [price |-> p, at |-> at] ELSE lastSpot
       /\ buffer' = buffer \cup {r} /\ received' = received \cup {r}
  /\ socket' = IF Cardinality(buffer') >= MaxBuffer \/ clock - flushed >= Interval
               THEN "swap" ELSE "listens"
  /\ UNCHANGED <<clock, flushed, runner, taken, store, lost, starts, shown>>

\* Bound: the clock matters only to ticks that are still to come.
TimePasses ==
  /\ clock < Days * DayLen - 1 /\ clock' = clock + 1
  /\ More /\ (socket # "ended" \/ starts < MaxStarts)
  /\ UNCHANGED <<lastSpot, buffer, flushed, socket, runner, taken, store, received, lost, starts, shown>>
-----------------------------------------------------------------------------
\* flush() takes the rows and leaves an empty buffer in one step under the lock.
Swap(f) ==
  /\ taken' = [taken EXCEPT ![f] = buffer] /\ buffer' = {} /\ flushed' = clock
  /\ UNCHANGED <<clock, lastSpot, store, received, lost, starts, shown>>

\* A stamp of an instrument that is on file stays as it is.
Inserted(rows) == store \cup {r \in rows : Key(r) \notin {Key(s) : s \in store}}

\* write_rows: one transaction a month, INSERT OR IGNORE; an exception ends it and
\* drops what is left of the batch.
WriteMonth(f) ==
  \E r \in taken[f] : LET month == {s \in taken[f] : Month(s.at) = Month(r.at)} IN
    \E rows \in SUBSET month :
      /\ {Key(s) : s \in rows} = {Key(s) : s \in month} /\ \A s, t \in rows : Key(s) = Key(t) => s = t
      /\ store' = Inserted(rows) /\ shown' = shown \cup store'
      /\ taken' = [taken EXCEPT ![f] = @ \ month] /\ UNCHANGED lost
WriteFails(f) ==
  /\ taken[f] # {}
  /\ lost' = lost \cup taken[f] /\ taken' = [taken EXCEPT ![f] = {}]
  /\ UNCHANGED <<store, shown>>
Write(f) ==
  /\ WriteMonth(f) \/ WriteFails(f)
  /\ UNCHANGED <<clock, lastSpot, buffer, flushed, received, starts>>

SocketFlushes ==
  /\ \/ /\ socket \in {"swap", "closing"} /\ Swap("socket")
        /\ socket' = IF socket = "swap" THEN "writes" ELSE "last"
     \/ /\ socket \in {"writes", "last"} /\ Write("socket")
        /\ UNCHANGED socket
  /\ UNCHANGED runner
Written ==
  /\ socket \in {"writes", "last"} /\ taken["socket"] = {}
  /\ socket' = IF socket = "writes" THEN "listens" ELSE "ended"
  /\ UNCHANGED <<clock, lastSpot, buffer, flushed, runner, taken, store, received, lost, starts, shown>>

\* The socket closes, by itself or by stop(): on_close flushes once more, and
\* nothing opens it again.
SocketCloses ==
  /\ socket = "listens" /\ socket' = "closing"
  /\ UNCHANGED <<clock, lastSpot, buffer, flushed, runner, taken, store, received, lost, starts, shown>>

\* A signal or the deadline: stop() closes the socket and flushes too ...
StopAsked ==
  /\ runner = "runs" /\ runner' = "swap"
  /\ socket' = IF socket = "listens" THEN "closing" ELSE socket
  /\ UNCHANGED <<clock, lastSpot, buffer, flushed, taken, store, received, lost, starts, shown>>
RunnerFlushes ==
  /\ \/ runner = "swap" /\ Swap("runner") /\ runner' = "writes"
     \/ runner = "writes" /\ Write("runner") /\ UNCHANGED runner
  /\ UNCHANGED socket

\* ... and the process ends, with whatever the daemon thread still holds.
Gone == buffer \cup UNION {taken[f] : f \in Threads}
ProcessEnds(from) ==
  /\ runner = from /\ lost' = lost \cup Gone
  /\ runner' = "out" /\ socket' = "ended" /\ buffer' = {} /\ taken' = [f \in Threads |-> {}]
  /\ UNCHANGED <<clock, lastSpot, flushed, store, received, starts, shown>>
RunnerEnds == taken["runner"] = {} /\ ProcessEnds("writes")
Crash      == ProcessEnds("runs")

StartAgain ==
  /\ runner = "out" /\ starts < MaxStarts /\ More /\ starts' = starts + 1 /\ Start
  /\ UNCHANGED <<clock, store, received, lost, shown>>

Next ==
  \/ TickReceived \/ TimePasses \/ SocketFlushes \/ Written \/ SocketCloses
  \/ StopAsked \/ RunnerFlushes \/ RunnerEnds \/ Crash \/ StartAgain

Spec == Init /\ [][Next]_histVars
-----------------------------------------------------------------------------
\* The gate.  query_range returns the rows of the days in order of their stamps.
Stamps(rows, s) == {r.at : r \in {x \in rows : x.of = s}}
Neighbours(T) == {p \in T \X T : p[1] < p[2] /\ \A t \in T : t <= p[1] \/ p[2] <= t}
Gaps(T)  == {p[2] - p[1] : p \in Neighbours(T)}
OnDay(rows, d) == {r \in rows : Day(r.at) = d}
Chain(rows)    == {r \in rows : r.of # "spot"}

\* Slip: the gaps of all instruments together.
NoHolesAnywhere(rows) ==
  LET gaps(d) == Gaps({r.at : r \in OnDay(rows, d)}) IN
  /\ \A d \in 0..Days - 1 : \A g \in gaps(d) : g <= MaxGap
  /\ \E d \in 0..Days - 1 : gaps(d) # {}
\* check_missing_ticks: within each day and instrument, and never on nothing.
NoHoles(rows) ==
  LET gaps(d, s) == Gaps(Stamps(OnDay(rows, d), s)) IN
  /\ \A d \in 0..Days - 1, s \in Symbols : \A g \in gaps(d, s) : g <= MaxGap
  /\ \E d \in 0..Days - 1, s \in Symbols : gaps(d, s) # {}
\* check_bid_ask_validity; a spread ten times the median counts as unusable.
QuotesValid(rows) == \A r \in Chain(rows) : r.quote # "none"

\* check_session_boundaries
InHours(rows) == \A r \in rows : InSession(r.at)

\* check_option_chain_coverage
Covered(rows) ==
  \A d \in {Day(r.at) : r \in rows} :
    (\E r \in OnDay(rows, d) : r.ref # None) => Options \subseteq {r.of : r \in OnDay(rows, d)}
CoverageKnown(rows) == Chain(rows) = {} \/ \E r \in rows : r.ref # None

\* check_spot_option_alignment: the spot row next in time, the earlier of two, is
\* near and its price is the reference.
Aligned(rows) == \A r \in Chain(rows) :
  LET spots   == {s \in OnDay(rows, Day(r.at)) : s.of = "spot"}
      away(s) == IF s.at < r.at THEN r.at - s.at ELSE s.at - r.at
      best    == {s \in spots : \A x \in spots :
                    away(s) < away(x) \/ (away(s) = away(x) /\ s.at <= x.at)}
  IN r.ref # None /\ \E s \in best : away(s) <= RefAge /\ s.price = r.ref

\* check_resolution: enough rows and a small median spacing for each instrument of a day.
Resolved(rows) ==
  /\ rows # {}
  /\ \A d \in 0..Days - 1, s \in Symbols :
       LET t   == SetToSortSeq(Stamps(OnDay(rows, d), s), <)
           gap == SortSeq([i \in 1..Len(t) - 1 |-> t[i + 1] - t[i]], <)
       IN t # <<>> => Len(t) >= MinRows /\ gap[Len(gap) \div 2 + 1] <= MaxSpacing

\* check_quote_authenticity
Authentic(rows) ==
  LET quoted == {r \in Chain(rows) : r.quote # "none"} IN
  Cardinality(quoted) >= MinQuotes =>
    100 * Cardinality({r \in quoted : r.quote = "middle"}) < 95 * Cardinality(quoted)

\* run_all_checks.  Names, expiries and strikes come from the chain the collector
\* subscribed and are right, and the files hold no stamp of an instrument twice.
AllChecks(rows) ==
  /\ NoHoles(rows) /\ QuotesValid(rows) /\ InHours(rows) /\ Covered(rows) /\ CoverageKnown(rows)
  /\ Aligned(rows) /\ Resolved(rows) /\ Authentic(rows)

\* check_backtest_ready: a month at a time, and every weekday has a row.
Ready(first, last) ==
  LET rows  == {r \in store : Day(r.at) \in first..last}
      month == [m \in {Month(r.at) : r \in rows} |-> {r \in rows : Month(r.at) = m}]
  IN /\ rows # {} /\ first..last \subseteq {Day(r.at) : r \in rows}
     /\ \A m \in DOMAIN month : AllChecks(month[m])
-----------------------------------------------------------------------------
\* No row disappears between buffer, flushes and files: a row is on file, under its
\* stamp and symbol, on its way there, or lost to a failed write or the end of a process.
Accounted == \A r \in received :
  \/ r \in buffer \cup lost \cup taken["socket"] \cup taken["runner"]
  \/ Key(r) \in {Key(s) : s \in store}

\* The reference of a row is a spot that was traded within a second of it.
RefsGenuine == \A r \in received : r.ref # None =>
  \E s \in received : s.of = "spot" /\ s.price = r.ref /\ Near(s.at, r.at, RefAge)

\* What BacktestDataSource.resolve_tick has looked up and cached stays what is on file,
\* whenever it looked: no write changes a stamp.
LookupsTrue == shown \subseteq store

\* The archive keeps what it was given: Accounted, RefsGenuine and LookupsTrue.
ArchiveKept == Accounted /\ RefsGenuine /\ LookupsTrue

\* A range the gate lets pass hides no loss longer than the gap it allows, but before
\* the first and after the last row of an instrument on a day.
ReadyHidesNoHole ==
  \A first \in 0..Days - 1 : \A last \in first..Days - 1 : Ready(first, last) =>
    \A r \in lost : Day(r.at) \in first..last =>
      LET mine == {s \in OnDay(store, Day(r.at)) : s.of = r.of} IN
      /\ mine # {}
      /\ \/ \A s \in mine : s.at >= r.at
         \/ \A s \in mine : s.at <= r.at
         \/ \E s, t \in mine : s.at <= r.at /\ r.at <= t.at /\ t.at - s.at <= MaxGap
=============================================================================
