-------------------------------- MODULE Calendar --------------------------------
(***************************************************************************)
(* The days the program believes the exchange is open, and the contracts   *)
(* it believes are listed (utils/trading_calendar.py, utils/instruments.py *)
(* and the writer of the instrument master in core/trading/broker.py).     *)
(* A day is a number and 0 a Monday.  The exchange shuts days, and moves   *)
(* the weekly expiry of a shut day to the open day before it.  Two files   *)
(* hold what the program knows; both are rewritten in place, so a process  *)
(* that dies in the middle leaves one that cannot be read.                 *)
(***************************************************************************)
EXTENDS Integers, FiniteSets, FiniteSetsExt

CONSTANTS
  LastDay, ExpiryWeekday,
  MayShut,       \* bound: the weekdays the exchange may shut
  Waits,         \* bound: last value of today
  HandsOn,       \* bound: the days somebody may declare by hand
  Wanted, Tick   \* limit prices, and the tick of the contracts

VARIABLES
  today, shut,
  declared,   \* config/nse_holidays.json: days, or Torn
  master,     \* the instrument master on disk: version and expiries, or Torn
  memory,     \* _cache and _cache_key of instruments.py
  statted,    \* version a reader saw before it opens the master, or Nothing
  writing,    \* what a writer that has truncated its file is about to write
  fresh,      \* history: the master was downloaded since the last announcement
  told        \* history: days declared since the file was last torn

calendarVars == <<today, shut, declared, master, memory, statted, writing, fresh, told>>

Days == 0..LastDay
Torn == {-1}
Nothing == -1
Weekday(d) == d % 7
Weekend(d) == Weekday(d) >= 5

\* External: the exchange.
Open(d)   == ~Weekend(d) /\ d \notin shut
Scheduled == {d \in Days : Weekday(d) = ExpiryWeekday}
Expiry(d) == CHOOSE e \in 0..d : Open(e) /\ \A x \in e + 1..d : ~Open(x)
Expiries  == {Expiry(d) : d \in Scheduled}

Init ==
  /\ today = 0 /\ shut = {} /\ declared = {} /\ statted = Nothing /\ fresh = TRUE
  /\ master = [ver |-> 0, rows |-> Scheduled] /\ memory = [ver |-> Nothing, rows |-> {}]
  /\ writing = [f \in {"master", "holidays"} |-> Torn] /\ told = {}
-----------------------------------------------------------------------------
\* contracts: the rows in memory while the file has not changed, else those of the file.
Readable(rows) == IF rows = Torn THEN {} ELSE rows
Contracts == IF memory.ver = master.ver THEN memory.rows ELSE Readable(master.rows)

\* nearest_expiry and expiry_dates.
NearestExpiry(d) ==
  LET S == {e \in Contracts : e >= d} IN IF S = {} THEN Nothing ELSE Min(S)

\* The weekday most expiries fall on, the one met first when two are as common.
OnWeekday(w) == {e \in Contracts : Weekday(e) = w}
Usual ==
  LET met  == {Weekday(e) : e \in Contracts}
      most == {w \in met : \A v \in met : Cardinality(OnWeekday(w)) >= Cardinality(OnWeekday(v))}
  IN  CHOOSE w \in most : \A v \in most : Min(OnWeekday(w)) <= Min(OnWeekday(v))

\* Slip: an expiry on any other weekday counts as pulled to an earlier day.
ShiftAny(e, usual) == (usual - Weekday(e)) % 7
\* inferred_holidays: an expiry one to three days early points at a holiday.
Shift(e, usual) == LET s == (usual - Weekday(e)) % 7 IN IF s <= 3 THEN s ELSE 0
Inferred ==
  LET S == Contracts  usual == Usual IN
  IF Cardinality(S) < 3 THEN {}
  ELSE {e + Shift(e, usual) : e \in {x \in S : Shift(x, usual) > 0}}

\* is_trading_day and next_trading_day, for the holidays as a call reads them; a week
\* has an open day.
Holidays == Readable(declared) \cup Inferred
IsTradingDay(d, H) == ~Weekend(d) /\ d \notin H
NextTradingDay(d, H) == Min({x \in d + 1..d + 7 : IsTradingDay(x, H)})

Clock == {"before", "session", "after"}
MarketOpen(d, clock, H) == IsTradingDay(d, H) /\ clock = "session"
\* main: a program started after the close sleeps to the next trading day, started before
\* the open to this day's, open or not; wait_for_market_open chooses again when it wakes.
StandbyDay(d, clock, H) == IF clock = "after" THEN NextTradingDay(d, H) ELSE d
WaitDay(d, clock, H) ==
  IF MarketOpen(d, clock, H) \/ clock # "after" THEN d ELSE NextTradingDay(d, H)
-----------------------------------------------------------------------------
\* Time, and an announcement: the exchange shuts a day that lies ahead.
DayEnds ==
  /\ today < Waits /\ today' = today + 1
  /\ UNCHANGED <<shut, declared, master, memory, statted, writing, fresh, told>>
Announces ==
  /\ \E d \in MayShut \ shut : d > today /\ shut' = shut \cup {d}
  /\ fresh' = FALSE
  /\ UNCHANGED <<today, declared, master, memory, statted, writing, told>>

\* _load_scrip_master: what the cache held and what is listed now, nothing dropped.
Merged == Readable(master.rows) \cup {e \in Expiries : e >= today}
Opened(f, rows) == writing[f] = Torn /\ writing' = [writing EXCEPT ![f] = rows]

Downloads ==
  /\ Opened("master", Merged)
  /\ master' = [ver |-> master.ver + 1, rows |-> Torn] /\ master.ver < 3    \* bound
  /\ fresh' = TRUE
  /\ UNCHANGED <<today, shut, declared, memory, statted, told>>

\* fetch_from_broker: weekdays without a candle in the span the candles cover.  The
\* vendor serves the traded days of the span, at worst without the first or last ones.
Found(a, b, lo, hi) ==
  LET traded == {d \in lo..hi : Open(d)} IN
  IF traded = {} THEN {}
  ELSE {d \in Max({a, Min(traded)})..Min({b, Max(traded)}) : ~Weekend(d) /\ d \notin traded}

\* write_declared: the file is read, truncated, and written whole.
WriteDeclared(days) ==
  /\ Opened("holidays", Readable(declared) \cup days)
  /\ declared' = Torn
  /\ UNCHANGED <<today, shut, master, memory, statted, fresh, told>>

Fetches ==
  \E a \in {0, today + 1}, b \in {today, LastDay}, lo \in {0, 2}, hi \in {today - 1, today} :
    LET found == Found(a, b, lo, hi) IN a <= b /\ found # {} /\ WriteDeclared(found)

\* Somebody transcribes the circular: whole entries, at once.
Transcribes ==
  /\ writing["holidays"] = Torn /\ declared # Torn
  /\ \E d \in shut \cap HandsOn :
       declared' = declared \cup {d} /\ told' = told \cup {d}
  /\ UNCHANGED <<today, shut, master, memory, statted, writing, fresh>>

\* The writer ends its file.
Ends(f) ==
  /\ writing[f] # Torn /\ writing' = [writing EXCEPT ![f] = Torn]
  /\ IF f = "master"
     THEN /\ master' = [ver |-> master.ver + 1, rows |-> writing[f]]
          /\ UNCHANGED <<declared, told>>
     ELSE declared' = writing[f] /\ told' = told \cup writing[f] /\ UNCHANGED master
  /\ UNCHANGED <<today, shut, memory, statted, fresh>>

\* It dies instead: what the file held is lost.
Dies(f) ==
  /\ writing[f] # Torn /\ writing' = [writing EXCEPT ![f] = Torn]
  /\ IF f = "master" THEN fresh' = FALSE /\ UNCHANGED told ELSE told' = {} /\ UNCHANGED fresh
  /\ UNCHANGED <<today, shut, declared, master, memory, statted>>

\* A reader looks at the file's stamp, and then opens it: two steps of one call.
Stats ==
  /\ statted = Nothing /\ memory.ver # master.ver /\ statted' = master.ver
  /\ UNCHANGED <<today, shut, declared, master, memory, writing, fresh, told>>
Loads ==
  /\ statted # Nothing /\ statted' = Nothing
  /\ memory' = [ver |-> statted, rows |-> Readable(master.rows)]
  /\ UNCHANGED <<today, shut, declared, master, writing, fresh, told>>

\* round_to_tick: down for a buyer, up for a seller, and not at all without a tick.
Rounded(p, side) ==
  IF Contracts = {} THEN p
  ELSE (IF side = "BUY" THEN p \div Tick ELSE (p + Tick - 1) \div Tick) * Tick

Next ==
  \/ DayEnds \/ Announces \/ Downloads \/ Fetches \/ Transcribes \/ Stats \/ Loads
  \/ \E f \in {"master", "holidays"} : Ends(f) \/ Dies(f)

Spec == Init /\ [][Next]_calendarVars
-----------------------------------------------------------------------------
\* A day is called closed only when it is: no session is slept through, however the
\* holidays were fetched or inferred, and whichever expiries the cache still lists.
NoSessionMissed ==
  LET H == Holidays IN \A d \in Days :
    /\ Open(d) => MarketOpen(d, "session", H)
    /\ \A clock \in Clock :
         LET n == StandbyDay(d, clock, H)
             w == IF n = d THEN WaitDay(d, clock, H) ELSE WaitDay(n, "before", H)
         IN  \A x \in d + 1..w - 1 : ~Open(x)

\* A holiday once declared stays declared, unless a writer died over the file.
NothingForgotten == declared # Torn => told \subseteq declared

\* On an open day the nearest expiry is the exchange's own, if the master was downloaded
\* since the last announcement: a moved expiry left in the cache does not mislead.
FrontExpiry ==
  fresh /\ writing["master"] = Torn /\ Open(today) /\ Contracts # {}
    => NearestExpiry(today) = Min({e \in Expiries : e >= today})

\* What the reader keeps is what the file it names held.
MemoryTrue == memory.ver = master.ver => memory.rows = Readable(master.rows)

\* A limit price is never worse for the trader, less than a tick away, and on the grid.
OnTheGrid == \A p \in Wanted :
  /\ Rounded(p, "BUY") \in p - Tick + 1..p /\ Rounded(p, "SELL") \in p..p + Tick - 1
  /\ Contracts # {} => Rounded(p, "BUY") % Tick = 0 /\ Rounded(p, "SELL") % Tick = 0

\* All of it: what is said of the exchange is true, or said not to be known.
CalendarHonest == NoSessionMissed /\ NothingForgotten /\ FrontExpiry /\ MemoryTrue /\ OnTheGrid
=============================================================================
