--------------------------- MODULE TradingSession ---------------------------
(***************************************************************************)
(* The trading loop of core/main.py together with the state machine of     *)
(* core/engines/state_machine.py: one main thread, the Telegram thread     *)
(* that only sets and clears manual_stop, the process that may be killed,  *)
(* interrupted or restarted, the SQLite table active_positions and the     *)
(* EXIT rows of trades.csv that outlive it, and the net position the       *)
(* exchange holds for the account.                                         *)
(*                                                                         *)
(* A step of the main thread ends wherever the code waits on the network,  *)
(* the disk or a sleep, so that a crash, Ctrl-C or a Telegram command can  *)
(* fall between any two of those points.  The counters of kill_switch.py   *)
(* are abstracted to their verdict (module KillSwitch has them), a         *)
(* timestamp to where it lies relative to now, an order to its number.     *)
(***************************************************************************)
EXTENDS Integers

CONSTANTS
  MaxOrders,        \* bound: entry orders that fill in one behaviour
  MaxSells,         \* bound: exit orders that reach the exchange
  MaxLaunches,      \* bound: times the operator starts the program
  MaxReconnects,    \* MAX_RECONNECT_ATTEMPTS
  MaxTradesPerDay,  \* MAX_TRADES_PER_DAY
  Faults            \* the failures the environment may produce

FaultKinds ==
  { "interrupt",   \* Ctrl-C reaches the main thread
    "crash",       \* the process is killed
    "exception",   \* an exception leaves the loop's body
    "lostfill",    \* an entry order fills after the bot stopped polling it
    "latefill",    \* an exit order fills after the bot stopped polling it
    "resend",      \* an accepted order is sent a second time
    "dbfail",      \* a database call raises
    "logfail",     \* a log or CSV write raises
    "unreadable" } \* trades.csv cannot be read back

ASSUME BoundsAssumption ==
  /\ MaxOrders \in Nat \ {0}
  /\ MaxSells \in Nat \ {0}
  /\ MaxLaunches \in Nat \ {0}
  /\ MaxReconnects \in Nat
  /\ MaxTradesPerDay \in Nat \ {0}

ASSUME FaultsAssumption == Faults \subseteq FaultKinds

VARIABLES
  pc,            \* where the main thread is
  why,           \* while a trade is being closed: which exit path runs
  state,         \* TradingState.state
  trade,         \* TradingState.current_trade: an order number, or NoTrade
  intervention,  \* TradingState.manual_intervention_required
  manualStop,    \* TradingState.manual_stop, written by the Telegram thread
  stale,         \* kill_switch.STALE_DATA_WARNED
  netDown,       \* state._network_sleep_count > 0
  cooldown,      \* TradingState.cooldown_until, relative to now
  tradesToday,   \* TradingState.total_trades_today
  reconnects,    \* run_with_auto_reconnect's reconnect_count
  rows,          \* active_positions rows with status ACTIVE
  exitRows,      \* EXIT rows in today's trades.csv
  held,          \* net position at the exchange, in entries
  nextOrder,     \* number of the next entry order to fill
  sells,         \* exit orders that reached the exchange
  launches,      \* times the program was started
  booked,        \* history: how often update_pnl has run for each order
  restored,      \* history: the last main() could read trades.csv
  afterStop      \* history: entry orders sent since Stop was pressed

memory  == <<state, trade, intervention, manualStop, stale, netDown, cooldown,
             tradesToday, reconnects, afterStop>>
disk    == <<rows, exitRows>>
market  == <<held, nextOrder, sells>>
control == <<pc, why>>
vars    == <<control, memory, disk, market, launches, booked, restored>>

Orders  == 1..MaxOrders
NoTrade == 0
Machine == {"IDLE", "ENTRY_READY", "IN_TRADE", "COOLDOWN", "KILL_SWITCH"}
InTry   == {"loop", "dispatch", "order", "record", "sell", "book", "clear"}
Paths   == {"exit", "netdown", "stale", "stop", "kill", "spread"}
Last    == {"shutdown", "error"}     \* exit paths after which the process ends

FlagsOK ==
  /\ intervention \in BOOLEAN
  /\ manualStop \in BOOLEAN
  /\ stale \in BOOLEAN
  /\ netDown \in BOOLEAN

TypeOK ==
  /\ pc \in InTry \cup {"off", "boot", "wait"}
  /\ why \in Paths \cup Last \cup {"none"}
  /\ state \in Machine
  /\ trade \in Orders \cup {NoTrade}
  /\ FlagsOK
  /\ cooldown \in {"none", "running", "over"}
  /\ tradesToday \in Nat
  /\ reconnects \in 0..MaxReconnects
  /\ rows \subseteq Orders
  /\ exitRows \in Nat
  /\ held \in Int
  /\ nextOrder \in 1..(MaxOrders + 1)
  /\ sells \in Nat
  /\ launches \in 0..MaxLaunches
  /\ booked \in [Orders -> Nat]
  /\ restored \in BOOLEAN
  /\ afterStop \in Nat

Init ==
  /\ pc = "off" /\ why = "none"
  /\ state = "IDLE" /\ trade = NoTrade
  /\ intervention = FALSE /\ manualStop = FALSE /\ stale = FALSE
  /\ netDown = FALSE /\ cooldown = "none"
  /\ tradesToday = 0 /\ reconnects = 0
  /\ rows = {} /\ exitRows = 0
  /\ held = 0 /\ nextOrder = 1 /\ sells = 0
  /\ launches = 0
  /\ booked = [o \in Orders |-> 0]
  /\ restored = TRUE
  /\ afterStop = 0

-----------------------------------------------------------------------------
(* What happens to the process.                                            *)

\* The process is gone and its memory with it; the next one starts from
\* TradingState() and the module-level defaults of kill_switch.py.
ProcessEnds ==
  /\ pc' = "off" /\ why' = "none"
  /\ state' = "IDLE" /\ trade' = NoTrade
  /\ intervention' = FALSE /\ manualStop' = FALSE /\ stale' = FALSE
  /\ netDown' = FALSE /\ cooldown' = "none"
  /\ tradesToday' = 0 /\ reconnects' = 0 /\ afterStop' = 0

\* main() returns "RECONNECT": the singleton TradingState stays as it is.
ReturnReconnect ==
  /\ pc' = "wait" /\ why' = "none"
  /\ reconnects' = IF reconnects < MaxReconnects THEN reconnects + 1 ELSE reconnects
  /\ UNCHANGED <<state, trade, intervention, manualStop, stale, netDown,
                 cooldown, tradesToday, afterStop>>

Launch ==
  /\ pc = "off" /\ launches < MaxLaunches
  /\ launches' = launches + 1
  /\ pc' = "boot"
  /\ UNCHANGED <<why, memory, disk, market, booked, restored>>

\* get_active_positions() returns a row: a position of an earlier main() is open.
OrphanFound == rows # {}

\* Slip: a new process counts from zero.
RestoredNothing == tradesToday

\* restore_from_trades: the trade count comes from the EXIT rows, if any.
RestoredCount == IF exitRows > 0 THEN exitRows ELSE tradesToday

\* main() up to its loop: the orphan check halts the machine when the table
\* holds an ACTIVE row (a database error skips the check), then the day's
\* counters are restored, or left as they are when trades.csv cannot be read.
Boot ==
  /\ pc = "boot"
  /\ pc' = "loop"
  /\ \E found \in {OrphanFound} \cup (IF "dbfail" \in Faults THEN {FALSE} ELSE {}) :
       /\ state' = IF found THEN "KILL_SWITCH" ELSE state
       /\ intervention' = (intervention \/ found)
  /\ \/ tradesToday' = RestoredCount /\ restored' = TRUE
     \/ "unreadable" \in Faults /\ restored' = FALSE /\ UNCHANGED tradesToday
  /\ UNCHANGED <<why, trade, manualStop, stale, netDown, cooldown, reconnects,
                 afterStop, disk, market, launches, booked>>

\* The broker does not connect, readiness blocks the start, or the market
\* has closed: main() returns and the session ends.
BootStops ==
  /\ pc = "boot"
  /\ ProcessEnds
  /\ UNCHANGED <<disk, market, launches, booked, restored>>

\* run_with_auto_reconnect: another call of main(), or the attempts are used up.
Reconnect ==
  /\ pc = "wait" /\ reconnects < MaxReconnects
  /\ pc' = "boot"
  /\ UNCHANGED <<why, memory, disk, market, launches, booked, restored>>

GiveUp ==
  /\ pc = "wait" /\ reconnects = MaxReconnects
  /\ ProcessEnds
  /\ UNCHANGED <<disk, market, launches, booked, restored>>

\* `while market_open()` ends the loop and main() returns "COMPLETED".
MarketCloses ==
  /\ pc = "loop"
  /\ ProcessEnds
  /\ UNCHANGED <<disk, market, launches, booked, restored>>

\* What may have happened on the wire or on disk when the main thread is cut
\* short inside a call: the order reached the exchange or not, the row was
\* written or not.
CallCutShort ==
  /\ \/ UNCHANGED <<held, nextOrder, sells, rows>>
     \/ /\ pc = "order"
        /\ held' = held + 1 /\ nextOrder' = nextOrder + 1
        /\ UNCHANGED <<sells, rows>>
     \/ /\ pc = "sell" /\ sells < MaxSells
        /\ held' = held - 1 /\ sells' = sells + 1
        /\ UNCHANGED <<nextOrder, rows>>
     \/ /\ pc = "record"
        /\ rows' = rows \cup {trade}
        /\ UNCHANGED <<held, nextOrder, sells>>
  /\ UNCHANGED exitRows

Crash ==
  /\ "crash" \in Faults
  /\ pc # "off"
  /\ CallCutShort
  /\ ProcessEnds
  /\ UNCHANGED <<launches, booked, restored>>

\* KeyboardInterrupt: inside the try of main() its handler closes the open
\* trade; a second one, or one outside the try, ends the process.
Interrupt ==
  /\ "interrupt" \in Faults
  /\ pc # "off"
  /\ CallCutShort
  /\ IF pc \in InTry /\ why \notin Last /\ trade # NoTrade
       THEN /\ pc' = "sell" /\ why' = "shutdown"
            /\ UNCHANGED memory
       ELSE ProcessEnds
  /\ UNCHANGED <<launches, booked, restored>>

\* ConnectionError, OSError or an exception whose text names the network
\* leaves the loop's body; an open trade is kept.
NetworkError ==
  /\ "exception" \in Faults
  /\ pc \in {"loop", "dispatch", "boot"}
  /\ ReturnReconnect
  /\ UNCHANGED <<disk, market, launches, booked, restored>>

\* Any other exception: the handler closes the open trade and main() ends.
FatalError ==
  /\ "exception" \in Faults
  /\ pc \in {"loop", "dispatch"}
  /\ IF trade # NoTrade
       THEN pc' = "sell" /\ why' = "error" /\ UNCHANGED memory
       ELSE ProcessEnds
  /\ UNCHANGED <<disk, market, launches, booked, restored>>

-----------------------------------------------------------------------------
(* The Telegram thread: /stop and /resume, at any moment after the first    *)
(* main() of the process has handed it the state (init_features).           *)

BotListens == pc # "off" /\ (pc = "boot" => reconnects > 0)

Stop ==
  /\ BotListens /\ ~manualStop
  /\ manualStop' = TRUE /\ afterStop' = 0
  /\ UNCHANGED <<control, state, trade, intervention, stale, netDown, cooldown,
                 tradesToday, reconnects, disk, market, launches, booked, restored>>

Resume ==
  /\ BotListens /\ manualStop
  /\ manualStop' = FALSE /\ afterStop' = 0
  /\ UNCHANGED <<control, state, trade, intervention, stale, netDown, cooldown,
                 tradesToday, reconnects, disk, market, launches, booked, restored>>

\* Time passes: the pending cooldown_until falls into the past.
CooldownExpires ==
  /\ cooldown = "running"
  /\ cooldown' = "over"
  /\ UNCHANGED <<control, state, trade, intervention, manualStop, stale, netDown,
                 tradesToday, reconnects, afterStop, disk, market, launches, booked, restored>>

-----------------------------------------------------------------------------
(* One pass of the loop, up to the call of the state handler.               *)

\* Every exit path starts by calling broker.exit_position.
BeginExit(path) == pc' = "sell" /\ why' = path

\* get_tick() returned None.  The first None of an outage closes the open
\* trade; the tenth forgets that the outage has begun.
TickNone ==
  /\ pc = "loop"
  /\ netDown' \in IF netDown THEN BOOLEAN ELSE {TRUE}
  /\ IF ~netDown /\ trade # NoTrade
       THEN BeginExit("netdown")
       ELSE UNCHANGED control
  /\ UNCHANGED <<state, trade, intervention, manualStop, stale, cooldown,
                 tradesToday, reconnects, afterStop, disk, market, launches, booked, restored>>

\* is_data_valid() rejects the tick; the one that completes the run of
\* rejected ticks kills, and kills again only after a recovery.
TickInvalid ==
  /\ pc = "loop"
  /\ netDown' = FALSE
  /\ \E kill \in BOOLEAN :
       /\ kill => ~stale
       /\ stale' = (stale \/ kill)
       /\ IF kill /\ trade # NoTrade
            THEN BeginExit("stale") /\ UNCHANGED state
            ELSE /\ state' = IF kill THEN "KILL_SWITCH" ELSE state
                 /\ UNCHANGED control
  /\ UNCHANGED <<trade, intervention, manualStop, cooldown, tradesToday,
                 reconnects, afterStop, disk, market, launches, booked, restored>>

\* A valid tick has been read; reset_rejected_tick_counter() answers whether
\* the stale-data kill, if there is one, is cleared.
ReadTick(cleared) ==
  /\ pc = "loop"
  /\ ~stale => cleared
  /\ stale' = (stale /\ ~cleared)
  /\ netDown' = FALSE
  /\ UNCHANGED <<trade, intervention, manualStop, cooldown, tradesToday,
                 reconnects, afterStop, disk, market, launches, booked, restored>>

\* The two `continue` branches before anything else is looked at.
Halted(cleared) == intervention \/ (~cleared /\ state = "KILL_SWITCH")

TickHalted ==
  \E cleared \in BOOLEAN :
    /\ ReadTick(cleared)
    /\ Halted(cleared)
    /\ UNCHANGED <<control, state>>

\* Slips: Stop is obeyed only with a trade open, or only without one.
StopSeenInTrade == manualStop /\ trade # NoTrade
StopSeenWhenFlat == manualStop /\ trade = NoTrade

StopSeen == manualStop

\* The operator's Stop is looked at before the automatic kill switch.
TickStopped ==
  \E cleared \in BOOLEAN :
    /\ ReadTick(cleared)
    /\ ~Halted(cleared)
    /\ StopSeen
    /\ IF trade # NoTrade
         THEN BeginExit("stop") /\ UNCHANGED state
         ELSE state' = "KILL_SWITCH" /\ UNCHANGED control

\* "Wide spread KILL" met in KILL_SWITCH takes the branch that resumes.
AfterKill(path, cur) ==
  IF path = "spread" /\ cur = "KILL_SWITCH" THEN "IDLE" ELSE "KILL_SWITCH"

\* emergency_check() kills: "spread" is its "Wide spread KILL", "kill" any other.
TickKilled ==
  \E cleared \in BOOLEAN, path \in {"kill", "spread"} :
    /\ ReadTick(cleared)
    /\ ~Halted(cleared)
    /\ ~StopSeen
    /\ IF trade # NoTrade
         THEN BeginExit(path) /\ UNCHANGED state
         ELSE state' = AfterKill(path, state) /\ UNCHANGED control

\* No kill: a machine in KILL_SWITCH recovers, then greeks, VIX and mode are
\* fetched before the handler of the state runs.
TickClear ==
  \E cleared \in BOOLEAN :
    /\ ReadTick(cleared)
    /\ ~Halted(cleared)
    /\ ~StopSeen
    /\ state' = IF state = "KILL_SWITCH" THEN "IDLE" ELSE state
    /\ pc' = "dispatch" /\ UNCHANGED why

-----------------------------------------------------------------------------
(* The handlers of the five states.                                         *)

HandlerReturns(next) ==
  /\ pc = "dispatch"
  /\ pc' = "loop" /\ UNCHANGED why
  /\ state' = next
  /\ UNCHANGED <<trade, intervention, manualStop, stale, netDown, tradesToday,
                 reconnects, afterStop, disk, market, launches, booked, restored>>

\* No signal, a filter says no, the exit engine says hold, the cooldown is
\* still pending, or KILL_SWITCH, which has no handler.
NothingToDo ==
  /\ ~(state = "COOLDOWN" /\ cooldown # "running")
  /\ state # "ENTRY_READY"
  /\ HandlerReturns(state)
  /\ UNCHANGED cooldown

\* Slip: off by one.
AtDailyLimit == tradesToday <= MaxTradesPerDay

\* check_trade_limits: the daily limit.
BelowDailyLimit == tradesToday < MaxTradesPerDay

\* state_idle with an entry signal.
SignalFound ==
  /\ state = "IDLE" /\ BelowDailyLimit
  /\ HandlerReturns("ENTRY_READY")
  /\ UNCHANGED cooldown

\* state_entry_ready: a risk, drift or sizing check blocks the entry.
EntryBlocked ==
  /\ state = "ENTRY_READY"
  /\ HandlerReturns("COOLDOWN")
  /\ cooldown' = "running"

\* state_cooldown: a missing timestamp is initialised, an expired one ends the
\* state and stays where it is.
CooldownMissing ==
  /\ state = "COOLDOWN" /\ cooldown = "none"
  /\ HandlerReturns("COOLDOWN")
  /\ cooldown' = "running"

CooldownEnds ==
  /\ state = "COOLDOWN" /\ cooldown = "over"
  /\ HandlerReturns("IDLE")
  /\ UNCHANGED cooldown

\* state_entry_ready calls broker.place_order; it looks neither at
\* current_trade nor at manual_stop again.
SendOrder ==
  /\ pc = "dispatch" /\ state = "ENTRY_READY"
  /\ nextOrder <= MaxOrders
  /\ pc' = "order" /\ UNCHANGED why
  /\ afterStop' = IF manualStop THEN afterStop + 1 ELSE afterStop
  /\ UNCHANGED <<state, trade, intervention, manualStop, stale, netDown, cooldown,
                 tradesToday, reconnects, disk, market, launches, booked, restored>>

\* state_in_trade: check_exit_conditions says to leave the trade.
ExitSignal ==
  /\ pc = "dispatch" /\ state = "IN_TRADE" /\ trade # NoTrade
  /\ BeginExit("exit")
  /\ UNCHANGED <<memory, disk, market, launches, booked, restored>>

-----------------------------------------------------------------------------
(* broker.place_order and what state_entry_ready does with its answer.      *)

\* The order is seen complete: current_trade is set.
OrderFilled ==
  /\ pc = "order"
  /\ held' \in {held + 1} \cup (IF "resend" \in Faults THEN {held + 2} ELSE {})
  /\ trade' = nextOrder
  /\ nextOrder' = nextOrder + 1
  /\ pc' = "record" /\ UNCHANGED why
  /\ UNCHANGED <<state, intervention, manualStop, stale, netDown, cooldown,
                 tradesToday, reconnects, afterStop, sells, disk, launches, booked, restored>>

\* Rejected, cancelled, not confirmed in time or refused by a check: None.
\* An order given up on may still fill.
OrderFailed ==
  /\ pc = "order"
  /\ \E filled \in {FALSE} \cup (IF "lostfill" \in Faults THEN {TRUE} ELSE {}) :
       /\ held' = IF filled THEN held + 1 ELSE held
       /\ nextOrder' = IF filled THEN nextOrder + 1 ELSE nextOrder
  /\ pc' = "loop" /\ UNCHANGED why
  /\ state' = "COOLDOWN" /\ cooldown' = "running"
  /\ UNCHANGED <<trade, intervention, manualStop, stale, netDown, tradesToday,
                 reconnects, afterStop, sells, disk, launches, booked, restored>>

\* A log write raises inside place_order, before or after the fill.
OrderLogFails ==
  /\ "logfail" \in Faults
  /\ pc = "order"
  /\ CallCutShort
  /\ ReturnReconnect
  /\ UNCHANGED <<launches, booked, restored>>

\* Slip: save_position has no caller, as was once the case.
SavedNothing == rows

\* log_trade_entry and save_position: their errors are logged and dropped.
SavedRows == rows \cup {trade}

TradeRecorded ==
  /\ pc = "record"
  /\ rows' \in {SavedRows} \cup (IF "dbfail" \in Faults THEN {rows} ELSE {})
  /\ state' = "IN_TRADE"
  /\ pc' = "loop" /\ UNCHANGED why
  /\ UNCHANGED <<trade, intervention, manualStop, stale, netDown, cooldown,
                 tradesToday, reconnects, afterStop, exitRows, market, launches, booked, restored>>

\* logger.trade_entry raises after the row was saved: the trade is set, the
\* machine still says ENTRY_READY.
EntryLogFails ==
  /\ "logfail" \in Faults
  /\ pc = "record"
  /\ rows' \in {SavedRows} \cup (IF "dbfail" \in Faults THEN {rows} ELSE {})
  /\ ReturnReconnect
  /\ UNCHANGED <<exitRows, market, launches, booked, restored>>

-----------------------------------------------------------------------------
(* Closing a trade: broker.exit_position, then close_current_trade of       *)
(* main.py, or the tail of state_in_trade when why is "exit".               *)

\* What the exchange may fill of one exit_position that is confirmed.
Fills == {1} \cup (IF "resend" \in Faults THEN {2} ELSE {})

\* Confirmed; trade_exit has appended the EXIT row.
ExitConfirmed ==
  /\ pc = "sell"
  /\ \E n \in Fills :
       /\ sells + n <= MaxSells
       /\ sells' = sells + n
       /\ held' = held - n
  /\ exitRows' = exitRows + 1
  /\ pc' = "book" /\ UNCHANGED why
  /\ UNCHANGED <<memory, rows, nextOrder, launches, booked, restored>>

\* No tick, no order accepted, or no fill seen by the five polls: the trade is
\* kept and entries are blocked.  A sent order may still fill.
ExitUnconfirmed ==
  /\ pc = "sell"
  /\ \E n \in {0} \cup (IF "latefill" \in Faults /\ sells < MaxSells THEN {1} ELSE {}) :
       /\ held' = held - n
       /\ sells' = sells + n
  /\ IF why \in Last
       THEN ProcessEnds
       ELSE /\ pc' = "loop" /\ why' = "none"
            /\ state' = AfterKill(why, "KILL_SWITCH")
            /\ intervention' = TRUE
            /\ UNCHANGED <<trade, manualStop, stale, netDown, cooldown,
                           tradesToday, reconnects, afterStop>>
  /\ UNCHANGED <<nextOrder, disk, launches, booked, restored>>

\* trade_exit or the line after it raises: sold, but never booked.
ExitLogFails ==
  /\ "logfail" \in Faults
  /\ pc = "sell" /\ sells < MaxSells
  /\ held' = held - 1 /\ sells' = sells + 1
  /\ exitRows' \in {exitRows, exitRows + 1}
  /\ IF why \in Last THEN ProcessEnds ELSE ReturnReconnect
  /\ UNCHANGED <<rows, nextOrder, launches, booked, restored>>

\* update_pnl and finalize_trade_exit_accounting; database errors are dropped.
TradeBooked ==
  /\ pc = "book"
  /\ booked' = [booked EXCEPT ![trade] = @ + 1]
  /\ tradesToday' = tradesToday + 1
  /\ rows' \in {rows \ {trade}} \cup (IF "dbfail" \in Faults THEN {rows} ELSE {})
  /\ pc' = "clear" /\ UNCHANGED why
  /\ UNCHANGED <<state, trade, intervention, manualStop, stale, netDown, cooldown,
                 reconnects, afterStop, exitRows, market, launches, restored>>

\* The state each exit path leaves behind.
AfterExit(path) ==
  IF path \in {"exit", "netdown"} THEN "COOLDOWN" ELSE AfterKill(path, state)

\* Slips: the normal exit, or close_current_trade, keeps the trade.
KeptAfterExit(path) == IF path = "exit" THEN trade ELSE NoTrade
KeptAfterClose(path) == IF path = "exit" THEN NoTrade ELSE trade

\* current_trade once the exit has been accounted for.
AfterClose(path) == NoTrade

\* current_trade = None.  Only the normal exit sets cooldown_until, and only
\* close_current_trade withdraws the demand for a manual review.
TradeCleared ==
  /\ pc = "clear"
  /\ IF why \in Last
       THEN ProcessEnds
       ELSE /\ pc' = "loop" /\ why' = "none"
            /\ trade' = AfterClose(why)
            /\ state' = AfterExit(why)
            /\ cooldown' = IF why = "exit" THEN "running" ELSE cooldown
            /\ intervention' = (IF why = "exit" THEN intervention ELSE FALSE)
            /\ UNCHANGED <<manualStop, stale, netDown, tradesToday, reconnects, afterStop>>
  /\ UNCHANGED <<disk, market, launches, booked, restored>>

\* Telegram notice and strike rotation come before current_trade = None on the
\* normal path, and a log write there may raise.
RotationLogFails ==
  /\ "logfail" \in Faults
  /\ pc = "clear" /\ why = "exit"
  /\ ReturnReconnect
  /\ UNCHANGED <<disk, market, launches, booked, restored>>

-----------------------------------------------------------------------------
ValidTick == TickHalted \/ TickStopped \/ TickKilled \/ TickClear

Handler ==
  \/ NothingToDo \/ SignalFound \/ EntryBlocked \/ CooldownMissing
  \/ CooldownEnds \/ SendOrder \/ ExitSignal

Trading ==
  \/ OrderFilled \/ OrderFailed \/ OrderLogFails \/ TradeRecorded \/ EntryLogFails
  \/ ExitConfirmed \/ ExitUnconfirmed \/ ExitLogFails
  \/ TradeBooked \/ TradeCleared \/ RotationLogFails

Starting == Boot \/ BootStops \/ Reconnect \/ GiveUp

Failing == Crash \/ Interrupt \/ NetworkError \/ FatalError

Next ==
  \/ Launch \/ Starting \/ Failing \/ MarketCloses
  \/ Stop \/ Resume \/ CooldownExpires
  \/ TickNone \/ TickInvalid \/ ValidTick
  \/ Handler \/ Trading

Spec == Init /\ [][Next]_vars

\* The main thread is one loop whose calls all return, so it never rests
\* between two passes; a feed that is not dead for the day delivers a valid
\* tick again and again.  Launches, faults and the operator owe nothing.
FairSpec ==
  /\ Spec
  /\ WF_vars(Starting \/ Handler \/ Trading)
  /\ WF_vars(CooldownExpires)
  /\ SF_vars(ValidTick)

-----------------------------------------------------------------------------
(* Safety.                                                                  *)

\* While the loop is between two calls, the state of the machine and the slot
\* for the open trade agree: IN_TRADE means there is a trade, and a trade that
\* is open is either supervised by IN_TRADE or held for a manual review.
OpenTradeSupervised ==
  pc \in {"loop", "dispatch"} =>
    /\ state = "IN_TRADE" => trade # NoTrade
    /\ trade # NoTrade => state = "IN_TRADE" \/ intervention

\* An entry order never goes out while current_trade still holds a position,
\* although state_entry_ready does not look at current_trade.
OneTradeAtATime == pc = "order" => trade = NoTrade

\* No entry order goes out while the table of open positions has a row: a
\* position left by an earlier process or by a failed exit stops all entries.
OrphanBlocks == pc = "order" => rows = {}

\* update_pnl counts a trade at most once, whichever of the exit paths closes
\* it and however often the close had to be repeated.
BookedOnce == \A o \in Orders : booked[o] <= 1

\* The EXIT rows of the day never exceed MAX_TRADES_PER_DAY, over restarts and
\* reconnects, although the limit is looked at in IDLE only.
DailyCap == exitRows <= MaxTradesPerDay

\* Whenever the loop runs, the counter that the limits read is never ahead of the
\* EXIT rows of the day, and equals them if they could be read at the start.
LedgerMatches ==
  pc \in {"loop", "dispatch"} =>
    /\ tradesToday <= exitRows
    /\ restored => tradesToday = exitRows

\* The bot never sells more than the account holds.
NeverShort == held >= 0

\* Every trade that the loop sees open has its row in active_positions, so a
\* process killed between two passes leaves the trace the next one looks for.
OpenTradeOnRecord ==
  pc \in {"loop", "dispatch"} /\ trade # NoTrade => trade \in rows

\* A crash neither forgets a position nor doubles it.
RecordGuards == OpenTradeOnRecord /\ OrphanBlocks

\* Every trade is counted and booked once, over restarts and reconnects, so the
\* daily limit holds (update_pnl and trade_exit of state_machine.py).
TradesAccounted == BookedOnce /\ DailyCap

\* An open trade is managed or under review, and a crash leaves it on record
\* and keeps entries out (state_machine.py, active_positions).
OpenTradesGuarded == OpenTradeSupervised /\ RecordGuards

\* After Stop at most the entry order that was already being decided goes out.
StopLeaksOneOrder == afterStop <= 1

\* While a review is demanded the handlers do not run and nothing is ordered.
ReviewBlocksEntries == pc \in {"dispatch", "order"} => ~intervention

-----------------------------------------------------------------------------
(* Liveness.                                                                *)

\* Stop with an open trade flattens it, demands a review, or is withdrawn.
StopFlattens ==
  (manualStop /\ trade # NoTrade)
    ~> (trade = NoTrade \/ intervention \/ ~manualStop)

-----------------------------------------------------------------------------
(* The trade slot as PositionSlot sees it.                                  *)

Slot == INSTANCE PositionSlot WITH
  Trades  <- Orders,
  None    <- NoTrade,
  slot    <- IF pc = "clear" THEN NoTrade ELSE trade,
  used    <- 1..(nextOrder - 1),
  settled <- {o \in Orders : booked[o] > 0}

\* The slot for the open trade implements PositionSlot: one trade at a time,
\* each entered at most once, settled at most once and only from the slot.
SlotImplemented == Slot!Spec
=============================================================================
