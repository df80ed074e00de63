--------------------------- MODULE RecordsProofs ---------------------------
(***************************************************************************)
(* What a session guarantees for every value of its bounds, and the records*)
(* it writes beside it: the broker's REST client, the archive, the candle  *)
(* import, the replay and the calendar.                                    *)
(*                                                                         *)
(* TypeInv is proved inductive first, in three parts.  LoopInv, SlotInv,   *)
(* RowsInv, BookInv, CapInv, HeldInv and RecordInv are each inductive      *)
(* relative to those before them; the theorems after them read the         *)
(* properties of TradingSession off them.  A theorem names the faults it   *)
(* does not survive as assumptions on Faults.  RestFit, ArchiveFit,        *)
(* ImportFit, ReplayFit and CalendarFit are each inductive alone.          *)
(***************************************************************************)
EXTENDS Records, FiniteSetTheorems, WellFoundedInduction, TLAPS

\* What the process keeps in memory is well typed, and while a trade is being
\* recorded or closed there is one.
ProcessOK ==
  /\ pc \in InTry \cup {"off", "boot", "wait"}
  /\ why \in Paths \cup Last \cup {"none"}
  /\ state \in Machine
  /\ trade \in Orders \cup {NoTrade}
  /\ cooldown \in {"none", "running", "over"}
  /\ tradesToday \in Nat
  /\ reconnects \in 0..MaxReconnects
  /\ launches \in 0..MaxLaunches
  /\ booked \in [Orders -> Nat]
  /\ restored \in BOOLEAN
  /\ afterStop \in Nat
  /\ pc \in {"record", "sell", "book", "clear"} => trade # NoTrade

\* What outlives the process is well typed, and an entry order on its way has a
\* number left to take.
OutsideOK ==
  /\ rows \subseteq Orders
  /\ exitRows \in Nat
  /\ held \in Int
  /\ nextOrder \in 1..(MaxOrders + 1)
  /\ sells \in Nat
  /\ pc = "order" => nextOrder <= MaxOrders

\* TypeOK in the three parts the steps below are proved for.
TypeInv == FlagsOK /\ ProcessOK /\ OutsideOK

\* Every step keeps the four flags Boolean.
LEMMA FlagsStep ==
  ASSUME FlagsOK, [Next]_vars
  PROVE  FlagsOK'
<1> USE DEF FlagsOK, memory, control
<1>1. CASE Launch
  BY <1>1, Zenon DEF Launch
<1>2. CASE Starting
  BY <1>2, Zenon DEF Starting, Boot, BootStops, Reconnect, GiveUp,
     OrphanFound, RestoredCount, ProcessEnds
<1>3. CASE Crash
  BY <1>3, Zenon DEF Crash, CallCutShort, ProcessEnds
<1>4. CASE Interrupt
  BY <1>4, Zenon DEF Interrupt, CallCutShort, ProcessEnds
<1>5. CASE NetworkError \/ FatalError \/ MarketCloses
  BY <1>5, Zenon DEF NetworkError, FatalError, MarketCloses,
     ReturnReconnect, ProcessEnds
<1>6. CASE Stop \/ Resume \/ CooldownExpires
  BY <1>6, Zenon DEF Stop, Resume, CooldownExpires
<1>7. CASE TickNone \/ TickInvalid
  BY <1>7, Zenon DEF TickNone, TickInvalid, BeginExit
<1>8. CASE TickHalted \/ TickStopped
  BY <1>8, Zenon DEF TickHalted, TickStopped, ReadTick, BeginExit, Halted,
     StopSeen
<1>9. CASE TickKilled
  BY <1>9, Zenon DEF TickKilled, ReadTick, BeginExit, Halted, StopSeen,
     AfterKill
<1>10. CASE TickClear
  BY <1>10, Zenon DEF TickClear, ReadTick, Halted, StopSeen
<1>11. CASE NothingToDo \/ SignalFound \/ EntryBlocked
  BY <1>11, Zenon DEF NothingToDo, SignalFound, EntryBlocked,
     HandlerReturns, BelowDailyLimit
<1>12. CASE CooldownMissing \/ CooldownEnds
  BY <1>12, Zenon DEF CooldownMissing, CooldownEnds, HandlerReturns
<1>13. CASE SendOrder \/ ExitSignal
  BY <1>13, Zenon DEF SendOrder, ExitSignal, BeginExit
<1>14. CASE OrderFilled \/ OrderFailed
  BY <1>14, Zenon DEF OrderFilled, OrderFailed
<1>15. CASE OrderLogFails
  BY <1>15, Zenon DEF OrderLogFails, CallCutShort, ReturnReconnect
<1>16. CASE TradeRecorded \/ EntryLogFails
  BY <1>16, Zenon DEF TradeRecorded, EntryLogFails, SavedRows,
     ReturnReconnect
<1>17. CASE ExitConfirmed
  BY <1>17, Zenon DEF ExitConfirmed, Fills
<1>18. CASE ExitUnconfirmed
  BY <1>18, Zenon DEF ExitUnconfirmed, ProcessEnds, AfterKill
<1>19. CASE ExitLogFails
  BY <1>19, Zenon DEF ExitLogFails, ProcessEnds, ReturnReconnect
<1>20. CASE TradeBooked
  BY <1>20, Zenon DEF TradeBooked
<1>21. CASE TradeCleared
  BY <1>21, Zenon DEF TradeCleared, ProcessEnds, AfterClose, AfterExit,
     AfterKill
<1>22. CASE RotationLogFails
  BY <1>22, Zenon DEF RotationLogFails, ReturnReconnect
<1>23. CASE UNCHANGED vars
  BY <1>23, Zenon DEF vars
<1> QED
  BY <1>1, <1>2, <1>3, <1>4, <1>5, <1>6, <1>7, <1>8, <1>9, <1>10, <1>11, <1>12,
     <1>13, <1>14, <1>15, <1>16, <1>17, <1>18, <1>19, <1>20, <1>21, <1>22, <1>23
  DEF Next, Failing, ValidTick, Handler, Trading

\* Every step keeps the process's memory well typed.
LEMMA ProcessStep ==
  ASSUME FlagsOK, ProcessOK, OutsideOK, [Next]_vars
  PROVE  ProcessOK'
<1> USE BoundsAssumption DEF ProcessOK, OutsideOK, Orders, NoTrade, Machine,
                             InTry, Paths, Last, memory, disk, market, control
<1>1. CASE Launch
  BY <1>1 DEF Launch
<1>2. CASE Starting
  <2>1. CASE Boot
    BY <2>1 DEF Boot, OrphanFound, RestoredCount
  <2>2. CASE BootStops
    BY <2>2 DEF BootStops, ProcessEnds
  <2>3. CASE Reconnect
    BY <2>3 DEF Reconnect
  <2>4. CASE GiveUp
    BY <2>4 DEF GiveUp, ProcessEnds
  <2> QED
    BY <1>2, <2>1, <2>2, <2>3, <2>4 DEF Starting
<1>3. CASE Crash
  BY <1>3 DEF Crash, ProcessEnds
<1>4. CASE Interrupt
  BY <1>4 DEF Interrupt, ProcessEnds
<1>5. CASE NetworkError \/ FatalError \/ MarketCloses
  <2>1. CASE NetworkError
    BY <2>1 DEF NetworkError, ReturnReconnect
  <2>2. CASE FatalError
    BY <2>2 DEF FatalError, ProcessEnds
  <2>3. CASE MarketCloses
    BY <2>3 DEF MarketCloses, ProcessEnds
  <2> QED
    BY <1>5, <2>1, <2>2, <2>3
<1>6. CASE Stop \/ Resume \/ CooldownExpires
  <2>1. CASE Stop
    BY <2>1 DEF Stop
  <2>2. CASE Resume
    BY <2>2 DEF Resume
  <2>3. CASE CooldownExpires
    BY <2>3 DEF CooldownExpires
  <2> QED
    BY <1>6, <2>1, <2>2, <2>3
<1>7. CASE TickNone \/ TickInvalid
  <2>1. CASE TickNone
    BY <2>1 DEF TickNone, BeginExit
  <2>2. CASE TickInvalid
    BY <2>2 DEF TickInvalid, BeginExit
  <2> QED
    BY <1>7, <2>1, <2>2
<1>8. CASE TickHalted \/ TickStopped
  <2>1. CASE TickHalted
    BY <2>1 DEF TickHalted, ReadTick, Halted
  <2>2. CASE TickStopped
    BY <2>2 DEF TickStopped, ReadTick, BeginExit, Halted, StopSeen
  <2> QED
    BY <1>8, <2>1, <2>2
<1>9. CASE TickKilled
  BY <1>9 DEF TickKilled, ReadTick, BeginExit, Halted, StopSeen, AfterKill
<1>10. CASE TickClear
  BY <1>10 DEF TickClear, ReadTick, Halted, StopSeen
<1>11. CASE NothingToDo \/ SignalFound \/ EntryBlocked
  <2>1. CASE NothingToDo
    BY <2>1 DEF NothingToDo, HandlerReturns
  <2>2. CASE SignalFound
    BY <2>2 DEF SignalFound, HandlerReturns, BelowDailyLimit
  <2>3. CASE EntryBlocked
    BY <2>3 DEF EntryBlocked, HandlerReturns
  <2> QED
    BY <1>11, <2>1, <2>2, <2>3
<1>12. CASE CooldownMissing \/ CooldownEnds
  <2>1. CASE CooldownMissing
    BY <2>1 DEF CooldownMissing, HandlerReturns
  <2>2. CASE CooldownEnds
    BY <2>2 DEF CooldownEnds, HandlerReturns
  <2> QED
    BY <1>12, <2>1, <2>2
<1>13. CASE SendOrder \/ ExitSignal
  <2>1. CASE SendOrder
    BY <2>1 DEF SendOrder
  <2>2. CASE ExitSignal
    BY <2>2 DEF ExitSignal, BeginExit
  <2> QED
    BY <1>13, <2>1, <2>2
<1>14. CASE OrderFilled \/ OrderFailed
  <2>1. CASE OrderFilled
    BY <2>1 DEF OrderFilled
  <2>2. CASE OrderFailed
    BY <2>2 DEF OrderFailed
  <2> QED
    BY <1>14, <2>1, <2>2
<1>15. CASE OrderLogFails
  BY <1>15 DEF OrderLogFails, ReturnReconnect
<1>16. CASE TradeRecorded \/ EntryLogFails
  <2>1. CASE TradeRecorded
    BY <2>1 DEF TradeRecorded, SavedRows
  <2>2. CASE EntryLogFails
    BY <2>2 DEF EntryLogFails, SavedRows, ReturnReconnect
  <2> QED
    BY <1>16, <2>1, <2>2
<1>17. CASE ExitConfirmed
  BY <1>17 DEF ExitConfirmed, Fills
<1>18. CASE ExitUnconfirmed
  BY <1>18 DEF ExitUnconfirmed, ProcessEnds, AfterKill
<1>19. CASE ExitLogFails
  BY <1>19 DEF ExitLogFails, ProcessEnds, ReturnReconnect
<1>20. CASE TradeBooked
  BY <1>20 DEF TradeBooked
<1>21. CASE TradeCleared
  <2>1. CASE why \in Last
    BY <1>21, <2>1 DEF TradeCleared, ProcessEnds
  <2>2. CASE why \notin Last
    BY <1>21, <2>2 DEF TradeCleared, AfterClose, AfterExit, AfterKill, FlagsOK
  <2> QED
    BY <2>1, <2>2
<1>22. CASE RotationLogFails
  BY <1>22 DEF RotationLogFails, ReturnReconnect
<1>23. CASE UNCHANGED vars
  BY <1>23 DEF vars
<1> QED
  BY <1>1, <1>2, <1>3, <1>4, <1>5, <1>6, <1>7, <1>8, <1>9, <1>10, <1>11, <1>12,
     <1>13, <1>14, <1>15, <1>16, <1>17, <1>18, <1>19, <1>20, <1>21, <1>22, <1>23
  DEF Next, Failing, ValidTick, Handler, Trading

\* A call cut short leaves the disk and the market well typed.
LEMMA CutShort ==
  ASSUME ProcessOK, OutsideOK, CallCutShort, pc' # "order"
  PROVE  OutsideOK'
<1>1. CASE UNCHANGED <<held, nextOrder, sells, rows>>
  BY <1>1 DEF CallCutShort, OutsideOK
<1>2. CASE pc = "order" /\ held' = held + 1 /\ nextOrder' = nextOrder + 1
           /\ UNCHANGED <<sells, rows>>
  BY <1>2, BoundsAssumption DEF CallCutShort, OutsideOK
<1>3. CASE pc = "sell" /\ sells < MaxSells /\ held' = held - 1
           /\ sells' = sells + 1 /\ UNCHANGED <<nextOrder, rows>>
  BY <1>3 DEF CallCutShort, OutsideOK
<1>4. CASE pc = "record" /\ rows' = rows \cup {trade}
           /\ UNCHANGED <<held, nextOrder, sells>>
  BY <1>4 DEF CallCutShort, OutsideOK, ProcessOK
<1> QED
  BY <1>1, <1>2, <1>3, <1>4 DEF CallCutShort

\* Every step keeps the disk and the market well typed.
LEMMA OutsideStep ==
  ASSUME ProcessOK, OutsideOK, [Next]_vars
  PROVE  OutsideOK'
<1> USE BoundsAssumption DEF ProcessOK, OutsideOK, Orders, NoTrade, Last,
                             memory, disk, market, control
<1>1. CASE Launch
  BY <1>1 DEF Launch
<1>2. CASE Starting
  BY <1>2 DEF Starting, Boot, BootStops, Reconnect, GiveUp, OrphanFound,
     RestoredCount, ProcessEnds
<1>3. CASE Crash
  BY <1>3, CutShort DEF Crash, ProcessEnds
<1>4. CASE Interrupt
  BY <1>4, CutShort DEF Interrupt, ProcessEnds, memory
<1>5. CASE NetworkError \/ FatalError \/ MarketCloses
  BY <1>5 DEF NetworkError, FatalError, MarketCloses, ReturnReconnect,
     ProcessEnds
<1>6. CASE Stop \/ Resume \/ CooldownExpires
  BY <1>6 DEF Stop, Resume, CooldownExpires
<1>7. CASE TickNone \/ TickInvalid
  BY <1>7 DEF TickNone, TickInvalid, BeginExit
<1>8. CASE TickHalted \/ TickStopped
  BY <1>8 DEF TickHalted, TickStopped, ReadTick, BeginExit, Halted,
     StopSeen
<1>9. CASE TickKilled
  BY <1>9 DEF TickKilled, ReadTick, BeginExit, Halted, StopSeen, AfterKill
<1>10. CASE TickClear
  BY <1>10 DEF TickClear, ReadTick, Halted, StopSeen
<1>11. CASE NothingToDo \/ SignalFound \/ EntryBlocked
  BY <1>11 DEF NothingToDo, SignalFound, EntryBlocked, HandlerReturns,
     BelowDailyLimit
<1>12. CASE CooldownMissing \/ CooldownEnds
  BY <1>12 DEF CooldownMissing, CooldownEnds, HandlerReturns
<1>13. CASE SendOrder \/ ExitSignal
  BY <1>13 DEF SendOrder, ExitSignal, BeginExit
<1>14. CASE OrderFilled \/ OrderFailed
  <2>1. CASE OrderFilled
    BY <2>1 DEF OrderFilled
  <2>2. CASE OrderFailed
    BY <2>2 DEF OrderFailed
  <2> QED
    BY <1>14, <2>1, <2>2
<1>15. CASE OrderLogFails
  BY <1>15, CutShort DEF OrderLogFails, ReturnReconnect
<1>16. CASE TradeRecorded \/ EntryLogFails
  BY <1>16 DEF TradeRecorded, EntryLogFails, SavedRows, ReturnReconnect
<1>17. CASE ExitConfirmed
  BY <1>17 DEF ExitConfirmed, Fills
<1>18. CASE ExitUnconfirmed
  BY <1>18 DEF ExitUnconfirmed, ProcessEnds, AfterKill
<1>19. CASE ExitLogFails
  BY <1>19 DEF ExitLogFails, ProcessEnds, ReturnReconnect
<1>20. CASE TradeBooked
  BY <1>20 DEF TradeBooked
<1>21. CASE TradeCleared
  BY <1>21 DEF TradeCleared, ProcessEnds, AfterClose, AfterExit, AfterKill
<1>22. CASE RotationLogFails
  BY <1>22 DEF RotationLogFails, ReturnReconnect
<1>23. CASE UNCHANGED vars
  BY <1>23 DEF vars
<1> QED
  BY <1>1, <1>2, <1>3, <1>4, <1>5, <1>6, <1>7, <1>8, <1>9, <1>10, <1>11, <1>12,
     <1>13, <1>14, <1>15, <1>16, <1>17, <1>18, <1>19, <1>20, <1>21, <1>22, <1>23
  DEF Next, Failing, ValidTick, Handler, Trading

\* Every step keeps the typing invariant.
LEMMA TypeStep ==
  ASSUME TypeInv, [Next]_vars
  PROVE  TypeInv'
  BY FlagsStep, ProcessStep, OutsideStep DEF TypeInv

\* The typing invariant holds at the start.
LEMMA TypeInit == Init => TypeInv
<1> SUFFICES ASSUME Init PROVE TypeInv
  OBVIOUS
<1>1. FlagsOK
  BY Zenon DEF Init, FlagsOK
<1>2. ProcessOK /\ OutsideOK
  BY BoundsAssumption DEF Init, ProcessOK, OutsideOK, InTry, Paths, Last,
                          Machine, Orders, NoTrade
<1> QED
  BY <1>1, <1>2 DEF TypeInv

\* The typing invariant holds in every state of every behaviour.
LEMMA Typed == Spec => []TypeInv
<1>1. TypeInv /\ [Next]_vars => TypeInv'
  BY TypeStep
<1> QED
  BY <1>1, TypeInit, PTL DEF Spec

\* Every variable of the trading session keeps its type, under every fault: the
\* machine of state_machine.py never leaves its five states, and every close has a
\* trade to close.
THEOREM TypeCorrect == Spec => []TypeOK
<1>1. TypeInv => TypeOK
  BY DEF TypeInv, TypeOK, ProcessOK, OutsideOK
<1> QED
  BY <1>1, Typed, PTL

-----------------------------------------------------------------------------

\* The counter of the day against the EXIT rows at every point where main() can
\* be: between trade_exit and update_pnl (pc = "book") the rows are one ahead,
\* and only the exit paths after which the process ends may leave it so.  With it,
\* what the handlers may assume of Stop and of the demand for a review.
LoopInv ==
  /\ why \in Last => pc \in {"sell", "book", "clear"}
  /\ pc \in {"loop", "dispatch", "order", "record", "boot", "wait"} => tradesToday <= exitRows
  /\ pc \in {"sell", "clear"} /\ why \notin Last => tradesToday <= exitRows
  /\ pc = "book" /\ why \notin Last => tradesToday < exitRows
  /\ restored =>
       /\ pc \in {"loop", "dispatch", "order", "record"} => tradesToday = exitRows
       /\ pc \in {"sell", "clear"} /\ why \notin Last => tradesToday = exitRows
       /\ pc = "book" /\ why \notin Last => tradesToday + 1 = exitRows
  /\ pc = "off" => tradesToday = 0
  /\ afterStop <= 1
  /\ ~manualStop \/ pc = "dispatch" => afterStop = 0
  /\ pc \in {"dispatch", "order", "record"} => ~intervention

\* Every step keeps LoopInv, under all faults.
LEMMA LoopStep ==
  ASSUME TypeInv, LoopInv, [Next]_vars
  PROVE  LoopInv'
<1> USE DEF TypeInv, ProcessOK, OutsideOK, LoopInv, Orders, NoTrade, Last, Paths,
            InTry, memory, disk, market, control
<1>1. CASE Launch
  BY <1>1 DEF Launch
<1>2. CASE Starting
  <2>1. CASE Boot
    BY <2>1 DEF Boot, OrphanFound, RestoredCount
  <2>2. CASE BootStops
    BY <2>2 DEF BootStops, ProcessEnds
  <2>3. CASE Reconnect
    BY <2>3 DEF Reconnect
  <2>4. CASE GiveUp
    BY <2>4 DEF GiveUp, ProcessEnds
  <2> QED
    BY <1>2, <2>1, <2>2, <2>3, <2>4 DEF Starting
<1>3. CASE Crash
  BY <1>3 DEF Crash, CallCutShort, ProcessEnds
<1>4. CASE Interrupt
  BY <1>4 DEF Interrupt, CallCutShort, ProcessEnds
<1>5. CASE NetworkError \/ FatalError \/ MarketCloses
  BY <1>5 DEF NetworkError, FatalError, MarketCloses, ReturnReconnect,
     ProcessEnds
<1>6. CASE Stop \/ Resume \/ CooldownExpires
  BY <1>6 DEF Stop, Resume, CooldownExpires
<1>7. CASE TickNone \/ TickInvalid
  <2>1. CASE TickNone
    BY <2>1 DEF TickNone, BeginExit
  <2>2. CASE TickInvalid
    BY <2>2 DEF TickInvalid, BeginExit
  <2> QED
    BY <1>7, <2>1, <2>2
<1>8. CASE TickHalted \/ TickStopped
  BY <1>8 DEF TickHalted, TickStopped, ReadTick, BeginExit, Halted,
     StopSeen
<1>9. CASE TickKilled
  BY <1>9 DEF TickKilled, ReadTick, BeginExit, Halted, StopSeen, AfterKill
<1>10. CASE TickClear
  BY <1>10 DEF TickClear, ReadTick, Halted, StopSeen
<1>11. CASE NothingToDo \/ SignalFound \/ EntryBlocked
  BY <1>11 DEF NothingToDo, SignalFound, EntryBlocked, HandlerReturns,
     BelowDailyLimit
<1>12. CASE CooldownMissing \/ CooldownEnds
  BY <1>12 DEF CooldownMissing, CooldownEnds, HandlerReturns
<1>13. CASE SendOrder \/ ExitSignal
  BY <1>13 DEF SendOrder, ExitSignal, BeginExit
<1>14. CASE OrderFilled \/ OrderFailed
  <2>1. CASE OrderFilled
    BY <2>1 DEF OrderFilled
  <2>2. CASE OrderFailed
    BY <2>2 DEF OrderFailed
  <2> QED
    BY <1>14, <2>1, <2>2
<1>15. CASE OrderLogFails
  BY <1>15 DEF OrderLogFails, CallCutShort, ReturnReconnect
<1>16. CASE TradeRecorded \/ EntryLogFails
  BY <1>16 DEF TradeRecorded, EntryLogFails, SavedRows, ReturnReconnect
<1>17. CASE ExitConfirmed
  BY <1>17 DEF ExitConfirmed, Fills
<1>18. CASE ExitUnconfirmed
  BY <1>18 DEF ExitUnconfirmed, ProcessEnds, AfterKill
<1>19. CASE ExitLogFails
  BY <1>19 DEF ExitLogFails, ProcessEnds, ReturnReconnect
<1>20. CASE TradeBooked
  BY <1>20 DEF TradeBooked
<1>21. CASE TradeCleared
  <2>1. CASE why \in Last
    BY <1>21, <2>1 DEF TradeCleared, ProcessEnds
  <2>2. CASE why \notin Last
    BY <1>21, <2>2 DEF TradeCleared, AfterClose, AfterExit, AfterKill
  <2> QED
    BY <2>1, <2>2
<1>22. CASE RotationLogFails
  BY <1>22 DEF RotationLogFails, ReturnReconnect
<1>23. CASE UNCHANGED vars
  BY <1>23 DEF vars
<1> QED
  BY <1>1, <1>2, <1>3, <1>4, <1>5, <1>6, <1>7, <1>8, <1>9, <1>10, <1>11, <1>12,
     <1>13, <1>14, <1>15, <1>16, <1>17, <1>18, <1>19, <1>20, <1>21, <1>22, <1>23
  DEF Next, Failing, ValidTick, Handler, Trading

\* Where an open trade and the state of the machine may disagree: never in the
\* loop, but after a reconnect they may, if the row in active_positions makes
\* the next main() find the orphan before the loop starts.
SlotInv ==
  /\ pc = "order" => trade = NoTrade /\ state = "ENTRY_READY"
  /\ pc \in {"loop", "dispatch"} /\ trade # NoTrade
       => state = "IN_TRADE" \/ intervention
  /\ pc \in {"sell", "book", "clear"} /\ why # "shutdown"
       => state = "IN_TRADE" \/ intervention
  /\ pc \in {"wait", "boot"} /\ trade # NoTrade
       => \/ state = "IN_TRADE" \/ intervention
          \/ "dbfail" \notin Faults /\ rows # {}
  /\ pc = "off" => trade = NoTrade
  /\ state = "IN_TRADE" => trade # NoTrade
  /\ intervention => state # "ENTRY_READY"

\* The table of open positions holds nothing but the open trade; rows without a
\* trade are an earlier process's, and stop the entries.
RowsInv ==
  /\ trade # NoTrade => rows \subseteq {trade}
  /\ pc \in {"record", "clear"} => rows = {}
  /\ pc \in {"loop", "dispatch", "order"} /\ rows # {}
       => trade # NoTrade \/ intervention

\* Every step keeps SlotInv, provided database and log errors do not both occur.
LEMMA SlotStep ==
  ASSUME "dbfail" \notin Faults \/ "logfail" \notin Faults,
         TypeInv, LoopInv, SlotInv, [Next]_vars,
         "dbfail" \notin Faults => RowsInv
  PROVE  SlotInv'
<1> USE DEF TypeInv, ProcessOK, OutsideOK, LoopInv, SlotInv, RowsInv, Orders,
            NoTrade, Last, Paths, InTry, memory, disk, market, control
<1>1. CASE Launch
  BY <1>1 DEF Launch
<1>2. CASE Starting
  <2>1. CASE Boot
    BY <2>1 DEF Boot, OrphanFound, RestoredCount
  <2>2. CASE BootStops
    BY <2>2 DEF BootStops, ProcessEnds
  <2>3. CASE Reconnect
    BY <2>3 DEF Reconnect
  <2>4. CASE GiveUp
    BY <2>4 DEF GiveUp, ProcessEnds
  <2> QED
    BY <1>2, <2>1, <2>2, <2>3, <2>4 DEF Starting
<1>3. CASE Crash
  BY <1>3 DEF Crash, CallCutShort, ProcessEnds
<1>4. CASE Interrupt
  BY <1>4 DEF Interrupt, CallCutShort, ProcessEnds
<1>5. CASE NetworkError \/ FatalError \/ MarketCloses
  BY <1>5 DEF NetworkError, FatalError, MarketCloses, ReturnReconnect,
     ProcessEnds
<1>6. CASE Stop \/ Resume \/ CooldownExpires
  BY <1>6 DEF Stop, Resume, CooldownExpires
<1>7. CASE TickNone \/ TickInvalid
  <2>1. CASE TickNone
    BY <2>1 DEF TickNone, BeginExit
  <2>2. CASE TickInvalid
    BY <2>2 DEF TickInvalid, BeginExit
  <2> QED
    BY <1>7, <2>1, <2>2
<1>8. CASE TickHalted \/ TickStopped
  BY <1>8 DEF TickHalted, TickStopped, ReadTick, BeginExit, Halted,
     StopSeen
<1>9. CASE TickKilled
  BY <1>9 DEF TickKilled, ReadTick, BeginExit, Halted, StopSeen, AfterKill
<1>10. CASE TickClear
  BY <1>10 DEF TickClear, ReadTick, Halted, StopSeen
<1>11. CASE NothingToDo \/ SignalFound \/ EntryBlocked
  BY <1>11 DEF NothingToDo, SignalFound, EntryBlocked, HandlerReturns,
     BelowDailyLimit
<1>12. CASE CooldownMissing \/ CooldownEnds
  BY <1>12 DEF CooldownMissing, CooldownEnds, HandlerReturns
<1>13. CASE SendOrder \/ ExitSignal
  BY <1>13 DEF SendOrder, ExitSignal, BeginExit
<1>14. CASE OrderFilled \/ OrderFailed
  <2>1. CASE OrderFilled
    BY <2>1 DEF OrderFilled
  <2>2. CASE OrderFailed
    BY <2>2 DEF OrderFailed
  <2> QED
    BY <1>14, <2>1, <2>2
<1>15. CASE OrderLogFails
  BY <1>15 DEF OrderLogFails, CallCutShort, ReturnReconnect
<1>16. CASE TradeRecorded \/ EntryLogFails
  BY <1>16 DEF TradeRecorded, EntryLogFails, SavedRows, ReturnReconnect
<1>17. CASE ExitConfirmed
  BY <1>17 DEF ExitConfirmed, Fills
<1>18. CASE ExitUnconfirmed
  BY <1>18 DEF ExitUnconfirmed, ProcessEnds, AfterKill
<1>19. CASE ExitLogFails
  BY <1>19 DEF ExitLogFails, ProcessEnds, ReturnReconnect
<1>20. CASE TradeBooked
  BY <1>20 DEF TradeBooked
<1>21. CASE TradeCleared
  BY <1>21 DEF TradeCleared, ProcessEnds, AfterClose, AfterExit, AfterKill
<1>22. CASE RotationLogFails
  BY <1>22 DEF RotationLogFails, ReturnReconnect
<1>23. CASE UNCHANGED vars
  BY <1>23 DEF vars
<1> QED
  BY <1>1, <1>2, <1>3, <1>4, <1>5, <1>6, <1>7, <1>8, <1>9, <1>10, <1>11, <1>12,
     <1>13, <1>14, <1>15, <1>16, <1>17, <1>18, <1>19, <1>20, <1>21, <1>22, <1>23
  DEF Next, Failing, ValidTick, Handler, Trading

\* Every step keeps RowsInv while the database works.
LEMMA RowsStep ==
  ASSUME "dbfail" \notin Faults,
         TypeInv, LoopInv, SlotInv, RowsInv, [Next]_vars
  PROVE  RowsInv'
<1> USE DEF TypeInv, ProcessOK, OutsideOK, LoopInv, SlotInv, RowsInv, Orders,
            NoTrade, Last, Paths, InTry, memory, disk, market, control
<1>1. CASE Launch
  BY <1>1 DEF Launch
<1>2. CASE Starting
  BY <1>2 DEF Starting, Boot, BootStops, Reconnect, GiveUp, OrphanFound,
     RestoredCount, ProcessEnds
<1>3. CASE Crash
  BY <1>3 DEF Crash, CallCutShort, ProcessEnds
<1>4. CASE Interrupt
  BY <1>4 DEF Interrupt, CallCutShort, ProcessEnds
<1>5. CASE NetworkError \/ FatalError \/ MarketCloses
  BY <1>5 DEF NetworkError, FatalError, MarketCloses, ReturnReconnect,
     ProcessEnds
<1>6. CASE Stop \/ Resume \/ CooldownExpires
  BY <1>6 DEF Stop, Resume, CooldownExpires
<1>7. CASE TickNone \/ TickInvalid
  BY <1>7 DEF TickNone, TickInvalid, BeginExit
<1>8. CASE TickHalted \/ TickStopped
  BY <1>8 DEF TickHalted, TickStopped, ReadTick, BeginExit, Halted,
     StopSeen
<1>9. CASE TickKilled
  BY <1>9 DEF TickKilled, ReadTick, BeginExit, Halted, StopSeen, AfterKill
<1>10. CASE TickClear
  BY <1>10 DEF TickClear, ReadTick, Halted, StopSeen
<1>11. CASE NothingToDo \/ SignalFound \/ EntryBlocked
  BY <1>11 DEF NothingToDo, SignalFound, EntryBlocked, HandlerReturns,
     BelowDailyLimit
<1>12. CASE CooldownMissing \/ CooldownEnds
  BY <1>12 DEF CooldownMissing, CooldownEnds, HandlerReturns
<1>13. CASE SendOrder \/ ExitSignal
  BY <1>13 DEF SendOrder, ExitSignal, BeginExit
<1>14. CASE OrderFilled \/ OrderFailed
  BY <1>14 DEF OrderFilled, OrderFailed
<1>15. CASE OrderLogFails
  BY <1>15 DEF OrderLogFails, CallCutShort, ReturnReconnect
<1>16. CASE TradeRecorded \/ EntryLogFails
  BY <1>16 DEF TradeRecorded, EntryLogFails, SavedRows, ReturnReconnect
<1>17. CASE ExitConfirmed
  BY <1>17 DEF ExitConfirmed, Fills
<1>18. CASE ExitUnconfirmed
  BY <1>18 DEF ExitUnconfirmed, ProcessEnds, AfterKill
<1>19. CASE ExitLogFails
  BY <1>19 DEF ExitLogFails, ProcessEnds, ReturnReconnect
<1>20. CASE TradeBooked
  BY <1>20 DEF TradeBooked
<1>21. CASE TradeCleared
  BY <1>21 DEF TradeCleared, ProcessEnds, AfterClose, AfterExit, AfterKill
<1>22. CASE RotationLogFails
  BY <1>22 DEF RotationLogFails, ReturnReconnect
<1>23. CASE UNCHANGED vars
  BY <1>23 DEF vars
<1> QED
  BY <1>1, <1>2, <1>3, <1>4, <1>5, <1>6, <1>7, <1>8, <1>9, <1>10, <1>11, <1>12,
     <1>13, <1>14, <1>15, <1>16, <1>17, <1>18, <1>19, <1>20, <1>21, <1>22, <1>23
  DEF Next, Failing, ValidTick, Handler, Trading

\* An order that has no fill yet, and the open trade until update_pnl has run,
\* are unbooked; without Ctrl-C no exit path is entered a second time.
BookInv ==
  /\ why # "shutdown"
  /\ trade < nextOrder
  /\ \A o \in Orders : booked[o] <= 1
  /\ \A o \in Orders : o >= nextOrder => booked[o] = 0
  /\ trade # NoTrade /\ pc # "clear" => booked[trade] = 0

\* Every step keeps BookInv when neither Ctrl-C nor a log error cuts a close short.
LEMMA BookStep ==
  ASSUME "interrupt" \notin Faults, "logfail" \notin Faults,
         TypeInv, BookInv, [Next]_vars
  PROVE  BookInv'
<1> USE DEF TypeInv, ProcessOK, OutsideOK, BookInv, Orders, NoTrade, Last, Paths,
            InTry, memory, disk, market, control
<1>1. CASE Launch
  BY <1>1 DEF Launch
<1>2. CASE Starting
  <2>1. CASE Boot
    BY <2>1 DEF Boot, OrphanFound, RestoredCount
  <2>2. CASE BootStops
    BY <2>2 DEF BootStops, ProcessEnds
  <2>3. CASE Reconnect
    BY <2>3 DEF Reconnect
  <2>4. CASE GiveUp
    BY <2>4 DEF GiveUp, ProcessEnds
  <2> QED
    BY <1>2, <2>1, <2>2, <2>3, <2>4 DEF Starting
<1>3. CASE Crash
  BY <1>3 DEF Crash, CallCutShort, ProcessEnds
<1>4. CASE Interrupt
  BY <1>4 DEF Interrupt, CallCutShort, ProcessEnds
<1>5. CASE NetworkError \/ FatalError \/ MarketCloses
  <2>1. CASE NetworkError
    BY <2>1 DEF NetworkError, ReturnReconnect
  <2>2. CASE FatalError
    BY <2>2 DEF FatalError, ProcessEnds
  <2>3. CASE MarketCloses
    BY <2>3 DEF MarketCloses, ProcessEnds
  <2> QED
    BY <1>5, <2>1, <2>2, <2>3
<1>6. CASE Stop \/ Resume \/ CooldownExpires
  BY <1>6 DEF Stop, Resume, CooldownExpires
<1>7. CASE TickNone \/ TickInvalid
  BY <1>7 DEF TickNone, TickInvalid, BeginExit
<1>8. CASE TickHalted \/ TickStopped
  BY <1>8 DEF TickHalted, TickStopped, ReadTick, BeginExit, Halted,
     StopSeen
<1>9. CASE TickKilled
  BY <1>9 DEF TickKilled, ReadTick, BeginExit, Halted, StopSeen, AfterKill
<1>10. CASE TickClear
  BY <1>10 DEF TickClear, ReadTick, Halted, StopSeen
<1>11. CASE NothingToDo \/ SignalFound \/ EntryBlocked
  BY <1>11 DEF NothingToDo, SignalFound, EntryBlocked, HandlerReturns,
     BelowDailyLimit
<1>12. CASE CooldownMissing \/ CooldownEnds
  BY <1>12 DEF CooldownMissing, CooldownEnds, HandlerReturns
<1>13. CASE SendOrder \/ ExitSignal
  BY <1>13 DEF SendOrder, ExitSignal, BeginExit
<1>14. CASE OrderFilled \/ OrderFailed
  <2>1. CASE OrderFilled
    BY <2>1 DEF OrderFilled
  <2>2. CASE OrderFailed
    BY <2>2 DEF OrderFailed
  <2> QED
    BY <1>14, <2>1, <2>2
<1>15. CASE OrderLogFails
  BY <1>15 DEF OrderLogFails, CallCutShort, ReturnReconnect
<1>16. CASE TradeRecorded \/ EntryLogFails
  BY <1>16 DEF TradeRecorded, EntryLogFails, SavedRows, ReturnReconnect
<1>17. CASE ExitConfirmed
  BY <1>17 DEF ExitConfirmed, Fills
<1>18. CASE ExitUnconfirmed
  BY <1>18 DEF ExitUnconfirmed, ProcessEnds, AfterKill
<1>19. CASE ExitLogFails
  BY <1>19 DEF ExitLogFails, ProcessEnds, ReturnReconnect
<1>20. CASE TradeBooked
  BY <1>20 DEF TradeBooked
<1>21. CASE TradeCleared
  <2>1. CASE why \in Last
    BY <1>21, <2>1 DEF TradeCleared, ProcessEnds
  <2>2. CASE why \notin Last
    BY <1>21, <2>2 DEF TradeCleared, AfterClose, AfterExit, AfterKill
  <2> QED
    BY <2>1, <2>2
<1>22. CASE RotationLogFails
  BY <1>22 DEF RotationLogFails, ReturnReconnect
<1>23. CASE UNCHANGED vars
  BY <1>23 DEF vars
<1> QED
  BY <1>1, <1>2, <1>3, <1>4, <1>5, <1>6, <1>7, <1>8, <1>9, <1>10, <1>11, <1>12,
     <1>13, <1>14, <1>15, <1>16, <1>17, <1>18, <1>19, <1>20, <1>21, <1>22, <1>23
  DEF Next, Failing, ValidTick, Handler, Trading

\* An entry decided, or a trade open and not yet in the EXIT rows.
Pending ==
  state = "ENTRY_READY" \/ (trade # NoTrade /\ pc \notin {"book", "clear"})

\* The daily limit is only looked at in IDLE, so a pending entry already holds one
\* of the places below the limit.
CapInv ==
  /\ exitRows <= MaxTradesPerDay
  /\ Pending => exitRows < MaxTradesPerDay

\* Every step keeps CapInv.
LEMMA CapStep ==
  ASSUME "interrupt" \notin Faults, "logfail" \notin Faults, restored,
         TypeInv, LoopInv, SlotInv, BookInv, CapInv, [Next]_vars
  PROVE  CapInv'
<1> USE DEF TypeInv, ProcessOK, OutsideOK, LoopInv, SlotInv, BookInv, CapInv,
            Pending, Orders, NoTrade, Last, Paths, InTry, memory, disk, market, control
<1>1. CASE Launch
  BY <1>1 DEF Launch
<1>2. CASE Starting
  BY <1>2 DEF Starting, Boot, BootStops, Reconnect, GiveUp, OrphanFound,
     RestoredCount, ProcessEnds
<1>3. CASE Crash
  BY <1>3 DEF Crash, CallCutShort, ProcessEnds
<1>4. CASE Interrupt
  BY <1>4 DEF Interrupt, CallCutShort, ProcessEnds
<1>5. CASE NetworkError \/ FatalError \/ MarketCloses
  BY <1>5 DEF NetworkError, FatalError, MarketCloses, ReturnReconnect,
     ProcessEnds
<1>6. CASE Stop \/ Resume \/ CooldownExpires
  BY <1>6 DEF Stop, Resume, CooldownExpires
<1>7. CASE TickNone \/ TickInvalid
  BY <1>7 DEF TickNone, TickInvalid, BeginExit
<1>8. CASE TickHalted \/ TickStopped
  BY <1>8 DEF TickHalted, TickStopped, ReadTick, BeginExit, Halted,
     StopSeen
<1>9. CASE TickKilled
  BY <1>9 DEF TickKilled, ReadTick, BeginExit, Halted, StopSeen, AfterKill
<1>10. CASE TickClear
  BY <1>10 DEF TickClear, ReadTick, Halted, StopSeen
<1>11. CASE NothingToDo \/ SignalFound \/ EntryBlocked
  BY <1>11 DEF NothingToDo, SignalFound, EntryBlocked, HandlerReturns,
     BelowDailyLimit
<1>12. CASE CooldownMissing \/ CooldownEnds
  BY <1>12 DEF CooldownMissing, CooldownEnds, HandlerReturns
<1>13. CASE SendOrder \/ ExitSignal
  BY <1>13 DEF SendOrder, ExitSignal, BeginExit
<1>14. CASE OrderFilled \/ OrderFailed
  BY <1>14 DEF OrderFilled, OrderFailed
<1>15. CASE OrderLogFails
  BY <1>15 DEF OrderLogFails, CallCutShort, ReturnReconnect
<1>16. CASE TradeRecorded \/ EntryLogFails
  BY <1>16 DEF TradeRecorded, EntryLogFails, SavedRows, ReturnReconnect
<1>17. CASE ExitConfirmed
  <2>1. exitRows < MaxTradesPerDay /\ state # "ENTRY_READY"
    BY <1>17 DEF ExitConfirmed
  <2>2. exitRows' = exitRows + 1 /\ pc' = "book" /\ state' = state
    BY <1>17 DEF ExitConfirmed
  <2> QED
    BY <2>1, <2>2, BoundsAssumption
<1>18. CASE ExitUnconfirmed
  BY <1>18 DEF ExitUnconfirmed, ProcessEnds, AfterKill
<1>19. CASE ExitLogFails
  BY <1>19 DEF ExitLogFails, ProcessEnds, ReturnReconnect
<1>20. CASE TradeBooked
  BY <1>20 DEF TradeBooked
<1>21. CASE TradeCleared
  BY <1>21 DEF TradeCleared, ProcessEnds, AfterClose, AfterExit, AfterKill
<1>22. CASE RotationLogFails
  BY <1>22 DEF RotationLogFails, ReturnReconnect
<1>23. CASE UNCHANGED vars
  BY <1>23 DEF vars
<1> QED
  BY <1>1, <1>2, <1>3, <1>4, <1>5, <1>6, <1>7, <1>8, <1>9, <1>10, <1>11, <1>12,
     <1>13, <1>14, <1>15, <1>16, <1>17, <1>18, <1>19, <1>20, <1>21, <1>22, <1>23
  DEF Next, Failing, ValidTick, Handler, Trading

\* While a trade is open and not yet sold, the account holds it.
HeldInv ==
  /\ held >= 0
  /\ trade # NoTrade /\ pc \notin {"book", "clear"} => held >= 1

\* Every step keeps HeldInv when each accepted order is sent and filled once.
LEMMA HeldStep ==
  ASSUME "interrupt" \notin Faults, "logfail" \notin Faults,
         "latefill" \notin Faults, "resend" \notin Faults,
         TypeInv, SlotInv, BookInv, HeldInv, [Next]_vars
  PROVE  HeldInv'
<1> USE DEF TypeInv, ProcessOK, OutsideOK, SlotInv, BookInv, HeldInv,
            Orders, NoTrade, Last, Paths, InTry, memory, disk, market, control
<1>1. CASE Launch
  BY <1>1 DEF Launch
<1>2. CASE Starting
  <2>1. CASE Boot
    BY <2>1 DEF Boot, OrphanFound, RestoredCount
  <2>2. CASE BootStops
    BY <2>2 DEF BootStops, ProcessEnds
  <2>3. CASE Reconnect
    BY <2>3 DEF Reconnect
  <2>4. CASE GiveUp
    BY <2>4 DEF GiveUp, ProcessEnds
  <2> QED
    BY <1>2, <2>1, <2>2, <2>3, <2>4 DEF Starting
<1>3. CASE Crash
  BY <1>3 DEF Crash, CallCutShort, ProcessEnds
<1>4. CASE Interrupt
  BY <1>4 DEF Interrupt, CallCutShort, ProcessEnds
<1>5. CASE NetworkError \/ FatalError \/ MarketCloses
  BY <1>5 DEF NetworkError, FatalError, MarketCloses, ReturnReconnect,
     ProcessEnds
<1>6. CASE Stop \/ Resume \/ CooldownExpires
  BY <1>6 DEF Stop, Resume, CooldownExpires
<1>7. CASE TickNone \/ TickInvalid
  BY <1>7 DEF TickNone, TickInvalid, BeginExit
<1>8. CASE TickHalted \/ TickStopped
  BY <1>8 DEF TickHalted, TickStopped, ReadTick, BeginExit, Halted,
     StopSeen
<1>9. CASE TickKilled
  BY <1>9 DEF TickKilled, ReadTick, BeginExit, Halted, StopSeen, AfterKill
<1>10. CASE TickClear
  BY <1>10 DEF TickClear, ReadTick, Halted, StopSeen
<1>11. CASE NothingToDo \/ SignalFound \/ EntryBlocked
  BY <1>11 DEF NothingToDo, SignalFound, EntryBlocked, HandlerReturns,
     BelowDailyLimit
<1>12. CASE CooldownMissing \/ CooldownEnds
  BY <1>12 DEF CooldownMissing, CooldownEnds, HandlerReturns
<1>13. CASE SendOrder \/ ExitSignal
  BY <1>13 DEF SendOrder, ExitSignal, BeginExit
<1>14. CASE OrderFilled \/ OrderFailed
  <2>1. CASE OrderFilled
    BY <2>1 DEF OrderFilled
  <2>2. CASE OrderFailed
    BY <2>2 DEF OrderFailed
  <2> QED
    BY <1>14, <2>1, <2>2
<1>15. CASE OrderLogFails
  BY <1>15 DEF OrderLogFails, CallCutShort, ReturnReconnect
<1>16. CASE TradeRecorded \/ EntryLogFails
  BY <1>16 DEF TradeRecorded, EntryLogFails, SavedRows, ReturnReconnect
<1>17. CASE ExitConfirmed
  BY <1>17 DEF ExitConfirmed, Fills
<1>18. CASE ExitUnconfirmed
  BY <1>18 DEF ExitUnconfirmed, ProcessEnds, AfterKill
<1>19. CASE ExitLogFails
  BY <1>19 DEF ExitLogFails, ProcessEnds, ReturnReconnect
<1>20. CASE TradeBooked
  BY <1>20 DEF TradeBooked
<1>21. CASE TradeCleared
  BY <1>21 DEF TradeCleared, ProcessEnds, AfterClose, AfterExit, AfterKill
<1>22. CASE RotationLogFails
  BY <1>22 DEF RotationLogFails, ReturnReconnect
<1>23. CASE UNCHANGED vars
  BY <1>23 DEF vars
<1> QED
  BY <1>1, <1>2, <1>3, <1>4, <1>5, <1>6, <1>7, <1>8, <1>9, <1>10, <1>11, <1>12,
     <1>13, <1>14, <1>15, <1>16, <1>17, <1>18, <1>19, <1>20, <1>21, <1>22, <1>23
  DEF Next, Failing, ValidTick, Handler, Trading

-----------------------------------------------------------------------------
(* The invariants hold in every behaviour, under the faults each allows.    *)

\* All the invariants hold at the start.
LEMMA InvInit == Init => LoopInv /\ SlotInv /\ RowsInv /\ BookInv
                          /\ CapInv /\ HeldInv
  BY BoundsAssumption DEF Init, LoopInv, SlotInv, RowsInv, BookInv, CapInv, Pending,
     HeldInv, Last, Orders, NoTrade

\* LoopInv holds in every behaviour.
LEMMA Looped == Spec => [](TypeInv /\ LoopInv)
<1>1. TypeInv /\ LoopInv /\ [Next]_vars => LoopInv'
  BY LoopStep
<1> QED
  BY <1>1, Typed, InvInit, PTL DEF Spec

\* SlotInv and RowsInv hold in every behaviour whose database works.
LEMMA RowsKept ==
  ASSUME "dbfail" \notin Faults
  PROVE  Spec => [](SlotInv /\ RowsInv)
<1>1. TypeInv /\ LoopInv /\ SlotInv /\ RowsInv /\ [Next]_vars
        => SlotInv' /\ RowsInv'
  BY SlotStep, RowsStep
<1> QED
  BY <1>1, Looped, InvInit, PTL DEF Spec

\* SlotInv holds in every behaviour whose log writes work.
LEMMA SlotKept ==
  ASSUME "logfail" \notin Faults
  PROVE  Spec => []SlotInv
<1>1. CASE "dbfail" \notin Faults
  BY <1>1, RowsKept, PTL
<1>2. CASE "dbfail" \in Faults
  <2>1. TypeInv /\ LoopInv /\ SlotInv /\ [Next]_vars => SlotInv'
    BY <1>2, SlotStep
  <2> QED
    BY <2>1, Looped, InvInit, PTL DEF Spec
<1> QED
  BY <1>1, <1>2

\* BookInv holds in every behaviour in which no close is cut short.
LEMMA Booked ==
  ASSUME "interrupt" \notin Faults, "logfail" \notin Faults
  PROVE  Spec => []BookInv
<1>1. TypeInv /\ BookInv /\ [Next]_vars => BookInv'
  BY BookStep
<1> QED
  BY <1>1, Typed, InvInit, PTL DEF Spec

-----------------------------------------------------------------------------

\* Whenever the loop of main() runs, total_trades_today is not ahead of the EXIT rows of
\* the day, and equals them if this main() could read them back, over every crash,
\* reconnect and restart (restore_from_trades).
THEOREM LedgerCorrect == Spec => []LedgerMatches
<1>1. LoopInv => LedgerMatches
  BY DEF LoopInv, LedgerMatches
<1> QED
  BY <1>1, Looped, PTL

\* After /stop at most one entry order goes out: the one state_entry_ready was
\* already deciding.
THEOREM StopCorrect == Spec => []StopLeaksOneOrder
<1>1. LoopInv => StopLeaksOneOrder
  BY DEF LoopInv, StopLeaksOneOrder
<1> QED
  BY <1>1, Looped, PTL

\* While manual_intervention_required is set, main() calls no state handler and
\* places no order.
THEOREM ReviewCorrect == Spec => []ReviewBlocksEntries
<1>1. LoopInv => ReviewBlocksEntries
  BY DEF LoopInv, ReviewBlocksEntries
<1> QED
  BY <1>1, Looped, PTL

\* In the loop an open trade is supervised by IN_TRADE or held for review, and
\* place_order is never called with a trade open, provided database errors and
\* log errors do not both occur.
THEOREM SupervisionCorrect ==
  ASSUME "dbfail" \notin Faults \/ "logfail" \notin Faults
  PROVE  Spec => [](OpenTradeSupervised /\ OneTradeAtATime)
<1>1. SlotInv => OpenTradeSupervised /\ OneTradeAtATime
  BY DEF SlotInv, OpenTradeSupervised, OneTradeAtATime
<1>2. CASE "dbfail" \notin Faults
  BY <1>1, <1>2, RowsKept, PTL
<1>3. CASE "logfail" \notin Faults
  BY <1>1, <1>3, SlotKept, PTL
<1> QED
  BY <1>2, <1>3

\* No entry order goes out while active_positions has an ACTIVE row, as long as
\* the startup check of main() can read the table.
THEOREM OrphanCorrect ==
  ASSUME "dbfail" \notin Faults
  PROVE  Spec => []OrphanBlocks
<1>1. LoopInv /\ SlotInv /\ RowsInv => OrphanBlocks
  BY DEF LoopInv, SlotInv, RowsInv, OrphanBlocks
<1> QED
  BY <1>1, Looped, RowsKept, PTL

\* update_pnl runs at most once for each trade, whichever exit path closes it,
\* when neither Ctrl-C nor a log error cuts the close short.
THEOREM BookedCorrect ==
  ASSUME "interrupt" \notin Faults, "logfail" \notin Faults
  PROVE  Spec => []BookedOnce
<1>1. BookInv => BookedOnce
  BY DEF BookInv, BookedOnce
<1> QED
  BY <1>1, Booked, PTL

\* Every main() reads trades.csv where it always can be read.
LEMMA Readable ==
  ASSUME "unreadable" \notin Faults
  PROVE  Spec => []restored
<1>1. restored /\ [Next]_vars => restored'
  BY DEF Next, Failing, ValidTick, Handler, Trading, Starting, vars, Launch, Boot, BootStops,
     Reconnect, GiveUp, Crash, Interrupt, NetworkError, FatalError, MarketCloses, Stop, Resume,
     CooldownExpires, TickNone, TickInvalid, TickHalted, TickStopped, TickKilled, TickClear,
     ReadTick, HandlerReturns, NothingToDo, SignalFound, EntryBlocked, CooldownMissing,
     CooldownEnds, SendOrder, ExitSignal, OrderFilled, OrderFailed, OrderLogFails,
     TradeRecorded, EntryLogFails, ExitConfirmed, ExitUnconfirmed, ExitLogFails, TradeBooked,
     TradeCleared, RotationLogFails
<1>2. Init => restored
  BY DEF Init
<1> QED
  BY <1>1, <1>2, PTL DEF Spec

\* The EXIT rows of a day never exceed MAX_TRADES_PER_DAY, over restarts and
\* reconnects, although only state_idle looks at the limit, as long as
\* restore_from_trades can read them back.
THEOREM CapCorrect ==
  ASSUME "interrupt" \notin Faults, "logfail" \notin Faults, "unreadable" \notin Faults
  PROVE  Spec => []DailyCap
<1>1. /\ restored /\ TypeInv /\ LoopInv /\ SlotInv /\ BookInv /\ CapInv /\ [Next]_vars
      => CapInv'
  BY CapStep
<1>2. CapInv => DailyCap
  BY DEF CapInv, DailyCap
<1> QED
  BY <1>1, <1>2, Readable, Looped, SlotKept, Booked, InvInit, PTL DEF Spec

\* The bot never sells what it does not hold when Ctrl-C and log errors do not
\* cut a close short, no order is sent twice, and no exit order fills after
\* exit_position has given up on it.
THEOREM HeldCorrect ==
  ASSUME "interrupt" \notin Faults, "logfail" \notin Faults,
         "latefill" \notin Faults, "resend" \notin Faults
  PROVE  Spec => []NeverShort
<1>1. TypeInv /\ SlotInv /\ BookInv /\ HeldInv /\ [Next]_vars => HeldInv'
  BY HeldStep
<1>2. HeldInv => NeverShort
  BY DEF HeldInv, NeverShort
<1> QED
  BY <1>1, <1>2, Typed, SlotKept, Booked, InvInit, PTL DEF Spec

\* An open trade has its row until the close removes it.
RecordInv ==
  pc \in {"loop", "dispatch", "wait", "boot", "sell", "book"} /\ why # "shutdown"
    => (trade # NoTrade => trade \in rows)

\* Every step keeps RecordInv.
LEMMA RecordStep ==
  ASSUME "dbfail" \notin Faults, "logfail" \notin Faults,
         TypeInv, LoopInv, SlotInv, RecordInv, [Next]_vars
  PROVE  RecordInv'
<1> USE DEF TypeInv, ProcessOK, LoopInv, SlotInv, RecordInv,
            NoTrade, Last, Paths, InTry, memory, disk, market, control
<1>1. CASE Launch
  BY <1>1 DEF Launch
<1>2. CASE Starting
  BY <1>2 DEF Starting, Boot, BootStops, Reconnect, GiveUp, OrphanFound,
     RestoredCount, ProcessEnds
<1>3. CASE Crash
  BY <1>3 DEF Crash, CallCutShort, ProcessEnds
<1>4. CASE Interrupt
  BY <1>4 DEF Interrupt, CallCutShort, ProcessEnds
<1>5. CASE NetworkError \/ FatalError \/ MarketCloses
  BY <1>5 DEF NetworkError, FatalError, MarketCloses, ReturnReconnect,
     ProcessEnds
<1>6. CASE Stop \/ Resume \/ CooldownExpires
  BY <1>6 DEF Stop, Resume, CooldownExpires
<1>7. CASE TickNone \/ TickInvalid
  <2>1. CASE TickNone
    BY <2>1 DEF TickNone, BeginExit
  <2>2. CASE TickInvalid
    BY <2>2 DEF TickInvalid, BeginExit
  <2> QED
    BY <1>7, <2>1, <2>2
<1>8. CASE TickHalted \/ TickStopped
  BY <1>8 DEF TickHalted, TickStopped, ReadTick, BeginExit, Halted,
     StopSeen
<1>9. CASE TickKilled
  BY <1>9 DEF TickKilled, ReadTick, BeginExit, Halted, StopSeen, AfterKill
<1>10. CASE TickClear
  BY <1>10 DEF TickClear, ReadTick, Halted, StopSeen
<1>11. CASE NothingToDo \/ SignalFound \/ EntryBlocked
  BY <1>11 DEF NothingToDo, SignalFound, EntryBlocked, HandlerReturns,
     BelowDailyLimit
<1>12. CASE CooldownMissing \/ CooldownEnds
  BY <1>12 DEF CooldownMissing, CooldownEnds, HandlerReturns
<1>13. CASE SendOrder \/ ExitSignal
  BY <1>13 DEF SendOrder, ExitSignal, BeginExit
<1>14. CASE OrderFilled \/ OrderFailed
  BY <1>14 DEF OrderFilled, OrderFailed
<1>15. CASE OrderLogFails
  BY <1>15 DEF OrderLogFails, CallCutShort, ReturnReconnect
<1>16. CASE TradeRecorded \/ EntryLogFails
  BY <1>16 DEF TradeRecorded, EntryLogFails, SavedRows, ReturnReconnect
<1>17. CASE ExitConfirmed
  BY <1>17 DEF ExitConfirmed, Fills
<1>18. CASE ExitUnconfirmed
  BY <1>18 DEF ExitUnconfirmed, ProcessEnds, AfterKill
<1>19. CASE ExitLogFails
  BY <1>19 DEF ExitLogFails, ProcessEnds, ReturnReconnect
<1>20. CASE TradeBooked
  BY <1>20 DEF TradeBooked
<1>21. CASE TradeCleared
  BY <1>21 DEF TradeCleared, ProcessEnds, AfterClose, AfterExit, AfterKill
<1>22. CASE RotationLogFails
  BY <1>22 DEF RotationLogFails, ReturnReconnect
<1>23. CASE UNCHANGED vars
  BY <1>23 DEF vars
<1> QED
  BY <1>1, <1>2, <1>3, <1>4, <1>5, <1>6, <1>7, <1>8, <1>9, <1>10, <1>11, <1>12,
     <1>13, <1>14, <1>15, <1>16, <1>17, <1>18, <1>19, <1>20, <1>21, <1>22, <1>23
  DEF Next, Failing, ValidTick, Handler, Trading

\* Every trade the loop sees open has its ACTIVE row, so that the next main()
\* finds it after a crash, when the database and the log writes work.
THEOREM RecordCorrect ==
  ASSUME "dbfail" \notin Faults, "logfail" \notin Faults
  PROVE  Spec => []OpenTradeOnRecord
<1>1. TypeInv /\ LoopInv /\ SlotInv /\ RecordInv /\ [Next]_vars => RecordInv'
  BY RecordStep
<1>2. Init => RecordInv
  BY DEF Init, RecordInv
<1>3. LoopInv /\ RecordInv => OpenTradeOnRecord
  BY DEF LoopInv, RecordInv, OpenTradeOnRecord, Last
<1> QED
  BY <1>1, <1>2, <1>3, Looped, SlotKept, PTL DEF Spec

\* A crash neither forgets a position nor doubles it, when the database and the
\* log writes work.
THEOREM RecordsGuard ==
  ASSUME "dbfail" \notin Faults, "logfail" \notin Faults
  PROVE  Spec => []RecordGuards
  BY RecordCorrect, OrphanCorrect, PTL DEF RecordGuards

\* The slot of PositionSlot: a trade that is booked has left it.
OpenSlot == IF pc = "clear" THEN NoTrade ELSE trade

\* The four ways a step of the session can move the slot.
StaysPut == OpenSlot' = OpenSlot /\ UNCHANGED <<nextOrder, booked>>
Loses    == OpenSlot # NoTrade /\ OpenSlot' = NoTrade /\ UNCHANGED <<nextOrder, booked>>
Opens   ==
  /\ OpenSlot = NoTrade /\ nextOrder \in Orders
  /\ nextOrder' = nextOrder + 1
  /\ OpenSlot' \in {nextOrder, NoTrade}
  /\ UNCHANGED booked
Settles  ==
  /\ OpenSlot = trade /\ trade \in Orders /\ OpenSlot' = NoTrade
  /\ booked' = [booked EXCEPT ![trade] = @ + 1]
  /\ UNCHANGED nextOrder

\* Every step of the session moves the slot in one of the four ways.
LEMMA SlotMoves ==
  ASSUME "interrupt" \notin Faults, "logfail" \notin Faults,
         TypeInv, SlotInv, [Next]_vars
  PROVE  StaysPut \/ Loses \/ Opens \/ Settles
<1> USE BoundsAssumption
    DEF TypeInv, ProcessOK, OutsideOK, SlotInv, OpenSlot, StaysPut, Loses, Opens, Settles,
        Orders, NoTrade, Last, Paths, InTry, memory, disk, market, control
<1>1. CASE Launch
  BY <1>1 DEF Launch
<1>2. CASE Starting
  BY <1>2 DEF Starting, Boot, BootStops, Reconnect, GiveUp, OrphanFound,
     RestoredCount, ProcessEnds
<1>3. CASE Crash
  BY <1>3 DEF Crash, CallCutShort, ProcessEnds
<1>4. CASE Interrupt
  BY <1>4 DEF Interrupt, CallCutShort, ProcessEnds
<1>5. CASE NetworkError \/ FatalError \/ MarketCloses
  BY <1>5 DEF NetworkError, FatalError, MarketCloses, ReturnReconnect,
     ProcessEnds
<1>6. CASE Stop \/ Resume \/ CooldownExpires
  BY <1>6 DEF Stop, Resume, CooldownExpires
<1>7. CASE TickNone \/ TickInvalid
  BY <1>7 DEF TickNone, TickInvalid, BeginExit
<1>8. CASE TickHalted \/ TickStopped
  BY <1>8 DEF TickHalted, TickStopped, ReadTick, BeginExit, Halted,
     StopSeen
<1>9. CASE TickKilled
  BY <1>9 DEF TickKilled, ReadTick, BeginExit, Halted, StopSeen, AfterKill
<1>10. CASE TickClear
  BY <1>10 DEF TickClear, ReadTick, Halted, StopSeen
<1>11. CASE NothingToDo \/ SignalFound \/ EntryBlocked
  BY <1>11 DEF NothingToDo, SignalFound, EntryBlocked, HandlerReturns,
     BelowDailyLimit
<1>12. CASE CooldownMissing \/ CooldownEnds
  BY <1>12 DEF CooldownMissing, CooldownEnds, HandlerReturns
<1>13. CASE SendOrder \/ ExitSignal
  BY <1>13 DEF SendOrder, ExitSignal, BeginExit
<1>14. CASE OrderFilled \/ OrderFailed
  <2>1. CASE OrderFilled
    BY <2>1 DEF OrderFilled
  <2>2. CASE OrderFailed
    BY <2>2 DEF OrderFailed
  <2> QED
    BY <1>14, <2>1, <2>2
<1>15. CASE OrderLogFails
  BY <1>15 DEF OrderLogFails, CallCutShort, ReturnReconnect
<1>16. CASE TradeRecorded \/ EntryLogFails
  BY <1>16 DEF TradeRecorded, EntryLogFails, SavedRows, ReturnReconnect
<1>17. CASE ExitConfirmed
  BY <1>17 DEF ExitConfirmed, Fills
<1>18. CASE ExitUnconfirmed
  BY <1>18 DEF ExitUnconfirmed, ProcessEnds, AfterKill
<1>19. CASE ExitLogFails
  BY <1>19 DEF ExitLogFails, ProcessEnds, ReturnReconnect
<1>20. CASE TradeBooked
  BY <1>20 DEF TradeBooked
<1>21. CASE TradeCleared
  BY <1>21 DEF TradeCleared, ProcessEnds, AfterClose, AfterExit, AfterKill
<1>22. CASE RotationLogFails
  BY <1>22 DEF RotationLogFails, ReturnReconnect
<1>23. CASE UNCHANGED vars
  BY <1>23 DEF vars
<1> QED
  BY <1>1, <1>2, <1>3, <1>4, <1>5, <1>6, <1>7, <1>8, <1>9, <1>10, <1>11, <1>12,
     <1>13, <1>14, <1>15, <1>16, <1>17, <1>18, <1>19, <1>20, <1>21, <1>22, <1>23
  DEF Next, Failing, ValidTick, Handler, Trading

\* Each of the four ways is a step of PositionSlot, or no step.
LEMMA SlotSteps ==
  ASSUME TypeInv, StaysPut \/ Loses \/ Opens \/ Settles
  PROVE  [Slot!Next]_<<OpenSlot, 1..(nextOrder - 1), {o \in Orders : booked[o] > 0}>>
<1> USE DEF OpenSlot, Slot!Next, Slot!Open, Slot!Stray, Slot!Settle, Slot!Lose
<1>1. CASE StaysPut
  BY <1>1 DEF StaysPut
<1>2. CASE Loses
  BY <1>2 DEF Loses
<1>3. CASE Opens
  <2>1. /\ nextOrder \notin 1..(nextOrder - 1)
        /\ (1..(nextOrder - 1))' = 1..(nextOrder - 1) \cup {nextOrder}
    BY <1>3 DEF Opens, Orders, TypeInv, OutsideOK
  <2>2. UNCHANGED {o \in Orders : booked[o] > 0}
    BY <1>3 DEF Opens
  <2> QED
    BY <1>3, <2>1, <2>2 DEF Opens
<1>4. CASE Settles
  <2>1. {o \in Orders : booked[o] > 0}'
          = {o \in Orders : booked[o] > 0} \cup {trade}
    BY <1>4 DEF Settles, TypeInv, ProcessOK
  <2>2. trade # NoTrade
    BY <1>4, BoundsAssumption DEF Settles, Orders, NoTrade
  <2> QED
    BY <1>4, <2>1, <2>2 DEF Settles
<1> QED
  BY <1>1, <1>2, <1>3, <1>4

\* The trading session implements PositionSlot: one slot, each trade opened at
\* most once, and settled only from the slot.
THEOREM SlotCorrect ==
  ASSUME "interrupt" \notin Faults, "logfail" \notin Faults
  PROVE  Spec => SlotImplemented
<1>1. Init => Slot!Init
  BY BoundsAssumption DEF Init, Slot!Init, Orders, NoTrade
<1>2. TypeInv /\ SlotInv /\ [Next]_vars
        => [Slot!Next]_<<OpenSlot, 1..(nextOrder - 1), {o \in Orders : booked[o] > 0}>>
  BY SlotMoves, SlotSteps
<1>3. TypeInv /\ SlotInv /\ [Next]_vars
        => [Slot!Next]_<<IF pc = "clear" THEN NoTrade ELSE trade, 1..(nextOrder - 1),
                         {o \in Orders : booked[o] > 0}>>
  BY <1>2 DEF OpenSlot
<1> QED
  BY <1>1, <1>3, Typed, SlotKept, PTL DEF Spec, SlotImplemented, Slot!Spec

\* Each trade is booked at most once and the day's limit holds, over restarts, where the
\* rows of the day can be read back.
THEOREM TradesAreAccounted ==
  ASSUME "interrupt" \notin Faults, "logfail" \notin Faults, "unreadable" \notin Faults
  PROVE  Spec => []TradesAccounted
  BY BookedCorrect, CapCorrect, PTL DEF TradesAccounted

\* An open trade is managed or under review, and its row outlives the process.
THEOREM OpenTradesAreGuarded ==
  ASSUME "dbfail" \notin Faults, "logfail" \notin Faults
  PROVE  Spec => []OpenTradesGuarded
  BY SupervisionCorrect, RecordsGuard, PTL DEF OpenTradesGuarded


-----------------------------------------------------------------------------
(* The REST client of the broker.                                           *)
Shown == Premiums \cup {0, -1, -2}
RestCalls ==
  [op : {"search", "resolved", "plain", "ltp", "many"}, s : Rest!Contracts \cup {None},
   try : 0..(Tries - 1), who : {"tick", "order", "scan", "other"}, token : Tokens \cup {None}]

\* The breaker counts the failures in a row, and is open for as many as open it.
BreakerFit ==
  /\ now \in 0..MaxTime /\ errors \in Nat /\ streak = errors /\ openedAt \in Nat
  /\ coolUntil \in Int
  /\ now < coolUntil => openedAt >= Threshold

\* What is cached was said by the broker and nothing else since.
NamesFit ==
  /\ tokenCache \in [Rest!Contracts -> [token : Tokens, until : Int] \cup {None}]
  /\ tokenMap \in [Rest!Contracts -> Tokens \cup {None}]
  /\ answered \in [Rest!Contracts -> [token : Tokens, at : Int] \cup {None}]
  /\ \A s \in Rest!Contracts :
       tokenCache[s] # None => /\ answered[s] # None
                               /\ tokenCache[s].token = answered[s].token
                               /\ tokenCache[s].until = answered[s].at + Ttl

\* A token in hand is one the broker would still give.
Current(s, t) == answered[s] # None /\ answered[s].token = t /\ now <= answered[s].at + Ttl
CallFit ==
  /\ call \in RestCalls \cup {None} /\ answer \in Shown \cup {None}
  /\ call # None =>
       /\ call.op \in {"search", "resolved"} => call.s \in Rest!Contracts
       /\ call.op \in {"search", "ltp"} => ~(now < coolUntil)
       /\ call.op = "resolved" /\ call.who = "tick" => Current(call.s, call.token)

\* What a search has settled on so far is the nearest of what it has seen.
InReach(list) == {k \in 1..Len(list) : list[k] \in Premiums /\ Rest!InRange(list[k])}
Settled(b, p, list) ==
  /\ (b = None) = (InReach(list) = {})
  /\ b # None => \E k \in InReach(list) :
       /\ b = Strikes[k] /\ p = list[k]
       /\ \A j \in InReach(list) : Rest!Distance(list[k]) <= Rest!Distance(list[j])
Nearest(c) ==
  /\ c \in [k : 1..(Len(Strikes) + 1), best : Rest!Contracts \cup {None},
             premium : Premiums \cup {None}, seen : Seq(Shown)]
  /\ Len(c.seen) = c.k - 1 /\ Settled(c.best, c.premium, c.seen)
ScanFit == scan # None => Nearest(scan)

RestFit ==
  /\ BreakerFit /\ NamesFit /\ CallFit /\ ScanFit
  /\ loggedIn => order # "none"

\* A step of the breaker, or time that passes, leaves it consistent.
LEMMA BreakerStays ==
  ASSUME BreakerFit,
         \/ (Rest!Worked \/ Rest!Failed) /\ now' = now
         \/ UNCHANGED <<errors, coolUntil, streak, openedAt>> /\ now' \in now..MaxTime
  PROVE  BreakerFit'
<1>1. Threshold \in Nat \ {0} /\ BreakerCooldown \in Nat /\ MaxTime \in Nat
  BY RestAssumption
<1>2. CASE Rest!Worked /\ now' = now
  BY <1>1, <1>2 DEF BreakerFit, Rest!Worked
<1>3. CASE Rest!Failed /\ now' = now
  BY <1>1, <1>3 DEF BreakerFit, Rest!Failed
<1>4. CASE UNCHANGED <<errors, coolUntil, streak, openedAt>> /\ now' \in now..MaxTime
  BY <1>1, <1>4 DEF BreakerFit
<1> QED
  BY <1>2, <1>3, <1>4

\* An open breaker stays open as long as nothing fails, and lets no time run back.
LEMMA StillShut ==
  ASSUME BreakerFit, ~(now < coolUntil), Rest!Worked \/ UNCHANGED coolUntil,
         now' \in now..MaxTime
  PROVE  ~(now' < coolUntil')
<1>1. coolUntil' = coolUntil
  BY DEF Rest!Worked
<1> QED
  BY <1>1 DEF BreakerFit

LEMMA NamesStay ==
  ASSUME NamesFit, UNCHANGED <<tokenCache, tokenMap, answered>>
  PROVE  NamesFit'
  BY DEF NamesFit

\* A lookup asks the cache first; it forgets what has run out and asks only while the
\* breaker is shut.
LEMMA LookupKeeps ==
  ASSUME RestFit, NEW s \in Rest!Contracts, NEW who \in {"tick", "order", "scan", "other"},
         Rest!Lookup(s, who), UNCHANGED <<now, coolUntil>>,
         \/ UNCHANGED tokenMap
         \/ tokenMap' = IF Rest!CacheValid(s) THEN [tokenMap EXCEPT ![s] = tokenCache[s].token]
                        ELSE tokenMap
  PROVE  NamesFit' /\ CallFit'
<1>1. /\ tokenCache \in [Rest!Contracts -> [token : Tokens, until : Int] \cup {None}]
      /\ answered \in [Rest!Contracts -> [token : Tokens, at : Int] \cup {None}]
      /\ tokenMap \in [Rest!Contracts -> Tokens \cup {None}]
      /\ now \in Int /\ coolUntil \in Int /\ Tries \in Nat \ {0} /\ 0 \in Shown
  BY RestAssumption DEF RestFit, NamesFit, BreakerFit, Shown
<1>2. CASE Rest!CacheValid(s)
  <2>1. /\ UNCHANGED <<tokenCache, answered>> /\ answer' = None
        /\ call' = [op |-> "resolved", s |-> s, try |-> 0, who |-> who,
                    token |-> tokenCache[s].token]
    BY <1>2 DEF Rest!Lookup, Rest!Resolved
  <2>2. /\ tokenCache[s] # None /\ now < tokenCache[s].until /\ answered[s] # None
        /\ tokenCache[s].token = answered[s].token
        /\ tokenCache[s].until = answered[s].at + Ttl
    BY <1>2 DEF Rest!CacheValid, RestFit, NamesFit
  <2>3. tokenCache[s].token \in Tokens /\ tokenCache[s].until \in Int
    BY <1>1, <2>2
  <2>4. NamesFit'
    <3>1. CASE UNCHANGED tokenMap
      BY <3>1, <2>1 DEF RestFit, NamesFit
    <3>2. CASE tokenMap' = [tokenMap EXCEPT ![s] = tokenCache[s].token]
      <4>1. tokenMap' \in [Rest!Contracts -> Tokens \cup {None}]
        BY <3>2, <1>1, <2>3
      <4> QED BY <4>1, <2>1 DEF RestFit, NamesFit
    <3> QED BY <3>1, <3>2, <1>2
  <2>5. CallFit'
    <3>1. call' \in RestCalls
      BY <2>1, <2>3, <1>1 DEF RestCalls
    <3>2. Current(s, tokenCache[s].token)'
      BY <2>1, <2>2, <2>3, <1>1 DEF Current
    <3>3. /\ call'.op = "resolved" /\ call'.s = s /\ call'.token = tokenCache[s].token
      BY <2>1
    <3> QED BY <3>1, <3>2, <3>3, <2>1 DEF CallFit
  <2> QED BY <2>4, <2>5
<1>3. CASE ~Rest!CacheValid(s)
  <2>1. /\ tokenCache' = [tokenCache EXCEPT ![s] = None] /\ UNCHANGED <<answered, tokenMap>>
        /\ IF now < coolUntil THEN call' = None /\ answer' = 0
           ELSE /\ call' = [op |-> "search", s |-> s, try |-> 0, who |-> who, token |-> None]
                /\ answer' = None
    BY <1>3 DEF Rest!Lookup, Rest!Returns, Rest!Nothing, Rest!Cooling
  <2>2. NamesFit'
    <3>1. tokenCache' \in [Rest!Contracts -> [token : Tokens, until : Int] \cup {None}]
      BY <2>1, <1>1
    <3>2. \A r \in Rest!Contracts : tokenCache'[r] # None => tokenCache'[r] = tokenCache[r]
      BY <2>1, <1>1
    <3> QED BY <3>1, <3>2, <2>1 DEF RestFit, NamesFit
  <2>3. CASE now < coolUntil
    BY <2>1, <2>2, <2>3, <1>1 DEF CallFit
  <2>4. CASE ~(now < coolUntil)
    <3>1. call' \in RestCalls /\ call'.op = "search" /\ call'.s = s
      BY <2>1, <2>4, <1>1 DEF RestCalls
    <3> QED BY <3>1, <2>1, <2>2, <2>4 DEF CallFit
  <2> QED BY <2>2, <2>3, <2>4
<1> QED
  BY <1>2, <1>3

\* The strike search takes the token from the map, or looks it up and keeps it there.
LEMMA GetTokenKeeps ==
  ASSUME RestFit, NEW s \in Rest!Contracts, Rest!GetToken(s), UNCHANGED <<now, coolUntil>>
  PROVE  NamesFit' /\ CallFit'
<1>1. CASE tokenMap[s] # None
  <2>1. /\ UNCHANGED <<tokenCache, tokenMap, answered>> /\ answer' = None
        /\ call' = [op |-> "resolved", s |-> s, try |-> 0, who |-> "scan",
                    token |-> tokenMap[s]]
    BY <1>1 DEF Rest!GetToken, Rest!Resolved, Rest!names
  <2>2. tokenMap[s] \in Tokens /\ 0 \in 0..(Tries - 1)
    BY <1>1, RestAssumption DEF RestFit, NamesFit
  <2>3. /\ call' \in RestCalls /\ call'.op = "resolved" /\ call'.who = "scan" /\ call'.s = s
    BY <2>1, <2>2 DEF RestCalls
  <2>4. NamesFit'
    BY <2>1, NamesStay DEF RestFit
  <2>5. CallFit'
    BY <2>1, <2>3 DEF CallFit
  <2> QED BY <2>4, <2>5
<1>2. CASE tokenMap[s] = None
  BY <1>2, LookupKeeps DEF Rest!GetToken
<1> QED
  BY <1>1, <1>2

\* The bot's own moves: login and logout, the next request, time.
LEMMA MovesKeep ==
  ASSUME RestFit,
         \/ Rest!Login \/ Rest!Refresh \/ Rest!Logout \/ Rest!TakeAnswer \/ Rest!Wait
         \/ \E op \in {"many", "plain"} : Rest!AskOther(op)
  PROVE  RestFit'
<1> USE DEF Rest!breaker, Rest!names, Rest!login
<1>1. Tries \in Nat \ {0} /\ MaxTime \in Nat
  BY RestAssumption
<1>2. CASE Rest!Login \/ Rest!Refresh \/ Rest!Logout
  <2>1. /\ UNCHANGED <<now, errors, coolUntil, streak, openedAt, tokenCache, tokenMap, answered,
                       call, answer, scan>>
        /\ (loggedIn => order # "none") => (loggedIn' => order' # "none")
    BY <1>2 DEF Rest!Login, Rest!Refresh, Rest!Logout
  <2>2. BreakerFit' /\ NamesFit'
    BY <2>1, <1>1 DEF RestFit, BreakerFit, NamesFit
  <2>3. CallFit' /\ ScanFit'
    BY <2>1 DEF RestFit, CallFit, ScanFit, Current
  <2> QED BY <2>1, <2>2, <2>3 DEF RestFit
<1>3. CASE Rest!TakeAnswer
  <2>1. /\ UNCHANGED <<now, errors, coolUntil, streak, openedAt, tokenCache, tokenMap, answered,
                       call, scan, order, loggedIn>>
        /\ answer' = None
    BY <1>3 DEF Rest!TakeAnswer
  <2>2. BreakerFit' /\ NamesFit'
    BY <2>1, <1>1 DEF RestFit, BreakerFit, NamesFit
  <2>3. CallFit' /\ ScanFit'
    BY <2>1 DEF RestFit, CallFit, ScanFit, Current
  <2> QED BY <2>1, <2>2, <2>3 DEF RestFit
<1>4. CASE Rest!Wait
  <2>1. /\ UNCHANGED <<errors, coolUntil, streak, openedAt, tokenCache, tokenMap, answered,
                       call, answer, scan, order, loggedIn>>
        /\ call = None /\ now' = now + 1 /\ now < MaxTime
    BY <1>4 DEF Rest!Wait
  <2>2. BreakerFit' /\ NamesFit'
    BY <2>1, <1>1, BreakerStays DEF RestFit, BreakerFit, NamesFit
  <2>3. CallFit' /\ ScanFit'
    BY <2>1 DEF RestFit, CallFit, ScanFit
  <2> QED BY <2>1, <2>2, <2>3 DEF RestFit
<1>5. ASSUME NEW op \in {"many", "plain"}, Rest!AskOther(op) PROVE RestFit'
  <2>1. /\ UNCHANGED <<now, errors, coolUntil, streak, openedAt, tokenCache, tokenMap, answered,
                       answer, scan, order, loggedIn>>
        /\ call' = [op |-> op, s |-> None, try |-> 0, who |-> "other", token |-> None]
    BY <1>5 DEF Rest!AskOther
  <2>2. BreakerFit' /\ NamesFit'
    BY <2>1, <1>1 DEF RestFit, BreakerFit, NamesFit
  <2>3. /\ call' \in RestCalls /\ call'.op \in {"many", "plain"}
    BY <2>1, <1>1 DEF RestCalls
  <2>4. CallFit' /\ ScanFit'
    BY <2>1, <2>3 DEF RestFit, CallFit, ScanFit
  <2> QED BY <2>1, <2>2, <2>4 DEF RestFit
<1> QED
  BY <1>2, <1>3, <1>4, <1>5

\* The broker's answer to a search: the contract's token, kept with the time it was given.
LEMMA SearchKeeps == ASSUME RestFit, Rest!SearchAnswered PROVE RestFit'
<1>1. /\ Tries \in Nat \ {0} /\ MaxTime \in Nat /\ Ttl \in Nat /\ now \in 0..MaxTime
      /\ None \notin [token : Tokens, at : Int] /\ 0 \in Shown
      /\ call \in RestCalls /\ call.op = "search" /\ call.s \in Rest!Contracts
  BY RestAssumption DEF RestFit, BreakerFit, CallFit, Rest!SearchAnswered, Shown
<1>2. UNCHANGED <<now, order, loggedIn, scan>>
  BY DEF Rest!SearchAnswered, Rest!login
<1>3. ScanFit' /\ (loggedIn' => order' # "none")
  BY <1>2 DEF RestFit, ScanFit
<1>4. ASSUME NEW t \in Tokens, Rest!Worked,
             tokenCache' = [tokenCache EXCEPT ![call.s] = [token |-> t, until |-> now + Ttl]],
             answered' = [answered EXCEPT ![call.s] = [token |-> t, at |-> now]],
             tokenMap' = IF call.who = "scan" THEN [tokenMap EXCEPT ![call.s] = t] ELSE tokenMap,
             call' = [call EXCEPT !.op = "resolved", !.token = t], UNCHANGED answer
      PROVE  RestFit'
  <2> DEFINE c == [token |-> t, until |-> now + Ttl]
             a == [token |-> t, at |-> now]
  <2>1. /\ c \in [token : Tokens, until : Int] /\ a \in [token : Tokens, at : Int] /\ a # None
        /\ c.token = t /\ c.until = now + Ttl /\ a.token = t /\ a.at = now
    BY <1>1
  <2>2. /\ tokenCache \in [Rest!Contracts -> [token : Tokens, until : Int] \cup {None}]
        /\ answered \in [Rest!Contracts -> [token : Tokens, at : Int] \cup {None}]
        /\ tokenMap \in [Rest!Contracts -> Tokens \cup {None}]
    BY DEF RestFit, NamesFit
  <2> HIDE DEF c, a
  <2>3. /\ tokenCache' = [tokenCache EXCEPT ![call.s] = c]
        /\ answered' = [answered EXCEPT ![call.s] = a]
    BY <1>4 DEF c, a
  <2>4. /\ tokenCache' \in [Rest!Contracts -> [token : Tokens, until : Int] \cup {None}]
        /\ answered' \in [Rest!Contracts -> [token : Tokens, at : Int] \cup {None}]
        /\ tokenMap' \in [Rest!Contracts -> Tokens \cup {None}]
    BY <2>1, <2>2, <2>3, <1>1, <1>4
  <2>5. ASSUME NEW s \in Rest!Contracts
        PROVE  tokenCache'[s] # None => /\ answered'[s] # None
                                        /\ tokenCache'[s].token = answered'[s].token
                                        /\ tokenCache'[s].until = answered'[s].at + Ttl
    <3>1. CASE s = call.s
      BY <3>1, <2>1, <2>2, <2>3
    <3>2. CASE s # call.s
      <4>1. /\ tokenCache'[s] = tokenCache[s] /\ answered'[s] = answered[s]
            /\ tokenMap'[s] = tokenMap[s]
        BY <3>2, <2>2, <2>3, <1>4
      <4> QED BY <4>1 DEF RestFit, NamesFit
    <3> QED BY <3>1, <3>2
  <2>6. NamesFit'
    BY <2>4, <2>5 DEF NamesFit
  <2>7. BreakerFit'
    BY <1>2, <1>4, BreakerStays DEF RestFit
  <2>8. call' = [op |-> "resolved", s |-> call.s, try |-> call.try, who |-> call.who,
                 token |-> t]
    BY <1>1, <1>4 DEF RestCalls
  <2>9. /\ call' \in RestCalls /\ call'.op = "resolved" /\ call'.s = call.s /\ call'.token = t
    BY <2>8, <1>1 DEF RestCalls
  <2>10. /\ answered'[call.s] # None /\ answered'[call.s].token = t
         /\ now' <= answered'[call.s].at + Ttl
    BY <2>1, <2>2, <2>3, <1>1, <1>2
  <2>11. ASSUME call'.who = "tick" PROVE Current(call.s, call.token)'
    BY <2>9, <2>10 DEF Current
  <2>12. CallFit'
    BY <2>9, <2>11, <1>1, <1>4 DEF RestFit, CallFit
  <2> QED BY <2>6, <2>7, <2>12, <1>3 DEF RestFit
<1>5. CASE /\ call' = None /\ answer' = 0
           /\ \/ UNCHANGED <<errors, coolUntil, streak, openedAt>>
              \/ Rest!Failed
           /\ UNCHANGED <<tokenCache, tokenMap, answered>>
  <2>1. BreakerFit'
    BY <1>1, <1>2, <1>5, BreakerStays DEF RestFit
  <2>2. NamesFit'
    BY <1>5, NamesStay DEF RestFit
  <2>3. CallFit'
    BY <1>5, <1>1 DEF CallFit
  <2> QED BY <2>1, <2>2, <2>3, <1>3 DEF RestFit
<1> QED
  BY <1>4, <1>5 DEF Rest!SearchAnswered, Rest!Returns, Rest!Nothing, Rest!breaker, Rest!names

\* The answers to the other requests, and a request that goes on.
LEMMA AnswersKeep ==
  ASSUME RestFit,
         \/ Rest!Proceed \/ Rest!Denied \/ Rest!LtpAnswered \/ Rest!ManyAnswered
         \/ Rest!PlainAnswered
  PROVE  RestFit'
<1> USE DEF Rest!breaker, Rest!names, Rest!login
<1>1. /\ Tries \in Nat \ {0} /\ MaxTime \in Nat /\ now \in 0..MaxTime
      /\ call \in RestCalls /\ {0, -1, -2} \subseteq Shown /\ Premiums \subseteq Shown
      /\ call.try \in 0..(Tries - 1)
  BY RestAssumption
     DEF RestFit, BreakerFit, CallFit, Shown, RestCalls, Rest!Proceed, Rest!Denied,
         Rest!LtpAnswered, Rest!ManyAnswered, Rest!PlainAnswered
<1>2. UNCHANGED <<tokenCache, tokenMap, answered, order, loggedIn, scan>>
  BY DEF Rest!Proceed, Rest!Denied, Rest!LtpAnswered, Rest!ManyAnswered, Rest!PlainAnswered
<1>3. NamesFit' /\ ScanFit' /\ (loggedIn' => order' # "none")
  BY <1>2, NamesStay DEF RestFit, ScanFit
<1>4. CASE /\ call' = None /\ answer' \in Shown /\ now' \in now..MaxTime
           /\ \/ UNCHANGED <<errors, coolUntil, streak, openedAt>>
              \/ (Rest!Worked \/ Rest!Failed) /\ now' = now
  <2>1. BreakerFit'
    BY <1>4, BreakerStays DEF RestFit
  <2>2. CallFit'
    BY <1>4 DEF CallFit
  <2> QED BY <2>1, <2>2, <1>3 DEF RestFit
<1>5. ASSUME NEW op \in {"plain", "ltp", "many"}, NEW n \in 0..(Tries - 1),
             call' = [call EXCEPT !.op = op, !.try = n], UNCHANGED answer,
             UNCHANGED <<errors, coolUntil, streak, openedAt>>, now' \in now..MaxTime,
             op = "ltp" => ~(now < coolUntil)
      PROVE  RestFit'
  <2>1. BreakerFit'
    BY <1>5, BreakerStays DEF RestFit
  <2>2. call' = [op |-> op, s |-> call.s, try |-> n, who |-> call.who, token |-> call.token]
    BY <1>1, <1>5 DEF RestCalls
  <2>3. call' \in RestCalls /\ call'.op = op
    BY <2>2, <1>1 DEF RestCalls
  <2>4. op = "ltp" => ~(now' < coolUntil')
    BY <1>5, StillShut DEF RestFit
  <2>5. CallFit'
    BY <2>3, <2>4, <1>5 DEF RestFit, CallFit
  <2> QED BY <2>1, <2>5, <1>3 DEF RestFit
<1>6. now \in now..MaxTime
  BY <1>1
<1>7. ASSUME NEW op, NEW n, call.op = op, call.try = n
      PROVE  /\ [call EXCEPT !.try = @ + 1] = [call EXCEPT !.op = op, !.try = n + 1]
             /\ \A x : [call EXCEPT !.op = x] = [call EXCEPT !.op = x, !.try = n]
  BY <1>1, <1>7 DEF RestCalls
<1>8. CASE Rest!Proceed
  <2>1. /\ call.op = "resolved" /\ now' = now /\ UNCHANGED <<errors, coolUntil, streak, openedAt>>
        /\ \/ call' = [call EXCEPT !.op = "plain"] /\ UNCHANGED answer
           \/ call' = None /\ answer' = 0
           \/ ~(now < coolUntil) /\ call' = [call EXCEPT !.op = "ltp"] /\ UNCHANGED answer
    BY <1>8 DEF Rest!Proceed, Rest!Returns, Rest!Nothing, Rest!Cooling
  <2> QED BY <2>1, <1>1, <1>4, <1>5, <1>6, <1>7
<1>9. CASE Rest!Denied
  <2>1. /\ call.op \in {"ltp", "many"} /\ UNCHANGED <<errors, coolUntil, streak, openedAt>>
        /\ now' = Rest!Later(now + RetryWaits[call.try + 1])
        /\ \/ call.try + 1 < Tries /\ call' = [call EXCEPT !.try = @ + 1] /\ UNCHANGED answer
           \/ call' = None /\ answer' = 0
    BY <1>9 DEF Rest!Denied, Rest!Retried, Rest!Returns, Rest!Nothing
  <2>2. now' \in now..MaxTime
    <3>1. RetryWaits[call.try + 1] \in Nat
      BY <1>1, RestAssumption
    <3> QED BY <3>1, <2>1, <1>1 DEF Rest!Later
  <2>3. call.op = "ltp" => ~(now < coolUntil)
    BY <1>9 DEF RestFit, CallFit, Rest!Denied
  <2>4. call.try + 1 < Tries => call.try + 1 \in 0..(Tries - 1)
    BY <1>1
  <2> QED BY <2>1, <2>2, <2>3, <2>4, <1>1, <1>4, <1>5, <1>7
<1>10. CASE Rest!LtpAnswered
  <2>1. /\ now' = now /\ call' = None /\ answer' \in Shown
        /\ UNCHANGED <<errors, coolUntil, streak, openedAt>> \/ Rest!Worked \/ Rest!Failed
    BY <1>1, <1>10 DEF Rest!LtpAnswered, Rest!Returns, Rest!Nothing, Rest!Raised
  <2> QED BY <2>1, <1>4, <1>6
<1>11. CASE Rest!ManyAnswered
  <2>1. /\ now' = now /\ UNCHANGED <<errors, coolUntil, streak, openedAt>> /\ call.op = "many"
        /\ \/ call' = None /\ answer' \in Shown
           \/ call.try + 1 < Tries /\ call' = [call EXCEPT !.try = @ + 1] /\ UNCHANGED answer
    BY <1>1, <1>11 DEF Rest!ManyAnswered, Rest!Returns, Rest!Nothing, Rest!Raised, Rest!Served
  <2>2. call.try + 1 < Tries => call.try + 1 \in 0..(Tries - 1)
    BY <1>1
  <2> QED BY <2>1, <2>2, <1>1, <1>4, <1>5, <1>6, <1>7
<1>12. CASE Rest!PlainAnswered
  <2>1. /\ now' = now /\ UNCHANGED <<errors, coolUntil, streak, openedAt>>
        /\ call' = None /\ answer' \in Shown
    BY <1>1, <1>12 DEF Rest!PlainAnswered, Rest!Returns, Rest!Nothing, Rest!Raised, Rest!Served
  <2> QED BY <2>1, <1>4, <1>6
<1> QED
  BY <1>8, <1>9, <1>10, <1>11, <1>12

\* A price or an order starts with a lookup, or with a token that is given.
LEMMA RequestsKeep ==
  ASSUME RestFit, NEW s \in Rest!Contracts, Rest!AskPrice(s) \/ Rest!PlaceOrder(s)
  PROVE  RestFit'
<1> USE DEF Rest!breaker, Rest!login
<1>1. /\ UNCHANGED <<now, errors, coolUntil, streak, openedAt, tokenMap, order, loggedIn, scan>>
      /\ Tries \in Nat \ {0} /\ -1 \in Shown /\ now \in now..MaxTime
  BY RestAssumption DEF Rest!AskPrice, Rest!PlaceOrder, Shown, RestFit, BreakerFit
<1>2. BreakerFit' /\ ScanFit' /\ (loggedIn' => order' # "none")
  BY <1>1, BreakerStays DEF RestFit, ScanFit
<1>3. NamesFit' /\ CallFit'
  <2>1. CASE Rest!Lookup(s, "tick") \/ Rest!Lookup(s, "order")
    BY <2>1, <1>1, LookupKeeps
  <2>2. CASE /\ UNCHANGED <<tokenCache, answered>>
             /\ call' = None /\ answer' = -1
    BY <2>2, <1>1, NamesStay DEF RestFit, CallFit
  <2>3. CASE /\ UNCHANGED <<tokenCache, answered>> /\ tokenMap[s] # None /\ answer' = None
             /\ call' = [op |-> "resolved", s |-> s, try |-> 0, who |-> "order",
                         token |-> tokenMap[s]]
    <3>1. tokenMap[s] \in Tokens /\ 0 \in 0..(Tries - 1)
      BY <2>3, <1>1 DEF RestFit, NamesFit
    <3>2. /\ call' \in RestCalls /\ call'.op = "resolved" /\ call'.who = "order" /\ call'.s = s
      BY <2>3, <3>1 DEF RestCalls
    <3>3. CallFit'
      BY <2>3, <3>2 DEF CallFit
    <3> QED BY <3>3, <2>3, <1>1, NamesStay DEF RestFit
  <2> QED
    BY <2>1, <2>2, <2>3 DEF Rest!AskPrice, Rest!PlaceOrder, Rest!Returns, Rest!Raised,
                            Rest!Resolved
<1> QED
  BY <1>2, <1>3 DEF RestFit

\* A strike that has been priced is kept when it is in range and nearer than the one before.
LEMMA NearestGrows ==
  ASSUME Nearest(scan), NEW x \in Shown, scan.k <= Len(Strikes),
         scan' = [scan EXCEPT !.seen = Append(@, x), !.k = @ + 1,
                              !.best = IF Rest!Better(x) THEN Strikes[scan.k] ELSE @,
                              !.premium = IF Rest!Better(x) THEN x ELSE @]
  PROVE  Nearest(scan')
<1> DEFINE list == scan.seen
           longer == Append(list, x)
           n == Len(list)
           reach == x \in Premiums /\ Rest!InRange(x)
           b == IF Rest!Better(x) THEN Strikes[scan.k] ELSE scan.best
           p == IF Rest!Better(x) THEN x ELSE scan.premium
           D(v) == Rest!Distance(v)
<1>1. /\ Len(Strikes) \in Nat \ {0} /\ \A k \in 1..Len(Strikes) : Strikes[k] # None
      /\ Premiums \subseteq Int /\ Middle \in Int
  BY RestAssumption
<1>2. /\ scan.k \in 1..Len(Strikes) /\ list \in Seq(Shown) /\ n = scan.k - 1 /\ n \in Nat
      /\ scan.best \in Rest!Contracts \cup {None} /\ scan.premium \in Premiums \cup {None}
  BY <1>1 DEF Nearest
<1>3. Strikes[scan.k] \in Rest!Contracts /\ Strikes[scan.k] # None
  BY <1>1, <1>2 DEF Rest!Contracts
<1>4. /\ longer \in Seq(Shown) /\ Len(longer) = n + 1 /\ longer[n + 1] = x
      /\ \A j \in 1..n : longer[j] = list[j]
  BY <1>2
<1>5. scan' = [k |-> scan.k + 1, best |-> b, premium |-> p, seen |-> longer]
  BY DEF Nearest
<1>6. reach \in BOOLEAN
  OBVIOUS
<1>7. Rest!Better(x) = (reach /\ (scan.best = None \/ D(x) < D(scan.premium)))
  BY DEF Rest!Better
<1>8. b \in Rest!Contracts \cup {None} /\ p \in Premiums \cup {None}
  BY <1>2, <1>3, <1>7
<1>9. scan' \in [k : 1..(Len(Strikes) + 1), best : Rest!Contracts \cup {None},
                 premium : Premiums \cup {None}, seen : Seq(Shown)]
  <2>1. scan.k + 1 \in 1..(Len(Strikes) + 1)
    BY <1>1, <1>2
  <2> QED BY <2>1, <1>4, <1>5, <1>8
<1>10. /\ scan'.k = n + 2 /\ scan'.best = b /\ scan'.premium = p /\ scan'.seen = longer
  BY <1>2, <1>5
<1>11. InReach(longer) = InReach(list) \cup (IF reach THEN {n + 1} ELSE {})
  BY <1>2, <1>4 DEF InReach
<1>12. InReach(list) \subseteq 1..n /\ \A j \in InReach(list) : list[j] \in Premiums
  BY <1>2 DEF InReach
<1>13. Settled(scan.best, scan.premium, list)
  BY DEF Nearest
<1>14. \A v \in Premiums : D(v) \in Int
  BY <1>1 DEF Rest!Distance
<1>15. \A j \in InReach(list) : longer[j] = list[j] /\ D(list[j]) \in Int
  BY <1>4, <1>12, <1>14
<1>16. SUFFICES Settled(b, p, longer)
  <2>1. Len(longer) = scan'.k - 1
    BY <1>2, <1>4, <1>10
  <2> HIDE DEF b, p, list, longer
  <2> QED BY <2>1, <1>9, <1>10 DEF Nearest
<1>17. CASE ~Rest!Better(x) /\ ~reach
  <2>1. b = scan.best /\ p = scan.premium /\ InReach(longer) = InReach(list)
    BY <1>17, <1>11
  <2> HIDE DEF b, p, list, longer, D
  <2> QED BY <2>1, <1>13, <1>15 DEF Settled
<1>18. CASE Rest!Better(x)
  <2>1. b = Strikes[scan.k] /\ p = x
    BY <1>18
  <2>2. reach /\ (scan.best = None \/ D(x) < D(scan.premium))
    BY <1>18, <1>7
  <2>3. n + 1 = scan.k
    BY <1>2
  <2>4. b # None
    BY <2>1, <1>3
  <2>5. n + 1 \in InReach(longer) /\ D(x) \in Int /\ longer[n + 1] = x
    BY <2>2, <1>4, <1>11, <1>14
  <2> HIDE DEF b, p, list, longer, D, n
  <2>6. ASSUME NEW j \in InReach(longer) PROVE D(longer[n + 1]) <= D(longer[j])
    <3>1. CASE j = n + 1
      BY <3>1, <2>5
    <3>2. CASE j # n + 1
      <4>1. j \in InReach(list)
        BY <3>2, <1>11
      <4>2. longer[j] = list[j] /\ D(list[j]) \in Int
        BY <4>1, <1>15
      <4>3. scan.best # None
        BY <4>1, <1>13 DEF Settled
      <4>4. PICK k \in InReach(list) :
              /\ scan.premium = list[k] /\ \A m \in InReach(list) : D(list[k]) <= D(list[m])
        BY <4>3, <1>13 DEF Settled, D
      <4>5. D(scan.premium) <= D(list[j]) /\ D(scan.premium) \in Int
        BY <4>1, <4>4, <1>15
      <4>6. D(x) <= D(list[j])
        BY <4>2, <4>3, <4>5, <2>2, <2>5
      <4> QED BY <4>2, <4>6, <2>5
    <3> QED BY <3>1, <3>2
  <2>7. /\ n + 1 \in InReach(longer) /\ b = Strikes[n + 1] /\ p = longer[n + 1]
    BY <2>1, <2>3, <2>5
  <2> QED BY <2>4, <2>6, <2>7 DEF Settled, D
<1>19. CASE ~Rest!Better(x) /\ reach
  <2>1. b = scan.best /\ p = scan.premium /\ scan.best # None /\ ~(D(x) < D(scan.premium))
    BY <1>19, <1>7
  <2>2. D(x) \in Int
    BY <1>14, <1>19
  <2> HIDE DEF b, p, list, longer, D
  <2>3. PICK k \in InReach(list) :
          /\ scan.best = Strikes[k] /\ scan.premium = list[k]
          /\ \A j \in InReach(list) : D(list[k]) <= D(list[j])
    BY <2>1, <1>13 DEF Settled, D
  <2>4. k \in InReach(longer) /\ longer[k] = list[k] /\ D(list[k]) \in Int
    BY <2>3, <1>11, <1>15
  <2>5. ASSUME NEW j \in InReach(longer) PROVE D(longer[k]) <= D(longer[j])
    <3>1. CASE j = n + 1
      <4>1. longer[j] = x
        BY <3>1, <1>4
      <4> QED BY <4>1, <2>1, <2>2, <2>3, <2>4
    <3>2. CASE j # n + 1
      <4>1. j \in InReach(list)
        BY <3>2, <1>11
      <4> QED BY <4>1, <1>15, <2>3, <2>4
    <3> QED BY <3>1, <3>2
  <2>6. b # None /\ b = Strikes[k] /\ p = longer[k]
    BY <2>1, <2>3, <2>4
  <2> QED BY <2>4, <2>5, <2>6 DEF Settled, D
<1> QED
  BY <1>17, <1>18, <1>19

\* The search for a strike prices them one after the other.
LEMMA ScanKeeps ==
  ASSUME RestFit, Rest!StartScan \/ Rest!ScanNext \/ Rest!ScanEnds
  PROVE  RestFit'
<1> USE DEF Rest!breaker, Rest!names, Rest!login
<1>1. /\ UNCHANGED <<now, errors, coolUntil, streak, openedAt, order, loggedIn>>
      /\ now \in now..MaxTime /\ Len(Strikes) \in Nat \ {0}
  BY RestAssumption
     DEF Rest!StartScan, Rest!ScanNext, Rest!ScanEnds, RestFit, BreakerFit
<1>2. BreakerFit' /\ (loggedIn' => order' # "none")
  BY <1>1, BreakerStays DEF RestFit
<1>3. \A k \in 1..Len(Strikes) : Strikes[k] \in Rest!Contracts
  BY DEF Rest!Contracts
<1>4. NamesFit' /\ CallFit'
  <2>1. CASE \E k \in 1..Len(Strikes) : Rest!GetToken(Strikes[k])
    BY <2>1, <1>1, <1>3, GetTokenKeeps
  <2>2. CASE UNCHANGED <<tokenCache, tokenMap, answered, call>> /\ answer' \in {None, answer}
    <3>1. NamesFit'
      BY <2>2, NamesStay DEF RestFit
    <3>2. CallFit'
      BY <2>2, <1>1 DEF RestFit, CallFit, Current
    <3> QED BY <3>1, <3>2
  <2>3. CASE Rest!StartScan \/ Rest!ScanEnds
    <3>1. 1 \in 1..Len(Strikes)
      BY <1>1
    <3> QED BY <2>1, <2>2, <2>3, <3>1 DEF Rest!StartScan, Rest!ScanEnds
  <2>4. CASE Rest!ScanNext
    <3>1. scan.k < Len(Strikes) => scan.k + 1 \in 1..Len(Strikes)
      BY <1>1, <2>4 DEF RestFit, ScanFit, Nearest, Rest!ScanNext
    <3> QED BY <2>1, <2>2, <2>4, <3>1 DEF Rest!ScanNext
  <2> QED BY <2>3, <2>4
<1>5. ScanFit'
  <2>1. CASE Rest!StartScan
    <3> DEFINE c == [k |-> 1, best |-> None, premium |-> None, seen |-> <<>>]
    <3>1. Len(<<>>) = 0 /\ <<>> \in Seq(Shown) /\ InReach(<<>>) = {}
      BY DEF InReach
    <3>2. Settled(None, None, <<>>)
      BY <3>1 DEF Settled
    <3>3. c \in [k : 1..(Len(Strikes) + 1), best : Rest!Contracts \cup {None},
                 premium : Premiums \cup {None}, seen : Seq(Shown)]
      BY <3>1, <1>1
    <3>4. c.k = 1 /\ c.best = None /\ c.premium = None /\ c.seen = <<>>
      OBVIOUS
    <3>5. scan' = c
      BY <2>1 DEF Rest!StartScan
    <3> HIDE DEF c
    <3>6. Nearest(c)
      BY <3>1, <3>2, <3>3, <3>4 DEF Nearest
    <3> QED BY <3>5, <3>6 DEF ScanFit
  <2>2. CASE Rest!ScanNext
    <3>1. /\ answer \in Shown /\ scan.k <= Len(Strikes) /\ Nearest(scan)
          /\ scan' = [scan EXCEPT !.seen = Append(@, answer), !.k = @ + 1,
                                  !.best = IF Rest!Better(answer) THEN Strikes[scan.k] ELSE @,
                                  !.premium = IF Rest!Better(answer) THEN answer ELSE @]
      BY <2>2 DEF Rest!ScanNext, RestFit, CallFit, ScanFit
    <3>2. Nearest(scan')
      BY <3>1, NearestGrows
    <3> QED BY <3>2 DEF ScanFit
  <2>3. CASE Rest!ScanEnds
    BY <2>3 DEF ScanFit, Rest!ScanEnds
  <2> QED BY <2>1, <2>2, <2>3
<1> QED
  BY <1>2, <1>4, <1>5 DEF RestFit

LEMMA RestStart == Rest!Init => RestFit
<1> SUFFICES ASSUME Rest!Init PROVE RestFit
  OBVIOUS
<1> USE DEF Rest!Init
<1>1. BreakerFit /\ CallFit /\ ScanFit
  BY RestAssumption DEF BreakerFit, CallFit, ScanFit
<1>2. NamesFit
  BY DEF NamesFit
<1> QED
  BY <1>1, <1>2 DEF RestFit

LEMMA RestStep == ASSUME RestFit, Rest!Next \/ UNCHANGED restVars PROVE RestFit'
<1>1. CASE UNCHANGED restVars
  BY <1>1 DEF restVars, RestFit, BreakerFit, NamesFit, CallFit, Current, ScanFit
<1>2. CASE Rest!Next
  BY <1>2, MovesKeep, SearchKeeps, AnswersKeep, RequestsKeep, ScanKeeps DEF Rest!Next
<1> QED
  BY <1>1, <1>2

\* The client's own properties.
LEMMA FitIsHonest == RestFit => Rest!RestHonest
<1> SUFFICES ASSUME RestFit PROVE Rest!RestHonest
  OBVIOUS
<1>1. Rest!CooldownEarned
  BY DEF RestFit, BreakerFit, CallFit, Rest!CooldownEarned, Rest!Cooling
<1>2. Rest!TokenTrue
  BY DEF RestFit, NamesFit, CallFit, Current, Rest!TokenTrue
<1>3. Rest!LoggedInMeansTokens
  BY DEF RestFit, Rest!LoggedInMeansTokens
<1>4. Rest!StrikeChosen
  <2> SUFFICES ASSUME scan # None, scan.k > Len(Strikes) PROVE Rest!StrikeChosen
    BY DEF Rest!StrikeChosen
  <2>1. Nearest(scan) /\ Len(Strikes) \in Nat
    BY RestAssumption DEF RestFit, ScanFit
  <2>2. Len(scan.seen) = Len(Strikes)
    BY <2>1 DEF Nearest
  <2> QED BY <2>1, <2>2 DEF Nearest, Settled, InReach, Rest!StrikeChosen
<1> QED
  BY <1>1, <1>2, <1>3, <1>4 DEF Rest!RestHonest

\* While the client is the part that moves, its invariant holds; no other part touches it.
RestInv == In("rest", RestFit)

LEMMA RestInvStart == RecInit => RestInv
  BY RestStart DEF RecInit, RestInv, In

LEMMA RestInvStep == ASSUME RestInv, [RecNext]_recordVars PROVE RestInv'
<1>1. UNCHANGED part
  BY DEF RecNext, recordVars, SessionMoves, ArchiveMoves, ImportMoves, ReplayMoves, RestMoves,
         ReportMoves, JournalMoves, CalendarMoves, BacktestMoves, VisualMoves
<1>2. part = "rest" => Rest!Next \/ UNCHANGED restVars
  BY DEF RecNext, recordVars, SessionMoves, ArchiveMoves, ImportMoves, ReplayMoves, RestMoves,
         ReportMoves, JournalMoves, CalendarMoves, BacktestMoves, VisualMoves
<1> QED
  BY <1>1, <1>2, RestStep DEF RestInv, In

\* Whatever the broker's REST calls answer, refuse or rename, and however often they fail:
\* the breaker is open only for a full row of failures and nothing is asked while it is;
\* a tick's price is asked with the token the broker last gave, not past its time to live; the
\* strike a search settles on is the nearest in range of those it saw; a session that
\* counts as logged in has its tokens (auth, market_data and the strike selector).
THEOREM RestIsHonest == RecSpec => []RestHonest
<1>1. RecInit => RestInv
  BY RestInvStart
<1>2. RestInv /\ [RecNext]_recordVars => RestInv'
  BY RestInvStep
<1>3. RestInv => RestHonest
  BY FitIsHonest DEF RestInv, RestHonest, In
<1> QED
  BY <1>1, <1>2, <1>3, PTL DEF RecSpec

\* The parts beside it leave the session alone: what holds of it holds with them running.
THEOREM SessionAmongRecords == RecSpec => Spec
<1>1. RecInit => Init
  BY DEF RecInit
<1>2. [RecNext]_recordVars => [Next]_vars
  BY DEF RecNext, recordVars, SessionMoves, ArchiveMoves, ImportMoves, ReplayMoves, RestMoves,
         ReportMoves, JournalMoves, CalendarMoves, BacktestMoves, VisualMoves
<1> QED
  BY <1>1, <1>2, PTL DEF RecSpec, Spec

-----------------------------------------------------------------------------
(* The archive of the collector.                                            *)

\* Every row came of a tick; a thread holds rows only while it writes.
RowsFit ==
  /\ clock \in Int
  /\ buffer \subseteq received /\ store \subseteq received /\ lost \subseteq received
  /\ \A r \in received : /\ r.at \in Int /\ r.of \in Archive!Symbols
                         /\ r.of = "spot" => r.ref # None
HeldFit ==
  /\ taken \in [Archive!Threads -> SUBSET received]
  /\ socket \in {"listens", "swap", "closing", "ended"} => taken["socket"] = {}
  /\ runner \in {"runs", "swap", "out"} => taken["runner"] = {}
  /\ runner = "out" => socket = "ended" /\ buffer = {}
SpotFit ==
  lastSpot # None => \E s \in received : /\ s.of = "spot" /\ s.price = lastSpot.price
                                         /\ s.at = lastSpot.at
ArchiveFit == RowsFit /\ HeldFit /\ SpotFit /\ Archive!ArchiveKept

LEMMA ArchiveStart == Archive!Init => ArchiveFit
  BY DEF Archive!Init, ArchiveFit, RowsFit, HeldFit, SpotFit, Archive!ArchiveKept,
         Archive!Accounted, Archive!RefsGenuine, Archive!LookupsTrue, Archive!Threads

\* A tick becomes a row, with the last spot as its reference if that is of its time.
LEMMA TickKeeps == ASSUME ArchiveFit, Archive!TickReceived PROVE ArchiveFit'
<1>1. /\ clock \in Int /\ Late \in Nat /\ RefAge \in Nat /\ None \notin Prices
      /\ "spot" \in Archive!Symbols /\ socket = "listens" /\ taken["socket"] = {}
      /\ UNCHANGED <<clock, runner, taken, store, lost, shown>> /\ socket' \in {"swap", "listens"}
  BY HistoryAssumption DEF ArchiveFit, RowsFit, HeldFit, Archive!TickReceived, Archive!Symbols
<1>2. PICK s \in Archive!Symbols, at \in clock - Late..clock, p \in Prices, q \in Quotes :
        /\ lastSpot' = IF s = "spot" THEN [price |-> p, at |-> at] ELSE lastSpot
        /\ buffer' = buffer \cup {Archive!Row(s, at, p, q)}
        /\ received' = received \cup {Archive!Row(s, at, p, q)}
  BY DEF Archive!TickReceived
<1> DEFINE r == Archive!Row(s, at, p, q)
<1>3. /\ r.of = s /\ r.at = at /\ r.price = p /\ at \in Int
      /\ r.ref = IF s = "spot" THEN p ELSE Archive!SpotRef(at)
  BY <1>1 DEF Archive!Row
<1> HIDE DEF r
<1>4. received' = received \cup {r} /\ buffer' = buffer \cup {r} /\ r \in received'
  BY <1>2 DEF r
<1>5. RowsFit'
  BY <1>1, <1>3, <1>4 DEF ArchiveFit, RowsFit
<1>6. HeldFit'
  BY <1>1, <1>4 DEF ArchiveFit, HeldFit
<1>7. SpotFit'
  <2>1. CASE s = "spot"
    <3>1. lastSpot' = [price |-> p, at |-> at]
      BY <1>2, <2>1
    <3>2. lastSpot'.price = p /\ lastSpot'.at = at
      BY <3>1
    <3> QED BY <2>1, <3>2, <1>3, <1>4 DEF SpotFit
  <2>2. CASE s # "spot"
    BY <2>2, <1>2, <1>4 DEF ArchiveFit, SpotFit
  <2> QED BY <2>1, <2>2
<1>8. Archive!RefsGenuine'
  <2>1. ASSUME r.ref # None
        PROVE  \E x \in received' : /\ x.of = "spot" /\ x.price = r.ref
                                    /\ Archive!Near(x.at, r.at, RefAge)
    <3>1. CASE s = "spot"
      BY <3>1, <1>1, <1>3, <1>4 DEF Archive!Near
    <3>2. CASE s # "spot"
      <4>1. /\ lastSpot # None /\ r.ref = lastSpot.price
            /\ Archive!Near(at, lastSpot.at, RefAge)
        BY <3>2, <2>1, <1>3 DEF Archive!SpotRef
      <4>2. PICK x \in received : x.of = "spot" /\ x.price = lastSpot.price /\ x.at = lastSpot.at
        BY <4>1 DEF ArchiveFit, SpotFit
      <4> QED BY <4>1, <4>2, <1>3, <1>4 DEF Archive!Near
    <3> QED BY <3>1, <3>2
  <2>2. \A y \in received : y.ref # None =>
          \E x \in received' : x.of = "spot" /\ x.price = y.ref /\ Archive!Near(x.at, y.at, RefAge)
    BY <1>4 DEF ArchiveFit, Archive!ArchiveKept, Archive!RefsGenuine
  <2> QED BY <2>1, <2>2, <1>4 DEF Archive!RefsGenuine
<1>9. Archive!Accounted' /\ Archive!LookupsTrue'
  BY <1>1, <1>4 DEF ArchiveFit, Archive!ArchiveKept, Archive!Accounted, Archive!LookupsTrue
<1> QED
  BY <1>5, <1>6, <1>7, <1>8, <1>9 DEF ArchiveFit, Archive!ArchiveKept

\* A flush takes what is in the buffer and writes it month by month, or fails.
LEMMA SwapKeeps ==
  ASSUME ArchiveFit, NEW f \in Archive!Threads, taken[f] = {}, Archive!Swap(f),
         \/ /\ f = "socket" /\ socket # "ended" /\ socket' \in {"writes", "last"}
            /\ UNCHANGED runner
         \/ f = "runner" /\ runner' = "writes" /\ UNCHANGED socket
  PROVE  ArchiveFit'
<1>1. /\ taken \in [Archive!Threads -> SUBSET received]
      /\ taken' = [taken EXCEPT ![f] = buffer] /\ buffer' = {} /\ buffer \subseteq received
      /\ UNCHANGED <<clock, lastSpot, store, received, lost, shown>>
  BY DEF ArchiveFit, HeldFit, RowsFit, Archive!Swap
<1>2. RowsFit' /\ SpotFit' /\ Archive!RefsGenuine' /\ Archive!LookupsTrue'
  BY <1>1 DEF ArchiveFit, RowsFit, SpotFit, Archive!ArchiveKept, Archive!RefsGenuine,
              Archive!LookupsTrue
<1>3. HeldFit'
  BY <1>1 DEF ArchiveFit, HeldFit, RowsFit, Archive!Threads
<1>4. Archive!Accounted'
  <2>1. \A r \in received : r \in buffer \cup taken["socket"] \cup taken["runner"] =>
                              r \in taken'["socket"] \cup taken'["runner"]
    BY <1>1 DEF Archive!Threads
  <2> QED BY <2>1, <1>1 DEF ArchiveFit, Archive!ArchiveKept, Archive!Accounted
<1> QED
  BY <1>2, <1>3, <1>4 DEF ArchiveFit, Archive!ArchiveKept

\* A month goes into its file, but for the stamps that are there already.
LEMMA WriteKeeps ==
  ASSUME ArchiveFit, NEW f \in Archive!Threads, Archive!Write(f), UNCHANGED <<socket, runner>>
  PROVE  ArchiveFit'
<1>1. /\ taken \in [Archive!Threads -> SUBSET received]
      /\ store \subseteq received /\ lost \subseteq received
      /\ UNCHANGED <<clock, lastSpot, buffer, received>>
  BY DEF ArchiveFit, HeldFit, RowsFit, Archive!Write
<1>2. ASSUME taken' \in [Archive!Threads -> SUBSET received],
             \A g \in Archive!Threads : taken'[g] \subseteq taken[g],
             store \subseteq store', store' \subseteq received, shown' \subseteq shown \cup store',
             lost \subseteq lost', lost' \subseteq received,
             \A r \in taken[f] \ taken'[f] :
               r \in lost' \/ Archive!Key(r) \in {Archive!Key(s) : s \in store'},
             \A g \in Archive!Threads \ {f} : taken'[g] = taken[g]
      PROVE  ArchiveFit'
  <2>1. RowsFit' /\ SpotFit' /\ Archive!RefsGenuine' /\ Archive!LookupsTrue'
    BY <1>1, <1>2 DEF ArchiveFit, RowsFit, SpotFit, Archive!ArchiveKept, Archive!RefsGenuine,
                      Archive!LookupsTrue
  <2>2. HeldFit'
    BY <1>1, <1>2 DEF ArchiveFit, HeldFit, Archive!Threads
  <2>3. Archive!Accounted'
    <3> SUFFICES ASSUME NEW r \in received
                 PROVE  \/ r \in buffer' \cup lost' \cup taken'["socket"] \cup taken'["runner"]
                        \/ Archive!Key(r) \in {Archive!Key(s) : s \in store'}
      BY <1>1 DEF Archive!Accounted
    <3>1. CASE r \in buffer \cup lost
      BY <3>1, <1>1, <1>2
    <3>2. CASE r \in taken["socket"] \cup taken["runner"]
      BY <3>2, <1>2 DEF Archive!Threads
    <3>3. CASE Archive!Key(r) \in {Archive!Key(s) : s \in store}
      BY <3>3, <1>2
    <3> QED BY <3>1, <3>2, <3>3 DEF ArchiveFit, Archive!ArchiveKept, Archive!Accounted
  <2> QED BY <2>1, <2>2, <2>3 DEF ArchiveFit, Archive!ArchiveKept
<1>3. CASE Archive!WriteMonth(f)
  <2>1. PICK r \in taken[f] :
          LET month == {s \in taken[f] : Archive!Month(s.at) = Archive!Month(r.at)} IN
          \E kept \in SUBSET month :
            /\ {Archive!Key(s) : s \in kept} = {Archive!Key(s) : s \in month}
            /\ store' = Archive!Inserted(kept) /\ shown' = shown \cup store'
            /\ taken' = [taken EXCEPT ![f] = @ \ month] /\ UNCHANGED lost
    BY <1>3 DEF Archive!WriteMonth
  <2> DEFINE month == {s \in taken[f] : Archive!Month(s.at) = Archive!Month(r.at)}
  <2>2. PICK kept \in SUBSET month :
          /\ {Archive!Key(s) : s \in kept} = {Archive!Key(s) : s \in month}
          /\ store' = Archive!Inserted(kept) /\ shown' = shown \cup store'
          /\ taken' = [taken EXCEPT ![f] = @ \ month] /\ UNCHANGED lost
    BY <2>1
  <2>3. month \subseteq taken[f]
    OBVIOUS
  <2> HIDE DEF month
  <2>4. /\ store' = store \cup {s \in kept : Archive!Key(s) \notin {Archive!Key(x) : x \in store}}
        /\ kept \subseteq month /\ taken'[f] = taken[f] \ month
        /\ \A g \in Archive!Threads \ {f} : taken'[g] = taken[g]
        /\ taken' \in [Archive!Threads -> SUBSET received]
    BY <2>2, <2>3, <1>1 DEF Archive!Inserted
  <2>5. \A s \in month : Archive!Key(s) \in {Archive!Key(x) : x \in store'}
    <3> SUFFICES ASSUME NEW s \in month
                 PROVE  \E x \in store' : Archive!Key(s) = Archive!Key(x)
      OBVIOUS
    <3>1. PICK x \in kept : Archive!Key(s) = Archive!Key(x)
      BY <2>2
    <3>2. CASE Archive!Key(x) \in {Archive!Key(y) : y \in store}
      BY <3>1, <3>2, <2>4
    <3>3. CASE Archive!Key(x) \notin {Archive!Key(y) : y \in store}
      BY <3>1, <3>3, <2>4
    <3> QED BY <3>2, <3>3
  <2>6. /\ \A g \in Archive!Threads : taken'[g] \subseteq taken[g]
        /\ store \subseteq store' /\ store' \subseteq received
        /\ lost \subseteq lost' /\ lost' \subseteq received /\ shown' \subseteq shown \cup store'
    BY <2>2, <2>3, <2>4, <1>1
  <2>7. \A x \in taken[f] \ taken'[f] :
          x \in lost' \/ Archive!Key(x) \in {Archive!Key(s) : s \in store'}
    BY <2>4, <2>5
  <2> QED BY <2>4, <2>6, <2>7, <1>2
<1>4. CASE Archive!WriteFails(f)
  <2>1. /\ lost' = lost \cup taken[f] /\ taken' = [taken EXCEPT ![f] = {}]
        /\ UNCHANGED <<store, shown>>
    BY <1>4 DEF Archive!WriteFails
  <2>2. /\ taken' \in [Archive!Threads -> SUBSET received] /\ taken'[f] = {}
        /\ \A g \in Archive!Threads \ {f} : taken'[g] = taken[g]
    BY <2>1, <1>1
  <2>3. \A g \in Archive!Threads : taken'[g] \subseteq taken[g]
    BY <2>2
  <2> QED BY <2>1, <2>2, <2>3, <1>1, <1>2
<1> QED
  BY <1>3, <1>4 DEF Archive!Write

\* The other steps: time, the sockets and the runner, the end of the process and its next
\* start.
LEMMA ArchiveMovesKeep ==
  ASSUME ArchiveFit,
         \/ Archive!TimePasses \/ Archive!Written \/ Archive!SocketCloses
         \/ Archive!StopAsked \/ Archive!RunnerEnds \/ Archive!Crash \/ Archive!StartAgain
  PROVE  ArchiveFit'
<1>1. CASE /\ UNCHANGED <<buffer, lastSpot, taken, store, received, lost, shown>>
           /\ clock' \in {clock, clock + 1}
           /\ UNCHANGED runner \/ (runner' = "swap" /\ runner = "runs")
           /\ \/ UNCHANGED socket \/ socket = "listens"
              \/ socket # "ended" /\ socket' \in {"listens", "ended"} /\ taken["socket"] = {}
  <2>1. RowsFit' /\ SpotFit' /\ Archive!ArchiveKept'
    BY <1>1 DEF ArchiveFit, RowsFit, SpotFit, Archive!ArchiveKept, Archive!Accounted,
                Archive!RefsGenuine, Archive!LookupsTrue
  <2>2. HeldFit'
    BY <1>1 DEF ArchiveFit, HeldFit
  <2> QED BY <2>1, <2>2 DEF ArchiveFit
<1>2. CASE Archive!RunnerEnds \/ Archive!Crash
  <2>1. /\ lost' = lost \cup Archive!Gone /\ runner' = "out" /\ socket' = "ended" /\ buffer' = {}
        /\ taken' = [f \in Archive!Threads |-> {}]
        /\ UNCHANGED <<clock, lastSpot, store, received, shown>>
    BY <1>2 DEF Archive!RunnerEnds, Archive!Crash, Archive!ProcessEnds
  <2>2. /\ taken["socket"] \subseteq Archive!Gone /\ taken["runner"] \subseteq Archive!Gone
        /\ buffer \subseteq Archive!Gone /\ Archive!Gone \subseteq received
    BY DEF Archive!Gone, Archive!Threads, ArchiveFit, HeldFit, RowsFit
  <2>3. RowsFit' /\ SpotFit' /\ HeldFit'
    BY <2>1, <2>2 DEF ArchiveFit, RowsFit, SpotFit, HeldFit, Archive!Threads
  <2>4. Archive!ArchiveKept'
    BY <2>1, <2>2 DEF ArchiveFit, Archive!ArchiveKept, Archive!Accounted,
                Archive!RefsGenuine, Archive!LookupsTrue
  <2> QED BY <2>3, <2>4 DEF ArchiveFit
<1>3. CASE Archive!StartAgain
  <2>1. /\ lastSpot' = None /\ buffer' = {} /\ runner = "out"
        /\ socket' = "listens" /\ runner' = "runs" /\ taken' = [f \in Archive!Threads |-> {}]
        /\ UNCHANGED <<clock, store, received, lost, shown>>
    BY <1>3 DEF Archive!StartAgain, Archive!Start
  <2>2. buffer = {} /\ taken["socket"] = {} /\ taken["runner"] = {}
    BY <2>1 DEF ArchiveFit, HeldFit
  <2>3. RowsFit' /\ SpotFit' /\ HeldFit'
    BY <2>1 DEF ArchiveFit, RowsFit, SpotFit, HeldFit, Archive!Threads
  <2>4. Archive!ArchiveKept'
    BY <2>1, <2>2 DEF ArchiveFit, Archive!ArchiveKept, Archive!Accounted,
                Archive!RefsGenuine, Archive!LookupsTrue
  <2> QED BY <2>3, <2>4 DEF ArchiveFit
<1> QED
  BY <1>1, <1>2, <1>3
     DEF Archive!TimePasses, Archive!Written, Archive!SocketCloses, Archive!StopAsked

LEMMA ArchiveStep == ASSUME ArchiveFit, Archive!Next \/ UNCHANGED archiveVars PROVE ArchiveFit'
<1>1. CASE UNCHANGED archiveVars
  BY <1>1 DEF archiveVars, ArchiveFit, RowsFit, HeldFit, SpotFit, Archive!ArchiveKept,
              Archive!Accounted, Archive!RefsGenuine, Archive!LookupsTrue
<1>2. CASE Archive!SocketFlushes
  <2>1. CASE Archive!Swap("socket") /\ socket \in {"swap", "closing"}
    <3>1. /\ taken["socket"] = {} /\ socket' \in {"writes", "last"} /\ UNCHANGED runner
      BY <1>2, <2>1 DEF Archive!SocketFlushes, ArchiveFit, HeldFit
    <3> QED BY <2>1, <3>1, SwapKeeps DEF Archive!Threads
  <2>2. CASE Archive!Write("socket") /\ UNCHANGED <<socket, runner>>
    BY <2>2, WriteKeeps DEF Archive!Threads
  <2> QED BY <1>2, <2>1, <2>2 DEF Archive!SocketFlushes
<1>3. CASE Archive!RunnerFlushes
  <2>1. CASE Archive!Swap("runner") /\ runner = "swap" /\ runner' = "writes"
    <3>1. taken["runner"] = {} /\ UNCHANGED socket
      BY <1>3, <2>1 DEF Archive!RunnerFlushes, ArchiveFit, HeldFit
    <3> QED BY <2>1, <3>1, SwapKeeps DEF Archive!Threads
  <2>2. CASE Archive!Write("runner") /\ UNCHANGED <<socket, runner>>
    BY <2>2, WriteKeeps DEF Archive!Threads
  <2> QED BY <1>3, <2>1, <2>2 DEF Archive!RunnerFlushes
<1> QED
  BY <1>1, <1>2, <1>3, TickKeeps, ArchiveMovesKeep DEF Archive!Next

\* A set of numbers with one at or below n has a greatest one of them, and a smallest one
\* at or above n.
LEMMA Greatest ==
  ASSUME NEW S \in SUBSET Int, NEW n \in Int, \E x \in S : x <= n
  PROVE  \E x \in S : x <= n /\ \A y \in S : y <= n => y <= x
<1> DEFINE T == {n - x : x \in {y \in S : y <= n}}
<1>1. T \subseteq Nat /\ T # {}
  OBVIOUS
<1> DEFINE R == {p \in Nat \X Nat : p[1] < p[2]}
<1>2. PICK m \in T : \A y \in T : ~(<<y, m>> \in R)
  <2>1. IsWellFoundedOn(R, Nat)
    BY NatLessThanWellFounded DEF OpToRel
  <2> HIDE DEF T, R
  <2> QED BY <1>1, <2>1, WFMin
<1>3. \A y \in T : m <= y
  <2> SUFFICES ASSUME NEW y \in T, ~(m <= y) PROVE FALSE
    OBVIOUS
  <2>1. y \in Nat /\ m \in Nat
    BY <1>1
  <2> HIDE DEF T
  <2>2. <<y, m>> \in R
    BY <2>1
  <2> QED BY <1>2, <2>2
<1>4. PICK x \in S : x <= n /\ m = n - x
  BY <1>2
<1>5. ASSUME NEW y \in S, y <= n PROVE y <= x
  <2>1. n - y \in T
    BY <1>5
  <2> QED BY <2>1, <1>3, <1>4
<1> QED
  BY <1>4, <1>5

LEMMA Smallest ==
  ASSUME NEW S \in SUBSET Int, NEW n \in Int, \E x \in S : n <= x
  PROVE  \E x \in S : n <= x /\ \A y \in S : n <= y => x <= y
<1> DEFINE T == {0 - x : x \in S}
<1>1. T \in SUBSET Int /\ \E x \in T : x <= 0 - n
  OBVIOUS
<1>2. PICK m \in T : m <= 0 - n /\ \A y \in T : y <= 0 - n => y <= m
  <2> DEFINE k == 0 - n
  <2>1. k \in Int
    OBVIOUS
  <2> HIDE DEF T, k
  <2>2. \E x \in T : x <= k /\ \A y \in T : y <= k => y <= x
    <3>1. \E x \in T : x <= k
      BY <1>1 DEF k
    <3> QED BY <1>1, <2>1, <3>1, Greatest, Zenon
  <2> QED BY <2>2 DEF k
<1>3. PICK x \in S : m = 0 - x
  BY <1>2
<1>4. ASSUME NEW y \in S, n <= y PROVE x <= y
  <2>1. 0 - y \in T /\ 0 - y <= 0 - n
    BY <1>4
  <2> QED BY <2>1, <1>2, <1>3
<1> QED
  BY <1>2, <1>3, <1>4

\* What the gate asks of each month it asks of each day of the range.
LEMMA ReadyDay ==
  ASSUME ArchiveFit, NEW first \in 0..CollectedDays - 1, NEW end \in first..CollectedDays - 1,
         Archive!Ready(first, end), NEW d \in first..end
  PROVE  LET stored == Archive!OnDay(store, d) IN
         /\ stored # {}
         /\ \E x \in stored : x.of = "spot"
         /\ Options \subseteq {x.of : x \in stored}
         /\ \A s \in Archive!Symbols : \A g \in Archive!Gaps(Archive!Stamps(stored, s)) :
              g <= MaxGap
<1> DEFINE all == {x \in store : Archive!Day(x.at) \in first..end}
           stored == Archive!OnDay(store, d)
<1>1. PICK x0 \in all : Archive!Day(x0.at) = d
  BY DEF Archive!Ready
<1> DEFINE month == {x \in all : Archive!Month(x.at) = Archive!Month(x0.at)}
<1>2. Archive!AllChecks(month)
  BY <1>1 DEF Archive!Ready
<1>3. Archive!OnDay(month, d) = stored
  BY <1>1 DEF Archive!OnDay, Archive!Month
<1>4. x0 \in stored /\ x0 \in month
  BY <1>1 DEF Archive!OnDay
<1>5. stored \subseteq received
  BY DEF ArchiveFit, RowsFit, Archive!OnDay
<1>6. Archive!NoHoles(month) /\ Archive!Covered(month) /\ Archive!Aligned(month)
  BY <1>2 DEF Archive!AllChecks
<1> HIDE DEF month, stored
<1>7. PICK sp \in stored : sp.of = "spot"
  <2>1. CASE x0.of = "spot"
    BY <2>1, <1>4
  <2>2. CASE x0.of # "spot"
    <3>1. x0 \in Archive!Chain(month)
      BY <1>4, <2>2 DEF Archive!Chain
    <3>2. \E s \in Archive!OnDay(month, d) : s.of = "spot"
      BY <3>1, <1>1, <1>6 DEF Archive!Aligned
    <3> QED BY <3>2, <1>3
  <2> QED BY <2>1, <2>2
<1>8. sp.ref # None
  BY <1>5, <1>7 DEF ArchiveFit, RowsFit
<1>9. Options \subseteq {x.of : x \in stored}
  <2>1. d \in {Archive!Day(x.at) : x \in month}
    BY <1>1, <1>4
  <2> QED BY <2>1, <1>3, <1>6, <1>7, <1>8 DEF Archive!Covered
<1>10. d \in 0..CollectedDays - 1
  BY HistoryAssumption
<1>11. \A s \in Archive!Symbols : \A g \in Archive!Gaps(Archive!Stamps(stored, s)) : g <= MaxGap
  BY <1>3, <1>6, <1>10 DEF Archive!NoHoles
<1>12. stored # {}
  BY <1>4
<1> QED
  BY <1>7, <1>9, <1>11, <1>12 DEF stored

\* A row that is lost lies before, after or in a short gap of what the file has of its
\* instrument that day, when the gate has let the day pass.
LEMMA GateHidesNothing == ArchiveFit => Archive!ReadyHidesNoHole
<1> SUFFICES ASSUME ArchiveFit, NEW first \in 0..CollectedDays - 1,
                    NEW end \in first..CollectedDays - 1, Archive!Ready(first, end),
                    NEW r \in lost, Archive!Day(r.at) \in first..end
             PROVE  LET mine == {s \in Archive!OnDay(store, Archive!Day(r.at)) : s.of = r.of} IN
                    /\ mine # {}
                    /\ \/ \A s \in mine : s.at >= r.at
                       \/ \A s \in mine : s.at <= r.at
                       \/ \E s, t \in mine : s.at <= r.at /\ r.at <= t.at /\ t.at - s.at <= MaxGap
  BY DEF Archive!ReadyHidesNoHole
<1> DEFINE d == Archive!Day(r.at)
           stored == Archive!OnDay(store, d)
           mine == {s \in stored : s.of = r.of}
           S == Archive!Stamps(stored, r.of)
<1>1. /\ \E x \in stored : x.of = "spot"
      /\ Options \subseteq {x.of : x \in stored}
      /\ \A s \in Archive!Symbols : \A g \in Archive!Gaps(Archive!Stamps(stored, s)) : g <= MaxGap
  <2> HIDE DEF d
  <2>1. d \in first..end
    BY DEF d
  <2> QED BY <2>1, ReadyDay
<1>2. r \in received /\ r.at \in Int /\ r.of \in Archive!Symbols /\ MaxGap \in Nat
  BY HistoryAssumption DEF ArchiveFit, RowsFit
<1>3. mine # {}
  BY <1>1, <1>2 DEF Archive!Symbols
<1>4. \A x \in mine : x.at \in Int
  BY DEF ArchiveFit, RowsFit, Archive!OnDay
<1>5. S = {x.at : x \in mine}
  BY DEF Archive!Stamps
<1>6. \A g \in Archive!Gaps(S) : g <= MaxGap
  BY <1>1, <1>2
<1> HIDE DEF S, mine, stored, d
<1>7. CASE (\E x \in mine : x.at <= r.at) /\ \E x \in mine : r.at <= x.at
  <2>1. S \in SUBSET Int /\ (\E x \in S : x <= r.at) /\ \E x \in S : r.at <= x
    BY <1>4, <1>5, <1>7
  <2>2. PICK a \in S : a <= r.at /\ \A y \in S : y <= r.at => y <= a
    BY <2>1, <1>2, Greatest
  <2>3. PICK b \in S : r.at <= b /\ \A y \in S : r.at <= y => b <= y
    BY <2>1, <1>2, Smallest
  <2>4. a \in Int /\ b \in Int
    BY <2>1
  <2>5. b - a <= MaxGap
    <3>1. CASE a = b
      BY <3>1, <2>4, <1>2
    <3>2. CASE a # b
      <4>1. a < b /\ \A t \in S : t <= a \/ b <= t
        BY <3>2, <2>1, <2>2, <2>3, <2>4, <1>2
      <4>2. <<a, b>> \in Archive!Neighbours(S)
        BY <4>1 DEF Archive!Neighbours
      <4>3. b - a \in Archive!Gaps(S)
        <5>1. <<a, b>>[1] = a /\ <<a, b>>[2] = b
          OBVIOUS
        <5> QED BY <4>2, <5>1 DEF Archive!Gaps
      <4> QED BY <4>3, <1>6
    <3> QED BY <3>1, <3>2
  <2>6. PICK s \in mine, t \in mine : s.at = a /\ t.at = b
    BY <1>5
  <2>7. \E u, v \in mine : u.at <= r.at /\ r.at <= v.at /\ v.at - u.at <= MaxGap
    BY <2>2, <2>3, <2>5, <2>6
  <2> QED BY <2>7, <1>3 DEF mine, stored, d
<1>8. CASE ~(\E x \in mine : x.at <= r.at) \/ ~(\E x \in mine : r.at <= x.at)
  <2>1. (\A s \in mine : s.at >= r.at) \/ \A s \in mine : s.at <= r.at
    BY <1>2, <1>4, <1>8
  <2> QED BY <2>1, <1>3 DEF mine, stored, d
<1> QED
  BY <1>7, <1>8

-----------------------------------------------------------------------------
(* The import of candles.                                                   *)
Receipts ==
  [v : Import!Series, from : Int, to : Int, clamped : BOOLEAN, failed : BOOLEAN,
   held : SUBSET Int]
ImportJobs ==
  [v : Import!Series, from : Int, to : Int, next : Int, tries : Int, first : Int,
   bars : SUBSET Int, receipts : Seq(Receipts)]

\* A receipt that reports nothing has its minutes among the bars of its command, and
\* each bar was asked for by a receipt without an error.
Answered(x, t) == ~x.failed /\ Import!Day(t) \in x.from..x.to
Kept(j, x) == x.v = j.v /\ (~x.failed /\ ~x.clamped => x.held \subseteq j.bars)

ImportTypes ==
  /\ exchange \subseteq Import!Minutes /\ runs \in Seq(Receipts) /\ job \in ImportJobs
  /\ ended \subseteq 1..Len(runs)
JobFit ==
  phase # "idle" =>
    /\ phase \in {"fetch", "record", "write", "gaps"} /\ job.first \in 1..(Len(runs) + 1)
    /\ phase = "fetch" => job.first = Len(runs) + 1
    /\ phase = "record" => job.receipts # <<>>
    /\ phase \in {"write", "gaps"} => job.receipts = <<>>
    /\ job.bars \subseteq exchange
    /\ \A k \in job.first..Len(runs) : Kept(job, runs[k])
    /\ \A k \in 1..Len(job.receipts) : Kept(job, job.receipts[k])
    /\ \A t \in job.bars : \/ \E k \in job.first..Len(runs) : Answered(runs[k], t)
                           \/ \E k \in 1..Len(job.receipts) : Answered(job.receipts[k], t)
ImportFit == ImportTypes /\ JobFit /\ Import!ImportHonest

LEMMA CountsAlike == ASSUME NEW S PROVE Import!Cardinality(S) = Cardinality(S)
  BY DEF Import!Cardinality, Cardinality

\* An answer shorter than the cap was not cut: a row that was dropped has as many rows
\* after it as the cap.
LEMMA AnswerWhole ==
  ASSUME exchange \subseteq Import!Minutes, NEW v, NEW a, NEW b,
         ~Import!Clamped(v, Import!Answer(v, a, b))
  PROVE  Import!Answer(v, a, b) = Import!On(exchange, a, b)
<1> DEFINE R == Import!On(exchange, a, b)
           After(t) == {u \in R : u >= t}
           A == {t \in R : Import!Cardinality(After(t)) <= RowCap}
<1>1. CASE v \notin Import!Angel
  BY <1>1 DEF Import!Answer
<1>2. CASE v \in Import!Angel
  <2> DEFINE n == ImportDays * ImportPerDay
  <2>1. n \in Int /\ RowCap \in Nat
    BY ImportAssumption
  <2>2. R \subseteq 0..n - 1
    BY DEF Import!On, Import!Minutes
  <2>3. IsFiniteSet(R)
    <3> HIDE DEF n, R
    <3>1. IsFiniteSet(0..n - 1)
      <4>1. 0 \in Int /\ n - 1 \in Int
        BY <2>1
      <4> QED BY <4>1, FS_Interval
    <3> QED BY <3>1, <2>2, FS_Subset
  <2>4. Import!Answer(v, a, b) = A /\ Cardinality(A) < RowCap
    <3>1. Import!Answer(v, a, b) = A
      BY <1>2 DEF Import!Answer
    <3>2. IsFiniteSet(A) /\ Cardinality(A) \in Nat
      BY <2>3, FS_Subset, FS_CardinalityType
    <3> HIDE DEF A
    <3>3. ~(Import!Cardinality(A) >= RowCap)
      BY <3>1, <1>2 DEF Import!Clamped
    <3> QED BY <3>1, <3>2, <3>3, <2>1, CountsAlike
  <2>5. ASSUME R \ A # {} PROVE FALSE
    <3> DEFINE D == R \ A
    <3>1. PICK t \in D : \A y \in D : y <= t
      <4> HIDE DEF n
      <4>1. D \in SUBSET Int /\ D \subseteq 0..n - 1
        BY <2>2
      <4>2. \E x \in D : x <= n
        <5>1. PICK x \in D : TRUE
          BY <2>5
        <5> HIDE DEF D
        <5> QED BY <5>1, <2>1, <4>1
      <4> HIDE DEF D
      <4>3. PICK t \in D : t <= n /\ \A y \in D : y <= n => y <= t
        BY <4>1, <4>2, <2>1, Greatest, Zenon
      <4>4. \A y \in D : y <= n
        BY <4>1, <2>1
      <4> QED BY <4>3, <4>4
    <3>2. After(t) \ {t} \subseteq A
      <4> SUFFICES ASSUME NEW u \in R, u >= t, u # t PROVE u \in A
        BY Zenon
      <4>1. u \in Int /\ t \in Int
        BY <2>2
      <4>2. ~(u <= t)
        BY <4>1
      <4>3. u \notin D
        <5> HIDE DEF D
        <5> QED BY <4>2, <3>1
      <4> QED BY <4>3, Zenon
    <3>3. After(t) \subseteq R /\ A \subseteq R /\ t \in After(t)
      BY <2>1, <2>2
    <3>4. ~(Cardinality(After(t)) <= RowCap)
      BY <3>1, CountsAlike
    <3> HIDE DEF After, A, R
    <3>5. /\ IsFiniteSet(After(t)) /\ IsFiniteSet(A)
          /\ Cardinality(After(t)) \in Nat /\ Cardinality(A) \in Nat
      BY <3>3, <2>3, FS_Subset, FS_CardinalityType
    <3>6. Cardinality(After(t) \ {t}) = Cardinality(After(t)) - 1
      BY <3>3, <3>5, FS_RemoveElement
    <3>7. Cardinality(After(t) \ {t}) <= Cardinality(A)
      BY <3>2, <3>5, FS_Subset
    <3> QED BY <3>4, <3>5, <3>6, <3>7, <2>1, <2>4
  <2>6. A \subseteq R
    OBVIOUS
  <2> QED BY <2>4, <2>5, <2>6
<1> QED
  BY <1>1, <1>2

LEMMA IdleJob == Import!NoJob \in ImportJobs
<1>1. Import!NoJob = [v |-> "index", from |-> 0, to |-> 0, next |-> 0, tries |-> 0,
                      first |-> 1, bars |-> {}, receipts |-> <<>>]
  BY DEF Import!NoJob
<1>2. "index" \in Import!Series /\ <<>> \in Seq(Receipts) /\ {} \in SUBSET Int
  BY DEF Import!Series, Import!Imported, Import!Angel
<1> QED
  BY <1>1, <1>2 DEF ImportJobs

LEMMA ImportStart == Import!Init => ImportFit
<1> SUFFICES ASSUME Import!Init PROVE ImportFit
  OBVIOUS
<1> USE DEF Import!Init
<1>1. job \in ImportJobs
  BY IdleJob
<1>2. ImportTypes /\ JobFit
  BY <1>1 DEF ImportTypes, JobFit
<1>3. Import!NothingInvented /\ Import!FetchedWhole
  BY DEF Import!NothingInvented, Import!FetchedWhole
<1>4. Import!GapsTrue
  BY DEF Import!GapsTrue, Import!Holes, Import!DaysHeld, Import!Stored
<1> QED
  BY <1>2, <1>3, <1>4 DEF ImportFit, Import!ImportHonest

\* What is on file is not touched by a step that writes neither candles nor gaps, and adds
\* no receipt but behind the others.
LEMMA FilesStay ==
  ASSUME ImportFit, UNCHANGED <<candles, gaps, ended, tornJob>>, exchange \subseteq exchange',
         exchange' \subseteq Import!Minutes,
         \/ UNCHANGED runs
         \/ \E x \in Receipts : runs' = Append(runs, x)
  PROVE  /\ Import!ImportHonest' /\ runs' \in Seq(Receipts) /\ ended' \subseteq 1..Len(runs')
         /\ Len(runs') >= Len(runs) /\ \A k \in 1..Len(runs) : runs'[k] = runs[k]
<1>1. runs \in Seq(Receipts) /\ ended \subseteq 1..Len(runs) /\ Len(runs) \in Nat
  BY DEF ImportFit, ImportTypes
<1>2. /\ runs' \in Seq(Receipts) /\ Len(runs') \in Nat /\ Len(runs') >= Len(runs)
      /\ \A k \in 1..Len(runs) : runs'[k] = runs[k]
  BY <1>1
<1>3. ended' \subseteq 1..Len(runs')
  BY <1>1, <1>2
<1>4. Import!NothingInvented'
  <2> SUFFICES ASSUME NEW c \in candles
               PROVE  /\ c.t \in exchange'
                      /\ \E k \in 1..Len(runs') :
                           /\ runs'[k].v = c.v /\ ~runs'[k].failed
                           /\ Import!Day(c.t) \in runs'[k].from..runs'[k].to
    BY DEF Import!NothingInvented
  <2>1. PICK k \in 1..Len(runs) : /\ runs[k].v = c.v /\ ~runs[k].failed
                                  /\ Import!Day(c.t) \in runs[k].from..runs[k].to
    BY DEF ImportFit, Import!ImportHonest, Import!NothingInvented
  <2>2. k \in 1..Len(runs') /\ runs'[k] = runs[k]
    BY <1>1, <1>2
  <2> QED BY <2>1, <2>2 DEF ImportFit, Import!ImportHonest, Import!NothingInvented
<1>5. Import!FetchedWhole'
  BY <1>1, <1>2 DEF ImportFit, Import!ImportHonest, Import!FetchedWhole, Import!Stored
<1>6. Import!GapsTrue'
  BY DEF ImportFit, Import!ImportHonest, Import!GapsTrue, Import!Holes, Import!DaysHeld,
         Import!Stored
<1> QED
  BY <1>2, <1>3, <1>4, <1>5, <1>6 DEF Import!ImportHonest

\* A series that is asked for has no bar and no receipt yet.
LEMMA AskFits ==
  ASSUME ImportFit, NEW v \in Import!Series, NEW a \in Int, NEW b \in Int
  PROVE  /\ Import!Ask(v, a, b) \in ImportJobs
         /\ Import!Ask(v, a, b).first = Len(runs) + 1
         /\ Import!Ask(v, a, b).bars = {} /\ Import!Ask(v, a, b).receipts = <<>>
<1>1. Len(runs) \in Nat
  BY DEF ImportFit, ImportTypes
<1>2. Import!Ask(v, a, b) = [v |-> v, from |-> a, to |-> b, next |-> a, tries |-> 0,
                            first |-> Len(runs) + 1, bars |-> {}, receipts |-> <<>>]
  BY DEF Import!Ask
<1> QED
  BY <1>1, <1>2 DEF ImportJobs

LEMMA SessionsAreDays ==
  ASSUME ImportFit, NEW v, NEW d \in Import!DaysHeld(v) PROVE d \in Int
<1>1. PICK t \in Import!Stored(v) : d = Import!Day(t)
  BY DEF Import!DaysHeld
<1>2. t \in exchange
  BY <1>1 DEF Import!Stored, ImportFit, Import!ImportHonest, Import!NothingInvented
<1>3. t \in Int
  BY <1>2 DEF ImportFit, ImportTypes, Import!Minutes
<1> QED
  BY <1>1, <1>3, ImportAssumption DEF Import!Day

\* A command takes up a series, or ends: it has neither bars nor receipts.
LEMMA TakenUp ==
  ASSUME ImportFit, ImportTypes', Import!ImportHonest',
         \/ phase' = "idle" /\ job' = Import!NoJob
         \/ /\ phase' = "fetch" /\ UNCHANGED runs
            /\ \E v \in Import!Series, a, b \in Int : job' = Import!Ask(v, a, b)
  PROVE  ImportFit'
<1>1. CASE phase' = "idle"
  BY <1>1 DEF ImportFit, JobFit
<1>2. CASE phase' = "fetch"
  <2>1. PICK v \in Import!Series, a \in Int, b \in Int : job' = Import!Ask(v, a, b)
    BY <1>2
  <2>2. /\ job'.first = Len(runs) + 1 /\ job'.bars = {} /\ job'.receipts = <<>>
        /\ Len(<<>>) = 0 /\ Len(runs) \in Nat /\ UNCHANGED runs
    BY <1>2, <2>1, AskFits DEF ImportFit, ImportTypes
  <2>3. JobFit'
    BY <1>2, <2>2 DEF JobFit
  <2> QED BY <2>3 DEF ImportFit
<1> QED
  BY <1>1, <1>2

LEMMA StartsKeep ==
  ASSUME ImportFit,
         Import!Starts \/ Import!CrossChecks \/ Import!Dies \/ Import!Trades
  PROVE  ImportFit'
<1>1. /\ UNCHANGED <<runs, candles, gaps, ended, tornJob>> /\ exchange \subseteq exchange'
      /\ exchange' \subseteq Import!Minutes
  BY DEF Import!Starts, Import!CrossChecks, Import!Dies, Import!Trades, ImportFit, ImportTypes
<1>2. Import!ImportHonest' /\ runs' \in Seq(Receipts) /\ ended' \subseteq 1..Len(runs')
  BY <1>1, FilesStay
<1>3. ASSUME phase' = "fetch", \E v \in Import!Series, a, b \in Int : job' = Import!Ask(v, a, b)
      PROVE  ImportFit'
  <2>1. job' \in ImportJobs
    BY <1>3, AskFits
  <2>2. ImportTypes'
    BY <2>1, <1>1, <1>2 DEF ImportTypes
  <2> QED BY <2>2, <1>1, <1>2, <1>3, TakenUp
<1>4. CASE Import!Starts
  <2>1. PICK v \in Import!Imported, a \in 0..ImportDays - 1 : \E b \in a..ImportDays - 1 :
          job' = Import!Ask(v, a, b)
    BY <1>4 DEF Import!Starts
  <2>2. v \in Import!Series /\ phase' = "fetch"
    BY <1>4 DEF Import!Series, Import!Starts
  <2> QED BY <2>1, <2>2, <1>3
<1>5. CASE Import!CrossChecks
  <2>1. PICK a \in Import!DaysHeld("index"), b \in Import!DaysHeld("index") :
          job' = Import!Ask("upstox", a, b)
    BY <1>5 DEF Import!CrossChecks
  <2>2. "upstox" \in Import!Series /\ phase' = "fetch" /\ a \in Int /\ b \in Int
    BY <1>5, SessionsAreDays DEF Import!Series, Import!Checked, Import!CrossChecks
  <2> QED BY <2>1, <2>2, <1>3
<1>6. CASE Import!Dies
  <2>1. ImportTypes'
    BY <1>1, <1>2, <1>6, IdleJob DEF Import!Dies, ImportTypes
  <2> QED BY <2>1, <1>2, <1>6, TakenUp DEF Import!Dies
<1>7. CASE Import!Trades
  <2>1. UNCHANGED <<job, phase>>
    BY <1>7 DEF Import!Trades
  <2>2. JobFit'
    BY <2>1, <1>1 DEF ImportFit, JobFit, Kept
  <2> QED BY <2>1, <2>2, <1>1, <1>2 DEF ImportFit, ImportTypes
<1> QED
  BY <1>4, <1>5, <1>6, <1>7

\* The cross-check goes on to its second source, or ends.
LEMMA TurnsFits ==
  ASSUME ImportFit, Import!Turns, UNCHANGED runs
  PROVE  /\ job' \in ImportJobs
         /\ \/ phase' = "idle" /\ job' = Import!NoJob
            \/ /\ phase' = "fetch"
               /\ \E v \in Import!Series, a, b \in Int : job' = Import!Ask(v, a, b)
<1>1. CASE job.v = "upstox"
  <2>1. "yahoo" \in Import!Series /\ job.from \in Int /\ job.to \in Int
    BY DEF Import!Series, Import!Checked, ImportFit, ImportTypes, ImportJobs
  <2>2. job' = Import!Ask("yahoo", job.from, job.to) /\ phase' = "fetch"
    BY <1>1 DEF Import!Turns
  <2> QED BY <2>1, <2>2, AskFits
<1>2. CASE job.v # "upstox"
  BY <1>2, IdleJob DEF Import!Turns
<1> QED
  BY <1>1, <1>2

\* A window is answered, or fails, and its receipt is put with those of the command.
LEMMA FetchKeeps == ASSUME ImportFit, Import!Fetch PROVE ImportFit'
<1>1. /\ UNCHANGED <<exchange, runs, candles, gaps, ended, tornJob>> /\ phase = "fetch"
      /\ exchange \subseteq Import!Minutes /\ job \in ImportJobs /\ runs \in Seq(Receipts)
      /\ Len(runs) \in Nat
  BY DEF Import!Fetch, ImportFit, ImportTypes
<1>2. Import!ImportHonest' /\ ended' \subseteq 1..Len(runs')
  BY <1>1, FilesStay
<1>3. /\ job.first = Len(runs) + 1 /\ job.bars \subseteq exchange
      /\ \A k \in 1..Len(job.receipts) : Kept(job, job.receipts[k])
      /\ \A t \in job.bars : \E k \in 1..Len(job.receipts) : Answered(job.receipts[k], t)
  BY <1>1 DEF ImportFit, JobFit
<1>4. /\ job.v \in Import!Series /\ job.from \in Int /\ job.next \in Int /\ job.to \in Int
      /\ job.first \in Int
      /\ job.tries \in Int /\ job.receipts \in Seq(Receipts) /\ job.bars \subseteq Int
  BY <1>1 DEF ImportJobs
<1>5. Import!Until(job) \in Int /\ exchange \subseteq Int
  BY <1>1, <1>4, ImportAssumption DEF Import!Until, Import!Minutes
<1>6. ASSUME NEW got, NEW failed \in BOOLEAN, Import!Window1(got, failed),
             got \subseteq Import!On(exchange, job.next, Import!Until(job)),
             ~failed /\ ~Import!Clamped(job.v, got) =>
               Import!On(exchange, job.next, Import!Until(job)) \subseteq got,
             failed => got = {}
      PROVE  ImportFit'
  <2> DEFINE x == Import!Receipt(got, failed)
             asked == Import!On(exchange, job.next, Import!Until(job))
             cut == Import!Clamped(job.v, got)
  <2>1. cut \in BOOLEAN
    BY DEF Import!Clamped
  <2>2. asked \subseteq exchange /\ \A t \in asked : Import!Day(t) \in job.next..Import!Until(job)
    BY DEF Import!On
  <2>3. x = [v |-> job.v, from |-> job.next, to |-> Import!Until(job), clamped |-> cut,
             failed |-> failed, held |-> asked]
    BY DEF Import!Receipt
  <2> HIDE DEF x, asked, cut
  <2>4. x \in Receipts
    BY <2>1, <2>2, <2>3, <1>4, <1>5 DEF Receipts
  <2>5. /\ x.v = job.v /\ x.from = job.next /\ x.to = Import!Until(job) /\ x.clamped = cut
        /\ x.failed = failed /\ x.held = asked
    BY <2>3
  <2>6. /\ job' = [job EXCEPT !.next = Import!Until(job) + 1, !.tries = 0, !.bars = @ \cup got,
                              !.receipts = Append(@, x)]
        /\ phase' \in {"record", "fetch"}
    BY <1>6 DEF Import!Window1, x
  <2>7. job' = [v |-> job.v, from |-> job.from, to |-> job.to,
                next |-> Import!Until(job) + 1, tries |-> 0, first |-> job.first,
                bars |-> job.bars \cup got,
                receipts |-> Append(job.receipts, x)]
    BY <2>6, <1>1 DEF ImportJobs
  <2>8. got \subseteq exchange
    BY <1>6, <2>2 DEF asked
  <2>9. job' \in ImportJobs
    <3>1. job.bars \cup got \in SUBSET Int
      BY <2>8, <1>4, <1>5
    <3>2. Append(job.receipts, x) \in Seq(Receipts)
      BY <2>4, <1>4
    <3>3. Import!Until(job) + 1 \in Int /\ 0 \in Int
      BY <1>5
    <3> QED BY ONLY <2>7, <3>1, <3>2, <3>3, <1>4 DEF ImportJobs
  <2>10. /\ job'.v = job.v /\ job'.first = job.first /\ job'.bars = job.bars \cup got
         /\ job'.receipts = Append(job.receipts, x)
    BY <2>7
  <2> DEFINE n == Len(job.receipts)
  <2>11. /\ n \in Nat /\ Len(job'.receipts) = n + 1 /\ job'.receipts[n + 1] = x
         /\ \A k \in 1..n : job'.receipts[k] = job.receipts[k]
    BY <2>4, <2>10, <1>4
  <2>12. job'.receipts # <<>>
    BY <2>11
  <2> HIDE DEF n
  <2>13. ASSUME NEW k \in 1..n + 1 PROVE Kept(job', job'.receipts[k])
    <3>1. CASE k = n + 1
      <4>1. /\ x.v = job'.v
            /\ ~x.failed /\ ~x.clamped => x.held \subseteq job'.bars
        BY <2>5, <2>10, <1>6 DEF asked, cut
      <4> QED BY <4>1, <3>1, <2>11 DEF Kept
    <3>2. CASE k # n + 1
      <4>1. k \in 1..n
        BY <3>2, <2>11
      <4>2. Kept(job, job.receipts[k]) /\ job'.receipts[k] = job.receipts[k]
        BY <4>1, <1>3, <2>11 DEF n
      <4> QED BY <4>2, <2>10 DEF Kept
    <3> QED BY <3>1, <3>2
  <2>14. ASSUME NEW t \in job'.bars
         PROVE  \E k \in 1..n + 1 : Answered(job'.receipts[k], t)
    <3>1. CASE t \in job.bars
      <4>1. PICK k \in 1..n : Answered(job.receipts[k], t)
        BY <3>1, <1>3 DEF n
      <4> QED BY <4>1, <2>11
    <3>2. CASE t \in got
      <4>1. ~failed /\ Import!Day(t) \in job.next..Import!Until(job)
        BY <3>2, <1>6, <2>2 DEF asked
      <4> QED BY <4>1, <2>5, <2>11 DEF Answered
    <3> QED BY <3>1, <3>2, <2>10
  <2>15. JobFit'
    BY <2>6, <2>8, <2>10, <2>11, <2>12, <2>13, <2>14, <1>1, <1>3 DEF JobFit
  <2> QED BY <2>9, <2>15, <1>1, <1>2 DEF ImportFit, ImportTypes
<1>7. CASE Import!Window1(Import!Answer(job.v, job.next, Import!Until(job)), FALSE)
  BY <1>1, <1>6, <1>7, AnswerWhole DEF Import!Answer
<1>8. CASE Import!Window1({}, TRUE)
  BY <1>6, <1>8
<1>9. CASE job' = [job EXCEPT !.tries = @ + 1] /\ UNCHANGED phase
  <2>1. job' = [v |-> job.v, from |-> job.from, to |-> job.to, next |-> job.next,
                tries |-> job.tries + 1, first |-> job.first, bars |-> job.bars,
                receipts |-> job.receipts]
    BY <1>1, <1>9 DEF ImportJobs
  <2>2. /\ job' \in ImportJobs /\ job'.v = job.v /\ job'.first = job.first
        /\ job'.bars = job.bars /\ job'.receipts = job.receipts
    BY <2>1, <1>4 DEF ImportJobs
  <2>3. JobFit'
    BY <2>2, <1>1, <1>9 DEF ImportFit, JobFit, Kept
  <2> QED BY <2>2, <2>3, <1>1, <1>2 DEF ImportFit, ImportTypes
<1>10. CASE Import!Turns
  <2>1. ImportTypes'
    BY <1>1, <1>2, <1>10, TurnsFits DEF ImportTypes
  <2> QED BY <2>1, <1>1, <1>2, <1>10, TurnsFits, TakenUp
<1> QED
  BY <1>7, <1>8, <1>9, <1>10 DEF Import!Fetch

\* A command that got no bar ends: a receipt that reports nothing held no minute.
LEMMA NoBarsKeep == ASSUME ImportFit, Import!NoBars PROVE ImportFit'
<1>1. /\ UNCHANGED <<exchange, runs, candles, gaps, tornJob>> /\ phase # "idle"
      /\ phase' = "idle" /\ job' = Import!NoJob /\ job.bars = {}
      /\ ended' = ended \cup job.first..Len(runs)
  BY DEF Import!NoBars, Import!LeavesEarly
<1>2. /\ job.first \in 1..(Len(runs) + 1) /\ Len(runs) \in Nat
      /\ \A k \in job.first..Len(runs) : Kept(job, runs[k])
  BY <1>1 DEF ImportFit, ImportTypes, JobFit
<1>3. ImportTypes'
  <2>1. job.first..Len(runs) \subseteq 1..Len(runs)
    BY <1>2
  <2> QED BY <2>1, <1>1, IdleJob DEF ImportFit, ImportTypes
<1>4. Import!NothingInvented' /\ Import!GapsTrue'
  BY <1>1 DEF ImportFit, Import!ImportHonest, Import!NothingInvented, Import!GapsTrue,
              Import!Holes, Import!DaysHeld, Import!Stored
<1>5. Import!FetchedWhole'
  <2> SUFFICES ASSUME NEW k \in ended', ~runs[k].failed, ~runs[k].clamped
               PROVE  runs[k].held \subseteq Import!Stored(runs[k].v)
    BY <1>1 DEF Import!FetchedWhole, Import!Stored
  <2>1. CASE k \in ended
    BY <2>1 DEF ImportFit, Import!ImportHonest, Import!FetchedWhole
  <2>2. CASE k \in job.first..Len(runs)
    BY <2>2, <1>1, <1>2 DEF Kept
  <2> QED BY <2>1, <2>2, <1>1
<1> QED
  BY <1>1, <1>3, <1>4, <1>5, TakenUp DEF Import!ImportHonest

\* Receipt after receipt goes into its table.
LEMMA RecordRunKeeps == ASSUME ImportFit, Import!RecordRun PROVE ImportFit'
<1>1. /\ UNCHANGED <<exchange, candles, gaps, ended, tornJob>> /\ phase = "record"
      /\ exchange \subseteq Import!Minutes /\ job \in ImportJobs /\ runs \in Seq(Receipts)
      /\ job.receipts \in Seq(Receipts) /\ job.receipts # <<>>
      /\ job' = [job EXCEPT !.receipts = Tail(@)] /\ runs' = Append(runs, Head(job.receipts))
      /\ phase' = IF Len(job.receipts) = 1 THEN "write" ELSE "record"
  BY DEF Import!RecordRun, ImportFit, ImportTypes, ImportJobs, JobFit
<1> DEFINE n == Len(runs)
           m == Len(job.receipts)
           x == Head(job.receipts)
<1>2. /\ n \in Nat /\ m \in Nat \ {0} /\ x = job.receipts[1] /\ x \in Receipts
      /\ Tail(job.receipts) \in Seq(Receipts) /\ Len(Tail(job.receipts)) = m - 1
      /\ \A k \in 1..m - 1 : Tail(job.receipts)[k] = job.receipts[k + 1]
  BY <1>1
<1>3. /\ Import!ImportHonest' /\ runs' \in Seq(Receipts) /\ ended' \subseteq 1..Len(runs')
  BY <1>1, <1>2, FilesStay
<1>4. /\ Len(runs') = n + 1 /\ runs'[n + 1] = x /\ \A k \in 1..n : runs'[k] = runs[k]
  BY <1>1, <1>2
<1>5. job' = [v |-> job.v, from |-> job.from, to |-> job.to, next |-> job.next,
              tries |-> job.tries, first |-> job.first, bars |-> job.bars,
              receipts |-> Tail(job.receipts)]
  BY <1>1 DEF ImportJobs
<1>6. /\ job' \in ImportJobs /\ job'.v = job.v /\ job'.first = job.first
      /\ job'.bars = job.bars /\ job'.receipts = Tail(job.receipts)
  BY <1>1, <1>2, <1>5 DEF ImportJobs
<1>7. /\ job.first \in 1..n + 1 /\ job.bars \subseteq exchange
      /\ \A k \in job.first..n : Kept(job, runs[k])
      /\ \A k \in 1..m : Kept(job, job.receipts[k])
      /\ \A t \in job.bars : \/ \E k \in job.first..n : Answered(runs[k], t)
                             \/ \E k \in 1..m : Answered(job.receipts[k], t)
  BY <1>1 DEF ImportFit, JobFit
<1>8. \A r : Kept(job', r) = Kept(job, r)
  BY <1>6 DEF Kept
<1> DEFINE rest == Tail(job.receipts)
<1>9. /\ rest \in Seq(Receipts) /\ Len(rest) = m - 1
      /\ \A k \in 1..m - 1 : rest[k] = job.receipts[k + 1]
  BY <1>2
<1> HIDE DEF n, m, x, rest
<1>10. \A k \in job.first..n + 1 : Kept(job, runs'[k])
  <2> SUFFICES ASSUME NEW k \in job.first..n + 1 PROVE Kept(job, runs'[k])
    OBVIOUS
  <2>1. CASE k = n + 1
    BY <2>1, <1>2, <1>4, <1>7
  <2>2. CASE k # n + 1
    <3>1. k \in job.first..n /\ k \in 1..n
      BY <2>2, <1>2, <1>7
    <3> QED BY <3>1, <1>4, <1>7
  <2> QED BY <2>1, <2>2
<1>11. \A k \in 1..m - 1 : Kept(job, rest[k])
  <2> SUFFICES ASSUME NEW k \in 1..m - 1 PROVE Kept(job, rest[k])
    OBVIOUS
  <2>1. k + 1 \in 1..m
    BY <1>2
  <2> QED BY <2>1, <1>7, <1>9
<1>12. ASSUME NEW t \in job.bars
       PROVE  \/ \E k \in job.first..n + 1 : Answered(runs'[k], t)
              \/ \E k \in 1..m - 1 : Answered(rest[k], t)
  <2>1. CASE \E k \in job.first..n : Answered(runs[k], t)
    <3>1. PICK k \in job.first..n : Answered(runs[k], t)
      BY <2>1
    <3>2. k \in 1..n /\ k \in job.first..n + 1
      BY <1>2, <1>7
    <3> QED BY <3>1, <3>2, <1>4
  <2>2. CASE \E k \in 1..m : Answered(job.receipts[k], t)
    <3>1. PICK k \in 1..m : Answered(job.receipts[k], t)
      BY <2>2
    <3>2. CASE k = 1
      <4>1. n + 1 \in job.first..n + 1
        BY <1>2, <1>7
      <4> QED BY <4>1, <3>1, <3>2, <1>2, <1>4
    <3>3. CASE k # 1
      <4>1. k - 1 \in 1..m - 1 /\ k = (k - 1) + 1
        BY <3>3, <1>2
      <4>2. rest[k - 1] = job.receipts[k]
        BY <4>1, <1>9
      <4> QED BY <3>1, <4>1, <4>2
    <3> QED BY <3>2, <3>3
  <2> QED BY <2>1, <2>2, <1>7
<1>13. /\ m = 1 => phase' = "write" /\ rest = <<>>
       /\ m # 1 => phase' = "record" /\ rest # <<>>
  <2>1. m = 1 => Len(rest) = 0
    BY <1>9
  <2>2. m # 1 => Len(rest) # 0
    BY <1>2, <1>9
  <2>3. Len(<<>>) = 0 /\ (Len(rest) = 0 => rest = <<>>)
    BY <1>9
  <2>4. phase' = IF m = 1 THEN "write" ELSE "record"
    BY <1>1 DEF m
  <2> QED BY <2>1, <2>2, <2>3, <2>4
<1>14. JobFit'
  <2>1. /\ phase' \in {"record", "write"} /\ job'.first \in 1..Len(runs') + 1
        /\ phase' = "record" => job'.receipts # <<>>
        /\ phase' = "write" => job'.receipts = <<>>
        /\ job'.bars \subseteq exchange'
    BY <1>1, <1>2, <1>4, <1>6, <1>7, <1>13 DEF rest
  <2>2. /\ \A k \in job'.first..Len(runs') : Kept(job', runs'[k])
        /\ \A k \in 1..Len(job'.receipts) : Kept(job', job'.receipts[k])
    BY <1>4, <1>6, <1>8, <1>9, <1>10, <1>11 DEF rest
  <2>3. \A t \in job'.bars : \/ \E k \in job'.first..Len(runs') : Answered(runs'[k], t)
                             \/ \E k \in 1..Len(job'.receipts) : Answered(job'.receipts[k], t)
    BY <1>4, <1>6, <1>9, <1>12 DEF rest
  <2> QED BY <2>1, <2>2, <2>3 DEF JobFit
<1> QED
  BY <1>1, <1>3, <1>6, <1>14 DEF ImportFit, ImportTypes

\* The bars become candles, and the command's receipts are borne out.
LEMMA WriteCandlesKeep == ASSUME ImportFit, Import!WriteCandles PROVE ImportFit'
<1>1. /\ UNCHANGED <<exchange, runs, gaps>> /\ phase = "write"
      /\ candles' = candles \cup {[v |-> job.v, t |-> t] : t \in job.bars}
      /\ ended' = ended \cup job.first..Len(runs)
      /\ \/ phase' = "gaps" /\ tornJob' = tornJob \cup {job.v} /\ UNCHANGED job
         \/ job.v \in Import!Checked /\ Import!Turns /\ UNCHANGED tornJob
  BY DEF Import!WriteCandles
<1>2. /\ job.first \in 1..(Len(runs) + 1) /\ job.receipts = <<>> /\ job.bars \subseteq exchange
      /\ \A k \in job.first..Len(runs) : Kept(job, runs[k])
      /\ \A t \in job.bars : \/ \E k \in job.first..Len(runs) : Answered(runs[k], t)
                             \/ \E k \in 1..Len(job.receipts) : Answered(job.receipts[k], t)
      /\ Len(<<>>) = 0 /\ Len(runs) \in Nat
  BY <1>1 DEF ImportFit, ImportTypes, JobFit
<1>3. job.first..Len(runs) \subseteq 1..Len(runs)
  BY <1>2
<1>4. \A v : Import!Stored(v) \subseteq Import!Stored(v)'
  BY <1>1 DEF Import!Stored
<1>5. ASSUME NEW v, v = job.v PROVE job.bars \subseteq Import!Stored(v)'
  <2> SUFFICES ASSUME NEW t \in job.bars PROVE t \in Import!Stored(v)'
    OBVIOUS
  <2> DEFINE c == [v |-> job.v, t |-> t]
  <2>1. c \in candles' /\ c.v = v /\ c.t = t
    BY <1>1, <1>5
  <2> QED BY <2>1, Zenon DEF Import!Stored
<1>6. Import!NothingInvented'
  <2> SUFFICES ASSUME NEW c \in candles'
               PROVE  /\ c.t \in exchange
                      /\ \E k \in 1..Len(runs) :
                           /\ runs[k].v = c.v /\ ~runs[k].failed
                           /\ Import!Day(c.t) \in runs[k].from..runs[k].to
    BY <1>1 DEF Import!NothingInvented
  <2>1. CASE c \in candles
    BY <2>1 DEF ImportFit, Import!ImportHonest, Import!NothingInvented
  <2>2. CASE c \notin candles
    <3>1. PICK t \in job.bars : c = [v |-> job.v, t |-> t]
      BY <1>1, <2>2
    <3>2. c.v = job.v /\ c.t = t
      BY <3>1
    <3>3. PICK k \in job.first..Len(runs) : Answered(runs[k], t)
      BY <3>1, <1>2
    <3>4. k \in 1..Len(runs) /\ Kept(job, runs[k])
      BY <1>2, <1>3
    <3> QED BY <3>2, <3>3, <3>4, <1>2 DEF Answered, Kept
  <2> QED BY <2>1, <2>2
<1>7. Import!FetchedWhole'
  <2> SUFFICES ASSUME NEW k \in ended', ~runs[k].failed, ~runs[k].clamped
               PROVE  runs[k].held \subseteq Import!Stored(runs[k].v)'
    BY <1>1 DEF Import!FetchedWhole, Import!Stored
  <2>1. CASE k \in ended
    <3>1. runs[k].held \subseteq Import!Stored(runs[k].v)
      BY <2>1 DEF ImportFit, Import!ImportHonest, Import!FetchedWhole
    <3> QED BY <3>1, <1>1 DEF Import!Stored
  <2>2. CASE k \in job.first..Len(runs)
    <3>1. runs[k].held \subseteq job.bars /\ runs[k].v = job.v
      BY <2>2, <1>2 DEF Kept
    <3> QED BY <3>1, <1>1, <1>5 DEF Import!Stored
  <2> QED BY <2>1, <2>2, <1>1
<1>8. Import!GapsTrue'
  <2> SUFFICES ASSUME NEW v \in Import!Imported, v \notin tornJob, v # job.v
               PROVE  {g \in gaps : g.v = v} = Import!Holes(v)'
    <3>1. job.v \in Import!Checked => job.v \notin Import!Imported
      BY DEF Import!Checked, Import!Imported, Import!Angel
    <3> QED BY <3>1, <1>1 DEF Import!GapsTrue
  <2>1. {x \in candles' : x.v = v} = {x \in candles : x.v = v}
    BY <1>1
  <2>2. {g \in gaps : g.v = v} = Import!Holes(v)
    BY DEF ImportFit, Import!ImportHonest, Import!GapsTrue
  <2> QED BY <2>1, <2>2 DEF Import!Holes, Import!DaysHeld, Import!Stored
<1>9. CASE UNCHANGED job /\ phase' = "gaps"
  <2>1. ImportTypes' /\ JobFit'
    BY <1>1, <1>2, <1>3, <1>9 DEF ImportFit, ImportTypes, JobFit
  <2> QED BY <2>1, <1>6, <1>7, <1>8 DEF ImportFit, Import!ImportHonest
<1>10. CASE Import!Turns
  <2>1. ImportTypes'
    BY <1>1, <1>2, <1>3, <1>10, TurnsFits DEF ImportFit, ImportTypes
  <2> QED BY <2>1, <1>1, <1>6, <1>7, <1>8, <1>10, TurnsFits, TakenUp DEF Import!ImportHonest
<1> QED
  BY <1>1, <1>9, <1>10

\* The holes of a series are found anew, and those of the others stay.
LEMMA DetectGapsKeep == ASSUME ImportFit, Import!DetectGaps PROVE ImportFit'
<1>1. /\ UNCHANGED <<exchange, runs, candles, ended>> /\ phase' = "idle"
      /\ job' = Import!NoJob /\ tornJob' = tornJob \ {job.v}
      /\ gaps' = {g \in gaps : g.v # job.v} \cup Import!Holes(job.v)
  BY DEF Import!DetectGaps
<1>2. ImportTypes' /\ JobFit'
  <2>1. job' \in ImportJobs
    BY <1>1, IdleJob
  <2> QED BY <2>1, <1>1 DEF ImportFit, ImportTypes, JobFit
<1>3. Import!NothingInvented' /\ Import!FetchedWhole'
  BY <1>1 DEF ImportFit, Import!ImportHonest, Import!NothingInvented, Import!FetchedWhole,
              Import!Stored
<1>4. \A v : \A g \in Import!Holes(v) : g.v = v
  BY DEF Import!Holes
<1>5. \A v : Import!Holes(v)' = Import!Holes(v)
  BY <1>1 DEF Import!Holes, Import!DaysHeld, Import!Stored
<1>6. Import!GapsTrue'
  <2> SUFFICES ASSUME NEW v \in Import!Imported, v \notin tornJob'
               PROVE  {g \in gaps' : g.v = v} = Import!Holes(v)
    BY <1>5 DEF Import!GapsTrue
  <2>1. CASE v = job.v
    BY <2>1, <1>1, <1>4
  <2>2. CASE v # job.v
    <3>1. {g \in gaps : g.v = v} = Import!Holes(v)
      BY <2>2, <1>1 DEF ImportFit, Import!ImportHonest, Import!GapsTrue
    <3> QED BY <2>2, <3>1, <1>1, <1>4
  <2> QED BY <2>1, <2>2
<1> QED
  BY <1>2, <1>3, <1>6 DEF ImportFit, Import!ImportHonest

LEMMA ImportStep == ASSUME ImportFit, Import!Next \/ UNCHANGED importVars PROVE ImportFit'
<1>1. CASE UNCHANGED importVars
  BY <1>1 DEF importVars, ImportFit, ImportTypes, JobFit, Import!ImportHonest, Import!GapsTrue,
              Import!NothingInvented, Import!FetchedWhole, Import!Holes, Import!DaysHeld,
              Import!Stored
<1>2. CASE Import!Next
  BY <1>2, StartsKeep, FetchKeeps, NoBarsKeep, RecordRunKeeps, WriteCandlesKeep, DetectGapsKeep
     DEF Import!Next
<1> QED
  BY <1>1, <1>2

-----------------------------------------------------------------------------
(* The replay of a session.                                                 *)
Ticks == Int \X Int
OpenTrades ==
  [entered : Int, entryMid : Int, entry : Int, seen : SUBSET Ticks, mfe : Int, mae : Int]
ClosedTrades ==
  [entered : Int, exited : Int, entry : Int, entryMid : Int, mid : Int, price : Int,
   why : {"ladder", "forced"}, seen : SUBSET Ticks, mfe : Int, mae : Int]

\* What a trade was decided on is older than its fill.
Blind(t) == \A x \in t.seen : x[1] = session /\ 4 * x[2] + 3 < t.entered
Brackets(t, mid) == t.mae <= mid - t.entry /\ mid - t.entry <= t.mfe

ReplayTypes ==
  /\ session \in Int /\ minute \in Nat /\ minute <= Bars /\ step \in {"feed", "exit", "entry", "over"}
  /\ step \in {"exit", "entry"} => minute < Bars
  /\ open \in OpenTrades \cup {None} /\ replayed \in Seq(ClosedTrades)
  /\ bar \in Seq(Int) /\ Len(bar) <= 4 /\ lastMid \in Int \cup {None}
  /\ seen \in SUBSET Ticks
  /\ \A x \in seen : /\ x[1] = session /\ x[2] <= minute
                     /\ step = "feed" => x[2] < minute

\* The open trade has been through the points of its bars so far, from the one it was
\* filled at on.
Past(t) == \/ t.entered < 4 * minute \/ step = "entry"
           \/ step = "exit" /\ Len(bar) < 4
OpenFit ==
  open # None =>
    /\ step # "over" /\ Blind(open) /\ open.entry = open.entryMid + HalfSpread
    /\ open.entered <= 4 * minute /\ open.entered <= 4 * (Bars - 1) /\ open.mfe >= 0
    /\ Past(open) => open.mae <= open.entryMid - open.entry
    /\ step = "exit" /\ bar # <<>> => bar[Len(bar)] = lastMid
    /\ step = "exit" /\ open.entered = 4 * minute /\ Len(bar) = 4 => bar[1] = open.entryMid
    /\ /\ lastMid # None
       /\ (step = "exit" /\ bar = <<>>) \/ step = "entry"
          \/ (step = "feed" /\ open.entered < 4 * minute)
       => Brackets(open, lastMid)
    /\ replayed # <<>> => replayed[Len(replayed)].exited < open.entered

ClosedFit ==
  /\ \A k \in 1..Len(replayed) :
       LET t == replayed[k] IN
       Blind(t) /\ t.entered <= t.exited /\ t.exited <= 4 * minute + 3 /\ Brackets(t, t.mid)
  /\ \A k \in 1..Len(replayed) - 1 : replayed[k].exited < replayed[k + 1].entered

ReplayFit == ReplayTypes /\ OpenFit /\ ClosedFit

LEMMA ReplayStart == Replays!Init => ReplayFit
<1> SUFFICES ASSUME Replays!Init PROVE ReplayFit
  OBVIOUS
<1> USE DEF Replays!Init
<1>1. Len(<<>>) = 0 /\ \A S : <<>> \in Seq(S)
  OBVIOUS
<1> QED
  BY <1>1, ReplayAssumption DEF ReplayFit, ReplayTypes, OpenFit, ClosedFit

\* One more minute: what is fed lies no later than it.
LEMMA FeedsKeep == ASSUME ReplayFit, Replays!Feed PROVE ReplayFit'
<1>1. /\ UNCHANGED <<session, minute, open, replayed>> /\ step = "feed" /\ step' = "exit"
      /\ minute < Bars /\ minute \in Nat /\ Warmup \in Nat /\ Bars \in Nat /\ None \notin Int
      /\ seen' = seen \cup {<<session, m>> : m \in IF minute >= Warmup THEN 0..minute ELSE {minute}}
  BY ReplayAssumption DEF Replays!Feed, Replays!Visible, ReplayFit, ReplayTypes
<1>2. session \in Int /\ seen \in SUBSET Ticks
      /\ \A x \in seen : x[1] = session /\ x[2] < minute
  BY <1>1 DEF ReplayFit, ReplayTypes
<1>3. seen' \in SUBSET Ticks /\ \A x \in seen' : x[1] = session /\ x[2] <= minute
  <2>1. ASSUME NEW x \in seen' PROVE x \in Ticks /\ x[1] = session /\ x[2] <= minute
    <3>1. CASE x \in seen
      BY <3>1, <1>1, <1>2 DEF Ticks
    <3>2. CASE x \notin seen
      <4>1. PICK m \in 0..minute : x = <<session, m>>
        BY <3>2, <2>1, <1>1
      <4> QED BY <4>1, <1>1, <1>2 DEF Ticks
    <3> QED BY <3>1, <3>2
  <2> QED BY <2>1
<1>4. \/ /\ bar' = <<>> /\ lastMid' = None
         /\ (open = None \/ open.entered # 4 * minute)
      \/ \E b \in Replays!OptionBars :
           /\ open # None /\ (open.entered = 4 * minute => b[1] = open.entryMid)
           /\ bar' = b /\ lastMid' = b[4]
  BY <1>1 DEF Replays!Feed, Replays!At
<1>5. CASE bar' = <<>> /\ lastMid' = None /\ (open = None \/ open.entered # 4 * minute)
  <2>1. Len(<<>>) = 0 /\ <<>> \in Seq(Int)
    OBVIOUS
  <2>2. ReplayTypes'
    BY <1>1, <1>2, <1>3, <1>5, <2>1 DEF ReplayFit, ReplayTypes
  <2>3. open # None => open.entered < 4 * minute /\ open \in OpenTrades
    BY <1>1, <1>5 DEF ReplayFit, ReplayTypes, OpenFit, OpenTrades
  <2>4. OpenFit'
    BY <1>1, <1>5, <2>1, <2>3 DEF ReplayFit, OpenFit, Blind, Past
  <2>5. ClosedFit'
    BY <1>1 DEF ReplayFit, ClosedFit, Blind, Brackets
  <2> QED BY <2>2, <2>4, <2>5 DEF ReplayFit
<1>6. ASSUME NEW b \in Replays!OptionBars, open # None,
             open.entered = 4 * minute => b[1] = open.entryMid, bar' = b, lastMid' = b[4]
      PROVE  ReplayFit'
  <2>1. b \in Seq(Int) /\ Len(b) = 4 /\ b[4] \in Int /\ b # <<>>
    <3>1. PICK o \in OptionPrices, l \in OptionPrices, h \in OptionPrices, c \in OptionPrices :
            b = <<o, l, h, c>>
      BY DEF Replays!OptionBars, Replays!Points
    <3> QED BY <3>1, ReplayAssumption
  <2>2. ReplayTypes'
    BY <1>1, <1>2, <1>3, <1>6, <2>1 DEF ReplayFit, ReplayTypes
  <2>3. OpenFit'
    BY <1>1, <1>6, <2>1 DEF ReplayFit, OpenFit, Blind, Past
  <2>4. ClosedFit'
    BY <1>1 DEF ReplayFit, ClosedFit, Blind, Brackets
  <2> QED BY <2>2, <2>3, <2>4 DEF ReplayFit
<1> QED
  BY <1>4, <1>5, <1>6

\* A point of the bar widens the excursion to hold it.
LEMMA MovedTrade ==
  ASSUME NEW t \in OpenTrades, NEW p \in Int
  PROVE  LET u == Replays!Moved(t, p) IN
         /\ u \in OpenTrades /\ u.seen = t.seen /\ u.entered = t.entered
         /\ u.entry = t.entry /\ u.entryMid = t.entryMid
         /\ u.mae <= t.mae /\ t.mfe <= u.mfe /\ Brackets(u, p)
<1> DEFINE up == Replays!Greater(t.mfe, p - t.entry)
           down == Replays!Lesser(t.mae, p - t.entry)
           u == Replays!Moved(t, p)
<1>1. t.mfe \in Int /\ t.mae \in Int /\ t.entry \in Int /\ t.entered \in Int
      /\ t.entryMid \in Int /\ t.seen \in SUBSET Ticks
  BY DEF OpenTrades
<1>2. /\ up \in Int /\ up >= t.mfe /\ up >= p - t.entry
      /\ down \in Int /\ down <= t.mae /\ down <= p - t.entry
  BY <1>1 DEF Replays!Greater, Replays!Lesser
<1>3. u = [t EXCEPT !.mfe = up, !.mae = down]
  BY DEF Replays!Moved
<1> HIDE DEF u, up, down
<1>4. /\ u \in OpenTrades /\ u.mfe = up /\ u.mae = down /\ u.seen = t.seen
      /\ u.entered = t.entered /\ u.entry = t.entry /\ u.entryMid = t.entryMid
  BY <1>1, <1>2, <1>3 DEF OpenTrades
<1>5. u.mae <= t.mae /\ t.mfe <= u.mfe /\ Brackets(u, p)
  BY <1>1, <1>2, <1>4 DEF Brackets
<1> QED
  BY <1>4, <1>5 DEF u

\* A trade that closes after the one before it joins them.
LEMMA CloseJoins ==
  ASSUME ReplayTypes, ClosedFit, NEW u \in OpenTrades, Blind(u), NEW mid \in Int,
         Brackets(u, mid), NEW at \in Int, u.entered <= at, at <= 4 * minute + 3,
         replayed # <<>> => replayed[Len(replayed)].exited < u.entered,
         NEW cause \in {"ladder", "forced"}
  PROVE  LET more == Append(replayed, Replays!Closed(u, mid, at, cause)) IN
         /\ more \in Seq(ClosedTrades)
         /\ \A k \in 1..Len(more) :
              /\ Blind(more[k]) /\ more[k].entered <= more[k].exited
              /\ more[k].exited <= 4 * minute + 3 /\ Brackets(more[k], more[k].mid)
         /\ \A k \in 1..Len(more) - 1 : more[k].exited < more[k + 1].entered
<1> DEFINE out == Replays!Closed(u, mid, at, cause)
           paid == Replays!Greater(mid - HalfSpread, LeastPrice)
           more == Append(replayed, out)
<1>1. /\ out.seen = u.seen /\ out.entered = u.entered /\ out.exited = at /\ out.mid = mid
      /\ out.mfe = u.mfe /\ out.mae = u.mae /\ out.entry = u.entry
  BY DEF Replays!Closed
<1>2. paid \in Int
  BY ReplayAssumption DEF Replays!Greater
<1>3. out = [entered |-> u.entered, exited |-> at, entry |-> u.entry, entryMid |-> u.entryMid,
             mid |-> mid, price |-> paid, why |-> cause, seen |-> u.seen, mfe |-> u.mfe,
             mae |-> u.mae]
  BY DEF Replays!Closed
<1>4. /\ u.entered \in Int /\ u.entry \in Int /\ u.entryMid \in Int /\ u.seen \in SUBSET Ticks
      /\ u.mfe \in Int /\ u.mae \in Int
  BY DEF OpenTrades
<1> HIDE DEF paid, out
<1>5. out \in ClosedTrades
  BY ONLY <1>2, <1>3, <1>4, mid \in Int, at \in Int, cause \in {"ladder", "forced"}
     DEF ClosedTrades
<1>6. Blind(out) /\ Brackets(out, out.mid) /\ out.entered <= out.exited
      /\ out.exited <= 4 * minute + 3
  BY <1>1, <1>4 DEF Blind, Brackets
<1>7. replayed \in Seq(ClosedTrades)
  BY DEF ReplayTypes
<1>8. /\ more \in Seq(ClosedTrades) /\ Len(more) = Len(replayed) + 1 /\ Len(replayed) \in Nat
      /\ \A k \in 1..Len(replayed) : more[k] = replayed[k]
      /\ more[Len(replayed) + 1] = out
  BY <1>5, <1>7
<1> HIDE DEF more
<1>9. ASSUME NEW k \in 1..Len(more)
      PROVE  /\ Blind(more[k]) /\ more[k].entered <= more[k].exited
             /\ more[k].exited <= 4 * minute + 3 /\ Brackets(more[k], more[k].mid)
  <2>1. CASE k \in 1..Len(replayed)
    BY <2>1, <1>8 DEF ClosedFit
  <2>2. CASE k = Len(replayed) + 1
    BY <2>2, <1>6, <1>8
  <2> QED BY <2>1, <2>2, <1>8
<1>10. ASSUME NEW k \in 1..Len(more) - 1 PROVE more[k].exited < more[k + 1].entered
  <2>1. CASE k \in 1..Len(replayed) - 1
    BY <2>1, <1>8 DEF ClosedFit
  <2>2. CASE k = Len(replayed)
    <3>1. replayed # <<>> /\ more[k] = replayed[Len(replayed)] /\ more[k + 1] = out
      BY <2>2, <1>7, <1>8
    <3> QED BY <3>1, <1>1
  <2> QED BY <2>1, <2>2, <1>8
<1> QED
  BY <1>8, <1>9, <1>10 DEF more, out

LEMMA AtMostFour == ASSUME NEW n \in Nat, n # 0, n <= 4 PROVE n \in 1..4
OBVIOUS

\* The points of a bar are numbered within its minute.
LEMMA PointsOfBar ==
  ASSUME NEW b \in Seq(Int), Len(b) <= 4, b # <<>>
  PROVE  Head(b) \in Int /\ Head(b) = b[1] /\ Len(b) \in 1..4
<1>1. Len(b) \in 1..4
  <2>1. Len(b) \in Nat /\ Len(b) # 0
    OBVIOUS
  <2> QED
    BY <2>1, AtMostFour
<1>2. Head(b) = b[1] /\ b[1] \in Int
  BY <1>1
<1> QED
  BY <1>1, <1>2

LEMMA PointAt ==
  ASSUME NEW m \in Nat, NEW n \in 1..4, NEW e \in Int, e <= 4 * m
  PROVE  /\ e < 4 * m \/ n < 4 \/ (e = 4 * m /\ n = 4)
         /\ 4 * m + (4 - n) \in Int /\ e <= 4 * m + (4 - n) /\ 4 * m + (4 - n) <= 4 * m + 3
OBVIOUS

\* A point of the bar either moves the open trade or closes it.
LEMMA ExitsKeep == ASSUME ReplayFit, Replays!StepExit PROVE ReplayFit'
<1>1. /\ UNCHANGED <<session, minute, seen, lastMid>> /\ step = "exit"
      /\ minute \in Nat /\ minute <= Bars /\ Bars \in Nat /\ None \notin Int /\ session \in Int
      /\ bar \in Seq(Int) /\ Len(bar) <= 4 /\ lastMid \in Int \cup {None}
      /\ ReplayTypes /\ OpenFit /\ ClosedFit
  BY ReplayAssumption DEF Replays!StepExit, ReplayFit, ReplayTypes
<1>a. bar \in Seq(Int) /\ Len(bar) <= 4
  BY <1>1
<1>b. minute \in Nat
  BY <1>1
<1>c. UNCHANGED <<session, minute, seen, lastMid>> /\ step = "exit"
  BY <1>1
<1>2. CASE open = None \/ bar = <<>>
  <2>1. step' = "entry" /\ UNCHANGED <<open, replayed, bar>>
    BY <1>2 DEF Replays!StepExit
  <2>2. ReplayTypes'
    BY <1>1, <2>1 DEF ReplayTypes
  <2>3. Len(<<>>) = 0
    OBVIOUS
  <2>4. OpenFit'
    BY <1>1, <1>2, <2>1, <2>3 DEF OpenFit, Blind, Past, Brackets
  <2>5. ClosedFit'
    BY <1>1, <2>1 DEF ClosedFit, Blind, Brackets
  <2> QED BY <2>2, <2>4, <2>5 DEF ReplayFit
<1>3. CASE open # None /\ bar # <<>>
  <2>1. open \in OpenTrades /\ Head(bar) \in Int /\ Head(bar) = bar[1] /\ Len(bar) \in 1..4
    <3>1. open \in OpenTrades
      BY <1>1, <1>3 DEF ReplayTypes
    <3> QED BY <3>1, <1>a, <1>3, PointsOfBar
  <2>2. PICK u \in OpenTrades :
          /\ u = Replays!Moved(open, Head(bar)) /\ u.seen = open.seen
          /\ u.entered = open.entered /\ u.entry = open.entry /\ u.entryMid = open.entryMid
          /\ u.mae <= open.mae /\ open.mfe <= u.mfe /\ Brackets(u, Head(bar))
    BY <2>1, MovedTrade
  <2>3. /\ Blind(open) /\ open.entered <= 4 * minute /\ open.entered <= 4 * (Bars - 1)
        /\ open.entry = open.entryMid + HalfSpread /\ open.mfe >= 0
        /\ replayed # <<>> => replayed[Len(replayed)].exited < open.entered
    BY <1>1, <1>3 DEF OpenFit
  <2>4. Blind(u)
    BY <2>2, <2>3 DEF Blind
  <2>5. /\ open.entered \in Int /\ open.mae \in Int /\ open.mfe \in Int /\ open.entry \in Int
        /\ open.entryMid \in Int /\ u.mae \in Int /\ u.mfe \in Int
    BY <2>1, <2>2 DEF OpenTrades
  <2>6. \/ open' = u /\ bar' = Tail(bar) /\ UNCHANGED <<step, replayed>>
        \/ /\ replayed' = Append(replayed, Replays!Closed(u, Head(bar), 4 * minute + (4 - Len(bar)), "ladder"))
           /\ open' = None /\ bar' = <<>> /\ step' = "entry"
    BY <1>3, <2>2 DEF Replays!StepExit, Replays!At
  <2>7. CASE open' = u /\ bar' = Tail(bar) /\ UNCHANGED <<step, replayed>>
    <3>1. /\ bar' \in Seq(Int) /\ Len(bar') = Len(bar) - 1
          /\ \A k \in 1..Len(bar') : bar'[k] = bar[k + 1]
      BY <1>1, <1>3, <2>7
    <3>2. ReplayTypes'
      BY <1>1, <2>1, <2>2, <2>7, <3>1 DEF ReplayTypes
    <3>3. u.mae <= u.entryMid - u.entry
      <4>1. CASE open.entered < 4 * minute \/ Len(bar) < 4
        <5>1. Past(open)
          BY <4>1, <1>c DEF Past
        <5>2. open.mae <= open.entryMid - open.entry
          BY <5>1, <1>1, <1>3 DEF OpenFit
        <5>3. u.mae <= open.mae /\ u.entry = open.entry /\ u.entryMid = open.entryMid
          BY <2>2
        <5> QED BY <5>2, <5>3, <2>5
      <4>2. CASE open.entered = 4 * minute /\ Len(bar) = 4
        <5>1. Head(bar) = open.entryMid
          BY <4>2, <1>1, <1>3, <2>1 DEF OpenFit
        <5> QED BY <5>1, <2>2, <2>5 DEF Brackets
      <4>3. open.entered <= 4 * minute
        BY <2>3
      <4>4. Len(bar) \in 1..4 /\ open.entered \in Int
        BY <2>1, <2>5
      <4>5. \/ open.entered < 4 * minute \/ Len(bar) < 4
            \/ open.entered = 4 * minute /\ Len(bar) = 4
        BY <4>3, <4>4, <1>b, PointAt
      <4> QED BY <4>1, <4>2, <4>5
    <3>4. bar' # <<>> => bar'[Len(bar')] = lastMid
      BY <1>1, <1>3, <2>1, <3>1 DEF OpenFit
    <3>5. bar' = <<>> => Brackets(u, lastMid)
      <4>1. ASSUME bar' = <<>> PROVE Len(bar) = 1
        BY <4>1, <2>1, <3>1
      <4>2. bar[Len(bar)] = lastMid
        BY <1>1, <1>3 DEF OpenFit
      <4> QED BY <4>1, <4>2, <2>1, <2>2
    <3>6. Len(bar') # 4
      BY <2>1, <3>1
    <3>7. OpenFit'
      <4>1. /\ step' = "exit" /\ session' = session /\ minute' = minute
            /\ lastMid' = lastMid /\ replayed' = replayed /\ open' = u
        BY <1>c, <2>7
      <4>2. Blind(u)'
        BY <2>4, <4>1 DEF Blind
      <4>3. /\ u.entry = u.entryMid + HalfSpread /\ u.entered <= 4 * minute
            /\ u.entered <= 4 * (Bars - 1) /\ u.mfe >= 0
            /\ replayed # <<>> => replayed[Len(replayed)].exited < u.entered
        BY <2>2, <2>3, <2>5
      <4>4. bar' = <<>> => Brackets(u, lastMid)'
        BY <3>5, <4>1 DEF Brackets
      <4> QED
        BY <4>1, <4>2, <4>3, <4>4, <3>3, <3>4, <3>6 DEF OpenFit
    <3>8. ClosedFit'
      BY <1>1, <2>7 DEF ClosedFit, Blind, Brackets
    <3> QED BY <3>2, <3>7, <3>8 DEF ReplayFit
  <2>8. CASE /\ replayed' = Append(replayed, Replays!Closed(u, Head(bar), 4 * minute + (4 - Len(bar)), "ladder"))
             /\ open' = None /\ bar' = <<>> /\ step' = "entry"
    <3> DEFINE at == 4 * minute + (4 - Len(bar))
    <3>1. at \in Int /\ u.entered <= at /\ at <= 4 * minute + 3
      <4>1. Len(bar) \in 1..4 /\ u.entered = open.entered /\ open.entered \in Int
        BY <2>1, <2>2, <2>5
      <4>2. open.entered <= 4 * minute
        BY <2>3
      <4> QED BY <4>1, <4>2, <1>b, PointAt
    <3>2. replayed' = Append(replayed, Replays!Closed(u, Head(bar), at, "ladder"))
      BY <2>8
    <3> HIDE DEF at
    <3>3. /\ replayed' \in Seq(ClosedTrades)
          /\ \A k \in 1..Len(replayed') :
               /\ Blind(replayed'[k]) /\ replayed'[k].entered <= replayed'[k].exited
               /\ replayed'[k].exited <= 4 * minute + 3 /\ Brackets(replayed'[k], replayed'[k].mid)
          /\ \A k \in 1..Len(replayed') - 1 : replayed'[k].exited < replayed'[k + 1].entered
      BY <1>1, <2>1, <2>2, <2>3, <2>4, <3>1, <3>2, CloseJoins
    <3>4. <<>> \in Seq(Int) /\ Len(<<>>) = 0
      OBVIOUS
    <3>5. ReplayTypes'
      BY <1>1, <2>8, <3>3, <3>4 DEF ReplayTypes
    <3>6. OpenFit'
      BY <2>8 DEF OpenFit
    <3>7. ClosedFit'
      BY <1>1, <3>3 DEF ClosedFit, Blind, Brackets
    <3> QED BY <3>5, <3>6, <3>7 DEF ReplayFit
  <2> QED BY <2>6, <2>7, <2>8
<1> QED
  BY <1>2, <1>3

\* An entry is decided on what has been fed, and fills with the next minute.
LEMMA EntriesKeep == ASSUME ReplayFit, Replays!LookForEntry PROVE ReplayFit'
<1>1. /\ UNCHANGED <<session, seen, bar, lastMid, replayed>> /\ step = "entry" /\ step' = "feed"
      /\ minute' = minute + 1
      /\ ReplayTypes /\ OpenFit /\ ClosedFit
  BY DEF Replays!LookForEntry, ReplayFit
<1>2. minute \in Nat /\ Bars \in Nat /\ minute < Bars /\ minute' \in Nat /\ minute' <= Bars
  BY <1>1, ReplayAssumption DEF ReplayTypes
<1>3. \A x \in seen : x[1] = session /\ x[2] <= minute /\ x[2] \in Int
  BY <1>1 DEF ReplayTypes, Ticks
<1>4. \A x \in seen' : x[1] = session' /\ x[2] <= minute' /\ x[2] < minute'
  BY <1>1, <1>2, <1>3
<1>8. \A k \in 1..Len(replayed) : replayed[k].exited \in Int
  <2>1. replayed \in Seq(ClosedTrades)
    BY <1>1 DEF ReplayTypes
  <2>2. \A k \in 1..Len(replayed) : replayed[k] \in ClosedTrades
    BY <2>1
  <2> QED BY <2>2 DEF ClosedTrades
<1>5. ClosedFit'
  <2>1. ASSUME NEW k \in 1..Len(replayed), replayed[k].exited <= 4 * minute + 3
        PROVE  replayed[k].exited <= 4 * minute' + 3
    <3>1. replayed[k].exited \in Int
      BY <1>8
    <3> QED BY <2>1, <3>1, <1>1, <1>2
  <2> QED
    BY <2>1, <1>1 DEF ClosedFit, Blind, Brackets
<1>6. CASE UNCHANGED open
  <2>1. ReplayTypes'
    BY <1>1, <1>2, <1>4, <1>6 DEF ReplayTypes
  <2>2. OpenFit'
    <3> SUFFICES ASSUME open # None PROVE OpenFit'
      BY <1>6 DEF OpenFit
    <3>1. open.entered \in Int
      BY <1>1 DEF ReplayTypes, OpenTrades
    <3>2. /\ Blind(open) /\ open.entered <= 4 * minute /\ open.entered <= 4 * (Bars - 1)
          /\ open.entry = open.entryMid + HalfSpread /\ open.mfe >= 0
          /\ open.mae <= open.entryMid - open.entry
          /\ lastMid # None => Brackets(open, lastMid)
          /\ replayed # <<>> => replayed[Len(replayed)].exited < open.entered
      BY <1>1 DEF OpenFit, Past
    <3>3. open.entered <= 4 * minute'
      BY <3>1, <3>2, <1>1, <1>2
    <3> QED
      BY <1>1, <1>6, <3>2, <3>3 DEF OpenFit, Blind, Brackets
  <2> QED BY <2>1, <2>2, <1>5 DEF ReplayFit
<1>7. ASSUME Replays!CanEnter, NEW mid \in OptionPrices,
             open' = [entered |-> 4 * (minute + 1) + 0, entryMid |-> mid,
                      entry |-> mid + HalfSpread, seen |-> seen, mfe |-> 0, mae |-> 0]
      PROVE  ReplayFit'
  <2>1. minute + 1 < Bars /\ mid \in Int /\ HalfSpread \in Nat
    BY <1>7, ReplayAssumption DEF Replays!CanEnter
  <2>2. 4 * (minute + 1) + 0 = 4 * minute'
    BY <1>1, <1>2
  <2>3. /\ open'.entered = 4 * minute' /\ open'.entry = open'.entryMid + HalfSpread
        /\ open'.seen = seen /\ open'.mfe = 0
    BY <1>7, <2>2
  <2>4. open' \in OpenTrades
    <3>1. 4 * (minute + 1) + 0 \in Int /\ mid + HalfSpread \in Int /\ seen \in SUBSET Ticks
      BY <1>1, <1>2, <2>1 DEF ReplayTypes
    <3> QED BY ONLY <3>1, <2>1, <1>7 DEF OpenTrades
  <2>5. ReplayTypes'
    BY <1>1, <1>2, <1>4, <2>4 DEF ReplayTypes
  <2>6. Blind(open)'
    <3>1. ASSUME NEW x \in seen PROVE x[1] = session /\ 4 * x[2] + 3 < 4 * minute'
      BY <1>1, <1>2, <1>3
    <3> QED BY <3>1, <2>3, <1>1 DEF Blind
  <2>7. /\ open'.entered <= 4 * minute' /\ ~(open'.entered < 4 * minute')
        /\ open'.entered <= 4 * (Bars - 1) /\ open'.mfe >= 0
    BY <1>1, <1>2, <2>1, <2>3
  <2>8. replayed # <<>> => replayed[Len(replayed)].exited < open'.entered
    <3> SUFFICES ASSUME replayed # <<>>
                 PROVE  replayed[Len(replayed)].exited < 4 * minute'
      BY <2>3
    <3>1. Len(replayed) \in 1..Len(replayed)
      BY <1>1 DEF ReplayTypes
    <3>2. replayed[Len(replayed)].exited <= 4 * minute + 3
      BY <3>1, <1>1 DEF ClosedFit
    <3>3. replayed[Len(replayed)].exited \in Int
      BY <3>1, <1>8
    <3> QED BY <3>2, <3>3, <1>1, <1>2
  <2>9. OpenFit'
    BY <1>1, <2>3, <2>6, <2>7, <2>8 DEF OpenFit, Past
  <2> QED BY <2>5, <2>9, <1>5 DEF ReplayFit
<1> QED
  BY <1>6, <1>7 DEF Replays!LookForEntry, Replays!At

\* The end of the session closes what is open at a price the excursion holds.
LEMMA SessionEndsKeep == ASSUME ReplayFit, Replays!SessionEnds PROVE ReplayFit'
<1>1. /\ UNCHANGED <<session, minute, seen, bar, lastMid>> /\ step = "feed" /\ step' = "over"
      /\ minute = Bars /\ open' = None /\ ReplayTypes /\ OpenFit /\ ClosedFit
  BY DEF Replays!SessionEnds, ReplayFit
<1>2. Bars \in Nat /\ HalfSpread \in Nat /\ None \notin Int
  BY ReplayAssumption
<1>3. OpenFit'
  BY <1>1 DEF OpenFit
<1>4. CASE open = None
  <2>1. replayed' = replayed
    BY <1>4 DEF Replays!SessionEnds
  <2>2. ReplayTypes'
    BY <1>1, <2>1 DEF ReplayTypes
  <2>3. ClosedFit'
    BY <1>1, <2>1 DEF ClosedFit, Blind, Brackets
  <2> QED BY <1>3, <2>2, <2>3 DEF ReplayFit
<1>5. CASE open # None
  <2> DEFINE mid == IF lastMid = None THEN open.entryMid ELSE lastMid
             at == 4 * (Bars - 1)
  <2>1. replayed' = Append(replayed, Replays!Closed(open, mid, at, "forced"))
    BY <1>2, <1>5 DEF Replays!SessionEnds, Replays!At
  <2>2. /\ open \in OpenTrades /\ open.entered \in Int /\ open.entryMid \in Int
        /\ open.entry \in Int /\ open.mae \in Int /\ open.mfe \in Int
    BY <1>1, <1>5 DEF ReplayTypes, OpenTrades
  <2>3. /\ Blind(open) /\ open.entered <= 4 * (Bars - 1) /\ open.mfe >= 0
        /\ open.entry = open.entryMid + HalfSpread
        /\ replayed # <<>> => replayed[Len(replayed)].exited < open.entered
    BY <1>1, <1>5 DEF OpenFit
  <2>4. open.entered < 4 * minute /\ at \in Int /\ open.entered <= at /\ at <= 4 * minute + 3
    BY <1>1, <1>2, <2>2, <2>3
  <2>5. mid \in Int
    BY <1>1, <2>2 DEF ReplayTypes
  <2>6. Brackets(open, mid)
    <3>1. CASE lastMid = None
      <4>1. open.mae <= open.entryMid - open.entry
        BY <1>1, <1>5, <2>4 DEF OpenFit, Past
      <4>2. mid = open.entryMid
        BY <3>1
      <4> QED BY <4>1, <4>2, <1>2, <2>2, <2>3 DEF Brackets
    <3>2. CASE lastMid # None
      BY <1>1, <1>5, <2>4, <3>2 DEF OpenFit, Brackets
    <3> QED BY <3>1, <3>2
  <2> HIDE DEF mid, at
  <2>7. /\ replayed' \in Seq(ClosedTrades)
        /\ \A k \in 1..Len(replayed') :
             /\ Blind(replayed'[k]) /\ replayed'[k].entered <= replayed'[k].exited
             /\ replayed'[k].exited <= 4 * minute + 3 /\ Brackets(replayed'[k], replayed'[k].mid)
        /\ \A k \in 1..Len(replayed') - 1 : replayed'[k].exited < replayed'[k + 1].entered
    BY <1>1, <2>1, <2>2, <2>3, <2>4, <2>5, <2>6, CloseJoins
  <2>8. ReplayTypes'
    BY <1>1, <2>7 DEF ReplayTypes
  <2>9. ClosedFit'
    BY <1>1, <2>7 DEF ClosedFit, Blind, Brackets
  <2> QED BY <1>3, <2>8, <2>9 DEF ReplayFit
<1> QED
  BY <1>4, <1>5

\* A session starts with nothing of the one before it.
LEMMA NextSessionKeep == ASSUME ReplayFit, Replays!NextSession PROVE ReplayFit'
<1>1. /\ session' = session + 1 /\ minute' = 0 /\ step' = "feed" /\ bar' = <<>>
      /\ lastMid' = None /\ replayed' = <<>> /\ seen' = {} /\ open' = open /\ step = "over"
  BY DEF Replays!NextSession, Replays!FreshState
<1>2. session \in Int /\ open = None /\ Bars \in Nat
  BY <1>1, ReplayAssumption DEF ReplayFit, ReplayTypes, OpenFit
<1>3. Len(<<>>) = 0 /\ \A S : <<>> \in Seq(S)
  OBVIOUS
<1> QED
  BY <1>1, <1>2, <1>3 DEF ReplayFit, ReplayTypes, OpenFit, ClosedFit

LEMMA ReplayStep == ASSUME ReplayFit, Replays!Next \/ UNCHANGED replayVars PROVE ReplayFit'
<1>1. CASE UNCHANGED replayVars
  BY <1>1 DEF replayVars, ReplayFit, ReplayTypes, OpenFit, ClosedFit, Past, Blind, Brackets
<1>2. CASE Replays!Next
  BY <1>2, FeedsKeep, ExitsKeep, EntriesKeep, SessionEndsKeep, NextSessionKeep
     DEF Replays!Next
<1> QED
  BY <1>1, <1>2

\* What keeps the replay fit makes it a statement about the bot.
LEMMA ReplayIsHonest == ReplayFit => Replays!ReplayHonest
<1> SUFFICES ASSUME ReplayFit PROVE Replays!ReplayHonest
  OBVIOUS
<1>1. Replays!NoLookAhead
  BY DEF Replays!NoLookAhead, Replays!At, ReplayFit, OpenFit, ClosedFit, Blind
<1>2. Replays!OneAtATime
  BY DEF Replays!OneAtATime, ReplayFit, OpenFit, ClosedFit
<1>3. Replays!ExcursionsBracket
  BY DEF Replays!ExcursionsBracket, ReplayFit, ClosedFit, Brackets
<1> QED
  BY <1>1, <1>2, <1>3 DEF Replays!ReplayHonest

\* While one of the three parts moves, its invariant holds; the others do not touch it.
DataInv ==
  In("archive", ArchiveFit) /\ In("import", ImportFit) /\ In("replay", ReplayFit)

LEMMA DataInvStart == RecInit => DataInv
  BY ArchiveStart, ImportStart, ReplayStart DEF RecInit, DataInv, In

LEMMA DataInvStep == ASSUME DataInv, [RecNext]_recordVars PROVE DataInv'
<1>1. UNCHANGED part
  BY DEF RecNext, recordVars, SessionMoves, ArchiveMoves, ImportMoves, ReplayMoves, RestMoves,
         ReportMoves, JournalMoves, CalendarMoves, BacktestMoves, VisualMoves
<1>2. /\ part = "archive" => Archive!Next \/ UNCHANGED archiveVars
      /\ part = "import" => Import!Next \/ UNCHANGED importVars
      /\ part = "replay" => Replays!Next \/ UNCHANGED replayVars
  BY DEF RecNext, recordVars, SessionMoves, ArchiveMoves, ImportMoves, ReplayMoves, RestMoves,
         ReportMoves, JournalMoves, CalendarMoves, BacktestMoves, VisualMoves
<1>3. CASE part = "archive"
  BY <1>1, <1>2, <1>3, ArchiveStep DEF DataInv, In
<1>4. CASE part = "import"
  BY <1>1, <1>2, <1>4, ImportStep DEF DataInv, In
<1>5. CASE part = "replay"
  BY <1>1, <1>2, <1>5, ReplayStep DEF DataInv, In
<1>6. CASE part \notin {"archive", "import", "replay"}
  BY <1>1, <1>6 DEF DataInv, In
<1> QED
  BY <1>3, <1>4, <1>5, <1>6

\* For any number of days, options, starts of the collector, jobs of the importer, minutes
\* and trades: a tick the collector took is on file, on its way there or among the lost, its
\* reference is a spot of that second, and days the gate lets pass hide no loss longer than
\* the gap it allows; a receipt claims the candles the table has, and each hole is reported
\* or the exchange's; a replay sees nothing ahead of its trades, however minutes and
\* sessions follow one another (collector, store and gate; importer; backtest harness).
THEOREM DataIsHonest == RecSpec => []MarketDataHonest
<1>1. RecInit => DataInv
  BY DataInvStart
<1>2. DataInv /\ [RecNext]_recordVars => DataInv'
  BY DataInvStep
<1>3. DataInv => MarketDataHonest
  BY GateHidesNothing, ReplayIsHonest
     DEF DataInv, MarketDataHonest, In, ArchiveFit, ImportFit
<1> QED
  BY <1>1, <1>2, <1>3, PTL DEF RecSpec

-----------------------------------------------------------------------------
(* The calendar: what is written down of the exchange, and what is inferred. *)

CalendarTypes ==
  /\ shut \in SUBSET MayShut /\ today \in 0..Waits
  /\ master = [ver |-> master.ver, rows |-> master.rows] /\ master.ver \in Nat
  /\ known = [ver |-> known.ver, rows |-> known.rows] /\ known.ver \in -1..master.ver
  /\ statted \in -1..master.ver
  /\ writing \in [{"master", "holidays"} -> SUBSET Int]

\* An expiry is the last open day up to a scheduled one; a listed one was, when it was listed.
MovedFrom(e, d) ==
  /\ d \in Year!Scheduled /\ e \in 0..d /\ e >= d - 3
  /\ \A x \in e + 1..d : ~Year!Open(x)

Listed(R) == \A e \in Year!Readable(R) : \E d \in Int : MovedFrom(e, d)

ListsFit == Listed(master.rows) /\ Listed(writing["master"]) /\ Listed(known.rows)

\* The cache holds what the version it names held.
CacheFit == known.ver = master.ver => known.rows = Year!Readable(master.rows)

Ahead == {e \in Year!Expiries : e >= today}

\* After a download the file, or what is being written to it, lists what lies ahead.
FreshFit ==
  fresh => IF writing["master"] = Year!Torn
           THEN master.rows # Year!Torn /\ Ahead \subseteq master.rows
           ELSE Ahead \subseteq writing["master"]

\* Only shut days are declared, and what was told is on file or about to be.
DeclaredFit ==
  /\ Year!Readable(declared) \subseteq shut /\ Year!Readable(writing["holidays"]) \subseteq shut
  /\ IF writing["holidays"] # Year!Torn
     THEN declared = Year!Torn /\ told \subseteq writing["holidays"]
     ELSE IF declared = Year!Torn THEN told = {} ELSE told \subseteq declared

CalendarFit == CalendarTypes /\ ListsFit /\ CacheFit /\ FreshFit /\ DeclaredFit

MayBeOpen(d) == d % 7 < 5 /\ d \notin MayShut

\* The exchange lists a day for every scheduled one, and no open day lies between.
LEMMA ExpiryIs ==
  ASSUME shut \in SUBSET MayShut, NEW d \in Year!Scheduled
  PROVE  MovedFrom(Year!Expiry(d), d) /\ Year!Open(Year!Expiry(d))
<1>1. d \in 0..LastDay /\ d % 7 = ExpiryWeekday /\ LastDay \in Nat
  BY CalendarAssumption DEF Year!Scheduled, Year!Days, Year!Weekday
<1>2. PICK a \in d - 3..d : a >= 0 /\ MayBeOpen(a)
  BY <1>1, CalendarAssumption DEF MayBeOpen
<1>3. Year!Open(a)
  BY <1>2 DEF MayBeOpen, Year!Open, Year!Weekend, Year!Weekday
<1> DEFINE S == {e \in 0..d : Year!Open(e)}
<1>4. S \in SUBSET Int /\ d \in Int /\ a \in S /\ a <= d
  BY <1>1, <1>2, <1>3
<1>5. PICK e \in S : e <= d /\ \A y \in S : y <= d => y <= e
  <2> HIDE DEF S
  <2>1. \E x \in S : x <= d
    BY <1>4
  <2> QED BY <1>4, <2>1, Greatest
<1>6. e \in 0..d /\ Year!Open(e) /\ a <= e
  BY <1>4, <1>5
<1>7. \A x \in e + 1..d : ~Year!Open(x)
  <2> SUFFICES ASSUME NEW x \in e + 1..d, Year!Open(x) PROVE FALSE
    OBVIOUS
  <2>1. x \in 0..d /\ x <= d /\ ~(x <= e)
    BY <1>1, <1>6
  <2>2. x \in S
    BY <2>1
  <2> QED BY <1>5, <2>1, <2>2
<1>8. ASSUME NEW f \in 0..d, Year!Open(f), \A x \in f + 1..d : ~Year!Open(x) PROVE f = e
  <2>1. f <= e
    BY <1>8, <1>1, <1>5
  <2>2. f < e => e \in f + 1..d
    BY <1>6, <1>1
  <2> QED BY <2>1, <2>2, <1>6, <1>8
<1>9. Year!Expiry(d) = e
  <2>1. e \in 0..d /\ Year!Open(e) /\ \A x \in e + 1..d : ~Year!Open(x)
    BY <1>6, <1>7
  <2> DEFINE Q(f) == Year!Open(f) /\ \A x \in f + 1..d : ~Year!Open(x)
  <2>2. Year!Expiry(d) = CHOOSE f \in 0..d : Q(f)
    BY DEF Year!Expiry
  <2>3. e \in 0..d /\ Q(e) /\ \A f \in 0..d : Q(f) => f = e
    BY <2>1, <1>8
  <2> HIDE DEF Q
  <2> QED BY <2>2, <2>3
<1>10. e >= d - 3
  BY <1>1, <1>2, <1>6
<1> QED
  BY <1>6, <1>7, <1>9, <1>10 DEF MovedFrom

\* What closes stays closed.
LEMMA StaysMoved ==
  ASSUME shut \subseteq shut', NEW e, NEW d, MovedFrom(e, d)
  PROVE  MovedFrom(e, d)'
<1>1. \A x : Year!Open(x)' => Year!Open(x)
  BY DEF Year!Open
<1>2. (d \in Year!Scheduled)' <=> d \in Year!Scheduled
  BY DEF Year!Scheduled, Year!Days, Year!Weekday
<1> QED
  BY <1>1, <1>2 DEF MovedFrom

LEMMA StaysListed ==
  ASSUME shut \subseteq shut', NEW R, Listed(R)
  PROVE  (\A e \in Year!Readable(R) : \E d \in Int : MovedFrom(e, d)')
  BY StaysMoved DEF Listed

\* What the exchange lists is a list.
LEMMA AheadIsListed ==
  ASSUME shut \in SUBSET MayShut, NEW e \in Year!Expiries
  PROVE  \E d \in Int : MovedFrom(e, d)
<1>1. PICK d \in Year!Scheduled : e = Year!Expiry(d)
  BY DEF Year!Expiries
<1>2. d \in Int
  BY CalendarAssumption DEF Year!Scheduled, Year!Days
<1> QED BY <1>1, <1>2, ExpiryIs

LEMMA CalendarStart == Year!Init => CalendarFit
<1> SUFFICES ASSUME Year!Init PROVE CalendarFit
  OBVIOUS
<1> USE DEF Year!Init
<1>1. CalendarTypes
  BY CalendarAssumption DEF CalendarTypes, Year!Torn, Year!Nothing
<1>2. ASSUME NEW d \in Year!Scheduled PROVE MovedFrom(d, d) /\ Year!Expiry(d) = d /\ d \in Int /\ d >= 0
  <2>1. d \in 0..LastDay /\ d % 7 = ExpiryWeekday /\ LastDay \in Nat /\ ExpiryWeekday \in 0..4
    BY CalendarAssumption DEF Year!Scheduled, Year!Days, Year!Weekday
  <2>2. Year!Open(d)
    BY <2>1 DEF Year!Open, Year!Weekend, Year!Weekday
  <2>3. Year!Expiry(d) \in 0..d /\ \A x \in Year!Expiry(d) + 1..d : ~Year!Open(x)
    BY ExpiryIs DEF MovedFrom
  <2>4. Year!Expiry(d) = d
    <3>1. Year!Expiry(d) < d => d \in Year!Expiry(d) + 1..d
      BY <2>1, <2>3
    <3> QED BY <3>1, <2>1, <2>2, <2>3
  <2>5. d \in 0..d /\ d >= d - 3 /\ \A x \in d + 1..d : ~Year!Open(x)
    BY <2>1
  <2> QED BY <2>1, <2>4, <2>5 DEF MovedFrom
<1>3. master.rows = Year!Scheduled /\ known.rows = {} /\ writing["master"] = Year!Torn
      /\ writing["holidays"] = Year!Torn
  OBVIOUS
<1>4. ListsFit
  BY <1>2, <1>3 DEF ListsFit, Listed, Year!Readable
<1>5. CacheFit
  BY DEF CacheFit, Year!Nothing
<1>6. FreshFit
  <2>1. master.rows # Year!Torn
    <3>1. -1 \notin Year!Scheduled
      BY <1>2
    <3> QED BY <3>1, <1>3 DEF Year!Torn
  <2>2. Year!Expiries \subseteq master.rows
    BY <1>2, <1>3 DEF Year!Expiries
  <2> QED BY <1>3, <2>1, <2>2 DEF FreshFit, Ahead
<1>7. DeclaredFit
  BY <1>3 DEF DeclaredFit, Year!Readable, Year!Torn
<1> QED
  BY <1>1, <1>4, <1>5, <1>6, <1>7 DEF CalendarFit

\* The weekday that passes, and a day the exchange shuts.
LEMMA DayKeeps ==
  ASSUME CalendarFit, Year!DayEnds
  PROVE  CalendarFit'
<1> USE DEF Year!DayEnds
<1>1. CalendarTypes'
  BY CalendarAssumption DEF CalendarFit, CalendarTypes
<1>2. ListsFit'
  BY StaysListed DEF CalendarFit, ListsFit, Listed
<1>3. CacheFit' /\ DeclaredFit'
  BY DEF CalendarFit, CacheFit, DeclaredFit
<1>4. FreshFit'
  <2>1. Year!Expiries' = Year!Expiries
    BY DEF Year!Expiries, Year!Expiry, Year!Open
  <2>2. Year!Expiries \subseteq Int
    <3> SUFFICES ASSUME NEW e \in Year!Expiries PROVE e \in Int
      OBVIOUS
    <3>1. PICK d \in Int : MovedFrom(e, d)
      BY AheadIsListed DEF CalendarFit, CalendarTypes
    <3> QED BY <3>1 DEF MovedFrom
  <2>3. today' = today + 1 /\ today \in Int
    BY DEF CalendarFit, CalendarTypes
  <2>4. ASSUME NEW e \in Year!Expiries, e >= today' PROVE e >= today
    <3>1. e \in Int
      BY <2>2
    <3> QED BY <3>1, <2>3, <2>4
  <2>5. Ahead' \subseteq Ahead
    BY <2>1, <2>4 DEF Ahead
  <2> QED BY <2>5 DEF CalendarFit, FreshFit
<1> QED
  BY <1>1, <1>2, <1>3, <1>4 DEF CalendarFit

LEMMA AnnouncesKeeps ==
  ASSUME CalendarFit, Year!Announces
  PROVE  CalendarFit'
<1>1. PICK d \in MayShut \ shut : shut' = shut \cup {d}
  BY DEF Year!Announces
<1>2. ~fresh' /\ UNCHANGED <<today, declared, master, known, statted, writing, told>>
  BY DEF Year!Announces
<1>3. CalendarTypes'
  BY <1>1, <1>2 DEF CalendarFit, CalendarTypes
<1>4. ListsFit'
  BY <1>1, <1>2, StaysListed DEF CalendarFit, ListsFit, Listed
<1>5. CacheFit' /\ DeclaredFit' /\ FreshFit'
  BY <1>1, <1>2 DEF CalendarFit, CacheFit, DeclaredFit, FreshFit
<1> QED
  BY <1>3, <1>4, <1>5 DEF CalendarFit

\* What is being written to the one file leaves the other alone.
LEMMA MasterWritten ==
  ASSUME CalendarTypes, NEW R, R \in SUBSET Int, writing' = [writing EXCEPT !["master"] = R]
  PROVE  /\ writing' \in [{"master", "holidays"} -> SUBSET Int] /\ writing'["master"] = R
         /\ writing'["holidays"] = writing["holidays"]
  BY DEF CalendarTypes

LEMMA HolidaysWritten ==
  ASSUME CalendarTypes, NEW R, R \in SUBSET Int, writing' = [writing EXCEPT !["holidays"] = R]
  PROVE  /\ writing' \in [{"master", "holidays"} -> SUBSET Int] /\ writing'["holidays"] = R
         /\ writing'["master"] = writing["master"]
  BY DEF CalendarTypes

\* Rows that are listed are days.
LEMMA ListedDays ==
  ASSUME NEW R, Listed(R)
  PROVE  Year!Readable(R) \in SUBSET Nat
  BY DEF Listed, MovedFrom

LEMMA DownloadsKeep ==
  ASSUME CalendarFit, Year!Downloads
  PROVE  CalendarFit'
<1> DEFINE R == Year!Merged
<1>1. shut \in SUBSET MayShut /\ CalendarTypes /\ Listed(master.rows)
  BY DEF CalendarFit, CalendarTypes, ListsFit
<1>2. R = Year!Readable(master.rows) \cup Ahead
  BY DEF Year!Merged, Ahead
<1>3. \A e \in R : \E d \in Int : MovedFrom(e, d)
  BY <1>1, <1>2, AheadIsListed DEF Listed, Ahead
<1>4. R \in SUBSET Nat /\ R # Year!Torn
  <2>1. R \in SUBSET Nat
    BY <1>3 DEF MovedFrom
  <2> QED BY <2>1 DEF Year!Torn
<1>5. Ahead \subseteq R
  BY <1>2
<1>6. /\ writing' = [writing EXCEPT !["master"] = R] /\ writing["master"] = Year!Torn
      /\ master' = [ver |-> master.ver + 1, rows |-> Year!Torn]
      /\ UNCHANGED <<today, shut, declared, known, statted, told>>
  BY DEF Year!Downloads, Year!Opened
<1> HIDE DEF R
<1>7. /\ writing' \in [{"master", "holidays"} -> SUBSET Int] /\ writing'["master"] = R
      /\ writing'["holidays"] = writing["holidays"]
  <2>1. R \in SUBSET Int /\ CalendarTypes /\ writing' = [writing EXCEPT !["master"] = R]
    BY <1>1, <1>4, <1>6
  <2> QED BY <2>1, MasterWritten, Zenon
<1>8. master'.ver = master.ver + 1 /\ master'.rows = Year!Torn
  BY <1>6
<1>9. CalendarTypes'
  <2>1. master' = [ver |-> master'.ver, rows |-> master'.rows]
    BY <1>6
  <2>2. master.ver \in Nat /\ known.ver \in -1..master.ver /\ statted \in -1..master.ver
    BY <1>1 DEF CalendarTypes
  <2>3. master'.ver \in Nat /\ known.ver \in -1..master'.ver /\ statted \in -1..master'.ver
    BY <2>2, <1>8
  <2> QED BY <2>1, <2>3, <1>1, <1>6, <1>7 DEF CalendarTypes
<1>10. ListsFit'
  <2>1. shut \subseteq shut'
    BY <1>6
  <2>2. Year!Readable(Year!Torn) = {} /\ Year!Readable(R) = R
    BY <1>4 DEF Year!Readable
  <2>3. Listed(R)
    BY <1>3, <2>2 DEF Listed
  <2>4. (\A e \in Year!Readable(R) : \E d \in Int : MovedFrom(e, d)')
        /\ (\A e \in Year!Readable(known.rows) : \E d \in Int : MovedFrom(e, d)')
    BY <2>1, <2>3, StaysListed DEF CalendarFit, ListsFit
  <2> QED BY <2>2, <2>4, <1>6, <1>7, <1>8 DEF ListsFit, Listed
<1>11. CacheFit'
  <2>1. known.ver # master'.ver
    BY <1>1, <1>8 DEF CalendarTypes
  <2> QED BY <2>1, <1>6 DEF CacheFit
<1>12. FreshFit'
  <2>1. Ahead' = Ahead
    BY <1>6 DEF Ahead, Year!Expiries, Year!Expiry, Year!Open
  <2> QED BY <2>1, <1>4, <1>5, <1>7 DEF FreshFit
<1>13. DeclaredFit'
  BY <1>6, <1>7 DEF CalendarFit, DeclaredFit
<1> QED
  BY <1>9, <1>10, <1>11, <1>12, <1>13 DEF CalendarFit

\* The holidays between traded days are days the exchange shut.
LEMMA FoundIsShut ==
  ASSUME NEW a \in Int, NEW b \in Int, NEW lo \in Int, NEW hi \in Int
  PROVE  Year!Found(a, b, lo, hi) \subseteq shut
<1> DEFINE traded == {d \in lo..hi : Year!Open(d)}
<1> SUFFICES ASSUME NEW x \in Year!Found(a, b, lo, hi) PROVE x \in shut
  OBVIOUS
<1>1. traded # {} /\ traded \in SUBSET Int
  BY DEF Year!Found
<1> DEFINE first == Year!Min(traded)
           last  == Year!Max(traded)
<1>2. first \in traded /\ last \in traded
  <2>1. PICK t \in traded : TRUE
    BY <1>1
  <2>2. PICK m \in traded : lo <= m /\ \A y \in traded : lo <= y => m <= y
    <3> HIDE DEF traded
    <3>1. \E y \in traded : lo <= y
      BY <2>1 DEF traded
    <3> QED BY <3>1, <1>1, Smallest
  <2>3. \A y \in traded : m <= y
    BY <2>2
  <2>4. PICK n \in traded : n <= hi /\ \A y \in traded : y <= hi => y <= n
    <3> HIDE DEF traded
    <3>1. \E y \in traded : y <= hi
      BY <2>1 DEF traded
    <3> QED BY <3>1, <1>1, Greatest
  <2>5. \A y \in traded : n >= y
    BY <2>4
  <2> HIDE DEF traded
  <2> QED BY <2>2, <2>3, <2>4, <2>5 DEF Year!Min, Year!Max
<1>3. /\ x \in Year!Max({a, first})..Year!Min({b, last})
      /\ ~Year!Weekend(x) /\ x \notin traded
  BY <1>1 DEF Year!Found
<1>4. first \in Int /\ last \in Int /\ lo <= first /\ last <= hi
  BY <1>2
<1> HIDE DEF first, last, traded
<1>5. Year!Max({a, first}) \in Int /\ Year!Max({a, first}) >= first
  BY <1>4 DEF Year!Max
<1>6. Year!Min({b, last}) \in Int /\ Year!Min({b, last}) <= last
  BY <1>4 DEF Year!Min
<1>7. x \in lo..hi
  BY <1>3, <1>4, <1>5, <1>6
<1> QED
  BY <1>3, <1>7 DEF traded, Year!Open

\* The lists on file are what they were, while only the holidays change.
LEMMA OnlyHolidays ==
  ASSUME CalendarFit, UNCHANGED <<today, shut, master, known, statted>>,
         CalendarTypes', writing'["master"] = writing["master"],
         fresh' => fresh, DeclaredFit'
  PROVE  CalendarFit'
<1>1. ListsFit'
  BY StaysListed DEF CalendarFit, ListsFit, Listed
<1>2. CacheFit' /\ FreshFit'
  BY DEF CalendarFit, CacheFit, FreshFit, Ahead, Year!Expiries, Year!Expiry, Year!Open
<1> QED BY <1>1, <1>2 DEF CalendarFit

LEMMA FetchesKeep ==
  ASSUME CalendarFit, Year!Fetches
  PROVE  CalendarFit'
<1>1. PICK F \in SUBSET shut : Year!WriteDeclared(F)
  <2>1. today \in Int /\ LastDay \in Int
    BY CalendarAssumption DEF CalendarFit, CalendarTypes
  <2>2. PICK a \in {0, today + 1}, b \in {today, LastDay}, lo \in {0, 2}, hi \in {today - 1, today} :
          Year!WriteDeclared(Year!Found(a, b, lo, hi))
    BY DEF Year!Fetches
  <2>3. a \in Int /\ b \in Int /\ lo \in Int /\ hi \in Int
    BY <2>1
  <2> QED BY <2>2, <2>3, FoundIsShut
<1> DEFINE R == Year!Readable(declared) \cup F
<1>2. /\ writing' = [writing EXCEPT !["holidays"] = R] /\ writing["holidays"] = Year!Torn
      /\ declared' = Year!Torn /\ UNCHANGED <<today, shut, master, known, statted, fresh, told>>
  BY <1>1 DEF Year!WriteDeclared, Year!Opened
<1>3. CalendarTypes /\ DeclaredFit /\ shut \in SUBSET Nat
  BY CalendarAssumption DEF CalendarFit, CalendarTypes
<1>4. R \subseteq shut /\ R \in SUBSET Int /\ R # Year!Torn
  <2>1. R \subseteq shut
    BY <1>3 DEF DeclaredFit
  <2> HIDE DEF R
  <2>2. R \in SUBSET Int /\ -1 \notin R
    BY <2>1, <1>3
  <2> QED BY <2>1, <2>2 DEF Year!Torn
<1>5. told \subseteq R
  BY <1>2, <1>3 DEF DeclaredFit, Year!Readable
<1> HIDE DEF R
<1>6. /\ writing' \in [{"master", "holidays"} -> SUBSET Int] /\ writing'["holidays"] = R
      /\ writing'["master"] = writing["master"]
  BY <1>2, <1>3, <1>4, HolidaysWritten, Zenon
<1>7. CalendarTypes'
  BY <1>2, <1>3, <1>6 DEF CalendarTypes
<1>8. DeclaredFit'
  BY <1>2, <1>4, <1>5, <1>6 DEF DeclaredFit, Year!Readable
<1> QED
  BY <1>2, <1>6, <1>7, <1>8, OnlyHolidays

LEMMA TranscribesKeeps ==
  ASSUME CalendarFit, Year!Transcribes
  PROVE  CalendarFit'
<1>1. /\ writing["holidays"] = Year!Torn /\ declared # Year!Torn
      /\ UNCHANGED <<today, shut, master, known, statted, writing, fresh>>
  BY DEF Year!Transcribes
<1>2. PICK d \in shut : declared' = declared \cup {d} /\ told' = told \cup {d}
  BY DEF Year!Transcribes
<1>3. CalendarTypes /\ DeclaredFit /\ shut \in SUBSET Nat
  BY CalendarAssumption DEF CalendarFit, CalendarTypes
<1>4. CalendarTypes'
  BY <1>1, <1>3 DEF CalendarTypes
<1>5. declared \subseteq shut /\ told \subseteq declared /\ declared' # Year!Torn
  BY <1>1, <1>2, <1>3 DEF DeclaredFit, Year!Readable, Year!Torn
<1>6. DeclaredFit'
  BY <1>1, <1>2, <1>3, <1>5 DEF DeclaredFit, Year!Readable
<1> QED
  BY <1>1, <1>4, <1>6, OnlyHolidays

\* The reader looks at the stamp and opens the file.
LEMMA ReaderKeeps ==
  ASSUME CalendarFit, Year!Stats \/ Year!Loads
  PROVE  CalendarFit'
<1>1. /\ UNCHANGED <<today, shut, declared, master, writing, fresh, told>>
      /\ CalendarTypes
  BY DEF Year!Stats, Year!Loads, CalendarFit
<1>2. \/ statted' = master.ver /\ known' = known
      \/ /\ statted \in 0..master.ver /\ statted' = -1
         /\ known' = [ver |-> statted, rows |-> Year!Readable(master.rows)]
  BY <1>1 DEF Year!Stats, Year!Loads, CalendarTypes, Year!Nothing
<1>3. CalendarTypes' /\ CacheFit'
  <2>1. CASE statted' = master.ver /\ known' = known
    BY <1>1, <2>1 DEF CalendarTypes, CalendarFit, CacheFit
  <2>2. CASE /\ statted \in 0..master.ver /\ statted' = -1
             /\ known' = [ver |-> statted, rows |-> Year!Readable(master.rows)]
    <3>1. known'.ver = statted /\ known'.rows = Year!Readable(master.rows)
          /\ known' = [ver |-> known'.ver, rows |-> known'.rows]
      BY <2>2
    <3>2. CacheFit'
      BY <1>1, <3>1 DEF CacheFit, Year!Readable
    <3>3. CalendarTypes'
      BY <1>1, <2>2, <3>1 DEF CalendarTypes
    <3> QED BY <3>2, <3>3
  <2> QED BY <1>2, <2>1, <2>2
<1>4. ListsFit'
  <2>1. known'.rows \in {known.rows, Year!Readable(master.rows)}
    BY <1>2
  <2>2. Year!Readable(Year!Readable(master.rows)) \subseteq Year!Readable(master.rows)
    BY DEF Year!Readable
  <2>3. Listed(known'.rows)
    BY <2>1, <2>2 DEF CalendarFit, ListsFit, Listed
  <2>4. \A R : Listed(R) => (\A e \in Year!Readable(R) : \E d \in Int : MovedFrom(e, d)')
    BY <1>1, StaysListed
  <2> QED BY <1>1, <2>3, <2>4 DEF CalendarFit, ListsFit, Listed
<1>5. FreshFit' /\ DeclaredFit'
  BY <1>1 DEF CalendarFit, FreshFit, DeclaredFit, Ahead, Year!Expiries, Year!Expiry, Year!Open
<1> QED
  BY <1>3, <1>4, <1>5 DEF CalendarFit

LEMMA EndsKeep ==
  ASSUME CalendarFit, NEW f \in {"master", "holidays"}, Year!Ends(f)
  PROVE  CalendarFit'
<1>1. /\ writing[f] # Year!Torn /\ writing' = [writing EXCEPT ![f] = Year!Torn]
      /\ UNCHANGED <<today, shut, known, statted, fresh>>
      /\ CalendarTypes
  BY DEF Year!Ends, CalendarFit
<1>2. Year!Torn \in SUBSET Int
  BY DEF Year!Torn
<1>3. CASE f = "master"
  <2>1. /\ master' = [ver |-> master.ver + 1, rows |-> writing["master"]]
        /\ writing["master"] # Year!Torn /\ UNCHANGED <<declared, told>>
    BY <1>1, <1>3 DEF Year!Ends
  <2>2. writing' = [writing EXCEPT !["master"] = Year!Torn]
    BY <1>1, <1>3
  <2>3. /\ writing' \in [{"master", "holidays"} -> SUBSET Int] /\ writing'["master"] = Year!Torn
        /\ writing'["holidays"] = writing["holidays"]
    BY <2>2, <1>1, <1>2, MasterWritten, Zenon
  <2>4. master'.ver = master.ver + 1 /\ master'.rows = writing["master"]
        /\ master' = [ver |-> master'.ver, rows |-> master'.rows]
    BY <2>1
  <2>5. master.ver \in Nat /\ known.ver \in -1..master.ver /\ statted \in -1..master.ver
    BY <1>1 DEF CalendarTypes
  <2>6. master'.ver \in Nat /\ known.ver \in -1..master'.ver /\ statted \in -1..master'.ver
        /\ known.ver # master'.ver
    BY <2>4, <2>5
  <2>7. CalendarTypes'
    BY <1>1, <2>3, <2>4, <2>6 DEF CalendarTypes
  <2>8. ListsFit'
    <3>1. shut \subseteq shut' /\ Year!Readable(Year!Torn) = {}
      BY <1>1 DEF Year!Readable
    <3>2. (\A e \in Year!Readable(writing["master"]) : \E d \in Int : MovedFrom(e, d)')
          /\ (\A e \in Year!Readable(known.rows) : \E d \in Int : MovedFrom(e, d)')
      BY <3>1, StaysListed DEF CalendarFit, ListsFit
    <3> QED BY <1>1, <2>3, <2>4, <3>1, <3>2 DEF ListsFit, Listed
  <2>9. CacheFit'
    BY <1>1, <2>6 DEF CacheFit
  <2>10. FreshFit'
    <3>1. Ahead' = Ahead
      BY <1>1 DEF Ahead, Year!Expiries, Year!Expiry, Year!Open
    <3> QED BY <1>1, <2>1, <2>3, <2>4, <3>1 DEF CalendarFit, FreshFit
  <2>11. DeclaredFit'
    BY <1>1, <2>1, <2>3 DEF CalendarFit, DeclaredFit
  <2> QED BY <2>7, <2>8, <2>9, <2>10, <2>11 DEF CalendarFit
<1>4. CASE f = "holidays"
  <2>1. /\ declared' = writing["holidays"] /\ told' = told \cup writing["holidays"]
        /\ writing["holidays"] # Year!Torn /\ master' = master
    BY <1>1, <1>4 DEF Year!Ends
  <2>2. writing' = [writing EXCEPT !["holidays"] = Year!Torn]
    BY <1>1, <1>4
  <2>3. /\ writing' \in [{"master", "holidays"} -> SUBSET Int] /\ writing'["holidays"] = Year!Torn
        /\ writing'["master"] = writing["master"]
    BY <2>2, <1>1, <1>2, HolidaysWritten, Zenon
  <2>4. CalendarTypes'
    BY <1>1, <2>1, <2>3 DEF CalendarTypes
  <2>5. told \subseteq writing["holidays"] /\ Year!Readable(writing["holidays"]) \subseteq shut
    BY <2>1 DEF CalendarFit, DeclaredFit
  <2>6. DeclaredFit'
    BY <1>1, <2>1, <2>3, <2>5 DEF DeclaredFit, Year!Readable
  <2> QED BY <1>1, <2>1, <2>3, <2>4, <2>6, OnlyHolidays
<1> QED BY <1>3, <1>4

LEMMA DiesKeep ==
  ASSUME CalendarFit, NEW f \in {"master", "holidays"}, Year!Dies(f)
  PROVE  CalendarFit'
<1>1. /\ writing[f] # Year!Torn /\ writing' = [writing EXCEPT ![f] = Year!Torn]
      /\ UNCHANGED <<today, shut, declared, master, known, statted>>
      /\ CalendarTypes
  BY DEF Year!Dies, CalendarFit
<1>2. Year!Torn \in SUBSET Int
  BY DEF Year!Torn
<1>3. CASE f = "master"
  <2>1. ~fresh' /\ told' = told
    BY <1>1, <1>3 DEF Year!Dies
  <2>2. writing' = [writing EXCEPT !["master"] = Year!Torn]
    BY <1>1, <1>3
  <2>3. /\ writing' \in [{"master", "holidays"} -> SUBSET Int] /\ writing'["master"] = Year!Torn
        /\ writing'["holidays"] = writing["holidays"]
    BY <2>2, <1>1, <1>2, MasterWritten, Zenon
  <2>4. CalendarTypes'
    BY <1>1, <2>1, <2>3 DEF CalendarTypes
  <2>5. ListsFit'
    <3>1. shut \subseteq shut' /\ Year!Readable(Year!Torn) = {}
      BY <1>1 DEF Year!Readable
    <3>2. (\A e \in Year!Readable(master.rows) : \E d \in Int : MovedFrom(e, d)')
          /\ (\A e \in Year!Readable(known.rows) : \E d \in Int : MovedFrom(e, d)')
      BY <3>1, StaysListed DEF CalendarFit, ListsFit
    <3> QED BY <1>1, <2>3, <3>1, <3>2 DEF ListsFit, Listed
  <2>6. CacheFit' /\ FreshFit' /\ DeclaredFit'
    BY <1>1, <2>1, <2>3 DEF CalendarFit, CacheFit, FreshFit, DeclaredFit
  <2> QED BY <2>4, <2>5, <2>6 DEF CalendarFit
<1>4. CASE f = "holidays"
  <2>1. told' = {} /\ fresh' = fresh
    BY <1>1, <1>4 DEF Year!Dies
  <2>2. writing' = [writing EXCEPT !["holidays"] = Year!Torn] /\ writing["holidays"] # Year!Torn
    BY <1>1, <1>4
  <2>3. /\ writing' \in [{"master", "holidays"} -> SUBSET Int] /\ writing'["holidays"] = Year!Torn
        /\ writing'["master"] = writing["master"]
    BY <2>2, <1>1, <1>2, HolidaysWritten, Zenon
  <2>4. CalendarTypes'
    BY <1>1, <2>1, <2>3 DEF CalendarTypes
  <2>5. DeclaredFit'
    BY <1>1, <2>1, <2>2, <2>3 DEF CalendarFit, DeclaredFit, Year!Readable
  <2> QED BY <1>1, <2>1, <2>3, <2>4, <2>5, OnlyHolidays
<1> QED BY <1>3, <1>4

LEMMA CalendarStep == ASSUME CalendarFit, Year!Next \/ UNCHANGED calendarVars PROVE CalendarFit'
<1>1. CASE UNCHANGED calendarVars
  BY <1>1 DEF calendarVars, CalendarFit, CalendarTypes, ListsFit, Listed, MovedFrom, CacheFit, FreshFit,
     DeclaredFit, Ahead, Year!Expiries, Year!Expiry, Year!Open
<1>2. CASE Year!Next
  BY <1>2, DayKeeps, AnnouncesKeeps, DownloadsKeep, FetchesKeep, TranscribesKeeps, ReaderKeeps,
     EndsKeep, DiesKeep DEF Year!Next
<1> QED
  BY <1>1, <1>2

\* What a reader takes for the contracts was listed.
LEMMA ContractsListed ==
  ASSUME CalendarFit
  PROVE  /\ \A e \in Year!Contracts : \E d \in Int : MovedFrom(e, d)
         /\ Year!Contracts = Year!Readable(master.rows)
         /\ Year!Contracts \in SUBSET (0..LastDay)
<1>1. Year!Contracts = Year!Readable(master.rows)
  BY DEF CalendarFit, CacheFit, Year!Contracts
<1>2. \A e \in Year!Contracts : \E d \in Int : MovedFrom(e, d)
  BY <1>1 DEF CalendarFit, ListsFit, Listed
<1>3. \A e, d : MovedFrom(e, d) => e \in 0..LastDay
  BY CalendarAssumption DEF MovedFrom, Year!Scheduled, Year!Days
<1> QED BY <1>1, <1>2, <1>3

LEMMA YearCounts == ASSUME NEW S PROVE Year!Cardinality(S) = Cardinality(S)
  BY DEF Year!Cardinality, Cardinality

\* A bounded set of numbers has a greatest and a least.
LEMMA HasMin ==
  ASSUME NEW S \in SUBSET Nat, S # {}
  PROVE  Year!Min(S) \in S /\ \A y \in S : Year!Min(S) <= y
<1>1. S \in SUBSET Int /\ \A x \in S : 0 <= x
  OBVIOUS
<1>2. PICK m \in S : 0 <= m /\ \A y \in S : 0 <= y => m <= y
  <2>1. PICK x \in S : TRUE
    OBVIOUS
  <2>2. \E z \in S : 0 <= z
    BY <2>1, <1>1
  <2>3. 0 \in Int
    OBVIOUS
  <2> QED BY <2>2, <2>3, <1>1, Smallest, Zenon
<1>3. \A y \in S : m <= y
  BY <1>1, <1>2
<1> QED BY <1>3 DEF Year!Min

\* The usual weekday is the weekday of some contract.
LEMMA UsualIs ==
  ASSUME CalendarFit, Year!Contracts # {}
  PROVE  \E e \in Year!Contracts : Year!Usual = Year!Weekday(e)
<1> DEFINE met  == {Year!Weekday(e) : e \in Year!Contracts}
           most == {w \in met : \A v \in met :
                      Year!Cardinality(Year!OnWeekday(w)) >= Year!Cardinality(Year!OnWeekday(v))}
           counts == {Cardinality(Year!OnWeekday(w)) : w \in met}
           firsts == {Year!Min(Year!OnWeekday(w)) : w \in most}
<1>1. Year!Contracts \in SUBSET (0..LastDay) /\ IsFiniteSet(0..LastDay)
      /\ Cardinality(0..LastDay) \in Nat
  BY ContractsListed, CalendarAssumption, FS_Interval, FS_CardinalityType
<1>2. ASSUME NEW w \in met
      PROVE  /\ Year!OnWeekday(w) # {} /\ Year!OnWeekday(w) \in SUBSET Nat
             /\ Cardinality(Year!OnWeekday(w)) \in Nat
             /\ Cardinality(Year!OnWeekday(w)) <= Cardinality(0..LastDay)
  <2>1. Year!OnWeekday(w) \in SUBSET (0..LastDay) /\ Year!OnWeekday(w) # {}
    BY <1>1 DEF Year!OnWeekday
  <2>2. 0..LastDay \in SUBSET Nat
    OBVIOUS
  <2> QED BY <1>1, <2>1, <2>2, FS_Subset, FS_CardinalityType
<1>3. met # {}
  OBVIOUS
<1>4. most # {}
  <2> DEFINE N == Cardinality(0..LastDay)
  <2>1. N \in Int /\ counts \in SUBSET Int /\ \E x \in counts : x <= N
    BY <1>1, <1>2, <1>3
  <2>2. PICK c \in counts : \A y \in counts : y <= N => y <= c
    <3> HIDE DEF counts, N
    <3> QED BY <2>1, Greatest
  <2>3. PICK w \in met : c = Cardinality(Year!OnWeekday(w))
    BY <2>2
  <2>4. \A v \in met : Cardinality(Year!OnWeekday(w)) >= Cardinality(Year!OnWeekday(v))
    <3> SUFFICES ASSUME NEW v \in met
                 PROVE  Cardinality(Year!OnWeekday(w)) >= Cardinality(Year!OnWeekday(v))
      OBVIOUS
    <3>1. Cardinality(Year!OnWeekday(v)) \in counts
      OBVIOUS
    <3>2. Cardinality(Year!OnWeekday(v)) <= Cardinality(Year!OnWeekday(w))
      BY <1>2, <2>2, <2>3, <3>1
    <3> QED BY <1>2, <3>2
  <2>5. w \in most
    BY <2>4, YearCounts
  <2> QED BY <2>5
<1> HIDE DEF most
<1>5. most \subseteq met
  BY DEF most
<1> HIDE DEF met
<1>6. \A w \in most : Year!Min(Year!OnWeekday(w)) \in Nat
  BY <1>2, <1>5, HasMin
<1>7. PICK m \in firsts : \A y \in firsts : 0 <= y => m <= y
  <2>1. firsts \in SUBSET Int /\ \E x \in firsts : 0 <= x
    BY <1>4, <1>6
  <2> HIDE DEF firsts
  <2> QED BY <2>1, Smallest
<1>8. PICK w \in most : m = Year!Min(Year!OnWeekday(w))
  BY <1>7
<1>9. \A v \in most : Year!Min(Year!OnWeekday(w)) <= Year!Min(Year!OnWeekday(v))
  BY <1>6, <1>7, <1>8
<1>10. Year!Usual = CHOOSE u \in most : \A v \in most :
                      Year!Min(Year!OnWeekday(u)) <= Year!Min(Year!OnWeekday(v))
  BY DEF Year!Usual, most, met
<1>11. Year!Usual \in most
  BY <1>9, <1>10
<1> QED
  BY <1>5, <1>11 DEF met

\* How far apart two expiries moved from the same weekday seem to be.
LEMMA ModShift ==
  ASSUME NEW d \in Nat, NEW b \in Nat, d % 7 = b % 7, NEW m \in 0..3, NEW n \in 0..3,
         d - m \in Nat, b - n \in Nat
  PROVE  /\ m >= n => (((b - n) % 7) - ((d - m) % 7)) % 7 = m - n
         /\ m < n => (((b - n) % 7) - ((d - m) % 7)) % 7 > 3
  OBVIOUS

\* What is inferred is a day the exchange shut.
LEMMA InferredIsShut ==
  ASSUME CalendarFit, NEW x \in Year!Inferred
  PROVE  x \in Int /\ ~Year!Open(x)
<1>1. PICK e \in Year!Contracts : Year!Shift(e, Year!Usual) > 0 /\ x = e + Year!Shift(e, Year!Usual)
  BY DEF Year!Inferred
<1>2. PICK f \in Year!Contracts : Year!Usual = Year!Weekday(f)
  BY <1>1, UsualIs
<1>3. PICK d \in Int : MovedFrom(e, d)
  BY ContractsListed
<1>4. PICK b \in Int : MovedFrom(f, b)
  BY ContractsListed
<1> DEFINE m == d - e
           n == b - f
           s == (Year!Usual - Year!Weekday(e)) % 7
<1>5. /\ d \in Nat /\ b \in Nat /\ e \in Nat /\ f \in Nat /\ m \in 0..3 /\ n \in 0..3
      /\ d % 7 = b % 7 /\ e = d - m /\ f = b - n
  BY <1>3, <1>4, CalendarAssumption DEF MovedFrom, Year!Scheduled, Year!Days, Year!Weekday
<1>6. s = (((b - n) % 7) - ((d - m) % 7)) % 7
  BY <1>2, <1>5 DEF Year!Weekday
<1> HIDE DEF m, n, s
<1>7. (m >= n => s = m - n) /\ (m < n => s > 3)
  <2> DEFINE z == (((b - n) % 7) - ((d - m) % 7)) % 7
  <2>1. d - m \in Nat /\ b - n \in Nat
    BY <1>5
  <2>2. (m >= n => z = m - n) /\ (m < n => z > 3)
    BY <2>1, <1>5, ModShift, Zenon
  <2> HIDE DEF z
  <2> QED BY <2>2, <1>6 DEF z
<1>8. Year!Shift(e, Year!Usual) = IF s <= 3 THEN s ELSE 0
  BY DEF Year!Shift, s
<1>9. s <= 3 /\ s > 0 /\ x = e + s
  BY <1>1, <1>5, <1>7, <1>8
<1>10. m >= n /\ s = m - n
  <2>1. s \in Int /\ m \in Int /\ n \in Int
    BY <1>5, <1>6
  <2>2. ~(m < n)
    BY <2>1, <1>7, <1>9
  <2> QED BY <2>1, <2>2, <1>7
<1>11. x \in e + 1..d
  BY <1>5, <1>9, <1>10
<1> QED
  BY <1>3, <1>11 DEF MovedFrom

LEMMA HolidaysAreShut ==
  ASSUME CalendarFit, NEW x \in Year!Holidays
  PROVE  ~Year!Open(x)
  BY InferredIsShut DEF Year!Holidays, CalendarFit, DeclaredFit, Year!Open

\* The day a program sleeps to comes, and no session lies before it.
LEMMA NextDayIs ==
  ASSUME CalendarFit, NEW d \in Year!Days
  PROVE  /\ Year!NextTradingDay(d, Year!Holidays) \in d + 1..d + 7
         /\ \A x \in d + 1..Year!NextTradingDay(d, Year!Holidays) - 1 : ~Year!Open(x)
<1> DEFINE H == Year!Holidays
           S == {x \in d + 1..d + 7 : Year!IsTradingDay(x, H)}
<1>1. d \in 0..LastDay /\ LastDay \in Nat
  BY CalendarAssumption DEF Year!Days
<1>2. PICK a \in d + 1..d + 7 : MayBeOpen(a)
  BY <1>1, CalendarAssumption DEF MayBeOpen
<1>3. Year!Open(a) /\ ~Year!Weekend(a)
  BY <1>2 DEF MayBeOpen, Year!Open, Year!Weekend, Year!Weekday, CalendarFit, CalendarTypes
<1>4. a \notin H
  BY <1>3, HolidaysAreShut
<1>5. a \in S /\ S \in SUBSET Nat
  BY <1>1, <1>2, <1>3, <1>4 DEF Year!IsTradingDay
<1>6. Year!NextTradingDay(d, H) = Year!Min(S)
  BY DEF Year!NextTradingDay
<1>7. Year!Min(S) \in S /\ \A y \in S : Year!Min(S) <= y
  <2> HIDE DEF S
  <2> QED BY <1>5, HasMin
<1>8. Year!Min(S) \in d + 1..d + 7
  BY <1>7
<1>9. ASSUME NEW x \in d + 1..Year!Min(S) - 1, Year!Open(x) PROVE FALSE
  <2>1. x \in d + 1..d + 7 /\ ~(Year!Min(S) <= x)
    BY <1>1, <1>8
  <2>2. x \notin S
    BY <2>1, <1>7
  <2>3. x \in H \/ Year!Weekend(x)
    BY <2>1, <2>2 DEF Year!IsTradingDay
  <2> QED BY <2>3, <1>9, HolidaysAreShut DEF Year!Open
<1> HIDE DEF S, H
<1>10. \A x \in d + 1..Year!Min(S) - 1 : ~Year!Open(x)
  BY <1>9
<1> QED
  BY <1>6, <1>8, <1>10 DEF H

LEMMA NoneIsMissed == CalendarFit => Year!NoSessionMissed
<1> SUFFICES ASSUME CalendarFit, NEW d \in Year!Days
             PROVE  /\ Year!Open(d) => Year!MarketOpen(d, "session", Year!Holidays)
                    /\ \A clk \in Year!Clock :
                         LET n == Year!StandbyDay(d, clk, Year!Holidays)
                             w == IF n = d THEN Year!WaitDay(d, clk, Year!Holidays)
                                  ELSE Year!WaitDay(n, "before", Year!Holidays)
                         IN  \A x \in d + 1..w - 1 : ~Year!Open(x)
  BY DEF Year!NoSessionMissed
<1> DEFINE H == Year!Holidays
           t == Year!NextTradingDay(d, H)
<1>1. Year!Open(d) => Year!MarketOpen(d, "session", H)
  BY HolidaysAreShut DEF Year!MarketOpen, Year!IsTradingDay, Year!Open
<1>2. t \in d + 1..d + 7 /\ d \in Int /\ \A x \in d + 1..t - 1 : ~Year!Open(x)
  BY NextDayIs, CalendarAssumption DEF Year!Days
<1> HIDE DEF t, H
<1>3. t # d
  BY <1>2
<1> SUFFICES ASSUME NEW clk \in Year!Clock
             PROVE  LET n == Year!StandbyDay(d, clk, H)
                        w == IF n = d THEN Year!WaitDay(d, clk, H) ELSE Year!WaitDay(n, "before", H)
                    IN  \A x \in d + 1..w - 1 : ~Year!Open(x)
  BY <1>1 DEF H
<1>4. CASE clk = "after"
  <2>1. Year!StandbyDay(d, clk, H) = t
    BY <1>4 DEF Year!StandbyDay, t
  <2>2. Year!WaitDay(t, "before", H) = t
    BY DEF Year!WaitDay
  <2> QED BY <2>1, <2>2, <1>2, <1>3
<1>5. CASE clk # "after"
  <2>1. Year!StandbyDay(d, clk, H) = d /\ Year!WaitDay(d, clk, H) = d
    BY <1>5 DEF Year!StandbyDay, Year!WaitDay
  <2>2. d + 1..d - 1 = {}
    BY <1>2
  <2> QED BY <2>1, <2>2
<1> QED BY <1>4, <1>5

\* The nearest contract is the exchange's nearest expiry.
LEMMA FrontIsRight == CalendarFit => Year!FrontExpiry
<1> SUFFICES ASSUME CalendarFit, fresh, writing["master"] = Year!Torn, Year!Open(today),
                    Year!Contracts # {}
             PROVE  Year!NearestExpiry(today) = Year!Min({e \in Year!Expiries : e >= today})
  BY DEF Year!FrontExpiry
<1> DEFINE C == {e \in Year!Contracts : e >= today}
<1>1. today \in Nat /\ today <= Waits /\ shut \in SUBSET MayShut
  BY CalendarAssumption DEF CalendarFit, CalendarTypes
<1>2. Ahead \subseteq C
  BY ContractsListed DEF CalendarFit, FreshFit, Ahead, Year!Readable
<1>3. ASSUME NEW e, NEW d, MovedFrom(e, d), d >= today
      PROVE  Year!Expiry(d) \in Ahead /\ Year!Expiry(d) <= e
  <2>1. MovedFrom(Year!Expiry(d), d) /\ Year!Open(Year!Expiry(d))
    BY <1>1, <1>3, ExpiryIs DEF MovedFrom
  <2>2. /\ d \in Nat /\ e \in 0..d /\ Year!Expiry(d) \in 0..d
        /\ \A x \in e + 1..d : ~Year!Open(x)
        /\ \A x \in Year!Expiry(d) + 1..d : ~Year!Open(x)
    BY <1>3, <2>1, CalendarAssumption DEF MovedFrom, Year!Scheduled, Year!Days
  <2>3. Year!Expiry(d) <= e
    <3>1. Year!Expiry(d) > e => Year!Expiry(d) \in e + 1..d
      BY <2>2
    <3> QED BY <3>1, <2>1, <2>2
  <2>4. Year!Expiry(d) >= today
    <3>1. Year!Expiry(d) < today => today \in Year!Expiry(d) + 1..d
      BY <1>1, <1>3, <2>2
    <3> QED BY <3>1, <1>1, <2>2
  <2>5. Year!Expiry(d) \in Year!Expiries
    BY <1>3 DEF Year!Expiries, MovedFrom
  <2> QED BY <2>3, <2>4, <2>5 DEF Ahead
<1>4. Ahead # {}
  <2>1. PICK d \in Waits..LastDay : d % 7 = ExpiryWeekday
    BY CalendarAssumption
  <2>2. d \in Year!Scheduled /\ d >= today
    BY <1>1, <2>1, CalendarAssumption DEF Year!Scheduled, Year!Days, Year!Weekday
  <2>3. MovedFrom(Year!Expiry(d), d) /\ Year!Open(Year!Expiry(d)) /\ d \in Nat
    BY <1>1, <2>2, ExpiryIs, CalendarAssumption DEF Year!Scheduled, Year!Days
  <2>4. Year!Expiry(d) >= today
    <3>1. Year!Expiry(d) < today => today \in Year!Expiry(d) + 1..d
      BY <1>1, <2>2, <2>3 DEF MovedFrom
    <3>2. Year!Expiry(d) \in Nat
      BY <2>3 DEF MovedFrom
    <3> QED BY <3>1, <3>2, <1>1, <2>3 DEF MovedFrom
  <2>5. Year!Expiry(d) \in Year!Expiries
    BY <2>2 DEF Year!Expiries
  <2> QED BY <2>4, <2>5 DEF Ahead
<1>5. C \in SUBSET Nat /\ Ahead \in SUBSET Nat
  <2>1. C \in SUBSET Nat
    BY ContractsListed
  <2> QED BY <2>1, <1>2
<1>6. \A e \in C : \E f \in Ahead : f <= e
  <2> SUFFICES ASSUME NEW e \in C PROVE \E f \in Ahead : f <= e
    OBVIOUS
  <2>1. PICK d \in Int : MovedFrom(e, d)
    BY ContractsListed
  <2>2. e >= today /\ e \in Nat /\ d >= today
    BY <1>1, <2>1 DEF MovedFrom
  <2> QED BY <1>3, <2>1, <2>2
<1> HIDE DEF C
<1>7. Year!Min(C) \in C /\ \A y \in C : Year!Min(C) <= y
  BY <1>2, <1>4, <1>5, HasMin
<1>8. Year!Min(Ahead) \in Ahead /\ \A y \in Ahead : Year!Min(Ahead) <= y
  BY <1>4, <1>5, HasMin
<1>9. Year!Min(C) = Year!Min(Ahead)
  <2>1. PICK f \in Ahead : f <= Year!Min(C)
    BY <1>6, <1>7
  <2>2. Year!Min(C) \in Nat /\ Year!Min(Ahead) \in Nat /\ f \in Nat
    BY <1>5, <1>7, <1>8
  <2>3. Year!Min(Ahead) <= f /\ Year!Min(C) <= Year!Min(Ahead)
    BY <1>2, <1>7, <1>8
  <2> QED BY <2>1, <2>2, <2>3
<1>10. C # {}
  BY <1>2, <1>4
<1> QED
  BY <1>9, <1>10 DEF Year!NearestExpiry, Ahead, C

LEMMA NoRest == ASSUME NEW q \in Nat, NEW k \in Nat \ {0} PROVE (q * k) % k = 0
  OBVIOUS

\* Rounding down to a multiple, and up.
LEMMA Multiple ==
  ASSUME NEW p \in Nat, NEW k \in Nat \ {0}
  PROVE  /\ (p \div k) * k \in p - k + 1..p
         /\ ((p \div k) * k) % k = 0
<1> DEFINE q == p \div k
           r == q * k
<1>1. q \in Nat /\ k * q <= p /\ p < k * q + k
  OBVIOUS
<1> HIDE DEF q
<1>2. r \in Nat /\ r = k * q
  BY <1>1
<1>3. r % k = 0
  BY <1>1, NoRest
<1>4. r \in p - k + 1..p
  <2> HIDE DEF r
  <2>1. r <= p /\ p < r + k
    BY <1>1, <1>2
  <2> QED BY <2>1, <1>2
<1> QED
  BY <1>3, <1>4 DEF q

LEMMA GridHolds == Year!OnTheGrid
<1> SUFFICES ASSUME NEW p \in Wanted
             PROVE  /\ Year!Rounded(p, "BUY") \in p - Tick + 1..p
                    /\ Year!Rounded(p, "SELL") \in p..p + Tick - 1
                    /\ Year!Contracts # {} => /\ Year!Rounded(p, "BUY") % Tick = 0
                                              /\ Year!Rounded(p, "SELL") % Tick = 0
  BY DEF Year!OnTheGrid
<1>1. p \in Nat /\ Tick \in Nat \ {0} /\ p + Tick - 1 \in Nat
  BY CalendarAssumption
<1> DEFINE a == (p \div Tick) * Tick
           b == ((p + Tick - 1) \div Tick) * Tick
<1>2. a \in p - Tick + 1..p /\ a % Tick = 0
  BY <1>1, Multiple
<1>3. b \in (p + Tick - 1) - Tick + 1..(p + Tick - 1) /\ b % Tick = 0
  BY <1>1, Multiple
<1>4. Year!Rounded(p, "BUY") = IF Year!Contracts = {} THEN p ELSE a
  BY DEF Year!Rounded
<1>5. Year!Rounded(p, "SELL") = IF Year!Contracts = {} THEN p ELSE b
  BY DEF Year!Rounded
<1> HIDE DEF a, b
<1>6. b \in p..p + Tick - 1 /\ p \in p..p + Tick - 1 /\ p \in p - Tick + 1..p
  BY <1>1, <1>3
<1> QED
  BY <1>2, <1>3, <1>4, <1>5, <1>6

LEMMA CalendarIsHonest == CalendarFit => Year!CalendarHonest
<1> SUFFICES ASSUME CalendarFit PROVE Year!CalendarHonest
  OBVIOUS
<1>1. Year!NothingForgotten
  BY DEF CalendarFit, DeclaredFit, Year!NothingForgotten
<1>2. Year!MemoryTrue
  BY DEF CalendarFit, CacheFit, Year!MemoryTrue
<1> QED
  BY <1>1, <1>2, NoneIsMissed, FrontIsRight, GridHolds DEF Year!CalendarHonest

\* While the calendar is the part that moves, its invariant holds; no other part touches it.
CalendarInv == In("calendar", CalendarFit)

LEMMA CalendarInvStep == ASSUME CalendarInv, [RecNext]_recordVars PROVE CalendarInv'
<1>1. UNCHANGED part
  BY DEF RecNext, recordVars, SessionMoves, ArchiveMoves, ImportMoves, ReplayMoves, RestMoves,
         ReportMoves, JournalMoves, CalendarMoves, BacktestMoves, VisualMoves
<1>2. part = "calendar" => Year!Next \/ UNCHANGED calendarVars
  BY DEF RecNext, recordVars, SessionMoves, ArchiveMoves, ImportMoves, ReplayMoves, RestMoves,
         ReportMoves, JournalMoves, CalendarMoves, BacktestMoves, VisualMoves
<1> QED
  BY <1>1, <1>2, CalendarStep DEF CalendarInv, In

\* However the exchange shuts days and moves its expiries, and whichever writer dies over its file: no
\* session is slept through, also not for a holiday inferred from an expiry that was moved;
\* what was declared stays declared; on an open day the nearest contract of a master downloaded
\* since the last announcement is the exchange's nearest expiry; a reader's cache is true to the
\* version it names, and a limit price is on the grid (trading_calendar.py, instruments.py, broker.py).
THEOREM CalendarStaysHonest == RecSpec => []CalendarHonest
<1>1. RecInit => CalendarInv
  BY CalendarStart DEF RecInit, CalendarInv, In
<1>2. CalendarInv /\ [RecNext]_recordVars => CalendarInv'
  BY CalendarInvStep
<1>3. CalendarInv => CalendarHonest
  BY CalendarIsHonest DEF CalendarInv, CalendarHonest, In
<1> QED
  BY <1>1, <1>2, <1>3, PTL DEF RecSpec

=============================================================================
