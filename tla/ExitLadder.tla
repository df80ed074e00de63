------------------------------ MODULE ExitLadder ------------------------------
(***************************************************************************)
(* One open trade and what ends it: the exit engine                        *)
(* (core/engines/exit_engine.py) with its step ladder, the two filters     *)
(* that state_in_trade puts before it, the exits of the main loop that     *)
(* pass it by, and the profit or loss that exit_position books.  Prices    *)
(* are points from the entry and the quantity is one.                      *)
(***************************************************************************)
EXTENDS Integers

CONSTANTS
  HardSL,      \* HARD_SL_POINTS
  Rungs,       \* TSL_STEP_LEVELS and the breakeven rung: <<trigger, lock>>
  Target,      \* TP_POINTS_FIXED
  EarlyCuts,   \* the early cut of each volatility, in points
  EarlyTime, SoftTime, SoftLoss,
  RsiGain, ReversalGain, FloorGain,  \* least profit of the RSI exits, the floor
  HoldWin, HoldLose,      \* MAX_HOLD_TIME_WINNING, _LOSING
  Closes,      \* times from the entry to 15:25
  MaxLoss,     \* MAX_LOSS_PER_TRADE
  Half,        \* a tick farther from the entry is taken for another contract's
  Reach, Move, \* bounds of the price, and of its move from tick to tick
  Spread, Slippage \* bounds of the spread and of the slippage of a live exit

ASSUME LadderAssumption ==
  /\ {HardSL, Move} \subseteq Nat \ {0}
  /\ {Target, EarlyTime, SoftTime, SoftLoss, RsiGain, ReversalGain, FloorGain,
      HoldWin, HoldLose, MaxLoss, Half, Reach, Spread, Slippage} \subseteq Nat
  /\ EarlyCuts \subseteq Nat /\ Closes \subseteq Nat
  /\ Rungs \subseteq Nat \X Nat
  /\ \A r \in Rungs : r[2] < r[1]

VARIABLES
  mode,        \* PAPER_TRADING, EXIT_ONLY_SL_TP_TRAILING, TRAILING_ENABLED,
               \* EXIT_PROFIT_MODE = 'floor', and the closing time
  px,          \* the option's price
  held,        \* hold time in ticks
  phase,       \* "open", "review" after an exit that was not confirmed, "closed"
  best, stop,  \* max_profit_points, highest_sl
  pnl,         \* current_pnl of the engine
  stretched,   \* _max_rsi_seen or _min_rsi_seen is extreme
  watched,     \* history: the tick before the last one was checked too
  why, booked  \* history: what closed the trade and the profit recorded

ladderVars == <<mode, px, held, phase, best, stop, pnl, stretched, watched, why, booked>>

\* RSI in the trade's favour: unknown, below the exit level, between, extreme,
\* overbought.
RSI == {"none", "calm", "warm", "extreme", "over"}
Extreme(r) == r \in {"extreme", "over"}

Modes  == [paper : BOOLEAN, only : BOOLEAN, trail : BOOLEAN, floor : BOOLEAN, close : Closes]
Prices == -Reach..Reach
Hours  == 0..(IF HoldWin > HoldLose THEN HoldWin ELSE HoldLose) + 1
Least(a, b) == IF a < b THEN a ELSE b
Most(a, b)  == IF a < b THEN b ELSE a

\* Types, and a stop that is the hard one or the lock of a rung.
LadderTypeOK ==
  /\ mode \in Modes
  /\ px \in Prices /\ held \in Hours /\ phase \in {"open", "review", "closed"}
  /\ best \in 0..Reach /\ pnl \in Prices \cup {-MaxLoss} /\ stretched \in BOOLEAN
  /\ stop \in {-HardSL} \cup {r[2] : r \in Rungs}
  /\ watched \in BOOLEAN /\ why \in {"none", "stop", "other", "forced"}
  /\ booked \in Int

LadderInit ==
  /\ mode \in Modes
  /\ px = 0 /\ held = 0 /\ phase = "open" /\ best = 0 /\ stop = -HardSL /\ pnl = 0
  /\ stretched = FALSE /\ watched = TRUE /\ why = "none" /\ booked = 0

-----------------------------------------------------------------------------
(* get_step_trailing_sl                                                     *)
RungsReached(m) == {r \in Rungs : m >= r[1]}

\* Slip: the ladder of the price, not of the best price.
RaisedByPrice(s, m, d) ==
  CHOOSE l \in {-HardSL} \cup {r[2] : r \in RungsReached(d)} :
    \A k \in {r[2] : r \in RungsReached(d)} : k <= l

\* The highest lock reached, and never less than before.
Raised(s, m, d) ==
  CHOOSE l \in {s} \cup {r[2] : r \in RungsReached(m)} :
    \A k \in {s} \cup {r[2] : r \in RungsReached(m)} : k <= l
NewBest(d) == Most(best, d)
NewStop(d) == IF mode.trail THEN Raised(stop, NewBest(d), d) ELSE stop

(* check_hard_sl                                                            *)
\* Slip: the stop must be passed.
StopPassed(d) == d < NewStop(d)

StopHit(d) == d <= NewStop(d)
TargetHit(d) == ~mode.trail /\ d >= Target

(* The exits in front of the ladder.                                        *)
EarlyCut(d, cut) == held <= EarlyTime /\ d <= -cut
SoftCut(d)       == held >= SoftTime /\ d <= -SoftLoss
RsiExit(d, r)    == d >= RsiGain /\ r = "over"
Reversal(d, r)   == d >= ReversalGain /\ stretched /\ r = "calm"
ProfitFloor(d)   == mode.floor /\ d >= FloorGain
TooLong(d)       == held > (IF d >= 0 THEN HoldWin ELSE HoldLose)
MarketCloses     == held >= mode.close
\* greek_exit on validated greeks: either.
GreekVerdicts == BOOLEAN
Discretionary(d, r, greeks, cut) ==
  \/ EarlyCut(d, cut) \/ SoftCut(d) \/ greeks \/ ProfitFloor(d)
  \/ RsiExit(d, r) \/ Reversal(d, r) \/ TooLong(d)

\* Slip: with EXIT_ONLY_SL_TP_TRAILING no clock ends a trade.
EngineExitsOnPriceOnly(d, r, greeks, cut) ==
  \/ StopHit(d) \/ TargetHit(d)
  \/ ~mode.only /\ (Discretionary(d, r, greeks, cut) \/ MarketCloses)

EngineExits(d, r, greeks, cut) ==
  \/ StopHit(d) \/ TargetHit(d) \/ MarketCloses
  \/ ~mode.only /\ Discretionary(d, r, greeks, cut)

-----------------------------------------------------------------------------
(* exit_position                                                            *)
\* A paper exit books the bid, or the engine's profit when the bid shows none,
\* and no more loss than the limit; a live exit books the fill.
Books(d, engine, spread, slip) ==
  LET atBid == d - spread
      shown == IF engine > 0 /\ atBid = 0 THEN engine ELSE atBid
  IN IF mode.paper THEN Most(shown, -MaxLoss) ELSE atBid - slip

Sold(d, engine, reason) ==
  \E spread \in 0..Spread, slip \in 0..Slippage :
    phase' = "closed" /\ why' = reason /\ booked' = Books(d, engine, spread, slip)

\* A live exit that is not confirmed leaves the trade to a review.
NotSold == ~mode.paper /\ phase' = "review" /\ UNCHANGED <<why, booked>>

Moves == px' \in (px - Move)..(px + Move) /\ px' \in Prices
Later == held' = Least(held + 1, Most(HoldWin, HoldLose) + 1)
Farther(d) == d > Half \/ -d > Half

\* state_in_trade lets a tick through to the engine.
Checked ==
  /\ phase = "open" /\ Moves /\ Later /\ ~Farther(px')
  /\ best' = NewBest(px') /\ stop' = NewStop(px')
  /\ \E r \in RSI, greeks \in GreekVerdicts, cut \in EarlyCuts :
       /\ \/ /\ EngineExits(px', r, greeks, cut)
             /\ stretched' \in {stretched, stretched \/ Extreme(r)} /\ UNCHANGED watched
             /\ pnl' = Most(px', -MaxLoss)
             /\ Sold(px', pnl', IF StopHit(px') THEN "stop" ELSE "other") \/ NotSold
          \/ /\ ~EngineExits(px', r, greeks, cut) /\ pnl' = px'
             /\ stretched' = (stretched \/ Extreme(r)) /\ watched' = TRUE
             /\ UNCHANGED <<phase, why, booked>>
  /\ UNCHANGED mode

\* A tick of another contract, or one that looks like it.
Skipped ==
  /\ phase = "open" /\ Moves /\ Later /\ watched' = FALSE
  /\ UNCHANGED <<mode, phase, best, stop, pnl, stretched, why, booked>>

\* /stop, the kill switch, a network failure or Ctrl-C close the trade on any
\* tick; the engine's last profit is whatever it was.
Forced ==
  /\ phase # "closed" /\ Moves /\ Later
  /\ Sold(px', pnl, "forced") \/ NotSold
  /\ UNCHANGED <<mode, best, stop, pnl, stretched, watched>>

LadderNext == Checked \/ Skipped \/ Forced

LadderSpec == LadderInit /\ [][LadderNext]_ladderVars
\* Ticks of the right contract keep coming, among others.
FairLadderSpec == LadderSpec /\ SF_ladderVars(Checked)

-----------------------------------------------------------------------------
\* The stop of a trade is never lowered.
StopNeverLoosens == [][stop' >= stop]_ladderVars

\* While every tick is checked, no exit of the engine books less than the stop
\* that stood, but for one move of the price, the spread and the slippage: the
\* hard stop contains the loss and a lock keeps its profit.
StopHonoured ==
  why \in {"stop", "other"} /\ watched => booked >= stop - (Move - 1) - Spread - Slippage

\* After a checked tick an open trade is above every lock its best price earned.
LocksKept ==
  phase = "open" /\ watched /\ mode.trail => \A r \in Rungs : best >= r[1] => px > r[2]

\* An open trade comes to an exit in every mode, unless its price has gone so
\* far that state_in_trade takes it for another contract's.
TradeEnds == phase = "open" ~> (phase # "open" \/ Farther(px))
=============================================================================
