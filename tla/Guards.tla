--------------------------------- MODULE Guards ---------------------------------
(***************************************************************************)
(* What stands between a tick and an order before the strategy speaks, for *)
(* model checking: the kill switch, the mode switch, the trend of the      *)
(* session, and the size of an order.  Each keeps its own state and takes  *)
(* from the market alone, so a behaviour follows one of them and the       *)
(* others stand still.                                                     *)
(***************************************************************************)
EXTENDS KillSwitch

CONSTANTS
  Keep, Cooldown, MaxLosses, Ratios, Ranges, Spreads, Trigger, ThinVolume, VolumeBack,
  Still, MovingAgain,                                              \* of PreTrade
  Span, Far, Near, ShortLen, Rsis,                                 \* of SessionTrend
  Levels, Volatilities, Severities, Utilizations, Reductions, Budgets, DayBudgets,
  Capitals, Floors                                                 \* of Sizing

\* Far, Near, ShortLen, Trigger and the cooldown are settings of the program; a
\* second loss is not waited for (MODE_SWITCH_CONSECUTIVE_LOSS_TRIGGER is 1).
\* The rest are values an input may take.
ASSUME GuardsAssumption ==
  /\ Span \in Nat /\ Far \in Nat /\ Near \in Nat /\ ShortLen \in Nat \ {0} /\ Rsis \subseteq Int
  /\ Cooldown \in Nat \ {0} /\ MaxLosses \in Nat \ {0} /\ Trigger \in Int /\ Trigger <= 1
  /\ Ratios \subseteq Nat /\ Spreads \subseteq Nat
  /\ Levels \subseteq 0..100 /\ Levels # {} /\ Reductions \subseteq 0..100 /\ Reductions # {}
  /\ Volatilities \subseteq Nat /\ Volatilities \ {0} # {}
  /\ Severities \subseteq Nat /\ Utilizations \subseteq Nat
  /\ Budgets \subseteq Nat /\ DayBudgets \subseteq Nat /\ Capitals \subseteq Nat
  /\ Floors \subseteq BOOLEAN

VARIABLES
  part,                                                            \* the part that moves
  paper, mode, active, losses, ratios, ranges, since, lossAge, limitAge, locked, entry,
                                                                   \* of PreTrade
  started, recent, fast, medium, slow, regime, trend, confidence, short, rsi,
                                                                   \* of SessionTrend
  ask                                                              \* of Sizing

modeVars  == <<paper, mode, active, losses, ratios, ranges, since, lossAge, limitAge, locked,
               entry>>
trendVars == <<started, recent, fast, medium, slow, regime, trend, confidence, short, rsi>>
guardVars == <<part, vars, modeVars, trendVars, ask>>

Switch == INSTANCE PreTrade
Trend  == INSTANCE SessionTrend
Size   == INSTANCE Sizing

\* The parts that do not move start in one state.
ModeStill  == Switch!Init /\ paper
TrendStill == Trend!Init

GuardsInit ==
  /\ Init
  /\ \/ part = "kill" /\ ModeStill /\ TrendStill /\ ask = "none"
     \/ part = "mode" /\ Switch!Init /\ TrendStill /\ ask = "none"
     \/ part = "trend" /\ ModeStill /\ Trend!Init /\ ask = "none"
     \/ part = "size" /\ ModeStill /\ TrendStill /\ Size!Init

KillStep(A) == part = "kill" /\ A /\ UNCHANGED <<part, modeVars, trendVars, ask>>

KillMoves  == KillStep(Next)
ModeMoves  == part = "mode" /\ Switch!Next /\ UNCHANGED <<part, vars, trendVars, ask>>
TrendMoves == part = "trend" /\ Trend!Next /\ UNCHANGED <<part, vars, modeVars, ask>>
SizeMoves  == part = "size" /\ Size!Next /\ UNCHANGED <<part, vars, modeVars, trendVars>>

GuardsNext == KillMoves \/ ModeMoves \/ TrendMoves \/ SizeMoves

\* The fairness of the kill switch: the loop goes on reading good ticks while
\* the feed has them, and the clock does not stop.
GuardsSpec ==
  /\ GuardsInit /\ [][GuardsNext]_guardVars
  /\ WF_guardVars(KillStep(ValidTick(Good)))
  /\ WF_guardVars(KillStep(StaleCoolEnds)) /\ WF_guardVars(KillStep(SpreadCoolEnds))
-----------------------------------------------------------------------------
\* The mode follows the losses and the day's limits within one cooldown, whatever
\* switch came just before, and SAFE lets nothing through that AGGRESSIVE would
\* not (check_and_switch of mode_switch.py, validators.py).
ModeHonest == part = "mode" => Switch!ModeHonest

\* A market turned over about its opening allows the other side, neither market
\* has both sides blocked, and the trend is the displacement from the opening
\* whatever averages and RSI say (_combine_trend_factors of session_trend.py).
TrendFair == part = "trend" => Trend!TrendFair

\* What an order risks stays within every cap but for one rounding, and a worse
\* signal is not sized bigger (calculate of position_size_engine.py).
SizeHonest == part = "size" => Size!SizeHonest

\* No kill but a limit is for ever: if from some point on every tick is good,
\* the handlers run again and again (emergency_check of kill_switch.py).
KillRecovers == part = "kill" => Recovers

=============================================================================
