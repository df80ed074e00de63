----------------------------- MODULE GuardsProofs -----------------------------
(***************************************************************************)
(* What the guards before an order hold to for every value of their limits *)
(* and inputs: bad data stops the handlers and only its own proof lifts    *)
(* the stop, the mode follows losses and limits within a cooldown, the     *)
(* session trend treats calls and puts alike, and an order's size stays    *)
(* within its caps and never grows with a worse signal.                    *)
(***************************************************************************)
EXTENDS Guards, Sequences, WellFoundedInduction, TLAPS

\* The counters and clocks are well typed.
CountsOK ==
  /\ rejected \in 0..RejectLimit /\ valid \in 0..ValidNeeded
  /\ staleCool \in Clock
  /\ wide \in 0..WideLimit /\ spreadCool \in Clock
  /\ wide = WideLimit => spreadCool # "none"
  /\ high \in 0..HighLimit /\ low \in 0..LowNeeded
  /\ freeze \in 0..(FreezeLimit + 1)
  /\ pass \in {"none", "rejected", "held", "killed", "dispatched"}
  /\ goodRun \in 0..ValidNeeded /\ frozenRun \in 0..(FreezeLimit + 1)

\* The flags and the last tick are well typed.
FlagsOK ==
  /\ stale \in BOOLEAN /\ paused \in BOOLEAN
  /\ limitHit \in BOOLEAN /\ halted \in BOOLEAN /\ limitKill \in BOOLEAN
  /\ tick \in Ticks

\* What each flag and counter says of the ticks before: a stale-data kill has a
\* cooldown and keeps the machine halted; consecutive_valid_ticks never counts
\* more than the run of valid ticks, tick_freeze_count never less than the run
\* of frozen ones.
KillInv ==
  /\ stale => halted /\ staleCool # "none"
  /\ valid <= goodRun
  /\ frozenRun <= freeze /\ frozenRun <= FreezeLimit
  /\ pass = "dispatched" => ~stale /\ spreadCool # "running"

\* Every step keeps the flags Boolean and the tick a tick.
LEMMA FlagsStep ==
  ASSUME FlagsOK, [Next]_vars
  PROVE  FlagsOK'
<1>1. Good \in Ticks /\ Bad \in Ticks
  BY DEF Good, Bad, Ticks
<1>2. CASE RejectedTick
  BY <1>1, <1>2, Zenon DEF RejectedTick, FlagsOK, checkVars
<1>3. ASSUME NEW t \in Ticks, ValidTick(t)
      PROVE  FlagsOK'
  <2>1. tick' \in Ticks /\ stale' \in BOOLEAN /\ limitHit' \in BOOLEAN
    BY <1>3, Zenon DEF ValidTick, CountValid, FlagsOK
  <2>2. CASE StaleHolds
    BY <2>1, <2>2, Zenon DEF StaleHolds, FlagsOK, checkVars
  <2>3. CASE EmergencyCheck(t)
    BY <2>1, <2>3, Zenon DEF EmergencyCheck, Cooling, FeedFrozen, Late,
       LatencyRecovery, Broad, LimitReached, AllClear, OnTime, StillPaused,
       Kill, Dispatch, FlagsOK, checkVars
  <2> QED
    BY <1>3, <2>2, <2>3 DEF ValidTick
<1>4. CASE StaleCoolEnds \/ SpreadCoolEnds \/ ReachLimit
  BY <1>4, Zenon DEF StaleCoolEnds, SpreadCoolEnds, ReachLimit, FlagsOK,
     feedVars, spreadVars, checkVars, history
<1>5. CASE UNCHANGED vars
  BY <1>5, Zenon DEF vars, FlagsOK, feedVars, checkVars, history
<1> QED
  BY <1>2, <1>3, <1>4, <1>5 DEF Next

\* A pass of the loop over a valid tick keeps the counters typed.
LEMMA CountsValid ==
  ASSUME FlagsOK, CountsOK, NEW t \in Ticks, ValidTick(t)
  PROVE  CountsOK'
<1> USE LimitsAssumption DEF CountsOK, Clock, UpTo
<1>1. /\ rejected' \in 0..RejectLimit /\ valid' \in 0..ValidNeeded
      /\ staleCool' \in Clock /\ goodRun' \in 0..ValidNeeded
  BY DEF ValidTick, CountValid
<1>2. FreezeCount(t) \in 0..(FreezeLimit + 1)
  BY DEF FreezeCount
<1>3. CASE StaleHolds
  BY <1>1, <1>3 DEF ValidTick, StaleHolds, checkVars, spreadVars
<1>4. CASE EmergencyCheck(t)
  <2>1. pass' \in {"killed", "dispatched"}
    BY <1>4 DEF EmergencyCheck, Cooling, FeedFrozen, Late, LatencyRecovery,
       Broad, LimitReached, AllClear, Kill, Dispatch
  <2>2. frozenRun' \in 0..(FreezeLimit + 1)
    BY DEF ValidTick
  <2>3. /\ high' \in 0..HighLimit /\ low' \in 0..LowNeeded
        /\ freeze' \in 0..(FreezeLimit + 1)
    BY <1>2, <1>4 DEF EmergencyCheck, Cooling, FeedFrozen, Late,
       LatencyRecovery, Broad, LimitReached, AllClear, OnTime, checkVars
  <2>4. spreadCool # "running"
          => WideCount \in 0..WideLimit /\ WideCount < WideLimit
    BY DEF WideCount
  <2>5. /\ wide' \in 0..WideLimit /\ spreadCool' \in Clock
        /\ wide' = WideLimit => spreadCool' # "none"
    <3>1. CASE Cooling
      BY <3>1 DEF Cooling, checkVars, spreadVars
    <3>2. CASE FeedFrozen(t) \/ Late(t) \/ LatencyRecovery(t)
      BY <2>4, <3>2 DEF FeedFrozen, Late, LatencyRecovery, OnTime
    <3>3. CASE Broad(t)
      BY <2>4, <3>3 DEF Broad, OnTime
    <3>4. CASE LimitReached(t) \/ AllClear(t)
      BY <3>4 DEF LimitReached, AllClear
    <3> QED
      BY <1>4, <3>1, <3>2, <3>3, <3>4 DEF EmergencyCheck
  <2> QED
    BY <1>1, <2>1, <2>2, <2>3, <2>5
<1> QED
  BY <1>3, <1>4 DEF ValidTick

\* Every step keeps the counters and clocks typed.
LEMMA CountsStep ==
  ASSUME FlagsOK, CountsOK, [Next]_vars
  PROVE  CountsOK'
<1>1. CASE RejectedTick
  BY <1>1, LimitsAssumption DEF RejectedTick, CountsOK, Clock, UpTo,
     checkVars, spreadVars
<1>2. CASE \E t \in Ticks : ValidTick(t)
  BY <1>2, CountsValid
<1>3. CASE StaleCoolEnds \/ SpreadCoolEnds \/ ReachLimit
  BY <1>3 DEF StaleCoolEnds, SpreadCoolEnds, ReachLimit, CountsOK, Clock,
     feedVars, spreadVars, checkVars, history
<1>4. CASE UNCHANGED vars
  BY <1>4 DEF vars, CountsOK, feedVars, spreadVars, checkVars, history
<1> QED
  BY <1>1, <1>2, <1>3, <1>4 DEF Next

\* A pass of the loop over a valid tick keeps the counters honest.
LEMMA KillValid ==
  ASSUME FlagsOK, CountsOK, KillInv, NEW t \in Ticks, ValidTick(t)
  PROVE  KillInv'
<1> USE LimitsAssumption DEF FlagsOK, CountsOK, KillInv, UpTo
<1>1. valid' <= goodRun'
  BY DEF ValidTick, CountValid
<1>2. CASE StaleHolds
  <2>1. stale' => halted' /\ staleCool' # "none"
    BY <1>2 DEF StaleHolds, ValidTick, CountValid
  <2> QED
    BY <1>1, <1>2, <2>1 DEF StaleHolds, ValidTick, checkVars
<1>3. CASE ~Held /\ EmergencyCheck(t)
  <2>1. ~stale'
    BY <1>3 DEF ValidTick, CountValid, Held
  <2>2. pass' = "dispatched" => spreadCool' # "running"
    BY <1>3 DEF EmergencyCheck, Cooling, FeedFrozen, Late, LatencyRecovery,
       Broad, LimitReached, AllClear, Kill, Dispatch
  <2>3. freeze' >= freeze \/ (pass' = "dispatched" /\ ~t.frozen /\ freeze' = 0)
    BY <1>3 DEF EmergencyCheck, Cooling, FeedFrozen, Late, LatencyRecovery,
       Broad, LimitReached, AllClear, OnTime, Ticks, Dispatch, FreezeCount, checkVars
  <2>4. pass' = "dispatched" /\ t.frozen
          => freeze < FreezeLimit /\ freeze' = freeze + 1
    BY <1>3 DEF EmergencyCheck, Cooling, FeedFrozen, Late, LatencyRecovery,
       Broad, LimitReached, AllClear, OnTime, Ticks, Kill, Dispatch, Frozen, FreezeCount
  <2>5. frozenRun' <= freeze' /\ frozenRun' <= FreezeLimit
    <3>1. freeze' \in Nat
      BY CountsValid
    <3>2. CASE pass' # "dispatched"
      BY <2>3, <3>1, <3>2 DEF ValidTick
    <3>3. CASE pass' = "dispatched" /\ t.frozen
      BY <2>4, <3>1, <3>3 DEF ValidTick
    <3>4. CASE pass' = "dispatched" /\ ~t.frozen
      BY <3>1, <3>4 DEF ValidTick
    <3> QED
      BY <3>2, <3>3, <3>4 DEF Ticks
  <2> QED
    BY <1>1, <2>1, <2>2, <2>5
<1> QED
  BY <1>2, <1>3 DEF ValidTick

\* Every step keeps the counters honest.
LEMMA KillInvStep ==
  ASSUME FlagsOK, CountsOK, KillInv, [Next]_vars
  PROVE  KillInv'
<1>1. CASE RejectedTick
  BY <1>1, LimitsAssumption DEF RejectedTick, FlagsOK, CountsOK, KillInv, UpTo,
     checkVars, spreadVars
<1>2. CASE \E t \in Ticks : ValidTick(t)
  BY <1>2, KillValid
<1>3. CASE StaleCoolEnds \/ SpreadCoolEnds \/ ReachLimit
  BY <1>3 DEF StaleCoolEnds, SpreadCoolEnds, ReachLimit, KillInv,
     feedVars, spreadVars, checkVars, history
<1>4. CASE UNCHANGED vars
  BY <1>4 DEF vars, KillInv, feedVars, spreadVars, checkVars, history
<1> QED
  BY <1>1, <1>2, <1>3, <1>4 DEF Next

\* The three parts hold at the start.
LEMMA InvInit == Init => FlagsOK /\ CountsOK /\ KillInv
<1> SUFFICES ASSUME Init PROVE FlagsOK /\ CountsOK /\ KillInv
  OBVIOUS
<1>1. Good \in Ticks
  BY DEF Good, Ticks
<1>2. FlagsOK
  BY <1>1, Zenon DEF Init, FlagsOK
<1>3. CountsOK /\ KillInv
  BY LimitsAssumption DEF Init, CountsOK, KillInv, Clock
<1> QED
  BY <1>2, <1>3

\* The three parts hold in every behaviour.
LEMMA Kept == Spec => [](FlagsOK /\ CountsOK /\ KillInv)
<1>1. FlagsOK /\ CountsOK /\ KillInv /\ [Next]_vars
        => FlagsOK' /\ CountsOK' /\ KillInv'
  BY FlagsStep, CountsStep, KillInvStep
<1> QED
  BY <1>1, InvInit, PTL DEF Spec

-----------------------------------------------------------------------------
\* Every counter of kill_switch.py stays within its limit, whatever the limits.
THEOREM TypeCorrect == Spec => []TypeOK
<1>1. FlagsOK /\ CountsOK => TypeOK
  BY Zenon DEF FlagsOK, CountsOK, TypeOK
<1> QED
  BY <1>1, Kept, PTL

\* No state handler of main() runs while a stale-data kill or the cooldown of
\* a wide-spread kill stands.
THEOREM DispatchCorrect == Spec => []NoDispatchWhileStopped
<1>1. KillInv => NoDispatchWhileStopped
  BY DEF KillInv, NoDispatchWhileStopped
<1> QED
  BY <1>1, Kept, PTL

\* emergency_check lets the handlers run on at most FreezeLimit frozen ticks
\* without a timely tick between them.
THEOREM FreezeCorrect == Spec => []FrozenFeedStops
<1>1. KillInv => FrozenFeedStops
  BY DEF KillInv, FrozenFeedStops
<1> QED
  BY <1>1, Kept, PTL

\* Bad data keeps the handlers of main() from running, told or untold.
THEOREM BadDataCorrect == Spec => []BadDataStops
  BY DispatchCorrect, FreezeCorrect, PTL DEF BadDataStops

\* reset_rejected_tick_counter lifts a stale-data kill only after its cooldown
\* and a full run of valid ticks.
THEOREM StaleCorrect == Spec => StaleLiftedByProof
<1>1. FlagsOK /\ CountsOK /\ KillInv /\ [Next]_vars
        => [stale /\ ~stale' => staleCool = "over" /\ goodRun' = ValidNeeded]_vars
  <2> SUFFICES ASSUME FlagsOK, CountsOK, KillInv, Next, stale, ~stale'
               PROVE  staleCool = "over" /\ goodRun' = ValidNeeded
    BY DEF Next
  <2>1. PICK t \in Ticks : ValidTick(t)
    BY DEF Next, RejectedTick, StaleCoolEnds, SpreadCoolEnds, ReachLimit, feedVars
  <2>2. CanClear
    BY <2>1 DEF ValidTick, CountValid
  <2> QED
    BY <2>1, <2>2, LimitsAssumption DEF ValidTick, CanClear, CountsOK, KillInv, Clock, UpTo
<1> QED
  BY <1>1, Kept, PTL DEF Spec, StaleLiftedByProof

-----------------------------------------------------------------------------
(* The kill switch moves by its own steps in the composition.               *)
LEMMA KillSwitchInGuards == GuardsSpec => Spec
<1>1. GuardsInit => Init
  BY DEF GuardsInit
<1>2. [GuardsNext]_guardVars => [Next]_vars
  BY DEF GuardsNext, KillMoves, KillStep, ModeMoves, TrendMoves, SizeMoves, guardVars
<1> QED
  BY <1>1, <1>2, PTL DEF GuardsSpec, Spec

\* The handlers stop on bad data whatever mode, trend and size do.
THEOREM GuardsStopBadData == GuardsSpec => []BadDataStops
  BY KillSwitchInGuards, BadDataCorrect, PTL

-----------------------------------------------------------------------------
(* The trend of the session.                                                *)
Sides == {"BULLISH", "BEARISH", "SIDEWAYS"}
Trends == Sides \cup {"NEUTRAL"}
AllRegimes == Trends \cup {"BULLISH_WEAK", "BEARISH_WEAK"}

TrendTypes ==
  /\ recent \in Seq(Int) /\ fast \in Int /\ medium \in Int /\ slow \in Int
  /\ rsi \in Int /\ confidence \in Int
  /\ regime \in AllRegimes /\ trend \in Trends /\ short \in Trends

\* A trend is the side of the newest price, with the points of the opening.
TrendSays ==
  /\ started => recent # <<>>
  /\ trend # "NEUTRAL" =>
       recent # <<>> /\ trend = Trend!Sign(recent[Len(recent)], Far) /\ confidence >= 50

LEMMA SignIsSide == \A x \in Int, l \in Nat : Trend!Sign(x, l) \in Sides
  BY DEF Trend!Sign, Sides

LEMMA RsiIsSide == \A r \in Int : Trend!RsiSignal(r) \in Sides
  BY DEF Trend!RsiSignal, Sides

LEMMA RegimeIsOne ==
  ASSUME NEW p \in Int, NEW f \in Int, NEW m \in Int, NEW s \in Int
  PROVE  Trend!Regime(p, f, m, s) \in AllRegimes
  BY DEF Trend!Regime, AllRegimes, Trends, Sides

\* The averages and the RSI have 45 points together, the opening has 50.
LEMMA OthersBelow ==
  ASSUME NEW side \in Sides, NEW o \in Sides, NEW g \in AllRegimes, NEW r \in Sides
  PROVE  /\ Trend!Points(side, o, g, r) \in Int
         /\ side = o => Trend!Points(side, o, g, r) >= 50
         /\ side # o => Trend!Points(side, o, g, r) <= 45
<1>1. CASE side = "SIDEWAYS"
  BY <1>1 DEF Trend!Points, Sides
<1>2. CASE side = "BULLISH"
  BY <1>2 DEF Trend!Points, Sides
<1>3. CASE side = "BEARISH"
  BY <1>3 DEF Trend!Points, Sides
<1> QED
  BY <1>1, <1>2, <1>3 DEF Sides

\* _combine_trend_factors gives the side of the opening.
LEMMA OpeningDecides ==
  ASSUME NEW o \in Sides, NEW g \in AllRegimes, NEW r \in Sides
  PROVE  Trend!Combined(o, g, r) = o
<1> DEFINE Pts(x) == Trend!Points(x, o, g, r)
<1>1. \A x \in Sides : Pts(x) \in Int /\ (x = o => Pts(x) >= 50) /\ (x # o => Pts(x) <= 45)
  BY OthersBelow
<1>2. \A x \in Sides : (\A y \in {"BULLISH", "BEARISH", "SIDEWAYS"} : Pts(x) >= Pts(y)) <=> x = o
  <2> HIDE DEF Pts
  <2> QED BY <1>1 DEF Sides
<1> QED
  BY <1>2 DEF Trend!Combined, Sides

LEMMA TrendStart == Trend!Init => TrendTypes /\ TrendSays
  BY DEF Trend!Init, TrendTypes, TrendSays, AllRegimes, Trends, Sides

LEMMA AverageMoves ==
  ASSUME NEW a \in Int, NEW p \in Int, NEW b \in Trend!Towards(a, p)
  PROVE  b \in Int
  BY DEF Trend!Towards

LEMMA TrendStep ==
  ASSUME TrendTypes, TrendSays, Trend!Next
  PROVE  TrendTypes' /\ TrendSays'
<1> USE GuardsAssumption
<1>1. CASE Trend!Start
  BY <1>1 DEF Trend!Start, TrendTypes, TrendSays, Trends
<1>2. CASE Trend!Update
  <2>1. PICK p \in -Span..Span :
       /\ recent' = IF Len(recent) < ShortLen THEN Append(recent, p) ELSE Append(Tail(recent), p)
       /\ fast' \in Trend!Towards(fast, p) /\ medium' \in Trend!Towards(medium, p)
       /\ slow' \in Trend!Towards(slow, p)
       /\ regime' = Trend!Regime(p, fast', medium', slow')
       /\ trend' = Trend!Combined(Trend!Sign(p, Far), regime', Trend!RsiSignal(rsi))
       /\ confidence' = Trend!Points(trend', Trend!Sign(p, Far), regime', Trend!RsiSignal(rsi))
       /\ short' = IF Len(recent') < ShortLen THEN short ELSE Trend!Sign(p - Head(recent'), Near)
    BY <1>2 DEF Trend!Update
  <2>2. started' = started /\ rsi' = rsi /\ started
    BY <1>2 DEF Trend!Update
  <2>3. p \in Int
    OBVIOUS
  <2>4. recent' \in Seq(Int) /\ recent' # <<>> /\ recent'[Len(recent')] = p
    <3>1. recent # <<>> /\ Tail(recent) \in Seq(Int)
      BY <2>2 DEF TrendTypes, TrendSays
    <3>2. PICK q \in Seq(Int) : recent' = Append(q, p)
      <4>1. CASE Len(recent) < ShortLen
        BY <2>1, <4>1 DEF TrendTypes
      <4>2. CASE ~(Len(recent) < ShortLen)
        BY <2>1, <3>1, <4>2
      <4> QED BY <4>1, <4>2
    <3>3. Append(q, p) \in Seq(Int) /\ Append(q, p) # <<>> /\ Append(q, p)[Len(Append(q, p))] = p
      BY <2>3
    <3> QED BY <3>2, <3>3
  <2>5. fast' \in Int /\ medium' \in Int /\ slow' \in Int
    BY <2>1, <2>3, AverageMoves DEF TrendTypes
  <2>6. regime' \in AllRegimes
    BY <2>1, <2>3, <2>5, RegimeIsOne
  <2>7. Trend!Sign(p, Far) \in Sides /\ Trend!RsiSignal(rsi) \in Sides
    BY <2>3, SignIsSide, RsiIsSide DEF TrendTypes
  <2>8. trend' = Trend!Sign(p, Far) /\ trend' \in Sides
    BY <2>1, <2>6, <2>7, OpeningDecides
  <2>9. confidence' \in Int /\ confidence' >= 50
    BY <2>1, <2>6, <2>7, <2>8, OthersBelow
  <2>10. short' \in Trends
    <3>1. CASE Len(recent') < ShortLen
      BY <2>1, <3>1 DEF TrendTypes
    <3>2. CASE ~(Len(recent') < ShortLen)
      <4>1. p - Head(recent') \in Int
        BY <2>3, <2>4
      <4> QED
        BY <2>1, <3>2, <4>1, SignIsSide DEF Trends
    <3> QED BY <3>1, <3>2
  <2>11. TrendTypes'
    BY <2>2, <2>4, <2>5, <2>6, <2>8, <2>9, <2>10 DEF TrendTypes, Trends
  <2>12. TrendSays'
    BY <2>4, <2>8, <2>9 DEF TrendSays
  <2> QED BY <2>11, <2>12
<1>3. CASE Trend!UpdateRsi
  BY <1>3 DEF Trend!UpdateRsi, Trend!averages, TrendTypes, TrendSays
<1> QED
  BY <1>1, <1>2, <1>3 DEF Trend!Next

\* The market turned over: strict orders turn round, signs change.
LEMMA RegimeTurns ==
  ASSUME NEW p \in Int, NEW f \in Int, NEW m \in Int, NEW s \in Int
  PROVE  Trend!Regime(-p, -f, -m, -s) = Trend!Turned(Trend!Regime(p, f, m, s))
  BY DEF Trend!Regime, Trend!Turned

LEMMA TurnedSides ==
  /\ \A x \in Sides : Trend!Turned(x) \in Sides
  /\ \A x \in AllRegimes : Trend!Turned(x) \in AllRegimes
  /\ \A x \in AllRegimes : Trend!Turned(x) = "BULLISH" <=> x = "BEARISH"
  /\ \A x \in AllRegimes : Trend!Turned(x) = "SIDEWAYS" <=> x = "SIDEWAYS"
  BY DEF Trend!Turned, AllRegimes, Trends, Sides

LEMMA TrendIsFair ==
  ASSUME TrendTypes, TrendSays
  PROVE  Trend!TrendFair
<1> USE GuardsAssumption
<1>1. Trend!SidesMirror
  <2>1. Trend!CanTradePe =
          \/ Trend!Turned(trend) = "BULLISH" /\ confidence > 30
          \/ Trend!Turned(regime) = "BULLISH"
          \/ Trend!LowRsi(100 - rsi)
          \/ Trend!Turned(short) = "BULLISH"
          \/ Trend!Turned(trend) = "SIDEWAYS"
    <3>1. Trend!LowRsi(100 - rsi) <=> rsi > 60
      BY DEF Trend!LowRsi, TrendTypes
    <3>2. /\ Trend!Turned(trend) = "BULLISH" <=> trend = "BEARISH"
          /\ Trend!Turned(regime) = "BULLISH" <=> regime = "BEARISH"
          /\ Trend!Turned(short) = "BULLISH" <=> short = "BEARISH"
          /\ Trend!Turned(trend) = "SIDEWAYS" <=> trend = "SIDEWAYS"
      BY TurnedSides DEF TrendTypes, AllRegimes
    <3> QED
      BY <3>1, <3>2, Zenon DEF Trend!CanTradePe
  <2>2. ASSUME recent # <<>>, NEW p, p = recent[Len(recent)]
        PROVE  /\ Trend!Regime(-p, -fast, -medium, -slow)
                    = Trend!Turned(Trend!Regime(p, fast, medium, slow))
               /\ Trend!Combined(Trend!Turned(Trend!Sign(p, Far)), Trend!Turned(regime),
                                 Trend!Turned(Trend!RsiSignal(rsi)))
                    = Trend!Turned(Trend!Combined(Trend!Sign(p, Far), regime, Trend!RsiSignal(rsi)))
    <3>1. p \in Int
      BY <2>2 DEF TrendTypes
    <3>2. /\ Trend!Sign(p, Far) \in Sides /\ Trend!RsiSignal(rsi) \in Sides
          /\ regime \in AllRegimes
      BY <3>1, SignIsSide, RsiIsSide DEF TrendTypes
    <3>3. Trend!Combined(Trend!Sign(p, Far), regime, Trend!RsiSignal(rsi)) = Trend!Sign(p, Far)
      BY <3>2, OpeningDecides
    <3>4. Trend!Combined(Trend!Turned(Trend!Sign(p, Far)), Trend!Turned(regime),
                         Trend!Turned(Trend!RsiSignal(rsi))) = Trend!Turned(Trend!Sign(p, Far))
      BY <3>2, TurnedSides, OpeningDecides
    <3>5. Trend!Regime(-p, -fast, -medium, -slow) = Trend!Turned(Trend!Regime(p, fast, medium, slow))
      BY <3>1, RegimeTurns DEF TrendTypes
    <3> QED
      BY <3>3, <3>4, <3>5
  <2> QED
    BY <2>1, <2>2 DEF Trend!SidesMirror
<1>2. Trend!NeverBothBlocked
  <2>1. CASE trend = "BULLISH"
    <3>2. confidence > 30
      BY <2>1 DEF TrendSays, TrendTypes
    <3> QED BY <2>1, <3>2 DEF Trend!NeverBothBlocked, Trend!CanTradeCe
  <2>2. CASE trend = "BEARISH"
    <3>1. confidence > 30
      BY <2>2 DEF TrendSays, TrendTypes
    <3> QED BY <2>2, <3>1 DEF Trend!NeverBothBlocked, Trend!CanTradePe
  <2>3. CASE trend \notin {"BULLISH", "BEARISH"}
    BY <2>3 DEF Trend!NeverBothBlocked, Trend!CanTradeCe, TrendTypes, Trends, Sides
  <2> QED BY <2>1, <2>2, <2>3
<1>3. Trend!TrendIsOpening
  BY DEF Trend!TrendIsOpening, TrendSays
<1> QED
  BY <1>1, <1>2, <1>3 DEF Trend!TrendFair

\* Only TrendMoves touches the trend, and the parts are fair of their own accord.
LEMMA TrendKept == GuardsSpec => [](TrendTypes /\ TrendSays)
<1>1. GuardsInit => TrendTypes /\ TrendSays
  BY TrendStart DEF GuardsInit, TrendStill
<1>2. TrendTypes /\ TrendSays /\ [GuardsNext]_guardVars => TrendTypes' /\ TrendSays'
  <2> SUFFICES ASSUME TrendTypes, TrendSays, [GuardsNext]_guardVars
               PROVE  TrendTypes' /\ TrendSays'
    OBVIOUS
  <2>1. CASE TrendMoves
    BY <2>1, TrendStep DEF TrendMoves
  <2>2. CASE UNCHANGED trendVars
    BY <2>2 DEF trendVars, TrendTypes, TrendSays
  <2> QED
    BY <2>1, <2>2 DEF GuardsNext, KillMoves, KillStep, ModeMoves, SizeMoves, guardVars
<1> QED
  BY <1>1, <1>2, PTL DEF GuardsSpec

\* _combine_trend_factors and the two filters favour neither direction, and never
\* block both once a price has come, whatever averages, RSI and thresholds are.
THEOREM TrendStaysFair == GuardsSpec => []TrendFair
<1>1. TrendTypes /\ TrendSays => TrendFair
  BY TrendIsFair DEF TrendFair
<1> QED
  BY <1>1, TrendKept, PTL

-----------------------------------------------------------------------------
(* The mode.                                                                *)
ModeTypes ==
  /\ losses \in Nat
  /\ mode \in {"AGGRESSIVE", "SAFE", "LOCKDOWN"} /\ active \in {"AGGRESSIVE", "SAFE"}
  /\ since \in 0..Cooldown /\ lossAge \in 0..Cooldown /\ limitAge \in 0..Cooldown

ModeFlags == paper \in BOOLEAN /\ locked \in BOOLEAN

\* A mode that may still change was entered no later than the loss, or the limit,
\* that it has not answered yet, and the thresholds are those of the mode.
ModeWaits ==
  /\ losses = 0 => lossAge = 0
  /\ mode # "LOCKDOWN" => active = mode /\ ~locked /\ limitAge <= since /\ limitAge < Cooldown
  /\ mode = "AGGRESSIVE" /\ ~paper => lossAge <= since /\ lossAge < Cooldown

EntryChecked == Switch!SafeIsTighter

LEMMA ModeStart == Switch!Init => ModeFlags /\ ModeTypes /\ ModeWaits /\ EntryChecked
<1> SUFFICES ASSUME Switch!Init PROVE ModeFlags /\ ModeTypes /\ ModeWaits /\ EntryChecked
  OBVIOUS
<1>1. /\ losses = 0 /\ mode = "AGGRESSIVE" /\ active = "AGGRESSIVE"
      /\ since = Cooldown /\ lossAge = 0 /\ limitAge = 0 /\ ~locked
  BY Zenon DEF Switch!Init
<1>7. ModeFlags
  BY Zenon DEF Switch!Init, ModeFlags
<1>4. Cooldown \in Nat /\ Cooldown > 0
  BY GuardsAssumption
<1>5. ModeTypes
  BY <1>1, <1>4 DEF ModeTypes
<1>6. ModeWaits
  BY <1>1, <1>4 DEF ModeWaits
<1>2. entry = Switch!NoEntry
  BY DEF Switch!Init
<1>3. entry.safe = FALSE /\ entry.passed = FALSE
  BY <1>2 DEF Switch!NoEntry
<1> QED
  BY <1>3, <1>5, <1>6, <1>7 DEF EntryChecked, Switch!SafeIsTighter

\* What a pass of update_trading_mode makes of mode and thresholds.
LEMMA ModeUpdate ==
  ASSUME ModeFlags, ModeTypes, ModeWaits, Switch!Update
  PROVE  ModeFlags' /\ ModeTypes' /\ ModeWaits' /\ entry' = entry
<1>10. Cooldown \in Nat /\ Cooldown > 0 /\ Trigger \in Int /\ Trigger <= 1
  BY GuardsAssumption
<1> USE <1>10
<1>1. PICK passed \in 0..1, warm \in BOOLEAN, counted \in BOOLEAN, lateNormal \in BOOLEAN,
           overLimit \in BOOLEAN, v \in Ratios, r \in Ranges :
    LET vs == IF warm /\ counted THEN Switch!Kept(ratios, v) ELSE ratios
        rs == IF warm THEN Switch!Kept(ranges, r) ELSE ranges
        waited == Switch!Capped(since + passed)
        now == Switch!Switched(vs, rs, lateNormal, overLimit, waited)
    IN /\ ratios' = vs /\ ranges' = rs /\ mode' = now.mode /\ active' = now.active
       /\ since' = IF now.mode # mode THEN 0 ELSE waited
       /\ lossAge' = IF losses = 0 THEN 0 ELSE Switch!Capped(lossAge + passed)
       /\ limitAge' = IF overLimit THEN Switch!Capped(limitAge + passed) ELSE 0
       /\ locked' = (locked \/ now.mode = "LOCKDOWN")
       /\ UNCHANGED <<paper, losses, entry>>
  BY Zenon DEF Switch!Update
<1> DEFINE vs == IF warm /\ counted THEN Switch!Kept(ratios, v) ELSE ratios
           rs == IF warm THEN Switch!Kept(ranges, r) ELSE ranges
           waited == Switch!Capped(since + passed)
           now == Switch!Switched(vs, rs, lateNormal, overLimit, waited)
<1>0. /\ mode' = now.mode /\ active' = now.active
      /\ since' = IF now.mode # mode THEN 0 ELSE waited
      /\ lossAge' = IF losses = 0 THEN 0 ELSE Switch!Capped(lossAge + passed)
      /\ limitAge' = IF overLimit THEN Switch!Capped(limitAge + passed) ELSE 0
      /\ locked' = (locked \/ now.mode = "LOCKDOWN")
      /\ UNCHANGED <<paper, losses, entry>>
  BY <1>1, Zenon
<1>2. waited \in 0..Cooldown /\ (since + passed < Cooldown => waited = since + passed)
        /\ (since + passed >= Cooldown => waited = Cooldown)
  BY DEF Switch!Capped, ModeTypes
<1> HIDE DEF vs, rs, waited
<1>3. Switch!CanSwitch(waited) <=> waited = Cooldown
  BY <1>2 DEF Switch!CanSwitch
<1>4. /\ lossAge' \in 0..Cooldown /\ lossAge' <= lossAge + passed /\ (losses = 0 => lossAge' = 0)
      /\ limitAge' \in 0..Cooldown /\ limitAge' <= limitAge + passed /\ (~overLimit => limitAge' = 0)
  BY <1>0 DEF Switch!Capped, ModeTypes
<1>5. /\ losses' = losses /\ (~paper' => ~paper)
      /\ mode' \in {"AGGRESSIVE", "SAFE", "LOCKDOWN"}
      /\ mode' # "LOCKDOWN" /\ ~locked => ~locked'
  <2>1. mode' \in {"AGGRESSIVE", "SAFE", "LOCKDOWN"}
    BY <1>0 DEF Switch!Switched, ModeTypes
  <2>2. losses' = losses /\ paper' = paper
    BY <1>0
  <2>3. mode' # "LOCKDOWN" /\ ~locked => ~locked'
    BY <1>0, Zenon
  <2> QED BY <2>1, <2>2, <2>3, Zenon
<1>9. ModeFlags' /\ entry' = entry
  BY <1>0, Zenon DEF ModeFlags
<1>6. ASSUME ~Switch!CanSwitch(waited)
      PROVE  ModeTypes' /\ ModeWaits'
  <2>1. mode' = mode /\ active' = active /\ since' = waited
    BY <1>0, <1>6 DEF Switch!Switched
  <2>2. since' = since + passed /\ since' < Cooldown
    BY <1>2, <1>3, <1>6, <2>1 DEF ModeTypes
  <2> QED
    BY <1>2, <1>4, <1>5, <2>1, <2>2 DEF ModeTypes, ModeWaits
<1>7. ASSUME Switch!CanSwitch(waited) /\ (overLimit \/ mode = "LOCKDOWN")
      PROVE  ModeTypes' /\ ModeWaits'
  <2>1. mode' = "LOCKDOWN" /\ active' = active
    BY <1>0, <1>7 DEF Switch!Switched
  <2>2. since' \in 0..Cooldown
    BY <1>0, <1>2
  <2> QED
    BY <1>4, <1>5, <2>1, <2>2 DEF ModeTypes, ModeWaits
<1>8. ASSUME Switch!CanSwitch(waited) /\ ~overLimit /\ mode # "LOCKDOWN"
      PROVE  ModeTypes' /\ ModeWaits'
  <2>1. limitAge' = 0 /\ since' \in 0..Cooldown
    BY <1>0, <1>2, <1>8
  <2>6. limitAge' \in 0..Cooldown /\ limitAge' <= since' /\ limitAge' < Cooldown
    BY <2>1
  <2>7. /\ active = mode /\ ~locked
        /\ losses' \in Nat /\ lossAge' \in 0..Cooldown /\ (losses' = 0 => lossAge' = 0)
    BY <1>4, <1>5, <1>8 DEF ModeTypes, ModeWaits
  <2>2. CASE mode = "AGGRESSIVE" /\ Switch!GoSafe(vs, rs, lateNormal)
    <3>1. mode' = "SAFE" /\ active' = "SAFE"
      BY <1>0, <1>8, <2>2 DEF Switch!Switched
    <3> QED
      BY <1>4, <1>5, <1>8, <2>1, <3>1 DEF ModeTypes, ModeWaits
  <2>3. CASE mode = "AGGRESSIVE" /\ ~Switch!GoSafe(vs, rs, lateNormal)
    <3>1. mode' = "AGGRESSIVE" /\ active' = active
      BY <1>0, <1>8, <2>3 DEF Switch!Switched
    <3>2. ~paper => losses = 0
      BY <2>3 DEF Switch!GoSafe, ModeTypes
    <3> QED
      BY <1>5, <1>8, <2>1, <2>3, <2>6, <2>7, <3>1, <3>2 DEF ModeTypes, ModeWaits
  <2>4. CASE mode = "SAFE" /\ Switch!GoAggressive(vs, rs)
    <3>1. mode' = "AGGRESSIVE" /\ active' = "AGGRESSIVE"
      BY <1>0, <1>8, <2>4 DEF Switch!Switched
    <3>2. losses = 0
      BY <2>4 DEF Switch!GoAggressive
    <3> QED
      BY <1>5, <2>1, <2>6, <2>7, <3>1, <3>2 DEF ModeTypes, ModeWaits
  <2>5. CASE mode = "SAFE" /\ ~Switch!GoAggressive(vs, rs)
    <3>1. mode' = "SAFE" /\ active' = active
      BY <1>0, <1>8, <2>5 DEF Switch!Switched
    <3> QED
      BY <1>5, <2>1, <2>5, <2>6, <2>7, <3>1 DEF ModeTypes, ModeWaits
  <2> QED
    BY <1>8, <2>2, <2>3, <2>4, <2>5 DEF ModeTypes
<1> QED
  BY <1>6, <1>7, <1>8, <1>9

\* validators.py: whatever the tick shows, SAFE's table lets no more through.
LEMMA SafePassesLess ==
  ASSUME paper \in BOOLEAN, NEW s, NEW late \in BOOLEAN, NEW ratio \in Nat, NEW spread \in Nat,
         NEW delta \in Nat, Switch!Passes(s, late, ratio, spread, delta, "SAFE")
  PROVE  Switch!Passes(s, late, ratio, spread, delta, "AGGRESSIVE")
<1> DEFINE S == Switch!Limits("SAFE", paper)
           A == Switch!Limits("AGGRESSIVE", paper)
<1>1. /\ A.volume \in Nat /\ A.low \in Nat /\ A.high \in Nat /\ A.spread \in Nat
      /\ S.volume \in Nat /\ S.low \in Nat /\ S.high \in Nat /\ S.spread \in Nat
      /\ A.volume <= S.volume /\ A.low <= S.low /\ S.high <= A.high /\ S.spread <= A.spread
  <2>1. CASE paper
    BY <2>1 DEF Switch!Limits
  <2>2. CASE ~paper
    BY <2>2 DEF Switch!Limits
  <2> QED BY <2>1, <2>2
<1>2. Switch!GreekGate(delta, "SAFE") => Switch!GreekGate(delta, "AGGRESSIVE")
  <2> HIDE DEF S, A
  <2>1. delta \in S.low..S.high => delta \in A.low..A.high
    BY <1>1
  <2> QED BY <2>1 DEF Switch!GreekGate, S, A
<1>3. Switch!QuantityOk(s.ticks = 60, ratio, spread, "SAFE")
        => Switch!QuantityOk(s.ticks = 60, ratio, spread, "AGGRESSIVE")
  <2> HIDE DEF S, A
  <2>1. /\ ratio >= S.volume => ratio >= A.volume
        /\ spread <= S.spread => spread <= A.spread
    BY <1>1
  <2> QED BY <2>1 DEF Switch!QuantityOk, S, A
<1> QED
  BY <1>2, <1>3 DEF Switch!Passes

LEMMA ModeScan ==
  ASSUME ModeFlags, ModeTypes, ModeWaits, Switch!Scan
  PROVE  EntryChecked'
<1> USE GuardsAssumption
<1>1. PICK ticks \in {30, 60}, late \in BOOLEAN, ratio \in Ratios, spread \in Spreads,
           delta \in Switch!Deltas :
       LET s == [ticks |-> ticks, off |-> 6, body |-> 0, back |-> FALSE, chop |-> FALSE] IN
       entry' = [passed |-> Switch!Passes(s, late, ratio, spread, delta, active), in |-> mode,
                 safe |-> Switch!Passes(s, late, ratio, spread, delta, "SAFE"),
                 aggressive |-> Switch!Passes(s, late, ratio, spread, delta, "AGGRESSIVE")]
  BY Zenon DEF Switch!Scan
<1> DEFINE s == [ticks |-> ticks, off |-> 6, body |-> 0, back |-> FALSE, chop |-> FALSE]
<1> HIDE DEF s
<1>2. ratio \in Nat /\ spread \in Nat /\ delta \in Nat
  BY DEF Switch!Deltas
<1>3. Switch!Passes(s, late, ratio, spread, delta, "SAFE")
        => Switch!Passes(s, late, ratio, spread, delta, "AGGRESSIVE")
  BY <1>2, SafePassesLess DEF ModeFlags
<1>4. mode = "SAFE" => active = "SAFE"
  BY DEF ModeWaits
<1>5. /\ entry'.safe = Switch!Passes(s, late, ratio, spread, delta, "SAFE")
      /\ entry'.aggressive = Switch!Passes(s, late, ratio, spread, delta, "AGGRESSIVE")
      /\ entry'.passed = Switch!Passes(s, late, ratio, spread, delta, active)
      /\ entry'.in = mode
  BY <1>1 DEF s
<1> QED
  BY <1>3, <1>4, <1>5, Zenon DEF EntryChecked, Switch!SafeIsTighter

LEMMA ModeStep ==
  ASSUME ModeFlags, ModeTypes, ModeWaits, EntryChecked, Switch!Next
  PROVE  ModeFlags' /\ ModeTypes' /\ ModeWaits' /\ EntryChecked'
<1> USE GuardsAssumption
<1>1. CASE Switch!Update
  <2>1. ModeFlags' /\ ModeTypes' /\ ModeWaits' /\ entry' = entry
    BY <1>1, ModeUpdate
  <2> QED
    BY <2>1 DEF EntryChecked, Switch!SafeIsTighter
<1>2. CASE Switch!TradeEnds
  <2>1. PICK won \in BOOLEAN :
          /\ losses' = IF won THEN 0 ELSE IF losses < MaxLosses THEN losses + 1 ELSE losses
          /\ lossAge' = IF won THEN 0 ELSE lossAge
    BY <1>2 DEF Switch!TradeEnds
  <2>2. UNCHANGED <<paper, mode, active, since, limitAge, locked, entry>>
    BY <1>2 DEF Switch!TradeEnds
  <2>3. ModeTypes' /\ ModeWaits'
    BY <2>1, <2>2 DEF ModeTypes, ModeWaits
  <2>4. ModeFlags'
    BY <2>2, Zenon DEF ModeFlags
  <2> QED
    BY <2>2, <2>3, <2>4 DEF EntryChecked, Switch!SafeIsTighter
<1>3. CASE Switch!Scan
  <2>1. UNCHANGED <<paper, mode, active, losses, since, lossAge, limitAge, locked>>
    BY <1>3 DEF Switch!Scan
  <2>2. ModeTypes' /\ ModeWaits'
    BY <2>1 DEF ModeTypes, ModeWaits
  <2>3. ModeFlags'
    BY <2>1, Zenon DEF ModeFlags
  <2> QED
    BY <1>3, <2>2, <2>3, ModeScan
<1> QED
  BY <1>1, <1>2, <1>3 DEF Switch!Next

\* validate_price_ptq: sixty ticks bring a candle of their own, whose body or wick
\* passes where the missing candle's wick did.
LEMMA MoreHelps == Switch!MoreNeverHurts
<1> SUFFICES ASSUME NEW s \in Switch!Setups, NEW n \in Switch!Seen, NEW o \in Switch!Offsets,
                    Switch!PriceOk(s), n >= s.ticks, o >= s.off
             PROVE  Switch!PriceOk(Switch!More(s, n, o))
  BY DEF Switch!MoreNeverHurts
<1> DEFINE t == Switch!More(s, n, o)
<1>1. /\ s.ticks \in {29, 30, 60} /\ s.off \in {0, 5, 6, 11} /\ s.body \in {0, 10, 11, 80}
      /\ s.back \in BOOLEAN /\ s.chop \in BOOLEAN
  BY DEF Switch!Setups, Switch!Seen, Switch!Offsets
<1>2. t.ticks = n /\ t.off = o /\ t.body = s.body /\ t.back = s.back /\ t.chop = s.chop
  BY DEF Switch!More
<1>3. n \in {29, 30, 60} /\ o \in {0, 5, 6, 11}
  BY DEF Switch!Seen, Switch!Offsets
<1> HIDE DEF t
<1>4. Switch!PriceOk(t)
  BY <1>1, <1>2, <1>3 DEF Switch!PriceOk, Switch!Body, Switch!Wick
<1> QED BY <1>4 DEF t

LEMMA ModeKept == GuardsSpec => [](ModeFlags /\ ModeTypes /\ ModeWaits /\ EntryChecked)
<1>1. GuardsInit => ModeFlags /\ ModeTypes /\ ModeWaits /\ EntryChecked
  BY ModeStart DEF GuardsInit, ModeStill
<1>2. ModeFlags /\ ModeTypes /\ ModeWaits /\ EntryChecked /\ [GuardsNext]_guardVars
        => ModeFlags' /\ ModeTypes' /\ ModeWaits' /\ EntryChecked'
  <2> SUFFICES ASSUME ModeFlags, ModeTypes, ModeWaits, EntryChecked, [GuardsNext]_guardVars
               PROVE  ModeFlags' /\ ModeTypes' /\ ModeWaits' /\ EntryChecked'
    OBVIOUS
  <2>1. CASE ModeMoves
    BY <2>1, ModeStep DEF ModeMoves
  <2>2. CASE UNCHANGED modeVars
    BY <2>2 DEF modeVars, ModeFlags, ModeTypes, ModeWaits, EntryChecked, Switch!SafeIsTighter
  <2> QED
    BY <2>1, <2>2 DEF GuardsNext, KillMoves, KillStep, TrendMoves, SizeMoves, guardVars
<1> QED
  BY <1>1, <1>2, PTL DEF GuardsSpec

\* check_and_switch: a loss makes live trading SAFE and a limit locks it within one
\* cooldown of the loop, LOCKDOWN is for good, and SAFE is the tighter mode.
THEOREM ModeStaysHonest == GuardsSpec => []ModeHonest
<1>1. ModeFlags /\ ModeTypes /\ ModeWaits /\ EntryChecked => ModeHonest
  <2> SUFFICES ASSUME ModeFlags, ModeTypes, ModeWaits, EntryChecked PROVE Switch!ModeHonest
    BY DEF ModeHonest
  <2>1. Switch!LossTightens /\ Switch!LimitLocks /\ Switch!LockedForGood
    BY GuardsAssumption DEF Switch!LossTightens, Switch!LimitLocks, Switch!LockedForGood,
       ModeTypes, ModeWaits
  <2> QED
    BY <2>1, MoreHelps DEF Switch!ModeHonest, EntryChecked
<1> QED
  BY <1>1, ModeKept, PTL

-----------------------------------------------------------------------------
(* The size of an order.                                                    *)
\* A set of natural numbers has a least one, and Min is it.
LEMMA LeastOf ==
  ASSUME NEW S, S \subseteq Nat, S # {}
  PROVE  Size!Min(S) \in S /\ \A y \in S : Size!Min(S) <= y
<1> DEFINE R == OpToRel(<, Nat)
<1>1. IsWellFoundedOn(R, Nat)
  BY NatLessThanWellFounded
<1>2. PICK x \in S : \A y \in S : ~(<<y, x>> \in R)
  <2> HIDE DEF R
  <2> QED BY <1>1, WFMin
<1>3. \A y \in S : x <= y
  <2> SUFFICES ASSUME NEW y \in S PROVE x <= y
    OBVIOUS
  <2>1. x \in Nat /\ y \in Nat
    OBVIOUS
  <2>2. ~(y < x)
    BY <1>2, <2>1 DEF OpToRel
  <2> QED BY <2>1, <2>2
<1>4. \E z \in S : \A y \in S : z <= y
  BY <1>2, <1>3
<1> QED
  BY <1>4, Zenon DEF Size!Min

\* A set of numbers up to 100 has a greatest one, and Max is one of them.
LEMMA GreatestOf ==
  ASSUME NEW S, S \subseteq 0..100, S # {}
  PROVE  Size!Max(S) \in S
<1> DEFINE T == {100 - k : k \in S}
<1>1. T \subseteq Nat /\ T # {}
  <2>1. \A k \in S : 100 - k \in Nat
    OBVIOUS
  <2> QED BY <2>1, Zenon
<1>2. PICK x \in T : \A y \in T : x <= y
  <2> HIDE DEF T
  <2> QED BY <1>1, LeastOf
<1>3. PICK l \in S : x = 100 - l
  OBVIOUS
<1>4. ASSUME NEW k \in S PROVE l >= k
  <2>1. 100 - k \in T /\ k \in Int /\ l \in Int
    BY <1>3
  <2>2. x <= 100 - k
    BY <1>2, <2>1
  <2> QED BY <1>3, <2>1, <2>2
<1>5. \E z \in S : \A y \in S : z >= y
  BY <1>3, <1>4
<1> QED
  BY <1>5, Zenon DEF Size!Max

Asks ==
  [score : 0..100, confidence : 0..100, quality : 0..100, regime : 1..3, volatility : Nat,
   severity : Nat, utilization : Nat, reduction : 0..100, budget : Nat, day : Nat,
   capital : Nat, floor : BOOLEAN]

\* No field of the second is better, and the account is the same.
NoBetter(a, w) ==
  /\ w.score <= a.score /\ w.confidence <= a.confidence /\ w.quality <= a.quality
  /\ w.regime <= a.regime /\ a.severity <= w.severity /\ a.utilization <= w.utilization
  /\ w.volatility = a.volatility \/ (0 < a.volatility /\ a.volatility <= w.volatility)
  /\ w.reduction <= a.reduction
  /\ w.budget = a.budget /\ w.day = a.day /\ w.capital = a.capital /\ w.floor = a.floor

LEMMA WorseIsNoBetter ==
  ASSUME NEW a \in Asks, NEW w \in Size!Worse(a)
  PROVE  w \in Asks /\ NoBetter(a, w)
<1> USE GuardsAssumption
<1>1. CASE w \in {[a EXCEPT !.score = l] : l \in {x \in Levels : x < a.score}}
  BY <1>1 DEF Asks, NoBetter
<1>2. CASE w \in {[a EXCEPT !.confidence = l] : l \in {x \in Levels : x < a.confidence}}
  BY <1>2 DEF Asks, NoBetter
<1>3. CASE w \in {[a EXCEPT !.quality = l] : l \in {x \in Levels : x < a.quality}}
  BY <1>3 DEF Asks, NoBetter
<1>4. CASE w \in {[a EXCEPT !.regime = g] : g \in 1..(a.regime - 1)}
  BY <1>4 DEF Asks, NoBetter
<1>5. CASE w \in {[a EXCEPT !.volatility = v] :
                    v \in {x \in Volatilities : x > a.volatility /\ a.volatility > 0}}
  BY <1>5 DEF Asks, NoBetter
<1>6. CASE w \in {[a EXCEPT !.severity = s] : s \in {x \in Severities : x > a.severity}}
  BY <1>6 DEF Asks, NoBetter
<1>7. CASE w \in {[a EXCEPT !.utilization = u] : u \in {x \in Utilizations : x > a.utilization}}
  BY <1>7 DEF Asks, NoBetter
<1>8. CASE w \in {[a EXCEPT !.reduction = r] : r \in {x \in Reductions : x < a.reduction}}
  BY <1>8 DEF Asks, NoBetter
<1> QED
  BY <1>1, <1>2, <1>3, <1>4, <1>5, <1>6, <1>7, <1>8, Zenon DEF Size!Worse

-----------------------------------------------------------------------------
(* The multiplier: factors, clamps and the reduction.                       *)
\* The multiplier of a score or a confidence, and that of a quality.
Rated(x)  == Size!Scaled(x, 8000, 11000)
Judged(x) == Size!Scaled(x, 7500, 11000)

LEMMA ScaledFalls ==
  ASSUME NEW x \in 0..100, NEW y \in 0..100, y <= x
  PROVE  /\ Rated(x) \in Int /\ Rated(y) \in Int /\ Rated(y) <= Rated(x)
         /\ Judged(x) \in Int /\ Judged(y) \in Int /\ Judged(y) <= Judged(x)
<1>1. Size!Within(x, 0, 100) = x /\ Size!Within(y, 0, 100) = y
  BY DEF Size!Within
<1>2. (11000 - 8000) \div 100 = 30 /\ (11000 - 7500) \div 100 = 35
  OBVIOUS
<1> QED
  BY <1>1, <1>2 DEF Rated, Judged, Size!Scaled

LEMMA RegimeFalls ==
  ASSUME NEW x \in 1..3, NEW y \in 1..3, y <= x
  PROVE  /\ Size!RegimeMultiplier(x) \in Int /\ Size!RegimeMultiplier(y) \in Int
         /\ Size!RegimeMultiplier(y) <= Size!RegimeMultiplier(x)
<1>1. /\ Size!RegimeMultiplier(1) = 9000 /\ Size!RegimeMultiplier(2) = 9200
      /\ Size!RegimeMultiplier(3) = 10300
  BY DEF Size!RegimeMultiplier, Size!Regimes
<1>2. x \in {1, 2, 3} /\ y \in {1, 2, 3}
  OBVIOUS
<1> QED
  BY <1>1, <1>2

LEMMA VolatilityFalls ==
  ASSUME NEW x \in Nat, NEW y \in Nat, y = x \/ (0 < x /\ x <= y)
  PROVE  /\ Size!VolatilityMultiplier(x) \in Int /\ Size!VolatilityMultiplier(y) \in Int
         /\ Size!VolatilityMultiplier(y) <= Size!VolatilityMultiplier(x)
  BY DEF Size!VolatilityMultiplier, Size!Within

LEMMA LossesFall ==
  ASSUME NEW x \in Nat, NEW y \in Nat, x <= y
  PROVE  /\ Size!RecoveryMultiplier(x) \in Int /\ Size!RecoveryMultiplier(y) \in Int
         /\ Size!RecoveryMultiplier(y) <= Size!RecoveryMultiplier(x)
         /\ Size!LossMultiplier(x) \in Int /\ Size!LossMultiplier(y) \in Int
         /\ Size!LossMultiplier(y) <= Size!LossMultiplier(x)
  BY DEF Size!RecoveryMultiplier, Size!LossMultiplier, Size!Within

LEMMA ClampIs ==
  ASSUME NEW x \in Int
  PROVE  Size!Clamped(x) \in Nat /\ \A y \in Int : y <= x => Size!Clamped(y) <= Size!Clamped(x)
  BY DEF Size!Clamped, Size!Within

LEMMA SoftFalls ==
  ASSUME NEW a \in Asks, NEW w \in Asks, NoBetter(a, w)
  PROVE  Size!Soft(a) \in Nat /\ Size!Soft(w) \in Nat /\ Size!Soft(w) <= Size!Soft(a)
<1> DEFINE Raw(x) ==
      1000000
      + 18 * (Rated(x.score) + Rated(x.confidence) + Judged(x.quality) - 30000)
      + 12 * (Size!RegimeMultiplier(x.regime) - 10000)
      + 14 * (Size!VolatilityMultiplier(x.volatility) - 10000)
      + 10 * (Size!RecoveryMultiplier(x.severity) + Size!LossMultiplier(x.utilization) - 20000)
<1>1. /\ Rated(a.score) \in Int /\ Rated(w.score) \in Int
      /\ Rated(w.score) <= Rated(a.score)
  <2>1. a.score \in 0..100 /\ w.score \in 0..100 /\ w.score <= a.score
    BY DEF Asks, NoBetter
  <2> QED BY <2>1, ScaledFalls, Zenon
<1>2. /\ Rated(a.confidence) \in Int /\ Rated(w.confidence) \in Int
      /\ Rated(w.confidence) <= Rated(a.confidence)
  <2>1. a.confidence \in 0..100 /\ w.confidence \in 0..100 /\ w.confidence <= a.confidence
    BY DEF Asks, NoBetter
  <2> QED BY <2>1, ScaledFalls, Zenon
<1>3. /\ Judged(a.quality) \in Int /\ Judged(w.quality) \in Int
      /\ Judged(w.quality) <= Judged(a.quality)
  <2>1. a.quality \in 0..100 /\ w.quality \in 0..100 /\ w.quality <= a.quality
    BY DEF Asks, NoBetter
  <2> QED BY <2>1, ScaledFalls, Zenon
<1>4. /\ Size!RegimeMultiplier(a.regime) \in Int /\ Size!RegimeMultiplier(w.regime) \in Int
      /\ Size!RegimeMultiplier(w.regime) <= Size!RegimeMultiplier(a.regime)
  BY RegimeFalls DEF Asks, NoBetter
<1>5. /\ Size!VolatilityMultiplier(a.volatility) \in Int /\ Size!VolatilityMultiplier(w.volatility) \in Int
      /\ Size!VolatilityMultiplier(w.volatility) <= Size!VolatilityMultiplier(a.volatility)
  BY VolatilityFalls DEF Asks, NoBetter
<1>6. /\ Size!RecoveryMultiplier(a.severity) \in Int /\ Size!RecoveryMultiplier(w.severity) \in Int
      /\ Size!RecoveryMultiplier(w.severity) <= Size!RecoveryMultiplier(a.severity)
      /\ Size!LossMultiplier(a.utilization) \in Int /\ Size!LossMultiplier(w.utilization) \in Int
      /\ Size!LossMultiplier(w.utilization) <= Size!LossMultiplier(a.utilization)
  BY LossesFall DEF Asks, NoBetter
<1>7. Raw(a) \in Int /\ Raw(w) \in Int /\ Raw(w) <= Raw(a)
  BY <1>1, <1>2, <1>3, <1>4, <1>5, <1>6
<1>8. Size!Soft(a) = Size!Clamped(Raw(a)) /\ Size!Soft(w) = Size!Clamped(Raw(w))
  BY DEF Size!Soft, Rated, Judged
<1> HIDE DEF Raw
<1> QED
  BY <1>7, <1>8, ClampIs

LEMMA ProductsFall ==
  ASSUME NEW x \in Nat, NEW y \in Nat, NEW m \in Nat, NEW n \in Nat, y <= x, n <= m
  PROVE  y * n \in Nat /\ x * m \in Nat /\ y * n <= x * m
<1>1. y * n <= x * n
  <2>1. (x - y) * n >= 0
    OBVIOUS
  <2> QED BY <2>1
<1>2. x * n <= x * m
  <2>1. x * (m - n) >= 0
    OBVIOUS
  <2> QED BY <2>1
<1> QED
  BY <1>1, <1>2

LEMMA PartsFall ==
  ASSUME NEW x \in Nat, NEW y \in Nat, y <= x
  PROVE  /\ x \div 100 \in Nat /\ y \div 100 \in Nat /\ y \div 100 <= x \div 100
         /\ x \div 1000000 \in Nat /\ y \div 1000000 \in Nat /\ y \div 1000000 <= x \div 1000000
  OBVIOUS

LEMMA MultiplierFalls ==
  ASSUME NEW a \in Asks, NEW w \in Asks, NoBetter(a, w)
  PROVE  /\ Size!Multiplier(a) \in Nat /\ Size!Multiplier(w) \in Nat
         /\ Size!Multiplier(w) <= Size!Multiplier(a)
<1> DEFINE ra == Size!Within(a.reduction, 10, 100)
           rw == Size!Within(w.reduction, 10, 100)
<1>1. ra \in Nat /\ rw \in Nat /\ rw <= ra
  BY DEF Asks, NoBetter, Size!Within
<1>2. Size!Soft(a) \in Nat /\ Size!Soft(w) \in Nat /\ Size!Soft(w) <= Size!Soft(a)
  BY SoftFalls
<1> HIDE DEF ra, rw
<1>3. /\ Size!Soft(w) * rw \in Nat /\ Size!Soft(a) * ra \in Nat
      /\ Size!Soft(w) * rw <= Size!Soft(a) * ra
  BY <1>1, <1>2, ProductsFall
<1>4. /\ (Size!Soft(w) * rw) \div 100 \in Nat /\ (Size!Soft(a) * ra) \div 100 \in Nat
      /\ (Size!Soft(w) * rw) \div 100 <= (Size!Soft(a) * ra) \div 100
  BY <1>3, PartsFall
<1>5. /\ Size!Multiplier(a) = Size!Clamped((Size!Soft(a) * ra) \div 100)
      /\ Size!Multiplier(w) = Size!Clamped((Size!Soft(w) * rw) \div 100)
  BY DEF Size!Multiplier, ra, rw
<1> DEFINE pa == (Size!Soft(a) * ra) \div 100
           pw == (Size!Soft(w) * rw) \div 100
<1>6. pa \in Int /\ pw \in Int /\ pw <= pa
  BY <1>4
<1> HIDE DEF pa, pw
<1>7. /\ Size!Clamped(pa) \in Nat /\ Size!Clamped(pw) \in Nat
      /\ Size!Clamped(pw) <= Size!Clamped(pa)
  BY <1>6, ClampIs
<1> QED
  BY <1>5, <1>7 DEF pa, pw

-----------------------------------------------------------------------------
(* The caps and the lots.                                                   *)
Caps(a) ==
  {(a.capital * 20) \div 100, (a.capital * 3) \div 100, a.budget}
  \cup (IF a.day > 0 THEN {(a.day * 40) \div 100} ELSE {})
  \cup (IF a.severity > 0 THEN {a.capital \div 2} ELSE {})

LEMMA CapIs ==
  ASSUME NEW a \in Asks
  PROVE  /\ Caps(a) \subseteq Nat /\ Size!Cap(a) \in Caps(a)
         /\ \A c \in Caps(a) : Size!Cap(a) <= c
<1>1. a.capital \in Nat /\ a.budget \in Nat /\ a.day \in Nat /\ a.severity \in Nat
  BY DEF Asks
<1>2. /\ (a.capital * 20) \div 100 \in Nat /\ (a.capital * 3) \div 100 \in Nat
      /\ (a.day * 40) \div 100 \in Nat /\ a.capital \div 2 \in Nat
  BY <1>1
<1>3. Caps(a) \subseteq Nat /\ Caps(a) # {}
  BY <1>1, <1>2 DEF Caps
<1>4. Size!Cap(a) = Size!Min(Caps(a))
  BY DEF Size!Cap, Caps
<1> QED
  BY <1>3, <1>4, LeastOf

LEMMA CapFalls ==
  ASSUME NEW a \in Asks, NEW w \in Asks, NoBetter(a, w)
  PROVE  Size!Cap(a) \in Nat /\ Size!Cap(w) \in Nat /\ Size!Cap(w) <= Size!Cap(a)
<1>1. a.severity \in Nat /\ w.severity \in Nat
  BY DEF Asks
<1>2. a.severity > 0 => w.severity > 0
  BY <1>1 DEF NoBetter
<1>3. Caps(a) \subseteq Caps(w)
  BY <1>2 DEF NoBetter, Caps
<1> QED
  BY <1>3, CapIs

\* What is allowed is within the cap, and all the request where the cap is not met.
LEMMA AllowedIs ==
  ASSUME NEW a \in Asks
  PROVE  /\ Size!Allowed(a) \in Nat /\ Size!Allowed(a) <= Size!Cap(a)
         /\ Size!IsCapped(a) \in BOOLEAN
<1> DEFINE p == a.budget * Size!Multiplier(a)
<1>1. NoBetter(a, a)
  BY DEF NoBetter, Asks
<1>2. p \in Nat /\ Size!Cap(a) \in Nat
  <2>1. a.budget \in Nat /\ Size!Multiplier(a) \in Nat /\ Size!Cap(a) \in Nat
    BY <1>1, MultiplierFalls, CapFalls DEF Asks
  <2> QED BY <2>1, ProductsFall
<1>3. Size!IsCapped(a) = (p > Size!Cap(a) * 1000000)
  BY DEF Size!IsCapped
<1>4. Size!Allowed(a) = IF p > Size!Cap(a) * 1000000 THEN Size!Cap(a) ELSE p \div 1000000
  BY DEF Size!Allowed, Size!IsCapped
<1> HIDE DEF p
<1> QED
  BY <1>2, <1>3, <1>4

LEMMA AllowedFalls ==
  ASSUME NEW a \in Asks, NEW w \in Asks, NoBetter(a, w)
  PROVE  Size!Allowed(w) <= Size!Allowed(a)
<1> DEFINE pa == a.budget * Size!Multiplier(a)
           pw == w.budget * Size!Multiplier(w)
<1>1. pa \in Nat /\ pw \in Nat /\ pw <= pa
  <2>1. a.budget \in Nat /\ w.budget = a.budget
    BY DEF Asks, NoBetter
  <2> QED BY <2>1, MultiplierFalls, ProductsFall
<1>2. Size!Cap(a) \in Nat /\ Size!Cap(w) \in Nat /\ Size!Cap(w) <= Size!Cap(a)
  BY CapFalls
<1>3. /\ Size!Allowed(a) = IF pa > Size!Cap(a) * 1000000 THEN Size!Cap(a) ELSE pa \div 1000000
      /\ Size!Allowed(w) = IF pw > Size!Cap(w) * 1000000 THEN Size!Cap(w) ELSE pw \div 1000000
  BY DEF Size!Allowed, Size!IsCapped
<1> HIDE DEF pa, pw
<1> QED
  BY <1>1, <1>2, <1>3

LEMMA FloorMeans ==
  ASSUME NEW a \in Asks
  PROVE  Size!Floored(a) <=> (a.floor /\ a.budget >= 100 /\ Size!Cap(a) >= 100)
<1>1. {a.budget, Size!Cap(a)} \subseteq Nat
  BY CapIs DEF Asks
<1>2. /\ Size!Min({a.budget, Size!Cap(a)}) \in {a.budget, Size!Cap(a)}
      /\ Size!Min({a.budget, Size!Cap(a)}) <= a.budget
      /\ Size!Min({a.budget, Size!Cap(a)}) <= Size!Cap(a)
  BY <1>1, LeastOf
<1> DEFINE least == Size!Min({a.budget, Size!Cap(a)})
<1>3. least >= 100 <=> (a.budget >= 100 /\ Size!Cap(a) >= 100)
  <2> HIDE DEF least
  <2>1. least \in {a.budget, Size!Cap(a)} /\ least <= a.budget /\ least <= Size!Cap(a)
    BY <1>2 DEF least
  <2> QED BY <1>1, <2>1
<1> QED
  BY <1>3, Zenon DEF Size!Floored, Size!OneLot

\* The lots, without the words: whole lots up to the most, or one where none is whole.
LEMMA LotsAre ==
  ASSUME NEW a \in Asks
  PROVE  LET whole == Size!Allowed(a) \div 100 IN
         /\ whole \in Nat /\ 100 * whole <= Size!Allowed(a) /\ Size!Allowed(a) < 100 * whole + 100
         /\ whole > 8 => Size!Lots(a) = 8
         /\ whole \in 1..8 => Size!Lots(a) = whole
         /\ whole = 0 => Size!Lots(a) = IF Size!Rescued(a) \/ Size!Floored(a) THEN 1 ELSE 0
<1>1. Size!Allowed(a) \in Nat
  BY AllowedIs
<1> DEFINE n == Size!Allowed(a) \div 100
<1>2. n \in Nat /\ 100 * n <= Size!Allowed(a) /\ Size!Allowed(a) < 100 * n + 100
  BY <1>1
<1>3. Size!Lots(a) =
        IF n > 8 THEN 8 ELSE IF n = 0 /\ (Size!Rescued(a) \/ Size!Floored(a)) THEN 1 ELSE n
  BY Zenon DEF Size!Lots, Size!OneLot, Size!MaxLots
<1> HIDE DEF n
<1>4. /\ n > 8 => Size!Lots(a) = 8
      /\ n \in 1..8 => Size!Lots(a) = n
      /\ n = 0 => Size!Lots(a) = IF Size!Rescued(a) \/ Size!Floored(a) THEN 1 ELSE 0
  BY <1>2, <1>3
<1> QED
  BY <1>2, <1>4, Zenon DEF n

LEMMA CapsHold ==
  ASSUME NEW a \in Asks
  PROVE  LET risk == Size!Lots(a) * 100 IN
         /\ Size!Lots(a) <= 8
         /\ \/ risk <= Size!Cap(a)
            \/ Size!Lots(a) = 1 /\ ~Size!IsCapped(a) /\ 100 * Size!Cap(a) >= risk * 95
<1> DEFINE whole == Size!Allowed(a) \div 100
<1>1. Size!Allowed(a) \in Nat /\ Size!Allowed(a) <= Size!Cap(a) /\ Size!Cap(a) \in Nat
  BY AllowedIs, CapIs
<1>2. /\ whole \in Nat /\ 100 * whole <= Size!Allowed(a)
      /\ whole > 8 => Size!Lots(a) = 8
      /\ whole \in 1..8 => Size!Lots(a) = whole
      /\ whole = 0 => Size!Lots(a) = IF Size!Rescued(a) \/ Size!Floored(a) THEN 1 ELSE 0
  BY LotsAre
<1>3. Size!Rescued(a) => ~Size!IsCapped(a) /\ 100 * Size!Allowed(a) >= 9500
  BY DEF Size!Rescued, Size!OneLot, Size!ShortBy
<1>4. Size!Floored(a) => Size!Cap(a) >= 100
  BY FloorMeans
<1> HIDE DEF whole
<1>5. CASE whole > 8
  BY <1>1, <1>2, <1>5
<1>6. CASE whole \in 1..8
  BY <1>1, <1>2, <1>6
<1>7. CASE whole = 0 /\ Size!Rescued(a)
  BY <1>1, <1>2, <1>3, <1>7
<1>8. CASE whole = 0 /\ Size!Floored(a)
  BY <1>1, <1>2, <1>4, <1>8
<1>9. CASE whole = 0 /\ ~Size!Rescued(a) /\ ~Size!Floored(a)
  BY <1>1, <1>2, <1>9
<1> QED
  BY <1>2, <1>5, <1>6, <1>7, <1>8, <1>9

LEMMA LotsFall ==
  ASSUME NEW a \in Asks, NEW w \in Asks, NoBetter(a, w)
  PROVE  \/ Size!Lots(w) <= Size!Lots(a)
         \/ Size!Lots(w) = 1 /\ Size!Lots(a) = 0 /\ Size!IsCapped(a) /\ ~Size!IsCapped(w)
<1> DEFINE na == Size!Allowed(a) \div 100
           nw == Size!Allowed(w) \div 100
<1>1. /\ Size!Allowed(a) \in Nat /\ Size!Allowed(w) \in Nat
      /\ Size!Allowed(w) <= Size!Allowed(a)
  BY AllowedIs, AllowedFalls
<1>2. na \in Nat /\ nw \in Nat /\ nw <= na
  BY <1>1, PartsFall
<1>3. /\ na > 8 => Size!Lots(a) = 8
      /\ na \in 1..8 => Size!Lots(a) = na
      /\ na = 0 => Size!Lots(a) = IF Size!Rescued(a) \/ Size!Floored(a) THEN 1 ELSE 0
  BY LotsAre
<1>4. /\ nw > 8 => Size!Lots(w) = 8
      /\ nw \in 1..8 => Size!Lots(w) = nw
      /\ nw = 0 => Size!Lots(w) = IF Size!Rescued(w) \/ Size!Floored(w) THEN 1 ELSE 0
  BY LotsAre
<1>5. Size!Floored(w) => Size!Floored(a)
  <2>1. w.floor = a.floor /\ w.budget = a.budget /\ Size!Cap(w) <= Size!Cap(a)
        /\ Size!Cap(a) \in Nat /\ Size!Cap(w) \in Nat
    BY CapFalls DEF NoBetter
  <2>2. Size!Cap(w) >= 100 => Size!Cap(a) >= 100
    BY <2>1
  <2> QED BY <2>1, <2>2, FloorMeans, Zenon
<1>6. Size!Rescued(w) => ~Size!IsCapped(w) /\ (Size!Rescued(a) \/ Size!IsCapped(a))
  <2> DEFINE enoughA == 100 * Size!Allowed(a) >= 9500
             enoughW == 100 * Size!Allowed(w) >= 9500
  <2>1. enoughW => enoughA
    BY <1>1
  <2>2. Size!Rescued(w) <=> ~Size!IsCapped(w) /\ enoughW
    BY DEF Size!Rescued, Size!OneLot, Size!ShortBy
  <2>3. Size!Rescued(a) <=> ~Size!IsCapped(a) /\ enoughA
    BY DEF Size!Rescued, Size!OneLot, Size!ShortBy
  <2> HIDE DEF enoughA, enoughW
  <2> QED BY <2>1, <2>2, <2>3, Zenon
<1> HIDE DEF na, nw
<1>7. CASE nw > 0
  BY <1>2, <1>3, <1>4, <1>7
<1>8. CASE nw = 0 /\ na > 0
  <2>1. Size!Lots(w) \in {0, 1}
    BY <1>4, <1>8
  <2>2. Size!Lots(a) >= 1 /\ Size!Lots(a) \in Nat
    BY <1>2, <1>3, <1>8
  <2> QED BY <2>1, <2>2
<1>9. CASE nw = 0 /\ na = 0
  <2>1. CASE Size!Floored(w)
    <3>1. Size!Lots(w) = 1 /\ Size!Lots(a) = 1
      BY <1>3, <1>4, <1>5, <1>9, <2>1
    <3> QED BY <3>1
  <2>2. CASE Size!Rescued(w)
    BY <1>3, <1>4, <1>6, <1>9, <2>2
  <2>3. CASE ~Size!Floored(w) /\ ~Size!Rescued(w)
    <3>1. Size!Lots(w) = 0 /\ Size!Lots(a) \in {0, 1}
      BY <1>3, <1>4, <1>9, <2>3
    <3> QED BY <3>1
  <2> QED BY <2>1, <2>2, <2>3
<1> QED
  BY <1>2, <1>7, <1>8, <1>9

LEMMA SizeIsHonest ==
  ASSUME ask \in Asks
  PROVE  Size!SizeHonest
<1>1. Size!RiskCapped
  BY CapsHold DEF Size!RiskCapped, Size!OneLot, Size!MaxLots, Size!ShortBy
<1>2. ASSUME NEW w \in Size!Worse(ask)
      PROVE  \/ Size!Lots(w) <= Size!Lots(ask) /\ Size!Grade(w) <= Size!Grade(ask)
             \/ Size!Lots(w) = 1 /\ Size!Lots(ask) = 0 /\ Size!IsCapped(ask) /\ ~Size!IsCapped(w)
  <2>1. w \in Asks /\ NoBetter(ask, w)
    BY WorseIsNoBetter
  <2>2. Size!Grade(w) <= Size!Grade(ask)
    BY <2>1, MultiplierFalls DEF Size!Grade
  <2> QED
    BY <2>1, <2>2, LotsFall
<1> QED
  BY <1>1, <1>2 DEF Size!SizeHonest, Size!WorseNotBigger

LEMMA SizeKept == GuardsSpec => [](part = "size" => ask \in Asks)
<1>1. GuardsInit => (part = "size" => ask \in Asks)
  <2> SUFFICES ASSUME GuardsInit, part = "size" PROVE ask \in Asks
    OBVIOUS
  <2>1. Size!Init
    BY DEF GuardsInit
  <2>2. /\ Size!Max(Levels) \in 0..100 /\ Size!Max(Reductions) \in 0..100
        /\ Size!Min(Volatilities \ {0}) \in Nat
    BY GuardsAssumption, GreatestOf, LeastOf
  <2> QED
    BY <2>1, <2>2, GuardsAssumption DEF Size!Init, Size!Best, Asks
<1>2. (part = "size" => ask \in Asks) /\ [GuardsNext]_guardVars => (part = "size" => ask \in Asks)'
  <2> SUFFICES ASSUME part = "size" => ask \in Asks, [GuardsNext]_guardVars, part' = "size"
               PROVE  ask' \in Asks
    OBVIOUS
  <2>1. CASE SizeMoves
    BY <2>1, WorseIsNoBetter DEF SizeMoves, Size!Next, Size!Worsens
  <2>2. CASE UNCHANGED <<part, ask>>
    BY <2>2
  <2> QED
    BY <2>1, <2>2 DEF GuardsNext, KillMoves, KillStep, ModeMoves, TrendMoves, guardVars
<1> QED
  BY <1>1, <1>2, PTL DEF GuardsSpec

\* calculate of position_size_engine.py: what an order risks stays within every cap
\* but for one rounding, and no worse signal is sized bigger but for that rounding.
THEOREM SizeStaysHonest == GuardsSpec => []SizeHonest
<1>1. (part = "size" => ask \in Asks) => SizeHonest
  BY SizeIsHonest DEF SizeHonest
<1> QED
  BY <1>1, SizeKept, PTL
=============================================================================
