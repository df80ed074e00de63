-------------------------------- MODULE PreTrade --------------------------------
(***************************************************************************)
(* The mode switch (core/services/mode_switch.py) and the checks of the    *)
(* fallback strategy it tightens (core/risk/validators.py,                 *)
(* entry_engine._ptq_entry_signal).  A loss, thin volume, a still market   *)
(* or a late hour make the mode SAFE; only all of them gone make it        *)
(* AGGRESSIVE again.  Ratios are percent and ranges points of premium.     *)
(* The greeks that reach the switch and the gate are those the program     *)
(* computes: an at-the-money delta, a gamma and a theta per second that    *)
(* round to nothing.                                                       *)
(***************************************************************************)
EXTENDS Integers, Sequences, SequencesExt

CONSTANTS
  Keep,                     \* observations kept, 10 in the code
  Cooldown,                 \* switch_cooldown_sec
  MaxLosses,                \* bound: the streak counted
  Ratios, Ranges, Spreads,  \* bound: what a tick may show
  Trigger, ThinVolume, VolumeBack, Still, MovingAgain

VARIABLES
  paper,        \* PAPER_TRADING
  mode, active, \* _current_mode, and the mode whose thresholds are active
  losses,       \* consecutive_losses
  ratios, ranges,
  since,        \* time since the last switch
  lossAge,      \* history: time the loop has run with a loss on the streak
  limitAge,     \* history: time it has run over the lockdown limit
  locked,       \* history: LOCKDOWN was entered
  entry         \* the last entry checked: let through, and what each mode would have said

preVars == <<paper, mode, active, losses, ratios, ranges, since, lossAge, limitAge, locked, entry>>

Modes == {"AGGRESSIVE", "SAFE"}
NoEntry == [passed |-> FALSE, in |-> "AGGRESSIVE", safe |-> FALSE, aggressive |-> FALSE]

Init ==
  /\ paper \in BOOLEAN /\ mode = "AGGRESSIVE" /\ active = "AGGRESSIVE" /\ losses = 0
  /\ ratios = <<>> /\ ranges = <<>> /\ since = Cooldown /\ lossAge = 0 /\ limitAge = 0
  /\ locked = FALSE /\ entry = NoEntry
-----------------------------------------------------------------------------
Capped(n) == IF n > Cooldown THEN Cooldown ELSE n
Sum(s) == FoldSeq(LAMBDA a, b : a + b, 0, s)
Kept(s, v) == LET t == Append(s, v) IN IF Len(t) > Keep THEN Tail(t) ELSE t

\* The averages of the last observations, as comparisons: volume is unknown without
\* any, and a range without any is next to nothing.
VolumeBelow(s, limit) == s # <<>> /\ Sum(s) < limit * Len(s)
RangeBelow(s, limit)  == s = <<>> \/ Sum(s) < limit * Len(s)

\* should_go_safe: any one reason, and never on paper.
GoSafe(vs, rs, lateNormal) ==
  ~paper /\ (losses >= Trigger \/ VolumeBelow(vs, ThinVolume) \/ RangeBelow(rs, Still) \/ lateNormal)

\* should_go_aggressive: every one of them gone, but the hour is not asked about.
GoAggressive(vs, rs) ==
  /\ losses = 0
  /\ vs # <<>> /\ ~VolumeBelow(vs, VolumeBack)
  /\ rs # <<>> /\ Sum(rs) > MovingAgain * Len(rs)

\* Slip: at the very end of the cooldown nothing is switched yet.
CanSwitchLate(waited) == waited > Cooldown
\* can_switch
CanSwitch(waited) == waited >= Cooldown

\* _current_mode and the thresholds after one pass of update_trading_mode.
Switched(vs, rs, lateNormal, overLimit, waited) ==
  LET stays == [mode |-> mode, active |-> active]
      to(m) == [mode |-> m, active |-> m]
  IN  IF ~CanSwitch(waited) THEN stays
      ELSE IF overLimit \/ mode = "LOCKDOWN" THEN [stays EXCEPT !.mode = "LOCKDOWN"]
      ELSE IF mode = "AGGRESSIVE" /\ GoSafe(vs, rs, lateNormal) THEN to("SAFE")
      ELSE IF mode = "SAFE" /\ GoAggressive(vs, rs) THEN to("AGGRESSIVE") ELSE stays

\* update_trading_mode, once per pass of the loop: observations need six ticks, and a
\* volume ratio a volume.
Update ==
  \E passed \in 0..1, warm, counted, lateNormal, overLimit \in BOOLEAN, v \in Ratios, r \in Ranges :
    LET vs == IF warm /\ counted THEN Kept(ratios, v) ELSE ratios
        rs == IF warm THEN Kept(ranges, r) ELSE ranges
        waited == Capped(since + passed)
        now == Switched(vs, rs, lateNormal, overLimit, waited)
    IN /\ ratios' = vs /\ ranges' = rs /\ mode' = now.mode /\ active' = now.active
       /\ since' = IF now.mode # mode THEN 0 ELSE waited
       /\ lossAge' = IF losses = 0 THEN 0 ELSE Capped(lossAge + passed)
       /\ limitAge' = IF overLimit THEN Capped(limitAge + passed) ELSE 0
       /\ locked' = (locked \/ now.mode = "LOCKDOWN")
       /\ UNCHANGED <<paper, losses, entry>>

\* record_trade_result
TradeEnds ==
  /\ \E won \in BOOLEAN :
       /\ losses' = IF won THEN 0 ELSE IF losses < MaxLosses THEN losses + 1 ELSE losses
       /\ lossAge' = IF won THEN 0 ELSE lossAge
  /\ UNCHANGED <<paper, mode, active, ratios, ranges, since, limitAge, locked, entry>>
-----------------------------------------------------------------------------
\* The two tables, for paper and for live trading, in hundredths.
Limits(m, p) ==
  CASE p /\ m = "AGGRESSIVE"  -> [volume |-> 50,  low |-> 15, high |-> 90, spread |-> 250]
    [] p /\ m = "SAFE"        -> [volume |-> 60,  low |-> 20, high |-> 80, spread |-> 200]
    [] ~p /\ m = "AGGRESSIVE" -> [volume |-> 80,  low |-> 20, high |-> 85, spread |-> 150]
    [] ~p /\ m = "SAFE"       -> [volume |-> 110, low |-> 35, high |-> 65,  spread |-> 100]

\* calculate_vwap and analyze_candle_quality, as what validate_price_ptq reads of them:
\* ticks, distance from the VWAP in parts of 10 000, body and wick of the minute's candle
\* in percent, whether it points back to the VWAP, and whether prices stood still.
Seen    == {29, 30, 60}
Offsets == {0, 5, 6, 11}
Setups  == [ticks : Seen, off : Offsets, body : {0, 10, 11, 80}, back : BOOLEAN, chop : BOOLEAN]
Body(s) == IF s.ticks < 60 THEN 0 ELSE s.body
Wick(s) == IF s.ticks < 60 THEN 0 ELSE 100 - s.body
PriceOk(s) ==
  /\ s.ticks >= 30 /\ ~s.chop
  /\ \/ s.off > 0 /\ Body(s) > 10
     \/ s.off > 0 /\ Wick(s) > 25 /\ s.back
     \/ s.off > 5

\* validate_time_ptq: live, nothing is entered from half past two on.
TimeOk(late) == paper \/ ~late

\* validate_quantity_ptq
QuantityOk(enough, ratio, spread, m) ==
  enough /\ ratio > 0 /\ ratio >= Limits(m, paper).volume /\ spread <= Limits(m, paper).spread

\* _calculate_greeks: a strike next to the spot, a week and a volatility that are fixed.
Deltas == {51, 55}
\* greek_gate; gamma and theta are far below every limit.
GreekGate(delta, m) == delta \in Limits(m, paper).low..Limits(m, paper).high

\* _ptq_entry_signal: price, time, quantity, greeks; on paper only the greeks.
Passes(s, late, ratio, spread, delta, m) ==
  /\ paper \/ PriceOk(s)
  /\ TimeOk(late)
  /\ paper \/ QuantityOk(s.ticks = 60, ratio, spread, m)
  /\ GreekGate(delta, m)

\* A scan in IDLE, which LOCKDOWN does not reach.
Scan ==
  /\ mode # "LOCKDOWN"
  /\ \E ticks \in {30, 60}, late \in BOOLEAN, ratio \in Ratios, spread \in Spreads, delta \in Deltas :
       LET s == [ticks |-> ticks, off |-> 6, body |-> 0, back |-> FALSE, chop |-> FALSE] IN
       entry' = [passed |-> Passes(s, late, ratio, spread, delta, active), in |-> mode,
                 safe |-> Passes(s, late, ratio, spread, delta, "SAFE"),
                 aggressive |-> Passes(s, late, ratio, spread, delta, "AGGRESSIVE")]
  /\ UNCHANGED <<paper, mode, active, losses, ratios, ranges, since, lossAge, limitAge, locked>>

Next == Update \/ TradeEnds \/ Scan
Spec == Init /\ [][Next]_preVars
-----------------------------------------------------------------------------
\* A loss that has stood for a cooldown has made live trading SAFE, whatever switch came
\* just before it; and a day over its limit for as long has locked it down.
LossTightens  == ~paper /\ lossAge = Cooldown => mode # "AGGRESSIVE"
LimitLocks    == limitAge = Cooldown => mode = "LOCKDOWN"
LockedForGood == locked => mode = "LOCKDOWN"

\* SAFE lets nothing through that AGGRESSIVE would not, and in SAFE nothing goes through
\* that breaks its limits, though the thresholds are kept apart from the mode.
SafeIsTighter ==
  /\ entry.safe => entry.aggressive
  /\ entry.passed /\ entry.in = "SAFE" => entry.safe

\* More history, a bigger distance from the VWAP never turn a good setup into a bad one.
More(s, n, o) == [ticks |-> n, off |-> o, body |-> s.body, back |-> s.back, chop |-> s.chop]
MoreNeverHurts ==
  \A s \in Setups, n \in Seen, o \in Offsets :
    PriceOk(s) /\ n >= s.ticks /\ o >= s.off => PriceOk(More(s, n, o))

\* All of it: the mode follows the losses and the limits in time, and is what entries meet.
ModeHonest == LossTightens /\ LimitLocks /\ LockedForGood /\ SafeIsTighter /\ MoreNeverHurts
=============================================================================
