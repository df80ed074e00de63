------------------------------ MODULE SessionTrend ------------------------------
(***************************************************************************)
(* The trend of the session (core/risk/session_trend.py) and the sides it  *)
(* lets the entry engine trade.  An average moves towards the price by an  *)
(* amount left open; a price counts in steps from the opening, Far of them *)
(* to a side for a trend and Near of them for a short one.                 *)
(***************************************************************************)
EXTENDS Integers, Sequences

CONSTANTS
  Span,        \* prices lie within Span of the opening
  Far, Near,   \* 100 points, and 25 points over the last ShortLen prices
  ShortLen,    \* 20
  Rsis         \* values the RSI may have, symmetric about 50

VARIABLES
  started, recent,             \* session_started, tail of price_history
  fast, medium, slow,          \* the averages, of periods 9, 21 and 50
  regime, trend, confidence, short, rsi

trendVars == <<started, recent, fast, medium, slow, regime, trend, confidence, short, rsi>>
averages  == <<fast, medium, slow>>

Init ==
  /\ started = FALSE /\ recent = <<>> /\ fast = 0 /\ medium = 0 /\ slow = 0
  /\ regime = "NEUTRAL" /\ trend = "NEUTRAL" /\ confidence = 0 /\ short = "NEUTRAL" /\ rsi = 50

\* start_session: a new opening and new averages; the regime stays the last session's
\* until a price comes.
Start ==
  /\ started' = TRUE /\ recent' = <<0>> /\ fast' = 0 /\ medium' = 0 /\ slow' = 0
  /\ trend' = "NEUTRAL" /\ short' = "NEUTRAL" /\ confidence' = 0 /\ rsi' = 50
  /\ UNCHANGED regime

\* An average ends between where it was and the price.
Towards(a, p) == IF a <= p THEN a..p ELSE p..a

\* Strict order of the price and the averages; weak when only the slower two agree.
Regime(p, f, m, s) ==
  CASE p > f /\ f > m /\ m > s -> "BULLISH"
    [] p < f /\ f < m /\ m < s -> "BEARISH"
    [] ~(p > f /\ f > m /\ m > s) /\ p > m /\ m > s -> "BULLISH_WEAK"
    [] ~(p < f /\ f < m /\ m < s) /\ p < m /\ m < s -> "BEARISH_WEAK"
    [] OTHER -> "SIDEWAYS"

Sign(x, limit) == IF x > limit THEN "BULLISH" ELSE IF x < -limit THEN "BEARISH" ELSE "SIDEWAYS"
RsiSignal(r) == IF r < 35 THEN "BULLISH" ELSE IF r > 65 THEN "BEARISH" ELSE "SIDEWAYS"

\* _combine_trend_factors: 50 points for the opening, 30, 15 or 20 for the averages, 15 or
\* 10 for the RSI; the first of the three sides with the most has it.
Points(side, o, g, r) ==
  (IF o = side THEN 50 ELSE 0)
  + (IF side = "SIDEWAYS"
     THEN (IF g \in {"BULLISH", "BEARISH", "BULLISH_WEAK", "BEARISH_WEAK"} THEN 0 ELSE 20)
     ELSE IF g = side THEN 30
     ELSE IF <<side, g>> \in {<<"BULLISH", "BULLISH_WEAK">>, <<"BEARISH", "BEARISH_WEAK">>} THEN 15 ELSE 0)
  + (IF r # side THEN 0 ELSE IF side = "SIDEWAYS" THEN 10 ELSE 15)
Combined(o, g, r) ==
  LET most(side) == \A other \in {"BULLISH", "BEARISH", "SIDEWAYS"} :
                      Points(side, o, g, r) >= Points(other, o, g, r) IN
  IF most("BULLISH") THEN "BULLISH" ELSE IF most("BEARISH") THEN "BEARISH" ELSE "SIDEWAYS"

\* update_price
Update ==
  /\ started
  /\ \E p \in -Span..Span :
       /\ recent' = IF Len(recent) < ShortLen THEN Append(recent, p) ELSE Append(Tail(recent), p)
       /\ fast' \in Towards(fast, p) /\ medium' \in Towards(medium, p) /\ slow' \in Towards(slow, p)
       /\ regime' = Regime(p, fast', medium', slow')
       /\ LET o == Sign(p, Far) IN
          /\ trend' = Combined(o, regime', RsiSignal(rsi))
          /\ confidence' = Points(trend', o, regime', RsiSignal(rsi))
       /\ short' = IF Len(recent') < ShortLen THEN short ELSE Sign(p - Head(recent'), Near)
  /\ UNCHANGED <<started, rsi>>

\* can_trade_ce and can_trade_pe store the RSI they are given.
UpdateRsi == rsi' \in Rsis /\ UNCHANGED <<started, recent, averages, regime, trend, confidence, short>>

Next == Start \/ Update \/ UpdateRsi
Spec == Init /\ [][Next]_trendVars
-----------------------------------------------------------------------------
\* The side an opinion favours: CE when it is bullish and the RSI low, PE mirrored. A strong
\* regime scores 80, which passes 60; a weak one 50, which does not.
\* Slip: the threshold takes its own value in.
LowRsiIncl(r) == r <= 40
LowRsi(r) == r < 40
CanTradeCe ==
  \/ trend = "BULLISH" /\ confidence > 30
  \/ regime = "BULLISH"
  \/ LowRsi(rsi)
  \/ short = "BULLISH"
  \/ trend = "SIDEWAYS"
CanTradePe ==
  \/ trend = "BEARISH" /\ confidence > 30
  \/ regime = "BEARISH"
  \/ rsi > 60
  \/ short = "BEARISH"
  \/ trend = "SIDEWAYS"

\* Calls and puts are treated alike: in the market turned over about its opening the
\* filter allows the other side.
Turned(x) == CASE x = "BULLISH" -> "BEARISH" [] x = "BEARISH" -> "BULLISH"
               [] x = "BULLISH_WEAK" -> "BEARISH_WEAK" [] x = "BEARISH_WEAK" -> "BULLISH_WEAK"
               [] OTHER -> x
SidesMirror ==
  LET CeOf(t, c, g, s, r) == (t = "BULLISH" /\ c > 30) \/ g = "BULLISH" \/ LowRsi(r) \/ s = "BULLISH" \/ t = "SIDEWAYS" IN
  /\ CanTradePe = CeOf(Turned(trend), confidence, Turned(regime), Turned(short), 100 - rsi)
  /\ recent # <<>> =>
       LET p == recent[Len(recent)] IN
       /\ Regime(-p, -fast, -medium, -slow) = Turned(Regime(p, fast, medium, slow))
       /\ Combined(Turned(Sign(p, Far)), Turned(regime), Turned(RsiSignal(rsi)))
            = Turned(Combined(Sign(p, Far), regime, RsiSignal(rsi)))

\* The filter never blocks both sides once a price has come, and the trend is the opening's
\* displacement whatever averages and RSI say: their points together never outweigh it.
NeverBothBlocked == trend # "NEUTRAL" => CanTradeCe \/ CanTradePe
TrendIsOpening ==
  trend # "NEUTRAL" /\ recent # <<>> =>
    trend = Sign(recent[Len(recent)], Far) /\ confidence >= 50

TrendFair == SidesMirror /\ NeverBothBlocked /\ TrendIsOpening
=============================================================================
