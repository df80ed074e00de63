-------------------------------- MODULE Scoring --------------------------------
(***************************************************************************)
(* The three engines that turn a tick and its indicators into numbers:     *)
(* market quality (core/engines/market_quality_engine.py), the weighted    *)
(* score of a direction (weighted_score_engine.py) and the adaptive        *)
(* confidence (adaptive_confidence_engine.py).  Each is a table of bands;  *)
(* percentages are in hundredths, ratios in tenths.  The behaviour is one  *)
(* reading that gets worse field by field, so that a step compares two     *)
(* readings, and one view of the market to be scored for both directions.  *)
(***************************************************************************)
EXTENDS Integers

CONSTANTS
  Spreads, Ratios, Volumes, Ages, Latencies, Reconnects, Atrs, Hours, \* of a reading
  Deltas, Rsis, Premiums,                                            \* of a view
  NoView

VARIABLES
  reading,  \* what evaluate() is asked about: tick, quote, broker status
  view      \* what score() is asked about: indicators and Greeks

scoreVars == <<reading, view>>

MaxStale   == 500   \* max_stale_ms
MaxSpread  == 60    \* max_spread_pct
MinimumPct == 70    \* minimum_pct of config/strategy.json
Dirs       == {"CE", "PE"}

Abs(x)   == IF x < 0 THEN -x ELSE x
Least(S) == CHOOSE x \in S : \A y \in S : x <= y
-----------------------------------------------------------------------------
\* _freshness_state
FreshnessState(age) ==
  IF age <= MaxStale THEN "NORMAL" ELSE IF age <= MaxStale + 300 THEN "WARN"
  ELSE IF age <= MaxStale + 700 THEN "REJECT" ELSE "HARD_REJECT"

\* Slip: a warned tick keeps the points of its age band.
FreshnessPointsWarned(age) ==
  IF age < 150 THEN 15 ELSE IF age <= 300 THEN 12 ELSE IF age <= 500 THEN 7
  ELSE IF FreshnessState(age) = "WARN" THEN 15 ELSE 0
FreshnessPoints(age) ==
  IF age < 150 THEN 15 ELSE IF age <= 300 THEN 12 ELSE IF age <= 500 THEN 7
  ELSE IF FreshnessState(age) = "WARN" THEN 4 ELSE 0

SpreadPoints(spread) ==
  IF spread <= 20 THEN 25 ELSE IF spread <= 40 THEN 18 ELSE IF spread <= 60 THEN 10 ELSE 0

LiquidityPoints(ratio, volume) ==
  IF ratio >= 18 \/ volume >= 100000 THEN 20
  ELSE IF ratio >= 13 \/ volume >= 50000 THEN 16
  ELSE IF ratio >= 10 \/ volume >= 15000 THEN 10
  ELSE IF ratio >= 7 \/ volume >= 5000 THEN 4 ELSE 0

\* The queue is not measured: its depth is 0.
ExecutionPoints(r) ==
  IF r.ws /\ r.api /\ r.reconnects = 0 /\ r.latency <= 80 THEN 10
  ELSE IF r.ws /\ r.api /\ r.reconnects <= 1 /\ r.latency <= 150 THEN 8
  ELSE IF r.ws /\ r.api /\ r.latency <= 250 THEN 5
  ELSE IF r.ws THEN 3 ELSE 0

\* India's volatility index is not among the indicators.
VolatilityPoints(atr) ==
  IF atr \in 4..18 THEN 15 ELSE IF atr \in 2..3 THEN 10 ELSE IF atr \in 19..25 THEN 8 ELSE 0

SessionPoints(hour) ==
  IF hour >= 920 /\ hour < 1030 THEN 5 ELSE IF hour >= 1300 /\ hour < 1430 THEN 3
  ELSE IF hour >= 1030 /\ hour < 1515 THEN 4 ELSE 1

\* Gamma and theta are never given, which counts as stable.
GreeksPoints(delta) == IF Abs(delta) \in 35..65 THEN 10 ELSE 5

\* _check_hard_reject
HardReject(r) ==
  \/ ~r.ws \/ ~r.api
  \/ r.spread > MaxSpread
  \/ r.volume < 1

\* evaluate: quality_score, 0 when the tick is stale or rejected outright.
Quality(r) ==
  IF FreshnessState(r.age) \in {"REJECT", "HARD_REJECT"} \/ HardReject(r) THEN 0
  ELSE SpreadPoints(r.spread) + LiquidityPoints(r.ratio, r.volume)
         + FreshnessPoints(r.age) + VolatilityPoints(r.atr) + SessionPoints(r.hour)
         + GreeksPoints(r.delta) + ExecutionPoints(r)

Passed(r) == Quality(r) >= MinimumPct
Grade(q) == IF q >= 90 THEN "A+" ELSE IF q >= 80 THEN "A" ELSE IF q >= 70 THEN "B"
            ELSE IF q >= 60 THEN "C" ELSE "REJECT"
-----------------------------------------------------------------------------
\* 0 below the low bound of the outer band, half in it, full in the inner one.
Banded(x, inner, outer, full, half, none) ==
  IF x \in inner THEN full ELSE IF x \in outer THEN half ELSE none

\* Slip: the signed delta, which is negative for a PE.
SignedDelta(v) == v.delta
\* Moneyness of the subscribed option, whichever direction is scored.
AbsDelta(v) == Abs(v.delta)

With(d)    == IF d = "CE" THEN "up" ELSE "down"
Bullish    == {"LONG_BUILDUP", "SHORT_COVERING"}
Bearish    == {"SHORT_BUILDUP", "LONG_UNWINDING"}
OiFor(d)   == IF d = "CE" THEN Bullish ELSE Bearish
Trending(d) == IF d = "CE" THEN "BULLISH" ELSE "BEARISH"

RsiPoints(d, rsi) ==
  IF d = "CE" THEN IF rsi > 50 /\ rsi < 70 THEN 8 ELSE IF rsi >= 45 THEN 4 ELSE 0
  ELSE IF rsi > 30 /\ rsi < 50 THEN 8 ELSE IF rsi <= 55 THEN 4 ELSE 0

\* WeightedScoreEngine.score: the weights add up to 105.
WeightedScore(d, v) ==
  LET raw ==
        (IF v.ema = With(d) THEN 20 ELSE 0) + (IF v.vwap = With(d) THEN 15 ELSE 0)
        + (IF v.ratio >= 13 THEN 10 ELSE IF v.ratio >= 10 THEN 5 ELSE 0)
        + Banded(AbsDelta(v), 35..65, 30..70, 15, 7, 0)
        + (IF v.oi \in OiFor(d) THEN 10 ELSE 0) + RsiPoints(d, v.rsi)
        + (IF v.macd = With(d) THEN 8 ELSE 0)
        + (IF v.atr \in 4..18 THEN 5 ELSE IF v.atr > 0 THEN 2 ELSE 0)
        + (IF v.premium <= 0 THEN 0 ELSE IF v.premium <= 300 THEN 5 ELSE 3)
        + (IF v.regime = Trending(d) THEN 4 ELSE IF v.regime = "SIDEWAYS" THEN 2 ELSE 0)
        + (IF v.spread <= 100 THEN 5 ELSE IF v.spread <= 200 THEN 3 ELSE 0)
  IN (raw * 100) \div 105

\* AdaptiveConfidenceEngine.score: the four scores whose multipliers scale the
\* weighted score; execution quality in hundredths.
ConfidenceParts(d, v) ==
  [regime  |-> IF v.regime = Trending(d) THEN 100 ELSE IF v.regime = "SIDEWAYS" THEN 50 ELSE 20,
   quality |-> IF ~v.squeeze /\ v.ratio >= 11 THEN 100 ELSE IF v.ratio >= 9 THEN 60 ELSE 30,
   session |-> IF v.primary THEN 100 ELSE 65,
   execution |->
     25 * (IF v.spread <= 100 THEN 100 ELSE IF v.spread <= 200 THEN 60 ELSE 20)
     + 20 * (IF v.ratio >= 13 THEN 100 ELSE IF v.ratio >= 10 THEN 70 ELSE 35)
     + 20 * Banded(AbsDelta(v), 35..65, 30..70, 100, 50, 10)
     + 15 * (IF v.oi \in OiFor(d) THEN 100 ELSE IF v.oi = "NEUTRAL" THEN 50 ELSE 20)
     + 10 * (IF v.vwap = With(d) THEN 100 ELSE 30)
     + 10 * 100]   \* no tick that gets here is older than five seconds

-----------------------------------------------------------------------------
Readings ==
  [spread : Spreads, ratio : Ratios, volume : Volumes, age : Ages, latency : Latencies,
   reconnects : Reconnects, ws : BOOLEAN, api : BOOLEAN, atr : Atrs, hour : Hours, delta : Deltas]
Sides == {"up", "down", "none"}
Views ==
  [ema : Sides, vwap : Sides, macd : Sides, ratio : Ratios, spread : Spreads,
   delta : Deltas, rsi : Rsis, atr : Atrs, premium : Premiums,
   oi : Bullish \cup Bearish \cup {"NEUTRAL"},
   regime : {"BULLISH", "BEARISH", "SIDEWAYS", "UNKNOWN"},
   squeeze : BOOLEAN, primary : BOOLEAN]

\* The market turned upside down, with the other option of the strike subscribed.
Flip(side) == CASE side = "up" -> "down" [] side = "down" -> "up" [] OTHER -> side
FlipOi(oi) ==
  CASE oi = "LONG_BUILDUP" -> "SHORT_BUILDUP" [] oi = "SHORT_BUILDUP" -> "LONG_BUILDUP"
    [] oi = "SHORT_COVERING" -> "LONG_UNWINDING" [] oi = "LONG_UNWINDING" -> "SHORT_COVERING"
    [] OTHER -> oi
FlipRegime(regime) ==
  CASE regime = "BULLISH" -> "BEARISH" [] regime = "BEARISH" -> "BULLISH" [] OTHER -> regime
Mirror(v) ==
  [ema |-> Flip(v.ema), vwap |-> Flip(v.vwap), macd |-> Flip(v.macd), ratio |-> v.ratio,
   spread |-> v.spread, delta |-> -v.delta, rsi |-> 100 - v.rsi, atr |-> v.atr,
   premium |-> v.premium, oi |-> FlipOi(v.oi), regime |-> FlipRegime(v.regime),
   squeeze |-> v.squeeze, primary |-> v.primary]

Most(S) == CHOOSE x \in S : \A y \in S : x >= y

Init ==
  /\ \E a \in Atrs, h \in Hours, d \in Deltas :
       reading = [spread |-> Least(Spreads), ratio |-> Most(Ratios), volume |-> Most(Volumes),
                  age |-> Least(Ages), latency |-> Least(Latencies),
                  reconnects |-> Least(Reconnects), ws |-> TRUE, api |-> TRUE,
                  atr |-> a, hour |-> h, delta |-> d]
  /\ view \in Views \cup {NoView}

\* One field at a time; a view is scored once and does not change.
Becomes(r) == view = NoView /\ reading' = r /\ UNCHANGED view

TickAges     == \E a \in Ages : a > reading.age /\ Becomes([reading EXCEPT !.age = a])
SpreadWidens == \E s \in Spreads : s > reading.spread /\ Becomes([reading EXCEPT !.spread = s])
VolumeFalls  ==
  \/ \E n \in Volumes : n < reading.volume /\ Becomes([reading EXCEPT !.volume = n])
  \/ \E x \in Ratios : x < reading.ratio /\ Becomes([reading EXCEPT !.ratio = x])
LinkSlows    ==
  \/ \E l \in Latencies : l > reading.latency /\ Becomes([reading EXCEPT !.latency = l])
  \/ \E n \in Reconnects : n > reading.reconnects /\ Becomes([reading EXCEPT !.reconnects = n])
LinkBreaks   == Becomes([reading EXCEPT !.ws = FALSE]) \/ Becomes([reading EXCEPT !.api = FALSE])

Next == TickAges \/ SpreadWidens \/ VolumeFalls \/ LinkSlows \/ LinkBreaks

Spec == Init /\ [][Next]_scoreVars
-----------------------------------------------------------------------------
\* A worse market is never rated better: an older tick, a wider spread, less
\* volume or a slower link may not lift a reading over a band of the gate.
WorseNotRatedBetter == [][Quality(reading') <= Quality(reading)]_scoreVars

\* Neither direction is favoured: the score and the confidence of CE in a market
\* are those of PE in its mirror image.
DirectionsAlike == view # NoView =>
  /\ WeightedScore("CE", view) = WeightedScore("PE", Mirror(view))
  /\ ConfidenceParts("CE", view) = ConfidenceParts("PE", Mirror(view))
=============================================================================
