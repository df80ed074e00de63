-------------------------------- MODULE Strategy --------------------------------
(***************************************************************************)
(* generate_signal() of strategies/smart_scalp_v3.py: the gates a scan     *)
(* passes before the setup is looked at, the pullback setup of both        *)
(* directions (pullback_strategy.py, market_gate.py, selector.py), and the *)
(* stages a candidate goes through to become a signal.  The window of      *)
(* recent premiums outlives the scan.  A scan is a few steps here so that  *)
(* every stage picks only the input it reads; nothing runs in between.     *)
(***************************************************************************)
EXTENDS Integers, SequencesExt

CONSTANTS
  Premiums,   \* premiums a tick can carry
  MinPremium, MaxPremium,
  WindowMax,  \* premiums kept
  Enough      \* premiums the anomaly test asks for

VARIABLES
  recent,     \* _recent_valid_premiums
  anomalies,  \* scans since the last one that took a valid premium for normal
  stage,      \* where the running scan is
  open,       \* directions whose candidate is still a signal
  record,     \* strategy_decision: result of every stage a direction met
  signal      \* direction returned, or "none"

strategyVars == <<recent, anomalies, stage, open, record, signal>>

Dirs   == {"CE", "PE"}
Stages == {"trigger_confirmation", "weighted_score", "exhaustion", "confidence"}
MinScore == 4

Unmet   == [s \in Stages |-> "unmet"]
Blank == [d \in Dirs |-> [met |-> Unmet, final |-> "open", failed_at |-> "none"]]

Init ==
  /\ recent = <<>> /\ anomalies = 0
  /\ stage = "idle" /\ open = {} /\ record = Blank /\ signal = "none"
-----------------------------------------------------------------------------
\* The k-th smallest of s.
Nth(s, k) == CHOOSE x \in {s[j] : j \in DOMAIN s} :
  /\ Cardinality({j \in DOMAIN s : s[j] < x}) < k
  /\ k <= Cardinality({j \in DOMAIN s : s[j] <= x})

\* Twice the median, so that an even window stays an integer.
TwiceMedian(s) ==
  LET n == Len(s)
  IN IF n % 2 = 1 THEN 2 * Nth(s, n \div 2 + 1) ELSE Nth(s, n \div 2) + Nth(s, n \div 2 + 1)

\* deque(maxlen): the oldest leaves.
Push(s, x) == IF Len(s) = WindowMax THEN Append(Tail(s), x) ELSE Append(s, x)

\* Slip: a premium is remembered only after it passed.
RememberedLate(p) ==
  IF p >= MinPremium /\ ~(Len(recent) >= Enough /\ 200 * p < 35 * TwiceMedian(recent))
  THEN Push(recent, p) ELSE recent
\* check_premium_filter: a premium above the minimum is remembered first ...
Remembered(p) == IF p >= MinPremium THEN Push(recent, p) ELSE recent

\* ... and then compared with 35 % of the median.
Anomalous(p, w) ==
  /\ Len(w) >= Enough
  /\ TwiceMedian(w) >= 2 * MinPremium
  /\ 200 * p < 35 * TwiceMedian(w)

Idle == stage = "idle"

\* The clock, the number of ticks, or a quote whose ask is below its bid.
TurnedAway ==
  Idle /\ signal' = "none" /\ record' = Blank /\ UNCHANGED <<recent, anomalies, stage, open>>

\* check_premium_filter of the newest tick.
PremiumChecked == \E p \in Premiums :
  LET w == Remembered(p) IN
  /\ Idle
  /\ recent' = w /\ signal' = "none" /\ record' = Blank /\ open' = {}
  /\ anomalies' = IF p < MinPremium THEN anomalies
                  ELSE IF Anomalous(p, w) THEN anomalies + 1 ELSE 0
  /\ stage' = IF p \in MinPremium..MaxPremium /\ ~Anomalous(p, w) THEN "gates" ELSE "idle"

\* Delta band, no indicators, market quality, chop: any of them ends the scan.
GateShut ==
  stage = "gates" /\ stage' = "idle" /\ UNCHANGED <<recent, anomalies, open, record, signal>>

GatesOpen ==
  stage = "gates" /\ stage' = "pullback" /\ UNCHANGED <<recent, anomalies, open, record, signal>>
-----------------------------------------------------------------------------
\* EMA9 above EMA21 for CE, below for PE.
Trend(d, ema) == ema = IF d = "CE" THEN "up" ELSE "down"

One(b) == IF b THEN 1 ELSE 0

\* evaluate_pullback_strategy: points of a direction whose trend holds.  The
\* spike and the point beyond EMA9 need the candle.
PullbackScore(f) ==
  2 + 2 * One(f.trigger) + One(f.candle) + One(f.candle /\ f.beyond) + One(f.rsi)
    + One(f.rsi /\ f.strong) + One(f.vwap) + One(f.candle /\ f.spike) + One(f.oi)
Facts == [trigger : BOOLEAN, candle : BOOLEAN, beyond : BOOLEAN, rsi : BOOLEAN,
          strong : BOOLEAN, vwap : BOOLEAN, spike : BOOLEAN, oi : BOOLEAN]

PassFail(b) == IF b THEN "pass" ELSE "fail"
Met(x, s, result) == [x EXCEPT !.met = [@ EXCEPT ![s] = result]]

\* The setup of both directions, judged independently; one set of facts is
\* enough since a candle, an RSI and a side of the VWAP favour one of them.
Setup == \E ema \in {"up", "down", "flat"}, f \in Facts :
  LET found == {d \in Dirs : Trend(d, ema) /\ PullbackScore(f) >= MinScore} IN
  /\ stage = "pullback"
  /\ open' = found
  /\ record' = [d \in Dirs |-> Met(Blank[d], "trigger_confirmation", PassFail(d \in found))]
  /\ stage' = "score" /\ UNCHANGED <<recent, anomalies, signal>>

\* The weighted score of every candidate against min_weighted_score_pct.
Weighted == \E passed \in SUBSET open :
  /\ stage = "score"
  /\ open' = passed
  /\ record' = [d \in Dirs |-> IF d \in open
       THEN Met(record[d], "weighted_score", PassFail(d \in passed)) ELSE record[d]]
  /\ stage' = "exhaustion" /\ UNCHANGED <<recent, anomalies, signal>>

\* Overbought with a falling MACD, its mirror image, or a blocked direction.
Exhaustion == \E fresh \in SUBSET open :
  /\ stage = "exhaustion"
  /\ record' = [d \in Dirs |-> IF d \in open
       THEN Met(record[d], "exhaustion", PassFail(d \in fresh)) ELSE record[d]]
  /\ stage' = "confidence" /\ UNCHANGED <<recent, anomalies, open, signal>>

Closed(x, at) ==
  [met |-> x.met, final |-> IF at = "none" THEN "PASS" ELSE "FAIL", failed_at |-> at]

\* _finalize_strategy_decision for a direction that has no final yet.
Backfilled(x) ==
  Closed(x, IF x.met["trigger_confirmation"] = "fail" \/ x.met["weighted_score"] = "unmet"
            THEN "trigger_confirmation" ELSE "weighted_score")

\* The end of generate_signal with d decided and the other direction backfilled.
Returns(d, x, result) ==
  /\ record' = [e \in Dirs |-> IF e = d THEN x ELSE Backfilled(record[e])]
  /\ signal' = result /\ stage' = "idle" /\ UNCHANGED <<recent, anomalies, open>>

\* CE is looked at first; PE only without a CE candidate.
Leading == IF "CE" \in open THEN "CE" ELSE "PE"

\* The confidence of the candidate against _required_confidence.
Confident == \E enough \in BOOLEAN :
  LET d == Leading  met == Met(record[d], "confidence", PassFail(enough)) IN
  /\ stage = "confidence" /\ open # {} /\ record[d].met["exhaustion"] = "pass"
  /\ Returns(d, Closed(met, IF enough THEN "none" ELSE "confidence"),
             IF enough THEN d ELSE "none")

Exhausted ==
  LET d == Leading IN
  /\ stage = "confidence" /\ open # {} /\ record[d].met["exhaustion"] = "fail"
  /\ Returns(d, Closed(record[d], "exhaustion"), "none")

NoPullback ==
  /\ stage = "confidence" /\ open = {}
  /\ record' = [d \in Dirs |-> Backfilled(record[d])]
  /\ signal' = "none" /\ stage' = "idle" /\ UNCHANGED <<recent, anomalies, open>>

Next ==
  \/ TurnedAway \/ PremiumChecked \/ GateShut \/ GatesOpen
  \/ Setup \/ Weighted \/ Exhaustion \/ Confident \/ Exhausted \/ NoPullback

Spec == Init /\ [][Next]_strategyVars
-----------------------------------------------------------------------------
\* The first stage a direction did not pass, of those it met.
Verdict(x) ==
  IF x.met["trigger_confirmation"] = "fail" THEN "trigger_confirmation"
  ELSE IF x.met["weighted_score"] = "fail" THEN "weighted_score"
  ELSE IF x.met["exhaustion"] = "fail" THEN "exhaustion"
  ELSE IF x.met["confidence"] = "fail" THEN "confidence" ELSE "none"

\* Every finished decision blames the stage that really turned the direction
\* away, for the direction that decided the return and for the one that was
\* only backfilled, and the direction signalled is the one that failed nowhere.
Attributed == \A d \in Dirs : record[d].final # "open" =>
  /\ record[d].failed_at = Verdict(record[d])
  /\ (record[d].final = "PASS") = (signal = d)

\* A market that fell is not an anomaly for ever: within half a window of valid
\* premiums the reference has followed, unless the premium falls on by as much,
\* to less than 35 % of one that was itself taken for an anomaly.
AnomalyHeals ==
  anomalies > WindowMax \div 2 =>
    \E j \in DOMAIN recent :
      j > Len(recent) - anomalies /\ 100 * recent[Len(recent)] < 35 * recent[j]
=============================================================================
