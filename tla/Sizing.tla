--------------------------------- MODULE Sizing ---------------------------------
(***************************************************************************)
(* The size of an order (PositionSizeEngine.calculate on the budget that   *)
(* RiskManager.get_risk_budget makes).  A multiplier counts in 1/10000, an *)
(* amount of money in hundredths of what one lot risks.                    *)
(***************************************************************************)
EXTENDS Integers, FiniteSetsExt

CONSTANTS
  Levels,        \* scores between 0 and 100
  Volatilities,  \* VIX, or the ATR where there is none; 0 is unknown
  Severities,    \* of recovery mode in percent; 0 is no recovery mode
  Utilizations,  \* of the daily loss limit in percent
  Reductions,    \* size multiplier of the risk manager in percent
  Budgets,       \* remaining_risk_amount
  DayBudgets,    \* daily_risk_budget_amount
  Capitals,      \* of the account
  Floors         \* values of min_lot_floor_enabled

VARIABLE ask

OneLot  == 100
MaxLots == 8
ShortBy == 5     \* min_lot_rounding_tolerance_pct
Regimes == <<"UNKNOWN", "SIDEWAYS", "TRENDING">>

Within(x, low, high) == IF x < low THEN low ELSE IF x > high THEN high ELSE x

\* The multipliers of the factors.
Scaled(level, low, high) == low + ((high - low) \div 100) * Within(level, 0, 100)
RegimeMultiplier(g) ==
  CASE Regimes[g] = "TRENDING" -> 10300 [] Regimes[g] = "SIDEWAYS" -> 9200 [] OTHER -> 9000
VolatilityMultiplier(v)  == IF v <= 0 THEN 9500 ELSE 10000 - 100 * Within(v - 10, 0, 30)
RecoveryMultiplier(s)    == 10000 - Within(50 * s, 0, 5000)
LossMultiplier(u)        == 10000 - Within(80 * u, 0, 6000)

\* In millionths: the weighted deltas from one, clamped, then reduced and clamped again.
Clamped(m) == Within(m, 400000, 1100000)
Soft(a) ==
  Clamped(1000000
    + 18 * (Scaled(a.score, 8000, 11000) + Scaled(a.confidence, 8000, 11000)
            + Scaled(a.quality, 7500, 11000) - 30000)
    + 12 * (RegimeMultiplier(a.regime) - 10000)
    + 14 * (VolatilityMultiplier(a.volatility) - 10000)
    + 10 * (RecoveryMultiplier(a.severity) + LossMultiplier(a.utilization) - 20000))
Multiplier(a) == Clamped((Soft(a) * Within(a.reduction, 10, 100)) \div 100)

\* _apply_risk_caps
Cap(a) ==
  Min({(a.capital * 20) \div 100, (a.capital * 3) \div 100, a.budget}
      \cup (IF a.day > 0 THEN {(a.day * 40) \div 100} ELSE {})
      \cup (IF a.severity > 0 THEN {a.capital \div 2} ELSE {}))
IsCapped(a) == a.budget * Multiplier(a) > Cap(a) * 1000000
Allowed(a)  == IF IsCapped(a) THEN Cap(a) ELSE (a.budget * Multiplier(a)) \div 1000000

\* A request that is barely short of one lot is rounded up, unless a cap made it so.
\* Slip: whatever made it so.
RescuedCapped(a) == 100 * Allowed(a) >= OneLot * (100 - ShortBy)
Rescued(a)       == ~IsCapped(a) /\ 100 * Allowed(a) >= OneLot * (100 - ShortBy)

\* The optional floor: one lot where the budget without the multipliers pays for it.
Floored(a) == a.floor /\ Min({a.budget, Cap(a)}) >= OneLot

\* calculate
Lots(a) ==
  LET whole == Allowed(a) \div OneLot IN
  IF whole > MaxLots THEN MaxLots
  ELSE IF whole = 0 /\ (Rescued(a) \/ Floored(a)) THEN 1 ELSE whole

Grade(a) ==
  LET m == Multiplier(a) IN
  IF m >= 1020000 THEN 4 ELSE IF m >= 950000 THEN 3 ELSE IF m >= 850000 THEN 2 ELSE IF m >= 700000 THEN 1 ELSE 0
-----------------------------------------------------------------------------
\* The best signal on some account; one factor at a time gets worse.
Best(S) == Max(S)
Init ==
  \E b \in Budgets, d \in DayBudgets, c \in Capitals, f \in Floors :
    ask = [score |-> Best(Levels), confidence |-> Best(Levels), quality |-> Best(Levels), regime |-> 3,
           volatility |-> Min(Volatilities \ {0}), severity |-> 0, utilization |-> 0, reduction |-> Best(Reductions),
           budget |-> b, day |-> d, capital |-> c, floor |-> f]

Worse(a) ==
  {[a EXCEPT !.score = l]       : l \in {x \in Levels : x < a.score}}
  \cup {[a EXCEPT !.confidence = l]  : l \in {x \in Levels : x < a.confidence}}
  \cup {[a EXCEPT !.quality = l]     : l \in {x \in Levels : x < a.quality}}
  \cup {[a EXCEPT !.regime = g]      : g \in 1..(a.regime - 1)}
  \cup {[a EXCEPT !.volatility = v]  : v \in {x \in Volatilities : x > a.volatility /\ a.volatility > 0}}
  \cup {[a EXCEPT !.severity = s]    : s \in {x \in Severities : x > a.severity}}
  \cup {[a EXCEPT !.utilization = u] : u \in {x \in Utilizations : x > a.utilization}}
  \cup {[a EXCEPT !.reduction = r]   : r \in {x \in Reductions : x < a.reduction}}

Worsens == ask' \in Worse(ask)
Next    == Worsens
Spec    == Init /\ [][Next]_ask
-----------------------------------------------------------------------------
\* What is risked stays within every cap, but for a request that fell barely short of one
\* lot without meeting a cap, and with the floor never beyond what the account allows.
RiskCapped ==
  LET risk == Lots(ask) * OneLot IN
  /\ Lots(ask) <= MaxLots
  /\ risk <= Cap(ask) \/ (Lots(ask) = 1 /\ ~IsCapped(ask) /\ 100 * Cap(ask) >= risk * (100 - ShortBy))

\* A worse signal is never sized bigger, with one exception that the code has: a request
\* that a cap holds below one lot is not rounded up, and a worse one, below the cap, is.
WorseNotBigger ==
  \A w \in Worse(ask) :
    \/ Lots(w) <= Lots(ask) /\ Grade(w) <= Grade(ask)
    \/ Lots(w) = 1 /\ Lots(ask) = 0 /\ IsCapped(ask) /\ ~IsCapped(w)

SizeHonest == RiskCapped /\ WorseNotBigger
=============================================================================
