-------------------------------- MODULE Backtest --------------------------------
(***************************************************************************)
(* The backtester (core/backtest.py): candles are replayed one by one, the *)
(* live exit engine says when an open trade ends, the strategy when a new  *)
(* one starts, and every trade pays a slip on each side and half of the    *)
(* round trip's commission at each end.  A close over the Line is a spot   *)
(* index and becomes a premium through a linear proxy.                     *)
(***************************************************************************)
EXTENDS Integers, Sequences, SequencesExt, FiniteSetsExt

CONSTANTS
  Candles, PerDay,           \* bound: candles of the file, and of a day
  Closes, Line,              \* closes met; a premium is at most Line
  Reference, Floor, Ceiling, \* of the proxy: first premium, lowest and highest
  Quantities,                \* what the size engine may answer
  Capital, Side, Slippage, MaxPerDay

VARIABLES
  i,          \* candles replayed
  firstSpot,  \* _spot_reference_price, 0 before the first
  price,      \* premium of the last candle
  current,    \* current_trade
  trades, curve, cash, peak, worst,
  date, daily,
  entered     \* history: candle of every entry

backtestVars == <<i, firstSpot, price, current, trades, curve, cash, peak, worst, date, daily, entered>>

NoTrade == [buy |-> 0, qty |-> 0, at |-> 0]
Day(k) == (k - 1) \div PerDay

Init ==
  /\ i = 0 /\ firstSpot = 0 /\ price = 0 /\ current = NoTrade
  /\ trades = <<>> /\ curve = <<>> /\ cash = Capital /\ peak = Capital /\ worst = 0
  /\ date = -1 /\ daily = 0 /\ entered = <<>>
-----------------------------------------------------------------------------
AtLeast(a, b) == IF b < a THEN a ELSE b
AtMost(a, b)  == IF b > a THEN a ELSE b

\* _resolve_option_price
Premium(close) ==
  LET first == IF firstSpot = 0 THEN close ELSE firstSpot IN
  IF close <= Line THEN AtLeast(Floor, close)
  ELSE AtLeast(Floor, AtMost(Ceiling, Reference + close - first))
FirstSpot(close) == IF close > Line /\ firstSpot = 0 THEN close ELSE firstSpot

\* _apply_slippage
Bought(p) == p + Slippage
Sold(p)   == p - Slippage

\* Slip: the highest capital is not carried along.
PeakLate(c) == peak
\* The highest capital there was, c included.
NewPeak(c) == AtLeast(peak, c)

\* _enter_trade: no trade when the size engine gives nothing.
Enter(p, q) ==
  /\ current' = [buy |-> Bought(p), qty |-> q, at |-> i']
  /\ cash' = cash - Side
  /\ entered' = Append(entered, i')

\* _exit_trade at premium p of candle k.
Exit(p, k, why) ==
  LET pnl == (Sold(p) - current.buy) * current.qty - Side IN
  /\ trades' = Append(trades, [pnl |-> pnl, in |-> current.at, out |-> k, why |-> why])
  /\ cash' = cash + pnl /\ curve' = Append(curve, cash + pnl)
  /\ peak' = NewPeak(cash + pnl) /\ worst' = AtLeast(worst, NewPeak(cash + pnl) - cash - pnl)
  /\ current' = NoTrade

\* process_candle: a candle that ends a trade starts none.
Candle ==
  /\ i < Candles /\ i' = i + 1 /\ date' = Day(i + 1)
  /\ \E close \in Closes :
       LET p == Premium(close)
           today == IF Day(i + 1) = date THEN daily ELSE 0
       IN /\ price' = p /\ firstSpot' = FirstSpot(close)
          /\ \/ /\ current # NoTrade /\ Exit(p, i + 1, "engine") /\ daily' = today
                /\ UNCHANGED entered
             \/ /\ current = NoTrade /\ today < MaxPerDay
                /\ \E q \in Quantities : Enter(p, q)
                /\ daily' = today + 1 /\ UNCHANGED <<trades, curve, peak, worst>>
             \/ daily' = today /\ UNCHANGED <<current, trades, curve, cash, peak, worst, entered>>

\* run_backtest: what is open after the last candle is closed at its premium.
EndOfData ==
  /\ i = Candles /\ current # NoTrade /\ Exit(price, i, "END_OF_DATA")
  /\ UNCHANGED <<i, firstSpot, price, date, daily, entered>>

\* _calculate_results: the result is the capital's change, the counts are the trades'.
Report ==
  [total |-> cash - Capital, drawdown |-> worst,
   won  |-> Cardinality({k \in DOMAIN trades : trades[k].pnl > 0}),
   lost |-> Cardinality({k \in DOMAIN trades : trades[k].pnl <= 0})]

Next == Candle \/ EndOfData
Spec == Init /\ [][Next]_backtestVars
-----------------------------------------------------------------------------
Total == FoldLeft(LAMBDA sum, t : sum + t.pnl, 0, trades)

\* The money: the reported result is the capital's change, which is what the trades made
\* less the entry half of the commission, which no trade's pnl shows.
MoneyAddsUp ==
  /\ Report.total = Total - Side * Len(entered)
  /\ current = NoTrade => Report.won + Report.lost = Len(entered)

\* The drawdown is the deepest fall between any two points of the capital after exits.
WorstFall ==
  LET c == <<Capital>> \o curve
      falls == UNION {{c[a] - c[b] : b \in a..Len(c)} : a \in 1..Len(c)}
  IN  Report.drawdown = Max(falls)

\* One trade at a time, none started by the candle that ended another or ended by the one
\* that started it, but at the end of the data, and no more in a day than are allowed.
OneAtATime ==
  /\ \A k \in 1..Len(trades) : trades[k].in < trades[k].out \/ trades[k].why = "END_OF_DATA"
  /\ \A k \in 2..Len(trades) : trades[k - 1].out < trades[k].in
  /\ \A d \in 0..Day(Candles) : Cardinality({n \in DOMAIN entered : Day(entered[n]) = d}) <= MaxPerDay

\* All of it: the report is that of trades somebody could have made one after the other.
BacktestAddsUp == MoneyAddsUp /\ WorstFall /\ OneAtATime
=============================================================================
