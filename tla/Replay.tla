--------------------------------- MODULE Replay ---------------------------------
(***************************************************************************)
(* The replay of imported sessions over the shipping entry and exit code   *)
(* (research/backtest/harness.py).  Minute by minute a tick is fed to the  *)
(* strategy, the open trade is stepped through the four points of its      *)
(* contract's bar, and an entry is looked for.  What the strategy and the  *)
(* ladder answer is open; what they may have seen is not.                  *)
(***************************************************************************)
EXTENDS Integers, Sequences, FiniteSets

CONSTANTS
  Bars,        \* minutes of a session
  Warmup,      \* warmup_bars
  Sessions,    \* replayed one after another
  MaxTrades,   \* max_trades_per_session
  Prices,      \* of an option bar
  HalfSpread, LeastPrice,
  None

VARIABLES
  session, i,  \* the session and the minute being replayed
  step,        \* "feed", "exit", "entry", "over"
  buffer,      \* ticks and candles in runtime_state: session and minute of each
  bar,         \* the open trade's contract in this minute: points still to come, or None
  lastMid,     \* close of that contract's bar in this minute, or None
  open,        \* the open trade, or None
  trades       \* closed trades of the session

replayVars == <<session, i, step, buffer, bar, lastMid, open, trades>>

\* Stamps: four points to a minute.
At(m, point) == 4 * m + point
Greater(a, b) == IF a >= b THEN a ELSE b
Lesser(a, b)  == IF a <= b THEN a ELSE b

FreshState == buffer' = {}
Init ==
  /\ session = 1 /\ i = 0 /\ step = "feed" /\ buffer = {} /\ bar = <<>>
  /\ lastMid = None /\ open = None /\ trades = <<>>

\* An option's 1-minute bar in the order it is presented: adverse extreme first.
\* A contract that did not trade in the minute has none.
Points == {<<o, l, h, c>> : o, l, h, c \in Prices}
OptionBars == {p \in Points : p[2] <= p[1] /\ p[2] <= p[4] /\ p[1] <= p[3] /\ p[4] <= p[3]}
-----------------------------------------------------------------------------
\* Slip: the slice reaches one bar too far.
VisibleAhead(m) == 0..Lesser(m + 1, Bars - 1)
\* spot_bars[: i + 1]: what may be shown at minute m.
Visible(m) == 0..m

\* One more minute: the tick goes into the buffer, past the warm-up with the candles.
Feed ==
  /\ step = "feed" /\ i < Bars
  /\ buffer' = buffer \cup
       {<<session, m>> : m \in IF i >= Warmup THEN Visible(i) ELSE {i}}
  /\ IF open = None THEN bar' = <<>> /\ lastMid' = None
     ELSE \/ /\ open.entered # At(i, 0)          \* the bar it filled at exists
             /\ bar' = <<>> /\ lastMid' = None    \* no print: the position simply carries
          \/ \E b \in OptionBars :
               /\ open.entered = At(i, 0) => b[1] = open.entryMid
               /\ bar' = b /\ lastMid' = b[4]
  /\ step' = "exit"
  /\ UNCHANGED <<session, i, open, trades>>

\* _close: the fill gives up half the spread, down to the least price.
Closed(t, mid, at, why) ==
  [entered |-> t.entered, exited |-> at, entry |-> t.entry, entryMid |-> t.entryMid, mid |-> mid,
   price |-> Greater(mid - HalfSpread, LeastPrice), why |-> why, seen |-> t.seen,
   mfe |-> t.mfe, mae |-> t.mae]

\* _step_exit: the ladder is asked at each point; the excursion is taken before the
\* answer is followed.
Moved(t, price) == [t EXCEPT !.mfe = Greater(@, price - t.entry), !.mae = Lesser(@, price - t.entry)]
StepExit ==
  /\ step = "exit"
  /\ IF open = None \/ bar = <<>>
     THEN step' = "entry" /\ UNCHANGED <<open, trades, bar>>
     ELSE LET t == Moved(open, Head(bar)) IN
          \/ /\ open' = t /\ bar' = Tail(bar) /\ UNCHANGED <<step, trades>>
          \/ /\ trades' = Append(trades, Closed(t, Head(bar), At(i, 4 - Len(bar)), "ladder"))
             /\ open' = None /\ bar' = <<>> /\ step' = "entry"
  /\ UNCHANGED <<session, i, buffer, lastMid>>

CanEnter == open = None /\ i >= Warmup /\ i + 1 < Bars /\ (MaxTrades = 0 \/ Len(trades) < MaxTrades)

\* A signal fills at the open of the next minute, if the contract trades then.
LookForEntry ==
  /\ step = "entry" /\ step' = "feed" /\ i' = i + 1
  /\ \/ UNCHANGED open    \* no signal, an exception, or no such contract
     \/ /\ CanEnter
        /\ \E mid \in Prices : open' =
             [entered |-> At(i + 1, 0), entryMid |-> mid, entry |-> mid + HalfSpread,
              seen |-> buffer, mfe |-> 0, mae |-> 0]
  /\ UNCHANGED <<session, buffer, bar, lastMid, trades>>

\* The last bar closes what is open: at the contract's close, or where it was entered.
SessionEnds ==
  /\ step = "feed" /\ i = Bars /\ step' = "over"
  /\ trades' = IF open = None THEN trades
               ELSE Append(trades, Closed(open, IF lastMid = None THEN open.entryMid ELSE lastMid,
                                          At(Bars - 1, 0), "forced"))
  /\ open' = None
  /\ UNCHANGED <<session, i, buffer, bar, lastMid>>

\* _reset_strategy_state, and the next session.
NextSession ==
  /\ step = "over" /\ session < Sessions /\ session' = session + 1
  /\ i' = 0 /\ step' = "feed" /\ bar' = <<>> /\ lastMid' = None /\ trades' = <<>> /\ FreshState
  /\ UNCHANGED open

Next == Feed \/ StepExit \/ LookForEntry \/ SessionEnds \/ NextSession
Spec == Init /\ [][Next]_replayVars
-----------------------------------------------------------------------------
\* No look-ahead: what a trade was decided on lies before the minute it fills in, in
\* its own session, though the buffer outlives minutes and sessions (LOOK-AHEAD of
\* harness.py).
NoLookAhead ==
  LET blind(t) == \A x \in t.seen : x[1] = session /\ At(x[2], 3) < t.entered IN
  /\ open # None => blind(open)
  /\ \A k \in 1..Len(trades) : blind(trades[k])

\* One position at a time: a trade is entered after the one before it is out.
OneAtATime ==
  /\ \A k \in 1..Len(trades) - 1 : trades[k].exited < trades[k + 1].entered
  /\ open # None /\ trades # <<>> => trades[Len(trades)].exited < open.entered
  /\ \A k \in 1..Len(trades) : trades[k].entered <= trades[k].exited
  /\ step = "over" => open = None

\* The excursions of a trade bracket where it ended, a forced end in a minute without
\* a print included.
ExcursionsBracket == \A k \in 1..Len(trades) :
  trades[k].mae <= trades[k].mid - trades[k].entry /\ trades[k].mid - trades[k].entry <= trades[k].mfe

\* The replay is a statement about the bot: all three.
ReplayHonest == NoLookAhead /\ OneAtATime /\ ExcursionsBracket
=============================================================================
