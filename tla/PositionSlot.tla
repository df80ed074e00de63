---------------------------- MODULE PositionSlot ----------------------------
(***************************************************************************)
(* What the trading session promises about its trades, whatever the exit   *)
(* path: there is one slot for an open trade, a trade enters it once, and  *)
(* it leaves it either settled in the accounts or lost with the process.   *)
(***************************************************************************)
CONSTANTS Trades, None

VARIABLES
  slot,      \* the open trade, or None
  used,      \* trades the exchange has filled
  settled    \* trades that are in the accounts

Init == slot = None /\ used = {} /\ settled = {}

\* An entry order fills and the session takes charge of it.
Open(t) ==
  /\ slot = None /\ t \notin used
  /\ slot' = t /\ used' = used \cup {t}
  /\ UNCHANGED settled

\* An entry order fills that the session gave up on or did not live to see.
Stray(t) ==
  /\ t \notin used
  /\ used' = used \cup {t}
  /\ UNCHANGED <<slot, settled>>

\* The open trade is closed and accounted for.
Settle ==
  /\ slot # None
  /\ settled' = settled \cup {slot} /\ slot' = None
  /\ UNCHANGED used

\* The process ends and leaves the trade to the next one's orphan check.
Lose == slot # None /\ slot' = None /\ UNCHANGED <<used, settled>>

Next == (\E t \in Trades : Open(t) \/ Stray(t)) \/ Settle \/ Lose

Spec == Init /\ [][Next]_<<slot, used, settled>>
=============================================================================
