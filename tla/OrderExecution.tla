--------------------------- MODULE OrderExecution ---------------------------
(***************************************************************************)
(* core/trading/order_execution.py in live trading with limit orders on:   *)
(* place_order chases a price with LIMIT orders, falls back to a MARKET    *)
(* order and polls it; exit_position sends and polls the sell order.  The  *)
(* exchange acts on every order at any moment in between.  A slip is an    *)
(* event the bot cannot see: an answer or a status that is lost, a cancel  *)
(* that fails, a fill between the status and the cancel, an order that is  *)
(* still working when it is given up on.                                   *)
(***************************************************************************)
EXTENDS Integers, Sequences, FiniteSets

CONSTANTS
  LimitTries,   \* ORDER_MAX_RETRIES
  Polls,        \* the 5 status polls of both functions
  ExitTries,    \* max_exit_retries
  MaxEntries,   \* bound: calls of place_order
  MaxExits      \* bound: calls of exit_position

ASSUME TriesAssumption ==
  /\ LimitTries \in Nat \ {0} /\ Polls \in Nat \ {0}
  /\ ExitTries \in Nat \ {0}
  /\ MaxEntries \in Nat /\ MaxExits \in Nat

VARIABLES
  orders,    \* what the exchange made of each order it accepted
  pc,        \* where the call in progress stands
  attempt,   \* the LIMIT or exit attempt, then the polls made
  resp,      \* order_resp / exit_order_id, 0 for none
  trade,     \* the entry order of current_trade, 0 for none
  closed,    \* history: trades whose exit was confirmed
  sales,     \* history: the exit orders that confirmed them
  slips,     \* history: events the bot cannot see
  entries,   \* calls of place_order so far
  exits      \* calls of exit_position so far

calls    == <<entries, exits>>
book     == <<trade, closed, sales>>
callVars == <<pc, attempt, resp, book>>
vars     == <<orders, callVars, slips, calls>>

Working == {"queued", "open"}
Ended   == {"complete", "rejected", "cancelled"}
Order   == [side : {"buy", "sell"}, status : Working \cup Ended]
Ids     == DOMAIN orders

Entering == {"limit", "check", "cancel", "final", "replace", "market", "poll"}
Exiting  == {"sell", "sellpoll"}

\* What the loop counter may be at each point of a call.
Attempts(p) ==
  CASE p = "idle" -> {0}
    [] p \in {"limit", "check", "cancel"} -> 1..LimitTries
    [] p \in {"final", "replace", "market"} -> 1..LimitTries + 1
    [] p = "sell" -> 1..ExitTries
    [] OTHER -> 0..Polls - 1

\* Types; every loop counter stays within its loop.
TypeOK ==
  /\ orders \in Seq(Order)
  /\ pc \in {"idle"} \cup Entering \cup Exiting
  /\ attempt \in Attempts(pc)
  /\ resp \in Ids \cup {0} /\ trade \in Ids \cup {0}
  /\ closed \subseteq Ids /\ sales \subseteq Ids
  /\ slips \in Nat
  /\ entries \in 0..MaxEntries /\ exits \in 0..MaxExits

Init ==
  /\ orders = <<>> /\ pc = "idle" /\ attempt = 0 /\ resp = 0 /\ trade = 0
  /\ closed = {} /\ sales = {} /\ slips = 0 /\ entries = 0 /\ exits = 0

Go(step) == pc' = step /\ UNCHANGED <<book, calls>>

\* A call returns: what it leaves in resp is forgotten.
Return == pc' = "idle" /\ attempt' = 0 /\ resp' = 0 /\ UNCHANGED calls

Slip(n) == slips' = slips + n

\* An order the bot lets go of counts as a slip unless it ended without a fill.
Unseen(o) == IF o # 0 /\ orders[o].status \notin {"rejected", "cancelled"} THEN 1 ELSE 0

-----------------------------------------------------------------------------
(* The exchange, at any moment.                                             *)
SetStatus(o, s) == orders' = [orders EXCEPT ![o].status = s]

BookOpens == \E o \in Ids :
  /\ orders[o].status = "queued" /\ SetStatus(o, "open")
  /\ UNCHANGED <<callVars, slips, calls>>

\* A fill after the status was read and before the cancel arrives is a slip.
Fill == \E o \in Ids :
  /\ orders[o].status \in Working /\ SetStatus(o, "complete")
  /\ Slip(IF o = resp /\ pc \in {"cancel", "replace"} THEN 1 ELSE 0)
  /\ UNCHANGED <<callVars, calls>>

Reject == \E o \in Ids :
  /\ orders[o].status \in Working /\ SetStatus(o, "rejected")
  /\ UNCHANGED <<callVars, slips, calls>>

-----------------------------------------------------------------------------
(* broker_client.place_order: accepted and answered, accepted with the      *)
(* answer lost (it raises), or refused (it raises).                         *)
\* Only a LIMIT order is asked for the name of its status while it works.
NewOrder(side, status) == orders' = Append(orders, [side |-> side, status |-> status])

Accepted(side, status) ==
  /\ NewOrder(side, status) /\ resp' = Len(orders) + 1
  /\ UNCHANGED slips

AnswerLost(side, status) == NewOrder(side, status) /\ Slip(1) /\ UNCHANGED resp

Refused == UNCHANGED <<orders, resp, slips>>

-----------------------------------------------------------------------------
(* place_order.                                                             *)
BeginEntry ==
  /\ pc = "idle" /\ trade = 0 /\ entries < MaxEntries
  /\ pc' = "limit" /\ attempt' = 1 /\ entries' = entries + 1
  /\ UNCHANGED <<orders, resp, book, slips, exits>>

\* The loop over the attempts; after the last one the final check.
NextTry ==
  /\ attempt' = attempt + 1
  /\ Go(IF attempt < LimitTries THEN "limit" ELSE "final")

\* An exception leaves the order_resp of the attempt before in place.
SendLimit ==
  /\ pc = "limit"
  /\ \/ Accepted("buy", "queued") /\ attempt' = attempt /\ Go("check")
     \/ AnswerLost("buy", "open") /\ NextTry
     \/ Refused /\ NextTry

\* Only "open" and "pending" are cancelled.  A status that is not read or has
\* another name leaves the order where it is and the next attempt sends another.
CheckLimit ==
  /\ pc = "check" /\ UNCHANGED <<orders, resp>>
  /\ \/ /\ orders[resp].status \in {"complete", "rejected"}
        /\ Go("final") /\ UNCHANGED <<attempt, slips>>
     \/ orders[resp].status = "open" /\ Go("cancel") /\ UNCHANGED <<attempt, slips>>
     \/ orders[resp].status \in {"queued", "cancelled"} /\ NextTry /\ Slip(Unseen(resp))
     \/ NextTry /\ Slip(Unseen(resp))     \* status is None, or get_order_status raises

\* cancel_order; what it raises is swallowed.
Cancelled ==
  IF orders[resp].status \in Working
  THEN \/ SetStatus(resp, "cancelled") /\ UNCHANGED slips
       \/ UNCHANGED orders /\ Slip(1)
  ELSE UNCHANGED <<orders, slips>>

\* Slip: the working order is not cancelled before the next attempt.
CancelSkipped == pc = "cancel" /\ UNCHANGED <<orders, slips, resp>> /\ NextTry

CancelLimit == pc = "cancel" /\ Cancelled /\ NextTry /\ UNCHANGED resp

\* The check after the loop: a status that is None keeps the order for the polls,
\* one that raises ends the call.
FinalCheck ==
  /\ pc = "final" /\ UNCHANGED orders
  /\ \/ resp = 0 /\ Go("market") /\ UNCHANGED <<attempt, resp, slips>>
     \/ /\ resp # 0 /\ orders[resp].status # "complete"
        /\ Go("replace") /\ UNCHANGED <<attempt, resp, slips>>
     \/ /\ resp # 0 /\ attempt' = 0
        /\ Go("poll") /\ UNCHANGED <<resp, slips>>
     \/ resp # 0 /\ Return /\ Slip(Unseen(resp)) /\ UNCHANGED book

Replace ==
  /\ pc = "replace" /\ Cancelled /\ resp' = 0
  /\ Go("market") /\ UNCHANGED attempt

SendMarket ==
  /\ pc = "market"
  /\ \/ Accepted("buy", "open") /\ attempt' = 0 /\ Go("poll")
     \/ /\ NewOrder("buy", "open") /\ Slip(1)
        /\ Return /\ UNCHANGED book
     \/ UNCHANGED <<orders, slips>> /\ Return /\ UNCHANGED book

\* Slip: polls until the order has ended.
PollForEver(step) == Go(step) /\ UNCHANGED <<attempt, resp, slips>>

\* The last poll gives the order up, and nothing cancels it.
PollAgain(step) ==
  IF attempt + 1 < Polls
  THEN attempt' = attempt + 1 /\ Go(step) /\ UNCHANGED <<resp, slips>>
  ELSE Return /\ Slip(Unseen(resp)) /\ UNCHANGED book

Poll ==
  /\ pc = "poll" /\ UNCHANGED orders
  /\ \/ /\ orders[resp].status = "complete" /\ trade' = resp
        /\ Return /\ UNCHANGED <<closed, sales, slips>>
     \/ /\ orders[resp].status \in {"rejected", "cancelled"}
        /\ Return /\ UNCHANGED <<book, slips>>
     \/ PollAgain("poll")                 \* working, or not read

-----------------------------------------------------------------------------
(* exit_position.                                                           *)
BeginExit ==
  /\ pc = "idle" /\ trade # 0 /\ exits < MaxExits
  /\ pc' = "sell" /\ attempt' = 1 /\ exits' = exits + 1
  /\ UNCHANGED <<orders, resp, book, slips, entries>>

NextSell ==
  IF attempt < ExitTries
  THEN attempt' = attempt + 1 /\ Go("sell")
  ELSE pc' = "idle" /\ attempt' = 0 /\ UNCHANGED <<book, calls>>

SendSell ==
  /\ pc = "sell"
  /\ \/ Accepted("sell", "open") /\ attempt' = 0 /\ Go("sellpoll")
     \/ AnswerLost("sell", "open") /\ NextSell
     \/ Refused /\ NextSell

\* Slip: the trade stays in the slot after its confirmed exit.
PollSellKeeps ==
  /\ pc = "sellpoll" /\ UNCHANGED <<orders, trade, slips>>
  /\ orders[resp].status = "complete"
  /\ closed' = closed \cup {trade} /\ sales' = sales \cup {resp}
  /\ Return

\* exit_confirmed; until then the trade stays open and is sold again later.
PollSell ==
  /\ pc = "sellpoll" /\ UNCHANGED orders
  /\ \/ /\ orders[resp].status = "complete"
        /\ trade' = 0 /\ closed' = closed \cup {trade} /\ sales' = sales \cup {resp}
        /\ Return /\ UNCHANGED slips
     \/ PollAgain("sellpoll")

Exchange == BookOpens \/ Fill \/ Reject
Entry    == BeginEntry \/ SendLimit \/ CheckLimit \/ CancelLimit \/ FinalCheck
              \/ Replace \/ SendMarket \/ Poll
Exit     == BeginExit \/ SendSell \/ PollSell
Next     == Exchange \/ Entry \/ Exit

Spec     == Init /\ [][Next]_vars
\* A call is straight-line code over bounded loops: its thread keeps running.
Running  == SendLimit \/ CheckLimit \/ CancelLimit \/ FinalCheck \/ Replace
              \/ SendMarket \/ Poll \/ SendSell \/ PollSell
FairSpec == Spec /\ WF_vars(Running)

-----------------------------------------------------------------------------
(* What the order calls promise.                                            *)
Live(o)  == orders[o].status \in Working \cup {"complete"}
Filled(side) == {o \in Ids : orders[o].side = side /\ orders[o].status = "complete"}

\* Orders that may still hold or change the position and that nobody watches.
Stray == {o \in Ids : Live(o) /\ o \notin closed \cup sales \cup {trade, resp}}

\* The broker's position is the bot's, but for one lot at most for each event
\* the bot could not see: the retries, the price chase, the MARKET fallback and
\* the repeated exits (core/trading/order_execution.py) send no order twice on
\* their own account.
PositionAgrees == pc = "idle" =>
  LET held == Cardinality(Filled("buy")) - Cardinality(Filled("sell"))
      own  == IF trade = 0 THEN 0 ELSE 1
  IN  held - own \in (-slips)..slips

\* Nothing is left working at the exchange that a slip does not account for,
\* also in the middle of a call and after a MARKET order took over.
StraysAccounted == Cardinality(Stray) <= slips

\* What the account holds or may still come to hold is the bot's trade and what
\* slips left behind.
OrdersAccounted == PositionAgrees /\ StraysAccounted

\* The trade the bot keeps is a filled entry order that no confirmed exit has
\* closed, and each confirmed exit has a fill of its own.
TradeBacked ==
  /\ trade # 0 => trade \in Filled("buy") \ closed
  /\ closed \subseteq Filled("buy") /\ sales \subseteq Filled("sell")
  /\ Cardinality(closed) = Cardinality(sales)

\* place_order sends at most one order per LIMIT attempt and one MARKET order,
\* and exit_position one per attempt, whatever the exchange answers.
OrdersBounded == Len(orders) <= entries * (LimitTries + 1) + exits * ExitTries

\* Every call returns, so an unanswered order never holds the trading loop.
CallReturns == pc # "idle" ~> pc = "idle"

\* A trade enters the slot once, from an order of its own, and leaves it
\* settled; orders the calls lost track of never enter it.
Slot == INSTANCE PositionSlot WITH
  Trades  <- 1..(MaxEntries * (LimitTries + 1) + MaxExits * ExitTries), None <- 0,
  slot    <- trade,
  used    <- Filled("buy") \ (IF pc \in Entering THEN {resp} ELSE {}),
  settled <- closed
SlotImplemented == Slot!Spec
=============================================================================
