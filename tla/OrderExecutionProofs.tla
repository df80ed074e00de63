------------------------ MODULE OrderExecutionProofs ------------------------
(***************************************************************************)
(* The order calls, proved for every number of attempts, polls and calls:  *)
(* types, the bound on orders sent, the trade being a filled order of its  *)
(* own, and the account of the orders nobody watches, from which follows   *)
(* how far the broker's position may be from the bot's.  After them, the   *)
(* step ladder that decides on the exit these calls carry out, for every   *)
(* set of rungs, every stop and every bound of the price: the stop is      *)
(* never lowered, an open trade is above it, and an exit of the engine     *)
(* books no less than the stop that stood, but for one move of the price,  *)
(* the spread and the slippage.                                            *)
(***************************************************************************)
EXTENDS OrderExecution, ExitLadder, FiniteSetTheorems, SequenceTheorems, WellFoundedInduction, TLAPS

\* Where the call stands decides what resp and trade may be.
CallShape ==
  /\ pc \in {"idle", "market", "sell"} => resp = 0
  /\ pc \in {"check", "cancel", "replace", "poll", "sellpoll"} => resp # 0
  /\ pc \in Entering => trade = 0 /\ (resp # 0 => orders[resp].side = "buy")
  /\ pc \in Exiting => trade # 0
  /\ pc = "sellpoll" => orders[resp].side = "sell"
  /\ resp \notin closed \cup sales

\* How many orders the call in progress may still send.
Owed ==
  CASE pc = "limit" -> LimitTries - attempt + 2
    [] pc \in {"check", "cancel"} -> LimitTries - attempt + 1
    [] pc \in {"final", "replace", "market"} -> 1
    [] pc = "sell" -> ExitTries - attempt + 1
    [] OTHER -> 0
Bounded == Len(orders) + Owed <= entries * (LimitTries + 1) + exits * ExitTries

\* Orders no step of the call looks after any more: resp is among them from the
\* moment the call has decided to send another order, or once it has filled
\* after its status was read.
Dropped(o) ==
  \/ o # resp \/ pc = "limit"
  \/ pc \in {"cancel", "replace"} /\ orders[o].status = "complete"
Loose   == {o \in Ids : Live(o) /\ o \notin closed \cup sales \cup {trade} /\ Dropped(o)}
Counted == Cardinality(Loose) <= slips

OInv == TypeOK /\ CallShape /\ TradeBacked /\ Bounded /\ Counted

\* What one step does to the orders: it keeps them, except that a working one
\* may get another status and a new one may follow.
Kept ==
  /\ orders' \in Seq(Order) /\ Ids \subseteq Ids' /\ Len(orders') >= Len(orders)
  /\ \A o \in Ids : orders'[o].side = orders[o].side
  /\ \A o \in Ids : orders[o].status \notin Working => orders'[o].status = orders[o].status

-----------------------------------------------------------------------------
(* The sequence of orders.                                                  *)
LEMMA IdsAre ==
  ASSUME TypeOK
  PROVE  /\ Len(orders) \in Nat /\ Ids = 1..Len(orders)
         /\ \A o \in Ids : orders[o] \in Order
         /\ 0 \notin Ids
  <1>1. orders \in Seq(Order)
      BY DEF TypeOK
  <1>2. Len(orders) \in Nat /\ DOMAIN orders = 1..Len(orders)
      BY <1>1, LenProperties
  <1>3. \A o \in 1..Len(orders) : orders[o] \in Order
      BY <1>1, ElementOfSeq
  <1> QED
      BY <1>2, <1>3 DEF Ids

LEMMA SetStatusKeeps ==
  ASSUME TypeOK, NEW o \in Ids, NEW s \in Working \cup Ended,
         SetStatus(o, s)
  PROVE  /\ orders' \in Seq(Order) /\ Len(orders') = Len(orders) /\ Ids' = Ids
         /\ \A p \in Ids : /\ orders'[p].side = orders[p].side
                           /\ orders'[p].status = IF p = o THEN s ELSE orders[p].status
  <1>1. Ids = 1..Len(orders) /\ orders[o] \in Order
      BY IdsAre
  <1> DEFINE e == [orders[o] EXCEPT !.status = s]
  <1>2. e \in Order /\ e.side = orders[o].side /\ e.status = s
      BY <1>1 DEF Order
  <1>3. orders' = [orders EXCEPT ![o] = e]
      BY DEF SetStatus
  <1> HIDE DEF e
  <1>4. /\ orders' \in Seq(Order) /\ Len(orders') = Len(orders)
        /\ \A p \in 1..Len(orders) : orders'[p] = IF p = o THEN e ELSE orders[p]
      BY <1>1, <1>2, <1>3, ExceptSeq DEF TypeOK
  <1>5. Ids' = 1..Len(orders')
      BY <1>4, LenProperties DEF Ids
  <1> QED
      BY <1>1, <1>2, <1>4, <1>5

LEMMA NewOrderKeeps ==
  ASSUME TypeOK, NEW side \in {"buy", "sell"}, NEW status \in Working \cup Ended,
         NewOrder(side, status)
  PROVE  /\ orders' \in Seq(Order) /\ Len(orders') = Len(orders) + 1
         /\ Ids' = Ids \cup {Len(orders) + 1}
         /\ \A p \in Ids : orders'[p] = orders[p]
         /\ orders'[Len(orders) + 1] = [side |-> side, status |-> status]
  <1>1. Ids = 1..Len(orders) /\ Len(orders) \in Nat
      BY IdsAre
  <1> DEFINE e == [side |-> side, status |-> status]
  <1>2. e \in Order
      BY DEF Order
  <1>3. orders' = Append(orders, e)
      BY DEF NewOrder
  <1> HIDE DEF e
  <1>4. /\ orders' \in Seq(Order) /\ Len(orders') = Len(orders) + 1
        /\ \A p \in 1..Len(orders) : orders'[p] = orders[p]
        /\ orders'[Len(orders) + 1] = e
      BY <1>2, <1>3, AppendProperties DEF TypeOK
  <1>5. Ids' = 1..Len(orders')
      BY <1>4, LenProperties DEF Ids
  <1>6. 1..Len(orders) + 1 = (1..Len(orders)) \cup {Len(orders) + 1}
      BY <1>1
  <1>7. orders'[Len(orders) + 1] = [side |-> side, status |-> status]
      BY <1>4 DEF e
  <1> QED
      BY <1>1, <1>4, <1>5, <1>6, <1>7

LEMMA SameKept == ASSUME TypeOK, UNCHANGED orders PROVE Kept /\ Ids' = Ids
  BY IdsAre DEF Kept, Ids, TypeOK

LEMMA SetStatusKept ==
  ASSUME TypeOK, NEW o \in Ids, NEW s \in Working \cup Ended,
         SetStatus(o, s), orders[o].status \in Working
  PROVE  Kept
  BY SetStatusKeeps, IdsAre DEF Kept

LEMMA NewOrderKept ==
  ASSUME TypeOK, NEW side \in {"buy", "sell"}, NEW status \in Working \cup Ended,
         NewOrder(side, status)
  PROVE  Kept
  <1>1. Len(orders) \in Nat
      BY IdsAre
  <1>2. /\ orders' \in Seq(Order) /\ Len(orders') = Len(orders) + 1
        /\ Ids' = Ids \cup {Len(orders) + 1}
        /\ \A p \in Ids : orders'[p] = orders[p]
      BY NewOrderKeeps
  <1>3. Len(orders') >= Len(orders)
      BY <1>1, <1>2
  <1> QED
      BY <1>2, <1>3 DEF Kept

LEMMA AcceptedKept ==
  ASSUME TypeOK, NEW side \in {"buy", "sell"}, NEW status \in Working,
         Accepted(side, status)
  PROVE  /\ Kept /\ resp' = Len(orders) + 1 /\ resp' \in Ids'
         /\ orders'[resp'].side = side /\ resp' # 0 /\ resp' \notin Ids
         /\ slips' = slips /\ Len(orders') = Len(orders) + 1
  <1>1. NewOrder(side, status) /\ resp' = Len(orders) + 1 /\ slips' = slips
        /\ status \in Working \cup Ended
      BY DEF Accepted
  <1>2. Len(orders) \in Nat /\ Ids = 1..Len(orders)
      BY IdsAre
  <1>3. Kept
      BY <1>1, NewOrderKept
  <1>4. /\ Len(orders') = Len(orders) + 1 /\ Ids' = Ids \cup {Len(orders) + 1}
        /\ orders'[Len(orders) + 1] = [side |-> side, status |-> status]
      BY <1>1, NewOrderKeeps
  <1>5. orders'[resp'].side = side
      BY <1>1, <1>4
  <1> QED
      BY <1>1, <1>2, <1>3, <1>4, <1>5

\* cancel_order, whatever comes of it.
LEMMA CancelledKept ==
  ASSUME TypeOK, resp # 0, Cancelled
  PROVE  /\ Kept /\ Ids' = Ids /\ slips' \in {slips, slips + 1}
         /\ \A o \in Ids : o # resp => orders'[o].status = orders[o].status
         /\ Len(orders') = Len(orders)
         /\ orders'[resp].status \in Working => slips' = slips + 1
  <1>1. resp \in Ids
      BY DEF TypeOK
  <1>2. CASE orders[resp].status \in Working /\ SetStatus(resp, "cancelled") /\ slips' = slips
    <2>1. "cancelled" \in Working \cup Ended /\ "cancelled" \notin Working
        BY DEF Working, Ended
    <2> QED
        BY <1>1, <1>2, <2>1, SetStatusKeeps, SetStatusKept
  <1>3. CASE UNCHANGED orders /\ slips' = slips + 1
      BY <1>3, SameKept
  <1>4. CASE orders[resp].status \notin Working /\ UNCHANGED <<orders, slips>>
      BY <1>1, <1>4, SameKept
  <1> QED
      BY <1>2, <1>3, <1>4 DEF Cancelled, Slip

-----------------------------------------------------------------------------
(* Types and the shape of a call.                                           *)
Shape == TypeOK /\ CallShape

LEMMA InitShape == Init => Shape
  <1> SUFFICES ASSUME Init PROVE Shape
      OBVIOUS
  <1>1. orders \in Seq(Order)
      BY EmptySeq DEF Init
  <1>2. Attempts("idle") = {0}
      BY DEF Attempts
  <1> QED
      BY <1>1, <1>2, TriesAssumption
      DEF Init, Shape, TypeOK, CallShape, Entering, Exiting

LEMMA UnseenType == ASSUME TypeOK, NEW o \in Ids \cup {0} PROVE Unseen(o) \in {0, 1}
  BY DEF Unseen

LEMMA AttemptsAre ==
  /\ Attempts("idle") = {0}
  /\ \A p \in {"limit", "check", "cancel"} : Attempts(p) = 1..LimitTries
  /\ \A p \in {"final", "replace", "market"} : Attempts(p) = 1..LimitTries + 1
  /\ Attempts("sell") = 1..ExitTries
  /\ \A p \in {"poll", "sellpoll"} : Attempts(p) = 0..Polls - 1
  BY DEF Attempts

\* The exchange moves no variable of the bot.
LEMMA ExchangeShape == Shape /\ Exchange => Shape' /\ Kept
  <1> SUFFICES ASSUME Shape, Exchange PROVE Shape' /\ Kept
      OBVIOUS
  <1>t. TypeOK
      BY DEF Shape
  <1>1. PICK o \in Ids, s \in Working \cup Ended :
          orders[o].status \in Working /\ SetStatus(o, s)
      BY DEF Exchange, BookOpens, Fill, Reject, Working, Ended
  <1>2. Kept /\ Ids' = Ids
      BY <1>t, <1>1, SetStatusKept, SetStatusKeeps
  <1>3. UNCHANGED <<callVars, calls>> /\ slips' \in Nat
      BY <1>t DEF Exchange, BookOpens, Fill, Reject, Slip, TypeOK
  <1>4. TypeOK'
      BY <1>t, <1>2, <1>3 DEF TypeOK, Kept, callVars, book, calls
  <1>5. CallShape'
      BY <1>t, <1>2, <1>3 DEF Shape, CallShape, Kept, callVars, book, TypeOK
  <1> QED
      BY <1>2, <1>4, <1>5 DEF Shape

LEMMA BeginShape == Shape /\ (BeginEntry \/ BeginExit) => Shape' /\ Kept
  <1> SUFFICES ASSUME Shape, BeginEntry \/ BeginExit PROVE Shape' /\ Kept
      OBVIOUS
  <1> USE TriesAssumption
  <1>t. TypeOK /\ CallShape
      BY DEF Shape
  <1>1. Kept /\ Ids' = Ids
      BY <1>t, SameKept DEF BeginEntry, BeginExit
  <1>2. pc' \in {"limit", "sell"} /\ attempt' \in Attempts(pc')
      BY AttemptsAre DEF BeginEntry, BeginExit
  <1>3. TypeOK'
      BY <1>t, <1>1, <1>2 DEF BeginEntry, BeginExit, TypeOK, Entering, Exiting, book
  <1>4. CallShape'
      BY <1>t, <1>1 DEF BeginEntry, BeginExit, CallShape, Entering, Exiting, book
  <1> QED
      BY <1>1, <1>3, <1>4 DEF Shape

\* What a step of place_order leaves, whichever way it goes.
LEMMA EntryShape ==
  ASSUME Shape, Kept, resp' \in Ids' \cup {0}, pc' \in Entering,
         attempt' \in Attempts(pc'), UNCHANGED <<book, calls>>, slips' \in Nat,
         pc \in Entering, resp' \in {0, resp, Len(orders) + 1},
         pc' = "market" => resp' = 0,
         pc' \in {"check", "cancel", "replace", "poll"} => resp' # 0,
         resp' = Len(orders) + 1 => orders'[resp'].side = "buy"
  PROVE  Shape'
  <1>t. TypeOK /\ CallShape
      BY DEF Shape
  <1>1. TypeOK'
      BY <1>t DEF TypeOK, Kept, book, calls
  <1>2. Len(orders) + 1 \notin Ids /\ 0 \notin Ids
      BY <1>t, IdsAre
  <1>3. resp' # 0 => orders'[resp'].side = "buy"
      BY <1>t DEF CallShape, Kept, TypeOK
  <1>4. resp' \notin closed' \cup sales'
      BY <1>t, <1>2 DEF CallShape, TypeOK, book
  <1>5. CallShape'
      BY <1>t, <1>3, <1>4 DEF CallShape, Entering, Exiting, book
  <1> QED
      BY <1>1, <1>5 DEF Shape

LEMMA NextTryAttempt ==
  ASSUME Shape, pc \in {"limit", "check", "cancel"}, NextTry
  PROVE  /\ pc' \in {"limit", "final"} /\ attempt' \in Attempts(pc')
         /\ UNCHANGED <<book, calls>>
         /\ pc' = "limit" => attempt' = attempt + 1 /\ attempt < LimitTries
  <1> USE TriesAssumption
  <1>1. attempt \in 1..LimitTries
      BY AttemptsAre DEF Shape, TypeOK
  <1> QED
      BY <1>1, AttemptsAre DEF NextTry, Go

\* A call that returns an unfilled order keeps the trade as it was.
LEMMA ReturnShape ==
  ASSUME Shape, Kept, Return, UNCHANGED book, slips' \in Nat
  PROVE  Shape'
  <1>t. TypeOK /\ CallShape
      BY DEF Shape
  <1>1. TypeOK'
      BY <1>t, AttemptsAre DEF TypeOK, Kept, Return, book, calls
  <1>2. CallShape'
      BY <1>t, IdsAre DEF CallShape, Return, book, Entering, Exiting, TypeOK
  <1> QED
      BY <1>1, <1>2 DEF Shape

LEMMA SendLimitShape == Shape /\ SendLimit => Shape' /\ Kept
  <1> SUFFICES ASSUME Shape, SendLimit PROVE Shape' /\ Kept
      OBVIOUS
  <1>t. TypeOK /\ CallShape /\ pc = "limit" /\ pc \in Entering /\ resp \in Ids \cup {0}
      BY DEF Shape, TypeOK, SendLimit, Entering
  <1>s. {"queued", "open"} \subseteq Working /\ "open" \in Working \cup Ended
      BY DEF Working
  <1>1. CASE Accepted("buy", "queued") /\ attempt' = attempt /\ Go("check")
    <2>1. /\ Kept /\ resp' = Len(orders) + 1 /\ resp' \in Ids'
          /\ orders'[resp'].side = "buy" /\ resp' # 0
        BY <1>1, <1>s, <1>t, AcceptedKept
    <2>2. pc' \in Entering /\ attempt' \in Attempts(pc') /\ pc' = "check"
        BY <1>1, <1>t, AttemptsAre DEF Go, Entering, TypeOK
    <2>3. UNCHANGED <<book, calls>> /\ slips' \in Nat
        BY <1>1, <1>t DEF Go, Accepted, TypeOK
    <2> QED
        BY <1>t, <2>1, <2>2, <2>3, EntryShape
  <1>2. CASE (AnswerLost("buy", "open") \/ Refused) /\ NextTry
    <2>1. /\ Kept /\ resp' = resp /\ slips' \in Nat
        BY <1>2, <1>s, <1>t, NewOrderKept, SameKept DEF AnswerLost, Refused, Slip, TypeOK
    <2>2. /\ pc' \in {"limit", "final"} /\ attempt' \in Attempts(pc')
          /\ UNCHANGED <<book, calls>>
        BY <1>2, <1>t, NextTryAttempt
    <2>3. pc' \in Entering /\ resp' \in Ids' \cup {0}
        BY <1>t, <2>1, <2>2 DEF Entering, Kept
    <2>4. resp' = Len(orders) + 1 => orders'[resp'].side = "buy"
        BY <1>t, <2>1, IdsAre
    <2> QED
        BY <1>t, <2>1, <2>2, <2>3, <2>4, EntryShape
  <1> QED
      BY <1>1, <1>2 DEF SendLimit

LEMMA CheckLimitShape == Shape /\ CheckLimit => Shape' /\ Kept
  <1> SUFFICES ASSUME Shape, CheckLimit PROVE Shape' /\ Kept
      OBVIOUS
  <1>t. /\ TypeOK /\ CallShape /\ pc = "check" /\ pc \in Entering /\ resp \in Ids /\ resp # 0
        /\ resp' = resp /\ UNCHANGED orders /\ attempt \in 1..LimitTries
      BY AttemptsAre DEF Shape, TypeOK, CallShape, CheckLimit, Entering
  <1>k. Kept /\ Ids' = Ids
      BY <1>t, SameKept
  <1>1. /\ pc' \in {"final", "cancel", "limit"} /\ attempt' \in Attempts(pc')
        /\ UNCHANGED <<book, calls>>
    <2>1. NextTry => pc' \in {"limit", "final"} /\ attempt' \in Attempts(pc')
                       /\ UNCHANGED <<book, calls>>
        BY <1>t, NextTryAttempt
    <2>2. attempt \in Attempts("final") /\ attempt \in Attempts("cancel")
        BY <1>t, AttemptsAre, TriesAssumption
    <2> QED
        BY <2>1, <2>2 DEF CheckLimit, Go
  <1>2. slips' \in Nat
      BY <1>t, UnseenType DEF CheckLimit, Slip, TypeOK
  <1>3. pc' \in Entering /\ resp' # Len(orders) + 1
      BY <1>1, <1>t, IdsAre DEF Entering
  <1> QED
      BY <1>t, <1>k, <1>1, <1>2, <1>3, EntryShape

LEMMA CancelLimitShape == Shape /\ CancelLimit => Shape' /\ Kept
  <1> SUFFICES ASSUME Shape, CancelLimit PROVE Shape' /\ Kept
      OBVIOUS
  <1>t. /\ TypeOK /\ CallShape /\ pc = "cancel" /\ pc \in Entering /\ resp \in Ids /\ resp # 0
        /\ resp' = resp /\ slips \in Nat
      BY DEF Shape, TypeOK, CallShape, CancelLimit, Entering
  <1>k. Kept /\ Ids' = Ids /\ slips' \in Nat
      BY <1>t, CancelledKept DEF CancelLimit
  <1>1. pc' \in {"limit", "final"} /\ attempt' \in Attempts(pc') /\ UNCHANGED <<book, calls>>
      BY <1>t, NextTryAttempt DEF CancelLimit
  <1>2. pc' \in Entering /\ resp' # Len(orders) + 1
      BY <1>1, <1>t, IdsAre DEF Entering
  <1> QED
      BY <1>t, <1>k, <1>1, <1>2, EntryShape

LEMMA FinalCheckShape == Shape /\ FinalCheck => Shape' /\ Kept
  <1> SUFFICES ASSUME Shape, FinalCheck PROVE Shape' /\ Kept
      OBVIOUS
  <1> USE TriesAssumption
  <1>t. /\ TypeOK /\ CallShape /\ pc = "final" /\ pc \in Entering /\ resp \in Ids \cup {0}
        /\ UNCHANGED orders /\ slips \in Nat /\ attempt \in 1..LimitTries + 1
      BY AttemptsAre DEF Shape, TypeOK, CallShape, FinalCheck, Entering
  <1>k. Kept /\ Ids' = Ids
      BY <1>t, SameKept
  <1>1. CASE Return /\ Slip(Unseen(resp)) /\ UNCHANGED book
    <2>1. slips' \in Nat
        BY <1>1, <1>t, UnseenType DEF Slip
    <2> QED
        BY <1>1, <1>k, <2>1, ReturnShape
  <1>2. CASE /\ pc' \in {"market", "replace", "poll"} /\ UNCHANGED <<resp, slips, book, calls>>
             /\ pc' = "market" => resp = 0
             /\ pc' \in {"replace", "poll"} => resp # 0
             /\ attempt' = IF pc' = "poll" THEN 0 ELSE attempt
    <2>1. attempt' \in Attempts(pc')
        BY <1>2, <1>t, AttemptsAre
    <2>2. pc' \in Entering /\ resp' # Len(orders) + 1
        BY <1>2, <1>t, IdsAre DEF Entering
    <2> QED
        BY <1>2, <1>t, <1>k, <2>1, <2>2, EntryShape
  <1> QED
      BY <1>1, <1>2 DEF FinalCheck, Go

LEMMA ReplaceShape == Shape /\ Replace => Shape' /\ Kept
  <1> SUFFICES ASSUME Shape, Replace PROVE Shape' /\ Kept
      OBVIOUS
  <1>t. /\ TypeOK /\ CallShape /\ pc = "replace" /\ pc \in Entering /\ resp # 0
        /\ resp' = 0 /\ slips \in Nat /\ pc' = "market" /\ pc' \in Entering
        /\ UNCHANGED <<book, calls>>
      BY DEF Shape, TypeOK, CallShape, Replace, Entering, Go
  <1>k. Kept /\ slips' \in Nat
      BY <1>t, CancelledKept DEF Replace
  <1>1. attempt' \in Attempts(pc')
      BY <1>t, AttemptsAre DEF Replace, TypeOK
  <1>2. resp' # Len(orders) + 1
      BY <1>t, IdsAre
  <1> QED
      BY <1>t, <1>k, <1>1, <1>2, EntryShape

LEMMA SendMarketShape == Shape /\ SendMarket => Shape' /\ Kept
  <1> SUFFICES ASSUME Shape, SendMarket PROVE Shape' /\ Kept
      OBVIOUS
  <1> USE TriesAssumption
  <1>t. TypeOK /\ CallShape /\ pc = "market" /\ pc \in Entering /\ slips \in Nat
      BY DEF Shape, TypeOK, SendMarket, Entering
  <1>s. "open" \in Working /\ "open" \in Working \cup Ended
      BY DEF Working
  <1>1. CASE Accepted("buy", "open") /\ attempt' = 0 /\ Go("poll")
    <2>1. /\ Kept /\ resp' = Len(orders) + 1 /\ resp' \in Ids'
          /\ orders'[resp'].side = "buy" /\ resp' # 0
        BY <1>1, <1>s, <1>t, AcceptedKept
    <2>2. pc' \in Entering /\ attempt' \in Attempts(pc') /\ pc' = "poll"
        BY <1>1, AttemptsAre DEF Go, Entering
    <2>3. UNCHANGED <<book, calls>> /\ slips' \in Nat
        BY <1>1, <1>t DEF Go, Accepted
    <2> QED
        BY <1>t, <2>1, <2>2, <2>3, EntryShape
  <1>2. CASE /\ \/ NewOrder("buy", "open") /\ Slip(1)
                \/ UNCHANGED <<orders, slips>>
             /\ Return /\ UNCHANGED book
    <2>1. Kept /\ slips' \in Nat
        BY <1>2, <1>s, <1>t, NewOrderKept, SameKept DEF Slip
    <2> QED
        BY <1>2, <2>1, ReturnShape
  <1> QED
      BY <1>1, <1>2 DEF SendMarket

LEMMA PollAgainLeaves ==
  ASSUME Shape, NEW step, PollAgain(step), resp # 0, attempt \in 0..Polls - 1
  PROVE  /\ slips' \in {slips, slips + Unseen(resp)} /\ slips' \in Nat
         /\ UNCHANGED <<book, calls>>
         /\ \/ /\ pc' = step /\ resp' = resp /\ attempt' \in 0..Polls - 1
               /\ slips' = slips
            \/ Return /\ slips' = slips + Unseen(resp)
  <1> USE TriesAssumption
  <1>1. Unseen(resp) \in {0, 1} /\ slips \in Nat
      BY UnseenType DEF Shape, TypeOK
  <1> QED
      BY <1>1 DEF PollAgain, Go, Return, Slip, Shape, TypeOK

LEMMA PollShape == Shape /\ Poll => Shape' /\ Kept
  <1> SUFFICES ASSUME Shape, Poll PROVE Shape' /\ Kept
      OBVIOUS
  <1>t. /\ TypeOK /\ CallShape /\ pc = "poll" /\ pc \in Entering /\ resp \in Ids /\ resp # 0
        /\ UNCHANGED orders /\ slips \in Nat /\ attempt \in 0..Polls - 1
      BY AttemptsAre DEF Shape, TypeOK, CallShape, Poll, Entering
  <1>k. Kept /\ Ids' = Ids
      BY <1>t, SameKept
  <1>1. CASE /\ trade' = resp /\ Return /\ UNCHANGED <<closed, sales, slips>>
    <2>1. TypeOK'
        BY <1>1, <1>k, <1>t, AttemptsAre DEF TypeOK, Kept, Return, calls
    <2>2. CallShape'
        BY <1>1, <1>t, IdsAre DEF CallShape, TypeOK, Return, Entering, Exiting
    <2> QED
        BY <1>k, <2>1, <2>2 DEF Shape
  <1>2. CASE Return /\ UNCHANGED <<book, slips>>
      BY <1>2, <1>k, <1>t, ReturnShape
  <1>3. CASE PollAgain("poll")
    <2>1. CASE Return
        BY <1>3, <1>k, <1>t, <2>1, PollAgainLeaves, ReturnShape
    <2>2. CASE pc' = "poll" /\ resp' = resp /\ attempt' \in 0..Polls - 1
      <3>1. attempt' \in Attempts(pc') /\ pc' \in Entering
          BY <2>2, AttemptsAre DEF Entering
      <3>3. resp' # Len(orders) + 1
          BY <2>2, <1>t, IdsAre
      <3>2. UNCHANGED <<book, calls>> /\ slips' \in Nat
          BY <1>3, <1>t, PollAgainLeaves
      <3> QED
          BY <1>k, <1>t, <2>2, <3>1, <3>2, <3>3, EntryShape
    <2> QED
        BY <1>3, <1>t, <2>1, <2>2, PollAgainLeaves
  <1> QED
      BY <1>1, <1>2, <1>3 DEF Poll

\* The same of exit_position.
LEMMA ExitShape ==
  ASSUME Shape, Kept, resp' \in Ids' \cup {0}, pc' \in Exiting,
         attempt' \in Attempts(pc'), UNCHANGED <<book, calls>>, slips' \in Nat,
         pc \in Exiting, resp' \in {0, resp, Len(orders) + 1},
         pc' = "sell" => resp' = 0,
         pc' = "sellpoll" => resp' # 0 /\ orders'[resp'].side = "sell"
  PROVE  Shape'
  <1>t. TypeOK /\ CallShape
      BY DEF Shape
  <1>1. TypeOK'
      BY <1>t DEF TypeOK, Kept, book, calls
  <1>2. Len(orders) + 1 \notin Ids /\ 0 \notin Ids
      BY <1>t, IdsAre
  <1>4. resp' \notin closed' \cup sales'
      BY <1>t, <1>2 DEF CallShape, TypeOK, book
  <1>5. CallShape'
      BY <1>t, <1>4 DEF CallShape, Entering, Exiting, book
  <1> QED
      BY <1>1, <1>5 DEF Shape

LEMMA SendSellShape == Shape /\ SendSell => Shape' /\ Kept
  <1> SUFFICES ASSUME Shape, SendSell PROVE Shape' /\ Kept
      OBVIOUS
  <1> USE TriesAssumption
  <1>t. /\ TypeOK /\ CallShape /\ pc = "sell" /\ pc \in Exiting /\ resp = 0 /\ slips \in Nat
        /\ attempt \in 1..ExitTries
      BY AttemptsAre DEF Shape, TypeOK, CallShape, SendSell, Exiting
  <1>s. "open" \in Working /\ "open" \in Working \cup Ended
      BY DEF Working
  <1>1. CASE Accepted("sell", "open") /\ attempt' = 0 /\ Go("sellpoll")
    <2>1. /\ Kept /\ resp' = Len(orders) + 1 /\ resp' \in Ids'
          /\ orders'[resp'].side = "sell" /\ resp' # 0
        BY <1>1, <1>s, <1>t, AcceptedKept
    <2>2. pc' \in Exiting /\ attempt' \in Attempts(pc') /\ pc' = "sellpoll"
        BY <1>1, AttemptsAre DEF Go, Exiting
    <2>3. UNCHANGED <<book, calls>> /\ slips' \in Nat
        BY <1>1, <1>t DEF Go, Accepted
    <2> QED
        BY <1>t, <2>1, <2>2, <2>3, ExitShape
  <1>2. CASE (AnswerLost("sell", "open") \/ Refused) /\ NextSell
    <2>1. Kept /\ resp' = 0 /\ slips' \in Nat
        BY <1>2, <1>s, <1>t, NewOrderKept, SameKept DEF AnswerLost, Refused, Slip
    <2>2. CASE attempt < ExitTries
      <3>1. pc' = "sell" /\ attempt' = attempt + 1 /\ UNCHANGED <<book, calls>>
          BY <1>2, <2>2 DEF NextSell, Go
      <3>2. attempt' \in Attempts(pc') /\ pc' \in Exiting
          BY <1>t, <2>2, <3>1, AttemptsAre DEF Exiting
      <3> QED
          BY <1>t, <2>1, <3>1, <3>2, ExitShape
    <2>3. CASE ~(attempt < ExitTries)
      <3>1. Return /\ UNCHANGED book
          BY <1>2, <2>1, <2>3 DEF NextSell, Return
      <3> QED
          BY <2>1, <3>1, ReturnShape
    <2> QED
        BY <2>2, <2>3
  <1> QED
      BY <1>1, <1>2 DEF SendSell

LEMMA PollSellShape == Shape /\ PollSell => Shape' /\ Kept
  <1> SUFFICES ASSUME Shape, PollSell PROVE Shape' /\ Kept
      OBVIOUS
  <1>t. /\ TypeOK /\ CallShape /\ pc = "sellpoll" /\ pc \in Exiting /\ resp \in Ids /\ resp # 0
        /\ UNCHANGED orders /\ slips \in Nat /\ attempt \in 0..Polls - 1 /\ trade # 0
      BY AttemptsAre DEF Shape, TypeOK, CallShape, PollSell, Exiting
  <1>k. Kept /\ Ids' = Ids
      BY <1>t, SameKept
  <1>1. CASE /\ trade' = 0 /\ closed' = closed \cup {trade} /\ sales' = sales \cup {resp}
             /\ Return /\ UNCHANGED slips
    <2>1. TypeOK'
        BY <1>1, <1>k, <1>t, AttemptsAre DEF TypeOK, Kept, Return, calls
    <2>2. CallShape'
        BY <1>1, <1>t, IdsAre DEF CallShape, TypeOK, Return, Entering, Exiting
    <2> QED
        BY <1>k, <2>1, <2>2 DEF Shape
  <1>2. CASE PollAgain("sellpoll")
    <2>1. CASE Return
        BY <1>2, <1>k, <1>t, <2>1, PollAgainLeaves, ReturnShape
    <2>2. CASE pc' = "sellpoll" /\ resp' = resp /\ attempt' \in 0..Polls - 1
      <3>1. attempt' \in Attempts(pc') /\ pc' \in Exiting
          BY <2>2, AttemptsAre DEF Exiting
      <3>2. UNCHANGED <<book, calls>> /\ slips' \in Nat
          BY <1>2, <1>t, PollAgainLeaves
      <3>3. orders'[resp'].side = "sell"
          BY <1>t, <2>2 DEF CallShape
      <3> QED
          BY <1>k, <1>t, <2>2, <3>1, <3>2, <3>3, ExitShape
    <2> QED
        BY <1>2, <1>t, <2>1, <2>2, PollAgainLeaves
  <1> QED
      BY <1>1, <1>2 DEF PollSell

LEMMA NextShape == Shape /\ Next => Shape' /\ Kept
  BY ExchangeShape, BeginShape, SendLimitShape, CheckLimitShape, CancelLimitShape,
     FinalCheckShape, ReplaceShape, SendMarketShape, PollShape, SendSellShape, PollSellShape
  DEF Next, Entry, Exit

-----------------------------------------------------------------------------
(* The trade and its sale are fills of orders of their own.                 *)
LEMMA FilledStays == ASSUME TypeOK, Kept, NEW side PROVE Filled(side) \subseteq Filled(side)'
  <1>1. "complete" \notin Working
      BY DEF Working
  <1> QED
      BY <1>1 DEF Filled, Kept, TypeOK

LEMMA IdsFinite == ASSUME TypeOK, NEW T \in SUBSET Ids PROVE IsFiniteSet(T)
  <1>1. IsFiniteSet(Ids)
      BY IdsAre, FS_Interval
  <1> QED
      BY <1>1, FS_Subset

LEMMA SameBookBacked == ASSUME TypeOK, TradeBacked, Kept, UNCHANGED book PROVE TradeBacked'
  <1>1. Filled("buy") \subseteq Filled("buy")' /\ Filled("sell") \subseteq Filled("sell")'
      BY FilledStays
  <1>2. trade' = trade /\ closed' = closed /\ sales' = sales
      BY DEF book
  <1> QED
      BY <1>1, <1>2 DEF TradeBacked

LEMMA StepBacked == Shape /\ TradeBacked /\ [Next]_vars => TradeBacked'
  <1> SUFFICES ASSUME Shape, TradeBacked, [Next]_vars PROVE TradeBacked'
      OBVIOUS
  <1>t. TypeOK /\ CallShape
      BY DEF Shape
  <1>k. Kept
      BY <1>t, NextShape, SameKept DEF vars
  <1>1. CASE UNCHANGED book
      BY <1>1, <1>k, <1>t, SameBookBacked
  <1>2. CASE /\ pc = "poll" /\ orders[resp].status = "complete" /\ trade' = resp
             /\ UNCHANGED <<closed, sales, orders>>
    <2>1. resp \in Filled("buy") \ closed
        BY <1>2, <1>t DEF CallShape, TypeOK, Entering, Filled
    <2>2. Filled("buy")' = Filled("buy") /\ Filled("sell")' = Filled("sell")
        BY <1>2 DEF Filled, Ids
    <2> QED
        BY <1>2, <2>1, <2>2 DEF TradeBacked
  <1>3. CASE /\ pc = "sellpoll" /\ orders[resp].status = "complete" /\ trade' = 0
             /\ closed' = closed \cup {trade} /\ sales' = sales \cup {resp} /\ UNCHANGED orders
    <2>1. resp \in Filled("sell") /\ resp \notin sales
        BY <1>3, <1>t DEF CallShape, TypeOK, Filled
    <2>2. trade \in Filled("buy") /\ trade \notin closed
        BY <1>3, <1>t DEF CallShape, Exiting, TradeBacked
    <2>3. Filled("buy")' = Filled("buy") /\ Filled("sell")' = Filled("sell")
        BY <1>3 DEF Filled, Ids
    <2>4. IsFiniteSet(closed) /\ IsFiniteSet(sales)
        BY <1>t, IdsFinite DEF TypeOK
    <2>6. Cardinality(closed \cup {trade}) = Cardinality(closed) + 1
        BY <2>2, <2>4, FS_AddElement
    <2>7. Cardinality(sales \cup {resp}) = Cardinality(sales) + 1
        BY <2>1, <2>4, FS_AddElement
    <2>5. Cardinality(closed') = Cardinality(sales')
        BY <1>3, <2>6, <2>7 DEF TradeBacked
    <2> QED
        BY <1>3, <2>1, <2>2, <2>3, <2>5 DEF TradeBacked
  <1>4. CASE Next /\ ~UNCHANGED book
    <2>1. Poll \/ PollSell
        BY <1>4 DEF Next, Exchange, Entry, Exit, BookOpens, Fill, Reject, BeginEntry, SendLimit,
           CheckLimit, CancelLimit, FinalCheck, Replace, SendMarket, BeginExit, SendSell,
           NextTry, NextSell, Go, Return, callVars
    <2> QED
        BY <1>2, <1>3, <1>4, <2>1 DEF Poll, PollSell, PollAgain, Go, book
  <1>5. CASE UNCHANGED vars
      BY <1>1, <1>5 DEF vars, callVars
  <1> QED
      BY <1>1, <1>4, <1>5

-----------------------------------------------------------------------------
(* How many orders the calls send.                                          *)
OwedFacts ==
  /\ Owed \in Nat /\ Len(orders) \in Nat /\ attempt \in Nat
  /\ pc = "limit" => Owed = LimitTries - attempt + 2 /\ attempt \in 1..LimitTries
  /\ pc \in {"check", "cancel"} =>
       Owed = LimitTries - attempt + 1 /\ attempt \in 1..LimitTries
  /\ pc \in {"final", "replace", "market"} => Owed = 1
  /\ pc = "sell" => Owed = ExitTries - attempt + 1 /\ attempt \in 1..ExitTries
  /\ pc \in {"idle", "poll", "sellpoll"} => Owed = 0

LEMMA OwedIs == Shape => OwedFacts
  <1> SUFFICES ASSUME Shape PROVE OwedFacts
      OBVIOUS
  <1> USE TriesAssumption
  <1>1. TypeOK
      BY DEF Shape
  <1>2. attempt \in Attempts(pc) /\ pc \in {"idle"} \cup Entering \cup Exiting
      BY <1>1 DEF TypeOK
  <1>3. Len(orders) \in Nat
      BY <1>1, IdsAre
  <1> QED
      BY <1>2, <1>3, AttemptsAre DEF OwedFacts, Owed, Entering, Exiting

\* A call in progress spends what it still may send.
LEMMA RunningSpends ==
  ASSUME Shape, Running
  PROVE  Len(orders') + Owed' <= Len(orders) + Owed /\ UNCHANGED calls
  <1> USE TriesAssumption
  <1>t. TypeOK
      BY DEF Shape
  <1>s. Shape'
      BY NextShape DEF Running, Next, Entry, Exit
  <1>n. ASSUME NextTry
        PROVE  \/ pc' = "limit" /\ attempt' = attempt + 1
               \/ pc' = "final" /\ attempt' = attempt + 1 /\ ~(attempt < LimitTries)
      BY <1>n DEF NextTry, Go
  <1>o. \A side \in {"buy", "sell"}, status \in {"open", "queued"} :
          NewOrder(side, status) => Len(orders') = Len(orders) + 1
      BY <1>t, NewOrderKeeps DEF Working
  <1>c. Cancelled /\ resp # 0 => Len(orders') = Len(orders)
      BY <1>t, CancelledKept
  <1>u. UNCHANGED calls
      BY DEF Running, SendLimit, CheckLimit, CancelLimit, FinalCheck, Replace, SendMarket,
         Poll, SendSell, PollSell, PollAgain, NextTry, NextSell, Go, Return, calls
  <1>p. OwedFacts /\ OwedFacts'
      BY <1>s, OwedIs, PTL
  <1>r. /\ {Owed, Owed', Len(orders), Len(orders')} \subseteq Nat
        /\ pc' \in {"final", "replace", "market"} => Owed' = 1
        /\ pc' \in {"idle", "poll", "sellpoll"} => Owed' = 0
        /\ pc \in {"final", "replace", "market"} => Owed = 1
        /\ pc = "limit" => Owed >= 2
        /\ pc \in {"check", "cancel", "sell"} => Owed >= 1
      BY <1>p DEF OwedFacts
  <1>m. NextTry => IF pc = "limit" THEN Owed' + 1 <= Owed
                   ELSE pc \in {"check", "cancel"} => Owed' <= Owed
    <2>1. CASE pc' = "limit" /\ attempt' = attempt + 1
        BY <1>p, <2>1 DEF OwedFacts
    <2>2. CASE pc' = "final"
        BY <1>r, <2>2
    <2> QED
        BY <1>n, <2>1, <2>2
  <1>v. NextSell /\ pc = "sell" => Owed' + 1 <= Owed
    <2>1. CASE pc' = "sell" /\ attempt' = attempt + 1
        BY <1>p, <2>1 DEF OwedFacts
    <2>2. CASE pc' = "idle"
        BY <1>r, <2>2
    <2> QED
        BY <2>1, <2>2 DEF NextSell, Go
  <1>w. pc = "limit" /\ pc' = "check" /\ attempt' = attempt => Owed' + 1 <= Owed
      BY <1>p DEF OwedFacts
  <1>x. pc = "check" /\ pc' = "cancel" /\ attempt' = attempt => Owed' <= Owed
      BY <1>p DEF OwedFacts
  <1>y. /\ \A side \in {"buy", "sell"}, status \in {"open", "queued"} :
             Accepted(side, status) \/ AnswerLost(side, status) => Len(orders') = Len(orders) + 1
        /\ Refused => Len(orders') = Len(orders)
      BY <1>o DEF Accepted, AnswerLost, Refused
  <1>1. CASE SendLimit
    <2>1. CASE Accepted("buy", "queued") /\ attempt' = attempt /\ Go("check")
      <3>1. Len(orders') = Len(orders) + 1
          BY <1>y, <2>1
      <3>2. Owed' + 1 <= Owed
          BY <1>1, <1>w, <2>1 DEF SendLimit, Go
      <3> QED
          BY <1>r, <1>u, <3>1, <3>2
    <2>2. CASE (AnswerLost("buy", "open") \/ Refused) /\ NextTry
      <3>1. Len(orders') \in {Len(orders), Len(orders) + 1}
          BY <1>y, <2>2
      <3>2. Owed' + 1 <= Owed
          BY <1>1, <1>m, <2>2 DEF SendLimit
      <3> QED
          BY <1>r, <1>u, <3>1, <3>2
    <2> QED
        BY <1>1, <2>1, <2>2 DEF SendLimit
  <1>2. CASE CheckLimit
      BY <1>2, <1>m, <1>r, <1>x, <1>u DEF CheckLimit, Go
  <1>3. CASE CancelLimit
    <2>1. resp # 0
        BY <1>3 DEF CancelLimit, Shape, CallShape
    <2> QED
        BY <1>3, <1>c, <1>m, <1>r, <1>x, <1>u, <2>1 DEF CancelLimit
  <1>4. CASE FinalCheck
      BY <1>4, <1>r, <1>u DEF FinalCheck, Go, Return
  <1>5. CASE Replace
    <2>1. resp # 0
        BY <1>5 DEF Replace, Shape, CallShape
    <2> QED
        BY <1>5, <1>c, <1>r, <1>u, <2>1 DEF Replace, Go
  <1>6. CASE SendMarket
      BY <1>6, <1>o, <1>r, <1>v, <1>u DEF SendMarket, Accepted, Go, Return
  <1>7. CASE Poll
      BY <1>7, <1>r, <1>u DEF Poll, PollAgain, Go, Return
  <1>8. CASE SendSell
    <2>1. CASE Accepted("sell", "open") /\ Go("sellpoll")
        BY <1>8, <1>r, <1>u, <1>y, <2>1 DEF SendSell, Go
    <2>2. CASE (AnswerLost("sell", "open") \/ Refused) /\ NextSell
      <3>1. Len(orders') \in {Len(orders), Len(orders) + 1}
          BY <1>y, <2>2
      <3>2. Owed' + 1 <= Owed
          BY <1>8, <1>v, <2>2 DEF SendSell
      <3> QED
          BY <1>r, <1>u, <3>1, <3>2
    <2> QED
        BY <1>8, <2>1, <2>2 DEF SendSell
  <1>9. CASE PollSell
      BY <1>9, <1>r, <1>u DEF PollSell, PollAgain, Go, Return
  <1> QED
      BY <1>u, <1>1, <1>2, <1>3, <1>4, <1>5, <1>6, <1>7, <1>8, <1>9 DEF Running

LEMMA ExchangeSendsNothing ==
  ASSUME TypeOK, Exchange
  PROVE  Len(orders') = Len(orders) /\ UNCHANGED <<callVars, calls>>
  <1>1. \E o \in Ids, s \in Working \cup Ended : SetStatus(o, s)
      BY DEF Exchange, BookOpens, Fill, Reject, Working, Ended
  <1>2. Len(orders') = Len(orders)
      BY <1>1, SetStatusKeeps
  <1> QED
      BY <1>2 DEF Exchange, BookOpens, Fill, Reject

LEMMA StepBounded == Shape /\ Bounded /\ [Next]_vars => Bounded'
  <1> SUFFICES ASSUME Shape, Bounded, [Next]_vars PROVE Bounded'
      OBVIOUS
  <1> USE TriesAssumption
  <1>t. TypeOK /\ entries \in Nat /\ exits \in Nat
      BY DEF Shape, TypeOK
  <1>s. Shape'
      BY NextShape DEF vars, callVars, book, calls, Shape, TypeOK, CallShape, Ids
  <1>p. OwedFacts /\ OwedFacts'
      BY <1>s, OwedIs, PTL
  <1>1. CASE Exchange \/ UNCHANGED vars
    <2>1. Len(orders') = Len(orders) /\ UNCHANGED <<pc, attempt, entries, exits>>
        BY <1>1, <1>t, ExchangeSendsNothing DEF vars, callVars, calls
    <2> QED
        BY <2>1 DEF Bounded, Owed
  <1>2. CASE Running
    <2>1. Len(orders') + Owed' <= Len(orders) + Owed /\ UNCHANGED <<entries, exits>>
        BY <1>2, RunningSpends DEF calls
    <2>2. {Len(orders), Len(orders'), Owed, Owed'} \subseteq Nat
        BY <1>p DEF OwedFacts
    <2> DEFINE w == entries * (LimitTries + 1) + exits * ExitTries
    <2>3. w \in Nat /\ w' = w
        BY <1>t, <2>1
    <2>4. Len(orders) + Owed <= w
        BY DEF Bounded
    <2> HIDE DEF w
    <2>5. Len(orders') + Owed' <= w'
        BY <2>1, <2>2, <2>3, <2>4
    <2> QED
        BY <2>5 DEF Bounded, w
  <1>3. CASE BeginEntry
    <2>1. /\ UNCHANGED <<orders, exits>> /\ entries' = entries + 1
          /\ Owed = 0 /\ Owed' = LimitTries + 1
        BY <1>3, <1>p DEF BeginEntry, OwedFacts
    <2>2. Len(orders) \in Nat /\ Len(orders) <= entries * (LimitTries + 1) + exits * ExitTries
        BY <1>p, <2>1 DEF Bounded, OwedFacts
    <2>3. (entries + 1) * (LimitTries + 1) = entries * (LimitTries + 1) + (LimitTries + 1)
        BY <1>t
    <2>4. Len(orders) + (LimitTries + 1) <= (entries + 1) * (LimitTries + 1) + exits * ExitTries
        BY <1>t, <2>2, <2>3
    <2> QED
        BY <2>1, <2>4 DEF Bounded
  <1>4. CASE BeginExit
    <2>1. /\ UNCHANGED <<orders, entries>> /\ exits' = exits + 1
          /\ Owed = 0 /\ Owed' = ExitTries
        BY <1>4, <1>p DEF BeginExit, OwedFacts
    <2>2. Len(orders) \in Nat /\ Len(orders) <= entries * (LimitTries + 1) + exits * ExitTries
        BY <1>p, <2>1 DEF Bounded, OwedFacts
    <2>3. (exits + 1) * ExitTries = exits * ExitTries + ExitTries
        BY <1>t
    <2>4. Len(orders) + ExitTries <= entries * (LimitTries + 1) + (exits + 1) * ExitTries
        BY <1>t, <2>2, <2>3
    <2> QED
        BY <2>1, <2>4 DEF Bounded
  <1> QED
      BY <1>1, <1>2, <1>3, <1>4 DEF Next, Entry, Exit, Running

-----------------------------------------------------------------------------
(* The orders nobody watches.                                               *)
LEMMA LooseCount ==
  ASSUME TypeOK, TypeOK', Counted,
         \/ Loose' \subseteq Loose /\ slips' >= slips
         \/ slips' >= slips + 1 /\ \E x : Loose' \subseteq Loose \cup {x}
  PROVE  Counted'
  <1>1. Loose \subseteq Ids /\ Loose' \subseteq Ids'
      BY DEF Loose
  <1>2. IsFiniteSet(Loose)
      BY <1>1, IdsFinite
  <1>3. Cardinality(Loose) \in Nat /\ slips \in Nat /\ slips' \in Nat
      BY <1>2, FS_CardinalityType DEF TypeOK
  <1>4. CASE Loose' \subseteq Loose /\ slips' >= slips
    <2>1. IsFiniteSet(Loose') /\ Cardinality(Loose') <= Cardinality(Loose)
        BY <1>2, <1>4, FS_Subset
    <2>2. Cardinality(Loose') \in Nat
        BY <2>1, FS_CardinalityType
    <2> QED
        BY <1>3, <1>4, <2>1, <2>2 DEF Counted
  <1>5. ASSUME slips' >= slips + 1, NEW x, Loose' \subseteq Loose \cup {x}
        PROVE  Counted'
    <2>1. /\ IsFiniteSet(Loose \cup {x})
          /\ Cardinality(Loose \cup {x}) \in {Cardinality(Loose), Cardinality(Loose) + 1}
        BY <1>2, FS_AddElement
    <2>2. IsFiniteSet(Loose') /\ Cardinality(Loose') <= Cardinality(Loose \cup {x})
        BY <1>5, <2>1, FS_Subset
    <2>3. Cardinality(Loose') \in Nat
        BY <2>2, FS_CardinalityType
    <2> QED
        BY <1>3, <1>5, <2>1, <2>2, <2>3 DEF Counted
  <1> QED
      BY <1>4, <1>5

LEMMA LooseFrom ==
  ASSUME TypeOK, Kept, NEW X,
         \A o \in Ids' \ X : o \in Ids,
         \A o \in Ids \ X : Live(o)' /\ Dropped(o)' => Dropped(o),
         \A o \in Ids \ X : o \in closed \cup sales \cup {trade} =>
                            o \in closed' \cup sales' \cup {trade'}
  PROVE  Loose' \subseteq Loose \cup X
  <1> SUFFICES ASSUME NEW o \in Loose', o \notin X PROVE o \in Loose
      OBVIOUS
  <1>1. /\ o \in Ids' /\ Live(o)' /\ Dropped(o)'
        /\ o \notin closed' \cup sales' \cup {trade'}
      BY DEF Loose
  <1>2. o \in Ids /\ Dropped(o) /\ o \notin closed \cup sales \cup {trade}
      BY <1>1
  <1>3. Live(o)
      BY <1>1, <1>2 DEF Live, Kept
  <1> QED
      BY <1>2, <1>3 DEF Loose

\* The same where the trade's book stays and no order is added.
LEMMA LooseStays ==
  ASSUME TypeOK, Kept, Ids' = Ids, UNCHANGED book, NEW X,
         \A o \in Ids \ X : Live(o)' /\ Dropped(o)' => Dropped(o)
  PROVE  Loose' \subseteq Loose \cup X
  <1>1. closed' = closed /\ sales' = sales /\ trade' = trade
      BY DEF book
  <1> QED
      BY <1>1, LooseFrom

\* ... and where one order is added.
LEMMA LooseGrows ==
  ASSUME TypeOK, UNCHANGED book,
         NEW side \in {"buy", "sell"}, NEW status \in Working \cup Ended,
         NewOrder(side, status),
         \A o \in Ids : Dropped(o)
  PROVE  Loose' \subseteq Loose \cup {Len(orders) + 1}
  <1>1. Kept /\ Ids' = Ids \cup {Len(orders) + 1}
      BY NewOrderKept, NewOrderKeeps
  <1>2. closed' = closed /\ sales' = sales /\ trade' = trade
      BY DEF book
  <1> QED
      BY <1>1, <1>2, LooseFrom

\* An order that was answered is watched.
LEMMA LooseAccepted ==
  ASSUME TypeOK, UNCHANGED book, pc' \in {"check", "poll", "sellpoll"},
         NEW side \in {"buy", "sell"}, NEW status \in Working,
         Accepted(side, status),
         \A o \in Ids : Dropped(o)
  PROVE  Loose' \subseteq Loose
  <1>1. NewOrder(side, status) /\ status \in Working \cup Ended /\ resp' = Len(orders) + 1
      BY DEF Accepted
  <1>2. Loose' \subseteq Loose \cup {Len(orders) + 1}
      BY <1>1, LooseGrows
  <1>3. \A o : o = resp' => ~Dropped(o)'
      BY DEF Dropped
  <1>4. \A o \in Loose' : Dropped(o)'
      BY DEF Loose
  <1>5. Len(orders) + 1 \notin Loose'
      BY <1>1, <1>3, <1>4
  <1> QED
      BY <1>2, <1>5

LEMMA ExchangeCounted == Shape /\ Counted /\ Exchange => Counted'
  <1> SUFFICES ASSUME Shape, Counted, Exchange PROVE Counted'
      OBVIOUS
  <1>t. TypeOK /\ TypeOK' /\ slips \in Nat
      BY ExchangeShape DEF Shape, TypeOK
  <1>1. PICK o \in Ids, s \in Working \cup Ended :
          /\ orders[o].status \in Working /\ SetStatus(o, s)
          /\ \/ s # "complete" /\ slips' = slips
             \/ slips' = slips + IF o = resp /\ pc \in {"cancel", "replace"} THEN 1 ELSE 0
      BY DEF Exchange, BookOpens, Fill, Reject, Working, Ended, Slip
  <1>2. Kept /\ Ids' = Ids
        /\ \A p \in Ids : orders'[p].status = IF p = o THEN s ELSE orders[p].status
      BY <1>t, <1>1, SetStatusKept, SetStatusKeeps
  <1>3. UNCHANGED book /\ pc' = pc /\ resp' = resp
      BY <1>t, ExchangeSendsNothing DEF callVars
  <1>4. CASE o = resp /\ pc \in {"cancel", "replace"} /\ s = "complete"
    <2>1. slips' = slips + 1
        BY <1>1, <1>4
    <2>2. \A p \in Ids \ {o} : Dropped(p)' => Dropped(p)
        BY <1>2, <1>3 DEF Dropped
    <2>3. Loose' \subseteq Loose \cup {o}
        BY <1>t, <1>2, <1>3, <2>2, LooseStays
    <2> QED
        BY <1>t, <2>1, <2>3, LooseCount
  <1>5. CASE ~(o = resp /\ pc \in {"cancel", "replace"} /\ s = "complete")
    <2>1. slips' >= slips
        BY <1>t, <1>1
    <2>2. \A p \in Ids \ {} : Dropped(p)' => Dropped(p)
        BY <1>2, <1>3, <1>5 DEF Dropped
    <2>3. Loose' \subseteq Loose \cup {}
        BY <1>t, <1>2, <1>3, <2>2, LooseStays
    <2> QED
        BY <1>t, <2>1, <2>3, LooseCount
  <1> QED
      BY <1>4, <1>5

LEMMA BeginCounted == Shape /\ Counted /\ (BeginEntry \/ BeginExit) => Counted'
  <1> SUFFICES ASSUME Shape, Counted, BeginEntry \/ BeginExit PROVE Counted'
      OBVIOUS
  <1>t. TypeOK /\ TypeOK' /\ Kept /\ slips \in Nat
      BY BeginShape DEF Shape, TypeOK
  <1>1. Ids' = Ids /\ UNCHANGED book /\ resp = 0 /\ slips' = slips
      BY DEF BeginEntry, BeginExit, Ids, Shape, CallShape
  <1>2. \A o \in Ids : Dropped(o)
      BY <1>1, <1>t, IdsAre DEF Dropped
  <1>3. Loose' \subseteq Loose \cup {}
      BY <1>1, <1>2, <1>t, LooseStays
  <1> QED
      BY <1>1, <1>3, <1>t, LooseCount

LEMMA SendCounted == Shape /\ Counted /\ (SendLimit \/ SendMarket \/ SendSell) => Counted'
  <1> SUFFICES ASSUME Shape, Counted, SendLimit \/ SendMarket \/ SendSell PROVE Counted'
      OBVIOUS
  <1>t. TypeOK /\ TypeOK' /\ Kept /\ slips \in Nat
      BY SendLimitShape, SendMarketShape, SendSellShape DEF Shape, TypeOK
  <1>b. UNCHANGED book
      BY DEF SendLimit, SendMarket, SendSell, NextTry, NextSell, Go
  <1>s. {"queued", "open"} \subseteq Working /\ "open" \in Working \cup Ended
      BY DEF Working
  <1>d. \A o \in Ids : Dropped(o)
      BY <1>t, IdsAre DEF SendLimit, SendMarket, SendSell, Shape, CallShape, Dropped
  <1>1. CASE /\ pc' \in {"check", "poll", "sellpoll"}
             /\ \E side \in {"buy", "sell"}, status \in {"queued", "open"} : Accepted(side, status)
    <2>1. Loose' \subseteq Loose
        BY <1>1, <1>b, <1>d, <1>s, <1>t, LooseAccepted
    <2>2. slips' = slips
        BY <1>1 DEF Accepted
    <2> QED
        BY <1>t, <2>1, <2>2, LooseCount
  <1>2. CASE \E side \in {"buy", "sell"} : NewOrder(side, "open") /\ slips' = slips + 1
    <2>1. Loose' \subseteq Loose \cup {Len(orders) + 1}
        BY <1>2, <1>b, <1>d, <1>s, <1>t, LooseGrows
    <2> QED
        BY <1>2, <1>t, <2>1, LooseCount
  <1>3. CASE UNCHANGED <<orders, slips>>
    <2>1. Ids' = Ids
        BY <1>3 DEF Ids
    <2>2. Loose' \subseteq Loose \cup {}
        BY <1>b, <1>d, <1>t, <2>1, LooseStays
    <2> QED
        BY <1>3, <1>t, <2>2, LooseCount
  <1> QED
      BY <1>1, <1>2, <1>3
      DEF SendLimit, SendMarket, SendSell, AnswerLost, Refused, Slip, Go

\* Letting go of resp costs a slip, unless the order has ended unfilled.
LEMMA LetGoCounted ==
  ASSUME Shape, Counted, TypeOK', UNCHANGED <<orders, book>>, resp \in Ids \cup {0},
         slips' = slips + Unseen(resp)
  PROVE  Counted'
  <1>t. TypeOK /\ slips \in Nat /\ Kept /\ Ids' = Ids /\ UNCHANGED book
      BY SameKept DEF Shape, TypeOK
  <1>1. \A o \in Ids \ {resp} : Dropped(o)
      BY DEF Dropped
  <1>2. CASE Unseen(resp) = 1
    <2>1. Loose' \subseteq Loose \cup {resp}
        BY <1>1, <1>t, LooseStays
    <2> QED
        BY <1>2, <1>t, <2>1, LooseCount
  <1>3. CASE Unseen(resp) = 0
    <2>1. \A o \in Ids : o = resp => ~Live(o)'
        BY <1>3, <1>t, IdsAre DEF Unseen, Live, Working, Ended
    <2>2. \A o \in Ids \ {} : Live(o)' /\ Dropped(o)' => Dropped(o)
        BY <1>1, <2>1
    <2>3. Loose' \subseteq Loose \cup {}
        BY <1>t, <2>2, LooseStays
    <2> QED
        BY <1>3, <1>t, <2>3, LooseCount
  <1> QED
      BY <1>2, <1>3, <1>t, UnseenType

LEMMA CancelCounted ==
  ASSUME Shape, Counted, TypeOK', pc \in {"cancel", "replace"}, Cancelled, UNCHANGED book
  PROVE  Counted'
  <1>t. TypeOK /\ slips \in Nat /\ resp # 0 /\ resp \in Ids
      BY DEF Shape, CallShape, TypeOK
  <1>1. /\ Kept /\ Ids' = Ids /\ slips' \in {slips, slips + 1}
        /\ orders'[resp].status \in Working => slips' = slips + 1
      BY <1>t, CancelledKept
  <1>2. \A o \in Ids \ {resp} : Dropped(o)
      BY DEF Dropped
  <1>3. CASE slips' = slips + 1
    <2>1. Loose' \subseteq Loose \cup {resp}
        BY <1>1, <1>2, <1>t, LooseStays
    <2> QED
        BY <1>3, <1>t, <2>1, LooseCount
  <1>4. CASE slips' = slips /\ orders'[resp].status \notin Working
    <2>1. orders'[resp].status = "complete" => orders[resp].status = "complete"
      <3>1. CASE orders[resp].status \in Working /\ SetStatus(resp, "cancelled")
        <4>1. orders'[resp].status = "cancelled"
            BY <1>t, <3>1, SetStatusKeeps DEF Ended
        <4> QED
            BY <4>1
      <3>2. CASE UNCHANGED orders
          BY <3>2
      <3> QED
          BY <3>1, <3>2 DEF Cancelled
    <2>2. \A o \in Ids \ {} : Live(o)' /\ Dropped(o)' => Dropped(o)
        BY <1>2, <1>4, <2>1 DEF Live, Dropped
    <2>3. Loose' \subseteq Loose \cup {}
        BY <1>1, <1>t, <2>2, LooseStays
    <2> QED
        BY <1>4, <1>t, <2>3, LooseCount
  <1> QED
      BY <1>1, <1>3, <1>4

\* A step that goes on watching resp, or watches nothing.
LEMMA WatchCounted ==
  ASSUME Shape, Counted, TypeOK', UNCHANGED <<orders, book, slips>>,
         resp' = resp, pc # "limit", pc' \notin {"limit", "idle"},
         pc' \in {"cancel", "replace"} => orders[resp].status # "complete"
  PROVE  Counted'
  <1>t. TypeOK /\ slips \in Nat /\ Kept /\ Ids' = Ids /\ UNCHANGED book
      BY SameKept DEF Shape, TypeOK
  <1>1. \A o \in Ids \ {} : Live(o)' /\ Dropped(o)' => Dropped(o)
      BY DEF Dropped
  <1>2. Loose' \subseteq Loose \cup {}
      BY <1>1, <1>t, LooseStays
  <1> QED
      BY <1>2, <1>t, LooseCount

LEMMA EntryCounted ==
  Shape /\ Counted /\ (CheckLimit \/ CancelLimit \/ FinalCheck \/ Replace) => Counted'
  <1> SUFFICES ASSUME Shape, Counted, CheckLimit \/ CancelLimit \/ FinalCheck \/ Replace
               PROVE  Counted'
      OBVIOUS
  <1>t. TypeOK' /\ resp \in Ids \cup {0} /\ slips \in Nat
      BY CheckLimitShape, CancelLimitShape, FinalCheckShape, ReplaceShape DEF Shape, TypeOK
  <1>b. UNCHANGED book
      BY DEF CheckLimit, CancelLimit, FinalCheck, Replace, NextTry, Go
  <1>1. CASE CheckLimit
    <2>1. CASE Slip(Unseen(resp))
        BY <1>1, <1>b, <1>t, <2>1, LetGoCounted DEF CheckLimit, Slip
    <2>2. CASE /\ slips' = slips
               /\ \/ pc' = "final"
                  \/ pc' = "cancel" /\ orders[resp].status = "open"
        BY <1>1, <1>b, <1>t, <2>2, WatchCounted DEF CheckLimit
    <2> QED
        BY <1>1, <2>1, <2>2 DEF CheckLimit, Go
  <1>2. CASE CancelLimit
      BY <1>2, <1>b, <1>t, CancelCounted DEF CancelLimit
  <1>3. CASE FinalCheck
    <2>1. CASE Slip(Unseen(resp))
        BY <1>3, <1>b, <1>t, <2>1, LetGoCounted DEF FinalCheck, Slip
    <2>2. CASE /\ slips' = slips /\ resp' = resp
               /\ \/ pc' \in {"market", "poll"}
                  \/ pc' = "replace" /\ orders[resp].status # "complete"
        BY <1>3, <1>b, <1>t, <2>2, WatchCounted DEF FinalCheck
    <2> QED
        BY <1>3, <2>1, <2>2 DEF FinalCheck, Go
  <1>4. CASE Replace
      BY <1>4, <1>b, <1>t, CancelCounted DEF Replace
  <1> QED
      BY <1>1, <1>2, <1>3, <1>4

LEMMA PollCounted == Shape /\ Counted /\ (Poll \/ PollSell) => Counted'
  <1> SUFFICES ASSUME Shape, Counted, Poll \/ PollSell PROVE Counted'
      OBVIOUS
  <1>t. /\ TypeOK /\ TypeOK' /\ resp \in Ids /\ resp # 0 /\ slips \in Nat
        /\ Kept /\ Ids' = Ids /\ UNCHANGED orders
      BY PollShape, PollSellShape, SameKept DEF Shape, CallShape, TypeOK, Poll, PollSell
  <1>a. attempt \in 0..Polls - 1
      BY AttemptsAre DEF Poll, PollSell, Shape, TypeOK
  <1>d. \A o \in Ids \ {resp} : Dropped(o)
      BY DEF Dropped
  <1>1. ASSUME NEW step \in {"poll", "sellpoll"}, PollAgain(step)
        PROVE  Counted'
    <2>1. /\ UNCHANGED book
          /\ \/ pc' = step /\ resp' = resp /\ slips' = slips
             \/ slips' = slips + Unseen(resp)
        BY <1>1, <1>a, <1>t, PollAgainLeaves
    <2> QED
        BY <1>t, <2>1, WatchCounted, LetGoCounted DEF Poll, PollSell
  <1>2. CASE /\ resp \in closed' \cup sales' \cup {trade'}
             /\ \A o \in Ids : o \in closed \cup sales \cup {trade} =>
                               o \in closed' \cup sales' \cup {trade'}
             /\ slips' = slips
    <2>1. Loose' \subseteq Loose \cup {resp}
        BY <1>2, <1>d, <1>t, LooseFrom
    <2>2. resp \notin Loose'
        BY <1>2 DEF Loose
    <2> QED
        BY <1>2, <1>t, <2>1, <2>2, LooseCount
  <1>3. CASE orders[resp].status \in {"rejected", "cancelled"} /\ Return /\ UNCHANGED <<book, slips>>
    <2>1. Unseen(resp) = 0 /\ slips' = slips + Unseen(resp)
        BY <1>3, <1>t DEF Unseen
    <2> QED
        BY <1>3, <1>t, <2>1, LetGoCounted
  <1>4. CASE Poll
    <2>1. trade = 0 /\ 0 \notin Ids
        BY <1>4, <1>t, IdsAre DEF Poll, Shape, CallShape, Entering
    <2> QED
        BY <1>1, <1>2, <1>3, <1>4, <2>1 DEF Poll
  <1>5. CASE PollSell
      BY <1>1, <1>2, <1>5 DEF PollSell
  <1> QED
      BY <1>4, <1>5

LEMMA StepCounted == Shape /\ Counted /\ [Next]_vars => Counted'
  <1>1. Shape /\ Counted /\ UNCHANGED vars => Counted'
      BY DEF vars, callVars, book, Counted, Loose, Live, Dropped, Ids
  <1> QED
      BY <1>1, ExchangeCounted, BeginCounted, SendCounted, EntryCounted, PollCounted
      DEF Next, Entry, Exit

-----------------------------------------------------------------------------
(* What every reachable state has.                                          *)
LEMMA InitOInv == Init => OInv
  <1> SUFFICES ASSUME Init PROVE OInv
      OBVIOUS
  <1>1. Shape
      BY InitShape
  <1>2. Ids = {}
      BY <1>1, IdsAre DEF Init, Shape
  <1>3. TradeBacked
      BY <1>2, FS_EmptySet DEF Init, TradeBacked, Filled
  <1>4. Loose = {} /\ Counted
      BY <1>2, FS_EmptySet DEF Init, Loose, Counted
  <1>5. Bounded
      BY TriesAssumption DEF Init, Bounded, Owed
  <1> QED
      BY <1>1, <1>3, <1>4, <1>5 DEF OInv, Shape

LEMMA StepOInv == OInv /\ [Next]_vars => OInv'
  <1> SUFFICES ASSUME OInv, [Next]_vars PROVE OInv'
      OBVIOUS
  <1>1. Shape /\ TradeBacked /\ Bounded /\ Counted
      BY DEF OInv, Shape
  <1>2. Shape'
      BY <1>1, NextShape DEF vars, callVars, book, calls, Shape, TypeOK, CallShape, Ids
  <1>3. TradeBacked' /\ Bounded' /\ Counted'
      BY <1>1, StepBacked, StepBounded, StepCounted
  <1> QED
      BY <1>2, <1>3 DEF OInv, Shape

LEMMA OInvAlways == Spec => []OInv
  BY InitOInv, StepOInv, PTL DEF Spec

\* Types; every loop counter of place_order and exit_position stays in its loop.
THEOREM OrderTypes == Spec => []TypeOK
  <1>1. OInv => TypeOK
      BY DEF OInv
  <1> QED
      BY <1>1, OInvAlways, PTL

\* The two functions send a bounded number of orders per call.
THEOREM OrdersStayBounded == Spec => []OrdersBounded
  <1>1. OInv => OrdersBounded
    <2> SUFFICES ASSUME OInv PROVE OrdersBounded
        OBVIOUS
    <2>1. OwedFacts
        BY OwedIs DEF OInv, Shape
    <2> DEFINE w == entries * (LimitTries + 1) + exits * ExitTries
    <2>2. w \in Nat
        BY TriesAssumption DEF OInv, TypeOK
    <2>3. Len(orders) + Owed <= w
        BY DEF OInv, Bounded
    <2> HIDE DEF w
    <2>4. Len(orders) <= w
        BY <2>1, <2>2, <2>3 DEF OwedFacts
    <2> QED
        BY <2>4 DEF OrdersBounded, w
  <1> QED
      BY <1>1, OInvAlways, PTL

\* current_trade is a filled entry order of its own, and each confirmed exit has
\* a sell fill of its own (order_execution.py).
THEOREM TradesBacked == Spec => []TradeBacked
  <1>1. OInv => TradeBacked
      BY DEF OInv
  <1> QED
      BY <1>1, OInvAlways, PTL

LEMMA StraysCounted == OInv => StraysAccounted
  <1> SUFFICES ASSUME OInv PROVE StraysAccounted
      OBVIOUS
  <1>1. Stray \subseteq Loose /\ Loose \subseteq Ids
      BY DEF Stray, Loose, Dropped
  <1>2. IsFiniteSet(Loose)
      BY <1>1, IdsFinite DEF OInv
  <1>3. IsFiniteSet(Stray) /\ Cardinality(Stray) <= Cardinality(Loose)
      BY <1>1, <1>2, FS_Subset
  <1>4. {Cardinality(Stray), Cardinality(Loose), slips} \subseteq Nat
      BY <1>2, <1>3, FS_CardinalityType DEF OInv, TypeOK
  <1> QED
      BY <1>3, <1>4 DEF OInv, Counted, StraysAccounted

\* Orders nobody watches never outnumber the events the bot could not see: the
\* chase, the MARKET fallback and the repeated exits lose no order themselves.
THEOREM StraysNeverMore == Spec => []StraysAccounted
  BY StraysCounted, OInvAlways, PTL

LEMMA PositionFollows == OInv => PositionAgrees
  <1> SUFFICES ASSUME OInv, pc = "idle"
               PROVE  Cardinality(Filled("buy")) - Cardinality(Filled("sell"))
                        - (IF trade = 0 THEN 0 ELSE 1) \in (-slips)..slips
      BY DEF PositionAgrees
  <1> DEFINE B == Filled("buy")
             S == Filled("sell")
             X == (B \ closed) \ {trade}
             Y == S \ sales
             own == IF trade = 0 THEN 0 ELSE 1
  <1>t. TypeOK /\ TradeBacked /\ resp = 0 /\ 0 \notin Ids
      BY IdsAre DEF OInv, CallShape
  <1>1. /\ closed \subseteq B /\ sales \subseteq S /\ Cardinality(closed) = Cardinality(sales)
        /\ trade # 0 => trade \in B \ closed
        /\ B \cap S = {} /\ 0 \notin B
      BY <1>t DEF TradeBacked, Filled
  <1>2. B \subseteq Ids /\ S \subseteq Ids
      BY DEF Filled
  <1>3. IsFiniteSet(B) /\ IsFiniteSet(S) /\ IsFiniteSet(Stray)
      BY <1>t, <1>2, IdsFinite DEF Stray
  <1>4. X \subseteq Stray /\ Y \subseteq Stray
      BY <1>t, <1>1 DEF Stray, Filled, Live
  <1>5. Cardinality(Stray) <= slips
      BY StraysCounted DEF StraysAccounted
  <1>f. IsFiniteSet(closed) /\ IsFiniteSet(sales)
      BY <1>1, <1>3, FS_Subset
  <1> HIDE DEF B, S
  <1>6. Cardinality(B \ closed) = Cardinality(B) - Cardinality(closed) /\ IsFiniteSet(B \ closed)
    <2>1. B \cap closed = closed
        BY <1>1
    <2> QED
        BY <1>3, <2>1, FS_Difference
  <1>7. Cardinality(Y) = Cardinality(S) - Cardinality(sales) /\ IsFiniteSet(Y)
    <2>1. S \cap sales = sales
        BY <1>1
    <2> QED
        BY <1>3, <2>1, FS_Difference
  <1>8. IsFiniteSet(X) /\ Cardinality(X) = Cardinality(B \ closed) - own
    <2>0. trade \in B \ closed <=> trade # 0
        BY <1>1
    <2>1. /\ IsFiniteSet((B \ closed) \ {trade})
          /\ Cardinality((B \ closed) \ {trade}) =
               IF trade \in B \ closed THEN Cardinality(B \ closed) - 1 ELSE Cardinality(B \ closed)
        BY <1>6, FS_RemoveElement
    <2>2. Cardinality(B \ closed) \in Nat
        BY <1>6, FS_CardinalityType
    <2> QED
        BY <2>0, <2>1, <2>2
  <1> HIDE DEF X, Y, own
  <1>9. Cardinality(X) <= Cardinality(Stray) /\ Cardinality(Y) <= Cardinality(Stray)
      BY <1>3, <1>4, FS_Subset
  <1>10. {Cardinality(B), Cardinality(S), Cardinality(X), Cardinality(Y), Cardinality(Stray),
          Cardinality(closed), slips} \subseteq Nat
      BY <1>f, <1>3, <1>7, <1>8, FS_CardinalityType DEF OInv, TypeOK
  <1>11. own \in {0, 1}
      BY DEF own
  <1>12. Cardinality(B) - Cardinality(S) - own \in (-slips)..slips
    <2>1. Cardinality(B) - Cardinality(S) - own = Cardinality(X) - Cardinality(Y)
        BY <1>1, <1>6, <1>7, <1>8, <1>10, <1>11
    <2>2. Cardinality(X) <= slips /\ Cardinality(Y) <= slips
        BY <1>5, <1>9, <1>10
    <2> QED
        BY <1>10, <2>1, <2>2
  <1> QED
      BY <1>12 DEF B, S, own

\* Between two calls the broker's position is the bot's, but for one lot at most
\* for each event the bot could not see.
THEOREM PositionAgreesAlways == Spec => []PositionAgrees
  BY PositionFollows, OInvAlways, PTL

\* What the account holds, or may come to hold through an order still working,
\* is the bot's trade and what events it could not see left behind.
THEOREM OrdersAreAccounted == Spec => []OrdersAccounted
  BY PositionAgreesAlways, StraysNeverMore, PTL DEF OrdersAccounted

-----------------------------------------------------------------------------
(* The calls implement the slot.                                            *)
\* Entry fills the session knows of or has given up on.
Used == Filled("buy") \ (IF pc \in Entering THEN {resp} ELSE {})
Bound == 1..(MaxEntries * (LimitTries + 1) + MaxExits * ExitTries)

LEMMA IdsWithin == OInv => Ids \subseteq Bound
  <1> SUFFICES ASSUME OInv PROVE Ids \subseteq Bound
      OBVIOUS
  <1> USE TriesAssumption
  <1>1. /\ entries \in 0..MaxEntries /\ exits \in 0..MaxExits
        /\ Len(orders) \in Nat /\ Ids = 1..Len(orders) /\ OwedFacts
      BY IdsAre, OwedIs DEF OInv, Shape, TypeOK
  <1>2. /\ entries * (LimitTries + 1) <= MaxEntries * (LimitTries + 1)
        /\ exits * ExitTries <= MaxExits * ExitTries
      BY <1>1
  <1>3. Len(orders) + Owed <= entries * (LimitTries + 1) + exits * ExitTries
      BY DEF OInv, Bounded
  <1> DEFINE a == entries * (LimitTries + 1)
             b == exits * ExitTries
             c == MaxEntries * (LimitTries + 1)
             d == MaxExits * ExitTries
  <1>4. {a, b, c, d} \subseteq Nat
      BY <1>1
  <1> HIDE DEF a, b, c, d
  <1>5. Len(orders) <= c + d
    <2>1. a <= c /\ b <= d /\ Len(orders) + Owed <= a + b
        BY <1>2, <1>3 DEF a, b, c, d
    <2> QED
        BY <1>1, <1>4, <2>1 DEF OwedFacts
  <1>6. 1..Len(orders) \subseteq 1..(c + d)
      BY <1>1, <1>4, <1>5
  <1> QED
      BY <1>1, <1>6 DEF Bound, c, d

\* Only a fill of the exchange makes an order complete.
LEMMA NoFillElsewhere ==
  ASSUME TypeOK, CallShape, Next, ~Fill
  PROVE  Filled("buy")' = Filled("buy")
  <1>c. "open" # "complete" /\ "complete" \notin Working /\ Working \subseteq Working \cup Ended
      BY DEF Working
  <1>1. ASSUME NEW o \in Ids, NEW s \in Working \cup Ended, s # "complete",
               orders[o].status \in Working, SetStatus(o, s)
        PROVE  Filled("buy")' = Filled("buy")
      BY <1>1, <1>c, SetStatusKeeps DEF Filled
  <1>2. ASSUME NEW side \in {"buy", "sell"}, NEW status \in Working, NewOrder(side, status)
        PROVE  Filled("buy")' = Filled("buy")
    <2>1. /\ Ids' = Ids \cup {Len(orders) + 1} /\ \A p \in Ids : orders'[p] = orders[p]
          /\ orders'[Len(orders) + 1] = [side |-> side, status |-> status]
        BY <1>2, <1>c, NewOrderKeeps
    <2>2. orders'[Len(orders) + 1].status # "complete"
        BY <1>c, <2>1
    <2> QED
        BY <2>1, <2>2 DEF Filled
  <1>3. CASE UNCHANGED orders
      BY <1>3 DEF Filled, Ids
  <1>4. CASE Exchange
    <2>1. \E o \in Ids, s \in Working \cup Ended :
            s # "complete" /\ orders[o].status \in Working /\ SetStatus(o, s)
        BY <1>4 DEF Exchange, BookOpens, Reject, Working, Ended
    <2> QED
        BY <1>1, <2>1
  <1>5. CASE SendLimit \/ SendMarket \/ SendSell
    <2>1. \/ UNCHANGED orders
          \/ \E side \in {"buy", "sell"}, status \in Working : NewOrder(side, status)
        BY <1>5 DEF SendLimit, SendMarket, SendSell, Accepted, AnswerLost, Refused, Working
    <2> QED
        BY <1>2, <1>3, <2>1
  <1>6. CASE CancelLimit \/ Replace
    <2>1. Cancelled /\ resp \in Ids
        BY <1>6 DEF CancelLimit, Replace, CallShape, TypeOK
    <2>2. \/ UNCHANGED orders
          \/ orders[resp].status \in Working /\ SetStatus(resp, "cancelled")
        BY <2>1 DEF Cancelled
    <2>3. "cancelled" \in Working \cup Ended
        BY DEF Ended
    <2> QED
        BY <1>1, <1>3, <2>1, <2>2, <2>3
  <1>7. CASE BeginEntry \/ BeginExit \/ CheckLimit \/ FinalCheck \/ Poll \/ PollSell
      BY <1>3, <1>7 DEF BeginEntry, BeginExit, CheckLimit, FinalCheck, Poll, PollSell
  <1> QED
      BY <1>4, <1>5, <1>6, <1>7 DEF Next, Entry, Exit

\* With the trade's book as it was, one more known fill is the slot's Stray.
LEMMA MayStray ==
  ASSUME Ids' \subseteq Bound, UNCHANGED book, NEW x \in Ids',
         Used' = Used \/ (x \notin Used /\ Used' = Used \cup {x})
  PROVE  [Slot!Next]_<<trade, Used, closed>>
  BY DEF Slot!Next, Slot!Stray, Bound, Used, book

LEMMA StutterSlot ==
  ASSUME UNCHANGED <<trade, closed>>, Used' = Used
  PROVE  [Slot!Next]_<<trade, Used, closed>>
  OBVIOUS

LEMMA StepSlot ==
  ASSUME OInv, OInv', [Next]_vars
  PROVE  [Slot!Next]_<<trade, Used, closed>>
  <1>t. /\ TypeOK /\ CallShape /\ TradeBacked /\ Ids \subseteq Bound
        /\ resp \in Ids \cup {0} /\ 0 \notin Ids
      BY IdsWithin, IdsAre DEF OInv, TypeOK
  <1>h. OInv'
      OBVIOUS
  <1>j. (Ids \subseteq Bound)'
      BY <1>h, IdsWithin, PTL
  <1>i. Ids' \subseteq Bound
      BY <1>j DEF Bound
  <1>k. Kept /\ Ids \subseteq Ids'
      BY <1>t, NextShape, SameKept DEF Shape, vars, Kept
  <1>1. CASE UNCHANGED vars
    <2>1. UNCHANGED <<trade, closed>> /\ Used' = Used
        BY <1>1 DEF vars, callVars, book, Used, Filled, Ids
    <2> QED
        BY <2>1, StutterSlot
  <1>2. CASE Fill
    <2>1. PICK o \in Ids : orders[o].status \in Working /\ SetStatus(o, "complete")
        BY <1>2 DEF Fill
    <2>2. UNCHANGED callVars
        BY <1>2 DEF Fill
    <2>3. /\ Ids' = Ids
          /\ \A p \in Ids : /\ orders'[p].side = orders[p].side
                            /\ orders'[p].status = IF p = o THEN "complete" ELSE orders[p].status
        BY <1>t, <2>1, SetStatusKeeps DEF Ended
    <2>4. o \notin Filled("buy")
        BY <2>1 DEF Filled, Working
    <2>5. Filled("buy")' = IF orders[o].side = "buy" THEN Filled("buy") \cup {o} ELSE Filled("buy")
        BY <2>1, <2>3 DEF Filled
    <2>6. pc' = pc /\ resp' = resp /\ UNCHANGED book
        BY <2>2 DEF callVars
    <2>7. Used' = Used \/ (o \notin Used /\ Used' = Used \cup {o})
        BY <2>4, <2>5, <2>6 DEF Used
    <2> QED
        BY <1>i, <2>1, <2>3, <2>6, <2>7, MayStray
  <1>3. CASE Next /\ ~Fill
    <2>f. Filled("buy")' = Filled("buy")
        BY <1>3, <1>t, NoFillElsewhere
    <2>1. ASSUME UNCHANGED book,
                 \/ resp' = resp /\ (pc \in Entering <=> pc' \in Entering)
                 \/ resp = 0 /\ resp' \notin Filled("buy")
                 \/ pc' \notin Entering
                 \/ resp' \notin Filled("buy")
          PROVE  [Slot!Next]_<<trade, Used, closed>>
      <3>1. CASE resp \in Filled("buy")
        <4>1. Used' = Used \/ (resp \notin Used /\ Used' = Used \cup {resp})
            BY <1>t, <2>1, <2>f, <3>1 DEF Used
        <4>2. resp \in Ids'
            BY <1>k, <3>1 DEF Filled
        <4> QED
            BY <1>i, <2>1, <4>1, <4>2, MayStray
      <3>2. CASE resp \notin Filled("buy")
        <4>1. Used' = Used
            BY <1>t, <2>1, <2>f, <3>2 DEF Used
        <4>2. UNCHANGED <<trade, closed>>
            BY <2>1 DEF book
        <4> QED
            BY <4>1, <4>2, StutterSlot
      <3> QED
          BY <3>1, <3>2
    <2>z. 0 \notin Filled("buy") /\ Len(orders) + 1 \notin Filled("buy")
        BY <1>t, IdsAre DEF Filled
    <2>2. CASE Exchange
      <3>1. UNCHANGED callVars
          BY <2>2 DEF Exchange, BookOpens, Fill, Reject
      <3> QED
          BY <2>1, <3>1 DEF callVars
    <2>3. CASE BeginEntry \/ BeginExit
      <3>1. UNCHANGED book /\ resp' = 0
          BY <1>t, <2>3 DEF BeginEntry, BeginExit, CallShape
      <3> QED
          BY <2>1, <2>z, <3>1
    <2>4. CASE SendLimit \/ SendMarket \/ SendSell
      <3>1. UNCHANGED book
          BY <2>4 DEF SendLimit, SendMarket, SendSell, NextTry, NextSell, Go
      <3>2. resp' \in {resp, 0, Len(orders) + 1}
          BY <2>4 DEF SendLimit, SendMarket, SendSell, Accepted, AnswerLost, Refused, Return
      <3>3. resp' = resp => (pc \in Entering <=> pc' \in Entering) \/ pc' \notin Entering
          BY <2>4 DEF SendLimit, SendMarket, SendSell, NextTry, NextSell, Go, Return, Entering
      <3> QED
          BY <2>1, <2>z, <3>1, <3>2, <3>3
    <2>5. CASE CheckLimit \/ CancelLimit
      <3>1. UNCHANGED book /\ resp' = resp /\ pc \in Entering /\ pc' \in Entering
          BY <2>5 DEF CheckLimit, CancelLimit, NextTry, Go, Entering
      <3> QED
          BY <2>1, <3>1
    <2>6. CASE FinalCheck \/ Replace
      <3>1. /\ UNCHANGED book
            /\ (resp' = resp /\ pc \in Entering /\ pc' \in Entering) \/ resp' = 0
          BY <2>6 DEF FinalCheck, Replace, Go, Return, Entering
      <3> QED
          BY <2>1, <2>z, <3>1
    <2>7. CASE Poll
      <3>1. CASE trade' = resp /\ UNCHANGED <<closed, sales>> /\ orders[resp].status = "complete"
                 /\ Return
        <4>1. /\ trade = 0 /\ resp # 0 /\ resp \in Ids /\ resp \in Filled("buy")
            BY <1>t, <2>7, <3>1 DEF Poll, CallShape, Entering, Filled
        <4>2. resp \notin Used /\ Used' = Used \cup {resp}
            BY <2>7, <2>f, <3>1, <4>1 DEF Poll, Return, Used, Entering
        <4>3. Slot!Open(resp)
            BY <3>1, <4>1, <4>2 DEF Slot!Open, Used
        <4>4. resp \in Bound
            BY <1>t, <4>1
        <4> QED
            BY <4>3, <4>4 DEF Slot!Next, Bound
      <3>2. CASE UNCHANGED book /\ (resp' = 0 \/ (resp' = resp /\ pc' = "poll"))
          BY <2>1, <2>7, <2>z, <3>2 DEF Poll, Entering
      <3> QED
          BY <2>7, <3>1, <3>2 DEF Poll, PollAgain, Go, Return
    <2>8. CASE PollSell
      <3>1. CASE trade' = 0 /\ closed' = closed \cup {trade}
        <4>1. trade # 0 /\ pc \notin Entering
            BY <1>t, <2>8 DEF PollSell, CallShape, Exiting, Entering
        <4>2. Used' = Used
            BY <2>8, <2>f, <2>z, <3>1, <4>1 DEF PollSell, PollAgain, Go, Return, Used, Entering, book
        <4>3. Slot!Settle
            BY <3>1, <4>1, <4>2 DEF Slot!Settle, Used
        <4> QED
            BY <4>3 DEF Slot!Next
      <3>2. CASE UNCHANGED book /\ (resp' = 0 \/ (resp' = resp /\ pc' = "sellpoll"))
          BY <2>1, <2>8, <2>z, <3>2 DEF PollSell, Entering
      <3> QED
          BY <2>8, <3>1, <3>2 DEF PollSell, PollAgain, Go, Return
    <2> QED
        BY <1>3, <2>2, <2>3, <2>4, <2>5, <2>6, <2>7, <2>8 DEF Next, Entry, Exit
  <1> QED
      BY <1>1, <1>2, <1>3

LEMMA InitSlot == Init => trade = 0 /\ Used = {} /\ closed = {}
  <1>1. Init => Ids = {}
      BY InitShape, IdsAre DEF Init, Shape
  <1> QED
      BY <1>1 DEF Init, Used, Filled

\* The order calls implement the slot, as the session does: a trade enters it
\* once, from an order of its own, and leaves it settled.
THEOREM CallsImplementSlot == Spec => SlotImplemented
  <1>1. Init => Slot!Init
      BY InitSlot DEF Slot!Init, Used
  <1>2. OInv /\ OInv' /\ [Next]_vars => [Slot!Next]_<<trade, Used, closed>>
      BY StepSlot
  <1> QED
      BY <1>1, <1>2, OInvAlways, PTL DEF Spec, SlotImplemented, Slot!Spec, Used

-----------------------------------------------------------------------------
(* The exit ladder                                                          *)
\* Every rung the best price has reached is locked in, where trailing is on.
Locked == mode.trail => \A r \in Rungs : best >= r[1] => r[2] <= stop

\* A stop that was raised came from a rung the best price has reached.
Earned == stop = -HardSL \/ \E r \in Rungs : best >= r[1] /\ r[2] = stop

\* The last checked tick left the price above the stop.
Above == phase = "open" /\ watched => px > stop

\* What an exit of the engine recorded.
Honoured ==
  /\ why \in {"stop", "other"} => phase = "closed"
  /\ why \in {"stop", "other"} /\ watched => booked >= stop - (Move - 1) - Spread - Slippage

LInv == LadderTypeOK /\ Locked /\ Earned /\ Above /\ Honoured

-----------------------------------------------------------------------------
(* get_step_trailing_sl                                                     *)
\* Numbers with an upper bound have a greatest one.
LEMMA Greatest ==
  ASSUME NEW S, S \subseteq Int, S # {}, NEW b \in Int, \A k \in S : k <= b
  PROVE  \E l \in S : \A k \in S : k <= l
  <1> DEFINE T == {b - k : k \in S}
             R == OpToRel(<, Nat)
  <1>0. \A k \in S : k \in Int /\ b - k \in Nat
      OBVIOUS
  <1>1. T \subseteq Nat /\ T # {}
      BY <1>0, Zenon
  <1>2. IsWellFoundedOn(R, Nat)
      BY NatLessThanWellFounded
  <1>3. PICK x \in T : \A y \in T : ~(<<y, x>> \in R)
    <2> HIDE DEF T, R
    <2> QED
        BY <1>1, <1>2, WFMin
  <1>4. \A y \in T : ~(y < x)
      BY <1>1, <1>3 DEF OpToRel
  <1>5. PICK l \in S : x = b - l
      OBVIOUS
  <1>6. ASSUME NEW k \in S PROVE k <= l
    <2>1. b - k \in T
        OBVIOUS
    <2>2. ~(b - k < b - l)
        BY <1>4, <1>5, <2>1
    <2>3. k \in Int /\ l \in Int
        BY <1>0
    <2> QED
        BY <2>2, <2>3
  <1> QED
      BY <1>6

RungTypes == \A r \in Rungs : r[1] \in Nat /\ r[2] \in Nat /\ r[2] < r[1]

LEMMA RungsAre == RungTypes
  BY LadderAssumption DEF RungTypes

\* The new stop is the old one or a lock that was reached, and not below either.
LEMMA RaisedIs ==
  ASSUME NEW s \in Int, NEW m \in Int, NEW d
  PROVE  /\ Raised(s, m, d) \in Int /\ Raised(s, m, d) >= s
         /\ Raised(s, m, d) = s \/ \E r \in Rungs : m >= r[1] /\ Raised(s, m, d) = r[2]
         /\ \A r \in Rungs : m >= r[1] => r[2] <= Raised(s, m, d)
  <1> DEFINE S == {s} \cup {r[2] : r \in RungsReached(m)}
             b == IF m < s THEN s ELSE m
  <1>1. S \subseteq Int /\ S # {} /\ b \in Int /\ s \in S
      BY RungsAre DEF RungTypes, RungsReached
  <1>2. \A k \in S : k <= b
      BY RungsAre DEF RungTypes, RungsReached
  <1>3. \E l \in S : \A k \in S : k <= l
    <2> HIDE DEF S, b
    <2> QED
        BY <1>1, <1>2, Greatest
  <1>4. Raised(s, m, d) \in S /\ \A k \in S : k <= Raised(s, m, d)
      BY <1>3 DEF Raised
  <1>5. \A r \in Rungs : m >= r[1] => r[2] \in S
      BY DEF RungsReached
  <1>6. Raised(s, m, d) = s \/ \E r \in Rungs : m >= r[1] /\ Raised(s, m, d) = r[2]
      BY <1>4 DEF RungsReached
  <1> QED
      BY <1>1, <1>4, <1>5, <1>6

-----------------------------------------------------------------------------
LEMMA ConstantsAre ==
  /\ HardSL \in Nat \ {0} /\ Move \in Nat \ {0}
  /\ {MaxLoss, Reach, Spread, Slippage, HoldWin, HoldLose} \subseteq Nat
  BY LadderAssumption

LEMMA InitLInv == LadderInit => LInv
  <1> SUFFICES ASSUME LadderInit PROVE LInv
      OBVIOUS
  <1>1. LadderTypeOK
    <2>1. 0 \in Hours /\ 0 \in Prices /\ 0 \in 0..Reach
        BY ConstantsAre DEF Hours, Prices
    <2>2. stretched \in BOOLEAN /\ watched \in BOOLEAN
        BY Zenon DEF LadderInit
    <2> QED
        BY <2>1, <2>2 DEF LadderInit, LadderTypeOK
  <1>2. Locked /\ Earned
    <2>1. \A r \in Rungs : ~(0 >= r[1])
        BY RungsAre DEF RungTypes
    <2> QED
        BY <2>1 DEF LadderInit, Locked, Earned
  <1>3. Above /\ Honoured
      BY ConstantsAre DEF LadderInit, Above, Honoured
  <1> QED
      BY <1>1, <1>2, <1>3 DEF LInv

\* What a checked tick does to the best price and the stop.
LEMMA StopMoves ==
  ASSUME LInv, NEW d \in Prices
  PROVE  /\ NewBest(d) \in 0..Reach /\ NewBest(d) >= best
         /\ NewStop(d) \in Int /\ NewStop(d) >= stop
         /\ NewStop(d) \in {-HardSL} \cup {r[2] : r \in Rungs}
         /\ mode.trail => \A r \in Rungs : NewBest(d) >= r[1] => r[2] <= NewStop(d)
         /\ NewStop(d) = -HardSL \/ \E r \in Rungs : NewBest(d) >= r[1] /\ r[2] = NewStop(d)
         /\ NewStop(d) = stop \/ d > NewStop(d)
  <1>t. /\ LadderTypeOK /\ Locked /\ Earned /\ best \in 0..Reach
        /\ stop \in {-HardSL} \cup {r[2] : r \in Rungs}
      BY DEF LInv, LadderTypeOK
  <1>i. stop \in Int /\ best \in Int /\ d \in Int /\ Reach \in Nat /\ HardSL \in Nat /\ d <= Reach
      BY <1>t, ConstantsAre, RungsAre DEF RungTypes, Prices
  <1>1. NewBest(d) \in 0..Reach /\ NewBest(d) >= best /\ NewBest(d) = IF best < d THEN d ELSE best
      BY <1>t, <1>i DEF NewBest, Most
  <1>2. CASE ~mode.trail
    <2>1. NewStop(d) = stop
        BY <1>2 DEF NewStop
    <2>2. stop = -HardSL \/ \E r \in Rungs : NewBest(d) >= r[1] /\ r[2] = stop
        BY <1>1, <1>i, <1>t, RungsAre DEF Earned, RungTypes
    <2> QED
        BY <1>1, <1>2, <1>i, <1>t, <2>1, <2>2
  <1>3. CASE mode.trail
    <2> DEFINE n == NewStop(d)
    <2>1. /\ n \in Int /\ n >= stop
          /\ n = stop \/ \E r \in Rungs : NewBest(d) >= r[1] /\ n = r[2]
          /\ \A r \in Rungs : NewBest(d) >= r[1] => r[2] <= n
        BY <1>1, <1>3, <1>i, RaisedIs DEF NewStop
    <2> HIDE DEF n
    <2>2. n = -HardSL \/ \E r \in Rungs : NewBest(d) >= r[1] /\ r[2] = n
        BY <1>1, <1>i, <1>t, <2>1, RungsAre DEF Earned, RungTypes
    <2>3. n = stop \/ d > n
      <3>1. CASE best < d
          BY <1>1, <1>i, <2>1, <3>1, RungsAre DEF RungTypes
      <3>2. CASE ~(best < d)
          BY <1>1, <1>3, <1>i, <1>t, <2>1, <3>2 DEF Locked
      <3> QED
          BY <3>1, <3>2
    <2>4. n \in {-HardSL} \cup {r[2] : r \in Rungs}
        BY <2>2
    <2> QED
        BY <1>1, <1>3, <2>1, <2>2, <2>3, <2>4 DEF n
  <1> QED
      BY <1>2, <1>3

\* No exit books less than the price but for the spread and the slippage.
LEMMA BooksAtLeast ==
  ASSUME NEW d \in Int, NEW engine \in Int, NEW spread \in 0..Spread, NEW slip \in 0..Slippage
  PROVE  /\ Books(d, engine, spread, slip) \in Int
         /\ Books(d, engine, spread, slip) >= d - Spread - Slippage
  BY ConstantsAre DEF Books, Most

LEMMA MovesTypes ==
  ASSUME LadderTypeOK, Moves, Later
  PROVE  /\ px' \in Prices /\ px' \in Int /\ px \in Int /\ px' >= px - Move
         /\ held' \in Hours /\ pnl \in Int
  BY ConstantsAre DEF LadderTypeOK, Moves, Later, Hours, Prices, Least, Most

LEMMA CheckedLInv ==
  ASSUME LInv, Checked
  PROVE  LInv' /\ stop' >= stop
  <1>t. /\ LadderTypeOK /\ Above /\ Honoured /\ phase = "open" /\ mode' = mode
        /\ stop \in Int /\ {Move, Spread, Slippage} \subseteq Nat
      BY ConstantsAre, RungsAre DEF LInv, LadderTypeOK, Checked, RungTypes
  <1>m. /\ px' \in Prices /\ px' \in Int /\ px \in Int /\ px' >= px - Move /\ held' \in Hours
      BY <1>t, MovesTypes DEF Checked
  <1> DEFINE n == NewStop(px')
             c == NewBest(px')
  <1>1. best' = c /\ stop' = n
      BY DEF Checked
  <1>2. /\ c \in 0..Reach /\ n \in Int /\ n >= stop
        /\ n \in {-HardSL} \cup {r[2] : r \in Rungs}
        /\ mode.trail => \A r \in Rungs : c >= r[1] => r[2] <= n
        /\ n = -HardSL \/ \E r \in Rungs : c >= r[1] /\ r[2] = n
        /\ n = stop \/ px' > n
      BY <1>m, StopMoves
  <1>s. StopHit(px') <=> px' <= n
      BY DEF StopHit
  <1> HIDE DEF n, c
  <1>3. Locked' /\ Earned'
      BY <1>1, <1>2, <1>t DEF Locked, Earned
  <1>4. PICK r \in RSI, greeks \in GreekVerdicts, cut \in EarlyCuts :
          \/ /\ EngineExits(px', r, greeks, cut)
             /\ stretched' \in {stretched, stretched \/ Extreme(r)} /\ UNCHANGED watched
             /\ pnl' = Most(px', -MaxLoss)
             /\ Sold(px', pnl', IF StopHit(px') THEN "stop" ELSE "other") \/ NotSold
          \/ /\ ~EngineExits(px', r, greeks, cut) /\ pnl' = px'
             /\ stretched' = (stretched \/ Extreme(r)) /\ watched' = TRUE
             /\ UNCHANGED <<phase, why, booked>>
      BY DEF Checked
  <1>b. stretched' \in BOOLEAN
      BY <1>4, <1>t DEF LadderTypeOK, Extreme
  <1>p. pnl' \in Prices \cup {-MaxLoss} /\ pnl' \in Int
      BY <1>4, <1>m, ConstantsAre DEF Most
  <1>5. CASE /\ ~EngineExits(px', r, greeks, cut) /\ watched' = TRUE
             /\ UNCHANGED <<phase, why, booked>>
    <2>1. px' > n
        BY <1>2, <1>5, <1>m, <1>s DEF EngineExits
    <2>2. LadderTypeOK'
        BY <1>1, <1>2, <1>5, <1>b, <1>m, <1>p, <1>t DEF LadderTypeOK
    <2>3. Above' /\ Honoured'
        BY <1>1, <1>5, <1>t, <2>1 DEF Above, Honoured
    <2> QED
        BY <1>1, <1>2, <1>3, <2>2, <2>3 DEF LInv
  <1>6. CASE UNCHANGED watched /\ NotSold
    <2>1. LadderTypeOK'
        BY <1>1, <1>2, <1>6, <1>b, <1>m, <1>p, <1>t DEF LadderTypeOK, NotSold
    <2>2. Above' /\ Honoured'
        BY <1>6, <1>t DEF Above, Honoured, NotSold
    <2> QED
        BY <1>1, <1>2, <1>3, <2>1, <2>2 DEF LInv
  <1>7. CASE UNCHANGED watched /\ \E reason \in {"stop", "other"} : Sold(px', pnl', reason)
    <2>1. PICK reason \in {"stop", "other"}, spread \in 0..Spread, slip \in 0..Slippage :
            phase' = "closed" /\ why' = reason /\ booked' = Books(px', pnl', spread, slip)
        BY <1>7 DEF Sold
    <2>2. Books(px', pnl', spread, slip) \in Int
          /\ Books(px', pnl', spread, slip) >= px' - Spread - Slippage
        BY <1>m, <1>p, BooksAtLeast
    <2>3. watched => px' >= n - (Move - 1)
      <3>1. watched => px > stop
          BY <1>t DEF Above
      <3> QED
          BY <1>2, <1>m, <1>t, <3>1, ConstantsAre
    <2>4. LadderTypeOK'
        BY <1>1, <1>2, <1>7, <1>b, <1>m, <1>p, <1>t, <2>1, <2>2 DEF LadderTypeOK
    <2>5. watched => Books(px', pnl', spread, slip) >= n - (Move - 1) - Spread - Slippage
        BY <1>2, <1>m, <1>t, <2>2, <2>3
    <2>6. Above' /\ Honoured'
        BY <1>1, <1>7, <2>1, <2>5 DEF Above, Honoured
    <2> QED
        BY <1>1, <1>2, <1>3, <2>4, <2>6 DEF LInv
  <1> QED
      BY <1>4, <1>5, <1>6, <1>7

LEMMA OtherLInv ==
  ASSUME LInv, Skipped \/ Forced
  PROVE  LInv' /\ stop' >= stop
  <1>t. LadderTypeOK /\ Locked /\ Earned /\ Above /\ Honoured /\ stop \in Int
      BY ConstantsAre, RungsAre DEF LInv, LadderTypeOK, RungTypes
  <1>m. /\ px' \in Prices /\ px' \in Int /\ held' \in Hours /\ pnl \in Int
      BY <1>t, MovesTypes DEF Skipped, Forced
  <1>1. CASE Skipped
    <2>1. LadderTypeOK'
        BY <1>1, <1>m, <1>t DEF Skipped, LadderTypeOK
    <2>2. Above' /\ Honoured'
        BY <1>1, <1>t DEF Skipped, Above, Honoured
    <2> QED
        BY <1>1, <1>t, <2>1, <2>2 DEF Skipped, LInv, Locked, Earned
  <1>2. CASE Forced
    <2>u. UNCHANGED <<mode, best, stop, pnl, stretched, watched>>
        BY <1>2 DEF Forced
    <2>n. why \notin {"stop", "other"}
        BY <1>2, <1>t DEF Forced, Honoured
    <2>1. CASE NotSold
      <3>1. LadderTypeOK'
          BY <1>m, <1>t, <2>1, <2>u DEF NotSold, LadderTypeOK
      <3>2. Above' /\ Honoured'
          BY <2>1, <2>n DEF NotSold, Above, Honoured
      <3> QED
          BY <1>t, <2>u, <3>1, <3>2 DEF LInv, Locked, Earned
    <2>2. CASE Sold(px', pnl, "forced")
      <3>1. PICK spread \in 0..Spread, slip \in 0..Slippage :
              phase' = "closed" /\ why' = "forced" /\ booked' = Books(px', pnl, spread, slip)
          BY <2>2 DEF Sold
      <3>2. booked' \in Int
          BY <1>m, <3>1, BooksAtLeast
      <3>3. LadderTypeOK'
          BY <1>m, <1>t, <2>u, <3>1, <3>2 DEF LadderTypeOK
      <3>4. Above' /\ Honoured'
          BY <3>1 DEF Above, Honoured
      <3> QED
          BY <1>t, <2>u, <3>3, <3>4 DEF LInv, Locked, Earned
    <2> QED
        BY <1>2, <2>1, <2>2 DEF Forced
  <1> QED
      BY <1>1, <1>2

LEMMA StepLInv == LInv /\ [LadderNext]_ladderVars => LInv' /\ stop' >= stop
  <1>1. ASSUME LInv, UNCHANGED ladderVars PROVE LInv' /\ stop' >= stop
    <2>0. stop \in {-HardSL} \cup {r[2] : r \in Rungs}
        BY <1>1 DEF LInv, LadderTypeOK
    <2>1. stop \in Int
        BY <2>0, ConstantsAre, RungsAre DEF RungTypes
    <2> QED
        BY <1>1, <2>1 DEF ladderVars, LInv, LadderTypeOK, Locked, Earned, Above, Honoured
  <1> QED
      BY <1>1, CheckedLInv, OtherLInv DEF LadderNext

LEMMA LInvAlways == LadderSpec => []LInv
  BY InitLInv, StepLInv, PTL DEF LadderSpec

-----------------------------------------------------------------------------
\* Types; the stop is the hard one or the lock of a rung.
THEOREM LadderTypes == LadderSpec => []LadderTypeOK
  <1>1. LInv => LadderTypeOK
      BY DEF LInv
  <1> QED
      BY <1>1, LInvAlways, PTL

\* get_step_trailing_sl raises highest_sl or leaves it, whatever the ladder.
THEOREM StopOnlyRises == LadderSpec => StopNeverLoosens
  <1>1. LInv /\ [LadderNext]_ladderVars => [stop' >= stop]_ladderVars
      BY StepLInv
  <1> QED
      BY <1>1, LInvAlways, PTL DEF LadderSpec, StopNeverLoosens

\* The hard stop contains a loss and a lock keeps its profit: what an exit of the
\* engine books is short of the stop by one move, the spread and the slippage.
THEOREM StopKept == LadderSpec => []StopHonoured
  <1>1. LInv => StopHonoured
      BY DEF LInv, Honoured, StopHonoured
  <1> QED
      BY <1>1, LInvAlways, PTL

\* After a checked tick an open trade is above every lock its best price earned.
THEOREM LocksHeld == LadderSpec => []LocksKept
  <1>1. LInv => LocksKept
    <2> SUFFICES ASSUME LInv, phase = "open", watched, mode.trail, NEW r \in Rungs, best >= r[1]
                 PROVE  px > r[2]
        BY DEF LocksKept
    <2>1. px > stop /\ r[2] <= stop
        BY DEF LInv, Above, Locked
    <2>2. px \in Int /\ stop \in Int /\ r[2] \in Int
        BY ConstantsAre, RungsAre DEF LInv, LadderTypeOK, Prices, RungTypes
    <2> QED
        BY <2>1, <2>2
  <1> QED
      BY <1>1, LInvAlways, PTL
=============================================================================
