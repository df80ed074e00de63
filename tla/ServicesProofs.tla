---------------------------- MODULE ServicesProofs ----------------------------
(***************************************************************************)
(* Proofs about the services for every bound: the paper book never loses an *)
(* open virtual position and writes a result once unless a sweep took the row *)
(* from under the living process; what a logout leaves queued came in behind *)
(* it and each tick is in one candle; an update is applied or handed over. *)
(***************************************************************************)
EXTENDS Services, FiniteSetTheorems, TLAPS

\* The types the proofs need: TypeOK without the size of the dict.
Types ==
  /\ rows \in 0..MaxRows
  /\ st \in [Rows -> {"none", "open", "closed"}] /\ \A d \in Rows : st[d] = "none" <=> d > rows
  /\ age \in [Rows -> 0..MaxAge] /\ of \in [Rows -> Symbols]
  /\ book \subseteq 1..rows
  /\ pc \in {"idle", "put", "scan", "sweep", "down"}
  /\ todo \subseteq 1..rows /\ starts \in 0..MaxStarts
  /\ closes \in [Rows -> Nat] /\ orphans \subseteq Rows /\ swept \subseteq Rows

\* What a loop holds: a scan closes entries of the dict, a sweep rows that
\* are still open and as old as can be, and nothing else holds rows.
LoopHolds ==
  /\ pc = "scan" => todo \subseteq book
  /\ pc = "sweep" => \A d \in todo : st[d] = "open" /\ age[d] = MaxAge
  /\ ~Loops => todo = {}

\* Between the insert and the dict, the new row is open and not an entry;
\* a dead process has no entries.
Pending ==
  /\ pc = "put" => rows \in Rows /\ st[rows] = "open" /\ rows \notin book
  /\ pc = "down" => book = {}

\* How often a row was closed, from its status and whether it is an entry.
Counted ==
  \A d \in Rows :
    /\ st[d] # "closed" => closes[d] = 0
    /\ (st[d] = "closed" /\ d \in book) => (closes[d] = 1 /\ d \in swept)
    /\ st[d] = "closed" => closes[d] <= (IF d \in swept THEN 2 ELSE 1)

IInv == Types /\ LoopHolds /\ Pending /\ Counted /\ Tracked

USE PaperAssumption

LEMMA PaperInit == Init => IInv
<1>1. (CHOOSE s \in Symbols : TRUE) \in Symbols
  OBVIOUS
<1> QED
  BY <1>1 DEF Init, IInv, Types, LoopHolds, Pending, Counted, Tracked, Rows, Open, Loops

LEMMA RecordKeeps == IInv /\ Record => IInv'
<1> SUFFICES ASSUME IInv, Record PROVE IInv'
  OBVIOUS
<1> USE DEF IInv, Record, Inserted, history
<1>1. Types'
  BY DEF Types, Rows
<1>2. LoopHolds' /\ Pending'
  BY DEF Types, LoopHolds, Pending, Loops, Rows
<1>3. Counted'
  BY DEF Types, Counted, Rows
<1>4. Tracked'
  BY DEF Types, Tracked, Open, Rows
<1> QED
  BY <1>1, <1>2, <1>3, <1>4

LEMMA PutKeeps == IInv /\ Put => IInv'
<1> SUFFICES ASSUME IInv, Put PROVE IInv'
  OBVIOUS
<1> USE DEF IInv, Put, disk, history
<1>1. Types'
  BY DEF Types, Pending, Rows
<1>2. LoopHolds' /\ Pending'
  BY DEF LoopHolds, Pending, Loops
<1>3. Counted'
  BY DEF Counted, Pending
<1>4. Tracked'
  BY DEF Tracked, Open, Rows
<1> QED
  BY <1>1, <1>2, <1>3, <1>4

LEMMA CloseKeeps == IInv /\ Close => IInv'
<1> SUFFICES ASSUME IInv, Close PROVE IInv'
  OBVIOUS
<1>1. PICK d \in todo :
        /\ todo' = todo \ {d} /\ book' = LeftBook(d)
        /\ st' = [st EXCEPT ![d] = "closed"] /\ closes' = [closes EXCEPT ![d] = @ + 1]
        /\ swept' = IF pc = "sweep" /\ d \in book THEN swept \cup {d} ELSE swept
  BY DEF Close, Written
<1>2. d \in Rows /\ d <= rows
  BY DEF IInv, Types, Rows
<1> USE <1>1, <1>2 DEF IInv, Close, LeftBook
<1>3. Types'
  BY DEF Types, Rows
<1>4. LoopHolds' /\ Pending'
  BY DEF Types, LoopHolds, Pending, Loops, Rows
<1>5. Counted'
  BY DEF Types, LoopHolds, Counted, Loops, Rows
<1>6. Tracked'
  BY DEF Types, Tracked, Loops, Open, Rows
<1> QED
  BY <1>3, <1>4, <1>5, <1>6

LEMMA DiesKeeps == IInv /\ Dies => IInv'
BY DEF IInv, Dies, Types, LoopHolds, Pending, Counted, Tracked, Rows, Open, Loops, disk

LEMMA TickKeeps == IInv /\ Tick => IInv'
<1> SUFFICES ASSUME IInv, Tick PROVE IInv'
  OBVIOUS
<1> USE DEF IInv, Tick, history
<1>1. Types'
  <2>1. \A d \in Rows : age[d] \in 0..MaxAge
    BY DEF Types
  <2>2. \A d \in Rows : (IF d \in Open /\ age[d] < MaxAge THEN age[d] + 1 ELSE age[d]) \in 0..MaxAge
    BY <2>1
  <2>3. age' \in [Rows -> 0..MaxAge]
    BY <2>2
  <2> QED
    BY <2>3 DEF Types
<1>2. LoopHolds' /\ Pending'
  BY DEF Types, LoopHolds, Pending, Loops, Rows
<1>3. Counted' /\ Tracked'
  BY DEF Counted, Tracked, Open, Rows
<1> QED
  BY <1>1, <1>2, <1>3

LEMMA OthersKeep == IInv /\ (Scan \/ CloseFails \/ LoopEnds \/ Main) => IInv'
<1> SUFFICES ASSUME IInv, Scan \/ CloseFails \/ LoopEnds \/ Main PROVE IInv'
  OBVIOUS
<1> USE DEF IInv, disk, history
<1>1. CASE Scan
  <2>1. todo' \subseteq book
    BY <1>1 DEF Scan, Exits
  <2> QED
    BY <1>1, <2>1 DEF Scan, Types, LoopHolds, Pending, Counted, Tracked, Open, Loops, Rows
<1>2. CASE CloseFails
  BY <1>2 DEF CloseFails, Types, LoopHolds, Pending, Counted, Tracked, Open, Loops
<1>3. CASE LoopEnds
  BY <1>3 DEF LoopEnds, Types, LoopHolds, Pending, Counted, Tracked, Open, Loops
<1>4. CASE Main
  <2>1. \A d \in Stale : d \in 1..rows /\ st[d] = "open" /\ age[d] = MaxAge
    BY DEF Stale, Open, Types, Rows
  <2> QED
    BY <1>4, <2>1 DEF Main, Types, LoopHolds, Pending, Counted, Tracked, Open, Loops
<1> QED
  BY <1>1, <1>2, <1>3, <1>4

LEMMA PaperStep == IInv /\ [Next]_vars => IInv'
<1> SUFFICES ASSUME IInv, [Next]_vars PROVE IInv'
  OBVIOUS
<1>1. CASE UNCHANGED vars
  BY <1>1 DEF vars, disk, history, IInv, Types, LoopHolds, Pending, Counted, Tracked, Open, Loops
<1>2. CASE Next
  BY <1>2, RecordKeeps, PutKeeps, CloseKeeps, DiesKeeps, TickKeeps, OthersKeep DEF Next
<1> QED
  BY <1>1, <1>2

LEMMA PaperInvariant == Spec => []IInv
BY PaperInit, PaperStep, PTL DEF Spec

\* The cap of the dict is a fact about Record alone: every other step
\* leaves the dict's size as it is or makes it smaller.
CapInv == IsFiniteSet(book) /\ Cardinality(book) <= Cap /\ (pc = "put" => Cardinality(book) < Cap)

LEMMA CapStep == IInv /\ CapInv /\ [Next]_vars => CapInv'
<1> SUFFICES ASSUME IInv, CapInv, [Next]_vars PROVE CapInv'
  OBVIOUS
<1> USE DEF CapInv
<1>0. Cardinality(book) \in Nat
  BY FS_CardinalityType
<1>1. CASE Put
  <2>1. rows \notin book
    BY <1>1 DEF Put, IInv, Pending
  <2>2. IsFiniteSet(book \cup {rows}) /\ Cardinality(book \cup {rows}) = Cardinality(book) + 1
    BY <2>1, FS_AddElement
  <2> QED
    BY <1>0, <1>1, <2>2 DEF Put
<1>2. CASE Close
  <2>1. book' \subseteq book /\ pc' # "put"
    BY <1>2 DEF Close, LeftBook, Loops
  <2>2. IsFiniteSet(book') /\ Cardinality(book') <= Cardinality(book)
    BY <2>1, FS_Subset
  <2>3. Cardinality(book') \in Nat
    BY <2>2, FS_CardinalityType
  <2> QED
    BY <1>0, <2>1, <2>2, <2>3
<1>3. CASE Dies
  BY <1>3, FS_EmptySet DEF Dies
<1>4. CASE Record
  BY <1>4 DEF Record, Inserted, history
<1>5. CASE Scan \/ CloseFails \/ LoopEnds \/ Main \/ Tick \/ UNCHANGED vars
  BY <1>5 DEF Scan, CloseFails, LoopEnds, Main, Tick, vars, disk, history
<1> QED
  BY <1>1, <1>2, <1>3, <1>4, <1>5 DEF Next

LEMMA CapInvariant == Spec => []CapInv
<1>1. Init => CapInv
  BY FS_EmptySet DEF Init, CapInv
<1> QED
  BY <1>1, CapStep, PaperInvariant, PTL DEF Spec

\* Types, and the dict of virtual positions never exceeds its cap.
THEOREM PaperTypes == Spec => []TypeOK
<1>1. IInv /\ CapInv => TypeOK
  BY DEF IInv, CapInv, Types, TypeOK
<1> QED
  BY <1>1, PaperInvariant, CapInvariant, PTL

\* No open virtual position of the living process is ever forgotten.
THEOREM PaperTracked == Spec => []Tracked
BY PaperInvariant, PTL DEF IInv

\* A virtual result is written once, twice only after a sweep took the row.
THEOREM PaperClosedOnce == Spec => []ClosedOnce
<1>1. IInv => ClosedOnce
  BY DEF IInv, Types, Counted, ClosedOnce
<1> QED
  BY <1>1, PaperInvariant, PTL

\* The sweep of a reconnect spares what is younger than the longest hold.
THEOREM PaperYoungSurvive == Spec => YoungSurvive
<1>1. ASSUME IInv, [Next]_vars, pc = "sweep", NEW d \in Open, age[d] < MaxAge
      PROVE  st'[d] = "open"
  <2>1. d \in Rows /\ st[d] = "open" /\ d \notin todo
    BY <1>1 DEF IInv, Types, LoopHolds, Open, Rows
  <2>2. CASE Close
    BY <1>1, <2>1, <2>2 DEF Close, Written, IInv, Types
  <2>3. CASE ~Close
    <3>1. UNCHANGED st
      BY <1>1, <2>3 DEF Next, Record, Put, Scan, CloseFails, LoopEnds, Main, Dies, Tick, vars, disk
    <3> QED
      BY <2>1, <3>1
  <2> QED
    BY <2>2, <2>3
<1>2. IInv /\ [Next]_vars => [pc = "sweep" => \A d \in Open : age[d] < MaxAge => st'[d] = "open"]_vars
  BY <1>1
<1> QED
  BY <1>2, PaperInvariant, PTL DEF Spec, YoungSurvive


\* A virtual trade is neither forgotten nor, but for a sweep, booked again.
THEOREM PaperExact == Spec => []BookExact
  BY PaperTracked, PaperClosedOnce, PTL DEF BookExact

-----------------------------------------------------------------------------
(* The Telegram link: updates are handled before they are dropped.          *)

LinkTypes ==
  /\ sent \in Seq({"stop", "resume", "other"})
  /\ {confirmed, here, by} \subseteq Nat /\ bots \in Nat \ {0}
  /\ last \in [Link!Bots -> Nat] /\ at \in [Link!Bots -> Nat] /\ polled \in [Link!Bots -> Nat]

\* Whatever a worker has passed, or the server dropped, has been handled by some
\* worker of this process or of an earlier one.
Passed ==
  /\ Link!NothingLost
  /\ \A b \in Link!Bots : \A u \in 1..at[b] : u \in handled
  /\ \A b \in Link!Bots : \A u \in 1..last[b] : u \in handled

\* Nobody is ahead of what the operator has sent.
Behind ==
  /\ confirmed <= Len(sent) /\ here <= Len(sent)
  /\ \A b \in Link!Bots : at[b] <= polled[b] /\ polled[b] <= Len(sent) /\ last[b] <= Len(sent)

\* The only worker of a process goes on from what the process handled last.
Onwards == bots = 1 =>
  /\ by <= here /\ last[1] = here
  /\ here # 0 => at[1] = here
  /\ at[1] # polled[1] \/ here # 0 => confirmed <= at[1]

LinkInv == LinkTypes /\ Passed /\ Behind /\ Onwards /\ Link!NewestRules

LEMMA LinkStarts == Link!Init => LinkInv
  <1> SUFFICES ASSUME Link!Init PROVE LinkInv
      OBVIOUS
  <1> USE ServicesAssumption DEF Link!Init
  <1>1. sent = <<>> /\ sent \in Seq({"stop", "resume", "other"}) /\ Len(sent) = 0
      OBVIOUS
  <1>2. 1 \in Link!Bots
      BY DEF Link!Bots
  <1> QED
      BY <1>1, <1>2
      DEF LinkInv, LinkTypes, Passed, Behind, Onwards, Link!NothingLost, Link!NewestRules

LEMMA PollKeeps ==
  ASSUME LinkInv, NEW b \in Link!Bots, Link!Poll(b)
  PROVE  LinkInv'
  <1> USE ServicesAssumption
  <1>t. LinkTypes /\ Passed /\ Behind /\ Onwards /\ Link!NewestRules
      BY DEF LinkInv
  <1>1. /\ confirmed' = (IF confirmed > last[b] THEN confirmed ELSE last[b])
        /\ at' = [at EXCEPT ![b] = confirmed'] /\ polled' = [polled EXCEPT ![b] = Len(sent)]
        /\ UNCHANGED <<sent, bots, last, manual, by, handled, here, crashes>>
        /\ b <= bots /\ at[b] = polled[b]
      BY DEF Link!Poll, Link!Later, Link!Offset
  <1>2. confirmed' \in Nat /\ Len(sent) \in Nat
      BY <1>1, <1>t DEF LinkTypes
  <1>3. LinkTypes'
      BY <1>1, <1>2, <1>t DEF LinkTypes
  <1>4. Passed'
      BY <1>1, <1>t DEF LinkTypes, Passed, Link!NothingLost
  <1>5. Behind'
      BY <1>1, <1>2, <1>t DEF LinkTypes, Behind
  <1>6. Onwards'
      BY <1>1, <1>2, <1>t DEF LinkTypes, Onwards, Link!Bots
  <1>7. Link!NewestRules'
      BY <1>1, <1>t DEF Link!NewestRules
  <1> QED
      BY <1>3, <1>4, <1>5, <1>6, <1>7 DEF LinkInv

LEMMA HandleKeeps ==
  ASSUME LinkInv, NEW b \in Link!Bots, Link!Handle(b)
  PROVE  LinkInv'
  <1> USE ServicesAssumption
  <1>t. LinkTypes /\ Passed /\ Behind /\ Onwards /\ Link!NewestRules
      BY DEF LinkInv
  <1> DEFINE n == at[b] + 1
  <1>1. /\ b <= bots /\ at[b] < polled[b]
        /\ at' = [at EXCEPT ![b] = n] /\ last' = [last EXCEPT ![b] = n]
        /\ handled' = handled \cup {n} /\ here' = (IF here > n THEN here ELSE n)
        /\ IF sent[n] = "other" THEN UNCHANGED <<manual, by>>
           ELSE manual' = (sent[n] = "stop") /\ by' = n
        /\ UNCHANGED <<sent, confirmed, bots, polled, crashes>>
      BY DEF Link!Handle, Link!Advanced, Link!Later
  <1>2. n \in Nat /\ n >= 1 /\ n <= polled[b] /\ polled[b] <= Len(sent)
      BY <1>1, <1>t DEF LinkTypes, Behind
  <1> HIDE DEF n
  <1>3. LinkTypes'
      BY <1>1, <1>2, <1>t DEF LinkTypes
  <1>4. Passed'
    <2>1. \A u \in 1..n : u \in handled'
        BY <1>1, <1>2, <1>t DEF LinkTypes, Passed, n
    <2> QED
        BY <1>1, <1>t, <2>1 DEF LinkTypes, Passed, Link!NothingLost
  <1>5. Behind'
      BY <1>1, <1>2, <1>t DEF LinkTypes, Behind
  <1>6. ASSUME bots = 1
        PROVE  b = 1 /\ here' = n /\ here < n /\ (here # 0 => n = here + 1) /\ confirmed <= n
      BY <1>1, <1>6, <1>t DEF LinkTypes, Onwards, Link!Bots, n
  <1>7. Onwards'
      BY <1>1, <1>2, <1>6, <1>t DEF LinkTypes, Onwards, Link!Bots
  <1>8. Link!NewestRules'
    <2> SUFFICES ASSUME bots = 1, by' # 0, NEW u \in by' + 1..here' PROVE sent[u] = "other"
        BY <1>1 DEF Link!NewestRules
    <2>1. here' = n /\ here < n /\ (here # 0 => n = here + 1) /\ by <= here
        BY <1>6, <1>t DEF Onwards
    <2>2. here \in Nat /\ by \in Nat
        BY <1>t DEF LinkTypes
    <2>3. CASE sent[n] = "other"
      <3>1. by' = by /\ n = here + 1
          BY <1>1, <2>1, <2>2, <2>3
      <3>2. u = n \/ u \in by + 1..here
          BY <2>1, <2>2, <3>1
      <3> QED
          BY <1>t, <2>3, <3>1, <3>2 DEF Link!NewestRules
    <2>4. CASE sent[n] # "other"
        BY <1>1, <1>2, <2>1, <2>4
    <2> QED
        BY <2>3, <2>4
  <1> QED
      BY <1>3, <1>4, <1>5, <1>7, <1>8 DEF LinkInv

LEMMA SendsKeeps ==
  ASSUME LinkInv, Link!OperatorSends
  PROVE  LinkInv'
  <1>t. LinkTypes /\ Passed /\ Behind /\ Onwards /\ Link!NewestRules
      BY DEF LinkInv
  <1>1. PICK c \in {"stop", "resume", "other"} : sent' = Append(sent, c)
      BY DEF Link!OperatorSends
  <1>2. UNCHANGED <<confirmed, bots, last, at, polled, manual, by, handled, here, crashes>>
      BY DEF Link!OperatorSends
  <1>3. /\ sent' \in Seq({"stop", "resume", "other"}) /\ Len(sent') = Len(sent) + 1
        /\ \A u \in 1..Len(sent) : sent'[u] = sent[u]
        /\ Len(sent) \in Nat
      BY <1>1, <1>t DEF LinkTypes
  <1>4. LinkTypes' /\ Passed' /\ Onwards'
      BY <1>2, <1>3, <1>t DEF LinkTypes, Passed, Onwards, Link!NothingLost
  <1>5. Behind'
      BY <1>2, <1>3, <1>t DEF LinkTypes, Behind
  <1>6. Link!NewestRules'
    <2> SUFFICES ASSUME bots = 1, by # 0, NEW u \in by + 1..here PROVE sent'[u] = "other"
        BY <1>2 DEF Link!NewestRules
    <2>1. u \in 1..Len(sent)
        BY <1>3, <1>t DEF LinkTypes, Behind
    <2> QED
        BY <1>3, <1>t, <2>1 DEF Link!NewestRules
  <1> QED
      BY <1>4, <1>5, <1>6 DEF LinkInv

LEMMA LinkKeeps == LinkInv /\ [Link!Next]_linkVars => LinkInv'
  <1> SUFFICES ASSUME LinkInv, [Link!Next]_linkVars PROVE LinkInv'
      OBVIOUS
  <1> USE ServicesAssumption
  <1>t. LinkTypes /\ Passed /\ Behind /\ Onwards /\ Link!NewestRules
      BY DEF LinkInv
  <1>1. CASE Link!OperatorSends
      BY <1>1, SendsKeeps
  <1>2. CASE Link!MainAgain
      BY <1>2, <1>t
      DEF Link!MainAgain, LinkInv, LinkTypes, Passed, Behind, Onwards, Link!NothingLost,
          Link!NewestRules
  <1>3. CASE Link!Restart
    <2>1. Len(sent) \in Nat /\ 1 \in Link!Bots
        BY <1>t DEF LinkTypes, Link!Bots
    <2> QED
        BY <1>3, <1>t, <2>1
        DEF Link!Restart, LinkInv, LinkTypes, Passed, Behind, Onwards, Link!NothingLost,
            Link!NewestRules
  <1>4. ASSUME NEW b \in Link!Bots, Link!Poll(b) \/ Link!Handle(b) PROVE LinkInv'
      BY <1>4, PollKeeps, HandleKeeps
  <1>5. CASE UNCHANGED linkVars
      BY <1>5, <1>t
      DEF linkVars, LinkInv, LinkTypes, Passed, Behind, Onwards, Link!NothingLost,
          Link!NewestRules
  <1> QED
      BY <1>1, <1>2, <1>3, <1>4, <1>5 DEF Link!Next

\* An update leaves the server only handled, and the only worker of a process
\* obeys the newest command, for any number of workers, crashes and updates
\* (_bg_worker and _handle_update of telegram_bot.py).
THEOREM UpdatesAreKept == SvcSpec => []UpdatesKept
  <1>1. SvcInit => LinkInv
      BY LinkStarts DEF SvcInit
  <1>2. [SvcNext]_svcVars => [Link!Next]_linkVars
      BY DEF SvcNext, BookMoves, BookStep, RecorderMoves, RecordStep, LinkMoves, LinkStep, svcVars
  <1>3. LinkInv => UpdatesKept
      BY DEF LinkInv, Passed, UpdatesKept
  <1> QED
      BY <1>1, <1>2, <1>3, LinkKeeps, PTL DEF SvcSpec

-----------------------------------------------------------------------------
(* The recorder: what logout() has flushed, and in which candle a tick is.  *)

Candle  == [bucket : Nat, of : SUBSET Nat]
Blank   == Record5m!NoCandle
Drawn   == closed \cup {current}
Flushed == {"candles", "close", "out"}   \* logout() has drained the candles
Emptied == Flushed \cup {"ticks", "drained"}

RecTypes ==
  /\ {ticks, logouts, flushedAt, drainedAt} \subseteq Nat /\ bucket \in Nat \ {0}
  /\ current \in Candle /\ closed \subseteq Candle
  /\ held \in {"none", "current", "detached"}
  /\ tickQ \in Seq(Nat) /\ candleQ \in Seq(Candle)
  /\ main \in {"runs", "stop", "join"} \cup Emptied

\* The tick in hand is the last one, and it goes into a candle that exists or
\* into one that was closed under it.
Handed ==
  /\ held # "none" => ticks > 0
  /\ held = "current" => current.bucket # 0
  /\ held = "detached" => current = Blank

\* What came in before logout() looked has left the queues.
TicksFlushed ==
  /\ drainedAt <= ticks
  /\ main \in Emptied =>
       /\ \A i \in 1..Len(tickQ) : tickQ[i] > drainedAt
       /\ held # "none" => ticks > drainedAt
CandlesFlushed ==
  /\ flushedAt <= ticks
  /\ main # "runs" =>
       /\ \A t \in current.of : t > flushedAt
       /\ held = "current" => ticks > flushedAt
  /\ main \in Flushed => \A i \in 1..Len(candleQ) : \A t \in candleQ[i].of : t > flushedAt

\* Candles have no tick in common, and every tick but the torn ones has one.
Parted ==
  /\ \A c \in Drawn : c.of \subseteq 1..ticks
  /\ held # "none" => \A c \in Drawn : ticks \notin c.of
  /\ \A c, d \in closed : c.of \cap d.of # {} => c = d
  /\ \A c \in closed : c.of \cap current.of = {}
  /\ \A t \in 1..ticks \ torn : ~Record5m!InHand(t) => \E c \in Drawn : t \in c.of

\* A logout tears at most the tick in hand.
Torn ==
  /\ IsFiniteSet(torn)
  /\ Cardinality(torn) + (IF held = "detached" THEN 1 ELSE 0) <= logouts

RecInv == RecTypes /\ Handed /\ TicksFlushed /\ CandlesFlushed /\ Parted /\ Torn

LEMMA RecorderStarts == Record5m!Init => RecInv
  <1> SUFFICES ASSUME Record5m!Init PROVE RecInv
      OBVIOUS
  <1> USE DEF Record5m!Init, Record5m!NoCandle, Blank, Candle
  <1>1. RecTypes /\ Handed
      BY DEF RecTypes, Handed, Emptied
  <1>2. TicksFlushed /\ CandlesFlushed /\ Parted
      BY DEF TicksFlushed, CandlesFlushed, Parted, Drawn, Flushed, Emptied
  <1>3. Torn
      BY FS_EmptySet DEF Torn
  <1> QED
      BY <1>1, <1>2, <1>3 DEF RecInv

\* The instance counts as this module does.
LEMMA SameCardinality ==
  ASSUME NEW S PROVE Record5m!Cardinality(S) = Cardinality(S)
  BY DEF Record5m!Cardinality, Cardinality

\* A bounded put adds its element or nothing.
LEMMA PutAdds ==
  ASSUME NEW S, NEW q \in Seq(S), NEW x \in S
  PROVE  /\ Record5m!Put(q, x) \in Seq(S)
         /\ \A i \in 1..Len(Record5m!Put(q, x)) :
              Record5m!Put(q, x)[i] = x \/ \E j \in 1..Len(q) : Record5m!Put(q, x)[i] = q[j]
  BY DEF Record5m!Put

\* The candle in progress leaves for the closed ones.
LEMMA ClosesCandle ==
  ASSUME RecInv, closed' = closed \cup {current}, current'.of = {}, ticks' \in Nat,
         ticks <= ticks', torn' = torn, current' \in Candle
  PROVE  /\ \A c \in Drawn' : c.of \subseteq 1..ticks'
         /\ \A c \in Drawn' : c.of \subseteq 1..ticks
         /\ \A c, d \in closed' : c.of \cap d.of # {} => c = d
         /\ \A c \in closed' : c.of \cap current'.of = {}
         /\ \A c \in Drawn : \E d \in Drawn' : d.of = c.of
         /\ \A d \in Drawn' : d.of = {} \/ \E c \in Drawn : d.of = c.of
  BY DEF RecInv, RecTypes, Parted, Drawn

LEMMA ArrivesKeeps ==
  ASSUME RecInv, Record5m!TickArrives
  PROVE  RecInv'
  <1>t. RecTypes /\ Handed /\ TicksFlushed /\ CandlesFlushed /\ Parted /\ Torn
      BY DEF RecInv
  <1>0. /\ held = "none" /\ held' = "current" /\ ticks' = ticks + 1 /\ Record5m!Rolls
        /\ UNCHANGED <<bucket, tickQ, main, torn, logouts, flushedAt, drainedAt>>
      BY DEF Record5m!TickArrives, Record5m!clockVars
  <1>1. \/ /\ UNCHANGED <<current, closed, candleQ>> /\ current.bucket = bucket
        \/ /\ current = Blank /\ UNCHANGED <<closed, candleQ>>
           /\ current' = [bucket |-> bucket, of |-> {}]
        \/ /\ closed' = closed \cup {current} /\ candleQ' = Record5m!Put(candleQ, current)
           /\ current' = [bucket |-> bucket, of |-> {}]
      BY <1>0 DEF Record5m!Rolls, Record5m!Closes, Blank
  <1>2. current' \in Candle /\ current'.bucket # 0 /\ (current' = current \/ current'.of = {})
      BY <1>1, <1>t DEF RecTypes, Candle
  <1>3. candleQ' \in Seq(Candle) /\ closed' \subseteq Candle
      BY <1>1, <1>t, PutAdds DEF RecTypes
  <1>4. RecTypes' /\ Handed'
      BY <1>0, <1>2, <1>3, <1>t DEF RecTypes, Handed
  <1>5. TicksFlushed'
      BY <1>0, <1>t DEF RecTypes, TicksFlushed
  <1>6. CandlesFlushed'
    <2>1. flushedAt' <= ticks' /\ ticks' > flushedAt'
        BY <1>0, <1>t DEF RecTypes, CandlesFlushed
    <2>2. main' # "runs" => \A t \in current'.of : t > flushedAt'
        BY <1>0, <1>2, <1>t DEF CandlesFlushed
    <2>3. ASSUME main' \in Flushed, NEW i \in 1..Len(candleQ'), NEW t \in candleQ'[i].of
          PROVE  t > flushedAt'
      <3>1. candleQ'[i] = current \/ \E j \in 1..Len(candleQ) : candleQ'[i] = candleQ[j]
        <4>1. CASE candleQ' = candleQ
            BY <2>3, <4>1
        <4>2. CASE candleQ' = Record5m!Put(candleQ, current)
          <5>1. candleQ \in Seq(Candle) /\ current \in Candle
              BY <1>t DEF RecTypes
          <5> QED
              BY <2>3, <4>2, <5>1 DEF Record5m!Put
        <4> QED
            BY <1>1, <4>1, <4>2
      <3>2. main # "runs"
          BY <1>0, <2>3 DEF Flushed
      <3> QED
          BY <1>0, <1>t, <2>3, <3>1, <3>2 DEF CandlesFlushed
    <2> QED
        BY <2>1, <2>2, <2>3 DEF CandlesFlushed
  <1>7. /\ \A c, d \in closed' : c.of \cap d.of # {} => c = d
        /\ \A c \in closed' : c.of \cap current'.of = {}
        /\ \A c \in Drawn : \E d \in Drawn' : d.of = c.of \/ c.of = {}
        /\ \A d \in Drawn' : d.of = {} \/ \E c \in Drawn : d.of = c.of
    <2>1. CASE UNCHANGED <<current, closed>>
        BY <1>t, <2>1 DEF Parted, Drawn
    <2>2. CASE current = Blank /\ closed' = closed /\ current' = [bucket |-> bucket, of |-> {}]
        BY <1>t, <2>2 DEF Parted, Drawn, Blank, Record5m!NoCandle
    <2>3. CASE closed' = closed \cup {current} /\ current' = [bucket |-> bucket, of |-> {}]
        BY <1>0, <1>2, <1>t, <2>3, ClosesCandle DEF RecTypes
    <2> QED
        BY <1>1, <2>1, <2>2, <2>3
  <1>8. Parted'
    <2>1. \A d \in Drawn' : d.of \subseteq 1..ticks
        BY <1>7, <1>t DEF Parted
    <2>2. \A d \in Drawn' : d.of \subseteq 1..ticks' /\ ticks' \notin d.of
        BY <1>0, <1>t, <2>1 DEF RecTypes
    <2>3. ASSUME NEW t \in 1..ticks' \ torn', ~(held' # "none" /\ t = ticks')
          PROVE  \E d \in Drawn' : t \in d.of
      <3>1. t \in 1..ticks \ torn /\ ~Record5m!InHand(t)
          BY <1>0, <1>t, <2>3 DEF RecTypes, Record5m!InHand
      <3>2. PICK c \in Drawn : t \in c.of
          BY <1>t, <3>1 DEF Parted
      <3> QED
          BY <1>7, <3>2
    <2> QED
        BY <1>7, <2>2, <2>3 DEF Parted, Record5m!InHand
  <1>9. Torn'
      BY <1>0, <1>t DEF Torn
  <1> QED
      BY <1>4, <1>5, <1>6, <1>8, <1>9 DEF RecInv

LEMMA CountedKeeps ==
  ASSUME RecInv, Record5m!TickCounted
  PROVE  RecInv'
  <1>t. RecTypes /\ Handed /\ TicksFlushed /\ CandlesFlushed /\ Parted /\ Torn
      BY DEF RecInv
  <1>0. /\ held # "none" /\ held' = "none" /\ tickQ' = Record5m!Put(tickQ, ticks)
        /\ UNCHANGED <<ticks, bucket, closed, candleQ, main, logouts, flushedAt, drainedAt>>
        /\ \/ /\ held = "current" /\ torn' = torn
              /\ current' = [current EXCEPT !.of = @ \cup {ticks}]
           \/ /\ held = "detached" /\ torn' = torn \cup {ticks} /\ current' = current
      BY <1>t DEF Record5m!TickCounted, Record5m!clockVars, RecTypes
  <1>1. /\ current' \in Candle /\ current'.of \subseteq current.of \cup {ticks}
        /\ current.of \subseteq current'.of
        /\ held = "current" => ticks \in current'.of
      BY <1>0, <1>t DEF RecTypes, Candle
  <1>2. tickQ' \in Seq(Nat) /\ \A i \in 1..Len(tickQ') :
          tickQ'[i] = ticks \/ \E j \in 1..Len(tickQ) : tickQ'[i] = tickQ[j]
    <2>1. tickQ \in Seq(Nat) /\ ticks \in Nat
        BY <1>t DEF RecTypes
    <2> QED
        BY <1>0, <2>1 DEF Record5m!Put
  <1>3. RecTypes' /\ Handed'
      BY <1>0, <1>1, <1>2, <1>t DEF RecTypes, Handed
  <1>4. TicksFlushed'
      BY <1>0, <1>2, <1>t DEF TicksFlushed
  <1>5. CandlesFlushed'
    <2>1. main # "runs" => \A t \in current'.of : t > flushedAt
      <3>1. CASE held = "current"
          BY <1>1, <1>t, <3>1 DEF CandlesFlushed
      <3>2. CASE held # "current"
          BY <1>0, <1>t, <3>2 DEF CandlesFlushed
      <3> QED
          BY <3>1, <3>2
    <2> QED
        BY <1>0, <1>t, <2>1 DEF CandlesFlushed
  <1>6. Parted'
    <2>1. /\ \A c \in Drawn' : c.of \subseteq 1..ticks
          /\ \A c \in closed : ticks \notin c.of
        BY <1>0, <1>1, <1>t DEF RecTypes, Parted, Handed, Drawn
    <2>2. \A c \in closed' : c.of \cap current'.of = {}
        BY <1>0, <1>1, <1>t, <2>1 DEF Parted
    <2>3. ASSUME NEW t \in 1..ticks' \ torn'
          PROVE  \E c \in Drawn' : t \in c.of
      <3>1. CASE t = ticks
          BY <1>0, <1>1, <2>3, <3>1 DEF Drawn
      <3>2. CASE t # ticks
        <4>1. t \in 1..ticks \ torn /\ ~Record5m!InHand(t)
            BY <1>0, <2>3, <3>2 DEF Record5m!InHand
        <4>2. PICK c \in Drawn : t \in c.of
            BY <1>t, <4>1 DEF Parted
        <4> QED
            BY <1>0, <1>1, <4>2 DEF Drawn
      <3> QED
          BY <3>1, <3>2
    <2> QED
        BY <1>0, <1>t, <2>1, <2>2, <2>3 DEF Parted, Drawn
  <1>7. Torn'
    <2>1. CASE held = "current"
        BY <1>0, <1>t, <2>1 DEF Torn
    <2>2. CASE held = "detached"
      <3>1. torn' = torn \cup {ticks} /\ Cardinality(torn) + 1 <= logouts /\ IsFiniteSet(torn)
          BY <1>0, <1>t, <2>2 DEF Torn
      <3>2. /\ IsFiniteSet(torn \cup {ticks}) /\ Cardinality(torn) \in Nat
            /\ Cardinality(torn \cup {ticks}) =
                 IF ticks \in torn THEN Cardinality(torn) ELSE Cardinality(torn) + 1
          BY <3>1, FS_AddElement, FS_CardinalityType
      <3> QED
          BY <1>0, <1>t, <3>1, <3>2 DEF RecTypes, Torn
    <2> QED
        BY <1>0, <2>1, <2>2
  <1> QED
      BY <1>3, <1>4, <1>5, <1>6, <1>7 DEF RecInv

LEMMA FlushKeeps ==
  ASSUME RecInv, Record5m!CandleFlushed
  PROVE  RecInv'
  <1>t. RecTypes /\ Handed /\ TicksFlushed /\ CandlesFlushed /\ Parted /\ Torn
      BY DEF RecInv
  <1>0. /\ main = "runs" /\ main' = "stop" /\ logouts' = logouts + 1 /\ flushedAt' = ticks
        /\ UNCHANGED <<ticks, bucket, torn, tickQ, drainedAt>>
      BY DEF Record5m!CandleFlushed
  <1>1. CASE current = Blank
    <2>1. UNCHANGED <<current, closed, candleQ, held>>
        BY <1>1 DEF Record5m!CandleFlushed, Blank
    <2>2. held # "current" /\ current.of = {}
        BY <1>1, <1>t DEF Handed, Blank, Record5m!NoCandle
    <2>3. RecTypes' /\ Handed' /\ TicksFlushed' /\ CandlesFlushed'
        BY <1>0, <1>t, <2>1, <2>2
        DEF RecTypes, Handed, TicksFlushed, CandlesFlushed, Flushed, Emptied
    <2>4. Parted'
        BY <1>0, <1>t, <2>1 DEF Parted, Drawn, Record5m!InHand
    <2>5. Torn'
        BY <1>0, <1>t, <2>1, FS_CardinalityType DEF Torn, RecTypes
    <2> QED
        BY <2>3, <2>4, <2>5 DEF RecInv
  <1>2. CASE current # Blank
    <2>1. /\ closed' = closed \cup {current} /\ candleQ' = Record5m!Put(candleQ, current)
          /\ current' = Blank /\ held' = (IF held = "none" THEN "none" ELSE "detached")
        BY <1>2 DEF Record5m!CandleFlushed, Record5m!Closes, Blank
    <2>2. current' \in Candle /\ current'.of = {}
        BY <2>1 DEF Blank, Record5m!NoCandle, Candle
    <2>3. candleQ' \in Seq(Candle)
        BY <1>t, <2>1, PutAdds DEF RecTypes
    <2>4. RecTypes' /\ Handed' /\ TicksFlushed' /\ CandlesFlushed'
        BY <1>0, <1>t, <2>1, <2>2, <2>3
        DEF RecTypes, Handed, TicksFlushed, CandlesFlushed, Flushed, Emptied
    <2>5. Parted'
      <3>1. /\ \A c \in Drawn' : c.of \subseteq 1..ticks'
            /\ \A c, d \in closed' : c.of \cap d.of # {} => c = d
            /\ \A c \in closed' : c.of \cap current'.of = {}
            /\ \A c \in Drawn : \E d \in Drawn' : d.of = c.of
            /\ \A d \in Drawn' : d.of = {} \/ \E c \in Drawn : d.of = c.of
          BY <1>0, <1>t, <2>1, <2>2, ClosesCandle DEF RecTypes
      <3>2. held' # "none" => held # "none"
          BY <2>1
      <3>3. held' # "none" => \A d \in Drawn' : ticks \notin d.of
          BY <1>t, <3>1, <3>2 DEF Parted
      <3>4. ASSUME NEW t \in 1..ticks \ torn, ~(held' # "none" /\ t = ticks)
            PROVE  \E d \in Drawn' : t \in d.of
        <4>1. ~Record5m!InHand(t)
            BY <2>1, <3>4 DEF Record5m!InHand
        <4>2. PICK c \in Drawn : t \in c.of
            BY <1>t, <3>4, <4>1 DEF Parted
        <4> QED
            BY <3>1, <4>2
      <3> QED
          BY <1>0, <3>1, <3>3, <3>4 DEF Parted, Record5m!InHand
    <2>6. Torn'
        BY <1>0, <1>2, <1>t, <2>1, FS_CardinalityType DEF Torn, RecTypes, Handed
    <2> QED
        BY <2>4, <2>5, <2>6 DEF RecInv
  <1> QED
      BY <1>1, <1>2

\* A step that leaves the candles and the tick in hand alone keeps their facts.
LEMMA CandlesStay ==
  ASSUME RecInv, UNCHANGED <<ticks, current, held, closed, torn, logouts>>
  PROVE  Handed' /\ Parted' /\ Torn'
  BY DEF RecInv, Handed, Parted, Torn, Drawn, Record5m!InHand

\* The writer thread empties queues and fills nothing.
LEMMA WriterKeeps ==
  ASSUME RecInv, Record5m!WriterFlushes \/ Record5m!WriterEnds \/ Record5m!BucketTurns
  PROVE  RecInv'
  <1>t. RecTypes /\ TicksFlushed /\ CandlesFlushed
      BY DEF RecInv
  <1>1. /\ UNCHANGED <<ticks, current, held, closed, torn, logouts, main, flushedAt, drainedAt>>
        /\ tickQ' \in {tickQ, <<>>} /\ candleQ' \in {candleQ, <<>>}
        /\ bucket' \in {bucket, bucket + 1}
    <2>1. CASE Record5m!WriterFlushes
        BY <2>1
        DEF Record5m!WriterFlushes, Record5m!DrainsTicks, Record5m!WritesTicks,
            Record5m!DrainsCandles, Record5m!WritesCandles, Record5m!feedVars,
            Record5m!clockVars, Record5m!diskVars
    <2>2. CASE Record5m!WriterEnds \/ Record5m!BucketTurns
        BY <2>2
        DEF Record5m!WriterEnds, Record5m!BucketTurns, Record5m!feedVars, Record5m!clockVars
    <2> QED
        BY <2>1, <2>2
  <1>2. Handed' /\ Parted' /\ Torn'
      BY <1>1, CandlesStay
  <1>3. RecTypes'
    <2>1. /\ <<>> \in Seq(Nat) /\ <<>> \in Seq(Candle)
          /\ tickQ \in Seq(Nat) /\ candleQ \in Seq(Candle)
        BY <1>t DEF RecTypes
    <2>2. tickQ' \in Seq(Nat) /\ candleQ' \in Seq(Candle)
        BY <1>1, <2>1, Zenon
    <2>3. bucket' \in Nat \ {0}
        BY <1>1, <1>t DEF RecTypes
    <2> QED
        BY <1>1, <1>t, <2>2, <2>3 DEF RecTypes
  <1>4. TicksFlushed' /\ CandlesFlushed'
      BY <1>1, <1>t DEF TicksFlushed, CandlesFlushed
  <1> QED
      BY <1>2, <1>3, <1>4 DEF RecInv

\* logout() drains the ticks, then the candles; the login only starts again.
LEMMA MainKeeps ==
  ASSUME RecInv,
         \/ Record5m!WriterStopped \/ Record5m!MainFlushes
         \/ Record5m!SocketStops \/ Record5m!LoginAgain
  PROVE  RecInv'
  <1>t. RecTypes /\ Handed /\ TicksFlushed /\ CandlesFlushed
      BY DEF RecInv
  <1>1. UNCHANGED <<ticks, bucket, current, held, closed, torn, logouts, flushedAt>>
      BY DEF Record5m!WriterStopped, Record5m!MainFlushes, Record5m!SocketStops,
             Record5m!LoginAgain, Record5m!MainStays, Record5m!DrainsTicks,
             Record5m!WritesTicks, Record5m!DrainsCandles, Record5m!WritesCandles,
             Record5m!feedVars, Record5m!clockVars, Record5m!diskVars
  <1>2. Handed' /\ Parted' /\ Torn'
      BY <1>1, CandlesStay
  <1>3. \/ /\ main = "stop" /\ main' = "join" /\ UNCHANGED <<tickQ, candleQ, drainedAt>>
        \/ /\ main = "join" /\ main' = "ticks" /\ tickQ' = <<>> /\ UNCHANGED candleQ
           /\ drainedAt' = (IF held = "none" THEN ticks ELSE ticks - 1)
        \/ /\ main = "ticks" /\ main' = "drained" /\ UNCHANGED <<tickQ, candleQ, drainedAt>>
        \/ /\ main = "drained" /\ main' = "candles" /\ candleQ' = <<>>
           /\ UNCHANGED <<tickQ, drainedAt>>
        \/ /\ main = "candles" /\ main' = "close" /\ UNCHANGED <<tickQ, candleQ, drainedAt>>
        \/ /\ main = "close" /\ main' = "out" /\ UNCHANGED <<tickQ, candleQ, drainedAt>>
        \/ /\ main = "out" /\ main' = "runs" /\ UNCHANGED <<tickQ, candleQ, drainedAt>>
      BY DEF Record5m!WriterStopped, Record5m!MainFlushes, Record5m!SocketStops,
             Record5m!LoginAgain, Record5m!MainStays, Record5m!DrainsTicks,
             Record5m!WritesTicks, Record5m!DrainsCandles, Record5m!WritesCandles,
             Record5m!feedVars, Record5m!clockVars, Record5m!diskVars
  <1>4. RecTypes'
    <2>1. /\ <<>> \in Seq(Nat) /\ <<>> \in Seq(Candle)
          /\ tickQ \in Seq(Nat) /\ candleQ \in Seq(Candle)
        BY <1>t DEF RecTypes
    <2>2. tickQ' \in Seq(Nat) /\ candleQ' \in Seq(Candle)
        BY <1>3, <2>1, Zenon
    <2>3. drainedAt' \in Nat
        BY <1>3, <1>t DEF RecTypes, Handed
    <2>4. main' \in {"runs", "stop", "join"} \cup Emptied
        BY <1>3 DEF Emptied, Flushed
    <2> QED
        BY <1>1, <1>t, <2>2, <2>3, <2>4 DEF RecTypes
  <1>5. TicksFlushed'
      BY <1>1, <1>3, <1>t DEF RecTypes, Handed, TicksFlushed, Emptied, Flushed
  <1>6. CandlesFlushed'
      BY <1>1, <1>3, <1>t DEF CandlesFlushed, Flushed
  <1> QED
      BY <1>2, <1>4, <1>5, <1>6 DEF RecInv

LEMMA RecorderKeeps == RecInv /\ [Record5m!Next]_recVars => RecInv'
  <1> SUFFICES ASSUME RecInv, [Record5m!Next]_recVars PROVE RecInv'
      OBVIOUS
  <1>1. CASE Record5m!Next
      BY <1>1, ArrivesKeeps, CountedKeeps, FlushKeeps, WriterKeeps, MainKeeps
      DEF Record5m!Next
  <1>2. CASE UNCHANGED recVars
      BY <1>2
      DEF recVars, RecInv, RecTypes, Handed, TicksFlushed, CandlesFlushed, Parted, Torn, Drawn,
          Record5m!InHand
  <1> QED
      BY <1>1, <1>2

\* Whatever the writer, the join that times out, the failed writes and the tick
\* in hand do, a logout leaves nothing queued that came in before it looked, and
\* each tick is in one candle but for one torn tick a logout (logout of broker.py,
\* tick_writer.py, OHLCVAggregator).
THEOREM RecordIsComplete == SvcSpec => []RecordComplete
  <1>1. SvcInit => RecInv
      BY RecorderStarts DEF SvcInit
  <1>2. [SvcNext]_svcVars => [Record5m!Next]_recVars
      BY DEF SvcNext, BookMoves, BookStep, RecorderMoves, RecordStep, LinkMoves, LinkStep, svcVars
  <1>3. ASSUME RecInv PROVE RecordComplete
    <2>1. Record5m!CleanShutdown
      <3> SUFFICES ASSUME main \in {"close", "out"}
                   PROVE  /\ \A t \in 1..ticks : Record5m!Queued(t) => t > drainedAt
                          /\ \A c \in {current} \cup {candleQ[i] : i \in 1..Len(candleQ)} :
                               \A t \in c.of : t > flushedAt
          BY DEF Record5m!CleanShutdown
      <3>1. main \in Emptied /\ main \in Flushed /\ main # "runs"
          BY DEF Emptied, Flushed
      <3>2. \A t \in 1..ticks : Record5m!Queued(t) => t > drainedAt
          BY <1>3, <3>1 DEF RecInv, TicksFlushed, Record5m!Queued
      <3>3. \A c \in {current} \cup {candleQ[i] : i \in 1..Len(candleQ)} :
              \A t \in c.of : t > flushedAt
          BY <1>3, <3>1 DEF RecInv, CandlesFlushed
      <3> QED
          BY <3>2, <3>3
    <2>2. ASSUME NEW t \in 1..ticks \ torn, ~Record5m!InHand(t)
          PROVE  Cardinality({c \in Drawn : t \in c.of}) = 1
      <3>1. PICK c \in Drawn : t \in c.of
          BY <1>3, <2>2 DEF RecInv, Parted
      <3>2. \A d \in Drawn : t \in d.of => d = c
          BY <1>3, <3>1 DEF RecInv, Parted, Drawn
      <3>3. {d \in Drawn : t \in d.of} = {c}
          BY <3>1, <3>2
      <3> QED
          BY <3>3, FS_Singleton
    <2>3. Cardinality(torn) <= logouts
        BY <1>3, FS_CardinalityType DEF RecInv, RecTypes, Torn
    <2>4. Record5m!Covered
      <3> SUFFICES ASSUME NEW t \in 1..ticks \ torn, ~Record5m!InHand(t)
                   PROVE  Cardinality({c \in closed \cup {current} : t \in c.of}) = 1
          BY <2>3, SameCardinality DEF Record5m!Covered
      <3>1. Cardinality({c \in Drawn : t \in c.of}) = 1
          BY <2>2
      <3> QED
          BY <3>1 DEF Drawn
    <2> QED
        BY <2>1, <2>4 DEF RecordComplete
  <1> QED
      BY <1>1, <1>2, <1>3, RecorderKeeps, PTL DEF SvcSpec

\* The paper book in its run beside the other services.
THEOREM BookStaysExact == SvcSpec => []BookExact
  <1>1. SvcInit => Init
      BY DEF SvcInit
  <1>2. [SvcNext]_svcVars => [Next]_vars
      BY DEF SvcNext, BookMoves, BookStep, RecorderMoves, RecordStep, LinkMoves, LinkStep, svcVars
  <1> QED
      BY <1>1, <1>2, PaperExact, PTL DEF SvcSpec, Spec

=============================================================================
