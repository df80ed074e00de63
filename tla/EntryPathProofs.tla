------------------------- MODULE EntryPathProofs -------------------------
(***************************************************************************)
(* Whatever contracts, passes and reconnects there are, the tick that      *)
(* get_tick serves is of the contract it names and an open trade's feed is *)
(* on its contract, with the exceptions the properties name; an order is   *)
(* sent on its own signal, in time, for the contract that was checked; and *)
(* a decision is explained by the stage that turned its direction away.    *)
(***************************************************************************)
EXTENDS EntryPath, Sequences, FiniteSetTheorems, WellFoundedInduction, TLAPS

\* Between the change of current_symbol and the clearing of the old tick.
Switching == pc \in {"token", "resub", "clear"}

\* The token is that of the symbol, or unknown, once the switch has read it.
TokenRead == pc # "token" => tok \in {sym, None}

\* Outside a switch the stored tick is honest and so is the one being stored,
\* unless a switch has left the stream alone.
Stays == \/ Switching \/ skipped
         \/ Honest(last) /\ (inflight = None \/ inflight = sym \/ tok = None)

Followed == trade # None => sym = trade \/ adrift

CInv == /\ TypeOK /\ TokenRead /\ Stays /\ Followed
        /\ Honest(cached) /\ Honest(tick)

\* What the properties need of the ticks.
TicksOK == TokenRead /\ Stays /\ Honest(cached) /\ Honest(tick)

-----------------------------------------------------------------------------
LEMMA HonestPrices ==
  /\ Honest(NoTick) /\ Honest(Own) /\ Honest(Simulated)
  /\ NoTick \in Ticks
  /\ sym \in Contracts => Own \in Ticks /\ Simulated \in Ticks
  /\ \A s \in Contracts, c \in Contracts, b \in BOOLEAN : Price(s, c, b) \in Ticks
  BY DEF Honest, NoTick, Own, Simulated, Price, Ticks

LEMMA InitCInv == Init => CInv
  <1> SUFFICES ASSUME Init PROVE CInv
      OBVIOUS
  <1> USE ContractAssumption
  <1>1. join \in [at : {"off", "start", "ready"}, tok : Contracts \cup {None}]
      BY DEF Init, Off
  <1>2. {conn, adrift, skipped} \subseteq BOOLEAN
      BY Zenon DEF Init
  <1>3. last \in Ticks /\ cached \in Ticks /\ tick \in Ticks
      BY HonestPrices DEF Init
  <1>4. jobs \in 0..MaxJobs /\ joins \in 0..MaxJoins
      BY DEF Init
  <1>5. TypeOK
      BY <1>1, <1>2, <1>3, <1>4 DEF Init, TypeOK
  <1>6. TokenRead /\ Stays /\ Followed /\ Honest(cached) /\ Honest(tick)
      BY HonestPrices DEF Init, TokenRead, Stays, Followed
  <1> QED
      BY <1>5, <1>6 DEF CInv

-----------------------------------------------------------------------------
(* Types.                                                                   *)
LEMMA StreamTypes == TypeOK /\ Stream => TypeOK'
  <1> SUFFICES ASSUME TypeOK, Stream PROVE TypeOK'
      OBVIOUS
  <1> USE ContractAssumption DEF TypeOK, caches, held, call, result
  <1>1. CASE WsAccept
      BY <1>1 DEF WsAccept
  <1>2. CASE WsStore
    <2>1. last' \in Ticks
        BY <1>2, HonestPrices DEF WsStore, Locked
    <2>2. skipped' \in BOOLEAN
        BY <1>2 DEF WsStore
    <2> QED
        BY <1>2, <2>1, <2>2 DEF WsStore
  <1>3. CASE Drop
    <2>1. subs' \subseteq Contracts /\ {conn', adrift', skipped'} \subseteq BOOLEAN
        BY <1>3 DEF Drop
    <2> QED
        BY <1>3, <2>1 DEF Drop
  <1>4. CASE JoinStart
      BY <1>4 DEF JoinStart
  <1>5. CASE JoinSubscribed
    <2>1. last' = NoTick /\ cached' = NoTick /\ skipped' = FALSE
        BY <1>5 DEF JoinSubscribed, ClearTick, Stored
    <2>2. join' \in [at : {"off", "start", "ready"}, tok : Contracts \cup {None}]
        BY <1>5 DEF JoinSubscribed
    <2>3. subs' \subseteq Contracts
        BY <1>5 DEF JoinSubscribed
    <2> QED
        BY <1>5, <2>1, <2>2, <2>3, HonestPrices DEF JoinSubscribed
  <1>6. CASE JoinEnds
    <2>1. conn' \in BOOLEAN /\ join' \in [at : {"off", "start", "ready"}, tok : Contracts \cup {None}]
        BY <1>6 DEF JoinEnds, Off
    <2> QED
        BY <1>6, <2>1 DEF JoinEnds
  <1> QED
      BY <1>1, <1>2, <1>3, <1>4, <1>5, <1>6 DEF Stream

\* A tick that is served is one the memory holds or a new price.
LEMMA AskTypes == TypeOK /\ (Begin \/ Ask) => TypeOK'
  <1> SUFFICES ASSUME TypeOK, Begin \/ Ask PROVE TypeOK'
      OBVIOUS
  <1> USE ContractAssumption DEF TypeOK, caches, held, call, result, feed
  <1>o. NoTick \in Ticks /\ Own \in Ticks /\ Simulated \in Ticks
      BY HonestPrices
  <1>1. CASE Begin
      BY <1>1 DEF Begin
  <1>2. CASE AskStream
    <2>1. [last EXCEPT !.blind = @ \/ skipped] \in Ticks
        BY DEF Ticks
    <2> QED
        BY <1>2, <2>1 DEF AskStream, Got
  <1>3. CASE AskStale
      BY <1>3, <1>o DEF AskStale, Stored, Got
  <1>4. CASE AskMismatch
    <2>1. last' \in Ticks /\ cached' \in Ticks /\ tick' \in Ticks
        BY <1>4, <1>o DEF AskMismatch, Stored, Got
    <2>2. skipped' \in BOOLEAN /\ pc' \in {"got"}
        BY <1>4 DEF AskMismatch, Stored, Got
    <2> QED
        BY <1>4, <2>1, <2>2 DEF AskMismatch, Got
  <1>5. CASE AskRest
    <2>1. adrift' \in BOOLEAN
        BY <1>5 DEF AskRest
    <2> QED
        BY <1>5, <2>1 DEF AskRest, Switch
  <1>6. CASE Fetch
      BY <1>6, <1>o DEF Fetch, Got
  <1> QED
      BY <1>1, <1>2, <1>3, <1>4, <1>5, <1>6 DEF Ask

LEMMA ContractTypes == TypeOK /\ Contract => TypeOK'
  <1> SUFFICES ASSUME TypeOK, Contract PROVE TypeOK'
      OBVIOUS
  <1> USE ContractAssumption DEF TypeOK, caches, held, call, result
  <1>o. NoTick \in Ticks
      BY HonestPrices
  <1>c. ClearTick => last' = NoTick /\ skipped' = FALSE
      BY DEF ClearTick, Stored
  <1>s. Streamed /\ Subscribed =>
          subs' \subseteq Contracts /\ cached' = NoTick /\ last' = NoTick /\ skipped' = FALSE /\ conn' = conn
      BY <1>c DEF Streamed, Subscribed
  <1>n. NotSubscribed => subs' \subseteq Contracts /\ cached' = cached /\ conn' \in BOOLEAN
      BY DEF NotSubscribed
  <1>1. CASE ReadToken
      BY <1>1 DEF ReadToken
  <1>2. CASE ResubRotate
    <2>1. subs' \subseteq Contracts /\ cached' \in Ticks /\ last' \in Ticks
          /\ skipped' \in BOOLEAN /\ conn' \in BOOLEAN
        BY <1>2, <1>o, <1>s, <1>n DEF ResubRotate
    <2> QED
        BY <1>2, <2>1 DEF ResubRotate
  <1>3. CASE ResubAdjust
    <2>1. subs' \subseteq Contracts /\ cached' \in Ticks /\ last' \in Ticks
          /\ skipped' \in BOOLEAN /\ conn' \in BOOLEAN
        BY <1>3, <1>o, <1>c, <1>s, <1>n DEF ResubAdjust
    <2> QED
        BY <1>3, <2>1 DEF ResubAdjust
  <1>4. CASE ResubOrder
    <2>1. subs' \subseteq Contracts /\ cached' \in Ticks /\ last' \in Ticks
          /\ skipped' \in BOOLEAN /\ conn' \in BOOLEAN
        BY <1>4, <1>o, <1>c, <1>s, <1>n DEF ResubOrder
    <2> QED
        BY <1>4, <1>o, <2>1 DEF ResubOrder, Done
  <1>5. CASE Rotated
      BY <1>5, <1>o, <1>c DEF Rotated, Done
  <1> QED
      BY <1>1, <1>2, <1>3, <1>4, <1>5 DEF Contract

LEMMA PassTypes == TypeOK /\ Passes => TypeOK'
  <1> SUFFICES ASSUME TypeOK, Passes PROVE TypeOK'
      OBVIOUS
  <1> USE ContractAssumption DEF TypeOK, caches, held, call, result, feed
  <1>o. NoTick \in Ticks /\ Own \in Ticks
      BY HonestPrices
  <1>1. CASE Scan
      BY <1>1, <1>o DEF Scan, Done, Switch
  <1>2. CASE Sync
      BY <1>2, <1>o DEF Sync, Done
  <1>3. CASE Enter
    <2>1. entry' \in Contracts \cup {None, Sim} /\ cached' \in Ticks
        BY <1>3, <1>o DEF Enter, Bought, Ticks
    <2>2. adrift' \in BOOLEAN /\ trade' \in Contracts \cup {None}
        BY <1>3 DEF Enter, Bought
    <2> QED
        BY <1>3, <1>o, <2>1, <2>2 DEF Enter, Bought, Done
  <1>4. CASE Hold
      BY <1>4, <1>o DEF Hold, Done, Switch, Closed, Kept
  <1>5. CASE Close
      BY <1>5, <1>o DEF Close, Done, Closed, Kept
  <1> QED
      BY <1>1, <1>2, <1>3, <1>4, <1>5 DEF Passes

-----------------------------------------------------------------------------
(* The contract that a price is of.                                         *)
\* What the ticks' honesty looks at.
LEMMA SameTicks ==
  ASSUME TicksOK, UNCHANGED <<sym, tok, held, cached, inflight, pc, tick>>
  PROVE  TicksOK'
  BY DEF TicksOK, TokenRead, Stays, Switching, Honest, held

LEMMA StreamTicks == TypeOK /\ TicksOK /\ Stream => TicksOK'
  <1> SUFFICES ASSUME TypeOK, TicksOK, Stream PROVE TicksOK'
      OBVIOUS
  <1> USE ContractAssumption DEF caches, held, call, result
  <1>t. TokenRead /\ Stays /\ Honest(cached) /\ Honest(tick)
      BY DEF TicksOK
  <1>1. CASE WsAccept
    <2>1. Stays'
        BY <1>1, <1>t DEF WsAccept, Locked, Stays, Switching, TokenRead, Honest
    <2> QED
        BY <1>1, <1>t, <2>1 DEF WsAccept, TicksOK, TokenRead, Honest
  <1>2. CASE WsStore
    <2>u. UNCHANGED <<sym, tok, pc, cached, tick>> /\ inflight' = None /\ inflight # None
        BY <1>2 DEF WsStore, Locked
    <2>1. ASSUME ~Switching, ~skipped' PROVE Honest(last)'
      <3>1. tok \in {sym, None} /\ (inflight = sym \/ tok = None)
          BY <1>2, <1>t, <2>1, <2>u DEF WsStore, Stays, TokenRead, Switching
      <3>2. last' = [sym |-> sym, of |-> inflight, blind |-> (tok = None)]
          BY <1>2 DEF WsStore, Price
      <3>3. last'.of = last'.sym \/ last'.blind
          BY <3>1, <3>2
      <3> QED
          BY <3>3 DEF Honest
    <2>2. Stays'
        BY <2>1, <2>u DEF Stays, Switching
    <2> QED
        BY <1>t, <2>2, <2>u DEF TicksOK, TokenRead, Honest
  <1>3. CASE Drop \/ JoinStart \/ JoinEnds
      BY <1>3, SameTicks DEF Drop, JoinStart, JoinEnds
  <1>4. CASE JoinSubscribed
    <2>1. /\ last' = NoTick /\ cached' = NoTick /\ inflight' = None
          /\ UNCHANGED <<sym, tok, pc, tick>>
        BY <1>4 DEF JoinSubscribed, ClearTick, Stored, Locked
    <2> QED
        BY <1>t, <2>1, HonestPrices DEF TicksOK, TokenRead, Stays, Honest
  <1> QED
      BY <1>1, <1>2, <1>3, <1>4 DEF Stream

LEMMA AskTicks == TypeOK /\ TicksOK /\ (Begin \/ Ask) => TicksOK'
  <1> SUFFICES ASSUME TypeOK, TicksOK, Begin \/ Ask PROVE TicksOK'
      OBVIOUS
  <1> USE ContractAssumption DEF caches, held, call, result, feed
  <1>t. TokenRead /\ Stays /\ Honest(cached) /\ Honest(tick)
      BY DEF TicksOK
  <1>1. CASE Begin
      BY <1>1, <1>t DEF Begin, TicksOK, TokenRead, Stays, Switching, Honest
  <1>2. CASE AskStream
    <2>1. pc = "ask" /\ pc' = "got" /\ UNCHANGED feed /\ tick' = [last EXCEPT !.blind = @ \/ skipped]
        BY <1>2 DEF AskStream, Got
    <2>2. Honest(last) \/ skipped
        BY <1>t, <2>1 DEF Stays, Switching
    <2>3. tick'.of = last.of /\ tick'.sym = last.sym /\ tick'.blind = (last.blind \/ skipped)
        BY <2>1 DEF TypeOK, Ticks
    <2>4. Honest(tick)'
        BY <2>2, <2>3 DEF Honest
    <2> QED
        BY <1>t, <2>1, <2>4 DEF TicksOK, TokenRead, Stays, Switching, Honest
  <1>3. CASE AskStale \/ AskMismatch
    <2>1. /\ UNCHANGED <<sym, tok, inflight>> /\ pc = "ask" /\ pc' = "got" /\ inflight = None
          /\ tick' \in {Own, NoTick, cached} /\ cached' \in {Own, NoTick, cached}
          /\ last' \in {Own, NoTick, cached} \/ (last' = last /\ skipped' = skipped)
        BY <1>3 DEF AskStale, AskMismatch, Got, Stored, Locked
    <2>2. Honest(tick)' /\ Honest(cached)'
        BY <1>t, <2>1, HonestPrices DEF Honest
    <2>3. Honest(last)' \/ skipped'
        BY <1>t, <2>1, HonestPrices DEF Honest, Stays, Switching
    <2> QED
        BY <1>t, <2>1, <2>2, <2>3 DEF TicksOK, TokenRead, Stays
  <1>4. CASE AskRest
    <2>1. UNCHANGED <<tok, held, cached, inflight, tick>> /\ pc = "ask"
          /\ (pc' = "token" \/ (pc' = "fetch" /\ sym' = sym))
        BY <1>4 DEF AskRest, Switch
    <2> QED
        BY <1>t, <2>1 DEF TicksOK, TokenRead, Stays, Switching, Honest
  <1>5. CASE Fetch
    <2>1. /\ UNCHANGED <<sym, tok, held, inflight>> /\ pc = "fetch" /\ pc' = "got"
          /\ tick' \in {Own, Simulated, cached} /\ cached' \in {Own, cached}
        BY <1>5 DEF Fetch, Got
    <2>2. Honest(tick)' /\ Honest(cached)'
        BY <1>t, <2>1, HonestPrices DEF Honest
    <2> QED
        BY <1>t, <2>1, <2>2 DEF TicksOK, TokenRead, Stays, Switching, Honest
  <1> QED
      BY <1>1, <1>2, <1>3, <1>4, <1>5 DEF Ask

LEMMA ContractTicks == TypeOK /\ TicksOK /\ Contract => TicksOK'
  <1> SUFFICES ASSUME TypeOK, TicksOK, Contract PROVE TicksOK'
      OBVIOUS
  <1> USE ContractAssumption DEF caches, held, call, result
  <1>t. TokenRead /\ Stays /\ Honest(cached) /\ Honest(tick)
      BY DEF TicksOK
  <1>c. ClearTick => last' = NoTick /\ inflight = None
      BY DEF ClearTick, Stored, Locked
  <1>s. Subscribed => last' = NoTick /\ inflight = None /\ cached' = NoTick
      BY <1>c DEF Subscribed
  <1>n. NotSubscribed => cached' = cached
      BY DEF NotSubscribed
  <1>h. Honest(NoTick)
      BY HonestPrices
  <1>1. CASE ReadToken
    <2>1. pc' = "resub" /\ tok' \in {sym, None} /\ UNCHANGED <<sym, cached, tick>>
        BY <1>1 DEF ReadToken
    <2> QED
        BY <1>t, <2>1 DEF TicksOK, TokenRead, Stays, Switching, Honest
  <1>2. CASE ResubRotate
    <2>1. pc = "resub" /\ pc' = "clear" /\ UNCHANGED <<sym, tok, tick>> /\ cached' \in {cached, NoTick}
        BY <1>2, <1>s, <1>n DEF ResubRotate
    <2> QED
        BY <1>h, <1>t, <2>1 DEF TicksOK, TokenRead, Stays, Switching, Honest
  <1>3. CASE ResubAdjust
    <2>1. /\ pc = "resub" /\ pc' = "fetch" /\ UNCHANGED <<sym, tok, inflight, tick>>
          /\ cached' \in {cached, NoTick}
          /\ skipped' \/ (last' = NoTick /\ inflight = None)
        BY <1>3, <1>c, <1>s, <1>n DEF ResubAdjust
    <2> QED
        BY <1>h, <1>t, <2>1 DEF TicksOK, TokenRead, Stays, Switching, Honest
  <1>4. CASE ResubOrder
    <2>1. /\ pc = "resub" /\ pc' \in {"sync", "free"} /\ UNCHANGED <<sym, tok, inflight>>
          /\ tick' \in {tick, NoTick} /\ cached' \in {cached, NoTick}
          /\ skipped' \/ (last' = NoTick /\ inflight = None)
        BY <1>4, <1>c, <1>s, <1>n DEF ResubOrder, Done
    <2> QED
        BY <1>h, <1>t, <2>1 DEF TicksOK, TokenRead, Stays, Switching, Honest
  <1>5. CASE Rotated
    <2>1. /\ pc = "clear" /\ UNCHANGED <<sym, tok, inflight>> /\ tick' = NoTick
          /\ cached' = NoTick /\ last' = NoTick /\ inflight = None
        BY <1>5, <1>c DEF Rotated, Done
    <2> QED
        BY <1>h, <1>t, <2>1 DEF TicksOK, TokenRead, Stays, Switching, Honest
  <1> QED
      BY <1>1, <1>2, <1>3, <1>4, <1>5 DEF Contract

LEMMA PassTicks == TypeOK /\ TicksOK /\ Passes => TicksOK'
  <1> SUFFICES ASSUME TypeOK, TicksOK, Passes PROVE TicksOK'
      OBVIOUS
  <1>t. TokenRead /\ Stays /\ Honest(cached) /\ Honest(tick)
      BY DEF TicksOK
  <1>1. /\ pc \in {"got", "sync"} /\ UNCHANGED <<tok, held, inflight>>
        /\ tick' \in {tick, NoTick} /\ cached' \in {cached, Own}
        /\ pc' = "token" \/ (pc' \in {"free", "sync", "ask"} /\ sym' = sym)
      BY DEF Passes, Scan, Sync, Enter, Bought, Hold, Close, Done, Switch, caches, held, call, result, feed
  <1>2. Honest(tick)' /\ Honest(cached)'
      BY <1>t, <1>1, HonestPrices DEF Honest
  <1> QED
      BY <1>t, <1>1, <1>2 DEF TicksOK, TokenRead, Stays, Switching, Honest, held

-----------------------------------------------------------------------------
(* The contract of an open trade.                                           *)
LEMMA StepFollowed == TypeOK /\ Followed /\ [Next]_vars => Followed'
  <1> SUFFICES ASSUME TypeOK, Followed, [Next]_vars PROVE Followed'
      OBVIOUS
  <1> USE DEF call, result, feed
  <1>1. CASE Stream \/ Contract \/ Begin \/ UNCHANGED vars
    <2>1. UNCHANGED <<sym, trade, adrift>>
        BY <1>1 DEF Stream, WsAccept, WsStore, Drop, JoinStart, JoinSubscribed, JoinEnds, Contract,
           ReadToken, ResubRotate, ResubAdjust, ResubOrder, Rotated, Begin, Done, vars
    <2> QED
        BY <2>1 DEF Followed
  <1>2. CASE Ask
      BY <1>2 DEF Ask, AskStream, AskStale, AskMismatch, AskRest, Fetch, Switch, Followed
  <1>3. CASE Passes
    <2>1. CASE Scan
        BY <2>1 DEF Scan, TypeOK, Followed
    <2>2. CASE Enter
      <3>1. adrift' \in BOOLEAN /\ (trade' # None => adrift' = (sym # trade') \/ trade' = trade)
          BY <2>2 DEF Enter, Bought
      <3>2. job = "order" => trade = None
          BY DEF TypeOK
      <3> QED
          BY <2>2, <3>1, <3>2 DEF Enter, Bought, Followed
    <2>3. CASE Sync \/ Hold \/ Close
        BY <2>3 DEF Sync, Hold, Close, Closed, Kept, Followed
    <2> QED
        BY <1>3, <2>1, <2>2, <2>3 DEF Passes
  <1> QED
      BY <1>1, <1>2, <1>3 DEF Next

LEMMA StepCInv == CInv /\ [Next]_vars => CInv'
  <1> SUFFICES ASSUME CInv, [Next]_vars PROVE CInv'
      OBVIOUS
  <1>1. TypeOK /\ TicksOK /\ Followed
      BY DEF CInv, TicksOK
  <1>2. CASE UNCHANGED vars
    <2>1. TypeOK'
        BY <1>1, <1>2 DEF vars, feed, call, result, TypeOK
    <2>2. TicksOK'
        BY <1>1, <1>2, SameTicks DEF vars, feed, call, result, held
    <2> QED
        BY <1>1, <2>1, <2>2, StepFollowed DEF CInv, TicksOK
  <1>3. CASE Next
    <2>1. TypeOK'
        BY <1>1, <1>3, StreamTypes, AskTypes, ContractTypes, PassTypes DEF Next
    <2>2. TicksOK'
        BY <1>1, <1>3, StreamTicks, AskTicks, ContractTicks, PassTicks DEF Next
    <2> QED
        BY <1>1, <2>1, <2>2, StepFollowed DEF CInv, TicksOK
  <1> QED
      BY <1>2, <1>3

LEMMA CInvAlways == Spec => []CInv
  BY InitCInv, StepCInv, PTL DEF Spec

-----------------------------------------------------------------------------
\* Types, and that no pass of the loop looks for an entry with a trade open.
THEOREM ContractFeedTypes == Spec => []TypeOK
  <1>1. CInv => TypeOK
      BY DEF CInv
  <1> QED
      BY <1>1, CInvAlways, PTL

\* get_tick serves a price of the contract it names over every order of stream
\* ticks, drops, reconnects and changes of the contract, for any contracts.
THEOREM LabelsTrue == Spec => []LabelTrue
  <1>1. CInv => LabelTrue
      BY DEF CInv, LabelTrue
  <1> QED
      BY <1>1, CInvAlways, PTL

\* current_symbol stays that of the open trade, or the REST path has moved it.
THEOREM TradesFollowed == Spec => []TradeFollowed
  <1>1. CInv => TradeFollowed
      BY DEF CInv, Followed, TradeFollowed
  <1> QED
      BY <1>1, CInvAlways, PTL

\* Each price is of the contract it names, and the feed stays with the trade.
THEOREM FeedIsHonest == Spec => []FeedHonest
  BY LabelsTrue, TradesFollowed, PTL DEF FeedHonest

-----------------------------------------------------------------------------
(* The signal and its order.                                                *)
SigTypes ==
  /\ now \in Signals!Clock /\ spot \in Strikes /\ sub \in Signals!Options
  /\ cross \in [Signals!Dirs ->
                  [atm : Strikes, strike : Strikes, at : Signals!Clock] \cup {Nothing}]
  /\ params \in Signals!Signal \cup {Signals!NoSignal}

\* The machine waits on a signal that was taken, and evaluated when it was found.
OnTaken ==
  phase = "ENTRY_READY" => params.taken /\ params.stamp <= params.found

\* While nothing has moved, the broker still finds the contract that was
\* checked, or has to search for one.
Agreed == phase = "ENTRY_READY" /\ ~moved =>
  /\ sub.dir = params.dir \/ ~CrossStrike =>
       params.of = [dir |-> params.dir, strike |-> sub.strike]
  /\ sub.dir # params.dir /\ CrossStrike /\ Signals!Cached(params.dir) =>
       params.of = [dir |-> params.dir, strike |-> cross[params.dir].strike]

OrderRight == Signals!OrderOfTaken /\ Signals!OrderInTime /\ Signals!CheckedIsTraded

SigInv == SigTypes /\ OnTaken /\ Agreed /\ OrderRight

\* A pass that sends nothing and leaves no one waiting keeps the order right.
LEMMA NoOrderRight == Signals!NoOrder => OrderRight'
  BY DEF Signals!NoOrder, OrderRight, Signals!OrderOfTaken, Signals!OrderInTime,
         Signals!CheckedIsTraded

LEMMA SignalStarts == Signals!Init => SigInv
  BY EntryAssumption
  DEF Signals!Init, Signals!EntryConstants, SigInv, SigTypes, OnTaken, Agreed, OrderRight,
      Signals!OrderOfTaken, Signals!OrderInTime, Signals!CheckedIsTraded, Signals!Clock,
      Signals!Options, Signals!Dirs

\* What a resolver answers.
LEMMA Answers ==
  ASSUME SigTypes, NEW c \in Signals!Options, NEW d \in Signals!Dirs,
         NEW r \in Signals!Resolved(c, d)
  PROVE  /\ r.strike \in Strikes
         /\ r.cache \in [Signals!Dirs ->
                  [atm : Strikes, strike : Strikes, at : Signals!Clock] \cup {Nothing}]
         /\ c.dir = d \/ ~CrossStrike => r.strike = c.strike /\ ~r.anew /\ r.cache = cross
         /\ c.dir # d /\ CrossStrike =>
              \/ Signals!Cached(d) /\ r.strike = cross[d].strike /\ r.cache = cross /\ ~r.anew
              \/ r.anew /\ ~Signals!Cached(d)
                 /\ (r.cache = cross \/ r.cache[d] = [atm |-> spot, strike |-> r.strike, at |-> now])
  BY DEF SigTypes, Signals!Resolved, Signals!Answer, Signals!Found, Signals!Cached,
         Signals!Options, Signals!Dirs


\* Time, the market and the rest of the machine: the signal waits on.
LEMMA WaitingKeeps ==
  ASSUME SigInv,
         \/ Signals!Wait \/ Signals!SpotMoves \/ Signals!Adjust
         \/ Signals!Reconnect \/ Signals!Kill \/ Signals!Back
  PROVE  SigInv'
  <1>t. SigTypes /\ OnTaken /\ Agreed
      BY DEF SigInv
  <1>o. OrderRight'
      BY NoOrderRight DEF Signals!Wait, Signals!SpotMoves, Signals!Adjust, Signals!Reconnect,
             Signals!Kill, Signals!Back
  <1>0. /\ UNCHANGED <<cross, params>> /\ now' \in {now, now + 1}
        /\ phase' = "ENTRY_READY" => phase = "ENTRY_READY"
        /\ moved' \/ UNCHANGED <<spot, sub, moved>>
      BY DEF Signals!Wait, Signals!SpotMoves, Signals!Adjust, Signals!Reconnect,
             Signals!Kill, Signals!Back, Signals!chain, Signals!gate
  <1>1. now' \in Signals!Clock /\ spot' \in Strikes /\ sub' \in Signals!Options
      BY <1>t, EntryAssumption
      DEF SigTypes, Signals!Wait, Signals!SpotMoves, Signals!Adjust, Signals!Reconnect,
          Signals!Kill, Signals!Back, Signals!chain, Signals!gate, Signals!Clock,
          Signals!Options, Signals!Dirs, Signals!EntryConstants
  <1>3. SigTypes' /\ OnTaken'
      BY <1>0, <1>1, <1>t DEF SigTypes, OnTaken, Signals!Clock
  <1>2. Agreed'
    <2> SUFFICES ASSUME phase' = "ENTRY_READY", ~moved' PROVE Agreed'
        BY DEF Agreed
    <2>1. phase = "ENTRY_READY" /\ ~moved /\ UNCHANGED <<spot, sub, cross, params>>
        BY <1>0
    <2>2. params.dir \in Signals!Dirs
        BY <1>t DEF SigTypes, Signals!Signal, Signals!NoSignal, Signals!Dirs
    <2>3. Signals!Cached(params.dir)' => Signals!Cached(params.dir)
        BY <1>0, <1>t, <2>1, <2>2, EntryAssumption
        DEF SigTypes, Signals!Cached, Signals!Clock, Signals!EntryConstants
    <2> QED
        BY <1>t, <2>1, <2>3 DEF Agreed
  <1> QED
      BY <1>2, <1>3, <1>o DEF SigInv


LEMMA IdleSub ==
  ASSUME SigTypes, Signals!Idle
  PROVE  sub' \in Signals!Options /\ phase = "IDLE"
  BY EntryAssumption
  DEF SigTypes, Signals!Idle, Signals!Pass, Signals!Options, Signals!Dirs,
      Signals!EntryConstants

\* A scan without a signal that is taken leaves the machine idle.
LEMMA EmptyKeeps ==
  ASSUME SigInv,
         \/ Signals!IdleBlocked \/ Signals!ScanWarming \/ Signals!ScanEmpty
         \/ Signals!ScanRefused
  PROVE  SigInv'
  <1>t. SigTypes
      BY DEF SigInv
  <1>1. /\ Signals!Idle /\ Signals!NoOrder /\ UNCHANGED <<now, spot>> /\ phase' = phase
        /\ params' \in {params, Signals!NoSignal}
      BY DEF Signals!IdleBlocked, Signals!ScanWarming, Signals!ScanEmpty, Signals!ScanRefused,
             Signals!NotTaken
  <1>2. sub' \in Signals!Options /\ phase' = "IDLE"
      BY <1>1, <1>t, IdleSub
  <1>3. cross' = cross \/ \E d \in Signals!Dirs : \E r \in Signals!Resolved(sub', d) : cross' = r.cache
      BY DEF Signals!IdleBlocked, Signals!ScanWarming, Signals!ScanEmpty, Signals!ScanRefused
  <1>4. cross' \in [Signals!Dirs ->
                  [atm : Strikes, strike : Strikes, at : Signals!Clock] \cup {Nothing}]
    <2>1. CASE cross' = cross
        BY <1>t, <2>1 DEF SigTypes
    <2>2. ASSUME NEW d \in Signals!Dirs, NEW r \in Signals!Resolved(sub', d), cross' = r.cache
          PROVE  cross' \in [Signals!Dirs ->
                  [atm : Strikes, strike : Strikes, at : Signals!Clock] \cup {Nothing}]
        BY <1>2, <1>t, <2>2, Answers
    <2> QED
        BY <1>3, <2>1, <2>2
  <1>5. SigTypes'
      BY <1>1, <1>2, <1>4, <1>t DEF SigTypes
  <1>6. OnTaken' /\ Agreed' /\ OrderRight'
      BY <1>1, <1>2, NoOrderRight DEF OnTaken, Agreed
  <1> QED
      BY <1>5, <1>6 DEF SigInv

\* The scan that stores a signal checks it on a contract the broker will find.
LEMMA SignalKeeps ==
  ASSUME SigInv, Signals!ScanSignal
  PROVE  SigInv'
  <1>t. SigTypes
      BY DEF SigInv
  <1>1. PICK d \in Signals!Dirs, c \in Signals!Options, stamp \in (0 - Fresh)..now,
             ok \in BOOLEAN :
          /\ Signals!Checked(d, c, stamp)
          /\ params' = [dir |-> d, of |-> c, stamp |-> stamp, found |-> now, taken |-> ok]
          /\ ~ok => phase' = phase
      BY DEF Signals!ScanSignal, Signals!NotTaken
  <1>2. /\ sub' \in Signals!Options /\ phase = "IDLE" /\ UNCHANGED <<now, spot>>
        /\ Signals!NoOrder /\ moved' = (sub' # sub)
      BY <1>t, IdleSub DEF Signals!ScanSignal
  <1>3. /\ sub'.dir = d => c = sub /\ cross' = cross
        /\ sub'.dir # d => \E r \in Signals!Resolved(sub', d) :
             c = [dir |-> d, strike |-> r.strike] /\ cross' = r.cache
      BY <1>1 DEF Signals!Checked
  <1>4. SigTypes'
    <2>1. cross' \in [Signals!Dirs ->
                  [atm : Strikes, strike : Strikes, at : Signals!Clock] \cup {Nothing}]
      <3>1. CASE sub'.dir = d
          BY <1>3, <1>t, <3>1 DEF SigTypes
      <3>2. ASSUME NEW r \in Signals!Resolved(sub', d), cross' = r.cache
            PROVE  cross' \in [Signals!Dirs ->
                  [atm : Strikes, strike : Strikes, at : Signals!Clock] \cup {Nothing}]
          BY <1>2, <1>t, <3>2, Answers
      <3> QED
          BY <1>3, <3>1, <3>2
    <2>2. stamp \in Int
        BY <1>t, EntryAssumption DEF SigTypes, Signals!Clock, Signals!EntryConstants
    <2>3. params' \in Signals!Signal
        BY <1>1, <1>t, <2>2 DEF SigTypes, Signals!Signal
    <2> QED
        BY <1>2, <1>t, <2>1, <2>3 DEF SigTypes
  <1>5. OnTaken'
      BY <1>1, <1>2 DEF OnTaken
  <1>6. Agreed'
    <2> SUFFICES ASSUME ~moved' PROVE
          /\ sub'.dir = d \/ ~CrossStrike => c = [dir |-> d, strike |-> sub'.strike]
          /\ sub'.dir # d /\ CrossStrike /\ Signals!Cached(d)' =>
               c = [dir |-> d, strike |-> cross'[d].strike]
        BY <1>1 DEF Agreed, Signals!Cached
    <2>1. CASE sub'.dir = d
        BY <1>2, <1>3, <2>1 DEF Signals!Options
    <2>2. CASE sub'.dir # d
      <3>1. PICK r \in Signals!Resolved(sub', d) :
              c = [dir |-> d, strike |-> r.strike] /\ cross' = r.cache
          BY <1>3, <2>2
      <3>2. CASE ~CrossStrike
          BY <1>2, <1>t, <2>2, <3>1, <3>2, Answers
      <3>3. CASE CrossStrike
        <4>1. \/ r.cache = cross /\ (r.anew \/ r.strike = cross[d].strike)
                 /\ (r.anew => ~Signals!Cached(d))
              \/ r.cache[d] = [atm |-> spot, strike |-> r.strike, at |-> now]
            BY <1>2, <1>t, <2>2, <3>3, Answers
        <4> QED
            BY <1>2, <2>2, <3>1, <3>3, <4>1 DEF Signals!Cached
      <3> QED
          BY <3>2, <3>3
    <2> QED
        BY <2>1, <2>2
  <1> QED
      BY <1>2, <1>4, <1>5, <1>6, NoOrderRight DEF SigInv


LEMMA RefusedKeeps ==
  ASSUME SigInv, Signals!EntryRefused
  PROVE  SigInv'
  <1>t. SigTypes
      BY DEF SigInv
  <1>1. /\ phase' = "COOLDOWN" /\ UNCHANGED <<now, spot, sub, params>> /\ Signals!NoOrder
        /\ \/ cross' = cross
           \/ \E r \in Signals!Resolved(sub, params.dir) : cross' = r.cache
      BY DEF Signals!EntryRefused, Signals!Leave
  <1>2. params.dir \in Signals!Dirs
      BY <1>t DEF SigTypes, Signals!Signal, Signals!NoSignal, Signals!Dirs
  <1>3. SigTypes'
    <2>1. sub \in Signals!Options
        BY <1>t DEF SigTypes
    <2>2. cross' \in [Signals!Dirs ->
                  [atm : Strikes, strike : Strikes, at : Signals!Clock] \cup {Nothing}]
      <3>1. CASE cross' = cross
          BY <1>t, <3>1 DEF SigTypes
      <3>2. ASSUME NEW r \in Signals!Resolved(sub, params.dir), cross' = r.cache
            PROVE  cross' \in [Signals!Dirs ->
                  [atm : Strikes, strike : Strikes, at : Signals!Clock] \cup {Nothing}]
          BY <1>2, <1>t, <2>1, <3>2, Answers
      <3> QED
          BY <1>1, <3>1, <3>2
    <2> QED
        BY <1>1, <1>t, <2>2 DEF SigTypes
  <1> QED
      BY <1>1, <1>3, NoOrderRight DEF SigInv, OnTaken, Agreed

\* The order is sent on the tick the guard let through.
LEMMA OrdersKeeps ==
  ASSUME SigInv, Signals!EntryOrders
  PROVE  SigInv'
  <1>t. SigTypes /\ OnTaken /\ Agreed
      BY DEF SigInv
  <1>1. PICK r \in Signals!Resolved(sub, params.dir) :
          /\ cross' = r.cache /\ sub' = [dir |-> params.dir, strike |-> r.strike]
          /\ order' = [of |-> sub', sig |-> params, at |-> now, moved |-> moved \/ r.anew]
      BY DEF Signals!EntryOrders, Signals!Traded
  <1>2. /\ phase = "ENTRY_READY" /\ phase' # "ENTRY_READY" /\ UNCHANGED <<now, spot, params>>
        /\ \E stamp \in Signals!Stamps : Signals!InTime(stamp)
      BY DEF Signals!EntryOrders, Signals!Pass, Signals!Leave
  <1>3. params \in Signals!Signal /\ params # Signals!NoSignal /\ params.dir \in Signals!Dirs
      BY <1>2, <1>t DEF SigTypes, OnTaken, Signals!Signal, Signals!NoSignal
  <1>4. SigTypes'
      BY <1>1, <1>2, <1>3, <1>t, Answers DEF SigTypes, Signals!Options
  <1>5. Signals!OrderOfTaken'
      BY <1>1, <1>2, <1>t DEF OnTaken, Signals!OrderOfTaken
  <1>6. Signals!OrderInTime'
    <2>1. PICK stamp \in Signals!Stamps : stamp - params.stamp \in 0..MaxAge
        BY <1>2, <1>3 DEF Signals!InTime
    <2>2. /\ stamp \in Int /\ now - Fresh <= stamp /\ params.stamp \in Int
          /\ params.found \in Int /\ params.stamp <= params.found
        BY <1>2, <1>3, <1>t, EntryAssumption
        DEF SigTypes, OnTaken, Signals!Stamps, Signals!Clock, Signals!Signal,
            Signals!EntryConstants
    <2>3. now - params.found <= MaxAge + Fresh
        BY <1>t, <2>1, <2>2, EntryAssumption
        DEF SigTypes, Signals!Clock, Signals!EntryConstants
    <2> QED
        BY <1>1, <2>3 DEF Signals!OrderInTime
  <1>7. Signals!CheckedIsTraded'
    <2> SUFFICES ASSUME ~moved, ~r.anew
                 PROVE  params.of = [dir |-> params.dir, strike |-> r.strike]
        BY <1>1 DEF Signals!CheckedIsTraded
    <2>1. CASE sub.dir = params.dir \/ ~CrossStrike
        BY <1>2, <1>3, <1>t, <2>1, Answers DEF SigTypes, Agreed
    <2>2. CASE sub.dir # params.dir /\ CrossStrike
      <3>1. sub \in Signals!Options
          BY <1>t DEF SigTypes
      <3>2. Signals!Cached(params.dir) /\ r.strike = cross[params.dir].strike
          BY <1>3, <1>t, <2>2, <3>1, Answers
      <3> QED
          BY <1>2, <1>t, <2>2, <3>2 DEF Agreed
    <2> QED
        BY <2>1, <2>2
  <1> QED
      BY <1>2, <1>4, <1>5, <1>6, <1>7 DEF SigInv, OnTaken, Agreed, OrderRight

LEMMA SignalStays == SigInv /\ [Signals!Next]_signalVars => SigInv'
  <1> SUFFICES ASSUME SigInv, [Signals!Next]_signalVars PROVE SigInv'
      OBVIOUS
  <1>1. CASE Signals!Next
      BY <1>1, WaitingKeeps, EmptyKeeps, SignalKeeps, RefusedKeeps, OrdersKeeps
      DEF Signals!Next
  <1>2. CASE UNCHANGED signalVars
      BY <1>2
      DEF signalVars, SigInv, SigTypes, OnTaken, Agreed, OrderRight, Signals!OrderOfTaken,
          Signals!OrderInTime, Signals!CheckedIsTraded, Signals!Cached
  <1> QED
      BY <1>1, <1>2

\* Over every wait, rotation, kill and reconnect, an order is sent on a signal
\* that was taken, in its direction, no later than the guard's limit, and for the
\* contract that was checked unless something moved (_signal_execution_guard,
\* resolve_strike_for_direction, entry_signal).
THEOREM OrdersOnTheirSignals == PathSpec => []OrderOnItsSignal
  <1> DEFINE PInv == part = "signal" => SigInv
  <1>1. PathInit => PInv
      BY SignalStarts DEF PathInit
  <1>2. PInv /\ [PathNext]_pathVars => PInv'
    <2> SUFFICES ASSUME PInv, [PathNext]_pathVars, part' = "signal" PROVE SigInv'
        OBVIOUS
    <2>1. part = "signal" /\ [Signals!Next]_signalVars
        BY DEF PathNext, FeedMoves, SignalMoves, MarketMoves, ScanMoves, pathVars
    <2> QED
        BY <2>1, SignalStays
  <1>3. PInv => OrderOnItsSignal
      BY DEF SigInv, OrderRight, OrderOnItsSignal
  <1> QED
      BY <1>1, <1>2, <1>3, PTL DEF PathSpec

\* The feed in its run beside the signals, the scores and the scans.
THEOREM FeedStaysHonest == PathSpec => []FeedHonest
  <1>1. PathInit => Init
      BY DEF PathInit
  <1>2. [PathNext]_pathVars => [Next]_vars
      BY DEF PathNext, FeedMoves, SignalMoves, MarketMoves, ScanMoves, pathVars
  <1> QED
      BY <1>1, <1>2, FeedIsHonest, PTL DEF PathSpec, Spec

-----------------------------------------------------------------------------
(* The scores, for readings and views with any numbers.                     *)
AnyReading ==
  [spread : Int, ratio : Int, volume : Int, age : Int, latency : Int, reconnects : Nat,
   ws : BOOLEAN, api : BOOLEAN, atr : Int, hour : Int, delta : Int]

\* q is a reading of a market no better than that of r.
Worse(r, q) ==
  /\ r.spread <= q.spread /\ r.age <= q.age
  /\ r.latency <= q.latency /\ r.reconnects <= q.reconnects
  /\ q.ratio <= r.ratio /\ q.volume <= r.volume
  /\ q.ws => r.ws
  /\ q.api => r.api
  /\ q.atr = r.atr /\ q.hour = r.hour /\ q.delta = r.delta

LEMMA FreshnessFalls ==
  ASSUME NEW a \in Int, NEW b \in Int, a <= b
  PROVE  /\ Scores!FreshnessPoints(b) <= Scores!FreshnessPoints(a)
         /\ Scores!FreshnessPoints(a) \in Nat
         /\ Scores!FreshnessState(a) \in {"REJECT", "HARD_REJECT"} =>
              Scores!FreshnessState(b) \in {"REJECT", "HARD_REJECT"}
  BY DEF Scores!FreshnessPoints, Scores!FreshnessState, Scores!MaxStale

LEMMA SpreadFalls ==
  ASSUME NEW a \in Int, NEW b \in Int, a <= b
  PROVE  Scores!SpreadPoints(b) <= Scores!SpreadPoints(a) /\ Scores!SpreadPoints(a) \in Nat
  BY DEF Scores!SpreadPoints

LEMMA LiquidityFalls ==
  ASSUME NEW x \in Int, NEW y \in Int, NEW v \in Int, NEW w \in Int, y <= x, w <= v
  PROVE  /\ Scores!LiquidityPoints(y, w) <= Scores!LiquidityPoints(x, v)
         /\ Scores!LiquidityPoints(x, v) \in Nat
  BY DEF Scores!LiquidityPoints

LEMMA ExecutionFalls ==
  ASSUME NEW r \in AnyReading, NEW q \in AnyReading, Worse(r, q)
  PROVE  Scores!ExecutionPoints(q) <= Scores!ExecutionPoints(r)
         /\ Scores!ExecutionPoints(r) \in Nat
  <1>1. /\ r.latency \in Int /\ q.latency \in Int /\ r.latency <= q.latency
        /\ r.reconnects \in Nat /\ q.reconnects \in Nat /\ r.reconnects <= q.reconnects
      BY DEF AnyReading, Worse
  <1>2. (q.ws => r.ws) /\ (q.api => r.api)
      BY DEF Worse
  <1> DEFINE Best(x)  == x.ws /\ x.api /\ x.reconnects = 0 /\ x.latency <= 80
             Good(x)  == x.ws /\ x.api /\ x.reconnects <= 1 /\ x.latency <= 150
             Slow(x)  == x.ws /\ x.api /\ x.latency <= 250
             Up(x)    == x.ws
  <1>3. /\ Best(q) => Best(r)
        /\ Good(q) => Good(r) /\ Slow(q)
        /\ Slow(q) => Slow(r) /\ Up(q)
        /\ Up(q) => Up(r)
      BY <1>1, <1>2
  <1>4. /\ Scores!ExecutionPoints(q) = IF Best(q) THEN 10 ELSE IF Good(q) THEN 8
                                       ELSE IF Slow(q) THEN 5 ELSE IF Up(q) THEN 3 ELSE 0
        /\ Scores!ExecutionPoints(r) = IF Best(r) THEN 10 ELSE IF Good(r) THEN 8
                                       ELSE IF Slow(r) THEN 5 ELSE IF Up(r) THEN 3 ELSE 0
      BY Zenon DEF Scores!ExecutionPoints
  <1> HIDE DEF Best, Good, Slow, Up
  <1> QED
      BY <1>3, <1>4

LEMMA OtherPoints ==
  ASSUME NEW r \in AnyReading
  PROVE  /\ Scores!VolatilityPoints(r.atr) \in Nat
         /\ Scores!SessionPoints(r.hour) \in Nat
         /\ Scores!GreeksPoints(r.delta) \in Nat
  BY DEF AnyReading, Scores!VolatilityPoints, Scores!SessionPoints, Scores!GreeksPoints

LEMMA QualityFalls ==
  ASSUME NEW r \in AnyReading, NEW q \in AnyReading, Worse(r, q)
  PROVE  Scores!Quality(q) <= Scores!Quality(r)
  <1>t. /\ {r.spread, r.age, r.ratio, r.volume} \subseteq Int
        /\ {q.spread, q.age, q.ratio, q.volume} \subseteq Int
      BY DEF AnyReading
  <1>w. /\ r.spread <= q.spread /\ r.age <= q.age
        /\ q.ratio <= r.ratio /\ q.volume <= r.volume
        /\ q.atr = r.atr /\ q.hour = r.hour /\ q.delta = r.delta
      BY DEF Worse
  <1>1. /\ Scores!SpreadPoints(q.spread) <= Scores!SpreadPoints(r.spread)
        /\ Scores!SpreadPoints(q.spread) \in Nat /\ Scores!SpreadPoints(r.spread) \in Nat
      BY <1>t, <1>w, SpreadFalls
  <1>2. /\ Scores!LiquidityPoints(q.ratio, q.volume) <= Scores!LiquidityPoints(r.ratio, r.volume)
        /\ Scores!LiquidityPoints(q.ratio, q.volume) \in Nat
        /\ Scores!LiquidityPoints(r.ratio, r.volume) \in Nat
    <2>1. {r.ratio, q.ratio, r.volume, q.volume} \subseteq Int
        BY <1>t
    <2>2. /\ Scores!LiquidityPoints(q.ratio, q.volume) <= Scores!LiquidityPoints(r.ratio, r.volume)
          /\ Scores!LiquidityPoints(r.ratio, r.volume) \in Nat
        BY <1>w, <2>1, LiquidityFalls
    <2>3. Scores!LiquidityPoints(q.ratio, q.volume) \in Nat
        BY DEF Scores!LiquidityPoints
    <2> QED
        BY <2>2, <2>3
  <1>3. /\ Scores!FreshnessPoints(q.age) <= Scores!FreshnessPoints(r.age)
        /\ Scores!FreshnessPoints(q.age) \in Nat /\ Scores!FreshnessPoints(r.age) \in Nat
        /\ Scores!FreshnessState(r.age) \in {"REJECT", "HARD_REJECT"} =>
             Scores!FreshnessState(q.age) \in {"REJECT", "HARD_REJECT"}
      BY <1>t, <1>w, FreshnessFalls
  <1>4. /\ Scores!ExecutionPoints(q) <= Scores!ExecutionPoints(r)
        /\ Scores!ExecutionPoints(r) \in Nat
      BY ExecutionFalls
  <1>5. Scores!ExecutionPoints(q) \in Nat
      BY DEF Scores!ExecutionPoints
  <1>6. /\ Scores!VolatilityPoints(r.atr) \in Nat /\ Scores!SessionPoints(r.hour) \in Nat
        /\ Scores!GreeksPoints(r.delta) \in Nat
      BY OtherPoints
  <1>7. Scores!HardReject(r) => Scores!HardReject(q)
      BY <1>t, <1>w DEF Worse, Scores!HardReject, Scores!MaxSpread
  <1> DEFINE Sum(x) ==
        Scores!SpreadPoints(x.spread) + Scores!LiquidityPoints(x.ratio, x.volume)
          + Scores!FreshnessPoints(x.age) + Scores!VolatilityPoints(x.atr)
          + Scores!SessionPoints(x.hour) + Scores!GreeksPoints(x.delta)
          + Scores!ExecutionPoints(x)
             Out(x) == \/ Scores!FreshnessState(x.age) \in {"REJECT", "HARD_REJECT"}
                       \/ Scores!HardReject(x)
  <1>8. Sum(q) <= Sum(r) /\ Sum(r) \in Nat /\ Sum(q) \in Nat
      BY <1>1, <1>2, <1>3, <1>4, <1>5, <1>6, <1>w
  <1>9. /\ Scores!Quality(q) = IF Out(q) THEN 0 ELSE Sum(q)
        /\ Scores!Quality(r) = IF Out(r) THEN 0 ELSE Sum(r)
      BY DEF Scores!Quality
  <1>10. Out(r) => Out(q)
      BY <1>3, <1>7
  <1> HIDE DEF Sum, Out
  <1> QED
      BY <1>8, <1>9, <1>10


LEMMA LeastInside ==
  ASSUME NEW S \in SUBSET Int, NEW x \in S, \A y \in S : x <= y
  PROVE  Scores!Least(S) \in S
  BY DEF Scores!Least

LEMMA MostInside ==
  ASSUME NEW S \in SUBSET Int, NEW x \in S, \A y \in S : x >= y
  PROVE  Scores!Most(S) \in S
  BY DEF Scores!Most

LEMMA ScoresStart == Scores!Init => reading \in AnyReading
  <1>1. /\ Scores!Least({20, 60, 150}) \in Int
        /\ Scores!Least({0, 150, 500, 800, 1300}) \in Int
        /\ Scores!Least({80, 200}) \in Int
      BY LeastInside
  <1>2. Scores!Least({0, 1}) \in Nat
      BY LeastInside
  <1>3. Scores!Most({7, 13}) \in Int /\ Scores!Most({0, 20000}) \in Int
      BY MostInside
  <1> QED
      BY <1>1, <1>2, <1>3 DEF Scores!Init, AnyReading

\* Each step of a reading is one to a worse one.
LEMMA StepsWorse ==
  ASSUME reading \in AnyReading, [Scores!Next]_marketVars
  PROVE  reading' \in AnyReading /\ Worse(reading, reading')
  <1>1. CASE UNCHANGED marketVars
      BY <1>1 DEF marketVars, AnyReading, Worse
  <1>2. CASE Scores!TickAges
      BY <1>2 DEF AnyReading, Worse, Scores!TickAges, Scores!Becomes
  <1>3. CASE Scores!SpreadWidens
      BY <1>3 DEF AnyReading, Worse, Scores!SpreadWidens, Scores!Becomes
  <1>4. CASE Scores!VolumeFalls
      BY <1>4 DEF AnyReading, Worse, Scores!VolumeFalls, Scores!Becomes
  <1>5. CASE Scores!LinkSlows
      BY <1>5 DEF AnyReading, Worse, Scores!LinkSlows, Scores!Becomes
  <1>6. CASE Scores!LinkBreaks
    <2>1. \/ reading' = [reading EXCEPT !.ws = FALSE]
          \/ reading' = [reading EXCEPT !.api = FALSE]
        BY <1>6 DEF Scores!LinkBreaks, Scores!Becomes
    <2>2. reading' \in AnyReading
        BY <2>1 DEF AnyReading
    <2>3. Worse(reading, reading')
        BY <2>1 DEF AnyReading, Worse
    <2> QED
        BY <2>2, <2>3
  <1> QED
      BY <1>1, <1>2, <1>3, <1>4, <1>5, <1>6 DEF Scores!Next

\* However old the tick, wide the spread, thin the volume or slow the link, a
\* reading that gets worse in one of them is never rated better: no band of the
\* gate is out of order (evaluate of market_quality_engine.py).
THEOREM WorseIsNotBetter == PathSpec => WorseNotRatedBetter
  <1> DEFINE RInv == part = "scores" => reading \in AnyReading
  <1>1. PathInit => RInv
      BY ScoresStart DEF PathInit
  <1>2. RInv /\ [PathNext]_pathVars =>
          RInv' /\ (part = "scores" => Scores!Quality(reading') <= Scores!Quality(reading))
    <2> SUFFICES ASSUME RInv, [PathNext]_pathVars
                 PROVE  /\ part' = "scores" => reading' \in AnyReading
                        /\ part = "scores" => Scores!Quality(reading') <= Scores!Quality(reading)
        OBVIOUS
    <2>1. part' = part /\ (part = "scores" => [Scores!Next]_marketVars)
        BY DEF PathNext, FeedMoves, SignalMoves, MarketMoves, ScanMoves, pathVars
    <2> QED
        BY <2>1, StepsWorse, QualityFalls
  <1> QED
      BY <1>1, <1>2, PTL DEF PathSpec, WorseNotRatedBetter


AnyView ==
  [ema : Scores!Sides, vwap : Scores!Sides, macd : Scores!Sides, ratio : Int, spread : Int,
   delta : Int, rsi : Int, atr : Int, premium : Int,
   oi : Scores!Bullish \cup Scores!Bearish \cup {"NEUTRAL"},
   regime : {"BULLISH", "BEARISH", "SIDEWAYS", "UNKNOWN"},
   squeeze : BOOLEAN, primary : BOOLEAN]

LEMMA FlipSides ==
  ASSUME NEW x \in Scores!Sides
  PROVE  Scores!Flip(x) = Scores!With("PE") <=> x = Scores!With("CE")
  BY DEF Scores!Sides, Scores!Flip, Scores!With

LEMMA FlipInterest ==
  ASSUME NEW x \in Scores!Bullish \cup Scores!Bearish \cup {"NEUTRAL"}
  PROVE  /\ Scores!FlipOi(x) \in Scores!OiFor("PE") <=> x \in Scores!OiFor("CE")
         /\ Scores!FlipOi(x) = "NEUTRAL" <=> x = "NEUTRAL"
  BY DEF Scores!FlipOi, Scores!OiFor, Scores!Bullish, Scores!Bearish

LEMMA FlipTrend ==
  ASSUME NEW x \in {"BULLISH", "BEARISH", "SIDEWAYS", "UNKNOWN"}
  PROVE  /\ Scores!FlipRegime(x) = Scores!Trending("PE") <=> x = Scores!Trending("CE")
         /\ Scores!FlipRegime(x) = "SIDEWAYS" <=> x = "SIDEWAYS"
  BY DEF Scores!FlipRegime, Scores!Trending

LEMMA FlipRsi ==
  ASSUME NEW x \in Int
  PROVE  Scores!RsiPoints("PE", 100 - x) = Scores!RsiPoints("CE", x)
  BY DEF Scores!RsiPoints

\* What each table reads of a view is the same in its mirror image.
LEMMA MirrorImage ==
  ASSUME NEW v \in AnyView, NEW m, m = Scores!Mirror(v)
  PROVE  /\ m.ema = Scores!With("PE") <=> v.ema = Scores!With("CE")
         /\ m.vwap = Scores!With("PE") <=> v.vwap = Scores!With("CE")
         /\ m.macd = Scores!With("PE") <=> v.macd = Scores!With("CE")
         /\ m.oi \in Scores!OiFor("PE") <=> v.oi \in Scores!OiFor("CE")
         /\ m.oi = "NEUTRAL" <=> v.oi = "NEUTRAL"
         /\ m.regime = Scores!Trending("PE") <=> v.regime = Scores!Trending("CE")
         /\ m.regime = "SIDEWAYS" <=> v.regime = "SIDEWAYS"
         /\ Scores!RsiPoints("PE", m.rsi) = Scores!RsiPoints("CE", v.rsi)
         /\ Scores!AbsDelta(m) = Scores!AbsDelta(v)
         /\ m.ratio = v.ratio /\ m.spread = v.spread /\ m.atr = v.atr
         /\ m.premium = v.premium /\ m.squeeze = v.squeeze /\ m.primary = v.primary
  <1>1. /\ v.ema \in Scores!Sides /\ v.vwap \in Scores!Sides /\ v.macd \in Scores!Sides
        /\ v.oi \in Scores!Bullish \cup Scores!Bearish \cup {"NEUTRAL"}
        /\ v.regime \in {"BULLISH", "BEARISH", "SIDEWAYS", "UNKNOWN"}
        /\ v.rsi \in Int /\ v.delta \in Int
      BY DEF AnyView
  <1>2. /\ m.ema = Scores!Flip(v.ema) /\ m.vwap = Scores!Flip(v.vwap)
        /\ m.macd = Scores!Flip(v.macd) /\ m.oi = Scores!FlipOi(v.oi)
        /\ m.regime = Scores!FlipRegime(v.regime)
        /\ m.rsi = 100 - v.rsi /\ m.delta = -v.delta
        /\ m.ratio = v.ratio /\ m.spread = v.spread /\ m.atr = v.atr
        /\ m.premium = v.premium /\ m.squeeze = v.squeeze /\ m.primary = v.primary
      BY DEF Scores!Mirror
  <1>3. Scores!AbsDelta(m) = Scores!AbsDelta(v)
      BY <1>1, <1>2 DEF Scores!AbsDelta, Scores!Abs
  <1>4. /\ m.ema = Scores!With("PE") <=> v.ema = Scores!With("CE")
        /\ m.vwap = Scores!With("PE") <=> v.vwap = Scores!With("CE")
        /\ m.macd = Scores!With("PE") <=> v.macd = Scores!With("CE")
      BY <1>1, <1>2, FlipSides
  <1>5. /\ m.oi \in Scores!OiFor("PE") <=> v.oi \in Scores!OiFor("CE")
        /\ m.oi = "NEUTRAL" <=> v.oi = "NEUTRAL"
      BY <1>1, <1>2, FlipInterest
  <1>6. /\ m.regime = Scores!Trending("PE") <=> v.regime = Scores!Trending("CE")
        /\ m.regime = "SIDEWAYS" <=> v.regime = "SIDEWAYS"
      BY <1>1, <1>2, FlipTrend
  <1>7. Scores!RsiPoints("PE", m.rsi) = Scores!RsiPoints("CE", v.rsi)
      BY <1>1, <1>2, FlipRsi
  <1> QED
      BY <1>2, <1>3, <1>4, <1>5, <1>6, <1>7

LEMMA ScoresAlike ==
  ASSUME NEW v \in AnyView
  PROVE  /\ Scores!WeightedScore("CE", v) = Scores!WeightedScore("PE", Scores!Mirror(v))
         /\ Scores!ConfidenceParts("CE", v) = Scores!ConfidenceParts("PE", Scores!Mirror(v))
  <1> DEFINE m == Scores!Mirror(v)
  <1>1. /\ m.ema = Scores!With("PE") <=> v.ema = Scores!With("CE")
        /\ m.vwap = Scores!With("PE") <=> v.vwap = Scores!With("CE")
        /\ m.macd = Scores!With("PE") <=> v.macd = Scores!With("CE")
        /\ m.oi \in Scores!OiFor("PE") <=> v.oi \in Scores!OiFor("CE")
        /\ m.oi = "NEUTRAL" <=> v.oi = "NEUTRAL"
        /\ m.regime = Scores!Trending("PE") <=> v.regime = Scores!Trending("CE")
        /\ m.regime = "SIDEWAYS" <=> v.regime = "SIDEWAYS"
        /\ Scores!RsiPoints("PE", m.rsi) = Scores!RsiPoints("CE", v.rsi)
        /\ Scores!AbsDelta(m) = Scores!AbsDelta(v)
        /\ m.ratio = v.ratio /\ m.spread = v.spread /\ m.atr = v.atr
        /\ m.premium = v.premium /\ m.squeeze = v.squeeze /\ m.primary = v.primary
      BY MirrorImage
  <1> HIDE DEF m
  <1>2. Scores!WeightedScore("CE", v) = Scores!WeightedScore("PE", m)
      BY <1>1, SMTT(60) DEF Scores!WeightedScore, Scores!Banded
  <1>3. Scores!ConfidenceParts("CE", v) = Scores!ConfidenceParts("PE", m)
      BY <1>1, SMTT(60) DEF Scores!ConfidenceParts, Scores!Banded
  <1> QED
      BY <1>2, <1>3 DEF m


\* Whatever the spread, volume, Greeks, RSI and premium, a market that scores for
\* CE scores for PE in its mirror image: the tables of the two directions favour
\* neither (WeightedScoreEngine.score, AdaptiveConfidenceEngine.score).
THEOREM NoDirectionFavoured == PathSpec => []DirectionsAlike
  <1> DEFINE VInv == view = Nothing \/ view \in AnyView
  <1>1. PathInit => VInv
    <2>1. Scores!Init => VInv
      <3>1. Scores!Views \subseteq AnyView
          BY DEF Scores!Views, AnyView
      <3> QED
          BY <3>1 DEF Scores!Init
    <2> QED
        BY <2>1 DEF PathInit, ScoresStill
  <1>2. VInv /\ [PathNext]_pathVars => VInv'
    <2> SUFFICES ASSUME VInv, [PathNext]_pathVars PROVE UNCHANGED view
        OBVIOUS
    <2> QED
        BY DEF PathNext, FeedMoves, SignalMoves, MarketMoves, ScanMoves, pathVars, marketVars,
               Scores!Next, Scores!TickAges, Scores!SpreadWidens, Scores!VolumeFalls,
               Scores!LinkSlows, Scores!LinkBreaks, Scores!Becomes
  <1>3. VInv => DirectionsAlike
      BY ScoresAlike DEF DirectionsAlike, Scores!DirectionsAlike
  <1> QED
      BY <1>1, <1>2, <1>3, PTL DEF PathSpec

-----------------------------------------------------------------------------
(* The strategy's account of a scan.                                        *)
Results == {"unmet", "pass", "fail"}
Accounts ==
  [met : [Scans!Stages -> Results], final : {"open", "PASS", "FAIL"},
   failed_at : Scans!Stages \cup {"none"}]

\* What a direction has met when the scan stands at a stage: a direction that is
\* still open passed every stage before, another one failed at the first that
\* turned it away and met none after it.
Turned(m) ==
  \/ m["trigger_confirmation"] = "fail" /\ m["weighted_score"] = "unmet"
  \/ m["trigger_confirmation"] = "pass" /\ m["weighted_score"] = "fail"
MetSoFar(d) ==
  LET m == record[d].met IN
  /\ stage = "score" =>
       /\ m["trigger_confirmation"] = IF d \in open THEN "pass" ELSE "fail"
       /\ m["weighted_score"] = "unmet"
  /\ stage \in {"exhaustion", "confidence"} =>
       /\ d \in open => m["trigger_confirmation"] = "pass" /\ m["weighted_score"] = "pass"
       /\ d \notin open => Turned(m)
  /\ m["exhaustion"] \in IF stage = "confidence" /\ d \in open THEN {"pass", "fail"} ELSE {"unmet"}
  /\ m["confidence"] = "unmet"

ScanInv ==
  /\ record \in [Scans!Dirs -> Accounts]
  /\ open \in {{}, {"CE"}, {"PE"}}
  /\ stage \in {"score", "exhaustion", "confidence"} =>
       \A d \in Scans!Dirs : MetSoFar(d) /\ record[d].final = "open"
  /\ stage # "idle" => signal = "none"
  /\ Scans!Attributed


LEMMA MetAdds ==
  ASSUME NEW x \in Accounts, NEW s \in Scans!Stages, NEW outcome \in Results
  PROVE  /\ Scans!Met(x, s, outcome) \in Accounts
         /\ Scans!Met(x, s, outcome).final = x.final
         /\ Scans!Met(x, s, outcome).met[s] = outcome
         /\ \A t \in Scans!Stages \ {s} : Scans!Met(x, s, outcome).met[t] = x.met[t]
  BY DEF Accounts, Results, Scans!Met

LEMMA ClosedAs ==
  ASSUME NEW x \in Accounts, NEW at \in Scans!Stages \cup {"none"}
  PROVE  /\ Scans!Closed(x, at) \in Accounts
         /\ Scans!Closed(x, at).met = x.met
         /\ Scans!Closed(x, at).failed_at = at
         /\ Scans!Closed(x, at).final = "PASS" <=> at = "none"
  BY DEF Accounts, Scans!Closed

LEMMA BlankAccount ==
  /\ Scans!Blank \in [Scans!Dirs -> Accounts]
  /\ \A d \in Scans!Dirs : /\ Scans!Blank[d].final = "open"
                           /\ \A s \in Scans!Stages : Scans!Blank[d].met[s] = "unmet"
  BY DEF Scans!Blank, Scans!Unmet, Accounts, Results

LEMMA ScansStart == Scans!Init => ScanInv
  BY BlankAccount DEF Scans!Init, ScanInv, Scans!Attributed

\* A scan begins with a blank account and may end in the gates.
LEMMA BeginKeeps ==
  ASSUME ScanInv,
         Scans!TurnedAway \/ Scans!PremiumChecked \/ Scans!GateShut \/ Scans!GatesOpen
  PROVE  ScanInv'
  <1>1. CASE Scans!TurnedAway \/ Scans!PremiumChecked
    <2>1. /\ record' = Scans!Blank /\ open' \in {open, {}} /\ signal' = "none"
          /\ stage' \in {"idle", "gates"}
        BY <1>1 DEF Scans!TurnedAway, Scans!PremiumChecked, Scans!Idle
    <2> QED
        BY <2>1, BlankAccount DEF ScanInv, Scans!Attributed
  <1>2. CASE Scans!GateShut \/ Scans!GatesOpen
      BY <1>2 DEF Scans!GateShut, Scans!GatesOpen, ScanInv, Scans!Attributed
  <1> QED
      BY <1>1, <1>2

\* One trend at a time: no scan finds both directions.
LEMMA SetupKeeps ==
  ASSUME ScanInv, Scans!Setup
  PROVE  ScanInv'
  <1>1. PICK ema \in {"up", "down", "flat"} :
          /\ stage = "pullback" /\ stage' = "score" /\ UNCHANGED signal
          /\ open' \subseteq {d \in Scans!Dirs : Scans!Trend(d, ema)}
          /\ record' = [d \in Scans!Dirs |->
               Scans!Met(Scans!Blank[d], "trigger_confirmation", Scans!PassFail(d \in open'))]
      BY DEF Scans!Setup
  <1>2. open' \in {{}, {"CE"}, {"PE"}}
      BY <1>1 DEF Scans!Dirs, Scans!Trend
  <1>3. ASSUME NEW d \in Scans!Dirs
        PROVE  record'[d] \in Accounts /\ record'[d].final = "open" /\ MetSoFar(d)'
    <2>1. /\ Scans!Blank[d] \in Accounts /\ "trigger_confirmation" \in Scans!Stages
        BY BlankAccount DEF Scans!Stages
    <2>2. /\ record'[d] \in Accounts /\ record'[d].final = "open"
          /\ record'[d].met["trigger_confirmation"] = (IF d \in open' THEN "pass" ELSE "fail")
          /\ \A t \in Scans!Stages \ {"trigger_confirmation"} : record'[d].met[t] = "unmet"
      <3> DEFINE res == IF d \in open' THEN "pass" ELSE "fail"
                 y   == Scans!Met(Scans!Blank[d], "trigger_confirmation", res)
      <3>0. res \in Results
          BY DEF Results
      <3>1. record'[d] = y
          BY <1>1, Zenon DEF Scans!PassFail
      <3> HIDE DEF res
      <3>2. /\ y \in Accounts /\ y.final = Scans!Blank[d].final
            /\ y.met["trigger_confirmation"] = res
            /\ \A t \in Scans!Stages \ {"trigger_confirmation"} :
                 y.met[t] = Scans!Blank[d].met[t]
          BY <2>1, <3>0, MetAdds
      <3> HIDE DEF y
      <3> QED
          BY <3>1, <3>2, BlankAccount DEF res
    <2> QED
        BY <1>1, <2>2 DEF MetSoFar, Scans!Stages
  <1> QED
      BY <1>1, <1>2, <1>3 DEF ScanInv, Scans!Attributed


LEMMA ScoreKeeps ==
  ASSUME ScanInv, Scans!Weighted
  PROVE  ScanInv'
  <1>1. PICK passed \in SUBSET open :
          /\ stage = "score" /\ stage' = "exhaustion" /\ UNCHANGED signal /\ open' = passed
          /\ record' = [d \in Scans!Dirs |-> IF d \in open
               THEN Scans!Met(record[d], "weighted_score", Scans!PassFail(d \in passed)) ELSE record[d]]
      BY DEF Scans!Weighted
  <1>2. open' \in {{}, {"CE"}, {"PE"}}
      BY <1>1 DEF ScanInv
  <1>3. ASSUME NEW d \in Scans!Dirs
        PROVE  record'[d] \in Accounts /\ record'[d].final = "open" /\ MetSoFar(d)'
    <2>1. /\ record[d] \in Accounts /\ record[d].final = "open" /\ MetSoFar(d)
          /\ "weighted_score" \in Scans!Stages
        BY <1>1 DEF ScanInv, Scans!Stages
    <2>2. CASE d \in open
      <3>1. /\ record'[d] \in Accounts /\ record'[d].final = "open"
            /\ record'[d].met["weighted_score"] = (IF d \in passed THEN "pass" ELSE "fail")
            /\ \A t \in Scans!Stages \ {"weighted_score"} : record'[d].met[t] = record[d].met[t]
        <4> DEFINE res == IF d \in passed THEN "pass" ELSE "fail"
                   y   == Scans!Met(record[d], "weighted_score", res)
        <4>0. res \in Results
            BY DEF Results
        <4>1. record'[d] = y
            BY <1>1, <2>2, Zenon DEF Scans!PassFail
        <4> HIDE DEF res
        <4>2. /\ y \in Accounts /\ y.final = record[d].final
              /\ y.met["weighted_score"] = res
              /\ \A t \in Scans!Stages \ {"weighted_score"} : y.met[t] = record[d].met[t]
            BY <2>1, <4>0, MetAdds
        <4> HIDE DEF y
        <4> QED
            BY <2>1, <4>1, <4>2 DEF res
      <3> QED
          BY <1>1, <2>1, <2>2, <3>1 DEF MetSoFar, Turned, Scans!Stages
    <2>3. CASE d \notin open
        BY <1>1, <2>1, <2>3 DEF MetSoFar, Turned
    <2> QED
        BY <2>2, <2>3
  <1> QED
      BY <1>1, <1>2, <1>3 DEF ScanInv, Scans!Attributed

LEMMA ExhaustionKeeps ==
  ASSUME ScanInv, Scans!Exhaustion
  PROVE  ScanInv'
  <1>1. PICK fresh \in SUBSET open :
          /\ stage = "exhaustion" /\ stage' = "confidence" /\ UNCHANGED <<signal, open>>
          /\ record' = [d \in Scans!Dirs |-> IF d \in open
               THEN Scans!Met(record[d], "exhaustion", Scans!PassFail(d \in fresh)) ELSE record[d]]
      BY DEF Scans!Exhaustion
  <1>3. ASSUME NEW d \in Scans!Dirs
        PROVE  record'[d] \in Accounts /\ record'[d].final = "open" /\ MetSoFar(d)'
    <2>1. /\ record[d] \in Accounts /\ record[d].final = "open" /\ MetSoFar(d)
          /\ "exhaustion" \in Scans!Stages
        BY <1>1 DEF ScanInv, Scans!Stages
    <2>2. CASE d \in open
      <3>1. /\ record'[d] \in Accounts /\ record'[d].final = "open"
            /\ record'[d].met["exhaustion"] = (IF d \in fresh THEN "pass" ELSE "fail")
            /\ \A t \in Scans!Stages \ {"exhaustion"} : record'[d].met[t] = record[d].met[t]
        <4> DEFINE res == IF d \in fresh THEN "pass" ELSE "fail"
                   y   == Scans!Met(record[d], "exhaustion", res)
        <4>0. res \in Results
            BY DEF Results
        <4>1. record'[d] = y
            BY <1>1, <2>2, Zenon DEF Scans!PassFail
        <4> HIDE DEF res
        <4>2. /\ y \in Accounts /\ y.final = record[d].final
              /\ y.met["exhaustion"] = res
              /\ \A t \in Scans!Stages \ {"exhaustion"} : y.met[t] = record[d].met[t]
            BY <2>1, <4>0, MetAdds
        <4> HIDE DEF y
        <4> QED
            BY <2>1, <4>1, <4>2 DEF res
      <3> QED
          BY <1>1, <2>1, <2>2, <3>1 DEF MetSoFar, Turned, Scans!Stages
    <2>3. CASE d \notin open
        BY <1>1, <2>1, <2>3 DEF MetSoFar, Turned
    <2> QED
        BY <2>2, <2>3
  <1> QED
      BY <1>1, <1>3 DEF ScanInv, Scans!Attributed

\* A direction that is not open is blamed on the stage that turned it away.
LEMMA BackfilledRight ==
  ASSUME ScanInv, stage = "confidence", NEW d \in Scans!Dirs, d \notin open
  PROVE  LET x == Scans!Backfilled(record[d]) IN
         x \in Accounts /\ x.final # "PASS" /\ x.failed_at = Scans!Verdict(x)
  <1>1. /\ record[d] \in Accounts /\ Turned(record[d].met)
        /\ record[d].met["exhaustion"] = "unmet" /\ record[d].met["confidence"] = "unmet"
      BY DEF ScanInv, MetSoFar
  <1> DEFINE at == IF record[d].met["trigger_confirmation"] = "fail"
                       \/ record[d].met["weighted_score"] = "unmet"
                   THEN "trigger_confirmation" ELSE "weighted_score"
             x  == Scans!Backfilled(record[d])
  <1>2. x = Scans!Closed(record[d], at)
      BY DEF Scans!Backfilled
  <1>3. at \in {"trigger_confirmation", "weighted_score"} /\ at \in Scans!Stages
      BY DEF Scans!Stages
  <1>4. x \in Accounts /\ x.met = record[d].met /\ x.failed_at = at /\ x.final # "PASS"
      BY <1>1, <1>2, <1>3, ClosedAs
  <1>5. at = Scans!Verdict(x)
      BY <1>1, <1>4 DEF Turned, Scans!Verdict
  <1> QED
      BY <1>4, <1>5

\* The end of a scan closes the account of the direction that decided it and of
\* the one that did not.
LEMMA ReturnsKeeps ==
  ASSUME ScanInv, Scans!Confident \/ Scans!Exhausted \/ Scans!NoPullback
  PROVE  ScanInv'
  <1>0. stage = "confidence" /\ stage' = "idle" /\ UNCHANGED open
      BY DEF Scans!Confident, Scans!Exhausted, Scans!NoPullback, Scans!Returns
  <1>1. CASE Scans!NoPullback
    <2>1. /\ open = {} /\ signal' = "none"
          /\ record' = [d \in Scans!Dirs |-> Scans!Backfilled(record[d])]
        BY <1>1 DEF Scans!NoPullback
    <2>2. \A d \in Scans!Dirs :
            /\ record'[d] \in Accounts /\ record'[d].final # "PASS"
            /\ record'[d].failed_at = Scans!Verdict(record'[d])
        BY <1>0, <2>1, BackfilledRight
    <2>3. "none" \notin Scans!Dirs
        BY DEF Scans!Dirs
    <2> QED
        BY <1>0, <2>1, <2>2, <2>3 DEF ScanInv, Scans!Attributed
  <1>2. ASSUME NEW d \in open, NEW x \in Accounts, NEW outcome \in {d, "none"},
               Scans!Returns(d, x, outcome), x.failed_at = Scans!Verdict(x),
               x.final = "PASS" <=> outcome = d
        PROVE  ScanInv'
    <2>1. /\ signal' = outcome
          /\ record' = [e \in Scans!Dirs |-> IF e = d THEN x ELSE Scans!Backfilled(record[e])]
        BY <1>2 DEF Scans!Returns
    <2>2. d \in Scans!Dirs /\ \A e \in Scans!Dirs \ {d} : e \notin open /\ e # outcome
        BY <1>2 DEF ScanInv, Scans!Dirs
    <2>3. \A e \in Scans!Dirs \ {d} :
            /\ record'[e] \in Accounts /\ record'[e].final # "PASS"
            /\ record'[e].failed_at = Scans!Verdict(record'[e])
        BY <1>0, <2>1, <2>2, BackfilledRight
    <2> QED
        BY <1>0, <1>2, <2>1, <2>2, <2>3 DEF ScanInv, Scans!Attributed
  <1>3. open # {} => Scans!Leading \in open
      BY DEF ScanInv, Scans!Leading
  <1>4. CASE Scans!Exhausted
    <2> DEFINE d == Scans!Leading
               x == Scans!Closed(record[d], "exhaustion")
    <2>1. /\ d \in open /\ record[d].met["exhaustion"] = "fail"
          /\ Scans!Returns(d, x, "none")
        BY <1>3, <1>4 DEF Scans!Exhausted
    <2>2. d \in Scans!Dirs /\ record[d] \in Accounts /\ MetSoFar(d)
        BY <1>0, <2>1 DEF ScanInv, Scans!Dirs
    <2>3. /\ x \in Accounts /\ x.met = record[d].met /\ x.failed_at = "exhaustion"
          /\ x.final # "PASS"
        BY <2>2, ClosedAs DEF Scans!Stages
    <2>4. x.failed_at = Scans!Verdict(x)
        BY <1>0, <2>1, <2>2, <2>3 DEF MetSoFar, Scans!Verdict
    <2>5. d # "none"
        BY <2>2 DEF Scans!Dirs
    <2> QED
        BY <1>2, <2>1, <2>3, <2>4, <2>5
  <1>5. CASE Scans!Confident
    <2> DEFINE d == Scans!Leading
    <2>1. PICK enough \in BOOLEAN :
            /\ open # {} /\ record[d].met["exhaustion"] = "pass"
            /\ Scans!Returns(d, Scans!Closed(Scans!Met(record[d], "confidence", Scans!PassFail(enough)),
                                             IF enough THEN "none" ELSE "confidence"),
                             IF enough THEN d ELSE "none")
        BY <1>5 DEF Scans!Confident
    <2> DEFINE m == Scans!Met(record[d], "confidence", Scans!PassFail(enough))
               x == Scans!Closed(m, IF enough THEN "none" ELSE "confidence")
    <2>2. d \in open /\ d \in Scans!Dirs /\ record[d] \in Accounts /\ MetSoFar(d) /\ d # "none"
        BY <1>0, <1>3, <2>1 DEF ScanInv, Scans!Dirs
    <2>3. /\ m \in Accounts /\ m.met["confidence"] = (IF enough THEN "pass" ELSE "fail")
          /\ \A t \in Scans!Stages \ {"confidence"} : m.met[t] = record[d].met[t]
        BY <2>2, MetAdds DEF Scans!Stages, Scans!PassFail, Results
    <2>4. /\ x \in Accounts /\ x.met = m.met
          /\ x.failed_at = (IF enough THEN "none" ELSE "confidence")
          /\ x.final = "PASS" <=> enough
        BY <2>3, ClosedAs DEF Scans!Stages
    <2>5. x.failed_at = Scans!Verdict(x)
        BY <1>0, <2>1, <2>2, <2>3, <2>4 DEF MetSoFar, Scans!Verdict, Scans!Stages
    <2> HIDE DEF x, m, d
    <2>6. CASE enough
        BY <1>2, <2>1, <2>2, <2>4, <2>5, <2>6 DEF x, m
    <2>7. CASE ~enough
        BY <1>2, <2>1, <2>2, <2>4, <2>5, <2>7 DEF x, m
    <2> QED
        BY <2>6, <2>7
  <1> QED
      BY <1>1, <1>4, <1>5

LEMMA ScansKeep == ScanInv /\ [Scans!Next]_scanVars => ScanInv'
  <1> SUFFICES ASSUME ScanInv, [Scans!Next]_scanVars PROVE ScanInv'
      OBVIOUS
  <1>1. CASE Scans!Next
      BY <1>1, BeginKeeps, SetupKeeps, ScoreKeeps, ExhaustionKeeps, ReturnsKeeps
      DEF Scans!Next
  <1>2. CASE UNCHANGED scanVars
      BY <1>2 DEF scanVars, ScanInv, MetSoFar, Scans!Attributed
  <1> QED
      BY <1>1, <1>2

\* Every finished decision blames the stage that really turned the direction
\* away, for the decided and for the backfilled direction (generate_signal and
\* _finalize_strategy_decision).
THEOREM DecisionsAttributed == PathSpec => [](part = "scans" => Scans!Attributed)
  <1> DEFINE SInv == part = "scans" => ScanInv
  <1>1. PathInit => SInv
      BY ScansStart DEF PathInit
  <1>2. SInv /\ [PathNext]_pathVars => SInv'
    <2> SUFFICES ASSUME SInv, [PathNext]_pathVars, part' = "scans" PROVE ScanInv'
        OBVIOUS
    <2>1. part = "scans" /\ [Scans!Next]_scanVars
        BY DEF PathNext, FeedMoves, SignalMoves, MarketMoves, ScanMoves, pathVars
    <2> QED
        BY <2>1, ScansKeep
  <1>3. SInv => (part = "scans" => Scans!Attributed)
      BY DEF ScanInv
  <1> QED
      BY <1>1, <1>2, <1>3, PTL DEF PathSpec

-----------------------------------------------------------------------------
(* The window of premiums and its median                                    *)
\* Numbers with an upper bound have a greatest one.
LEMMA Greatest ==
  ASSUME NEW S, S \subseteq Int, S # {}, NEW b \in Int, \A k \in S : k <= b
  PROVE  \E l \in S : \A k \in S : k <= l
  <1> DEFINE T == {b - k : k \in S}
             R == OpToRel(<, Nat)
  <1>0. \A k \in S : k \in Int /\ b - k \in Nat
      OBVIOUS
  <1>1. T \subseteq Nat /\ T # {}
      BY <1>0, Zenon
  <1>2. IsWellFoundedOn(R, Nat)
      BY NatLessThanWellFounded
  <1>3. PICK x \in T : \A y \in T : ~(<<y, x>> \in R)
    <2> HIDE DEF T, R
    <2> QED
        BY <1>1, <1>2, WFMin
  <1>4. \A y \in T : ~(y < x)
      BY <1>1, <1>3 DEF OpToRel
  <1>5. PICK l \in S : x = b - l
      OBVIOUS
  <1>6. ASSUME NEW k \in S PROVE k <= l
    <2>1. b - k \in T
        OBVIOUS
    <2>2. ~(b - k < b - l)
        BY <1>4, <1>5, <2>1
    <2>3. k \in Int /\ l \in Int
        BY <1>0
    <2> QED
        BY <2>2, <2>3
  <1> QED
      BY <1>6

\* Where s is below x, and where it is no more than x.
Under(s, x) == {j \in 1..Len(s) : s[j] < x}
Within(s, x) == {j \in 1..Len(s) : s[j] <= x}

LEMMA CountsAre == ASSUME NEW S PROVE Scans!Cardinality(S) = Cardinality(S)
  BY DEF Scans!Cardinality, Cardinality

LEMMA AllPositions == ASSUME NEW n \in Nat PROVE IsFiniteSet(1..n) /\ Cardinality(1..n) = n
  <1>1. IsFiniteSet(1..n) /\ Cardinality(1..n) = IF 1 > n THEN 0 ELSE n - 1 + 1
      BY FS_Interval
  <1> QED
      BY <1>1

\* Positions are counted.
LEMMA PositionsCount ==
  ASSUME NEW s \in Seq(Nat), NEW S \in SUBSET (1..Len(s))
  PROVE  /\ IsFiniteSet(S) /\ Cardinality(S) \in 0..Len(s)
         /\ \A T \in SUBSET S : /\ Cardinality(T) \in Nat /\ Cardinality(T) <= Cardinality(S)
                                /\ T # S => Cardinality(T) < Cardinality(S)
  <1>1. Len(s) \in Nat
      OBVIOUS
  <1>2. IsFiniteSet(1..Len(s)) /\ Cardinality(1..Len(s)) = Len(s)
      BY <1>1, AllPositions
  <1>3. IsFiniteSet(S) /\ Cardinality(S) <= Len(s) /\ Cardinality(S) \in Nat
      BY <1>2, FS_Subset, FS_CardinalityType
  <1>4. ASSUME NEW T \in SUBSET S
        PROVE  /\ Cardinality(T) \in Nat /\ Cardinality(T) <= Cardinality(S)
               /\ T # S => Cardinality(T) < Cardinality(S)
    <2>1. IsFiniteSet(T) /\ Cardinality(T) <= Cardinality(S) /\ (Cardinality(S) = Cardinality(T) => S = T)
        BY <1>3, FS_Subset
    <2>2. Cardinality(T) \in Nat
        BY <2>1, FS_CardinalityType
    <2> QED
        BY <1>3, <2>1, <2>2
  <1> QED
      BY <1>1, <1>3, <1>4

\* Some position has the greatest value.
LEMMA TopPosition ==
  ASSUME NEW s \in Seq(Nat), NEW D \in SUBSET (1..Len(s)), D # {}
  PROVE  \E j \in D : \A i \in D : s[i] <= s[j]
  <1> DEFINE C(j) == Cardinality(Within(s, s[j]))
             S == {C(j) : j \in D}
  <1>0. \A j \in 1..Len(s) : s[j] \in Nat
      OBVIOUS
  <1>1. \A j \in D : Within(s, s[j]) \in SUBSET (1..Len(s))
      BY DEF Within
  <1>2. \A j \in D : C(j) \in 0..Len(s)
      BY <1>1, PositionsCount
  <1>i. \A i, j \in D : Within(s, s[j]) \in SUBSET Within(s, s[i]) /\ Within(s, s[j]) # Within(s, s[i]) => C(j) < C(i)
      BY <1>1, PositionsCount
  <1> HIDE DEF C
  <1>b. Len(s) \in Int /\ \A j \in D : C(j) \in Int /\ C(j) <= Len(s)
      BY <1>2
  <1>3. S \subseteq Int /\ S # {} /\ \A k \in S : k <= Len(s)
      BY <1>b, Zenon
  <1>4. \E l \in S : \A k \in S : k <= l
    <2> HIDE DEF S
    <2> QED
        BY <1>3, <1>b, Greatest
  <1>5. PICK j \in D : \A i \in D : C(i) <= C(j)
      BY <1>4
  <1>6. ASSUME NEW i \in D, ~(s[i] <= s[j]) PROVE FALSE
    <2>1. /\ Within(s, s[j]) \in SUBSET Within(s, s[i]) /\ i \in Within(s, s[i])
          /\ i \notin Within(s, s[j])
        BY <1>0, <1>6 DEF Within
    <2>2. C(j) < C(i)
        BY <1>i, <2>1
    <2>3. C(i) <= C(j) /\ C(i) \in Int /\ C(j) \in Int
        BY <1>2, <1>5
    <2> QED
        BY <2>2, <2>3
  <1> QED
      BY <1>6

\* And some the least.
LEMMA BottomPosition ==
  ASSUME NEW s \in Seq(Nat), NEW D \in SUBSET (1..Len(s)), D # {}
  PROVE  \E j \in D : \A i \in D : s[j] <= s[i]
  <1> DEFINE S == {0 - s[j] : j \in D}
  <1>0. \A j \in D : s[j] \in Nat /\ 0 - s[j] \in Int /\ 0 - s[j] <= 0
      OBVIOUS
  <1>1. S \subseteq Int /\ S # {} /\ \A n \in S : n <= 0
      BY <1>0, Zenon
  <1>2. PICK l \in S : \A n \in S : n <= l
    <2> HIDE DEF S
    <2> QED
        BY <1>1, Greatest, 0 \in Int
  <1>3. PICK j \in D : l = 0 - s[j]
      OBVIOUS
  <1>4. ASSUME NEW i \in D PROVE s[j] <= s[i]
    <2>1. 0 - s[i] \in S
        OBVIOUS
    <2>2. 0 - s[i] <= 0 - s[j]
        BY <1>2, <1>3, <2>1
    <2> QED
        BY <1>0, <2>2
  <1> QED
      BY <1>4

\* The k-th smallest has fewer than k below it, and k up to it.
NthFits(s, k, x) ==
  /\ x \in {s[j] : j \in 1..Len(s)}
  /\ Cardinality(Under(s, x)) < k /\ k <= Cardinality(Within(s, x))

LEMMA NthFound ==
  ASSUME NEW s \in Seq(Nat), NEW k \in 1..Len(s)
  PROVE  \E x \in Nat : NthFits(s, k, x)
  <1> DEFINE D == {j \in 1..Len(s) : Cardinality(Under(s, s[j])) < k}
  <1>0. \A j \in 1..Len(s) : s[j] \in Nat
      OBVIOUS
  <1>1. D # {}
    <2>1. 1..Len(s) # {} /\ k \in Nat /\ 0 < k
        OBVIOUS
    <2>2. PICK j \in 1..Len(s) : \A i \in 1..Len(s) : s[j] <= s[i]
        BY <2>1, BottomPosition
    <2>3. Under(s, s[j]) = {}
        BY <1>0, <2>2 DEF Under
    <2>4. Cardinality(Under(s, s[j])) = 0
        BY <2>3, FS_EmptySet
    <2> QED
        BY <2>1, <2>4
  <1>2. PICK j \in D : \A i \in D : s[i] <= s[j]
    <2>1. D \in SUBSET (1..Len(s))
        OBVIOUS
    <2> HIDE DEF D
    <2> QED
        BY <1>1, <2>1, TopPosition
  <1>3. CASE Cardinality(Within(s, s[j])) >= k
      BY <1>0, <1>2, <1>3 DEF NthFits
  <1>4. CASE ~(Cardinality(Within(s, s[j])) >= k)
    <2>1. Within(s, s[j]) \in SUBSET (1..Len(s)) /\ k \in Nat /\ k <= Len(s) /\ Len(s) \in Nat
        BY DEF Within
    <2>2. Cardinality(Within(s, s[j])) \in 0..Len(s)
        BY <2>1, PositionsCount
    <2>3. Cardinality(Within(s, s[j])) < k
        BY <1>4, <2>1, <2>2
    <2>4. Within(s, s[j]) # 1..Len(s)
        BY <2>1, <2>3, AllPositions
    <2> DEFINE M == (1..Len(s)) \ Within(s, s[j])
    <2>5. M \in SUBSET (1..Len(s)) /\ M # {}
        BY <2>1, <2>4
    <2>6. PICK i \in M : \A h \in M : s[i] <= s[h]
      <3> HIDE DEF M
      <3> QED
          BY <2>5, BottomPosition
    <2>7. Under(s, s[i]) = Within(s, s[j]) /\ ~(s[i] <= s[j])
        BY <1>0, <2>6 DEF Under, Within
    <2>8. i \in D
        BY <2>3, <2>6, <2>7
    <2> QED
        BY <1>2, <2>7, <2>8
  <1> QED
      BY <1>3, <1>4

LEMMA NthIs ==
  ASSUME NEW s \in Seq(Nat), NEW k \in 1..Len(s)
  PROVE  NthFits(s, k, Scans!Nth(s, k)) /\ Scans!Nth(s, k) \in Nat
  <1> DEFINE P(x) == /\ Scans!Cardinality({j \in DOMAIN s : s[j] < x}) < k
                     /\ k <= Scans!Cardinality({j \in DOMAIN s : s[j] <= x})
  <1>0. DOMAIN s = 1..Len(s) /\ \A j \in 1..Len(s) : s[j] \in Nat
      OBVIOUS
  <1>1. ASSUME NEW x PROVE NthFits(s, k, x) <=> x \in {s[j] : j \in DOMAIN s} /\ P(x)
      BY <1>0, CountsAre DEF NthFits, Under, Within
  <1>2. \E x \in {s[j] : j \in DOMAIN s} : P(x)
      BY <1>1, NthFound
  <1>3. Scans!Nth(s, k) = CHOOSE x \in {s[j] : j \in DOMAIN s} : P(x)
      BY DEF Scans!Nth
  <1> HIDE DEF P
  <1>4. Scans!Nth(s, k) \in {s[j] : j \in DOMAIN s} /\ P(Scans!Nth(s, k))
      BY <1>2, <1>3
  <1> QED
      BY <1>0, <1>1, <1>4

\* A later one is no smaller.
LEMMA NthsGoUp ==
  ASSUME NEW s \in Seq(Nat), NEW k \in 1..Len(s), NEW h \in 1..Len(s), k < h
  PROVE  Scans!Nth(s, k) <= Scans!Nth(s, h)
  <1> DEFINE x == Scans!Nth(s, k)
             y == Scans!Nth(s, h)
  <1>1. x \in Nat /\ y \in Nat /\ NthFits(s, k, x) /\ NthFits(s, h, y)
      BY NthIs
  <1> HIDE DEF x, y
  <1>2. SUFFICES ASSUME y < x PROVE FALSE
      BY <1>1 DEF x, y
  <1>0. \A j \in 1..Len(s) : s[j] \in Nat
      OBVIOUS
  <1>3. Within(s, y) \in SUBSET Under(s, x) /\ Under(s, x) \in SUBSET (1..Len(s))
      BY <1>0, <1>1, <1>2 DEF Within, Under
  <1>4. /\ Cardinality(Within(s, y)) \in Nat /\ Cardinality(Under(s, x)) \in Nat
        /\ Cardinality(Within(s, y)) <= Cardinality(Under(s, x))
    <2>1. Cardinality(Under(s, x)) \in 0..Len(s)
        BY <1>3, PositionsCount
    <2> QED
        BY <1>3, <2>1, PositionsCount
  <1>5. Cardinality(Under(s, x)) < k /\ h <= Cardinality(Within(s, y))
      BY <1>1 DEF NthFits
  <1> QED
      BY <1>4, <1>5

LEMMA MedianIs == ASSUME NEW s \in Seq(Nat), s # <<>> PROVE Scans!TwiceMedian(s) \in Nat
  <1> DEFINE n == Len(s)
  <1>1. n \in Nat /\ n > 0
      OBVIOUS
  <1> HIDE DEF n
  <1>2. n \div 2 + 1 \in 1..n /\ (n % 2 # 1 => n \div 2 \in 1..n)
      BY <1>1
  <1>3. Scans!Nth(s, n \div 2 + 1) \in Nat /\ (n % 2 # 1 => Scans!Nth(s, n \div 2) \in Nat)
      BY <1>2, NthIs DEF n
  <1> QED
      BY <1>3 DEF Scans!TwiceMedian, n

\* More than half of a window holds a value no less than its median.
LEMMA MedianBelow ==
  ASSUME NEW s \in Seq(Nat), s # <<>>, NEW m \in 0..Len(s), 2 * (Len(s) - m) > Len(s)
  PROVE  \E j \in 1..Len(s) : j > m /\ Scans!TwiceMedian(s) <= 2 * s[j]
  <1> DEFINE n == Len(s)
             h == n \div 2 + 1
             x == Scans!Nth(s, h)
             low == Scans!Nth(s, n \div 2)
             L == (m + 1)..n
  <1>0. n \in Nat /\ n > 0 /\ m \in Nat /\ m <= n /\ 2 * m < n /\ \A j \in 1..n : s[j] \in Nat
      OBVIOUS
  <1> HIDE DEF n
  <1>1. h \in 1..n /\ m < h /\ (n % 2 # 1 => n \div 2 \in 1..n /\ n \div 2 < h)
      BY <1>0
  <1>2. x \in Nat /\ NthFits(s, h, x)
      BY <1>1, NthIs DEF n
  <1>3. Scans!TwiceMedian(s) = IF n % 2 = 1 THEN 2 * x ELSE low + x
      BY DEF Scans!TwiceMedian, n
  <1>4. n % 2 # 1 => low \in Nat /\ low <= x
      BY <1>1, NthIs, NthsGoUp DEF n
  <1> HIDE DEF x, low, h
  <1>5. Scans!TwiceMedian(s) <= 2 * x /\ Scans!TwiceMedian(s) \in Int
      BY <1>2, <1>3, <1>4
  <1>6. \E j \in L : ~(s[j] < x)
    <2>1. SUFFICES ASSUME \A j \in L : s[j] < x PROVE FALSE
        OBVIOUS
    <2>2. L \in SUBSET Under(s, x) /\ Under(s, x) \in SUBSET (1..n)
        BY <1>0, <2>1 DEF Under, n
    <2>3. Cardinality(Under(s, x)) < h /\ Cardinality(Under(s, x)) \in 0..n
        BY <1>2, <2>2, PositionsCount DEF NthFits, n
    <2>4. Cardinality(L) <= Cardinality(Under(s, x))
        BY <2>2, PositionsCount DEF n
    <2>5. Cardinality(L) = n - m
      <3>1. Cardinality(L) = IF m + 1 > n THEN 0 ELSE n - (m + 1) + 1
          BY <1>0, FS_Interval
      <3> QED
          BY <1>0, <3>1
    <2>6. h \in Int /\ n - m < h
        BY <1>1, <2>3, <2>4, <2>5, <1>0
    <2> QED
        BY <1>0, <2>6 DEF h
  <1>7. PICK j \in L : ~(s[j] < x)
      BY <1>6
  <1>8. j \in 1..n /\ j > m /\ s[j] \in Nat
      BY <1>0
  <1> QED
      BY <1>2, <1>5, <1>7, <1>8 DEF n

-----------------------------------------------------------------------------
\* The window holds valid premiums, the newest last, and while an anomaly
\* stands the newest is one.
WindowFit ==
  /\ recent \in Seq(Nat) /\ Len(recent) <= WindowMax /\ anomalies \in Nat
  /\ anomalies > 0 => recent # <<>> /\ Scans!Anomalous(recent[Len(recent)], recent)

LEMMA Grown ==
  ASSUME NEW s \in Seq(Nat), NEW p \in Nat
  PROVE  /\ Append(s, p) \in Seq(Nat) /\ Len(Append(s, p)) = Len(s) + 1
         /\ Append(s, p)[Len(s) + 1] = p /\ Append(s, p) # <<>>
  OBVIOUS

LEMMA PushedLast ==
  ASSUME NEW s \in Seq(Nat), Len(s) <= WindowMax, NEW p \in Nat
  PROVE  LET w == Scans!Push(s, p) IN
         w \in Seq(Nat) /\ Len(w) <= WindowMax /\ w # <<>> /\ w[Len(w)] = p
  <1>1. WindowMax \in Nat /\ WindowMax > 0
      BY ScanAssumption
  <1>2. CASE Len(s) = WindowMax
    <2>1. s # <<>> /\ Tail(s) \in Seq(Nat) /\ Len(Tail(s)) = WindowMax - 1
        BY <1>1, <1>2
    <2>2. Scans!Push(s, p) = Append(Tail(s), p)
        BY <1>2 DEF Scans!Push
    <2> DEFINE t == Tail(s)
    <2>3. t \in Seq(Nat) /\ Len(t) = WindowMax - 1
        BY <2>1
    <2> HIDE DEF t
    <2>4. /\ Append(t, p) \in Seq(Nat) /\ Len(Append(t, p)) = Len(t) + 1
          /\ Append(t, p)[Len(t) + 1] = p /\ Append(t, p) # <<>>
        BY <2>3, Grown
    <2> QED
        BY <1>1, <2>2, <2>3, <2>4 DEF t
  <1>3. CASE Len(s) # WindowMax
    <2>1. Scans!Push(s, p) = Append(s, p)
        BY <1>3 DEF Scans!Push
    <2>2. /\ Append(s, p) \in Seq(Nat) /\ Len(Append(s, p)) = Len(s) + 1
          /\ Append(s, p)[Len(s) + 1] = p /\ Append(s, p) # <<>>
        BY Grown
    <2> QED
        BY <1>1, <1>3, <2>1, <2>2
  <1> QED
      BY <1>2, <1>3

LEMMA WindowKeeps == ASSUME WindowFit, [Scans!Next]_scanVars PROVE WindowFit'
  <1>1. CASE UNCHANGED <<recent, anomalies>>
      BY <1>1 DEF WindowFit
  <1>2. CASE Scans!PremiumChecked
    <2>1. PICK p \in ScanPremiums :
            /\ recent' = Scans!Remembered(p)
            /\ anomalies' = IF p < MinPremium THEN anomalies
                            ELSE IF Scans!Anomalous(p, Scans!Remembered(p)) THEN anomalies + 1 ELSE 0
        BY <1>2, Zenon DEF Scans!PremiumChecked
    <2>2. p \in Nat /\ MinPremium \in Nat
        BY ScanAssumption
    <2>3. CASE p < MinPremium
        BY <1>1, <2>1, <2>2, <2>3 DEF Scans!Remembered
    <2>4. CASE ~(p < MinPremium)
      <3>1. Scans!Remembered(p) = Scans!Push(recent, p)
          BY <2>2, <2>4 DEF Scans!Remembered
      <3>2. /\ recent' \in Seq(Nat) /\ Len(recent') <= WindowMax /\ recent' # <<>>
            /\ recent'[Len(recent')] = p
          BY <2>1, <2>2, <3>1, PushedLast DEF WindowFit
      <3>3. anomalies' = IF Scans!Anomalous(p, recent') THEN anomalies + 1 ELSE 0
          BY <2>1, <2>4
      <3>4. anomalies' \in Nat /\ (anomalies' > 0 => Scans!Anomalous(p, recent'))
          BY <3>3 DEF WindowFit
      <3> QED
          BY <3>2, <3>4 DEF WindowFit
    <2> QED
        BY <2>3, <2>4
  <1>3. CASE Scans!Next /\ ~Scans!PremiumChecked
    <2>1. UNCHANGED <<recent, anomalies>>
        BY <1>3, Zenon DEF Scans!Next, Scans!TurnedAway, Scans!GateShut, Scans!GatesOpen, Scans!Setup,
           Scans!Weighted, Scans!Exhaustion, Scans!Confident, Scans!Exhausted, Scans!NoPullback, Scans!Returns
    <2> QED
        BY <1>1, <2>1
  <1> QED
      BY <1>1, <1>2, <1>3 DEF scanVars

LEMMA WindowHeals == WindowFit => Scans!AnomalyHeals
  <1> SUFFICES ASSUME WindowFit, anomalies > WindowMax \div 2
               PROVE  \E j \in DOMAIN recent : j > Len(recent) - anomalies /\ 100 * recent[Len(recent)] < 35 * recent[j]
      BY DEF Scans!AnomalyHeals
  <1> DEFINE n == Len(recent)
             m == IF anomalies >= n THEN 0 ELSE n - anomalies
             p == recent[n]
  <1>1. /\ anomalies \in Nat /\ n \in Nat /\ n <= WindowMax /\ WindowMax \in Nat /\ WindowMax > 0
        /\ recent \in Seq(Nat) /\ DOMAIN recent = 1..n
      BY ScanAssumption DEF WindowFit
  <1>2. anomalies > 0 /\ 2 * anomalies > WindowMax
    <2>1. WindowMax \div 2 \in Nat /\ WindowMax < 2 * (WindowMax \div 2) + 2
        BY <1>1
    <2> QED
        BY <1>1, <2>1
  <1>3. recent # <<>> /\ Scans!Anomalous(p, recent)
      BY <1>2 DEF WindowFit
  <1>4. n > 0 /\ p \in Nat
      BY <1>1, <1>3
  <1> HIDE DEF n
  <1>5. m \in 0..n /\ 2 * (n - m) > n /\ m >= n - anomalies
      BY <1>1, <1>2, <1>4
  <1> HIDE DEF m
  <1>6. PICK j \in 1..n : j > m /\ Scans!TwiceMedian(recent) <= 2 * recent[j]
      BY <1>1, <1>3, <1>5, MedianBelow DEF n
  <1>7. 200 * p < 35 * Scans!TwiceMedian(recent)
      BY <1>3 DEF Scans!Anomalous
  <1>8. Scans!TwiceMedian(recent) \in Int /\ recent[j] \in Nat
    <2>1. recent[j] \in Nat
        BY <1>1
    <2> QED
        BY <1>1, <1>3, <2>1, MedianIs
  <1>9. 100 * p < 35 * recent[j] /\ j > n - anomalies
      BY <1>1, <1>4, <1>5, <1>6, <1>7, <1>8
  <1> QED
      BY <1>1, <1>9 DEF n

\* Every finished strategy_decision blames the stage that really turned the
\* direction away, and a fall of the market stops being an anomaly within half
\* a window of valid premiums, unless it falls on by as much (generate_signal
\* and check_premium_filter of smart_scalp_v3.py).
THEOREM ScansStayExplained == PathSpec => []ScansExplained
  <1> DEFINE WInv == part = "scans" => WindowFit
  <1>1. PathInit => WInv
    <2> SUFFICES ASSUME PathInit, part = "scans" PROVE WindowFit
        OBVIOUS
    <2>1. recent = <<>> /\ anomalies = 0
        BY Zenon DEF PathInit, Scans!Init
    <2> QED
        BY <2>1, ScanAssumption DEF WindowFit
  <1>2. WInv /\ [PathNext]_pathVars => WInv'
    <2> SUFFICES ASSUME WInv, [PathNext]_pathVars, part' = "scans" PROVE WindowFit'
        OBVIOUS
    <2>1. part = "scans" /\ [Scans!Next]_scanVars
        BY DEF PathNext, FeedMoves, SignalMoves, MarketMoves, ScanMoves, pathVars
    <2> QED
        BY <2>1, WindowKeeps
  <1>3. WInv => (part = "scans" => Scans!AnomalyHeals)
      BY WindowHeals
  <1>4. (part = "scans" => Scans!Attributed) /\ (part = "scans" => Scans!AnomalyHeals) => ScansExplained
      BY DEF ScansExplained
  <1> QED
      BY <1>1, <1>2, <1>3, <1>4, DecisionsAttributed, PTL DEF PathSpec
=============================================================================
