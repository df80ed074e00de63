----------------------------- MODULE ContractFeed -----------------------------
(***************************************************************************)
(* Which contract a price is of: get_tick (core/trading/broker.py), the    *)
(* stream callback and the REST fallback (tick_feed.py), the changes of    *)
(* contract by rotation (strike_selector.py), by the REST path and by      *)
(* place_order (order_execution.py), and what idle, entry and in-trade     *)
(* passes make of the tick.  The main thread changes current_symbol and    *)
(* _option_token one after the other and without the tick lock; stream     *)
(* ticks, drops and reconnects come in between.                            *)
(***************************************************************************)
EXTENDS Integers, FiniteSets

CONSTANTS
  Contracts,   \* option contracts; a token stands for its contract
  First,       \* the contract of the login
  None,
  Sim,         \* the contract a simulated price is of: none that is traded
  Paper,       \* PAPER_TRADING
  MaxJobs,     \* bound: passes of the main loop
  MaxJoins     \* bound: reconnects

ASSUME ContractAssumption ==
  /\ First \in Contracts /\ None \notin Contracts /\ Sim \notin Contracts \cup {None}
  /\ IsFiniteSet(Contracts) /\ Paper \in BOOLEAN /\ MaxJobs \in Nat /\ MaxJoins \in Nat

VARIABLES
  sym, tok,    \* current_symbol, _option_token
  subs,        \* tokens the socket delivers
  conn,        \* _ws_connected
  join,        \* a reconnect: "off", "start", "ready", and the token it read
  last,        \* last_tick
  cached,      \* _cached_option_tick
  inflight,    \* the stream tick in _on_ws_tick, which holds the tick lock
  pc, job, why,\* where the main thread stands, for what, and why it switches
  old,         \* old_token
  target,      \* option_symbol of place_order
  tick,        \* what get_tick returned
  trade,       \* the contract of the open trade
  entry,       \* history: the contract of the entry price (live: of the LIMIT price)
  adrift,      \* history: the REST path moved away from the open trade
  skipped,     \* history: a switch left the stream alone and its tick uncleared
  jobs, joins

feed   == <<sym, tok, subs, conn, join, last, cached, inflight, skipped>>
held   == <<last, skipped>>
caches == <<held, cached>>
call   == <<pc, job, why, old, target>>
result == <<tick, trade, entry, adrift>>
vars   == <<feed, call, result, jobs, joins>>

NoTick == [sym |-> None, of |-> None, blind |-> FALSE]
Price(s, c, b) == [sym |-> s, of |-> c, blind |-> b]
\* What a REST fetch brings, and a tick of _get_simulated_tick.
Own       == Price(sym, sym, FALSE)
Simulated == Price(sym, Sim, FALSE)

Locked == inflight # None

Ticks == [sym : Contracts \cup {None}, of : Contracts \cup {None, Sim}, blind : BOOLEAN]

\* Types, and that no pass looks for an entry with a trade open.
TypeOK ==
  /\ sym \in Contracts /\ tok \in Contracts \cup {None} /\ subs \subseteq Contracts
  /\ {conn, adrift, skipped} \subseteq BOOLEAN
  /\ join \in [at : {"off", "start", "ready"}, tok : Contracts \cup {None}]
  /\ last \in Ticks /\ cached \in Ticks /\ tick \in Ticks
  /\ inflight \in Contracts \cup {None}
  /\ pc \in {"free", "ask", "token", "resub", "fetch", "clear", "sync", "got"}
  /\ job \in {"none", "scan", "order", "hold", "close"}
  /\ why \in {"none", "rotate", "adjust", "order"}
  /\ {old, target, trade} \subseteq Contracts \cup {None}
  /\ entry \in Contracts \cup {None, Sim}
  /\ job \in {"scan", "order"} => trade = None
  /\ jobs \in 0..MaxJobs /\ joins \in 0..MaxJoins

Off == [at |-> "off", tok |-> None]

Init ==
  /\ sym = First /\ tok = First /\ subs = {First} /\ conn = TRUE /\ join = Off
  /\ last = NoTick /\ cached = NoTick /\ inflight = None
  /\ pc = "free" /\ job = "none" /\ why = "none" /\ old = None /\ target = None
  /\ tick = NoTick /\ trade = None /\ entry = None
  /\ adrift = FALSE /\ skipped = FALSE /\ jobs = 0 /\ joins = 0

\* The main thread is back in its loop and its locals are gone.
Done ==
  /\ pc' = "free" /\ job' = "none" /\ why' = "none"
  /\ old' = None /\ target' = None /\ tick' = NoTick

Stored(t) == last' = t /\ skipped' = FALSE
ClearTick == ~Locked /\ Stored(NoTick)

-----------------------------------------------------------------------------
(* The stream.                                                              *)
\* _on_ws_tick takes the lock and lets through the current token, or any when
\* there is none.
WsAccept ==
  /\ ~Locked
  /\ \E c \in subs : (tok = None \/ c = tok) /\ inflight' = c
  /\ UNCHANGED <<sym, tok, subs, conn, join, caches, call, result, jobs, joins>>

\* It stamps the tick with the current symbol.
WsStore ==
  /\ Locked /\ inflight' = None
  /\ last' = Price(sym, inflight, tok = None) /\ skipped' = (skipped /\ inflight # tok)
  /\ UNCHANGED <<sym, tok, subs, conn, join, cached, call, result, jobs, joins>>

Drop ==
  /\ conn /\ conn' = FALSE /\ subs' \in {subs, {}}
  /\ UNCHANGED <<sym, tok, join, caches, inflight, call, result, jobs, joins>>

\* _start_websocket of another thread: the token is read, the subscription
\* clears the caches, and only then conn is set.
JoinStart ==
  /\ ~conn /\ join = Off /\ joins < MaxJoins /\ joins' = joins + 1
  /\ join' = [at |-> "start", tok |-> tok]
  /\ UNCHANGED <<sym, tok, subs, conn, caches, inflight, call, result, jobs>>

JoinSubscribed ==
  /\ join.at = "start"
  /\ subs' = {join.tok} \ {None} /\ ClearTick /\ cached' = NoTick
  /\ join' = [join EXCEPT !.at = "ready"]
  /\ UNCHANGED <<sym, tok, conn, inflight, call, result, jobs, joins>>

JoinEnds ==
  /\ join.at # "off" /\ join' = Off
  /\ conn' = (join.at = "ready" \/ conn)
  /\ UNCHANGED <<sym, tok, subs, caches, inflight, call, result, jobs, joins>>

-----------------------------------------------------------------------------
(* get_tick, for the job at hand.                                           *)
\* A pass of the loop: state_idle without a trade, state_in_trade with one.
Begin ==
  /\ pc = "free" /\ jobs < MaxJobs /\ jobs' = jobs + 1
  /\ pc' = "ask" /\ job' = (IF trade = None THEN "scan" ELSE "hold")
  /\ UNCHANGED <<feed, why, old, target, result, joins>>

Got(t) == tick' = t /\ pc' = "got" /\ UNCHANGED <<job, why, old, target>>

\* The stream tick if it is of the current symbol.
AskStream ==
  /\ pc = "ask" /\ ~Locked /\ conn /\ last # NoTick /\ last.sym = sym
  /\ Got([last EXCEPT !.blind = @ \/ skipped])
  /\ UNCHANGED <<feed, trade, entry, adrift, jobs, joins>>

\* A stream tick over 60 s old is replaced by a REST price, or it counts as a
\* disconnect.
AskStale ==
  /\ pc = "ask" /\ ~Locked /\ conn /\ last # NoTick
  /\ \/ /\ Stored(Own) /\ cached' = Own /\ Got(Own) /\ UNCHANGED conn
     \/ /\ Stored(NoTick) /\ cached' = NoTick /\ Got(NoTick) /\ conn' = FALSE
  /\ UNCHANGED <<sym, tok, subs, join, inflight, trade, entry, adrift, jobs, joins>>

\* A stream tick of another symbol is replaced by a REST price, by the cached
\* tick while the REST circuit is open, or by nothing.
AskMismatch ==
  /\ pc = "ask" /\ ~Locked /\ conn /\ last # NoTick /\ last.sym # sym
  /\ \/ Stored(Own) /\ cached' = Own /\ Got(Own)
     \/ cached # NoTick /\ Stored(cached) /\ Got(cached) /\ UNCHANGED cached
     \/ Got(NoTick) /\ UNCHANGED caches
  /\ UNCHANGED <<sym, tok, subs, conn, join, inflight, trade, entry, adrift, jobs, joins>>

Switch(c, reason) ==
  /\ sym' = c /\ old' = tok /\ why' = reason /\ pc' = "token"

\* Path 2; every 30 s the spot decides whether the strike is adjusted first.
AskRest ==
  /\ pc = "ask" /\ (~conn \/ last = NoTick)
  /\ \/ pc' = "fetch" /\ UNCHANGED <<sym, old, why, adrift>>
     \/ \E c \in Contracts \ {sym} :
          Switch(c, "adjust") /\ adrift' = (trade # None \/ job = "order")
  /\ UNCHANGED <<tok, subs, conn, join, caches, inflight, job, target, tick, trade, entry, jobs, joins>>

\* A REST price when one is due and comes, else the cached one, else path 3.
Fetch ==
  /\ pc = "fetch"
  /\ \/ cached' = Own /\ Got(Own)
     \/ cached # NoTick /\ Got(cached) /\ UNCHANGED cached
     \/ cached = NoTick /\ Got(Simulated) /\ UNCHANGED cached
  /\ UNCHANGED <<sym, tok, subs, conn, join, held, inflight, trade, entry, adrift, jobs, joins>>

-----------------------------------------------------------------------------
(* Changing the contract.                                                   *)
\* _get_token; it may find none.
ReadToken ==
  /\ pc = "token" /\ tok' \in {sym, None} /\ pc' = "resub"
  /\ UNCHANGED <<sym, subs, conn, join, caches, inflight, job, why, old, target, result, jobs, joins>>

\* A subscription that took clears both caches; the old token may linger.
Subscribed ==
  /\ ClearTick /\ cached' = NoTick
  /\ subs' \in {subs \cup {tok}, (subs \ {old}) \cup {tok}} /\ UNCHANGED conn
\* Without a first tick it is taken back; without a socket conn falls.
NotSubscribed == conn' \in {conn, FALSE} /\ subs' = subs \ {tok, old} /\ UNCHANGED cached

Streamed == conn /\ tok # None

ResubRotate ==
  /\ pc = "resub" /\ why = "rotate" /\ pc' = "clear"
  /\ IF Streamed THEN Subscribed \/ (NotSubscribed /\ UNCHANGED held)
     ELSE UNCHANGED <<subs, conn, caches>>
  /\ UNCHANGED <<sym, tok, join, inflight, job, why, old, target, result, jobs, joins>>

ResubAdjust ==
  /\ pc = "resub" /\ why = "adjust" /\ pc' = "fetch" /\ why' = "none" /\ old' = None
  /\ IF Streamed /\ tok # old THEN Subscribed \/ (NotSubscribed /\ ClearTick)
     ELSE skipped' = TRUE /\ UNCHANGED <<subs, conn, last, cached>>
  /\ UNCHANGED <<sym, tok, join, inflight, job, target, result, jobs, joins>>

\* Slip: place_order keeps the old tick over the switch.
ResubOrderKeeps ==
  /\ pc = "resub" /\ why = "order" /\ why' = "none" /\ old' = None /\ pc' = "sync"
  /\ UNCHANGED <<sym, tok, subs, conn, join, caches, inflight, job, target, result, jobs, joins>>

\* A failed subscription ends the order.
ResubOrder ==
  /\ pc = "resub" /\ why = "order"
  /\ \/ Streamed /\ NotSubscribed /\ ClearTick /\ Done
     \/ /\ \/ Streamed /\ Subscribed
           \/ ~Streamed /\ skipped' = TRUE /\ UNCHANGED <<subs, conn, last, cached>>
        /\ pc' = "sync" /\ why' = "none" /\ old' = None /\ UNCHANGED <<job, target, tick>>
  /\ UNCHANGED <<sym, tok, join, inflight, trade, entry, adrift, jobs, joins>>

Rotated ==
  /\ pc = "clear" /\ ClearTick /\ cached' = NoTick /\ Done
  /\ UNCHANGED <<sym, tok, subs, conn, join, inflight, trade, entry, adrift, jobs, joins>>

-----------------------------------------------------------------------------
(* What the passes do with the tick.                                        *)
\* state_idle: nothing, a rotation, or on to ENTRY_READY and place_order.
Scan ==
  /\ pc = "got" /\ job = "scan"
  /\ \/ Done /\ UNCHANGED sym
     \/ /\ tick # NoTick /\ UNCHANGED <<job, target>> /\ tick' = NoTick
        /\ \E c \in Contracts \ {sym} : Switch(c, "rotate")
     \/ /\ tick # NoTick /\ job' = "order" /\ tick' = NoTick
        /\ \E c \in Contracts :
             /\ target' = c
             /\ IF c # sym THEN Switch(c, "order")
                ELSE pc' = "sync" /\ UNCHANGED <<sym, old, why>>
  /\ UNCHANGED <<tok, subs, conn, join, caches, inflight, trade, entry, adrift, jobs, joins>>

Synced == ~Locked /\ last.sym = target /\ last.of = tok
\* _ensure_symbol_sync_before_order; without a tick in time the order is off.
Sync ==
  /\ pc = "sync"
  /\ \/ (~Streamed \/ Synced) /\ pc' = "ask" /\ UNCHANGED <<job, why, old, target, tick>>
     \/ Streamed /\ Done
  /\ UNCHANGED <<feed, trade, entry, adrift, jobs, joins>>

\* Slip: the trade is booked under the label of the tick.
LabelBought == tick.sym
\* The contract the trade is booked under.
Bought == target

\* Paper fetches once more when the tick names another contract, and takes what
\* it has when that fails; live takes the tick as it is, if it has the token.
Enter ==
  /\ pc = "got" /\ job = "order" /\ Done
  /\ \/ UNCHANGED <<trade, entry, cached>> /\ adrift' = FALSE      \* no token, or no fill
     \/ /\ tick # NoTick /\ trade' = Bought /\ adrift' = (sym # target)
        /\ \/ entry' = tick.of /\ UNCHANGED cached
           \/ /\ Paper /\ tick.sym # target /\ cached' = Own
              /\ entry' = sym
  /\ UNCHANGED <<sym, tok, subs, conn, join, held, inflight, jobs, joins>>

Closed == trade' = None /\ entry' = None /\ adrift' = FALSE
Kept   == UNCHANGED <<trade, entry, adrift>>

\* state_in_trade waits out a tick that names another contract.  The exits of
\* the kill switch and of a stop take any tick.  After an exit of its own it
\* may rotate.  Without a tick the network counts as down and the trade is
\* closed on another get_tick.
Hold ==
  /\ pc = "got" /\ job = "hold"
  /\ \/ Kept /\ Done /\ UNCHANGED sym
     \/ tick # NoTick /\ Closed /\ Done /\ UNCHANGED sym
     \/ /\ tick.sym = trade /\ Closed /\ tick' = NoTick /\ UNCHANGED <<job, target>>
        /\ \E c \in Contracts \ {sym} : Switch(c, "rotate")
     \/ /\ tick = NoTick /\ Kept /\ pc' = "ask" /\ job' = "close"
        /\ UNCHANGED <<sym, why, old, target, tick>>
  /\ UNCHANGED <<tok, subs, conn, join, caches, inflight, jobs, joins>>

Close ==
  /\ pc = "got" /\ job = "close" /\ Done
  /\ IF tick = NoTick THEN Kept ELSE Closed
  /\ UNCHANGED <<feed, jobs, joins>>

Stream  == WsAccept \/ WsStore \/ Drop \/ JoinStart \/ JoinSubscribed \/ JoinEnds
Ask     == AskStream \/ AskStale \/ AskMismatch \/ AskRest \/ Fetch
Contract == ReadToken \/ ResubRotate \/ ResubAdjust \/ ResubOrder \/ Rotated
Passes  == Scan \/ Sync \/ Enter \/ Hold \/ Close
Next    == Stream \/ Begin \/ Ask \/ Contract \/ Passes

Spec     == Init /\ [][Next]_vars
-----------------------------------------------------------------------------
Honest(t) == t.of \in {t.sym, Sim} \/ t.blind

\* What get_tick serves is a price of the contract it names, whatever the stream
\* delivers while the contract changes -- unless the token was unknown when the
\* tick came or the change left the stream alone.
LabelTrue == Honest(tick)

\* With a trade open the feed stays on its contract over passes, drops and
\* reconnects, unless the REST path has adjusted the strike.
TradeFollowed == trade # None /\ pc = "free" => sym = trade \/ adrift

\* A price is of the contract it names, and that is the trade's while one is open
\* (get_tick and the subscriptions of broker.py, tick_feed.py).
FeedHonest == LabelTrue /\ TradeFollowed

\* place_order switches current_symbol before it asks for the tick, so that a
\* trade is entered at a price of its own contract, or a simulated one.
EntryPriced == trade # None => entry \in {trade, Sim}

=============================================================================
