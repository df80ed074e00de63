------------------------------ MODULE EntrySignal ------------------------------
(***************************************************************************)
(* From a signal to its order: entry_signal (core/engines/entry_engine.py) *)
(* with the strategy it asks (strategies/), state_idle and                 *)
(* state_entry_ready (core/engines/state_machine.py), and the broker's     *)
(* choice of a strike for the direction of the signal (core/trading/       *)
(* broker.py).  A pass finds the signal on one tick and a later pass sends *)
(* its order on another; the signal waits in last_signal_params, and the   *)
(* passes between may be lost to a missing tick, a kill or a reconnect.    *)
(* Prices and indicators are verdicts: what the strategy sees, and whether *)
(* each filter passes, is any choice.                                      *)
(***************************************************************************)
EXTENDS Integers

CONSTANTS
  Strikes,     \* strikes of the chain
  Type,        \* OPTION_TYPE
  CrossStrike, \* CROSS_DIRECTION_STRIKE_ENABLED
  Ttl,         \* CROSS_DIRECTION_STRIKE_TTL_SEC
  MaxAge,      \* ENTRY_SIGNAL_MAX_AGE_MS
  Fresh,       \* the age a tick may have for is_data_valid
  Gap,         \* 5 s: signals further apart are not consecutive
  Needed,      \* require_consecutive_signals
  Warm,        \* the 10 ticks of warm-up
  Paper,       \* PAPER_TRADING
  Nothing,
  MaxNow       \* bound: the clock

\* What the constants may be.
EntryConstants ==
  /\ Strikes # {} /\ Type \in {"CE", "PE"}
  /\ CrossStrike \in BOOLEAN /\ Paper \in BOOLEAN
  /\ Needed \in Nat \ {0}
  /\ {Ttl, MaxAge, Fresh, Gap, Warm, MaxNow} \subseteq Nat

Dirs      == {"CE", "PE"}
Options == [dir : Dirs, strike : Strikes]
Clock     == 0..MaxNow

VARIABLES
  now,
  spot,     \* the ATM strike of spot_price
  sub,      \* current_symbol: the subscribed contract
  cross,    \* _cross_strike_cache
  phase,    \* state.state
  ticks,    \* ticks in runtime_state.recent_ticks, counted up to Warm
  params,   \* last_signal_params
  streak,   \* consecutive_entry_signals
  lastSig,  \* last_signal_time
  order,    \* history: the order of the last step, if it sent one
  moved     \* history: spot, strike or cache has changed since the signal

chain == <<sub, cross>>
gate  == <<streak, lastSig>>
vars  == <<now, spot, chain, phase, ticks, params, gate, order, moved>>

Signal == [dir : Dirs, of : Options, stamp : Int, found : Clock, taken : BOOLEAN]
\* get_signal_direction() is CE when there are no params, and the guard has
\* nothing to look at.
NoSignal == [dir |-> "CE", of |-> Nothing, stamp |-> Nothing, found |-> 0, taken |-> FALSE]
Order  == [of : Options, sig : Signal \cup {NoSignal}, at : Clock, moved : BOOLEAN]

TypeOK ==
  /\ now \in Clock /\ spot \in Strikes /\ sub \in Options
  /\ cross \in [Dirs -> [atm : Strikes, strike : Strikes, at : Clock] \cup {Nothing}]
  /\ phase \in {"IDLE", "ENTRY_READY", "IN_TRADE", "COOLDOWN", "KILL_SWITCH"}
  /\ ticks \in 0..Warm /\ params \in Signal \cup {NoSignal}
  /\ streak \in 0..Needed /\ lastSig \in Clock \cup {Nothing}
  /\ order \in Order \cup {Nothing} /\ moved \in BOOLEAN

Init ==
  /\ now = 0 /\ phase = "IDLE" /\ ticks = 0
  /\ spot \in Strikes /\ \E s \in Strikes : sub = [dir |-> Type, strike |-> s]
  /\ cross = [d \in Dirs |-> Nothing]
  /\ params = NoSignal /\ streak = 0 /\ lastSig = Nothing
  /\ order = Nothing /\ moved = FALSE
-----------------------------------------------------------------------------
NoOrder == order' = Nothing

\* Time passes without a pass: the loop sleeps, the tick is missing or invalid.
Wait ==
  /\ now < MaxNow /\ now' = now + 1
  /\ UNCHANGED <<spot, chain, phase, ticks, params, gate, moved>> /\ NoOrder

\* A spot tick.
SpotMoves ==
  /\ spot' \in Strikes \ {spot} /\ moved' = TRUE
  /\ UNCHANGED <<now, chain, phase, ticks, params, gate>> /\ NoOrder

\* The REST path follows the spot: the ATM strike, of the configured type.
Adjust ==
  /\ sub.strike # spot /\ sub' = [dir |-> Type, strike |-> spot] /\ moved' = TRUE
  /\ UNCHANGED <<now, spot, cross, phase, ticks, params, gate>> /\ NoOrder

\* The entry of the cache for direction d still stands.
Cached(d) == cross[d] # Nothing /\ cross[d].atm = spot /\ now - cross[d].at < Ttl

\* resolve_strike_for_direction with c subscribed: its own strike for its own
\* type, the cached one while the ATM strike stands, else the result of a
\* search, which may fail and leave the subscribed strike.  An answer is a
\* strike, the cache after the call, and whether it had to search.
Answer(s, after, anew) == [strike |-> s, cache |-> after, anew |-> anew]
Found(d, s) == Answer(s, [cross EXCEPT ![d] = [atm |-> spot, strike |-> s, at |-> now]], TRUE)
Resolved(c, d) ==
  IF c.dir = d \/ ~CrossStrike THEN {Answer(c.strike, cross, FALSE)}
  ELSE IF Cached(d) THEN {Answer(cross[d].strike, cross, FALSE)}
  ELSE {Found(d, s) : s \in Strikes} \cup {Answer(c.strike, cross, TRUE)}

\* Slip: the order is for the subscribed strike, whatever its direction.
SubscribedStrike(c, d) == {Answer(c.strike, cross, FALSE)}
\* place_order asks the same resolver again.
Traded(c, d) == Resolved(c, d)

\* The age of a tick that is_data_valid lets through; a tick of the stream, the
\* REST path or the other direction is stamped when it arrives.
Stamps == (now - Fresh)..now

\* A pass with a valid tick: it is counted before its state is handled.
Pass(p) == phase = p /\ ticks' = (IF ticks < Warm THEN ticks + 1 ELSE ticks)
-----------------------------------------------------------------------------
\* An idle pass, which may begin with a rotation to another strike, always of
\* the configured type.
Idle ==
  /\ Pass("IDLE")
  /\ \/ sub' = sub
     \/ \E s \in Strikes \ {sub.strike} : sub' = [dir |-> Type, strike |-> s]

\* state_idle returns for the session, the limits, the start time or the pause
\* after a spike of the spot price: nothing of the signals is touched.
IdleBlocked ==
  /\ Idle
  /\ UNCHANGED <<now, spot, cross, phase, params, gate, moved>> /\ NoOrder

\* entry_signal returned False: the run of signals is broken.
NotTaken == streak' = 0 /\ lastSig' = Nothing /\ phase' = phase

\* Still warming up: the strategy is not asked, and its last signal stands.
ScanWarming ==
  /\ Idle /\ ticks' < Warm /\ NotTaken
  /\ UNCHANGED <<now, spot, cross, params, moved>> /\ NoOrder

\* generate_signal finds nothing: time, premium, delta, market quality, chop,
\* trigger, weighted score, exhaustion or confidence say no.
ScanEmpty ==
  /\ Idle /\ ticks' = Warm /\ NotTaken /\ params' = NoSignal
  /\ UNCHANGED <<now, spot, cross, moved>> /\ NoOrder

\* A signal of direction d is checked on the tick of a contract: the tick of the
\* pass, read before the rotation, when the subscribed contract is of that
\* direction after it, else the tick of get_tick_for_direction.
Checked(d, c, stamp) ==
  IF sub'.dir = d THEN c = sub /\ stamp \in Stamps /\ UNCHANGED cross
  ELSE \E r \in Resolved(sub', d) :
         c = [dir |-> d, strike |-> r.strike] /\ stamp = now /\ cross' = r.cache

\* The signal is refused: the other direction's tick cannot be fetched, or
\* confidence, range, premium, spread or session trend say no.  last_signal_params
\* keeps what it had.
ScanRefused ==
  /\ Idle /\ ticks' = Warm /\ NotTaken
  /\ cross' \in UNION {{r.cache : r \in Resolved(sub', d)} : d \in Dirs}
  /\ UNCHANGED <<now, spot, params, moved>> /\ NoOrder

\* consecutive_entry_signals after one more signal.
Run == IF lastSig # Nothing /\ now - lastSig < Gap
       THEN IF streak < Needed THEN streak + 1 ELSE Needed
       ELSE 1

\* A signal is stored before entry_signal's result is known: with live money the
\* time and Greeks gates still come.  It leaves IDLE if it is taken and the run is long enough.
ScanSignal ==
  /\ Idle /\ ticks' = Warm
  /\ \E d \in Dirs, c \in Options, stamp \in (0 - Fresh)..now, ok \in {TRUE} \cup {Paper} :
       /\ Checked(d, c, stamp)
       /\ params' = [dir |-> d, of |-> c, stamp |-> stamp, found |-> now, taken |-> ok]
       /\ IF ok
          THEN /\ streak' = Run /\ lastSig' = now
               /\ phase' = (IF Run >= Needed THEN "ENTRY_READY" ELSE "IDLE")
          ELSE NotTaken
  /\ moved' = (sub' # sub)
  /\ UNCHANGED <<now, spot>> /\ NoOrder
-----------------------------------------------------------------------------
\* state_entry_ready gives up: risk manager, execution guard, size of zero.
Leave(p) == phase' = p /\ streak' = 0 /\ UNCHANGED <<lastSig, params>>

EntryRefused ==
  /\ Pass("ENTRY_READY") /\ Leave("COOLDOWN")
  /\ cross' \in {cross} \cup {r.cache : r \in Resolved(sub, params.dir)}
  /\ UNCHANGED <<now, spot, sub, moved>> /\ NoOrder

\* Slip: the guard only looks at the drift.
AgeUnchecked(stamp) == TRUE
\* _signal_execution_guard: the tick at hand is not MaxAge younger than the
\* tick of the signal, nor older than it (beyond 250 ms).
InTime(stamp) == params = NoSignal \/ stamp - params.stamp \in 0..MaxAge

\* The guard passes on the tick of the contract the broker now finds for the
\* direction -- on the tick at hand if that cannot be fetched -- and place_order
\* looks for the contract once more and switches to it.
EntryOrders ==
  /\ Pass("ENTRY_READY")
  /\ {stamp \in Stamps : InTime(stamp)} # {}
  /\ \E r \in Traded(sub, params.dir) :
       /\ cross' = r.cache
       /\ sub' = [dir |-> params.dir, strike |-> r.strike]
       /\ order' = [of |-> sub', sig |-> params, at |-> now, moved |-> moved \/ r.anew]
  /\ \/ Leave("IN_TRADE")
     \/ Leave("COOLDOWN")
  /\ UNCHANGED <<now, spot, moved>>

\* A trade ends, a cooldown runs out.
Back ==
  /\ phase \in {"IN_TRADE", "COOLDOWN"}
  /\ phase' = (IF phase = "IN_TRADE" THEN "COOLDOWN" ELSE "IDLE")
  /\ UNCHANGED <<now, spot, chain, ticks, params, gate, moved>> /\ NoOrder

\* A kill takes the machine out of ENTRY_READY and later to IDLE: the signal
\* and the run of signals stay.
Kill ==
  /\ \/ phase # "KILL_SWITCH" /\ phase' = "KILL_SWITCH"
     \/ phase = "KILL_SWITCH" /\ phase' = "IDLE"
  /\ UNCHANGED <<now, spot, chain, ticks, params, gate, moved>> /\ NoOrder

\* main() returns RECONNECT and runs again in the same process: the ticks are
\* cleared; state, signal, cache and pause live on in their singletons.
Reconnect ==
  /\ ticks' = 0
  /\ \E s \in Strikes : sub' = [dir |-> Type, strike |-> s]
  /\ moved' = TRUE
  /\ UNCHANGED <<now, spot, cross, phase, params, gate>> /\ NoOrder

Next ==
  \/ Wait \/ SpotMoves \/ Adjust \/ Reconnect \/ Kill \/ Back
  \/ IdleBlocked
  \/ ScanWarming \/ ScanEmpty \/ ScanRefused \/ ScanSignal
  \/ EntryRefused \/ EntryOrders

Spec == Init /\ [][Next]_vars
-----------------------------------------------------------------------------
\* An order is sent on the signal of one evaluation that was taken, in its
\* direction: a signal that entry_signal stored and then refused, or dropped
\* for a later empty one, is never executed.
OrderOfTaken == order # Nothing => order.sig.taken /\ order.of.dir = order.sig.dir

\* However long the machine stayed in ENTRY_READY, over missing ticks and
\* reconnects, the evaluation behind an order is no older than the guard's
\* limit and the age of a valid tick.
OrderInTime == order # Nothing => order.at - order.sig.found <= MaxAge + Fresh

\* The contract that is ordered is the one whose premium and spread were
\* checked, whatever is subscribed, unless spot, strike or cache has changed
\* between the two.
CheckedIsTraded == order # Nothing => order.moved \/ order.of = order.sig.of

\* resolve_strike_for_direction: "the contract that is validated is always the
\* contract that gets traded".
ValidatedTraded == order # Nothing => order.of = order.sig.of

=============================================================================
