----------------------------- MODULE KillSwitch -----------------------------
(***************************************************************************)
(* core/risk/kill_switch.py with the part of main()'s loop that reads its  *)
(* verdicts, while no trade is open and the operator has not pressed Stop. *)
(* Every tick runs one pass: a rejected tick is counted, a valid one runs  *)
(* through the stale-data guard and emergency_check.  A counter that is    *)
(* only compared with its limit stops there.                               *)
(***************************************************************************)
EXTENDS Integers

CONSTANTS
  RejectLimit,   \* CONSECUTIVE_REJECTED_TICK_LIMIT
  ValidNeeded,   \* CONSECUTIVE_VALID_TICKS_TO_CLEAR
  WideLimit,     \* WIDE_SPREAD_CONSECUTIVE_LIMIT
  HighLimit,     \* HIGH_LATENCY_CONSECUTIVE_LIMIT
  LowNeeded,     \* LOW_LATENCY_RECOVERY_COUNT
  FreezeLimit    \* the 3 of `tick_freeze_count > 3`

ASSUME LimitsAssumption ==
  /\ RejectLimit \in Nat \ {0} /\ ValidNeeded \in Nat \ {0}
  /\ WideLimit \in Nat \ {0} /\ HighLimit \in Nat \ {0}
  /\ LowNeeded \in Nat \ {0} /\ FreezeLimit \in Nat \ {0}

VARIABLES
  rejected,    \* consecutive_rejected_ticks
  valid,       \* consecutive_valid_ticks
  stale,       \* STALE_DATA_WARNED
  staleCool,   \* stale_data_cooldown_until, relative to now
  wide,        \* wide_spread_count
  spreadCool,  \* kill_switch_cooldown_until, relative to now
  high,        \* high_latency_count
  paused,      \* high_latency_paused
  low,         \* consecutive_low_latency
  freeze,      \* tick_freeze_count
  limitHit,    \* the day's loss or trade limit is reached
  halted,      \* TradingState.state = "KILL_SWITCH"
  pass,        \* how the last pass of the loop ended
  tick,        \* the last tick, for properties about the feed
  goodRun,     \* history: valid ticks since the last rejected one
  frozenRun,   \* history: frozen ticks dispatched in a row
  limitKill    \* history: a limit has killed

feedVars   == <<rejected, valid, stale, staleCool>>
spreadVars == <<wide, spreadCool>>
checkVars  == <<spreadVars, high, paused, low, freeze>>
history    == <<tick, goodRun, frozenRun, limitKill>>
vars       == <<feedVars, checkVars, limitHit, halted, pass, history>>

Clock == {"none", "running", "over"}
Good  == [frozen |-> FALSE, late |-> FALSE, broad |-> FALSE]
Bad   == [frozen |-> TRUE, late |-> TRUE, broad |-> TRUE]

\* Every path of get_tick() stamps the tick and last_valid_tick_time with the
\* moment it serves the tick, so both ages measure what the loop did since; the
\* freeze limit (2 s or 3 s) is longer than the latency limit (0.5 s or 1.5 s).
Ticks == {t \in [frozen : BOOLEAN, late : BOOLEAN, broad : BOOLEAN] : t.frozen => t.late}

TypeOK ==
  /\ rejected \in 0..RejectLimit /\ valid \in 0..ValidNeeded
  /\ stale \in BOOLEAN /\ staleCool \in Clock
  /\ wide \in 0..WideLimit /\ spreadCool \in Clock
  /\ high \in 0..HighLimit /\ paused \in BOOLEAN /\ low \in 0..LowNeeded
  /\ freeze \in 0..(FreezeLimit + 1)
  /\ limitHit \in BOOLEAN /\ halted \in BOOLEAN
  /\ pass \in {"none", "rejected", "held", "killed", "dispatched"}
  /\ tick \in Ticks
  /\ goodRun \in 0..ValidNeeded /\ frozenRun \in 0..(FreezeLimit + 1)
  /\ limitKill \in BOOLEAN

Init ==
  /\ rejected = 0 /\ valid = 0 /\ stale = FALSE /\ staleCool = "none"
  /\ wide = 0 /\ spreadCool = "none"
  /\ high = 0 /\ paused = FALSE /\ low = 0 /\ freeze = 0
  /\ limitHit = FALSE /\ halted = FALSE /\ pass = "none"
  /\ tick = Good /\ goodRun = 0 /\ frozenRun = 0 /\ limitKill = FALSE

UpTo(limit, n) == IF n > limit THEN limit ELSE n

-----------------------------------------------------------------------------
(* A rejected tick: track_rejected_tick.                                    *)

RejectedTick ==
  LET kill == rejected + 1 >= RejectLimit /\ ~stale
  IN /\ rejected' = UpTo(RejectLimit, rejected + 1)
     /\ valid' = 0
     /\ stale' = (stale \/ kill)
     /\ staleCool' = IF kill THEN "running" ELSE staleCool
     /\ halted' = (halted \/ kill)
  /\ pass' = "rejected"
  /\ tick' = Bad /\ goodRun' = 0
  /\ UNCHANGED <<checkVars, limitHit, frozenRun, limitKill>>

-----------------------------------------------------------------------------
(* A valid tick: reset_rejected_tick_counter, then emergency_check.         *)

\* Slip: one valid tick is enough.
ClearedByOneTick == ~stale \/ staleCool # "running"

\* reset_rejected_tick_counter answers that entries need not be held back.
CanClear ==
  \/ ~stale
  \/ staleCool # "running" /\ valid + 1 >= ValidNeeded

CountValid ==
  /\ rejected' = 0
  /\ valid' = IF stale /\ CanClear THEN 0 ELSE UpTo(ValidNeeded, valid + 1)
  /\ stale' = (stale /\ ~CanClear)
  /\ staleCool' = IF stale /\ CanClear THEN "none" ELSE staleCool

\* The pass ends in one of the `continue` branches after a kill: "Wide spread
\* KILL" met in KILL_SWITCH is taken for a recovery.
Kill(reason) ==
  /\ pass' = "killed"
  /\ halted' = ~(reason = "spread" /\ halted)
  /\ limitKill' = (limitKill \/ reason = "limit")

\* No kill: a halted machine recovers and the state's handler runs.
Dispatch ==
  /\ pass' = "dispatched" /\ halted' = FALSE
  /\ UNCHANGED limitKill

\* The checks in their order; each names the ones it has passed.
Cooling ==
  /\ spreadCool = "running"
  /\ Kill("cooldown")
  /\ UNCHANGED checkVars

FreezeCount(t) == IF t.frozen THEN UpTo(FreezeLimit + 1, freeze + 1) ELSE freeze

Frozen(t) == t.frozen /\ FreezeCount(t) > FreezeLimit

\* An expired cooldown is dropped with the count that led to it.
WideCount == IF spreadCool = "over" THEN 0 ELSE wide

FeedFrozen(t) ==
  /\ spreadCool # "running" /\ Frozen(t)
  /\ Kill("frozen")
  /\ freeze' = FreezeCount(t)
  /\ wide' = WideCount /\ spreadCool' = "none"
  /\ UNCHANGED <<high, paused, low>>

\* A late tick pauses after HighLimit in a row; before that it is let through
\* without any further check.
Late(t) ==
  /\ spreadCool # "running" /\ ~Frozen(t) /\ t.late
  /\ high' = UpTo(HighLimit, high + 1)
  /\ low' = 0
  /\ IF high + 1 >= HighLimit
       THEN paused' = TRUE /\ Kill("latency")
       ELSE UNCHANGED paused /\ Dispatch
  /\ freeze' = FreezeCount(t)
  /\ wide' = WideCount /\ spreadCool' = "none"

\* Slip: the count of timely ticks is never enough.
PausedForEver == paused

StillPaused == paused /\ low + 1 < LowNeeded

OnTime(t) ==
  /\ spreadCool # "running" /\ ~Frozen(t) /\ ~t.late
  /\ high' = 0
  /\ low' = UpTo(LowNeeded, low + 1)
  /\ paused' = StillPaused

LatencyRecovery(t) ==
  /\ OnTime(t) /\ StillPaused
  /\ Kill("latency")
  /\ freeze' = FreezeCount(t)
  /\ wide' = WideCount /\ spreadCool' = "none"

\* A wide spread starts the cooldown after WideLimit in a row; before that the
\* tick is let through without any further check.
Broad(t) ==
  /\ OnTime(t) /\ ~StillPaused /\ t.broad
  /\ wide' = WideCount + 1
  /\ IF WideCount + 1 >= WideLimit
       THEN spreadCool' = "running" /\ Kill("spread")
       ELSE spreadCool' = "none" /\ Dispatch
  /\ freeze' = FreezeCount(t)

LimitReached(t) ==
  /\ OnTime(t) /\ ~StillPaused /\ ~t.broad /\ limitHit
  /\ Kill("limit")
  /\ freeze' = FreezeCount(t)
  /\ wide' = 0 /\ spreadCool' = "none"

AllClear(t) ==
  /\ OnTime(t) /\ ~StillPaused /\ ~t.broad /\ ~limitHit
  /\ Dispatch
  /\ freeze' = 0
  /\ wide' = 0 /\ spreadCool' = "none"

EmergencyCheck(t) ==
  \/ Cooling \/ FeedFrozen(t) \/ Late(t) \/ LatencyRecovery(t)
  \/ Broad(t) \/ LimitReached(t) \/ AllClear(t)

\* Slip: the guard is left out.
HeldNever == FALSE

Held == ~CanClear /\ halted

\* The stale-data guard holds the loop back.
StaleHolds ==
  /\ Held
  /\ pass' = "held"
  /\ UNCHANGED <<checkVars, halted, limitKill>>

ValidTick(t) ==
  /\ CountValid
  /\ StaleHolds \/ (~Held /\ EmergencyCheck(t))
  /\ tick' = t
  /\ goodRun' = UpTo(ValidNeeded, goodRun + 1)
  /\ frozenRun' = IF pass' # "dispatched" THEN frozenRun
                  ELSE IF t.frozen THEN UpTo(FreezeLimit + 1, frozenRun + 1) ELSE 0
  /\ UNCHANGED limitHit

-----------------------------------------------------------------------------
\* A cooldown runs out while the loop sleeps.
StaleCoolEnds ==
  /\ staleCool = "running" /\ staleCool' = "over"
  /\ UNCHANGED <<rejected, valid, stale, checkVars, limitHit, halted, pass, history>>

SpreadCoolEnds ==
  /\ spreadCool = "running" /\ spreadCool' = "over"
  /\ UNCHANGED <<feedVars, wide, high, paused, low, freeze, limitHit, halted, pass, history>>

\* A trade closed by the handlers takes the day to one of its limits.
ReachLimit ==
  /\ pass = "dispatched" /\ ~limitHit /\ limitHit' = TRUE
  /\ UNCHANGED <<feedVars, checkVars, halted, pass, history>>

Next ==
  \/ RejectedTick \/ (\E t \in Ticks : ValidTick(t))
  \/ StaleCoolEnds \/ SpreadCoolEnds \/ ReachLimit

Spec == Init /\ [][Next]_vars

\* While the feed has good ticks to give the loop goes on reading them, and the
\* clock does not stop.  Nothing is owed of bad ticks.
FairSpec ==
  /\ Spec
  /\ WF_vars(ValidTick(Good))
  /\ WF_vars(StaleCoolEnds) /\ WF_vars(SpreadCoolEnds)

-----------------------------------------------------------------------------
\* A stale-data kill is lifted only when its cooldown is over and the last
\* ValidNeeded ticks, none less, were valid.
StaleLiftedByProof ==
  [][stale /\ ~stale' => staleCool = "over" /\ goodRun' = ValidNeeded]_vars

\* No handler runs while the stale-data kill or the spread cooldown stands.
NoDispatchWhileStopped ==
  pass = "dispatched" => ~stale /\ spreadCool # "running"

\* A frozen feed drives the handlers for at most FreezeLimit ticks, however
\* late ticks, wide spreads and pauses fall between the frozen ones.
FrozenFeedStops == frozenRun <= FreezeLimit

\* Bad data keeps the handlers from running, whether the tick says so or not.
BadDataStops == NoDispatchWhileStopped /\ FrozenFeedStops

\* No kill but a limit is for ever: if from some point on every tick is good,
\* the handlers run again and again.
Recovers ==
  <>[](tick = Good /\ ~limitHit) => []<>(pass = "dispatched")
=============================================================================
