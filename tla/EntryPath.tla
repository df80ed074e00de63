------------------------------- MODULE EntryPath -------------------------------
(***************************************************************************)
(* The path of an entry, for model checking: which contract a price is of, *)
(* what the scoring engines make of the market, what the strategy makes of *)
(* a scan, and what becomes of a signal on its way to an order.  The four  *)
(* share no state in the code beyond the verdicts each takes from the one  *)
(* before, which are any choice in its model, so a behaviour follows one   *)
(* of them and the others stand still: the run checks each for every       *)
(* verdict of the others.                                                  *)
(***************************************************************************)
EXTENDS ContractFeed, TLC

CONSTANTS
  Strikes, Type, CrossStrike, Ttl, MaxAge, Fresh, Gap, Needed, Warm, MaxNow,  \* of EntrySignal
  ScanPremiums, MinPremium, MaxPremium, WindowMax, Enough,                    \* of Strategy
  Nothing

VARIABLES
  part,                                             \* the part that moves
  now, spot, sub, cross, phase, ticks, params, streak, lastSig, order, moved,
                                                    \* of EntrySignal
  reading, view,                                    \* of Scoring
  recent, anomalies, stage, open, record, signal    \* of Strategy

signalVars == <<now, spot, sub, cross, phase, ticks, params, streak, lastSig, order, moved>>
marketVars == <<reading, view>>
scanVars   == <<recent, anomalies, stage, open, record, signal>>
pathVars   == <<part, vars, signalVars, marketVars, scanVars>>

\* Live: a refused signal is stored only by the gates that come after it.
Signals == INSTANCE EntrySignal WITH Paper <- FALSE

ASSUME EntryAssumption == Signals!EntryConstants

\* Two values of a band, its boundaries, and one beyond, for every table.
Scores == INSTANCE Scoring WITH
  Spreads <- {20, 60, 150}, Ratios <- {7, 13}, Volumes <- {0, 20000},
  Ages <- {0, 150, 500, 800, 1300}, Latencies <- {80, 200}, Reconnects <- {0, 1},
  Atrs <- {10}, Hours <- {1000}, Deltas <- {50, -50}, Rsis <- {30, 47, 53, 70},
  Premiums <- {100}, NoView <- Nothing

Scans == INSTANCE Strategy WITH Premiums <- ScanPremiums

\* A window that holds something, and prices in whole numbers.
ASSUME ScanAssumption ==
  /\ ScanPremiums \subseteq Nat /\ {MinPremium, MaxPremium, Enough} \subseteq Nat
  /\ WindowMax \in Nat \ {0}

StrikeSymmetry == Permutations(Strikes)

\* The parts that do not move start in one state.
SignalsStill ==
  /\ now = Nothing /\ spot = Nothing /\ sub = Nothing /\ cross = Nothing /\ phase = Nothing
  /\ ticks = Nothing /\ params = Nothing /\ streak = Nothing /\ lastSig = Nothing
  /\ order = Nothing /\ moved = Nothing
ScoresStill == reading = Nothing /\ view = Nothing
ScansStill  ==
  /\ recent = Nothing /\ anomalies = Nothing /\ stage = Nothing
  /\ open = Nothing /\ record = Nothing /\ signal = Nothing

PathInit ==
  /\ Init
  /\ \/ part = "feed" /\ SignalsStill /\ ScoresStill /\ ScansStill
     \/ part = "signal" /\ Signals!Init /\ ScoresStill /\ ScansStill
     \/ part = "scores" /\ SignalsStill /\ Scores!Init /\ ScansStill
     \/ part = "scans" /\ SignalsStill /\ ScoresStill /\ Scans!Init

FeedMoves ==
  part = "feed" /\ Next /\ UNCHANGED <<part, signalVars, marketVars, scanVars>>
SignalMoves ==
  part = "signal" /\ Signals!Next /\ UNCHANGED <<part, vars, marketVars, scanVars>>
MarketMoves ==
  part = "scores" /\ Scores!Next /\ UNCHANGED <<part, vars, signalVars, scanVars>>
ScanMoves ==
  part = "scans" /\ Scans!Next /\ UNCHANGED <<part, vars, signalVars, marketVars>>

PathNext == FeedMoves \/ SignalMoves \/ MarketMoves \/ ScanMoves
PathSpec == PathInit /\ [][PathNext]_pathVars
-----------------------------------------------------------------------------
\* An order is sent only on a signal that entry_signal stored, took and has not
\* dropped since, in its direction, and in time: over missing ticks, kills and
\* reconnects its evaluation is no older than the guard's limit and the age of
\* a valid tick (_signal_execution_guard of state_machine.py).  The contract
\* place_order buys is the one whose premium and spread were checked, unless
\* spot, strike or cache has changed since (resolve_strike_for_direction of
\* broker.py).
OrderOnItsSignal ==
  part = "signal" => Signals!OrderOfTaken /\ Signals!OrderInTime /\ Signals!CheckedIsTraded

\* A worse market is never rated better: an older tick, a wider spread, less
\* volume or a slower link may not lift market quality over a band of the gate
\* (evaluate of market_quality_engine.py).
WorseNotRatedBetter ==
  [][part = "scores" => Scores!Quality(reading') <= Scores!Quality(reading)]_pathVars

\* Neither direction is favoured by the weighted score and the adaptive
\* confidence: CE in a market scores as PE in its mirror image.
DirectionsAlike == Scores!DirectionsAlike

\* Every finished strategy_decision blames the stage that really turned the
\* direction away, for the decided and for the backfilled direction, and a fall
\* of the market stops being an anomaly within half a window of valid premiums,
\* unless it falls on by as much (generate_signal and check_premium_filter of
\* smart_scalp_v3.py).
ScansExplained == part = "scans" => Scans!Attributed /\ Scans!AnomalyHeals

=============================================================================
