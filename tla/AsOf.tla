---------------------------------- MODULE AsOf ----------------------------------
(***************************************************************************)
(* The visual record of one session (research/visual): what the live system *)
(* wrote down while it traded - a row for every decision, a row for every   *)
(* trade - is read by a backfill, turned into rows once and answered from   *)
(* "as of" any second of the day.  A backfill may run during the session,   *)
(* may be run again, and old decisions are pruned from the source.  What a  *)
(* row says is kept as the places in the source it was made of.             *)
(***************************************************************************)
EXTENDS Integers, Sequences, FiniteSetsExt

CONSTANTS
  LastSec,        \* seconds of the session
  MaxDecisions,   \* bound: decisions of the session
  LinkSec,        \* TRADE_LINK_WINDOW_SEC
  GapSec,         \* EVALUATION_GAP_SEC
  StreamSec,      \* max_gap_sec of a window
  BucketSec,      \* bucket_sec of a rejection overlay
  Rejections,     \* what a decision may say of why it was not taken
  Backfills,      \* bound: seconds a backfill may start in
  Sides, NoSide

VARIABLES
  now,
  decisions,  \* dvf_signals: [at, what, side], in the order they were written
  trades,     \* trades: [from, side, entry, exit, won]; exit is 0 while it is open
  pruned,     \* decisions deleted from the source, oldest first
  read,       \* what a backfill has in its cache: <<first, last, second>>, or <<>>
  record      \* the persisted session: [first, last, at, trades], or <<>>

asOfVars == <<now, decisions, trades, pruned, read, record>>

Whats == {"accepted"} \cup Rejections
Init ==
  /\ now = 1 /\ decisions = <<>> /\ trades = <<>> /\ pruned = 0
  /\ read = <<>> /\ record = <<>>
-----------------------------------------------------------------------------
\* The day, as it is written down.
Open == trades # <<>> /\ trades[Len(trades)].exit = 0

\* Bound: a day is not followed past its first backfill, whose answers end where it read.
Unbuilt == pruned = 0 /\ record = <<>>

\* The day is told from its first decision on.
SecondPasses ==
  /\ Unbuilt /\ decisions # <<>> /\ now < LastSec
  /\ now' = now + 1
  /\ UNCHANGED <<decisions, trades, pruned, read, record>>

\* One decision, and why it was rejected; none is made while a trade is open or in the
\* cooldown that follows it.
Cooled == \A k \in DOMAIN trades : trades[k].exit < now
Decide ==
  /\ Unbuilt /\ ~Open /\ Cooled /\ Len(decisions) < MaxDecisions
  /\ \E what \in Whats, side \in Sides :
       decisions' = Append(decisions, [at |-> now, what |-> what, side |-> side])
  /\ UNCHANGED <<now, trades, pruned, read, record>>

\* The latest decision becomes a trade, at once or when its order fills.
Enter ==
  /\ Unbuilt /\ ~Open /\ decisions # <<>>
  /\ LET i == Len(decisions) IN
       /\ decisions[i].what = "accepted"
       /\ \A k \in DOMAIN trades : trades[k].from # i
       /\ trades' = Append(trades, [from |-> i, side |-> decisions[i].side,
                                    entry |-> now, exit |-> 0, won |-> FALSE])
  /\ UNCHANGED <<now, decisions, pruned, read, record>>

Exit ==
  /\ Unbuilt /\ Open
  /\ \E won \in BOOLEAN :
       trades' = [trades EXCEPT ![Len(trades)] = [@ EXCEPT !.exit = now, !.won = won]]
  /\ UNCHANGED <<now, decisions, pruned, read, record>>

\* Days later: prune_old_signal_rows, batch by batch; trades are kept for ever.
Prune ==
  /\ now = LastSec /\ pruned = 0 /\ read = <<>>
  /\ pruned' \in 1..Len(decisions)
  /\ UNCHANGED <<now, decisions, trades, read, record>>
-----------------------------------------------------------------------------
\* python -m research.visual backfill: the audit puts the decisions into the book's
\* cache; a day with neither a spot series nor a trade is skipped.
Buildable == pruned < Len(decisions) \/ trades # <<>>
Audit ==
  /\ read = <<>> /\ Buildable /\ now \in Backfills
  /\ record # <<>> => pruned >= record.first   \* bound: built again only when rows are gone
  /\ read' = <<pruned + 1, Len(decisions), now>>
  /\ UNCHANGED <<now, decisions, trades, pruned, record>>

\* The rows of the day replace those of an earlier backfill in one transaction.
Replaced(rows) == record' = rows
\* The trades are asked for only now, and asked anew by each function that wants them.
BuildSession ==
  /\ read # <<>>
  /\ Replaced([first |-> read[1], last |-> read[2], at |-> read[3], trades |-> trades])
  /\ read' = <<>>
  /\ UNCHANGED <<now, decisions, trades, pruned>>

Next == SecondPasses \/ Decide \/ Enter \/ Exit \/ Prune \/ Audit \/ BuildSession
Spec == Init /\ [][Next]_asOfVars
-----------------------------------------------------------------------------
\* The rows of the record.  A cooldown's side is in its text, not in the direction column.
Rows == IF record = <<>> THEN {} ELSE record.first..record.last
Direction(i) == IF decisions[i].what = "cooldown" THEN NoSide ELSE decisions[i].side
Closed == {k \in DOMAIN record.trades : record.trades[k].exit # 0}

\* Trailing losses among the trades of the set K of t.
Trailing(t, K) == Cardinality({k \in K : \A j \in K : j >= k => ~t[j].won})

\* Slip: a trade counts from the second it was opened.
StreakByEntry(sec) == Trailing(record.trades, {k \in Closed : record.trades[k].entry <= sec})
\* Losses in a row by the second sec: a trade counts once it has closed.
StreakAt(sec) == Trailing(record.trades, {k \in Closed : record.trades[k].exit <= sec})

\* trade -> its decision: the nearest accepted one before the entry, used once; 0 for none.
\* Of two in the same second the first written is taken.
TradeLinks ==
  LET links[k \in 0..Len(record.trades)] ==
        IF k = 0 THEN <<>>
        ELSE LET t    == record.trades[k]
                 fit  == {i \in Rows : /\ decisions[i].what = "accepted"
                                       /\ decisions[i].side = t.side
                                       /\ \A j \in 1..k - 1 : links[k - 1][j] # i
                                       /\ t.entry - decisions[i].at \in 0..LinkSec}
                 best == {i \in fit : \A j \in fit :
                                            \/ decisions[i].at > decisions[j].at
                                            \/ decisions[i].at = decisions[j].at /\ i <= j}
             IN  Append(links[k - 1], IF best = {} THEN 0 ELSE Max(best))
  IN links[Len(record.trades)]

\* The row of a decision; the trade it became is knowledge from after it.
EvaluationRow(i) ==
  [direction   |-> Direction(i),
   lossStreak  |-> StreakAt(decisions[i].at),
   posthocTrade |-> {k \in DOMAIN record.trades : TradeLinks[k] = i}]

\* Stretches without a decision.
Gaps == {<<decisions[i].at, decisions[i + 1].at>> : i \in
           {i \in Rows : i + 1 \in Rows /\ decisions[i + 1].at - decisions[i].at > GapSec}}
InGap(sec) == \E g \in Gaps : g[1] < sec /\ sec < g[2]

\* The decision in force at a second, for one side or for both; 0 for none.
AsOfEvaluation(sec, side) ==
  LET seen == {i \in Rows : /\ decisions[i].at <= sec
                            /\ side = NoSide \/ Direction(i) \in {NoSide, side}}
  IN IF seen = {} THEN 0 ELSE Max(seen)

\* Windows of the sightings O of one state: a stretch unseen closes a window.
WindowsOf(O) ==
  LET Near(a, b) == a < b /\ b - a <= StreamSec
  IN {w \in O \X O :
        /\ w[1] <= w[2]
        /\ \A o \in O : ~Near(o, w[1]) /\ ~Near(w[2], o)
        /\ \A o \in O : w[1] < o /\ o <= w[2] => \E p \in O : w[1] <= p /\ Near(p, o)}
CooldownWindows(side) == WindowsOf({decisions[i].at : i \in
  {i \in Rows : decisions[i].what = "cooldown" /\ decisions[i].side = side}})
FloorWindows == WindowsOf({decisions[i].at : i \in {i \in Rows : decisions[i].what = "floor"}})

\* The states in force at a second.
StateAt(sec) ==
  [cooldown |-> {s \in Sides : \E w \in CooldownWindows(s) : w[1] <= sec /\ sec <= w[2]},
   floor    |-> \E w \in FloorWindows : w[1] <= sec /\ sec <= w[2],
   streak   |-> StreakAt(sec)]

\* The decision whose scores a trade's overlay carries: the last by its entry; 0 for none.
MatchSignal(t) ==
  LET before == {i \in Rows : decisions[i].at <= t.entry /\ Direction(i) \in {NoSide, t.side}}
  IN IF before = {} THEN 0 ELSE Max(before)

TradeOverlay(t) == [matched |-> MatchSignal(t), atEntry |-> StateAt(t.entry)]

\* Overlays of the session: an accepted decision has its own, rejections are counted
\* by bucket, direction and gate.
SignalOverlays ==
  LET Bucket(i) == <<(decisions[i].at - 1) \div BucketSec, Direction(i), decisions[i].what>>
      Rejected  == {i \in Rows : decisions[i].what # "accepted"}
  IN {[at |-> <<i, Direction(i), "accepted">>, n |-> 1] : i \in Rows \ Rejected}
       \cup {[at |-> b, n |-> Cardinality({i \in Rejected : Bucket(i) = b})] :
                b \in {Bucket(i) : i \in Rejected}}
-----------------------------------------------------------------------------
TypeOK ==
  /\ now \in 1..LastSec /\ pruned \in 0..Len(decisions) /\ Len(decisions) <= MaxDecisions
  /\ \A i \in DOMAIN decisions : decisions[i].at \in 1..now /\ decisions[i].what \in Whats
  /\ \A k \in DOMAIN trades : trades[k].from \in DOMAIN decisions /\ trades[k].exit \in 0..now
  /\ read = <<>> \/ read[2] <= Len(decisions)
  /\ record = <<>> \/ record.last <= Len(decisions)

\* What was so: the last decision a side could see, the losses in a row.
LastDecision(sec, side) ==
  LET seen == {i \in DOMAIN decisions : decisions[i].at <= sec /\
                 (side = NoSide \/ decisions[i].what = "cooldown" \/ decisions[i].side = side)}
  IN IF seen = {} THEN 0 ELSE Max(seen)
LossesBy(sec) == Trailing(trades, {k \in DOMAIN trades : trades[k].exit \in 1..sec})

\* An answer for a second before the decisions were read is the decision then in force, or none
\* when the source had lost it, and an old one is flagged unless nothing came after it.
AnswerTrue(sec, side) ==
  LET i == AsOfEvaluation(sec, side) IN
  /\ i \in {0, LastDecision(sec, side)}
  /\ i = 0 => LastDecision(sec, side) < record.first
  /\ i # 0 => StreakAt(decisions[i].at) = LossesBy(decisions[i].at)
  /\ i # 0 /\ side = NoSide /\ i # record.last =>
       (InGap(sec) <=> decisions[i + 1].at - decisions[i].at > GapSec /\ sec > decisions[i].at)

\* A state is in force only near a sighting of it that had been made.
StateTrue(sec) ==
  LET Seen(what, S) == \E i \in DOMAIN decisions :
        decisions[i].what = what /\ decisions[i].side \in S /\ sec - decisions[i].at \in 0..StreamSec
  IN /\ \A s \in StateAt(sec).cooldown : Seen("cooldown", {s})
     /\ StateAt(sec).floor => Seen("floor", Sides)
     /\ StateAt(sec).streak = LossesBy(sec)

\* A trade whose decision was read is linked to a decision of the very second of the one
\* it came of, each decision to one trade, and its overlay carries the scores of a
\* decision of that second and the losses there were when it was opened.
LinksTrue ==
  \A k \in DOMAIN record.trades : LET t == record.trades[k] IN t.from \in Rows =>
    /\ TradeLinks[k] # 0 =>
         /\ decisions[TradeLinks[k]].at = decisions[t.from].at
         /\ EvaluationRow(TradeLinks[k]).posthocTrade = {k}
    /\ LET shown == TradeOverlay(t) IN
         /\ shown.matched # 0 => decisions[shown.matched].at = decisions[t.from].at
         /\ t.entry < record.at => shown.atEntry.streak = LossesBy(t.entry)

\* The record is as good as having been there: what it answers for a second before its
\* backfill read the source is what was decided and known by that second, however often the day was
\* built, whatever was pruned and whatever came later; no decision is drawn twice or not at all.
AsOfHonest ==
  record # <<>> =>
    /\ \A sec \in 1..record.at - 1 :
         StateTrue(sec) /\ \A side \in Sides \cup {NoSide} : AnswerTrue(sec, side)
    /\ LinksTrue
    /\ MapThenSumSet(LAMBDA o : o.n, SignalOverlays) = Cardinality(Rows)
=============================================================================
