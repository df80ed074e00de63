-------------------------------- MODULE Journal --------------------------------
(***************************************************************************)
(* A day's trade journal and what utils/analytics.py makes of it: lines of *)
(* entries and exits as the trade log wrote them, paired into trades, and  *)
(* the one-pass measures of the pairs.                                     *)
(***************************************************************************)
EXTENDS Integers, SequencesExt

CONSTANTS
  Orders,     \* order ids
  Pnls,       \* of a trade
  MaxLines    \* bound

VARIABLE journal    \* trades.json

Init == journal = <<>>
\* Either line of a trade may be missing, and either may be there twice.
Line(event, id, pnl) ==
  /\ Len(journal) < MaxLines
  /\ journal' = Append(journal, [event |-> event, id |-> id, pnl |-> pnl])
Entry == \E id \in Orders : Line("ENTRY", id, 0)
Exit  == \E id \in Orders, p \in Pnls : Line("EXIT", id, p)
\* The next date has a file of its own.
NextDate == journal # <<>> /\ journal' = <<>>
Next == Entry \/ Exit \/ NextDate
Spec == Init /\ [][Next]_journal
-----------------------------------------------------------------------------
\* get_paired_trades: an exit takes the entry of its order, which is gone then.
Pairing ==
  FoldLeft(LAMBDA acc, x :
      IF x.event = "ENTRY" THEN [acc EXCEPT !.open = @ \cup {x.id}]
      ELSE IF x.id \in acc.open
           THEN [open |-> acc.open \ {x.id}, paired |-> Append(acc.paired, [id |-> x.id, pnl |-> x.pnl])]
           ELSE acc,
    [open |-> {}, paired |-> <<>>], journal)
Paired == Pairing.paired

Greater(a, b) == IF a >= b THEN a ELSE b
\* Slip: a flat trade counts as a loss.
LosesFlat(pnl) == pnl <= 0
Loses(pnl) == pnl < 0
\* calculate_metrics and _max_consecutive: the running drawdown and losing streak.
Measure(s) ==
  FoldLeft(LAMBDA acc, x :
      LET sum  == acc.sum + x.pnl
          peak == Greater(acc.peak, sum)
          run  == IF Loses(x.pnl) THEN acc.run + 1 ELSE 0 IN
      [sum |-> sum, peak |-> peak, down |-> Greater(acc.down, peak - sum), run |-> run,
       longest |-> Greater(acc.longest, run)],
    [sum |-> 0, peak |-> 0, down |-> 0, run |-> 0, longest |-> 0], s)
-----------------------------------------------------------------------------
\* An exit that follows an entry of its order with no exit between.
Is(k, e, id) == journal[k].event = e /\ journal[k].id = id
Taken(k) ==
  /\ journal[k].event = "EXIT"
  /\ \E j \in 1..k - 1 : /\ Is(j, "ENTRY", journal[k].id)
                         /\ \A m \in j..k - 1 : ~Is(m, "EXIT", journal[k].id)
TakenUpTo(n) == {k \in 1..n : Taken(k)}

\* Every order is paired with its first exit after its entry and no other, whatever lines
\* the journal lacks or has twice (get_paired_trades).
PairedRight ==
  /\ Len(Paired) = Cardinality(TakenUpTo(Len(journal)))
  /\ \A k \in TakenUpTo(Len(journal)) :
       Paired[Cardinality(TakenUpTo(k))] = [id |-> journal[k].id, pnl |-> journal[k].pnl]

\* The balance after the first k of the trades s, by its definition.
Balance(s) ==
  LET sum[k \in 0..Len(s)] == IF k = 0 THEN 0 ELSE sum[k - 1] + s[k].pnl IN sum

\* The drawdown is the deepest fall from an earlier balance, the start included, and the
\* streak the longest run of losses: the one-pass loops compute both.
MeasuredRight ==
  LET s == Paired
      spans == {p \in (0..Len(s)) \X (0..Len(s)) : p[1] <= p[2]}
      falls == {Balance(s)[p[1]] - Balance(s)[p[2]] : p \in spans}
      runs  == {p[2] - p[1] : p \in {x \in spans : \A k \in x[1] + 1..x[2] : s[k].pnl < 0}} IN
  /\ Measure(s).down \in falls /\ \A f \in falls : f <= Measure(s).down
  /\ Measure(s).longest \in runs /\ \A r \in runs : r <= Measure(s).longest

JournalRead == PairedRight /\ MeasuredRight
=============================================================================
