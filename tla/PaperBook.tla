------------------------------- MODULE PaperBook -------------------------------
(***************************************************************************)
(* The virtual positions of core/validation/paper_executor.py: each        *)
(* accepted decision is a row of dvf_trades (database.py) and an entry of  *)
(* a dict in memory.  Idle scans close the entries a price or their age    *)
(* ends, row first; main() sweeps rows left OPEN, at a start of the        *)
(* process and at every reconnect alike.  Writes fail and are swallowed,   *)
(* and the process dies between any two of them.                           *)
(***************************************************************************)
EXTENDS Integers, FiniteSets

CONSTANTS
  MaxRows,   \* bound: rows of dvf_trades
  Symbols,   \* option symbols a tick may be of
  Cap,       \* _MAX_OPEN_VIRTUAL_POSITIONS
  MaxAge,    \* _MAX_VIRTUAL_HOLD_SEC; ages stop counting there
  MaxStarts  \* bound: calls of main()

ASSUME PaperAssumption ==
  /\ Symbols # {} /\ MaxRows \in Nat /\ Cap \in Nat /\ MaxAge \in Nat \ {0} /\ MaxStarts \in Nat

VARIABLES
  rows,      \* rows inserted; a decision is the number of its row
  st,        \* status of each row, "none" before it is inserted
  age,       \* time since virtual_entry_time
  of,        \* symbol of the tick a decision was recorded at
  book,      \* keys of _OPEN_VIRTUAL_POSITIONS, in the order of the rows
  pc,        \* "idle", "put", "scan", "sweep" or "down"
  todo,      \* rows the loop of a scan or a sweep has still to close
  starts,
  closes,    \* history: how often a row was closed
  orphans,   \* history: rows that were OPEN when their process died
  swept      \* history: rows a sweep closed under the living process

disk    == <<rows, st, age, of>>
history == <<closes, orphans, swept>>
vars    == <<disk, book, pc, todo, starts, history>>

Rows == 1..MaxRows
Open == {d \in Rows : st[d] = "open"}

\* Types, and the dict never holds more than its cap.
TypeOK ==
  /\ rows \in 0..MaxRows
  /\ st \in [Rows -> {"none", "open", "closed"}] /\ \A d \in Rows : st[d] = "none" <=> d > rows
  /\ age \in [Rows -> 0..MaxAge] /\ of \in [Rows -> Symbols]
  /\ book \subseteq 1..rows /\ Cardinality(book) <= Cap
  /\ pc \in {"idle", "put", "scan", "sweep", "down"}
  /\ todo \subseteq 1..rows /\ starts \in 0..MaxStarts
  /\ closes \in [Rows -> Nat] /\ orphans \subseteq Rows /\ swept \subseteq Rows

\* A row the living process opened and has not closed is in its memory, so
\* a later scan still ends it: no failed write makes the loop forget one.
Tracked == \A d \in Open \ orphans : d \in book \/ (pc = "put" /\ d = rows)

\* The result of a virtual trade is written once; only a sweep that takes a
\* row from under the living process lets a scan write it a second time.
ClosedOnce == \A d \in Rows : closes[d] <= (IF d \in swept THEN 2 ELSE 1)

\* A virtual trade is neither forgotten nor booked again (paper_executor.py).
BookExact == Tracked /\ ClosedOnce

Init ==
  /\ rows = 0 /\ st = [d \in Rows |-> "none"] /\ age = [d \in Rows |-> 0]
  /\ of = [d \in Rows |-> CHOOSE s \in Symbols : TRUE]
  /\ book = {} /\ pc = "sweep" /\ todo = {} /\ starts = 0
  /\ closes = [d \in Rows |-> 0] /\ orphans = {} /\ swept = {}

\* simulate_entry and log_dvf_trade_entry: a decision has an id of its own, so
\* no OPEN row of it is found.
Inserted ==
  /\ rows' = rows + 1 /\ st' = [st EXCEPT ![rows + 1] = "open"]
  /\ age' = [age EXCEPT ![rows + 1] = 0]

\* record_decision of a tick of s: the row is inserted; a failed insert
\* changes nothing.
Record ==
  /\ pc = "idle" /\ rows < MaxRows /\ Cardinality(book) < Cap
  /\ Inserted /\ pc' = "put"
  /\ \E s \in Symbols : of' = [of EXCEPT ![rows + 1] = s]
  /\ UNCHANGED <<book, todo, starts, history>>

\* The position becomes an entry of the dict.
Put ==
  /\ pc = "put" /\ pc' = "idle" /\ book' = book \cup {rows}
  /\ UNCHANGED <<disk, todo, starts, history>>

\* Slip: the age of an entry counts only at a tick of its own symbol.
ExitsOnOwnTick(s, hits) == {d \in book : of[d] = s /\ (d \in hits \/ age[d] = MaxAge)}

\* Entries a tick of s ends: at their virtual stop or target, or by age.
Exits(s, hits) == {d \in book : (of[d] = s /\ d \in hits) \/ age[d] = MaxAge}

\* update_open_positions, at the top of entry_signal, which state_idle reaches only
\* past its session filter and its limits.
Scan ==
  /\ pc = "idle" /\ book # {} /\ pc' = "scan"
  /\ \E s \in Symbols, hits \in SUBSET book : todo' = Exits(s, hits)
  /\ UNCHANGED <<disk, book, starts, history>>

Loops == pc \in {"scan", "sweep"}

\* Slip: a scan leaves the entry it closed in the dict.
LeftBookKept(d) == book

\* The dict after row d is closed: a sweep never looks at it.
LeftBook(d) == IF pc = "scan" THEN book \ {d} ELSE book

\* log_dvf_trade_exit: the UPDATE does not look at the status.
Written(d) ==
  st' = [st EXCEPT ![d] = "closed"] /\ closes' = [closes EXCEPT ![d] = @ + 1]

\* simulate_exit of the loop's next row.
Close ==
  /\ Loops
  /\ \E d \in todo :
       /\ \A f \in todo : d <= f
       /\ todo' = todo \ {d} /\ book' = LeftBook(d)
       /\ Written(d)
       /\ swept' = IF pc = "sweep" /\ d \in book THEN swept \cup {d} ELSE swept
  /\ UNCHANGED <<rows, age, of, pc, starts, orphans>>

\* Slip: the entry leaves the dict before its row is written.
CloseFailsForgets ==
  /\ Loops /\ todo # {} /\ todo' = {}
  /\ \E d \in todo : (\A f \in todo : d <= f) /\ book' = LeftBook(d)
  /\ UNCHANGED <<disk, pc, starts, history>>

\* The write fails: the except of the whole loop swallows it.
CloseFails ==
  /\ Loops /\ todo # {} /\ todo' = {}
  /\ UNCHANGED <<disk, book, pc, starts, history>>

LoopEnds ==
  /\ Loops /\ todo = {} /\ pc' = "idle"
  /\ UNCHANGED <<disk, book, todo, starts, history>>

\* get_open_dvf_trades, and the age test of reconcile_stale_open_positions.
Stale == {d \in Open : age[d] = MaxAge}

\* main() begins, in a new process or after a RECONNECT in the same one.
Main ==
  /\ pc \in {"idle", "down"} /\ starts < MaxStarts
  /\ starts' = starts + 1 /\ pc' = "sweep" /\ todo' = Stale
  /\ UNCHANGED <<disk, book, history>>

\* The process ends or is killed; its memory goes with it.
Dies ==
  /\ pc # "down" /\ pc' = "down" /\ book' = {} /\ todo' = {}
  /\ orphans' = orphans \cup Open
  /\ UNCHANGED <<disk, starts, closes, swept>>

Tick ==
  /\ \E d \in Open : age[d] < MaxAge
  /\ age' = [d \in Rows |-> IF d \in Open /\ age[d] < MaxAge THEN age[d] + 1 ELSE age[d]]
  /\ UNCHANGED <<rows, st, of, book, pc, todo, starts, history>>

Next ==
  \/ Record \/ Put \/ Scan
  \/ Close \/ CloseFails \/ LoopEnds
  \/ Main \/ Dies \/ Tick

Spec == Init /\ [][Next]_vars

\* The clock runs, a call that began comes back, and a write that is tried again
\* and again succeeds once.  Nothing makes the next scan come.
FairSpec ==
  /\ Spec /\ WF_vars(Tick) /\ WF_vars(Put) /\ WF_vars(LoopEnds) /\ SF_vars(Close)

\* A reconnect's sweep never ends a position younger than the longest hold:
\* what the living process still follows stays open for its scans.
YoungSurvive ==
  [][pc = "sweep" => \A d \in Open : age[d] < MaxAge => st'[d] = "open"]_vars

\* As long as scans come back while something is followed, which they do not once
\* state_idle returns before entry_signal (closed session, limits, LOCKDOWN, a stop),
\* every position the process follows ends, although its symbol may never be quoted
\* again after a rotation, unless the process dies first.
TrackedEnds ==
  []<>(pc = "scan" \/ book = {}) =>
    \A d \in Rows : d \in book ~> (st[d] = "closed" \/ d \in orphans)

=============================================================================
