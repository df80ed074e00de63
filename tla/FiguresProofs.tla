--------------------------- MODULE FiguresProofs ---------------------------
(***************************************************************************)
(* What is reckoned from a session afterwards, for every value of the      *)
(* bounds: the statistics of a journal, the reports, the backtest and the  *)
(* visual record.                                                          *)
(*                                                                         *)
(* JournalFit, ReportFit, BacktestFit and VisualFit are each inductive     *)
(* alone; after each come the lemmas that read the properties off it.      *)
(***************************************************************************)
EXTENDS Records, FiniteSetTheorems, WellFoundedInduction, TLAPS

-----------------------------------------------------------------------------
\* A set of numbers with one at or below n has a greatest one of them, and a smallest one
\* at or above n.
LEMMA Greatest ==
  ASSUME NEW S \in SUBSET Int, NEW n \in Int, \E x \in S : x <= n
  PROVE  \E x \in S : x <= n /\ \A y \in S : y <= n => y <= x
<1> DEFINE T == {n - x : x \in {y \in S : y <= n}}
<1>1. T \subseteq Nat /\ T # {}
  OBVIOUS
<1> DEFINE R == {p \in Nat \X Nat : p[1] < p[2]}
<1>2. PICK m \in T : \A y \in T : ~(<<y, m>> \in R)
  <2>1. IsWellFoundedOn(R, Nat)
    BY NatLessThanWellFounded DEF OpToRel
  <2> HIDE DEF T, R
  <2> QED BY <1>1, <2>1, WFMin
<1>3. \A y \in T : m <= y
  <2> SUFFICES ASSUME NEW y \in T, ~(m <= y) PROVE FALSE
    OBVIOUS
  <2>1. y \in Nat /\ m \in Nat
    BY <1>1
  <2> HIDE DEF T
  <2>2. <<y, m>> \in R
    BY <2>1
  <2> QED BY <1>2, <2>2
<1>4. PICK x \in S : x <= n /\ m = n - x
  BY <1>2
<1>5. ASSUME NEW y \in S, y <= n PROVE y <= x
  <2>1. n - y \in T
    BY <1>5
  <2> QED BY <2>1, <1>3, <1>4
<1> QED
  BY <1>4, <1>5

LEMMA Smallest ==
  ASSUME NEW S \in SUBSET Int, NEW n \in Int, \E x \in S : n <= x
  PROVE  \E x \in S : n <= x /\ \A y \in S : n <= y => x <= y
<1> DEFINE T == {0 - x : x \in S}
<1>1. T \in SUBSET Int /\ \E x \in T : x <= 0 - n
  OBVIOUS
<1>2. PICK m \in T : m <= 0 - n /\ \A y \in T : y <= 0 - n => y <= m
  <2> DEFINE k == 0 - n
  <2>1. k \in Int
    OBVIOUS
  <2> HIDE DEF T, k
  <2>2. \E x \in T : x <= k /\ \A y \in T : y <= k => y <= x
    <3>1. \E x \in T : x <= k
      BY <1>1 DEF k
    <3> QED BY <1>1, <2>1, <3>1, Greatest, Zenon
  <2> QED BY <2>2 DEF k
<1>3. PICK x \in S : m = 0 - x
  BY <1>2
<1>4. ASSUME NEW y \in S, n <= y PROVE x <= y
  <2>1. 0 - y \in T /\ 0 - y <= 0 - n
    BY <1>4
  <2> QED BY <2>1, <1>2, <1>3
<1> QED
  BY <1>2, <1>3, <1>4

-----------------------------------------------------------------------------
(* Folds and sums: they exist, and go up step by step.  A statement that fails *)
(* for some number, or some part of a finite set, fails for a least one.       *)

LEMMA LeastOf ==
  ASSUME NEW T \in SUBSET Nat, T # {}
  PROVE  \E m \in T : \A y \in T : m <= y
<1>1. PICK x \in T : TRUE
  OBVIOUS
<1>2. T \in SUBSET Int /\ 0 \in Int /\ (\E z \in T : 0 <= z) /\ \A y \in T : 0 <= y
  BY <1>1
<1>3. \E z \in T : 0 <= z /\ \A y \in T : 0 <= y => z <= y
  BY <1>2, Smallest, Zenon
<1> QED BY <1>2, <1>3

LEMMA LeastPart ==
  ASSUME NEW S, IsFiniteSet(S), NEW Bad \in SUBSET SUBSET S, Bad # {}
  PROVE  \E s \in Bad : \A u \in SUBSET S : Cardinality(u) < Cardinality(s) => u \notin Bad
<1> DEFINE T == {Cardinality(s) : s \in Bad}
<1>1. T \in SUBSET Nat /\ T # {}
  <2>1. \A s \in Bad : Cardinality(s) \in Nat
    BY FS_Subset, FS_CardinalityType
  <2> QED BY <2>1
<1>2. PICK m \in T : \A y \in T : m <= y
  <2> HIDE DEF T
  <2> QED BY <1>1, LeastOf
<1>3. PICK s \in Bad : m = Cardinality(s)
  BY <1>2
<1>4. ASSUME NEW u \in Bad, Cardinality(u) < Cardinality(s) PROVE FALSE
  <2>1. Cardinality(u) \in T /\ Cardinality(u) \in Nat /\ m \in Nat
    BY <1>1
  <2> QED BY <2>1, <1>2, <1>3, <1>4
<1> QED BY <1>3, <1>4

\* One element less.
LEMMA PartLess ==
  ASSUME NEW S, IsFiniteSet(S), NEW s \in SUBSET S, NEW x \in s
  PROVE  /\ s \ {x} \in SUBSET S /\ Cardinality(s) \in Nat
         /\ Cardinality(s \ {x}) = Cardinality(s) - 1
<1>1. IsFiniteSet(s)
  BY FS_Subset
<1>2. Cardinality(s) \in Nat /\ Cardinality(s) # 0
  BY <1>1, FS_CardinalityType, FS_EmptySet
<1> QED BY <1>1, <1>2, FS_RemoveElement

\* What the recursion of a fold asks for, with c the element it takes next.
Folds(f, S, base, c, G) ==
  \A s \in SUBSET S : f[s] = IF s = {} THEN base ELSE G[<<c[s], f[s \ {c[s]}]>>]
Chooses(c, S) == \A s \in SUBSET S : s # {} => c[s] \in s

LEMMA FoldFound ==
  ASSUME NEW S, IsFiniteSet(S), NEW V, NEW base \in V,
         NEW c, Chooses(c, S), NEW G \in [S \X V -> V]
  PROVE  \E f \in [SUBSET S -> V] : Folds(f, S, base, c, G)
<1> USE DEF Chooses, Folds
<1> DEFINE Eq(f, s) == f[s] = IF s = {} THEN base ELSE G[<<c[s], f[s \ {c[s]}]>>]
           P(n) == \E f \in [SUBSET S -> V] : \A s \in SUBSET S : Cardinality(s) <= n => Eq(f, s)
           Bad == {n \in Nat : ~P(n)}
<1>1. \A s \in SUBSET S : IsFiniteSet(s) /\ Cardinality(s) \in Nat /\ Cardinality(s) <= Cardinality(S)
  BY FS_Subset, FS_CardinalityType
<1>2. ASSUME NEW m \in Bad, \A y \in Bad : m <= y PROVE FALSE
  <2>1. CASE m = 0
    <3>1. \A s \in SUBSET S : Cardinality(s) <= 0 => s = {}
      BY <1>1, FS_EmptySet
    <3> DEFINE f == [s \in SUBSET S |-> base]
    <3>2. f \in [SUBSET S -> V]
      OBVIOUS
    <3>3. \A s \in SUBSET S : Cardinality(s) <= 0 => Eq(f, s)
      BY <3>1
    <3> HIDE DEF f, Eq
    <3>4. P(0)
      BY <3>2, <3>3
    <3> QED BY <3>4, <2>1, <1>2
  <2>2. CASE m # 0
    <3>1. m - 1 \in Nat /\ m \in Nat /\ ~(m <= m - 1)
      BY <2>2
    <3>2. P(m - 1)
      BY <3>1, <1>2
    <3>3. PICK f \in [SUBSET S -> V] : \A s \in SUBSET S : Cardinality(s) <= m - 1 => Eq(f, s)
      BY <3>2
    <3> DEFINE g == [s \in SUBSET S |-> IF s = {} THEN base ELSE G[<<c[s], f[s \ {c[s]}]>>]]
    <3>4. g \in [SUBSET S -> V]
      <4>1. ASSUME NEW s \in SUBSET S, s # {} PROVE G[<<c[s], f[s \ {c[s]}]>>] \in V
        <5>1. c[s] \in S /\ f[s \ {c[s]}] \in V
          BY <4>1
        <5> QED BY <5>1
      <4> QED BY <4>1
    <3>5. ASSUME NEW s \in SUBSET S, Cardinality(s) <= m PROVE Eq(g, s)
      <4>1. CASE s = {}
        BY <4>1
      <4>2. CASE s # {}
        <5> DEFINE u == s \ {c[s]}
        <5>1. c[s] \in s
          BY <4>2
        <5>2. u \in SUBSET S /\ Cardinality(u) <= m - 1
          BY <5>1, <3>1, <3>5, <1>1, PartLess
        <5>3. f[u] = IF u = {} THEN base ELSE G[<<c[u], f[u \ {c[u]}]>>]
          BY <5>2, <3>3
        <5>4. g[u] = f[u]
          BY <5>2, <5>3
        <5>5. g[s] = G[<<c[s], f[u]>>]
          BY <4>2
        <5> QED BY <4>2, <5>4, <5>5
      <4> QED BY <4>1, <4>2
    <3> HIDE DEF g, Eq
    <3>6. P(m)
      BY <3>4, <3>5
    <3> QED BY <3>6, <1>2
  <2> QED BY <2>1, <2>2
<1>3. Bad = {}
  <2>1. Bad \in SUBSET Nat
    OBVIOUS
  <2> HIDE DEF Bad
  <2> QED BY <2>1, <1>2, LeastOf
<1>4. P(Cardinality(S))
  <2>1. Cardinality(S) \in Nat
    BY FS_CardinalityType
  <2> HIDE DEF P
  <2> QED BY <2>1, <1>3
<1> QED BY <1>1, <1>4

\* A fold over a sequence takes the last of 1..k first.
Top(s) == CHOOSE x \in s : \A y \in s : x >= y

LEMMA TopIs ==
  ASSUME NEW k \in Nat \ {0}
  PROVE  Top(1..k) = k /\ (1..k) \ {k} = 1..(k - 1) /\ 1..k # {}
<1>1. k \in 1..k /\ \A y \in 1..k : k >= y
  OBVIOUS
<1>2. \A x \in 1..k : (\A y \in 1..k : x >= y) => x = k
  BY <1>1
<1> QED BY <1>1, <1>2 DEF Top

LEMMA TopInside ==
  ASSUME NEW n \in Nat, NEW s \in SUBSET (1..n), s # {}
  PROVE  Top(s) \in s
<1>1. s \in SUBSET Int /\ n \in Int /\ (\E x \in s : x <= n) /\ \A y \in s : y <= n
  <2>1. \A y \in s : y \in Int /\ y <= n
    OBVIOUS
  <2>2. n \in Int
    OBVIOUS
  <2>3. PICK x \in s : x <= n
    BY <2>1
  <2> QED BY <2>1, <2>2, <2>3, Zenon
<1>2. \E x \in s : x <= n /\ \A y \in s : y <= n => y <= x
  BY <1>1, Greatest, Zenon
<1>3. PICK x \in s : \A y \in s : y <= x
  BY <1>1, <1>2
<1>4. \A y \in s : x >= y
  BY <1>1, <1>3
<1> QED BY <1>4 DEF Top

\* Its recursion, and the values it takes along the sequence.
FoldsUp(f, n, base, G) ==
  \A s \in SUBSET (1..n) : f[s] = IF s = {} THEN base ELSE G[<<Top(s), f[s \ {Top(s)}]>>]

LEMMA FoldUpFound ==
  ASSUME NEW n \in Nat, NEW V, NEW base \in V, NEW G \in [(1..n) \X V -> V]
  PROVE  \E f \in [SUBSET (1..n) -> V] : FoldsUp(f, n, base, G)
<1> DEFINE D == 1..n
           c == [s \in SUBSET D |-> Top(s)]
<1>1. Chooses(c, D)
  BY TopInside DEF Chooses
<1>2. IsFiniteSet(D)
  BY FS_Interval
<1>3. \A s \in SUBSET D : c[s] = Top(s)
  OBVIOUS
<1> HIDE DEF D, c
<1>4. G \in [D \X V -> V]
  BY DEF D
<1>5. PICK f \in [SUBSET D -> V] : Folds(f, D, base, c, G)
  BY <1>1, <1>2, <1>4, FoldFound
<1>6. FoldsUp(f, n, base, G)
  BY <1>3, <1>5 DEF Folds, FoldsUp, D
<1> QED BY <1>5, <1>6 DEF D
-----------------------------------------------------------------------------
(* The journal: what is paired, and what is measured of the pairs.           *)

LogLines == [event : {"ENTRY", "EXIT"}, id : LoggedOrders, pnl : Int]
PairLines == [id : LoggedOrders, pnl : Int]
Pairings == [open : SUBSET LoggedOrders, paired : Seq(PairLines)]

JournalFit == journal \in Seq(LogLines)

LEMMA JournalStart == Log!Init => JournalFit
  BY DEF Log!Init, JournalFit

LEMMA JournalStep == ASSUME JournalFit, Log!Next \/ UNCHANGED journal PROVE JournalFit'
<1>1. ASSUME NEW e \in {"ENTRY", "EXIT"}, NEW id \in LoggedOrders, NEW p \in Int, Log!Line(e, id, p)
      PROVE  JournalFit'
  <2>1. [event |-> e, id |-> id, pnl |-> p] \in LogLines
    BY DEF LogLines
  <2> QED BY <1>1, <2>1 DEF JournalFit, Log!Line
<1>2. CASE Log!Entry
  <2>1. PICK id \in LoggedOrders : Log!Line("ENTRY", id, 0)
    BY <1>2 DEF Log!Entry
  <2> QED BY <1>1, <2>1
<1>3. CASE Log!Exit
  <2>1. PICK id \in LoggedOrders, p \in Pnls : Log!Line("EXIT", id, p)
    BY <1>3 DEF Log!Exit
  <2>2. p \in Int
    BY FiguresAssumption
  <2> QED BY <1>1, <2>1, <2>2
<1>4. CASE Log!NextDate \/ UNCHANGED journal
  <2>1. journal' = <<>> \/ journal' = journal
    BY <1>4 DEF Log!NextDate
  <2>2. <<>> \in Seq(LogLines)
    OBVIOUS
  <2> QED BY <2>1, <2>2 DEF JournalFit
<1> QED BY <1>2, <1>3, <1>4 DEF Log!Next

\* One line of get_paired_trades.
PairStep(acc, x) ==
  IF x.event = "ENTRY" THEN [acc EXCEPT !.open = @ \cup {x.id}]
  ELSE IF x.id \in acc.open
       THEN [open |-> acc.open \ {x.id}, paired |-> Append(acc.paired, [id |-> x.id, pnl |-> x.pnl])]
       ELSE acc
NoPairs == [open |-> {}, paired |-> <<>>]

LEMMA PairStepType ==
  ASSUME NEW acc \in Pairings, NEW x \in LogLines PROVE PairStep(acc, x) \in Pairings
<1>1. x.id \in LoggedOrders /\ x.pnl \in Int /\ [id |-> x.id, pnl |-> x.pnl] \in PairLines
  BY DEF LogLines, PairLines
<1>2. acc.open \in SUBSET LoggedOrders /\ acc.paired \in Seq(PairLines)
  BY DEF Pairings
<1>3. Append(acc.paired, [id |-> x.id, pnl |-> x.pnl]) \in Seq(PairLines)
  BY <1>1, <1>2
<1>4. [acc EXCEPT !.open = @ \cup {x.id}] \in Pairings
  BY <1>1 DEF Pairings
<1>5. [open |-> acc.open \ {x.id}, paired |-> Append(acc.paired, [id |-> x.id, pnl |-> x.pnl])] \in Pairings
  BY <1>2, <1>3 DEF Pairings
<1> QED BY <1>4, <1>5 DEF PairStep

\* The pairings of the first lines, one after the other.
PairsUp(g, n) == g[0] = NoPairs /\ \A k \in 1..n : g[k] = PairStep(g[k - 1], journal[k])

LEMMA PairingGoesUp ==
  ASSUME JournalFit
  PROVE  \E g : PairsUp(g, Len(journal)) /\ Log!Pairing = g[Len(journal)]
<1> DEFINE n == Len(journal)
           D == 1..n
           A(f) == [s \in SUBSET D |-> IF s = {} THEN NoPairs ELSE PairStep(f[s \ {Top(s)}], journal[Top(s)])]
           it == CHOOSE f : f = A(f)
           G == [p \in D \X Pairings |-> PairStep(p[2], journal[p[1]])]
<1>1. n \in Nat /\ DOMAIN journal = D /\ \A k \in D : journal[k] \in LogLines
  BY DEF JournalFit
<1>2. Log!Pairing = it[D]
  <2>1. DOMAIN journal = D
    BY <1>1
  <2> QED BY <2>1 DEF Log!Pairing, Log!FoldLeft, Log!MapThenFoldSet, Log!Max, PairStep, NoPairs, Top
<1>3. G \in [D \X Pairings -> Pairings]
  BY <1>1, PairStepType
<1>4. NoPairs \in Pairings
  BY DEF NoPairs, Pairings
<1>5. \A x \in D, v \in Pairings : G[<<x, v>>] = PairStep(v, journal[x])
  OBVIOUS
<1> HIDE DEF G
<1>6. PICK F \in [SUBSET D -> Pairings] : FoldsUp(F, n, NoPairs, G)
  BY <1>1, <1>3, <1>4, FoldUpFound
<1>7. ASSUME NEW s \in SUBSET D
      PROVE  F[s] = IF s = {} THEN NoPairs ELSE PairStep(F[s \ {Top(s)}], journal[Top(s)])
  <2>1. CASE s = {}
    BY <2>1, <1>6 DEF FoldsUp
  <2>2. CASE s # {}
    <3>1. Top(s) \in D /\ F[s \ {Top(s)}] \in Pairings
      BY <2>2, <1>1, TopInside
    <3>2. F[s] = G[<<Top(s), F[s \ {Top(s)}]>>]
      BY <2>2, <1>6 DEF FoldsUp
    <3> QED BY <2>2, <3>1, <3>2, <1>5
  <2> QED BY <2>1, <2>2
<1>8. F = A(F)
  BY <1>7
<1>9. it = A(it)
  <2> HIDE DEF A
  <2> QED BY <1>8
<1> HIDE DEF it
<1> DEFINE g == [k \in 0..n |-> it[1..k]]
<1>10. \A s \in SUBSET D : it[s] = IF s = {} THEN NoPairs ELSE PairStep(it[s \ {Top(s)}], journal[Top(s)])
  BY <1>9
<1>12. g[0] = NoPairs
  <2>1. 1..0 = {} /\ {} \in SUBSET D /\ 0 \in 0..n
    BY <1>1
  <2> QED BY <2>1, <1>10
<1>13. ASSUME NEW k \in 1..n PROVE g[k] = PairStep(g[k - 1], journal[k])
  <2>1. k \in Nat \ {0} /\ 1..k \in SUBSET D /\ k \in 0..n /\ k - 1 \in 0..n
    BY <1>1
  <2>2. Top(1..k) = k /\ (1..k) \ {k} = 1..(k - 1) /\ 1..k # {}
    BY <2>1, TopIs
  <2>3. it[1..k] = PairStep(it[(1..k) \ {k}], journal[k])
    BY <2>1, <2>2, <1>10
  <2> QED BY <2>1, <2>2, <2>3
<1>14. g[n] = it[D]
  BY <1>1
<1> QED BY <1>2, <1>12, <1>13, <1>14 DEF PairsUp

\* The orders with an entry that no exit has met yet.
OpenAt(k) ==
  {id \in LoggedOrders : \E j \in 1..k : /\ Log!Is(j, "ENTRY", id)
                                         /\ \A m \in j..k : ~Log!Is(m, "EXIT", id)}

PairOf(k) == [id |-> journal[k].id, pnl |-> journal[k].pnl]

LEMMA LineIs ==
  ASSUME JournalFit, NEW k \in 1..Len(journal)
  PROVE  /\ journal[k] \in LogLines /\ journal[k].event \in {"ENTRY", "EXIT"}
         /\ journal[k].id \in LoggedOrders /\ k \in Nat \ {0} /\ k - 1 \in Nat
         /\ PairOf(k) \in PairLines /\ PairOf(k) = [id |-> journal[k].id, pnl |-> journal[k].pnl]
<1>1. journal[k] \in LogLines
  BY DEF JournalFit
<1>2. k \in Nat \ {0} /\ k - 1 \in Nat
  OBVIOUS
<1> QED BY <1>1, <1>2 DEF LogLines, PairLines, PairOf

LEMMA TakenIs ==
  ASSUME JournalFit, NEW k \in 1..Len(journal)
  PROVE  Log!Taken(k) <=> journal[k].event = "EXIT" /\ journal[k].id \in OpenAt(k - 1)
<1>1. journal[k].id \in LoggedOrders
  BY LineIs
<1> QED BY <1>1 DEF Log!Taken, OpenAt

LEMMA OpenStep ==
  ASSUME JournalFit, NEW k \in 1..Len(journal)
  PROVE  OpenAt(k) = IF journal[k].event = "ENTRY" THEN OpenAt(k - 1) \cup {journal[k].id}
                     ELSE OpenAt(k - 1) \ {journal[k].id}
<1>1. /\ journal[k].id \in LoggedOrders /\ k \in Nat \ {0} /\ k - 1 \in Nat
      /\ journal[k].event \in {"ENTRY", "EXIT"}
  BY LineIs
<1> DEFINE e == journal[k].event
           x == journal[k].id
<1>2. ASSUME NEW id \in LoggedOrders
      PROVE  id \in OpenAt(k) <=>
               \/ id = x /\ e = "ENTRY"
               \/ id \in OpenAt(k - 1) /\ ~(id = x /\ e = "EXIT")
  <2>1. \A j \in 1..k : j \in 1..(k - 1) \/ j = k
    BY <1>1
  <2>2. \A j \in 1..k : \A m \in j..k : m \in j..(k - 1) \/ m = k
    BY <1>1
  <2>3. Log!Is(k, "EXIT", id) <=> id = x /\ e = "EXIT"
    BY DEF Log!Is
  <2>4. Log!Is(k, "ENTRY", id) <=> id = x /\ e = "ENTRY"
    BY DEF Log!Is
  <2>5. k \in 1..k /\ \A m \in k..k : m = k
    BY <1>1
  <2>6. (\E j \in 1..k : Log!Is(j, "ENTRY", id) /\ \A m \in j..k : ~Log!Is(m, "EXIT", id))
        => \/ id = x /\ e = "ENTRY"
           \/ id \in OpenAt(k - 1) /\ ~(id = x /\ e = "EXIT")
    <3> SUFFICES ASSUME NEW j \in 1..k, Log!Is(j, "ENTRY", id), \A m \in j..k : ~Log!Is(m, "EXIT", id)
                 PROVE  \/ id = x /\ e = "ENTRY"
                        \/ id \in OpenAt(k - 1) /\ ~(id = x /\ e = "EXIT")
      OBVIOUS
    <3>1. CASE j = k
      BY <3>1, <2>4
    <3>2. CASE j # k
      <4>1. j \in 1..(k - 1) /\ k \in j..k /\ \A m \in j..(k - 1) : m \in j..k
        BY <3>2, <1>1
      <4>2. ~(id = x /\ e = "EXIT")
        BY <4>1, <2>3
      <4>3. id \in OpenAt(k - 1)
        BY <4>1 DEF OpenAt
      <4> QED BY <4>2, <4>3
    <3> QED BY <3>1, <3>2
  <2>7. id = x /\ e = "ENTRY"
        => \E j \in 1..k : Log!Is(j, "ENTRY", id) /\ \A m \in j..k : ~Log!Is(m, "EXIT", id)
    <3> SUFFICES ASSUME id = x, e = "ENTRY"
                 PROVE  Log!Is(k, "ENTRY", id) /\ \A m \in k..k : ~Log!Is(m, "EXIT", id)
      BY <2>5
    <3> QED BY <2>3, <2>4, <2>5
  <2>8. id \in OpenAt(k - 1) /\ ~(id = x /\ e = "EXIT")
        => \E j \in 1..k : Log!Is(j, "ENTRY", id) /\ \A m \in j..k : ~Log!Is(m, "EXIT", id)
    <3> SUFFICES ASSUME id \in OpenAt(k - 1), ~(id = x /\ e = "EXIT")
                 PROVE  \E j \in 1..k : Log!Is(j, "ENTRY", id) /\ \A m \in j..k : ~Log!Is(m, "EXIT", id)
      OBVIOUS
    <3>1. PICK j \in 1..(k - 1) : Log!Is(j, "ENTRY", id) /\ \A m \in j..(k - 1) : ~Log!Is(m, "EXIT", id)
      BY DEF OpenAt
    <3>2. j \in 1..k
      BY <1>1
    <3> QED BY <3>1, <3>2, <2>2, <2>3
  <2> QED BY <2>6, <2>7, <2>8 DEF OpenAt
<1>3. OpenAt(k) \in SUBSET LoggedOrders /\ OpenAt(k - 1) \in SUBSET LoggedOrders
  BY DEF OpenAt
<1> QED BY <1>1, <1>2, <1>3

LEMMA LogCounts == ASSUME NEW S PROVE Log!Cardinality(S) = Cardinality(S)
  BY DEF Log!Cardinality, Cardinality

\* The exits taken by line k, and how many.
LEMMA TakenStep ==
  ASSUME NEW k \in Nat \ {0}
  PROVE  /\ Log!TakenUpTo(k) = IF Log!Taken(k) THEN Log!TakenUpTo(k - 1) \cup {k} ELSE Log!TakenUpTo(k - 1)
         /\ Log!Cardinality(Log!TakenUpTo(k - 1)) \in Nat
         /\ Log!Cardinality(Log!TakenUpTo(k)) =
              IF Log!Taken(k) THEN Log!Cardinality(Log!TakenUpTo(k - 1)) + 1
              ELSE Log!Cardinality(Log!TakenUpTo(k - 1))
<1>1. k \in 1..k /\ \A j \in 1..k : j \in 1..(k - 1) \/ j = k
  OBVIOUS
<1>2. (\A j \in 1..(k - 1) : j \in 1..k) /\ k \notin 1..(k - 1)
  OBVIOUS
<1>3. Log!TakenUpTo(k) = IF Log!Taken(k) THEN Log!TakenUpTo(k - 1) \cup {k} ELSE Log!TakenUpTo(k - 1)
  BY <1>1, <1>2 DEF Log!TakenUpTo
<1>4. k \notin Log!TakenUpTo(k - 1) /\ Log!TakenUpTo(k - 1) \in SUBSET (1..(k - 1))
  BY <1>2 DEF Log!TakenUpTo
<1>5. IsFiniteSet(1..(k - 1))
  BY FS_Interval
<1>6. IsFiniteSet(Log!TakenUpTo(k - 1))
  BY <1>4, <1>5, FS_Subset
<1>7. /\ Cardinality(Log!TakenUpTo(k - 1)) \in Nat
      /\ Cardinality(Log!TakenUpTo(k - 1) \cup {k}) = Cardinality(Log!TakenUpTo(k - 1)) + 1
  BY <1>4, <1>6, FS_CardinalityType, FS_AddElement
<1> QED BY <1>3, <1>7, LogCounts

\* After k lines the loop has paired the exits taken by then, in their order.
PairedUpTo(g, k) ==
  /\ g[k] \in Pairings
  /\ g[k].open = OpenAt(k)
  /\ Len(g[k].paired) = Log!Cardinality(Log!TakenUpTo(k))
  /\ \A m \in Log!TakenUpTo(k) :
       /\ Log!Cardinality(Log!TakenUpTo(m)) \in 1..Len(g[k].paired)
       /\ g[k].paired[Log!Cardinality(Log!TakenUpTo(m))] = PairOf(m)

PairedAs(h, acc, x) ==
  /\ h.open = IF x.event = "ENTRY" THEN acc.open \cup {x.id}
              ELSE IF x.id \in acc.open THEN acc.open \ {x.id} ELSE acc.open
  /\ h.paired = IF x.event # "ENTRY" /\ x.id \in acc.open
                THEN Append(acc.paired, [id |-> x.id, pnl |-> x.pnl])
                ELSE acc.paired

LEMMA PairStepFields ==
  ASSUME NEW acc \in Pairings, NEW x PROVE PairedAs(PairStep(acc, x), acc, x)
  BY DEF PairStep, Pairings, PairedAs

\* An append adds a place and keeps the others.
LEMMA AppendIs ==
  ASSUME NEW T, NEW s \in Seq(T), NEW x \in T
  PROVE  /\ Append(s, x) \in Seq(T) /\ Len(Append(s, x)) = Len(s) + 1 /\ Len(s) \in Nat
         /\ Append(s, x)[Len(s) + 1] = x
         /\ \A k \in 1..Len(s) : Append(s, x)[k] = s[k]
  OBVIOUS

LEMMA PairedStep ==
  ASSUME JournalFit, NEW g, NEW k \in 1..Len(journal), PairedUpTo(g, k - 1),
         g[k] = PairStep(g[k - 1], journal[k])
  PROVE  PairedUpTo(g, k)
<1> DEFINE acc == g[k - 1]
           x == journal[k]
           N(m) == Log!Cardinality(Log!TakenUpTo(m))
<1>1. /\ x \in LogLines /\ x.event \in {"ENTRY", "EXIT"} /\ x.id \in LoggedOrders
      /\ k \in Nat \ {0} /\ PairOf(k) \in PairLines /\ PairOf(k) = [id |-> x.id, pnl |-> x.pnl]
  BY LineIs
<1>2. /\ acc \in Pairings /\ acc.open = OpenAt(k - 1) /\ acc.paired \in Seq(PairLines)
      /\ Len(acc.paired) = N(k - 1)
      /\ \A m \in Log!TakenUpTo(k - 1) : N(m) \in 1..Len(acc.paired) /\ acc.paired[N(m)] = PairOf(m)
  BY DEF PairedUpTo, Pairings
<1>3. g[k] \in Pairings
  BY <1>1, <1>2, PairStepType
<1>4. Log!Taken(k) <=> x.event # "ENTRY" /\ x.id \in acc.open
  BY <1>1, <1>2, TakenIs
<1>5. /\ OpenAt(k) = IF x.event = "ENTRY" THEN OpenAt(k - 1) \cup {x.id} ELSE OpenAt(k - 1) \ {x.id}
      /\ g[k] = PairStep(acc, x) /\ acc \in Pairings
  BY <1>2, OpenStep
<1>6. /\ g[k].open = OpenAt(k)
      /\ g[k].paired = IF Log!Taken(k) THEN Append(acc.paired, PairOf(k)) ELSE acc.paired
  <2>1. acc.open = OpenAt(k - 1) /\ PairOf(k) = [id |-> x.id, pnl |-> x.pnl]
    BY <1>1, <1>2
  <2> HIDE DEF acc, x
  <2>2. /\ g[k].open = IF x.event = "ENTRY" THEN acc.open \cup {x.id}
                       ELSE IF x.id \in acc.open THEN acc.open \ {x.id} ELSE acc.open
        /\ g[k].paired = IF x.event # "ENTRY" /\ x.id \in acc.open
                         THEN Append(acc.paired, [id |-> x.id, pnl |-> x.pnl])
                         ELSE acc.paired
    <3>1. PairedAs(g[k], acc, x)
      BY <1>5, PairStepFields
    <3> QED BY <3>1 DEF PairedAs
  <2>3. g[k].open = OpenAt(k)
    BY <1>5, <2>1, <2>2
  <2>4. g[k].paired = IF Log!Taken(k) THEN Append(acc.paired, PairOf(k)) ELSE acc.paired
    BY <1>4, <2>1, <2>2
  <2> QED BY <2>3, <2>4
<1>7. /\ Log!TakenUpTo(k) = IF Log!Taken(k) THEN Log!TakenUpTo(k - 1) \cup {k} ELSE Log!TakenUpTo(k - 1)
      /\ N(k - 1) \in Nat /\ N(k) = IF Log!Taken(k) THEN N(k - 1) + 1 ELSE N(k - 1)
  BY <1>1, TakenStep
<1> DEFINE s == acc.paired
           u == g[k].paired
<1>8. /\ Log!Taken(k) => Len(u) = Len(s) + 1 /\ u[Len(s) + 1] = PairOf(k) /\ \A j \in 1..Len(s) : u[j] = s[j]
      /\ ~Log!Taken(k) => u = s
  BY <1>1, <1>2, <1>6, AppendIs
<1> HIDE DEF s, u, N, acc, x
<1>9. s \in Seq(PairLines) /\ Len(s) = N(k - 1)
      /\ \A m \in Log!TakenUpTo(k - 1) : N(m) \in 1..Len(s) /\ s[N(m)] = PairOf(m)
  BY <1>2 DEF s
<1>10. Len(u) = N(k)
  BY <1>7, <1>8, <1>9
<1>11. ASSUME NEW m \in Log!TakenUpTo(k) PROVE N(m) \in 1..Len(u) /\ u[N(m)] = PairOf(m)
  <2>1. CASE m \in Log!TakenUpTo(k - 1)
    <3>1. N(m) \in 1..Len(s) /\ s[N(m)] = PairOf(m) /\ Len(s) \in Nat
      BY <2>1, <1>7, <1>9
    <3>2. N(m) \in 1..Len(u)
      BY <3>1, <1>8
    <3> QED BY <3>1, <3>2, <1>8
  <2>2. CASE m \notin Log!TakenUpTo(k - 1)
    <3>1. m = k /\ Log!Taken(k)
      BY <2>2, <1>7, <1>11
    <3>2. N(k) = Len(s) + 1 /\ Len(s) + 1 \in 1..Len(u) /\ Len(u) = Len(s) + 1
      BY <3>1, <1>7, <1>8, <1>9
    <3> QED BY <3>1, <3>2, <1>8
  <2> QED BY <2>1, <2>2
<1> QED BY <1>3, <1>6, <1>10, <1>11 DEF PairedUpTo, u, N

LEMMA PairingsAre ==
  ASSUME JournalFit, NEW g, PairsUp(g, Len(journal))
  PROVE  \A k \in 0..Len(journal) : PairedUpTo(g, k)
<1> DEFINE n == Len(journal)
           Bad == {k \in 0..n : ~PairedUpTo(g, k)}
<1>1. n \in Nat
  BY DEF JournalFit
<1>2. PairedUpTo(g, 0)
  <2>1. g[0] = NoPairs /\ g[0].open = {} /\ g[0].paired = <<>>
    BY DEF PairsUp, NoPairs
  <2>2. OpenAt(0) = {} /\ Log!TakenUpTo(0) = {}
    BY DEF OpenAt, Log!TakenUpTo
  <2>3. Log!Cardinality({}) = 0
    BY LogCounts, FS_EmptySet
  <2>4. NoPairs \in Pairings
    BY DEF NoPairs, Pairings
  <2> QED BY <2>1, <2>2, <2>3, <2>4 DEF PairedUpTo
<1>3. ASSUME NEW m \in Bad, \A y \in Bad : m <= y PROVE FALSE
  <2>1. m \in 1..n /\ m - 1 \in 0..n /\ ~(m <= m - 1)
    BY <1>1, <1>2
  <2>2. PairedUpTo(g, m - 1)
    BY <2>1, <1>3
  <2> QED BY <2>1, <2>2, PairedStep DEF PairsUp
<1>4. Bad = {}
  <2>1. Bad \in SUBSET Nat
    OBVIOUS
  <2> HIDE DEF Bad
  <2> QED BY <2>1, <1>3, LeastOf
<1> QED BY <1>4

LEMMA PairsAreRight ==
  ASSUME JournalFit
  PROVE  Log!PairedRight /\ Log!Paired \in Seq(PairLines)
<1>1. PICK g : PairsUp(g, Len(journal)) /\ Log!Pairing = g[Len(journal)]
  BY PairingGoesUp
<1>2. Len(journal) \in 0..Len(journal)
  BY DEF JournalFit
<1>3. PairedUpTo(g, Len(journal))
  BY <1>1, <1>2, PairingsAre
<1>4. Log!Paired = g[Len(journal)].paired
  BY <1>1 DEF Log!Paired
<1> QED BY <1>3, <1>4 DEF PairedUpTo, Log!PairedRight, PairOf, Pairings

\* One pair of calculate_metrics and _max_consecutive.
Measures == [sum : Int, peak : Int, down : Int, run : Int, longest : Int]
MeasureStep(acc, x) ==
  LET sum  == acc.sum + x.pnl
      top  == Log!Greater(acc.peak, sum)
      run  == IF Log!Loses(x.pnl) THEN acc.run + 1 ELSE 0 IN
  [sum |-> sum, peak |-> top, down |-> Log!Greater(acc.down, top - sum), run |-> run,
   longest |-> Log!Greater(acc.longest, run)]
NoMeasure == [sum |-> 0, peak |-> 0, down |-> 0, run |-> 0, longest |-> 0]

MeasuredAs(h, acc, p) ==
  /\ h.sum = acc.sum + p
  /\ h.peak = IF acc.peak >= acc.sum + p THEN acc.peak ELSE acc.sum + p
  /\ h.down = IF acc.down >= h.peak - h.sum THEN acc.down ELSE h.peak - h.sum
  /\ h.run = IF p < 0 THEN acc.run + 1 ELSE 0
  /\ h.longest = IF acc.longest >= h.run THEN acc.longest ELSE h.run

LEMMA MeasureStepFields ==
  ASSUME NEW acc \in Measures, NEW x, x.pnl \in Int
  PROVE  MeasureStep(acc, x) \in Measures /\ MeasuredAs(MeasureStep(acc, x), acc, x.pnl)
<1>1. /\ acc.sum \in Int /\ acc.peak \in Int /\ acc.down \in Int /\ acc.run \in Int /\ acc.longest \in Int
  BY DEF Measures
<1> DEFINE sum  == acc.sum + x.pnl
           top  == Log!Greater(acc.peak, sum)
           run  == IF Log!Loses(x.pnl) THEN acc.run + 1 ELSE 0
           down == Log!Greater(acc.down, top - sum)
           longest == Log!Greater(acc.longest, run)
<1>2. sum \in Int /\ top \in Int /\ run \in Int /\ down \in Int /\ longest \in Int
  BY <1>1 DEF Log!Greater
<1>3. MeasureStep(acc, x) = [sum |-> sum, peak |-> top, down |-> down, run |-> run, longest |-> longest]
  BY DEF MeasureStep
<1>4. /\ sum = acc.sum + x.pnl
      /\ top = IF acc.peak >= acc.sum + x.pnl THEN acc.peak ELSE acc.sum + x.pnl
      /\ down = IF acc.down >= top - sum THEN acc.down ELSE top - sum
      /\ run = IF x.pnl < 0 THEN acc.run + 1 ELSE 0
      /\ longest = IF acc.longest >= run THEN acc.longest ELSE run
  BY DEF Log!Greater, Log!Loses
<1> HIDE DEF sum, top, run, down, longest
<1>5. MeasureStep(acc, x) \in Measures
  BY <1>2, <1>3 DEF Measures
<1> QED BY <1>3, <1>4, <1>5 DEF MeasuredAs

MeasuresUp(h, s) == h[0] = NoMeasure /\ \A k \in 1..Len(s) : h[k] = MeasureStep(h[k - 1], s[k])

LEMMA MeasureGoesUp ==
  ASSUME NEW s \in Seq(PairLines)
  PROVE  \E h : MeasuresUp(h, s) /\ Log!Measure(s) = h[Len(s)]
<1> DEFINE n == Len(s)
           D == 1..n
           A(f) == [u \in SUBSET D |-> IF u = {} THEN NoMeasure ELSE MeasureStep(f[u \ {Top(u)}], s[Top(u)])]
           it == CHOOSE f : f = A(f)
           G == [p \in D \X Measures |-> MeasureStep(p[2], s[p[1]])]
<1>1. n \in Nat /\ DOMAIN s = D /\ \A k \in D : s[k].pnl \in Int
  <2>1. \A k \in D : s[k] \in PairLines
    OBVIOUS
  <2> QED BY <2>1 DEF PairLines
<1>2. Log!Measure(s) = it[D]
  <2>1. DOMAIN s = D
    BY <1>1
  <2> QED BY <2>1 DEF Log!Measure, Log!FoldLeft, Log!MapThenFoldSet, Log!Max, MeasureStep, NoMeasure, Top
<1>3. G \in [D \X Measures -> Measures]
  BY <1>1, MeasureStepFields
<1>4. NoMeasure \in Measures
  BY DEF NoMeasure, Measures
<1>5. \A x \in D, v \in Measures : G[<<x, v>>] = MeasureStep(v, s[x])
  OBVIOUS
<1> HIDE DEF G
<1>6. PICK F \in [SUBSET D -> Measures] : FoldsUp(F, n, NoMeasure, G)
  BY <1>1, <1>3, <1>4, FoldUpFound
<1>7. ASSUME NEW u \in SUBSET D
      PROVE  F[u] = IF u = {} THEN NoMeasure ELSE MeasureStep(F[u \ {Top(u)}], s[Top(u)])
  <2>1. CASE u = {}
    BY <2>1, <1>6 DEF FoldsUp
  <2>2. CASE u # {}
    <3>1. Top(u) \in D /\ F[u \ {Top(u)}] \in Measures
      BY <2>2, <1>1, TopInside
    <3>2. F[u] = G[<<Top(u), F[u \ {Top(u)}]>>]
      BY <2>2, <1>6 DEF FoldsUp
    <3> QED BY <2>2, <3>1, <3>2, <1>5
  <2> QED BY <2>1, <2>2
<1>8. F = A(F)
  BY <1>7
<1>9. it = A(it)
  <2> HIDE DEF A
  <2> QED BY <1>8
<1> HIDE DEF it
<1> DEFINE h == [k \in 0..n |-> it[1..k]]
<1>10. \A u \in SUBSET D : it[u] = IF u = {} THEN NoMeasure ELSE MeasureStep(it[u \ {Top(u)}], s[Top(u)])
  BY <1>9
<1>11. h[0] = NoMeasure
  <2>1. 1..0 = {} /\ {} \in SUBSET D /\ 0 \in 0..n
    BY <1>1
  <2> QED BY <2>1, <1>10
<1>12. ASSUME NEW k \in 1..n PROVE h[k] = MeasureStep(h[k - 1], s[k])
  <2>1. k \in Nat \ {0} /\ 1..k \in SUBSET D /\ k \in 0..n /\ k - 1 \in 0..n
    BY <1>1
  <2>2. Top(1..k) = k /\ (1..k) \ {k} = 1..(k - 1) /\ 1..k # {}
    BY <2>1, TopIs
  <2>3. it[1..k] = MeasureStep(it[(1..k) \ {k}], s[k])
    BY <2>1, <2>2, <1>10
  <2> QED BY <2>1, <2>2, <2>3
<1>13. h[n] = it[D]
  BY <1>1
<1> QED BY <1>2, <1>11, <1>12, <1>13 DEF MeasuresUp

LEMMA MeasuresTyped ==
  ASSUME NEW s \in Seq(PairLines), NEW h, MeasuresUp(h, s)
  PROVE  \A k \in 0..Len(s) : h[k] \in Measures
<1> DEFINE n == Len(s)
           Bad == {k \in 0..n : h[k] \notin Measures}
<1>1. n \in Nat /\ \A k \in 1..n : s[k].pnl \in Int
  <2>1. \A k \in 1..n : s[k] \in PairLines
    OBVIOUS
  <2> QED BY <2>1 DEF PairLines
<1>2. h[0] \in Measures
  BY DEF MeasuresUp, NoMeasure, Measures
<1>3. ASSUME NEW m \in Bad, \A y \in Bad : m <= y PROVE FALSE
  <2>1. m \in 1..n /\ m - 1 \in 0..n /\ ~(m <= m - 1)
    BY <1>1, <1>2
  <2>2. h[m - 1] \in Measures
    BY <2>1, <1>3
  <2>3. h[m] = MeasureStep(h[m - 1], s[m]) /\ s[m].pnl \in Int
    BY <2>1, <1>1 DEF MeasuresUp
  <2> QED BY <2>2, <2>3, MeasureStepFields
<1>4. Bad = {}
  <2>1. Bad \in SUBSET Nat
    OBVIOUS
  <2> HIDE DEF Bad
  <2> QED BY <2>1, <1>3, LeastOf
<1> QED BY <1>4

\* The balances are the sums the loop carries.
Adds(b, s) == b[0] = 0 /\ \A k \in 1..Len(s) : b[k] = b[k - 1] + s[k].pnl

LEMMA BalanceIs ==
  ASSUME NEW s \in Seq(PairLines)
  PROVE  Adds(Log!Balance(s), s)
<1> DEFINE n == Len(s)
           A(f) == [k \in 0..n |-> IF k = 0 THEN 0 ELSE f[k - 1] + s[k].pnl]
           it == CHOOSE f : f = A(f)
<1>1. n \in Nat
  OBVIOUS
<1>2. PICK h : MeasuresUp(h, s)
  BY MeasureGoesUp
<1>3. \A k \in 0..n : h[k] \in Measures
  BY <1>2, MeasuresTyped
<1> DEFINE b == [k \in 0..n |-> h[k].sum]
<1>4. ASSUME NEW k \in 0..n PROVE b[k] = IF k = 0 THEN 0 ELSE b[k - 1] + s[k].pnl
  <2>1. CASE k = 0
    BY <2>1, <1>2 DEF MeasuresUp, NoMeasure
  <2>2. CASE k # 0
    <3>1. k \in 1..n /\ k - 1 \in 0..n
      BY <2>2, <1>1
    <3>2. s[k].pnl \in Int
      <4>1. s[k] \in PairLines
        BY <3>1
      <4> QED BY <4>1 DEF PairLines
    <3>3. h[k] = MeasureStep(h[k - 1], s[k]) /\ h[k - 1] \in Measures
      BY <3>1, <1>2, <1>3 DEF MeasuresUp
    <3>4. MeasuredAs(h[k], h[k - 1], s[k].pnl)
      BY <3>2, <3>3, MeasureStepFields
    <3>5. h[k].sum = h[k - 1].sum + s[k].pnl
      BY <3>4 DEF MeasuredAs
    <3> QED BY <3>1, <3>5, <2>2
  <2> QED BY <2>1, <2>2
<1>5. b = A(b)
  <2>1. b = [k \in 0..n |-> b[k]]
    OBVIOUS
  <2> HIDE DEF b
  <2> QED BY <2>1, <1>4
<1>6. it = A(it)
  <2> HIDE DEF A, b
  <2> QED BY <1>5
<1>7. Log!Balance(s) = it
  BY DEF Log!Balance
<1> HIDE DEF it
<1>8. \A k \in 0..n : it[k] = IF k = 0 THEN 0 ELSE it[k - 1] + s[k].pnl
  BY <1>6
<1>9. 0 \in 0..n /\ \A k \in 1..n : k \in 0..n /\ k # 0
  BY <1>1
<1>10. Adds(it, s)
  BY <1>8, <1>9 DEF Adds
<1> QED BY <1>7, <1>10

\* What the loop knows after k pairs: the highest balance, the deepest fall, the losses it
\* is in and the longest row of losses there was.
AllLost(s, p, q) == \A j \in p + 1..q : s[j].pnl < 0
PeakKnown(m, b, k) == (\E a \in 0..k : m.peak = b[a]) /\ \A a \in 0..k : b[a] <= m.peak
FallKnown(m, b, k) == /\ \E p \in 0..k : \E q \in p..k : m.down = b[p] - b[q]
                      /\ \A p \in 0..k : \A q \in p..k : b[p] - b[q] <= m.down
RunKnown(m, s, k) == /\ m.run \in 0..k /\ AllLost(s, k - m.run, k)
                     /\ m.run < k => ~(s[k - m.run].pnl < 0)
LongestKnown(m, s, k) == /\ \E p \in 0..k : \E q \in p..k : AllLost(s, p, q) /\ m.longest = q - p
                         /\ \A p \in 0..k : \A q \in p..k : AllLost(s, p, q) => q - p <= m.longest

MeasuredUpTo(m, b, s, k) ==
  m.sum = b[k] /\ PeakKnown(m, b, k) /\ FallKnown(m, b, k) /\ RunKnown(m, s, k) /\ LongestKnown(m, s, k)

Numbers(b, k) == \A a \in 0..k : b[a] \in Int

LEMMA PeakStep ==
  ASSUME NEW k \in Nat \ {0}, NEW b, Numbers(b, k), NEW acc \in Measures, NEW m \in Measures,
         NEW p \in Int, MeasuredAs(m, acc, p), acc.sum = b[k - 1], b[k] = b[k - 1] + p,
         PeakKnown(acc, b, k - 1)
  PROVE  PeakKnown(m, b, k) /\ m.sum = b[k]
<1> DEFINE top == acc.peak
<1>1. m.sum = b[k] /\ m.peak = (IF top >= b[k] THEN top ELSE b[k])
  BY DEF MeasuredAs
<1>2. top \in Int /\ b[k] \in Int /\ \A a \in 0..k : b[a] \in Int
  BY DEF Measures, Numbers
<1>3. PICK a \in 0..(k - 1) : top = b[a]
  BY DEF PeakKnown
<1>4. \A x \in 0..(k - 1) : b[x] <= top
  BY DEF PeakKnown
<1>5. a \in 0..k /\ k \in 0..k /\ \A x \in 0..k : x \in 0..(k - 1) \/ x = k
  OBVIOUS
<1> HIDE DEF top
<1>6. \E x \in 0..k : m.peak = b[x]
  BY <1>1, <1>3, <1>5
<1>7. ASSUME NEW x \in 0..k PROVE b[x] <= m.peak
  <2>1. x \in 0..(k - 1) => b[x] <= top
    BY <1>4
  <2>2. b[x] \in Int
    BY <1>2
  <2> QED BY <2>1, <2>2, <1>1, <1>2, <1>5
<1> QED BY <1>1, <1>6, <1>7 DEF PeakKnown

LEMMA FallStep ==
  ASSUME NEW k \in Nat \ {0}, NEW b, Numbers(b, k), NEW acc \in Measures, NEW m \in Measures,
         NEW p \in Int, MeasuredAs(m, acc, p), m.sum = b[k],
         PeakKnown(m, b, k), FallKnown(acc, b, k - 1)
  PROVE  FallKnown(m, b, k)
<1> DEFINE was == acc.down
           top == m.peak
<1>1. m.down = IF was >= top - b[k] THEN was ELSE top - b[k]
  BY DEF MeasuredAs
<1>2. top \in Int /\ was \in Int /\ b[k] \in Int /\ \A a \in 0..k : b[a] \in Int
  BY DEF Measures, Numbers
<1>3. PICK a \in 0..k : top = b[a]
  BY DEF PeakKnown
<1>4. \A x \in 0..k : b[x] <= top
  BY DEF PeakKnown
<1>5a. PICK c \in 0..(k - 1) : \E d \in c..(k - 1) : was = b[c] - b[d]
  BY DEF FallKnown
<1>5. PICK d \in c..(k - 1) : was = b[c] - b[d]
  BY <1>5a
<1>6. \A x \in 0..(k - 1) : \A y \in x..(k - 1) : b[x] - b[y] <= was
  BY DEF FallKnown
<1>7. c \in 0..k /\ d \in c..k /\ k \in a..k
      /\ \A x \in 0..k : \A y \in x..k : y = k \/ (x \in 0..(k - 1) /\ y \in x..(k - 1) /\ y \in 0..k)
  OBVIOUS
<1> HIDE DEF top, was
<1>8. \E x \in 0..k : \E y \in x..k : m.down = b[x] - b[y]
  BY <1>1, <1>3, <1>5, <1>7
<1>9. ASSUME NEW x \in 0..k, NEW y \in x..k PROVE b[x] - b[y] <= m.down
  <2>1. CASE y = k
    <3>1. b[x] <= top /\ b[x] \in Int
      BY <1>2, <1>4
    <3> QED BY <2>1, <3>1, <1>1, <1>2
  <2>2. CASE y # k
    <3>1. b[x] - b[y] <= was /\ b[x] \in Int /\ b[y] \in Int
      BY <2>2, <1>2, <1>6, <1>7
    <3> QED BY <3>1, <1>1, <1>2
  <2> QED BY <2>1, <2>2
<1> QED BY <1>8, <1>9 DEF FallKnown

LEMMA RunStep ==
  ASSUME NEW k \in Nat \ {0}, NEW s, NEW acc \in Measures, NEW m \in Measures,
         MeasuredAs(m, acc, s[k].pnl), RunKnown(acc, s, k - 1)
  PROVE  RunKnown(m, s, k)
<1> DEFINE r == acc.run
<1>1. m.run = IF s[k].pnl < 0 THEN r + 1 ELSE 0
  BY DEF MeasuredAs
<1>2. /\ r \in 0..(k - 1) /\ \A j \in (k - 1) - r + 1..(k - 1) : s[j].pnl < 0
      /\ r < k - 1 => ~(s[(k - 1) - r].pnl < 0)
  BY DEF RunKnown, AllLost
<1> HIDE DEF r
<1>3. CASE s[k].pnl < 0
  <2>1. m.run = r + 1 /\ r + 1 \in 0..k /\ k - (r + 1) = (k - 1) - r
    BY <1>1, <1>2, <1>3
  <2>2. \A j \in (k - (r + 1)) + 1..k : j \in (k - 1) - r + 1..(k - 1) \/ j = k
    BY <1>2
  <2>3. \A j \in (k - (r + 1)) + 1..k : s[j].pnl < 0
    BY <2>2, <1>2, <1>3
  <2>4. r + 1 < k => ~(s[k - (r + 1)].pnl < 0)
    <3>1. r + 1 < k => r < k - 1
      BY <1>2
    <3> QED BY <3>1, <2>1, <1>2
  <2> QED BY <2>1, <2>3, <2>4 DEF RunKnown, AllLost
<1>4. CASE ~(s[k].pnl < 0)
  <2>1. m.run = 0 /\ k - 0 = k /\ k + 1..k = {} /\ 0 \in 0..k
    BY <1>1, <1>4
  <2>2. AllLost(s, k - 0, k)
    BY <2>1 DEF AllLost
  <2> QED BY <2>1, <2>2, <1>4 DEF RunKnown
<1> QED BY <1>3, <1>4

LEMMA LongestStep ==
  ASSUME NEW k \in Nat \ {0}, NEW s, NEW acc \in Measures, NEW m \in Measures,
         MeasuredAs(m, acc, s[k].pnl), RunKnown(m, s, k), LongestKnown(acc, s, k - 1)
  PROVE  LongestKnown(m, s, k)
<1> DEFINE r == m.run
           was == acc.longest
<1>1. m.longest = (IF was >= r THEN was ELSE r) /\ was \in Int
  BY DEF MeasuredAs, Measures
<1>2. r \in 0..k /\ AllLost(s, k - r, k) /\ (r < k => ~(s[k - r].pnl < 0))
  BY DEF RunKnown
<1>3a. PICK c \in 0..(k - 1) : \E d \in c..(k - 1) : AllLost(s, c, d) /\ was = d - c
  BY DEF LongestKnown
<1>3. PICK d \in c..(k - 1) : AllLost(s, c, d) /\ was = d - c
  BY <1>3a
<1>4. \A p \in 0..(k - 1) : \A q \in p..(k - 1) : AllLost(s, p, q) => q - p <= was
  BY DEF LongestKnown
<1> HIDE DEF r, was
<1>5. c \in 0..k /\ d \in c..k /\ k - r \in 0..k /\ k \in k - r..k /\ r = k - (k - r)
  BY <1>2
<1>6. \E p \in 0..k : \E q \in p..k : AllLost(s, p, q) /\ m.longest = q - p
  BY <1>1, <1>2, <1>3, <1>5
<1>7. ASSUME NEW p \in 0..k, NEW q \in p..k, AllLost(s, p, q) PROVE q - p <= m.longest
  <2>1. CASE q = k
    <3>1. ~(k - p > r)
      <4>1. SUFFICES ASSUME k - p > r PROVE FALSE
        OBVIOUS
      <4>2. k - r \in p + 1..k /\ r < k
        BY <4>1, <1>2
      <4> QED BY <4>2, <2>1, <1>2, <1>7 DEF AllLost
    <3> QED BY <3>1, <2>1, <1>1, <1>2
  <2>2. CASE q # k
    <3>1. p \in 0..(k - 1) /\ q \in p..(k - 1)
      BY <2>2
    <3>2. q - p <= was
      BY <3>1, <1>4, <1>7
    <3> QED BY <3>2, <1>1, <1>2
  <2> QED BY <2>1, <2>2
<1> QED BY <1>6, <1>7 DEF LongestKnown

LEMMA AddsTyped ==
  ASSUME NEW s, Len(s) \in Nat, \A k \in 1..Len(s) : s[k].pnl \in Int, NEW b, Adds(b, s)
  PROVE  \A k \in 0..Len(s) : b[k] \in Int
<1> DEFINE n == Len(s)
           Bad == {k \in 0..n : b[k] \notin Int}
<1>1. n \in Nat /\ \A k \in 1..n : s[k].pnl \in Int
  OBVIOUS
<1>2. ASSUME NEW m \in Bad, \A y \in Bad : m <= y PROVE FALSE
  <2>1. m \in 1..n /\ m - 1 \in 0..n /\ ~(m <= m - 1)
    BY <1>1 DEF Adds
  <2>2. b[m - 1] \in Int
    BY <2>1, <1>2
  <2>3. b[m] = b[m - 1] + s[m].pnl /\ s[m].pnl \in Int
    BY <2>1, <1>1 DEF Adds
  <2> QED BY <2>2, <2>3
<1>3. Bad = {}
  <2>1. Bad \in SUBSET Nat
    OBVIOUS
  <2> HIDE DEF Bad
  <2> QED BY <2>1, <1>2, LeastOf
<1> QED BY <1>3

LEMMA BalanceTyped ==
  ASSUME NEW s \in Seq(PairLines), NEW b, Adds(b, s)
  PROVE  \A k \in 0..Len(s) : b[k] \in Int
<1>1. Len(s) \in Nat /\ \A k \in 1..Len(s) : s[k] \in PairLines
  OBVIOUS
<1>2. \A k \in 1..Len(s) : s[k].pnl \in Int
  BY <1>1 DEF PairLines
<1> QED BY <1>1, <1>2, AddsTyped

LEMMA MeasuredAll ==
  ASSUME NEW s \in Seq(PairLines), NEW h, MeasuresUp(h, s), NEW b, Adds(b, s)
  PROVE  \A k \in 0..Len(s) : MeasuredUpTo(h[k], b, s, k)
<1> DEFINE n == Len(s)
           Bad == {k \in 0..n : ~MeasuredUpTo(h[k], b, s, k)}
<1>1. n \in Nat /\ \A k \in 1..n : s[k].pnl \in Int
  <2>1. \A k \in 1..n : s[k] \in PairLines
    OBVIOUS
  <2> QED BY <2>1 DEF PairLines
<1>2. (\A k \in 0..n : h[k] \in Measures) /\ \A k \in 0..n : b[k] \in Int
  BY MeasuresTyped, BalanceTyped
<1>3. MeasuredUpTo(h[0], b, s, 0)
  <2> DEFINE z == h[0]
  <2>1. z.sum = 0 /\ z.peak = 0 /\ z.down = 0 /\ z.run = 0 /\ z.longest = 0 /\ b[0] = 0
    BY DEF MeasuresUp, NoMeasure, Adds
  <2>2. 0 \in 0..0 /\ (\A a \in 0..0 : a = 0) /\ 1..0 = {}
    OBVIOUS
  <2> HIDE DEF z
  <2>3. PeakKnown(z, b, 0) /\ FallKnown(z, b, 0)
    BY <2>1, <2>2 DEF PeakKnown, FallKnown
  <2>4. AllLost(s, 0, 0)
    BY DEF AllLost
  <2>5. RunKnown(z, s, 0) /\ LongestKnown(z, s, 0)
    BY <2>1, <2>2, <2>4 DEF RunKnown, LongestKnown
  <2> QED BY <2>1, <2>3, <2>5 DEF MeasuredUpTo, z
<1>4. ASSUME NEW k \in 1..n, MeasuredUpTo(h[k - 1], b, s, k - 1) PROVE MeasuredUpTo(h[k], b, s, k)
  <2> DEFINE acc == h[k - 1]
             m == h[k]
             p == s[k].pnl
  <2>1. k \in Nat \ {0} /\ k \in 0..n /\ k - 1 \in 0..n /\ \A a \in 0..k : a \in 0..n
    BY <1>1
  <2>2. acc \in Measures /\ m \in Measures /\ p \in Int /\ Numbers(b, k)
    BY <2>1, <1>1, <1>2 DEF Numbers
  <2>3. m = MeasureStep(acc, s[k])
    BY DEF MeasuresUp
  <2>4. MeasuredAs(m, acc, p)
    BY <2>2, <2>3, MeasureStepFields
  <2>5. b[k] = b[k - 1] + p
    BY DEF Adds
  <2>6. /\ acc.sum = b[k - 1] /\ PeakKnown(acc, b, k - 1) /\ FallKnown(acc, b, k - 1)
        /\ RunKnown(acc, s, k - 1) /\ LongestKnown(acc, s, k - 1)
    BY <1>4 DEF MeasuredUpTo
  <2> HIDE DEF acc, m
  <2>7. PeakKnown(m, b, k) /\ m.sum = b[k]
    <3> HIDE DEF p
    <3> QED BY <2>1, <2>2, <2>4, <2>5, <2>6, PeakStep
  <2>8. FallKnown(m, b, k)
    <3> HIDE DEF p
    <3> QED BY <2>1, <2>2, <2>4, <2>6, <2>7, FallStep
  <2>9. RunKnown(m, s, k)
    BY <2>1, <2>2, <2>4, <2>6, RunStep
  <2>10. LongestKnown(m, s, k)
    BY <2>1, <2>2, <2>4, <2>6, <2>9, LongestStep
  <2> QED BY <2>7, <2>8, <2>9, <2>10 DEF MeasuredUpTo, m
<1>5. ASSUME NEW m \in Bad, \A y \in Bad : m <= y PROVE FALSE
  <2>1. m \in 1..n /\ m - 1 \in 0..n /\ ~(m <= m - 1)
    BY <1>1, <1>3
  <2>2. MeasuredUpTo(h[m - 1], b, s, m - 1)
    BY <2>1, <1>5
  <2> QED BY <2>1, <2>2, <1>4
<1>6. Bad = {}
  <2>1. Bad \in SUBSET Nat
    OBVIOUS
  <2> HIDE DEF Bad
  <2> QED BY <2>1, <1>5, LeastOf
<1> QED BY <1>6

LEMMA MeasuresAreRight ==
  ASSUME Log!Paired \in Seq(PairLines)
  PROVE  Log!MeasuredRight
<1> DEFINE s == Log!Paired
           n == Len(s)
           b == Log!Balance(s)
           m == Log!Measure(s)
           spans == {p \in (0..n) \X (0..n) : p[1] <= p[2]}
           falls == {b[p[1]] - b[p[2]] : p \in spans}
           losing == {p[2] - p[1] : p \in {x \in spans : \A k \in x[1] + 1..x[2] : s[k].pnl < 0}}
<1>1. n \in Nat /\ Adds(b, s)
  BY BalanceIs
<1>2. PICK h : MeasuresUp(h, s) /\ m = h[n]
  BY MeasureGoesUp
<1> HIDE DEF s, b, m
<1>3. MeasuredUpTo(m, b, s, n)
  <2>1. s \in Seq(PairLines) /\ n \in 0..Len(s)
    BY <1>1 DEF s
  <2> QED BY <2>1, <1>1, <1>2, MeasuredAll
<1>4. \A p \in 0..n : \A q \in p..n : <<p, q>> \in spans /\ <<p, q>>[1] = p /\ <<p, q>>[2] = q
  BY <1>1
<1>5. \A x \in spans : x[1] \in 0..n /\ x[2] \in x[1]..n
  BY <1>1
<1> HIDE DEF n, spans
<1>6. m.down \in falls
  <2>1. PICK p \in 0..n : \E q \in p..n : m.down = b[p] - b[q]
    BY <1>3 DEF MeasuredUpTo, FallKnown
  <2>2. PICK q \in p..n : m.down = b[p] - b[q]
    BY <2>1
  <2>3. <<p, q>> \in spans /\ <<p, q>>[1] = p /\ <<p, q>>[2] = q
    BY <1>4
  <2> QED BY <2>2, <2>3
<1>7. \A f \in falls : f <= m.down
  BY <1>3, <1>5 DEF MeasuredUpTo, FallKnown
<1>8. m.longest \in losing
  <2>1. PICK p \in 0..n : \E q \in p..n : AllLost(s, p, q) /\ m.longest = q - p
    BY <1>3 DEF MeasuredUpTo, LongestKnown
  <2>2. PICK q \in p..n : AllLost(s, p, q) /\ m.longest = q - p
    BY <2>1
  <2>3. <<p, q>> \in spans /\ <<p, q>>[1] = p /\ <<p, q>>[2] = q
    BY <1>4
  <2>4. \A k \in <<p, q>>[1] + 1..<<p, q>>[2] : s[k].pnl < 0
    BY <2>2 DEF AllLost
  <2> QED BY <2>2, <2>3, <2>4
<1>9. ASSUME NEW r \in losing PROVE r <= m.longest
  <2>1. PICK x \in spans : (\A k \in x[1] + 1..x[2] : s[k].pnl < 0) /\ r = x[2] - x[1]
    OBVIOUS
  <2>2. AllLost(s, x[1], x[2]) /\ x[1] \in 0..n /\ x[2] \in x[1]..n
    BY <2>1, <1>5 DEF AllLost
  <2> QED BY <2>1, <2>2, <1>3 DEF MeasuredUpTo, LongestKnown
<1>10. m.down \in falls /\ (\A f \in falls : f <= m.down) /\ m.longest \in losing /\ \A r \in losing : r <= m.longest
  BY <1>6, <1>7, <1>8, <1>9
<1> QED BY <1>10 DEF Log!MeasuredRight, s, n, b, m, spans

LEMMA JournalIsRead == JournalFit => Log!JournalRead
  BY PairsAreRight, MeasuresAreRight DEF Log!JournalRead
-----------------------------------------------------------------------------
(* The reports: rows that are pruned, and counts that were saved.            *)

LoggedIn(s) == {x \in Report!Decisions : logged[x] # None /\ logged[x].day \in s}

ReportTypes ==
  /\ day \in Int /\ half \in 0..1
  /\ signals = [x \in Report!Decisions |-> signals[x]]
  /\ logged = [x \in Report!Decisions |-> logged[x]]
  /\ tradeRows = [x \in Report!Decisions |-> tradeRows[x]]
  /\ saved = [d \in 1..ReportDays |-> saved[d]]

\* A row that is there is as it was logged; one that is gone was old enough to go.
OldAt(row, d, h) == 2 * row.day + row.half < 2 * (d - Retention) + h
KeptAt(row, was, d, h) ==
  /\ row # None => was = row
  /\ was # None => was.day \in Int /\ was.half \in 0..1 /\ (row = None => OldAt(was, d, h))
PrunedFit == \A x \in Report!Decisions : KeptAt(signals[x], logged[x], day, half)

\* A virtual trade is of the day of its decision, which was to take it.
JoinFit ==
  \A x \in Report!Decisions :
    signals[x] # None /\ tradeRows[x] # None => tradeRows[x].day = signals[x].day /\ signals[x].taken

\* A saved report counted no more than was ever logged on its date.
SavedFit ==
  \A d \in 1..ReportDays :
    saved[d] # None => saved[d] \in Nat /\ saved[d] <= Cardinality(LoggedIn({d}))

ReportFit == ReportTypes /\ PrunedFit /\ JoinFit /\ SavedFit

LEMMA ReportCounts == ASSUME NEW S PROVE Report!Cardinality(S) = Cardinality(S)
  BY DEF Report!Cardinality, Cardinality

LEMMA FewDecisions ==
  ASSUME NEW S \in SUBSET Report!Decisions PROVE IsFiniteSet(S) /\ Cardinality(S) \in Nat
<1>1. IsFiniteSet(1..DecisionsADay)
  BY FiguresAssumption, FS_Interval
<1> QED BY <1>1, FS_Subset, FS_CardinalityType DEF Report!Decisions

LEMMA ReportStart == Report!Init => ReportFit
<1> SUFFICES ASSUME Report!Init PROVE ReportFit
  OBVIOUS
<1> USE DEF Report!Init
<1>1. ReportTypes
  BY DEF ReportTypes
<1>2. /\ \A x \in Report!Decisions : signals[x] = None /\ logged[x] = None
      /\ \A d \in 1..ReportDays : saved[d] = None
  OBVIOUS
<1> QED BY <1>1, <1>2 DEF ReportFit, PrunedFit, KeptAt, JoinFit, SavedFit

\* What was logged stays logged, so what was saved stays covered.
LEMMA SavedStays ==
  ASSUME SavedFit, saved' = saved, \A x \in Report!Decisions : logged[x] # None => logged'[x] = logged[x]
  PROVE  SavedFit'
<1> SUFFICES ASSUME NEW d \in 1..ReportDays, saved[d] # None
             PROVE  saved[d] \in Nat /\ saved[d] <= Cardinality(LoggedIn({d})')
  BY DEF SavedFit, LoggedIn
<1>1. LoggedIn({d}) \subseteq LoggedIn({d})'
  BY DEF LoggedIn, Report!Decisions
<1>2. LoggedIn({d})' \in SUBSET Report!Decisions /\ LoggedIn({d}) \in SUBSET Report!Decisions
  BY DEF LoggedIn, Report!Decisions
<1>3. /\ IsFiniteSet(LoggedIn({d})') /\ Cardinality(LoggedIn({d})') \in Nat
      /\ Cardinality(LoggedIn({d})) \in Nat
  BY <1>2, FewDecisions
<1>4. Cardinality(LoggedIn({d})) <= Cardinality(LoggedIn({d})')
  BY <1>1, <1>3, FS_Subset
<1>5. saved[d] \in Nat /\ saved[d] <= Cardinality(LoggedIn({d}))
  BY DEF SavedFit
<1> QED BY <1>3, <1>4, <1>5

LEMMA DecideKeeps ==
  ASSUME ReportFit, NEW take, Report!Decide(take) PROVE ReportFit'
<1>1. PICK x \in Report!Decisions :
        /\ signals[x] = None /\ tradeRows[x] = None /\ logged[x] = None
        /\ \/ /\ signals' = [signals EXCEPT ![x] = [day |-> day, half |-> half, taken |-> take]]
              /\ logged' = [logged EXCEPT ![x] = [day |-> day, half |-> half, taken |-> take]]
              /\ \/ take /\ tradeRows' = [tradeRows EXCEPT ![x] = [day |-> day, closed |-> FALSE]]
                 \/ UNCHANGED tradeRows
           \/ /\ take /\ UNCHANGED <<signals, logged>>
              /\ tradeRows' = [tradeRows EXCEPT ![x] = [day |-> day, closed |-> FALSE]]
        /\ UNCHANGED <<day, half, saved>>
  BY DEF Report!Decide
<1> DEFINE row == [day |-> day, half |-> half, taken |-> take]
           new == [day |-> day, closed |-> FALSE]
<1>2. row.day = day /\ row.half = half /\ row.taken = take /\ new.day = day
  OBVIOUS
<1>3. /\ \/ /\ signals' = [signals EXCEPT ![x] = row] /\ logged' = [logged EXCEPT ![x] = row]
            /\ \/ take /\ tradeRows' = [tradeRows EXCEPT ![x] = new]
               \/ tradeRows' = tradeRows
         \/ signals' = signals /\ logged' = logged /\ tradeRows' = [tradeRows EXCEPT ![x] = new]
      /\ day' = day /\ half' = half /\ saved' = saved
  BY <1>1
<1> HIDE DEF row, new
<1>4. ReportTypes'
  BY <1>3 DEF ReportFit, ReportTypes, Report!Decisions
<1>5. /\ signals = [z \in Report!Decisions |-> signals[z]] /\ logged = [z \in Report!Decisions |-> logged[z]]
      /\ tradeRows = [z \in Report!Decisions |-> tradeRows[z]] /\ day \in Int /\ half \in 0..1
  BY DEF ReportFit, ReportTypes
<1>6. \A y \in Report!Decisions : y # x =>
        signals'[y] = signals[y] /\ logged'[y] = logged[y] /\ tradeRows'[y] = tradeRows[y]
  BY <1>3, <1>5
<1>7. \/ /\ signals'[x] = row /\ logged'[x] = row
         /\ (take /\ tradeRows'[x] = new) \/ tradeRows'[x] = None
      \/ signals'[x] = None /\ logged'[x] = None
  BY <1>1, <1>3, <1>5
<1>9. PrunedFit'
  <2> SUFFICES ASSUME NEW y \in Report!Decisions PROVE KeptAt(signals'[y], logged'[y], day', half')
    BY DEF PrunedFit, Report!Decisions
  <2>1. CASE y = x
    <3>1. signals'[x] # None => signals'[x] = row /\ logged'[x] = row
      BY <1>7
    <3>2. row.day \in Int /\ row.half \in 0..1
      BY <1>2, <1>5
    <3> QED BY <2>1, <3>1, <3>2, <1>7 DEF KeptAt
  <2>2. CASE y # x
    BY <2>2, <1>3, <1>6 DEF ReportFit, PrunedFit
  <2> QED BY <2>1, <2>2
<1>10. JoinFit'
  <2> SUFFICES ASSUME NEW y \in Report!Decisions, signals'[y] # None, tradeRows'[y] # None
               PROVE  tradeRows'[y].day = signals'[y].day /\ signals'[y].taken
    BY DEF JoinFit, Report!Decisions
  <2>1. CASE y = x
    BY <2>1, <1>2, <1>7
  <2>2. CASE y # x
    BY <2>2, <1>6 DEF ReportFit, JoinFit
  <2> QED BY <2>1, <2>2
<1>11. SavedFit'
  <2>1. \A y \in Report!Decisions : logged[y] # None => logged'[y] = logged[y]
    BY <1>1, <1>6
  <2> QED BY <2>1, <1>3, SavedStays DEF ReportFit
<1> QED BY <1>4, <1>9, <1>10, <1>11 DEF ReportFit

LEMMA CloseKeeps ==
  ASSUME ReportFit, Report!CloseVirtual PROVE ReportFit'
<1>1. PICK x \in Report!Decisions :
        tradeRows[x] # None /\ tradeRows' = [tradeRows EXCEPT ![x].closed = TRUE]
  BY DEF Report!CloseVirtual
<1>2. UNCHANGED <<day, half, signals, logged, saved>>
  BY DEF Report!CloseVirtual
<1>3. ReportTypes'
  BY <1>1, <1>2 DEF ReportFit, ReportTypes, Report!Decisions
<1>4. \A y \in Report!Decisions : tradeRows'[y] # None => tradeRows[y] # None /\ tradeRows'[y].day = tradeRows[y].day
  <2> SUFFICES ASSUME NEW y \in Report!Decisions, tradeRows'[y] # None
               PROVE  tradeRows[y] # None /\ tradeRows'[y].day = tradeRows[y].day
    OBVIOUS
  <2>1. tradeRows = [z \in Report!Decisions |-> tradeRows[z]]
    BY DEF ReportFit, ReportTypes
  <2>2. CASE y = x
    <3>1. tradeRows'[x] = [tradeRows[x] EXCEPT !.closed = TRUE]
      BY <1>1, <2>1
    <3>2. [tradeRows[x] EXCEPT !.closed = TRUE].day = tradeRows[x].day
      OBVIOUS
    <3> QED BY <1>1, <2>2, <3>1, <3>2
  <2>3. CASE y # x
    BY <1>1, <2>1, <2>3
  <2> QED BY <2>2, <2>3
<1>5. JoinFit'
  BY <1>2, <1>4 DEF ReportFit, JoinFit, Report!Decisions
<1>6. PrunedFit'
  BY <1>2 DEF ReportFit, PrunedFit, Report!Decisions
<1>7. SavedFit'
  BY <1>2, SavedStays DEF ReportFit
<1> QED BY <1>3, <1>5, <1>6, <1>7 DEF ReportFit

LEMMA PruneKeeps ==
  ASSUME ReportFit, Report!Prune PROVE ReportFit'
<1>1. /\ signals' = [x \in Report!Decisions |->
                       IF signals[x] # None /\ Report!Stale(signals[x]) THEN None ELSE signals[x]]
      /\ day' = day /\ half' = half /\ tradeRows' = tradeRows /\ logged' = logged /\ saved' = saved
  BY DEF Report!Prune
<1>2. ReportTypes'
  <2>1. signals' = [x \in Report!Decisions |-> signals'[x]]
    BY <1>1
  <2> QED BY <1>1, <2>1 DEF ReportFit, ReportTypes, Report!Decisions
<1>3. \A x \in Report!Decisions :
        \/ signals'[x] = signals[x]
        \/ signals'[x] = None /\ signals[x] # None /\ OldAt(signals[x], day, half)
  BY <1>1 DEF Report!Stale, OldAt
<1>4. PrunedFit'
  <2> SUFFICES ASSUME NEW x \in Report!Decisions PROVE KeptAt(signals'[x], logged'[x], day', half')
    BY DEF PrunedFit, Report!Decisions
  <2>1. KeptAt(signals[x], logged[x], day, half)
    BY DEF ReportFit, PrunedFit
  <2> QED BY <1>1, <1>3, <2>1 DEF KeptAt
<1>5. JoinFit'
  BY <1>1, <1>3 DEF ReportFit, JoinFit, Report!Decisions
<1>6. SavedFit'
  BY <1>1, SavedStays DEF ReportFit
<1> QED BY <1>2, <1>4, <1>5, <1>6 DEF ReportFit

LEMMA GenerateKeeps ==
  ASSUME ReportFit, Report!Generate PROVE ReportFit'
<1> DEFINE n == Report!Cardinality(Report!Counted("daily", day))
<1>1. /\ saved' = [saved EXCEPT ![day] = n]
      /\ UNCHANGED <<day, half, signals, tradeRows, logged>>
  BY DEF Report!Generate
<1>2. n \in Nat /\ n <= Cardinality(LoggedIn({day})) /\ Cardinality(LoggedIn({day})) \in Nat
  <2>1. Report!Counted("daily", day) \subseteq LoggedIn({day})
    <3> SUFFICES ASSUME NEW x \in Report!Counted("daily", day) PROVE x \in LoggedIn({day})
      OBVIOUS
    <3>1. day \in Int /\ day - 1 + 1..day = {day}
      BY DEF ReportFit, ReportTypes
    <3>2. x \in Report!Decisions /\ signals[x] # None /\ signals[x].day \in {day}
      BY <3>1 DEF Report!Counted, Report!Dates
    <3>3. logged[x] = signals[x]
      BY <3>2 DEF ReportFit, PrunedFit, KeptAt
    <3> QED BY <3>2, <3>3 DEF LoggedIn
  <2>2. LoggedIn({day}) \in SUBSET Report!Decisions
    BY DEF LoggedIn
  <2>3. IsFiniteSet(LoggedIn({day})) /\ Cardinality(LoggedIn({day})) \in Nat
    BY <2>2, FewDecisions
  <2>4. /\ Cardinality(Report!Counted("daily", day)) \in Nat
        /\ Cardinality(Report!Counted("daily", day)) <= Cardinality(LoggedIn({day}))
    BY <2>1, <2>3, FS_Subset, FS_CardinalityType
  <2> QED BY <2>3, <2>4, ReportCounts
<1> HIDE DEF n
<1>3. ReportTypes'
  BY <1>1 DEF ReportFit, ReportTypes, Report!Decisions
<1>4. PrunedFit' /\ JoinFit'
  BY <1>1 DEF ReportFit, PrunedFit, JoinFit, Report!Decisions
<1>5. SavedFit'
  <2> SUFFICES ASSUME NEW d \in 1..ReportDays, saved'[d] # None
               PROVE  saved'[d] \in Nat /\ saved'[d] <= Cardinality(LoggedIn({d}))
    BY <1>1 DEF SavedFit, LoggedIn, Report!Decisions
  <2>1. saved = [z \in 1..ReportDays |-> saved[z]]
    BY DEF ReportFit, ReportTypes
  <2>2. CASE d = day
    BY <1>1, <1>2, <2>1, <2>2
  <2>3. CASE d # day
    BY <1>1, <2>1, <2>3 DEF ReportFit, SavedFit
  <2> QED BY <2>2, <2>3
<1> QED BY <1>3, <1>4, <1>5 DEF ReportFit

\* What is old stays old.
LEMMA OlderStill ==
  ASSUME NEW a \in Int, NEW b \in 0..1, NEW d \in Int, NEW h \in 0..1, NEW e \in Int, NEW g \in 0..1,
         NEW k \in Int, 2 * d + h <= 2 * e + g, 2 * a + b < 2 * (d - k) + h
  PROVE  2 * a + b < 2 * (e - k) + g
  OBVIOUS

LEMMA TimeKeeps ==
  ASSUME ReportFit, Report!TimePasses PROVE ReportFit'
<1>1. /\ \/ half = 0 /\ half' = 1 /\ day' = day
         \/ half = 1 /\ half' = 0 /\ day' = day + 1
      /\ signals' = signals /\ logged' = logged /\ tradeRows' = tradeRows /\ saved' = saved
  BY DEF Report!TimePasses
<1>2. day \in Int /\ half \in 0..1 /\ day' \in Int /\ half' \in 0..1 /\ 2 * day + half <= 2 * day' + half'
  BY <1>1 DEF ReportFit, ReportTypes
<1>3. ReportTypes'
  BY <1>1, <1>2 DEF ReportFit, ReportTypes, Report!Decisions
<1>4. PrunedFit'
  <2> SUFFICES ASSUME NEW x \in Report!Decisions PROVE KeptAt(signals[x], logged[x], day', half')
    BY <1>1 DEF PrunedFit, Report!Decisions
  <2>1. KeptAt(signals[x], logged[x], day, half)
    BY DEF ReportFit, PrunedFit
  <2>2. ASSUME logged[x].day \in Int, logged[x].half \in 0..1, OldAt(logged[x], day, half)
        PROVE  OldAt(logged[x], day', half')
    <3>1. Retention \in Int
      BY FiguresAssumption
    <3> QED BY <2>2, <3>1, <1>2, OlderStill DEF OldAt
  <2> QED BY <2>1, <2>2 DEF KeptAt
<1>5. JoinFit'
  BY <1>1 DEF ReportFit, JoinFit, Report!Decisions
<1>6. SavedFit'
  BY <1>1, SavedStays DEF ReportFit
<1> QED BY <1>3, <1>4, <1>5, <1>6 DEF ReportFit

LEMMA ReportStep ==
  ASSUME ReportFit, Report!Next \/ UNCHANGED reportVars PROVE ReportFit'
<1>1. CASE UNCHANGED reportVars
  BY <1>1 DEF reportVars, ReportFit, ReportTypes, PrunedFit, JoinFit, SavedFit, LoggedIn, Report!Decisions
<1> QED
  BY <1>1, DecideKeeps, CloseKeeps, PruneKeeps, GenerateKeeps, TimeKeeps DEF Report!Next

\* A row within the days that are looked back on has not been pruned.
LEMMA WeekIsWhole ==
  ASSUME ReportFit
  PROVE  Report!Counted("weekly", day) = LoggedIn(Report!Dates("weekly", day))
<1>1. day \in Int /\ half \in 0..1 /\ Week \in Int /\ Retention \in Int /\ Week <= Retention
  BY FiguresAssumption DEF ReportFit, ReportTypes
<1>2. Report!Dates("weekly", day) = day - Week + 1..day
  BY DEF Report!Dates
<1> SUFFICES ASSUME NEW x \in Report!Decisions
             PROVE  signals[x] # None /\ signals[x].day \in day - Week + 1..day
                    <=> logged[x] # None /\ logged[x].day \in day - Week + 1..day
  BY <1>2 DEF Report!Counted, LoggedIn
<1>3. KeptAt(signals[x], logged[x], day, half)
  BY DEF ReportFit, PrunedFit
<1>4. ASSUME logged[x] # None, logged[x].day \in day - Week + 1..day, signals[x] = None PROVE FALSE
  <2> DEFINE a == logged[x].day
             b == logged[x].half
  <2>1. a \in Int /\ b \in 0..1 /\ 2 * a + b < 2 * (day - Retention) + half
    BY <1>3, <1>4 DEF KeptAt, OldAt
  <2>2. a >= day - Week + 1
    BY <1>1, <1>4, <2>1
  <2> HIDE DEF a, b
  <2> QED BY <1>1, <2>1, <2>2
<1> QED BY <1>3, <1>4 DEF KeptAt

LEMMA SavedAtMost ==
  ASSUME ReportFit, NEW d
  PROVE  Report!SavedDaily(d) \in Nat /\ Report!SavedDaily(d) <= Cardinality(LoggedIn({d}))
<1>1. LoggedIn({d}) \in SUBSET Report!Decisions
  BY DEF LoggedIn
<1>2. Cardinality(LoggedIn({d})) \in Nat
  BY <1>1, FewDecisions
<1> QED BY <1>2 DEF Report!SavedDaily, ReportFit, SavedFit

\* Days apart have rows apart.
LEMMA RowsApart ==
  ASSUME NEW s, NEW d \in s
  PROVE  /\ Cardinality(LoggedIn(s)) = Cardinality(LoggedIn({d})) + Cardinality(LoggedIn(s \ {d}))
         /\ Cardinality(LoggedIn(s)) \in Nat /\ Cardinality(LoggedIn({d})) \in Nat
         /\ Cardinality(LoggedIn(s \ {d})) \in Nat
<1>1. /\ LoggedIn(s) \in SUBSET Report!Decisions /\ LoggedIn({d}) \in SUBSET Report!Decisions
      /\ LoggedIn(s \ {d}) \in SUBSET Report!Decisions
  BY DEF LoggedIn
<1>2. /\ IsFiniteSet(LoggedIn({d})) /\ IsFiniteSet(LoggedIn(s \ {d}))
      /\ Cardinality(LoggedIn(s)) \in Nat /\ Cardinality(LoggedIn({d})) \in Nat
      /\ Cardinality(LoggedIn(s \ {d})) \in Nat
  BY <1>1, FewDecisions
<1>3. /\ LoggedIn(s) = LoggedIn({d}) \cup LoggedIn(s \ {d})
      /\ LoggedIn({d}) \cap LoggedIn(s \ {d}) = {}
  BY DEF LoggedIn
<1> DEFINE A == LoggedIn({d})
           B == LoggedIn(s \ {d})
<1> HIDE DEF A, B
<1>4. IsFiniteSet(A) /\ IsFiniteSet(B) /\ A \cap B = {}
  BY <1>2, <1>3 DEF A, B
<1>5. Cardinality(A \cup B) = Cardinality(A) + Cardinality(B) - Cardinality(A \cap B)
  BY <1>4, FS_Union
<1>6. Cardinality(A \cap B) = 0 /\ Cardinality(A) \in Nat /\ Cardinality(B) \in Nat
  BY <1>4, FS_EmptySet, FS_CardinalityType
<1>7. Cardinality(A \cup B) = Cardinality(A) + Cardinality(B)
  BY <1>5, <1>6
<1> QED BY <1>2, <1>3, <1>7 DEF A, B

\* The saved counts of a set of dates come to no more than was logged on them.
LEMMA SavedSum ==
  ASSUME ReportFit, NEW S, IsFiniteSet(S)
  PROVE  Report!MapThenSumSet(Report!SavedDaily, S) <= Cardinality(LoggedIn(S))
<1> DEFINE Next1(s) == CHOOSE x \in s : TRUE
           A(f) == [s \in SUBSET S |-> IF s = {} THEN 0 ELSE Report!SavedDaily(Next1(s)) + f[s \ {Next1(s)}]]
           it == CHOOSE f : f = A(f)
           c == [s \in SUBSET S |-> Next1(s)]
           G == [p \in S \X Int |-> Report!SavedDaily(p[1]) + p[2]]
<1>1. Report!MapThenSumSet(Report!SavedDaily, S) = it[S]
  BY DEF Report!MapThenSumSet, Report!MapThenFoldSet
<1>2. \A d : Report!SavedDaily(d) \in Int
  <2> SUFFICES ASSUME NEW d PROVE Report!SavedDaily(d) \in Int
    OBVIOUS
  <2>1. Report!SavedDaily(d) \in Nat
    BY SavedAtMost, Zenon
  <2> QED BY <2>1
<1>3. G \in [S \X Int -> Int]
  BY <1>2
<1>4. \A x \in S, v \in Int : G[<<x, v>>] = Report!SavedDaily(x) + v
  OBVIOUS
<1>5. \A s \in SUBSET S : c[s] = Next1(s)
  OBVIOUS
<1>6. \A s \in SUBSET S : s # {} => Next1(s) \in s
  OBVIOUS
<1> HIDE DEF c, G, Next1
<1>7. PICK F \in [SUBSET S -> Int] : Folds(F, S, 0, c, G)
  <2>1. 0 \in Int
    OBVIOUS
  <2>2. Chooses(c, S)
    BY <1>5, <1>6 DEF Chooses
  <2> QED BY <1>3, <2>1, <2>2, FoldFound
<1>8. ASSUME NEW s \in SUBSET S
      PROVE  F[s] = IF s = {} THEN 0 ELSE Report!SavedDaily(Next1(s)) + F[s \ {Next1(s)}]
  <2>1. CASE s = {}
    BY <2>1, <1>7 DEF Folds
  <2>2. CASE s # {}
    <3>1. Next1(s) \in S /\ F[s \ {Next1(s)}] \in Int
      BY <2>2, <1>6
    <3>2. F[s] = G[<<c[s], F[s \ {c[s]}]>>]
      BY <2>2, <1>7 DEF Folds
    <3> QED BY <2>2, <3>1, <3>2, <1>4, <1>5
  <2> QED BY <2>1, <2>2
<1>9. F = A(F)
  BY <1>8
<1>10. it = A(it)
  <2> HIDE DEF A
  <2> QED BY <1>9
<1> HIDE DEF it
<1>11. \A s \in SUBSET S : it[s] = IF s = {} THEN 0 ELSE Report!SavedDaily(Next1(s)) + it[s \ {Next1(s)}]
  BY <1>10
<1> HIDE DEF A
<1> DEFINE Bad == {s \in SUBSET S : ~(it[s] \in Int /\ it[s] <= Cardinality(LoggedIn(s)))}
<1>12. ASSUME NEW s \in Bad, \A u \in SUBSET S : Cardinality(u) < Cardinality(s) => u \notin Bad
       PROVE  FALSE
  <2>1. Cardinality(LoggedIn(s)) \in Nat
    <3>1. LoggedIn(s) \in SUBSET Report!Decisions
      BY DEF LoggedIn
    <3> QED BY <3>1, FewDecisions
  <2>2. s # {}
    <3>1. s = {} => it[s] = 0
      BY <1>11
    <3> QED BY <2>1, <3>1
  <2> DEFINE d == Next1(s)
  <2>3. d \in s /\ s \in SUBSET S
    BY <2>2, <1>6
  <2> HIDE DEF d
  <2>4. s \ {d} \in SUBSET S /\ Cardinality(s) \in Nat /\ Cardinality(s \ {d}) = Cardinality(s) - 1
    BY <2>3, PartLess
  <2>5. it[s \ {d}] \in Int /\ it[s \ {d}] <= Cardinality(LoggedIn(s \ {d}))
    BY <2>4, <1>12
  <2>6. it[s] = Report!SavedDaily(d) + it[s \ {d}]
    BY <2>2, <2>3, <1>11 DEF d
  <2>7. Report!SavedDaily(d) \in Nat /\ Report!SavedDaily(d) <= Cardinality(LoggedIn({d}))
    BY SavedAtMost
  <2>8. /\ Cardinality(LoggedIn(s)) = Cardinality(LoggedIn({d})) + Cardinality(LoggedIn(s \ {d}))
        /\ Cardinality(LoggedIn({d})) \in Nat /\ Cardinality(LoggedIn(s \ {d})) \in Nat
    BY <2>3, RowsApart
  <2> DEFINE a == Report!SavedDaily(d)
             b == it[s \ {d}]
             m == Cardinality(LoggedIn({d}))
             n == Cardinality(LoggedIn(s \ {d}))
  <2>9. a \in Int /\ b \in Int /\ m \in Int /\ n \in Int /\ a <= m /\ b <= n
    BY <2>5, <2>7, <2>8
  <2>10. it[s] = a + b /\ Cardinality(LoggedIn(s)) = m + n
    BY <2>6, <2>8
  <2> HIDE DEF a, b, m, n
  <2>11. it[s] \in Int /\ it[s] <= Cardinality(LoggedIn(s))
    BY <2>9, <2>10
  <2> QED BY <2>11
<1>13. Bad \in SUBSET SUBSET S
  OBVIOUS
<1>14. Bad = {}
  <2> HIDE DEF Bad
  <2> QED BY <1>12, <1>13, LeastPart
<1>15. it[S] <= Cardinality(LoggedIn(S))
  BY <1>14
<1> QED BY <1>1, <1>15

LEMMA ReportsAddUp == ReportFit => Report!ReportsAddUp
<1> SUFFICES ASSUME ReportFit PROVE Report!ReportsAddUp
  OBVIOUS
<1> DEFINE D == Report!Dates("weekly", day)
<1>1. IsFiniteSet(D)
  <2>1. D = day - Week + 1..day /\ day - Week + 1 \in Int /\ day \in Int
    BY FiguresAssumption DEF Report!Dates, ReportFit, ReportTypes
  <2> QED BY <2>1, FS_Interval
<1>2. Report!Counted("weekly", day) = LoggedIn(D)
  BY WeekIsWhole
<1> HIDE DEF D
<1>3. Report!MapThenSumSet(Report!SavedDaily, D) <= Cardinality(LoggedIn(D))
  BY <1>1, SavedSum
<1>4. Report!MapThenSumSet(Report!SavedDaily, D) <= Report!Cardinality(Report!Counted("weekly", day))
  BY <1>2, <1>3, ReportCounts
<1>5. Report!WeekCoversDays
  BY <1>2, <1>4 DEF Report!WeekCoversDays, LoggedIn, D
<1>6. Report!SectionsAgree
  <2> SUFFICES ASSUME NEW t \in Report!Types
               PROVE  /\ Report!Joined(t, day) \subseteq Report!Alone(t, day) \cap Report!Accepted(t, day)
                      /\ \A x \in Report!Alone(t, day) \ Report!Joined(t, day) : signals[x] = None
    BY DEF Report!SectionsAgree
  <2> QED BY DEF ReportFit, JoinFit, Report!Joined, Report!Alone, Report!Accepted, Report!Counted
<1> QED BY <1>5, <1>6 DEF Report!ReportsAddUp
-----------------------------------------------------------------------------
(* The backtest: what its trades made, where its capital stood, and when.    *)

TestRows == [pnl : Int, in : Int, out : Int, why : {"engine", "END_OF_DATA"}]
SumOf(s) == Test!FoldLeft(LAMBDA sum, t : sum + t.pnl, 0, s)

LEMMA SumGoesUp ==
  ASSUME NEW s \in Seq(TestRows)
  PROVE  \E h : Adds(h, s) /\ SumOf(s) = h[Len(s)] /\ \A k \in 0..Len(s) : h[k] \in Int
<1> DEFINE n == Len(s)
           D == 1..n
           A(f) == [u \in SUBSET D |-> IF u = {} THEN 0 ELSE f[u \ {Top(u)}] + s[Top(u)].pnl]
           it == CHOOSE f : f = A(f)
           G == [p \in D \X Int |-> p[2] + s[p[1]].pnl]
<1>1. n \in Nat /\ DOMAIN s = D /\ \A k \in D : s[k].pnl \in Int
  <2>1. \A k \in D : s[k] \in TestRows
    OBVIOUS
  <2> QED BY <2>1 DEF TestRows
<1>2. SumOf(s) = it[D]
  <2>1. DOMAIN s = D
    BY <1>1
  <2> QED BY <2>1 DEF SumOf, Test!FoldLeft, Test!MapThenFoldSet, Test!Max, Top
<1>3. G \in [D \X Int -> Int]
  BY <1>1
<1>4. \A x \in D, v \in Int : G[<<x, v>>] = v + s[x].pnl
  OBVIOUS
<1> HIDE DEF G
<1>5. PICK F \in [SUBSET D -> Int] : FoldsUp(F, n, 0, G)
  <2>1. 0 \in Int
    OBVIOUS
  <2> QED BY <2>1, <1>1, <1>3, FoldUpFound
<1>6. ASSUME NEW u \in SUBSET D
      PROVE  F[u] = IF u = {} THEN 0 ELSE F[u \ {Top(u)}] + s[Top(u)].pnl
  <2>1. CASE u = {}
    BY <2>1, <1>5 DEF FoldsUp
  <2>2. CASE u # {}
    <3>1. Top(u) \in D /\ F[u \ {Top(u)}] \in Int
      BY <2>2, <1>1, TopInside
    <3>2. F[u] = G[<<Top(u), F[u \ {Top(u)}]>>]
      BY <2>2, <1>5 DEF FoldsUp
    <3> QED BY <2>2, <3>1, <3>2, <1>4
  <2> QED BY <2>1, <2>2
<1>7. F = A(F)
  BY <1>6
<1>8. it = A(it)
  <2> HIDE DEF A
  <2> QED BY <1>7
<1> HIDE DEF it
<1> DEFINE h == [k \in 0..n |-> it[1..k]]
<1>9. \A u \in SUBSET D : it[u] = IF u = {} THEN 0 ELSE it[u \ {Top(u)}] + s[Top(u)].pnl
  BY <1>8
<1>10. h[0] = 0
  <2>1. 1..0 = {} /\ {} \in SUBSET D /\ 0 \in 0..n
    BY <1>1
  <2> QED BY <2>1, <1>9
<1>11. ASSUME NEW k \in 1..n PROVE h[k] = h[k - 1] + s[k].pnl
  <2>1. k \in Nat \ {0} /\ 1..k \in SUBSET D /\ k \in 0..n /\ k - 1 \in 0..n
    BY <1>1
  <2>2. Top(1..k) = k /\ (1..k) \ {k} = 1..(k - 1) /\ 1..k # {}
    BY <2>1, TopIs
  <2>3. it[1..k] = it[(1..k) \ {k}] + s[k].pnl
    BY <2>1, <2>2, <1>9
  <2> QED BY <2>1, <2>2, <2>3
<1>12. h[n] = it[D]
  BY <1>1
<1> HIDE DEF h, n
<1>13. Adds(h, s)
  BY <1>10, <1>11 DEF Adds, n
<1>14. \A k \in 0..n : h[k] \in Int
  BY <1>1, <1>13, AddsTyped DEF n
<1> QED BY <1>2, <1>12, <1>13, <1>14 DEF n

LEMMA SumGrows ==
  ASSUME NEW s \in Seq(TestRows), NEW r \in TestRows
  PROVE  SumOf(Append(s, r)) = SumOf(s) + r.pnl /\ SumOf(s) \in Int
<1> DEFINE n == Len(s)
           t == Append(s, r)
<1>1. t \in Seq(TestRows) /\ n \in Nat /\ Len(t) = n + 1 /\ t[n + 1] = r /\ \A k \in 1..n : t[k] = s[k]
  OBVIOUS
<1>2. PICK g : Adds(g, s) /\ SumOf(s) = g[n] /\ \A k \in 0..n : g[k] \in Int
  BY SumGoesUp
<1>3. PICK h : Adds(h, t) /\ SumOf(t) = h[n + 1] /\ \A k \in 0..n + 1 : h[k] \in Int
  BY <1>1, SumGoesUp
<1> HIDE DEF t
<1> DEFINE Bad == {k \in 0..n : h[k] # g[k]}
<1>4. ASSUME NEW m \in Bad, \A y \in Bad : m <= y PROVE FALSE
  <2>1. m \in 1..n /\ m - 1 \in 0..n /\ ~(m <= m - 1) /\ m \in 1..n + 1
    BY <1>1, <1>2, <1>3 DEF Adds
  <2>2. h[m - 1] = g[m - 1]
    BY <2>1, <1>4
  <2> QED BY <2>1, <2>2, <1>1, <1>2, <1>3 DEF Adds
<1>5. Bad = {}
  <2>1. Bad \in SUBSET Nat
    OBVIOUS
  <2> HIDE DEF Bad
  <2> QED BY <2>1, <1>4, LeastOf
<1>6. h[n] = g[n] /\ n + 1 \in 1..n + 1 /\ (n + 1) - 1 = n /\ g[n] \in Int
  BY <1>1, <1>2, <1>5
<1>7. h[n + 1] = h[n] + r.pnl
  BY <1>1, <1>3, <1>6 DEF Adds
<1> QED BY <1>2, <1>3, <1>6, <1>7 DEF t

LEMMA SumOfNone == SumOf(<<>>) = 0
<1>1. <<>> \in Seq(TestRows) /\ Len(<<>>) = 0
  OBVIOUS
<1>2. PICK g : Adds(g, <<>>) /\ SumOf(<<>>) = g[0]
  BY <1>1, SumGoesUp
<1> QED BY <1>2 DEF Adds

LEMMA TestTotal == Test!Total = SumOf(tested)
  BY DEF Test!Total, SumOf

\* The capital at the start and after each exit; the highest and the deepest fall so far.
Points(cv) == [a \in 0..Len(cv) |-> IF a = 0 THEN Capital ELSE cv[a]]
CapitalFit(top, fall, cv) ==
  \E m \in Measures : /\ m.peak = top /\ m.down = fall
                      /\ PeakKnown(m, Points(cv), Len(cv)) /\ FallKnown(m, Points(cv), Len(cv))

LEMMA PointsAre ==
  ASSUME NEW cv \in Seq(Int)
  PROVE  Len(cv) \in Nat /\ Points(cv)[0] = Capital
         /\ \A a \in 1..Len(cv) : Points(cv)[a] = cv[a] /\ cv[a] \in Int
<1>1. Len(cv) \in Nat /\ \A a \in 1..Len(cv) : cv[a] \in Int
  OBVIOUS
<1>2. 0 \in 0..Len(cv) /\ \A a \in 1..Len(cv) : a \in 0..Len(cv) /\ a # 0
  BY <1>1
<1> QED BY <1>1, <1>2 DEF Points

LEMMA CapitalStep ==
  ASSUME NEW cv \in Seq(Int), NEW c \in Int, NEW top \in Int, NEW fall \in Int,
         CapitalFit(top, fall, cv)
  PROVE  CapitalFit(Test!AtLeast(top, c), Test!AtLeast(fall, Test!AtLeast(top, c) - c), Append(cv, c))
<1> DEFINE k == Len(cv) + 1
           cw == Append(cv, c)
           b == Points(cw)
           p == c - b[k - 1]
           acc == [sum |-> b[k - 1], peak |-> top, down |-> fall, run |-> 0, longest |-> 0]
           m == MeasureStep(acc, [pnl |-> p])
<1>1. cw \in Seq(Int) /\ Len(cw) = k /\ cw[k] = c /\ \A a \in 1..k - 1 : cw[a] = cv[a]
  OBVIOUS
<1>2. k \in Nat \ {0} /\ k - 1 = Len(cv) /\ Capital \in Int
  BY FiguresAssumption
<1> HIDE DEF cw, k
<1>3. \A a \in 0..k - 1 : b[a] = Points(cv)[a] /\ b[a] \in Int
  <2> SUFFICES ASSUME NEW a \in 0..k - 1 PROVE b[a] = Points(cv)[a] /\ b[a] \in Int
    OBVIOUS
  <2>1. CASE a = 0
    <3>1. Points(cv)[0] = Capital /\ Points(cw)[0] = Capital
      BY <1>1, PointsAre
    <3> QED BY <2>1, <3>1, <1>2
  <2>2. CASE a # 0
    <3>1. a \in 1..k - 1 /\ a \in 1..k /\ a \in 1..Len(cv) /\ a \in 1..Len(cw)
      BY <2>2, <1>1, <1>2
    <3>2. Points(cv)[a] = cv[a] /\ cv[a] \in Int
      BY <3>1, PointsAre
    <3>3. Points(cw)[a] = cw[a]
      BY <3>1, <1>1, PointsAre
    <3> QED BY <3>1, <3>2, <3>3, <1>1
  <2> QED BY <2>1, <2>2
<1>4. b[k] = c
  <2>1. k \in 1..Len(cw)
    BY <1>1, <1>2
  <2> QED BY <2>1, <1>1, PointsAre
<1> HIDE DEF b
<1>5. p \in Int /\ b[k - 1] \in Int /\ b[k] = b[k - 1] + p
  <2>1. k - 1 \in 0..k - 1
    BY <1>2
  <2>2. b[k - 1] \in Int
    BY <2>1, <1>3
  <2> QED BY <2>2, <1>4
<1>6. Numbers(b, k)
  <2>1. \A a \in 0..k : a \in 0..k - 1 \/ a = k
    BY <1>2
  <2> QED BY <2>1, <1>3, <1>4 DEF Numbers
<1> HIDE DEF p
<1>7. acc \in Measures /\ acc.sum = b[k - 1] /\ acc.peak = top /\ acc.down = fall
  BY <1>5 DEF Measures
<1> HIDE DEF acc
<1>8. m \in Measures /\ MeasuredAs(m, acc, p)
  <2>1. [pnl |-> p].pnl = p
    OBVIOUS
  <2> QED BY <2>1, <1>5, <1>7, MeasureStepFields
<1> HIDE DEF m
<1>9. PeakKnown(acc, b, k - 1) /\ FallKnown(acc, b, k - 1)
  <2>1. PICK z \in Measures : /\ z.peak = top /\ z.down = fall
                              /\ PeakKnown(z, Points(cv), k - 1) /\ FallKnown(z, Points(cv), k - 1)
    BY <1>2 DEF CapitalFit
  <2>2. PeakKnown(acc, Points(cv), k - 1) /\ FallKnown(acc, Points(cv), k - 1)
    BY <2>1, <1>7 DEF PeakKnown, FallKnown
  <2>3. k - 1 \in Nat
    BY <1>2
  <2>4. PeakKnown(acc, b, k - 1)
    BY <2>2, <1>3 DEF PeakKnown
  <2>5. FallKnown(acc, b, k - 1)
    <3>1. \A x \in 0..k - 1 : \A y \in x..k - 1 : y \in 0..k - 1
      BY <2>3
    <3> QED BY <2>2, <1>3, <3>1 DEF FallKnown
  <2> QED BY <2>4, <2>5
<1>10. PeakKnown(m, b, k) /\ m.sum = b[k]
  BY <1>2, <1>5, <1>6, <1>7, <1>8, <1>9, PeakStep
<1>11. FallKnown(m, b, k)
  BY <1>2, <1>5, <1>6, <1>7, <1>8, <1>9, <1>10, FallStep
<1>12. /\ m.peak = Test!AtLeast(top, c)
       /\ m.down = Test!AtLeast(fall, Test!AtLeast(top, c) - c)
  <2>1. m.sum = c /\ acc.sum + p = c
    BY <1>4, <1>5, <1>7, <1>10
  <2>2. m.peak = IF top >= c THEN top ELSE c
    BY <2>1, <1>7, <1>8 DEF MeasuredAs
  <2>3. m.down = IF fall >= m.peak - c THEN fall ELSE m.peak - c
    BY <2>1, <1>7, <1>8 DEF MeasuredAs
  <2>4. m.peak = Test!AtLeast(top, c) /\ m.peak \in Int
    BY <2>2 DEF Test!AtLeast
  <2>5. m.down = Test!AtLeast(fall, m.peak - c)
    BY <2>3, <2>4 DEF Test!AtLeast
  <2> QED BY <2>4, <2>5
<1> QED BY <1>1, <1>8, <1>10, <1>11, <1>12 DEF CapitalFit, b, cw

LEMMA WorstIsRight ==
  ASSUME curve \in Seq(Int), CapitalFit(peak, worst, curve)
  PROVE  Test!WorstFall
<1> DEFINE c == <<Capital>> \o curve
           n == Len(curve)
           bs(a) == {c[a] - c[b] : b \in a..Len(c)}
           falls == UNION {bs(a) : a \in 1..Len(c)}
           P == Points(curve)
<1>1. n \in Nat /\ Capital \in Int
  BY FiguresAssumption
<1>2. Len(c) = n + 1 /\ \A a \in 1..n + 1 : c[a] = P[a - 1] /\ c[a] \in Int
  <2>1. Len(c) = n + 1 /\ c[1] = Capital /\ \A a \in 2..n + 1 : c[a] = curve[a - 1]
    BY <1>1
  <2>2. P[0] = Capital /\ \A a \in 1..n : P[a] = curve[a] /\ curve[a] \in Int
    BY PointsAre
  <2>3. \A a \in 1..n + 1 : a = 1 \/ (a \in 2..n + 1 /\ a - 1 \in 1..n)
    BY <1>1
  <2> HIDE DEF c, P
  <2>4. ASSUME NEW a \in 1..n + 1 PROVE c[a] = P[a - 1] /\ c[a] \in Int
    <3>1. CASE a = 1
      BY <3>1, <2>1, <2>2, <1>1
    <3>2. CASE a # 1
      <4>1. a \in 2..n + 1 /\ a - 1 \in 1..n
        BY <3>2, <2>3
      <4> QED BY <4>1, <2>1, <2>2
    <3> QED BY <3>1, <3>2
  <2> QED BY <2>1, <2>4
<1>3. PICK m \in Measures : m.down = worst /\ FallKnown(m, P, n)
  BY DEF CapitalFit
<1> HIDE DEF c, P
<1>4. worst \in falls
  <2>1. PICK p \in 0..n : \E q \in p..n : worst = P[p] - P[q]
    BY <1>3 DEF FallKnown
  <2>2. PICK q \in p..n : worst = P[p] - P[q]
    BY <2>1
  <2>3. p + 1 \in 1..n + 1 /\ q + 1 \in 1..n + 1 /\ q + 1 \in (p + 1)..(n + 1) /\ (p + 1) - 1 = p /\ (q + 1) - 1 = q
    BY <1>1
  <2>4. worst = c[p + 1] - c[q + 1]
    BY <2>2, <2>3, <1>2
  <2>5. worst \in bs(p + 1)
    BY <2>3, <2>4, <1>2
  <2> HIDE DEF bs
  <2> QED BY <2>3, <2>5, <1>2
<1>5. \A f \in falls : f \in Int /\ f <= worst
  <2> SUFFICES ASSUME NEW a \in 1..Len(c), NEW b \in a..Len(c)
               PROVE  c[a] - c[b] \in Int /\ c[a] - c[b] <= worst
    OBVIOUS
  <2>1. a \in 1..n + 1 /\ b \in 1..n + 1 /\ a - 1 \in 0..n /\ b - 1 \in (a - 1)..n
    BY <1>1, <1>2
  <2>2. P[a - 1] - P[b - 1] <= worst
    BY <2>1, <1>3 DEF FallKnown
  <2> QED BY <2>1, <2>2, <1>2
<1> HIDE DEF falls
<1>6. worst \in Int
  BY <1>4, <1>5
<1>7. \A x \in falls : (\A y \in falls : x >= y) => x = worst
  BY <1>4, <1>5, <1>6
<1>8. Test!Max(falls) = worst
  BY <1>4, <1>5, <1>6, <1>7 DEF Test!Max
<1>9. Test!Report.drawdown = worst
  BY DEF Test!Report
<1> QED BY <1>8, <1>9 DEF Test!WorstFall, falls, c

\* A trade that is open, or none.
HeldNow == IF current = Test!NoTrade THEN 0 ELSE 1

TestTypes ==
  /\ i \in Nat /\ price \in Int /\ firstSpot \in Int
  /\ current.buy \in Int /\ current.qty \in Int /\ current.at \in Int
  /\ tested \in Seq(TestRows) /\ curve \in Seq(Int) /\ cash \in Int /\ peak \in Int /\ worst \in Int
  /\ date \in Int /\ daily \in Nat /\ entered \in Seq(Int)

\* Every trade that was entered is on record or still open, and paid its entry.
MoneyFit ==
  /\ Len(tested) + HeldNow = Len(entered)
  /\ cash = Capital + SumOf(tested) - Side * Len(entered)

EnteredOn(s, d) == {n \in DOMAIN s : Test!Day(s[n]) = d}
\* How many were entered on the day of the last candle, and that no day had too many.
DailyFit(k, s, d, count) ==
  /\ k = 0 => Len(s) = 0 /\ count = 0
  /\ k > 0 => d = Test!Day(k) /\ Cardinality(EnteredOn(s, d)) = count
  /\ \A n \in 1..Len(s) : s[n] \in 1..k /\ Test!Day(s[n]) <= Test!Day(k)
  /\ \A e \in Int : Cardinality(EnteredOn(s, e)) <= MaxPerDay
  /\ count <= MaxPerDay

\* One after the other.
OrderFit ==
  /\ current # Test!NoTrade => current.at \in 1..i /\ \A k \in 1..Len(tested) : tested[k].out < current.at
  /\ \A k \in 1..Len(tested) : /\ tested[k].out <= i
                               /\ tested[k].in < tested[k].out \/ tested[k].why = "END_OF_DATA"
  /\ \A k \in 2..Len(tested) : tested[k - 1].out < tested[k].in

BacktestFit ==
  TestTypes /\ MoneyFit /\ CapitalFit(peak, worst, curve) /\ DailyFit(i, entered, date, daily) /\ OrderFit

\* The days of the file go up, at most by one.
LEMMA DayGoesUp ==
  ASSUME NEW k \in Nat
  PROVE  Test!Day(k) \in Int /\ Test!Day(k + 1) \in Int /\ Test!Day(k) <= Test!Day(k + 1)
<1>1. PerDay \in Nat /\ PerDay > 0
  BY FiguresAssumption
<1> DEFINE a == (k - 1) \div PerDay
           b == k \div PerDay
<1>2. a \in Int /\ b \in Int
  BY <1>1
<1>3. a <= b
  BY <1>1
<1>4. Test!Day(k) = a /\ Test!Day(k + 1) = b
  BY DEF Test!Day
<1> QED BY <1>2, <1>3, <1>4

LEMMA EnteredFinite ==
  ASSUME NEW s \in Seq(Int), NEW d
  PROVE  IsFiniteSet(EnteredOn(s, d)) /\ Cardinality(EnteredOn(s, d)) \in Nat /\ Len(s) \in Nat /\ DOMAIN s = 1..Len(s)
<1>1. Len(s) \in Nat /\ DOMAIN s = 1..Len(s)
  OBVIOUS
<1>2. IsFiniteSet(1..Len(s)) /\ EnteredOn(s, d) \subseteq 1..Len(s)
  BY <1>1, FS_Interval DEF EnteredOn
<1> QED BY <1>1, <1>2, FS_Subset, FS_CardinalityType

LEMMA DailySkip ==
  ASSUME NEW k \in Nat, NEW s \in Seq(Int), NEW d \in Int, NEW count \in Nat, DailyFit(k, s, d, count)
  PROVE  DailyFit(k + 1, s, Test!Day(k + 1), IF Test!Day(k + 1) = d THEN count ELSE 0)
<1> DEFINE n == Len(s)
           e == Test!Day(k + 1)
           c == IF e = d THEN count ELSE 0
<1>1. n \in Nat /\ DOMAIN s = 1..n /\ MaxPerDay \in Nat
  BY EnteredFinite, FiguresAssumption
<1>2. Test!Day(k) \in Int /\ e \in Int /\ Test!Day(k) <= e
  BY DayGoesUp
<1>3. Cardinality(EnteredOn(s, e)) = c
  <2>1. CASE k = 0
    <3>1. n = 0 /\ count = 0 /\ c = 0
      BY <2>1 DEF DailyFit
    <3>2. 1..n = {}
      BY <3>1
    <3>3. EnteredOn(s, e) = {}
      BY <3>2, <1>1 DEF EnteredOn
    <3> QED BY <3>1, <3>3, FS_EmptySet
  <2>2. CASE k # 0 /\ e = d
    BY <2>2 DEF DailyFit
  <2>3. CASE k # 0 /\ e # d
    <3>1. Test!Day(k) < e /\ c = 0
      BY <2>3, <1>2 DEF DailyFit
    <3>2. ASSUME NEW m \in 1..n PROVE Test!Day(s[m]) # e
      <4>1. Test!Day(s[m]) <= Test!Day(k) /\ Test!Day(s[m]) \in Int
        <5>1. s[m] \in 1..k /\ Test!Day(s[m]) <= Test!Day(k)
          BY DEF DailyFit
        <5>2. s[m] \in Nat
          BY <5>1
        <5> QED BY <5>1, <5>2, DayGoesUp
      <4> QED BY <4>1, <3>1, <1>2
    <3>3. EnteredOn(s, e) = {}
      BY <3>2, <1>1 DEF EnteredOn
    <3> QED BY <3>1, <3>3, FS_EmptySet
  <2> QED BY <2>1, <2>2, <2>3
<1>4. \A m \in 1..n : s[m] \in 1..k + 1 /\ Test!Day(s[m]) <= e
  <2> SUFFICES ASSUME NEW m \in 1..n PROVE s[m] \in 1..k + 1 /\ Test!Day(s[m]) <= e
    OBVIOUS
  <2>1. s[m] \in 1..k /\ Test!Day(s[m]) <= Test!Day(k)
    BY DEF DailyFit
  <2>2. s[m] \in Nat /\ s[m] \in 1..k + 1
    BY <2>1
  <2>3. Test!Day(s[m]) \in Int
    BY <2>2, DayGoesUp
  <2> QED BY <2>1, <2>2, <2>3, <1>2
<1>5. c <= MaxPerDay /\ \A x \in Int : Cardinality(EnteredOn(s, x)) <= MaxPerDay
  BY <1>1 DEF DailyFit
<1>6. k + 1 # 0 /\ k + 1 > 0
  OBVIOUS
<1> HIDE DEF e, c
<1>7. DailyFit(k + 1, s, e, c)
  BY <1>3, <1>4, <1>5, <1>6 DEF DailyFit, e
<1> QED BY <1>7 DEF e, c

LEMMA DailyEnter ==
  ASSUME NEW k \in Nat, NEW s \in Seq(Int), NEW count \in Nat, k > 0,
         DailyFit(k, s, Test!Day(k), count), count < MaxPerDay
  PROVE  DailyFit(k, Append(s, k), Test!Day(k), count + 1)
<1> DEFINE n == Len(s)
           e == Test!Day(k)
           t == Append(s, k)
<1>1. n \in Nat /\ DOMAIN s = 1..n /\ MaxPerDay \in Nat /\ e \in Int
  BY EnteredFinite, FiguresAssumption, DayGoesUp
<1>2. t \in Seq(Int) /\ Len(t) = n + 1 /\ DOMAIN t = 1..n + 1 /\ t[n + 1] = k /\ \A m \in 1..n : t[m] = s[m]
  OBVIOUS
<1> HIDE DEF t, n
<1>3. \A x : x # e => EnteredOn(t, x) = EnteredOn(s, x)
  <2>1. \A m \in 1..n + 1 : m \in 1..n \/ m = n + 1
    BY <1>1
  <2>2. \A m \in 1..n : m \in 1..n + 1
    BY <1>1
  <2> QED BY <2>1, <2>2, <1>1, <1>2 DEF EnteredOn
<1>4. EnteredOn(t, e) = EnteredOn(s, e) \cup {n + 1} /\ n + 1 \notin EnteredOn(s, e)
  <2>1. \A m \in 1..n + 1 : m \in 1..n \/ m = n + 1
    BY <1>1
  <2>2. (\A m \in 1..n : m \in 1..n + 1) /\ n + 1 \in 1..n + 1 /\ n + 1 \notin 1..n
    BY <1>1
  <2> QED BY <2>1, <2>2, <1>1, <1>2 DEF EnteredOn
<1>5. Cardinality(EnteredOn(s, e)) = count
  BY DEF DailyFit
<1>6. Cardinality(EnteredOn(t, e)) = count + 1
  BY <1>4, <1>5, EnteredFinite, FS_AddElement
<1>7. \A x \in Int : Cardinality(EnteredOn(t, x)) <= MaxPerDay
  <2> SUFFICES ASSUME NEW x \in Int PROVE Cardinality(EnteredOn(t, x)) <= MaxPerDay
    OBVIOUS
  <2>1. CASE x = e
    BY <2>1, <1>1, <1>6
  <2>2. CASE x # e
    <3>1. Cardinality(EnteredOn(s, x)) <= MaxPerDay
      BY DEF DailyFit
    <3> QED BY <2>2, <3>1, <1>3
  <2> QED BY <2>1, <2>2
<1>8. \A m \in 1..Len(t) : t[m] \in 1..k /\ Test!Day(t[m]) <= Test!Day(k)
  <2> SUFFICES ASSUME NEW m \in 1..n + 1 PROVE t[m] \in 1..k /\ Test!Day(t[m]) <= Test!Day(k)
    BY <1>2
  <2>1. CASE m = n + 1
    BY <2>1, <1>1, <1>2
  <2>2. CASE m # n + 1
    <3>1. m \in 1..Len(s) /\ t[m] = s[m]
      BY <2>2, <1>1, <1>2 DEF n
    <3> QED BY <3>1 DEF DailyFit
  <2> QED BY <2>1, <2>2
<1>9. k # 0 /\ count + 1 <= MaxPerDay
  BY <1>1
<1> QED BY <1>6, <1>7, <1>8, <1>9 DEF DailyFit, t

LEMMA TestStart == Test!Init => BacktestFit
<1> SUFFICES ASSUME Test!Init PROVE BacktestFit
  OBVIOUS
<1>1. /\ i = 0 /\ firstSpot = 0 /\ price = 0 /\ current = Test!NoTrade
      /\ tested = <<>> /\ curve = <<>> /\ cash = Capital /\ peak = Capital /\ worst = 0
      /\ date = -1 /\ daily = 0 /\ entered = <<>>
  BY DEF Test!Init
<1>2. Capital \in Int /\ Side \in Int /\ MaxPerDay \in Nat
  BY FiguresAssumption
<1>3. TestTypes
  <2>1. Test!NoTrade.buy = 0 /\ Test!NoTrade.qty = 0 /\ Test!NoTrade.at = 0
    BY DEF Test!NoTrade
  <2>2. <<>> \in Seq(TestRows) /\ <<>> \in Seq(Int) /\ -1 \in Int /\ 0 \in Nat
    OBVIOUS
  <2> QED BY <1>1, <1>2, <2>1, <2>2 DEF TestTypes
<1>4. MoneyFit
  BY <1>1, <1>2, SumOfNone DEF MoneyFit, HeldNow
<1>5. CapitalFit(peak, worst, curve)
  <2> DEFINE m == [sum |-> 0, peak |-> Capital, down |-> 0, run |-> 0, longest |-> 0]
             b == Points(<<>>)
  <2>1. m \in Measures /\ m.peak = Capital /\ m.down = 0
    BY <1>2 DEF Measures
  <2>2. b[0] = Capital /\ Len(<<>>) = 0
    BY DEF Points
  <2>3. 0 \in 0..0 /\ (\A a \in 0..0 : a = 0)
    OBVIOUS
  <2> HIDE DEF m, b
  <2>4. PeakKnown(m, b, 0) /\ FallKnown(m, b, 0)
    BY <1>2, <2>1, <2>2, <2>3 DEF PeakKnown, FallKnown
  <2> QED BY <1>1, <2>1, <2>2, <2>4 DEF CapitalFit, b
<1>6. DailyFit(i, entered, date, daily)
  <2>1. \A e : EnteredOn(<<>>, e) = {}
    BY DEF EnteredOn
  <2>2. Len(<<>>) = 0 /\ 1..0 = {}
    OBVIOUS
  <2> QED BY <1>1, <1>2, <2>1, <2>2, FS_EmptySet DEF DailyFit
<1>7. OrderFit
  BY <1>1 DEF OrderFit
<1> QED BY <1>3, <1>4, <1>5, <1>6, <1>7 DEF BacktestFit

\* A premium is a number, and so is what a trade makes.
LEMMA PremiumIs ==
  ASSUME NEW close \in Int, firstSpot \in Int
  PROVE  Test!Premium(close) \in Int /\ Test!FirstSpot(close) \in Int
<1>1. SignalLine \in Int /\ Reference \in Int /\ Floor \in Int /\ Ceiling \in Int
  BY FiguresAssumption
<1> DEFINE first == IF firstSpot = 0 THEN close ELSE firstSpot
           proxy == Reference + close - first
<1>2. first \in Int /\ proxy \in Int
  BY <1>1
<1>3. Test!Premium(close) = IF close <= SignalLine THEN Test!AtLeast(Floor, close)
                            ELSE Test!AtLeast(Floor, Test!AtMost(Ceiling, proxy))
  BY DEF Test!Premium
<1> HIDE DEF proxy
<1>4. Test!Premium(close) \in Int
  BY <1>1, <1>2, <1>3 DEF Test!AtLeast, Test!AtMost
<1> QED BY <1>4 DEF Test!FirstSpot

LEMMA ProductIs == ASSUME NEW a \in Int, NEW b \in Int, NEW c \in Int PROVE a * b - c \in Int
  OBVIOUS
LEMMA CostsMore ==
  ASSUME NEW a \in Int, NEW b \in Int, NEW c \in Int, NEW n \in Int
  PROVE  (a + b - c * n) - c = a + b - c * (n + 1)
  OBVIOUS
LEMMA EarnsMore ==
  ASSUME NEW a \in Int, NEW b \in Int, NEW c \in Int, NEW n \in Int, NEW x \in Int
  PROVE  (a + b - c * n) + x = a + (b + x) - c * n
  OBVIOUS

\* What _exit_trade leaves of the trade, at a candle no earlier than its own.
LEMMA ExitKeeps ==
  ASSUME BacktestFit, current # Test!NoTrade, NEW p \in Int, NEW k \in Int, NEW w \in {"engine", "END_OF_DATA"},
         Test!Exit(p, k, w), k >= i, w = "END_OF_DATA" \/ k > i, entered' = entered, i' = k
  PROVE  /\ tested' \in Seq(TestRows) /\ curve' \in Seq(Int) /\ cash' \in Int /\ peak' \in Int /\ worst' \in Int
         /\ current' = Test!NoTrade /\ MoneyFit' /\ CapitalFit(peak', worst', curve') /\ OrderFit'
<1>1. /\ tested \in Seq(TestRows) /\ curve \in Seq(Int) /\ cash \in Int /\ peak \in Int /\ worst \in Int
      /\ current.buy \in Int /\ current.qty \in Int /\ current.at \in Int /\ entered \in Seq(Int) /\ i \in Nat
  BY DEF BacktestFit, TestTypes
<1>2. Side \in Int /\ Capital \in Int /\ Slippage \in Int
  BY FiguresAssumption
<1> DEFINE pnl == (Test!Sold(p) - current.buy) * current.qty - Side
           row == [pnl |-> pnl, in |-> current.at, out |-> k, why |-> w]
           c == cash + pnl
<1>3. /\ tested' = Append(tested, row) /\ cash' = c /\ curve' = Append(curve, c)
      /\ peak' = Test!NewPeak(c) /\ worst' = Test!AtLeast(worst, Test!NewPeak(c) - cash - pnl)
      /\ current' = Test!NoTrade
  BY DEF Test!Exit
<1>4. pnl \in Int
  <2>1. Test!Sold(p) - current.buy \in Int
    BY <1>1, <1>2 DEF Test!Sold
  <2> QED BY <2>1, <1>1, <1>2, ProductIs
<1>5. row \in TestRows /\ row.pnl = pnl /\ row.in = current.at /\ row.out = k /\ row.why = w
  <2> HIDE DEF pnl
  <2> QED BY <1>1, <1>4 DEF TestRows
<1> HIDE DEF pnl, row
<1>6. c \in Int
  BY <1>1, <1>4
<1>7. peak' = Test!AtLeast(peak, c) /\ peak' \in Int
  BY <1>1, <1>3, <1>6 DEF Test!NewPeak, Test!AtLeast
<1>8. worst' = Test!AtLeast(worst, Test!AtLeast(peak, c) - c) /\ worst' \in Int
  <2>1. Test!NewPeak(c) \in Int
    BY <1>3, <1>7
  <2>2. Test!NewPeak(c) - cash - pnl = Test!NewPeak(c) - c
    BY <2>1, <1>1, <1>4
  <2>3. worst' = Test!AtLeast(worst, peak' - c)
    BY <2>2, <1>3
  <2>4. worst' \in Int
    BY <2>3, <1>1, <1>6, <1>7 DEF Test!AtLeast
  <2> QED BY <2>3, <2>4, <1>7
<1>9. CapitalFit(peak', worst', curve')
  <2>1. CapitalFit(peak, worst, curve)
    BY DEF BacktestFit
  <2> HIDE DEF c
  <2>2. CapitalFit(Test!AtLeast(peak, c), Test!AtLeast(worst, Test!AtLeast(peak, c) - c), Append(curve, c))
    BY <2>1, <1>1, <1>6, CapitalStep
  <2> QED BY <2>2, <1>3, <1>7, <1>8
<1>10. tested' \in Seq(TestRows) /\ curve' \in Seq(Int)
  <2> HIDE DEF c
  <2> QED BY <1>1, <1>3, <1>5, <1>6
<1>11. Len(tested) \in Nat /\ Len(tested') = Len(tested) + 1 /\ Len(entered) \in Nat
  BY <1>1, <1>3
<1>12. MoneyFit'
  <2>1. Len(tested) + 1 = Len(entered) /\ cash = Capital + SumOf(tested) - Side * Len(entered)
    BY DEF BacktestFit, MoneyFit, HeldNow
  <2>2. HeldNow' = 0
    BY <1>3 DEF HeldNow
  <2>3. SumOf(tested') = SumOf(tested) + pnl /\ SumOf(tested) \in Int
    BY <1>1, <1>3, <1>5, SumGrows
  <2>4. cash' = (Capital + SumOf(tested) - Side * Len(entered)) + pnl
    BY <2>1, <1>3
  <2>5. cash' = Capital + (SumOf(tested) + pnl) - Side * Len(entered)
    BY <2>3, <2>4, <1>2, <1>4, <1>11, EarnsMore
  <2>6. Len(tested') + 0 = Len(entered)
    BY <2>1, <1>11
  <2> QED BY <2>2, <2>3, <2>5, <2>6 DEF MoneyFit
<1>13. OrderFit'
  <2>1. /\ current.at \in 1..i /\ \A m \in 1..Len(tested) : tested[m].out < current.at
        /\ \A m \in 1..Len(tested) : /\ tested[m].out <= i
                                     /\ tested[m].in < tested[m].out \/ tested[m].why = "END_OF_DATA"
        /\ \A m \in 2..Len(tested) : tested[m - 1].out < tested[m].in
    BY DEF BacktestFit, OrderFit
  <2> DEFINE n == Len(tested)
             t == tested'
  <2>2. t[n + 1] = row /\ (\A m \in 1..n : t[m] = tested[m]) /\ Len(t) = n + 1
    BY <1>1, <1>3
  <2>3. \A m \in 1..n : tested[m].out \in Int
    <3>1. \A m \in 1..n : tested[m] \in TestRows
      BY <1>1
    <3> QED BY <3>1 DEF TestRows
  <2> HIDE DEF n, t
  <2>4. n \in Nat /\ (\A m \in 1..n + 1 : m \in 1..n \/ m = n + 1)
        /\ \A m \in 2..n + 1 : m \in 2..n \/ (m = n + 1 /\ m - 1 \in 1..n)
    BY <1>11 DEF n
  <2>5. ASSUME NEW m \in 1..n + 1
        PROVE  t[m].out <= k /\ (t[m].in < t[m].out \/ t[m].why = "END_OF_DATA")
    <3>1. CASE m = n + 1
      BY <3>1, <2>1, <2>2, <1>1, <1>5
    <3>2. CASE m # n + 1
      <4>1. m \in 1..n /\ t[m] = tested[m] /\ tested[m].out <= i /\ tested[m].out \in Int
        BY <3>2, <2>1, <2>2, <2>3, <2>4 DEF n
      <4>2. tested[m].in < tested[m].out \/ tested[m].why = "END_OF_DATA"
        BY <4>1, <2>1 DEF n
      <4> QED BY <4>1, <4>2, <1>1
    <3> QED BY <3>1, <3>2
  <2>6. ASSUME NEW m \in 2..n + 1 PROVE t[m - 1].out < t[m].in
    <3>1. CASE m \in 2..n
      <4>1. m \in 1..n /\ m - 1 \in 1..n
        BY <3>1, <2>4
      <4>2. t[m] = tested[m] /\ t[m - 1] = tested[m - 1]
        BY <4>1, <2>2
      <4> QED BY <3>1, <4>2, <2>1 DEF n
    <3>2. CASE m = n + 1 /\ m - 1 \in 1..n
      <4>1. t[m] = row /\ t[m - 1] = tested[m - 1] /\ tested[m - 1].out < current.at
        BY <3>2, <2>1, <2>2 DEF n
      <4> QED BY <4>1, <1>5
    <3> QED BY <3>1, <3>2, <2>4
  <2> QED BY <1>3, <2>2, <2>5, <2>6 DEF OrderFit, t
<1> QED BY <1>3, <1>6, <1>7, <1>8, <1>9, <1>10, <1>12, <1>13

\* What _enter_trade takes on.
LEMMA EnterKeeps ==
  ASSUME BacktestFit, current = Test!NoTrade, NEW p \in Int, NEW q \in Int, Test!Enter(p, q),
         i' = i + 1, tested' = tested
  PROVE  /\ current'.buy \in Int /\ current'.qty \in Int /\ current'.at \in Int /\ cash' \in Int
         /\ entered' = Append(entered, i + 1) /\ entered' \in Seq(Int) /\ MoneyFit' /\ OrderFit'
<1>1. /\ tested \in Seq(TestRows) /\ cash \in Int /\ entered \in Seq(Int) /\ i \in Nat
      /\ Side \in Int /\ Capital \in Int /\ Slippage \in Int
  BY FiguresAssumption DEF BacktestFit, TestTypes
<1> DEFINE new == [buy |-> Test!Bought(p), qty |-> q, at |-> i + 1]
<1>2. current' = new /\ cash' = cash - Side /\ entered' = Append(entered, i + 1)
  BY DEF Test!Enter
<1>3. new.buy \in Int /\ new.qty \in Int /\ new.at = i + 1
  BY <1>1 DEF Test!Bought
<1>4. new # Test!NoTrade
  <2>1. Test!NoTrade.at = 0 /\ i + 1 # 0
    BY <1>1 DEF Test!NoTrade
  <2> QED BY <1>3, <2>1
<1> HIDE DEF new
<1>5. entered' \in Seq(Int) /\ Len(entered') = Len(entered) + 1 /\ Len(entered) \in Nat /\ Len(tested) \in Nat
  BY <1>1, <1>2
<1>6. MoneyFit'
  <2>1. Len(tested) + 0 = Len(entered) /\ cash = Capital + SumOf(tested) - Side * Len(entered)
    BY DEF BacktestFit, MoneyFit, HeldNow
  <2>2. HeldNow' = 1
    BY <1>2, <1>4 DEF HeldNow
  <2>3. SumOf(tested) \in Int
    <3>1. PICK h : SumOf(tested) = h[Len(tested)] /\ \A k \in 0..Len(tested) : h[k] \in Int
      BY <1>1, SumGoesUp
    <3>2. Len(tested) \in 0..Len(tested)
      BY <1>5
    <3> QED BY <3>1, <3>2
  <2>4. cash' = Capital + SumOf(tested) - Side * (Len(entered) + 1)
    <3>1. cash' = (Capital + SumOf(tested) - Side * Len(entered)) - Side
      BY <2>1, <1>2
    <3> QED BY <3>1, <2>3, <1>1, <1>5, CostsMore
  <2>5. Len(tested) + 1 = Len(entered')
    BY <2>1, <1>5
  <2> QED BY <2>2, <2>4, <2>5, <1>5 DEF MoneyFit
<1>7. OrderFit'
  <2>1. /\ \A k \in 1..Len(tested) : /\ tested[k].out <= i
                                     /\ tested[k].in < tested[k].out \/ tested[k].why = "END_OF_DATA"
        /\ \A k \in 2..Len(tested) : tested[k - 1].out < tested[k].in
    BY DEF BacktestFit, OrderFit
  <2>2. \A k \in 1..Len(tested) : tested[k].out <= i + 1 /\ tested[k].out < i + 1
    <3>1. \A k \in 1..Len(tested) : tested[k].out \in Int
      <4>1. \A k \in 1..Len(tested) : tested[k] \in TestRows
        BY <1>1
      <4> QED BY <4>1 DEF TestRows
    <3> QED BY <3>1, <2>1, <1>1
  <2>3. i + 1 \in 1..i + 1
    BY <1>1
  <2> QED BY <1>2, <1>3, <2>1, <2>2, <2>3 DEF OrderFit
<1> QED BY <1>1, <1>2, <1>3, <1>5, <1>6, <1>7

\* A candle that neither ends a trade nor starts one.
LEMMA WaitKeeps ==
  ASSUME BacktestFit, i' = i + 1, UNCHANGED <<current, tested, curve, cash, peak, worst, entered>>
  PROVE  MoneyFit' /\ CapitalFit(peak', worst', curve') /\ OrderFit'
<1>1. i \in Nat /\ tested \in Seq(TestRows)
  BY DEF BacktestFit, TestTypes
<1>2. MoneyFit' /\ CapitalFit(peak', worst', curve')
  BY DEF BacktestFit, MoneyFit, HeldNow
<1>3. OrderFit'
  <2>1. \A k \in 1..Len(tested) : tested[k].out \in Int
    <3>1. \A k \in 1..Len(tested) : tested[k] \in TestRows
      BY <1>1
    <3> QED BY <3>1 DEF TestRows
  <2>2. OrderFit
    BY DEF BacktestFit
  <2>3. \A k \in 1..Len(tested) : /\ tested[k].out <= i + 1
                                  /\ tested[k].in < tested[k].out \/ tested[k].why = "END_OF_DATA"
    BY <2>1, <2>2, <1>1 DEF OrderFit
  <2>4. current # Test!NoTrade => current.at \in 1..i + 1
    BY <2>2, <1>1 DEF OrderFit
  <2> QED BY <2>2, <2>3, <2>4 DEF OrderFit
<1> QED BY <1>2, <1>3

LEMMA CandleKeeps ==
  ASSUME BacktestFit, Test!Candle PROVE BacktestFit'
<1>1. /\ i' = i + 1 /\ date' = Test!Day(i + 1)
      /\ \E close \in Closes :
           LET p == Test!Premium(close)
               tally == IF Test!Day(i + 1) = date THEN daily ELSE 0
           IN /\ price' = p /\ firstSpot' = Test!FirstSpot(close)
              /\ \/ /\ current # Test!NoTrade /\ Test!Exit(p, i + 1, "engine") /\ daily' = tally
                    /\ UNCHANGED entered
                 \/ /\ current = Test!NoTrade /\ tally < MaxPerDay
                    /\ \E q \in Quantities : Test!Enter(p, q)
                    /\ daily' = tally + 1 /\ UNCHANGED <<tested, curve, peak, worst>>
                 \/ daily' = tally /\ UNCHANGED <<current, tested, curve, cash, peak, worst, entered>>
  BY DEF Test!Candle
<1> DEFINE tally == IF Test!Day(i + 1) = date THEN daily ELSE 0
<1>2. PICK close \in Closes :
        /\ price' = Test!Premium(close) /\ firstSpot' = Test!FirstSpot(close)
        /\ \/ /\ current # Test!NoTrade /\ Test!Exit(Test!Premium(close), i + 1, "engine") /\ daily' = tally
              /\ entered' = entered
           \/ /\ current = Test!NoTrade /\ tally < MaxPerDay
              /\ \E q \in Quantities : Test!Enter(Test!Premium(close), q)
              /\ daily' = tally + 1 /\ UNCHANGED <<tested, curve, peak, worst>>
           \/ daily' = tally /\ UNCHANGED <<current, tested, curve, cash, peak, worst, entered>>
  BY <1>1
<1>3. TestTypes /\ DailyFit(i, entered, date, daily)
  BY DEF BacktestFit
<1>4. i \in Nat /\ daily \in Nat /\ date \in Int /\ entered \in Seq(Int) /\ firstSpot \in Int
  BY <1>3 DEF TestTypes
<1>5. close \in Int /\ Quantities \subseteq Int /\ MaxPerDay \in Nat
  BY FiguresAssumption
<1> DEFINE p == Test!Premium(close)
<1>6. p \in Int /\ Test!FirstSpot(close) \in Int
  BY <1>4, <1>5, PremiumIs
<1>7. tally \in Nat /\ Test!Day(i + 1) \in Int /\ i + 1 \in Nat /\ i + 1 > 0
  BY <1>4, DayGoesUp
<1>8. DailyFit(i + 1, entered, Test!Day(i + 1), tally)
  BY <1>3, <1>4, DailySkip
<1> HIDE DEF tally, p
<1>9. CASE current # Test!NoTrade /\ Test!Exit(p, i + 1, "engine") /\ daily' = tally /\ entered' = entered
  <2>1. i + 1 \in Int /\ i + 1 >= i /\ i + 1 > i /\ "engine" \in {"engine", "END_OF_DATA"}
    BY <1>4
  <2>2. /\ tested' \in Seq(TestRows) /\ curve' \in Seq(Int) /\ cash' \in Int /\ peak' \in Int /\ worst' \in Int
        /\ current' = Test!NoTrade /\ MoneyFit' /\ CapitalFit(peak', worst', curve') /\ OrderFit'
    BY <2>1, <1>1, <1>6, <1>9, ExitKeeps
  <2>3. current'.buy \in Int /\ current'.qty \in Int /\ current'.at \in Int
    BY <2>2 DEF Test!NoTrade
  <2>4. TestTypes'
    BY <2>2, <2>3, <1>1, <1>2, <1>4, <1>6, <1>7, <1>9 DEF TestTypes, p
  <2>5. DailyFit(i', entered', date', daily')
    BY <1>1, <1>8, <1>9
  <2> QED BY <2>2, <2>4, <2>5 DEF BacktestFit
<1>10. CASE /\ current = Test!NoTrade /\ tally < MaxPerDay
            /\ \E q \in Quantities : Test!Enter(p, q)
            /\ daily' = tally + 1 /\ UNCHANGED <<tested, curve, peak, worst>>
  <2>1. PICK q \in Quantities : Test!Enter(p, q)
    BY <1>10
  <2>2. q \in Int
    BY <1>5
  <2>3. /\ current'.buy \in Int /\ current'.qty \in Int /\ current'.at \in Int /\ cash' \in Int
        /\ entered' = Append(entered, i + 1) /\ entered' \in Seq(Int) /\ MoneyFit' /\ OrderFit'
    BY <2>1, <2>2, <1>1, <1>6, <1>10, EnterKeeps
  <2>4. TestTypes'
    <3>1. tally + 1 \in Nat
      BY <1>7
    <3> QED BY <2>3, <3>1, <1>1, <1>2, <1>3, <1>6, <1>7, <1>10 DEF TestTypes, p
  <2>5. DailyFit(i + 1, Append(entered, i + 1), Test!Day(i + 1), tally + 1)
    BY <1>4, <1>7, <1>8, <1>10, DailyEnter
  <2>6. DailyFit(i', entered', date', daily')
    BY <2>3, <2>5, <1>1, <1>10
  <2>7. CapitalFit(peak', worst', curve')
    BY <1>10 DEF BacktestFit
  <2> QED BY <2>3, <2>4, <2>6, <2>7 DEF BacktestFit
<1>11. CASE daily' = tally /\ UNCHANGED <<current, tested, curve, cash, peak, worst, entered>>
  <2>1. MoneyFit' /\ CapitalFit(peak', worst', curve') /\ OrderFit'
    BY <1>1, <1>11, WaitKeeps
  <2>2. TestTypes'
    BY <1>1, <1>2, <1>3, <1>6, <1>7, <1>11 DEF TestTypes, p
  <2>3. DailyFit(i', entered', date', daily')
    BY <1>1, <1>8, <1>11
  <2> QED BY <2>1, <2>2, <2>3 DEF BacktestFit
<1> QED BY <1>2, <1>9, <1>10, <1>11 DEF p

LEMMA EndKeeps ==
  ASSUME BacktestFit, Test!EndOfData PROVE BacktestFit'
<1>1. /\ current # Test!NoTrade /\ Test!Exit(price, i, "END_OF_DATA")
      /\ UNCHANGED <<i, firstSpot, price, date, daily, entered>>
  BY DEF Test!EndOfData
<1>2. TestTypes /\ DailyFit(i, entered, date, daily)
  BY DEF BacktestFit
<1>3. i \in Int /\ i >= i /\ price \in Int /\ "END_OF_DATA" \in {"engine", "END_OF_DATA"}
  BY <1>2 DEF TestTypes
<1>4. /\ tested' \in Seq(TestRows) /\ curve' \in Seq(Int) /\ cash' \in Int /\ peak' \in Int /\ worst' \in Int
      /\ current' = Test!NoTrade /\ MoneyFit' /\ CapitalFit(peak', worst', curve') /\ OrderFit'
  BY <1>1, <1>3, ExitKeeps
<1>5. current'.buy \in Int /\ current'.qty \in Int /\ current'.at \in Int
  BY <1>4 DEF Test!NoTrade
<1>6. TestTypes'
  BY <1>1, <1>2, <1>4, <1>5 DEF TestTypes
<1>7. DailyFit(i', entered', date', daily')
  BY <1>1, <1>2
<1> QED BY <1>4, <1>6, <1>7 DEF BacktestFit

LEMMA TestStep ==
  ASSUME BacktestFit, Test!Next \/ UNCHANGED backtestVars PROVE BacktestFit'
<1>1. CASE UNCHANGED backtestVars
  BY <1>1 DEF backtestVars, BacktestFit, TestTypes, MoneyFit, HeldNow, OrderFit
<1> QED BY <1>1, CandleKeeps, EndKeeps DEF Test!Next

LEMMA TestCounts == ASSUME NEW S PROVE Test!Cardinality(S) = Cardinality(S)
  BY DEF Test!Cardinality, Cardinality

LEMMA LessCapital ==
  ASSUME NEW a \in Int, NEW b \in Int, NEW c \in Int, NEW n \in Int
  PROVE  (a + b - c * n) - a = b - c * n
  OBVIOUS

LEMMA BacktestIsRight == BacktestFit => Test!BacktestAddsUp
<1> SUFFICES ASSUME BacktestFit PROVE Test!BacktestAddsUp
  OBVIOUS
<1>1. /\ tested \in Seq(TestRows) /\ curve \in Seq(Int) /\ cash \in Int /\ entered \in Seq(Int) /\ i \in Nat
      /\ Side \in Int /\ Capital \in Int
  BY FiguresAssumption DEF BacktestFit, TestTypes
<1>2. Len(tested) \in Nat /\ DOMAIN tested = 1..Len(tested) /\ Len(entered) \in Nat
  BY <1>1
<1>3. \A k \in 1..Len(tested) : tested[k].pnl \in Int
  <2>1. \A k \in 1..Len(tested) : tested[k] \in TestRows
    BY <1>1
  <2> QED BY <2>1 DEF TestRows
<1>4. Test!MoneyAddsUp
  <2> DEFINE W == {k \in DOMAIN tested : tested[k].pnl > 0}
             L == {k \in DOMAIN tested : tested[k].pnl <= 0}
  <2>1. W \cup L = 1..Len(tested) /\ W \cap L = {}
    BY <1>2, <1>3
  <2>2. IsFiniteSet(W) /\ IsFiniteSet(L)
    <3>1. W \subseteq 1..Len(tested) /\ L \subseteq 1..Len(tested)
      BY <1>2
    <3>2. IsFiniteSet(1..Len(tested))
      BY <1>2, FS_Interval
    <3> HIDE DEF W, L
    <3> QED BY <3>1, <3>2, FS_Subset
  <2>3. /\ Test!Report.total = cash - Capital
        /\ Test!Report.won = Test!Cardinality(W) /\ Test!Report.lost = Test!Cardinality(L)
    BY DEF Test!Report
  <2> HIDE DEF W, L
  <2>4. Test!Report.won = Cardinality(W) /\ Test!Report.lost = Cardinality(L)
    BY <2>3, TestCounts
  <2>5. Cardinality(W) + Cardinality(L) = Len(tested)
    <3>1. Cardinality(W \cup L) = Cardinality(W) + Cardinality(L) - Cardinality(W \cap L)
      BY <2>2, FS_Union
    <3>2. Cardinality(W \cap L) = 0 /\ Cardinality(W) \in Nat /\ Cardinality(L) \in Nat
      BY <2>1, <2>2, FS_EmptySet, FS_CardinalityType
    <3>3. 1 \in Int /\ Len(tested) \in Int
      BY <1>2
    <3>4. Cardinality(1..Len(tested)) = IF 1 > Len(tested) THEN 0 ELSE Len(tested) - 1 + 1
      BY <3>3, FS_Interval
    <3>5. Cardinality(1..Len(tested)) = Len(tested)
      BY <3>4, <1>2
    <3>6. Cardinality(W \cup L) = Len(tested)
      BY <3>5, <2>1
    <3> QED BY <3>1, <3>2, <3>6
  <2>6. /\ Len(tested) + HeldNow = Len(entered)
        /\ cash = Capital + SumOf(tested) - Side * Len(entered)
    BY DEF BacktestFit, MoneyFit
  <2>7. SumOf(tested) \in Int
    <3>1. PICK h : SumOf(tested) = h[Len(tested)] /\ \A k \in 0..Len(tested) : h[k] \in Int
      BY <1>1, SumGoesUp
    <3>2. Len(tested) \in 0..Len(tested)
      BY <1>2
    <3> QED BY <3>1, <3>2
  <2>8. Test!Report.total = SumOf(tested) - Side * Len(entered)
    BY <2>3, <2>6, <2>7, <1>1, <1>2, LessCapital
  <2>9. current = Test!NoTrade => Test!Report.won + Test!Report.lost = Len(entered)
    BY <2>4, <2>5, <2>6, <1>2 DEF HeldNow
  <2> QED BY <2>8, <2>9, TestTotal DEF Test!MoneyAddsUp
<1>5. Test!WorstFall
  BY <1>1, WorstIsRight DEF BacktestFit
<1>6. Test!OneAtATime
  <2>1. OrderFit /\ DailyFit(i, entered, date, daily)
    BY DEF BacktestFit
  <2>2. ASSUME NEW d \in 0..Test!Day(Candles)
        PROVE  Test!Cardinality({n \in DOMAIN entered : Test!Day(entered[n]) = d}) <= MaxPerDay
    <3>1. d \in Int
      OBVIOUS
    <3>2. Cardinality(EnteredOn(entered, d)) <= MaxPerDay
      BY <2>1, <3>1 DEF DailyFit
    <3> QED BY <3>2, TestCounts DEF EnteredOn
  <2> QED BY <2>1, <2>2 DEF Test!OneAtATime, OrderFit
<1> QED BY <1>4, <1>5, <1>6 DEF Test!BacktestAddsUp

-----------------------------------------------------------------------------
\* Everything that is reckoned afterwards, while its part moves.
FiguresInv ==
  In("backtest", BacktestFit) /\ In("report", ReportFit) /\ In("journal", JournalFit)

LEMMA FiguresInvStep ==
  ASSUME FiguresInv, [RecNext]_recordVars PROVE FiguresInv'
<1>1. part' = part
  BY DEF RecNext, SessionMoves, ArchiveMoves, ImportMoves, ReplayMoves, RestMoves,
         ReportMoves, JournalMoves, CalendarMoves, BacktestMoves, VisualMoves, recordVars
<1>2. CASE part = "backtest"
  <2>1. Test!Next \/ UNCHANGED backtestVars
    BY <1>2 DEF RecNext, SessionMoves, ArchiveMoves, ImportMoves, ReplayMoves, RestMoves,
                ReportMoves, JournalMoves, CalendarMoves, BacktestMoves, VisualMoves, recordVars
  <2>2. BacktestFit'
    BY <1>2, <2>1, TestStep DEF FiguresInv, In
  <2> QED BY <1>1, <1>2, <2>2 DEF FiguresInv, In
<1>3. CASE part = "report"
  <2>1. Report!Next \/ UNCHANGED reportVars
    BY <1>3 DEF RecNext, SessionMoves, ArchiveMoves, ImportMoves, ReplayMoves, RestMoves,
                ReportMoves, JournalMoves, CalendarMoves, BacktestMoves, VisualMoves, recordVars
  <2>2. ReportFit'
    BY <1>3, <2>1, ReportStep DEF FiguresInv, In
  <2> QED BY <1>1, <1>3, <2>2 DEF FiguresInv, In
<1>4. CASE part = "journal"
  <2>1. Log!Next \/ UNCHANGED journal
    BY <1>4 DEF RecNext, SessionMoves, ArchiveMoves, ImportMoves, ReplayMoves, RestMoves,
                ReportMoves, JournalMoves, CalendarMoves, BacktestMoves, VisualMoves, recordVars, journalVars
  <2>2. JournalFit'
    BY <1>4, <2>1, JournalStep DEF FiguresInv, In
  <2> QED BY <1>1, <1>4, <2>2 DEF FiguresInv, In
<1>5. CASE part \notin {"backtest", "report", "journal"}
  BY <1>1, <1>5 DEF FiguresInv, In
<1> QED BY <1>2, <1>3, <1>4, <1>5

\* The figures made afterwards are those of the rows they were made of: the backtest's
\* result, drawdown and counts, the reports through pruning, the journal's pairs, drawdown
\* and streak (core/backtest.py _calculate_results, daily_report.py, trade_journal.py).
THEOREM FiguresStayHonest == RecSpec => []FiguresHonest
<1>1. RecInit => FiguresInv
  BY TestStart, ReportStart, JournalStart DEF RecInit, FiguresInv, In
<1>2. FiguresInv /\ [RecNext]_recordVars => FiguresInv'
  BY FiguresInvStep
<1>3. FiguresInv => FiguresHonest
  BY BacktestIsRight, ReportsAddUp, JournalIsRead DEF FiguresInv, FiguresHonest, In
<1> QED BY <1>1, <1>2, <1>3, PTL DEF RecSpec

-----------------------------------------------------------------------------
(* The visual record: the day as it was written down, and what was read of it. *)

DecisionRows == [at : Int, what : Visual!Whats, side : Sides]
LogRows == [from : Int, side : Sides, entry : Int, exit : Int, won : BOOLEAN]

\* The decisions are in the order of their seconds.
PastFit(past, s) ==
  \A a \in 1..Len(past) : past[a].at \in 1..s /\ \A b \in a..Len(past) : past[a].at <= past[b].at

\* A trade came of an accepted decision, and no decision was made until it was over.
TradeFit(t, past, s) ==
  /\ t.from \in 1..Len(past) /\ past[t.from].what = "accepted" /\ past[t.from].side = t.side
  /\ past[t.from].at <= t.entry /\ t.entry <= s /\ t.exit <= s
  /\ t.exit # 0 => t.entry <= t.exit
  /\ \A j \in t.from + 1..Len(past) : t.entry < past[j].at

\* One trade after the other, each of a decision of its own.
TradesFit(log, past, s) ==
  /\ \A k \in 1..Len(log) : TradeFit(log[k], past, s)
  /\ \A k \in 1..Len(log) - 1 : log[k].exit # 0
  /\ \A k \in 1..Len(log) : \A j \in 1..k - 1 : log[j].from < log[k].from

\* Decisions the source had when it was read, from some row on, and only later ones after them.
ReadOf(first, last, at, past, s) ==
  /\ first \in Nat \ {0} /\ last \in 0..Len(past) /\ at \in Int /\ at <= s
  /\ \A j \in last + 1..Len(past) : at <= past[j].at
ReadFit(r, past, s) == r # <<>> => ReadOf(r[1], r[2], r[3], past, s)
RecordFit(r, past, log, s) ==
  r # <<>> => ReadOf(r.first, r.last, r.at, past, s) /\ r.trades = log

VisualTypes ==
  second \in Nat /\ pruned \in Nat /\ decisions \in Seq(DecisionRows) /\ tradeLog \in Seq(LogRows)
SecondsFit == second >= 1
VisualFit ==
  /\ VisualTypes /\ SecondsFit /\ PastFit(decisions, second) /\ TradesFit(tradeLog, decisions, second)
  /\ ReadFit(read, decisions, second) /\ RecordFit(record, decisions, tradeLog, second)

LEMMA VisualStart == Visual!Init => VisualFit
<1> SUFFICES ASSUME Visual!Init PROVE VisualFit
  OBVIOUS
<1>1. /\ second = 1 /\ decisions = <<>> /\ tradeLog = <<>> /\ pruned = 0 /\ read = <<>> /\ record = <<>>
  BY DEF Visual!Init
<1>2. VisualTypes
  BY <1>1 DEF VisualTypes
<1>3. Len(<<>>) = 0 /\ 1..0 = {} /\ 1..0 - 1 = {}
  OBVIOUS
<1>4. PastFit(decisions, second) /\ TradesFit(tradeLog, decisions, second)
  BY <1>1, <1>3 DEF PastFit, TradesFit
<1>5. ReadFit(read, decisions, second) /\ RecordFit(record, decisions, tradeLog, second)
  BY <1>1 DEF ReadFit, RecordFit
<1>6. SecondsFit
  BY <1>1 DEF SecondsFit
<1> QED BY <1>2, <1>4, <1>5, <1>6 DEF VisualFit

\* Time passing changes nothing that was so.
LEMMA LaterStill ==
  ASSUME NEW past, NEW s \in Nat, NEW log \in Seq(LogRows), PastFit(past, s), TradesFit(log, past, s)
  PROVE  PastFit(past, s + 1) /\ TradesFit(log, past, s + 1)
<1>1. PastFit(past, s + 1)
  BY DEF PastFit
<1>2. ASSUME NEW k \in 1..Len(log) PROVE TradeFit(log[k], past, s + 1)
  <2>1. log[k] \in LogRows
    OBVIOUS
  <2>2. log[k].entry \in Int /\ log[k].exit \in Int
    BY <2>1 DEF LogRows
  <2>3. TradeFit(log[k], past, s)
    BY DEF TradesFit
  <2> QED BY <2>2, <2>3 DEF TradeFit
<1> QED BY <1>1, <1>2 DEF TradesFit

LEMMA ReadStill ==
  ASSUME NEW past, NEW s \in Nat, NEW first, NEW last, NEW at, ReadOf(first, last, at, past, s)
  PROVE  ReadOf(first, last, at, past, s + 1)
  BY DEF ReadOf

LEMMA SecondKeeps == ASSUME VisualFit, Visual!SecondPasses PROVE VisualFit'
<1>1. second' = second + 1 /\ UNCHANGED <<decisions, tradeLog, pruned, read, record>>
  BY DEF Visual!SecondPasses
<1>2. VisualTypes /\ VisualTypes'
  BY <1>1 DEF VisualFit, VisualTypes
<1>3. second \in Nat /\ tradeLog \in Seq(LogRows)
  BY <1>2 DEF VisualTypes
<1>4. PastFit(decisions, second + 1) /\ TradesFit(tradeLog, decisions, second + 1)
  BY <1>3, LaterStill DEF VisualFit
<1>5. ReadFit(read, decisions, second + 1)
  BY <1>3, ReadStill DEF VisualFit, ReadFit
<1>6. RecordFit(record, decisions, tradeLog, second + 1)
  BY <1>3, ReadStill DEF VisualFit, RecordFit
<1>7. SecondsFit'
  BY <1>1, <1>3 DEF VisualFit, SecondsFit
<1> QED BY <1>1, <1>2, <1>4, <1>5, <1>6, <1>7 DEF VisualFit

\* One more decision, later than every trade that was closed.
LEMMA DecideFits ==
  ASSUME NEW past \in Seq(DecisionRows), NEW s \in Nat, NEW log \in Seq(LogRows), NEW d \in DecisionRows,
         PastFit(past, s), TradesFit(log, past, s), d.at = s, s >= 1,
         \A k \in 1..Len(log) : log[k].exit # 0 /\ log[k].exit < s
  PROVE  PastFit(Append(past, d), s) /\ TradesFit(log, Append(past, d), s)
<1> DEFINE n == Len(past)
           new == Append(past, d)
<1>1. n \in Nat /\ Len(new) = n + 1 /\ new[n + 1] = d /\ \A a \in 1..n : new[a] = past[a]
  OBVIOUS
<1> HIDE DEF new, n
<1>2. \A a \in 1..n : past[a].at \in 1..s /\ \A b \in a..n : past[a].at <= past[b].at
  BY DEF PastFit, n
<1>3. PastFit(new, s)
  <2> SUFFICES ASSUME NEW a \in 1..n + 1
               PROVE  new[a].at \in 1..s /\ \A b \in a..n + 1 : new[a].at <= new[b].at
    BY <1>1 DEF PastFit
  <2>1. new[a].at \in 1..s
    <3>1. a \in 1..n \/ a = n + 1
      BY <1>1
    <3> QED BY <3>1, <1>1, <1>2
  <2>2. ASSUME NEW b \in a..n + 1 PROVE new[a].at <= new[b].at
    <3>1. CASE b = n + 1
      BY <3>1, <2>1, <1>1
    <3>2. CASE b # n + 1
      <4>1. a \in 1..n /\ b \in a..n /\ b \in 1..n
        BY <3>2, <1>1
      <4> QED BY <4>1, <1>1, <1>2
    <3> QED BY <3>1, <3>2
  <2> QED BY <2>1, <2>2
<1>4. ASSUME NEW k \in 1..Len(log) PROVE TradeFit(log[k], new, s)
  <2> DEFINE t == log[k]
  <2>1. t \in LogRows
    OBVIOUS
  <2>2. t.from \in Int /\ t.entry \in Int /\ t.exit \in Int
    BY <2>1 DEF LogRows
  <2>3. TradeFit(t, past, s) /\ t.exit # 0 /\ t.exit < s
    BY DEF TradesFit
  <2> HIDE DEF t
  <2>4. t.from \in 1..n /\ t.from \in 1..n + 1
    BY <1>1, <2>3 DEF TradeFit, n
  <2>5. ASSUME NEW j \in t.from + 1..n + 1 PROVE t.entry < new[j].at
    <3>1. CASE j = n + 1
      BY <3>1, <2>2, <2>3, <1>1 DEF TradeFit
    <3>2. CASE j # n + 1
      <4>1. j \in t.from + 1..n /\ j \in 1..n
        BY <3>2, <2>4, <1>1
      <4> QED BY <4>1, <2>3, <1>1 DEF TradeFit, n
    <3> QED BY <3>1, <3>2
  <2>6. new[t.from] = past[t.from]
    BY <2>4, <1>1
  <2> QED BY <2>3, <2>4, <2>5, <2>6, <1>1 DEF TradeFit, t
<1>5. TradesFit(log, new, s)
  BY <1>4 DEF TradesFit
<1> QED BY <1>3, <1>5 DEF new

\* What was read stays what was read.
LEMMA ReadMore ==
  ASSUME NEW past \in Seq(DecisionRows), NEW d \in DecisionRows, NEW s \in Nat, d.at = s,
         NEW first, NEW last, NEW at, ReadOf(first, last, at, past, s)
  PROVE  ReadOf(first, last, at, Append(past, d), s)
<1> DEFINE n == Len(past)
           new == Append(past, d)
<1>1. n \in Nat /\ Len(new) = n + 1 /\ new[n + 1] = d /\ \A a \in 1..n : new[a] = past[a]
  OBVIOUS
<1> HIDE DEF new, n
<1>2. last \in 0..n /\ at \in Int /\ at <= s /\ first \in Nat \ {0}
      /\ \A j \in last + 1..n : at <= past[j].at
  BY DEF ReadOf, n
<1>3. ASSUME NEW j \in last + 1..n + 1 PROVE at <= new[j].at
  <2>1. CASE j = n + 1
    BY <2>1, <1>1, <1>2
  <2>2. CASE j # n + 1
    <3>1. j \in last + 1..n /\ j \in 1..n
      BY <2>2, <1>1, <1>2
    <3> QED BY <3>1, <1>1, <1>2
  <2> QED BY <2>1, <2>2
<1>4. last \in 0..n + 1
  BY <1>1, <1>2
<1> QED BY <1>1, <1>2, <1>3, <1>4 DEF ReadOf, new

LEMMA VisualDecideKeeps == ASSUME VisualFit, Visual!Decide PROVE VisualFit'
<1>1. PICK what \in Visual!Whats, side \in Sides :
        decisions' = Append(decisions, [at |-> second, what |-> what, side |-> side])
  BY DEF Visual!Decide
<1>2. /\ record = <<>> /\ UNCHANGED <<second, tradeLog, pruned, read, record>>
      /\ ~Visual!Open /\ Visual!Cooled
  BY DEF Visual!Decide, Visual!Unbuilt
<1>3. /\ second \in Nat /\ pruned \in Nat /\ decisions \in Seq(DecisionRows) /\ tradeLog \in Seq(LogRows)
      /\ PastFit(decisions, second) /\ TradesFit(tradeLog, decisions, second)
      /\ ReadFit(read, decisions, second)
  BY DEF VisualFit, VisualTypes
<1> DEFINE d == [at |-> second, what |-> what, side |-> side]
<1>4. d \in DecisionRows /\ d.at = second
  <2>1. second \in Int
    BY <1>3
  <2> QED BY <2>1 DEF DecisionRows
<1> HIDE DEF d
<1>5. second >= 1
  BY DEF VisualFit, SecondsFit
<1>6. \A k \in 1..Len(tradeLog) : tradeLog[k].exit # 0 /\ tradeLog[k].exit < second
  <2>1. Len(tradeLog) \in Nat /\ DOMAIN tradeLog = 1..Len(tradeLog)
    BY <1>3
  <2>2. ASSUME NEW k \in 1..Len(tradeLog) PROVE tradeLog[k].exit # 0
    <3>1. CASE k = Len(tradeLog)
      <4>1. tradeLog # <<>>
        BY <3>1, <2>1
      <4>2. ~(tradeLog # <<>> /\ tradeLog[Len(tradeLog)].exit = 0)
        BY <1>2, Zenon DEF Visual!Open
      <4> QED BY <4>1, <4>2, <3>1, Zenon
    <3>2. CASE k # Len(tradeLog)
      <4>1. k \in 1..Len(tradeLog) - 1
        <5> DEFINE n == Len(tradeLog)
        <5>1. n \in Nat /\ k \in 1..n /\ k # n
          BY <3>2, <2>1
        <5> HIDE DEF n
        <5>2. k \in 1..n - 1
          BY <5>1
        <5> QED BY <5>2 DEF n
      <4> QED BY <4>1, <1>3 DEF TradesFit
    <3> QED BY <3>1, <3>2
  <2> QED BY <2>1, <2>2, <1>2 DEF Visual!Cooled
<1>7. decisions' = Append(decisions, d) /\ decisions' \in Seq(DecisionRows)
  <2>1. decisions' = Append(decisions, d)
    BY <1>1 DEF d
  <2> QED BY <2>1, <1>3, <1>4
<1>8. PastFit(decisions', second) /\ TradesFit(tradeLog, decisions', second)
  BY <1>3, <1>4, <1>5, <1>6, <1>7, DecideFits
<1>9. ReadFit(read, decisions', second)
  BY <1>3, <1>4, <1>7, ReadMore DEF ReadFit
<1>10. RecordFit(record', decisions', tradeLog', second')
  BY <1>2 DEF RecordFit
<1>11. VisualTypes' /\ SecondsFit'
  BY <1>2, <1>3, <1>5, <1>7 DEF VisualTypes, SecondsFit
<1> QED BY <1>2, <1>8, <1>9, <1>10, <1>11 DEF VisualFit

LEMMA VisualEnterKeeps == ASSUME VisualFit, Visual!Enter PROVE VisualFit'
<1> DEFINE m == Len(decisions)
           n == Len(tradeLog)
           t == [from |-> m, side |-> decisions[m].side, entry |-> second, exit |-> 0, won |-> FALSE]
<1>1. /\ tradeLog' = Append(tradeLog, t)
      /\ decisions[m].what = "accepted" /\ decisions # <<>> /\ ~Visual!Open
      /\ \A k \in DOMAIN tradeLog : tradeLog[k].from # m
      /\ record = <<>> /\ UNCHANGED <<second, decisions, pruned, read, record>>
  BY DEF Visual!Enter, Visual!Unbuilt
<1>2. /\ second \in Nat /\ pruned \in Nat /\ decisions \in Seq(DecisionRows) /\ tradeLog \in Seq(LogRows)
      /\ PastFit(decisions, second) /\ TradesFit(tradeLog, decisions, second)
      /\ ReadFit(read, decisions, second) /\ SecondsFit
  BY DEF VisualFit, VisualTypes
<1>3. m \in Nat \ {0} /\ m \in 1..m /\ n \in Nat /\ DOMAIN tradeLog = 1..n
  BY <1>1, <1>2
<1>4. decisions[m].side \in Sides /\ decisions[m].at \in 1..second
  <2>1. decisions[m] \in DecisionRows
    BY <1>2, <1>3
  <2>2. decisions[m].side \in Sides
    BY <2>1 DEF DecisionRows
  <2> QED BY <2>2, <1>2, <1>3 DEF PastFit
<1>5. /\ t \in LogRows /\ t.from = m /\ t.side = decisions[m].side /\ t.entry = second /\ t.exit = 0
  <2> DEFINE sd == decisions[m].side
  <2>1. m \in Int /\ second \in Int /\ sd \in Sides
    BY <1>2, <1>3, <1>4
  <2> HIDE DEF m, sd
  <2> QED BY <2>1 DEF LogRows, sd
<1> HIDE DEF t
<1>6. TradeFit(t, decisions, second)
  BY <1>1, <1>2, <1>3, <1>4, <1>5 DEF TradeFit
<1>7. tradeLog' \in Seq(LogRows)
  BY <1>1, <1>2, <1>5
<1> DEFINE log == tradeLog'
<1>8. Len(log) = n + 1 /\ log[n + 1] = t /\ \A k \in 1..n : log[k] = tradeLog[k]
  BY <1>1, <1>2
<1> HIDE DEF log
<1>9. TradesFit(log, decisions, second)
  <2>1. /\ \A k \in 1..n : TradeFit(tradeLog[k], decisions, second)
        /\ \A k \in 1..n - 1 : tradeLog[k].exit # 0
        /\ \A k \in 1..n : \A j \in 1..k - 1 : tradeLog[j].from < tradeLog[k].from
    BY <1>2 DEF TradesFit
  <2>2. n # 0 => tradeLog[n].exit # 0
    BY <1>1, <1>2 DEF Visual!Open
  <2>3. \A k \in 1..n : tradeLog[k].from < m
    <3> SUFFICES ASSUME NEW k \in 1..n PROVE tradeLog[k].from < m
      OBVIOUS
    <3>1. tradeLog[k].from \in 1..m /\ tradeLog[k].from # m
      BY <2>1, <1>1, <1>3 DEF TradeFit
    <3> QED BY <3>1, <1>3
  <2> HIDE DEF n, m
  <2>4. \A k \in 1..n + 1 : TradeFit(log[k], decisions, second)
    <3>1. \A k \in 1..n + 1 : k \in 1..n \/ k = n + 1
      BY <1>3
    <3> QED BY <3>1, <2>1, <1>6, <1>8
  <2>5. \A k \in 1..n : log[k].exit # 0
    <3>1. \A k \in 1..n : k \in 1..n - 1 \/ (k = n /\ n # 0)
      BY <1>3
    <3> QED BY <3>1, <2>1, <2>2, <1>8
  <2>6. \A k \in 1..n + 1 : \A j \in 1..k - 1 : log[j].from < log[k].from
    <3> SUFFICES ASSUME NEW k \in 1..n + 1, NEW j \in 1..k - 1 PROVE log[j].from < log[k].from
      OBVIOUS
    <3>1. j \in 1..n
      BY <1>3
    <3>2. CASE k = n + 1
      BY <3>1, <3>2, <2>3, <1>5, <1>8
    <3>3. CASE k # n + 1
      <4>1. k \in 1..n
        BY <3>3, <1>3
      <4> QED BY <3>1, <4>1, <2>1, <1>8
    <3> QED BY <3>2, <3>3
  <2>7. Len(log) - 1 = n
    BY <1>3, <1>8
  <2> QED BY <2>4, <2>5, <2>6, <2>7, <1>8 DEF TradesFit
<1>10. RecordFit(record', decisions', tradeLog', second')
  BY <1>1 DEF RecordFit
<1>11. VisualTypes' /\ SecondsFit'
  BY <1>1, <1>2, <1>7 DEF VisualTypes, SecondsFit
<1> QED BY <1>1, <1>2, <1>9, <1>10, <1>11 DEF VisualFit, log

ShutAt(r, s, w) == [r EXCEPT !.exit = s, !.won = w]

LEMMA ClosedRow ==
  ASSUME NEW r \in LogRows, NEW s \in Int, NEW w \in BOOLEAN
  PROVE  /\ ShutAt(r, s, w) \in LogRows
         /\ ShutAt(r, s, w).from = r.from /\ ShutAt(r, s, w).side = r.side
         /\ ShutAt(r, s, w).entry = r.entry /\ ShutAt(r, s, w).exit = s
<1> DEFINE a == r.from
           b == r.side
           c == r.entry
           e == r.exit
           v == r.won
           y == [r EXCEPT !.exit = s]
           x == [y EXCEPT !.won = w]
<1>1. r = [from |-> a, side |-> b, entry |-> c, exit |-> e, won |-> v]
  BY DEF LogRows
<1>2. a \in Int /\ b \in Sides /\ c \in Int
  BY DEF LogRows
<1>3. y = [from |-> a, side |-> b, entry |-> c, exit |-> s, won |-> v]
  <2> HIDE DEF a, b, c, e, v
  <2> QED BY <1>1
<1>4. x = [from |-> a, side |-> b, entry |-> c, exit |-> s, won |-> w]
  <2> HIDE DEF a, b, c, e, v, y
  <2> QED BY <1>3
<1>5. ShutAt(r, s, w) = x
  BY DEF ShutAt
<1> HIDE DEF a, b, c, e, v, x, y
<1>6. x \in LogRows
  BY <1>2, <1>4 DEF LogRows
<1>7. x.from = a /\ x.side = b /\ x.entry = c /\ x.exit = s
  BY <1>4
<1> QED BY <1>5, <1>6, <1>7 DEF a, b, c

LEMMA VisualExitKeeps == ASSUME VisualFit, Visual!Exit PROVE VisualFit'
<1> DEFINE n == Len(tradeLog)
<1>1. PICK w \in BOOLEAN :
        tradeLog' = [tradeLog EXCEPT ![n] = ShutAt(tradeLog[n], second, w)]
  BY DEF Visual!Exit, ShutAt
<1>2. /\ record = <<>> /\ UNCHANGED <<second, decisions, pruned, read, record>>
      /\ tradeLog # <<>> /\ tradeLog[n].exit = 0
  BY DEF Visual!Exit, Visual!Unbuilt, Visual!Open
<1>3. /\ second \in Nat /\ pruned \in Nat /\ decisions \in Seq(DecisionRows) /\ tradeLog \in Seq(LogRows)
      /\ PastFit(decisions, second) /\ TradesFit(tradeLog, decisions, second)
      /\ ReadFit(read, decisions, second) /\ SecondsFit
  BY DEF VisualFit, VisualTypes
<1> DEFINE t == ShutAt(tradeLog[n], second, w)
           log == tradeLog'
<1>4. n \in Nat \ {0} /\ n \in 1..n /\ tradeLog[n] \in LogRows
  <2>1. tradeLog # <<>> /\ tradeLog \in Seq(LogRows)
    BY <1>2, <1>3
  <2> QED BY <2>1
<1>5. /\ t \in LogRows /\ t.from = tradeLog[n].from /\ t.side = tradeLog[n].side
      /\ t.entry = tradeLog[n].entry /\ t.exit = second
  <2>1. second \in Int
    BY <1>3
  <2> QED BY <2>1, <1>4, ClosedRow
<1>6. log = [tradeLog EXCEPT ![n] = t]
  BY <1>1
<1> HIDE DEF t, log
<1>7. log \in Seq(LogRows) /\ Len(log) = n /\ log[n] = t /\ \A k \in 1..n : k # n => log[k] = tradeLog[k]
  BY <1>3, <1>4, <1>5, <1>6
<1>8. TradeFit(t, decisions, second)
  <2>1. TradeFit(tradeLog[n], decisions, second)
    BY <1>3, <1>4 DEF TradesFit
  <2> QED BY <2>1, <1>3, <1>5 DEF TradeFit
<1>9. TradesFit(log, decisions, second)
  <2>1. /\ \A k \in 1..n : TradeFit(tradeLog[k], decisions, second)
        /\ \A k \in 1..n - 1 : tradeLog[k].exit # 0
        /\ \A k \in 1..n : \A j \in 1..k - 1 : tradeLog[j].from < tradeLog[k].from
    BY <1>3 DEF TradesFit
  <2>2. \A k \in 1..n : log[k].from = tradeLog[k].from
    BY <1>5, <1>7
  <2> HIDE DEF n
  <2>3. \A k \in 1..n : TradeFit(log[k], decisions, second)
    BY <2>1, <1>7, <1>8
  <2>4. \A k \in 1..n - 1 : log[k].exit # 0
    <3>1. \A k \in 1..n - 1 : k \in 1..n /\ k # n
      BY <1>4
    <3> QED BY <3>1, <2>1, <1>7
  <2>5. \A k \in 1..n : \A j \in 1..k - 1 : log[j].from < log[k].from
    <3>1. \A k \in 1..n : \A j \in 1..k - 1 : j \in 1..n
      BY <1>4
    <3> QED BY <3>1, <2>1, <2>2
  <2> QED BY <2>3, <2>4, <2>5, <1>7 DEF TradesFit
<1>10. RecordFit(record', decisions', tradeLog', second')
  BY <1>2 DEF RecordFit
<1>11. VisualTypes' /\ SecondsFit'
  BY <1>2, <1>3, <1>7 DEF VisualTypes, SecondsFit, log
<1> QED BY <1>2, <1>3, <1>9, <1>10, <1>11 DEF VisualFit, log

LEMMA VisualPruneKeeps == ASSUME VisualFit, Visual!Prune PROVE VisualFit'
<1>1. pruned' \in 1..Len(decisions) /\ UNCHANGED <<second, decisions, tradeLog, read, record>>
  BY DEF Visual!Prune
<1>2. VisualTypes' /\ SecondsFit'
  BY <1>1 DEF VisualFit, VisualTypes, SecondsFit
<1> QED BY <1>1, <1>2 DEF VisualFit

LEMMA AuditKeeps == ASSUME VisualFit, Visual!Audit PROVE VisualFit'
<1>1. read' = <<pruned + 1, Len(decisions), second>>
      /\ UNCHANGED <<second, decisions, tradeLog, pruned, record>>
  BY DEF Visual!Audit
<1>2. VisualTypes' /\ SecondsFit' /\ second \in Int /\ pruned \in Nat /\ Len(decisions) \in Nat
  BY <1>1 DEF VisualFit, VisualTypes, SecondsFit
<1> DEFINE p == pruned + 1
           n == Len(decisions)
<1>3. p \in Nat \ {0} /\ n \in 0..n /\ n + 1..n = {}
  BY <1>2
<1>4. ReadOf(p, n, second, decisions, second)
  BY <1>2, <1>3 DEF ReadOf
<1> HIDE DEF p, n
<1>5. read'[1] = p /\ read'[2] = n /\ read'[3] = second
  BY <1>1 DEF p, n
<1>6. ReadFit(read', decisions, second)
  BY <1>4, <1>5 DEF ReadFit
<1> QED BY <1>1, <1>2, <1>6 DEF VisualFit

LEMMA BuildKeeps == ASSUME VisualFit, Visual!BuildSession PROVE VisualFit'
<1> DEFINE a == read[1]
           b == read[2]
           c == read[3]
<1>1. /\ read # <<>> /\ record' = [first |-> a, last |-> b, at |-> c, trades |-> tradeLog]
      /\ read' = <<>> /\ UNCHANGED <<second, decisions, tradeLog, pruned>>
  BY DEF Visual!BuildSession, Visual!Replaced
<1>2. ReadOf(a, b, c, decisions, second)
  BY <1>1 DEF VisualFit, ReadFit
<1> HIDE DEF a, b, c
<1>3. record'.first = a /\ record'.last = b /\ record'.at = c /\ record'.trades = tradeLog
  BY <1>1
<1>4. RecordFit(record', decisions, tradeLog, second)
  BY <1>2, <1>3 DEF RecordFit
<1>5. ReadFit(read', decisions, second)
  BY <1>1 DEF ReadFit
<1>6. VisualTypes' /\ SecondsFit'
  BY <1>1 DEF VisualFit, VisualTypes, SecondsFit
<1> QED BY <1>1, <1>4, <1>5, <1>6 DEF VisualFit

LEMMA VisualStep == ASSUME VisualFit, Visual!Next \/ UNCHANGED visualVars PROVE VisualFit'
<1>1. CASE UNCHANGED visualVars
  BY <1>1 DEF visualVars, VisualFit, VisualTypes, SecondsFit
<1> QED BY <1>1, SecondKeeps, VisualDecideKeeps, VisualEnterKeeps, VisualExitKeeps, VisualPruneKeeps,
           AuditKeeps, BuildKeeps DEF Visual!Next

\* The rows of a record that is there.
RecordKnown ==
  /\ record.first \in Nat \ {0} /\ record.last \in 0..Len(decisions) /\ record.at \in Int
  /\ record.trades = tradeLog /\ Visual!Rows = record.first..record.last
  /\ \A j \in record.last + 1..Len(decisions) : record.at <= decisions[j].at

LEMMA RecordIsKnown == ASSUME VisualFit, record # <<>> PROVE RecordKnown
<1>1. ReadOf(record.first, record.last, record.at, decisions, second) /\ record.trades = tradeLog
  BY DEF VisualFit, RecordFit
<1>2. Visual!Rows = record.first..record.last
  BY Zenon DEF Visual!Rows
<1> QED BY <1>1, <1>2 DEF RecordKnown, ReadOf

\* The fields of a decision, and of a row of the record.
LEMMA DecisionIs ==
  ASSUME VisualFit
  PROVE  /\ Len(decisions) \in Nat /\ DOMAIN decisions = 1..Len(decisions)
         /\ \A k \in 1..Len(decisions) : decisions[k].at \in Int /\ decisions[k].at >= 1 /\ decisions[k].side \in Sides
<1>1. decisions \in Seq(DecisionRows)
  BY DEF VisualFit, VisualTypes
<1>2. Len(decisions) \in Nat /\ DOMAIN decisions = 1..Len(decisions)
      /\ \A k \in 1..Len(decisions) : decisions[k] \in DecisionRows
  BY <1>1
<1>3. \A k \in 1..Len(decisions) : decisions[k].at \in Int /\ decisions[k].side \in Sides
  BY <1>2 DEF DecisionRows
<1>4. \A k \in 1..Len(decisions) : decisions[k].at >= 1
  BY DEF VisualFit, PastFit
<1> QED BY <1>2, <1>3, <1>4

LEMMA RowIs ==
  ASSUME VisualFit, RecordKnown
  PROVE  \A k \in Visual!Rows : k \in 1..Len(decisions)
  BY DecisionIs DEF RecordKnown

LEMMA TradeIs ==
  ASSUME VisualFit
  PROVE  /\ Len(tradeLog) \in Nat /\ DOMAIN tradeLog = 1..Len(tradeLog)
         /\ \A k \in 1..Len(tradeLog) :
              /\ tradeLog[k].from \in 1..Len(decisions) /\ tradeLog[k].entry \in Int
              /\ tradeLog[k].exit \in Int /\ tradeLog[k].side \in Sides
              /\ tradeLog[k].exit # 0 => tradeLog[k].exit >= 1
              /\ decisions[tradeLog[k].from].what = "accepted"
              /\ decisions[tradeLog[k].from].side = tradeLog[k].side
              /\ decisions[tradeLog[k].from].at <= tradeLog[k].entry
<1>1. tradeLog \in Seq(LogRows)
  BY DEF VisualFit, VisualTypes
<1>2. Len(tradeLog) \in Nat /\ DOMAIN tradeLog = 1..Len(tradeLog)
      /\ \A k \in 1..Len(tradeLog) : tradeLog[k] \in LogRows
  BY <1>1
<1>3. ASSUME NEW k \in 1..Len(tradeLog)
      PROVE  /\ tradeLog[k].from \in 1..Len(decisions) /\ tradeLog[k].entry \in Int
             /\ tradeLog[k].exit \in Int /\ tradeLog[k].side \in Sides
             /\ tradeLog[k].exit # 0 => tradeLog[k].exit >= 1
             /\ decisions[tradeLog[k].from].what = "accepted"
             /\ decisions[tradeLog[k].from].side = tradeLog[k].side
             /\ decisions[tradeLog[k].from].at <= tradeLog[k].entry
  <2> DEFINE t == tradeLog[k]
  <2>1. t.entry \in Int /\ t.exit \in Int /\ t.side \in Sides
    BY <1>2 DEF LogRows
  <2>2. TradeFit(t, decisions, second)
    BY DEF VisualFit, TradesFit
  <2> HIDE DEF t
  <2>3. t.from \in 1..Len(decisions) /\ decisions[t.from].at <= t.entry
        /\ decisions[t.from].what = "accepted" /\ decisions[t.from].side = t.side
        /\ (t.exit # 0 => t.entry <= t.exit)
    BY <2>2 DEF TradeFit
  <2>4. decisions[t.from].at \in Int /\ decisions[t.from].at >= 1
    BY <2>3, DecisionIs
  <2>5. t.exit # 0 => t.exit >= 1
    BY <2>1, <2>3, <2>4
  <2> QED BY <2>1, <2>3, <2>5 DEF t
<1> QED BY <1>2, <1>3

\* The losses in a row, from the record and as they were.
LEMMA StreakIs ==
  ASSUME VisualFit, RecordKnown, NEW sec \in Int
  PROVE  Visual!StreakAt(sec) = Visual!LossesBy(sec)
<1>1. record.trades = tradeLog
  BY DEF RecordKnown
<1>2. {k \in Visual!Closed : record.trades[k].exit <= sec} = {k \in DOMAIN tradeLog : tradeLog[k].exit \in 1..sec}
  <2>1. \A k \in DOMAIN tradeLog : tradeLog[k].exit \in Int /\ (tradeLog[k].exit # 0 => tradeLog[k].exit >= 1)
    BY TradeIs
  <2>2. Visual!Closed = {k \in DOMAIN tradeLog : tradeLog[k].exit # 0}
    BY <1>1 DEF Visual!Closed
  <2> QED BY <1>1, <2>1, <2>2
<1> QED BY <1>1, <1>2 DEF Visual!StreakAt, Visual!LossesBy

\* A second inside a window is not far after a sighting.
LEMMA WindowIsNear ==
  ASSUME NEW O \in SUBSET Int, NEW sec \in Int, NEW w \in Visual!WindowsOf(O), w[1] <= sec, sec <= w[2]
  PROVE  \E o \in O : sec - o \in 0..StreamSec
<1>1. /\ w[1] \in O /\ w[2] \in O
      /\ \A o \in O : w[1] < o /\ o <= w[2] =>
           \E p \in O : w[1] <= p /\ p < o /\ o - p <= StreamSec
  BY DEF Visual!WindowsOf
<1> DEFINE a == w[1]
           b == w[2]
<1>2. StreamSec \in Int /\ a \in Int /\ b \in Int
  <2>1. a \in O /\ b \in O
    BY <1>1
  <2> HIDE DEF a, b
  <2> QED BY <2>1, VisualAssumption
<1> HIDE DEF a, b
<1>3. /\ a \in O /\ b \in O /\ a \in Int /\ b \in Int /\ a <= sec /\ sec <= b
      /\ \A o \in O : a < o /\ o <= b => \E p \in O : a <= p /\ p < o /\ o - p <= StreamSec
  BY <1>1, <1>2 DEF a, b
<1>4. CASE sec = b /\ StreamSec >= 0
  <2>1. sec - b \in 0..StreamSec
    BY <1>2, <1>3, <1>4
  <2> QED BY <2>1, <1>3
<1>5. CASE sec = a /\ StreamSec >= 0
  <2>1. sec - a \in 0..StreamSec
    BY <1>2, <1>3, <1>5
  <2> QED BY <2>1, <1>3
<1>6. CASE a < sec
  <2>1. PICK o \in O : sec <= o /\ \A y \in O : sec <= y => o <= y
    BY <1>3, Smallest
  <2>2. o \in Int /\ o <= b /\ a < o
    BY <1>3, <1>6, <2>1
  <2>3. PICK p \in O : a <= p /\ p < o /\ o - p <= StreamSec
    BY <1>3, <2>2
  <2>4. p \in Int /\ p < sec
    BY <2>1, <2>2, <2>3
  <2>5. sec - p \in 0..StreamSec
    BY <1>2, <2>1, <2>2, <2>3, <2>4
  <2> QED BY <2>5
<1> QED BY <1>2, <1>3, <1>4, <1>5, <1>6, VisualAssumption

\* A state is in force near a sighting of it.
LEMMA StatesAreTrue ==
  ASSUME VisualFit, RecordKnown, NEW sec \in Int
  PROVE  Visual!StateTrue(sec)
<1>1. DOMAIN decisions = 1..Len(decisions) /\ \A k \in Visual!Rows : k \in 1..Len(decisions)
  BY DecisionIs, RowIs
<1>2. \A k \in 1..Len(decisions) : decisions[k].at \in Int /\ decisions[k].side \in Sides
  BY DecisionIs
<1>3. ASSUME NEW s \in Visual!StateAt(sec).cooldown
      PROVE  \E k \in DOMAIN decisions : decisions[k].what = "cooldown" /\ decisions[k].side \in {s}
                                         /\ sec - decisions[k].at \in 0..StreamSec
  <2> DEFINE K == {k \in Visual!Rows : decisions[k].what = "cooldown" /\ decisions[k].side = s}
             O == {decisions[k].at : k \in K}
  <2>1. PICK w \in Visual!WindowsOf(O) : w[1] <= sec /\ sec <= w[2]
    BY DEF Visual!StateAt, Visual!CooldownWindows
  <2>2. O \in SUBSET Int
    BY <1>1, <1>2
  <2> HIDE DEF O
  <2>3. PICK o \in O : sec - o \in 0..StreamSec
    BY <2>1, <2>2, WindowIsNear
  <2>4. PICK k \in K : o = decisions[k].at
    BY DEF O
  <2> QED BY <1>1, <2>3, <2>4
<1>4. ASSUME Visual!StateAt(sec).floor
      PROVE  \E k \in DOMAIN decisions : decisions[k].what = "floor" /\ decisions[k].side \in Sides
                                         /\ sec - decisions[k].at \in 0..StreamSec
  <2> DEFINE K == {k \in Visual!Rows : decisions[k].what = "floor"}
             O == {decisions[k].at : k \in K}
  <2>1. PICK w \in Visual!WindowsOf(O) : w[1] <= sec /\ sec <= w[2]
    <3>1. Visual!StateAt(sec).floor = \E w \in Visual!FloorWindows : w[1] <= sec /\ sec <= w[2]
      BY DEF Visual!StateAt
    <3>2. \E w \in Visual!FloorWindows : w[1] <= sec /\ sec <= w[2]
      BY <3>1, <1>4
    <3> QED BY <3>2 DEF Visual!FloorWindows
  <2>2. O \in SUBSET Int
    BY <1>1, <1>2
  <2> HIDE DEF O
  <2>3. PICK o \in O : sec - o \in 0..StreamSec
    BY <2>1, <2>2, WindowIsNear
  <2>4. PICK k \in K : o = decisions[k].at
    BY DEF O
  <2> QED BY <1>1, <1>2, <2>3, <2>4
<1>5. Visual!StateAt(sec).streak = Visual!LossesBy(sec)
  BY StreakIs DEF Visual!StateAt
<1> QED BY <1>3, <1>4, <1>5 DEF Visual!StateTrue

LEMMA LatestIs ==
  ASSUME NEW n \in Nat, NEW S \in SUBSET (1..n), S # {}
  PROVE  Visual!Max(S) \in S /\ \A y \in S : y <= Visual!Max(S)
<1>1. S \in SUBSET Int /\ n \in Int /\ (\E x \in S : x <= n) /\ \A y \in S : y <= n
  <2>1. \A y \in S : y \in Int /\ y <= n
    OBVIOUS
  <2>2. n \in Int
    OBVIOUS
  <2>3. PICK x \in S : x <= n
    BY <2>1
  <2> QED BY <2>1, <2>2, <2>3, Zenon
<1>2. \E x \in S : x <= n /\ \A y \in S : y <= n => y <= x
  BY <1>1, Greatest, Zenon
<1>3. PICK x \in S : \A y \in S : x >= y
  BY <1>1, <1>2
<1>4. Visual!Max(S) \in S /\ \A y \in S : Visual!Max(S) >= y
  BY <1>3 DEF Visual!Max
<1> QED BY <1>1, <1>4

\* The side a decision is kept with, and is seen by.
LEMMA SeenAlike ==
  ASSUME VisualFit, NEW side \in Sides \cup {NoSide}, NEW k \in 1..Len(decisions)
  PROVE  (side = NoSide \/ Visual!Direction(k) \in {NoSide, side})
           <=> (side = NoSide \/ decisions[k].what = "cooldown" \/ decisions[k].side = side)
<1>1. decisions[k].side \in Sides /\ NoSide \notin Sides
  BY DecisionIs, VisualAssumption
<1> QED BY <1>1 DEF Visual!Direction

\* What is answered for a second that had passed when the decisions were read.
LEMMA AnswersAreTrue ==
  ASSUME VisualFit, RecordKnown, NEW sec \in 1..record.at - 1, NEW side \in Sides \cup {NoSide}
  PROVE  Visual!AnswerTrue(sec, side)
<1> DEFINE n == Len(decisions)
           a == record.first
           b == record.last
           All == {k \in DOMAIN decisions : decisions[k].at <= sec /\
                     (side = NoSide \/ decisions[k].what = "cooldown" \/ decisions[k].side = side)}
           Seen == {k \in Visual!Rows : decisions[k].at <= sec
                                        /\ (side = NoSide \/ Visual!Direction(k) \in {NoSide, side})}
           got == Visual!AsOfEvaluation(sec, side)
           was == Visual!LastDecision(sec, side)
<1>1. n \in Nat /\ DOMAIN decisions = 1..n /\ \A k \in 1..n : decisions[k].at \in Int
  BY DecisionIs
<1>2. a \in Nat \ {0} /\ b \in 0..n /\ record.at \in Int /\ Visual!Rows = a..b /\ sec \in Int /\ sec < record.at
      /\ \A j \in b + 1..n : record.at <= decisions[j].at
  BY DEF RecordKnown
<1>3. got = (IF Seen = {} THEN 0 ELSE Visual!Max(Seen)) /\ was = IF All = {} THEN 0 ELSE Visual!Max(All)
  BY DEF Visual!AsOfEvaluation, Visual!LastDecision
<1>4. All \in SUBSET (1..n) /\ Seen \in SUBSET (1..n)
  BY <1>1, <1>2
<1>5. Seen = {k \in All : a <= k}
  <2>1. ASSUME NEW k \in Seen PROVE k \in All /\ a <= k
    <3>1. k \in 1..n /\ a <= k
      BY <1>2, <1>4
    <3> QED BY <3>1, <1>1, SeenAlike
  <2>2. ASSUME NEW k \in All, a <= k PROVE k \in Seen
    <3>1. k \in 1..n /\ decisions[k].at <= sec /\ decisions[k].at \in Int
      BY <1>1
    <3>2. k <= b
      <4>1. k > b => k \in b + 1..n
        BY <3>1, <1>2
      <4> QED BY <4>1, <3>1, <1>2
    <3>3. k \in a..b
      BY <3>1, <3>2, <2>2, <1>2
    <3> QED BY <3>1, <3>3, <1>2, SeenAlike
  <2> QED BY <2>1, <2>2
<1>6. \A k \in Seen : decisions[k].at <= sec /\ k \in a..b
  BY <1>2
<1>6a. side = NoSide => \A k \in a..b : decisions[k].at <= sec => k \in Seen
  BY <1>2
<1> HIDE DEF All, Seen, got, was, n, a, b
<1>7. got \in {0, was}
  <2>1. CASE Seen = {}
    BY <2>1, <1>3
  <2>2. CASE Seen # {}
    <3>1. All # {}
      BY <2>2, <1>5
    <3>2. /\ Visual!Max(Seen) \in Seen /\ \A y \in Seen : y <= Visual!Max(Seen)
          /\ Visual!Max(All) \in All /\ \A y \in All : y <= Visual!Max(All)
      BY <2>2, <3>1, <1>1, <1>4, LatestIs
    <3> DEFINE x == Visual!Max(Seen)
               z == Visual!Max(All)
    <3> HIDE DEF x, z
    <3>3. x \in Seen /\ (\A y \in Seen : y <= x) /\ z \in All /\ (\A y \in All : y <= z)
      BY <3>2 DEF x, z
    <3>4. x \in 1..n /\ z \in 1..n /\ x <= z /\ a <= x
      BY <3>3, <1>4, <1>5
    <3>5. z \in Seen
      BY <3>3, <3>4, <1>1, <1>2, <1>5
    <3>6. x = z
      BY <3>3, <3>4, <3>5, <1>1
    <3> QED BY <2>2, <3>1, <3>6, <1>3 DEF x, z
  <2> QED BY <2>1, <2>2
<1>8. got = 0 => was < a
  <2>1. CASE Seen # {}
    <3>1. Visual!Max(Seen) \in Seen
      BY <2>1, <1>1, <1>4, LatestIs
    <3>2. Visual!Max(Seen) \in 1..n
      BY <3>1, <1>4, Zenon
    <3>3. got = Visual!Max(Seen)
      BY <2>1, <1>3, Zenon
    <3>4. got \in 1..n
      BY <3>2, <3>3, Zenon
    <3>5. got # 0
      BY <3>4
    <3> QED BY <3>5, Zenon
  <2>2. CASE Seen = {} /\ All # {}
    <3>1. Visual!Max(All) \in All
      BY <2>2, <1>1, <1>4, LatestIs
    <3> DEFINE z == Visual!Max(All)
    <3> HIDE DEF z
    <3>2. z \in All /\ z \in 1..n /\ ~(a <= z)
      BY <2>2, <3>1, <1>4, <1>5 DEF z
    <3>3. z < a
      BY <3>2, <1>1, <1>2
    <3> QED BY <2>2, <3>3, <1>3 DEF z
  <2>3. CASE Seen = {} /\ All = {}
    BY <2>3, <1>2, <1>3
  <2> QED BY <2>1, <2>2, <2>3
<1>9. got # 0 => got \in Seen /\ \A y \in Seen : y <= got
  <2>1. CASE Seen = {}
    BY <2>1, <1>3
  <2>2. CASE Seen # {}
    <3>1. Visual!Max(Seen) \in Seen /\ \A y \in Seen : y <= Visual!Max(Seen)
      BY <2>2, <1>1, <1>4, LatestIs
    <3> QED BY <2>2, <3>1, <1>3
  <2> QED BY <2>1, <2>2
<1>10. got # 0 => Visual!StreakAt(decisions[got].at) = Visual!LossesBy(decisions[got].at)
  <2> SUFFICES ASSUME got # 0
               PROVE  Visual!StreakAt(decisions[got].at) = Visual!LossesBy(decisions[got].at)
    OBVIOUS
  <2>1. decisions[got].at \in Int
    BY <1>1, <1>4, <1>9
  <2> QED BY <2>1, StreakIs
<1>11. ASSUME got # 0, side = NoSide, got # b
       PROVE  Visual!InGap(sec) <=> decisions[got + 1].at - decisions[got].at > GapSec /\ sec > decisions[got].at
  <2>1. got \in a..b /\ got + 1 \in a..b /\ got \in 1..n /\ got + 1 \in 1..n /\ got \in Int
    <3>1. got \in a..b /\ got # b
      BY <1>6, <1>9, <1>11, Zenon
    <3>2. a \in Nat \ {0} /\ b \in 0..n /\ n \in Nat
      BY <1>1, <1>2, Zenon
    <3> QED BY <3>1, <3>2
  <2>2. decisions[got].at <= sec /\ decisions[got].at \in Int /\ decisions[got + 1].at \in Int
    BY <2>1, <1>1, <1>6, <1>9, <1>11
  <2>3. ~(decisions[got + 1].at <= sec)
    <3>1. got + 1 \notin Seen
      BY <2>1, <1>9, <1>11
    <3> QED BY <2>1, <3>1, <1>6a, <1>11
  <2>4. ASSUME decisions[got + 1].at - decisions[got].at > GapSec, sec > decisions[got].at
        PROVE  Visual!InGap(sec)
    <3>1. <<decisions[got].at, decisions[got + 1].at>> \in Visual!Gaps
      BY <2>1, <2>4, <1>2 DEF Visual!Gaps
    <3> DEFINE g == <<decisions[got].at, decisions[got + 1].at>>
    <3>2. g[1] < sec /\ sec < g[2]
      BY <2>2, <2>3, <2>4, <1>2
    <3> QED BY <3>1, <3>2 DEF Visual!InGap
  <2>5. ASSUME Visual!InGap(sec)
        PROVE  decisions[got + 1].at - decisions[got].at > GapSec /\ sec > decisions[got].at
    <3>1. PICK g \in Visual!Gaps : g[1] < sec /\ sec < g[2]
      BY <2>5 DEF Visual!InGap
    <3>2. PICK j \in a..b : /\ j + 1 \in a..b /\ decisions[j + 1].at - decisions[j].at > GapSec
                            /\ g = <<decisions[j].at, decisions[j + 1].at>>
      BY <1>2 DEF Visual!Gaps
    <3>3. decisions[j].at < sec /\ sec < decisions[j + 1].at
      BY <3>1, <3>2
    <3>4. j \in 1..n /\ j + 1 \in 1..n
      BY <3>2, <1>1, <1>2
    <3>5. decisions[j].at \in Int /\ decisions[j + 1].at \in Int
      BY <3>4, <1>1
    <3>6. j <= got
      <4>1. j \in Seen
        BY <3>2, <3>3, <3>5, <1>2, <1>6a, <1>11
      <4> QED BY <4>1, <1>9, <1>11
    <3>7. ~(j + 1 <= got)
      <4>1. ASSUME j + 1 <= got PROVE decisions[j + 1].at <= decisions[got].at
        <5>1. got \in j + 1..n
          BY <4>1, <2>1, <3>4
        <5> QED BY <3>4, <5>1 DEF VisualFit, PastFit, n
      <4> QED BY <4>1, <2>2, <3>3, <3>5, <1>2
    <3>8. j = got
      BY <3>4, <3>6, <3>7, <2>1
    <3> QED BY <3>2, <3>3, <3>8
  <2> QED BY <2>4, <2>5
<1> QED BY <1>7, <1>8, <1>10, <1>11 DEF Visual!AnswerTrue, got, was, a, b

\* The decisions a trade may be linked to when those in v have been used, and the one it is.
Linkable(v, k) ==
  {x \in Visual!Rows : /\ decisions[x].what = "accepted"
                       /\ decisions[x].side = record.trades[k].side
                       /\ \A j \in 1..k - 1 : v[j] # x
                       /\ record.trades[k].entry - decisions[x].at \in 0..LinkSec}
NearestOf(v, k) ==
  {x \in Linkable(v, k) : \A j \in Linkable(v, k) : \/ decisions[x].at > decisions[j].at
                                                    \/ decisions[x].at = decisions[j].at /\ x <= j}
LinkOf(v, k) == IF NearestOf(v, k) = {} THEN 0 ELSE Visual!Max(NearestOf(v, k))

\* The one is the only one.
LEMMA LinkIsOne ==
  ASSUME VisualFit, RecordKnown, NEW v, NEW k
  PROVE  LinkOf(v, k) \in Nat /\ (LinkOf(v, k) # 0 => LinkOf(v, k) \in NearestOf(v, k))
<1> DEFINE S == NearestOf(v, k)
           n == Len(decisions)
<1>1. n \in Nat
  BY DecisionIs
<1>2. S \in SUBSET (1..n)
  <2>1. S \subseteq Visual!Rows
    BY DEF NearestOf, Linkable
  <2> QED BY <2>1, RowIs
<1>3. LinkOf(v, k) = IF S = {} THEN 0 ELSE Visual!Max(S)
  BY DEF LinkOf
<1> HIDE DEF S, n
<1>4. CASE S = {}
  BY <1>3, <1>4
<1>5. CASE S # {}
  <2>1. Visual!Max(S) \in S
    BY <1>1, <1>2, <1>5, LatestIs
  <2> DEFINE x == Visual!Max(S)
  <2> HIDE DEF x
  <2>2. x \in S
    BY <2>1 DEF x
  <2>3. x \in Nat
    BY <2>2, <1>1, <1>2
  <2> QED BY <2>2, <2>3, <1>3, <1>5 DEF S, x
<1> QED BY <1>4, <1>5

LinksUp(g, n) ==
  /\ g[0] = <<>>
  /\ \A k \in 1..n : g[k] = Append(g[k - 1], LinkOf(g[k - 1], k))

LEMMA LinksGoUp ==
  ASSUME VisualFit, RecordKnown
  PROVE  \E g : LinksUp(g, Len(tradeLog)) /\ Visual!TradeLinks = g[Len(tradeLog)]
<1> DEFINE n == Len(tradeLog)
           D == 1..n
           A(f) == [k \in 0..n |-> IF k = 0 THEN <<>> ELSE Append(f[k - 1], LinkOf(f[k - 1], k))]
           it == CHOOSE f : f = A(f)
           G == [p \in D \X Seq(Nat) |-> Append(p[2], LinkOf(p[2], p[1]))]
<1>1. n \in Nat /\ record.trades = tradeLog
  BY TradeIs DEF RecordKnown
<1>2. Visual!TradeLinks = it[n]
  <2>1. Len(record.trades) = n
    BY <1>1
  <2> QED BY <2>1 DEF Visual!TradeLinks, LinkOf, NearestOf, Linkable
<1>3. G \in [D \X Seq(Nat) -> Seq(Nat)]
  <2>1. ASSUME NEW x \in D, NEW v \in Seq(Nat) PROVE Append(v, LinkOf(v, x)) \in Seq(Nat)
    <3>1. LinkOf(v, x) \in Nat
      BY LinkIsOne
    <3> QED BY <3>1
  <2> QED BY <2>1
<1>4. \A x \in D, v \in Seq(Nat) : G[<<x, v>>] = Append(v, LinkOf(v, x))
  OBVIOUS
<1>5. <<>> \in Seq(Nat)
  OBVIOUS
<1> HIDE DEF G
<1>6. PICK F \in [SUBSET D -> Seq(Nat)] : FoldsUp(F, n, <<>>, G)
  BY <1>1, <1>3, <1>5, FoldUpFound
<1> DEFINE h == [k \in 0..n |-> F[1..k]]
<1>7. ASSUME NEW k \in 0..n
      PROVE  h[k] = IF k = 0 THEN <<>> ELSE Append(h[k - 1], LinkOf(h[k - 1], k))
  <2>1. CASE k = 0
    <3>1. 1..0 = {} /\ {} \in SUBSET D
      OBVIOUS
    <3> QED BY <2>1, <3>1, <1>6 DEF FoldsUp
  <2>2. CASE k # 0
    <3>1. k \in Nat \ {0} /\ 1..k \in SUBSET D /\ k \in 0..n /\ k - 1 \in 0..n /\ k \in D
          /\ 1..(k - 1) \in SUBSET D
      BY <2>2, <1>1
    <3>2. Top(1..k) = k /\ (1..k) \ {k} = 1..(k - 1) /\ 1..k # {}
      BY <3>1, TopIs
    <3>3. F[1..k] = G[<<k, F[1..(k - 1)]>>]
      BY <3>1, <3>2, <1>6 DEF FoldsUp
    <3>4. F[1..(k - 1)] \in Seq(Nat)
      BY <3>1
    <3>5. F[1..k] = Append(F[1..(k - 1)], LinkOf(F[1..(k - 1)], k))
      BY <3>1, <3>3, <3>4, <1>4
    <3> QED BY <2>2, <3>1, <3>5
  <2> QED BY <2>1, <2>2
<1>8. h = A(h)
  <2>1. h = [k \in 0..n |-> h[k]]
    OBVIOUS
  <2> HIDE DEF h
  <2> QED BY <2>1, <1>7
<1>9. it = A(it)
  <2> HIDE DEF A, h
  <2> QED BY <1>8
<1> HIDE DEF it
<1>10. \A k \in 0..n : it[k] = IF k = 0 THEN <<>> ELSE Append(it[k - 1], LinkOf(it[k - 1], k))
  BY <1>9
<1>11. 0 \in 0..n /\ \A k \in 1..n : k \in 0..n /\ k # 0
  BY <1>1
<1> HIDE DEF A
<1>12. LinksUp(it, n)
  BY <1>10, <1>11 DEF LinksUp
<1> QED BY <1>2, <1>12

\* The links of the first m trades.
LinksTo(g, m) ==
  g[m] \in Seq(Nat) /\ Len(g[m]) = m /\ \A j \in 1..m : g[m][j] = LinkOf(g[j - 1], j)

LEMMA LinksAre ==
  ASSUME VisualFit, RecordKnown, NEW n \in Nat, NEW g, LinksUp(g, n)
  PROVE  \A m \in 0..n : LinksTo(g, m)
<1> DEFINE Bad == {m \in 0..n : ~LinksTo(g, m)}
<1>1. LinksTo(g, 0)
  <2>1. g[0] = <<>> /\ <<>> \in Seq(Nat) /\ Len(<<>>) = 0 /\ 1..0 = {}
    BY DEF LinksUp
  <2> QED BY <2>1 DEF LinksTo
<1>2. ASSUME NEW m \in 1..n, LinksTo(g, m - 1) PROVE LinksTo(g, m)
  <2> DEFINE v == g[m - 1]
             x == LinkOf(v, m)
  <2>1. g[m] = Append(v, x) /\ x \in Nat
    BY LinkIsOne DEF LinksUp
  <2>2. v \in Seq(Nat) /\ Len(v) = m - 1 /\ \A j \in 1..m - 1 : v[j] = LinkOf(g[j - 1], j)
    BY <1>2 DEF LinksTo
  <2>3. x = LinkOf(g[m - 1], m)
    OBVIOUS
  <2> HIDE DEF v, x
  <2>4. /\ g[m] \in Seq(Nat) /\ Len(g[m]) = m /\ g[m][m] = x
        /\ \A j \in 1..m - 1 : g[m][j] = v[j]
    <3>1. m \in Nat /\ Len(v) + 1 = m
      BY <2>2
    <3> QED BY <2>1, <2>2, <3>1
  <2>5. \A j \in 1..m : j \in 1..m - 1 \/ j = m
    OBVIOUS
  <2>6. \A j \in 1..m : g[m][j] = LinkOf(g[j - 1], j)
    BY <2>2, <2>3, <2>4, <2>5
  <2> QED BY <2>4, <2>6 DEF LinksTo
<1>3. ASSUME NEW m \in Bad, \A y \in Bad : m <= y PROVE FALSE
  <2>1. m \in 1..n /\ m - 1 \in 0..n /\ ~(m <= m - 1)
    BY <1>1
  <2>2. LinksTo(g, m - 1)
    BY <2>1, <1>3
  <2> QED BY <2>1, <2>2, <1>2
<1>4. Bad = {}
  <2>1. Bad \in SUBSET Nat
    OBVIOUS
  <2> HIDE DEF Bad
  <2> QED BY <2>1, <1>3, LeastOf
<1> QED BY <1>4

\* What a trade is linked to, in terms of the links before it.
LEMMA LinkIsNearest ==
  ASSUME VisualFit, RecordKnown
  PROVE  \A k \in 1..Len(tradeLog) :
           Visual!TradeLinks[k] # 0 => Visual!TradeLinks[k] \in NearestOf(Visual!TradeLinks, k)
<1> DEFINE n == Len(tradeLog)
           L == Visual!TradeLinks
<1>1. n \in Nat
  BY TradeIs
<1>2. PICK g : LinksUp(g, n) /\ L = g[n]
  BY LinksGoUp
<1>3. \A m \in 0..n : LinksTo(g, m)
  BY <1>1, <1>2, LinksAre
<1> HIDE DEF n, L
<1>4. ASSUME NEW k \in 1..n, L[k] # 0 PROVE L[k] \in NearestOf(L, k)
  <2>1. n \in 0..n /\ k - 1 \in 0..n
    BY <1>1
  <2>2. L[k] = LinkOf(g[k - 1], k)
    BY <2>1, <1>2, <1>3 DEF LinksTo
  <2>3. L[k] \in NearestOf(g[k - 1], k)
    BY <2>2, <1>4, LinkIsOne
  <2>4. \A j \in 1..k - 1 : g[k - 1][j] = L[j]
    <3> SUFFICES ASSUME NEW j \in 1..k - 1 PROVE g[k - 1][j] = L[j]
      OBVIOUS
    <3>1. j \in 1..n
      BY <1>1
    <3> QED BY <2>1, <3>1, <1>2, <1>3 DEF LinksTo
  <2>5. Linkable(g[k - 1], k) = Linkable(L, k)
    BY <2>4 DEF Linkable
  <2> QED BY <2>3, <2>5 DEF NearestOf
<1> QED BY <1>4 DEF n, L

\* No decision was made between a trade's own and its end.
LEMMA BeforeEntry ==
  ASSUME VisualFit, NEW k \in 1..Len(tradeLog), NEW x \in 1..Len(decisions),
         decisions[x].at <= tradeLog[k].entry
  PROVE  x <= tradeLog[k].from /\ decisions[x].at <= decisions[tradeLog[k].from].at
<1> DEFINE t == tradeLog[k]
           f == t.from
           n == Len(decisions)
<1>1. n \in Nat /\ f \in 1..n /\ t.entry \in Int /\ decisions[x].at \in Int
  BY DecisionIs, TradeIs
<1>2. \A j \in f + 1..n : t.entry < decisions[j].at
  BY DEF VisualFit, TradesFit, TradeFit
<1>3. decisions[x].at <= t.entry
  OBVIOUS
<1> HIDE DEF t, f, n
<1>4. x \in 1..n
  BY DEF n
<1>5. x <= f
  <2>1. x \in f + 1..n => t.entry < decisions[x].at
    BY <1>2
  <2>2. x \notin f + 1..n
    BY <2>1, <1>1, <1>3
  <2> QED BY <2>2, <1>1, <1>4
<1>6. f \in x..n
  BY <1>1, <1>4, <1>5
<1>7. decisions[x].at <= decisions[f].at
  BY <1>4, <1>6 DEF VisualFit, PastFit, n
<1> QED BY <1>5, <1>7 DEF f, t

\* What the link of a trade is.
LEMMA LinkFields ==
  ASSUME VisualFit, RecordKnown, NEW k \in 1..Len(tradeLog), Visual!TradeLinks[k] # 0
  PROVE  LET x == Visual!TradeLinks[k] IN
         /\ x \in 1..Len(decisions) /\ decisions[x].at <= tradeLog[k].entry
         /\ tradeLog[k].entry - decisions[x].at <= LinkSec
         /\ \A j \in 1..k - 1 : Visual!TradeLinks[j] # x
         /\ \A y \in Linkable(Visual!TradeLinks, k) : decisions[x].at >= decisions[y].at
<1> DEFINE L == Visual!TradeLinks
           x == L[k]
<1>1. x \in NearestOf(L, k)
  BY LinkIsNearest
<1>2. record.trades = tradeLog /\ tradeLog[k].entry \in Int /\ LinkSec \in Nat
  BY TradeIs, VisualAssumption DEF RecordKnown
<1> HIDE DEF x, L
<1>3. x \in Linkable(L, k)
  BY <1>1 DEF NearestOf
<1>4. x \in Visual!Rows
  BY <1>3 DEF Linkable
<1>5. x \in 1..Len(decisions)
  BY <1>4, RowIs
<1>6. decisions[x].at \in Int
  BY <1>5, DecisionIs
<1>7. tradeLog[k].entry - decisions[x].at \in 0..LinkSec /\ \A j \in 1..k - 1 : L[j] # x
  BY <1>2, <1>3 DEF Linkable
<1>8. ASSUME NEW y \in Linkable(L, k) PROVE decisions[x].at >= decisions[y].at
  <2>1. decisions[x].at > decisions[y].at \/ decisions[x].at = decisions[y].at
    BY <1>1 DEF NearestOf
  <2>2. y \in 1..Len(decisions)
    BY RowIs DEF Linkable
  <2>3. decisions[y].at \in Int
    BY <2>2, DecisionIs
  <2> QED BY <2>1, <2>3, <1>6
<1>9. decisions[x].at <= tradeLog[k].entry /\ tradeLog[k].entry - decisions[x].at <= LinkSec
  BY <1>2, <1>6, <1>7
<1> QED BY <1>5, <1>7, <1>8, <1>9 DEF x, L

LEMMA LinksAreTrue ==
  ASSUME VisualFit, RecordKnown
  PROVE  Visual!LinksTrue
<1> DEFINE L == Visual!TradeLinks
<1>1. record.trades = tradeLog /\ DOMAIN tradeLog = 1..Len(tradeLog) /\ Len(tradeLog) \in Nat
  BY TradeIs DEF RecordKnown
<1> SUFFICES ASSUME NEW k \in 1..Len(tradeLog), tradeLog[k].from \in Visual!Rows
             PROVE  /\ L[k] # 0 => /\ decisions[L[k]].at = decisions[tradeLog[k].from].at
                                   /\ Visual!EvaluationRow(L[k]).posthocTrade = {k}
                    /\ LET drawn == Visual!TradeOverlay(tradeLog[k]) IN
                       /\ drawn.matched # 0 => decisions[drawn.matched].at = decisions[tradeLog[k].from].at
                       /\ tradeLog[k].entry < record.at => drawn.atEntry.streak = Visual!LossesBy(tradeLog[k].entry)
  BY <1>1 DEF Visual!LinksTrue
<1> DEFINE f == tradeLog[k].from
           e == tradeLog[k].entry
<1>2. /\ f \in 1..Len(decisions) /\ e \in Int /\ decisions[f].what = "accepted"
      /\ decisions[f].side = tradeLog[k].side /\ decisions[f].at <= e /\ decisions[f].at \in Int
      /\ f \in Visual!Rows
  BY TradeIs, DecisionIs
<1> HIDE DEF f, e
<1>3. ASSUME L[k] # 0
      PROVE  decisions[L[k]].at = decisions[f].at /\ Visual!EvaluationRow(L[k]).posthocTrade = {k}
  <2> DEFINE x == L[k]
  <2>1. /\ x \in 1..Len(decisions) /\ decisions[x].at <= e /\ e - decisions[x].at <= LinkSec
        /\ \A j \in 1..k - 1 : L[j] # x
        /\ \A y \in Linkable(L, k) : decisions[x].at >= decisions[y].at
    BY <1>3, LinkFields DEF e
  <2>2. decisions[x].at \in Int /\ LinkSec \in Nat
    BY <2>1, DecisionIs, VisualAssumption
  <2>3. decisions[x].at <= decisions[f].at
    BY <2>1, BeforeEntry DEF e, f
  <2>4. \A j \in 1..k - 1 : L[j] # f
    <3> SUFFICES ASSUME NEW j \in 1..k - 1, L[j] = f PROVE FALSE
      OBVIOUS
    <3>1. j \in 1..Len(tradeLog) /\ L[j] # 0
      BY <1>1, <1>2
    <3>2. decisions[f].at <= tradeLog[j].entry
      BY <3>1, LinkFields
    <3>3. f <= tradeLog[j].from
      BY <3>1, <3>2, <1>2, BeforeEntry
    <3>4. tradeLog[j].from < f
      BY DEF VisualFit, TradesFit, f
    <3>5. tradeLog[j].from \in Int
      BY <3>1, TradeIs
    <3> QED BY <3>3, <3>4, <3>5, <1>2
  <2>5. f \in Linkable(L, k)
    <3>1. e - decisions[f].at \in 0..LinkSec
      BY <2>1, <2>2, <2>3, <1>2
    <3> QED BY <3>1, <2>4, <1>1, <1>2 DEF Linkable, e
  <2>6. decisions[x].at = decisions[f].at
    BY <2>1, <2>2, <2>3, <2>5, <1>2
  <2>7. ASSUME NEW m \in 1..Len(tradeLog), L[m] = x PROVE m = k
    <3>1. CASE m < k
      <4>1. m \in 1..k - 1
        BY <3>1
      <4> QED BY <4>1, <2>1, <2>7
    <3>2. CASE k < m
      <4>1. k \in 1..m - 1
        BY <3>2
      <4>2. \A j \in 1..m - 1 : L[j] # L[m]
        BY <1>3, <2>7, LinkFields
      <4> QED BY <4>1, <4>2, <2>7
    <3> QED BY <3>1, <3>2
  <2>8. Visual!EvaluationRow(x).posthocTrade = {m \in 1..Len(tradeLog) : L[m] = x}
    BY <1>1 DEF Visual!EvaluationRow
  <2>9. {m \in 1..Len(tradeLog) : L[m] = x} = {k}
    BY <2>7
  <2> QED BY <2>6, <2>8, <2>9
<1>4. Visual!TradeOverlay(tradeLog[k]).matched = Visual!MatchSignal(tradeLog[k])
      /\ Visual!TradeOverlay(tradeLog[k]).atEntry = Visual!StateAt(e)
  BY DEF Visual!TradeOverlay, e
<1>5. ASSUME Visual!MatchSignal(tradeLog[k]) # 0
      PROVE  decisions[Visual!MatchSignal(tradeLog[k])].at = decisions[f].at
  <2> DEFINE S == {x \in Visual!Rows : decisions[x].at <= e /\ Visual!Direction(x) \in {NoSide, tradeLog[k].side}}
             x == Visual!MatchSignal(tradeLog[k])
             n == Len(decisions)
  <2>1. x = IF S = {} THEN 0 ELSE Visual!Max(S)
    BY DEF Visual!MatchSignal, e
  <2>2. S \in SUBSET (1..n) /\ n \in Nat
    BY RowIs, DecisionIs
  <2>3. f \in S
    <3>1. Visual!Direction(f) = tradeLog[k].side
      BY <1>2 DEF Visual!Direction
    <3> QED BY <3>1, <1>2
  <2>4. \A y \in S : decisions[y].at <= e
    OBVIOUS
  <2> HIDE DEF S, x, n
  <2>5. x \in S /\ f <= x
    <3>1. Visual!Max(S) \in S /\ \A y \in S : y <= Visual!Max(S)
      BY <2>2, <2>3, LatestIs
    <3> QED BY <3>1, <2>1, <2>3
  <2>6. x \in 1..n /\ decisions[x].at <= e
    BY <2>2, <2>4, <2>5
  <2>7. x <= f
    BY <2>6, BeforeEntry DEF e, f, n
  <2>8. x = f
    BY <2>2, <2>5, <2>6, <2>7, <1>2 DEF n
  <2> QED BY <2>8 DEF x
<1>6. Visual!StateAt(e).streak = Visual!LossesBy(e)
  BY <1>2, StreakIs DEF Visual!StateAt
<1> QED BY <1>3, <1>4, <1>5, <1>6 DEF e, f

\* The overlays: each row of the record is in one of them.
LEMMA VisualCounts == ASSUME NEW S PROVE Visual!Cardinality(S) = Cardinality(S)
  BY DEF Visual!Cardinality, Cardinality

SumOfParts(S) == Visual!MapThenSumSet(LAMBDA o : o.n, S)
RowsOf(of, R, s) == {x \in R : of[x] \in s}

LEMMA RowsOfFinite ==
  ASSUME NEW R, IsFiniteSet(R), NEW of, NEW s
  PROVE  IsFiniteSet(RowsOf(of, R, s)) /\ Cardinality(RowsOf(of, R, s)) \in Nat
<1>1. RowsOf(of, R, s) \in SUBSET R
  BY DEF RowsOf
<1> QED BY <1>1, FS_Subset, FS_CardinalityType

LEMMA PartsApart ==
  ASSUME NEW R, IsFiniteSet(R), NEW of, NEW s, NEW d \in s
  PROVE  Cardinality(RowsOf(of, R, s)) = Cardinality(RowsOf(of, R, {d})) + Cardinality(RowsOf(of, R, s \ {d}))
<1> DEFINE A == RowsOf(of, R, {d})
           B == RowsOf(of, R, s \ {d})
<1>1. RowsOf(of, R, s) = A \cup B /\ A \cap B = {}
  BY DEF RowsOf
<1>2. IsFiniteSet(A) /\ IsFiniteSet(B)
  BY RowsOfFinite
<1> HIDE DEF A, B
<1>3. Cardinality(A \cup B) = Cardinality(A) + Cardinality(B) - Cardinality(A \cap B)
  BY <1>2, FS_Union
<1>4. Cardinality(A \cap B) = 0 /\ Cardinality(A) \in Nat /\ Cardinality(B) \in Nat
  BY <1>1, <1>2, FS_EmptySet, FS_CardinalityType
<1>5. Cardinality(A \cup B) = Cardinality(A) + Cardinality(B)
  BY <1>3, <1>4
<1> QED BY <1>1, <1>5 DEF A, B

LEMMA PartsSum ==
  ASSUME NEW S, IsFiniteSet(S), NEW R, IsFiniteSet(R), NEW of,
         \A o \in S : o.n = Cardinality(RowsOf(of, R, {o}))
  PROVE  SumOfParts(S) = Cardinality(RowsOf(of, R, S))
<1> DEFINE Next1(s) == CHOOSE x \in s : TRUE
           A(f) == [s \in SUBSET S |-> IF s = {} THEN 0 ELSE Next1(s).n + f[s \ {Next1(s)}]]
           it == CHOOSE f : f = A(f)
           c == [s \in SUBSET S |-> Next1(s)]
           G == [p \in S \X Int |-> p[1].n + p[2]]
<1>1. SumOfParts(S) = it[S]
  BY DEF SumOfParts, Visual!MapThenSumSet, Visual!MapThenFoldSet
<1>2. \A o \in S : o.n \in Int
  <2> SUFFICES ASSUME NEW o \in S PROVE o.n \in Int
    OBVIOUS
  <2>1. Cardinality(RowsOf(of, R, {o})) \in Nat
    BY RowsOfFinite
  <2> QED BY <2>1
<1>3. G \in [S \X Int -> Int]
  BY <1>2
<1>4. \A x \in S, v \in Int : G[<<x, v>>] = x.n + v
  OBVIOUS
<1>5. \A s \in SUBSET S : c[s] = Next1(s)
  OBVIOUS
<1>6. \A s \in SUBSET S : s # {} => Next1(s) \in s
  OBVIOUS
<1> HIDE DEF c, G, Next1
<1>7. PICK F \in [SUBSET S -> Int] : Folds(F, S, 0, c, G)
  <2>1. 0 \in Int
    OBVIOUS
  <2>2. Chooses(c, S)
    BY <1>5, <1>6 DEF Chooses
  <2> QED BY <1>3, <2>1, <2>2, FoldFound
<1>8. ASSUME NEW s \in SUBSET S
      PROVE  F[s] = IF s = {} THEN 0 ELSE Next1(s).n + F[s \ {Next1(s)}]
  <2>1. CASE s = {}
    BY <2>1, <1>7 DEF Folds
  <2>2. CASE s # {}
    <3>1. Next1(s) \in S /\ F[s \ {Next1(s)}] \in Int
      BY <2>2, <1>6
    <3>2. F[s] = G[<<c[s], F[s \ {c[s]}]>>]
      BY <2>2, <1>7 DEF Folds
    <3> QED BY <2>2, <3>1, <3>2, <1>4, <1>5
  <2> QED BY <2>1, <2>2
<1>9. F = A(F)
  BY <1>8
<1>10. it = A(it)
  <2> HIDE DEF A
  <2> QED BY <1>9
<1> HIDE DEF it
<1>11. \A s \in SUBSET S : it[s] = IF s = {} THEN 0 ELSE Next1(s).n + it[s \ {Next1(s)}]
  BY <1>10
<1> HIDE DEF A
<1> DEFINE Bad == {s \in SUBSET S : it[s] # Cardinality(RowsOf(of, R, s))}
<1>12. ASSUME NEW s \in Bad, \A u \in SUBSET S : Cardinality(u) < Cardinality(s) => u \notin Bad
       PROVE  FALSE
  <2>1. CASE s = {}
    <3>1. RowsOf(of, R, s) = {}
      BY <2>1 DEF RowsOf
    <3>2. it[s] = 0
      BY <2>1, <1>11
    <3> QED BY <3>1, <3>2, FS_EmptySet
  <2>2. CASE s # {}
    <3> DEFINE d == Next1(s)
    <3>1. d \in s /\ s \in SUBSET S
      BY <2>2, <1>6
    <3> HIDE DEF d
    <3>2. s \ {d} \in SUBSET S /\ Cardinality(s) \in Nat /\ Cardinality(s \ {d}) = Cardinality(s) - 1
      BY <3>1, PartLess
    <3>3. it[s \ {d}] = Cardinality(RowsOf(of, R, s \ {d}))
      BY <3>2, <1>12
    <3>4. it[s] = d.n + it[s \ {d}]
      BY <2>2, <3>1, <1>11 DEF d
    <3>5. d.n = Cardinality(RowsOf(of, R, {d}))
      BY <3>1
    <3>6. Cardinality(RowsOf(of, R, s)) = Cardinality(RowsOf(of, R, {d})) + Cardinality(RowsOf(of, R, s \ {d}))
      BY <3>1, PartsApart
    <3> QED BY <3>3, <3>4, <3>5, <3>6
  <2> QED BY <2>1, <2>2
<1>13. Bad \in SUBSET SUBSET S
  OBVIOUS
<1>14. Bad = {}
  <2> HIDE DEF Bad
  <2> QED BY <1>12, <1>13, LeastPart
<1>15. it[S] = Cardinality(RowsOf(of, R, S))
  BY <1>14
<1> QED BY <1>1, <1>15

LEMMA OverlaysCount ==
  ASSUME VisualFit, RecordKnown
  PROVE  Visual!MapThenSumSet(LAMBDA o : o.n, Visual!SignalOverlays) = Visual!Cardinality(Visual!Rows)
<1> DEFINE R == Visual!Rows
           T == {x \in R : decisions[x].what # "accepted"}
           bucket(x) == <<(decisions[x].at - 1) \div BucketSec, Visual!Direction(x), decisions[x].what>>
           own(x) == [at |-> <<x, Visual!Direction(x), "accepted">>, n |-> 1]
           counted(b) == [at |-> b, n |-> Cardinality({x \in T : bucket(x) = b})]
           of == [x \in R |-> IF x \in T THEN counted(bucket(x)) ELSE own(x)]
           S == Visual!SignalOverlays
<1>1. S = {own(x) : x \in R \ T} \cup {counted(b) : b \in {bucket(x) : x \in T}}
  BY VisualCounts DEF Visual!SignalOverlays
<1>2. \A x \in T : x \in R /\ bucket(x)[3] # "accepted"
  OBVIOUS
<1> HIDE DEF bucket, T
<1>3. \A x \in R : own(x).at[3] = "accepted" /\ own(x).at[1] = x /\ own(x).n = 1
  OBVIOUS
<1>4. \A b : counted(b).at = b /\ counted(b).n = Cardinality({x \in T : bucket(x) = b})
  OBVIOUS
<1> HIDE DEF own, counted
<1>5. \A x \in R : of[x] = IF x \in T THEN counted(bucket(x)) ELSE own(x)
  OBVIOUS
<1> HIDE DEF of, S
<1>6. (\A o \in S : \E x \in R : of[x] = o) /\ \A x \in R : of[x] \in S
  BY <1>1, <1>2, <1>5
<1>7. IsFiniteSet(R)
  <2>1. R \subseteq 1..Len(decisions) /\ Len(decisions) \in Nat
    BY RowIs, DecisionIs
  <2>2. IsFiniteSet(1..Len(decisions))
    BY <2>1, FS_Interval
  <2> QED BY <2>1, <2>2, FS_Subset
<1> HIDE DEF R
<1>8. IsFiniteSet(S)
  <2>1. of \in [R -> S]
    <3>1. of = [x \in R |-> of[x]]
      BY DEF of
    <3> QED BY <3>1, <1>6
  <2>2. of \in Surjection(R, S)
    BY <2>1, <1>6 DEF Surjection
  <2> QED BY <2>2, <1>7, FS_Surjection
<1>9. ASSUME NEW y \in R PROVE of[y].n = Cardinality(RowsOf(of, R, {of[y]}))
  <2>1. CASE y \notin T
    <3>1. of[y] = own(y)
      BY <2>1, <1>5
    <3>2. ASSUME NEW x \in R, of[x] = of[y] PROVE x = y
      <4>1. x \notin T
        <5>1. x \in T => of[x].at[3] # "accepted"
          BY <1>2, <1>4, <1>5
        <5> QED BY <5>1, <3>1, <3>2, <1>3
      <4>2. of[x] = own(x)
        BY <4>1, <1>5
      <4> QED BY <4>2, <3>1, <3>2, <1>3
    <3>3. RowsOf(of, R, {of[y]}) = {y}
      BY <3>2 DEF RowsOf
    <3> QED BY <3>1, <3>3, <1>3, FS_Singleton
  <2>2. CASE y \in T
    <3>1. of[y] = counted(bucket(y)) /\ of[y].at = bucket(y)
      BY <2>2, <1>4, <1>5
    <3>2. ASSUME NEW x \in R, of[x] = of[y] PROVE x \in T /\ bucket(x) = bucket(y)
      <4>1. x \in T
        <5>1. x \notin T => of[x].at[3] = "accepted"
          BY <1>3, <1>5
        <5> QED BY <5>1, <3>1, <3>2, <2>2, <1>2
      <4>2. of[x].at = bucket(x)
        BY <4>1, <1>4, <1>5
      <4> QED BY <4>1, <4>2, <3>1, <3>2
    <3>3. ASSUME NEW x \in T, bucket(x) = bucket(y) PROVE x \in R /\ of[x] = of[y]
      BY <3>1, <3>3, <1>2, <1>5
    <3>4. RowsOf(of, R, {of[y]}) = {x \in T : bucket(x) = bucket(y)}
      BY <3>2, <3>3 DEF RowsOf
    <3> QED BY <3>1, <3>4, <1>4
  <2> QED BY <2>1, <2>2
<1>10. \A o \in S : o.n = Cardinality(RowsOf(of, R, {o}))
  BY <1>6, <1>9
<1>11. SumOfParts(S) = Cardinality(RowsOf(of, R, S))
  BY <1>7, <1>8, <1>10, PartsSum
<1>12. RowsOf(of, R, S) = R
  BY <1>6 DEF RowsOf
<1> QED BY <1>11, <1>12, VisualCounts DEF SumOfParts, S, R

LEMMA RecordIsTrue == VisualFit => Visual!AsOfHonest
<1> SUFFICES ASSUME VisualFit, record # <<>>
             PROVE  /\ \A sec \in 1..record.at - 1 :
                         Visual!StateTrue(sec) /\ \A side \in Sides \cup {NoSide} : Visual!AnswerTrue(sec, side)
                    /\ Visual!LinksTrue
                    /\ Visual!MapThenSumSet(LAMBDA o : o.n, Visual!SignalOverlays) = Visual!Cardinality(Visual!Rows)
  BY DEF Visual!AsOfHonest
<1>1. RecordKnown
  BY RecordIsKnown
<1>2. ASSUME NEW sec \in 1..record.at - 1 PROVE sec \in Int
  OBVIOUS
<1>3. ASSUME NEW sec \in 1..record.at - 1 PROVE Visual!StateTrue(sec)
  BY <1>1, <1>2, StatesAreTrue
<1>4. ASSUME NEW sec \in 1..record.at - 1, NEW side \in Sides \cup {NoSide} PROVE Visual!AnswerTrue(sec, side)
  BY <1>1, AnswersAreTrue
<1>5. Visual!LinksTrue
  BY <1>1, LinksAreTrue
<1>6. Visual!MapThenSumSet(LAMBDA o : o.n, Visual!SignalOverlays) = Visual!Cardinality(Visual!Rows)
  BY <1>1, OverlaysCount
<1> QED BY <1>3, <1>4, <1>5, <1>6

VisualInv == In("visual", VisualFit)

LEMMA VisualInvStep ==
  ASSUME VisualInv, [RecNext]_recordVars PROVE VisualInv'
<1>1. part' = part
  BY DEF RecNext, SessionMoves, ArchiveMoves, ImportMoves, ReplayMoves, RestMoves,
         ReportMoves, JournalMoves, CalendarMoves, BacktestMoves, VisualMoves, recordVars
<1>2. CASE part = "visual"
  <2>1. Visual!Next \/ UNCHANGED visualVars
    BY <1>2 DEF RecNext, SessionMoves, ArchiveMoves, ImportMoves, ReplayMoves, RestMoves,
                ReportMoves, JournalMoves, CalendarMoves, BacktestMoves, VisualMoves, recordVars
  <2>2. VisualFit'
    BY <1>2, <2>1, VisualStep DEF VisualInv, In
  <2> QED BY <1>1, <1>2, <2>2 DEF VisualInv, In
<1>3. CASE part # "visual"
  BY <1>1, <1>3 DEF VisualInv, In
<1> QED BY <1>2, <1>3

\* The visual record answers for a second as the day stood at that second, links a trade
\* to its decision, and counts each decision once (research/visual evaluations.py,
\* store.py, build.py), whatever was pruned and however often it was built.
THEOREM AsOfStaysHonest == RecSpec => []AsOfHonest
<1>1. RecInit => VisualInv
  BY VisualStart DEF RecInit, VisualInv, In
<1>2. VisualInv /\ [RecNext]_recordVars => VisualInv'
  BY VisualInvStep
<1>3. VisualInv => AsOfHonest
  BY RecordIsTrue DEF VisualInv, AsOfHonest, In
<1> QED BY <1>1, <1>2, <1>3, PTL DEF RecSpec
=============================================================================
