-------------------------- MODULE TradeLedgerProofs --------------------------
(***************************************************************************)
(* The hourly cap and the direction blocks of TradeLedger, for all limits, *)
(* amounts and bounds, by inductive invariants of their own that need not  *)
(* know what the rows hold; its account, which is the sum of the rows, by  *)
(* induction over them.  And the gates of RiskGates, which weigh what the  *)
(* file and the manager hold of those trades.                              *)
(***************************************************************************)
EXTENDS TradeLedger, RiskGates, FiniteSetTheorems, SequenceTheorems, WellFoundedInduction, TLAPS

\* The hour's counter is behind no fill of the hour; a turned hour has no fill
\* and no order of its own yet; a signal in hand has room for its fill.
HourInv ==
  /\ hour \in Nat /\ inHour \in Nat
  /\ inHour <= hour /\ hour <= MaxTradesPerHour
  /\ newHour => inHour = 0 /\ ~sentNow
  /\ pc = "order" => phase = "ENTRY_READY"
  /\ phase = "ENTRY_READY" => hour < MaxTradesPerHour

\* The hour has room for an order at all.
LEMMA LimitPositive == MaxTradesPerHour \in Nat /\ 0 < MaxTradesPerHour
<1>1. MaxTradesPerHour \in Nat /\ MaxTradesPerHour # 0
  BY LedgerAssumption
<1> QED
  BY <1>1

\* Not more than MAX_TRADES_PER_HOUR orders of a process are sent within one
\* hour and filled: check_trade_limits, the fill's `trades_this_hour += 1` and
\* the loop's hourly reset hold the cap together.
THEOREM HourlyCapHolds == Spec => []HourlyCap
<1>1. Init => HourInv
  BY LimitPositive DEF Init, HourInv
<1>2. HourInv /\ [Next]_vars => HourInv'
  <2> SUFFICES ASSUME HourInv, [Next]_vars PROVE HourInv'
    OBVIOUS
  <2> USE LimitPositive DEF HourInv, hourVars, dirVars
  <2>1. CASE Launch
    BY <2>1 DEF Launch
  <2>2. CASE Crash
    BY <2>2 DEF Crash
  <2>3. CASE Reconnect
    BY <2>3 DEF Reconnect
  <2>4. CASE Boot
    BY <2>4 DEF Boot, HourAtBoot
  <2>5. CASE NoSignal
    BY <2>5 DEF NoSignal, Pass, FreshHour
  <2>6. ASSUME NEW d \in Dirs, Signal(d) PROVE HourInv'
    BY <2>6 DEF Signal, Pass, FreshHour, LimitsOK
  <2>7. CASE NoEvaluation
    BY <2>7 DEF NoEvaluation, Pass, FreshHour
  <2>8. CASE EntryBlocked
    BY <2>8 DEF EntryBlocked, Pass, FreshHour
  <2>9. CASE SendOrder
    BY <2>9 DEF SendOrder, Pass, FreshHour
  <2>10. CASE OrderFilled
    BY <2>10 DEF OrderFilled
  <2>11. CASE OrderFailed
    BY <2>11 DEF OrderFailed
  <2>12. ASSUME NEW row \in Rows, ExitLogged(row) PROVE HourInv'
    BY <2>12 DEF ExitLogged, Pass, FreshHour
  <2>13. CASE TradeBooked
    BY <2>13 DEF TradeBooked
  <2>14. CASE HourPasses
    BY <2>14 DEF HourPasses
  <2>15. ASSUME NEW d \in Dirs, BlockExpires(d) PROVE HourInv'
    BY <2>15 DEF BlockExpires
  <2>16. CASE UNCHANGED vars
    BY <2>16 DEF vars
  <2> QED
    BY <2>1, <2>2, <2>3, <2>4, <2>5, <2>6, <2>7, <2>8, <2>9, <2>10, <2>11,
       <2>12, <2>13, <2>14, <2>15, <2>16 DEF Next, Evaluates
<1>3. HourInv => HourlyCap
  BY LimitPositive DEF HourInv, HourlyCap
<1> QED
  BY <1>1, <1>2, <1>3, PTL DEF Spec

\* The runs, the blocks and the histories are indexed by direction.
DirTypes ==
  /\ rows \in Seq(Rows) /\ dir \in Dirs
  /\ run \in [Dirs -> Nat] /\ lossRun \in [Dirs -> Nat]
  /\ until \in [Dirs -> {"none", "running", "over"}]
  /\ served \in [Dirs -> BOOLEAN]

\* A direction lost since its last win has a run of one at least; lost twice, its
\* run is at the limit and its block running, until that runs out.  A signal in
\* hand passed the block of its direction.
BlockInv ==
  /\ \A d \in Dirs :
       /\ lossRun[d] >= 1 => run[d] >= 1
       /\ lossRun[d] >= BlockAfter /\ ~served[d] => Blocked(d)
  /\ pc = "order" => phase = "ENTRY_READY"
  /\ phase = "ENTRY_READY" => lossRun[dir] < BlockAfter \/ served[dir]

\* What restore_from_trades counts for a direction is a number.
LEMMA RestoredRunType ==
  ASSUME rows \in Seq(Rows), NEW d \in Dirs
  PROVE  RestoredRun(d) \in Nat
<1> DEFINE S == {i \in DOMAIN rows : DirectionRead(rows[i]) = d /\ i > LastWinRead(d)}
<1>1. IsFiniteSet(1..Len(rows))
  BY FS_Interval
<1>2. S \in SUBSET (1..Len(rows))
  OBVIOUS
<1>3. IsFiniteSet(S)
  BY <1>1, <1>2, FS_Subset
<1> QED
  BY <1>3, FS_CardinalityType DEF RestoredRun

\* Every step keeps the types by direction.
LEMMA DirTypesStep ==
  ASSUME DirTypes, [Next]_vars
  PROVE  DirTypes'
<1> USE DEF DirTypes
<1>1. CASE Crash
  BY <1>1, Zenon DEF Crash, Zero, Dirs
<1>2. CASE Boot
  <2>1. \A d \in Dirs : RestoredRun(d) \in Nat
    BY RestoredRunType
  <2> QED
    BY <1>2, <2>1 DEF Boot, Zero
<1>3. ASSUME NEW d \in Dirs, Signal(d) PROVE DirTypes'
  BY <1>3 DEF Signal, CheckBlocks, RunAfterBlock
<1>4. CASE NoSignal
  BY <1>4 DEF NoSignal, CheckBlocks, RunAfterBlock
<1>5. ASSUME NEW row \in Rows, ExitLogged(row) PROVE DirTypes'
  BY <1>5 DEF ExitLogged, dirVars
<1>6. CASE TradeBooked
  BY <1>6 DEF TradeBooked
<1>7. ASSUME NEW d \in Dirs, BlockExpires(d) PROVE DirTypes'
  BY <1>7 DEF BlockExpires
<1>8. CASE \/ Launch \/ Reconnect \/ NoEvaluation \/ EntryBlocked \/ SendOrder
           \/ OrderFilled \/ OrderFailed \/ HourPasses \/ UNCHANGED vars
  BY <1>8 DEF Launch, Reconnect, NoEvaluation, EntryBlocked, SendOrder,
     OrderFilled, OrderFailed, HourPasses, dirVars, vars
<1> QED
  BY <1>1, <1>2, <1>3, <1>4, <1>5, <1>6, <1>7, <1>8 DEF Next, Evaluates

\* Every step keeps the relation of runs, blocks and losses.
LEMMA BlockInvStep ==
  ASSUME DirTypes, BlockInv, [Next]_vars
  PROVE  BlockInv'
<1> USE DEF DirTypes, BlockInv, Blocked, BlockAfter
<1>1. CASE Crash
  BY <1>1 DEF Crash, Zero
<1>2. CASE Boot
  BY <1>2 DEF Boot, Zero
<1>3. ASSUME NEW d \in Dirs, Signal(d) PROVE BlockInv'
  BY <1>3 DEF Signal, Pass, CheckBlocks, RunAfterBlock, Expired
<1>4. CASE NoSignal
  BY <1>4 DEF NoSignal, Pass, CheckBlocks, RunAfterBlock, Expired
<1>5. CASE TradeBooked
  BY <1>5 DEF TradeBooked
<1>6. ASSUME NEW d \in Dirs, BlockExpires(d) PROVE BlockInv'
  BY <1>6 DEF BlockExpires
<1>7. ASSUME NEW row \in Rows, ExitLogged(row) PROVE BlockInv'
  BY <1>7 DEF ExitLogged, Pass, dirVars
<1>8. CASE \/ Launch \/ Reconnect \/ NoEvaluation \/ EntryBlocked \/ SendOrder
           \/ OrderFilled \/ OrderFailed \/ HourPasses \/ UNCHANGED vars
  BY <1>8 DEF Launch, Reconnect, NoEvaluation, EntryBlocked, SendOrder, Pass,
     OrderFilled, OrderFailed, HourPasses, dirVars, vars
<1> QED
  BY <1>1, <1>2, <1>3, <1>4, <1>5, <1>6, <1>7, <1>8 DEF Next, Evaluates

\* is_direction_blocked and update_pnl hold the block: after two losses of a
\* direction in one main(), no order in it goes out before a block has run out
\* since the last of them, whatever the other direction trades.
THEOREM BlocksHoldAlways == Spec => []BlocksHold
<1>1. Init => DirTypes /\ BlockInv
  BY DEF Init, DirTypes, BlockInv, Zero, Dirs, BlockAfter
<1>2. DirTypes /\ BlockInv /\ [Next]_vars => (DirTypes /\ BlockInv)'
  BY DirTypesStep, BlockInvStep
<1>3. DirTypes /\ BlockInv => BlocksHold
  BY DEF DirTypes, BlockInv, BlocksHold, BlockAfter
<1> QED
  BY <1>1, <1>2, <1>3, PTL DEF Spec

\* The limits a run of trades meets within the day hold together.
THEOREM DayLimitsAlways == Spec => []DayLimitsHold
  BY HourlyCapHolds, BlocksHoldAlways, PTL DEF DayLimitsHold

-----------------------------------------------------------------------------
(* Sums and folds over finite sets, by a least set on which they would fail. *)

\* A set of natural numbers has a least one.
LEMMA LeastOf ==
  ASSUME NEW T \in SUBSET Nat, T # {}
  PROVE  \E m \in T : \A y \in T : m <= y
<1> DEFINE R == {p \in Nat \X Nat : p[1] < p[2]}
<1>1. PICK m \in T : \A y \in T : ~(<<y, m>> \in R)
  <2>1. IsWellFoundedOn(R, Nat)
    BY NatLessThanWellFounded DEF OpToRel
  <2> HIDE DEF R
  <2> QED BY <2>1, WFMin
<1>2. ASSUME NEW y \in T PROVE m <= y
  <2>1. y \in Nat /\ m \in Nat
    OBVIOUS
  <2>2. y < m => <<y, m>> \in R
    BY <2>1
  <2> QED BY <1>1, <2>1, <2>2
<1> QED BY <1>1, <1>2

\* The subsets of a finite set lose one element at a time.
LEMMA OneLess ==
  ASSUME NEW S, IsFiniteSet(S), NEW s \in SUBSET S, NEW x \in s
  PROVE  /\ IsFiniteSet(s) /\ s \ {x} \in SUBSET S /\ Cardinality(s) \in Nat \ {0}
         /\ Cardinality(s \ {x}) = Cardinality(s) - 1
<1>1. IsFiniteSet(s)
  BY FS_Subset
<1>2. Cardinality(s) \in Nat /\ Cardinality(s) # 0
  BY <1>1, FS_CardinalityType, FS_EmptySet
<1> QED BY <1>1, <1>2, FS_RemoveElement

\* A property of the subsets of a finite set that fails fails for a least one.
LEMMA LeastSubset ==
  ASSUME NEW S, IsFiniteSet(S), NEW Bad \in SUBSET SUBSET S, Bad # {}
  PROVE  \E s \in Bad : \A u \in SUBSET S : Cardinality(u) < Cardinality(s) => u \notin Bad
<1> DEFINE T == {Cardinality(s) : s \in Bad}
<1>1. T \in SUBSET Nat /\ T # {}
  <2>1. \A s \in Bad : Cardinality(s) \in Nat
    BY FS_Subset, FS_CardinalityType
  <2> QED BY <2>1
<1>2. PICK m \in T : \A y \in T : m <= y
  <2> HIDE DEF T
  <2> QED BY <1>1, LeastOf
<1>3. PICK s \in Bad : m = Cardinality(s)
  BY <1>2
<1>4. ASSUME NEW u \in Bad, Cardinality(u) < Cardinality(s) PROVE FALSE
  <2>1. Cardinality(u) \in T /\ Cardinality(u) \in Nat /\ m \in Nat
    BY <1>1
  <2> QED BY <2>1, <1>2, <1>3, <1>4
<1> QED BY <1>3, <1>4

\* What a fold's recursion asks of it, and of the order it takes its elements in.
Follows(f, S, base, c, G) ==
  \A s \in SUBSET S : f[s] = IF s = {} THEN base ELSE G[<<c[s], f[s \ {c[s]}]>>]

TakesFrom(c, S) == \A s \in SUBSET S : s # {} => c[s] \in s

\* A fold is a function that exists: its recursion takes one element away.
LEMMA FoldExists ==
  ASSUME NEW S, IsFiniteSet(S), NEW V, NEW base \in V,
         NEW c, TakesFrom(c, S), NEW G \in [S \X V -> V]
  PROVE  \E f \in [SUBSET S -> V] : Follows(f, S, base, c, G)
<1> USE DEF TakesFrom, Follows
<1> DEFINE Eq(f, s) == f[s] = IF s = {} THEN base ELSE G[<<c[s], f[s \ {c[s]}]>>]
           P(n) == \E f \in [SUBSET S -> V] : \A s \in SUBSET S : Cardinality(s) <= n => Eq(f, s)
           Bad == {n \in Nat : ~P(n)}
<1>1. \A s \in SUBSET S : IsFiniteSet(s) /\ Cardinality(s) \in Nat /\ Cardinality(s) <= Cardinality(S)
  BY FS_Subset, FS_CardinalityType
<1>2. ASSUME NEW m \in Bad, \A y \in Bad : m <= y PROVE FALSE
  <2>1. CASE m = 0
    <3>1. \A s \in SUBSET S : Cardinality(s) <= 0 => s = {}
      BY <1>1, FS_EmptySet
    <3> DEFINE f == [s \in SUBSET S |-> base]
    <3>2. f \in [SUBSET S -> V]
      OBVIOUS
    <3>3. \A s \in SUBSET S : Cardinality(s) <= 0 => Eq(f, s)
      BY <3>1
    <3> HIDE DEF f, Eq
    <3>4. P(0)
      BY <3>2, <3>3
    <3> QED BY <3>4, <2>1, <1>2
  <2>2. CASE m # 0
    <3>1. m - 1 \in Nat /\ m \in Nat /\ ~(m <= m - 1)
      BY <2>2
    <3>2. P(m - 1)
      BY <3>1, <1>2
    <3>3. PICK f \in [SUBSET S -> V] : \A s \in SUBSET S : Cardinality(s) <= m - 1 => Eq(f, s)
      BY <3>2
    <3> DEFINE g == [s \in SUBSET S |-> IF s = {} THEN base ELSE G[<<c[s], f[s \ {c[s]}]>>]]
    <3>4. g \in [SUBSET S -> V]
      <4>1. ASSUME NEW s \in SUBSET S, s # {} PROVE G[<<c[s], f[s \ {c[s]}]>>] \in V
        <5>1. c[s] \in S /\ f[s \ {c[s]}] \in V
          BY <4>1
        <5> QED BY <5>1
      <4> QED BY <4>1
    <3>5. ASSUME NEW s \in SUBSET S, Cardinality(s) <= m PROVE Eq(g, s)
      <4>1. CASE s = {}
        BY <4>1
      <4>2. CASE s # {}
        <5> DEFINE u == s \ {c[s]}
        <5>1. c[s] \in s
          BY <4>2
        <5>2. u \in SUBSET S /\ Cardinality(u) <= m - 1
          BY <5>1, <3>1, <3>5, <1>1, OneLess
        <5>3. f[u] = IF u = {} THEN base ELSE G[<<c[u], f[u \ {c[u]}]>>]
          BY <5>2, <3>3
        <5>4. g[u] = f[u]
          BY <5>2, <5>3
        <5>5. g[s] = G[<<c[s], f[u]>>]
          BY <4>2
        <5> QED BY <4>2, <5>4, <5>5
      <4> QED BY <4>1, <4>2
    <3> HIDE DEF g, Eq
    <3>6. P(m)
      BY <3>4, <3>5
    <3> QED BY <3>6, <1>2
  <2> QED BY <2>1, <2>2
<1>3. Bad = {}
  <2>1. Bad \in SUBSET Nat
    OBVIOUS
  <2> HIDE DEF Bad
  <2> QED BY <2>1, <1>2, LeastOf
<1>4. P(Cardinality(S))
  <2>1. Cardinality(S) \in Nat
    BY FS_CardinalityType
  <2> HIDE DEF P
  <2> QED BY <2>1, <1>3
<1> QED BY <1>1, <1>4

\* The one an unordered fold takes next.
Picked(s) == CHOOSE x \in s : TRUE

\* A sum's recursion, as the fold of a set of indices has it.
Sums(F, w, S) ==
  \A s \in SUBSET S : F[s] = IF s = {} THEN 0 ELSE w[Picked(s)] + F[s \ {Picked(s)}]

SumOf(w, S) == MapThenSumSet(LAMBDA x : w[x], S)

LEMMA SumExists ==
  ASSUME NEW S, IsFiniteSet(S), NEW w \in [S -> Int]
  PROVE  \E F \in [SUBSET S -> Int] : Sums(F, w, S)
<1> DEFINE c == [s \in SUBSET S |-> Picked(s)]
           G == [p \in S \X Int |-> w[p[1]] + p[2]]
<1>1. \A s \in SUBSET S : s # {} => c[s] \in s
  BY DEF Picked
<1>2. G \in [S \X Int -> Int]
  OBVIOUS
<1>3. \A s \in SUBSET S : c[s] = Picked(s)
  OBVIOUS
<1>4. \A x \in S, v \in Int : G[<<x, v>>] = w[x] + v
  OBVIOUS
<1> HIDE DEF c, G
<1>5. PICK F \in [SUBSET S -> Int] : Follows(F, S, 0, c, G)
  <2>1. 0 \in Int
    OBVIOUS
  <2>2. TakesFrom(c, S)
    BY <1>1 DEF TakesFrom
  <2> QED BY <1>2, <2>1, <2>2, FoldExists
<1>6. ASSUME NEW s \in SUBSET S, s # {}
      PROVE  F[s] = w[Picked(s)] + F[s \ {Picked(s)}]
  <2>1. c[s] \in S /\ F[s \ {c[s]}] \in Int
    BY <1>1, <1>6
  <2> QED BY <2>1, <1>3, <1>4, <1>5, <1>6 DEF Follows
<1>7. F[{}] = 0
  BY <1>5 DEF Follows
<1>8. Sums(F, w, S)
  BY <1>6, <1>7 DEF Sums
<1> QED BY <1>8

\* Two sums of the same amounts agree.
LEMMA SumUnique ==
  ASSUME NEW S, IsFiniteSet(S), NEW w, NEW v, NEW F, NEW H,
         Sums(F, w, S), Sums(H, v, S), \A x \in S : w[x] = v[x]
  PROVE  \A s \in SUBSET S : F[s] = H[s]
<1> DEFINE Bad == {s \in SUBSET S : F[s] # H[s]}
<1>1. ASSUME NEW s \in Bad, \A u \in SUBSET S : Cardinality(u) < Cardinality(s) => u \notin Bad
      PROVE  FALSE
  <2>1. s # {}
    BY DEF Sums
  <2>2. Picked(s) \in s
    BY <2>1 DEF Picked
  <2>3. /\ s \ {Picked(s)} \in SUBSET S
        /\ Cardinality(s \ {Picked(s)}) < Cardinality(s)
    BY <2>2, OneLess
  <2>4. F[s \ {Picked(s)}] = H[s \ {Picked(s)}]
    BY <2>3, <1>1
  <2> QED BY <2>1, <2>2, <2>4 DEF Sums
<1>2. Bad \in SUBSET SUBSET S
  OBVIOUS
<1>3. Bad = {}
  <2> HIDE DEF Bad
  <2> QED BY <1>1, <1>2, LeastSubset
<1> QED BY <1>3

\* The sum over a set of indices, by the fold that computes it.
LEMMA SumChosen ==
  ASSUME NEW T, IsFiniteSet(T), NEW w, \A x \in T : w[x] \in Int
  PROVE  \E F \in [SUBSET T -> Int] : Sums(F, w, T) /\ SumOf(w, T) = F[T]
<1> DEFINE v == [x \in T |-> w[x]]
<1>1. v \in [T -> Int] /\ \A x \in T : v[x] = w[x]
  OBVIOUS
<1> HIDE DEF v
<1>2. PICK F \in [SUBSET T -> Int] : Sums(F, v, T)
  BY <1>1, SumExists
<1> DEFINE A(f) == [s \in SUBSET T |->
                      IF s = {} THEN 0 ELSE w[CHOOSE x \in s : TRUE] + f[s \ {CHOOSE x \in s : TRUE}]]
           it == CHOOSE f : f = A(f)
<1>3. SumOf(w, T) = it[T]
  BY DEF SumOf, MapThenSumSet, MapThenFoldSet
<1>4. F = A(F)
  BY <1>1, <1>2 DEF Sums, Picked
<1>5. it = A(it)
  <2> HIDE DEF A
  <2> QED BY <1>4
<1> HIDE DEF it
<1>6. Sums(it, w, T)
  BY <1>5 DEF Sums, Picked
<1>7. Sums(F, w, T)
  BY <1>4 DEF Sums, Picked
<1>8. it[T] = F[T]
  BY <1>6, <1>7, SumUnique
<1> QED BY <1>3, <1>7, <1>8

\* A part of a sum is a sum.
LEMMA SumPart ==
  ASSUME NEW S, IsFiniteSet(S), NEW w \in [S -> Int], NEW F, Sums(F, w, S), NEW T \in SUBSET S
  PROVE  F[T] = SumOf(w, T)
<1>1. IsFiniteSet(T) /\ \A x \in T : w[x] \in Int
  BY FS_Subset
<1>2. PICK H \in [SUBSET T -> Int] : Sums(H, w, T) /\ SumOf(w, T) = H[T]
  BY <1>1, SumChosen
<1>3. Sums(F, w, T)
  <2>1. \A s \in SUBSET T : s \in SUBSET S
    OBVIOUS
  <2> QED BY <2>1 DEF Sums
<1> QED BY <1>1, <1>2, <1>3, SumUnique

\* Equal amounts have equal sums.
LEMMA SumAgree ==
  ASSUME NEW T, IsFiniteSet(T), NEW w, NEW v, \A x \in T : w[x] \in Int /\ v[x] = w[x]
  PROVE  SumOf(w, T) = SumOf(v, T)
<1>1. PICK F \in [SUBSET T -> Int] : Sums(F, w, T) /\ SumOf(w, T) = F[T]
  BY SumChosen
<1>2. PICK H \in [SUBSET T -> Int] : Sums(H, v, T) /\ SumOf(v, T) = H[T]
  BY SumChosen
<1> QED BY <1>1, <1>2, SumUnique

\* A sum loses what it loses, in any order.
AnyOrder(F, w, S) == \A s \in SUBSET S : \A y \in s : F[s] = w[y] + F[s \ {y}]

LEMMA SumAnyOrder ==
  ASSUME NEW S, IsFiniteSet(S), NEW w \in [S -> Int], NEW F \in [SUBSET S -> Int], Sums(F, w, S)
  PROVE  AnyOrder(F, w, S)
<1> DEFINE Bad == {s \in SUBSET S : \E y \in s : F[s] # w[y] + F[s \ {y}]}
<1>1. ASSUME NEW s \in Bad, \A u \in SUBSET S : Cardinality(u) < Cardinality(s) => u \notin Bad
      PROVE  FALSE
  <2>1. PICK y \in s : F[s] # w[y] + F[s \ {y}]
    OBVIOUS
  <2> DEFINE x == Picked(s)
  <2>2. x \in s /\ F[s] = w[x] + F[s \ {x}]
    BY <2>1 DEF Picked, Sums
  <2>3. x # y
    BY <2>1, <2>2
  <2>4. s \in SUBSET S /\ x \in S /\ y \in S
    BY <2>1, <2>2
  <2> HIDE DEF x, Bad
  <2>5. /\ s \ {x} \in SUBSET S /\ s \ {x} \notin Bad
        /\ s \ {y} \in SUBSET S /\ s \ {y} \notin Bad
    BY <2>1, <2>2, <2>4, <1>1, OneLess
  <2>6. F[s \ {x}] = w[y] + F[(s \ {x}) \ {y}]
    BY <2>1, <2>2, <2>3, <2>5 DEF Bad
  <2>7. F[s \ {y}] = w[x] + F[(s \ {y}) \ {x}]
    BY <2>1, <2>2, <2>3, <2>5 DEF Bad
  <2>8. (s \ {x}) \ {y} = (s \ {y}) \ {x} /\ (s \ {x}) \ {y} \in SUBSET S
    BY <2>4
  <2>9. w[x] \in Int /\ w[y] \in Int /\ F[(s \ {x}) \ {y}] \in Int
    BY <2>4, <2>8
  <2> DEFINE z == F[(s \ {x}) \ {y}]
  <2>10. F[s \ {x}] = w[y] + z /\ F[s \ {y}] = w[x] + z
    BY <2>6, <2>7, <2>8
  <2> HIDE DEF z
  <2>11. w[x] \in Int /\ w[y] \in Int /\ z \in Int
    BY <2>9 DEF z
  <2>12. w[x] + (w[y] + z) = w[y] + (w[x] + z)
    BY <2>11
  <2> QED BY <2>1, <2>2, <2>10, <2>12
<1>2. Bad \in SUBSET SUBSET S
  OBVIOUS
<1>3. Bad = {}
  <2> HIDE DEF Bad
  <2> QED BY <1>1, <1>2, LeastSubset
<1> QED BY <1>3 DEF AnyOrder

\* A sum is a number, and loses what is taken from it.
LEMMA SumTakes ==
  ASSUME NEW S, IsFiniteSet(S), NEW w, \A x \in S : w[x] \in Int, NEW y \in S
  PROVE  /\ SumOf(w, S) = w[y] + SumOf(w, S \ {y})
         /\ SumOf(w, S) \in Int /\ SumOf(w, S \ {y}) \in Int
<1> DEFINE v == [x \in S |-> w[x]]
           T == S \ {y}
<1>1. v \in [S -> Int] /\ \A x \in S : v[x] = w[x]
  OBVIOUS
<1>2. T \in SUBSET S /\ S \in SUBSET S /\ IsFiniteSet(T)
  BY FS_Subset
<1> HIDE DEF v
<1>3. PICK F \in [SUBSET S -> Int] : Sums(F, v, S) /\ SumOf(v, S) = F[S]
  BY <1>1, SumChosen
<1>4. AnyOrder(F, v, S)
  BY <1>1, <1>3, SumAnyOrder
<1>5. F[S] = v[y] + F[T]
  BY <1>4 DEF AnyOrder
<1>6. F[T] = SumOf(v, T)
  BY <1>1, <1>2, <1>3, SumPart
<1>7. SumOf(w, S) = SumOf(v, S)
  BY <1>1, SumAgree
<1>8. SumOf(w, T) = SumOf(v, T)
  <2>1. \A x \in T : w[x] \in Int /\ v[x] = w[x]
    BY <1>1, <1>2
  <2> HIDE DEF T
  <2> QED BY <2>1, <1>2, SumAgree
<1>9. F[S] \in Int /\ F[T] \in Int
  BY <1>2
<1> QED BY <1>1, <1>3, <1>5, <1>6, <1>7, <1>8, <1>9

-----------------------------------------------------------------------------
(* The account of the first k of a day's rows.                              *)
PnlOf(rs)    == [i \in 1..Len(rs) |-> rs[i].pnl]
WinsTo(rs, k)   == {i \in 1..k : rs[i].pnl > 0}
LossesTo(rs, k) == {i \in 1..k : rs[i].pnl < 0}

UpTo(rs, k) ==
  [pnl    |-> SumOf(PnlOf(rs), 1..k),
   trades |-> k,
   wins   |-> Cardinality(WinsTo(rs, k)),
   losses |-> Cardinality(LossesTo(rs, k)),
   streak |-> k - Max({0} \cup WinsTo(rs, k))]

Accounts == [pnl : Int, trades : Nat, wins : Nat, losses : Nat, streak : Nat]

\* None of the rows closed at exactly zero.
NoneZero(rs) == \A i \in 1..Len(rs) : rs[i].pnl # 0

\* The last of the first k.
LEMMA TopOf ==
  ASSUME NEW k \in Nat \ {0}
  PROVE  Max(1..k) = k /\ (1..k) \ {k} = 1..(k - 1) /\ 1..k # {} /\ k \in 1..k
<1>1. k \in 1..k /\ \A y \in 1..k : k >= y
  OBVIOUS
<1>2. Max(1..k) = CHOOSE x \in 1..k : \A y \in 1..k : x >= y
  BY DEF Max
<1>3. \A x \in 1..k : (\A y \in 1..k : x >= y) => x = k
  BY <1>1
<1> QED BY <1>1, <1>2, <1>3

\* The greatest of 0 and a part of 1..k.
LEMMA MaxUpTo ==
  ASSUME NEW k \in Nat, NEW W \in SUBSET (1..k)
  PROVE  /\ Max({0} \cup W) \in 0..k /\ Max({0} \cup W) \in {0} \cup W
         /\ \A y \in W : y <= Max({0} \cup W)
<1> DEFINE U == {0} \cup W
<1>1. U \in SUBSET Int /\ \E x \in U : x <= k
  OBVIOUS
<1>2. PICK x \in U : x <= k /\ \A y \in U : y <= k => y <= x
  <2> DEFINE T == {k - x : x \in U}
  <2>1. T \in SUBSET Nat /\ T # {}
    OBVIOUS
  <2>2. PICK m \in T : \A y \in T : m <= y
    <3> HIDE DEF T
    <3> QED BY <2>1, LeastOf
  <2>3. PICK x \in U : m = k - x
    BY <2>2
  <2>4. ASSUME NEW y \in U PROVE y <= x
    <3>1. k - y \in T
      OBVIOUS
    <3>2. m <= k - y
      BY <3>1, <2>2
    <3>3. x \in Int /\ y \in Int
      BY <1>1
    <3> HIDE DEF T, U
    <3> QED BY <3>2, <3>3, <2>3
  <2>5. x <= k
    OBVIOUS
  <2> QED BY <2>4, <2>5
<1>3. \A y \in U : x >= y
  BY <1>2
<1>4. Max(U) \in U /\ \A y \in U : Max(U) >= y
  BY <1>2, <1>3 DEF Max
<1>5. \A y \in U : y \in 0..k /\ (\A z \in Int : z >= y => y <= z)
  OBVIOUS
<1> HIDE DEF U
<1>6. Max(U) \in 0..k /\ \A y \in U : y <= Max(U)
  BY <1>4, <1>5
<1> QED BY <1>4, <1>6 DEF U

\* The greatest is only one.
LEMMA MaxIsTop ==
  ASSUME NEW k \in Nat, NEW W \in SUBSET (1..k), k \in W
  PROVE  Max({0} \cup W) = k
  BY MaxUpTo


\* What the k-th row adds to the sum and the counts.
LEMMA UpToParts ==
  ASSUME NEW rs \in Seq(Rows), NEW k \in 1..Len(rs), \A r \in Rows : r.pnl \in Int
  PROVE  /\ SumOf(PnlOf(rs), 1..k) = rs[k].pnl + SumOf(PnlOf(rs), 1..(k - 1))
         /\ SumOf(PnlOf(rs), 1..(k - 1)) \in Int
         /\ Cardinality(WinsTo(rs, k - 1)) \in Nat /\ Cardinality(LossesTo(rs, k - 1)) \in Nat
         /\ Cardinality(WinsTo(rs, k)) =
              IF rs[k].pnl > 0 THEN Cardinality(WinsTo(rs, k - 1)) + 1 ELSE Cardinality(WinsTo(rs, k - 1))
         /\ Cardinality(LossesTo(rs, k)) =
              IF rs[k].pnl < 0 THEN Cardinality(LossesTo(rs, k - 1)) + 1
              ELSE Cardinality(LossesTo(rs, k - 1))
         /\ Max({0} \cup WinsTo(rs, k)) =
              IF rs[k].pnl > 0 THEN k ELSE Max({0} \cup WinsTo(rs, k - 1))
         /\ Max({0} \cup WinsTo(rs, k - 1)) \in 0..(k - 1)
<1> DEFINE n == Len(rs)
           w == PnlOf(rs)
<1>1. n \in Nat /\ k \in Nat \ {0} /\ k - 1 \in Nat /\ k <= n
  OBVIOUS
<1>2. w \in [1..n -> Int] /\ w[k] = rs[k].pnl
  BY DEF PnlOf
<1>3. IsFiniteSet(1..n) /\ IsFiniteSet(1..(k - 1))
  BY <1>1, FS_Interval
<1>4. 1..k \in SUBSET (1..n) /\ 1..(k - 1) \in SUBSET (1..n) /\ k \in 1..k /\ (1..k) \ {k} = 1..(k - 1)
  BY <1>1
<1> HIDE DEF n, w
<1>5. IsFiniteSet(1..k) /\ \A x \in 1..k : w[x] \in Int
  <2>1. IsFiniteSet(1..k)
    BY <1>1, FS_Interval
  <2>2. \A x \in 1..k : w[x] \in Int
    BY <1>2, <1>4
  <2> QED BY <2>1, <2>2
<1>6. SumOf(w, 1..k) = rs[k].pnl + SumOf(w, 1..(k - 1)) /\ SumOf(w, 1..(k - 1)) \in Int
  <2> DEFINE D == 1..k
  <2>1. IsFiniteSet(D) /\ (\A x \in D : w[x] \in Int) /\ k \in D /\ D \ {k} = 1..(k - 1)
    BY <1>4, <1>5
  <2> HIDE DEF D
  <2>2. SumOf(w, D) = w[k] + SumOf(w, D \ {k}) /\ SumOf(w, D \ {k}) \in Int
    BY <2>1, SumTakes
  <2> QED BY <2>1, <2>2, <1>2 DEF D
<1>7. \A i \in 1..k : i \in 1..(k - 1) \/ i = k
  BY <1>4
<1>8. rs[k].pnl \in Int /\ k \notin 1..(k - 1)
  BY <1>1
<1>9. /\ WinsTo(rs, k) = IF rs[k].pnl > 0 THEN WinsTo(rs, k - 1) \cup {k} ELSE WinsTo(rs, k - 1)
      /\ WinsTo(rs, k - 1) \in SUBSET (1..(k - 1)) /\ k \notin WinsTo(rs, k - 1)
  BY <1>4, <1>7, <1>8 DEF WinsTo
<1>10. /\ LossesTo(rs, k) = IF rs[k].pnl < 0 THEN LossesTo(rs, k - 1) \cup {k} ELSE LossesTo(rs, k - 1)
       /\ LossesTo(rs, k - 1) \in SUBSET (1..(k - 1)) /\ k \notin LossesTo(rs, k - 1)
  BY <1>4, <1>7, <1>8 DEF LossesTo
<1>11. IsFiniteSet(WinsTo(rs, k - 1)) /\ IsFiniteSet(LossesTo(rs, k - 1))
  BY <1>3, <1>9, <1>10, FS_Subset
<1>12. /\ Cardinality(WinsTo(rs, k - 1)) \in Nat /\ Cardinality(LossesTo(rs, k - 1)) \in Nat
       /\ Cardinality(WinsTo(rs, k - 1) \cup {k}) = Cardinality(WinsTo(rs, k - 1)) + 1
       /\ Cardinality(LossesTo(rs, k - 1) \cup {k}) = Cardinality(LossesTo(rs, k - 1)) + 1
  BY <1>9, <1>10, <1>11, FS_CardinalityType, FS_AddElement
<1>13. Max({0} \cup WinsTo(rs, k - 1)) \in 0..(k - 1)
  BY <1>1, <1>9, MaxUpTo
<1>14. rs[k].pnl > 0 => Max({0} \cup WinsTo(rs, k)) = k
  <2>1. WinsTo(rs, k) \in SUBSET (1..k)
    BY DEF WinsTo
  <2>2. rs[k].pnl > 0 => k \in WinsTo(rs, k)
    BY <1>9
  <2> QED BY <1>1, <2>1, <2>2, MaxIsTop
<1>15. ~(rs[k].pnl > 0) => Max({0} \cup WinsTo(rs, k)) = Max({0} \cup WinsTo(rs, k - 1))
  BY <1>9
<1>16. /\ Cardinality(WinsTo(rs, k)) =
           IF rs[k].pnl > 0 THEN Cardinality(WinsTo(rs, k - 1)) + 1 ELSE Cardinality(WinsTo(rs, k - 1))
       /\ Cardinality(LossesTo(rs, k)) =
           IF rs[k].pnl < 0 THEN Cardinality(LossesTo(rs, k - 1)) + 1
           ELSE Cardinality(LossesTo(rs, k - 1))
  BY <1>9, <1>10, <1>12
<1> QED
  BY <1>6, <1>12, <1>13, <1>14, <1>15, <1>16 DEF w

\* Live and on restart, a trade that did not end at zero is booked the same.
LEMMA UpToStep ==
  ASSUME NEW rs \in Seq(Rows), NEW k \in 1..Len(rs), rs[k].pnl # 0,
         \A r \in Rows : r.pnl \in Int
  PROVE  /\ UpTo(rs, k) = Booked(UpTo(rs, k - 1), rs[k].pnl)
         /\ UpTo(rs, k) = RestoreRow(UpTo(rs, k - 1), rs[k])
<1> DEFINE p == rs[k].pnl
           s == SumOf(PnlOf(rs), 1..(k - 1))
           a == Cardinality(WinsTo(rs, k - 1))
           b == Cardinality(LossesTo(rs, k - 1))
           m == Max({0} \cup WinsTo(rs, k - 1))
<1>1. /\ p \in Int /\ p # 0 /\ k \in Nat /\ k - 1 \in Nat /\ Read(rs[k]) = p
  BY DEF Read
<1>2. /\ s \in Int /\ a \in Nat /\ b \in Nat /\ m \in 0..(k - 1)
      /\ SumOf(PnlOf(rs), 1..k) = p + s
      /\ Cardinality(WinsTo(rs, k)) = IF p > 0 THEN a + 1 ELSE a
      /\ Cardinality(LossesTo(rs, k)) = IF p < 0 THEN b + 1 ELSE b
      /\ Max({0} \cup WinsTo(rs, k)) = IF p > 0 THEN k ELSE m
  BY UpToParts
<1>3. UpTo(rs, k - 1) = [pnl |-> s, trades |-> k - 1, wins |-> a, losses |-> b, streak |-> (k - 1) - m]
  BY DEF UpTo
<1>4. UpTo(rs, k) = [pnl |-> p + s, trades |-> k, wins |-> IF p > 0 THEN a + 1 ELSE a,
                     losses |-> IF p < 0 THEN b + 1 ELSE b, streak |-> k - (IF p > 0 THEN k ELSE m)]
  BY <1>2 DEF UpTo
<1>5. Booked(UpTo(rs, k - 1), p) =
        [pnl |-> s + p, trades |-> (k - 1) + 1, wins |-> IF p < 0 THEN a ELSE a + 1,
         losses |-> IF p < 0 THEN b + 1 ELSE b, streak |-> IF p < 0 THEN ((k - 1) - m) + 1 ELSE 0]
  BY <1>3 DEF Booked
<1>6. RestoreRow(UpTo(rs, k - 1), rs[k]) =
        [pnl |-> s + p, trades |-> (k - 1) + 1, wins |-> IF p > 0 THEN a + 1 ELSE a,
         losses |-> IF p > 0 THEN b ELSE b + 1, streak |-> IF p > 0 THEN 0 ELSE ((k - 1) - m) + 1]
  BY <1>1, <1>3 DEF RestoreRow, RestoredStreak, Won
<1> HIDE DEF p, s, a, b, m
<1>7. /\ p + s = s + p /\ (k - 1) + 1 = k /\ (p > 0 <=> ~(p < 0))
      /\ m \in Nat /\ k - m = ((k - 1) - m) + 1 /\ k - k = 0
  BY <1>1, <1>2
<1> QED
  BY <1>4, <1>5, <1>6, <1>7 DEF p

LEMMA UpToNone ==
  ASSUME NEW rs PROVE UpTo(rs, 0) = Empty
<1>1. 1..0 = {} /\ WinsTo(rs, 0) = {} /\ LossesTo(rs, 0) = {}
  BY DEF WinsTo, LossesTo
<1>2. SumOf(PnlOf(rs), {}) = 0
  <2>1. IsFiniteSet({})
    BY FS_EmptySet
  <2>2. PICK F \in [SUBSET {} -> Int] : Sums(F, PnlOf(rs), {}) /\ SumOf(PnlOf(rs), {}) = F[{}]
    BY <2>1, SumChosen
  <2> QED BY <2>2 DEF Sums
<1>3. Max({0} \cup {}) = 0
  <2>1. 0 \in Nat /\ {} \in SUBSET (1..0)
    OBVIOUS
  <2>2. Max({0} \cup {}) \in {0} \cup {}
    BY <2>1, MaxUpTo
  <2> QED BY <2>2
<1>4. Cardinality({}) = 0
  BY FS_EmptySet
<1> QED
  BY <1>1, <1>2, <1>3, <1>4 DEF UpTo, Empty

\* A row's account is an account.
LEMMA RestoreRowType ==
  ASSUME NEW acc \in Accounts, NEW row \in Rows, Read(row) \in Int
  PROVE  RestoreRow(acc, row) \in Accounts
  BY DEF Accounts, RestoreRow, RestoredStreak

LEMMA EmptyType == Empty \in Accounts
  BY DEF Empty, Accounts

\* restore_from_trades, row by row, makes the account of the rows.
LEMMA RestoredIs ==
  ASSUME NEW rs \in Seq(Rows), NoneZero(rs), \A r \in Rows : r.pnl \in Int
  PROVE  FoldLeft(RestoreRow, Empty, rs) = UpTo(rs, Len(rs))
<1> DEFINE n == Len(rs)
           D == 1..n
           A(f) == [s \in SUBSET D |->
                      IF s = {} THEN Empty ELSE RestoreRow(f[s \ {Max(s)}], rs[Max(s)])]
           it == CHOOSE f : f = A(f)
           c == [s \in SUBSET D |-> Max(s)]
           G == [p \in D \X Accounts |-> RestoreRow(p[2], rs[p[1]])]
<1>1. n \in Nat /\ DOMAIN rs = D /\ \A i \in D : rs[i] \in Rows /\ rs[i].pnl # 0
  BY DEF NoneZero
<1>2. \A i \in D : Read(rs[i]) \in Int
  BY <1>1 DEF Read
<1>3. FoldLeft(RestoreRow, Empty, rs) = it[D]
  <2>1. DOMAIN rs = D
    BY <1>1
  <2> QED BY <2>1 DEF FoldLeft, MapThenFoldSet
<1>4. TakesFrom(c, D)
  <2> SUFFICES ASSUME NEW s \in SUBSET D, s # {} PROVE Max(s) \in s
    BY DEF TakesFrom
  <2>1. Max({0} \cup s) \in {0} \cup s /\ \A y \in s : y <= Max({0} \cup s)
    BY <1>1, MaxUpTo
  <2>2. Max({0} \cup s) # 0
    <3>1. PICK y \in s : TRUE
      OBVIOUS
    <3>2. y >= 1 /\ y \in Int
      OBVIOUS
    <3>3. y <= Max({0} \cup s)
      BY <2>1
    <3> QED BY <3>2, <3>3
  <2>3. Max({0} \cup s) \in s /\ \A y \in s : Max({0} \cup s) >= y
    BY <2>1, <2>2
  <2> QED BY <2>3 DEF Max
<1>5. G \in [D \X Accounts -> Accounts]
  BY <1>1, <1>2, RestoreRowType
<1>6. \A s \in SUBSET D : c[s] = Max(s)
  OBVIOUS
<1>7. \A x \in D, v \in Accounts : G[<<x, v>>] = RestoreRow(v, rs[x])
  OBVIOUS
<1> HIDE DEF c, G
<1>8. IsFiniteSet(D)
  <2> HIDE DEF n
  <2>1. n \in Int /\ 1 \in Int
    BY <1>1
  <2> QED BY ONLY <2>1, FS_Interval
<1>9. PICK F \in [SUBSET D -> Accounts] : Follows(F, D, Empty, c, G)
  <2> HIDE DEF D
  <2> QED BY <1>4, <1>5, <1>8, EmptyType, FoldExists
<1>10. ASSUME NEW s \in SUBSET D
       PROVE  F[s] = IF s = {} THEN Empty ELSE RestoreRow(F[s \ {Max(s)}], rs[Max(s)])
  <2>1. CASE s = {}
    BY <2>1, <1>9 DEF Follows
  <2>2. CASE s # {}
    <3>1. c[s] \in D /\ F[s \ {c[s]}] \in Accounts
      BY <2>2, <1>4 DEF TakesFrom
    <3>2. F[s] = G[<<c[s], F[s \ {c[s]}]>>]
      BY <2>2, <1>9 DEF Follows
    <3> QED BY <2>2, <3>1, <3>2, <1>6, <1>7
  <2> QED BY <2>1, <2>2
<1>11. F = A(F)
  BY <1>10
<1>12. it = A(it)
  <2> HIDE DEF A
  <2> QED BY <1>11
<1> HIDE DEF it
<1>13. ASSUME NEW k \in 1..n, it[1..(k - 1)] = UpTo(rs, k - 1) PROVE it[1..k] = UpTo(rs, k)
  <2>1. k \in Nat \ {0} /\ 1..k \in SUBSET D
    BY <1>1
  <2>2. Max(1..k) = k /\ (1..k) \ {k} = 1..(k - 1) /\ 1..k # {}
    BY <2>1, TopOf
  <2>3. it[1..k] = RestoreRow(it[(1..k) \ {k}], rs[k])
    BY <2>1, <2>2, <1>12
  <2>4. UpTo(rs, k) = RestoreRow(UpTo(rs, k - 1), rs[k])
    BY <1>1, UpToStep
  <2> QED BY <2>2, <2>3, <2>4, <1>13
<1>14. it[1..0] = UpTo(rs, 0)
  <2>1. 1..0 = {} /\ {} \in SUBSET D
    OBVIOUS
  <2>2. it[{}] = Empty
    BY <2>1, <1>12
  <2> QED BY <2>1, <2>2, UpToNone
<1> DEFINE Bad == {k \in 0..n : it[1..k] # UpTo(rs, k)}
<1>15. ASSUME NEW m \in Bad, \A y \in Bad : m <= y PROVE FALSE
  <2>1. m \in 0..n /\ it[1..m] # UpTo(rs, m)
    OBVIOUS
  <2>2. m # 0
    BY <2>1, <1>14
  <2>3. m \in 1..n /\ m - 1 \in 0..n /\ ~(m <= m - 1)
    BY <1>1, <2>1, <2>2
  <2>4. it[1..(m - 1)] = UpTo(rs, m - 1)
    BY <2>3, <1>15
  <2> QED BY <2>1, <2>3, <2>4, <1>13
<1>16. Bad = {}
  <2>1. Bad \in SUBSET Nat
    OBVIOUS
  <2> HIDE DEF Bad
  <2> QED BY <2>1, <1>15, LeastOf
<1>17. n \in 0..n
  BY <1>1
<1>18. it[D] = UpTo(rs, n)
  BY <1>16, <1>17
<1> QED BY <1>3, <1>18

\* A later row leaves the account of the earlier ones.
LEMMA UpToAppend ==
  ASSUME NEW rs \in Seq(Rows), NEW row \in Rows, \A r \in Rows : r.pnl \in Int,
         NEW k \in 0..Len(rs)
  PROVE  UpTo(Append(rs, row), k) = UpTo(rs, k)
<1> DEFINE v == PnlOf(Append(rs, row))
           w == PnlOf(rs)
<1>1. k \in Nat /\ \A i \in 1..k : i \in 1..Len(rs) /\ Append(rs, row)[i] = rs[i]
  OBVIOUS
<1>2. \A i \in 1..k : w[i] \in Int /\ v[i] = w[i]
  BY <1>1 DEF PnlOf
<1>3. IsFiniteSet(1..k)
  BY <1>1, FS_Interval
<1>4. SumOf(w, 1..k) = SumOf(v, 1..k)
  <2> DEFINE D == 1..k
  <2>1. IsFiniteSet(D) /\ \A x \in D : w[x] \in Int /\ v[x] = w[x]
    BY <1>2, <1>3
  <2> HIDE DEF D, v, w
  <2>2. SumOf(w, D) = SumOf(v, D)
    BY <2>1, SumAgree
  <2> QED BY <2>2 DEF D
<1>5. WinsTo(Append(rs, row), k) = WinsTo(rs, k) /\ LossesTo(Append(rs, row), k) = LossesTo(rs, k)
  BY <1>1 DEF WinsTo, LossesTo
<1> QED BY <1>4, <1>5 DEF UpTo

\* The account of the day, as the property spells it, is that of all its rows.
LEMMA DayIs ==
  ASSUME rows \in Seq(Rows), \A r \in Rows : r.pnl \in Int
  PROVE  AccountOfDay = UpTo(rows, Len(rows))
<1> DEFINE D == 1..Len(rows)
           w == PnlOf(rows)
           A(f) == [s \in SUBSET D |-> IF s = {} THEN 0
                      ELSE rows[CHOOSE x \in s : TRUE].pnl + f[s \ {CHOOSE x \in s : TRUE}]]
           it == CHOOSE f : f = A(f)
<1>1. DOMAIN rows = D /\ IsFiniteSet(D) /\ Len(rows) \in Nat
  BY FS_Interval
<1>2. \A i \in D : w[i] = rows[i].pnl /\ w[i] \in Int
  BY DEF PnlOf
<1>3. MapThenSumSet(LAMBDA i : rows[i].pnl, DOMAIN rows) = it[D]
  BY <1>1 DEF MapThenSumSet, MapThenFoldSet
<1> HIDE DEF w
<1>4. PICK F \in [SUBSET D -> Int] : Sums(F, w, D) /\ SumOf(w, D) = F[D]
  <2>1. IsFiniteSet(D)
    BY <1>1
  <2>2. \A i \in D : w[i] \in Int
    BY <1>2
  <2> HIDE DEF D
  <2> QED BY <2>1, <2>2, SumChosen
<1>5. F = A(F)
  BY <1>2, <1>4 DEF Sums, Picked
<1>6. it = A(it)
  <2> HIDE DEF A
  <2> QED BY <1>5
<1> HIDE DEF it
<1>7. Sums(it, w, D)
  BY <1>2, <1>6 DEF Sums, Picked
<1>8. it[D] = F[D]
  <2> HIDE DEF D, A
  <2> QED BY <1>1, <1>4, <1>7, SumUnique
<1>9. MapThenSumSet(LAMBDA i : rows[i].pnl, DOMAIN rows) = SumOf(PnlOf(rows), 1..Len(rows))
  BY <1>3, <1>4, <1>8 DEF w
<1>10. LastWin(DOMAIN rows) = Max({0} \cup WinsTo(rows, Len(rows)))
  BY <1>1 DEF LastWin, Won, WinsTo
<1>11. /\ {i \in DOMAIN rows : rows[i].pnl > 0} = WinsTo(rows, Len(rows))
       /\ {i \in DOMAIN rows : rows[i].pnl < 0} = LossesTo(rows, Len(rows))
  BY <1>1 DEF WinsTo, LossesTo
<1> QED BY <1>9, <1>10, <1>11 DEF AccountOfDay, UpTo

\* Where main() stands, the account is that of the rows it has booked or read; a
\* process without rows starts from nothing.
AccountInv ==
  NoneZero(rows) =>
    CASE pc = "booking" -> rows # <<>> /\ account = UpTo(rows, Len(rows) - 1)
      [] pc \in {"loop", "order"} -> account = UpTo(rows, Len(rows))
      [] pc = "boot" -> rows = <<>> => account = Empty
      [] OTHER -> account = Empty

PlaceType == pc \in {"off", "boot", "loop", "order", "booking"} /\ rows \in Seq(Rows)

\* The rows, and the places they are written at.
LEMMA PlaceStep ==
  ASSUME PlaceType, [Next]_vars
  PROVE  PlaceType'
<1>1. ASSUME NEW row \in Rows, ExitLogged(row) PROVE PlaceType'
  BY <1>1 DEF ExitLogged, PlaceType
<1>2. CASE \/ Launch \/ Crash \/ Reconnect \/ Boot \/ EntryBlocked \/ SendOrder \/ NoEvaluation
           \/ OrderFilled \/ OrderFailed \/ TradeBooked \/ HourPasses \/ Evaluates
           \/ (\E d \in Dirs : BlockExpires(d)) \/ UNCHANGED vars
  BY <1>2 DEF Launch, Crash, Reconnect, Boot, EntryBlocked, SendOrder, NoEvaluation,
     OrderFilled, OrderFailed, TradeBooked, HourPasses, Evaluates, NoSignal, Signal, Pass,
     BlockExpires, vars, PlaceType
<1> QED BY <1>1, <1>2 DEF Next

LEMMA AmountsAreInt == \A r \in Rows : r.pnl \in Int
  BY LedgerAssumption DEF Rows

\* Every step keeps the account exact.
LEMMA AccountInvStep ==
  ASSUME PlaceType, AccountInv, [Next]_vars
  PROVE  AccountInv'
<1> USE DEF PlaceType
<1>1. CASE Crash
  BY <1>1 DEF Crash, AccountInv
<1>2. CASE Boot
  <2>1. rows' = rows /\ pc' = "loop"
    BY <1>2 DEF Boot
  <2>2. CASE rows = <<>>
    <3>1. Len(rows) = 0 /\ NoneZero(rows)
      BY <2>2 DEF NoneZero
    <3>2. account' = Empty
      BY <1>2, <2>2, <3>1 DEF Boot, AccountInv
    <3> QED BY <2>1, <3>1, <3>2, UpToNone DEF AccountInv
  <2>3. CASE rows # <<>>
    <3>1. account' = FoldLeft(RestoreRow, Empty, rows)
      BY <1>2, <2>3 DEF Boot
    <3>2. NoneZero(rows) => account' = UpTo(rows, Len(rows))
      BY <3>1, RestoredIs, AmountsAreInt
    <3> QED BY <2>1, <3>2 DEF AccountInv
  <2> QED BY <2>2, <2>3
<1>3. ASSUME NEW row \in Rows, ExitLogged(row) PROVE AccountInv'
  <2>1. rows' = Append(rows, row) /\ pc' = "booking" /\ pc = "loop" /\ account' = account
    BY <1>3 DEF ExitLogged, Pass
  <2>2. Len(rows') = Len(rows) + 1 /\ Len(rows) \in Nat /\ rows' # <<>>
        /\ \A i \in 1..Len(rows) : i \in 1..Len(rows') /\ rows'[i] = rows[i]
    BY <2>1
  <2>3. NoneZero(rows') => NoneZero(rows)
    BY <2>2 DEF NoneZero
  <2>4. NoneZero(rows') => account = UpTo(rows, Len(rows))
    BY <2>1, <2>3 DEF AccountInv
  <2>5. UpTo(rows', Len(rows)) = UpTo(rows, Len(rows))
    <3>1. Len(rows) \in 0..Len(rows)
      BY <2>2
    <3> QED BY <2>1, <3>1, UpToAppend, AmountsAreInt
  <2>6. Len(rows') - 1 = Len(rows)
    BY <2>2
  <2> QED BY <2>1, <2>2, <2>4, <2>5, <2>6 DEF AccountInv
<1>4. CASE TradeBooked
  <2>1. rows' = rows /\ pc' = "loop" /\ pc = "booking"
        /\ account' = Booked(account, rows[Len(rows)].pnl)
    BY <1>4 DEF TradeBooked
  <2>2. ASSUME NoneZero(rows) PROVE account' = UpTo(rows, Len(rows))
    <3>1. rows # <<>> /\ account = UpTo(rows, Len(rows) - 1)
      BY <2>1, <2>2 DEF AccountInv
    <3>2. Len(rows) \in 1..Len(rows)
      BY <3>1
    <3>3. rows[Len(rows)].pnl # 0
      BY <2>2, <3>2 DEF NoneZero
    <3>4. UpTo(rows, Len(rows)) = Booked(UpTo(rows, Len(rows) - 1), rows[Len(rows)].pnl)
      BY <3>2, <3>3, UpToStep, AmountsAreInt
    <3> QED BY <2>1, <3>1, <3>4
  <2> QED BY <2>1, <2>2 DEF AccountInv
<1>5. CASE Launch
  BY <1>5 DEF Launch, AccountInv
<1>6. CASE Reconnect
  <2>1. pc \in {"loop", "booking"} /\ pc' = "boot" /\ rows' = rows /\ account' = account
    BY <1>6 DEF Reconnect
  <2>2. ASSUME rows = <<>> PROVE account = Empty
    <3>1. Len(rows) = 0 /\ NoneZero(rows)
      BY <2>2 DEF NoneZero
    <3> QED BY <2>1, <2>2, <3>1, UpToNone DEF AccountInv
  <2> QED BY <2>1, <2>2 DEF AccountInv
<1>7. CASE OrderFilled \/ OrderFailed \/ SendOrder
  BY <1>7 DEF OrderFilled, OrderFailed, SendOrder, Pass, AccountInv
<1>8. CASE NoSignal \/ (\E d \in Dirs : Signal(d)) \/ NoEvaluation \/ EntryBlocked
           \/ HourPasses \/ (\E d \in Dirs : BlockExpires(d)) \/ UNCHANGED vars
  BY <1>8 DEF NoSignal, Signal, NoEvaluation, EntryBlocked, HourPasses, BlockExpires, Pass, vars,
     AccountInv
<1> QED
  BY <1>1, <1>2, <1>3, <1>4, <1>5, <1>6, <1>7, <1>8 DEF Next, Evaluates

\* restore_from_trades, update_pnl and the limits of state_idle: unless a trade
\* closed at exactly zero, the account the limits read is that of the day's rows,
\* however often main() restored it and wherever the process died, and the limits
\* hold.
THEOREM DayExactAlways == Spec => []DayExact
<1>1. Init => PlaceType /\ AccountInv
  BY DEF Init, PlaceType, AccountInv
<1>2. PlaceType /\ AccountInv /\ [Next]_vars => (PlaceType /\ AccountInv)'
  BY PlaceStep, AccountInvStep
<1>3. PlaceType /\ AccountInv => AccountExact
  <2> SUFFICES ASSUME PlaceType, AccountInv, pc = "loop", \A i \in DOMAIN rows : rows[i].pnl # 0
               PROVE  account = AccountOfDay
    BY DEF AccountExact
  <2>1. NoneZero(rows)
    BY DEF NoneZero, PlaceType
  <2>2. account = UpTo(rows, Len(rows))
    BY <2>1 DEF AccountInv
  <2> QED BY <2>2, DayIs, AmountsAreInt DEF PlaceType
<1>4. AccountExact /\ DayLimitsHold => DayExact
  BY DEF DayExact
<1> QED
  BY <1>1, <1>2, <1>3, <1>4, DayLimitsAlways, PTL DEF Spec

-----------------------------------------------------------------------------
(* The risk manager's gates.                                                *)
Managers ==
  [daily : Int, weekly : Int, total : Int, peak : Nat, equity : Int, losses : 0..StreakLimit,
   wins : 0..StreakLimit, pause : NoPause..PauseLen, hist : Seq(Int)]
Files  == [daily : Int, weekly : Int, total : Int, peak : Nat, hist : Seq(Int), day : Nat,
           whole : BOOLEAN]
Truths == [day : Int, wiped : Int, week : Int, total : Int, top : Nat]
Orders == [over : BOOLEAN, late : BOOLEAN, short : BOOLEAN, paused : BOOLEAN]

\* The clocks and the manager are well typed, also its file and the history of them.
ManagerTypes ==
  /\ day \in 1..MaxDays /\ file.day \in 1..day
  /\ rm \in Managers /\ file \in Files /\ truth \in Truths /\ Len(file.hist) <= HistKept
  /\ fresh \in 0..PauseLen /\ unsaved \subseteq Parts /\ forgot \subseteq Parts
  /\ faults \in 0..MaxFaults /\ (~file.whole => file = NoFile)

\* What the file holds is what was traded, as far as its day and its week are the
\* present ones and its last save came through; it holds no peak below its total.
OnFile ==
  /\ rm.total <= rm.peak /\ file.total <= file.peak
  /\ "day" \notin unsaved \cup forgot =>
       IF file.day = day THEN file.daily = truth.day - truth.wiped
       ELSE truth.day = 0 /\ truth.wiped = 0
  /\ "week" \notin unsaved \cup forgot =>
       IF Week(file.day) = Week(day) THEN file.weekly = truth.week ELSE truth.week = 0
  /\ "total" \notin unsaved \cup forgot => file.total = truth.total /\ file.peak = truth.top

BothWithin == Within(rm) /\ Within(file)

\* The pause that runs is the one the last streak has earned; a streak has one.
PauseEarned ==
  IF rm.pause = NoPause THEN fresh = 0 /\ ~OnStreak(rm) ELSE rm.pause = fresh

\* The exit's row is counted twice by nobody and once by update_pnl.
RowsCounted ==
  up = "up" => IF state = "EXITED" THEN pnl + gross = rowPnl ELSE pnl = rowPnl

Trading == state \in {"IN_TRADE", "EXITED", "COUNTED"}

\* An open trade was within every ceiling when it was ordered, and nothing has
\* been recorded since.
OrderedWithin ==
  Trading /\ up = "up" =>
    /\ lots * LotRisk <= MaxOf(MinOf(PerTrade, HardCap), LotRisk)
    /\ lots * LotRisk <= DailyLoss - MaxOf(0, -rm.daily) + Tolerance
    /\ rm.weekly > -WeeklyLoss
    /\ Lookback = 0 => rm.peak - rm.total < Drawdown
    /\ rm.pause = NoPause
    /\ state # "IN_TRADE" => gross >= -(lots * LotRisk)

MachineTypes ==
  /\ up \in {"down", "between", "up"} /\ state \in Phases /\ lots \in 0..MaxLots
  /\ gross \in Int /\ rowPnl \in Int /\ pnl \in Int /\ lastOrder \in Orders
  /\ mode \in {"AGGRESSIVE", "SAFE", "LOCKDOWN"} /\ switchWait \in 0..SwitchLen
  /\ trades \in 0..MaxTrades /\ launches \in 0..MaxLaunches
  /\ Trading => lots > 0
  /\ up = "down" => state = "IDLE"

LEMMA TimesGrows ==
  ASSUME NEW d \in Nat, NEW x \in Nat, NEW y \in Nat, x <= y
  PROVE  d * x \in Nat /\ d * y \in Nat /\ d * x <= d * y
<1>1. d * y - d * x = d * (y - x) /\ d * (y - x) >= 0
  OBVIOUS
<1> QED
  BY <1>1

LEMMA Quotient ==
  ASSUME NEW x \in Nat, NEW d \in Nat \ {0}
  PROVE  x \div d \in Nat /\ d * (x \div d) <= x /\ x < d * (x \div d) + d
  OBVIOUS

LEMMA WeeksPass ==
  ASSUME NEW d \in Nat \ {0}, NEW e \in Nat \ {0}, d <= e
  PROVE  Week(d) \in Int /\ Week(e) \in Int /\ Week(d) <= Week(e)
<1>1. DaysPerWeek \in Nat \ {0} /\ d - 1 \in Nat /\ e - 1 \in Nat
  BY GatesAssumption
<1> DEFINE p == (d - 1) \div DaysPerWeek
           q == (e - 1) \div DaysPerWeek
<1>2. /\ p \in Nat /\ DaysPerWeek * p <= d - 1
      /\ q \in Nat /\ e - 1 < DaysPerWeek * q + DaysPerWeek
  BY <1>1, Quotient
<1> HIDE DEF p, q
<1>3. DaysPerWeek * p < DaysPerWeek * (q + 1)
  BY <1>1, <1>2
<1>4. p < q + 1
  <2>1. q + 1 <= p => DaysPerWeek * (q + 1) <= DaysPerWeek * p
    BY <1>1, <1>2, TimesGrows
  <2> QED BY <2>1, <1>1, <1>2, <1>3
<1> QED
  BY <1>2, <1>4 DEF Week, p, q

\* The amounts of an order, whatever the soft factors make of the budget.
LEMMA SizedIs ==
  ASSUME NEW base \in Nat, NEW m \in Nat, Sized(base, m) # 0
  PROVE  /\ Sized(base, m) \in 1..MaxLots /\ base > 0
         /\ Sized(base, m) * LotRisk <= base + Tolerance
         /\ Sized(base, m) * LotRisk <= MaxOf(MinOf(base, HardCap), LotRisk)
<1> DEFINE ceiling == MinOf(base, HardCap)
           asked   == base * m
           capped  == asked > 100 * ceiling
           amount  == IF capped THEN ceiling ELSE asked \div 100
           whole   == amount \div LotRisk
           rounded == \/ Tolerance > 0 /\ ~capped /\ asked >= 100 * (LotRisk - Tolerance)
                      \/ Floor /\ ceiling >= LotRisk
<1>1. /\ LotRisk \in Nat \ {0} /\ Tolerance \in 0..(LotRisk - 1) /\ HardCap \in Nat
      /\ MaxLots \in Nat
  BY GatesAssumption
<1>2. ceiling \in Nat /\ ceiling <= base /\ ceiling <= HardCap /\ asked \in Nat
  <2>1. asked \in Nat
    OBVIOUS
  <2> QED BY <1>1, <2>1 DEF MinOf
<1>3. Sized(base, m) = IF whole > 0 THEN MinOf(whole, MaxLots)
                       ELSE IF rounded THEN MinOf(1, MaxLots) ELSE 0
  BY Zenon DEF Sized
<1> HIDE DEF asked, ceiling
<1>4. amount \in Nat /\ amount <= ceiling
  BY <1>2
<1>5. rounded => ceiling > 0 /\ LotRisk <= ceiling + Tolerance
  <2>1. CASE Tolerance > 0 /\ ~capped /\ asked >= 100 * (LotRisk - Tolerance)
    BY <2>1, <1>1, <1>2
  <2>2. CASE Floor /\ ceiling >= LotRisk
    <3>1. ceiling >= LotRisk
      BY <2>2, Zenon
    <3> QED BY <3>1, <1>1, <1>2
  <2> QED BY <2>1, <2>2
<1> HIDE DEF amount
<1>6. whole \in Nat /\ LotRisk * whole <= amount
  BY <1>1, <1>4, Quotient
<1> HIDE DEF whole, rounded
<1>7. CASE whole > 0
  <2>1. Sized(base, m) \in 1..MaxLots /\ Sized(base, m) <= whole
    BY <1>1, <1>3, <1>6, <1>7 DEF MinOf
  <2>2. LotRisk * Sized(base, m) <= LotRisk * whole
    BY <2>1, <1>1, <1>6, TimesGrows
  <2>3. LotRisk * Sized(base, m) \in Int /\ LotRisk * whole \in Int
        /\ Sized(base, m) * LotRisk = LotRisk * Sized(base, m)
    BY <2>1, <1>1, <1>6
  <2>4. Sized(base, m) * LotRisk <= ceiling
    BY <2>2, <2>3, <1>2, <1>4, <1>6
  <2>5. ceiling > 0
    <3>1. LotRisk * Sized(base, m) > 0
      BY <2>1, <1>1
    <3> QED BY <3>1, <2>3, <2>4, <1>2
  <2>6. Sized(base, m) * LotRisk <= MaxOf(ceiling, LotRisk)
    BY <2>3, <2>4, <1>1, <1>2 DEF MaxOf
  <2> QED
    BY <2>1, <2>3, <2>4, <2>5, <2>6, <1>1, <1>2 DEF ceiling
<1>8. CASE ~(whole > 0)
  <2>1. rounded /\ Sized(base, m) = MinOf(1, MaxLots)
    BY <1>3, <1>8
  <2>2. Sized(base, m) = 1 /\ 1 <= MaxLots
    BY <2>1, <1>1 DEF MinOf
  <2>3. ceiling > 0 /\ LotRisk <= ceiling + Tolerance
    BY <2>1, <1>5
  <2>4. LotRisk <= MaxOf(ceiling, LotRisk)
    BY <1>1, <1>2 DEF MaxOf
  <2> QED
    BY <2>2, <2>3, <2>4, <1>1, <1>2 DEF ceiling
<1> QED
  BY <1>7, <1>8

\* What a trade of that many lots can lose.
LEMMA ResultIs ==
  ASSUME NEW n \in Nat, NEW r \in {-l : l \in Losing} \cup Winning
  PROVE  r * n \in Int /\ n * LotRisk \in Nat /\ r * n >= -(n * LotRisk)
<1>1. LotRisk \in Nat /\ Losing \subseteq 0..LotRisk /\ Winning \subseteq Nat
  BY GatesAssumption
<1>2. CASE r \in Winning
  <2>1. r \in Nat /\ r * n \in Nat /\ n * LotRisk \in Nat
    BY <1>1, <1>2
  <2> QED BY <2>1
<1>3. CASE r \in {-l : l \in Losing}
  <2>1. PICK l \in Losing : r = -l
    BY <1>3
  <2>2. l \in Nat /\ l <= LotRisk
    BY <1>1
  <2>3. n * l \in Nat /\ n * LotRisk \in Nat /\ n * l <= n * LotRisk
    BY <1>1, <2>2, TimesGrows
  <2>4. r * n = -(n * l)
    BY <2>1, <2>2
  <2> QED BY <2>3, <2>4
<1> QED
  BY <1>2, <1>3

LEMMA MaxIs ==
  ASSUME NEW a \in Int, NEW b \in Int
  PROVE  MaxOf(a, b) \in {a, b} /\ MaxOf(a, b) >= a /\ MaxOf(a, b) >= b
  BY DEF MaxOf

\* A manager is the record of its fields.
LEMMA ManagerIs ==
  ASSUME NEW r \in Managers
  PROVE  r = [daily |-> r.daily, weekly |-> r.weekly, total |-> r.total, peak |-> r.peak,
              equity |-> r.equity, losses |-> r.losses, wins |-> r.wins, pause |-> r.pause,
              hist |-> r.hist]
  BY DEF Managers

LEMMA NewIs ==
  /\ NewManager \in Managers /\ NewManager.total = 0 /\ NewManager.peak = 0
  /\ NewManager.daily = 0 /\ NewManager.weekly = 0
  /\ NewManager.pause = NoPause /\ NewManager.losses = 0 /\ NewManager.wins = 0
<1>1. <<>> \in Seq(Int) /\ 0 \in 0..StreakLimit /\ NoPause \in NoPause..PauseLen
  BY GatesAssumption DEF NoPause
<1> QED
  BY <1>1 DEF NewManager, Managers

\* A manager without a streak, as NewManager makes it and Loaded fills it.
LEMMA LoadedIs ==
  ASSUME ManagerTypes
  PROVE  /\ Loaded \in Managers /\ Loaded.total = file.total /\ Loaded.peak = file.peak
         /\ Loaded.daily = (IF file.day = day THEN file.daily ELSE 0)
         /\ Loaded.weekly = (IF Week(file.day) # Week(day) THEN 0 ELSE file.weekly)
         /\ Loaded.pause = NoPause /\ Loaded.losses = 0 /\ Loaded.wins = 0
<1> DEFINE daily  == IF file.day = day THEN file.daily ELSE 0
           weekly == IF Week(file.day) # Week(day) THEN 0 ELSE file.weekly
<1>1. /\ daily \in Int /\ weekly \in Int /\ file.total \in Int /\ file.peak \in Nat
      /\ file.hist \in Seq(Int)
  BY DEF ManagerTypes, Files
<1>2. 0 \in Int /\ 0 \in 0..StreakLimit /\ NoPause \in NoPause..PauseLen
  BY GatesAssumption DEF NoPause
<1>3. CASE file.whole
  <2> SUFFICES Loaded = [daily |-> daily, weekly |-> weekly, total |-> file.total,
                         peak |-> file.peak, equity |-> 0, losses |-> 0, wins |-> 0,
                         pause |-> NoPause, hist |-> file.hist]
    <3> HIDE DEF daily, weekly
    <3>1. Loaded \in Managers
      BY <1>1, <1>2 DEF Managers
    <3> QED BY <3>1 DEF daily, weekly
  <2> DEFINE a == [NewManager EXCEPT !.daily = daily]
             b == [a EXCEPT !.weekly = weekly]
             c == [b EXCEPT !.total = file.total]
             d == [c EXCEPT !.peak = file.peak]
  <2>1. a = [daily |-> daily, weekly |-> 0, total |-> 0, peak |-> 0, equity |-> 0,
             losses |-> 0, wins |-> 0, pause |-> NoPause, hist |-> <<>>]
    BY DEF NewManager
  <2>2. Loaded = [d EXCEPT !.hist = file.hist]
    BY <1>3, Zenon DEF Loaded
  <2> HIDE DEF a
  <2>3. b = [daily |-> daily, weekly |-> weekly, total |-> 0, peak |-> 0, equity |-> 0,
             losses |-> 0, wins |-> 0, pause |-> NoPause, hist |-> <<>>]
    BY <2>1
  <2> HIDE DEF b
  <2>4. c = [daily |-> daily, weekly |-> weekly, total |-> file.total, peak |-> 0, equity |-> 0,
             losses |-> 0, wins |-> 0, pause |-> NoPause, hist |-> <<>>]
    BY <2>3
  <2> HIDE DEF c
  <2>5. d = [daily |-> daily, weekly |-> weekly, total |-> file.total, peak |-> file.peak,
             equity |-> 0, losses |-> 0, wins |-> 0, pause |-> NoPause, hist |-> <<>>]
    BY <2>4
  <2> HIDE DEF d
  <2> QED BY <2>2, <2>5
<1>4. CASE ~file.whole
  <2>1. Loaded = NewManager /\ file = NoFile
    BY <1>4 DEF Loaded, ManagerTypes
  <2>2. file.daily = 0 /\ file.weekly = 0 /\ file.total = 0 /\ file.peak = 0
    BY <2>1 DEF NoFile
  <2> QED BY <2>1, <2>2, NewIs
<1> QED
  BY <1>3, <1>4

LEMMA RecordedIs ==
  ASSUME NEW r \in Managers, NEW net \in Int
  PROVE  /\ Recorded(r, net) \in Managers
         /\ Recorded(r, net).daily = r.daily + net /\ Recorded(r, net).weekly = r.weekly + net
         /\ Recorded(r, net).total = r.total + net
         /\ Recorded(r, net).peak = MaxOf(r.peak, r.total + net)
         /\ Recorded(r, net).losses = r.losses /\ Recorded(r, net).wins = r.wins
         /\ Recorded(r, net).pause = r.pause
<1> DEFINE d == r.daily + net
           w == r.weekly + net
           t == r.total + net
           p == MaxOf(r.peak, r.total + net)
<1>1. d \in Int /\ w \in Int /\ t \in Int /\ p \in Nat
  BY DEF Managers, MaxOf
<1>2. Recorded(r, net) = [r EXCEPT !.daily = d, !.weekly = w, !.total = t, !.equity = t, !.peak = p]
  BY Zenon DEF Recorded
<1> HIDE DEF d, w, t, p
<1>3. Recorded(r, net) = [daily |-> d, weekly |-> w, total |-> t, peak |-> p, equity |-> t,
                          losses |-> r.losses, wins |-> r.wins, pause |-> r.pause, hist |-> r.hist]
  <2> DEFINE r1 == [r EXCEPT !.daily = d]
             r2 == [r1 EXCEPT !.weekly = w]
             r3 == [r2 EXCEPT !.total = t]
             r4 == [r3 EXCEPT !.equity = t]
  <2>1. Recorded(r, net) = [r4 EXCEPT !.peak = p]
    BY <1>2, Zenon
  <2>2. r1 = [daily |-> d, weekly |-> r.weekly, total |-> r.total, peak |-> r.peak,
              equity |-> r.equity, losses |-> r.losses, wins |-> r.wins, pause |-> r.pause,
              hist |-> r.hist]
    <3>1. r = [daily |-> r.daily, weekly |-> r.weekly, total |-> r.total, peak |-> r.peak,
               equity |-> r.equity, losses |-> r.losses, wins |-> r.wins, pause |-> r.pause,
               hist |-> r.hist]
      BY ManagerIs
    <3> QED BY ONLY <3>1
  <2> HIDE DEF r1
  <2>3. r2 = [daily |-> d, weekly |-> w, total |-> r.total, peak |-> r.peak,
              equity |-> r.equity, losses |-> r.losses, wins |-> r.wins, pause |-> r.pause,
              hist |-> r.hist]
    BY <2>2
  <2> HIDE DEF r2
  <2>4. r3 = [daily |-> d, weekly |-> w, total |-> t, peak |-> r.peak,
              equity |-> r.equity, losses |-> r.losses, wins |-> r.wins, pause |-> r.pause,
              hist |-> r.hist]
    BY <2>3
  <2> HIDE DEF r3
  <2>5. r4 = [daily |-> d, weekly |-> w, total |-> t, peak |-> r.peak,
              equity |-> t, losses |-> r.losses, wins |-> r.wins, pause |-> r.pause,
              hist |-> r.hist]
    BY <2>4
  <2> HIDE DEF r4
  <2> QED BY <2>1, <2>5
<1>4. Recorded(r, net) \in Managers
  BY <1>1, <1>3 DEF Managers
<1> QED
  BY <1>3, <1>4 DEF d, w, t, p

\* A streak that a trade completes has its pause from that trade on.
LEMMA StreakIs ==
  ASSUME NEW r \in Managers, NEW net \in Int, r.pause = NoPause, ~OnStreak(r)
  PROVE  /\ Streak(r, net) \in Managers
         /\ Streak(r, net).daily = r.daily /\ Streak(r, net).weekly = r.weekly
         /\ Streak(r, net).total = r.total /\ Streak(r, net).peak = r.peak
         /\ Streak(r, net).pause = (IF OnStreak(Streak(r, net)) THEN PauseLen ELSE NoPause)
<1> DEFINE w == IF net > 0 THEN r.wins + 1 ELSE IF net < 0 THEN 0 ELSE r.wins
           l == IF net < 0 THEN r.losses + 1 ELSE IF net > 0 THEN 0 ELSE r.losses
           s == [r EXCEPT !.wins = w, !.losses = l]
           p == IF OnStreak(s) /\ r.pause = NoPause THEN PauseLen ELSE r.pause
<1>1. w \in 0..StreakLimit /\ l \in 0..StreakLimit
  BY GatesAssumption DEF Managers, OnStreak
<1>2. s = [daily |-> r.daily, weekly |-> r.weekly, total |-> r.total, peak |-> r.peak,
           equity |-> r.equity, losses |-> l, wins |-> w, pause |-> r.pause, hist |-> r.hist]
  <2> DEFINE s1 == [r EXCEPT !.wins = w]
  <2> HIDE DEF w, l
  <2>1. s1 = [daily |-> r.daily, weekly |-> r.weekly, total |-> r.total, peak |-> r.peak,
              equity |-> r.equity, losses |-> r.losses, wins |-> w, pause |-> r.pause,
              hist |-> r.hist]
    <3>1. r = [daily |-> r.daily, weekly |-> r.weekly, total |-> r.total, peak |-> r.peak,
               equity |-> r.equity, losses |-> r.losses, wins |-> r.wins, pause |-> r.pause,
               hist |-> r.hist]
      BY ManagerIs
    <3> QED BY ONLY <3>1
  <2>2. s = [s1 EXCEPT !.losses = l]
    BY Zenon
  <2> HIDE DEF s1, s
  <2> QED BY <2>1, <2>2
<1>3. s.pause = r.pause
  <2> HIDE DEF s
  <2> QED BY <1>2
<1>4. Streak(r, net) = [s EXCEPT !.pause = p]
  BY <1>3, Zenon DEF Streak
<1> HIDE DEF w, l, s
<1>5. p \in NoPause..PauseLen /\ p = IF OnStreak(s) THEN PauseLen ELSE NoPause
  BY GatesAssumption DEF NoPause
<1> HIDE DEF p
<1>6. Streak(r, net) = [daily |-> r.daily, weekly |-> r.weekly, total |-> r.total,
                        peak |-> r.peak, equity |-> r.equity, losses |-> l, wins |-> w,
                        pause |-> p, hist |-> r.hist]
  BY <1>2, <1>4
<1>7. OnStreak(s) <=> OnStreak(Streak(r, net))
  BY <1>2, <1>6 DEF OnStreak
<1>8. Streak(r, net) \in Managers
  BY <1>1, <1>5, <1>6 DEF Managers
<1> QED
  BY <1>5, <1>6, <1>7, <1>8

LEMMA LookIs ==
  ASSUME ManagerTypes, PauseEarned
  PROVE  /\ AfterLook \in Managers
         /\ AfterLook.daily = rm.daily /\ AfterLook.weekly = rm.weekly
         /\ AfterLook.total = rm.total /\ AfterLook.peak = rm.peak
         /\ IF AfterLook.pause = NoPause THEN fresh = 0 /\ ~OnStreak(AfterLook)
            ELSE AfterLook.pause = fresh
         /\ ~StreakPaused => fresh = 0 /\ AfterLook.pause = NoPause
<1>1. /\ rm \in Managers /\ fresh \in 0..PauseLen /\ StreakLimit \in Nat \ {0}
      /\ PauseLen \in Nat \ {0}
  BY GatesAssumption DEF ManagerTypes
<1>2. rm.pause \in NoPause..PauseLen
  BY <1>1 DEF Managers
<1>3. CASE rm.pause > 0
  <2>1. AfterLook = rm /\ StreakPaused
    BY <1>3, Zenon DEF AfterLook, StreakPaused
  <2> QED
    BY <2>1, <1>1 DEF PauseEarned
<1>4. CASE rm.pause = 0
  <2>1. Looked = [rm EXCEPT !.pause = NoPause, !.losses = 0, !.wins = 0]
    BY <1>4, Zenon DEF Looked, PauseOver
  <2>2. Looked = [daily |-> rm.daily, weekly |-> rm.weekly, total |-> rm.total,
                  peak |-> rm.peak, equity |-> rm.equity, losses |-> 0, wins |-> 0,
                  pause |-> NoPause, hist |-> rm.hist]
    <3> DEFINE a == [rm EXCEPT !.pause = NoPause]
               b == [a EXCEPT !.losses = 0]
    <3>1. a = [daily |-> rm.daily, weekly |-> rm.weekly, total |-> rm.total,
               peak |-> rm.peak, equity |-> rm.equity, losses |-> rm.losses, wins |-> rm.wins,
               pause |-> NoPause, hist |-> rm.hist]
      <4>1. rm = [daily |-> rm.daily, weekly |-> rm.weekly, total |-> rm.total,
                  peak |-> rm.peak, equity |-> rm.equity, losses |-> rm.losses,
                  wins |-> rm.wins, pause |-> rm.pause, hist |-> rm.hist]
        BY <1>1, ManagerIs
      <4> QED BY ONLY <4>1
    <3>2. Looked = [b EXCEPT !.wins = 0]
      BY <2>1, Zenon
    <3> HIDE DEF a
    <3>3. b = [daily |-> rm.daily, weekly |-> rm.weekly, total |-> rm.total,
               peak |-> rm.peak, equity |-> rm.equity, losses |-> 0, wins |-> rm.wins,
               pause |-> NoPause, hist |-> rm.hist]
      BY <3>1
    <3> HIDE DEF b
    <3>4. Looked = [[daily |-> rm.daily, weekly |-> rm.weekly, total |-> rm.total,
                     peak |-> rm.peak, equity |-> rm.equity, losses |-> 0, wins |-> rm.wins,
                     pause |-> NoPause, hist |-> rm.hist] EXCEPT !.wins = 0]
      BY <3>2, <3>3, Zenon
    <3> QED BY ONLY <3>4
  <2>3. Looked \in Managers /\ ~OnStreak(Looked)
    <3>1. NoPause \in NoPause..PauseLen
      BY <1>1 DEF NoPause
    <3> QED BY <2>2, <3>1, <1>1 DEF Managers, OnStreak
  <2>4. AfterLook = Looked
    <3>1. ~(rm.pause > 0)
      BY <1>4
    <3> QED BY <3>1, <2>3, Zenon DEF AfterLook
  <2>5. fresh = 0
    BY <1>4 DEF PauseEarned, NoPause
  <2> QED
    BY <2>2, <2>3, <2>4, <2>5
<1>5. CASE rm.pause = NoPause
  <2>1. ~(rm.pause > 0) /\ ~(rm.pause = 0)
    BY <1>5 DEF NoPause
  <2>2. fresh = 0 /\ ~OnStreak(rm)
    BY <1>5 DEF PauseEarned
  <2>3. Looked = rm
    BY <2>1, Zenon DEF Looked, PauseOver
  <2>4. AfterLook = rm
    BY <2>1, <2>2, <2>3, Zenon DEF AfterLook
  <2> QED
    BY <2>2, <2>4, <1>1, <1>5
<1> QED
  BY <1>2, <1>3, <1>4, <1>5 DEF NoPause

LEMMA WeighedIs ==
  ASSUME NEW r \in Managers
  PROVE  /\ Weighed(r) \in Managers /\ Weighed(r).daily = r.daily
         /\ Weighed(r).weekly = r.weekly /\ Weighed(r).total = r.total
         /\ Weighed(r).peak = MaxOf(r.peak, r.total) /\ Weighed(r).pause = r.pause
         /\ Weighed(r).losses = r.losses /\ Weighed(r).wins = r.wins
<1> DEFINE p == MaxOf(r.peak, r.total)
           a == [r EXCEPT !.equity = r.total]
<1>1. p \in Nat /\ r.total \in Int
  BY DEF Managers, MaxOf
<1>2. a = [daily |-> r.daily, weekly |-> r.weekly, total |-> r.total, peak |-> r.peak,
           equity |-> r.total, losses |-> r.losses, wins |-> r.wins, pause |-> r.pause,
           hist |-> r.hist]
  <2>1. r = [daily |-> r.daily, weekly |-> r.weekly, total |-> r.total, peak |-> r.peak,
             equity |-> r.equity, losses |-> r.losses, wins |-> r.wins, pause |-> r.pause,
             hist |-> r.hist]
    BY ManagerIs
  <2> QED BY ONLY <2>1
<1>3. Weighed(r) = [a EXCEPT !.peak = p]
  BY Zenon DEF Weighed
<1> HIDE DEF a, p
<1>4. Weighed(r) = [daily |-> r.daily, weekly |-> r.weekly, total |-> r.total, peak |-> p,
           equity |-> r.total, losses |-> r.losses, wins |-> r.wins, pause |-> r.pause,
           hist |-> r.hist]
  BY <1>2, <1>3
<1>5. Weighed(r) \in Managers
  BY <1>1, <1>4 DEF Managers
<1> QED
  BY <1>4, <1>5 DEF p

LEMMA SavedIs ==
  ASSUME NEW r \in Managers, day \in Nat
  PROVE  /\ Saved(r) \in Files /\ Len(Saved(r).hist) <= HistKept
         /\ Saved(r).daily = r.daily /\ Saved(r).weekly = r.weekly /\ Saved(r).total = r.total
         /\ Saved(r).peak = r.peak /\ Saved(r).day = day /\ Saved(r).whole
<1>1. /\ r.hist \in Seq(Int) /\ Len(r.hist) \in Nat /\ HistKept \in Nat \ {0}
      /\ r.daily \in Int /\ r.weekly \in Int /\ r.total \in Int /\ r.peak \in Nat
  BY GatesAssumption DEF Managers
<1> DEFINE m == MaxOf(1, Len(r.hist) + 1 - HistKept)
<1>2. m \in Nat /\ m >= 1 /\ m >= Len(r.hist) + 1 - HistKept /\ m <= Len(r.hist) + 1
  BY <1>1 DEF MaxOf
<1> HIDE DEF m
<1>3. /\ SubSeq(r.hist, m, Len(r.hist)) \in Seq(Int)
      /\ Len(SubSeq(r.hist, m, Len(r.hist))) <= HistKept
  <2>1. m \in 1..(Len(r.hist) + 1) /\ Len(r.hist) \in m - 1..Len(r.hist)
    BY <1>1, <1>2
  <2>2. SubSeq(r.hist, m, Len(r.hist)) \in Seq(Int)
    BY <1>1, <2>1, SubSeqProperties
  <2>3. Len(SubSeq(r.hist, m, Len(r.hist))) = Len(r.hist) - m + 1
    BY <1>1, <2>1, SubSeqProperties
  <2> QED BY <1>1, <1>2, <2>2, <2>3
<1>4. LastOf(r.hist, HistKept) = SubSeq(r.hist, m, Len(r.hist))
  BY DEF LastOf, m
<1> QED
  BY <1>1, <1>3, <1>4 DEF Saved, Files

\* The numbers of the ceilings are numbers.
LEMMA LimitsAre ==
  /\ DailyLoss \in Nat \ {0} /\ Cost \in Nat /\ Tolerance \in Nat /\ WeeklyLoss \in Nat \ {0}
  /\ Drawdown \in Nat \ {0} /\ WorstTrade \in Nat /\ HistKept \in Nat \ {0}
  /\ PauseLen \in Nat \ {0} /\ StreakLimit \in Nat \ {0} /\ SwitchLen \in Nat
  /\ PerTrade \in Nat /\ HardCap \in Nat /\ LotRisk \in Nat \ {0}
  BY GatesAssumption DEF WorstTrade, MaxOf, MinOf

\* A manager that has traded nothing is within every ceiling.
LEMMA NewWithin == Within(NewManager) /\ Within(NoFile)
  BY NewIs, LimitsAre DEF Within, WeekWithin, DrawdownWithin, NoFile

\* A save that fails leaves a file of an earlier manager, or none.
LEMMA SaveIs ==
  ASSUME NEW r \in Managers, ManagerTypes, Within(file), file.total <= file.peak,
         Within(r), r.total <= r.peak, Save(r)
  PROVE  /\ file' \in Files /\ Len(file'.hist) <= HistKept /\ file'.day \in 1..day
         /\ (~file'.whole => file' = NoFile) /\ unsaved' \subseteq Parts
         /\ faults' \in 0..MaxFaults /\ Within(file') /\ file'.total <= file'.peak
         /\ \/ unsaved' = Parts
            \/ /\ unsaved' = {} /\ file'.daily = r.daily /\ file'.weekly = r.weekly
               /\ file'.total = r.total /\ file'.peak = r.peak /\ file'.day = day
<1>1. day \in Nat /\ day \in 1..day /\ 1 \in 1..day /\ MaxFaults \in Nat /\ faults \in 0..MaxFaults
  BY GatesAssumption DEF ManagerTypes
<1>2. CASE file' = Saved(r) /\ unsaved' = {} /\ UNCHANGED faults
  <2>1. /\ Saved(r) \in Files /\ Len(Saved(r).hist) <= HistKept /\ Saved(r).whole
        /\ Saved(r).daily = r.daily /\ Saved(r).weekly = r.weekly /\ Saved(r).total = r.total
        /\ Saved(r).peak = r.peak /\ Saved(r).day = day
    BY <1>1, SavedIs
  <2>2. Within(Saved(r))
    BY <2>1 DEF Within
  <2> QED BY <1>1, <1>2, <2>1, <2>2
<1>3. CASE UNCHANGED file /\ unsaved' = Parts /\ faults < MaxFaults /\ faults' = faults + 1
  BY <1>1, <1>3 DEF ManagerTypes
<1>4. CASE file' = NoFile /\ unsaved' = Parts /\ faults < MaxFaults /\ faults' = faults + 1
  <2>1. NoFile \in Files /\ NoFile.hist = <<>> /\ Len(<<>>) = 0
    <3>1. <<>> \in Seq(Int)
      OBVIOUS
    <3> QED BY <3>1 DEF NoFile, Files
  <2>2. NoFile.day = 1 /\ NoFile.total = 0 /\ NoFile.peak = 0
    BY DEF NoFile
  <2> QED BY <1>1, <1>4, <2>1, <2>2, NewWithin, LimitsAre
<1> QED
  BY <1>2, <1>3, <1>4 DEF Save

LastOrderRight == LossLimitHolds /\ ~lastOrder.paused

GateInv ==
  /\ ManagerTypes /\ OnFile /\ PauseEarned /\ RiskExact /\ BothWithin
  /\ MachineTypes /\ RowsCounted /\ OrderedWithin /\ LastOrderRight

\* What a step that leaves the manager, its file and their history alone keeps.
LEMMA ManagerStays ==
  ASSUME GateInv, UNCHANGED <<day, rm, disk, truth, fresh>>, up' = "up" => up = "up"
  PROVE  (ManagerTypes /\ OnFile /\ PauseEarned /\ RiskExact /\ BothWithin)'
<1>1. ManagerTypes'
  BY DEF GateInv, ManagerTypes, disk
<1>2. OnFile'
  BY DEF GateInv, OnFile, disk
<1>3. PauseEarned'
  BY DEF GateInv, PauseEarned, OnStreak
<1>4. RiskExact'
  BY DEF GateInv, RiskExact, disk
<1>5. BothWithin'
  BY DEF GateInv, BothWithin, disk
<1> QED
  BY <1>1, <1>2, <1>3, <1>4, <1>5

LEMMA ModesStay ==
  ASSUME MachineTypes, UpdateMode \/ UNCHANGED modes
  PROVE  mode' \in {"AGGRESSIVE", "SAFE", "LOCKDOWN"} /\ switchWait' \in 0..SwitchLen
  BY GatesAssumption DEF MachineTypes, UpdateMode, Switch, modes

\* The steps that only move the machine.
LEMMA MachineMoves ==
  ASSUME GateInv, KillPass \/ HoldPass \/ CooldownEnds \/ OperatorClears
  PROVE  GateInv'
<1>1. (MachineTypes /\ RowsCounted /\ OrderedWithin /\ LastOrderRight)'
  <2> USE DEF GateInv, RowsCounted, OrderedWithin, LastOrderRight, LossLimitHolds, Trading
  <2>1. CASE KillPass
    BY <2>1, ModesStay DEF KillPass, InTime, ledger, modes, counts, MachineTypes, Phases
  <2>2. CASE HoldPass
    BY <2>2, ModesStay DEF HoldPass, machine, ledger, counts, MachineTypes, Phases
  <2>3. CASE CooldownEnds
    BY <2>3, ModesStay DEF CooldownEnds, ledger, counts, MachineTypes, Phases
  <2>4. CASE OperatorClears
    BY <2>4, ModesStay, GatesAssumption
       DEF OperatorClears, ledger, modes, counts, MachineTypes, Phases
  <2> QED BY <2>1, <2>2, <2>3, <2>4
<1>2. UNCHANGED <<day, rm, disk, truth, fresh>> /\ (up' = "up" => up = "up")
  BY DEF KillPass, InTime, HoldPass, CooldownEnds, OperatorClears
<1> QED
  BY <1>1, <1>2, ManagerStays DEF GateInv

\* The exit's row and update_pnl: each counts the trade once.
LEMMA RowsMove ==
  ASSUME GateInv, Exit \/ UpdatePnl
  PROVE  GateInv'
<1>1. UNCHANGED <<day, rm, disk, truth, fresh>> /\ (up' = "up" => up = "up")
  BY DEF Exit, UpdatePnl
<1>2. CASE Exit
  <2>1. PICK r \in {-l : l \in Losing} \cup Winning :
          /\ up = "up" /\ state = "IN_TRADE" /\ state' = "EXITED" /\ gross' = r * lots
          /\ rowPnl' = rowPnl + r * lots /\ UNCHANGED <<up, lots, pnl, modes, counts, lastOrder>>
    BY <1>2 DEF Exit
  <2>2. lots \in Nat
    BY GatesAssumption DEF GateInv, MachineTypes
  <2>3. r * lots \in Int /\ lots * LotRisk \in Nat /\ r * lots >= -(lots * LotRisk)
    BY <2>2, ResultIs
  <2>4. MachineTypes'
    BY <2>1, <2>3, ModesStay DEF GateInv, MachineTypes, Phases, Trading, counts, modes
  <2>5. RowsCounted'
    BY <2>1, <2>3 DEF GateInv, MachineTypes, RowsCounted
  <2>6. OrderedWithin'
    BY <1>1, <2>1, <2>3 DEF GateInv, OrderedWithin, Trading
  <2>7. LastOrderRight'
    BY <2>1 DEF GateInv, LastOrderRight, LossLimitHolds
  <2> QED
    BY <1>1, <2>4, <2>5, <2>6, <2>7, ManagerStays DEF GateInv
<1>3. CASE UpdatePnl
  <2>1. MachineTypes'
    BY <1>3, ModesStay DEF UpdatePnl, GateInv, MachineTypes, Phases, Trading, counts, modes
  <2>2. RowsCounted'
    BY <1>3 DEF UpdatePnl, GateInv, MachineTypes, RowsCounted
  <2>3. OrderedWithin'
    BY <1>3 DEF UpdatePnl, GateInv, OrderedWithin, Trading
  <2>4. LastOrderRight'
    BY <1>3 DEF UpdatePnl, GateInv, LastOrderRight, LossLimitHolds
  <2> QED
    BY <1>1, <2>1, <2>2, <2>3, <2>4, ManagerStays DEF GateInv
<1> QED
  BY <1>2, <1>3

\* Where the clock of a pause stands does not matter to what is on file.
LEMMA TickKeeps == ASSUME GateInv, Tick PROVE GateInv'
<1>1. /\ rm \in Managers /\ fresh \in 0..PauseLen /\ PauseLen \in Nat \ {0}
      /\ StreakLimit \in Nat \ {0} /\ SwitchLen \in Nat
  BY GatesAssumption DEF GateInv, ManagerTypes
<1>2. /\ rm' = [rm EXCEPT !.pause = Down(@)] /\ fresh' = Down(fresh)
      /\ switchWait' = Down(switchWait)
      /\ UNCHANGED <<up, day, state, lots, gross, rowPnl, pnl, file, unsaved, forgot, faults,
                     mode, truth, lastOrder, trades, launches>>
  BY DEF Tick, machine, ledger, counts, disk
<1>3. Down(rm.pause) \in NoPause..PauseLen
  BY <1>1 DEF Managers, Down, NoPause
<1>4. rm' = [daily |-> rm.daily, weekly |-> rm.weekly, total |-> rm.total, peak |-> rm.peak,
             equity |-> rm.equity, losses |-> rm.losses, wins |-> rm.wins,
             pause |-> Down(rm.pause), hist |-> rm.hist]
  <2> DEFINE p == Down(rm.pause)
  <2>1. rm' = [rm EXCEPT !.pause = p]
    BY <1>2, Zenon
  <2> HIDE DEF p
  <2>2. rm = [daily |-> rm.daily, weekly |-> rm.weekly, total |-> rm.total, peak |-> rm.peak,
             equity |-> rm.equity, losses |-> rm.losses, wins |-> rm.wins,
             pause |-> rm.pause, hist |-> rm.hist]
    BY <1>1 DEF Managers
  <2>3. rm' = [daily |-> rm.daily, weekly |-> rm.weekly, total |-> rm.total, peak |-> rm.peak,
             equity |-> rm.equity, losses |-> rm.losses, wins |-> rm.wins,
             pause |-> p, hist |-> rm.hist]
    BY <2>1, <2>2
  <2> QED BY <2>3 DEF p
<1>5. rm' \in Managers
  BY <1>1, <1>3, <1>4 DEF Managers
<1>6. ManagerTypes'
  BY <1>1, <1>2, <1>5 DEF GateInv, ManagerTypes, Down
<1>7. PauseEarned'
  <2>1. OnStreak(rm)' <=> OnStreak(rm)
    BY <1>4 DEF OnStreak
  <2>2. rm.pause \in NoPause..PauseLen /\ rm'.pause = Down(rm.pause)
    BY <1>1, <1>4 DEF Managers
  <2>3. CASE rm.pause = NoPause
    <3>1. fresh = 0 /\ ~OnStreak(rm) /\ rm'.pause = NoPause /\ fresh' = 0
      BY <2>2, <2>3, <1>2 DEF GateInv, PauseEarned, Down, NoPause
    <3> QED BY <3>1, <2>1 DEF PauseEarned
  <2>4. CASE rm.pause # NoPause
    <3>1. rm.pause = fresh
      BY <2>4 DEF GateInv, PauseEarned
    <3>2. rm'.pause = fresh' /\ rm'.pause # NoPause
      BY <3>1, <2>2, <2>4, <1>2 DEF Down, NoPause
    <3> QED BY <3>2 DEF PauseEarned
  <2> QED BY <2>3, <2>4
<1>8. OnFile'
  BY <1>2, <1>4 DEF GateInv, OnFile
<1>9. RiskExact' /\ BothWithin'
  BY <1>2, <1>4 DEF GateInv, RiskExact, BothWithin, Within
<1>10. MachineTypes'
  BY <1>1, <1>2 DEF GateInv, MachineTypes, Trading, Down
<1>11. RowsCounted' /\ LastOrderRight'
  BY <1>2 DEF GateInv, RowsCounted, LastOrderRight, LossLimitHolds
<1>12. OrderedWithin'
  BY <1>2, <1>4 DEF GateInv, OrderedWithin, Trading, Down, NoPause
<1> QED
  BY <1>6, <1>7, <1>8, <1>9, <1>10, <1>11, <1>12 DEF GateInv

\* A start reads what the file has of its day and of its week.
LEMMA StartKeeps == ASSUME GateInv, Starts PROVE GateInv'
<1>1. /\ ManagerTypes /\ OnFile /\ day \in Nat \ {0} /\ file \in Files /\ truth \in Truths
      /\ file.day \in 1..day /\ Within(file)
  BY DEF GateInv, ManagerTypes, BothWithin
<1>2. /\ up # "up" /\ up' = "up" /\ launches < MaxLaunches /\ launches' = launches + 1
      /\ rm' = Loaded /\ pnl' = rowPnl /\ fresh' = 0 /\ forgot' = forgot \cup unsaved
      /\ state' = (IF lots > 0 THEN "HELD" ELSE state)
      /\ UNCHANGED <<day, lots, gross, rowPnl, mode, switchWait, truth, lastOrder, trades>>
      /\ IF file.whole /\ Week(file.day) # Week(day) THEN Save(rm')
         ELSE UNCHANGED <<file, unsaved, faults>>
  BY DEF Starts, modes
<1>3. /\ rm' \in Managers /\ rm'.total = file.total /\ rm'.peak = file.peak
      /\ rm'.daily = (IF file.day = day THEN file.daily ELSE 0)
      /\ rm'.weekly = (IF Week(file.day) # Week(day) THEN 0 ELSE file.weekly)
      /\ rm'.pause = NoPause /\ rm'.losses = 0 /\ rm'.wins = 0
  BY <1>1, <1>2, LoadedIs
<1>4. /\ "day" \notin forgot' => rm'.daily = truth.day - truth.wiped
      /\ "week" \notin forgot' => rm'.weekly = truth.week
      /\ "total" \notin forgot' => rm'.total = truth.total /\ rm'.peak = truth.top
  BY <1>1, <1>2, <1>3 DEF OnFile, Truths
<1>5. Within(rm') /\ rm'.total <= rm'.peak
  BY <1>1, <1>3, LimitsAre DEF OnFile, Within, WeekWithin
<1>6. /\ file' \in Files /\ Len(file'.hist) <= HistKept /\ file'.day \in 1..day
      /\ (~file'.whole => file' = NoFile) /\ unsaved' \subseteq Parts
      /\ faults' \in 0..MaxFaults /\ Within(file') /\ file'.total <= file'.peak
      /\ \/ UNCHANGED <<file, unsaved>>
         \/ unsaved' = Parts
         \/ /\ unsaved' = {} /\ file'.daily = rm'.daily /\ file'.weekly = rm'.weekly
            /\ file'.total = rm'.total /\ file'.peak = rm'.peak /\ file'.day = day
  <2>1. CASE Save(rm')
    BY <2>1, <1>1, <1>3, <1>5, SaveIs DEF OnFile
  <2>2. CASE UNCHANGED <<file, unsaved, faults>>
    BY <2>2, <1>1 DEF OnFile, ManagerTypes
  <2> QED BY <2>1, <2>2, <1>2
<1>7. ManagerTypes'
  <2>1. forgot' \subseteq Parts
    BY <1>1, <1>2 DEF ManagerTypes
  <2> QED BY <2>1, <1>1, <1>2, <1>3, <1>6, LimitsAre DEF ManagerTypes
<1>8. OnFile'
  <2>1. CASE UNCHANGED <<file, unsaved>>
    BY <2>1, <1>1, <1>2, <1>5 DEF OnFile
  <2>2. CASE unsaved' = Parts
    BY <2>2, <1>5, <1>6 DEF OnFile, Parts
  <2>3. CASE /\ unsaved' = {} /\ file'.daily = rm'.daily /\ file'.weekly = rm'.weekly
             /\ file'.total = rm'.total /\ file'.peak = rm'.peak /\ file'.day = day
    BY <2>3, <1>2, <1>4, <1>5, <1>6 DEF OnFile
  <2> QED BY <2>1, <2>2, <2>3, <1>6
<1>9. PauseEarned'
  BY <1>2, <1>3, LimitsAre DEF PauseEarned, OnStreak
<1>10. RiskExact' /\ BothWithin'
  BY <1>2, <1>4, <1>5, <1>6 DEF RiskExact, BothWithin
<1>11. MachineTypes' /\ ~Trading'
  BY <1>2, GatesAssumption DEF GateInv, MachineTypes, Trading, Phases
<1>12. RowsCounted' /\ LastOrderRight'
  BY <1>2, <1>11 DEF GateInv, RowsCounted, LastOrderRight, LossLimitHolds, Trading
<1>13. OrderedWithin'
  BY <1>11 DEF OrderedWithin
<1> QED
  BY <1>7, <1>8, <1>9, <1>10, <1>11, <1>12, <1>13 DEF GateInv

\* What is left when there is no manager, but for its file.
LEMMA GoneKeeps ==
  ASSUME GateInv, NoMain, up' # "up", UNCHANGED <<day, lots, rowPnl, trades, launches>>,
         \/ UNCHANGED <<state, mode, switchWait>> /\ up' = "between"
         \/ NewProcess /\ up' = "down"
  PROVE  /\ rm' \in Managers /\ Within(rm') /\ rm'.total <= rm'.peak /\ fresh' \in 0..PauseLen
         /\ PauseEarned' /\ RiskExact' /\ (MachineTypes /\ RowsCounted)'
         /\ OrderedWithin' /\ LastOrderRight'
<1>1. /\ rm' = NewManager /\ pnl' = 0 /\ fresh' = 0 /\ gross' = 0 /\ lastOrder' = NoOrder
  BY DEF NoMain
<1>2. NoOrder \in Orders
  BY DEF NoOrder, Orders
<1>3. rm' \in Managers /\ Within(rm') /\ rm'.total <= rm'.peak /\ fresh' \in 0..PauseLen
  BY <1>1, NewIs, NewWithin, LimitsAre
<1>4. PauseEarned'
  BY <1>1, NewIs, LimitsAre DEF PauseEarned, OnStreak
<1>5. MachineTypes'
  BY <1>1, <1>2, LimitsAre DEF NewProcess, GateInv, MachineTypes, Trading, Phases
<1>6. RiskExact' /\ RowsCounted' /\ OrderedWithin' /\ LastOrderRight'
  BY <1>1 DEF RiskExact, RowsCounted, OrderedWithin, LastOrderRight, LossLimitHolds, NoOrder
<1> QED
  BY <1>3, <1>4, <1>5, <1>6

LEMMA DiesKeeps == ASSUME GateInv, Dies PROVE GateInv'
<1>1. /\ NoMain /\ NewProcess /\ up' = "down"
      /\ UNCHANGED <<day, lots, rowPnl, file, unsaved, forgot, faults, truth, trades, launches>>
  BY DEF Dies, disk, counts
<1>2. /\ rm' \in Managers /\ Within(rm') /\ rm'.total <= rm'.peak /\ fresh' \in 0..PauseLen
      /\ PauseEarned' /\ RiskExact' /\ (MachineTypes /\ RowsCounted)'
      /\ OrderedWithin' /\ LastOrderRight'
  BY <1>1, GoneKeeps
<1>3. ManagerTypes' /\ OnFile' /\ BothWithin'
  BY <1>1, <1>2 DEF GateInv, ManagerTypes, OnFile, BothWithin
<1> QED
  BY <1>2, <1>3 DEF GateInv

\* end_of_day forgets the day's result and says so.
LEMMA EndKeeps == ASSUME GateInv, MainEnds PROVE GateInv'
<1> DEFINE r == [rm EXCEPT !.daily = 0, !.hist = Append(@, rm.equity)]
<1>1. /\ ManagerTypes /\ OnFile /\ day \in Nat \ {0} /\ file \in Files /\ truth \in Truths
      /\ rm \in Managers /\ Within(rm) /\ Within(file)
  BY DEF GateInv, ManagerTypes, BothWithin
<1>2. /\ up = "up" /\ Save(r) /\ truth' = [truth EXCEPT !.wiped = @ + rm.daily] /\ NoMain
      /\ up' # "up"
      /\ UNCHANGED <<day, lots, rowPnl, forgot, trades, launches>>
      /\ \/ UNCHANGED <<state, mode, switchWait>> /\ up' = "between"
         \/ NewProcess /\ up' = "down"
  BY DEF MainEnds, EndOfDay, modes, counts
<1>3. r = [daily |-> 0, weekly |-> rm.weekly, total |-> rm.total, peak |-> rm.peak,
           equity |-> rm.equity, losses |-> rm.losses, wins |-> rm.wins, pause |-> rm.pause,
           hist |-> Append(rm.hist, rm.equity)]
  <2> DEFINE h == Append(rm.hist, rm.equity)
             a == [rm EXCEPT !.daily = 0]
  <2>1. r = [a EXCEPT !.hist = h]
    <3>1. a.hist = rm.hist
      BY <1>1, Zenon DEF Managers
    <3> QED BY <3>1, Zenon
  <2> HIDE DEF h
  <2>2. a = [daily |-> 0, weekly |-> rm.weekly, total |-> rm.total, peak |-> rm.peak,
             equity |-> rm.equity, losses |-> rm.losses, wins |-> rm.wins, pause |-> rm.pause,
             hist |-> rm.hist]
    <3>1. rm = [daily |-> rm.daily, weekly |-> rm.weekly, total |-> rm.total, peak |-> rm.peak,
             equity |-> rm.equity, losses |-> rm.losses, wins |-> rm.wins,
             pause |-> rm.pause, hist |-> rm.hist]
      BY <1>1 DEF Managers
    <3> QED BY <3>1
  <2> HIDE DEF a
  <2>3. r = [daily |-> 0, weekly |-> rm.weekly, total |-> rm.total, peak |-> rm.peak,
             equity |-> rm.equity, losses |-> rm.losses, wins |-> rm.wins, pause |-> rm.pause,
             hist |-> h]
    BY <2>1, <2>2
  <2> QED BY <2>3 DEF h
<1> HIDE DEF r
<1>4. r \in Managers
  <2>1. Append(rm.hist, rm.equity) \in Seq(Int)
    BY <1>1 DEF Managers
  <2> QED BY <2>1, <1>1, <1>3, LimitsAre DEF Managers
<1>5. truth' = [day |-> truth.day, wiped |-> truth.wiped + rm.daily, week |-> truth.week,
                total |-> truth.total, top |-> truth.top] /\ truth' \in Truths
  <2> DEFINE w == truth.wiped + rm.daily
  <2>1. w \in Int
    BY <1>1 DEF Truths, Managers
  <2>2. truth' = [truth EXCEPT !.wiped = w]
    BY <1>2, Zenon
  <2>3. truth = [day |-> truth.day, wiped |-> truth.wiped, week |-> truth.week,
                 total |-> truth.total, top |-> truth.top]
        /\ truth.day \in Int /\ truth.week \in Int /\ truth.total \in Int /\ truth.top \in Nat
    BY <1>1 DEF Truths
  <2> HIDE DEF w
  <2>4. truth' = [day |-> truth.day, wiped |-> w, week |-> truth.week,
                  total |-> truth.total, top |-> truth.top]
    BY <2>2, <2>3
  <2>5. truth' \in Truths
    BY <2>1, <2>3, <2>4 DEF Truths
  <2> QED BY <2>4, <2>5 DEF w
<1>6. Within(r) /\ r.total <= r.peak
  BY <1>1, <1>3, LimitsAre DEF Within, OnFile
<1>7. /\ file' \in Files /\ Len(file'.hist) <= HistKept /\ file'.day \in 1..day
      /\ (~file'.whole => file' = NoFile) /\ unsaved' \subseteq Parts
      /\ faults' \in 0..MaxFaults /\ Within(file') /\ file'.total <= file'.peak
      /\ \/ unsaved' = Parts
         \/ /\ unsaved' = {} /\ file'.daily = r.daily /\ file'.weekly = r.weekly
            /\ file'.total = r.total /\ file'.peak = r.peak /\ file'.day = day
  BY <1>1, <1>2, <1>4, <1>6, SaveIs DEF OnFile
<1>8. /\ rm' \in Managers /\ Within(rm') /\ rm'.total <= rm'.peak /\ fresh' \in 0..PauseLen
      /\ PauseEarned' /\ RiskExact' /\ (MachineTypes /\ RowsCounted)'
      /\ OrderedWithin' /\ LastOrderRight'
  BY <1>2, GoneKeeps
<1>9. ManagerTypes' /\ BothWithin'
  BY <1>1, <1>2, <1>5, <1>7, <1>8 DEF ManagerTypes, BothWithin
<1>10. OnFile'
  <2>1. CASE unsaved' = Parts
    BY <2>1, <1>7, <1>8 DEF OnFile, Parts
  <2>2. CASE /\ unsaved' = {} /\ file'.daily = r.daily /\ file'.weekly = r.weekly
             /\ file'.total = r.total /\ file'.peak = r.peak /\ file'.day = day
    <3>1. /\ "day" \notin forgot => rm.daily = truth.day - truth.wiped
          /\ "week" \notin forgot => rm.weekly = truth.week
          /\ "total" \notin forgot => rm.total = truth.total /\ rm.peak = truth.top
      BY <1>2 DEF GateInv, RiskExact
    <3>2. "day" \notin forgot => 0 = truth'.day - truth'.wiped
      BY <3>1, <1>1, <1>5 DEF Truths
    <3>3. r.daily = 0 /\ r.weekly = rm.weekly /\ r.total = rm.total /\ r.peak = rm.peak
      BY <1>3
    <3>4. truth'.week = truth.week /\ truth'.total = truth.total /\ truth'.top = truth.top
      BY <1>5
    <3> QED BY <2>2, <3>1, <3>2, <3>3, <3>4, <1>2, <1>7, <1>8 DEF OnFile
  <2> QED BY <2>1, <2>2, <1>7
<1> QED
  BY <1>8, <1>9, <1>10 DEF GateInv

\* A new day starts its history anew, and so does a new week.
LEMMA DayKeeps == ASSUME GateInv, NewDay PROVE GateInv'
<1>1. /\ ManagerTypes /\ OnFile /\ day \in Nat \ {0} /\ file \in Files /\ truth \in Truths
      /\ file.day \in 1..day /\ rm \in Managers
  BY DEF GateInv, ManagerTypes
<1> DEFINE w == IF Week(day + 1) # Week(day) THEN 0 ELSE truth.week
           gone == {"day"} \cup (IF Week(day + 1) # Week(day) THEN {"week"} ELSE {})
<1>2. /\ up = "down" /\ day < MaxDays /\ day' = day + 1 /\ rowPnl' = 0
      /\ truth' = [truth EXCEPT !.day = 0, !.wiped = 0, !.week = w]
      /\ unsaved' = unsaved \ gone /\ forgot' = forgot \ gone
      /\ UNCHANGED <<up, state, lots, gross, pnl, rm, file, faults, mode, switchWait, fresh,
                     lastOrder, trades, launches>>
  BY Zenon DEF NewDay, Turned, machine, modes, counts
<1>3. w \in Int
  BY <1>1 DEF Truths
<1> HIDE DEF w, gone
<1>4. truth' = [day |-> 0, wiped |-> 0, week |-> w, total |-> truth.total, top |-> truth.top]
  <2> DEFINE a == [truth EXCEPT !.day = 0]
             b == [a EXCEPT !.wiped = 0]
  <2>1. truth' = [b EXCEPT !.week = w]
    BY <1>2, Zenon
  <2>2. a = [day |-> 0, wiped |-> truth.wiped, week |-> truth.week, total |-> truth.total,
             top |-> truth.top]
    BY <1>1 DEF Truths
  <2> HIDE DEF a
  <2>3. b = [day |-> 0, wiped |-> 0, week |-> truth.week, total |-> truth.total,
             top |-> truth.top]
    BY <2>2
  <2> HIDE DEF b
  <2> QED BY <2>1, <2>3
<1>5. truth' \in Truths
  BY <1>1, <1>3, <1>4 DEF Truths
<1>6. ManagerTypes'
  <2>1. MaxDays \in Nat /\ file.day \in Nat /\ file.day >= 1 /\ file.day <= day
    BY <1>1, GatesAssumption
  <2>2. day' \in 1..MaxDays /\ file'.day \in 1..day'
    BY <2>1, <1>1, <1>2
  <2> QED BY <2>2, <1>1, <1>2, <1>5 DEF ManagerTypes
<1>7. "week" \notin unsaved' \cup forgot' =>
        IF Week(file.day) = Week(day + 1) THEN file.weekly = w ELSE w = 0
  <2>1. Week(file.day) <= Week(day) /\ Week(day) <= Week(day + 1)
        /\ Week(file.day) \in Int /\ Week(day) \in Int /\ Week(day + 1) \in Int
    BY <1>1, WeeksPass
  <2>2. "week" \notin unsaved \cup forgot =>
          IF Week(file.day) = Week(day) THEN file.weekly = truth.week ELSE truth.week = 0
    BY <1>1 DEF OnFile
  <2>3. CASE Week(day + 1) = Week(day)
    <3>1. gone = {"day"} /\ w = truth.week
      BY <2>3 DEF gone, w
    <3> QED BY <3>1, <2>2, <2>3, <1>2
  <2>4. CASE Week(day + 1) # Week(day)
    BY <2>4, <2>1 DEF w
  <2> QED BY <2>3, <2>4
<1>8. OnFile'
  <2>1. "day" \in gone /\ "total" \notin gone
    BY DEF gone
  <2>2. file.day # day + 1
    BY <1>1
  <2>3. /\ truth'.day = 0 /\ truth'.wiped = 0 /\ truth'.week = w
        /\ truth'.total = truth.total /\ truth'.top = truth.top
    BY <1>4
  <2>4. "total" \notin unsaved' \cup forgot' => file.total = truth.total /\ file.peak = truth.top
    BY <1>1, <1>2, <2>1 DEF OnFile
  <2> QED BY <1>1, <1>2, <1>7, <2>2, <2>3, <2>4 DEF OnFile
<1>9. RiskExact' /\ BothWithin'
  BY <1>2 DEF GateInv, RiskExact, BothWithin
<1>10. PauseEarned' /\ MachineTypes'
  BY <1>2 DEF GateInv, PauseEarned, OnStreak, MachineTypes, Trading
<1>11. RowsCounted' /\ LastOrderRight' /\ OrderedWithin'
  BY <1>2 DEF GateInv, RowsCounted, LastOrderRight, LossLimitHolds, OrderedWithin
<1> QED
  BY <1>6, <1>8, <1>9, <1>10, <1>11 DEF GateInv

\* A look at the streak, or a comparison with the peak, changes no amount.
LEMMA LookKeeps ==
  ASSUME GateInv, UNCHANGED <<day, disk, truth, fresh, up>>,
         rm' \in {rm, AfterLook, Weighed(rm), Weighed(AfterLook)}, up = "up"
  PROVE  /\ (ManagerTypes /\ OnFile /\ PauseEarned /\ RiskExact /\ BothWithin)'
         /\ rm'.daily = rm.daily /\ rm'.weekly = rm.weekly
         /\ rm'.total = rm.total /\ rm'.peak = rm.peak
         /\ ~StreakPaused => rm'.pause = NoPause \/ rm' \in {rm, Weighed(rm)}
<1>1. /\ ManagerTypes /\ rm \in Managers /\ truth \in Truths /\ PauseEarned
  BY DEF GateInv, ManagerTypes
<1>2. /\ AfterLook \in Managers
      /\ AfterLook.daily = rm.daily /\ AfterLook.weekly = rm.weekly
      /\ AfterLook.total = rm.total /\ AfterLook.peak = rm.peak
      /\ IF AfterLook.pause = NoPause THEN fresh = 0 /\ ~OnStreak(AfterLook)
         ELSE AfterLook.pause = fresh
      /\ ~StreakPaused => AfterLook.pause = NoPause
  BY <1>1, LookIs
<1>3. rm.total <= rm.peak
  BY DEF GateInv, OnFile
<1>4. MaxOf(rm.peak, rm.total) = rm.peak
  BY <1>1, <1>3 DEF MaxOf, Managers
<1>5. ASSUME NEW r \in {rm, AfterLook}
      PROVE  /\ r \in Managers /\ r.daily = rm.daily /\ r.weekly = rm.weekly
             /\ r.total = rm.total /\ r.peak = rm.peak
             /\ IF r.pause = NoPause THEN fresh = 0 /\ ~OnStreak(r) ELSE r.pause = fresh
  BY <1>1, <1>2 DEF PauseEarned
<1>6. ASSUME NEW r \in {rm, AfterLook}
      PROVE  /\ Weighed(r) \in Managers /\ Weighed(r).daily = rm.daily
             /\ Weighed(r).weekly = rm.weekly /\ Weighed(r).total = rm.total
             /\ Weighed(r).peak = rm.peak /\ Weighed(r).pause = r.pause
             /\ IF Weighed(r).pause = NoPause THEN fresh = 0 /\ ~OnStreak(Weighed(r))
                ELSE Weighed(r).pause = fresh
  BY <1>4, <1>5, WeighedIs DEF OnStreak
<1>7. PICK r \in {rm, AfterLook} : rm' = r \/ rm' = Weighed(r)
  OBVIOUS
<1>8. /\ rm' \in Managers /\ rm'.daily = rm.daily /\ rm'.weekly = rm.weekly
      /\ rm'.total = rm.total /\ rm'.peak = rm.peak
      /\ IF rm'.pause = NoPause THEN fresh = 0 /\ ~OnStreak(rm') ELSE rm'.pause = fresh
  BY <1>5, <1>6, <1>7
<1>9. ManagerTypes' /\ OnFile' /\ RiskExact' /\ BothWithin'
  <2>1. UNCHANGED <<file, unsaved, forgot, faults>>
    BY DEF disk
  <2> QED BY <1>8, <2>1 DEF GateInv, ManagerTypes, OnFile, RiskExact, BothWithin, Within
<1>10. PauseEarned'
  BY <1>8 DEF PauseEarned, OnStreak
<1>11. ~StreakPaused => rm'.pause = NoPause \/ rm' \in {rm, Weighed(rm)}
  BY <1>2, <1>6
<1> QED
  BY <1>8, <1>9, <1>10, <1>11

LEMMA IdleKeeps == ASSUME GateInv, IdlePass PROVE GateInv'
<1>1. /\ up = "up" /\ UpdateMode /\ rm' \in {rm, AfterLook} /\ state' \in {"IDLE", "ENTRY_READY"}
      /\ state \in {"IDLE", "KILL_SWITCH"}
      /\ UNCHANGED <<up, day, lots, gross, rowPnl, pnl, disk, truth, fresh, lastOrder, trades,
                     launches>>
  BY DEF IdlePass, InTime, ledger, counts
<1>2. (ManagerTypes /\ OnFile /\ PauseEarned /\ RiskExact /\ BothWithin)'
  BY <1>1, LookKeeps
<1>3. MachineTypes'
  BY <1>1, ModesStay DEF GateInv, MachineTypes, Trading, Phases
<1>4. RowsCounted' /\ LastOrderRight'
  BY <1>1 DEF GateInv, RowsCounted, LastOrderRight, LossLimitHolds
<1>5. OrderedWithin'
  BY <1>1 DEF OrderedWithin, Trading
<1> QED
  BY <1>2, <1>3, <1>4, <1>5 DEF GateInv

\* An order leaves no ceiling behind that it does not respect itself.
LEMMA ReadyKeeps == ASSUME GateInv, ReadyPass PROVE GateInv'
<1>1. PICK late \in BOOLEAN :
        /\ InTime(late) /\ ~LimitKills(late) /\ state = "ENTRY_READY" /\ UpdateMode
        /\ \/ (DrawdownHit \/ WeeklyHit) /\ rm' = Weighed(rm) /\ TurnedDown
           \/ /\ ~DrawdownHit /\ ~WeeklyHit /\ rm' = Weighed(AfterLook)
              /\ \/ TurnedDown
                 \/ /\ ~StreakPaused
                    /\ \E m \in Multipliers :
                         IF Sized(Remaining(rm), m) = 0 THEN TurnedDown
                         ELSE Ordered(late, Sized(Remaining(rm), m))
        /\ UNCHANGED <<up, day, gross, rowPnl, pnl, disk, truth, fresh, launches>>
  BY DEF ReadyPass, ledger
<1>2. /\ up = "up" /\ rm' \in {rm, AfterLook, Weighed(rm), Weighed(AfterLook)}
      /\ UNCHANGED <<day, disk, truth, fresh, up>>
  BY <1>1 DEF InTime
<1>3. /\ (ManagerTypes /\ OnFile /\ PauseEarned /\ RiskExact /\ BothWithin)'
      /\ rm'.daily = rm.daily
  BY <1>2, LookKeeps
<1>4. CASE TurnedDown
  <2>1. /\ state' = "COOLDOWN" /\ UNCHANGED <<lots, lastOrder, trades>>
        /\ UNCHANGED <<up, gross, rowPnl, pnl, launches>>
    BY <1>1, <1>4 DEF TurnedDown
  <2>2. MachineTypes'
    BY <1>1, <2>1, <1>2, ModesStay DEF GateInv, MachineTypes, Trading, Phases
  <2>3. RowsCounted' /\ LastOrderRight' /\ OrderedWithin'
    BY <1>1, <2>1 DEF GateInv, RowsCounted, LastOrderRight, LossLimitHolds, OrderedWithin, Trading
  <2> QED
    BY <1>3, <2>2, <2>3 DEF GateInv
<1>5. CASE ~TurnedDown
  <2>1. /\ ~DrawdownHit /\ ~WeeklyHit /\ rm' = Weighed(AfterLook) /\ ~StreakPaused
    BY <1>1, <1>5
  <2>2. PICK m \in Multipliers :
          Sized(Remaining(rm), m) # 0 /\ Ordered(late, Sized(Remaining(rm), m))
    BY <1>1, <1>5
  <2> DEFINE n == Sized(Remaining(rm), m)
  <2>3. /\ rm \in Managers /\ truth \in Truths /\ rm.daily \in Int
        /\ rowPnl \in Int /\ pnl \in Int
    BY DEF GateInv, ManagerTypes, MachineTypes, Managers
  <2>4. /\ Remaining(rm) \in Nat /\ Remaining(rm) <= PerTrade
        /\ Remaining(rm) > 0 => Remaining(rm) <= DailyLoss - MaxOf(0, -rm.daily)
    BY <2>3, LimitsAre DEF Remaining, MaxOf, MinOf
  <2>5. m \in Nat
    BY GatesAssumption
  <2>6. /\ n \in 1..MaxLots /\ Remaining(rm) > 0 /\ n * LotRisk <= Remaining(rm) + Tolerance
        /\ n * LotRisk <= MaxOf(MinOf(Remaining(rm), HardCap), LotRisk)
    BY <2>2, <2>4, <2>5, SizedIs
  <2> HIDE DEF n
  <2>7. MaxLots \in Nat /\ n * LotRisk \in Nat
    BY <2>6, LimitsAre, GatesAssumption
  <2>8. MaxOf(MinOf(Remaining(rm), HardCap), LotRisk) <= MaxOf(MinOf(PerTrade, HardCap), LotRisk)
        /\ MaxOf(MinOf(Remaining(rm), HardCap), LotRisk) \in Nat
        /\ MaxOf(MinOf(PerTrade, HardCap), LotRisk) \in Nat
    BY <2>4, LimitsAre DEF MaxOf, MinOf
  <2>9. /\ n * LotRisk <= MaxOf(MinOf(PerTrade, HardCap), LotRisk)
        /\ n * LotRisk <= DailyLoss - MaxOf(0, -rm.daily) + Tolerance
    <3>1. MaxOf(0, -rm.daily) \in Int
      BY <2>3 DEF MaxOf
    <3> QED BY <3>1, <2>4, <2>6, <2>7, <2>8, LimitsAre
  <2>10. /\ trades < MaxTrades /\ trades' = trades + 1 /\ state' = "IN_TRADE" /\ lots' = n
         /\ lastOrder' = [over |-> pnl <= -DailyLoss, late |-> late, short |-> Short,
                          paused |-> fresh > 0]
    BY <2>2 DEF Ordered, n
  <2>11. fresh = 0 /\ rm'.pause = NoPause
    <3>1. AfterLook \in Managers /\ fresh = 0 /\ AfterLook.pause = NoPause
      BY <2>1, LookIs DEF GateInv
    <3> QED BY <3>1, <2>1, WeighedIs
  <2>12. /\ rm'.weekly = rm.weekly /\ rm'.total = rm.total /\ rm'.peak = rm.peak
    BY <1>2, LookKeeps
  <2>13. rm'.weekly > -WeeklyLoss
    BY <2>1, <2>3, <2>12, LimitsAre DEF WeeklyHit, Managers
  <2>14. Lookback = 0 => rm'.peak - rm'.total < Drawdown
    <3> SUFFICES ASSUME Lookback = 0 PROVE rm'.peak - rm'.total < Drawdown
      OBVIOUS
    <3>1. Weighed(rm).peak = MaxOf(rm.peak, rm.total) /\ rm.total <= rm.peak
      BY <2>3, WeighedIs DEF GateInv, OnFile
    <3>2. EffectivePeak(Weighed(rm)) = rm.peak
      BY <3>1, <2>3 DEF EffectivePeak, MaxOf, Managers
    <3> QED BY <3>2, <2>1, <2>3, <2>12, LimitsAre DEF DrawdownHit, Managers
  <2>15. pnl = rowPnl
    BY <1>1, <1>2 DEF GateInv, RowsCounted
  <2>16. /\ pnl <= -DailyLoss => late
         /\ pnl <= -DailyLoss => rm.daily > rowPnl
    <3>1. ~(pnl <= -DailyLoss /\ ~late)
      BY <1>1 DEF LimitKills
    <3>2. rm.daily > -DailyLoss
      BY <2>3, <2>4, <2>6, LimitsAre DEF MaxOf
    <3>3. pnl <= -DailyLoss => rm.daily > rowPnl
      BY <3>2, <2>3, <2>15, LimitsAre
    <3> QED BY <3>1, <3>3, Zenon
  <2>17. LastOrderRight' /\ lastOrder' \in Orders
    <3> DEFINE over == pnl <= -DailyLoss
               shorted == rm.daily > rowPnl
               stopped == fresh > 0
    <3>1. /\ over => late
          /\ over => shorted
          /\ ~stopped /\ over \in BOOLEAN /\ shorted \in BOOLEAN /\ stopped \in BOOLEAN
      BY <2>11, <2>16
    <3>2. lastOrder' = [over |-> over, late |-> late, short |-> shorted, paused |-> stopped]
      BY <2>10, Zenon DEF Short
    <3> HIDE DEF over, shorted, stopped
    <3>3. lastOrder' \in Orders
      BY <3>1, <3>2, Zenon DEF Orders
    <3>4. /\ lastOrder'.over = over /\ lastOrder'.late = late /\ lastOrder'.short = shorted
          /\ lastOrder'.paused = stopped
      BY <3>2, Zenon
    <3> QED BY <3>1, <3>3, <3>4, Zenon DEF LastOrderRight, LossLimitHolds
  <2>18. MachineTypes'
    BY <1>1, <2>6, <2>7, <2>10, <2>17, <1>2, ModesStay, GatesAssumption
       DEF GateInv, MachineTypes, Trading, Phases
  <2>19. RowsCounted'
    BY <1>1, <2>10, <2>15 DEF RowsCounted
  <2>20. OrderedWithin'
    BY <1>1, <1>3, <2>9, <2>10, <2>11, <2>13, <2>14 DEF OrderedWithin, Trading
  <2> QED
    BY <1>3, <2>17, <2>18, <2>19, <2>20 DEF GateInv
<1> QED
  BY <1>4, <1>5

\* record_trade counts a trade that was within every ceiling when it was ordered.
LEMMA RecordKeeps == ASSUME GateInv, RecordTrade PROVE GateInv'
<1> DEFINE net == gross - Cost
           u   == lots * LotRisk
           t   == truth.total + net
<1>1. /\ ManagerTypes /\ OnFile /\ day \in Nat \ {0} /\ truth \in Truths
      /\ file.day \in 1..day /\ rm \in Managers /\ gross \in Int /\ lots \in 0..MaxLots
      /\ PauseEarned /\ Within(file) /\ Within(rm)
  BY DEF GateInv, ManagerTypes, MachineTypes, BothWithin
<1>2. /\ up = "up" /\ state = "COUNTED" /\ state' \in {"COOLDOWN", "KILL_SWITCH"}
      /\ rm' = Streak(Recorded(rm, net), net) /\ Save(rm') /\ UNCHANGED forgot
      /\ truth' = [truth EXCEPT !.day = @ + net, !.week = @ + net, !.total = @ + net,
                                !.top = MaxOf(@, t)]
      /\ fresh' = (IF OnStreak(rm') THEN PauseLen ELSE fresh)
      /\ lastOrder' = NoOrder /\ gross' = 0 /\ lots' = 0
      /\ UNCHANGED <<up, day, rowPnl, pnl, mode, switchWait, trades, launches>>
  BY Zenon DEF RecordTrade, ledger, modes, counts
<1>3. /\ u <= MaxOf(MinOf(PerTrade, HardCap), LotRisk)
      /\ u <= DailyLoss - MaxOf(0, -rm.daily) + Tolerance
      /\ rm.weekly > -WeeklyLoss
      /\ Lookback = 0 => rm.peak - rm.total < Drawdown
      /\ rm.pause = NoPause /\ gross >= -u
  BY <1>2 DEF GateInv, OrderedWithin, Trading
<1>4. fresh = 0 /\ ~OnStreak(rm)
  BY <1>1, <1>3 DEF PauseEarned
<1>5. net \in Int /\ u \in Nat /\ t \in Int
  <2>1. MaxLots \in Nat /\ lots \in Nat
    BY <1>1, GatesAssumption
  <2> QED BY <2>1, <1>1, LimitsAre DEF Truths
<1>6. net >= -u - Cost
  BY <1>1, <1>3, <1>5, LimitsAre
<1> HIDE DEF net, u
<1> DEFINE r == Recorded(rm, net)
<1>7. /\ r \in Managers /\ r.daily = rm.daily + net /\ r.weekly = rm.weekly + net
      /\ r.total = rm.total + net /\ r.peak = MaxOf(rm.peak, rm.total + net)
      /\ r.pause = NoPause /\ ~OnStreak(r)
  BY <1>1, <1>3, <1>4, <1>5, RecordedIs DEF OnStreak
<1> HIDE DEF r
<1>8. /\ rm' \in Managers /\ rm'.daily = rm.daily + net /\ rm'.weekly = rm.weekly + net
      /\ rm'.total = rm.total + net /\ rm'.peak = MaxOf(rm.peak, rm.total + net)
      /\ rm'.pause = (IF OnStreak(rm') THEN PauseLen ELSE NoPause)
  <2>1. rm' = Streak(r, net)
    BY <1>2 DEF r
  <2> QED BY <2>1, <1>5, <1>7, StreakIs
<1>9. truth' = [day |-> truth.day + net, wiped |-> truth.wiped, week |-> truth.week + net,
                total |-> t, top |-> MaxOf(truth.top, t)]
  <2> DEFINE d == truth.day + net
             w == truth.week + net
             p == MaxOf(truth.top, t)
             b1 == [truth EXCEPT !.day = d]
             b2 == [b1 EXCEPT !.week = w]
             b3 == [b2 EXCEPT !.total = t]
  <2>1. truth = [day |-> truth.day, wiped |-> truth.wiped, week |-> truth.week,
                 total |-> truth.total, top |-> truth.top]
    BY <1>1 DEF Truths
  <2>2. truth' = [b3 EXCEPT !.top = p]
    <3>1. b1.week = truth.week /\ b2.total = truth.total /\ b3.top = truth.top
      BY <2>1, Zenon
    <3> QED BY <3>1, <1>2, Zenon
  <2> HIDE DEF d, w, p, t
  <2>3. b1 = [day |-> d, wiped |-> truth.wiped, week |-> truth.week,
              total |-> truth.total, top |-> truth.top]
    BY <2>1
  <2> HIDE DEF b1
  <2>4. b2 = [day |-> d, wiped |-> truth.wiped, week |-> w,
              total |-> truth.total, top |-> truth.top]
    BY <2>3
  <2> HIDE DEF b2
  <2>5. b3 = [day |-> d, wiped |-> truth.wiped, week |-> w, total |-> t, top |-> truth.top]
    BY <2>4
  <2> HIDE DEF b3
  <2>6. truth' = [day |-> d, wiped |-> truth.wiped, week |-> w, total |-> t, top |-> p]
    BY <2>2, <2>5
  <2> QED BY <2>6 DEF d, w, p
<1>10. /\ truth.day \in Int /\ truth.wiped \in Int /\ truth.week \in Int /\ truth.total \in Int
       /\ truth.top \in Nat
  BY <1>1 DEF Truths
<1>11. MaxOf(truth.top, t) \in Nat /\ MaxOf(truth.top, t) \in {truth.top, t}
       /\ MaxOf(truth.top, t) >= t
  BY <1>5, <1>10 DEF MaxOf
<1>12. truth' \in Truths
  BY <1>5, <1>9, <1>10, <1>11 DEF Truths
<1>13. -rm'.daily <= DailyLoss + Cost + Tolerance
  <2>1. rm.daily \in Int
    BY <1>1 DEF Managers
  <2>2. MaxOf(0, -rm.daily) \in Int /\ MaxOf(0, -rm.daily) >= -rm.daily
    BY <2>1 DEF MaxOf
  <2> QED BY <2>1, <2>2, <1>3, <1>5, <1>6, <1>8, LimitsAre
<1>14. /\ rm.total \in Int /\ rm.peak \in Nat /\ rm.weekly \in Int /\ rm.total <= rm.peak
  BY <1>1 DEF Managers, OnFile
<1>15. /\ rm'.peak \in {rm.peak, rm.total + net} /\ rm'.total <= rm'.peak
  BY <1>5, <1>8, <1>14 DEF MaxOf
<1>16. WeekWithin(rm'.weekly) /\ DrawdownWithin(rm'.peak - rm'.total)
  <2> DEFINE m == MaxOf(MinOf(PerTrade, HardCap), LotRisk)
  <2>1. m \in Nat /\ WorstTrade = m + Cost
    BY LimitsAre DEF WorstTrade, MaxOf, MinOf
  <2>2. u <= m
    BY <1>3
  <2> HIDE DEF m
  <2>3. rm'.weekly > -(WeeklyLoss + WorstTrade)
    BY <2>1, <2>2, <1>3, <1>5, <1>6, <1>8, <1>14, LimitsAre
  <2>4. ASSUME Lookback = 0 PROVE rm'.peak - rm'.total < Drawdown + WorstTrade
    BY <2>1, <2>2, <2>4, <1>3, <1>5, <1>6, <1>8, <1>14, <1>15, LimitsAre
  <2> QED BY <2>3, <2>4 DEF WeekWithin, DrawdownWithin
<1>17. Within(rm')
  BY <1>13, <1>16 DEF Within
<1>18. /\ file' \in Files /\ Len(file'.hist) <= HistKept /\ file'.day \in 1..day
       /\ (~file'.whole => file' = NoFile) /\ unsaved' \subseteq Parts
       /\ faults' \in 0..MaxFaults /\ Within(file') /\ file'.total <= file'.peak
       /\ \/ unsaved' = Parts
          \/ /\ unsaved' = {} /\ file'.daily = rm'.daily /\ file'.weekly = rm'.weekly
             /\ file'.total = rm'.total /\ file'.peak = rm'.peak /\ file'.day = day
  BY <1>1, <1>2, <1>8, <1>15, <1>17, SaveIs DEF OnFile
<1>19. ManagerTypes'
  <2>1. fresh' \in 0..PauseLen
    BY <1>2, <1>4, LimitsAre
  <2> QED BY <2>1, <1>1, <1>2, <1>8, <1>12, <1>18 DEF ManagerTypes
<1>20. /\ "day" \notin forgot => rm'.daily = truth'.day - truth'.wiped
       /\ "week" \notin forgot => rm'.weekly = truth'.week
       /\ "total" \notin forgot => rm'.total = truth'.total /\ rm'.peak = truth'.top
  <2>1. /\ "day" \notin forgot => rm.daily = truth.day - truth.wiped
        /\ "week" \notin forgot => rm.weekly = truth.week
        /\ "total" \notin forgot => rm.total = truth.total /\ rm.peak = truth.top
    BY <1>2 DEF GateInv, RiskExact
  <2>2. "day" \notin forgot => rm.daily + net = (truth.day + net) - truth.wiped
    BY <1>5, <1>10, <2>1
  <2>3. /\ truth'.day = truth.day + net /\ truth'.wiped = truth.wiped
        /\ truth'.week = truth.week + net /\ truth'.total = truth.total + net
        /\ truth'.top = MaxOf(truth.top, truth.total + net)
    BY <1>9
  <2> QED BY <2>1, <2>2, <2>3, <1>8
<1>21. RiskExact' /\ BothWithin' /\ OnFile'
  <2>1. RiskExact'
    BY <1>2, <1>20 DEF RiskExact
  <2>2. BothWithin'
    BY <1>17, <1>18 DEF BothWithin
  <2>3. CASE unsaved' = Parts
    BY <2>1, <2>2, <2>3, <1>15, <1>18 DEF OnFile, Parts
  <2>4. CASE /\ unsaved' = {} /\ file'.daily = rm'.daily /\ file'.weekly = rm'.weekly
             /\ file'.total = rm'.total /\ file'.peak = rm'.peak /\ file'.day = day
    <3>1. OnFile'
      BY <2>4, <1>2, <1>15, <1>18, <1>20 DEF OnFile
    <3> QED BY <2>1, <2>2, <3>1
  <2> QED BY <2>3, <2>4, <1>18
<1>22. PauseEarned'
  BY <1>2, <1>4, <1>8, LimitsAre DEF PauseEarned, NoPause
<1>23. MachineTypes'
  <2>1. NoOrder \in Orders
    BY DEF NoOrder, Orders
  <2> QED BY <2>1, <1>2, GatesAssumption DEF GateInv, MachineTypes, Trading, Phases
<1>24. RowsCounted' /\ LastOrderRight' /\ OrderedWithin'
  BY <1>2 DEF GateInv, RowsCounted, LastOrderRight, LossLimitHolds, OrderedWithin, Trading, NoOrder
<1> QED
  BY <1>19, <1>21, <1>22, <1>23, <1>24 DEF GateInv

LEMMA GateStart == ASSUME GatesInit PROVE GateInv
<1>1. /\ 0 \in 0..StreakLimit /\ NoPause \in NoPause..PauseLen /\ 0 \in 0..PauseLen
      /\ 1 \in 1..MaxDays /\ 0 \in 0..MaxLots /\ 0 \in 0..SwitchLen /\ 0 \in 0..MaxTrades
      /\ 0 \in 0..MaxLaunches
  BY GatesAssumption DEF NoPause
<1>2. /\ file \in Files /\ Len(file.hist) <= HistKept /\ truth \in Truths
      /\ file.day = 1 /\ file.total = 0 /\ file.peak = 0 /\ file.daily = 0 /\ file.weekly = 0
  <2>1. <<>> \in Seq(Int) /\ Len(<<>>) = 0
    OBVIOUS
  <2>2. file = NoFile /\ NoFile \in Files /\ NoFile.hist = <<>>
    BY <2>1 DEF GatesInit, NoFile, Files
  <2>3. truth \in Truths
    BY DEF GatesInit, Truths
  <2>4. /\ NoFile.day = 1 /\ NoFile.total = 0 /\ NoFile.peak = 0 /\ NoFile.daily = 0
        /\ NoFile.weekly = 0
    BY DEF NoFile
  <2> QED BY <2>1, <2>2, <2>3, <2>4, LimitsAre
<1>3. 0 \in 0..MaxFaults /\ 1 \in 1..1
  BY GatesAssumption
<1>4. ManagerTypes
  BY <1>1, <1>2, <1>3, NewIs DEF GatesInit, ManagerTypes
<1>5. MachineTypes
  BY <1>1 DEF GatesInit, MachineTypes, Phases, Trading, NoOrder, Orders
<1>6. OnFile /\ PauseEarned
  BY <1>2, NewIs, LimitsAre DEF GatesInit, OnFile, PauseEarned, OnStreak
<1>7. RiskExact /\ BothWithin
  BY NewWithin DEF GatesInit, RiskExact, BothWithin
<1>8. RowsCounted /\ LastOrderRight /\ OrderedWithin
  BY DEF GatesInit, RowsCounted, LastOrderRight, LossLimitHolds, OrderedWithin, Trading, NoOrder
<1> QED
  BY <1>4, <1>5, <1>6, <1>7, <1>8 DEF GateInv

LEMMA GateStep == ASSUME GateInv, [GatesNext]_gateVars PROVE GateInv'
<1>1. CASE Starts
  BY <1>1, StartKeeps
<1>2. CASE MainEnds
  BY <1>2, EndKeeps
<1>3. CASE NewDay
  BY <1>3, DayKeeps
<1>4. CASE Tick
  BY <1>4, TickKeeps
<1>5. CASE KillPass \/ HoldPass \/ CooldownEnds \/ OperatorClears
  BY <1>5, MachineMoves
<1>6. CASE IdlePass
  BY <1>6, IdleKeeps
<1>7. CASE ReadyPass
  BY <1>7, ReadyKeeps
<1>8. CASE Exit \/ UpdatePnl
  BY <1>8, RowsMove
<1>9. CASE RecordTrade
  BY <1>9, RecordKeeps
<1>10. CASE Dies
  BY <1>10, DiesKeeps
<1>11. CASE UNCHANGED gateVars
  <2>1. (ManagerTypes /\ OnFile /\ PauseEarned /\ RiskExact /\ BothWithin)'
    BY <1>11, ManagerStays DEF gateVars
  <2>2. MachineTypes'
    BY <1>11 DEF GateInv, MachineTypes, Trading, gateVars, machine, ledger, modes, counts
  <2>3. RowsCounted' /\ LastOrderRight' /\ OrderedWithin'
    BY <1>11 DEF GateInv, RowsCounted, LastOrderRight, LossLimitHolds, OrderedWithin, Trading,
                 gateVars, machine, ledger
  <2> QED BY <2>1, <2>2, <2>3 DEF GateInv
<1> QED
  BY <1>1, <1>2, <1>3, <1>4, <1>5, <1>6, <1>7, <1>8, <1>9, <1>10, <1>11
     DEF GatesNext, Process, Passes, Account

LEMMA GateInvHolds == GatesSpec => []GateInv
<1>1. GatesInit => GateInv
  BY GateStart
<1>2. GateInv /\ [GatesNext]_gateVars => GateInv'
  BY GateStep
<1> QED
  BY <1>1, <1>2, PTL DEF GatesSpec

\* The risk manager's variables keep their types; the streak stops at its limit,
\* the pause and the mode's cooldown within their lengths (risk_manager.py,
\* update_streak and check_streak_limits; mode_switch.py).
THEOREM GatesTyped == GatesSpec => []GatesTypes
<1>1. GateInv => GatesTypes
  BY DEF GateInv, ManagerTypes, MachineTypes, Managers, GatesTypes
<1> QED
  BY <1>1, GateInvHolds, PTL

\* Through restarts, reconnects, days and weeks, and whichever saves fail, the
\* RiskManager measures what record_trade was told, but for the parts a start
\* has read from a file whose last save had failed; no order goes out with the
\* day's loss at the limit, but on a late tick when RiskManager counts less of it
\* than the day's rows; none starts beyond the weekly loss, the drawdown or the
\* day's budget, and none within a pause (risk_manager.py, _save_state, _load_state,
\* can_trade, get_risk_budget and record_trade).
THEOREM GatesStayExact == GatesSpec => []GatesExact
<1>1. GateInv => GatesExact
  <2> SUFFICES ASSUME GateInv PROVE GatesExact
    OBVIOUS
  <2>1. LossLimitHolds /\ ~lastOrder.paused
    BY DEF GateInv, LastOrderRight
  <2>2. rm.pause > 0 => rm.pause <= fresh
    BY DEF GateInv, ManagerTypes, PauseEarned, Managers, NoPause
  <2>3. CeilingsHold
    <3>1. Within(rm) /\ Within(file) /\ RiskExact
      BY DEF GateInv, BothWithin
    <3>2. WeekWithin(rm.weekly) /\ DrawdownWithin(rm.peak - rm.total)
      BY <3>1 DEF Within
    <3>3. up = "up" => /\ "week"  \notin forgot => WeekWithin(truth.week)
                       /\ "total" \notin forgot => DrawdownWithin(truth.top - truth.total)
      BY <3>1, <3>2 DEF RiskExact
    <3> QED BY <3>1, <3>3 DEF CeilingsHold
  <2> QED
    BY <2>1, <2>2, <2>3 DEF GateInv, GatesExact, GatesHold, PauseHolds
<1> QED
  BY <1>1, GateInvHolds, PTL
=============================================================================
