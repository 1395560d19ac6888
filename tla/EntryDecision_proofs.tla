------------------------ MODULE EntryDecision_proofs ------------------------
(***************************************************************************)
(* For any watchlist, settings, prices and bounds: rows and findings are    *)
(* well formed, only confirmed signals are entered, no sizing method gets   *)
(* past the cap on a position, and the breaker keeps its limits.            *)
(*                                                                         *)
(* The breaker's loop and the sum it is compared with are folds.  They are  *)
(* reasoned about through the functions that compute them, by induction     *)
(* over the subsets of a finite set or over the natural numbers, each       *)
(* stated for a set and not for a predicate (as in Backtest_proofs).        *)
(***************************************************************************)
EXTENDS EntryDecision, FiniteSetTheorems, SequenceTheorems, WellFoundedInduction, TLAPS

-----------------------------------------------------------------------------
(* Folds over finite sets, and sums. *)

\* Induction over the subsets of a finite set: what a set has when all its proper
\* subsets have it, every subset has.
LEMMA SubsetInduction ==
    ASSUME NEW S, IsFiniteSet(S), NEW P,
           \A T \in SUBSET S : (\A U \in SUBSET T : U # T => U \in P) => T \in P
    PROVE  \A T \in SUBSET S : T \in P
<1> SUFFICES ASSUME NEW T0 \in SUBSET S, T0 \notin P PROVE FALSE
  OBVIOUS
<1> DEFINE R == StrictSubsetOrdering(S)
           bad == {T \in SUBSET S : T \notin P}
<1>1. FiniteSubsetsOf(S) = SUBSET S
  BY FS_FiniteSubsetsOfFinite
<1>2. IsWellFoundedOn(R, SUBSET S)
  <2>1. IsWellFoundedOn(R, FiniteSubsetsOf(S))
    BY FS_StrictSubsetOrderingWellFounded
  <2>2. QED
    BY <1>1, <2>1, Zenon
<1>3. bad \subseteq SUBSET S /\ bad # {}
  OBVIOUS
<1> HIDE DEF R, bad
<1>4. \E T \in bad : \A U \in bad : ~ (<<U, T>> \in R)
  BY <1>2, <1>3, WFMin
<1>5. PICK T \in bad : \A U \in bad : <<U, T>> \notin R
  BY <1>4
<1>6. ASSUME NEW U \in SUBSET T, U # T PROVE U \in P
  <2>1. U \in SUBSET S /\ T \in SUBSET S
    BY <1>3
  <2>2. <<U, T>> \in R
    BY <1>6, <2>1 DEF R, StrictSubsetOrdering
  <2>3. QED
    BY <1>5, <2>1, <2>2 DEF bad
<1>7. T \in P
  BY <1>3, <1>6
<1>8. QED
  BY <1>7 DEF bad

\* g folds the subsets of S: base for the empty set, else what h makes of the element
\* c chooses and of the fold of the rest.
Folds(g, S, base, h, c) ==
    \A T \in SUBSET S : g[T] = IF T = {} THEN base ELSE h[<<c[T], g[T \ {c[T]}]>>]

\* Two folds of the same set agree.
LEMMA FoldUnique ==
    ASSUME NEW S, IsFiniteSet(S), NEW base, NEW h, NEW c,
           \A T \in SUBSET S : T # {} => c[T] \in T,
           NEW g1, NEW g2, Folds(g1, S, base, h, c), Folds(g2, S, base, h, c)
    PROVE  \A T \in SUBSET S : g1[T] = g2[T]
<1> DEFINE P == {T \in SUBSET S : g1[T] = g2[T]}
<1>1. ASSUME NEW T \in SUBSET S, \A U \in SUBSET T : U # T => U \in P
      PROVE  g1[T] = g2[T]
  <2>1. CASE T = {}
    BY <2>1 DEF Folds
  <2>2. CASE T # {}
    <3>1. T \ {c[T]} \in SUBSET T /\ T \ {c[T]} # T
      BY <2>2
    <3>2. g1[T \ {c[T]}] = g2[T \ {c[T]}]
      BY <1>1, <3>1
    <3>3. g1[T] = h[<<c[T], g1[T \ {c[T]}]>>] /\ g2[T] = h[<<c[T], g2[T \ {c[T]}]>>]
      BY <2>2 DEF Folds
    <3>4. QED
      BY <3>2, <3>3
  <2>3. QED
    BY <2>1, <2>2
<1>2. \A T \in SUBSET S : (\A U \in SUBSET T : U # T => U \in P) => T \in P
  BY <1>1
<1> HIDE DEF P
<1>3. \A T \in SUBSET S : T \in P
  BY <1>2, SubsetInduction
<1>4. QED
  BY <1>3 DEF P

\* There is such a fold.
LEMMA FoldExists ==
    ASSUME NEW S, IsFiniteSet(S), NEW V, NEW base \in V, NEW h, NEW c,
           \A T \in SUBSET S : T # {} => c[T] \in T,
           \A x \in S, v \in V : h[<<x, v>>] \in V
    PROVE  \E g \in [SUBSET S -> V] : Folds(g, S, base, h, c)
<1> DEFINE G(T) == {g \in [SUBSET T -> V] : Folds(g, T, base, h, c)}
           P == {T \in SUBSET S : G(T) # {}}
<1>1. ASSUME NEW T \in SUBSET S, \A U \in SUBSET T : U # T => U \in P
      PROVE  G(T) # {}
  <2> DEFINE some(U) == CHOOSE g : g \in G(U)
             val(U) == some(U)[U]
             top == IF T = {} THEN base ELSE h[<<c[T], val(T \ {c[T]})>>]
             new == [U \in SUBSET T |-> IF U = T THEN top ELSE val(U)]
  <2>1. ASSUME NEW U \in SUBSET T, U # T
        PROVE  some(U) \in G(U) /\ U \in SUBSET S
    <3>1. G(U) # {}
      BY <1>1, <2>1
    <3>2. QED
      BY <3>1
  <2>2. ASSUME NEW U \in SUBSET T, U # T
        PROVE  val(U) \in V
    <3>1. some(U) \in [SUBSET U -> V]
      BY <2>1, <2>2
    <3> HIDE DEF some
    <3>2. QED
      BY <3>1
  <2>3. ASSUME NEW U \in SUBSET T, U # T, U # {}
        PROVE  c[U] \in U /\ val(U) = h[<<c[U], val(U \ {c[U]})>>]
    <3> DEFINE W == U \ {c[U]}
    <3>1. c[U] \in U /\ W \in SUBSET U /\ W # T /\ W \in SUBSET T
      BY <2>1, <2>3
    <3>2. some(U) \in G(U) /\ some(W) \in G(W)
      BY <2>1, <2>3, <3>1
    <3> HIDE DEF some
    <3>3. Folds(some(W), W, base, h, c) /\ Folds(some(U), U, base, h, c)
      BY <3>2
    <3>4. Folds(some(U), W, base, h, c)
      BY <3>1, <3>3 DEF Folds
    <3>5. IsFiniteSet(W) /\ \A Q \in SUBSET W : Q # {} => c[Q] \in Q
      BY <2>1, <2>3, <3>1, FS_Subset
    <3>6. some(U)[W] = some(W)[W]
      <4> HIDE DEF W
      <4>1. QED
        BY <3>3, <3>4, <3>5, FoldUnique
    <3>7. some(U)[U] = h[<<c[U], some(U)[W]>>]
      BY <2>3, <3>3 DEF Folds
    <3>8. QED
      BY <3>1, <3>6, <3>7
  <2> HIDE DEF some, val
  <2>4. top \in V
    <3>1. CASE T = {}
      BY <3>1
    <3>2. CASE T # {}
      <4>1. c[T] \in T /\ c[T] \in S
        BY <3>2
      <4>2. val(T \ {c[T]}) \in V
        BY <2>2, <4>1
      <4>3. QED
        BY <3>2, <4>1, <4>2
    <3>3. QED
      BY <3>1, <3>2
  <2> HIDE DEF top
  <2>5. new \in [SUBSET T -> V]
    BY <2>2, <2>4
  <2>6. ASSUME NEW U \in SUBSET T
        PROVE  new[U] = IF U = {} THEN base ELSE h[<<c[U], new[U \ {c[U]}]>>]
    <3>1. CASE U = T /\ T = {}
      BY <3>1 DEF top
    <3>2. CASE U = T /\ T # {}
      <4>1. c[T] \in T
        BY <3>2
      <4>2. new[T \ {c[T]}] = val(T \ {c[T]})
        BY <4>1
      <4>3. QED
        BY <3>2, <4>2 DEF top
    <3>3. CASE U # T /\ U = {}
      <4>1. new[U] = val(U) /\ some(U) \in G(U)
        BY <2>1, <3>3
      <4>2. some(U)[U] = base
        BY <3>3, <4>1 DEF Folds
      <4>3. QED
        BY <3>3, <4>1, <4>2 DEF val
    <3>4. CASE U # T /\ U # {}
      <4>1. c[U] \in U /\ val(U) = h[<<c[U], val(U \ {c[U]})>>]
        BY <2>3, <3>4
      <4>2. U \ {c[U]} \in SUBSET T /\ U \ {c[U]} # T
        BY <3>4, <4>1
      <4>3. new[U] = val(U) /\ new[U \ {c[U]}] = val(U \ {c[U]})
        BY <3>4, <4>2
      <4>4. QED
        BY <3>4, <4>1, <4>3
    <3>5. QED
      BY <3>1, <3>2, <3>3, <3>4
  <2> HIDE DEF new
  <2>7. new \in G(T)
    BY <2>5, <2>6 DEF Folds
  <2>8. QED
    BY <2>7
<1>2. \A T \in SUBSET S : (\A U \in SUBSET T : U # T => U \in P) => T \in P
  BY <1>1
<1>3. S \in P
  <2> HIDE DEF P, G
  <2>1. QED
    BY <1>2, SubsetInduction
<1>4. QED
  BY <1>3

AnyOf(T) == CHOOSE x \in T : TRUE

\* The function behind SumFunctionOnSet: every set of indices with its sum.
Sums(g, S, fun) ==
    \A T \in SUBSET S : g[T] = IF T = {} THEN 0 ELSE fun[AnyOf(T)] + g[T \ {AnyOf(T)}]

\* Functions that agree on the indices have the same sums.
LEMMA SumsAgree ==
    ASSUME NEW S, IsFiniteSet(S), NEW f1, NEW f2, \A x \in S : f1[x] = f2[x],
           NEW g1, NEW g2, Sums(g1, S, f1), Sums(g2, S, f2)
    PROVE  \A T \in SUBSET S : g1[T] = g2[T]
<1> DEFINE P == {T \in SUBSET S : g1[T] = g2[T]}
<1>1. ASSUME NEW T \in SUBSET S, \A U \in SUBSET T : U # T => U \in P
      PROVE  g1[T] = g2[T]
  <2>1. CASE T = {}
    BY <2>1 DEF Sums
  <2>2. CASE T # {}
    <3>1. AnyOf(T) \in T
      BY <2>2 DEF AnyOf
    <3>2. g1[T \ {AnyOf(T)}] = g2[T \ {AnyOf(T)}] /\ f1[AnyOf(T)] = f2[AnyOf(T)]
      BY <1>1, <3>1
    <3>3. QED
      BY <2>2, <3>2 DEF Sums
  <2>3. QED
    BY <2>1, <2>2
<1>2. \A T \in SUBSET S : (\A U \in SUBSET T : U # T => U \in P) => T \in P
  BY <1>1
<1> HIDE DEF P
<1>3. \A T \in SUBSET S : T \in P
  BY <1>2, SubsetInduction
<1>4. QED
  BY <1>3 DEF P

\* SumFunctionOnSet is such a sum.
LEMMA SumIsFold ==
    ASSUME NEW S, IsFiniteSet(S), NEW fun, \A x \in S : fun[x] \in Int
    PROVE  \E g \in [SUBSET S -> Int] : Sums(g, S, fun) /\ SumFunctionOnSet(fun, S) = g[S]
<1> DEFINE h == [q \in S \X Int |-> fun[q[1]] + q[2]]
           c == [T \in SUBSET S |-> AnyOf(T)]
           Rec(g) == g = [T \in SUBSET S |-> IF T = {} THEN 0
                                            ELSE fun[AnyOf(T)] + g[T \ {AnyOf(T)}]]
           iter == CHOOSE g : Rec(g)
<1>1. \A T \in SUBSET S : T # {} => AnyOf(T) \in T
  BY DEF AnyOf
<1>2. \A T \in SUBSET S : T # {} => c[T] \in T
  BY <1>1
<1>3. \A x \in S, v \in Int : h[<<x, v>>] \in Int /\ h[<<x, v>>] = fun[x] + v
  OBVIOUS
<1> HIDE DEF h
<1>4. PICK g \in [SUBSET S -> Int] : Folds(g, S, 0, h, c)
  <2> HIDE DEF c
  <2>1. \A x \in S, v \in Int : h[<<x, v>>] \in Int
    BY <1>3
  <2>2. 0 \in Int
    OBVIOUS
  <2>3. QED
    BY <1>2, <2>1, <2>2, FoldExists, Zenon
<1>5. ASSUME NEW T \in SUBSET S
      PROVE  g[T] = IF T = {} THEN 0 ELSE fun[AnyOf(T)] + g[T \ {AnyOf(T)}]
  <2>1. CASE T = {}
    BY <1>4, <2>1 DEF Folds
  <2>2. CASE T # {}
    <3>1. AnyOf(T) \in T /\ c[T] = AnyOf(T)
      BY <1>1, <2>2
    <3>2. g[T \ {AnyOf(T)}] \in Int
      BY <1>4, <3>1
    <3>3. g[T] = h[<<c[T], g[T \ {c[T]}]>>]
      BY <1>4, <2>2 DEF Folds
    <3>4. QED
      BY <1>3, <2>2, <3>1, <3>2, <3>3
  <2>3. QED
    BY <2>1, <2>2
<1>6. Rec(g)
  BY <1>4, <1>5
<1>7. Rec(iter)
  BY <1>6
<1>8. SumFunctionOnSet(fun, S) = iter[S]
  BY DEF SumFunctionOnSet, FoldFunctionOnSet, MapThenFoldSet, AnyOf
<1> HIDE DEF iter
<1>9. Sums(iter, S, fun)
  BY <1>7 DEF Sums
<1>10. iter = g
  <2>1. Sums(g, S, fun)
    BY <1>5 DEF Sums
  <2>2. \A T \in SUBSET S : iter[T] = g[T]
    BY <1>9, <2>1, SumsAgree
  <2>3. iter = [T \in SUBSET S |-> iter[T]]
    BY <1>7
  <2>4. g = [T \in SUBSET S |-> g[T]]
    BY <1>4
  <2>5. QED
    BY <2>2, <2>3, <2>4
<1>11. QED
  BY <1>8, <1>9, <1>10

LEMMA SumType ==
    ASSUME NEW S, IsFiniteSet(S), NEW fun, \A x \in S : fun[x] \in Int
    PROVE  /\ SumFunctionOnSet(fun, S) \in Int
           /\ S = {} => SumFunctionOnSet(fun, S) = 0
<1>1. PICK g \in [SUBSET S -> Int] : Sums(g, S, fun) /\ SumFunctionOnSet(fun, S) = g[S]
  BY SumIsFold
<1>2. S \in SUBSET S
  OBVIOUS
<1>3. g[S] \in Int
  BY <1>1, <1>2
<1>4. S = {} => g[S] = 0
  BY <1>1, <1>2 DEF Sums
<1>5. QED
  BY <1>1, <1>3, <1>4

\* A sum is any one of its values and the sum of the others.
LEMMA SumRemove ==
    ASSUME NEW S, IsFiniteSet(S), NEW fun, \A x \in S : fun[x] \in Int, NEW x \in S
    PROVE  SumFunctionOnSet(fun, S) = fun[x] + SumFunctionOnSet(fun, S \ {x})
<1>1. PICK g \in [SUBSET S -> Int] : Sums(g, S, fun) /\ SumFunctionOnSet(fun, S) = g[S]
  BY SumIsFold
<1> DEFINE P == {T \in SUBSET S : \A y \in T : g[T] = fun[y] + g[T \ {y}]}
<1>2. ASSUME NEW T \in SUBSET S, \A U \in SUBSET T : U # T => U \in P, NEW y \in T
      PROVE  g[T] = fun[y] + g[T \ {y}]
  <2> DEFINE z == AnyOf(T)
  <2>1. z \in T /\ g[T] = fun[z] + g[T \ {z}]
    BY <1>1 DEF Sums, AnyOf
  <2> HIDE DEF z
  <2>2. CASE y = z
    BY <2>1, <2>2
  <2>3. CASE y # z
    <3>1. T \ {z} \in P /\ T \ {y} \in P /\ y \in T \ {z} /\ z \in T \ {y}
      BY <1>2, <2>1, <2>3
    <3>2. /\ g[T \ {z}] = fun[y] + g[(T \ {z}) \ {y}]
          /\ g[T \ {y}] = fun[z] + g[(T \ {y}) \ {z}]
      BY <3>1
    <3>3. (T \ {z}) \ {y} = (T \ {y}) \ {z}
      OBVIOUS
    <3>4. PICK r : r = g[(T \ {z}) \ {y}]
      OBVIOUS
    <3>5. fun[y] \in Int /\ fun[z] \in Int /\ r \in Int
      BY <2>1, <3>4
    <3>6. g[T] = fun[z] + (fun[y] + r) /\ g[T \ {y}] = fun[z] + r
      BY <2>1, <3>2, <3>3, <3>4
    <3> HIDE DEF P
    <3>7. QED
      BY <3>5, <3>6
  <2>4. QED
    BY <2>2, <2>3
<1>3. \A T \in SUBSET S : (\A U \in SUBSET T : U # T => U \in P) => T \in P
  BY <1>2
<1>4. g[S] = fun[x] + g[S \ {x}]
  <2>1. S \in P
    <3> HIDE DEF P
    <3>1. QED
      BY <1>3, SubsetInduction
  <2>2. QED
    BY <2>1
<1> HIDE DEF P
<1>5. IsFiniteSet(S \ {x}) /\ S \ {x} \in SUBSET S
  BY FS_Subset
<1>6. PICK r \in [SUBSET (S \ {x}) -> Int] :
        Sums(r, S \ {x}, fun) /\ SumFunctionOnSet(fun, S \ {x}) = r[S \ {x}]
  BY <1>5, SumIsFold
<1>7. Sums(g, S \ {x}, fun)
  BY <1>1 DEF Sums
<1>8. g[S \ {x}] = r[S \ {x}]
  BY <1>5, <1>6, <1>7, SumsAgree
<1>9. QED
  BY <1>1, <1>4, <1>6, <1>8

-----------------------------------------------------------------------------
(* The loop of _query_today_stats. *)

\* Induction over the natural numbers, for a set of them.
LEMMA NatSet ==
    ASSUME NEW P, 0 \in P, \A n \in Nat : n \in P => n + 1 \in P
    PROVE  \A n \in Nat : n \in P
<1> SUFFICES ASSUME NEW n0 \in Nat, n0 \notin P PROVE FALSE
  OBVIOUS
<1> DEFINE R == OpToRel(<, Nat)
           bad == {n \in Nat : n \notin P}
<1>1. IsWellFoundedOn(R, Nat)
  BY NatLessThanWellFounded
<1>2. bad \subseteq Nat /\ bad # {}
  OBVIOUS
<1>3. PICK n \in bad : \A m \in bad : ~ (<<m, n>> \in R)
  <2> HIDE DEF R, bad
  <2>1. QED
    BY <1>1, <1>2, WFMin
<1>4. n \in Nat /\ n \notin P /\ n # 0
  OBVIOUS
<1>5. n - 1 \in Nat /\ n - 1 < n /\ n - 1 + 1 = n
  BY <1>4
<1>6. n - 1 \in P
  BY <1>3, <1>5 DEF OpToRel
<1>7. QED
  BY <1>4, <1>5, <1>6

\* A set of numbers has a least one.
LEMMA MinIn ==
    ASSUME NEW T \in SUBSET Nat, T # {}
    PROVE  Min(T) \in T /\ \A y \in T : Min(T) =< y
<1> DEFINE R == OpToRel(<, Nat)
<1>1. IsWellFoundedOn(R, Nat)
  BY NatLessThanWellFounded
<1>2. PICK m \in T : \A y \in T : ~ (<<y, m>> \in R)
  <2> HIDE DEF R
  <2>1. QED
    BY <1>1, WFMin
<1>3. ASSUME NEW y \in T PROVE m =< y
  <2>1. m \in Nat /\ y \in Nat
    OBVIOUS
  <2>2. ~ (y < m)
    BY <1>2, <2>1 DEF OpToRel
  <2>3. QED
    BY <2>1, <2>2
<1>4. QED
  BY <1>3 DEF Min

Accs == [pnl : Int, losses : Nat, active : BOOLEAN]

LEMMA SeeType ==
    ASSUME NEW row \in ClosedRows, NEW acc \in Accs
    PROVE  See(row, acc) \in Accs
<1>1. acc.pnl \in Int /\ acc.losses \in Nat /\ acc.active \in BOOLEAN
  BY DEF Accs
<1>2. CASE row.pnl = Unknown
  BY <1>2 DEF See
<1>3. CASE row.pnl # Unknown
  <2>1. row.pnl \in Int
    BY <1>3 DEF ClosedRows
  <2>2. PICK lost \in BOOLEAN : lost = (acc.active /\ Today(row) /\ row.pnl < 0)
    OBVIOUS
  <2>3. PICK d \in Int : d = IF Today(row) THEN row.pnl ELSE 0
    BY <2>1
  <2>4. PICK u \in Nat : u = IF lost THEN 1 ELSE 0
    OBVIOUS
  <2>5. See(row, acc) = [pnl |-> acc.pnl + d, losses |-> acc.losses + u, active |-> lost]
    BY <1>3, <2>2, <2>3, <2>4 DEF See
  <2>6. acc.pnl + d \in Int /\ acc.losses + u \in Nat
    BY <1>1, <2>3, <2>4
  <2>7. QED
    BY <2>5, <2>6 DEF Accs
<1>4. QED
  BY <1>2, <1>3

\* The fold is the loop: the newest row first.
LoopRuns(rows, n) ==
    \E a \in [0..n -> Accs] :
       /\ a[0] = NoStats
       /\ \A j \in 1..n : a[j] = See(rows[n + 1 - j], a[j - 1])
       /\ Stats(rows) = a[n]
LEMMA StatsLoop ==
    ASSUME NEW rows \in Seq(ClosedRows), NEW n, Len(rows) = n
    PROVE  LoopRuns(rows, n)
<1>0. PICK S : S = 1..n
  OBVIOUS
<1> DEFINE h == [q \in S \X Accs |-> See(rows[q[1]], q[2])]
           c == [T \in SUBSET S |-> Min(T)]
           Rec(g) == g = [T \in SUBSET S |-> IF T = {} THEN NoStats
                                            ELSE See(rows[Min(T)], g[T \ {Min(T)}])]
           iter == CHOOSE g : Rec(g)
<1>1. /\ n \in Nat /\ DOMAIN rows = S /\ IsFiniteSet(S) /\ S \subseteq Nat
      /\ \A i \in S : rows[i] \in ClosedRows
  <2>1. n \in Nat /\ DOMAIN rows = S
    BY <1>0, LenProperties
  <2>2. IsFiniteSet(1..n)
    BY <2>1, FS_Interval
  <2>3. \A i \in S : rows[i] \in ClosedRows
    BY <2>1, ElementOfSeq
  <2>4. QED
    BY <1>0, <2>1, <2>2, <2>3
<1>2. \A T \in SUBSET S : T # {} => Min(T) \in T
  BY <1>1, MinIn
<1>3. \A T \in SUBSET S : T # {} => c[T] \in T
  BY <1>2
<1>4. \A x \in S, v \in Accs : h[<<x, v>>] \in Accs /\ h[<<x, v>>] = See(rows[x], v)
  <2>1. \A x \in S, v \in Accs : h[<<x, v>>] = See(rows[x], v)
    OBVIOUS
  <2>2. \A x \in S, v \in Accs : See(rows[x], v) \in Accs
    BY <1>1, SeeType
  <2>3. QED
    BY <2>1, <2>2
<1> HIDE DEF h
<1>a. NoStats \in Accs
  BY DEF NoStats, Accs
<1>5. PICK g \in [SUBSET S -> Accs] : Folds(g, S, NoStats, h, c)
  <2>1. IsFiniteSet(S)
    BY <1>1
  <2> HIDE DEF c
  <2>2. \A x \in S, v \in Accs : h[<<x, v>>] \in Accs
    BY <1>4
  <2>3. QED
    BY <1>3, <1>a, <2>1, <2>2, FoldExists, Zenon
<1>6. ASSUME NEW T \in SUBSET S
      PROVE  g[T] = IF T = {} THEN NoStats ELSE See(rows[Min(T)], g[T \ {Min(T)}])
  <2>1. CASE T = {}
    BY <1>5, <2>1 DEF Folds
  <2>2. CASE T # {}
    <3>1. Min(T) \in T /\ c[T] = Min(T)
      BY <1>2, <2>2
    <3>2. g[T \ {Min(T)}] \in Accs
      BY <1>5, <3>1
    <3>3. g[T] = h[<<c[T], g[T \ {c[T]}]>>]
      BY <1>5, <2>2 DEF Folds
    <3>4. QED
      BY <1>4, <2>2, <3>1, <3>2, <3>3
  <2>3. QED
    BY <2>1, <2>2
<1>7. Rec(iter)
  <2>1. Rec(g)
    BY <1>5, <1>6
  <2>2. QED
    BY <2>1
<1>8. Stats(rows) = iter[S]
  BY <1>1 DEF Stats, FoldRight, MapThenFoldSet
<1> HIDE DEF iter
<1>9. iter[S] = g[S]
  <2> DEFINE P == {T \in SUBSET S : iter[T] = g[T]}
  <2>1. ASSUME NEW T \in SUBSET S, \A U \in SUBSET T : U # T => U \in P
        PROVE  iter[T] = g[T]
    <3>1. iter[T] = IF T = {} THEN NoStats ELSE See(rows[Min(T)], iter[T \ {Min(T)}])
      BY <1>7
    <3>2. CASE T = {}
      BY <1>6, <3>1, <3>2
    <3>3. CASE T # {}
      <4>1. Min(T) \in T
        BY <1>2, <3>3
      <4>2. iter[T \ {Min(T)}] = g[T \ {Min(T)}]
        BY <2>1, <4>1
      <4>3. QED
        BY <1>6, <3>1, <3>3, <4>2
    <3>4. QED
      BY <3>2, <3>3
  <2>2. \A T \in SUBSET S : (\A U \in SUBSET T : U # T => U \in P) => T \in P
    BY <2>1
  <2>3. \A T \in SUBSET S : T \in P
    <3>1. IsFiniteSet(S)
      BY <1>1
    <3> HIDE DEF P
    <3>2. QED
      BY <3>1, <2>2, SubsetInduction, Zenon
  <2>4. QED
    BY <2>3
<1>10. PICK a : a = [j \in 0..n |-> g[(n + 1 - j)..n]]
  OBVIOUS
<1>11. \A j \in 0..n : (n + 1 - j)..n \in SUBSET S
  BY <1>0, <1>1
<1>12. a \in [0..n -> Accs]
  BY <1>5, <1>10, <1>11
<1>13. a[0] = NoStats
  <2>1. (n + 1 - 0)..n = {} /\ 0 \in 0..n
    BY <1>1
  <2>2. QED
    BY <1>6, <1>10, <2>1
<1>14. ASSUME NEW j \in 1..n PROVE a[j] = See(rows[n + 1 - j], a[j - 1])
  <2>1. PICK k : k = n + 1 - j
    OBVIOUS
  <2>2. /\ j \in 0..n /\ j - 1 \in 0..n /\ k \in Nat /\ k >= 1 /\ k <= n
        /\ n + 1 - (j - 1) = k + 1
    BY <1>1, <2>1
  <2>3. k \in k..n /\ k..n \in SUBSET Nat
    BY <1>1, <2>2
  <2>4. Min(k..n) = k
    <3>1. Min(k..n) \in k..n /\ \A y \in k..n : Min(k..n) =< y
      BY <2>3, MinIn
    <3>2. QED
      BY <1>1, <2>2, <2>3, <3>1
  <2>5. (k..n) \ {k} = (k + 1)..n
    <3>1. \A i : i \in (k..n) \ {k} <=> i \in (k + 1)..n
      BY <1>1, <2>2
    <3>2. QED
      BY <3>1, Zenon
  <2>6. a[j] = g[k..n] /\ a[j - 1] = g[(k + 1)..n] /\ k..n \in SUBSET S
    BY <1>10, <1>11, <2>1, <2>2
  <2>7. g[k..n] = See(rows[k], g[(k + 1)..n])
    BY <1>6, <2>3, <2>4, <2>5, <2>6
  <2>8. QED
    BY <2>1, <2>6, <2>7
<1>15. Stats(rows) = a[n]
  <2>1. n + 1 - n = 1 /\ n \in 0..n
    BY <1>1
  <2>2. QED
    BY <1>0, <1>8, <1>9, <1>10, <2>1
<1>16. QED
  BY <1>12, <1>13, <1>14, <1>15 DEF LoopRuns

-----------------------------------------------------------------------------
(* Findings and sizes. *)

\* What is known of the signal at hand at each step of the pipeline.
Agrees(f) == f \in {"short", IF ml.label = "long" THEN "bull" ELSE "bear"}
FindingInv ==
    /\ pc \in {"predict", "confirm", "decide", "check", "execute"} => sym \in Symbols
    /\ pc \in {"confirm", "decide", "check", "execute"} => ml.label \in Sides /\ ml.prob >= minProb
    /\ pc \in {"decide", "check", "execute"} => Agrees(frame)

IInv == TypeOK /\ FindingInv

USE NumbersAssumption, ConfigsAssumption

-----------------------------------------------------------------------------
\* Dividing and multiplying again gives no more than there was.
LEMMA Division ==
    ASSUME NEW a \in Int, NEW b \in Nat \ {0}
    PROVE  a \div b \in Int /\ (a \div b) * b <= a
OBVIOUS

LEMMA AmountType ==
    ASSUME TypeOK, NEW prob \in 0..100
    PROVE  Amount(prob) \in Int /\ 4 * nav * cfg.maxPct \in Int
<1>1. nav \in Int /\ cfg.sizePct \in Int /\ cfg.sizeAmount \in Int /\ cfg.maxPct \in Int
  BY DEF TypeOK
<1>2. cfg.method \in {"fixed_pct", "fixed_amount", "kelly"}
  BY DEF TypeOK
<1>3. 4 * nav * cfg.maxPct \in Int
  BY <1>1
<1>4. CASE cfg.method = "fixed_pct"
  <2>1. Amount(prob) = 4 * nav * cfg.sizePct
    BY <1>4 DEF Amount
  <2>2. QED
    BY <2>1, <1>1, <1>3
<1>5. CASE cfg.method = "fixed_amount"
  <2>1. Amount(prob) = 400 * cfg.sizeAmount
    BY <1>5 DEF Amount
  <2>2. QED
    BY <2>1, <1>1, <1>3
<1>6. CASE cfg.method = "kelly"
  <2>1. Amount(prob) = nav * (IF 3 * prob > 100 THEN 3 * prob - 100 ELSE 0)
    BY <1>6 DEF Amount
  <2>2. QED
    BY <2>1, <1>1, <1>3
<1>7. QED
  BY <1>2, <1>4, <1>5, <1>6

\* The size found at a price is worth no more than the cap at that price.
LEMMA SizeWithinCap ==
    ASSUME TypeOK, NEW prob \in 0..100, NEW entry \in Nat \ {0}
    PROVE  /\ Size(prob, entry) \in Int
           /\ Size(prob, entry) * entry * 100 <= cfg.maxPct * nav
<1> DEFINE amount == Smaller(Amount(prob), 4 * nav * cfg.maxPct)
<1>1. /\ amount \in Int /\ amount <= 4 * nav * cfg.maxPct
      /\ nav \in Int /\ cfg.maxPct \in Int
  <2>1. Amount(prob) \in Int /\ 4 * nav * cfg.maxPct \in Int
    BY AmountType
  <2>2. nav \in Int /\ cfg.maxPct \in Int
    BY DEF TypeOK
  <2>3. QED
    BY <2>1, <2>2 DEF Smaller
<1>2. 400 * entry \in Nat \ {0}
  OBVIOUS
<1>3. Size(prob, entry) = amount \div (400 * entry)
  BY DEF Size
<1> HIDE DEF amount
<1>4. Size(prob, entry) \in Int /\ Size(prob, entry) * (400 * entry) <= amount
  <2>1. amount \div (400 * entry) \in Int /\ (amount \div (400 * entry)) * (400 * entry) <= amount
    BY <1>1, <1>2, Division, Zenon
  <2>2. QED
    BY <1>3, <2>1, Zenon
<1>5. Size(prob, entry) * (400 * entry) = 4 * (Size(prob, entry) * entry * 100)
  BY <1>4
<1>6. 4 * nav * cfg.maxPct = 4 * (cfg.maxPct * nav)
  BY <1>1
<1>7. QED
  BY <1>1, <1>4, <1>5, <1>6

\* The table keeps its shape when a row is appended or removed.
LEMMA RemoveRow ==
    ASSUME NEW S, NEW s \in Seq(S), NEW i \in DOMAIN s
    PROVE  RemoveAt(s, i) \in Seq(S) /\ Len(RemoveAt(s, i)) = Len(s) - 1
BY DEF RemoveAt

-----------------------------------------------------------------------------
(* Type correctness. *)

\* A symbol that is given up leaves no finding.
LEMMA DiscardType ==
    ASSUME TypeOK, Discard, tripped' \in BOOLEAN
    PROVE  TypeOK' /\ FindingInv'
BY DEF TypeOK, FindingInv, Discard, NoFinding, NoMl, PCs, settings, calendar, tick, table

\* A row is appended by an entry and moved by a close.
LEMMA EnterType ==
    ASSUME TypeOK, FindingInv, NEW fill \in Fills, Enter(fill)
    PROVE  TypeOK' /\ FindingInv'
<1> DEFINE row == [sym |-> sym, day |-> today, side |-> side, shares |-> shares,
                   status |-> IF mode = "dryrun" THEN "dryrun" ELSE "filled",
                   price  |-> IF mode = "dryrun" THEN quote ELSE fill]
<1>1. row \in HeldRows
  BY DEF Enter, TypeOK, FindingInv, HeldRows, Sides
<1>2. held' = Append(held, row)
  BY DEF Enter
<1> HIDE DEF row
<1>3. held' \in Seq(HeldRows)
  BY <1>1, <1>2 DEF TypeOK
<1>4. QED
  BY <1>3 DEF TypeOK, FindingInv, Enter, NoFinding, NoMl, PCs, settings, calendar, tick

LEMMA CloseType ==
    ASSUME TypeOK, FindingInv, NEW s \in Symbols, NEW exit \in Exits \cup {Unknown},
           NEW at \in Seconds, Close(s, exit, at)
    PROVE  TypeOK' /\ FindingInv'
<1>1. PICK i \in Filled(s) :
         /\ \A j \in Filled(s) : j <= i
         /\ closed' = Append(closed, [day |-> today, at |-> at, pnl |-> Pnl(held[i], exit)])
         /\ held' = RemoveAt(held, i)
  BY DEF Close
<1>2. i \in DOMAIN held /\ held[i] \in HeldRows
  BY DEF Filled, TypeOK
<1>3. Pnl(held[i], exit) \in Int \cup {Unknown}
  <2>1. exit \in Int \/ exit = Unknown
    OBVIOUS
  <2>2. held[i].price \in Int /\ held[i].shares \in Int
    BY <1>2 DEF HeldRows
  <2>3. QED
    BY <2>1, <2>2 DEF Pnl
<1>4. at \in Nat \ {0}
  <2>1. CASE closed = <<>>
    BY <2>1 DEF Seconds
  <2>2. CASE closed # <<>>
    <3>1. Last(closed) \in ClosedRows
      BY <2>2 DEF Last, TypeOK
    <3>2. Last(closed).at \in Nat \ {0}
      BY <3>1 DEF ClosedRows
    <3>3. QED
      BY <2>2, <3>2 DEF Seconds
  <2>3. QED
    BY <2>1, <2>2
<1>5. [day |-> today, at |-> at, pnl |-> Pnl(held[i], exit)] \in ClosedRows
  BY <1>3, <1>4 DEF TypeOK, ClosedRows
<1>6. closed' \in Seq(ClosedRows)
  BY <1>1, <1>5 DEF TypeOK
<1>7. held' \in Seq(HeldRows)
  BY <1>1, <1>2, RemoveRow DEF TypeOK
<1>8. pc = "closing" /\ pc' = pc /\ todo' \subseteq Symbols
  BY DEF Close, TypeOK
<1>9. QED
  BY <1>6, <1>7, <1>8 DEF TypeOK, FindingInv, Close, settings, calendar, finding

\* An approval is for at least one share at a price that is a number.
LEMMA ApproveType ==
    ASSUME TypeOK, FindingInv, Approve
    PROVE  TypeOK' /\ FindingInv' /\ SizedWithinCap
<1>1. quote \in Nat \ {0} /\ ml.prob \in 0..100
  BY DEF Approve, Sound, TypeOK
<1>2. /\ shares' = Size(ml.prob, quote) /\ shares' > 0
      /\ shares' \in Int /\ shares' * quote * 100 <= cfg.maxPct * nav
  BY <1>1, SizeWithinCap DEF Approve, Sound
<1>3. pc = "check" /\ pc' = "execute" /\ shares' \in Nat
  BY <1>2 DEF Approve
<1>4. QED
  BY <1>1, <1>2, <1>3 DEF TypeOK, FindingInv, Agrees, Approve, SizedWithinCap, PCs, settings,
     calendar, tick, table

-----------------------------------------------------------------------------
(* The invariant is inductive. *)

LEMMA InitType == Init => IInv
<1> SUFFICES ASSUME Init PROVE IInv
  OBVIOUS
<1>1. held \in Seq(HeldRows) /\ closed \in Seq(ClosedRows)
  BY DEF Init
<1>2. ml \in [label : Sides \cup {"no_trade"}, prob : 0..100]
  BY DEF Init, NoMl
<1>3. FindingInv
  BY DEF Init, FindingInv
<1>4. saves \in 0..MaxSaves /\ today \in 1..MaxDays
  BY DEF Init
<1>5. QED
  BY <1>1, <1>2, <1>3, <1>4 DEF Init, IInv, TypeOK, PCs

LEMMA GenerateType ==
    ASSUME TypeOK, FindingInv, Generate
    PROVE  TypeOK' /\ FindingInv'
<1>1. CASE PipelineFails \/ ClaudeFails
  BY <1>1, DiscardType DEF PipelineFails, ClaudeFails, TypeOK
<1>2. ASSUME NEW l \in {"long", "short", "no_trade"}, NEW p \in Probs,
             Predict([label |-> l, prob |-> p])
      PROVE  TypeOK' /\ FindingInv'
  <2> DEFINE q == [label |-> l, prob |-> p]
  <2>1. CASE Accepted(q)
    <3>1. q \in [label : Sides \cup {"no_trade"}, prob : 0..100] /\ q.label \in Sides
          /\ q.prob >= minProb
      BY <2>1 DEF Accepted, Sides
    <3>2. /\ ml' = q /\ pc' = "confirm" /\ pc = "predict"
          /\ UNCHANGED <<settings, calendar, mode, tick, sym, frame, quote, side, shares,
                         table, tripped>>
      BY <1>2, <2>1 DEF Predict
    <3> HIDE DEF q
    <3>3. QED
      BY <3>1, <3>2 DEF TypeOK, FindingInv, PCs, settings, calendar, tick, table
  <2>2. CASE ~Accepted(q)
    BY <1>2, <2>2, DiscardType DEF Predict, TypeOK
  <2>3. QED
    BY <2>1, <2>2
<1>3. ASSUME NEW f \in Frames, Confirm(f)
      PROVE  TypeOK' /\ FindingInv'
  <2>1. CASE Confirms(f, ml.label)
    <3>1. pc = "confirm" /\ ml.label \in Sides
      BY <1>3 DEF Confirm, FindingInv
    <3>2. Agrees(f)
      BY <2>1, <3>1 DEF Confirms, Agrees, Sides
    <3>3. QED
      BY <1>3, <2>1, <3>1, <3>2 DEF Confirm, TypeOK, FindingInv, Agrees, PCs, settings,
         calendar, tick, table
  <2>2. CASE ~Confirms(f, ml.label)
    BY <1>3, <2>2, DiscardType DEF Confirm, TypeOK
  <2>3. QED
    BY <2>1, <2>2
<1>4. ASSUME NEW q \in Quotes, DecideAlone(q)
      PROVE  TypeOK' /\ FindingInv'
  BY <1>4 DEF DecideAlone, TypeOK, FindingInv, Agrees, PCs, Sides, settings, calendar, tick, table
<1>5. ASSUME NEW a \in {"long", "short", "no_trade"}, NEW q \in Quotes, DecideClaude(a, q)
      PROVE  TypeOK' /\ FindingInv'
  <2>1. CASE a = "no_trade"
    BY <1>5, <2>1, DiscardType DEF DecideClaude, TypeOK
  <2>2. CASE a # "no_trade"
    BY <1>5, <2>2 DEF DecideClaude, TypeOK, FindingInv, Agrees, PCs, Sides, settings,
       calendar, tick, table
  <2>3. QED
    BY <2>1, <2>2
<1>6. QED
  BY <1>1, <1>2, <1>3, <1>4, <1>5 DEF Generate

LEMMA NextType ==
    ASSUME IInv, [Next]_vars
    PROVE  IInv'
<1> USE DEF IInv
<1>1. ASSUME NEW v \in Navs, StartTick(v)
      PROVE  IInv'
  BY <1>1 DEF TypeOK, FindingInv, StartTick, PCs, settings, calendar, finding, table
<1>2. CASE EndTick
  BY <1>2 DEF TypeOK, FindingInv, EndTick, PCs, settings, calendar, finding, table
<1>3. ASSUME NEW s \in Symbols, Begin(s)
      PROVE  IInv'
  BY <1>3 DEF TypeOK, FindingInv, Begin, PCs, settings, calendar, table
<1>4. CASE Generate
  BY <1>4, GenerateType
<1>5. CASE BreakerTrips \/ Reject \/ EntryFails
  BY <1>5, DiscardType DEF BreakerTrips, Reject, EntryFails, TypeOK
<1>6. CASE Approve
  BY <1>6, ApproveType
<1>7. ASSUME NEW fill \in Fills, Enter(fill)
      PROVE  IInv'
  BY <1>7, EnterType
<1>8. ASSUME NEW m \in Modes, NEW eod \in BOOLEAN, StartClose(m, eod)
      PROVE  IInv'
  BY <1>8 DEF TypeOK, FindingInv, StartClose, PCs, settings, finding, table
<1>9. ASSUME NEW s \in Symbols, NEW exit \in Exits \cup {Unknown}, NEW at \in Seconds,
             Close(s, exit, at)
      PROVE  IInv'
  BY <1>9, CloseType
<1>10. ASSUME NEW s \in Symbols, CloseFails(s)
       PROVE  IInv'
  BY <1>10 DEF TypeOK, FindingInv, CloseFails, PCs, settings, calendar, finding, table
<1>11. CASE EndClose
  BY <1>11 DEF TypeOK, FindingInv, EndClose, PCs, settings, calendar, tick, finding, table
<1>12. ASSUME NEW c \in Configs, SaveSettings(c)
       PROVE  IInv'
  BY <1>12 DEF TypeOK, FindingInv, Agrees, SaveSettings, calendar, tick, finding, table
<1>13. CASE NextDay
  <2>1. today' \in 1..MaxDays /\ over' = FALSE /\ tripped' = FALSE
    BY <1>13 DEF NextDay, TypeOK
  <2>2. pc = "idle" /\ UNCHANGED <<settings, mode, pc, tick, finding, table>>
    BY <1>13 DEF NextDay
  <2>3. QED
    BY <2>1, <2>2 DEF TypeOK, FindingInv, settings, tick, finding, table
<1>14. CASE UNCHANGED vars
  BY <1>14 DEF TypeOK, FindingInv, Agrees, vars, settings, calendar, tick, finding, table
<1>15. QED
  BY <1>1, <1>2, <1>3, <1>4, <1>5, <1>6, <1>7, <1>8, <1>9, <1>10, <1>11, <1>12, <1>13,
     <1>14 DEF Next

LEMMA Inductive == Spec => []IInv
<1>1. IInv /\ [Next]_vars => IInv'
  BY NextType
<1>2. QED
  BY InitType, <1>1, PTL DEF Spec

-----------------------------------------------------------------------------
\* Rows and findings are well formed whatever the model, Claude, the broker and
\* the settings answer (generator.py:107-312, manager.py:57-192).
THEOREM TypeCorrect == Spec => []TypeOK
<1>1. IInv => TypeOK
  BY DEF IInv
<1>2. QED
  BY Inductive, <1>1, PTL

\* Only what executes adds a row, and what executes has been confirmed.
LEMMA EnteredConfirmed ==
    ASSUME IInv, Next, Entered
    PROVE  /\ ml.label \in Sides /\ ml.prob >= minProb
           /\ frame \in {"short", IF ml.label = "long" THEN "bull" ELSE "bear"}
<1>1. CASE pc = "execute"
  BY <1>1 DEF IInv, FindingInv, Agrees
<1>2. ASSUME NEW s \in Symbols, NEW exit \in Exits \cup {Unknown}, NEW at \in Seconds,
             Close(s, exit, at)
      PROVE  FALSE
  <2>1. PICK i \in Filled(s) :
         /\ \A j \in Filled(s) : j <= i
         /\ closed' = Append(closed, [day |-> today, at |-> at, pnl |-> Pnl(held[i], exit)])
         /\ held' = RemoveAt(held, i)
    BY <1>2 DEF Close
  <2>2. i \in 1..Len(held) /\ Len(held) \in Nat /\ held \in Seq(HeldRows)
    BY <2>1 DEF Filled, IInv, TypeOK
  <2>3. Len(held') < Len(held)
    BY <2>1, <2>2, RemoveRow
  <2>4. QED
    BY <2>2, <2>3 DEF Entered, IInv, TypeOK
<1>3. CASE pc # "execute" /\ UNCHANGED held
  <2>1. Len(held) \in Nat
    BY DEF IInv, TypeOK
  <2>2. QED
    BY <1>3, <2>1 DEF Entered
<1>4. QED
  BY <1>1, <1>2, <1>3 DEF Next, Generate, StartTick, EndTick, Begin, PipelineFails, ClaudeFails,
     Predict, Confirm, DecideAlone, DecideClaude, BreakerTrips, Reject, Approve, Enter,
     EntryFails, Discard, StartClose, CloseFails, EndClose, SaveSettings, NextDay, table

\* No symbol, threshold, answer of Claude or error leads to an entry that the
\* model and the 15-minute frame have not agreed on (generator.py:107-312).
THEOREM EntriesConfirmed == Spec => ConfirmedEntries
<1>1. IInv /\ [Next]_vars =>
        [Entered => /\ ml.label \in Sides /\ ml.prob >= minProb
                    /\ frame \in {"short", IF ml.label = "long" THEN "bull" ELSE "bear"}]_vars
  BY EnteredConfirmed
<1>2. QED
  BY Inductive, <1>1, PTL DEF Spec, ConfirmedEntries

\* An approval comes out of Approve alone.
LEMMA ApprovalIsApprove ==
    ASSUME IInv, Next, Approval
    PROVE  Approve
<1>1. pc = "check" /\ pc' = "execute"
  BY DEF Approval
<1>2. QED
  BY <1>1 DEF Next, Generate, StartTick, EndTick, Begin, PipelineFails, ClaudeFails,
     Predict, Confirm, DecideAlone, DecideClaude, BreakerTrips, Reject, Enter,
     EntryFails, Discard, StartClose, Close, CloseFails, EndClose, SaveSettings, NextDay

-----------------------------------------------------------------------------
(* The loop of the breaker. *)

\* The rows the breaker counts, and those of the streak.
Pnls == [i \in DOMAIN closed |-> closed[i].pnl]
Paid == {i \in Counted : Today(closed[i])}
Run == {i \in LossesToday : \A j \in Counted \ LossesToday : closed[j].at < closed[i].at}

\* What is known after the newest rows of a reading, those from the position k on:
\* p gives the row at a position.
Seen(p, k) == {p[q] : q \in {r \in DOMAIN p : r >= k}}
LossesSeen(acc, p, k) ==
    /\ acc.losses >= Cardinality({q \in DOMAIN p : q >= k /\ p[q] \in Run})
    /\ ~acc.active => \A q \in DOMAIN p : q < k => p[q] \notin Run
LoopInv(acc, p, k) ==
    /\ acc.pnl = SumFunctionOnSet(Pnls, Seen(p, k) \cap Paid)
    /\ LossesSeen(acc, p, k)

\* A reading: a permutation of the closed rows in which none is before an earlier one.
IsReading(p) ==
    /\ p \in [DOMAIN closed -> DOMAIN closed] /\ IsInjective(p)
    /\ \A i, j \in DOMAIN closed : i < j => closed[p[i]].at <= closed[p[j]].at

LEMMA RowFacts ==
    ASSUME TypeOK
    PROVE  /\ Len(closed) \in Nat /\ DOMAIN closed = 1..Len(closed)
           /\ IsFiniteSet(DOMAIN closed)
           /\ \A i \in DOMAIN closed : closed[i] \in ClosedRows /\ closed[i].at \in Nat
           /\ Paid \subseteq DOMAIN closed /\ Run \subseteq DOMAIN closed
           /\ \A i \in Paid : Pnls[i] \in Int /\ Pnls[i] = closed[i].pnl
<1>1. /\ Len(closed) \in Nat /\ DOMAIN closed = 1..Len(closed)
      /\ \A i \in DOMAIN closed : closed[i] \in ClosedRows
  <2>1. closed \in Seq(ClosedRows)
    BY DEF TypeOK
  <2>2. QED
    BY <2>1, LenProperties, ElementOfSeq
<1>2. IsFiniteSet(DOMAIN closed)
  BY <1>1, FS_Interval
<1>3. \A i \in DOMAIN closed : closed[i].at \in Nat
  BY <1>1 DEF ClosedRows
<1>4. Paid \subseteq DOMAIN closed /\ Run \subseteq DOMAIN closed
  BY DEF Paid, Run, LossesToday, Counted
<1>5. \A i \in Paid : Pnls[i] \in Int /\ Pnls[i] = closed[i].pnl
  BY <1>1 DEF Paid, Counted, Pnls, ClosedRows
<1>6. QED
  BY <1>1, <1>2, <1>3, <1>4, <1>5

\* One more row.
LEMMA SeePnl ==
    ASSUME TypeOK, NEW p, IsReading(p), NEW k \in DOMAIN closed, NEW acc \in Accs,
           acc.pnl = SumFunctionOnSet(Pnls, Seen(p, k + 1) \cap Paid)
    PROVE  See(closed[p[k]], acc).pnl = SumFunctionOnSet(Pnls, Seen(p, k) \cap Paid)
<1>1. /\ DOMAIN p = DOMAIN closed /\ \A q \in DOMAIN closed : p[q] \in DOMAIN closed /\ q \in Nat
      /\ k \in Nat
  BY RowFacts DEF IsReading
<1>2. PICK old, new, i : /\ old = Seen(p, k + 1) \cap Paid /\ new = Seen(p, k) \cap Paid
                         /\ i = p[k]
  OBVIOUS
<1>3. /\ i \in DOMAIN closed /\ closed[i] \in ClosedRows
  BY <1>1, <1>2, RowFacts
<1>4. Seen(p, k) = Seen(p, k + 1) \cup {i}
  <2>1. \A q \in DOMAIN p : q >= k <=> q >= k + 1 \/ q = k
    BY <1>1
  <2>2. QED
    BY <1>1, <1>2, <2>1 DEF Seen
<1>5. i \notin Seen(p, k + 1)
  <2>1. \A q \in DOMAIN p : q >= k + 1 => p[q] # i
    BY <1>1, <1>2 DEF IsReading, IsInjective
  <2>2. QED
    BY <2>1 DEF Seen
<1>6. CASE i \in Paid
  <2>1. new \ {i} = old /\ i \in new
    BY <1>2, <1>4, <1>5, <1>6
  <2>2. IsFiniteSet(new) /\ \A x \in new : Pnls[x] \in Int
    <3>1. new \subseteq DOMAIN closed /\ new \subseteq Paid
      BY <1>2, RowFacts
    <3>2. QED
      BY <3>1, RowFacts, FS_Subset
  <2>3. SumFunctionOnSet(Pnls, new) = Pnls[i] + SumFunctionOnSet(Pnls, new \ {i})
    BY <2>1, <2>2, SumRemove
  <2>4. Pnls[i] = closed[i].pnl /\ Pnls[i] \in Int
    BY <1>6, RowFacts
  <2>5. closed[i].pnl # Unknown /\ Today(closed[i])
    BY <1>6 DEF Paid, Counted
  <2>6. See(closed[i], acc).pnl = acc.pnl + closed[i].pnl
    BY <2>5 DEF See
  <2>7. acc.pnl \in Int
    BY DEF Accs
  <2>8. acc.pnl = SumFunctionOnSet(Pnls, old)
    BY <1>2
  <2>9. SumFunctionOnSet(Pnls, new) = closed[i].pnl + acc.pnl
    BY <2>1, <2>3, <2>4, <2>8
  <2>10. See(closed[i], acc).pnl = SumFunctionOnSet(Pnls, new)
    BY <2>4, <2>6, <2>7, <2>9
  <2>11. QED
    BY <1>2, <2>10
<1>7. CASE i \notin Paid
  <2>1. new = old
    BY <1>2, <1>4, <1>7
  <2>2. closed[i].pnl = Unknown \/ ~Today(closed[i])
    BY <1>3, <1>7 DEF Paid, Counted
  <2>3. acc.pnl \in Int
    BY DEF Accs
  <2>4. See(closed[i], acc).pnl = acc.pnl
    BY <2>2, <2>3 DEF See
  <2>5. QED
    BY <1>2, <2>1, <2>4
<1>8. QED
  BY <1>6, <1>7

LEMMA SeeLosses ==
    ASSUME TypeOK, NEW p, IsReading(p), NEW k \in DOMAIN closed, NEW acc \in Accs,
           LossesSeen(acc, p, k + 1)
    PROVE  LossesSeen(See(closed[p[k]], acc), p, k)
<1>1. /\ DOMAIN p = DOMAIN closed /\ \A q \in DOMAIN closed : p[q] \in DOMAIN closed /\ q \in Nat
      /\ k \in Nat /\ IsFiniteSet(DOMAIN closed)
  BY RowFacts DEF IsReading
<1>2. PICK old, new, i, s :
         /\ old = {q \in DOMAIN p : q >= k + 1 /\ p[q] \in Run}
         /\ new = {q \in DOMAIN p : q >= k /\ p[q] \in Run}
         /\ i = p[k] /\ s = See(closed[p[k]], acc)
  OBVIOUS
<1>3. /\ i \in DOMAIN closed /\ closed[i] \in ClosedRows
      /\ acc.losses \in Nat /\ acc.active \in BOOLEAN
  BY <1>1, <1>2, RowFacts DEF Accs
<1>4. \A q \in DOMAIN p : q >= k <=> q >= k + 1 \/ q = k
  BY <1>1
<1>5. IsFiniteSet(old) /\ old \subseteq DOMAIN closed
  BY <1>1, <1>2, FS_Subset
<1>6. Cardinality(old) \in Nat /\ acc.losses >= Cardinality(old)
  BY <1>2, <1>5, FS_CardinalityType DEF LossesSeen
<1>7. ~acc.active => \A q \in DOMAIN p : q < k + 1 => p[q] \notin Run
  BY DEF LossesSeen
<1>8. CASE closed[i].pnl = Unknown
  <2>1. i \notin Run /\ s = acc
    BY <1>2, <1>8 DEF Run, LossesToday, Counted, See
  <2>2. new = old
    BY <1>1, <1>2, <1>4, <2>1
  <2>3. \A q \in DOMAIN p : q < k => q < k + 1
    BY <1>1
  <2>4. QED
    BY <1>2, <1>6, <1>7, <2>1, <2>2, <2>3 DEF LossesSeen
<1>9. CASE closed[i].pnl # Unknown /\ acc.active /\ Today(closed[i]) /\ closed[i].pnl < 0
  <2>1. s.losses = acc.losses + 1 /\ s.active
    BY <1>2, <1>9 DEF See
  <2>2. new \subseteq old \cup {k}
    BY <1>1, <1>2, <1>4
  <2>3. IsFiniteSet(old \cup {k}) /\ Cardinality(old \cup {k}) <= Cardinality(old) + 1
    <3>1. k \notin old
      BY <1>1, <1>2
    <3>2. Cardinality(old \cup {k}) = Cardinality(old) + 1 /\ IsFiniteSet(old \cup {k})
      BY <1>5, <3>1, FS_AddElement
    <3>3. QED
      BY <1>6, <3>2
  <2>4. Cardinality(new) <= Cardinality(old \cup {k}) /\ IsFiniteSet(new)
    BY <2>2, <2>3, FS_Subset
  <2>5. /\ Cardinality(new) \in Nat /\ Cardinality(old \cup {k}) \in Nat
    BY <2>3, <2>4, FS_CardinalityType
  <2>6. s.losses >= Cardinality(new)
    BY <1>3, <1>6, <2>1, <2>3, <2>4, <2>5
  <2>7. QED
    BY <1>2, <2>1, <2>6 DEF LossesSeen
<1>10. CASE closed[i].pnl # Unknown /\ ~(acc.active /\ Today(closed[i]) /\ closed[i].pnl < 0)
  <2>1. s.losses = acc.losses + 0 /\ ~s.active
    BY <1>2, <1>10 DEF See
  <2>2. \A q \in DOMAIN p : q < k + 1 => p[q] \notin Run
    <3>1. CASE ~acc.active
      BY <1>7, <3>1
    <3>2. CASE ~(Today(closed[i]) /\ closed[i].pnl < 0)
      <4>1. i \in Counted \ LossesToday
        BY <1>3, <1>10, <3>2 DEF Counted, LossesToday
      <4>2. ASSUME NEW q \in DOMAIN p, q < k + 1, p[q] \in Run PROVE FALSE
        <5>1. closed[i].at < closed[p[q]].at
          BY <4>1, <4>2 DEF Run
        <5>2. q # k
          BY <1>1, <1>2, <1>3, <5>1, RowFacts
        <5>3. q < k
          BY <1>1, <4>2, <5>2
        <5>4. closed[p[q]].at <= closed[i].at
          BY <1>1, <1>2, <5>3 DEF IsReading
        <5>5. closed[p[q]].at \in Nat /\ closed[i].at \in Nat
          BY <1>1, <1>3, RowFacts
        <5>6. QED
          BY <5>1, <5>4, <5>5
      <4>3. QED
        BY <4>2
    <3>3. QED
      BY <1>10, <3>1, <3>2
  <2>3. new = old
    <3>1. i \notin Run
      BY <1>1, <1>2, <2>2
    <3>2. QED
      BY <1>1, <1>2, <1>4, <3>1
  <2>4. \A q \in DOMAIN p : q < k => q < k + 1
    BY <1>1
  <2>5. s.losses >= Cardinality(new)
    BY <1>3, <1>6, <2>1, <2>3
  <2>6. QED
    BY <1>2, <2>1, <2>2, <2>4, <2>5 DEF LossesSeen
<1>11. QED
  BY <1>8, <1>9, <1>10

\* A reading leaves out no row.
LEMMA ReadingOnto ==
    ASSUME TypeOK, NEW p, IsReading(p)
    PROVE  /\ \A i \in DOMAIN closed : \E q \in DOMAIN closed : p[q] = i
           /\ Cardinality(Run) <= Cardinality({q \in DOMAIN p : q >= 1 /\ p[q] \in Run})
<1>1. /\ p \in [DOMAIN closed -> DOMAIN closed] /\ DOMAIN p = DOMAIN closed
      /\ IsFiniteSet(DOMAIN closed) /\ \A q \in DOMAIN closed : q >= 1
      /\ Run \subseteq DOMAIN closed
  BY RowFacts DEF IsReading
<1>2. p \in Injection(DOMAIN closed, DOMAIN closed)
  BY <1>1 DEF IsReading, Injection, IsInjective
<1>3. p \in Surjection(DOMAIN closed, DOMAIN closed)
  BY <1>1, <1>2, FS_Injection
<1>4. \A i \in DOMAIN closed : \E q \in DOMAIN closed : p[q] = i
  BY <1>3 DEF Surjection
<1>5. PICK T, f : /\ T = {q \in DOMAIN p : q >= 1 /\ p[q] \in Run}
                  /\ f = [q \in T |-> p[q]]
  OBVIOUS
<1>6. f \in Surjection(T, Run)
  <2>1. f \in [T -> Run]
    BY <1>5
  <2>2. \A i \in Run : \E q \in T : f[q] = i
    BY <1>1, <1>4, <1>5
  <2>3. QED
    BY <2>1, <2>2 DEF Surjection
<1>7. IsFiniteSet(T)
  BY <1>1, <1>5, FS_Subset
<1>8. Cardinality(Run) <= Cardinality(T)
  BY <1>6, <1>7, FS_Surjection
<1>9. QED
  BY <1>4, <1>5, <1>8

\* Whatever the order within a second, the loop finds the P&L of the day and at least
\* the streak.
LEMMA ReadingSound ==
    ASSUME TypeOK, NEW p, IsReading(p), NEW rows,
           rows = [i \in DOMAIN closed |-> closed[p[i]]]
    PROVE  Stats(rows) \in Accs /\ Stats(rows).pnl = PnlToday /\ Stats(rows).losses >= Streak
<1>1. PICK n : n = Len(closed)
  OBVIOUS
<1>2. /\ n \in Nat /\ DOMAIN closed = 1..n /\ DOMAIN p = 1..n
      /\ \A q \in 1..n : p[q] \in 1..n /\ closed[p[q]] \in ClosedRows
  BY <1>1, RowFacts DEF IsReading
<1>3. rows \in Seq(ClosedRows) /\ Len(rows) = n /\ \A q \in 1..n : rows[q] = closed[p[q]]
  <2>1. rows \in [1..n -> ClosedRows]
    BY <1>2
  <2>2. QED
    BY <1>2, <2>1
<1>4. PICK a \in [0..n -> Accs] :
         /\ a[0] = NoStats
         /\ \A j \in 1..n : a[j] = See(rows[n + 1 - j], a[j - 1])
         /\ Stats(rows) = a[n]
  <2>1. LoopRuns(rows, n)
    BY <1>3, StatsLoop
  <2>2. QED
    BY <2>1 DEF LoopRuns
<1> DEFINE P == {j \in Nat : j <= n => LoopInv(a[j], p, n + 1 - j)}
<1>5. 0 \in P
  <2>1. Seen(p, n + 1) = {} /\ {q \in DOMAIN p : q >= n + 1 /\ p[q] \in Run} = {}
    BY <1>2 DEF Seen
  <2>2. SumFunctionOnSet(Pnls, {}) = 0 /\ Cardinality({}) = 0
    BY SumType, FS_EmptySet
  <2>3. LossesSeen(NoStats, p, n + 1)
    <3>1. NoStats.losses = 0 /\ NoStats.active = TRUE
      BY DEF NoStats
    <3>2. PICK c : c = Cardinality({q \in DOMAIN p : q >= n + 1 /\ p[q] \in Run})
      OBVIOUS
    <3>3. c = 0
      BY <2>1, <2>2, <3>2, Zenon
    <3>4. NoStats.losses >= c
      BY <3>1, <3>3
    <3>5. QED
      BY <3>1, <3>2, <3>4 DEF LossesSeen
  <2>4. Seen(p, n + 1) \cap Paid = {} /\ NoStats.pnl = 0
    BY <2>1 DEF NoStats
  <2>5. LoopInv(NoStats, p, n + 1)
    BY <2>2, <2>3, <2>4 DEF LoopInv
  <2>6. n + 1 - 0 = n + 1
    BY <1>2
  <2>7. QED
    BY <1>4, <2>5, <2>6
<1>6. ASSUME NEW j \in Nat, j \in P PROVE j + 1 \in P
  <2> SUFFICES ASSUME j + 1 <= n PROVE LoopInv(a[j + 1], p, n + 1 - (j + 1))
    OBVIOUS
  <2>1. PICK k, acc : k = n + 1 - (j + 1) /\ acc = a[j]
    OBVIOUS
  <2>2. /\ k \in 1..n /\ j + 1 \in 1..n /\ j + 1 - 1 = j /\ j \in 0..n /\ j <= n
        /\ n + 1 - j = k + 1
    BY <1>2, <2>1
  <2>3. LoopInv(acc, p, k + 1) /\ acc \in Accs
    BY <1>6, <2>1, <2>2
  <2>4. a[j + 1] = See(closed[p[k]], acc)
    <3>1. a[j + 1] = See(rows[n + 1 - (j + 1)], a[(j + 1) - 1])
      BY <1>4, <2>2
    <3>2. rows[k] = closed[p[k]]
      BY <1>3, <2>2
    <3>3. QED
      BY <2>1, <2>2, <3>1, <3>2
  <2> HIDE DEF P
  <2>5. See(closed[p[k]], acc).pnl = SumFunctionOnSet(Pnls, Seen(p, k) \cap Paid)
    BY <1>2, <2>2, <2>3, SeePnl DEF LoopInv
  <2>6. LossesSeen(See(closed[p[k]], acc), p, k)
    BY <1>2, <2>2, <2>3, SeeLosses DEF LoopInv
  <2>7. QED
    BY <2>1, <2>4, <2>5, <2>6 DEF LoopInv
<1>7. \A j \in Nat : j \in P
  <2> HIDE DEF P
  <2>1. \A j \in Nat : j \in P => j + 1 \in P
    BY <1>6
  <2>2. QED
    BY <1>5, <2>1, NatSet
<1>8. LoopInv(Stats(rows), p, 1)
  <2>1. n + 1 - n = 1
    BY <1>2
  <2>2. n \in P
    BY <1>2, <1>7
  <2>3. QED
    BY <1>2, <1>4, <2>1, <2>2
<1>9. Stats(rows).pnl = PnlToday
  <2>1. Seen(p, 1) = DOMAIN closed
    <3>1. \A i \in 1..n : \E q \in 1..n : p[q] = i
      BY <1>2, ReadingOnto
    <3>2. QED
      BY <1>2, <3>1 DEF Seen
  <2>2. Seen(p, 1) \cap Paid = Paid
    BY <2>1, RowFacts
  <2>3. QED
    BY <1>8, <2>2 DEF LoopInv, PnlToday, Pnls, Paid
<1>10. Stats(rows).losses >= Streak
  <2>1. PICK c, d : /\ c = Cardinality(Run)
                    /\ d = Cardinality({q \in DOMAIN p : q >= 1 /\ p[q] \in Run})
    OBVIOUS
  <2>2. c <= d
    BY <2>1, ReadingOnto
  <2>3. c \in Nat /\ d \in Nat
    <3>1. IsFiniteSet(Run)
      BY RowFacts, FS_Subset
    <3>2. IsFiniteSet({q \in DOMAIN p : q >= 1 /\ p[q] \in Run})
      BY <1>2, RowFacts, FS_Subset
    <3>3. QED
      BY <2>1, <3>1, <3>2, FS_CardinalityType
  <2>4. Stats(rows).losses >= d /\ Stats(rows) \in Accs
    BY <1>2, <1>4, <1>8, <2>1 DEF LoopInv, LossesSeen
  <2>5. Streak = c
    BY <2>1 DEF Streak, Run
  <2>6. QED
    BY <2>2, <2>3, <2>4, <2>5 DEF Accs
<1>11. Stats(rows) \in Accs
  BY <1>2, <1>4
<1>12. QED
  BY <1>9, <1>10, <1>11

\* Outside dryrun what is approved is within both limits of the breaker.
LEMMA BreakerHolds ==
    ASSUME TypeOK, Approve, mode # "dryrun"
    PROVE  WithinBreaker
<1>1. PICK rows \in Readings : ~Trips(Stats(rows))
  BY DEF Approve
<1>2. PICK p : IsReading(p) /\ rows = [i \in DOMAIN closed |-> closed[p[i]]]
  BY <1>1 DEF Readings, IsReading
<1>3. PICK s, c : s = Stats(rows) /\ c = Streak
  OBVIOUS
<1>4. s.pnl \in Int /\ s.losses \in Nat /\ s.pnl = PnlToday /\ s.losses >= c
  BY <1>2, <1>3, ReadingSound DEF Accs
<1>5. nav \in Int /\ cfg.lossPct \in Nat /\ cfg.maxLosses \in Nat
  BY DEF TypeOK
<1>6. c \in Nat
  <2>1. IsFiniteSet(Run)
    BY RowFacts, FS_Subset
  <2>2. QED
    BY <1>3, <2>1, FS_CardinalityType DEF Streak, Run
<1>7. c < cfg.maxLosses
  BY <1>1, <1>3, <1>4, <1>5, <1>6 DEF Trips
<1>8. s.pnl < 0 => (0 - s.pnl) * 100 < cfg.lossPct * nav
  <2>1. (0 - s.pnl) * 100 \in Int /\ cfg.lossPct * nav \in Int
    BY <1>4, <1>5
  <2>2. QED
    BY <1>1, <1>3, <2>1 DEF Trips
<1>9. QED
  BY <1>3, <1>4, <1>7, <1>8 DEF WithinBreaker

\* Outside dryrun no order is approved on a day whose realised loss, or whose run of
\* losing trades, has reached its limit, and in every mode, whatever the method, the
\* probability, the portfolio value and the settings, no order is sized above its
\* share of the portfolio at the price its signal names (manager.py:57-192, 200-286);
\* the price it fills at is not bounded.
THEOREM LimitsKept == Spec => RiskLimits
<1>1. IInv /\ [Next]_vars =>
         [Approval => (mode # "dryrun" => WithinBreaker) /\ SizedWithinCap]_vars
  BY ApprovalIsApprove, ApproveType, BreakerHolds DEF IInv
<1>2. QED
  BY Inductive, <1>1, PTL DEF Spec, RiskLimits
=============================================================================
