-------------------------- MODULE Backtest_proofs --------------------------
(***************************************************************************)
(* For any bars, parameters and bounds: positions and trades are well      *)
(* formed and follow the rules of the backtest, and the books balance.     *)
(*                                                                         *)
(* The sums over the trades and the drawdown are folds.  They are reasoned *)
(* about here through the functions that compute them, by induction over   *)
(* the subsets of a finite set or over the natural numbers, each stated    *)
(* for a set and not for a predicate.                                      *)
(***************************************************************************)
EXTENDS Backtest, FiniteSetTheorems, SequenceTheorems, WellFoundedInduction, TLAPS

-----------------------------------------------------------------------------
(* Folds over finite sets. *)

\* Induction over the subsets of a finite set: what a set has when all its proper
\* subsets have it, every subset has.
LEMMA SubsetInduction ==
    ASSUME NEW S, IsFiniteSet(S), NEW P,
           \A T \in SUBSET S : (\A U \in SUBSET T : U # T => U \in P) => T \in P
    PROVE  \A T \in SUBSET S : T \in P
<1> SUFFICES ASSUME NEW T0 \in SUBSET S, T0 \notin P PROVE FALSE
  OBVIOUS
<1> DEFINE R == StrictSubsetOrdering(S)
           bad == {T \in SUBSET S : T \notin P}
<1>1. FiniteSubsetsOf(S) = SUBSET S
  BY FS_FiniteSubsetsOfFinite
<1>2. IsWellFoundedOn(R, SUBSET S)
  <2>1. IsWellFoundedOn(R, FiniteSubsetsOf(S))
    BY FS_StrictSubsetOrderingWellFounded
  <2>2. QED
    BY <1>1, <2>1, Zenon
<1>3. bad \subseteq SUBSET S /\ bad # {}
  OBVIOUS
<1> HIDE DEF R, bad
<1>4. \E T \in bad : \A U \in bad : ~ (<<U, T>> \in R)
  BY <1>2, <1>3, WFMin
<1>5. PICK T \in bad : \A U \in bad : <<U, T>> \notin R
  BY <1>4
<1>6. ASSUME NEW U \in SUBSET T, U # T PROVE U \in P
  <2>1. U \in SUBSET S /\ T \in SUBSET S
    BY <1>3
  <2>2. <<U, T>> \in R
    BY <1>6, <2>1 DEF R, StrictSubsetOrdering
  <2>3. QED
    BY <1>5, <2>1, <2>2 DEF bad
<1>7. T \in P
  BY <1>3, <1>6
<1>8. QED
  BY <1>7 DEF bad

\* g folds the subsets of S: base for the empty set, else what h makes of the element
\* c chooses and of the fold of the rest.
Folds(g, S, base, h, c) ==
    \A T \in SUBSET S : g[T] = IF T = {} THEN base ELSE h[<<c[T], g[T \ {c[T]}]>>]

\* Two folds of the same set agree.
LEMMA FoldUnique ==
    ASSUME NEW S, IsFiniteSet(S), NEW base, NEW h, NEW c,
           \A T \in SUBSET S : T # {} => c[T] \in T,
           NEW g1, NEW g2, Folds(g1, S, base, h, c), Folds(g2, S, base, h, c)
    PROVE  \A T \in SUBSET S : g1[T] = g2[T]
<1> DEFINE P == {T \in SUBSET S : g1[T] = g2[T]}
<1>1. ASSUME NEW T \in SUBSET S, \A U \in SUBSET T : U # T => U \in P
      PROVE  g1[T] = g2[T]
  <2>1. CASE T = {}
    BY <2>1 DEF Folds
  <2>2. CASE T # {}
    <3>1. T \ {c[T]} \in SUBSET T /\ T \ {c[T]} # T
      BY <2>2
    <3>2. g1[T \ {c[T]}] = g2[T \ {c[T]}]
      BY <1>1, <3>1
    <3>3. g1[T] = h[<<c[T], g1[T \ {c[T]}]>>] /\ g2[T] = h[<<c[T], g2[T \ {c[T]}]>>]
      BY <2>2 DEF Folds
    <3>4. QED
      BY <3>2, <3>3
  <2>3. QED
    BY <2>1, <2>2
<1>2. \A T \in SUBSET S : (\A U \in SUBSET T : U # T => U \in P) => T \in P
  BY <1>1
<1> HIDE DEF P
<1>3. \A T \in SUBSET S : T \in P
  BY <1>2, SubsetInduction
<1>4. QED
  BY <1>3 DEF P

\* There is such a fold.
LEMMA FoldExists ==
    ASSUME NEW S, IsFiniteSet(S), NEW V, NEW base \in V, NEW h, NEW c,
           \A T \in SUBSET S : T # {} => c[T] \in T,
           \A x \in S, v \in V : h[<<x, v>>] \in V
    PROVE  \E g \in [SUBSET S -> V] : Folds(g, S, base, h, c)
<1> DEFINE G(T) == {g \in [SUBSET T -> V] : Folds(g, T, base, h, c)}
           P == {T \in SUBSET S : G(T) # {}}
<1>1. ASSUME NEW T \in SUBSET S, \A U \in SUBSET T : U # T => U \in P
      PROVE  G(T) # {}
  <2> DEFINE some(U) == CHOOSE g : g \in G(U)
             val(U) == some(U)[U]
             top == IF T = {} THEN base ELSE h[<<c[T], val(T \ {c[T]})>>]
             new == [U \in SUBSET T |-> IF U = T THEN top ELSE val(U)]
  <2>1. ASSUME NEW U \in SUBSET T, U # T
        PROVE  some(U) \in G(U) /\ U \in SUBSET S
    <3>1. G(U) # {}
      BY <1>1, <2>1
    <3>2. QED
      BY <3>1
  <2>2. ASSUME NEW U \in SUBSET T, U # T
        PROVE  val(U) \in V
    <3>1. some(U) \in [SUBSET U -> V]
      BY <2>1, <2>2
    <3> HIDE DEF some
    <3>2. QED
      BY <3>1
  <2>3. ASSUME NEW U \in SUBSET T, U # T, U # {}
        PROVE  c[U] \in U /\ val(U) = h[<<c[U], val(U \ {c[U]})>>]
    <3> DEFINE W == U \ {c[U]}
    <3>1. c[U] \in U /\ W \in SUBSET U /\ W # T /\ W \in SUBSET T
      BY <2>1, <2>3
    <3>2. some(U) \in G(U) /\ some(W) \in G(W)
      BY <2>1, <2>3, <3>1
    <3> HIDE DEF some
    <3>3. Folds(some(W), W, base, h, c) /\ Folds(some(U), U, base, h, c)
      BY <3>2
    <3>4. Folds(some(U), W, base, h, c)
      BY <3>1, <3>3 DEF Folds
    <3>5. IsFiniteSet(W) /\ \A Q \in SUBSET W : Q # {} => c[Q] \in Q
      BY <2>1, <2>3, <3>1, FS_Subset
    <3>6. some(U)[W] = some(W)[W]
      <4> HIDE DEF W
      <4>1. QED
        BY <3>3, <3>4, <3>5, FoldUnique
    <3>7. some(U)[U] = h[<<c[U], some(U)[W]>>]
      BY <2>3, <3>3 DEF Folds
    <3>8. QED
      BY <3>1, <3>6, <3>7
  <2> HIDE DEF some, val
  <2>4. top \in V
    <3>1. CASE T = {}
      BY <3>1
    <3>2. CASE T # {}
      <4>1. c[T] \in T /\ c[T] \in S
        BY <3>2
      <4>2. val(T \ {c[T]}) \in V
        BY <2>2, <4>1
      <4>3. QED
        BY <3>2, <4>1, <4>2
    <3>3. QED
      BY <3>1, <3>2
  <2> HIDE DEF top
  <2>5. new \in [SUBSET T -> V]
    BY <2>2, <2>4
  <2>6. ASSUME NEW U \in SUBSET T
        PROVE  new[U] = IF U = {} THEN base ELSE h[<<c[U], new[U \ {c[U]}]>>]
    <3>1. CASE U = T /\ T = {}
      BY <3>1 DEF top
    <3>2. CASE U = T /\ T # {}
      <4>1. c[T] \in T
        BY <3>2
      <4>2. new[T \ {c[T]}] = val(T \ {c[T]})
        BY <4>1
      <4>3. QED
        BY <3>2, <4>2 DEF top
    <3>3. CASE U # T /\ U = {}
      <4>1. new[U] = val(U) /\ some(U) \in G(U)
        BY <2>1, <3>3
      <4>2. some(U)[U] = base
        BY <3>3, <4>1 DEF Folds
      <4>3. QED
        BY <3>3, <4>1, <4>2 DEF val
    <3>4. CASE U # T /\ U # {}
      <4>1. c[U] \in U /\ val(U) = h[<<c[U], val(U \ {c[U]})>>]
        BY <2>3, <3>4
      <4>2. U \ {c[U]} \in SUBSET T /\ U \ {c[U]} # T
        BY <3>4, <4>1
      <4>3. new[U] = val(U) /\ new[U \ {c[U]}] = val(U \ {c[U]})
        BY <3>4, <4>2
      <4>4. QED
        BY <3>4, <4>1, <4>3
    <3>5. QED
      BY <3>1, <3>2, <3>3, <3>4
  <2> HIDE DEF new
  <2>7. new \in G(T)
    BY <2>5, <2>6 DEF Folds
  <2>8. QED
    BY <2>7
<1>2. \A T \in SUBSET S : (\A U \in SUBSET T : U # T => U \in P) => T \in P
  BY <1>1
<1>3. S \in P
  <2> HIDE DEF P, G
  <2>1. QED
    BY <1>2, SubsetInduction
<1>4. QED
  BY <1>3

-----------------------------------------------------------------------------
(* Sums. *)

AnyOf(T) == CHOOSE x \in T : TRUE

\* The function behind SumFunctionOnSet: every set of indices with its sum.
Sums(g, S, fun) ==
    \A T \in SUBSET S : g[T] = IF T = {} THEN 0 ELSE fun[AnyOf(T)] + g[T \ {AnyOf(T)}]

\* Functions that agree on the indices have the same sums.
LEMMA SumsAgree ==
    ASSUME NEW S, IsFiniteSet(S), NEW f1, NEW f2, \A x \in S : f1[x] = f2[x],
           NEW g1, NEW g2, Sums(g1, S, f1), Sums(g2, S, f2)
    PROVE  \A T \in SUBSET S : g1[T] = g2[T]
<1> DEFINE P == {T \in SUBSET S : g1[T] = g2[T]}
<1>1. ASSUME NEW T \in SUBSET S, \A U \in SUBSET T : U # T => U \in P
      PROVE  g1[T] = g2[T]
  <2>1. CASE T = {}
    BY <2>1 DEF Sums
  <2>2. CASE T # {}
    <3>1. AnyOf(T) \in T
      BY <2>2 DEF AnyOf
    <3>2. g1[T \ {AnyOf(T)}] = g2[T \ {AnyOf(T)}] /\ f1[AnyOf(T)] = f2[AnyOf(T)]
      BY <1>1, <3>1
    <3>3. QED
      BY <2>2, <3>2 DEF Sums
  <2>3. QED
    BY <2>1, <2>2
<1>2. \A T \in SUBSET S : (\A U \in SUBSET T : U # T => U \in P) => T \in P
  BY <1>1
<1> HIDE DEF P
<1>3. \A T \in SUBSET S : T \in P
  BY <1>2, SubsetInduction
<1>4. QED
  BY <1>3 DEF P

\* SumFunctionOnSet is such a sum.
LEMMA SumIsFold ==
    ASSUME NEW S, IsFiniteSet(S), NEW fun, \A x \in S : fun[x] \in Int
    PROVE  \E g \in [SUBSET S -> Int] : Sums(g, S, fun) /\ SumFunctionOnSet(fun, S) = g[S]
<1> DEFINE h == [q \in S \X Int |-> fun[q[1]] + q[2]]
           c == [T \in SUBSET S |-> AnyOf(T)]
           Rec(g) == g = [T \in SUBSET S |-> IF T = {} THEN 0
                                            ELSE fun[AnyOf(T)] + g[T \ {AnyOf(T)}]]
           iter == CHOOSE g : Rec(g)
<1>1. \A T \in SUBSET S : T # {} => AnyOf(T) \in T
  BY DEF AnyOf
<1>2. \A T \in SUBSET S : T # {} => c[T] \in T
  BY <1>1
<1>3. \A x \in S, v \in Int : h[<<x, v>>] \in Int /\ h[<<x, v>>] = fun[x] + v
  OBVIOUS
<1> HIDE DEF h
<1>4. PICK g \in [SUBSET S -> Int] : Folds(g, S, 0, h, c)
  <2> HIDE DEF c
  <2>1. \A x \in S, v \in Int : h[<<x, v>>] \in Int
    BY <1>3
  <2>2. 0 \in Int
    OBVIOUS
  <2>3. QED
    BY <1>2, <2>1, <2>2, FoldExists, Zenon
<1>5. ASSUME NEW T \in SUBSET S
      PROVE  g[T] = IF T = {} THEN 0 ELSE fun[AnyOf(T)] + g[T \ {AnyOf(T)}]
  <2>1. CASE T = {}
    BY <1>4, <2>1 DEF Folds
  <2>2. CASE T # {}
    <3>1. AnyOf(T) \in T /\ c[T] = AnyOf(T)
      BY <1>1, <2>2
    <3>2. g[T \ {AnyOf(T)}] \in Int
      BY <1>4, <3>1
    <3>3. g[T] = h[<<c[T], g[T \ {c[T]}]>>]
      BY <1>4, <2>2 DEF Folds
    <3>4. QED
      BY <1>3, <2>2, <3>1, <3>2, <3>3
  <2>3. QED
    BY <2>1, <2>2
<1>6. Rec(g)
  BY <1>4, <1>5
<1>7. Rec(iter)
  BY <1>6
<1>8. SumFunctionOnSet(fun, S) = iter[S]
  BY DEF SumFunctionOnSet, FoldFunctionOnSet, MapThenFoldSet, AnyOf
<1> HIDE DEF iter
<1>9. Sums(iter, S, fun)
  BY <1>7 DEF Sums
<1>10. iter = g
  <2>1. Sums(g, S, fun)
    BY <1>5 DEF Sums
  <2>2. \A T \in SUBSET S : iter[T] = g[T]
    BY <1>9, <2>1, SumsAgree
  <2>3. iter = [T \in SUBSET S |-> iter[T]]
    BY <1>7
  <2>4. g = [T \in SUBSET S |-> g[T]]
    BY <1>4
  <2>5. QED
    BY <2>2, <2>3, <2>4
<1>11. QED
  BY <1>8, <1>9, <1>10

LEMMA SumType ==
    ASSUME NEW S, IsFiniteSet(S), NEW fun, \A x \in S : fun[x] \in Int
    PROVE  /\ SumFunctionOnSet(fun, S) \in Int
           /\ S = {} => SumFunctionOnSet(fun, S) = 0
<1>1. PICK g \in [SUBSET S -> Int] : Sums(g, S, fun) /\ SumFunctionOnSet(fun, S) = g[S]
  BY SumIsFold
<1>2. S \in SUBSET S
  OBVIOUS
<1>3. g[S] \in Int
  BY <1>1, <1>2
<1>4. S = {} => g[S] = 0
  BY <1>1, <1>2 DEF Sums
<1>5. QED
  BY <1>1, <1>3, <1>4

\* The sum depends on the values at the indices only.
LEMMA SumSame ==
    ASSUME NEW S, IsFiniteSet(S), NEW f1, NEW f2,
           \A x \in S : f1[x] \in Int /\ f1[x] = f2[x]
    PROVE  SumFunctionOnSet(f1, S) = SumFunctionOnSet(f2, S)
<1>1. PICK g1 \in [SUBSET S -> Int] : Sums(g1, S, f1) /\ SumFunctionOnSet(f1, S) = g1[S]
  BY SumIsFold
<1>2. \A x \in S : f2[x] \in Int
  OBVIOUS
<1>3. PICK g2 \in [SUBSET S -> Int] : Sums(g2, S, f2) /\ SumFunctionOnSet(f2, S) = g2[S]
  BY <1>2, SumIsFold
<1>4. QED
  BY <1>1, <1>3, SumsAgree

\* A sum is any one of its values and the sum of the others.
LEMMA SumRemove ==
    ASSUME NEW S, IsFiniteSet(S), NEW fun, \A x \in S : fun[x] \in Int, NEW x \in S
    PROVE  SumFunctionOnSet(fun, S) = fun[x] + SumFunctionOnSet(fun, S \ {x})
<1>1. PICK g \in [SUBSET S -> Int] : Sums(g, S, fun) /\ SumFunctionOnSet(fun, S) = g[S]
  BY SumIsFold
<1> DEFINE P == {T \in SUBSET S : \A y \in T : g[T] = fun[y] + g[T \ {y}]}
<1>2. ASSUME NEW T \in SUBSET S, \A U \in SUBSET T : U # T => U \in P, NEW y \in T
      PROVE  g[T] = fun[y] + g[T \ {y}]
  <2> DEFINE z == AnyOf(T)
  <2>1. z \in T /\ g[T] = fun[z] + g[T \ {z}]
    BY <1>1 DEF Sums, AnyOf
  <2> HIDE DEF z
  <2>2. CASE y = z
    BY <2>1, <2>2
  <2>3. CASE y # z
    <3>1. T \ {z} \in P /\ T \ {y} \in P /\ y \in T \ {z} /\ z \in T \ {y}
      BY <1>2, <2>1, <2>3
    <3>2. /\ g[T \ {z}] = fun[y] + g[(T \ {z}) \ {y}]
          /\ g[T \ {y}] = fun[z] + g[(T \ {y}) \ {z}]
      BY <3>1
    <3>3. (T \ {z}) \ {y} = (T \ {y}) \ {z}
      OBVIOUS
    <3>4. PICK r : r = g[(T \ {z}) \ {y}]
      OBVIOUS
    <3>5. fun[y] \in Int /\ fun[z] \in Int /\ r \in Int
      BY <2>1, <3>4
    <3>6. g[T] = fun[z] + (fun[y] + r) /\ g[T \ {y}] = fun[z] + r
      BY <2>1, <3>2, <3>3, <3>4
    <3> HIDE DEF P
    <3>7. QED
      BY <3>5, <3>6
  <2>4. QED
    BY <2>2, <2>3
<1>3. \A T \in SUBSET S : (\A U \in SUBSET T : U # T => U \in P) => T \in P
  BY <1>2
<1>4. g[S] = fun[x] + g[S \ {x}]
  <2>1. S \in P
    <3> HIDE DEF P
    <3>1. QED
      BY <1>3, SubsetInduction
  <2>2. QED
    BY <2>1
<1> HIDE DEF P
<1>5. IsFiniteSet(S \ {x}) /\ S \ {x} \in SUBSET S
  BY FS_Subset
<1>6. PICK r \in [SUBSET (S \ {x}) -> Int] :
        Sums(r, S \ {x}, fun) /\ SumFunctionOnSet(fun, S \ {x}) = r[S \ {x}]
  BY <1>5, SumIsFold
<1>7. Sums(g, S \ {x}, fun)
  BY <1>1 DEF Sums
<1>8. g[S \ {x}] = r[S \ {x}]
  BY <1>5, <1>6, <1>7, SumsAgree
<1>9. QED
  BY <1>1, <1>4, <1>6, <1>8

-----------------------------------------------------------------------------
(* The loop of _max_drawdown. *)

\* Induction over the natural numbers, for a set of them.
LEMMA NatSet ==
    ASSUME NEW P, 0 \in P, \A n \in Nat : n \in P => n + 1 \in P
    PROVE  \A n \in Nat : n \in P
<1> SUFFICES ASSUME NEW n0 \in Nat, n0 \notin P PROVE FALSE
  OBVIOUS
<1> DEFINE R == OpToRel(<, Nat)
           bad == {n \in Nat : n \notin P}
<1>1. IsWellFoundedOn(R, Nat)
  BY NatLessThanWellFounded
<1>2. bad \subseteq Nat /\ bad # {}
  OBVIOUS
<1>3. PICK n \in bad : \A m \in bad : ~ (<<m, n>> \in R)
  <2> HIDE DEF R, bad
  <2>1. QED
    BY <1>1, <1>2, WFMin
<1>4. n \in Nat /\ n \notin P /\ n # 0
  OBVIOUS
<1>5. n - 1 \in Nat /\ n - 1 < n /\ n - 1 + 1 = n
  BY <1>4
<1>6. n - 1 \in P
  BY <1>3, <1>5 DEF OpToRel
<1>7. QED
  BY <1>4, <1>5, <1>6

\* A set of numbers of a sequence's length has a greatest one.
LEMMA MaxIn ==
    ASSUME NEW n \in Nat, NEW T \in SUBSET (1..n), T # {}
    PROVE  Max(T) \in T /\ \A y \in T : Max(T) >= y
<1> DEFINE R == OpToRel(<, Nat)
           left == {m \in Nat : n - m \in T}
<1>1. IsWellFoundedOn(R, Nat)
  BY NatLessThanWellFounded
<1>2. left \subseteq Nat /\ left # {}
  <2>1. PICK x : x \in T
    OBVIOUS
  <2>2. x \in 1..n /\ n - x \in Nat /\ n - (n - x) = x
    BY <2>1
  <2>3. QED
    BY <2>1, <2>2
<1>3. PICK m \in left : \A k \in left : ~ (<<k, m>> \in R)
  <2> HIDE DEF R, left
  <2>1. QED
    BY <1>1, <1>2, WFMin
<1>4. ASSUME NEW y \in T PROVE n - m >= y
  <2>1. y \in 1..n /\ n - y \in Nat /\ n - (n - y) = y /\ m \in Nat
    OBVIOUS
  <2>2. n - y \in left
    BY <2>1
  <2>3. ~ (n - y < m)
    BY <1>3, <2>1, <2>2 DEF OpToRel
  <2>4. QED
    BY <2>1, <2>3
<1>5. n - m \in T
  OBVIOUS
<1>6. QED
  BY <1>4, <1>5 DEF Max

Drawdowns == [drop : Int, peak : Int]
Seen == [peak : Int, worst : Drawdowns]

LEMMA SeeType ==
    ASSUME NEW acc \in Seen, NEW e \in Int
    PROVE  See(acc, e) \in Seen
BY DEF See, Seen, Drawdowns

\* The fold is the loop: one element after the other.
LEMMA DrawdownLoop ==
    ASSUME NEW list \in Seq(Int), NEW start \in Seen
    PROVE  \E a \in [0..Len(list) -> Seen] :
              /\ a[0] = start
              /\ \A k \in 1..Len(list) : a[k] = See(a[k - 1], list[k])
              /\ FoldLeft(See, start, list) = a[Len(list)]
<1> DEFINE n == Len(list)
           S == 1..n
           h == [q \in S \X Seen |-> See(q[2], list[q[1]])]
           c == [T \in SUBSET S |-> Max(T)]
           Rec(g) == g = [T \in SUBSET S |-> IF T = {} THEN start
                                            ELSE See(g[T \ {Max(T)}], list[Max(T)])]
           iter == CHOOSE g : Rec(g)
<1>1. n \in Nat /\ DOMAIN list = S /\ IsFiniteSet(S) /\ \A i \in S : list[i] \in Int
  BY LenProperties, FS_Interval, ElementOfSeq
<1>2. \A T \in SUBSET S : T # {} => Max(T) \in T
  BY <1>1, MaxIn
<1>3. \A T \in SUBSET S : T # {} => c[T] \in T
  BY <1>2
<1>4. \A x \in S, v \in Seen : h[<<x, v>>] \in Seen /\ h[<<x, v>>] = See(v, list[x])
  <2>1. \A x \in S, v \in Seen : h[<<x, v>>] = See(v, list[x])
    OBVIOUS
  <2>2. \A x \in S, v \in Seen : See(v, list[x]) \in Seen
    BY <1>1, SeeType
  <2>3. QED
    BY <2>1, <2>2
<1> HIDE DEF h, n, S
<1>5. PICK g \in [SUBSET S -> Seen] : Folds(g, S, start, h, c)
  <2> HIDE DEF c
  <2>1. \A x \in S, v \in Seen : h[<<x, v>>] \in Seen
    BY <1>4
  <2>2. QED
    BY <1>1, <1>3, <2>1, FoldExists, Zenon
<1>6. ASSUME NEW T \in SUBSET S
      PROVE  g[T] = IF T = {} THEN start ELSE See(g[T \ {Max(T)}], list[Max(T)])
  <2>1. CASE T = {}
    BY <1>5, <2>1 DEF Folds
  <2>2. CASE T # {}
    <3>1. Max(T) \in T /\ c[T] = Max(T)
      BY <1>2, <2>2
    <3>2. g[T \ {Max(T)}] \in Seen
      BY <1>5, <3>1
    <3>3. g[T] = h[<<c[T], g[T \ {c[T]}]>>]
      BY <1>5, <2>2 DEF Folds
    <3>4. QED
      BY <1>4, <2>2, <3>1, <3>2, <3>3
  <2>3. QED
    BY <2>1, <2>2
<1>7. Rec(iter)
  <2>1. Rec(g)
    BY <1>5, <1>6
  <2>2. QED
    BY <2>1
<1>8. FoldLeft(See, start, list) = iter[S]
  BY <1>1 DEF FoldLeft, MapThenFoldSet
<1> HIDE DEF iter
<1>9. iter[S] = g[S]
  <2> DEFINE P == {T \in SUBSET S : iter[T] = g[T]}
  <2>1. ASSUME NEW T \in SUBSET S, \A U \in SUBSET T : U # T => U \in P
        PROVE  iter[T] = g[T]
    <3>1. iter[T] = IF T = {} THEN start ELSE See(iter[T \ {Max(T)}], list[Max(T)])
      BY <1>7
    <3>2. CASE T = {}
      BY <1>6, <3>1, <3>2
    <3>3. CASE T # {}
      <4>1. Max(T) \in T
        BY <1>2, <3>3
      <4>2. iter[T \ {Max(T)}] = g[T \ {Max(T)}]
        BY <2>1, <4>1
      <4>3. QED
        BY <1>6, <3>1, <3>3, <4>2
    <3>4. QED
      BY <3>2, <3>3
  <2>2. \A T \in SUBSET S : (\A U \in SUBSET T : U # T => U \in P) => T \in P
    BY <2>1
  <2>3. \A T \in SUBSET S : T \in P
    <3>1. IsFiniteSet(S)
      BY <1>1
    <3> HIDE DEF P
    <3>2. QED
      BY <3>1, <2>2, SubsetInduction, Zenon
  <2>4. QED
    BY <2>3
<1>10. PICK a : a = [k \in 0..n |-> g[1..k]]
  OBVIOUS
<1>11. \A k \in 0..n : 1..k \in SUBSET S
  BY <1>1 DEF S
<1>12. a \in [0..n -> Seen]
  BY <1>5, <1>10, <1>11
<1>13. a[0] = start
  <2>1. 1..0 = {} /\ 0 \in 0..n
    BY <1>1
  <2>2. QED
    BY <1>6, <1>10, <2>1
<1>14. ASSUME NEW k \in 1..n PROVE a[k] = See(a[k - 1], list[k])
  <2>1. k \in 0..n /\ k - 1 \in 0..n /\ k \in Nat /\ k >= 1
    BY <1>1
  <2>2. Max(1..k) = k
    <3>0. k \in 1..k
      BY <2>1
    <3>1. 1..k \in SUBSET (1..k) /\ 1..k # {} /\ k \in 1..k
      BY <3>0, Zenon
    <3>2. Max(1..k) \in 1..k /\ \A y \in 1..k : Max(1..k) >= y
      BY <2>1, <3>1, MaxIn, Zenon
    <3>3. QED
      BY <2>1, <3>1, <3>2
  <2>3. (1..k) \ {k} = 1..(k - 1) /\ 1..k # {}
    <3>1. k \in 1..k
      BY <2>1
    <3>2. \A i : i \in (1..k) \ {k} <=> i \in 1..(k - 1)
      BY <2>1
    <3>3. QED
      BY <3>1, <3>2, Zenon
  <2>4. QED
    BY <1>6, <1>10, <1>11, <2>1, <2>2, <2>3
<1>15. FoldLeft(See, start, list) = a[n]
  BY <1>1, <1>8, <1>9, <1>10 DEF S
<1>16. QED
  BY <1>12, <1>13, <1>14, <1>15 DEF n

LEMMA MulMono ==
    ASSUME NEW a \in Int, NEW b \in Int, NEW k \in Int, k >= 0, a <= b
    PROVE  a * k <= b * k
<1>1. (b - a) * k >= 0
  OBVIOUS
<1>2. (b - a) * k = b * k - a * k /\ a * k \in Int /\ b * k \in Int
  OBVIOUS
<1>3. QED
  BY <1>1, <1>2

LEMMA MulCancel ==
    ASSUME NEW a \in Int, NEW b \in Int, NEW k \in Int, k > 0, a * k <= b * k
    PROVE  a <= b
<1> SUFFICES ASSUME a > b PROVE FALSE
  OBVIOUS
<1>1. (a - b) * k > 0
  OBVIOUS
<1>2. (a - b) * k = a * k - b * k /\ a * k \in Int /\ b * k \in Int
  OBVIOUS
<1>3. QED
  BY <1>1, <1>2

\* A drop that is no deeper than a second one is no deeper than a third one that is
\* at least as deep as the second.
LEMMA DeeperTrans ==
    ASSUME NEW d \in Int, NEW c \in Int, NEW wd \in Int, NEW wp \in Int, NEW vd \in Int,
           NEW vp \in Int, c > 0, wp > 0, vp > 0, d * wp <= wd * c, wd * vp <= vd * wp
    PROVE  d * vp <= vd * c
<1> DEFINE x == d * wp
           y == wd * c
           u == wd * vp
           v == vd * wp
           l == d * vp
           r == vd * c
<1>1. x \in Int /\ y \in Int /\ u \in Int /\ v \in Int /\ l \in Int /\ r \in Int
  OBVIOUS
<1>2. x <= y /\ u <= v
  OBVIOUS
<1>3. x * vp = l * wp /\ y * vp = u * c /\ v * c = r * wp
  OBVIOUS
<1> HIDE DEF x, y, u, v, l, r
<1>4. x * vp <= y * vp
  BY <1>1, <1>2, MulMono
<1>5. u * c <= v * c
  BY <1>1, <1>2, MulMono
<1>6. l * wp <= r * wp
  <2>1. l * wp \in Int /\ u * c \in Int /\ r * wp \in Int
    BY <1>1
  <2>2. QED
    BY <1>3, <1>4, <1>5, <2>1
<1>7. l <= r
  BY <1>1, <1>6, MulCancel
<1>8. QED
  BY <1>7 DEF l, r

\* From a higher peak the same fall to a point that is not negative is deeper.
LEMMA DeeperPeak ==
    ASSUME NEW c \in Int, NEW p \in Int, NEW e \in Int, c <= p, e >= 0 \/ c = p
    PROVE  (c - e) * p <= (p - e) * c
<1>1. c * p \in Int /\ e * p \in Int /\ e * c \in Int /\ c * p = p * c
  OBVIOUS
<1>2. (c - e) * p = c * p - e * p /\ (p - e) * c = p * c - e * c
  OBVIOUS
<1>3. e * c <= e * p
  <2>1. CASE c = p
    BY <1>1, <2>1
  <2>2. CASE e >= 0
    <3>1. c * e <= p * e
      BY <2>2, MulMono
    <3>2. c * e = e * c /\ p * e = e * p
      OBVIOUS
    <3>3. QED
      BY <3>1, <3>2
  <2>3. QED
    BY <2>1, <2>2
<1>4. QED
  BY <1>1, <1>2, <1>3

\* The drops of the first k points of a list, as in Drops.
Comparable(list, i, j) ==
    /\ i <= j /\ list[i] > 0
    /\ list[j] >= 0 \/ \A m \in 1..j : list[m] <= list[i]
NoneDeeper(list, k, dd) ==
    \A i, j \in 1..k : Comparable(list, i, j) =>
        (list[i] - list[j]) * dd.peak <= dd.drop * list[i]
IsDrop(list, k, dd) ==
    dd.drop > 0 => \E i, j \in 1..k :
        i < j /\ list[i] = dd.peak /\ list[i] - list[j] = dd.drop

\* What the loop of _max_drawdown knows after k points.
IsPeak(list, k, peak) ==
    /\ peak >= list[1] /\ \A i \in 1..k : peak >= list[i]
    /\ IF k = 0 THEN peak = list[1] ELSE \E i \in 1..k : list[i] = peak
LoopInv(list, k, acc) ==
    /\ acc.worst.peak > 0 /\ acc.worst.drop >= 0
    /\ IsPeak(list, k, acc.peak)
    /\ NoneDeeper(list, k, acc.worst) /\ IsDrop(list, k, acc.worst)

\* A pass of the loop.
LEMMA SeeStep ==
    ASSUME NEW list \in Seq(Int), NEW k \in 1..Len(list), list[1] > 0,
           NEW acc \in Seen, LoopInv(list, k - 1, acc)
    PROVE  LoopInv(list, k, See(acc, list[k]))
<1>1. /\ k \in Nat /\ k >= 1 /\ k - 1 \in Nat
      /\ \A i \in 1..k : list[i] \in Int
  <2>1. Len(list) \in Nat /\ DOMAIN list = 1..Len(list)
    BY LenProperties
  <2>2. \A i \in 1..Len(list) : list[i] \in Int
    BY <2>1, ElementOfSeq
  <2>3. QED
    BY <2>1, <2>2
<1>2. PICK e : e = list[k]
  OBVIOUS
<1>3. PICK p : p = IF e > acc.peak THEN e ELSE acc.peak
  OBVIOUS
<1>4. PICK wd : wd = acc.worst.drop
  OBVIOUS
<1>5. PICK wp : wp = acc.worst.peak
  OBVIOUS
<1>6. e \in Int /\ p \in Int /\ wd \in Int /\ wp \in Int /\ acc.peak \in Int
  BY <1>1, <1>2, <1>3, <1>4, <1>5 DEF Seen, Drawdowns
<1>7. /\ wp > 0 /\ wd >= 0 /\ IsPeak(list, k - 1, acc.peak)
      /\ NoneDeeper(list, k - 1, acc.worst) /\ IsDrop(list, k - 1, acc.worst)
  BY <1>4, <1>5 DEF LoopInv
<1>8. IsPeak(list, k, p) /\ p > 0
  <2>1. list[1] \in Int /\ p >= acc.peak /\ p >= e
    BY <1>1, <1>3, <1>6
  <2>2. p >= list[1] /\ p > 0
    BY <1>6, <1>7, <2>1 DEF IsPeak
  <2>3. ASSUME NEW i \in 1..k PROVE p >= list[i]
    <3>1. CASE i = k
      BY <1>2, <2>1, <3>1
    <3>2. CASE i # k
      <4>1. i \in 1..(k - 1) /\ list[i] \in Int
        BY <1>1, <3>2
      <4>2. acc.peak >= list[i]
        BY <1>7, <4>1 DEF IsPeak
      <4>3. QED
        BY <1>6, <2>1, <4>1, <4>2
    <3>3. QED
      BY <3>1, <3>2
  <2>4. \E i \in 1..k : list[i] = p
    <3>1. CASE e > acc.peak
      BY <1>1, <1>2, <1>3, <3>1
    <3>2. CASE ~ (e > acc.peak) /\ k = 1
      <4>1. p = list[1] /\ 1 \in 1..k
        BY <1>1, <1>3, <1>7, <3>2 DEF IsPeak
      <4>2. QED
        BY <4>1
    <3>3. CASE ~ (e > acc.peak) /\ k # 1
      <4>1. PICK i \in 1..(k - 1) : list[i] = acc.peak
        BY <1>1, <1>7, <3>3 DEF IsPeak
      <4>2. i \in 1..k /\ list[i] = p
        BY <1>1, <1>3, <3>3, <4>1
      <4>3. QED
        BY <4>2
    <3>4. QED
      BY <3>1, <3>2, <3>3
  <2>5. QED
    BY <1>1, <2>2, <2>3, <2>4 DEF IsPeak
<1>9. PICK dd : dd = [drop |-> p - e, peak |-> p]
  OBVIOUS
<1>10. PICK w : w = IF Deeper(dd, acc.worst) THEN dd ELSE acc.worst
  OBVIOUS
<1>11. See(acc, list[k]) = [peak |-> p, worst |-> w]
  BY <1>2, <1>3, <1>8, <1>9, <1>10 DEF See
<1>12. dd.drop = p - e /\ dd.peak = p /\ p - e \in Int
  BY <1>6, <1>9
<1>13. Deeper(dd, acc.worst) <=> (p - e) * wp > wd * p
  BY <1>4, <1>5, <1>12 DEF Deeper
<1>14. (p - e) * wp \in Int /\ wd * p \in Int /\ wd * wp \in Int /\ (p - e) * p \in Int
  BY <1>6
<1>15. /\ w.drop \in Int /\ w.peak \in Int /\ w.peak > 0 /\ w.drop >= 0
       /\ wd * w.peak <= w.drop * wp
       /\ (p - e) * w.peak <= w.drop * p
  <2>1. p - e >= 0
    BY <1>3, <1>6
  <2>2. CASE Deeper(dd, acc.worst)
    <3>1. w.drop = p - e /\ w.peak = p
      BY <1>10, <1>12, <2>2
    <3>2. wd * p <= (p - e) * wp
      BY <1>13, <1>14, <2>2
    <3>3. QED
      BY <1>6, <1>8, <1>12, <1>14, <2>1, <3>1, <3>2
  <2>3. CASE ~ Deeper(dd, acc.worst)
    <3>1. w.drop = wd /\ w.peak = wp
      BY <1>4, <1>5, <1>10, <2>3
    <3>2. (p - e) * wp <= wd * p
      BY <1>13, <1>14, <2>3
    <3>3. QED
      BY <1>6, <1>7, <1>14, <3>1, <3>2
  <2>4. QED
    BY <2>2, <2>3
<1>16. NoneDeeper(list, k, w)
  <2> SUFFICES ASSUME NEW i \in 1..k, NEW j \in 1..k, Comparable(list, i, j)
               PROVE  (list[i] - list[j]) * w.peak <= w.drop * list[i]
    BY DEF NoneDeeper
  <2>1. list[i] \in Int /\ list[j] \in Int /\ list[i] > 0 /\ i <= j /\ list[i] - list[j] \in Int
    BY <1>1 DEF Comparable
  <2>2. CASE j # k
    <3>1. i \in 1..(k - 1) /\ j \in 1..(k - 1)
      BY <1>1, <2>1, <2>2
    <3>2. (list[i] - list[j]) * wp <= wd * list[i]
      BY <1>4, <1>5, <1>7, <3>1 DEF NoneDeeper
    <3>3. QED
      BY <1>6, <1>7, <1>15, <2>1, <3>2, DeeperTrans
  <2>3. CASE j = k
    <3>1. list[i] <= p /\ list[j] = e
      BY <1>2, <1>6, <1>8, <2>1, <2>3 DEF IsPeak
    <3>2. e >= 0 \/ list[i] = p
      <4>1. CASE \A m \in 1..k : list[m] <= list[i]
        <5>1. PICK m \in 1..k : list[m] = p
          BY <1>1, <1>8 DEF IsPeak
        <5>2. p <= list[i]
          BY <4>1, <5>1
        <5>3. QED
          BY <1>6, <2>1, <3>1, <5>2
      <4>2. CASE list[j] >= 0
        BY <3>1, <4>2
      <4>3. QED
        BY <2>3, <4>1, <4>2 DEF Comparable
    <3>3. (list[i] - e) * p <= (p - e) * list[i]
      BY <1>6, <2>1, <3>1, <3>2, DeeperPeak
    <3>4. (list[i] - e) * w.peak <= w.drop * list[i]
      <4>1. PICK c, d, u, v, q :
               c = list[i] /\ d = list[i] - e /\ u = p - e /\ v = w.drop /\ q = w.peak
        OBVIOUS
      <4>2. /\ c \in Int /\ d \in Int /\ u \in Int /\ v \in Int /\ q \in Int
            /\ c > 0 /\ q > 0 /\ p > 0
        <5>1. c \in Int /\ d \in Int /\ c > 0
          BY <1>6, <2>1, <4>1
        <5>2. v \in Int /\ q \in Int /\ q > 0
          BY <1>15, <4>1
        <5>3. u \in Int /\ p > 0
          BY <1>8, <1>12, <4>1
        <5>4. QED
          BY <5>1, <5>2, <5>3
      <4>3. d * p <= u * c /\ u * q <= v * p
        BY <1>15, <3>3, <4>1
      <4>4. d * q <= v * c
        BY <1>6, <4>2, <4>3, DeeperTrans
      <4>5. QED
        BY <4>1, <4>4
    <3>5. QED
      BY <3>1, <3>4
  <2>4. QED
    BY <2>2, <2>3
<1>17. IsDrop(list, k, w)
  <2> SUFFICES ASSUME w.drop > 0
               PROVE  \E i, j \in 1..k :
                         i < j /\ list[i] = w.peak /\ list[i] - list[j] = w.drop
    BY DEF IsDrop
  <2>1. CASE Deeper(dd, acc.worst)
    <3>1. w.drop = p - e /\ w.peak = p
      BY <1>10, <1>12, <2>1
    <3>2. PICK i \in 1..k : list[i] = p
      BY <1>1, <1>8 DEF IsPeak
    <3>3. i # k /\ k \in 1..k
      BY <1>1, <1>2, <1>6, <3>1, <3>2
    <3>4. i < k
      BY <1>1, <3>3
    <3>5. QED
      BY <1>2, <3>1, <3>2, <3>3, <3>4
  <2>2. CASE ~ Deeper(dd, acc.worst)
    <3>1. w = acc.worst
      BY <1>10, <2>2
    <3>2. PICK i \in 1..(k - 1), j \in 1..(k - 1) :
             i < j /\ list[i] = w.peak /\ list[i] - list[j] = w.drop
      BY <1>7, <3>1 DEF IsDrop
    <3>3. i \in 1..k /\ j \in 1..k
      BY <1>1
    <3>4. QED
      BY <3>2, <3>3
  <2>3. QED
    BY <2>1, <2>2
<1>18. QED
  BY <1>8, <1>11, <1>15, <1>16, <1>17 DEF LoopInv

\* What _max_drawdown returns is the deepest drop.
LEMMA DrawdownSound ==
    ASSUME NEW list \in Seq(Int), list # <<>>, list[1] > 0
    PROVE  /\ NoneDeeper(list, Len(list), Drawdown(list))
           /\ IsDrop(list, Len(list), Drawdown(list))
<1>1. Len(list) \in Nat /\ Len(list) >= 1 /\ DOMAIN list = 1..Len(list)
  BY LenProperties, EmptySeq
<1>2. list[1] \in Int
  BY <1>1, ElementOfSeq
<1>3. CASE Len(list) < 2
  <2>1. Drawdown(list) = NoDrop /\ Len(list) = 1
    BY <1>1, <1>3 DEF Drawdown
  <2>2. (list[1] - list[1]) * 1 <= 0 * list[1]
    BY <1>2
  <2>3. QED
    BY <2>1, <2>2 DEF NoneDeeper, IsDrop, NoDrop
<1>4. CASE ~ (Len(list) < 2)
  <2> DEFINE n == Len(list)
             start == [peak |-> list[1], worst |-> NoDrop]
  <2>1. start \in Seen
    BY <1>2 DEF Seen, Drawdowns, NoDrop
  <2>2. Drawdown(list) = FoldLeft(See, start, list).worst
    BY <1>4 DEF Drawdown
  <2>3. LoopInv(list, 0, start)
    BY <1>2 DEF LoopInv, IsPeak, NoneDeeper, IsDrop, NoDrop
  <2> HIDE DEF start
  <2>4. PICK a \in [0..n -> Seen] :
           /\ a[0] = start
           /\ \A k \in 1..n : a[k] = See(a[k - 1], list[k])
           /\ FoldLeft(See, start, list) = a[n]
    BY <2>1, DrawdownLoop
  <2> DEFINE P == {k \in Nat : k <= n => LoopInv(list, k, a[k])}
  <2>5. 0 \in P
    BY <2>3, <2>4
  <2>6. ASSUME NEW k \in Nat, k \in P PROVE k + 1 \in P
    <3> SUFFICES ASSUME k + 1 <= n PROVE LoopInv(list, k + 1, a[k + 1])
      OBVIOUS
    <3>1. k + 1 \in 1..n /\ (k + 1) - 1 = k /\ k \in 0..n /\ k <= n
      BY <1>1
    <3>2. LoopInv(list, (k + 1) - 1, a[k]) /\ a[k] \in Seen
      BY <2>6, <3>1
    <3>3. a[k + 1] = See(a[k], list[k + 1])
      BY <2>4, <3>1
    <3> HIDE DEF P
    <3>4. LoopInv(list, k + 1, See(a[k], list[k + 1]))
      BY <3>1, <3>2, SeeStep
    <3>5. QED
      BY <3>3, <3>4
  <2>7. \A k \in Nat : k \in P
    <3> HIDE DEF P
    <3>1. \A k \in Nat : k \in P => k + 1 \in P
      BY <2>6
    <3>2. QED
      BY <2>5, <3>1, NatSet
  <2>8. LoopInv(list, n, a[n])
    BY <1>1, <2>7
  <2>9. QED
    BY <2>2, <2>4, <2>8 DEF LoopInv
<1>5. QED
  BY <1>3, <1>4

-----------------------------------------------------------------------------
(* Positions, trades and days. *)

\* Where positions and trades lie among the bars.
PlaceInv ==
    /\ position # None =>
          position.bar \in 1..Len(bars) /\ (pc = "entry" => position.bar < Len(bars))
    /\ \A i \in DOMAIN trades : /\ trades[i].pos.bar <= trades[i].exit
                                /\ trades[i].exit <= Len(bars)
    /\ pc # "done" => \A i \in DOMAIN trades : /\ trades[i].pos.bar < trades[i].exit
                                               /\ trades[i].reason # "eod"

\* daily_trade_count counts the entries of a day.
EnteredOn(d) == {p \in Entered : bars[p.bar].day = d}
Counts(d) ==
    /\ IsFiniteSet(EnteredOn(d))
    /\ Cardinality(EnteredOn(d)) = count[d]
    /\ count[d] <= MaxPerDay
CountInv ==
    /\ \A p \in Entered : p.bar > Warmup
    /\ \A d \in 1..MaxDays : Counts(d)

IInv == TypeOK /\ PlaceInv /\ CountInv /\ ExitsOnTouch /\ OneAtATime

USE ShapesAssumption, NumbersAssumption, NoneAssumption

-----------------------------------------------------------------------------
(* Types. *)

LEMMA SignType == ASSUME NEW side PROVE Sign(side) \in Int
BY DEF Sign

LEMMA ProductType == ASSUME NEW a \in Int, NEW b \in Int PROVE a * b \in Int
OBVIOUS

LEMMA LastReplaced ==
    ASSUME NEW s \in Seq(Int), NEW e \in Int
    PROVE  [s EXCEPT ![Len(s)] = e] \in Seq(Int)
<1>1. CASE Len(s) \in 1..Len(s)
  BY <1>1, ExceptSeq
<1>2. CASE Len(s) \notin 1..Len(s)
  <2>1. DOMAIN s = 1..Len(s)
    OBVIOUS
  <2>2. [s EXCEPT ![Len(s)] = e] = s
    BY <1>2, <2>1
  <2>3. QED
    BY <2>2
<1>3. QED
  BY <1>1, <1>2

\* An entry is for at least one share, whatever is left of the account.
LEMMA SharesType ==
    ASSUME TypeOK, NEW close \in Nat \ {0}
    PROVE  Shares(close) \in Nat \ {0}
<1>1. equity * SizePct \in Int
  BY ProductType DEF TypeOK
<1>2. 100 * close \in Nat \ {0}
  OBVIOUS
<1>3. (equity * SizePct) \div (100 * close) \in Int
  BY <1>1, <1>2
<1>4. QED
  BY <1>3 DEF Shares

LEMMA OpenedType ==
    ASSUME TypeOK, bars # <<>>, NEW side \in {"long", "short"},
           NEW close \in Nat \ {0}, NEW atr \in Int
    PROVE  Opened(side, close, atr) \in Positions
<1>1. Sign(side) * StopAtr \in Int /\ Sign(side) * TargetAtr \in Int
  BY SignType, ProductType
<1>2. Sign(side) * StopAtr * atr \in Int /\ Sign(side) * TargetAtr * atr \in Int
  BY <1>1, ProductType
<1>3. Len(bars) \in Nat \ {0}
  BY DEF TypeOK
<1>4. Shares(close) \in Nat \ {0}
  BY SharesType
<1> DEFINE stop == close - Sign(side) * StopAtr * atr
           target == close + Sign(side) * TargetAtr * atr
<1>5. stop \in Int /\ target \in Int
  BY <1>2
<1>6. Opened(side, close, atr) = [bar |-> Len(bars), side |-> side, price |-> close,
         shares |-> Shares(close), stop |-> stop, target |-> target]
  BY DEF Opened
<1> HIDE DEF stop, target
<1>7. QED
  BY <1>3, <1>4, <1>5, <1>6 DEF Positions

LEMMA ClosedType ==
    ASSUME NEW p \in Positions, NEW bar \in Nat \ {0}, NEW price \in Int,
           NEW reason \in {"stop", "target", "eod"}
    PROVE  Closed(p, bar, price, reason) \in Trades
<1>1. price - p.price \in Int /\ p.shares \in Int
  BY DEF Positions
<1>2. Sign(p.side) * (price - p.price) \in Int
  BY <1>1, SignType, ProductType
<1>3. Pnl(p, price) \in Int
  BY <1>1, <1>2, ProductType DEF Pnl
<1>4. QED
  BY <1>3 DEF Closed, Trades

LEMMA ExitKinds ==
    ASSUME NEW p \in Positions, NEW bar, NEW close \in Int, ExitReason(p, bar) # None
    PROVE  /\ ExitReason(p, bar) \in {"stop", "target"}
           /\ ExitPrice(p, ExitReason(p, bar), close) \in Int
           /\ ExitReason(p, bar) = "stop" =>
                 StopHit(p, bar) /\ ExitPrice(p, ExitReason(p, bar), close) = p.stop
           /\ ExitReason(p, bar) = "target" =>
                 /\ TargetHit(p, bar) /\ ~StopHit(p, bar)
                 /\ ExitPrice(p, ExitReason(p, bar), close) = p.target
BY DEF ExitReason, ExitPrice, Positions

\* The fields of a shape are those of the bar made from it.
LEMMA NewBar ==
    ASSUME TypeOK, NEW shape \in Shapes, NEW day \in 1..MaxDays, NextBar(shape, day)
    PROVE  /\ shape \in [low : Int, close : Int, high : Int]
           /\ bars' \in Seq(Dated) /\ Len(bars') = Len(bars) + 1
           /\ \A k \in 1..Len(bars) : bars'[k] = bars[k]
           /\ \A p : /\ StopHit(p, bars'[Len(bars) + 1]) <=> StopHit(p, shape)
                     /\ TargetHit(p, bars'[Len(bars) + 1]) <=> TargetHit(p, shape)
<1> DEFINE bar == [low |-> shape.low, close |-> shape.close, high |-> shape.high, day |-> day]
<1>1. bars' = Append(bars, bar) /\ bars \in Seq(Dated)
  BY DEF NextBar, TypeOK
<1>2. shape \in [low : Int, close : Int, high : Int]
  OBVIOUS
<1>3. bar \in Dated
  BY <1>2 DEF Dated
<1>4. bar.low = shape.low /\ bar.high = shape.high
  OBVIOUS
<1> HIDE DEF bar
<1>5. /\ bars' \in Seq(Dated) /\ Len(bars') = Len(bars) + 1
      /\ \A k \in 1..Len(bars) : bars'[k] = bars[k]
      /\ bars'[Len(bars) + 1] = bar
  BY <1>1, <1>3
<1>6. QED
  BY <1>2, <1>4, <1>5 DEF StopHit, TargetHit

\* The two outcomes of a bar for the open position.
LEMMA BarCases ==
    ASSUME TypeOK, NEW shape \in Shapes, NEW day \in 1..MaxDays, NextBar(shape, day)
    PROVE  \/ /\ position # None /\ ExitReason(position, shape) # None
              /\ \E t \in Trades :
                    /\ t.pos = position /\ t.exit = Len(bars) + 1
                    /\ t.reason \in {"stop", "target"}
                    /\ t.reason = "stop" => StopHit(position, shape) /\ t.price = position.stop
                    /\ t.reason = "target" =>
                          /\ TargetHit(position, shape) /\ ~StopHit(position, shape)
                          /\ t.price = position.target
                    /\ trades' = Append(trades, t) /\ equity' = equity + t.pnl
              /\ position' = None
           \/ /\ position # None => ExitReason(position, shape) = None
              /\ UNCHANGED <<equity, trades, position>>
<1> DEFINE reason == ExitReason(position, shape)
           price == ExitPrice(position, reason, shape.close)
           trade == Closed(position, Len(bars) + 1, price, reason)
<1>1. CASE position # None /\ reason # None
  <2>1. position \in Positions /\ shape.close \in Int /\ Len(bars) + 1 \in Nat \ {0}
    BY <1>1 DEF TypeOK
  <2>2. /\ reason \in {"stop", "target"} /\ price \in Int
        /\ reason = "stop" => StopHit(position, shape) /\ price = position.stop
        /\ reason = "target" => /\ TargetHit(position, shape) /\ ~StopHit(position, shape)
                                /\ price = position.target
    BY <1>1, <2>1, ExitKinds
  <2>3. equity' = equity + trade.pnl /\ trades' = Append(trades, trade) /\ position' = None
    BY <1>1 DEF NextBar
  <2> HIDE DEF reason, price
  <2>4. trade \in Trades
    BY <2>1, <2>2, ClosedType
  <2>5. /\ trade.pos = position /\ trade.exit = Len(bars) + 1
        /\ trade.reason = reason /\ trade.price = price
    BY DEF Closed
  <2>6. QED
    BY <1>1, <2>2, <2>3, <2>4, <2>5 DEF reason
<1>2. CASE ~(position # None /\ reason # None)
  BY <1>2 DEF NextBar
<1>3. QED
  BY <1>1, <1>2

\* And of the end of the data.
LEMMA FinishCases ==
    ASSUME TypeOK, PlaceInv, Finish
    PROVE  \/ position = None /\ UNCHANGED <<equity, trades, curve>>
           \/ /\ position # None /\ Len(bars) \in Nat \ {0}
              /\ Last(bars) \in Dated /\ Last(bars) = bars[Len(bars)]
              /\ \E t \in Trades :
                    /\ t.pos = position /\ t.exit = Len(bars)
                    /\ t.reason = "eod" /\ t.price = Last(bars).close
                    /\ trades' = Append(trades, t) /\ equity' = equity + t.pnl
                    /\ curve' = [curve EXCEPT ![Len(curve)] = equity + t.pnl]
<1>1. CASE position = None
  BY <1>1 DEF Finish
<1>2. CASE position # None
  <2> DEFINE trade == Closed(position, Len(bars), Last(bars).close, "eod")
  <2>1. position \in Positions /\ Len(bars) \in Nat \ {0}
    BY <1>2 DEF TypeOK, PlaceInv
  <2>2. Last(bars) \in Dated /\ Last(bars) = bars[Len(bars)]
    BY <2>1 DEF TypeOK, Last
  <2>3. Last(bars).close \in Int
    BY <2>2 DEF Dated
  <2>4. trade \in Trades
    BY <2>1, <2>3, ClosedType
  <2>5. /\ trade.pos = position /\ trade.exit = Len(bars)
        /\ trade.reason = "eod" /\ trade.price = Last(bars).close
    BY DEF Closed
  <2>6. /\ trades' = Append(trades, trade) /\ equity' = equity + trade.pnl
        /\ curve' = [curve EXCEPT ![Len(curve)] = equity + trade.pnl]
    BY <1>2 DEF Finish
  <2> HIDE DEF trade
  <2>7. QED
    BY <1>2, <2>1, <2>2, <2>4, <2>5, <2>6
<1>3. QED
  BY <1>1, <1>2

LEMMA EnterFacts ==
    ASSUME TypeOK, NEW label \in {"long", "short", "no_trade"}, NEW prob \in Probs,
           NEW row \in Rows, NEW atr \in Atrs, Enter(label, prob, row, atr)
    PROVE  /\ position = None /\ pc = "entry" /\ pc' = "bar"
           /\ Len(bars) \in Nat \ {0} /\ Len(bars) > Warmup
           /\ bars[Len(bars)].day \in 1..MaxDays
           /\ count[bars[Len(bars)].day] < MaxPerDay
           /\ count' = [count EXCEPT ![bars[Len(bars)].day] = @ + 1]
           /\ position' \in Positions /\ position'.bar = Len(bars)
           /\ curve' = Append(curve, equity)
           /\ UNCHANGED <<bars, equity, trades, metrics>>
<1>1. Len(bars) \in Nat \ {0} /\ Len(bars) > Warmup
  BY DEF Enter, TypeOK
<1>2. Last(bars) = bars[Len(bars)] /\ Last(bars) \in Dated
  BY <1>1 DEF TypeOK, Last
<1>3. Last(bars).close \in Nat \ {0} /\ Last(bars).day \in 1..MaxDays
  BY <1>2 DEF Enter, Dated
<1>4. label \in {"long", "short"} /\ atr \in Int
  BY DEF Enter
<1>5. position' = Opened(label, Last(bars).close, atr)
  BY DEF Enter
<1>6. position' \in Positions
  BY <1>1, <1>3, <1>4, <1>5, OpenedType
<1>7. position'.bar = Len(bars)
  BY <1>5 DEF Opened
<1>8. QED
  BY <1>1, <1>2, <1>3, <1>6, <1>7 DEF Enter

-----------------------------------------------------------------------------
(* Types and places. *)

LEMMA Start == Init => IInv
<1> SUFFICES ASSUME Init PROVE IInv
  OBVIOUS
<1>1. TypeOK
  BY DEF Init, TypeOK
<1>2. PlaceInv /\ ExitsOnTouch /\ OneAtATime
  BY DEF Init, PlaceInv, ExitsOnTouch, OneAtATime
<1>3. Entered = {}
  BY DEF Init, Entered
<1>4. CountInv
  <2>1. \A d \in 1..MaxDays : EnteredOn(d) = {} /\ count[d] = 0
    BY <1>3 DEF EnteredOn, Init
  <2>2. QED
    BY <1>3, <2>1, FS_EmptySet DEF CountInv, Counts
<1>5. QED
  BY <1>1, <1>2, <1>4 DEF IInv

LEMMA TypeStep == TypeOK /\ PlaceInv /\ [Next]_vars => TypeOK'
<1> SUFFICES ASSUME TypeOK, PlaceInv, [Next]_vars PROVE TypeOK'
  OBVIOUS
<1>1. CASE Fails
  BY <1>1 DEF Fails, TypeOK
<1>2. CASE Skip
  BY <1>2 DEF Skip, TypeOK
<1>3. CASE Finish
  <2>1. pc' = "done" /\ UNCHANGED <<bars, position, count>>
    BY <1>3 DEF Finish
  <2>2. equity' \in Int /\ trades' \in Seq(Trades) /\ curve' \in Seq(Int)
    <3>1. CASE position = None /\ UNCHANGED <<equity, trades, curve>>
      BY <3>1 DEF TypeOK
    <3>2. CASE \E t \in Trades :
                  /\ trades' = Append(trades, t) /\ equity' = equity + t.pnl
                  /\ curve' = [curve EXCEPT ![Len(curve)] = equity + t.pnl]
      <4>1. PICK t \in Trades :
               /\ trades' = Append(trades, t) /\ equity' = equity + t.pnl
               /\ curve' = [curve EXCEPT ![Len(curve)] = equity + t.pnl]
        BY <3>2
      <4>2. t.pnl \in Int
        BY DEF Trades
      <4>3. equity' \in Int /\ trades' \in Seq(Trades)
        BY <4>1, <4>2 DEF TypeOK
      <4>4. curve' \in Seq(Int)
        BY <4>1, <4>2, LastReplaced DEF TypeOK
      <4>5. QED
        BY <4>3, <4>4
    <3>3. QED
      BY <1>3, <3>1, <3>2, FinishCases
  <2>3. QED
    BY <2>1, <2>2 DEF TypeOK
<1>4. ASSUME NEW shape \in Shapes, NEW day \in 1..MaxDays, NextBar(shape, day)
      PROVE  TypeOK'
  <2>1. bars' \in Seq(Dated) /\ pc' = "entry" /\ UNCHANGED <<curve, count>>
    BY <1>4, NewBar DEF NextBar
  <2>2. equity' \in Int /\ trades' \in Seq(Trades) /\ position' \in Positions \cup {None}
    <3>1. CASE \E t \in Trades : /\ trades' = Append(trades, t)
                                 /\ equity' = equity + t.pnl /\ position' = None
      <4>1. PICK t \in Trades : /\ trades' = Append(trades, t)
                                /\ equity' = equity + t.pnl /\ position' = None
        BY <3>1
      <4>2. t.pnl \in Int
        BY DEF Trades
      <4>3. QED
        BY <4>1, <4>2 DEF TypeOK
    <3>2. CASE UNCHANGED <<equity, trades, position>>
      BY <3>2 DEF TypeOK
    <3>3. QED
      BY <1>4, <3>1, <3>2, BarCases
  <2>3. QED
    BY <2>1, <2>2 DEF TypeOK
<1>5. ASSUME NEW label \in {"long", "short", "no_trade"}, NEW prob \in Probs,
             NEW row \in Rows, NEW atr \in Atrs, Enter(label, prob, row, atr)
      PROVE  TypeOK'
  <2>1. /\ pc' = "bar" /\ position' \in Positions /\ curve' = Append(curve, equity)
        /\ count' = [count EXCEPT ![bars[Len(bars)].day] = @ + 1]
        /\ UNCHANGED <<bars, equity, trades>>
    BY <1>5, EnterFacts
  <2>2. curve' \in Seq(Int)
    BY <2>1 DEF TypeOK
  <2> DEFINE d == bars[Len(bars)].day
  <2>3. count' \in [1..MaxDays -> Nat]
    <3>1. d \in 1..MaxDays /\ count' = [count EXCEPT ![d] = count[d] + 1]
      BY <1>5, EnterFacts
    <3> HIDE DEF d
    <3>2. count[d] + 1 \in Nat
      BY <3>1 DEF TypeOK
    <3>3. QED
      BY <3>1, <3>2 DEF TypeOK
  <2>4. QED
    BY <2>1, <2>2, <2>3 DEF TypeOK
<1>6. CASE UNCHANGED vars
  BY <1>6 DEF vars, TypeOK
<1>7. QED
  BY <1>1, <1>2, <1>3, <1>4, <1>5, <1>6 DEF Next

LEMMA PlaceStep == TypeOK /\ PlaceInv /\ [Next]_vars => PlaceInv'
<1> SUFFICES ASSUME TypeOK, PlaceInv, [Next]_vars PROVE PlaceInv'
  OBVIOUS
<1>0. bars \in Seq(Dated) /\ trades \in Seq(Trades) /\ Len(bars) \in Nat
  BY DEF TypeOK
<1>a. \A i \in DOMAIN trades : trades[i] \in Trades
  BY <1>0
<1>b. \A i \in DOMAIN trades : trades[i].exit \in Nat \ {0}
  BY <1>a DEF Trades
<1>c. position # None => position.bar \in Nat \ {0}
  BY DEF TypeOK, Positions
<1>1. CASE Fails
  BY <1>0, <1>1 DEF Fails, PlaceInv
<1>2. CASE Skip
  <2>1. pc = "entry" /\ pc' = "bar" /\ UNCHANGED <<bars, trades, position>>
    BY <1>2 DEF Skip
  <2>2. QED
    BY <2>1 DEF PlaceInv
<1>3. CASE Finish
  <2>1. pc' = "done" /\ UNCHANGED <<bars, position>>
    BY <1>3 DEF Finish
  <2>2. CASE UNCHANGED trades
    BY <2>1, <2>2 DEF PlaceInv
  <2>3. CASE position # None /\ \E t \in Trades : /\ t.pos = position /\ t.exit = Len(bars)
                                                  /\ trades' = Append(trades, t)
    <3>1. PICK t \in Trades : t.pos = position /\ t.exit = Len(bars) /\ trades' = Append(trades, t)
      BY <2>3
    <3>2. t.pos.bar <= t.exit /\ t.exit <= Len(bars)
      BY <1>0, <2>3, <3>1 DEF PlaceInv
    <3>3. \A i \in DOMAIN trades' : trades'[i] = t \/ (i \in DOMAIN trades /\ trades'[i] = trades[i])
      BY <1>0, <3>1
    <3>4. QED
      BY <2>1, <3>2, <3>3 DEF PlaceInv
  <2>4. QED
    BY <1>3, <2>2, <2>3, FinishCases
<1>4. ASSUME NEW shape \in Shapes, NEW day \in 1..MaxDays, NextBar(shape, day)
      PROVE  PlaceInv'
  <2>1. Len(bars') = Len(bars) + 1 /\ pc = "bar" /\ pc' = "entry"
    BY <1>4, NewBar DEF NextBar
  <2>2. CASE position # None /\ \E t \in Trades : /\ t.pos = position /\ t.exit = Len(bars) + 1
                                                  /\ t.reason \in {"stop", "target"}
                                                  /\ trades' = Append(trades, t) /\ position' = None
    <3>1. PICK t \in Trades : /\ t.pos = position /\ t.exit = Len(bars) + 1
                              /\ t.reason \in {"stop", "target"}
                              /\ trades' = Append(trades, t) /\ position' = None
      BY <2>2
    <3>2. t.pos.bar < t.exit /\ t.exit <= Len(bars') /\ t.reason # "eod"
      BY <1>0, <2>1, <2>2, <3>1 DEF PlaceInv
    <3>3. \A i \in DOMAIN trades' : trades'[i] = t \/ (i \in DOMAIN trades /\ trades'[i] = trades[i])
      BY <1>0, <3>1
    <3>4. \A i \in DOMAIN trades : trades[i].exit <= Len(bars')
      BY <1>0, <1>b, <2>1 DEF PlaceInv
    <3>5. t.pos.bar <= t.exit
      BY <3>1, <3>2, <1>0, <1>c, <2>2
    <3>6. QED
      BY <2>1, <3>1, <3>2, <3>3, <3>4, <3>5 DEF PlaceInv
  <2>3. CASE UNCHANGED <<equity, trades, position>>
    BY <1>0, <1>b, <1>c, <2>1, <2>3 DEF PlaceInv
  <2>4. QED
    BY <1>4, <2>2, <2>3, BarCases
<1>5. ASSUME NEW label \in {"long", "short", "no_trade"}, NEW prob \in Probs,
             NEW row \in Rows, NEW atr \in Atrs, Enter(label, prob, row, atr)
      PROVE  PlaceInv'
  <2>1. /\ pc = "entry" /\ pc' = "bar" /\ Len(bars) \in Nat \ {0}
        /\ position'.bar = Len(bars) /\ UNCHANGED <<bars, trades>>
    BY <1>5, EnterFacts
  <2>2. QED
    BY <2>1 DEF PlaceInv
<1>6. CASE UNCHANGED vars
  BY <1>6 DEF vars, PlaceInv
<1>7. QED
  BY <1>1, <1>2, <1>3, <1>4, <1>5, <1>6 DEF Next

\* Every position, however small the account has become, is of whole shares, and
\* every trade has a price and a P&L (engine.py:250-282).
THEOREM TypeCorrect == Spec => []TypeOK
<1>1. Init => TypeOK /\ PlaceInv
  BY Start DEF IInv
<1>2. TypeOK /\ PlaceInv /\ [Next]_vars => TypeOK' /\ PlaceInv'
  BY TypeStep, PlaceStep
<1>3. QED
  BY <1>1, <1>2, PTL DEF Spec

-----------------------------------------------------------------------------
(* Entries of a day. *)

\* The positions stay the same, and so do the days of their bars.
LEMMA SameCount ==
    ASSUME CountInv, count' = count, Entered' = Entered,
           \A p \in Entered : bars'[p.bar] = bars[p.bar]
    PROVE  CountInv'
<1>1. \A d \in 1..MaxDays : EnteredOn(d)' = EnteredOn(d)
  BY DEF EnteredOn
<1>2. QED
  BY <1>1 DEF CountInv, Counts

LEMMA EnteredPlace ==
    ASSUME TypeOK, PlaceInv, NEW p \in Entered
    PROVE  p \in Positions /\ p.bar \in 1..Len(bars)
<1>1. CASE p = position /\ position # None
  BY <1>1 DEF TypeOK, PlaceInv
<1>2. CASE \E i \in DOMAIN trades : p = trades[i].pos
  <2>1. PICK i \in DOMAIN trades : p = trades[i].pos
    BY <1>2
  <2>2. trades[i] \in Trades
    BY <2>1 DEF TypeOK
  <2>3. p \in Positions /\ trades[i].exit \in Nat
    BY <2>1, <2>2 DEF Trades
  <2>4. p.bar \in Nat \ {0}
    BY <2>3 DEF Positions
  <2>5. p.bar <= trades[i].exit /\ trades[i].exit <= Len(bars) /\ Len(bars) \in Nat
    BY <2>1 DEF PlaceInv, TypeOK
  <2>6. QED
    BY <2>3, <2>4, <2>5
<1>3. QED
  BY <1>1, <1>2 DEF Entered

LEMMA CountStep == TypeOK /\ PlaceInv /\ CountInv /\ [Next]_vars => CountInv'
<1> SUFFICES ASSUME TypeOK, PlaceInv, CountInv, [Next]_vars PROVE CountInv'
  OBVIOUS
<1>0. trades \in Seq(Trades)
  BY DEF TypeOK
<1>1. CASE Fails
  BY <1>1, SameCount DEF Fails, Entered
<1>2. CASE Skip
  BY <1>2, SameCount DEF Skip, Entered
<1>3. CASE Finish
  <2>1. UNCHANGED <<bars, position, count>>
    BY <1>3 DEF Finish
  <2>2. CASE UNCHANGED trades
    BY <2>1, <2>2, SameCount DEF Entered
  <2>3. CASE position # None /\ \E t \in Trades : t.pos = position /\ trades' = Append(trades, t)
    <3>1. PICK t \in Trades : t.pos = position /\ trades' = Append(trades, t)
      BY <2>3
    <3>2. {trades'[i].pos : i \in DOMAIN trades'} = {trades[i].pos : i \in DOMAIN trades} \cup {position}
      BY <1>0, <3>1
    <3>3. Entered' = Entered
      BY <2>1, <2>3, <3>2 DEF Entered
    <3>4. QED
      BY <2>1, <3>3, SameCount
  <2>4. QED
    BY <1>3, <2>2, <2>3, FinishCases
<1>4. ASSUME NEW shape \in Shapes, NEW day \in 1..MaxDays, NextBar(shape, day)
      PROVE  CountInv'
  <2>1. count' = count /\ \A k \in 1..Len(bars) : bars'[k] = bars[k]
    BY <1>4, NewBar DEF NextBar
  <2>2. \A p \in Entered : bars'[p.bar] = bars[p.bar]
    BY <2>1, EnteredPlace
  <2>3. Entered' = Entered
    <3>1. CASE UNCHANGED <<equity, trades, position>>
      BY <3>1 DEF Entered
    <3>2. CASE position # None /\ \E t \in Trades : /\ t.pos = position
                                                    /\ trades' = Append(trades, t) /\ position' = None
      <4>1. PICK t \in Trades : t.pos = position /\ trades' = Append(trades, t) /\ position' = None
        BY <3>2
      <4>2. {trades'[i].pos : i \in DOMAIN trades'} = {trades[i].pos : i \in DOMAIN trades} \cup {position}
        BY <1>0, <4>1
      <4>3. QED
        BY <3>2, <4>1, <4>2 DEF Entered
    <3>3. QED
      BY <1>4, <3>1, <3>2, BarCases
  <2>4. QED
    BY <2>1, <2>2, <2>3, SameCount
<1>5. ASSUME NEW label \in {"long", "short", "no_trade"}, NEW prob \in Probs,
             NEW row \in Rows, NEW atr \in Atrs, Enter(label, prob, row, atr)
      PROVE  CountInv'
  <2> DEFINE today == bars[Len(bars)].day
  <2>1. /\ position = None /\ pc = "entry" /\ Len(bars) \in Nat \ {0} /\ Len(bars) > Warmup
        /\ today \in 1..MaxDays /\ count[today] < MaxPerDay
        /\ count' = [count EXCEPT ![today] = @ + 1]
        /\ position' \in Positions /\ position'.bar = Len(bars)
        /\ UNCHANGED <<bars, trades>>
    BY <1>5, EnterFacts
  <2>2. Entered' = Entered \cup {position'}
    BY <2>1 DEF Entered
  <2>3. \A p \in Entered : p.bar # Len(bars)
    <3> SUFFICES ASSUME NEW i \in DOMAIN trades PROVE trades[i].pos.bar # Len(bars)
      BY <2>1 DEF Entered
    <3>1. trades[i] \in Trades
      BY <1>0
    <3>2. trades[i].pos.bar \in Nat /\ trades[i].exit \in Nat
      BY <3>1 DEF Trades, Positions
    <3>3. trades[i].pos.bar < trades[i].exit /\ trades[i].exit <= Len(bars)
      BY <2>1 DEF PlaceInv
    <3>4. QED
      BY <2>1, <3>2, <3>3
  <2>4. position' \notin Entered
    BY <2>1, <2>3
  <2>5. \A p \in Entered' : p.bar > Warmup
    BY <2>1, <2>2 DEF CountInv
  <2>6. ASSUME NEW d \in 1..MaxDays PROVE Counts(d)'
    <3>0. Counts(d) /\ count[d] \in Nat
      BY DEF CountInv, TypeOK
    <3>1. CASE d = today
      <4>1. EnteredOn(d)' = EnteredOn(d) \cup {position'}
        BY <2>1, <2>2, <3>1 DEF EnteredOn
      <4>2. position' \notin EnteredOn(d)
        BY <2>4 DEF EnteredOn
      <4>3. /\ IsFiniteSet(EnteredOn(d)')
            /\ Cardinality(EnteredOn(d)') = Cardinality(EnteredOn(d)) + 1
        BY <3>0, <4>1, <4>2, FS_AddElement DEF Counts
      <4>4. count'[d] = count[d] + 1
        BY <2>1, <3>1 DEF TypeOK
      <4>5. count'[d] <= MaxPerDay
        BY <2>1, <3>0, <3>1, <4>4
      <4>6. QED
        BY <3>0, <4>3, <4>4, <4>5 DEF Counts
    <3>2. CASE d # today
      <4>1. EnteredOn(d)' = EnteredOn(d)
        BY <2>1, <2>2, <3>2 DEF EnteredOn
      <4>2. count'[d] = count[d]
        BY <2>1, <3>2 DEF TypeOK
      <4>3. QED
        BY <3>0, <4>1, <4>2 DEF Counts
    <3>3. QED
      BY <3>1, <3>2
  <2>7. QED
    BY <2>5, <2>6 DEF CountInv
<1>6. CASE UNCHANGED vars
  BY <1>6, SameCount DEF vars, Entered
<1>7. QED
  BY <1>1, <1>2, <1>3, <1>4, <1>5, <1>6 DEF Next

-----------------------------------------------------------------------------
(* Exits. *)

LEMMA ExitPlace ==
    ASSUME TypeOK, PlaceInv, NEW i \in DOMAIN trades
    PROVE  /\ trades[i] \in Trades /\ trades[i].exit \in 1..Len(bars)
           /\ pc # "done" => trades[i].reason # "eod"
<1>1. trades[i] \in Trades /\ Len(bars) \in Nat
  BY DEF TypeOK
<1>2. trades[i].exit \in Nat \ {0}
  BY <1>1 DEF Trades
<1>3. QED
  BY <1>1, <1>2 DEF PlaceInv

\* It is enough to look at the trades of the next state one by one.
LEMMA EachTrade ==
    ASSUME TypeOK',
           \A t \in Trades : (\E i \in DOMAIN trades' : t = trades'[i]) => RightExit(t)',
           (position # None => Untouched(position, Len(bars) + 1))'
    PROVE  ExitsOnTouch'
<1>1. ASSUME NEW i \in DOMAIN trades'
      PROVE  RightExit(trades[i])'
  <2>1. trades'[i] \in Trades
    BY <1>1 DEF TypeOK
  <2>2. QED
    BY <1>1, <2>1 DEF RightExit, Untouched
<1>2. QED
  BY <1>1 DEF ExitsOnTouch

LEMMA TouchNextBar ==
    ASSUME IInv, TypeOK', NEW shape \in Shapes, NEW day \in 1..MaxDays, NextBar(shape, day)
    PROVE  ExitsOnTouch' /\ OneAtATime'
<1> DEFINE n == Len(bars)
<1>0. /\ TypeOK /\ PlaceInv /\ ExitsOnTouch /\ OneAtATime
      /\ n \in Nat /\ trades \in Seq(Trades) /\ bars \in Seq(Dated)
  BY DEF IInv, TypeOK
<1>1. /\ pc = "bar" /\ pc' = "entry" /\ bars' \in Seq(Dated) /\ Len(bars') = n + 1
      /\ \A k \in 1..n : bars'[k] = bars[k]
      /\ \A p : /\ StopHit(p, bars'[n + 1]) <=> StopHit(p, shape)
                /\ TargetHit(p, bars'[n + 1]) <=> TargetHit(p, shape)
  BY <1>0, NewBar DEF NextBar
<1>2. DOMAIN bars = 1..n /\ DOMAIN bars' = 1..n + 1
  BY <1>0, <1>1
<1> HIDE DEF n
\* What was untouched before the new bar still is.
<1>3. ASSUME NEW p, NEW until \in 1..n + 1, Untouched(p, until)
      PROVE  Untouched(p, until)'
  <2>1. \A k \in 1..n + 1 : k < until => k \in 1..n
    BY <1>0
  <2>2. QED
    BY <1>1, <1>2, <1>3, <2>1 DEF Untouched
<1>4. ASSUME NEW u \in Trades, NEW i \in DOMAIN trades, u = trades[i]
      PROVE  RightExit(u)'
  <2>1. u.exit \in 1..n /\ u.reason # "eod" /\ RightExit(u)
    BY <1>0, <1>1, <1>4, ExitPlace DEF ExitsOnTouch, n
  <2>2. u.exit \in 1..n + 1
    BY <1>0, <2>1
  <2>3. QED
    BY <1>1, <1>3, <2>1, <2>2 DEF RightExit
<1>5. CASE \E t \in Trades :
              /\ position # None
              /\ t.pos = position /\ t.exit = n + 1 /\ t.reason \in {"stop", "target"}
              /\ t.reason = "stop" => StopHit(position, shape) /\ t.price = position.stop
              /\ t.reason = "target" => /\ TargetHit(position, shape) /\ ~StopHit(position, shape)
                                        /\ t.price = position.target
              /\ trades' = Append(trades, t) /\ position' = None
  <2>1. PICK t \in Trades :
              /\ position # None
              /\ t.pos = position /\ t.exit = n + 1 /\ t.reason \in {"stop", "target"}
              /\ t.reason = "stop" => StopHit(position, shape) /\ t.price = position.stop
              /\ t.reason = "target" => /\ TargetHit(position, shape) /\ ~StopHit(position, shape)
                                        /\ t.price = position.target
              /\ trades' = Append(trades, t) /\ position' = None
    BY <1>5
  <2>2. position.bar \in 1..n
    BY <1>0, <2>1 DEF PlaceInv, n
  <2>3. Untouched(t.pos, t.exit)'
    <3>1. Untouched(position, n + 1) /\ n + 1 \in 1..n + 1
      BY <1>0, <2>1 DEF ExitsOnTouch, n
    <3>2. QED
      BY <1>3, <2>1, <3>1
  <2>4. t.exit > t.pos.bar
    BY <1>0, <2>1, <2>2
  <2>5. RightExit(t)'
    BY <1>1, <2>1, <2>3, <2>4 DEF RightExit
  <2>6. /\ Len(trades) \in Nat /\ DOMAIN trades = 1..Len(trades)
        /\ DOMAIN trades' = 1..Len(trades) + 1 /\ trades'[Len(trades) + 1] = t
        /\ \A i \in DOMAIN trades : trades'[i] = trades[i]
    BY <1>0, <2>1
  <2>7. \A i \in DOMAIN trades' : i = Len(trades) + 1 \/ i \in DOMAIN trades
    BY <2>6
  <2>8. \A u \in Trades : (\E i \in DOMAIN trades' : u = trades'[i]) => RightExit(u)'
    BY <1>4, <2>5, <2>6, <2>7
  <2>9. ExitsOnTouch'
    BY <2>1, <2>8, EachTrade
  <2>10. ASSUME NEW i \in DOMAIN trades', NEW j \in DOMAIN trades', i < j
         PROVE  trades'[i].exit <= trades'[j].pos.bar
    <3>1. i \in DOMAIN trades
      BY <2>6, <2>7, <2>10
    <3>2. CASE j = Len(trades) + 1
      <4>1. trades[i].exit <= position.bar
        BY <1>0, <1>1, <2>1, <3>1 DEF OneAtATime
      <4>2. QED
        BY <2>1, <2>6, <3>1, <3>2, <4>1
    <3>3. CASE j \in DOMAIN trades
      BY <1>0, <2>6, <2>10, <3>1, <3>3 DEF OneAtATime
    <3>4. QED
      BY <2>7, <3>2, <3>3
  <2>11. QED
    BY <2>1, <2>9, <2>10 DEF OneAtATime
<1>6. CASE /\ position # None => ExitReason(position, shape) = None
           /\ UNCHANGED <<equity, trades, position>>
  <2>1. ASSUME position' # None PROVE Untouched(position, Len(bars) + 1)'
    <3>1. ~StopHit(position, shape) /\ ~TargetHit(position, shape)
      BY <1>6, <2>1 DEF ExitReason
    <3>2. Untouched(position, n + 1)
      BY <1>0, <1>6, <2>1 DEF ExitsOnTouch, n
    <3>3. \A k \in 1..n + 1 : k = n + 1 \/ (k \in 1..n /\ k < n + 1)
      BY <1>0
    <3>4. QED
      BY <1>1, <1>2, <1>6, <3>1, <3>2, <3>3 DEF Untouched
  <2>3. ExitsOnTouch'
    BY <1>4, <1>6, <2>1, EachTrade
  <2>4. OneAtATime'
    BY <1>0, <1>1, <1>6 DEF OneAtATime
  <2>5. QED
    BY <2>3, <2>4
<1>7. QED
  BY <1>0, <1>5, <1>6, BarCases DEF n

LEMMA TouchFinish ==
    ASSUME IInv, TypeOK', Finish
    PROVE  ExitsOnTouch' /\ OneAtATime'
<1>0. /\ TypeOK /\ PlaceInv /\ ExitsOnTouch /\ OneAtATime
      /\ trades \in Seq(Trades) /\ Len(bars) \in Nat
  BY DEF IInv, TypeOK
<1>1. pc = "bar" /\ pc' = "done" /\ UNCHANGED <<bars, position, count>>
  BY DEF Finish
<1>2. ASSUME NEW u \in Trades, NEW i \in DOMAIN trades, u = trades[i] PROVE RightExit(u)'
  <2>1. RightExit(u) /\ u.reason # "eod"
    BY <1>0, <1>1, <1>2, ExitPlace DEF ExitsOnTouch
  <2>2. QED
    BY <1>1, <2>1 DEF RightExit, Untouched
<1>3. CASE UNCHANGED trades
  BY <1>0, <1>1, <1>2, <1>3 DEF ExitsOnTouch, OneAtATime, Untouched
<1>4. CASE \E t \in Trades :
              /\ position # None
              /\ t.pos = position /\ t.exit = Len(bars) /\ t.reason = "eod"
              /\ t.price = Last(bars).close /\ trades' = Append(trades, t)
  <2>1. PICK t \in Trades :
              /\ position # None
              /\ t.pos = position /\ t.exit = Len(bars) /\ t.reason = "eod"
              /\ t.price = Last(bars).close /\ trades' = Append(trades, t)
    BY <1>4
  <2>2. Untouched(position, Len(bars) + 1)
    BY <1>0, <2>1 DEF ExitsOnTouch
  <2>3. Untouched(position, Len(bars))
    BY <1>0, <2>2 DEF Untouched, TypeOK
  <2>4. RightExit(t)'
    BY <1>1, <2>1, <2>2, <2>3 DEF RightExit, Untouched
  <2>5. /\ Len(trades) \in Nat /\ DOMAIN trades = 1..Len(trades)
        /\ DOMAIN trades' = 1..Len(trades) + 1 /\ trades'[Len(trades) + 1] = t
        /\ \A i \in DOMAIN trades : trades'[i] = trades[i]
    BY <1>0, <2>1
  <2>6. \A i \in DOMAIN trades' : i = Len(trades) + 1 \/ i \in DOMAIN trades
    BY <2>5
  <2>7. \A u \in Trades : (\E i \in DOMAIN trades' : u = trades'[i]) => RightExit(u)'
    BY <1>2, <2>4, <2>5, <2>6
  <2>8a. Untouched(position, Len(bars) + 1)'
    BY <1>1, <2>2 DEF Untouched
  <2>8. ExitsOnTouch'
    BY <2>7, <2>8a, EachTrade
  <2>9. ASSUME NEW i \in DOMAIN trades', NEW j \in DOMAIN trades', i < j
        PROVE  trades'[i].exit <= trades'[j].pos.bar
    <3>1. i \in DOMAIN trades
      BY <2>5, <2>6, <2>9
    <3>2. CASE j = Len(trades) + 1
      <4>1. trades[i].exit <= position.bar
        BY <1>0, <1>1, <2>1, <3>1 DEF OneAtATime
      <4>2. QED
        BY <2>1, <2>5, <3>1, <3>2, <4>1
    <3>3. CASE j \in DOMAIN trades
      BY <1>0, <2>5, <2>9, <3>1, <3>3 DEF OneAtATime
    <3>4. QED
      BY <2>6, <3>2, <3>3
  <2>10. QED
    BY <1>1, <2>8, <2>9 DEF OneAtATime
<1>5. QED
  BY <1>0, <1>3, <1>4, FinishCases

LEMMA TouchStep == IInv /\ [Next]_vars => ExitsOnTouch' /\ OneAtATime'
<1> SUFFICES ASSUME IInv, [Next]_vars PROVE ExitsOnTouch' /\ OneAtATime'
  OBVIOUS
<1>0. TypeOK /\ PlaceInv /\ ExitsOnTouch /\ OneAtATime /\ TypeOK'
  BY TypeStep DEF IInv
\* Steps that leave bars and trades alone.
<1>a. ASSUME UNCHANGED <<bars, trades>>, pc # "done" \/ pc' = "done",
             position' # None => Untouched(position', Len(bars) + 1)
      PROVE  ExitsOnTouch'
  <2>1. ASSUME NEW u \in Trades, NEW i \in DOMAIN trades, u = trades[i] PROVE RightExit(u)'
    <3>1. RightExit(u) /\ (pc # "done" => u.reason # "eod")
      BY <1>0, <2>1, ExitPlace DEF ExitsOnTouch
    <3>2. QED
      BY <1>a, <3>1 DEF RightExit, Untouched
  <2>2. (position # None => Untouched(position, Len(bars) + 1))'
    BY <1>a DEF Untouched
  <2>3. QED
    BY <1>0, <1>a, <2>1, <2>2, EachTrade
<1>1. CASE Fails
  <2>1. /\ UNCHANGED <<bars, trades, position>> /\ pc = "bar" /\ pc' = "done"
    BY <1>1 DEF Fails
  <2>2. QED
    BY <1>0, <1>a, <2>1 DEF ExitsOnTouch, OneAtATime
<1>2. CASE Skip
  <2>1. UNCHANGED <<bars, trades, position>> /\ pc = "entry" /\ pc' = "bar"
    BY <1>2 DEF Skip
  <2>2. QED
    BY <1>0, <1>a, <2>1 DEF ExitsOnTouch, OneAtATime
<1>3. CASE Finish
  BY <1>0, <1>3, TouchFinish
<1>4. ASSUME NEW shape \in Shapes, NEW day \in 1..MaxDays, NextBar(shape, day)
      PROVE  ExitsOnTouch' /\ OneAtATime'
  BY <1>0, <1>4, TouchNextBar
<1>5. ASSUME NEW label \in {"long", "short", "no_trade"}, NEW prob \in Probs,
             NEW row \in Rows, NEW atr \in Atrs, Enter(label, prob, row, atr)
      PROVE  ExitsOnTouch' /\ OneAtATime'
  <2>1. /\ pc = "entry" /\ pc' = "bar" /\ Len(bars) \in Nat
        /\ position'.bar = Len(bars) /\ UNCHANGED <<bars, trades>>
    BY <1>0, <1>5, EnterFacts
  <2>2. Untouched(position', Len(bars) + 1)
    BY <1>0, <2>1 DEF Untouched, TypeOK
  <2>3. \A i \in DOMAIN trades : trades[i].exit <= Len(bars)
    BY <1>0 DEF PlaceInv
  <2>4. OneAtATime'
    BY <1>0, <2>1, <2>3 DEF OneAtATime
  <2>5. QED
    BY <1>a, <2>1, <2>2, <2>4
<1>6. CASE UNCHANGED vars
  <2>1. UNCHANGED <<bars, trades, position, pc>>
    BY <1>6 DEF vars
  <2>2. QED
    BY <1>0, <1>a, <2>1 DEF ExitsOnTouch, OneAtATime
<1>7. QED
  BY <1>1, <1>2, <1>3, <1>4, <1>5, <1>6 DEF Next

LEMMA Step == IInv /\ [Next]_vars => IInv'
BY TypeStep, PlaceStep, CountStep, TouchStep DEF IInv

LEMMA Capped == IInv => DayCapped
BY DEF IInv, CountInv, Counts, EnteredOn, DayCapped

\* One position at a time, no more entries in a day than allowed, and every exit
\* on the first bar that touches stop or target (engine.py:145-195, 284-299).
THEOREM RulesFollowed == Spec => []TradesFollowRules
<1>1. IInv => TradesFollowRules
  BY Capped DEF IInv, TradesFollowRules
<1>2. QED
  BY <1>1, Start, Step, PTL DEF Spec

-----------------------------------------------------------------------------
(* The books. *)

\* The P&L of the trades of s that were closed by bar k.
Earned(s) == [i \in DOMAIN s |-> s[i].pnl]
ClosedBy(s, k) == {i \in DOMAIN s : s[i].exit <= k}
Profit(s, k) == SumFunctionOnSet(Earned(s), ClosedBy(s, k))

LEMMA BookedIsProfit == \A k : Booked(k) = Profit(trades, k)
BY DEF Booked, Profit, Earned, ClosedBy

LEMMA EarnedType ==
    ASSUME NEW s \in Seq(Trades), NEW k
    PROVE  /\ IsFiniteSet(DOMAIN s) /\ IsFiniteSet(ClosedBy(s, k))
           /\ DOMAIN Earned(s) = DOMAIN s /\ ClosedBy(s, k) \subseteq DOMAIN s
           /\ \A i \in DOMAIN s : Earned(s)[i] \in Int /\ Earned(s)[i] = s[i].pnl
<1>1. DOMAIN s = 1..Len(s) /\ Len(s) \in Nat
  BY LenProperties
<1>2. IsFiniteSet(DOMAIN s)
  BY <1>1, FS_Interval
<1>3. ClosedBy(s, k) \subseteq DOMAIN s
  BY DEF ClosedBy
<1>4. IsFiniteSet(ClosedBy(s, k))
  BY <1>2, <1>3, FS_Subset
<1>5. \A i \in DOMAIN s : s[i].pnl \in Int
  <2>1. \A i \in DOMAIN s : s[i] \in Trades
    BY <1>1, ElementOfSeq
  <2>2. QED
    BY <2>1 DEF Trades
<1>6. QED
  BY <1>2, <1>3, <1>4, <1>5 DEF Earned

LEMMA ProfitType ==
    ASSUME NEW s \in Seq(Trades), NEW k
    PROVE  /\ Profit(s, k) \in Int
           /\ ClosedBy(s, k) = {} => Profit(s, k) = 0
<1>1. /\ IsFiniteSet(ClosedBy(s, k)) /\ \A i \in ClosedBy(s, k) : Earned(s)[i] \in Int
  BY EarnedType
<1>2. QED
  BY <1>1, SumType DEF Profit

\* A trade counts from the bar of its exit on.
LEMMA ProfitAppend ==
    ASSUME NEW s \in Seq(Trades), NEW t \in Trades, NEW k \in Int
    PROVE  Profit(Append(s, t), k) = Profit(s, k) + IF t.exit <= k THEN t.pnl ELSE 0
<1> DEFINE r == Append(s, t)
           n == Len(s)
           old == ClosedBy(s, k)
           new == ClosedBy(r, k)
<1>1. /\ r \in Seq(Trades) /\ n \in Nat
      /\ DOMAIN s = 1..n /\ DOMAIN r = 1..n + 1
      /\ r[n + 1] = t /\ \A i \in 1..n : r[i] = s[i]
  BY AppendProperties, LenProperties
<1> HIDE DEF r, n
<1>2. /\ IsFiniteSet(old) /\ old \subseteq DOMAIN s
      /\ \A i \in DOMAIN s : Earned(s)[i] \in Int /\ Earned(s)[i] = s[i].pnl
      /\ IsFiniteSet(new) /\ new \subseteq DOMAIN r
      /\ \A i \in DOMAIN r : Earned(r)[i] \in Int /\ Earned(r)[i] = r[i].pnl
  BY <1>1, EarnedType
<1>3. \A i \in old : Earned(s)[i] \in Int /\ Earned(s)[i] = Earned(r)[i]
  <2>1. ASSUME NEW i \in 1..n PROVE Earned(s)[i] \in Int /\ Earned(s)[i] = Earned(r)[i]
    <3>1. i \in DOMAIN s /\ i \in DOMAIN r
      BY <1>1
    <3>2. QED
      BY <1>1, <1>2, <3>1
  <2>2. QED
    BY <1>1, <1>2, <2>1
<1>4. SumFunctionOnSet(Earned(s), old) = SumFunctionOnSet(Earned(r), old)
  BY <1>2, <1>3, SumSame
<1>5. old = {i \in 1..n : r[i].exit <= k}
  BY <1>1 DEF ClosedBy
<1>6. \A i : i \in 1..n + 1 <=> i \in 1..n \/ i = n + 1
  BY <1>1
<1>7. n + 1 \notin 1..n
  BY <1>1
<1>8. CASE t.exit <= k
  <2>1. new = old \cup {n + 1} /\ n + 1 \in new /\ new \ {n + 1} = old
    BY <1>1, <1>5, <1>6, <1>7, <1>8 DEF ClosedBy
  <2>2. \A i \in new : Earned(r)[i] \in Int
    BY <1>2
  <2>3. Earned(r)[n + 1] = t.pnl /\ t.pnl \in Int
    BY <1>1, <1>2, <2>1
  <2> HIDE DEF new, old
  <2>4. SumFunctionOnSet(Earned(r), new)
           = Earned(r)[n + 1] + SumFunctionOnSet(Earned(r), new \ {n + 1})
    BY <1>2, <2>1, <2>2, SumRemove
  <2>5. SumFunctionOnSet(Earned(r), new) = t.pnl + SumFunctionOnSet(Earned(s), old)
    BY <1>4, <2>1, <2>3, <2>4
  <2>6. SumFunctionOnSet(Earned(s), old) \in Int
    BY ProfitType DEF Profit, old
  <2>7. SumFunctionOnSet(Earned(r), new) = SumFunctionOnSet(Earned(s), old) + t.pnl
    BY <2>3, <2>5, <2>6
  <2>8. QED
    BY <1>8, <2>7 DEF Profit, r, new, old
<1>9. CASE ~ (t.exit <= k)
  <2>1. new = old
    BY <1>1, <1>5, <1>6, <1>9 DEF ClosedBy
  <2>2. SumFunctionOnSet(Earned(s), old) \in Int
    BY ProfitType DEF Profit
  <2> HIDE DEF new, old
  <2>3. SumFunctionOnSet(Earned(r), new) = SumFunctionOnSet(Earned(s), old) + 0
    BY <1>4, <2>1, <2>2
  <2>4. QED
    BY <1>9, <2>3 DEF Profit, r, new, old
<1>10. QED
  BY <1>8, <1>9

\* When all are closed the bar does not matter.
LEMMA ProfitWhole ==
    ASSUME NEW s \in Seq(Trades), NEW k, \A i \in DOMAIN s : s[i].exit <= k
    PROVE  Profit(s, k) = SumFunction(Earned(s))
<1>1. ClosedBy(s, k) = DOMAIN s /\ DOMAIN Earned(s) = DOMAIN s
  BY DEF ClosedBy, Earned
<1>2. QED
  BY <1>1 DEF Profit, SumFunction

\* A point of the curve for every bar that is done with.
LengthInv ==
    /\ pc = "entry" => bars # <<>> /\ Len(curve) = Len(bars) - 1
    /\ pc = "bar" => Len(curve) = Len(bars)
    /\ pc = "done" /\ bars # <<>> => Len(curve) = Len(bars)

\* The books are right at all times, and the curve begins at the capital: on its
\* first bar a position can only have been bought, at that bar's price.
CurveInv == bars # <<>> => \A k \in DOMAIN curve : curve[k] = Capital + Profit(trades, k)
EquityInv == equity = Capital + Profit(trades, Len(bars))
StartInv ==
    /\ curve # <<>> => curve[1] = Capital
    /\ position # None => position.price = bars[position.bar].close

Report ==
    /\ metrics.gain = metrics.pnl /\ metrics.gain = equity - Capital
    /\ metrics.wins + metrics.losses = Len(trades) /\ metrics.count = Len(trades)
    /\ trades # <<>> => Drops(metrics.drawdown)

MoneyInv == LengthInv /\ CurveInv /\ EquityInv /\ StartInv /\ (pc = "done" => Report)

LEMMA SeqFacts ==
    ASSUME TypeOK
    PROVE  /\ Len(bars) \in Nat /\ DOMAIN bars = 1..Len(bars) /\ (bars = <<>> <=> Len(bars) = 0)
           /\ Len(curve) \in Nat /\ DOMAIN curve = 1..Len(curve)
           /\ (curve = <<>> <=> Len(curve) = 0)
           /\ trades \in Seq(Trades) /\ \A i \in DOMAIN trades : trades[i].exit \in Nat \ {0}
           /\ \A k : Profit(trades, k) \in Int
<1>1. bars \in Seq(Dated) /\ curve \in Seq(Int) /\ trades \in Seq(Trades)
  BY DEF TypeOK
<1>2. \A i \in DOMAIN trades : trades[i].exit \in Nat \ {0}
  <2>1. \A i \in DOMAIN trades : trades[i] \in Trades
    BY <1>1, ElementOfSeq, LenProperties
  <2>2. QED
    BY <2>1 DEF Trades
<1>3. \A k : Profit(trades, k) \in Int
  BY <1>1, ProfitType
<1>4. QED
  BY <1>1, <1>2, <1>3, LenProperties, EmptySeq

\* No trade is closed on the first bar while the replay runs.
LEMMA NothingYet ==
    ASSUME TypeOK, PlaceInv, pc # "done"
    PROVE  Profit(trades, 1) = 0
<1>1. \A i \in DOMAIN trades : trades[i].pos.bar \in Nat \ {0} /\ trades[i].exit \in Nat
  <2>1. \A i \in DOMAIN trades : trades[i] \in Trades
    BY DEF TypeOK
  <2>2. QED
    BY <2>1 DEF Trades, Positions
<1>2. \A i \in DOMAIN trades : ~ (trades[i].exit <= 1)
  BY <1>1 DEF PlaceInv
<1>3. ClosedBy(trades, 1) = {}
  BY <1>2 DEF ClosedBy
<1>4. QED
  BY <1>3, ProfitType DEF TypeOK

\* All trades are closed by the last bar.
LEMMA AllClosed ==
    ASSUME TypeOK, PlaceInv, NEW m \in Nat, m >= Len(bars)
    PROVE  /\ Profit(trades, m) = Profit(trades, Len(bars))
           /\ Profit(trades, m) = SumFunction(Earned(trades))
<1>1. \A i \in DOMAIN trades : trades[i].exit <= Len(bars) /\ trades[i].exit <= m
  BY SeqFacts DEF PlaceInv
<1>2. trades \in Seq(Trades)
  BY DEF TypeOK
<1>3. QED
  BY <1>1, <1>2, ProfitWhole

LEMMA MoneyStart == Init => MoneyInv
<1> SUFFICES ASSUME Init PROVE MoneyInv
  OBVIOUS
<1>1. TypeOK /\ PlaceInv
  BY Start DEF IInv
<1>2. Profit(trades, Len(bars)) = 0
  <2>1. ClosedBy(trades, Len(bars)) = {}
    BY DEF Init, ClosedBy
  <2>2. QED
    BY <1>1, <2>1, ProfitType DEF TypeOK
<1>3. QED
  BY <1>2, SeqFacts, <1>1 DEF Init, MoneyInv, LengthInv, CurveInv, EquityInv, StartInv

\* The steps that append the equity to the curve.
LEMMA MoneyAppend ==
    ASSUME TypeOK, PlaceInv, MoneyInv, pc = "entry", pc' = "bar",
           curve' = Append(curve, equity), UNCHANGED <<bars, equity, trades>>,
           position' # None => position'.price = bars[position'.bar].close
    PROVE  MoneyInv'
<1>1. /\ Len(bars) \in Nat /\ bars # <<>> /\ Len(curve) = Len(bars) - 1 /\ Len(curve) \in Nat
      /\ equity = Capital + Profit(trades, Len(bars)) /\ equity \in Int
      /\ DOMAIN curve = 1..Len(curve)
  BY SeqFacts DEF TypeOK, MoneyInv, LengthInv, EquityInv
<1>2. /\ Len(curve') = Len(bars) /\ DOMAIN curve' = 1..Len(bars)
      /\ \A k \in 1..Len(curve) : curve'[k] = curve[k]
      /\ curve'[Len(bars)] = equity
  BY <1>1, AppendProperties DEF TypeOK
<1>3. LengthInv' /\ EquityInv'
  BY <1>1, <1>2 DEF LengthInv, EquityInv
<1>4. CurveInv'
  <2>1. ASSUME NEW k \in 1..Len(bars) PROVE curve'[k] = Capital + Profit(trades, k)
    <3>1. CASE k = Len(bars)
      BY <1>1, <1>2, <3>1
    <3>2. CASE k # Len(bars)
      <4>1. k \in 1..Len(curve)
        BY <1>1, <3>2
      <4>2. QED
        BY <1>1, <1>2, <4>1 DEF MoneyInv, CurveInv
    <3>3. QED
      BY <3>1, <3>2
  <2>2. QED
    BY <1>2, <2>1 DEF CurveInv
<1>5. curve'[1] = Capital
  <2>1. CASE Len(bars) = 1
    <3>1. Profit(trades, 1) = 0
      BY NothingYet
    <3>2. QED
      BY <1>1, <1>2, <2>1, <3>1
  <2>2. CASE Len(bars) # 1
    <3>1. 1 \in 1..Len(curve) /\ curve # <<>>
      BY <1>1, <2>2, SeqFacts
    <3>2. QED
      BY <1>2, <3>1 DEF MoneyInv, StartInv
  <2>3. QED
    BY <2>1, <2>2
<1>6. StartInv'
  BY <1>5 DEF StartInv
<1>7. QED
  BY <1>3, <1>4, <1>6 DEF MoneyInv

LEMMA MoneyBar ==
    ASSUME TypeOK, PlaceInv, MoneyInv, NEW shape \in Shapes, NEW day \in 1..MaxDays,
           NextBar(shape, day)
    PROVE  MoneyInv'
<1> DEFINE n == Len(bars)
<1>1. /\ n \in Nat /\ DOMAIN curve = 1..Len(curve) /\ Len(curve) = n
      /\ equity = Capital + Profit(trades, n) /\ equity \in Int
      /\ trades \in Seq(Trades)
      /\ pc = "bar" /\ pc' = "entry" /\ UNCHANGED curve
  BY SeqFacts DEF TypeOK, MoneyInv, LengthInv, EquityInv, NextBar
<1>2. /\ bars' # <<>> /\ Len(bars') = n + 1 /\ \A k \in 1..n : bars'[k] = bars[k]
  BY <1>1, NewBar DEF NextBar
<1>3. LengthInv'
  BY <1>1, <1>2 DEF LengthInv
<1>4. CurveInv' /\ EquityInv'
  <2>1. \A k \in 1..n : curve[k] = Capital + Profit(trades, k)
    <3>1. CASE bars = <<>>
      BY <1>1, <3>1, SeqFacts
    <3>2. CASE bars # <<>>
      BY <1>1, <3>2 DEF MoneyInv, CurveInv
    <3>3. QED
      BY <3>1, <3>2
  <2>2. Profit(trades, n + 1) = Profit(trades, n)
    BY <1>1, AllClosed
  <2>3. CASE UNCHANGED <<equity, trades, position>>
    BY <1>1, <1>2, <2>1, <2>2, <2>3 DEF CurveInv, EquityInv
  <2>4. CASE \E t \in Trades : /\ t.exit = n + 1 /\ trades' = Append(trades, t)
                               /\ equity' = equity + t.pnl
    <3>1. PICK t \in Trades : /\ t.exit = n + 1 /\ trades' = Append(trades, t)
                              /\ equity' = equity + t.pnl
      BY <2>4
    <3>2. ASSUME NEW k \in 1..n PROVE Profit(trades', k) = Profit(trades, k)
      <4>1. ~ (t.exit <= k) /\ k \in Int /\ Profit(trades, k) \in Int
        BY <1>1, <3>1, SeqFacts
      <4>2. Profit(Append(trades, t), k) = Profit(trades, k) + IF t.exit <= k THEN t.pnl ELSE 0
        BY <1>1, <4>1, ProfitAppend
      <4>3. QED
        BY <3>1, <4>1, <4>2
    <3>3. Profit(trades', n + 1) = Profit(trades, n) + t.pnl
      <4>1. Profit(Append(trades, t), n + 1)
              = Profit(trades, n + 1) + IF t.exit <= n + 1 THEN t.pnl ELSE 0
        BY <1>1, ProfitAppend
      <4>2. QED
        BY <1>1, <2>2, <3>1, <4>1
    <3>4. CurveInv'
      BY <1>1, <2>1, <3>2 DEF CurveInv
    <3>5. EquityInv'
      <4>1. t.pnl \in Int /\ Profit(trades, n) \in Int
        BY SeqFacts DEF Trades
      <4>2. QED
        BY <1>1, <1>2, <3>1, <3>3, <4>1 DEF EquityInv
    <3>6. QED
      BY <3>4, <3>5
  <2>5. QED
    BY <2>3, <2>4, BarCases
<1>5. StartInv'
  <2>1. position' # None => position' = position
    BY BarCases
  <2>2. position # None => position.bar \in 1..n
    BY DEF PlaceInv
  <2>3. QED
    BY <1>1, <1>2, <2>1, <2>2 DEF MoneyInv, StartInv
<1>6. QED
  BY <1>1, <1>3, <1>4, <1>5 DEF MoneyInv

\* A loss counts what is not a win.
LEMMA WinsAndLosses ==
    ASSUME NEW s \in Seq(Trades)
    PROVE  Cardinality({i \in DOMAIN Earned(s) : Earned(s)[i] > 0})
             + Cardinality({i \in DOMAIN Earned(s) : Earned(s)[i] <= 0}) = Len(s)
<1> DEFINE won == {i \in DOMAIN Earned(s) : Earned(s)[i] > 0}
           lost == {i \in DOMAIN Earned(s) : Earned(s)[i] <= 0}
<1>1. /\ DOMAIN Earned(s) = 1..Len(s) /\ Len(s) \in Nat /\ IsFiniteSet(1..Len(s))
      /\ \A i \in 1..Len(s) : Earned(s)[i] \in Int
  BY EarnedType, LenProperties
<1>2. won \cup lost = 1..Len(s) /\ won \cap lost = {}
  BY <1>1
<1>3. IsFiniteSet(won) /\ IsFiniteSet(lost)
  BY <1>1, FS_Subset
<1> HIDE DEF won, lost
<1>4. Cardinality(1..Len(s)) = Cardinality(won) + Cardinality(lost)
  <2>1. /\ Cardinality(won) \in Nat /\ Cardinality(lost) \in Nat
    BY <1>3, FS_CardinalityType
  <2>2. Cardinality(won \cup lost)
          = Cardinality(won) + Cardinality(lost) - Cardinality(won \cap lost)
    BY <1>3, FS_Union
  <2>3. Cardinality(won \cap lost) = 0
    BY <1>2, FS_EmptySet
  <2>4. QED
    <3>1. won \cup lost = 1..Len(s)
      BY <1>2
    <3>2. PICK w, l, a : /\ w = Cardinality(won) /\ l = Cardinality(lost)
                         /\ a = Cardinality(1..Len(s))
      OBVIOUS
    <3>3. a = w + l - 0 /\ w \in Nat /\ l \in Nat
      BY <2>1, <2>2, <2>3, <3>1, <3>2
    <3>4. a = w + l
      BY <3>3
    <3>5. QED
      BY <3>2, <3>4
<1>5. Cardinality(1..Len(s)) = Len(s)
  <2>1. PICK n : n = Len(s)
    OBVIOUS
  <2>2. n \in Nat
    BY <1>1, <2>1
  <2>3. Cardinality(1..n) = IF 1 > n THEN 0 ELSE n - 1 + 1
    BY <2>2, FS_Interval
  <2>4. Cardinality(1..n) = n
    BY <2>2, <2>3
  <2>5. QED
    BY <2>1, <2>4
<1>6. QED
  BY <1>4, <1>5 DEF won, lost

\* The report is right when the curve ends at the equity.
LEMMA ReportSound ==
    ASSUME TypeOK', metrics' = Metrics,
           equity' = Capital + SumFunction(Earned(trades')),
           trades' # <<>> => curve' # <<>> /\ Last(curve') = equity' /\ curve'[1] = Capital
    PROVE  Report'
<1>1. trades' \in Seq(Trades) /\ curve' \in Seq(Int) /\ equity' \in Int
  BY DEF TypeOK
<1>2. Pnls = Earned(trades')
  BY DEF Pnls, Earned
<1>3. CASE trades' = <<>>
  <2>1. Len(trades') = 0 /\ DOMAIN Earned(trades') = {}
    BY <1>1, <1>3, EmptySeq DEF Earned
  <2>2. SumFunction(Earned(trades')) = 0
    BY <2>1, SumType, FS_EmptySet DEF SumFunction
  <2>3. /\ metrics'.gain = 0 /\ metrics'.pnl = 0 /\ metrics'.count = 0
        /\ metrics'.wins = 0 /\ metrics'.losses = 0
    BY <1>3 DEF Metrics
  <2>4. QED
    BY <1>3, <2>1, <2>2, <2>3 DEF Report
<1>4. CASE trades' # <<>>
  <2>1. metrics' = [gain |-> Last(curve') - Capital, pnl |-> SumFunction(Earned(trades')),
                    count |-> Len(trades'),
                    wins |-> Cardinality({i \in DOMAIN Earned(trades') : Earned(trades')[i] > 0}),
                    losses |-> Cardinality({i \in DOMAIN Earned(trades') : Earned(trades')[i] <= 0}),
                    drawdown |-> Drawdown(curve')]
    BY <1>2, <1>4 DEF Metrics
  <2>2. metrics'.wins + metrics'.losses = Len(trades')
    BY <1>1, <2>1, WinsAndLosses
  <2>3. metrics'.gain = equity' - Capital /\ metrics'.count = Len(trades')
    BY <1>4, <2>1
  <2>4. metrics'.gain = metrics'.pnl
    <3>1. SumFunction(Earned(trades')) \in Int
      <4>1. /\ IsFiniteSet(DOMAIN Earned(trades'))
            /\ \A i \in DOMAIN Earned(trades') : Earned(trades')[i] \in Int
        BY <1>1, EarnedType
      <4>2. QED
        BY <4>1, SumType DEF SumFunction
    <3>2. QED
      BY <2>1, <2>3, <3>1
  <2>5. Drops(metrics.drawdown)'
    <3>1. DOMAIN curve' = 1..Len(curve') /\ metrics'.drawdown = Drawdown(curve')
      BY <1>1, <2>1, LenProperties
    <3>2. /\ NoneDeeper(curve', Len(curve'), Drawdown(curve'))
          /\ IsDrop(curve', Len(curve'), Drawdown(curve'))
      BY <1>1, <1>4, DrawdownSound
    <3>3. QED
      BY <3>1, <3>2 DEF Drops, NoneDeeper, IsDrop, Comparable
  <2>6. QED
    BY <2>2, <2>3, <2>4, <2>5 DEF Report
<1>5. QED
  BY <1>3, <1>4

LEMMA MoneyFails ==
    ASSUME TypeOK, PlaceInv, MoneyInv, TypeOK', Fails
    PROVE  MoneyInv'
<1>1. /\ pc = "bar" /\ pc' = "done" /\ bars = <<>> /\ curve' = <<Capital>>
      /\ UNCHANGED <<bars, equity, trades, position>> /\ metrics' = Metrics
  BY DEF Fails
<1>2. position = None /\ Len(bars) = 0
  BY <1>1, SeqFacts DEF PlaceInv
<1>3. equity = Capital + SumFunction(Earned(trades))
  BY <1>2, AllClosed DEF MoneyInv, EquityInv
<1>4. trades = <<>>
  <2>1. \A i \in DOMAIN trades : FALSE
    BY <1>2, SeqFacts DEF PlaceInv
  <2>2. DOMAIN trades = 1..Len(trades) /\ Len(trades) \in Nat
    BY SeqFacts, LenProperties
  <2>3. Len(trades) = 0
    BY <2>1, <2>2
  <2>4. QED
    BY <2>3, SeqFacts, EmptySeq
<1>5. Report'
  BY <1>1, <1>3, <1>4, ReportSound
<1>6. LengthInv' /\ CurveInv' /\ EquityInv' /\ StartInv'
  BY <1>1, <1>2 DEF LengthInv, CurveInv, EquityInv, StartInv, MoneyInv
<1>7. QED
  BY <1>5, <1>6 DEF MoneyInv

\* What the last close is at when the data has one bar only.
LEMMA SameBarClose ==
    ASSUME TypeOK, PlaceInv, MoneyInv, position # None, Len(bars) = 1
    PROVE  Pnl(position, Last(bars).close) = 0
<1>1. position.bar = 1 /\ position \in Positions
  BY SeqFacts DEF PlaceInv, TypeOK
<1>2. Last(bars).close = position.price
  BY <1>1 DEF MoneyInv, StartInv, Last
<1>3. position.price \in Int /\ position.shares \in Int /\ Sign(position.side) \in Int
  BY <1>1, SignType DEF Positions
<1>4. position.price - position.price = 0 /\ Sign(position.side) * 0 = 0
      /\ 0 * position.shares = 0
  BY <1>3
<1>5. QED
  BY <1>2, <1>4 DEF Pnl

LEMMA MoneyFinish ==
    ASSUME TypeOK, PlaceInv, MoneyInv, TypeOK', PlaceInv', Finish
    PROVE  MoneyInv'
<1>0. PICK n : n = Len(bars)
  OBVIOUS
<1>1. /\ n \in Nat /\ DOMAIN curve = 1..n /\ Len(curve) = n
      /\ equity = Capital + Profit(trades, n) /\ equity \in Int
      /\ trades \in Seq(Trades) /\ curve \in Seq(Int)
      /\ pc = "bar" /\ pc' = "done" /\ UNCHANGED <<bars, position>> /\ metrics' = Metrics
  BY <1>0, SeqFacts DEF TypeOK, MoneyInv, LengthInv, EquityInv, Finish
<1>2. ASSUME LengthInv', CurveInv', EquityInv', StartInv',
             trades' # <<>> => bars # <<>> PROVE MoneyInv'
  <2>1. equity' = Capital + SumFunction(Earned(trades'))
    <3>1. Profit(trades', Len(bars')) = SumFunction(Earned(trades'))
      <4>1. \A i \in DOMAIN trades' : trades'[i].exit <= Len(bars')
        BY DEF PlaceInv
      <4>2. trades' \in Seq(Trades)
        BY DEF TypeOK
      <4>3. QED
        BY <4>1, <4>2, ProfitWhole
    <3>2. QED
      BY <1>0, <1>2, <3>1 DEF EquityInv
  <2>2. ASSUME trades' # <<>>
        PROVE  curve' # <<>> /\ Last(curve') = equity' /\ curve'[1] = Capital
    <3>1. bars' # <<>> /\ Len(curve') = n /\ n >= 1
      BY <1>0, <1>1, <1>2, <2>2, SeqFacts DEF LengthInv
    <3>2. curve' # <<>> /\ DOMAIN curve' = 1..n
      BY <3>1, LenProperties, EmptySeq DEF TypeOK
    <3>3. curve'[n] = Capital + Profit(trades', n)
      BY <1>0, <1>1, <1>2, <3>1, <3>2 DEF CurveInv
    <3>4. Last(curve') = equity'
      BY <1>0, <1>1, <1>2, <3>1, <3>3 DEF EquityInv, Last
    <3>5. QED
      BY <1>2, <3>2, <3>4 DEF StartInv
  <2>3. Report'
    BY <1>0, <1>1, <2>1, <2>2, ReportSound
  <2>4. QED
    BY <1>2, <2>3 DEF MoneyInv
<1>3. CASE position = None /\ UNCHANGED <<equity, trades, curve>>
  <2>1. LengthInv' /\ CurveInv' /\ EquityInv' /\ StartInv'
    BY <1>0, <1>1, <1>3 DEF MoneyInv, LengthInv, CurveInv, EquityInv, StartInv
  <2>2. trades' # <<>> => bars # <<>>
    <3>1. bars = <<>> => trades = <<>>
      <4>1. ASSUME bars = <<>> PROVE DOMAIN trades = {}
        BY <4>1, SeqFacts DEF PlaceInv
      <4>2. QED
        BY <1>0, <1>1, <4>1, LenProperties, EmptySeq
    <3>2. QED
      BY <1>3, <3>1
  <2>3. QED
    BY <1>2, <2>1, <2>2
<1>4. CASE /\ position # None /\ n \in Nat \ {0}
           /\ \E t \in Trades :
                 /\ t.exit = n /\ trades' = Append(trades, t) /\ equity' = equity + t.pnl
                 /\ t.pnl = Pnl(position, Last(bars).close)
                 /\ curve' = [curve EXCEPT ![n] = equity + t.pnl]
  <2>1. PICK t \in Trades :
           /\ t.exit = n /\ trades' = Append(trades, t) /\ equity' = equity + t.pnl
           /\ t.pnl = Pnl(position, Last(bars).close)
           /\ curve' = [curve EXCEPT ![n] = equity + t.pnl]
    BY <1>4
  <2>2. n >= 1 /\ n \in 1..n /\ bars # <<>> /\ t.pnl \in Int /\ Profit(trades, n) \in Int
    BY <1>0, <1>1, <1>4, SeqFacts DEF Trades
  <2>3. /\ Len(curve') = n /\ DOMAIN curve' = 1..n /\ curve'[n] = equity + t.pnl
        /\ \A k \in 1..n : k # n => curve'[k] = curve[k]
    <3>1. /\ curve \in Seq(Int) /\ n \in 1..Len(curve) /\ equity + t.pnl \in Int
      BY <1>0, <1>1, <2>2
    <3>2. /\ curve' \in Seq(Int) /\ Len(curve') = Len(curve)
      BY <2>1, <3>1, ExceptSeq
    <3>3. QED
      BY <1>0, <1>1, <2>1, <2>2, <3>2, LenProperties
  <2>4. ASSUME NEW k \in 1..n PROVE Profit(trades', k) = Profit(trades, k) + IF n <= k THEN t.pnl ELSE 0
    <3>1. k \in Int
      BY <1>1
    <3>2. QED
      BY <1>0, <1>1, <2>1, <3>1, ProfitAppend
  <2>5. Profit(trades', n) = Profit(trades, n) + t.pnl
    BY <1>0, <1>1, <2>2, <2>4
  <2>6. LengthInv'
    BY <1>0, <1>1, <2>3 DEF LengthInv
  <2>7. EquityInv'
    BY <1>0, <1>1, <2>1, <2>2, <2>5 DEF EquityInv
  <2>8. CurveInv'
    <3>1. ASSUME NEW k \in 1..n PROVE curve'[k] = Capital + Profit(trades', k)
      <4>1. CASE k = n
        <5>1. PICK a, b : a = Profit(trades, n) /\ b = t.pnl
          OBVIOUS
        <5>2. /\ curve'[k] = (Capital + a) + b /\ Profit(trades', k) = a + b
              /\ a \in Int /\ b \in Int
          BY <1>1, <2>2, <2>3, <2>5, <4>1, <5>1
        <5>3. QED
          BY <5>2
      <4>2. CASE k # n
        <5>0. k \in Nat /\ n \in Nat /\ k <= n
          BY <1>1
        <5>1. ~ (n <= k) /\ Profit(trades, k) \in Int
          BY <4>2, <5>0, SeqFacts
        <5>2. Profit(trades', k) = Profit(trades, k)
          BY <2>4, <5>1
        <5>3. curve[k] = Capital + Profit(trades, k)
          BY <1>0, <1>1, <2>2 DEF MoneyInv, CurveInv
        <5>4. QED
          BY <2>3, <4>2, <5>2, <5>3
      <4>3. QED
        BY <4>1, <4>2
    <3>2. QED
      BY <2>3, <3>1 DEF CurveInv
  <2>9. StartInv'
    <3>1. curve'[1] = Capital
      <4>1. CASE n = 1
        <5>1. t.pnl = 0 /\ Profit(trades, 1) = 0
          BY <1>0, <1>1, <1>4, <2>1, <4>1, SameBarClose, NothingYet
        <5>2. QED
          BY <1>0, <1>1, <2>3, <4>1, <5>1
      <4>2. CASE n # 1
        <5>1. 1 \in 1..n /\ curve # <<>>
          BY <1>0, <1>1, <2>2, <4>2, SeqFacts
        <5>2. QED
          BY <2>3, <4>2, <5>1 DEF MoneyInv, StartInv
      <4>3. QED
        BY <4>1, <4>2
    <3>2. QED
      BY <1>0, <1>1, <3>1 DEF StartInv, MoneyInv
  <2>10. QED
    BY <1>2, <2>2, <2>6, <2>7, <2>8, <2>9
<1>5. QED
  <2>1. CASE position = None
    BY <1>3, <2>1 DEF Finish
  <2>2. CASE position # None
    <3> DEFINE trade == Closed(position, n, Last(bars).close, "eod")
    <3>1. /\ equity' = equity + trade.pnl /\ trades' = Append(trades, trade)
          /\ curve' = [curve EXCEPT ![n] = equity + trade.pnl]
      BY <1>0, <1>1, <2>2 DEF Finish
    <3>2. position \in Positions /\ n \in Nat \ {0}
      <4>1. position \in Positions
        BY <2>2 DEF TypeOK
      <4>2. position.bar \in 1..n
        BY <1>0, <2>2 DEF PlaceInv
      <4>3. QED
        BY <1>1, <4>1, <4>2
    <3>3. Last(bars).close \in Int
      BY <2>2, FinishCases DEF Dated
    <3>4. trade \in Trades
      BY <3>2, <3>3, ClosedType
    <3>5. trade.exit = n /\ trade.pnl = Pnl(position, Last(bars).close)
      BY DEF Closed
    <3> HIDE DEF trade
    <3>6. QED
      BY <1>4, <2>2, <3>1, <3>2, <3>4, <3>5
  <2>3. QED
    BY <2>1, <2>2

LEMMA MoneyStep == TypeOK /\ PlaceInv /\ MoneyInv /\ [Next]_vars => MoneyInv'
<1> SUFFICES ASSUME TypeOK, PlaceInv, MoneyInv, [Next]_vars PROVE MoneyInv'
  OBVIOUS
<1>0. TypeOK' /\ PlaceInv'
  BY TypeStep, PlaceStep
<1>1. CASE Fails
  BY <1>0, <1>1, MoneyFails
<1>2. CASE Skip
  <2>1. /\ pc = "entry" /\ pc' = "bar" /\ curve' = Append(curve, equity)
        /\ UNCHANGED <<bars, equity, trades, position>>
    BY <1>2 DEF Skip
  <2>2. QED
    BY <2>1, MoneyAppend DEF MoneyInv, StartInv
<1>3. CASE Finish
  BY <1>0, <1>3, MoneyFinish
<1>4. ASSUME NEW shape \in Shapes, NEW day \in 1..MaxDays, NextBar(shape, day)
      PROVE  MoneyInv'
  BY <1>4, MoneyBar
<1>5. ASSUME NEW label \in {"long", "short", "no_trade"}, NEW prob \in Probs,
             NEW row \in Rows, NEW atr \in Atrs, Enter(label, prob, row, atr)
      PROVE  MoneyInv'
  <2>1. /\ pc = "entry" /\ pc' = "bar" /\ curve' = Append(curve, equity)
        /\ position'.bar = Len(bars) /\ UNCHANGED <<bars, equity, trades>>
    BY <1>5, EnterFacts
  <2>2. position'.price = Last(bars).close
    BY <1>5 DEF Enter, Opened
  <2>3. QED
    BY <2>1, <2>2, MoneyAppend DEF Last
<1>6. CASE UNCHANGED vars
  BY <1>6 DEF vars, MoneyInv, LengthInv, CurveInv, EquityInv, StartInv, Report, Drops
<1>7. QED
  BY <1>1, <1>2, <1>3, <1>4, <1>5, <1>6 DEF Next

\* The equity after each bar is the capital and the P&L of the trades that were closed
\* until then, the return read off the curve is the P&L summed over the trades, and
\* the drawdown is the deepest there was (engine.py:139-229, 261, metrics.py:16-76).
THEOREM BooksAgree == Spec => []BooksBalance
<1>1. Init => TypeOK /\ PlaceInv /\ MoneyInv
  BY Start, MoneyStart DEF IInv
<1>2. TypeOK /\ PlaceInv /\ MoneyInv /\ [Next]_vars => TypeOK' /\ PlaceInv' /\ MoneyInv'
  BY TypeStep, PlaceStep, MoneyStep
<1>3. TypeOK /\ PlaceInv /\ MoneyInv => BooksBalance
  <2> SUFFICES ASSUME TypeOK, PlaceInv, MoneyInv PROVE BooksBalance
    OBVIOUS
  <2>1. ASSUME pc \in {"bar", "done"}, bars # <<>>
        PROVE  /\ Len(curve) = Len(bars)
               /\ \A k \in DOMAIN curve : curve[k] = Capital + Booked(k)
               /\ equity = Last(curve)
    <3>1. Len(curve) = Len(bars)
      BY <2>1 DEF MoneyInv, LengthInv
    <3>2. \A k \in DOMAIN curve : curve[k] = Capital + Booked(k)
      BY <2>1, BookedIsProfit DEF MoneyInv, CurveInv
    <3>3. Len(bars) \in DOMAIN curve
      BY <2>1, <3>1, SeqFacts
    <3>4. equity = Last(curve)
      BY <3>1, <3>2, <3>3, BookedIsProfit DEF MoneyInv, EquityInv, Last
    <3>5. QED
      BY <3>1, <3>2, <3>4
  <2>2. QED
    BY <2>1 DEF BooksBalance, MoneyInv, Report
<1>4. QED
  BY <1>1, <1>2, <1>3, PTL DEF Spec
=============================================================================
