----------------------------- MODULE SumTheorems -----------------------------
(***************************************************************************)
(* Sums over finite sets, as SumFunctionOnSet of module Functions defines  *)
(* them: a fold along a choice of elements.  The facts below let the       *)
(* modules that prove something about balances forget the order.           *)
(***************************************************************************)
EXTENDS Integers, FiniteSets, Functions, FiniteSetTheorems, WellFoundedInduction, TLAPS

\* One element of a set, the one the fold takes next.
Pick(s) == CHOOSE x \in s : TRUE

\* The equation of the fold over the subsets of S.
FoldOf(f, S, it) ==
  [s \in SUBSET S |-> IF s = {} THEN 0 ELSE f[Pick(s)] + it[s \ {Pick(s)}]]

IsFold(f, S, it) == it = FoldOf(f, S, it)

-----------------------------------------------------------------------------
(* Induction over the subsets of a finite set *)

\* A family that has a set whenever it has all its proper subsets has every finite set.
LEMMA SubsetInduction ==
  ASSUME NEW S, IsFiniteSet(S), NEW good,
         \A T \in SUBSET S : (\A U \in SUBSET T : U # T => U \in good) => T \in good
  PROVE  S \in good
<1> DEFINE bad == {T \in SUBSET S : T \notin good}
<1> SUFFICES ASSUME S \notin good
             PROVE  FALSE
  OBVIOUS
<1>1. IsWellFoundedOn(StrictSubsetOrdering(S), SUBSET S)
  <2>1. FiniteSubsetsOf(S) = SUBSET S
    BY FS_FiniteSubsetsOfFinite
  <2>2. IsWellFoundedOn(StrictSubsetOrdering(S), FiniteSubsetsOf(S))
    BY FS_StrictSubsetOrderingWellFounded
  <2> QED
    BY <2>1, <2>2
<1>2. bad \subseteq SUBSET S /\ bad # {}
  OBVIOUS
<1> HIDE DEF bad
<1>3. PICK T \in bad : \A U \in bad : ~(<<U, T>> \in StrictSubsetOrdering(S))
  BY <1>1, <1>2, WFMin
<1>4. \A U \in SUBSET T : U # T => U \in good
  BY <1>3 DEF StrictSubsetOrdering, bad
<1> QED
  BY <1>3, <1>4 DEF bad

-----------------------------------------------------------------------------
(* The fold exists, and it is the one *)

\* Two folds of one function agree on the sets both are defined on.
LEMMA FoldUnique ==
  ASSUME NEW f, NEW A, NEW B, NEW g, NEW h, IsFold(f, A, g), IsFold(f, B, h),
         NEW S, IsFiniteSet(S), S \subseteq A, S \subseteq B
  PROVE  g[S] = h[S]
<1> DEFINE good == {T \in SUBSET S : g[T] = h[T]}
<1>1. ASSUME NEW T \in SUBSET S, \A U \in SUBSET T : U # T => U \in good
      PROVE  T \in good
  <2>1. /\ g[T] = IF T = {} THEN 0 ELSE f[Pick(T)] + g[T \ {Pick(T)}]
        /\ h[T] = IF T = {} THEN 0 ELSE f[Pick(T)] + h[T \ {Pick(T)}]
    BY DEF IsFold, FoldOf
  <2>2. T # {} => Pick(T) \in T
    BY DEF Pick
  <2>3. T # {} => g[T \ {Pick(T)}] = h[T \ {Pick(T)}]
    BY <1>1, <2>2
  <2> QED
    BY <2>1, <2>3
<1> HIDE DEF good
<1>2. S \in good
  BY <1>1, SubsetInduction
<1> QED
  BY <1>2 DEF good

\* What SumFunctionOnSet chooses.
TheFold(f, S) == CHOOSE it : IsFold(f, S, it)

LEMMA SumIsFold ==
  ASSUME NEW f, NEW S
  PROVE  SumFunctionOnSet(f, S) = TheFold(f, S)[S]
BY DEF SumFunctionOnSet, FoldFunctionOnSet, MapThenFoldSet, TheFold, IsFold, FoldOf, Pick

\* There is a fold over the subsets of a finite set.
LEMMA FoldExists ==
  ASSUME NEW f, NEW S, IsFiniteSet(S)
  PROVE  IsFold(f, S, TheFold(f, S))
<1> DEFINE good == {T \in SUBSET S : IsFold(f, T, TheFold(f, T))}
<1>1. ASSUME NEW T \in SUBSET S, \A U \in SUBSET T : U # T => U \in good
      PROVE  T \in good
  <2> DEFINE rest(s) == s \ {Pick(s)}
             G == [s \in SUBSET T |-> IF s = {} THEN 0 ELSE f[Pick(s)] + TheFold(f, rest(s))[rest(s)]]
  <2>1. ASSUME NEW s \in SUBSET T, s # {}
        PROVE  G[rest(s)] = TheFold(f, rest(s))[rest(s)]
    <3>1. rest(s) \in SUBSET T /\ rest(s) # T
      BY <2>1 DEF Pick
    <3>2. IsFold(f, rest(s), TheFold(f, rest(s)))
      BY <1>1, <3>1
    <3> DEFINE r == rest(s)
    <3> HIDE DEF rest
    <3>3. TheFold(f, r)[r] = IF r = {} THEN 0 ELSE f[Pick(r)] + TheFold(f, r)[r \ {Pick(r)}]
      BY <3>2 DEF IsFold, FoldOf
    <3>4. ASSUME r # {}
          PROVE  TheFold(f, r)[rest(r)] = TheFold(f, rest(r))[rest(r)]
      <4>1. rest(r) \in SUBSET T /\ rest(r) # T /\ rest(r) \subseteq r /\ IsFiniteSet(rest(r))
        BY <3>1, <3>4, FS_Subset DEF Pick, rest
      <4>2. IsFold(f, rest(r), TheFold(f, rest(r)))
        BY <1>1, <4>1
      <4> QED
        BY <3>2, <4>1, <4>2, FoldUnique
    <3> QED
      BY <3>1, <3>3, <3>4 DEF rest
  <2>2. G = FoldOf(f, T, G)
    BY <2>1 DEF FoldOf
  <2> HIDE DEF G
  <2>3. IsFold(f, T, TheFold(f, T))
    BY <2>2 DEF TheFold, IsFold
  <2> QED
    BY <2>3
<1> HIDE DEF good
<1>2. S \in good
  BY <1>1, SubsetInduction
<1> QED
  BY <1>2 DEF good

\* The equation of the sum.
LEMMA SumStep ==
  ASSUME NEW f, NEW S, IsFiniteSet(S)
  PROVE  SumFunctionOnSet(f, S) =
           IF S = {} THEN 0 ELSE f[Pick(S)] + SumFunctionOnSet(f, S \ {Pick(S)})
<1> DEFINE R == S \ {Pick(S)}
<1>1. TheFold(f, S)[S] = IF S = {} THEN 0 ELSE f[Pick(S)] + TheFold(f, S)[R]
  <2>1. IsFold(f, S, TheFold(f, S))
    BY FoldExists
  <2> QED
    BY <2>1 DEF IsFold, FoldOf
<1>2. R \subseteq S /\ IsFiniteSet(R)
  BY FS_Subset
<1> HIDE DEF R
<1>3. TheFold(f, S)[R] = TheFold(f, R)[R]
  BY <1>2, FoldExists, FoldUnique
<1> QED
  BY <1>1, <1>3, SumIsFold DEF R

-----------------------------------------------------------------------------
(* Sums of integers *)

LEMMA SumEmpty == \A f : SumFunctionOnSet(f, {}) = 0
BY SumStep, FS_EmptySet

\* A sum of integers is one.
LEMMA SumInt ==
  ASSUME NEW f, NEW S, IsFiniteSet(S), \A x \in S : f[x] \in Int
  PROVE  SumFunctionOnSet(f, S) \in Int
<1> DEFINE good == {T \in SUBSET S : SumFunctionOnSet(f, T) \in Int}
<1>1. ASSUME NEW T \in SUBSET S, \A U \in SUBSET T : U # T => U \in good
      PROVE  T \in good
  <2>1. IsFiniteSet(T)
    BY FS_Subset
  <2>2. CASE T = {}
    BY <2>2, SumEmpty
  <2>3. CASE T # {}
    <3> DEFINE c == Pick(T)
               R == T \ {c}
    <3>1. c \in T /\ R \in good
      BY <1>1, <2>3 DEF Pick
    <3>2. SumFunctionOnSet(f, T) = f[c] + SumFunctionOnSet(f, R)
      BY <2>1, <2>3, SumStep
    <3> HIDE DEF c, R
    <3>3. f[c] \in Int /\ SumFunctionOnSet(f, R) \in Int
      BY <3>1
    <3> QED
      BY <3>2, <3>3
  <2> QED
    BY <2>2, <2>3
<1> HIDE DEF good
<1>2. S \in good
  BY <1>1, SubsetInduction
<1> QED
  BY <1>2 DEF good

\* Any element may be taken out first.
LEMMA SumRemove ==
  ASSUME NEW f, NEW S, IsFiniteSet(S), \A x \in S : f[x] \in Int, NEW a \in S
  PROVE  SumFunctionOnSet(f, S) = f[a] + SumFunctionOnSet(f, S \ {a})
<1> DEFINE good == {T \in SUBSET S : \A x \in T : SumFunctionOnSet(f, T) = f[x] + SumFunctionOnSet(f, T \ {x})}
<1>1. ASSUME NEW T \in SUBSET S, \A U \in SUBSET T : U # T => U \in good
      PROVE  T \in good
  <2> SUFFICES ASSUME NEW x \in T
               PROVE  SumFunctionOnSet(f, T) = f[x] + SumFunctionOnSet(f, T \ {x})
    OBVIOUS
  <2> DEFINE c == Pick(T)
  <2>1. c \in T
    BY DEF Pick
  <2>2. SumFunctionOnSet(f, T) = f[c] + SumFunctionOnSet(f, T \ {c})
    <3>1. IsFiniteSet(T)
      BY FS_Subset
    <3> QED
      BY <3>1, SumStep
  <2> HIDE DEF c
  <2>3. CASE c = x
    BY <2>2, <2>3
  <2>4. CASE c # x
    <3>1. T \ {c} \in good /\ T \ {x} \in good
      BY <1>1, <2>1
    <3>2. SumFunctionOnSet(f, T \ {c}) = f[x] + SumFunctionOnSet(f, (T \ {c}) \ {x})
      BY <2>4, <3>1
    <3>3. SumFunctionOnSet(f, T \ {x}) = f[c] + SumFunctionOnSet(f, (T \ {x}) \ {c})
      BY <2>1, <2>4, <3>1
    <3>4. (T \ {c}) \ {x} = (T \ {x}) \ {c}
      OBVIOUS
    <3> DEFINE rest == SumFunctionOnSet(f, (T \ {c}) \ {x})
    <3>5. rest \in Int
      <4>1. IsFiniteSet((T \ {c}) \ {x})
        BY FS_Subset
      <4> QED
        BY <4>1, SumInt
    <3>6. SumFunctionOnSet(f, T \ {c}) = f[x] + rest /\ SumFunctionOnSet(f, T \ {x}) = f[c] + rest
      BY <3>2, <3>3, <3>4
    <3> HIDE DEF rest
    <3>7. f[x] \in Int /\ f[c] \in Int
      BY <2>1
    <3> QED
      BY <2>2, <3>5, <3>6, <3>7
  <2> QED
    BY <2>3, <2>4
<1> HIDE DEF good
<1>2. S \in good
  BY <1>1, SubsetInduction
<1> QED
  BY <1>2 DEF good

\* An element is added.
LEMMA SumAdd ==
  ASSUME NEW f, NEW S, IsFiniteSet(S), NEW a, a \notin S, \A x \in S \cup {a} : f[x] \in Int
  PROVE  SumFunctionOnSet(f, S \cup {a}) = f[a] + SumFunctionOnSet(f, S)
<1>1. IsFiniteSet(S \cup {a}) /\ a \in S \cup {a}
  BY FS_AddElement
<1>2. (S \cup {a}) \ {a} = S
  OBVIOUS
<1>3. SumFunctionOnSet(f, S \cup {a}) = f[a] + SumFunctionOnSet(f, (S \cup {a}) \ {a})
  BY <1>1, SumRemove
<1> QED
  BY <1>2, <1>3

\* The sum adds up what its terms add up from.
LEMMA SumPlus ==
  ASSUME NEW S, IsFiniteSet(S), NEW f, NEW g, NEW h,
         \A x \in S : f[x] \in Int /\ g[x] \in Int /\ h[x] = f[x] + g[x]
  PROVE  SumFunctionOnSet(h, S) = SumFunctionOnSet(f, S) + SumFunctionOnSet(g, S)
<1> DEFINE good == {T \in SUBSET S : SumFunctionOnSet(h, T) = SumFunctionOnSet(f, T) + SumFunctionOnSet(g, T)}
<1>1. ASSUME NEW T \in SUBSET S, \A U \in SUBSET T : U # T => U \in good
      PROVE  T \in good
  <2>1. CASE T = {}
    BY <2>1, SumEmpty
  <2>2. CASE T # {}
    <3> DEFINE c == Pick(T)
               R == T \ {c}
    <3>1. c \in T /\ R \in good /\ IsFiniteSet(T) /\ IsFiniteSet(R) /\ R \in SUBSET S
      BY <1>1, <2>2, FS_Subset DEF Pick
    <3>2. /\ SumFunctionOnSet(f, T) = f[c] + SumFunctionOnSet(f, R)
          /\ SumFunctionOnSet(g, T) = g[c] + SumFunctionOnSet(g, R)
          /\ SumFunctionOnSet(h, T) = h[c] + SumFunctionOnSet(h, R)
      BY <2>2, <3>1, SumStep
    <3> HIDE DEF c, R
    <3>3. SumFunctionOnSet(f, R) \in Int /\ SumFunctionOnSet(g, R) \in Int
      BY <3>1, SumInt
    <3>4. h[c] = f[c] + g[c] /\ f[c] \in Int /\ g[c] \in Int
      BY <3>1
    <3>5. SumFunctionOnSet(h, R) = SumFunctionOnSet(f, R) + SumFunctionOnSet(g, R)
      BY <3>1
    <3> QED
      BY <3>2, <3>3, <3>4, <3>5
  <2> QED
    BY <2>1, <2>2
<1> HIDE DEF good
<1>2. S \in good
  BY <1>1, SubsetInduction
<1> QED
  BY <1>2 DEF good

\* A sum of nothing is nothing.
LEMMA SumZero ==
  ASSUME NEW f, NEW S, IsFiniteSet(S), \A x \in S : f[x] = 0
  PROVE  SumFunctionOnSet(f, S) = 0
<1>1. \A x \in S : f[x] \in Int /\ f[x] \in Int /\ f[x] = f[x] + f[x]
  OBVIOUS
<1>2. SumFunctionOnSet(f, S) = SumFunctionOnSet(f, S) + SumFunctionOnSet(f, S)
  BY <1>1, SumPlus
<1>3. SumFunctionOnSet(f, S) \in Int
  BY <1>1, SumInt
<1> DEFINE total == SumFunctionOnSet(f, S)
<1>4. total \in Int /\ total = total + total
  BY <1>2, <1>3
<1>5. total = 0
  <2> HIDE DEF total
  <2> QED
    BY <1>4
<1> QED
  BY <1>5

\* Only the terms count.
LEMMA SumSame ==
  ASSUME NEW S, IsFiniteSet(S), NEW f, NEW g, \A x \in S : f[x] \in Int /\ g[x] = f[x]
  PROVE  SumFunctionOnSet(g, S) = SumFunctionOnSet(f, S)
<1> DEFINE zero == [x \in S |-> 0]
<1>1. SumFunctionOnSet(zero, S) = 0
  BY SumZero
<1>2. \A x \in S : zero[x] \in Int /\ f[x] \in Int /\ g[x] = f[x] + zero[x]
  OBVIOUS
<1> HIDE DEF zero
<1>3. SumFunctionOnSet(g, S) = SumFunctionOnSet(f, S) + SumFunctionOnSet(zero, S)
  BY <1>2, SumPlus
<1>4. SumFunctionOnSet(f, S) \in Int
  BY SumInt
<1> QED
  BY <1>1, <1>3, <1>4

\* A sum of naturals is one, and no less than any term.
LEMMA SumNat ==
  ASSUME NEW f, NEW S, IsFiniteSet(S), \A x \in S : f[x] \in Nat
  PROVE  /\ SumFunctionOnSet(f, S) \in Nat
         /\ \A x \in S : f[x] <= SumFunctionOnSet(f, S)
<1> DEFINE good == {T \in SUBSET S : SumFunctionOnSet(f, T) \in Nat}
<1>1. ASSUME NEW T \in SUBSET S, \A U \in SUBSET T : U # T => U \in good
      PROVE  T \in good
  <2>1. IsFiniteSet(T)
    BY FS_Subset
  <2>2. T # {} => Pick(T) \in T /\ SumFunctionOnSet(f, T \ {Pick(T)}) \in Nat
    BY <1>1 DEF Pick
  <2> QED
    BY <2>1, <2>2, SumStep
<1>a. S \in good
  <2> HIDE DEF good
  <2> QED
    BY <1>1, SubsetInduction
<1>2. SumFunctionOnSet(f, S) \in Nat
  BY <1>a
<1>3. ASSUME NEW x \in S
      PROVE  f[x] <= SumFunctionOnSet(f, S)
  <2>1. S \ {x} \in good
    <3>1. IsFiniteSet(S \ {x}) /\ S \ {x} \in SUBSET S
      BY FS_Subset
    <3>2. \A T \in SUBSET (S \ {x}) : (\A U \in SUBSET T : U # T => U \in good) => T \in good
      BY <1>1
    <3> HIDE DEF good
    <3> QED
      BY <3>1, <3>2, SubsetInduction
  <2>2. SumFunctionOnSet(f, S) = f[x] + SumFunctionOnSet(f, S \ {x})
    BY SumRemove
  <2>3. SumFunctionOnSet(f, S \ {x}) \in Nat /\ f[x] \in Nat
    BY <2>1
  <2> HIDE DEF good
  <2> QED
    BY <2>2, <2>3
<1> QED
  BY <1>2, <1>3

\* A sum falls apart over two disjoint sets.
LEMMA SumDisjoint ==
  ASSUME NEW f, NEW S, NEW U, IsFiniteSet(S), IsFiniteSet(U), S \cap U = {},
         \A x \in S \cup U : f[x] \in Int
  PROVE  SumFunctionOnSet(f, S \cup U) = SumFunctionOnSet(f, S) + SumFunctionOnSet(f, U)
<1> DEFINE good == {V \in SUBSET U : SumFunctionOnSet(f, S \cup V)
                                       = SumFunctionOnSet(f, S) + SumFunctionOnSet(f, V)}
<1>0. SumFunctionOnSet(f, S) \in Int
  BY SumInt
<1>1. ASSUME NEW V \in SUBSET U, \A W \in SUBSET V : W # V => W \in good
      PROVE  V \in good
  <2>1. CASE V = {}
    <3>1. SumFunctionOnSet(f, V) = 0
      BY <2>1, SumEmpty
    <3> DEFINE total == SumFunctionOnSet(f, S)
    <3>2. total \in Int /\ total = total + SumFunctionOnSet(f, V)
      <4> HIDE DEF total
      <4> QED
        BY <1>0, <3>1 DEF total
    <3>3. S \cup V = S
      BY <2>1
    <3> QED
      BY <3>2, <3>3
  <2>2. CASE V # {}
    <3> DEFINE c == Pick(V)
               R == V \ {c}
    <3>1. c \in V /\ R \in good
      BY <1>1, <2>2 DEF Pick
    <3> HIDE DEF c
    <3>2. IsFiniteSet(V) /\ IsFiniteSet(S \cup R) /\ c \notin S \cup R
      <4>1. IsFiniteSet(R) /\ IsFiniteSet(V)
        BY FS_Subset
      <4>2. IsFiniteSet(S \cup R)
        BY <4>1, FS_Union
      <4> QED
        BY <3>1, <4>1, <4>2
    <3>3. S \cup V = (S \cup R) \cup {c} /\ \A x \in (S \cup R) \cup {c} : f[x] \in Int
      BY <3>1
    <3>4. SumFunctionOnSet(f, (S \cup R) \cup {c}) = f[c] + SumFunctionOnSet(f, S \cup R)
      BY <3>2, <3>3, SumAdd
    <3>5. SumFunctionOnSet(f, V) = f[c] + SumFunctionOnSet(f, R)
      <4>1. \A x \in V : f[x] \in Int
        OBVIOUS
      <4> QED
        BY <3>1, <3>2, <4>1, SumRemove
    <3>6. SumFunctionOnSet(f, S \cup R) = SumFunctionOnSet(f, S) + SumFunctionOnSet(f, R)
      BY <3>1
    <3>7. SumFunctionOnSet(f, R) \in Int /\ f[c] \in Int
      <4>1. IsFiniteSet(R) /\ \A x \in R : f[x] \in Int
        BY <3>2, FS_Subset
      <4> QED
        BY <3>1, <4>1, SumInt
    <3>8. SumFunctionOnSet(f, S \cup V) = f[c] + SumFunctionOnSet(f, S \cup R)
      BY <3>3, <3>4
    <3> HIDE DEF R
    <3> QED
      BY <1>0, <3>5, <3>6, <3>7, <3>8
  <2> QED
    BY <2>1, <2>2
<1> HIDE DEF good
<1>2. U \in good
  BY <1>1, SubsetInduction
<1> QED
  BY <1>2 DEF good

\* Terms that are zero may be left out.
LEMMA SumExtend ==
  ASSUME NEW f, NEW S, NEW T, IsFiniteSet(S), T \subseteq S,
         \A x \in T : f[x] \in Int, \A x \in S \ T : f[x] = 0
  PROVE  SumFunctionOnSet(f, S) = SumFunctionOnSet(f, T)
<1>1. IsFiniteSet(T) /\ IsFiniteSet(S \ T) /\ T \cap (S \ T) = {} /\ T \cup (S \ T) = S
  BY FS_Subset
<1>2. \A x \in T \cup (S \ T) : f[x] \in Int
  OBVIOUS
<1>3. SumFunctionOnSet(f, T \cup (S \ T)) = SumFunctionOnSet(f, T) + SumFunctionOnSet(f, S \ T)
  BY <1>1, <1>2, SumDisjoint
<1>4. SumFunctionOnSet(f, S \ T) = 0
  BY <1>1, SumZero
<1>5. SumFunctionOnSet(f, T) \in Int
  BY <1>1, SumInt
<1>6. SumFunctionOnSet(f, S) = SumFunctionOnSet(f, T) + 0
  BY <1>1, <1>3, <1>4
<1> QED
  BY <1>5, <1>6

\* The sum takes away what its terms take away.
LEMMA SumMinus ==
  ASSUME NEW S, IsFiniteSet(S), NEW f, NEW g, NEW h,
         \A x \in S : f[x] \in Int /\ g[x] \in Int /\ h[x] = f[x] - g[x]
  PROVE  SumFunctionOnSet(h, S) = SumFunctionOnSet(f, S) - SumFunctionOnSet(g, S)
<1>1. \A x \in S : h[x] \in Int /\ g[x] \in Int /\ f[x] = h[x] + g[x]
  OBVIOUS
<1>2. SumFunctionOnSet(f, S) = SumFunctionOnSet(h, S) + SumFunctionOnSet(g, S)
  BY <1>1, SumPlus
<1>3. SumFunctionOnSet(h, S) \in Int /\ SumFunctionOnSet(g, S) \in Int
  BY <1>1, SumInt
<1> QED
  BY <1>2, <1>3

\* Larger terms make a larger sum.
LEMMA SumMonotone ==
  ASSUME NEW S, IsFiniteSet(S), NEW f, NEW g,
         \A x \in S : f[x] \in Int /\ g[x] \in Int /\ f[x] <= g[x]
  PROVE  SumFunctionOnSet(f, S) <= SumFunctionOnSet(g, S)
<1> DEFINE d == [x \in S |-> g[x] - f[x]]
<1>1. \A x \in S : d[x] \in Nat /\ f[x] \in Int /\ g[x] \in Int /\ d[x] = g[x] - f[x]
  OBVIOUS
<1> HIDE DEF d
<1>2. SumFunctionOnSet(d, S) \in Nat
  BY <1>1, SumNat
<1>3. SumFunctionOnSet(d, S) = SumFunctionOnSet(g, S) - SumFunctionOnSet(f, S)
  BY <1>1, SumMinus
<1>4. SumFunctionOnSet(f, S) \in Int /\ SumFunctionOnSet(g, S) \in Int
  BY SumInt
<1> QED
  BY <1>2, <1>3, <1>4

-----------------------------------------------------------------------------
(* Sums of functions over their domains *)

\* What is added to some values is added to the sum.
LEMMA SumFunctionPlus ==
  ASSUME NEW f, NEW g, NEW d, IsFiniteSet(DOMAIN f), DOMAIN g = DOMAIN f, DOMAIN d \subseteq DOMAIN f,
         \A x \in DOMAIN f : f[x] \in Int, \A x \in DOMAIN d : d[x] \in Int,
         \A x \in DOMAIN d : g[x] = f[x] + d[x], \A x \in DOMAIN f \ DOMAIN d : g[x] = f[x]
  PROVE  SumFunction(g) = SumFunction(f) + SumFunction(d)
<1> DEFINE S == DOMAIN f
           e == [x \in S |-> IF x \in DOMAIN d THEN d[x] ELSE 0]
<1>1. \A x \in S : f[x] \in Int /\ e[x] \in Int /\ g[x] = f[x] + e[x]
  OBVIOUS
<1>2. /\ \A x \in DOMAIN d : e[x] \in Int /\ e[x] = d[x]
      /\ \A x \in S \ DOMAIN d : e[x] = 0
  OBVIOUS
<1>3. IsFiniteSet(S) /\ IsFiniteSet(DOMAIN d)
  BY FS_Subset
<1> HIDE DEF e, S
<1>4. SumFunctionOnSet(g, S) = SumFunctionOnSet(f, S) + SumFunctionOnSet(e, S)
  BY <1>1, <1>3, SumPlus
<1>5. SumFunctionOnSet(e, S) = SumFunctionOnSet(e, DOMAIN d)
  BY <1>2, <1>3, SumExtend DEF S
<1>6. SumFunctionOnSet(e, DOMAIN d) = SumFunctionOnSet(d, DOMAIN d)
  BY <1>2, <1>3, SumSame
<1> QED
  BY <1>4, <1>5, <1>6 DEF SumFunction, S

\* New values that are zero do not count.
LEMMA SumFunctionExtend ==
  ASSUME NEW f, NEW g, IsFiniteSet(DOMAIN g), DOMAIN f \subseteq DOMAIN g,
         \A x \in DOMAIN f : f[x] \in Int /\ g[x] = f[x], \A x \in DOMAIN g \ DOMAIN f : g[x] = 0
  PROVE  SumFunction(g) = SumFunction(f)
<1>1. IsFiniteSet(DOMAIN f)
  BY FS_Subset
<1>2. SumFunctionOnSet(g, DOMAIN g) = SumFunctionOnSet(g, DOMAIN f)
  BY SumExtend
<1>3. SumFunctionOnSet(g, DOMAIN f) = SumFunctionOnSet(f, DOMAIN f)
  BY <1>1, SumSame
<1> QED
  BY <1>2, <1>3 DEF SumFunction

\* Values that grow, and new naturals, make the sum grow.
LEMMA SumFunctionMonotone ==
  ASSUME NEW f, NEW g, IsFiniteSet(DOMAIN g), DOMAIN f \subseteq DOMAIN g,
         \A x \in DOMAIN f : f[x] \in Nat /\ f[x] <= g[x], \A x \in DOMAIN g : g[x] \in Nat
  PROVE  SumFunction(f) <= SumFunction(g)
<1> DEFINE e == [x \in DOMAIN g |-> IF x \in DOMAIN f THEN f[x] ELSE 0]
<1>1. /\ \A x \in DOMAIN g : e[x] \in Int /\ g[x] \in Int /\ e[x] <= g[x]
      /\ \A x \in DOMAIN f : f[x] \in Int /\ e[x] = f[x]
      /\ \A x \in DOMAIN g \ DOMAIN f : e[x] = 0
      /\ DOMAIN e = DOMAIN g
  OBVIOUS
<1> HIDE DEF e
<1>2. SumFunctionOnSet(e, DOMAIN g) <= SumFunctionOnSet(g, DOMAIN g)
  BY <1>1, SumMonotone
<1>3. SumFunction(e) = SumFunction(f)
  BY <1>1, SumFunctionExtend
<1> QED
  BY <1>1, <1>2, <1>3 DEF SumFunction

\* A sum of naturals is one.
LEMMA SumFunctionNat ==
  ASSUME NEW f, IsFiniteSet(DOMAIN f), \A x \in DOMAIN f : f[x] \in Nat
  PROVE  SumFunction(f) \in Nat
BY SumNat DEF SumFunction

=============================================================================
