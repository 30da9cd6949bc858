------------------------------ MODULE SumTheorems ------------------------------
(***************************************************************************)
(* Induction over finite sets and the naturals, and what it says of sums.  *)
(*                                                                         *)
(* The induction theorems of the library have a predicate as a parameter.  *)
(* Here what is to be shown is a set G instead: of the subsets, or of the  *)
(* numbers, that have the property.  They follow from the minimal element  *)
(* that the library gives every set of a well-founded relation.            *)
(*                                                                         *)
(* A loss is a sum over the records of a ledger, the claims of a report or *)
(* the intents of a period: SumFunctionOnSet, whose recursion is justified *)
(* first.                                                                  *)
(***************************************************************************)
EXTENDS Functions, Integers, FiniteSetTheorems, WellFoundedInduction, TLAPS

\* A set of subsets that contains each one whose proper subsets it contains.
LEMMA SubsetInduction ==
  ASSUME NEW S, IsFiniteSet(S), NEW G,
         ASSUME NEW T \in SUBSET S, \A U \in SUBSET T : U # T => U \in G
         PROVE  T \in G
  PROVE  S \in G
<1> DEFINE Bad == (SUBSET S) \ G
<1> SUFFICES ASSUME S \notin G PROVE FALSE
  OBVIOUS
<1>1. IsWellFoundedOn(StrictSubsetOrdering(S), SUBSET S)
  <2>1. FiniteSubsetsOf(S) = SUBSET S
    BY FS_FiniteSubsetsOfFinite
  <2>2. IsWellFoundedOn(StrictSubsetOrdering(S), FiniteSubsetsOf(S))
    BY FS_StrictSubsetOrderingWellFounded
  <2> QED BY <2>1, <2>2
<1>2. Bad \subseteq SUBSET S /\ Bad # {}
  OBVIOUS
<1>3. PICK T \in Bad : \A U \in Bad : ~(<<U, T>> \in StrictSubsetOrdering(S))
  <2> HIDE DEF Bad
  <2> QED BY <1>1, <1>2, WFMin
<1>4. \A U \in SUBSET T : U # T => U \in G
  BY <1>3 DEF StrictSubsetOrdering
<1> QED BY <1>3, <1>4

--------------------------------------------------------------------------------
(* The sum as a recursive function.                                        *)

Pick(s) == CHOOSE x \in s : TRUE

\* g gives the sum of f over every subset of S.
IsIter(g, f, S) ==
  g = [s \in SUBSET S |-> IF s = {} THEN 0 ELSE f[Pick(s)] + g[s \ {Pick(s)}]]

\* The definition of the sum, with its recursive function named.
LEMMA SumDef ==
  ASSUME NEW f, NEW S
  PROVE  SumFunctionOnSet(f, S) = (CHOOSE g : IsIter(g, f, S))[S]
BY Zenon DEF SumFunctionOnSet, FoldFunctionOnSet, MapThenFoldSet, IsIter, Pick

\* What is picked from a set is in it.
LEMMA PickIn == \A s : s # {} => Pick(s) \in s
BY DEF Pick

\* One step of the recursion.
LEMMA IterStep ==
  ASSUME NEW f, NEW S, NEW g, IsIter(g, f, S)
  PROVE  \A s \in SUBSET S : g[s] = IF s = {} THEN 0 ELSE f[Pick(s)] + g[s \ {Pick(s)}]
BY Zenon DEF IsIter

\* The recursions over a set and over a part of it agree on the part.
LEMMA IterUnique ==
  ASSUME NEW f, NEW S, IsFiniteSet(S), NEW T \in SUBSET S,
         NEW g, IsIter(g, f, S), NEW h, IsIter(h, f, T)
  PROVE  g[T] = h[T]
<1> DEFINE Same == {U \in SUBSET T : g[U] = h[U]}
<1>1. IsFiniteSet(T)
  BY FS_Subset
<1>2. \A U \in SUBSET S : g[U] = IF U = {} THEN 0 ELSE f[Pick(U)] + g[U \ {Pick(U)}]
  BY IterStep
<1>3. \A U \in SUBSET T : h[U] = IF U = {} THEN 0 ELSE f[Pick(U)] + h[U \ {Pick(U)}]
  BY IterStep
<1>4. ASSUME NEW U \in SUBSET T, \A V \in SUBSET U : V # U => V \in Same
      PROVE  U \in Same
  <2>0. U \in SUBSET S
    OBVIOUS
  <2>1. /\ g[U] = IF U = {} THEN 0 ELSE f[Pick(U)] + g[U \ {Pick(U)}]
        /\ h[U] = IF U = {} THEN 0 ELSE f[Pick(U)] + h[U \ {Pick(U)}]
    BY <1>2, <1>3, <2>0
  <2>2. U # {} => g[U \ {Pick(U)}] = h[U \ {Pick(U)}]
    BY <1>4, PickIn
  <2> QED BY <2>1, <2>2
<1>5. T \in Same
  <2> HIDE DEF Same
  <2> QED BY <1>1, <1>4, SubsetInduction
<1> QED BY <1>5

\* Over a finite set there is such a function.
LEMMA IterExists ==
  ASSUME NEW f, NEW S, IsFiniteSet(S)
  PROVE  \E g : IsIter(g, f, S)
<1> DEFINE Good  == {T \in SUBSET S : \E g : IsIter(g, f, T)}
           Sum(T) == SumFunctionOnSet(f, T)
<1>1. ASSUME NEW T \in SUBSET S, \A U \in SUBSET T : U # T => U \in Good
      PROVE  T \in Good
  <2> DEFINE g == [s \in SUBSET T |->
                     IF s = {} THEN 0 ELSE f[Pick(s)] + Sum(s \ {Pick(s)})]
  <2>1. ASSUME NEW U \in SUBSET T, U # T
        PROVE  Sum(U) = g[U]
    <3>1. PICK h : h = (CHOOSE i : IsIter(i, f, U)) /\ IsIter(h, f, U)
      BY <1>1, <2>1
    <3>2. Sum(U) = h[U]
      BY <3>1, SumDef
    <3>3. h[U] = IF U = {} THEN 0 ELSE f[Pick(U)] + h[U \ {Pick(U)}]
      BY <3>1, IterStep
    <3>4. CASE U # {}
      <4> DEFINE V == U \ {Pick(U)}
      <4>1. V \in SUBSET U /\ V \in SUBSET T /\ V # T
        BY <2>1, <3>4, PickIn
      <4>2. PICK i : i = (CHOOSE j : IsIter(j, f, V)) /\ IsIter(i, f, V)
        BY <1>1, <4>1
      <4>3. Sum(V) = i[V]
        BY <4>2, SumDef
      <4>4. IsFiniteSet(U)
        BY FS_Subset
      <4>5. h[V] = i[V]
        <5> HIDE DEF V
        <5> QED BY <3>1, <4>1, <4>2, <4>4, IterUnique
      <4> QED BY <3>2, <3>3, <3>4, <4>3, <4>5
    <3> QED BY <3>2, <3>3, <3>4
  <2>2. ASSUME NEW s \in SUBSET T, s # {}
        PROVE  g[s \ {Pick(s)}] = Sum(s \ {Pick(s)})
    <3>1. s \ {Pick(s)} \in SUBSET T /\ s \ {Pick(s)} # T
      BY <2>2, PickIn
    <3> HIDE DEF Sum, g
    <3> QED BY <2>1, <3>1
  <2>3. IsIter(g, f, T)
    <3>1. g = [s \in SUBSET T |-> IF s = {} THEN 0 ELSE f[Pick(s)] + g[s \ {Pick(s)}]]
      <4>1. \A s \in SUBSET T :
              (IF s = {} THEN 0 ELSE f[Pick(s)] + Sum(s \ {Pick(s)}))
                = (IF s = {} THEN 0 ELSE f[Pick(s)] + g[s \ {Pick(s)}])
        BY <2>2
      <4> HIDE DEF Sum
      <4> QED BY <4>1
    <3> QED BY <3>1 DEF IsIter
  <2> HIDE DEF g
  <2> QED BY <2>3
<1>2. S \in Good
  <2> HIDE DEF Good
  <2> QED BY <1>1, SubsetInduction
<1> QED BY <1>2

--------------------------------------------------------------------------------

(* Sums.                                                                   *)

\* The sum over nothing.
LEMMA SumEmpty ==
  ASSUME NEW f
  PROVE  SumFunctionOnSet(f, {}) = 0
<1>1. PICK g : g = (CHOOSE h : IsIter(h, f, {})) /\ IsIter(g, f, {})
  BY IterExists, FS_EmptySet
<1>2. g[{}] = 0
  BY <1>1, IterStep
<1> QED BY <1>1, <1>2, SumDef

\* The sum takes out one element after the other.
LEMMA SumUnfold ==
  ASSUME NEW f, NEW S, IsFiniteSet(S), S # {}
  PROVE  SumFunctionOnSet(f, S) = f[Pick(S)] + SumFunctionOnSet(f, S \ {Pick(S)})
<1> DEFINE T == S \ {Pick(S)}
<1>1. PICK g : g = (CHOOSE i : IsIter(i, f, S)) /\ IsIter(g, f, S)
  BY IterExists
<1>2. T \in SUBSET S /\ IsFiniteSet(T)
  BY FS_Subset
<1>3. PICK h : h = (CHOOSE i : IsIter(i, f, T)) /\ IsIter(h, f, T)
  <2> HIDE DEF T
  <2> QED BY <1>2, IterExists
<1>4. g[T] = h[T]
  <2> HIDE DEF T
  <2> QED BY <1>1, <1>2, <1>3, IterUnique
<1>5. g[S] = f[Pick(S)] + g[T]
  BY <1>1, IterStep
<1>6. SumFunctionOnSet(f, S) = g[S] /\ SumFunctionOnSet(f, T) = h[T]
  BY <1>1, <1>3, SumDef
<1> QED BY <1>4, <1>5, <1>6

\* A sum of integers is one.
LEMMA SumInt ==
  ASSUME NEW f, NEW S, IsFiniteSet(S), \A x \in S : f[x] \in Int
  PROVE  SumFunctionOnSet(f, S) \in Int
<1> DEFINE G == {T \in SUBSET S : SumFunctionOnSet(f, T) \in Int}
<1>1. ASSUME NEW T \in SUBSET S, \A U \in SUBSET T : U # T => U \in G
      PROVE  T \in G
  <2>1. CASE T = {}
    BY <2>1, SumEmpty
  <2>2. CASE T # {}
    <3>1. IsFiniteSet(T)
      BY FS_Subset
    <3>2. SumFunctionOnSet(f, T \ {Pick(T)}) \in Int
      BY <1>1, <2>2, PickIn
    <3>3. f[Pick(T)] \in Int
      BY <2>2, PickIn
    <3> QED BY <2>2, <3>1, <3>2, <3>3, SumUnfold
  <2> QED BY <2>1, <2>2
<1>2. S \in G
  <2> HIDE DEF G
  <2> QED BY <1>1, SubsetInduction
<1> QED BY <1>2

\* An element can be taken out first, whichever it is.
LEMMA SumRemove ==
  ASSUME NEW f, NEW S, IsFiniteSet(S), \A x \in S : f[x] \in Int, NEW y \in S
  PROVE  SumFunctionOnSet(f, S) = f[y] + SumFunctionOnSet(f, S \ {y})
<1> DEFINE Sum(T) == SumFunctionOnSet(f, T)
           G == {T \in SUBSET S : \A x \in T : Sum(T) = f[x] + Sum(T \ {x})}
<1>1. ASSUME NEW T \in SUBSET S, \A U \in SUBSET T : U # T => U \in G
      PROVE  T \in G
  <2> SUFFICES ASSUME NEW x \in T PROVE Sum(T) = f[x] + Sum(T \ {x})
    OBVIOUS
  <2> DEFINE p == Pick(T)
  <2>1. p \in T /\ IsFiniteSet(T) /\ Sum(T) = f[p] + Sum(T \ {p})
    BY PickIn, FS_Subset, SumUnfold
  <2>2. \A U \in SUBSET T : IsFiniteSet(U) /\ Sum(U) \in Int
    BY FS_Subset, SumInt, <2>1
  <2>3. CASE x # p
    <3>1. Sum(T \ {p}) = f[x] + Sum((T \ {p}) \ {x})
      BY <1>1, <2>1, <2>3
    <3>2. Sum(T \ {x}) = f[p] + Sum((T \ {x}) \ {p})
      BY <1>1, <2>1, <2>3
    <3>3. (T \ {p}) \ {x} = (T \ {x}) \ {p} /\ (T \ {p}) \ {x} \in SUBSET T
      OBVIOUS
    <3>4. f[x] \in Int /\ f[p] \in Int /\ Sum((T \ {p}) \ {x}) \in Int
      BY <2>1, <2>2, <3>3
    <3> DEFINE rest == Sum((T \ {p}) \ {x})
    <3>5. Sum(T) = f[p] + (f[x] + rest)
      BY <2>1, <3>1
    <3>6. Sum(T \ {x}) = f[p] + rest
      BY <3>2, <3>3
    <3> HIDE DEF p, Sum, rest
    <3>7. f[x] \in Int /\ f[p] \in Int /\ rest \in Int
      BY <3>4 DEF rest
    <3>8. f[p] + (f[x] + rest) = f[x] + (f[p] + rest)
      BY <3>7
    <3> QED BY <3>5, <3>6, <3>8
  <2>4. CASE x = p
    BY <2>1, <2>4
  <2> QED BY <2>3, <2>4
<1>2. S \in G
  <2> HIDE DEF G
  <2> QED BY <1>1, SubsetInduction
<1> QED BY <1>2

\* One summand more.
LEMMA SumAdd ==
  ASSUME NEW f, NEW S, IsFiniteSet(S), NEW y, y \notin S,
         \A x \in S \cup {y} : f[x] \in Int
  PROVE  SumFunctionOnSet(f, S \cup {y}) = f[y] + SumFunctionOnSet(f, S)
<1> DEFINE T == S \cup {y}
<1>1. IsFiniteSet(T)
  BY FS_AddElement
<1>2. y \in T /\ T \ {y} = S /\ \A x \in T : f[x] \in Int
  OBVIOUS
<1> HIDE DEF T
<1>3. SumFunctionOnSet(f, T) = f[y] + SumFunctionOnSet(f, T \ {y})
  BY <1>1, <1>2, SumRemove
<1> QED BY <1>2, <1>3 DEF T

\* A single summand.
LEMMA SumSingle ==
  ASSUME NEW f, NEW y, f[y] \in Int
  PROVE  SumFunctionOnSet(f, {y}) = f[y]
<1>1. SumFunctionOnSet(f, {} \cup {y}) = f[y] + SumFunctionOnSet(f, {})
  BY SumAdd, FS_EmptySet
<1>2. {} \cup {y} = {y}
  OBVIOUS
<1> QED BY <1>1, <1>2, SumEmpty

\* A sum over two parts that share nothing.
LEMMA SumSplit ==
  ASSUME NEW f, NEW S, NEW T, IsFiniteSet(S), IsFiniteSet(T), S \cap T = {},
         \A x \in S \cup T : f[x] \in Int
  PROVE  SumFunctionOnSet(f, S \cup T) = SumFunctionOnSet(f, S) + SumFunctionOnSet(f, T)
<1> DEFINE Sum(U) == SumFunctionOnSet(f, U)
           G == {U \in SUBSET T : Sum(S \cup U) = Sum(S) + Sum(U)}
<1>1. ASSUME NEW U \in SUBSET T, \A V \in SUBSET U : V # U => V \in G
      PROVE  U \in G
  <2>1. IsFiniteSet(U) /\ Sum(S) \in Int
    BY FS_Subset, SumInt
  <2>2. CASE U = {}
    <3>1. S \cup U = S /\ Sum(U) = 0
      BY <2>2, SumEmpty
    <3> HIDE DEF Sum
    <3> QED BY <2>1, <2>2, <3>1
  <2>3. CASE U # {}
    <3>1. PICK y : y \in U
      BY <2>3
    <3> DEFINE V == U \ {y}
    <3>2. V \in SUBSET U /\ V # U /\ IsFiniteSet(V) /\ IsFiniteSet(S \cup V)
      BY <2>1, <3>1, FS_Subset, FS_Union
    <3>3. Sum(S \cup V) = Sum(S) + Sum(V)
      BY <1>1, <3>2
    <3>4. Sum(U) = f[y] + Sum(V)
      BY <2>1, <3>1, SumRemove
    <3>5. Sum((S \cup V) \cup {y}) = f[y] + Sum(S \cup V)
      <4>1. y \notin S \cup V /\ \A x \in (S \cup V) \cup {y} : f[x] \in Int
        BY <3>1
      <4> HIDE DEF V
      <4> QED BY <3>2, <4>1, SumAdd
    <3>6. (S \cup V) \cup {y} = S \cup U
      BY <3>1
    <3>7. f[y] \in Int /\ Sum(V) \in Int
      <4>1. \A x \in V : f[x] \in Int
        OBVIOUS
      <4> HIDE DEF V
      <4> QED BY <3>1, <3>2, <4>1, SumInt
    <3>8. Sum(S \cup U) = f[y] + (Sum(S) + Sum(V))
      BY <3>3, <3>5, <3>6
    <3> HIDE DEF Sum, V
    <3>9. f[y] + (Sum(S) + Sum(V)) = Sum(S) + (f[y] + Sum(V))
      BY <2>1, <3>7
    <3> QED BY <3>4, <3>8, <3>9
  <2> QED BY <2>2, <2>3
<1>2. T \in G
  <2> HIDE DEF G
  <2> QED BY <1>1, SubsetInduction
<1> QED BY <1>2

\* Equal summands, equal sums.
LEMMA SumSame ==
  ASSUME NEW f, NEW g, NEW S, IsFiniteSet(S), \A x \in S : f[x] = g[x]
  PROVE  SumFunctionOnSet(f, S) = SumFunctionOnSet(g, S)
<1> DEFINE G == {T \in SUBSET S : SumFunctionOnSet(f, T) = SumFunctionOnSet(g, T)}
<1>1. ASSUME NEW T \in SUBSET S, \A U \in SUBSET T : U # T => U \in G
      PROVE  T \in G
  <2>1. CASE T = {}
    BY <2>1, SumEmpty
  <2>2. CASE T # {}
    <3>1. IsFiniteSet(T) /\ Pick(T) \in T
      BY <2>2, FS_Subset, PickIn
    <3>2. SumFunctionOnSet(f, T \ {Pick(T)}) = SumFunctionOnSet(g, T \ {Pick(T)})
      BY <1>1, <3>1
    <3>3. /\ SumFunctionOnSet(f, T) = f[Pick(T)] + SumFunctionOnSet(f, T \ {Pick(T)})
          /\ SumFunctionOnSet(g, T) = g[Pick(T)] + SumFunctionOnSet(g, T \ {Pick(T)})
      BY <2>2, <3>1, SumUnfold
    <3> QED BY <3>1, <3>2, <3>3
  <2> QED BY <2>1, <2>2
<1>2. S \in G
  <2> HIDE DEF G
  <2> QED BY <1>1, SubsetInduction
<1> QED BY <1>2

\* Sums are linear.
LEMMA SumLinear ==
  ASSUME NEW f, NEW g, NEW h, NEW k \in Int, NEW S, IsFiniteSet(S),
         \A x \in S : f[x] \in Int /\ g[x] \in Int /\ h[x] = f[x] + k * g[x]
  PROVE  SumFunctionOnSet(h, S) = SumFunctionOnSet(f, S) + k * SumFunctionOnSet(g, S)
<1> DEFINE F(T) == SumFunctionOnSet(f, T)
           G(T) == SumFunctionOnSet(g, T)
           H(T) == SumFunctionOnSet(h, T)
           Good == {T \in SUBSET S : H(T) = F(T) + k * G(T)}
<1>1. ASSUME NEW T \in SUBSET S, \A U \in SUBSET T : U # T => U \in Good
      PROVE  T \in Good
  <2>1. CASE T = {}
    <3>1. F(T) = 0 /\ G(T) = 0 /\ H(T) = 0
      BY <2>1, SumEmpty
    <3> HIDE DEF F, G, H
    <3> QED BY <3>1
  <2>2. CASE T # {}
    <3> DEFINE p == Pick(T)
               U == T \ {p}
    <3>1. IsFiniteSet(T) /\ p \in T /\ IsFiniteSet(U)
      BY <2>2, FS_Subset, PickIn
    <3>2. H(U) = F(U) + k * G(U)
      BY <1>1, <3>1
    <3>3. F(T) = f[p] + F(U) /\ G(T) = g[p] + G(U) /\ H(T) = h[p] + H(U)
      BY <2>2, <3>1, SumUnfold
    <3>4. F(U) \in Int /\ G(U) \in Int
      <4>1. \A x \in U : f[x] \in Int /\ g[x] \in Int
        OBVIOUS
      <4> QED BY <3>1, <4>1, SumInt
    <3>5. f[p] \in Int /\ g[p] \in Int /\ h[p] = f[p] + k * g[p]
      BY <3>1
    <3> HIDE DEF F, G, H, p, U
    <3>6. k * (g[p] + G(U)) = k * g[p] + k * G(U) /\ k * g[p] \in Int /\ k * G(U) \in Int
      BY <3>4, <3>5
    <3>7. H(T) = F(T) + k * G(T)
      BY <3>2, <3>3, <3>4, <3>5, <3>6
    <3> QED BY <3>7
  <2> QED BY <2>1, <2>2
<1>2. S \in Good
  <2> HIDE DEF Good
  <2> QED BY <1>1, SubsetInduction
<1> QED BY <1>2

\* Larger summands, larger sum.
LEMMA SumMonotone ==
  ASSUME NEW f, NEW g, NEW S, IsFiniteSet(S),
         \A x \in S : f[x] \in Int /\ g[x] \in Int /\ f[x] <= g[x]
  PROVE  SumFunctionOnSet(f, S) <= SumFunctionOnSet(g, S)
<1> DEFINE G == {T \in SUBSET S : SumFunctionOnSet(f, T) <= SumFunctionOnSet(g, T)}
<1>1. ASSUME NEW T \in SUBSET S, \A U \in SUBSET T : U # T => U \in G
      PROVE  T \in G
  <2>1. CASE T = {}
    BY <2>1, SumEmpty
  <2>2. CASE T # {}
    <3> DEFINE p == Pick(T)
               U == T \ {p}
    <3>1. IsFiniteSet(T) /\ p \in T /\ IsFiniteSet(U)
      BY <2>2, FS_Subset, PickIn
    <3>2. SumFunctionOnSet(f, U) <= SumFunctionOnSet(g, U)
      BY <1>1, <3>1
    <3>3. /\ SumFunctionOnSet(f, T) = f[p] + SumFunctionOnSet(f, U)
          /\ SumFunctionOnSet(g, T) = g[p] + SumFunctionOnSet(g, U)
      BY <2>2, <3>1, SumUnfold
    <3>4. /\ f[p] \in Int /\ g[p] \in Int /\ f[p] <= g[p]
          /\ \A x \in U : f[x] \in Int /\ g[x] \in Int
      BY <3>1
    <3> HIDE DEF p, U
    <3>5. SumFunctionOnSet(f, U) \in Int /\ SumFunctionOnSet(g, U) \in Int
      BY <3>1, <3>4, SumInt
    <3> QED BY <3>2, <3>3, <3>4, <3>5
  <2> QED BY <2>1, <2>2
<1>2. S \in G
  <2> HIDE DEF G
  <2> QED BY <1>1, SubsetInduction
<1> QED BY <1>2

\* Zeros add up to zero.
LEMMA SumZero ==
  ASSUME NEW f, NEW S, IsFiniteSet(S), \A x \in S : f[x] = 0
  PROVE  SumFunctionOnSet(f, S) = 0
<1> DEFINE G == {T \in SUBSET S : SumFunctionOnSet(f, T) = 0}
<1>1. ASSUME NEW T \in SUBSET S, \A U \in SUBSET T : U # T => U \in G
      PROVE  T \in G
  <2>1. CASE T = {}
    BY <2>1, SumEmpty
  <2>2. CASE T # {}
    <3>1. IsFiniteSet(T) /\ Pick(T) \in T
      BY <2>2, FS_Subset, PickIn
    <3>2. SumFunctionOnSet(f, T \ {Pick(T)}) = 0
      BY <1>1, <3>1
    <3>3. SumFunctionOnSet(f, T) = f[Pick(T)] + SumFunctionOnSet(f, T \ {Pick(T)})
      BY <2>2, <3>1, SumUnfold
    <3> QED BY <3>1, <3>2, <3>3
  <2> QED BY <2>1, <2>2
<1>2. S \in G
  <2> HIDE DEF G
  <2> QED BY <1>1, SubsetInduction
<1> QED BY <1>2

\* A sum of naturals is one.
LEMMA SumNat ==
  ASSUME NEW f, NEW S, IsFiniteSet(S), \A x \in S : f[x] \in Nat
  PROVE  SumFunctionOnSet(f, S) \in Nat
<1> DEFINE zero == [x \in S |-> 0]
<1>1. SumFunctionOnSet(zero, S) = 0
  BY SumZero
<1>2. SumFunctionOnSet(zero, S) <= SumFunctionOnSet(f, S)
  <2>1. \A x \in S : zero[x] \in Int /\ f[x] \in Int /\ zero[x] <= f[x]
    OBVIOUS
  <2> HIDE DEF zero
  <2> QED BY <2>1, SumMonotone
<1>3. SumFunctionOnSet(f, S) \in Int
  BY SumInt
<1> QED BY <1>1, <1>2, <1>3

\* A part of a sum of naturals.
LEMMA SumPart ==
  ASSUME NEW f, NEW S, IsFiniteSet(S), \A x \in S : f[x] \in Nat, NEW T \in SUBSET S
  PROVE  /\ SumFunctionOnSet(f, T) \in Nat
         /\ SumFunctionOnSet(f, T) <= SumFunctionOnSet(f, S)
<1> DEFINE rest == S \ T
<1>1. /\ IsFiniteSet(T) /\ IsFiniteSet(rest) /\ T \cap rest = {} /\ S = T \cup rest
      /\ \A x \in T \cup rest : f[x] \in Nat /\ f[x] \in Int
  BY FS_Subset
<1> HIDE DEF rest
<1>2. SumFunctionOnSet(f, T \cup rest) = SumFunctionOnSet(f, T) + SumFunctionOnSet(f, rest)
  BY <1>1, SumSplit
<1>3. SumFunctionOnSet(f, T) \in Nat /\ SumFunctionOnSet(f, rest) \in Nat
  BY <1>1, SumNat
<1> QED BY <1>1, <1>2, <1>3

\* A summand of a sum of naturals.
LEMMA SumMember ==
  ASSUME NEW f, NEW S, IsFiniteSet(S), \A x \in S : f[x] \in Nat, NEW y \in S
  PROVE  f[y] <= SumFunctionOnSet(f, S)
<1>1. {y} \in SUBSET S /\ f[y] \in Int
  OBVIOUS
<1>2. SumFunctionOnSet(f, {y}) <= SumFunctionOnSet(f, S)
  BY <1>1, SumPart
<1> QED BY <1>1, <1>2, SumSingle

\* Elements that add nothing can be left out.
LEMMA SumSupport ==
  ASSUME NEW f, NEW S, IsFiniteSet(S), \A x \in S : f[x] \in Int, NEW T \in SUBSET S,
         \A x \in S \ T : f[x] = 0
  PROVE  SumFunctionOnSet(f, T) = SumFunctionOnSet(f, S)
<1> DEFINE rest == S \ T
<1>1. /\ IsFiniteSet(T) /\ IsFiniteSet(rest) /\ T \cap rest = {} /\ S = T \cup rest
      /\ \A x \in T \cup rest : f[x] \in Int
      /\ \A x \in rest : f[x] = 0
  BY FS_Subset
<1> HIDE DEF rest
<1>2. SumFunctionOnSet(f, T \cup rest) = SumFunctionOnSet(f, T) + SumFunctionOnSet(f, rest)
  BY <1>1, SumSplit
<1>3. SumFunctionOnSet(f, T) \in Int /\ SumFunctionOnSet(f, rest) = 0
  BY <1>1, SumInt, SumZero
<1> QED BY <1>1, <1>2, <1>3

--------------------------------------------------------------------------------
(* The naturals.                                                           *)

\* Every set of naturals that is not empty has a least element.
LEMMA LeastNatural ==
  ASSUME NEW S, S \subseteq Nat, S # {}
  PROVE  \E n \in S : \A m \in S : n <= m
<1> DEFINE Less == OpToRel(<, Nat)
<1>1. \A m, n \in Nat : <<m, n>> \in Less <=> m < n
  BY DEF OpToRel
<1>2. IsWellFoundedOn(Less, Nat)
  BY NatLessThanWellFounded
<1> HIDE DEF Less
<1>3. PICK n \in S : \A m \in S : ~(<<m, n>> \in Less)
  BY <1>2, WFMin
<1>4. ASSUME NEW m \in S PROVE n <= m
  <2>1. m \in Nat /\ n \in Nat
    OBVIOUS
  <2>2. ~(m < n)
    BY <1>1, <1>3, <2>1
  <2> QED BY <2>1, <2>2
<1> QED BY <1>4

\* Induction over the naturals, for a set of them.
LEMMA NaturalInduction ==
  ASSUME NEW G, 0 \in G, \A n \in Nat : n \in G => n + 1 \in G
  PROVE  Nat \subseteq G
<1> SUFFICES ASSUME NEW k \in Nat, k \notin G PROVE FALSE
  OBVIOUS
<1> DEFINE Bad == Nat \ G
<1>1. PICK n \in Bad : \A m \in Bad : n <= m
  <2>1. Bad \subseteq Nat /\ Bad # {}
    OBVIOUS
  <2> HIDE DEF Bad
  <2> QED BY <2>1, LeastNatural
<1>2. n # 0 /\ n - 1 \in Nat /\ (n - 1) + 1 = n
  BY <1>1
<1>3. n - 1 \in Bad
  BY <1>1, <1>2
<1> QED BY <1>1, <1>2, <1>3

================================================================================
