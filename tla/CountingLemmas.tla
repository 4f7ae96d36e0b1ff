--------------------------- MODULE CountingLemmas ---------------------------
(***************************************************************************)
(* Facts about numbers, finite sets and sums that the proofs about several *)
(* components need.  They are shown by least counterexamples: the          *)
(* induction theorems of the library take an operator as a parameter,      *)
(* those on well-founded relations do not.                                 *)
(***************************************************************************)
EXTENDS Integers, Functions, FiniteSetTheorems, NaturalsInduction, TLAPS

-----------------------------------------------------------------------------
(* Least and greatest members.                                             *)

\* A nonempty set of natural numbers has a least one: the order is well-founded.
LEMMA LeastNatural ==
  ASSUME NEW S \in SUBSET Nat, S # {}
  PROVE  \E n \in S : \A m \in S : n <= m
<1> DEFINE Below == {pair \in Nat \X Nat : pair[1] < pair[2]}
<1>1. IsWellFoundedOn(Below, Nat)
  BY NatLessThanWellFounded DEF OpToRel
<1>2. S \subseteq Nat
  OBVIOUS
<1>3. \E n \in S : \A m \in S : ~ (<<m, n>> \in Below)
  <2> HIDE DEF Below
  <2> QED
    BY <1>1, <1>2, WFMin
<1>4. PICK n \in S : \A m \in S : ~ (<<m, n>> \in Below)
  BY <1>3
<1>5. ASSUME NEW m \in S, m < n PROVE FALSE
  <2>1. m \in Nat /\ n \in Nat
    OBVIOUS
  <2>2. <<m, n>> \in Below
    BY <1>5, <2>1
  <2> QED
    BY <1>4, <2>2
<1>6. \A m \in S : n <= m
  BY <1>5
<1> QED
  BY <1>6

\* Among the subsets of a finite set that are bad, one has no smaller one that is.
LEMMA MinimalSubset ==
  ASSUME NEW S, IsFiniteSet(S), NEW Bad \in SUBSET (SUBSET S), Bad # {}
  PROVE  \E T \in Bad : IsFiniteSet(T) /\ \A U \in SUBSET T : U # T => U \notin Bad
<1>1. FiniteSubsetsOf(S) = SUBSET S
  BY FS_FiniteSubsetsOfFinite
<1>2. IsWellFoundedOn(StrictSubsetOrdering(S), FiniteSubsetsOf(S))
  BY FS_StrictSubsetOrderingWellFounded
<1>3. PICK T \in Bad : \A U \in Bad : ~ (<<U, T>> \in StrictSubsetOrdering(S))
  BY <1>1, <1>2, WFMin
<1>4. \A U \in SUBSET T : U # T => <<U, T>> \in StrictSubsetOrdering(S)
  BY DEF StrictSubsetOrdering
<1>5. \A U \in SUBSET T : U # T => U \notin Bad
  BY <1>3, <1>4
<1>6. IsFiniteSet(T)
  BY FS_Subset
<1> QED
  BY <1>5, <1>6

\* A nonempty finite set of natural numbers has a greatest one.
LEMMA GreatestNatural ==
  ASSUME NEW S \in SUBSET Nat, IsFiniteSet(S), S # {}
  PROVE  \E n \in S : \A m \in S : m <= n
<1> DEFINE Unbounded(T) == T # {} /\ \A n \in T : \E m \in T : m > n
           Bad == {T \in SUBSET S : Unbounded(T)}
<1>1. ASSUME Bad # {} PROVE FALSE
  <2>1. PICK T \in Bad : \A U \in SUBSET T : U # T => U \notin Bad
    <3>1. Bad \in SUBSET (SUBSET S)
      OBVIOUS
    <3> HIDE DEF Bad
    <3> QED
      BY <1>1, <3>1, MinimalSubset
  <2>2. T \in SUBSET S /\ T # {} /\ T \subseteq Nat /\ Unbounded(T)
    OBVIOUS
  <2>3. PICK x \in T : TRUE
    BY <2>2
  <2>4. ~ Unbounded(T \ {x})
    BY <2>1, <2>2, <2>3
  <2> QED
    BY <2>2, <2>3, <2>4
<1>2. ~ Unbounded(S)
  BY <1>1
<1>3. PICK n \in S : \A m \in S : ~ (m > n)
  BY <1>2
<1> QED
  BY <1>3

\* The image of a finite set under a function.
LEMMA FiniteRange ==
  ASSUME NEW S, IsFiniteSet(S), NEW f, f = [x \in S |-> f[x]]
  PROVE  IsFiniteSet({f[x] : x \in S})
<1>1. f \in Surjection(S, {f[x] : x \in S})
  BY DEF Surjection
<1> QED
  BY <1>1, FS_Surjection

-----------------------------------------------------------------------------
(* Folds with + and with *.                                                *)

\* The folds over the subsets of S, from the next step of one.
FoldStep(kind, f, folds, s) ==
  IF s = {} THEN IF kind = "sum" THEN 0 ELSE 1
  ELSE LET first == f[CHOOSE x \in s : TRUE]
           rest  == folds[s \ {CHOOSE x \in s : TRUE}]
       IN  IF kind = "sum" THEN first + rest ELSE first * rest

IsFold(kind, f, S, folds) == folds = [s \in SUBSET S |-> FoldStep(kind, f, folds, s)]

Folds(kind, f, S) == CHOOSE folds : IsFold(kind, f, S, folds)

\* The fold of a finite set is well defined: one more element at a time.
LEMMA FoldsExist ==
  ASSUME NEW kind, NEW f, NEW S, IsFiniteSet(S)
  PROVE  IsFold(kind, f, S, Folds(kind, f, S))
<1> DEFINE Small(n) == {s \in SUBSET S : Cardinality(s) <= n}
           Reaches(n) == \E folds : folds = [s \in Small(n) |-> FoldStep(kind, f, folds, s)]
           Stuck == {n \in Nat : ~ Reaches(n)}
<1>1. \A s \in SUBSET S : /\ IsFiniteSet(s) /\ Cardinality(s) \in Nat
                          /\ Cardinality(s) <= Cardinality(S)
  BY FS_Subset, FS_CardinalityType
<1>2. ASSUME NEW s \in SUBSET S, s # {}
      PROVE  LET rest == s \ {CHOOSE x \in s : TRUE}
             IN  rest \in SUBSET S /\ Cardinality(rest) = Cardinality(s) - 1
  BY <1>1, <1>2, FS_RemoveElement
<1>3. Reaches(0)
  <2> DEFINE folds == [s \in Small(0) |-> IF kind = "sum" THEN 0 ELSE 1]
  <2>1. \A s \in Small(0) : s = {}
    BY <1>1, FS_EmptySet
  <2>2. folds = [s \in Small(0) |-> FoldStep(kind, f, folds, s)]
    BY <2>1 DEF FoldStep
  <2> HIDE DEF folds
  <2> QED
    BY <2>2
<1>4. ASSUME NEW n \in Nat, Reaches(n) PROVE Reaches(n + 1)
  <2>1. PICK folds : folds = [s \in Small(n) |-> FoldStep(kind, f, folds, s)]
    BY <1>4
  <2> DEFINE more == [s \in Small(n + 1) |->
                        IF s \in Small(n) THEN folds[s] ELSE FoldStep(kind, f, folds, s)]
  <2>2. ASSUME NEW s \in Small(n + 1) PROVE more[s] = FoldStep(kind, f, more, s)
    <3>1. CASE s = {}
      <4>1. more[s] = FoldStep(kind, f, folds, s)
        BY <2>1, <2>2
      <4> QED
        BY <3>1, <4>1 DEF FoldStep
    <3>2. CASE s # {}
      <4> DEFINE rest == s \ {CHOOSE x \in s : TRUE}
      <4>1. rest \in SUBSET S /\ Cardinality(rest) = Cardinality(s) - 1
        BY <1>2, <3>2
      <4>2. rest \in Small(n) /\ rest \in Small(n + 1)
        BY <1>1, <4>1
      <4>3. more[rest] = folds[rest]
        BY <4>2
      <4>4. more[s] = FoldStep(kind, f, folds, s)
        BY <2>1, <2>2
      <4> QED
        BY <3>2, <4>3, <4>4 DEF FoldStep
    <3> QED
      BY <3>1, <3>2
  <2>3. more = [s \in Small(n + 1) |-> more[s]]
    OBVIOUS
  <2> HIDE DEF more, Small
  <2>4. more = [s \in Small(n + 1) |-> FoldStep(kind, f, more, s)]
    BY <2>2, <2>3
  <2> QED
    BY <2>4
<1>5. \A n \in Nat : Reaches(n)
  <2>1. Stuck \in SUBSET Nat
    OBVIOUS
  <2>2. ASSUME Stuck # {} PROVE FALSE
    <3>1. PICK n \in Stuck : \A m \in Stuck : n <= m
      <4> HIDE DEF Stuck
      <4> QED
        BY <2>1, <2>2, LeastNatural
    <3>2. n \in Nat /\ ~ Reaches(n)
      OBVIOUS
    <3>3. n # 0
      BY <1>3, <3>2
    <3>4. n - 1 \in Nat /\ (n - 1) + 1 = n /\ n - 1 < n
      BY <3>2, <3>3
    <3>5. n - 1 \notin Stuck
      <4> HIDE DEF Stuck
      <4> QED
        BY <3>1, <3>2, <3>4
    <3>6. Reaches(n - 1)
      BY <3>4, <3>5
    <3> HIDE DEF Reaches
    <3> QED
      BY <1>4, <3>2, <3>4, <3>6
  <2> QED
    BY <2>2
<1>6. Small(Cardinality(S)) = SUBSET S
  BY <1>1
<1>7. Reaches(Cardinality(S))
  BY <1>1, <1>5
<1>8. \E folds : IsFold(kind, f, S, folds)
  BY <1>6, <1>7 DEF IsFold
<1> HIDE DEF Small, Reaches, Stuck
<1> QED
  BY <1>8 DEF Folds

-----------------------------------------------------------------------------
(* Sums.                                                                   *)

\* The fold a sum is, over the subsets of S.
SumStep(f, sums, s) ==
  IF s = {} THEN 0
  ELSE f[CHOOSE x \in s : TRUE] + sums[s \ {CHOOSE x \in s : TRUE}]

Sums(f, S) == CHOOSE sums : sums = [s \in SUBSET S |-> SumStep(f, sums, s)]

LEMMA SumIsFold ==
  ASSUME NEW f, NEW S
  PROVE  SumFunctionOnSet(f, S) = Sums(f, S)[S]
BY DEF SumFunctionOnSet, FoldFunctionOnSet, MapThenFoldSet, Sums, SumStep

\* A sum is the sum of its parts.
LEMMA SumsExist ==
  ASSUME NEW f, NEW S, IsFiniteSet(S)
  PROVE  \A s \in SUBSET S : Sums(f, S)[s] = SumStep(f, Sums(f, S), s)
<1>1. \A sums, s : FoldStep("sum", f, sums, s) = SumStep(f, sums, s)
  BY DEF FoldStep, SumStep
<1> DEFINE IsSums(sums) == sums = [s \in SUBSET S |-> SumStep(f, sums, s)]
<1>2. \A sums : IsSums(sums) <=> IsFold("sum", f, S, sums)
  BY <1>1 DEF IsFold
<1>3. Sums(f, S) = CHOOSE sums : IsSums(sums)
  BY DEF Sums
<1>4. IsFold("sum", f, S, Folds("sum", f, S))
  BY FoldsExist
<1>5. IsSums(Sums(f, S))
  <2> HIDE DEF IsSums
  <2> QED
    BY <1>2, <1>3, <1>4, Zenon
<1> QED
  BY <1>5

\* A part of a finite set has one sum, whichever set the fold is over.
LEMMA SumOfPart ==
  ASSUME NEW f, NEW S, IsFiniteSet(S), NEW P \in SUBSET S
  PROVE  Sums(f, S)[P] = Sums(f, P)[P]
<1> DEFINE Bad == {T \in SUBSET P : Sums(f, S)[T] # Sums(f, P)[T]}
<1>1. /\ IsFiniteSet(P)
      /\ \A s \in SUBSET S : Sums(f, S)[s] = SumStep(f, Sums(f, S), s)
      /\ \A s \in SUBSET P : Sums(f, P)[s] = SumStep(f, Sums(f, P), s)
  BY SumsExist, FS_Subset
<1>2. ASSUME Bad # {} PROVE FALSE
  <2>1. PICK T \in Bad : \A U \in SUBSET T : U # T => U \notin Bad
    <3>1. Bad \in SUBSET (SUBSET P)
      OBVIOUS
    <3> HIDE DEF Bad
    <3> QED
      BY <1>1, <1>2, <3>1, MinimalSubset
  <2>2. T \in SUBSET P /\ T \in SUBSET S /\ Sums(f, S)[T] # Sums(f, P)[T]
    OBVIOUS
  <2>3. /\ Sums(f, S)[T] = SumStep(f, Sums(f, S), T)
        /\ Sums(f, P)[T] = SumStep(f, Sums(f, P), T)
    BY <1>1, <2>2
  <2>4. T # {}
    BY <2>2, <2>3 DEF SumStep
  <2> DEFINE x == CHOOSE y \in T : TRUE
  <2>5. x \in T /\ T \ {x} \in SUBSET P
    BY <2>2, <2>4
  <2>6. Sums(f, S)[T \ {x}] = Sums(f, P)[T \ {x}]
    BY <2>1, <2>5
  <2> QED
    BY <2>2, <2>3, <2>4, <2>6 DEF SumStep
<1> QED
  BY <1>2

\* What the sum over a set takes from the member it is folded with first.
LEMMA SumOfChosen ==
  ASSUME NEW f, NEW S, IsFiniteSet(S), S # {}
  PROVE  LET x == CHOOSE y \in S : TRUE
         IN  SumFunctionOnSet(f, S) = f[x] + SumFunctionOnSet(f, S \ {x})
<1> DEFINE x == CHOOSE y \in S : TRUE
<1>1. Sums(f, S)[S] = SumStep(f, Sums(f, S), S)
  BY SumsExist
<1>2. Sums(f, S)[S \ {x}] = Sums(f, S \ {x})[S \ {x}]
  BY SumOfPart
<1> QED
  BY <1>1, <1>2, SumIsFold DEF SumStep

\* The sum over nothing is zero.
LEMMA SumOfNothing ==
  ASSUME NEW f
  PROVE  SumFunctionOnSet(f, {}) = 0
<1>1. Sums(f, {})[{}] = SumStep(f, Sums(f, {}), {})
  BY SumsExist, FS_EmptySet
<1> QED
  BY <1>1, SumIsFold DEF SumStep

\* The order of the members does not matter.
LEMMA SumOfMember ==
  ASSUME NEW f, NEW S, IsFiniteSet(S), \A y \in S : f[y] \in Int
  PROVE  /\ SumFunctionOnSet(f, S) \in Int
         /\ \A x \in S : SumFunctionOnSet(f, S) = f[x] + SumFunctionOnSet(f, S \ {x})
<1> DEFINE Sum(T) == SumFunctionOnSet(f, T)
           Good(T) == Sum(T) \in Int /\ \A x \in T : Sum(T) = f[x] + Sum(T \ {x})
           Bad == {T \in SUBSET S : ~ Good(T)}
<1>1. \A T \in SUBSET S : IsFiniteSet(T)
  BY FS_Subset
<1>2. ASSUME Bad # {} PROVE FALSE
  <2>1. PICK T \in Bad : \A U \in SUBSET T : U # T => U \notin Bad
    <3>1. Bad \in SUBSET (SUBSET S)
      OBVIOUS
    <3> HIDE DEF Bad
    <3> QED
      BY <1>2, <3>1, MinimalSubset
  <2>2. T \in SUBSET S /\ ~ Good(T) /\ \A U \in SUBSET T : U # T => Good(U)
    BY <2>1
  <2>3. T # {}
    <3>1. Sum({}) = 0
      BY SumOfNothing
    <3>2. Good({})
      BY <3>1
    <3> QED
      BY <2>2, <3>2
  <2> DEFINE c == CHOOSE y \in T : TRUE
  <2>4. c \in T /\ Sum(T) = f[c] + Sum(T \ {c})
    BY <1>1, <2>2, <2>3, SumOfChosen
  <2>5. Sum(T) \in Int
    <3>1. Good(T \ {c}) /\ f[c] \in Int
      BY <2>2, <2>4
    <3> HIDE DEF Sum
    <3> QED
      BY <2>4, <3>1
  <2>6. ASSUME NEW x \in T, x # c PROVE Sum(T) = f[x] + Sum(T \ {x})
    <3>1. /\ Sum(T \ {c}) = f[x] + Sum((T \ {c}) \ {x})
          /\ Sum(T \ {x}) = f[c] + Sum((T \ {x}) \ {c})
          /\ Sum(T \ {c}) \in Int /\ Sum(T \ {x}) \in Int
      BY <2>2, <2>4, <2>6
    <3>2. (T \ {c}) \ {x} = (T \ {x}) \ {c}
      OBVIOUS
    <3>3. f[c] \in Int /\ f[x] \in Int /\ Sum((T \ {x}) \ {c}) \in Int
      BY <2>2, <2>4, <2>6
    <3>4. Sum(T) = f[c] + (f[x] + Sum((T \ {x}) \ {c}))
      BY <2>4, <3>1, <3>2
    <3>5. f[x] + Sum(T \ {x}) = f[x] + (f[c] + Sum((T \ {x}) \ {c}))
      BY <3>1
    <3> HIDE DEF Sum, c
    <3> QED
      BY <3>3, <3>4, <3>5
  <2> QED
    BY <2>2, <2>4, <2>5, <2>6
<1> QED
  BY <1>2

\* Larger terms make a larger sum.
LEMMA SumMonotone ==
  ASSUME NEW f, NEW g, NEW S, IsFiniteSet(S),
         \A x \in S : f[x] \in Int /\ g[x] \in Int /\ f[x] <= g[x]
  PROVE  SumFunctionOnSet(f, S) <= SumFunctionOnSet(g, S)
<1> DEFINE Bad == {T \in SUBSET S : ~ (SumFunctionOnSet(f, T) <= SumFunctionOnSet(g, T))}
<1>1. \A T \in SUBSET S : IsFiniteSet(T)
  BY FS_Subset
<1>2. ASSUME Bad # {} PROVE FALSE
  <2>1. PICK T \in Bad : \A U \in SUBSET T : U # T => U \notin Bad
    <3>1. Bad \in SUBSET (SUBSET S)
      OBVIOUS
    <3> HIDE DEF Bad
    <3> QED
      BY <1>2, <3>1, MinimalSubset
  <2>2. T \in SUBSET S /\ ~ (SumFunctionOnSet(f, T) <= SumFunctionOnSet(g, T))
    OBVIOUS
  <2>3. T # {}
    BY <2>2, SumOfNothing
  <2>4. PICK x \in T : TRUE
    BY <2>3
  <2>5. /\ SumFunctionOnSet(f, T) = f[x] + SumFunctionOnSet(f, T \ {x})
        /\ SumFunctionOnSet(g, T) = g[x] + SumFunctionOnSet(g, T \ {x})
    BY <1>1, <2>2, SumOfMember
  <2>6. T \ {x} \in SUBSET S /\ T \ {x} \notin Bad
    BY <2>1, <2>2, <2>4
  <2>7. /\ SumFunctionOnSet(f, T \ {x}) \in Int /\ SumFunctionOnSet(g, T \ {x}) \in Int
        /\ SumFunctionOnSet(f, T \ {x}) <= SumFunctionOnSet(g, T \ {x})
    BY <1>1, <2>6, SumOfMember
  <2>8. f[x] \in Int /\ g[x] \in Int /\ f[x] <= g[x]
    BY <2>2
  <2> QED
    BY <2>2, <2>5, <2>7, <2>8
<1> QED
  BY <1>2

\* A sum is that over a part and that over the rest.
LEMMA SumOfParts ==
  ASSUME NEW f, NEW S, IsFiniteSet(S), NEW P \in SUBSET S, \A x \in S : f[x] \in Int
  PROVE  SumFunctionOnSet(f, S) = SumFunctionOnSet(f, P) + SumFunctionOnSet(f, S \ P)
<1> DEFINE Sum(T) == SumFunctionOnSet(f, T)
           Splits(T) == Sum(S) = Sum(T) + Sum(S \ T)
           Bad == {T \in SUBSET P : ~ Splits(T)}
<1>1. \A T \in SUBSET S : IsFiniteSet(T) /\ Sum(T) \in Int
  BY FS_Subset, SumOfMember
<1>2. ASSUME Bad # {} PROVE FALSE
  <2>1. PICK T \in Bad : \A U \in SUBSET T : U # T => U \notin Bad
    <3>1. Bad \in SUBSET (SUBSET P) /\ IsFiniteSet(P)
      BY <1>1
    <3> HIDE DEF Bad
    <3> QED
      BY <1>2, <3>1, MinimalSubset
  <2>2. T \in SUBSET P /\ T \in SUBSET S /\ ~ Splits(T)
    OBVIOUS
  <2>3. T # {}
    <3>1. Sum({}) = 0 /\ S \ {} = S /\ Sum(S) \in Int
      BY <1>1, SumOfNothing
    <3>2. Splits({})
      BY <3>1
    <3> QED
      BY <2>2, <3>2
  <2>4. PICK x \in T : TRUE
    BY <2>3
  <2>5. Splits(T \ {x})
    BY <2>1, <2>2, <2>4
  <2>6. /\ S \ (T \ {x}) \in SUBSET S /\ x \in S \ (T \ {x})
        /\ (S \ (T \ {x})) \ {x} = S \ T
    BY <2>2, <2>4
  <2>7. /\ Sum(S \ (T \ {x})) = f[x] + Sum(S \ T)
        /\ Sum(T) = f[x] + Sum(T \ {x})
    BY <1>1, <2>2, <2>4, <2>6, SumOfMember
  <2>8. f[x] \in Int /\ Sum(T \ {x}) \in Int /\ Sum(S \ T) \in Int
    BY <1>1, <2>2, <2>4
  <2> HIDE DEF Sum
  <2> QED
    BY <2>2, <2>5, <2>7, <2>8
<1>3. Splits(P)
  BY <1>2
<1> QED
  BY <1>3

\* Equal terms are multiplied.
LEMMA SumOfConstant ==
  ASSUME NEW c \in Int, NEW S, IsFiniteSet(S), NEW f, \A x \in S : f[x] = c
  PROVE  SumFunctionOnSet(f, S) = c * Cardinality(S)
<1> DEFINE Bad == {T \in SUBSET S : SumFunctionOnSet(f, T) # c * Cardinality(T)}
<1>1. \A T \in SUBSET S : IsFiniteSet(T) /\ Cardinality(T) \in Nat
  BY FS_Subset, FS_CardinalityType
<1>2. ASSUME Bad # {} PROVE FALSE
  <2>1. PICK T \in Bad : \A U \in SUBSET T : U # T => U \notin Bad
    <3>1. Bad \in SUBSET (SUBSET S)
      OBVIOUS
    <3> HIDE DEF Bad
    <3> QED
      BY <1>2, <3>1, MinimalSubset
  <2>2. T \in SUBSET S /\ SumFunctionOnSet(f, T) # c * Cardinality(T)
    OBVIOUS
  <2>3. T # {}
    <3>1. SumFunctionOnSet(f, {}) = c * Cardinality({})
      BY SumOfNothing, FS_EmptySet
    <3> QED
      BY <2>2, <3>1
  <2>4. PICK x \in T : TRUE
    BY <2>3
  <2> DEFINE n == Cardinality(T \ {x})
  <2>5. n \in Nat /\ Cardinality(T) = n + 1
    BY <1>1, <2>2, <2>4, FS_RemoveElement
  <2>6. SumFunctionOnSet(f, T) = c + SumFunctionOnSet(f, T \ {x})
    BY <1>1, <2>2, <2>4, SumOfMember
  <2>7. SumFunctionOnSet(f, T \ {x}) = c * n
    BY <2>1, <2>2, <2>4
  <2>8. c + c * n = c * (n + 1)
    BY <2>5
  <2> QED
    BY <2>2, <2>5, <2>6, <2>7, <2>8
<1> QED
  BY <1>2

-----------------------------------------------------------------------------
(* Products.                                                               *)

Multiply(f, products, s) ==
  IF s = {} THEN 1
  ELSE f[CHOOSE x \in s : TRUE] * products[s \ {CHOOSE x \in s : TRUE}]

\* A product of natural numbers is one.
LEMMA ProductIsNatural ==
  ASSUME NEW f, IsFiniteSet(DOMAIN f), \A x \in DOMAIN f : f[x] \in Nat
  PROVE  FoldFunction(LAMBDA x, y : x * y, 1, f) \in Nat
<1> DEFINE S == DOMAIN f
           Products == CHOOSE products : products = [s \in SUBSET S |-> Multiply(f, products, s)]
           IsProducts(products) == products = [s \in SUBSET S |-> Multiply(f, products, s)]
           Bad == {T \in SUBSET S : Products[T] \notin Nat}
<1>1. \A products, s : FoldStep("product", f, products, s) = Multiply(f, products, s)
  BY DEF FoldStep, Multiply
<1>2. \A products : IsProducts(products) <=> IsFold("product", f, S, products)
  BY <1>1 DEF IsFold
<1>3. IsFold("product", f, S, Folds("product", f, S))
  BY FoldsExist
<1>4. Products = CHOOSE products : IsProducts(products)
  OBVIOUS
<1>5. IsProducts(Products)
  <2> HIDE DEF IsProducts, Products
  <2> QED
    BY <1>2, <1>3, <1>4, Zenon
<1>6. \A s \in SUBSET S : Products[s] = Multiply(f, Products, s)
  BY <1>5
<1>7. FoldFunction(LAMBDA x, y : x * y, 1, f) = Products[S]
  BY DEF FoldFunction, FoldFunctionOnSet, MapThenFoldSet, Multiply
<1> HIDE DEF Products
<1>8. ASSUME Bad # {} PROVE FALSE
  <2>1. PICK T \in Bad : \A U \in SUBSET T : U # T => U \notin Bad
    <3>1. Bad \in SUBSET (SUBSET S)
      OBVIOUS
    <3>2. IsFiniteSet(S)
      OBVIOUS
    <3> HIDE DEF Bad, S
    <3> QED
      BY <1>8, <3>1, <3>2, MinimalSubset
  <2>2. T \in SUBSET S /\ Products[T] \notin Nat /\ Products[T] = Multiply(f, Products, T)
    BY <1>6
  <2>3. T # {}
    BY <2>2 DEF Multiply
  <2> DEFINE x == CHOOSE y \in T : TRUE
  <2>4. x \in T /\ x \in S
    BY <2>2, <2>3
  <2>5. Products[T \ {x}] \in Nat /\ f[x] \in Nat
    BY <2>1, <2>2, <2>4
  <2>6. Products[T] = f[x] * Products[T \ {x}]
    BY <2>2, <2>3 DEF Multiply
  <2> HIDE DEF x
  <2> QED
    BY <2>2, <2>5, <2>6
<1> QED
  BY <1>7, <1>8

-----------------------------------------------------------------------------
(* Ranks.                                                                  *)

\* R orders S strictly, without ties.
IsStrictOrder(R, S) ==
  /\ \A x \in S : <<x, x>> \notin R
  /\ \A x, y, z \in S : <<x, y>> \in R /\ <<y, z>> \in R => <<x, z>> \in R
  /\ \A x, y \in S : x # y => <<x, y>> \in R \/ <<y, x>> \in R

Earlier(R, S, x) == {y \in S : <<y, x>> \in R}

Rank(R, S) == [x \in S |-> Cardinality(Earlier(R, S, x))]

\* Every rank below the size of a finite ordered set belongs to one member.
LEMMA RankIsBijection ==
  ASSUME NEW R, NEW S, IsFiniteSet(S), IsStrictOrder(R, S)
  PROVE  Rank(R, S) \in Bijection(S, 0 .. (Cardinality(S) - 1))
<1> DEFINE n == Cardinality(S)
           rank == Rank(R, S)
<1>1. n \in Nat /\ \A T \in SUBSET S : IsFiniteSet(T) /\ Cardinality(T) \in Nat
  BY FS_Subset, FS_CardinalityType
<1>2. ASSUME NEW x \in S, NEW T \in SUBSET S, Earlier(R, S, x) \subseteq T, x \in T
      PROVE  rank[x] < Cardinality(T)
  <2>1. Earlier(R, S, x) \in SUBSET (T \ {x}) /\ IsFiniteSet(T \ {x}) /\ IsFiniteSet(T)
    BY <1>1, <1>2 DEF Earlier, IsStrictOrder
  <2>2. Cardinality(T \ {x}) = Cardinality(T) - 1
    BY <1>2, <2>1, FS_RemoveElement
  <2>3. Cardinality(Earlier(R, S, x)) <= Cardinality(T \ {x})
    BY <2>1, FS_Subset
  <2>4. Cardinality(Earlier(R, S, x)) \in Nat /\ Cardinality(T) \in Nat
    BY <1>1 DEF Earlier
  <2> QED
    BY <2>2, <2>3, <2>4 DEF Rank
<1>3. \A x \in S : rank[x] \in Nat
  BY <1>1 DEF Rank, Earlier
<1>4. \A x \in S : rank[x] \in 0 .. (n - 1)
  <2> TAKE x \in S
  <2>1. rank[x] < n
    BY <1>2 DEF Earlier
  <2> HIDE DEF rank, n
  <2> QED
    BY <1>1, <1>3, <2>1
<1>5. ASSUME NEW x \in S, NEW y \in S, <<x, y>> \in R PROVE rank[x] < rank[y]
  <2>1. /\ Earlier(R, S, y) \in SUBSET S /\ x \in Earlier(R, S, y)
        /\ Earlier(R, S, x) \subseteq Earlier(R, S, y)
    BY <1>5 DEF Earlier, IsStrictOrder
  <2>2. rank[x] < Cardinality(Earlier(R, S, y))
    BY <1>2, <2>1
  <2> QED
    BY <2>2 DEF Rank
<1>6. \A x, y \in S : rank[x] = rank[y] => x = y
  <2> SUFFICES ASSUME NEW x \in S, NEW y \in S, rank[x] = rank[y], x # y PROVE FALSE
    OBVIOUS
  <2>1. rank[x] < rank[y] \/ rank[y] < rank[x]
    BY <1>5 DEF IsStrictOrder
  <2> HIDE DEF rank
  <2> QED
    BY <1>3, <2>1
<1>7. rank \in [S -> 0 .. (n - 1)]
  BY <1>4 DEF Rank
<1>8. rank \in Injection(S, 0 .. (n - 1))
  <2> HIDE DEF rank, n
  <2> QED
    BY <1>6, <1>7 DEF Injection, IsInjective
<1>9. IsFiniteSet(0 .. (n - 1)) /\ Cardinality(0 .. (n - 1)) = n
  <2> HIDE DEF n
  <2>1. 0 \in Int /\ n - 1 \in Int /\ (0 > n - 1 => n = 0) /\ (n - 1) - 0 + 1 = n
    BY <1>1
  <2> QED
    BY <2>1, FS_Interval
<1>10. rank \in Surjection(S, 0 .. (n - 1))
  BY <1>8, <1>9, FS_Injection
<1> QED
  BY <1>8, <1>10 DEF Bijection

\* Who comes before has the lower rank.
LEMMA RankIsMonotone ==
  ASSUME NEW R, NEW S, IsFiniteSet(S), IsStrictOrder(R, S), NEW x \in S, NEW y \in S
  PROVE  Rank(R, S)[x] < Rank(R, S)[y] <=> <<x, y>> \in R
<1>1. ASSUME NEW u \in S, NEW v \in S, <<u, v>> \in R PROVE Rank(R, S)[u] < Rank(R, S)[v]
  <2>1. /\ Earlier(R, S, u) \in SUBSET (Earlier(R, S, v) \ {u})
        /\ u \in Earlier(R, S, v) /\ Earlier(R, S, v) \in SUBSET S
    BY <1>1 DEF Earlier, IsStrictOrder
  <2>2. /\ IsFiniteSet(Earlier(R, S, v)) /\ Cardinality(Earlier(R, S, v)) \in Nat
        /\ Cardinality(Earlier(R, S, v) \ {u}) = Cardinality(Earlier(R, S, v)) - 1
        /\ IsFiniteSet(Earlier(R, S, v) \ {u})
    BY <2>1, FS_Subset, FS_RemoveElement, FS_CardinalityType
  <2>3. /\ Cardinality(Earlier(R, S, u)) <= Cardinality(Earlier(R, S, v)) - 1
        /\ Cardinality(Earlier(R, S, u)) \in Nat
    BY <2>1, <2>2, FS_Subset, FS_CardinalityType
  <2> QED
    BY <2>2, <2>3 DEF Rank
<1>2. Rank(R, S)[x] \in Int /\ Rank(R, S)[y] \in Int
  <2>1. ASSUME NEW u \in S PROVE Rank(R, S)[u] \in Nat
    <3>1. Earlier(R, S, u) \in SUBSET S
      BY DEF Earlier
    <3>2. Cardinality(Earlier(R, S, u)) \in Nat
      BY <3>1, FS_Subset, FS_CardinalityType
    <3> QED
      BY <3>2 DEF Rank
  <2> QED
    BY <2>1
<1>3. CASE x = y
  BY <1>2, <1>3 DEF IsStrictOrder
<1>4. CASE x # y
  <2>1. <<x, y>> \in R \/ <<y, x>> \in R
    BY <1>4 DEF IsStrictOrder
  <2>2. ~ (<<x, y>> \in R /\ <<y, x>> \in R)
    BY DEF IsStrictOrder
  <2>3. <<x, y>> \in R => Rank(R, S)[x] < Rank(R, S)[y]
    BY <1>1
  <2>4. <<y, x>> \in R => Rank(R, S)[y] < Rank(R, S)[x]
    BY <1>1
  <2> QED
    BY <1>2, <2>1, <2>2, <2>3, <2>4
<1> QED
  BY <1>3, <1>4

\* A finite nonempty ordered set has a first member.
LEMMA FirstExists ==
  ASSUME NEW R, NEW S, IsFiniteSet(S), S # {}, IsStrictOrder(R, S)
  PROVE  \E x \in S : \A y \in S \ {x} : <<x, y>> \in R /\ <<y, x>> \notin R
<1>1. Cardinality(S) \in Nat /\ Cardinality(S) # 0
  BY FS_CardinalityType, FS_EmptySet
<1>2. 0 \in 0 .. (Cardinality(S) - 1)
  BY <1>1
<1>3. PICK x \in S : Rank(R, S)[x] = 0
  BY <1>2, RankIsBijection DEF Bijection, Surjection
<1>4. Earlier(R, S, x) \in SUBSET S /\ IsFiniteSet(Earlier(R, S, x))
  BY FS_Subset DEF Earlier
<1>5. Cardinality(Earlier(R, S, x)) = 0
  BY <1>3 DEF Rank
<1>6. Earlier(R, S, x) = {}
  BY <1>4, <1>5, FS_EmptySet
<1> QED
  BY <1>6 DEF Earlier, IsStrictOrder

\* The members of the n lowest ranks are n.
LEMMA FirstRanks ==
  ASSUME NEW R, NEW S, IsFiniteSet(S), IsStrictOrder(R, S), NEW n \in 0 .. Cardinality(S)
  PROVE  Cardinality({x \in S : Rank(R, S)[x] < n}) = n
<1> DEFINE first == {x \in S : Rank(R, S)[x] < n}
           rank == [x \in first |-> Rank(R, S)[x]]
<1>1. Cardinality(S) \in Nat /\ IsFiniteSet(first)
  BY FS_Subset, FS_CardinalityType
<1>2. /\ \A x \in S : Rank(R, S)[x] \in 0 .. (Cardinality(S) - 1)
      /\ \A x, y \in S : Rank(R, S)[x] = Rank(R, S)[y] => x = y
      /\ \A k \in 0 .. (Cardinality(S) - 1) : \E x \in S : Rank(R, S)[x] = k
  BY RankIsBijection DEF Bijection, Injection, Surjection, IsInjective
<1>3. rank \in [first -> 0 .. (n - 1)]
  BY <1>1, <1>2
<1>4. \A k \in 0 .. (n - 1) : \E x \in first : rank[x] = k
  BY <1>1, <1>2
<1>5. rank \in Bijection(first, 0 .. (n - 1))
  BY <1>2, <1>3, <1>4 DEF Bijection, Injection, Surjection, IsInjective
<1>6. Cardinality(0 .. (n - 1)) = n
  BY FS_Interval
<1>7. Cardinality(0 .. (n - 1)) = Cardinality(first)
  BY <1>1, <1>5, FS_Bijection DEF ExistsBijection
<1> QED
  BY <1>6, <1>7

=============================================================================
