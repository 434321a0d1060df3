------------------------------ MODULE SumLemmas ------------------------------
(***************************************************************************)
(* Sums over finite sets, SumFunctionOnSet of the community modules: what  *)
(* the models count shares, money and weights with; and products, the      *)
(* common denominators of weights.                                         *)
(*                                                                         *)
(* Both are defined by recursion on the set, MapThenFoldSet, which takes   *)
(* some element of it at each step.  It is shown first that the recursion  *)
(* defines a function, then that the order of the elements is irrelevant;  *)
(* the rest is arithmetic.  Induction is stated with a set of sets, so     *)
(* that it can be cited like any other fact.                               *)
(***************************************************************************)
EXTENDS Integers, FiniteSets, FiniteSetTheorems, WellFoundedInduction, Functions, TLAPS

\* Induction over the subsets of a finite set, smaller ones first.
LEMMA SubsetInduction ==
  ASSUME NEW S, IsFiniteSet(S), NEW F,
         \A T \in SUBSET S : (\A U \in SUBSET T : U # T => U \in F) => T \in F
  PROVE  S \in F
<1>1. SUFFICES ASSUME S \notin F PROVE FALSE
  OBVIOUS
<1> DEFINE Failing == {T \in SUBSET S : T \notin F}
<1>2. Failing # {} /\ Failing \subseteq FiniteSubsetsOf(S)
  BY <1>1, FS_FiniteSubsetsOfFinite
<1>3. IsWellFoundedOn(StrictSubsetOrdering(S), FiniteSubsetsOf(S))
  BY FS_StrictSubsetOrderingWellFounded
<1> HIDE DEF Failing
<1>4. PICK T \in Failing : \A U \in Failing : <<U, T>> \notin StrictSubsetOrdering(S)
  BY <1>2, <1>3, WFMin
<1>5. T \in SUBSET S /\ T \notin F
  BY DEF Failing
<1>6. \A U \in SUBSET T : U # T => U \in F
  BY <1>4, <1>5 DEF Failing, StrictSubsetOrdering
<1>7. QED
  BY <1>5, <1>6

\* Induction over a finite set, one element after the other.
LEMMA ElementInduction ==
  ASSUME NEW S, IsFiniteSet(S), NEW F, {} \in F,
         \A T \in SUBSET S, x \in S : T \in F /\ x \notin T => T \cup {x} \in F
  PROVE  S \in F
<1>1. ASSUME NEW T \in SUBSET S, \A U \in SUBSET T : U # T => U \in F PROVE T \in F
  <2>1. CASE T = {}
    BY <2>1
  <2>2. CASE T # {}
    <3>1. PICK x \in T : TRUE
      BY <2>2
    <3>2. T \ {x} \in F
      BY <1>1
    <3>3. (T \ {x}) \cup {x} \in F
      BY <3>2
    <3>4. QED
      BY <3>3, (T \ {x}) \cup {x} = T
  <2>3. QED
    BY <2>1, <2>2
<1>2. QED
  BY <1>1, SubsetInduction

-----------------------------------------------------------------------------
(* The recursion of MapThenFoldSet, for sums and for products. *)

Chosen(T) == CHOOSE x \in T : TRUE

Unit(op)          == IF op = "sum" THEN 0 ELSE 1
Combine(op, m, n) == IF op = "sum" THEN m + n ELSE m * n

\* g is the function that the recursion defines.
Defines(op, g, f, S) ==
  g = [T \in SUBSET S |->
        IF T = {} THEN Unit(op) ELSE Combine(op, f[Chosen(T)], g[T \ {Chosen(T)}])]

\* The element that the recursion takes is one of the set.
LEMMA ChosenIsElement == ASSUME NEW T, T # {} PROVE Chosen(T) \in T
  BY DEF Chosen

\* The recursion defines at most one function.
LEMMA DefinesOne ==
  ASSUME NEW op, NEW f, NEW S, IsFiniteSet(S), NEW g, NEW h, Defines(op, g, f, S), Defines(op, h, f, S)
  PROVE  g = h
<1> DEFINE F == {T \in SUBSET S : g[T] = h[T]}
<1>1. ASSUME NEW R \in SUBSET S, NEW T \in SUBSET R, \A U \in SUBSET T : U # T => U \in F
      PROVE  T \in F
  <2>1. CASE T = {}
    BY <2>1 DEF Defines
  <2>2. CASE T # {}
    <3>1. T \ {Chosen(T)} \in F
      BY <1>1, <2>2, ChosenIsElement
    <3>2. /\ g[T] = Combine(op, f[Chosen(T)], g[T \ {Chosen(T)}])
          /\ h[T] = Combine(op, f[Chosen(T)], h[T \ {Chosen(T)}])
      BY <2>2 DEF Defines
    <3>3. QED
      BY <3>1, <3>2
  <2>3. QED
    BY <2>1, <2>2
<1>2. ASSUME NEW R \in SUBSET S PROVE R \in F
  <2>1. IsFiniteSet(R)
    BY FS_Subset
  <2> HIDE DEF F
  <2>2. QED
    BY <1>1, <2>1, SubsetInduction
<1>3. \A R \in SUBSET S : g[R] = h[R]
  BY <1>2
<1>4. g = [T \in SUBSET S |-> g[T]] /\ h = [T \in SUBSET S |-> h[T]]
  BY DEF Defines
<1>5. QED
  BY <1>3, <1>4

\* Restricted to smaller sets, it is the one defined there.
LEMMA DefinesSmaller ==
  ASSUME NEW op, NEW f, NEW S, NEW g, Defines(op, g, f, S), NEW R \in SUBSET S
  PROVE  Defines(op, [T \in SUBSET R |-> g[T]], f, R)
<1> DEFINE h == [T \in SUBSET R |-> g[T]]
           Body(T, k) == IF T = {} THEN Unit(op) ELSE Combine(op, f[Chosen(T)], k[T \ {Chosen(T)}])
<1>1. ASSUME NEW T \in SUBSET R PROVE g[T] = Body(T, h)
  <2>1. g[T] = Body(T, g)
    BY DEF Defines
  <2>2. T \ {Chosen(T)} \in SUBSET R
    OBVIOUS
  <2>3. QED
    BY <2>1, <2>2
<1> HIDE DEF Body
<1>2. h = [T \in SUBSET R |-> Body(T, h)]
  BY <1>1
<1>3. QED
  BY <1>2 DEF Defines, Body

\* The function that the recursion defines.
Folds(op, f, S) == CHOOSE g : Defines(op, g, f, S)

\* The recursion defines a function: it is built up set by set.
LEMMA DefinesSome ==
  ASSUME NEW op, NEW f, NEW S, IsFiniteSet(S)
  PROVE  Defines(op, Folds(op, f, S), f, S)
<1> DEFINE F == {T \in SUBSET S : Defines(op, Folds(op, f, T), f, T)}
<1>1. ASSUME NEW T \in SUBSET S, \A U \in SUBSET T : U # T => U \in F
      PROVE  T \in F
  <2> DEFINE c == Chosen(T)
             Value(U) == IF U = T THEN IF T = {} THEN Unit(op) ELSE Combine(op, f[c], Folds(op, f, T \ {c})[T \ {c}])
                                  ELSE Folds(op, f, U)[U]
             g == [U \in SUBSET T |-> Value(U)]
             Body(U) == IF U = {} THEN Unit(op) ELSE Combine(op, f[Chosen(U)], g[U \ {Chosen(U)}])
  <2>1. ASSUME NEW U \in SUBSET T PROVE g[U] = Body(U)
    <3>1. CASE U = {}
      <4>1. CASE T = {}
        BY <3>1, <4>1
      <4>2. CASE T # {}
        <5>1. Defines(op, Folds(op, f, U), f, U)
          BY <1>1, <3>1, <4>2
        <5>2. Folds(op, f, U)[U] = Unit(op)
          BY <3>1, <5>1 DEF Defines
        <5>3. QED
          BY <3>1, <4>2, <5>2
      <4>3. QED
        BY <4>1, <4>2
    <3>2. CASE U # {} /\ U = T
      <4>1. T \ {c} # T /\ T \ {c} \in SUBSET T
        BY <3>2, ChosenIsElement
      <4> HIDE DEF c
      <4>2. g[T \ {c}] = Folds(op, f, T \ {c})[T \ {c}]
        BY <4>1
      <4>3. QED
        BY <3>2, <4>2 DEF c
    <3>3. CASE U # {} /\ U # T
      <4> DEFINE d == Chosen(U)
      <4>1. d \in U
        BY <3>3, ChosenIsElement
      <4>2. Defines(op, Folds(op, f, U), f, U) /\ Defines(op, Folds(op, f, U \ {d}), f, U \ {d})
        BY <1>1, <3>3, <4>1
      <4>3. Folds(op, f, U)[U] = Combine(op, f[d], Folds(op, f, U)[U \ {d}])
        BY <3>3, <4>2 DEF Defines
      <4>4. [R \in SUBSET (U \ {d}) |-> Folds(op, f, U)[R]] = Folds(op, f, U \ {d})
        <5>1. Defines(op, [R \in SUBSET (U \ {d}) |-> Folds(op, f, U)[R]], f, U \ {d})
          BY <4>2, U \ {d} \in SUBSET U, DefinesSmaller
        <5>2. IsFiniteSet(U \ {d})
          BY FS_Subset
        <5> HIDE DEF d
        <5>3. QED
          BY <4>2, <5>1, <5>2, DefinesOne
      <4> HIDE DEF d
      <4>5. Folds(op, f, U)[U \ {d}] = Folds(op, f, U \ {d})[U \ {d}]
        <5> DEFINE r == [R \in SUBSET (U \ {d}) |-> Folds(op, f, U)[R]]
        <5>1. r[U \ {d}] = Folds(op, f, U)[U \ {d}]
          OBVIOUS
        <5>2. QED
          BY <4>4, <5>1
      <4>6. g[U] = Folds(op, f, U)[U] /\ g[U \ {d}] = Folds(op, f, U \ {d})[U \ {d}]
        <5>1. U \ {d} # T /\ U \ {d} \in SUBSET T
          BY <3>3, <4>1
        <5>2. QED
          BY <3>3, <5>1
      <4>7. QED
        BY <3>3, <4>3, <4>5, <4>6 DEF d
    <3>4. QED
      BY <3>1, <3>2, <3>3
  <2>2. Defines(op, g, f, T)
    <3> HIDE DEF Value
    <3>1. g = [U \in SUBSET T |-> Body(U)]
      BY <2>1
    <3>2. QED
      BY <3>1 DEF Defines
  <2>3. Defines(op, Folds(op, f, T), f, T)
    BY <2>2 DEF Folds
  <2>4. QED
    BY <2>3
<1>2. S \in F
  <2> HIDE DEF F
  <2>1. QED
    BY <1>1, SubsetInduction
<1>3. QED
  BY <1>2

\* Its value for no elements,
LEMMA FoldsEmpty == ASSUME NEW op, NEW f PROVE Folds(op, f, {})[{}] = Unit(op)
<1>1. Defines(op, Folds(op, f, {}), f, {})
  BY DefinesSome, FS_EmptySet
<1>2. {} \in SUBSET {}
  OBVIOUS
<1>3. QED
  BY <1>1, <1>2 DEF Defines

\* and its step.
LEMMA FoldsChosen ==
  ASSUME NEW op, NEW f, NEW S, IsFiniteSet(S), S # {}
  PROVE  LET rest == S \ {Chosen(S)}
         IN  Folds(op, f, S)[S] = Combine(op, f[Chosen(S)], Folds(op, f, rest)[rest])
<1> DEFINE R == S \ {Chosen(S)}
<1>1. Defines(op, Folds(op, f, S), f, S) /\ Defines(op, Folds(op, f, R), f, R) /\ IsFiniteSet(R)
  BY DefinesSome, FS_Subset
<1>2. Folds(op, f, S)[S] = Combine(op, f[Chosen(S)], Folds(op, f, S)[R])
  BY <1>1 DEF Defines
<1> HIDE DEF R
<1>3. R \in SUBSET S
  BY DEF R
<1> DEFINE r == [T \in SUBSET R |-> Folds(op, f, S)[T]]
<1>4. r = Folds(op, f, R)
  <2>1. Defines(op, r, f, R)
    BY <1>1, <1>3, DefinesSmaller
  <2> HIDE DEF r
  <2>2. QED
    BY <1>1, <2>1, DefinesOne
<1>5. r[R] = Folds(op, f, S)[R]
  OBVIOUS
<1>6. QED
  BY <1>2, <1>4, <1>5 DEF R

\* SumFunctionOnSet is that recursion.
LEMMA SumUnfolds ==
  ASSUME NEW f, NEW S
  PROVE  SumFunctionOnSet(f, S) = Folds("sum", f, S)[S]
BY DEF SumFunctionOnSet, FoldFunctionOnSet, MapThenFoldSet, Folds, Defines, Chosen, Unit, Combine

\* The sum of nothing,
LEMMA SumEmpty == ASSUME NEW f PROVE SumFunctionOnSet(f, {}) = 0
  BY FoldsEmpty, SumUnfolds DEF Unit

\* and of something, by the element the recursion takes.
LEMMA SumChosen ==
  ASSUME NEW f, NEW S, IsFiniteSet(S), S # {}
  PROVE  SumFunctionOnSet(f, S) =
           f[Chosen(S)] + SumFunctionOnSet(f, S \ {Chosen(S)})
  BY FoldsChosen, SumUnfolds DEF Combine

-----------------------------------------------------------------------------
(* Sums of integers: type, order, and where their elements come from. *)

\* Sums of integers are integers, of natural numbers natural numbers.
LEMMA SumInt ==
  ASSUME NEW S, IsFiniteSet(S), NEW f, \A x \in S : f[x] \in Int
  PROVE  SumFunctionOnSet(f, S) \in Int
<1> DEFINE F == {T \in SUBSET S : SumFunctionOnSet(f, T) \in Int}
<1>1. ASSUME NEW T \in SUBSET S, \A U \in SUBSET T : U # T => U \in F PROVE T \in F
  <2>1. CASE T = {}
    BY <2>1, SumEmpty
  <2>2. CASE T # {}
    <3>1. Chosen(T) \in T /\ IsFiniteSet(T)
      BY <2>2, ChosenIsElement, FS_Subset
    <3>2. SumFunctionOnSet(f, T) = f[Chosen(T)] + SumFunctionOnSet(f, T \ {Chosen(T)})
      BY <2>2, <3>1, SumChosen
    <3>3. T \ {Chosen(T)} \in F
      BY <1>1, <3>1
    <3>4. QED
      BY <3>1, <3>2, <3>3
  <2>3. QED
    BY <2>1, <2>2
<1> HIDE DEF F
<1>2. S \in F
  BY <1>1, SubsetInduction
<1>3. QED
  BY <1>2 DEF F

\* Any element may be taken first.
LEMMA SumElement ==
  ASSUME NEW S, IsFiniteSet(S), NEW f, \A x \in S : f[x] \in Int, NEW x \in S
  PROVE  SumFunctionOnSet(f, S) = f[x] + SumFunctionOnSet(f, S \ {x})
<1> DEFINE Total(T) == SumFunctionOnSet(f, T)
           F == {T \in SUBSET S : \A y \in T : Total(T) = f[y] + Total(T \ {y})}
<1>1. ASSUME NEW T \in SUBSET S, \A U \in SUBSET T : U # T => U \in F PROVE T \in F
  <2>1. SUFFICES ASSUME NEW y \in T PROVE Total(T) = f[y] + Total(T \ {y})
    OBVIOUS
  <2> DEFINE c == Chosen(T)
  <2>2. c \in T /\ \A U \in SUBSET T : IsFiniteSet(U) /\ Total(U) \in Int
    BY ChosenIsElement, FS_Subset, SumInt
  <2>3. Total(T) = f[c] + Total(T \ {c})
    BY <2>2, SumChosen
  <2> HIDE DEF c, Total
  <2>4. CASE y = c
    BY <2>3, <2>4
  <2>5. CASE y # c
    <3>1. Total(T \ {c}) = f[y] + Total((T \ {c}) \ {y})
      BY <1>1, <2>2, <2>5
    <3>2. Total(T \ {y}) = f[c] + Total((T \ {y}) \ {c})
      BY <1>1, <2>2, <2>5
    <3>3. (T \ {c}) \ {y} = (T \ {y}) \ {c}
      OBVIOUS
    <3> DEFINE rest == Total((T \ {c}) \ {y})
    <3>4. f[c] \in Int /\ f[y] \in Int /\ rest \in Int
      BY <2>2
    <3>5. Total(T) = f[c] + (f[y] + rest) /\ Total(T \ {y}) = f[c] + rest
      BY <2>3, <3>1, <3>2, <3>3
    <3> HIDE DEF rest
    <3>6. QED
      BY <3>4, <3>5
  <2>6. QED
    BY <2>4, <2>5
<1> HIDE DEF F
<1>2. S \in F
  BY <1>1, SubsetInduction
<1>3. QED
  BY <1>2 DEF F

\* An element is added.
LEMMA SumAdds ==
  ASSUME NEW S, IsFiniteSet(S), NEW x, x \notin S, NEW f, \A y \in S \cup {x} : f[y] \in Int
  PROVE  /\ SumFunctionOnSet(f, S \cup {x}) = f[x] + SumFunctionOnSet(f, S)
         /\ SumFunctionOnSet(f, S) \in Int
<1>1. IsFiniteSet(S \cup {x})
  BY FS_AddElement
<1>2. (S \cup {x}) \ {x} = S
  OBVIOUS
<1>3. QED
  BY <1>1, <1>2, SumElement, SumInt

\* A sum of one term.
LEMMA SumOne ==
  ASSUME NEW x, NEW f, f[x] \in Int
  PROVE  SumFunctionOnSet(f, {x}) = f[x]
<1>1. {} \cup {x} = {x} /\ IsFiniteSet({})
  BY FS_EmptySet
<1>2. SumFunctionOnSet(f, {x}) = f[x] + SumFunctionOnSet(f, {})
  BY <1>1, SumAdds
<1>3. QED
  BY <1>2, SumEmpty

\* Sums over one set compare as their terms do.
LEMMA SumLeq ==
  ASSUME NEW S, IsFiniteSet(S), NEW f, NEW g,
         \A x \in S : f[x] \in Int /\ g[x] \in Int /\ f[x] <= g[x]
  PROVE  SumFunctionOnSet(f, S) <= SumFunctionOnSet(g, S)
<1> DEFINE F == {T \in SUBSET S : SumFunctionOnSet(f, T) <= SumFunctionOnSet(g, T)}
<1>1. {} \in F
  BY SumEmpty
<1>2. ASSUME NEW T \in SUBSET S, NEW x \in S, T \in F, x \notin T PROVE T \cup {x} \in F
  <2>1. IsFiniteSet(T)
    BY FS_Subset
  <2>2. /\ SumFunctionOnSet(f, T \cup {x}) = f[x] + SumFunctionOnSet(f, T)
        /\ SumFunctionOnSet(g, T \cup {x}) = g[x] + SumFunctionOnSet(g, T)
        /\ SumFunctionOnSet(f, T) \in Int /\ SumFunctionOnSet(g, T) \in Int
    BY <1>2, <2>1, SumAdds
  <2>3. QED
    BY <1>2, <2>2
<1> HIDE DEF F
<1>3. S \in F
  BY <1>1, <1>2, ElementInduction
<1>4. QED
  BY <1>3 DEF F

\* Equal terms have equal sums.
LEMMA SumSame ==
  ASSUME NEW S, IsFiniteSet(S), NEW f, NEW g, \A x \in S : f[x] \in Int /\ f[x] = g[x]
  PROVE  SumFunctionOnSet(f, S) = SumFunctionOnSet(g, S)
<1>1. SumFunctionOnSet(f, S) \in Int /\ SumFunctionOnSet(g, S) \in Int
  BY SumInt
<1>2. SumFunctionOnSet(f, S) <= SumFunctionOnSet(g, S)
  BY SumLeq
<1>3. SumFunctionOnSet(g, S) <= SumFunctionOnSet(f, S)
  BY SumLeq
<1>4. QED
  BY <1>1, <1>2, <1>3

\* One term changes, and the sum by as much.
LEMMA SumChange ==
  ASSUME NEW S, IsFiniteSet(S), NEW s \in S, NEW f, NEW g,
         \A x \in S : f[x] \in Int /\ g[x] \in Int,
         \A x \in S \ {s} : g[x] = f[x]
  PROVE  SumFunctionOnSet(g, S) = SumFunctionOnSet(f, S) + (g[s] - f[s])
<1> DEFINE R == S \ {s}
<1>1. IsFiniteSet(R) /\ \A x \in R : g[x] \in Int /\ g[x] = f[x] /\ f[x] \in Int
  BY FS_Subset
<1>2. /\ SumFunctionOnSet(f, S) = f[s] + SumFunctionOnSet(f, R)
      /\ SumFunctionOnSet(g, S) = g[s] + SumFunctionOnSet(g, R)
  BY SumElement
<1> HIDE DEF R
<1>3. SumFunctionOnSet(g, R) = SumFunctionOnSet(f, R) /\ SumFunctionOnSet(f, R) \in Int
  BY <1>1, SumSame, SumInt
<1> DEFINE a == SumFunctionOnSet(f, R)
<1> HIDE DEF a
<1>4. SumFunctionOnSet(f, S) = f[s] + a /\ SumFunctionOnSet(g, S) = g[s] + a /\ a \in Int
  BY <1>2, <1>3 DEF a
<1>5. QED
  BY <1>4

\* Zeros add up to zero.
LEMMA SumZero ==
  ASSUME NEW S, IsFiniteSet(S), NEW f, \A x \in S : f[x] = 0
  PROVE  SumFunctionOnSet(f, S) = 0
<1> DEFINE F == {T \in SUBSET S : SumFunctionOnSet(f, T) = 0}
<1>1. {} \in F
  BY SumEmpty
<1>2. ASSUME NEW T \in SUBSET S, NEW x \in S, T \in F, x \notin T PROVE T \cup {x} \in F
  <2>1. IsFiniteSet(T) /\ \A y \in T \cup {x} : f[y] \in Int
    BY FS_Subset
  <2>2. SumFunctionOnSet(f, T \cup {x}) = f[x] + SumFunctionOnSet(f, T)
    BY <1>2, <2>1, SumAdds
  <2>3. QED
    BY <1>2, <2>2
<1> HIDE DEF F
<1>3. S \in F
  BY <1>1, <1>2, ElementInduction
<1>4. QED
  BY <1>3 DEF F

\* A sum of natural numbers is one, and at least each of them.
LEMMA SumNat ==
  ASSUME NEW S, IsFiniteSet(S), NEW f, \A x \in S : f[x] \in Nat
  PROVE  /\ SumFunctionOnSet(f, S) \in Nat
         /\ \A x \in S : f[x] <= SumFunctionOnSet(f, S)
<1>1. ASSUME NEW T \in SUBSET S PROVE SumFunctionOnSet(f, T) \in Nat
  <2> DEFINE zero == [x \in T |-> 0]
  <2>1. IsFiniteSet(T) /\ \A x \in T : f[x] \in Int /\ zero[x] \in Int /\ zero[x] <= f[x]
    BY FS_Subset
  <2> HIDE DEF zero
  <2>2. SumFunctionOnSet(f, T) \in Int
    BY <2>1, SumInt
  <2>3. SumFunctionOnSet(zero, T) = 0
    BY <2>1, SumZero DEF zero
  <2>4. SumFunctionOnSet(zero, T) <= SumFunctionOnSet(f, T)
    BY <2>1, SumLeq
  <2>5. QED
    BY <2>2, <2>3, <2>4
<1>2. ASSUME NEW x \in S PROVE f[x] <= SumFunctionOnSet(f, S)
  <2>1. SumFunctionOnSet(f, S) = f[x] + SumFunctionOnSet(f, S \ {x})
    BY SumElement
  <2>2. SumFunctionOnSet(f, S \ {x}) \in Nat
    BY <1>1
  <2>3. QED
    BY <2>1, <2>2
<1>3. QED
  BY <1>1, <1>2

\* The terms h[x] are linear in those of f and g.
Linear(h, k, f, g, S) == \A x \in S : f[x] \in Int /\ g[x] \in Int /\ h[x] = k * f[x] + g[x]

\* A sum of natural numbers is above zero if and only if one of them is.
LEMMA SumPositive ==
  ASSUME NEW S, IsFiniteSet(S), NEW f, \A x \in S : f[x] \in Nat
  PROVE  SumFunctionOnSet(f, S) > 0 <=> \E x \in S : f[x] > 0
<1>1. ASSUME NEW x \in S, f[x] > 0 PROVE SumFunctionOnSet(f, S) > 0
  BY <1>1, SumNat
<1>2. ASSUME \A x \in S : ~(f[x] > 0) PROVE SumFunctionOnSet(f, S) = 0
  <2>1. \A x \in S : f[x] = 0
    BY <1>2
  <2>2. QED
    BY <2>1, SumZero
<1>3. QED
  BY <1>1, <1>2

\* The sum of k times f, plus g.
LEMMA SumLinear ==
  ASSUME NEW S, IsFiniteSet(S), NEW k \in Int, NEW f, NEW g, NEW h, Linear(h, k, f, g, S)
  PROVE  SumFunctionOnSet(h, S) = k * SumFunctionOnSet(f, S) + SumFunctionOnSet(g, S)
<1> USE DEF Linear
<1> DEFINE F == {T \in SUBSET S :
                   SumFunctionOnSet(h, T) = k * SumFunctionOnSet(f, T) + SumFunctionOnSet(g, T)}
<1>1. {} \in F
  BY SumEmpty
<1>2. ASSUME NEW T \in SUBSET S, NEW x \in S, T \in F, x \notin T PROVE T \cup {x} \in F
  <2>1. IsFiniteSet(T) /\ \A y \in S : h[y] \in Int
    BY FS_Subset
  <2> DEFINE a == SumFunctionOnSet(f, T)
             b == SumFunctionOnSet(g, T)
  <2>2. /\ SumFunctionOnSet(f, T \cup {x}) = f[x] + a
        /\ SumFunctionOnSet(g, T \cup {x}) = g[x] + b
        /\ a \in Int /\ b \in Int
    BY <1>2, <2>1, SumAdds
  <2>3. SumFunctionOnSet(h, T \cup {x}) = h[x] + SumFunctionOnSet(h, T)
    BY <1>2, <2>1, SumAdds
  <2>4. SumFunctionOnSet(h, T) = k * a + b
    BY <1>2
  <2> HIDE DEF a, b
  <2>5. k * (f[x] + a) = k * f[x] + k * a
    BY <2>2
  <2>6. k * f[x] + g[x] + (k * a + b) = k * (f[x] + a) + (g[x] + b)
    BY <2>2, <2>5
  <2>7. QED
    BY <2>2, <2>3, <2>4, <2>6
<1> HIDE DEF F
<1>3. S \in F
  BY <1>1, <1>2, ElementInduction
<1>4. QED
  BY <1>3 DEF F

\* Every term is scaled, and the sum by as much.
LEMMA SumScales ==
  ASSUME NEW S, IsFiniteSet(S), NEW k \in Int, NEW f, NEW g,
         \A x \in S : f[x] \in Int /\ g[x] = k * f[x]
  PROVE  SumFunctionOnSet(g, S) = k * SumFunctionOnSet(f, S)
<1> DEFINE F == {T \in SUBSET S : SumFunctionOnSet(g, T) = k * SumFunctionOnSet(f, T)}
<1>1. {} \in F
  BY SumEmpty
<1>2. ASSUME NEW T \in SUBSET S, NEW x \in S, T \in F, x \notin T PROVE T \cup {x} \in F
  <2>1. IsFiniteSet(T) /\ \A y \in S : g[y] \in Int
    BY FS_Subset
  <2> DEFINE a == SumFunctionOnSet(f, T)
             b == f[x]
  <2>2. SumFunctionOnSet(f, T \cup {x}) = b + a /\ a \in Int /\ b \in Int
    BY <1>2, <2>1, SumAdds
  <2>3. SumFunctionOnSet(g, T \cup {x}) = k * b + k * a
    <3>1. SumFunctionOnSet(g, T \cup {x}) = g[x] + SumFunctionOnSet(g, T)
      BY <1>2, <2>1, SumAdds
    <3>2. SumFunctionOnSet(g, T) = k * a /\ g[x] = k * b
      BY <1>2
    <3>3. QED
      BY <3>1, <3>2
  <2> HIDE DEF a, b
  <2>4. k * b + k * a = k * (b + a)
    BY <2>2
  <2>5. QED
    BY <2>2, <2>3, <2>4
<1> HIDE DEF F
<1>3. S \in F
  BY <1>1, <1>2, ElementInduction
<1>4. QED
  BY <1>3 DEF F

\* A set in two parts.
LEMMA SumParts ==
  ASSUME NEW S, IsFiniteSet(S), NEW R \in SUBSET S, NEW f, \A x \in S : f[x] \in Int
  PROVE  SumFunctionOnSet(f, S) = SumFunctionOnSet(f, R) + SumFunctionOnSet(f, S \ R)
<1> DEFINE P == S \ R
           F == {T \in SUBSET P : SumFunctionOnSet(f, R \cup T) =
                                    SumFunctionOnSet(f, R) + SumFunctionOnSet(f, T)}
<1>1. IsFiniteSet(R) /\ IsFiniteSet(P) /\ SumFunctionOnSet(f, R) \in Int
  BY FS_Subset, SumInt
<1>2. {} \in F
  BY <1>1, SumEmpty, R \cup {} = R
<1>3. ASSUME NEW T \in SUBSET P, NEW x \in P, T \in F, x \notin T PROVE T \cup {x} \in F
  <2>1. IsFiniteSet(T) /\ IsFiniteSet(R \cup T) /\ R \cup T \in SUBSET S
    BY FS_Subset
  <2>2. /\ SumFunctionOnSet(f, T \cup {x}) = f[x] + SumFunctionOnSet(f, T)
        /\ SumFunctionOnSet(f, T) \in Int
    BY <1>3, <2>1, SumAdds
  <2>3. SumFunctionOnSet(f, (R \cup T) \cup {x}) = f[x] + SumFunctionOnSet(f, R \cup T)
    BY <1>3, <2>1, SumAdds
  <2>4. (R \cup T) \cup {x} = R \cup (T \cup {x})
    OBVIOUS
  <2>5. SumFunctionOnSet(f, R \cup T) = SumFunctionOnSet(f, R) + SumFunctionOnSet(f, T)
    BY <1>3
  <2>6. f[x] \in Int /\ T \cup {x} \in SUBSET P
    BY <1>3
  <2> DEFINE a == SumFunctionOnSet(f, R)
             b == SumFunctionOnSet(f, T)
             c == SumFunctionOnSet(f, T \cup {x})
  <2>7. /\ SumFunctionOnSet(f, R \cup (T \cup {x})) = f[x] + (a + b)
        /\ c = f[x] + b /\ a \in Int /\ b \in Int
    BY <1>1, <2>2, <2>3, <2>4, <2>5
  <2> HIDE DEF a, b, c
  <2>8. SumFunctionOnSet(f, R \cup (T \cup {x})) = a + c
    BY <2>6, <2>7
  <2>9. QED
    BY <2>6, <2>8 DEF a, c
<1>4. P \in F
  <2> HIDE DEF F, P
  <2>1. QED
    BY <1>1, <1>2, <1>3, ElementInduction
<1>5. R \cup P = S
  OBVIOUS
<1>6. QED
  BY <1>4, <1>5

\* Terms that are zero may be left out.
LEMMA SumSupport ==
  ASSUME NEW S, IsFiniteSet(S), NEW R \in SUBSET S, NEW f,
         \A x \in S : f[x] \in Int, \A x \in S \ R : f[x] = 0
  PROVE  SumFunctionOnSet(f, S) = SumFunctionOnSet(f, R)
<1>1. SumFunctionOnSet(f, S) = SumFunctionOnSet(f, R) + SumFunctionOnSet(f, S \ R)
  BY SumParts
<1>2. IsFiniteSet(R) /\ IsFiniteSet(S \ R)
  BY FS_Subset
<1>3. SumFunctionOnSet(f, S \ R) = 0
  BY <1>2, SumZero
<1>4. SumFunctionOnSet(f, R) \in Int
  BY <1>2, SumInt
<1>5. QED
  BY <1>1, <1>3, <1>4

\* The images of finitely many elements are finitely many.
LEMMA ImageIsFinite ==
  ASSUME NEW S, IsFiniteSet(S), NEW h
  PROVE  IsFiniteSet({h[x] : x \in S})
<1> DEFINE Images(T) == {h[x] : x \in T}
           F == {T \in SUBSET S : IsFiniteSet(Images(T))}
<1>1. {} \in F
  <2>1. Images({}) = {}
    OBVIOUS
  <2>2. QED
    BY <2>1, FS_EmptySet
<1>2. ASSUME NEW T \in SUBSET S, NEW x \in S, T \in F, x \notin T PROVE T \cup {x} \in F
  <2>1. Images(T \cup {x}) = Images(T) \cup {h[x]}
    OBVIOUS
  <2> HIDE DEF Images
  <2>2. IsFiniteSet(Images(T) \cup {h[x]})
    BY <1>2, FS_AddElement
  <2>3. QED
    BY <1>2, <2>1, <2>2
<1> HIDE DEF F
<1>3. S \in F
  BY <1>1, <1>2, ElementInduction
<1>4. QED
  BY <1>3 DEF F

\* Summing over the images of a one-to-one map h.
LEMMA SumImage ==
  ASSUME NEW S, IsFiniteSet(S), NEW h, NEW f, NEW g,
         \A x, y \in S : h[x] = h[y] => x = y,
         \A x \in S : g[x] \in Int /\ g[x] = f[h[x]]
  PROVE  SumFunctionOnSet(f, {h[x] : x \in S}) = SumFunctionOnSet(g, S)
<1> DEFINE Images(T) == {h[x] : x \in T}
           F == {T \in SUBSET S : /\ IsFiniteSet(Images(T))
                                  /\ SumFunctionOnSet(f, Images(T)) = SumFunctionOnSet(g, T)}
<1>1. {} \in F
  <2>1. Images({}) = {}
    OBVIOUS
  <2>2. QED
    BY <2>1, SumEmpty, FS_EmptySet
<1>2. ASSUME NEW T \in SUBSET S, NEW x \in S, T \in F, x \notin T PROVE T \cup {x} \in F
  <2>1. Images(T \cup {x}) = Images(T) \cup {h[x]} /\ h[x] \notin Images(T)
    BY <1>2
  <2>2. \A y \in Images(T) \cup {h[x]} : f[y] \in Int
    BY <1>2
  <2> HIDE DEF Images
  <2>3. IsFiniteSet(Images(T)) /\ IsFiniteSet(Images(T) \cup {h[x]}) /\ IsFiniteSet(T)
    BY <1>2, FS_AddElement, FS_Subset
  <2>4. SumFunctionOnSet(f, Images(T) \cup {h[x]}) = f[h[x]] + SumFunctionOnSet(f, Images(T))
    BY <2>1, <2>2, <2>3, SumAdds
  <2>5. SumFunctionOnSet(g, T \cup {x}) = g[x] + SumFunctionOnSet(g, T)
    BY <1>2, <2>3, SumAdds
  <2>6. QED
    BY <1>2, <2>1, <2>3, <2>4, <2>5
<1> HIDE DEF F
<1>3. S \in F
  BY <1>1, <1>2, ElementInduction
<1>4. QED
  BY <1>3 DEF F

\* Rows and columns of a table: f[x] is a row of it, h[y] a column.
Table(f, h, S, R, rows, columns) ==
  /\ \A x \in S, y \in R : f[x][y] \in Int /\ h[y][x] = f[x][y]
  /\ \A x \in S : rows[x] = SumFunctionOnSet(f[x], R)
  /\ \A y \in R : columns[y] = SumFunctionOnSet(h[y], S)

\* A table may be added up by rows or by columns.
LEMMA SumSwap ==
  ASSUME NEW S, IsFiniteSet(S), NEW R, IsFiniteSet(R), NEW f, NEW h, NEW rows, NEW columns,
         Table(f, h, S, R, rows, columns)
  PROVE  SumFunctionOnSet(rows, S) = SumFunctionOnSet(columns, R)
<1> USE DEF Table
<1> DEFINE part(T) == [y \in R |-> SumFunctionOnSet(h[y], T)]
           F == {T \in SUBSET S : SumFunctionOnSet(rows, T) = SumFunctionOnSet(part(T), R)}
<1>1. \A y \in R, x \in S : h[y][x] = f[x][y] /\ h[y][x] \in Int
  OBVIOUS
<1>2. \A T \in SUBSET S, y \in R : part(T)[y] = SumFunctionOnSet(h[y], T)
  OBVIOUS
<1>3. \A x \in S : rows[x] \in Int
  BY SumInt
<1> HIDE DEF part
<1>4. {} \in F
  <2> DEFINE p == part({})
  <2>1. \A y \in R : p[y] = 0
    BY <1>2, SumEmpty
  <2> HIDE DEF p
  <2>2. SumFunctionOnSet(p, R) = 0
    BY <2>1, SumZero
  <2>3. QED
    BY <2>2, SumEmpty DEF p
<1>5. ASSUME NEW T \in SUBSET S, NEW x \in S, T \in F, x \notin T PROVE T \cup {x} \in F
  <2> DEFINE U == T \cup {x}
             p == part(T)
             q == part(U)
             g == f[x]
             k == 1
  <2>1. IsFiniteSet(T) /\ U \in SUBSET S /\ k \in Int
    BY FS_Subset
  <2>2. SumFunctionOnSet(rows, U) = rows[x] + SumFunctionOnSet(rows, T)
    BY <1>3, <1>5, <2>1, SumAdds
  <2>3. ASSUME NEW y \in R PROVE p[y] \in Int /\ g[y] \in Int /\ q[y] = k * g[y] + p[y]
    <3> DEFINE c == h[y]
    <3>1. \A z \in T \cup {x} : c[z] \in Int
      BY <1>1
    <3>2. p[y] = SumFunctionOnSet(c, T) /\ q[y] = SumFunctionOnSet(c, T \cup {x})
      BY <1>2, <2>1
    <3>3. c[x] = g[y] /\ g[y] \in Int
      BY <1>1
    <3> HIDE DEF c, p, q, g
    <3>4. q[y] = c[x] + SumFunctionOnSet(c, T) /\ SumFunctionOnSet(c, T) \in Int
      BY <1>5, <2>1, <3>1, <3>2, SumAdds
    <3>5. QED
      BY <3>2, <3>3, <3>4
  <2>4. rows[x] = SumFunctionOnSet(g, R)
    OBVIOUS
  <2> HIDE DEF p, q, g, k, U
  <2>5. SumFunctionOnSet(q, R) = k * SumFunctionOnSet(g, R) + SumFunctionOnSet(p, R)
    <3>1. Linear(q, k, g, p, R)
      BY <2>3 DEF Linear
    <3>2. QED
      BY <2>1, <3>1, SumLinear
  <2>6. SumFunctionOnSet(g, R) \in Int /\ SumFunctionOnSet(p, R) \in Int
    BY <2>3, SumInt
  <2>7. SumFunctionOnSet(rows, T) = SumFunctionOnSet(p, R)
    BY <1>5 DEF p
  <2>8. SumFunctionOnSet(rows, U) = SumFunctionOnSet(q, R)
    BY <2>2, <2>4, <2>5, <2>6, <2>7 DEF k
  <2>9. QED
    BY <2>1, <2>8 DEF U, q
<1> HIDE DEF F
<1>6. S \in F
  BY <1>4, <1>5, ElementInduction
<1>7. SumFunctionOnSet(rows, S) = SumFunctionOnSet(part(S), R)
  BY <1>6 DEF F
<1>8. SumFunctionOnSet(part(S), R) = SumFunctionOnSet(columns, R)
  <2> DEFINE p == part(S)
  <2>1. \A y \in R : p[y] = columns[y] /\ p[y] \in Int
    <3>1. \A y \in R : SumFunctionOnSet(h[y], S) \in Int
      BY <1>1, SumInt
    <3>2. QED
      BY <1>2, <3>1
  <2> HIDE DEF p
  <2>2. SumFunctionOnSet(p, R) = SumFunctionOnSet(columns, R)
    BY <2>1, SumSame
  <2>3. QED
    BY <2>2 DEF p
<1>9. QED
  BY <1>7, <1>8

\* What is added up class by class adds up to everything.
LEMMA SumByClass ==
  ASSUME NEW S, IsFiniteSet(S), NEW R, IsFiniteSet(R), NEW f, NEW class,
         \A x \in S : f[x] \in Int /\ class[x] \in R,
         NEW members, \A c \in R : members[c] \in SUBSET S,
         \A c \in R, x \in S : x \in members[c] <=> class[x] = c,
         NEW sums, \A c \in R : sums[c] = SumFunctionOnSet(f, members[c])
  PROVE  SumFunctionOnSet(sums, R) = SumFunctionOnSet(f, S)
<1> DEFINE Members(T, c) == {x \in T : class[x] = c}
           part(T) == [c \in R |-> SumFunctionOnSet(f, Members(T, c))]
           F == {T \in SUBSET S : SumFunctionOnSet(part(T), R) = SumFunctionOnSet(f, T)}
<1>1. \A T, c : c \in R => part(T)[c] = SumFunctionOnSet(f, Members(T, c))
  OBVIOUS
<1>2. ASSUME NEW T \in SUBSET S PROVE \A c \in R : IsFiniteSet(Members(T, c)) /\ part(T)[c] \in Int
  <2>1. ASSUME NEW c \in R PROVE IsFiniteSet(Members(T, c)) /\ part(T)[c] \in Int
    <3> DEFINE M == Members(T, c)
    <3>1. IsFiniteSet(M) /\ \A x \in M : f[x] \in Int
      BY FS_Subset
    <3>2. part(T)[c] = SumFunctionOnSet(f, M)
      BY <1>1
    <3> HIDE DEF M, part
    <3>3. part(T)[c] \in Int
      BY <3>1, <3>2, SumInt
    <3>4. QED
      BY <3>1, <3>3 DEF M
  <2>2. QED
    BY <2>1
<1> HIDE DEF part
<1>3. {} \in F
  <2> DEFINE p == part({})
  <2>1. \A c \in R : Members({}, c) = {}
    OBVIOUS
  <2>2. \A c \in R : p[c] = 0
    <3> HIDE DEF Members
    <3>1. \A c \in R : p[c] = SumFunctionOnSet(f, Members({}, c))
      BY <1>1
    <3> HIDE DEF p
    <3>2. QED
      BY <2>1, <3>1, SumEmpty
  <2> HIDE DEF p
  <2>3. SumFunctionOnSet(p, R) = 0
    BY <2>2, SumZero
  <2>4. QED
    BY <2>3, SumEmpty DEF p
<1>4. ASSUME NEW T \in SUBSET S, NEW x \in S, T \in F, x \notin T PROVE T \cup {x} \in F
  <2> DEFINE U == T \cup {x}
             p == part(T)
             q == part(U)
             d == class[x]
  <2>1. IsFiniteSet(T) /\ U \in SUBSET S /\ d \in R
    BY FS_Subset
  <2>2. SumFunctionOnSet(f, U) = f[x] + SumFunctionOnSet(f, T) /\ SumFunctionOnSet(f, T) \in Int
    BY <1>4, <2>1, SumAdds
  <2>3. \A c \in R : p[c] \in Int /\ q[c] \in Int
    BY <1>2, <2>1
  <2>4. \A c \in R \ {d} : q[c] = p[c]
    <3>1. \A c \in R \ {d} : Members(U, c) = Members(T, c)
      OBVIOUS
    <3> HIDE DEF Members
    <3>2. \A c \in R : q[c] = SumFunctionOnSet(f, Members(U, c))
      BY <1>1
    <3>3. \A c \in R : p[c] = SumFunctionOnSet(f, Members(T, c))
      BY <1>1
    <3> HIDE DEF p, q, d, U
    <3>4. QED
      BY <3>1, <3>2, <3>3
  <2>5. q[d] = f[x] + p[d]
    <3> DEFINE M == Members(T, d)
    <3>1. Members(U, d) = M \cup {x} /\ x \notin M
      BY <1>4
    <3>2. IsFiniteSet(M) /\ \A y \in M \cup {x} : f[y] \in Int
      BY <1>2, <2>1
    <3> HIDE DEF Members
    <3>3. q[d] = SumFunctionOnSet(f, Members(U, d)) /\ p[d] = SumFunctionOnSet(f, M)
      BY <1>1, <2>1
    <3> HIDE DEF M, p, q, d, U
    <3>4. SumFunctionOnSet(f, M \cup {x}) = f[x] + SumFunctionOnSet(f, M)
      BY <3>1, <3>2, SumAdds
    <3>5. QED
      BY <3>1, <3>3, <3>4
  <2> HIDE DEF p, q, d, U
  <2>6. SumFunctionOnSet(q, R) = SumFunctionOnSet(p, R) + (q[d] - p[d])
    BY <2>1, <2>3, <2>4, SumChange
  <2>7. SumFunctionOnSet(p, R) = SumFunctionOnSet(f, T)
    BY <1>4 DEF p
  <2>8. SumFunctionOnSet(q, R) = SumFunctionOnSet(f, U)
    BY <2>1, <2>2, <2>3, <2>5, <2>6, <2>7
  <2>9. QED
    BY <2>1, <2>8 DEF U, q
<1> HIDE DEF F
<1>5. S \in F
  BY <1>3, <1>4, ElementInduction
<1>6. SumFunctionOnSet(part(S), R) = SumFunctionOnSet(f, S)
  BY <1>5 DEF F
<1>7. SumFunctionOnSet(part(S), R) = SumFunctionOnSet(sums, R)
  <2> DEFINE p == part(S)
  <2>1. \A c \in R : p[c] = sums[c] /\ p[c] \in Int
    <3>1. \A c \in R : Members(S, c) = members[c]
      OBVIOUS
    <3> HIDE DEF Members
    <3>2. QED
      BY <1>1, <1>2, <3>1
  <2> HIDE DEF p
  <2>2. SumFunctionOnSet(p, R) = SumFunctionOnSet(sums, R)
    BY <2>1, SumSame
  <2>3. QED
    BY <2>2 DEF p
<1>8. QED
  BY <1>6, <1>7

-----------------------------------------------------------------------------
(* Products of positive numbers. *)

Product(f, S) == Folds("product", f, S)[S]

\* The product of nothing,
LEMMA ProductEmpty == ASSUME NEW f PROVE Product(f, {}) = 1
  BY FoldsEmpty DEF Product, Unit

\* and of something, by the element the recursion takes.
LEMMA ProductChosen ==
  ASSUME NEW f, NEW S, IsFiniteSet(S), S # {}
  PROVE  Product(f, S) = f[Chosen(S)] * Product(f, S \ {Chosen(S)})
  BY FoldsChosen DEF Product, Combine

\* Products of positive numbers are positive.
LEMMA ProductPositive ==
  ASSUME NEW S, IsFiniteSet(S), NEW f, \A x \in S : f[x] \in Nat \ {0}
  PROVE  Product(f, S) \in Nat \ {0}
<1> DEFINE F == {T \in SUBSET S : Product(f, T) \in Nat \ {0}}
<1>1. ASSUME NEW T \in SUBSET S, \A U \in SUBSET T : U # T => U \in F PROVE T \in F
  <2>1. CASE T = {}
    BY <2>1, ProductEmpty
  <2>2. CASE T # {}
    <3>1. Chosen(T) \in T /\ IsFiniteSet(T)
      BY <2>2, ChosenIsElement, FS_Subset
    <3>2. Product(f, T) = f[Chosen(T)] * Product(f, T \ {Chosen(T)})
      BY <2>2, <3>1, ProductChosen
    <3>3. Product(f, T \ {Chosen(T)}) \in Nat \ {0}
      BY <1>1, <3>1
    <3> DEFINE m == f[Chosen(T)]
               n == Product(f, T \ {Chosen(T)})
    <3>4. m \in Nat \ {0} /\ n \in Nat \ {0} /\ Product(f, T) = m * n
      BY <3>1, <3>2, <3>3
    <3> HIDE DEF m, n
    <3>5. Product(f, T) \in Nat \ {0}
      BY <3>4
    <3>6. QED
      BY <3>5
  <2>3. QED
    BY <2>1, <2>2
<1> HIDE DEF F
<1>2. S \in F
  BY <1>1, SubsetInduction
<1>3. QED
  BY <1>2 DEF F

\* Any factor may be taken first.
LEMMA ProductElement ==
  ASSUME NEW S, IsFiniteSet(S), NEW f, \A x \in S : f[x] \in Nat \ {0}, NEW x \in S
  PROVE  Product(f, S) = f[x] * Product(f, S \ {x})
<1> DEFINE Total(T) == Product(f, T)
           F == {T \in SUBSET S : \A y \in T : Total(T) = f[y] * Total(T \ {y})}
<1>1. ASSUME NEW T \in SUBSET S, \A U \in SUBSET T : U # T => U \in F PROVE T \in F
  <2>1. SUFFICES ASSUME NEW y \in T PROVE Total(T) = f[y] * Total(T \ {y})
    OBVIOUS
  <2> DEFINE c == Chosen(T)
  <2>2. c \in T /\ \A U \in SUBSET T : IsFiniteSet(U) /\ Total(U) \in Nat \ {0}
    BY ChosenIsElement, FS_Subset, ProductPositive
  <2>3. Total(T) = f[c] * Total(T \ {c})
    BY <2>2, ProductChosen
  <2> HIDE DEF c, Total
  <2>4. CASE y = c
    BY <2>3, <2>4
  <2>5. CASE y # c
    <3>1. Total(T \ {c}) = f[y] * Total((T \ {c}) \ {y})
      BY <1>1, <2>2, <2>5
    <3>2. Total(T \ {y}) = f[c] * Total((T \ {y}) \ {c})
      BY <1>1, <2>2, <2>5
    <3>3. (T \ {c}) \ {y} = (T \ {y}) \ {c}
      OBVIOUS
    <3> DEFINE rest == Total((T \ {c}) \ {y})
               m == f[c]
               n == f[y]
    <3>4. m \in Int /\ n \in Int /\ rest \in Int
      BY <2>2
    <3>5. Total(T) = m * (n * rest) /\ Total(T \ {y}) = m * rest
      BY <2>3, <3>1, <3>2, <3>3
    <3> HIDE DEF rest, m, n
    <3>6. m * (n * rest) = n * (m * rest)
      BY <3>4
    <3>7. QED
      BY <3>5, <3>6 DEF n
  <2>6. QED
    BY <2>4, <2>5
<1> HIDE DEF F
<1>2. S \in F
  BY <1>1, SubsetInduction
<1>3. QED
  BY <1>2 DEF F

\* Equal factors have equal products.
LEMMA ProductSame ==
  ASSUME NEW S, IsFiniteSet(S), NEW f, NEW g,
         \A x \in S : f[x] \in Nat \ {0} /\ g[x] = f[x]
  PROVE  Product(g, S) = Product(f, S)
<1> DEFINE F == {T \in SUBSET S : Product(g, T) = Product(f, T)}
<1>1. {} \in F
  BY ProductEmpty
<1>2. ASSUME NEW T \in SUBSET S, NEW x \in S, T \in F, x \notin T PROVE T \cup {x} \in F
  <2>1. IsFiniteSet(T \cup {x}) /\ (T \cup {x}) \ {x} = T
    BY <1>2, FS_Subset
  <2>2. \A y \in T \cup {x} : f[y] \in Nat \ {0} /\ g[y] \in Nat \ {0}
    OBVIOUS
  <2>3. Product(f, T \cup {x}) = f[x] * Product(f, T) /\ Product(g, T \cup {x}) = g[x] * Product(g, T)
    BY <2>1, <2>2, ProductElement
  <2>4. QED
    BY <1>2, <2>3
<1> HIDE DEF F
<1>3. S \in F
  BY <1>1, <1>2, ElementInduction
<1>4. QED
  BY <1>3 DEF F

\* A product is scaled by scaling one factor.
LEMMA ProductScales ==
  ASSUME NEW S, IsFiniteSet(S), NEW f, NEW g, NEW n \in Nat \ {0}, NEW j \in S,
         \A x \in S : f[x] \in Nat \ {0},
         \A x \in S \ {j} : g[x] = f[x], g[j] = n * f[j]
  PROVE  Product(g, S) = n * Product(f, S)
<1> DEFINE R == S \ {j}
           a == f[j]
           p == Product(f, R)
<1>1. IsFiniteSet(R)
  BY FS_Subset
<1>2. \A x \in S : g[x] \in Nat \ {0}
  <2>1. n * a \in Nat \ {0}
    <3>1. a \in Nat \ {0}
      OBVIOUS
    <3> HIDE DEF a
    <3>2. QED
      BY <3>1
  <2>2. QED
    BY <2>1
<1>3. Product(g, S) = g[j] * Product(g, R) /\ Product(f, S) = a * p
  BY <1>2, ProductElement
<1>4. Product(g, R) = p
  BY <1>1, ProductSame
<1>5. p \in Nat \ {0}
  BY <1>1, ProductPositive
<1>6. Product(g, S) = (n * a) * p /\ a \in Nat
  BY <1>3, <1>4
<1> HIDE DEF a, p
<1>7. (n * a) * p = n * (a * p)
  BY <1>5, <1>6
<1>8. QED
  BY <1>3, <1>6, <1>7
=============================================================================
