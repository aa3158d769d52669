---------------------------- MODULE SumTheorems ----------------------------
(***************************************************************************)
(* Sums over finite sets of any size: what Storage.spending adds up of the *)
(* rows of api_usage, and value_portfolio of the positions.                *)
(*                                                                         *)
(* The orders of the naturals and of the subsets of a finite set are       *)
(* well-founded, so a set of counterexamples has a least element: this     *)
(* gives induction for sets of numbers and for sets of sets, and with it   *)
(* the recursion that the community module's sum is defined by.            *)
(***************************************************************************)
EXTENDS Integers, Functions, FiniteSetTheorems, WellFoundedInduction, TLAPS

\* Induction over the naturals.
LEMMA NaturalInduction ==
  ASSUME NEW Good, 0 \in Good, \A n \in Nat : n \in Good => n + 1 \in Good
  PROVE  Nat \subseteq Good
<1> DEFINE Less == {p \in Nat \X Nat : p[1] < p[2]}
           Bad == Nat \ Good
<1>1. SUFFICES ASSUME Bad # {} PROVE FALSE
  OBVIOUS
<1>2. IsWellFoundedOn(Less, Nat)
  BY NatLessThanWellFounded DEF OpToRel
<1>3. PICK n \in Bad : \A m \in Bad : <<m, n>> \notin Less
  <2> HIDE DEF Less
  <2>1. Bad \subseteq Nat
    OBVIOUS
  <2> HIDE DEF Bad
  <2> QED BY <1>1, <1>2, <2>1, WFMin
<1>4. n \in Nat /\ n # 0 /\ n - 1 \in Nat
  OBVIOUS
<1>5. <<n - 1, n>> \in Less
  BY <1>4
<1>6. n - 1 \in Good
  BY <1>3, <1>4, <1>5
<1> QED BY <1>4, <1>6

\* Induction over the subsets of a finite set.
THEOREM SubsetInduction ==
  ASSUME NEW S, IsFiniteSet(S), NEW Good,
         \A T \in SUBSET S : (\A U \in SUBSET T : U # T => U \in Good) => T \in Good
  PROVE  SUBSET S \subseteq Good
<1> DEFINE Smaller == StrictSubsetOrdering(S)
           Bad == (SUBSET S) \ Good
<1>1. SUFFICES ASSUME Bad # {} PROVE FALSE
  OBVIOUS
<1>2. IsWellFoundedOn(Smaller, SUBSET S)
  BY FS_StrictSubsetOrderingWellFounded, FS_FiniteSubsetsOfFinite
<1>3. PICK T \in Bad : \A U \in Bad : <<U, T>> \notin Smaller
  <2> HIDE DEF Smaller
  <2>1. Bad \subseteq SUBSET S
    OBVIOUS
  <2> HIDE DEF Bad
  <2> QED BY <1>1, <1>2, <2>1, WFMin
<1>4. ASSUME NEW U \in SUBSET T, U # T PROVE U \in Good
  <2>1. <<U, T>> \in Smaller
    BY <1>4 DEF StrictSubsetOrdering
  <2> HIDE DEF Smaller
  <2> QED BY <1>3, <2>1
<1> QED BY <1>3, <1>4

\* The subsets of a finite set are reached from the empty one by adding an element at a time.
LEMMA ElementInduction ==
  ASSUME NEW S, IsFiniteSet(S), NEW Good, {} \in Good,
         \A T \in SUBSET S : T # {} => \E x \in T : T \ {x} \in Good => T \in Good
  PROVE  SUBSET S \subseteq Good
<1>1. ASSUME NEW T \in SUBSET S, \A U \in SUBSET T : U # T => U \in Good
      PROVE  T \in Good
  <2>1. CASE T = {}
    BY <2>1
  <2>2. CASE T # {}
    <3>1. PICK x \in T : T \ {x} \in Good => T \in Good
      BY <2>2
    <3>2. T \ {x} \in Good
      BY <1>1
    <3> QED BY <3>1, <3>2
  <2> QED BY <2>1, <2>2
<1> QED BY <1>1, SubsetInduction

-----------------------------------------------------------------------------
\* The recursion of the community module's sum: an element of the set, then the rest.

First(s) == CHOOSE x \in s : TRUE

\* What the recursion makes of one set, when it holds the sums of the smaller ones.
AddFirst(f, sums, s) == IF s = {} THEN 0 ELSE f[First(s)] + sums[s \ {First(s)}]

Summing(f, S, sums) == sums = [s \in SUBSET S |-> AddFirst(f, sums, s)]

\* It has a solution for the subsets of up to n elements.
HasSumsUpTo(f, S, n) ==
  \E sums : sums = [s \in {t \in SUBSET S : Cardinality(t) <= n} |-> AddFirst(f, sums, s)]

\* A first element is one of the set.
LEMMA FirstInSet == ASSUME NEW s, s # {} PROVE First(s) \in s
  BY DEF First

\* The recursion reaches the subsets of n elements, for every n.
LEMMA SumsUpTo ==
  ASSUME NEW f, NEW S, IsFiniteSet(S), NEW n \in Nat
  PROVE  HasSumsUpTo(f, S, n)
<1> DEFINE Upto(k) == {t \in SUBSET S : Cardinality(t) <= k}
           Good == {k \in Nat : \E sums : sums = [s \in Upto(k) |-> AddFirst(f, sums, s)]}
<1>1. \A s \in SUBSET S : IsFiniteSet(s) /\ Cardinality(s) \in Nat
  BY FS_Subset, FS_CardinalityType
<1>2. 0 \in Good
  <2> DEFINE sums == [s \in Upto(0) |-> 0]
  <2>1. \A s \in Upto(0) : s = {}
    BY <1>1, FS_EmptySet
  <2>2. sums = [s \in Upto(0) |-> AddFirst(f, sums, s)]
    BY <2>1 DEF AddFirst
  <2> QED BY <2>2
<1>3. ASSUME NEW k \in Nat, k \in Good PROVE k + 1 \in Good
  <2>1. PICK sums : sums = [s \in Upto(k) |-> AddFirst(f, sums, s)]
    BY <1>3
  <2> DEFINE more == [s \in Upto(k + 1) |-> AddFirst(f, sums, s)]
  <2>2. ASSUME NEW s \in Upto(k + 1), s # {}
        PROVE  s \ {First(s)} \in Upto(k)
    <3>1. Cardinality(s \ {First(s)}) = Cardinality(s) - 1
      BY <2>2, <1>1, FirstInSet, FS_RemoveElement
    <3> QED BY <3>1, <1>1
  <2>3. ASSUME NEW s \in Upto(k) PROVE more[s] = sums[s]
    <3>1. s \in Upto(k + 1)
      BY <1>1
    <3> QED BY <3>1, <2>1
  <2> HIDE DEF Upto
  <2>4. more = [s \in Upto(k + 1) |-> AddFirst(f, more, s)]
    <3>1. ASSUME NEW s \in Upto(k + 1) PROVE AddFirst(f, sums, s) = AddFirst(f, more, s)
      <4> HIDE DEF more
      <4> QED BY <2>2, <2>3 DEF AddFirst
    <3> QED BY <3>1
  <2> HIDE DEF more
  <2> QED BY <2>4
<1> HIDE DEF Good
<1>4. n \in Good
  BY <1>2, <1>3, NaturalInduction
<1> QED BY <1>4 DEF Good, HasSumsUpTo

\* Every finite set has the sums of its subsets.
LEMMA SumsExist ==
  ASSUME NEW f, NEW S, IsFiniteSet(S)
  PROVE  \E sums : Summing(f, S, sums)
<1>1. Cardinality(S) \in Nat
  BY FS_CardinalityType
<1>2. {t \in SUBSET S : Cardinality(t) <= Cardinality(S)} = SUBSET S
  BY FS_Subset
<1>3. HasSumsUpTo(f, S, Cardinality(S))
  BY <1>1, SumsUpTo
<1> QED BY <1>2, <1>3 DEF Summing, HasSumsUpTo

\* The sum is the value at S of the one function that satisfies the recursion.
LEMMA SumIsSumming ==
  ASSUME NEW f, NEW S, IsFiniteSet(S)
  PROVE  \E sums : Summing(f, S, sums) /\ SumFunctionOnSet(f, S) = sums[S]
<1> DEFINE iter[s \in SUBSET S] ==
             IF s = {} THEN 0 ELSE LET x == CHOOSE x \in s : TRUE IN f[x] + iter[s \ {x}]
<1>1. SumFunctionOnSet(f, S) = iter[S]
  BY DEF SumFunctionOnSet, FoldFunctionOnSet, MapThenFoldSet
<1>2. iter = CHOOSE sums : Summing(f, S, sums)
  BY DEF Summing, AddFirst, First
<1> HIDE DEF iter
<1>3. Summing(f, S, iter)
  BY <1>2, SumsExist
<1> QED BY <1>1, <1>3

\* Two recursions agree on the sets both sum.
LEMMA SummingUnique ==
  ASSUME NEW f, NEW S, NEW T \in SUBSET S, IsFiniteSet(T),
         NEW a, NEW b, Summing(f, S, a), Summing(f, T, b)
  PROVE  a[T] = b[T]
<1> DEFINE Good == {U \in SUBSET T : a[U] = b[U]}
<1>1. \A U \in SUBSET T : a[U] = AddFirst(f, a, U) /\ b[U] = AddFirst(f, b, U)
  BY DEF Summing
<1>2. {} \in Good
  BY <1>1 DEF AddFirst
<1>3. ASSUME NEW U \in SUBSET T, U # {}
      PROVE  \E x \in U : U \ {x} \in Good => U \in Good
  BY <1>1, <1>3, FirstInSet DEF AddFirst
<1> HIDE DEF Good
<1>4. T \in Good
  BY <1>2, <1>3, ElementInduction
<1> QED BY <1>4 DEF Good

-----------------------------------------------------------------------------
\* Nothing adds up to nothing.
LEMMA SumEmpty == ASSUME NEW f PROVE SumFunctionOnSet(f, {}) = 0
<1>1. IsFiniteSet({})
  BY FS_EmptySet
<1>2. PICK sums : Summing(f, {}, sums) /\ SumFunctionOnSet(f, {}) = sums[{}]
  BY <1>1, SumIsSumming
<1> QED BY <1>2 DEF Summing, AddFirst

\* The sum is taken from the first element on.
LEMMA SumFirst ==
  ASSUME NEW f, NEW S, IsFiniteSet(S), S # {}
  PROVE  SumFunctionOnSet(f, S) = f[First(S)] + SumFunctionOnSet(f, S \ {First(S)})
<1> DEFINE Rest == S \ {First(S)}
<1>1. IsFiniteSet(Rest)
  BY FS_Subset
<1>2. PICK sums : Summing(f, S, sums) /\ SumFunctionOnSet(f, S) = sums[S]
  BY SumIsSumming
<1>3. PICK rest : Summing(f, Rest, rest) /\ SumFunctionOnSet(f, Rest) = rest[Rest]
  BY <1>1, SumIsSumming
<1>4. sums[Rest] = rest[Rest]
  BY <1>1, <1>2, <1>3, SummingUnique
<1>5. sums[S] = f[First(S)] + sums[Rest]
  BY <1>2 DEF Summing, AddFirst
<1> QED BY <1>2, <1>3, <1>4, <1>5

\* A sum of integers is an integer.
LEMMA SumInt ==
  ASSUME NEW f, NEW S, IsFiniteSet(S), \A x \in S : f[x] \in Int
  PROVE  SumFunctionOnSet(f, S) \in Int
<1> DEFINE Good == {T \in SUBSET S : SumFunctionOnSet(f, T) \in Int}
<1>1. {} \in Good
  BY SumEmpty
<1>2. ASSUME NEW T \in SUBSET S, T # {}
      PROVE  \E x \in T : T \ {x} \in Good => T \in Good
  <2>1. First(T) \in T /\ IsFiniteSet(T)
    BY <1>2, FirstInSet, FS_Subset
  <2> QED BY <1>2, <2>1, SumFirst
<1> HIDE DEF Good
<1>3. S \in Good
  BY <1>1, <1>2, ElementInduction
<1> QED BY <1>3 DEF Good

\* A sum of naturals is a natural.
LEMMA SumNat ==
  ASSUME NEW f, NEW S, IsFiniteSet(S), \A x \in S : f[x] \in Nat
  PROVE  SumFunctionOnSet(f, S) \in Nat
<1> DEFINE Good == {T \in SUBSET S : SumFunctionOnSet(f, T) \in Nat}
<1>1. {} \in Good
  BY SumEmpty
<1>2. ASSUME NEW T \in SUBSET S, T # {}
      PROVE  \E x \in T : T \ {x} \in Good => T \in Good
  <2>1. First(T) \in T /\ IsFiniteSet(T)
    BY <1>2, FirstInSet, FS_Subset
  <2> QED BY <1>2, <2>1, SumFirst
<1> HIDE DEF Good
<1>3. S \in Good
  BY <1>1, <1>2, ElementInduction
<1> QED BY <1>3 DEF Good

\* Only the values on the set count.
LEMMA SumSame ==
  ASSUME NEW f, NEW g, NEW S, IsFiniteSet(S), \A x \in S : f[x] = g[x]
  PROVE  SumFunctionOnSet(f, S) = SumFunctionOnSet(g, S)
<1> DEFINE Good == {T \in SUBSET S : SumFunctionOnSet(f, T) = SumFunctionOnSet(g, T)}
<1>1. {} \in Good
  BY SumEmpty
<1>2. ASSUME NEW T \in SUBSET S, T # {}
      PROVE  \E x \in T : T \ {x} \in Good => T \in Good
  <2>1. First(T) \in T /\ IsFiniteSet(T)
    BY <1>2, FirstInSet, FS_Subset
  <2>2. f[First(T)] = g[First(T)]
    BY <2>1
  <2> QED BY <1>2, <2>1, <2>2, SumFirst
<1> HIDE DEF Good
<1>3. S \in Good
  BY <1>1, <1>2, ElementInduction
<1> QED BY <1>3 DEF Good

\* A sum of smaller numbers is not larger.
LEMMA SumMonotone ==
  ASSUME NEW f, NEW g, NEW S, IsFiniteSet(S),
         \A x \in S : f[x] \in Int /\ g[x] \in Int /\ f[x] <= g[x]
  PROVE  SumFunctionOnSet(f, S) <= SumFunctionOnSet(g, S)
<1> DEFINE Good == {T \in SUBSET S : SumFunctionOnSet(f, T) <= SumFunctionOnSet(g, T)}
<1>1. {} \in Good
  BY SumEmpty
<1>2. ASSUME NEW T \in SUBSET S, T # {}
      PROVE  \E x \in T : T \ {x} \in Good => T \in Good
  <2>1. First(T) \in T /\ IsFiniteSet(T)
    BY <1>2, FirstInSet, FS_Subset
  <2> DEFINE Rest == T \ {First(T)}
  <2>2. f[First(T)] \in Int /\ g[First(T)] \in Int /\ f[First(T)] <= g[First(T)]
    BY <2>1
  <2>3. SumFunctionOnSet(f, Rest) \in Int /\ SumFunctionOnSet(g, Rest) \in Int
    BY <2>1, SumInt, FS_Subset
  <2>4. /\ SumFunctionOnSet(f, T) = f[First(T)] + SumFunctionOnSet(f, Rest)
        /\ SumFunctionOnSet(g, T) = g[First(T)] + SumFunctionOnSet(g, Rest)
    BY <1>2, <2>1, SumFirst
  <2>5. Rest \in Good => T \in Good
    BY <2>2, <2>3, <2>4
  <2> QED BY <2>1, <2>5
<1> HIDE DEF Good
<1>3. S \in Good
  BY <1>1, <1>2, ElementInduction
<1> QED BY <1>3 DEF Good

\* Any element may be added last.
LEMMA SumRemove ==
  ASSUME NEW f, NEW S, IsFiniteSet(S), \A x \in S : f[x] \in Int, NEW x \in S
  PROVE  SumFunctionOnSet(f, S) = f[x] + SumFunctionOnSet(f, S \ {x})
<1> DEFINE Sum(T) == SumFunctionOnSet(f, T)
           Good == {T \in SUBSET S : \A y \in T : Sum(T) = f[y] + Sum(T \ {y})}
<1>1. \A T \in SUBSET S : IsFiniteSet(T) /\ Sum(T) \in Int
  BY FS_Subset, SumInt
<1>2. ASSUME NEW T \in SUBSET S, \A U \in SUBSET T : U # T => U \in Good
      PROVE  T \in Good
  <2>1. SUFFICES ASSUME NEW y \in T PROVE Sum(T) = f[y] + Sum(T \ {y})
    OBVIOUS
  <2> DEFINE c == First(T)
  <2>2. c \in T /\ Sum(T) = f[c] + Sum(T \ {c})
    BY <1>1, FirstInSet, SumFirst
  <2> HIDE DEF Sum, c
  <2>3. CASE y = c
    BY <2>2, <2>3
  <2>4. CASE y # c
    <3>1. /\ Sum(T \ {c}) = f[y] + Sum((T \ {c}) \ {y})
          /\ Sum(T \ {y}) = f[c] + Sum((T \ {y}) \ {c})
      BY <1>2, <2>2, <2>4
    <3>2. (T \ {c}) \ {y} = (T \ {y}) \ {c}
      OBVIOUS
    <3>3. f[y] \in Int /\ f[c] \in Int /\ Sum((T \ {y}) \ {c}) \in Int
      BY <1>1, <2>2
    <3>4. Sum(T) = f[c] + (f[y] + Sum((T \ {y}) \ {c}))
      BY <2>2, <3>1, <3>2
    <3>5. Sum(T \ {y}) = f[c] + Sum((T \ {y}) \ {c})
      BY <3>1
    <3> QED BY <3>3, <3>4, <3>5
  <2> QED BY <2>3, <2>4
<1> HIDE DEF Good
<1>3. S \in Good
  BY <1>2, SubsetInduction
<1> QED BY <1>3 DEF Good

\* One element more.
LEMMA SumInsert ==
  ASSUME NEW f, NEW S, IsFiniteSet(S), NEW x, x \notin S, \A y \in S \union {x} : f[y] \in Int
  PROVE  SumFunctionOnSet(f, S \union {x}) = f[x] + SumFunctionOnSet(f, S)
<1>1. IsFiniteSet(S \union {x}) /\ (S \union {x}) \ {x} = S
  BY FS_AddElement
<1> QED BY <1>1, SumRemove

\* One summand replaced.
THEOREM SumReplace ==
  ASSUME NEW f, NEW g, NEW S, IsFiniteSet(S), NEW x \in S,
         \A y \in S : f[y] \in Int /\ g[y] \in Int, \A y \in S \ {x} : f[y] = g[y]
  PROVE  SumFunctionOnSet(g, S) = SumFunctionOnSet(f, S) - f[x] + g[x]
<1>1. IsFiniteSet(S \ {x})
  BY FS_Subset
<1>2. SumFunctionOnSet(f, S \ {x}) = SumFunctionOnSet(g, S \ {x})
  BY <1>1, SumSame
<1>3. SumFunctionOnSet(f, S \ {x}) \in Int
  BY <1>1, SumInt
<1>4. /\ SumFunctionOnSet(f, S) = f[x] + SumFunctionOnSet(f, S \ {x})
      /\ SumFunctionOnSet(g, S) = g[x] + SumFunctionOnSet(g, S \ {x})
  BY SumRemove
<1>5. f[x] \in Int /\ g[x] \in Int
  OBVIOUS
<1> QED BY <1>2, <1>3, <1>4, <1>5
=============================================================================
