------------------------------ MODULE SumLemmas ------------------------------
(***************************************************************************)
(* Facts about the sums, the powers of two and the sequences that the models *)
(* of the codes and of the blocks are made of.  They are stated for sets and *)
(* functions, not for operators, so that a proof can instantiate them.       *)
(***************************************************************************)
EXTENDS Integers, FiniteSetsExt, SequencesExt, FiniteSetTheorems,
        SequenceTheorems, WellFoundedInduction, TLAPS

\* A set of numbers has a smallest one.
LEMMA Smallest ==
    ASSUME NEW C, C \subseteq Nat, C # {}
    PROVE  \E x \in C : \A y \in C : x <= y
  <1> DEFINE R == OpToRel(<, Nat)
  <1>1. IsWellFoundedOn(R, Nat)
    BY NatLessThanWellFounded
  <1>2. PICK x \in C : \A y \in C : ~ (<<y, x>> \in R)
    <2> HIDE DEF R
    <2> QED BY <1>1, WFMin
  <1>3. \A y \in C : ~(y < x)
    BY <1>2 DEF OpToRel
  <1> QED BY <1>3

\* What holds of 0, and of n + 1 when it holds of n, holds of every number.
LEMMA InductionOnSet ==
    ASSUME NEW T, 0 \in T, \A n \in Nat : n \in T => n + 1 \in T
    PROVE  Nat \subseteq T
  <1> DEFINE C == Nat \ T
  <1>1. SUFFICES ASSUME C # {} PROVE FALSE
    OBVIOUS
  <1>2. PICK x \in C : \A y \in C : x <= y
    <2>1. C \subseteq Nat
      OBVIOUS
    <2> HIDE DEF C
    <2> QED BY <1>1, <2>1, Smallest
  <1>3. x \in Nat /\ x # 0 /\ x \notin T
    BY <1>2
  <1>4. x - 1 \in Nat /\ ~(x <= x - 1) /\ x - 1 + 1 = x
    BY <1>3
  <1>5. x - 1 \in T
    BY <1>2, <1>4
  <1> QED BY <1>3, <1>4, <1>5

\* What holds of the empty set, and of a set with one element more, holds of a finite set.
LEMMA FiniteInduction ==
    ASSUME NEW S, IsFiniteSet(S), NEW C, {} \in C,
           \A s \in SUBSET S, x \in S : s \in C /\ x \notin s => s \cup {x} \in C
    PROVE  S \in C
  <1> DEFINE T == {n \in Nat : \A s \in SUBSET S : Cardinality(s) = n => s \in C}
  <1>1. \A s \in SUBSET S : IsFiniteSet(s)
    BY FS_Subset
  <1>2. 0 \in T
    BY <1>1, FS_EmptySet
  <1>3. ASSUME NEW n \in Nat, n \in T
        PROVE  n + 1 \in T
    <2> SUFFICES ASSUME NEW s \in SUBSET S, Cardinality(s) = n + 1 PROVE s \in C
      OBVIOUS
    <2>1. s # {}
      <3>1. n + 1 # 0
        OBVIOUS
      <3> QED BY <3>1, FS_EmptySet, Zenon
    <2>2. PICK x \in s : TRUE
      BY <2>1
    <2>3. Cardinality(s \ {x}) = n
      <3>1. IsFiniteSet(s)
        BY <1>1
      <3>2. Cardinality(s \ {x}) = Cardinality(s) - 1
        BY <3>1, <2>2, FS_RemoveElement
      <3>3. n + 1 - 1 = n
        OBVIOUS
      <3> QED BY <3>2, <3>3
    <2>4. s \ {x} \in C
      BY <1>3, <2>3
    <2> QED BY <2>2, <2>4, s = (s \ {x}) \cup {x}
  <1>4. Nat \subseteq T
    <2> HIDE DEF T
    <2> QED BY <1>2, <1>3, InductionOnSet
  <1>5. Cardinality(S) \in Nat
    BY FS_CardinalityType
  <1> QED BY <1>4, <1>5

-----------------------------------------------------------------------------
(* Powers of two *)

\* A power of two is the number of the subsets of a set, as the library says.
LEMMA PowerOfTwo ==
    ASSUME NEW n \in Nat
    PROVE  2^n \in Nat /\ 2^n >= 1 /\ 2^(n + 1) = 2 * 2^n
  <1> DEFINE S == 1..n
             A == SUBSET S
             B == {s \cup {n + 1} : s \in A}
  <1>1. IsFiniteSet(S) /\ Cardinality(S) = n
    BY FS_Interval
  <1>2. IsFiniteSet(A) /\ Cardinality(A) = 2^n /\ Cardinality(A) \in Nat
    BY <1>1, FS_SUBSET, FS_CardinalityType
  <1>3. {} \in A
    OBVIOUS
  <1>4. Cardinality(A) # 0
    BY <1>2, <1>3, FS_EmptySet
  <1>5. SUBSET (1..n + 1) = A \cup B
    <2>1. ASSUME NEW s \in SUBSET (1..n + 1) PROVE s \in A \cup B
      <3>1. CASE n + 1 \in s
        <4>1. s \ {n + 1} \in A
          OBVIOUS
        <4> QED BY <3>1, <4>1, s = (s \ {n + 1}) \cup {n + 1}
      <3>2. CASE n + 1 \notin s
        <4>1. \A i \in s : i \in 1..n
          BY <3>2
        <4> QED BY <4>1
      <3> QED BY <3>1, <3>2
    <2>2. A \cup B \subseteq SUBSET (1..n + 1)
      <3>1. 1..n \subseteq 1..n + 1 /\ n + 1 \in 1..n + 1
        OBVIOUS
      <3> QED BY <3>1, Zenon
    <2> QED BY <2>1, <2>2
  <1>6. A \cap B = {}
    OBVIOUS
  <1>7. IsFiniteSet(B) /\ Cardinality(B) = Cardinality(A)
    <2> DEFINE f == [s \in A |-> s \cup {n + 1}]
    <2>1. \A s \in A : n + 1 \notin s
      OBVIOUS
    <2>2. \A s, t \in A : f[s] = f[t] => s = t
      <3> SUFFICES ASSUME NEW s \in A, NEW t \in A, s \cup {n + 1} = t \cup {n + 1}
                   PROVE  s = t
        OBVIOUS
      <3>1. s = (s \cup {n + 1}) \ {n + 1} /\ t = (t \cup {n + 1}) \ {n + 1}
        BY <2>1
      <3> QED BY <3>1
    <2>3. f \in Bijection(A, B)
      <3>1. f \in [A -> B] /\ DOMAIN f = A
        OBVIOUS
      <3>2. \A t \in B : \E s \in A : f[s] = t
        OBVIOUS
      <3> HIDE DEF f, A, B
      <3>3. f \in Injection(A, B)
        BY <2>2, <3>1 DEF Injection, IsInjective
      <3>4. f \in Surjection(A, B)
        BY <3>1, <3>2 DEF Surjection
      <3> QED BY <3>3, <3>4 DEF Bijection
    <2>4. ExistsBijection(A, B)
      BY <2>3 DEF ExistsBijection
    <2> HIDE DEF A, B
    <2> QED BY <1>2, <2>4, FS_Bijection
  <1>8. Cardinality(SUBSET (1..n + 1)) = 2 * 2^n
    <2> HIDE DEF A, B
    <2>1. Cardinality(A \cup B) = Cardinality(A) + Cardinality(B) - Cardinality(A \cap B)
      BY <1>2, <1>7, FS_Union
    <2>2. Cardinality(A \cap B) = 0
      BY <1>6, FS_EmptySet
    <2>3. PICK c \in Nat : c = 2^n
      BY <1>2
    <2>4. Cardinality(A \cup B) = c + c - 0
      BY <1>2, <1>7, <2>1, <2>2, <2>3, Zenon
    <2>5. c + c - 0 = 2 * c
      OBVIOUS
    <2> QED BY <1>5, <2>3, <2>4, <2>5, Zenon
  <1>9. IsFiniteSet(1..n + 1) /\ Cardinality(1..n + 1) = n + 1
    BY FS_Interval
  <1>10. Cardinality(SUBSET (1..n + 1)) = 2^(n + 1)
    BY <1>9, FS_SUBSET
  <1> QED BY <1>2, <1>4, <1>8, <1>10

-----------------------------------------------------------------------------
(* Sums *)

\* An element of a set.
SomeOf(s) == CHOOSE x \in s : TRUE

\* g gives the sum of f over each subset of S, an element at a time.
Sums(g, f, S) ==
    g = [s \in SUBSET S |-> IF s = {} THEN 0 ELSE f[SomeOf(s)] + g[s \ {SomeOf(s)}]]

\* SomeOf picks an element of a set that is not empty.
LEMMA AnyOf == ASSUME NEW s, s # {} PROVE SomeOf(s) \in s
  BY DEF SomeOf

\* There is such a function for a finite set.
LEMMA SumsExist ==
    ASSUME NEW f, NEW S, IsFiniteSet(S)
    PROVE  \E g : Sums(g, f, S)
  <1> DEFINE Small(n) == {s \in SUBSET S : Cardinality(s) <= n}
             Is(g, n) == g = [s \in Small(n) |->
                                 IF s = {} THEN 0 ELSE f[SomeOf(s)] + g[s \ {SomeOf(s)}]]
             T == {n \in Nat : \E g : Is(g, n)}
  <1>1. \A s \in SUBSET S : IsFiniteSet(s) /\ Cardinality(s) \in Nat
    BY FS_Subset, FS_CardinalityType
  <1>2. 0 \in T
    <2>1. \A s \in Small(0) : s = {}
      <3> SUFFICES ASSUME NEW s \in SUBSET S, Cardinality(s) <= 0 PROVE s = {}
        OBVIOUS
      <3>1. Cardinality(s) = 0
        BY <1>1
      <3> QED BY <1>1, <3>1, FS_EmptySet
    <2>2. Is([s \in Small(0) |-> 0], 0)
      BY <2>1
    <2> QED BY <2>2
  <1>3. ASSUME NEW n \in Nat, n \in T
        PROVE  n + 1 \in T
    <2>1. PICK g : Is(g, n)
      BY <1>3
    <2> DEFINE h == [s \in Small(n + 1) |->
                        IF s = {} THEN 0 ELSE f[SomeOf(s)] + g[s \ {SomeOf(s)}]]
    <2>2. ASSUME NEW s \in Small(n + 1), s # {}
          PROVE  s \ {SomeOf(s)} \in Small(n) /\ s \ {SomeOf(s)} \in Small(n + 1)
      <3>1. SomeOf(s) \in s
        BY <2>2, AnyOf
      <3>2. IsFiniteSet(s) /\ Cardinality(s) \in Nat /\ Cardinality(s) <= n + 1
        BY <1>1
      <3>3. Cardinality(s \ {SomeOf(s)}) = Cardinality(s) - 1
        BY <3>1, <3>2, FS_RemoveElement, ZenonT(30)
      <3>4. Cardinality(s \ {SomeOf(s)}) <= n /\ Cardinality(s \ {SomeOf(s)}) <= n + 1
        BY <3>2, <3>3
      <3> QED BY <3>4
    <2>3. \A s \in Small(n) : s \in Small(n + 1) /\ h[s] = g[s]
      <3> SUFFICES ASSUME NEW s \in Small(n) PROVE s \in Small(n + 1) /\ h[s] = g[s]
        OBVIOUS
      <3>1. s \in Small(n + 1)
        BY <1>1
      <3>2. g[s] = IF s = {} THEN 0 ELSE f[SomeOf(s)] + g[s \ {SomeOf(s)}]
        <4> HIDE DEF Small
        <4> QED BY <2>1
      <3> HIDE DEF Small
      <3> QED BY <3>1, <3>2
    <2>4. h = [s \in Small(n + 1) |-> IF s = {} THEN 0 ELSE f[SomeOf(s)] + h[s \ {SomeOf(s)}]]
      <3>1. \A s \in Small(n + 1) : s # {} => h[s \ {SomeOf(s)}] = g[s \ {SomeOf(s)}]
        <4> HIDE DEF Small, h
        <4> QED BY <2>2, <2>3
      <3> HIDE DEF Small
      <3> QED BY <3>1
    <2>5. Is(h, n + 1)
      <3> HIDE DEF Small, h
      <3> QED BY <2>4
    <2>6. n + 1 \in Nat
      OBVIOUS
    <2> HIDE DEF h, Is
    <2> QED BY <2>5, <2>6
  <1>4. Cardinality(S) \in T
    <2>1. Cardinality(S) \in Nat
      BY FS_CardinalityType
    <2> HIDE DEF T
    <2> QED BY <1>2, <1>3, <2>1, InductionOnSet
  <1>5. Small(Cardinality(S)) = SUBSET S
    BY FS_Subset
  <1>6. PICK g : Is(g, Cardinality(S))
    BY <1>4
  <1>7. Sums(g, f, S)
    <2> HIDE DEF Small
    <2> QED BY <1>5, <1>6 DEF Sums
  <1> QED BY <1>7

\* What one step of the sum is.
LEMMA SumsStep ==
    ASSUME NEW g, NEW f, NEW S, Sums(g, f, S), NEW s \in SUBSET S
    PROVE  /\ s = {} => g[s] = 0
           /\ s # {} => /\ SomeOf(s) \in s
                        /\ g[s] = f[SomeOf(s)] + g[s \ {SomeOf(s)}]
  <1>1. g[s] = IF s = {} THEN 0 ELSE f[SomeOf(s)] + g[s \ {SomeOf(s)}]
    <2>1. Sums(g, f, S)
      OBVIOUS
    <2> QED BY <2>1 DEF Sums
  <1> QED BY <1>1, AnyOf

\* Two such functions agree where what they sum does.
LEMMA SumsAgree ==
    ASSUME NEW g, NEW h, NEW e, NEW f, NEW S, NEW T, Sums(g, e, S), Sums(h, f, T),
           IsFiniteSet(S), NEW U, U \subseteq S, U \subseteq T,
           \A x \in U : e[x] = f[x]
    PROVE  g[U] = h[U]
  <1> DEFINE C == {n \in Nat : \A s \in SUBSET U : Cardinality(s) = n => g[s] = h[s]}
  <1>1. \A s \in SUBSET U : IsFiniteSet(s) /\ s \in SUBSET S /\ s \in SUBSET T
    BY FS_Subset
  <1>2. 0 \in C
    <2> SUFFICES ASSUME NEW s \in SUBSET U, Cardinality(s) = 0 PROVE g[s] = h[s]
      OBVIOUS
    <2>1. s = {}
      BY <1>1, FS_EmptySet
    <2>2. g[{}] = 0 /\ h[{}] = 0
      BY SumsStep
    <2> QED BY <2>1, <2>2
  <1>3. ASSUME NEW n \in Nat, n \in C PROVE n + 1 \in C
    <2> SUFFICES ASSUME NEW s \in SUBSET U, Cardinality(s) = n + 1 PROVE g[s] = h[s]
      OBVIOUS
    <2>1. s # {}
      <3>1. n + 1 # 0
        OBVIOUS
      <3> QED BY <3>1, FS_EmptySet, Zenon
    <2>2. /\ SomeOf(s) \in s /\ s \in SUBSET S /\ s \in SUBSET T
          /\ g[s] = e[SomeOf(s)] + g[s \ {SomeOf(s)}] /\ h[s] = f[SomeOf(s)] + h[s \ {SomeOf(s)}]
      BY <1>1, <2>1, SumsStep
    <2>3. Cardinality(s \ {SomeOf(s)}) = n
      <3>1. Cardinality(s \ {SomeOf(s)}) = Cardinality(s) - 1
        BY <1>1, <2>2, FS_RemoveElement, ZenonT(30)
      <3>2. n + 1 - 1 = n
        OBVIOUS
      <3> QED BY <3>1, <3>2
    <2>4. g[s \ {SomeOf(s)}] = h[s \ {SomeOf(s)}]
      BY <1>3, <2>3
    <2> QED BY <2>2, <2>4
  <1>4. Nat \subseteq C
    <2> HIDE DEF C
    <2> QED BY <1>2, <1>3, InductionOnSet
  <1>5. IsFiniteSet(U) /\ Cardinality(U) \in Nat
    BY <1>1, FS_CardinalityType
  <1> QED BY <1>4, <1>5

\* The sum of the community modules is the one that such a function gives.
LEMMA SumIs ==
    ASSUME NEW f, NEW S, IsFiniteSet(S)
    PROVE  \E g : Sums(g, f, S) /\ SumFunctionOnSet(f, S) = g[S]
  <1> DEFINE g == CHOOSE g : g = [s \in SUBSET S |->
                      IF s = {} THEN 0
                      ELSE f[CHOOSE x \in s : TRUE] + g[s \ {CHOOSE x \in s : TRUE}]]
  <1>1. SumFunctionOnSet(f, S) = g[S]
    BY DEF SumFunctionOnSet, FoldFunctionOnSet, MapThenFoldSet
  <1>2. Sums(g, f, S)
    <2>1. \E h : h = [s \in SUBSET S |->
                      IF s = {} THEN 0
                      ELSE f[CHOOSE x \in s : TRUE] + h[s \ {CHOOSE x \in s : TRUE}]]
      <3>1. \E h : Sums(h, f, S)
        BY SumsExist, Zenon
      <3> QED BY <3>1 DEF Sums, SomeOf
    <2> QED BY <2>1 DEF Sums, SomeOf
  <1> QED BY <1>1, <1>2

\* The elements can be taken out in any order.
AnyOrder(g, f, S) ==
    \A s \in SUBSET S : g[s] \in Int /\ \A x \in s : g[s] = f[x] + g[s \ {x}]

\* A sum over a finite set does not depend on the order in which its elements are taken
\* away.
LEMMA SumsAnyOrder ==
    ASSUME NEW g, NEW f, NEW S, Sums(g, f, S), IsFiniteSet(S), \A x \in S : f[x] \in Int
    PROVE  AnyOrder(g, f, S)
  <1> DEFINE Ok(s) == g[s] \in Int /\ \A x \in s : g[s] = f[x] + g[s \ {x}]
             C == {n \in Nat : \A s \in SUBSET S : Cardinality(s) <= n => Ok(s)}
  <1>1. \A s \in SUBSET S : IsFiniteSet(s) /\ Cardinality(s) \in Nat
    BY FS_Subset, FS_CardinalityType
  <1>2. Ok({})
    <2>1. {} \in SUBSET S
      OBVIOUS
    <2>2. g[{}] = 0
      BY <2>1, SumsStep, Zenon
    <2> QED BY <2>2
  <1>3. 0 \in C
    <2> SUFFICES ASSUME NEW s \in SUBSET S, Cardinality(s) <= 0 PROVE Ok(s)
      OBVIOUS
    <2>1. Cardinality(s) = 0
      BY <1>1
    <2>2. s = {}
      BY <1>1, <2>1, FS_EmptySet
    <2> QED BY <1>2, <2>2
  <1>4. ASSUME NEW n \in Nat, n \in C PROVE n + 1 \in C
    <2>1. SUFFICES ASSUME NEW s \in SUBSET S, Cardinality(s) <= n + 1, s # {} PROVE Ok(s)
      <3>1. n + 1 \in Nat
        OBVIOUS
      <3> HIDE DEF Ok
      <3> QED BY <1>2, <3>1
    <2> DEFINE y == SomeOf(s)
    <2>3. y \in s /\ g[s] = f[y] + g[s \ {y}]
      BY <2>1, SumsStep
    <2> HIDE DEF y
    <2>4. \A t \in SUBSET s : t # s => t \in SUBSET S /\ Ok(t)
      <3> SUFFICES ASSUME NEW t \in SUBSET s, t # s PROVE t \in SUBSET S /\ Ok(t)
        OBVIOUS
      <3>1. Cardinality(t) <= Cardinality(s) /\ Cardinality(t) # Cardinality(s)
        BY <1>1, FS_Subset, Zenon
      <3>2. Cardinality(t) \in Nat /\ Cardinality(s) \in Nat
        BY <1>1
      <3>3. Cardinality(t) <= n
        BY <2>1, <3>1, <3>2
      <3> HIDE DEF Ok
      <3> QED BY <1>4, <3>3
    <2>5. \A x \in s : Ok(s \ {x})
      <3> HIDE DEF Ok
      <3> QED BY <2>4
    <2>6. g[s] \in Int
      <3>1. g[s \ {y}] \in Int /\ f[y] \in Int
        BY <2>3, <2>5
      <3> QED BY <2>3, <3>1
    <2>7. ASSUME NEW x \in s PROVE g[s] = f[x] + g[s \ {x}]
      <3>1. CASE x = y
        BY <2>3, <3>1
      <3>2. CASE x # y
        <4> DEFINE r == (s \ {x}) \ {y}
        <4>1. r \in SUBSET s /\ r # s
          BY <2>3
        <4>2. g[r] \in Int
          BY <2>4, <4>1
        <4>3. g[s \ {y}] = f[x] + g[r]
          <5>1. x \in s \ {y} /\ (s \ {y}) \ {x} = r
            BY <3>2
          <5> QED BY <2>3, <2>5, <5>1
        <4>4. g[s \ {x}] = f[y] + g[r]
          <5>1. y \in s \ {x}
            BY <2>3, <3>2
          <5> QED BY <2>5, <5>1
        <4>5. f[x] \in Int /\ f[y] \in Int
          BY <2>3
        <4> HIDE DEF r
        <4> QED BY <2>3, <4>2, <4>3, <4>4, <4>5
      <3> QED BY <3>1, <3>2
    <2> QED BY <2>6, <2>7
  <1>5. Nat \subseteq C
    <2> HIDE DEF C
    <2> QED BY <1>3, <1>4, InductionOnSet
  <1> QED BY <1>1, <1>5 DEF AnyOrder

\* The sum over the empty set is 0.
LEMMA SumEmpty ==
    ASSUME NEW f
    PROVE  SumFunctionOnSet(f, {}) = 0
  <1>1. IsFiniteSet({})
    BY FS_EmptySet
  <1>2. PICK g : Sums(g, f, {}) /\ SumFunctionOnSet(f, {}) = g[{}]
    BY <1>1, SumIs
  <1> QED BY <1>2, SumsStep

\* What is summed outside of the set does not matter.
LEMMA SumAgree ==
    ASSUME NEW e, NEW f, NEW S, IsFiniteSet(S), \A x \in S : e[x] = f[x]
    PROVE  SumFunctionOnSet(e, S) = SumFunctionOnSet(f, S)
  <1>1. PICK g : Sums(g, e, S) /\ SumFunctionOnSet(e, S) = g[S]
    BY SumIs
  <1>2. PICK h : Sums(h, f, S) /\ SumFunctionOnSet(f, S) = h[S]
    BY SumIs
  <1>3. g[S] = h[S]
    <2>1. S \subseteq S
      OBVIOUS
    <2>2. Sums(g, e, S) /\ Sums(h, f, S)
      BY <1>1, <1>2
    <2> QED BY <2>1, <2>2, SumsAgree
  <1> QED BY <1>1, <1>2, <1>3

\* An element can be taken out of a sum.
LEMMA SumTake ==
    ASSUME NEW f, NEW S, IsFiniteSet(S), \A y \in S : f[y] \in Int, NEW x \in S
    PROVE  SumFunctionOnSet(f, S) = f[x] + SumFunctionOnSet(f, S \ {x})
  <1>1. PICK g : Sums(g, f, S) /\ SumFunctionOnSet(f, S) = g[S]
    BY SumIs
  <1>2. IsFiniteSet(S \ {x})
    BY FS_RemoveElement
  <1>3. PICK h : Sums(h, f, S \ {x}) /\ SumFunctionOnSet(f, S \ {x}) = h[S \ {x}]
    BY <1>2, SumIs
  <1>4. g[S \ {x}] = h[S \ {x}]
    <2>1. S \ {x} \subseteq S
      OBVIOUS
    <2>2. Sums(g, f, S) /\ Sums(h, f, S \ {x})
      BY <1>1, <1>3
    <2> QED BY <2>1, <2>2, SumsAgree
  <1>5. g[S] = f[x] + g[S \ {x}]
    <2>1. AnyOrder(g, f, S)
      BY <1>1, SumsAnyOrder, Zenon
    <2> QED BY <2>1 DEF AnyOrder
  <1> QED BY <1>1, <1>3, <1>4, <1>5

\* A sum of integers is an integer.
LEMMA SumInt ==
    ASSUME NEW f, NEW S, IsFiniteSet(S), \A y \in S : f[y] \in Int
    PROVE  SumFunctionOnSet(f, S) \in Int
  <1>1. PICK g : Sums(g, f, S) /\ SumFunctionOnSet(f, S) = g[S]
    BY SumIs
  <1>2. AnyOrder(g, f, S)
    BY <1>1, SumsAnyOrder, Zenon
  <1> QED BY <1>1, <1>2 DEF AnyOrder

\* An element can be put into a sum.
LEMMA SumPut ==
    ASSUME NEW f, NEW S, IsFiniteSet(S), NEW x, x \notin S, \A y \in S \cup {x} : f[y] \in Int
    PROVE  SumFunctionOnSet(f, S \cup {x}) = SumFunctionOnSet(f, S) + f[x]
  <1>1. IsFiniteSet(S \cup {x}) /\ x \in S \cup {x} /\ (S \cup {x}) \ {x} = S
    BY FS_AddElement
  <1>2. SumFunctionOnSet(f, S \cup {x}) = f[x] + SumFunctionOnSet(f, S)
    <2> DEFINE T == S \cup {x}
    <2>1. SumFunctionOnSet(f, T) = f[x] + SumFunctionOnSet(f, T \ {x})
      <3>1. IsFiniteSet(T) /\ x \in T /\ \A y \in T : f[y] \in Int
        BY <1>1
      <3> HIDE DEF T
      <3> QED BY <3>1, SumTake
    <2> QED BY <1>1, <2>1
  <1>3. SumFunctionOnSet(f, S) \in Int /\ f[x] \in Int
    BY SumInt
  <1> QED BY <1>2, <1>3

\* What a finite set has to do with its subsets.
LEMMA SubsetsFinite ==
    ASSUME NEW S, IsFiniteSet(S)
    PROVE  \A s \in SUBSET S : IsFiniteSet(s)
  BY FS_Subset

\* A sum of natural numbers is one, and no less than any of them.
LEMMA SumNat ==
    ASSUME NEW f, NEW S, IsFiniteSet(S), \A y \in S : f[y] \in Nat
    PROVE  SumFunctionOnSet(f, S) \in Nat
  <1> DEFINE C == {s \in SUBSET S : SumFunctionOnSet(f, s) \in Nat}
  <1>1. {} \in C
    BY SumEmpty
  <1>2. ASSUME NEW s \in SUBSET S, NEW x \in S, s \in C, x \notin s
        PROVE  s \cup {x} \in C
    <2>1. IsFiniteSet(s) /\ \A y \in s \cup {x} : f[y] \in Int
      BY SubsetsFinite
    <2>2. SumFunctionOnSet(f, s \cup {x}) = SumFunctionOnSet(f, s) + f[x]
      BY <1>2, <2>1, SumPut
    <2>3. SumFunctionOnSet(f, s) \in Nat /\ f[x] \in Nat
      BY <1>2
    <2> QED BY <2>2, <2>3
  <1>3. S \in C
    <2> HIDE DEF C
    <2> QED BY <1>1, <1>2, FiniteInduction
  <1> QED BY <1>3

\* A term of a sum of naturals is at most the sum.
LEMMA SumTerm ==
    ASSUME NEW f, NEW S, IsFiniteSet(S), \A y \in S : f[y] \in Nat, NEW x \in S
    PROVE  f[x] <= SumFunctionOnSet(f, S)
  <1>1. SumFunctionOnSet(f, S) = f[x] + SumFunctionOnSet(f, S \ {x})
    BY SumTake
  <1>2. SumFunctionOnSet(f, S \ {x}) \in Nat
    BY SubsetsFinite, SumNat
  <1>3. f[x] \in Nat
    OBVIOUS
  <1> QED BY <1>1, <1>2, <1>3

\* Sums of smaller numbers are smaller.
LEMMA SumMonotone ==
    ASSUME NEW e, NEW f, NEW S, IsFiniteSet(S),
           \A y \in S : e[y] \in Int /\ f[y] \in Int /\ e[y] <= f[y]
    PROVE  SumFunctionOnSet(e, S) <= SumFunctionOnSet(f, S)
  <1> DEFINE C == {s \in SUBSET S : SumFunctionOnSet(e, s) <= SumFunctionOnSet(f, s)}
  <1>1. {} \in C
    BY SumEmpty
  <1>2. ASSUME NEW s \in SUBSET S, NEW x \in S, s \in C, x \notin s
        PROVE  s \cup {x} \in C
    <2>1. IsFiniteSet(s) /\ \A y \in s \cup {x} : e[y] \in Int
      BY SubsetsFinite
    <2>2. IsFiniteSet(s) /\ \A y \in s \cup {x} : f[y] \in Int
      BY SubsetsFinite
    <2>3. SumFunctionOnSet(e, s \cup {x}) = SumFunctionOnSet(e, s) + e[x]
      BY <1>2, <2>1, SumPut
    <2>4. SumFunctionOnSet(f, s \cup {x}) = SumFunctionOnSet(f, s) + f[x]
      BY <1>2, <2>2, SumPut
    <2>5. SumFunctionOnSet(e, s) \in Int /\ SumFunctionOnSet(f, s) \in Int
      BY <2>1, <2>2, SumInt
    <2>6. e[x] \in Int /\ f[x] \in Int /\ e[x] <= f[x]
      OBVIOUS
    <2>7. SumFunctionOnSet(e, s) <= SumFunctionOnSet(f, s)
      BY <1>2
    <2>8. SumFunctionOnSet(e, s \cup {x}) <= SumFunctionOnSet(f, s \cup {x})
      BY <2>3, <2>4, <2>5, <2>6, <2>7
    <2> QED BY <2>8
  <1>3. S \in C
    <2> HIDE DEF C
    <2> QED BY <1>1, <1>2, FiniteInduction
  <1> QED BY <1>3

\* The sum of two functions term by term.
LEMMA SumPlus ==
    ASSUME NEW e, NEW f, NEW g, NEW S, IsFiniteSet(S),
           \A y \in S : e[y] \in Int /\ f[y] \in Int /\ g[y] = e[y] + f[y]
    PROVE  SumFunctionOnSet(g, S) = SumFunctionOnSet(e, S) + SumFunctionOnSet(f, S)
  <1> DEFINE C == {s \in SUBSET S : SumFunctionOnSet(g, s)
                                        = SumFunctionOnSet(e, s) + SumFunctionOnSet(f, s)}
  <1>1. {} \in C
    BY SumEmpty
  <1>2. ASSUME NEW s \in SUBSET S, NEW x \in S, s \in C, x \notin s
        PROVE  s \cup {x} \in C
    <2>1. IsFiniteSet(s) /\ \A y \in s \cup {x} : e[y] \in Int
      BY SubsetsFinite
    <2>2. IsFiniteSet(s) /\ \A y \in s \cup {x} : f[y] \in Int
      BY SubsetsFinite
    <2>3. IsFiniteSet(s) /\ \A y \in s \cup {x} : g[y] \in Int
      BY SubsetsFinite
    <2>4. SumFunctionOnSet(e, s \cup {x}) = SumFunctionOnSet(e, s) + e[x]
      BY <1>2, <2>1, SumPut
    <2>5. SumFunctionOnSet(f, s \cup {x}) = SumFunctionOnSet(f, s) + f[x]
      BY <1>2, <2>2, SumPut
    <2>6. SumFunctionOnSet(g, s \cup {x}) = SumFunctionOnSet(g, s) + g[x]
      BY <1>2, <2>3, SumPut
    <2>7. SumFunctionOnSet(e, s) \in Int /\ SumFunctionOnSet(f, s) \in Int
      BY <2>1, <2>2, SumInt
    <2>8. e[x] \in Int /\ f[x] \in Int /\ g[x] = e[x] + f[x]
      OBVIOUS
    <2>9. SumFunctionOnSet(g, s) = SumFunctionOnSet(e, s) + SumFunctionOnSet(f, s)
      BY <1>2
    <2>10. SumFunctionOnSet(g, s \cup {x})
               = SumFunctionOnSet(e, s \cup {x}) + SumFunctionOnSet(f, s \cup {x})
      BY <2>4, <2>5, <2>6, <2>7, <2>8, <2>9
    <2> QED BY <2>10
  <1>3. S \in C
    <2> HIDE DEF C
    <2> QED BY <1>1, <1>2, FiniteInduction
  <1> QED BY <1>3

\* The terms that are 0 can be left out.
LEMMA SumOutside ==
    ASSUME NEW f, NEW S, IsFiniteSet(S), NEW U \in SUBSET S,
           \A y \in S : f[y] \in Int /\ (y \notin U => f[y] = 0)
    PROVE  SumFunctionOnSet(f, S) = SumFunctionOnSet(f, U)
  <1> DEFINE R == S \ U
             C == {s \in SUBSET R : SumFunctionOnSet(f, U \cup s) = SumFunctionOnSet(f, U)}
  <1>1. {} \in C
    <2>1. U \cup {} = U
      OBVIOUS
    <2> QED BY <2>1
  <1>2. ASSUME NEW s \in SUBSET R, NEW x \in R, s \in C, x \notin s
        PROVE  s \cup {x} \in C
    <2> DEFINE t == U \cup s
    <2>1. IsFiniteSet(t) /\ x \notin t /\ \A y \in t \cup {x} : f[y] \in Int
      BY <1>2, SubsetsFinite
    <2>2. SumFunctionOnSet(f, t \cup {x}) = SumFunctionOnSet(f, t) + f[x]
      <3> HIDE DEF t
      <3> QED BY <2>1, SumPut
    <2>3. f[x] = 0 /\ SumFunctionOnSet(f, t) \in Int
      <3>1. f[x] = 0
        OBVIOUS
      <3> HIDE DEF t
      <3> QED BY <2>1, <3>1, SumInt
    <2>4. SumFunctionOnSet(f, t \cup {x}) = SumFunctionOnSet(f, t)
      BY <2>2, <2>3
    <2>5. t \cup {x} = U \cup (s \cup {x})
      OBVIOUS
    <2>6. SumFunctionOnSet(f, t) = SumFunctionOnSet(f, U)
      BY <1>2
    <2>7. SumFunctionOnSet(f, U \cup (s \cup {x})) = SumFunctionOnSet(f, U)
      BY <2>4, <2>5, <2>6
    <2> QED BY <2>7
  <1>3. R \in C
    <2>1. IsFiniteSet(R)
      BY SubsetsFinite
    <2> HIDE DEF C, R
    <2> QED BY <1>1, <1>2, <2>1, FiniteInduction
  <1>4. U \cup R = S
    OBVIOUS
  <1> QED BY <1>3, <1>4

\* A sum of zeros.
LEMMA SumZeros ==
    ASSUME NEW f, NEW S, IsFiniteSet(S), \A y \in S : f[y] = 0
    PROVE  SumFunctionOnSet(f, S) = 0
  <1>1. {} \in SUBSET S /\ \A y \in S : f[y] \in Int /\ (y \notin {} => f[y] = 0)
    OBVIOUS
  <1>2. SumFunctionOnSet(f, S) = SumFunctionOnSet(f, {})
    BY <1>1, SumOutside
  <1> QED BY <1>2, SumEmpty

\* When one term changes, the sum changes by as much.
LEMMA SumChange ==
    ASSUME NEW e, NEW f, NEW S, IsFiniteSet(S), NEW x \in S,
           \A y \in S : e[y] \in Int /\ f[y] \in Int /\ (y # x => e[y] = f[y])
    PROVE  SumFunctionOnSet(f, S) = SumFunctionOnSet(e, S) + (f[x] - e[x])
  <1>1. \A y \in S : e[y] \in Int
    OBVIOUS
  <1>2. \A y \in S : f[y] \in Int
    OBVIOUS
  <1>3. SumFunctionOnSet(e, S) = e[x] + SumFunctionOnSet(e, S \ {x})
    BY <1>1, SumTake
  <1>4. SumFunctionOnSet(f, S) = f[x] + SumFunctionOnSet(f, S \ {x})
    BY <1>2, SumTake
  <1>5. IsFiniteSet(S \ {x}) /\ \A y \in S \ {x} : e[y] = f[y] /\ e[y] \in Int
    BY SubsetsFinite
  <1>6. SumFunctionOnSet(e, S \ {x}) = SumFunctionOnSet(f, S \ {x})
    BY <1>5, SumAgree
  <1>7. SumFunctionOnSet(e, S \ {x}) \in Int
    BY <1>5, SumInt
  <1>8. e[x] \in Int /\ f[x] \in Int
    OBVIOUS
  <1> QED BY <1>3, <1>4, <1>6, <1>7, <1>8

\* A sum over two sets that do not meet.
LEMMA SumUnion ==
    ASSUME NEW f, NEW S, NEW R, IsFiniteSet(S), IsFiniteSet(R), S \cap R = {},
           \A y \in S \cup R : f[y] \in Int
    PROVE  SumFunctionOnSet(f, S \cup R) = SumFunctionOnSet(f, S) + SumFunctionOnSet(f, R)
  <1> DEFINE C == {s \in SUBSET R : SumFunctionOnSet(f, S \cup s)
                                        = SumFunctionOnSet(f, S) + SumFunctionOnSet(f, s)}
  <1>1. SumFunctionOnSet(f, S) \in Int
    BY SumInt
  <1>2. {} \in C
    <2>1. S \cup {} = S
      OBVIOUS
    <2> QED BY <1>1, <2>1, SumEmpty
  <1>3. ASSUME NEW s \in SUBSET R, NEW x \in R, s \in C, x \notin s
        PROVE  s \cup {x} \in C
    <2> DEFINE t == S \cup s
    <2>1. IsFiniteSet(s) /\ \A y \in s \cup {x} : f[y] \in Int
      BY SubsetsFinite
    <2>2. IsFiniteSet(t) /\ x \notin t /\ \A y \in t \cup {x} : f[y] \in Int
      BY <1>3, <2>1, FS_Union
    <2>3. SumFunctionOnSet(f, t \cup {x}) = SumFunctionOnSet(f, t) + f[x]
      <3> HIDE DEF t
      <3> QED BY <2>2, SumPut
    <2>4. SumFunctionOnSet(f, s \cup {x}) = SumFunctionOnSet(f, s) + f[x]
      BY <1>3, <2>1, SumPut
    <2>5. f[x] \in Int /\ SumFunctionOnSet(f, s) \in Int
      BY <2>1, SumInt
    <2>6. SumFunctionOnSet(f, t) = SumFunctionOnSet(f, S) + SumFunctionOnSet(f, s)
      BY <1>3
    <2>7. SumFunctionOnSet(f, t \cup {x}) = SumFunctionOnSet(f, S) + SumFunctionOnSet(f, s \cup {x})
      <3> HIDE DEF t
      <3> QED BY <1>1, <2>3, <2>4, <2>5, <2>6
    <2>8. t \cup {x} = S \cup (s \cup {x})
      OBVIOUS
    <2> QED BY <2>7, <2>8
  <1>4. R \in C
    <2> HIDE DEF C
    <2> QED BY <1>2, <1>3, FiniteInduction
  <1> QED BY <1>4

\* The sum over one number more.
LEMMA SumUpTo ==
    ASSUME NEW f, NEW m \in Int, NEW n \in Int, m <= n + 1, \A i \in m..n + 1 : f[i] \in Int
    PROVE  SumFunctionOnSet(f, m..n + 1) = SumFunctionOnSet(f, m..n) + f[n + 1]
  <1> DEFINE S == m..n
  <1>1. IsFiniteSet(S)
    BY FS_Interval
  <1>2. S \cup {n + 1} = m..n + 1 /\ n + 1 \notin S
    OBVIOUS
  <1>3. \A y \in S \cup {n + 1} : f[y] \in Int
    BY <1>2
  <1>4. SumFunctionOnSet(f, S \cup {n + 1}) = SumFunctionOnSet(f, S) + f[n + 1]
    <2> HIDE DEF S
    <2> QED BY <1>1, <1>2, <1>3, SumPut
  <1> QED BY <1>2, <1>4

-----------------------------------------------------------------------------
(* Sequences *)

\* The sum of two sequences of numbers.
LEMMA SumConcat ==
    ASSUME NEW a \in Seq(Int), NEW b \in Seq(Int)
    PROVE  SumFunction(a \o b) = SumFunction(a) + SumFunction(b)
  <1> DEFINE m == Len(a)
             ab == a \o b
             T == {n \in Nat : n <= Len(b) =>
                      SumFunctionOnSet(ab, 1..m + n)
                          = SumFunctionOnSet(a, 1..m) + SumFunctionOnSet(b, 1..n)}
  <1>1. /\ m \in Nat /\ Len(b) \in Nat /\ Len(ab) = m + Len(b)
        /\ \A i \in 1..m : ab[i] = a[i] /\ a[i] \in Int
        /\ \A i \in 1..Len(b) : ab[m + i] = b[i] /\ b[i] \in Int
        /\ \A i \in 1..m + Len(b) : ab[i] \in Int
    OBVIOUS
  <1>2. 0 \in T
    <2>1. SumFunctionOnSet(ab, 1..m) = SumFunctionOnSet(a, 1..m)
      <3>1. IsFiniteSet(1..m) /\ \A i \in 1..m : ab[i] = a[i]
        BY <1>1, FS_Interval
      <3> HIDE DEF ab, m
      <3> QED BY <3>1, SumAgree
    <2>2. SumFunctionOnSet(a, 1..m) \in Int
      <3>1. IsFiniteSet(1..m) /\ \A i \in 1..m : a[i] \in Int
        BY <1>1, FS_Interval
      <3> HIDE DEF m
      <3> QED BY <3>1, SumInt
    <2>3. 1..0 = {} /\ m + 0 = m
      BY <1>1
    <2>4. SumFunctionOnSet(b, 1..0) = 0
      BY <2>3, SumEmpty
    <2> HIDE DEF ab, m
    <2> QED BY <2>1, <2>2, <2>3, <2>4
  <1>3. ASSUME NEW n \in Nat, n \in T PROVE n + 1 \in T
    <2>1. SUFFICES ASSUME n + 1 <= Len(b)
                   PROVE  SumFunctionOnSet(ab, 1..m + (n + 1))
                              = SumFunctionOnSet(a, 1..m) + SumFunctionOnSet(b, 1..n + 1)
      OBVIOUS
    <2>2. SumFunctionOnSet(ab, 1..m + n)
              = SumFunctionOnSet(a, 1..m) + SumFunctionOnSet(b, 1..n)
      BY <1>1, <1>3, <2>1
    <2> HIDE DEF ab, m
    <2>3. SumFunctionOnSet(ab, 1..(m + n) + 1) = SumFunctionOnSet(ab, 1..m + n) + ab[(m + n) + 1]
      <3>1. 1 \in Int /\ m + n \in Int /\ 1 <= m + n + 1 /\ \A i \in 1..(m + n) + 1 : ab[i] \in Int
        BY <1>1, <2>1
      <3> QED BY <3>1, SumUpTo
    <2>4. SumFunctionOnSet(b, 1..n + 1) = SumFunctionOnSet(b, 1..n) + b[n + 1]
      <3>1. 1 \in Int /\ n \in Int /\ 1 <= n + 1 /\ \A i \in 1..n + 1 : b[i] \in Int
        BY <1>1, <2>1
      <3> QED BY <3>1, SumUpTo
    <2>5. ab[(m + n) + 1] = b[n + 1] /\ b[n + 1] \in Int /\ m + (n + 1) = (m + n) + 1
      BY <1>1, <2>1
    <2>6. SumFunctionOnSet(a, 1..m) \in Int /\ SumFunctionOnSet(b, 1..n) \in Int
      <3>1. \A i \in 1..m : a[i] \in Int
        BY <1>1
      <3>2. \A i \in 1..n : b[i] \in Int
        BY <1>1, <2>1
      <3>3. IsFiniteSet(1..m) /\ IsFiniteSet(1..n)
        <4>1. 1 \in Int /\ m \in Int /\ n \in Int
          BY <1>1
        <4> QED BY <4>1, FS_Interval, Zenon
      <3> QED BY <3>1, <3>2, <3>3, SumInt
    <2> QED BY <2>2, <2>3, <2>4, <2>5, <2>6
  <1>4. Len(b) \in T
    <2> HIDE DEF T
    <2> QED BY <1>1, <1>2, <1>3, InductionOnSet
  <1>5. DOMAIN ab = 1..m + Len(b) /\ DOMAIN a = 1..m /\ DOMAIN b = 1..Len(b)
    OBVIOUS
  <1> QED BY <1>4, <1>5 DEF SumFunction

\* g gives what the first parts of ss are when they are put after each other.
Flattened(g, ss) ==
    g = [i \in 1..Len(ss) |-> IF i = 1 THEN ss[i] ELSE g[i - 1] \o ss[i]]

\* The sequences that grow by one part at a time exist.
LEMMA FlattenedExists ==
    ASSUME NEW ss, Len(ss) \in Nat
    PROVE  \E g : Flattened(g, ss)
  <1> DEFINE Is(g, n) == g = [i \in 1..n |-> IF i = 1 THEN ss[i] ELSE g[i - 1] \o ss[i]]
             T == {n \in Nat : \E g : Is(g, n)}
  <1>1. 0 \in T
    <2>1. Is([i \in 1..0 |-> 0], 0)
      OBVIOUS
    <2> HIDE DEF Is
    <2> QED BY <2>1
  <1>2. ASSUME NEW n \in Nat, n \in T PROVE n + 1 \in T
    <2>1. PICK g : Is(g, n)
      BY <1>2
    <2> DEFINE h == [i \in 1..n + 1 |-> IF i = 1 THEN ss[i] ELSE g[i - 1] \o ss[i]]
    <2>2. \A i \in 1..n : i \in 1..n + 1 /\ h[i] = g[i]
      <3>1. \A i \in 1..n : i \in 1..n + 1
        OBVIOUS
      <3>2. \A i \in 1..n : g[i] = IF i = 1 THEN ss[i] ELSE g[i - 1] \o ss[i]
        BY <2>1
      <3> QED BY <3>1, <3>2, Zenon
    <2>3. \A i \in 1..n + 1 : i # 1 => h[i - 1] = g[i - 1]
      <3> HIDE DEF h
      <3> QED BY <2>2
    <2>4. Is(h, n + 1)
      BY <2>3
    <2>5. n + 1 \in Nat
      OBVIOUS
    <2> HIDE DEF h, Is
    <2> QED BY <2>4, <2>5
  <1>3. Len(ss) \in T
    <2> HIDE DEF T
    <2> QED BY <1>1, <1>2, InductionOnSet
  <1>4. PICK g : Is(g, Len(ss))
    BY <1>3
  <1> QED BY <1>4 DEF Flattened

\* FlattenSeq is the last of them.
LEMMA FlattenIs ==
    ASSUME NEW ss, Len(ss) \in Nat, Len(ss) # 0
    PROVE  \E g : Flattened(g, ss) /\ FlattenSeq(ss) = g[Len(ss)]
  <1> DEFINE g == CHOOSE g : g = [i \in 1..Len(ss) |-> IF i = 1 THEN ss[i] ELSE g[i - 1] \o ss[i]]
  <1>1. FlattenSeq(ss) = g[Len(ss)]
    BY DEF FlattenSeq
  <1>2. Flattened(g, ss)
    <2>1. \E f : f = [i \in 1..Len(ss) |-> IF i = 1 THEN ss[i] ELSE f[i - 1] \o ss[i]]
      <3>1. \E f : Flattened(f, ss)
        BY FlattenedExists, Zenon
      <3> QED BY <3>1 DEF Flattened
    <2> QED BY <2>1 DEF Flattened
  <1> QED BY <1>1, <1>2

\* Each of those sequences is the one before it with a part appended.
LEMMA FlattenedStep ==
    ASSUME NEW g, NEW ss, Flattened(g, ss), Len(ss) \in Nat, NEW n \in 1..Len(ss)
    PROVE  g[n] = IF n = 1 THEN ss[n] ELSE g[n - 1] \o ss[n]
  <1>1. Flattened(g, ss)
    OBVIOUS
  <1> QED BY <1>1 DEF Flattened

\* How many elements are in the parts of ss before part k.
ElementsBefore(ss, k) == SumFunctionOnSet([i \in DOMAIN ss |-> Len(ss[i])], 1..k - 1)

\* They are those before the last part, and its own.
PartAfterPart(ss) ==
    /\ ElementsBefore(ss, 1) = 0
    /\ \A k \in 1..Len(ss) :
          /\ ElementsBefore(ss, k) \in Nat
          /\ ElementsBefore(ss, k + 1) = ElementsBefore(ss, k) + Len(ss[k])
    /\ ElementsBefore(ss, Len(ss) + 1) \in Nat

\* What is before a part grows by the length of the part before it, and reaches the
\* whole.
LEMMA ElementsBeforeSteps ==
    ASSUME NEW S, NEW ss \in Seq(Seq(S))
    PROVE  PartAfterPart(ss)
  <1> DEFINE f == [i \in DOMAIN ss |-> Len(ss[i])]
  <1>1. \A i \in 1..Len(ss) : f[i] = Len(ss[i]) /\ Len(ss[i]) \in Nat
    OBVIOUS
  <1>2. Len(ss) \in Nat
    OBVIOUS
  <1> HIDE DEF f
  <1>3. SumFunctionOnSet(f, 1..1 - 1) = 0
    <2>1. 1..1 - 1 = {}
      OBVIOUS
    <2> QED BY <2>1, SumEmpty
  <1>4. ASSUME NEW k \in 1..Len(ss) + 1 PROVE SumFunctionOnSet(f, 1..k - 1) \in Nat
    <2>1. \A i \in 1..k - 1 : f[i] \in Nat
      BY <1>1, <1>2
    <2>2. IsFiniteSet(1..k - 1)
      BY <1>2, FS_Interval
    <2> QED BY <2>1, <2>2, SumNat
  <1>5. ASSUME NEW k \in 1..Len(ss)
        PROVE  SumFunctionOnSet(f, 1..k + 1 - 1) = SumFunctionOnSet(f, 1..k - 1) + Len(ss[k])
    <2>1. 1 \in Int /\ k - 1 \in Int /\ 1 <= k - 1 + 1 /\ \A i \in 1..k - 1 + 1 : f[i] \in Int
      BY <1>1, <1>2, SMTT(60)
    <2>2. SumFunctionOnSet(f, 1..k - 1 + 1) = SumFunctionOnSet(f, 1..k - 1) + f[k - 1 + 1]
      BY <2>1, SumUpTo
    <2>3. k - 1 + 1 = k /\ k + 1 - 1 = k
      BY <1>2
    <2> QED BY <1>1, <2>2, <2>3
  <1>6. Len(ss) + 1 \in 1..Len(ss) + 1 /\ \A k \in 1..Len(ss) : k \in 1..Len(ss) + 1
    BY <1>2
  <1> QED BY <1>3, <1>4, <1>5, <1>6 DEF PartAfterPart, ElementsBefore, f

\* The elements of a part are after those of the parts before it.
PartsInPlace(ss) ==
    /\ Len(FlattenSeq(ss)) = ElementsBefore(ss, Len(ss) + 1)
    /\ \A k \in 1..Len(ss) : \A j \in 1..Len(ss[k]) :
          /\ ElementsBefore(ss, k) + j \in 1..Len(FlattenSeq(ss))
          /\ FlattenSeq(ss)[ElementsBefore(ss, k) + j] = ss[k][j]

\* A flattened sequence has each part where the lengths of those before it put it.
LEMMA FlattenElements ==
    ASSUME NEW S, NEW ss \in Seq(Seq(S))
    PROVE  FlattenSeq(ss) \in Seq(S) /\ PartsInPlace(ss)
  <1>1. CASE Len(ss) = 0
    <2>1. ss = <<>> /\ FlattenSeq(ss) = <<>>
      BY <1>1 DEF FlattenSeq
    <2>2. ElementsBefore(ss, Len(ss) + 1) = 0
      <3>1. PartAfterPart(ss)
        BY ElementsBeforeSteps
      <3>2. 0 + 1 = 1
        OBVIOUS
      <3> QED BY <1>1, <3>1, <3>2 DEF PartAfterPart
    <2>3. <<>> \in Seq(S) /\ Len(<<>>) = 0 /\ 1..0 = {}
      OBVIOUS
    <2> QED BY <1>1, <2>1, <2>2, <2>3, Zenon DEF PartsInPlace
  <1>2. CASE Len(ss) # 0
    <2>1. Len(ss) \in Nat /\ \A i \in 1..Len(ss) : ss[i] \in Seq(S) /\ Len(ss[i]) \in Nat
      OBVIOUS
    <2>2. PICK g : Flattened(g, ss) /\ FlattenSeq(ss) = g[Len(ss)]
      BY <1>2, <2>1, FlattenIs
    <2> DEFINE E(k) == ElementsBefore(ss, k)
               Ok(n) == /\ g[n] \in Seq(S) /\ Len(g[n]) = E(n + 1)
                        /\ \A k \in 1..n : \A j \in 1..Len(ss[k]) :
                              E(k) + j \in 1..Len(g[n]) /\ g[n][E(k) + j] = ss[k][j]
               T == {n \in Nat : n + 1 <= Len(ss) => Ok(n + 1)}
    <2>3. E(1) = 0 /\ \A k \in 1..Len(ss) : E(k) \in Nat /\ E(k + 1) = E(k) + Len(ss[k])
      <3>1. PartAfterPart(ss)
        BY ElementsBeforeSteps
      <3> QED BY <3>1 DEF PartAfterPart
    <2>4. \A n \in 1..Len(ss) : g[n] = IF n = 1 THEN ss[n] ELSE g[n - 1] \o ss[n]
      BY <2>1, <2>2, FlattenedStep
    <2> HIDE DEF E
    <2>5. 0 \in T
      <3>1. g[1] = ss[1] /\ E(1 + 1) = Len(ss[1]) /\ ss[1] \in Seq(S) /\ 1 \in 1..Len(ss)
        BY <1>2, <2>1, <2>3, <2>4
      <3>2. \A k \in 1..1 : k = 1
        OBVIOUS
      <3>3. Ok(1)
        BY <2>1, <2>3, <3>1, <3>2
      <3>4. 0 + 1 = 1 /\ 0 \in Nat
        OBVIOUS
      <3> HIDE DEF Ok
      <3> QED BY <3>3, <3>4
    <2>6. ASSUME NEW n \in Nat, n \in T PROVE n + 1 \in T
      <3>1. SUFFICES ASSUME n + 1 + 1 <= Len(ss) PROVE Ok(n + 1 + 1)
        <4>1. n + 1 \in Nat
          OBVIOUS
        <4> HIDE DEF Ok
        <4> QED BY <4>1
      <3> DEFINE m == n + 1
      <3>2. m \in 1..Len(ss) /\ m + 1 \in 1..Len(ss) /\ m + 1 # 1 /\ (m + 1) - 1 = m
        BY <2>1, <3>1
      <3>3. Ok(m)
        <4> HIDE DEF Ok
        <4> QED BY <2>1, <2>6, <3>2
      <3> HIDE DEF m
      <3>4. g[m + 1] = g[m] \o ss[m + 1] /\ ss[m + 1] \in Seq(S)
        <4>1. g[m + 1] = g[(m + 1) - 1] \o ss[m + 1]
          <5> DEFINE i == m + 1
          <5>1. i \in 1..Len(ss) /\ i # 1
            BY <3>2
          <5> HIDE DEF i
          <5>2. g[i] = g[i - 1] \o ss[i]
            BY <2>4, <5>1, Zenon
          <5> QED BY <5>2 DEF i
        <4>2. ss[m + 1] \in Seq(S)
          BY <2>1, <3>2
        <4> QED BY <3>2, <4>1, <4>2, Zenon
      <3>5. g[m] \in Seq(S) /\ Len(g[m]) = E(m + 1)
        BY <3>3
      <3>6. /\ g[m + 1] \in Seq(S) /\ Len(g[m + 1]) = Len(g[m]) + Len(ss[m + 1])
            /\ \A i \in 1..Len(g[m]) : g[m + 1][i] = g[m][i]
            /\ \A i \in 1..Len(ss[m + 1]) : g[m + 1][Len(g[m]) + i] = ss[m + 1][i]
        <4> DEFINE a == g[m]
                   b == ss[m + 1]
        <4>1. a \in Seq(S) /\ b \in Seq(S)
          BY <3>4, <3>5
        <4>2. g[m + 1] = a \o b
          BY <3>4
        <4> HIDE DEF a, b
        <4>3. /\ a \o b \in Seq(S) /\ Len(a \o b) = Len(a) + Len(b)
              /\ \A i \in 1..Len(a) : (a \o b)[i] = a[i]
              /\ \A i \in 1..Len(b) : (a \o b)[Len(a) + i] = b[i]
          BY <4>1
        <4> QED BY <4>2, <4>3 DEF a, b
      <3>7. Len(g[m + 1]) = E(m + 1 + 1)
        BY <2>3, <3>2, <3>5, <3>6
      <3>8. ASSUME NEW k \in 1..m + 1, NEW j \in 1..Len(ss[k])
            PROVE  E(k) + j \in 1..Len(g[m + 1]) /\ g[m + 1][E(k) + j] = ss[k][j]
        <4>1. CASE k = m + 1
          <5>1. Len(g[m]) \in Nat /\ Len(ss[m + 1]) \in Nat /\ E(k) = Len(g[m])
            BY <2>1, <3>2, <3>5, <4>1
          <5>2. j \in 1..Len(ss[m + 1])
            BY <4>1
          <5>3. PICK p \in Nat, q \in Nat : p = Len(g[m]) /\ q = Len(ss[m + 1])
            BY <5>1
          <5>4. j \in 1..q
            BY <5>2, <5>3, Zenon
          <5>5. p + j \in 1..p + q
            BY ONLY <5>4, p \in Nat, q \in Nat
          <5> QED BY <3>6, <4>1, <5>1, <5>2, <5>3, <5>5, Zenon
        <4>2. CASE k # m + 1
          <5>1. k \in 1..m
            BY <3>2, <4>2
          <5>2. E(k) + j \in 1..Len(g[m]) /\ g[m][E(k) + j] = ss[k][j]
            BY <3>3, <5>1
          <5>3. Len(g[m]) \in Nat /\ Len(ss[m + 1]) \in Nat
            BY <2>1, <3>2, <3>5
          <5>4. PICK p \in Nat, q \in Nat : p = Len(g[m]) /\ q = Len(ss[m + 1])
            BY <5>3
          <5>5. PICK i : i = E(k) + j
            OBVIOUS
          <5>6. i \in 1..p
            BY <5>2, <5>4, <5>5, Zenon
          <5>7. i \in 1..p + q
            BY ONLY <5>6, p \in Nat, q \in Nat
          <5> QED BY <3>6, <5>2, <5>4, <5>5, <5>6, <5>7, Zenon
        <4> QED BY <4>1, <4>2
      <3> QED BY <3>6, <3>7, <3>8 DEF m
    <2>7. Nat \subseteq T
      <3> HIDE DEF T
      <3> QED BY <2>5, <2>6, InductionOnSet
    <2>8. Ok(Len(ss))
      <3>1. Len(ss) - 1 \in Nat /\ Len(ss) - 1 + 1 = Len(ss) /\ Len(ss) <= Len(ss)
        BY <1>2, <2>1
      <3> HIDE DEF Ok
      <3> QED BY <2>7, <3>1
    <2> QED BY <2>2, <2>8, Zenon DEF E, PartsInPlace
  <1> QED BY <1>1, <1>2

\* Nothing flattened is nothing.
LEMMA FlattenEmpty == FlattenSeq(<<>>) = <<>>
  BY DEF FlattenSeq

\* The parts of two lists, put after each other.
LEMMA FlattenConcat ==
    ASSUME NEW S, NEW ss \in Seq(Seq(S)), NEW tt \in Seq(Seq(S))
    PROVE  FlattenSeq(ss \o tt) = FlattenSeq(ss) \o FlattenSeq(tt)
  <1> DEFINE st == ss \o tt
             m == Len(ss)
             n == Len(tt)
  <1>1. /\ st \in Seq(Seq(S)) /\ m \in Nat /\ n \in Nat /\ Len(st) = m + n
        /\ \A k \in 1..m : st[k] = ss[k] /\ ss[k] \in Seq(S)
        /\ \A k \in 1..n : st[m + k] = tt[k] /\ tt[k] \in Seq(S)
    OBVIOUS
  <1>2. FlattenSeq(ss) \in Seq(S) /\ FlattenSeq(tt) \in Seq(S)
    BY FlattenElements
  <1>3. CASE m = 0
    <2>1. ss = <<>> /\ ss \o tt = tt /\ <<>> \o FlattenSeq(tt) = FlattenSeq(tt)
      BY <1>2, <1>3
    <2> QED BY <2>1, FlattenEmpty
  <1>4. CASE n = 0
    <2>1. tt = <<>> /\ ss \o tt = ss /\ FlattenSeq(ss) \o <<>> = FlattenSeq(ss)
      BY <1>2, <1>4
    <2> QED BY <2>1, FlattenEmpty
  <1>5. CASE m # 0 /\ n # 0
    <2>1. PICK e : Flattened(e, ss) /\ FlattenSeq(ss) = e[m]
      BY <1>1, <1>5, FlattenIs
    <2>2. PICK f : Flattened(f, tt) /\ FlattenSeq(tt) = f[n]
      BY <1>1, <1>5, FlattenIs
    <2>3. PICK g : Flattened(g, st) /\ FlattenSeq(st) = g[m + n]
      <3>1. Len(st) \in Nat /\ Len(st) # 0
        BY <1>1, <1>5
      <3>2. \E g : Flattened(g, st) /\ FlattenSeq(st) = g[Len(st)]
        <4> HIDE DEF st
        <4> QED BY <3>1, FlattenIs
      <3> QED BY <1>1, <3>2
    <2>4. /\ \A i \in 1..m : e[i] = IF i = 1 THEN ss[i] ELSE e[i - 1] \o ss[i]
          /\ \A i \in 1..n : f[i] = IF i = 1 THEN tt[i] ELSE f[i - 1] \o tt[i]
      BY <1>1, <2>1, <2>2, FlattenedStep
    <2>5. \A i \in 1..m + n : g[i] = IF i = 1 THEN st[i] ELSE g[i - 1] \o st[i]
      <3>1. Len(st) \in Nat
        BY <1>1
      <3>2. \A i \in 1..Len(st) : g[i] = IF i = 1 THEN st[i] ELSE g[i - 1] \o st[i]
        <4> HIDE DEF st
        <4> QED BY <2>3, <3>1, FlattenedStep
      <3> QED BY <1>1, <3>2
    <2> HIDE DEF st, m, n
    <2> DEFINE T == {i \in Nat : i + 1 <= m => g[i + 1] = e[i + 1] /\ e[i + 1] \in Seq(S)}
               Ok(i) == g[m + i] = e[m] \o f[i] /\ f[i] \in Seq(S)
               U == {i \in Nat : i + 1 <= n => Ok(i + 1)}
    <2>6. 0 \in T
      <3>1. 1 \in 1..m /\ 1 \in 1..m + n /\ 0 + 1 = 1
        BY <1>1, <1>5
      <3>2. g[1] = e[1] /\ e[1] \in Seq(S)
        BY <1>1, <2>4, <2>5, <3>1
      <3> QED BY <3>1, <3>2
    <2>7. ASSUME NEW i \in Nat, i \in T PROVE i + 1 \in T
      <3> DEFINE j == i + 1
      <3> SUFFICES ASSUME j + 1 <= m PROVE g[j + 1] = e[j + 1] /\ e[j + 1] \in Seq(S)
        OBVIOUS
      <3>1. /\ j + 1 \in 1..m /\ j + 1 \in 1..m + n /\ j + 1 # 1 /\ (j + 1) - 1 = j
            /\ g[j] = e[j] /\ e[j] \in Seq(S)
        BY <1>1, <2>7
      <3> HIDE DEF j
      <3> DEFINE k == j + 1
      <3>2. k \in 1..m /\ k \in 1..m + n /\ k # 1 /\ k - 1 = j
        BY <3>1
      <3> HIDE DEF k
      <3>3. e[k] = e[j] \o ss[k] /\ g[k] = g[j] \o st[k] /\ st[k] = ss[k] /\ ss[k] \in Seq(S)
        BY <1>1, <2>4, <2>5, <3>2, Zenon
      <3>4. g[k] = e[k] /\ e[k] \in Seq(S)
        BY <3>1, <3>3
      <3> QED BY <3>4 DEF k
    <2>8. Nat \subseteq T
      <3> HIDE DEF T
      <3> QED BY <2>6, <2>7, InductionOnSet
    <2>9. g[m] = e[m] /\ e[m] \in Seq(S)
      <3>1. m - 1 \in Nat /\ (m - 1) + 1 = m /\ m <= m
        BY <1>1, <1>5
      <3> QED BY <2>8, <3>1
    <2>10. 0 \in U
      <3> DEFINE k == m + 1
      <3>1. k \in 1..m + n /\ k # 1 /\ k - 1 = m /\ 1 \in 1..n /\ 0 + 1 = 1
        BY <1>1, <1>5
      <3>2. st[k] = tt[1] /\ f[1] = tt[1] /\ tt[1] \in Seq(S)
        BY <1>1, <2>4, <3>1
      <3> HIDE DEF k
      <3>3. g[k] = g[m] \o st[k]
        BY <2>5, <3>1, Zenon
      <3>4. g[m + 1] = e[m] \o f[1] /\ f[1] \in Seq(S)
        BY <2>9, <3>2, <3>3 DEF k
      <3> QED BY <3>1, <3>4
    <2>11. ASSUME NEW i \in Nat, i \in U PROVE i + 1 \in U
      <3> DEFINE j == i + 1
      <3>0. SUFFICES ASSUME j + 1 <= n PROVE Ok(j + 1)
        <4>1. i + 1 \in Nat
          OBVIOUS
        <4> HIDE DEF Ok
        <4> QED BY <4>1
      <3>1. j \in Nat /\ j # 0 /\ Ok(j)
        <4>1. i + 1 <= n
          BY <1>1, <3>0
        <4> HIDE DEF Ok
        <4> QED BY <2>11, <4>1
      <3> HIDE DEF j
      <3> DEFINE k == j + 1
                 h == m + k
      <3>2. k \in 1..n /\ h \in 1..m + n /\ k # 1 /\ h # 1 /\ k - 1 = j /\ h - 1 = m + j
        <4>1. j \in Nat /\ m \in Nat /\ n \in Nat /\ m # 0 /\ j + 1 <= n
          BY <1>1, <1>5, <3>0, <3>1
        <4>0. j # 0
          BY <3>1, Zenon
        <4> HIDE DEF Ok
        <4>2. k \in Nat /\ k <= n /\ k >= 1 /\ k # 1 /\ k - 1 = j
          BY ONLY <4>0, <4>1
        <4>3. m + (j + 1) <= m + n /\ m + (j + 1) >= 1 /\ m + (j + 1) # 1 /\ (m + (j + 1)) - 1 = m + j
          BY ONLY <4>1
        <4> QED BY ONLY <4>1, <4>2, <4>3
      <3>3. st[h] = tt[k] /\ tt[k] \in Seq(S)
        <4> HIDE DEF k
        <4> QED BY <1>1, <3>2
      <3> HIDE DEF k, h
      <3>4. f[k] = f[j] \o tt[k]
        BY <2>4, <3>2, Zenon
      <3>5. g[h] = g[m + j] \o st[h]
        BY <2>5, <3>2, Zenon
      <3>6. (e[m] \o f[j]) \o tt[k] = e[m] \o (f[j] \o tt[k]) /\ f[j] \o tt[k] \in Seq(S)
        <4> DEFINE x == e[m]
                   y == f[j]
                   z == tt[k]
        <4>1. x \in Seq(S) /\ y \in Seq(S) /\ z \in Seq(S)
          BY <2>9, <3>1, <3>3
        <4> HIDE DEF x, y, z
        <4>2. (x \o y) \o z = x \o (y \o z) /\ y \o z \in Seq(S)
          BY <4>1
        <4> QED BY <4>2 DEF x, y, z
      <3>7. g[h] = e[m] \o f[k] /\ f[k] \in Seq(S)
        BY <3>1, <3>3, <3>4, <3>5, <3>6, Zenon
      <3> QED BY <3>7 DEF k, h
    <2>12. Nat \subseteq U
      <3> HIDE DEF U
      <3> QED BY <2>10, <2>11, InductionOnSet
    <2>13. g[m + n] = e[m] \o f[n]
      <3>1. n - 1 \in Nat /\ (n - 1) + 1 = n /\ n <= n
        BY <1>1, <1>5
      <3> QED BY <2>12, <3>1
    <2> QED BY <2>1, <2>2, <2>3, <2>13 DEF st
  <1> QED BY <1>3, <1>4, <1>5

\* c has the p elements of a, and then the q elements of b.
Joined(c, a, b, p, q) == /\ DOMAIN c = 1..p + q
                         /\ \A i \in 1..p : c[i] = a[i]
                         /\ \A i \in 1..q : c[p + i] = b[i]

\* The elements of two sequences after each other.
LEMMA ConcatElements ==
    ASSUME NEW S, NEW a \in Seq(S), NEW b \in Seq(S), NEW p \in Nat, NEW q \in Nat,
           Len(a) = p, Len(b) = q
    PROVE  /\ Joined(a \o b, a, b, p, q)
           /\ a \o b \in Seq(S) /\ Len(a \o b) = p + q /\ a \o b \in [1..p + q -> S]
  <1> DEFINE c == a \o b
  <1>1. c \in Seq(S) /\ Len(c) = p + q
    BY ConcatProperties
  <1>2. \A i \in 1..p + q : c[i] = IF i <= p THEN a[i] ELSE b[i - p]
    BY ConcatProperties
  <1> HIDE DEF c
  <1>3. c \in [1..p + q -> S] /\ DOMAIN c = 1..p + q
    BY <1>1
  <1>4. \A i \in 1..p : c[i] = a[i]
    <2> SUFFICES ASSUME NEW i \in 1..p PROVE c[i] = a[i]
      OBVIOUS
    <2>1. i \in 1..p + q /\ i <= p
      OBVIOUS
    <2> QED BY <1>2, <2>1, Zenon
  <1>5. \A i \in 1..q : c[p + i] = b[i]
    <2> SUFFICES ASSUME NEW i \in 1..q PROVE c[p + i] = b[i]
      OBVIOUS
    <2> DEFINE k == p + i
    <2>1. k \in 1..p + q /\ ~(k <= p) /\ k - p = i
      OBVIOUS
    <2> HIDE DEF k
    <2>2. c[k] = b[k - p]
      BY <1>2, <2>1, Zenon
    <2> QED BY <2>1, <2>2 DEF k
  <1> QED BY <1>1, <1>3, <1>4, <1>5 DEF c, Joined

-----------------------------------------------------------------------------
(* Weights *)

\* The sum of what w gives the elements of a sequence.
Weight(w, s) == SumFunction([i \in DOMAIN s |-> w[s[i]]])

\* The weight of two sequences put together is the sum of their weights.
LEMMA WeightConcat ==
    ASSUME NEW S, NEW w \in [S -> Nat], NEW a \in Seq(S), NEW b \in Seq(S)
    PROVE  /\ Weight(w, a \o b) = Weight(w, a) + Weight(w, b)
           /\ Weight(w, a) \in Nat /\ Weight(w, <<>>) = 0
  <1> DEFINE x == [i \in DOMAIN a |-> w[a[i]]]
             y == [i \in DOMAIN b |-> w[b[i]]]
             z == [i \in DOMAIN (a \o b) |-> w[(a \o b)[i]]]
  <1>1. x \in Seq(Int) /\ y \in Seq(Int) /\ z = x \o y
    <2>1. PICK p \in Nat, q \in Nat : p = Len(a) /\ q = Len(b)
      OBVIOUS
    <2>2. /\ x \in Seq(Int) /\ y \in Seq(Int) /\ Len(x) = p /\ Len(y) = q
          /\ \A i \in 1..p : x[i] = w[a[i]]
          /\ \A i \in 1..q : y[i] = w[b[i]]
      BY <2>1
    <2>3. /\ a \o b \in [1..p + q -> S] /\ DOMAIN (a \o b) = 1..p + q
          /\ \A i \in 1..p : (a \o b)[i] = a[i]
          /\ \A i \in 1..q : (a \o b)[p + i] = b[i]
      <3> DEFINE c == a \o b
      <3>1. c \in [1..p + q -> S]
        BY <2>1, ConcatElements
      <3>2. Joined(c, a, b, p, q)
        BY <2>1, ConcatElements
      <3> HIDE DEF c
      <3>3. /\ c \in [1..p + q -> S] /\ DOMAIN c = 1..p + q
            /\ \A i \in 1..p : c[i] = a[i]
            /\ \A i \in 1..q : c[p + i] = b[i]
        BY <3>1, <3>2 DEF Joined
      <3> QED BY <3>3 DEF c
    <2>4. z \in [1..p + q -> Int] /\ \A i \in 1..p + q : z[i] = w[(a \o b)[i]]
      <3> DEFINE c == a \o b
      <3>1. c \in [1..p + q -> S] /\ DOMAIN c = 1..p + q
        BY <2>3
      <3> HIDE DEF c
      <3>2. [i \in DOMAIN c |-> w[c[i]]] \in [1..p + q -> Int]
        BY <3>1
      <3>3. \A i \in 1..p + q : [k \in DOMAIN c |-> w[c[k]]][i] = w[c[i]]
        BY <3>1
      <3> QED BY <3>2, <3>3 DEF c
    <2> HIDE DEF x, y, z
    <2>5. /\ x \o y \in [1..p + q -> Int]
          /\ \A i \in 1..p : (x \o y)[i] = x[i]
          /\ \A i \in 1..q : (x \o y)[p + i] = y[i]
      <3>1. x \in Seq(Int)
        BY <2>2
      <3>2. y \in Seq(Int)
        BY <2>2
      <3>3. Len(x) = p
        BY <2>2
      <3>4. Len(y) = q
        BY <2>2
      <3> DEFINE c == x \o y
      <3>5. c \in [1..p + q -> Int]
        BY <3>1, <3>2, <3>3, <3>4, ConcatElements
      <3>6. Joined(c, x, y, p, q)
        BY <3>1, <3>2, <3>3, <3>4, ConcatElements
      <3> HIDE DEF c
      <3>7. /\ c \in [1..p + q -> Int]
            /\ \A i \in 1..p : c[i] = x[i]
            /\ \A i \in 1..q : c[p + i] = y[i]
        BY <3>5, <3>6 DEF Joined
      <3> QED BY <3>7 DEF c
    <2>6. ASSUME NEW i \in 1..p + q PROVE z[i] = (x \o y)[i]
      <3>1. CASE i <= p
        <4>1. i \in 1..p
          BY <3>1
        <4>2. z[i] = w[(a \o b)[i]] /\ (a \o b)[i] = a[i]
          BY <2>3, <2>4, <4>1, Zenon
        <4>3. (x \o y)[i] = x[i] /\ x[i] = w[a[i]]
          BY <2>2, <2>5, <4>1, Zenon
        <4> QED BY <4>2, <4>3, Zenon
      <3>2. CASE ~(i <= p)
        <4>1. PICK j \in 1..q : p + j = i
          <5>1. i - p \in 1..q /\ p + (i - p) = i
            BY <3>2
          <5> QED BY <5>1
        <4>2. z[i] = w[(a \o b)[i]] /\ (a \o b)[p + j] = b[j]
          BY <2>3, <2>4, <4>1, Zenon
        <4>3. (x \o y)[p + j] = y[j] /\ y[j] = w[b[j]]
          BY <2>2, <2>5, <4>1, Zenon
        <4> QED BY <4>1, <4>2, <4>3, Zenon
      <3> QED BY <3>1, <3>2
    <2>7. z = x \o y
      <3> DEFINE u == x \o y
      <3>1. u \in [1..p + q -> Int] /\ \A i \in 1..p + q : z[i] = u[i]
        BY <2>5, <2>6
      <3> HIDE DEF u
      <3>2. z = u
        BY <2>4, <3>1
      <3> QED BY <3>2 DEF u
    <2> QED BY <2>2, <2>7
  <1>2. SumFunction(x \o y) = SumFunction(x) + SumFunction(y)
    <2> HIDE DEF x, y
    <2> QED BY <1>1, SumConcat
  <1>3. SumFunction(x) \in Nat
    <2>1. \A i \in DOMAIN x : x[i] \in Nat
      OBVIOUS
    <2>2. IsFiniteSet(DOMAIN x)
      <3>1. DOMAIN x = 1..Len(a) /\ Len(a) \in Int /\ 1 \in Int
        OBVIOUS
      <3> QED BY <3>1, FS_Interval
    <2> HIDE DEF x
    <2> QED BY <2>1, <2>2, SumNat DEF SumFunction
  <1>4. Weight(w, <<>>) = 0
    <2> DEFINE e == [i \in DOMAIN <<>> |-> w[<<>>[i]]]
    <2>1. DOMAIN e = {}
      OBVIOUS
    <2> HIDE DEF e
    <2>2. SumFunction(e) = 0
      BY <2>1, SumEmpty DEF SumFunction
    <2> QED BY <2>2 DEF Weight, e
  <1> QED BY <1>1, <1>2, <1>3, <1>4 DEF Weight

\* A list of parts weighs what the parts weigh.
LEMMA FlattenWeight ==
    ASSUME NEW S, NEW w \in [S -> Nat], NEW ss \in Seq(Seq(S))
    PROVE  Weight(w, FlattenSeq(ss)) = SumFunction([k \in DOMAIN ss |-> Weight(w, ss[k])])
  <1> DEFINE v == [k \in DOMAIN ss |-> Weight(w, ss[k])]
             m == Len(ss)
  <1>1. m \in Nat /\ DOMAIN v = 1..m /\ DOMAIN ss = 1..m /\ \A k \in 1..m : ss[k] \in Seq(S)
    OBVIOUS
  <1>2. \A k \in 1..m : v[k] = Weight(w, ss[k]) /\ v[k] \in Nat
    BY <1>1, WeightConcat
  <1> HIDE DEF v
  <1>3. CASE m = 0
    <2>1. ss = <<>> /\ DOMAIN v = {}
      BY <1>1, <1>3
    <2>2. <<>> \in Seq(S)
      OBVIOUS
    <2>3. Weight(w, <<>>) = 0
      BY <2>2, WeightConcat
    <2>4. SumFunction(v) = 0
      BY <2>1, SumEmpty DEF SumFunction
    <2> QED BY <2>1, <2>3, <2>4, FlattenEmpty DEF v
  <1>4. CASE m # 0
    <2>1. PICK g : Flattened(g, ss) /\ FlattenSeq(ss) = g[m]
      BY <1>1, <1>4, FlattenIs
    <2>2. \A i \in 1..m : g[i] = IF i = 1 THEN ss[i] ELSE g[i - 1] \o ss[i]
      BY <1>1, <2>1, FlattenedStep
    <2> HIDE DEF m
    <2> DEFINE T == {i \in Nat : i + 1 <= m =>
                        /\ g[i + 1] \in Seq(S)
                        /\ Weight(w, g[i + 1]) = SumFunctionOnSet(v, 1..i + 1)}
    <2>3. ASSUME NEW i \in Nat, i + 1 <= m
          PROVE  SumFunctionOnSet(v, 1..i + 1) = SumFunctionOnSet(v, 1..i) + v[i + 1]
      <3>1. 1 \in Int /\ i \in Int /\ 1 <= i + 1 /\ \A k \in 1..i + 1 : v[k] \in Int
        BY <1>1, <1>2, <2>3
      <3> QED BY <3>1, SumUpTo
    <2>4. 0 \in T
      <3>1. 0 + 1 = 1 /\ 1 \in 1..m /\ 1..0 = {} /\ 0 \in Nat /\ 0 + 1 <= m
        BY <1>1, <1>4
      <3>2. SumFunctionOnSet(v, 1..1) = 0 + v[1]
        BY <2>3, <3>1, SumEmpty
      <3>3. v[1] = Weight(w, ss[1]) /\ v[1] \in Nat /\ g[1] = ss[1] /\ ss[1] \in Seq(S)
        BY <1>1, <1>2, <2>2, <3>1
      <3>4. 0 + v[1] = v[1]
        BY <3>3
      <3> QED BY <3>1, <3>2, <3>3, <3>4
    <2>5. ASSUME NEW i \in Nat, i \in T PROVE i + 1 \in T
      <3> DEFINE j == i + 1
      <3> SUFFICES ASSUME j + 1 <= m
                   PROVE  /\ g[j + 1] \in Seq(S)
                          /\ Weight(w, g[j + 1]) = SumFunctionOnSet(v, 1..j + 1)
        OBVIOUS
      <3>1. /\ j \in Nat /\ j + 1 \in 1..m /\ j + 1 # 1 /\ (j + 1) - 1 = j
            /\ g[j] \in Seq(S) /\ Weight(w, g[j]) = SumFunctionOnSet(v, 1..j)
        BY <1>1, <2>5
      <3> HIDE DEF j
      <3> DEFINE k == j + 1
      <3>2. k \in 1..m /\ k # 1 /\ k - 1 = j
        BY <3>1
      <3>3. SumFunctionOnSet(v, 1..k) = SumFunctionOnSet(v, 1..j) + v[k]
        BY <2>3, <3>1
      <3> HIDE DEF k
      <3>4. g[k] = g[j] \o ss[k] /\ ss[k] \in Seq(S)
        BY <1>1, <2>2, <3>2, Zenon
      <3>5. Weight(w, g[j] \o ss[k]) = Weight(w, g[j]) + Weight(w, ss[k])
        <4> DEFINE x == g[j]
                   y == ss[k]
        <4>1. x \in Seq(S) /\ y \in Seq(S)
          BY <3>1, <3>4
        <4> HIDE DEF x, y
        <4>2. Weight(w, x \o y) = Weight(w, x) + Weight(w, y)
          BY <4>1, WeightConcat
        <4> QED BY <4>2 DEF x, y
      <3>6. g[j] \o ss[k] \in Seq(S)
        BY <3>1, <3>4
      <3>7. v[k] = Weight(w, ss[k])
        BY <1>2, <3>2
      <3>8. g[k] \in Seq(S) /\ Weight(w, g[k]) = SumFunctionOnSet(v, 1..k)
        BY <3>1, <3>3, <3>4, <3>5, <3>6, <3>7, Zenon
      <3> QED BY <3>8 DEF k
    <2>6. Nat \subseteq T
      <3> HIDE DEF T
      <3> QED BY <2>4, <2>5, InductionOnSet
    <2>7. Weight(w, g[m]) = SumFunctionOnSet(v, 1..m)
      <3>1. m - 1 \in Nat /\ (m - 1) + 1 = m /\ m <= m
        BY <1>1, <1>4
      <3> QED BY <2>6, <3>1
    <2> QED BY <1>1, <2>1, <2>7 DEF SumFunction, v
  <1> QED BY <1>3, <1>4

=============================================================================
