-------------------------- MODULE HuffmanTreeProofs --------------------------
(***************************************************************************)
(* Proofs about build_tree: for every alphabet, all frequencies and every    *)
(* limit that leaves room for a code, IInv is invariant; so the lengths are   *)
(* those of a complete code, and opt_len_ and static_len_ its bits.  And of    *)
(* inflate_table: it refuses what is no code, and nothing that was built.     *)
(***************************************************************************)
EXTENDS HuffmanCode, HuffmanTreeInv, SumLemmas

-----------------------------------------------------------------------------
(* pqdownheap *)

\* The son that a node changes places with.
SonOf(hp, L, f, d, j) ==
    IF 2 * j < L /\ smaller(f, d, hp[2 * j + 1], hp[2 * j]) THEN 2 * j + 1 ELSE 2 * j

\* The heaps that the rounds of pqdownheap make, by the place they have come to.
Downs(g, hp, L, f, d, v) ==
    g = [j \in 1..L |->
            IF 2 * j > L \/ smaller(f, d, v, hp[SonOf(hp, L, f, d, j)])
            THEN [hp EXCEPT ![j] = v]
            ELSE [g[SonOf(hp, L, f, d, j)] EXCEPT ![j] = hp[SonOf(hp, L, f, d, j)]]]

\* A son is further down the heap, and in it.
LEMMA SonBelow ==
    ASSUME NEW hp, NEW L \in Nat, NEW f, NEW d, NEW j \in 1..L, 2 * j <= L
    PROVE  /\ SonOf(hp, L, f, d, j) \in {2 * j, 2 * j + 1}
           /\ SonOf(hp, L, f, d, j) \in j + 1..L
  BY DEF SonOf

\* There are such heaps.
LEMMA DownsExist ==
    ASSUME NEW hp, NEW L \in Nat, NEW f, NEW d, NEW v
    PROVE  \E g : Downs(g, hp, L, f, d, v)
  <1> DEFINE Son(j) == SonOf(hp, L, f, d, j)
             Ends(j) == 2 * j > L \/ smaller(f, d, v, hp[Son(j)])
             Put(j) == [hp EXCEPT ![j] = v]
             Step(g, j) == [g EXCEPT ![j] = hp[Son(j)]]
             Is(g, n) == g = [j \in L - n + 1..L |-> IF Ends(j) THEN Put(j) ELSE Step(g[Son(j)], j)]
             T == {n \in Nat : n <= L => \E g : Is(g, n)}
  <1>1. \A j \in 1..L : ~Ends(j) => Son(j) \in j + 1..L
    BY SonBelow
  <1>2. \A g : Is(g, L) <=> Downs(g, hp, L, f, d, v)
    <2>1. L - L + 1 = 1
      OBVIOUS
    <2> QED BY <2>1 DEF Downs
  <1> HIDE DEF Son, Ends, Put, Step
  <1>3. 0 \in T
    <2>1. L - 0 + 1..L = {}
      OBVIOUS
    <2>2. Is([j \in L - 0 + 1..L |-> 0], 0)
      BY <2>1
    <2> QED BY <2>2
  <1>4. ASSUME NEW n \in Nat, n \in T PROVE n + 1 \in T
    <2> SUFFICES ASSUME n + 1 <= L PROVE \E g : Is(g, n + 1)
      OBVIOUS
    <2>1. PICK g : Is(g, n)
      BY <1>4
    <2> DEFINE a == L - n
    <2>2. a \in 1..L /\ L - (n + 1) + 1 = a /\ L - n + 1 = a + 1
      OBVIOUS
    <2> HIDE DEF a
    <2>3. \A j \in a + 1..L : g[j] = IF Ends(j) THEN Put(j) ELSE Step(g[Son(j)], j)
      BY <2>1, <2>2
    <2> DEFINE e == [j \in a..L |-> IF j # a THEN g[j] ELSE IF Ends(j) THEN Put(j) ELSE Step(g[Son(j)], j)]
    <2>4. ASSUME NEW j \in a..L
          PROVE  e[j] = IF Ends(j) THEN Put(j) ELSE Step(e[Son(j)], j)
      <3>1. j \in 1..L
        BY <2>2
      <3>2. ~Ends(j) => e[Son(j)] = g[Son(j)]
        <4>1. ~Ends(j) => Son(j) \in a..L /\ Son(j) # a
          BY <1>1, <2>2, <3>1
        <4> QED BY <4>1
      <3>3. e[j] = IF Ends(j) THEN Put(j) ELSE Step(g[Son(j)], j)
        <4>1. CASE j = a
          BY <4>1
        <4>2. CASE j # a
          <5>1. j \in a + 1..L
            BY <2>2, <4>2
          <5>2. e[j] = g[j]
            BY <4>2
          <5> HIDE DEF e
          <5> QED BY <2>3, <5>1, <5>2
        <4> QED BY <4>1, <4>2
      <3> HIDE DEF e
      <3> QED BY <3>2, <3>3
    <2>5. e = [j \in a..L |-> e[j]]
      OBVIOUS
    <2> HIDE DEF e
    <2>6. Is(e, n + 1)
      BY <2>2, <2>4, <2>5
    <2> QED BY <2>6
  <1>5. L \in T
    <2> HIDE DEF T
    <2> QED BY <1>3, <1>4, InductionOnSet
  <1>6. \E g : Is(g, L)
    BY <1>5
  <1> HIDE DEF Is
  <1> QED BY <1>2, <1>6

\* pqdownheap is the heap that its rounds make from the place it is called for.
LEMMA DownIs ==
    ASSUME NEW hp, NEW L \in Nat, NEW f, NEW d, NEW k \in 1..L
    PROVE  \E g : Downs(g, hp, L, f, d, hp[k]) /\ pqdownheap(hp, L, f, d, k) = g[k]
  <1> DEFINE g == CHOOSE e : Downs(e, hp, L, f, d, hp[k])
  <1>1. Downs(g, hp, L, f, d, hp[k])
    BY DownsExist
  <1>2. pqdownheap(hp, L, f, d, k) = g[k]
    BY DEF pqdownheap, Downs, SonOf
  <1> QED BY <1>1, <1>2

\* A heap after a node went down from place j, and what is known of it.
KeptDown(e, hp, L, j) == \A i \in Nodes : (i < 2 * j /\ i # j) \/ i > L => e[i] = hp[i]
SameNodes(e, hp, L, v, j) == {e[i] : i \in j..L} = {hp[i] : i \in j + 1..L} \cup {v}
Once(hp, a, L) == \A p, q \in a..L : hp[p] = hp[q] => p = q
StillOnce(e, hp, L, v, j) ==
    Once(hp, j + 1, L) /\ (\A p \in j + 1..L : hp[p] # v) => Once(e, j, L)
TopOf(e, hp, L, f, d, v, j) == e[j] = v \/ (2 * j <= L /\ e[j] = hp[SonOf(hp, L, f, d, j)])
StillOrdered(e, hp, L, f, d, j) == Ordered(hp, L, f, d, j + 1) => Ordered(e, L, f, d, j)
DownOk(e, hp, L, f, d, v, j) ==
    /\ e \in [Nodes -> Nodes]
    /\ KeptDown(e, hp, L, j)
    /\ SameNodes(e, hp, L, v, j)
    /\ StillOnce(e, hp, L, v, j)
    /\ TopOf(e, hp, L, f, d, v, j)
    /\ StillOrdered(e, hp, L, f, d, j)

\* Of two nodes one is no more frequent than the other.
LEMMA SmallerTotal ==
    ASSUME NEW f \in [Nodes -> Nat], NEW d \in [Nodes -> Nat], NEW n \in Nodes, NEW m \in Nodes
    PROVE  /\ smaller(f, d, n, m) \/ smaller(f, d, m, n)
           /\ smaller(f, d, n, m) => f[n] <= f[m]
  BY DEF smaller

\* The order of the heap is transitive.
LEMMA SmallerTransitive ==
    ASSUME NEW f \in [Nodes -> Nat], NEW d \in [Nodes -> Nat],
           NEW n \in Nodes, NEW m \in Nodes, NEW o \in Nodes,
           smaller(f, d, n, m), smaller(f, d, m, o)
    PROVE  smaller(f, d, n, o)
  BY DEF smaller

\* The nodes are numbers from 0 on.
LEMMA NodesAre == heap_size \in Nat /\ Last_ \in Nat /\ heap_size = Last_ + 1
                  /\ Nodes = 0..Last_ /\ Last_ = 2 * elems /\ elems \in Nat /\ elems >= 3
                  /\ Symbols = 0..elems - 1
  BY AlphabetAssumption DEF heap_size, Nodes, Last_, Symbols

\* A node that stays where it is.
LEMMA DownEnds ==
    ASSUME NEW hp \in [Nodes -> Nodes], NEW L \in Nat, L <= Last_,
           NEW f \in [Nodes -> Nat], NEW d \in [Nodes -> Nat], NEW v \in Nodes,
           NEW j \in 1..L, 2 * j > L \/ smaller(f, d, v, hp[SonOf(hp, L, f, d, j)])
    PROVE  DownOk([hp EXCEPT ![j] = v], hp, L, f, d, v, j)
  <1> DEFINE e == [hp EXCEPT ![j] = v]
  <1>3. 1..L \subseteq Nodes
    BY NodesAre
  <1>1. e \in [Nodes -> Nodes] /\ j \in Nodes
    <2>1. j \in Nodes
      BY <1>3
    <2> QED BY <2>1
  <1>2. e[j] = v /\ \A i \in Nodes : i # j => e[i] = hp[i]
    BY <1>1
  <1> HIDE DEF e
  <1>4. KeptDown(e, hp, L, j)
    BY <1>2 DEF KeptDown
  <1>5. SameNodes(e, hp, L, v, j)
    <2>1. \A i \in j..L : e[i] = v \/ \E k \in j + 1..L : e[i] = hp[k]
      <3> TAKE i \in j..L
      <3>1. i # j => i \in j + 1..L /\ e[i] = hp[i]
        BY <1>2, <1>3
      <3> QED BY <1>2, <3>1
    <2>2. \A k \in j + 1..L : k \in j..L /\ e[k] = hp[k]
      BY <1>2, <1>3
    <2>3. j \in j..L
      OBVIOUS
    <2> QED BY <1>2, <2>1, <2>2, <2>3 DEF SameNodes
  <1>6. StillOnce(e, hp, L, v, j)
    <2>1. \A i \in j..L : i # j => i \in j + 1..L /\ e[i] = hp[i]
      BY <1>2, <1>3
    <2> QED BY <1>2, <2>1 DEF StillOnce, Once
  <1>7. StillOrdered(e, hp, L, f, d, j)
    <2> SUFFICES ASSUME Ordered(hp, L, f, d, j + 1), NEW i \in j..L, NEW s \in {2 * i, 2 * i + 1}, s <= L
                 PROVE  smaller(f, d, e[i], e[s])
      BY DEF StillOrdered, Ordered
    <2>1. s \in Nodes /\ s # j /\ e[s] = hp[s] /\ i \in Nodes /\ hp[s] \in Nodes /\ s \in 1..L
      BY <1>2, <1>3
    <2>2. CASE i # j
      <3>1. e[i] = hp[i]
        BY <1>2, <2>1, <2>2
      <3> QED BY <2>1, <2>2, <3>1 DEF Ordered
    <2>3. CASE i = j
      <3> DEFINE t == SonOf(hp, L, f, d, j)
      <3>1. t \in {2 * j, 2 * j + 1} /\ t \in j + 1..L /\ smaller(f, d, v, hp[t])
        BY <2>3, SonBelow
      <3>2. smaller(f, d, hp[t], hp[s])
        <4>1. s = t => smaller(f, d, hp[t], hp[s])
          BY <2>1, SmallerTotal
        <4>2. s # t /\ t = 2 * j => ~smaller(f, d, hp[s], hp[t])
          BY <2>3 DEF SonOf
        <4>3. s # t /\ t = 2 * j + 1 => smaller(f, d, hp[t], hp[s])
          BY <2>3 DEF SonOf
        <4>4. hp[s] \in Nodes /\ hp[t] \in Nodes
          BY <1>3, <2>1, <3>1
        <4> QED BY <3>1, <4>1, <4>2, <4>3, <4>4, SmallerTotal
      <3>3. hp[s] \in Nodes /\ hp[t] \in Nodes
        BY <1>3, <2>1, <3>1
      <3> HIDE DEF t
      <3>4. smaller(f, d, v, hp[s])
        BY <3>1, <3>2, <3>3, SmallerTransitive
      <3> QED BY <1>2, <2>1, <2>3, <3>4
    <2> QED BY <2>2, <2>3
  <1> QED BY <1>1, <1>2, <1>4, <1>5, <1>6, <1>7 DEF DownOk, TopOf, e

\* A node that changes places with its smaller son.
LEMMA DownGoes ==
    ASSUME NEW hp \in [Nodes -> Nodes], NEW L \in Nat, L <= Last_,
           NEW f \in [Nodes -> Nat], NEW d \in [Nodes -> Nat], NEW v \in Nodes,
           NEW j \in 1..L, 2 * j <= L, ~smaller(f, d, v, hp[SonOf(hp, L, f, d, j)]),
           NEW r, DownOk(r, hp, L, f, d, v, SonOf(hp, L, f, d, j))
    PROVE  DownOk([r EXCEPT ![j] = hp[SonOf(hp, L, f, d, j)]], hp, L, f, d, v, j)
  <1> DEFINE t == SonOf(hp, L, f, d, j)
             e == [r EXCEPT ![j] = hp[t]]
  <1>0. 1..L \subseteq Nodes /\ \A i \in Nodes : i \in Nat
    BY NodesAre
  <1>1. t \in {2 * j, 2 * j + 1} /\ t \in j + 1..L
    BY SonBelow
  <1>2. \A s \in {2 * j, 2 * j + 1} : s <= L => smaller(f, d, hp[t], hp[s])
    <2> TAKE s \in {2 * j, 2 * j + 1}
    <2> HAVE s <= L
    <2>1. hp[s] \in Nodes /\ hp[t] \in Nodes
      <3>1. s \in 1..L /\ t \in 1..L
        BY <1>1
      <3> HIDE DEF t
      <3> QED BY <1>0, <3>1
    <2>2. s = t => smaller(f, d, hp[t], hp[s])
      BY <2>1, SmallerTotal
    <2>3. s # t /\ t = 2 * j => ~smaller(f, d, hp[s], hp[t])
      BY DEF SonOf
    <2>4. s # t /\ t = 2 * j + 1 => smaller(f, d, hp[t], hp[s])
      BY DEF SonOf
    <2> QED BY <1>1, <2>1, <2>2, <2>3, <2>4, SmallerTotal
  <1>3. DownOk(r, hp, L, f, d, v, t) /\ ~smaller(f, d, v, hp[t])
    OBVIOUS
  <1>4. r \in [Nodes -> Nodes] /\ j \in Nodes /\ hp[t] \in Nodes
    <2>1. r \in [Nodes -> Nodes]
      BY <1>3 DEF DownOk
    <2>2. j \in 1..L /\ t \in 1..L
      BY <1>1
    <2> HIDE DEF t
    <2> QED BY <1>0, <2>1, <2>2
  <1>5. e \in [Nodes -> Nodes] /\ e[j] = hp[t] /\ \A i \in Nodes : i # j => e[i] = r[i]
    BY <1>4
  <1> HIDE DEF t, e
  <1>6. \A i \in Nodes : (i < 2 * t /\ i # t) \/ i > L => r[i] = hp[i]
    BY <1>3 DEF DownOk, KeptDown
  <1>7. KeptDown(e, hp, L, j)
    BY <1>0, <1>1, <1>5, <1>6 DEF KeptDown
  <1>8. {r[i] : i \in t..L} = {hp[i] : i \in t + 1..L} \cup {v}
    BY <1>3 DEF DownOk, SameNodes
  <1>9. \A i \in j + 1..t - 1 : i \in Nodes /\ e[i] = hp[i] /\ i \in j + 1..L /\ i # t
    BY <1>0, <1>1, <1>5, <1>6
  <1>10. \A i \in t..L : i \in Nodes /\ e[i] = r[i] /\ i # j
    BY <1>0, <1>1, <1>5
  <1>11. SameNodes(e, hp, L, v, j)
    <2>1. ASSUME NEW i \in j..L PROVE e[i] = v \/ \E k \in j + 1..L : e[i] = hp[k]
      <3>1. CASE i = j
        BY <1>1, <1>5, <3>1
      <3>2. CASE i \in j + 1..t - 1
        BY <1>9, <3>2
      <3>3. CASE i \in t..L
        <4>1. e[i] = v \/ \E k \in t + 1..L : e[i] = hp[k]
          BY <1>8, <1>10, <3>3
        <4>2. \A k \in t + 1..L : k \in j + 1..L
          BY <1>1
        <4> QED BY <4>1, <4>2
      <3> QED BY <1>1, <3>1, <3>2, <3>3
    <2>2. ASSUME NEW k \in j + 1..L PROVE \E i \in j..L : e[i] = hp[k]
      <3>1. CASE k = t
        <4>1. j \in j..L
          OBVIOUS
        <4> QED BY <1>5, <3>1, <4>1
      <3>2. CASE k < t
        <4>1. k \in j + 1..t - 1 /\ k \in j..L
          BY <1>1, <3>2
        <4> QED BY <1>9, <4>1
      <3>3. CASE k > t
        <4>1. k \in t + 1..L
          BY <1>1, <3>3
        <4>2. PICK i \in t..L : r[i] = hp[k]
          BY <1>8, <4>1
        <4>3. i \in j..L
          BY <1>1
        <4> QED BY <1>10, <4>2, <4>3
      <3> QED BY <1>1, <3>1, <3>2, <3>3
    <2>3. \E i \in j..L : e[i] = v
      <3>1. PICK i \in t..L : r[i] = v
        BY <1>8
      <3>2. i \in j..L
        BY <1>1
      <3> QED BY <1>10, <3>1, <3>2
    <2> QED BY <2>1, <2>2, <2>3 DEF SameNodes
  <1>12. StillOnce(e, hp, L, v, j)
    <2> SUFFICES ASSUME Once(hp, j + 1, L), \A p \in j + 1..L : hp[p] # v PROVE Once(e, j, L)
      BY DEF StillOnce
    <2>1. Once(r, t, L)
      <3>1. Once(hp, t + 1, L) /\ \A p \in t + 1..L : hp[p] # v
        BY <1>1 DEF Once
      <3> QED BY <1>3, <3>1 DEF DownOk, StillOnce
    <2>2. \A i \in j + 1..t - 1, k \in t..L : e[i] # e[k]
      <3> TAKE i \in j + 1..t - 1, k \in t..L
      <3>1. e[k] = v \/ \E k2 \in t + 1..L : e[k] = hp[k2]
        BY <1>8, <1>10
      <3>2. e[i] = hp[i] /\ i \in j + 1..L
        BY <1>9
      <3>3. \A k2 \in t + 1..L : k2 \in j + 1..L /\ k2 # i
        BY <1>1
      <3> QED BY <3>1, <3>2, <3>3 DEF Once
    <2>3. \A k \in t..L : e[k] # e[j]
      <3> TAKE k \in t..L
      <3>1. e[k] = v \/ \E k2 \in t + 1..L : e[k] = hp[k2]
        BY <1>8, <1>10
      <3>2. \A k2 \in t + 1..L : k2 \in j + 1..L /\ k2 # t
        BY <1>1
      <3> QED BY <1>1, <1>5, <3>1, <3>2 DEF Once
    <2>4. \A i \in j + 1..t - 1 : e[i] # e[j]
      <3> TAKE i \in j + 1..t - 1
      <3>1. e[i] = hp[i] /\ i \in j + 1..L /\ i # t
        BY <1>9
      <3> QED BY <1>1, <1>5, <3>1 DEF Once
    <2>5. \A i, k \in j + 1..t - 1 : e[i] = e[k] => i = k
      BY <1>9 DEF Once
    <2>6. \A i, k \in t..L : e[i] = e[k] => i = k
      BY <1>10, <2>1 DEF Once
    <2>7. \A i \in j..L : i = j \/ i \in j + 1..t - 1 \/ i \in t..L
      BY <1>1
    <2> SUFFICES ASSUME NEW i \in j..L, NEW k \in j..L, e[i] = e[k] PROVE i = k
      BY DEF Once
    <2>8. CASE i = j
      BY <2>3, <2>4, <2>7, <2>8
    <2>9. CASE i \in j + 1..t - 1
      BY <2>2, <2>4, <2>5, <2>7, <2>9
    <2>10. CASE i \in t..L
      BY <2>2, <2>3, <2>6, <2>7, <2>10
    <2> QED BY <2>7, <2>8, <2>9, <2>10
  <1>13. StillOrdered(e, hp, L, f, d, j)
    <2> SUFFICES ASSUME Ordered(hp, L, f, d, j + 1), NEW i \in j..L, NEW s \in {2 * i, 2 * i + 1}, s <= L
                 PROVE  smaller(f, d, e[i], e[s])
      BY DEF StillOrdered, Ordered
    <2>1. Ordered(r, L, f, d, t)
      <3>1. Ordered(hp, L, f, d, t + 1)
        BY <1>1 DEF Ordered
      <3> QED BY <1>3, <3>1 DEF DownOk, StillOrdered
    <2>2. s \in Nodes /\ i \in Nodes /\ s > i
      <3>1. s \in 1..L /\ i \in 1..L /\ s > i
        OBVIOUS
      <3> QED BY <1>0, <3>1
    <2>3. CASE i = j
      <3>1. e[i] = hp[t]
        BY <1>5, <2>3
      <3>2. CASE s # t
        <4>1. e[s] = hp[s]
          <5>1. s < 2 * t /\ s # j
            BY <1>1, <2>3
          <5> QED BY <1>5, <1>6, <2>2, <3>2, <5>1
        <4> QED BY <1>2, <2>3, <3>1, <4>1
      <3>3. CASE s = t
        <4>1. e[s] = r[t]
          BY <1>5, <2>2, <2>3, <3>3
        <4>2. TopOf(r, hp, L, f, d, v, t)
          BY <1>3 DEF DownOk
        <4>3. CASE r[t] = v
          BY <1>3, <1>4, <3>1, <4>1, <4>3, SmallerTotal
        <4>4. CASE r[t] # v
          <5> DEFINE u == SonOf(hp, L, f, d, t)
          <5>1. 2 * t <= L /\ r[t] = hp[u]
            BY <4>2, <4>4 DEF TopOf
          <5>2. t \in 1..L
            BY <1>1
          <5>3. u \in {2 * t, 2 * t + 1} /\ u \in t + 1..L
            BY <5>1, <5>2, SonBelow
          <5> HIDE DEF u
          <5>4. smaller(f, d, hp[t], hp[u])
            BY <1>1, <5>3 DEF Ordered
          <5> QED BY <3>1, <4>1, <5>1, <5>4
        <4> QED BY <4>3, <4>4
      <3> QED BY <3>2, <3>3
    <2>4. CASE i \in j + 1..t - 1
      <3>1. s # t /\ s < 2 * t /\ s # j
        BY <1>1, <2>4
      <3>2. e[s] = hp[s] /\ e[i] = hp[i]
        BY <1>5, <1>6, <1>9, <2>2, <2>4, <3>1
      <3> QED BY <2>4, <3>2 DEF Ordered
    <2>5. CASE i \in t..L
      <3>1. s \in t..L
        <4>1. s \in Nat /\ i \in Nat /\ s > i /\ i >= t /\ t \in Nat
          BY <1>0, <1>1, <2>2, <2>5
        <4> QED BY <4>1
      <3>2. smaller(f, d, r[i], r[s])
        BY <2>1, <2>5 DEF Ordered
      <3> QED BY <1>10, <2>5, <3>1, <3>2
    <2> QED BY <1>1, <2>3, <2>4, <2>5
  <1> QED BY <1>1, <1>5, <1>7, <1>11, <1>12, <1>13 DEF DownOk, TopOf, e, t

\* What one round of pqdownheap does.
RoundAt(g, hp, L, f, d, v, j) ==
    IF 2 * j > L \/ smaller(f, d, v, hp[SonOf(hp, L, f, d, j)])
    THEN [hp EXCEPT ![j] = v]
    ELSE [g[SonOf(hp, L, f, d, j)] EXCEPT ![j] = hp[SonOf(hp, L, f, d, j)]]

\* pqdownheap makes its rounds one after the other.
LEMMA DownsStep ==
    ASSUME NEW hp, NEW L, NEW f, NEW d, NEW v, NEW g, Downs(g, hp, L, f, d, v), NEW j \in 1..L
    PROVE  g[j] = RoundAt(g, hp, L, f, d, v, j)
  <1>1. g = [t \in 1..L |-> RoundAt(g, hp, L, f, d, v, t)]
    BY Zenon DEF Downs, RoundAt
  <1> QED BY <1>1, Zenon

\* Every round of pqdownheap leaves such a heap.
LEMMA DownFacts ==
    ASSUME NEW hp \in [Nodes -> Nodes], NEW L \in Nat, L <= Last_,
           NEW f \in [Nodes -> Nat], NEW d \in [Nodes -> Nat], NEW v \in Nodes,
           NEW g, Downs(g, hp, L, f, d, v)
    PROVE  \A j \in 1..L : DownOk(g[j], hp, L, f, d, v, j)
  <1> DEFINE Ok(j) == DownOk(g[j], hp, L, f, d, v, j)
             T == {n \in Nat : \A j \in 1..L : j > L - n => Ok(j)}
  <1>1. 0 \in T
    OBVIOUS
  <1>2. ASSUME NEW n \in Nat, n \in T PROVE n + 1 \in T
    <2> SUFFICES ASSUME NEW j \in 1..L, j > L - (n + 1) PROVE Ok(j)
      OBVIOUS
    <2> DEFINE t == SonOf(hp, L, f, d, j)
    <2>0. g[j] = RoundAt(g, hp, L, f, d, v, j)
      BY DownsStep
    <2>1. CASE 2 * j > L \/ smaller(f, d, v, hp[SonOf(hp, L, f, d, j)])
      <3>1. g[j] = [hp EXCEPT ![j] = v]
        BY <2>0, <2>1, Zenon DEF RoundAt
      <3>2. DownOk([hp EXCEPT ![j] = v], hp, L, f, d, v, j)
        BY <2>1, DownEnds
      <3> QED BY <3>1, <3>2
    <2>2. CASE 2 * j <= L /\ ~smaller(f, d, v, hp[SonOf(hp, L, f, d, j)])
      <3>1. g[j] = [g[t] EXCEPT ![j] = hp[t]]
        <4>1. ~(2 * j > L \/ smaller(f, d, v, hp[t]))
          BY <2>2
        <4> QED BY <2>0, <4>1, Zenon DEF RoundAt
      <3>2. t \in j + 1..L
        BY <2>2, SonBelow
      <3>3. Ok(t)
        <4>1. t \in 1..L /\ t > L - n
          BY <3>2
        <4> QED BY <1>2, <4>1
      <3>4. DownOk(g[t], hp, L, f, d, v, t)
        BY <3>3
      <3>5. DownOk([g[t] EXCEPT ![j] = hp[t]], hp, L, f, d, v, j)
        BY <2>2, <3>4, DownGoes
      <3> QED BY <3>1, <3>5
    <2> QED BY <2>1, <2>2
  <1>3. L \in T
    <2> HIDE DEF T
    <2> QED BY <1>1, <1>2, InductionOnSet
  <1> QED BY <1>3

\* What pqdownheap does to a heap in which only the node at k may be out of order.
LEMMA PqDown ==
    ASSUME NEW hp \in [Nodes -> Nodes], NEW L \in Nat, L <= Last_,
           NEW f \in [Nodes -> Nat], NEW d \in [Nodes -> Nat], NEW k \in 1..L,
           Once(hp, k, L), Ordered(hp, L, f, d, k + 1)
    PROVE  LET e == pqdownheap(hp, L, f, d, k)
           IN  /\ e \in [Nodes -> Nodes]
               /\ \A i \in Nodes : i < k \/ i > L => e[i] = hp[i]
               /\ {e[i] : i \in k..L} = {hp[i] : i \in k..L}
               /\ Once(e, k, L)
               /\ Ordered(e, L, f, d, k)
  <1> DEFINE e == pqdownheap(hp, L, f, d, k)
  <1>1. PICK g : Downs(g, hp, L, f, d, hp[k]) /\ e = g[k]
    BY DownIs
  <1>2. hp[k] \in Nodes /\ k..L = {k} \cup k + 1..L
    <2>1. k \in Nodes
      BY NodesAre
    <2> QED BY <2>1
  <1>3. DownOk(e, hp, L, f, d, hp[k], k)
    BY <1>1, <1>2, DownFacts
  <1> HIDE DEF e
  <1>4. \A i \in Nodes : i < k \/ i > L => e[i] = hp[i]
    BY <1>3, NodesAre DEF DownOk, KeptDown
  <1>5. {e[i] : i \in k..L} = {hp[i] : i \in k..L}
    BY <1>2, <1>3 DEF DownOk, SameNodes
  <1>6. Once(e, k, L)
    <2>1. Once(hp, k + 1, L) /\ \A p \in k + 1..L : hp[p] # hp[k]
      BY DEF Once
    <2> QED BY <1>3, <2>1 DEF DownOk, StillOnce
  <1>7. e \in [Nodes -> Nodes] /\ Ordered(e, L, f, d, k)
    BY <1>3 DEF DownOk, StillOrdered
  <1> QED BY <1>4, <1>5, <1>6, <1>7 DEF e

\* The first node of an ordered heap is the least frequent.
LEMMA FirstIsLeast ==
    ASSUME NEW hp \in [Nodes -> Nodes], NEW L \in Nat, L <= Last_,
           NEW f \in [Nodes -> Nat], NEW d \in [Nodes -> Nat], Ordered(hp, L, f, d, 1)
    PROVE  \A i \in 1..L : f[hp[1]] <= f[hp[i]]
  <1> DEFINE T == {n \in Nat : \A i \in 1..L : i <= n => f[hp[1]] <= f[hp[i]]}
  <1>1. 0 \in T
    OBVIOUS
  <1>2. ASSUME NEW n \in Nat, n \in T PROVE n + 1 \in T
    <2> SUFFICES ASSUME NEW i \in 1..L, i <= n + 1 PROVE f[hp[1]] <= f[hp[i]]
      OBVIOUS
    <2>1. 1..L \subseteq Nodes
      BY NodesAre
    <2>2. CASE i = 1
      BY <2>1, <2>2
    <2>3. CASE i # 1
      <3> DEFINE a == i \div 2
      <3>1. a \in 1..L /\ a <= n /\ i \in {2 * a, 2 * a + 1}
        BY <2>3
      <3> HIDE DEF a
      <3>2. smaller(f, d, hp[a], hp[i])
        BY <3>1 DEF Ordered
      <3>3. hp[a] \in Nodes /\ hp[i] \in Nodes /\ hp[1] \in Nodes
        BY <2>1, <3>1
      <3>4. f[hp[a]] <= f[hp[i]] /\ f[hp[1]] <= f[hp[a]]
        BY <1>2, <3>1, <3>2, <3>3, SmallerTotal
      <3> QED BY <3>3, <3>4
    <2> QED BY <2>2, <2>3
  <1>3. L \in T
    <2> HIDE DEF T
    <2> QED BY <1>1, <1>2, InductionOnSet
  <1> QED BY <1>3

-----------------------------------------------------------------------------
(* Finite sets, ranks and sums *)

\* A pair is a finite set.
LEMMA PairFinite ==
    ASSUME NEW a, NEW b
    PROVE  IsFiniteSet({a, b})
  <1>1. IsFiniteSet({a})
    BY FS_Singleton
  <1>2. IsFiniteSet({a} \cup {b})
    <2> DEFINE S == {a}
    <2>1. IsFiniteSet(S)
      BY <1>1
    <2> HIDE DEF S
    <2>2. IsFiniteSet(S \cup {b})
      BY <2>1, FS_AddElement
    <2> QED BY <2>2 DEF S
  <1>3. {a, b} = {a} \cup {b}
    OBVIOUS
  <1> QED BY <1>2, <1>3, Zenon

\* A finite set of numbers has a largest one.
LEMMA MaxIs ==
    ASSUME NEW S, S \subseteq Nat, IsFiniteSet(S), S # {}
    PROVE  Max(S) \in S /\ \A y \in S : y <= Max(S)
  <1> DEFINE C == {s \in SUBSET S : s # {} => \E x \in s : \A y \in s : y <= x}
  <1>1. {} \in C
    OBVIOUS
  <1>2. \A s \in SUBSET S, x \in S : s \in C /\ x \notin s => s \cup {x} \in C
    <2> TAKE s \in SUBSET S, x \in S
    <2> HAVE s \in C /\ x \notin s
    <2>1. CASE s = {}
      BY <2>1
    <2>2. CASE s # {}
      <3>1. PICK m \in s : \A y \in s : y <= m
        BY <2>2
      <3>2. CASE x <= m
        <4>1. \A y \in s \cup {x} : y <= m
          BY <3>1, <3>2
        <4> QED BY <4>1
      <3>3. CASE m < x
        <4>1. \A y \in s \cup {x} : y <= x
          BY <3>1, <3>3
        <4> QED BY <4>1
      <3> QED BY <3>2, <3>3
    <2> QED BY <2>1, <2>2
  <1>3. S \in C
    <2> HIDE DEF C
    <2> QED BY <1>1, <1>2, FiniteInduction
  <1>4. \E x \in S : \A y \in S : y <= x
    BY <1>3
  <1>5. \E x \in S : \A y \in S : x >= y
    BY <1>4
  <1> QED BY <1>5 DEF Max

\* A function that tells the elements of a finite set apart has as many values.
LEMMA ImageCount ==
    ASSUME NEW S, IsFiniteSet(S), NEW e, \A x, y \in S : e[x] = e[y] => x = y
    PROVE  IsFiniteSet({e[x] : x \in S}) /\ Cardinality({e[x] : x \in S}) = Cardinality(S)
  <1> DEFINE T == {e[x] : x \in S}
             f == [x \in S |-> e[x]]
  <1>1. f \in Bijection(S, T)
    BY DEF Bijection, Injection, Surjection, IsInjective
  <1> HIDE DEF f, T
  <1>2. ExistsBijection(S, T)
    BY <1>1 DEF ExistsBijection
  <1> QED BY <1>2, FS_Bijection DEF T

\* A sum does not change when its terms are named by something else.
LEMMA Renamed ==
    ASSUME NEW S, IsFiniteSet(S), NEW e, \A x, y \in S : e[x] = e[y] => x = y,
           NEW g, \A x \in S : g[e[x]] \in Int
    PROVE  SumFunctionOnSet([x \in S |-> g[e[x]]], S) = SumFunctionOnSet(g, {e[x] : x \in S})
  <1> DEFINE f == [x \in S |-> g[e[x]]]
             Named(s) == {e[x] : x \in s}
             C == {s \in SUBSET S : SumFunctionOnSet(f, s) = SumFunctionOnSet(g, Named(s))}
  <1>1. {} \in C
    <2>1. Named({}) = {}
      OBVIOUS
    <2>2. SumFunctionOnSet(f, {}) = 0 /\ SumFunctionOnSet(g, {}) = 0
      BY SumEmpty
    <2> QED BY <2>1, <2>2
  <1>2. \A s \in SUBSET S, x \in S : s \in C /\ x \notin s => s \cup {x} \in C
    <2> TAKE s \in SUBSET S, x \in S
    <2> HAVE s \in C /\ x \notin s
    <2>1. IsFiniteSet(s) /\ IsFiniteSet(Named(s))
      <3>1. IsFiniteSet(s)
        BY SubsetsFinite
      <3>2. \A y, z \in s : e[y] = e[z] => y = z
        OBVIOUS
      <3> QED BY <3>1, <3>2, ImageCount
    <2>2. e[x] \notin Named(s) /\ Named(s \cup {x}) = Named(s) \cup {e[x]}
      OBVIOUS
    <2>3. (\A y \in s \cup {x} : f[y] \in Int) /\ f[x] = g[e[x]]
      OBVIOUS
    <2>4. \A y \in Named(s) \cup {e[x]} : g[y] \in Int
      OBVIOUS
    <2>5. SumFunctionOnSet(f, s) = SumFunctionOnSet(g, Named(s))
      OBVIOUS
    <2> HIDE DEF f, Named
    <2>6. SumFunctionOnSet(f, s \cup {x}) = SumFunctionOnSet(f, s) + f[x]
      BY <2>1, <2>3, SumPut
    <2>7. SumFunctionOnSet(g, Named(s) \cup {e[x]}) = SumFunctionOnSet(g, Named(s)) + g[e[x]]
      BY <2>1, <2>2, <2>4, SumPut
    <2> QED BY <2>2, <2>3, <2>5, <2>6, <2>7
  <1>3. S \in C
    <2> HIDE DEF C
    <2> QED BY <1>1, <1>2, FiniteInduction
  <1> QED BY <1>3

\* How many elements of s have the value b.
HowMany(e, s, b) == Cardinality({x \in s : e[x] = b})

\* Elements can be summed by their values.
LEMMA Grouped ==
    ASSUME NEW S, IsFiniteSet(S), NEW B, IsFiniteSet(B), NEW e, \A x \in S : e[x] \in B,
           NEW w, \A b \in B : w[b] \in Int
    PROVE  SumFunctionOnSet([x \in S |-> w[e[x]]], S)
               = SumFunctionOnSet([b \in B |-> HowMany(e, S, b) * w[b]], B)
  <1> DEFINE f == [x \in S |-> w[e[x]]]
             G(s) == [b \in B |-> HowMany(e, s, b) * w[b]]
             C == {s \in SUBSET S : SumFunctionOnSet(f, s) = SumFunctionOnSet(G(s), B)}
  <1>1. {} \in C
    <2>1. \A b \in B : HowMany(e, {}, b) = 0
      <3> TAKE b \in B
      <3>1. {x \in {} : e[x] = b} = {}
        OBVIOUS
      <3> QED BY <3>1, FS_EmptySet DEF HowMany
    <2>2. \A b \in B : G({})[b] = 0
      BY <2>1
    <2> DEFINE g == G({})
    <2>3. \A b \in B : g[b] = 0
      BY <2>2
    <2> HIDE DEF g
    <2>4. SumFunctionOnSet(g, B) = 0
      BY <2>3, SumZeros
    <2>5. SumFunctionOnSet(f, {}) = 0
      BY SumEmpty
    <2> QED BY <2>4, <2>5 DEF g
  <1>2. \A s \in SUBSET S, x \in S : s \in C /\ x \notin s => s \cup {x} \in C
    <2> TAKE s \in SUBSET S, x \in S
    <2> HAVE s \in C /\ x \notin s
    <2>1. IsFiniteSet(s)
      BY SubsetsFinite
    <2>2. \A b \in B : /\ HowMany(e, s, b) \in Nat
                       /\ HowMany(e, s \cup {x}, b) = HowMany(e, s, b) + (IF b = e[x] THEN 1 ELSE 0)
      <3> TAKE b \in B
      <3> DEFINE H == {y \in s : e[y] = b}
      <3>1. IsFiniteSet(H) /\ x \notin H
        BY <2>1, FS_Subset
      <3>2. {y \in s \cup {x} : e[y] = b} = IF b = e[x] THEN H \cup {x} ELSE H
        OBVIOUS
      <3>3. HowMany(e, s, b) = Cardinality(H)
        BY DEF HowMany
      <3>4. HowMany(e, s \cup {x}, b) = IF b = e[x] THEN Cardinality(H \cup {x}) ELSE Cardinality(H)
        BY <3>2, Zenon DEF HowMany
      <3> HIDE DEF H
      <3>5. Cardinality(H) \in Nat /\ Cardinality(H \cup {x}) = Cardinality(H) + 1
        BY <3>1, FS_CardinalityType, FS_AddElement
      <3> QED BY <3>3, <3>4, <3>5
    <2> DEFINE g1 == G(s)
               g2 == G(s \cup {x})
               b0 == e[x]
    <2>3. \A b \in B : /\ g1[b] \in Int /\ g2[b] \in Int
                       /\ b # b0 => g1[b] = g2[b]
                       /\ b = b0 => g2[b] = g1[b] + w[b]
      <3> TAKE b \in B
      <3> DEFINE c == HowMany(e, s, b)
                 c2 == HowMany(e, s \cup {x}, b)
      <3>1. g1[b] = c * w[b] /\ g2[b] = c2 * w[b]
        OBVIOUS
      <3>2. c \in Nat /\ c2 = c + (IF b = b0 THEN 1 ELSE 0) /\ w[b] \in Int
        BY <2>2
      <3> HIDE DEF c, c2, g1, g2, b0
      <3>3. c * w[b] \in Int /\ (c + 1) * w[b] = c * w[b] + w[b]
        BY <3>2
      <3>4. CASE b = b0
        <4>1. c2 = c + 1
          BY <3>2, <3>4
        <4>2. g2[b] = g1[b] + w[b]
          BY <3>1, <3>3, <4>1
        <4> QED BY <3>1, <3>2, <3>3, <3>4, <4>2
      <3>5. CASE b # b0
        <4>1. c2 = c
          BY <3>2, <3>5
        <4> QED BY <3>1, <3>3, <3>5, <4>1
      <3> QED BY <3>4, <3>5
    <2>4. SumFunctionOnSet(f, s) = SumFunctionOnSet(g1, B)
      OBVIOUS
    <2>5. (\A y \in s \cup {x} : f[y] \in Int) /\ f[x] = w[b0] /\ b0 \in B
      OBVIOUS
    <2> HIDE DEF g1, g2, b0, f
    <2>6. SumFunctionOnSet(g2, B) = SumFunctionOnSet(g1, B) + (g2[b0] - g1[b0])
      BY <2>3, <2>5, SumChange
    <2>7. SumFunctionOnSet(f, s \cup {x}) = SumFunctionOnSet(f, s) + f[x]
      BY <2>1, <2>5, SumPut
    <2>8. SumFunctionOnSet(g1, B) \in Int
      BY <2>3, SumInt
    <2>9. g2[b0] = g1[b0] + w[b0] /\ g1[b0] \in Int /\ w[b0] \in Int
      BY <2>3, <2>5
    <2>10. SumFunctionOnSet(f, s \cup {x}) = SumFunctionOnSet(g2, B)
      BY <2>4, <2>5, <2>6, <2>7, <2>8, <2>9
    <2> QED BY <2>10 DEF g2
  <1>3. S \in C
    <2> HIDE DEF C
    <2> QED BY <1>1, <1>2, FiniteInduction
  <1> QED BY <1>3

\* The numbers above one, and the others.
Above(S, i) == {j \in S : j > i}
NotAbove(S, i) == {j \in S : j <= i}

IsRank(r, S) == \A i \in S : r[i] = Cardinality(Above(S, i))
IsRankUp(r, S) == \A i \in S : r[i] = Cardinality(NotAbove(S, i))
RankOk(r, S) ==
    /\ \A i \in S : r[i] \in 0..Cardinality(S) - 1
    /\ \A i, j \in S : i < j => r[i] > r[j]
    /\ \A k \in 0..Cardinality(S) - 1 : \E i \in S : r[i] = k
RankUpOk(r, S) ==
    /\ \A i \in S : r[i] \in 1..Cardinality(S)
    /\ \A i, j \in S : r[i] = r[j] => i = j
    /\ \A k \in 1..Cardinality(S) : \E i \in S : r[i] = k

\* A set of numbers, each with how many are larger.
LEMMA Ranks ==
    ASSUME NEW S, S \subseteq Nat, IsFiniteSet(S), NEW r, IsRank(r, S)
    PROVE  RankOk(r, S)
  <1> DEFINE A(i) == {j \in S : j > i}
             n == Cardinality(S)
  <1>1. \A i \in S : IsFiniteSet(A(i)) /\ Cardinality(A(i)) \in Nat /\ r[i] = Cardinality(A(i))
    BY SubsetsFinite, FS_CardinalityType DEF Above, IsRank
  <1>2. n \in Nat
    BY FS_CardinalityType
  <1>3. \A i \in S : r[i] \in 0..n - 1
    <2> TAKE i \in S
    <2>1. IsFiniteSet(S \ {i}) /\ Cardinality(S \ {i}) = n - 1
      BY FS_RemoveElement
    <2>2. A(i) \subseteq S \ {i}
      OBVIOUS
    <2> HIDE DEF A
    <2>3. Cardinality(A(i)) <= n - 1
      BY <2>1, <2>2, FS_Subset
    <2> QED BY <1>1, <1>2, <2>3
  <1>4. \A i, j \in S : i < j => r[i] > r[j]
    <2> TAKE i \in S, j \in S
    <2> HAVE i < j
    <2>1. j \notin A(j) /\ A(j) \cup {j} \subseteq A(i)
      <3>1. i \in Nat /\ j \in Nat /\ \A y \in S : y \in Nat
        OBVIOUS
      <3>2. j \notin A(j) /\ j \in A(i)
        BY <3>1
      <3>3. \A y \in A(j) : y \in A(i)
        BY <3>1
      <3> QED BY <3>2, <3>3
    <2>2. Cardinality(A(j) \cup {j}) = Cardinality(A(j)) + 1
      BY <1>1, <2>1, FS_AddElement
    <2>3. Cardinality(A(j) \cup {j}) <= Cardinality(A(i))
      <3> HIDE DEF A
      <3> QED BY <1>1, <2>1, FS_Subset
    <2>4. r[i] = Cardinality(A(i)) /\ r[j] = Cardinality(A(j))
      BY <1>1
    <2>5. Cardinality(A(i)) \in Nat /\ Cardinality(A(j)) \in Nat
      BY <1>1
    <2> HIDE DEF A
    <2> QED BY <2>2, <2>3, <2>4, <2>5
  <1> DEFINE b == [i \in S |-> r[i]]
  <1>5. b \in Injection(S, 0..n - 1)
    <2>1. \A i, j \in S : r[i] = r[j] => i = j
      <3> TAKE i \in S, j \in S
      <3>1. i \in Nat /\ j \in Nat /\ r[i] \in Nat /\ r[j] \in Nat
        BY <1>3
      <3>2. i < j \/ j < i \/ i = j
        BY <3>1
      <3> QED BY <1>4, <3>1, <3>2
    <2>2. b \in [S -> 0..n - 1]
      BY <1>3
    <2> QED BY <2>1, <2>2 DEF Injection, IsInjective
  <1>6. IsFiniteSet(0..n - 1) /\ Cardinality(0..n - 1) = n
    <2> HIDE DEF n
    <2>1. 0 \in Int /\ n - 1 \in Int /\ (0 > n - 1 => n = 0)
      BY <1>2
    <2>2. IsFiniteSet(0..n - 1) /\ Cardinality(0..n - 1) = IF 0 > n - 1 THEN 0 ELSE n - 1 - 0 + 1
      BY <2>1, FS_Interval
    <2> QED BY <1>2, <2>1, <2>2
  <1>7. b \in Surjection(S, 0..n - 1)
    <2> HIDE DEF n, b
    <2>1. Cardinality(S) = Cardinality(0..n - 1) <=> b \in Surjection(S, 0..n - 1)
      BY <1>5, <1>6, FS_Injection
    <2> QED BY <1>6, <2>1 DEF n
  <1>8. \A k \in 0..n - 1 : \E i \in S : r[i] = k
    BY <1>7 DEF Surjection
  <1> QED BY <1>3, <1>4, <1>8 DEF RankOk

\* A set of numbers, each with how many are no larger.
LEMMA RanksUp ==
    ASSUME NEW S, S \subseteq Nat, IsFiniteSet(S), NEW r, IsRankUp(r, S)
    PROVE  RankUpOk(r, S)
  <1> DEFINE e == [i \in S |-> Cardinality(Above(S, i))]
             n == Cardinality(S)
  <1>1. /\ \A i \in S : e[i] \in 0..n - 1
        /\ \A i, j \in S : i < j => e[i] > e[j]
        /\ \A k \in 0..n - 1 : \E i \in S : e[i] = k
    <2>1. IsRank(e, S)
      BY DEF IsRank
    <2> HIDE DEF e
    <2>2. RankOk(e, S)
      BY <2>1, Ranks
    <2> QED BY <2>2 DEF RankOk
  <1>2. n \in Nat
    BY FS_CardinalityType
  <1>3. \A i \in S : r[i] = n - e[i]
    <2> TAKE i \in S
    <2> DEFINE U == {j \in S : j <= i}
               V == {j \in S : j > i}
    <2>1. IsFiniteSet(U) /\ IsFiniteSet(V) /\ Cardinality(U) \in Nat /\ Cardinality(V) \in Nat
      BY SubsetsFinite, FS_CardinalityType
    <2>2. U \cup V = S /\ U \cap V = {}
      <3>1. i \in Nat /\ \A y \in S : y \in Nat
        OBVIOUS
      <3>2. \A y \in S : (y \in U \/ y \in V) /\ ~(y \in U /\ y \in V)
        BY <3>1
      <3>3. U \subseteq S /\ V \subseteq S
        OBVIOUS
      <3> HIDE DEF U, V
      <3> QED BY <3>2, <3>3
    <2>3. r[i] = Cardinality(U) /\ e[i] = Cardinality(V)
      BY DEF Above, NotAbove, IsRankUp
    <2> HIDE DEF U, V, e
    <2>4. Cardinality(U \cup V) = Cardinality(U) + Cardinality(V) - Cardinality(U \cap V)
      BY <2>1, FS_Union
    <2>5. Cardinality(U \cap V) = 0
      BY <2>2, FS_EmptySet
    <2>6. n = Cardinality(U) + Cardinality(V)
      <3>1. Cardinality(S) = Cardinality(U) + Cardinality(V) - 0
        BY <2>2, <2>4, <2>5, Zenon
      <3> QED BY <2>1, <3>1
    <2> QED BY <1>2, <2>1, <2>3, <2>6
  <1> HIDE DEF e, n
  <1>4. \A i \in S : r[i] \in 1..n
    BY <1>1, <1>2, <1>3
  <1>5. \A i, j \in S : r[i] = r[j] => i = j
    <2> TAKE i \in S, j \in S
    <2>1. i \in Nat /\ j \in Nat /\ e[i] \in Nat /\ e[j] \in Nat
      BY <1>1, <1>2
    <2>2. r[i] = r[j] => e[i] = e[j]
      BY <1>2, <1>3, <2>1
    <2>3. i < j \/ j < i \/ i = j
      BY <2>1
    <2> QED BY <1>1, <2>1, <2>2, <2>3
  <1>6. \A k \in 1..n : \E i \in S : r[i] = k
    <2> TAKE k \in 1..n
    <2>1. n - k \in 0..n - 1
      BY <1>2
    <2>2. PICK i \in S : e[i] = n - k
      BY <1>1, <2>1
    <2>3. r[i] = k
      BY <1>2, <1>3, <2>2
    <2> QED BY <2>3
  <1> QED BY <1>4, <1>5, <1>6 DEF n, RankUpOk

-----------------------------------------------------------------------------
(* The symbols that get a code *)

\* What a description of a tree says.
LEMMA DescFacts ==
    ASSUME desc \in Descs
    PROVE  /\ desc.freq \in [Symbols -> Nat]
           /\ Limit \in 1..max_bits /\ Limit \in Nat /\ elems <= 2^Limit
           /\ desc.extra \in [Symbols -> Nat] /\ \A n \in 0..2 : desc.extra[n] = 0
           /\ \A n \in Symbols : Static(n) \in Nat
           /\ max_bits \in Nat
  <1>1. /\ desc.freq \in [Symbols -> Nat]
        /\ desc.max_length \in 1..max_bits /\ elems <= 2^desc.max_length
        /\ desc.extra \in [Symbols -> Nat] /\ \A n \in 0..2 : desc.extra[n] = 0
        /\ desc.stree = <<>> \/ desc.stree \in [Symbols -> Nat]
    BY DescsAssumption
  <1>2. max_bits \in Nat
    BY AlphabetAssumption
  <1>3. \A n \in Symbols : Static(n) \in Nat
    BY <1>1 DEF Static
  <1> QED BY <1>1, <1>2, <1>3 DEF Limit

\* The symbols are finitely many numbers.
LEMMA SymbolsFinite ==
    /\ IsFiniteSet(Symbols) /\ Cardinality(Symbols) = elems /\ Symbols \subseteq Nat
    /\ \A S \in SUBSET Symbols : IsFiniteSet(S) /\ Cardinality(S) \in 0..elems
  <1>1. IsFiniteSet(0..elems - 1) /\ Cardinality(0..elems - 1) = elems
    BY NodesAre, FS_Interval
  <1>2. IsFiniteSet(Symbols) /\ Cardinality(Symbols) = elems /\ Symbols \subseteq Nat
    BY <1>1, NodesAre
  <1>3. ASSUME NEW S \in SUBSET Symbols PROVE IsFiniteSet(S) /\ Cardinality(S) \in 0..elems
    <2>1. IsFiniteSet(S) /\ Cardinality(S) <= Cardinality(Symbols)
      BY <1>2, FS_Subset
    <2>2. Cardinality(S) \in Nat
      BY <2>1, FS_CardinalityType
    <2> QED BY <1>2, <2>1, <2>2, NodesAre
  <1> QED BY <1>2, <1>3

\* Symbols are forced into the tree until there are two.
LEMMA ForcedFacts ==
    ASSUME desc \in Descs
    PROVE  /\ UsedSymbols \subseteq Symbols
           /\ ForcedSymbols \in Seq(Symbols) /\ Len(ForcedSymbols) \in 0..2
           /\ \A i \in 1..Len(ForcedSymbols) :
                 ForcedSymbols[i] \in 0..2 /\ ForcedSymbols[i] \notin UsedSymbols
           /\ \A i, j \in 1..Len(ForcedSymbols) : ForcedSymbols[i] = ForcedSymbols[j] => i = j
           /\ Cardinality(UsedSymbols) \in Nat
           /\ Cardinality(UsedSymbols) + Len(ForcedSymbols) >= 2
           /\ Len(ForcedSymbols) # 0 => Cardinality(UsedSymbols) + Len(ForcedSymbols) = 2
  <1>1. UsedSymbols \subseteq Symbols
    BY DEF UsedSymbols
  <1>2. IsFiniteSet(UsedSymbols) /\ Cardinality(UsedSymbols) \in Nat
    BY <1>1, SymbolsFinite
  <1>3. 0..2 \subseteq Symbols
    BY NodesAre
  <1>4. CASE UsedSymbols = {}
    <2>2. Cardinality(UsedSymbols) = 0
      BY <1>4, FS_EmptySet
    <2>1. ForcedSymbols = <<0, 1>>
      BY <1>4, <2>2 DEF ForcedSymbols, Forced
    <2> QED BY <1>1, <1>3, <1>4, <2>1, <2>2
  <1>5. CASE UsedSymbols # {} /\ Cardinality(UsedSymbols) = 1
    <2> DEFINE u == Max(UsedSymbols)
               x == IF u < 2 THEN u + 1 ELSE 0
    <2>1. u \in UsedSymbols /\ u \in Nat
      BY <1>1, <1>2, <1>5, MaxIs, SymbolsFinite
    <2>2. UsedSymbols = {u}
      <3>1. \E n : UsedSymbols = {n}
        BY <1>2, <1>5, FS_Singleton
      <3> HIDE DEF u
      <3> QED BY <2>1, <3>1
    <2>3. ForcedSymbols = <<x>>
      BY <1>5 DEF ForcedSymbols, Forced
    <2> HIDE DEF u
    <2>4. x \in 0..2 /\ x # u
      BY <2>1
    <2> HIDE DEF x
    <2>5. x \notin UsedSymbols /\ x \in Symbols
      BY <1>3, <2>2, <2>4
    <2> QED BY <1>1, <1>5, <2>3, <2>4, <2>5
  <1>6. CASE UsedSymbols # {} /\ Cardinality(UsedSymbols) # 1
    <2>1. ForcedSymbols = <<>>
      BY <1>6 DEF ForcedSymbols, Forced
    <2>2. Cardinality(UsedSymbols) # 0
      BY <1>2, <1>6, FS_EmptySet
    <2> QED BY <1>1, <1>2, <1>6, <2>1, <2>2
  <1> QED BY <1>4, <1>5, <1>6

\* At least two symbols get a code.
LEMMA ChosenFacts ==
    ASSUME desc \in Descs
    PROVE  /\ Chosen \subseteq Symbols /\ IsFiniteSet(Chosen) /\ Chosen # {}
           /\ Leafs \in 2..elems
           /\ Leafs = Cardinality(UsedSymbols) + Len(ForcedSymbols)
           /\ Max(Chosen) \in Chosen /\ \A n \in Chosen : n <= Max(Chosen)
           /\ \A n \in Chosen : Freq(n) \in Nat /\ Freq(n) > 0
  <1> DEFINE F == {ForcedSymbols[i] : i \in 1..Len(ForcedSymbols)}
  <1>1. Chosen = UsedSymbols \cup F
    BY ForcedFacts DEF Chosen
  <1>2. Chosen \subseteq Symbols
    BY <1>1, ForcedFacts
  <1>3. IsFiniteSet(F) /\ Cardinality(F) = Len(ForcedSymbols)
    <2>1. IsFiniteSet(1..Len(ForcedSymbols)) /\ Cardinality(1..Len(ForcedSymbols)) = Len(ForcedSymbols)
      <3> DEFINE k == Len(ForcedSymbols)
      <3>1. k \in Nat
        BY ForcedFacts
      <3> HIDE DEF k
      <3>2. IsFiniteSet(1..k) /\ Cardinality(1..k) = k
        BY <3>1, FS_Interval
      <3> QED BY <3>2 DEF k
    <2> QED BY <2>1, ForcedFacts, ImageCount
  <1>4. UsedSymbols \cap F = {}
    BY ForcedFacts
  <1> HIDE DEF F
  <1>5. Leafs = Cardinality(UsedSymbols) + Len(ForcedSymbols)
    <2>1. IsFiniteSet(UsedSymbols)
      BY ForcedFacts, SymbolsFinite
    <2>2. Cardinality(UsedSymbols \cup F) = Cardinality(UsedSymbols) + Cardinality(F) - Cardinality(UsedSymbols \cap F)
      BY <1>3, <2>1, FS_Union
    <2>3. Cardinality(UsedSymbols \cap F) = 0
      BY <1>4, FS_EmptySet
    <2> QED BY <1>1, <1>3, <2>2, <2>3, ForcedFacts DEF Leafs
  <1>6. IsFiniteSet(Chosen) /\ Leafs \in 0..elems
    BY <1>2, SymbolsFinite DEF Leafs
  <1>7. Leafs \in 2..elems
    BY <1>5, <1>6, ForcedFacts, NodesAre
  <1>8. Chosen # {}
    BY <1>7, FS_EmptySet DEF Leafs
  <1>9. Max(Chosen) \in Chosen /\ \A n \in Chosen : n <= Max(Chosen)
    BY <1>2, <1>6, <1>8, MaxIs, SymbolsFinite
  <1>10. \A n \in Chosen : Freq(n) \in Nat /\ Freq(n) > 0
    <2> TAKE n \in Chosen
    <2>1. n \in UsedSymbols => desc.freq[n] \in Nat /\ desc.freq[n] # 0
      BY DescFacts DEF UsedSymbols
    <2> QED BY <2>1 DEF Freq
  <1> QED BY <1>2, <1>5, <1>6, <1>7, <1>8, <1>9, <1>10

-----------------------------------------------------------------------------
(* BuildHeap *)

\* Two functions with the same values.
LEMMA SameValues ==
    ASSUME NEW e, NEW r, NEW S, NEW T,
           \A i \in S : \E k \in T : e[i] = r[k], \A k \in T : \E i \in S : e[i] = r[k]
    PROVE  {e[i] : i \in S} = {r[k] : k \in T}
  OBVIOUS

\* The heaps that the rounds of the loop over the inner nodes make, from the last on.
Heaps(g, hp, L, f, d) ==
    g = [n \in 1..L \div 2 + 1 |->
            IF n = L \div 2 + 1 THEN hp ELSE pqdownheap(g[n + 1], L, f, d, n)]

\* There are such heaps.
LEMMA HeapsExist ==
    ASSUME NEW hp, NEW L \in Nat, NEW f, NEW d
    PROVE  \E g : Heaps(g, hp, L, f, d)
  <1> DEFINE M == L \div 2 + 1
             P(x, n) == pqdownheap(x, L, f, d, n)
             Is(g, n) == g = [j \in M - n..M |-> IF j = M THEN hp ELSE P(g[j + 1], j)]
             T == {n \in Nat : n <= M - 1 => \E g : Is(g, n)}
  <1>1. M \in Nat /\ M >= 1
    OBVIOUS
  <1>2. \A g : Is(g, M - 1) <=> Heaps(g, hp, L, f, d)
    <2>1. M - (M - 1) = 1
      BY <1>1
    <2> QED BY <2>1 DEF Heaps
  <1> HIDE DEF P, M
  <1>3. 0 \in T
    <2>1. M - 0 = M /\ M..M = {M}
      BY <1>1
    <2> DEFINE e == [j \in M - 0..M |-> hp]
    <2>2. \A j \in M - 0..M : e[j] = hp
      OBVIOUS
    <2>4. e = [j \in M - 0..M |-> e[j]]
      OBVIOUS
    <2>5. \A j \in M - 0..M : j = M
      BY <1>1
    <2> HIDE DEF e
    <2>3. Is(e, 0)
      BY <2>2, <2>4, <2>5
    <2> QED BY <2>3
  <1>4. ASSUME NEW n \in Nat, n \in T PROVE n + 1 \in T
    <2> SUFFICES ASSUME n + 1 <= M - 1 PROVE \E g : Is(g, n + 1)
      OBVIOUS
    <2>1. PICK g : Is(g, n)
      BY <1>1, <1>4
    <2> DEFINE a == M - (n + 1)
    <2>2. a \in 1..M /\ M - n = a + 1 /\ a # M
      BY <1>1
    <2> HIDE DEF a
    <2>3. \A j \in a + 1..M : g[j] = IF j = M THEN hp ELSE P(g[j + 1], j)
      BY <2>1, <2>2
    <2> DEFINE e == [j \in a..M |-> IF j # a THEN g[j] ELSE P(g[a + 1], a)]
    <2>4. ASSUME NEW j \in a..M
          PROVE  e[j] = IF j = M THEN hp ELSE P(e[j + 1], j)
      <3>1. j # M => e[j + 1] = g[j + 1]
        BY <1>1, <2>2
      <3>2. e[j] = IF j # a THEN g[j] ELSE P(g[a + 1], a)
        OBVIOUS
      <3>3. j # a => j \in a + 1..M
        BY <2>2
      <3> HIDE DEF e
      <3>4. CASE j = a
        BY <2>2, <3>1, <3>2, <3>4
      <3>5. CASE j # a
        BY <2>3, <3>1, <3>2, <3>3, <3>5
      <3> QED BY <3>4, <3>5
    <2>5. e = [j \in a..M |-> e[j]]
      OBVIOUS
    <2> HIDE DEF e
    <2>6. Is(e, n + 1)
      BY <2>2, <2>4, <2>5 DEF a
    <2> QED BY <2>6
  <1>5. M - 1 \in T
    <2>1. M - 1 \in Nat
      BY <1>1
    <2> HIDE DEF T
    <2> QED BY <1>3, <1>4, <2>1, InductionOnSet
  <1>6. \E g : Is(g, M - 1)
    BY <1>1, <1>5
  <1> HIDE DEF Is
  <1> QED BY <1>2, <1>6

\* What one round of the loop makes.
HeapAt(g, hp, L, f, d, n) ==
    IF n = L \div 2 + 1 THEN hp ELSE pqdownheap(g[n + 1], L, f, d, n)

\* The loop that builds the heap makes its rounds one after the other.
LEMMA HeapsStep ==
    ASSUME NEW g, NEW hp, NEW L, NEW f, NEW d, Heaps(g, hp, L, f, d), NEW n \in 1..L \div 2 + 1
    PROVE  g[n] = HeapAt(g, hp, L, f, d, n)
  <1>1. g = [j \in 1..L \div 2 + 1 |-> HeapAt(g, hp, L, f, d, j)]
    BY Zenon DEF Heaps, HeapAt
  <1> QED BY <1>1, Zenon

\* The same nodes in a heap that is in order from a place on.
HeapFrom(e, hp, L, f, d, n) ==
    /\ e \in [Nodes -> Nodes]
    /\ \A i \in Nodes : i \notin 1..L => e[i] = hp[i]
    /\ {e[i] : i \in 1..L} = {hp[i] : i \in 1..L}
    /\ Once(e, 1, L)
    /\ Ordered(e, L, f, d, n)

\* One more node goes down.
LEMMA HeapGrows ==
    ASSUME NEW hp \in [Nodes -> Nodes], NEW L \in Nat, L <= Last_,
           NEW f \in [Nodes -> Nat], NEW d \in [Nodes -> Nat], NEW n \in 1..L,
           NEW r, HeapFrom(r, hp, L, f, d, n + 1)
    PROVE  HeapFrom(pqdownheap(r, L, f, d, n), hp, L, f, d, n)
  <1> DEFINE e == pqdownheap(r, L, f, d, n)
  <1>1. /\ r \in [Nodes -> Nodes]
        /\ \A i \in Nodes : i \notin 1..L => r[i] = hp[i]
        /\ {r[i] : i \in 1..L} = {hp[i] : i \in 1..L}
        /\ Once(r, 1, L) /\ Once(r, n, L)
        /\ Ordered(r, L, f, d, n + 1)
    <2>1. Once(r, 1, L)
      BY DEF HeapFrom
    <2>2. Once(r, n, L)
      BY <2>1 DEF Once
    <2> QED BY <2>1, <2>2 DEF HeapFrom
  <1>2. /\ e \in [Nodes -> Nodes]
        /\ \A i \in Nodes : i < n \/ i > L => e[i] = r[i]
        /\ {e[i] : i \in n..L} = {r[i] : i \in n..L}
        /\ Once(e, n, L)
        /\ Ordered(e, L, f, d, n)
    BY <1>1, PqDown
  <1> HIDE DEF e
  <1>3. 1..L \subseteq Nodes /\ \A i \in Nodes : i \in Nat
    BY NodesAre
  <1>4. \A i \in Nodes : i \notin 1..L => e[i] = hp[i]
    BY <1>1, <1>2, <1>3
  <1>5. \A i \in 1..n - 1 : e[i] = r[i] /\ i \in 1..L
    BY <1>2, <1>3
  <1>6. \A i \in 1..L : i \in 1..n - 1 \/ i \in n..L
    OBVIOUS
  <1>7. \A i \in n..L : i \in 1..L
    OBVIOUS
  <1>8. {e[i] : i \in 1..L} = {r[i] : i \in 1..L}
    <2>1. \A i \in 1..L : \E k \in 1..L : e[i] = r[k]
      <3> TAKE i \in 1..L
      <3>1. CASE i \in n..L
        <4>1. \E k \in n..L : e[i] = r[k]
          BY <1>2, <3>1
        <4> QED BY <1>7, <4>1
      <3> QED BY <1>5, <1>6, <3>1
    <2>2. \A k \in 1..L : \E i \in 1..L : e[i] = r[k]
      <3> TAKE k \in 1..L
      <3>1. CASE k \in n..L
        <4>1. \E i \in n..L : e[i] = r[k]
          BY <1>2, <3>1
        <4> QED BY <1>7, <4>1
      <3> QED BY <1>5, <1>6, <3>1
    <2> QED BY <2>1, <2>2, SameValues
  <1>9. Once(e, 1, L)
    <2> SUFFICES ASSUME NEW i \in 1..L, NEW k \in 1..L, e[i] = e[k] PROVE i = k
      BY DEF Once
    <2>1. \A x \in 1..n - 1, y \in n..L : e[x] # e[y]
      <3> TAKE x \in 1..n - 1, y \in n..L
      <3>1. PICK z \in n..L : e[y] = r[z]
        <4>1. e[y] \in {e[v] : v \in n..L}
          OBVIOUS
        <4>2. e[y] \in {r[v] : v \in n..L}
          BY <1>2, <4>1, Zenon
        <4> QED BY <4>2
      <3>2. x \in 1..L /\ z \in 1..L /\ x # z
        BY <1>5, <1>7
      <3> QED BY <1>1, <1>5, <3>1, <3>2 DEF Once
    <2>2. CASE i \in 1..n - 1 /\ k \in 1..n - 1
      BY <1>1, <1>5, <2>2 DEF Once
    <2>3. CASE i \in n..L /\ k \in n..L
      BY <1>2, <2>3 DEF Once
    <2> QED BY <1>6, <2>1, <2>2, <2>3
  <1> QED BY <1>1, <1>2, <1>4, <1>8, <1>9 DEF HeapFrom, e

\* The loop over the inner nodes makes a heap of whatever nodes there are.
LEMMA HeapMade ==
    ASSUME NEW hp \in [Nodes -> Nodes], NEW L \in Nat, L <= Last_,
           NEW f \in [Nodes -> Nat], NEW d \in [Nodes -> Nat], Once(hp, 1, L),
           NEW g, Heaps(g, hp, L, f, d)
    PROVE  HeapFrom(g[1], hp, L, f, d, 1)
  <1> DEFINE M == L \div 2 + 1
             Ok(n) == HeapFrom(g[n], hp, L, f, d, n)
             T == {n \in Nat : n <= M - 1 => Ok(M - n)}
  <1>1. M \in Nat /\ M >= 1 /\ 2 * M > L /\ \A n \in 1..M - 1 : n \in 1..L
    OBVIOUS
  <1>2. \A n \in 1..M : g[n] = IF n = M THEN hp ELSE pqdownheap(g[n + 1], L, f, d, n)
    BY HeapsStep DEF HeapAt
  <1> HIDE DEF M
  <1>3. Ok(M)
    <2>1. g[M] = hp
      BY <1>1, <1>2
    <2>2. Ordered(hp, L, f, d, M)
      <3>1. \A j \in M..L : \A s \in {2 * j, 2 * j + 1} : ~(s <= L)
        BY <1>1
      <3> QED BY <3>1 DEF Ordered
    <2> QED BY <2>1, <2>2 DEF HeapFrom
  <1>4. 0 \in T
    BY <1>1, <1>3
  <1>5. ASSUME NEW n \in Nat, n \in T PROVE n + 1 \in T
    <2> SUFFICES ASSUME n + 1 <= M - 1 PROVE Ok(M - (n + 1))
      OBVIOUS
    <2> DEFINE a == M - (n + 1)
    <2>1. a \in 1..M - 1 /\ M - n = a + 1 /\ a \in 1..M /\ a # M
      BY <1>1
    <2>2. Ok(a + 1)
      <3>1. Ok(M - n)
        BY <1>1, <1>5
      <3> QED BY <2>1, <3>1
    <2> HIDE DEF a
    <2>3. a \in 1..L
      BY <1>1, <2>1
    <2>4. HeapFrom(pqdownheap(g[a + 1], L, f, d, a), hp, L, f, d, a)
      BY <2>2, <2>3, HeapGrows
    <2>5. g[a] = pqdownheap(g[a + 1], L, f, d, a)
      BY <1>2, <2>1
    <2>6. Ok(a)
      BY <2>4, <2>5
    <2> QED BY <2>6 DEF a
  <1>6. M - 1 \in T
    <2>1. M - 1 \in Nat
      BY <1>1
    <2> HIDE DEF T
    <2> QED BY <1>4, <1>5, <2>1, InductionOnSet
  <1>7. M - (M - 1) = 1
    BY <1>1
  <1> QED BY <1>1, <1>6, <1>7

\* The symbols that get a code, those that occur first.
Listed ==
    [i \in 1..Cardinality(UsedSymbols) |->
        CHOOSE n \in UsedSymbols : Cardinality({m \in UsedSymbols : m <= n}) = i] \o ForcedSymbols

\* They are in the list, each once.
LEMMA ListedOnce ==
    ASSUME desc \in Descs
    PROVE  /\ \A i \in 1..Leafs : Listed[i] \in Chosen
           /\ \A i, j \in 1..Leafs : Listed[i] = Listed[j] => i = j
           /\ \A n \in Chosen : \E i \in 1..Leafs : Listed[i] = n
  <1> DEFINE U == UsedSymbols
             F == ForcedSymbols
             k == Cardinality(U)
             l == Len(F)
             r == [n \in U |-> Cardinality({m \in U : m <= n})]
             a == [i \in 1..k |-> CHOOSE n \in U : Cardinality({m \in U : m <= n}) = i]
  <1>1. U \subseteq Nat /\ IsFiniteSet(U) /\ k \in Nat /\ U \subseteq Symbols
    BY ForcedFacts, SymbolsFinite
  <1>2. F \in Seq(Symbols) /\ l \in Nat
    BY ForcedFacts
  <1>3. /\ \A n \in U : r[n] \in 1..k
        /\ \A n, m \in U : r[n] = r[m] => n = m
        /\ \A i \in 1..k : \E n \in U : r[n] = i
    <2>1. IsRankUp(r, U)
      BY DEF NotAbove, IsRankUp
    <2> HIDE DEF r, U
    <2>2. RankUpOk(r, U)
      BY <1>1, <2>1, RanksUp
    <2> QED BY <2>2 DEF RankUpOk
  <1>4. \A i \in 1..k : a[i] \in U /\ r[a[i]] = i
    <2> TAKE i \in 1..k
    <2>1. \E n \in U : Cardinality({m \in U : m <= n}) = i
      BY <1>3
    <2>2. a[i] = CHOOSE n \in U : Cardinality({m \in U : m <= n}) = i
      OBVIOUS
    <2> HIDE DEF a, k, U
    <2>3. a[i] \in U /\ Cardinality({m \in U : m <= a[i]}) = i
      BY <2>1, <2>2
    <2> QED BY <2>3
  <1>5. Listed = a \o F
    BY DEF Listed
  <1>6. a \in [1..k -> Symbols]
    <2>1. \A i \in 1..k : a[i] \in Symbols
      BY <1>1, <1>4
    <2> QED BY <2>1
  <1>7. Leafs = k + l /\ Chosen = U \cup {F[i] : i \in 1..l}
    BY <1>2, ChosenFacts DEF Chosen
  <1>8. \A i \in 1..l : F[i] \notin U /\ \A j \in 1..l : F[i] = F[j] => i = j
    BY ForcedFacts
  <1> HIDE DEF a, r, k, l, U, F
  <1>9. a \in Seq(Symbols) /\ Len(a) = k
    BY <1>1, <1>6
  <1>10. /\ \A i \in 1..k : Listed[i] = a[i]
         /\ \A i \in 1..l : Listed[k + i] = F[i]
    BY <1>1, <1>2, <1>5, <1>9 DEF l
  <1>11. \A i \in 1..k + l : i \in 1..k \/ (i - k \in 1..l /\ Listed[i] = F[i - k])
    <2> TAKE i \in 1..k + l
    <2>1. CASE i > k
      <3>1. i - k \in 1..l /\ k + (i - k) = i
        BY <1>1, <1>2, <2>1
      <3> QED BY <1>10, <3>1
    <2>2. CASE i <= k
      BY <1>1, <2>2
    <2> QED BY <1>1, <2>1, <2>2
  <1>12. \A i \in 1..k + l : Listed[i] \in Chosen
    BY <1>4, <1>7, <1>10, <1>11
  <1>13. \A i, j \in 1..k + l : Listed[i] = Listed[j] => i = j
    <2> TAKE i \in 1..k + l, j \in 1..k + l
    <2> HAVE Listed[i] = Listed[j]
    <2>1. CASE i \in 1..k /\ j \in 1..k
      <3>1. a[i] = a[j]
        BY <1>10, <2>1
      <3> QED BY <1>4, <2>1, <3>1
    <2>2. CASE i \in 1..k /\ j \notin 1..k
      BY <1>4, <1>8, <1>10, <1>11, <2>2
    <2>3. CASE i \notin 1..k /\ j \in 1..k
      BY <1>4, <1>8, <1>10, <1>11, <2>3
    <2>4. CASE i \notin 1..k /\ j \notin 1..k
      <3>1. i - k \in 1..l /\ j - k \in 1..l /\ F[i - k] = F[j - k]
        BY <1>11, <2>4
      <3>2. i - k = j - k
        BY <1>8, <3>1
      <3> QED BY <1>1, <3>2
    <2> QED BY <2>1, <2>2, <2>3, <2>4
  <1>14. ASSUME NEW n \in Chosen PROVE \E i \in 1..k + l : Listed[i] = n
    <2>1. CASE n \in U
      <3> DEFINE i == r[n]
      <3>1. i \in 1..k /\ i \in 1..k + l
        BY <1>1, <1>2, <1>3, <2>1
      <3>2. a[i] = n
        BY <1>3, <1>4, <2>1, <3>1
      <3> QED BY <1>10, <3>1, <3>2
    <2>2. CASE n \notin U
      <3>1. PICK i \in 1..l : n = F[i]
        BY <1>7, <2>2
      <3>2. k + i \in 1..k + l
        BY <1>1, <1>2
      <3> QED BY <1>10, <3>1, <3>2
    <2> QED BY <2>1, <2>2
  <1> QED BY <1>7, <1>12, <1>13, <1>14

\* While the description is the same, what is said of it is.
LEMMA SameDesc ==
    ASSUME desc' = desc
    PROVE  /\ UsedSymbols' = UsedSymbols /\ ForcedSymbols' = ForcedSymbols
           /\ Chosen' = Chosen /\ Leafs' = Leafs /\ Limit' = Limit
           /\ \A n : Freq(n)' = Freq(n) /\ Static(n)' = Static(n)
           /\ ForcedBits' = ForcedBits /\ Halves' = Halves /\ Longest_' = Longest_
           /\ StaticBits' = StaticBits
  <1>1. UsedSymbols' = UsedSymbols
    BY DEF UsedSymbols
  <1>2. ForcedSymbols' = ForcedSymbols
    BY <1>1 DEF ForcedSymbols
  <1>3. Chosen' = Chosen /\ Leafs' = Leafs
    BY <1>1, <1>2 DEF Chosen, Leafs
  <1>4. Limit' = Limit
    BY DEF Limit
  <1>5. \A n : Freq(n)' = Freq(n) /\ Static(n)' = Static(n)
    BY <1>1 DEF Freq, Static
  <1>6. Halves' = Halves /\ Longest_' = Longest_
    BY <1>4 DEF Halves, Longest_
  <1>7. ForcedBits' = ForcedBits
    BY <1>2, <1>5 DEF ForcedBits
  <1>8. StaticBits' = StaticBits
    BY <1>3, <1>5 DEF StaticBits
  <1> QED BY <1>1, <1>2, <1>3, <1>4, <1>5, <1>6, <1>7, <1>8

\* What BuildHeap leaves behind.
LEMMA BuildHeapDoes ==
    ASSUME Typed, BuildHeap
    PROVE  /\ pc = "heap" /\ pc' = "combine" /\ desc' = desc /\ bl_count_' = bl_count_
           /\ heap_len_' = Leafs /\ heap_max_' = heap_size
           /\ max_code' = Max(Chosen) /\ node' = elems
           /\ opt_len_' = opt_len_ - Len(ForcedSymbols) /\ static_len_' = static_len_ - ForcedBits
           /\ fc' \in [Nodes -> Nat] /\ \A n \in Chosen : fc'[n] = Freq(n)
           /\ dl' \in [Nodes -> Nat] /\ \A n \in Symbols \ UsedSymbols : dl'[n] = 0
           /\ depth_' \in [Nodes -> Nat]
           /\ heap_' \in [Nodes -> Nodes] /\ {heap_'[i] : i \in 1..Leafs} = Chosen
           /\ Once(heap_', 1, Leafs) /\ Ordered(heap_', Leafs, fc', depth_', 1)
  <1> DEFINE L == Leafs
             f == [n \in Nodes |-> CASE n \in UsedSymbols -> desc.freq[n]
                                     [] n \in Chosen \ UsedSymbols -> 1
                                     [] OTHER -> fc[n]]
             d == [n \in Nodes |-> IF n \in Chosen THEN 0 ELSE depth_[n]]
             hp == [i \in Nodes |-> IF i \in 1..L THEN Listed[i] ELSE heap_[i]]
             heaps == CHOOSE g : Heaps(g, hp, L, f, d)
  <1>1. /\ pc = "heap" /\ pc' = "combine" /\ desc' = desc /\ bl_count_' = bl_count_
        /\ heap_len_' = Leafs /\ heap_max_' = heap_size
        /\ max_code' = Max(Chosen) /\ node' = elems
        /\ opt_len_' = opt_len_ - Len(ForcedSymbols) /\ static_len_' = static_len_ - ForcedBits
    BY DEF BuildHeap, Leafs, Chosen, ForcedSymbols, UsedSymbols, ForcedBits
  <1>2. fc' = f /\ depth_' = d
    BY DEF BuildHeap, Chosen, ForcedSymbols, UsedSymbols
  <1>3. dl' = [n \in Nodes |-> IF n \in Symbols \ UsedSymbols THEN 0 ELSE dl[n]]
    BY DEF BuildHeap, UsedSymbols
  <1>4. heap_' = heaps[1]
    BY DEF BuildHeap, Heaps, Listed, Leafs, Chosen, ForcedSymbols, UsedSymbols
  <1>5. desc \in Descs /\ fc \in [Nodes -> Nat] /\ dl \in [Nodes -> Nat]
        /\ depth_ \in [Nodes -> Nat] /\ heap_ \in [Nodes -> Nodes]
    BY DEF Typed
  <1>6. Chosen \subseteq Symbols /\ Symbols \subseteq Nodes /\ UsedSymbols \subseteq Chosen
    <2>1. Symbols \subseteq Nodes
      BY NodesAre
    <2> QED BY <1>5, <2>1, ChosenFacts DEF Chosen
  <1>7. f \in [Nodes -> Nat] /\ \A n \in Chosen : f[n] = Freq(n)
    <2>1. \A n \in UsedSymbols : desc.freq[n] \in Nat
      BY <1>5, <1>6, DescFacts
    <2>2. \A n \in Nodes : f[n] \in Nat
      BY <1>5, <2>1
    <2>3. \A n \in Chosen : f[n] = Freq(n)
      BY <1>6 DEF Freq
    <2> QED BY <2>2, <2>3
  <1>8. d \in [Nodes -> Nat]
    BY <1>5
  <1>9. dl' \in [Nodes -> Nat] /\ \A n \in Symbols \ UsedSymbols : dl'[n] = 0
    BY <1>3, <1>5, <1>6
  <1>10. L \in Nat /\ L <= Last_ /\ L <= elems
    <2>1. Leafs \in 2..elems
      BY <1>5, ChosenFacts
    <2>2. elems \in Nat /\ Last_ = 2 * elems
      BY NodesAre
    <2> QED BY <2>1, <2>2
  <1>11. /\ \A i \in 1..L : Listed[i] \in Chosen
         /\ \A i, j \in 1..L : Listed[i] = Listed[j] => i = j
         /\ \A n \in Chosen : \E i \in 1..L : Listed[i] = n
    BY <1>5, ListedOnce
  <1>12. 1..L \subseteq Nodes
    <2> HIDE DEF L
    <2> QED BY <1>10, NodesAre
  <1>13. hp \in [Nodes -> Nodes] /\ \A i \in 1..L : hp[i] = Listed[i]
    BY <1>5, <1>6, <1>11, <1>12
  <1> HIDE DEF f, d, hp, L
  <1>14. Once(hp, 1, L)
    BY <1>11, <1>13 DEF Once
  <1>15. Heaps(heaps, hp, L, f, d)
    BY <1>10, HeapsExist
  <1> HIDE DEF heaps
  <1>16. HeapFrom(heaps[1], hp, L, f, d, 1)
    BY <1>7, <1>8, <1>10, <1>13, <1>14, <1>15, HeapMade
  <1>17. {hp[i] : i \in 1..L} = Chosen
    BY <1>11, <1>13
  <1>18. /\ heap_' \in [Nodes -> Nodes] /\ {heap_'[i] : i \in 1..L} = Chosen
         /\ Once(heap_', 1, L) /\ Ordered(heap_', L, f, d, 1)
    BY <1>4, <1>16, <1>17 DEF HeapFrom
  <1> QED BY <1>1, <1>2, <1>7, <1>8, <1>9, <1>18 DEF L


\* The bits of the symbols that were forced into the tree are a number.
LEMMA ForcedBitsInt ==
    ASSUME desc \in Descs
    PROVE  ForcedBits \in Int
  <1> DEFINE g == [i \in DOMAIN ForcedSymbols |-> Static(ForcedSymbols[i])]
  <1>1. ForcedSymbols \in Seq(Symbols)
    BY ForcedFacts
  <1>2. IsFiniteSet(DOMAIN ForcedSymbols)
    <2>1. DOMAIN ForcedSymbols = 1..Len(ForcedSymbols) /\ Len(ForcedSymbols) \in Nat
      BY <1>1
    <2> QED BY <2>1, FS_Interval
  <1>3. \A i \in DOMAIN ForcedSymbols : g[i] \in Int
    <2>1. \A i \in DOMAIN ForcedSymbols : ForcedSymbols[i] \in Symbols
      BY <1>1
    <2>2. \A n \in Symbols : Static(n) \in Nat
      BY DescFacts
    <2> QED BY <2>1, <2>2
  <1>4. DOMAIN g = DOMAIN ForcedSymbols
    OBVIOUS
  <1>5. ForcedBits = SumFunctionOnSet(g, DOMAIN g)
    BY DEF ForcedBits, SumFunction
  <1> HIDE DEF g
  <1> QED BY <1>2, <1>3, <1>4, <1>5, SumInt

\* BuildHeap keeps the invariant.
LEMMA BuildHeapKeeps ==
    ASSUME IInv, BuildHeap
    PROVE  IInv'
  <1>1. Typed /\ desc \in Descs
    BY DEF IInv, Typed
  <1>2. /\ pc = "heap" /\ pc' = "combine" /\ desc' = desc /\ bl_count_' = bl_count_
        /\ heap_len_' = Leafs /\ heap_max_' = heap_size
        /\ max_code' = Max(Chosen) /\ node' = elems
        /\ opt_len_' = opt_len_ - Len(ForcedSymbols) /\ static_len_' = static_len_ - ForcedBits
        /\ fc' \in [Nodes -> Nat] /\ \A n \in Chosen : fc'[n] = Freq(n)
        /\ dl' \in [Nodes -> Nat] /\ \A n \in Symbols \ UsedSymbols : dl'[n] = 0
        /\ depth_' \in [Nodes -> Nat]
        /\ heap_' \in [Nodes -> Nodes] /\ {heap_'[i] : i \in 1..Leafs} = Chosen
        /\ Once(heap_', 1, Leafs) /\ Ordered(heap_', Leafs, fc', depth_', 1)
    BY <1>1, BuildHeapDoes
  <1>3. /\ UsedSymbols' = UsedSymbols /\ ForcedSymbols' = ForcedSymbols
        /\ Chosen' = Chosen /\ Leafs' = Leafs /\ ForcedBits' = ForcedBits
        /\ \A n : Freq(n)' = Freq(n)
    BY <1>2, SameDesc
  <1>4. Leafs \in 2..elems /\ elems \in Nat /\ \A n \in Chosen : Freq(n) \in Nat /\ Freq(n) > 0
    BY <1>1, ChosenFacts, NodesAre
  <1>5. opt_len_ = 0 /\ static_len_ = 0 /\ opt_len_' \in Int /\ static_len_' \in Int
    <2>1. opt_len_ = 0 /\ static_len_ = 0
      BY <1>2 DEF IInv
    <2>2. Len(ForcedSymbols) \in Int
      BY <1>1, ForcedFacts
    <2>3. ForcedBits \in Int
      BY <1>1, ForcedBitsInt
    <2> QED BY <1>2, <2>1, <2>2, <2>3
  <1>6. Typed'
    BY <1>1, <1>2, <1>5 DEF Typed
  <1>7. ChosenInv'
    <2>1. Symbols \ Chosen \subseteq Symbols \ UsedSymbols
      BY DEF Chosen
    <2> QED BY <1>2, <1>3, <2>1 DEF ChosenInv
  <1>8. PlacesInv'
    <2>1. heap_size' = heap_size /\ heap_size \in Nat
      BY NodesAre DEF heap_size
    <2>2. node' - elems = 0 /\ node' \in elems..elems + Leafs - 2
      BY <1>2, <1>4
    <2>3. Leafs = Leafs - 0 /\ heap_size = heap_size - 2 * 0
      BY <1>4, <2>1
    <2> QED BY <1>2, <1>3, <2>1, <2>2, <2>3 DEF PlacesInv, Made, Built
  <1>9. Heap_' = 1..Leafs /\ Sorted_' = {} /\ AllNodes' = Chosen
    <2>1. Last_ = heap_size - 1 /\ heap_size \in Nat
      BY NodesAre
    <2>2. Last_' = Last_
      BY DEF Last_, heap_size
    <2>3. heap_size..Last_ = {}
      BY <2>1
    <2>4. elems..elems - 1 = {}
      BY NodesAre
    <2> QED BY <1>2, <1>3, <2>2, <2>3, <2>4 DEF Heap_, Sorted_, AllNodes
  <1>10. NodesInv'
    BY <1>2, <1>9 DEF NodesInv, Once
  <1>11. OrderInv'
    BY <1>2, <1>3, <1>4, <1>9 DEF OrderInv
  <1>12. FathersInv'
    BY <1>9 DEF FathersInv
  <1>13. LengthsInv'
    BY <1>2, <1>9 DEF LengthsInv, After_
  <1>14. CountsInv'
    BY <1>2, <1>3, <1>5 DEF CountsInv
  <1>15. OverflowInv' /\ CodeInv'
    BY <1>2 DEF OverflowInv, CodeInv
  <1> QED BY <1>2, <1>6, <1>7, <1>8, <1>10, <1>11, <1>12, <1>13, <1>14, <1>15 DEF IInv

-----------------------------------------------------------------------------
(* Combine *)

\* Where things are while two nodes are left in the heap.
LEMMA CombinePlaces ==
    ASSUME IInv, pc = "combine"
    PROVE  /\ node \in Nat /\ heap_len_ \in Nat /\ heap_max_ \in Nat /\ Leafs \in Nat
           /\ node >= elems /\ node <= elems + Leafs - 2 /\ Leafs <= elems
           /\ heap_len_ >= 2 /\ heap_len_ = Leafs - (node - elems)
           /\ heap_max_ = Last_ + 1 - 2 * (node - elems)
           /\ heap_max_ - 3 >= heap_len_ /\ heap_max_ - 3 \in Nodes
           /\ node \in Nodes /\ 1..heap_len_ \subseteq Nodes /\ Sorted_ \subseteq Nodes
           /\ heap_max_ - 1 \in Nodes /\ heap_max_ - 2 \in Nodes
           /\ Heap_ = 1..heap_len_ /\ Sorted_ = heap_max_..Last_
           /\ node \notin AllNodes /\ AllNodes \subseteq Nodes /\ \A n \in AllNodes : n < node
  <1>1. desc \in Descs
    BY DEF IInv, Typed
  <1>2. Leafs \in 2..elems /\ Chosen \subseteq Symbols
    BY <1>1, ChosenFacts
  <1>3. /\ node \in elems..elems + Leafs - 2
        /\ heap_len_ = Leafs - (node - elems) /\ heap_max_ = heap_size - 2 * (node - elems)
    BY DEF IInv, PlacesInv, Made
  <1>4. Last_ = 2 * elems /\ elems \in Nat /\ Nodes = 0..Last_ /\ heap_size = Last_ + 1
        /\ Symbols = 0..elems - 1
    BY NodesAre
  <1>5. /\ node \in Nat /\ heap_len_ \in Nat /\ heap_max_ \in Nat /\ Leafs \in Nat
        /\ node >= elems /\ node <= elems + Leafs - 2 /\ Leafs <= elems
        /\ heap_len_ >= 2 /\ heap_len_ = Leafs - (node - elems)
        /\ heap_max_ = Last_ + 1 - 2 * (node - elems)
        /\ heap_max_ - 3 >= heap_len_ /\ heap_max_ <= Last_ + 1
    BY <1>2, <1>3, <1>4
  <1>6. /\ heap_max_ - 3 \in Nodes /\ heap_max_ - 1 \in Nodes /\ heap_max_ - 2 \in Nodes
        /\ node \in Nodes /\ 1..heap_len_ \subseteq Nodes /\ heap_max_..Last_ \subseteq Nodes
    BY <1>4, <1>5
  <1>7. Heap_ = 1..heap_len_ /\ Sorted_ = heap_max_..Last_
    BY DEF Heap_, Sorted_
  <1>8. \A n \in AllNodes : n \in Nodes /\ n < node
    <2> TAKE n \in AllNodes
    <2>1. n \in Chosen \/ n \in elems..node - 1
      BY DEF AllNodes
    <2>2. n \in 0..elems - 1 \/ n \in elems..node - 1
      BY <1>2, <1>4, <2>1
    <2> QED BY <1>4, <1>5, <1>6, <2>2
  <1>9. node \notin AllNodes /\ AllNodes \subseteq Nodes
    BY <1>5, <1>8
  <1> QED BY <1>5, <1>6, <1>7, <1>8, <1>9

\* The two least frequent nodes of the heap, n and m, and the heap hp once their father
\* has their place.
Joins(n, m, hp) ==
    /\ n \in Nodes /\ m \in Nodes /\ n # m
    /\ n \in {heap_[i] : i \in 1..heap_len_} /\ m \in {heap_[i] : i \in 1..heap_len_}
    /\ \A i \in 1..heap_len_ : fc[n] <= fc[heap_[i]]
    /\ \A i \in 1..heap_len_ : heap_[i] # n => fc[m] <= fc[heap_[i]]
    /\ fc' = [fc EXCEPT ![node] = fc[n] + fc[m]]
    /\ depth_' \in [Nodes -> Nat]
    /\ hp \in [Nodes -> Nodes]
    /\ {hp[i] : i \in 1..heap_len_ - 1} = ({heap_[i] : i \in 1..heap_len_} \ {n, m}) \cup {node}
    /\ Once(hp, 1, heap_len_ - 1)
    /\ Ordered(hp, heap_len_ - 1, fc', depth_', 1)
    /\ hp[heap_max_ - 1] = n /\ hp[heap_max_ - 2] = m
    /\ \A i \in Sorted_ : hp[i] = heap_[i]

\* What is left of the heap without its first node.
TakenOk(r) ==
    /\ r \in [Nodes -> Nodes]
    /\ {r[i] : i \in 1..heap_len_ - 1} = {heap_[i] : i \in 1..heap_len_} \ {heap_[1]}
    /\ Once(r, 1, heap_len_ - 1)
    /\ Ordered(r, heap_len_ - 1, fc, depth_, 1)
    /\ \A i \in Nodes : i >= heap_len_ => r[i] = heap_[i]

\* The last node of the heap is put in the first place, and goes down.
LEMMA FirstTaken ==
    ASSUME IInv, pc = "combine",
           NEW r, r = pqdownheap([heap_ EXCEPT ![1] = heap_[heap_len_]], heap_len_ - 1, fc, depth_, 1)
    PROVE  TakenOk(r)
  <1> DEFINE L == heap_len_ - 1
             hp == [heap_ EXCEPT ![1] = heap_[heap_len_]]
  <1>1. fc \in [Nodes -> Nat] /\ depth_ \in [Nodes -> Nat] /\ heap_ \in [Nodes -> Nodes]
    BY DEF IInv, Typed
  <1>2. L \in Nat /\ L >= 1 /\ L <= Last_ /\ 1..heap_len_ \subseteq Nodes /\ heap_len_ = L + 1
        /\ Last_ \in Nat
    <2>1. /\ heap_len_ \in Nat /\ heap_len_ >= 2 /\ 1..heap_len_ \subseteq Nodes
      BY CombinePlaces
    <2>2. Last_ \in Nat /\ Nodes = 0..Last_
      BY NodesAre
    <2>3. heap_len_ \in 0..Last_
      BY <2>1, <2>2
    <2> QED BY <2>1, <2>2, <2>3
  <1>3. Once(heap_, 1, heap_len_) /\ Ordered(heap_, heap_len_, fc, depth_, 1)
    <2>1. \A i, j \in Heap_ \cup Sorted_ : heap_[i] = heap_[j] => i = j
      BY DEF IInv, NodesInv
    <2>2. Heap_ = 1..heap_len_
      BY CombinePlaces
    <2>3. Ordered(heap_, heap_len_, fc, depth_, 1)
      BY DEF IInv, OrderInv
    <2> QED BY <2>1, <2>2, <2>3 DEF Once
  <1>4. 1 \in 1..heap_len_ /\ heap_len_ \in 1..heap_len_ /\ 1 \in Nodes
    BY <1>2
  <1>5. hp \in [Nodes -> Nodes] /\ hp[1] = heap_[heap_len_]
        /\ \A i \in Nodes : i # 1 => hp[i] = heap_[i]
    <2>1. heap_[heap_len_] \in Nodes
      BY <1>1, <1>2, <1>4
    <2> QED BY <1>1, <1>4, <2>1
  <1> HIDE DEF hp, L
  <1>6. \A i \in 2..L : hp[i] = heap_[i] /\ i \in 1..heap_len_
    BY <1>2, <1>5
  <1>7. \A i \in 1..L : i = 1 \/ i \in 2..L
    BY <1>2
  <1>8. Once(hp, 1, L)
    <2> SUFFICES ASSUME NEW i \in 1..L, NEW j \in 1..L, hp[i] = hp[j] PROVE i = j
      BY DEF Once
    <2>1. \A k \in 2..L : heap_[k] # heap_[heap_len_]
      <3> TAKE k \in 2..L
      <3>1. k # heap_len_
        BY <1>2
      <3> QED BY <1>3, <1>4, <1>6, <3>1 DEF Once
    <2>2. CASE i = 1 /\ j \in 2..L
      BY <1>5, <1>6, <2>1, <2>2
    <2>3. CASE i \in 2..L /\ j = 1
      BY <1>5, <1>6, <2>1, <2>3
    <2>4. CASE i \in 2..L /\ j \in 2..L
      BY <1>3, <1>6, <2>4 DEF Once
    <2> QED BY <1>7, <2>2, <2>3, <2>4
  <1>9. Ordered(hp, L, fc, depth_, 1 + 1)
    <2> SUFFICES ASSUME NEW i \in 2..L, NEW s \in {2 * i, 2 * i + 1}, s <= L
                 PROVE  smaller(fc, depth_, hp[i], hp[s])
      BY DEF Ordered
    <2>1. s \in 2..L /\ s <= heap_len_
      BY <1>2
    <2>2. smaller(fc, depth_, heap_[i], heap_[s])
      BY <1>3, <1>6, <2>1 DEF Ordered
    <2> QED BY <1>6, <2>1, <2>2
  <1>10. r = pqdownheap(hp, L, fc, depth_, 1) /\ 1 \in 1..L
    BY <1>2 DEF hp, L
  <1>11. /\ r \in [Nodes -> Nodes]
         /\ \A i \in Nodes : i < 1 \/ i > L => r[i] = hp[i]
         /\ {r[i] : i \in 1..L} = {hp[i] : i \in 1..L}
         /\ Once(r, 1, L)
         /\ Ordered(r, L, fc, depth_, 1)
    <2> DEFINE e == pqdownheap(hp, L, fc, depth_, 1)
    <2>1. /\ e \in [Nodes -> Nodes]
          /\ \A i \in Nodes : i < 1 \/ i > L => e[i] = hp[i]
          /\ {e[i] : i \in 1..L} = {hp[i] : i \in 1..L}
          /\ Once(e, 1, L)
          /\ Ordered(e, L, fc, depth_, 1)
      BY <1>1, <1>2, <1>5, <1>8, <1>9, <1>10, PqDown
    <2>2. r = e
      BY <1>10
    <2> HIDE DEF e
    <2> QED BY <2>1, <2>2
  <1>12. {hp[i] : i \in 1..L} = {heap_[i] : i \in 1..heap_len_} \ {heap_[1]}
    <2>1. \A i \in 1..L : \E k \in 1..heap_len_ : hp[i] = heap_[k] /\ heap_[k] # heap_[1]
      <3> TAKE i \in 1..L
      <3>1. CASE i = 1
        <4>1. heap_[heap_len_] # heap_[1]
          BY <1>2, <1>3, <1>4 DEF Once
        <4> QED BY <1>4, <1>5, <3>1, <4>1
      <3>2. CASE i \in 2..L
        <4>1. i # 1
          BY <3>2
        <4> QED BY <1>3, <1>4, <1>6, <3>2, <4>1 DEF Once
      <3> QED BY <1>7, <3>1, <3>2
    <2>2. \A k \in 1..heap_len_ : heap_[k] # heap_[1] => \E i \in 1..L : hp[i] = heap_[k]
      <3> TAKE k \in 1..heap_len_
      <3> HAVE heap_[k] # heap_[1]
      <3>1. k # 1
        OBVIOUS
      <3>2. CASE k = heap_len_
        BY <1>5, <1>10, <3>2
      <3>3. CASE k # heap_len_
        <4>1. k \in 2..L /\ k \in 1..L
          BY <1>2, <3>1, <3>3
        <4> QED BY <1>6, <4>1
      <3> QED BY <3>2, <3>3
    <2> QED BY <2>1, <2>2
  <1>13. \A i \in Nodes : i >= heap_len_ => r[i] = heap_[i]
    <2> TAKE i \in Nodes
    <2> HAVE i >= heap_len_
    <2>1. i > L /\ i # 1
      BY <1>2, NodesAre
    <2> QED BY <1>5, <1>11, <2>1
  <1> QED BY <1>11, <1>12, <1>13 DEF L, TakenOk

\* The heap once the father is in the first place, and down to where it belongs.
LEMMA FatherPut ==
    ASSUME IInv, pc = "combine",
           NEW r, r = pqdownheap([heap_ EXCEPT ![1] = heap_[heap_len_]], heap_len_ - 1, fc, depth_, 1),
           NEW n, n = heap_[1], NEW m, m = r[1],
           fc' = [fc EXCEPT ![node] = fc[n] + fc[m]],
           depth_' = [depth_ EXCEPT ![node] = Max({depth_[n], depth_[m]}) + 1],
           NEW hp, hp = pqdownheap([r EXCEPT ![heap_max_ - 1] = n, ![heap_max_ - 2] = m, ![1] = node],
                                   heap_len_ - 1, fc', depth_', 1)
    PROVE  Joins(n, m, hp)
  <1> DEFINE L == heap_len_ - 1
             hp1 == [r EXCEPT ![heap_max_ - 1] = n, ![heap_max_ - 2] = m, ![1] = node]
             Old == {heap_[i] : i \in 1..heap_len_}
  <1>1. fc \in [Nodes -> Nat] /\ depth_ \in [Nodes -> Nat] /\ heap_ \in [Nodes -> Nodes]
    BY DEF IInv, Typed
  <1>2. /\ heap_len_ \in Nat /\ heap_len_ >= 2 /\ 1..heap_len_ \subseteq Nodes
        /\ heap_max_ \in Nat /\ heap_max_ - 3 >= heap_len_
        /\ heap_max_ - 1 \in Nodes /\ heap_max_ - 2 \in Nodes /\ node \in Nodes
        /\ Sorted_ = heap_max_..Last_ /\ Sorted_ \subseteq Nodes /\ Heap_ = 1..heap_len_
        /\ node \notin AllNodes
    BY CombinePlaces
  <1>3. Last_ \in Nat /\ Nodes = 0..Last_
    BY NodesAre
  <1>4. L \in Nat /\ L >= 1 /\ L <= Last_ /\ 1 \in 1..L /\ 1 \in Nodes /\ heap_len_ = L + 1
        /\ 1 \in 1..heap_len_ /\ heap_len_ <= Last_
    <2>1. heap_len_ \in 0..Last_
      BY <1>2, <1>3
    <2> QED BY <1>2, <1>3, <2>1
  <1>5. /\ r \in [Nodes -> Nodes]
        /\ {r[i] : i \in 1..heap_len_ - 1} = {heap_[i] : i \in 1..heap_len_} \ {heap_[1]}
        /\ Once(r, 1, heap_len_ - 1)
        /\ Ordered(r, heap_len_ - 1, fc, depth_, 1)
        /\ \A i \in Nodes : i >= heap_len_ => r[i] = heap_[i]
    <2>1. TakenOk(r)
      BY FirstTaken, Zenon
    <2> QED BY <2>1, Zenon DEF TakenOk
  <1>6. n \in Nodes /\ m \in Nodes /\ n \in Old /\ m \in Old /\ n # m
    <2>1. m \in {r[i] : i \in 1..heap_len_ - 1}
      BY <1>4
    <2>2. m \in Old /\ n \in Old /\ n # m
      BY <1>4, <1>5, <2>1
    <2>3. Old \subseteq Nodes
      BY <1>1, <1>2
    <2> QED BY <2>2, <2>3
  <1>7. node \notin Old
    <2>1. AllNodes = {heap_[i] : i \in Heap_ \cup Sorted_}
      BY DEF IInv, NodesInv
    <2> QED BY <1>2, <2>1
  <1>8. \A i \in 1..heap_len_ : fc[n] <= fc[heap_[i]]
    <2>1. Ordered(heap_, heap_len_, fc, depth_, 1)
      BY DEF IInv, OrderInv
    <2> QED BY <1>1, <1>2, <1>4, <2>1, FirstIsLeast
  <1>9. \A i \in 1..heap_len_ : heap_[i] # n => fc[m] <= fc[heap_[i]]
    <2>1. \A i \in 1..L : fc[r[1]] <= fc[r[i]]
      BY <1>1, <1>4, <1>5, FirstIsLeast
    <2> SUFFICES ASSUME NEW i \in 1..heap_len_, heap_[i] # n PROVE fc[m] <= fc[heap_[i]]
      OBVIOUS
    <2>2. heap_[i] \in {r[j] : j \in 1..heap_len_ - 1}
      BY <1>5
    <2>3. PICK j \in 1..L : heap_[i] = r[j]
      BY <2>2
    <2> QED BY <2>1, <2>3
  <1>10. fc' \in [Nodes -> Nat] /\ \A i \in Nodes : i # node => fc'[i] = fc[i]
    <2>1. fc[n] + fc[m] \in Nat
      BY <1>1, <1>6
    <2> QED BY <1>1, <1>2, <2>1
  <1>11. depth_' \in [Nodes -> Nat] /\ \A i \in Nodes : i # node => depth_'[i] = depth_[i]
    <2>1. Max({depth_[n], depth_[m]}) \in Nat
      <3>1. {depth_[n], depth_[m]} \subseteq Nat /\ {depth_[n], depth_[m]} # {}
        BY <1>1, <1>6
      <3>2. IsFiniteSet({depth_[n], depth_[m]})
        BY PairFinite, Zenon
      <3>3. Max({depth_[n], depth_[m]}) \in {depth_[n], depth_[m]}
        BY <3>1, <3>2, MaxIs
      <3> QED BY <3>1, <3>3
    <2>2. Max({depth_[n], depth_[m]}) + 1 \in Nat
      BY <2>1
    <2> QED BY <1>1, <1>2, <2>2
  <1>12. /\ hp1 \in [Nodes -> Nodes] /\ hp1[1] = node
         /\ hp1[heap_max_ - 1] = n /\ hp1[heap_max_ - 2] = m
         /\ \A i \in Nodes : i # 1 /\ i # heap_max_ - 1 /\ i # heap_max_ - 2 => hp1[i] = r[i]
    <2>1. heap_max_ - 1 # heap_max_ - 2 /\ heap_max_ - 1 # 1 /\ heap_max_ - 2 # 1
      BY <1>2
    <2>2. DOMAIN r = Nodes
      BY <1>5
    <2> QED BY <1>2, <1>4, <1>5, <1>6, <2>1, <2>2
  <1>13. \A i \in 2..L : /\ hp1[i] = r[i] /\ i \in 1..L /\ i # 1 /\ r[i] # node
                         /\ r[i] \in Nodes
    <2> SUFFICES ASSUME NEW i \in 2..L
                 PROVE  /\ hp1[i] = r[i] /\ i \in 1..L /\ i # 1 /\ r[i] # node
                        /\ r[i] \in Nodes
      OBVIOUS
    <2>1. i \in 1..L /\ i # 1 /\ i # heap_max_ - 1 /\ i # heap_max_ - 2 /\ i \in Nodes
      BY <1>2, <1>3, <1>4
    <2>2. r[i] \in {r[j] : j \in 1..heap_len_ - 1}
      BY <2>1
    <2>3. r[i] \in Old
      BY <1>5, <2>2
    <2> HIDE DEF hp1
    <2> QED BY <1>5, <1>7, <1>12, <2>1, <2>3
  <1>14. hp = pqdownheap(hp1, L, fc', depth_', 1)
    OBVIOUS
  <1> HIDE DEF hp1, L
  <1>15. \A i \in 1..L : i = 1 \/ i \in 2..L
    BY <1>4
  <1>16. Once(r, 1, L) /\ Ordered(r, L, fc, depth_, 1)
    BY <1>5 DEF L
  <1>17. Once(hp1, 1, L)
    <2> SUFFICES ASSUME NEW i \in 1..L, NEW j \in 1..L, hp1[i] = hp1[j] PROVE i = j
      BY DEF Once
    <2>1. CASE i \in 2..L /\ j \in 2..L
      <3>1. hp1[i] = r[i] /\ hp1[j] = r[j] /\ i \in 1..L /\ j \in 1..L
        BY <1>13, <2>1, Zenon
      <3>2. r[i] = r[j]
        BY <3>1, Zenon
      <3> QED BY <1>16, <3>1, <3>2, Zenon DEF Once
    <2>2. CASE i = 1 /\ j \in 2..L
      BY <1>12, <1>13, <2>2
    <2>3. CASE i \in 2..L /\ j = 1
      BY <1>12, <1>13, <2>3
    <2>4. (i = 1 \/ i \in 2..L) /\ (j = 1 \/ j \in 2..L)
      BY <1>15, Zenon
    <2>5. CASE i = 1 /\ j = 1
      BY <2>5
    <2> QED BY <2>1, <2>2, <2>3, <2>4, <2>5, Zenon
  <1>18. Ordered(hp1, L, fc', depth_', 2)
    <2> SUFFICES ASSUME NEW i \in 2..L, NEW s \in {2 * i, 2 * i + 1}, s <= L
                 PROVE  smaller(fc', depth_', hp1[i], hp1[s])
      BY Zenon DEF Ordered
    <2>1. s \in 2..L
      BY <1>4
    <2>2. smaller(fc, depth_, r[i], r[s])
      BY <1>13, <1>16, <2>1 DEF Ordered
    <2>3. hp1[i] = r[i] /\ hp1[s] = r[s]
      BY <1>13, <2>1
    <2>4. fc'[r[i]] = fc[r[i]] /\ depth_'[r[i]] = depth_[r[i]]
      BY <1>10, <1>11, <1>13
    <2>5. fc'[r[s]] = fc[r[s]] /\ depth_'[r[s]] = depth_[r[s]]
      BY <1>10, <1>11, <1>13, <2>1
    <2> QED BY <2>2, <2>3, <2>4, <2>5 DEF smaller
  <1>19. /\ hp \in [Nodes -> Nodes]
         /\ \A i \in Nodes : i < 1 \/ i > L => hp[i] = hp1[i]
         /\ {hp[i] : i \in 1..L} = {hp1[i] : i \in 1..L}
         /\ Once(hp, 1, L)
         /\ Ordered(hp, L, fc', depth_', 1)
    <2> DEFINE F == fc'
               D == depth_'
               e == pqdownheap(hp1, L, F, D, 1)
    <2>0. F \in [Nodes -> Nat] /\ D \in [Nodes -> Nat] /\ Ordered(hp1, L, F, D, 1 + 1)
      BY <1>10, <1>11, <1>18, 1 + 1 = 2
    <2>3. hp1 \in [Nodes -> Nodes] /\ L \in Nat /\ L <= Last_ /\ 1 \in 1..L /\ Once(hp1, 1, L)
      BY <1>4, <1>12, <1>17
    <2> HIDE DEF F, D
    <2>1. /\ e \in [Nodes -> Nodes]
          /\ \A i \in Nodes : i < 1 \/ i > L => e[i] = hp1[i]
          /\ {e[i] : i \in 1..L} = {hp1[i] : i \in 1..L}
          /\ Once(e, 1, L)
          /\ Ordered(e, L, F, D, 1)
      BY <2>0, <2>3, PqDown, Zenon
    <2>2. hp = e
      BY <1>14 DEF F, D
    <2> HIDE DEF e
    <2> QED BY <2>1, <2>2, Zenon DEF F, D
  <1>20. {hp1[i] : i \in 1..L} = (Old \ {n, m}) \cup {node}
    <2>1. {r[i] : i \in 1..L} = Old \ {n}
      BY <1>5 DEF L
    <2>2. \A i \in 1..L : hp1[i] \in (Old \ {n, m}) \cup {node}
      <3> SUFFICES ASSUME NEW i \in 2..L PROVE hp1[i] \in Old \ {n, m}
        BY <1>12, <1>15
      <3>1. r[i] \in Old \ {n}
        BY <1>13, <2>1
      <3>2. r[i] # r[1]
        BY <1>4, <1>13, <1>16 DEF Once
      <3> QED BY <1>13, <3>1, <3>2
    <2>3. \A x \in (Old \ {n, m}) \cup {node} : \E i \in 1..L : hp1[i] = x
      <3> TAKE x \in (Old \ {n, m}) \cup {node}
      <3>1. CASE x = node
        BY <1>4, <1>12, <3>1
      <3>2. CASE x \in Old \ {n, m}
        <4>1. x \in {r[i] : i \in 1..L}
          BY <2>1, <3>2
        <4>2. PICK i \in 1..L : x = r[i]
          BY <4>1
        <4>3. i # 1
          BY <3>2, <4>2
        <4> QED BY <1>13, <1>15, <4>2, <4>3
      <3> QED BY <3>1, <3>2
    <2> DEFINE T == (Old \ {n, m}) \cup {node}
    <2>4. (\A i \in 1..L : hp1[i] \in T) /\ (\A x \in T : \E i \in 1..L : hp1[i] = x)
      BY <2>2, <2>3
    <2> HIDE DEF T
    <2>5. {hp1[i] : i \in 1..L} = T
      BY <2>4
    <2> QED BY <2>5 DEF T
  <1>21. hp[heap_max_ - 1] = n /\ hp[heap_max_ - 2] = m
    <2>1. heap_max_ - 1 > L /\ heap_max_ - 2 > L
      BY <1>2, <1>4
    <2> QED BY <1>2, <1>12, <1>19, <2>1
  <1>22. \A i \in Sorted_ : hp[i] = heap_[i]
    <2> TAKE i \in Sorted_
    <2>1. i \in Nodes /\ i >= heap_max_ /\ i \in Int
      BY <1>2, <1>3
    <2>2. i > L /\ i # 1 /\ i # heap_max_ - 1 /\ i # heap_max_ - 2 /\ i >= heap_len_
      BY <1>2, <1>4, <2>1
    <2> QED BY <1>5, <1>12, <1>19, <2>1, <2>2
  <1>23. {hp[i] : i \in 1..heap_len_ - 1} = (Old \ {n, m}) \cup {node}
         /\ Once(hp, 1, heap_len_ - 1) /\ Ordered(hp, heap_len_ - 1, fc', depth_', 1)
    BY <1>19, <1>20 DEF L
  <1> QED BY <1>6, <1>8, <1>9, <1>10, <1>11, <1>19, <1>21, <1>22, <1>23 DEF Joins

\* What Combine does, to the heap and to what it leaves.
LEMMA CombineDoes ==
    ASSUME IInv, Combine
    PROVE  \E n, m, hp :
              /\ Joins(n, m, hp)
              /\ desc' = desc /\ max_code' = max_code
              /\ opt_len_' = opt_len_ /\ static_len_' = static_len_
              /\ heap_len_' = heap_len_ - 1 /\ node' = node + 1
              /\ heap_len_ > 2 =>
                    /\ heap_' = hp /\ heap_max_' = heap_max_ - 2 /\ pc' = pc
                    /\ dl' = [dl EXCEPT ![n] = node, ![m] = node]
                    /\ UNCHANGED <<h, bl_count_, overflow>>
              /\ heap_len_ = 2 =>
                    /\ heap_' = [hp EXCEPT ![heap_max_ - 3] = hp[1]]
                    /\ heap_max_' = heap_max_ - 3 /\ pc' = "lengths"
                    /\ dl' = [dl EXCEPT ![n] = node, ![m] = node, ![hp[1]] = 0]
                    /\ h' = heap_max_ - 2 /\ overflow' = 0
                    /\ bl_count_' = [b \in 0..max_bits |-> 0]
  <1> DEFINE r == pqdownheap([heap_ EXCEPT ![1] = heap_[heap_len_]], heap_len_ - 1, fc, depth_, 1)
             n == heap_[1]
             m == r[1]
             hp == pqdownheap([r EXCEPT ![heap_max_ - 1] = n, ![heap_max_ - 2] = m, ![1] = node],
                              heap_len_ - 1, fc', depth_', 1)
  <1>1. pc = "combine"
    BY DEF Combine
  <1>2. heap_len_ \in Nat /\ heap_len_ >= 2
    BY <1>1, CombinePlaces
  <1>3. /\ fc' = [fc EXCEPT ![node] = fc[n] + fc[m]]
        /\ depth_' = [depth_ EXCEPT ![node] = Max({depth_[n], depth_[m]}) + 1]
    BY DEF Combine, kSmallest
  <1>4. /\ desc' = desc /\ max_code' = max_code
        /\ opt_len_' = opt_len_ /\ static_len_' = static_len_
        /\ heap_len_' = heap_len_ - 1 /\ node' = node + 1
        /\ heap_len_ - 1 >= 2 =>
              /\ heap_' = hp /\ heap_max_' = heap_max_ - 2 /\ pc' = pc
              /\ dl' = [dl EXCEPT ![n] = node, ![m] = node]
              /\ UNCHANGED <<h, bl_count_, overflow>>
        /\ ~(heap_len_ - 1 >= 2) =>
              /\ heap_' = [hp EXCEPT ![heap_max_ - 3] = hp[1]]
              /\ heap_max_' = heap_max_ - 3 /\ pc' = "lengths"
              /\ dl' = [dl EXCEPT ![n] = node, ![m] = node, ![hp[1]] = 0]
              /\ h' = heap_max_ - 2 /\ overflow' = 0
              /\ bl_count_' = [b \in 0..max_bits |-> 0]
    BY DEF Combine, kSmallest
  <1>5. (heap_len_ - 1 >= 2) <=> (heap_len_ > 2)
    BY <1>2
  <1>6. heap_len_ = 2 => ~(heap_len_ - 1 >= 2)
    OBVIOUS
  <1>7. \E x : x = r
    OBVIOUS
  <1>8. Joins(n, m, hp)
    <2> DEFINE R == r
               H == hp
    <2>1. R = pqdownheap([heap_ EXCEPT ![1] = heap_[heap_len_]], heap_len_ - 1, fc, depth_, 1)
      OBVIOUS
    <2>2. H = pqdownheap([R EXCEPT ![heap_max_ - 1] = n, ![heap_max_ - 2] = R[1], ![1] = node],
                         heap_len_ - 1, fc', depth_', 1)
      OBVIOUS
    <2>3. /\ fc' = [fc EXCEPT ![node] = fc[n] + fc[R[1]]]
          /\ depth_' = [depth_ EXCEPT ![node] = Max({depth_[n], depth_[R[1]]}) + 1]
      BY <1>3
    <2> HIDE DEF R, H
    <2>4. Joins(n, R[1], H)
      BY <1>1, <2>1, <2>2, <2>3, FatherPut
    <2> QED BY <2>4 DEF R, H
  <1> HIDE DEF r, n, m, hp
  <1> QED BY <1>4, <1>5, <1>6, <1>8

\* The places after the last pair, and the nodes that are now in the heap or there.
Grown == heap_max_ - 2..Last_
GrownPlaces == (1..heap_len_ - 1) \cup Grown
GrownNodes(hp) ==
    /\ \A i, j \in GrownPlaces : hp[i] = hp[j] => i = j
    /\ {hp[i] : i \in GrownPlaces} = AllNodes \cup {node}
GrownOrder(hp) ==
    /\ \A x \in AllNodes \cup {node} : fc'[x] > 0
    /\ \A p \in Grown :
          /\ \A q \in Grown : p < q => fc'[hp[p]] >= fc'[hp[q]]
          /\ \A i \in 1..heap_len_ - 1 : fc'[hp[i]] >= fc'[hp[p]]
    /\ \A p, q \in Grown :
          FatherAt(p) = FatherAt(q) /\ p < q => fc'[FatherAt(p)] = fc'[hp[p]] + fc'[hp[q]]
GrownFathers(hp) == \A p \in Grown : FatherAt(p) <= node /\ hp[p] < FatherAt(p)

\* The pair is at the places before those that were taken.
LEMMA GrownIs ==
    ASSUME IInv, pc = "combine"
    PROVE  /\ Grown = Sorted_ \cup {heap_max_ - 1, heap_max_ - 2} /\ Grown \subseteq Nodes
           /\ heap_max_ - 1 \notin Sorted_ /\ heap_max_ - 2 \notin Sorted_
           /\ FatherAt(heap_max_ - 1) = node /\ FatherAt(heap_max_ - 2) = node
           /\ \A p \in Sorted_ : FatherAt(p) \in elems..node - 1
           /\ \A p \in Grown : p >= heap_len_ /\ p \in Int
  <1>1. /\ node \in Nat /\ node >= elems /\ heap_max_ = Last_ + 1 - 2 * (node - elems)
        /\ heap_max_ \in Nat /\ heap_max_ - 3 >= heap_len_ /\ heap_len_ \in Nat
        /\ Sorted_ = heap_max_..Last_
    BY CombinePlaces
  <1>2. Last_ \in Nat /\ Nodes = 0..Last_ /\ elems \in Nat
    BY NodesAre
  <1>3. Grown = Sorted_ \cup {heap_max_ - 1, heap_max_ - 2}
    BY <1>1, <1>2 DEF Grown
  <1>4. /\ heap_max_ - 1 \notin Sorted_ /\ heap_max_ - 2 \notin Sorted_ /\ Grown \subseteq Nodes
        /\ \A p \in Grown : p >= heap_len_ /\ p \in Int
    BY <1>1, <1>2 DEF Grown
  <1> DEFINE k == node - elems
  <1>5. k \in Nat /\ node = elems + k
    BY <1>1, <1>2
  <1>6. Last_ - (heap_max_ - 1) = 2 * k /\ Last_ - (heap_max_ - 2) = 2 * k + 1
    BY <1>1, <1>2, <1>5
  <1> HIDE DEF k
  <1>7. (2 * k) \div 2 = k /\ (2 * k + 1) \div 2 = k
    BY <1>5
  <1>8. FatherAt(heap_max_ - 1) = node /\ FatherAt(heap_max_ - 2) = node
    BY <1>5, <1>6, <1>7 DEF FatherAt
  <1>9. \A p \in Sorted_ : FatherAt(p) \in elems..node - 1
    <2> TAKE p \in Sorted_
    <2> DEFINE x == Last_ - p
    <2>1. x \in 0..2 * k - 1 /\ x = Last_ - p
      BY <1>1, <1>2, <1>5, <1>6
    <2>2. x \div 2 \in 0..k - 1
      <3> HIDE DEF x
      <3> QED BY <1>5, <2>1
    <2>3. FatherAt(p) = elems + x \div 2
      BY DEF FatherAt
    <2> HIDE DEF x
    <2> QED BY <1>2, <1>5, <2>2, <2>3
  <1> QED BY <1>3, <1>4, <1>8, <1>9

\* The tree has grown by a father.
LEMMA TreeGrows ==
    ASSUME IInv, pc = "combine", NEW n, NEW m, NEW hp, Joins(n, m, hp)
    PROVE  GrownNodes(hp) /\ GrownOrder(hp) /\ GrownFathers(hp)
  <1> DEFINE L == heap_len_
             H == heap_max_
             Old == {heap_[i] : i \in 1..L}
             Out == {heap_[i] : i \in Sorted_}
  <1>1. fc \in [Nodes -> Nat] /\ heap_ \in [Nodes -> Nodes]
    BY DEF IInv, Typed
  <1>2. /\ n \in Nodes /\ m \in Nodes /\ n # m /\ n \in Old /\ m \in Old
        /\ \A i \in 1..L : fc[n] <= fc[heap_[i]]
        /\ \A i \in 1..L : heap_[i] # n => fc[m] <= fc[heap_[i]]
        /\ fc' = [fc EXCEPT ![node] = fc[n] + fc[m]]
        /\ hp \in [Nodes -> Nodes]
        /\ {hp[i] : i \in 1..L - 1} = (Old \ {n, m}) \cup {node}
        /\ Once(hp, 1, L - 1)
        /\ hp[H - 1] = n /\ hp[H - 2] = m
        /\ \A i \in Sorted_ : hp[i] = heap_[i]
    BY DEF Joins
  <1>3. /\ L \in Nat /\ L >= 2 /\ 1..L \subseteq Nodes /\ H \in Nat /\ H - 3 >= L
        /\ node \in Nodes /\ node \in Nat /\ Sorted_ = H..Last_ /\ Sorted_ \subseteq Nodes
        /\ Heap_ = 1..L /\ node \notin AllNodes /\ AllNodes \subseteq Nodes
        /\ \A x \in AllNodes : x < node
    BY CombinePlaces
  <1>4. /\ Grown = Sorted_ \cup {H - 1, H - 2} /\ Grown \subseteq Nodes
        /\ H - 1 \notin Sorted_ /\ H - 2 \notin Sorted_
        /\ FatherAt(H - 1) = node /\ FatherAt(H - 2) = node
        /\ \A p \in Sorted_ : FatherAt(p) \in elems..node - 1
        /\ \A p \in Grown : p >= L /\ p \in Int
    BY GrownIs
  <1>5. /\ \A i, j \in (1..L) \cup Sorted_ : heap_[i] = heap_[j] => i = j
        /\ AllNodes = Old \cup Out
    <2>1. /\ \A i, j \in Heap_ \cup Sorted_ : heap_[i] = heap_[j] => i = j
          /\ AllNodes = {heap_[i] : i \in Heap_ \cup Sorted_}
      BY DEF IInv, NodesInv
    <2>2. {heap_[i] : i \in (1..L) \cup Sorted_} = Old \cup Out
      OBVIOUS
    <2> QED BY <1>3, <2>1, <2>2
  <1>6. /\ \A x \in AllNodes : fc[x] > 0
        /\ \A p, q \in Sorted_ : p < q => fc[heap_[p]] >= fc[heap_[q]]
        /\ \A p \in Sorted_, i \in 1..L : fc[heap_[i]] >= fc[heap_[p]]
        /\ \A p, q \in Sorted_ :
              FatherAt(p) = FatherAt(q) /\ p < q /\ FatherAt(p) < node =>
                  fc[FatherAt(p)] = fc[heap_[p]] + fc[heap_[q]]
    BY <1>3 DEF IInv, OrderInv
  <1>7. \A p \in Sorted_ : FatherAt(p) < node => heap_[p] < FatherAt(p)
    BY DEF IInv, FathersInv
  <1>8. Old \cap Out = {} /\ node \notin Old /\ node \notin Out
    <2>1. \A i \in 1..L, j \in Sorted_ : i # j
      BY <1>3
    <2> QED BY <1>3, <1>5, <2>1
  <1>9. fc'[node] = fc[n] + fc[m] /\ \A x \in AllNodes : fc'[x] = fc[x] /\ fc[x] \in Nat
    BY <1>1, <1>2, <1>3
  <1> HIDE DEF L, H, Old, Out
  <1>10. \A i \in 1..L - 1 : hp[i] \in (Old \ {n, m}) \cup {node}
    BY <1>2
  <1>11. \A p \in Grown : p = H - 1 \/ p = H - 2 \/ p \in Sorted_
    BY <1>4
  <1>12. \A p \in Sorted_ : hp[p] \in Out /\ hp[p] = heap_[p] /\ p \in Grown
    BY <1>2, <1>4 DEF Out
  <1>13. H - 1 \in Grown /\ H - 2 \in Grown /\ H - 1 # H - 2
    BY <1>3, <1>4
  <1>14. GrownNodes(hp)
    <2>1. \A i, j \in Grown : hp[i] = hp[j] => i = j
      <3>1. \A i, j \in Sorted_ : hp[i] = hp[j] => i = j
        BY <1>5, <1>12
      <3>2. n \notin Out /\ m \notin Out
        BY <1>2, <1>8
      <3> QED BY <1>2, <1>11, <1>12, <3>1, <3>2
    <2>2. \A i \in 1..L - 1, j \in Grown : hp[i] # hp[j]
      <3> TAKE i \in 1..L - 1, j \in Grown
      <3>1. hp[j] \in Out \cup {n, m}
        BY <1>2, <1>11, <1>12
      <3>2. hp[j] # node
        BY <1>2, <1>8, <3>1
      <3> QED BY <1>2, <1>8, <1>10, <3>1, <3>2
    <2>3. \A i, j \in 1..L - 1 : hp[i] = hp[j] => i = j
      BY <1>2 DEF Once
    <2>4. \A i, j \in GrownPlaces : hp[i] = hp[j] => i = j
      BY <2>1, <2>2, <2>3 DEF GrownPlaces, L
    <2>5. {hp[i] : i \in Grown} = Out \cup {n, m}
      <3>1. \A x \in Out : \E i \in Grown : hp[i] = x
        BY <1>12 DEF Out
      <3>2. \A i \in Grown : hp[i] \in Out \cup {n, m}
        BY <1>2, <1>11, <1>12
      <3>3. \A x \in Out \cup {n, m} : \E i \in Grown : hp[i] = x
        BY <1>2, <1>13, <3>1
      <3> QED BY <3>2, <3>3
    <2>6. {hp[i] : i \in GrownPlaces} = {hp[i] : i \in 1..L - 1} \cup {hp[i] : i \in Grown}
      BY DEF GrownPlaces, L
    <2>7. {hp[i] : i \in GrownPlaces} = AllNodes \cup {node}
      BY <1>2, <1>5, <2>5, <2>6
    <2> QED BY <2>4, <2>7 DEF GrownNodes
  <1>15. GrownOrder(hp)
    <2>1. \A x \in AllNodes \cup {node} : fc'[x] > 0
      BY <1>2, <1>5, <1>6, <1>9
    <2>2. fc'[n] = fc[n] /\ fc'[m] = fc[m] /\ fc[n] \in Nat /\ fc[m] \in Nat /\ fc[n] > 0 /\ fc[m] > 0
      BY <1>2, <1>5, <1>6, <1>9
    <2>3. fc[n] <= fc[m]
      BY <1>2 DEF Old
    <2>4. \A p \in Sorted_ : /\ fc'[hp[p]] = fc[heap_[p]] /\ fc[heap_[p]] \in Nat
                             /\ fc[heap_[p]] <= fc[n] /\ fc[heap_[p]] <= fc[m]
      <3> TAKE p \in Sorted_
      <3>1. fc'[hp[p]] = fc[heap_[p]] /\ fc[heap_[p]] \in Nat
        BY <1>5, <1>9, <1>12
      <3>2. fc[heap_[p]] <= fc[n] /\ fc[heap_[p]] <= fc[m]
        BY <1>2, <1>6, <2>2, <3>1 DEF Old
      <3> QED BY <3>1, <3>2
    <2>5. \A p, q \in Grown : p < q => fc'[hp[p]] >= fc'[hp[q]]
      <3> TAKE p \in Grown, q \in Grown
      <3> HAVE p < q
      <3>1. CASE p \in Sorted_ /\ q \in Sorted_
        BY <1>6, <2>4, <3>1
      <3>2. CASE p = H - 1 /\ q \in Sorted_
        BY <1>2, <2>2, <2>4, <3>2
      <3>3. CASE p = H - 2 /\ q \in Sorted_
        BY <1>2, <2>2, <2>4, <3>3
      <3>4. CASE p = H - 2 /\ q = H - 1
        BY <1>2, <2>2, <2>3, <3>4
      <3>5. CASE p \in Sorted_ /\ (q = H - 1 \/ q = H - 2)
        BY <1>3, <3>5
      <3>6. CASE p \in {H - 1, H - 2} /\ q \in {H - 1, H - 2} /\ ~(p = H - 2 /\ q = H - 1)
        BY <1>3, <3>6
      <3> QED BY <1>11, <3>1, <3>2, <3>3, <3>4, <3>5, <3>6
    <2>6. \A p \in Grown, i \in 1..L - 1 : fc'[hp[i]] >= fc'[hp[p]]
      <3> TAKE p \in Grown, i \in 1..L - 1
      <3>1. fc'[hp[p]] \in Nat /\ fc'[hp[p]] <= fc[m]
        BY <1>2, <1>11, <2>2, <2>3, <2>4
      <3>2. CASE hp[i] = node
        BY <1>9, <2>2, <3>1, <3>2
      <3>3. CASE hp[i] \in Old \ {n, m}
        <4>1. PICK k \in 1..L : heap_[k] = hp[i] /\ heap_[k] # n
          BY <3>3 DEF Old
        <4>2. fc[m] <= fc[hp[i]]
          BY <1>2, <4>1
        <4>3. fc'[hp[i]] = fc[hp[i]] /\ fc[hp[i]] \in Nat
          BY <1>5, <1>9, <3>3
        <4> QED BY <2>2, <3>1, <4>2, <4>3
      <3> QED BY <1>10, <3>2, <3>3
    <2>7. \A p, q \in Grown :
             FatherAt(p) = FatherAt(q) /\ p < q => fc'[FatherAt(p)] = fc'[hp[p]] + fc'[hp[q]]
      <3> TAKE p \in Grown, q \in Grown
      <3> HAVE FatherAt(p) = FatherAt(q) /\ p < q
      <3>1. elems \in Nat
        BY NodesAre
      <3>2. CASE p \in Sorted_ /\ q \in Sorted_
        <4>1. FatherAt(p) \in elems..node - 1 /\ FatherAt(p) < node
          BY <1>3, <1>4, <3>1, <3>2
        <4>2. fc[FatherAt(p)] = fc[heap_[p]] + fc[heap_[q]]
          BY <1>6, <3>2, <4>1
        <4>3. FatherAt(p) \in AllNodes
          BY <4>1 DEF AllNodes
        <4> QED BY <1>9, <2>4, <3>2, <4>2, <4>3
      <3>3. CASE p = H - 2 /\ q = H - 1
        BY <1>2, <1>4, <1>9, <2>2, <3>3
      <3>4. CASE p \in Sorted_ /\ (q = H - 1 \/ q = H - 2)
        BY <1>3, <3>4
      <3>5. CASE p \in {H - 1, H - 2} /\ q \in Sorted_
        <4>1. FatherAt(p) = node /\ FatherAt(q) \in elems..node - 1
          BY <1>4, <3>5
        <4> QED BY <1>3, <3>1, <4>1
      <3>6. CASE p \in {H - 1, H - 2} /\ q \in {H - 1, H - 2} /\ ~(p = H - 2 /\ q = H - 1)
        BY <1>3, <3>6
      <3> QED BY <1>11, <3>2, <3>3, <3>4, <3>5, <3>6
    <2> QED BY <2>1, <2>5, <2>6, <2>7 DEF GrownOrder, L
  <1>16. GrownFathers(hp)
    <2> SUFFICES ASSUME NEW p \in Grown PROVE FatherAt(p) <= node /\ hp[p] < FatherAt(p)
      BY DEF GrownFathers
    <2>1. CASE p \in Sorted_
      <3>1. elems \in Nat
        BY NodesAre
      <3>2. FatherAt(p) < node /\ FatherAt(p) <= node
        BY <1>3, <1>4, <2>1, <3>1
      <3> QED BY <1>7, <1>12, <2>1, <3>2
    <2>2. CASE p = H - 1 \/ p = H - 2
      <3>1. n < node /\ m < node
        BY <1>2, <1>3, <1>5
      <3> QED BY <1>2, <1>3, <1>4, <2>2, <3>1
    <2> QED BY <1>11, <2>1, <2>2
  <1> QED BY <1>14, <1>15, <1>16

\* The sum of a tree that has grown to its root.
LEMMA RootSum ==
    ASSUME desc \in Descs, desc' = desc, IsFiniteSet(Sorted_'), NEW r, DoneNodes' = {r},
           DoneLeaves' = {}, dl'[r] = 0, NEW p \in Sorted_', NEW q \in Sorted_', p # q,
           p >= h', q >= h', FatherAt(p) = r, FatherAt(q) = r,
           \A i \in Sorted_' : i # p /\ i # q => FatherAt(i) # r
    PROVE  WeightSum(Halves)' = 2 * 2^Limit' /\ WeightSum(Longest_)' >= 0
  <1> DEFINE W == OpenWeights(Halves)'
             V == OpenWeights(Longest_)'
             S == Sorted_'
  <1>1. Limit' = Limit /\ Limit \in Nat /\ Limit >= 1 /\ 2^Limit \in Nat /\ 2^Limit' = 2^Limit
    <2>1. Limit' = Limit
      BY SameDesc
    <2>2. Limit \in Nat /\ Limit >= 1
      BY DescFacts
    <2> QED BY <2>1, <2>2, PowerOfTwo
  <1>2. Halves'[0] = 2^Limit /\ Longest_'[0] = 0
    <2>1. Halves[0] = 2^(Limit - 0) /\ Longest_[0] = 0
      BY <1>1 DEF Halves, Longest_
    <2>2. Limit - 0 = Limit
      BY <1>1
    <2> QED BY <2>1, <2>2, SameDesc
  <1>3. \A i \in S : W[i] = IF i = p \/ i = q THEN 2^Limit ELSE 0
    <2> TAKE i \in S
    <2>1. W[i] = IF i >= h' /\ FatherAt(i) \in DoneNodes' THEN Halves'[dl'[FatherAt(i)]] ELSE 0
      BY DEF OpenWeights, FatherAt, Last_, heap_size
    <2> HIDE DEF W
    <2> QED BY <1>2, <2>1
  <1>4. \A i \in S : V[i] = 0
    <2> TAKE i \in S
    <2>1. V[i] = IF i >= h' /\ FatherAt(i) \in DoneNodes' THEN Longest_'[dl'[FatherAt(i)]] ELSE 0
      BY DEF OpenWeights, FatherAt, Last_, heap_size
    <2> HIDE DEF V
    <2> QED BY <1>2, <2>1
  <1>5. /\ WeightSum(Halves)' = 2 * SumFunctionOnSet(LeafWeights(Halves)', {}) + SumFunctionOnSet(W, S)
        /\ WeightSum(Longest_)' = 2 * SumFunctionOnSet(LeafWeights(Longest_)', {}) + SumFunctionOnSet(V, S)
    BY DEF WeightSum
  <1> HIDE DEF W, V, S
  <1>6. SumFunctionOnSet(V, S) = 0
    BY <1>4, SumZeros DEF S
  <1>7. SumFunctionOnSet(W, S) = 2 * 2^Limit
    <2>1. p \in S /\ q \in S \ {p} /\ IsFiniteSet(S) /\ IsFiniteSet(S \ {p}) /\ IsFiniteSet((S \ {p}) \ {q})
      BY FS_RemoveElement DEF S
    <2>2. \A i \in S : W[i] \in Int
      BY <1>1, <1>3
    <2>3. SumFunctionOnSet(W, S) = W[p] + SumFunctionOnSet(W, S \ {p})
      BY <2>1, <2>2, SumTake
    <2>4. SumFunctionOnSet(W, S \ {p}) = W[q] + SumFunctionOnSet(W, (S \ {p}) \ {q})
      BY <2>1, <2>2, SumTake
    <2>5. SumFunctionOnSet(W, (S \ {p}) \ {q}) = 0
      <3>1. \A i \in (S \ {p}) \ {q} : W[i] = 0
        BY <1>3
      <3> QED BY <2>1, <3>1, SumZeros
    <2> QED BY <1>1, <1>3, <2>1, <2>3, <2>4, <2>5
  <1>8. SumFunctionOnSet(LeafWeights(Halves)', {}) = 0 /\ SumFunctionOnSet(LeafWeights(Longest_)', {}) = 0
    BY SumEmpty
  <1> QED BY <1>1, <1>5, <1>6, <1>7, <1>8

\* Combine keeps the invariant.
LEMMA CombineKeeps ==
    ASSUME IInv, Combine
    PROVE  IInv'
  <1> DEFINE L == heap_len_
             H == heap_max_
  <1>1. PICK n, m, hp :
              /\ Joins(n, m, hp)
              /\ desc' = desc /\ max_code' = max_code
              /\ opt_len_' = opt_len_ /\ static_len_' = static_len_
              /\ heap_len_' = heap_len_ - 1 /\ node' = node + 1
              /\ heap_len_ > 2 =>
                    /\ heap_' = hp /\ heap_max_' = heap_max_ - 2 /\ pc' = pc
                    /\ dl' = [dl EXCEPT ![n] = node, ![m] = node]
                    /\ UNCHANGED <<h, bl_count_, overflow>>
              /\ heap_len_ = 2 =>
                    /\ heap_' = [hp EXCEPT ![heap_max_ - 3] = hp[1]]
                    /\ heap_max_' = heap_max_ - 3 /\ pc' = "lengths"
                    /\ dl' = [dl EXCEPT ![n] = node, ![m] = node, ![hp[1]] = 0]
                    /\ h' = heap_max_ - 2 /\ overflow' = 0
                    /\ bl_count_' = [b \in 0..max_bits |-> 0]
    BY CombineDoes, Zenon
  <1>2. pc = "combine" /\ Typed /\ desc \in Descs
    BY DEF Combine, IInv, Typed
  <1>3. GrownNodes(hp) /\ GrownOrder(hp) /\ GrownFathers(hp)
    BY <1>1, <1>2, TreeGrows
  <1>4. /\ node \in Nat /\ L \in Nat /\ H \in Nat /\ Leafs \in Nat
        /\ node >= elems /\ node <= elems + Leafs - 2
        /\ L >= 2 /\ L = Leafs - (node - elems)
        /\ H = Last_ + 1 - 2 * (node - elems)
        /\ H - 3 >= L /\ H - 3 \in Nodes
        /\ node \in Nodes /\ Sorted_ \subseteq Nodes
        /\ H - 1 \in Nodes /\ H - 2 \in Nodes
        /\ node \notin AllNodes /\ AllNodes \subseteq Nodes
    BY <1>2, CombinePlaces
  <1>5. /\ Grown = Sorted_ \cup {H - 1, H - 2} /\ Grown \subseteq Nodes
        /\ H - 1 \notin Sorted_ /\ H - 2 \notin Sorted_
        /\ FatherAt(H - 1) = node /\ FatherAt(H - 2) = node
        /\ \A p \in Sorted_ : FatherAt(p) \in elems..node - 1
        /\ \A p \in Grown : p >= L /\ p \in Int
    BY <1>2, GrownIs
  <1>6. Last_ \in Nat /\ Nodes = 0..Last_ /\ elems \in Nat /\ Symbols = 0..elems - 1 /\ heap_size = Last_ + 1
    BY NodesAre
  <1>7. /\ UsedSymbols' = UsedSymbols /\ ForcedSymbols' = ForcedSymbols
        /\ Chosen' = Chosen /\ Leafs' = Leafs /\ ForcedBits' = ForcedBits
        /\ \A x : Freq(x)' = Freq(x)
    BY <1>1, SameDesc
  <1>8. /\ fc \in [Nodes -> Nat] /\ dl \in [Nodes -> Nat] /\ bl_count_ \in [0..max_bits -> Nat]
        /\ opt_len_ \in Int /\ static_len_ \in Int /\ heap_ \in [Nodes -> Nodes]
    BY <1>2 DEF Typed
  <1>9. /\ n \in Nodes /\ m \in Nodes /\ n # m /\ n \in AllNodes /\ m \in AllNodes
        /\ fc' = [fc EXCEPT ![node] = fc[n] + fc[m]]
        /\ depth_' \in [Nodes -> Nat] /\ hp \in [Nodes -> Nodes]
        /\ {hp[i] : i \in 1..L - 1} = ({heap_[i] : i \in 1..L} \ {n, m}) \cup {node}
        /\ Ordered(hp, L - 1, fc', depth_', 1)
        /\ hp[H - 1] = n /\ hp[H - 2] = m
        /\ \A i \in Sorted_ : hp[i] = heap_[i]
    <2>1. /\ n \in Nodes /\ m \in Nodes /\ n # m
          /\ n \in {heap_[i] : i \in 1..heap_len_} /\ m \in {heap_[i] : i \in 1..heap_len_}
          /\ fc' = [fc EXCEPT ![node] = fc[n] + fc[m]]
          /\ depth_' \in [Nodes -> Nat] /\ hp \in [Nodes -> Nodes]
          /\ {hp[i] : i \in 1..heap_len_ - 1} = ({heap_[i] : i \in 1..heap_len_} \ {n, m}) \cup {node}
          /\ Ordered(hp, heap_len_ - 1, fc', depth_', 1)
          /\ hp[heap_max_ - 1] = n /\ hp[heap_max_ - 2] = m
          /\ \A i \in Sorted_ : hp[i] = heap_[i]
      BY <1>1 DEF Joins
    <2>2. AllNodes = {heap_[i] : i \in Heap_ \cup Sorted_} /\ Heap_ = 1..heap_len_
      BY <1>2, CombinePlaces DEF IInv, NodesInv
    <2>3. {heap_[i] : i \in 1..heap_len_} \subseteq AllNodes
      BY <2>2
    <2>4. n \in AllNodes /\ m \in AllNodes
      BY <2>1, <2>3
    <2> QED BY <2>1, <2>4
  <1>10. fc' \in [Nodes -> Nat] /\ \A x \in Nodes : x # node => fc'[x] = fc[x]
    <2>1. fc[n] + fc[m] \in Nat
      <3>1. fc[n] \in Nat /\ fc[m] \in Nat
        BY <1>8, <1>9, Zenon
      <3> QED BY <3>1
    <2> QED BY <1>4, <1>8, <1>9, <2>1
  <1>11. Chosen \subseteq AllNodes /\ Chosen \subseteq Symbols /\ node \notin Symbols /\ node \notin Chosen
    <2>1. Chosen \subseteq Symbols
      BY <1>2, ChosenFacts
    <2> QED BY <1>4, <1>6, <2>1 DEF AllNodes
  <1>12. /\ max_code = Max(Chosen) /\ \A x \in Symbols \ Chosen : dl[x] = 0
         /\ \A x \in Chosen : fc[x] = Freq(x)
    BY <1>2 DEF IInv, ChosenInv
  <1>13. \A p \in Sorted_ : dl[heap_[p]] = FatherAt(p)
    BY <1>2 DEF IInv, LengthsInv, After_
  <1>14. opt_len_ = 0 - Len(ForcedSymbols) /\ static_len_ = 0 - ForcedBits
    BY <1>2 DEF IInv, CountsInv
  <1>15. \A p : FatherAt(p)' = FatherAt(p)
    BY DEF FatherAt, Last_, heap_size
  <1>16. AllNodes' = AllNodes \cup {node}
    <2>1. elems..node + 1 - 1 = (elems..node - 1) \cup {node}
      BY <1>4, <1>6
    <2> QED BY <1>1, <1>7, <2>1 DEF AllNodes
  <1>17. \A x \in Symbols \ Chosen : x # n /\ x # m /\ x # node
    <2>1. AllNodes \cap Symbols \subseteq Chosen
      <3>1. \A x \in elems..node - 1 : x \notin 0..elems - 1
        BY <1>6
      <3> QED BY <1>6, <3>1 DEF AllNodes
    <2> QED BY <1>9, <1>11, <2>1
  <1>18. hp[H - 1] = n /\ hp[H - 2] = m /\ n # node /\ m # node /\ H - 1 \in Grown /\ H - 2 \in Grown
    BY <1>4, <1>5, <1>9
  <1>19. \A p \in Sorted_ : /\ hp[p] # n /\ hp[p] # m /\ hp[p] # node /\ hp[p] = heap_[p]
                            /\ p \in Grown /\ hp[p] \in Nodes
    <2>1. \A i, j \in Grown : hp[i] = hp[j] => i = j
      BY <1>3 DEF GrownNodes, GrownPlaces
    <2>2. \A p \in Sorted_ : heap_[p] \in AllNodes
      BY <1>2 DEF IInv, NodesInv
    <2> QED BY <1>4, <1>5, <1>9, <1>18, <2>1, <2>2
  <1>20. Last_' = Last_ /\ heap_size' = heap_size
    BY DEF Last_, heap_size
  <1> HIDE DEF L, H
  <1>21. \A p \in Grown : p = H - 1 \/ p = H - 2 \/ p \in Sorted_
    BY <1>5
  <1>22. CASE L > 2
    <2>1. /\ heap_' = hp /\ heap_max_' = H - 2 /\ pc' = "combine" /\ heap_len_' = L - 1
          /\ dl' = [dl EXCEPT ![n] = node, ![m] = node]
          /\ h' = h /\ bl_count_' = bl_count_ /\ overflow' = overflow
      BY <1>1, <1>2, <1>22 DEF L, H
    <2>2. dl' \in [Nodes -> Nat] /\ dl'[n] = node /\ dl'[m] = node
          /\ \A x \in Nodes : x # n /\ x # m => dl'[x] = dl[x]
      BY <1>4, <1>8, <1>9, <2>1
    <2>3. Heap_' = 1..L - 1 /\ Sorted_' = Grown /\ After_' = Grown
      BY <1>20, <2>1 DEF Heap_, Sorted_, After_, Grown, H
    <2>4. Typed'
      BY <1>1, <1>2, <1>8, <1>9, <1>10, <2>1, <2>2 DEF Typed
    <2>5. ChosenInv'
      <3>1. \A x \in Symbols \ Chosen : dl'[x] = 0
        <4>1. Symbols \subseteq Nodes
          BY <1>6 DEF Nodes, Last_, heap_size
        <4> QED BY <1>12, <1>17, <2>2, <4>1
      <3>2. \A x \in Chosen : fc'[x] = Freq(x)
        BY <1>4, <1>10, <1>11, <1>12
      <3> QED BY <1>1, <1>7, <1>12, <3>1, <3>2 DEF ChosenInv
    <2>6. PlacesInv'
      <3>1. node + 1 \in elems..elems + Leafs - 2
        BY <1>4, <1>6, <1>22
      <3>2. L - 1 = Leafs - (node + 1 - elems) /\ H - 2 = heap_size - 2 * (node + 1 - elems)
        BY <1>4, <1>6
      <3>3. pc' = "combine" /\ node' = node + 1 /\ heap_len_' = L - 1 /\ heap_max_' = H - 2
        BY <1>1, <2>1
      <3>4. /\ node' \in elems..elems + Leafs' - 2
            /\ heap_len_' = Leafs' - (node' - elems) /\ heap_max_' = heap_size - 2 * (node' - elems)
        <4>1. Leafs' = Leafs
          BY <1>7
        <4>2. node' \in elems..elems + Leafs' - 2
          BY <3>1, <3>3, <4>1, Zenon
        <4>3. heap_len_' = Leafs' - (node' - elems)
          BY <1>4, <1>6, <3>2, <3>3, <4>1
        <4>4. heap_max_' = heap_size - 2 * (node' - elems)
          BY <1>4, <1>6, <3>2, <3>3
        <4> QED BY <4>2, <4>3, <4>4
      <3>5. pc' \notin Built'
        BY <3>3 DEF Built
      <3> QED BY <3>4, <3>5 DEF PlacesInv, Made, heap_size
    <2>7. NodesInv'
      <3>1. GrownPlaces = 1..L - 1 \cup Grown
        BY DEF GrownPlaces, L
      <3> QED BY <1>3, <1>16, <2>1, <2>3, <3>1 DEF NodesInv, GrownNodes
    <2>8. OrderInv'
      <3>1. Ordered(heap_, heap_len_, fc, depth_, 1)'
        BY <1>9, <2>1 DEF Ordered, smaller
      <3>2. \A x \in AllNodes' : fc'[x] > 0
        BY <1>3, <1>16 DEF GrownOrder
      <3>3. \A p \in Sorted_' :
              /\ \A q \in Sorted_' : p < q => fc'[heap_'[p]] >= fc'[heap_'[q]]
              /\ \A i \in Heap_' : fc'[heap_'[i]] >= fc'[heap_'[p]]
        BY <1>3, <2>1, <2>3 DEF GrownOrder, L
      <3>4. \A p, q \in Sorted_' :
              FatherAt(p) = FatherAt(q) /\ p < q => fc'[FatherAt(p)] = fc'[heap_'[p]] + fc'[heap_'[q]]
        BY <1>3, <2>1, <2>3 DEF GrownOrder
      <3> QED BY <1>15, <3>1, <3>2, <3>3, <3>4 DEF OrderInv
    <2>9. FathersInv'
      BY <1>3, <1>15, <2>1, <2>3 DEF FathersInv, GrownFathers
    <2>10. LengthsInv'
      <3>1. \A p \in Grown : dl'[hp[p]] = FatherAt(p)
        BY <1>5, <1>13, <1>18, <1>19, <1>21, <2>2
      <3> QED BY <1>15, <2>1, <2>3, <3>1 DEF LengthsInv
    <2>11. CountsInv'
      BY <1>1, <1>7, <1>14, <2>1 DEF CountsInv
    <2>12. OverflowInv' /\ CodeInv'
      BY <2>1 DEF OverflowInv, CodeInv
    <2> QED BY <2>1, <2>4, <2>5, <2>6, <2>7, <2>8, <2>9, <2>10, <2>11, <2>12 DEF IInv
  <1>23. CASE L = 2
    <2>1. /\ heap_' = [hp EXCEPT ![H - 3] = hp[1]] /\ heap_max_' = H - 3 /\ pc' = "lengths"
          /\ dl' = [dl EXCEPT ![n] = node, ![m] = node, ![hp[1]] = 0]
          /\ h' = H - 2 /\ overflow' = 0 /\ bl_count_' = [b \in 0..max_bits |-> 0]
      BY <1>1, <1>2, <1>23 DEF L, H
    <2>2. hp[1] = node
      <3>1. 1..L - 1 = {1}
        BY <1>23
      <3>2. {hp[i] : i \in 1..L - 1} = {hp[1]}
        BY <3>1
      <3> QED BY <1>9, <3>2
    <2>3. /\ heap_' \in [Nodes -> Nodes] /\ heap_'[H - 3] = node
          /\ \A i \in Nodes : i # H - 3 => heap_'[i] = hp[i]
      <3>1. DOMAIN hp = Nodes
        BY <1>9
      <3> QED BY <1>4, <1>9, <2>1, <2>2, <3>1
    <2>4. dl' \in [Nodes -> Nat] /\ dl'[n] = node /\ dl'[m] = node /\ dl'[node] = 0
          /\ \A x \in Nodes : x # n /\ x # m /\ x # node => dl'[x] = dl[x]
      BY <1>4, <1>8, <1>9, <1>18, <2>1, <2>2
    <2>5. Heap_' = {} /\ Sorted_' = Grown \cup {H - 3} /\ After_' = Grown /\ Before_' = {H - 3}
          /\ Sorted_' = H - 3..Last_ /\ H - 3 \notin Grown
      <3>1. H - 3..Last_ = (H - 2..Last_) \cup {H - 3} /\ H - 3..H - 2 - 1 = {H - 3} /\ H - 3 \notin H - 2..Last_
        BY <1>4, <1>6
      <3>2. Sorted_' = H - 3..Last_ /\ After_' = H - 2..Last_ /\ Before_' = H - 3..H - 2 - 1 /\ Heap_' = {}
        BY <1>20, <2>1 DEF Heap_, Sorted_, After_, Before_
      <3> QED BY <3>1, <3>2 DEF Grown, H
    <2>6. \A p \in Grown : heap_'[p] = hp[p] /\ p # H - 3 /\ p > H - 3
      <3>1. \A p \in Grown : p # H - 3 /\ p > H - 3
        BY <1>4, <1>6 DEF Grown, H
      <3> QED BY <1>5, <2>3, <3>1
    <2>7. FatherAt(H - 3) = node + 1
      <3> DEFINE k == node - elems
      <3>1. Last_ - (H - 3) = 2 * (k + 1) /\ k + 1 \in Nat
        BY <1>4, <1>6
      <3>2. node + 1 = elems + (k + 1)
        BY <1>4, <1>6
      <3> HIDE DEF k
      <3>3. (2 * (k + 1)) \div 2 = k + 1
        BY <3>1
      <3> QED BY <3>1, <3>2, <3>3 DEF FatherAt
    <2>8. \A p \in Grown : hp[p] # node
      BY <1>18, <1>19, <1>21
    <2>9. Typed'
      <3>1. bl_count_' \in [0..max_bits -> Nat]
        BY <2>1
      <3> QED BY <1>1, <1>2, <1>8, <1>9, <1>10, <2>1, <2>3, <2>4, <3>1 DEF Typed
    <2>10. ChosenInv'
      <3>1. \A x \in Symbols \ Chosen : dl'[x] = 0
        <4>1. Symbols \subseteq Nodes
          BY <1>6 DEF Nodes, Last_, heap_size
        <4> QED BY <1>12, <1>17, <2>4, <4>1
      <3>2. \A x \in Chosen : fc'[x] = Freq(x)
        BY <1>4, <1>10, <1>11, <1>12
      <3> QED BY <1>1, <1>7, <1>12, <3>1, <3>2 DEF ChosenInv
    <2>11. PlacesInv'
      <3>1. node + 1 = elems + Leafs - 1 /\ H - 3 = heap_size - 2 * Leafs + 1 /\ node = node + 1 - 1
        BY <1>4, <1>6, <1>23
      <3>2. pc' = "lengths" /\ node' = node + 1 /\ heap_max_' = H - 3 /\ heap_'[H - 3] = node
        BY <1>1, <2>1, <2>3
      <3>3. node' = elems + Leafs' - 1 /\ heap_max_' = heap_size - 2 * Leafs' + 1
            /\ heap_'[heap_max_'] = node' - 1
        <4>1. Leafs' = Leafs
          BY <1>7
        <4>2. node' = elems + Leafs' - 1
          BY <3>1, <3>2, <4>1, Zenon
        <4>3. heap_max_' = heap_size - 2 * Leafs' + 1
          BY <3>1, <3>2, <4>1, Zenon
        <4>4. heap_'[heap_max_'] = node' - 1
          BY <1>4, <1>6, <3>1, <3>2
        <4> QED BY <4>2, <4>3, <4>4
      <3> QED BY <3>2, <3>3 DEF PlacesInv, Made, heap_size
    <2>12. NodesInv'
      <3>1. GrownPlaces = {1} \cup Grown /\ \A i \in Grown : i # 1
        BY <1>5, <1>23 DEF GrownPlaces, L
      <3>2. \A i, j \in Grown : hp[i] = hp[j] => i = j
        BY <1>3, <3>1 DEF GrownNodes
      <3>3. \A i, j \in Grown \cup {H - 3} : heap_'[i] = heap_'[j] => i = j
        BY <2>3, <2>6, <2>8, <3>2
      <3>4. {heap_'[i] : i \in Grown \cup {H - 3}} = AllNodes \cup {node}
        <4>1. {hp[i] : i \in {1} \cup Grown} = AllNodes \cup {node}
          BY <1>3, <3>1 DEF GrownNodes
        <4>2. {hp[i] : i \in {1} \cup Grown} = {hp[i] : i \in Grown} \cup {node}
          BY <2>2
        <4>3. {heap_'[i] : i \in Grown \cup {H - 3}} = {heap_'[i] : i \in Grown} \cup {node}
          BY <2>3
        <4>4. {heap_'[i] : i \in Grown} = {hp[i] : i \in Grown}
          BY <2>6
        <4> QED BY <4>1, <4>2, <4>3, <4>4
      <3> QED BY <1>16, <2>1, <2>5, <3>3, <3>4 DEF NodesInv
    <2>13. OrderInv'
      <3>1. \A x \in AllNodes' : fc'[x] > 0
        BY <1>3, <1>16 DEF GrownOrder
      <3>2. \A p \in Grown : fc'[node] >= fc'[hp[p]]
        <4>1. 1 \in 1..heap_len_ - 1
          BY <1>23 DEF L
        <4> QED BY <1>3, <2>2, <4>1 DEF GrownOrder
      <3>3. \A p, q \in Grown : p < q => fc'[hp[p]] >= fc'[hp[q]]
        BY <1>3 DEF GrownOrder
      <3>4. \A p \in Sorted_', q \in Sorted_' : p < q => fc'[heap_'[p]] >= fc'[heap_'[q]]
        <4> TAKE p \in Sorted_', q \in Sorted_'
        <4> HAVE p < q
        <4>1. q \in Grown
          <5>1. p \in H - 3..Last_ /\ q \in H - 3..Last_
            BY <2>5
          <5>2. q # H - 3
            BY <1>4, <1>6, <5>1
          <5> QED BY <2>5, <5>2
        <4>2. p \in Grown \/ p = H - 3
          BY <2>5
        <4> QED BY <2>3, <2>6, <3>2, <3>3, <4>1, <4>2
      <3>5. \A p, q \in Sorted_' :
              FatherAt(p) = FatherAt(q) /\ p < q /\ FatherAt(p) < node + 1 =>
                  fc'[FatherAt(p)] = fc'[heap_'[p]] + fc'[heap_'[q]]
        <4> TAKE p \in Sorted_', q \in Sorted_'
        <4> HAVE FatherAt(p) = FatherAt(q) /\ p < q /\ FatherAt(p) < node + 1
        <4>1. p # H - 3 /\ q # H - 3
          BY <1>4, <2>7
        <4>2. p \in Grown /\ q \in Grown
          BY <2>5, <4>1
        <4>3. fc'[FatherAt(p)] = fc'[hp[p]] + fc'[hp[q]]
          BY <1>3, <4>2 DEF GrownOrder
        <4> QED BY <2>6, <4>2, <4>3
      <3> QED BY <1>1, <1>15, <2>1, <2>5, <3>1, <3>4, <3>5 DEF OrderInv
    <2>14. FathersInv'
      <3> SUFFICES ASSUME NEW p \in Sorted_', FatherAt(p) < node + 1 PROVE heap_'[p] < FatherAt(p)
        BY <1>1, <1>15 DEF FathersInv
      <3>1. p # H - 3
        BY <1>4, <2>7
      <3>2. p \in Grown
        BY <2>5, <3>1
      <3> QED BY <1>3, <2>6, <3>2 DEF GrownFathers
    <2>15. DoneNodes' = {node} /\ DoneLeaves' = {}
      <3>1. DoneNodes' = {node}
        BY <2>3, <2>5 DEF DoneNodes
      <3> QED BY <1>11, <3>1 DEF DoneLeaves, Symbols
    <2>16. LengthsInv'
      <3>1. \A p \in Grown : dl'[heap_'[p]] = FatherAt(p)
        BY <1>5, <1>13, <1>18, <1>19, <1>21, <2>4, <2>6
      <3>2. H - 2 \in H - 3 + 1..Last_ /\ H - 3 + 1..H - 2 - 1 = {}
        BY <1>4, <1>6
      <3>3. \A p, q \in Before_' : p = q
        BY <2>5
      <3>4. \A p, q \in Before_' : ~(fc'[heap_'[p]] > fc'[heap_'[q]])
        <4>1. fc'[heap_'[H - 3]] \in Nat
          BY <1>4, <1>10, <2>3
        <4> QED BY <2>5, <4>1
      <3> QED BY <1>15, <1>20, <2>1, <2>3, <2>4, <2>5, <3>1, <3>2, <3>4 DEF LengthsInv, LengthsRead
    <2>17. CountsInv'
      <3>1. \A b \in 0..max_bits : bl_count_'[b] = Cardinality({x \in DoneLeaves' : dl'[x] = b})
        <4> TAKE b \in 0..max_bits
        <4>1. {x \in DoneLeaves' : dl'[x] = b} = {}
          BY <2>15
        <4>2. bl_count_'[b] = 0
          BY <2>1
        <4> QED BY <4>1, <4>2, FS_EmptySet
      <3>2. WeightSum(Halves)' = 2 * 2^Limit' /\ WeightSum(Longest_)' >= 0
        <4>1. IsFiniteSet(Sorted_')
          <5>1. H - 3 \in Int /\ Last_ \in Int
            BY <1>4, <1>6
          <5>2. IsFiniteSet(H - 3..Last_)
            BY <5>1, FS_Interval
          <5> QED BY <2>5, <5>2
        <4>2. H - 1 \in Sorted_' /\ H - 2 \in Sorted_' /\ H - 1 # H - 2 /\ H - 1 >= h' /\ H - 2 >= h'
          BY <1>4, <1>18, <2>1, <2>5
        <4>3. FatherAt(H - 1) = node /\ FatherAt(H - 2) = node
          BY <1>5
        <4>4. \A i \in Sorted_' : i # H - 1 /\ i # H - 2 => FatherAt(i) # node
          <5> SUFFICES ASSUME NEW i \in Sorted_', i # H - 1, i # H - 2 PROVE FatherAt(i) # node
            OBVIOUS
          <5>1. i \in Sorted_ \/ i = H - 3
            BY <1>21, <2>5
          <5>2. CASE i \in Sorted_
            <6>1. FatherAt(i) \in elems..node - 1
              BY <1>5, <5>2
            <6> QED BY <1>4, <1>6, <6>1
          <5>3. CASE i = H - 3
            BY <1>4, <2>7, <5>3
          <5> QED BY <5>1, <5>2, <5>3
        <4>5. desc \in Descs /\ desc' = desc /\ dl'[node] = 0 /\ DoneNodes' = {node} /\ DoneLeaves' = {}
          BY <1>1, <1>2, <2>4, <2>15
        <4> QED BY <4>1, <4>2, <4>3, <4>4, <4>5, RootSum
      <3>3. Limit' \in Nat /\ 2^Limit' \in Nat /\ Len(ForcedSymbols) \in Nat
        <4>1. Limit' = Limit /\ Limit \in Nat
          BY <1>1, <1>2, SameDesc, DescFacts
        <4>2. Len(ForcedSymbols) \in 0..2
          BY <1>2, ForcedFacts
        <4> QED BY <4>1, <4>2, PowerOfTwo
      <3>4. WeightSum(Halves)' = 2 * 2^Limit' + overflow' /\ WeightSum(Longest_)' >= overflow' /\ overflow' \in Nat
        BY <2>1, <3>2, <3>3
      <3>5. SumFunctionOnSet(SymbolBits', DoneLeaves') = 0 /\ SumFunctionOnSet(StaticBits', DoneLeaves') = 0
        BY <2>15, SumEmpty
      <3>6. /\ opt_len_' = SumFunctionOnSet(SymbolBits', DoneLeaves') - Len(ForcedSymbols')
            /\ static_len_' = SumFunctionOnSet(StaticBits', DoneLeaves') - ForcedBits'
        BY <1>1, <1>7, <1>14, <3>5
      <3> QED BY <2>1, <3>1, <3>4, <3>6 DEF CountsInv, LengthsAdded
    <2>18. OverflowInv' /\ CodeInv'
      BY <2>1 DEF OverflowInv, CodeInv
    <2> QED BY <2>1, <2>9, <2>10, <2>11, <2>12, <2>13, <2>14, <2>16, <2>17, <2>18 DEF IInv
  <1> QED BY <1>4, <1>22, <1>23

-----------------------------------------------------------------------------
(* SetLength *)

\* Where things are while the lengths are read off the tree.
LEMMA LengthPlaces ==
    ASSUME IInv, pc = "lengths"
    PROVE  /\ Leafs \in Nat /\ Leafs >= 2 /\ elems \in Nat /\ Leafs <= elems
           /\ Last_ \in Nat /\ Nodes = 0..Last_ /\ heap_size = Last_ + 1
           /\ node = elems + Leafs - 1 /\ heap_max_ = Last_ + 2 - 2 * Leafs
           /\ heap_max_ \in Nat /\ heap_[heap_max_] = node - 1
           /\ h \in heap_max_ + 1..Last_ /\ Sorted_ = heap_max_..Last_ /\ Sorted_ \subseteq Nodes
           /\ Before_ = heap_max_..h - 1 /\ After_ = h..Last_
           /\ \A i, j \in Sorted_ : heap_[i] = heap_[j] => i = j
           /\ AllNodes = {heap_[i] : i \in Sorted_}
  <1>1. desc \in Descs
    BY DEF IInv, Typed
  <1>2. Leafs \in 2..elems
    BY <1>1, ChosenFacts
  <1>3. /\ node = elems + Leafs - 1 /\ heap_max_ = heap_size - 2 * Leafs + 1
        /\ heap_[heap_max_] = node - 1
    BY DEF IInv, PlacesInv, Built
  <1>4. Last_ = 2 * elems /\ elems \in Nat /\ Nodes = 0..Last_ /\ heap_size = Last_ + 1 /\ Last_ \in Nat
    BY NodesAre
  <1>5. /\ Leafs \in Nat /\ Leafs >= 2 /\ Leafs <= elems
        /\ heap_max_ = Last_ + 2 - 2 * Leafs /\ heap_max_ \in Nat
        /\ heap_max_..Last_ \subseteq Nodes
    BY <1>2, <1>3, <1>4
  <1>6. Heap_ = {} /\ Sorted_ = heap_max_..Last_ /\ Before_ = heap_max_..h - 1 /\ After_ = h..Last_
    BY DEF Heap_, Sorted_, Before_, After_
  <1>7. /\ \A i, j \in Sorted_ : heap_[i] = heap_[j] => i = j
        /\ AllNodes = {heap_[i] : i \in Sorted_}
    <2>1. /\ \A i, j \in Heap_ \cup Sorted_ : heap_[i] = heap_[j] => i = j
          /\ AllNodes = {heap_[i] : i \in Heap_ \cup Sorted_}
      BY DEF IInv, NodesInv
    <2>2. Heap_ \cup Sorted_ = Sorted_
      BY <1>6
    <2> QED BY <2>1, <2>2
  <1>8. h \in heap_max_ + 1..Last_
    BY DEF IInv, LengthsInv
  <1> QED BY <1>3, <1>4, <1>5, <1>6, <1>7, <1>8

\* The sons of the k-th father.
LEMMA SonsAt ==
    ASSUME IInv, pc = "lengths", NEW k \in 0..Leafs - 2
    PROVE  /\ Last_ - 2 * k - 1 \in heap_max_ + 1..Last_ /\ Last_ - 2 * k \in heap_max_ + 1..Last_
           /\ FatherAt(Last_ - 2 * k - 1) = elems + k /\ FatherAt(Last_ - 2 * k) = elems + k
           /\ \A p \in Sorted_ : FatherAt(p) = elems + k =>
                 p = Last_ - 2 * k - 1 \/ p = Last_ - 2 * k
  <1>1. /\ Leafs \in Nat /\ elems \in Nat /\ Last_ \in Nat /\ heap_max_ = Last_ + 2 - 2 * Leafs
        /\ heap_max_ \in Nat /\ Sorted_ = heap_max_..Last_
    BY LengthPlaces
  <1>2. k \in Nat /\ k <= Leafs - 2
    BY <1>1
  <1>3. Last_ - 2 * k - 1 \in heap_max_ + 1..Last_ /\ Last_ - 2 * k \in heap_max_ + 1..Last_
    BY <1>1, <1>2
  <1>4. Last_ - (Last_ - 2 * k - 1) = 2 * k + 1 /\ Last_ - (Last_ - 2 * k) = 2 * k
    BY <1>1, <1>2
  <1>5. (2 * k) \div 2 = k /\ (2 * k + 1) \div 2 = k
    BY <1>2
  <1>6. FatherAt(Last_ - 2 * k - 1) = elems + k /\ FatherAt(Last_ - 2 * k) = elems + k
    BY <1>4, <1>5 DEF FatherAt
  <1>7. \A p \in Sorted_ : FatherAt(p) = elems + k => p = Last_ - 2 * k - 1 \/ p = Last_ - 2 * k
    <2> TAKE p \in Sorted_
    <2> HAVE FatherAt(p) = elems + k
    <2> DEFINE x == Last_ - p
    <2>1. x \in Nat /\ p = Last_ - x
      BY <1>1
    <2>2. elems + x \div 2 = elems + k
      BY DEF FatherAt
    <2> HIDE DEF x
    <2>3. x \div 2 = k
      BY <1>1, <1>2, <2>1, <2>2
    <2>4. x = 2 * k \/ x = 2 * k + 1
      BY <1>2, <2>1, <2>3
    <2> QED BY <1>1, <1>2, <2>1, <2>4
  <1> QED BY <1>3, <1>6, <1>7

\* The places p and q of the two sons of F; what is between them has no other father.
Brothers(p, q, F) ==
    /\ q \in heap_max_ + 1..Last_ /\ FatherAt(q) = F /\ FatherAt(p) = F
    /\ F \in elems..node - 1
    /\ p < q \/ q < p
    /\ \A i \in Sorted_ : FatherAt(i) = F => i = p \/ i = q
    /\ \A i \in Sorted_ : i < p /\ FatherAt(i) # F => i < q
    /\ \A i \in Sorted_ : i > p /\ FatherAt(i) # F => i > q

\* Every node but the root has a father, and a brother.
LEMMA HasBrother ==
    ASSUME IInv, pc = "lengths", NEW p \in heap_max_ + 1..Last_
    PROVE  \E q : Brothers(p, q, FatherAt(p))
  <1>1. /\ Leafs \in Nat /\ elems \in Nat /\ Last_ \in Nat /\ heap_max_ = Last_ + 2 - 2 * Leafs
        /\ heap_max_ \in Nat /\ Sorted_ = heap_max_..Last_ /\ node = elems + Leafs - 1
    BY LengthPlaces
  <1> DEFINE x == Last_ - p
             k == x \div 2
             a == Last_ - 2 * k - 1
             b == Last_ - 2 * k
  <1>2. x \in Nat /\ x <= 2 * Leafs - 3 /\ p = Last_ - x
    BY <1>1
  <1>3. k \in Nat /\ k <= Leafs - 2 /\ (x = 2 * k \/ x = 2 * k + 1)
    <2> HIDE DEF x
    <2> QED BY <1>1, <1>2
  <1>4. FatherAt(p) = elems + k
    BY DEF FatherAt
  <1> HIDE DEF x, k
  <1>5. k \in 0..Leafs - 2 /\ elems + k \in elems..node - 1
    BY <1>1, <1>3
  <1>6. /\ a \in heap_max_ + 1..Last_ /\ b \in heap_max_ + 1..Last_
        /\ FatherAt(a) = elems + k /\ FatherAt(b) = elems + k
        /\ \A i \in Sorted_ : FatherAt(i) = elems + k => i = a \/ i = b
    BY <1>5, SonsAt
  <1>7. b = a + 1 /\ a \in Int /\ b \in Int
    BY <1>1, <1>3
  <1>8. p = a \/ p = b
    BY <1>1, <1>2, <1>3
  <1>9. a \in Sorted_ /\ b \in Sorted_ /\ \A i \in Sorted_ : i \in Int
    BY <1>1, <1>6
  <1> HIDE DEF a, b
  <1>10. \A i \in Sorted_ : i < a /\ FatherAt(i) # elems + k => i < b
    BY <1>7, <1>9
  <1>11. \A i \in Sorted_ : i > a /\ FatherAt(i) # elems + k => i > b
    <2> TAKE i \in Sorted_
    <2> HAVE i > a /\ FatherAt(i) # elems + k
    <2>1. i # b
      BY <1>6
    <2> QED BY <1>7, <1>9, <2>1
  <1>12. \A i \in Sorted_ : i < b /\ FatherAt(i) # elems + k => i < a
    <2> TAKE i \in Sorted_
    <2> HAVE i < b /\ FatherAt(i) # elems + k
    <2>1. i # a
      BY <1>6
    <2> QED BY <1>7, <1>9, <2>1
  <1>13. \A i \in Sorted_ : i > b /\ FatherAt(i) # elems + k => i > a
    BY <1>7, <1>9
  <1>14. CASE p = a
    <2>1. Brothers(p, b, elems + k)
      BY <1>5, <1>6, <1>7, <1>10, <1>11, <1>14 DEF Brothers
    <2> QED BY <1>4, <2>1
  <1>15. CASE p = b
    <2>1. Brothers(p, a, elems + k)
      BY <1>5, <1>6, <1>7, <1>12, <1>13, <1>15 DEF Brothers
    <2> QED BY <1>4, <2>1
  <1> QED BY <1>8, <1>14, <1>15

\* A father is as frequent as its sons together.
LEMMA FatherSum ==
    ASSUME IInv, pc = "lengths", NEW p \in heap_max_ + 1..Last_, NEW q, Brothers(p, q, FatherAt(p))
    PROVE  /\ fc[FatherAt(p)] = fc[heap_[p]] + fc[heap_[q]]
           /\ fc[heap_[p]] \in Nat /\ fc[heap_[p]] > 0 /\ fc[heap_[q]] \in Nat /\ fc[heap_[q]] > 0
  <1>1. /\ elems \in Nat /\ Last_ \in Nat /\ heap_max_ \in Nat /\ Sorted_ = heap_max_..Last_
        /\ AllNodes = {heap_[i] : i \in Sorted_} /\ Leafs \in Nat /\ node = elems + Leafs - 1
        /\ Sorted_ \subseteq Nodes
    BY LengthPlaces
  <1>2. /\ q \in heap_max_ + 1..Last_ /\ FatherAt(q) = FatherAt(p)
        /\ FatherAt(p) \in elems..node - 1 /\ (p < q \/ q < p)
    BY DEF Brothers
  <1>3. p \in Sorted_ /\ q \in Sorted_ /\ FatherAt(p) < node
    BY <1>1, <1>2
  <1>4. /\ \A n \in AllNodes : fc[n] > 0
        /\ \A i, j \in Sorted_ :
              FatherAt(i) = FatherAt(j) /\ i < j /\ FatherAt(i) < node =>
                  fc[FatherAt(i)] = fc[heap_[i]] + fc[heap_[j]]
    BY DEF IInv, OrderInv
  <1>5. fc \in [Nodes -> Nat] /\ heap_ \in [Nodes -> Nodes]
    BY DEF IInv, Typed
  <1>6. /\ heap_[p] \in Nodes /\ heap_[q] \in Nodes /\ heap_[p] \in AllNodes /\ heap_[q] \in AllNodes
    BY <1>1, <1>3, <1>5
  <1>7. /\ fc[heap_[p]] \in Nat /\ fc[heap_[p]] > 0 /\ fc[heap_[q]] \in Nat /\ fc[heap_[q]] > 0
    BY <1>4, <1>5, <1>6
  <1>8. CASE p < q
    BY <1>2, <1>3, <1>4, <1>7, <1>8
  <1>9. CASE q < p
    <2>1. fc[FatherAt(q)] = fc[heap_[q]] + fc[heap_[p]]
      BY <1>2, <1>3, <1>4, <1>9
    <2> QED BY <1>2, <1>7, <2>1
  <1> QED BY <1>2, <1>8, <1>9

\* The less frequent are further on.
LEMMA InOrder ==
    ASSUME IInv, pc = "lengths", NEW p \in Sorted_, NEW q \in Sorted_, p < q
    PROVE  fc[heap_[p]] >= fc[heap_[q]]
  BY DEF IInv, OrderInv

\* The father of a node comes before it.
LEMMA FatherBefore ==
    ASSUME IInv, pc = "lengths", NEW p \in heap_max_ + 1..Last_
    PROVE  \E q \in heap_max_..p - 1 : heap_[q] = FatherAt(p)
  <1>1. /\ elems \in Nat /\ Last_ \in Nat /\ heap_max_ \in Nat /\ Sorted_ = heap_max_..Last_
        /\ AllNodes = {heap_[i] : i \in Sorted_}
    BY LengthPlaces
  <1>2. PICK b : Brothers(p, b, FatherAt(p))
    BY HasBrother
  <1>3. FatherAt(p) \in AllNodes
    BY <1>2 DEF Brothers, AllNodes
  <1>4. PICK q \in Sorted_ : heap_[q] = FatherAt(p)
    BY <1>1, <1>3
  <1>5. fc[FatherAt(p)] > fc[heap_[p]] /\ fc[heap_[p]] \in Nat /\ fc[FatherAt(p)] \in Nat
    <2>1. /\ fc[FatherAt(p)] = fc[heap_[p]] + fc[heap_[b]]
          /\ fc[heap_[p]] \in Nat /\ fc[heap_[p]] > 0 /\ fc[heap_[b]] \in Nat /\ fc[heap_[b]] > 0
      BY <1>2, FatherSum
    <2> QED BY <2>1
  <1>6. p \in Sorted_ /\ p \in Int /\ q \in Int
    BY <1>1
  <1>7. q # p
    BY <1>4, <1>5
  <1>8. ~(p < q)
    <2> SUFFICES ASSUME p < q PROVE FALSE
      OBVIOUS
    <2>1. fc[heap_[p]] >= fc[heap_[q]]
      BY <1>6, InOrder
    <2> QED BY <1>4, <1>5, <2>1
  <1>9. q \in heap_max_..p - 1
    BY <1>1, <1>4, <1>6, <1>7, <1>8
  <1> QED BY <1>4, <1>9

\* The fathers of more frequent nodes are more frequent.
LEMMA FathersInOrder ==
    ASSUME IInv, pc = "lengths", NEW p \in heap_max_ + 1..Last_, NEW q \in heap_max_ + 1..Last_, p < q,
           fc[heap_[p]] > fc[heap_[q]], FatherAt(p) # FatherAt(q)
    PROVE  fc[FatherAt(p)] > fc[FatherAt(q)]
  <1>1. /\ elems \in Nat /\ Last_ \in Nat /\ heap_max_ \in Nat /\ Sorted_ = heap_max_..Last_
    BY LengthPlaces
  <1>2. PICK a : Brothers(p, a, FatherAt(p))
    BY HasBrother
  <1>3. PICK b : Brothers(q, b, FatherAt(q))
    BY HasBrother
  <1>4. /\ fc[FatherAt(p)] = fc[heap_[p]] + fc[heap_[a]]
        /\ fc[heap_[p]] \in Nat /\ fc[heap_[a]] \in Nat
    BY <1>2, FatherSum
  <1>5. /\ fc[FatherAt(q)] = fc[heap_[q]] + fc[heap_[b]]
        /\ fc[heap_[q]] \in Nat /\ fc[heap_[b]] \in Nat
    BY <1>3, FatherSum
  <1>6. /\ a \in heap_max_ + 1..Last_ /\ FatherAt(a) = FatherAt(p)
        /\ \A i \in Sorted_ : i > p /\ FatherAt(i) # FatherAt(p) => i > a
    BY <1>2, Zenon DEF Brothers
  <1>7. /\ b \in heap_max_ + 1..Last_ /\ FatherAt(b) = FatherAt(q)
        /\ \A i \in Sorted_ : i < q /\ FatherAt(i) # FatherAt(q) => i < b
    BY <1>3, Zenon DEF Brothers
  <1>8. p \in Sorted_ /\ q \in Sorted_ /\ a \in Sorted_ /\ b \in Sorted_ /\ p \in Int /\ q \in Int /\ a \in Int /\ b \in Int
    BY <1>1, <1>6, <1>7
  <1>9. a < q
    BY <1>6, <1>8
  <1>10. a < b
    BY <1>6, <1>7, <1>8, <1>9
  <1>11. fc[heap_[a]] >= fc[heap_[b]]
    BY <1>8, <1>10, InOrder
  <1> QED BY <1>4, <1>5, <1>11

\* The smaller of two numbers.
LEMMA MinIs ==
    ASSUME NEW a \in Nat, NEW b \in Nat
    PROVE  Min({a, b}) = IF a <= b THEN a ELSE b
  <1> DEFINE S == {a, b}
             Least(x) == x \in S /\ \A y \in S : x <= y
  <1>1. Min(S) = CHOOSE x : Least(x)
    BY DEF Min
  <1>2. \E x : Least(x)
    <2>1. CASE a <= b
      <3>1. Least(a)
        BY <2>1
      <3> QED BY <3>1
    <2>2. CASE ~(a <= b)
      <3>1. Least(b)
        BY <2>2
      <3> QED BY <3>1
    <2> QED BY <2>1, <2>2
  <1>3. Least(CHOOSE x : Least(x))
    <2> HIDE DEF Least
    <2> QED BY <1>2
  <1>4. Least(Min(S))
    BY <1>1, <1>3
  <1> QED BY <1>4

\* A leaf of the tree is a symbol that gets a code.
LEMMA LeafIs ==
    ASSUME IInv, pc # "heap", NEW n \in AllNodes
    PROVE  /\ n \in Nat
           /\ n > max_code <=> n \notin Symbols
           /\ n \in Symbols => n \in Chosen
           /\ n \notin Symbols => n >= elems
  <1>1. desc \in Descs /\ elems \in Nat /\ Symbols = 0..elems - 1
    BY NodesAre DEF IInv, Typed
  <1>2. /\ Chosen \subseteq Symbols /\ max_code \in Chosen /\ \A x \in Chosen : x <= max_code
    BY <1>1, ChosenFacts DEF IInv, ChosenInv
  <1>3. n \in Chosen \/ n \in elems..node - 1
    BY DEF AllNodes
  <1>4. CASE n \in Chosen
    BY <1>1, <1>2, <1>4
  <1>5. CASE n \in elems..node - 1
    <2>1. max_code \in 0..elems - 1
      BY <1>1, <1>2
    <2>2. n \in Nat /\ n >= elems /\ n > max_code /\ n \notin 0..elems - 1
      BY <1>1, <1>5, <2>1
    <2> QED BY <1>1, <2>2
  <1> QED BY <1>3, <1>4, <1>5

\* The node that gets its length, and its father.
NodeRead(n, F) ==
    /\ n = heap_[h] /\ F = FatherAt(h)
    /\ n \in Nodes /\ n \in AllNodes /\ n \notin DoneNodes
    /\ F \in Nodes /\ F \in DoneNodes /\ F # n /\ F \in elems..node - 1
    /\ dl[n] = F /\ dl[F] \in 0..Limit
    /\ n \in Symbols \/ n \in elems..node - 2

\* There are a node and a father.
LEMMA NodeIsRead ==
    ASSUME IInv, pc = "lengths"
    PROVE  NodeRead(heap_[h], FatherAt(h))
  <1> DEFINE n == heap_[h]
             F == FatherAt(h)
  <1>1. /\ elems \in Nat /\ Leafs \in Nat /\ Leafs >= 2 /\ heap_max_ \in Nat /\ Last_ \in Nat
        /\ h \in heap_max_ + 1..Last_ /\ Sorted_ = heap_max_..Last_ /\ Sorted_ \subseteq Nodes
        /\ Before_ = heap_max_..h - 1 /\ After_ = h..Last_ /\ node = elems + Leafs - 1
        /\ \A i, j \in Sorted_ : heap_[i] = heap_[j] => i = j
        /\ AllNodes = {heap_[i] : i \in Sorted_} /\ heap_[heap_max_] = node - 1
    BY LengthPlaces
  <1>2. h \in Sorted_ /\ h \in Int /\ heap_max_ \in Sorted_ /\ h # heap_max_ /\ h \in After_
    BY <1>1
  <1>3. heap_ \in [Nodes -> Nodes] /\ desc \in Descs
    BY DEF IInv, Typed
  <1>4. n \in Nodes /\ n \in AllNodes
    BY <1>1, <1>2, <1>3
  <1>5. PICK q \in heap_max_..h - 1 : heap_[q] = F
    BY <1>1, FatherBefore
  <1>6. q \in Sorted_ /\ q \in Before_ /\ q # h
    BY <1>1, <1>5
  <1>7. n \notin DoneNodes
    <2> SUFFICES ASSUME NEW p \in Before_, n = heap_[p] PROVE FALSE
      BY DEF DoneNodes
    <2>1. p \in Sorted_ /\ p # h
      BY <1>1
    <2> QED BY <1>1, <1>2, <2>1
  <1>8. F \in Nodes /\ F \in DoneNodes /\ F # n
    BY <1>1, <1>2, <1>3, <1>5, <1>6 DEF DoneNodes
  <1>9. F \in elems..node - 1
    <2>1. PICK b : Brothers(h, b, F)
      BY <1>1, HasBrother
    <2> QED BY <2>1 DEF Brothers
  <1>10. dl[n] = F
    BY <1>2 DEF IInv, LengthsInv
  <1>11. dl[F] \in 0..Limit
    <2>1. Limit \in Nat
      BY <1>3, DescFacts
    <2>2. /\ dl[heap_[heap_max_]] = 0
          /\ \A p \in heap_max_ + 1..h - 1 : dl[heap_[p]] \in 1..Limit
      BY DEF IInv, LengthsInv, LengthsRead
    <2>3. q = heap_max_ \/ q \in heap_max_ + 1..h - 1
      BY <1>1, <1>5
    <2> QED BY <1>5, <2>1, <2>2, <2>3
  <1>12. n \in Symbols \/ n \in elems..node - 2
    <2>1. n # node - 1
      BY <1>1, <1>2
    <2>2. n \in Chosen \/ n \in elems..node - 1
      BY <1>4 DEF AllNodes
    <2>3. Chosen \subseteq Symbols
      BY <1>3, ChosenFacts
    <2> QED BY <1>1, <2>1, <2>2, <2>3
  <1> QED BY <1>4, <1>7, <1>8, <1>9, <1>10, <1>11, <1>12 DEF NodeRead

\* What SetLength does.
SetsLength(n, F) ==
    /\ NodeRead(n, F)
    /\ dl' = [dl EXCEPT ![n] = LengthBelow(dl[F])]
    /\ overflow' = overflow + (IF dl[F] < Limit THEN 0 ELSE 1)
    /\ h' = h + 1
    /\ n \notin Symbols => UNCHANGED <<bl_count_, opt_len_, static_len_>>
    /\ n \in Symbols =>
          /\ n \in Chosen
          /\ bl_count_' = [bl_count_ EXCEPT ![LengthBelow(dl[F])] = @ + 1]
          /\ opt_len_' = opt_len_ + fc[n] * (LengthBelow(dl[F]) + desc.extra[n])
          /\ desc.stree # <<>> =>
                static_len_' = static_len_ + fc[n] * (Static(n) + desc.extra[n])
          /\ desc.stree = <<>> => static_len_' = static_len_
    /\ h + 1 < heap_size => pc' = "lengths"
    /\ ~(h + 1 < heap_size) => pc' = IF overflow' = 0 THEN "codes" ELSE "overflow"
    /\ UNCHANGED <<desc, fc, heap_, heap_len_, heap_max_, depth_, node, max_code>>

\* A round of gen_bitlen that reads a length gives the node one more than its father, within
\* the limit, and counts it when the node is a symbol.
LEMMA SetLengthDoes ==
    ASSUME IInv, SetLength
    PROVE  SetsLength(heap_[h], FatherAt(h))
  <1> DEFINE n == heap_[h]
             F == FatherAt(h)
             deep == dl[dl[n]] + 1
             given == Min({deep, desc.max_length})
             over == overflow + (IF TooDeep(n, deep) THEN 1 ELSE 0)
  <1>1. pc = "lengths"
    BY DEF SetLength
  <1>2. NodeRead(n, F)
    BY <1>1, NodeIsRead
  <1>3. desc \in Descs
    BY DEF IInv, Typed
  <1>4. Limit \in Nat /\ Limit >= 1 /\ Limit = desc.max_length
    BY <1>3, DescFacts DEF Limit
  <1>5. deep = dl[F] + 1 /\ dl[F] \in 0..Limit /\ dl[F] \in Nat
    BY <1>2, <1>4 DEF NodeRead
  <1>6. given = LengthBelow(dl[F])
    <2>1. deep \in Nat /\ desc.max_length \in Nat
      BY <1>4, <1>5
    <2>2. given = IF deep <= desc.max_length THEN deep ELSE desc.max_length
      BY <2>1, MinIs
    <2> HIDE DEF given, deep
    <2> QED BY <1>4, <1>5, <2>2 DEF LengthBelow
  <1>7. over = overflow + (IF dl[F] < Limit THEN 0 ELSE 1)
    <2>1. TooDeep(n, deep) <=> ~(dl[F] < Limit)
      <3> HIDE DEF deep
      <3> QED BY <1>4, <1>5 DEF TooDeep
    <2> HIDE DEF deep
    <2> QED BY <2>1
  <1>8. /\ dl' = [dl EXCEPT ![n] = given] /\ overflow' = over /\ h' = h + 1
        /\ n > max_code => UNCHANGED <<bl_count_, opt_len_, static_len_>>
        /\ ~(n > max_code) =>
              /\ bl_count_' = [bl_count_ EXCEPT ![given] = @ + 1]
              /\ opt_len_' = opt_len_ + fc[n] * (given + desc.extra[n])
              /\ static_len_' = IF desc.stree = <<>> THEN static_len_
                                ELSE static_len_ + fc[n] * (Static(n) + desc.extra[n])
        /\ pc' = IF h + 1 < heap_size THEN pc
                 ELSE IF over = 0 THEN "codes" ELSE "overflow"
        /\ UNCHANGED <<desc, fc, heap_, heap_len_, heap_max_, depth_, node, max_code>>
    BY DEF SetLength
  <1>9. n \in AllNodes
    BY <1>2 DEF NodeRead
  <1>10. (n > max_code <=> n \notin Symbols) /\ (n \in Symbols => n \in Chosen)
    BY <1>1, <1>9, LeafIs
  <1> HIDE DEF n, F, deep, given, over
  <1>11. /\ n \notin Symbols => UNCHANGED <<bl_count_, opt_len_, static_len_>>
         /\ n \in Symbols =>
              /\ n \in Chosen
              /\ bl_count_' = [bl_count_ EXCEPT ![LengthBelow(dl[F])] = @ + 1]
              /\ opt_len_' = opt_len_ + fc[n] * (LengthBelow(dl[F]) + desc.extra[n])
              /\ desc.stree # <<>> =>
                    static_len_' = static_len_ + fc[n] * (Static(n) + desc.extra[n])
              /\ desc.stree = <<>> => static_len_' = static_len_
    BY <1>6, <1>8, <1>10
  <1>12. /\ dl' = [dl EXCEPT ![n] = LengthBelow(dl[F])] /\ h' = h + 1
         /\ overflow' = overflow + (IF dl[F] < Limit THEN 0 ELSE 1)
         /\ h + 1 < heap_size => pc' = "lengths"
         /\ ~(h + 1 < heap_size) => pc' = IF overflow' = 0 THEN "codes" ELSE "overflow"
         /\ UNCHANGED <<desc, fc, heap_, heap_len_, heap_max_, depth_, node, max_code>>
    BY <1>1, <1>6, <1>7, <1>8
  <1>13. SetsLength(n, F)
    BY <1>2, <1>11, <1>12 DEF SetsLength
  <1> QED BY <1>13 DEF n, F

\* A length is one of those that there may be.
LEMMA LengthBelowIs ==
    ASSUME desc \in Descs, NEW deep \in 0..Limit
    PROVE  /\ LengthBelow(deep) \in 1..Limit /\ LengthBelow(deep) \in Nat
           /\ LengthBelow(deep) \in 0..max_bits
           /\ \A d \in 0..deep : LengthBelow(d) <= LengthBelow(deep)
  <1>1. Limit \in Nat /\ Limit >= 1 /\ max_bits \in Nat /\ Limit <= max_bits
    BY DescFacts
  <1> QED BY <1>1 DEF LengthBelow

\* What SetLength keeps of the tree and of the lengths that were read before.
LEMMA SetLengthReads ==
    ASSUME IInv, pc = "lengths", SetsLength(heap_[h], FatherAt(h))
    PROVE  /\ Typed' /\ ChosenInv' /\ PlacesInv' /\ NodesInv' /\ OrderInv' /\ FathersInv'
           /\ \A p \in After_' : dl'[heap_'[p]] = FatherAt(p)
           /\ h + 1 < heap_size => h' \in heap_max_' + 1..Last_
           /\ ~(h + 1 < heap_size) => h' = heap_size
           /\ LengthsRead'
  <1> DEFINE n == heap_[h]
             F == FatherAt(h)
             B == LengthBelow(dl[F])
  <1>1. /\ NodeRead(n, F)
        /\ dl' = [dl EXCEPT ![n] = B]
        /\ overflow' = overflow + (IF dl[F] < Limit THEN 0 ELSE 1)
        /\ h' = h + 1
        /\ n \notin Symbols => UNCHANGED <<bl_count_, opt_len_, static_len_>>
        /\ n \in Symbols =>
              /\ n \in Chosen
              /\ bl_count_' = [bl_count_ EXCEPT ![B] = @ + 1]
              /\ opt_len_' = opt_len_ + fc[n] * (B + desc.extra[n])
              /\ desc.stree # <<>> =>
                    static_len_' = static_len_ + fc[n] * (Static(n) + desc.extra[n])
              /\ desc.stree = <<>> => static_len_' = static_len_
        /\ h + 1 < heap_size => pc' = "lengths"
        /\ ~(h + 1 < heap_size) => pc' = IF overflow' = 0 THEN "codes" ELSE "overflow"
        /\ UNCHANGED <<desc, fc, heap_, heap_len_, heap_max_, depth_, node, max_code>>
    BY DEF SetsLength
  <1>2. /\ n \in Nodes /\ n \in AllNodes /\ n \notin DoneNodes
        /\ F \in Nodes /\ F \in DoneNodes /\ F # n
        /\ dl[n] = F /\ dl[F] \in 0..Limit
    BY <1>1 DEF NodeRead
  <1>3. /\ elems \in Nat /\ Leafs \in Nat /\ Leafs >= 2 /\ heap_max_ \in Nat /\ Last_ \in Nat
        /\ h \in heap_max_ + 1..Last_ /\ Sorted_ = heap_max_..Last_ /\ Sorted_ \subseteq Nodes
        /\ Before_ = heap_max_..h - 1 /\ After_ = h..Last_ /\ node = elems + Leafs - 1
        /\ \A i, j \in Sorted_ : heap_[i] = heap_[j] => i = j
        /\ AllNodes = {heap_[i] : i \in Sorted_} /\ heap_[heap_max_] = node - 1
        /\ heap_size = Last_ + 1
    BY LengthPlaces
  <1>4. Typed /\ desc \in Descs
    BY DEF IInv, Typed
  <1>5. /\ fc \in [Nodes -> Nat] /\ dl \in [Nodes -> Nat] /\ bl_count_ \in [0..max_bits -> Nat]
        /\ opt_len_ \in Int /\ static_len_ \in Int /\ heap_ \in [Nodes -> Nodes]
        /\ depth_ \in [Nodes -> Nat]
    BY <1>4 DEF Typed
  <1>6. B \in 1..Limit /\ B \in Nat /\ B \in 0..max_bits /\ \A d \in 0..dl[F] : LengthBelow(d) <= B
    BY <1>2, <1>4, LengthBelowIs
  <1>7. pc' \in {"lengths", "codes", "overflow"}
    BY <1>1
  <1>8. /\ UsedSymbols' = UsedSymbols /\ Chosen' = Chosen /\ Leafs' = Leafs /\ Limit' = Limit
        /\ \A x : Freq(x)' = Freq(x)
    BY <1>1, SameDesc
  <1>9. /\ desc' = desc /\ fc' = fc /\ heap_' = heap_ /\ heap_len_' = heap_len_ /\ heap_max_' = heap_max_
        /\ depth_' = depth_ /\ node' = node /\ max_code' = max_code /\ h' = h + 1
    BY <1>1
  <1> HIDE DEF B
  <1>10. dl' \in [Nodes -> Nat] /\ dl'[n] = B /\ \A x \in Nodes : x # n => dl'[x] = dl[x]
    BY <1>1, <1>2, <1>5, <1>6
  <1> HIDE DEF n, F
  <1>11. Typed'
    <2>1. bl_count_' \in [0..max_bits -> Nat] /\ opt_len_' \in Int /\ static_len_' \in Int
      <3>1. CASE n \notin Symbols
        BY <1>1, <1>5, <3>1
      <3>2. CASE n \in Symbols
        <4>1. n \in Chosen /\ fc[n] \in Nat /\ desc.extra[n] \in Nat /\ Static(n) \in Nat
          BY <1>1, <1>2, <1>4, <1>5, <3>2, DescFacts
        <4>2. bl_count_' \in [0..max_bits -> Nat]
          <5>1. bl_count_[B] + 1 \in Nat
            BY <1>5, <1>6
          <5> QED BY <1>1, <1>5, <3>2, <5>1
        <4>3. fc[n] * (B + desc.extra[n]) \in Int /\ fc[n] * (Static(n) + desc.extra[n]) \in Int
          BY <1>6, <4>1
        <4>4. opt_len_' \in Int
          BY <1>1, <1>5, <3>2, <4>3
        <4>5. static_len_' \in Int
          BY <1>1, <1>5, <3>2, <4>3
        <4> QED BY <4>2, <4>4, <4>5
      <3> QED BY <3>1, <3>2
    <2> QED BY <1>4, <1>5, <1>7, <1>9, <1>10, <2>1 DEF Typed
  <1>12. ChosenInv'
    <2>1. /\ max_code = Max(Chosen) /\ \A x \in Symbols \ Chosen : dl[x] = 0
          /\ \A x \in Chosen : fc[x] = Freq(x)
      BY DEF IInv, ChosenInv
    <2>2. \A x \in Symbols \ Chosen : dl'[x] = 0
      <3> TAKE x \in Symbols \ Chosen
      <3>1. x # n
        BY <1>1
      <3>2. Symbols \subseteq Nodes
        BY NodesAre
      <3> QED BY <1>10, <2>1, <3>1, <3>2
    <2> QED BY <1>7, <1>8, <1>9, <2>1, <2>2 DEF ChosenInv
  <1>13. PlacesInv'
    <2>1. /\ node = elems + Leafs - 1 /\ heap_max_ = heap_size - 2 * Leafs + 1
          /\ heap_[heap_max_] = node - 1
      BY DEF IInv, PlacesInv, Built
    <2> QED BY <1>7, <1>8, <1>9, <2>1 DEF PlacesInv, heap_size
  <1>14. Heap_' = {} /\ Heap_ = {} /\ Sorted_' = Sorted_ /\ AllNodes' = AllNodes
    BY <1>7, <1>8, <1>9 DEF Heap_, Sorted_, AllNodes, Last_, heap_size
  <1>15. NodesInv'
    BY <1>3, <1>9, <1>14 DEF NodesInv
  <1>16. \A p : FatherAt(p)' = FatherAt(p)
    BY DEF FatherAt, Last_, heap_size
  <1>17. OrderInv'
    <2>1. /\ \A x \in AllNodes : fc[x] > 0
          /\ \A p \in Sorted_ : \A q \in Sorted_ : p < q => fc[heap_[p]] >= fc[heap_[q]]
          /\ \A p, q \in Sorted_ :
                FatherAt(p) = FatherAt(q) /\ p < q /\ FatherAt(p) < node =>
                    fc[FatherAt(p)] = fc[heap_[p]] + fc[heap_[q]]
      BY DEF IInv, OrderInv
    <2> QED BY <1>7, <1>9, <1>14, <1>16, <2>1 DEF OrderInv
  <1>18. FathersInv'
    <2>1. \A p \in Sorted_ : FatherAt(p) < node => heap_[p] < FatherAt(p)
      BY DEF IInv, FathersInv
    <2> QED BY <1>9, <1>14, <1>16, <2>1 DEF FathersInv
  <1>19. After_' = h + 1..Last_ /\ Before_' = heap_max_..h /\ h \in Int
    <2>1. h + 1 - 1 = h /\ h \in Int
      BY <1>3
    <2>2. After_' = h + 1..Last_ /\ Before_' = heap_max_..h + 1 - 1
      <3>1. pc' # "combine"
        BY <1>7
      <3>2. After_' = h'..Last_ /\ Before_' = heap_max_'..h' - 1
        BY <3>1 DEF After_, Before_, Last_, heap_size
      <3>3. h \in Nat /\ h' = h + 1 /\ heap_max_' = heap_max_ /\ heap_max_ \in Nat
        BY <1>3, <1>9
      <3> QED BY <3>2, <3>3
    <2> QED BY <2>1, <2>2
  <1>20. n = heap_[h] /\ F = FatherAt(h) /\ h \in Sorted_
    BY <1>3 DEF n, F
  <1>21. \A p \in Sorted_ : p # h => heap_[p] # n /\ dl'[heap_[p]] = dl[heap_[p]]
    BY <1>3, <1>5, <1>10, <1>20
  <1>22. \A p \in After_' : dl'[heap_'[p]] = FatherAt(p)
    <2> SUFFICES ASSUME NEW p \in h + 1..Last_ PROVE dl'[heap_[p]] = FatherAt(p)
      BY <1>9, <1>19
    <2>1. p \in After_ /\ p \in Sorted_ /\ p # h
      BY <1>3
    <2>2. dl[heap_[p]] = FatherAt(p)
      BY <2>1 DEF IInv, LengthsInv
    <2> QED BY <1>21, <2>1, <2>2
  <1>23. (h + 1 < heap_size => h' \in heap_max_' + 1..Last_) /\ (~(h + 1 < heap_size) => h' = heap_size)
    BY <1>3, <1>9
  <1>24. LengthsRead'
    <2>1. /\ dl[heap_[heap_max_]] = 0
          /\ \A p \in heap_max_ + 1..h - 1 :
                dl[heap_[p]] \in 1..Limit /\ dl[heap_[p]] = LengthBelow(dl[FatherAt(p)])
          /\ \A p, q \in Before_ : fc[heap_[p]] > fc[heap_[q]] => dl[heap_[p]] <= dl[heap_[q]]
      BY DEF IInv, LengthsInv, LengthsRead
    <2>2. dl'[heap_[heap_max_]] = 0
      <3>1. heap_max_ \in Sorted_ /\ heap_max_ # h
        BY <1>3
      <3> QED BY <1>21, <2>1, <3>1
    <2>3. \A d : LengthBelow(d)' = LengthBelow(d)
      BY <1>8 DEF LengthBelow
    <2>4. \A p \in heap_max_ + 1..h : dl'[FatherAt(p)] = dl[FatherAt(p)]
      <3> TAKE p \in heap_max_ + 1..h
      <3>1. p \in heap_max_ + 1..Last_
        BY <1>3
      <3>2. PICK q \in heap_max_..p - 1 : heap_[q] = FatherAt(p)
        BY <3>1, FatherBefore
      <3>3. q \in Sorted_ /\ q # h
        BY <1>3
      <3> QED BY <1>21, <3>2, <3>3
    <2>5. \A p \in heap_max_ + 1..h :
             dl'[heap_[p]] \in 1..Limit /\ dl'[heap_[p]] = LengthBelow(dl'[FatherAt(p)])
      <3> TAKE p \in heap_max_ + 1..h
      <3>1. CASE p = h
        <4>1. dl'[FatherAt(h)] = dl[F]
          BY <1>20, <2>4, <3>1
        <4> QED BY <1>6, <1>10, <1>20, <3>1, <4>1 DEF B
      <3>2. CASE p # h
        <4>1. p \in heap_max_ + 1..h - 1 /\ p \in Sorted_
          BY <1>3, <3>2
        <4> QED BY <1>21, <2>1, <2>4, <3>2, <4>1
      <3> QED BY <3>1, <3>2
    <2>6. \A p, q \in heap_max_..h : fc[heap_[p]] > fc[heap_[q]] => dl'[heap_[p]] <= dl'[heap_[q]]
      <3> SUFFICES ASSUME NEW p \in heap_max_..h, NEW q \in heap_max_..h, fc[heap_[p]] > fc[heap_[q]]
                   PROVE  dl'[heap_[p]] <= dl'[heap_[q]]
        OBVIOUS
      <3>1. p \in Sorted_ /\ q \in Sorted_ /\ fc[heap_[p]] \in Nat /\ fc[heap_[q]] \in Nat /\ p \in Int /\ q \in Int
        <4>1. p \in Sorted_ /\ q \in Sorted_ /\ p \in Int /\ q \in Int
          BY <1>3
        <4>2. heap_[p] \in Nodes /\ heap_[q] \in Nodes
          BY <1>3, <1>5, <4>1
        <4> QED BY <1>5, <4>1, <4>2
      <3>2. p < q
        <4>1. p # q
          BY <3>1
        <4>2. ~(q < p)
          <5> SUFFICES ASSUME q < p PROVE FALSE
            OBVIOUS
          <5>1. fc[heap_[q]] >= fc[heap_[p]]
            BY <3>1, InOrder
          <5> QED BY <3>1, <5>1
        <4> QED BY <3>1, <4>1, <4>2
      <3>3. CASE q # h
        <4>1. p \in Before_ /\ q \in Before_ /\ p # h
          BY <1>3, <3>1, <3>2, <3>3
        <4> QED BY <1>21, <2>1, <3>1, <3>3, <4>1
      <3>4. CASE q = h
        <4>1. p # h /\ dl'[heap_[p]] = dl[heap_[p]] /\ dl'[heap_[q]] = B
          BY <1>10, <1>20, <1>21, <3>1, <3>2, <3>4
        <4>2. CASE p = heap_max_
          BY <1>6, <2>1, <4>1, <4>2
        <4>3. CASE p # heap_max_
          <5>1. p \in heap_max_ + 1..h - 1 /\ p \in heap_max_ + 1..Last_
            BY <1>3, <3>1, <3>2, <3>4, <4>3
          <5>2. dl[heap_[p]] = LengthBelow(dl[FatherAt(p)])
            BY <2>1, <5>1
          <5>3. CASE FatherAt(p) = F
            BY <1>6, <4>1, <5>2, <5>3 DEF B
          <5>4. CASE FatherAt(p) # F
            <6>1. fc[FatherAt(p)] > fc[F]
              BY <1>3, <1>20, <3>2, <3>4, <5>1, <5>4, FathersInOrder
            <6>2. PICK i \in heap_max_..p - 1 : heap_[i] = FatherAt(p)
              BY <5>1, FatherBefore
            <6>3. PICK j \in heap_max_..h - 1 : heap_[j] = F
              BY <1>3, <1>20, FatherBefore
            <6>4. i \in Before_ /\ j \in Before_
              BY <1>3, <3>1, <5>1
            <6>5. dl[FatherAt(p)] <= dl[F]
              BY <2>1, <6>1, <6>2, <6>3, <6>4
            <6>6. dl[FatherAt(p)] \in Nat
              <7>1. i \in Sorted_
                BY <1>3, <6>4
              <7>2. heap_[i] \in Nodes
                BY <1>3, <1>5, <7>1
              <7> QED BY <1>5, <6>2, <7>2
            <6>7. dl[FatherAt(p)] \in 0..dl[F]
              BY <1>2, <6>5, <6>6
            <6> QED BY <1>6, <4>1, <5>2, <6>7
          <5> QED BY <5>3, <5>4
        <4> QED BY <4>2, <4>3
      <3> QED BY <3>3, <3>4
    <2>7. h' - 1 = h
      BY <1>3, <1>9
    <2> QED BY <1>8, <1>9, <1>16, <1>19, <2>2, <2>3, <2>5, <2>6, <2>7 DEF LengthsRead
  <1> QED BY <1>11, <1>12, <1>13, <1>15, <1>17, <1>18, <1>22, <1>23, <1>24

\* A weight of the lengths d: of the leaves, and of the places from a on whose father's
\* length is known.
OpenBy(w, d, a, known, S) ==
    [p \in S |-> IF p >= a /\ FatherAt(p) \in known THEN w[d[FatherAt(p)]] ELSE 0]
WeightBy(w, d, a, leaves, known, S) ==
    2 * SumFunctionOnSet([x \in leaves |-> w[d[x]]], leaves) + SumFunctionOnSet(OpenBy(w, d, a, known, S), S)

\* What is known of the lengths d before that of n, at place a, is.
Weighing(w, d, e, a, n, leaves, known, S, Lim) ==
    /\ IsFiniteSet(S) /\ S \subseteq Int /\ a \in S
    /\ IsFiniteSet(leaves) /\ leaves \subseteq known
    /\ \A b \in 0..Lim : w[b] \in Int
    /\ \A x \in known : d[x] \in 0..Lim /\ e[x] = d[x]
    /\ e[n] \in 0..Lim /\ n \notin known /\ FatherAt(a) \in known

\* The length of a leaf is weighed in place of that of its father.
LEMMA WeightLeaf ==
    ASSUME NEW w, NEW d, NEW e, NEW a, NEW n, NEW leaves, NEW known, NEW S, NEW Lim \in Nat,
           Weighing(w, d, e, a, n, leaves, known, S, Lim), \A p \in S : FatherAt(p) # n
    PROVE  WeightBy(w, e, a + 1, leaves \cup {n}, known \cup {n}, S)
               = WeightBy(w, d, a, leaves, known, S) - w[d[FatherAt(a)]] + 2 * w[e[n]]
  <1> DEFINE O == OpenBy(w, d, a, known, S)
             P == OpenBy(w, e, a + 1, known \cup {n}, S)
             V == [x \in leaves |-> w[d[x]]]
             U == [x \in leaves \cup {n} |-> w[e[x]]]
  <1>1. /\ IsFiniteSet(S) /\ S \subseteq Int /\ a \in S
        /\ IsFiniteSet(leaves) /\ leaves \subseteq known
        /\ \A b \in 0..Lim : w[b] \in Int
        /\ \A x \in known : d[x] \in 0..Lim /\ e[x] = d[x]
        /\ e[n] \in 0..Lim /\ n \notin known /\ FatherAt(a) \in known
    BY DEF Weighing
  <1>2. \A x \in known : w[d[x]] \in Int /\ w[e[x]] = w[d[x]]
    BY <1>1
  <1>3. w[e[n]] \in Int /\ w[d[FatherAt(a)]] \in Int
    BY <1>1, <1>2
  <1>4. \A p \in S : O[p] = IF p >= a /\ FatherAt(p) \in known THEN w[d[FatherAt(p)]] ELSE 0
    BY DEF OpenBy
  <1>5. \A p \in S : P[p] = IF p >= a + 1 /\ FatherAt(p) \in known \cup {n}
                            THEN w[e[FatherAt(p)]] ELSE 0
    BY DEF OpenBy
  <1>6. \A x \in leaves : V[x] = w[d[x]] /\ U[x] = V[x] /\ V[x] \in Int
    BY <1>1, <1>2
  <1>7. U[n] = w[e[n]]
    OBVIOUS
  <1>8. /\ WeightBy(w, e, a + 1, leaves \cup {n}, known \cup {n}, S)
              = 2 * SumFunctionOnSet(U, leaves \cup {n}) + SumFunctionOnSet(P, S)
        /\ WeightBy(w, d, a, leaves, known, S) = 2 * SumFunctionOnSet(V, leaves) + SumFunctionOnSet(O, S)
    BY DEF WeightBy
  <1> HIDE DEF O, P, U, V
  <1>9. SumFunctionOnSet(U, leaves \cup {n}) = SumFunctionOnSet(V, leaves) + w[e[n]]
        /\ SumFunctionOnSet(V, leaves) \in Int
    <2>1. n \notin leaves /\ \A y \in leaves \cup {n} : U[y] \in Int
      BY <1>1, <1>3, <1>6, <1>7
    <2>2. SumFunctionOnSet(U, leaves \cup {n}) = SumFunctionOnSet(U, leaves) + U[n]
      BY <1>1, <2>1, SumPut
    <2>3. SumFunctionOnSet(U, leaves) = SumFunctionOnSet(V, leaves)
      BY <1>1, <1>6, SumAgree
    <2>4. SumFunctionOnSet(V, leaves) \in Int
      BY <1>1, <1>6, SumInt
    <2> QED BY <1>7, <2>2, <2>3, <2>4
  <1>10. SumFunctionOnSet(P, S) = SumFunctionOnSet(O, S) - w[d[FatherAt(a)]] /\ SumFunctionOnSet(O, S) \in Int
    <2>1. \A p \in S : O[p] \in Int
      BY <1>2, <1>4
    <2>2. \A p \in S : p # a => O[p] = P[p]
      <3> SUFFICES ASSUME NEW p \in S, p # a PROVE O[p] = P[p]
        OBVIOUS
      <3>1. p >= a + 1 <=> p >= a
        BY <1>1
      <3>2. FatherAt(p) \in known \cup {n} <=> FatherAt(p) \in known
        OBVIOUS
      <3> QED BY <1>2, <1>4, <1>5, <3>1, <3>2
    <2>3. O[a] = w[d[FatherAt(a)]] /\ P[a] = 0
      <3>1. ~(a >= a + 1) /\ a >= a
        BY <1>1
      <3> QED BY <1>1, <1>4, <1>5, <3>1
    <2>4. \A p \in S : P[p] \in Int
      BY <2>1, <2>2, <2>3
    <2>5. SumFunctionOnSet(P, S) = SumFunctionOnSet(O, S) + (P[a] - O[a])
      <3>1. \A p \in S : O[p] \in Int /\ P[p] \in Int /\ (p # a => O[p] = P[p])
        BY <2>1, <2>2, <2>4, Zenon
      <3>2. IsFiniteSet(S) /\ a \in S
        BY <1>1, Zenon
      <3> QED BY <3>1, <3>2, SumChange
    <2>6. SumFunctionOnSet(O, S) \in Int
      BY <1>1, <2>1, SumInt
    <2> DEFINE sumO == SumFunctionOnSet(O, S)
               sumP == SumFunctionOnSet(P, S)
               own  == w[d[FatherAt(a)]]
    <2>7. own \in Int /\ sumO \in Int
      BY <1>3, <2>6
    <2>8. sumP = sumO + (0 - own)
      BY <2>3, <2>5
    <2> HIDE DEF sumO, sumP, own
    <2>9. sumP = sumO - own
      BY <2>7, <2>8
    <2> QED BY <2>7, <2>9, Zenon DEF sumO, sumP, own
  <1> DEFINE before == WeightBy(w, d, a, leaves, known, S)
             after  == WeightBy(w, e, a + 1, leaves \cup {n}, known \cup {n}, S)
             sumO == SumFunctionOnSet(O, S)
             sumP == SumFunctionOnSet(P, S)
             sumU == SumFunctionOnSet(U, leaves \cup {n})
             sumV == SumFunctionOnSet(V, leaves)
             own  == w[d[FatherAt(a)]]
             new  == w[e[n]]
  <1>11. /\ new \in Int /\ own \in Int /\ sumO \in Int /\ sumV \in Int
         /\ after = 2 * sumU + sumP /\ before = 2 * sumV + sumO
         /\ sumU = sumV + new /\ sumP = sumO - own
    BY <1>3, <1>8, <1>9, <1>10, Zenon
  <1> SUFFICES after = before - own + 2 * new
    OBVIOUS
  <1> HIDE DEF before, after, sumO, sumP, sumU, sumV, own, new
  <1> QED BY <1>11

\* The places of the sons of n.
SonPlaces(i, j, a, n, S) ==
    /\ i \in S /\ j \in S /\ i # j /\ i > a /\ j > a /\ FatherAt(i) = n /\ FatherAt(j) = n
    /\ \A p \in S : FatherAt(p) = n => p = i \/ p = j

\* The length of a father is weighed, twice, in place of that of its own.
LEMMA WeightFather ==
    ASSUME NEW w, NEW d, NEW e, NEW a, NEW n, NEW leaves, NEW known, NEW S, NEW Lim \in Nat,
           Weighing(w, d, e, a, n, leaves, known, S, Lim),
           NEW i, NEW j, SonPlaces(i, j, a, n, S)
    PROVE  WeightBy(w, e, a + 1, leaves, known \cup {n}, S)
               = WeightBy(w, d, a, leaves, known, S) - w[d[FatherAt(a)]] + 2 * w[e[n]]
  <1> DEFINE O == OpenBy(w, d, a, known, S)
             P == OpenBy(w, e, a + 1, known \cup {n}, S)
             P1 == [p \in S |-> IF p = a THEN 0 ELSE O[p]]
             P2 == [p \in S |-> IF p = i THEN w[e[n]] ELSE P1[p]]
             V == [x \in leaves |-> w[d[x]]]
             U == [x \in leaves |-> w[e[x]]]
  <1>0. /\ i \in S /\ j \in S /\ i # j /\ i > a /\ j > a /\ FatherAt(i) = n /\ FatherAt(j) = n
        /\ \A p \in S : FatherAt(p) = n => p = i \/ p = j
    BY DEF SonPlaces
  <1>1. /\ IsFiniteSet(S) /\ S \subseteq Int /\ a \in S
        /\ IsFiniteSet(leaves) /\ leaves \subseteq known
        /\ \A b \in 0..Lim : w[b] \in Int
        /\ \A x \in known : d[x] \in 0..Lim /\ e[x] = d[x]
        /\ e[n] \in 0..Lim /\ n \notin known /\ FatherAt(a) \in known
    BY DEF Weighing
  <1>2. \A x \in known : w[d[x]] \in Int /\ w[e[x]] = w[d[x]]
    BY <1>1
  <1>3. w[e[n]] \in Int /\ w[d[FatherAt(a)]] \in Int
    BY <1>1, <1>2
  <1>4. \A p \in S : O[p] = IF p >= a /\ FatherAt(p) \in known THEN w[d[FatherAt(p)]] ELSE 0
    BY DEF OpenBy
  <1>5. \A p \in S : P[p] = IF p >= a + 1 /\ FatherAt(p) \in known \cup {n}
                            THEN w[e[FatherAt(p)]] ELSE 0
    BY DEF OpenBy
  <1>6. \A x \in leaves : U[x] = V[x] /\ V[x] \in Int
    BY <1>1, <1>2
  <1>7. \A p \in S : P1[p] = IF p = a THEN 0 ELSE O[p]
    OBVIOUS
  <1>8. \A p \in S : P2[p] = IF p = i THEN w[e[n]] ELSE P1[p]
    OBVIOUS
  <1>9. /\ WeightBy(w, e, a + 1, leaves, known \cup {n}, S)
              = 2 * SumFunctionOnSet(U, leaves) + SumFunctionOnSet(P, S)
        /\ WeightBy(w, d, a, leaves, known, S) = 2 * SumFunctionOnSet(V, leaves) + SumFunctionOnSet(O, S)
    BY DEF WeightBy
  <1> HIDE DEF O, P, P1, P2, U, V
  <1>10. SumFunctionOnSet(U, leaves) = SumFunctionOnSet(V, leaves) /\ SumFunctionOnSet(V, leaves) \in Int
    <2>1. SumFunctionOnSet(U, leaves) = SumFunctionOnSet(V, leaves)
      BY <1>1, <1>6, SumAgree
    <2>2. SumFunctionOnSet(V, leaves) \in Int
      BY <1>1, <1>6, SumInt
    <2> QED BY <2>1, <2>2
  <1>11. \A p \in S : O[p] \in Int
    BY <1>2, <1>4
  <1>12. \A p \in S : P1[p] \in Int
    BY <1>7, <1>11
  <1>13. \A p \in S : P2[p] \in Int
    BY <1>3, <1>8, <1>12
  <1>14. O[a] = w[d[FatherAt(a)]] /\ P1[a] = 0 /\ P[a] = 0 /\ P2[a] = 0
    <2>1. ~(a >= a + 1) /\ a >= a /\ a # i
      BY <1>0, <1>1
    <2> QED BY <1>1, <1>4, <1>5, <1>7, <1>8, <2>1
  <1>15. /\ O[i] = 0 /\ P1[i] = 0 /\ P2[i] = w[e[n]] /\ P[i] = w[e[n]]
         /\ O[j] = 0 /\ P2[j] = 0 /\ P[j] = w[e[n]]
    <2>1. i # a /\ j # a /\ i >= a + 1 /\ j >= a + 1
      BY <1>0, <1>1
    <2>2. O[i] = 0 /\ O[j] = 0
      BY <1>0, <1>1, <1>4
    <2>3. P[i] = w[e[n]] /\ P[j] = w[e[n]]
      BY <1>0, <1>5, <2>1
    <2> QED BY <1>0, <1>7, <1>8, <2>1, <2>2, <2>3
  <1>16. \A p \in S : p # j => P2[p] = P[p]
    <2> SUFFICES ASSUME NEW p \in S, p # j PROVE P2[p] = P[p]
      OBVIOUS
    <2>1. CASE p = a \/ p = i
      BY <1>14, <1>15, <2>1
    <2>2. CASE p # a /\ p # i
      <3>1. p >= a + 1 <=> p >= a
        BY <1>1, <2>2
      <3>2. FatherAt(p) # n
        BY <1>0, <2>2
      <3>3. P2[p] = O[p]
        BY <1>7, <1>8, <2>2
      <3> QED BY <1>2, <1>4, <1>5, <3>1, <3>2, <3>3
    <2> QED BY <2>1, <2>2
  <1>17. \A p \in S : P[p] \in Int
    BY <1>0, <1>3, <1>13, <1>15, <1>16
  <1>18. SumFunctionOnSet(P1, S) = SumFunctionOnSet(O, S) + (P1[a] - O[a])
    <2>1. \A y \in S : O[y] \in Int /\ P1[y] \in Int /\ (y # a => O[y] = P1[y])
      BY <1>7, <1>11, <1>12
    <2>2. IsFiniteSet(S) /\ a \in S
      BY <1>1, Zenon
    <2> QED BY <2>1, <2>2, SumChange
  <1>19. SumFunctionOnSet(P2, S) = SumFunctionOnSet(P1, S) + (P2[i] - P1[i])
    <2>1. \A y \in S : P1[y] \in Int /\ P2[y] \in Int /\ (y # i => P1[y] = P2[y])
      BY <1>8, <1>12, <1>13
    <2>2. IsFiniteSet(S)
      BY <1>1
    <2> QED BY <1>0, <2>1, <2>2, SumChange
  <1>20. SumFunctionOnSet(P, S) = SumFunctionOnSet(P2, S) + (P[j] - P2[j])
    <2>1. \A y \in S : P2[y] \in Int /\ P[y] \in Int /\ (y # j => P2[y] = P[y])
      BY <1>13, <1>16, <1>17, Zenon
    <2>2. IsFiniteSet(S) /\ j \in S
      BY <1>0, <1>1, Zenon
    <2> QED BY <2>1, <2>2, SumChange
  <1>21. SumFunctionOnSet(O, S) \in Int
    BY <1>1, <1>11, SumInt
  <1> DEFINE before == WeightBy(w, d, a, leaves, known, S)
             after  == WeightBy(w, e, a + 1, leaves, known \cup {n}, S)
             sumO  == SumFunctionOnSet(O, S)
             sumP  == SumFunctionOnSet(P, S)
             sumP1 == SumFunctionOnSet(P1, S)
             sumP2 == SumFunctionOnSet(P2, S)
             sumU  == SumFunctionOnSet(U, leaves)
             sumV  == SumFunctionOnSet(V, leaves)
             own   == w[d[FatherAt(a)]]
             new   == w[e[n]]
  <1>22. sumP1 = sumO + (0 - own) /\ sumP2 = sumP1 + (new - 0) /\ sumP = sumP2 + (new - 0)
    <2>1. sumP1 = sumO + (0 - own)
      BY <1>14, <1>18
    <2>2. sumP2 = sumP1 + (new - 0)
      BY <1>15, <1>19
    <2>3. sumP = sumP2 + (new - 0)
      BY <1>15, <1>20
    <2> QED BY <2>1, <2>2, <2>3, Zenon
  <1>23. /\ new \in Int /\ own \in Int /\ sumO \in Int /\ sumV \in Int
         /\ after = 2 * sumU + sumP /\ before = 2 * sumV + sumO /\ sumU = sumV
    BY <1>3, <1>9, <1>10, <1>21, Zenon
  <1> SUFFICES after = before - own + 2 * new
    OBVIOUS
  <1> HIDE DEF before, after, sumO, sumP, sumP1, sumP2, sumU, sumV, own, new
  <1> QED BY <1>22, <1>23

\* The nodes whose length is known.
LEMMA DoneFacts ==
    ASSUME IInv, pc = "lengths"
    PROVE  /\ IsFiniteSet(Sorted_) /\ Sorted_ \subseteq Int
           /\ DoneNodes \subseteq AllNodes /\ DoneNodes \subseteq Nodes
           /\ DoneLeaves \subseteq DoneNodes /\ DoneLeaves \subseteq Chosen /\ DoneLeaves \subseteq Symbols
           /\ IsFiniteSet(DoneLeaves)
           /\ \A x \in DoneNodes : dl[x] \in 0..Limit
  <1>1. /\ Last_ \in Nat /\ heap_max_ \in Nat /\ Sorted_ = heap_max_..Last_ /\ Sorted_ \subseteq Nodes
        /\ Before_ = heap_max_..h - 1 /\ AllNodes = {heap_[i] : i \in Sorted_}
        /\ h \in heap_max_ + 1..Last_ /\ Nodes = 0..Last_
    BY LengthPlaces
  <1>2. heap_ \in [Nodes -> Nodes] /\ desc \in Descs
    BY DEF IInv, Typed
  <1>3. IsFiniteSet(Sorted_) /\ Sorted_ \subseteq Int
    <2>0. heap_max_ \in Int /\ Last_ \in Int
      BY <1>1
    <2>1. IsFiniteSet(heap_max_..Last_)
      BY <2>0, FS_Interval
    <2> QED BY <1>1, <2>1
  <1>4. Before_ \subseteq Sorted_
    BY <1>1
  <1>5. DoneNodes \subseteq AllNodes
    BY <1>1, <1>4 DEF DoneNodes
  <1>6. AllNodes \subseteq Nodes
    BY <1>1, <1>2
  <1>7. DoneLeaves \subseteq DoneNodes /\ DoneLeaves \subseteq Symbols /\ DoneLeaves \subseteq Chosen
    <2>1. \A x \in AllNodes : x \in Symbols => x \in Chosen
      BY LeafIs
    <2> QED BY <1>5, <2>1 DEF DoneLeaves
  <1>8. IsFiniteSet(DoneLeaves)
    BY <1>7, SymbolsFinite
  <1>9. \A x \in DoneNodes : dl[x] \in 0..Limit
    <2> SUFFICES ASSUME NEW p \in Before_ PROVE dl[heap_[p]] \in 0..Limit
      BY DEF DoneNodes
    <2>1. /\ dl[heap_[heap_max_]] = 0
          /\ \A i \in heap_max_ + 1..h - 1 : dl[heap_[i]] \in 1..Limit
      BY DEF IInv, LengthsInv, LengthsRead
    <2>2. Limit \in Nat
      BY <1>2, DescFacts
    <2>3. p = heap_max_ \/ p \in heap_max_ + 1..h - 1
      BY <1>1
    <2> QED BY <2>1, <2>2, <2>3
  <1> QED BY <1>3, <1>5, <1>6, <1>7, <1>8, <1>9

\* What the length of one more node changes.
LEMMA DoneGrows ==
    ASSUME IInv, pc = "lengths", SetsLength(heap_[h], FatherAt(h))
    PROVE  /\ DoneNodes' = DoneNodes \cup {heap_[h]}
           /\ heap_[h] \in Symbols => DoneLeaves' = DoneLeaves \cup {heap_[h]}
           /\ heap_[h] \notin Symbols => DoneLeaves' = DoneLeaves
           /\ heap_[h] \notin DoneNodes /\ heap_[h] \notin DoneLeaves
           /\ dl'[heap_[h]] = LengthBelow(dl[FatherAt(h)])
           /\ LengthBelow(dl[FatherAt(h)]) \in 1..Limit /\ LengthBelow(dl[FatherAt(h)]) \in 0..max_bits
           /\ \A x \in Nodes : x # heap_[h] => dl'[x] = dl[x]
           /\ \A x \in DoneNodes : dl'[x] = dl[x]
           /\ Sorted_' = Sorted_
  <1> DEFINE n == heap_[h]
             F == FatherAt(h)
  <1>1. /\ NodeRead(n, F) /\ dl' = [dl EXCEPT ![n] = LengthBelow(dl[F])]
        /\ h' = h + 1 /\ desc' = desc /\ heap_' = heap_ /\ heap_max_' = heap_max_
        /\ h + 1 < heap_size => pc' = "lengths"
        /\ ~(h + 1 < heap_size) => pc' = IF overflow' = 0 THEN "codes" ELSE "overflow"
    BY DEF SetsLength
  <1>2. n \in Nodes /\ n \notin DoneNodes /\ dl[F] \in 0..Limit
    BY <1>1 DEF NodeRead
  <1>3. pc' # "combine"
    BY <1>1
  <1>4. heap_max_ \in Nat /\ h \in heap_max_ + 1..Last_ /\ Last_ \in Nat /\ Before_ = heap_max_..h - 1
    BY LengthPlaces
  <1>5. Before_' = Before_ \cup {h}
    <2>1. Before_' = heap_max_'..h' - 1
      BY <1>3 DEF Before_
    <2>2. heap_max_..h + 1 - 1 = (heap_max_..h - 1) \cup {h}
      BY <1>4
    <2>3. heap_max_'..h' - 1 = heap_max_..h + 1 - 1
      BY <1>1, <1>4
    <2> QED BY <1>4, <2>1, <2>2, <2>3
  <1>6. DoneNodes' = DoneNodes \cup {n}
    BY <1>1, <1>5 DEF DoneNodes
  <1>7. /\ n \in Symbols => DoneLeaves' = DoneLeaves \cup {n}
        /\ n \notin Symbols => DoneLeaves' = DoneLeaves
        /\ n \notin DoneLeaves
    BY <1>2, <1>6 DEF DoneLeaves, Symbols
  <1>8. desc \in Descs /\ dl \in [Nodes -> Nat]
    BY DEF IInv, Typed
  <1>9. LengthBelow(dl[F]) \in 1..Limit /\ LengthBelow(dl[F]) \in 0..max_bits
    BY <1>2, <1>8, LengthBelowIs
  <1>10. dl'[n] = LengthBelow(dl[F]) /\ \A x \in Nodes : x # n => dl'[x] = dl[x]
    BY <1>1, <1>2, <1>8
  <1>11. \A x \in DoneNodes : dl'[x] = dl[x]
    <2>1. DoneNodes \subseteq Nodes
      BY DoneFacts
    <2> QED BY <1>2, <1>10, <2>1
  <1>12. Sorted_' = Sorted_
    BY <1>1 DEF Sorted_, Last_, heap_size
  <1> QED BY <1>2, <1>6, <1>7, <1>9, <1>10, <1>11, <1>12

\* What it does to a weight.
LEMMA WeightSteps ==
    ASSUME IInv, pc = "lengths", SetsLength(heap_[h], FatherAt(h)),
           NEW w, \A b \in 0..Limit : w[b] \in Int
    PROVE  /\ WeightBy(w, dl', h + 1, DoneLeaves', DoneNodes', Sorted_')
                  = WeightBy(w, dl, h, DoneLeaves, DoneNodes, Sorted_)
                        - w[dl[FatherAt(h)]] + 2 * w[LengthBelow(dl[FatherAt(h)])]
  <1> DEFINE n == heap_[h]
             F == FatherAt(h)
             B == LengthBelow(dl[F])
             e == dl'
             K == DoneNodes'
             V == DoneLeaves'
  <1>1. /\ K = DoneNodes \cup {n}
        /\ n \in Symbols => V = DoneLeaves \cup {n}
        /\ n \notin Symbols => V = DoneLeaves
        /\ n \notin DoneNodes /\ e[n] = B /\ B \in 1..Limit
        /\ \A x \in DoneNodes : e[x] = dl[x]
        /\ Sorted_' = Sorted_
    BY DoneGrows
  <1>2. /\ F \in DoneNodes /\ F \in elems..node - 1 /\ (n \in Symbols \/ n \in elems..node - 2)
    BY DEF SetsLength, NodeRead
  <1>3. /\ elems \in Nat /\ Leafs \in Nat /\ Leafs >= 2 /\ heap_max_ \in Nat /\ Last_ \in Nat
        /\ h \in heap_max_ + 1..Last_ /\ Sorted_ = heap_max_..Last_ /\ node = elems + Leafs - 1
        /\ \A i, j \in Sorted_ : heap_[i] = heap_[j] => i = j
    BY LengthPlaces
  <1>4. /\ IsFiniteSet(Sorted_) /\ Sorted_ \subseteq Int
        /\ DoneLeaves \subseteq DoneNodes /\ IsFiniteSet(DoneLeaves)
        /\ \A x \in DoneNodes : dl[x] \in 0..Limit
    BY DoneFacts
  <1>5. Limit \in Nat /\ h \in Sorted_ /\ Symbols = 0..elems - 1
    <2>1. desc \in Descs
      BY DEF IInv, Typed
    <2> QED BY <1>3, <2>1, DescFacts, NodesAre
  <1>6. B \in 0..Limit
    BY <1>1, <1>5
  <1> HIDE DEF n, B, e, K, V
  <1>7. Weighing(w, dl, e, h, n, DoneLeaves, DoneNodes, Sorted_, Limit)
    BY <1>1, <1>2, <1>4, <1>5, <1>6 DEF Weighing
  <1>8. CASE n \in Symbols
    <2>1. \A p \in Sorted_ : FatherAt(p) # n
      <3> TAKE p \in Sorted_
      <3> DEFINE k == (Last_ - p) \div 2
      <3>1. k \in Nat
        BY <1>3
      <3>2. FatherAt(p) = elems + k
        BY DEF FatherAt
      <3> HIDE DEF k
      <3> QED BY <1>3, <1>5, <1>8, <3>1, <3>2
    <2>2. WeightBy(w, e, h + 1, DoneLeaves \cup {n}, DoneNodes \cup {n}, Sorted_)
               = WeightBy(w, dl, h, DoneLeaves, DoneNodes, Sorted_) - w[dl[F]] + 2 * w[e[n]]
      BY <1>5, <1>7, <2>1, WeightLeaf
    <2>3. WeightBy(w, e, h + 1, V, K, Sorted_')
               = WeightBy(w, dl, h, DoneLeaves, DoneNodes, Sorted_) - w[dl[F]] + 2 * w[B]
      BY <1>1, <1>8, <2>2
    <2> QED BY <2>3 DEF e, V, K, B
  <1>9. CASE n \notin Symbols
    <2>1. PICK k \in 0..Leafs - 2 : n = elems + k
      <3>1. n - elems \in 0..Leafs - 2 /\ n = elems + (n - elems)
        BY <1>2, <1>3, <1>9
      <3> QED BY <3>1
    <2> DEFINE i == Last_ - 2 * k - 1
               j == Last_ - 2 * k
    <2>2. /\ i \in heap_max_ + 1..Last_ /\ j \in heap_max_ + 1..Last_
          /\ FatherAt(i) = n /\ FatherAt(j) = n
          /\ \A p \in Sorted_ : FatherAt(p) = n => p = i \/ p = j
      BY <2>1, SonsAt
    <2>3. i # j
      BY <1>3, <2>1
    <2> HIDE DEF i, j
    <2>4. \A p \in heap_max_ + 1..Last_ : FatherAt(p) = n => p > h
      <3> TAKE p \in heap_max_ + 1..Last_
      <3> HAVE FatherAt(p) = n
      <3>1. PICK q \in heap_max_..p - 1 : heap_[q] = n
        BY FatherBefore
      <3>2. q \in Sorted_
        BY <1>3
      <3>3. q = h
        BY <1>3, <1>5, <3>1, <3>2 DEF n
      <3> QED BY <1>3, <3>1, <3>3
    <2>5. i \in Sorted_ /\ j \in Sorted_ /\ i > h /\ j > h
      BY <1>3, <2>2, <2>4
    <2>6. WeightBy(w, e, h + 1, DoneLeaves, DoneNodes \cup {n}, Sorted_)
               = WeightBy(w, dl, h, DoneLeaves, DoneNodes, Sorted_) - w[dl[F]] + 2 * w[e[n]]
      <3>1. SonPlaces(i, j, h, n, Sorted_)
        BY <2>2, <2>3, <2>5 DEF SonPlaces
      <3> QED BY <1>5, <1>7, <3>1, WeightFather
    <2>7. WeightBy(w, e, h + 1, V, K, Sorted_')
               = WeightBy(w, dl, h, DoneLeaves, DoneNodes, Sorted_) - w[dl[F]] + 2 * w[B]
      BY <1>1, <1>9, <2>6
    <2> QED BY <2>7 DEF e, V, K, B
  <1> QED BY <1>8, <1>9

\* The two weights.
LEMMA WeightsAre ==
    ASSUME desc \in Descs
    PROVE  /\ \A b \in 0..Limit : /\ Halves[b] = 2^(Limit - b) /\ Halves[b] \in Nat /\ Halves[b] >= 1
                                  /\ Longest_[b] = IF b = Limit THEN 1 ELSE 0
           /\ \A b \in 0..Limit - 1 : Halves[b] = 2 * Halves[b + 1]
           /\ Halves[Limit] = 1 /\ 2^Limit \in Nat
  <1>1. Limit \in Nat
    BY DescFacts
  <1>2. \A b \in 0..Limit : /\ Halves[b] = 2^(Limit - b) /\ Halves[b] \in Nat /\ Halves[b] >= 1
                            /\ Longest_[b] = IF b = Limit THEN 1 ELSE 0
    <2> TAKE b \in 0..Limit
    <2>1. Limit - b \in Nat
      BY <1>1
    <2>2. Halves[b] = 2^(Limit - b) /\ Longest_[b] = IF b = Limit THEN 1 ELSE 0
      BY DEF Halves, Longest_
    <2>3. 2^(Limit - b) \in Nat /\ 2^(Limit - b) >= 1
      BY <2>1, PowerOfTwo
    <2> QED BY <2>2, <2>3
  <1>3. \A b \in 0..Limit - 1 : Halves[b] = 2 * Halves[b + 1]
    <2> TAKE b \in 0..Limit - 1
    <2> DEFINE k == Limit - (b + 1)
    <2>1. k \in Nat /\ Limit - b = k + 1 /\ b \in 0..Limit /\ b + 1 \in 0..Limit
      BY <1>1
    <2>2. 2^(k + 1) = 2 * 2^k
      BY <2>1, PowerOfTwo
    <2>3. Halves[b] = 2^(Limit - b) /\ Halves[b + 1] = 2^k
      BY <1>2, <2>1
    <2> HIDE DEF k
    <2> QED BY <2>1, <2>2, <2>3
  <1>4. Halves[Limit] = 1
    <2>1. Limit \in 0..Limit /\ Limit - Limit = 0
      BY <1>1
    <2>2. Halves[Limit] = 2^0
      BY <1>2, <2>1
    <2> QED BY <2>2
  <1>5. 2^Limit \in Nat
    BY <1>1, PowerOfTwo
  <1> QED BY <1>2, <1>3, <1>4, <1>5

\* What SetLength adds to the counts and the sums.
LEMMA SetLengthAdds ==
    ASSUME IInv, pc = "lengths", SetsLength(heap_[h], FatherAt(h))
    PROVE  LengthsAdded'
  <1> DEFINE n == heap_[h]
             F == FatherAt(h)
             B == LengthBelow(dl[F])
  <1>1. /\ DoneNodes' = DoneNodes \cup {n}
        /\ n \in Symbols => DoneLeaves' = DoneLeaves \cup {n}
        /\ n \notin Symbols => DoneLeaves' = DoneLeaves
        /\ n \notin DoneLeaves
        /\ dl'[n] = B /\ B \in 1..Limit /\ B \in 0..max_bits
        /\ \A x \in DoneNodes : dl'[x] = dl[x]
        /\ Sorted_' = Sorted_
    BY DoneGrows
  <1>2. /\ NodeRead(n, F)
        /\ overflow' = overflow + (IF dl[F] < Limit THEN 0 ELSE 1)
        /\ h' = h + 1
        /\ n \notin Symbols => UNCHANGED <<bl_count_, opt_len_, static_len_>>
        /\ n \in Symbols =>
              /\ n \in Chosen
              /\ bl_count_' = [bl_count_ EXCEPT ![B] = @ + 1]
              /\ opt_len_' = opt_len_ + fc[n] * (B + desc.extra[n])
              /\ desc.stree # <<>> =>
                    static_len_' = static_len_ + fc[n] * (Static(n) + desc.extra[n])
              /\ desc.stree = <<>> => static_len_' = static_len_
        /\ desc' = desc
    BY DEF SetsLength
  <1>3. dl[F] \in 0..Limit
    BY <1>2 DEF NodeRead
  <1>4. /\ \A b \in 0..max_bits : bl_count_[b] = Cardinality({x \in DoneLeaves : dl[x] = b})
        /\ overflow \in Nat
        /\ WeightSum(Halves) = 2 * 2^Limit + overflow
        /\ WeightSum(Longest_) >= overflow
        /\ opt_len_ = SumFunctionOnSet(SymbolBits, DoneLeaves) - Len(ForcedSymbols)
        /\ desc.stree # <<>> => static_len_ = SumFunctionOnSet(StaticBits, DoneLeaves) - ForcedBits
    BY DEF IInv, CountsInv, LengthsAdded
  <1>5. desc \in Descs /\ fc \in [Nodes -> Nat] /\ dl \in [Nodes -> Nat] /\ bl_count_ \in [0..max_bits -> Nat]
    BY DEF IInv, Typed
  <1>6. /\ IsFiniteSet(Sorted_) /\ DoneLeaves \subseteq DoneNodes /\ DoneLeaves \subseteq Chosen
        /\ DoneNodes \subseteq Nodes /\ IsFiniteSet(DoneLeaves)
        /\ \A x \in DoneNodes : dl[x] \in 0..Limit
    BY DoneFacts
  <1>7. /\ Chosen' = Chosen /\ ForcedSymbols' = ForcedSymbols /\ Limit' = Limit
        /\ Halves' = Halves /\ Longest_' = Longest_ /\ StaticBits' = StaticBits /\ ForcedBits' = ForcedBits
        /\ \A x : Freq(x)' = Freq(x)
    BY <1>2, SameDesc
  <1>8. Limit \in Nat
    BY <1>5, DescFacts
  <1>9. Chosen \subseteq Symbols /\ \A x \in Chosen : Freq(x) \in Nat /\ fc[x] = Freq(x)
    BY <1>5, ChosenFacts DEF IInv, ChosenInv
  <1> HIDE DEF n, F, B
  <1>10. \A x \in DoneLeaves : dl'[x] = dl[x] /\ x # n
    BY <1>1, <1>6
  <1>11. \A b \in 0..max_bits : bl_count_'[b] = Cardinality({x \in DoneLeaves' : dl'[x] = b})
    <2> TAKE b \in 0..max_bits
    <2>1. {x \in DoneLeaves : dl'[x] = b} = {x \in DoneLeaves : dl[x] = b}
      BY <1>10
    <2> DEFINE s == {x \in DoneLeaves : dl[x] = b}
    <2>2. IsFiniteSet(s) /\ n \notin s
      BY <1>1, <1>6, SubsetsFinite
    <2>3. CASE n \notin Symbols
      BY <1>1, <1>2, <1>4, <2>1, <2>3
    <2>4. CASE n \in Symbols /\ b # B
      <3>1. {x \in DoneLeaves' : dl'[x] = b} = s
        BY <1>1, <2>1, <2>4
      <3> HIDE DEF s
      <3>2. bl_count_'[b] = bl_count_[b]
        BY <1>2, <1>5, <2>4
      <3> QED BY <1>4, <3>1, <3>2 DEF s
    <2>5. CASE n \in Symbols /\ b = B
      <3>1. {x \in DoneLeaves' : dl'[x] = b} = s \cup {n}
        BY <1>1, <2>1, <2>5
      <3>2. bl_count_[b] = Cardinality(s)
        BY <1>4
      <3> HIDE DEF s
      <3>3. bl_count_'[b] = bl_count_[b] + 1
        BY <1>2, <1>5, <2>5
      <3>4. Cardinality(s \cup {n}) = Cardinality(s) + 1
        BY <2>2, FS_AddElement
      <3> QED BY <3>1, <3>2, <3>3, <3>4
    <2> QED BY <2>3, <2>4, <2>5
  <1>12. overflow' \in Nat
    BY <1>2, <1>4
  <1>13. /\ WeightSum(Halves) = WeightBy(Halves, dl, h, DoneLeaves, DoneNodes, Sorted_)
         /\ WeightSum(Longest_) = WeightBy(Longest_, dl, h, DoneLeaves, DoneNodes, Sorted_)
    BY DEF WeightSum, WeightBy, LeafWeights, OpenWeights, OpenBy
  <1>14. /\ WeightSum(Halves)' = WeightBy(Halves, dl', h + 1, DoneLeaves', DoneNodes', Sorted_')
         /\ WeightSum(Longest_)' = WeightBy(Longest_, dl', h + 1, DoneLeaves', DoneNodes', Sorted_')
    <2>1. /\ WeightSum(Halves)' = WeightBy(Halves', dl', h', DoneLeaves', DoneNodes', Sorted_')
          /\ WeightSum(Longest_)' = WeightBy(Longest_', dl', h', DoneLeaves', DoneNodes', Sorted_')
      BY DEF WeightSum, WeightBy, LeafWeights, OpenWeights, OpenBy, FatherAt, Last_, heap_size
    <2> QED BY <1>2, <1>7, <2>1
  <1>15. /\ \A b \in 0..Limit : /\ Halves[b] \in Nat /\ Halves[b] >= 1
                                /\ Longest_[b] = IF b = Limit THEN 1 ELSE 0
         /\ \A b \in 0..Limit - 1 : Halves[b] = 2 * Halves[b + 1]
         /\ Halves[Limit] = 1 /\ 2^Limit \in Nat
    BY <1>5, WeightsAre
  <1>16. /\ \A b \in 0..Limit : Halves[b] \in Int
         /\ \A b \in 0..Limit : Longest_[b] \in Int /\ Longest_[b] >= 0
    BY <1>15
  <1>17. WeightSum(Halves)' = WeightSum(Halves) - Halves[dl[F]] + 2 * Halves[B]
    <2>1. WeightBy(Halves, dl', h + 1, DoneLeaves', DoneNodes', Sorted_')
                  = WeightBy(Halves, dl, h, DoneLeaves, DoneNodes, Sorted_)
                        - Halves[dl[FatherAt(h)]] + 2 * Halves[LengthBelow(dl[FatherAt(h)])]
      BY <1>16, WeightSteps
    <2> QED BY <1>13, <1>14, <2>1 DEF F, B
  <1>18. WeightSum(Longest_)' = WeightSum(Longest_) - Longest_[dl[F]] + 2 * Longest_[B]
    <2>1. WeightBy(Longest_, dl', h + 1, DoneLeaves', DoneNodes', Sorted_')
                  = WeightBy(Longest_, dl, h, DoneLeaves, DoneNodes, Sorted_)
                        - Longest_[dl[FatherAt(h)]] + 2 * Longest_[LengthBelow(dl[FatherAt(h)])]
      BY <1>16, WeightSteps
    <2> QED BY <1>13, <1>14, <2>1 DEF F, B
  <1>19. WeightSum(Longest_) \in Int
    <2> DEFINE V == [x \in DoneLeaves |-> Longest_[dl[x]]]
               O == OpenWeights(Longest_)
    <2>1. \A x \in DoneLeaves : V[x] \in Int
      BY <1>6, <1>16
    <2>2. \A p \in Sorted_ : O[p] \in Int
      <3> TAKE p \in Sorted_
      <3>1. O[p] = IF p >= h /\ FatherAt(p) \in DoneNodes THEN Longest_[dl[FatherAt(p)]] ELSE 0
        BY DEF OpenWeights
      <3> HIDE DEF O
      <3> QED BY <1>6, <1>16, <3>1
    <2>3. WeightSum(Longest_) = 2 * SumFunctionOnSet(V, DoneLeaves) + SumFunctionOnSet(O, Sorted_)
      BY DEF WeightSum, LeafWeights
    <2> HIDE DEF V, O
    <2>4. SumFunctionOnSet(V, DoneLeaves) \in Int /\ SumFunctionOnSet(O, Sorted_) \in Int
      BY <1>6, <2>1, <2>2, SumInt
    <2> QED BY <2>3, <2>4
  <1>20. WeightSum(Halves)' = 2 * 2^Limit' + overflow' /\ WeightSum(Longest_)' >= overflow'
    <2>1. 2^Limit' = 2^Limit
      BY <1>7
    <2>0. /\ overflow \in Nat /\ WeightSum(Halves) = 2 * 2^Limit + overflow
          /\ WeightSum(Longest_) >= overflow /\ 2^Limit \in Nat /\ Halves[Limit] = 1
      BY <1>4, <1>15, Zenon
    <2>2. CASE dl[F] < Limit
      <3>1. B = dl[F] + 1 /\ dl[F] \in 0..Limit - 1 /\ B \in 0..Limit /\ dl[F] # Limit
        BY <1>3, <1>8, <2>2 DEF B, LengthBelow
      <3>2. Halves[dl[F]] = 2 * Halves[B] /\ Halves[B] \in Nat
        BY <1>15, <3>1
      <3>3. Longest_[dl[F]] = 0 /\ Longest_[B] \in Int /\ Longest_[B] >= 0
        BY <1>3, <1>15, <1>16, <3>1
      <3>4. overflow' = overflow
        BY <1>2, <1>4, <2>2
      <3> QED BY <1>17, <1>18, <1>19, <2>0, <2>1, <3>2, <3>3, <3>4
    <2>3. CASE ~(dl[F] < Limit)
      <3>1. B = Limit /\ dl[F] = Limit
        BY <1>3, <1>8, <2>3 DEF B, LengthBelow
      <3>2. Longest_[Limit] = 1
        BY <1>8, <1>15
      <3>3. overflow' = overflow + 1
        BY <1>2, <1>4, <2>3
      <3> QED BY <1>17, <1>18, <1>19, <2>0, <2>1, <3>1, <3>2, <3>3
    <2> QED BY <2>2, <2>3
  <1>21. opt_len_' = SumFunctionOnSet(SymbolBits', DoneLeaves') - Len(ForcedSymbols')
    <2>1. \A x \in Chosen : SymbolBits'[x] = Freq(x) * (dl'[x] + desc.extra[x])
      BY <1>2, <1>7 DEF SymbolBits
    <2>2. \A x \in Chosen : SymbolBits[x] = Freq(x) * (dl[x] + desc.extra[x])
      BY DEF SymbolBits
    <2>3. \A x \in DoneLeaves : SymbolBits'[x] = SymbolBits[x] /\ SymbolBits'[x] \in Int
      <3> TAKE x \in DoneLeaves
      <3>1. SymbolBits'[x] = SymbolBits[x]
        BY <1>6, <1>10, <2>1, <2>2
      <3>2. Freq(x) \in Nat /\ dl[x] \in Nat /\ desc.extra[x] \in Nat
        BY <1>5, <1>6, <1>9, DescFacts
      <3>3. Freq(x) * (dl[x] + desc.extra[x]) \in Int
        BY <3>2
      <3> QED BY <1>6, <2>2, <3>1, <3>3
    <2>4. SumFunctionOnSet(SymbolBits', DoneLeaves) = SumFunctionOnSet(SymbolBits, DoneLeaves)
          /\ SumFunctionOnSet(SymbolBits, DoneLeaves) \in Int
      <3>1. SumFunctionOnSet(SymbolBits', DoneLeaves) = SumFunctionOnSet(SymbolBits, DoneLeaves)
        BY <1>6, <2>3, SumAgree
      <3>2. SumFunctionOnSet(SymbolBits', DoneLeaves) \in Int
        BY <1>6, <2>3, SumInt
      <3> QED BY <3>1, <3>2
    <2>5. Len(ForcedSymbols) \in Int
      BY <1>5, ForcedFacts
    <2>6. CASE n \notin Symbols
      BY <1>1, <1>2, <1>4, <1>7, <2>4, <2>6
    <2>7. CASE n \in Symbols
      <3>1. SymbolBits'[n] = fc[n] * (B + desc.extra[n])
        BY <1>1, <1>2, <1>9, <2>1, <2>7
      <3>2. SymbolBits'[n] \in Int
        <4>1. n \in Chosen /\ n \in Symbols
          BY <1>1, <1>2, <2>7
        <4>2. fc[n] \in Nat
          BY <1>9, <4>1
        <4>3. desc.extra[n] \in Nat
          BY <1>5, <4>1, DescFacts
        <4>4. B \in Nat
          BY <1>1, <1>8
        <4>5. fc[n] * (B + desc.extra[n]) \in Int
          BY <4>2, <4>3, <4>4
        <4> QED BY <3>1, <4>5
      <3>3. \A x \in DoneLeaves \cup {n} : SymbolBits'[x] \in Int
        BY <2>3, <3>2
      <3>4. SumFunctionOnSet(SymbolBits', DoneLeaves \cup {n})
                = SumFunctionOnSet(SymbolBits', DoneLeaves) + SymbolBits'[n]
        BY <1>1, <1>6, <3>3, SumPut
      <3>5. opt_len_' = opt_len_ + SymbolBits'[n]
        BY <1>2, <2>7, <3>1
      <3>6. DoneLeaves' = DoneLeaves \cup {n} /\ ForcedSymbols' = ForcedSymbols
        BY <1>1, <1>7, <2>7
      <3> QED BY <1>4, <2>4, <2>5, <3>2, <3>4, <3>5, <3>6
    <2> QED BY <2>6, <2>7
  <1>22. desc'.stree # <<>> => static_len_' = SumFunctionOnSet(StaticBits', DoneLeaves') - ForcedBits'
    <2> SUFFICES ASSUME desc.stree # <<>>
                 PROVE  static_len_' = SumFunctionOnSet(StaticBits, DoneLeaves') - ForcedBits
      BY <1>2, <1>7
    <2>1. \A x \in Chosen : StaticBits[x] = Freq(x) * (Static(x) + desc.extra[x])
      BY DEF StaticBits
    <2>2. \A x \in Chosen : StaticBits[x] \in Int
      <3> TAKE x \in Chosen
      <3>1. Freq(x) \in Nat /\ Static(x) \in Nat /\ desc.extra[x] \in Nat
        BY <1>5, <1>9, DescFacts
      <3>2. Freq(x) * (Static(x) + desc.extra[x]) \in Int
        BY <3>1
      <3> QED BY <2>1, <3>2
    <2>3. SumFunctionOnSet(StaticBits, DoneLeaves) \in Int
      BY <1>6, <2>2, SumInt
    <2>4. ForcedBits \in Int
      BY <1>5, ForcedBitsInt
    <2>5. CASE n \notin Symbols
      BY <1>1, <1>2, <1>4, <2>5
    <2>6. CASE n \in Symbols
      <3>1. StaticBits[n] = fc[n] * (Static(n) + desc.extra[n]) /\ StaticBits[n] \in Int
        BY <1>2, <1>9, <2>1, <2>2, <2>6
      <3>2. \A x \in DoneLeaves \cup {n} : StaticBits[x] \in Int
        BY <1>6, <2>2, <3>1
      <3>3. SumFunctionOnSet(StaticBits, DoneLeaves \cup {n})
                = SumFunctionOnSet(StaticBits, DoneLeaves) + StaticBits[n]
        BY <1>1, <1>6, <3>2, SumPut
      <3>4. static_len_' = static_len_ + StaticBits[n]
        BY <1>2, <2>6, <3>1
      <3>5. DoneLeaves' = DoneLeaves \cup {n}
        BY <1>1, <2>6
      <3> QED BY <1>4, <2>3, <2>4, <3>1, <3>3, <3>4, <3>5
    <2> QED BY <2>5, <2>6
  <1> QED BY <1>11, <1>12, <1>20, <1>21, <1>22 DEF LengthsAdded

\* As many ones as there are elements.
LEMMA SumOnes ==
    ASSUME NEW f, NEW S, IsFiniteSet(S), \A x \in S : f[x] = 1
    PROVE  SumFunctionOnSet(f, S) = Cardinality(S)
  <1> DEFINE C == {s \in SUBSET S : SumFunctionOnSet(f, s) = Cardinality(s)}
  <1>1. {} \in C
    BY SumEmpty, FS_EmptySet
  <1>2. \A s \in SUBSET S, x \in S : s \in C /\ x \notin s => s \cup {x} \in C
    <2> SUFFICES ASSUME NEW s \in SUBSET S, NEW x \in S, s \in C, x \notin s
                 PROVE  s \cup {x} \in C
      OBVIOUS
    <2>1. IsFiniteSet(s)
      BY SubsetsFinite
    <2>2. SumFunctionOnSet(f, s \cup {x}) = SumFunctionOnSet(f, s) + f[x]
      <3>1. \A y \in s \cup {x} : f[y] \in Int
        OBVIOUS
      <3> QED BY <2>1, <3>1, SumPut
    <2>3. Cardinality(s \cup {x}) = Cardinality(s) + 1
      BY <2>1, FS_AddElement
    <2> QED BY <2>2, <2>3
  <1>3. S \in C
    <2> HIDE DEF C
    <2> QED BY <1>1, <1>2, FiniteInduction
  <1> QED BY <1>3

\* The numbers c of symbols by their length d.
CountOf(c, d) ==
    /\ \A n \in Chosen : d[n] \in 1..Limit
    /\ \A b \in 0..max_bits : c[b] = Cardinality({n \in Chosen : d[n] = b})

\* Sums over the symbols are sums over the lengths.
LEMMA Counted ==
    ASSUME desc \in Descs, NEW c, NEW d, CountOf(c, d)
    PROVE  /\ SumFunctionOnSet(c, 1..Limit) = Leafs
           /\ \A b \in 0..max_bits : b \notin 1..Limit => c[b] = 0
           /\ SumFunctionOnSet([n \in Chosen |-> Halves[d[n]]], Chosen)
                  = SumFunctionOnSet([b \in 1..Limit |-> c[b] * Halves[b]], 1..Limit)
           /\ SumFunctionOnSet([n \in Chosen |-> Halves[d[n]]], Chosen) \in Int
           /\ SumFunctionOnSet([n \in Chosen |-> Longest_[d[n]]], Chosen) = c[Limit]
           /\ c[Limit] \in Nat
  <1> DEFINE one == [b \in 1..Limit |-> 1]
             B == 1..Limit
  <1>1. Limit \in Nat /\ Limit >= 1 /\ Limit <= max_bits /\ max_bits \in Nat
    BY DescFacts
  <1>2. IsFiniteSet(Chosen) /\ Leafs = Cardinality(Chosen)
    BY ChosenFacts DEF Leafs
  <1>3. IsFiniteSet(B)
    BY <1>1, FS_Interval
  <1>4. \A n \in Chosen : d[n] \in B
    BY DEF CountOf
  <1>5. \A b \in B : HowMany(d, Chosen, b) = c[b] /\ c[b] \in Nat
    <2> TAKE b \in B
    <2>1. b \in 0..max_bits
      BY <1>1
    <2>2. c[b] = Cardinality({n \in Chosen : d[n] = b})
      BY <2>1 DEF CountOf
    <2>3. IsFiniteSet({n \in Chosen : d[n] = b})
      <3>1. {n \in Chosen : d[n] = b} \in SUBSET Chosen
        OBVIOUS
      <3> QED BY <1>2, <3>1, SubsetsFinite
    <2>4. Cardinality({n \in Chosen : d[n] = b}) \in Nat
      BY <2>3, FS_CardinalityType
    <2> QED BY <2>2, <2>4 DEF HowMany
  <1>6. \A b \in B : /\ Halves[b] \in Int
                     /\ Longest_[b] = IF b = Limit THEN 1 ELSE 0
    <2> TAKE b \in B
    <2>1. b \in 0..Limit
      BY <1>1
    <2> QED BY <2>1, WeightsAre
  <1> HIDE DEF B
  <1>7. SumFunctionOnSet(c, B) = Leafs
    <2>1. SumFunctionOnSet([n \in Chosen |-> one[d[n]]], Chosen)
              = SumFunctionOnSet([b \in B |-> HowMany(d, Chosen, b) * one[b]], B)
      <3>1. \A b \in B : one[b] \in Int
        BY DEF B
      <3> HIDE DEF one
      <3> QED BY <1>2, <1>3, <1>4, <3>1, Grouped
    <2>2. SumFunctionOnSet([n \in Chosen |-> one[d[n]]], Chosen) = Cardinality(Chosen)
      <3>1. \A n \in Chosen : [x \in Chosen |-> one[d[x]]][n] = 1
        BY <1>4 DEF B
      <3> QED BY <1>2, <3>1, SumOnes
    <2>3. SumFunctionOnSet([b \in B |-> HowMany(d, Chosen, b) * one[b]], B) = SumFunctionOnSet(c, B)
      <3>1. \A b \in B : [x \in B |-> HowMany(d, Chosen, x) * one[x]][b] = c[b]
        <4> TAKE b \in B
        <4>1. [x \in B |-> HowMany(d, Chosen, x) * one[x]][b] = HowMany(d, Chosen, b) * one[b]
          OBVIOUS
        <4>2. one[b] = 1
          BY DEF B
        <4> HIDE DEF one
        <4>3. HowMany(d, Chosen, b) * one[b] = HowMany(d, Chosen, b) * 1
          BY <4>2
        <4>4. HowMany(d, Chosen, b) * 1 = c[b]
          BY <1>5
        <4> QED BY <4>1, <4>3, <4>4, Zenon
      <3> DEFINE f == [x \in B |-> HowMany(d, Chosen, x) * one[x]]
      <3>2. \A b \in B : f[b] = c[b]
        BY <3>1, Zenon
      <3>3. SumFunctionOnSet(f, B) = SumFunctionOnSet(c, B)
        <4> HIDE DEF f
        <4> QED BY <1>3, <3>2, SumAgree, Zenon
      <3> QED BY <3>3, Zenon
    <2> QED BY <1>2, <2>1, <2>2, <2>3
  <1>8. \A b \in 0..max_bits : b \notin B => c[b] = 0
    <2> SUFFICES ASSUME NEW b \in 0..max_bits, b \notin B PROVE c[b] = 0
      OBVIOUS
    <2>1. {n \in Chosen : d[n] = b} = {}
      BY <1>4
    <2>2. c[b] = Cardinality({n \in Chosen : d[n] = b})
      BY DEF CountOf
    <2> QED BY <2>1, <2>2, FS_EmptySet
  <1>9. /\ SumFunctionOnSet([n \in Chosen |-> Halves[d[n]]], Chosen)
               = SumFunctionOnSet([b \in B |-> HowMany(d, Chosen, b) * Halves[b]], B)
        /\ SumFunctionOnSet([n \in Chosen |-> Longest_[d[n]]], Chosen)
               = SumFunctionOnSet([b \in B |-> HowMany(d, Chosen, b) * Longest_[b]], B)
    <2>1. \A b \in B : Halves[b] \in Int /\ Longest_[b] \in Int
      BY <1>6
    <2> QED BY <1>2, <1>3, <1>4, <2>1, Grouped
  <1>10. SumFunctionOnSet([b \in B |-> HowMany(d, Chosen, b) * Halves[b]], B)
             = SumFunctionOnSet([b \in B |-> c[b] * Halves[b]], B)
    <2>1. \A b \in B : [x \in B |-> HowMany(d, Chosen, x) * Halves[x]][b]
                           = [x \in B |-> c[x] * Halves[x]][b]
      BY <1>5
    <2> QED BY <1>3, <2>1, SumAgree
  <1>11. SumFunctionOnSet([n \in Chosen |-> Halves[d[n]]], Chosen) \in Int
    <2>1. \A n \in Chosen : [x \in Chosen |-> Halves[d[x]]][n] \in Int
      BY <1>4, <1>6
    <2> QED BY <1>2, <2>1, SumInt
  <1>12. SumFunctionOnSet([b \in B |-> HowMany(d, Chosen, b) * Longest_[b]], B) = c[Limit]
    <2> DEFINE f == [b \in B |-> HowMany(d, Chosen, b) * Longest_[b]]
               z == [b \in B |-> 0]
    <2>1. Limit \in B
      BY <1>1 DEF B
    <2>2. \A b \in B : f[b] = IF b = Limit THEN c[Limit] ELSE 0
      <3> TAKE b \in B
      <3>1. f[b] = c[b] * Longest_[b] /\ c[b] \in Nat
        BY <1>5
      <3>2. CASE b = Limit
        <4>1. Longest_[b] = 1
          BY <1>6, <3>2
        <4> QED BY <3>1, <3>2, <4>1
      <3>3. CASE b # Limit
        <4>1. Longest_[b] = 0
          BY <1>6, <3>3
        <4> QED BY <3>1, <3>3, <4>1
      <3> QED BY <3>2, <3>3
    <2>3. c[Limit] \in Int /\ \A b \in B : z[b] = 0
      BY <1>5, <2>1
    <2> HIDE DEF f, z
    <2>4. SumFunctionOnSet(f, B) = SumFunctionOnSet(z, B) + (f[Limit] - z[Limit])
      <3>1. \A y \in B : z[y] \in Int /\ f[y] \in Int /\ (y # Limit => z[y] = f[y])
        BY <2>2, <2>3
      <3> QED BY <1>3, <2>1, <3>1, SumChange
    <2>5. SumFunctionOnSet(z, B) = 0
      BY <1>3, <2>3, SumZeros
    <2>6. f[Limit] = c[Limit] /\ z[Limit] = 0
      BY <2>1, <2>2, <2>3
    <2>7. SumFunctionOnSet(f, B) = c[Limit]
      BY <2>3, <2>4, <2>5, <2>6
    <2> QED BY <2>7 DEF f
  <1>13. c[Limit] \in Nat
    BY <1>1, <1>5 DEF B
  <1> QED BY <1>7, <1>8, <1>9, <1>10, <1>11, <1>12, <1>13 DEF B

\* After the last node every symbol has its length.
LEMMA LastRead ==
    ASSUME IInv, pc = "lengths", SetsLength(heap_[h], FatherAt(h)), ~(h + 1 < heap_size)
    PROVE  /\ DoneLeaves' = Chosen
           /\ \A n \in Chosen : dl'[n] \in 1..Limit
           /\ \A m, n \in Chosen : Freq(m) > Freq(n) => dl'[m] <= dl'[n]
           /\ WeightSum(Halves)' = 2 * SumFunctionOnSet([n \in Chosen |-> Halves[dl'[n]]], Chosen)
           /\ WeightSum(Longest_)' = 2 * SumFunctionOnSet([n \in Chosen |-> Longest_[dl'[n]]], Chosen)
  <1>1. /\ Last_ \in Nat /\ elems \in Nat /\ Leafs \in Nat /\ Leafs >= 2 /\ heap_size = Last_ + 1
        /\ node = elems + Leafs - 1 /\ heap_max_ \in Nat /\ heap_[heap_max_] = node - 1
        /\ h \in heap_max_ + 1..Last_ /\ Sorted_ = heap_max_..Last_ /\ Sorted_ \subseteq Nodes
        /\ AllNodes = {heap_[i] : i \in Sorted_}
    BY LengthPlaces
  <1>2. /\ desc' = desc /\ h' = h + 1 /\ pc' # "combine" /\ pc' # "done" /\ pc' # "heap"
        /\ heap_' = heap_ /\ heap_max_' = heap_max_ /\ node' = node /\ fc' = fc
    BY DEF SetsLength
  <1>3. h = Last_ /\ h' = Last_ + 1
    BY <1>1, <1>2
  <1>4. desc \in Descs
    BY DEF IInv, Typed
  <1>5. /\ Chosen' = Chosen /\ Limit' = Limit /\ Halves' = Halves /\ Longest_' = Longest_
        /\ \A n : Freq(n)' = Freq(n)
    BY <1>2, SameDesc
  <1>6. Last_' = Last_ /\ Sorted_' = Sorted_ /\ Symbols' = Symbols
    BY <1>2 DEF Sorted_, Last_, heap_size, Symbols
  <1>7. Before_' = Sorted_
    <2>1. Before_' = heap_max_..h' - 1
      BY <1>2 DEF Before_
    <2>2. h' - 1 = Last_
      BY <1>1, <1>3
    <2> QED BY <1>1, <2>1, <2>2
  <1>8. DoneNodes' = AllNodes
    BY <1>1, <1>2, <1>7 DEF DoneNodes
  <1>9. DoneLeaves' = Chosen
    <2>1. DoneLeaves' = AllNodes \cap Symbols
      BY <1>6, <1>8 DEF DoneLeaves
    <2>2. Chosen \subseteq AllNodes /\ Chosen \subseteq Symbols
      BY <1>4, ChosenFacts DEF AllNodes
    <2>3. \A n \in AllNodes : n \in Symbols => n \in Chosen
      BY LeafIs
    <2> QED BY <2>1, <2>2, <2>3
  <1>10. /\ \A p \in heap_max_ + 1..Last_ : dl'[heap_[p]] \in 1..Limit
         /\ \A p, q \in Sorted_ : fc[heap_[p]] > fc[heap_[q]] => dl'[heap_[p]] <= dl'[heap_[q]]
    <2>1. LengthsRead'
      BY SetLengthReads
    <2>2. \A p \in heap_max_' + 1..h' - 1 : dl'[heap_'[p]] \in 1..Limit'
      BY <2>1 DEF LengthsRead
    <2>3. \A p, q \in Before_' : fc'[heap_'[p]] > fc'[heap_'[q]] => dl'[heap_'[p]] <= dl'[heap_'[q]]
      BY <2>1 DEF LengthsRead
    <2>4. h' - 1 = Last_
      BY <1>1, <1>3
    <2> QED BY <1>2, <1>5, <1>7, <2>2, <2>3, <2>4
  <1>11. \A n \in Chosen : \E p \in heap_max_ + 1..Last_ : heap_[p] = n
    <2> TAKE n \in Chosen
    <2>1. n \in AllNodes /\ n \in 0..elems - 1
      BY <1>4, ChosenFacts DEF AllNodes, Symbols
    <2>2. PICK p \in Sorted_ : heap_[p] = n
      BY <1>1, <2>1
    <2>3. p # heap_max_
      BY <1>1, <2>1, <2>2
    <2> QED BY <1>1, <2>2, <2>3
  <1>12. \A n \in Chosen : dl'[n] \in 1..Limit
    BY <1>10, <1>11
  <1>13. \A m, n \in Chosen : Freq(m) > Freq(n) => dl'[m] <= dl'[n]
    <2> SUFFICES ASSUME NEW m \in Chosen, NEW n \in Chosen, Freq(m) > Freq(n)
                 PROVE  dl'[m] <= dl'[n]
      OBVIOUS
    <2>1. fc[m] = Freq(m) /\ fc[n] = Freq(n)
      BY DEF IInv, ChosenInv
    <2>2. PICK p \in heap_max_ + 1..Last_ : heap_[p] = m
      BY <1>11
    <2>3. PICK q \in heap_max_ + 1..Last_ : heap_[q] = n
      BY <1>11
    <2>4. p \in Sorted_ /\ q \in Sorted_
      BY <1>1
    <2>5. fc[heap_[p]] > fc[heap_[q]]
      BY <2>1, <2>2, <2>3
    <2> QED BY <1>10, <2>2, <2>3, <2>4, <2>5
  <1>14. \A p \in Sorted_ : ~(p >= h')
    BY <1>1, <1>3
  <1>15. IsFiniteSet(Sorted_)
    BY DoneFacts
  <1>16. /\ SumFunctionOnSet(OpenBy(Halves, dl', h', DoneNodes', Sorted_), Sorted_) = 0
         /\ SumFunctionOnSet(OpenBy(Longest_, dl', h', DoneNodes', Sorted_), Sorted_) = 0
    <2>1. /\ \A p \in Sorted_ : OpenBy(Halves, dl', h', DoneNodes', Sorted_)[p] = 0
          /\ \A p \in Sorted_ : OpenBy(Longest_, dl', h', DoneNodes', Sorted_)[p] = 0
      BY <1>14 DEF OpenBy
    <2> QED BY <1>15, <2>1, SumZeros
  <1>17. /\ WeightSum(Halves)' = WeightBy(Halves', dl', h', DoneLeaves', DoneNodes', Sorted_')
         /\ WeightSum(Longest_)' = WeightBy(Longest_', dl', h', DoneLeaves', DoneNodes', Sorted_')
    BY DEF WeightSum, WeightBy, LeafWeights, OpenWeights, OpenBy, FatherAt, Last_, heap_size
  <1>18. CountOf([b \in 0..max_bits |-> Cardinality({n \in Chosen : dl'[n] = b})], dl')
    BY <1>12 DEF CountOf
  <1>19. /\ SumFunctionOnSet([n \in Chosen |-> Halves[dl'[n]]], Chosen) \in Int
         /\ SumFunctionOnSet([n \in Chosen |-> Longest_[dl'[n]]], Chosen) \in Int
    <2> DEFINE c == [b \in 0..max_bits |-> Cardinality({n \in Chosen : dl'[n] = b})]
    <2>1. CountOf(c, dl')
      BY <1>18
    <2> HIDE DEF c
    <2>2. /\ SumFunctionOnSet([n \in Chosen |-> Halves[dl'[n]]], Chosen) \in Int
          /\ SumFunctionOnSet([n \in Chosen |-> Longest_[dl'[n]]], Chosen) = c[Limit]
          /\ c[Limit] \in Nat
      BY <1>4, <2>1, Counted
    <2> QED BY <2>2
  <1>20. WeightSum(Halves)' = 2 * SumFunctionOnSet([n \in Chosen |-> Halves[dl'[n]]], Chosen) + 0
    BY <1>5, <1>6, <1>9, <1>16, <1>17 DEF WeightBy
  <1>21. WeightSum(Longest_)' = 2 * SumFunctionOnSet([n \in Chosen |-> Longest_[dl'[n]]], Chosen) + 0
    BY <1>5, <1>6, <1>9, <1>16, <1>17 DEF WeightBy
  <1>22. /\ WeightSum(Halves)' = 2 * SumFunctionOnSet([n \in Chosen |-> Halves[dl'[n]]], Chosen)
         /\ WeightSum(Longest_)' = 2 * SumFunctionOnSet([n \in Chosen |-> Longest_[dl'[n]]], Chosen)
    BY <1>19, <1>20, <1>21
  <1> QED BY <1>9, <1>12, <1>13, <1>22

\* SetLength keeps the invariant.
LEMMA SetLengthKeeps ==
    ASSUME IInv, SetLength
    PROVE  IInv'
  <1>1. pc = "lengths"
    BY DEF SetLength
  <1>2. SetsLength(heap_[h], FatherAt(h))
    BY SetLengthDoes
  <1>3. /\ Typed' /\ ChosenInv' /\ PlacesInv' /\ NodesInv' /\ OrderInv' /\ FathersInv'
        /\ \A p \in After_' : dl'[heap_'[p]] = FatherAt(p)
        /\ h + 1 < heap_size => h' \in heap_max_' + 1..Last_
        /\ ~(h + 1 < heap_size) => h' = heap_size
        /\ LengthsRead'
    BY <1>1, <1>2, SetLengthReads
  <1>4. LengthsAdded'
    BY <1>1, <1>2, SetLengthAdds
  <1>5. /\ h + 1 < heap_size => pc' = "lengths"
        /\ ~(h + 1 < heap_size) => pc' = IF overflow' = 0 THEN "codes" ELSE "overflow"
        /\ desc' = desc
    BY <1>2 DEF SetsLength
  <1>6. FatherAt(0)' = FatherAt(0) /\ Last_' = Last_ /\ heap_size' = heap_size
        /\ \A p : FatherAt(p)' = FatherAt(p)
    BY DEF FatherAt, Last_, heap_size
  <1>7. CASE h + 1 < heap_size
    <2>1. pc' = "lengths"
      BY <1>5, <1>7
    <2>2. LengthsInv'
      BY <1>3, <1>6, <1>7, <2>1 DEF LengthsInv, FatherAt, Last_, heap_size
    <2>3. CountsInv'
      BY <1>4, <2>1 DEF CountsInv
    <2>4. OverflowInv' /\ CodeInv'
      BY <2>1 DEF OverflowInv, CodeInv
    <2> QED BY <1>3, <2>1, <2>2, <2>3, <2>4 DEF IInv
  <1>8. CASE ~(h + 1 < heap_size)
    <2>1. pc' = (IF overflow' = 0 THEN "codes" ELSE "overflow") /\ pc' \in {"codes", "overflow"}
      BY <1>5, <1>8
    <2>2. desc \in Descs
      BY DEF IInv, Typed
    <2>3. /\ Chosen' = Chosen /\ ForcedSymbols' = ForcedSymbols /\ Leafs' = Leafs /\ Limit' = Limit
          /\ Halves' = Halves /\ StaticBits' = StaticBits /\ ForcedBits' = ForcedBits
          /\ \A x : Freq(x)' = Freq(x)
      BY <1>5, SameDesc
    <2>4. /\ DoneLeaves' = Chosen
          /\ \A n \in Chosen : dl'[n] \in 1..Limit
          /\ \A m, n \in Chosen : Freq(m) > Freq(n) => dl'[m] <= dl'[n]
          /\ WeightSum(Halves)' = 2 * SumFunctionOnSet([n \in Chosen |-> Halves[dl'[n]]], Chosen)
          /\ WeightSum(Longest_)' = 2 * SumFunctionOnSet([n \in Chosen |-> Longest_[dl'[n]]], Chosen)
      BY <1>1, <1>2, <1>8, LastRead
    <2>5. /\ \A b \in 0..max_bits : bl_count_'[b] = Cardinality({n \in DoneLeaves' : dl'[n] = b})
          /\ overflow' \in Nat
          /\ WeightSum(Halves)' = 2 * 2^Limit' + overflow'
          /\ WeightSum(Longest_)' >= overflow'
          /\ opt_len_' = SumFunctionOnSet(SymbolBits', DoneLeaves') - Len(ForcedSymbols')
          /\ desc'.stree # <<>> => static_len_' = SumFunctionOnSet(StaticBits', DoneLeaves') - ForcedBits'
      <3>1. LengthsAdded'
        BY <1>4
      <3> QED BY <3>1 DEF LengthsAdded
    <2>6. CountOf(bl_count_', dl')
      BY <2>4, <2>5 DEF CountOf
    <2> DEFINE K == SumFunctionOnSet([n \in Chosen |-> Halves[dl'[n]]], Chosen)
    <2>7. /\ SumFunctionOnSet(bl_count_', 1..Limit) = Leafs
          /\ \A b \in 0..max_bits : b \notin 1..Limit => bl_count_'[b] = 0
          /\ K = SumFunctionOnSet([b \in 1..Limit |-> bl_count_'[b] * Halves[b]], 1..Limit)
          /\ K \in Int
          /\ SumFunctionOnSet([n \in Chosen |-> Longest_[dl'[n]]], Chosen) = bl_count_'[Limit]
          /\ bl_count_'[Limit] \in Nat
      BY <2>2, <2>6, Counted
    <2>8. 2^Limit \in Nat
      BY <2>2, WeightsAre
    <2> HIDE DEF K
    <2>9. KraftSum' = K
      BY <2>3, <2>7 DEF KraftSum
    <2>10. 2 * K = 2 * 2^Limit + overflow' /\ overflow' <= 2 * bl_count_'[Limit]
      <3>1. WeightSum(Halves)' = 2 * K
        BY <2>4 DEF K
      <3>2. WeightSum(Halves)' = 2 * 2^Limit + overflow'
        BY <2>3, <2>5
      <3>3. WeightSum(Longest_)' = 2 * bl_count_'[Limit] /\ WeightSum(Longest_)' >= overflow'
        BY <2>4, <2>5, <2>7
      <3> QED BY <2>5, <2>7, <3>1, <3>2, <3>3
    <2>11. LengthsInv'
      <3>1. h' = heap_size'
        BY <1>3, <1>6, <1>8
      <3> QED BY <2>1, <3>1 DEF LengthsInv
    <2>12. CountsInv'
      BY <2>1 DEF CountsInv
    <2>13. OverflowInv'
      <3>1. CASE overflow' = 0
        <4>1. pc' = "codes"
          BY <2>1, <3>1
        <4> QED BY <4>1 DEF OverflowInv
      <3>2. CASE overflow' # 0
        <4>1. pc' = "overflow"
          BY <2>1, <3>2
        <4>2. 2 * KraftSum' = 2 * 2^Limit' + overflow' /\ overflow' <= 2 * bl_count_'[Limit']
              /\ SumFunctionOnSet(bl_count_', 1..Limit') = Leafs'
          BY <2>3, <2>7, <2>9, <2>10
        <4>3. \A b \in 0..max_bits : b \notin 1..Limit' => bl_count_'[b] = 0
          BY <2>3, <2>7
        <4>4. overflow' \in Nat \ {0}
          BY <2>5, <3>2
        <4> QED BY <4>1, <4>2, <4>3, <4>4 DEF OverflowInv
      <3> QED BY <3>1, <3>2
    <2>14. CodeInv'
      <3>1. /\ \A n \in Chosen' : dl'[n] \in 1..Limit'
            /\ opt_len_' = SumFunctionOnSet(SymbolBits', Chosen') - Len(ForcedSymbols')
            /\ desc'.stree # <<>> => static_len_' = SumFunctionOnSet(StaticBits', Chosen') - ForcedBits'
        BY <2>3, <2>4, <2>5
      <3>2. \A b \in 0..max_bits : bl_count_'[b] = Cardinality({n \in Chosen' : dl'[n] = b})
        BY <2>3, <2>4, <2>5
      <3>3. \A m, n \in Chosen' : Freq(m)' > Freq(n)' => dl'[m] <= dl'[n]
        BY <2>3, <2>4
      <3>4. CASE overflow' = 0
        <4>1. K = 2^Limit
          BY <2>7, <2>8, <2>10, <3>4
        <4>2. SumFunctionOnSet([n \in Chosen |-> Halves[dl[n]]], Chosen)' = 2^Limit'
          BY <2>3, <4>1 DEF K
        <4> QED BY <3>1, <3>2, <3>3, <4>2 DEF CodeInv
      <3>5. CASE overflow' # 0
        <4>1. pc' = "overflow"
          BY <2>1, <3>5
        <4> QED BY <3>1, <4>1 DEF CodeInv
      <3> QED BY <3>4, <3>5
    <2> QED BY <1>3, <2>1, <2>11, <2>12, <2>13, <2>14 DEF IInv
  <1> QED BY <1>7, <1>8

-----------------------------------------------------------------------------
(* The counts of lengths *)

\* The counts e are the counts c, but for n more of length k.
CountMoved(c, e, k, n, B) ==
    \A b \in B : c[b] \in Int /\ e[b] = IF b = k THEN c[b] + n ELSE c[b]
Weighed(c, w, B) == SumFunctionOnSet([b \in B |-> c[b] * w[b]], B)

\* What one count more or less does to the sums.
LEMMA CountChanged ==
    ASSUME NEW B, IsFiniteSet(B), NEW c, NEW e, NEW k \in B, NEW n \in Int, CountMoved(c, e, k, n, B),
           NEW w, \A b \in B : w[b] \in Int
    PROVE  /\ SumFunctionOnSet(e, B) = SumFunctionOnSet(c, B) + n
           /\ SumFunctionOnSet(c, B) \in Int
           /\ Weighed(e, w, B) = Weighed(c, w, B) + n * w[k]
           /\ Weighed(c, w, B) \in Int
  <1> DEFINE ew == [b \in B |-> e[b] * w[b]]
             cw == [b \in B |-> c[b] * w[b]]
  <1>1. \A b \in B : c[b] \in Int /\ e[b] \in Int /\ (b # k => c[b] = e[b])
    BY DEF CountMoved
  <1>2. e[k] = c[k] + n /\ c[k] \in Int
    BY DEF CountMoved
  <1>3. \A b \in B : ew[b] = e[b] * w[b] /\ cw[b] = c[b] * w[b]
    OBVIOUS
  <1> HIDE DEF ew, cw
  <1>4. SumFunctionOnSet(e, B) = SumFunctionOnSet(c, B) + n /\ SumFunctionOnSet(c, B) \in Int
    <2>1. SumFunctionOnSet(e, B) = SumFunctionOnSet(c, B) + (e[k] - c[k])
      BY <1>1, SumChange
    <2>2. SumFunctionOnSet(c, B) \in Int
      BY <1>1, SumInt
    <2> QED BY <1>2, <2>1, <2>2
  <1>5. \A b \in B : cw[b] \in Int /\ ew[b] \in Int /\ (b # k => cw[b] = ew[b])
    BY <1>1, <1>3
  <1>6. SumFunctionOnSet(ew, B) = SumFunctionOnSet(cw, B) + (ew[k] - cw[k])
    BY <1>5, SumChange
  <1>7. SumFunctionOnSet(cw, B) \in Int
    BY <1>5, SumInt
  <1>8. ew[k] - cw[k] = n * w[k]
    <2>1. ew[k] = (c[k] + n) * w[k] /\ cw[k] = c[k] * w[k] /\ w[k] \in Int
      BY <1>2, <1>3
    <2>2. (c[k] + n) * w[k] = c[k] * w[k] + n * w[k] /\ c[k] * w[k] \in Int /\ n * w[k] \in Int
      BY <1>2, <2>1
    <2> QED BY <2>1, <2>2
  <1>9. Weighed(e, w, B) = SumFunctionOnSet(ew, B) /\ Weighed(c, w, B) = SumFunctionOnSet(cw, B)
    BY DEF Weighed, ew, cw
  <1> QED BY <1>4, <1>6, <1>7, <1>8, <1>9

\* Some length below the limit has a leaf: else there were too few.
LEMMA ShorterLeaf ==
    ASSUME IInv, pc = "overflow"
    PROVE  \E b \in 1..Limit - 1 : bl_count_[b] # 0
  <1>1. desc \in Descs /\ bl_count_ \in [0..max_bits -> Nat]
    BY DEF IInv, Typed
  <1>2. /\ Limit \in Nat /\ Limit >= 1 /\ Limit <= max_bits /\ max_bits \in Nat
        /\ elems <= 2^Limit /\ elems \in Nat
    BY <1>1, DescFacts, NodesAre
  <1>3. /\ SumFunctionOnSet(bl_count_, 1..Limit) = Leafs
        /\ 2 * KraftSum = 2 * 2^Limit + overflow /\ overflow \in Nat /\ overflow # 0
    BY DEF IInv, OverflowInv
  <1>4. Leafs \in Nat /\ Leafs <= elems
    BY <1>1, <1>2, ChosenFacts
  <1>5. 2^Limit \in Nat
    BY <1>1, WeightsAre
  <1> DEFINE B == 1..Limit
             k == [b \in B |-> bl_count_[b] * Halves[b]]
  <1>6. SUFFICES ASSUME \A b \in 1..Limit - 1 : bl_count_[b] = 0 PROVE FALSE
    OBVIOUS
  <1>7. \A b \in B : k[b] = bl_count_[b]
    <2> TAKE b \in B
    <2>1. bl_count_[b] \in Nat /\ b \in 0..Limit
      BY <1>1, <1>2
    <2>2. Halves[b] \in Nat
      BY <1>1, <2>1, WeightsAre
    <2>3. CASE b = Limit
      <3>1. Halves[b] = 1
        BY <1>1, <2>3, WeightsAre
      <3> QED BY <2>1, <3>1
    <2>4. CASE b # Limit
      <3>1. bl_count_[b] = 0
        BY <1>2, <1>6, <2>4
      <3> QED BY <2>2, <3>1
    <2> QED BY <2>3, <2>4
  <1>8. IsFiniteSet(B)
    BY <1>2, FS_Interval
  <1>9. KraftSum = SumFunctionOnSet(k, B)
    BY DEF KraftSum
  <1> HIDE DEF k, B
  <1>10. KraftSum = Leafs
    <2>1. SumFunctionOnSet(k, B) = SumFunctionOnSet(bl_count_, B)
      BY <1>7, <1>8, SumAgree
    <2> QED BY <1>3, <1>9, <2>1 DEF B
  <1> QED BY <1>2, <1>3, <1>4, <1>5, <1>10

\* What MoveLeaf does to the counts.
LEMMA MoveLeafCounts ==
    ASSUME IInv, MoveLeaf
    PROVE  /\ bl_count_' \in [0..max_bits -> Nat]
           /\ SumFunctionOnSet(bl_count_', 1..Limit) = Leafs
           /\ \A b \in 0..max_bits : b \notin 1..Limit => bl_count_'[b] = 0
           /\ 2 * SumFunctionOnSet([b \in 1..Limit |-> bl_count_'[b] * Halves[b]], 1..Limit)
                  = 2 * 2^Limit + overflow'
           /\ overflow' <= 2 * bl_count_'[Limit]
           /\ overflow' \in Nat /\ overflow' = overflow - 2
  <1> DEFINE S == {b \in 1..Limit - 1 : bl_count_[b] # 0}
             c == bl_count_
             top == Max(S)
             e == [c EXCEPT ![top] = c[top] + (-1)]
             f == [e EXCEPT ![top + 1] = e[top + 1] + 2]
             g == [f EXCEPT ![Limit] = f[Limit] + (-1)]
             B == 1..Limit
  <1>1. desc \in Descs /\ c \in [0..max_bits -> Nat] /\ pc = "overflow"
    BY DEF IInv, Typed, MoveLeaf
  <1>2. /\ Limit \in Nat /\ Limit >= 1 /\ Limit <= max_bits /\ max_bits \in Nat
        /\ Limit = desc.max_length
    BY <1>1, DescFacts DEF Limit
  <1>3. /\ SumFunctionOnSet(c, B) = Leafs
        /\ \A b \in 0..max_bits : b \notin B => c[b] = 0
        /\ 2 * KraftSum = 2 * 2^Limit + overflow /\ overflow \in Nat /\ overflow # 0
        /\ overflow <= 2 * c[Limit]
    BY <1>1 DEF IInv, OverflowInv
  <1>4. top \in 1..Limit - 1 /\ c[top] # 0
    <2>1. S # {}
      BY <1>1, ShorterLeaf
    <2>2. S \subseteq Nat /\ IsFiniteSet(S)
      <3>1. IsFiniteSet(1..Limit - 1)
        BY <1>2, FS_Interval
      <3>2. S \in SUBSET (1..Limit - 1)
        OBVIOUS
      <3>3. IsFiniteSet(S)
        BY <3>1, <3>2, SubsetsFinite
      <3> QED BY <3>3
    <2>3. top \in S
      <3> HIDE DEF S
      <3> QED BY <2>1, <2>2, MaxIs
    <2> QED BY <2>3
  <1>5. bl_count_' = [[[c EXCEPT ![top] = @ - 1] EXCEPT ![top + 1] = @ + 2] EXCEPT ![Limit] = @ - 1]
        /\ overflow' = overflow - 2
    BY <1>2 DEF MoveLeaf
  <1> HIDE DEF S, top
  <1>6. \A b \in B : Halves[b] \in Int
    <2> TAKE b \in B
    <2>1. b \in 0..Limit
      BY <1>2
    <2> QED BY <1>1, <2>1, WeightsAre
  <1>7. Limit \in 1..max_bits /\ top \in B /\ top + 1 \in B /\ Limit \in B /\ top \in Int
    BY <1>2, <1>4
  <1>8. c \in [0..max_bits -> Int]
    BY <1>1
  <1>9. IsFiniteSet(B)
    BY <1>2, FS_Interval
  <1>10. \A b \in 0..max_bits : b \notin B => b # top /\ b # top + 1 /\ b # Limit
    BY <1>7
  <1>11. B \subseteq 0..max_bits
    BY <1>2
  <1> HIDE DEF B
  <1>12. e \in [0..max_bits -> Int] /\ CountMoved(c, e, top, -1, B)
    BY <1>7, <1>8, <1>11 DEF CountMoved
  <1> HIDE DEF e
  <1>13. f \in [0..max_bits -> Int] /\ CountMoved(e, f, top + 1, 2, B)
    BY <1>7, <1>11, <1>12 DEF CountMoved
  <1> HIDE DEF f
  <1>14. g \in [0..max_bits -> Int] /\ CountMoved(f, g, Limit, -1, B)
    BY <1>7, <1>11, <1>13 DEF CountMoved
  <1> HIDE DEF g
  <1>15. /\ SumFunctionOnSet(g, B) = Leafs
         /\ Weighed(g, Halves, B)
                = Weighed(c, Halves, B) + (-1) * Halves[top] + 2 * Halves[top + 1] + (-1) * Halves[Limit]
         /\ Weighed(c, Halves, B) \in Int
    <2>1. /\ SumFunctionOnSet(e, B) = SumFunctionOnSet(c, B) + (-1) /\ SumFunctionOnSet(c, B) \in Int
          /\ Weighed(e, Halves, B) = Weighed(c, Halves, B) + (-1) * Halves[top]
          /\ Weighed(c, Halves, B) \in Int
      <3>1. -1 \in Int /\ top \in B
        BY <1>7
      <3> QED BY <1>6, <1>9, <1>12, <3>1, CountChanged
    <2>2. /\ SumFunctionOnSet(f, B) = SumFunctionOnSet(e, B) + 2
          /\ Weighed(f, Halves, B) = Weighed(e, Halves, B) + 2 * Halves[top + 1]
      <3>1. 2 \in Int /\ top + 1 \in B
        BY <1>7
      <3> QED BY <1>6, <1>9, <1>13, <3>1, CountChanged
    <2>3. /\ SumFunctionOnSet(g, B) = SumFunctionOnSet(f, B) + (-1)
          /\ Weighed(g, Halves, B) = Weighed(f, Halves, B) + (-1) * Halves[Limit]
      <3>1. -1 \in Int /\ Limit \in B
        BY <1>7
      <3> QED BY <1>6, <1>9, <1>14, <3>1, CountChanged
    <2>4. Halves[top] \in Int /\ Halves[top + 1] \in Int /\ Halves[Limit] \in Int
      BY <1>6, <1>7
    <2>5. SumFunctionOnSet(g, B) = Leafs
      BY <1>3, <2>1, <2>2, <2>3
    <2> QED BY <2>1, <2>2, <2>3, <2>4, <2>5
  <1>16. bl_count_' = g
    BY <1>1, <1>5, <1>7, <1>11 DEF e, f, g
  <1>17. \E i \in Int : overflow = 2 * i
    <2>1. KraftSum = Weighed(c, Halves, B)
      BY DEF KraftSum, B, Weighed
    <2>2. 2^Limit \in Nat /\ KraftSum \in Int
      BY <1>1, <1>15, <2>1, WeightsAre
    <2>3. KraftSum - 2^Limit \in Int /\ overflow = 2 * (KraftSum - 2^Limit)
      BY <1>3, <2>2
    <2> QED BY <2>3
  <1>18. overflow >= 2
    BY <1>3, <1>17
  <1>19. /\ c[Limit] \in Nat /\ c[top] \in Nat /\ c[top + 1] \in Nat
         /\ c[Limit] >= 1 /\ c[top] >= 1
    <2>1. c[Limit] \in Nat /\ c[top] \in Nat /\ c[top + 1] \in Nat
      BY <1>1, <1>7, <1>11
    <2> QED BY <1>3, <1>4, <1>18, <2>1
  <1>20. \A b \in B : /\ c[b] \in Nat
                      /\ e[b] = IF b = top THEN c[b] - 1 ELSE c[b]
                      /\ f[b] = IF b = top + 1 THEN e[b] + 2 ELSE e[b]
                      /\ g[b] = IF b = Limit THEN f[b] - 1 ELSE f[b]
    BY <1>1, <1>11, <1>12, <1>13, <1>14 DEF CountMoved
  <1>21. top # top + 1 /\ top # Limit
    BY <1>2, <1>4
  <1>22. \A b \in B : g[b] \in Nat
    <2> TAKE b \in B
    <2>1. CASE b = top
      <3>1. g[b] = c[b] - 1
        BY <1>20, <1>21, <2>1
      <3> QED BY <1>19, <2>1, <3>1
    <2>2. CASE b # top /\ b = top + 1
      <3>1. e[b] = c[b] /\ f[b] = c[b] + 2 /\ (g[b] = c[b] + 2 - 1 \/ g[b] = c[b] + 2)
        BY <1>20, <2>2
      <3>2. c[b] \in Nat
        BY <1>20
      <3> QED BY <3>1, <3>2
    <2>3. CASE b # top /\ b # top + 1 /\ b = Limit
      <3>1. g[b] = c[b] - 1
        BY <1>20, <2>3
      <3> QED BY <1>19, <2>3, <3>1
    <2>4. CASE b # top /\ b # top + 1 /\ b # Limit
      <3>1. g[b] = c[b]
        BY <1>20, <2>4
      <3> QED BY <1>20, <3>1
    <2> QED BY <2>1, <2>2, <2>3, <2>4
  <1>23. \A b \in 0..max_bits : b \notin B => g[b] = 0
    <2> TAKE b \in 0..max_bits
    <2> HAVE b \notin B
    <2>1. b # top /\ b # top + 1 /\ b # Limit /\ c[b] = 0
      BY <1>3, <1>10
    <2> QED BY <1>8, <1>12, <1>13, <2>1 DEF e, f, g
  <1>24. g \in [0..max_bits -> Nat]
    BY <1>14, <1>22, <1>23
  <1>25. Weighed(g, Halves, B) = Weighed(c, Halves, B) - 1
    <2>1. Halves[top] = 2 * Halves[top + 1]
      <3>1. top \in 0..Limit - 1
        BY <1>2, <1>4
      <3> QED BY <1>1, <3>1, WeightsAre
    <2>2. Halves[Limit] = 1
      BY <1>1, WeightsAre
    <2>3. Halves[top] \in Int /\ Halves[top + 1] \in Int
      BY <1>6, <1>7
    <2> QED BY <1>15, <2>1, <2>2, <2>3
  <1>26. 2 * Weighed(g, Halves, B) = 2 * 2^Limit + overflow' /\ overflow' = overflow - 2 /\ overflow' \in Nat
    <2>1. KraftSum = Weighed(c, Halves, B)
      BY DEF KraftSum, B, Weighed
    <2>2. 2^Limit \in Nat
      BY <1>1, WeightsAre
    <2>3. overflow' = overflow - 2 /\ overflow \in Nat
      BY <1>3, <1>5
    <2>4. overflow' \in Nat
      BY <1>18, <2>3
    <2>5. 2 * Weighed(c, Halves, B) = 2 * 2^Limit + overflow
      BY <1>3, <2>1
    <2>6. Weighed(c, Halves, B) \in Int
      BY <1>15
    <2>7. 2 * Weighed(g, Halves, B) = 2 * Weighed(c, Halves, B) - 2
      BY <1>25, <2>6
    <2>8. 2 * Weighed(g, Halves, B) = 2 * 2^Limit + overflow'
      BY <2>2, <2>3, <2>5, <2>6, <2>7
    <2> QED BY <2>3, <2>4, <2>8
  <1>27. overflow' <= 2 * g[Limit]
    <2>1. g[Limit] = c[Limit] - 1 \/ g[Limit] = c[Limit] + 2 - 1
      BY <1>7, <1>20, <1>21
    <2> QED BY <1>3, <1>19, <1>26, <2>1
  <1> QED BY <1>16, <1>15, <1>23, <1>24, <1>26, <1>27 DEF B, Weighed

\* Once the tree is made only the lengths and the counts change, and the codes at the end.
LEMMA TreeKept ==
    ASSUME IInv, pc \in {"overflow", "recompute", "codes", "done"},
           pc' \in {"overflow", "recompute", "codes", "done"}, fc' = fc \/ pc' = "done",
           pc = "done" => pc' = "done",
           UNCHANGED <<desc, heap_, heap_len_, heap_max_, depth_, node, max_code, h>>
    PROVE  PlacesInv' /\ NodesInv' /\ OrderInv' /\ FathersInv' /\ LengthsInv' /\ CountsInv'
  <1>1. /\ desc' = desc /\ heap_' = heap_ /\ heap_max_' = heap_max_ /\ node' = node
        /\ h' = h /\ heap_size' = heap_size /\ Last_' = Last_ /\ elems' = elems
    BY DEF heap_size, Last_
  <1>2. Chosen' = Chosen /\ Leafs' = Leafs
    BY <1>1, SameDesc
  <1>3. Sorted_' = Sorted_ /\ Heap_' = Heap_ /\ AllNodes' = AllNodes
    BY <1>1, <1>2 DEF Sorted_, Heap_, AllNodes
  <1>4. pc # "combine" /\ pc' # "combine" /\ pc # "heap" /\ pc' # "heap"
        /\ pc \in Built /\ pc' \in Built /\ pc' # "lengths"
    BY DEF Built
  <1>5. PlacesInv'
    <2>1. node = elems + Leafs - 1 /\ heap_max_ = heap_size - 2 * Leafs + 1
          /\ heap_[heap_max_] = node - 1
      BY <1>4 DEF IInv, PlacesInv
    <2> QED BY <1>1, <1>2, <1>4, <2>1 DEF PlacesInv, heap_size
  <1>6. NodesInv'
    <2>1. /\ \A i, j \in Heap_ \cup Sorted_ : heap_[i] = heap_[j] => i = j
          /\ AllNodes = {heap_[i] : i \in Heap_ \cup Sorted_}
      BY <1>4 DEF IInv, NodesInv
    <2> QED BY <1>1, <1>3, <2>1 DEF NodesInv
  <1>7. FathersInv'
    <2>1. \A p \in Sorted_ : FatherAt(p) < node => heap_[p] < FatherAt(p)
      BY <1>4 DEF IInv, FathersInv
    <2> QED BY <1>1, <1>3, <2>1 DEF FathersInv, FatherAt, Last_, heap_size
  <1>8. OrderInv'
    <2>1. CASE pc' = "done"
      BY <2>1 DEF OrderInv
    <2>2. CASE pc' # "done" /\ pc # "done"
      <3>1. fc' = fc
        BY <2>2
      <3>2. /\ \A n \in AllNodes : fc[n] > 0
            /\ \A p \in Sorted_ :
                  /\ \A q \in Sorted_ : p < q => fc[heap_[p]] >= fc[heap_[q]]
                  /\ \A i \in Heap_ : fc[heap_[i]] >= fc[heap_[p]]
            /\ \A p, q \in Sorted_ :
                  FatherAt(p) = FatherAt(q) /\ p < q /\ FatherAt(p) < node =>
                      fc[FatherAt(p)] = fc[heap_[p]] + fc[heap_[q]]
        BY <1>4, <2>2 DEF IInv, OrderInv
      <3> QED BY <1>1, <1>3, <1>4, <3>1, <3>2 DEF OrderInv, FatherAt, Last_, heap_size
    <2> QED BY <2>1, <2>2
  <1>9. LengthsInv'
    <2>1. h = heap_size
      BY DEF IInv, LengthsInv
    <2> QED BY <1>1, <1>4, <2>1 DEF LengthsInv
  <1>10. CountsInv'
    BY <1>4 DEF CountsInv
  <1> QED BY <1>5, <1>6, <1>7, <1>8, <1>9, <1>10

\* MoveLeaf keeps the invariant.
LEMMA MoveLeafKeeps ==
    ASSUME IInv, MoveLeaf
    PROVE  IInv'
  <1>1. /\ pc = "overflow" /\ pc' = (IF overflow - 2 > 0 THEN pc ELSE "recompute")
        /\ UNCHANGED <<desc, fc, dl, heap_, heap_len_, heap_max_, depth_, node,
                       max_code, h, opt_len_, static_len_>>
    BY DEF MoveLeaf
  <1>2. /\ bl_count_' \in [0..max_bits -> Nat]
        /\ SumFunctionOnSet(bl_count_', 1..Limit) = Leafs
        /\ \A b \in 0..max_bits : b \notin 1..Limit => bl_count_'[b] = 0
        /\ 2 * SumFunctionOnSet([b \in 1..Limit |-> bl_count_'[b] * Halves[b]], 1..Limit)
               = 2 * 2^Limit + overflow'
        /\ overflow' <= 2 * bl_count_'[Limit]
        /\ overflow' \in Nat /\ overflow' = overflow - 2
    BY MoveLeafCounts
  <1>3. /\ pc' \in {"overflow", "recompute"}
        /\ pc' = "overflow" => overflow' # 0
        /\ pc' = "recompute" => overflow' = 0
    <2>1. overflow \in Nat
      BY <1>1 DEF IInv, OverflowInv
    <2> QED BY <1>1, <1>2, <2>1
  <1>4. desc' = desc /\ dl' = dl /\ fc' = fc /\ max_code' = max_code
        /\ opt_len_' = opt_len_ /\ static_len_' = static_len_
    BY <1>1
  <1>5. /\ Chosen' = Chosen /\ ForcedSymbols' = ForcedSymbols /\ Leafs' = Leafs /\ Limit' = Limit
        /\ Halves' = Halves /\ StaticBits' = StaticBits /\ ForcedBits' = ForcedBits
        /\ \A x : Freq(x)' = Freq(x)
    BY <1>4, SameDesc
  <1>6. Typed'
    <2>1. Typed
      BY DEF IInv
    <2> QED BY <1>1, <1>2, <1>3, <2>1 DEF Typed
  <1>7. ChosenInv'
    <2>1. /\ max_code = Max(Chosen) /\ \A n \in Symbols \ Chosen : dl[n] = 0
          /\ \A n \in Chosen : fc[n] = Freq(n)
      BY <1>1 DEF IInv, ChosenInv
    <2> QED BY <1>4, <1>5, <2>1 DEF ChosenInv, Symbols
  <1>8. PlacesInv' /\ NodesInv' /\ OrderInv' /\ FathersInv' /\ LengthsInv' /\ CountsInv'
    BY <1>1, <1>3, <1>4, TreeKept
  <1>9. KraftSum' = SumFunctionOnSet([b \in 1..Limit |-> bl_count_'[b] * Halves[b]], 1..Limit)
    BY <1>5 DEF KraftSum
  <1>10. OverflowInv'
    <2>1. /\ SumFunctionOnSet(bl_count_', 1..Limit') = Leafs'
          /\ \A b \in 0..max_bits : b \notin 1..Limit' => bl_count_'[b] = 0
          /\ 2 * KraftSum' = 2 * 2^Limit' + overflow' /\ overflow' <= 2 * bl_count_'[Limit']
      BY <1>2, <1>5, <1>9
    <2> QED BY <1>2, <1>3, <2>1 DEF OverflowInv
  <1>11. SymbolBits' = SymbolBits
    BY <1>4, <1>5 DEF SymbolBits
  <1>12. CodeInv'
    <2>1. /\ \A n \in Chosen : dl[n] \in 1..Limit
          /\ opt_len_ = SumFunctionOnSet(SymbolBits, Chosen) - Len(ForcedSymbols)
          /\ desc.stree # <<>> => static_len_ = SumFunctionOnSet(StaticBits, Chosen) - ForcedBits
      BY <1>1 DEF IInv, CodeInv
    <2>2. pc' \notin {"codes", "done"}
      BY <1>3
    <2> QED BY <1>4, <1>5, <1>11, <2>1, <2>2 DEF CodeInv
  <1>13. pc' # "heap"
    BY <1>3
  <1> QED BY <1>6, <1>7, <1>8, <1>10, <1>12, <1>13 DEF IInv

-----------------------------------------------------------------------------
(* Lengths by rank *)

\* The leaves that are longer than b, and the length of the one of rank r.
Longer(c, L, b) == SumFunctionOnSet(c, b + 1..L)
Fits(c, L, r, b) == Longer(c, L, b) <= r /\ r < Longer(c, L, b) + c[b]
LengthOf(c, L, r) == CHOOSE b \in 1..L : Fits(c, L, r, b)

\* There are as many longer than the length before as there are longer or as long.
LEMMA LongerSteps ==
    ASSUME NEW L \in Nat, NEW c, \A b \in 1..L : c[b] \in Nat
    PROVE  /\ Longer(c, L, L) = 0 /\ Longer(c, L, 0) = SumFunctionOnSet(c, 1..L)
           /\ \A b \in 0..L : Longer(c, L, b) \in Nat
           /\ \A b \in 1..L : Longer(c, L, b - 1) = Longer(c, L, b) + c[b]
           /\ \A i, j \in 0..L : i <= j => Longer(c, L, j) <= Longer(c, L, i)
  <1>1. Longer(c, L, L) = 0
    <2>1. L + 1..L = {}
      OBVIOUS
    <2> QED BY <2>1, SumEmpty DEF Longer
  <1>2. Longer(c, L, 0) = SumFunctionOnSet(c, 1..L)
    <2>1. 0 + 1..L = 1..L
      OBVIOUS
    <2> QED BY <2>1 DEF Longer
  <1>3. \A i \in Nat : \A j \in Nat : IsFiniteSet(i..j)
    <2> TAKE i \in Nat
    <2> TAKE j \in Nat
    <2>1. i \in Int /\ j \in Int
      OBVIOUS
    <2> QED BY <2>1, FS_Interval
  <1>4. \A b \in 0..L : Longer(c, L, b) \in Nat
    <2> TAKE b \in 0..L
    <2>1. b + 1 \in Nat /\ \A i \in b + 1..L : c[i] \in Nat
      OBVIOUS
    <2>2. IsFiniteSet(b + 1..L)
      BY <1>3, <2>1
    <2> QED BY <2>1, <2>2, SumNat DEF Longer
  <1>5. \A b \in 1..L : Longer(c, L, b - 1) = Longer(c, L, b) + c[b]
    <2> TAKE b \in 1..L
    <2>1. IsFiniteSet(b..L) /\ b \in b..L /\ (\A i \in b..L : c[i] \in Int)
          /\ (b..L) \ {b} = b + 1..L /\ b - 1 + 1 = b
      BY <1>3
    <2>2. SumFunctionOnSet(c, b..L) = c[b] + SumFunctionOnSet(c, (b..L) \ {b})
      BY <2>1, SumTake
    <2>3. Longer(c, L, b - 1) = SumFunctionOnSet(c, b..L)
      BY <2>1 DEF Longer
    <2>4. Longer(c, L, b) \in Nat /\ c[b] \in Nat
      BY <1>4
    <2>5. Longer(c, L, b) = SumFunctionOnSet(c, (b..L) \ {b})
      BY <2>1 DEF Longer
    <2> QED BY <2>2, <2>3, <2>4, <2>5
  <1>6. \A i, j \in 0..L : i <= j => Longer(c, L, j) <= Longer(c, L, i)
    <2> SUFFICES ASSUME NEW i \in 0..L, NEW j \in 0..L, i <= j
                 PROVE  Longer(c, L, j) <= Longer(c, L, i)
      OBVIOUS
    <2> DEFINE S == i + 1..j
               R == j + 1..L
    <2>1. i + 1..L = S \cup R /\ S \cap R = {}
      OBVIOUS
    <2>2. IsFiniteSet(S) /\ IsFiniteSet(R)
      <3>1. i + 1 \in Nat /\ j + 1 \in Nat /\ j \in Nat
        OBVIOUS
      <3> QED BY <1>3, <3>1
    <2>3. (\A y \in S : c[y] \in Nat) /\ (\A y \in S \cup R : c[y] \in Int)
      OBVIOUS
    <2>4. Longer(c, L, j) = SumFunctionOnSet(c, R) /\ Longer(c, L, j) \in Nat
      BY <1>4 DEF Longer
    <2>5. Longer(c, L, i) = SumFunctionOnSet(c, S \cup R)
      BY <2>1 DEF Longer
    <2> HIDE DEF S, R
    <2>6. SumFunctionOnSet(c, S \cup R) = SumFunctionOnSet(c, S) + SumFunctionOnSet(c, R)
      BY <2>1, <2>2, <2>3, SumUnion
    <2>7. SumFunctionOnSet(c, S) \in Nat
      BY <2>2, <2>3, SumNat
    <2> QED BY <2>4, <2>5, <2>6, <2>7
  <1> QED BY <1>1, <1>2, <1>4, <1>5, <1>6

\* A leaf of lower rank has no shorter code.
LEMMA FitsFall ==
    ASSUME NEW L \in Nat, NEW c, \A b \in 1..L : c[b] \in Nat,
           NEW i \in 1..L, NEW j \in 1..L, NEW r \in Nat, NEW s \in Nat, r <= s,
           Fits(c, L, r, i), Fits(c, L, s, j)
    PROVE  j <= i
  <1>1. SUFFICES ASSUME i < j PROVE FALSE
    OBVIOUS
  <1>2. Longer(c, L, i) <= r /\ s < Longer(c, L, j) + c[j]
    BY DEF Fits
  <1>3. Longer(c, L, j - 1) = Longer(c, L, j) + c[j]
    BY LongerSteps
  <1>4. i <= j - 1 /\ i \in 0..L /\ j - 1 \in 0..L
    BY <1>1
  <1>5. Longer(c, L, j - 1) <= Longer(c, L, i) /\ Longer(c, L, j - 1) \in Nat /\ Longer(c, L, i) \in Nat
    BY <1>4, LongerSteps
  <1> QED BY <1>2, <1>3, <1>5

\* A rank has one length.
LEMMA LengthIs ==
    ASSUME NEW L \in Nat, NEW c, \A b \in 1..L : c[b] \in Nat,
           NEW r \in Nat, r < SumFunctionOnSet(c, 1..L)
    PROVE  /\ LengthOf(c, L, r) \in 1..L /\ Fits(c, L, r, LengthOf(c, L, r))
           /\ \A b \in 1..L : Fits(c, L, r, b) => b = LengthOf(c, L, r)
  <1> DEFINE S == {b \in 0..L : Longer(c, L, b) <= r}
  <1>1. L \in S /\ S \subseteq Nat
    BY LongerSteps
  <1>2. PICK b \in S : \A y \in S : b <= y
    <2> HIDE DEF S
    <2> QED BY <1>1, Smallest
  <1>3. b \in 0..L /\ Longer(c, L, b) <= r
    BY <1>2
  <1>4. b # 0
    <2>1. ~(Longer(c, L, 0) <= r) /\ Longer(c, L, 0) = SumFunctionOnSet(c, 1..L)
      <3>1. Longer(c, L, 0) \in Nat /\ Longer(c, L, 0) = SumFunctionOnSet(c, 1..L)
        BY LongerSteps
      <3> QED BY <3>1
    <2> QED BY <1>3, <2>1
  <1>5. b \in 1..L /\ b - 1 \in 0..L
    BY <1>3, <1>4
  <1>6. ~(Longer(c, L, b - 1) <= r)
    <2>1. ~(b <= b - 1)
      BY <1>5
    <2> QED BY <1>2, <1>5, <2>1
  <1>7. Fits(c, L, r, b)
    <2>1. Longer(c, L, b - 1) = Longer(c, L, b) + c[b] /\ Longer(c, L, b - 1) \in Nat
      BY <1>5, LongerSteps
    <2> QED BY <1>3, <1>6, <2>1 DEF Fits
  <1>8. LengthOf(c, L, r) \in 1..L /\ Fits(c, L, r, LengthOf(c, L, r))
    BY <1>5, <1>7 DEF LengthOf
  <1>9. \A i \in 1..L : Fits(c, L, r, i) => i = LengthOf(c, L, r)
    <2> SUFFICES ASSUME NEW i \in 1..L, Fits(c, L, r, i) PROVE i = LengthOf(c, L, r)
      OBVIOUS
    <2> DEFINE j == LengthOf(c, L, r)
    <2>1. j \in 1..L /\ Fits(c, L, r, j) /\ r <= r
      BY <1>8
    <2> HIDE DEF j
    <2>2. i <= j
      BY <2>1, FitsFall
    <2>3. j <= i
      BY <2>1, FitsFall
    <2>4. i = j
      BY <2>1, <2>2, <2>3
    <2> QED BY <2>4 DEF j
  <1> QED BY <1>8, <1>9

\* As many ranks have a length as it counts.
LEMMA LengthCount ==
    ASSUME NEW L \in Nat, NEW c, \A b \in 1..L : c[b] \in Nat, NEW b \in 1..L
    PROVE  Cardinality({r \in 0..SumFunctionOnSet(c, 1..L) - 1 : LengthOf(c, L, r) = b}) = c[b]
  <1> DEFINE N == SumFunctionOnSet(c, 1..L)
             P == Longer(c, L, b)
  <1>1. P \in Nat /\ c[b] \in Nat /\ N \in Nat /\ P + c[b] <= N
    <2>1. Longer(c, L, b - 1) = P + c[b] /\ Longer(c, L, 0) = N
      BY LongerSteps
    <2>2. b - 1 \in 0..L /\ 0 \in 0..L /\ 0 <= b - 1 /\ b \in 0..L
      OBVIOUS
    <2>3. Longer(c, L, b - 1) <= Longer(c, L, 0) /\ Longer(c, L, 0) \in Nat /\ P \in Nat
      BY <2>2, LongerSteps
    <2> QED BY <2>1, <2>3
  <1>2. \A r \in 0..N - 1 : LengthOf(c, L, r) = b <=> Fits(c, L, r, b)
    <2> TAKE r \in 0..N - 1
    <2>1. r \in Nat /\ r < N
      BY <1>1
    <2> QED BY <2>1, LengthIs
  <1>3. {r \in 0..N - 1 : LengthOf(c, L, r) = b} = P..P + c[b] - 1
    <2>1. \A r \in 0..N - 1 : Fits(c, L, r, b) <=> P <= r /\ r < P + c[b]
      BY DEF Fits
    <2> HIDE DEF P, N
    <2> QED BY <1>1, <1>2, <2>1
  <1>4. Cardinality(P..P + c[b] - 1) = c[b]
    <2> HIDE DEF P
    <2> DEFINE Q == P + c[b] - 1
    <2>1. P \in Int /\ Q \in Int /\ Q = P + c[b] - 1
      BY <1>1
    <2> HIDE DEF Q
    <2>2. Cardinality(P..Q) = IF P > Q THEN 0 ELSE Q - P + 1
      BY <2>1, FS_Interval
    <2>3. Cardinality(P..Q) = c[b]
      BY <1>1, <2>1, <2>2
    <2> QED BY <2>1, <2>3
  <1> QED BY <1>3, <1>4

-----------------------------------------------------------------------------
(* Recompute *)

\* The leaves hold the symbols.
LEMMA LeavesAre ==
    ASSUME IInv, pc = "recompute"
    PROVE  /\ Leaves \subseteq Sorted_ /\ Leaves \subseteq Nat /\ IsFiniteSet(Leaves)
           /\ Cardinality(Leaves) = Leafs
           /\ \A i, j \in Leaves : heap_[i] = heap_[j] => i = j
           /\ {heap_[i] : i \in Leaves} = Chosen
  <1>1. /\ heap_size \in Nat /\ Last_ \in Nat /\ heap_size = Last_ + 1 /\ Nodes = 0..Last_
        /\ Last_ = 2 * elems /\ elems \in Nat
    BY NodesAre
  <1>2. desc \in Descs
    BY DEF IInv, Typed
  <1>3. Leafs \in 2..elems /\ IsFiniteSet(Chosen) /\ Chosen \subseteq Symbols
    BY <1>2, ChosenFacts
  <1>4. heap_max_ = heap_size - 2 * Leafs + 1
    BY DEF IInv, PlacesInv, Built
  <1>5. heap_max_ \in Nat /\ Sorted_ = heap_max_..Last_ /\ Sorted_ \subseteq Nat
    <2>1. heap_max_ \in Nat
      BY <1>1, <1>3, <1>4
    <2> QED BY <1>1, <2>1 DEF Sorted_
  <1>6. Heap_ \cup Sorted_ = Sorted_
    BY DEF Heap_
  <1>7. /\ \A i, j \in Sorted_ : heap_[i] = heap_[j] => i = j
        /\ AllNodes = {heap_[i] : i \in Sorted_}
    BY <1>6 DEF IInv, NodesInv
  <1>8. Leaves = {i \in Sorted_ : heap_[i] <= max_code}
    <2>1. heap_size - 1 = Last_
      BY <1>1
    <2> QED BY <1>5, <2>1 DEF Leaves
  <1>9. \A i \in Sorted_ : i \in Leaves <=> heap_[i] \in Chosen
    <2> TAKE i \in Sorted_
    <2>1. heap_[i] \in AllNodes
      BY <1>7
    <2>2. /\ heap_[i] \in Nat
          /\ heap_[i] > max_code <=> heap_[i] \notin Symbols
          /\ heap_[i] \in Symbols => heap_[i] \in Chosen
      BY <2>1, LeafIs
    <2>3. max_code \in Nat
      <3>1. max_code = Max(Chosen)
        BY DEF IInv, ChosenInv
      <3>2. Max(Chosen) \in Symbols
        BY <1>2, <1>3, ChosenFacts
      <3> QED BY <3>1, <3>2, SymbolsFinite
    <2>4. heap_[i] <= max_code <=> heap_[i] \in Symbols
      BY <2>2, <2>3
    <2> QED BY <1>3, <1>8, <2>2, <2>4
  <1>10. {heap_[i] : i \in Leaves} = Chosen
    <2>1. Chosen \subseteq AllNodes
      BY DEF AllNodes
    <2> QED BY <1>7, <1>8, <1>9, <2>1
  <1>11. IsFiniteSet(Leaves)
    <2>1. heap_max_ \in Int /\ Last_ \in Int
      BY <1>1, <1>5
    <2>2. IsFiniteSet(Sorted_)
      BY <1>5, <2>1, FS_Interval
    <2>3. Leaves \in SUBSET Sorted_
      BY <1>8
    <2> QED BY <2>2, <2>3, SubsetsFinite
  <1>12. \A i, j \in Leaves : heap_[i] = heap_[j] => i = j
    BY <1>7, <1>8
  <1>13. Cardinality({heap_[i] : i \in Leaves}) = Cardinality(Leaves)
    BY <1>11, <1>12, ImageCount
  <1>14. Cardinality(Leaves) = Leafs
    BY <1>10, <1>13 DEF Leafs
  <1> QED BY <1>5, <1>8, <1>10, <1>11, <1>12, <1>14

\* How many leaves are less frequent.
Rank_ == [i \in Leaves |-> Cardinality(Above(Leaves, i))]

\* The length of a leaf is that of its rank.
LEMMA LengthAtIs ==
    ASSUME IInv, pc = "recompute"
    PROVE  /\ RankOk(Rank_, Leaves) /\ Limit \in Nat
           /\ \A b \in 1..Limit : bl_count_[b] \in Nat
           /\ SumFunctionOnSet(bl_count_, 1..Limit) = Leafs /\ Leafs \in Nat
           /\ \A i \in Leaves : /\ Rank_[i] \in 0..Leafs - 1
                                /\ LengthAt(i) = LengthOf(bl_count_, Limit, Rank_[i])
                                /\ LengthAt(i) \in 1..Limit
  <1>1. desc \in Descs /\ bl_count_ \in [0..max_bits -> Nat]
    BY DEF IInv, Typed
  <1>2. Limit \in Nat /\ Limit <= max_bits /\ max_bits \in Nat /\ Leafs \in Nat
    <2>1. Limit \in 1..max_bits /\ max_bits \in Nat
      BY <1>1, DescFacts
    <2>2. Leafs \in 2..elems
      BY <1>1, ChosenFacts
    <2> QED BY <2>1, <2>2
  <1>3. \A b \in 1..Limit : bl_count_[b] \in Nat
    BY <1>1, <1>2
  <1>4. SumFunctionOnSet(bl_count_, 1..Limit) = Leafs
    BY DEF IInv, OverflowInv
  <1>5. Leaves \subseteq Nat /\ IsFiniteSet(Leaves) /\ Cardinality(Leaves) = Leafs
    BY LeavesAre
  <1>6. RankOk(Rank_, Leaves)
    <2>1. IsRank(Rank_, Leaves)
      BY DEF IsRank, Rank_
    <2> QED BY <1>5, <2>1, Ranks
  <1>7. \A i \in Leaves : Rank_[i] \in 0..Leafs - 1
    BY <1>5, <1>6 DEF RankOk
  <1>8. \A i \in Leaves : LengthAt(i) = LengthOf(bl_count_, Limit, Rank_[i])
    <2> TAKE i \in Leaves
    <2>1. Rank_[i] = Cardinality({j \in Leaves : j > i})
      BY DEF Rank_, Above
    <2>2. \A b : LongerThan(b) = Longer(bl_count_, Limit, b)
      BY DEF LongerThan, Longer, Limit
    <2> QED BY <2>1, <2>2 DEF LengthAt, LengthOf, Fits, Limit
  <1>9. \A i \in Leaves : LengthOf(bl_count_, Limit, Rank_[i]) \in 1..Limit
    <2> TAKE i \in Leaves
    <2>1. Rank_[i] \in Nat /\ Rank_[i] < SumFunctionOnSet(bl_count_, 1..Limit)
      BY <1>2, <1>4, <1>7
    <2> QED BY <1>2, <1>3, <2>1, LengthIs
  <1> QED BY <1>2, <1>3, <1>4, <1>6, <1>7, <1>8, <1>9

\* What Recompute does.
LEMMA RecomputeDoes ==
    ASSUME IInv, Recompute
    PROVE  /\ pc = "recompute" /\ pc' = "codes"
           /\ UNCHANGED <<desc, fc, heap_, heap_len_, heap_max_, depth_, node, max_code,
                          bl_count_, h, overflow, static_len_>>
           /\ \A i \in Leaves : dl'[heap_[i]] = LengthAt(i)
           /\ \A n \in Nodes : n \notin Chosen => dl'[n] = dl[n]
           /\ dl' \in [Nodes -> Nat]
           /\ opt_len_' = opt_len_ +
                  SumFunctionOnSet([i \in Leaves |-> LengthChange(i, LengthAt(i))], Leaves)
  <1> DEFINE moved == [i \in Leaves |-> LengthAt(i)]
             place == [n \in {heap_[i] : i \in Leaves} |-> CHOOSE i \in Leaves : heap_[i] = n]
             change == [i \in Leaves |-> LengthChange(i, moved[i])]
  <1>1. /\ pc = "recompute" /\ pc' = "codes"
        /\ UNCHANGED <<desc, fc, heap_, heap_len_, heap_max_, depth_, node, max_code,
                       bl_count_, h, overflow, static_len_>>
        /\ dl' = [n \in Nodes |-> IF n \in DOMAIN place THEN moved[place[n]] ELSE dl[n]]
        /\ opt_len_' = opt_len_ + SumFunction(change)
    BY DEF Recompute
  <1>2. /\ \A i, j \in Leaves : heap_[i] = heap_[j] => i = j
        /\ {heap_[i] : i \in Leaves} = Chosen
        /\ Leaves \subseteq Sorted_
    BY <1>1, LeavesAre
  <1>3. \A n \in Chosen : place[n] \in Leaves /\ heap_[place[n]] = n
    <2> TAKE n \in Chosen
    <2>1. \E i \in Leaves : heap_[i] = n
      BY <1>2
    <2>2. place[n] = CHOOSE i \in Leaves : heap_[i] = n
      BY <1>2
    <2> QED BY <2>1, <2>2
  <1>4. DOMAIN place = Chosen
    BY <1>2
  <1> HIDE DEF place
  <1>5. Chosen \subseteq Nodes
    <2>1. desc \in Descs
      BY DEF IInv, Typed
    <2>2. Chosen \subseteq Symbols
      BY <2>1, ChosenFacts
    <2> QED BY <2>2, NodesAre
  <1>6. \A i \in Leaves : dl'[heap_[i]] = LengthAt(i)
    <2> TAKE i \in Leaves
    <2>1. heap_[i] \in Chosen
      BY <1>2
    <2>2. place[heap_[i]] = i
      BY <1>2, <1>3, <2>1
    <2>3. dl'[heap_[i]] = moved[place[heap_[i]]]
      BY <1>1, <1>4, <1>5, <2>1
    <2> QED BY <2>2, <2>3
  <1>7. \A n \in Nodes : n \notin Chosen => dl'[n] = dl[n]
    BY <1>1, <1>4
  <1>8. dl' \in [Nodes -> Nat]
    <2>1. dl \in [Nodes -> Nat]
      BY DEF IInv, Typed
    <2>2. \A i \in Leaves : moved[i] \in Nat
      <3>1. \A i \in Leaves : LengthAt(i) \in 1..Limit
        BY <1>1, LengthAtIs
      <3>2. Limit \in Nat
        BY <1>1, LengthAtIs
      <3> QED BY <3>1, <3>2
    <2> HIDE DEF moved
    <2> QED BY <1>1, <1>3, <1>4, <2>1, <2>2
  <1>9. SumFunction(change) = SumFunctionOnSet([i \in Leaves |-> LengthChange(i, LengthAt(i))], Leaves)
    <2>1. change = [i \in Leaves |-> LengthChange(i, LengthAt(i))]
      OBVIOUS
    <2>2. SumFunction(change) = SumFunctionOnSet(change, DOMAIN change)
      BY DEF SumFunction
    <2>3. DOMAIN change = Leaves
      OBVIOUS
    <2> HIDE DEF change
    <2> QED BY <2>1, <2>2, <2>3
  <1> QED BY <1>1, <1>6, <1>7, <1>8, <1>9

\* The new lengths have the counts that the old ones were given.
LEMMA NewLengths ==
    ASSUME IInv, Recompute
    PROVE  /\ CountOf(bl_count_, dl')
           /\ \A m, n \in Chosen : Freq(m) > Freq(n) => dl'[m] <= dl'[n]
  <1>1. /\ pc = "recompute" /\ fc' = fc
        /\ \A i \in Leaves : dl'[heap_[i]] = LengthAt(i)
    BY RecomputeDoes
  <1>2. /\ Leaves \subseteq Sorted_ /\ Leaves \subseteq Nat /\ IsFiniteSet(Leaves)
        /\ Cardinality(Leaves) = Leafs
        /\ \A i, j \in Leaves : heap_[i] = heap_[j] => i = j
        /\ {heap_[i] : i \in Leaves} = Chosen
    BY <1>1, LeavesAre
  <1>3. /\ RankOk(Rank_, Leaves) /\ Limit \in Nat
        /\ \A b \in 1..Limit : bl_count_[b] \in Nat
        /\ SumFunctionOnSet(bl_count_, 1..Limit) = Leafs /\ Leafs \in Nat
        /\ \A i \in Leaves : /\ Rank_[i] \in 0..Leafs - 1
                             /\ LengthAt(i) = LengthOf(bl_count_, Limit, Rank_[i])
                             /\ LengthAt(i) \in 1..Limit
    BY <1>1, LengthAtIs
  <1>4. \A n \in Chosen : dl'[n] \in 1..Limit
    BY <1>1, <1>2, <1>3
  <1>5. /\ \A i, j \in Leaves : i < j => Rank_[i] > Rank_[j]
        /\ \A k \in 0..Leafs - 1 : \E i \in Leaves : Rank_[i] = k
    BY <1>2, <1>3 DEF RankOk
  <1>6. \A i, j \in Leaves : Rank_[i] = Rank_[j] => i = j
    <2> SUFFICES ASSUME NEW i \in Leaves, NEW j \in Leaves, Rank_[i] = Rank_[j] PROVE i = j
      OBVIOUS
    <2>1. i \in Nat /\ j \in Nat /\ Rank_[i] \in Nat
      BY <1>2, <1>3
    <2>2. ~(i < j) /\ ~(j < i)
      BY <1>5, <2>1
    <2> QED BY <2>1, <2>2
  <1>7. \A b \in 1..Limit : Cardinality({n \in Chosen : dl'[n] = b}) = bl_count_[b]
    <2> TAKE b \in 1..Limit
    <2> DEFINE S == {i \in Leaves : LengthAt(i) = b}
               R == {r \in 0..Leafs - 1 : LengthOf(bl_count_, Limit, r) = b}
    <2>1. IsFiniteSet(S) /\ \A i \in S : i \in Leaves
      <3>1. S \in SUBSET Leaves
        OBVIOUS
      <3> QED BY <1>2, <3>1, SubsetsFinite
    <2>2. {heap_[i] : i \in S} = {n \in Chosen : dl'[n] = b}
      <3>1. \A i \in Leaves : heap_[i] \in Chosen /\ dl'[heap_[i]] = LengthAt(i)
        BY <1>1, <1>2
      <3>2. \A n \in Chosen : \E i \in Leaves : heap_[i] = n
        BY <1>2
      <3>3. ASSUME NEW i \in S PROVE heap_[i] \in {n \in Chosen : dl'[n] = b}
        BY <3>1
      <3>4. ASSUME NEW n \in Chosen, dl'[n] = b PROVE \E i \in S : n = heap_[i]
        <4>1. PICK i \in Leaves : heap_[i] = n
          BY <3>2
        <4>2. i \in S
          BY <3>1, <3>4, <4>1
        <4> QED BY <4>1, <4>2
      <3> QED BY <3>3, <3>4
    <2>3. {Rank_[i] : i \in S} = R
      <3>1. ASSUME NEW i \in S PROVE Rank_[i] \in R
        BY <1>3
      <3>2. ASSUME NEW r \in R PROVE \E i \in S : r = Rank_[i]
        <4>1. PICK i \in Leaves : Rank_[i] = r
          BY <1>5
        <4>2. i \in S
          BY <1>3, <4>1
        <4> QED BY <4>1, <4>2
      <3> QED BY <3>1, <3>2
    <2>4. Cardinality(R) = bl_count_[b]
      BY <1>3, LengthCount
    <2>5. /\ \A i, j \in S : heap_[i] = heap_[j] => i = j
          /\ \A i, j \in S : Rank_[i] = Rank_[j] => i = j
      BY <1>2, <1>6
    <2> HIDE DEF S, R
    <2>6. Cardinality({heap_[i] : i \in S}) = Cardinality(S)
      BY <2>1, <2>5, ImageCount
    <2>7. Cardinality({Rank_[i] : i \in S}) = Cardinality(S)
      BY <2>1, <2>5, ImageCount
    <2> QED BY <2>2, <2>3, <2>4, <2>6, <2>7
  <1>8. \A b \in 0..max_bits : bl_count_[b] = Cardinality({n \in Chosen : dl'[n] = b})
    <2> TAKE b \in 0..max_bits
    <2>1. CASE b \in 1..Limit
      BY <1>7, <2>1
    <2>2. CASE b \notin 1..Limit
      <3>1. bl_count_[b] = 0
        BY <1>1, <2>2 DEF IInv, OverflowInv
      <3>2. {n \in Chosen : dl'[n] = b} = {}
        BY <1>4, <2>2
      <3> QED BY <3>1, <3>2, FS_EmptySet
    <2> QED BY <2>1, <2>2
  <1>9. CountOf(bl_count_, dl')
    BY <1>4, <1>8 DEF CountOf
  <1>10. \A m, n \in Chosen : Freq(m) > Freq(n) => dl'[m] <= dl'[n]
    <2> SUFFICES ASSUME NEW m \in Chosen, NEW n \in Chosen, Freq(m) > Freq(n)
                 PROVE  dl'[m] <= dl'[n]
      OBVIOUS
    <2>1. fc[m] = Freq(m) /\ fc[n] = Freq(n)
      BY <1>1 DEF IInv, ChosenInv
    <2>2. PICK p \in Leaves : heap_[p] = m
      BY <1>2
    <2>3. PICK q \in Leaves : heap_[q] = n
      BY <1>2
    <2>4. ~(q < p)
      <3> SUFFICES ASSUME q < p PROVE FALSE
        OBVIOUS
      <3>1. p \in Sorted_ /\ q \in Sorted_
        BY <1>2
      <3>2. fc[heap_[q]] >= fc[heap_[p]]
        BY <1>1, <3>1 DEF IInv, OrderInv
      <3>3. Freq(m) \in Nat /\ Freq(n) \in Nat
        <4>1. desc \in Descs
          BY DEF IInv, Typed
        <4> QED BY <4>1, ChosenFacts
      <3> QED BY <2>1, <2>2, <2>3, <3>2, <3>3
    <2>5. p \in Nat /\ q \in Nat /\ Rank_[p] \in Nat /\ Rank_[q] \in Nat
          /\ Rank_[p] < Leafs /\ Rank_[q] < Leafs
      BY <1>2, <1>3
    <2>6. Rank_[q] <= Rank_[p]
      <3>1. p < q \/ p = q
        BY <2>4, <2>5
      <3> QED BY <1>5, <2>5, <3>1
    <2> DEFINE i == LengthOf(bl_count_, Limit, Rank_[p])
               j == LengthOf(bl_count_, Limit, Rank_[q])
    <2>7. /\ i \in 1..Limit /\ Fits(bl_count_, Limit, Rank_[p], i)
          /\ j \in 1..Limit /\ Fits(bl_count_, Limit, Rank_[q], j)
      BY <1>3, <2>5, LengthIs
    <2>8. dl'[m] = i /\ dl'[n] = j
      BY <1>1, <1>3, <2>2, <2>3
    <2> HIDE DEF i, j
    <2>9. i <= j
      BY <1>3, <2>5, <2>6, <2>7, FitsFall
    <2> QED BY <2>8, <2>9
  <1> QED BY <1>9, <1>10

\* The bits that the new lengths take are counted.
LEMMA NewBits ==
    ASSUME IInv, Recompute
    PROVE  opt_len_' = SumFunctionOnSet(SymbolBits', Chosen) - Len(ForcedSymbols)
  <1>1. /\ pc = "recompute" /\ desc' = desc
        /\ \A i \in Leaves : dl'[heap_[i]] = LengthAt(i)
        /\ dl' \in [Nodes -> Nat]
        /\ opt_len_' = opt_len_ +
               SumFunctionOnSet([i \in Leaves |-> LengthChange(i, LengthAt(i))], Leaves)
    BY RecomputeDoes
  <1>2. /\ IsFiniteSet(Leaves)
        /\ \A i, j \in Leaves : heap_[i] = heap_[j] => i = j
        /\ {heap_[i] : i \in Leaves} = Chosen
    BY <1>1, LeavesAre
  <1>3. desc \in Descs /\ dl \in [Nodes -> Nat]
    BY DEF IInv, Typed
  <1>4. /\ Chosen \subseteq Symbols /\ Chosen \subseteq Nodes /\ IsFiniteSet(Chosen)
        /\ \A n \in Chosen : Freq(n) \in Nat
    <2>1. Symbols \subseteq Nodes
      BY NodesAre
    <2> QED BY <1>3, <2>1, ChosenFacts
  <1>5. Chosen' = Chosen /\ \A n : Freq(n)' = Freq(n)
    BY <1>1, SameDesc
  <1>6. opt_len_ = SumFunctionOnSet(SymbolBits, Chosen) - Len(ForcedSymbols)
    BY <1>1 DEF IInv, CodeInv
  <1> DEFINE g == [n \in Chosen |-> (dl'[n] - dl[n]) * Freq(n)]
             e == [i \in Leaves |-> LengthChange(i, LengthAt(i))]
  <1>7. \A n \in Chosen : /\ SymbolBits'[n] = Freq(n) * (dl'[n] + desc.extra[n])
                          /\ SymbolBits[n] = Freq(n) * (dl[n] + desc.extra[n])
                          /\ g[n] = (dl'[n] - dl[n]) * Freq(n)
    BY <1>1, <1>5 DEF SymbolBits
  <1>8. \A n \in Chosen : SymbolBits[n] \in Int /\ g[n] \in Int /\ SymbolBits'[n] = SymbolBits[n] + g[n]
    <2> TAKE n \in Chosen
    <2>1. dl'[n] \in Nat /\ dl[n] \in Nat /\ Freq(n) \in Nat
      BY <1>1, <1>3, <1>4
    <2>2. desc.extra[n] \in Nat
      BY <1>3, <1>4, DescFacts
    <2> DEFINE to == dl'[n]
               was == dl[n]
               more == desc.extra[n]
               often == Freq(n)
    <2>3. to \in Nat /\ was \in Nat /\ more \in Nat /\ often \in Nat
      BY <2>1, <2>2
    <2>4. /\ SymbolBits'[n] = often * (to + more) /\ SymbolBits[n] = often * (was + more)
          /\ g[n] = (to - was) * often
      BY <1>7
    <2> HIDE DEF g, to, was, more, often
    <2>5. /\ often * (was + more) \in Int /\ (to - was) * often \in Int
          /\ often * (to + more) = often * (was + more) + (to - was) * often
      BY <2>3
    <2> QED BY <2>4, <2>5
  <1>9. SumFunctionOnSet(e, Leaves) = SumFunctionOnSet(g, Chosen)
    <2>1. \A i \in Leaves : heap_[i] \in Chosen
      BY <1>2
    <2>2. \A i \in Leaves : e[i] = g[heap_[i]]
      <3> TAKE i \in Leaves
      <3>1. fc[heap_[i]] = Freq(heap_[i])
        BY <1>1, <2>1 DEF IInv, ChosenInv
      <3>2. e[i] = (dl'[heap_[i]] - dl[heap_[i]]) * fc[heap_[i]]
        BY <1>1 DEF LengthChange
      <3> QED BY <2>1, <3>1, <3>2
    <2> HIDE DEF e, g
    <2>3. SumFunctionOnSet(e, Leaves) = SumFunctionOnSet([i \in Leaves |-> g[heap_[i]]], Leaves)
      BY <1>2, <2>2, SumAgree
    <2>4. \A i \in Leaves : g[heap_[i]] \in Int
      BY <1>8, <2>1
    <2>5. SumFunctionOnSet([i \in Leaves |-> g[heap_[i]]], Leaves)
              = SumFunctionOnSet(g, {heap_[i] : i \in Leaves})
      BY <1>2, <2>4, Renamed
    <2> QED BY <1>2, <2>3, <2>5
  <1> HIDE DEF g
  <1>10. SumFunctionOnSet(SymbolBits', Chosen)
             = SumFunctionOnSet(SymbolBits, Chosen) + SumFunctionOnSet(g, Chosen)
    BY <1>4, <1>8, SumPlus
  <1>11. /\ SumFunctionOnSet(SymbolBits, Chosen) \in Int /\ SumFunctionOnSet(g, Chosen) \in Int
         /\ Len(ForcedSymbols) \in Int
    <2>1. Len(ForcedSymbols) \in Int
      BY <1>3, ForcedFacts
    <2> QED BY <1>4, <1>8, <2>1, SumInt
  <1>12. opt_len_' = opt_len_ + SumFunctionOnSet(e, Leaves)
    BY <1>1
  <1> HIDE DEF e
  <1> QED BY <1>6, <1>9, <1>10, <1>11, <1>12

\* Recompute keeps the invariant.
LEMMA RecomputeKeeps ==
    ASSUME IInv, Recompute
    PROVE  IInv'
  <1>1. /\ pc = "recompute" /\ pc' = "codes"
        /\ UNCHANGED <<desc, fc, heap_, heap_len_, heap_max_, depth_, node, max_code,
                       bl_count_, h, overflow, static_len_>>
        /\ \A n \in Nodes : n \notin Chosen => dl'[n] = dl[n]
        /\ dl' \in [Nodes -> Nat]
    BY RecomputeDoes
  <1>2. CountOf(bl_count_, dl') /\ \A m, n \in Chosen : Freq(m) > Freq(n) => dl'[m] <= dl'[n]
    BY NewLengths
  <1>3. opt_len_' = SumFunctionOnSet(SymbolBits', Chosen) - Len(ForcedSymbols)
    BY NewBits
  <1>4. desc \in Descs /\ Typed
    BY DEF IInv, Typed
  <1>5. desc' = desc /\ fc' = fc /\ max_code' = max_code /\ bl_count_' = bl_count_
        /\ static_len_' = static_len_
    BY <1>1
  <1>6. /\ Chosen' = Chosen /\ ForcedSymbols' = ForcedSymbols /\ Leafs' = Leafs /\ Limit' = Limit
        /\ Halves' = Halves /\ StaticBits' = StaticBits /\ ForcedBits' = ForcedBits
        /\ \A x : Freq(x)' = Freq(x)
    BY <1>5, SameDesc
  <1>7. opt_len_' \in Int
    <2>1. /\ IsFiniteSet(Chosen) /\ \A n \in Chosen : SymbolBits'[n] \in Int
      <3> SUFFICES ASSUME NEW n \in Chosen PROVE SymbolBits'[n] \in Int
        BY <1>4, ChosenFacts
      <3>1. SymbolBits'[n] = Freq(n) * (dl'[n] + desc.extra[n])
        BY <1>5, <1>6 DEF SymbolBits
      <3>2. Freq(n) \in Nat /\ n \in Symbols
        BY <1>4, ChosenFacts
      <3>3. dl'[n] \in Nat
        <4>1. n \in Nodes
          BY <3>2, NodesAre
        <4> QED BY <1>1, <4>1
      <3>4. desc.extra[n] \in Nat
        BY <1>4, <3>2, DescFacts
      <3>5. Freq(n) * (dl'[n] + desc.extra[n]) \in Int
        BY <3>2, <3>3, <3>4
      <3> QED BY <3>1, <3>5
    <2>2. SumFunctionOnSet(SymbolBits', Chosen) \in Int
      BY <2>1, SumInt
    <2>3. Len(ForcedSymbols) \in Int
      BY <1>4, ForcedFacts
    <2> QED BY <1>3, <2>2, <2>3
  <1>8. Typed'
    BY <1>1, <1>4, <1>7 DEF Typed
  <1>9. ChosenInv'
    <2>1. /\ max_code = Max(Chosen) /\ \A n \in Symbols \ Chosen : dl[n] = 0
          /\ \A n \in Chosen : fc[n] = Freq(n)
      BY <1>1 DEF IInv, ChosenInv
    <2>2. \A n \in Symbols \ Chosen : dl'[n] = 0
      <3> TAKE n \in Symbols \ Chosen
      <3>1. n \in Nodes
        BY NodesAre
      <3> QED BY <1>1, <2>1, <3>1
    <2> QED BY <1>5, <1>6, <2>1, <2>2 DEF ChosenInv, Symbols
  <1>10. PlacesInv' /\ NodesInv' /\ OrderInv' /\ FathersInv' /\ LengthsInv' /\ CountsInv'
    BY <1>1, TreeKept
  <1>11. OverflowInv'
    BY <1>1 DEF OverflowInv
  <1>12. CodeInv'
    <2>1. /\ \A n \in Chosen : dl'[n] \in 1..Limit
          /\ \A b \in 0..max_bits : bl_count_[b] = Cardinality({n \in Chosen : dl'[n] = b})
      BY <1>2 DEF CountOf
    <2>2. desc.stree # <<>> => static_len_ = SumFunctionOnSet(StaticBits, Chosen) - ForcedBits
      BY <1>1 DEF IInv, CodeInv
    <2>3. SumFunctionOnSet([n \in Chosen |-> Halves[dl'[n]]], Chosen) = 2^Limit
      <3> DEFINE K == SumFunctionOnSet([n \in Chosen |-> Halves[dl'[n]]], Chosen)
      <3>1. K = KraftSum /\ K \in Int
        BY <1>2, <1>4, Counted DEF KraftSum
      <3>2. 2 * KraftSum = 2 * 2^Limit + overflow /\ overflow = 0
        BY <1>1 DEF IInv, OverflowInv
      <3>3. 2^Limit \in Nat
        BY <1>4, WeightsAre
      <3> HIDE DEF K
      <3>4. K = 2^Limit
        BY <3>1, <3>2, <3>3
      <3> QED BY <3>4 DEF K
    <2>4. SumFunctionOnSet([n \in Chosen |-> Halves[dl[n]]], Chosen)' = 2^Limit'
      BY <1>6, <2>3
    <2>5. \A m, n \in Chosen' : Freq(m)' > Freq(n)' => dl'[m] <= dl'[n]
      BY <1>2, <1>6
    <2> QED BY <1>3, <1>5, <1>6, <2>1, <2>2, <2>4, <2>5 DEF CodeInv
  <1> QED BY <1>1, <1>8, <1>9, <1>10, <1>11, <1>12 DEF IInv

-----------------------------------------------------------------------------
(* gen_codes *)

\* The first code of each length, from the counts of the lengths.
FirstCodes(g, c, M) ==
    g = [b \in 0..M |-> IF b = 0 THEN 0 ELSE (g[b - 1] + c[b - 1]) * 2]

\* There are such first codes for all counts.
LEMMA FirstCodesExist ==
    ASSUME NEW c, NEW M \in Nat
    PROVE  \E g : FirstCodes(g, c, M)
  <1> DEFINE Is(g, n) == g = [b \in 0..n |-> IF b = 0 THEN 0 ELSE (g[b - 1] + c[b - 1]) * 2]
             T == {n \in Nat : \E g : Is(g, n)}
  <1>1. 0 \in T
    <2> DEFINE z == [b \in 0..0 |-> 0]
    <2>1. \A b \in 0..0 : b = 0
      OBVIOUS
    <2>2. [b \in 0..0 |-> IF b = 0 THEN 0 ELSE (z[b - 1] + c[b - 1]) * 2] = z
      BY <2>1
    <2>3. Is(z, 0)
      BY <2>2
    <2> HIDE DEF Is, z
    <2> QED BY <2>3
  <1>2. ASSUME NEW n \in Nat, n \in T PROVE n + 1 \in T
    <2>1. PICK g : Is(g, n)
      BY <1>2
    <2> DEFINE next_ == [b \in 0..n + 1 |-> IF b = 0 THEN 0 ELSE (g[b - 1] + c[b - 1]) * 2]
    <2>2. \A b \in 0..n : b \in 0..n + 1 /\ next_[b] = g[b]
      <3>1. \A b \in 0..n : b \in 0..n + 1
        OBVIOUS
      <3>2. \A b \in 0..n : g[b] = IF b = 0 THEN 0 ELSE (g[b - 1] + c[b - 1]) * 2
        BY <2>1
      <3> QED BY <3>1, <3>2, Zenon
    <2>3. \A b \in 0..n + 1 : b # 0 => next_[b - 1] = g[b - 1]
      <3> HIDE DEF next_
      <3> QED BY <2>2
    <2>4. Is(next_, n + 1)
      BY <2>3
    <2>5. n + 1 \in Nat
      OBVIOUS
    <2> HIDE DEF next_, Is
    <2> QED BY <2>4, <2>5
  <1>3. M \in T
    <2> HIDE DEF T
    <2> QED BY <1>1, <1>2, InductionOnSet
  <1>4. PICK g : Is(g, M)
    BY <1>3
  <1> QED BY <1>4 DEF FirstCodes

\* They are numbers.
LEMMA NextCodes ==
    ASSUME max_bits \in Nat, bl_count_ \in [0..max_bits -> Nat]
    PROVE  \A b \in 0..max_bits : next_code[b] \in Nat
  <1> DEFINE g == CHOOSE g : g = [b \in 0..max_bits |-> IF b = 0 THEN 0 ELSE (g[b - 1] + bl_count_[b - 1]) * 2]
  <1>1. next_code = g
    BY DEF next_code
  <1>2. FirstCodes(g, bl_count_, max_bits)
    <2>1. \E f : f = [b \in 0..max_bits |-> IF b = 0 THEN 0 ELSE (f[b - 1] + bl_count_[b - 1]) * 2]
      <3>1. \E f : FirstCodes(f, bl_count_, max_bits)
        BY FirstCodesExist, Zenon
      <3> QED BY <3>1 DEF FirstCodes
    <2> QED BY <2>1 DEF FirstCodes
  <1> HIDE DEF g
  <1>3. \A b \in 0..max_bits : g[b] = IF b = 0 THEN 0 ELSE (g[b - 1] + bl_count_[b - 1]) * 2
    BY <1>2 DEF FirstCodes
  <1> DEFINE T == {n \in Nat : n <= max_bits => g[n] \in Nat}
  <1>4. 0 \in T
    <2>1. 0 \in 0..max_bits
      OBVIOUS
    <2> QED BY <1>3, <2>1
  <1>5. ASSUME NEW n \in Nat, n \in T PROVE n + 1 \in T
    <2> SUFFICES ASSUME n + 1 <= max_bits PROVE g[n + 1] \in Nat
      OBVIOUS
    <2>1. n + 1 \in 0..max_bits /\ n + 1 # 0 /\ n + 1 - 1 = n /\ n \in 0..max_bits /\ n <= max_bits
      OBVIOUS
    <2>2. g[n] \in Nat
      BY <1>5, <2>1
    <2>3. bl_count_[n] \in Nat
      BY <2>1
    <2>4. g[n + 1] = (g[n] + bl_count_[n]) * 2
      BY <1>3, <2>1
    <2> QED BY <2>2, <2>3, <2>4
  <1>6. Nat \subseteq T
    <2> HIDE DEF T
    <2> QED BY <1>4, <1>5, InductionOnSet
  <1>7. \A b \in 0..max_bits : g[b] \in Nat
    <2> TAKE b \in 0..max_bits
    <2>1. b \in Nat /\ b <= max_bits
      OBVIOUS
    <2> QED BY <1>6, <2>1
  <1> QED BY <1>1, <1>7

\* A bit of a number.
LEMMA BitIsNat ==
    ASSUME NEW v \in Nat, NEW i \in Nat
    PROVE  BitAt(v, i) \in {0, 1}
  <1>1. 2^i \in Nat /\ 2^i >= 1
    BY PowerOfTwo
  <1> DEFINE p == 2^i
  <1>2. p \in Nat /\ p >= 1
    BY <1>1
  <1> HIDE DEF p
  <1>3. v \div p \in Nat
    BY <1>2
  <1>4. (v \div p) % 2 \in {0, 1}
    BY <1>3
  <1> QED BY <1>4 DEF BitAt, p

\* Bits the other way round are a number.
LEMMA ReverseIsNat ==
    ASSUME NEW v \in Nat, NEW n \in Nat
    PROVE  bi_reverse(v, n) \in Nat
  <1> DEFINE f == [i \in 0..n - 1 |-> BitAt(v, i) * 2^(n - 1 - i)]
             D == 0..n - 1
  <1>1. bi_reverse(v, n) = SumFunctionOnSet(f, DOMAIN f)
    BY DEF bi_reverse, SumFunction
  <1>2. DOMAIN f = D
    OBVIOUS
  <1>3. IsFiniteSet(D)
    <2>1. 0 \in Int /\ n - 1 \in Int
      OBVIOUS
    <2> QED BY <2>1, FS_Interval
  <1>4. \A i \in D : f[i] \in Nat
    <2> TAKE i \in D
    <2>1. i \in Nat /\ n - 1 - i \in Nat
      OBVIOUS
    <2>2. BitAt(v, i) \in Nat
      <3>1. BitAt(v, i) \in {0, 1}
        BY <2>1, BitIsNat
      <3> QED BY <3>1
    <2>3. 2^(n - 1 - i) \in Nat
      BY <2>1, PowerOfTwo
    <2>4. BitAt(v, i) * 2^(n - 1 - i) \in Nat
      BY <2>2, <2>3
    <2>5. f[i] = BitAt(v, i) * 2^(n - 1 - i)
      OBVIOUS
    <2> HIDE DEF f
    <2> QED BY <2>4, <2>5
  <1> HIDE DEF f, D
  <1>5. SumFunctionOnSet(f, D) \in Nat
    BY <1>3, <1>4, SumNat
  <1> QED BY <1>1, <1>2, <1>5

\* The symbols that have a length are those that were chosen.
LEMMA CodedAre ==
    ASSUME IInv, pc \in {"codes", "done"}
    PROVE  /\ Coded = Chosen
           /\ \A n \in Nodes : n <= max_code <=> n \in 0..max_code
           /\ \A n \in Nodes : n <= max_code /\ dl[n] # 0 => n \in Chosen
  <1>1. desc \in Descs
    BY DEF IInv, Typed
  <1>2. /\ Chosen \subseteq Symbols /\ max_code \in Chosen /\ \A n \in Chosen : n <= max_code
    BY <1>1, ChosenFacts DEF IInv, ChosenInv
  <1>3. \A n \in Symbols : n \notin Chosen => dl[n] = 0
    BY DEF IInv, ChosenInv
  <1>4. \A n \in Chosen : dl[n] # 0
    <2>1. \A n \in Chosen : dl[n] \in 1..Limit
      BY DEF IInv, CodeInv
    <2>2. Limit \in Nat
      BY <1>1, DescFacts
    <2> QED BY <2>1, <2>2
  <1>5. Coded = Chosen
    BY <1>2, <1>3, <1>4 DEF Coded
  <1>6. max_code \in 0..elems - 1 /\ elems \in Nat /\ Symbols = 0..elems - 1 /\ Nodes = 0..Last_ /\ Last_ \in Nat
    BY <1>2, NodesAre
  <1>7. \A n \in Nodes : n <= max_code => n \in Symbols
    BY <1>6
  <1>8. \A n \in Nodes : n <= max_code <=> n \in 0..max_code
    BY <1>6
  <1> QED BY <1>3, <1>5, <1>7, <1>8

\* gen_codes keeps the invariant.
LEMMA GenCodesKeeps ==
    ASSUME IInv, gen_codes
    PROVE  IInv'
  <1>1. /\ pc = "codes" /\ pc' = "done"
        /\ fc' = [n \in Nodes |->
                     IF n <= max_code /\ dl[n] # 0
                     THEN bi_reverse(next_code[dl[n]] +
                              Cardinality({m \in 0..n - 1 : dl[m] = dl[n]}), dl[n])
                     ELSE fc[n]]
        /\ UNCHANGED <<desc, dl, heap_, heap_len_, heap_max_, depth_, node, max_code,
                       bl_count_, h, overflow, opt_len_, static_len_>>
    BY DEF gen_codes
  <1>2. desc \in Descs /\ Typed /\ bl_count_ \in [0..max_bits -> Nat] /\ fc \in [Nodes -> Nat]
    BY DEF IInv, Typed
  <1>3. Limit \in Nat /\ Limit <= max_bits /\ max_bits \in Nat
    <2>1. Limit \in 1..max_bits /\ max_bits \in Nat
      BY <1>2, DescFacts
    <2> QED BY <2>1
  <1>4. fc' \in [Nodes -> Nat]
    <2> SUFFICES ASSUME NEW n \in Nodes PROVE fc'[n] \in Nat
      BY <1>1
    <2>1. CASE ~(n <= max_code /\ dl[n] # 0)
      BY <1>1, <1>2, <2>1
    <2>2. CASE n <= max_code /\ dl[n] # 0
      <3>1. n \in Chosen
        BY <1>1, <2>2, CodedAre
      <3>2. dl[n] \in 1..Limit
        BY <1>1, <3>1 DEF IInv, CodeInv
      <3>3. dl[n] \in Nat /\ dl[n] \in 0..max_bits
        BY <1>3, <3>2
      <3>4. next_code[dl[n]] \in Nat
        BY <1>2, <1>3, <3>3, NextCodes
      <3> DEFINE s == {m \in 0..n - 1 : dl[m] = dl[n]}
      <3>5. Cardinality(s) \in Nat
        <4>1. 0 \in Int /\ n - 1 \in Int
          BY NodesAre
        <4>2. IsFiniteSet(0..n - 1)
          BY <4>1, FS_Interval
        <4>3. s \in SUBSET (0..n - 1)
          OBVIOUS
        <4> HIDE DEF s
        <4>4. IsFiniteSet(s)
          BY <4>2, <4>3, SubsetsFinite
        <4> QED BY <4>4, FS_CardinalityType
      <3>6. fc'[n] = bi_reverse(next_code[dl[n]] + Cardinality(s), dl[n])
        BY <1>1, <2>2
      <3> HIDE DEF s
      <3>7. next_code[dl[n]] + Cardinality(s) \in Nat
        BY <3>4, <3>5
      <3> QED BY <3>3, <3>6, <3>7, ReverseIsNat
    <2> QED BY <2>1, <2>2
  <1>5. desc' = desc /\ dl' = dl /\ max_code' = max_code /\ bl_count_' = bl_count_
        /\ opt_len_' = opt_len_ /\ static_len_' = static_len_
    BY <1>1
  <1>6. /\ Chosen' = Chosen /\ ForcedSymbols' = ForcedSymbols /\ Leafs' = Leafs /\ Limit' = Limit
        /\ Halves' = Halves /\ StaticBits' = StaticBits /\ ForcedBits' = ForcedBits
        /\ \A x : Freq(x)' = Freq(x)
    BY <1>5, SameDesc
  <1>7. Typed'
    BY <1>1, <1>2, <1>4 DEF Typed
  <1>8. ChosenInv'
    <2>1. max_code = Max(Chosen) /\ \A n \in Symbols \ Chosen : dl[n] = 0
      BY <1>1 DEF IInv, ChosenInv
    <2> QED BY <1>1, <1>5, <1>6, <2>1 DEF ChosenInv, Symbols
  <1>9. PlacesInv' /\ NodesInv' /\ OrderInv' /\ FathersInv' /\ LengthsInv' /\ CountsInv'
    BY <1>1, TreeKept
  <1>10. OverflowInv'
    BY <1>1 DEF OverflowInv
  <1>11. SymbolBits' = SymbolBits
    BY <1>5, <1>6 DEF SymbolBits
  <1>12. CodeInv'
    <2>1. /\ \A n \in Chosen : dl[n] \in 1..Limit
          /\ opt_len_ = SumFunctionOnSet(SymbolBits, Chosen) - Len(ForcedSymbols)
          /\ desc.stree # <<>> => static_len_ = SumFunctionOnSet(StaticBits, Chosen) - ForcedBits
          /\ \A b \in 0..max_bits : bl_count_[b] = Cardinality({n \in Chosen : dl[n] = b})
          /\ SumFunctionOnSet([n \in Chosen |-> Halves[dl[n]]], Chosen) = 2^Limit
          /\ \A m, n \in Chosen : Freq(m) > Freq(n) => dl[m] <= dl[n]
      BY <1>1 DEF IInv, CodeInv
    <2>2. SumFunctionOnSet([n \in Chosen |-> Halves[dl[n]]], Chosen)' = 2^Limit'
      BY <1>5, <1>6, <2>1
    <2> QED BY <1>5, <1>6, <1>11, <2>1, <2>2 DEF CodeInv
  <1> QED BY <1>1, <1>7, <1>8, <1>9, <1>10, <1>12 DEF IInv

-----------------------------------------------------------------------------
(* The invariant *)

\* What does not touch the tree keeps the invariant.
LEMMA StaysInv ==
    ASSUME IInv, UNCHANGED tree_vars
    PROVE  IInv'
  <1>1. /\ pc' = pc /\ desc' = desc /\ fc' = fc /\ dl' = dl /\ heap_' = heap_
        /\ heap_len_' = heap_len_ /\ heap_max_' = heap_max_ /\ depth_' = depth_ /\ node' = node
        /\ max_code' = max_code /\ bl_count_' = bl_count_ /\ h' = h /\ overflow' = overflow
        /\ opt_len_' = opt_len_ /\ static_len_' = static_len_
    BY DEF tree_vars
  <1>2. /\ UsedSymbols' = UsedSymbols /\ ForcedSymbols' = ForcedSymbols
        /\ Chosen' = Chosen /\ Leafs' = Leafs /\ Limit' = Limit
        /\ \A n : Freq(n)' = Freq(n) /\ Static(n)' = Static(n)
        /\ ForcedBits' = ForcedBits /\ Halves' = Halves /\ Longest_' = Longest_
        /\ StaticBits' = StaticBits
    BY <1>1, SameDesc
  <1>3. /\ Sorted_' = Sorted_ /\ Heap_' = Heap_ /\ AllNodes' = AllNodes /\ Made' = Made
        /\ After_' = After_ /\ Before_' = Before_ /\ SymbolBits' = SymbolBits
        /\ heap_size' = heap_size /\ Last_' = Last_ /\ Symbols' = Symbols
    BY <1>1, <1>2 DEF Sorted_, Heap_, AllNodes, Made, After_, Before_, SymbolBits, heap_size, Last_, Symbols
  <1>4. DoneNodes' = DoneNodes /\ DoneLeaves' = DoneLeaves
    <2>1. DoneNodes' = DoneNodes
      BY <1>1, <1>3 DEF DoneNodes
    <2> QED BY <1>3, <2>1 DEF DoneLeaves
  <1>5. WeightSum(Halves)' = WeightSum(Halves) /\ WeightSum(Longest_)' = WeightSum(Longest_)
    BY <1>1, <1>2, <1>3, <1>4 DEF WeightSum, LeafWeights, OpenWeights, FatherAt, Last_, heap_size
  <1>6. KraftSum' = KraftSum
    BY <1>1, <1>2 DEF KraftSum
  <1>7. Typed' /\ (pc = "heap" => opt_len_ = 0 /\ static_len_ = 0)'
    BY <1>1 DEF IInv, Typed
  <1>8. ChosenInv' /\ PlacesInv' /\ NodesInv'
    <2>1. ChosenInv'
      BY <1>1, <1>2 DEF IInv, ChosenInv, Symbols
    <2>2. PlacesInv'
      BY <1>1, <1>2, <1>3 DEF IInv, PlacesInv
    <2>3. NodesInv'
      BY <1>1, <1>3 DEF IInv, NodesInv
    <2> QED BY <2>1, <2>2, <2>3
  <1>9. OrderInv'
    <2>1. \A p : FatherAt(p)' = FatherAt(p)
      BY DEF FatherAt, Last_, heap_size
    <2>2. OrderInv
      BY DEF IInv
    <2>3. Ordered(heap_, heap_len_, fc, depth_, 1)' = Ordered(heap_, heap_len_, fc, depth_, 1)
      BY <1>1 DEF Ordered, smaller
    <2> QED BY <1>1, <1>3, <2>1, <2>2, <2>3 DEF OrderInv, FatherAt, Last_, heap_size
  <1>10. FathersInv'
    BY <1>1, <1>3 DEF IInv, FathersInv, FatherAt, Last_, heap_size
  <1>11. LengthsInv'
    <2>1. LengthsRead' = LengthsRead
      BY <1>1, <1>2, <1>3 DEF LengthsRead, LengthBelow, FatherAt, Last_, heap_size
    <2>2. LengthsInv
      BY DEF IInv
    <2> QED BY <1>1, <1>3, <2>1, <2>2 DEF LengthsInv, FatherAt, Last_, heap_size
  <1>12. CountsInv'
    <2>1. LengthsAdded' = LengthsAdded
      BY <1>1, <1>2, <1>3, <1>4, <1>5 DEF LengthsAdded
    <2>2. CountsInv
      BY DEF IInv
    <2> QED BY <1>1, <1>2, <2>1, <2>2 DEF CountsInv
  <1>13. OverflowInv'
    BY <1>1, <1>2, <1>6 DEF IInv, OverflowInv
  <1>14. CodeInv'
    BY <1>1, <1>2, <1>3 DEF IInv, CodeInv
  <1> QED BY <1>7, <1>8, <1>9, <1>10, <1>11, <1>12, <1>13, <1>14 DEF IInv

\* The trees start with the invariant.
LEMMA StartsInv ==
    ASSUME TreeInit
    PROVE  IInv
  <1>1. /\ desc \in Descs /\ pc = "heap"
        /\ fc = [n \in Nodes |-> IF n \in Symbols THEN desc.freq[n] ELSE 1]
        /\ dl = [n \in Nodes |-> 1] /\ depth_ = [n \in Nodes |-> 1]
        /\ heap_ = [i \in Nodes |-> 1] /\ bl_count_ = [b \in 0..max_bits |-> 1]
        /\ opt_len_ = 0 /\ static_len_ = 0
    BY DEF TreeInit
  <1>2. desc.freq \in [Symbols -> Nat]
    BY <1>1, DescFacts
  <1>3. 1 \in Nodes
    BY NodesAre
  <1>4. Typed
    BY <1>1, <1>2, <1>3 DEF Typed
  <1>5. /\ ChosenInv /\ NodesInv /\ OrderInv /\ FathersInv
        /\ PlacesInv /\ LengthsInv /\ CountsInv /\ OverflowInv /\ CodeInv
    BY <1>1 DEF ChosenInv, NodesInv, OrderInv, FathersInv, PlacesInv, Built, LengthsInv, CountsInv,
                OverflowInv, CodeInv
  <1> QED BY <1>1, <1>4, <1>5 DEF IInv

\* Every step keeps it.
LEMMA NextKeeps ==
    ASSUME IInv, [Next]_vars
    PROVE  IInv'
  <1>1. CASE step = "idle" /\ BuildTree
    <2>1. BuildHeap \/ Combine \/ SetLength \/ MoveLeaf \/ Recompute \/ gen_codes
      BY <1>1 DEF BuildTree
    <2> QED BY <2>1, BuildHeapKeeps, CombineKeeps, SetLengthKeeps, MoveLeafKeeps, RecomputeKeeps,
               GenCodesKeeps
  <1>2. CASE SendLengths
    <2>1. UNCHANGED tree_vars
      BY <1>2 DEF SendLengths
    <2> QED BY <2>1, StaysInv
  <1>3. CASE Arrive
    <2>1. UNCHANGED tree_vars
      BY <1>3 DEF Arrive
    <2> QED BY <2>1, StaysInv
  <1>4. CASE InflateTable /\ UNCHANGED tree_vars
    BY <1>4, StaysInv
  <1>5. CASE UNCHANGED vars
    <2>1. UNCHANGED tree_vars
      BY <1>5 DEF vars
    <2> QED BY <2>1, StaysInv
  <1> QED BY <1>1, <1>2, <1>3, <1>4, <1>5 DEF Next

\* The inductive invariant of build_tree holds in every state: the heap and the tree that
\* grows out of it, the lengths that are read off it, and the counts that are moved.
THEOREM Invariance == Spec => []IInv
  <1>1. Init => IInv
    BY StartsInv DEF Init
  <1>2. IInv /\ [Next]_vars => IInv'
    BY NextKeeps
  <1> QED BY <1>1, <1>2, PTL DEF Spec

-----------------------------------------------------------------------------
(* What the invariant says of the codes *)

\* Powers of two multiply by adding the exponents.
LEMMA PowerAdds ==
    ASSUME NEW i \in Nat, NEW j \in Nat
    PROVE  2^(i + j) = 2^i * 2^j
  <1> DEFINE T == {n \in Nat : 2^(i + n) = 2^i * 2^n}
  <1>1. 2^i \in Nat
    BY PowerOfTwo
  <1>2. 0 \in T
    <2>1. i + 0 = i /\ 2^0 = 1
      OBVIOUS
    <2>2. 2^i * 1 = 2^i
      BY <1>1
    <2>3. 2^(i + 0) = 2^i * 2^0
      BY <2>1, <2>2, Zenon
    <2> QED BY <2>3
  <1>3. ASSUME NEW n \in Nat, n \in T PROVE n + 1 \in T
    <2>1. i + n \in Nat /\ i + (n + 1) = (i + n) + 1 /\ n + 1 \in Nat
      OBVIOUS
    <2> DEFINE p == 2^i
               q == 2^n
               r == 2^(i + n)
    <2>2. p \in Nat /\ q \in Nat /\ r \in Nat
      BY <2>1, PowerOfTwo
    <2>3. 2^(n + 1) = 2 * q
      BY PowerOfTwo
    <2>4. 2^((i + n) + 1) = 2 * r
      BY <2>1, PowerOfTwo
    <2>5. r = p * q
      BY <1>3
    <2>6. 2^(i + (n + 1)) = 2 * r
      BY <2>1, <2>4
    <2> HIDE DEF p, q, r
    <2>7. 2 * r = p * (2 * q)
      BY <2>2, <2>5
    <2>8. 2^(i + (n + 1)) = p * 2^(n + 1)
      BY <2>3, <2>6, <2>7
    <2> QED BY <2>1, <2>8 DEF p
  <1>4. Nat \subseteq T
    <2> HIDE DEF T
    <2> QED BY <1>2, <1>3, InductionOnSet
  <1> QED BY <1>4

\* A factor of all terms is one of the sum.
LEMMA SumScaled ==
    ASSUME NEW S, IsFiniteSet(S), NEW f, NEW g, NEW k \in Int,
           \A x \in S : f[x] \in Int /\ g[x] = k * f[x]
    PROVE  SumFunctionOnSet(g, S) = k * SumFunctionOnSet(f, S)
  <1> DEFINE C == {s \in SUBSET S : SumFunctionOnSet(g, s) = k * SumFunctionOnSet(f, s)}
  <1>1. {} \in C
    <2>1. SumFunctionOnSet(g, {}) = 0 /\ SumFunctionOnSet(f, {}) = 0 /\ k * 0 = 0
      BY SumEmpty
    <2> QED BY <2>1
  <1>2. \A s \in SUBSET S, x \in S : s \in C /\ x \notin s => s \cup {x} \in C
    <2> SUFFICES ASSUME NEW s \in SUBSET S, NEW x \in S, s \in C, x \notin s
                 PROVE  s \cup {x} \in C
      OBVIOUS
    <2>1. IsFiniteSet(s)
      BY SubsetsFinite
    <2>2. \A y \in s \cup {x} : f[y] \in Int /\ g[y] \in Int
      OBVIOUS
    <2> DEFINE F == SumFunctionOnSet(f, s)
               G == SumFunctionOnSet(g, s)
    <2>3. SumFunctionOnSet(f, s \cup {x}) = F + f[x]
      BY <2>1, <2>2, SumPut
    <2>4. SumFunctionOnSet(g, s \cup {x}) = G + g[x]
      BY <2>1, <2>2, SumPut
    <2>5. F \in Int
      BY <2>1, <2>2, SumInt
    <2>6. G = k * F
      OBVIOUS
    <2>7. f[x] \in Int /\ g[x] = k * f[x]
      OBVIOUS
    <2> HIDE DEF F, G
    <2>8. G + g[x] = k * (F + f[x])
      <3> DEFINE y == f[x]
      <3>1. y \in Int /\ g[x] = k * y
        BY <2>7
      <3> HIDE DEF y
      <3>2. k * F + k * y = k * (F + y)
        BY <2>5, <3>1
      <3>3. G + g[x] = k * (F + y)
        BY <2>6, <3>1, <3>2
      <3> QED BY <3>3 DEF y
    <2>9. SumFunctionOnSet(g, s \cup {x}) = k * SumFunctionOnSet(f, s \cup {x})
      BY <2>3, <2>4, <2>8
    <2> QED BY <2>9
  <1>3. S \in C
    <2> HIDE DEF C
    <2> QED BY <1>1, <1>2, FiniteInduction
  <1> QED BY <1>3

\* What the codes of the lengths are in the invariant.
CodeFacts ==
    /\ \A n \in Chosen : dl[n] \in 1..Limit
    /\ opt_len_ = SumFunctionOnSet(SymbolBits, Chosen) - Len(ForcedSymbols)
    /\ desc.stree # <<>> => static_len_ = SumFunctionOnSet(StaticBits, Chosen) - ForcedBits
    /\ \A b \in 0..max_bits : bl_count_[b] = Cardinality({n \in Chosen : dl[n] = b})
    /\ SumFunctionOnSet([n \in Chosen |-> Halves[dl[n]]], Chosen) = 2^Limit
    /\ \A m, n \in Chosen : Freq(m) > Freq(n) => dl[m] <= dl[n]

\* The lengths that the symbols have are those of a complete code.
LEMMA CodeIsComplete ==
    ASSUME IInv
    PROVE  CompleteCode
  <1> SUFFICES ASSUME pc \in {"codes", "done"}
               PROVE  /\ EverySymbolCoded /\ CompleteLimitedCode
                      /\ LengthsMatchCounts /\ FrequentIsShort
    BY DEF CompleteCode
  <1>1. CodeFacts
    BY DEF IInv, CodeInv, CodeFacts
  <1>2. Coded = Chosen
    BY CodedAre
  <1>3. desc \in Descs
    BY DEF IInv, Typed
  <1>4. Limit \in Nat /\ Limit >= 1 /\ Limit <= max_bits /\ max_bits \in Nat /\ Limit = desc.max_length
    <2>1. Limit \in 1..max_bits /\ max_bits \in Nat
      BY <1>3, DescFacts
    <2> QED BY <2>1 DEF Limit
  <1>5. EverySymbolCoded
    BY <1>2 DEF EverySymbolCoded, Chosen, UsedSymbols
  <1>6. LengthsMatchCounts
    <2> SUFFICES ASSUME NEW b \in 1..max_bits
                 PROVE  bl_count_[b] = Cardinality({n \in Coded : dl[n] = b})
      BY DEF LengthsMatchCounts
    <2>1. b \in 0..max_bits
      BY <1>4
    <2> QED BY <1>1, <1>2, <2>1 DEF CodeFacts
  <1>7. FrequentIsShort
    <2> SUFFICES ASSUME NEW m \in Symbols, NEW n \in Symbols,
                        desc.freq[m] > desc.freq[n], desc.freq[n] # 0
                 PROVE  dl[m] <= dl[n]
      BY DEF FrequentIsShort
    <2>1. desc.freq[m] \in Nat /\ desc.freq[n] \in Nat
      BY <1>3, DescFacts
    <2>2. desc.freq[m] # 0
      BY <2>1
    <2>3. m \in UsedSymbols /\ n \in UsedSymbols
      BY <2>2 DEF UsedSymbols
    <2>4. m \in Chosen /\ n \in Chosen /\ Freq(m) = desc.freq[m] /\ Freq(n) = desc.freq[n]
      BY <2>3 DEF Chosen, Freq
    <2>5. Freq(m) > Freq(n)
      BY <2>4
    <2> QED BY <1>1, <2>4, <2>5 DEF CodeFacts
  <1>8. CompleteLimitedCode
    <2> DEFINE f == [n \in Chosen |-> Halves[dl[n]]]
               g == [n \in Chosen |-> WeightOf(n)]
               k == 2^(max_bits - Limit)
    <2>1. \A n \in Coded : dl[n] \in 1..desc.max_length
      BY <1>1, <1>2, <1>4 DEF CodeFacts
    <2>2. max_bits - Limit \in Nat
      BY <1>4
    <2>3. k \in Nat /\ k \in Int
      <3>1. k \in Nat
        BY <2>2, PowerOfTwo
      <3> HIDE DEF k
      <3> QED BY <3>1
    <2>4. \A n \in Chosen : f[n] \in Int /\ g[n] = k * f[n]
      <3> TAKE n \in Chosen
      <3>1. dl[n] \in 1..Limit
        BY <1>1 DEF CodeFacts
      <3>2. dl[n] \in 0..Limit /\ Limit - dl[n] \in Nat
            /\ max_bits - dl[n] = (max_bits - Limit) + (Limit - dl[n])
        BY <1>4, <3>1
      <3>3. Halves[dl[n]] = 2^(Limit - dl[n]) /\ Halves[dl[n]] \in Nat
        BY <1>3, <3>2, WeightsAre
      <3>4. 2^((max_bits - Limit) + (Limit - dl[n])) = k * 2^(Limit - dl[n])
        BY <2>2, <3>2, PowerAdds
      <3>5. WeightOf(n) = k * Halves[dl[n]]
        BY <3>2, <3>3, <3>4 DEF WeightOf
      <3>6. f[n] = Halves[dl[n]] /\ g[n] = WeightOf(n)
        OBVIOUS
      <3> HIDE DEF f, g, k
      <3> QED BY <3>3, <3>5, <3>6
    <2>5. IsFiniteSet(Chosen)
      BY <1>3, ChosenFacts
    <2>6. SumFunctionOnSet(g, Chosen) = k * SumFunctionOnSet(f, Chosen)
      <3> HIDE DEF f, g, k
      <3> QED BY <2>3, <2>4, <2>5, SumScaled
    <2>7. SumFunctionOnSet(f, Chosen) = 2^Limit
      BY <1>1 DEF CodeFacts
    <2>8. 2^max_bits = k * 2^Limit
      <3>1. max_bits = (max_bits - Limit) + Limit
        BY <1>4
      <3>2. 2^((max_bits - Limit) + Limit) = k * 2^Limit
        BY <1>4, <2>2, PowerAdds
      <3> QED BY <3>1, <3>2
    <2>9. SumFunction([n \in Coded |-> WeightOf(n)]) = SumFunctionOnSet(g, Chosen)
      <3>1. [n \in Coded |-> WeightOf(n)] = g
        BY <1>2
      <3>2. DOMAIN g = Chosen
        OBVIOUS
      <3> HIDE DEF g
      <3> QED BY <3>1, <3>2 DEF SumFunction
    <2>10. SumFunction([n \in Coded |-> WeightOf(n)]) = 2^max_bits
      <3> HIDE DEF f, g, k
      <3> QED BY <2>6, <2>7, <2>8, <2>9
    <2> QED BY <2>1, <2>10 DEF CompleteLimitedCode
  <1> QED BY <1>5, <1>6, <1>7, <1>8

\* The lengths, those that were too long shortened, are those of a complete code that counts
\* them, and a more frequent symbol has no longer code, whatever the alphabet, the limit
\* and the frequencies.
THEOREM Completeness == Spec => []CompleteCode
  <1>1. IInv => CompleteCode
    BY CodeIsComplete
  <1> QED BY <1>1, Invariance, PTL

-----------------------------------------------------------------------------
(* What the invariant says of the bits *)

\* A longer code than one bit takes at most half of what one bit takes.
LEMMA HalfOfFirst ==
    ASSUME desc \in Descs, NEW b \in 1..Limit, b # 1
    PROVE  /\ Halves[1] \in Nat /\ Halves[b] \in Nat /\ Halves[b] >= 1
           /\ 2 * Halves[b] <= Halves[1] /\ 2^Limit = 2 * Halves[1]
  <1>1. Limit \in Nat /\ Limit >= 1
    BY DescFacts
  <1>2. b \in 0..Limit /\ 1 \in 0..Limit /\ 0 \in 0..Limit - 1
    BY <1>1
  <1>3. /\ Halves[1] = 2^(Limit - 1) /\ Halves[1] \in Nat
        /\ Halves[b] = 2^(Limit - b) /\ Halves[b] \in Nat /\ Halves[b] >= 1
    BY <1>2, WeightsAre
  <1>4. Limit - b \in Nat /\ b - 2 \in Nat /\ b - 2 + 1 \in Nat /\ Limit - 1 \in Nat
        /\ Limit - 1 = (Limit - b) + (b - 2 + 1) /\ Limit - 1 + 1 = Limit
    BY <1>1
  <1>5. 2^((Limit - b) + (b - 2 + 1)) = 2^(Limit - b) * 2^(b - 2 + 1)
    BY <1>4, PowerAdds
  <1> DEFINE p == 2^(b - 2)
             q == Halves[b]
  <1>6. p \in Nat /\ p >= 1 /\ 2^(b - 2 + 1) = 2 * p
    BY <1>4, PowerOfTwo
  <1>7. Halves[1] = q * (2 * p)
    BY <1>3, <1>4, <1>5, <1>6
  <1>8. q \in Nat
    BY <1>3
  <1>9. 2^Limit = 2 * Halves[1]
    <2>1. 2^(Limit - 1 + 1) = 2 * 2^(Limit - 1)
      BY <1>4, PowerOfTwo
    <2> QED BY <1>3, <1>4, <2>1
  <1>10. 2 * q <= Halves[1]
    <2> HIDE DEF p, q
    <2>1. q * (2 * p) = (2 * q) * p
      BY <1>6, <1>8
    <2>2. (2 * q) * p = 2 * q + (2 * q) * (p - 1)
      BY <1>6, <1>8
    <2>3. p - 1 \in Nat /\ 2 * q \in Nat
      BY <1>6, <1>8
    <2>4. (2 * q) * (p - 1) \in Nat
      BY <2>3
    <2> QED BY <1>7, <2>1, <2>2, <2>3, <2>4
  <1> QED BY <1>3, <1>9, <1>10

\* Two codes have one bit each.
LEMMA TwoCodes ==
    ASSUME desc \in Descs, CodeFacts, Leafs = 2
    PROVE  \A n \in Chosen : dl[n] = 1
  <1>1. IsFiniteSet(Chosen) /\ Cardinality(Chosen) = 2
    BY ChosenFacts DEF Leafs
  <1> SUFFICES ASSUME NEW n \in Chosen, dl[n] # 1 PROVE FALSE
    OBVIOUS
  <1> DEFINE f == [x \in Chosen |-> Halves[dl[x]]]
             one == Halves[1]
  <1>2. \A x \in Chosen : dl[x] \in 1..Limit /\ f[x] = Halves[dl[x]]
    BY DEF CodeFacts
  <1>3. SumFunctionOnSet(f, Chosen) = 2^Limit
    BY DEF CodeFacts
  <1>4. one \in Nat /\ f[n] \in Nat /\ f[n] >= 1 /\ 2 * f[n] <= one /\ 2^Limit = 2 * one
    BY <1>2, HalfOfFirst
  <1>5. \A x \in Chosen : f[x] \in Nat /\ f[x] <= one
    <2> TAKE x \in Chosen
    <2>1. CASE dl[x] = 1
      <3>1. f[x] = one
        BY <1>2, <2>1
      <3> QED BY <1>4, <3>1
    <2>2. CASE dl[x] # 1
      <3>1. Halves[dl[x]] \in Nat /\ 2 * Halves[dl[x]] <= one
        BY <1>2, <2>2, HalfOfFirst
      <3> DEFINE y == Halves[dl[x]]
      <3>2. y \in Nat /\ 2 * y <= one /\ f[x] = y
        BY <1>2, <3>1
      <3> HIDE DEF y, f, one
      <3> QED BY <1>4, <3>2
    <2> QED BY <2>1, <2>2
  <1> HIDE DEF f, one
  <1>6. SumFunctionOnSet(f, Chosen) = f[n] + SumFunctionOnSet(f, Chosen \ {n})
    <2>1. \A x \in Chosen : f[x] \in Int
      BY <1>5
    <2> QED BY <1>1, <2>1, SumTake
  <1>7. IsFiniteSet(Chosen \ {n}) /\ Cardinality(Chosen \ {n}) = 1
    BY <1>1, FS_RemoveElement
  <1>8. PICK m : Chosen \ {n} = {m}
    BY <1>7, FS_Singleton
  <1>9. m \in Chosen /\ f[m] \in Nat /\ f[m] <= one
    BY <1>5, <1>8
  <1>10. SumFunctionOnSet(f, Chosen \ {n}) = f[m]
    <2>1. SumFunctionOnSet(f, {m}) = f[m] + SumFunctionOnSet(f, {m} \ {m})
      <3>1. IsFiniteSet({m}) /\ \A y \in {m} : f[y] \in Int
        BY <1>7, <1>8, <1>9
      <3> QED BY <3>1, SumTake
    <2>2. SumFunctionOnSet(f, {m} \ {m}) = 0
      <3>1. {m} \ {m} = {}
        OBVIOUS
      <3> QED BY <3>1, SumEmpty
    <2> QED BY <1>8, <1>9, <2>1, <2>2
  <1> QED BY <1>3, <1>4, <1>6, <1>9, <1>10

\* The symbols that were forced into the tree.
ForcedSet == {ForcedSymbols[i] : i \in DOMAIN ForcedSymbols}

\* They are not those that occur.
LEMMA ForcedSetIs ==
    ASSUME desc \in Descs
    PROVE  /\ DOMAIN ForcedSymbols = 1..Len(ForcedSymbols) /\ IsFiniteSet(1..Len(ForcedSymbols))
           /\ Chosen = UsedSymbols \cup ForcedSet /\ UsedSymbols \cap ForcedSet = {}
           /\ IsFiniteSet(UsedSymbols) /\ IsFiniteSet(ForcedSet)
           /\ Cardinality(ForcedSet) = Len(ForcedSymbols) /\ Len(ForcedSymbols) \in Nat
           /\ \A n \in ForcedSet : n \in Symbols /\ Freq(n) = 1 /\ desc.extra[n] = 0
           /\ ForcedSet # {} => Leafs = 2
  <1>1. /\ UsedSymbols \subseteq Symbols
        /\ ForcedSymbols \in Seq(Symbols) /\ Len(ForcedSymbols) \in 0..2
        /\ \A i \in 1..Len(ForcedSymbols) :
              ForcedSymbols[i] \in 0..2 /\ ForcedSymbols[i] \notin UsedSymbols
        /\ \A i, j \in 1..Len(ForcedSymbols) : ForcedSymbols[i] = ForcedSymbols[j] => i = j
        /\ Len(ForcedSymbols) # 0 => Cardinality(UsedSymbols) + Len(ForcedSymbols) = 2
    BY ForcedFacts
  <1>2. DOMAIN ForcedSymbols = 1..Len(ForcedSymbols) /\ Len(ForcedSymbols) \in Nat
    BY <1>1
  <1>3. IsFiniteSet(1..Len(ForcedSymbols)) /\ Cardinality(1..Len(ForcedSymbols)) = Len(ForcedSymbols)
    <2> DEFINE k == Len(ForcedSymbols)
    <2>1. 1 \in Int /\ k \in Int /\ k \in Nat
      BY <1>2
    <2> HIDE DEF k
    <2>2. IsFiniteSet(1..k) /\ Cardinality(1..k) = IF 1 > k THEN 0 ELSE k - 1 + 1
      BY <2>1, FS_Interval
    <2>3. Cardinality(1..k) = k
      BY <2>1, <2>2
    <2> QED BY <2>2, <2>3 DEF k
  <1>4. ForcedSet = {ForcedSymbols[i] : i \in 1..Len(ForcedSymbols)}
    BY <1>2 DEF ForcedSet
  <1>5. IsFiniteSet(ForcedSet) /\ Cardinality(ForcedSet) = Len(ForcedSymbols)
    BY <1>1, <1>3, <1>4, ImageCount
  <1>6. Chosen = UsedSymbols \cup ForcedSet
    BY DEF Chosen, ForcedSet
  <1>7. UsedSymbols \cap ForcedSet = {} /\ \A n \in ForcedSet : n \in 0..2 /\ n \notin UsedSymbols
    BY <1>1, <1>4
  <1>8. IsFiniteSet(UsedSymbols)
    BY <1>1, SymbolsFinite
  <1>9. \A n \in ForcedSet : n \in Symbols /\ Freq(n) = 1 /\ desc.extra[n] = 0
    <2>1. \A n \in 0..2 : desc.extra[n] = 0
      BY DescFacts
    <2>2. Chosen \subseteq Symbols
      BY ChosenFacts
    <2> QED BY <1>6, <1>7, <2>1, <2>2 DEF Freq
  <1>10. ForcedSet # {} => Leafs = 2
    <2> HAVE ForcedSet # {}
    <2>1. Len(ForcedSymbols) # 0
      <3>1. PICK i \in 1..Len(ForcedSymbols) : TRUE
        BY <1>4
      <3> QED BY <1>2, <3>1
    <2>2. Leafs = Cardinality(UsedSymbols) + Len(ForcedSymbols)
      BY ChosenFacts
    <2> QED BY <1>1, <2>1, <2>2
  <1> QED BY <1>2, <1>3, <1>5, <1>6, <1>7, <1>8, <1>9, <1>10

\* Symbols that do not occur take no bits.
LEMMA UsedBits ==
    ASSUME desc \in Descs, NEW f, \A n \in Chosen : f[n] \in Int,
           NEW g, \A n \in Symbols : g[n] = IF n \in UsedSymbols THEN f[n] ELSE 0
    PROVE  /\ SumFunctionOnSet(f, Chosen)
                  = SumFunctionOnSet(g, Symbols) + SumFunctionOnSet(f, ForcedSet)
           /\ SumFunctionOnSet(g, Symbols) \in Int
  <1>1. /\ Chosen = UsedSymbols \cup ForcedSet /\ UsedSymbols \cap ForcedSet = {}
        /\ IsFiniteSet(UsedSymbols) /\ IsFiniteSet(ForcedSet)
    BY ForcedSetIs
  <1>2. IsFiniteSet(Symbols) /\ UsedSymbols \in SUBSET Symbols
    BY SymbolsFinite DEF UsedSymbols
  <1>3. SumFunctionOnSet(f, UsedSymbols \cup ForcedSet)
            = SumFunctionOnSet(f, UsedSymbols) + SumFunctionOnSet(f, ForcedSet)
    <2>1. \A y \in UsedSymbols \cup ForcedSet : f[y] \in Int
      BY <1>1
    <2> QED BY <1>1, <2>1, SumUnion
  <1>4. \A n \in Symbols : g[n] \in Int /\ (n \notin UsedSymbols => g[n] = 0)
    BY <1>1
  <1>5. SumFunctionOnSet(g, Symbols) = SumFunctionOnSet(g, UsedSymbols)
    BY <1>2, <1>4, SumOutside
  <1>6. SumFunctionOnSet(g, UsedSymbols) = SumFunctionOnSet(f, UsedSymbols)
    <2>1. \A n \in UsedSymbols : g[n] = f[n]
      BY <1>2
    <2> QED BY <1>1, <2>1, SumAgree
  <1>7. SumFunctionOnSet(g, Symbols) \in Int
    BY <1>2, <1>4, SumInt
  <1> QED BY <1>1, <1>3, <1>5, <1>6, <1>7

\* The bits that were counted are those that the symbols take.
LEMMA BitsAreCounted ==
    ASSUME IInv
    PROVE  LengthsCounted
  <1> SUFFICES ASSUME pc = "done"
               PROVE  /\ opt_len_ = SumFunction(
                              [n \in Symbols |-> desc.freq[n] * (dl[n] + desc.extra[n])])
                      /\ desc.stree # <<>> =>
                            static_len_ = SumFunction(
                                [n \in Symbols |-> desc.freq[n] * (desc.stree[n] + desc.extra[n])])
    BY DEF LengthsCounted
  <1>1. CodeFacts
    BY DEF IInv, CodeInv, CodeFacts
  <1>2. desc \in Descs /\ dl \in [Nodes -> Nat]
    BY DEF IInv, Typed
  <1>3. /\ DOMAIN ForcedSymbols = 1..Len(ForcedSymbols) /\ IsFiniteSet(1..Len(ForcedSymbols))
        /\ Chosen = UsedSymbols \cup ForcedSet /\ IsFiniteSet(ForcedSet)
        /\ Cardinality(ForcedSet) = Len(ForcedSymbols) /\ Len(ForcedSymbols) \in Nat
        /\ \A n \in ForcedSet : n \in Symbols /\ Freq(n) = 1 /\ desc.extra[n] = 0
        /\ ForcedSet # {} => Leafs = 2
    BY <1>2, ForcedSetIs
  <1>4. \A n \in ForcedSet : dl[n] = 1
    BY <1>1, <1>2, <1>3, TwoCodes
  <1>5. /\ \A n \in Symbols : desc.freq[n] \in Nat /\ desc.extra[n] \in Nat /\ Static(n) \in Nat
        /\ \A n \in Chosen : Freq(n) \in Nat /\ n \in Symbols
        /\ \A n \in Symbols : dl[n] \in Nat
    <2>1. \A n \in Symbols : desc.freq[n] \in Nat /\ desc.extra[n] \in Nat /\ Static(n) \in Nat
      BY <1>2, DescFacts
    <2>2. \A n \in Symbols : dl[n] \in Nat
      <3>1. Symbols \subseteq Nodes
        BY NodesAre
      <3> QED BY <1>2, <3>1
    <2> QED BY <1>2, <2>1, <2>2, ChosenFacts
  <1>6. \A n \in UsedSymbols : Freq(n) = desc.freq[n]
    BY DEF Freq
  <1>7. \A n \in Symbols : n \notin UsedSymbols => desc.freq[n] = 0
    BY DEF UsedSymbols
  <1>8. opt_len_ = SumFunction([n \in Symbols |-> desc.freq[n] * (dl[n] + desc.extra[n])])
    <2> DEFINE f == SymbolBits
               g == [n \in Symbols |-> desc.freq[n] * (dl[n] + desc.extra[n])]
    <2>1. \A n \in Chosen : f[n] = Freq(n) * (dl[n] + desc.extra[n])
      BY DEF SymbolBits
    <2>2. \A n \in Chosen : f[n] \in Int
      <3> TAKE n \in Chosen
      <3>1. Freq(n) \in Nat /\ dl[n] \in Nat /\ desc.extra[n] \in Nat
        BY <1>5
      <3>2. Freq(n) * (dl[n] + desc.extra[n]) \in Int
        BY <3>1
      <3> QED BY <2>1, <3>2
    <2>3. \A n \in Symbols : g[n] = IF n \in UsedSymbols THEN f[n] ELSE 0
      <3> TAKE n \in Symbols
      <3>1. g[n] = desc.freq[n] * (dl[n] + desc.extra[n])
        OBVIOUS
      <3>2. CASE n \in UsedSymbols
        BY <1>3, <1>6, <2>1, <3>1, <3>2
      <3>3. CASE n \notin UsedSymbols
        <4>1. desc.freq[n] = 0 /\ dl[n] + desc.extra[n] \in Nat
          BY <1>5, <1>7, <3>3
        <4>2. 0 * (dl[n] + desc.extra[n]) = 0
          BY <4>1
        <4> QED BY <3>1, <3>3, <4>1, <4>2
      <3> QED BY <3>2, <3>3
    <2>4. \A n \in ForcedSet : f[n] = 1
      <3> TAKE n \in ForcedSet
      <3>1. Freq(n) = 1 /\ dl[n] = 1 /\ desc.extra[n] = 0 /\ n \in Chosen
        BY <1>3, <1>4
      <3> QED BY <2>1, <3>1
    <2>5. opt_len_ = SumFunctionOnSet(f, Chosen) - Len(ForcedSymbols)
      BY <1>1 DEF CodeFacts
    <2>6. SumFunction(g) = SumFunctionOnSet(g, Symbols)
      <3>1. DOMAIN g = Symbols
        OBVIOUS
      <3> HIDE DEF g
      <3> QED BY <3>1 DEF SumFunction
    <2> HIDE DEF f, g
    <2>7. /\ SumFunctionOnSet(f, Chosen)
                 = SumFunctionOnSet(g, Symbols) + SumFunctionOnSet(f, ForcedSet)
          /\ SumFunctionOnSet(g, Symbols) \in Int
      BY <1>2, <2>2, <2>3, UsedBits
    <2>8. SumFunctionOnSet(f, ForcedSet) = Len(ForcedSymbols)
      BY <1>3, <2>4, SumOnes
    <2>9. opt_len_ = SumFunction(g)
      BY <1>3, <2>5, <2>6, <2>7, <2>8
    <2> QED BY <2>9 DEF g
  <1>9. ASSUME desc.stree # <<>>
        PROVE  static_len_ = SumFunction(
                   [n \in Symbols |-> desc.freq[n] * (desc.stree[n] + desc.extra[n])])
    <2> DEFINE f == StaticBits
               g == [n \in Symbols |-> desc.freq[n] * (desc.stree[n] + desc.extra[n])]
               s == [i \in DOMAIN ForcedSymbols |-> Static(ForcedSymbols[i])]
               t == [n \in Symbols |-> Static(n)]
    <2>0. \A n \in Symbols : Static(n) = desc.stree[n]
      BY <1>9 DEF Static
    <2>1. \A n \in Chosen : f[n] = Freq(n) * (Static(n) + desc.extra[n])
      BY DEF StaticBits
    <2>2. \A n \in Chosen : f[n] \in Int
      <3> TAKE n \in Chosen
      <3>1. Freq(n) \in Nat /\ Static(n) \in Nat /\ desc.extra[n] \in Nat
        BY <1>5
      <3>2. Freq(n) * (Static(n) + desc.extra[n]) \in Int
        BY <3>1
      <3> QED BY <2>1, <3>2
    <2>3. \A n \in Symbols : g[n] = IF n \in UsedSymbols THEN f[n] ELSE 0
      <3> TAKE n \in Symbols
      <3>1. g[n] = desc.freq[n] * (Static(n) + desc.extra[n])
        BY <2>0
      <3>2. CASE n \in UsedSymbols
        BY <1>3, <1>6, <2>1, <3>1, <3>2
      <3>3. CASE n \notin UsedSymbols
        <4>1. desc.freq[n] = 0 /\ Static(n) + desc.extra[n] \in Nat
          BY <1>5, <1>7, <3>3
        <4>2. 0 * (Static(n) + desc.extra[n]) = 0
          BY <4>1
        <4> QED BY <3>1, <3>3, <4>1, <4>2
      <3> QED BY <3>2, <3>3
    <2>4. \A n \in ForcedSet : f[n] = t[n]
      <3> TAKE n \in ForcedSet
      <3>1. Freq(n) = 1 /\ desc.extra[n] = 0 /\ n \in Chosen /\ n \in Symbols
        BY <1>3
      <3>2. Static(n) \in Nat
        BY <1>5, <3>1
      <3>3. 1 * (Static(n) + 0) = Static(n)
        BY <3>2
      <3>4. t[n] = Static(n)
        BY <3>1
      <3> QED BY <2>1, <3>1, <3>3, <3>4
    <2>5. static_len_ = SumFunctionOnSet(f, Chosen) - ForcedBits
      BY <1>1, <1>9 DEF CodeFacts
    <2>6. SumFunction(g) = SumFunctionOnSet(g, Symbols)
      <3>1. DOMAIN g = Symbols
        OBVIOUS
      <3> HIDE DEF g
      <3> QED BY <3>1 DEF SumFunction
    <2>7. ForcedBits = SumFunctionOnSet(t, ForcedSet)
      <3> DEFINE D == 1..Len(ForcedSymbols)
      <3>1. ForcedSymbols \in Seq(Symbols)
            /\ \A i, j \in D : ForcedSymbols[i] = ForcedSymbols[j] => i = j
        BY <1>2, ForcedFacts
      <3>2. \A i \in D : ForcedSymbols[i] \in Symbols
        BY <3>1
      <3>3. \A i \in D : t[ForcedSymbols[i]] \in Int
        BY <1>5, <3>2
      <3>4. SumFunctionOnSet(s, D) = SumFunctionOnSet([i \in D |-> t[ForcedSymbols[i]]], D)
        <4>1. \A i \in D : s[i] = [j \in D |-> t[ForcedSymbols[j]]][i]
          BY <1>3, <3>2
        <4> HIDE DEF s, t
        <4> QED BY <1>3, <4>1, SumAgree
      <3>5. ForcedSet = {ForcedSymbols[i] : i \in D}
        BY <1>3 DEF ForcedSet
      <3>6. ForcedBits = SumFunctionOnSet(s, D)
        <4>1. ForcedBits = SumFunction(s)
          BY DEF ForcedBits
        <4>2. DOMAIN s = D
          BY <1>3
        <4> HIDE DEF s, D
        <4> QED BY <4>1, <4>2 DEF SumFunction
      <3> HIDE DEF s, t
      <3>7. SumFunctionOnSet([i \in D |-> t[ForcedSymbols[i]]], D)
                = SumFunctionOnSet(t, {ForcedSymbols[i] : i \in D})
        BY <1>3, <3>1, <3>3, Renamed
      <3> QED BY <3>4, <3>5, <3>6, <3>7
    <2> HIDE DEF f, g, t
    <2>8. /\ SumFunctionOnSet(f, Chosen)
                 = SumFunctionOnSet(g, Symbols) + SumFunctionOnSet(f, ForcedSet)
          /\ SumFunctionOnSet(g, Symbols) \in Int
      BY <1>2, <2>2, <2>3, UsedBits
    <2>9. SumFunctionOnSet(f, ForcedSet) = SumFunctionOnSet(t, ForcedSet)
      BY <1>3, <2>4, SumAgree
    <2>10. SumFunctionOnSet(f, ForcedSet) \in Int
      <3>1. \A n \in ForcedSet : f[n] \in Int
        BY <1>3, <2>2
      <3> QED BY <1>3, <3>1, SumInt
    <2>11. static_len_ = SumFunction(g)
      BY <2>5, <2>6, <2>7, <2>8, <2>9, <2>10
    <2> QED BY <2>11 DEF g
  <1> QED BY <1>8, <1>9

\* opt_len_ and static_len_, by which tr_flush_block chooses the kind of a block, are the
\* bits that the symbols take, whatever the alphabet, the limit and the frequencies.
THEOREM Counting == Spec => []LengthsCounted
  <1>1. IInv => LengthsCounted
    BY BitsAreCounted
  <1> QED BY <1>1, Invariance, PTL

-----------------------------------------------------------------------------
(* The checks of inflate_table *)

\* Twice what was left, less the codes of the next length.
LeftIs(g, c, M) ==
    g = [n \in 0..M |-> IF n = 0 THEN 1 ELSE 2 * g[n - 1] - c[n]]

\* There are such numbers for all counts.
LEMMA LeftExists ==
    ASSUME NEW c, NEW M \in Nat
    PROVE  \E g : LeftIs(g, c, M)
  <1> DEFINE Is(g, n) == g = [b \in 0..n |-> IF b = 0 THEN 1 ELSE 2 * g[b - 1] - c[b]]
             T == {n \in Nat : \E g : Is(g, n)}
  <1>1. 0 \in T
    <2> DEFINE z == [b \in 0..0 |-> 1]
    <2>1. \A b \in 0..0 : b = 0
      OBVIOUS
    <2>2. [b \in 0..0 |-> IF b = 0 THEN 1 ELSE 2 * z[b - 1] - c[b]] = z
      BY <2>1
    <2>3. Is(z, 0)
      BY <2>2
    <2> HIDE DEF Is, z
    <2> QED BY <2>3
  <1>2. ASSUME NEW n \in Nat, n \in T PROVE n + 1 \in T
    <2>1. PICK g : Is(g, n)
      BY <1>2
    <2> DEFINE more == [b \in 0..n + 1 |-> IF b = 0 THEN 1 ELSE 2 * g[b - 1] - c[b]]
    <2>2. \A b \in 0..n : b \in 0..n + 1 /\ more[b] = g[b]
      <3>1. \A b \in 0..n : b \in 0..n + 1
        OBVIOUS
      <3>2. \A b \in 0..n : g[b] = IF b = 0 THEN 1 ELSE 2 * g[b - 1] - c[b]
        BY <2>1
      <3> QED BY <3>1, <3>2, Zenon
    <2>3. \A b \in 0..n + 1 : b # 0 => more[b - 1] = g[b - 1]
      <3> HIDE DEF more
      <3> QED BY <2>2
    <2>4. Is(more, n + 1)
      BY <2>3
    <2>5. n + 1 \in Nat
      OBVIOUS
    <2> HIDE DEF more, Is
    <2> QED BY <2>4, <2>5
  <1>3. M \in T
    <2> HIDE DEF T
    <2> QED BY <1>1, <1>2, InductionOnSet
  <1>4. PICK g : Is(g, M)
    BY <1>3
  <1> QED BY <1>4 DEF LeftIs

\* The alphabets and the limits of both sides are the same.
LEMMA SidesAgree ==
    /\ Coded_ = Symbols /\ longest = max_bits
    /\ longest \in Nat /\ longest >= 1
  <1>1. max_bits \in Nat \ {0}
    BY AlphabetAssumption
  <1> QED BY <1>1, SameAlphabet DEF Coded_, Symbols

\* How many symbols have a length.
LEMMA CountsAre ==
    /\ counts = [l \in 0..longest |-> HowMany(lens, Symbols, l)]
    /\ \A l \in 0..longest : counts[l] = HowMany(lens, Symbols, l) /\ counts[l] \in Nat
  <1>1. Coded_ = Symbols /\ longest = max_bits
    BY SidesAgree
  <1>2. counts = [l \in 0..longest |-> HowMany(lens, Symbols, l)]
    BY <1>1, Zenon DEF counts, HowMany
  <1>3. \A l \in 0..longest : counts[l] = HowMany(lens, Symbols, l)
    BY <1>2
  <1>4. ASSUME NEW l PROVE HowMany(lens, Symbols, l) \in Nat
    <2>1. {n \in Symbols : lens[n] = l} \in SUBSET Symbols
      OBVIOUS
    <2>2. IsFiniteSet({n \in Symbols : lens[n] = l})
      BY <2>1, SymbolsFinite
    <2> QED BY <2>2, FS_CardinalityType DEF HowMany
  <1> QED BY <1>2, <1>3, <1>4

\* What is left of the codes of each length.
LEMMA LeftSteps ==
    /\ left[0] = 1
    /\ \A n \in 1..longest : left[n] = 2 * left[n - 1] - counts[n]
    /\ \A n \in 0..longest : left[n] \in Int
  <1> DEFINE g == CHOOSE g : g = [n \in 0..longest |-> IF n = 0 THEN 1 ELSE 2 * g[n - 1] - counts[n]]
  <1>1. left = g
    BY DEF left
  <1>2. longest \in Nat
    BY SidesAgree
  <1>3. LeftIs(g, counts, longest)
    <2>1. \E f : f = [n \in 0..longest |-> IF n = 0 THEN 1 ELSE 2 * f[n - 1] - counts[n]]
      <3>1. \E f : LeftIs(f, counts, longest)
        BY <1>2, LeftExists, Zenon
      <3> QED BY <3>1, Zenon DEF LeftIs
    <2> QED BY <2>1, Zenon DEF LeftIs
  <1> HIDE DEF g
  <1>4. \A n \in 0..longest : g[n] = IF n = 0 THEN 1 ELSE 2 * g[n - 1] - counts[n]
    BY <1>3, Zenon DEF LeftIs
  <1>5. g[0] = 1
    <2>1. 0 \in 0..longest
      BY <1>2
    <2> QED BY <1>4, <2>1
  <1>6. ASSUME NEW n \in 1..longest PROVE g[n] = 2 * g[n - 1] - counts[n]
    <2>1. n \in 0..longest /\ n # 0
      BY <1>2
    <2> QED BY <1>4, <2>1, Zenon
  <1> DEFINE T == {n \in Nat : n <= longest => g[n] \in Int}
  <1>7. 0 \in T
    BY <1>5
  <1>8. ASSUME NEW n \in Nat, n \in T PROVE n + 1 \in T
    <2> SUFFICES ASSUME n + 1 <= longest PROVE g[n + 1] \in Int
      OBVIOUS
    <2>1. n + 1 \in 1..longest /\ n + 1 \in 0..longest /\ n + 1 - 1 = n /\ n <= longest
      BY <1>2
    <2>2. g[n] \in Int /\ counts[n + 1] \in Nat
      BY <1>8, <2>1, CountsAre
    <2>3. g[n + 1] = 2 * g[n] - counts[n + 1]
      BY <1>6, <2>1
    <2> QED BY <2>2, <2>3
  <1>9. Nat \subseteq T
    <2> HIDE DEF T
    <2> QED BY <1>7, <1>8, InductionOnSet
  <1>10. \A n \in 0..longest : g[n] \in Int
    <2> TAKE n \in 0..longest
    <2>1. n \in Nat /\ n <= longest
      BY <1>2
    <2> QED BY <1>9, <2>1
  <1> QED BY <1>1, <1>5, <1>6, <1>10

\* The strings that start with the codes of one length.
Taken == [b \in 1..longest |-> counts[b] * 2^(longest - b)]

\* The strings that start with some code are those of all lengths.
LEMMA GivenByLength ==
    ASSUME lens \in [Symbols -> 0..max_bits]
    PROVE  /\ GivenTotal = SumFunctionOnSet(Taken, 1..longest)
           /\ \A b \in 1..longest : Taken[b] = counts[b] * 2^(longest - b) /\ Taken[b] \in Nat
           /\ \A b \in 1..longest : counts[b] # 0 <=> \E n \in Given : lens[n] = b
           /\ \A n \in Given : lens[n] \in 1..longest
  <1> DEFINE B == 1..longest
             w == [b \in B |-> 2^(longest - b)]
             f == [n \in Given |-> w[lens[n]]]
             k == [b \in B |-> HowMany(lens, Given, b) * w[b]]
  <1>1. longest \in Nat /\ longest = max_bits
    BY SidesAgree
  <1>2. Given \subseteq Symbols /\ IsFiniteSet(Given)
    <2>1. Given \in SUBSET Symbols
      BY DEF Given
    <2> QED BY <2>1, SymbolsFinite
  <1>3. \A n \in Given : lens[n] \in B
    <2> SUFFICES ASSUME NEW n \in Given PROVE lens[n] \in 1..longest
      OBVIOUS
    <2>1. n \in Symbols /\ lens[n] # 0
      BY DEF Given
    <2>2. lens[n] \in 0..max_bits
      BY <2>1
    <2> QED BY <1>1, <2>1, <2>2
  <1>4. IsFiniteSet(B)
    BY <1>1, FS_Interval
  <1>5. \A b \in B : w[b] = 2^(longest - b) /\ w[b] \in Nat
    <2> SUFFICES ASSUME NEW b \in B PROVE w[b] = 2^(longest - b) /\ w[b] \in Nat
      OBVIOUS
    <2>1. longest - b \in Nat
      BY <1>1
    <2>2. 2^(longest - b) \in Nat
      BY <2>1, PowerOfTwo
    <2>3. w[b] = 2^(longest - b)
      OBVIOUS
    <2> HIDE DEF w
    <2> QED BY <2>2, <2>3
  <1>6. \A b \in B : /\ counts[b] = HowMany(lens, Given, b) /\ counts[b] \in Nat
                     /\ counts[b] # 0 <=> \E n \in Given : lens[n] = b
    <2> SUFFICES ASSUME NEW b \in B
                 PROVE  /\ counts[b] = HowMany(lens, Given, b) /\ counts[b] \in Nat
                        /\ counts[b] # 0 <=> \E n \in Given : lens[n] = b
      OBVIOUS
    <2>1. b \in 0..longest /\ b # 0
      BY <1>1
    <2>2. counts[b] = HowMany(lens, Symbols, b) /\ counts[b] \in Nat
      BY <2>1, CountsAre
    <2> DEFINE S == {n \in Given : lens[n] = b}
    <2>3. {n \in Symbols : lens[n] = b} = S
      BY <2>1 DEF Given
    <2>4. counts[b] = Cardinality(S)
      BY <2>2, <2>3 DEF HowMany
    <2>5. IsFiniteSet(S)
      <3>1. S \in SUBSET Given
        OBVIOUS
      <3> HIDE DEF S
      <3> QED BY <1>2, <3>1, SubsetsFinite
    <2>6. Cardinality(S) = 0 <=> S = {}
      BY <2>5, FS_EmptySet
    <2> QED BY <2>2, <2>4, <2>6 DEF HowMany
  <1>7. GivenTotal = SumFunctionOnSet(f, Given)
    <2>1. [n \in Given |-> 2^(longest - lens[n])] = f
      <3>1. \A n \in Given : w[lens[n]] = 2^(longest - lens[n])
        <4> TAKE n \in Given
        <4>1. lens[n] \in B
          BY <1>3
        <4> HIDE DEF w, B
        <4> QED BY <1>5, <4>1
      <3> HIDE DEF w, B
      <3> QED BY <3>1
    <2>2. DOMAIN f = Given
      OBVIOUS
    <2> HIDE DEF f, w, B
    <2> QED BY <2>1, <2>2 DEF GivenTotal, SumFunction
  <1>8. SumFunctionOnSet(f, Given) = SumFunctionOnSet(k, B)
    <2>1. \A b \in B : w[b] \in Int
      BY <1>5
    <2> HIDE DEF w, B
    <2> QED BY <1>2, <1>3, <1>4, <2>1, Grouped
  <1>9. \A b \in B : Taken[b] = counts[b] * 2^(longest - b) /\ Taken[b] \in Nat /\ k[b] = Taken[b]
    <2> SUFFICES ASSUME NEW b \in B
                 PROVE  Taken[b] = counts[b] * 2^(longest - b) /\ Taken[b] \in Nat /\ k[b] = Taken[b]
      OBVIOUS
    <2>1. Taken[b] = counts[b] * 2^(longest - b)
      BY DEF Taken
    <2>2. k[b] = HowMany(lens, Given, b) * w[b]
      OBVIOUS
    <2>3. w[b] = 2^(longest - b) /\ w[b] \in Nat
      BY <1>5
    <2>4. counts[b] = HowMany(lens, Given, b) /\ counts[b] \in Nat
      BY <1>6
    <2> HIDE DEF k, w, B
    <2>5. counts[b] * w[b] \in Nat
      BY <2>3, <2>4
    <2> QED BY <2>1, <2>2, <2>3, <2>4, <2>5
  <1>10. SumFunctionOnSet(k, B) = SumFunctionOnSet(Taken, B)
    <2> HIDE DEF k, B
    <2> QED BY <1>4, <1>9, SumAgree
  <1> QED BY <1>3, <1>6, <1>7, <1>8, <1>9, <1>10

\* What is left of a length are the strings that no code up to it takes.
LEMMA LeftIsFree ==
    ASSUME lens \in [Symbols -> 0..max_bits], NEW n \in 0..longest
    PROVE  /\ 2^(longest - n) * left[n] = 2^longest - SumFunctionOnSet(Taken, 1..n)
           /\ 2^(longest - n) \in Nat /\ 2^(longest - n) >= 1
           /\ SumFunctionOnSet(Taken, 1..n) \in Nat
  <1>1. longest \in Nat
    BY SidesAgree
  <1>2. \A b \in 1..longest : Taken[b] = counts[b] * 2^(longest - b) /\ Taken[b] \in Nat
    BY GivenByLength
  <1> DEFINE Sum(b) == SumFunctionOnSet(Taken, 1..b)
             Free(b) == 2^(longest - b) * left[b] = 2^longest - Sum(b)
             T == {b \in Nat : b <= longest => Free(b)}
  <1>3. ASSUME NEW b \in 0..longest
        PROVE  2^(longest - b) \in Nat /\ 2^(longest - b) >= 1 /\ Sum(b) \in Nat
    <2>1. longest - b \in Nat
      BY <1>1
    <2>2. 2^(longest - b) \in Nat /\ 2^(longest - b) >= 1
      BY <2>1, PowerOfTwo
    <2>3. IsFiniteSet(1..b)
      BY <1>1, FS_Interval
    <2>4. \A x \in 1..b : x \in 1..longest
      BY <1>1
    <2>5. \A x \in 1..b : Taken[x] \in Nat
      BY <1>2, <2>4
    <2>6. SumFunctionOnSet(Taken, 1..b) \in Nat
      BY <2>3, <2>5, SumNat
    <2> QED BY <2>2, <2>6
  <1>4. 0 \in T
    <2>1. 1..0 = {}
      OBVIOUS
    <2>2. Sum(0) = 0
      BY <2>1, SumEmpty
    <2>3. left[0] = 1 /\ longest - 0 = longest
      BY <1>1, LeftSteps
    <2>4. 2^longest \in Nat
      BY <1>1, PowerOfTwo
    <2> DEFINE p == 2^longest
    <2>5. p * 1 = p - 0
      <3>1. p \in Nat
        BY <2>4
      <3> HIDE DEF p
      <3> QED BY <3>1
    <2>6. 2^(longest - 0) * left[0] = 2^longest - Sum(0)
      <3> HIDE DEF Sum
      <3> QED BY <2>2, <2>3, <2>5
    <2> QED BY <2>6
  <1>5. ASSUME NEW b \in Nat, b \in T PROVE b + 1 \in T
    <2> SUFFICES ASSUME b + 1 <= longest PROVE Free(b + 1)
      OBVIOUS
    <2>1. /\ b + 1 \in 1..longest /\ b \in 0..longest /\ b + 1 \in 0..longest
          /\ b + 1 - 1 = b /\ b <= longest /\ longest - (b + 1) \in Nat
          /\ longest - (b + 1) + 1 = longest - b
      BY <1>1
    <2>2. left[b + 1] = 2 * left[b] - counts[b + 1] /\ left[b] \in Int
      BY <2>1, LeftSteps
    <2>3. Taken[b + 1] = counts[b + 1] * 2^(longest - (b + 1)) /\ Taken[b + 1] \in Nat
      BY <1>2, <2>1
    <2>4. counts[b + 1] \in Nat
      BY <2>1, CountsAre
    <2>5. 2^(longest - b) = 2 * 2^(longest - (b + 1)) /\ 2^(longest - (b + 1)) \in Nat
      BY <2>1, PowerOfTwo
    <2>6. Sum(b + 1) = Sum(b) + Taken[b + 1] /\ Sum(b) \in Nat
      <3>1. \A i \in 1..b + 1 : i \in 1..longest
        BY <1>1
      <3>2. \A i \in 1..b + 1 : Taken[i] \in Int
        BY <1>2, <3>1
      <3>3. SumFunctionOnSet(Taken, 1..b + 1) = SumFunctionOnSet(Taken, 1..b) + Taken[b + 1]
        BY <3>2, SumUpTo
      <3> QED BY <1>3, <2>1, <3>3
    <2>7. Free(b)
      BY <1>5, <2>1
    <2> DEFINE q == 2^(longest - (b + 1))
               l == left[b]
               c == counts[b + 1]
               s == Sum(b)
               p == 2^longest
    <2>8. q \in Nat /\ l \in Int /\ c \in Nat /\ s \in Nat /\ p \in Nat
      <3>1. p \in Nat
        BY <1>1, PowerOfTwo
      <3> HIDE DEF p, s
      <3> QED BY <2>2, <2>4, <2>5, <2>6, <3>1 DEF s
    <2>9. (2 * q) * l = p - s
      BY <2>5, <2>7
    <2>10. left[b + 1] = 2 * l - c /\ Sum(b + 1) = s + c * q
      BY <2>2, <2>3, <2>6
    <2> HIDE DEF q, l, c, s, p, Sum
    <2>11. q * (2 * l - c) = p - (s + c * q)
      <3>1. q * (2 * l - c) = (2 * q) * l - c * q
        BY <2>8
      <3>2. c * q \in Int
        BY <2>8
      <3> QED BY <2>8, <2>9, <3>1, <3>2
    <2> QED BY <2>10, <2>11 DEF q, p
  <1>6. Nat \subseteq T
    <2> HIDE DEF T
    <2> QED BY <1>4, <1>5, InductionOnSet
  <1>7. n \in Nat /\ n <= longest
    BY <1>1
  <1>8. Free(n)
    <2>1. n \in T
      BY <1>6, <1>7
    <2> HIDE DEF Free
    <2> QED BY <1>7, <2>1
  <1> QED BY <1>3, <1>8

\* Lengths are over-subscribed when their codes take more strings than there are.
LEMMA OverSubscribedIs ==
    ASSUME lens \in [Symbols -> 0..max_bits]
    PROVE  /\ OverSubscribed <=> GivenTotal > 2^longest
           /\ left[longest] > 0 <=> GivenTotal < 2^longest
           /\ GivenTotal \in Nat /\ 2^longest \in Nat
  <1>1. longest \in Nat /\ longest >= 1
    BY SidesAgree
  <1>2. longest \in 0..longest /\ longest \in 1..longest /\ longest - longest = 0 /\ 2^0 = 1
    BY <1>1
  <1>3. 1 * left[longest] = 2^longest - GivenTotal /\ GivenTotal \in Nat
    <2>1. /\ 2^(longest - longest) * left[longest] = 2^longest - SumFunctionOnSet(Taken, 1..longest)
          /\ SumFunctionOnSet(Taken, 1..longest) \in Nat
      BY <1>2, LeftIsFree
    <2>2. GivenTotal = SumFunctionOnSet(Taken, 1..longest)
      BY GivenByLength
    <2> QED BY <1>2, <2>1, <2>2
  <1>4. 2^longest \in Nat /\ left[longest] \in Int
    BY <1>1, <1>2, PowerOfTwo, LeftSteps
  <1> DEFINE p == 2^longest
  <1>5. left[longest] = p - GivenTotal /\ p \in Nat
    BY <1>3, <1>4
  <1>6. ASSUME NEW l \in 1..longest, left[l] < 0 PROVE left[longest] < 0
    <2> DEFINE T == {n \in Nat : l + n <= longest => left[l + n] < 0}
    <2>1. 0 \in T
      BY <1>6
    <2>2. ASSUME NEW n \in Nat, n \in T PROVE n + 1 \in T
      <3> SUFFICES ASSUME l + (n + 1) <= longest PROVE left[l + (n + 1)] < 0
        OBVIOUS
      <3>1. /\ l + (n + 1) \in 1..longest /\ l + (n + 1) \in 0..longest /\ l + n \in 0..longest
            /\ l + (n + 1) - 1 = l + n /\ l + n <= longest
        BY <1>1
      <3>2. left[l + n] \in Int /\ left[l + n] < 0 /\ counts[l + (n + 1)] \in Nat
        BY <2>2, <3>1, LeftSteps, CountsAre
      <3>3. left[l + (n + 1)] = 2 * left[l + n] - counts[l + (n + 1)]
        BY <3>1, LeftSteps
      <3> QED BY <3>2, <3>3
    <2>3. Nat \subseteq T
      <3> HIDE DEF T
      <3> QED BY <2>1, <2>2, InductionOnSet
    <2>4. longest - l \in Nat /\ l + (longest - l) = longest
      BY <1>1
    <2>5. longest - l \in T
      <3> HIDE DEF T
      <3> QED BY <2>3, <2>4
    <2> QED BY <1>1, <2>4, <2>5
  <1>7. OverSubscribed <=> left[longest] < 0
    BY <1>2, <1>6 DEF OverSubscribed
  <1> HIDE DEF p
  <1>8. /\ left[longest] < 0 <=> GivenTotal > p
        /\ left[longest] > 0 <=> GivenTotal < p
    BY <1>3, <1>4, <1>5
  <1> QED BY <1>3, <1>4, <1>7, <1>8 DEF p

\* The longest length is one bit when no code has more.
LEMMA OnlySingleBits ==
    ASSUME lens \in [Symbols -> 0..max_bits]
    PROVE  /\ LengthsUsed # {} <=> Given # {}
           /\ LengthsUsed # {} => (Max(LengthsUsed) = 1 <=> \A n \in Given : lens[n] = 1)
  <1>1. longest \in Nat
    BY SidesAgree
  <1>2. /\ \A b \in 1..longest : counts[b] # 0 <=> \E n \in Given : lens[n] = b
        /\ \A n \in Given : lens[n] \in 1..longest
    BY GivenByLength
  <1>3. LengthsUsed = {lens[n] : n \in Given}
    BY <1>2 DEF LengthsUsed
  <1>4. ASSUME LengthsUsed # {}
        PROVE  Max(LengthsUsed) = 1 <=> \A n \in Given : lens[n] = 1
    <2>1. LengthsUsed \subseteq 1..longest
      BY DEF LengthsUsed
    <2>2. IsFiniteSet(1..longest)
      BY <1>1, FS_Interval
    <2>3. LengthsUsed \subseteq Nat /\ IsFiniteSet(LengthsUsed)
      <3>1. LengthsUsed \in SUBSET (1..longest)
        BY <2>1
      <3>2. IsFiniteSet(LengthsUsed)
        BY <2>2, <3>1, SubsetsFinite
      <3>3. \A x \in 1..longest : x \in Nat
        BY <1>1
      <3> QED BY <2>1, <3>2, <3>3
    <2>4. Max(LengthsUsed) \in LengthsUsed /\ \A y \in LengthsUsed : y <= Max(LengthsUsed)
      BY <1>4, <2>3, MaxIs
    <2>5. ASSUME Max(LengthsUsed) = 1, NEW n \in Given PROVE lens[n] = 1
      <3>1. lens[n] \in LengthsUsed /\ lens[n] \in 1..longest
        BY <1>2, <1>3
      <3>2. lens[n] <= 1
        BY <2>4, <2>5, <3>1
      <3> QED BY <1>1, <3>1, <3>2
    <2>6. ASSUME \A n \in Given : lens[n] = 1 PROVE Max(LengthsUsed) = 1
      BY <1>3, <2>4, <2>6
    <2> QED BY <2>5, <2>6
  <1> QED BY <1>3, <1>4

\* The checks find what is wrong with the lengths, and nothing else.
LEMMA ChecksAreRight ==
    ASSUME lens \in [Symbols -> 0..max_bits], LengthsUsed # {}
    PROVE  OverSubscribed \/ Incomplete <=> Wrong
  <1>1. /\ OverSubscribed <=> GivenTotal > 2^longest
        /\ left[longest] > 0 <=> GivenTotal < 2^longest
    BY OverSubscribedIs
  <1>2. Max(LengthsUsed) = 1 <=> \A n \in Given : lens[n] = 1
    BY OnlySingleBits
  <1> QED BY <1>1, <1>2 DEF Incomplete, Wrong

\* What inflate_table is given is either lengths from elsewhere or those of the tree that is
\* done, and what came of the checks is right.
TableInv ==
    /\ step \in {"idle", "check", "fill", "ready", "error", "not_enough"}
    /\ step # "idle" =>
          /\ lens \in [Symbols -> 0..max_bits]
          /\ pc = "heap" \/ (pc = "done" /\ lens = [n \in Symbols |-> dl[n]])
    /\ step \notin {"idle", "check"} /\ Given # {} => (step = "error" <=> Wrong)

\* The lengths of a tree that is done are lengths that inflate_table may be given.
LEMMA LengthsAreSent ==
    ASSUME IInv, pc = "done"
    PROVE  [n \in Symbols |-> dl[n]] \in [Symbols -> 0..max_bits]
  <1>1. desc \in Descs /\ (\A n \in Chosen : dl[n] \in 1..Limit)
    BY DEF IInv, Typed, CodeInv
  <1>2. \A n \in Symbols : n \notin Chosen => dl[n] = 0
    BY DEF IInv, ChosenInv
  <1>3. Limit \in 1..max_bits /\ max_bits \in Nat
    BY <1>1, DescFacts
  <1>4. \A n \in Symbols : dl[n] \in 0..max_bits
    <2> TAKE n \in Symbols
    <2>1. CASE n \in Chosen
      <3>1. dl[n] \in 1..Limit
        BY <1>1, <2>1
      <3> QED BY <1>3, <3>1
    <2>2. CASE n \notin Chosen
      BY <1>2, <1>3, <2>2
    <2> QED BY <2>1, <2>2
  <1> QED BY <1>4

\* While its arguments stay, what is wrong with them does.
LEMMA SameLengths ==
    ASSUME lens' = lens, type' = type
    PROVE  Given' = Given /\ Wrong' = Wrong
  <1>1. Given' = Given
    BY DEF Given, Symbols
  <1>2. GivenTotal' = GivenTotal
    BY <1>1 DEF GivenTotal
  <1> QED BY <1>1, <1>2 DEF Wrong

\* The rounds of inflate_table keep the invariant.
LEMMA InflateTableKeeps ==
    ASSUME TableInv, InflateTable, UNCHANGED tree_vars
    PROVE  TableInv'
  <1>1. pc' = pc /\ dl' = dl
    BY DEF tree_vars
  <1>2. lens' = lens /\ type' = type /\ step # "idle" /\ step' # "idle"
    <2>1. CASE NoSymbols
      BY <2>1 DEF NoSymbols, arguments
    <2>2. CASE Refuse
      BY <2>2 DEF Refuse, arguments
    <2>3. CASE Sort
      BY <2>3 DEF Sort, arguments
    <2>4. CASE Enter
      BY <2>4 DEF Enter, arguments
    <2> QED BY <2>1, <2>2, <2>3, <2>4 DEF InflateTable
  <1>3. Given' = Given /\ Wrong' = Wrong
    BY <1>2, SameLengths
  <1>4. /\ lens' \in [Symbols -> 0..max_bits]
        /\ pc' = "heap" \/ (pc' = "done" /\ lens' = [n \in Symbols |-> dl'[n]])
    BY <1>1, <1>2 DEF TableInv
  <1>5. lens \in [Symbols -> 0..max_bits]
    BY <1>2 DEF TableInv
  <1>6. LengthsUsed # {} <=> Given # {}
    BY <1>5, OnlySingleBits
  <1>7. /\ step' \in {"fill", "ready", "error", "not_enough"}
        /\ Given # {} => (step' = "error" <=> Wrong)
    <2>1. CASE NoSymbols
      BY <1>6, <2>1 DEF NoSymbols
    <2>2. CASE Refuse
      <3>1. LengthsUsed # {} /\ (OverSubscribed \/ Incomplete) /\ step' = "error"
        BY <2>2 DEF Refuse
      <3>2. Wrong
        BY <1>5, <3>1, ChecksAreRight
      <3> QED BY <3>1, <3>2
    <2>3. CASE Sort
      <3>1. LengthsUsed # {} /\ ~(OverSubscribed \/ Incomplete) /\ step' \in {"not_enough", "fill"}
        BY <2>3 DEF Sort
      <3>2. ~Wrong
        BY <1>5, <3>1, ChecksAreRight
      <3> QED BY <3>1, <3>2
    <2>4. CASE Enter
      <3>1. step = "fill" /\ step' \in {"not_enough", "fill", "ready"}
        BY <2>4 DEF Enter
      <3>2. Given # {} => ~Wrong
        BY <3>1 DEF TableInv
      <3> QED BY <3>1, <3>2
    <2> QED BY <2>1, <2>2, <2>3, <2>4 DEF InflateTable
  <1> QED BY <1>3, <1>4, <1>7 DEF TableInv

\* Every step keeps it.
LEMMA NextKeepsTable ==
    ASSUME IInv, TableInv, [Next]_vars
    PROVE  TableInv'
  <1>1. CASE step = "idle" /\ BuildTree /\ UNCHANGED table_vars
    <2>1. step' = "idle"
      BY <1>1 DEF table_vars
    <2> QED BY <2>1 DEF TableInv
  <1>2. CASE SendLengths
    <2>1. /\ pc = "done" /\ step' = "check" /\ pc' = pc /\ dl' = dl
          /\ lens' = [n \in Symbols |-> dl[n]]
      BY <1>2 DEF SendLengths, Call, tree_vars
    <2>2. lens' \in [Symbols -> 0..max_bits]
      BY <2>1, LengthsAreSent
    <2> QED BY <2>1, <2>2 DEF TableInv
  <1>3. CASE Arrive
    <2>1. PICK a \in Arrived : Call(a)
      BY <1>3 DEF Arrive
    <2>2. pc' = "heap" /\ step' = "check" /\ lens' = a.lens
      BY <1>3, <2>1 DEF Arrive, Call, tree_vars
    <2>3. a.lens \in [Symbols -> 0..max_bits]
      BY ArrivedAssumption
    <2> QED BY <2>2, <2>3 DEF TableInv
  <1>4. CASE InflateTable /\ UNCHANGED tree_vars
    BY <1>4, InflateTableKeeps
  <1>5. CASE UNCHANGED vars
    <2>1. lens' = lens /\ type' = type /\ step' = step /\ pc' = pc /\ dl' = dl
      BY <1>5 DEF vars, tree_vars, table_vars
    <2>2. Given' = Given /\ Wrong' = Wrong
      BY <2>1, SameLengths
    <2> QED BY <2>1, <2>2 DEF TableInv
  <1> QED BY <1>1, <1>2, <1>3, <1>4, <1>5 DEF Next

\* What inflate_table works on are lengths in range, those of the tree once that is done, and
\* an error is reported for them if and only if they are wrong.
THEOREM TableInvariance == Spec => []TableInv
  <1>1. Init => TableInv
    BY DEF Init, Idle, TableInv
  <1>2. IInv /\ TableInv /\ [Next]_vars => TableInv'
    BY NextKeepsTable
  <1> QED BY <1>1, <1>2, Invariance, PTL DEF Spec

\* Lengths that build_tree made are not wrong.
LEMMA BuiltIsRight ==
    ASSUME IInv, TableInv, pc = "done", step # "idle"
    PROVE  Given # {} /\ ~Wrong
  <1>1. lens = [n \in Symbols |-> dl[n]]
    BY DEF TableInv
  <1>2. desc \in Descs
    BY DEF IInv, Typed
  <1>3. Chosen \subseteq Symbols /\ max_code \in Chosen
    BY <1>2, ChosenFacts DEF IInv, ChosenInv
  <1>4. Coded = Chosen /\ Given = Chosen
    <2>1. Coded = Chosen
      BY CodedAre
    <2>2. \A n \in Symbols : n \in Coded <=> n \in Given
      <3>1. \A n \in Symbols : n \notin Chosen => dl[n] = 0
        BY DEF IInv, ChosenInv
      <3> QED BY <1>1, <2>1, <3>1 DEF Coded, Given
    <2>3. Given \subseteq Symbols
      BY DEF Given
    <2> QED BY <1>3, <2>1, <2>2, <2>3
  <1>5. CompleteLimitedCode
    BY CodeIsComplete DEF CompleteCode
  <1>6. [n \in Given |-> 2^(longest - lens[n])] = [n \in Coded |-> WeightOf(n)]
    <2>1. longest = max_bits
      BY SidesAgree
    <2>2. \A n \in Given : lens[n] = dl[n]
      BY <1>1 DEF Given
    <2> QED BY <1>4, <2>1, <2>2 DEF WeightOf
  <1>7. GivenTotal = 2^longest
    BY <1>5, <1>6, SidesAgree DEF CompleteLimitedCode, GivenTotal
  <1>8. 2^longest \in Nat
    BY SidesAgree, PowerOfTwo
  <1>9. ~Wrong
    <2> DEFINE p == 2^longest
    <2>1. p \in Nat /\ GivenTotal = p
      BY <1>7, <1>8
    <2>2. ~(GivenTotal > p) /\ ~(GivenTotal < p)
      <3> HIDE DEF p
      <3> QED BY <2>1
    <2> QED BY <2>2 DEF Wrong
  <1> QED BY <1>3, <1>4, <1>9

\* inflate_table refuses a set of lengths exactly when it is over-subscribed or incomplete, but
\* for the single code of one bit, whatever the alphabet, the longest length and the lengths;
\* so it accepts those that build_tree made, whatever the frequencies and the limit.
THEOREM Refusals == Spec => []RefusedWhenWrong
  <1>1. IInv /\ TableInv => RefusedWhenWrong
    <2> SUFFICES ASSUME IInv, TableInv PROVE RefusedWhenWrong
      OBVIOUS
    <2>1. SentIsAccepted
      <3> SUFFICES ASSUME pc = "done", step = "error" PROVE FALSE
        BY DEF SentIsAccepted
      <3>1. Given # {} /\ ~Wrong
        BY BuiltIsRight
      <3> QED BY <3>1 DEF TableInv
    <2> QED BY <2>1 DEF TableInv, RefusedWhenWrong
  <1> QED BY <1>1, Invariance, TableInvariance, PTL
=============================================================================
