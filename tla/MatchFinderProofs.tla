-------------------------- MODULE MatchFinderProofs --------------------------
(***************************************************************************)
(* The safety of the match finder, for every input, window, match length,  *)
(* hash and levels: the invariant of MatchFinderInv is inductive.          *)
(***************************************************************************)
EXTENDS MatchFinderInv, FiniteSetTheorems, WellFoundedInduction, TLAPS

\* A set of numbers has a smallest one.
LEMMA Smallest ==
    ASSUME NEW C, C \subseteq Nat, C # {}
    PROVE  \E x \in C : \A y \in C : x <= y
  <1> DEFINE R == OpToRel(<, Nat)
  <1>1. IsWellFoundedOn(R, Nat)
    BY NatLessThanWellFounded
  <1>2. PICK x \in C : \A y \in C : ~ (<<y, x>> \in R)
    <2> HIDE DEF R
    <2> QED BY <1>1, WFMin
  <1>3. \A y \in C : ~(y < x)
    BY <1>2 DEF OpToRel
  <1> QED BY <1>3

\* What holds of 0, and of n + 1 when it holds of n, holds of every number.
LEMMA InductionOnSet ==
    ASSUME NEW T, 0 \in T, \A n \in Nat : n \in T => n + 1 \in T
    PROVE  Nat \subseteq T
  <1> DEFINE C == Nat \ T
  <1>1. SUFFICES ASSUME C # {} PROVE FALSE
    OBVIOUS
  <1>2. PICK x \in C : \A y \in C : x <= y
    <2>1. C \subseteq Nat
      OBVIOUS
    <2> HIDE DEF C
    <2> QED BY <1>1, <2>1, Smallest
  <1>3. x \in Nat /\ x # 0 /\ x \notin T
    BY <1>2
  <1>4. x - 1 \in Nat /\ ~(x <= x - 1) /\ x - 1 + 1 = x
    BY <1>3
  <1>5. x - 1 \in T
    BY <1>2, <1>4
  <1> QED BY <1>3, <1>4, <1>5

\* The operators of FiniteSetsExt on the sets that the search takes them of.
LEMMA MinOfTwo ==
    ASSUME NEW a \in Int, NEW b \in Int
    PROVE  Min({a, b}) = IF a <= b THEN a ELSE b
  <1> DEFINE m == IF a <= b THEN a ELSE b
  <1>1. m \in {a, b} /\ \A y \in {a, b} : m <= y
    OBVIOUS
  <1>2. \A x \in {a, b} : (\A y \in {a, b} : x <= y) => x = m
    OBVIOUS
  <1> HIDE DEF m
  <1>3. Min({a, b}) = m
    BY <1>1, <1>2 DEF Min
  <1> QED BY <1>3 DEF m

\* The larger of two.
LEMMA MaxOfTwo ==
    ASSUME NEW a \in Int, NEW b \in Int
    PROVE  Max({a, b}) = IF a >= b THEN a ELSE b
  <1> DEFINE m == IF a >= b THEN a ELSE b
  <1>1. m \in {a, b} /\ \A y \in {a, b} : m >= y
    OBVIOUS
  <1>2. \A x \in {a, b} : (\A y \in {a, b} : x >= y) => x = m
    OBVIOUS
  <1> HIDE DEF m
  <1>3. Max({a, b}) = m
    BY <1>1, <1>2 DEF Max
  <1> QED BY <1>3 DEF m

\* The smallest of any set of numbers.
LEMMA MinOf ==
    ASSUME NEW C, C \subseteq Nat, C # {}
    PROVE  Min(C) \in C /\ \A y \in C : Min(C) <= y
  <1>1. \E x \in C : \A y \in C : x <= y
    BY Smallest
  <1> QED BY <1>1 DEF Min

-----------------------------------------------------------------------------
(* The hash *)

\* A byte fits in the hash.
LEMMA ByteIsHash ==
    ASSUME NEW a \in Byte
    PROVE  a \in Hashes
  <1>1. 2^byte \in Nat /\ 2^hash_bits \in Nat /\ 2^hash_bits >= 2^byte
    BY HashAssumption
  <1> QED BY <1>1 DEF Hashes, Byte

\* What the assumption on the hash says of given bytes.
LEMMA HashFacts ==
    ASSUME NEW h \in Hashes, NEW a \in Byte, NEW b \in Byte, NEW c \in Byte
    PROVE  /\ update_hash(h, c) \in Hashes
           /\ update_hash(update_hash(update_hash(h, a), b), c) = update_hash(update_hash(a, b), c)
           /\ update_hash(h, b) = update_hash(h, c) => b = c
  BY HashAssumption

\* The input is bytes.
LEMMA TextBytes ==
    ASSUME TypesInv, NEW p \in Nat, p < Len(text)
    PROVE  At(p) \in Byte
  <1>1. text \in Seq(Byte) /\ Len(text) \in Nat /\ p + 1 \in 1..Len(text)
    BY TextsAssumption DEF TypesInv
  <1> QED BY <1>1 DEF At

\* The hash of a string makes the running hash ready for the next one.
LEMMA StringHash ==
    ASSUME TypesInv, NEW p \in Nat, p + 3 <= Len(text)
    PROVE  TextHash(p) \in Hashes /\ Rolls(TextHash(p), p + 1)
  <1>1. Len(text) \in Nat
    BY TextsAssumption DEF TypesInv
  <1>2. At(p) \in Byte /\ At(p + 1) \in Byte /\ At(p + 2) \in Byte
    BY <1>1, TextBytes
  <1>3. At(p) \in Hashes /\ update_hash(At(p), At(p + 1)) \in Hashes
    BY <1>2, HashFacts, ByteIsHash
  <1>4. TextHash(p) \in Hashes
    BY <1>2, <1>3, HashFacts DEF TextHash
  <1>5. ASSUME NEW c \in Byte
        PROVE  update_hash(TextHash(p), c) = update_hash(update_hash(At(p + 1), At(p + 2)), c)
    BY <1>2, <1>3, HashFacts DEF TextHash
  <1>6. p + 1 + 1 = p + 2
    OBVIOUS
  <1> QED BY <1>4, <1>5, <1>6 DEF Rolls

\* Two strings with one hash that agree on two bytes agree on the third.
LEMMA ThirdByte ==
    ASSUME TypesInv, NEW p \in Nat, NEW q \in Nat, p + 3 <= Len(text), q + 3 <= Len(text),
           TextHash(p) = TextHash(q), At(p) = At(q), At(p + 1) = At(q + 1)
    PROVE  At(p + 2) = At(q + 2)
  <1>1. Len(text) \in Nat
    BY TextsAssumption DEF TypesInv
  <1>2. At(p) \in Byte /\ At(p + 1) \in Byte /\ At(p + 2) \in Byte /\ At(q + 2) \in Byte
    BY <1>1, TextBytes
  <1>3. update_hash(At(p), At(p + 1)) \in Hashes
    BY <1>2, HashFacts, ByteIsHash
  <1> QED BY <1>2, <1>3, HashFacts DEF TextHash

\* Strings that repeat each other for three bytes have one hash.
LEMMA SameHash ==
    ASSUME NEW p \in Nat, NEW q \in Nat, \A i \in 0..2 : At(p + i) = At(q + i)
    PROVE  TextHash(p) = TextHash(q)
  <1>1. At(p + 0) = At(q + 0) /\ At(p + 1) = At(q + 1) /\ At(p + 2) = At(q + 2)
    OBVIOUS
  <1>2. p + 0 = p /\ q + 0 = q
    OBVIOUS
  <1> QED BY <1>1, <1>2 DEF TextHash

-----------------------------------------------------------------------------
(* Places in the window, and the slots of prev_ *)

\* How the sizes of the window relate.
LEMMA Sizes ==
    /\ w_size \in Nat /\ w_size > 0 /\ max_match \in Nat /\ max_match > 3 /\ min_match = 3
    /\ kmin_lookahead = max_match + 4 /\ max_dist = w_size - kmin_lookahead
    /\ max_dist \in Nat /\ max_dist > 0 /\ max_dist < w_size /\ window_size = 2 * w_size
    /\ window_size \in Nat
  BY WindowAssumption DEF max_dist, kmin_lookahead, min_match, window_size

\* The slot of prev_ that a place of the window has.
LEMMA Slot ==
    ASSUME NEW p \in Nat, p < window_size
    PROVE  p % w_size = IF p < w_size THEN p ELSE p - w_size
  <1>1. PICK w \in Nat : w = w_size /\ w > 0
    BY Sizes
  <1>2. p < 2 * w
    BY <1>1 DEF window_size
  <1>3. p % w = IF p < w THEN p ELSE p - w
    <2>1. CASE p < w
      BY <1>1, <2>1
    <2>2. CASE p >= w
      <3>1. PICK r \in Nat : r = p - w
        BY <1>1, <2>2
      <3>2. p = r + w /\ r < w
        BY <1>1, <1>2, <3>1
      <3>3. (r + w) % w = r
        BY <1>1, <3>2
      <3> QED BY <2>2, <3>1, <3>2, <3>3
    <2> QED BY <1>1, <2>1, <2>2
  <1> QED BY <1>1, <1>3

\* Places that are less than w_size apart have different slots.
LEMMA Slots ==
    ASSUME NEW p \in Nat, NEW q \in Nat, p < q, q < window_size
    PROVE  /\ p % w_size \in 0..w_size - 1 /\ q % w_size \in 0..w_size - 1
           /\ p + w_size > q => p % w_size # q % w_size
  <1>1. /\ p % w_size = IF p < w_size THEN p ELSE p - w_size
        /\ q % w_size = IF q < w_size THEN q ELSE q - w_size
    BY Sizes, Slot
  <1> QED BY <1>1, Sizes

\* A string that is w_size further has the slot of the one that many before it.
LEMMA SameSlot ==
    ASSUME NEW p \in Nat, p + w_size < window_size
    PROVE  (p + w_size) % w_size = p % w_size
  <1>1. PICK q \in Nat : q = p + w_size
    BY Sizes
  <1>2. q < window_size /\ p < window_size /\ p < w_size /\ ~(q < w_size)
    BY <1>1, Sizes
  <1>3. /\ p % w_size = IF p < w_size THEN p ELSE p - w_size
        /\ q % w_size = IF q < w_size THEN q ELSE q - w_size
    BY <1>2, Slot
  <1>4. p % w_size = p /\ q % w_size = q - w_size /\ q - w_size = p
    BY <1>1, <1>2, <1>3, Sizes
  <1> QED BY <1>1, <1>4

-----------------------------------------------------------------------------
(* Dictionaries *)

\* Below any number that no string has reached, the chains are the same.
LEMMA LeadsFurther ==
    ASSUME NEW b \in Nat, NEW strs, NEW q, NEW h, NEW top \in Nat, NEW more \in Nat,
           strs \subseteq 0..top - 1, strs \subseteq 0..more - 1, Leads(strs, b, q, h, top)
    PROVE  Leads(strs, b, q, h, more)
  <1>1. \A p \in strs : p \in Nat /\ p < top /\ p < more
    OBVIOUS
  <1> QED BY <1>1 DEF Leads

\* A dictionary is as good for any bounds that hold its strings.
LEMMA Within ==
    ASSUME NEW d, NEW b \in Nat, NEW top \in Nat, NEW end \in Nat, DictOK(d, b, top, end),
           NEW more \in Nat, NEW last \in Nat,
           d.strings \subseteq 0..more - 1, \A p \in d.strings : p + 3 <= last
    PROVE  DictOK(d, b, more, last)
  <1>1. \A p \in d.strings : p + min_match <= last
    BY Sizes
  <1>2. \A h \in Hashes : Leads(d.strings, b, d.head[h], h, more)
    BY LeadsFurther DEF DictOK
  <1> QED BY <1>1, <1>2 DEF DictOK

\* So it is while the window is gone along.
LEMMA Further ==
    ASSUME NEW d, NEW b \in Nat, NEW top \in Nat, NEW end \in Nat, DictOK(d, b, top, end),
           NEW more \in Nat, NEW last \in Nat, top <= more, end <= last
    PROVE  DictOK(d, b, more, last)
  <1>1. d.strings \subseteq 0..more - 1 /\ \A p \in d.strings : p + 3 <= last
    BY Sizes DEF DictOK
  <1> QED BY <1>1, Within

\* What comes of the string at str in the window w, and what the search for it starts from.
GoesIn(d, w, b, str, end) ==
    /\ DictOK(insert_string(d, w, str), b, str + 1, end)
    /\ Rolls(insert_string(d, w, str).h, b + (str + 1))
    /\ insert_string(d, w, str).h = TextHash(b + str)
    /\ insert_string(d, w, str).strings = d.strings \cup {str}
    /\ d.head[TextHash(b + str)] \in Nat
    /\ Leads(d.strings, b, d.head[TextHash(b + str)], TextHash(b + str), str)

\* A string goes in where the running hash is ready for it.
LEMMA InsertKeeps ==
    ASSUME TypesInv, NEW d, NEW w, NEW b \in Nat, NEW top \in Nat, NEW end \in Nat,
           NEW str \in Nat, DictOK(d, b, top, end), top <= str, str + 3 <= end,
           end <= window_size, b + end <= Len(text),
           w[str + 2] = At(b + str + 2), Rolls(d.h, b + str)
    PROVE  GoesIn(d, w, b, str, end)
  <1> DEFINE h == TextHash(b + str)
             e == insert_string(d, w, str)
             S == d.strings \cup {str}
  <1>1. DictOK(d, b, str, end)
    BY Further
  <1>2. Len(text) \in Nat /\ b + str \in Nat /\ b + str + 3 <= Len(text)
    BY TextsAssumption DEF TypesInv
  <1>3. h \in Hashes /\ Rolls(h, b + (str + 1))
    <2>1. Rolls(TextHash(b + str), b + str + 1) /\ TextHash(b + str) \in Hashes
      BY <1>2, StringHash
    <2>2. b + str + 1 = b + (str + 1)
      OBVIOUS
    <2> QED BY <2>1, <2>2
  <1>4. update_hash(d.h, w[str + 2]) = h
    <2>1. At(b + str + 2) \in Byte
      BY <1>2, TextBytes
    <2>2. b + str + 2 = (b + str) + 2
      OBVIOUS
    <2> QED BY <2>1 DEF Rolls, TextHash
  <1>5. e = [head |-> [d.head EXCEPT ![h] = str], prev |-> [d.prev EXCEPT ![str % w_size] = d.head[h]],
             h |-> h, strings |-> S]
    <2>1. str + min_match - 1 = str + 2
      BY DEF min_match
    <2> QED BY <1>4, <2>1 DEF insert_string
  <1> HIDE DEF h, e
  <1>6. /\ d.head \in [Hashes -> Nat] /\ d.prev \in [0..w_size - 1 -> Nat]
        /\ d.strings \subseteq 0..str - 1 /\ \A p \in d.strings : p + min_match <= end
        /\ \A g \in Hashes : Leads(d.strings, b, d.head[g], g, str)
        /\ \A p \in d.strings :
              (\A q \in d.strings : q < p + w_size)
                  => Leads(d.strings, b, d.prev[p % w_size], TextHash(b + p), p)
    BY <1>1 DEF DictOK
  <1>7. d.head[h] \in Nat /\ Leads(d.strings, b, d.head[h], h, str)
    BY <1>3, <1>6
  <1>8. str < window_size /\ str % w_size \in 0..w_size - 1
    <2>1. str < window_size
      BY Sizes
    <2>2. str % w_size = IF str < w_size THEN str ELSE str - w_size
      BY <2>1, Slot
    <2> QED BY <2>1, <2>2, Sizes
  <1>9. S \subseteq 0..(str + 1) - 1 /\ \A p \in S : p + min_match <= end
    BY <1>6, Sizes, SMTT(30)
  <1>10. e.head \in [Hashes -> Nat] /\ e.prev \in [0..w_size - 1 -> Nat]
    BY <1>5, <1>6, <1>7
  <1>11. ASSUME NEW g \in Hashes PROVE Leads(S, b, e.head[g], g, str + 1)
    <2>1. \A p \in S : p \in Nat /\ p <= str /\ p < str + 1
      BY <1>6
    <2>2. CASE g = h
      <3>1. e.head[g] = str
        BY <1>3, <1>5, <1>6, <2>2
      <3>2. TextHash(b + str) = g /\ str \in S /\ str < str + 1
        BY <2>2 DEF h
      <3> QED BY <2>1, <3>1, <3>2 DEF Leads
    <2>3. CASE g # h
      <3>1. e.head[g] = d.head[g] /\ Leads(d.strings, b, d.head[g], g, str)
        BY <1>5, <1>6, <2>3
      <3>2. \A p \in S : TextHash(b + p) = g => p \in d.strings /\ p < str
        BY <1>6, <2>3 DEF h
      <3> QED BY <2>1, <3>1, <3>2 DEF Leads
    <2> QED BY <2>2, <2>3
  <1>12. ASSUME NEW p \in S, \A q \in S : q < p + w_size
         PROVE  Leads(S, b, e.prev[p % w_size], TextHash(b + p), p)
    <2>1. CASE p = str
      <3>1. e.prev[p % w_size] = d.head[h] /\ TextHash(b + p) = h
        BY <1>5, <1>6, <1>8, <2>1 DEF h
      <3>2. \A x \in S : x < str => x \in d.strings
        BY Sizes
      <3> QED BY <1>7, <2>1, <3>1, <3>2 DEF Leads
    <2>2. CASE p \in d.strings
      <3>1. p \in Nat /\ p < str
        BY <1>6, <2>2
      <3>2. p % w_size \in 0..w_size - 1 /\ p % w_size # str % w_size
        <4>1. str < p + w_size /\ p + w_size > str
          BY <1>12, <3>1, Sizes
        <4> QED BY <1>8, <3>1, <4>1, Sizes, Slots
      <3>3. e.prev[p % w_size] = d.prev[p % w_size]
        BY <1>5, <1>6, <3>2
      <3>4. Leads(d.strings, b, d.prev[p % w_size], TextHash(b + p), p)
        <4>1. \A q \in d.strings : q < p + w_size
          BY <1>12
        <4> QED BY <1>6, <2>2, <4>1
      <3>5. \A x \in S : x < p => x \in d.strings
        BY <3>1
      <3> QED BY <3>3, <3>4, <3>5 DEF Leads
    <2> QED BY <2>1, <2>2
  <1>13. e.strings = S /\ e.h = h
    BY <1>5
  <1>14. DictOK(e, b, str + 1, end)
    BY <1>9, <1>10, <1>11, <1>12, <1>13 DEF DictOK
  <1> QED BY <1>3, <1>7, <1>13, <1>14 DEF e, h, GoesIn

\* The dictionaries that come of d as the strings from `from' to `to' go in.
InsertedOneByOne(g, d, w, from, to) ==
    g = [str \in from - 1..to |->
            IF str = from - 1 THEN d ELSE insert_string(g[str - 1], w, str)]

\* The function by which Inserted is defined exists.
LEMMA InsertedExists ==
    ASSUME NEW d, NEW w, NEW from \in Nat, NEW to \in Nat, from <= to
    PROVE  \E g : InsertedOneByOne(g, d, w, from, to)
  <1> DEFINE Is(g, m) == InsertedOneByOne(g, d, w, from, from - 1 + m)
             T == {m \in Nat : \E g : Is(g, m)}
  <1>1. 0 \in T
    <2>1. from - 1 + 0 = from - 1
      OBVIOUS
    <2>2. Is([str \in from - 1..from - 1 |-> d], 0)
      BY <2>1 DEF InsertedOneByOne
    <2> QED BY <2>2
  <1>2. ASSUME NEW m \in Nat, m \in T PROVE m + 1 \in T
    <2>1. PICK g : Is(g, m)
      BY <1>2
    <2> DEFINE last == from + m
               f == [str \in from - 1..last |->
                       IF str = last THEN insert_string(g[str - 1], w, str) ELSE g[str]]
    <2>2. ASSUME NEW str \in from - 1..last
          PROVE  f[str] = IF str = from - 1 THEN d ELSE insert_string(f[str - 1], w, str)
      <3>1. CASE str = last
        <4>1. f[str] = insert_string(g[str - 1], w, str) /\ str # from - 1
          BY <3>1
        <4>2. f[str - 1] = g[str - 1]
          <5>1. str - 1 \in from - 1..last /\ str - 1 # last
            BY <3>1
          <5> QED BY <5>1
        <4> QED BY <4>1, <4>2
      <3>2. CASE str # last /\ str # from - 1
        <4>1. str \in from - 1..from - 1 + m /\ str - 1 \in from - 1..last /\ str - 1 # last
          BY <3>2
        <4>2. f[str] = g[str] /\ f[str - 1] = g[str - 1]
          BY <3>2, <4>1
        <4>3. g[str] = insert_string(g[str - 1], w, str)
          BY <2>1, <3>2, <4>1 DEF InsertedOneByOne
        <4> QED BY <3>2, <4>2, <4>3
      <3>3. CASE str = from - 1
        <4>1. str \in from - 1..from - 1 + m /\ str # last
          BY <3>3
        <4>2. f[str] = g[str] /\ g[str] = d
          BY <2>1, <3>3, <4>1 DEF InsertedOneByOne
        <4> QED BY <3>3, <4>2
      <3> QED BY <3>1, <3>2, <3>3
    <2>3. from - 1 + (m + 1) = last
      OBVIOUS
    <2>4. f = [str \in from - 1..last |->
                 IF str = from - 1 THEN d ELSE insert_string(f[str - 1], w, str)]
      <3>1. f = [str \in from - 1..last |-> f[str]]
        OBVIOUS
      <3> HIDE DEF f
      <3> QED BY <2>2, <3>1
    <2>5. InsertedOneByOne(f, d, w, from, last)
      <3> HIDE DEF f
      <3> QED BY <2>4 DEF InsertedOneByOne
    <2>6. Is(f, m + 1)
      BY <2>3, <2>5
    <2> HIDE DEF Is, f
    <2> QED BY <2>6
  <1>3. to - from + 1 \in T
    <2> HIDE DEF T
    <2> QED BY <1>1, <1>2, InductionOnSet
  <1>4. from - 1 + (to - from + 1) = to
    OBVIOUS
  <1>5. PICK g : Is(g, to - from + 1)
    BY <1>3
  <1> QED BY <1>4, <1>5

\* Each string goes in after the one before it.
InsertedInOrder(g, d, w, from, to) ==
    /\ Inserted(d, w, from, to) = g[to] /\ g[from - 1] = d
    /\ \A str \in from..to : g[str] = insert_string(g[str - 1], w, str)

\* Inserted is the last of them.
LEMMA InsertedSteps ==
    ASSUME NEW d, NEW w, NEW from \in Nat, NEW to \in Nat, from <= to
    PROVE  \E g : InsertedInOrder(g, d, w, from, to)
  <1> DEFINE g == CHOOSE g : InsertedOneByOne(g, d, w, from, to)
  <1>1. \E f : InsertedOneByOne(f, d, w, from, to)
    BY InsertedExists, Zenon
  <1>2. InsertedOneByOne(g, d, w, from, to)
    BY <1>1
  <1>3. g = [str \in from - 1..to |->
               IF str = from - 1 THEN d ELSE insert_string(g[str - 1], w, str)]
    BY <1>2 DEF InsertedOneByOne
  <1>4. Inserted(d, w, from, to) = g[to]
    BY DEF Inserted, InsertedOneByOne
  <1> HIDE DEF g
  <1>5. g[from - 1] = d
    BY <1>3
  <1>6. ASSUME NEW str \in from..to PROVE g[str] = insert_string(g[str - 1], w, str)
    <2>1. str \in from - 1..to /\ str # from - 1
      OBVIOUS
    <2> QED BY <1>3, <2>1
  <1> QED BY <1>4, <1>5, <1>6 DEF InsertedInOrder

\* What holds for one string holds for many that follow each other.
LEMMA InsertedKeeps ==
    ASSUME TypesInv, NEW d, NEW w, NEW b \in Nat, NEW end \in Nat,
           NEW from \in Nat, NEW to \in Int, from <= to + 1, to + 3 <= end,
           DictOK(d, b, from, end), end <= window_size, b + end <= Len(text),
           \A i \in 0..end - 1 : w[i] = At(b + i),
           Rolls(d.h, b + from)
    PROVE  /\ DictOK(Inserted(d, w, from, to), b, to + 1, end)
           /\ Rolls(Inserted(d, w, from, to).h, b + (to + 1))
  <1>1. CASE from > to
    <2>1. Inserted(d, w, from, to) = d /\ to + 1 = from
      BY <1>1 DEF Inserted
    <2> QED BY <2>1
  <1>2. CASE from <= to
    <2>1. to \in Nat
      BY <1>2
    <2>2. PICK g : /\ Inserted(d, w, from, to) = g[to] /\ g[from - 1] = d
                   /\ \A str \in from..to : g[str] = insert_string(g[str - 1], w, str)
      <3>1. PICK g : InsertedInOrder(g, d, w, from, to)
        BY <1>2, <2>1, InsertedSteps, Zenon
      <3> QED BY <3>1 DEF InsertedInOrder
    <2> DEFINE Fine(str) == DictOK(g[str], b, str + 1, end) /\ Rolls(g[str].h, b + (str + 1))
               T == {m \in Nat : from - 1 + m <= to => Fine(from - 1 + m)}
    <2>3. 0 \in T
      <3>1. from - 1 + 0 = from - 1 /\ from - 1 + 1 = from
        OBVIOUS
      <3>2. Fine(from - 1)
        BY <2>2, <3>1
      <3> QED BY <3>1, <3>2
    <2>4. ASSUME NEW m \in Nat, m \in T PROVE m + 1 \in T
      <3>1. SUFFICES ASSUME from + m <= to PROVE Fine(from + m)
        <4>1. from - 1 + (m + 1) = from + m
          OBVIOUS
        <4> QED BY <4>1
      <3>2. PICK str \in Nat : str = from + m
        OBVIOUS
      <3>3. str \in from..to /\ str - 1 = from - 1 + m /\ str - 1 + 1 = str /\ str + 3 <= end
        BY <3>1, <3>2
      <3>4. DictOK(g[str - 1], b, str, end) /\ Rolls(g[str - 1].h, b + str)
        <4>1. Fine(from - 1 + m)
          BY <2>4, <3>1
        <4> QED BY <3>3, <4>1
      <3>5. w[str + 2] = At(b + str + 2)
        <4>1. str + 2 \in 0..end - 1 /\ b + (str + 2) = b + str + 2
          BY <3>3
        <4> QED BY <4>1
      <3>6. PICK c : c = g[str - 1]
        OBVIOUS
      <3>7. DictOK(insert_string(c, w, str), b, str + 1, end)
            /\ Rolls(insert_string(c, w, str).h, b + (str + 1))
        <4>1. DictOK(c, b, str, end) /\ Rolls(c.h, b + str) /\ str <= str /\ str + 3 <= end
          BY <3>3, <3>4, <3>6
        <4>2. GoesIn(c, w, b, str, end)
          BY <3>5, <4>1, InsertKeeps, Zenon
        <4> QED BY <4>2 DEF GoesIn
      <3>8. g[str] = insert_string(c, w, str)
        BY <2>2, <3>3, <3>6
      <3> QED BY <3>2, <3>7, <3>8
    <2>5. to - from + 1 \in T
      <3>1. to - from + 1 \in Nat
        BY <1>2
      <3> HIDE DEF T
      <3> QED BY <2>3, <2>4, <3>1, InductionOnSet
    <2>6. from - 1 + (to - from + 1) = to
      BY <1>2
    <2>7. Fine(to)
      BY <2>1, <2>5, <2>6
    <2> QED BY <2>2, <2>7
  <1> QED BY <1>1, <1>2

\* The window slides: the places of the strings do, and those that fall out of it are none.
SlidPlace(q) == IF q >= w_size THEN q - w_size ELSE 0
SlidStrings(strs) == {p - w_size : p \in {q \in strs : q >= w_size}}

\* A link to a string that has fallen out leads nowhere; the others are as they were.
LEMMA LeadsSlid ==
    ASSUME NEW b \in Nat, NEW strs, strs \subseteq Nat, NEW q \in Nat, NEW h, NEW top \in Nat,
           w_size <= top, Leads(strs, b, q, h, top)
    PROVE  Leads(SlidStrings(strs), b + w_size, SlidPlace(q), h, top - w_size)
  <1>1. w_size \in Nat /\ w_size > 0
    BY Sizes
  <1>2. SlidPlace(q) = 0 \/ (/\ SlidPlace(q) \in SlidStrings(strs) /\ SlidPlace(q) < top - w_size
                             /\ TextHash(b + w_size + SlidPlace(q)) = h)
    <2>1. CASE q < w_size
      BY <1>1, <2>1 DEF SlidPlace
    <2>2. CASE q >= w_size
      <3>1. q # 0 /\ q \in strs /\ q < top /\ TextHash(b + q) = h
        BY <1>1, <2>2 DEF Leads
      <3>2. SlidPlace(q) = q - w_size /\ b + w_size + (q - w_size) = b + q
        BY <1>1, <2>2 DEF SlidPlace
      <3>3. q - w_size \in SlidStrings(strs) /\ q - w_size < top - w_size
        BY <1>1, <2>2, <3>1 DEF SlidStrings
      <3> QED BY <3>1, <3>2, <3>3
    <2> QED BY <1>1, <2>1, <2>2
  <1>3. ASSUME NEW p \in SlidStrings(strs), p > 0, p < top - w_size, TextHash(b + w_size + p) = h
        PROVE  p <= SlidPlace(q)
    <2>1. PICK x \in strs : x >= w_size /\ p = x - w_size /\ x \in Nat
      BY DEF SlidStrings
    <2>2. b + w_size + p = b + x /\ x > 0 /\ x < top
      BY <1>1, <1>3, <2>1
    <2>3. x <= q
      BY <1>3, <2>2 DEF Leads
    <2> QED BY <1>1, <2>1, <2>3 DEF SlidPlace
  <1> QED BY <1>2, <1>3 DEF Leads

\* The dictionary that has slid is one for the window that has slid.
LEMMA SlidKeeps ==
    ASSUME NEW b \in Nat, NEW top \in Nat, NEW end \in Nat, w_size <= top, top <= end,
           end <= window_size, DictOK(Dictionary, b, top, end)
    PROVE  DictOK(SlidDictionary, b + w_size, top - w_size, end - w_size)
  <1> DEFINE d == SlidDictionary
             S == SlidStrings(strings)
  <1>1. /\ w_size \in Nat /\ w_size > 0 /\ strings \subseteq 0..top - 1 /\ strings \subseteq Nat
        /\ \A p \in strings : p + 3 <= end
        /\ head_ \in [Hashes -> Nat] /\ prev_ \in [0..w_size - 1 -> Nat]
        /\ \A h \in Hashes : Leads(strings, b, head_[h], h, top)
        /\ \A p \in strings :
              (\A q \in strings : q < p + w_size)
                  => Leads(strings, b, prev_[p % w_size], TextHash(b + p), p)
    BY Sizes DEF DictOK, Dictionary
  <1>2. d.strings = S
    BY DEF SlidDictionary, SlidStrings
  <1>3. /\ d.head \in [Hashes -> Nat] /\ d.prev \in [0..w_size - 1 -> Nat]
        /\ \A h \in Hashes : d.head[h] = SlidPlace(head_[h])
        /\ \A i \in 0..w_size - 1 : d.prev[i] = SlidPlace(prev_[i])
    <2>1. /\ d.head = [h \in Hashes |-> SlidPlace(head_[h])]
          /\ d.prev = [i \in 0..w_size - 1 |-> SlidPlace(prev_[i])]
      BY <1>1 DEF SlidDictionary, Slid, SlidPlace
    <2>2. \A q \in Nat : SlidPlace(q) \in Nat
      BY <1>1 DEF SlidPlace
    <2> QED BY <1>1, <2>1, <2>2
  <1>4. S \subseteq 0..top - w_size - 1 /\ \A p \in S : p + min_match <= end - w_size
    BY <1>1, Sizes DEF SlidStrings
  <1>5. ASSUME NEW h \in Hashes PROVE Leads(S, b + w_size, d.head[h], h, top - w_size)
    <2>1. head_[h] \in Nat /\ Leads(strings, b, head_[h], h, top)
      BY <1>1
    <2>2. Leads(S, b + w_size, SlidPlace(head_[h]), h, top - w_size)
      BY <1>1, <2>1, LeadsSlid
    <2> QED BY <1>3, <2>2
  <1>6. ASSUME NEW p \in S, \A q \in S : q < p + w_size
        PROVE  Leads(S, b + w_size, d.prev[p % w_size], TextHash(b + w_size + p), p)
    <2>1. PICK x \in strings : x >= w_size /\ p = x - w_size /\ x \in Nat
      BY <1>1 DEF SlidStrings
    <2>2. p \in Nat /\ p + w_size = x /\ p < w_size /\ x < window_size
      BY <1>1, <2>1, Sizes
    <2>8. ASSUME NEW q \in strings PROVE q < x + w_size
      <3>1. CASE q < w_size
        BY <1>1, <2>1, <3>1
      <3>2. CASE q >= w_size
        <4>1. q - w_size \in S
          BY <3>2 DEF SlidStrings
        <4> QED BY <1>1, <1>6, <2>1, <4>1
      <3> QED BY <1>1, <3>1, <3>2
    <2>3. x % w_size = p % w_size
      BY <2>2, SameSlot
    <2>4. p % w_size \in 0..w_size - 1
      <3>1. p % w_size = p
        <4>1. p < window_size
          BY <1>1, <2>2, Sizes
        <4> QED BY <2>2, <4>1, Slot
      <3> QED BY <1>1, <2>2, <3>1
    <2>5. prev_[x % w_size] \in Nat /\ Leads(strings, b, prev_[x % w_size], TextHash(b + x), x)
      BY <1>1, <2>2, <2>3, <2>4, <2>8
    <2>6. Leads(S, b + w_size, SlidPlace(prev_[x % w_size]), TextHash(b + x), x - w_size)
      BY <1>1, <2>1, <2>5, LeadsSlid
    <2>7. b + w_size + p = b + x
      BY <1>1, <2>1
    <2> QED BY <1>3, <2>1, <2>3, <2>4, <2>6, <2>7
  <1> QED BY <1>2, <1>3, <1>4, <1>5, <1>6 DEF DictOK

-----------------------------------------------------------------------------
(* Actions *)

\* What the assumptions say of the input and of the level in force.
LEMMA TextTypes ==
    ASSUME TypesInv
    PROVE  /\ text \in Seq(Byte) /\ Len(text) \in Nat
           /\ config.func \in {"fast", "slow", "rle"} /\ config.lazy \in Nat
           /\ config.chain \in Nat /\ config.chain >= 4
           /\ config.good \in Nat /\ config.nice \in Nat
  BY TextsAssumption, SettingsAssumption DEF TypesInv, min_match

\* Where the bytes in the window end, in the window and in the input.
LEMMA EndFacts ==
    ASSUME TypesInv, DataInv
    PROVE  /\ base \in Nat /\ strstart_ \in Nat /\ lookahead_ \in Nat /\ End \in Nat
           /\ End = strstart_ + lookahead_ /\ End <= window_size
           /\ base + End <= Len(text) /\ Len(text) \in Nat
  <1>1. /\ base + End = read /\ read + avail_in <= Len(text) /\ End <= window_size
        /\ Len(text) \in Nat
    BY TextTypes DEF DataInv
  <1>2. /\ base \in Nat /\ strstart_ \in Nat /\ lookahead_ \in Nat /\ read \in Nat
        /\ avail_in \in Nat
    BY DEF TypesInv
  <1>3. read <= Len(text)
    BY <1>1, <1>2
  <1> QED BY <1>1, <1>2, <1>3 DEF End

\* What fill_window makes of the dictionary and of the strings left to insert.
LeftInserted(s, left) ==
    LET d == IF base' = base THEN Dictionary ELSE SlidDictionary
        hashes == avail_in # 0 /\ lookahead_' + left >= 3
        k == IF hashes THEN Min({left, lookahead_' + left - 2}) ELSE 0
    IN  /\ insert_' = left - k
        /\ Becomes(IF hashes
                   THEN Inserted([d EXCEPT !.h = HashOfTwo(window_', s - left)],
                                 window_', s - left, s - left + k - 1)
                   ELSE d)

\* How far fill_window moves things, and what the window holds then.
LEMMA FillEffect ==
    ASSUME TypesInv, DataInv, fill_window
    PROVE  \E s \in Nat, left \in Nat, n \in Nat :
            /\ strstart_' = s /\ s <= strstart_ /\ base' \in Nat /\ base' + s = base + strstart_
            /\ strstart_ > 0 => s > 0
            /\ strstart_ - s = base' - base
            /\ base' = base \/ (base' = base + w_size /\ strstart_ >= w_size)
            /\ left <= s /\ left <= insert_ /\ n <= avail_in
            /\ lookahead_' = lookahead_ + n /\ read' = read + n /\ avail_in' = avail_in - n
            /\ s + lookahead_' <= window_size
            /\ DOMAIN window_' = DOMAIN window_
            /\ \A i \in 0..End' - 1 : window_'[i] = At(base' + i)
            /\ match_start_' = match_start_ - (base' - base)
            /\ LeftInserted(s, left)
  <1> DEFINE slides == strstart_ >= w_size + max_dist
             s == IF slides THEN strstart_ - w_size ELSE strstart_
             left == Min({insert_, s})
             n == Min({avail_in, window_size - lookahead_ - s})
             new == s + lookahead_
  <1>1. /\ strstart_ \in Nat /\ lookahead_ \in Nat /\ insert_ \in Nat /\ base \in Nat
        /\ read \in Nat /\ avail_in \in Nat /\ match_start_ \in Int
        /\ strstart_ + lookahead_ <= window_size /\ base + (strstart_ + lookahead_) = read
    BY DEF TypesInv, DataInv, End
  <1>17. /\ DOMAIN window_ = 0..window_size - 1
         /\ \A i \in 0..strstart_ + lookahead_ - 1 : window_[i] = At(base + i)
    BY <1>1 DEF DataInv, End
  <1>2. s \in Nat /\ s <= strstart_ /\ (strstart_ > 0 => s > 0) /\ s + lookahead_ <= window_size
        /\ (slides => strstart_ >= w_size)
    BY <1>1, Sizes
  <1>3. left \in Nat /\ left <= insert_ /\ left <= s
    <2>1. left = IF insert_ <= s THEN insert_ ELSE s
      BY <1>1, <1>2, MinOfTwo
    <2> QED BY <1>1, <1>2, <2>1
  <1>4. n \in Nat /\ n <= avail_in /\ n <= window_size - lookahead_ - s
    <2>1. window_size - lookahead_ - s \in Int
      BY <1>1, <1>2, Sizes
    <2>2. n = IF avail_in <= window_size - lookahead_ - s THEN avail_in
              ELSE window_size - lookahead_ - s
      BY <1>1, <2>1, MinOfTwo
    <2> HIDE DEF s
    <2> QED BY <1>1, <1>2, <2>1, <2>2, Sizes
  <1>5. /\ strstart_' = s /\ base' = (IF slides THEN base + w_size ELSE base)
        /\ match_start_' = (IF slides THEN match_start_ - w_size ELSE match_start_)
        /\ lookahead_' = lookahead_ + n /\ read' = read + n /\ avail_in' = avail_in - n
    BY DEF fill_window
  <1> DEFINE ahead == lookahead_ + n
             w == [i \in DOMAIN window_ |->
                      CASE i \in new..new + n - 1 -> text[read + i - new + 1]
                        [] slides /\ i < w_size /\ ~(i \in new..new + n - 1) -> window_[i + w_size]
                        [] OTHER -> window_[i]]
             d == IF slides THEN SlidDictionary ELSE Dictionary
             hashes == avail_in # 0 /\ ahead + left >= min_match
             k == IF hashes THEN Min({left, ahead + left - min_match + 1}) ELSE 0
  <1>13. /\ insert_' = left - k
         /\ Becomes(IF hashes THEN Inserted([d EXCEPT !.h = HashOfTwo(w, s - left)], w,
                                            s - left, s - left + k - 1)
                    ELSE d)
    BY DEF fill_window
  <1>14. window_' = w
    BY DEF fill_window
  <1>15. s = (IF slides THEN strstart_ - w_size ELSE strstart_)
         /\ (slides <=> strstart_ >= w_size + max_dist)
    OBVIOUS
  <1>16. new = s + lookahead_
    OBVIOUS
  <1>18. /\ DOMAIN w = DOMAIN window_
         /\ \A i \in DOMAIN window_ :
               /\ i \in new..new + n - 1 => w[i] = text[read + i - new + 1]
               /\ ~(i \in new..new + n - 1) /\ slides /\ i < w_size => w[i] = window_[i + w_size]
               /\ ~(i \in new..new + n - 1) /\ ~(slides /\ i < w_size) => w[i] = window_[i]
    <2> HIDE DEF s, left, n, slides, new
    <2> QED OBVIOUS
  <1> HIDE DEF s, left, n, slides, new, w
  <1>6. w_size \in Nat /\ w_size > 0 /\ base' \in Nat /\ base' + s = base + strstart_
    BY <1>1, <1>2, <1>5, <1>15, Sizes
  <1>7. new \in Nat /\ End' = new + n /\ new + n <= window_size
    BY <1>1, <1>2, <1>4, <1>5, <1>16, Sizes DEF End
  <1>8. ASSUME NEW i \in 0..End' - 1 PROVE window_'[i] = At(base' + i)
    <2>1. i \in Nat /\ i \in DOMAIN window_ /\ i < new + n
      BY <1>7, <1>17, Sizes
    <2>2. CASE i \in new..new + n - 1
      <3>1. window_'[i] = text[read + i - new + 1]
        BY <1>14, <1>18, <2>1, <2>2
      <3>2. PICK b \in Nat : b = base'
        BY <1>6
      <3>3. read = b + new
        <4>1. s \in Nat /\ base + (strstart_ + lookahead_) = read /\ b + s = base + strstart_
          BY <1>1, <1>2, <1>6, <3>2
        <4>2. b + s + lookahead_ = read
          BY <1>1, <4>1
        <4> QED BY ONLY <1>1, <1>16, <4>1, <4>2
      <3>4. read + i - new + 1 = base' + i + 1
        BY <1>1, <1>7, <2>1, <3>2, <3>3
      <3> QED BY <3>1, <3>4 DEF At
    <2>3. CASE i < new /\ slides
      <3>1. ~(i \in new..new + n - 1) /\ i < w_size
        BY <1>1, <1>2, <1>4, <1>7, <1>15, <1>16, <2>1, <2>3, Sizes
      <3>2. window_'[i] = window_[i + w_size]
        BY <1>14, <1>18, <2>1, <2>3, <3>1
      <3>3. i + w_size \in 0..strstart_ + lookahead_ - 1 /\ base + (i + w_size) = base' + i
        BY <1>1, <1>2, <1>5, <1>6, <1>15, <1>16, <2>1, <2>3
      <3>4. window_[i + w_size] = At(base + (i + w_size))
        BY <1>17, <3>3
      <3> QED BY <3>2, <3>3, <3>4
    <2>4. CASE i < new /\ ~slides
      <3>1. ~(i \in new..new + n - 1)
        BY <1>4, <1>7, <2>1, <2>4
      <3>2. window_'[i] = window_[i]
        BY <1>14, <1>18, <2>1, <2>4, <3>1
      <3>3. i \in 0..strstart_ + lookahead_ - 1 /\ base' = base
        BY <1>1, <1>2, <1>5, <1>15, <1>16, <2>1, <2>4
      <3>4. window_[i] = At(base + i)
        BY <1>17, <3>3
      <3> QED BY <3>2, <3>3, <3>4
    <2>5. i \in new..new + n - 1 \/ i < new
      BY <1>4, <1>7, <2>1
    <2> QED BY <2>2, <2>3, <2>4, <2>5
  <1>9. DOMAIN window_' = DOMAIN window_
    BY <1>14, <1>18
  <1>10. s + lookahead_' <= window_size
    BY <1>1, <1>2, <1>4, <1>5, <1>7, <1>16
  <1>11. /\ strstart_ - s = base' - base
         /\ base' = base \/ (base' = base + w_size /\ strstart_ >= w_size)
         /\ match_start_' = match_start_ - (base' - base)
         /\ slides <=> base' # base
    BY <1>1, <1>2, <1>5, <1>6, <1>15
  <1>12. LeftInserted(s, left)
    <2>2. ahead = lookahead_'
      BY <1>5
    <2>3. d = IF base' = base THEN Dictionary ELSE SlidDictionary
      BY <1>11
    <2>4. ahead + left - min_match + 1 = ahead + left - 2
      BY <1>1, <1>3, <1>4 DEF min_match
    <2> HIDE DEF w, ahead
    <2> QED BY <1>13, <1>14, <2>2, <2>3, <2>4 DEF min_match, LeftInserted
  <1> HIDE DEF d, hashes, k, w, ahead
  <1> QED BY <1>2, <1>3, <1>4, <1>5, <1>6, <1>8, <1>9, <1>10, <1>11, <1>12

\* The next dictionary, if it is one that the invariant allows.
LEMMA DictBecomes ==
    ASSUME NEW d, Becomes(d), text' = text, DictOK(d, base', strstart_', End'),
           config'.func # "rle" /\ lookahead_' >= 3 => Rolls(d.h, base' + strstart_')
    PROVE  DictInv'
  <1>1. \A p : At(p)' = At(p)
    BY DEF At
  <1>2. \A p : TextHash(p)' = TextHash(p)
    BY <1>1 DEF TextHash
  <1>3. Dictionary' = [head |-> d.head, prev |-> d.prev, h |-> d.h, strings |-> d.strings]
    BY DEF Dictionary, Becomes
  <1>4. ins_h_' = d.h
    BY DEF Becomes
  <1>5. DictOK(Dictionary, base, strstart_, End)'
    <2>1. DictOK(Dictionary', base', strstart_', End')
      BY <1>3 DEF DictOK
    <2> QED BY <1>2, <2>1 DEF DictOK, Leads
  <1>6. Rolls(d.h, base' + strstart_') => Rolls(ins_h_, base + strstart_)'
    BY <1>1, <1>4 DEF Rolls
  <1> QED BY <1>5, <1>6 DEF DictInv, min_match

\* The dictionary after fill_window.
LEMMA FillDictionary ==
    ASSUME TypesInv, DataInv, InsertInv, DictInv, fill_window, TypesInv', DataInv',
           NEW s \in Nat, NEW left \in Nat, NEW n \in Nat, strstart_' = s,
           base' \in Nat, lookahead_' = lookahead_ + n, base' + s = base + strstart_,
           base' = base \/ (base' = base + w_size /\ strstart_ >= w_size),
           left <= s, left <= insert_, n <= avail_in,
           LeftInserted(s, left)
    PROVE  DictInv' /\ InsertInv'
  <1>1. text' = text /\ config' = config
    BY DEF fill_window
  <1>2. PICK b \in Nat, end \in Nat, ahead \in Nat :
          b = base' /\ ahead = lookahead_' /\ end = s + ahead /\ ahead = lookahead_ + n
    BY DEF TypesInv
  <1>3. /\ strstart_ \in Nat /\ lookahead_ \in Nat /\ insert_ \in Nat /\ avail_in \in Nat
        /\ base \in Nat /\ (insert_ > 0 => insert_ + lookahead_ <= 2)
    BY Sizes DEF TypesInv, InsertInv
  <1>4. PICK d : d = IF b = base THEN Dictionary ELSE SlidDictionary
    OBVIOUS
  <1>5. DictOK(d, b, s, s + lookahead_) /\ d.h = ins_h_
    <2>1. CASE b = base
      <3>1. s = strstart_ /\ s + lookahead_ = End /\ d = Dictionary
        BY <1>2, <1>3, <1>4, <2>1 DEF End
      <3> QED BY <2>1, <3>1 DEF DictInv, Dictionary
    <2>2. CASE b # base
      <3>1. /\ b = base + w_size /\ strstart_ >= w_size /\ d = SlidDictionary
            /\ s = strstart_ - w_size /\ s + lookahead_ = End - w_size
            /\ strstart_ <= End /\ End \in Nat
        <4>1. b = base + w_size /\ strstart_ >= w_size /\ d = SlidDictionary
          BY <1>2, <1>4, <2>2
        <4>2. b + s = base + strstart_ /\ s \in Nat /\ w_size \in Nat /\ b \in Nat
          BY <1>2, Sizes
        <4>3. s = strstart_ - w_size
          BY ONLY <1>3, <4>1, <4>2
        <4>4. End = strstart_ + lookahead_
          BY DEF End
        <4> QED BY ONLY <1>3, <4>1, <4>2, <4>3, <4>4
      <3>2. DictOK(Dictionary, base, strstart_, End) /\ End <= window_size
        BY DEF DictInv, DataInv
      <3>3. DictOK(SlidDictionary, base + w_size, strstart_ - w_size, End - w_size)
        BY <1>3, <3>1, <3>2, SlidKeeps
      <3> QED BY <3>1, <3>3 DEF SlidDictionary
    <2> QED BY <2>1, <2>2
  <1>6. /\ end = End' /\ end <= window_size /\ b + end <= Len(text)
        /\ \A i \in 0..end - 1 : window_'[i] = At(b + i)
    <2>1. end = End'
      BY <1>2 DEF End
    <2>2. b + end = read' /\ read' + avail_in' <= Len(text)
      BY <1>1, <1>2, <2>1 DEF DataInv
    <2>3. Len(text) \in Nat /\ read' \in Nat /\ avail_in' \in Nat
      BY TextTypes DEF TypesInv
    <2>4. end <= window_size
      BY <2>1 DEF DataInv
    <2>5. \A i \in 0..end - 1 : window_'[i] = At(b + i)
      BY <1>1, <1>2, <2>1 DEF DataInv, At
    <2>6. b + end <= Len(text)
      BY <2>2, <2>3
    <2> QED BY <2>1, <2>4, <2>5, <2>6
  <1> DEFINE hashes == avail_in # 0 /\ ahead + left >= 3
             k == IF hashes THEN Min({left, ahead + left - 2}) ELSE 0
             D == IF hashes THEN Inserted([d EXCEPT !.h = HashOfTwo(window_', s - left)],
                                          window_', s - left, s - left + k - 1)
                  ELSE d
  <1>7. insert_' = left - k /\ Becomes(D)
    BY <1>2, <1>4 DEF LeftInserted
  <1>8. hashes => k = IF left <= ahead + left - 2 THEN left ELSE ahead + left - 2
    BY <1>2, MinOfTwo
  <1> HIDE DEF hashes, k
  <1>9. hashes <=> avail_in # 0 /\ ahead + left >= 3
    BY DEF hashes
  <1>10. ~hashes => k = 0
    BY DEF k
  <1>11. k \in Nat /\ k <= left /\ (hashes => k <= ahead + left - 2)
    BY <1>8, <1>9, <1>10
  <1>12. InsertInv'
    <2>1. lookahead_' = ahead /\ insert_' = left - k
      BY <1>2, <1>7
    <2>2. left - k > 0 => left - k + ahead < 3
      <3>1. CASE hashes
        BY <1>8, <1>9, <1>11, <3>1
      <3>2. CASE ~hashes
        BY <1>2, <1>3, <1>9, <1>10, <3>2
      <3> QED BY <3>1, <3>2
    <2> QED BY <2>1, <2>2, Sizes DEF InsertInv
  <1>13. CASE ~hashes
    <2>1. D = d
      BY <1>13
    <2>2. DictOK(d, b, s, end)
      BY <1>2, <1>3, <1>5, Further
    <2>3. ASSUME config'.func # "rle", ahead >= 3 PROVE Rolls(d.h, b + s)
      <3>1. n = 0 /\ ahead = lookahead_
        BY <1>2, <1>3, <1>9, <1>13, <2>3
      <3>2. Rolls(ins_h_, base + strstart_)
        BY <1>1, <2>3, <3>1, Sizes DEF DictInv
      <3> QED BY <1>2, <1>5, <3>2
    <2>4. strstart_' = s /\ End' = end
      BY <1>6
    <2> QED BY <1>1, <1>2, <1>7, <1>12, <2>1, <2>2, <2>3, <2>4, DictBecomes
  <1>14. CASE hashes
    <2> DEFINE from == s - left
               to == s - left + k - 1
               e == [d EXCEPT !.h = HashOfTwo(window_', from)]
    <2>1. from \in Nat /\ to \in Int /\ from <= to + 1 /\ to + 3 <= end
          /\ from + 3 <= end /\ to + 1 <= s /\ to + 1 \in Nat
      BY <1>2, <1>9, <1>11, <1>14
    <2>2. D = Inserted(e, window_', from, to)
      BY <1>14
    <2>3. e.head = d.head /\ e.prev = d.prev /\ e.strings = d.strings
          /\ e.h = HashOfTwo(window_', from)
      BY <1>4 DEF Dictionary, SlidDictionary
    <2> HIDE DEF e, D
    <2>4. DictOK(e, b, from, end)
      <3>1. DictOK(e, b, s, s + lookahead_)
        BY <1>5, <2>3 DEF DictOK
      <3>2. e.strings \subseteq 0..s - 1 /\ \A p \in e.strings : p + 3 <= s + lookahead_
        BY <3>1, Sizes DEF DictOK
      <3>3. left > 0 => left + lookahead_ <= 2
        BY <1>3
      <3>4. e.strings \subseteq 0..from - 1 /\ \A p \in e.strings : p + 3 <= end
        BY <1>2, <1>3, <3>2, <3>3
      <3> QED BY <1>3, <2>1, <3>1, <3>4, Within
    <2>5. Rolls(e.h, b + from)
      <3>1. from \in 0..end - 1 /\ from + 1 \in 0..end - 1
        BY <2>1
      <3>2. window_'[from] = At(b + from) /\ window_'[from + 1] = At(b + (from + 1))
        BY <1>6, <3>1
      <3>3. b + (from + 1) = b + from + 1
        BY <2>1
      <3> QED BY <2>3, <3>2, <3>3 DEF Rolls, HashOfTwo
    <2> HIDE DEF from, to
    <2>6. DictOK(D, b, to + 1, end) /\ Rolls(D.h, b + (to + 1))
      <3>1. PICK w : w = window_'
        OBVIOUS
      <3>2. \A i \in 0..end - 1 : w[i] = At(b + i)
        BY <1>6, <3>1
      <3>3. /\ DictOK(Inserted(e, w, from, to), b, to + 1, end)
            /\ Rolls(Inserted(e, w, from, to).h, b + (to + 1))
        BY <1>6, <2>1, <2>4, <2>5, <3>2, InsertedKeeps
      <3> QED BY <2>2, <3>1, <3>3
    <2>7. DictOK(D, b, s, end)
      BY <2>1, <2>6, Further
    <2>8. ASSUME ahead >= 3 PROVE Rolls(D.h, b + s)
      <3>1. to + 1 = s
        BY <1>8, <1>14, <2>8 DEF to, from
      <3> QED BY <2>6, <3>1
    <2>9. strstart_' = s /\ End' = end
      BY <1>6
    <2> QED BY <1>1, <1>2, <1>7, <1>12, <2>7, <2>8, <2>9, DictBecomes
  <1> QED BY <1>13, <1>14

\* What stays so while neither the input nor the symbols change and the place in it does not.
LEMMA SymbolsStay ==
    ASSUME TypesInv, SymbolsAreText, text' = text, symbol' = symbol,
           match_available_' = match_available_, base' \in Nat, strstart_' \in Nat,
           base' + strstart_' = base + strstart_
    PROVE  SymbolsAreText'
  <1>1. PICK one \in Nat : one = (IF match_available_ THEN 1 ELSE 0)
    BY Zenon
  <1>2. symbol.at + symbol.len = base + strstart_ - one
    BY <1>1, Zenon DEF SymbolsAreText
  <1>3. symbol'.at + symbol'.len = base' + strstart_' - one
    <2>1. base \in Nat /\ strstart_ \in Nat /\ symbol.at \in Nat /\ symbol.len \in Nat
      BY DEF TypesInv
    <2>2. PICK place \in Nat : place = base + strstart_
      BY <2>1
    <2>3. symbol.at + symbol.len = place - one
      BY <1>2, <2>1, <2>2
    <2>4. place = base' + strstart_' /\ symbol' = symbol
      BY <2>2
    <2> QED BY <2>1, <2>3, <2>4
  <1>4. \A x : At(x)' = At(x)
    BY DEF At
  <1>5. \A x, y, z : Repeat(x, y, z)' = Repeat(x, y, z)
    BY DEF Repeat, At
  <1>6. (symbol.len > 0 =>
          IF symbol.dist = 0 THEN symbol.byte = At(symbol.at)
          ELSE /\ symbol.dist \in 1..max_dist
               /\ Repeat(symbol.at, symbol.len, symbol.at - symbol.dist))'
    BY <1>4, <1>5, Zenon DEF SymbolsAreText
  <1>7. symbol'.at + symbol'.len = base' + strstart_' - (IF match_available_' THEN 1 ELSE 0)
    <2>1. one = (IF match_available_' THEN 1 ELSE 0)
      BY <1>1, Zenon
    <2> QED BY <1>3, <2>1, Zenon
  <1> QED BY <1>6, <1>7, Zenon DEF SymbolsAreText

\* A match that is put off stays one.
LEMMA MatchStays ==
    ASSUME TypesInv, MatchInv, text' = text, config' = config,
           match_length_' = match_length_, prev_length_' = prev_length_,
           match_available_' = match_available_, lookahead_' \in Nat, lookahead_' >= lookahead_,
           base' \in Nat, strstart_' \in Nat, match_start_' \in Int,
           base' + strstart_' = base + strstart_, base' + match_start_' = base + match_start_
    PROVE  MatchInv'
  <1>1. PICK a \in Nat, s \in Nat, t \in Int, l \in Nat, m \in Nat, q \in Nat :
          a = base /\ s = strstart_ /\ t = match_start_ /\ l = lookahead_ /\ m = match_length_
          /\ q = prev_length_
    BY DEF TypesInv
  <1>2. PICK b \in Nat, r \in Nat, u \in Int, k \in Nat :
          b = base' /\ r = strstart_' /\ u = match_start_' /\ k = lookahead_'
    OBVIOUS
  <1>3. b + r = a + s /\ b + u = a + t /\ k >= l
    BY <1>1, <1>2
  <1>4. b + r - 1 = a + s - 1 /\ r - 1 - u = s - 1 - t
    BY <1>3
  <1>5. config.func # "slow" => m < min_match /\ q < min_match
    BY <1>1 DEF MatchInv
  <1>6. q >= min_match => q <= k
    <2>1. q >= min_match => q <= l
      BY <1>1 DEF MatchInv
    <2> QED BY <1>3, <2>1
  <1>7. m >= min_match => /\ match_available_ /\ m <= k + 1 /\ r - 1 - u \in 1..max_dist
                          /\ Repeat(b + r - 1, m, b + u)
    <2>1. m >= min_match => /\ match_available_ /\ m <= l + 1 /\ s - 1 - t \in 1..max_dist
                            /\ Repeat(a + s - 1, m, a + t)
      BY <1>1 DEF MatchInv
    <2>2. m <= l + 1 => m <= k + 1
      BY <1>3
    <2> QED BY <1>3, <1>4, <2>1, <2>2
  <1>8. \A x, y, z : Repeat(x, y, z)' = Repeat(x, y, z)
    BY DEF Repeat, At
  <1> QED BY <1>1, <1>2, <1>5, <1>6, <1>7, <1>8 DEF MatchInv

\* fill_window keeps the invariant.
LEMMA FillKeeps ==
    ASSUME IInv, fill_window
    PROVE  IInv'
  <1>1. TypesInv /\ DataInv /\ StageInv /\ InsertInv /\ MatchInv /\ DictInv /\ SymbolsAreText
    BY DEF IInv
  <1>2. PICK s \in Nat, left \in Nat, n \in Nat :
            /\ strstart_' = s /\ s <= strstart_ /\ base' \in Nat /\ base' + s = base + strstart_
            /\ strstart_ > 0 => s > 0
            /\ strstart_ - s = base' - base
            /\ base' = base \/ (base' = base + w_size /\ strstart_ >= w_size)
            /\ left <= s /\ left <= insert_ /\ n <= avail_in
            /\ lookahead_' = lookahead_ + n /\ read' = read + n /\ avail_in' = avail_in - n
            /\ s + lookahead_' <= window_size
            /\ DOMAIN window_' = DOMAIN window_
            /\ \A i \in 0..End' - 1 : window_'[i] = At(base' + i)
            /\ match_start_' = match_start_ - (base' - base)
            /\ LeftInserted(s, left)
    BY <1>1, FillEffect
  <1>3. /\ pc = "fill" /\ text' = text /\ config' = config /\ flush' = flush
        /\ match_length_' = match_length_ /\ prev_length_' = prev_length_
        /\ match_available_' = match_available_ /\ symbol' = symbol /\ search' = NoSearch
        /\ pc' \in {"fill", Filled(lookahead_')}
    BY <1>2 DEF fill_window, symbols
  <1>4. /\ strstart_ \in Nat /\ lookahead_ \in Nat /\ insert_ \in Nat /\ base \in Nat
        /\ read \in Nat /\ avail_in \in Nat /\ match_start_ \in Int
    BY <1>1 DEF TypesInv
  <1>14. /\ strstart_' = s /\ base' \in Nat /\ base' + s = base + strstart_
         /\ n <= avail_in
         /\ lookahead_' = lookahead_ + n /\ read' = read + n /\ avail_in' = avail_in - n
         /\ match_start_' = match_start_ - (base' - base) /\ LeftInserted(s, left)
    BY <1>2
  <1>5. /\ strstart_' \in Nat /\ lookahead_' \in Nat /\ read' \in Nat /\ avail_in' \in Nat
        /\ match_start_' \in Int /\ lookahead_' >= lookahead_
    BY <1>4, <1>14
  <1>15. PICK b \in Nat, ahead \in Nat, rd \in Nat, av \in Nat, ms \in Int :
           b = base' /\ ahead = lookahead_' /\ rd = read' /\ av = avail_in' /\ ms = match_start_'
    BY <1>5, <1>14
  <1>16. b + s = base + strstart_ /\ ahead = lookahead_ + n /\ rd = read + n
         /\ av = avail_in - n /\ ms = match_start_ - (b - base)
    BY <1>14, <1>15
  <1>6. insert_' \in Nat
    <2>1. ahead + left - 2 \in Int
      BY <1>15
    <2>2. PICK hashes \in BOOLEAN : /\ hashes <=> avail_in # 0 /\ ahead + left >= 3
      OBVIOUS
    <2>3. insert_' = left - (IF hashes THEN Min({left, ahead + left - 2}) ELSE 0)
      <3>1. insert_' = left - (IF avail_in # 0 /\ ahead + left >= 3
                               THEN Min({left, ahead + left - 2}) ELSE 0)
        BY <1>14, <1>15 DEF LeftInserted
      <3> QED BY <2>2, <3>1
    <2>4. hashes => Min({left, ahead + left - 2}) =
                      IF left <= ahead + left - 2 THEN left ELSE ahead + left - 2
      BY <2>1, MinOfTwo
    <2>5. PICK m \in Int : m = ahead + left - 2
      BY <2>1
    <2>6. insert_' = left - (IF hashes THEN (IF left <= m THEN left ELSE m) ELSE 0)
      BY <2>3, <2>4, <2>5
    <2>7. hashes => m >= 1
      <3>1. hashes => ahead + left >= 3
        BY <2>2
      <3> QED BY <2>5, <3>1
    <2>8. m <= left => left - m \in Nat
      BY <2>5
    <2>9. CASE hashes /\ ~(left <= m)
      BY <2>5, <2>6, <2>8, <2>9
    <2>10. CASE ~(hashes /\ ~(left <= m))
      BY <2>6, <2>10
    <2> QED BY <2>9, <2>10
  <1>7. TypesInv'
    BY <1>1, <1>2, <1>3, <1>5, <1>6 DEF TypesInv, Filled
  <1>8. DataInv'
    <2>1. End' = s + lookahead_'
      BY <1>2 DEF End
    <2>2. /\ base + strstart_ + lookahead_ = read /\ read + avail_in <= Len(text)
          /\ DOMAIN window_ = 0..window_size - 1 /\ Len(text) \in Nat
      BY <1>1, <1>4, TextTypes DEF DataInv, End
    <2>3. base' + End' = read' /\ read' + avail_in' <= Len(text)
      <3>1. base + strstart_ + lookahead_ = read /\ read + avail_in <= Len(text)
        BY <2>2
      <3>2. Len(text) \in Nat
        BY <2>2
      <3>3. b + (s + ahead) = rd
        BY <1>4, <1>16, <3>1
      <3>4. rd + av = read + avail_in
        BY <1>4, <1>16
      <3> QED BY <1>15, <2>1, <3>1, <3>3, <3>4
    <2>4. \A i \in 0..End' - 1 : window_'[i] = At(base' + i)
      BY <1>2
    <2> QED BY <1>2, <1>3, <2>1, <2>2, <2>3, <2>4 DEF DataInv, At
  <1>9. StageInv'
    BY <1>1, <1>2, <1>3, <1>5 DEF StageInv, Filled
  <1>10. DictInv' /\ InsertInv'
    BY <1>1, <1>2, <1>7, <1>8, FillDictionary
  <1>11. MatchInv'
    <2>1. base' + match_start_' = base + match_start_
      <3>1. b + ms = base + match_start_
        BY <1>4, <1>16
      <3> QED BY <1>15, <3>1
    <2> QED BY <1>1, <1>3, <1>5, <1>14, <2>1, MatchStays
  <1>12. SymbolsAreText'
    BY <1>1, <1>3, <1>5, <1>14, SymbolsStay
  <1>13. LongestFound'
    BY <1>3 DEF LongestFound, NoSearch
  <1> QED BY <1>7, <1>8, <1>9, <1>10, <1>11, <1>12, <1>13 DEF IInv

-----------------------------------------------------------------------------
(* The search *)

\* The strings within reach with the hash of the one that is looked for.
Same == {q \in strings : InReach(q) /\ TextHash(base + q) = TextHash(base + strstart_)}
\* The strings within reach, by their places in the input.
Reached == {base + p : p \in {q \in strings : InReach(q)}}
\* The string at p repeats for longer than best, and for three bytes.
Beats(p, best) == \A i \in Nat : i <= best \/ i < 3 => Equal(p, i)
Repeats(p, len) == \A i \in 0..len - 1 : Equal(p, i)
\* From a string, prev leads to the next older one with its hash.
Linked(prev) ==
    \A m \in Same :
        /\ prev[m % w_size] \in Nat
        /\ prev[m % w_size] = 0 \/ (/\ prev[m % w_size] \in strings /\ prev[m % w_size] < m
                                    /\ TextHash(base + prev[m % w_size]) = TextHash(base + strstart_))
        /\ \A p \in Same : p < m => p <= prev[m % w_size]
\* So many strings have been visited, all of them newer than cur.
Visited(k, cur) ==
    \E T \in SUBSET Reached : IsFiniteSet(T) /\ Cardinality(T) = k /\ \A x \in T : x > base + cur
\* None of the strings newer than cur, or of all of them, is a longer match.
NoneMissed(on, cur, best) ==
    \A p \in Same : strstart_ - p < max_dist /\ (on => p > cur) => ~Beats(p, best)
\* What is so after k rounds of a search.
Progress(rec, k, prev_length) ==
    /\ rec.best \in Nat /\ rec.best >= prev_length /\ rec.on \in BOOLEAN
    /\ rec.start \in Int
    /\ rec.on => rec.cur \in Same
    /\ rec.best > prev_length => rec.start \in Same /\ Repeats(rec.start, rec.best)
    /\ prev_length > 0 /\ config.nice >= max_match /\ rec.best < max_match
           /\ rec.best < lookahead_ => NoneMissed(rec.on, rec.cur, rec.best)
    /\ rec.on => Visited(k, rec.cur)

\* The comparison ends at the first byte from the fourth on that differs.
LEMMA MatchLengthIs ==
    ASSUME NEW m
    PROVE  /\ MatchLength(m) \in Nat /\ MatchLength(m) >= 3 /\ MatchLength(m) <= max_match
           /\ MatchLength(m) = max_match \/ ~Equal(m, MatchLength(m))
           /\ \A i \in Nat : i >= 3 /\ i < MatchLength(m) => Equal(m, i)
  <1> DEFINE C == {i \in min_match..max_match : i = max_match \/ ~Equal(m, i)}
  <1>1. C \subseteq Nat /\ max_match \in C
    BY Sizes
  <1> HIDE DEF C
  <1>2. Min(C) \in C /\ \A y \in C : Min(C) <= y
    BY <1>1, MinOf
  <1>3. MatchLength(m) = Min(C)
    BY DEF MatchLength, C
  <1>4. PICK l \in Nat : l = Min(C)
    BY <1>1, <1>2
  <1>5. l \in C /\ \A y \in C : l <= y
    BY <1>2, <1>4
  <1>6. l >= 3 /\ l <= max_match /\ (l = max_match \/ ~Equal(m, l))
    BY <1>5, Sizes DEF C
  <1>7. ASSUME NEW i \in Nat, i >= 3, i < l PROVE Equal(m, i)
    <2>1. i \notin C
      BY <1>5, <1>7
    <2>2. i \in min_match..max_match
      BY <1>6, <1>7, Sizes
    <2> QED BY <2>1, <2>2 DEF C
  <1> QED BY <1>3, <1>4, <1>6, <1>7

\* What limit leaves within reach of the search.
LEMMA LimitIs ==
    ASSUME TypesInv, NEW p \in Nat
    PROVE  p > limit <=> p > 0 /\ strstart_ - p < max_dist
  <1>1. strstart_ \in Nat /\ strstart_ - max_dist \in Int
    BY Sizes DEF TypesInv
  <1>2. limit = IF 0 >= strstart_ - max_dist THEN 0 ELSE strstart_ - max_dist
    BY <1>1, MaxOfTwo DEF limit
  <1> QED BY <1>1, <1>2, Sizes

\* The bytes that a string has in the window are those of the input.
LEMMA EqualBytes ==
    ASSUME TypesInv, DataInv, NEW p \in Nat, NEW i \in Nat, p <= strstart_, i < lookahead_
    PROVE  Equal(p, i) <=> At(base + p + i) = At(base + strstart_ + i)
  <1>1. base \in Nat /\ strstart_ \in Nat /\ lookahead_ \in Nat /\ End = strstart_ + lookahead_
    BY DEF TypesInv, End
  <1>2. p + i \in 0..End - 1 /\ strstart_ + i \in 0..End - 1
    BY <1>1
  <1>3. window_[p + i] = At(base + (p + i)) /\ window_[strstart_ + i] = At(base + (strstart_ + i))
    BY <1>2 DEF DataInv
  <1>4. base + (p + i) = base + p + i /\ base + (strstart_ + i) = base + strstart_ + i
    BY <1>1
  <1> QED BY <1>3, <1>4 DEF Equal

\* The strings that a search may come to.
LEMMA SamePlaces ==
    ASSUME TypesInv, DictInv, NEW m \in Same
    PROVE  /\ m \in Nat /\ m > 0 /\ m < strstart_ /\ strstart_ - m <= max_dist
           /\ m + 3 <= End /\ m \in strings
           /\ TextHash(base + m) = TextHash(base + strstart_) /\ base + m \in Reached
  <1>1. strings \subseteq 0..strstart_ - 1 /\ \A p \in strings : p + 3 <= End
    BY Sizes DEF DictInv, DictOK, Dictionary
  <1>2. strstart_ \in Nat
    BY DEF TypesInv
  <1> QED BY <1>1, <1>2 DEF Same, InReach, Reached

\* A string with the hash that agrees on two bytes agrees on the third.
LEMMA SameThird ==
    ASSUME TypesInv, DataInv, DictInv, lookahead_ >= 3, NEW m \in Same, Equal(m, 0), Equal(m, 1)
    PROVE  Equal(m, 2)
  <1>1. /\ base \in Nat /\ strstart_ \in Nat /\ lookahead_ \in Nat /\ End = strstart_ + lookahead_
        /\ base + End <= Len(text) /\ Len(text) \in Nat
    BY EndFacts
  <1>2. m \in Nat /\ m < strstart_ /\ TextHash(base + m) = TextHash(base + strstart_)
    BY SamePlaces
  <1>3. /\ At(base + m + 0) = At(base + strstart_ + 0)
        /\ At(base + m + 1) = At(base + strstart_ + 1)
    BY <1>1, <1>2, EqualBytes
  <1>4. PICK p \in Nat, q \in Nat : p = base + m /\ q = base + strstart_
    BY <1>1, <1>2
  <1>5. p + 0 = p /\ q + 0 = q /\ p + 3 <= Len(text) /\ q + 3 <= Len(text)
    BY <1>1, <1>2, <1>4
  <1>6. At(p) = At(q) /\ At(p + 1) = At(q + 1) /\ TextHash(p) = TextHash(q)
    BY <1>2, <1>3, <1>4, <1>5
  <1>7. At(p + 2) = At(q + 2)
    BY <1>5, <1>6, ThirdByte
  <1> QED BY <1>1, <1>2, <1>4, <1>7, EqualBytes

\* Visiting one more string.
LEMMA VisitedNext ==
    ASSUME TypesInv, DictInv, NEW k \in Nat, NEW m \in Same, NEW next \in Nat, next < m,
           Visited(k, m)
    PROVE  Visited(k + 1, next)
  <1>1. PICK T \in SUBSET Reached : IsFiniteSet(T) /\ Cardinality(T) = k /\ \A x \in T : x > base + m
    BY DEF Visited
  <1>2. base \in Nat /\ m \in Nat /\ base + m \in Reached
    BY SamePlaces DEF TypesInv
  <1>3. base + m \notin T
    BY <1>1, <1>2
  <1>4. IsFiniteSet(T \cup {base + m}) /\ Cardinality(T \cup {base + m}) = k + 1
    <2>1. Cardinality(T \cup {base + m}) = Cardinality(T) + 1
      BY <1>1, <1>3, FS_AddElement
    <2> QED BY <1>1, <2>1, FS_AddElement
  <1>5. \A x \in T \cup {base + m} : x > base + next
    <2>1. Reached \subseteq Nat
      <3>1. strings \subseteq Nat
        BY DEF DictInv, DictOK, Dictionary
      <3> QED BY <1>2, <3>1 DEF Reached
    <2>2. \A x \in T : x \in Nat
      BY <2>1
    <2>3. base + m > base + next
      BY <1>2
    <2>4. ASSUME NEW x \in T PROVE x > base + next
      <3>1. x \in Nat /\ x > base + m
        BY <1>1, <2>2
      <3> QED BY <1>2, <2>3, <3>1
    <2> QED BY <2>3, <2>4
  <1>6. T \cup {base + m} \in SUBSET Reached
    BY <1>2
  <1> HIDE DEF Visited
  <1> QED BY <1>4, <1>5, <1>6 DEF Visited

\* Nothing newer than the string that was compared last was missed, and it is no longer match.
LEMMA MissedNext ==
    ASSUME TypesInv, DictInv, NEW prev, Linked(prev), NEW m \in Same, NEW next \in Nat,
           next = prev[m % w_size], NEW best \in Nat, NEW more \in Nat, best <= more,
           NoneMissed(TRUE, m, best), ~Beats(m, more), NEW on \in BOOLEAN,
           ~on => ~(next > limit)
    PROVE  NoneMissed(on, next, more)
  <1>1. SUFFICES ASSUME NEW p \in Same, strstart_ - p < max_dist, on => p > next, Beats(p, more)
                 PROVE  FALSE
    BY DEF NoneMissed
  <1>2. p \in Nat /\ p > 0 /\ m \in Nat
    BY SamePlaces
  <1>3. Beats(p, best)
    <2>1. \A i \in Nat : i <= best => i <= more
      OBVIOUS
    <2> QED BY <1>1, <2>1 DEF Beats
  <1>4. ~(p > m)
    BY <1>1, <1>3 DEF NoneMissed
  <1>5. p # m
    BY <1>1
  <1>6. p < m
    BY <1>2, <1>4, <1>5
  <1>7. p <= next
    BY <1>6 DEF Linked
  <1>8. ~on
    BY <1>1, <1>2, <1>7
  <1>9. p > limit /\ ~(next > limit)
    BY <1>1, <1>2, <1>8, LimitIs
  <1>10. ~(next > 0 /\ strstart_ - next < max_dist)
    BY <1>9, LimitIs
  <1> QED
    <2>1. strstart_ \in Nat /\ max_dist \in Nat
      BY Sizes DEF TypesInv
    <2> QED BY <1>1, <1>2, <1>7, <1>10, <2>1

\* When the comparison says so, the string is a longer match.
LEMMA LongerRepeats ==
    ASSUME TypesInv, DataInv, DictInv, lookahead_ >= 3, NEW m \in Same, Equal(m, 0), Equal(m, 1)
    PROVE  Repeats(m, MatchLength(m))
  <1>1. Equal(m, 2)
    BY SameThird
  <1>2. ASSUME NEW i \in 0..MatchLength(m) - 1 PROVE Equal(m, i)
    <2>1. MatchLength(m) \in Nat /\ i \in Nat /\ i < MatchLength(m)
      BY MatchLengthIs
    <2>2. CASE i >= 3
      BY <2>1, <2>2, MatchLengthIs
    <2>3. CASE i = 0 \/ i = 1 \/ i = 2
      BY <1>1, <2>3
    <2> QED BY <2>1, <2>2, <2>3
  <1> QED BY <1>2 DEF Repeats

\* A string that is a longer match passes the comparison.
LEMMA BeatsIsLonger ==
    ASSUME NEW m, NEW best \in Nat, best > 0, best < max_match, Beats(m, best)
    PROVE  /\ Equal(m, best) /\ Equal(m, best - 1) /\ Equal(m, 0) /\ Equal(m, 1)
           /\ MatchLength(m) > best
  <1>1. \A i \in Nat : i <= best \/ i < 3 => Equal(m, i)
    BY DEF Beats
  <1>2. Equal(m, best) /\ Equal(m, best - 1) /\ Equal(m, 0) /\ Equal(m, 1)
    BY <1>1
  <1>3. MatchLength(m) \in Nat /\ (MatchLength(m) = max_match \/ ~Equal(m, MatchLength(m)))
    BY MatchLengthIs
  <1>4. ~(MatchLength(m) <= best)
    BY <1>1, <1>3, Sizes
  <1> QED BY <1>2, <1>3, <1>4

\* A match as long as it can be leaves none that is longer.
LEMMA LongestBeaten ==
    ASSUME NEW m, MatchLength(m) < max_match
    PROVE  ~Beats(m, MatchLength(m))
  <1>1. MatchLength(m) \in Nat /\ (MatchLength(m) = max_match \/ ~Equal(m, MatchLength(m)))
    BY MatchLengthIs
  <1>2. MatchLength(m) # max_match
    BY <1>1, Sizes
  <1> QED BY <1>1, <1>2 DEF Beats

\* One round of the search.
LEMMA CandidateKeeps ==
    ASSUME TypesInv, DataInv, DictInv, lookahead_ >= 3, NEW prev, Linked(prev), NEW rec,
           NEW k \in Nat, NEW prev_length \in Nat, Progress(rec, k, prev_length), rec.on = TRUE,
           NEW nice \in Nat,
           config.nice >= max_match => nice >= max_match \/ nice >= lookahead_
    PROVE  Progress(Candidate(rec, prev, nice), k + 1, prev_length)
  <1>1. PICK m \in Same, best \in Nat, start \in Int :
          m = rec.cur /\ best = rec.best /\ start = rec.start
    BY DEF Progress
  <1>2. PICK L \in Nat, next \in Nat : L = MatchLength(m) /\ next = prev[m % w_size]
    BY MatchLengthIs DEF Linked
  <1>3. PICK longer \in BOOLEAN :
          longer <=> /\ Equal(m, best) /\ Equal(m, best - 1) /\ Equal(m, 0) /\ Equal(m, 1)
                     /\ L > best
    OBVIOUS
  <1>4. PICK on \in BOOLEAN : on <=> ~(longer /\ L >= nice) /\ next > limit
    OBVIOUS
  <1>5. PICK c : c = Candidate(rec, prev, nice)
    OBVIOUS
  <1>6. /\ c.cur = next /\ c.start = (IF longer THEN m ELSE start)
        /\ c.best = (IF longer THEN L ELSE best) /\ c.on = on
    BY <1>1, <1>2, <1>3, <1>4, <1>5 DEF Candidate
  <1>7. /\ next \in Nat
        /\ next = 0 \/ (/\ next \in strings /\ next < m
                        /\ TextHash(base + next) = TextHash(base + strstart_))
    BY <1>2 DEF Linked
  <1>8. on => next \in Same /\ next < m
    <2>1. on => next > 0 /\ strstart_ - next < max_dist
      BY <1>4, <1>7, LimitIs
    <2>2. on => strstart_ - next <= max_dist
      <3>1. strstart_ \in Nat /\ max_dist \in Nat
        BY Sizes DEF TypesInv
      <3> QED BY <1>7, <2>1, <3>1
    <2>3. on => InReach(next)
      BY <2>1, <2>2 DEF InReach
    <2>4. on => next # 0
      BY <1>7, <2>1
    <2> QED BY <1>7, <2>3, <2>4 DEF Same
  <1>9. PICK b \in Nat : b = c.best /\ (longer => b = L) /\ (~longer => b = best)
    BY <1>6
  <1>10. b >= best /\ best >= prev_length /\ b >= prev_length
    <2>1. best >= prev_length
      BY <1>1 DEF Progress
    <2> QED BY <1>3, <1>9, <2>1
  <1>11. ASSUME b > prev_length PROVE c.start \in Same /\ Repeats(c.start, b)
    <2>1. CASE longer
      BY <1>2, <1>3, <1>6, <1>9, <2>1, LongerRepeats
    <2>2. CASE ~longer
      <3>1. start \in Same /\ Repeats(start, best)
        BY <1>1, <1>9, <1>11, <2>2 DEF Progress
      <3> QED BY <1>6, <1>9, <2>2, <3>1
    <2> QED BY <2>1, <2>2
  <1>12. ASSUME prev_length > 0, config.nice >= max_match, b < max_match, b < lookahead_
         PROVE  NoneMissed(on, next, b)
    <2>1. max_match \in Nat /\ lookahead_ \in Nat
      BY Sizes DEF TypesInv
    <2>2. best < max_match /\ best < lookahead_ /\ best > 0
      BY <1>10, <1>12, <2>1
    <2>3. NoneMissed(TRUE, m, best)
      BY <1>1, <1>12, <2>2 DEF Progress
    <2>4. ~Beats(m, b)
      <3>1. CASE longer
        BY <1>2, <1>9, <1>12, <3>1, LongestBeaten
      <3>2. CASE ~longer
        BY <1>2, <1>3, <1>9, <2>2, <3>2, BeatsIsLonger
      <3> QED BY <3>1, <3>2
    <2>5. ~(longer /\ L >= nice)
      <3>1. nice >= max_match \/ nice >= lookahead_
        BY <1>12
      <3> QED BY <1>9, <1>12, <2>1, <3>1
    <2>6. ~on => ~(next > limit)
      BY <1>4, <2>5
    <2> QED BY <1>2, <1>7, <1>10, <2>3, <2>4, <2>6, MissedNext
  <1>13. c.start \in Int
    <2>1. start \in Int /\ m \in Int
      BY <1>1, SamePlaces DEF Progress
    <2> QED BY <1>6, <2>1
  <1>14. ASSUME on PROVE Visited(k + 1, next)
    <2>1. Visited(k, m)
      BY <1>1 DEF Progress
    <2> QED BY <1>7, <1>8, <1>14, <2>1, VisitedNext
  <1> QED BY <1>5, <1>6, <1>8, <1>9, <1>10, <1>11, <1>12, <1>13, <1>14 DEF Progress

\* The rounds of a search, one after the other.
SearchRounds(g, cur_match, prev, prev_length, n) ==
    g = [k \in 0..n |->
            IF k = 0 THEN [cur |-> cur_match, start |-> match_start_,
                           best |-> prev_length, on |-> TRUE]
            ELSE LET before == g[k - 1]
                 IN  IF before.on THEN Candidate(before, prev, Min({config.nice, lookahead_}))
                     ELSE before]

\* The function by which longest_match is defined exists.
LEMMA SearchExists ==
    ASSUME NEW cur_match, NEW prev, NEW prev_length, NEW n \in Nat
    PROVE  \E g : SearchRounds(g, cur_match, prev, prev_length, n)
  <1> DEFINE First == [cur |-> cur_match, start |-> match_start_, best |-> prev_length, on |-> TRUE]
             Step(before) == IF before.on THEN Candidate(before, prev, Min({config.nice, lookahead_}))
                             ELSE before
             Is(g, m) == g = [k \in 0..m |-> IF k = 0 THEN First ELSE Step(g[k - 1])]
             T == {m \in Nat : \E g : Is(g, m)}
  <1>1. \A g, m : Is(g, m) <=> SearchRounds(g, cur_match, prev, prev_length, m)
    BY DEF SearchRounds
  <1> HIDE DEF First, Step
  <1>2. 0 \in T
    <2>1. Is([k \in 0..0 |-> First], 0)
      OBVIOUS
    <2> QED BY <2>1
  <1>3. ASSUME NEW m \in Nat, m \in T PROVE m + 1 \in T
    <2>1. PICK g : Is(g, m)
      BY <1>3
    <2>2. \A k \in 0..m : g[k] = IF k = 0 THEN First ELSE Step(g[k - 1])
      BY <2>1
    <2> DEFINE f == [k \in 0..m + 1 |-> IF k = m + 1 THEN Step(g[m]) ELSE g[k]]
    <2>3. ASSUME NEW k \in 0..m + 1
          PROVE  f[k] = IF k = 0 THEN First ELSE Step(f[k - 1])
      <3>1. CASE k = m + 1
        <4>1. f[k] = Step(g[m]) /\ k # 0 /\ k - 1 = m
          BY <3>1
        <4>2. f[m] = g[m]
          OBVIOUS
        <4> HIDE DEF f
        <4> QED BY <4>1, <4>2
      <3>2. CASE k # m + 1
        <4>1. k \in 0..m /\ f[k] = g[k]
          BY <3>2
        <4>2. k # 0 => f[k - 1] = g[k - 1]
          BY <4>1
        <4> HIDE DEF f
        <4> QED BY <2>2, <4>1, <4>2
      <3> QED BY <3>1, <3>2
    <2>4. f = [k \in 0..m + 1 |-> f[k]]
      OBVIOUS
    <2> HIDE DEF f
    <2>5. Is(f, m + 1)
      BY <2>3, <2>4
    <2> QED BY <2>5
  <1>4. n \in T
    <2> HIDE DEF T
    <2> QED BY <1>2, <1>3, InductionOnSet
  <1>5. PICK g : Is(g, n)
    BY <1>4
  <1> HIDE DEF Is
  <1> QED BY <1>1, <1>5

\* Each round follows from the one before it.
SearchInOrder(g, cur_match, prev, prev_length, n) ==
    /\ longest_match(cur_match, prev, prev_length) =
          [start |-> g[n].start, length |-> Min({g[n].best, lookahead_})]
    /\ g[0] = [cur |-> cur_match, start |-> match_start_, best |-> prev_length, on |-> TRUE]
    /\ \A k \in 1..n : g[k] = IF g[k - 1].on
                              THEN Candidate(g[k - 1], prev, Min({config.nice, lookahead_}))
                              ELSE g[k - 1]

\* longest_match returns what the last round has found.
LEMMA SearchSteps ==
    ASSUME NEW cur_match, NEW prev, NEW prev_length, ChainLength(prev_length) \in Nat
    PROVE  \E g : SearchInOrder(g, cur_match, prev, prev_length, ChainLength(prev_length))
  <1> DEFINE n == ChainLength(prev_length)
             g == CHOOSE g : SearchRounds(g, cur_match, prev, prev_length, n)
  <1>1. \E f : SearchRounds(f, cur_match, prev, prev_length, n)
    BY SearchExists, Zenon
  <1>2. SearchRounds(g, cur_match, prev, prev_length, n)
    BY <1>1
  <1>3. longest_match(cur_match, prev, prev_length) =
          [start |-> g[n].start, length |-> Min({g[n].best, lookahead_})]
    BY DEF longest_match, SearchRounds
  <1> HIDE DEF g, n
  <1>4. g = [k \in 0..n |->
            IF k = 0 THEN [cur |-> cur_match, start |-> match_start_,
                           best |-> prev_length, on |-> TRUE]
            ELSE LET before == g[k - 1]
                 IN  IF before.on THEN Candidate(before, prev, Min({config.nice, lookahead_}))
                     ELSE before]
    BY <1>2 DEF SearchRounds
  <1>5. n \in Nat
    BY DEF n
  <1>6. g[0] = [cur |-> cur_match, start |-> match_start_, best |-> prev_length, on |-> TRUE]
    BY <1>4, <1>5
  <1>7. ASSUME NEW k \in 1..n
        PROVE  g[k] = IF g[k - 1].on
                      THEN Candidate(g[k - 1], prev, Min({config.nice, lookahead_}))
                      ELSE g[k - 1]
    <2>1. k \in 0..n /\ k # 0
      BY <1>5
    <2> QED BY <1>4, <2>1
  <1> QED BY <1>3, <1>6, <1>7 DEF SearchInOrder, n

\* A search goes on as long as there are strings that it has not come to.
LEMMA SearchKeeps ==
    ASSUME TypesInv, DataInv, DictInv, lookahead_ >= 3, NEW prev, Linked(prev),
           NEW cur_match \in Same, \A p \in Same : p <= cur_match,
           NEW prev_length \in Nat, NEW n \in Nat, NEW g,
           SearchInOrder(g, cur_match, prev, prev_length, n)
    PROVE  Progress(g[n], n, prev_length)
  <1>1. /\ g[0] = [cur |-> cur_match, start |-> match_start_, best |-> prev_length, on |-> TRUE]
        /\ \A k \in 1..n : g[k] = IF g[k - 1].on
                                  THEN Candidate(g[k - 1], prev, Min({config.nice, lookahead_}))
                                  ELSE g[k - 1]
    BY DEF SearchInOrder
  <1>2. PICK nice \in Nat : /\ nice = Min({config.nice, lookahead_})
                            /\ config.nice >= max_match => nice >= max_match \/ nice >= lookahead_
    <2>1. config.nice \in Nat /\ lookahead_ \in Nat
      BY TextTypes DEF TypesInv
    <2>2. Min({config.nice, lookahead_}) = IF config.nice <= lookahead_ THEN config.nice ELSE lookahead_
      BY <2>1, MinOfTwo
    <2> QED BY <2>1, <2>2, Sizes
  <1> DEFINE T == {k \in Nat : k <= n => Progress(g[k], k, prev_length)}
  <1>3. 0 \in T
    <2>1. PICK rec : rec = g[0]
      OBVIOUS
    <2>2. rec.best = prev_length /\ rec.on = TRUE /\ rec.cur = cur_match /\ rec.start \in Int
      BY <1>1, <2>1 DEF TypesInv
    <2>3. Visited(0, cur_match)
      <3>1. IsFiniteSet({}) /\ Cardinality({}) = 0 /\ {} \in SUBSET Reached
        BY FS_EmptySet
      <3> QED BY <3>1 DEF Visited
    <2>4. NoneMissed(TRUE, cur_match, prev_length)
      <3>1. \A p \in Same : ~(p > cur_match)
        <4>1. \A p \in Same : p \in Nat
          BY SamePlaces
        <4> QED BY <4>1
      <3> QED BY <3>1 DEF NoneMissed
    <2>5. ~(rec.best > prev_length) /\ rec.best >= prev_length
      BY <2>2
    <2>6. Progress(rec, 0, prev_length)
      BY <2>2, <2>3, <2>4, <2>5 DEF Progress
    <2> QED BY <2>1, <2>6
  <1>4. ASSUME NEW k \in Nat, k \in T PROVE k + 1 \in T
    <2>1. SUFFICES ASSUME k + 1 <= n PROVE Progress(g[k + 1], k + 1, prev_length)
      OBVIOUS
    <2>2. PICK rec : rec = g[k]
      OBVIOUS
    <2>3. Progress(rec, k, prev_length)
      BY <1>4, <2>1, <2>2
    <2>4. g[k + 1] = IF rec.on THEN Candidate(rec, prev, nice) ELSE rec
      <3>1. k + 1 \in 1..n /\ k + 1 - 1 = k
        BY <2>1
      <3> QED BY <1>1, <1>2, <2>2, <3>1
    <2>5. rec.on \in BOOLEAN
      BY <2>3 DEF Progress
    <2>6. CASE rec.on = TRUE
      <3>1. Progress(Candidate(rec, prev, nice), k + 1, prev_length)
        BY <1>2, <2>3, <2>6, CandidateKeeps
      <3> QED BY <2>4, <2>6, <3>1
    <2>7. CASE rec.on = FALSE
      <3>1. Progress(rec, k + 1, prev_length)
        BY <2>3, <2>7 DEF Progress
      <3> QED BY <2>4, <2>7, <3>1
    <2> QED BY <2>5, <2>6, <2>7
  <1>5. n \in T
    <2> HIDE DEF T
    <2> QED BY <1>3, <1>4, InductionOnSet
  <1> QED BY <1>5

\* What a search returns.
LEMMA SearchFinds ==
    ASSUME TypesInv, DataInv, DictInv, lookahead_ >= 3, NEW prev, Linked(prev),
           NEW cur_match \in Same, \A p \in Same : p <= cur_match, NEW prev_length \in Nat,
           NEW r, r = longest_match(cur_match, prev, prev_length)
    PROVE  /\ r.length \in Nat /\ r.length <= lookahead_ /\ r.start \in Int
           /\ r.length > prev_length =>
                r.start \in Same /\ Repeat(base + strstart_, r.length, base + r.start)
           /\ prev_length > 0 /\ ChainLength(prev_length) > Cardinality(Reached)
                  /\ config.nice >= max_match /\ r.length < max_match /\ r.length < lookahead_
                => \A p \in Same : strstart_ - p < max_dist => ~Beats(p, r.length)
  <1>1. PICK n \in Nat : n = ChainLength(prev_length)
    <2>1. config.chain \in Nat /\ config.chain \div 4 \in Nat
      BY TextTypes
    <2> QED BY <2>1 DEF ChainLength
  <1>2. PICK g : SearchInOrder(g, cur_match, prev, prev_length, n)
    BY <1>1, SearchSteps, Zenon
  <1>3. PICK rec : rec = g[n]
    OBVIOUS
  <1>4. Progress(rec, n, prev_length)
    BY <1>2, <1>3, SearchKeeps
  <1>5. PICK best \in Nat : best = rec.best
    BY <1>4 DEF Progress
  <1>6. r.start = rec.start /\ r.length = Min({best, lookahead_})
    BY <1>2, <1>3, <1>5 DEF SearchInOrder
  <1>7. lookahead_ \in Nat /\ base \in Nat /\ strstart_ \in Nat
    BY DEF TypesInv
  <1>8. PICK length \in Nat : length = r.length /\ length = IF best <= lookahead_ THEN best ELSE lookahead_
    BY <1>6, <1>7, MinOfTwo
  <1>9. length <= lookahead_ /\ length <= best
    BY <1>7, <1>8
  <1>10. ASSUME length > prev_length
         PROVE  r.start \in Same /\ Repeat(base + strstart_, length, base + r.start)
    <2>1. best > prev_length
      BY <1>9, <1>10
    <2>2. PICK m \in Same : m = r.start /\ Repeats(m, best)
      BY <1>4, <1>5, <1>6, <2>1 DEF Progress
    <2>3. m \in Nat /\ m <= strstart_
      <3>1. m \in Nat /\ m < strstart_
        BY SamePlaces
      <3> QED BY <1>7, <3>1
    <2>4. ASSUME NEW i \in 0..length - 1 PROVE At(base + strstart_ + i) = At(base + m + i)
      <3>1. i \in Nat /\ i \in 0..best - 1 /\ i < lookahead_
        BY <1>7, <1>9
      <3>2. Equal(m, i)
        BY <2>2, <3>1 DEF Repeats
      <3> QED BY <2>3, <3>1, <3>2, EqualBytes
    <2> QED BY <2>2, <2>4 DEF Repeat
  <1>11. ASSUME prev_length > 0, n > Cardinality(Reached), config.nice >= max_match,
                length < max_match, length < lookahead_,
                NEW p \in Same, strstart_ - p < max_dist
         PROVE  ~Beats(p, length)
    <2>1. length = best
      BY <1>7, <1>8, <1>11
    <2>2. rec.on = FALSE
      <3>1. SUFFICES ASSUME rec.on PROVE FALSE
        BY <1>4 DEF Progress
      <3>2. Visited(n, rec.cur)
        BY <1>4, <3>1 DEF Progress
      <3>3. PICK T \in SUBSET Reached : IsFiniteSet(T) /\ Cardinality(T) = n
        BY <3>2 DEF Visited
      <3>4. IsFiniteSet(Reached)
        <4>1. Reached \subseteq base..base + strstart_
          <5>1. strings \subseteq 0..strstart_ - 1
            BY DEF DictInv, DictOK, Dictionary
          <5> QED BY <1>7, <5>1 DEF Reached
        <4>2. IsFiniteSet(base..base + strstart_)
          BY <1>7, FS_Interval
        <4> QED BY <4>1, <4>2, FS_Subset
      <3>5. Cardinality(T) <= Cardinality(Reached) /\ Cardinality(Reached) \in Nat
        BY <3>3, <3>4, FS_Subset, FS_CardinalityType
      <3> QED BY <1>11, <3>3, <3>5
    <2>3. NoneMissed(rec.on, rec.cur, best)
      BY <1>4, <1>5, <1>11, <2>1 DEF Progress
    <2> QED BY <1>11, <2>1, <2>2, <2>3 DEF NoneMissed
  <1> QED BY <1>1, <1>6, <1>4, <1>8, <1>9, <1>10, <1>11 DEF Progress

\* The string that repeats the lookahead for longer than a search has found would have been found.
LEMMA LongerBeats ==
    ASSUME TypesInv, DataInv, DictInv, lookahead_ >= 3, NEW q \in strings, InReach(q),
           NEW length \in Nat, length < lookahead_, NEW n \in Nat, n >= length + 1, n >= 3,
           n <= lookahead_, Repeat(base + strstart_, n, base + q)
    PROVE  q \in Same /\ Beats(q, length)
  <1>1. base \in Nat /\ strstart_ \in Nat /\ lookahead_ \in Nat /\ q \in Nat /\ q <= strstart_
    <2>1. base \in Nat /\ strstart_ \in Nat /\ lookahead_ \in Nat
      BY DEF TypesInv
    <2>2. strings \subseteq 0..strstart_ - 1
      BY DEF DictInv, DictOK, Dictionary
    <2> QED BY <2>1, <2>2
  <1>2. \A i \in 0..n - 1 : At(base + strstart_ + i) = At(base + q + i)
    BY DEF Repeat
  <1>3. TextHash(base + q) = TextHash(base + strstart_)
    <2>1. PICK x \in Nat, y \in Nat : x = base + q /\ y = base + strstart_
      BY <1>1
    <2>2. \A i \in 0..2 : At(x + i) = At(y + i)
      BY <1>2, <2>1
    <2> QED BY <2>1, <2>2, SameHash
  <1>4. ASSUME NEW i \in Nat, i <= length \/ i < 3 PROVE Equal(q, i)
    <2>1. i \in 0..n - 1 /\ i < lookahead_
      BY <1>1, <1>4
    <2> QED BY <1>1, <1>2, <2>1, EqualBytes
  <1> QED BY <1>3, <1>4 DEF Same, Beats

\* What the search leaves in search is as LongestFound says.
LEMMA SearchIsLongest ==
    ASSUME TypesInv, DataInv, DictInv, lookahead_ >= 3, NEW prev, Linked(prev),
           NEW cur_match \in Same, \A p \in Same : p <= cur_match, NEW prev_length \in Nat,
           NEW r, r = longest_match(cur_match, prev, prev_length),
           Searched(prev_length, r), text' = text
    PROVE  LongestFound'
  <1>1. /\ search'.at = base + strstart_ /\ search'.prev_length = prev_length
        /\ search'.lookahead = lookahead_ /\ search'.start = base + r.start
        /\ search'.length = r.length /\ search'.strings = Reached
        /\ search'.chain = ChainLength(prev_length) /\ search'.nice = config.nice
    BY DEF Searched, Reached
  <1>2. PICK length \in Nat, start \in Int : length = r.length /\ start = r.start
    BY SearchFinds
  <1>3. base \in Nat /\ strstart_ \in Nat /\ lookahead_ \in Nat
    BY DEF TypesInv
  <1>4. /\ length <= lookahead_
        /\ length > prev_length => start \in Same /\ Repeat(base + strstart_, length, base + start)
        /\ prev_length > 0 /\ ChainLength(prev_length) > Cardinality(Reached)
                  /\ config.nice >= max_match /\ length < max_match /\ length < lookahead_
                => \A p \in Same : strstart_ - p < max_dist => ~Beats(p, length)
    BY <1>2, SearchFinds
  <1>5. length > prev_length => base + start \in Reached
    BY <1>4 DEF Same, Reached
  <1>6. ASSUME prev_length > 0, ChainLength(prev_length) > Cardinality(Reached),
               config.nice >= max_match, NEW p \in Reached, base + strstart_ - p < max_dist,
               length < Min({max_match, lookahead_}),
               Repeat(base + strstart_, Max({length + 1, min_match}), p)
        PROVE  FALSE
    <2>1. PICK q \in strings : InReach(q) /\ p = base + q
      BY DEF Reached
    <2>2. q \in Nat
      BY DEF DictInv, DictOK, Dictionary
    <2>3. length < max_match /\ length < lookahead_
      <3>1. Min({max_match, lookahead_}) = IF max_match <= lookahead_ THEN max_match ELSE lookahead_
        BY <1>3, Sizes, MinOfTwo
      <3> QED BY <1>3, <1>6, <3>1, Sizes
    <2>4. PICK n \in Nat : n = Max({length + 1, min_match}) /\ n >= length + 1 /\ n >= 3
                           /\ n <= lookahead_
      <3>1. Max({length + 1, min_match}) = IF length + 1 >= min_match THEN length + 1 ELSE min_match
        BY Sizes, MaxOfTwo
      <3> QED BY <1>3, <2>3, <3>1, Sizes
    <2>5. q \in Same /\ Beats(q, length)
      BY <1>6, <2>1, <2>3, <2>4, LongerBeats
    <2>6. strstart_ - q < max_dist
      BY <1>3, <1>6, <2>1, <2>2, Sizes
    <2> QED BY <1>4, <1>6, <2>3, <2>5, <2>6
  <1>7. \A x : At(x)' = At(x)
    BY DEF At
  <1>8. \A x, y, z : Repeat(x, y, z)' = Repeat(x, y, z)
    BY DEF Repeat, At
  <1>9. length > prev_length =>
           /\ search'.start \in search'.strings /\ length <= search'.lookahead
           /\ Repeat(search'.at, length, search'.start)
    BY <1>1, <1>2, <1>4, <1>5
  <1>10. ASSUME prev_length > 0, search'.chain > Cardinality(search'.strings),
                search'.nice >= max_match, NEW p \in search'.strings
         PROVE  ~(/\ search'.at - p < max_dist
                  /\ search'.length < Min({max_match, search'.lookahead})
                  /\ Repeat(search'.at, Max({search'.length + 1, min_match}), p))
    <2>1. SUFFICES ASSUME search'.at - p < max_dist,
                          search'.length < Min({max_match, search'.lookahead}),
                          Repeat(search'.at, Max({search'.length + 1, min_match}), p)
                   PROVE  FALSE
      OBVIOUS
    <2>2. /\ search'.at = base + strstart_ /\ search'.length = length
          /\ search'.lookahead = lookahead_ /\ p \in Reached
      BY <1>1, <1>2, <1>10
    <2>3. base + strstart_ - p < max_dist
      <3>1. PICK at \in Nat : at = base + strstart_
        BY <1>3
      <3>2. search'.at = at /\ search'.at - p < max_dist
        BY <2>1, <2>2, <3>1
      <3>3. at - p < max_dist
        BY <3>2, Zenon
      <3>4. p \in Nat
        <4>1. strings \subseteq Nat
          BY DEF DictInv, DictOK, Dictionary
        <4>2. PICK q \in strings : p = base + q
          BY <2>2 DEF Reached
        <4>3. q \in Nat /\ base \in Nat
          BY <1>3, <4>1
        <4> QED BY <4>2, <4>3
      <3> QED BY <1>3, <3>1, <3>3, <3>4
    <2>4. length < Min({max_match, lookahead_})
      BY ONLY <2>1, <2>2
    <2>5. Repeat(base + strstart_, Max({length + 1, min_match}), p)
      BY ONLY <2>1, <2>2
    <2>6. ChainLength(prev_length) > Cardinality(Reached) /\ config.nice >= max_match
      BY <1>1, <1>10
    <2> QED BY <1>6, <1>10, <2>2, <2>3, <2>4, <2>5, <2>6
  <1> QED BY <1>1, <1>2, <1>8, <1>9, <1>10 DEF LongestFound

\* The string at strstart_ goes in, and the search starts from the one before it.
LEMMA StringGoesIn ==
    ASSUME TypesInv, DataInv, DictInv, config.func # "rle", lookahead_ >= 3
    PROVE  /\ DictOK(WithString, base, strstart_ + 1, End)
           /\ Rolls(WithString.h, base + (strstart_ + 1))
           /\ Linked(WithString.prev)
           /\ Near => HashHead \in Same /\ \A p \in Same : p <= HashHead
  <1>1. /\ base \in Nat /\ strstart_ \in Nat /\ lookahead_ \in Nat /\ End = strstart_ + lookahead_
        /\ End \in Nat /\ End <= window_size /\ base + End <= Len(text) /\ Len(text) \in Nat
    BY EndFacts
  <1>2. PICK d : d = Dictionary
    OBVIOUS
  <1>3. DictOK(d, base, strstart_, End) /\ Rolls(d.h, base + strstart_)
        /\ d.strings = strings /\ d.head = head_
    BY <1>2, Sizes DEF DictInv, Dictionary
  <1>4. window_[strstart_ + 2] = At(base + strstart_ + 2)
    <2>1. strstart_ + 2 \in 0..End - 1 /\ base + (strstart_ + 2) = base + strstart_ + 2
      BY <1>1
    <2> QED BY <2>1 DEF DataInv
  <1>5. PICK H : H = TextHash(base + strstart_)
    OBVIOUS
  <1>6. PICK e : e = insert_string(d, window_, strstart_)
    OBVIOUS
  <1>7. WithString = e
    BY <1>2, <1>6, Sizes DEF WithString
  <1>8. /\ DictOK(e, base, strstart_ + 1, End) /\ Rolls(e.h, base + (strstart_ + 1))
        /\ e.h = H /\ e.strings = strings \cup {strstart_}
        /\ head_[H] \in Nat /\ Leads(strings, base, head_[H], H, strstart_)
    <2>1. PICK b \in Nat, str \in Nat, end \in Nat :
            b = base /\ str = strstart_ /\ end = End /\ str + 3 <= end /\ str <= str
      BY <1>1
    <2>2. PICK w : w = window_
      OBVIOUS
    <2>3. /\ DictOK(d, b, str, end) /\ Rolls(d.h, b + str) /\ end <= window_size
          /\ b + end <= Len(text) /\ w[str + 2] = At(b + str + 2)
      BY <1>1, <1>3, <1>4, <2>1, <2>2
    <2>4. GoesIn(d, w, b, str, end)
      BY <2>1, <2>3, InsertKeeps, Zenon
    <2>5. insert_string(d, w, str) = e /\ TextHash(b + str) = H
      BY <1>5, <1>6, <2>1, <2>2
    <2> QED BY <1>3, <2>1, <2>4, <2>5 DEF GoesIn
  <1>9. HashHead = head_[H]
    BY <1>7, <1>8, Sizes DEF HashHead
  <1>10. ASSUME Near PROVE HashHead \in Same /\ \A p \in Same : p <= HashHead
    <2>1. PICK q \in Nat : q = HashHead
      BY <1>8, <1>9
    <2>2. q # 0 /\ strstart_ - q <= max_dist
      BY <1>10, <2>1 DEF Near
    <2>3. q \in strings /\ TextHash(base + q) = H
      BY <1>8, <1>9, <2>1, <2>2 DEF Leads
    <2>4. q \in Same
      BY <1>5, <2>2, <2>3 DEF Same, InReach
    <2>5. ASSUME NEW p \in Same PROVE p <= q
      <3>1. p \in strings /\ p > 0 /\ p < strstart_ /\ TextHash(base + p) = H
        BY <1>5, SamePlaces
      <3> QED BY <1>8, <1>9, <2>1, <3>1 DEF Leads
    <2> QED BY <2>1, <2>4, <2>5
  <1>11. Linked(e.prev)
    <2>1. SUFFICES ASSUME NEW m \in Same
                   PROVE  /\ e.prev[m % w_size] \in Nat
                          /\ e.prev[m % w_size] = 0 \/
                               (/\ e.prev[m % w_size] \in strings /\ e.prev[m % w_size] < m
                                /\ TextHash(base + e.prev[m % w_size]) = H)
                          /\ \A p \in Same : p < m => p <= e.prev[m % w_size]
      BY <1>5 DEF Linked
    <2>2. /\ m \in Nat /\ m > 0 /\ m < strstart_ /\ strstart_ - m <= max_dist /\ m \in strings
          /\ TextHash(base + m) = H
      BY <1>5, SamePlaces
    <2>3. strings \subseteq 0..strstart_ - 1
      BY <1>3 DEF DictOK
    <2>4. \A q \in e.strings : q < m + w_size
      <3>1. SUFFICES ASSUME NEW q \in e.strings PROVE q < m + w_size
        OBVIOUS
      <3>2. q \in Nat /\ q <= strstart_
        BY <1>1, <1>8, <2>3
      <3> QED BY <1>1, <2>2, <3>2, Sizes
    <2>5. PICK next : next = e.prev[m % w_size]
      OBVIOUS
    <2>6. Leads(e.strings, base, next, H, m)
      BY <1>8, <2>2, <2>4, <2>5 DEF DictOK
    <2>7. next \in Nat
      <3>1. m < window_size
        BY <1>1, <2>2, Sizes
      <3>2. m % w_size \in 0..w_size - 1
        <4>1. m % w_size = IF m < w_size THEN m ELSE m - w_size
          BY <2>2, <3>1, Slot
        <4> QED BY <2>2, <3>1, <4>1, Sizes
      <3> QED BY <1>8, <2>5, <3>2 DEF DictOK
    <2>8. next = 0 \/ (next \in strings /\ next < m /\ TextHash(base + next) = H)
      BY <1>1, <1>8, <2>2, <2>6, <2>7 DEF Leads
    <2>9. ASSUME NEW p \in Same, p < m PROVE p <= next
      <3>1. p \in e.strings /\ p > 0 /\ TextHash(base + p) = H
        BY <1>5, <1>8, SamePlaces
      <3> QED BY <2>6, <2>9, <3>1 DEF Leads
    <2> QED BY <2>5, <2>7, <2>8, <2>9
  <1> QED BY <1>7, <1>8, <1>10, <1>11

\* There is too little of the string at strstart_ to go in.
LEMMA StringStaysOut ==
    ASSUME TypesInv, DictInv, ~(lookahead_ >= 3)
    PROVE  /\ WithString = Dictionary /\ ~Near
           /\ DictOK(WithString, base, strstart_ + 1, End)
  <1>1. WithString = Dictionary /\ HashHead = 0
    BY Sizes DEF WithString, HashHead
  <1>2. base \in Nat /\ strstart_ \in Nat /\ End \in Nat
    BY DEF TypesInv, End
  <1>3. DictOK(Dictionary, base, strstart_, End)
    BY DEF DictInv
  <1>4. DictOK(Dictionary, base, strstart_ + 1, End)
    BY <1>2, <1>3, Further
  <1> QED BY <1>1, <1>4 DEF Near

\* What a step along the input leaves as it is.
LEMMA AdvanceKeeps ==
    ASSUME TypesInv, DataInv, InsertInv, NEW n \in Nat, n <= lookahead_, Advances(n),
           text' = text, avail_in' = avail_in
    PROVE  /\ DataInv' /\ InsertInv' /\ End' = End
           /\ strstart_' = strstart_ + n /\ lookahead_' = lookahead_ - n
           /\ strstart_' \in Nat /\ lookahead_' \in Nat
           /\ base' = base /\ read' = read /\ insert_' = insert_ /\ window_' = window_
  <1>1. strstart_ \in Nat /\ lookahead_ \in Nat /\ insert_ \in Nat
    BY DEF TypesInv
  <1>2. /\ strstart_' = strstart_ + n /\ lookahead_' = lookahead_ - n
        /\ base' = base /\ read' = read /\ insert_' = insert_ /\ window_' = window_
    BY DEF Advances
  <1>3. PICK s \in Nat, l \in Nat : s = strstart_' /\ l = lookahead_' /\ s = strstart_ + n
                                    /\ l = lookahead_ - n
    BY <1>1, <1>2
  <1>4. s + l = strstart_ + lookahead_
    BY <1>1, <1>3
  <1>5. End' = End
    BY <1>3, <1>4 DEF End
  <1>6. DataInv'
    BY <1>2, <1>5 DEF DataInv, At
  <1>7. InsertInv'
    <2>1. insert_ > 0 => insert_ + l < min_match
      BY <1>1, <1>3, Sizes DEF InsertInv
    <2> QED BY <1>2, <1>3, <2>1 DEF InsertInv
  <1> QED BY <1>2, <1>3, <1>5, <1>6, <1>7

\* Where a function goes on, and where it comes back.
LEMMA Continuing ==
    ASSUME TypesInv, config' = config, lookahead_' \in Nat, Continues \/ MayReturn
    PROVE  pc' \in {"fill", "step", "idle"} /\ (pc' = "step" => lookahead_' > 0)
  <1>1. pc' = "idle" \/ pc' = Top(lookahead_')
    BY DEF MayReturn, Continues
  <1>2. Top(lookahead_') \in {"fill", "step"}
        /\ (Top(lookahead_') = "step" => lookahead_' > 0)
    BY Sizes DEF Top, NeedsFill
  <1> QED BY <1>1, <1>2

\* The invariant holds at first.
LEMMA InitInv ==
    ASSUME Init
    PROVE  IInv
  <1>1. /\ head_ = NoHeads /\ ins_h_ = 0 /\ strstart_ = 0 /\ lookahead_ = 0 /\ insert_ = 0
        /\ match_length_ = 2 /\ prev_length_ = 2 /\ match_available_ = FALSE
        /\ prev_ = [i \in 0..w_size - 1 |-> 0] /\ window_ \in NewWindows
        /\ match_start_ = 0 /\ text \in Texts /\ config \in Settings /\ read = 0 /\ avail_in = 0
        /\ base = 0 /\ strings = {} /\ search = NoSearch
        /\ symbol = [at |-> 0, len |-> 0, dist |-> 0, byte |-> 0] /\ pc = "drained"
    BY Sizes DEF Init, lm_init
  <1>2. /\ strstart_ = 0 /\ lookahead_ = 0 /\ insert_ = 0 /\ match_length_ = 2
        /\ prev_length_ = 2 /\ match_available_ = FALSE /\ match_start_ = 0
        /\ text \in Texts /\ config \in Settings /\ read = 0 /\ avail_in = 0 /\ base = 0
        /\ pc = "drained" /\ symbol.at = 0 /\ symbol.len = 0 /\ symbol.dist = 0
        /\ search.length = 0
    BY <1>1 DEF NoSearch
  <1>3. TypesInv
    <2>1. match_available_ \in BOOLEAN
      BY <1>2, Zenon
    <2>2. symbol.at \in Nat /\ symbol.len \in Nat /\ symbol.dist \in Int
      BY <1>2
    <2>3. /\ strstart_ \in Nat /\ lookahead_ \in Nat /\ insert_ \in Nat /\ base \in Nat
          /\ read \in Nat /\ avail_in \in Nat /\ match_start_ \in Int
          /\ match_length_ \in Nat /\ prev_length_ \in Nat
      BY <1>2
    <2> QED BY <1>2, <2>1, <2>2, <2>3, Zenon DEF TypesInv
  <1>4. Len(text) \in Nat /\ End = 0
    BY <1>1, <1>3, TextTypes DEF End
  <1>5. DataInv
    <2>1. DOMAIN window_ = 0..window_size - 1
      BY <1>1, NewWindowsAssumption
    <2> QED BY <1>1, <1>4, <2>1, Sizes DEF DataInv
  <1>6. StageInv /\ InsertInv /\ MatchInv
    BY <1>1, Sizes DEF StageInv, InsertInv, MatchInv
  <1>7. DictInv
    <2>1. DictOK(Dictionary, 0, 0, 0)
      BY <1>1 DEF DictOK, Dictionary, NoHeads, Leads
    <2> QED BY <1>1, <1>4, <2>1, Sizes DEF DictInv
  <1>8. LongestFound
    BY <1>2 DEF LongestFound
  <1>9. SymbolsAreText
    <2>1. (IF match_available_ THEN 1 ELSE 0) = 0
      BY <1>2, Zenon
    <2>2. symbol.at + symbol.len = base + strstart_ - 0 /\ ~(symbol.len > 0)
      BY <1>2
    <2> QED BY <2>1, <2>2, Zenon DEF SymbolsAreText
  <1> QED BY <1>3, <1>5, <1>6, <1>7, <1>8, <1>9 DEF IInv

\* The dictionary, the window and the matches stay as they are.
LEMMA DataStays ==
    ASSUME TypesInv, DataInv, InsertInv, text' = text, UNCHANGED window
    PROVE  InsertInv' /\ (read + avail_in' <= Len(text) => DataInv')
  BY DEF window, DataInv, InsertInv, End, At

\* The dictionary is kept while nothing that it is about changes.
LEMMA DictStays ==
    ASSUME DictInv, text' = text, UNCHANGED <<window, dictionary>>,
           config'.func # "rle" /\ lookahead_ >= 3 => config.func # "rle"
    PROVE  DictInv'
  <1>1. PICK d : d = Dictionary
    OBVIOUS
  <1>2. /\ strstart_' = strstart_ /\ lookahead_' = lookahead_ /\ base' = base
        /\ head_' = head_ /\ prev_' = prev_ /\ ins_h_' = ins_h_ /\ strings' = strings
    BY DEF window, dictionary
  <1>3. Becomes(d) /\ End' = End /\ d.h = ins_h_
    BY <1>1, <1>2 DEF Becomes, Dictionary, End
  <1>4. DictOK(d, base', strstart_', End')
    BY <1>1, <1>2, <1>3 DEF DictInv
  <1>5. config'.func # "rle" /\ lookahead_' >= 3 => Rolls(d.h, base' + strstart_')
    BY <1>2, <1>3, Sizes DEF DictInv
  <1> QED BY <1>3, <1>4, <1>5, DictBecomes

\* A call of write begins.
LEMMA WriteKeeps ==
    ASSUME IInv, write
    PROVE  IInv'
  <1>1. TypesInv /\ DataInv /\ StageInv /\ InsertInv /\ MatchInv /\ DictInv /\ SymbolsAreText
    BY DEF IInv
  <1>2. PICK n \in Amounts : avail_in' = Min({n, Len(text) - read})
    BY DEF write
  <1>3. /\ pc' = Top(lookahead_) /\ search' = NoSearch /\ text' = text /\ config' = config
        /\ UNCHANGED window /\ UNCHANGED dictionary /\ UNCHANGED matches /\ symbol' = symbol
    BY DEF write, symbols
  <1>4. /\ read \in Nat /\ Len(text) \in Nat /\ n \in Nat /\ read <= Len(text)
        /\ lookahead_ \in Nat /\ base \in Nat /\ strstart_ \in Nat /\ match_start_ \in Int
    <2>1. Len(text) \in Nat /\ n \in Nat
      BY <1>1, AmountsAssumption, TextTypes
    <2>2. read \in Nat /\ avail_in \in Nat /\ read + avail_in <= Len(text)
      BY <1>1 DEF TypesInv, DataInv
    <2> QED BY <1>1, <2>1, <2>2 DEF TypesInv
  <1>5. avail_in' \in Nat /\ read + avail_in' <= Len(text)
    <2>1. PICK most \in Nat : most = Len(text) - read
      BY <1>4
    <2>2. avail_in' = IF n <= most THEN n ELSE most
      BY <1>2, <1>4, <2>1, MinOfTwo
    <2> QED BY <1>4, <2>1, <2>2
  <1>6. /\ strstart_' = strstart_ /\ lookahead_' = lookahead_ /\ base' = base /\ read' = read
        /\ insert_' = insert_ /\ match_start_' = match_start_ /\ match_length_' = match_length_
        /\ prev_length_' = prev_length_ /\ match_available_' = match_available_
    BY <1>3 DEF window, matches
  <1>7. pc' \in {"fill", "step"} /\ (pc' = "step" => lookahead_ > 0)
    BY <1>3, <1>4, Sizes DEF Top, NeedsFill
  <1>8. TypesInv'
    BY <1>1, <1>3, <1>5, <1>6, <1>7 DEF TypesInv
  <1>9. DataInv' /\ InsertInv'
    BY <1>1, <1>3, <1>5, DataStays
  <1>10. StageInv'
    BY <1>1, <1>3, <1>6, <1>7 DEF StageInv
  <1>11. MatchInv'
    BY <1>1, <1>3, <1>4, <1>6, MatchStays
  <1>12. DictInv'
    BY <1>1, <1>3, DictStays
  <1>13. SymbolsAreText'
    BY <1>1, <1>3, <1>4, <1>6, SymbolsStay
  <1>14. LongestFound'
    BY <1>3 DEF LongestFound, NoSearch
  <1> QED BY <1>8, <1>9, <1>10, <1>11, <1>12, <1>13, <1>14 DEF IInv

\* Another level or strategy keeps the invariant: the chains serve them all.
LEMMA ParamsKeeps ==
    ASSUME IInv, doParams
    PROVE  IInv'
  <1>1. TypesInv /\ DataInv /\ StageInv /\ InsertInv /\ MatchInv /\ DictInv /\ SymbolsAreText
    BY DEF IInv
  <1>2. /\ config' \in Settings /\ pc \in {"drained", "idle"}
        /\ pc = "drained" \/ config'.func = config.func
        /\ pc' = pc /\ search' = NoSearch /\ text' = text /\ UNCHANGED offer
        /\ UNCHANGED window /\ UNCHANGED dictionary /\ UNCHANGED matches /\ symbol' = symbol
    BY DEF doParams, symbols
  <1>3. /\ strstart_' = strstart_ /\ lookahead_' = lookahead_ /\ base' = base /\ read' = read
        /\ insert_' = insert_ /\ match_start_' = match_start_ /\ match_length_' = match_length_
        /\ prev_length_' = prev_length_ /\ match_available_' = match_available_
        /\ avail_in' = avail_in
    BY <1>2 DEF window, matches, offer
  <1>4. /\ lookahead_ \in Nat /\ base \in Nat /\ strstart_ \in Nat
        /\ match_length_ \in Nat /\ prev_length_ \in Nat
    BY <1>1 DEF TypesInv
  <1>5. pc = "drained" => lookahead_ = 0 /\ match_available_ = FALSE
    <2>1. match_available_ \in BOOLEAN
      BY <1>1 DEF TypesInv
    <2> QED BY <1>1, <2>1 DEF StageInv
  <1>6. TypesInv'
    BY <1>1, <1>2, <1>3 DEF TypesInv
  <1>7. DataInv' /\ InsertInv'
    <2>1. read + avail_in' <= Len(text)
      BY <1>1, <1>3 DEF DataInv
    <2> QED BY <1>1, <1>2, <2>1, DataStays
  <1>8. StageInv'
    BY <1>1, <1>2, <1>3, <1>5 DEF StageInv
  <1>9. MatchInv'
    <2>1. pc = "drained" => match_length_ < min_match /\ prev_length_ < min_match
      BY <1>1, <1>4, <1>5, Sizes DEF MatchInv
    <2>2. \A x, y, z : Repeat(x, y, z)' = Repeat(x, y, z)
      BY <1>2 DEF Repeat, At
    <2>3. CASE pc = "drained"
      <3>1. ~(match_length_ >= min_match) /\ ~(prev_length_ >= min_match)
        BY <1>4, <2>1, <2>3, Sizes
      <3> QED BY <1>3, <2>1, <2>3, <3>1 DEF MatchInv
    <2>4. CASE config'.func = config.func
      BY <1>1, <1>3, <2>2, <2>4 DEF MatchInv
    <2> QED BY <1>2, <2>3, <2>4
  <1>10. DictInv'
    BY <1>1, <1>2, <1>4, <1>5, DictStays
  <1>11. SymbolsAreText'
    BY <1>1, <1>2, <1>3, <1>4, SymbolsStay
  <1>12. LongestFound'
    BY <1>2 DEF LongestFound, NoSearch
  <1> QED BY <1>6, <1>7, <1>8, <1>9, <1>10, <1>11, <1>12 DEF IInv

\* Nothing changes.
LEMMA StutterKeeps ==
    ASSUME IInv, UNCHANGED vars
    PROVE  IInv'
  <1>1. TypesInv /\ DataInv /\ StageInv /\ InsertInv /\ MatchInv /\ DictInv /\ SymbolsAreText
        /\ LongestFound
    BY DEF IInv
  <1>2. /\ pc' = pc /\ text' = text /\ config' = config /\ UNCHANGED offer
        /\ UNCHANGED window /\ UNCHANGED dictionary /\ UNCHANGED matches
        /\ search' = search /\ symbol' = symbol
    BY DEF vars, symbols
  <1>3. /\ strstart_' = strstart_ /\ lookahead_' = lookahead_ /\ base' = base /\ read' = read
        /\ insert_' = insert_ /\ match_start_' = match_start_ /\ match_length_' = match_length_
        /\ prev_length_' = prev_length_ /\ match_available_' = match_available_
        /\ avail_in' = avail_in
    BY <1>2 DEF window, matches, offer
  <1>4. TypesInv' /\ StageInv'
    BY <1>1, <1>2, <1>3 DEF TypesInv, StageInv
  <1>5. DataInv' /\ InsertInv'
    <2>1. read + avail_in' <= Len(text)
      BY <1>1, <1>3 DEF DataInv
    <2> QED BY <1>1, <1>2, <2>1, DataStays
  <1>6. MatchInv'
    BY <1>1, <1>2, <1>3, MatchStays DEF TypesInv
  <1>7. DictInv'
    BY <1>1, <1>2, DictStays
  <1>8. SymbolsAreText'
    BY <1>1, <1>2, <1>3, SymbolsStay DEF TypesInv
  <1>9. LongestFound'
    BY <1>1, <1>2 DEF LongestFound, Repeat, At
  <1> QED BY <1>1, <1>4, <1>5, <1>6, <1>7, <1>8, <1>9 DEF IInv

\* A symbol that says what the input is from where the last one ended to n bytes further.
LEMMA SymbolFits ==
    ASSUME TypesInv, text' = text, base' \in Nat, strstart_' \in Nat,
           match_available_' \in BOOLEAN, NEW at \in Nat, NEW len \in Nat, NEW dist \in Nat, NEW b,
           symbol' = [at |-> at, len |-> len, dist |-> dist, byte |-> b],
           at + len = base' + strstart_' - (IF match_available_' THEN 1 ELSE 0),
           dist = 0 => b = At(at),
           dist # 0 => dist <= max_dist /\ Repeat(at, len, at - dist)
    PROVE  /\ SymbolsAreText'
           /\ symbol'.at \in Nat /\ symbol'.len \in Nat /\ symbol'.dist \in Int
  <1>1. /\ symbol'.at = at /\ symbol'.len = len /\ symbol'.dist = dist /\ symbol'.byte = b
    OBVIOUS
  <1>2. (symbol.at + symbol.len = base + strstart_ - (IF match_available_ THEN 1 ELSE 0))'
    <2>1. PICK place : place = base' + strstart_' - (IF match_available_' THEN 1 ELSE 0)
      OBVIOUS
    <2>2. symbol'.at + symbol'.len = place
      BY <1>1, <2>1
    <2> QED BY <2>1, <2>2, Zenon
  <1>3. (symbol.dist = 0 => symbol.byte = At(symbol.at))'
    BY <1>1 DEF At
  <1>4. ASSUME dist # 0
        PROVE  (symbol.dist \in 1..max_dist
                    /\ Repeat(symbol.at, symbol.len, symbol.at - symbol.dist))'
    <2>1. dist \in 1..max_dist
      BY <1>4, Sizes
    <2>2. \A x, y, z : Repeat(x, y, z)' = Repeat(x, y, z)
      BY DEF Repeat, At
    <2> QED BY <1>1, <1>4, <2>1, <2>2
  <1>5. (symbol.len > 0 =>
          IF symbol.dist = 0 THEN symbol.byte = At(symbol.at)
          ELSE /\ symbol.dist \in 1..max_dist
               /\ Repeat(symbol.at, symbol.len, symbol.at - symbol.dist))'
    BY <1>1, <1>3, <1>4
  <1>6. SymbolsAreText'
    BY <1>2, <1>5, Zenon DEF SymbolsAreText
  <1> QED BY <1>1, <1>6

\* A match repeats what is dist before it.
LEMMA MatchFits ==
    ASSUME TypesInv, text' = text, base' \in Nat, strstart_' \in Nat,
           match_available_' \in BOOLEAN, NEW at \in Nat, NEW len \in Nat, NEW dist \in Nat,
           symbol' = [at |-> at, len |-> len, dist |-> dist, byte |-> 0],
           at + len = base' + strstart_' - (IF match_available_' THEN 1 ELSE 0),
           dist > 0, dist <= max_dist, Repeat(at, len, at - dist)
    PROVE  /\ SymbolsAreText'
           /\ symbol'.at \in Nat /\ symbol'.len \in Nat /\ symbol'.dist \in Int
  <1>1. dist = 0 => 0 = At(at)
    OBVIOUS
  <1>2. dist # 0 => dist <= max_dist /\ Repeat(at, len, at - dist)
    OBVIOUS
  <1> QED BY <1>1, <1>2, SymbolFits

\* A literal is the byte at its place.
LEMMA LiteralFits ==
    ASSUME TypesInv, DataInv, text' = text, base' \in Nat, strstart_' \in Nat,
           match_available_' \in BOOLEAN, NEW str \in Nat, str < End, symbol' = LiteralOf(str),
           base + str + 1 = base' + strstart_' - (IF match_available_' THEN 1 ELSE 0)
    PROVE  /\ SymbolsAreText'
           /\ symbol'.at \in Nat /\ symbol'.len \in Nat /\ symbol'.dist \in Int
  <1>1. PICK at \in Nat : at = base + str
    BY DEF TypesInv
  <1>2. str \in 0..End - 1
    BY DEF TypesInv, End
  <1>3. window_[str] = At(at)
    BY <1>1, <1>2 DEF DataInv
  <1>4. symbol' = [at |-> at, len |-> 1, dist |-> 0, byte |-> window_[str]]
    BY <1>1 DEF LiteralOf
  <1>5. at + 1 = base' + strstart_' - (IF match_available_' THEN 1 ELSE 0)
    BY <1>1, Zenon
  <1> QED BY <1>3, <1>4, <1>5, SymbolFits

\* The end of a block, and of what was offered, keeps the invariant.
LEMMA FinishKeeps ==
    ASSUME IInv, finish
    PROVE  IInv'
  <1>1. TypesInv /\ DataInv /\ StageInv /\ InsertInv /\ MatchInv /\ DictInv /\ SymbolsAreText
    BY DEF IInv
  <1>2. /\ pc = "finish" /\ pc' = "drained" /\ match_available_' = FALSE /\ search' = NoSearch
        /\ text' = text /\ config' = config /\ avail_in' = avail_in /\ window_' = window_
        /\ lookahead_' = lookahead_ /\ read' = read /\ match_start_' = match_start_
        /\ match_length_' = match_length_ /\ prev_length_' = prev_length_
        /\ symbol' = IF match_available_ THEN LiteralOf(strstart_ - 1) ELSE symbol
    BY DEF finish, offer
  <1>3. /\ lookahead_ = 0 /\ lookahead_ \in Nat /\ base \in Nat /\ strstart_ \in Nat /\ read \in Nat
        /\ avail_in \in Nat /\ match_length_ \in Nat /\ prev_length_ \in Nat
    BY <1>1, <1>2 DEF TypesInv, StageInv
  <1>14. match_available_ \in BOOLEAN /\ (match_available_ => strstart_ > 0)
    BY <1>1 DEF TypesInv, StageInv
  <1>4. End = strstart_ /\ base + strstart_ = read /\ Len(text) \in Nat
    BY <1>1, <1>3, TextTypes DEF DataInv, End
  <1>5. /\ strstart_' \in Nat /\ base' \in Nat /\ insert_' \in Nat
        /\ base' + strstart_' = base + strstart_ /\ strstart_' <= strstart_ /\ insert_' <= 2
        /\ strstart_' = 0 \/ base' = base
    <2>1. CASE flush = "full"
      <3>1. strstart_' = 0 /\ insert_' = 0 /\ base' = base + strstart_
        BY <2>1 DEF finish
      <3> QED BY <1>3, <3>1
    <2>2. CASE flush # "full"
      <3>1. /\ strstart_' = strstart_ /\ base' = base
            /\ insert_' = IF config.func = "rle" THEN 0 ELSE Min({strstart_, min_match - 1})
        BY <2>2 DEF finish
      <3>2. Min({strstart_, min_match - 1}) = IF strstart_ <= min_match - 1 THEN strstart_
                                              ELSE min_match - 1
        BY <1>3, Sizes, MinOfTwo
      <3>3. PICK m \in Nat : m = Min({strstart_, min_match - 1}) /\ m <= 2
        BY <1>3, <3>2, Sizes
      <3>4. insert_' \in {0, m}
        BY <3>1, <3>3
      <3> QED BY <1>3, <3>1, <3>3, <3>4
    <2> QED BY <2>1, <2>2
  <1>15. PICK s \in Nat, b \in Nat, st \in Nat, ba \in Nat :
           /\ s = strstart_' /\ b = base' /\ st = strstart_ /\ ba = base
           /\ b + s = ba + st /\ s <= st
    BY <1>3, <1>5
  <1>6. End' = strstart_'
    <2>1. s + 0 = s /\ lookahead_' = 0
      BY <1>2, <1>3
    <2> QED BY <1>15, <2>1 DEF End
  <1>7. DataInv'
    <2>1. base' + End' = read' /\ read' + avail_in' <= Len(text)
      <3>1. b + s = read
        BY <1>4, <1>15
      <3> QED BY <1>1, <1>2, <1>6, <1>15, <3>1 DEF DataInv
    <2>2. DOMAIN window_' = 0..window_size - 1 /\ End' <= window_size
      BY <1>1, <1>2, <1>3, <1>4, <1>5, <1>6, Sizes DEF DataInv
    <2>3. \A i \in 0..End' - 1 : window_'[i] = At(base' + i)
      <3>1. CASE strstart_' = 0
        BY <1>6, <3>1
      <3>2. CASE base' = base
        <4>1. \A i \in 0..End' - 1 : i \in 0..End - 1
          <5>1. End = st /\ End' = s
            BY <1>4, <1>6, <1>15
          <5>2. s <= st
            BY <1>15
          <5>3. \A i \in 0..s - 1 : i \in 0..st - 1
            BY <5>2
          <5> QED BY <5>1, <5>3
        <4> QED BY <1>1, <1>2, <3>2, <4>1 DEF DataInv
      <3> QED BY <1>5, <3>1, <3>2
    <2> QED BY <1>2, <2>1, <2>2, <2>3 DEF DataInv, At
  <1>8. StageInv' /\ InsertInv'
    <2>1. PICK i \in Nat : i = insert_' /\ i <= 2
      BY <1>5
    <2>2. i + 0 < min_match
      <3>1. i <= 2 /\ min_match = 3
        BY <2>1, Sizes
      <3> QED BY <3>1
    <2>3. lookahead_' = 0
      BY <1>2, <1>3
    <2>4. StageInv'
      BY <1>2, <2>3, Zenon DEF StageInv
    <2> QED BY <2>1, <2>2, <2>3, <2>4 DEF InsertInv
  <1>9. MatchInv'
    <2>1. match_length_ < min_match /\ prev_length_ < min_match
      BY <1>1, <1>3, Sizes DEF MatchInv
    <2>2. ~(match_length_ >= min_match) /\ ~(prev_length_ >= min_match)
      BY <1>3, <2>1, Sizes
    <2> QED BY <1>2, <2>1, <2>2 DEF MatchInv
  <1>10. DictInv'
    <2>1. ~(lookahead_' >= 3)
      BY <1>2, <1>3
    <2>2. CASE flush = "full"
      <3>1. PICK d : d = [Dictionary EXCEPT !.head = NoHeads, !.strings = {}]
        OBVIOUS
      <3>2. Becomes(d)
        BY <2>2, <3>1 DEF finish
      <3>3. d.head = NoHeads /\ d.prev = prev_ /\ d.strings = {}
        BY <3>1 DEF Dictionary
      <3>4. prev_ \in [0..w_size - 1 -> Nat]
        BY <1>1 DEF DictInv, DictOK, Dictionary
      <3>5. DictOK(d, base', strstart_', End')
        BY <3>3, <3>4 DEF DictOK, NoHeads, Leads
      <3> QED BY <1>2, <2>1, <3>2, <3>5, DictBecomes
    <2>3. CASE flush # "full"
      <3>1. UNCHANGED dictionary /\ strstart_' = strstart_ /\ base' = base
        BY <2>3 DEF finish
      <3>2. PICK d : d = Dictionary
        OBVIOUS
      <3>3. Becomes(d)
        BY <3>1, <3>2 DEF dictionary, Dictionary, Becomes
      <3>4. DictOK(d, base', strstart_', End')
        BY <1>1, <1>4, <1>6, <3>1, <3>2 DEF DictInv
      <3> QED BY <1>2, <2>1, <3>3, <3>4, DictBecomes
    <2> QED BY <2>2, <2>3
  <1>11. /\ SymbolsAreText'
         /\ symbol'.at \in Nat /\ symbol'.len \in Nat /\ symbol'.dist \in Int
    <2>1. match_available_' \in BOOLEAN /\ (IF match_available_' THEN 1 ELSE 0) = 0
      BY <1>2, Zenon
    <2>2. CASE match_available_
      <3>1. PICK str \in Nat : str = strstart_ - 1 /\ str < End /\ str + 1 = strstart_
        BY <1>3, <1>4, <1>14, <2>2
      <3>2. base + str + 1 = base' + strstart_' - 0
        <4>1. str + 1 = st
          BY <1>15, <3>1
        <4>2. b + s = ba + st
          BY <1>15
        <4>3. ba + str + 1 = b + s - 0
          BY <4>1, <4>2
        <4> QED BY <1>15, <4>3
      <3>3. symbol' = LiteralOf(str)
        BY <1>2, <2>2, <3>1
      <3>4. base + str + 1 = base' + strstart_' - (IF match_available_' THEN 1 ELSE 0)
        BY <2>1, <3>2, Zenon
      <3> QED BY <1>1, <1>2, <1>5, <2>1, <3>1, <3>3, <3>4, LiteralFits
    <2>3. CASE ~match_available_
      <3>1. symbol' = symbol /\ match_available_' = match_available_
        BY <1>2, <1>14, <2>3, Zenon
      <3>2. base' + strstart_' = base + strstart_
        BY <1>5
      <3> QED BY <1>1, <1>2, <1>5, <3>1, <3>2, SymbolsStay DEF TypesInv
    <2> QED BY <2>2, <2>3
  <1>12. TypesInv'
    BY <1>1, <1>2, <1>3, <1>5, <1>11 DEF TypesInv
  <1>13. LongestFound'
    BY <1>2 DEF LongestFound, NoSearch
  <1> QED BY <1>7, <1>8, <1>9, <1>10, <1>11, <1>12, <1>13 DEF IInv

\* What the steps of the three functions have in common.
LEMMA StepKeeps ==
    ASSUME IInv, NEW n \in Nat, n > 0, n <= lookahead_, Advances(n),
           text' = text, config' = config, avail_in' = avail_in, Continues \/ MayReturn,
           NEW d, Becomes(d), DictOK(d, base, strstart_ + n, End),
           config.func # "rle" /\ lookahead_ - n >= 3 => Rolls(d.h, base + (strstart_ + n)),
           match_available_' \in BOOLEAN, match_available_' => config.func = "slow",
           match_start_' \in Int, match_length_' \in Nat, prev_length_' \in Nat,
           symbol'.at \in Nat /\ symbol'.len \in Nat /\ symbol'.dist \in Int
    PROVE  TypesInv' /\ DataInv' /\ StageInv' /\ InsertInv' /\ DictInv'
  <1>1. TypesInv /\ DataInv /\ InsertInv
    BY DEF IInv
  <1>2. /\ DataInv' /\ InsertInv' /\ End' = End
        /\ strstart_' = strstart_ + n /\ lookahead_' = lookahead_ - n
        /\ strstart_' \in Nat /\ lookahead_' \in Nat
        /\ base' = base /\ read' = read /\ insert_' = insert_ /\ window_' = window_
    BY <1>1, AdvanceKeeps
  <1>3. pc' \in {"fill", "step", "idle"} /\ (pc' = "step" => lookahead_' > 0)
    BY <1>1, <1>2, Continuing
  <1>4. strstart_' > 0
    <2>1. PICK st \in Nat : st = strstart_
      BY <1>1 DEF TypesInv
    <2>2. st + n > 0
      OBVIOUS
    <2> QED BY <1>2, <2>1, <2>2
  <1>5. StageInv'
    BY <1>3, <1>4 DEF StageInv
  <1>6. TypesInv'
    BY <1>1, <1>2, <1>3 DEF TypesInv
  <1>7. DictInv'
    <2>1. DictOK(d, base', strstart_', End')
      BY <1>2
    <2>2. config'.func # "rle" /\ lookahead_' >= 3 => Rolls(d.h, base' + strstart_')
      BY <1>2
    <2> QED BY <2>1, <2>2, DictBecomes
  <1> QED BY <1>2, <1>5, <1>6, <1>7

\* Without a match that is put off.
LEMMA NoMatch ==
    ASSUME match_length_' \in Nat, prev_length_' \in Nat, match_length_' < 3, prev_length_' < 3
    PROVE  MatchInv'
  <1>1. ~(match_length_' >= min_match) /\ ~(prev_length_' >= min_match)
        /\ match_length_' < min_match /\ prev_length_' < min_match
    BY Sizes
  <1> QED BY <1>1 DEF MatchInv

\* f_rle keeps the invariant: what repeats the byte before is a match at distance one.
LEMMA RleKeeps ==
    ASSUME IInv, f_rle
    PROVE  IInv'
  <1>1. TypesInv /\ DataInv /\ StageInv /\ InsertInv /\ MatchInv /\ DictInv /\ SymbolsAreText
    BY DEF IInv
  <1> DEFINE Again(i) == window_[strstart_ + i] = window_[strstart_ - 1]
             Ends == {i \in min_match..max_match : i = max_match \/ ~Again(i)}
             length == IF lookahead_ >= min_match /\ strstart_ > 0 /\ \A i \in 0..2 : Again(i)
                       THEN Min({Min(Ends), lookahead_}) ELSE 0
  <1>2. /\ pc = "step" /\ config.func = "rle" /\ match_length_' = 0 /\ search' = NoSearch
        /\ MayReturn /\ text' = text /\ config' = config /\ avail_in' = avail_in
        /\ UNCHANGED dictionary /\ match_start_' = match_start_ /\ prev_length_' = prev_length_
        /\ match_available_' = match_available_
    BY DEF f_rle, offer
  <1>3. IF length >= min_match THEN Match(strstart_, length, 1) /\ Advances(length)
        ELSE Literal(strstart_) /\ Advances(1)
    BY DEF f_rle
  <1>4. /\ lookahead_ \in Nat /\ lookahead_ > 0 /\ base \in Nat /\ strstart_ \in Nat
        /\ End = strstart_ + lookahead_ /\ End \in Nat
    BY <1>1, <1>2 DEF TypesInv, StageInv, End
  <1>5. match_available_ = FALSE
    BY <1>1, <1>2 DEF TypesInv, StageInv
  <1>6. prev_length_ \in Nat /\ prev_length_ < 3 /\ match_start_ \in Int
    BY <1>1, <1>2, Sizes DEF TypesInv, MatchInv
  <1>7. PICK n \in Nat : n > 0 /\ n <= lookahead_ /\ Advances(n)
          /\ \/ symbol' = LiteralOf(strstart_) /\ n = 1
             \/ /\ symbol' = [at |-> base + strstart_, len |-> n, dist |-> 1, byte |-> 0]
                /\ strstart_ > 0 /\ \A i \in 0..n - 1 : Again(i)
    <2>1. CASE ~(length >= min_match)
      <3>1. symbol' = LiteralOf(strstart_) /\ Advances(1)
        BY <1>3, <2>1 DEF Literal
      <3> HIDE DEF length, Again
      <3> QED BY <1>4, <3>1
    <2>2. CASE length >= min_match
      <3>1. lookahead_ >= min_match /\ strstart_ > 0 /\ \A i \in 0..2 : Again(i)
        BY <2>2, Sizes
      <3>2. length = Min({Min(Ends), lookahead_})
        BY <3>1
      <3> HIDE DEF length, Again
      <3>3. Ends \subseteq Nat /\ max_match \in Ends
        BY Sizes
      <3>4. Min(Ends) \in Ends /\ \A y \in Ends : Min(Ends) <= y
        <4> HIDE DEF Ends
        <4> QED BY <3>3, MinOf
      <3>5. PICK run \in Nat : run = Min(Ends)
        BY <3>3, <3>4
      <3>6. run <= max_match /\ \A i \in Nat : i >= 3 /\ i < run => Again(i)
        <4>1. run \in Ends /\ \A y \in Ends : run <= y
          BY <3>4, <3>5
        <4>2. run <= max_match
          BY <4>1
        <4>3. ASSUME NEW i \in Nat, i >= 3, i < run PROVE Again(i)
          <5>1. i \notin Ends
            BY <4>1, <4>3
          <5>2. i \in min_match..max_match
            BY <4>2, <4>3, Sizes
          <5> QED BY <5>1, <5>2
        <4> QED BY <4>2, <4>3
      <3>7. PICK n \in Nat : n = length /\ n <= run /\ n <= lookahead_
        <4>1. length = IF run <= lookahead_ THEN run ELSE lookahead_
          BY <1>4, <3>2, <3>5, MinOfTwo
        <4> QED BY <1>4, <4>1
      <3>8. n >= 3
        BY <2>2, <3>7, Sizes
      <3>9. symbol' = [at |-> base + strstart_, len |-> n, dist |-> 1, byte |-> 0] /\ Advances(n)
        BY <1>3, <2>2, <3>7 DEF Match
      <3>10. ASSUME NEW i \in 0..n - 1 PROVE Again(i)
        <4>1. CASE i >= 3
          BY <3>6, <3>7, <4>1
        <4>2. CASE i < 3
          BY <3>1, <4>2
        <4> QED BY <4>1, <4>2
      <3> QED BY <3>1, <3>7, <3>8, <3>9, <3>10
    <2> QED BY <2>1, <2>2
  <1>8. /\ DataInv' /\ InsertInv' /\ End' = End
        /\ strstart_' = strstart_ + n /\ lookahead_' = lookahead_ - n
        /\ strstart_' \in Nat /\ lookahead_' \in Nat
        /\ base' = base
    BY <1>1, <1>2, <1>7, AdvanceKeeps
  <1>9. /\ SymbolsAreText'
        /\ symbol'.at \in Nat /\ symbol'.len \in Nat /\ symbol'.dist \in Int
    <2>1. match_available_' \in BOOLEAN /\ (IF match_available_' THEN 1 ELSE 0) = 0
      BY <1>2, <1>5, Zenon
    <2>2. PICK b \in Nat, st \in Nat : b = base /\ st = strstart_
      BY <1>4
    <2>3. b + st + n = b + (st + n) - 0
      OBVIOUS
    <2>4. base + strstart_ + n = base' + strstart_' - (IF match_available_' THEN 1 ELSE 0)
      BY <1>8, <2>1, <2>2, <2>3, Zenon
    <2>5. CASE symbol' = LiteralOf(strstart_) /\ n = 1
      <3>1. base + strstart_ + 1 = base' + strstart_' - (IF match_available_' THEN 1 ELSE 0)
        BY <2>4, <2>5
      <3>2. strstart_ < End
        BY <1>4
      <3> QED BY <1>1, <1>2, <1>4, <1>8, <2>1, <2>5, <3>1, <3>2, LiteralFits
    <2>6. CASE /\ symbol' = [at |-> base + strstart_, len |-> n, dist |-> 1, byte |-> 0]
               /\ strstart_ > 0 /\ \A i \in 0..n - 1 : Again(i)
      <3>1. PICK at \in Nat : at = b + st /\ at = base + strstart_ /\ at - 1 = b + (st - 1)
        BY <2>2
      <3>2. Repeat(at, n, at - 1)
        <4>1. SUFFICES ASSUME NEW i \in 0..n - 1 PROVE At(at + i) = At(at - 1 + i)
          BY DEF Repeat
        <4> HIDE DEF Again
        <4>2. st > 0 /\ st + i \in 0..End - 1 /\ st + i - 1 \in 0..End - 1
          BY <1>4, <1>7, <2>2, <2>6
        <4>3. window_[st + i] = window_[st - 1]
          BY <2>2, <2>6 DEF Again
        <4>4. window_[st + i - 1] = window_[st - 1]
          <5>1. CASE i = 0
            BY <5>1
          <5>2. CASE i > 0
            <6>1. i - 1 \in 0..n - 1 /\ st + (i - 1) = st + i - 1
              BY <5>2
            <6>2. Again(i - 1)
              BY <2>6, <6>1
            <6> QED BY <2>2, <6>1, <6>2 DEF Again
          <5> QED BY <5>1, <5>2
        <4>5. window_[st + i] = At(base + (st + i)) /\ window_[st + i - 1] = At(base + (st + i - 1))
          BY <1>1, <4>2 DEF DataInv
        <4>6. b + (st + i) = at + i /\ b + (st + i - 1) = at - 1 + i
          BY <3>1
        <4> QED BY <2>2, <4>3, <4>4, <4>5, <4>6
      <3>3. at + n = base' + strstart_' - (IF match_available_' THEN 1 ELSE 0)
        BY <2>4, <3>1, Zenon
      <3>4. symbol' = [at |-> at, len |-> n, dist |-> 1, byte |-> 0] /\ 1 <= max_dist
        BY <2>6, <3>1, Sizes
      <3>5. PICK one \in Nat : one = 1
        OBVIOUS
      <3>6. one > 0 /\ one <= max_dist /\ Repeat(at, n, at - one)
        BY <3>2, <3>4, <3>5
      <3>7. symbol' = [at |-> at, len |-> n, dist |-> one, byte |-> 0]
        BY <3>4, <3>5
      <3>8. base' \in Nat /\ strstart_' \in Nat /\ match_available_' \in BOOLEAN
        BY <1>4, <1>8, <2>1
      <3> HIDE DEF Again, length
      <3> QED BY <1>1, <1>2, <3>3, <3>6, <3>7, <3>8, MatchFits, ZenonT(30)
    <2> QED BY <1>7, <2>5, <2>6
  <1>10. TypesInv' /\ StageInv' /\ DictInv'
    <2>1. PICK d : d = Dictionary
      OBVIOUS
    <2>2. Becomes(d)
      BY <1>2, <2>1 DEF dictionary, Dictionary, Becomes
    <2>3. DictOK(d, base, strstart_ + n, End)
      <3>1. DictOK(d, base, strstart_, End)
        BY <1>1, <2>1 DEF DictInv
      <3>2. PICK st \in Nat, more \in Nat : st = strstart_ /\ more = strstart_ + n /\ st <= more
        BY <1>4
      <3> QED BY <1>4, <3>1, <3>2, Further
    <2>4. match_available_' \in BOOLEAN /\ ~match_available_'
      BY <1>2, <1>5
    <2> HIDE DEF Again, length
    <2> QED BY <1>2, <1>6, <1>7, <1>9, <2>2, <2>3, <2>4, StepKeeps
  <1>11. MatchInv'
    BY <1>2, <1>6, NoMatch
  <1>12. LongestFound'
    BY <1>2 DEF LongestFound, NoSearch
  <1> QED BY <1>8, <1>9, <1>10, <1>11, <1>12 DEF IInv

\* What a search for the string at strstart_ finds, that has gone in.
LEMMA NearFinds ==
    ASSUME TypesInv, DataInv, DictInv, config.func # "rle", Near, text' = text,
           NEW prev_length \in Nat,
           NEW r, r = longest_match(HashHead, WithString.prev, prev_length)
    PROVE  /\ lookahead_ >= 3 /\ r.length \in Nat /\ r.length <= lookahead_ /\ r.start \in Int
           /\ r.length > prev_length =>
                /\ r.start \in Nat /\ strstart_ - r.start \in 1..max_dist
                /\ Repeat(base + strstart_, r.length, base + r.start)
           /\ Searched(prev_length, r) => LongestFound'
  <1>1. lookahead_ >= 3
    BY StringStaysOut
  <1>2. PICK prev : prev = WithString.prev
    OBVIOUS
  <1>3. Linked(prev) /\ HashHead \in Same /\ \A p \in Same : p <= HashHead
    BY <1>1, <1>2, StringGoesIn
  <1>4. PICK cur \in Same : cur = HashHead /\ (\A p \in Same : p <= cur)
                            /\ r = longest_match(cur, prev, prev_length)
    BY <1>2, <1>3
  <1>5. /\ r.length \in Nat /\ r.length <= lookahead_ /\ r.start \in Int
        /\ r.length > prev_length =>
              r.start \in Same /\ Repeat(base + strstart_, r.length, base + r.start)
    BY <1>1, <1>3, <1>4, SearchFinds
  <1>6. ASSUME r.length > prev_length
        PROVE  r.start \in Nat /\ strstart_ - r.start \in 1..max_dist
    <2>1. PICK m \in Same : m = r.start
      BY <1>5, <1>6
    <2>2. m \in Nat /\ m < strstart_ /\ strstart_ - m <= max_dist
      BY SamePlaces
    <2>3. strstart_ \in Nat
      BY DEF TypesInv
    <2> QED BY <2>1, <2>2, <2>3, Sizes
  <1>7. ASSUME Searched(prev_length, r) PROVE LongestFound'
    BY <1>1, <1>3, <1>4, <1>7, SearchIsLongest
  <1> QED BY <1>1, <1>5, <1>6, <1>7

\* The match that f_fast takes.
FastSearch == longest_match(HashHead, WithString.prev, prev_length_)
FastLength == IF Near THEN FastSearch.length ELSE match_length_
FastStart == IF Near THEN FastSearch.start ELSE match_start_

\* It is shorter than a match, or repeats the lookahead.
LEMMA FastFinds ==
    ASSUME TypesInv, DataInv, DictInv, MatchInv, config.func = "fast", text' = text,
           IF Near THEN Searched(prev_length_, FastSearch) ELSE search' = NoSearch
    PROVE  /\ FastLength \in Nat /\ FastStart \in Int /\ LongestFound'
           /\ FastLength >= 3 =>
                /\ lookahead_ >= 3 /\ FastLength <= lookahead_
                /\ FastStart \in Nat /\ strstart_ - FastStart \in 1..max_dist
                /\ Repeat(base + strstart_, FastLength, base + FastStart)
  <1>1. match_length_ \in Nat /\ prev_length_ \in Nat /\ match_start_ \in Int
    BY DEF TypesInv
  <1>2. match_length_ < 3 /\ prev_length_ < 3
    BY Sizes DEF MatchInv
  <1>3. CASE Near
    <2>1. PICK r : r = FastSearch
      OBVIOUS
    <2>2. FastLength = r.length /\ FastStart = r.start
      BY <1>3, <2>1, Zenon DEF FastLength, FastStart
    <2>3. r = longest_match(HashHead, WithString.prev, prev_length_)
      BY <2>1 DEF FastSearch
    <2>4. Searched(prev_length_, r)
      BY <1>3, <2>1
    <2>5. PICK pl \in Nat : pl = prev_length_ /\ pl < 3
      BY <1>1, <1>2
    <2>6. /\ lookahead_ >= 3 /\ r.length \in Nat /\ r.length <= lookahead_ /\ r.start \in Int
          /\ r.length > pl =>
                /\ r.start \in Nat /\ strstart_ - r.start \in 1..max_dist
                /\ Repeat(base + strstart_, r.length, base + r.start)
          /\ Searched(pl, r) => LongestFound'
      <3>1. r = longest_match(HashHead, WithString.prev, pl)
        BY <2>3, <2>5
      <3>2. config.func # "rle"
        OBVIOUS
      <3> QED BY <1>3, <2>5, <3>1, <3>2, NearFinds
    <2>7. PICK n \in Nat : n = r.length /\ (n >= 3 => n > pl)
      BY <2>5, <2>6
    <2> QED BY <2>2, <2>4, <2>5, <2>6, <2>7
  <1>4. CASE ~Near
    <2>1. FastLength = match_length_ /\ FastStart = match_start_ /\ search' = NoSearch
      BY <1>4, Zenon DEF FastLength, FastStart
    <2>2. LongestFound'
      BY <2>1 DEF LongestFound, NoSearch
    <2>3. PICK n \in Nat : n = FastLength /\ ~(n >= 3)
      BY <1>1, <1>2, <2>1
    <2> QED BY <1>1, <2>1, <2>2, <2>3
  <1> QED BY <1>3, <1>4

\* The dictionary that holds the string at strstart_ as a record.
LEMMA WithStringIs ==
    WithString = [head |-> WithString.head, prev |-> WithString.prev,
                  h |-> WithString.h, strings |-> WithString.strings]
  <1>1. CASE lookahead_ >= min_match
    BY <1>1 DEF WithString, insert_string
  <1>2. CASE ~(lookahead_ >= min_match)
    BY <1>2 DEF WithString, Dictionary
  <1> QED BY <1>1, <1>2

\* A dictionary does not change but for the hash when that is taken afresh.
LEMMA HashedAfresh ==
    ASSUME TypesInv, DataInv, NEW d,
           d = [head |-> d.head, prev |-> d.prev, h |-> d.h, strings |-> d.strings],
           NEW top \in Nat, NEW more \in Nat, top <= more, more <= End,
           DictOK(d, base, top, End),
           NEW e, e = [d EXCEPT !.h = HashOfTwo(window_, more)]
    PROVE  /\ DictOK(e, base, more, End)
           /\ End - more >= 3 => Rolls(e.h, base + more)
  <1>1. e = [head |-> d.head, prev |-> d.prev, h |-> HashOfTwo(window_, more), strings |-> d.strings]
    OBVIOUS
  <1>2. base \in Nat /\ End \in Nat
    BY DEF TypesInv, End
  <1>3. DictOK(d, base, more, End)
    BY <1>2, Further
  <1>4. /\ e.head = d.head /\ e.prev = d.prev /\ e.strings = d.strings
        /\ e.h = HashOfTwo(window_, more)
    BY <1>1
  <1>5. DictOK(e, base, more, End)
    BY <1>3, <1>4 DEF DictOK
  <1>6. ASSUME End - more >= 3 PROVE Rolls(e.h, base + more)
    <2>1. more \in 0..End - 1 /\ more + 1 \in 0..End - 1
      BY <1>2, <1>6
    <2>2. window_[more] = At(base + more) /\ window_[more + 1] = At(base + (more + 1))
      BY <2>1 DEF DataInv
    <2>3. base + (more + 1) = base + more + 1
      BY <1>2
    <2>4. e.h = update_hash(At(base + more), At(base + more + 1))
      BY <1>4, <2>2, <2>3 DEF HashOfTwo
    <2> QED BY <2>4 DEF Rolls
  <1> QED BY <1>5, <1>6

\* The dictionary after the string at strstart_ and, if they go in, the others of a match.
LEMMA FastInserts ==
    ASSUME TypesInv, DataInv, DictInv, config.func # "rle", lookahead_ >= 3,
           NEW n \in Nat, n >= 3, n <= lookahead_, NEW d,
           \/ /\ lookahead_ - n >= 3
              /\ d = Inserted(WithString, window_, strstart_ + 1, strstart_ + n - 1)
           \/ d = [WithString EXCEPT !.h = HashOfTwo(window_, strstart_ + n)]
    PROVE  /\ DictOK(d, base, strstart_ + n, End)
           /\ lookahead_ - n >= 3 => Rolls(d.h, base + (strstart_ + n))
  <1>1. /\ base \in Nat /\ strstart_ \in Nat /\ lookahead_ \in Nat
        /\ base + End <= Len(text) /\ End <= window_size
    BY EndFacts
  <1>2. PICK from \in Nat, to \in Nat, more \in Nat, end \in Nat :
          /\ from = strstart_ + 1 /\ to = strstart_ + n - 1 /\ more = strstart_ + n /\ end = End
          /\ from <= more /\ to + 1 = more /\ from <= to + 1
          /\ end - more = lookahead_ - n /\ more <= end
          /\ (lookahead_ - n >= 3 => to + 3 <= end)
    <2>1. PICK st \in Nat, ahead \in Nat : st = strstart_ /\ ahead = lookahead_ /\ n <= ahead
      BY <1>1
    <2>2. PICK from \in Nat, to \in Nat, more \in Nat, end \in Nat :
            /\ from = st + 1 /\ to = st + n - 1 /\ more = st + n /\ end = st + ahead
      OBVIOUS
    <2>3. from <= more /\ to + 1 = more /\ from <= to + 1 /\ end - more = ahead - n /\ more <= end
          /\ (ahead - n >= 3 => to + 3 <= end)
      BY <2>1, <2>2
    <2> QED BY <2>1, <2>2, <2>3 DEF End
  <1>3. PICK w : w = WithString
    OBVIOUS
  <1>4. DictOK(w, base, from, end) /\ Rolls(w.h, base + from)
    BY <1>2, <1>3, StringGoesIn
  <1>5. CASE lookahead_ - n >= 3 /\ d = Inserted(w, window_, from, to)
    <2>1. /\ to + 3 <= end /\ end <= window_size /\ base + end <= Len(text)
          /\ \A i \in 0..end - 1 : window_[i] = At(base + i)
      BY <1>1, <1>2, <1>5 DEF DataInv
    <2>2. /\ DictOK(Inserted(w, window_, from, to), base, to + 1, end)
          /\ Rolls(Inserted(w, window_, from, to).h, base + (to + 1))
      <3>1. PICK b \in Nat, int \in Int : b = base /\ int = to
        BY <1>1
      <3>2. PICK v : v = window_
        OBVIOUS
      <3>3. /\ from <= int + 1 /\ int + 3 <= end /\ DictOK(w, b, from, end) /\ end <= window_size
            /\ b + end <= Len(text) /\ Rolls(w.h, b + from)
        BY <1>2, <1>4, <2>1, <3>1
      <3>4. \A i \in 0..end - 1 : v[i] = At(b + i)
        BY <2>1, <3>1, <3>2
      <3>5. /\ DictOK(Inserted(w, v, from, int), b, int + 1, end)
            /\ Rolls(Inserted(w, v, from, int).h, b + (int + 1))
        BY <3>3, <3>4, InsertedKeeps, ZenonT(30)
      <3> QED BY <3>1, <3>2, <3>5
    <2> QED BY <1>2, <1>5, <2>2
  <1>6. CASE d = [w EXCEPT !.h = HashOfTwo(window_, more)]
    <2>1. w = [head |-> w.head, prev |-> w.prev, h |-> w.h, strings |-> w.strings]
      BY <1>3, WithStringIs
    <2>2. DictOK(d, base, more, End) /\ (End - more >= 3 => Rolls(d.h, base + more))
      BY <1>2, <1>4, <1>6, <2>1, HashedAfresh
    <2> QED BY <1>2, <2>2
  <1> QED BY <1>2, <1>3, <1>5, <1>6

\* f_fast keeps the invariant.
LEMMA FastKeeps ==
    ASSUME IInv, f_fast
    PROVE  IInv'
  <1>1. TypesInv /\ DataInv /\ StageInv /\ InsertInv /\ MatchInv /\ DictInv
    BY DEF IInv
  <1>2. /\ pc = "step" /\ config.func = "fast" /\ match_start_' = FastStart /\ MayReturn
        /\ IF Near THEN Searched(prev_length_, FastSearch) ELSE search' = NoSearch
        /\ text' = text /\ config' = config /\ avail_in' = avail_in
        /\ prev_length_' = prev_length_ /\ match_available_' = match_available_
    BY DEF f_fast, offer, FastSearch, FastLength, FastStart
  <1>3. IF FastLength >= min_match
        THEN /\ Match(strstart_, FastLength, strstart_ - FastStart)
             /\ Advances(FastLength) /\ match_length_' = 0
             /\ Becomes(IF FastLength <= config.lazy /\ lookahead_ - FastLength >= min_match
                        THEN Inserted(WithString, window_, strstart_ + 1, strstart_ + FastLength - 1)
                        ELSE [WithString EXCEPT !.h = HashOfTwo(window_, strstart_ + FastLength)])
        ELSE /\ Literal(strstart_) /\ Advances(1) /\ match_length_' = FastLength
             /\ Becomes(WithString)
    BY DEF f_fast, FastSearch, FastLength, FastStart
  <1>4. /\ FastLength \in Nat /\ FastStart \in Int /\ LongestFound'
        /\ FastLength >= 3 =>
             /\ lookahead_ >= 3 /\ FastLength <= lookahead_
             /\ FastStart \in Nat /\ strstart_ - FastStart \in 1..max_dist
             /\ Repeat(base + strstart_, FastLength, base + FastStart)
    BY <1>1, <1>2, FastFinds
  <1>5. /\ lookahead_ \in Nat /\ lookahead_ > 0 /\ base \in Nat /\ strstart_ \in Nat
        /\ End = strstart_ + lookahead_ /\ End \in Nat
    BY <1>1, <1>2 DEF TypesInv, StageInv, End
  <1>6. match_available_ = FALSE
    BY <1>1, <1>2 DEF TypesInv, StageInv
  <1>7. prev_length_ \in Nat /\ prev_length_ < 3
    BY <1>1, <1>2, Sizes DEF TypesInv, MatchInv
  <1>8. PICK len \in Nat, start \in Int, fit \in Nat :
          len = FastLength /\ start = FastStart /\ fit = (IF len >= 3 THEN len ELSE 1)
    BY <1>4
  <1>9. fit > 0 /\ fit <= lookahead_ /\ Advances(fit)
        /\ match_length_' \in Nat /\ match_length_' < 3
    <2>1. CASE len >= 3
      <3>1. FastLength >= min_match
        BY <1>8, <2>1, Sizes
      <3>2. fit = len /\ match_length_' = 0 /\ Advances(len) /\ len <= lookahead_
        BY <1>3, <1>4, <1>8, <2>1, <3>1
      <3> QED BY <2>1, <3>2
    <2>2. CASE ~(len >= 3)
      <3>1. ~(FastLength >= min_match)
        BY <1>8, <2>2, Sizes
      <3>2. fit = 1 /\ match_length_' = len /\ Advances(1)
        BY <1>3, <1>8, <2>2, <3>1
      <3> QED BY <1>5, <2>2, <3>2
    <2> QED BY <2>1, <2>2
  <1>10. /\ DataInv' /\ InsertInv' /\ End' = End
         /\ strstart_' = strstart_ + fit /\ lookahead_' = lookahead_ - fit
         /\ strstart_' \in Nat /\ lookahead_' \in Nat /\ base' = base
    BY <1>1, <1>2, <1>9, AdvanceKeeps
  <1>11. match_available_' \in BOOLEAN /\ (IF match_available_' THEN 1 ELSE 0) = 0
    BY <1>2, <1>6, Zenon
  <1>12. PICK b \in Nat, st \in Nat : b = base /\ st = strstart_
    BY <1>5
  <1>13. base + strstart_ + fit = base' + strstart_' - (IF match_available_' THEN 1 ELSE 0)
    <2>1. b + st + fit = b + (st + fit) - 0
      OBVIOUS
    <2> QED BY <1>10, <1>11, <1>12, <2>1, Zenon
  <1>14. /\ SymbolsAreText'
         /\ symbol'.at \in Nat /\ symbol'.len \in Nat /\ symbol'.dist \in Int
    <2>1. CASE len >= 3
      <3>1. fit = len /\ FastLength >= min_match
        BY <1>8, <2>1, Sizes
      <3>2. PICK at \in Nat, dist \in Nat :
              /\ at = b + st /\ dist = st - start /\ dist > 0 /\ dist <= max_dist
              /\ at = base + strstart_ /\ at - dist = b + start
        <4>1. st - start \in 1..max_dist
          BY <1>4, <1>8, <1>12, <2>1
        <4>2. st - start \in Nat /\ st - start > 0 /\ st - start <= max_dist
          BY <4>1, Sizes
        <4>3. PICK x \in Nat : x = st - start
          BY <4>2
        <4>4. b + st - x = b + start
          BY <4>3
        <4> QED BY <1>12, <4>2, <4>3, <4>4
      <3>3. Repeat(at, len, at - dist)
        BY <1>4, <1>8, <1>12, <2>1, <3>2
      <3>4. symbol' = [at |-> at, len |-> len, dist |-> dist, byte |-> 0]
        BY <1>3, <1>8, <1>12, <3>1, <3>2 DEF Match
      <3>5. at + len = base' + strstart_' - (IF match_available_' THEN 1 ELSE 0)
        BY <1>13, <3>1, <3>2, Zenon
      <3>6. base' \in Nat
        BY <1>5, <1>10
      <3> QED BY <1>1, <1>2, <1>10, <1>11, <3>2, <3>3, <3>4, <3>5, <3>6, MatchFits, ZenonT(30)
    <2>2. CASE ~(len >= 3)
      <3>1. fit = 1 /\ ~(FastLength >= min_match)
        BY <1>8, <2>2, Sizes
      <3>2. symbol' = LiteralOf(strstart_)
        BY <1>3, <3>1 DEF Literal
      <3>3. base + strstart_ + 1 = base' + strstart_' - (IF match_available_' THEN 1 ELSE 0)
        BY <1>13, <3>1
      <3>4. strstart_ < End
        BY <1>5
      <3> QED BY <1>1, <1>2, <1>5, <1>10, <1>11, <3>2, <3>3, <3>4, LiteralFits
    <2> QED BY <2>1, <2>2
  <1>15. PICK d : Becomes(d) /\ DictOK(d, base, strstart_ + fit, End)
                  /\ (lookahead_ - fit >= 3 => Rolls(d.h, base + (strstart_ + fit)))
    <2>1. CASE len >= 3
      <3>1. fit = len /\ FastLength >= min_match /\ lookahead_ >= 3 /\ len <= lookahead_
        BY <1>4, <1>8, <2>1, Sizes
      <3>2. PICK d : /\ Becomes(d)
                     /\ \/ /\ lookahead_ - len >= 3
                           /\ d = Inserted(WithString, window_, strstart_ + 1, strstart_ + len - 1)
                        \/ d = [WithString EXCEPT !.h = HashOfTwo(window_, strstart_ + len)]
        BY <1>3, <1>8, <3>1, Sizes
      <3>3. /\ DictOK(d, base, strstart_ + len, End)
            /\ lookahead_ - len >= 3 => Rolls(d.h, base + (strstart_ + len))
        BY <1>1, <1>2, <2>1, <3>1, <3>2, FastInserts
      <3> QED BY <3>1, <3>2, <3>3
    <2>2. CASE ~(len >= 3)
      <3>1. fit = 1 /\ ~(FastLength >= min_match)
        BY <1>8, <2>2, Sizes
      <3>2. Becomes(WithString)
        BY <1>3, <3>1
      <3>3. DictOK(WithString, base, strstart_ + 1, End)
        BY <1>1, <1>2, StringGoesIn, StringStaysOut
      <3>4. lookahead_ - 1 >= 3 => lookahead_ >= 3
        BY <1>5
      <3>5. lookahead_ >= 3 => Rolls(WithString.h, base + (strstart_ + 1))
        BY <1>1, <1>2, StringGoesIn
      <3> QED BY <3>1, <3>2, <3>3, <3>4, <3>5
    <2> QED BY <2>1, <2>2
  <1>16. TypesInv' /\ StageInv' /\ DictInv'
    <2>1. /\ match_available_' \in BOOLEAN /\ ~match_available_' /\ match_start_' \in Int
          /\ prev_length_' \in Nat
      BY <1>2, <1>4, <1>6, <1>7
    <2> QED BY <1>2, <1>9, <1>14, <1>15, <2>1, StepKeeps
  <1>17. MatchInv'
    BY <1>2, <1>7, <1>9, NoMatch
  <1> QED BY <1>4, <1>10, <1>14, <1>16, <1>17 DEF IInv

\* What f_slow finds for the string at strstart_.
SlowSearch == longest_match(HashHead, WithString.prev, match_length_)
SlowSearches == Near /\ match_length_ < config.lazy
SlowLength == IF SlowSearches /\ ~Ignored(SlowSearch) THEN SlowSearch.length ELSE min_match - 1

\* A match that is longer than the one put off repeats the lookahead.
LEMMA SlowFinds ==
    ASSUME TypesInv, DataInv, DictInv, config.func = "slow", text' = text,
           match_start_' = IF SlowSearches THEN SlowSearch.start ELSE match_start_,
           IF SlowSearches THEN Searched(match_length_, SlowSearch) ELSE search' = NoSearch
    PROVE  /\ SlowLength \in Nat /\ match_start_' \in Int /\ LongestFound'
           /\ SlowLength >= 3 /\ SlowLength > match_length_ =>
                /\ SlowLength <= lookahead_ /\ strstart_ - match_start_' \in 1..max_dist
                /\ Repeat(base + strstart_, SlowLength, base + match_start_')
  <1>1. match_length_ \in Nat /\ match_start_ \in Int
    BY DEF TypesInv
  <1>2. min_match - 1 = 2
    BY Sizes
  <1>3. CASE SlowSearches
    <2>1. PICK r : r = SlowSearch
      OBVIOUS
    <2>2. Near
      BY <1>3 DEF SlowSearches
    <2>3. PICK m \in Nat : m = match_length_
      BY <1>1
    <2>4. r = longest_match(HashHead, WithString.prev, m)
      BY <2>1, <2>3 DEF SlowSearch
    <2>5. config.func # "rle"
      OBVIOUS
    <2>6. /\ r.length \in Nat /\ r.length <= lookahead_ /\ r.start \in Int
          /\ r.length > m =>
                /\ r.start \in Nat /\ strstart_ - r.start \in 1..max_dist
                /\ Repeat(base + strstart_, r.length, base + r.start)
          /\ Searched(m, r) => LongestFound'
      BY <2>2, <2>4, <2>5, NearFinds
    <2>7. Searched(m, r) /\ match_start_' = r.start
      BY <1>3, <2>1, <2>3
    <2>8. SlowLength = r.length \/ SlowLength = 2
      BY <1>2, <2>1, Zenon DEF SlowLength
    <2>9. SlowLength \in Nat
      BY <2>6, <2>8
    <2>10. SlowLength >= 3 => SlowLength = r.length
      BY <2>8
    <2> QED BY <2>3, <2>6, <2>7, <2>9, <2>10
  <1>4. CASE ~SlowSearches
    <2>1. match_start_' = match_start_ /\ search' = NoSearch
      BY <1>4, Zenon
    <2>2. SlowLength = 2
      BY <1>2, <1>4, Zenon DEF SlowLength
    <2>3. LongestFound'
      BY <2>1 DEF LongestFound, NoSearch
    <2> QED BY <1>1, <2>1, <2>2, <2>3
  <1> QED BY <1>3, <1>4

\* The strings of the match that f_slow takes go in as far as there is enough of them.
LEMMA SlowInserts ==
    ASSUME TypesInv, DataInv, DictInv, config.func # "rle",
           NEW m \in Nat, m >= 3, m - 1 <= lookahead_, NEW d,
           d = Inserted(WithString, window_, strstart_ + 1,
                        Min({strstart_ + m - 2, strstart_ + lookahead_ - min_match}))
    PROVE  /\ DictOK(d, base, strstart_ + (m - 1), End)
           /\ lookahead_ - (m - 1) >= 3 => Rolls(d.h, base + (strstart_ + (m - 1)))
  <1>1. /\ base \in Nat /\ strstart_ \in Nat /\ lookahead_ \in Nat
        /\ base + End <= Len(text) /\ End <= window_size
    BY EndFacts
  <1>2. PICK st \in Nat, ahead \in Nat, end \in Nat :
          st = strstart_ /\ ahead = lookahead_ /\ m - 1 <= ahead /\ end = End /\ end = st + ahead
    BY <1>1 DEF End
  <1>3. PICK from \in Nat, to \in Int, more \in Nat :
          /\ from = st + 1 /\ more = st + (m - 1)
          /\ to = IF st + m - 2 <= st + ahead - 3 THEN st + m - 2 ELSE st + ahead - 3
    OBVIOUS
  <1>4. d = Inserted(WithString, window_, from, to)
    <2>1. Min({st + m - 2, st + ahead - 3}) = to
      <3>1. PICK x \in Int, y \in Int : x = st + m - 2 /\ y = st + ahead - 3
        OBVIOUS
      <3>2. Min({x, y}) = IF x <= y THEN x ELSE y
        BY MinOfTwo
      <3> QED BY <1>3, <3>1, <3>2
    <2>2. min_match = 3
      BY Sizes
    <2> QED BY <1>2, <1>3, <2>1, <2>2
  <1>5. PICK w : w = WithString
    OBVIOUS
  <1>6. DictOK(w, base, from, end)
    BY <1>2, <1>3, <1>5, StringGoesIn, StringStaysOut
  <1>7. CASE ahead >= 3
    <2>1. from <= to + 1 /\ to + 3 <= end /\ to + 1 \in Nat /\ to + 1 <= more
      BY <1>2, <1>3, <1>7
    <2>2. ahead - (m - 1) >= 3 => to + 1 = more
      BY <1>2, <1>3, <1>7
    <2>3. Rolls(w.h, base + from)
      BY <1>2, <1>3, <1>5, <1>7, StringGoesIn
    <2>4. PICK b \in Nat : b = base
      BY <1>1
    <2>5. PICK v : v = window_
      OBVIOUS
    <2>6. /\ DictOK(w, b, from, end) /\ end <= window_size /\ b + end <= Len(text)
          /\ Rolls(w.h, b + from)
      BY <1>1, <1>2, <1>6, <2>3, <2>4
    <2>7. \A i \in 0..end - 1 : v[i] = At(b + i)
      BY <1>2, <2>4, <2>5 DEF DataInv
    <2>8. /\ DictOK(Inserted(w, v, from, to), b, to + 1, end)
          /\ Rolls(Inserted(w, v, from, to).h, b + (to + 1))
      BY <2>1, <2>6, <2>7, InsertedKeeps, ZenonT(30)
    <2>9. DictOK(d, b, to + 1, end) /\ Rolls(d.h, b + (to + 1))
      BY <1>4, <1>5, <2>5, <2>8
    <2>10. DictOK(d, b, more, end)
      <3>1. PICK top \in Nat : top = to + 1 /\ top <= more
        BY <2>1
      <3>2. DictOK(d, b, top, end) /\ end <= end
        BY <2>9, <3>1
      <3> QED BY <3>1, <3>2, Further
    <2>11. ahead - (m - 1) >= 3 => Rolls(d.h, b + more)
      BY <2>2, <2>9
    <2> QED BY <1>2, <1>3, <2>4, <2>10, <2>11
  <1>8. CASE ~(ahead >= 3)
    <2>1. from > to
      BY <1>3, <1>8
    <2>2. d = w
      BY <1>4, <1>5, <2>1 DEF Inserted
    <2>3. from <= more /\ ~(ahead - (m - 1) >= 3) /\ end <= end
      BY <1>3, <1>8
    <2>4. DictOK(d, base, more, end)
      BY <1>1, <1>6, <2>2, <2>3, Further
    <2> QED BY <1>2, <1>3, <2>3, <2>4
  <1> QED BY <1>7, <1>8

\* f_slow takes the match that it had put off.
SlowTakes ==
    /\ match_length_ >= min_match /\ SlowLength <= match_length_
    /\ Match(strstart_ - 1, match_length_, strstart_ - 1 - match_start_)
    /\ Advances(match_length_ - 1)
    /\ Becomes(Inserted(WithString, window_, strstart_ + 1,
                        Min({strstart_ + match_length_ - 2, strstart_ + lookahead_ - min_match})))
    /\ prev_length_' = 0 /\ match_length_' = min_match - 1 /\ match_available_' = FALSE
    /\ MayReturn

\* f_slow puts a match off, if it has found one.
SlowWaits ==
    /\ ~(match_length_ >= min_match /\ SlowLength <= match_length_)
    /\ Advances(1)
    /\ IF match_available_ THEN Literal(strstart_ - 1) /\ MayReturn
       ELSE Continues /\ UNCHANGED symbols
    /\ Becomes(WithString)
    /\ prev_length_' = match_length_ /\ match_length_' = SlowLength /\ match_available_' = TRUE

\* The match that is taken is the input at its place.
LEMMA SlowTakesKeeps ==
    ASSUME IInv, SlowTakes, pc = "step", config.func = "slow", match_start_' \in Int,
           text' = text, config' = config, avail_in' = avail_in, LongestFound'
    PROVE  IInv'
  <1>1. TypesInv /\ DataInv /\ StageInv /\ InsertInv /\ MatchInv /\ DictInv
    BY DEF IInv
  <1>2. /\ lookahead_ \in Nat /\ lookahead_ > 0 /\ base \in Nat /\ strstart_ \in Nat
        /\ match_length_ \in Nat /\ match_start_ \in Int
    BY <1>1 DEF TypesInv, StageInv
  <1>3. match_length_ >= min_match /\ match_length_ >= 3
    BY Sizes DEF SlowTakes
  <1>4. /\ match_length_ <= lookahead_ + 1 /\ strstart_ - 1 - match_start_ \in 1..max_dist
        /\ Repeat(base + strstart_ - 1, match_length_, base + match_start_)
        /\ match_available_ /\ strstart_ > 0
    BY <1>1, <1>3 DEF MatchInv, StageInv
  <1>5. PICK m \in Nat, fit \in Nat : /\ m = match_length_ /\ m >= 3 /\ fit = m - 1 /\ fit > 0
                                      /\ fit <= lookahead_
    <2>1. PICK m \in Nat, ahead \in Nat : m = match_length_ /\ m >= 3 /\ ahead = lookahead_
                                          /\ m <= ahead + 1
      BY <1>2, <1>3, <1>4
    <2>2. m - 1 \in Nat /\ m - 1 > 0 /\ m - 1 <= ahead
      BY <2>1
    <2> QED BY <2>1, <2>2
  <1>6. Advances(fit) /\ MayReturn /\ match_available_' = FALSE /\ prev_length_' = 0
        /\ match_length_' = 2
    BY <1>5, Sizes DEF SlowTakes
  <1>7. /\ DataInv' /\ InsertInv' /\ End' = End
        /\ strstart_' = strstart_ + fit /\ lookahead_' = lookahead_ - fit
        /\ strstart_' \in Nat /\ lookahead_' \in Nat /\ base' = base
    BY <1>1, <1>5, <1>6, AdvanceKeeps
  <1>8. match_available_' \in BOOLEAN /\ (IF match_available_' THEN 1 ELSE 0) = 0
    BY <1>6, Zenon
  <1>9. PICK b \in Nat, st \in Nat, start \in Int : b = base /\ st = strstart_ /\ st > 0
                                                    /\ start = match_start_
    BY <1>2, <1>4
  <1>10. PICK at \in Nat, dist \in Nat :
           /\ at = b + (st - 1) /\ dist = st - 1 - start /\ dist > 0 /\ dist <= max_dist
           /\ at = b + st - 1 /\ at - dist = b + start /\ at + m = b + (st + fit) - 0
    <2>1. st - 1 - start \in 1..max_dist
      BY <1>4, <1>9
    <2>2. PICK x \in Nat : x = st - 1 - start /\ x > 0 /\ x <= max_dist
      BY <2>1, Sizes
    <2>3. PICK y \in Nat : y = b + (st - 1)
      BY <1>9
    <2>4. y = b + st - 1 /\ y - x = b + start /\ y + m = b + (st + fit) - 0
      BY <1>5, <1>9, <2>2, <2>3
    <2> QED BY <2>2, <2>3, <2>4
  <1>11. /\ SymbolsAreText'
         /\ symbol'.at \in Nat /\ symbol'.len \in Nat /\ symbol'.dist \in Int
    <2>1. Repeat(at, m, at - dist)
      BY <1>4, <1>5, <1>9, <1>10
    <2>2. symbol' = [at |-> at, len |-> m, dist |-> dist, byte |-> 0]
      <3>1. Match(strstart_ - 1, match_length_, strstart_ - 1 - match_start_)
        BY DEF SlowTakes
      <3> QED BY <1>5, <1>9, <1>10, <3>1 DEF Match
    <2>3. at + m = base' + strstart_' - (IF match_available_' THEN 1 ELSE 0)
      BY <1>7, <1>8, <1>9, <1>10, Zenon
    <2>4. base' \in Nat
      BY <1>2, <1>7
    <2> QED BY <1>1, <1>7, <1>8, <1>10, <2>1, <2>2, <2>3, <2>4, MatchFits, ZenonT(30)
  <1>12. PICK d : Becomes(d) /\ DictOK(d, base, strstart_ + fit, End)
                  /\ (lookahead_ - fit >= 3 => Rolls(d.h, base + (strstart_ + fit)))
    <2>1. PICK d : /\ Becomes(d)
                   /\ d = Inserted(WithString, window_, strstart_ + 1,
                                   Min({strstart_ + m - 2, strstart_ + lookahead_ - min_match}))
      BY <1>5 DEF SlowTakes
    <2>2. m - 1 <= lookahead_ /\ config.func # "rle"
      BY <1>5
    <2>3. /\ DictOK(d, base, strstart_ + (m - 1), End)
          /\ lookahead_ - (m - 1) >= 3 => Rolls(d.h, base + (strstart_ + (m - 1)))
      BY <1>1, <1>5, <2>1, <2>2, SlowInserts
    <2> QED BY <1>5, <2>1, <2>3
  <1>13. TypesInv' /\ StageInv' /\ DictInv'
    <2>1. match_available_' \in BOOLEAN /\ ~match_available_' /\ prev_length_' \in Nat
          /\ match_length_' \in Nat
      BY <1>6
    <2> QED BY <1>5, <1>6, <1>11, <1>12, <2>1, StepKeeps
  <1>14. MatchInv'
    BY <1>6, NoMatch
  <1> QED BY <1>7, <1>11, <1>13, <1>14 DEF IInv

\* The match that is put off repeats the input, and the byte before it is settled.
LEMMA SlowWaitsKeeps ==
    ASSUME IInv, SlowWaits, pc = "step", config.func = "slow", match_start_' \in Int,
           text' = text, config' = config, avail_in' = avail_in, LongestFound',
           SlowLength \in Nat,
           SlowLength >= 3 /\ SlowLength > match_length_ =>
                /\ SlowLength <= lookahead_ /\ strstart_ - match_start_' \in 1..max_dist
                /\ Repeat(base + strstart_, SlowLength, base + match_start_')
    PROVE  IInv'
  <1>1. TypesInv /\ DataInv /\ StageInv /\ InsertInv /\ MatchInv /\ DictInv /\ SymbolsAreText
    BY DEF IInv
  <1>2. /\ lookahead_ \in Nat /\ lookahead_ > 0 /\ base \in Nat /\ strstart_ \in Nat
        /\ match_length_ \in Nat /\ match_available_ \in BOOLEAN
        /\ (match_available_ => strstart_ > 0) /\ End = strstart_ + lookahead_
    BY <1>1 DEF TypesInv, StageInv, End
  <1>3. /\ Advances(1) /\ Becomes(WithString) /\ prev_length_' = match_length_
        /\ match_length_' = SlowLength /\ match_available_' = TRUE
        /\ Continues \/ MayReturn
    BY DEF SlowWaits
  <1>4. 1 \in Nat /\ 1 > 0 /\ 1 <= lookahead_
    BY <1>2
  <1>5. /\ DataInv' /\ InsertInv' /\ End' = End
        /\ strstart_' = strstart_ + 1 /\ lookahead_' = lookahead_ - 1
        /\ strstart_' \in Nat /\ lookahead_' \in Nat /\ base' = base
    BY <1>1, <1>3, <1>4, AdvanceKeeps
  <1>6. PICK b \in Nat, st \in Nat, ahead \in Nat, m \in Nat, n \in Nat, start \in Int :
          /\ b = base /\ st = strstart_ /\ ahead = lookahead_ /\ ahead > 0 /\ m = match_length_
          /\ n = SlowLength /\ start = match_start_'
    BY <1>2
  <1>7. (n >= 3 /\ n > m) => /\ n <= ahead /\ st - start \in 1..max_dist
                             /\ Repeat(b + st, n, b + start)
    BY <1>6
  <1>8. ~(m >= 3 /\ n <= m)
    BY <1>6, Sizes DEF SlowWaits
  <1>9. (m >= 3 => m <= ahead - 1) /\ (n >= 3 => n > m)
    <2>1. m >= 3 => n > m /\ n >= 3
      BY <1>8
    <2>2. (n >= 3 /\ n > m) => n <= ahead
      BY <1>7
    <2>3. m >= 3 => m <= ahead - 1
      BY ONLY <1>6, <2>1, <2>2, m \in Nat, n \in Nat, ahead \in Nat
    <2>4. n >= 3 => n > m
      BY ONLY <1>8, m \in Nat, n \in Nat
    <2> QED BY <2>3, <2>4
  <1>10. MatchInv'
    <2>1. m >= min_match => m <= ahead - 1
      BY <1>9, Sizes
    <2>2. n >= min_match => /\ n <= ahead - 1 + 1 /\ st + 1 - 1 - start \in 1..max_dist
                            /\ Repeat(b + (st + 1) - 1, n, b + start)
      <3>1. ahead - 1 + 1 = ahead /\ st + 1 - 1 = st /\ b + (st + 1) - 1 = b + st
        OBVIOUS
      <3>2. n >= min_match => n >= 3 /\ n > m
        BY <1>9, Sizes
      <3> QED BY <1>7, <3>1, <3>2
    <2>3. \A x, y, z : Repeat(x, y, z)' = Repeat(x, y, z)
      BY DEF Repeat, At
    <2>4. prev_length_' = m /\ match_length_' = n /\ lookahead_' = ahead - 1
          /\ strstart_' = st + 1 /\ base' = b /\ match_start_' = start /\ match_available_'
      BY <1>3, <1>5, <1>6
    <2>5. config'.func = "slow"
      OBVIOUS
    <2> QED BY <2>1, <2>2, <2>3, <2>4, <2>5 DEF MatchInv
  <1>11. match_available_' \in BOOLEAN /\ (IF match_available_' THEN 1 ELSE 0) = 1
    BY <1>3, Zenon
  <1>12. base + strstart_ = base' + strstart_' - (IF match_available_' THEN 1 ELSE 0)
    <2>1. b + st = b + (st + 1) - 1
      OBVIOUS
    <2> QED BY <1>5, <1>6, <1>11, <2>1, Zenon
  <1>13. /\ SymbolsAreText'
         /\ symbol'.at \in Nat /\ symbol'.len \in Nat /\ symbol'.dist \in Int
    <2>1. base' \in Nat
      BY <1>2, <1>5
    <2>2. CASE match_available_
      <3>1. PICK str \in Nat : str = strstart_ - 1 /\ str < End /\ base + str + 1 = base + strstart_
        <4>1. st > 0
          BY <1>2, <1>6, <2>2
        <4>2. PICK str \in Nat : str = st - 1 /\ str < st + ahead /\ b + str + 1 = b + st
          BY <1>6, <4>1
        <4> QED BY <1>2, <1>6, <4>2
      <3>2. symbol' = LiteralOf(str)
        BY <2>2, <3>1 DEF SlowWaits, Literal
      <3>3. base + str + 1 = base' + strstart_' - (IF match_available_' THEN 1 ELSE 0)
        BY <1>12, <3>1, Zenon
      <3> QED BY <1>1, <1>5, <1>11, <2>1, <3>1, <3>2, <3>3, LiteralFits
    <2>3. CASE ~match_available_
      <3>1. symbol' = symbol
        BY <2>3 DEF SlowWaits, symbols
      <3>2. symbol.at + symbol.len = base + strstart_ - (IF match_available_ THEN 1 ELSE 0)
        BY <1>1, Zenon DEF SymbolsAreText
      <3>3. (IF match_available_ THEN 1 ELSE 0) = 0
        BY <2>3, Zenon
      <3>4. b + st - 0 = b + st
        OBVIOUS
      <3>5. symbol.at + symbol.len = base + strstart_
        BY <1>6, <3>2, <3>3, <3>4, Zenon
      <3>6. symbol'.at + symbol'.len = base' + strstart_' - (IF match_available_' THEN 1 ELSE 0)
        BY <1>12, <3>1, <3>5, Zenon
      <3>7. \A x : At(x)' = At(x)
        BY DEF At
      <3>8. \A x, y, z : Repeat(x, y, z)' = Repeat(x, y, z)
        BY DEF Repeat, At
      <3>9. (symbol.len > 0 =>
              IF symbol.dist = 0 THEN symbol.byte = At(symbol.at)
              ELSE /\ symbol.dist \in 1..max_dist
                   /\ Repeat(symbol.at, symbol.len, symbol.at - symbol.dist))'
        BY <1>1, <3>1, <3>7, <3>8, Zenon DEF SymbolsAreText
      <3>10. SymbolsAreText'
        BY <3>6, <3>9, Zenon DEF SymbolsAreText
      <3> QED BY <1>1, <3>1, <3>10 DEF TypesInv
    <2> QED BY <1>2, <2>2, <2>3
  <1>14. TypesInv' /\ StageInv' /\ DictInv'
    <2>1. DictOK(WithString, base, strstart_ + 1, End)
      BY <1>1, StringGoesIn, StringStaysOut
    <2>2. lookahead_ - 1 >= 3 => Rolls(WithString.h, base + (strstart_ + 1))
      <3>1. lookahead_ - 1 >= 3 => lookahead_ >= 3
        BY <1>2
      <3>2. lookahead_ >= 3 => Rolls(WithString.h, base + (strstart_ + 1))
        BY <1>1, StringGoesIn
      <3> QED BY <3>1, <3>2
    <2>3. prev_length_' \in Nat /\ match_length_' \in Nat
      BY <1>2, <1>3
    <2> QED BY <1>3, <1>4, <1>11, <1>13, <2>1, <2>2, <2>3, StepKeeps
  <1> QED BY <1>5, <1>10, <1>13, <1>14 DEF IInv

\* f_slow keeps the invariant.
LEMMA SlowKeeps ==
    ASSUME IInv, f_slow
    PROVE  IInv'
  <1>1. TypesInv /\ DataInv /\ DictInv
    BY DEF IInv
  <1>2. /\ pc = "step" /\ config.func = "slow"
        /\ match_start_' = IF SlowSearches THEN SlowSearch.start ELSE match_start_
        /\ IF SlowSearches THEN Searched(match_length_, SlowSearch) ELSE search' = NoSearch
        /\ text' = text /\ config' = config /\ avail_in' = avail_in
    BY DEF f_slow, offer, SlowSearch, SlowSearches
  <1>3. SlowTakes \/ SlowWaits
    BY DEF f_slow, SlowSearch, SlowSearches, SlowLength, SlowTakes, SlowWaits
  <1>4. /\ SlowLength \in Nat /\ match_start_' \in Int /\ LongestFound'
        /\ SlowLength >= 3 /\ SlowLength > match_length_ =>
             /\ SlowLength <= lookahead_ /\ strstart_ - match_start_' \in 1..max_dist
             /\ Repeat(base + strstart_, SlowLength, base + match_start_')
    BY <1>1, <1>2, SlowFinds
  <1>5. CASE SlowTakes
    BY <1>2, <1>4, <1>5, SlowTakesKeeps
  <1>6. CASE SlowWaits
    BY <1>2, <1>4, <1>6, SlowWaitsKeeps
  <1> QED BY <1>3, <1>5, <1>6

-----------------------------------------------------------------------------
(* The theorems *)

(***************************************************************************)
(* The invariant holds in every state of every behaviour.                     *)
(***************************************************************************)
THEOREM Invariance == Spec => []IInv
  <1>1. Init => IInv
    BY InitInv
  <1>2. IInv /\ [Next]_vars => IInv'
    <2> SUFFICES ASSUME IInv, [Next]_vars PROVE IInv'
      OBVIOUS
    <2>1. CASE write
      BY <2>1, WriteKeeps
    <2>2. CASE doParams
      BY <2>2, ParamsKeeps
    <2>3. CASE fill_window
      BY <2>3, FillKeeps
    <2>4. CASE f_fast
      BY <2>4, FastKeeps
    <2>5. CASE f_slow
      BY <2>5, SlowKeeps
    <2>6. CASE f_rle
      BY <2>6, RleKeeps
    <2>7. CASE finish
      BY <2>7, FinishKeeps
    <2>8. CASE UNCHANGED vars
      BY <2>8, StutterKeeps
    <2> QED BY <2>1, <2>2, <2>3, <2>4, <2>5, <2>6, <2>7, <2>8 DEF Next
  <1> QED BY <1>1, <1>2, PTL DEF Spec

(***************************************************************************)
(* What f_fast, f_slow and f_rle tally is the input without a gap, and a match  *)
(* repeats what is so far before it (Match and Literal, deflate_stream.ipp):    *)
(* the compressor's symbols can be turned back into the input.               *)
(***************************************************************************)
THEOREM Symbols == Spec => []SymbolsAreText
  <1>1. IInv => SymbolsAreText
    BY DEF IInv
  <1> QED BY <1>1, Invariance, PTL

(***************************************************************************)
(* longest_match finds a string within reach that repeats the lookahead, and,   *)
(* when it may search the whole chain, the longest one.                      *)
(***************************************************************************)
THEOREM Longest == Spec => []LongestFound
  <1>1. IInv => LongestFound
    BY DEF IInv
  <1> QED BY <1>1, Invariance, PTL

-----------------------------------------------------------------------------
(* The chains *)

\* What the chain from p is, when c has those from older strings.
Link(c, p) ==
    IF ~InReach(p) THEN <<>>
    ELSE <<p>> \o (IF prev_[p % w_size] < p THEN c[prev_[p % w_size]] ELSE <<p>>)
\* The chains from all places up to n.
Chains(c, n) == c = [p \in 0..n |-> Link(c, p)]

\* A chain depends only on those from older strings.
LEMMA LinkSame ==
    ASSUME NEW c, NEW e, NEW p,
           prev_[p % w_size] < p => c[prev_[p % w_size]] = e[prev_[p % w_size]]
    PROVE  Link(c, p) = Link(e, p)
  BY DEF Link

\* So there are chains from every place.
LEMMA ChainsExist ==
    ASSUME prev_ \in [0..w_size - 1 -> Nat], NEW n \in Nat, n < window_size
    PROVE  \E c : Chains(c, n)
  <1> DEFINE T == {m \in Nat : m < window_size => \E c : Chains(c, m)}
  <1>1. 0 \in T
    <2>1. PICK c : c = [p \in 0..0 |-> <<>>]
      OBVIOUS
    <2>2. \A p \in 0..0 : Link(c, p) = <<>>
      BY DEF Link, InReach
    <2>3. Chains(c, 0)
      BY <2>1, <2>2 DEF Chains
    <2> QED BY <2>3
  <1>2. ASSUME NEW m \in Nat, m \in T PROVE m + 1 \in T
    <2>1. SUFFICES ASSUME m + 1 < window_size PROVE \E c : Chains(c, m + 1)
      OBVIOUS
    <2>2. PICK c : Chains(c, m)
      BY <1>2, <2>1, Sizes
    <2>3. PICK e : e = [p \in 0..m + 1 |-> IF p = m + 1 THEN Link(c, p) ELSE c[p]]
      OBVIOUS
    <2>4. \A p \in 0..m : c[p] = Link(c, p)
      BY <2>2 DEF Chains
    <2>5. \A p \in 0..m + 1 : e[p] = Link(c, p)
      <3>1. \A p \in 0..m + 1 : p = m + 1 \/ p \in 0..m
        OBVIOUS
      <3> QED BY <2>3, <2>4, <3>1
    <2>6. \A p \in 0..m : e[p] = c[p]
      BY <2>4, <2>5
    <2>7. ASSUME NEW p \in 0..m + 1 PROVE Link(c, p) = Link(e, p)
      <3>1. prev_[p % w_size] \in Nat
        <4>1. p % w_size \in 0..w_size - 1
          <5>1. p \in Nat /\ p < window_size
            BY <2>1, Sizes
          <5>2. p % w_size = IF p < w_size THEN p ELSE p - w_size
            BY <5>1, Slot
          <5> QED BY <5>1, <5>2, Sizes
        <4> QED BY <4>1
      <3>2. prev_[p % w_size] < p => prev_[p % w_size] \in 0..m
        BY <3>1
      <3>3. prev_[p % w_size] < p => c[prev_[p % w_size]] = e[prev_[p % w_size]]
        BY <2>6, <3>2
      <3> QED BY <3>3, LinkSame
    <2>8. e = [p \in 0..m + 1 |-> e[p]]
      BY <2>3
    <2>9. Chains(e, m + 1)
      BY <2>5, <2>7, <2>8 DEF Chains
    <2> QED BY <2>9
  <1>3. n \in T
    <2> HIDE DEF T
    <2> QED BY <1>1, <1>2, InductionOnSet
  <1> QED BY <1>3

\* Chain follows the links that prev_ holds.
LEMMA ChainIs ==
    ASSUME prev_ \in [0..w_size - 1 -> Nat]
    PROVE  \E c : /\ \A h : Chain(h) = c[head_[h]]
                  /\ \A p \in 0..window_size - 1 : c[p] = Link(c, p)
  <1> DEFINE n == window_size - 1
             c == CHOOSE c : Chains(c, n)
  <1>1. n \in Nat /\ n < window_size
    BY Sizes
  <1>2. \E f : Chains(f, n)
    BY <1>1, ChainsExist
  <1>3. Chains(c, n)
    BY <1>2
  <1>4. \A h : Chain(h) = c[head_[h]]
    BY DEF Chain, Chains, Link
  <1> HIDE DEF c, n
  <1>5. \A p \in 0..n : c[p] = Link(c, p)
    BY <1>3 DEF Chains
  <1> QED BY <1>4, <1>5 DEF n

Decreases(s) == \A i \in 1..Len(s) - 1 : s[i] > s[i + 1]
Elements(s) == {s[i] : i \in DOMAIN s}

\* A newer string goes before those that are older.
LEMMA NewerFirst ==
    ASSUME NEW p \in Nat, NEW s \in Seq(Nat), Decreases(s), Len(s) > 0 => s[1] < p,
           NEW t, t = <<p>> \o s
    PROVE  /\ t \in Seq(Nat) /\ Len(t) > 0 /\ t[1] = p /\ Decreases(t)
           /\ Elements(t) = {p} \cup Elements(s)
  <1>1. <<p>> \in Seq(Nat) /\ Len(<<p>>) = 1 /\ Len(s) \in Nat /\ <<p>>[1] = p
    OBVIOUS
  <1>2. t \in Seq(Nat) /\ Len(t) = Len(s) + 1
    BY <1>1
  <1>3. t[1] = p
    BY <1>1, <1>2
  <1>4. ASSUME NEW i \in 1..Len(s) PROVE t[i + 1] = s[i]
    <2>1. i + 1 \in 1..Len(t) /\ i + 1 > Len(<<p>>) /\ i + 1 - Len(<<p>>) = i
      BY <1>1, <1>2
    <2> QED BY <1>1, <2>1
  <1>5. Decreases(t)
    <2>1. SUFFICES ASSUME NEW i \in 1..Len(t) - 1 PROVE t[i] > t[i + 1]
      BY DEF Decreases
    <2>2. i \in 1..Len(s)
      BY <1>1, <1>2
    <2>3. t[i + 1] = s[i]
      BY <1>4, <2>2
    <2>4. CASE i = 1
      <3>1. Len(s) > 0 /\ s[1] \in Nat
        BY <1>1, <2>2, <2>4
      <3> QED BY <1>3, <2>3, <2>4, <3>1
    <2>5. CASE i > 1
      <3>1. PICK j \in 1..Len(s) - 1 : j = i - 1 /\ j + 1 = i
        BY <1>1, <2>2, <2>5
      <3>2. s[j] > s[j + 1] /\ j \in 1..Len(s)
        BY <1>1 DEF Decreases
      <3>3. t[j + 1] = s[j]
        BY <1>4, <3>2
      <3> QED BY <2>3, <3>1, <3>2, <3>3
    <2> QED BY <2>2, <2>4, <2>5
  <1>6. Elements(t) = {p} \cup Elements(s)
    <2>1. DOMAIN t = 1..Len(s) + 1 /\ DOMAIN s = 1..Len(s)
      BY <1>2
    <2>2. ASSUME NEW x \in Elements(t) PROVE x \in {p} \cup Elements(s)
      <3>1. PICK i \in 1..Len(s) + 1 : x = t[i]
        BY <2>1 DEF Elements
      <3>2. CASE i = 1
        BY <1>3, <3>1, <3>2
      <3>3. CASE i # 1
        <4>1. PICK j \in 1..Len(s) : i = j + 1
          <5>1. i - 1 \in 1..Len(s) /\ i = i - 1 + 1
            BY <1>1, <3>3
          <5> QED BY <5>1
        <4> QED BY <1>4, <2>1, <3>1, <4>1 DEF Elements
      <3> QED BY <3>2, <3>3
    <2>3. p \in Elements(t)
      <3>1. 1 \in DOMAIN t
        BY <1>1, <2>1
      <3> QED BY <1>3, <3>1 DEF Elements
    <2>4. ASSUME NEW x \in Elements(s) PROVE x \in Elements(t)
      <3>1. PICK i \in 1..Len(s) : x = s[i]
        BY <2>1 DEF Elements
      <3>2. i + 1 \in DOMAIN t /\ t[i + 1] = x
        BY <1>1, <1>4, <2>1, <3>1
      <3> QED BY <3>2 DEF Elements
    <2> QED BY <2>2, <2>3, <2>4
  <1> QED BY <1>1, <1>2, <1>3, <1>5, <1>6

\* The strings within reach with hash h that are no newer than p.
Older(p, h) == {q \in strings : InReach(q) /\ TextHash(base + q) = h /\ q <= p}
\* The sequence s leads from p through the strings with its hash.
LeadsFrom(s, p) ==
    /\ s \in Seq(Nat) /\ Len(s) > 0 /\ s[1] = p /\ Decreases(s)
    /\ Elements(s) = Older(p, TextHash(base + p))

\* A chain from a string within reach leads through the older ones.
LEMMA ChainLeads ==
    ASSUME TypesInv, DataInv, DictInv, NEW c,
           \A p \in 0..window_size - 1 : c[p] = Link(c, p),
           NEW p \in strings, InReach(p)
    PROVE  LeadsFrom(c[p], p)
  <1>1. /\ strings \subseteq 0..strstart_ - 1 /\ prev_ \in [0..w_size - 1 -> Nat]
        /\ \A x \in strings :
              (\A q \in strings : q < x + w_size)
                  => Leads(strings, base, prev_[x % w_size], TextHash(base + x), x)
    BY DEF DictInv, DictOK, Dictionary
  <1>2. strstart_ \in Nat /\ strstart_ <= window_size /\ base \in Nat
    <2>1. strstart_ \in Nat /\ lookahead_ \in Nat /\ base \in Nat
      BY DEF TypesInv
    <2>2. strstart_ + lookahead_ <= window_size
      BY DEF DataInv, End
    <2> QED BY <2>1, <2>2, Sizes
  <1> DEFINE T == {m \in Nat : \A x \in strings : InReach(x) /\ x < m => LeadsFrom(c[x], x)}
  <1>3. 0 \in T
    BY <1>1
  <1>4. ASSUME NEW m \in Nat, m \in T PROVE m + 1 \in T
    <2>1. SUFFICES ASSUME m \in strings, InReach(m) PROVE LeadsFrom(c[m], m)
      <3>1. \A x \in strings : x < m + 1 => x < m \/ x = m
        BY <1>1
      <3> QED BY <1>4, <3>1
    <2>2. m > 0 /\ m < strstart_ /\ strstart_ - m <= max_dist
      BY <1>1, <1>2, <2>1 DEF InReach
    <2>3. \A q \in strings : q < m + w_size
      <3>1. SUFFICES ASSUME NEW q \in strings PROVE q < m + w_size
        OBVIOUS
      <3>2. q \in Nat /\ q < strstart_
        BY <1>1, <1>2
      <3> QED BY <1>2, <2>2, <3>2, Sizes
    <2>4. PICK next : next = prev_[m % w_size]
      OBVIOUS
    <2>5. PICK h : h = TextHash(base + m)
      OBVIOUS
    <2>6. Leads(strings, base, next, h, m)
      BY <1>1, <2>1, <2>3, <2>4, <2>5
    <2>7. next = 0 \/ (next \in strings /\ next < m /\ TextHash(base + next) = h)
      BY <2>6 DEF Leads
    <2>8. next \in Nat /\ next < m /\ next < strstart_
      <3>1. \A q \in strings : q \in Nat
        BY <1>1
      <3>2. next \in Nat /\ next < m
        BY <2>2, <2>7, <3>1
      <3> QED BY <1>2, <2>2, <3>2
    <2>9. m \in 0..window_size - 1 /\ next \in 0..window_size - 1
      BY <1>2, <2>2, <2>8, Sizes
    <2>10. c[m] = <<m>> \o c[next]
      <3>1. c[m] = Link(c, m)
        BY <2>9
      <3> QED BY <2>1, <2>4, <2>8, <3>1 DEF Link
    <2>11. ASSUME NEW q \in strings, InReach(q), TextHash(base + q) = h, q < m
           PROVE  q <= next /\ InReach(next) /\ next \in strings
      <3>1. q \in Nat /\ q > 0 /\ strstart_ - q <= max_dist
        BY <1>1, <2>11 DEF InReach
      <3>2. q <= next
        BY <2>6, <2>11, <3>1 DEF Leads
      <3>3. next > 0 /\ strstart_ - next <= max_dist
        BY <1>2, <2>8, <3>1, <3>2, Sizes
      <3> QED BY <2>7, <3>2, <3>3 DEF InReach
    <2>12. CASE InReach(next)
      <3>1. next \in strings /\ TextHash(base + next) = h
        BY <2>7, <2>12 DEF InReach
      <3>2. LeadsFrom(c[next], next)
        BY <1>4, <2>8, <2>12, <3>1
      <3>3. PICK s \in Seq(Nat) : /\ s = c[next] /\ Len(s) > 0 /\ s[1] = next /\ Decreases(s)
                                  /\ Elements(s) = Older(next, h)
        BY <3>1, <3>2 DEF LeadsFrom
      <3>4. PICK t : t = <<m>> \o s
        OBVIOUS
      <3>5. Len(s) > 0 => s[1] < m
        BY <2>8, <3>3
      <3>6. /\ t \in Seq(Nat) /\ Len(t) > 0 /\ t[1] = m /\ Decreases(t)
            /\ Elements(t) = {m} \cup Elements(s)
        BY <3>3, <3>4, <3>5, NewerFirst
      <3>7. {m} \cup Older(next, h) = Older(m, h)
        <4>1. \A q \in strings : q \in Nat
          BY <1>1
        <4>2. \A q \in strings : q <= next => q <= m
          BY <2>8, <4>1
        <4>3. m \in Older(m, h)
          BY <2>1, <2>5 DEF Older
        <4>4. \A q \in Older(next, h) : q \in Older(m, h)
          BY <4>2 DEF Older
        <4>5. ASSUME NEW q \in Older(m, h) PROVE q = m \/ q \in Older(next, h)
          <5>1. q \in strings /\ InReach(q) /\ TextHash(base + q) = h /\ q <= m
            BY DEF Older
          <5>2. q = m \/ q < m
            BY <4>1, <5>1
          <5> QED BY <2>11, <5>1, <5>2 DEF Older
        <4> QED BY <4>3, <4>4, <4>5
      <3> QED BY <2>5, <2>10, <3>3, <3>4, <3>6, <3>7 DEF LeadsFrom
    <2>13. CASE ~InReach(next)
      <3>1. c[next] = <<>>
        BY <2>9, <2>13 DEF Link
      <3>2. PICK s \in Seq(Nat) : s = <<>> /\ Len(s) = 0 /\ (Len(s) > 0 => s[1] < m)
        <4>1. <<>> \in Seq(Nat) /\ Len(<<>>) = 0 /\ ~(Len(<<>>) > 0)
          OBVIOUS
        <4> QED BY ONLY <4>1, Zenon
      <3>3. Decreases(s) /\ Elements(s) = {}
        BY <3>2 DEF Decreases, Elements
      <3>4. PICK t : t = <<m>> \o s
        OBVIOUS
      <3>5. /\ t \in Seq(Nat) /\ Len(t) > 0 /\ t[1] = m /\ Decreases(t)
            /\ Elements(t) = {m} \cup Elements(s)
        BY <3>2, <3>3, <3>4, NewerFirst
      <3>6. {m} = Older(m, h)
        <4>1. m \in Older(m, h)
          BY <2>1, <2>5 DEF Older
        <4>2. ASSUME NEW q \in Older(m, h) PROVE q = m
          <5>1. q \in strings /\ InReach(q) /\ TextHash(base + q) = h /\ q <= m /\ q \in Nat
            BY <1>1 DEF Older
          <5>2. ~(q < m)
            BY <2>11, <2>13, <5>1
          <5> QED BY <5>1, <5>2
        <4> QED BY <4>1, <4>2
      <3> QED BY <2>5, <2>10, <3>1, <3>2, <3>3, <3>4, <3>5, <3>6 DEF LeadsFrom
    <2> QED BY <2>12, <2>13
  <1>5. p + 1 \in T
    <2>1. p + 1 \in Nat
      BY <1>1
    <2> HIDE DEF T
    <2> QED BY <1>3, <1>4, <2>1, InductionOnSet
  <1>6. p < p + 1
    BY <1>1
  <1> QED BY <1>5, <1>6

\* The hash of a string in the window is that of the input.
LEMMA HashAtIs ==
    ASSUME TypesInv, DataInv, DictInv, NEW p \in strings
    PROVE  HashAt(p) = TextHash(base + p)
  <1>1. p \in Nat /\ p + 3 <= End /\ base \in Nat /\ End \in Nat
    <2>1. strings \subseteq 0..strstart_ - 1 /\ \A q \in strings : q + 3 <= End
      BY Sizes DEF DictInv, DictOK, Dictionary
    <2>2. strstart_ \in Nat /\ lookahead_ \in Nat /\ base \in Nat
      BY DEF TypesInv
    <2> QED BY <2>1, <2>2 DEF End
  <1>2. p \in 0..End - 1 /\ p + 1 \in 0..End - 1 /\ p + 2 \in 0..End - 1
    BY <1>1
  <1>3. /\ window_[p] = At(base + p) /\ window_[p + 1] = At(base + (p + 1))
        /\ window_[p + 2] = At(base + (p + 2))
    BY <1>2 DEF DataInv
  <1>4. base + (p + 1) = base + p + 1 /\ base + (p + 2) = base + p + 2
    BY <1>1
  <1> QED BY <1>3, <1>4 DEF HashAt, HashOfTwo, TextHash

\* The chains, for any dictionary that the invariant allows.
LEMMA ChainsHold ==
    ASSUME TypesInv, DataInv, DictInv
    PROVE  ChainsHoldTheStrings
  <1>1. /\ strings \subseteq 0..strstart_ - 1 /\ head_ \in [Hashes -> Nat]
        /\ prev_ \in [0..w_size - 1 -> Nat]
        /\ \A h \in Hashes : Leads(strings, base, head_[h], h, strstart_)
    BY DEF DictInv, DictOK, Dictionary
  <1>2. PICK c : /\ \A h : Chain(h) = c[head_[h]]
                 /\ \A p \in 0..window_size - 1 : c[p] = Link(c, p)
    BY <1>1, ChainIs
  <1>3. strstart_ \in Nat /\ strstart_ <= window_size /\ base \in Nat
    <2>1. strstart_ \in Nat /\ lookahead_ \in Nat /\ base \in Nat
      BY DEF TypesInv
    <2>2. strstart_ + lookahead_ <= window_size
      BY DEF DataInv, End
    <2> QED BY <2>1, <2>2, Sizes
  <1>4. ASSUME NEW h \in Hashes
        PROVE  /\ Decreases(Chain(h))
               /\ Elements(Chain(h)) = {p \in strings : InReach(p) /\ HashAt(p) = h}
    <2>1. PICK q \in Nat : q = head_[h]
      BY <1>1
    <2>2. Leads(strings, base, q, h, strstart_) /\ Chain(h) = c[q]
      BY <1>1, <1>2, <2>1
    <2>3. q = 0 \/ (q \in strings /\ TextHash(base + q) = h)
      BY <2>2 DEF Leads
    <2>4. ASSUME NEW p \in strings, InReach(p), TextHash(base + p) = h
          PROVE  p <= q /\ InReach(q)
      <3>1. p \in Nat /\ p > 0 /\ p < strstart_ /\ strstart_ - p <= max_dist
        BY <1>1, <1>3, <2>4 DEF InReach
      <3>2. p <= q
        BY <2>2, <2>4, <3>1 DEF Leads
      <3> QED BY <1>3, <3>1, <3>2, Sizes DEF InReach
    <2>5. {p \in strings : InReach(p) /\ HashAt(p) = h} = Older(q, h)
      <3>1. \A p \in strings : HashAt(p) = TextHash(base + p)
        BY HashAtIs
      <3> QED BY <2>4, <3>1 DEF Older
    <2>6. CASE InReach(q)
      <3>1. q \in strings /\ TextHash(base + q) = h
        BY <2>3, <2>6 DEF InReach
      <3>2. LeadsFrom(c[q], q)
        BY <1>2, <2>6, <3>1, ChainLeads
      <3> QED BY <2>2, <2>5, <3>1, <3>2 DEF LeadsFrom
    <2>7. CASE ~InReach(q)
      <3>1. q \in 0..window_size - 1
        BY <1>1, <1>3, <2>3, Sizes
      <3>2. Chain(h) = <<>>
        BY <1>2, <2>2, <2>7, <3>1 DEF Link
      <3>3. Older(q, h) = {}
        BY <2>4, <2>7 DEF Older
      <3>4. Decreases(<<>>) /\ Elements(<<>>) = {}
        BY DEF Decreases, Elements
      <3> QED BY <2>5, <3>2, <3>3, <3>4
    <2> QED BY <2>6, <2>7
  <1>5. DOMAIN head_ = Hashes
    BY <1>1
  <1> QED BY <1>4, <1>5 DEF ChainsHoldTheStrings, Decreases, Elements

(***************************************************************************)
(* Whatever slides, whatever is inserted late and whichever levels take turns,  *)
(* a hash chain leads through the strings within reach with its hash, from the  *)
(* newest to the oldest, and through nothing else (head_ and prev_).           *)
(***************************************************************************)
THEOREM ChainsComplete == Spec => []ChainsHoldTheStrings
  <1>1. IInv => ChainsHoldTheStrings
    BY ChainsHold DEF IInv
  <1> QED BY <1>1, Invariance, PTL
=============================================================================
