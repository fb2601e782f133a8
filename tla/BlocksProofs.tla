---------------------------- MODULE BlocksProofs ----------------------------
(***************************************************************************)
(* The symbols of a block are read as they were tallied, for every input and *)
(* every choice of complete codes. First, what tr_flush_block sends for a    *)
(* block, item by item: where the header, the trees, the rows of the symbols *)
(* and the end of the block are, and what each item is. Then what is tallied,*)
(* what each mode of the decompressor reads, and the bits of each kind.      *)
(***************************************************************************)
EXTENDS BlocksInv, SumLemmas

\* A range of numbers is finite.
LEMMA RangeFinite == \A m \in Int, n \in Int : IsFiniteSet(m..n)
  BY FS_Interval

(* The tables of get_lut and those of the decompressor *)

\* The bits after a code, and the powers of two that are steps of the tables.
LEMMA ExtraBits ==
    /\ \A c \in 0..28 : extra_lbits[c] \in 0..5 /\ 2^extra_lbits[c] \in Nat /\ 2^extra_lbits[c] >= 1
    /\ \A c \in 0..29 : extra_dbits[c] \in 0..13 /\ 2^extra_dbits[c] \in Nat /\ 2^extra_dbits[c] >= 1
    /\ DOMAIN extra_lbits = 0..28 /\ DOMAIN extra_dbits = 0..29
  <1>1. \A c \in 0..28 : extra_lbits[c] \in 0..5
    BY DEF extra_lbits, length_codes
  <1>2. \A c \in 0..29 : extra_dbits[c] \in 0..13
    BY DEF extra_dbits, dcodes
  <1>3. \A n \in Nat : 2^n \in Nat /\ 2^n >= 1
    BY PowerOfTwo
  <1>4. DOMAIN extra_lbits = 0..28 /\ DOMAIN extra_dbits = 0..29
    BY DEF extra_lbits, extra_dbits, length_codes, dcodes
  <1>5. \A c \in 0..28 : 2^extra_lbits[c] \in Nat /\ 2^extra_lbits[c] >= 1
    <2> SUFFICES ASSUME NEW c \in 0..28 PROVE 2^extra_lbits[c] \in Nat /\ 2^extra_lbits[c] >= 1
      OBVIOUS
    <2> DEFINE n == extra_lbits[c]
    <2>1. n \in Nat
      BY <1>1
    <2> HIDE DEF n
    <2>2. 2^n \in Nat /\ 2^n >= 1
      BY <1>3, <2>1
    <2> QED BY <2>2 DEF n
  <1>6. \A c \in 0..29 : 2^extra_dbits[c] \in Nat /\ 2^extra_dbits[c] >= 1
    <2> SUFFICES ASSUME NEW c \in 0..29 PROVE 2^extra_dbits[c] \in Nat /\ 2^extra_dbits[c] >= 1
      OBVIOUS
    <2> DEFINE n == extra_dbits[c]
    <2>1. n \in Nat
      BY <1>2
    <2> HIDE DEF n
    <2>2. 2^n \in Nat /\ 2^n >= 1
      BY <1>3, <2>1
    <2> QED BY <2>2 DEF n
  <1> QED BY <1>1, <1>2, <1>4, <1>5, <1>6

\* A table of bases goes up by as much as the code before has values.
LEMMA BaseStep ==
    ASSUME NEW n \in Nat, NEW e \in [0..n -> Nat], NEW c \in 0..n - 1, \A k \in 0..n : 2^e[k] \in Nat
    PROVE  SumFunction([k \in 0..(c + 1) - 1 |-> 2^e[k]])
              = SumFunction([k \in 0..c - 1 |-> 2^e[k]]) + 2^e[c]
  <1> DEFINE f == [k \in 0..n |-> 2^e[k]]
             a == [k \in 0..c - 1 |-> 2^e[k]]
             b == [k \in 0..(c + 1) - 1 |-> 2^e[k]]
  <1>1. /\ \A k \in 0..n : f[k] \in Int
        /\ DOMAIN a = 0..c - 1 /\ DOMAIN b = 0..c
        /\ \A k \in 0..c - 1 : a[k] = f[k]
        /\ \A k \in 0..c : b[k] = f[k]
        /\ f[c] = 2^e[c]
    OBVIOUS
  <1> HIDE DEF a, b, f
  <1>2. SumFunctionOnSet(a, 0..c - 1) = SumFunctionOnSet(f, 0..c - 1)
    <2>1. IsFiniteSet(0..c - 1)
      BY RangeFinite
    <2>2. \A k \in 0..c - 1 : a[k] = f[k]
      BY <1>1
    <2> QED BY <2>1, <2>2, SumAgree
  <1>3. SumFunctionOnSet(b, 0..c) = SumFunctionOnSet(f, 0..c)
    <2>1. IsFiniteSet(0..c)
      BY RangeFinite
    <2>2. \A k \in 0..c : b[k] = f[k]
      BY <1>1
    <2> QED BY <2>1, <2>2, SumAgree
  <1>4. SumFunctionOnSet(f, 0..c) = SumFunctionOnSet(f, 0..c - 1) + f[c]
    <2> DEFINE d == c - 1
    <2>1. d \in Int /\ 0 \in Int /\ 0 <= d + 1 /\ d + 1 = c /\ \A i \in 0..d + 1 : f[i] \in Int
      BY <1>1
    <2> HIDE DEF d
    <2>2. SumFunctionOnSet(f, 0..d + 1) = SumFunctionOnSet(f, 0..d) + f[d + 1]
      BY <2>1, SumUpTo
    <2> QED BY <2>1, <2>2 DEF d
  <1> QED BY <1>1, <1>2, <1>3, <1>4 DEF SumFunction, a, b

\* The powers of two in the tables.
LEMMA Powers ==
    /\ 2^0 = 1 /\ 2^1 = 2 /\ 2^2 = 4 /\ 2^3 = 8 /\ 2^4 = 16 /\ 2^5 = 32 /\ 2^6 = 64
    /\ 2^7 = 128 /\ 2^8 = 256 /\ 2^9 = 512 /\ 2^10 = 1024 /\ 2^11 = 2048 /\ 2^12 = 4096
    /\ 2^13 = 8192
  OBVIOUS

\* The lengths of the decompressor go up by what the extra bits of a code tell apart.
LEMMA LengthSteps ==
    \A c \in 0..26 : lbase[c + 2] = lbase[c + 1] + 2^extra_lbits[c]
  <1> SUFFICES ASSUME NEW c \in 0..26 PROVE lbase[c + 2] = lbase[c + 1] + 2^extra_lbits[c]
    OBVIOUS
  <1>1. CASE c \in 0..7
    <2>1. extra_lbits[c] = 0
      BY <1>1 DEF extra_lbits, length_codes
    <2>2. lbase[c + 2] = lbase[c + 1] + 1
      BY <1>1 DEF lbase
    <2> QED BY <2>1, <2>2, Powers
  <1>2. CASE c \in 8..11
    <2>1. extra_lbits[c] = 1
      BY <1>2 DEF extra_lbits, length_codes
    <2>2. lbase[c + 2] = lbase[c + 1] + 2
      BY <1>2 DEF lbase
    <2> QED BY <2>1, <2>2, Powers
  <1>3. CASE c \in 12..15
    <2>1. extra_lbits[c] = 2
      BY <1>3 DEF extra_lbits, length_codes
    <2>2. lbase[c + 2] = lbase[c + 1] + 4
      BY <1>3 DEF lbase
    <2> QED BY <2>1, <2>2, Powers
  <1>4. CASE c \in 16..19
    <2>1. extra_lbits[c] = 3
      BY <1>4 DEF extra_lbits, length_codes
    <2>2. lbase[c + 2] = lbase[c + 1] + 8
      BY <1>4 DEF lbase
    <2> QED BY <2>1, <2>2, Powers
  <1>5. CASE c \in 20..23
    <2>1. extra_lbits[c] = 4
      BY <1>5 DEF extra_lbits, length_codes
    <2>2. lbase[c + 2] = lbase[c + 1] + 16
      BY <1>5 DEF lbase
    <2> QED BY <2>1, <2>2, Powers
  <1>6. CASE c \in 24..26
    <2>1. extra_lbits[c] = 5
      BY <1>6 DEF extra_lbits, length_codes
    <2>2. lbase[c + 2] = lbase[c + 1] + 32
      BY <1>6 DEF lbase
    <2> QED BY <2>1, <2>2, Powers
  <1> QED BY <1>1, <1>2, <1>3, <1>4, <1>5, <1>6

\* And so do its distances.
LEMMA DistanceSteps ==
    \A c \in 0..28 : dbase[c + 2] = dbase[c + 1] + 2^extra_dbits[c]
  <1> SUFFICES ASSUME NEW c \in 0..28 PROVE dbase[c + 2] = dbase[c + 1] + 2^extra_dbits[c]
    OBVIOUS
  <1>1. CASE c \in 0..3
    <2>1. extra_dbits[c] = 0
      BY <1>1 DEF extra_dbits, dcodes
    <2>2. dbase[c + 2] = dbase[c + 1] + 1
      BY <1>1 DEF dbase
    <2> QED BY <2>1, <2>2, Powers
  <1>2. CASE c \in 4..5
    <2>1. extra_dbits[c] = 1
      BY <1>2 DEF extra_dbits, dcodes
    <2>2. dbase[c + 2] = dbase[c + 1] + 2
      BY <1>2 DEF dbase
    <2> QED BY <2>1, <2>2, Powers
  <1>3. CASE c \in 6..7
    <2>1. extra_dbits[c] = 2
      BY <1>3 DEF extra_dbits, dcodes
    <2>2. dbase[c + 2] = dbase[c + 1] + 4
      BY <1>3 DEF dbase
    <2> QED BY <2>1, <2>2, Powers
  <1>4. CASE c \in 8..9
    <2>1. extra_dbits[c] = 3
      BY <1>4 DEF extra_dbits, dcodes
    <2>2. dbase[c + 2] = dbase[c + 1] + 8
      BY <1>4 DEF dbase
    <2> QED BY <2>1, <2>2, Powers
  <1>5. CASE c \in 10..11
    <2>1. extra_dbits[c] = 4
      BY <1>5 DEF extra_dbits, dcodes
    <2>2. dbase[c + 2] = dbase[c + 1] + 16
      BY <1>5 DEF dbase
    <2> QED BY <2>1, <2>2, Powers
  <1>6. CASE c \in 12..13
    <2>1. extra_dbits[c] = 5
      BY <1>6 DEF extra_dbits, dcodes
    <2>2. dbase[c + 2] = dbase[c + 1] + 32
      BY <1>6 DEF dbase
    <2> QED BY <2>1, <2>2, Powers
  <1>7. CASE c \in 14..15
    <2>1. extra_dbits[c] = 6
      BY <1>7 DEF extra_dbits, dcodes
    <2>2. dbase[c + 2] = dbase[c + 1] + 64
      BY <1>7 DEF dbase
    <2> QED BY <2>1, <2>2, Powers
  <1>8. CASE c \in 16..17
    <2>1. extra_dbits[c] = 7
      BY <1>8 DEF extra_dbits, dcodes
    <2>2. dbase[c + 2] = dbase[c + 1] + 128
      BY <1>8 DEF dbase
    <2> QED BY <2>1, <2>2, Powers
  <1>9. CASE c \in 18..19
    <2>1. extra_dbits[c] = 8
      BY <1>9 DEF extra_dbits, dcodes
    <2>2. dbase[c + 2] = dbase[c + 1] + 256
      BY <1>9 DEF dbase
    <2> QED BY <2>1, <2>2, Powers
  <1>10. CASE c \in 20..21
    <2>1. extra_dbits[c] = 9
      BY <1>10 DEF extra_dbits, dcodes
    <2>2. dbase[c + 2] = dbase[c + 1] + 512
      BY <1>10 DEF dbase
    <2> QED BY <2>1, <2>2, Powers
  <1>11. CASE c \in 22..23
    <2>1. extra_dbits[c] = 10
      BY <1>11 DEF extra_dbits, dcodes
    <2>2. dbase[c + 2] = dbase[c + 1] + 1024
      BY <1>11 DEF dbase
    <2> QED BY <2>1, <2>2, Powers
  <1>12. CASE c \in 24..25
    <2>1. extra_dbits[c] = 11
      BY <1>12 DEF extra_dbits, dcodes
    <2>2. dbase[c + 2] = dbase[c + 1] + 2048
      BY <1>12 DEF dbase
    <2> QED BY <2>1, <2>2, Powers
  <1>13. CASE c \in 26..27
    <2>1. extra_dbits[c] = 12
      BY <1>13 DEF extra_dbits, dcodes
    <2>2. dbase[c + 2] = dbase[c + 1] + 4096
      BY <1>13 DEF dbase
    <2> QED BY <2>1, <2>2, Powers
  <1>14. CASE c \in 28..28
    <2>1. extra_dbits[c] = 13
      BY <1>14 DEF extra_dbits, dcodes
    <2>2. dbase[c + 2] = dbase[c + 1] + 8192
      BY <1>14 DEF dbase
    <2> QED BY <2>1, <2>2, Powers
  <1> QED BY <1>1, <1>2, <1>3, <1>4, <1>5, <1>6, <1>7, <1>8, <1>9, <1>10, <1>11, <1>12, <1>13, <1>14

\* The bases of the two sides are the same but for the shortest length.
LEMMA LengthBases == \A c \in 0..27 : base_length[c] = lbase[c + 1] - 3 /\ base_length[c] \in Nat
  <1> DEFINE Sum(c) == SumFunction([k \in 0..c - 1 |-> 2^extra_lbits[k]])
             Is(c) == Sum(c) = lbase[c + 1] - 3 /\ Sum(c) \in Nat
             T == {c \in Nat : c <= 27 => Is(c)}
  <1>1. \A c \in 0..27 : base_length[c] = Sum(c)
    <2> SUFFICES ASSUME NEW c \in 0..27 PROVE base_length[c] = Sum(c)
      OBVIOUS
    <2>1. c \in 0..29 - 1 /\ c # 29 - 1
      OBVIOUS
    <2> QED BY <2>1, Zenon DEF base_length, length_codes
  <1>2. 0 \in T
    <2>1. DOMAIN [k \in 0..0 - 1 |-> 2^extra_lbits[k]] = {}
      OBVIOUS
    <2>2. Sum(0) = 0
      BY <2>1, SumEmpty DEF SumFunction
    <2> HIDE DEF Sum
    <2>3. lbase[0 + 1] - 3 = 0
      BY DEF lbase
    <2> QED BY <2>2, <2>3
  <1>3. ASSUME NEW c \in Nat, c \in T PROVE c + 1 \in T
    <2> SUFFICES ASSUME c + 1 <= 27 PROVE Is(c + 1)
      <3>1. c + 1 \in Nat
        OBVIOUS
      <3> HIDE DEF Is
      <3> QED BY <3>1
    <2>1. c \in 0..26 /\ c <= 27
      OBVIOUS
    <2>2. Is(c)
      <3> HIDE DEF Is
      <3> QED BY <1>3, <2>1
    <2>3. Sum(c + 1) = Sum(c) + 2^extra_lbits[c]
      <3> DEFINE n == 28
      <3>1. /\ extra_lbits \in [0..n -> Nat] /\ n \in Nat /\ c \in 0..n - 1
            /\ \A k \in 0..n : 2^extra_lbits[k] \in Nat
        BY <2>1, ExtraBits DEF extra_lbits, length_codes
      <3> HIDE DEF n
      <3> QED BY <3>1, BaseStep
    <2> HIDE DEF Sum
    <2>4. lbase[c + 2] = lbase[c + 1] + 2^extra_lbits[c]
      BY <2>1, LengthSteps
    <2>5. 2^extra_lbits[c] \in Nat /\ lbase[c + 1] \in Int
      BY <2>1, ExtraBits DEF lbase
    <2>6. (c + 1) + 1 = c + 2
      OBVIOUS
    <2> QED BY <2>2, <2>3, <2>4, <2>5, <2>6
  <1>4. Nat \subseteq T
    <2> HIDE DEF T
    <2> QED BY <1>2, <1>3, InductionOnSet
  <1> HIDE DEF Is
  <1>5. \A c \in 0..27 : Is(c)
    BY <1>4
  <1> HIDE DEF Sum
  <1> QED BY <1>1, <1>5 DEF Is

\* And so are those of the distances.
LEMMA DistanceBases == \A c \in 0..29 : base_dist[c] = dbase[c + 1] - 1 /\ base_dist[c] \in Nat
  <1> DEFINE Sum(c) == SumFunction([k \in 0..c - 1 |-> 2^extra_dbits[k]])
             Is(c) == Sum(c) = dbase[c + 1] - 1 /\ Sum(c) \in Nat
             T == {c \in Nat : c <= 29 => Is(c)}
  <1>1. \A c \in 0..29 : base_dist[c] = Sum(c)
    <2> SUFFICES ASSUME NEW c \in 0..29 PROVE base_dist[c] = Sum(c)
      OBVIOUS
    <2>1. c \in 0..30 - 1
      OBVIOUS
    <2> QED BY <2>1, Zenon DEF base_dist, dcodes
  <1>2. 0 \in T
    <2>1. DOMAIN [k \in 0..0 - 1 |-> 2^extra_dbits[k]] = {}
      OBVIOUS
    <2>2. Sum(0) = 0
      BY <2>1, SumEmpty DEF SumFunction
    <2> HIDE DEF Sum
    <2>3. dbase[0 + 1] - 1 = 0
      BY DEF dbase
    <2> QED BY <2>2, <2>3
  <1>3. ASSUME NEW c \in Nat, c \in T PROVE c + 1 \in T
    <2> SUFFICES ASSUME c + 1 <= 29 PROVE Is(c + 1)
      <3>1. c + 1 \in Nat
        OBVIOUS
      <3> HIDE DEF Is
      <3> QED BY <3>1
    <2>1. c \in 0..28 /\ c <= 29
      OBVIOUS
    <2>2. Is(c)
      <3> HIDE DEF Is
      <3> QED BY <1>3, <2>1
    <2>3. Sum(c + 1) = Sum(c) + 2^extra_dbits[c]
      <3> DEFINE n == 29
      <3>1. /\ extra_dbits \in [0..n -> Nat] /\ n \in Nat /\ c \in 0..n - 1
            /\ \A k \in 0..n : 2^extra_dbits[k] \in Nat
        BY <2>1, ExtraBits DEF extra_dbits, dcodes
      <3> HIDE DEF n
      <3> QED BY <3>1, BaseStep
    <2> HIDE DEF Sum
    <2>4. dbase[c + 2] = dbase[c + 1] + 2^extra_dbits[c]
      BY <2>1, DistanceSteps
    <2>5. 2^extra_dbits[c] \in Nat /\ dbase[c + 1] \in Int
      BY <2>1, ExtraBits DEF dbase
    <2>6. (c + 1) + 1 = c + 2
      OBVIOUS
    <2> QED BY <2>2, <2>3, <2>4, <2>5, <2>6
  <1>4. Nat \subseteq T
    <2> HIDE DEF T
    <2> QED BY <1>2, <1>3, InductionOnSet
  <1> HIDE DEF Is
  <1>5. \A c \in 0..29 : Is(c)
    BY <1>4
  <1> HIDE DEF Sum
  <1> QED BY <1>1, <1>5 DEF Is

\* A code tells a number from its base and its extra bits: what is sent for it gives
\* it back.  The shortest length is 3 and the nearest distance 1.
LengthRead(l, c) ==
    /\ c \in 0..length_codes - 1 /\ extra_lbits[c] \in 0..5 /\ lext[c + 1] % 16 = extra_lbits[c]
    /\ extra_lbits[c] = 0 => lbase[c + 1] = l + 3
    /\ extra_lbits[c] # 0 => /\ l - base_length[c] \in 0..2^extra_lbits[c] - 1
                             /\ lbase[c + 1] = base_length[c] + 3
                             /\ base_length[c] \in Nat
DistanceRead(d, c) ==
    /\ c \in 0..dcodes - 1 /\ extra_dbits[c] \in 0..13 /\ dext[c + 1] % 16 = extra_dbits[c]
    /\ d - base_dist[c] \in 0..2^extra_dbits[c] - 1
    /\ dbase[c + 1] = base_dist[c] + 1 /\ base_dist[c] \in Nat

\* Every length has a code of the table of its range.
LEMMA LengthInRange ==
    ASSUME NEW l \in 0..254
    PROVE  \E c \in 0..27 : l - base_length[c] \in 0..2^extra_lbits[c] - 1
  <1> DEFINE up(c) == lbase[c + 1] - 3 + 2^extra_lbits[c]
             C == {c \in 0..27 : l < up(c)}
  <1>1. 27 \in C
    <2>1. up(27) = 256 /\ 27 \in 0..27
      BY Powers DEF lbase, extra_lbits, length_codes
    <2> HIDE DEF up
    <2> QED BY <2>1
  <1>2. PICK c \in C : \A d \in C : c <= d
    <2>1. C \subseteq Nat /\ C # {}
      BY <1>1
    <2> HIDE DEF C
    <2> QED BY <2>1, Smallest
  <1>3. c \in 0..27 /\ l < lbase[c + 1] - 3 + 2^extra_lbits[c]
    BY <1>2
  <1>4. l >= lbase[c + 1] - 3
    <2>1. CASE c = 0
      <3>1. lbase[c + 1] = 3
        BY <2>1 DEF lbase
      <3> QED BY <3>1
    <2>2. CASE c # 0
      <3> DEFINE d == c - 1
      <3>1. d \in 0..26 /\ d \in 0..27 /\ d + 1 = c /\ d + 2 = c + 1 /\ ~(c <= d)
        BY <1>3, <2>2
      <3> HIDE DEF d
      <3>2. d \notin C
        BY <1>2, <3>1
      <3>3. ~(l < lbase[d + 1] - 3 + 2^extra_lbits[d])
        BY <3>1, <3>2
      <3>4. lbase[d + 2] = lbase[d + 1] + 2^extra_lbits[d]
        BY <3>1, LengthSteps
      <3>5. lbase[d + 1] \in Int /\ 2^extra_lbits[d] \in Int
        BY <3>1, ExtraBits DEF lbase
      <3> QED BY <3>1, <3>3, <3>4, <3>5
    <2> QED BY <2>1, <2>2
  <1>5. base_length[c] = lbase[c + 1] - 3 /\ base_length[c] \in Nat /\ 2^extra_lbits[c] \in Nat
    BY <1>3, LengthBases, ExtraBits
  <1>6. l - base_length[c] \in 0..2^extra_lbits[c] - 1
    <2> DEFINE b == base_length[c]
               p == 2^extra_lbits[c]
    <2>1. b \in Nat /\ p \in Nat /\ l < b + p /\ l >= b
      BY <1>3, <1>4, <1>5
    <2> HIDE DEF b, p
    <2>2. l - b \in 0..p - 1
      BY <2>1
    <2> QED BY <2>2 DEF b, p
  <1> QED BY <1>3, <1>6

\* The extra bits of the lengths are the same on the two sides.
LEMMA LengthExtra == \A c \in 0..28 : lext[c + 1] % 16 = extra_lbits[c]
  <1> SUFFICES ASSUME NEW c \in 0..28 PROVE lext[c + 1] % 16 = extra_lbits[c]
    OBVIOUS
  <1>1. CASE c \in 0..7 \/ c = 28
    BY <1>1 DEF lext, extra_lbits, length_codes
  <1>2. CASE c \in 8..15
    BY <1>2 DEF lext, extra_lbits, length_codes
  <1>3. CASE c \in 16..27
    BY <1>3 DEF lext, extra_lbits, length_codes
  <1> QED BY <1>1, <1>2, <1>3

\* And so are those of the distances.
LEMMA DistanceExtra == \A c \in 0..29 : dext[c + 1] % 16 = extra_dbits[c]
  <1> SUFFICES ASSUME NEW c \in 0..29 PROVE dext[c + 1] % 16 = extra_dbits[c]
    OBVIOUS
  <1>1. CASE c \in 0..9
    BY <1>1 DEF dext, extra_dbits, dcodes
  <1>2. CASE c \in 10..19
    BY <1>2 DEF dext, extra_dbits, dcodes
  <1>3. CASE c \in 20..29
    BY <1>3 DEF dext, extra_dbits, dcodes
  <1> QED BY <1>1, <1>2, <1>3

\* length_code and base_length: each length of a match is read back from its code and
\* extra bits.
LEMMA LengthCodes == \A l \in 0..255 : LengthRead(l, length_code[l])
  <1> SUFFICES ASSUME NEW l \in 0..255 PROVE LengthRead(l, length_code[l])
    OBVIOUS
  <1> DEFINE c == length_code[l]
  <1>1. CASE l = 255
    <2>1. c = 28
      BY <1>1 DEF length_code, length_codes
    <2>2. extra_lbits[28] = 0 /\ lbase[28 + 1] = 258 /\ 28 \in 0..28
      BY DEF extra_lbits, length_codes, lbase
    <2>3. lext[28 + 1] % 16 = extra_lbits[28]
      BY <2>2, LengthExtra
    <2> HIDE DEF c
    <2>4. LengthRead(l, c)
      <3>1. c \in 0..29 - 1 /\ extra_lbits[c] = 0
        BY <2>1, <2>2
      <3>2. lbase[c + 1] = l + 3
        BY <1>1, <2>1, <2>2
      <3> QED BY <2>1, <2>3, <3>1, <3>2 DEF LengthRead, length_codes
    <2> QED BY <2>4 DEF c
  <1>2. CASE l # 255
    <2> DEFINE In(d) == l - base_length[d] \in 0..2^extra_lbits[d] - 1
    <2>1. l \in 0..254
      BY <1>2
    <2>2. \E d \in 0..27 : In(d)
      BY <2>1, LengthInRange
    <2>3. c = CHOOSE d \in 0..27 : In(d)
      <3>1. length_codes - 1 = 28 /\ length_codes - 2 = 27
        BY DEF length_codes
      <3>2. c = CHOOSE d \in 0..length_codes - 2 : In(d)
        BY <1>2, ZenonT(30) DEF length_code
      <3> QED BY <3>1, <3>2, Zenon
    <2> HIDE DEF c, In
    <2>4. c \in 0..27 /\ In(c)
      BY <2>2, <2>3
    <2>5. c \in 0..28
      BY <2>4
    <2>6. extra_lbits[c] \in 0..5 /\ lext[c + 1] % 16 = extra_lbits[c]
      BY <2>5, ExtraBits, LengthExtra
    <2>7. base_length[c] = lbase[c + 1] - 3 /\ base_length[c] \in Nat
      BY <2>4, LengthBases
    <2>8. lbase[c + 1] \in Int
      BY <2>5 DEF lbase
    <2>9. lbase[c + 1] = base_length[c] + 3
      BY <2>7, <2>8
    <2>10. ASSUME extra_lbits[c] = 0 PROVE lbase[c + 1] = l + 3
      <3>1. 2^extra_lbits[c] = 1
        BY <2>10, Powers
      <3>2. l - base_length[c] = 0
        BY <2>4, <2>7, <3>1 DEF In
      <3> QED BY <2>7, <2>9, <3>2
    <2>11. LengthRead(l, c)
      BY <2>4, <2>5, <2>6, <2>7, <2>9, <2>10 DEF In, LengthRead, length_codes
    <2> QED BY <2>11 DEF c
  <1> QED BY <1>1, <1>2
\* Whether a code is that of a distance, and of one from 256 on by its entry of
\* dist_code.
DistanceIn(d, c) == d - base_dist[c] \in 0..2^extra_dbits[c] - 1
DistanceIn128(i, c) ==
    i - 256 - base_dist[c] \div 128 \in 0..2^(extra_dbits[c] - 7) - 1

\* A distance between the base of a code and the end of the range of another has one
\* of the codes from the one to the other.
LEMMA DistanceInRange ==
    ASSUME NEW m \in 0..29, NEW n \in 0..29, m <= n, NEW d \in Int,
           d >= dbase[m + 1] - 1, d < dbase[n + 1] - 1 + 2^extra_dbits[n]
    PROVE  \E c \in m..n : DistanceIn(d, c)
  <1> DEFINE up(c) == dbase[c + 1] - 1 + 2^extra_dbits[c]
             C == {c \in m..n : d < up(c)}
  <1>1. n \in C
    OBVIOUS
  <1>2. PICK c \in C : \A k \in C : c <= k
    <2>1. C \subseteq Nat /\ C # {}
      BY <1>1
    <2> HIDE DEF C
    <2> QED BY <2>1, Smallest
  <1>3. c \in m..n /\ c \in 0..29 /\ d < dbase[c + 1] - 1 + 2^extra_dbits[c]
    BY <1>2
  <1>4. d >= dbase[c + 1] - 1
    <2>1. CASE c = m
      BY <2>1
    <2>2. CASE c # m
      <3> DEFINE k == c - 1
      <3>1. k \in 0..28 /\ k \in m..n /\ k + 1 = c /\ k + 2 = c + 1 /\ ~(c <= k)
        BY <1>3, <2>2
      <3> HIDE DEF k
      <3>2. k \notin C
        BY <1>2, <3>1
      <3>3. ~(d < dbase[k + 1] - 1 + 2^extra_dbits[k])
        BY <3>1, <3>2
      <3>4. dbase[k + 2] = dbase[k + 1] + 2^extra_dbits[k]
        BY <3>1, DistanceSteps
      <3>5. dbase[k + 1] \in Int /\ 2^extra_dbits[k] \in Int
        BY <3>1, ExtraBits DEF dbase
      <3> QED BY <3>1, <3>3, <3>4, <3>5
    <2> QED BY <2>1, <2>2
  <1>5. base_dist[c] = dbase[c + 1] - 1 /\ base_dist[c] \in Nat /\ 2^extra_dbits[c] \in Nat
    BY <1>3, DistanceBases, ExtraBits
  <1>6. d - base_dist[c] \in 0..2^extra_dbits[c] - 1
    <2> DEFINE b == base_dist[c]
               p == 2^extra_dbits[c]
    <2>1. b \in Nat /\ p \in Nat /\ d < b + p /\ d >= b
      BY <1>3, <1>4, <1>5
    <2> HIDE DEF b, p
    <2>2. d - b \in 0..p - 1
      BY <2>1
    <2> QED BY <2>2 DEF b, p
  <1> QED BY <1>3, <1>6 DEF DistanceIn

\* From 256 on the codes are told apart by the distance in steps of 128.
LEMMA DistancesIn128 ==
    ASSUME NEW c \in 16..29, NEW d \in Nat
    PROVE  DistanceIn128(256 + d \div 128, c) <=> DistanceIn(d, c)
  <1>1. PICK u \in Nat : base_dist[c] = 128 * u
    <2>1. base_dist[c] = dbase[c + 1] - 1
      BY DistanceBases
    <2>2. \E u \in 0..192 : dbase[c + 1] - 1 = 128 * u
      <3>1. CASE c \in 16..22
        BY <3>1 DEF dbase
      <3>2. CASE c \in 23..29
        BY <3>2 DEF dbase
      <3> QED BY <3>1, <3>2
    <2> QED BY <2>1, <2>2
  <1>2. PICK p \in Nat : 2^(extra_dbits[c] - 7) = p /\ 2^extra_dbits[c] = 128 * p
    <2>1. extra_dbits[c] \in 7..13
      BY DEF extra_dbits, dcodes
    <2>2. ASSUME NEW n \in 0..6, extra_dbits[c] = n + 7, 2^(n + 7) = 128 * 2^n
          PROVE  \E p \in Nat : 2^(extra_dbits[c] - 7) = p /\ 2^extra_dbits[c] = 128 * p
      <3>1. extra_dbits[c] - 7 = n
        BY <2>2
      <3>2. n \in Nat
        OBVIOUS
      <3>3. 2^n \in Nat
        BY <3>2, PowerOfTwo
      <3>4. 2^(extra_dbits[c] - 7) = 2^n /\ 2^extra_dbits[c] = 128 * 2^n
        BY <2>2, <3>1, Zenon
      <3> QED BY <3>3, <3>4
    <2>3. PICK n \in 0..6 : n = extra_dbits[c] - 7
      BY <2>1
    <2>4. extra_dbits[c] = n + 7
      BY <2>1, <2>3
    <2>5. 2^(n + 7) = 128 * 2^n
      <3>1. CASE n = 0
        <4>1. n + 7 = 7
          BY <3>1
        <4> QED BY <3>1, <4>1, Powers
      <3>2. CASE n = 1
        <4>1. n + 7 = 8
          BY <3>2
        <4> QED BY <3>2, <4>1, Powers
      <3>3. CASE n = 2
        <4>1. n + 7 = 9
          BY <3>3
        <4> QED BY <3>3, <4>1, Powers
      <3>4. CASE n = 3
        <4>1. n + 7 = 10
          BY <3>4
        <4> QED BY <3>4, <4>1, Powers
      <3>5. CASE n = 4
        <4>1. n + 7 = 11
          BY <3>5
        <4> QED BY <3>5, <4>1, Powers
      <3>6. CASE n = 5
        <4>1. n + 7 = 12
          BY <3>6
        <4> QED BY <3>6, <4>1, Powers
      <3>7. CASE n = 6
        <4>1. n + 7 = 13
          BY <3>7
        <4> QED BY <3>7, <4>1, Powers
      <3>8. n = 0 \/ n = 1 \/ n = 2 \/ n = 3 \/ n = 4 \/ n = 5 \/ n = 6
        OBVIOUS
      <3> QED BY <3>1, <3>2, <3>3, <3>4, <3>5, <3>6, <3>7, <3>8
    <2> QED BY <2>2, <2>4, <2>5
  <1> DEFINE q == d \div 128
  <1>3. q \in Nat /\ 128 * q <= d /\ d < 128 * q + 128
    OBVIOUS
  <1>4. (128 * u) \div 128 = u
    OBVIOUS
  <1> HIDE DEF q
  <1>5. (256 + q) - 256 - u \in 0..p - 1 <=> d - 128 * u \in 0..128 * p - 1
    BY <1>3
  <1>6. DistanceIn128(256 + q, c) <=> (256 + q) - 256 - u \in 0..p - 1
    BY <1>1, <1>2, <1>4 DEF DistanceIn128
  <1>7. DistanceIn(d, c) <=> d - 128 * u \in 0..128 * p - 1
    BY <1>1, <1>2 DEF DistanceIn
  <1> QED BY <1>5, <1>6, <1>7 DEF q

\* What the table holds.
NearCode(i) == CHOOSE c \in 0..15 : DistanceIn(i, c)
FarCode(i) == CHOOSE c \in 16..29 : DistanceIn128(i, c)
LEMMA DistCode ==
    ASSUME NEW i \in 0..511
    PROVE  /\ i < 256 => dist_code[i] = NearCode(i)
           /\ i >= 258 => dist_code[i] = FarCode(i)
  <1>1. dist_code[i] = CASE i < 256 -> CHOOSE c \in 0..15 : DistanceIn(i, c)
                         [] i \in {256, 257} -> 0
                         [] OTHER -> CHOOSE c \in 16..dcodes - 1 : DistanceIn128(i, c)
    BY Zenon DEF dist_code, DistanceIn, DistanceIn128
  <1>2. 16..dcodes - 1 = 16..29
    BY DEF dcodes
  <1>3. ASSUME i < 256 PROVE dist_code[i] = CHOOSE c \in 0..15 : DistanceIn(i, c)
    <2>1. i \notin {256, 257}
      BY <1>3
    <2> QED BY <1>1, <1>3, <2>1
  <1>4. ASSUME i >= 258 PROVE dist_code[i] = CHOOSE c \in 16..29 : DistanceIn128(i, c)
    <2>1. i \notin {256, 257} /\ ~(i < 256)
      BY <1>4
    <2> QED BY <1>1, <1>2, <2>1
  <1> QED BY <1>3, <1>4, Zenon DEF NearCode, FarCode

\* A distance has the code that it is in the range of.
LEMMA DistanceCodeIs ==
    ASSUME NEW d \in Nat, d < 32768
    PROVE  d_code(d) \in 0..29 /\ DistanceIn(d, d_code(d))
  <1>1. CASE d < 256
    <2>1. d_code(d) = NearCode(d)
      <3>1. d \in 0..511
        BY <1>1
      <3>2. d_code(d) = dist_code[d]
        BY <1>1 DEF d_code
      <3> QED BY <1>1, <3>1, <3>2, DistCode
    <2>2. \E c \in 0..15 : DistanceIn(d, c)
      <3>1. dbase[0 + 1] - 1 = 0 /\ dbase[15 + 1] - 1 = 192 /\ extra_dbits[15] = 6
        BY DEF dbase, extra_dbits, dcodes
      <3>2. d >= dbase[0 + 1] - 1 /\ d < dbase[15 + 1] - 1 + 2^extra_dbits[15]
        BY <1>1, <3>1, Powers
      <3>3. 0 \in 0..29 /\ 15 \in 0..29 /\ 0 <= 15 /\ d \in Int
        OBVIOUS
      <3> QED BY <3>2, <3>3, DistanceInRange
    <2>3. d_code(d) \in 0..15 /\ DistanceIn(d, d_code(d))
      <3> DEFINE e == d_code(d)
      <3>1. e = CHOOSE c \in 0..15 : DistanceIn(d, c)
        BY <2>1 DEF NearCode
      <3> HIDE DEF e
      <3>2. e \in 0..15 /\ DistanceIn(d, e)
        BY <2>2, <3>1
      <3> QED BY <3>2 DEF e
    <2> QED BY <2>3
  <1>2. CASE ~(d < 256)
    <2> DEFINE i == 256 + d \div 128
    <2>1. i \in 258..511
      BY <1>2
    <2>2. d_code(d) = FarCode(i)
      <3>1. d_code(d) = dist_code[i]
        BY <1>2 DEF d_code
      <3>2. i \in 0..511 /\ i >= 258
        BY <2>1
      <3> HIDE DEF i
      <3> QED BY <3>1, <3>2, DistCode
    <2>3. \E c \in 16..29 : DistanceIn(d, c)
      <3>1. dbase[16 + 1] - 1 = 256 /\ dbase[29 + 1] - 1 = 24576 /\ extra_dbits[29] = 13
        BY DEF dbase, extra_dbits, dcodes
      <3>2. d >= dbase[16 + 1] - 1 /\ d < dbase[29 + 1] - 1 + 2^extra_dbits[29]
        BY <1>2, <3>1, Powers
      <3>3. 16 \in 0..29 /\ 29 \in 0..29 /\ 16 <= 29 /\ d \in Int
        OBVIOUS
      <3> QED BY <3>2, <3>3, DistanceInRange
    <2>4. \A c \in 16..29 : DistanceIn128(i, c) <=> DistanceIn(d, c)
      <3>1. d \in Nat
        OBVIOUS
      <3> QED BY <3>1, DistancesIn128
    <2>5. d_code(d) \in 16..29 /\ DistanceIn128(i, d_code(d))
      <3> DEFINE e == d_code(d)
      <3>1. e = CHOOSE c \in 16..29 : DistanceIn128(i, c)
        BY <2>2 DEF FarCode
      <3> HIDE DEF e, i
      <3>2. e \in 16..29 /\ DistanceIn128(i, e)
        BY <2>3, <2>4, <3>1
      <3> QED BY <3>2 DEF e
    <2>6. DistanceIn(d, d_code(d))
      <3> HIDE DEF i
      <3> QED BY <2>4, <2>5
    <2> QED BY <2>5, <2>6
  <1> QED BY <1>1, <1>2

\* d_code and base_dist: each distance is read back from its code and extra bits.
LEMMA DistanceCodes ==
    ASSUME NEW d \in Nat, d < 32768
    PROVE  DistanceRead(d, d_code(d))
  <1> DEFINE c == d_code(d)
  <1>1. c \in 0..29 /\ DistanceIn(d, c)
    BY DistanceCodeIs
  <1> HIDE DEF c
  <1>2. extra_dbits[c] \in 0..13
    BY <1>1, ExtraBits
  <1>3. dext[c + 1] % 16 = extra_dbits[c]
    BY <1>1, DistanceExtra
  <1>4. base_dist[c] = dbase[c + 1] - 1 /\ base_dist[c] \in Nat
    BY <1>1, DistanceBases
  <1>5. dbase[c + 1] \in Int
    BY <1>1 DEF dbase
  <1>6. dbase[c + 1] = base_dist[c] + 1
    BY <1>4, <1>5
  <1>7. c \in 0..dcodes - 1
    BY <1>1 DEF dcodes
  <1>8. DistanceRead(d, c)
    BY <1>1, <1>2, <1>3, <1>4, <1>6, <1>7 DEF DistanceRead, DistanceIn
  <1> QED BY <1>8 DEF c
-----------------------------------------------------------------------------
(* Runs *)

\* The largest and the smallest of a set of numbers.
LEMMA LargestIs ==
    ASSUME NEW n \in Nat, NEW C, C \subseteq 0..n, C # {}
    PROVE  Max(C) \in C /\ \A y \in C : y <= Max(C)
  <1> DEFINE D == {k \in 0..n : n - k \in C}
  <1>1. D \subseteq Nat /\ D # {}
    <2>1. PICK y \in C : TRUE
      OBVIOUS
    <2>2. n - y \in 0..n /\ n - (n - y) = y
      BY <2>1
    <2>3. n - y \in D
      BY <2>1, <2>2
    <2>4. D \subseteq Nat
      OBVIOUS
    <2> HIDE DEF D
    <2> QED BY <2>3, <2>4
  <1>2. PICK k \in D : \A j \in D : k <= j
    <2> HIDE DEF D
    <2> QED BY <1>1, Smallest
  <1> DEFINE m == n - k
  <1>3. m \in C /\ \A y \in C : m >= y
    <2>1. m \in C
      BY <1>2
    <2>2. ASSUME NEW y \in C PROVE m >= y
      <3>1. n - y \in 0..n /\ n - (n - y) = y
        BY <2>2
      <3>2. n - y \in D
        BY <3>1
      <3>3. k <= n - y
        <4> HIDE DEF D
        <4> QED BY <1>2, <3>2
      <3>4. k \in Int /\ y \in Int
        BY <1>2
      <3> QED BY <3>3, <3>4
    <2> QED BY <2>1, <2>2
  <1> HIDE DEF m
  <1> DEFINE Is(x) == \A y \in C : x >= y
             x == Max(C)
  <1>4. x = CHOOSE z \in C : Is(z)
    BY DEF Max
  <1>5. \E z \in C : Is(z)
    BY <1>3
  <1> HIDE DEF x, Is
  <1>6. x \in C /\ Is(x)
    BY <1>4, <1>5
  <1>7. \A y \in C : x >= y
    BY <1>6 DEF Is
  <1>8. \A y \in C : y <= x
    BY <1>6, <1>7
  <1> QED BY <1>6, <1>8 DEF x

\* The least element of a set of naturals.
LEMMA SmallestIs ==
    ASSUME NEW C, C \subseteq Nat, C # {}
    PROVE  Min(C) \in C /\ \A y \in C : Min(C) <= y
  <1> DEFINE Is(x) == \A y \in C : x <= y
             x == Min(C)
  <1>1. x = CHOOSE z \in C : Is(z)
    BY DEF Min
  <1>2. \E z \in C : Is(z)
    BY Smallest
  <1> HIDE DEF x, Is
  <1>3. x \in C /\ Is(x)
    BY <1>1, <1>2
  <1> QED BY <1>3 DEF x, Is

\* A tree that has a code, and the largest one that it has.
Lengths(dl, n) == n \in Nat /\ dl \in [0..n -> 0..max_bits] /\ Occur(dl) # {}

\* max_code is the largest code with a length.
LEMMA MaxCode ==
    ASSUME NEW n, NEW dl, Lengths(dl, n)
    PROVE  /\ max_code(dl) \in 0..n /\ dl[max_code(dl)] # 0
           /\ \A c \in 0..n : c > max_code(dl) => dl[c] = 0
  <1> DEFINE C == Occur(dl)
             m == Max(C)
  <1>1. C \subseteq 0..n /\ C # {} /\ n \in Nat /\ C = {c \in 0..n : dl[c] # 0}
    BY DEF Lengths, Occur
  <1> HIDE DEF C
  <1>2. m \in C /\ \A y \in C : y <= m
    BY <1>1, LargestIs
  <1> HIDE DEF m
  <1>3. m \in 0..n /\ dl[m] # 0
    BY <1>1, <1>2
  <1>4. ASSUME NEW c \in 0..n, c > m PROVE dl[c] = 0
    <2>1. ~(c <= m)
      BY <1>3, <1>4
    <2> QED BY <1>1, <1>2, <2>1
  <1> QED BY <1>3, <1>4 DEF m, C, max_code

\* What a run is, and the lengths that it stands for.
Run == [len : 0..max_bits, prevlen : -1..max_bits, min : 3..4, count : 1..138]
RunShape(r) ==
    /\ r \in Run
    /\ r.len = 0 => r.min = 3
    /\ r.len # 0 /\ r.len = r.prevlen => r.min = 3 /\ r.count <= 6
    /\ r.len # 0 /\ r.len # r.prevlen => r.min = 4 /\ r.count <= 7
RunCovers(r, dl, last, n) ==
    /\ n + r.count <= last + 1
    /\ \A j \in 0..r.count - 1 : dl[n + j] = r.len
    /\ r.prevlen = IF n = 0 THEN -1 ELSE dl[n - 1]

\* The numbers that a run is made of.
LEMMA RunFields ==
    ASSUME NEW r, RunShape(r)
    PROVE  /\ r \in Run /\ r.len \in 0..max_bits /\ r.prevlen \in -1..max_bits
           /\ r.min \in 3..4 /\ r.count \in 1..138 /\ r.count \in Nat
  <1>1. r \in Run
    BY DEF RunShape
  <1> QED BY <1>1 DEF Run

\* The run that scan_tree sees at a code stays in the tree and covers equal lengths.
LEMMA RunAtIs ==
    ASSUME NEW m \in Nat, NEW dl \in [0..m -> 0..max_bits], NEW last \in 0..m, NEW n \in 0..last
    PROVE  RunShape(RunAt(dl, last, n)) /\ RunCovers(RunAt(dl, last, n), dl, last, n)
  <1> DEFINE p == IF n = 0 THEN -1 ELSE dl[n - 1]
             lim == Limits(p, dl[n])
             lm == lim.max
             Ends(k) == k = lm \/ n + k > last \/ dl[n + k] # dl[n]
             C == {k \in 1..lm : Ends(k)}
             q == Min(C)
             r == RunAt(dl, last, n)
  <1>1. r = [len |-> dl[n], prevlen |-> p, min |-> lim.min, count |-> q]
    BY DEF RunAt
  <1>2. p \in -1..max_bits /\ dl[n] \in 0..max_bits
    BY DEF max_bits
  <1> HIDE DEF p
  <1>3. /\ lm \in 1..138 /\ lim.min \in 3..4
        /\ dl[n] = 0 => lim.min = 3
        /\ dl[n] # 0 /\ dl[n] = p => lim.min = 3 /\ lm = 6
        /\ dl[n] # 0 /\ dl[n] # p => lim.min = 4 /\ lm = 7
    BY DEF Limits
  <1> HIDE DEF lm, lim
  <1>4. C \subseteq Nat /\ C # {}
    <2>1. C \subseteq Nat
      BY <1>3
    <2>2. lm \in 1..lm /\ Ends(lm)
      BY <1>3
    <2>3. lm \in C
      <3> HIDE DEF Ends
      <3> QED BY <2>2
    <2> HIDE DEF C
    <2> QED BY <2>1, <2>3
  <1>5. q \in C /\ \A k \in C : q <= k
    <2> HIDE DEF C
    <2> QED BY <1>4, SmallestIs
  <1>6. q \in 1..138 /\ q <= lm
    <2> HIDE DEF q
    <2>1. q \in 1..lm
      BY <1>5
    <2> QED BY <1>3, <2>1
  <1> HIDE DEF q
  <1>7. \A k \in 1..q - 1 : ~Ends(k)
    <2> SUFFICES ASSUME NEW k \in 1..q - 1 PROVE ~Ends(k)
      OBVIOUS
    <2>1. k \in 1..lm /\ ~(q <= k)
      BY <1>3, <1>6
    <2>2. k \notin C
      <3> HIDE DEF C
      <3> QED BY <1>5, <2>1
    <2> HIDE DEF Ends
    <2> QED BY <2>1, <2>2
  <1>8. n + q <= last + 1
    <2>1. CASE q = 1
      BY <2>1
    <2>2. CASE q # 1
      <3>1. q - 1 \in 1..q - 1
        BY <1>6, <2>2
      <3>2. ~(n + (q - 1) > last)
        BY <1>7, <3>1
      <3> QED BY <1>6, <3>2
    <2> QED BY <2>1, <2>2
  <1>9. \A j \in 0..q - 1 : dl[n + j] = dl[n]
    <2> SUFFICES ASSUME NEW j \in 0..q - 1 PROVE dl[n + j] = dl[n]
      OBVIOUS
    <2>1. CASE j = 0
      <3>1. n + j = n
        BY <2>1
      <3> QED BY <3>1
    <2>2. CASE j # 0
      <3>1. j \in 1..q - 1
        BY <1>6, <2>2
      <3> QED BY <1>7, <3>1
    <2> QED BY <2>1, <2>2
  <1> HIDE DEF r
  <1>10. r \in Run /\ r.len = dl[n] /\ r.prevlen = p /\ r.min = lim.min /\ r.count = q
    BY <1>1, <1>2, <1>3, <1>6 DEF Run
  <1>11. RunShape(r)
    BY <1>3, <1>6, <1>10 DEF RunShape
  <1>12. RunCovers(r, dl, last, n)
    BY <1>8, <1>9, <1>10 DEF RunCovers, p
  <1> QED BY <1>11, <1>12 DEF r
\* The sums of the first elements of a sequence of numbers.
PrefixSums(f, n) ==
    /\ SumFunctionOnSet(f, 1..1 - 1) = 0
    /\ \A k \in 1..n :
          /\ SumFunctionOnSet(f, 1..k - 1) \in Nat
          /\ SumFunctionOnSet(f, 1..(k + 1) - 1) = SumFunctionOnSet(f, 1..k - 1) + f[k]
    /\ SumFunctionOnSet(f, 1..(n + 1) - 1) \in Nat

\* The sums of the first terms of a sequence, from one to the next.
LEMMA PrefixSumsAre ==
    ASSUME NEW n \in Nat, NEW f \in [1..n -> Nat]
    PROVE  PrefixSums(f, n)
  <1>1. \A k \in 0..n : SumFunctionOnSet(f, 1..k) \in Nat
    <2> SUFFICES ASSUME NEW k \in 0..n PROVE SumFunctionOnSet(f, 1..k) \in Nat
      OBVIOUS
    <2>1. IsFiniteSet(1..k)
      BY RangeFinite
    <2>2. \A i \in 1..k : f[i] \in Nat
      OBVIOUS
    <2> QED BY <2>1, <2>2, SumNat
  <1>2. ASSUME NEW k \in 1..n
        PROVE  /\ SumFunctionOnSet(f, 1..k - 1) \in Nat
               /\ SumFunctionOnSet(f, 1..(k + 1) - 1) = SumFunctionOnSet(f, 1..k - 1) + f[k]
    <2> DEFINE m == k - 1
    <2>1. m \in 0..n /\ 1 \in Int /\ m \in Int /\ 1 <= m + 1 /\ m + 1 = k /\ (k + 1) - 1 = k
      OBVIOUS
    <2>2. \A i \in 1..m + 1 : f[i] \in Int
      OBVIOUS
    <2> HIDE DEF m
    <2>3. SumFunctionOnSet(f, 1..m + 1) = SumFunctionOnSet(f, 1..m) + f[m + 1]
      BY <2>1, <2>2, SumUpTo
    <2> QED BY <1>1, <2>1, <2>3 DEF m
  <1>3. SumFunctionOnSet(f, 1..(n + 1) - 1) \in Nat
    <2>1. n \in 0..n /\ (n + 1) - 1 = n
      OBVIOUS
    <2> QED BY <1>1, <2>1
  <1>4. SumFunctionOnSet(f, 1..1 - 1) = 0
    <2>1. 1..1 - 1 = {}
      OBVIOUS
    <2> QED BY <2>1, SumEmpty
  <1> QED BY <1>2, <1>3, <1>4 DEF PrefixSums

\* How many lengths the runs before a run stand for.
RunAfterRun(runs, n) ==
    /\ LensBefore(runs, 1) = 0
    /\ \A k \in 1..n : /\ LensBefore(runs, k) \in Nat
                       /\ LensBefore(runs, k + 1) = LensBefore(runs, k) + runs[k].count
    /\ LensBefore(runs, n + 1) \in Nat

\* The lengths before a run grow by the length of the run before it.
LEMMA LensBeforeSteps ==
    ASSUME NEW n \in Nat, NEW runs, DOMAIN runs = 1..n, \A k \in 1..n : RunShape(runs[k])
    PROVE  RunAfterRun(runs, n)
  <1> DEFINE f == [i \in DOMAIN runs |-> runs[i].count]
  <1>1. f \in [1..n -> Nat] /\ \A k \in 1..n : f[k] = runs[k].count
    <2>1. \A k \in 1..n : runs[k].count \in Nat
      BY RunFields
    <2> QED BY <2>1
  <1>2. \A k : LensBefore(runs, k) = SumFunctionOnSet(f, 1..k - 1)
    BY DEF LensBefore
  <1> HIDE DEF f
  <1>3. PrefixSums(f, n)
    BY <1>1, PrefixSumsAre
  <1> QED BY <1>1, <1>2, <1>3 DEF PrefixSums, RunAfterRun

-----------------------------------------------------------------------------
\* g gives the runs of the lengths from a place on.
Cuts(g, dl, last) ==
    g = [n \in 0..last + 1 |->
            IF n > last THEN <<>>
            ELSE <<RunAt(dl, last, n)>> \o g[n + RunAt(dl, last, n).count]]

\* The cut of a tree into runs from each of its codes exists.
LEMMA CutsExist ==
    ASSUME NEW m \in Nat, NEW dl \in [0..m -> 0..max_bits], NEW last \in 0..m
    PROVE  \E g : Cuts(g, dl, last)
  <1> DEFINE r(n) == RunAt(dl, last, n)
             F(g, n) == IF n > last THEN <<>> ELSE <<r(n)>> \o g[n + r(n).count]
             Is(g, i) == g = [n \in (last + 1) - i..last + 1 |-> F(g, n)]
             T == {i \in Nat : i <= last + 1 => \E g : Is(g, i)}
  <1>1. 0 \in T
    <2> DEFINE g == [n \in last + 1..last + 1 |-> <<>>]
    <2>1. (last + 1) - 0 = last + 1 /\ last + 1 > last
      OBVIOUS
    <2>2. \A n \in last + 1..last + 1 : n > last
      OBVIOUS
    <2>3. \A n \in last + 1..last + 1 : F(g, n) = <<>>
      BY <2>2
    <2>4. Is(g, 0)
      <3> HIDE DEF F
      <3> QED BY <2>1, <2>3
    <2> HIDE DEF Is, g
    <2> QED BY <2>4
  <1>2. ASSUME NEW i \in Nat, i \in T PROVE i + 1 \in T
    <2> SUFFICES ASSUME i + 1 <= last + 1 PROVE \E g : Is(g, i + 1)
      <3>1. i + 1 \in Nat
        OBVIOUS
      <3> HIDE DEF Is
      <3> QED BY <3>1
    <2>0. i <= last + 1
      OBVIOUS
    <2>1. PICK g : Is(g, i)
      <3> HIDE DEF Is
      <3> QED BY <1>2, <2>0
    <2> DEFINE D == (last + 1) - i..last + 1
               E == (last + 1) - (i + 1)..last + 1
               h == [n \in E |-> F(g, n)]
    <2>2. \A n \in D : n \in E /\ g[n] = F(g, n)
      <3>1. \A n \in D : n \in E
        OBVIOUS
      <3> HIDE DEF F, E
      <3> QED BY <2>1, <3>1
    <2>3. \A n \in D : h[n] = g[n]
      <3> HIDE DEF F, D, E
      <3> QED BY <2>2
    <2>4. ASSUME NEW n \in E, ~(n > last) PROVE n + r(n).count \in D
      <3>1. n \in 0..last
        BY <2>4
      <3>2. RunShape(r(n)) /\ RunCovers(r(n), dl, last, n)
        BY <3>1, RunAtIs
      <3> DEFINE c == r(n).count
      <3>3. c \in 1..138 /\ n + c <= last + 1
        BY <3>2 DEF RunShape, Run, RunCovers
      <3> HIDE DEF c
      <3>4. n + c \in D
        BY <3>1, <3>3
      <3> QED BY <3>4 DEF c
    <2>5. \A n \in E : F(h, n) = F(g, n)
      <3> SUFFICES ASSUME NEW n \in E PROVE F(h, n) = F(g, n)
        OBVIOUS
      <3> HIDE DEF D, E, h
      <3>1. CASE n > last
        BY <3>1
      <3>2. CASE ~(n > last)
        <4>1. h[n + r(n).count] = g[n + r(n).count]
          BY <2>3, <2>4, <3>2
        <4> QED BY <3>2, <4>1
      <3> QED BY <3>1, <3>2
    <2>6. h = [n \in E |-> F(h, n)]
      <3> DEFINE e == [n \in E |-> F(h, n)]
      <3>1. \A n \in E : h[n] = e[n]
        <4> HIDE DEF F, E
        <4> QED BY <2>5
      <3>2. DOMAIN h = E /\ DOMAIN e = E
        OBVIOUS
      <3>3. h = [n \in E |-> h[n]] /\ e = [n \in E |-> e[n]]
        <4> HIDE DEF F, E
        <4> QED OBVIOUS
      <3> HIDE DEF e, h, E, F
      <3>4. h = e
        BY <3>1, <3>2, <3>3
      <3> QED BY <3>4 DEF e
    <2> HIDE DEF h, F
    <2>7. Is(h, i + 1)
      BY <2>6
    <2> HIDE DEF Is
    <2> QED BY <2>7
  <1>3. last + 1 \in T
    <2>1. last + 1 \in Nat
      OBVIOUS
    <2> HIDE DEF T
    <2> QED BY <1>1, <1>2, <2>1, InductionOnSet
  <1>4. PICK g : Is(g, last + 1)
    <2>1. last + 1 <= last + 1
      OBVIOUS
    <2> HIDE DEF Is
    <2> QED BY <1>3, <2>1
  <1>5. (last + 1) - (last + 1) = 0
    OBVIOUS
  <1> QED BY <1>4, <1>5 DEF Cuts

\* Runs starts with the first place.
LEMMA RunsIs ==
    ASSUME NEW m \in Nat, NEW dl \in [0..m -> 0..max_bits], max_code(dl) \in 0..m
    PROVE  \E g : Cuts(g, dl, max_code(dl)) /\ Runs(dl) = g[0]
  <1> DEFINE last == max_code(dl)
             Body(g) == [n \in 0..last + 1 |->
                            IF n > last THEN <<>>
                            ELSE <<RunAt(dl, last, n)>> \o g[n + RunAt(dl, last, n).count]]
             g == CHOOSE f : f = Body(f)
  <1>1. Runs(dl) = g[0]
    BY DEF Runs
  <1>2. \E f : f = Body(f)
    <2>1. last \in 0..m
      OBVIOUS
    <2>2. \E f : Cuts(f, dl, last)
      <3> HIDE DEF last
      <3> QED BY <2>1, CutsExist
    <2> QED BY <2>2 DEF Cuts
  <1>3. Cuts(g, dl, last)
    <2> HIDE DEF Body
    <2>1. g = Body(g)
      BY <1>2
    <2> HIDE DEF g
    <2> QED BY <2>1 DEF Body, Cuts
  <1> HIDE DEF g
  <1> QED BY <1>1, <1>3
\* Runs that stand for the lengths from n to last, one after the other.
RunsCover(runs, dl, last, n) ==
    /\ runs \in Seq(Run) /\ DOMAIN runs = 1..Len(runs)
    /\ \A k \in 1..Len(runs) :
          /\ RunShape(runs[k]) /\ n + LensBefore(runs, k) <= last
          /\ RunCovers(runs[k], dl, last, n + LensBefore(runs, k))
    /\ n + LensBefore(runs, Len(runs) + 1) = last + 1

\* A run before others makes them all stand for that many lengths more.
LEMMA RunBefore ==
    ASSUME NEW dl, NEW last \in Nat, NEW n \in 0..last, NEW r, RunShape(r),
           RunCovers(r, dl, last, n), NEW rest, RunsCover(rest, dl, last, n + r.count)
    PROVE  RunsCover(<<r>> \o rest, dl, last, n)
  <1> DEFINE s == <<r>> \o rest
             c == r.count
  <1>0. r \in Run /\ c \in 1..138 /\ c \in Nat /\ RunsCover(rest, dl, last, n + c)
    BY RunFields
  <1>1. PICK m \in Nat : m = Len(rest)
    <2>1. rest \in Seq(Run)
      BY DEF RunsCover
    <2>2. Len(rest) \in Nat
      BY <2>1
    <2> QED BY <2>2
  <1>2. rest \in Seq(Run) /\ DOMAIN rest = 1..m
    BY <1>1 DEF RunsCover
  <1>3. /\ s \in Seq(Run) /\ Len(s) = 1 + m /\ DOMAIN s = 1..1 + m
        /\ s[1] = r /\ \A k \in 1..m : s[1 + k] = rest[k]
    <2> DEFINE a == <<r>>
    <2>1. a \in Seq(Run) /\ Len(a) = 1 /\ a[1] = r
      BY <1>0
    <2> HIDE DEF a
    <2>2. Joined(a \o rest, a, rest, 1, m)
      BY <1>1, <1>2, <2>1, ConcatElements
    <2>3. a \o rest \in Seq(Run) /\ Len(a \o rest) = 1 + m
      <3>1. a \in Seq(Run)
        BY <2>1
      <3>2. rest \in Seq(Run)
        BY <1>2
      <3>3. a \o rest \in Seq(Run)
        BY <3>1, <3>2, ConcatProperties
      <3>4. Len(a \o rest) = Len(a) + Len(rest)
        BY <3>1, <3>2, ConcatProperties
      <3> QED BY <1>1, <2>1, <3>3, <3>4
    <2> DEFINE t == a \o rest
    <2> HIDE DEF t
    <2>4. t \in Seq(Run) /\ Len(t) = 1 + m /\ DOMAIN t = 1..1 + m
          /\ t[1] = r /\ \A k \in 1..m : t[1 + k] = rest[k]
      <3>1. Joined(t, a, rest, 1, m)
        BY <2>2 DEF t
      <3>2. t \in Seq(Run) /\ Len(t) = 1 + m
        BY <2>3 DEF t
      <3>3. 1 \in 1..1
        OBVIOUS
      <3>4. t[1] = r
        BY <2>1, <3>1, <3>3 DEF Joined
      <3> QED BY <3>1, <3>2, <3>4 DEF Joined
    <2> QED BY <2>4 DEF t, a
  <1> HIDE DEF s
  <1>4. \A k \in 1..m : RunShape(rest[k])
    BY <1>1 DEF RunsCover
  <1>5. \A k \in 1..1 + m : RunShape(s[k])
    <2> SUFFICES ASSUME NEW k \in 1..1 + m PROVE RunShape(s[k])
      OBVIOUS
    <2>1. CASE k = 1
      BY <1>3, <2>1
    <2>2. CASE k # 1
      <3>1. PICK j \in 1..m : k = 1 + j
        <4>1. k - 1 \in 1..m /\ k = 1 + (k - 1)
          BY <2>2
        <4> QED BY <4>1
      <3> QED BY <1>3, <1>4, <3>1
    <2> QED BY <2>1, <2>2
  <1>6. RunAfterRun(rest, m)
    BY <1>2, <1>4, LensBeforeSteps
  <1>7. RunAfterRun(s, 1 + m)
    <2>1. 1 + m \in Nat
      OBVIOUS
    <2> QED BY <1>3, <1>5, <2>1, LensBeforeSteps
  <1>18. r.count = c
    OBVIOUS
  <1> HIDE DEF c
  <1> DEFINE B(k) == LensBefore(rest, k)
             A(k) == LensBefore(s, k)
  <1>8. B(1) = 0 /\ A(1) = 0 /\ A(1 + 1) = c
    <2>1. 1 \in 1..1 + m
      OBVIOUS
    <2>2. A(1) = 0 /\ A(1 + 1) = A(1) + s[1].count
      BY <1>7, <2>1 DEF RunAfterRun
    <2>3. B(1) = 0
      BY <1>6 DEF RunAfterRun
    <2>4. A(1 + 1) = 0 + c /\ 0 + c = c
      BY <1>0, <1>3, <1>18, <2>2
    <2> QED BY <2>2, <2>3, <2>4
  <1>9. \A k \in 1..m : B(k) \in Nat /\ B(k + 1) = B(k) + rest[k].count
    BY <1>6 DEF RunAfterRun
  <1>10. \A k \in 1..m : A((1 + k) + 1) = A(1 + k) + rest[k].count
    <2> SUFFICES ASSUME NEW k \in 1..m PROVE A((1 + k) + 1) = A(1 + k) + rest[k].count
      OBVIOUS
    <2> DEFINE j == 1 + k
    <2>1. j \in 1..1 + m
      OBVIOUS
    <2> HIDE DEF j
    <2>2. A(j + 1) = A(j) + s[j].count
      BY <1>7, <2>1 DEF RunAfterRun
    <2> QED BY <1>3, <2>2 DEF j
  <1>11. \A k \in 1..m : rest[k].count \in Nat
    BY <1>4 DEF RunShape, Run
  <1> HIDE DEF A, B
  <1>12. \A k \in 1..m + 1 : A(1 + k) = c + B(k) /\ B(k) \in Nat
    <2> DEFINE Is(k) == A(1 + k) = c + B(k) /\ B(k) \in Nat
               T == {i \in Nat : i + 1 <= m + 1 => Is(i + 1)}
    <2>1. 0 \in T
      <3>1. Is(1)
        <4>1. c + 0 = c /\ 0 \in Nat
          BY <1>0
        <4> QED BY <1>8, <4>1
      <3>2. 0 + 1 = 1
        OBVIOUS
      <3> HIDE DEF Is
      <3> QED BY <3>1, <3>2
    <2>2. ASSUME NEW i \in Nat, i \in T PROVE i + 1 \in T
      <3> DEFINE k == i + 1
      <3> SUFFICES ASSUME k + 1 <= m + 1 PROVE Is(k + 1)
        <4>1. i + 1 \in Nat
          OBVIOUS
        <4> HIDE DEF Is
        <4> QED BY <4>1
      <3>1. k \in 1..m /\ i + 1 <= m + 1 /\ 1 + (k + 1) = (1 + k) + 1
        OBVIOUS
      <3>2. Is(k)
        <4> HIDE DEF Is
        <4> QED BY <2>2, <3>1
      <3> HIDE DEF k
      <3>3. A((1 + k) + 1) = A(1 + k) + rest[k].count
        BY <1>10, <3>1
      <3>4. B(k + 1) = B(k) + rest[k].count /\ rest[k].count \in Nat
        BY <1>9, <1>11, <3>1
      <3>5. PICK x \in Nat, y \in Nat, z \in Nat : x = c /\ y = B(k) /\ z = rest[k].count
        BY <1>0, <3>2, <3>4
      <3>6. A((1 + k) + 1) = (x + y) + z /\ B(k + 1) = y + z
        BY <3>2, <3>3, <3>4, <3>5
      <3>7. (x + y) + z = x + (y + z) /\ y + z \in Nat
        BY ONLY <3>5
      <3> QED BY <3>1, <3>5, <3>6, <3>7
    <2>3. Nat \subseteq T
      <3> HIDE DEF T
      <3> QED BY <2>1, <2>2, InductionOnSet
    <2> HIDE DEF Is
    <2>4. \A k \in 1..m + 1 : Is(k)
      <3> SUFFICES ASSUME NEW k \in 1..m + 1 PROVE Is(k)
        OBVIOUS
      <3>1. k - 1 \in Nat /\ (k - 1) + 1 = k
        OBVIOUS
      <3> QED BY <2>3, <3>1
    <2> QED BY <2>4 DEF Is
  <1>13. \A k \in 1..m + 1 : n + A(1 + k) = (n + c) + B(k)
    <2> SUFFICES ASSUME NEW k \in 1..m + 1 PROVE n + A(1 + k) = (n + c) + B(k)
      OBVIOUS
    <2>0. n \in Nat /\ c \in Nat /\ B(k) \in Nat
      BY <1>0, <1>12
    <2>1. PICK x \in Nat, y \in Nat, z \in Nat : x = n /\ y = c /\ z = B(k)
      BY <2>0
    <2>2. A(1 + k) = y + z
      BY <1>12, <2>1
    <2>3. x + (y + z) = (x + y) + z
      BY ONLY <2>1
    <2> QED BY <2>1, <2>2, <2>3
  <1>14. /\ \A k \in 1..m : (n + c) + B(k) <= last /\ RunCovers(rest[k], dl, last, (n + c) + B(k))
         /\ (n + c) + B(m + 1) = last + 1
    BY <1>0, <1>1 DEF RunsCover, B
  <1>15. ASSUME NEW k \in 1..1 + m
         PROVE  n + A(k) <= last /\ RunCovers(s[k], dl, last, n + A(k))
    <2>1. CASE k = 1
      <3>1. n + A(1) = n
        BY <1>8
      <3> QED BY <1>3, <2>1, <3>1
    <2>2. CASE k # 1
      <3>1. PICK j \in 1..m : k = 1 + j
        <4>1. k - 1 \in 1..m /\ k = 1 + (k - 1)
          BY <2>2
        <4> QED BY <4>1
      <3>2. n + A(1 + j) = (n + c) + B(j)
        <4>1. j \in 1..m + 1
          BY <3>1
        <4> QED BY <1>13, <4>1
      <3> QED BY <1>3, <1>14, <3>1, <3>2
    <2> QED BY <2>1, <2>2
  <1>16. n + A((1 + m) + 1) = last + 1
    <2>1. m + 1 \in 1..m + 1 /\ (1 + m) + 1 = 1 + (m + 1)
      OBVIOUS
    <2> QED BY <1>13, <1>14, <2>1
  <1>17. RunsCover(s, dl, last, n)
    BY <1>3, <1>5, <1>15, <1>16 DEF RunsCover, A
  <1> QED BY <1>17 DEF s
\* The runs from a place on stand for the lengths from there on.
LEMMA CutsCover ==
    ASSUME NEW m \in Nat, NEW dl \in [0..m -> 0..max_bits], NEW last \in 0..m, NEW g, Cuts(g, dl, last)
    PROVE  RunsCover(g[0], dl, last, 0)
  <1> DEFINE r(n) == RunAt(dl, last, n)
             place(i) == (last + 1) - i
             Is(i) == RunsCover(g[place(i)], dl, last, place(i))
             T == {i \in Nat : \A j \in 0..i : j <= last + 1 => Is(j)}
  <1>1. \A n \in 0..last + 1 : g[n] = IF n > last THEN <<>> ELSE <<r(n)>> \o g[n + r(n).count]
    <2>1. Cuts(g, dl, last)
      OBVIOUS
    <2> QED BY <2>1 DEF Cuts
  <1>2. Is(0)
    <2>1. place(0) = last + 1 /\ last + 1 \in 0..last + 1 /\ last + 1 > last
      OBVIOUS
    <2> HIDE DEF r
    <2>2. g[last + 1] = <<>>
      BY <1>1, <2>1
    <2> DEFINE e == <<>>
    <2>3. e \in Seq(Run) /\ DOMAIN e = 1..0 /\ Len(e) = 0
      OBVIOUS
    <2> HIDE DEF e
    <2>4. RunAfterRun(e, 0)
      <3>1. \A k \in 1..0 : RunShape(e[k])
        OBVIOUS
      <3>2. 0 \in Nat
        OBVIOUS
      <3> QED BY <2>3, <3>1, <3>2, LensBeforeSteps
    <2>5. LensBefore(e, 0 + 1) = 0
      <3>1. 0 + 1 = 1
        OBVIOUS
      <3> QED BY <2>4, <3>1 DEF RunAfterRun
    <2>6. (last + 1) + 0 = last + 1 /\ 1..0 = {}
      OBVIOUS
    <2>7. RunsCover(e, dl, last, last + 1)
      BY <2>3, <2>5, <2>6 DEF RunsCover
    <2> QED BY <2>1, <2>2, <2>7 DEF e
  <1>3. 0 \in T
    <2> HIDE DEF Is
    <2> QED BY <1>2
  <1>4. ASSUME NEW i \in Nat, i \in T PROVE i + 1 \in T
    <2>1. \A j \in 0..i : j <= last + 1 => Is(j)
      <3> HIDE DEF Is
      <3> QED BY <1>4
    <2>2. ASSUME i + 1 <= last + 1 PROVE Is(i + 1)
      <3> DEFINE n == place(i + 1)
      <3>1. n \in 0..last
        BY <2>2
      <3>2. RunShape(r(n)) /\ RunCovers(r(n), dl, last, n)
        <4> HIDE DEF n
        <4> QED BY <3>1, RunAtIs
      <3> DEFINE c == r(n).count
                 j == (i + 1) - c
      <3>3. c \in 1..138 /\ n + c <= last + 1
        BY <3>2, RunFields DEF RunCovers
      <3>4. j \in 0..i /\ j <= last + 1 /\ place(j) = n + c
        <4> HIDE DEF c
        <4> QED BY <2>2, <3>3
      <3>5. RunsCover(g[n + c], dl, last, n + c)
        <4>1. Is(j)
          <5> HIDE DEF Is, j
          <5> QED BY <2>1, <3>4
        <4> HIDE DEF j, c, n
        <4> QED BY <3>4, <4>1
      <3>6. g[n] = <<r(n)>> \o g[n + c]
        <4>1. n \in 0..last + 1 /\ ~(n > last)
          BY <3>1
        <4> HIDE DEF r, n
        <4> QED BY <1>1, <4>1
      <3>7. RunsCover(<<r(n)>> \o g[n + c], dl, last, n)
        <4> DEFINE run == r(n)
        <4> HIDE DEF run, n
        <4>1. RunShape(run) /\ RunCovers(run, dl, last, n) /\ RunsCover(g[n + run.count], dl, last, n + run.count)
          BY <3>2, <3>5 DEF run
        <4>2. last \in Nat
          OBVIOUS
        <4>3. RunsCover(<<run>> \o g[n + run.count], dl, last, n)
          BY <3>1, <4>1, <4>2, RunBefore
        <4> QED BY <4>3 DEF run
      <3> HIDE DEF r, n
      <3>8. RunsCover(g[n], dl, last, n)
        BY <3>6, <3>7
      <3> QED BY <3>8 DEF n
    <2>3. \A j \in 0..i + 1 : j \in 0..i \/ j = i + 1
      OBVIOUS
    <2>4. \A j \in 0..i + 1 : j <= last + 1 => Is(j)
      <3> HIDE DEF Is
      <3> QED BY <2>1, <2>2, <2>3
    <2>5. i + 1 \in Nat
      OBVIOUS
    <2> HIDE DEF Is
    <2> QED BY <2>4, <2>5
  <1>5. Nat \subseteq T
    <2> HIDE DEF T
    <2> QED BY <1>3, <1>4, InductionOnSet
  <1>6. Is(last + 1)
    <2>1. last + 1 \in Nat /\ last + 1 \in 0..last + 1 /\ last + 1 <= last + 1
      OBVIOUS
    <2> HIDE DEF Is
    <2> QED BY <1>5, <2>1
  <1>7. place(last + 1) = 0
    OBVIOUS
  <1> HIDE DEF place
  <1> QED BY <1>6, <1>7

\* Runs cuts all of the lengths of a tree up to the largest code.
LEMMA RunsAre ==
    ASSUME NEW m, NEW dl, Lengths(dl, m)
    PROVE  RunsCover(Runs(dl), dl, max_code(dl), 0)
  <1>1. m \in Nat /\ dl \in [0..m -> 0..max_bits]
    BY DEF Lengths
  <1>2. max_code(dl) \in 0..m
    BY MaxCode
  <1>3. PICK g : Cuts(g, dl, max_code(dl)) /\ Runs(dl) = g[0]
    BY <1>1, <1>2, RunsIs
  <1> DEFINE last == max_code(dl)
  <1> HIDE DEF last
  <1>4. last \in 0..m /\ Cuts(g, dl, last)
    BY <1>2, <1>3 DEF last
  <1>5. RunsCover(g[0], dl, last, 0)
    BY <1>1, <1>4, CutsCover
  <1> QED BY <1>3, <1>5 DEF last

\* The sums of what follows p numbers go on from their sum.
ShiftedSums(f, h, p, q) ==
    \A k \in 0..q : SumFunctionOnSet(f, 1..p + k)
                       = SumFunctionOnSet(f, 1..p) + SumFunctionOnSet(h, 1..k)

\* The sum of p + q terms is that of the first p and that of the q after them.
LEMMA SumShift ==
    ASSUME NEW p \in Nat, NEW q \in Nat, NEW f, NEW h,
           \A i \in 1..p + q : f[i] \in Int, \A i \in 1..q : f[p + i] = h[i]
    PROVE  ShiftedSums(f, h, p, q)
  <1> DEFINE F(k) == SumFunctionOnSet(f, 1..k)
             H(k) == SumFunctionOnSet(h, 1..k)
             Is(k) == F(p + k) = F(p) + H(k) /\ H(k) \in Int
             T == {k \in Nat : k <= q => Is(k)}
  <1>1. F(p) \in Int
    <2>1. IsFiniteSet(1..p) /\ \A i \in 1..p : f[i] \in Int
      BY RangeFinite
    <2> QED BY <2>1, SumInt
  <1>2. \A k \in 0..q - 1 : F(p + (k + 1)) = F(p + k) + f[p + (k + 1)]
    <2> SUFFICES ASSUME NEW k \in 0..q - 1 PROVE F(p + (k + 1)) = F(p + k) + f[p + (k + 1)]
      OBVIOUS
    <2> DEFINE n == p + k
    <2>1. 1 \in Int /\ n \in Int /\ 1 <= n + 1 /\ \A i \in 1..n + 1 : f[i] \in Int
      OBVIOUS
    <2>2. n + 1 = p + (k + 1)
      OBVIOUS
    <2> HIDE DEF n
    <2>3. SumFunctionOnSet(f, 1..n + 1) = SumFunctionOnSet(f, 1..n) + f[n + 1]
      BY <2>1, SumUpTo
    <2> QED BY <2>2, <2>3 DEF n
  <1>3. \A k \in 0..q - 1 : H(k + 1) = H(k) + h[k + 1]
    <2> SUFFICES ASSUME NEW k \in 0..q - 1 PROVE H(k + 1) = H(k) + h[k + 1]
      OBVIOUS
    <2>1. \A i \in 1..k + 1 : h[i] \in Int
      <3> SUFFICES ASSUME NEW i \in 1..k + 1 PROVE h[i] \in Int
        OBVIOUS
      <3>1. i \in 1..q /\ p + i \in 1..p + q
        OBVIOUS
      <3>2. f[p + i] = h[i]
        BY <3>1
      <3>3. f[p + i] \in Int
        BY <3>1
      <3> QED BY <3>2, <3>3
    <2>2. 1 \in Int /\ k \in Int /\ 1 <= k + 1
      OBVIOUS
    <2> QED BY <2>1, <2>2, SumUpTo
  <1>4. \A k \in 0..q - 1 : f[p + (k + 1)] = h[k + 1] /\ h[k + 1] \in Int
    <2> SUFFICES ASSUME NEW k \in 0..q - 1 PROVE f[p + (k + 1)] = h[k + 1] /\ h[k + 1] \in Int
      OBVIOUS
    <2> DEFINE j == k + 1
    <2>1. j \in 1..q /\ p + j \in 1..p + q
      OBVIOUS
    <2> HIDE DEF j
    <2>2. f[p + j] = h[j]
      BY <2>1
    <2>3. f[p + j] \in Int
      BY <2>1
    <2> QED BY <2>2, <2>3 DEF j
  <1>5. H(0) = 0
    <2>1. 1..0 = {}
      OBVIOUS
    <2> QED BY <2>1, SumEmpty
  <1> HIDE DEF F, H
  <1>6. 0 \in T
    <2>1. p + 0 = p /\ F(p) + 0 = F(p)
      BY <1>1
    <2>2. Is(0)
      BY <1>5, <2>1
    <2> HIDE DEF Is
    <2> QED BY <2>2
  <1>7. ASSUME NEW k \in Nat, k \in T PROVE k + 1 \in T
    <2> SUFFICES ASSUME k + 1 <= q PROVE Is(k + 1)
      <3>1. k + 1 \in Nat
        OBVIOUS
      <3> HIDE DEF Is
      <3> QED BY <3>1
    <2>1. k \in 0..q - 1 /\ k <= q
      OBVIOUS
    <2>2. Is(k)
      <3> HIDE DEF Is
      <3> QED BY <1>7, <2>1
    <2>3. F(p + (k + 1)) = F(p + k) + h[k + 1] /\ H(k + 1) = H(k) + h[k + 1] /\ h[k + 1] \in Int
      BY <1>2, <1>3, <1>4, <2>1
    <2>4. PICK x \in Int, y \in Int, z \in Int : x = F(p) /\ y = H(k) /\ z = h[k + 1]
      BY <1>1, <2>2, <2>3
    <2>5. F(p + (k + 1)) = (x + y) + z /\ H(k + 1) = y + z
      BY <2>2, <2>3, <2>4
    <2>6. (x + y) + z = x + (y + z) /\ y + z \in Int
      OBVIOUS
    <2> QED BY <2>4, <2>5, <2>6
  <1>8. Nat \subseteq T
    <2> HIDE DEF T
    <2> QED BY <1>6, <1>7, InductionOnSet
  <1> HIDE DEF Is
  <1>9. \A k \in 0..q : Is(k)
    BY <1>8
  <1> QED BY <1>9 DEF Is, F, H, ShiftedSums
\* Runs that say what the lengths are: each stands for equal ones, and one that says
\* the length before again comes after it.
RunReads(r, lens, total, n) ==
    /\ n \in Nat /\ n + r.count <= total
    /\ \A j \in 1..r.count : lens[n + j] = r.len
    /\ r.len # 0 /\ r.len = r.prevlen => n >= 1 /\ lens[n] = r.len
RunsRead(rs, lens, total) ==
    /\ rs \in Seq(Run) /\ DOMAIN rs = 1..Len(rs) /\ Len(rs) \in Nat /\ total \in Nat
    /\ LensBefore(rs, 1) = 0
    /\ \A k \in 1..Len(rs) :
          /\ RunShape(rs[k]) /\ RunReads(rs[k], lens, total, LensBefore(rs, k))
          /\ LensBefore(rs, k + 1) = LensBefore(rs, k) + rs[k].count
    /\ LensBefore(rs, Len(rs) + 1) = total

\* The lengths up to the last.
Listed(dl, last, lens, p) == \A n \in 0..last : lens[p + (n + 1)] = dl[n]

\* A run of a tree repeats what the list of lengths holds where it stands.
LEMMA RunsReadThem ==
    ASSUME NEW dl, NEW last \in Nat, NEW rs, RunsCover(rs, dl, last, 0), NEW p \in Nat,
           NEW lens, Listed(dl, last, lens, p), NEW total \in Nat, p + (last + 1) <= total,
           NEW k \in 1..Len(rs)
    PROVE  RunReads(rs[k], lens, total, p + LensBefore(rs, k))
  <1> DEFINE r == rs[k]
             b == LensBefore(rs, k)
             n == p + b
  <1>1. RunShape(r) /\ 0 + b <= last /\ RunCovers(r, dl, last, 0 + b) /\ k \in 1..Len(rs)
    BY DEF RunsCover
  <1>2. b \in Nat
    <2>1. rs \in Seq(Run)
      BY DEF RunsCover
    <2>2. PICK m \in Nat : m = Len(rs)
      <3>1. Len(rs) \in Nat
        BY <2>1
      <3> QED BY <3>1
    <2>3. DOMAIN rs = 1..m /\ \A i \in 1..m : RunShape(rs[i])
      BY <2>2 DEF RunsCover
    <2>4. RunAfterRun(rs, m)
      BY <2>3, LensBeforeSteps
    <2> QED BY <2>2, <2>4 DEF RunAfterRun
  <1> HIDE DEF r, b
  <1>3. 0 + b = b
    BY <1>2
  <1>4. RunCovers(r, dl, last, b) /\ b <= last
    BY <1>1, <1>3
  <1>5. PICK c \in Nat : c = r.count /\ c >= 1
    <2>1. r.count \in 1..138
      BY <1>1, RunFields
    <2> DEFINE c == r.count
    <2> HIDE DEF c
    <2>2. c \in 1..138
      BY <2>1 DEF c
    <2>3. c \in Nat /\ c >= 1
      BY <2>2
    <2> QED BY <2>3 DEF c
  <1>6. /\ b + c <= last + 1 /\ \A j \in 0..c - 1 : dl[b + j] = r.len
        /\ r.prevlen = IF b = 0 THEN -1 ELSE dl[b - 1]
    BY <1>4, <1>5 DEF RunCovers
  <1>7. n \in Nat /\ n + c <= total
    BY <1>2, <1>5, <1>6
  <1>8. ASSUME NEW j \in 1..c PROVE lens[n + j] = r.len
    <2> DEFINE i == j - 1
               h == b + i
    <2>0. b + c <= last + 1
      BY <1>6, Zenon
    <2>1. i \in 0..c - 1 /\ h \in 0..last /\ p + (h + 1) = n + j
      <3>1. b \in Nat /\ c \in Nat
        BY <1>2, <1>5, Zenon
      <3> QED BY <2>0, <3>1
    <2> HIDE DEF i, h, n
    <2>2. dl[h] = r.len
      BY <1>6, <2>1 DEF h
    <2>3. lens[p + (h + 1)] = dl[h]
      BY <2>1 DEF Listed
    <2> QED BY <2>1, <2>2, <2>3
  <1>9. ASSUME r.len # 0, r.len = r.prevlen PROVE n >= 1 /\ lens[n] = r.len
    <2>0. r.len \in 0..max_bits
      BY <1>1, RunFields
    <2>1. b # 0
      <3> SUFFICES ASSUME b = 0 PROVE FALSE
        OBVIOUS
      <3>1. r.len = -1
        BY <1>6, <1>9
      <3> QED BY <2>0, <3>1 DEF max_bits
    <2> DEFINE i == b - 1
    <2>2. i \in 0..last /\ p + (i + 1) = n /\ n >= 1
      BY <1>2, <1>4, <2>1
    <2>3. r.len = dl[i]
      BY <1>6, <1>9, <2>1
    <2> HIDE DEF i, n
    <2>4. lens[p + (i + 1)] = dl[i]
      BY <2>2 DEF Listed
    <2> QED BY <2>2, <2>3, <2>4
  <1> HIDE DEF n
  <1>10. RunReads(r, lens, total, n)
    BY <1>5, <1>7, <1>8, <1>9 DEF RunReads
  <1> QED BY <1>10 DEF r, n, b

\* The runs of both trees, one after the other, read the list of both trees' lengths.
LEMMA TwoTreesRead ==
    ASSUME NEW l, NEW d, NEW x \in Nat, NEW y \in Nat, NEW a, NEW b,
           RunsCover(a, l, x, 0), RunsCover(b, d, y, 0), NEW lens,
           Listed(l, x, lens, 0), Listed(d, y, lens, x + 1)
    PROVE  RunsRead(a \o b, lens, (x + 1) + (y + 1))
  <1> DEFINE rs == a \o b
             total == (x + 1) + (y + 1)
  <1>1. a \in Seq(Run) /\ b \in Seq(Run)
    BY DEF RunsCover
  <1>2. PICK p \in Nat, q \in Nat : p = Len(a) /\ q = Len(b)
    <2>1. Len(a) \in Nat /\ Len(b) \in Nat
      BY <1>1
    <2> QED BY <2>1
  <1>3. Joined(rs, a, b, p, q)
    BY <1>1, <1>2, ConcatElements
  <1>4. rs \in Seq(Run) /\ Len(rs) = p + q
    BY <1>1, <1>2, ConcatProperties
  <1>5. total \in Nat /\ 0 + (x + 1) <= total /\ (x + 1) + (y + 1) <= total /\ x + 1 \in Nat
    OBVIOUS
  <1> HIDE DEF rs
  <1>6. DOMAIN rs = 1..p + q /\ (\A i \in 1..p : rs[i] = a[i]) /\ \A i \in 1..q : rs[p + i] = b[i]
    BY <1>3 DEF Joined
  <1>7. (\A i \in 1..p : RunShape(a[i])) /\ (\A i \in 1..q : RunShape(b[i]))
    BY <1>2 DEF RunsCover
  <1>8. \A k \in 1..p + q : RunShape(rs[k])
    <2> SUFFICES ASSUME NEW k \in 1..p + q PROVE RunShape(rs[k])
      OBVIOUS
    <2>1. CASE k \in 1..p
      BY <1>6, <1>7, <2>1
    <2>2. CASE k \notin 1..p
      <3>1. k - p \in 1..q /\ p + (k - p) = k
        BY <2>2
      <3> QED BY <1>6, <1>7, <3>1
    <2> QED BY <2>1, <2>2
  <1>9. p + q \in Nat
    OBVIOUS
  <1>10. RunAfterRun(rs, p + q)
    BY <1>6, <1>8, <1>9, LensBeforeSteps
  <1>11. \A k \in 1..p + 1 : LensBefore(rs, k) = LensBefore(a, k)
    <2> SUFFICES ASSUME NEW k \in 1..p + 1 PROVE LensBefore(rs, k) = LensBefore(a, k)
      OBVIOUS
    <2> DEFINE f == [i \in DOMAIN rs |-> rs[i].count]
               h == [i \in DOMAIN a |-> a[i].count]
    <2>1. DOMAIN a = 1..p
      BY <1>2 DEF RunsCover
    <2>2. \A i \in 1..k - 1 : i \in 1..p /\ i \in 1..p + q
      OBVIOUS
    <2>3. \A i \in 1..k - 1 : f[i] = h[i]
      BY <1>6, <2>1, <2>2
    <2>4. IsFiniteSet(1..k - 1)
      BY RangeFinite
    <2> HIDE DEF f, h
    <2>5. SumFunctionOnSet(f, 1..k - 1) = SumFunctionOnSet(h, 1..k - 1)
      BY <2>3, <2>4, SumAgree
    <2> QED BY <2>5 DEF LensBefore, f, h
  <1>12. LensBefore(a, p + 1) = x + 1 /\ LensBefore(b, q + 1) = y + 1
    <2>1. LensBefore(a, p + 1) \in Nat /\ LensBefore(b, q + 1) \in Nat
      <3>1. DOMAIN a = 1..p /\ DOMAIN b = 1..q
        BY <1>2 DEF RunsCover
      <3>2. RunAfterRun(a, p) /\ RunAfterRun(b, q)
        BY <1>7, <3>1, LensBeforeSteps
      <3> QED BY <3>2 DEF RunAfterRun
    <2>2. 0 + LensBefore(a, p + 1) = x + 1 /\ 0 + LensBefore(b, q + 1) = y + 1
      BY <1>2 DEF RunsCover
    <2> QED BY <2>1, <2>2
  <1>13. \A k \in 1..q + 1 : LensBefore(rs, p + k) = (x + 1) + LensBefore(b, k)
    <2> DEFINE f == [i \in DOMAIN rs |-> rs[i].count]
               h == [i \in DOMAIN b |-> b[i].count]
    <2>1. DOMAIN b = 1..q
      BY <1>2 DEF RunsCover
    <2>2. \A i \in 1..p + q : f[i] \in Int
      <3>1. \A i \in 1..p + q : rs[i].count \in Nat
        BY <1>8, RunFields
      <3> QED BY <1>6, <3>1
    <2>3. \A i \in 1..q : f[p + i] = h[i]
      <3> SUFFICES ASSUME NEW i \in 1..q PROVE f[p + i] = h[i]
        OBVIOUS
      <3>1. p + i \in 1..p + q
        OBVIOUS
      <3> QED BY <1>6, <2>1, <3>1
    <2>4. \A k : LensBefore(rs, k) = SumFunctionOnSet(f, 1..k - 1)
      BY DEF LensBefore
    <2>5. \A k : LensBefore(b, k) = SumFunctionOnSet(h, 1..k - 1)
      BY DEF LensBefore
    <2> HIDE DEF f, h
    <2>6. ShiftedSums(f, h, p, q)
      BY <2>2, <2>3, SumShift
    <2>7. SumFunctionOnSet(f, 1..p) = x + 1
      <3>1. (p + 1) - 1 = p /\ p + 1 \in 1..p + 1
        OBVIOUS
      <3>2. LensBefore(rs, p + 1) = x + 1
        BY <1>11, <1>12, <3>1
      <3>3. LensBefore(rs, p + 1) = SumFunctionOnSet(f, 1..(p + 1) - 1)
        BY <2>4
      <3> QED BY <3>1, <3>2, <3>3
    <2> SUFFICES ASSUME NEW k \in 1..q + 1
                 PROVE  LensBefore(rs, p + k) = (x + 1) + LensBefore(b, k)
      OBVIOUS
    <2> DEFINE j == k - 1
    <2>8. j \in 0..q /\ (p + k) - 1 = p + j
      OBVIOUS
    <2>9. LensBefore(rs, p + k) = SumFunctionOnSet(f, 1..(p + k) - 1)
      BY <2>4
    <2>10. LensBefore(b, k) = SumFunctionOnSet(h, 1..j)
      BY <2>5
    <2> HIDE DEF j
    <2>11. SumFunctionOnSet(f, 1..p + j) = SumFunctionOnSet(f, 1..p) + SumFunctionOnSet(h, 1..j)
      BY <2>6, <2>8 DEF ShiftedSums
    <2> QED BY <2>7, <2>8, <2>9, <2>10, <2>11
  <1>14. \A k \in 1..p + q : RunReads(rs[k], lens, total, LensBefore(rs, k))
    <2> SUFFICES ASSUME NEW k \in 1..p + q
                 PROVE  RunReads(rs[k], lens, total, LensBefore(rs, k))
      OBVIOUS
    <2> HIDE DEF total
    <2>1. CASE k \in 1..p
      <3>1. k \in 1..Len(a) /\ k \in 1..p + 1
        BY <1>2, <2>1
      <3>2. RunReads(a[k], lens, total, 0 + LensBefore(a, k))
        <4>1. 0 \in Nat
          OBVIOUS
        <4> QED BY <1>5, <3>1, <4>1, RunsReadThem
      <3>3. LensBefore(a, k) \in Nat
        <4>1. LensBefore(rs, k) \in Nat
          BY <1>10 DEF RunAfterRun
        <4> QED BY <1>11, <3>1, <4>1
      <3>4. 0 + LensBefore(a, k) = LensBefore(a, k)
        BY <3>3
      <3> QED BY <1>6, <1>11, <2>1, <3>1, <3>2, <3>4
    <2>2. CASE k \notin 1..p
      <3>1. PICK j \in 1..q : p + j = k
        <4>1. k - p \in 1..q /\ p + (k - p) = k
          BY <2>2
        <4> QED BY <4>1
      <3>2. j \in 1..Len(b) /\ j \in 1..q + 1
        BY <1>2
      <3>3. RunReads(b[j], lens, total, (x + 1) + LensBefore(b, j))
        BY <1>5, <3>2, RunsReadThem
      <3>4. LensBefore(rs, p + j) = (x + 1) + LensBefore(b, j) /\ rs[p + j] = b[j]
        BY <1>6, <1>13, <3>2
      <3> QED BY <3>1, <3>3, <3>4
    <2> QED BY <2>1, <2>2
  <1>15. LensBefore(rs, (p + q) + 1) = total
    <2>1. q + 1 \in 1..q + 1 /\ p + (q + 1) = (p + q) + 1
      OBVIOUS
    <2>2. LensBefore(rs, p + (q + 1)) = (x + 1) + LensBefore(b, q + 1)
      BY <1>13, <2>1
    <2> QED BY <1>12, <2>1, <2>2
  <1> HIDE DEF total
  <1>16. RunsRead(rs, lens, total)
    BY <1>4, <1>5, <1>6, <1>8, <1>9, <1>10, <1>14, <1>15 DEF RunsRead, RunAfterRun
  <1> QED BY <1>16 DEF rs, total
-----------------------------------------------------------------------------
(* Items *)

\* What can be sent: a value that fits its bits, a code, or the bytes of a stored block.
ItemSet ==
    {x \in [op : {"bits", "literal", "distance", "length", "stored"}, of : {0, 1, 2},
            val : Int, bits : Nat] : x.op = "bits" => x.val \in 0..2^x.bits - 1}

\* The item of plain bits that send_bits makes, when the value fits them.
LEMMA BitsItem ==
    ASSUME NEW n \in Nat, NEW v \in 0..2^n - 1
    PROVE  /\ send_bits(v, n) \in ItemSet
           /\ send_bits(v, n).op = "bits" /\ send_bits(v, n).val = v /\ send_bits(v, n).bits = n
           /\ send_bits(v, n).of = 0
  <1>1. 2^n \in Nat
    BY PowerOfTwo
  <1>2. v \in Int
    BY <1>1
  <1> DEFINE y == 2^n - 1
  <1>3. v \in 0..y
    OBVIOUS
  <1>4. send_bits(v, n).val \in 0..2^send_bits(v, n).bits - 1
    BY <1>3 DEF send_bits
  <1> QED BY <1>2, <1>4 DEF send_bits, ItemSet

\* The item of a code that send_code makes, when the code has a length.
LEMMA CodeItem ==
    ASSUME NEW c \in Int, NEW alphabet \in {"literal", "distance", "length"}, NEW kind \in {0, 1, 2},
           NEW dl, dl[c] \in Nat
    PROVE  /\ send_code(c, alphabet, kind, dl) \in ItemSet
           /\ send_code(c, alphabet, kind, dl).op = alphabet
           /\ send_code(c, alphabet, kind, dl).of = kind
           /\ send_code(c, alphabet, kind, dl).val = c
           /\ send_code(c, alphabet, kind, dl).bits = dl[c]
  BY DEF send_code, ItemSet

\* Short sequences.
LEMMA OneItem ==
    ASSUME NEW S, NEW a \in S
    PROVE  <<a>> \in Seq(S) /\ Len(<<a>>) = 1 /\ <<a>>[1] = a
  OBVIOUS

\* One element and two are three.
LEMMA OneAndTwo ==
    ASSUME NEW S, NEW a \in S, NEW b \in S, NEW c \in S
    PROVE  <<a>> \o <<b, c>> = <<a, b, c>>
  <1> DEFINE s == <<a>>
             t == <<b, c>>
             y == <<a, b, c>>
             x == s \o t
  <1>1. s \in Seq(S) /\ Len(s) = 1 /\ s[1] = a /\ t \in Seq(S) /\ Len(t) = 2 /\ t[1] = b /\ t[2] = c
    OBVIOUS
  <1>2. y \in [1..3 -> S] /\ y[1] = a /\ y[2] = b /\ y[3] = c
    OBVIOUS
  <1> HIDE DEF s, t, y
  <1>3. Joined(x, s, t, 1, 2) /\ x \in [1..1 + 2 -> S]
    BY <1>1, ConcatElements
  <1> HIDE DEF x
  <1>4. x[1] = a /\ x[2] = b /\ x[3] = c /\ x \in [1..3 -> S]
    <2>1. (\A i \in 1..1 : x[i] = s[i]) /\ (\A i \in 1..2 : x[1 + i] = t[i])
      BY <1>3 DEF Joined
    <2>2. 1 \in 1..1 /\ 1 \in 1..2 /\ 2 \in 1..2 /\ 1 + 1 = 2 /\ 1 + 2 = 3
      OBVIOUS
    <2> QED BY <1>1, <1>3, <2>1, <2>2
  <1>5. \A i \in 1..3 : x[i] = y[i]
    <2>1. \A i \in 1..3 : i = 1 \/ i = 2 \/ i = 3
      OBVIOUS
    <2> QED BY <1>2, <1>4, <2>1
  <1>6. x = y
    BY <1>2, <1>4, <1>5
  <1> QED BY <1>6 DEF x, y, s, t

\* Nothing and two elements are two.
LEMMA EmptyAndTwo ==
    ASSUME NEW S, NEW b \in S, NEW c \in S
    PROVE  <<>> \o <<b, c>> = <<b, c>>
  OBVIOUS

\* Codes for the lengths of trees, none longer than what is sent for it.
BitLengths(bl) == bl \in [0..bl_codes - 1 -> 0..max_bl_bits]
LengthCode(c, bl) == send_code(c, "length", dynamic_trees, bl)

\* The item of a code for lengths.
LEMMA LengthCodeIs ==
    ASSUME NEW bl, BitLengths(bl), NEW c \in 0..18
    PROVE  /\ LengthCode(c, bl) \in ItemSet /\ LengthCode(c, bl).op = "length"
           /\ LengthCode(c, bl).of = 2 /\ LengthCode(c, bl).val = c /\ LengthCode(c, bl).bits = bl[c]
           /\ bl[c] \in 0..7
  <1>1. bl[c] \in 0..7
    BY DEF BitLengths, bl_codes, max_bl_bits
  <1>2. c \in Int /\ "length" \in {"literal", "distance", "length"} /\ 2 \in {0, 1, 2} /\ bl[c] \in Nat
    BY <1>1
  <1> QED BY <1>1, <1>2, CodeItem DEF LengthCode, dynamic_trees

\* What is sent for a run.
Single(r) == r.count < r.min
Again(r) == ~Single(r) /\ r.len # 0 /\ r.len = r.prevlen
NewAgain(r) == ~Single(r) /\ r.len # 0 /\ r.len # r.prevlen
Zeros(r) == ~Single(r) /\ r.len = 0
RowIs(r, row, bl) ==
    /\ Single(r) => row = [i \in 1..r.count |-> LengthCode(r.len, bl)]
    /\ Again(r) => row = <<LengthCode(16, bl), send_bits(r.count - 3, 2)>>
    /\ NewAgain(r) =>
          row = <<LengthCode(r.len, bl), LengthCode(16, bl), send_bits(r.count - 4, 2)>>
    /\ Zeros(r) /\ r.count <= 10 => row = <<LengthCode(17, bl), send_bits(r.count - 3, 3)>>
    /\ Zeros(r) /\ ~(r.count <= 10) => row = <<LengthCode(18, bl), send_bits(r.count - 11, 7)>>

\* Values that fit few bits.
LEMMA SmallBits ==
    /\ \A v \in 0..3 : send_bits(v, 2) \in ItemSet
    /\ \A v \in 0..7 : send_bits(v, 3) \in ItemSet
    /\ \A v \in 0..15 : send_bits(v, 4) \in ItemSet
    /\ \A v \in 0..31 : send_bits(v, 5) \in ItemSet
    /\ \A v \in 0..127 : send_bits(v, 7) \in ItemSet
  <1>1. \A n \in Nat : \A v \in 0..2^n - 1 : send_bits(v, n) \in ItemSet
    BY BitsItem
  <1>2. 2^2 - 1 = 3 /\ 2^3 - 1 = 7 /\ 2^4 - 1 = 15 /\ 2^5 - 1 = 31 /\ 2^7 - 1 = 127
    BY Powers
  <1>3. 2 \in Nat /\ 3 \in Nat /\ 4 \in Nat /\ 5 \in Nat /\ 7 \in Nat
    OBVIOUS
  <1>4. /\ \A v \in 0..2^2 - 1 : send_bits(v, 2) \in ItemSet
        /\ \A v \in 0..2^3 - 1 : send_bits(v, 3) \in ItemSet
        /\ \A v \in 0..2^4 - 1 : send_bits(v, 4) \in ItemSet
        /\ \A v \in 0..2^5 - 1 : send_bits(v, 5) \in ItemSet
        /\ \A v \in 0..2^7 - 1 : send_bits(v, 7) \in ItemSet
    BY <1>1, <1>3
  <1> QED BY <1>2, <1>4

\* The items that send_tree sends for one run are read back as that run.
LEMMA SendRunIs ==
    ASSUME NEW bl, BitLengths(bl), NEW r, RunShape(r)
    PROVE  RowIs(r, SendRun(r, bl), bl) /\ SendRun(r, bl) \in Seq(ItemSet)
  <1> DEFINE row == SendRun(r, bl)
             len == r.len
             count == r.count
  <1>1. len \in 0..15 /\ count \in 1..138 /\ r.min \in 3..4
    BY RunFields DEF max_bits
  <1>2. row = IF Single(r) THEN [i \in 1..count |-> LengthCode(len, bl)]
              ELSE IF len # 0
              THEN (IF len # r.prevlen THEN <<LengthCode(len, bl)>> ELSE <<>>)
                   \o <<LengthCode(16, bl), send_bits((IF len # r.prevlen THEN count - 1 ELSE count) - 3, 2)>>
              ELSE IF count <= 10 THEN <<LengthCode(17, bl), send_bits(count - 3, 3)>>
              ELSE <<LengthCode(18, bl), send_bits(count - 11, 7)>>
    BY DEF SendRun, LengthCode, Single, rep_3_6, repz_3_10, repz
  <1>3. /\ LengthCode(len, bl) \in ItemSet /\ LengthCode(16, bl) \in ItemSet
        /\ LengthCode(17, bl) \in ItemSet /\ LengthCode(18, bl) \in ItemSet
    <2>1. len \in 0..18 /\ 16 \in 0..18 /\ 17 \in 0..18 /\ 18 \in 0..18
      BY <1>1
    <2> QED BY <2>1, LengthCodeIs
  <1>4. /\ \A v \in 0..3 : send_bits(v, 2) \in ItemSet
        /\ \A v \in 0..7 : send_bits(v, 3) \in ItemSet
        /\ \A v \in 0..127 : send_bits(v, 7) \in ItemSet
    BY SmallBits
  <1>40. /\ Again(r) => count - 3 \in 0..3
         /\ NewAgain(r) => count - 4 \in 0..3
         /\ Zeros(r) /\ count <= 10 => count - 3 \in 0..7
         /\ Zeros(r) /\ ~(count <= 10) => count - 11 \in 0..127
    <2>1. PICK m \in 3..4, n \in 1..138 : m = r.min /\ n = r.count
      BY RunFields
    <2>2. /\ Again(r) => ~(n < 3) /\ n <= 6
          /\ NewAgain(r) => ~(n < 4) /\ n <= 7
          /\ Zeros(r) => ~(n < 3)
      BY <2>1 DEF RunShape, Again, NewAgain, Zeros, Single
    <2> QED BY <2>1, <2>2
  <1> HIDE DEF row, len, count
  <1>5. ASSUME Single(r)
        PROVE  row = [i \in 1..count |-> LengthCode(len, bl)] /\ row \in Seq(ItemSet)
    <2>1. row = [i \in 1..count |-> LengthCode(len, bl)]
      BY <1>2, <1>5
    <2> DEFINE x == LengthCode(len, bl)
    <2>2. x \in ItemSet /\ count \in Nat
      BY <1>1, <1>3
    <2> HIDE DEF x
    <2>3. [i \in 1..count |-> x] \in Seq(ItemSet)
      BY <2>2
    <2> QED BY <2>1, <2>3 DEF x
  <1>6. ASSUME Again(r)
        PROVE  row = <<LengthCode(16, bl), send_bits(count - 3, 2)>> /\ row \in Seq(ItemSet)
    <2> DEFINE b == LengthCode(16, bl)
               c == send_bits(count - 3, 2)
    <2>1. b \in ItemSet /\ c \in ItemSet
      BY <1>1, <1>3, <1>4, <1>40, <1>6
    <2>2. row = <<>> \o <<b, c>>
      BY <1>2, <1>6 DEF Again, len
    <2> HIDE DEF b, c
    <2>3. row = <<b, c>> /\ <<b, c>> \in Seq(ItemSet)
      BY <2>1, <2>2
    <2> QED BY <2>3 DEF b, c
  <1>7. ASSUME NewAgain(r)
        PROVE  /\ row = <<LengthCode(len, bl), LengthCode(16, bl), send_bits(count - 4, 2)>>
               /\ row \in Seq(ItemSet)
    <2> DEFINE a == LengthCode(len, bl)
               b == LengthCode(16, bl)
               c == send_bits(count - 4, 2)
    <2>1. a \in ItemSet /\ b \in ItemSet /\ c \in ItemSet
      BY <1>1, <1>3, <1>4, <1>40, <1>7
    <2>2. (count - 1) - 3 = count - 4
      BY <1>1
    <2>3. row = <<a>> \o <<b, send_bits((count - 1) - 3, 2)>>
      BY <1>2, <1>7 DEF NewAgain, len
    <2>4. row = <<a>> \o <<b, c>>
      BY <2>2, <2>3
    <2> HIDE DEF a, b, c
    <2>6. <<a>> \o <<b, c>> = <<a, b, c>>
      BY <2>1, OneAndTwo
    <2>5. row = <<a, b, c>> /\ <<a, b, c>> \in Seq(ItemSet)
      BY <2>1, <2>4, <2>6
    <2> QED BY <2>5 DEF a, b, c
  <1>8. ASSUME Zeros(r), count <= 10
        PROVE  row = <<LengthCode(17, bl), send_bits(count - 3, 3)>> /\ row \in Seq(ItemSet)
    <2> DEFINE b == LengthCode(17, bl)
               c == send_bits(count - 3, 3)
    <2>1. b \in ItemSet /\ c \in ItemSet
      BY <1>1, <1>3, <1>4, <1>40, <1>8
    <2>2. row = <<b, c>>
      BY <1>2, <1>8 DEF Zeros, len
    <2> HIDE DEF b, c
    <2>3. <<b, c>> \in Seq(ItemSet)
      BY <2>1
    <2> QED BY <2>2, <2>3 DEF b, c
  <1>9. ASSUME Zeros(r), ~(count <= 10)
        PROVE  row = <<LengthCode(18, bl), send_bits(count - 11, 7)>> /\ row \in Seq(ItemSet)
    <2> DEFINE b == LengthCode(18, bl)
               c == send_bits(count - 11, 7)
    <2>1. b \in ItemSet /\ c \in ItemSet
      BY <1>1, <1>3, <1>4, <1>40, <1>9
    <2>2. row = <<b, c>>
      BY <1>2, <1>9 DEF Zeros, len
    <2> HIDE DEF b, c
    <2>3. <<b, c>> \in Seq(ItemSet)
      BY <2>1
    <2> QED BY <2>2, <2>3 DEF b, c
  <1>10. RowIs(r, row, bl)
    BY <1>5, <1>6, <1>7, <1>8, <1>9, Zenon DEF RowIs, len, count
  <1>11. Single(r) \/ Again(r) \/ NewAgain(r) \/ Zeros(r)
    BY Zenon DEF Again, NewAgain, Zeros
  <1>12. row \in Seq(ItemSet)
    BY <1>5, <1>6, <1>7, <1>8, <1>9, <1>11, Zenon
  <1> QED BY <1>10, <1>12 DEF row
-----------------------------------------------------------------------------
(* Where the items are *)

\* The elements of s are those of a sequence after the first p.
Holds(items, p, s) ==
    /\ p \in Nat /\ p + Len(s) <= Len(items)
    /\ \A j \in 1..Len(s) : items[p + j] = s[j]

\* A sequence holds itself.
LEMMA HoldsAll ==
    ASSUME NEW S, NEW s \in Seq(S)
    PROVE  Holds(s, 0, s)
  <1>1. PICK n \in Nat : n = Len(s)
    <2>1. Len(s) \in Nat
      OBVIOUS
    <2> QED BY <2>1
  <1>2. \A j \in 1..n : 0 + j = j
    OBVIOUS
  <1>3. 0 \in Nat /\ 0 + n <= n
    OBVIOUS
  <1> QED BY <1>1, <1>2, <1>3 DEF Holds

\* What holds two sequences one after the other holds each of them.
LEMMA HoldsConcat ==
    ASSUME NEW S, NEW s \in Seq(S), NEW t \in Seq(S), NEW items, NEW p, Holds(items, p, s \o t),
           Len(items) \in Nat
    PROVE  Holds(items, p, s) /\ Holds(items, p + Len(s), t)
  <1>1. PICK m \in Nat, n \in Nat : m = Len(s) /\ n = Len(t)
    <2>1. Len(s) \in Nat /\ Len(t) \in Nat
      OBVIOUS
    <2> QED BY <2>1
  <1>2. Joined(s \o t, s, t, m, n) /\ Len(s \o t) = m + n
    BY <1>1, ConcatElements, ConcatProperties
  <1> DEFINE c == s \o t
  <1>3. p \in Nat /\ p + (m + n) <= Len(items) /\ \A j \in 1..m + n : items[p + j] = c[j]
    BY <1>2 DEF Holds
  <1>4. (\A j \in 1..m : c[j] = s[j]) /\ \A j \in 1..n : c[m + j] = t[j]
    BY <1>2 DEF Joined
  <1> HIDE DEF c
  <1>5. p + m \in Nat /\ p + m <= Len(items) /\ (p + m) + n <= Len(items)
    BY <1>3
  <1>6. \A j \in 1..m : items[p + j] = s[j]
    <2>1. \A j \in 1..m : j \in 1..m + n
      OBVIOUS
    <2> QED BY <1>3, <1>4, <2>1
  <1>7. \A j \in 1..n : items[(p + m) + j] = t[j]
    <2> SUFFICES ASSUME NEW j \in 1..n PROVE items[(p + m) + j] = t[j]
      OBVIOUS
    <2>1. m + j \in 1..m + n /\ p + (m + j) = (p + m) + j
      BY <1>3
    <2> DEFINE k == m + j
    <2> HIDE DEF k
    <2>2. items[p + k] = c[k]
      BY <1>3, <2>1 DEF k
    <2> QED BY <1>4, <2>1, <2>2 DEF k
  <1> QED BY <1>1, <1>3, <1>5, <1>6, <1>7 DEF Holds

\* What holds a flattened sequence holds each of its parts in place.
LEMMA HoldsParts ==
    ASSUME NEW S, NEW ss \in Seq(Seq(S)), NEW items, NEW p, Holds(items, p, FlattenSeq(ss)),
           Len(items) \in Nat, NEW k \in 1..Len(ss), Len(ss[k]) # 0
    PROVE  Holds(items, p + ElementsBefore(ss, k), ss[k])
  <1> DEFINE f == FlattenSeq(ss)
             b == ElementsBefore(ss, k)
             row == ss[k]
  <1>1. row \in Seq(S) /\ f \in Seq(S) /\ PartsInPlace(ss) /\ PartAfterPart(ss)
    BY FlattenElements, ElementsBeforeSteps
  <1>2. PICK n \in Nat, m \in Nat : n = Len(row) /\ m = Len(f)
    <2>1. Len(row) \in Nat
      BY <1>1
    <2>2. Len(f) \in Nat
      <3> HIDE DEF f
      <3> QED BY <1>1
    <2> QED BY <2>1, <2>2
  <1>3. b \in Nat
    BY <1>1 DEF PartAfterPart
  <1>4. \A j \in 1..n : b + j \in 1..m /\ f[b + j] = row[j]
    BY <1>1, <1>2 DEF PartsInPlace
  <1>5. p \in Nat /\ p + m <= Len(items) /\ \A j \in 1..m : items[p + j] = f[j]
    BY <1>2 DEF Holds
  <1>10. b + n <= m
    <2>1. n \in 1..n
      BY <1>2
    <2>2. b + n \in 1..m
      BY <1>4, <2>1
    <2> QED BY <2>2
  <1> HIDE DEF f, b, row
  <1>6. p + b \in Nat /\ (p + b) + n <= Len(items)
    BY <1>3, <1>5, <1>10
  <1>7. \A j \in 1..n : items[(p + b) + j] = row[j]
    <2> SUFFICES ASSUME NEW j \in 1..n PROVE items[(p + b) + j] = row[j]
      OBVIOUS
    <2> DEFINE i == b + j
    <2>1. i \in 1..m /\ f[i] = row[j] /\ p + i = (p + b) + j
      BY <1>3, <1>4, <1>5
    <2> HIDE DEF i
    <2> QED BY <1>5, <2>1
  <1>8. Holds(items, p + b, row)
    BY <1>2, <1>6, <1>7 DEF Holds
  <1> QED BY <1>8 DEF b, row
-----------------------------------------------------------------------------
(* The trees *)

\* The number of lengths of the bit length tree that are sent.
LEMMA MaxBlIndex ==
    ASSUME NEW bl, BitLengths(bl)
    PROVE  /\ max_blindex(bl) \in 3..18
           /\ \A i \in 0..18 : i > max_blindex(bl) => bl[bl_order[i + 1]] = 0
  <1> DEFINE U == {i \in 0..bl_codes - 1 : bl[bl_order[i + 1]] # 0}
             C == {3} \cup U
             m == Max(C)
  <1>1. U = {i \in 0..18 : bl[bl_order[i + 1]] # 0}
    BY DEF bl_codes
  <1>2. C \subseteq 0..18 /\ C # {} /\ 3 \in C
    <2>1. U \subseteq 0..18
      BY <1>1
    <2> HIDE DEF U
    <2> QED BY <2>1
  <1>3. m \in C /\ \A y \in C : y <= m
    <2>1. 18 \in Nat
      OBVIOUS
    <2> HIDE DEF C
    <2> QED BY <1>2, <2>1, LargestIs
  <1> HIDE DEF m
  <1>4. m \in 3..18
    <2>1. m \in 0..18 /\ 3 <= m
      <3> HIDE DEF C
      <3> QED BY <1>2, <1>3
    <2> QED BY <2>1
  <1>5. ASSUME NEW i \in 0..18, i > m PROVE bl[bl_order[i + 1]] = 0
    <2>1. ~(i <= m)
      BY <1>4, <1>5
    <2>2. i \notin U
      <3>1. i \notin C
        <4> HIDE DEF C
        <4> QED BY <1>3, <2>1
      <3> HIDE DEF U
      <3> QED BY <3>1
    <2> HIDE DEF U
    <2> QED BY <1>1, <2>2
  <1> QED BY <1>4, <1>5 DEF m, max_blindex

\* The order in which they are sent names every length once.
LEMMA OrderIs ==
    /\ bl_order = order
    /\ \A i \in 1..19 : order[i] \in 0..18
    /\ \A c \in 0..18 : \E i \in 1..19 : order[i] = c
  <1>1. bl_order = order
    BY DEF bl_order, order
  <1>2. \A i \in 1..19 : order[i] \in 0..18
    BY DEF order
  <1>3. /\ order[1] = 16 /\ order[2] = 17 /\ order[3] = 18 /\ order[4] = 0 /\ order[5] = 8
        /\ order[6] = 7 /\ order[7] = 9 /\ order[8] = 6 /\ order[9] = 10 /\ order[10] = 5
        /\ order[11] = 11 /\ order[12] = 4 /\ order[13] = 12 /\ order[14] = 3
        /\ order[15] = 13 /\ order[16] = 2 /\ order[17] = 14 /\ order[18] = 1 /\ order[19] = 15
    BY DEF order
  <1>4. ASSUME NEW c \in 0..18 PROVE \E i \in 1..19 : order[i] = c
    <2>1. CASE c \in 0..8
      <3>1. /\ 4 \in 1..19 /\ 18 \in 1..19 /\ 16 \in 1..19 /\ 14 \in 1..19 /\ 12 \in 1..19
            /\ 10 \in 1..19 /\ 8 \in 1..19 /\ 6 \in 1..19 /\ 5 \in 1..19
        OBVIOUS
      <3>2. c = 0 \/ c = 1 \/ c = 2 \/ c = 3 \/ c = 4 \/ c = 5 \/ c = 6 \/ c = 7 \/ c = 8
        BY <2>1
      <3> QED BY <1>3, <3>1, <3>2
    <2>2. CASE c \in 9..18
      <3>1. /\ 7 \in 1..19 /\ 9 \in 1..19 /\ 11 \in 1..19 /\ 13 \in 1..19 /\ 15 \in 1..19
            /\ 17 \in 1..19 /\ 19 \in 1..19 /\ 1 \in 1..19 /\ 2 \in 1..19 /\ 3 \in 1..19
        OBVIOUS
      <3>2. c = 9 \/ c = 10 \/ c = 11 \/ c = 12 \/ c = 13 \/ c = 14 \/ c = 15 \/ c = 16
            \/ c = 17 \/ c = 18
        BY <2>2
      <3> QED BY <1>3, <3>1, <3>2
    <2> QED BY <2>1, <2>2
  <1> QED BY <1>1, <1>2, <1>4

\* What is sent for runs.
RowsOfRuns(rs, bl) == [i \in DOMAIN rs |-> SendRun(rs[i], bl)]
AllShaped(rs) == rs \in Seq(Run) /\ \A k \in 1..Len(rs) : RunShape(rs[k])

\* The rows of items of a list of runs, one per run.
LEMMA RowsOfRunsAre ==
    ASSUME NEW bl, BitLengths(bl), NEW rs, AllShaped(rs)
    PROVE  /\ RowsOfRuns(rs, bl) \in Seq(Seq(ItemSet)) /\ Len(RowsOfRuns(rs, bl)) = Len(rs)
           /\ \A k \in 1..Len(rs) : /\ RowsOfRuns(rs, bl)[k] = SendRun(rs[k], bl)
                                    /\ RowIs(rs[k], SendRun(rs[k], bl), bl)
  <1>1. PICK n \in Nat : n = Len(rs) /\ DOMAIN rs = 1..n
    <2>1. Len(rs) \in Nat /\ DOMAIN rs = 1..Len(rs)
      BY DEF AllShaped
    <2> QED BY <2>1
  <1>2. \A k \in 1..n : SendRun(rs[k], bl) \in Seq(ItemSet) /\ RowIs(rs[k], SendRun(rs[k], bl), bl)
    BY <1>1, SendRunIs DEF AllShaped
  <1> DEFINE f == [i \in 1..n |-> SendRun(rs[i], bl)]
  <1>3. RowsOfRuns(rs, bl) = f
    BY <1>1 DEF RowsOfRuns
  <1>4. f \in [1..n -> Seq(ItemSet)] /\ \A k \in 1..n : f[k] = SendRun(rs[k], bl)
    BY <1>2
  <1> HIDE DEF f
  <1>5. f \in Seq(Seq(ItemSet)) /\ Len(f) = n
    BY <1>4
  <1> QED BY <1>1, <1>2, <1>3, <1>4, <1>5

\* send_tree for both trees is the rows of both lists of runs.
LEMMA RowsOfBoth ==
    ASSUME NEW bl, BitLengths(bl), NEW a, NEW b, AllShaped(a), AllShaped(b)
    PROVE  /\ AllShaped(a \o b)
           /\ send_tree(a, bl) \o send_tree(b, bl) = FlattenSeq(RowsOfRuns(a \o b, bl))
  <1> DEFINE S == Seq(ItemSet)
             x == RowsOfRuns(a, bl)
             y == RowsOfRuns(b, bl)
             c == a \o b
             z == RowsOfRuns(c, bl)
  <1>1. a \in Seq(Run) /\ b \in Seq(Run)
    BY DEF AllShaped
  <1>2. PICK p \in Nat, q \in Nat : p = Len(a) /\ q = Len(b)
    <2>1. Len(a) \in Nat /\ Len(b) \in Nat
      BY <1>1
    <2> QED BY <2>1
  <1>3. Joined(c, a, b, p, q)
    BY <1>1, <1>2, ConcatElements
  <1>4. c \in Seq(Run) /\ Len(c) = p + q
    BY <1>1, <1>2, ConcatProperties
  <1> HIDE DEF c
  <1>5. /\ \A k \in 1..p : c[k] = a[k] /\ RunShape(a[k])
        /\ \A k \in 1..q : c[p + k] = b[k] /\ RunShape(b[k])
    BY <1>2, <1>3 DEF Joined, AllShaped
  <1>6. AllShaped(c)
    <2>1. ASSUME NEW k \in 1..p + q PROVE RunShape(c[k])
      <3>1. CASE k \in 1..p
        BY <1>5, <3>1
      <3>2. CASE k \notin 1..p
        <4>1. k - p \in 1..q /\ p + (k - p) = k
          BY <3>2
        <4> QED BY <1>5, <4>1
      <3> QED BY <3>1, <3>2
    <2> QED BY <1>4, <2>1 DEF AllShaped
  <1>7. x \in Seq(S) /\ Len(x) = p /\ \A k \in 1..p : x[k] = SendRun(a[k], bl)
    BY <1>2, RowsOfRunsAre
  <1>8. y \in Seq(S) /\ Len(y) = q /\ \A k \in 1..q : y[k] = SendRun(b[k], bl)
    BY <1>2, RowsOfRunsAre
  <1>9. z \in Seq(S) /\ Len(z) = p + q /\ \A k \in 1..p + q : z[k] = SendRun(c[k], bl)
    BY <1>4, <1>6, RowsOfRunsAre
  <1> HIDE DEF x, y, z, S
  <1>10. Joined(x \o y, x, y, p, q) /\ x \o y \in [1..p + q -> S]
    BY <1>7, <1>8, ConcatElements
  <1>11. z = x \o y
    <2> DEFINE v == x \o y
    <2> HIDE DEF v
    <2>1. v \in [1..p + q -> S] /\ (\A k \in 1..p : v[k] = x[k]) /\ \A k \in 1..q : v[p + k] = y[k]
      BY <1>10 DEF v, Joined
    <2>2. z \in [1..p + q -> S]
      BY <1>9
    <2>3. ASSUME NEW k \in 1..p + q PROVE z[k] = v[k]
      <3>1. CASE k \in 1..p
        BY <1>5, <1>7, <1>9, <2>1, <3>1
      <3>2. CASE k \notin 1..p
        <4>1. PICK j \in 1..q : p + j = k
          <5>1. k - p \in 1..q /\ p + (k - p) = k
            BY <3>2
          <5> QED BY <5>1
        <4>2. z[p + j] = SendRun(b[j], bl)
          BY <1>5, <1>9, <4>1
        <4>3. v[p + j] = SendRun(b[j], bl)
          BY <1>8, <2>1
        <4> QED BY <4>1, <4>2, <4>3
      <3> QED BY <3>1, <3>2
    <2>4. z = v
      BY <2>1, <2>2, <2>3
    <2> QED BY <2>4 DEF v
  <1>12. FlattenSeq(x \o y) = FlattenSeq(x) \o FlattenSeq(y)
    <2>1. x \in Seq(Seq(ItemSet)) /\ y \in Seq(Seq(ItemSet))
      BY <1>7, <1>8 DEF S
    <2> QED BY <2>1, FlattenConcat
  <1>13. FlattenSeq(x) = send_tree(a, bl) /\ FlattenSeq(y) = send_tree(b, bl)
    BY DEF x, y, RowsOfRuns, send_tree
  <1> QED BY <1>6, <1>11, <1>12, <1>13 DEF z, c
\* Trees as build_tree leaves them.
TreesOk(l, d, bl) == Lengths(l, 285) /\ l[256] # 0 /\ Lengths(d, 29) /\ BitLengths(bl)
HeadFits(l, d) == max_code(l) \in 256..285 /\ max_code(d) \in 0..29

\* The numbers that send_all_trees sends first fit their five, five and four bits.
LEMMA TreesSpan ==
    ASSUME NEW l, NEW d, NEW bl, TreesOk(l, d, bl)
    PROVE  HeadFits(l, d)
  <1>1. max_code(l) \in 0..285 /\ \A c \in 0..285 : c > max_code(l) => l[c] = 0
    <2>1. Lengths(l, 285)
      BY DEF TreesOk
    <2> QED BY <2>1, MaxCode
  <1>2. ~(256 > max_code(l))
    <2>1. 256 \in 0..285
      OBVIOUS
    <2> QED BY <1>1, <2>1 DEF TreesOk
  <1>3. max_code(d) \in 0..29
    <2>1. Lengths(d, 29)
      BY DEF TreesOk
    <2> QED BY <2>1, MaxCode
  <1> QED BY <1>1, <1>2, <1>3 DEF HeadFits

\* The runs of two trees, one after the other.
BothRuns(l, d) == Runs(l) \o Runs(d)

\* Every run of a tree has the shape of a run.
LEMMA RunsShaped ==
    ASSUME NEW m, NEW dl, Lengths(dl, m)
    PROVE  AllShaped(Runs(dl))
  <1>1. RunsCover(Runs(dl), dl, max_code(dl), 0)
    BY RunsAre
  <1> QED BY <1>1 DEF RunsCover, AllShaped

\* What is sent of the trees, and where it is.
TreesHeld(items, p, l, d, bl) ==
    /\ items[p + 1] = send_bits(max_code(l) + 1 - 257, 5)
    /\ items[p + 2] = send_bits(max_code(d) + 1 - 1, 5)
    /\ items[p + 3] = send_bits((max_blindex(bl) + 1) - 4, 4)
    /\ \A i \in 1..max_blindex(bl) + 1 : items[p + 3 + i] = send_bits(bl[bl_order[i]], 3)
    /\ Holds(items, p + 3 + (max_blindex(bl) + 1), FlattenSeq(RowsOfRuns(BothRuns(l, d), bl)))

\* What send_all_trees sends: three counts, the lengths of the code for lengths, the
\* runs of both trees.
LEMMA SendAllTrees ==
    ASSUME NEW l, NEW d, NEW bl, TreesOk(l, d, bl)
    PROVE  /\ send_all_trees(l, d, bl) \in Seq(ItemSet)
           /\ Len(send_all_trees(l, d, bl)) = 3 + (max_blindex(bl) + 1)
                  + Len(FlattenSeq(RowsOfRuns(BothRuns(l, d), bl)))
           /\ \A items, p : Holds(items, p, send_all_trees(l, d, bl)) /\ Len(items) \in Nat
                                => TreesHeld(items, p, l, d, bl)
  <1> DEFINE n == max_blindex(bl) + 1
             h == <<send_bits(max_code(l) + 1 - 257, 5), send_bits(max_code(d) + 1 - 1, 5),
                    send_bits(n - 4, 4)>>
             g == [i \in 1..n |-> send_bits(bl[bl_order[i]], 3)]
             s == send_tree(Runs(l), bl)
             t == send_tree(Runs(d), bl)
             f == FlattenSeq(RowsOfRuns(BothRuns(l, d), bl))
  <1>1. n \in 4..19 /\ max_code(l) \in 256..285 /\ max_code(d) \in 0..29 /\ BitLengths(bl)
    <2>1. max_blindex(bl) \in 3..18
      BY MaxBlIndex DEF TreesOk
    <2> QED BY <2>1, TreesSpan DEF TreesOk, HeadFits
  <1>2. send_all_trees(l, d, bl) = ((h \o g) \o s) \o t
    BY DEF send_all_trees
  <1>3. h \in Seq(ItemSet) /\ Len(h) = 3
    <2> DEFINE x == send_bits(max_code(l) + 1 - 257, 5)
               y == send_bits(max_code(d) + 1 - 1, 5)
               z == send_bits(n - 4, 4)
    <2>1. x \in ItemSet /\ y \in ItemSet /\ z \in ItemSet
      <3>1. max_code(l) + 1 - 257 \in 0..31 /\ max_code(d) + 1 - 1 \in 0..31 /\ n - 4 \in 0..15
        BY <1>1
      <3> HIDE DEF n
      <3> QED BY <3>1, SmallBits
    <2> HIDE DEF x, y, z
    <2>2. <<x, y, z>> \in Seq(ItemSet) /\ Len(<<x, y, z>>) = 3
      BY <2>1
    <2> QED BY <2>2 DEF x, y, z
  <1> HIDE DEF n
  <1>4. g \in Seq(ItemSet) /\ Len(g) = n /\ \A i \in 1..n : g[i] = send_bits(bl[bl_order[i]], 3)
    <2>1. \A i \in 1..n : send_bits(bl[bl_order[i]], 3) \in ItemSet
      <3> SUFFICES ASSUME NEW i \in 1..n PROVE send_bits(bl[bl_order[i]], 3) \in ItemSet
        OBVIOUS
      <3>1. i \in 1..19
        BY <1>1
      <3>2. bl_order[i] \in 0..18
        BY <3>1, OrderIs
      <3>3. bl[bl_order[i]] \in 0..7
        BY <1>1, <3>2 DEF BitLengths, bl_codes, max_bl_bits
      <3> QED BY <3>3, SmallBits
    <2>2. n \in Nat
      BY <1>1
    <2> QED BY <2>1, <2>2
  <1>5. AllShaped(Runs(l)) /\ AllShaped(Runs(d))
    BY RunsShaped DEF TreesOk
  <1>6. AllShaped(BothRuns(l, d)) /\ s \o t = f
    BY <1>1, <1>5, RowsOfBoth DEF BothRuns
  <1>7. s \in Seq(ItemSet) /\ t \in Seq(ItemSet)
    <2>1. RowsOfRuns(Runs(l), bl) \in Seq(Seq(ItemSet)) /\ RowsOfRuns(Runs(d), bl) \in Seq(Seq(ItemSet))
      BY <1>1, <1>5, RowsOfRunsAre
    <2>2. s = FlattenSeq(RowsOfRuns(Runs(l), bl)) /\ t = FlattenSeq(RowsOfRuns(Runs(d), bl))
      BY DEF RowsOfRuns, send_tree
    <2> QED BY <2>1, <2>2, FlattenElements
  <1> DEFINE hg == h \o g
             a == hg \o f
  <1>8. hg \in Seq(ItemSet) /\ Len(hg) = 3 + n
    <2> HIDE DEF h, g
    <2>1. h \in Seq(ItemSet) /\ g \in Seq(ItemSet)
      BY <1>3, <1>4
    <2>2. h \o g \in Seq(ItemSet) /\ Len(h \o g) = Len(h) + Len(g)
      BY <2>1, ConcatProperties
    <2> QED BY <1>3, <1>4, <2>2
  <1>9. f \in Seq(ItemSet)
    <2> HIDE DEF s, t, f
    <2> QED BY <1>6, <1>7, ConcatProperties
  <1>10. send_all_trees(l, d, bl) = a
    <2>1. (hg \o s) \o t = hg \o (s \o t)
      <3> HIDE DEF hg, s, t
      <3>1. hg \in Seq(ItemSet) /\ s \in Seq(ItemSet) /\ t \in Seq(ItemSet)
        BY <1>7, <1>8, Zenon
      <3> QED BY <3>1, ConcatAssociative
    <2> HIDE DEF s, t, f
    <2> QED BY <1>2, <1>6, <2>1
  <1>11. a \in Seq(ItemSet) /\ Len(a) = (3 + n) + Len(f)
    <2> HIDE DEF hg, f
    <2> QED BY <1>8, <1>9, ConcatProperties
  <1>12. ASSUME NEW items, NEW p, Holds(items, p, a), Len(items) \in Nat
         PROVE  TreesHeld(items, p, l, d, bl)
    <2>1. Holds(items, p, hg) /\ Holds(items, p + Len(hg), f)
      <3> HIDE DEF hg, f
      <3> QED BY <1>8, <1>9, <1>12, HoldsConcat
    <2>2. Holds(items, p, h) /\ Holds(items, p + Len(h), g)
      <3>1. Holds(items, p, h \o g)
        BY <2>1
      <3> HIDE DEF h, g
      <3> QED BY <1>3, <1>4, <1>12, <3>1, HoldsConcat
    <2>3. p \in Nat
      BY <1>12 DEF Holds
    <2>4. /\ items[p + 1] = send_bits(max_code(l) + 1 - 257, 5)
          /\ items[p + 2] = send_bits(max_code(d) + 1 - 1, 5)
          /\ items[p + 3] = send_bits(n - 4, 4)
      <3>1. h[1] = send_bits(max_code(l) + 1 - 257, 5) /\ h[2] = send_bits(max_code(d) + 1 - 1, 5)
            /\ h[3] = send_bits(n - 4, 4)
        OBVIOUS
      <3>2. 1 \in 1..3 /\ 2 \in 1..3 /\ 3 \in 1..3
        OBVIOUS
      <3> HIDE DEF h
      <3>3. \A j \in 1..3 : items[p + j] = h[j]
        BY <1>3, <2>2 DEF Holds
      <3> QED BY <3>1, <3>2, <3>3
    <2>5. \A i \in 1..n : items[p + 3 + i] = send_bits(bl[bl_order[i]], 3)
      <3> HIDE DEF h, g
      <3>1. \A i \in 1..n : items[(p + 3) + i] = g[i]
        BY <1>3, <1>4, <2>2 DEF Holds
      <3> QED BY <1>4, <3>1
    <2>6. Holds(items, p + 3 + n, f)
      <3>1. p + Len(hg) = p + 3 + n
        BY <1>1, <1>8, <2>3
      <3> HIDE DEF hg, f
      <3> QED BY <2>1, <3>1
    <2> HIDE DEF f
    <2> QED BY <2>4, <2>5, <2>6 DEF TreesHeld, n, f
  <1> HIDE DEF a, f
  <1>13. /\ send_all_trees(l, d, bl) \in Seq(ItemSet)
         /\ Len(send_all_trees(l, d, bl)) = 3 + n + Len(f)
    BY <1>10, <1>11
  <1> QED BY <1>10, <1>12, <1>13 DEF n, f
-----------------------------------------------------------------------------
(* Symbols *)

\* The bounds on what a symbol holds.
LEMMA SymbolFields ==
    ASSUME NEW s \in Symbol
    PROVE  s.len \in 0..255 /\ s.dist \in Nat /\ s.dist <= 32768
  <1>1. max_dist = 32768
    BY DEF max_dist
  <1>2. max_dist \in Nat
    BY <1>1
  <1>3. s.len \in 0..255 /\ s.dist \in 0..max_dist
    BY DEF Symbol
  <1>4. s.dist \in Nat /\ s.dist <= max_dist
    BY <1>2, <1>3
  <1>5. s.dist \in Nat /\ s.dist <= 32768
    BY ONLY <1>1, <1>4
  <1> QED BY ONLY <1>3, <1>5

\* The length of a symbol is read with its code.
LEMMA LengthCodeOf ==
    ASSUME NEW s \in Symbol
    PROVE  LengthRead(s.len, length_code[s.len])
  <1>1. PICK n \in 0..255 : n = s.len
    BY SymbolFields
  <1>2. LengthRead(n, length_code[n])
    BY LengthCodes
  <1> QED BY <1>1, <1>2, Zenon

\* Four parts put after each other, the first and the third of them an item.
FourPartsAre(s, a, b, x, y) ==
    /\ Len(s) = (Len(x) + 2) + Len(y)
    /\ s[1] = a /\ s[Len(x) + 2] = b
    /\ \A i \in 1..Len(x) : s[1 + i] = x[i]
    /\ \A i \in 1..Len(y) : s[(Len(x) + 2) + i] = y[i]

\* Where the four parts of the items of a match are.
LEMMA FourParts ==
    ASSUME NEW S, NEW a \in S, NEW b \in S, NEW x \in Seq(S), NEW y \in Seq(S)
    PROVE  /\ ((<<a>> \o x) \o <<b>>) \o y \in Seq(S)
           /\ FourPartsAre(((<<a>> \o x) \o <<b>>) \o y, a, b, x, y)
  <1>1. PICK m \in Nat, n \in Nat : m = Len(x) /\ n = Len(y)
    <2>1. Len(x) \in Nat /\ Len(y) \in Nat
      OBVIOUS
    <2> QED BY <2>1
  <1> DEFINE p == <<a>>
             q == <<b>>
             px == p \o x
             pq == px \o q
             s == pq \o y
  <1>2. p \in Seq(S) /\ Len(p) = 1 /\ p[1] = a /\ q \in Seq(S) /\ Len(q) = 1 /\ q[1] = b
    OBVIOUS
  <1> HIDE DEF p, q
  <1>3. px \in Seq(S) /\ Len(px) = 1 + m
    <2>1. px \in Seq(S) /\ Len(px) = Len(p) + Len(x)
      BY <1>2, ConcatProperties
    <2> HIDE DEF px
    <2> QED BY <1>1, <1>2, <2>1
  <1> HIDE DEF px
  <1>4. pq \in Seq(S) /\ Len(pq) = (1 + m) + 1
    <2>1. pq \in Seq(S) /\ Len(pq) = Len(px) + Len(q)
      BY <1>2, <1>3, ConcatProperties
    <2> HIDE DEF pq
    <2> QED BY <1>2, <1>3, <2>1
  <1> HIDE DEF pq
  <1>5. s \in Seq(S) /\ Len(s) = ((1 + m) + 1) + n
    <2>1. s \in Seq(S) /\ Len(s) = Len(pq) + Len(y)
      BY <1>4, ConcatProperties
    <2> HIDE DEF s
    <2> QED BY <1>1, <1>4, <2>1
  <1> HIDE DEF s
  <1>6. Len(s) \in Nat /\ Holds(s, 0, s)
    BY <1>5, HoldsAll
  <1>7. Holds(s, 0, pq) /\ Holds(s, 0 + Len(pq), y)
    <2>1. Holds(s, 0, pq \o y)
      BY <1>6 DEF s
    <2> QED BY <1>4, <1>6, <2>1, HoldsConcat
  <1>8. Holds(s, 0, px) /\ Holds(s, 0 + Len(px), q)
    <2>1. Holds(s, 0, px \o q)
      BY <1>7 DEF pq
    <2> QED BY <1>2, <1>3, <1>6, <2>1, HoldsConcat
  <1>9. Holds(s, 0, p) /\ Holds(s, 0 + Len(p), x)
    <2>1. Holds(s, 0, p \o x)
      BY <1>8 DEF px
    <2> QED BY <1>2, <1>6, <2>1, HoldsConcat
  <1>10. s[1] = a
    <2>1. \A j \in 1..1 : s[0 + j] = p[j]
      BY <1>2, <1>9 DEF Holds
    <2>2. 1 \in 1..1 /\ 0 + 1 = 1
      OBVIOUS
    <2> QED BY <1>2, <2>1, <2>2
  <1>11. \A i \in 1..m : s[1 + i] = x[i]
    <2>1. \A i \in 1..m : s[(0 + 1) + i] = x[i]
      BY <1>1, <1>2, <1>9 DEF Holds
    <2>2. 0 + 1 = 1
      OBVIOUS
    <2> QED BY <2>1, <2>2
  <1>12. s[m + 2] = b
    <2>1. \A j \in 1..1 : s[(0 + (1 + m)) + j] = q[j]
      BY <1>2, <1>3, <1>8 DEF Holds
    <2>2. 1 \in 1..1 /\ (0 + (1 + m)) + 1 = m + 2
      OBVIOUS
    <2> QED BY <1>2, <2>1, <2>2
  <1>13. \A i \in 1..n : s[(m + 2) + i] = y[i]
    <2>1. \A j \in 1..n : s[(0 + ((1 + m) + 1)) + j] = y[j]
      BY <1>1, <1>4, <1>7 DEF Holds
    <2>2. 0 + ((1 + m) + 1) = m + 2
      OBVIOUS
    <2> QED BY <2>1, <2>2
  <1>14. ((1 + m) + 1) + n = (m + 2) + n
    OBVIOUS
  <1>15. FourPartsAre(s, a, b, x, y)
    BY <1>1, <1>5, <1>10, <1>11, <1>12, <1>13, <1>14 DEF FourPartsAre
  <1> QED BY <1>5, <1>15 DEF s, pq, px, p, q

\* Extra bits are an item if there are any.
LEMMA ExtraIs ==
    ASSUME NEW n \in Nat, NEW v, n # 0 => v \in 0..2^n - 1
    PROVE  /\ Extra(n, v) \in Seq(ItemSet)
           /\ Len(Extra(n, v)) = IF n = 0 THEN 0 ELSE 1
           /\ n # 0 => Extra(n, v)[1] = send_bits(v, n)
  <1> DEFINE x == send_bits(v, n)
  <1>1. n # 0 => x \in ItemSet
    BY BitsItem
  <1> HIDE DEF x
  <1>2. n # 0 => <<x>> \in Seq(ItemSet) /\ Len(<<x>>) = 1 /\ <<x>>[1] = x
    BY <1>1
  <1>3. <<>> \in Seq(ItemSet) /\ Len(<<>>) = 0
    OBVIOUS
  <1> QED BY <1>2, <1>3 DEF x, Extra

\* What a symbol is sent as.
LengthItemsOf(s) == IF extra_lbits[length_code[s.len]] = 0 THEN 1 ELSE 2
SymbolRow(s, row, l, d, kind) ==
    LET c  == length_code[s.len]
        dc == d_code(s.dist - 1)
        n  == LengthItemsOf(s)
    IN  /\ ~IsMatch(s) => /\ Len(row) = 1 /\ row[1] = send_code(s.len, "literal", kind, l)
        /\ IsMatch(s) =>
              /\ row[1] = send_code(c + literals + 1, "literal", kind, l)
              /\ extra_lbits[c] # 0 => row[2] = send_bits(s.len - base_length[c], extra_lbits[c])
              /\ row[n + 1] = send_code(dc, "distance", kind, d)
              /\ extra_dbits[dc] # 0 =>
                    row[n + 2] = send_bits((s.dist - 1) - base_dist[dc], extra_dbits[dc])
              /\ Len(row) = n + (IF extra_dbits[dc] = 0 THEN 1 ELSE 2)

\* The trees have codes for the symbol.
HasCodes(s, l, d) ==
    /\ l[LiteralCode(s)] \in Nat \ {0}
    /\ IsMatch(s) => d[DistanceCode(s)] \in Nat \ {0}

\* What compress_block sends for one symbol.
LEMMA SymbolItemsAre ==
    ASSUME NEW s \in Symbol, NEW l, NEW d, HasCodes(s, l, d), NEW kind \in {1, 2}
    PROVE  /\ SymbolItems(s, l, d, kind) \in Seq(ItemSet)
           /\ SymbolRow(s, SymbolItems(s, l, d, kind), l, d, kind)
  <1>1. s.len \in 0..255 /\ s.dist \in Nat /\ s.dist <= 32768
    BY SymbolFields
  <1>2. "literal" \in {"literal", "distance", "length"} /\ "distance" \in {"literal", "distance", "length"}
        /\ kind \in {0, 1, 2}
    OBVIOUS
  <1>3. CASE ~IsMatch(s)
    <2>1. SymbolItems(s, l, d, kind) = <<send_code(s.len, "literal", kind, l)>>
      BY <1>3 DEF SymbolItems, IsMatch
    <2>2. l[s.len] \in Nat /\ s.len \in Int
      BY <1>1, <1>3 DEF HasCodes, LiteralCode, IsMatch
    <2> DEFINE x == send_code(s.len, "literal", kind, l)
    <2>3. x \in ItemSet
      BY <1>2, <2>2, CodeItem
    <2> HIDE DEF x
    <2>4. <<x>> \in Seq(ItemSet) /\ Len(<<x>>) = 1 /\ <<x>>[1] = x
      BY <2>3
    <2>5. SymbolItems(s, l, d, kind) = <<x>>
      BY <2>1 DEF x
    <2> QED BY <1>3, <2>4, <2>5 DEF SymbolRow, x
  <1>4. CASE IsMatch(s)
    <2> DEFINE c == length_code[s.len]
               dc == d_code(s.dist - 1)
               e == extra_lbits[c]
               de == extra_dbits[dc]
               a == send_code(c + literals + 1, "literal", kind, l)
               b == send_code(dc, "distance", kind, d)
               x == Extra(e, s.len - base_length[c])
               y == Extra(de, (s.dist - 1) - base_dist[dc])
               row == SymbolItems(s, l, d, kind)
    <2>1. LengthRead(s.len, c) /\ c \in 0..28
      <3>1. LengthRead(s.len, c)
        BY LengthCodeOf
      <3> HIDE DEF c
      <3> QED BY <3>1 DEF LengthRead, length_codes
    <2>2. DistanceRead(s.dist - 1, dc) /\ dc \in 0..29
      <3>1. s.dist - 1 \in Nat /\ s.dist - 1 < 32768
        BY <1>1, <1>4 DEF IsMatch
      <3>2. DistanceRead(s.dist - 1, dc)
        BY <3>1, DistanceCodes
      <3> HIDE DEF dc
      <3> QED BY <3>2 DEF DistanceRead, dcodes
    <2>3. e \in 0..5 /\ de \in 0..13
      BY <2>1, <2>2 DEF LengthRead, DistanceRead
    <2>4. row = ((<<a>> \o x) \o <<b>>) \o y
      BY <1>4 DEF SymbolItems, SendMatch, IsMatch
    <2>5. a \in ItemSet
      <3>1. LiteralCode(s) = c + literals + 1
        BY <1>4 DEF LiteralCode, IsMatch
      <3>2. l[c + literals + 1] \in Nat
        BY <3>1 DEF HasCodes
      <3>3. c + literals + 1 \in Int
        BY <2>1 DEF literals
      <3> HIDE DEF c
      <3> QED BY <1>2, <3>2, <3>3, CodeItem
    <2>6. b \in ItemSet
      <3>1. d[dc] \in Nat
        BY <1>4 DEF HasCodes, DistanceCode
      <3>2. dc \in Int
        BY <2>2
      <3> HIDE DEF dc
      <3> QED BY <1>2, <3>1, <3>2, CodeItem
    <2>7. /\ e # 0 => s.len - base_length[c] \in 0..2^e - 1
          /\ (s.dist - 1) - base_dist[dc] \in 0..2^de - 1
      <3> HIDE DEF c, dc
      <3> QED BY <2>1, <2>2 DEF LengthRead, DistanceRead
    <2>8. /\ x \in Seq(ItemSet) /\ Len(x) = (IF e = 0 THEN 0 ELSE 1)
          /\ e # 0 => x[1] = send_bits(s.len - base_length[c], e)
      <3>1. e \in Nat
        BY <2>3
      <3> HIDE DEF e, c
      <3> QED BY <2>7, <3>1, ExtraIs
    <2>9. /\ y \in Seq(ItemSet) /\ Len(y) = (IF de = 0 THEN 0 ELSE 1)
          /\ de # 0 => y[1] = send_bits((s.dist - 1) - base_dist[dc], de)
      <3>1. de \in Nat
        BY <2>3
      <3> HIDE DEF de, dc
      <3> QED BY <2>7, <3>1, ExtraIs
    <2> HIDE DEF a, b, x, y, row
    <2>10. /\ row \in Seq(ItemSet) /\ Len(row) = (Len(x) + 2) + Len(y)
           /\ row[1] = a /\ row[Len(x) + 2] = b
           /\ \A i \in 1..Len(x) : row[1 + i] = x[i]
           /\ \A i \in 1..Len(y) : row[(Len(x) + 2) + i] = y[i]
      <3>1. row \in Seq(ItemSet) /\ FourPartsAre(row, a, b, x, y)
        BY <2>4, <2>5, <2>6, <2>8, <2>9, FourParts
      <3> QED BY <3>1 DEF FourPartsAre
    <2>11. e # 0 => row[2] = send_bits(s.len - base_length[c], e)
      <3> SUFFICES ASSUME e # 0 PROVE row[2] = send_bits(s.len - base_length[c], e)
        OBVIOUS
      <3>1. Len(x) = 1 /\ 1 \in 1..1 /\ 1 + 1 = 2
        BY <2>8
      <3> HIDE DEF e
      <3> QED BY <2>8, <2>10, <3>1
    <2> DEFINE n == LengthItemsOf(s)
    <2>12. n = Len(x) + 1 /\ n + 1 = Len(x) + 2 /\ n \in 1..2
      BY <2>8 DEF LengthItemsOf
    <2>13. de # 0 => row[n + 2] = send_bits((s.dist - 1) - base_dist[dc], de)
      <3> SUFFICES ASSUME de # 0 PROVE row[n + 2] = send_bits((s.dist - 1) - base_dist[dc], de)
        OBVIOUS
      <3>1. Len(y) = 1 /\ 1 \in 1..1 /\ (Len(x) + 2) + 1 = n + 2
        BY <2>9, <2>12
      <3> HIDE DEF de, n
      <3> QED BY <2>9, <2>10, <3>1
    <2>14. Len(row) = n + (IF de = 0 THEN 1 ELSE 2)
      <3> HIDE DEF n, de
      <3>1. CASE de = 0
        BY <2>9, <2>10, <2>12, <3>1
      <3>2. CASE de # 0
        BY <2>9, <2>10, <2>12, <3>2
      <3> QED BY <3>1, <3>2
    <2>15. SymbolRow(s, row, l, d, kind)
      BY <1>4, <2>10, <2>11, <2>12, <2>13, <2>14 DEF SymbolRow, a, b
    <2> QED BY <2>10, <2>15 DEF row
  <1> QED BY <1>3, <1>4
\* The codes of a symbol are codes of the trees.
LEMMA CodesOfSymbol ==
    ASSUME NEW s \in Symbol
    PROVE  /\ LiteralCode(s) \in 0..285 /\ LiteralCode(s) # end_block
           /\ IsMatch(s) => DistanceCode(s) \in 0..29
  <1>1. s.len \in 0..255 /\ s.dist \in Nat /\ s.dist <= 32768
    BY SymbolFields
  <1>2. CASE ~IsMatch(s)
    <2>1. LiteralCode(s) = s.len
      BY <1>2 DEF LiteralCode, IsMatch
    <2> QED BY <1>1, <1>2, <2>1 DEF end_block
  <1>3. CASE IsMatch(s)
    <2> DEFINE c == length_code[s.len]
               dc == d_code(s.dist - 1)
    <2>1. LengthRead(s.len, c)
      BY LengthCodeOf
    <2>2. LiteralCode(s) = c + 256 + 1
      BY <1>3 DEF LiteralCode, IsMatch, literals
    <2>3. s.dist - 1 \in Nat /\ s.dist - 1 < 32768
      BY <1>1, <1>3 DEF IsMatch
    <2>4. dc \in 0..29
      BY <2>3, DistanceCodeIs
    <2> HIDE DEF c, dc
    <2>5. c \in 0..28
      BY <2>1 DEF LengthRead, length_codes
    <2> QED BY <2>2, <2>4, <2>5 DEF dc, DistanceCode, end_block
  <1> QED BY <1>2, <1>3

\* A symbol is sent as one item at least.
LEMMA SymbolRowLen ==
    ASSUME NEW s \in Symbol, NEW row, NEW l, NEW d, NEW kind, SymbolRow(s, row, l, d, kind)
    PROVE  Len(row) # 0
  <1>1. CASE ~IsMatch(s)
    BY <1>1 DEF SymbolRow
  <1>2. CASE IsMatch(s)
    <2> DEFINE n == LengthItemsOf(s)
               e == extra_dbits[d_code(s.dist - 1)]
    <2>1. n \in 1..2
      BY DEF LengthItemsOf
    <2>2. Len(row) = n + (IF e = 0 THEN 1 ELSE 2)
      BY <1>2 DEF SymbolRow
    <2> HIDE DEF n, e
    <2>3. CASE e = 0
      BY <2>1, <2>2, <2>3
    <2>4. CASE e # 0
      BY <2>1, <2>2, <2>4
    <2> QED BY <2>3, <2>4
  <1> QED BY <1>1, <1>2

\* What is sent for the symbols.
Rows(symbols, l, d, kind) == [i \in DOMAIN symbols |-> SymbolItems(symbols[i], l, d, kind)]
TreesFor(symbols, l, d) ==
    /\ \A i \in 1..Len(symbols) : HasCodes(symbols[i], l, d)
    /\ l[end_block] \in Nat \ {0}

\* The rows of items of the symbols, one per symbol.
LEMMA RowsAre ==
    ASSUME NEW symbols \in Seq(Symbol), NEW l, NEW d, TreesFor(symbols, l, d), NEW kind \in {1, 2}
    PROVE  /\ Rows(symbols, l, d, kind) \in Seq(Seq(ItemSet))
           /\ Len(Rows(symbols, l, d, kind)) = Len(symbols)
           /\ \A k \in 1..Len(symbols) :
                 SymbolRow(symbols[k], Rows(symbols, l, d, kind)[k], l, d, kind)
  <1>1. PICK n \in Nat : n = Len(symbols) /\ DOMAIN symbols = 1..n
    OBVIOUS
  <1>2. \A k \in 1..n : symbols[k] \in Symbol /\ HasCodes(symbols[k], l, d)
    BY <1>1 DEF TreesFor
  <1>3. \A k \in 1..n : /\ SymbolItems(symbols[k], l, d, kind) \in Seq(ItemSet)
                        /\ SymbolRow(symbols[k], SymbolItems(symbols[k], l, d, kind), l, d, kind)
    BY <1>2, SymbolItemsAre
  <1> DEFINE rows == Rows(symbols, l, d, kind)
  <1>4. rows = [k \in 1..n |-> SymbolItems(symbols[k], l, d, kind)]
    BY <1>1 DEF Rows
  <1> HIDE DEF rows
  <1> DEFINE S == Seq(ItemSet)
  <1>5. \A k \in 1..n : SymbolItems(symbols[k], l, d, kind) \in S
    BY <1>3
  <1> HIDE DEF S
  <1>6. rows \in Seq(S) /\ Len(rows) = n
    BY <1>4, <1>5
  <1>7. \A k \in 1..n : SymbolRow(symbols[k], rows[k], l, d, kind)
    BY <1>3, <1>4
  <1> QED BY <1>1, <1>6, <1>7 DEF rows, S

\* Where the items of the symbols are, after the first p, and the end of the block.
SymbolsHeld(items, p, symbols, l, d, kind, rows) ==
    /\ ElementsBefore(rows, 1) = 0
    /\ \A k \in 1..Len(symbols) :
          /\ ElementsBefore(rows, k) \in Nat
          /\ ElementsBefore(rows, k + 1) = ElementsBefore(rows, k) + Len(rows[k])
          /\ Len(rows[k]) \in Nat
          /\ Holds(items, p + ElementsBefore(rows, k), rows[k])
          /\ SymbolRow(symbols[k], rows[k], l, d, kind)
    /\ ElementsBefore(rows, Len(symbols) + 1) \in Nat
    /\ p + (ElementsBefore(rows, Len(symbols) + 1) + 1) <= Len(items)
    /\ items[p + (ElementsBefore(rows, Len(symbols) + 1) + 1)]
          = send_code(end_block, "literal", kind, l)

\* Items that are those of the symbols and of the end of the block, wherever they stand.
SymbolsSent(c, symbols, l, d, kind, rows) ==
    /\ c \in Seq(ItemSet)
    /\ Len(c) = ElementsBefore(rows, Len(symbols) + 1) + 1
    /\ \A items, p : Holds(items, p, c) /\ Len(items) \in Nat
                         => SymbolsHeld(items, p, symbols, l, d, kind, rows)

\* What compress_block sends: the rows of the symbols, then the end of the block.
LEMMA CompressBlock ==
    ASSUME NEW symbols \in Seq(Symbol), NEW l, NEW d, TreesFor(symbols, l, d), NEW kind \in {1, 2},
           NEW rows, rows = Rows(symbols, l, d, kind)
    PROVE  SymbolsSent(compress_block(symbols, l, d, kind), symbols, l, d, kind, rows)
  <1>1. PICK n \in Nat : n = Len(symbols)
    OBVIOUS
  <1>2. /\ rows \in Seq(Seq(ItemSet)) /\ Len(rows) = n
        /\ \A k \in 1..n : SymbolRow(symbols[k], rows[k], l, d, kind)
    BY <1>1, RowsAre
  <1> DEFINE f == FlattenSeq(rows)
             x == send_code(end_block, "literal", kind, l)
             e == <<x>>
             c == compress_block(symbols, l, d, kind)
  <1>3. c = f \o e
    BY DEF compress_block, Rows, SymbolItems
  <1>4. x \in ItemSet
    <2>1. end_block \in Int /\ kind \in {0, 1, 2} /\ "literal" \in {"literal", "distance", "length"}
      BY DEF end_block
    <2>2. l[end_block] \in Nat
      BY DEF TreesFor
    <2> QED BY <2>1, <2>2, CodeItem
  <1> HIDE DEF x
  <1>5. e \in Seq(ItemSet) /\ Len(e) = 1 /\ e[1] = x
    BY <1>4
  <1> HIDE DEF e
  <1>6. PartAfterPart(rows)
    BY <1>2, ElementsBeforeSteps
  <1>7. f \in Seq(ItemSet) /\ PartsInPlace(rows)
    BY <1>2, FlattenElements
  <1>8. ElementsBefore(rows, n + 1) \in Nat /\ Len(f) = ElementsBefore(rows, n + 1)
    BY <1>2, <1>6, <1>7 DEF PartAfterPart, PartsInPlace
  <1> DEFINE m == ElementsBefore(rows, n + 1)
  <1> HIDE DEF f, c
  <1>9. c \in Seq(ItemSet) /\ Len(c) = m + 1
    <2>1. c \in Seq(ItemSet) /\ Len(c) = Len(f) + Len(e)
      BY <1>3, <1>5, <1>7, ConcatProperties
    <2> QED BY <1>5, <1>8, <2>1
  <1>10. ASSUME NEW items, NEW p, Holds(items, p, c), Len(items) \in Nat
         PROVE  SymbolsHeld(items, p, symbols, l, d, kind, rows)
    <2>1. Holds(items, p, f \o e)
      BY <1>3, <1>10
    <2>2. Holds(items, p, f) /\ Holds(items, p + Len(f), e)
      BY <1>5, <1>7, <1>10, <2>1, HoldsConcat
    <2>3. p \in Nat /\ p + (m + 1) <= Len(items)
      BY <1>9, <1>10 DEF Holds
    <2>4. items[p + (m + 1)] = x
      <3>1. \A j \in 1..1 : items[(p + m) + j] = e[j]
        BY <1>5, <1>8, <2>2 DEF Holds
      <3>2. 1 \in 1..1 /\ (p + m) + 1 = p + (m + 1)
        BY <1>8, <2>3
      <3> HIDE DEF m
      <3> QED BY <1>5, <3>1, <3>2
    <2>5. ASSUME NEW k \in 1..n
          PROVE  /\ ElementsBefore(rows, k) \in Nat
                 /\ ElementsBefore(rows, k + 1) = ElementsBefore(rows, k) + Len(rows[k])
                 /\ Len(rows[k]) \in Nat
                 /\ Holds(items, p + ElementsBefore(rows, k), rows[k])
                 /\ SymbolRow(symbols[k], rows[k], l, d, kind)
      <3>1. k \in 1..Len(rows)
        BY <1>2
      <3>2. /\ ElementsBefore(rows, k) \in Nat
            /\ ElementsBefore(rows, k + 1) = ElementsBefore(rows, k) + Len(rows[k])
        BY <1>6, <3>1 DEF PartAfterPart
      <3>3. rows[k] \in Seq(ItemSet)
        BY <1>2, <3>1
      <3>4. Len(rows[k]) \in Nat
        BY <3>3
      <3>5. SymbolRow(symbols[k], rows[k], l, d, kind)
        BY <1>2
      <3>6. Len(rows[k]) # 0
        BY <1>1, <3>5, SymbolRowLen
      <3>7. Holds(items, p + ElementsBefore(rows, k), rows[k])
        BY <1>2, <1>10, <2>2, <3>1, <3>6, HoldsParts DEF f
      <3> QED BY <3>2, <3>4, <3>5, <3>7
    <2>6. ElementsBefore(rows, 1) = 0
      BY <1>6 DEF PartAfterPart
    <2> QED BY <1>1, <1>8, <2>3, <2>4, <2>5, <2>6 DEF SymbolsHeld, x
  <1>11. SymbolsSent(c, symbols, l, d, kind, rows)
    BY <1>1, <1>9, <1>10 DEF SymbolsSent
  <1> QED BY <1>11 DEF c
-----------------------------------------------------------------------------
(* A block *)

\* The static trees have a code for everything, and the decompressor has them too.
LEMMA StaticTrees ==
    /\ \A c \in 0..285 : ltree[c] \in Nat \ {0}
    /\ \A c \in 0..29 : dtree[c] \in Nat \ {0}
    /\ FixedTables
  <1>1. \A c \in 0..287 : ltree[c] \in Nat \ {0}
    BY DEF ltree, lcodes, literals, length_codes
  <1>2. \A c \in 0..29 : dtree[c] \in Nat \ {0}
    BY DEF dtree, dcodes
  <1>3. FixedLens = ltree
    BY DEF FixedLens, ltree, lcodes, literals, length_codes
  <1>4. \A n \in 0..29 : FixedDists[n] = dtree[n]
    BY DEF FixedDists, dtree, dcodes
  <1>5. FixedTables
    BY <1>3, <1>4 DEF FixedTables, dcodes
  <1> QED BY <1>1, <1>2, <1>5

\* The trees of a block.
LEMMA TreesOfBlock ==
    ASSUME NEW b, Block(b)
    PROVE  /\ TreesOk(b.l, b.d, b.bl)
           /\ TreesFor(b.symbols, LTree(b), DTree(b))
  <1>1. TreesFit(b) /\ b.symbols \in Seq(Symbol)
    BY DEF Block
  <1>2. b.l \in [0..285 -> 0..max_bits] /\ b.d \in [0..29 -> 0..max_bits]
    BY <1>1 DEF TreesFit, lcodes, dcodes, literals, length_codes
  <1>3. b.l[256] # 0
    BY <1>1 DEF TreesFit, end_block
  <1>4. TreesOk(b.l, b.d, b.bl)
    <2>1. Occur(b.l) # {}
      <3>1. 256 \in DOMAIN b.l
        BY <1>2
      <3> QED BY <1>3, <3>1 DEF Occur
    <2>2. Lengths(b.l, 285)
      BY <1>2, <2>1 DEF Lengths
    <2>3. Lengths(b.d, 29)
      BY <1>1, <1>2 DEF Lengths, TreesFit
    <2> QED BY <1>1, <1>3, <2>2, <2>3 DEF TreesOk, TreesFit, BitLengths
  <1>5. \A i \in 1..Len(b.symbols) :
           /\ LiteralCode(b.symbols[i]) \in 0..285
           /\ IsMatch(b.symbols[i]) => DistanceCode(b.symbols[i]) \in 0..29
    <2> TAKE i \in 1..Len(b.symbols)
    <2>1. b.symbols[i] \in Symbol
      BY <1>1
    <2> QED BY <2>1, CodesOfSymbol
  <1>6. CASE b.kind = static_trees
    <2>1. \A i \in 1..Len(b.symbols) : HasCodes(b.symbols[i], ltree, dtree)
      BY <1>5, StaticTrees DEF HasCodes
    <2>2. ltree[end_block] \in Nat \ {0}
      BY StaticTrees DEF end_block
    <2> QED BY <1>4, <1>6, <2>1, <2>2 DEF TreesFor, LTree, DTree
  <1>7. CASE b.kind # static_trees
    <2>1. DOMAIN b.symbols = 1..Len(b.symbols)
      BY <1>1
    <2>2. \A i \in 1..Len(b.symbols) :
             /\ b.l[LiteralCode(b.symbols[i])] # 0
             /\ IsMatch(b.symbols[i]) => b.d[DistanceCode(b.symbols[i])] # 0
      BY <1>1, <2>1 DEF TreesFit
    <2>3. \A c \in 0..285 : b.l[c] \in Nat
      <3>1. \A c \in 0..285 : b.l[c] \in 0..max_bits
        BY <1>2, Zenon
      <3>2. \A x \in 0..max_bits : x \in Nat
        BY DEF max_bits
      <3> QED BY <3>1, <3>2, Zenon
    <2>4. \A c \in 0..29 : b.d[c] \in Nat
      <3>1. \A c \in 0..29 : b.d[c] \in 0..max_bits
        BY <1>2, Zenon
      <3>2. \A x \in 0..max_bits : x \in Nat
        BY DEF max_bits
      <3> QED BY <3>1, <3>2, Zenon
    <2>5. \A i \in 1..Len(b.symbols) : HasCodes(b.symbols[i], b.l, b.d)
      BY <1>5, <2>2, <2>3, <2>4 DEF HasCodes
    <2>6. b.l[end_block] \in Nat \ {0}
      BY <1>3, <2>3 DEF end_block
    <2> QED BY <1>4, <1>7, <2>5, <2>6 DEF TreesFor, LTree, DTree
  <1> QED BY <1>6, <1>7

\* Where everything is in the items of a block.
HeaderItem(b) == send_bits(2 * b.kind + b.last, 3)
SymbolsOf(b) == Rows(b.symbols, LTree(b), DTree(b), b.kind)
TreeItems(b) == send_all_trees(b.l, b.d, b.bl)
EndOfSymbols(b) == SymbolsFrom(b) + (ElementsBefore(SymbolsOf(b), Len(b.symbols) + 1) + 1)
StoredLayout(b) ==
    /\ b.items = <<HeaderItem(b), Stored(b.stored_len)>>
    /\ b.items \in Seq(ItemSet) /\ Len(b.items) = 2
CodedLayout(b) ==
    /\ SymbolsHeld(b.items, SymbolsFrom(b), b.symbols, LTree(b), DTree(b), b.kind, SymbolsOf(b))
    /\ Len(b.items) = EndOfSymbols(b) /\ SymbolsFrom(b) \in Nat
    /\ b.items \in Seq(ItemSet) /\ Len(b.items) \in Nat \ {0}
    /\ b.items[1] = HeaderItem(b)
Layout(b) ==
    /\ b.kind = 0 => StoredLayout(b)
    /\ b.kind = 1 => CodedLayout(b) /\ SymbolsFrom(b) = 1
    /\ b.kind = 2 => /\ CodedLayout(b) /\ TreesHeld(b.items, 1, b.l, b.d, b.bl)
                     /\ SymbolsFrom(b) = 1 + Len(TreeItems(b))
                     /\ Len(TreeItems(b)) = 3 + (max_blindex(b.bl) + 1)
                            + Len(FlattenSeq(RowsOfRuns(BothRuns(b.l, b.d), b.bl)))

\* The three bits that a block begins with.
LEMMA HeaderIs ==
    ASSUME NEW b, Block(b)
    PROVE  /\ Header(b.kind, b.last) = <<HeaderItem(b)>> /\ HeaderItem(b) \in ItemSet
           /\ Len(Header(b.kind, b.last)) = 1 /\ Header(b.kind, b.last) \in Seq(ItemSet)
           /\ Header(b.kind, b.last)[1] = HeaderItem(b)
  <1>1. b.kind \in {0, 1, 2} /\ b.last \in {0, 1}
    BY DEF Block, stored_blocks, static_trees, dynamic_trees
  <1>2. 2 * b.kind + b.last \in 0..7
    BY <1>1
  <1>3. HeaderItem(b) \in ItemSet
    BY <1>2, SmallBits DEF HeaderItem
  <1>4. Header(b.kind, b.last) = <<HeaderItem(b)>>
    BY DEF Header, HeaderItem
  <1> QED BY <1>3, <1>4, OneItem

\* One element and another are two.
LEMMA OneAndOne ==
    ASSUME NEW S, NEW a \in S, NEW b \in S
    PROVE  <<a>> \o <<b>> = <<a, b>>
  <1> DEFINE s == <<a>>
             t == <<b>>
             y == <<a, b>>
             x == s \o t
  <1>1. s \in Seq(S) /\ Len(s) = 1 /\ s[1] = a /\ t \in Seq(S) /\ Len(t) = 1 /\ t[1] = b
    OBVIOUS
  <1>2. y \in [1..2 -> S] /\ y[1] = a /\ y[2] = b
    OBVIOUS
  <1> HIDE DEF s, t, y
  <1>3. Joined(x, s, t, 1, 1) /\ x \in [1..1 + 1 -> S]
    BY <1>1, ConcatElements
  <1> HIDE DEF x
  <1>4. x[1] = a /\ x[2] = b /\ x \in [1..2 -> S]
    <2>1. (\A i \in 1..1 : x[i] = s[i]) /\ (\A i \in 1..1 : x[1 + i] = t[i])
      BY <1>3 DEF Joined
    <2>2. 1 \in 1..1 /\ 1 + 1 = 2
      OBVIOUS
    <2> QED BY <1>1, <1>3, <2>1, <2>2
  <1>5. \A i \in 1..2 : x[i] = y[i]
    <2>1. \A i \in 1..2 : i = 1 \/ i = 2
      OBVIOUS
    <2> QED BY <1>2, <1>4, <2>1
  <1> DEFINE D == 1..2
  <1>6. x \in [D -> S] /\ y \in [D -> S] /\ \A i \in D : x[i] = y[i]
    BY <1>2, <1>4, <1>5
  <1> HIDE DEF D
  <1>7. x = y
    BY <1>6
  <1> QED BY <1>7 DEF x, y, s, t

\* The items of a stored block.
LEMMA StoredBlock ==
    ASSUME NEW b, Block(b), b.kind = 0
    PROVE  StoredLayout(b)
  <1> DEFINE h == HeaderItem(b)
             x == Stored(b.stored_len)
  <1>1. h \in ItemSet /\ Header(0, b.last) = <<h>>
    BY HeaderIs
  <1>2. b.items = Header(0, b.last) \o <<x>>
    BY DEF Block, stored_blocks, static_trees, dynamic_trees
  <1>3. b.stored_len \in Nat
    BY DEF Block
  <1>4. x \in ItemSet
    <2>1. 8 * (b.stored_len + 4) \in Nat
      BY <1>3
    <2> QED BY <1>3, <2>1 DEF Stored, ItemSet
  <1> HIDE DEF h, x
  <1>5. <<h>> \o <<x>> = <<h, x>>
    BY <1>1, <1>4, OneAndOne
  <1>6. <<h, x>> \in Seq(ItemSet) /\ Len(<<h, x>>) = 2
    BY <1>1, <1>4
  <1>7. b.items = <<h, x>>
    BY <1>1, <1>2, <1>5
  <1> QED BY <1>6, <1>7 DEF StoredLayout, h, x

\* The items of a block with the fixed codes.
LEMMA StaticBlock ==
    ASSUME NEW b, Block(b), b.kind = 1
    PROVE  CodedLayout(b) /\ SymbolsFrom(b) = 1
  <1> DEFINE h == Header(1, b.last)
             l == LTree(b)
             d == DTree(b)
             c == compress_block(b.symbols, l, d, 1)
             rows == SymbolsOf(b)
  <1>1. h \in Seq(ItemSet) /\ Len(h) = 1 /\ h[1] = HeaderItem(b)
    BY HeaderIs
  <1>2. b.items = h \o c
    BY DEF Block, stored_blocks, static_trees, StaticItems, LTree, DTree
  <1>3. SymbolsFrom(b) = 1
    BY DEF SymbolsFrom, static_trees
  <1>4. b.symbols \in Seq(Symbol) /\ TreesFor(b.symbols, l, d) /\ rows = Rows(b.symbols, l, d, 1)
    BY TreesOfBlock DEF Block, SymbolsOf
  <1> HIDE DEF h, l, d, rows
  <1> DEFINE m == ElementsBefore(rows, Len(b.symbols) + 1)
  <1>5. /\ c \in Seq(ItemSet) /\ Len(c) = m + 1
        /\ \A items, p : Holds(items, p, c) /\ Len(items) \in Nat
                             => SymbolsHeld(items, p, b.symbols, l, d, 1, rows)
    <2>1. SymbolsSent(c, b.symbols, l, d, 1, rows)
      BY <1>4, CompressBlock
    <2> HIDE DEF c
    <2> QED BY <2>1, Zenon DEF SymbolsSent
  <1> HIDE DEF c
  <1>6. b.items \in Seq(ItemSet) /\ Len(b.items) = Len(h) + Len(c)
    <2>1. h \in Seq(ItemSet) /\ c \in Seq(ItemSet)
      BY <1>1, <1>5, Zenon
    <2>2. h \o c \in Seq(ItemSet) /\ Len(h \o c) = Len(h) + Len(c)
      BY <2>1, ConcatProperties, Zenon
    <2> QED BY <1>2, <2>2, Zenon
  <1>7. Len(c) \in Nat /\ Len(b.items) \in Nat \ {0} /\ Len(b.items) = 1 + (m + 1)
    BY <1>1, <1>5, <1>6
  <1>8. Holds(b.items, 0, h) /\ Holds(b.items, 1, c)
    <2>1. Holds(b.items, 0, h \o c)
      BY <1>2, <1>6, HoldsAll
    <2>2. Holds(b.items, 0, h) /\ Holds(b.items, 0 + Len(h), c)
      BY <1>1, <1>5, <1>7, <2>1, HoldsConcat
    <2>3. 0 + Len(h) = 1
      BY <1>1
    <2> QED BY <2>2, <2>3
  <1>9. SymbolsHeld(b.items, 1, b.symbols, l, d, 1, rows)
    BY <1>5, <1>7, <1>8
  <1>10. b.items[1] = HeaderItem(b)
    <2>1. \A j \in 1..1 : b.items[0 + j] = h[j]
      BY <1>1, <1>8 DEF Holds
    <2>2. 1 \in 1..1 /\ 0 + 1 = 1
      OBVIOUS
    <2> QED BY <1>1, <2>1, <2>2
  <1> QED BY <1>3, <1>6, <1>7, <1>9, <1>10 DEF CodedLayout, EndOfSymbols, l, d, rows

\* The items of a block with codes of its own.
LEMMA DynamicBlock ==
    ASSUME NEW b, Block(b), b.kind = 2
    PROVE  /\ CodedLayout(b) /\ TreesHeld(b.items, 1, b.l, b.d, b.bl)
           /\ SymbolsFrom(b) = 1 + Len(TreeItems(b))
           /\ Len(TreeItems(b)) = 3 + (max_blindex(b.bl) + 1)
                  + Len(FlattenSeq(RowsOfRuns(BothRuns(b.l, b.d), b.bl)))
  <1> DEFINE h == Header(2, b.last)
             t == TreeItems(b)
             l == LTree(b)
             d == DTree(b)
             c == compress_block(b.symbols, l, d, 2)
             rows == SymbolsOf(b)
             ht == h \o t
  <1>1. h \in Seq(ItemSet) /\ Len(h) = 1 /\ h[1] = HeaderItem(b)
    BY HeaderIs
  <1>2. b.items = ht \o c
    BY DEF Block, stored_blocks, static_trees, DynamicItems, LTree, DTree, TreeItems
  <1>3. SymbolsFrom(b) = 1 + Len(t)
    BY DEF SymbolsFrom, static_trees, TreeItems
  <1>4. /\ b.symbols \in Seq(Symbol) /\ TreesFor(b.symbols, l, d) /\ rows = Rows(b.symbols, l, d, 2)
        /\ TreesOk(b.l, b.d, b.bl)
    BY TreesOfBlock DEF Block, SymbolsOf
  <1>5. /\ t \in Seq(ItemSet)
        /\ Len(t) = 3 + (max_blindex(b.bl) + 1)
                  + Len(FlattenSeq(RowsOfRuns(BothRuns(b.l, b.d), b.bl)))
        /\ \A items, p : Holds(items, p, t) /\ Len(items) \in Nat
                             => TreesHeld(items, p, b.l, b.d, b.bl)
    BY <1>4, SendAllTrees DEF TreeItems
  <1> HIDE DEF h, l, d, rows, t
  <1> DEFINE m == ElementsBefore(rows, Len(b.symbols) + 1)
  <1>6. /\ c \in Seq(ItemSet) /\ Len(c) = m + 1
        /\ \A items, p : Holds(items, p, c) /\ Len(items) \in Nat
                             => SymbolsHeld(items, p, b.symbols, l, d, 2, rows)
    <2>1. SymbolsSent(c, b.symbols, l, d, 2, rows)
      BY <1>4, CompressBlock
    <2> HIDE DEF c
    <2> QED BY <2>1, Zenon DEF SymbolsSent
  <1> HIDE DEF c
  <1>7. ht \in Seq(ItemSet) /\ Len(ht) = Len(h) + Len(t)
    BY <1>1, <1>5, ConcatProperties
  <1> HIDE DEF ht
  <1>8. b.items \in Seq(ItemSet) /\ Len(b.items) = Len(ht) + Len(c)
    <2>1. ht \in Seq(ItemSet) /\ c \in Seq(ItemSet)
      BY <1>6, <1>7, Zenon
    <2>2. ht \o c \in Seq(ItemSet) /\ Len(ht \o c) = Len(ht) + Len(c)
      BY <2>1, ConcatProperties, Zenon
    <2> QED BY <1>2, <2>2, Zenon
  <1>9. /\ Len(t) \in Nat /\ Len(c) \in Nat /\ Len(ht) = 1 + Len(t)
        /\ Len(b.items) \in Nat \ {0} /\ Len(b.items) = (1 + Len(t)) + (m + 1)
    BY <1>1, <1>5, <1>6, <1>7, <1>8
  <1>10. Holds(b.items, 0, ht) /\ Holds(b.items, 1 + Len(t), c)
    <2>1. Holds(b.items, 0, ht \o c)
      BY <1>2, <1>8, HoldsAll
    <2>2. Holds(b.items, 0, ht) /\ Holds(b.items, 0 + Len(ht), c)
      BY <1>6, <1>7, <1>9, <2>1, HoldsConcat
    <2>3. 0 + Len(ht) = 1 + Len(t)
      BY <1>9
    <2> QED BY <2>2, <2>3
  <1>11. Holds(b.items, 0, h) /\ Holds(b.items, 1, t)
    <2>1. Holds(b.items, 0, h \o t)
      BY <1>10 DEF ht
    <2>2. Holds(b.items, 0, h) /\ Holds(b.items, 0 + Len(h), t)
      BY <1>1, <1>5, <1>9, <2>1, HoldsConcat
    <2>3. 0 + Len(h) = 1
      BY <1>1
    <2> QED BY <2>2, <2>3
  <1>12. SymbolsHeld(b.items, 1 + Len(t), b.symbols, l, d, 2, rows)
    BY <1>6, <1>9, <1>10
  <1>13. TreesHeld(b.items, 1, b.l, b.d, b.bl)
    BY <1>5, <1>9, <1>11
  <1>14. b.items[1] = HeaderItem(b)
    <2>1. \A j \in 1..1 : b.items[0 + j] = h[j]
      BY <1>1, <1>11 DEF Holds
    <2>2. 1 \in 1..1 /\ 0 + 1 = 1
      OBVIOUS
    <2> QED BY <1>1, <2>1, <2>2
  <1>15. 1 + Len(t) \in Nat
    BY <1>9
  <1>16. CodedLayout(b)
    BY <1>3, <1>8, <1>9, <1>12, <1>14, <1>15 DEF CodedLayout, EndOfSymbols, l, d, rows
  <1> QED BY <1>3, <1>5, <1>13, <1>16 DEF t

\* Everything is where the decompressor will look for it.
LEMMA BlockLayout ==
    ASSUME NEW b, Block(b)
    PROVE  Layout(b)
  BY StoredBlock, StaticBlock, DynamicBlock DEF Layout

-----------------------------------------------------------------------------
(* What is tallied *)

\* A sum of one number more.
LEMMA SumAppend ==
    ASSUME NEW n \in Nat, NEW f, NEW g, DOMAIN f = 1..n, DOMAIN g = 1..n + 1,
           \A i \in 1..n + 1 : g[i] \in Nat, \A i \in 1..n : f[i] = g[i]
    PROVE  /\ SumFunction(g) = SumFunction(f) + g[n + 1]
           /\ SumFunction(f) \in Nat /\ SumFunction(g) \in Nat
  <1>1. IsFiniteSet(1..n) /\ IsFiniteSet(1..n + 1)
    BY RangeFinite
  <1>2. SumFunctionOnSet(g, 1..n + 1) = SumFunctionOnSet(g, 1..n) + g[n + 1]
    BY SumUpTo
  <1>3. SumFunctionOnSet(f, 1..n) = SumFunctionOnSet(g, 1..n)
    BY <1>1, SumAgree
  <1>4. \A i \in 1..n : f[i] \in Nat
    OBVIOUS
  <1>5. SumFunctionOnSet(f, 1..n) \in Nat /\ SumFunctionOnSet(g, 1..n + 1) \in Nat
    BY <1>1, <1>4, SumNat
  <1> QED BY <1>2, <1>3, <1>5 DEF SumFunction

\* A symbol more counts for its codes.
LEMMA CountAppend ==
    ASSUME NEW symbols \in Seq(Symbol), NEW s \in Symbol, NEW c
    PROVE  /\ LiteralCount(Append(symbols, s), c) = LiteralCount(symbols, c) + TakesLiteral(s, c)
           /\ DistanceCount(Append(symbols, s), c) = DistanceCount(symbols, c) + TakesDistance(s, c)
           /\ LiteralCount(symbols, c) \in Nat /\ DistanceCount(symbols, c) \in Nat
  <1> DEFINE n == Len(symbols)
             t == Append(symbols, s)
  <1>1. n \in Nat /\ DOMAIN symbols = 1..n /\ DOMAIN t = 1..n + 1 /\ t[n + 1] = s
        /\ \A i \in 1..n : t[i] = symbols[i]
    OBVIOUS
  <1>2. \A x : TakesLiteral(x, c) \in Nat /\ TakesDistance(x, c) \in Nat
    BY DEF TakesLiteral, TakesDistance
  <1> HIDE DEF n, t
  <1>3. n + 1 \in 1..n + 1
    BY <1>1
  <1> DEFINE f == [i \in DOMAIN symbols |-> TakesLiteral(symbols[i], c)]
             g == [i \in DOMAIN t |-> TakesLiteral(t[i], c)]
             e == [i \in DOMAIN symbols |-> TakesDistance(symbols[i], c)]
             h == [i \in DOMAIN t |-> TakesDistance(t[i], c)]
  <1>4. /\ DOMAIN f = 1..n /\ DOMAIN g = 1..n + 1 /\ g[n + 1] = TakesLiteral(s, c)
        /\ \A i \in 1..n : f[i] = g[i]
        /\ \A i \in 1..n + 1 : g[i] \in Nat
    BY <1>1, <1>2, <1>3
  <1>5. /\ DOMAIN e = 1..n /\ DOMAIN h = 1..n + 1 /\ h[n + 1] = TakesDistance(s, c)
        /\ \A i \in 1..n : e[i] = h[i]
        /\ \A i \in 1..n + 1 : h[i] \in Nat
    BY <1>1, <1>2, <1>3
  <1> HIDE DEF f, g, e, h
  <1>6. SumFunction(g) = SumFunction(f) + g[n + 1] /\ SumFunction(f) \in Nat
    BY <1>1, <1>4, SumAppend
  <1>7. SumFunction(h) = SumFunction(e) + h[n + 1] /\ SumFunction(e) \in Nat
    BY <1>1, <1>5, SumAppend
  <1> QED BY <1>4, <1>5, <1>6, <1>7 DEF f, g, e, h, t, LiteralCount, DistanceCount

\* What tr_tally does to the frequencies.
LEMMA TallyCounts ==
    ASSUME NEW symbols \in Seq(Symbol), NEW s \in Symbol, NEW lf, NEW df,
           Counts(symbols, lf, df), NEW lf2, NEW df2,
           lf2 = [lf EXCEPT ![LiteralCode(s)] = @ + 1],
           df2 = IF IsMatch(s) THEN [df EXCEPT ![DistanceCode(s)] = @ + 1] ELSE df
    PROVE  Counts(Append(symbols, s), lf2, df2)
  <1> DEFINE t == Append(symbols, s)
             x == LiteralCode(s)
             y == DistanceCode(s)
  <1>1. x \in 0..285 /\ (IsMatch(s) => y \in 0..29)
    BY CodesOfSymbol
  <1>2. 285 = lcodes - 1 /\ 29 = dcodes - 1
    BY DEF lcodes, dcodes, literals, length_codes
  <1>3. /\ lf = [c \in 0..285 |-> LiteralCount(symbols, c) + IF c = end_block THEN 1 ELSE 0]
        /\ df = [c \in 0..29 |-> DistanceCount(symbols, c)]
    BY <1>2 DEF Counts
  <1>4. \A c : /\ LiteralCount(t, c) = LiteralCount(symbols, c) + (IF x = c THEN 1 ELSE 0)
               /\ DistanceCount(t, c)
                     = DistanceCount(symbols, c) + (IF IsMatch(s) /\ y = c THEN 1 ELSE 0)
               /\ LiteralCount(symbols, c) \in Nat /\ DistanceCount(symbols, c) \in Nat
    BY CountAppend DEF TakesLiteral, TakesDistance
  <1> HIDE DEF t, x, y
  <1>5. lf2 = [c \in 0..285 |-> LiteralCount(t, c) + IF c = end_block THEN 1 ELSE 0]
    <2>1. lf2 = [c \in 0..285 |-> IF x = c THEN lf[c] + 1 ELSE lf[c]]
      BY <1>1, <1>3 DEF x
    <2>2. ASSUME NEW c \in 0..285
          PROVE  (IF x = c THEN lf[c] + 1 ELSE lf[c])
                    = LiteralCount(t, c) + IF c = end_block THEN 1 ELSE 0
      <3>1. PICK n \in Nat : n = LiteralCount(symbols, c)
        BY <1>4
      <3>2. PICK k \in Nat : k = IF c = end_block THEN 1 ELSE 0
        OBVIOUS
      <3>3. lf[c] = n + k
        BY <1>3, <3>1, <3>2
      <3>4. LiteralCount(t, c) = n + (IF x = c THEN 1 ELSE 0)
        BY <1>4, <3>1
      <3>5. CASE x = c
        <4>1. (n + k) + 1 = (n + 1) + k
          OBVIOUS
        <4> QED BY <3>2, <3>3, <3>4, <3>5, <4>1
      <3>6. CASE x # c
        <4>1. n + 0 = n
          OBVIOUS
        <4> QED BY <3>2, <3>3, <3>4, <3>6, <4>1
      <3> QED BY <3>5, <3>6
    <2> QED BY <2>1, <2>2, ZenonT(60)
  <1>6. df2 = [c \in 0..29 |-> DistanceCount(t, c)]
    <2>1. df2 = [c \in 0..29 |-> IF IsMatch(s) /\ y = c THEN df[c] + 1 ELSE df[c]]
      <3>1. CASE IsMatch(s)
        <4>1. df2 = [df EXCEPT ![y] = @ + 1]
          BY <3>1 DEF y
        <4> QED BY <1>1, <1>3, <3>1, <4>1, ZenonT(60)
      <3>2. CASE ~IsMatch(s)
        <4>1. df2 = df
          BY <3>2
        <4> QED BY <1>3, <3>2, <4>1
      <3> QED BY <3>1, <3>2
    <2>2. ASSUME NEW c \in 0..29
          PROVE  (IF IsMatch(s) /\ y = c THEN df[c] + 1 ELSE df[c]) = DistanceCount(t, c)
      <3>1. PICK n \in Nat : n = DistanceCount(symbols, c)
        BY <1>4
      <3>2. df[c] = n
        BY <1>3, <3>1
      <3>3. n + 0 = n
        OBVIOUS
      <3> QED BY <1>4, <3>1, <3>2, <3>3
    <2> QED BY <2>1, <2>2
  <1> QED BY <1>2, <1>5, <1>6 DEF Counts, t

\* Nothing is tallied of a new block but its end.
LEMMA NewBlockCounts ==
    Counts(<<>>, [ZeroFreq(lcodes) EXCEPT ![end_block] = 1], ZeroFreq(dcodes))
  <1>1. \A c : LiteralCount(<<>>, c) = 0 /\ DistanceCount(<<>>, c) = 0
    <2> TAKE c
    <2> DEFINE f == [i \in DOMAIN <<>> |-> TakesLiteral(<<>>[i], c)]
               e == [i \in DOMAIN <<>> |-> TakesDistance(<<>>[i], c)]
    <2>1. DOMAIN f = {} /\ DOMAIN e = {}
      OBVIOUS
    <2> HIDE DEF f, e
    <2>2. SumFunction(f) = 0 /\ SumFunction(e) = 0
      BY <2>1, SumEmpty DEF SumFunction
    <2> QED BY <2>2 DEF f, e, LiteralCount, DistanceCount
  <1>2. 285 = lcodes - 1 /\ 29 = dcodes - 1 /\ end_block \in 0..285
    BY DEF lcodes, dcodes, literals, length_codes, end_block
  <1>3. ZeroFreq(dcodes) = [c \in 0..29 |-> DistanceCount(<<>>, c)]
    BY <1>1, <1>2 DEF ZeroFreq
  <1> DEFINE lf == [ZeroFreq(lcodes) EXCEPT ![end_block] = 1]
  <1>4. lf = [c \in 0..285 |-> 0 + IF c = end_block THEN 1 ELSE 0]
    <2>1. lf = [c \in 0..285 |-> IF c = end_block THEN 1 ELSE 0]
      BY <1>2 DEF ZeroFreq
    <2>2. \A c \in 0..285 : (IF c = end_block THEN 1 ELSE 0) = 0 + IF c = end_block THEN 1 ELSE 0
      OBVIOUS
    <2> QED BY <2>1, <2>2
  <1> HIDE DEF lf
  <1>5. lf = [c \in 0..285 |-> LiteralCount(<<>>, c) + IF c = end_block THEN 1 ELSE 0]
    BY <1>1, <1>4
  <1> QED BY <1>2, <1>3, <1>5 DEF Counts, lf

\* A code that a symbol takes has occurred.
LEMMA CountsFit ==
    ASSUME NEW symbols \in Seq(Symbol), NEW lf, NEW df, Counts(symbols, lf, df)
    PROVE  /\ lf \in [0..285 -> Nat] /\ df \in [0..29 -> Nat] /\ lf[256] # 0
           /\ \A i \in DOMAIN symbols :
                 /\ lf[LiteralCode(symbols[i])] # 0
                 /\ IsMatch(symbols[i]) => df[DistanceCode(symbols[i])] # 0
  <1>1. 285 = lcodes - 1 /\ 29 = dcodes - 1 /\ end_block = 256
    BY DEF lcodes, dcodes, literals, length_codes, end_block
  <1>2. /\ lf = [c \in 0..285 |-> LiteralCount(symbols, c) + IF c = 256 THEN 1 ELSE 0]
        /\ df = [c \in 0..29 |-> DistanceCount(symbols, c)]
    BY <1>1 DEF Counts
  <1> DEFINE F(c) == [i \in DOMAIN symbols |-> TakesLiteral(symbols[i], c)]
             G(c) == [i \in DOMAIN symbols |-> TakesDistance(symbols[i], c)]
  <1>3. DOMAIN symbols = 1..Len(symbols) /\ Len(symbols) \in Nat
    OBVIOUS
  <1>4. IsFiniteSet(DOMAIN symbols)
    BY <1>3, RangeFinite
  <1>5. ASSUME NEW c
        PROVE  /\ LiteralCount(symbols, c) \in Nat /\ DistanceCount(symbols, c) \in Nat
               /\ \A i \in DOMAIN symbols : /\ TakesLiteral(symbols[i], c) <= LiteralCount(symbols, c)
                                            /\ TakesDistance(symbols[i], c) <= DistanceCount(symbols, c)
    <2> DEFINE f == F(c)
               g == G(c)
    <2>1. /\ \A i \in DOMAIN symbols : f[i] = TakesLiteral(symbols[i], c) /\ g[i] = TakesDistance(symbols[i], c)
          /\ DOMAIN f = DOMAIN symbols /\ DOMAIN g = DOMAIN symbols
          /\ LiteralCount(symbols, c) = SumFunction(f) /\ DistanceCount(symbols, c) = SumFunction(g)
      BY DEF LiteralCount, DistanceCount
    <2> HIDE DEF f, g
    <2>2. \A i \in DOMAIN symbols : f[i] \in Nat /\ g[i] \in Nat
      BY <2>1 DEF TakesLiteral, TakesDistance
    <2>3. SumFunctionOnSet(f, DOMAIN symbols) \in Nat /\ SumFunctionOnSet(g, DOMAIN symbols) \in Nat
      BY <1>4, <2>2, SumNat
    <2>4. \A i \in DOMAIN symbols : f[i] <= SumFunctionOnSet(f, DOMAIN symbols)
      BY <1>4, <2>2, SumTerm
    <2>5. \A i \in DOMAIN symbols : g[i] <= SumFunctionOnSet(g, DOMAIN symbols)
      BY <1>4, <2>2, SumTerm
    <2> QED BY <2>1, <2>3, <2>4, <2>5 DEF SumFunction
  <1>6. lf \in [0..285 -> Nat]
    <2>1. \A c : LiteralCount(symbols, c) \in Nat
      BY <1>5
    <2>2. \A c : (IF c = 256 THEN 1 ELSE 0) \in Nat
      OBVIOUS
    <2>3. \A m \in Nat, n \in Nat : m + n \in Nat
      OBVIOUS
    <2>4. \A c : LiteralCount(symbols, c) + (IF c = 256 THEN 1 ELSE 0) \in Nat
      BY <2>1, <2>2, <2>3
    <2> QED BY <1>2, <2>4
  <1>7. df \in [0..29 -> Nat]
    BY <1>2, <1>5
  <1>8. lf[256] # 0
    <2>1. lf[256] = LiteralCount(symbols, 256) + 1
      BY <1>2
    <2>2. LiteralCount(symbols, 256) \in Nat
      BY <1>5
    <2> QED BY <2>1, <2>2
  <1>9. ASSUME NEW i \in DOMAIN symbols
        PROVE  /\ lf[LiteralCode(symbols[i])] # 0
               /\ IsMatch(symbols[i]) => df[DistanceCode(symbols[i])] # 0
    <2>1. symbols[i] \in Symbol
      OBVIOUS
    <2> DEFINE x == LiteralCode(symbols[i])
               y == DistanceCode(symbols[i])
    <2>2. x \in 0..285 /\ x # 256 /\ (IsMatch(symbols[i]) => y \in 0..29)
      BY <1>1, <2>1, CodesOfSymbol
    <2>3. TakesLiteral(symbols[i], x) = 1 /\ (IsMatch(symbols[i]) => TakesDistance(symbols[i], y) = 1)
      BY DEF TakesLiteral, TakesDistance
    <2> HIDE DEF x, y
    <2>4. lf[x] # 0
      <3>1. PICK n \in Nat : n = LiteralCount(symbols, x)
        BY <1>5
      <3>2. 1 <= n
        BY <1>5, <2>3, <3>1
      <3>3. lf[x] = n + 0
        BY <1>2, <2>2, <3>1
      <3> QED BY <3>2, <3>3
    <2>5. IsMatch(symbols[i]) => df[y] # 0
      <3> SUFFICES ASSUME IsMatch(symbols[i]) PROVE df[y] # 0
        OBVIOUS
      <3>1. PICK n \in Nat : n = DistanceCount(symbols, y)
        BY <1>5
      <3>2. 1 <= n
        BY <1>5, <2>3, <3>1
      <3>3. df[y] = n
        BY <1>2, <2>2, <3>1
      <3> QED BY <3>2, <3>3
    <2> QED BY <2>4, <2>5 DEF x, y
  <1> QED BY <1>6, <1>7, <1>8, <1>9
-----------------------------------------------------------------------------
(* What tr_flush_block makes of it *)

\* A tree has a code for all that has occurred, and for something.
TreeFor(f, n, limit, dl) ==
    /\ dl \in [0..n -> 0..limit] /\ Occur(dl) # {}
    /\ \A c \in 0..n : f[c] # 0 => dl[c] # 0

\* When nothing occurs, build_tree makes 0 and 1 occur.
LEMMA NothingOccurs == Forced({}) = <<0, 1>>
  BY FS_EmptySet, SMT DEF Forced

\* What build_tree promises of the code that it builds: each symbol that occurs has a
\* length within the limit.
LEMMA BuildTree ==
    ASSUME NEW n \in Nat, NEW f, DOMAIN f = 0..n, NEW limit \in Nat, NEW dl \in build_tree(f, limit)
    PROVE  TreeFor(f, n, limit, dl)
  <1> DEFINE s == WithForced(Occur(f))
  <1>1. Occur(f) \subseteq s
    BY DEF WithForced
  <1>2. \E c \in 0..n : c \in s
    <2>1. CASE Occur(f) # {}
      BY <1>1, <2>1 DEF Occur
    <2>2. CASE Occur(f) = {}
      <3>1. 1 \in DOMAIN <<0, 1>> /\ <<0, 1>>[1] = 0
        OBVIOUS
      <3>2. 0 \in s
        BY <2>2, <3>1, NothingOccurs DEF WithForced
      <3> QED BY <3>2
    <2> QED BY <2>1, <2>2
  <1>3. \A c \in 0..n : f[c] # 0 => c \in s
    BY <1>1 DEF Occur
  <1>4. PICK e : Complete(e, s, limit) /\ dl = [c \in 0..n |-> IF c \in s THEN e[c] ELSE 0]
    BY DEF build_tree
  <1> HIDE DEF s
  <1>5. \A c \in s : e[c] \in 1..limit
    BY <1>4 DEF Complete
  <1>6. \A c \in s : e[c] \in 0..limit /\ e[c] # 0
    BY <1>5
  <1>7. dl \in [0..n -> 0..limit]
    BY <1>4, <1>6
  <1>8. \A c \in 0..n : c \in s => dl[c] # 0
    BY <1>4, <1>6
  <1>9. DOMAIN dl = 0..n
    BY <1>4
  <1>10. Occur(dl) # {}
    BY <1>2, <1>8, <1>9 DEF Occur
  <1> QED BY <1>3, <1>7, <1>8, <1>10 DEF TreeFor

\* How often a run adds a code is a number.
LEMMA AddsNat ==
    ASSUME NEW r, RunShape(r), NEW c
    PROVE  Adds(r, c) \in Nat
  <1>1. r.count \in Nat
    BY RunFields
  <1> QED BY <1>1 DEF Adds

\* The frequencies that scan_tree counts are those of the codes that send_tree sends.
LEMMA ScanTree ==
    ASSUME NEW rs, AllShaped(rs)
    PROVE  /\ DOMAIN scan_tree(rs) = 0..18
           /\ \A i \in DOMAIN rs, c \in 0..18 : Adds(rs[i], c) # 0 => scan_tree(rs)[c] # 0
  <1>1. DOMAIN rs = 1..Len(rs) /\ Len(rs) \in Nat
    BY DEF AllShaped
  <1>2. IsFiniteSet(DOMAIN rs)
    BY <1>1, RangeFinite
  <1>3. \A i \in DOMAIN rs : RunShape(rs[i])
    BY <1>1 DEF AllShaped
  <1>4. scan_tree(rs) = [c \in 0..18 |-> SumFunction([i \in DOMAIN rs |-> Adds(rs[i], c)])]
    BY DEF scan_tree, bl_codes
  <1>5. ASSUME NEW i \in DOMAIN rs, NEW c \in 0..18, Adds(rs[i], c) # 0
        PROVE  scan_tree(rs)[c] # 0
    <2> DEFINE f == [k \in DOMAIN rs |-> Adds(rs[k], c)]
    <2>1. scan_tree(rs)[c] = SumFunction(f)
      BY <1>4
    <2>2. \A k \in DOMAIN rs : f[k] \in Nat
      BY <1>3, AddsNat
    <2>3. f[i] = Adds(rs[i], c) /\ DOMAIN f = DOMAIN rs
      OBVIOUS
    <2> HIDE DEF f
    <2>4. f[i] \in Nat
      BY <2>2
    <2>5. f[i] <= SumFunctionOnSet(f, DOMAIN rs) /\ SumFunctionOnSet(f, DOMAIN rs) \in Nat
      BY <1>2, <2>2, SumTerm, SumNat
    <2>6. SumFunctionOnSet(f, DOMAIN rs) # 0
      BY <1>5, <2>3, <2>4, <2>5
    <2> QED BY <2>1, <2>3, <2>6 DEF SumFunction
  <1>6. DOMAIN scan_tree(rs) = 0..18
    BY <1>4
  <1> QED BY <1>5, <1>6

\* The three trees that tr_flush_block builds fit the symbols.
Trees(lf, df, l, d, bl) ==
    /\ l \in build_tree(lf, max_bits) /\ d \in build_tree(df, max_bits)
    /\ bl \in build_tree(scan_tree(Runs(l) \o Runs(d)), max_bl_bits)

\* The three codes of a block have a length for all that is sent with them.
LEMMA FlushTrees ==
    ASSUME NEW symbols \in Seq(Symbol), NEW lf, NEW df, Counts(symbols, lf, df),
           NEW l, NEW d, NEW bl, Trees(lf, df, l, d, bl),
           NEW b, b.l = l, b.d = d, b.bl = bl, b.symbols = symbols
    PROVE  TreesFit(b)
  <1>1. /\ lf \in [0..285 -> Nat] /\ df \in [0..29 -> Nat] /\ lf[256] # 0
        /\ \A i \in DOMAIN symbols :
              /\ lf[LiteralCode(symbols[i])] # 0
              /\ IsMatch(symbols[i]) => df[DistanceCode(symbols[i])] # 0
    BY CountsFit
  <1>2. max_bits \in Nat /\ max_bl_bits \in Nat
    BY DEF max_bits, max_bl_bits
  <1>3. DOMAIN lf = 0..285 /\ DOMAIN df = 0..29
    BY <1>1
  <1>4. /\ l \in [0..285 -> 0..max_bits] /\ Occur(l) # {}
        /\ \A c \in 0..285 : lf[c] # 0 => l[c] # 0
    <2>1. l \in build_tree(lf, max_bits)
      BY DEF Trees
    <2>2. 285 \in Nat /\ DOMAIN lf = 0..285
      BY <1>3
    <2>3. TreeFor(lf, 285, max_bits, l)
      BY <1>2, <2>1, <2>2, BuildTree
    <2> QED BY <2>3 DEF TreeFor
  <1>5. /\ d \in [0..29 -> 0..max_bits] /\ Occur(d) # {}
        /\ \A c \in 0..29 : df[c] # 0 => d[c] # 0
    <2>1. d \in build_tree(df, max_bits)
      BY DEF Trees
    <2>2. 29 \in Nat /\ DOMAIN df = 0..29
      BY <1>3
    <2>3. TreeFor(df, 29, max_bits, d)
      BY <1>2, <2>1, <2>2, BuildTree
    <2> QED BY <2>3 DEF TreeFor
  <1> DEFINE rs == Runs(l) \o Runs(d)
  <1>6. AllShaped(rs)
    <2>1. Lengths(l, 285) /\ Lengths(d, 29)
      BY <1>4, <1>5, ZenonT(60) DEF Lengths
    <2>2. AllShaped(Runs(l)) /\ AllShaped(Runs(d))
      BY <2>1, RunsShaped
    <2>3. BitLengths([c \in 0..18 |-> 0])
      BY DEF BitLengths, bl_codes, max_bl_bits
    <2> QED BY <2>2, <2>3, RowsOfBoth
  <1> HIDE DEF rs
  <1>7. /\ DOMAIN scan_tree(rs) = 0..18
        /\ \A i \in DOMAIN rs, c \in 0..18 : Adds(rs[i], c) # 0 => scan_tree(rs)[c] # 0
    BY <1>6, ScanTree
  <1>8. /\ bl \in [0..18 -> 0..max_bl_bits]
        /\ \A c \in 0..18 : scan_tree(rs)[c] # 0 => bl[c] # 0
    <2>1. bl \in build_tree(scan_tree(rs), max_bl_bits)
      BY DEF Trees, rs
    <2>2. 18 \in Nat /\ DOMAIN scan_tree(rs) = 0..18
      BY <1>7
    <2>3. TreeFor(scan_tree(rs), 18, max_bl_bits, bl)
      BY <1>2, <2>1, <2>2, BuildTree
    <2> QED BY <2>3 DEF TreeFor
  <1>9. \A i \in DOMAIN rs, c \in 0..18 : Adds(rs[i], c) # 0 => bl[c] # 0
    BY <1>7, <1>8
  <1>10. \A i \in DOMAIN symbols :
            /\ l[LiteralCode(symbols[i])] # 0
            /\ IsMatch(symbols[i]) => d[DistanceCode(symbols[i])] # 0
    <2> TAKE i \in DOMAIN symbols
    <2>1. symbols[i] \in Symbol
      OBVIOUS
    <2>2. /\ LiteralCode(symbols[i]) \in 0..285
          /\ IsMatch(symbols[i]) => DistanceCode(symbols[i]) \in 0..29
      BY <2>1, CodesOfSymbol
    <2> QED BY <1>1, <1>4, <1>5, <2>2
  <1>11. l[256] # 0
    <2>1. 256 \in 0..285
      OBVIOUS
    <2> QED BY <1>1, <1>4, <2>1
  <1>12. lcodes - 1 = 285 /\ dcodes - 1 = 29 /\ bl_codes - 1 = 18 /\ end_block = 256
    BY DEF lcodes, dcodes, bl_codes, literals, length_codes, end_block
  <1>13. AllRuns(b) = rs
    BY DEF AllRuns, rs
  <1>14. /\ b.l \in [0..lcodes - 1 -> 0..max_bits]
         /\ b.d \in [0..dcodes - 1 -> 0..max_bits]
         /\ b.bl \in [0..bl_codes - 1 -> 0..max_bl_bits]
    BY <1>4, <1>5, <1>8, <1>12
  <1>15. b.l[end_block] # 0 /\ Occur(b.d) # {}
    BY <1>5, <1>11, <1>12
  <1>16. \A i \in DOMAIN b.symbols :
            /\ b.l[LiteralCode(b.symbols[i])] # 0
            /\ IsMatch(b.symbols[i]) => b.d[DistanceCode(b.symbols[i])] # 0
    BY <1>10
  <1>17. \A i \in DOMAIN AllRuns(b), c \in 0..bl_codes - 1 :
            Adds(AllRuns(b)[i], c) # 0 => b.bl[c] # 0
    <2>1. \A i \in DOMAIN rs, c \in 0..bl_codes - 1 : Adds(rs[i], c) # 0 => bl[c] # 0
      <3>1. 0..bl_codes - 1 = 0..18
        BY <1>12
      <3> TAKE i \in DOMAIN rs, c \in 0..bl_codes - 1
      <3>2. c \in 0..18
        BY <3>1
      <3> QED BY <1>9, <3>2
    <2> QED BY <1>13, <2>1
  <1> QED BY <1>14, <1>15, <1>16, <1>17 DEF TreesFit

\* The length of a match is a number.
LEMMA AddThree == \A m \in 0..255 : m + 3 \in Nat
  OBVIOUS

\* The bytes of the symbols.
LEMMA StoredLenNat ==
    ASSUME NEW symbols \in Seq(Symbol), NEW f,
           f = [i \in DOMAIN symbols |-> IF symbols[i].dist = 0 THEN 1 ELSE symbols[i].len + 3]
    PROVE  SumFunction(f) \in Nat
  <1>1. DOMAIN symbols = 1..Len(symbols) /\ Len(symbols) \in Nat /\ DOMAIN f = DOMAIN symbols
    OBVIOUS
  <1>2. IsFiniteSet(DOMAIN symbols)
    BY <1>1, RangeFinite
  <1>3. \A i \in DOMAIN symbols : f[i] \in Nat
    <2> TAKE i \in DOMAIN symbols
    <2>1. symbols[i] \in Symbol
      OBVIOUS
    <2>2. symbols[i].len \in 0..255
      BY <2>1, SymbolFields
    <2>3. symbols[i].len + 3 \in Nat
      BY <2>2, AddThree
    <2> QED BY <2>3
  <1> QED BY <1>1, <1>2, <1>3, SumNat DEF SumFunction

\* What tr_flush_block sends.
ItemsOf(kind, last, symbols, stored_len, l, d, bl) ==
    CASE kind = 0 -> Header(stored_blocks, last) \o <<Stored(stored_len)>>
      [] kind = 1 -> StaticItems(symbols, last)
      [] OTHER -> DynamicItems(symbols, last, l, d, bl)
SentItems(b, kind, len, items, iw, last, symbols, stored_len, l, d, bl) ==
    b = [kind |-> kind, len |-> len, items |-> items,
         symbols |-> symbols, in_window |-> iw, stored_len |-> stored_len,
         last |-> last, l |-> l, d |-> d, bl |-> bl]
SentAs(b, kind, len, iw, last, symbols, stored_len, l, d, bl) ==
    SentItems(b, kind, len, ItemsOf(kind, last, symbols, stored_len, l, d, bl),
              iw, last, symbols, stored_len, l, d, bl)
\* The lengths that the kinds are compared by.
OptLen(l, d, bl) ==
    BitsOf(dyn_ltree_, l, ExtraOfLiteral) + BitsOf(dyn_dtree_, d, extra_dbits)
        + BitsOf(scan_tree(Runs(l) \o Runs(d)), bl, extra_blbits)
        + 3 * (max_blindex(bl) + 1) + 5 + 5 + 4
StaticLen == BitsOf(dyn_ltree_, ltree, ExtraOfLiteral) + BitsOf(dyn_dtree_, dtree, extra_dbits)
StaticBytes == IF level_ > 0 THEN InBytes(StaticLen) ELSE StoredLen + 5
OptBytes(l, d, bl) ==
    IF level_ > 0 THEN Min({InBytes(OptLen(l, d, bl)), StaticBytes}) ELSE StoredLen + 5
\* The choice among them.
Chosen(kind, len, iw, l, d, bl) ==
    IF StoredLen + 4 <= OptBytes(l, d, bl) /\ iw
    THEN kind = 0 /\ len = 8 * (StoredLen + 4)
    ELSE IF strategy_ = "fixed" \/ StaticBytes = OptBytes(l, d, bl)
    THEN kind = 1 /\ len = StaticLen
    ELSE kind = 2 /\ len = OptLen(l, d, bl)

\* FlushBlock sends the block that the lengths choose, with the trees that were built.
LEMMA FlushBlockIs ==
    ASSUME FlushBlock
    PROVE  \E kind, len, iw, last, l, d, bl :
              /\ kind \in {0, 1, 2} /\ iw \in BOOLEAN /\ last \in {0, 1}
              /\ Trees(dyn_ltree_, dyn_dtree_, l, d, bl)
              /\ SentAs(sent', kind, len, iw, last, buf, StoredLen, l, d, bl)
              /\ Chosen(kind, len, iw, l, d, bl)
  <1> DEFINE last == IF Len(todo) = 1 THEN 1 ELSE 0
  <1>1. last \in {0, 1}
    OBVIOUS
  <1>2. PICK iw \in BOOLEAN : tr_flush_block(iw, last)
    BY DEF FlushBlock
  <1> HIDE DEF last
  <1> DEFINE S(kind, len, items, l, d, bl) ==
                 SentItems(sent', kind, len, items, iw, last, buf, StoredLen, l, d, bl)
  <1>3. PICK l \in build_tree(dyn_ltree_, max_bits), d \in build_tree(dyn_dtree_, max_bits) :
           \E bl \in build_tree(scan_tree(Runs(l) \o Runs(d)), max_bl_bits) :
             IF StoredLen + 4 <= OptBytes(l, d, bl) /\ iw
             THEN S(0, 8 * (StoredLen + 4), Header(0, last) \o <<Stored(StoredLen)>>, l, d, bl)
             ELSE IF strategy_ = "fixed" \/ StaticBytes = OptBytes(l, d, bl)
             THEN S(1, StaticLen, StaticItems(buf, last), l, d, bl)
             ELSE S(2, OptLen(l, d, bl), DynamicItems(buf, last, l, d, bl), l, d, bl)
    BY <1>2, ZenonT(60) DEF tr_flush_block, SentItems, StaticBytes, OptBytes, StaticLen, OptLen,
               stored_blocks, static_trees, dynamic_trees
  <1>4. PICK bl : Trees(dyn_ltree_, dyn_dtree_, l, d, bl) /\
             IF StoredLen + 4 <= OptBytes(l, d, bl) /\ iw
             THEN S(0, 8 * (StoredLen + 4), Header(0, last) \o <<Stored(StoredLen)>>, l, d, bl)
             ELSE IF strategy_ = "fixed" \/ StaticBytes = OptBytes(l, d, bl)
             THEN S(1, StaticLen, StaticItems(buf, last), l, d, bl)
             ELSE S(2, OptLen(l, d, bl), DynamicItems(buf, last, l, d, bl), l, d, bl)
    BY <1>3, Zenon DEF Trees
  <1>5. /\ ItemsOf(0, last, buf, StoredLen, l, d, bl) = Header(0, last) \o <<Stored(StoredLen)>>
        /\ ItemsOf(1, last, buf, StoredLen, l, d, bl) = StaticItems(buf, last)
        /\ ItemsOf(2, last, buf, StoredLen, l, d, bl) = DynamicItems(buf, last, l, d, bl)
    BY DEF ItemsOf, stored_blocks
  <1> HIDE DEF S
  <1> DEFINE A(kind, len) == /\ SentAs(sent', kind, len, iw, last, buf, StoredLen, l, d, bl)
                             /\ Chosen(kind, len, iw, l, d, bl)
  <1>6. CASE StoredLen + 4 <= OptBytes(l, d, bl) /\ iw
    <2>1. A(0, 8 * (StoredLen + 4))
      BY <1>4, <1>5, <1>6, Zenon DEF S, SentAs, Chosen
    <2> QED BY <1>1, <1>4, <2>1
  <1>7. CASE /\ ~(StoredLen + 4 <= OptBytes(l, d, bl) /\ iw)
             /\ strategy_ = "fixed" \/ StaticBytes = OptBytes(l, d, bl)
    <2>1. A(1, StaticLen)
      BY <1>4, <1>5, <1>7, Zenon DEF S, SentAs, Chosen
    <2> QED BY <1>1, <1>4, <2>1
  <1>8. CASE /\ ~(StoredLen + 4 <= OptBytes(l, d, bl) /\ iw)
             /\ ~(strategy_ = "fixed" \/ StaticBytes = OptBytes(l, d, bl))
    <2>1. A(2, OptLen(l, d, bl))
      BY <1>4, <1>5, <1>8, Zenon DEF S, SentAs, Chosen
    <2> QED BY <1>1, <1>4, <2>1
  <1> QED BY <1>6, <1>7, <1>8

\* It is a block, of the symbols that were tallied.
LEMMA SentIsBlock ==
    ASSUME Typed, Counted, NEW kind \in {0, 1, 2}, NEW len, NEW iw, NEW last \in {0, 1}, NEW l,
           NEW d, NEW bl, Trees(dyn_ltree_, dyn_dtree_, l, d, bl),
           NEW b, SentAs(b, kind, len, iw, last, buf, StoredLen, l, d, bl)
    PROVE  Block(b)
  <1>1. buf \in Seq(Symbol) /\ Counts(buf, dyn_ltree_, dyn_dtree_)
    BY DEF Typed, Counted
  <1> DEFINE n == StoredLen
  <1>2. n \in Nat
    BY <1>1, StoredLenNat DEF StoredLen
  <1> HIDE DEF n
  <1>3. /\ b.kind = kind /\ b.last = last /\ b.symbols = buf /\ b.stored_len = n
        /\ b.l = l /\ b.d = d /\ b.bl = bl
        /\ b.items = ItemsOf(kind, last, buf, n, l, d, bl)
    BY DEF SentAs, SentItems, n
  <1>4. TreesFit(b)
    BY <1>1, <1>3, FlushTrees
  <1>5. b.items = CASE b.kind = stored_blocks ->
                          Header(stored_blocks, b.last) \o <<Stored(b.stored_len)>>
                   [] b.kind = static_trees -> StaticItems(b.symbols, b.last)
                   [] OTHER -> DynamicItems(b.symbols, b.last, b.l, b.d, b.bl)
    BY <1>3 DEF ItemsOf, stored_blocks, static_trees
  <1> QED BY <1>1, <1>2, <1>3, <1>4, <1>5 DEF Block, stored_blocks, static_trees, dynamic_trees

-----------------------------------------------------------------------------
(* What is read *)

\* The items that are read are those that are wanted.
LEMMA ReadsOne ==
    ASSUME NEW w, Wanted = <<w>>, at \in Nat, Len(sent.items) \in Nat, at <= Len(sent.items),
           Matches(sent.items[at], w)
    PROVE  Readable /\ Len(Wanted) = 1
  <1>1. Len(Wanted) = 1 /\ DOMAIN Wanted = 1..1 /\ Wanted[1] = w
    OBVIOUS
  <1> HIDE DEF Wanted
  <1>2. at + 1 - 1 = at
    OBVIOUS
  <1>3. \A i \in 1..1 : Matches(sent.items[at + i - 1], Wanted[i])
    <2> TAKE i \in 1..1
    <2>1. i = 1
      OBVIOUS
    <2> QED BY <1>1, <1>2, <2>1
  <1>4. at + Len(Wanted) - 1 <= Len(sent.items)
    BY <1>1, <1>2
  <1> QED BY <1>1, <1>3, <1>4 DEF Readable

\* Items of the wanted forms that are where the decompressor is can be read.
LEMMA ReadsMany ==
    ASSUME NEW n \in Nat, DOMAIN Wanted = 1..n, Len(Wanted) = n, n # 0, at \in Nat,
           Len(sent.items) \in Nat, (at + n) - 1 <= Len(sent.items),
           \A i \in 1..n : Matches(sent.items[at + i - 1], Wanted[i])
    PROVE  Readable
  BY DEF Readable

\* Values and codes that are wanted.
LEMMA ValueMatches ==
    ASSUME NEW v, NEW n
    PROVE  Matches(send_bits(v, n), ValueOf(n))
  BY DEF Matches, ValueOf, send_bits

\* A code that was sent with the tree in use is decoded with it.
LEMMA CodeMatches ==
    ASSUME NEW c, NEW alphabet \in {"literal", "distance", "length"}, NEW dl, dl[c] \in Nat \ {0}
    PROVE  Matches(send_code(c, alphabet, tree, dl), CodeOf(alphabet))
  BY DEF Matches, CodeOf, send_code

\* What the places in the invariant are.
LEMMA Places ==
    /\ \A rows, k : Place(rows, k) = ElementsBefore(rows, k)
    /\ \A b : RowsOf(b) = SymbolsOf(b) /\ AllRuns(b) = BothRuns(b.l, b.d)
              /\ RunRows(b) = RowsOfRuns(BothRuns(b.l, b.d), b.bl)
  BY DEF Place, ElementsBefore, RowsOf, SymbolsOf, Rows, AllRuns, BothRuns, RunRows, RowsOfRuns

\* Out of a block that was sent.
Inside == Decoding /\ mode \notin {"idle"}

\* What the invariant says while a block is decompressed.
LEMMA InsideBlock ==
    ASSUME Inside
    PROVE  /\ sent.items # <<>> /\ Block(sent) /\ Layout(sent) /\ InMode
           /\ sent.kind \in {0, 1, 2} /\ sent.last \in {0, 1} /\ sent.symbols \in Seq(Symbol)
           /\ sent.stored_len \in Nat
  <1>1. sent.items # <<>> /\ Block(sent) /\ InMode
    BY DEF Inside, Decoding
  <1>2. Layout(sent)
    BY <1>1, BlockLayout
  <1> QED BY <1>1, <1>2 DEF Block, stored_blocks, static_trees, dynamic_trees

\* What stays.
Stays == sent' = sent /\ sent.items # <<>> /\ Block(sent)

\* A step that leaves the block alone keeps the invariant when the mode that it enters
\* is right.
LEMMA StaysDecoding ==
    ASSUME Stays, InMode'
    PROVE  Decoding'
  <1>1. sent'.items # <<>> /\ Block(sent)'
    BY DEF Stays, Block, TreesFit, AllRuns
  <1> QED BY <1>1 DEF Decoding

\* In the mode TYPEDO the header of the block is read.
LEMMA TypeRead ==
    ASSUME Inside, mode = "TYPEDO"
    PROVE  /\ Readable /\ Len(Wanted) = 1 /\ Item(0) = 2 * sent.kind + sent.last
           /\ at = 1 /\ got = <<>>
  <1>1. /\ Layout(sent) /\ InMode /\ sent.kind \in {0, 1, 2} /\ sent.last \in {0, 1}
    BY InsideBlock
  <1>2. at = 1 /\ got = <<>>
    BY <1>1 DEF InMode
  <1>3. sent.items[1] = HeaderItem(sent) /\ Len(sent.items) \in Nat /\ 1 <= Len(sent.items)
    <2>1. CASE sent.kind = 0
      <3>1. StoredLayout(sent)
        BY <1>1, <2>1 DEF Layout
      <3>2. sent.items = <<HeaderItem(sent), Stored(sent.stored_len)>> /\ Len(sent.items) = 2
        BY <3>1 DEF StoredLayout
      <3> QED BY <3>2
    <2>2. CASE sent.kind # 0
      <3>1. CodedLayout(sent)
        BY <1>1, <2>2 DEF Layout
      <3>2. sent.items[1] = HeaderItem(sent) /\ Len(sent.items) \in Nat \ {0}
        BY <3>1 DEF CodedLayout
      <3> QED BY <3>2
    <2> QED BY <2>1, <2>2
  <1>4. Wanted = <<ValueOf(3)>>
    BY DEF Wanted
  <1>5. Matches(sent.items[1], ValueOf(3)) /\ sent.items[1].val = 2 * sent.kind + sent.last
    BY <1>3, ValueMatches DEF HeaderItem, send_bits
  <1>6. Readable /\ Len(Wanted) = 1
    BY <1>2, <1>3, <1>4, <1>5, ReadsOne
  <1>7. Item(0) = 2 * sent.kind + sent.last
    <2>1. at + 0 = 1
      BY <1>2
    <2> QED BY <1>5, <2>1 DEF Item
  <1> QED BY <1>2, <1>6, <1>7

\* What the header says.
LEMMA HeaderSays ==
    ASSUME NEW kind \in {0, 1, 2}, NEW last \in {0, 1}
    PROVE  (2 * kind + last) % 2 = last /\ (2 * kind + last) \div 2 = kind
  <1>1. kind = 0 \/ kind = 1 \/ kind = 2
    OBVIOUS
  <1>2. last = 0 \/ last = 1
    OBVIOUS
  <1> QED BY <1>1, <1>2

\* TYPEDO enters the mode of the kind of block that was sent.
LEMMA TypeStep ==
    ASSUME Inside, TYPEDO
    PROVE  InMode'
  <1>1. mode = "TYPEDO"
    BY DEF TYPEDO, Reads
  <1>2. /\ Len(Wanted) = 1 /\ Item(0) = 2 * sent.kind + sent.last /\ at = 1 /\ got = <<>>
    BY <1>1, TypeRead
  <1>3. Layout(sent) /\ sent.kind \in {0, 1, 2} /\ sent.last \in {0, 1}
    BY InsideBlock
  <1>4. at' = 2 /\ got' = <<>> /\ sent' = sent
    BY <1>2 DEF TYPEDO, Reads, compressor
  <1>5. Item(0) % 2 = sent.last /\ Item(0) \div 2 = sent.kind
    BY <1>2, <1>3, HeaderSays
  <1>6. tree' = sent.kind /\ last_' = sent.last
    BY <1>5 DEF TYPEDO
  <1>7. TypeKnown'
    BY <1>4, <1>6 DEF TypeKnown
  <1>8. mode' = CASE sent.kind = 0 -> "STORED"
                 [] sent.kind = 1 -> IF FixedTables THEN "LEN" ELSE "lost"
                 [] sent.kind = 2 -> "TABLE"
                 [] OTHER -> "BAD"
    BY <1>5 DEF TYPEDO
  <1>9. CASE sent.kind = 0
    <2>1. mode' = "STORED"
      BY <1>8, <1>9
    <2> QED BY <1>4, <1>7, <1>9, <2>1 DEF InMode, stored_blocks
  <1>10. CASE sent.kind = 2
    <2>1. mode' = "TABLE"
      BY <1>8, <1>10
    <2> QED BY <1>4, <1>7, <1>10, <2>1 DEF InMode, dynamic_trees
  <1>11. CASE sent.kind = 1
    <2>1. mode' = "LEN"
      BY <1>8, <1>11, StaticTrees
    <2>2. SymbolsRead' /\ at' = (RowAt + 1)'
      <3>1. CodedLayout(sent) /\ SymbolsFrom(sent) = 1
        BY <1>3, <1>11 DEF Layout
      <3>2. (RowAt + 1)' = SymbolsFrom(sent) + Place(RowsOf(sent), Len(<<>>) + 1) + 1
        BY <1>4 DEF RowAt, k_
      <3>3. Len(<<>>) + 1 = 1
        OBVIOUS
      <3>4. Place(RowsOf(sent), 1) = 0
        BY <3>1, Places DEF CodedLayout, SymbolsHeld
      <3>5. at' = (RowAt + 1)'
        BY <1>4, <3>1, <3>2, <3>3, <3>4
      <3> DEFINE f == [i \in 1..Len(<<>>) |-> Sent(sent.symbols[i])]
      <3>6. f = <<>> /\ Len(<<>>) = 0 /\ Len(sent.symbols) \in Nat
        <4>1. sent.symbols \in Seq(Symbol)
          BY InsideBlock
        <4> QED BY <4>1
      <3> HIDE DEF f
      <3>7. 0 <= Len(sent.symbols)
        BY <3>6
      <3>8. sent'.kind \in {static_trees, dynamic_trees} /\ Len(got') \in 0..Len(sent'.symbols)
        BY <1>4, <1>11, <3>6, <3>7 DEF static_trees
      <3>9. got' = [i \in 1..Len(got') |-> Sent(sent'.symbols[i])]
        BY <1>4, <3>6 DEF f
      <3>10. SymbolsRead'
        BY <3>8, <3>9 DEF SymbolsRead
      <3> QED BY <3>5, <3>10
    <2> QED BY <1>7, <2>1, <2>2 DEF InMode
  <1> QED BY <1>3, <1>9, <1>10, <1>11

\* The mode that a block ends in is right once all of it was read.
LEMMA EndsBlock ==
    ASSUME mode' = EndOfBlock, AtEnd'
    PROVE  InMode'
  <1>1. mode' = "CHECK" \/ mode' = "idle"
    BY DEF EndOfBlock
  <1> QED BY <1>1 DEF InMode

\* In the mode STORED the length of the block is read.
LEMMA StoredRead ==
    ASSUME Inside, mode = "STORED"
    PROVE  /\ Readable /\ Len(Wanted) = 1 /\ Item(0) = sent.stored_len
           /\ at = 2 /\ Len(sent.items) = 2 /\ sent.kind = 0
  <1>1. Layout(sent) /\ InMode /\ sent.stored_len \in Nat
    BY InsideBlock
  <1>2. at = 2 /\ sent.kind = 0 /\ tree = 0
    BY <1>1 DEF InMode, TypeKnown, stored_blocks
  <1>3. StoredLayout(sent)
    BY <1>1, <1>2 DEF Layout
  <1>4. sent.items[2] = Stored(sent.stored_len) /\ Len(sent.items) = 2
    BY <1>3 DEF StoredLayout
  <1>5. Wanted = <<CodeOf("stored")>>
    BY DEF Wanted
  <1>6. 8 * (sent.stored_len + 4) > 0
    BY <1>1
  <1>7. Matches(sent.items[2], CodeOf("stored")) /\ sent.items[2].val = sent.stored_len
    BY <1>2, <1>4, <1>6 DEF Matches, CodeOf, Stored
  <1>8. Readable /\ Len(Wanted) = 1
    BY <1>2, <1>4, <1>5, <1>7, ReadsOne
  <1>9. Item(0) = sent.stored_len
    <2>1. at + 0 = 2
      BY <1>2
    <2> QED BY <1>7, <2>1 DEF Item
  <1> QED BY <1>2, <1>4, <1>8, <1>9

\* STORED takes all of the stored bytes and ends the block.
LEMMA StoredStep ==
    ASSUME Inside, STORED
    PROVE  InMode'
  <1>1. mode = "STORED"
    BY DEF STORED, Reads
  <1>2. /\ Len(Wanted) = 1 /\ Item(0) = sent.stored_len
        /\ at = 2 /\ Len(sent.items) = 2 /\ sent.kind = 0
    BY <1>1, StoredRead
  <1>3. sent' = sent /\ at' = 3 /\ got' = <<sent.stored_len>> /\ mode' = EndOfBlock
    BY <1>2 DEF STORED, Reads, compressor
  <1>4. AtEnd'
    <2>1. Symbols' = <<sent.stored_len>>
      BY <1>2, <1>3 DEF Symbols, stored_blocks
    <2>2. Len(sent'.items) + 1 = 3
      <3>1. Len(sent'.items) = 2
        BY <1>2, <1>3
      <3>2. 2 + 1 = 3
        OBVIOUS
      <3> QED BY <3>1, <3>2
    <2> QED BY <1>3, <2>1, <2>2 DEF AtEnd
  <1> QED BY <1>3, <1>4, EndsBlock

\* Where the trees of a dynamic block are.
LEMMA DynamicLayout ==
    ASSUME Inside, sent.kind = 2
    PROVE  /\ TreesHeld(sent.items, 1, sent.l, sent.d, sent.bl) /\ CodedLayout(sent)
           /\ TreesOk(sent.l, sent.d, sent.bl)
           /\ max_code(sent.l) \in 256..285 /\ max_code(sent.d) \in 0..29
           /\ max_blindex(sent.bl) \in 3..18
           /\ Len(sent.items) \in Nat /\ 4 + (max_blindex(sent.bl) + 1) <= Len(sent.items)
  <1>1. Layout(sent) /\ Block(sent)
    BY InsideBlock
  <1>2. /\ CodedLayout(sent) /\ TreesHeld(sent.items, 1, sent.l, sent.d, sent.bl)
    BY <1>1 DEF Layout
  <1>3. TreesOk(sent.l, sent.d, sent.bl)
    BY <1>1, TreesOfBlock
  <1>4. max_blindex(sent.bl) \in 3..18
    BY <1>3, MaxBlIndex DEF TreesOk
  <1>5. max_code(sent.d) \in 0..29 /\ max_code(sent.l) \in 256..285
    BY <1>3, TreesSpan DEF HeadFits
  <1> DEFINE n == max_blindex(sent.bl)
             f == FlattenSeq(RowsOfRuns(BothRuns(sent.l, sent.d), sent.bl))
  <1>7. Len(sent.items) \in Nat
    BY <1>2 DEF CodedLayout
  <1>8. Holds(sent.items, 1 + 3 + (n + 1), f)
    BY <1>2 DEF TreesHeld
  <1>9. Len(f) \in Nat
    <2>1. AllShaped(Runs(sent.l)) /\ AllShaped(Runs(sent.d)) /\ BitLengths(sent.bl)
      BY <1>3, RunsShaped DEF TreesOk
    <2>2. AllShaped(BothRuns(sent.l, sent.d))
      BY <2>1, RowsOfBoth DEF BothRuns
    <2>3. RowsOfRuns(BothRuns(sent.l, sent.d), sent.bl) \in Seq(Seq(ItemSet))
      BY <2>1, <2>2, RowsOfRunsAre
    <2>4. f \in Seq(ItemSet)
      BY <2>3, FlattenElements
    <2> HIDE DEF f
    <2> QED BY <2>4
  <1> HIDE DEF f, n
  <1>10. (1 + 3 + (n + 1)) + Len(f) <= Len(sent.items)
    BY <1>8 DEF Holds
  <1>11. 4 + (n + 1) <= Len(sent.items)
    <2>1. PICK a \in Nat, b \in Nat, c \in Nat : a = n /\ b = Len(sent.items) /\ c = Len(f)
      BY <1>4, <1>7, <1>9 DEF n
    <2>2. (1 + 3 + (a + 1)) + c <= b
      BY <1>10, <2>1
    <2>3. 4 + (a + 1) <= b
      BY <2>2
    <2> QED BY <2>1, <2>3
  <1> QED BY <1>2, <1>3, <1>4, <1>5, <1>7, <1>11 DEF n

\* In the mode TABLE the sizes of the three trees are read.
LEMMA TableRead ==
    ASSUME Inside, mode = "TABLE"
    PROVE  /\ Readable /\ Len(Wanted) = 3 /\ at = 2 /\ sent.kind = 2 /\ got = <<>> /\ TypeKnown
           /\ Item(0) = max_code(sent.l) + 1 - 257 /\ Item(1) = max_code(sent.d) + 1 - 1
           /\ Item(2) = (max_blindex(sent.bl) + 1) - 4
  <1>1. InMode
    BY InsideBlock
  <1>2. at = 2 /\ sent.kind = 2 /\ got = <<>> /\ TypeKnown
    BY <1>1 DEF InMode, dynamic_trees
  <1> DEFINE l == sent.l
             d == sent.d
             bl == sent.bl
             s == sent.items
  <1>3. /\ TreesHeld(s, 1, l, d, bl) /\ Len(s) \in Nat /\ 4 + (max_blindex(bl) + 1) <= Len(s)
        /\ max_blindex(bl) \in 3..18
    BY <1>2, DynamicLayout
  <1> HIDE DEF l, d, bl, s
  <1>4. /\ s[2] = send_bits(max_code(l) + 1 - 257, 5) /\ s[3] = send_bits(max_code(d) + 1 - 1, 5)
        /\ s[4] = send_bits((max_blindex(bl) + 1) - 4, 4)
    <2>1. 1 + 1 = 2 /\ 1 + 2 = 3 /\ 1 + 3 = 4
      OBVIOUS
    <2> QED BY <1>3, <2>1 DEF TreesHeld
  <1>5. Wanted = <<ValueOf(5), ValueOf(5), ValueOf(4)>>
    BY DEF Wanted
  <1>6. DOMAIN Wanted = 1..3 /\ Len(Wanted) = 3 /\ Wanted[1] = ValueOf(5) /\ Wanted[2] = ValueOf(5)
        /\ Wanted[3] = ValueOf(4)
    BY <1>5
  <1> HIDE DEF Wanted
  <1>7. \A i \in 1..3 : Matches(s[at + i - 1], Wanted[i])
    <2> TAKE i \in 1..3
    <2>1. i = 1 \/ i = 2 \/ i = 3
      OBVIOUS
    <2>2. 2 + 1 - 1 = 2 /\ 2 + 2 - 1 = 3 /\ 2 + 3 - 1 = 4
      OBVIOUS
    <2> QED BY <1>2, <1>4, <1>6, <2>1, <2>2, ValueMatches
  <1>8. (at + 3) - 1 <= Len(s)
    BY <1>2, <1>3
  <1>9. Readable
    BY <1>2, <1>3, <1>6, <1>7, <1>8, ReadsMany DEF s
  <1>10. Item(0) = s[2].val /\ Item(1) = s[3].val /\ Item(2) = s[4].val
    <2>1. at + 0 = 2 /\ at + 1 = 3 /\ at + 2 = 4
      BY <1>2
    <2> QED BY <2>1 DEF Item, s
  <1>11. /\ Item(0) = max_code(l) + 1 - 257 /\ Item(1) = max_code(d) + 1 - 1
         /\ Item(2) = (max_blindex(bl) + 1) - 4
    BY <1>4, <1>10 DEF send_bits
  <1> QED BY <1>2, <1>6, <1>9, <1>11 DEF l, d, bl

\* TABLE takes the sizes that were sent.
LEMMA TableStep ==
    ASSUME Inside, TABLE
    PROVE  InMode'
  <1>1. mode = "TABLE"
    BY DEF TABLE, Reads
  <1>2. /\ Len(Wanted) = 3 /\ at = 2 /\ sent.kind = 2 /\ got = <<>> /\ TypeKnown
        /\ Item(0) = max_code(sent.l) + 1 - 257 /\ Item(1) = max_code(sent.d) + 1 - 1
        /\ Item(2) = (max_blindex(sent.bl) + 1) - 4
    BY <1>1, TableRead
  <1>3. PICK x \in 256..285, y \in 0..29, z \in 3..18 :
           x = max_code(sent.l) /\ y = max_code(sent.d) /\ z = max_blindex(sent.bl)
    BY <1>2, DynamicLayout
  <1>4. /\ sent' = sent /\ at' = 5 /\ got' = <<>> /\ tree' = tree /\ last_' = last_
        /\ nlen_' = Item(0) + 257 /\ ndist_' = Item(1) + 1 /\ ncode_' = Item(2) + 4
        /\ mode' = IF nlen_' > 286 \/ ndist_' > 30 THEN "BAD" ELSE "LENLENS"
    BY <1>2 DEF TABLE, Reads, compressor
  <1>5. Item(0) = x + 1 - 257 /\ Item(1) = y + 1 - 1 /\ Item(2) = (z + 1) - 4
    BY <1>2, <1>3
  <1>6. (x + 1 - 257) + 257 = x + 1 /\ (y + 1 - 1) + 1 = y + 1 /\ ((z + 1) - 4) + 4 = z + 1
    OBVIOUS
  <1>7. nlen_' = x + 1 /\ ndist_' = y + 1 /\ ncode_' = z + 1
    BY <1>4, <1>5, <1>6
  <1>8. ~(x + 1 > 286) /\ ~(y + 1 > 30)
    OBVIOUS
  <1>9. mode' = "LENLENS"
    BY <1>4, <1>7, <1>8
  <1>10. TypeKnown'
    BY <1>2, <1>4 DEF TypeKnown
  <1> QED BY <1>2, <1>3, <1>4, <1>7, <1>9, <1>10 DEF InMode, dynamic_trees

\* The lengths that are sent for the two trees, and the runs that they are sent in.
LEMMA DynamicRuns ==
    ASSUME NEW b, Block(b), NEW x \in 256..285, NEW y \in 0..29,
           x = max_code(b.l), y = max_code(b.d)
    PROVE  /\ RunsRead(BothRuns(b.l, b.d), LensOf(b), (x + 1) + (y + 1))
           /\ Listed(b.l, x, LensOf(b), 0) /\ Listed(b.d, y, LensOf(b), x + 1)
           /\ AllShaped(BothRuns(b.l, b.d)) /\ BitLengths(b.bl)
           /\ 1 \in DOMAIN BothRuns(b.l, b.d)
  <1> DEFINE l == b.l
             d == b.d
             f == LensOf(b)
             rs == BothRuns(l, d)
  <1>1. Lengths(l, 285) /\ Lengths(d, 29) /\ BitLengths(b.bl)
    BY TreesOfBlock DEF TreesOk
  <1> HIDE DEF l, d
  <1>2. RunsCover(Runs(l), l, x, 0) /\ RunsCover(Runs(d), d, y, 0)
    BY <1>1, RunsAre DEF l, d
  <1>3. f = [n \in 1..x + 1 + y + 1 |-> IF n <= x + 1 THEN l[n - 1] ELSE d[n - 1 - (x + 1)]]
    BY DEF LensOf, l, d
  <1> HIDE DEF f
  <1>4. Listed(l, x, f, 0)
    <2>1. ASSUME NEW n \in 0..x
          PROVE  f[0 + (n + 1)] = l[n]
      <3>1. 0 + (n + 1) \in 1..x + 1 + y + 1 /\ 0 + (n + 1) <= x + 1 /\ (0 + (n + 1)) - 1 = n
        OBVIOUS
      <3> DEFINE m == 0 + (n + 1)
      <3> HIDE DEF m
      <3>2. f[m] = l[m - 1]
        BY <1>3, <3>1 DEF m
      <3> QED BY <3>1, <3>2 DEF m
    <2> QED BY <2>1 DEF Listed
  <1>5. Listed(d, y, f, x + 1)
    <2>1. ASSUME NEW n \in 0..y
          PROVE  f[(x + 1) + (n + 1)] = d[n]
      <3>1. /\ (x + 1) + (n + 1) \in 1..x + 1 + y + 1 /\ ~((x + 1) + (n + 1) <= x + 1)
            /\ ((x + 1) + (n + 1)) - 1 - (x + 1) = n
        OBVIOUS
      <3> DEFINE m == (x + 1) + (n + 1)
      <3> HIDE DEF m
      <3>2. f[m] = d[m - 1 - (x + 1)]
        BY <1>3, <3>1 DEF m
      <3> QED BY <3>1, <3>2 DEF m
    <2> QED BY <2>1 DEF Listed
  <1>6. RunsRead(rs, f, (x + 1) + (y + 1))
    <2>1. x \in Nat /\ y \in Nat
      OBVIOUS
    <2> QED BY <1>2, <1>4, <1>5, <2>1, TwoTreesRead DEF BothRuns
  <1>7. AllShaped(rs)
    <2>1. AllShaped(Runs(l)) /\ AllShaped(Runs(d))
      BY <1>1, RunsShaped
    <2> QED BY <1>1, <2>1, RowsOfBoth DEF BothRuns
  <1> HIDE DEF rs
  <1>8. 1 \in DOMAIN rs
    <2>1. /\ DOMAIN rs = 1..Len(rs) /\ Len(rs) \in Nat /\ LensBefore(rs, 1) = 0
          /\ LensBefore(rs, Len(rs) + 1) = (x + 1) + (y + 1)
      BY <1>6 DEF RunsRead
    <2>2. Len(rs) # 0
      <3>1. (x + 1) + (y + 1) # 0 /\ 0 + 1 = 1
        OBVIOUS
      <3>2. Len(rs) = 0 => (x + 1) + (y + 1) = 0
        BY <2>1, <3>1
      <3> QED BY <3>1, <3>2
    <2> QED BY <2>1, <2>2
  <1> QED BY <1>1, <1>4, <1>5, <1>6, <1>7, <1>8 DEF l, d, f, rs

\* In the mode LENLENS the lengths of the code for lengths are read, in the order of
\* bl_order.
LEMMA LenLensRead ==
    ASSUME Inside, mode = "LENLENS", NEW z \in 3..18, z = max_blindex(sent.bl)
    PROVE  /\ Readable /\ Len(Wanted) = z + 1 /\ at = 5 /\ sent.kind = 2 /\ got = <<>> /\ TypeKnown
           /\ nlen_ = max_code(sent.l) + 1 /\ ndist_ = max_code(sent.d) + 1 /\ ncode_ = z + 1
           /\ \A i \in 1..z + 1 : Item(i - 1) = sent.bl[order[i]]
  <1>1. InMode
    BY InsideBlock
  <1>2. /\ at = 5 /\ sent.kind = 2 /\ got = <<>> /\ TypeKnown
        /\ nlen_ = max_code(sent.l) + 1 /\ ndist_ = max_code(sent.d) + 1 /\ ncode_ = z + 1
    BY <1>1 DEF InMode, dynamic_trees
  <1> DEFINE s == sent.items
             bl == sent.bl
  <1>3. /\ TreesHeld(s, 1, sent.l, sent.d, bl) /\ Len(s) \in Nat /\ 4 + (z + 1) <= Len(s)
    BY <1>2, DynamicLayout
  <1>4. \A i \in 1..z + 1 : s[1 + 3 + i] = send_bits(bl[bl_order[i]], 3)
    BY <1>3 DEF TreesHeld
  <1> HIDE DEF s, bl
  <1>5. Wanted = [i \in 1..z + 1 |-> ValueOf(3)]
    BY <1>2 DEF Wanted
  <1>6. DOMAIN Wanted = 1..z + 1 /\ \A i \in 1..z + 1 : Wanted[i] = ValueOf(3)
    BY <1>5
  <1>7. Len(Wanted) = z + 1
    <2>1. Wanted \in Seq({ValueOf(3)}) /\ z + 1 \in Nat
      BY <1>5
    <2> QED BY <1>5, <2>1
  <1> HIDE DEF Wanted
  <1>8. ASSUME NEW i \in 1..z + 1
        PROVE  /\ at + i - 1 = 1 + 3 + i /\ at + (i - 1) = 1 + 3 + i
               /\ Matches(s[at + i - 1], Wanted[i]) /\ Item(i - 1) = bl[order[i]]
    <2>1. at + i - 1 = 1 + 3 + i /\ at + (i - 1) = 1 + 3 + i
      BY <1>2
    <2>2. s[1 + 3 + i] = send_bits(bl[order[i]], 3)
      BY <1>4, OrderIs
    <2>3. Matches(s[at + i - 1], Wanted[i])
      BY <1>6, <2>1, <2>2, ValueMatches
    <2>4. Item(i - 1) = s[1 + 3 + i].val
      BY <2>1 DEF Item, s
    <2>5. Item(i - 1) = bl[order[i]]
      BY <2>2, <2>4 DEF send_bits
    <2> QED BY <2>1, <2>3, <2>5
  <1>9. (at + (z + 1)) - 1 <= Len(s)
    <2>1. (5 + (z + 1)) - 1 = 4 + (z + 1)
      OBVIOUS
    <2> QED BY <1>2, <1>3, <2>1
  <1>10. Readable
    <2>0. at = 5
      BY <1>2, Zenon
    <2>1. z + 1 \in Nat /\ z + 1 # 0 /\ at \in Nat
      BY <2>0
    <2> QED BY <1>3, <1>6, <1>7, <1>8, <1>9, <2>1, ReadsMany DEF s
  <1> QED BY <1>2, <1>7, <1>8, <1>10 DEF s, bl

\* LENLENS builds the code for lengths that was sent with.
LEMMA LenLensStep ==
    ASSUME Inside, LENLENS
    PROVE  InMode'
  <1>1. mode = "LENLENS"
    BY DEF LENLENS, Reads
  <1>2. sent.kind = 2
    <2>1. InMode
      BY InsideBlock
    <2> QED BY <1>1, <2>1 DEF InMode, dynamic_trees
  <1>3. Block(sent)
    BY InsideBlock
  <1>4. PICK x \in 256..285, y \in 0..29, z \in 3..18 :
           x = max_code(sent.l) /\ y = max_code(sent.d) /\ z = max_blindex(sent.bl)
    BY <1>2, DynamicLayout
  <1>5. /\ Len(Wanted) = z + 1 /\ at = 5 /\ got = <<>> /\ TypeKnown
        /\ nlen_ = x + 1 /\ ndist_ = y + 1 /\ ncode_ = z + 1
        /\ \A i \in 1..z + 1 : Item(i - 1) = sent.bl[order[i]]
    BY <1>1, <1>4, LenLensRead, ZenonT(60)
  <1> DEFINE bl == sent.bl
             lens == [c \in 0..18 |->
                        IF \E i \in 1..ncode_ : order[i] = c
                        THEN Item((CHOOSE i \in 1..ncode_ : order[i] = c) - 1) ELSE 0]
  <1>6. bl \in [0..18 -> 0..max_bl_bits] /\ \A i \in 0..18 : i > z => bl[order[i + 1]] = 0
    <2>1. BitLengths(bl)
      BY <1>3, TreesOfBlock DEF TreesOk
    <2>2. \A i \in 0..18 : i > z => bl[bl_order[i + 1]] = 0
      BY <1>4, <2>1, MaxBlIndex
    <2> QED BY <2>1, <2>2, OrderIs DEF BitLengths, bl_codes
  <1>7. lens = bl
    <2>1. ASSUME NEW c \in 0..18
          PROVE  lens[c] = bl[c]
      <3>1. CASE \E i \in 1..ncode_ : order[i] = c
        <4> DEFINE j == CHOOSE i \in 1..ncode_ : order[i] = c
        <4>1. j \in 1..ncode_ /\ order[j] = c
          BY <3>1
        <4>2. lens[c] = Item(j - 1)
          BY <3>1
        <4> HIDE DEF j, lens
        <4> QED BY <1>5, <4>1, <4>2
      <3>2. CASE ~\E i \in 1..ncode_ : order[i] = c
        <4>1. PICK i \in 1..19 : order[i] = c
          BY OrderIs
        <4>2. i \notin 1..z + 1
          BY <1>5, <3>2, <4>1
        <4>3. i - 1 \in 0..18 /\ i - 1 > z /\ (i - 1) + 1 = i
          BY <4>2
        <4>4. bl[c] = 0
          BY <1>6, <4>1, <4>3
        <4>5. lens[c] = 0
          BY <3>2
        <4> QED BY <4>4, <4>5
      <3> QED BY <3>1, <3>2
    <2>2. DOMAIN lens = 0..18 /\ lens = [c \in 0..18 |-> lens[c]]
      OBVIOUS
    <2> HIDE DEF lens
    <2>3. bl = [c \in 0..18 |-> bl[c]]
      BY <1>6
    <2> HIDE DEF bl
    <2> QED BY <2>1, <2>2, <2>3
  <1>8. /\ mode' = IF lens = bl THEN "CODELENS" ELSE "lost"
        /\ lens_' = <<>> /\ at' = at + Len(Wanted) /\ sent' = sent /\ got' = got
        /\ tree' = tree /\ last_' = last_ /\ nlen_' = nlen_ /\ ndist_' = ndist_
    BY DEF LENLENS, Reads, compressor
  <1> HIDE DEF lens, bl
  <1>9. mode' = "CODELENS" /\ TypeKnown' /\ got' = <<>>
    BY <1>5, <1>7, <1>8 DEF TypeKnown
  <1>10. at' = 5 + (z + 1)
    BY <1>5, <1>8
  <1> DEFINE rs == BothRuns(sent.l, sent.d)
  <1>11. /\ RunsRead(rs, LensOf(sent), (x + 1) + (y + 1)) /\ 1 \in DOMAIN rs
         /\ AllShaped(rs) /\ BitLengths(sent.bl)
    BY <1>3, <1>4, DynamicRuns, ZenonT(60)
  <1>12. Place(RunRows(sent), 1) = 0
    <2>1. RowsOfRuns(rs, sent.bl) \in Seq(Seq(ItemSet))
      BY <1>11, RowsOfRunsAre
    <2>2. ElementsBefore(RowsOfRuns(rs, sent.bl), 1) = 0
      BY <2>1, ElementsBeforeSteps DEF PartAfterPart
    <2> QED BY <2>2, Places
  <1>13. LensRead'
    <2>1. HeadLen(sent) = 4 + z + 1
      BY <1>4 DEF HeadLen
    <2>2. at' = HeadLen(sent) + Place(RunRows(sent), 1) + 0 + 1
      BY <1>10, <1>12, <2>1
    <2>3. Len(lens_') = LensBefore(AllRuns(sent), 1) + 0
      <3>1. LensBefore(rs, 1) = 0
        BY <1>11 DEF RunsRead
      <3>2. Len(<<>>) = 0 + 0
        OBVIOUS
      <3> QED BY <1>8, <3>1, <3>2, Places
    <2>4. 1 \in DOMAIN AllRuns(sent) /\ 0 \in 0..6 /\ StopsIn(AllRuns(sent)[1], 0)
      BY <1>11, Places DEF StopsIn
    <2>5. lens_' = [n \in 1..Len(lens_') |-> LensOf(sent)[n]]
      <3> DEFINE f == [n \in 1..Len(<<>>) |-> LensOf(sent)[n]]
      <3>1. f = <<>>
        OBVIOUS
      <3> HIDE DEF f
      <3> QED BY <1>8, <3>1 DEF f
    <2>6. \E k \in DOMAIN AllRuns(sent) : \E i \in 0..6 :
             /\ StopsIn(AllRuns(sent)[k], i)
             /\ at' = HeadLen(sent) + Place(RunRows(sent), k) + i + 1
             /\ Len(lens_') = LensBefore(AllRuns(sent), k) + i
      BY <2>2, <2>3, <2>4
    <2>7. sent.kind = dynamic_trees /\ nlen_' = max_code(sent.l) + 1 /\ ndist_' = max_code(sent.d) + 1
      BY <1>2, <1>4, <1>5, <1>8 DEF dynamic_trees
    <2> QED BY <1>8, <2>5, <2>6, <2>7 DEF LensRead
  <1> QED BY <1>9, <1>13 DEF InMode

-----------------------------------------------------------------------------
(* The lengths of the two trees *)

\* What CODELENS reads: one code, or one and how often.
RunOf(v, x, last) ==
    CASE v < 16 -> [i \in 1..1 |-> v]
      [] v = 16 -> [i \in 1..3 + x |-> last]
      [] v = 17 -> [i \in 1..3 + x |-> 0]
      [] OTHER  -> [i \in 1..11 + x |-> 0]
ReadRun == RunOf(Item(0), Item(1), Last(lens_))

\* The lengths that each code for lengths stands for.
LEMMA RunsOf ==
    ASSUME NEW x, NEW last
    PROVE  /\ \A v \in 0..15 : RunOf(v, x, last) = [i \in 1..1 |-> v]
           /\ RunOf(16, x, last) = [i \in 1..3 + x |-> last]
           /\ RunOf(17, x, last) = [i \in 1..3 + x |-> 0]
           /\ RunOf(18, x, last) = [i \in 1..11 + x |-> 0]
  BY DEF RunOf

\* A code of 0 to 15 is read as one length.
LEMMA ReadsLength ==
    ASSUME mode = "CODELENS", tree = 2, at \in Nat, Len(sent.items) \in Nat, at <= Len(sent.items),
           NEW v \in 0..15, NEW bl, bl[v] \in Nat \ {0}, sent.items[at] = LengthCode(v, bl)
    PROVE  /\ Readable /\ Len(Wanted) = 1 /\ Item(0) = v
           /\ ReadRun = [i \in 1..1 |-> v]
  <1>1. Item(0) = v
    <2>1. at + 0 = at
      OBVIOUS
    <2>2. Item(0) = sent.items[at].val
      BY <2>1 DEF Item
    <2> QED BY <2>2 DEF LengthCode, send_code
  <1>2. RepeatBits(v) = <<>>
    BY SMTT(60) DEF RepeatBits
  <1>3. <<CodeOf("length")>> \o <<>> = <<CodeOf("length")>>
    OBVIOUS
  <1>4. Wanted = <<CodeOf("length")>>
    BY <1>1, <1>2, <1>3 DEF Wanted
  <1>5. Matches(sent.items[at], CodeOf("length"))
    BY CodeMatches DEF LengthCode, dynamic_trees
  <1>6. Readable /\ Len(Wanted) = 1
    BY <1>4, <1>5, ReadsOne
  <1>7. ReadRun = [i \in 1..1 |-> v]
    BY <1>1, RunsOf DEF ReadRun
  <1> QED BY <1>1, <1>6, <1>7

\* The bits of the count that follows each code for a repetition.
CountBits(v) == IF v = 16 THEN 2 ELSE IF v = 17 THEN 3 ELSE 7

\* A code of 16 to 18 is read with its count as a repetition.
LEMMA ReadsRepeat ==
    ASSUME mode = "CODELENS", tree = 2, at \in Nat, Len(sent.items) \in Nat, at + 1 <= Len(sent.items),
           NEW v \in {16, 17, 18}, NEW bl, bl[v] \in Nat \ {0}, sent.items[at] = LengthCode(v, bl),
           NEW x, sent.items[at + 1] = send_bits(x, CountBits(v))
    PROVE  /\ Readable /\ Len(Wanted) = 2 /\ Item(0) = v
           /\ v = 16 => ReadRun = [i \in 1..3 + x |-> Last(lens_)]
           /\ v = 17 => ReadRun = [i \in 1..3 + x |-> 0]
           /\ v = 18 => ReadRun = [i \in 1..11 + x |-> 0]
  <1>1. Item(0) = v
    <2>1. at + 0 = at
      OBVIOUS
    <2>2. Item(0) = sent.items[at].val
      BY <2>1 DEF Item
    <2> QED BY <2>2 DEF LengthCode, send_code
  <1>2. Item(1) = x
    BY DEF Item, send_bits
  <1> DEFINE w == ValueOf(CountBits(v))
             c == CodeOf("length")
  <1>3. RepeatBits(v) = <<w>>
    BY DEF RepeatBits, CountBits
  <1> HIDE DEF w, c
  <1>4. <<c>> \o <<w>> = <<c, w>>
    <2>1. c \in {c, w} /\ w \in {c, w}
      OBVIOUS
    <2> QED BY <2>1, OneAndOne
  <1>5. Wanted = <<c, w>>
    BY <1>1, <1>3, <1>4 DEF Wanted, c
  <1>6. Len(Wanted) = 2 /\ DOMAIN Wanted = 1..2 /\ Wanted[1] = c /\ Wanted[2] = w
    BY <1>5
  <1> HIDE DEF Wanted
  <1>7. Matches(sent.items[at], c) /\ Matches(sent.items[at + 1], w)
    <2>1. Matches(sent.items[at], c)
      BY CodeMatches DEF LengthCode, dynamic_trees, c
    <2>2. Matches(sent.items[at + 1], w)
      BY ValueMatches DEF w
    <2> QED BY <2>1, <2>2
  <1>8. \A i \in 1..2 : Matches(sent.items[at + i - 1], Wanted[i])
    <2> TAKE i \in 1..2
    <2>1. i = 1 \/ i = 2
      OBVIOUS
    <2>2. at + 1 - 1 = at /\ at + 2 - 1 = at + 1
      OBVIOUS
    <2> QED BY <1>6, <1>7, <2>1, <2>2
  <1>9. Readable
    <2>1. (at + 2) - 1 <= Len(sent.items)
      OBVIOUS
    <2> QED BY <1>6, <1>8, <2>1, ReadsMany
  <1>10. v = 16 => ReadRun = [i \in 1..3 + x |-> Last(lens_)]
    BY <1>1, <1>2, RunsOf DEF ReadRun
  <1>11. v = 17 => ReadRun = [i \in 1..3 + x |-> 0]
    BY <1>1, <1>2, RunsOf DEF ReadRun
  <1>12. v = 18 => ReadRun = [i \in 1..11 + x |-> 0]
    BY <1>1, <1>2, RunsOf DEF ReadRun
  <1> QED BY <1>1, <1>6, <1>9, <1>10, <1>11, <1>12

\* Codes that a run is sent with have a length.
LEMMA CodesOfRun ==
    ASSUME NEW r, RunShape(r)
    PROVE  /\ Single(r) \/ NewAgain(r) => Adds(r, r.len) # 0 /\ r.len \in 0..15
           /\ Again(r) \/ NewAgain(r) => Adds(r, 16) # 0
           /\ Zeros(r) /\ r.count <= 10 => Adds(r, 17) # 0
           /\ Zeros(r) /\ ~(r.count <= 10) => Adds(r, 18) # 0
           /\ Single(r) => r.count \in 1..3
           /\ ~Single(r) => r.count >= 3
           /\ NewAgain(r) => r.count >= 4
  <1>1. PICK n \in 1..138, l \in 0..15, m \in 3..4 : n = r.count /\ l = r.len /\ m = r.min
    BY RunFields DEF max_bits
  <1>2. Single(r) <=> n < m
    BY <1>1 DEF Single
  <1>3. NewAgain(r) => m = 4
    BY <1>1 DEF RunShape, NewAgain
  <1>4. Single(r) => Adds(r, l) = n
    BY <1>1 DEF Single, Adds
  <1>5. NewAgain(r) => Adds(r, l) = 1 /\ Adds(r, 16) = 1
    BY <1>1 DEF NewAgain, Single, Adds, rep_3_6
  <1>6. Again(r) => Adds(r, 16) = 1
    BY <1>1 DEF Again, Single, Adds, rep_3_6
  <1>7. Zeros(r) => Adds(r, IF n <= 10 THEN 17 ELSE 18) = 1
    BY <1>1 DEF Zeros, Single, Adds, repz_3_10, repz
  <1>8. /\ n # 0 /\ (n < m => n \in 1..3) /\ (~(n < m) => n >= 3)
        /\ (m = 4 /\ ~(n < m) => n >= 4)
    OBVIOUS
  <1>9. NewAgain(r) => ~Single(r)
    BY DEF NewAgain
  <1> QED BY <1>1, <1>2, <1>3, <1>4, <1>5, <1>6, <1>7, <1>8, <1>9

\* A place in the runs that are sent, and the lengths that were read before it.
RunItems(b) == RowsOfRuns(BothRuns(b.l, b.d), b.bl)
AtRun(b, k, i, a, n) ==
    /\ k \in 1..Len(BothRuns(b.l, b.d)) /\ i \in 0..6 /\ StopsIn(BothRuns(b.l, b.d)[k], i)
    /\ a = HeadLen(b) + ElementsBefore(RunItems(b), k) + i + 1
    /\ n = LensBefore(BothRuns(b.l, b.d), k) + i

\* q lengths more of a run are read with w items, and the reader stops in it or is at
\* its end.
Advances(r, row, i, q, w) ==
    /\ q \in Nat /\ q >= 1 /\ w \in Nat
    /\ \/ i + q < r.count /\ w = q /\ i + q \in 0..6 /\ StopsIn(r, i + q)
       \/ i + q = r.count /\ i + w = Len(row)

\* The next place.
LEMMA RunNext ==
    ASSUME NEW b, Block(b), b.kind = 2, NEW total \in Nat, NEW rs, rs = BothRuns(b.l, b.d),
           RunsRead(rs, LensOf(b), total), AllShaped(rs), BitLengths(b.bl),
           NEW k, NEW i, NEW a, NEW n, AtRun(b, k, i, a, n),
           NEW q, NEW w, Advances(rs[k], RunItems(b)[k], i, q, w)
    PROVE  /\ n \in Nat /\ a \in Nat /\ n + q <= total
           /\ n + q < total => \E k2, i2 : AtRun(b, k2, i2, a + w, n + q)
           /\ n + q = total => a + w = SymbolsFrom(b) + 1
  <1> DEFINE rows == RunItems(b)
             f == FlattenSeq(rows)
  <1>1. /\ rows \in Seq(Seq(ItemSet)) /\ Len(rows) = Len(rs)
    BY RowsOfRunsAre DEF RunItems
  <1>2. PartAfterPart(rows) /\ PartsInPlace(rows)
    BY <1>1, ElementsBeforeSteps, FlattenElements
  <1>3. PICK N \in Nat : N = Len(rs) /\ N = Len(rows)
    BY <1>1 DEF AllShaped
  <1>4. k \in 1..N /\ i \in 0..6
    BY <1>3 DEF AtRun
  <1>5. PICK h \in Nat : h = HeadLen(b)
    <2>1. max_blindex(b.bl) \in 3..18
      BY MaxBlIndex
    <2>2. PICK z \in 3..18 : z = max_blindex(b.bl)
      BY <2>1
    <2>3. HeadLen(b) = 4 + z + 1 /\ 4 + z + 1 \in Nat
      BY <2>2 DEF HeadLen
    <2> QED BY <2>3
  <1>6. SymbolsFrom(b) = h + ElementsBefore(rows, N + 1)
    <2>1. PICK z \in 3..18 : z = max_blindex(b.bl)
      BY MaxBlIndex
    <2>2. /\ SymbolsFrom(b) = 1 + Len(TreeItems(b))
          /\ Len(TreeItems(b)) = 3 + (z + 1) + Len(f)
      BY <2>1, DynamicBlock DEF RunItems
    <2>3. PICK e \in Nat : e = ElementsBefore(rows, N + 1) /\ e = Len(f)
      BY <1>2, <1>3 DEF PartAfterPart, PartsInPlace
    <2>4. h = 4 + z + 1
      BY <1>5, <2>1 DEF HeadLen
    <2> HIDE DEF f, rows
    <2>5. 1 + (3 + (z + 1) + e) = (4 + z + 1) + e
      OBVIOUS
    <2> QED BY <2>2, <2>3, <2>4, <2>5
  <1>7. PICK e0 \in Nat, c \in Nat : /\ e0 = ElementsBefore(rows, k) /\ c = Len(rows[k])
                                      /\ ElementsBefore(rows, k + 1) = e0 + c
    <2>1. rows[k] \in Seq(ItemSet)
      BY <1>1, <1>3, <1>4
    <2>2. Len(rows[k]) \in Nat
      BY <2>1
    <2>3. /\ ElementsBefore(rows, k) \in Nat
          /\ ElementsBefore(rows, k + 1) = ElementsBefore(rows, k) + Len(rows[k])
      BY <1>2, <1>3, <1>4 DEF PartAfterPart
    <2> QED BY <2>2, <2>3
  <1>8. PICK l0 \in Nat, t \in Nat : /\ l0 = LensBefore(rs, k) /\ t = rs[k].count
                                      /\ LensBefore(rs, k + 1) = l0 + t /\ l0 + t <= total
    <2>1. RunShape(rs[k]) /\ RunReads(rs[k], LensOf(b), total, LensBefore(rs, k))
          /\ LensBefore(rs, k + 1) = LensBefore(rs, k) + rs[k].count
      BY <1>3, <1>4 DEF RunsRead
    <2>2. rs[k].count \in Nat
      BY <2>1, RunFields
    <2> QED BY <2>1, <2>2 DEF RunReads
  <1> HIDE DEF rows, f
  <1>9. n = l0 + i /\ a = h + e0 + i + 1
    BY <1>5, <1>7, <1>8 DEF AtRun, rows
  <1>10. n \in Nat /\ a \in Nat
    BY <1>4, <1>9
  <1>11. q \in Nat /\ q >= 1 /\ w \in Nat
    BY DEF Advances
  <1>12. CASE i + q < t /\ w = q /\ i + q \in 0..6 /\ StopsIn(rs[k], i + q)
    <2>1. n + q = l0 + (i + q) /\ n + q < total
      BY <1>4, <1>8, <1>9, <1>11, <1>12
    <2>2. a + w = h + e0 + (i + q) + 1
      BY <1>4, <1>9, <1>11, <1>12
    <2>3. AtRun(b, k, i + q, a + w, n + q)
      BY <1>3, <1>4, <1>5, <1>7, <1>8, <1>12, <2>1, <2>2 DEF AtRun, rows
    <2>4. n + q <= total /\ n + q # total
      BY <1>10, <1>11, <2>1
    <2> QED BY <1>10, <2>3, <2>4
  <1>13. CASE i + q = t /\ i + w = c
    <2>1. n + q = l0 + t /\ n + q <= total
      BY <1>4, <1>8, <1>9, <1>11, <1>13
    <2>2. a + w = h + (e0 + c) + 1
      BY <1>4, <1>9, <1>11, <1>13
    <2>3. ASSUME n + q < total
          PROVE  \E k2, i2 : AtRun(b, k2, i2, a + w, n + q)
      <3>1. k # N
        <4> SUFFICES ASSUME k = N PROVE FALSE
          OBVIOUS
        <4>1. LensBefore(rs, N + 1) = total
          BY <1>3 DEF RunsRead
        <4>2. l0 + t = total
          BY <1>8, <4>1
        <4> QED BY <2>1, <2>3, <4>2
      <3>2. k + 1 \in 1..N
        BY <1>4, <3>1
      <3>3. StopsIn(rs[k + 1], 0) /\ 0 \in 0..6
        BY DEF StopsIn
      <3>4. a + w = h + (e0 + c) + 0 + 1 /\ n + q = (l0 + t) + 0
        BY <2>1, <2>2
      <3>5. AtRun(b, k + 1, 0, a + w, n + q)
        BY <1>3, <1>5, <1>7, <1>8, <3>2, <3>3, <3>4 DEF AtRun, rows
      <3> QED BY <3>5
    <2>4. ASSUME n + q = total
          PROVE  a + w = SymbolsFrom(b) + 1
      <3>1. k = N
        <4> SUFFICES ASSUME k # N PROVE FALSE
          OBVIOUS
        <4>1. k + 1 \in 1..N
          BY <1>4
        <4>2. /\ RunShape(rs[k + 1])
              /\ RunReads(rs[k + 1], LensOf(b), total, LensBefore(rs, k + 1))
          BY <1>3, <4>1 DEF RunsRead
        <4>3. PICK u \in 1..138 : u = rs[k + 1].count
          BY <4>2, RunFields
        <4>4. (l0 + t) + u <= total
          BY <1>8, <4>2, <4>3 DEF RunReads
        <4>5. l0 + t = total
          BY <2>1, <2>4
        <4> QED BY <4>4, <4>5
      <3> QED BY <1>6, <1>7, <2>2, <3>1
    <2> QED BY <1>10, <2>1, <2>3, <2>4
  <1> QED BY <1>7, <1>8, <1>12, <1>13 DEF Advances, rows

\* What a run is sent as, an item at a time, and where the reader can stop in it.
RowElements(r, row, bl) ==
    /\ Len(row) \in Nat \ {0}
    /\ Single(r) => Len(row) = r.count /\ \A j \in 1..r.count : row[j] = LengthCode(r.len, bl)
    /\ Again(r) => Len(row) = 2 /\ row[1] = LengthCode(16, bl) /\ row[2] = send_bits(r.count - 3, 2)
    /\ NewAgain(r) => /\ Len(row) = 3 /\ row[1] = LengthCode(r.len, bl)
                      /\ row[2] = LengthCode(16, bl) /\ row[3] = send_bits(r.count - 4, 2)
    /\ Zeros(r) /\ r.count <= 10 =>
          Len(row) = 2 /\ row[1] = LengthCode(17, bl) /\ row[2] = send_bits(r.count - 3, 3)
    /\ Zeros(r) /\ ~(r.count <= 10) =>
          Len(row) = 2 /\ row[1] = LengthCode(18, bl) /\ row[2] = send_bits(r.count - 11, 7)

\* The elements of the items of one run, one by one.
LEMMA RowElementsAre ==
    ASSUME NEW r, RunShape(r), NEW row, NEW bl, RowIs(r, row, bl)
    PROVE  RowElements(r, row, bl)
  <1>1. PICK n \in 1..138 : n = r.count
    BY RunFields
  <1>2. Single(r) \/ Again(r) \/ NewAgain(r) \/ Zeros(r)
    BY DEF Single, Again, NewAgain, Zeros
  <1>3. /\ Single(r) => ~Again(r) /\ ~NewAgain(r) /\ ~Zeros(r)
        /\ Again(r) => ~NewAgain(r) /\ ~Zeros(r)
        /\ NewAgain(r) => ~Zeros(r)
    BY DEF Single, Again, NewAgain, Zeros
  <1>4. CASE Single(r)
    <2>1. row = [j \in 1..n |-> LengthCode(r.len, bl)]
      BY <1>1, <1>4 DEF RowIs
    <2>2. \A j \in 1..n : row[j] = LengthCode(r.len, bl)
      BY <2>1
    <2>3. n \in Nat /\ n # 0
      OBVIOUS
    <2>4. Len(row) = n
      <3> DEFINE c == LengthCode(r.len, bl)
      <3> HIDE DEF c
      <3>1. row = [j \in 1..n |-> c]
        BY <2>1 DEF c
      <3>2. row \in Seq({c}) /\ DOMAIN row = 1..n
        BY <2>3, <3>1
      <3> QED BY <2>3, <3>2
    <2> QED BY <1>1, <1>3, <1>4, <2>2, <2>3, <2>4 DEF RowElements
  <1>5. CASE Again(r)
    <2> DEFINE a == LengthCode(16, bl)
               b == send_bits(r.count - 3, 2)
    <2>1. row = <<a, b>>
      BY <1>5 DEF RowIs
    <2> HIDE DEF a, b
    <2>2. Len(row) = 2 /\ row[1] = a /\ row[2] = b
      BY <2>1
    <2> QED BY <1>3, <1>5, <2>2 DEF RowElements, a, b
  <1>6. CASE NewAgain(r)
    <2> DEFINE a == LengthCode(r.len, bl)
               b == LengthCode(16, bl)
               c == send_bits(r.count - 4, 2)
    <2>1. row = <<a, b, c>>
      BY <1>6 DEF RowIs
    <2> HIDE DEF a, b, c
    <2>2. Len(row) = 3 /\ row[1] = a /\ row[2] = b /\ row[3] = c
      BY <2>1
    <2> QED BY <1>3, <1>6, <2>2 DEF RowElements, a, b, c
  <1>7. CASE Zeros(r) /\ n <= 10
    <2> DEFINE a == LengthCode(17, bl)
               b == send_bits(r.count - 3, 3)
    <2>1. row = <<a, b>>
      BY <1>1, <1>7 DEF RowIs
    <2> HIDE DEF a, b
    <2>2. Len(row) = 2 /\ row[1] = a /\ row[2] = b
      BY <2>1
    <2> QED BY <1>1, <1>3, <1>7, <2>2 DEF RowElements, a, b
  <1>8. CASE Zeros(r) /\ ~(n <= 10)
    <2> DEFINE a == LengthCode(18, bl)
               b == send_bits(r.count - 11, 7)
    <2>1. row = <<a, b>>
      BY <1>1, <1>8 DEF RowIs
    <2> HIDE DEF a, b
    <2>2. Len(row) = 2 /\ row[1] = a /\ row[2] = b
      BY <2>1
    <2> QED BY <1>1, <1>3, <1>8, <2>2 DEF RowElements, a, b
  <1> QED BY <1>2, <1>4, <1>5, <1>6, <1>7, <1>8

\* In which run the lengths are read, and how far in it.
LEMMA CodeLensPlace ==
    ASSUME Inside, mode = "CODELENS"
    PROVE  /\ TypeKnown /\ got = <<>> /\ sent.kind = 2 /\ tree = 2
           /\ nlen_ = max_code(sent.l) + 1 /\ ndist_ = max_code(sent.d) + 1
           /\ lens_ = [n \in 1..Len(lens_) |-> LensOf(sent)[n]]
           /\ \E k, i : AtRun(sent, k, i, at, Len(lens_))
  <1>1. TypeKnown /\ got = <<>> /\ LensRead
    <2>1. InMode
      BY InsideBlock
    <2> QED BY <2>1 DEF InMode
  <1>2. sent.kind = 2 /\ tree = 2
    BY <1>1 DEF LensRead, TypeKnown, dynamic_trees
  <1>3. /\ nlen_ = max_code(sent.l) + 1 /\ ndist_ = max_code(sent.d) + 1
        /\ lens_ = [n \in 1..Len(lens_) |-> LensOf(sent)[n]]
    BY <1>1 DEF LensRead
  <1> DEFINE rs == BothRuns(sent.l, sent.d)
  <1>4. AllRuns(sent) = rs /\ RunRows(sent) = RunItems(sent)
    BY Places DEF RunItems
  <1>5. PICK k \in DOMAIN rs, i \in 0..6 :
           /\ StopsIn(rs[k], i)
           /\ at = HeadLen(sent) + Place(RunRows(sent), k) + i + 1
           /\ Len(lens_) = LensBefore(rs, k) + i
    BY <1>1, <1>4 DEF LensRead
  <1>6. DOMAIN rs = 1..Len(rs)
    <2>1. PICK x \in 256..285, y \in 0..29 : x = max_code(sent.l) /\ y = max_code(sent.d)
      BY <1>2, DynamicLayout
    <2>2. RunsRead(rs, LensOf(sent), (x + 1) + (y + 1))
      BY <2>1, InsideBlock, DynamicRuns
    <2> QED BY <2>2 DEF RunsRead
  <1>7. AtRun(sent, k, i, at, Len(lens_))
    BY <1>4, <1>5, <1>6, Places DEF AtRun
  <1> QED BY <1>1, <1>2, <1>3, <1>7

\* A run is left before its end.
LEMMA StopsBefore ==
    ASSUME NEW r, RunShape(r), NEW i \in 0..6, StopsIn(r, i), NEW n \in 1..138, n = r.count
    PROVE  (i # 0 => i \in 1..n) /\ (Single(r) => i < n)
  <1>1. PICK m \in 3..4 : m = r.min
    BY RunFields
  <1>2. i = 0 \/ (n < m /\ i < n) \/ (i = 1 /\ n >= m)
    BY <1>1 DEF StopsIn
  <1>3. Single(r) <=> n < m
    BY <1>1 DEF Single
  <1>4. (i # 0 => i \in 1..n) /\ (n < m => i < n)
    BY <1>2
  <1> QED BY <1>3, <1>4

\* What comes next of the run, and what was read last.
HereIs(r, row, bl, i) ==
    /\ RunShape(r) /\ RowElements(r, row, bl) /\ i \in 0..6 /\ StopsIn(r, i)
    /\ at \in Nat /\ Len(sent.items) \in Nat
    /\ \A j \in Nat : (i + 1) + j <= Len(row) =>
          sent.items[at + j] = row[(i + 1) + j] /\ at + j <= Len(sent.items)
    /\ \A c \in 0..18 : Adds(r, c) # 0 => bl[c] \in Nat \ {0}
    /\ i # 0 \/ Again(r) => lens_ # <<>> /\ Last(lens_) = r.len

\* In the mode CODELENS the decompressor is at an element of the items of a run.
LEMMA RunHere ==
    ASSUME Inside, mode = "CODELENS", NEW k, NEW i, AtRun(sent, k, i, at, Len(lens_))
    PROVE  HereIs(BothRuns(sent.l, sent.d)[k], RunItems(sent)[k], sent.bl, i)
  <1> DEFINE rs == BothRuns(sent.l, sent.d)
             rows == RunItems(sent)
             bl == sent.bl
             r == rs[k]
             row == rows[k]
             s == sent.items
             f == LensOf(sent)
             nl == Len(lens_)
  <1>1. /\ sent.kind = 2 /\ lens_ = [n \in 1..nl |-> f[n]] /\ Block(sent)
    BY CodeLensPlace, InsideBlock
  <1>2. PICK x \in 256..285, y \in 0..29, z \in 3..18 :
           x = max_code(sent.l) /\ y = max_code(sent.d) /\ z = max_blindex(sent.bl)
    BY <1>1, DynamicLayout
  <1>3. /\ RunsRead(rs, f, (x + 1) + (y + 1)) /\ AllShaped(rs) /\ BitLengths(bl)
    BY <1>1, <1>2, DynamicRuns, ZenonT(60)
  <1>4. k \in 1..Len(rs) /\ i \in 0..6 /\ StopsIn(r, i)
        /\ at = HeadLen(sent) + ElementsBefore(rows, k) + i + 1 /\ nl = LensBefore(rs, k) + i
    BY DEF AtRun
  <1>5. RunShape(r) /\ RunReads(r, f, (x + 1) + (y + 1), LensBefore(rs, k))
    BY <1>3, <1>4 DEF RunsRead
  <1>6. /\ rows \in Seq(Seq(ItemSet)) /\ Len(rows) = Len(rs) /\ RowIs(r, row, bl)
    BY <1>3, <1>4, RowsOfRunsAre DEF RunItems
  <1>7. RowElements(r, row, bl)
    BY <1>5, <1>6, RowElementsAre
  <1>8. PICK e \in Nat : e = ElementsBefore(rows, k)
    BY <1>4, <1>6, ElementsBeforeSteps DEF PartAfterPart
  <1>9. PICK w \in Nat : w = Len(row) /\ w # 0
    BY <1>7 DEF RowElements
  <1>10. /\ TreesHeld(s, 1, sent.l, sent.d, bl)
    BY <1>1, DynamicLayout
  <1>11. PICK m \in Nat : m = Len(s)
    BY <1>1, DynamicLayout
  <1>12. Holds(s, 1 + 3 + (z + 1), FlattenSeq(rows))
    BY <1>2, <1>10 DEF TreesHeld, RunItems
  <1>13. Holds(s, (1 + 3 + (z + 1)) + e, row)
    <2>1. k \in 1..Len(rows) /\ Len(rows[k]) # 0 /\ Len(s) \in Nat
      BY <1>4, <1>6, <1>9, <1>11
    <2> QED BY <1>6, <1>8, <1>12, <2>1, HoldsParts
  <1>14. HeadLen(sent) = 1 + 3 + (z + 1)
    <2>1. HeadLen(sent) = 4 + z + 1
      BY <1>2 DEF HeadLen
    <2> QED BY <2>1
  <1> DEFINE p == (1 + 3 + (z + 1)) + e
  <1>15. p \in Nat /\ p + w <= m /\ \A j \in 1..w : s[p + j] = row[j]
    BY <1>9, <1>11, <1>13 DEF Holds
  <1>16. at = p + (i + 1) /\ at \in Nat
    <2>1. at = (1 + 3 + (z + 1)) + e + i + 1 /\ i \in 0..6
      BY <1>4, <1>8, <1>14, Zenon
    <2> QED BY <2>1
  <1> HIDE DEF p, row, s
  <1>17. ASSUME NEW j \in Nat, (i + 1) + j <= w
         PROVE  s[at + j] = row[(i + 1) + j] /\ at + j <= m
    <2>1. (i + 1) + j \in 1..w
      BY <1>4, <1>17
    <2>2. at + j = p + ((i + 1) + j)
      BY <1>4, <1>15, <1>16
    <2>3. at + j <= m
      BY <1>4, <1>15, <1>16, <1>17
    <2> QED BY <1>15, <2>1, <2>2, <2>3
  <1>18. \A c \in 0..18 : Adds(r, c) # 0 => bl[c] \in Nat \ {0}
    <2> TAKE c \in 0..18
    <2>1. bl[c] \in Nat
      <3>1. BitLengths(bl)
        BY <1>3
      <3> HIDE DEF bl
      <3>2. bl \in [0..18 -> 0..7]
        BY <3>1 DEF BitLengths, bl_codes, max_bl_bits
      <3>3. bl[c] \in 0..7
        BY <3>2
      <3> QED BY <3>3
    <2>2. Adds(r, c) # 0 => bl[c] # 0
      <3>1. TreesFit(sent) /\ AllRuns(sent) = rs
        BY <1>1, Places DEF Block
      <3>2. k \in DOMAIN AllRuns(sent) /\ c \in 0..bl_codes - 1
        BY <1>3, <1>4, <3>1 DEF RunsRead, bl_codes
      <3> QED BY <3>1, <3>2 DEF TreesFit
    <2> QED BY <2>1, <2>2
  <1>19. ASSUME i # 0 \/ Again(r)
         PROVE  lens_ # <<>> /\ Last(lens_) = r.len
    <2>1. PICK l0 \in Nat, t \in 1..138 : l0 = LensBefore(rs, k) /\ t = r.count
      BY <1>5, RunFields DEF RunReads
    <2>2. nl = l0 + i /\ nl \in Nat
      BY <1>4, <2>1
    <2>3. \A j \in 1..t : f[l0 + j] = r.len
      BY <1>5, <2>1 DEF RunReads
    <2>4. nl >= 1 /\ f[nl] = r.len
      <3>1. CASE i # 0
        <4>1. i \in 1..t
          BY <1>4, <1>5, <2>1, <3>1, StopsBefore
        <4> QED BY <2>2, <2>3, <4>1
      <3>2. CASE i = 0
        <4>1. Again(r)
          BY <1>19, <3>2
        <4>2. l0 >= 1 /\ f[l0] = r.len
          BY <1>5, <2>1, <4>1 DEF Again, RunReads
        <4> QED BY <2>2, <3>2, <4>2
      <3> QED BY <3>1, <3>2
    <2> HIDE DEF f, r, nl
    <2>5. nl \in 1..nl /\ lens_[nl] = f[nl]
      BY <1>1, <2>2, <2>4
    <2>6. lens_ # <<>>
      <3>1. DOMAIN lens_ # {}
        BY <1>1, <2>5
      <3> QED BY <3>1
    <2>7. Last(lens_) = lens_[nl]
      BY DEF Last, nl
    <2> QED BY <2>4, <2>5, <2>6, <2>7
  <1> QED BY <1>4, <1>5, <1>7, <1>9, <1>11, <1>16, <1>17, <1>18, <1>19 DEF HereIs, row, s

\* What is read there.
RunRead(r, row, i, q) ==
    /\ Readable /\ Advances(r, row, i, q, Len(Wanted))
    /\ ReadRun = [j \in 1..q |-> r.len] /\ (Item(0) = 16 => lens_ # <<>>)

\* In the mode CODELENS an element of a run is read as the lengths that it stands for.
LEMMA CodeLensRead ==
    ASSUME mode = "CODELENS", tree = 2, NEW r, NEW row, NEW bl, NEW i, HereIs(r, row, bl, i)
    PROVE  \E q : RunRead(r, row, i, q)
  <1> DEFINE s == sent.items
  <1>1. /\ RunShape(r) /\ RowElements(r, row, bl) /\ i \in 0..6 /\ StopsIn(r, i)
        /\ at \in Nat /\ Len(s) \in Nat
        /\ \A c \in 0..18 : Adds(r, c) # 0 => bl[c] \in Nat \ {0}
        /\ i # 0 \/ Again(r) => lens_ # <<>> /\ Last(lens_) = r.len
        /\ \A j \in Nat : (i + 1) + j <= Len(row) =>
              s[at + j] = row[(i + 1) + j] /\ at + j <= Len(s)
    BY DEF HereIs
  <1>2. PICK n \in 1..138 : n = r.count
    BY <1>1, RunFields
  <1>3. /\ Single(r) \/ NewAgain(r) => Adds(r, r.len) # 0 /\ r.len \in 0..15
        /\ Again(r) \/ NewAgain(r) => Adds(r, 16) # 0
        /\ Zeros(r) /\ n <= 10 => Adds(r, 17) # 0
        /\ Zeros(r) /\ ~(n <= 10) => Adds(r, 18) # 0
        /\ Single(r) => n \in 1..3
        /\ ~Single(r) => n >= 3
        /\ NewAgain(r) => n >= 4
    BY <1>1, <1>2, CodesOfRun
  <1>4. Single(r) \/ Again(r) \/ NewAgain(r) \/ Zeros(r)
    BY DEF Single, Again, NewAgain, Zeros
  <1>5. Len(row) \in Nat
    BY <1>1 DEF RowElements
  <1>6. ASSUME i + 1 <= Len(row)
        PROVE  s[at] = row[i + 1] /\ at <= Len(s)
    <2>1. 0 \in Nat /\ (i + 1) + 0 = i + 1 /\ at + 0 = at
      BY <1>1, SMTT(60)
    <2>2. (i + 1) + 0 <= Len(row)
      BY <1>6, <2>1
    <2>3. s[at + 0] = row[(i + 1) + 0] /\ at + 0 <= Len(s)
      BY <1>1, <2>1, <2>2
    <2> QED BY <2>1, <2>3
  <1>7. ASSUME i + 2 <= Len(row)
        PROVE  s[at + 1] = row[i + 2] /\ at + 1 <= Len(s) /\ at <= Len(s)
    <2>1. 1 \in Nat /\ (i + 1) + 1 = i + 2
      BY <1>1
    <2>2. (i + 1) + 1 <= Len(row)
      BY <1>7, <2>1
    <2>3. s[at + 1] = row[(i + 1) + 1] /\ at + 1 <= Len(s)
      BY <1>1, <2>1, <2>2
    <2>4. at <= Len(s)
      BY <1>1, <2>3
    <2> QED BY <2>1, <2>3, <2>4
  <1>8. CASE Single(r)
    <2>1. Len(row) = n /\ \A j \in 1..n : row[j] = LengthCode(r.len, bl)
      BY <1>1, <1>2, <1>8 DEF RowElements
    <2>2. i < n
      BY <1>1, <1>2, <1>8, StopsBefore
    <2>3. i + 1 <= n /\ i + 1 \in 1..n
      BY <1>1, <2>2
    <2>4. s[at] = LengthCode(r.len, bl) /\ at <= Len(s)
      BY <1>6, <2>1, <2>3
    <2>5. bl[r.len] \in Nat \ {0} /\ r.len \in 0..15
      <3>1. r.len \in 0..15 /\ Adds(r, r.len) # 0
        BY <1>3, <1>8
      <3>2. r.len \in 0..18
        BY <3>1
      <3> QED BY <1>1, <3>1, <3>2
    <2>6. Readable /\ Len(Wanted) = 1 /\ Item(0) = r.len /\ ReadRun = [j \in 1..1 |-> r.len]
      BY <1>1, <2>4, <2>5, ReadsLength
    <2>7. Advances(r, row, i, 1, 1)
      <3>1. CASE i + 1 < n
        <4>1. i + 1 \in 0..6 /\ 1 \in Nat /\ 1 >= 1
          BY <1>1, <1>3, <1>8, <3>1
        <4>2. StopsIn(r, i + 1)
          BY <1>2, <1>8, <3>1 DEF StopsIn, Single
        <4> QED BY <1>2, <3>1, <4>1, <4>2 DEF Advances
      <3>2. CASE i + 1 = n
        <4>1. 1 \in Nat /\ 1 >= 1
          OBVIOUS
        <4> QED BY <1>2, <2>1, <3>2, <4>1 DEF Advances
      <3> QED BY <1>1, <2>3, <3>1, <3>2
    <2>8. Item(0) # 16
      BY <2>5, <2>6
    <2> QED BY <2>6, <2>7, <2>8 DEF RunRead
  <1>9. CASE Again(r)
    <2>1. Len(row) = 2 /\ row[1] = LengthCode(16, bl) /\ row[2] = send_bits(n - 3, CountBits(16))
      BY <1>1, <1>2, <1>9 DEF RowElements, CountBits
    <2>2. i = 0
      BY <1>1, <1>2, <1>9 DEF StopsIn, Again, Single
    <2>3. /\ s[at] = LengthCode(16, bl) /\ s[at + 1] = send_bits(n - 3, CountBits(16))
          /\ at + 1 <= Len(s)
      BY <1>6, <1>7, <2>1, <2>2
    <2>4. bl[16] \in Nat \ {0}
      BY <1>1, <1>3, <1>9
    <2>5. lens_ # <<>> /\ Last(lens_) = r.len
      BY <1>1, <1>9
    <2>6. Readable /\ Len(Wanted) = 2 /\ ReadRun = [j \in 1..3 + (n - 3) |-> Last(lens_)]
      BY <1>1, <2>3, <2>4, ReadsRepeat
    <2>7. 3 + (n - 3) = n /\ 0 + n = n /\ 0 + 2 = 2 /\ n \in Nat /\ n >= 1
      OBVIOUS
    <2>8. Advances(r, row, i, n, 2)
      BY <1>2, <2>1, <2>2, <2>7 DEF Advances
    <2>9. ReadRun = [j \in 1..n |-> r.len]
      BY <2>5, <2>6, <2>7
    <2> QED BY <2>5, <2>6, <2>8, <2>9 DEF RunRead
  <1>10. CASE NewAgain(r) /\ i = 0
    <2>1. Len(row) = 3 /\ row[1] = LengthCode(r.len, bl)
      BY <1>1, <1>10 DEF RowElements
    <2>2. s[at] = LengthCode(r.len, bl) /\ at <= Len(s)
      BY <1>6, <1>10, <2>1
    <2>3. bl[r.len] \in Nat \ {0} /\ r.len \in 0..15
      <3>1. r.len \in 0..15 /\ Adds(r, r.len) # 0
        BY <1>3, <1>10
      <3>2. r.len \in 0..18
        BY <3>1
      <3> QED BY <1>1, <3>1, <3>2
    <2>4. Readable /\ Len(Wanted) = 1 /\ Item(0) = r.len /\ ReadRun = [j \in 1..1 |-> r.len]
      BY <1>1, <2>2, <2>3, ReadsLength
    <2>5. StopsIn(r, 1)
      <3>1. ~Single(r) /\ r.len # 0 /\ r.len # r.prevlen
        BY <1>10 DEF NewAgain
      <3>2. r.count >= r.min
        <4>1. PICK u \in 3..4 : u = r.min
          BY <1>1, RunFields
        <4> QED BY <1>2, <3>1, <4>1 DEF Single
      <3> QED BY <3>1, <3>2 DEF StopsIn
    <2>6. Advances(r, row, i, 1, 1)
      <3>1. 0 + 1 = 1 /\ 1 \in 0..6 /\ 1 \in Nat /\ 1 >= 1 /\ 1 < n
        BY <1>3, <1>10
      <3> QED BY <1>2, <1>10, <2>5, <3>1 DEF Advances
    <2>7. Item(0) # 16
      BY <2>3, <2>4
    <2> QED BY <2>4, <2>6, <2>7 DEF RunRead
  <1>11. CASE NewAgain(r) /\ i # 0
    <2>1. /\ Len(row) = 3 /\ row[2] = LengthCode(16, bl) /\ row[3] = send_bits(n - 4, CountBits(16))
      BY <1>1, <1>2, <1>11 DEF RowElements, CountBits
    <2>2. i = 1
      BY <1>1, <1>2, <1>11 DEF StopsIn, NewAgain, Single
    <2>3. /\ s[at] = LengthCode(16, bl) /\ s[at + 1] = send_bits(n - 4, CountBits(16))
          /\ at + 1 <= Len(s)
      <3>1. 1 + 1 = 2 /\ 1 + 2 = 3
        OBVIOUS
      <3> QED BY <1>6, <1>7, <2>1, <2>2, <3>1
    <2>4. bl[16] \in Nat \ {0}
      BY <1>1, <1>3, <1>11
    <2>5. lens_ # <<>> /\ Last(lens_) = r.len
      BY <1>1, <1>11
    <2>6. Readable /\ Len(Wanted) = 2 /\ ReadRun = [j \in 1..3 + (n - 4) |-> Last(lens_)]
      BY <1>1, <2>3, <2>4, ReadsRepeat
    <2>7. 3 + (n - 4) = n - 1 /\ 1 + (n - 1) = n /\ 1 + 2 = 3 /\ n - 1 \in Nat /\ n - 1 >= 1
      BY <1>3, <1>11
    <2>8. Advances(r, row, i, n - 1, 2)
      BY <1>2, <2>1, <2>2, <2>7 DEF Advances
    <2>9. ReadRun = [j \in 1..n - 1 |-> r.len]
      BY <2>5, <2>6, <2>7
    <2> QED BY <2>5, <2>6, <2>8, <2>9 DEF RunRead
  <1>12. CASE Zeros(r)
    <2> DEFINE v == IF n <= 10 THEN 17 ELSE 18
               m == IF n <= 10 THEN 3 ELSE 11
    <2>1. /\ Len(row) = 2 /\ row[1] = LengthCode(v, bl) /\ row[2] = send_bits(n - m, CountBits(v))
      BY <1>1, <1>2, <1>12, SMTT(60) DEF RowElements, CountBits
    <2>2. i = 0
      BY <1>1, <1>2, <1>12 DEF StopsIn, Zeros, Single
    <2>3. bl[v] \in Nat \ {0} /\ v \in {17, 18} /\ m + (n - m) = n
      BY <1>1, <1>3, <1>12
    <2>4. s[at] = LengthCode(v, bl) /\ s[at + 1] = send_bits(n - m, CountBits(v)) /\ at + 1 <= Len(s)
      BY <1>6, <1>7, <2>1, <2>2
    <2>5. r.len = 0
      BY <1>12 DEF Zeros
    <2>6. /\ Readable /\ Len(Wanted) = 2 /\ Item(0) = v
          /\ ReadRun = [j \in 1..n |-> 0]
      <3>1. v \in {16, 17, 18}
        BY <2>3
      <3>2. CASE n <= 10
        <4>1. v = 17 /\ m = 3
          BY <3>2
        <4>2. /\ Readable /\ Len(Wanted) = 2 /\ Item(0) = 17
              /\ ReadRun = [j \in 1..3 + (n - 3) |-> 0]
          BY <1>1, <2>3, <2>4, <3>1, <4>1, ReadsRepeat
        <4> QED BY <2>3, <4>1, <4>2
      <3>3. CASE ~(n <= 10)
        <4>1. v = 18 /\ m = 11
          BY <3>3
        <4>2. /\ Readable /\ Len(Wanted) = 2 /\ Item(0) = 18
              /\ ReadRun = [j \in 1..11 + (n - 11) |-> 0]
          BY <1>1, <2>3, <2>4, <3>1, <4>1, ReadsRepeat
        <4> QED BY <2>3, <4>1, <4>2
      <3> QED BY <3>2, <3>3
    <2>7. Advances(r, row, i, n, 2)
      <3>1. 0 + n = n /\ 0 + 2 = 2 /\ n \in Nat /\ n >= 1
        OBVIOUS
      <3> QED BY <1>2, <2>1, <2>2, <3>1 DEF Advances
    <2>8. Item(0) # 16
      BY <2>3, <2>6
    <2> QED BY <2>5, <2>6, <2>7, <2>8 DEF RunRead
  <1> QED BY <1>4, <1>8, <1>9, <1>10, <1>11, <1>12

\* The first symbol is read after the trees.
LEMMA FirstSymbol ==
    ASSUME Inside, sent.kind = 2, sent' = sent, got' = <<>>, at' = SymbolsFrom(sent) + 1,
           TypeKnown', mode' = "LEN"
    PROVE  InMode'
  <1>1. CodedLayout(sent)
    BY DynamicLayout
  <1>2. (RowAt + 1)' = SymbolsFrom(sent) + Place(RowsOf(sent), Len(<<>>) + 1) + 1
    BY DEF RowAt, k_
  <1>3. Len(<<>>) + 1 = 1
    OBVIOUS
  <1>4. Place(RowsOf(sent), 1) = 0 /\ SymbolsFrom(sent) \in Nat
    BY <1>1, Places DEF CodedLayout, SymbolsHeld
  <1>5. SymbolsFrom(sent) + 0 + 1 = SymbolsFrom(sent) + 1
    BY <1>4
  <1>6. at' = (RowAt + 1)'
    BY <1>2, <1>3, <1>4, <1>5
  <1> DEFINE f == [i \in 1..Len(<<>>) |-> Sent(sent.symbols[i])]
  <1>7. f = <<>> /\ Len(<<>>) = 0 /\ Len(sent.symbols) \in Nat
    <2>1. sent.symbols \in Seq(Symbol)
      BY InsideBlock
    <2> QED BY <2>1
  <1> HIDE DEF f
  <1>8. 0 <= Len(sent.symbols)
    BY <1>7
  <1>9. sent'.kind \in {static_trees, dynamic_trees} /\ Len(got') \in 0..Len(sent'.symbols)
    BY <1>7, <1>8 DEF dynamic_trees
  <1>10. got' = [i \in 1..Len(got') |-> Sent(sent'.symbols[i])]
    BY <1>7 DEF f
  <1>11. SymbolsRead'
    BY <1>9, <1>10 DEF SymbolsRead
  <1> QED BY <1>6, <1>11 DEF InMode

\* The lengths that were sent make the tree again: those that were not are 0.
LEMMA SameAsListed ==
    ASSUME NEW m, NEW dl, Lengths(dl, m), NEW S, NEW lens \in Seq(S), NEW p \in Nat,
           Listed(dl, max_code(dl), lens, p), p + (max_code(dl) + 1) <= Len(lens),
           NEW s, s = SubSeq(lens, p + 1, p + (max_code(dl) + 1))
    PROVE  Same(dl, s)
  <1>1. PICK x \in 0..m : x = max_code(dl) /\ \A c \in 0..m : c > x => dl[c] = 0
    BY MaxCode
  <1>2. m \in Nat /\ DOMAIN dl = 0..m
    BY DEF Lengths
  <1>3. PICK n \in Nat : n = Len(lens)
    OBVIOUS
  <1>4. \A c \in 0..x : lens[p + (c + 1)] = dl[c]
    BY <1>1 DEF Listed
  <1> DEFINE a == p + 1
             e == p + (x + 1)
  <1>5. a \in 1..n + 1 /\ e \in a - 1..n /\ e - a + 1 = x + 1
    <2>1. p + (x + 1) <= n
      BY <1>1, <1>3
    <2>2. x \in Nat
      BY <1>1, <1>2
    <2> QED BY <2>1, <2>2
  <1>6. /\ SubSeq(lens, a, e) \in Seq(S) /\ Len(SubSeq(lens, a, e)) = e - a + 1
        /\ \A i \in 1..e - a + 1 : SubSeq(lens, a, e)[i] = lens[a + i - 1]
    BY <1>3, <1>5, SubSeqProperties
  <1>7. s = SubSeq(lens, a, e)
    BY <1>1
  <1>8. /\ s \in Seq(S) /\ Len(s) = x + 1 /\ \A i \in 1..x + 1 : s[i] = lens[a + i - 1]
    BY <1>5, <1>6, <1>7
  <1>9. DOMAIN s = 1..x + 1
    BY <1>8
  <1>10. ASSUME NEW c \in 0..m
         PROVE  dl[c] = IF c + 1 \in 1..x + 1 THEN s[c + 1] ELSE 0
    <2>1. CASE c <= x
      <3>1. c + 1 \in 1..x + 1 /\ c \in 0..x /\ a + (c + 1) - 1 = p + (c + 1)
        BY <1>2, <2>1
      <3>2. s[c + 1] = lens[a + (c + 1) - 1]
        BY <1>8, <3>1
      <3> QED BY <1>4, <3>1, <3>2
    <2>2. CASE ~(c <= x)
      <3>1. c > x /\ c + 1 \notin 1..x + 1
        BY <1>2, <2>2
      <3> QED BY <1>1, <3>1
    <2> QED BY <2>1, <2>2
  <1> QED BY <1>2, <1>9, <1>10 DEF Same

\* What is read goes on with the lengths that were sent.
GoesOn(c, f, n, q, v) ==
    /\ c = [j \in 1..n + q |-> f[j]] /\ Len(c) = n + q
    /\ c \in Seq({f[j] : j \in 1..n + q} \cup {v})

\* A list of lengths that is a part of a tree's lengths is a longer part of them when a
\* repetition is put after it.
LEMMA LensGoOn ==
    ASSUME NEW f, NEW n \in Nat, NEW q \in Nat, NEW v, \A j \in 1..q : f[n + j] = v,
           NEW a, a = [j \in 1..n |-> f[j]], NEW b, b = [j \in 1..q |-> v]
    PROVE  GoesOn(a \o b, f, n, q, v)
  <1> DEFINE S == {f[j] : j \in 1..n + q} \cup {v}
             c == a \o b
  <1>1. \A j \in 1..n : f[j] \in S
    OBVIOUS
  <1>2. v \in S
    OBVIOUS
  <1> HIDE DEF S
  <1>4. a \in Seq(S) /\ Len(a) = n
    BY <1>1
  <1>5. b \in Seq(S) /\ Len(b) = q
    BY <1>2
  <1>6. Joined(a \o b, a, b, n, q) /\ a \o b \in Seq(S) /\ Len(a \o b) = n + q
        /\ a \o b \in [1..n + q -> S]
    BY ONLY n \in Nat, q \in Nat, <1>4, <1>5, ConcatElements
  <1>61. Joined(c, a, b, n, q) /\ c \in [1..n + q -> S] /\ c \in Seq(S) /\ Len(c) = n + q
    BY <1>6
  <1> HIDE DEF c
  <1>7. ASSUME NEW j \in 1..n + q
        PROVE  c[j] = f[j]
    <2>1. CASE j <= n
      <3>1. j \in 1..n
        BY <2>1
      <3>2. c[j] = a[j] /\ a[j] = f[j]
        BY <1>61, <3>1 DEF Joined
      <3> QED BY <3>2
    <2>2. CASE ~(j <= n)
      <3>1. PICK i \in 1..q : j = n + i
        <4>1. j - n \in 1..q /\ j = n + (j - n)
          BY <2>2
        <4> QED BY <4>1
      <3>2. c[n + i] = b[i] /\ b[i] = v
        BY <1>61 DEF Joined
      <3> QED BY <3>1, <3>2
    <2> QED BY <2>1, <2>2
  <1> DEFINE D == 1..n + q
             g == [j \in D |-> f[j]]
  <1>8. c \in [D -> S] /\ \A j \in D : c[j] = f[j]
    BY <1>61, <1>7
  <1> HIDE DEF D
  <1>9. c = g
    BY <1>8
  <1> QED BY <1>61, <1>9 DEF c, D, S, GoesOn

\* The place after q lengths more, that w items were read for.
NextIs(b, total, a, n, q, w) ==
    /\ n \in Nat /\ a \in Nat /\ n + q <= total
    /\ n + q < total => \E k2, i2 : AtRun(b, k2, i2, a + w, n + q)
    /\ n + q = total => a + w = SymbolsFrom(b) + 1

\* After an element of a run the decompressor is at the next one, at the next run, or at
\* the end.
LEMMA RunNextIs ==
    ASSUME NEW b, Block(b), b.kind = 2, NEW total \in Nat, NEW rs, rs = BothRuns(b.l, b.d),
           RunsRead(rs, LensOf(b), total), AllShaped(rs), BitLengths(b.bl),
           NEW k, NEW i, NEW a, NEW n, AtRun(b, k, i, a, n),
           NEW q, NEW w, Advances(rs[k], RunItems(b)[k], i, q, w)
    PROVE  NextIs(b, total, a, n, q, w)
  <1>1. /\ n \in Nat /\ a \in Nat /\ n + q <= total
        /\ n + q < total => \E k2, i2 : AtRun(b, k2, i2, a + w, n + q)
        /\ n + q = total => a + w = SymbolsFrom(b) + 1
    BY RunNext, SMTT(60)
  <1> QED BY <1>1 DEF NextIs

\* An element of a run that is not read yet is what the run repeats.
Repeats(f, n, q, v) == \A j \in 1..q : f[n + j] = v

\* What an element of a run repeats is what the tree holds there.
LEMMA RunGoesOn ==
    ASSUME NEW f, NEW total, NEW r, RunShape(r), NEW l0, RunReads(r, f, total, l0),
           NEW i \in 0..6, NEW q, NEW row, NEW w, Advances(r, row, i, q, w)
    PROVE  Repeats(f, l0 + i, q, r.len)
  <1>1. PICK p \in Nat, t \in 1..138 : p = l0 /\ t = r.count
    BY RunFields DEF RunReads
  <1>2. PICK z \in Nat : z = q
    BY DEF Advances
  <1>3. i + z <= t
    <2>1. (i + z < t) \/ (i + z = t)
      BY <1>1, <1>2 DEF Advances
    <2> QED BY <2>1
  <1>4. \A j \in 1..t : f[p + j] = r.len
    BY <1>1 DEF RunReads
  <1> SUFFICES ASSUME NEW j \in 1..z PROVE f[(p + i) + j] = r.len
    BY <1>1, <1>2 DEF Repeats
  <1>5. i + j \in 1..t /\ (p + i) + j = p + (i + j)
    BY <1>3
  <1> QED BY <1>4, <1>5

\* CODELENS goes on with the lengths that were sent, and at their end has both trees.
LEMMA CodeLensStep ==
    ASSUME Inside, CODELENS
    PROVE  InMode'
  <1>1. mode = "CODELENS" /\ Readable
    BY DEF CODELENS, Reads
  <1> DEFINE rs == BothRuns(sent.l, sent.d)
             f == LensOf(sent)
             n == Len(lens_)
             w == Len(Wanted)
             lens == lens_ \o ReadRun
  <1>2. /\ TypeKnown /\ got = <<>> /\ sent.kind = 2 /\ tree = 2
        /\ nlen_ = max_code(sent.l) + 1 /\ ndist_ = max_code(sent.d) + 1
        /\ lens_ = [j \in 1..n |-> f[j]]
    BY <1>1, CodeLensPlace
  <1>3. PICK k, i : AtRun(sent, k, i, at, n)
    BY <1>1, CodeLensPlace
  <1>4. HereIs(rs[k], RunItems(sent)[k], sent.bl, i)
    BY <1>1, <1>3, RunHere
  <1>5. PICK q : RunRead(rs[k], RunItems(sent)[k], i, q)
    BY <1>1, <1>2, <1>4, CodeLensRead
  <1>6. /\ Advances(rs[k], RunItems(sent)[k], i, q, w)
        /\ ReadRun = [j \in 1..q |-> rs[k].len] /\ (Item(0) = 16 => lens_ # <<>>)
    BY <1>5 DEF RunRead
  <1>7. Block(sent)
    BY InsideBlock
  <1>8. PICK x \in 256..285, y \in 0..29 : x = max_code(sent.l) /\ y = max_code(sent.d)
    BY <1>2, DynamicLayout
  <1>9. PICK total \in Nat : total = (x + 1) + (y + 1)
    OBVIOUS
  <1>10. /\ RunsRead(rs, f, total) /\ Listed(sent.l, x, f, 0) /\ Listed(sent.d, y, f, x + 1)
         /\ AllShaped(rs) /\ BitLengths(sent.bl)
    BY <1>7, <1>8, <1>9, DynamicRuns, ZenonT(60)
  <1>110. RunsRead(rs, LensOf(sent), total) /\ rs = BothRuns(sent.l, sent.d)
    BY <1>10
  <1>111. NextIs(sent, total, at, n, q, w)
    <2> HIDE DEF n, w, f, rs
    <2> QED BY <1>2, <1>3, <1>6, <1>7, <1>10, <1>110, RunNextIs
  <1>11. /\ n \in Nat /\ at \in Nat /\ n + q <= total
         /\ n + q < total => \E k2, i2 : AtRun(sent, k2, i2, at + w, n + q)
         /\ n + q = total => at + w = SymbolsFrom(sent) + 1
    BY <1>111 DEF NextIs
  <1>12. q \in Nat
    BY <1>6 DEF Advances
  <1>13. \A j \in 1..q : f[n + j] = rs[k].len
    <2>1. RunReads(rs[k], f, total, LensBefore(rs, k)) /\ RunShape(rs[k]) /\ i \in 0..6
          /\ n = LensBefore(rs, k) + i
      BY <1>3, <1>10 DEF AtRun, RunsRead
    <2> HIDE DEF n, f, rs, w
    <2>2. Repeats(f, LensBefore(rs, k) + i, q, rs[k].len)
      BY <2>1, <1>6, RunGoesOn
    <2> QED BY <2>1, <2>2 DEF Repeats
  <1>140. GoesOn(lens_ \o ReadRun, f, n, q, rs[k].len)
    <2>1. lens_ = [j \in 1..n |-> f[j]] /\ ReadRun = [j \in 1..q |-> rs[k].len]
          /\ n \in Nat /\ q \in Nat
      BY <1>2, <1>6, <1>11, <1>12
    <2> HIDE DEF f, n, rs
    <2> QED BY <1>13, <2>1, LensGoOn
  <1>14. /\ lens = [j \in 1..n + q |-> f[j]] /\ Len(lens) = n + q
         /\ lens \in Seq({f[j] : j \in 1..n + q} \cup {rs[k].len})
    <2> HIDE DEF f, n, rs
    <2> QED BY <1>140 DEF GoesOn
  <1>15. nlen_ = x + 1 /\ ndist_ = y + 1 /\ nlen_ + ndist_ = total
    BY <1>2, <1>8, <1>9
  <1> DEFINE read == Same(sent.l, SubSeq(lens, 1, nlen_))
                       /\ Same(sent.d, SubSeq(lens, nlen_ + 1, nlen_ + ndist_))
             bad == (Item(0) = 16 /\ lens_ = <<>>) \/ Len(lens) > nlen_ + ndist_
  <1>16. ~bad
    <2>1. ~(Len(lens) > nlen_ + ndist_)
      BY <1>11, <1>12, <1>14, <1>15
    <2> QED BY <1>6, <2>1
  <1>17. /\ sent' = sent /\ got' = got /\ tree' = tree /\ last_' = last_ /\ nlen_' = nlen_
         /\ ndist_' = ndist_ /\ at' = at + w
         /\ IF bad THEN mode' = "BAD" /\ UNCHANGED lens_
            ELSE /\ lens_' = lens
                 /\ mode' = IF Len(lens) < nlen_ + ndist_ THEN mode
                            ELSE IF lens[257] = 0 THEN "BAD"
                            ELSE IF read THEN "LEN" ELSE "lost"
    BY DEF CODELENS, Reads, compressor, ReadRun, RunOf
  <1>18. /\ lens_' = lens
         /\ mode' = IF n + q < total THEN "CODELENS"
                    ELSE IF lens[257] = 0 THEN "BAD"
                    ELSE IF read THEN "LEN" ELSE "lost"
    <2>1. Len(lens) = n + q /\ nlen_ + ndist_ = total
      BY <1>14, <1>15
    <2> HIDE DEF lens, read, bad, n
    <2> QED BY <1>1, <1>16, <1>17, <2>1, Zenon
  <1>19. TypeKnown' /\ got' = <<>>
    BY <1>2, <1>17 DEF TypeKnown
  <1>20. CASE n + q < total
    <2>1. PICK k2, i2 : AtRun(sent, k2, i2, at + w, n + q)
      BY <1>11, <1>20
    <2>2. mode' = "CODELENS"
      <3> HIDE DEF lens, read, n
      <3> QED BY <1>18, <1>20, Zenon
    <2>3. \E kk \in DOMAIN AllRuns(sent) : \E ii \in 0..6 :
             /\ StopsIn(AllRuns(sent)[kk], ii)
             /\ at' = HeadLen(sent) + Place(RunRows(sent), kk) + ii + 1
             /\ Len(lens_') = LensBefore(AllRuns(sent), kk) + ii
      <3>1. AllRuns(sent) = rs /\ RunRows(sent) = RunItems(sent) /\ DOMAIN rs = 1..Len(rs)
        BY <1>10, Places DEF RunItems, RunsRead
      <3>2. /\ k2 \in DOMAIN rs /\ i2 \in 0..6 /\ StopsIn(rs[k2], i2)
            /\ at + w = HeadLen(sent) + ElementsBefore(RunItems(sent), k2) + i2 + 1
            /\ n + q = LensBefore(rs, k2) + i2
        BY <2>1, <3>1 DEF AtRun
      <3>3. Len(lens_') = n + q
        BY <1>14, <1>18
      <3> HIDE DEF n, w, rs
      <3> QED BY <1>17, <3>1, <3>2, <3>3, Places
    <2>4. lens_' = [j \in 1..Len(lens_') |-> LensOf(sent)[j]]
      BY <1>14, <1>18
    <2>5. LensRead'
      <3>1. /\ sent'.kind = dynamic_trees /\ nlen_' = max_code(sent'.l) + 1
            /\ ndist_' = max_code(sent'.d) + 1
        BY <1>2, <1>17 DEF dynamic_trees
      <3>2. lens_' = [j \in 1..Len(lens_') |-> LensOf(sent')[j]]
        BY <1>17, <2>4
      <3>3. \E kk \in DOMAIN AllRuns(sent') : \E ii \in 0..6 :
             /\ StopsIn(AllRuns(sent')[kk], ii)
             /\ at' = HeadLen(sent') + Place(RunRows(sent'), kk) + ii + 1
             /\ Len(lens_') = LensBefore(AllRuns(sent'), kk) + ii
        BY <1>17, <2>3
      <3> QED BY <3>1, <3>2, <3>3 DEF LensRead
    <2> QED BY <1>19, <2>2, <2>5 DEF InMode
  <1>21. CASE ~(n + q < total)
    <2>1. n + q = total
      <3> HIDE DEF n
      <3> QED BY <1>11, <1>12, <1>21
    <2>2. Lengths(sent.l, 285) /\ Lengths(sent.d, 29) /\ sent.l[256] # 0
      <3>1. TreesOk(sent.l, sent.d, sent.bl)
        BY <1>7, TreesOfBlock, Zenon
      <3> QED BY <3>1, Zenon DEF TreesOk
    <2>3. lens = [j \in 1..total |-> f[j]] /\ Len(lens) = total
      BY <1>14, <2>1
    <2>4. Listed(sent.l, x, lens, 0) /\ Listed(sent.d, y, lens, x + 1)
      <3>1. \A j \in 1..total : lens[j] = f[j]
        BY <2>3
      <3> HIDE DEF lens, f
      <3>2. \A j \in 0..x : 0 + (j + 1) \in 1..total
        BY <1>9
      <3>3. \A j \in 0..y : (x + 1) + (j + 1) \in 1..total
        BY <1>9
      <3>4. Listed(sent.l, x, lens, 0)
        BY <1>10, <3>1, <3>2 DEF Listed
      <3>5. Listed(sent.d, y, lens, x + 1)
        BY <1>10, <3>1, <3>3 DEF Listed
      <3> QED BY <3>4, <3>5
    <2>5. lens[257] # 0
      <3>1. lens[0 + (256 + 1)] = sent.l[256]
        <4>1. 256 \in 0..x
          OBVIOUS
        <4> HIDE DEF lens
        <4> QED BY <2>4, <4>1 DEF Listed
      <3>2. 0 + (256 + 1) = 257
        OBVIOUS
      <3> HIDE DEF lens
      <3> QED BY <2>2, <3>1, <3>2
    <2>6. read
      <3> DEFINE S == {f[j] : j \in 1..n + q} \cup {rs[k].len}
      <3>1. lens \in Seq(S)
        BY <1>14
      <3> HIDE DEF lens, S
      <3>2. 0 \in Nat /\ x + 1 \in Nat /\ 0 + 1 = 1 /\ 0 + (x + 1) = x + 1 /\ 0 + (x + 1) <= total
            /\ (x + 1) + (y + 1) <= total
        BY <1>9
      <3>3. Same(sent.l, SubSeq(lens, 0 + 1, 0 + (x + 1)))
        BY <1>8, <2>2, <2>3, <2>4, <3>1, <3>2, SameAsListed, ZenonT(60)
      <3>4. Same(sent.d, SubSeq(lens, (x + 1) + 1, (x + 1) + (y + 1)))
        BY <1>8, <2>2, <2>3, <2>4, <3>1, <3>2, SameAsListed, ZenonT(60)
      <3> QED BY <1>9, <1>15, <3>2, <3>3, <3>4
    <2>7. mode' = "LEN"
      BY <1>18, <1>21, <2>5, <2>6
    <2>8. at' = SymbolsFrom(sent) + 1
      BY <1>11, <1>17, <2>1
    <2> QED BY <1>2, <1>17, <1>19, <2>7, <2>8, FirstSymbol
  <1> QED BY <1>20, <1>21

-----------------------------------------------------------------------------
(* The symbols *)

\* A block with codes for symbols.
LEMMA InsideCoded ==
    ASSUME Inside, sent.kind \in {1, 2}
    PROVE  /\ CodedLayout(sent) /\ TreesFor(sent.symbols, LTree(sent), DTree(sent))
           /\ Len(sent.symbols) \in Nat /\ DOMAIN sent.symbols = 1..Len(sent.symbols)
           /\ \A i \in 1..Len(sent.symbols) : sent.symbols[i] \in Symbol
  <1>1. Block(sent) /\ Layout(sent) /\ sent.symbols \in Seq(Symbol)
    BY InsideBlock
  <1>2. CodedLayout(sent)
    BY <1>1 DEF Layout
  <1>3. TreesFor(sent.symbols, LTree(sent), DTree(sent))
    BY <1>1, TreesOfBlock
  <1>4. /\ Len(sent.symbols) \in Nat /\ DOMAIN sent.symbols = 1..Len(sent.symbols)
        /\ \A i \in 1..Len(sent.symbols) : sent.symbols[i] \in Symbol
    BY <1>1
  <1> QED BY <1>2, <1>3, <1>4

\* What was sent for a symbol, after the first p items.
SymbolHere(s, row, p) ==
    /\ s \in Symbol /\ SymbolRow(s, row, LTree(sent), DTree(sent), sent.kind)
    /\ HasCodes(s, LTree(sent), DTree(sent))
    /\ p \in Nat /\ Len(row) \in Nat /\ Len(row) # 0 /\ Len(sent.items) \in Nat
    /\ \A j \in 1..Len(row) : sent.items[p + j] = row[j] /\ p + j <= Len(sent.items)
NextRow == SymbolsFrom(sent) + Place(RowsOf(sent), k_ + 1)

\* In the modes that read symbols, the items of the next symbol are where its row
\* begins.
LEMMA SymbolIsHere ==
    ASSUME Inside, SymbolsRead, Len(got) < Len(sent.symbols)
    PROVE  \E row : SymbolHere(SymbolAt, row, RowAt) /\ NextRow = RowAt + Len(row)
  <1> DEFINE rows == SymbolsOf(sent)
             l == LTree(sent)
             d == DTree(sent)
             n == Len(sent.symbols)
  <1>1. sent.kind \in {1, 2} /\ Len(got) \in 0..n
    BY DEF SymbolsRead, static_trees, dynamic_trees
  <1>2. /\ CodedLayout(sent) /\ TreesFor(sent.symbols, l, d) /\ n \in Nat
        /\ \A i \in 1..n : sent.symbols[i] \in Symbol
    BY <1>1, InsideCoded
  <1>3. PICK k \in 1..n : k = k_
    <2>1. PICK g \in Nat : g = Len(got) /\ g < n
      BY <1>1, <1>2
    <2>2. g + 1 \in 1..n
      BY <1>2, <2>1
    <2> QED BY <2>1, <2>2 DEF k_
  <1>4. /\ SymbolsHeld(sent.items, SymbolsFrom(sent), sent.symbols, l, d, sent.kind, rows)
        /\ SymbolsFrom(sent) \in Nat /\ Len(sent.items) \in Nat
    BY <1>2 DEF CodedLayout
  <1>5. Place(RowsOf(sent), k) = ElementsBefore(rows, k)
        /\ Place(RowsOf(sent), k + 1) = ElementsBefore(rows, k + 1)
    BY Places
  <1> HIDE DEF rows, l, d
  <1>6. PICK f \in Nat, e \in Nat, w \in Nat :
            f = SymbolsFrom(sent) /\ e = ElementsBefore(rows, k) /\ w = Len(rows[k])
    BY <1>3, <1>4 DEF SymbolsHeld
  <1>7. /\ ElementsBefore(rows, k + 1) = e + w
        /\ Holds(sent.items, f + e, rows[k])
        /\ SymbolRow(sent.symbols[k], rows[k], l, d, sent.kind)
    BY <1>3, <1>4, <1>6 DEF SymbolsHeld
  <1>8. RowAt = f + e /\ NextRow = f + (e + w)
    BY <1>3, <1>5, <1>6, <1>7 DEF RowAt, NextRow
  <1>9. NextRow = RowAt + Len(rows[k])
    <2>1. f + (e + w) = (f + e) + w
      BY <1>6
    <2> QED BY <1>6, <1>8, <2>1
  <1>10. SymbolAt = sent.symbols[k] /\ sent.symbols[k] \in Symbol /\ HasCodes(sent.symbols[k], l, d)
    BY <1>2, <1>3 DEF SymbolAt, TreesFor
  <1>11. \A j \in 1..w : sent.items[(f + e) + j] = rows[k][j] /\ (f + e) + j <= Len(sent.items)
    <2>1. \A j \in 1..w : sent.items[(f + e) + j] = rows[k][j]
      BY <1>6, <1>7 DEF Holds
    <2>2. PICK t \in Nat : t = Len(sent.items) /\ (f + e) + w <= t
      BY <1>4, <1>6, <1>7 DEF Holds
    <2>3. \A j \in 1..w : (f + e) + j <= t
      <3>1. \A x \in Nat : \A j \in 1..w : x + w <= t => x + j <= t
        BY ONLY w \in Nat, t \in Nat
      <3>2. f + e \in Nat
        BY ONLY f \in Nat, e \in Nat
      <3> QED BY <2>2, <3>1, <3>2
    <2> QED BY <2>1, <2>2, <2>3
  <1>12. Len(rows[k]) # 0
    BY <1>7, <1>10, SymbolRowLen
  <1>13. SymbolHere(SymbolAt, rows[k], RowAt)
    BY <1>4, <1>6, <1>7, <1>8, <1>10, <1>11, <1>12 DEF SymbolHere, l, d
  <1> QED BY <1>9, <1>13

\* The place after the last symbol is the end of the block.
LEMMA EndIsHere ==
    ASSUME Inside, SymbolsRead, ~(Len(got) < Len(sent.symbols))
    PROVE  /\ Len(got) = Len(sent.symbols) /\ RowAt \in Nat /\ Len(sent.items) \in Nat
           /\ RowAt + 1 = Len(sent.items)
           /\ sent.items[RowAt + 1] = send_code(end_block, "literal", sent.kind, LTree(sent))
           /\ LTree(sent)[end_block] \in Nat \ {0}
  <1> DEFINE rows == SymbolsOf(sent)
             l == LTree(sent)
             d == DTree(sent)
             n == Len(sent.symbols)
  <1>1. sent.kind \in {1, 2} /\ Len(got) \in 0..n
    BY DEF SymbolsRead, static_trees, dynamic_trees
  <1>2. /\ CodedLayout(sent) /\ TreesFor(sent.symbols, l, d) /\ n \in Nat
    BY <1>1, InsideCoded
  <1>3. Len(got) = n /\ k_ = n + 1
    BY <1>1, <1>2 DEF k_
  <1>4. /\ SymbolsHeld(sent.items, SymbolsFrom(sent), sent.symbols, l, d, sent.kind, rows)
        /\ SymbolsFrom(sent) \in Nat /\ Len(sent.items) \in Nat
        /\ Len(sent.items) = SymbolsFrom(sent) + (ElementsBefore(rows, n + 1) + 1)
    BY <1>2 DEF CodedLayout, EndOfSymbols
  <1>5. RowAt = SymbolsFrom(sent) + ElementsBefore(rows, n + 1)
    BY <1>3, Places DEF RowAt
  <1> HIDE DEF rows, l, d
  <1>6. PICK f \in Nat, e \in Nat : f = SymbolsFrom(sent) /\ e = ElementsBefore(rows, n + 1)
    BY <1>4 DEF SymbolsHeld
  <1>7. sent.items[f + (e + 1)] = send_code(end_block, "literal", sent.kind, l)
    BY <1>4, <1>6 DEF SymbolsHeld
  <1>8. f + (e + 1) = (f + e) + 1 /\ f + e \in Nat
    BY <1>6
  <1>9. RowAt + 1 = Len(sent.items) /\ RowAt \in Nat /\ RowAt + 1 = f + (e + 1)
    BY <1>4, <1>5, <1>6, <1>8
  <1>10. l[end_block] \in Nat \ {0}
    BY <1>2 DEF TreesFor
  <1> QED BY <1>3, <1>4, <1>7, <1>9, <1>10 DEF l

\* When a symbol has been read the next one is.
LEMMA SymbolGot ==
    ASSUME Inside, SymbolsRead, Len(got) < Len(sent.symbols), sent' = sent, TypeKnown',
           got' = Append(got, Sent(SymbolAt)), at' = NextRow + 1, mode' = "LEN"
    PROVE  InMode'
  <1> DEFINE F(n) == [i \in 1..n |-> Sent(sent.symbols[i])]
             n == Len(sent.symbols)
  <1>1. sent.kind \in {1, 2} /\ Len(got) \in 0..n /\ got = F(Len(got))
    BY DEF SymbolsRead, static_trees, dynamic_trees
  <1>2. n \in Nat
    BY <1>1, InsideCoded
  <1>3. PICK g \in Nat : g = Len(got) /\ g < n
    <2>1. Len(got) \in 0..n
      BY <1>1
    <2> QED BY <1>2, <2>1
  <1>4. got = F(g) /\ SymbolAt = sent.symbols[g + 1]
    BY <1>1, <1>3 DEF SymbolAt, k_
  <1>5. Append(F(g), Sent(sent.symbols[g + 1])) = F(g + 1) /\ Len(F(g + 1)) = g + 1
    BY <1>3
  <1>6. got' = F(g + 1) /\ Len(got') = g + 1
    BY <1>4, <1>5
  <1>7. g + 1 \in 0..n
    BY <1>2, <1>3
  <1>8. SymbolsRead'
    <2>1. sent'.kind \in {static_trees, dynamic_trees} /\ Len(got') \in 0..Len(sent'.symbols)
      BY <1>1, <1>6, <1>7 DEF static_trees, dynamic_trees
    <2>2. got' = [i \in 1..Len(got') |-> Sent(sent'.symbols[i])]
      BY <1>6
    <2> QED BY <2>1, <2>2 DEF SymbolsRead
  <1>9. (RowAt + 1)' = NextRow + 1
    <2>1. (RowAt + 1)' = SymbolsFrom(sent) + Place(RowsOf(sent), Len(got') + 1) + 1
      BY DEF RowAt, k_
    <2>2. NextRow = SymbolsFrom(sent) + Place(RowsOf(sent), Len(got) + 1 + 1)
      BY DEF NextRow, k_
    <2> QED BY <1>3, <1>6, <2>1, <2>2
  <1> QED BY <1>8, <1>9 DEF InMode
\* The code that comes next.
NextCode == IF Len(got) < Len(sent.symbols) THEN LiteralCode(SymbolAt) ELSE end_block

\* In the mode LEN the code of the next symbol is read, or the end of the block.
LEMMA LenRead ==
    ASSUME Inside, mode = "LEN"
    PROVE  /\ Readable /\ Len(Wanted) = 1 /\ TypeKnown /\ SymbolsRead /\ at = RowAt + 1
           /\ Item(0) = NextCode
  <1>1. TypeKnown /\ SymbolsRead /\ at = RowAt + 1 /\ tree = sent.kind
    BY InsideBlock DEF InMode, TypeKnown
  <1>2. Wanted = <<CodeOf("literal")>>
    BY DEF Wanted
  <1>3. SUFFICES ASSUME NEW l, l = LTree(sent)
                 PROVE  /\ at \in Nat /\ Len(sent.items) \in Nat /\ at <= Len(sent.items)
                        /\ \E c : /\ sent.items[at] = send_code(c, "literal", sent.kind, l)
                                  /\ l[c] \in Nat \ {0} /\ c = NextCode
    <2>1. PICK c : /\ sent.items[at] = send_code(c, "literal", sent.kind, LTree(sent))
                   /\ LTree(sent)[c] \in Nat \ {0} /\ c = NextCode
      BY <1>3
    <2>2. at \in Nat /\ Len(sent.items) \in Nat /\ at <= Len(sent.items)
      BY <1>3
    <2>3. Matches(sent.items[at], CodeOf("literal"))
      BY <1>1, <2>1, CodeMatches
    <2>4. Readable /\ Len(Wanted) = 1
      BY <1>2, <2>2, <2>3, ReadsOne
    <2>5. at + 0 = at
      BY <2>2
    <2>6. Item(0) = c
      BY <2>1, <2>5 DEF Item, send_code
    <2> QED BY <1>1, <2>1, <2>4, <2>6
  <1>4. CASE Len(got) < Len(sent.symbols)
    <2>1. PICK row : SymbolHere(SymbolAt, row, RowAt)
      BY <1>1, <1>4, SymbolIsHere
    <2>2. PICK p \in Nat, t \in Nat : p = RowAt /\ t = Len(sent.items) /\ 1 \in 1..Len(row)
      <3>1. Len(row) \in Nat /\ Len(row) # 0 /\ RowAt \in Nat /\ Len(sent.items) \in Nat
        BY <2>1 DEF SymbolHere
      <3>2. \A n \in Nat : n # 0 => 1 \in 1..n
        OBVIOUS
      <3>3. 1 \in 1..Len(row)
        BY <3>1, <3>2
      <3> QED BY <3>1, <3>3
    <2>3. sent.items[p + 1] = row[1] /\ p + 1 <= t
      BY <2>1, <2>2 DEF SymbolHere
    <2>4. SymbolRow(SymbolAt, row, l, DTree(sent), sent.kind) /\ HasCodes(SymbolAt, l, DTree(sent))
      BY <1>3, <2>1 DEF SymbolHere
    <2>5. row[1] = send_code(LiteralCode(SymbolAt), "literal", sent.kind, l)
      <3>1. CASE IsMatch(SymbolAt)
        <4>1. LiteralCode(SymbolAt) = length_code[SymbolAt.len] + literals + 1
          BY <3>1 DEF IsMatch, LiteralCode
        <4> QED BY <2>4, <3>1, <4>1 DEF SymbolRow
      <3>2. CASE ~IsMatch(SymbolAt)
        <4>1. LiteralCode(SymbolAt) = SymbolAt.len
          BY <3>2 DEF IsMatch, LiteralCode
        <4> QED BY <2>4, <3>2, <4>1 DEF SymbolRow
      <3> QED BY <3>1, <3>2
    <2>6. l[LiteralCode(SymbolAt)] \in Nat \ {0}
      BY <2>4 DEF HasCodes
    <2>7. LiteralCode(SymbolAt) = NextCode
      BY <1>4 DEF NextCode
    <2>8. at = p + 1 /\ p + 1 \in Nat
      BY <1>1, <2>2
    <2> QED BY <2>2, <2>3, <2>5, <2>6, <2>7, <2>8
  <1>5. CASE ~(Len(got) < Len(sent.symbols))
    <2>1. /\ RowAt \in Nat /\ Len(sent.items) \in Nat /\ RowAt + 1 = Len(sent.items)
          /\ sent.items[RowAt + 1] = send_code(end_block, "literal", sent.kind, l)
          /\ l[end_block] \in Nat \ {0}
      BY <1>1, <1>3, <1>5, EndIsHere
    <2>2. end_block = NextCode
      BY <1>5 DEF NextCode
    <2> QED BY <1>1, <2>1, <2>2
  <1> QED BY <1>4, <1>5

\* A byte is itself on both sides.
LEMMA ByteIs ==
    ASSUME NEW s \in Symbol, ~IsMatch(s)
    PROVE  Sent(s) = s /\ Byte(s.len) = s /\ LiteralCode(s) = s.len /\ s.len \in 0..255
  <1>1. s.dist = 0 /\ s = [len |-> s.len, dist |-> s.dist]
    BY DEF IsMatch, Symbol
  <1>2. s.len \in 0..255
    BY SymbolFields
  <1> QED BY <1>1, <1>2 DEF Sent, Byte, LiteralCode

\* A match is read with its length, which is sent without the first 3.
LEMMA MatchIs ==
    ASSUME NEW s \in Symbol, IsMatch(s)
    PROVE  /\ Sent(s) = [len |-> s.len + 3, dist |-> s.dist]
           /\ LiteralCode(s) = length_code[s.len] + 257 /\ LengthRead(s.len, length_code[s.len])
           /\ DistanceRead(s.dist - 1, DistanceCode(s)) /\ DistanceCode(s) = d_code(s.dist - 1)
           /\ s.len \in 0..255 /\ s.dist \in Nat /\ s.dist # 0
  <1>1. s.dist # 0 /\ s = [len |-> s.len, dist |-> s.dist]
    BY DEF IsMatch, Symbol
  <1>2. s.len \in 0..255 /\ s.dist \in Nat /\ s.dist <= 32768
    BY SymbolFields
  <1>3. Sent(s) = [len |-> s.len + 3, dist |-> s.dist]
    BY <1>1 DEF Sent
  <1>4. LengthRead(s.len, length_code[s.len])
    BY LengthCodeOf
  <1>5. PICK e \in Nat : e = s.dist - 1 /\ e < 32768
    <2>1. PICK e \in Nat : e = s.dist
      BY <1>2
    <2>2. e - 1 \in Nat /\ e - 1 < 32768
      BY <1>1, <1>2, <2>1
    <2> QED BY <2>1, <2>2
  <1>6. DistanceRead(s.dist - 1, DistanceCode(s)) /\ DistanceCode(s) = d_code(s.dist - 1)
    BY <1>5, DistanceCodes DEF DistanceCode
  <1>7. LiteralCode(s) = length_code[s.len] + 257
    <2>1. length_code[s.len] \in Nat
      BY <1>4 DEF LengthRead, length_codes
    <2>2. LiteralCode(s) = length_code[s.len] + 256 + 1
      BY <1>1 DEF LiteralCode, literals
    <2> QED BY <2>1, <2>2
  <1> QED BY <1>1, <1>2, <1>3, <1>4, <1>6, <1>7
\* What LEN does, by the code that it reads.
LEMMA LenIs ==
    ASSUME LEN, NEW v \in Nat, v = Item(0)
    PROVE  /\ mode = "LEN" /\ sent' = sent /\ tree' = tree /\ last_' = last_
           /\ at' = at + Len(Wanted)
           /\ v < 256 => got' = Append(got, Byte(v)) /\ mode' = mode
           /\ v = 256 => got' = got /\ mode' = EndOfBlock
           /\ v > 256 => /\ got' = got /\ length_' = lbase[v - 256]
                         /\ extra_' = lext[v - 256] % 16
                         /\ mode' = IF extra_' = 0 THEN "DIST" ELSE "LENEXT"
  <1>1. /\ mode = "LEN" /\ sent' = sent /\ tree' = tree /\ last_' = last_
        /\ at' = at + Len(Wanted)
    BY DEF LEN, Reads, compressor
  <1>2. (CASE v < 256 -> /\ got' = Append(got, Byte(v))
                        /\ UNCHANGED <<mode, length_, extra_>>
          [] v = 256 -> /\ mode' = EndOfBlock
                        /\ UNCHANGED <<got, length_, extra_>>
          [] OTHER   -> /\ length_' = lbase[v - 256]
                        /\ extra_' = lext[v - 256] % 16
                        /\ mode' = IF extra_' = 0 THEN "DIST" ELSE "LENEXT"
                        /\ UNCHANGED got)
    BY DEF LEN
  <1>3. CASE v < 256
    <2>1. ~(v = 256) /\ ~(v > 256)
      BY <1>3
    <2> QED BY <1>1, <1>2, <1>3, <2>1, Zenon
  <1>4. CASE v = 256
    <2>1. ~(v < 256) /\ ~(v > 256)
      BY <1>4
    <2> QED BY <1>1, <1>2, <1>4, <2>1, Zenon
  <1>5. CASE v > 256
    <2>1. ~(v = 256) /\ ~(v < 256)
      BY <1>5
    <2> QED BY <1>1, <1>2, <1>5, <2>1, Zenon
  <1>6. v < 256 \/ v = 256 \/ v > 256
    OBVIOUS
  <1> QED BY <1>3, <1>4, <1>5, <1>6

\* The end of the block comes after the last symbol.
LEMMA EndStep ==
    ASSUME Inside, SymbolsRead, ~(Len(got) < Len(sent.symbols)), at = RowAt + 1, sent' = sent,
           got' = got, at' = at + 1, mode' = EndOfBlock
    PROVE  InMode'
  <1>1. Len(got) = Len(sent.symbols) /\ RowAt \in Nat /\ RowAt + 1 = Len(sent.items)
    BY EndIsHere
  <1>2. sent.kind \in {1, 2} /\ got = [i \in 1..Len(got) |-> Sent(sent.symbols[i])]
    BY DEF SymbolsRead, static_trees, dynamic_trees
  <1>3. DOMAIN sent.symbols = 1..Len(sent.symbols)
    BY <1>2, InsideCoded
  <1>4. Symbols = [i \in DOMAIN sent.symbols |-> Sent(sent.symbols[i])]
    BY <1>2 DEF Symbols, stored_blocks
  <1>5. got = Symbols
    BY <1>1, <1>2, <1>3, <1>4
  <1>6. Symbols' = Symbols
    BY DEF Symbols
  <1>7. at' = Len(sent'.items) + 1
    BY <1>1
  <1> QED BY <1>5, <1>6, <1>7, EndsBlock DEF AtEnd

\* LEN takes a literal, begins a match or ends the block.
LEMMA LenStep ==
    ASSUME Inside, LEN
    PROVE  InMode'
  <1>1. mode = "LEN"
    BY DEF LEN, Reads
  <1>2. Len(Wanted) = 1 /\ TypeKnown /\ SymbolsRead /\ at = RowAt + 1 /\ Item(0) = NextCode
    BY <1>1, LenRead
  <1>3. CASE ~(Len(got) < Len(sent.symbols))
    <2>1. PICK v \in Nat : v = Item(0) /\ v = 256
      BY <1>2, <1>3 DEF NextCode, end_block
    <2>2. got' = got /\ mode' = EndOfBlock /\ sent' = sent /\ at' = at + 1
      BY <1>2, <2>1, LenIs
    <2> QED BY <1>2, <1>3, <2>2, EndStep
  <1>4. CASE Len(got) < Len(sent.symbols)
    <2> DEFINE s == SymbolAt
    <2>1. PICK row : SymbolHere(SymbolAt, row, RowAt) /\ NextRow = RowAt + Len(row)
      BY <1>2, <1>4, SymbolIsHere
    <2>2. PICK p \in Nat : p = RowAt
      BY <2>1 DEF SymbolHere
    <2>3. SymbolAt \in Symbol /\ SymbolRow(SymbolAt, row, LTree(sent), DTree(sent), sent.kind)
      BY <2>1 DEF SymbolHere
    <2>4. Item(0) = LiteralCode(SymbolAt)
      BY <1>2, <1>4 DEF NextCode
    <2>5. CASE ~IsMatch(SymbolAt)
      <3>1. PICK v \in 0..255 : v = SymbolAt.len /\ v = Item(0)
        BY <2>3, <2>4, <2>5, ByteIs
      <3>2. v \in Nat /\ v < 256
        OBVIOUS
      <3>3. /\ got' = Append(got, Byte(v)) /\ mode' = "LEN" /\ sent' = sent /\ at' = at + 1
            /\ tree' = tree /\ last_' = last_
        BY <1>1, <1>2, <3>1, <3>2, LenIs
      <3>4. Byte(v) = Sent(SymbolAt)
        BY <2>3, <2>5, <3>1, ByteIs
      <3>5. NextRow = RowAt + 1
        BY <2>1, <2>3, <2>5 DEF SymbolRow
      <3>6. at' = NextRow + 1
        BY <1>2, <3>3, <3>5
      <3>7. TypeKnown'
        BY <1>2, <3>3 DEF TypeKnown
      <3> QED BY <1>2, <1>4, <3>3, <3>4, <3>6, <3>7, SymbolGot
    <2>6. CASE IsMatch(SymbolAt)
      <3> DEFINE c == length_code[SymbolAt.len]
      <3>1. LiteralCode(SymbolAt) = c + 257 /\ LengthRead(SymbolAt.len, c)
        BY <2>3, <2>6, MatchIs
      <3>2. PICK k \in Nat : k = c /\ k \in 0..28
        BY <3>1 DEF LengthRead, length_codes
      <3>3. PICK v \in Nat : v = Item(0) /\ v = k + 257
        BY <2>4, <3>1, <3>2
      <3>4. v > 256 /\ v - 256 = k + 1
        BY <3>3
      <3>5. /\ got' = got /\ sent' = sent /\ at' = at + 1 /\ tree' = tree /\ last_' = last_
            /\ length_' = lbase[k + 1] /\ extra_' = lext[k + 1] % 16
            /\ mode' = IF extra_' = 0 THEN "DIST" ELSE "LENEXT"
        BY <1>2, <3>3, <3>4, LenIs
      <3>6. extra_' = extra_lbits[k]
        BY <3>1, <3>2, <3>5 DEF LengthRead
      <3>7. TypeKnown' /\ SymbolsRead' /\ SymbolAt' = SymbolAt /\ RowAt' = RowAt
            /\ (Len(got) < Len(sent.symbols))'
        BY <1>2, <1>4, <3>5 DEF TypeKnown, SymbolsRead, SymbolAt, RowAt, k_
      <3>8. MatchAt'
        BY <2>6, <3>7 DEF MatchAt
      <3>9. at' = p + 2 /\ p + 2 = p + 1 + 1
        BY <1>2, <2>2, <3>5
      <3>10. CASE extra_lbits[k] = 0
        <4>1. mode' = "DIST"
          BY <3>5, <3>6, <3>10
        <4>2. LengthItems = 1
          BY <3>2, <3>10 DEF LengthItems
        <4>3. LengthItems' = LengthItems
          BY <3>7 DEF LengthItems
        <4>4. length_' = SymbolAt.len + 3
          BY <3>1, <3>2, <3>5, <3>10 DEF LengthRead
        <4>5. at' = RowAt' + LengthItems' + 1
          BY <2>2, <3>7, <3>9, <4>2, <4>3
        <4>6. length_' = SymbolAt'.len + 3
          BY <3>7, <4>4
        <4> QED BY <3>7, <3>8, <4>1, <4>5, <4>6 DEF InMode
      <3>11. CASE extra_lbits[k] # 0
        <4>1. mode' = "LENEXT"
          BY <3>5, <3>6, <3>11
        <4>2. length_' = base_length[k] + 3
          BY <3>1, <3>2, <3>5, <3>11 DEF LengthRead
        <4>3. at' = RowAt' + 2
          BY <2>2, <3>7, <3>9
        <4>4. length_code[SymbolAt'.len] = k
          BY <3>2, <3>7
        <4> QED BY <3>6, <3>7, <3>8, <3>11, <4>1, <4>2, <4>3, <4>4 DEF InMode
      <3> QED BY <3>10, <3>11
    <2> QED BY <2>5, <2>6
  <1> QED BY <1>3, <1>4
\* A match is sent as its length and its distance, each with the bits after the code.
MatchSent(s, p, n, t, next) ==
    LET c  == length_code[s.len]
        dc == DistanceCode(s)
    IN  /\ n \in {1, 2} /\ n = LengthItemsOf(s) /\ p \in Nat /\ t \in Nat /\ p + n + 1 <= t
        /\ n = IF extra_lbits[c] = 0 THEN 1 ELSE 2
        /\ extra_lbits[c] # 0 =>
              sent.items[p + 2] = send_bits(s.len - base_length[c], extra_lbits[c])
        /\ sent.items[p + (n + 1)] = send_code(dc, "distance", sent.kind, DTree(sent))
        /\ DTree(sent)[dc] \in Nat \ {0}
        /\ extra_dbits[dc] # 0 =>
              /\ sent.items[p + (n + 2)] = send_bits((s.dist - 1) - base_dist[dc], extra_dbits[dc])
              /\ p + n + 2 <= t
        /\ next = p + n + IF extra_dbits[dc] = 0 THEN 1 ELSE 2

\* In the middle of a match, the items of the match are where its row begins.
LEMMA MatchIsHere ==
    ASSUME Inside, MatchAt
    PROVE  /\ MatchSent(SymbolAt, RowAt, LengthItems, Len(sent.items), NextRow)
           /\ SymbolAt \in Symbol /\ IsMatch(SymbolAt)
  <1>1. SymbolsRead /\ Len(got) < Len(sent.symbols) /\ IsMatch(SymbolAt)
    BY DEF MatchAt
  <1>2. PICK row : SymbolHere(SymbolAt, row, RowAt) /\ NextRow = RowAt + Len(row)
    BY <1>1, SymbolIsHere
  <1>3. PICK s : s = SymbolAt
    OBVIOUS
  <1>4. PICK n \in {1, 2} : n = LengthItemsOf(s)
    BY DEF LengthItemsOf
  <1>5. LengthItems = n
    BY <1>3, <1>4 DEF LengthItems, LengthItemsOf
  <1> DEFINE c == length_code[s.len]
             dc == DistanceCode(s)
  <1>6. PICK p \in Nat, t \in Nat, w \in Nat : p = RowAt /\ t = Len(sent.items) /\ w = Len(row)
    BY <1>2 DEF SymbolHere
  <1>7. /\ SymbolRow(s, row, LTree(sent), DTree(sent), sent.kind)
        /\ HasCodes(s, LTree(sent), DTree(sent)) /\ s \in Symbol
        /\ \A j \in 1..w : sent.items[p + j] = row[j] /\ p + j <= t
    BY <1>2, <1>3, <1>6 DEF SymbolHere
  <1>8. dc = d_code(s.dist - 1)
    BY DEF DistanceCode
  <1> HIDE DEF c, dc
  <1>9. /\ extra_lbits[c] # 0 => row[2] = send_bits(s.len - base_length[c], extra_lbits[c])
        /\ row[n + 1] = send_code(dc, "distance", sent.kind, DTree(sent))
        /\ extra_dbits[dc] # 0 =>
              row[n + 2] = send_bits((s.dist - 1) - base_dist[dc], extra_dbits[dc])
        /\ w = n + (IF extra_dbits[dc] = 0 THEN 1 ELSE 2)
    BY <1>1, <1>3, <1>4, <1>6, <1>7, <1>8 DEF SymbolRow, c
  <1>10. n = IF extra_lbits[c] = 0 THEN 1 ELSE 2
    BY <1>4 DEF LengthItemsOf, c
  <1>11. DTree(sent)[dc] \in Nat \ {0}
    BY <1>1, <1>3, <1>7 DEF HasCodes, dc
  <1>12. n + 1 \in 1..w /\ (n = 2 => 2 \in 1..w) /\ (extra_dbits[dc] # 0 => n + 2 \in 1..w)
    BY <1>9
  <1>13. p + (n + 1) <= t /\ p + (n + 1) = p + n + 1 /\ p + (n + 2) = p + n + 2
    BY <1>7, <1>12
  <1>14. sent.items[p + (n + 1)] = row[n + 1]
    BY <1>7, <1>12
  <1>15. extra_lbits[c] # 0 => sent.items[p + 2] = row[2]
    <2>1. extra_lbits[c] # 0 => 2 \in 1..w
      BY <1>10, <1>12
    <2> QED BY <1>7, <2>1
  <1>16. extra_dbits[dc] # 0 => sent.items[p + (n + 2)] = row[n + 2] /\ p + (n + 2) <= t
    BY <1>7, <1>12
  <1>17. NextRow = p + n + IF extra_dbits[dc] = 0 THEN 1 ELSE 2
    <2>1. NextRow = p + w
      BY <1>2, <1>6
    <2>2. CASE extra_dbits[dc] = 0
      BY <1>9, <2>1, <2>2
    <2>3. CASE extra_dbits[dc] # 0
      BY <1>9, <2>1, <2>3
    <2> QED BY <2>2, <2>3
  <1>18. MatchSent(s, p, n, t, NextRow)
    BY <1>4, <1>9, <1>10, <1>11, <1>13, <1>14, <1>15, <1>16, <1>17 DEF MatchSent, c, dc
  <1> QED BY <1>1, <1>3, <1>5, <1>6, <1>7, <1>18

\* A value is read with as many bits as were sent.
LEMMA ReadsValue ==
    ASSUME NEW n, Wanted = <<ValueOf(n)>>, NEW p \in Nat, NEW t \in Nat, p <= t, at = p,
           t = Len(sent.items), NEW x, sent.items[p] = send_bits(x, n)
    PROVE  Readable /\ Len(Wanted) = 1 /\ Item(0) = x
  <1>1. Matches(sent.items[at], ValueOf(n))
    BY ValueMatches
  <1>2. Readable /\ Len(Wanted) = 1
    BY <1>1, ReadsOne
  <1>3. at + 0 = p
    OBVIOUS
  <1> QED BY <1>2, <1>3 DEF Item, send_bits

\* In the mode LENEXT the extra bits of the length are read.
LEMMA LenExtRead ==
    ASSUME Inside, mode = "LENEXT"
    PROVE  /\ Readable /\ Len(Wanted) = 1 /\ TypeKnown /\ MatchAt /\ at = RowAt + 2
           /\ extra_lbits[length_code[SymbolAt.len]] # 0
           /\ length_ = base_length[length_code[SymbolAt.len]] + 3
           /\ Item(0) = SymbolAt.len - base_length[length_code[SymbolAt.len]]
  <1> DEFINE c == length_code[SymbolAt.len]
  <1>1. /\ TypeKnown /\ MatchAt /\ at = RowAt + 2 /\ extra_ = extra_lbits[c] /\ extra_ # 0
        /\ length_ = base_length[c] + 3
    BY InsideBlock DEF InMode
  <1>2. MatchSent(SymbolAt, RowAt, LengthItems, Len(sent.items), NextRow)
    BY <1>1, MatchIsHere
  <1>3. PICK p \in Nat, t \in Nat, n \in {1, 2} :
            p = RowAt /\ t = Len(sent.items) /\ n = LengthItems /\ p + n + 1 <= t
    BY <1>2 DEF MatchSent
  <1>4. sent.items[p + 2] = send_bits(SymbolAt.len - base_length[c], extra_lbits[c])
    BY <1>1, <1>2, <1>3 DEF MatchSent
  <1>5. p + 2 \in Nat /\ p + 2 <= t
    BY <1>3
  <1>6. Wanted = <<ValueOf(extra_lbits[c])>>
    BY <1>1 DEF Wanted
  <1>7. at = p + 2
    BY <1>1, <1>3
  <1> HIDE DEF c
  <1>8. Readable /\ Len(Wanted) = 1 /\ Item(0) = SymbolAt.len - base_length[c]
    BY <1>3, <1>4, <1>5, <1>6, <1>7, ReadsValue
  <1> QED BY <1>1, <1>8 DEF c

\* A length comes apart into the base of its code and the extra bits.
LEMMA Together ==
    ASSUME NEW l \in Int, NEW b \in Int, NEW a \in Int
    PROVE  (b + a) + (l - b) = l + a
  OBVIOUS

\* LENEXT makes the length that was tallied.
LEMMA LenExtStep ==
    ASSUME Inside, LENEXT
    PROVE  InMode'
  <1> DEFINE c == length_code[SymbolAt.len]
  <1>1. mode = "LENEXT"
    BY DEF LENEXT, Reads
  <1>2. /\ Len(Wanted) = 1 /\ TypeKnown /\ MatchAt /\ at = RowAt + 2 /\ extra_lbits[c] # 0
        /\ length_ = base_length[c] + 3 /\ Item(0) = SymbolAt.len - base_length[c]
    BY <1>1, LenExtRead
  <1>3. /\ MatchSent(SymbolAt, RowAt, LengthItems, Len(sent.items), NextRow)
        /\ SymbolAt \in Symbol /\ IsMatch(SymbolAt)
    BY <1>2, MatchIsHere
  <1>4. LengthRead(SymbolAt.len, c) /\ SymbolAt.len \in 0..255
    BY <1>3, MatchIs
  <1>5. /\ sent' = sent /\ got' = got /\ tree' = tree /\ last_' = last_ /\ mode' = "DIST"
        /\ at' = at + 1 /\ length_' = length_ + Item(0)
    BY <1>2 DEF LENEXT, Reads, compressor
  <1>6. length_' = SymbolAt.len + 3
    <2>1. base_length[c] \in Int /\ SymbolAt.len \in Int
      BY <1>2, <1>4 DEF LengthRead
    <2>2. length_' = (base_length[c] + 3) + (SymbolAt.len - base_length[c])
      BY <1>2, <1>5
    <2> QED BY <2>1, <2>2, Together
  <1>7. TypeKnown' /\ SymbolsRead' /\ SymbolAt' = SymbolAt /\ RowAt' = RowAt /\ MatchAt'
        /\ LengthItems' = LengthItems
    BY <1>2, <1>5 DEF TypeKnown, SymbolsRead, SymbolAt, RowAt, k_, MatchAt, LengthItems
  <1>8. LengthItems = 2 /\ RowAt \in Nat
    BY <1>2, <1>3 DEF MatchSent
  <1>9. at' = RowAt + 2 + 1
    BY <1>2, <1>5
  <1>10. at' = RowAt' + LengthItems' + 1
    BY <1>7, <1>8, <1>9
  <1>11. length_' = SymbolAt'.len + 3
    BY <1>6, <1>7
  <1> QED BY <1>5, <1>7, <1>10, <1>11 DEF InMode
\* In the mode DIST the code of the distance is read.
LEMMA DistRead ==
    ASSUME Inside, mode = "DIST"
    PROVE  /\ Readable /\ Len(Wanted) = 1 /\ TypeKnown /\ MatchAt /\ at = RowAt + LengthItems + 1
           /\ length_ = SymbolAt.len + 3 /\ Item(0) = DistanceCode(SymbolAt)
  <1> DEFINE dc == DistanceCode(SymbolAt)
  <1>1. /\ TypeKnown /\ MatchAt /\ at = RowAt + LengthItems + 1 /\ length_ = SymbolAt.len + 3
        /\ tree = sent.kind
    BY InsideBlock DEF InMode, TypeKnown
  <1>2. MatchSent(SymbolAt, RowAt, LengthItems, Len(sent.items), NextRow)
    BY <1>1, MatchIsHere
  <1>3. PICK p \in Nat, t \in Nat, n \in {1, 2} :
            p = RowAt /\ t = Len(sent.items) /\ n = LengthItems /\ p + n + 1 <= t
    BY <1>2 DEF MatchSent
  <1>4. /\ sent.items[p + (n + 1)] = send_code(dc, "distance", sent.kind, DTree(sent))
        /\ DTree(sent)[dc] \in Nat \ {0}
    BY <1>2, <1>3 DEF MatchSent
  <1>5. at = p + (n + 1) /\ p + (n + 1) \in Nat /\ p + (n + 1) <= t
    BY <1>1, <1>3
  <1>6. Wanted = <<CodeOf("distance")>>
    BY <1>1 DEF Wanted
  <1> HIDE DEF dc
  <1>7. Matches(sent.items[at], CodeOf("distance"))
    BY <1>1, <1>4, <1>5, CodeMatches
  <1>8. Readable /\ Len(Wanted) = 1
    BY <1>3, <1>5, <1>6, <1>7, ReadsOne
  <1>9. at + 0 = at
    BY <1>5
  <1>10. Item(0) = dc
    BY <1>4, <1>5, <1>9 DEF Item, send_code
  <1> QED BY <1>1, <1>8, <1>10 DEF dc

\* A match that was read is the one that was tallied.
LEMMA MatchGot ==
    ASSUME Inside, MatchAt, sent' = sent, tree' = tree, last_' = last_, TypeKnown, mode' = "LEN",
           NEW x, x = SymbolAt.dist, got' = Append(got, [len |-> SymbolAt.len + 3, dist |-> x]),
           at' = NextRow + 1
    PROVE  InMode'
  <1>1. SymbolAt \in Symbol /\ IsMatch(SymbolAt)
    BY MatchIsHere
  <1>2. got' = Append(got, Sent(SymbolAt))
    BY <1>1, MatchIs
  <1>3. TypeKnown'
    BY DEF TypeKnown
  <1> QED BY <1>2, <1>3, SymbolGot DEF MatchAt

\* DIST takes the base of the distance.
LEMMA DistStep ==
    ASSUME Inside, DIST
    PROVE  InMode'
  <1> DEFINE dc == DistanceCode(SymbolAt)
  <1>1. mode = "DIST"
    BY DEF DIST, Reads
  <1>2. /\ Len(Wanted) = 1 /\ TypeKnown /\ MatchAt /\ at = RowAt + LengthItems + 1
        /\ length_ = SymbolAt.len + 3 /\ Item(0) = dc
    BY <1>1, DistRead
  <1>3. /\ MatchSent(SymbolAt, RowAt, LengthItems, Len(sent.items), NextRow)
        /\ SymbolAt \in Symbol /\ IsMatch(SymbolAt)
    BY <1>2, MatchIsHere
  <1>4. DistanceRead(SymbolAt.dist - 1, dc) /\ SymbolAt.dist \in Nat
    BY <1>3, MatchIs
  <1>5. PICK k \in 0..29 : k = dc
    BY <1>4 DEF DistanceRead, dcodes
  <1>6. /\ sent' = sent /\ tree' = tree /\ last_' = last_ /\ at' = at + 1 /\ length_' = length_
        /\ offset_' = dbase[dc + 1] /\ extra_' = dext[dc + 1] % 16
        /\ IF extra_' = 0
           THEN got' = Append(got, [len |-> length_, dist |-> offset_']) /\ mode' = "LEN"
           ELSE mode' = "DISTEXT" /\ got' = got
    BY <1>2 DEF DIST, Reads, Match, compressor
  <1>7. PICK b \in Nat, y \in Nat : /\ b = base_dist[dc] /\ y = SymbolAt.dist
                                    /\ y - 1 - b \in 0..2^extra_dbits[dc] - 1
    BY <1>4 DEF DistanceRead
  <1>8. extra_' = extra_dbits[dc] /\ offset_' = b + 1
    BY <1>4, <1>6, <1>7 DEF DistanceRead
  <1>9. PICK p \in Nat, n \in {1, 2} : p = RowAt /\ n = LengthItems
    BY <1>3 DEF MatchSent
  <1>10. at' = p + n + 2
    BY <1>2, <1>6, <1>9
  <1>11. NextRow = p + n + IF extra_dbits[dc] = 0 THEN 1 ELSE 2
    BY <1>3, <1>9 DEF MatchSent
  <1> HIDE DEF dc
  <1>12. CASE extra_dbits[dc] = 0
    <2>1. y - 1 - b \in 0..0
      <3>1. 2^extra_dbits[dc] - 1 = 0
        BY <1>12, Powers
      <3> QED BY <1>7, <3>1
    <2>2. y = b + 1
      BY <1>7, <2>1
    <2>3. at' = NextRow + 1
      BY <1>9, <1>10, <1>11, <1>12
    <2>4. mode' = "LEN" /\ got' = Append(got, [len |-> SymbolAt.len + 3, dist |-> y])
      BY <1>2, <1>6, <1>8, <1>12, <2>2
    <2> QED BY <1>2, <1>6, <1>7, <2>3, <2>4, MatchGot
  <1>13. CASE extra_dbits[dc] # 0
    <2>1. mode' = "DISTEXT" /\ got' = got
      BY <1>6, <1>8, <1>13
    <2>2. TypeKnown' /\ SymbolsRead' /\ SymbolAt' = SymbolAt /\ RowAt' = RowAt /\ MatchAt'
          /\ LengthItems' = LengthItems
      BY <1>2, <1>6, <2>1 DEF TypeKnown, SymbolsRead, SymbolAt, RowAt, k_, MatchAt, LengthItems
    <2>3. at' = RowAt' + LengthItems' + 2
      BY <1>9, <1>10, <2>2
    <2>4. length_' = SymbolAt'.len + 3
      BY <1>2, <1>6, <2>2
    <2>5. DistanceCode(SymbolAt') = dc
      BY <2>2 DEF dc
    <2> QED BY <1>7, <1>8, <1>13, <2>1, <2>2, <2>3, <2>4, <2>5 DEF InMode
  <1> QED BY <1>12, <1>13

\* In the mode DISTEXT the extra bits of the distance are read.
LEMMA DistExtRead ==
    ASSUME Inside, mode = "DISTEXT"
    PROVE  /\ Readable /\ Len(Wanted) = 1 /\ TypeKnown /\ MatchAt /\ at = RowAt + LengthItems + 2
           /\ length_ = SymbolAt.len + 3 /\ extra_dbits[DistanceCode(SymbolAt)] # 0
           /\ offset_ = base_dist[DistanceCode(SymbolAt)] + 1
           /\ Item(0) = (SymbolAt.dist - 1) - base_dist[DistanceCode(SymbolAt)]
  <1> DEFINE dc == DistanceCode(SymbolAt)
  <1>1. /\ TypeKnown /\ MatchAt /\ at = RowAt + LengthItems + 2 /\ length_ = SymbolAt.len + 3
        /\ extra_ = extra_dbits[dc] /\ extra_ # 0 /\ offset_ = base_dist[dc] + 1
    BY InsideBlock DEF InMode
  <1>2. MatchSent(SymbolAt, RowAt, LengthItems, Len(sent.items), NextRow)
    BY <1>1, MatchIsHere
  <1>3. PICK p \in Nat, t \in Nat, n \in {1, 2} :
            p = RowAt /\ t = Len(sent.items) /\ n = LengthItems
    BY <1>2 DEF MatchSent
  <1>4. /\ sent.items[p + (n + 2)] = send_bits((SymbolAt.dist - 1) - base_dist[dc], extra_dbits[dc])
        /\ p + n + 2 <= t
    BY <1>1, <1>2, <1>3 DEF MatchSent
  <1>5. at = p + (n + 2) /\ p + (n + 2) \in Nat /\ p + (n + 2) <= t
    BY <1>1, <1>3, <1>4
  <1>6. Wanted = <<ValueOf(extra_dbits[dc])>>
    BY <1>1 DEF Wanted
  <1> HIDE DEF dc
  <1>7. Readable /\ Len(Wanted) = 1 /\ Item(0) = (SymbolAt.dist - 1) - base_dist[dc]
    BY <1>3, <1>4, <1>5, <1>6, ReadsValue
  <1> QED BY <1>1, <1>7 DEF dc

\* DISTEXT makes the distance that was tallied, and the match is the symbol that was
\* sent.
LEMMA DistExtStep ==
    ASSUME Inside, DISTEXT
    PROVE  InMode'
  <1> DEFINE dc == DistanceCode(SymbolAt)
  <1>1. mode = "DISTEXT"
    BY DEF DISTEXT, Reads
  <1>2. /\ Len(Wanted) = 1 /\ TypeKnown /\ MatchAt /\ at = RowAt + LengthItems + 2
        /\ length_ = SymbolAt.len + 3 /\ offset_ = base_dist[dc] + 1
        /\ Item(0) = (SymbolAt.dist - 1) - base_dist[dc] /\ extra_dbits[dc] # 0
    BY <1>1, DistExtRead
  <1>3. /\ MatchSent(SymbolAt, RowAt, LengthItems, Len(sent.items), NextRow)
        /\ SymbolAt \in Symbol /\ IsMatch(SymbolAt)
    BY <1>2, MatchIsHere
  <1>4. DistanceRead(SymbolAt.dist - 1, dc) /\ SymbolAt.dist \in Nat
    BY <1>3, MatchIs
  <1>5. /\ sent' = sent /\ tree' = tree /\ last_' = last_ /\ at' = at + 1 /\ mode' = "LEN"
        /\ offset_' = offset_ + Item(0) /\ got' = Append(got, [len |-> length_, dist |-> offset_'])
    BY <1>2 DEF DISTEXT, Reads, Match, compressor
  <1>6. PICK b \in Nat, y \in Nat : b = base_dist[dc] /\ y = SymbolAt.dist
    BY <1>4 DEF DistanceRead
  <1> HIDE DEF dc
  <1>7. offset_' = y
    <2>1. offset_' = (b + 1) + ((y - 1) - b)
      BY <1>2, <1>5, <1>6
    <2> QED BY <1>6, <2>1
  <1>8. PICK p \in Nat, n \in {1, 2} : p = RowAt /\ n = LengthItems
    BY <1>3 DEF MatchSent
  <1>9. NextRow = p + n + 2
    BY <1>2, <1>3, <1>8 DEF MatchSent, dc
  <1>10. at' = NextRow + 1
    BY <1>2, <1>5, <1>8, <1>9
  <1>11. got' = Append(got, [len |-> SymbolAt.len + 3, dist |-> y])
    BY <1>2, <1>5, <1>7
  <1> QED BY <1>2, <1>5, <1>6, <1>10, <1>11, MatchGot
-----------------------------------------------------------------------------
(* The invariant *)

\* A block has items, and every value among them fits its bits.
LEMMA BlockItems ==
    ASSUME NEW b, Block(b)
    PROVE  b.items \in Seq(ItemSet) /\ Len(b.items) \in Nat \ {0} /\ b.items # <<>>
  <1>1. Layout(b) /\ b.kind \in {0, 1, 2}
    BY BlockLayout DEF Block, stored_blocks, static_trees, dynamic_trees
  <1>2. b.items \in Seq(ItemSet) /\ Len(b.items) \in Nat \ {0}
    <2>1. CASE b.kind = 0
      BY <1>1, <2>1 DEF Layout, StoredLayout
    <2>2. CASE b.kind # 0
      BY <1>1, <2>2 DEF Layout, CodedLayout
    <2> QED BY <2>1, <2>2
  <1>3. Len(<<>>) = 0
    OBVIOUS
  <1> QED BY <1>2, <1>3

\* Nothing is sent and nothing tallied at first.
LEMMA InitIInv ==
    ASSUME Init
    PROVE  IInv
  <1>1. Typed
    <2>1. todo \in Seq(Seq(Symbol))
      BY InputsAssumption DEF Init
    <2>2. buf \in Seq(Symbol)
      BY DEF Init
    <2> QED BY <2>1, <2>2 DEF Init, Typed
  <1>2. Counted
    BY NewBlockCounts DEF Init, Counted
  <1>3. Decoding
    <2>1. sent.items = <<>> /\ mode = "idle"
      BY DEF Init
    <2> QED BY <2>1 DEF Decoding, InMode
  <1> QED BY <1>1, <1>2, <1>3 DEF IInv

\* A symbol is tallied.
LEMMA TallyIInv ==
    ASSUME IInv, tr_tally
    PROVE  IInv'
  <1> DEFINE s == Head(Head(todo))
  <1>1. /\ mode = "idle" /\ todo # <<>> /\ Head(todo) # <<>>
        /\ todo' = [todo EXCEPT ![1] = Tail(@)] /\ buf' = Append(buf, s)
        /\ level_' = level_ /\ strategy_' = strategy_ /\ sent' = sent
        /\ mode' = mode /\ got' = got /\ at' = at
    BY DEF tr_tally, decompressor
  <1>2. todo \in Seq(Seq(Symbol)) /\ buf \in Seq(Symbol) /\ Typed
    BY DEF IInv, Typed
  <1>3. s \in Symbol /\ Tail(Head(todo)) \in Seq(Symbol) /\ Head(todo) = todo[1]
        /\ 1 \in DOMAIN todo
    <2>1. Head(todo) \in Seq(Symbol) /\ Head(todo) = todo[1] /\ 1 \in DOMAIN todo
      BY <1>1, <1>2
    <2> QED BY <1>1, <2>1
  <1>4. Typed'
    <2>1. [todo EXCEPT ![1] = Tail(@)] \in Seq(Seq(Symbol))
      <3> DEFINE S == Seq(Symbol)
      <3>1. todo \in Seq(S) /\ Tail(todo[1]) \in S
        BY <1>2, <1>3
      <3> HIDE DEF S
      <3>2. PICK n \in Nat : todo \in [1..n -> S]
        BY <3>1
      <3>3. [todo EXCEPT ![1] = Tail(@)] \in [1..n -> S]
        BY <3>1, <3>2
      <3> DEFINE t == [todo EXCEPT ![1] = Tail(@)]
      <3>4. t \in Seq(S)
        <4>1. t \in [1..n -> S]
          BY <3>3
        <4> HIDE DEF t
        <4> QED BY ONLY <4>1, n \in Nat
      <3> QED BY <3>4 DEF S
    <2>2. Append(buf, s) \in Seq(Symbol)
      <3> HIDE DEF s
      <3> QED BY <1>2, <1>3
    <2> QED BY <1>1, <1>2, <2>1, <2>2 DEF Typed
  <1>5. Counted'
    <2>1. Counts(buf, dyn_ltree_, dyn_dtree_)
      BY DEF IInv, Counted
    <2>2. /\ dyn_ltree_' = [dyn_ltree_ EXCEPT ![LiteralCode(s)] = @ + 1]
          /\ dyn_dtree_' = IF IsMatch(s) THEN [dyn_dtree_ EXCEPT ![DistanceCode(s)] = @ + 1]
                           ELSE dyn_dtree_
      <3>1. CASE s.dist = 0
        <4>1. dyn_ltree_' = [dyn_ltree_ EXCEPT ![s.len] = @ + 1] /\ dyn_dtree_' = dyn_dtree_
          BY <3>1 DEF tr_tally
        <4> QED BY <3>1, <4>1 DEF LiteralCode, IsMatch
      <3>2. CASE s.dist # 0
        <4>1. /\ dyn_ltree_' = [dyn_ltree_ EXCEPT ![length_code[s.len] + literals + 1] = @ + 1]
              /\ dyn_dtree_' = [dyn_dtree_ EXCEPT ![d_code(s.dist - 1)] = @ + 1]
          BY <3>2 DEF tr_tally
        <4>2. LiteralCode(s) = length_code[s.len] + literals + 1
              /\ DistanceCode(s) = d_code(s.dist - 1) /\ IsMatch(s)
          BY <3>2 DEF LiteralCode, DistanceCode, IsMatch
        <4> QED BY <4>1, <4>2
      <3> QED BY <3>1, <3>2
    <2> HIDE DEF s
    <2>3. Counts(Append(buf, s), dyn_ltree_', dyn_dtree_')
      BY <1>2, <1>3, <2>1, <2>2, TallyCounts
    <2> QED BY <1>1, <2>3 DEF Counted
  <1>6. Decoding'
    <2>1. Symbols' = Symbols
      BY <1>1 DEF Symbols
    <2>2. sent.items # <<>> => AtEnd /\ Block(sent)
      BY <1>1 DEF IInv, Decoding, InMode
    <2>3. sent'.items # <<>> => AtEnd'
      BY <1>1, <2>1, <2>2 DEF AtEnd
    <2>4. InMode'
      BY <1>1, <2>3 DEF InMode
    <2> QED BY <1>1, <2>2, <2>4 DEF Decoding
  <1> QED BY <1>4, <1>5, <1>6 DEF IInv

\* A block is sent, and a new one begins.
LEMMA FlushIInv ==
    ASSUME IInv, FlushBlock
    PROVE  IInv'
  <1>1. Typed /\ Counted
    BY DEF IInv
  <1>2. PICK kind, len, iw, last, l, d, bl :
              /\ kind \in {0, 1, 2} /\ iw \in BOOLEAN /\ last \in {0, 1}
              /\ Trees(dyn_ltree_, dyn_dtree_, l, d, bl)
              /\ SentAs(sent', kind, len, iw, last, buf, StoredLen, l, d, bl)
    BY FlushBlockIs
  <1>3. Block(sent')
    BY <1>1, <1>2, SentIsBlock
  <1>4. sent'.items # <<>>
    BY <1>3, BlockItems
  <1>5. /\ todo' = Tail(todo) /\ todo # <<>> /\ mode' = "TYPEDO" /\ at' = 1 /\ got' = <<>>
        /\ level_' = level_ /\ strategy_' = strategy_
    BY DEF FlushBlock
  <1>6. init_block
    BY DEF FlushBlock, tr_flush_block
  <1>7. Typed'
    <2>1. todo' \in Seq(Seq(Symbol))
      BY <1>1, <1>5 DEF Typed
    <2>2. buf' = <<>> /\ <<>> \in Seq(Symbol)
      BY <1>6 DEF init_block
    <2> QED BY <1>1, <1>5, <2>1, <2>2 DEF Typed
  <1>8. Counted'
    BY <1>6, NewBlockCounts DEF Counted, init_block
  <1>9. Decoding'
    <2>1. InMode'
      BY <1>5 DEF InMode
    <2> QED BY <1>3, <1>4, <2>1 DEF Decoding
  <1> QED BY <1>7, <1>8, <1>9 DEF IInv

\* What the decompressor reads leaves the compressor alone.
Decompress ==
    TYPEDO \/ STORED \/ TABLE \/ LENLENS \/ CODELENS \/ LEN \/ LENEXT \/ DIST \/ DISTEXT

\* Each mode of the decompressor keeps the invariant.
LEMMA DecompressIInv ==
    ASSUME IInv, Decompress
    PROVE  IInv'
  <1>1. UNCHANGED compressor /\ mode # "idle"
    BY DEF Decompress, TYPEDO, STORED, TABLE, LENLENS, CODELENS, LEN, LENEXT, DIST, DISTEXT, Reads
  <1>2. Inside
    BY <1>1 DEF IInv, Inside
  <1>3. InMode'
    BY <1>2, TypeStep, StoredStep, TableStep, LenLensStep, CodeLensStep, LenStep, LenExtStep,
       DistStep, DistExtStep DEF Decompress
  <1>4. Stays
    BY <1>1, <1>2, InsideBlock DEF Stays, compressor
  <1>5. Decoding'
    BY <1>3, <1>4, StaysDecoding
  <1>6. Typed' /\ Counted'
    BY <1>1 DEF IInv, Typed, Counted, compressor
  <1> QED BY <1>5, <1>6 DEF IInv

\* Every step keeps the invariant.
LEMMA NextIInv ==
    ASSUME IInv, [Next]_vars
    PROVE  IInv'
  <1>1. CASE UNCHANGED vars
    <2>1. UNCHANGED <<todo, buf, dyn_ltree_, dyn_dtree_, level_, strategy_, sent, mode, last_,
                      at, tree, nlen_, ndist_, ncode_, lens_, extra_, length_, offset_, got>>
      BY <1>1 DEF vars, compressor, decompressor
    <2>2. Typed' /\ Counted'
      BY <2>1 DEF IInv, Typed, Counted
    <2>3. Decoding'
      BY <2>1 DEF IInv, Decoding, InMode, AtEnd, Symbols, TypeKnown, LensRead, SymbolsRead,
                  MatchAt, RowAt, k_, SymbolAt, LengthItems
    <2> QED BY <2>2, <2>3 DEF IInv
  <1>2. CASE tr_tally
    BY <1>2, TallyIInv
  <1>3. CASE FlushBlock
    BY <1>3, FlushIInv
  <1>4. CASE Decompress
    BY <1>4, DecompressIInv
  <1> QED BY <1>1, <1>2, <1>3, <1>4 DEF Next, Decompress

\* In every state the frequencies are those of the symbols tallied, what was sent is a
\* block that fits its symbols, and the decompressor is where its mode says.
THEOREM Invariance == Spec => []IInv
  <1>1. Init => IInv
    BY InitIInv
  <1>2. IInv /\ [Next]_vars => IInv'
    BY NextIInv
  <1> QED BY <1>1, <1>2, PTL DEF Spec

\* What each mode reads is there to be read.
LEMMA ReadsOn ==
    ASSUME Inside, mode # "CHECK"
    PROVE  mode \notin {"lost", "BAD"} /\ Readable
  <1>1. mode \in {"TYPEDO", "STORED", "TABLE", "LENLENS", "CODELENS", "LEN", "LENEXT", "DIST",
                  "DISTEXT"}
    BY InsideBlock DEF Inside, InMode
  <1>2. CASE mode = "LENLENS"
    <2>1. sent.kind = 2
      BY <1>2, InsideBlock DEF InMode, dynamic_trees
    <2>2. max_blindex(sent.bl) \in 3..18
      BY <2>1, DynamicLayout
    <2> QED BY <1>2, <2>2, LenLensRead
  <1>3. CASE mode = "CODELENS"
    <2>1. tree = 2 /\ \E k, i : AtRun(sent, k, i, at, Len(lens_))
      BY <1>3, CodeLensPlace
    <2>2. PICK k, i : HereIs(BothRuns(sent.l, sent.d)[k], RunItems(sent)[k], sent.bl, i)
      BY <1>3, <2>1, RunHere
    <2>3. PICK q : RunRead(BothRuns(sent.l, sent.d)[k], RunItems(sent)[k], i, q)
      BY <1>3, <2>1, <2>2, CodeLensRead
    <2> QED BY <1>3, <2>3 DEF RunRead
  <1> QED BY <1>1, <1>2, <1>3, TypeRead, StoredRead, TableRead, LenRead, LenExtRead, DistRead,
             DistExtRead

\* The invariant says that the block is decoded.
LEMMA InvDecodes ==
    ASSUME IInv
    PROVE  BlockDecodes
  <1>1. mode \in {"idle", "CHECK"} \/ (mode \notin {"lost", "BAD"} /\ Readable)
    BY ReadsOn DEF IInv, Inside
  <1>2. ASSUME mode = "TYPEDO"
        PROVE  ValuesFit
    <2>1. Block(sent)
      BY <1>2 DEF IInv, Decoding
    <2>2. sent.items \in Seq(ItemSet)
      BY <2>1, BlockItems
    <2>3. \A i \in DOMAIN sent.items : sent.items[i] \in ItemSet
      BY <2>2
    <2> QED BY <2>3 DEF ValuesFit, ItemSet
  <1>3. ASSUME mode \in {"idle", "CHECK"}, sent.items # <<>>
        PROVE  got = Symbols /\ at = Len(sent.items) + 1
    BY <1>3 DEF IInv, Decoding, InMode, AtEnd
  <1> QED BY <1>1, <1>2, <1>3 DEF BlockDecodes

\* What was tallied is what is read: whatever the symbols and whichever complete codes
\* build_tree makes, the decompressor is never led astray by a block, finds every value
\* and code that it looks for, and has read the same lengths and distances at its end.
THEOREM Decodes == Spec => []BlockDecodes
  BY Invariance, InvDecodes, PTL

-----------------------------------------------------------------------------
(* Sums of products *)

\* A sum with one term that is not 0.
LEMMA SumOneTerm ==
    ASSUME NEW f, NEW S, IsFiniteSet(S), NEW x \in S,
           \A y \in S : f[y] \in Int /\ (y # x => f[y] = 0)
    PROVE  SumFunctionOnSet(f, S) = f[x]
  <1>1. SumFunctionOnSet(f, S) = f[x] + SumFunctionOnSet(f, S \ {x})
    BY SumTake
  <1>2. IsFiniteSet(S \ {x})
    BY FS_RemoveElement
  <1>3. SumFunctionOnSet(f, S \ {x}) = 0
    BY <1>2, SumZeros
  <1> QED BY <1>1, <1>3

\* A sum with two terms that are not 0.
LEMMA SumTwoTerms ==
    ASSUME NEW f, NEW S, IsFiniteSet(S), NEW x \in S, NEW z \in S, x # z,
           \A y \in S : f[y] \in Int /\ (y # x /\ y # z => f[y] = 0)
    PROVE  SumFunctionOnSet(f, S) = f[x] + f[z]
  <1>1. SumFunctionOnSet(f, S) = f[x] + SumFunctionOnSet(f, S \ {x})
    BY SumTake
  <1>2. IsFiniteSet(S \ {x})
    BY FS_RemoveElement
  <1>3. SumFunctionOnSet(f, S \ {x}) = f[z]
    BY <1>2, SumOneTerm
  <1> QED BY <1>1, <1>3

\* A sum of equal terms.
LEMMA SumEqual ==
    ASSUME NEW n \in Nat, NEW a \in Nat, NEW f, \A i \in 1..n : f[i] = a
    PROVE  SumFunctionOnSet(f, 1..n) = n * a
  <1> DEFINE T == {k \in Nat : k <= n => SumFunctionOnSet(f, 1..k) = k * a}
  <1>1. 0 \in T
    <2>1. SumFunctionOnSet(f, 1..0) = 0
      <3>1. 1..0 = {}
        OBVIOUS
      <3> QED BY <3>1, SumEmpty
    <2>2. 0 * a = 0
      OBVIOUS
    <2> QED BY <2>1, <2>2
  <1>2. ASSUME NEW k \in Nat, k \in T
        PROVE  k + 1 \in T
    <2> SUFFICES ASSUME k + 1 <= n
                 PROVE  SumFunctionOnSet(f, 1..k + 1) = (k + 1) * a
      OBVIOUS
    <2>1. 1 \in Int /\ k \in Int /\ 1 <= k + 1 /\ (\A i \in 1..k + 1 : f[i] \in Int) /\ k + 1 \in 1..n
      OBVIOUS
    <2>2. SumFunctionOnSet(f, 1..k + 1) = SumFunctionOnSet(f, 1..k) + f[k + 1]
      BY <2>1, SumUpTo
    <2>3. SumFunctionOnSet(f, 1..k) = k * a
      BY <1>2
    <2>4. (k + 1) * a = k * a + a
      OBVIOUS
    <2> QED BY <2>1, <2>2, <2>3, <2>4
  <1>3. n \in T
    <2> HIDE DEF T
    <2> QED BY <1>1, <1>2, InductionOnSet
  <1> QED BY <1>3

\* Multiplication distributes.
LEMMA Distributes == \A x, y, a \in Nat : (x + y) * a = x * a + y * a /\ x * a \in Nat
  OBVIOUS

\* What a row of a table weighs, and how much is in a column.
RowWeight(M, A, C, i) == SumFunctionOnSet([c \in C |-> M[i][c] * A[c]], C)
RowWeights(M, A, C, n) == [i \in 1..n |-> RowWeight(M, A, C, i)]
InColumn(M, n, c) == SumFunctionOnSet([i \in 1..n |-> M[i][c]], 1..n)
ColumnWeights(M, A, C, n) == [c \in C |-> InColumn(M, n, c) * A[c]]

\* What the rows of a table weigh is what is in its columns, weighed.
LEMMA SwapSums ==
    ASSUME NEW n \in Nat, NEW C, IsFiniteSet(C), NEW M, NEW A, \A c \in C : A[c] \in Nat,
           \A i \in 1..n : \A c \in C : M[i][c] \in Nat
    PROVE  SumFunctionOnSet(RowWeights(M, A, C, n), 1..n)
               = SumFunctionOnSet(ColumnWeights(M, A, C, n), C)
  <1> DEFINE Row(i) == [c \in C |-> M[i][c] * A[c]]
             R == [i \in 1..n |-> SumFunctionOnSet(Row(i), C)]
             Col(c) == [i \in 1..n |-> M[i][c]]
             Count(k, c) == SumFunctionOnSet(Col(c), 1..k)
             Cols(k) == [c \in C |-> Count(k, c) * A[c]]
             Is(k) == SumFunctionOnSet(R, 1..k) = SumFunctionOnSet(Cols(k), C)
             T == {k \in Nat : k <= n => Is(k)}
  <1>1. \A k \in Nat : IsFiniteSet(1..k)
    BY RangeFinite
  <1>2. \A k \in Nat, c \in C : k <= n => Count(k, c) \in Nat
    <2> TAKE k \in Nat, c \in C
    <2> DEFINE f == Col(c)
    <2> HAVE k <= n
    <2>1. \A i \in 1..k : f[i] \in Nat
      OBVIOUS
    <2> HIDE DEF f
    <2>2. SumFunctionOnSet(f, 1..k) \in Nat
      BY <1>1, <2>1, SumNat
    <2> QED BY <2>2 DEF f
  <1>3. \A i \in 1..n : R[i] \in Nat
    <2> TAKE i \in 1..n
    <2> DEFINE f == Row(i)
    <2>1. \A c \in C : f[c] \in Nat
      BY Distributes
    <2>2. R[i] = SumFunctionOnSet(f, C)
      OBVIOUS
    <2> HIDE DEF f, R
    <2>3. SumFunctionOnSet(f, C) \in Nat
      BY <2>1, SumNat
    <2> QED BY <2>2, <2>3
  <1>4. 0 \in T
    <2>1. 1..0 = {}
      OBVIOUS
    <2>2. SumFunctionOnSet(R, 1..0) = 0
      BY <2>1, SumEmpty
    <2>3. \A c \in C : Count(0, c) = 0
      BY <2>1, SumEmpty
    <2> DEFINE f == Cols(0)
    <2>4. \A c \in C : f[c] = 0
      <3>1. \A a \in Nat : 0 * a = 0
        OBVIOUS
      <3> HIDE DEF Count
      <3> QED BY <2>3, <3>1
    <2> HIDE DEF f
    <2>5. SumFunctionOnSet(f, C) = 0
      BY <2>4, SumZeros
    <2> HIDE DEF R
    <2>6. SumFunctionOnSet(R, 1..0) = SumFunctionOnSet(Cols(0), C)
      BY <2>2, <2>5 DEF f
    <2> HIDE DEF Cols
    <2> QED BY <2>6
  <1>5. ASSUME NEW k \in Nat, k \in T
        PROVE  k + 1 \in T
    <2> HIDE DEF Is
    <2> SUFFICES ASSUME k + 1 <= n PROVE Is(k + 1)
      OBVIOUS
    <2> USE DEF Is
    <2>1. k + 1 \in Nat /\ k <= n /\ k + 1 \in 1..n /\ 1 \in Int /\ k \in Int /\ 1 <= k + 1
          /\ \A i \in 1..k + 1 : i \in 1..n
      OBVIOUS
    <2>2. SumFunctionOnSet(R, 1..k) = SumFunctionOnSet(Cols(k), C)
      BY <1>5, <2>1
    <2>3. SumFunctionOnSet(R, 1..k + 1) = SumFunctionOnSet(R, 1..k) + R[k + 1]
      <3> HIDE DEF R
      <3>1. \A i \in 1..k + 1 : R[i] \in Int
        BY <1>3, <2>1
      <3> QED BY <2>1, <3>1, SumUpTo
    <2>4. \A c \in C : Count(k + 1, c) = Count(k, c) + M[k + 1][c]
      <3> TAKE c \in C
      <3> DEFINE f == Col(c)
      <3>1. (\A i \in 1..k + 1 : f[i] \in Int) /\ f[k + 1] = M[k + 1][c]
        BY <2>1
      <3> HIDE DEF f
      <3>2. SumFunctionOnSet(f, 1..k + 1) = SumFunctionOnSet(f, 1..k) + f[k + 1]
        BY <2>1, <3>1, SumUpTo
      <3> QED BY <3>1, <3>2 DEF f
    <2>5. \A c \in C : Count(k, c) \in Nat /\ M[k + 1][c] \in Nat
      <3> HIDE DEF Count
      <3> QED BY <1>2, <2>1
    <2> DEFINE e == Cols(k)
               f == Row(k + 1)
               g == Cols(k + 1)
    <2>6. \A c \in C : e[c] \in Int /\ f[c] \in Int /\ g[c] = e[c] + f[c]
      <3> TAKE c \in C
      <3>1. /\ e[c] = Count(k, c) * A[c] /\ f[c] = M[k + 1][c] * A[c]
            /\ g[c] = Count(k + 1, c) * A[c]
        OBVIOUS
      <3> HIDE DEF Count, e, f, g
      <3>2. PICK x \in Nat, y \in Nat, a \in Nat : x = Count(k, c) /\ y = M[k + 1][c] /\ a = A[c]
        BY <2>5
      <3>3. e[c] = x * a /\ f[c] = y * a /\ g[c] = (x + y) * a
        BY <2>4, <3>1, <3>2
      <3>4. x * a \in Nat /\ y * a \in Nat /\ (x + y) * a = x * a + y * a
        BY Distributes
      <3> QED BY <3>3, <3>4
    <2>7. R[k + 1] = SumFunctionOnSet(f, C)
      BY <2>1
    <2> HIDE DEF e, f, g, R
    <2>8. SumFunctionOnSet(g, C) = SumFunctionOnSet(e, C) + SumFunctionOnSet(f, C)
      BY <2>6, SumPlus
    <2>9. SumFunctionOnSet(R, 1..k + 1) = SumFunctionOnSet(g, C)
      BY <2>2, <2>3, <2>7, <2>8 DEF e
    <2> QED BY <2>9 DEF g
  <1>6. n \in T
    <2> HIDE DEF T
    <2> QED BY <1>4, <1>5, InductionOnSet
  <1>7. SumFunctionOnSet(R, 1..n) = SumFunctionOnSet(Cols(n), C)
    <2> HIDE DEF R, Cols
    <2> QED BY <1>6
  <1>8. R = RowWeights(M, A, C, n) /\ Cols(n) = ColumnWeights(M, A, C, n)
    BY DEF RowWeights, RowWeight, ColumnWeights, InColumn
  <1> HIDE DEF R, Cols
  <1> QED BY <1>7, <1>8


-----------------------------------------------------------------------------
(* The bits of items *)

\* The bits that an item takes, as a weight.
BitsOfItem == [x \in ItemSet |-> x.bits]

\* The bits of a sequence of items are its weight.
LEMMA TotalIs ==
    ASSUME NEW items \in Seq(ItemSet)
    PROVE  Total(items) = Weight(BitsOfItem, items) /\ Total(items) \in Nat
  <1>1. BitsOfItem \in [ItemSet -> Nat]
    BY DEF BitsOfItem, ItemSet
  <1>2. \A i \in DOMAIN items : BitsOfItem[items[i]] = items[i].bits
    BY DEF BitsOfItem
  <1>3. [i \in DOMAIN items |-> items[i].bits] = [i \in DOMAIN items |-> BitsOfItem[items[i]]]
    BY <1>2
  <1>4. Weight(BitsOfItem, items) \in Nat
    <2>1. <<>> \in Seq(ItemSet)
      OBVIOUS
    <2> QED BY <1>1, <2>1, WeightConcat
  <1> QED BY <1>3, <1>4 DEF Total, Weight

\* Those of two sequences after each other are the sum.
LEMMA TotalConcat ==
    ASSUME NEW a \in Seq(ItemSet), NEW b \in Seq(ItemSet)
    PROVE  Total(a \o b) = Total(a) + Total(b) /\ a \o b \in Seq(ItemSet)
  <1>1. BitsOfItem \in [ItemSet -> Nat]
    BY DEF BitsOfItem, ItemSet
  <1>2. a \o b \in Seq(ItemSet)
    BY ConcatProperties
  <1>3. /\ Total(a \o b) = Weight(BitsOfItem, a \o b)
        /\ Total(a) = Weight(BitsOfItem, a) /\ Total(b) = Weight(BitsOfItem, b)
    BY <1>2, TotalIs
  <1>4. Weight(BitsOfItem, a \o b) = Weight(BitsOfItem, a) + Weight(BitsOfItem, b)
    BY <1>1, WeightConcat
  <1> QED BY <1>2, <1>3, <1>4

\* Those of rows of items are the sum over the rows.
LEMMA TotalFlatten ==
    ASSUME NEW rows \in Seq(Seq(ItemSet))
    PROVE  Total(FlattenSeq(rows)) = SumFunction([k \in DOMAIN rows |-> Total(rows[k])])
  <1>1. BitsOfItem \in [ItemSet -> Nat]
    BY DEF BitsOfItem, ItemSet
  <1>2. FlattenSeq(rows) \in Seq(ItemSet)
    BY FlattenElements
  <1>3. \A k \in DOMAIN rows : Total(rows[k]) = Weight(BitsOfItem, rows[k])
    <2>1. \A k \in DOMAIN rows : rows[k] \in Seq(ItemSet)
      OBVIOUS
    <2> QED BY <2>1, TotalIs
  <1>4. [k \in DOMAIN rows |-> Total(rows[k])] = [k \in DOMAIN rows |-> Weight(BitsOfItem, rows[k])]
    BY <1>3
  <1>5. Total(FlattenSeq(rows)) = Weight(BitsOfItem, FlattenSeq(rows))
    BY <1>2, TotalIs
  <1>6. Weight(BitsOfItem, FlattenSeq(rows))
            = SumFunction([k \in DOMAIN rows |-> Weight(BitsOfItem, rows[k])])
    BY <1>1, FlattenWeight
  <1> QED BY <1>4, <1>5, <1>6

\* Those of one, two and three items.
LEMMA TotalOne ==
    ASSUME NEW x \in ItemSet
    PROVE  Total(<<x>>) = x.bits /\ <<x>> \in Seq(ItemSet) /\ x.bits \in Nat
  <1> DEFINE s == <<x>>
             f == [i \in DOMAIN s |-> s[i].bits]
  <1>1. s \in Seq(ItemSet) /\ Len(s) = 1 /\ s[1] = x /\ x.bits \in Nat
    BY DEF ItemSet
  <1> HIDE DEF s
  <1>2. DOMAIN f = {1} /\ f[1] = x.bits
    BY <1>1
  <1>3. Total(s) = SumFunctionOnSet(f, {1})
    BY <1>2 DEF Total, SumFunction
  <1> HIDE DEF f
  <1>4. IsFiniteSet({1})
    BY FS_Singleton
  <1>5. SumFunctionOnSet(f, {1}) = f[1]
    BY <1>1, <1>2, <1>4, SumOneTerm
  <1> QED BY <1>1, <1>2, <1>3, <1>5 DEF s

\* Two are one and one.
LEMMA TotalTwo ==
    ASSUME NEW x \in ItemSet, NEW y \in ItemSet
    PROVE  Total(<<x, y>>) = x.bits + y.bits /\ <<x, y>> \in Seq(ItemSet)
  <1>1. <<x>> \o <<y>> = <<x, y>>
    BY OneAndOne
  <1>2. /\ Total(<<x>>) = x.bits /\ <<x>> \in Seq(ItemSet)
        /\ Total(<<y>>) = y.bits /\ <<y>> \in Seq(ItemSet)
    BY TotalOne
  <1>3. Total(<<x>> \o <<y>>) = Total(<<x>>) + Total(<<y>>) /\ <<x>> \o <<y>> \in Seq(ItemSet)
    BY <1>2, TotalConcat
  <1> QED BY <1>1, <1>2, <1>3

\* Three are one and two.
LEMMA TotalThree ==
    ASSUME NEW x \in ItemSet, NEW y \in ItemSet, NEW z \in ItemSet
    PROVE  Total(<<x, y, z>>) = x.bits + (y.bits + z.bits) /\ <<x, y, z>> \in Seq(ItemSet)
  <1>1. <<x>> \o <<y, z>> = <<x, y, z>>
    BY OneAndTwo
  <1>2. /\ Total(<<x>>) = x.bits /\ <<x>> \in Seq(ItemSet)
        /\ Total(<<y, z>>) = y.bits + z.bits /\ <<y, z>> \in Seq(ItemSet)
    BY TotalOne, TotalTwo
  <1>3. /\ Total(<<x>> \o <<y, z>>) = Total(<<x>>) + Total(<<y, z>>)
        /\ <<x>> \o <<y, z>> \in Seq(ItemSet)
    BY <1>2, TotalConcat
  <1> QED BY <1>1, <1>2, <1>3

\* Items that take the same bits each.
LEMMA TotalEqual ==
    ASSUME NEW n \in Nat, NEW a \in Nat, NEW items, DOMAIN items = 1..n,
           \A i \in 1..n : items[i].bits = a
    PROVE  Total(items) = n * a
  <1> DEFINE f == [i \in DOMAIN items |-> items[i].bits]
  <1>1. DOMAIN f = 1..n /\ \A i \in 1..n : f[i] = a
    OBVIOUS
  <1>2. Total(items) = SumFunctionOnSet(f, 1..n)
    BY <1>1 DEF Total, SumFunction
  <1> HIDE DEF f
  <1> QED BY <1>1, <1>2, SumEqual

-----------------------------------------------------------------------------
(* The bits of the symbols of a block *)

\* The codes of the three alphabets are finitely many.
LEMMA AlphabetsFinite == IsFiniteSet(0..285) /\ IsFiniteSet(0..29) /\ IsFiniteSet(0..18)
  <1>1. 0 \in Int /\ 285 \in Int /\ 29 \in Int /\ 18 \in Int
    OBVIOUS
  <1> QED BY <1>1, RangeFinite, Zenon

\* What a code takes with the extra bits after it.
LiteralBits(l, c) == l[c] + ExtraOfLiteral[c]
DistanceBits(d, c) == d[c] + extra_dbits[c]

\* The extra bits of the codes of the first tree.
LEMMA ExtraOfLiteralIs ==
    /\ \A c \in 0..285 : ExtraOfLiteral[c] \in Nat
    /\ \A c \in 0..256 : ExtraOfLiteral[c] = 0
    /\ \A c \in 0..28 : ExtraOfLiteral[c + literals + 1] = extra_lbits[c]
  <1>1. ExtraOfLiteral = [c \in 0..285 |-> IF c > 256 THEN extra_lbits[c - 256 - 1] ELSE 0]
    BY DEF ExtraOfLiteral, lcodes, literals, length_codes
  <1>2. \A c \in 0..28 : extra_lbits[c] \in Nat
    BY ExtraBits
  <1>3. \A c \in 0..256 : ExtraOfLiteral[c] = 0
    BY <1>1
  <1>4. ASSUME NEW c \in 0..28
        PROVE  ExtraOfLiteral[c + literals + 1] = extra_lbits[c]
    <2>1. c + 256 + 1 \in 0..285 /\ c + 256 + 1 > 256 /\ (c + 256 + 1) - 256 - 1 = c
      OBVIOUS
    <2> QED BY <1>1, <2>1 DEF literals
  <1>5. ASSUME NEW c \in 0..285
        PROVE  ExtraOfLiteral[c] \in Nat
    <2>1. CASE c > 256
      <3>1. c - 256 - 1 \in 0..28
        BY <2>1
      <3> QED BY <1>1, <1>2, <2>1, <3>1
    <2>2. CASE ~(c > 256)
      BY <1>1, <2>2
    <2> QED BY <2>1, <2>2
  <1> QED BY <1>3, <1>4, <1>5

\* Extra bits take as many bits as there are.
LEMMA TotalExtra ==
    ASSUME NEW n \in Nat, NEW v, n # 0 => v \in 0..2^n - 1
    PROVE  Total(Extra(n, v)) = n /\ Extra(n, v) \in Seq(ItemSet)
  <1>1. Extra(n, v) \in Seq(ItemSet)
    BY ExtraIs
  <1>2. CASE n = 0
    <2>1. Extra(n, v) = <<>>
      BY <1>2 DEF Extra
    <2>2. Total(<<>>) = 0
      <3> DEFINE f == [i \in DOMAIN <<>> |-> <<>>[i].bits]
      <3>1. DOMAIN f = {}
        OBVIOUS
      <3>2. Total(<<>>) = SumFunctionOnSet(f, {})
        BY <3>1 DEF Total, SumFunction
      <3> QED BY <3>2, SumEmpty
    <2> QED BY <1>1, <1>2, <2>1, <2>2
  <1>3. CASE n # 0
    <2>1. Extra(n, v) = <<send_bits(v, n)>>
      BY <1>3 DEF Extra
    <2>2. send_bits(v, n) \in ItemSet /\ send_bits(v, n).bits = n
      BY <1>3, BitsItem
    <2> QED BY <1>1, <2>1, <2>2, TotalOne
  <1> QED BY <1>2, <1>3

\* The bits of a symbol are those of its codes with their extra bits.
BitsOfSymbol(s, l, d) ==
    LiteralBits(l, LiteralCode(s)) + IF IsMatch(s) THEN DistanceBits(d, DistanceCode(s)) ELSE 0

\* They are what its items take.
LEMMA SymbolTotal ==
    ASSUME NEW s \in Symbol, NEW l, NEW d, HasCodes(s, l, d), NEW kind \in {1, 2}
    PROVE  Total(SymbolItems(s, l, d, kind)) = BitsOfSymbol(s, l, d)
  <1>1. s.len \in 0..255 /\ s.dist \in Nat /\ s.dist <= 32768
    BY SymbolFields
  <1>2. "literal" \in {"literal", "distance", "length"} /\ "distance" \in {"literal", "distance", "length"}
        /\ kind \in {0, 1, 2}
    OBVIOUS
  <1>3. CASE ~IsMatch(s)
    <2> DEFINE x == send_code(s.len, "literal", kind, l)
    <2>1. SymbolItems(s, l, d, kind) = <<x>>
      BY <1>3 DEF SymbolItems, IsMatch
    <2>2. l[s.len] \in Nat /\ s.len \in Int /\ LiteralCode(s) = s.len
      BY <1>1, <1>3 DEF HasCodes, LiteralCode, IsMatch
    <2>3. x \in ItemSet /\ x.bits = l[s.len]
      BY <1>2, <2>2, CodeItem
    <2> HIDE DEF x
    <2>4. Total(<<x>>) = l[s.len]
      BY <2>3, TotalOne
    <2>5. ExtraOfLiteral[s.len] = 0
      <3>1. s.len \in 0..256
        BY <1>1
      <3> QED BY <3>1, ExtraOfLiteralIs
    <2> QED BY <1>3, <2>1, <2>2, <2>4, <2>5 DEF BitsOfSymbol, LiteralBits
  <1>4. CASE IsMatch(s)
    <2> DEFINE c == length_code[s.len]
               dc == d_code(s.dist - 1)
               e == extra_lbits[c]
               de == extra_dbits[dc]
               a == send_code(c + literals + 1, "literal", kind, l)
               b == send_code(dc, "distance", kind, d)
               x == Extra(e, s.len - base_length[c])
               y == Extra(de, s.dist - 1 - base_dist[dc])
    <2>1. SymbolItems(s, l, d, kind) = ((<<a>> \o x) \o <<b>>) \o y
      BY <1>4 DEF SymbolItems, IsMatch, SendMatch
    <2>2. LiteralCode(s) = c + literals + 1 /\ DistanceCode(s) = dc
      BY <1>4 DEF LiteralCode, IsMatch, DistanceCode
    <2>3. LengthRead(s.len, c) /\ DistanceRead(s.dist - 1, dc)
      BY <1>4, MatchIs, <2>2
    <2>4. /\ c \in 0..28 /\ e \in Nat /\ (e # 0 => s.len - base_length[c] \in 0..2^e - 1)
          /\ dc \in 0..29 /\ de \in Nat /\ (de # 0 => s.dist - 1 - base_dist[dc] \in 0..2^de - 1)
      BY <2>3 DEF LengthRead, DistanceRead, length_codes, dcodes
    <2>5. l[c + literals + 1] \in Nat /\ d[dc] \in Nat /\ c + literals + 1 \in Int /\ dc \in Int
      BY <1>4, <2>2, <2>4 DEF HasCodes, literals
    <2>6. ExtraOfLiteral[c + literals + 1] = e
      BY <2>4, ExtraOfLiteralIs
    <2> HIDE DEF c, dc, e, de
    <2>7. a \in ItemSet /\ a.bits = l[c + literals + 1] /\ b \in ItemSet /\ b.bits = d[dc]
      BY <1>2, <2>5, CodeItem
    <2>8. Total(x) = e /\ x \in Seq(ItemSet) /\ Total(y) = de /\ y \in Seq(ItemSet)
      BY <2>4, TotalExtra
    <2> HIDE DEF a, b, x, y
    <2>9. /\ Total(<<a>>) = a.bits /\ <<a>> \in Seq(ItemSet)
          /\ Total(<<b>>) = b.bits /\ <<b>> \in Seq(ItemSet)
      BY <2>7, TotalOne
    <2>10. Total(<<a>> \o x) = a.bits + e /\ <<a>> \o x \in Seq(ItemSet)
      BY <2>8, <2>9, TotalConcat
    <2>11. Total((<<a>> \o x) \o <<b>>) = (a.bits + e) + b.bits /\ (<<a>> \o x) \o <<b>> \in Seq(ItemSet)
      BY <2>9, <2>10, TotalConcat
    <2>12. Total(((<<a>> \o x) \o <<b>>) \o y) = ((a.bits + e) + b.bits) + de
      BY <2>8, <2>11, TotalConcat
    <2>13. BitsOfSymbol(s, l, d) = (l[c + literals + 1] + e) + (d[dc] + de)
      <3>1. BitsOfSymbol(s, l, d) = LiteralBits(l, c + literals + 1) + DistanceBits(d, dc)
        BY <1>4, <2>2 DEF BitsOfSymbol
      <3>2. DistanceBits(d, dc) = d[dc] + de
        BY DEF DistanceBits, de
      <3>3. LiteralBits(l, c + literals + 1) = l[c + literals + 1] + e
        BY <2>6 DEF LiteralBits
      <3> QED BY <3>1, <3>2, <3>3
    <2>14. \A m, n, p, q \in Nat : ((m + n) + p) + q = (m + n) + (p + q)
      OBVIOUS
    <2>15. /\ a.bits \in Nat /\ b.bits \in Nat
           /\ l[c + literals + 1] = a.bits /\ d[dc] = b.bits
      BY <2>5, <2>7
    <2>16. ((a.bits + e) + b.bits) + de = (a.bits + e) + (b.bits + de)
      BY <2>4, <2>14, <2>15
    <2> QED BY <2>1, <2>12, <2>13, <2>15, <2>16
  <1> QED BY <1>3, <1>4

-----------------------------------------------------------------------------
(* The lengths by which the kinds are compared *)

\* What every code takes with its extra bits, as often as it occurs.
Takes(n, dl, extra) == \A c \in 0..n : dl[c] + extra[c] \in Nat
BitsOfEach(n, f, dl, extra) == [c \in 0..n |-> f[c] * (dl[c] + extra[c])]

\* Codes that do not occur take no bits.
LEMMA BitsOfAll ==
    ASSUME NEW n \in Nat, NEW f \in [0..n -> Nat], NEW dl, NEW extra, Takes(n, dl, extra)
    PROVE  BitsOf(f, dl, extra) = SumFunctionOnSet(BitsOfEach(n, f, dl, extra), 0..n)
  <1> DEFINE U == Occur(f)
             e == [c \in U |-> f[c] * (dl[c] + extra[c])]
             g == [c \in 0..n |-> f[c] * (dl[c] + extra[c])]
  <1>1. U \subseteq 0..n /\ \A c \in 0..n : c \notin U => f[c] = 0
    BY DEF Occur
  <1>2. IsFiniteSet(0..n) /\ IsFiniteSet(U)
    BY <1>1, RangeFinite, FS_Subset
  <1>3. \A c \in 0..n : g[c] \in Int /\ (c \notin U => g[c] = 0)
    <2> TAKE c \in 0..n
    <2>1. f[c] \in Nat /\ dl[c] + extra[c] \in Nat
      BY DEF Takes
    <2>2. f[c] * (dl[c] + extra[c]) \in Nat
      BY <2>1, Distributes
    <2>3. c \notin U => f[c] * (dl[c] + extra[c]) = 0
      <3> SUFFICES ASSUME c \notin U PROVE f[c] * (dl[c] + extra[c]) = 0
        OBVIOUS
      <3>1. f[c] = 0
        BY <1>1
      <3>2. \A a \in Nat : 0 * a = 0
        OBVIOUS
      <3> QED BY <2>1, <3>1, <3>2
    <2> HIDE DEF U
    <2> QED BY <2>2, <2>3
  <1>4. \A c \in U : e[c] = g[c]
    BY <1>1
  <1>5. DOMAIN e = U
    OBVIOUS
  <1>6. BitsOf(f, dl, extra) = SumFunctionOnSet(e, U)
    BY DEF BitsOf, SumFunction
  <1> HIDE DEF U, e, g
  <1>7. SumFunctionOnSet(e, U) = SumFunctionOnSet(g, U)
    BY <1>2, <1>4, SumAgree
  <1>8. SumFunctionOnSet(g, 0..n) = SumFunctionOnSet(g, U)
    BY <1>1, <1>2, <1>3, SumOutside
  <1> QED BY <1>6, <1>7, <1>8 DEF g, BitsOfEach

\* Whether a row of a table marks one column, whose weight is e, or none.
Marks(row, C, A, e) ==
    \/ \E x \in C : e = A[x] /\ \A c \in C : row[c] = IF c = x THEN 1 ELSE 0
    \/ e = 0 /\ \A c \in C : row[c] = 0

\* The weight of a row is that of the column that it marks.
LEMMA MarkedWeight ==
    ASSUME NEW C, IsFiniteSet(C), NEW A, \A c \in C : A[c] \in Nat, NEW row, NEW e, Marks(row, C, A, e)
    PROVE  SumFunctionOnSet([c \in C |-> row[c] * A[c]], C) = e
  <1> DEFINE f == [c \in C |-> row[c] * A[c]]
  <1>1. \A a \in Nat : 0 * a = 0 /\ 1 * a = a
    OBVIOUS
  <1>2. CASE e = 0 /\ \A c \in C : row[c] = 0
    <2>1. \A c \in C : f[c] = 0
      BY <1>1, <1>2
    <2> HIDE DEF f
    <2>2. SumFunctionOnSet(f, C) = 0
      BY <2>1, SumZeros
    <2> QED BY <1>2, <2>2 DEF f
  <1>3. CASE \E x \in C : e = A[x] /\ \A c \in C : row[c] = IF c = x THEN 1 ELSE 0
    <2>1. PICK x \in C : e = A[x] /\ \A c \in C : row[c] = IF c = x THEN 1 ELSE 0
      BY <1>3
    <2>2. \A c \in C : c # x => f[c] = 0
      BY <1>1, <2>1
    <2>3. f[x] = e /\ e \in Nat
      BY <1>1, <2>1
    <2> HIDE DEF f
    <2>4. \A c \in C : f[c] \in Int /\ (c # x => f[c] = 0)
      BY <2>2, <2>3
    <2>5. SumFunctionOnSet(f, C) = f[x]
      BY <2>4, SumOneTerm
    <2> QED BY <2>3, <2>5 DEF f
  <1> QED BY <1>2, <1>3 DEF Marks

\* The weights of the columns that rows mark are the weights of all columns, each as
\* often as it is marked.
LEMMA MarkedSum ==
    ASSUME NEW n \in Nat, NEW C, IsFiniteSet(C), NEW A, \A c \in C : A[c] \in Nat, NEW M, NEW e,
           \A i \in 1..n : Marks(M[i], C, A, e[i])
    PROVE  SumFunctionOnSet(e, 1..n) = SumFunctionOnSet(ColumnWeights(M, A, C, n), C)
  <1> DEFINE r == RowWeights(M, A, C, n)
  <1>1. \A i \in 1..n : RowWeight(M, A, C, i) = e[i]
    BY MarkedWeight DEF RowWeight
  <1>2. \A i \in 1..n : \A c \in C : M[i][c] \in Nat
    <2> TAKE i \in 1..n
    <2>1. Marks(M[i], C, A, e[i])
      OBVIOUS
    <2> QED BY <2>1 DEF Marks
  <1>3. \A i \in 1..n : e[i] = r[i]
    BY <1>1 DEF RowWeights
  <1>4. IsFiniteSet(1..n)
    BY RangeFinite
  <1> HIDE DEF r
  <1>5. SumFunctionOnSet(e, 1..n) = SumFunctionOnSet(r, 1..n)
    BY <1>3, <1>4, SumAgree
  <1>6. SumFunctionOnSet(r, 1..n) = SumFunctionOnSet(ColumnWeights(M, A, C, n), C)
    BY <1>2, SwapSums DEF r
  <1> QED BY <1>5, <1>6

\* A number for each of 0 to n.
Numbers(n, f) == \A c \in 0..n : f[c] \in Nat

\* What the symbols take, and what the codes do as often as they are taken.
LiteralsTaken(symbols, l) ==
    [i \in 1..Len(symbols) |-> LiteralBits(l, LiteralCode(symbols[i]))]
LiteralsEach(symbols, l) ==
    [c \in 0..285 |-> LiteralCount(symbols, c) * LiteralBits(l, c)]
DistancesTaken(symbols, d) ==
    [i \in 1..Len(symbols) |->
        IF IsMatch(symbols[i]) THEN DistanceBits(d, DistanceCode(symbols[i])) ELSE 0]
DistancesEach(symbols, d) ==
    [c \in 0..29 |-> DistanceCount(symbols, c) * DistanceBits(d, c)]

\* What the codes take are numbers.
LEMMA LiteralBitsNat ==
    ASSUME NEW l, Numbers(285, l)
    PROVE  \A c \in 0..285 : LiteralBits(l, c) \in Nat
  <1> TAKE c \in 0..285
  <1>1. PICK x \in Nat, y \in Nat : x = l[c] /\ y = ExtraOfLiteral[c]
    <2>1. l[c] \in Nat
      BY DEF Numbers
    <2>2. ExtraOfLiteral[c] \in Nat
      BY ExtraOfLiteralIs
    <2> QED BY <2>1, <2>2
  <1>2. LiteralBits(l, c) = x + y
    BY <1>1 DEF LiteralBits
  <1> QED BY <1>2

\* And so are those of the second tree.
LEMMA DistanceBitsNat ==
    ASSUME NEW d, Numbers(29, d)
    PROVE  \A c \in 0..29 : DistanceBits(d, c) \in Nat
  <1> TAKE c \in 0..29
  <1>1. extra_dbits[c] \in Nat
    <2>1. extra_dbits[c] \in 0..13
      BY ExtraBits
    <2> QED BY <2>1
  <1>2. PICK x \in Nat, y \in Nat : x = d[c] /\ y = extra_dbits[c]
    BY <1>1 DEF Numbers
  <1>3. DistanceBits(d, c) = x + y
    BY <1>2 DEF DistanceBits
  <1> QED BY <1>3

\* The bits of the codes of the first tree that the symbols take, with their extra bits.
LEMMA LiteralSum ==
    ASSUME NEW symbols \in Seq(Symbol), NEW l, Numbers(285, l)
    PROVE  SumFunctionOnSet(LiteralsTaken(symbols, l), 1..Len(symbols))
               = SumFunctionOnSet(LiteralsEach(symbols, l), 0..285)
  <1>1. PICK n \in Nat : n = Len(symbols) /\ DOMAIN symbols = 1..n
    OBVIOUS
  <1> DEFINE e == LiteralsTaken(symbols, l)
             C == 0..285
             A == [c \in C |-> LiteralBits(l, c)]
             M == [i \in 1..n |-> [c \in C |-> TakesLiteral(symbols[i], c)]]
  <1>2. IsFiniteSet(C)
    BY AlphabetsFinite
  <1>3. \A c \in C : A[c] \in Nat /\ A[c] = LiteralBits(l, c)
    BY LiteralBitsNat
  <1>4. \A i \in 1..n : LiteralCode(symbols[i]) \in C
    <2>1. \A i \in 1..n : symbols[i] \in Symbol
      BY <1>1
    <2> QED BY <2>1, CodesOfSymbol
  <1>5. ASSUME NEW i \in 1..n
        PROVE  Marks(M[i], C, A, e[i])
    <2> DEFINE x == LiteralCode(symbols[i])
    <2>1. x \in C
      BY <1>4
    <2>2. e[i] = LiteralBits(l, x) /\ A[x] = LiteralBits(l, x)
      BY <1>1, <2>1 DEF LiteralsTaken
    <2>3. \A c \in C : M[i][c] = IF c = x THEN 1 ELSE 0
      BY DEF TakesLiteral
    <2> HIDE DEF x, M, A, C, e
    <2> QED BY <2>1, <2>2, <2>3 DEF Marks
  <1> DEFINE g == ColumnWeights(M, A, C, n)
             h == [c \in C |-> LiteralCount(symbols, c) * LiteralBits(l, c)]
  <1>7. SumFunctionOnSet(e, 1..n) = SumFunctionOnSet(g, C)
    <2> HIDE DEF C, A, M, e
    <2>1. /\ \A c \in C : A[c] \in Nat
          /\ \A i \in 1..n : Marks(M[i], C, A, e[i])
      BY <1>3, <1>5
    <2> QED BY <1>2, <2>1, MarkedSum, Zenon
  <1>8. ASSUME NEW c \in C
        PROVE  InColumn(M, n, c) = LiteralCount(symbols, c)
    <2>1. [i \in 1..n |-> M[i][c]] = [i \in DOMAIN symbols |-> TakesLiteral(symbols[i], c)]
      BY <1>1
    <2> HIDE DEF M
    <2> QED BY <1>1, <2>1 DEF LiteralCount, SumFunction, InColumn
  <1>9. g = h
    <2> HIDE DEF A, M, C
    <2> QED BY <1>3, <1>8 DEF ColumnWeights
  <1> HIDE DEF g, e
  <1> QED BY <1>1, <1>7, <1>9 DEF e, LiteralsEach

\* And of those of the second tree.
LEMMA DistanceSum ==
    ASSUME NEW symbols \in Seq(Symbol), NEW d, Numbers(29, d)
    PROVE  SumFunctionOnSet(DistancesTaken(symbols, d), 1..Len(symbols))
               = SumFunctionOnSet(DistancesEach(symbols, d), 0..29)
  <1>1. PICK n \in Nat : n = Len(symbols) /\ DOMAIN symbols = 1..n
    OBVIOUS
  <1> DEFINE e == DistancesTaken(symbols, d)
             C == 0..29
             A == [c \in C |-> DistanceBits(d, c)]
             M == [i \in 1..n |-> [c \in C |-> TakesDistance(symbols[i], c)]]
  <1>2. IsFiniteSet(C)
    BY AlphabetsFinite
  <1>3. \A c \in C : A[c] \in Nat /\ A[c] = DistanceBits(d, c)
    BY DistanceBitsNat
  <1>4. \A i \in 1..n : IsMatch(symbols[i]) => DistanceCode(symbols[i]) \in C
    <2>1. \A i \in 1..n : symbols[i] \in Symbol
      BY <1>1
    <2> QED BY <2>1, CodesOfSymbol
  <1>5. ASSUME NEW i \in 1..n
        PROVE  Marks(M[i], C, A, e[i])
    <2> DEFINE x == DistanceCode(symbols[i])
    <2>1. CASE IsMatch(symbols[i])
      <3>1. x \in C
        BY <1>4, <2>1
      <3>2. e[i] = DistanceBits(d, x) /\ A[x] = DistanceBits(d, x)
        BY <1>1, <2>1, <3>1 DEF DistancesTaken
      <3>3. \A c \in C : M[i][c] = IF c = x THEN 1 ELSE 0
        BY <2>1 DEF TakesDistance
      <3> HIDE DEF x, M, A, C, e
      <3> QED BY <3>1, <3>2, <3>3 DEF Marks
    <2>2. CASE ~IsMatch(symbols[i])
      <3>1. e[i] = 0
        BY <1>1, <2>2 DEF DistancesTaken
      <3>2. \A c \in C : M[i][c] = 0
        BY <2>2 DEF TakesDistance
      <3> HIDE DEF x, M, A, C, e
      <3> QED BY <3>1, <3>2 DEF Marks
    <2> QED BY <2>1, <2>2
  <1> DEFINE g == ColumnWeights(M, A, C, n)
             h == [c \in C |-> DistanceCount(symbols, c) * DistanceBits(d, c)]
  <1>7. SumFunctionOnSet(e, 1..n) = SumFunctionOnSet(g, C)
    <2> HIDE DEF C, A, M, e
    <2>1. /\ \A c \in C : A[c] \in Nat
          /\ \A i \in 1..n : Marks(M[i], C, A, e[i])
      BY <1>3, <1>5
    <2> QED BY <1>2, <2>1, MarkedSum, Zenon
  <1>8. ASSUME NEW c \in C
        PROVE  InColumn(M, n, c) = DistanceCount(symbols, c)
    <2>1. [i \in 1..n |-> M[i][c]] = [i \in DOMAIN symbols |-> TakesDistance(symbols[i], c)]
      BY <1>1
    <2> HIDE DEF M
    <2> QED BY <1>1, <2>1 DEF DistanceCount, SumFunction, InColumn
  <1>9. g = h
    <2> HIDE DEF A, M, C
    <2> QED BY <1>3, <1>8 DEF ColumnWeights
  <1> HIDE DEF g, e
  <1> QED BY <1>1, <1>7, <1>9 DEF e, DistancesEach

\* What the frequencies count of the first tree: the codes of the symbols, and the end.
LEMMA LiteralFreq ==
    ASSUME NEW symbols \in Seq(Symbol), NEW lf, NEW df, Counts(symbols, lf, df),
           NEW l, Numbers(285, l)
    PROVE  BitsOf(lf, l, ExtraOfLiteral)
               = SumFunctionOnSet(LiteralsEach(symbols, l), 0..285) + l[end_block]
  <1> DEFINE h == LiteralsEach(symbols, l)
             g == BitsOfEach(285, lf, l, ExtraOfLiteral)
             C == 0..285
  <1>1. lf \in [0..285 -> Nat]
    BY CountsFit
  <1>2. lf = [c \in 0..285 |-> LiteralCount(symbols, c) + IF c = 256 THEN 1 ELSE 0]
    BY DEF Counts, lcodes, literals, length_codes, end_block
  <1>3. \A c \in 0..285 : LiteralBits(l, c) \in Nat /\ LiteralBits(l, c) = l[c] + ExtraOfLiteral[c]
    BY LiteralBitsNat DEF LiteralBits
  <1>4. \A c : LiteralCount(symbols, c) \in Nat
    <2>1. PICK s : s \in Symbol
      <3>1. 0 \in 0..255 /\ 0 \in 0..max_dist
        BY DEF max_dist
      <3>2. [len |-> 0, dist |-> 0] \in Symbol
        BY <3>1 DEF Symbol
      <3> QED BY <3>2
    <2> QED BY <2>1, CountAppend
  <1>5. BitsOf(lf, l, ExtraOfLiteral) = SumFunctionOnSet(g, C)
    <2> DEFINE m == 285
    <2>1. Takes(m, l, ExtraOfLiteral) /\ m \in Nat /\ lf \in [0..m -> Nat]
      <3>1. Takes(m, l, ExtraOfLiteral)
        BY <1>3 DEF Takes
      <3>2. m \in Nat
        OBVIOUS
      <3> QED BY <1>1, <3>1, <3>2
    <2> HIDE DEF m
    <2>2. BitsOf(lf, l, ExtraOfLiteral)
              = SumFunctionOnSet(BitsOfEach(m, lf, l, ExtraOfLiteral), 0..m)
      BY <2>1, BitsOfAll
    <2> QED BY <2>2 DEF m
  <1>6. IsFiniteSet(C) /\ 256 \in C
    BY AlphabetsFinite
  <1>7. \A c \in C : h[c] \in Int /\ g[c] \in Int /\ (c # 256 => h[c] = g[c])
    <2> TAKE c \in C
    <2>1. PICK x \in Nat, a \in Nat, y \in Nat :
             x = LiteralCount(symbols, c) /\ a = LiteralBits(l, c) /\ y = lf[c]
      BY <1>1, <1>3, <1>4
    <2>2. h[c] = x * a /\ g[c] = y * a
      BY <1>3, <2>1 DEF BitsOfEach, LiteralsEach
    <2>3. x * a \in Nat /\ y * a \in Nat
      BY Distributes
    <2>4. c # 256 => y = x
      <3>1. lf[c] = LiteralCount(symbols, c) + IF c = 256 THEN 1 ELSE 0
        BY <1>2
      <3> QED BY <2>1, <3>1
    <2> HIDE DEF h, g
    <2> QED BY <2>2, <2>3, <2>4
  <1>8. g[256] - h[256] = l[end_block]
    <2>1. lf[256] = LiteralCount(symbols, 256) + 1
      BY <1>2
    <2>2. LiteralBits(l, 256) = l[256] /\ l[256] \in Nat
      <3>1. ExtraOfLiteral[256] = 0 /\ 256 \in 0..285
        BY ExtraOfLiteralIs
      <3>2. PICK x \in Nat : x = l[256]
        BY <3>1 DEF Numbers
      <3>3. LiteralBits(l, 256) = x + 0
        BY <3>1, <3>2 DEF LiteralBits
      <3> QED BY <3>2, <3>3
    <2>3. PICK x \in Nat, a \in Nat : x = LiteralCount(symbols, 256) /\ a = l[256]
      BY <1>4, <2>2
    <2>4. h[256] = x * a /\ g[256] = (x + 1) * a
      <3>1. h[256] = LiteralCount(symbols, 256) * LiteralBits(l, 256)
            /\ g[256] = lf[256] * (l[256] + ExtraOfLiteral[256])
        BY <1>6 DEF BitsOfEach, LiteralsEach
      <3>2. l[256] + ExtraOfLiteral[256] = LiteralBits(l, 256)
        BY <1>3, <1>6
      <3> HIDE DEF h, g
      <3> QED BY <2>1, <2>2, <2>3, <3>1, <3>2
    <2>5. (x + 1) * a = x * a + 1 * a /\ 1 * a = a /\ x * a \in Nat
      BY Distributes
    <2> HIDE DEF h, g
    <2> QED BY <2>3, <2>4, <2>5 DEF end_block
  <1> HIDE DEF g, h, C
  <1>9. SumFunctionOnSet(g, C) = SumFunctionOnSet(h, C) + (g[256] - h[256])
    BY <1>6, <1>7, SumChange
  <1> QED BY <1>5, <1>8, <1>9 DEF h, C

\* What they count of the second.
LEMMA DistanceFreq ==
    ASSUME NEW symbols \in Seq(Symbol), NEW lf, NEW df, Counts(symbols, lf, df),
           NEW d, Numbers(29, d)
    PROVE  BitsOf(df, d, extra_dbits)
               = SumFunctionOnSet(DistancesEach(symbols, d), 0..29)
  <1>1. df \in [0..29 -> Nat]
    BY CountsFit
  <1>2. df = [c \in 0..29 |-> DistanceCount(symbols, c)]
    BY DEF Counts, dcodes
  <1>3. Takes(29, d, extra_dbits)
    BY DistanceBitsNat DEF DistanceBits, Takes
  <1>4. BitsOf(df, d, extra_dbits)
            = SumFunctionOnSet(BitsOfEach(29, df, d, extra_dbits), 0..29)
    BY <1>1, <1>3, BitsOfAll
  <1>5. \A c \in 0..29 : df[c] * (d[c] + extra_dbits[c])
                             = DistanceCount(symbols, c) * DistanceBits(d, c)
    BY <1>2 DEF DistanceBits
  <1>6. BitsOfEach(29, df, d, extra_dbits)
            = DistancesEach(symbols, d)
    BY <1>5, Zenon DEF BitsOfEach, DistancesEach
  <1> QED BY <1>4, <1>6

\* A tree has a number of bits for every code of the first, or of the second, alphabet.
BothNumbers(l, d) == Numbers(285, l) /\ Numbers(29, d)

\* What compress_block sends takes as many bits as the frequencies say.
LEMMA BlockTotal ==
    ASSUME NEW symbols \in Seq(Symbol), NEW lf, NEW df, Counts(symbols, lf, df),
           NEW l, NEW d, BothNumbers(l, d), TreesFor(symbols, l, d), NEW kind \in {1, 2}
    PROVE  /\ Total(compress_block(symbols, l, d, kind))
                  = BitsOf(lf, l, ExtraOfLiteral) + BitsOf(df, d, extra_dbits)
           /\ compress_block(symbols, l, d, kind) \in Seq(ItemSet)
           /\ BitsOf(lf, l, ExtraOfLiteral) \in Nat /\ BitsOf(df, d, extra_dbits) \in Nat
  <1>1. PICK n \in Nat : n = Len(symbols) /\ DOMAIN symbols = 1..n
    OBVIOUS
  <1> DEFINE rows == Rows(symbols, l, d, kind)
             f == FlattenSeq(rows)
             x == send_code(end_block, "literal", kind, l)
             L == LiteralsTaken(symbols, l)
             D == DistancesTaken(symbols, d)
             T == [k \in DOMAIN rows |-> Total(rows[k])]
             SL == SumFunctionOnSet(LiteralsEach(symbols, l), 0..285)
             SD == SumFunctionOnSet(DistancesEach(symbols, d), 0..29)
  <1>2. compress_block(symbols, l, d, kind) = f \o <<x>>
    BY DEF compress_block, Rows, SymbolItems
  <1>3. x \in ItemSet /\ x.bits = l[end_block]
    <2>1. end_block \in Int /\ kind \in {0, 1, 2} /\ "literal" \in {"literal", "distance", "length"}
      BY DEF end_block
    <2>2. l[end_block] \in Nat
      BY DEF TreesFor
    <2> QED BY <2>1, <2>2, CodeItem
  <1>4. rows \in Seq(Seq(ItemSet)) /\ Len(rows) = n /\ DOMAIN rows = 1..n
    <2>1. rows \in Seq(Seq(ItemSet)) /\ Len(rows) = n
      BY <1>1, RowsAre
    <2> HIDE DEF rows
    <2> QED BY <2>1
  <1>5. \A i \in 1..n : T[i] = L[i] + D[i]
    <2> TAKE i \in 1..n
    <2>1. symbols[i] \in Symbol /\ HasCodes(symbols[i], l, d)
      BY <1>1 DEF TreesFor
    <2>2. rows[i] = SymbolItems(symbols[i], l, d, kind)
      BY <1>1 DEF Rows
    <2>3. Total(rows[i]) = BitsOfSymbol(symbols[i], l, d)
      BY <2>1, <2>2, SymbolTotal
    <2>4. T[i] = Total(rows[i])
      BY <1>4
    <2>5. /\ L[i] = LiteralBits(l, LiteralCode(symbols[i]))
          /\ D[i] = IF IsMatch(symbols[i]) THEN DistanceBits(d, DistanceCode(symbols[i])) ELSE 0
      BY <1>1 DEF LiteralsTaken, DistancesTaken
    <2> HIDE DEF T, L, D, rows
    <2> QED BY <2>3, <2>4, <2>5 DEF BitsOfSymbol
  <1>6. \A i \in 1..n : L[i] \in Nat /\ D[i] \in Nat
    <2> TAKE i \in 1..n
    <2>1. symbols[i] \in Symbol
      BY <1>1
    <2>2. LiteralCode(symbols[i]) \in 0..285 /\ (IsMatch(symbols[i]) => DistanceCode(symbols[i]) \in 0..29)
      BY <2>1, CodesOfSymbol
    <2>3. /\ LiteralBits(l, LiteralCode(symbols[i])) \in Nat
          /\ IsMatch(symbols[i]) => DistanceBits(d, DistanceCode(symbols[i])) \in Nat
      BY <2>2, LiteralBitsNat, DistanceBitsNat DEF BothNumbers
    <2>4. /\ L[i] = LiteralBits(l, LiteralCode(symbols[i]))
          /\ D[i] = IF IsMatch(symbols[i]) THEN DistanceBits(d, DistanceCode(symbols[i])) ELSE 0
      BY <1>1 DEF LiteralsTaken, DistancesTaken
    <2> HIDE DEF L, D
    <2> QED BY <2>3, <2>4
  <1>7. SumFunctionOnSet(L, 1..n) = SL
    BY <1>1, LiteralSum DEF BothNumbers
  <1>8. SumFunctionOnSet(D, 1..n) = SD
    BY <1>1, DistanceSum DEF BothNumbers
  <1>9. BitsOf(lf, l, ExtraOfLiteral) = SL + l[end_block]
    BY LiteralFreq DEF BothNumbers
  <1>10. BitsOf(df, d, extra_dbits) = SD
    BY DistanceFreq DEF BothNumbers
  <1>11. f \in Seq(ItemSet) /\ Total(f) = SumFunctionOnSet(T, 1..n)
    <2>1. Total(f) = SumFunction(T)
      BY <1>4, TotalFlatten
    <2>2. f \in Seq(ItemSet)
      <3> HIDE DEF rows
      <3> QED BY <1>4, FlattenElements
    <2>3. DOMAIN T = 1..n
      BY <1>4
    <2> HIDE DEF T, f
    <2> QED BY <2>1, <2>2, <2>3 DEF SumFunction
  <1> HIDE DEF L, D, T, SL, SD, f, x
  <1>12. IsFiniteSet(1..n)
    BY RangeFinite
  <1>13. SumFunctionOnSet(T, 1..n) = SumFunctionOnSet(L, 1..n) + SumFunctionOnSet(D, 1..n)
    <2>1. \A i \in 1..n : L[i] \in Int /\ D[i] \in Int /\ T[i] = L[i] + D[i]
      BY <1>5, <1>6
    <2> QED BY <1>12, <2>1, SumPlus
  <1>14. SumFunctionOnSet(L, 1..n) \in Nat /\ SumFunctionOnSet(D, 1..n) \in Nat
    BY <1>6, <1>12, SumNat
  <1>15. Total(<<x>>) = x.bits /\ <<x>> \in Seq(ItemSet) /\ x.bits \in Nat
    BY <1>3, TotalOne
  <1>16. Total(f \o <<x>>) = Total(f) + Total(<<x>>) /\ f \o <<x>> \in Seq(ItemSet)
    BY <1>11, <1>15, TotalConcat
  <1>17. \A p, q, r \in Nat : (p + q) + r = (p + r) + q /\ p + r \in Nat
    OBVIOUS
  <1>18. SL \in Nat /\ SD \in Nat /\ l[end_block] \in Nat /\ Total(f) = SL + SD
    BY <1>3, <1>7, <1>8, <1>11, <1>13, <1>14, <1>15
  <1>19. (SL + SD) + l[end_block] = (SL + l[end_block]) + SD /\ SL + l[end_block] \in Nat
    BY <1>17, <1>18
  <1> QED BY <1>2, <1>3, <1>9, <1>10, <1>15, <1>16, <1>18, <1>19

-----------------------------------------------------------------------------
(* The bits of the trees *)

\* What a run adds to a frequency, weighed by what the code takes.
LengthBits(bl, c) == bl[c] + extra_blbits[c]
RunBits(r, bl) == SumFunctionOnSet([c \in 0..18 |-> Adds(r, c) * LengthBits(bl, c)], 0..18)

\* What the codes for lengths take.
LEMMA LengthBitsAre ==
    ASSUME NEW bl, BitLengths(bl)
    PROVE  /\ \A c \in 0..18 : LengthBits(bl, c) \in Nat /\ bl[c] \in Nat
           /\ \A c \in 0..15 : LengthBits(bl, c) = bl[c]
           /\ LengthBits(bl, 16) = bl[16] + 2 /\ LengthBits(bl, 17) = bl[17] + 3
           /\ LengthBits(bl, 18) = bl[18] + 7
  <1>1. extra_blbits = [c \in 0..18 |-> CASE c = 16 -> 2 [] c = 17 -> 3 [] c = 18 -> 7 [] OTHER -> 0]
    BY DEF extra_blbits, bl_codes, rep_3_6, repz_3_10, repz
  <1>2. /\ \A c \in 0..15 : extra_blbits[c] = 0
        /\ extra_blbits[16] = 2 /\ extra_blbits[17] = 3 /\ extra_blbits[18] = 7
    BY <1>1
  <1>3. \A c \in 0..18 : c \in 0..15 \/ c = 16 \/ c = 17 \/ c = 18
    OBVIOUS
  <1>4. \A c \in 0..18 : bl[c] \in Nat
    BY DEF BitLengths, bl_codes, max_bl_bits
  <1>5. \A c \in 0..15 : c \in 0..18 /\ LengthBits(bl, c) = bl[c]
    <2> TAKE c \in 0..15
    <2>1. c \in 0..18
      OBVIOUS
    <2>2. bl[c] \in Nat
      BY <1>4, <2>1
    <2> QED BY <1>2, <2>1, <2>2 DEF LengthBits
  <1>6. LengthBits(bl, 16) = bl[16] + 2 /\ LengthBits(bl, 17) = bl[17] + 3
        /\ LengthBits(bl, 18) = bl[18] + 7
    BY <1>2 DEF LengthBits
  <1>7. bl[16] \in Nat /\ bl[17] \in Nat /\ bl[18] \in Nat
    BY <1>4
  <1>8. \A c \in 0..18 : LengthBits(bl, c) \in Nat
    BY <1>3, <1>4, <1>5, <1>6, <1>7
  <1> QED BY <1>4, <1>5, <1>6, <1>8

\* What a run adds to the frequencies, in each of the forms that it is sent in.
LEMMA AddsIs ==
    ASSUME NEW r, RunShape(r), NEW c \in 0..18
    PROVE  /\ Single(r) => Adds(r, c) = IF c = r.len THEN r.count ELSE 0
           /\ Again(r) => Adds(r, c) = IF c = 16 THEN 1 ELSE 0
           /\ NewAgain(r) => Adds(r, c) = IF c = 16 \/ c = r.len THEN 1 ELSE 0
           /\ Zeros(r) /\ r.count <= 10 => Adds(r, c) = IF c = 17 THEN 1 ELSE 0
           /\ Zeros(r) /\ ~(r.count <= 10) => Adds(r, c) = IF c = 18 THEN 1 ELSE 0
  BY DEF Adds, Single, Again, NewAgain, Zeros, rep_3_6, repz_3_10, repz

\* Items of codes for lengths.
LEMMA LengthCodeBits ==
    ASSUME NEW bl, BitLengths(bl), NEW c \in 0..18
    PROVE  LengthCode(c, bl) \in ItemSet /\ LengthCode(c, bl).bits = bl[c] /\ bl[c] \in Nat
  BY LengthCodeIs

\* What is sent for a run takes the bits that it adds to the frequencies.
LEMMA RunTotal ==
    ASSUME NEW r, RunShape(r), NEW bl, BitLengths(bl)
    PROVE  Total(SendRun(r, bl)) = RunBits(r, bl)
  <1> DEFINE f == [c \in 0..18 |-> Adds(r, c) * LengthBits(bl, c)]
             C == 0..18
             row == SendRun(r, bl)
             X(c) == LengthCode(c, bl)
             v == r.len
  <1>1. r.count \in Nat /\ r.count \in 1..138 /\ v \in 0..15 /\ r.min \in 3..4
    BY RunFields DEF max_bits
  <1>2. /\ r.len = 0 => r.min = 3
        /\ r.len # 0 /\ r.len = r.prevlen => r.min = 3 /\ r.count <= 6
        /\ r.len # 0 /\ r.len # r.prevlen => r.min = 4 /\ r.count <= 7
    BY DEF RunShape
  <1>3. v \in C /\ 16 \in C /\ 17 \in C /\ 18 \in C /\ v # 16
    BY <1>1
  <1>4. IsFiniteSet(C)
    BY AlphabetsFinite
  <1>5. RowIs(r, row, bl)
    BY SendRunIs
  <1>6. \A c \in C : LengthBits(bl, c) \in Nat /\ bl[c] \in Nat
    BY LengthBitsAre
  <1>7. \A a \in Nat : 0 * a = 0 /\ 1 * a = a
    OBVIOUS
  <1>8. \A c \in C : f[c] = Adds(r, c) * LengthBits(bl, c)
    OBVIOUS
  <1>9. /\ \A c \in C : X(c) \in ItemSet /\ X(c).bits = bl[c]
    BY LengthCodeBits
  <1>10. RunBits(r, bl) = SumFunctionOnSet(f, C)
    BY DEF RunBits
  <1>11. LengthBits(bl, v) = bl[v]
    BY <1>1, LengthBitsAre
  <1>12. LengthBits(bl, 16) = bl[16] + 2 /\ LengthBits(bl, 17) = bl[17] + 3
         /\ LengthBits(bl, 18) = bl[18] + 7
    BY LengthBitsAre
  <1>13. \A n \in 0..127 : send_bits(n, 7) \in ItemSet /\ send_bits(n, 7).bits = 7
    BY SmallBits DEF send_bits
  <1>14. \A n \in 0..7 : send_bits(n, 3) \in ItemSet /\ send_bits(n, 3).bits = 3
    BY SmallBits DEF send_bits
  <1>15. \A n \in 0..3 : send_bits(n, 2) \in ItemSet /\ send_bits(n, 2).bits = 2
    BY SmallBits DEF send_bits
  <1> HIDE DEF f, C, row, X
  <1>16. ASSUME NEW z \in C, \A c \in C : Adds(r, c) = IF c = z THEN 1 ELSE 0
         PROVE  RunBits(r, bl) = LengthBits(bl, z)
    <2>1. f[z] = LengthBits(bl, z)
      BY <1>6, <1>7, <1>8, <1>16
    <2>2. \A c \in C : f[c] \in Int /\ (c # z => f[c] = 0)
      <3> TAKE c \in C
      <3>1. c # z => f[c] = 0
        BY <1>6, <1>7, <1>8, <1>16
      <3>2. f[z] \in Nat
        BY <1>6, <2>1
      <3> QED BY <3>1, <3>2
    <2>3. SumFunctionOnSet(f, C) = f[z]
      BY <1>4, <2>2, SumOneTerm
    <2> QED BY <1>10, <2>1, <2>3
  <1>17. CASE Single(r)
    <2>1. row = [i \in 1..r.count |-> X(v)]
      BY <1>5, <1>17 DEF RowIs, X
    <2>2. DOMAIN row = 1..r.count /\ \A i \in 1..r.count : row[i].bits = bl[v]
      BY <1>3, <1>9, <2>1
    <2>3. Total(row) = r.count * bl[v]
      BY <1>1, <1>3, <1>6, <2>2, TotalEqual
    <2>4. \A c \in C : Adds(r, c) = IF c = v THEN r.count ELSE 0
      BY <1>17, AddsIs DEF C
    <2>5. f[v] = r.count * bl[v]
      BY <1>3, <1>8, <1>11, <2>4
    <2>6. f[v] \in Nat
      <3>1. PICK p \in Nat, q \in Nat : p = r.count /\ q = bl[v]
        BY <1>1, <1>3, <1>6
      <3>2. f[v] = p * q /\ p * q \in Nat
        BY <2>5, <3>1, Distributes
      <3> QED BY <3>2
    <2>7. \A c \in C : f[c] \in Int /\ (c # v => f[c] = 0)
      <3> TAKE c \in C
      <3>1. c # v => f[c] = 0
        BY <1>6, <1>7, <1>8, <2>4
      <3> QED BY <2>6, <3>1
    <2>8. SumFunctionOnSet(f, C) = f[v]
      BY <1>3, <1>4, <2>7, SumOneTerm
    <2> QED BY <1>10, <2>3, <2>5, <2>8 DEF row
  <1>18. CASE Again(r)
    <2> DEFINE y == send_bits(r.count - 3, 2)
    <2>1. row = <<X(16), y>>
      BY <1>5, <1>18 DEF RowIs, X
    <2>2. r.count - 3 \in 0..3
      BY <1>1, <1>2, <1>18 DEF Again, Single
    <2>3. y \in ItemSet /\ y.bits = 2
      BY <1>15, <2>2
    <2> HIDE DEF y
    <2>4. Total(row) = X(16).bits + y.bits
      BY <1>3, <1>9, <2>1, <2>3, TotalTwo
    <2>5. \A c \in C : Adds(r, c) = IF c = 16 THEN 1 ELSE 0
      BY <1>18, AddsIs DEF C
    <2>6. RunBits(r, bl) = LengthBits(bl, 16)
      BY <1>3, <1>16, <2>5
    <2> QED BY <1>3, <1>9, <1>12, <2>3, <2>4, <2>6 DEF row
  <1>19. CASE Zeros(r) /\ r.count <= 10
    <2> DEFINE y == send_bits(r.count - 3, 3)
    <2>1. row = <<X(17), y>>
      BY <1>5, <1>19 DEF RowIs, X
    <2>2. r.count - 3 \in 0..7
      BY <1>1, <1>2, <1>19 DEF Zeros, Single
    <2>3. y \in ItemSet /\ y.bits = 3
      BY <1>14, <2>2
    <2> HIDE DEF y
    <2>4. Total(row) = X(17).bits + y.bits
      BY <1>3, <1>9, <2>1, <2>3, TotalTwo
    <2>5. \A c \in C : Adds(r, c) = IF c = 17 THEN 1 ELSE 0
      BY <1>19, AddsIs DEF C
    <2>6. RunBits(r, bl) = LengthBits(bl, 17)
      BY <1>3, <1>16, <2>5
    <2> QED BY <1>3, <1>9, <1>12, <2>3, <2>4, <2>6 DEF row
  <1>20. CASE Zeros(r) /\ ~(r.count <= 10)
    <2> DEFINE y == send_bits(r.count - 11, 7)
    <2>1. row = <<X(18), y>>
      BY <1>5, <1>20 DEF RowIs, X
    <2>2. r.count - 11 \in 0..127
      BY <1>1, <1>20
    <2>3. y \in ItemSet /\ y.bits = 7
      BY <1>13, <2>2
    <2> HIDE DEF y
    <2>4. Total(row) = X(18).bits + y.bits
      BY <1>3, <1>9, <2>1, <2>3, TotalTwo
    <2>5. \A c \in C : Adds(r, c) = IF c = 18 THEN 1 ELSE 0
      BY <1>20, AddsIs DEF C
    <2>6. RunBits(r, bl) = LengthBits(bl, 18)
      BY <1>3, <1>16, <2>5
    <2> QED BY <1>3, <1>9, <1>12, <2>3, <2>4, <2>6 DEF row
  <1>21. CASE NewAgain(r)
    <2> DEFINE y == send_bits(r.count - 4, 2)
    <2>1. row = <<X(v), X(16), y>>
      BY <1>5, <1>21 DEF RowIs, X
    <2>2. r.count - 4 \in 0..3
      BY <1>1, <1>2, <1>21 DEF NewAgain, Single
    <2>3. y \in ItemSet /\ y.bits = 2
      BY <1>15, <2>2
    <2> HIDE DEF y
    <2>4. Total(row) = X(v).bits + (X(16).bits + y.bits)
      BY <1>3, <1>9, <2>1, <2>3, TotalThree
    <2>5. \A c \in C : Adds(r, c) = IF c = 16 \/ c = v THEN 1 ELSE 0
      BY <1>21, AddsIs DEF C
    <2>6. f[16] = bl[16] + 2 /\ f[v] = bl[v]
      <3>1. f[16] = 1 * LengthBits(bl, 16) /\ f[v] = 1 * LengthBits(bl, v)
        BY <1>3, <1>8, <2>5
      <3> QED BY <1>3, <1>6, <1>7, <1>11, <1>12, <3>1
    <2>7. \A c \in C : f[c] \in Int /\ (c # v /\ c # 16 => f[c] = 0)
      <3> TAKE c \in C
      <3>1. c # v /\ c # 16 => f[c] = 0
        BY <1>6, <1>7, <1>8, <2>5
      <3>2. f[16] \in Nat /\ f[v] \in Nat
        BY <1>3, <1>6, <2>6
      <3> QED BY <3>1, <3>2
    <2>8. SumFunctionOnSet(f, C) = f[v] + f[16]
      BY <1>3, <1>4, <2>7, SumTwoTerms
    <2>9. bl[v] \in Nat /\ bl[16] \in Nat
      BY <1>3, <1>6
    <2> QED BY <1>3, <1>9, <1>10, <2>3, <2>4, <2>6, <2>8, <2>9 DEF row
  <1> QED BY <1>17, <1>18, <1>19, <1>20, <1>21 DEF Single, Again, NewAgain, Zeros

\* What is sent for a list of runs takes the bits that scan_tree counts for them.
LEMMA RunsTotal ==
    ASSUME NEW rs, AllShaped(rs), NEW bl, BitLengths(bl)
    PROVE  /\ Total(FlattenSeq(RowsOfRuns(rs, bl))) = BitsOf(scan_tree(rs), bl, extra_blbits)
           /\ FlattenSeq(RowsOfRuns(rs, bl)) \in Seq(ItemSet)
           /\ BitsOf(scan_tree(rs), bl, extra_blbits) \in Nat
  <1>1. PICK n \in Nat : n = Len(rs) /\ DOMAIN rs = 1..n /\ \A i \in 1..n : RunShape(rs[i])
    BY DEF AllShaped
  <1> DEFINE C == 0..18
             A == [c \in C |-> LengthBits(bl, c)]
             M == [i \in 1..n |-> [c \in C |-> Adds(rs[i], c)]]
             rows == RowsOfRuns(rs, bl)
             T == [k \in DOMAIN rows |-> Total(rows[k])]
             F == FlattenSeq(rows)
             g == scan_tree(rs)
  <1>2. IsFiniteSet(C) /\ IsFiniteSet(1..n)
    BY AlphabetsFinite, RangeFinite
  <1>3. \A c \in C : A[c] \in Nat /\ A[c] = LengthBits(bl, c)
    BY LengthBitsAre
  <1>4. \A i \in 1..n : \A c \in C : M[i][c] \in Nat /\ M[i][c] = Adds(rs[i], c)
    BY <1>1, AddsNat
  <1>5. rows \in Seq(Seq(ItemSet)) /\ Len(rows) = n /\ DOMAIN rows = 1..n
        /\ \A k \in 1..n : rows[k] = SendRun(rs[k], bl)
    <2>1. rows \in Seq(Seq(ItemSet)) /\ Len(rows) = n /\ \A k \in 1..n : rows[k] = SendRun(rs[k], bl)
      BY <1>1, RowsOfRunsAre
    <2> HIDE DEF rows
    <2> QED BY <2>1
  <1> HIDE DEF rows
  <1>6. F \in Seq(ItemSet) /\ Total(F) = SumFunctionOnSet(T, 1..n)
    <2>1. Total(F) = SumFunction(T)
      BY <1>5, TotalFlatten
    <2>2. F \in Seq(ItemSet)
      BY <1>5, FlattenElements
    <2>3. DOMAIN T = 1..n
      BY <1>5
    <2> HIDE DEF T, F
    <2> QED BY <2>1, <2>2, <2>3 DEF SumFunction
  <1>7. \A i \in 1..n : T[i] = RowWeight(M, A, C, i)
    <2> TAKE i \in 1..n
    <2>1. T[i] = RunBits(rs[i], bl)
      BY <1>1, <1>5, RunTotal
    <2> DEFINE p == [c \in C |-> M[i][c] * A[c]]
               q == [c \in C |-> Adds(rs[i], c) * LengthBits(bl, c)]
    <2>2. \A c \in C : M[i][c] * A[c] = Adds(rs[i], c) * LengthBits(bl, c)
      BY <1>3, <1>4
    <2>3. p = q
      <3> HIDE DEF A, M, C
      <3> QED BY <2>2, Zenon
    <2>4. RowWeight(M, A, C, i) = SumFunctionOnSet(p, C) /\ RunBits(rs[i], bl) = SumFunctionOnSet(q, C)
      BY DEF RowWeight, RunBits
    <2> HIDE DEF T, p, q, A, M, C
    <2> QED BY <2>1, <2>3, <2>4
  <1>8. \A i \in 1..n : T[i] = RowWeights(M, A, C, n)[i]
    <2> HIDE DEF T, M, A, C
    <2> QED BY <1>7 DEF RowWeights
  <1>9. SumFunctionOnSet(T, 1..n) = SumFunctionOnSet(RowWeights(M, A, C, n), 1..n)
    <2> HIDE DEF T, M, A, C
    <2> QED BY <1>2, <1>8, SumAgree
  <1>10. SumFunctionOnSet(RowWeights(M, A, C, n), 1..n) = SumFunctionOnSet(ColumnWeights(M, A, C, n), C)
    <2> HIDE DEF M, A, C
    <2>1. /\ \A c \in C : A[c] \in Nat
          /\ \A i \in 1..n : \A c \in C : M[i][c] \in Nat
      BY <1>3, <1>4
    <2> QED BY <1>2, <2>1, SwapSums
  <1>11. g = [c \in C |-> InColumn(M, n, c)]
    <2>1. \A c \in C : SumFunction([i \in DOMAIN rs |-> Adds(rs[i], c)]) = InColumn(M, n, c)
      <3> TAKE c \in C
      <3>1. [i \in DOMAIN rs |-> Adds(rs[i], c)] = [i \in 1..n |-> M[i][c]]
        BY <1>1
      <3> HIDE DEF M
      <3> QED BY <3>1 DEF InColumn, SumFunction
    <2>2. g = [c \in C |-> SumFunction([i \in DOMAIN rs |-> Adds(rs[i], c)])]
      BY DEF scan_tree, bl_codes
    <2> HIDE DEF C, g, M
    <2> QED BY <2>1, <2>2, Zenon
  <1>12. g \in [C -> Nat]
    <2>1. \A c \in C : InColumn(M, n, c) \in Nat
      <3> TAKE c \in C
      <3> DEFINE h == [i \in 1..n |-> M[i][c]]
      <3>1. \A i \in 1..n : h[i] \in Nat
        BY <1>4
      <3> HIDE DEF h
      <3>2. SumFunctionOnSet(h, 1..n) \in Nat
        BY <1>2, <3>1, SumNat
      <3> QED BY <3>2 DEF h, InColumn
    <2> HIDE DEF g, C, M
    <2> QED BY <1>11, <2>1
  <1>13. BitsOf(g, bl, extra_blbits) = SumFunctionOnSet(BitsOfEach(18, g, bl, extra_blbits), C)
    <2>1. Takes(18, bl, extra_blbits)
      BY LengthBitsAre DEF Takes, LengthBits
    <2> HIDE DEF g
    <2> QED BY <1>12, <2>1, BitsOfAll
  <1>14. BitsOfEach(18, g, bl, extra_blbits) = ColumnWeights(M, A, C, n)
    <2>1. \A c \in C : g[c] * (bl[c] + extra_blbits[c]) = InColumn(M, n, c) * A[c]
      <3> TAKE c \in C
      <3>1. g[c] = InColumn(M, n, c)
        <4> HIDE DEF g, M, C
        <4> QED BY <1>11
      <3>2. A[c] = bl[c] + extra_blbits[c]
        BY <1>3 DEF LengthBits
      <3> HIDE DEF g, A, M
      <3> QED BY <3>1, <3>2
    <2>2. BitsOfEach(18, g, bl, extra_blbits) = [c \in C |-> g[c] * (bl[c] + extra_blbits[c])]
      BY DEF BitsOfEach
    <2> HIDE DEF g, A, M, C
    <2> QED BY <2>1, <2>2, Zenon DEF ColumnWeights
  <1> HIDE DEF F, T, g, C
  <1>15. Total(F) = BitsOf(g, bl, extra_blbits)
    BY <1>6, <1>9, <1>10, <1>13, <1>14
  <1> QED BY <1>6, <1>15, TotalIs DEF F, g, rows

\* The lengths of both trees, and those of the code for lengths.
LEMMA TreesTotal ==
    ASSUME NEW l, NEW d, NEW bl, TreesOk(l, d, bl)
    PROVE  /\ Total(send_all_trees(l, d, bl))
                  = BitsOf(scan_tree(Runs(l) \o Runs(d)), bl, extra_blbits)
                        + 3 * (max_blindex(bl) + 1) + 5 + 5 + 4
           /\ send_all_trees(l, d, bl) \in Seq(ItemSet)
           /\ BitsOf(scan_tree(Runs(l) \o Runs(d)), bl, extra_blbits) \in Nat
           /\ max_blindex(bl) \in Nat
  <1> DEFINE n == max_blindex(bl) + 1
             x == send_bits(max_code(l) + 1 - 257, 5)
             y == send_bits(max_code(d) + 1 - 1, 5)
             z == send_bits(n - 4, 4)
             h == <<x, y, z>>
             g == [i \in 1..n |-> send_bits(bl[bl_order[i]], 3)]
             s == send_tree(Runs(l), bl)
             t == send_tree(Runs(d), bl)
             rs == Runs(l) \o Runs(d)
             f == FlattenSeq(RowsOfRuns(rs, bl))
             w == BitsOf(scan_tree(rs), bl, extra_blbits)
  <1>1. n \in 4..19 /\ max_code(l) \in 256..285 /\ max_code(d) \in 0..29 /\ BitLengths(bl)
        /\ max_blindex(bl) \in Nat
    <2>1. max_blindex(bl) \in 3..18
      BY MaxBlIndex DEF TreesOk
    <2> QED BY <2>1, TreesSpan DEF TreesOk, HeadFits
  <1>2. send_all_trees(l, d, bl) = ((h \o g) \o s) \o t
    BY DEF send_all_trees
  <1>3. x \in ItemSet /\ x.bits = 5 /\ y \in ItemSet /\ y.bits = 5 /\ z \in ItemSet /\ z.bits = 4
    <2>1. max_code(l) + 1 - 257 \in 0..31 /\ max_code(d) + 1 - 1 \in 0..31 /\ n - 4 \in 0..15
      BY <1>1
    <2>2. x.bits = 5 /\ y.bits = 5 /\ z.bits = 4
      BY DEF send_bits
    <2> HIDE DEF n
    <2>3. x \in ItemSet /\ y \in ItemSet /\ z \in ItemSet
      BY <2>1, SmallBits
    <2> HIDE DEF x, y, z
    <2> QED BY <2>2, <2>3
  <1> HIDE DEF n, x, y, z
  <1>4. Total(h) = x.bits + (y.bits + z.bits) /\ h \in Seq(ItemSet)
    BY <1>3, TotalThree
  <1>5. g \in Seq(ItemSet) /\ Total(g) = n * 3
    <2>1. ASSUME NEW i \in 1..n
          PROVE  send_bits(bl[bl_order[i]], 3) \in ItemSet /\ send_bits(bl[bl_order[i]], 3).bits = 3
      <3>1. i \in 1..19
        BY <1>1
      <3>2. bl_order[i] \in 0..18
        BY <3>1, OrderIs
      <3>3. bl[bl_order[i]] \in 0..7
        BY <1>1, <3>2 DEF BitLengths, bl_codes, max_bl_bits
      <3>4. send_bits(bl[bl_order[i]], 3) \in ItemSet
        BY <3>3, SmallBits
      <3> QED BY <3>4 DEF send_bits
    <2>2. n \in Nat
      BY <1>1
    <2>3. g \in Seq(ItemSet) /\ DOMAIN g = 1..n /\ \A i \in 1..n : g[i].bits = 3
      BY <2>1, <2>2
    <2> HIDE DEF g
    <2> QED BY <2>2, <2>3, TotalEqual
  <1>6. AllShaped(Runs(l)) /\ AllShaped(Runs(d))
    BY RunsShaped DEF TreesOk
  <1>7. AllShaped(rs) /\ s \o t = f
    BY <1>1, <1>6, RowsOfBoth
  <1>8. s \in Seq(ItemSet) /\ t \in Seq(ItemSet)
    <2>1. RowsOfRuns(Runs(l), bl) \in Seq(Seq(ItemSet)) /\ RowsOfRuns(Runs(d), bl) \in Seq(Seq(ItemSet))
      BY <1>1, <1>6, RowsOfRunsAre
    <2>2. s = FlattenSeq(RowsOfRuns(Runs(l), bl)) /\ t = FlattenSeq(RowsOfRuns(Runs(d), bl))
      BY DEF RowsOfRuns, send_tree
    <2> QED BY <2>1, <2>2, FlattenElements
  <1>9. Total(f) = w /\ w \in Nat
    BY <1>1, <1>7, RunsTotal
  <1> HIDE DEF h, g, s, t, f, w
  <1>10. Total(s \o t) = Total(s) + Total(t)
    BY <1>8, TotalConcat
  <1>11. Total(h \o g) = Total(h) + Total(g) /\ h \o g \in Seq(ItemSet)
    BY <1>4, <1>5, TotalConcat
  <1>12. Total((h \o g) \o s) = Total(h \o g) + Total(s) /\ (h \o g) \o s \in Seq(ItemSet)
    BY <1>8, <1>11, TotalConcat
  <1>13. /\ Total(((h \o g) \o s) \o t) = Total((h \o g) \o s) + Total(t)
         /\ ((h \o g) \o s) \o t \in Seq(ItemSet)
    BY <1>8, <1>12, TotalConcat
  <1>14. Total(h) = 14 /\ Total(s) \in Nat /\ Total(t) \in Nat /\ Total(s) + Total(t) = w
    BY <1>3, <1>4, <1>7, <1>8, <1>9, <1>10, TotalIs
  <1>15. Total(send_all_trees(l, d, bl)) = ((14 + n * 3) + Total(s)) + Total(t)
    BY <1>2, <1>5, <1>11, <1>12, <1>13, <1>14
  <1>16. \A p, q, a \in Nat : ((14 + a * 3) + p) + q = (p + q) + 3 * a + 5 + 5 + 4
    OBVIOUS
  <1>17. Total(send_all_trees(l, d, bl)) = w + 3 * n + 5 + 5 + 4
    <2>1. n \in Nat
      BY <1>1
    <2>2. ((14 + n * 3) + Total(s)) + Total(t) = (Total(s) + Total(t)) + 3 * n + 5 + 5 + 4
      BY <1>14, <1>16, <2>1
    <2> QED BY <1>14, <1>15, <2>2
  <1> QED BY <1>1, <1>2, <1>9, <1>13, <1>17 DEF n, w

-----------------------------------------------------------------------------
(* The bits of a block *)

\* A header takes three bits.
LEMMA HeaderTotal ==
    ASSUME NEW kind \in {0, 1, 2}, NEW last \in {0, 1}
    PROVE  Total(Header(kind, last)) = 3 /\ Header(kind, last) \in Seq(ItemSet)
  <1> DEFINE x == send_bits(2 * kind + last, 3)
  <1>1. 2 * kind + last \in 0..7
    OBVIOUS
  <1>2. x \in ItemSet /\ x.bits = 3
    BY <1>1, SmallBits DEF send_bits
  <1> HIDE DEF x
  <1>3. Total(<<x>>) = x.bits /\ <<x>> \in Seq(ItemSet)
    BY <1>2, TotalOne
  <1>4. Header(kind, last) = <<x>>
    BY DEF Header, x
  <1> QED BY <1>2, <1>3, <1>4

\* A stored block takes its bytes, and four for their number.
LEMMA StoredTotal ==
    ASSUME NEW last \in {0, 1}, NEW n \in Nat
    PROVE  Total(Header(0, last) \o <<Stored(n)>>) = 3 + 8 * (n + 4)
  <1> DEFINE x == Stored(n)
  <1>1. x \in ItemSet /\ x.bits = 8 * (n + 4)
    <2>1. 8 * (n + 4) \in Nat /\ "stored" \in {"bits", "literal", "distance", "length", "stored"}
      OBVIOUS
    <2> QED BY <2>1 DEF Stored, ItemSet
  <1> HIDE DEF x
  <1>2. Total(<<x>>) = x.bits /\ <<x>> \in Seq(ItemSet)
    BY <1>1, TotalOne
  <1>3. Total(Header(0, last)) = 3 /\ Header(0, last) \in Seq(ItemSet)
    BY HeaderTotal
  <1>4. Total(Header(0, last) \o <<x>>) = Total(Header(0, last)) + Total(<<x>>)
    BY <1>2, <1>3, TotalConcat
  <1> QED BY <1>1, <1>2, <1>3, <1>4 DEF x

\* The static trees have a number of bits for every code.
LEMMA StaticNumbers == BothNumbers(ltree, dtree)
  BY StaticTrees DEF BothNumbers, Numbers

\* And they have a code for every symbol.
LEMMA StaticTreesFor ==
    ASSUME NEW symbols \in Seq(Symbol)
    PROVE  TreesFor(symbols, ltree, dtree)
  <1>1. ASSUME NEW i \in 1..Len(symbols)
        PROVE  HasCodes(symbols[i], ltree, dtree)
    <2>1. symbols[i] \in Symbol
      OBVIOUS
    <2>2. /\ LiteralCode(symbols[i]) \in 0..285
          /\ IsMatch(symbols[i]) => DistanceCode(symbols[i]) \in 0..29
      BY <2>1, CodesOfSymbol
    <2> QED BY <2>2, StaticTrees DEF HasCodes
  <1>2. end_block \in 0..285
    BY DEF end_block
  <1> QED BY <1>1, <1>2, StaticTrees DEF TreesFor

\* So have the trees that are sent.
LEMMA TreeNumbers ==
    ASSUME NEW l, NEW d, NEW bl, TreesOk(l, d, bl)
    PROVE  BothNumbers(l, d)
  <1>1. l \in [0..285 -> 0..max_bits] /\ d \in [0..29 -> 0..max_bits]
    BY DEF TreesOk, Lengths
  <1>2. 0..max_bits \subseteq Nat
    BY DEF max_bits
  <1>3. \A c \in 0..285 : l[c] \in Nat
    BY <1>1, <1>2
  <1>4. \A c \in 0..29 : d[c] \in Nat
    BY <1>1, <1>2
  <1> QED BY <1>3, <1>4 DEF BothNumbers, Numbers

\* What a block takes with the static trees, and with its own.
LEMMA CodedTotals ==
    ASSUME NEW symbols \in Seq(Symbol), NEW lf, NEW df, Counts(symbols, lf, df),
           NEW l, NEW d, NEW bl, TreesOk(l, d, bl), TreesFor(symbols, l, d), NEW last \in {0, 1},
           NEW opt, NEW static,
           opt = BitsOf(lf, l, ExtraOfLiteral) + BitsOf(df, d, extra_dbits)
                     + BitsOf(scan_tree(Runs(l) \o Runs(d)), bl, extra_blbits)
                     + 3 * (max_blindex(bl) + 1) + 5 + 5 + 4,
           static = BitsOf(lf, ltree, ExtraOfLiteral) + BitsOf(df, dtree, extra_dbits)
    PROVE  /\ opt \in Nat /\ static \in Nat
           /\ Total(StaticItems(symbols, last)) = 3 + static
           /\ Total(DynamicItems(symbols, last, l, d, bl)) = 3 + opt
  <1> DEFINE hs == Header(1, last)
             hd == Header(2, last)
             cs == compress_block(symbols, ltree, dtree, 1)
             cd == compress_block(symbols, l, d, 2)
             tr == send_all_trees(l, d, bl)
             a == BitsOf(lf, l, ExtraOfLiteral)
             b == BitsOf(df, d, extra_dbits)
             c == BitsOf(scan_tree(Runs(l) \o Runs(d)), bl, extra_blbits)
             m == max_blindex(bl)
             p == BitsOf(lf, ltree, ExtraOfLiteral)
             q == BitsOf(df, dtree, extra_dbits)
  <1>1. StaticItems(symbols, last) = hs \o cs
    BY DEF StaticItems, static_trees
  <1>2. DynamicItems(symbols, last, l, d, bl) = (hd \o tr) \o cd
    BY DEF DynamicItems, dynamic_trees
  <1>3. Total(hs) = 3 /\ hs \in Seq(ItemSet) /\ Total(hd) = 3 /\ hd \in Seq(ItemSet)
    BY HeaderTotal
  <1>4. Total(cs) = p + q /\ cs \in Seq(ItemSet) /\ p \in Nat /\ q \in Nat
    BY StaticNumbers, StaticTreesFor, BlockTotal
  <1>5. BothNumbers(l, d)
    BY TreeNumbers
  <1>6. Total(cd) = a + b /\ cd \in Seq(ItemSet) /\ a \in Nat /\ b \in Nat
    BY <1>5, BlockTotal
  <1>7. /\ Total(tr) = c + 3 * (m + 1) + 5 + 5 + 4 /\ tr \in Seq(ItemSet)
        /\ c \in Nat /\ m \in Nat
    BY TreesTotal
  <1>8. opt = a + b + c + 3 * (m + 1) + 5 + 5 + 4 /\ static = p + q
    OBVIOUS
  <1> HIDE DEF hs, hd, cs, cd, tr, a, b, c, m, p, q
  <1>9. Total(hs \o cs) = Total(hs) + Total(cs)
    BY <1>3, <1>4, TotalConcat
  <1>10. Total(hd \o tr) = Total(hd) + Total(tr) /\ hd \o tr \in Seq(ItemSet)
    BY <1>3, <1>7, TotalConcat
  <1>11. Total((hd \o tr) \o cd) = Total(hd \o tr) + Total(cd)
    BY <1>6, <1>10, TotalConcat
  <1>12. Total((hd \o tr) \o cd) = (3 + (c + 3 * (m + 1) + 5 + 5 + 4)) + (a + b)
    BY <1>3, <1>6, <1>7, <1>10, <1>11
  <1>13. /\ (3 + (c + 3 * (m + 1) + 5 + 5 + 4)) + (a + b)
                = 3 + (a + b + c + 3 * (m + 1) + 5 + 5 + 4)
         /\ a + b + c + 3 * (m + 1) + 5 + 5 + 4 \in Nat
    BY <1>6, <1>7
  <1>14. Total(hs \o cs) = 3 + static /\ static \in Nat
    BY <1>3, <1>4, <1>8, <1>9
  <1> QED BY <1>1, <1>2, <1>8, <1>12, <1>13, <1>14

-----------------------------------------------------------------------------
(* The kind that tr_flush_block chooses *)

\* The lengths that the kinds are compared by are the bits that each would take.
LEMMA FlushTotals ==
    ASSUME Typed, Counted, NEW last \in {0, 1}, NEW l, NEW d, NEW bl,
           Trees(dyn_ltree_, dyn_dtree_, l, d, bl)
    PROVE  /\ OptLen(l, d, bl) \in Nat /\ StaticLen \in Nat /\ StoredLen \in Nat
           /\ Total(StaticItems(buf, last)) = 3 + StaticLen
           /\ Total(DynamicItems(buf, last, l, d, bl)) = 3 + OptLen(l, d, bl)
  <1>1. PICK b : SentAs(b, 2, 0, TRUE, last, buf, StoredLen, l, d, bl)
    BY DEF SentAs, SentItems
  <1>2. Block(b)
    BY <1>1, SentIsBlock
  <1>3. b.kind = 2 /\ b.symbols = buf /\ b.l = l /\ b.d = d /\ b.bl = bl
    BY <1>1 DEF SentAs, SentItems
  <1>4. LTree(b) = l /\ DTree(b) = d
    BY <1>3 DEF LTree, DTree, static_trees
  <1>5. TreesOk(l, d, bl) /\ TreesFor(buf, l, d)
    BY <1>2, <1>3, <1>4, TreesOfBlock
  <1>6. buf \in Seq(Symbol) /\ Counts(buf, dyn_ltree_, dyn_dtree_)
    BY DEF Typed, Counted
  <1>7. StoredLen \in Nat
    BY <1>6, StoredLenNat DEF StoredLen
  <1>8. OptLen(l, d, bl) = BitsOf(dyn_ltree_, l, ExtraOfLiteral) + BitsOf(dyn_dtree_, d, extra_dbits)
                     + BitsOf(scan_tree(Runs(l) \o Runs(d)), bl, extra_blbits)
                     + 3 * (max_blindex(bl) + 1) + 5 + 5 + 4
    BY DEF OptLen
  <1>9. StaticLen = BitsOf(dyn_ltree_, ltree, ExtraOfLiteral) + BitsOf(dyn_dtree_, dtree, extra_dbits)
    BY DEF StaticLen
  <1> QED BY <1>5, <1>6, <1>7, <1>8, <1>9, CodedTotals

\* The bytes that a number of bits takes.
LEMMA BytesTaken ==
    ASSUME NEW items, NEW n \in Nat, Total(items) = 3 + n
    PROVE  BytesOf(items) = InBytes(n) /\ InBytes(n) \in Nat
  <1>1. 3 + n + 7 = n + 3 + 7 /\ n + 3 + 7 \in Nat
    OBVIOUS
  <1>2. \A k \in Nat : k \div 8 \in Nat
    OBVIOUS
  <1> QED BY <1>1, <1>2 DEF BytesOf, InBytes

\* The bits that were sent are those that the choice was made by.
LEMMA SentBits ==
    ASSUME Typed, Counted, NEW kind \in {0, 1, 2}, NEW len, NEW iw, NEW last \in {0, 1},
           NEW l, NEW d, NEW bl, Trees(dyn_ltree_, dyn_dtree_, l, d, bl),
           NEW b, SentAs(b, kind, len, iw, last, buf, StoredLen, l, d, bl),
           Chosen(kind, len, iw, l, d, bl)
    PROVE  Total(b.items) = 3 + b.len
  <1>1. b.items = ItemsOf(kind, last, buf, StoredLen, l, d, bl) /\ b.len = len
    BY DEF SentAs, SentItems
  <1>2. /\ StoredLen \in Nat
        /\ Total(StaticItems(buf, last)) = 3 + StaticLen
        /\ Total(DynamicItems(buf, last, l, d, bl)) = 3 + OptLen(l, d, bl)
    BY FlushTotals
  <1>3. /\ kind = 0 => len = 8 * (StoredLen + 4)
        /\ kind = 1 => len = StaticLen
        /\ kind = 2 => len = OptLen(l, d, bl)
    BY DEF Chosen
  <1>4. CASE kind = 0
    <2>1. b.items = Header(0, last) \o <<Stored(StoredLen)>>
      BY <1>1, <1>4 DEF ItemsOf, stored_blocks
    <2> QED BY <1>1, <1>2, <1>3, <1>4, <2>1, StoredTotal
  <1>5. CASE kind = 1
    <2>1. b.items = StaticItems(buf, last)
      BY <1>1, <1>5 DEF ItemsOf
    <2> QED BY <1>1, <1>2, <1>3, <1>5, <2>1
  <1>6. CASE kind = 2
    <2>1. b.items = DynamicItems(buf, last, l, d, bl)
      BY <1>1, <1>6 DEF ItemsOf
    <2> QED BY <1>1, <1>2, <1>3, <1>6, <2>1
  <1> QED BY <1>4, <1>5, <1>6

\* The least of two numbers.
LEMMA LeastOfTwo ==
    ASSUME NEW m \in Nat, NEW n \in Nat
    PROVE  Min({m, n}) \in {m, n} /\ Min({m, n}) <= m /\ Min({m, n}) <= n
  <1>1. {m, n} \subseteq Nat /\ {m, n} # {}
    OBVIOUS
  <1>2. Min({m, n}) \in {m, n} /\ \A y \in {m, n} : Min({m, n}) <= y
    BY <1>1, SmallestIs
  <1> QED BY <1>2

\* The choice takes the fewest bytes, or one more than the fewest.
LEMMA ChoiceIsLeast ==
    ASSUME NEW o \in Nat, NEW s \in Nat, NEW n \in Nat, NEW m, m \in {o, s}, m <= o, m <= s,
           NEW iw \in BOOLEAN
    PROVE  /\ n + 4 <= m /\ iw => n + 5 <= o + 1 /\ n + 5 <= s + 1
           /\ ~(n + 4 <= m /\ iw) /\ s = m => s <= o /\ (iw => s <= n + 5)
           /\ ~(n + 4 <= m /\ iw) /\ s # m => o <= s /\ (iw => o <= n + 5)
  OBVIOUS

\* ShortestKind, of a block that is named.
Shortest(b) ==
    LET static  == BytesOf(StaticItems(b.symbols, b.last))
        dynamic == BytesOf(DynamicItems(b.symbols, b.last, b.l, b.d, b.bl))
        others  == {static, dynamic} \cup (IF b.in_window THEN {b.stored_len + 5} ELSE {})
    IN  IF b.kind = stored_blocks
        THEN \A n \in others : b.stored_len + 5 <= n + 1
        ELSE \A n \in others : BytesOf(b.items) <= n

\* No kind takes fewer bytes than the one that was chosen.
LEMMA SentShortest ==
    ASSUME Typed, Counted, NEW kind \in {0, 1, 2}, NEW len, NEW iw \in BOOLEAN,
           NEW last \in {0, 1}, NEW l, NEW d, NEW bl, Trees(dyn_ltree_, dyn_dtree_, l, d, bl),
           NEW b, SentAs(b, kind, len, iw, last, buf, StoredLen, l, d, bl),
           Chosen(kind, len, iw, l, d, bl), level_ > 0, strategy_ # "fixed"
    PROVE  Shortest(b)
  <1> DEFINE st == StaticItems(buf, last)
             dy == DynamicItems(buf, last, l, d, bl)
             o == InBytes(OptLen(l, d, bl))
             s == InBytes(StaticLen)
             n == StoredLen
             m == Min({o, s})
  <1>1. /\ b.items = ItemsOf(kind, last, buf, n, l, d, bl) /\ b.kind = kind
        /\ b.symbols = buf /\ b.last = last /\ b.l = l /\ b.d = d /\ b.bl = bl
        /\ b.in_window = iw /\ b.stored_len = n
    BY DEF SentAs, SentItems
  <1>2. n \in Nat /\ BytesOf(st) = s /\ BytesOf(dy) = o /\ s \in Nat /\ o \in Nat
    BY FlushTotals, BytesTaken
  <1>3. StaticBytes = s /\ OptBytes(l, d, bl) = m
    BY DEF StaticBytes, OptBytes
  <1>4. /\ b.kind = 1 => b.items = st
        /\ b.kind = 2 => b.items = dy
    BY <1>1 DEF ItemsOf, stored_blocks, static_trees
  <1>5. /\ kind = 0 => n + 4 <= m /\ iw
        /\ kind = 1 => ~(n + 4 <= m /\ iw) /\ s = m
        /\ kind = 2 => ~(n + 4 <= m /\ iw) /\ s # m
    BY <1>3 DEF Chosen, n
  <1> HIDE DEF st, dy, o, s, n, m
  <1>6. m \in {o, s} /\ m <= o /\ m <= s
    BY <1>2, LeastOfTwo DEF m
  <1>7. /\ n + 4 <= m /\ iw => n + 5 <= o + 1 /\ n + 5 <= s + 1
        /\ ~(n + 4 <= m /\ iw) /\ s = m => s <= o /\ (iw => s <= n + 5)
        /\ ~(n + 4 <= m /\ iw) /\ s # m => o <= s /\ (iw => o <= n + 5)
    BY <1>2, <1>6, ChoiceIsLeast
  <1> DEFINE others == {s, o} \cup (IF iw THEN {n + 5} ELSE {})
  <1>8. CASE kind = 0
    <2>1. \A k \in others : n + 5 <= k + 1
      BY <1>2, <1>5, <1>7, <1>8
    <2> QED BY <1>1, <1>2, <1>8, <2>1 DEF Shortest, stored_blocks, st, dy
  <1>9. CASE kind = 1
    <2>1. \A k \in others : s <= k
      BY <1>2, <1>5, <1>7, <1>9
    <2> QED BY <1>1, <1>2, <1>4, <1>9, <2>1 DEF Shortest, stored_blocks, st, dy
  <1>10. CASE kind = 2
    <2>1. \A k \in others : o <= k
      BY <1>2, <1>5, <1>7, <1>10
    <2> QED BY <1>1, <1>2, <1>4, <1>10, <2>1 DEF Shortest, stored_blocks, st, dy
  <1> QED BY <1>8, <1>9, <1>10

\* What both properties say when a block was sent.
LEMMA FlushBits ==
    ASSUME IInv, FlushBlock
    PROVE  BitsAnnounced' /\ ShortestKind'
  <1>1. Typed /\ Counted
    BY DEF IInv
  <1>2. PICK kind, len, iw, last, l, d, bl :
              /\ kind \in {0, 1, 2} /\ iw \in BOOLEAN /\ last \in {0, 1}
              /\ Trees(dyn_ltree_, dyn_dtree_, l, d, bl)
              /\ SentAs(sent', kind, len, iw, last, buf, StoredLen, l, d, bl)
              /\ Chosen(kind, len, iw, l, d, bl)
    BY FlushBlockIs
  <1>3. level_' = level_ /\ strategy_' = strategy_
    BY DEF FlushBlock
  <1>4. Total(sent'.items) = 3 + sent'.len
    BY <1>1, <1>2, SentBits
  <1>5. level_ > 0 /\ strategy_ # "fixed" => Shortest(sent')
    BY <1>1, <1>2, SentShortest
  <1>6. BitsAnnounced'
    BY <1>4 DEF BitsAnnounced, Total
  <1>7. ShortestKind'
    BY <1>3, <1>5 DEF ShortestKind, Shortest, StoredBytes, BytesOf, Total
  <1> QED BY <1>6, <1>7

\* No other step begins a block.
LEMMA OtherModes ==
    ASSUME IInv, Next, ~FlushBlock
    PROVE  mode' # "TYPEDO"
  <1>1. CASE tr_tally
    BY <1>1 DEF tr_tally, decompressor
  <1>2. CASE TYPEDO
    BY <1>2 DEF TYPEDO
  <1>3. CASE STORED
    BY <1>3 DEF STORED, EndOfBlock
  <1>4. CASE TABLE
    BY <1>4 DEF TABLE
  <1>5. CASE LENLENS
    BY <1>5 DEF LENLENS
  <1>6. CASE CODELENS
    BY <1>6 DEF CODELENS, Reads
  <1>7. CASE LEN
    BY <1>7 DEF LEN, EndOfBlock, Reads
  <1>8. CASE LENEXT
    BY <1>8 DEF LENEXT
  <1>9. CASE DIST
    BY <1>9 DEF DIST, Match
  <1>10. CASE DISTEXT
    BY <1>10 DEF DISTEXT, Match
  <1> QED
    BY <1>1, <1>2, <1>3, <1>4, <1>5, <1>6, <1>7, <1>8, <1>9, <1>10 DEF Next

\* Both properties, of one step.
LEMMA BitsStep ==
    ASSUME IInv, BitsAnnounced, ShortestKind, [Next]_vars
    PROVE  BitsAnnounced' /\ ShortestKind'
  <1>1. CASE FlushBlock
    BY <1>1, FlushBits
  <1>2. CASE Next /\ ~FlushBlock
    <2>1. mode' # "TYPEDO"
      BY <1>2, OtherModes
    <2> QED BY <2>1 DEF BitsAnnounced, ShortestKind
  <1>3. CASE UNCHANGED vars
    <2>1. sent' = sent /\ mode' = mode /\ level_' = level_ /\ strategy_' = strategy_
      BY <1>3 DEF vars, compressor, decompressor
    <2> QED BY <2>1 DEF BitsAnnounced, ShortestKind, BytesOf, Total, StoredBytes
  <1> QED BY <1>1, <1>2, <1>3

\* And at first, when no block was sent.
LEMMA BitsInit ==
    ASSUME Init
    PROVE  BitsAnnounced /\ ShortestKind
  <1>1. mode # "TYPEDO"
    BY DEF Init
  <1> QED BY <1>1 DEF BitsAnnounced, ShortestKind

\* At every level but 0 the bits of a block are those that tr_flush_block compared when it
\* chose the kind (opt_len_, static_len_ or those of the stored bytes), and the header's three.
THEOREM BitsAreAnnounced == Spec => []BitsAnnounced
  <1>1. Init => BitsAnnounced /\ ShortestKind
    BY BitsInit
  <1>2. IInv /\ (BitsAnnounced /\ ShortestKind) /\ [Next]_vars => (BitsAnnounced /\ ShortestKind)'
    BY BitsStep
  <1> QED BY <1>1, <1>2, Invariance, PTL DEF Spec

\* The kind that tr_flush_block chooses takes no more bytes than another that it could have
\* chosen, and a stored block at most one more; Strategy::fixed excepted.
THEOREM ChoosesShortest == Spec => []ShortestKind
  <1>1. Init => BitsAnnounced /\ ShortestKind
    BY BitsInit
  <1>2. IInv /\ (BitsAnnounced /\ ShortestKind) /\ [Next]_vars => (BitsAnnounced /\ ShortestKind)'
    BY BitsStep
  <1> QED BY <1>1, <1>2, Invariance, PTL DEF Spec

=============================================================================
