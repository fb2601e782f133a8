----------------------- MODULE InflateStreamProofs -----------------------
(***************************************************************************)
(* The decompressor is correct for every set of well-formed streams,       *)
(* every window and every way to cut input and output: IInv is an          *)
(* invariant, and the safety properties of InflateStream follow from it.   *)
(***************************************************************************)
EXTENDS InflateStreamInv, TLAPS, SequenceTheorems, WellFoundedInduction

\* Induction, as a fact about a set: it is its least counterexample that cannot exist.
LEMMA InductionOnSet ==
    ASSUME NEW T, 0 \in T, \A n \in Nat : n \in T => n + 1 \in T
    PROVE  Nat \subseteq T
  <1> DEFINE R == OpToRel(<, Nat)
             C == Nat \ T
  <1>1. IsWellFoundedOn(R, Nat)
    BY NatLessThanWellFounded
  <1>2. SUFFICES ASSUME C # {} PROVE FALSE
    OBVIOUS
  <1>3. PICK x \in C : \A y \in C : ~ (<<y, x>> \in R)
    <2>1. C \subseteq Nat
      OBVIOUS
    <2> HIDE DEF R, C
    <2> QED BY <1>1, <1>2, <2>1, WFMin
  <1>4. \A y \in C : ~(y < x)
    BY <1>3 DEF OpToRel
  <1>5. x \in Nat /\ x # 0 /\ x \notin T
    BY <1>3
  <1>6. x - 1 \in Nat /\ x - 1 < x /\ x - 1 + 1 = x
    BY <1>5
  <1>7. x - 1 \in T
    BY <1>4, <1>6
  <1> QED BY <1>5, <1>6, <1>7

-----------------------------------------------------------------------------
(* Streams *)

\* What the fields of a stream are.
LEMMA StreamTypes ==
    ASSUME NEW s, WellFormed(s)
    PROVE  /\ Len(s.items) \in Nat /\ Len(s.items) > 0
           /\ s.wrap \in {"none", "zlib", "gzip"}
           /\ s.head \in HeadFields
           /\ s.head.name \in Nat /\ s.head.comment \in Nat /\ s.head.window \in Nat
           /\ s.head.dict \in BOOLEAN /\ s.head.hcrc \in BOOLEAN
           /\ \A i \in 1 .. Len(s.items) : s.items[i] \in Item
           /\ \A i \in 1 .. Len(s.items) + 1 : s.start[i] \in Nat
           /\ \A i \in 1 .. Len(s.items) + 1 : s.text[i] \in Seq(Byte) /\ Len(s.text[i]) \in Nat
           /\ Text(s) \in Seq(Byte) /\ Len(Text(s)) \in Nat
           /\ s.check \in BOOLEAN /\ s.length \in BOOLEAN /\ s.after \in Nat
  <1>1. Typed(s) /\ Len(s.items) > 0
    BY DEF WellFormed, Grammatical
  <1>2. s.items \in Seq(Item) /\ Len(s.items) \in Nat
    BY <1>1, LenProperties DEF Typed
  <1>3. /\ s.head.name \in Nat /\ s.head.comment \in Nat /\ s.head.window \in Nat
        /\ s.head.dict \in BOOLEAN /\ s.head.hcrc \in BOOLEAN
    BY <1>1 DEF Typed, HeadFields
  <1>4. \A i \in 1 .. Len(s.items) : s.items[i] \in Item
    BY <1>2, ElementOfSeq
  <1>5. \A i \in 1 .. Len(s.items) + 1 : s.start[i] \in Nat /\ s.text[i] \in Seq(Byte)
    BY <1>1 DEF Typed
  <1>6. \A i \in 1 .. Len(s.items) + 1 : Len(s.text[i]) \in Nat
    BY <1>5, LenProperties
  <1>7. Len(s.items) + 1 \in 1 .. Len(s.items) + 1
    BY <1>2
  <1> QED BY <1>1, <1>2, <1>3, <1>4, <1>5, <1>6, <1>7 DEF Typed, Text

\* What the fields of an item are.
LEMMA ItemTypes ==
    ASSUME NEW e \in Item
    PROVE  /\ e.op \in {"block", "stored", "table"} \cup Symbols
           /\ e.op = "block" =>
                e.type \in {"stored", "fixed", "dynamic", "invalid"} /\ e.last \in BOOLEAN
           /\ e.op = "stored" => e.bytes \in Seq(Byte) /\ e.good \in BOOLEAN
           /\ e.op \in Symbols => e.bits \in 1 .. 15 /\ e.sub \in 0 .. 14
           /\ e.op = "lit" => e.byte \in Byte
  <1>1. CASE e \in BlockItem
    BY <1>1 DEF BlockItem, Symbols
  <1>2. CASE e \in StoredItem
    BY <1>2 DEF StoredItem, Symbols
  <1>3. CASE e \in TableItem
    BY <1>3 DEF TableItem, Symbols
  <1>4. CASE e \in LitItem
    BY <1>4 DEF LitItem, Symbols
  <1>5. CASE e \in EndItem
    BY <1>5 DEF EndItem, Symbols
  <1>6. CASE e \in MatchItem
    BY <1>6 DEF MatchItem, Symbols
  <1> QED BY <1>1, <1>2, <1>3, <1>4, <1>5, <1>6 DEF Item

\* What the fields of a table are.
LEMMA TableTypes ==
    ASSUME NEW e \in Item, e.op = "table"
    PROVE  /\ e.ncode \in 4 .. 19 /\ e.clbits \in 1 .. 7
           /\ e.symbols \in Seq(RunSymbol) /\ Len(e.symbols) \in Nat
           /\ e.lenbits \in 1 .. 9 /\ e.distbits \in 1 .. 6
           /\ e.offsets \in Seq(Nat) /\ e.counts \in Seq(Nat) /\ e.total \in Nat
  <1>1. e \in TableItem
    BY DEF Item, BlockItem, StoredItem, LitItem, EndItem, MatchItem
  <1>2. e.symbols \in Seq(RunSymbol)
    BY <1>1 DEF TableItem
  <1> QED BY <1>1, <1>2, LenProperties DEF TableItem

\* What the fields of a match are.
LEMMA MatchTypes ==
    ASSUME NEW e \in Item, e.op = "match"
    PROVE  /\ e.valid \in BOOLEAN /\ e.len \in Nat \ {0} /\ e.extra \in 0 .. 5 /\ e.len_v \in Nat
           /\ e.dbits \in 1 .. 15 /\ e.dsub \in 0 .. 14 /\ e.dist \in Nat \ {0}
           /\ e.dextra \in 0 .. 13 /\ e.dist_v \in Nat /\ Distance(e) \in Nat \ {0}
  <1>1. e \in MatchItem
    BY DEF Item, BlockItem, StoredItem, TableItem, LitItem, EndItem
  <1> QED BY <1>1 DEF MatchItem, Distance

\* A text begins with the text of the items before its last one.
LEMMA TextGrows ==
    ASSUME NEW s, WellFormed(s), NEW i \in 1 .. Len(s.items)
    PROVE  /\ Len(s.text[i]) <= Len(s.text[i + 1])
           /\ \A k \in 1 .. Len(s.text[i]) : s.text[i + 1][k] = s.text[i][k]
  <1> DEFINE e == s.items[i]
             t == s.text[i]
             u == s.text[i + 1]
  <1>1. Extends(u, e, t)
    BY DEF WellFormed, InOrder
  <1>2. e \in Item /\ t \in Seq(Byte) /\ u \in Seq(Byte) /\ Len(t) \in Nat /\ Len(u) \in Nat
    <2>1. Len(s.items) \in Nat
      BY StreamTypes
    <2>2. i \in 1 .. Len(s.items) + 1 /\ i + 1 \in 1 .. Len(s.items) + 1
      BY <2>1
    <2>3. e \in Item
      BY StreamTypes
    <2>4. s.text[i] \in Seq(Byte) /\ s.text[i + 1] \in Seq(Byte)
      BY <2>2, StreamTypes
    <2> QED BY <2>3, <2>4, LenProperties
  <1> HIDE DEF e, t, u
  <1>3. CASE e.op = "stored"
    <2>1. u = t \o e.bytes /\ e.bytes \in Seq(Byte)
      BY <1>1, <1>2, <1>3, ItemTypes DEF Extends
    <2>2. Len(e.bytes) \in Nat
      BY <2>1, LenProperties
    <2>3. Len(u) = Len(t) + Len(e.bytes) /\ \A k \in 1 .. Len(t) : u[k] = t[k]
      BY <1>2, <2>1, <2>2, ConcatProperties
    <2>4. Len(t) <= Len(u)
      BY <1>2, <2>2, <2>3
    <2> QED BY <2>3, <2>4 DEF t, u
  <1>4. CASE e.op = "lit"
    <2>1. u = Append(t, e.byte) /\ e.byte \in Byte
      BY <1>1, <1>2, <1>4, ItemTypes DEF Extends
    <2>2. Len(u) = Len(t) + 1 /\ \A k \in 1 .. Len(t) : u[k] = t[k]
      BY <1>2, <2>1, AppendProperties
    <2> QED BY <1>2, <2>2 DEF t, u
  <1>5. CASE e.op = "match" /\ Distance(e) <= Len(t)
    <2>1. /\ Len(u) = Len(t) + e.len + e.len_v
          /\ \A k \in 1 .. Len(u) : u[k] = IF k <= Len(t) THEN t[k] ELSE u[k - Distance(e)]
      BY <1>1, <1>5 DEF Extends
    <2>2. e.len \in Nat /\ e.len_v \in Nat
      BY <1>2, <1>5, MatchTypes
    <2>3. Len(t) <= Len(u) /\ \A k \in 1 .. Len(t) : u[k] = t[k]
      BY <1>2, <2>1, <2>2
    <2> QED BY <2>3 DEF t, u
  <1>6. CASE ~(e.op \in {"stored", "lit"} \/ (e.op = "match" /\ Distance(e) <= Len(t)))
    <2>1. u = t
      BY <1>1, <1>6 DEF Extends
    <2> QED BY <1>2, <2>1 DEF t, u
  <1> QED BY <1>3, <1>4, <1>5, <1>6

(***************************************************************************)
(* The text of the items so far is a beginning of the text of the stream.  *)
(***************************************************************************)
LEMMA TextsArePrefixes ==
    ASSUME NEW s, WellFormed(s), NEW i \in 1 .. Len(s.items) + 1
    PROVE  /\ Len(s.text[i]) <= Len(Text(s))
           /\ \A k \in 1 .. Len(s.text[i]) : Text(s)[k] = s.text[i][k]
  <1> DEFINE M == Len(s.items) + 1
             Begins(m) == /\ Len(s.text[M - m]) <= Len(s.text[M])
                          /\ \A k \in 1 .. Len(s.text[M - m]) : s.text[M][k] = s.text[M - m][k]
             T == {m \in Nat : m < M => Begins(m)}
  <1>1. M \in Nat /\ \A j \in 1 .. M : Len(s.text[j]) \in Nat
    BY StreamTypes
  <1>2. 0 \in T
    BY <1>1
  <1>3. ASSUME NEW m \in Nat, m \in T PROVE m + 1 \in T
    <2>1. SUFFICES ASSUME m + 1 < M PROVE Begins(m + 1)
      OBVIOUS
    <2>2. Begins(m)
      BY <1>1, <1>3, <2>1
    <2>3. M - (m + 1) \in 1 .. Len(s.items) /\ M - (m + 1) + 1 = M - m /\ M - m \in 1 .. M
      BY <1>1, <2>1
    <2>4. /\ Len(s.text[M - (m + 1)]) <= Len(s.text[M - m])
          /\ \A k \in 1 .. Len(s.text[M - (m + 1)]) : s.text[M - m][k] = s.text[M - (m + 1)][k]
      <3> DEFINE j == M - (m + 1)
      <3>1. j \in 1 .. Len(s.items) /\ j + 1 = M - m
        BY <2>3
      <3> HIDE DEF j, M
      <3>2. /\ Len(s.text[j]) <= Len(s.text[j + 1])
            /\ \A k \in 1 .. Len(s.text[j]) : s.text[j + 1][k] = s.text[j][k]
        BY <3>1, TextGrows
      <3> QED BY <3>1, <3>2 DEF j
    <2>5. Len(s.text[M - (m + 1)]) \in Nat /\ Len(s.text[M - m]) \in Nat /\ Len(s.text[M]) \in Nat
      <3>1. M - (m + 1) \in 1 .. M /\ M - m \in 1 .. M /\ M \in 1 .. M
        BY <1>1, <2>3
      <3> HIDE DEF M
      <3> QED BY <1>1, <3>1
    <2> HIDE DEF M
    <2> DEFINE a == s.text[M - (m + 1)]
               b == s.text[M - m]
               c == s.text[M]
    <2>6. /\ Len(a) \in Nat /\ Len(b) \in Nat /\ Len(c) \in Nat
          /\ Len(a) <= Len(b) /\ Len(b) <= Len(c)
          /\ \A k \in 1 .. Len(a) : b[k] = a[k]
          /\ \A k \in 1 .. Len(b) : c[k] = b[k]
      BY <2>2, <2>4, <2>5
    <2>7. Len(a) <= Len(c) /\ \A k \in 1 .. Len(a) : c[k] = a[k]
      <3> HIDE DEF a, b, c
      <3>1. \A k \in 1 .. Len(a) : k \in 1 .. Len(b)
        BY <2>6
      <3> QED BY <2>6, <3>1
    <2> QED BY <2>7
  <1>4. M - i \in T
    <2> HIDE DEF T
    <2>1. M - i \in Nat
      BY <1>1
    <2> QED BY <1>2, <1>3, <2>1, InductionOnSet
  <1>5. M - i < M /\ M - (M - i) = i
    BY <1>1
  <1>6. Begins(M - i)
    BY <1>4, <1>5
  <1> QED BY <1>5, <1>6 DEF Text
-----------------------------------------------------------------------------
(* The state *)

AllModes == HeadModes \cup SymbolModes \cup BlockModes \cup EndModes \cup {"BAD"}

\* The stream at hand is well formed, and the variables have their types.
LEMMA StateTypes ==
    ASSUME TypeOK
    PROVE  /\ stream \in Streams /\ WellFormed(stream)
           /\ N \in Nat /\ N > 0 /\ at \in 1 .. N + 1
           /\ pc \in {"idle", "switch", "fast", "done"} /\ mode_ \in AllModes
           /\ last_ \in BOOLEAN /\ verify \in BOOLEAN /\ sym \in Nat
           /\ check_ \in Nat /\ length_ \in Nat /\ offset_ \in Nat /\ extra_ \in Nat
           /\ have_ \in Nat /\ lenbits_ \in Nat /\ distbits_ \in Nat /\ avail_out \in Nat
           /\ next_in \in Nat /\ in_last \in Nat /\ total_in \in Nat /\ total_out \in Nat
           /\ lives \in Nat /\ total_out <= Len(output)
  <1>1. stream \in Streams
    BY DEF TypeOK
  <1>2. WellFormed(stream)
    BY <1>1, FormatAssumption
  <1>3. N \in Nat /\ N > 0
    BY <1>2, StreamTypes DEF N
  <1> QED BY <1>1, <1>2, <1>3 DEF TypeOK, N, AllModes

\* Where the reading stands.
LEMMA PlaceTypes ==
    ASSUME TypeOK
    PROVE  /\ WellFormed(stream) /\ at \in Nat /\ N \in Nat /\ at \in 1 .. at
           /\ at \in 1 .. N + 1 /\ at + 1 \in Nat
           /\ at <= N => at \in 1 .. N /\ at + 1 \in 1 .. N + 1
  <1>1. WellFormed(stream) /\ N \in Nat /\ at \in 1 .. N + 1
    BY StateTypes
  <1> QED BY <1>1

\* The item at hand and those around it.
LEMMA ItemAt ==
    ASSUME TypeOK, at <= N
    PROVE  /\ item \in Item /\ at \in 1 .. N /\ at + 1 \in 1 .. N + 1
           /\ stream.start[at] \in Nat /\ stream.start[at + 1] \in Nat
           /\ stream.start[at + 1] = After(item, stream.start[at])
           /\ stream.text[at] \in Seq(Byte) /\ Len(stream.text[at]) \in Nat
           /\ stream.text[at + 1] \in Seq(Byte) /\ Len(stream.text[at + 1]) \in Nat
           /\ Extends(stream.text[at + 1], item, stream.text[at])
           /\ Consistent(item)
           /\ item.op = "table" => SymbolsInOrder(item)
  <1>1. WellFormed(stream) /\ N \in Nat /\ at \in 1 .. N /\ at + 1 \in 1 .. N + 1 /\ at \in 1 .. N + 1
    BY PlaceTypes
  <1>2. item \in Item
    BY <1>1, StreamTypes DEF item, N
  <1>3. /\ stream.start[at] \in Nat /\ stream.start[at + 1] \in Nat
        /\ stream.text[at] \in Seq(Byte) /\ stream.text[at + 1] \in Seq(Byte)
    BY <1>1, StreamTypes DEF N
  <1>4. Len(stream.text[at]) \in Nat /\ Len(stream.text[at + 1]) \in Nat
    BY <1>3, LenProperties
  <1>5. /\ stream.start[at + 1] = After(item, stream.start[at])
        /\ Extends(stream.text[at + 1], item, stream.text[at])
        /\ item.op = "table" => SymbolsInOrder(item)
    BY <1>1 DEF WellFormed, InOrder, item, N
  <1>6. Consistent(item)
    BY <1>1 DEF WellFormed, Typed, item, N
  <1> QED BY <1>1, <1>2, <1>3, <1>4, <1>5, <1>6

\* How much text an item stands for.
LEMMA TextLength ==
    ASSUME TypeOK, at <= N
    PROVE  /\ item.op = "stored" => Len(stream.text[at + 1]) = Len(stream.text[at]) + Len(item.bytes)
           /\ item.op = "lit" => Len(stream.text[at + 1]) = Len(stream.text[at]) + 1
           /\ item.op = "match" /\ Distance(item) <= Len(stream.text[at]) =>
                Len(stream.text[at + 1]) = Len(stream.text[at]) + item.len + item.len_v
           /\ item.op \in {"block", "table", "eob", "invalid"} =>
                stream.text[at + 1] = stream.text[at]
  <1> DEFINE t == stream.text[at]
             u == stream.text[at + 1]
  <1>1. item \in Item /\ t \in Seq(Byte) /\ Extends(u, item, t)
    BY ItemAt
  <1> HIDE DEF t, u
  <1>2. CASE item.op = "stored"
    <2>1. u = t \o item.bytes /\ item.bytes \in Seq(Byte)
      BY <1>1, <1>2, ItemTypes DEF Extends
    <2> QED BY <1>1, <1>2, <2>1, ConcatProperties DEF t, u
  <1>3. CASE item.op = "lit"
    <2>1. u = Append(t, item.byte) /\ item.byte \in Byte
      BY <1>1, <1>3, ItemTypes DEF Extends
    <2> QED BY <1>1, <1>3, <2>1, AppendProperties DEF t, u
  <1>4. CASE item.op \notin {"stored", "lit"}
    BY <1>1, <1>4 DEF Extends, t, u
  <1> QED BY <1>2, <1>3, <1>4

\* The size of the input.
LEMMA InputSize ==
    ASSUME TypeOK
    PROVE  /\ InputBytes(stream) \in Nat
           /\ CheckBytes(stream) \in {0, 4} /\ LengthBytes(stream) \in {0, 4}
           /\ stream.start[N + 1] \in Nat
           /\ 8 * StreamBytes(stream) =
                NextByte(stream.start[N + 1]) + 8 * CheckBytes(stream) + 8 * LengthBytes(stream)
  <1> DEFINE b == stream.start[N + 1]
             q == (b + 7) \div 8
  <1>1. WellFormed(stream) /\ N \in Nat
    BY StateTypes
  <1>2. b \in Nat /\ stream.after \in Nat
    BY <1>1, StreamTypes DEF N
  <1>3. CheckBytes(stream) \in {0, 4} /\ LengthBytes(stream) \in {0, 4}
    BY DEF CheckBytes, LengthBytes
  <1>4. q \in Nat
    <2> HIDE DEF b
    <2> QED BY <1>2
  <1>5. NextByte(b) = 8 * q /\ (8 * q) \div 8 = q
    <2>1. NextByte(b) = 8 * q
      BY DEF NextByte
    <2> HIDE DEF q
    <2> QED BY <1>4, <2>1
  <1>6. StreamBytes(stream) = q + CheckBytes(stream) + LengthBytes(stream)
    <2>1. StreamBytes(stream) = NextByte(b) \div 8 + CheckBytes(stream) + LengthBytes(stream)
      BY DEF StreamBytes, N
    <2> HIDE DEF q, b
    <2> QED BY <1>5, <2>1
  <1>7. InputBytes(stream) = StreamBytes(stream) + stream.after
    BY DEF InputBytes
  <1> HIDE DEF q
  <1> QED BY <1>2, <1>3, <1>4, <1>5, <1>6, <1>7

-----------------------------------------------------------------------------
(* The reservoir *)

\* fill() has taken all the input there was.
LEMMA OutOfInputEffect ==
    ASSUME n_ \in 0 .. 32, next_in \in Nat, in_last \in Nat, next_in <= in_last,
           NEW n \in 0 .. 32, OutOfInput(n)
    PROVE  /\ n_' \in 0 .. 32 /\ next_in' = in_last /\ pc' = "done"
           /\ 8 * next_in' - n_' = Bit
  <1>1. Bytes(n, n_) > in_last - next_in /\ next_in' = in_last /\ pc' = "done"
        /\ n_' = n_ + 8 * (in_last - next_in)
    BY DEF OutOfInput, avail
  <1>2. n_ < n /\ (n - n_ + 7) \div 8 > in_last - next_in
    BY <1>1 DEF Bytes
  <1>3. 8 * (in_last - next_in) < n - n_
    BY <1>2
  <1> QED BY <1>1, <1>3 DEF Bit

\* fill() has as many bits as it was asked for, and k of them are taken.
LEMMA TakeEffect ==
    ASSUME n_ \in 0 .. 32, next_in \in Nat, in_last \in Nat, next_in <= in_last,
           NEW n \in Nat, NEW k \in Nat, n <= 32, k <= n, n <= 25 \/ k >= 7, Take(n, k)
    PROVE  /\ n_' \in 0 .. 32 /\ next_in' \in Nat /\ next_in' <= in_last
           /\ 8 * next_in' - n_' = Bit + k
  <1> DEFINE b == Bytes(n, n_)
  <1>1. b <= in_last - next_in /\ next_in' = next_in + b /\ n_' = n_ + 8 * b - k
    BY DEF Take, avail
  <1>2. b \in Nat /\ n_ + 8 * b >= n /\ (n_ + 8 * b <= n + 7 \/ b = 0)
    <2>1. CASE n_ >= n
      BY <2>1 DEF Bytes
    <2>2. CASE n_ < n
      <3>1. b = (n - n_ + 7) \div 8
        BY <2>2 DEF Bytes
      <3> HIDE DEF b
      <3> QED BY <2>2, <3>1
    <2> QED BY <2>1, <2>2
  <1> HIDE DEF b
  <1> QED BY <1>1, <1>2 DEF Bit
-----------------------------------------------------------------------------
(* What the steps have in common *)

\* What a step inside a call leaves alone.
LEMMA FrameEffect ==
    ASSUME UNCHANGED frame
    PROVE  /\ stream' = stream /\ flush' = flush /\ verify' = verify /\ window' = window
           /\ in_last' = in_last /\ total_in' = total_in /\ total_out' = total_out
           /\ lives' = lives /\ N' = N /\ wrap_' = wrap_
  BY DEF frame, N, wrap_

\* The beginning of a sequence.
LEMMA Beginning ==
    ASSUME NEW w \in Seq(Byte), NEW n \in 0 .. Len(w)
    PROVE  /\ SubSeq(w, 1, n) \in Seq(Byte) /\ Len(SubSeq(w, 1, n)) = n
           /\ \A k \in 1 .. n : SubSeq(w, 1, n)[k] = w[k]
  <1>1. Len(w) \in Nat
    BY LenProperties
  <1>2. \A k \in 1 .. n : w[k] \in Byte
    BY <1>1, ElementOfSeq
  <1>3. 1 \in Int /\ n \in Int
    BY <1>1
  <1>4. /\ SubSeq(w, 1, n) \in Seq(Byte)
        /\ Len(SubSeq(w, 1, n)) = IF 1 <= n THEN n - 1 + 1 ELSE 0
        /\ \A k \in 1 .. n - 1 + 1 : SubSeq(w, 1, n)[k] = w[1 + k - 1]
    BY <1>2, <1>3, SubSeqProperties
  <1> QED BY <1>1, <1>4

\* An error return.
LEMMA Fails ==
    ASSUME IInv, UNCHANGED frame, NEW e, err(e), code' = code, place' = place,
           check_' \in Nat, last_' \in BOOLEAN,
           n_' \in 0 .. 32, next_in' \in Nat, next_in' <= in_last
    PROVE  IInv'
  <1>1. TypeOK /\ DataInv /\ RangeInv
    BY DEF IInv
  <1>2. /\ ec' = e /\ mode_' = "BAD" /\ pc' = "idle" /\ avail_out' = avail_out
        /\ output' = SubSeq(output, 1, total_out)
        /\ at' = at /\ sym' = sym /\ length_' = length_ /\ offset_' = offset_ /\ extra_' = extra_
        /\ have_' = have_ /\ lenbits_' = lenbits_ /\ distbits_' = distbits_
    BY DEF err, code, place
  <1>3. /\ output' \in Seq(Byte) /\ Len(output') = total_out
    <2>1. output \in Seq(Byte) /\ total_out \in 0 .. Len(output)
      BY <1>1, StateTypes, LenProperties DEF DataInv
    <2> QED BY <1>2, <2>1, Beginning
  <1>4. TypeOK'
    <2>1. total_out <= Len(output')
      BY <1>1, <1>3, StateTypes
    <2> QED BY <1>1, <1>2, <2>1, FrameEffect DEF TypeOK
  <1>5. DataInv' /\ RangeInv'
    BY <1>1, <1>2, <1>3, FrameEffect DEF DataInv, RangeInv
  <1>6. ItemInv' /\ RegisterInv'
    BY <1>2 DEF ItemInv, RegisterInv, HeadRegisters, BlockRegisters, SymbolRegisters,
       HeadModes, SymbolModes, EndModes, BodyModes, StoredModes, TableModes
  <1>7. BitInv'
    BY <1>2 DEF BitInv, HeadBits, BlockBits, SymbolBits, EndBits
  <1>8. TextInv' /\ StopInv' /\ StopsWhenStuck' /\ SoundInv'
    BY <1>2 DEF TextInv, StopInv, StopsWhenStuck, SoundInv
  <1>9. WindowFollowsOutput' /\ CheckCoversOutput'
    BY <1>2 DEF WindowFollowsOutput, CheckCoversOutput, BlockModes, SymbolModes
  <1> QED BY <1>4, <1>5, <1>6, <1>7, <1>8, <1>9 DEF IInv

\* The parts that a step has to establish for itself when it writes no output.
Registered ==
    /\ at \in 1 .. N + 1 /\ sym \in Nat /\ last_ \in BOOLEAN /\ check_ \in Nat
    /\ length_ \in Nat /\ offset_ \in Nat /\ extra_ \in Nat
    /\ have_ \in Nat /\ lenbits_ \in Nat /\ distbits_ \in Nat
    /\ n_ \in 0 .. 32 /\ next_in \in Nat /\ next_in <= in_last

\* Every byte of the output is where it was, and so is the end of the text.
TextAt == Len(stream.text[at]) + Copied

\* Sequences that agree to a place begin alike.
LEMMA SameBeginning ==
    ASSUME NEW u \in Seq(Byte), NEW w \in Seq(Byte), NEW n \in 0 .. Len(u), n <= Len(w),
           \A k \in 1 .. n : u[k] = w[k]
    PROVE  SubSeq(u, 1, n) = SubSeq(w, 1, n)
  <1>1. Len(u) \in Nat /\ Len(w) \in Nat /\ n \in 0 .. Len(w)
    BY LenProperties
  <1>2. /\ SubSeq(u, 1, n) \in Seq(Byte) /\ Len(SubSeq(u, 1, n)) = n
        /\ \A k \in 1 .. n : SubSeq(u, 1, n)[k] = u[k]
    BY Beginning
  <1>3. /\ SubSeq(w, 1, n) \in Seq(Byte) /\ Len(SubSeq(w, 1, n)) = n
        /\ \A k \in 1 .. n : SubSeq(w, 1, n)[k] = w[k]
    BY <1>1, Beginning
  <1> QED BY <1>2, <1>3, SeqEqual

\* A step that goes on to a mode, and may add to the output.
LEMMA Goes ==
    ASSUME IInv, UNCHANGED frame, Registered', avail_out' \in Nat,
           output' \in Seq(Byte), Len(output) <= Len(output'),
           \A k \in 1 .. Len(output) : output'[k] = output[k],
           mode_ # "BAD", mode_' \in AllModes \ {"BAD"}, pc' \in {"switch", "fast", "done"},
           pc' = "fast" => mode_' = "LEN" /\ FastEnough',
           mode_ \in EndModes => mode_' \in EndModes,
           \/ check_' = total_out \/ wrap_ = "none"
           \/ mode_' \notin BlockModes \cup SymbolModes \cup {"CHECK"},
           TextInv', ItemInv', RegisterInv', BitInv', StopInv', SoundInv'
    PROVE  IInv'
  <1>1. TypeOK /\ DataInv /\ RangeInv /\ WindowFollowsOutput
    BY DEF IInv
  <1>2. /\ total_out \in 0 .. Len(output) /\ total_out <= Len(output')
        /\ Len(output) \in Nat /\ Len(output') \in Nat
    <2>1. output \in Seq(Byte) /\ output' \in Seq(Byte) /\ Len(output) <= Len(output')
      BY <1>1 DEF DataInv
    <2>2. Len(output) \in Nat /\ Len(output') \in Nat
      BY <2>1, LenProperties
    <2>3. total_out \in Nat /\ total_out <= Len(output)
      BY <1>1 DEF TypeOK
    <2> QED BY ONLY <2>1, <2>2, <2>3
  <1>3. TypeOK'
    BY <1>1, <1>2, FrameEffect DEF TypeOK, Registered, AllModes, N
  <1>4. DataInv' /\ RangeInv'
    BY <1>1, FrameEffect DEF DataInv, RangeInv, Registered
  <1>5. WindowFollowsOutput'
    <2>1. SubSeq(output, 1, total_out) = SubSeq(output', 1, total_out)
      BY <1>1, <1>2, SameBeginning DEF DataInv
    <2> QED BY <1>1, <2>1, FrameEffect DEF WindowFollowsOutput
  <1>6. CheckCoversOutput'
    BY FrameEffect DEF CheckCoversOutput
  <1>7. StopsWhenStuck'
    BY DEF StopsWhenStuck
  <1> QED BY <1>3, <1>4, <1>5, <1>6, <1>7 DEF IInv

\* A step that goes on to a mode and writes no output.
LEMMA Moves ==
    ASSUME IInv, UNCHANGED frame, output' = output, avail_out' = avail_out, Registered',
           mode_ # "BAD", mode_' \in AllModes \ {"BAD"}, pc' \in {"switch", "fast", "done"},
           pc' = "fast" => mode_' = "LEN" /\ FastEnough',
           mode_ \in EndModes => mode_' \in EndModes,
           \/ check_' = total_out \/ wrap_ = "none"
           \/ mode_' \notin BlockModes \cup SymbolModes \cup {"CHECK"},
           TextAt' = TextAt, ItemInv', RegisterInv', BitInv', StopInv', SoundInv'
    PROVE  IInv'
  <1>1. TypeOK /\ DataInv /\ TextInv
    BY DEF IInv
  <1>2. TextInv'
    BY <1>1, FrameEffect DEF TextInv, TextAt
  <1>3. avail_out' \in Nat /\ output' \in Seq(Byte) /\ Len(output) <= Len(output')
    BY <1>1, StateTypes, LenProperties DEF DataInv
  <1> QED BY <1>2, <1>3, Goes

\* The registers, the place and the mode are as they were, and so is the bit.
LEMMA Stays ==
    ASSUME IInv, UNCHANGED frame, code' = code, place' = place, state' = state,
           8 * next_in' - n_' = Bit, mode_ \notin {"COPY_", "COPY"} \/ n_' = n_
    PROVE  ItemInv' /\ RegisterInv' /\ BitInv' /\ SoundInv' /\ TextAt' = TextAt
  <1>1. /\ mode_' = mode_ /\ last_' = last_ /\ check_' = check_ /\ at' = at /\ sym' = sym
        /\ length_' = length_ /\ offset_' = offset_ /\ extra_' = extra_
        /\ have_' = have_ /\ lenbits_' = lenbits_ /\ distbits_' = distbits_
    BY DEF code, place, state
  <1>2. stream' = stream /\ N' = N /\ wrap_' = wrap_ /\ verify' = verify /\ item' = item /\ Bit' = Bit
    BY <1>1, FrameEffect DEF item, Bit
  <1>3. ItemInv'
    BY <1>1, <1>2 DEF IInv, ItemInv, InBlockOf
  <1>4. RegisterInv'
    BY <1>1, <1>2 DEF IInv, RegisterInv, HeadRegisters, BlockRegisters, SymbolRegisters
  <1>5. BitInv'
    BY <1>1, <1>2 DEF IInv, BitInv, HeadBits, BlockBits, SymbolBits, EndBits, DataStart
  <1>6. SoundInv'
    BY <1>1, <1>2 DEF IInv, SoundInv
  <1>7. TextAt' = TextAt
    BY <1>1, <1>2 DEF TextAt, Copied
  <1> QED BY <1>3, <1>4, <1>5, <1>6, <1>7

\* A mode that returns for want of input.
LEMMA Starves ==
    ASSUME IInv, UNCHANGED frame, NEW n \in 0 .. 32, OutOfInput(n), Kept,
           mode_ \notin {"BAD", "COPY_", "COPY"}
    PROVE  IInv'
  <1>1. TypeOK /\ DataInv /\ RangeInv
    BY DEF IInv
  <1>2. /\ n_' \in 0 .. 32 /\ next_in' = in_last /\ pc' = "done" /\ 8 * next_in' - n_' = Bit
    BY <1>1, StateTypes, OutOfInputEffect DEF DataInv, RangeInv
  <1>3. /\ output' = output /\ avail_out' = avail_out
        /\ code' = code /\ place' = place /\ state' = state
    BY DEF Kept, result
  <1>4. ItemInv' /\ RegisterInv' /\ BitInv' /\ SoundInv' /\ TextAt' = TextAt
    BY <1>2, <1>3, Stays
  <1>5. StopInv'
    BY <1>2, FrameEffect DEF StopInv
  <1>6. mode_' = mode_ /\ mode_ \in AllModes \ {"BAD"} /\ check_' = check_
    BY <1>1, <1>3, StateTypes DEF state
  <1>7. Registered'
    BY <1>1, <1>2, <1>3, StateTypes, FrameEffect DEF Registered, code, place, state
  <1>8. check_' = total_out \/ mode_' \notin BlockModes \cup SymbolModes \cup {"CHECK"} \/ wrap_ = "none"
    BY <1>6 DEF IInv, CheckCoversOutput
  <1> QED BY <1>2, <1>3, <1>4, <1>5, <1>6, <1>7, <1>8, Moves

-----------------------------------------------------------------------------
(* The header *)

\* Where the header leaves the stream, and what it says that is no error.
LEMMA Heads ==
    ASSUME TypeOK
    PROVE  /\ HeadMatches(stream) /\ wrap_ \in {"none", "zlib", "gzip"}
           /\ stream.head.name \in Nat /\ stream.head.comment \in Nat /\ stream.head.window \in Nat
           /\ stream.head.dict \in BOOLEAN /\ stream.head.hcrc \in BOOLEAN
           /\ stream.start[1] = 8 * HeadBytes(stream) /\ Len(stream.text[1]) = 0
           /\ stream.items[1].op = "block"
  <1>1. WellFormed(stream)
    BY StateTypes
  <1>2. stream.text[1] = << >>
    BY <1>1 DEF WellFormed, InOrder
  <1> QED BY <1>1, <1>2, StreamTypes DEF WellFormed, InOrder, Typed, Grammatical, wrap_

\* In the header nothing has been given yet.
LEMMA NothingYet ==
    ASSUME IInv, mode_ \in HeadModes
    PROVE  at = 1 /\ last_ = FALSE /\ TextAt = 0 /\ total_out = 0
  <1>1. at = 1 /\ last_ = FALSE
    BY StateTypes DEF IInv, ItemInv
  <1>2. TextAt = 0
    BY <1>1, Heads DEF IInv, TextAt, Copied, HeadModes
  <1>3. Len(output) = 0
    BY <1>2 DEF IInv, TextInv, TextAt, HeadModes
  <1>4. total_out \in Nat /\ total_out <= Len(output)
    BY StateTypes DEF IInv
  <1> QED BY <1>1, <1>2, <1>3, <1>4

\* A step within the header or to the first block.
LEMMA HeadMoves ==
    ASSUME IInv, UNCHANGED frame, mode_ \in HeadModes, result' = result, place' = place,
           last_' = last_, length_' \in Nat,
           UNCHANGED <<offset_, extra_, have_, lenbits_, distbits_>>,
           mode_' \in HeadModes \cup {"TYPE", "TYPEDO"}, pc' \in {"switch", "done"}, check_' \in Nat,
           n_' \in 0 .. 32, next_in' \in Nat, next_in' <= in_last,
           mode_' \in HeadModes => HeadRegisters' /\ HeadBits' /\ StopInv',
           mode_' \in {"TYPE", "TYPEDO"} =>
                /\ pc' = "switch" /\ Bit' = 8 * HeadBytes(stream) /\ (check_' = 0 \/ wrap_ = "none")
                /\ SoundHead(stream, capacity) \/ (~verify /\ stream.head.error = "header_crc_mismatch"),
           mode_' \in {"TIME", "OS", "EXLEN", "NAME", "COMMENT", "HCRC"} =>
                stream.head.error \in {"ok", "header_crc_mismatch"}
    PROVE  IInv'
  <1>1. TypeOK
    BY DEF IInv
  <1>2. at = 1 /\ last_ = FALSE /\ TextAt = 0 /\ total_out = 0 /\ N \in Nat /\ N > 0
    BY <1>1, NothingYet, StateTypes
  <1>3. /\ output' = output /\ avail_out' = avail_out /\ at' = 1 /\ sym' = sym /\ last_' = FALSE
        /\ stream' = stream /\ N' = N /\ verify' = verify
    BY <1>2, FrameEffect DEF result, place
  <1>4. ItemInv'
    <2>1. item'.op = "block"
      BY <1>1, <1>3, Heads DEF item
    <2> QED BY <1>2, <1>3, <2>1 DEF ItemInv, HeadModes, SymbolModes, EndModes, BodyModes, StoredModes,
         TableModes
  <1>5. RegisterInv'
    <2>1. BlockRegisters' /\ SymbolRegisters'
      BY DEF BlockRegisters, SymbolRegisters, HeadModes
    <2>2. HeadRegisters'
      BY DEF HeadRegisters
    <2> QED BY <2>1, <2>2 DEF RegisterInv
  <1>6. BitInv'
    <2>1. stream'.start[at'] = 8 * HeadBytes(stream)
      BY <1>1, <1>3, Heads
    <2>2. BlockBits'
      BY <2>1 DEF BlockBits, HeadModes
    <2>3. SymbolBits' /\ EndBits'
      BY DEF SymbolBits, EndBits, HeadModes
    <2>4. HeadBits'
      BY DEF HeadBits
    <2> QED BY <2>2, <2>3, <2>4 DEF BitInv
  <1>7. TextAt' = TextAt
    BY <1>1, <1>2, <1>3, Heads DEF TextAt, Copied, HeadModes
  <1>8. StopInv'
    BY DEF StopInv
  <1>9. SoundInv'
    <2>1. mode_' \notin HeadModes => mode_' \in {"TYPE", "TYPEDO"}
      OBVIOUS
    <2>2. \A i \in 1 .. at' - 1 : FALSE
      BY <1>3
    <2>3. mode_' \notin {"LENGTH", "DONE"}
      BY DEF HeadModes
    <2> QED BY <1>3, <2>1, <2>2, <2>3 DEF SoundInv
  <1>10. Registered'
    BY <1>1, <1>2, <1>3, StateTypes, FrameEffect DEF Registered
  <1>11. check_' = total_out \/ mode_' \notin BlockModes \cup SymbolModes \cup {"CHECK"} \/ wrap_ = "none"
    BY <1>2 DEF HeadModes, BlockModes, SymbolModes
  <1>12. mode_ # "BAD" /\ mode_ \notin EndModes /\ mode_' \in AllModes \ {"BAD"} /\ pc' # "fast"
    BY DEF HeadModes, EndModes, BlockModes, AllModes
  <1> QED BY <1>3, <1>4, <1>5, <1>6, <1>7, <1>8, <1>9, <1>10, <1>11, <1>12, Moves

\* The mode HEAD keeps the invariant.
LEMMA KeepsHEAD ==
    ASSUME IInv, UNCHANGED frame, HEAD
    PROVE  IInv'
  <1>1. TypeOK /\ DataInv /\ RangeInv /\ mode_ = "HEAD" /\ Bit = 0
    BY DEF IInv, BitInv, HeadBits, HEAD, In
  <1>2. /\ n_ \in 0 .. 32 /\ next_in \in Nat /\ in_last \in Nat /\ next_in <= in_last
        /\ check_ \in Nat /\ length_ \in Nat /\ last_ \in BOOLEAN
    BY <1>1, StateTypes DEF DataInv, RangeInv
  <1>3. CASE wrap_ = "none" /\ Goto("TYPEDO") /\ UNCHANGED <<ec, input, result, code, place, last_, check_>>
    <2>1. mode_' = "TYPEDO" /\ pc' = "switch" /\ Bit' = 0
      BY <1>1, <1>3 DEF Goto, input, Bit
    <2>2. HeadBytes(stream) = 0 /\ SoundHead(stream, capacity)
      BY <1>1, <1>3, Heads DEF HeadBytes, SoundHead, HeadMatches, wrap_
    <2> QED BY <1>1, <1>2, <1>3, <2>1, <2>2, HeadMoves DEF HeadModes, code, input
  <1>4. CASE OutOfInput(16) /\ Kept
    BY <1>1, <1>4, Starves
  <1>5. CASE /\ Take(16, 16) /\ UNCHANGED <<code, place, last_>>
             /\ \/ err(HeadError) /\ UNCHANGED check_
                \/ /\ wrap_ = "zlib" /\ HeadError = "ok"
                   /\ Goto(IF stream.head.dict THEN "DICTID" ELSE "TYPE")
                   /\ check_' = 0 /\ UNCHANGED <<ec, result>>
                \/ wrap_ = "gzip" /\ check_' = 2 /\ Goto("FLAGS") /\ UNCHANGED <<ec, result>>
    <2>1. n_' \in 0 .. 32 /\ next_in' \in Nat /\ next_in' <= in_last /\ Bit' = 16
      <3>1. Take(16, 16)
        BY <1>5, Zenon
      <3>2. Bit = 0
        BY <1>1, Zenon
      <3> QED BY ONLY <1>2, <3>1, <3>2, TakeEffect DEF Bit
    <2>2. CASE err(HeadError) /\ UNCHANGED check_
      BY <1>2, <1>5, <2>1, <2>2, Fails
    <2>3. CASE /\ wrap_ = "zlib" /\ HeadError = "ok"
               /\ Goto(IF stream.head.dict THEN "DICTID" ELSE "TYPE")
               /\ check_' = 0 /\ UNCHANGED <<ec, result>>
      <3>1. pc' = "switch" /\ mode_' = IF stream.head.dict THEN "DICTID" ELSE "TYPE"
        BY <2>3 DEF Goto
      <3>2. mode_' = "TYPE" => HeadBytes(stream) = 2 /\ SoundHead(stream, capacity)
        BY <1>1, <2>3, <3>1, Heads, InflateAssumption
           DEF HeadBytes, ZlibBytes, SoundHead, HeadError, wrap_
      <3>3. mode_' = "DICTID" => stream.head.dict
        BY <3>1
      <3>4. mode_' = "DICTID" => HeadRegisters' /\ HeadBits' /\ StopInv'
        BY <2>1, <2>3, <3>1, <3>3, FrameEffect DEF HeadRegisters, HeadBits, StopInv
      <3> QED BY <1>1, <1>2, <1>5, <2>1, <2>3, <3>1, <3>2, <3>4, HeadMoves DEF HeadModes, code
    <2>4. CASE wrap_ = "gzip" /\ check_' = 2 /\ Goto("FLAGS") /\ UNCHANGED <<ec, result>>
      <3>1. pc' = "switch" /\ mode_' = "FLAGS"
        BY <2>4 DEF Goto
      <3>2. HeadRegisters' /\ HeadBits' /\ StopInv'
        BY <2>1, <2>4, <3>1, FrameEffect DEF HeadRegisters, HeadBits, StopInv
      <3> QED BY <1>1, <1>2, <1>5, <2>1, <2>4, <3>1, <3>2, HeadMoves DEF HeadModes, code
    <2> QED BY <1>5, <2>2, <2>3, <2>4
  <1> QED BY <1>3, <1>4, <1>5 DEF HEAD

\* A mode that reads one field of a gzip header keeps the invariant.
LEMMA KeepsField ==
    ASSUME IInv, UNCHANGED frame, NEW n \in {16, 32}, NEW next,
           Field(n, next), stream.head.error \in {"ok", "header_crc_mismatch"}, wrap_ = "gzip",
           <<mode_, n, next>> \in
                {<<"FLAGS", 16, "TIME">>, <<"TIME", 32, "OS">>, <<"OS", 16, "EXLEN">>}
    PROVE  IInv'
  <1>1. /\ TypeOK /\ DataInv /\ RangeInv /\ mode_ \in {"FLAGS", "TIME", "OS"}
        /\ next \in {"TIME", "OS", "EXLEN"} /\ n \div 8 \in Nat
    BY DEF IInv
  <1>2. /\ n_ \in 0 .. 32 /\ next_in \in Nat /\ in_last \in Nat /\ next_in <= in_last
        /\ check_ \in Nat /\ length_ \in Nat /\ last_ \in BOOLEAN
    BY <1>1, StateTypes DEF DataInv, RangeInv
  <1>3. CASE OutOfInput(n) /\ Kept
    BY <1>1, <1>3, Starves
  <1>4. CASE /\ Take(n, n) /\ Goto(next) /\ UNCHANGED <<ec, result, code, place, last_>>
             /\ check_' = IF stream.head.hcrc /\ verify THEN check_ + n \div 8 ELSE check_
    <2>1. n_' \in 0 .. 32 /\ next_in' \in Nat /\ next_in' <= in_last /\ Bit' = Bit + n
      <3>1. Take(n, n)
        BY <1>4, Zenon
      <3> QED BY <1>2, <3>1, TakeEffect DEF Bit
    <2>2. mode_' = next /\ pc' = "switch" /\ check_' \in Nat
      BY <1>1, <1>2, <1>4 DEF Goto
    <2>3. HeadBits'
      BY <2>1, <2>2 DEF IInv, BitInv, HeadBits
    <2>4. HeadRegisters' /\ StopInv'
      BY <1>1, <2>2, FrameEffect DEF HeadRegisters, StopInv
    <2>5. /\ result' = result /\ place' = place /\ last_' = last_ /\ length_' \in Nat
          /\ UNCHANGED <<offset_, extra_, have_, lenbits_, distbits_>>
      BY <1>2, <1>4 DEF code
    <2>6. mode_ \in HeadModes /\ mode_' \in HeadModes
      BY <1>1, <2>2 DEF HeadModes
    <2> QED BY <1>1, <2>1, <2>2, <2>3, <2>4, <2>5, <2>6, HeadMoves
  <1> QED BY <1>3, <1>4 DEF Field

\* The modes of the gzip header that read a field.
LEMMA KeepsFields ==
    ASSUME IInv, UNCHANGED frame, FLAGS \/ TIME \/ OS
    PROVE  IInv'
  <1>1. TypeOK /\ DataInv /\ RangeInv
    BY DEF IInv
  <1>2. wrap_ = "gzip"
    BY DEF FLAGS, TIME, OS, In, IInv, RegisterInv, HeadRegisters
  <1>3. CASE FLAGS
    <2>1. mode_ = "FLAGS"
      BY <1>3 DEF FLAGS, In
    <2>2. CASE stream.head.error \in {"unknown_compression_method", "unknown_header_flags"}
      <3>1. CASE OutOfInput(16) /\ Kept
        BY <2>1, <3>1, Starves
      <3>2. CASE /\ Take(16, 16) /\ err(stream.head.error)
                 /\ UNCHANGED <<code, place, last_, check_>>
        <4>1. /\ n_ \in 0 .. 32 /\ next_in \in Nat /\ in_last \in Nat /\ next_in <= in_last
              /\ check_ \in Nat /\ last_ \in BOOLEAN
          BY <1>1, StateTypes DEF DataInv, RangeInv
        <4>2. n_' \in 0 .. 32 /\ next_in' \in Nat /\ next_in' <= in_last
          <5>1. Take(16, 16)
            BY <3>2, Zenon
          <5> QED BY ONLY <4>1, <5>1, TakeEffect
        <4> QED BY <3>2, <4>1, <4>2, Fails
      <3> QED BY <1>3, <2>2, <3>1, <3>2 DEF FLAGS
    <2>3. CASE stream.head.error \notin {"unknown_compression_method", "unknown_header_flags"}
      <3>1. stream.head.error \in {"ok", "header_crc_mismatch"}
        BY <1>1, <1>2, <2>3, Heads DEF HeadMatches, GzipErrors, wrap_
      <3>2. Field(16, "TIME")
        BY <1>3, <2>3 DEF FLAGS
      <3> QED BY <1>2, <2>1, <3>1, <3>2, KeepsField
    <2> QED BY <2>2, <2>3
  <1>4. CASE TIME
    <2>1. mode_ = "TIME" /\ Field(32, "OS")
      BY <1>4 DEF TIME, In
    <2>2. stream.head.error \in {"ok", "header_crc_mismatch"}
      BY <2>1 DEF IInv, SoundInv
    <2> QED BY <1>2, <2>1, <2>2, KeepsField
  <1>5. CASE OS
    <2>1. mode_ = "OS" /\ Field(16, "EXLEN")
      BY <1>5 DEF OS, In
    <2>2. stream.head.error \in {"ok", "header_crc_mismatch"}
      BY <2>1 DEF IInv, SoundInv
    <2> QED BY <1>2, <2>1, <2>2, KeepsField
  <1> QED BY <1>3, <1>4, <1>5

\* The mode EXLEN keeps the invariant.
LEMMA KeepsEXLEN ==
    ASSUME IInv, UNCHANGED frame, EXLEN
    PROVE  IInv'
  <1>1. TypeOK /\ DataInv /\ RangeInv /\ mode_ = "EXLEN" /\ Bit = 80 /\ wrap_ = "gzip"
    BY DEF IInv, BitInv, HeadBits, RegisterInv, HeadRegisters, EXLEN, In
  <1>2. /\ n_ \in 0 .. 32 /\ next_in \in Nat /\ in_last \in Nat /\ next_in <= in_last
        /\ check_ \in Nat /\ last_ \in BOOLEAN
    BY <1>1, StateTypes DEF DataInv, RangeInv
  <1>3. /\ mode_' = "NAME" /\ pc' = "switch" /\ length_' = 0 /\ check_' = check_
        /\ next_in' = next_in - n_ \div 8 /\ n_' = n_ % 8
        /\ result' = result /\ place' = place /\ last_' = last_ /\ ec' = ec
        /\ UNCHANGED <<offset_, extra_, have_, lenbits_, distbits_>>
    BY DEF EXLEN, Goto
  <1>4. n_' \in 0 .. 32 /\ next_in' \in Nat /\ next_in' <= in_last /\ Bit' = 80
    BY <1>1, <1>2, <1>3 DEF Bit
  <1>5. stream.head.error \in {"ok", "header_crc_mismatch"}
    BY <1>1 DEF IInv, SoundInv
  <1>6. HeadRegisters' /\ HeadBits' /\ StopInv'
    BY <1>1, <1>3, <1>4, FrameEffect DEF HeadRegisters, HeadBits, StopInv
  <1>7. mode_ \in HeadModes /\ mode_' \in HeadModes /\ length_' \in Nat
    BY <1>1, <1>3 DEF HeadModes
  <1> QED BY <1>2, <1>3, <1>4, <1>5, <1>6, <1>7, HeadMoves

\* A name or comment, of which length_ bytes have been read.
LEMMA KeepsText ==
    ASSUME IInv, UNCHANGED frame, NEW n \in Nat, NEW next, TextField(n, next),
           \/ mode_ = "NAME" /\ n = stream.head.name /\ next = "COMMENT"
           \/ mode_ = "COMMENT" /\ n = stream.head.comment /\ next = "HCRC"
    PROVE  IInv'
  <1> DEFINE left == n - 1 - length_
             copy == clamp(left, avail)
  <1>1. /\ TypeOK /\ DataInv /\ RangeInv /\ mode_ \in {"NAME", "COMMENT"} /\ wrap_ = "gzip"
        /\ length_ < n \/ length_ = 0
    BY DEF IInv, RegisterInv, HeadRegisters
  <1>2. /\ n_ \in 0 .. 32 /\ next_in \in Nat /\ in_last \in Nat /\ next_in <= in_last
        /\ check_ \in Nat /\ length_ \in Nat /\ last_ \in BOOLEAN
        /\ stream.head.name \in Nat /\ stream.head.comment \in Nat
    BY <1>1, StateTypes, Heads DEF DataInv, RangeInv
  <1>3. n > 0 => left \in Nat
    BY <1>1, <1>2
  <1>4. /\ result' = result /\ place' = place /\ last_' = last_ /\ ec' = ec /\ n_' = n_
        /\ UNCHANGED <<offset_, extra_, have_, lenbits_, distbits_>>
    BY DEF TextField
  <1>5. stream.head.error \in {"ok", "header_crc_mismatch"}
    BY <1>1 DEF IInv, SoundInv
  <1>6. mode_ \in HeadModes /\ (mode_' \in {mode_, next} => mode_' \in HeadModes)
    BY <1>1 DEF HeadModes
  <1>7. CASE n = 0 \/ left < avail
    <2>1. /\ mode_' = next /\ pc' = "switch" /\ length_' = 0
          /\ next_in' = IF n = 0 THEN next_in ELSE next_in + left + 1
          /\ check_' = IF n > 0 /\ stream.head.hcrc THEN check_ + left ELSE check_
      BY <1>2, <1>3, <1>7 DEF TextField, Goto, clamp, avail
    <2>2. next_in' \in Nat /\ next_in' <= in_last /\ check_' \in Nat
      BY <1>2, <1>3, <1>7, <2>1 DEF avail
    <2>3. Bit' = Bit + 8 * (n - length_)
      BY <1>1, <1>2, <1>4, <2>1 DEF Bit
    <2>4. HeadBits'
      BY <1>2, <2>1, <2>3, FrameEffect DEF IInv, BitInv, HeadBits
    <2>5. HeadRegisters' /\ StopInv'
      BY <1>1, <2>1, FrameEffect DEF HeadRegisters, StopInv
    <2> QED BY <1>2, <1>4, <1>5, <1>6, <2>1, <2>2, <2>4, <2>5, HeadMoves
  <1>8. CASE n > 0 /\ left >= avail
    <2>1. /\ mode_' = mode_ /\ pc' = "done" /\ length_' = length_ + avail
          /\ next_in' = next_in + avail
          /\ check_' = IF stream.head.hcrc THEN check_ + avail ELSE check_
      BY <1>2, <1>3, <1>8 DEF TextField, clamp, avail
    <2>2. next_in' = in_last /\ next_in' \in Nat /\ length_' \in Nat /\ check_' \in Nat
      BY <1>2, <2>1 DEF avail
    <2>3. Bit' = Bit + 8 * (length_' - length_)
      BY <1>2, <1>4, <2>1 DEF Bit, avail
    <2>4. HeadBits'
      BY <1>2, <2>1, <2>2, <2>3, FrameEffect DEF IInv, BitInv, HeadBits
    <2>5. HeadRegisters'
      BY <1>1, <1>2, <1>8, <2>1, FrameEffect DEF HeadRegisters, avail
    <2>6. StopInv'
      BY <2>2, FrameEffect DEF StopInv
    <2> QED BY <1>2, <1>4, <1>5, <1>6, <2>1, <2>2, <2>4, <2>5, <2>6, HeadMoves
  <1> QED BY <1>7, <1>8 DEF TextField

\* NAME and COMMENT keep the invariant.
LEMMA KeepsTexts ==
    ASSUME IInv, UNCHANGED frame, NAME \/ COMMENT
    PROVE  IInv'
  <1>1. stream.head.name \in Nat /\ stream.head.comment \in Nat
    BY Heads DEF IInv
  <1> QED BY <1>1, KeepsText DEF NAME, COMMENT, In

\* The mode HCRC keeps the invariant.
LEMMA KeepsHCRC ==
    ASSUME IInv, UNCHANGED frame, HCRC
    PROVE  IInv'
  <1>1. TypeOK /\ DataInv /\ RangeInv /\ mode_ = "HCRC" /\ wrap_ = "gzip"
    BY DEF IInv, RegisterInv, HeadRegisters, HCRC, In
  <1>2. /\ n_ \in 0 .. 32 /\ next_in \in Nat /\ in_last \in Nat /\ next_in <= in_last
        /\ check_ \in Nat /\ length_ \in Nat /\ last_ \in BOOLEAN
        /\ stream.head.name \in Nat /\ stream.head.comment \in Nat /\ stream.head.hcrc \in BOOLEAN
    BY <1>1, StateTypes, Heads DEF DataInv, RangeInv
  <1>3. Bit = 80 + 8 * (stream.head.name + stream.head.comment)
    BY <1>1 DEF IInv, BitInv, HeadBits
  <1>4. CASE OutOfInput(16) /\ Kept
    BY <1>1, <1>4, Starves
  <1>5. CASE /\ IF stream.head.hcrc THEN Take(16, 16) ELSE UNCHANGED input
             /\ IF /\ stream.head.hcrc /\ verify
                   /\ check_ # HeadBytes(stream) - 2 \/ stream.head.error = "header_crc_mismatch"
                THEN err("header_crc_mismatch") /\ UNCHANGED check_
                ELSE check_' = 0 /\ Goto("TYPE") /\ UNCHANGED <<ec, result>>
             /\ UNCHANGED <<code, place, last_>>
    <2>1. /\ n_' \in 0 .. 32 /\ next_in' \in Nat /\ next_in' <= in_last
          /\ Bit' = Bit + IF stream.head.hcrc THEN 16 ELSE 0
      <3>1. CASE stream.head.hcrc
        BY <1>2, <1>5, <3>1, TakeEffect DEF Bit
      <3>2. CASE ~stream.head.hcrc
        BY <1>2, <1>5, <3>2 DEF Bit, input
      <3> QED BY <3>1, <3>2
    <2>2. Bit' = 8 * HeadBytes(stream)
      <3>1. HeadBytes(stream) = 10 + stream.head.name + stream.head.comment
                                + IF stream.head.hcrc THEN 2 ELSE 0
        BY <1>1 DEF HeadBytes, GzipBytes, wrap_
      <3> QED BY <1>2, <1>3, <2>1, <3>1
    <2>3. CASE /\ stream.head.hcrc /\ verify
               /\ check_ # HeadBytes(stream) - 2 \/ stream.head.error = "header_crc_mismatch"
      BY <1>2, <1>5, <2>1, <2>3, Fails
    <2>4. CASE ~(/\ stream.head.hcrc /\ verify
                 /\ check_ # HeadBytes(stream) - 2 \/ stream.head.error = "header_crc_mismatch")
      <3>1. /\ check_' = 0 /\ mode_' = "TYPE" /\ pc' = "switch" /\ UNCHANGED <<ec, result>>
        BY <1>5, <2>4 DEF Goto
      <3>2. stream.head.error \in {"ok", "header_crc_mismatch"}
        BY <1>1 DEF IInv, SoundInv
      <3>3. SoundHead(stream, capacity) \/ (~verify /\ stream.head.error = "header_crc_mismatch")
        BY <1>1, <2>4, <3>2, Heads DEF SoundHead, HeadMatches, wrap_
      <3>4. mode_ \in HeadModes /\ mode_' \in {"TYPE", "TYPEDO"} /\ mode_' \notin HeadModes
        BY <1>1, <3>1 DEF HeadModes
      <3>5. /\ UNCHANGED <<offset_, extra_, have_, lenbits_, distbits_>> /\ length_' \in Nat
            /\ place' = place /\ last_' = last_ /\ result' = result
        BY <1>2, <1>5, <3>1 DEF code
      <3> QED BY <2>1, <2>2, <3>1, <3>3, <3>4, <3>5, HeadMoves
    <2> QED BY <2>3, <2>4
  <1> QED BY <1>4, <1>5 DEF HCRC

\* The mode DICTID keeps the invariant.
LEMMA KeepsDICTID ==
    ASSUME IInv, UNCHANGED frame, DICTID
    PROVE  IInv'
  <1>1. TypeOK /\ DataInv /\ RangeInv /\ mode_ = "DICTID"
    BY DEF IInv, DICTID, In
  <1>2. /\ n_ \in 0 .. 32 /\ next_in \in Nat /\ in_last \in Nat /\ next_in <= in_last
        /\ check_ \in Nat /\ last_ \in BOOLEAN
    BY <1>1, StateTypes DEF DataInv, RangeInv
  <1>3. CASE OutOfInput(32) /\ Kept
    BY <1>1, <1>3, Starves
  <1>4. CASE Take(32, 32) /\ err("need_dict") /\ UNCHANGED <<code, place, last_, check_>>
    <2>1. n_' \in 0 .. 32 /\ next_in' \in Nat /\ next_in' <= in_last
      BY <1>2, <1>4, TakeEffect
    <2> QED BY <1>2, <1>4, <2>1, Fails
  <1> QED BY <1>3, <1>4 DEF DICTID

\* Every mode of the header keeps the invariant.
LEMMA KeepsInHeader ==
    ASSUME IInv, UNCHANGED frame, InHeader
    PROVE  IInv'
  BY KeepsHEAD, KeepsFields, KeepsEXLEN, KeepsTexts, KeepsHCRC, KeepsDICTID DEF InHeader

-----------------------------------------------------------------------------
(* Blocks *)

InnerModes == BlockModes \cup SymbolModes

\* What may be said of the item at hand and its successor once the block's header is known.
LEMMA GrammarAt ==
    ASSUME TypeOK, at <= N, NEW j \in 1 .. at, Header(stream, j, at)
    PROVE  /\ Coded(stream, j, item)
           /\ SoundItem(item, stream.text[at], Len(stream.text[at])) => Continues(stream, j, at)
  <1>1. WellFormed(stream) /\ at \in 1 .. N
    BY StateTypes
  <1> QED BY <1>1 DEF WellFormed, Grammatical, item, N

\* The header of the block at hand belongs to what follows in the block.
LEMMA SameBlock ==
    ASSUME TypeOK, at < N, NEW j \in 1 .. at, Header(stream, j, at),
           stream.items[at + 1].op # "block"
    PROVE  j \in 1 .. at + 1 /\ Header(stream, j, at + 1)
  <1>1. at \in Nat
    BY PlaceTypes
  <1>2. \A k \in j + 1 .. at + 1 : k \in j + 1 .. at \/ k = at + 1
    BY <1>1
  <1> QED BY <1>1, <1>2 DEF Header

\* A step from block or symbol to block or symbol, which may add to the output.
LEMMA InnerGoes ==
    ASSUME IInv, UNCHANGED frame, mode_ \in InnerModes, mode_' \in InnerModes,
           check_' = check_, avail_out' \in Nat,
           output' \in Seq(Byte), Len(output) <= Len(output'),
           \A k \in 1 .. Len(output) : output'[k] = output[k],
           pc' \in {"switch", "fast", "done"}, pc' = "fast" => mode_' = "LEN" /\ FastEnough',
           \/ at' = at
           \/ /\ at <= N /\ at' = at + 1
              /\ SoundItem(item, stream.text[at], Len(stream.text[at])),
           Registered', TextInv', ItemInv', StopInv',
           BlockRegisters', SymbolRegisters', BlockBits', SymbolBits'
    PROVE  IInv'
  <1>1. /\ TypeOK /\ mode_ # "BAD" /\ mode_ \notin EndModes /\ mode_ \notin HeadModes
        /\ mode_' \notin {"BAD"} \cup EndModes \cup HeadModes /\ mode_' \in AllModes \ {"BAD"}
    BY DEF IInv, InnerModes, BlockModes, SymbolModes, EndModes, HeadModes, AllModes
  <1>2. RegisterInv'
    BY <1>1 DEF RegisterInv, HeadRegisters, HeadModes
  <1>3. BitInv'
    BY <1>1 DEF BitInv, HeadBits, EndBits, HeadModes, EndModes
  <1>4. SoundInv'
    <2>1. stream' = stream /\ verify' = verify
      BY FrameEffect
    <2>2. /\ SoundHead(stream, capacity) \/ (~verify /\ stream.head.error = "header_crc_mismatch")
          /\ \A i \in 1 .. at - 1 :
                SoundItem(stream.items[i], stream.text[i], Len(stream.text[i]))
      BY <1>1 DEF IInv, SoundInv
    <2>3. \A i \in 1 .. at' - 1 :
                SoundItem(stream.items[i], stream.text[i], Len(stream.text[i]))
      <3>1. CASE at' = at
        BY <2>2, <3>1
      <3>2. CASE /\ at <= N /\ at' = at + 1
                 /\ SoundItem(item, stream.text[at], Len(stream.text[at]))
        <4>1. at \in Nat
          BY <1>1, PlaceTypes
        <4>2. \A i \in 1 .. at' - 1 : i \in 1 .. at - 1 \/ i = at
          BY <3>2, <4>1
        <4> QED BY <2>2, <3>2, <4>2 DEF item
      <3> QED BY <3>1, <3>2
    <2>4. mode_' \notin {"LENGTH", "DONE", "TIME", "OS", "EXLEN", "NAME", "COMMENT", "HCRC"}
      BY <1>1 DEF EndModes, HeadModes
    <2> QED BY <2>1, <2>2, <2>3, <2>4 DEF SoundInv
  <1>5. \/ check_' = total_out \/ wrap_ = "none"
        \/ mode_' \notin BlockModes \cup SymbolModes \cup {"CHECK"}
    BY DEF IInv, CheckCoversOutput, InnerModes
  <1> QED BY <1>1, <1>2, <1>3, <1>4, <1>5, Goes

\* A step from block or symbol to block or symbol that writes no output.
LEMMA InnerMoves ==
    ASSUME IInv, UNCHANGED frame, mode_ \in InnerModes, mode_' \in InnerModes,
           output' = output, avail_out' = avail_out, check_' = check_,
           pc' \in {"switch", "fast", "done"}, pc' = "fast" => mode_' = "LEN" /\ FastEnough',
           \/ at' = at
           \/ /\ at <= N /\ at' = at + 1
              /\ SoundItem(item, stream.text[at], Len(stream.text[at])),
           Registered', TextAt' = TextAt, ItemInv', StopInv',
           BlockRegisters', SymbolRegisters', BlockBits', SymbolBits'
    PROVE  IInv'
  <1>1. TypeOK /\ DataInv /\ TextInv /\ mode_ # "BAD"
    BY DEF IInv, InnerModes, BlockModes, SymbolModes
  <1>2. TextInv'
    BY <1>1, FrameEffect DEF TextInv, TextAt
  <1>3. avail_out' \in Nat /\ output' \in Seq(Byte) /\ Len(output) <= Len(output')
    BY <1>1, StateTypes, LenProperties DEF DataInv
  <1> QED BY <1>2, <1>3, InnerGoes

\* A whole byte ends a block.
LEMMA Aligned ==
    ASSUME n_ \in 0 .. 32, next_in \in Nat, Bit \in Nat
    PROVE  /\ n_ - (n_ % 8) \in 0 .. 32 /\ (n_ - (n_ % 8)) % 8 = 0
           /\ 8 * next_in - (n_ - (n_ % 8)) = NextByte(Bit)
  <1>1. PICK q \in 0 .. 4, r \in 0 .. 7 : n_ = 8 * q + r
    <2>1. n_ \div 8 \in 0 .. 4 /\ n_ % 8 \in 0 .. 7 /\ n_ = 8 * (n_ \div 8) + (n_ % 8)
      OBVIOUS
    <2> QED BY <2>1
  <1>2. n_ % 8 = r
    BY <1>1
  <1>3. (Bit + 7) \div 8 = next_in - q
    BY <1>1 DEF Bit
  <1> QED BY <1>1, <1>2, <1>3 DEF NextByte

\* The mode TYPE keeps the invariant.
LEMMA KeepsTYPE ==
    ASSUME IInv, UNCHANGED frame, TYPE
    PROVE  IInv'
  <1>1. /\ mode_ = "TYPE" /\ pc' = "done" /\ flush \in {"block", "trees"}
        /\ next_in' = next_in /\ n_' = n_ /\ output' = output /\ avail_out' = avail_out
        /\ code' = code /\ place' = place /\ state' = state
    BY DEF TYPE, In, StopsAtBlock, input, result
  <1>2. TypeOK /\ DataInv /\ RangeInv /\ mode_' = mode_ /\ check_' = check_
    BY <1>1 DEF IInv, state
  <1>3. ItemInv' /\ RegisterInv' /\ BitInv' /\ SoundInv' /\ TextAt' = TextAt
    BY <1>1, Stays DEF Bit
  <1>4. StopInv'
    BY <1>1, <1>2, FrameEffect DEF StopInv
  <1>5. Registered'
    BY <1>1, <1>2, StateTypes, FrameEffect DEF Registered, code, place, state, DataInv, RangeInv
  <1>6. check_' = total_out \/ wrap_ = "none"
    BY <1>1, <1>2 DEF IInv, CheckCoversOutput, BlockModes
  <1>7. mode_ \in AllModes \ {"BAD"} /\ mode_ \notin EndModes
    BY <1>1 DEF AllModes, BlockModes, EndModes
  <1> QED BY <1>1, <1>2, <1>3, <1>4, <1>5, <1>6, <1>7, Moves

\* The header of a block leads to its body.
LEMMA BlockOpens ==
    ASSUME TypeOK, at <= N, item.op = "block", item.type # "invalid"
    PROVE  /\ at + 1 <= N /\ at + 1 \in 1 .. N + 1 /\ Header(stream, at, at + 1)
           /\ stream.items[at + 1].op \in Body(item.type)
           /\ SoundItem(item, stream.text[at], Len(stream.text[at]))
           /\ stream.start[at + 1] = stream.start[at] + 3
           /\ stream.text[at + 1] = stream.text[at]
  <1>1. at \in Nat /\ N \in Nat /\ at \in 1 .. at
    BY PlaceTypes
  <1>2. Header(stream, at, at)
    BY <1>1 DEF Header, item
  <1>3. SoundItem(item, stream.text[at], Len(stream.text[at]))
    BY DEF SoundItem
  <1>4. Continues(stream, at, at)
    BY <1>1, <1>2, <1>3, GrammarAt
  <1>5. at < N /\ stream.items[at + 1].op \in Body(item.type)
    BY <1>4 DEF Continues, Follows, item, N
  <1>6. stream.items[at + 1].op # "block"
    BY <1>5 DEF Body, Symbols
  <1>7. Header(stream, at, at + 1)
    BY <1>1, <1>2, <1>5, <1>6, SameBlock
  <1>8. stream.start[at + 1] = stream.start[at] + 3
    BY ItemAt DEF After
  <1>9. stream.text[at + 1] = stream.text[at]
    BY TextLength
  <1> QED BY <1>1, <1>3, <1>5, <1>7, <1>8, <1>9

\* The mode TYPEDO keeps the invariant.
LEMMA KeepsTYPEDO ==
    ASSUME IInv, UNCHANGED frame, TYPEDO
    PROVE  IInv'
  <1>1. TypeOK /\ DataInv /\ RangeInv /\ mode_ \in {"TYPE", "TYPEDO"} /\ Bit = stream.start[at]
    BY DEF IInv, BitInv, BlockBits, TYPEDO, In
  <1>2. /\ n_ \in 0 .. 32 /\ next_in \in Nat /\ in_last \in Nat /\ next_in <= in_last
        /\ N \in Nat /\ N > 0 /\ at \in 1 .. N + 1 /\ sym \in Nat /\ last_ \in BOOLEAN
        /\ check_ \in Nat /\ length_ \in Nat /\ offset_ \in Nat /\ extra_ \in Nat
        /\ have_ \in Nat /\ lenbits_ \in Nat /\ distbits_ \in Nat
    BY <1>1, StateTypes DEF DataInv, RangeInv
  <1>3. IF last_ THEN at = N + 1 ELSE at <= N /\ item.op = "block"
    BY <1>1 DEF IInv, ItemInv
  <1>4. mode_ \in InnerModes /\ mode_ # "BAD" /\ TextAt = Len(stream.text[at]) + 0
    BY <1>1 DEF InnerModes, BlockModes, TextAt, Copied
  <1>5. CASE last_ /\ n_' = n_ - (n_ % 8) /\ Goto("CHECK")
             /\ UNCHANGED <<ec, next_in, result, code, place, last_, check_>>
    <2>1. mode_' = "CHECK" /\ pc' = "switch" /\ at' = N + 1 /\ N' = N
      BY <1>3, <1>5, FrameEffect DEF Goto, place
    <2>2. Bit \in Nat
      BY <1>1, <1>2, <1>3, <1>5, InputSize
    <2>3. n_' \in 0 .. 32 /\ Bit' = NextByte(stream.start[N + 1])
      BY <1>1, <1>2, <1>3, <1>5, <2>2, Aligned DEF Bit
    <2>4. ItemInv'
      BY <2>1 DEF ItemInv, HeadModes, SymbolModes, EndModes, BodyModes, StoredModes, TableModes
    <2>5. RegisterInv'
      BY <2>1 DEF RegisterInv, HeadRegisters, BlockRegisters, SymbolRegisters
    <2>6. BitInv'
      BY <2>1, <2>3, FrameEffect DEF BitInv, HeadBits, BlockBits, SymbolBits, EndBits
    <2>7. SoundInv'
      BY <1>1, <1>5, <2>1, FrameEffect DEF IInv, SoundInv, HeadModes, place
    <2>8. TextAt' = TextAt
      BY <1>4, <1>5, <2>1, FrameEffect DEF TextAt, Copied, place
    <2>9. Registered'
      BY <1>2, <1>5, <2>1, <2>3, FrameEffect DEF Registered, code, place
    <2>10. check_' = total_out \/ wrap_ = "none"
      BY <1>1, <1>5 DEF IInv, CheckCoversOutput, BlockModes
    <2>11. mode_ \notin EndModes /\ mode_' \in AllModes \ {"BAD"}
      BY <1>1, <2>1 DEF EndModes, AllModes
    <2>12. output' = output /\ avail_out' = avail_out /\ StopInv'
      BY <1>5, <2>1 DEF result, StopInv
    <2> QED BY <1>4, <2>1, <2>4, <2>5, <2>6, <2>7, <2>8, <2>9, <2>10, <2>11, <2>12, Moves
  <1>6. CASE OutOfInput(3) /\ Kept
    BY <1>1, <1>6, Starves
  <1>7. CASE /\ ~last_ /\ Take(3, 3) /\ last_' = item.last /\ UNCHANGED <<sym, check_>>
             /\ item.type = "invalid" /\ err("invalid_block_type") /\ UNCHANGED <<at, code>>
    <2>1. n_' \in 0 .. 32 /\ next_in' \in Nat /\ next_in' <= in_last
      BY <1>2, <1>7, TakeEffect
    <2>2. last_' \in BOOLEAN
      BY <1>1, <1>3, <1>7, ItemAt, ItemTypes
    <2>3. code' = code /\ place' = place
      BY <1>7 DEF place
    <2> QED BY <1>2, <1>7, <2>1, <2>2, <2>3, Fails
  <1>8. CASE /\ ~last_ /\ Take(3, 3) /\ last_' = item.last /\ UNCHANGED <<sym, check_>>
             /\ at' = at + 1 /\ UNCHANGED <<result, length_, offset_, extra_, have_>>
             /\ \/ item.type = "stored" /\ Goto("STORED") /\ UNCHANGED code
                \/ /\ item.type = "fixed" /\ GotoUnlessTrees("LEN_")
                   /\ lenbits_' = 9 /\ distbits_' = 5
                \/ item.type = "dynamic" /\ Goto("TABLE") /\ UNCHANGED code
    <2>1. n_' \in 0 .. 32 /\ next_in' \in Nat /\ next_in' <= in_last /\ Bit' = Bit + 3
      <3>1. Take(3, 3)
        BY <1>8, Zenon
      <3> QED BY <1>2, <3>1, TakeEffect DEF Bit
    <2>2. /\ at + 1 <= N /\ Header(stream, at, at + 1)
          /\ stream.items[at + 1].op \in Body(item.type)
          /\ SoundItem(item, stream.text[at], Len(stream.text[at]))
          /\ stream.start[at + 1] = stream.start[at] + 3
          /\ stream.text[at + 1] = stream.text[at]
      BY <1>1, <1>3, <1>8, BlockOpens
    <2>3. /\ stream' = stream /\ N' = N /\ item' = stream.items[at + 1] /\ flush' = flush
          /\ at' = at + 1 /\ at' - 1 = at
      BY <1>2, <1>8, FrameEffect DEF item
    <2>4. lenbits_' \in Nat /\ distbits_' \in Nat /\ last_' \in BOOLEAN
      <3>1. item.last \in BOOLEAN
        BY <1>1, <1>3, <1>8, ItemAt, ItemTypes
      <3> QED BY <1>2, <1>8, <3>1 DEF code
    <2>5. Registered'
      BY <1>2, <1>8, <2>1, <2>2, <2>3, <2>4, FrameEffect DEF Registered
    <2>6. Header(stream', at, at')
      BY <2>2, <2>3
    <2>7. /\ mode_' \in {"STORED", "LEN_", "TABLE"} /\ pc' \in {"switch", "done"}
          /\ mode_' = "STORED" => item.type = "stored" /\ pc' = "switch"
          /\ mode_' = "TABLE" => item.type = "dynamic" /\ pc' = "switch"
          /\ mode_' = "LEN_" => /\ item.type = "fixed" /\ lenbits_' = 9 /\ distbits_' = 5
                                /\ pc' = "done" => flush = "trees"
      BY <1>8 DEF Goto, GotoUnlessTrees
    <2>8. ItemInv'
      <3>1. /\ mode_' = "LEN_" => lenbits_' = LenIndex(stream', at) /\ distbits_' = DistIndex(stream', at)
            /\ stream'.items[at].last = last_' /\ stream'.items[at].op = "block"
        BY <1>3, <1>8, <2>3, <2>7 DEF LenIndex, DistIndex, item
      <3>2. at' <= N'
        BY <2>2, <2>3
      <3>3. /\ mode_' = "STORED" => item'.op = "stored"
            /\ mode_' = "TABLE" => item'.op = "table"
            /\ mode_' = "LEN_" => item'.op \in Symbols
        BY <2>2, <2>3, <2>7 DEF Body
      <3>4. at' > 1 /\ stream'.items[at' - 1].type = item.type
        BY <1>2, <2>3 DEF item
      <3>5. mode_' \notin HeadModes \cup EndModes /\ mode_' \notin {"TYPE", "TYPEDO"}
        BY <2>7 DEF HeadModes, EndModes
      <3>6. \E j \in 1 .. at' : InBlockOf(j)'
        <4>1. PICK h \in 1 .. at' : h = at
          BY <1>2, <2>3
        <4>2. InBlockOf(h)'
          BY <1>2, <2>2, <2>3, <2>6, <2>7, <3>1, <4>1 DEF InBlockOf, SymbolModes
        <4> QED BY <4>1, <4>2
      <3>7. /\ mode_' \in StoredModes => mode_' = "STORED"
            /\ mode_' \in TableModes => mode_' = "TABLE"
            /\ mode_' \in SymbolModes => mode_' = "LEN_"
        BY <2>7 DEF StoredModes, TableModes, SymbolModes
      <3> QED BY <2>3, <2>7, <3>1, <3>2, <3>3, <3>4, <3>5, <3>6, <3>7 DEF ItemInv
    <2>9. StopInv'
      BY <2>3, <2>7 DEF StopInv
    <2>10. BlockRegisters' /\ SymbolRegisters'
      BY <2>7 DEF BlockRegisters, SymbolRegisters
    <2>11. BlockBits' /\ SymbolBits'
      BY <1>1, <2>1, <2>2, <2>3, <2>7 DEF BlockBits, SymbolBits
    <2>12. TextAt' = TextAt
      BY <1>4, <2>2, <2>3, <2>7 DEF TextAt, Copied
    <2>13. mode_' \in InnerModes /\ output' = output /\ avail_out' = avail_out
      BY <1>8, <2>7 DEF InnerModes, BlockModes, SymbolModes, result
    <2> QED BY <1>3, <1>4, <1>8, <2>2, <2>5, <2>7, <2>8, <2>9, <2>10, <2>11, <2>12, <2>13, InnerMoves
  <1> QED BY <1>5, <1>6, <1>7, <1>8 DEF TYPEDO, code

\* The mode goes on with the item it was at.
LEMMA SameItem ==
    ASSUME IInv, UNCHANGED frame, at' = at, last_' = last_,
           \/ mode_ \in StoredModes /\ mode_' \in StoredModes
           \/ mode_ \in TableModes /\ mode_' \in TableModes
           \/ /\ mode_ \in SymbolModes /\ mode_' \in SymbolModes
              /\ lenbits_' = lenbits_ /\ distbits_' = distbits_
    PROVE  /\ ItemInv' /\ item' = item /\ at \in 1 .. N /\ N \in Nat
           /\ \E j \in 1 .. at : InBlockOf(j)
  <1>1. /\ stream' = stream /\ N' = N /\ item' = item /\ at \in 1 .. N + 1 /\ N \in Nat
    BY FrameEffect, StateTypes DEF item, IInv
  <1>2. /\ mode_ \in BodyModes /\ mode_' \in BodyModes
        /\ mode_' \notin HeadModes \cup EndModes /\ mode_' \notin {"TYPE", "TYPEDO"}
        /\ mode_' \in StoredModes => mode_ \in StoredModes
        /\ mode_' \in TableModes => mode_ \in TableModes
        /\ mode_' \in SymbolModes =>
            mode_ \in SymbolModes /\ lenbits_' = lenbits_ /\ distbits_' = distbits_
    BY DEF BodyModes, StoredModes, TableModes, SymbolModes, HeadModes, EndModes
  <1>3. at <= N /\ \E j \in 1 .. at : InBlockOf(j)
    BY <1>2 DEF IInv, ItemInv
  <1>4. PICK j \in 1 .. at : InBlockOf(j)
    BY <1>3
  <1>5. InBlockOf(j)' /\ j \in 1 .. at'
    BY <1>1, <1>2, <1>4 DEF InBlockOf
  <1>6. /\ mode_' \in StoredModes => item.op = "stored"
        /\ mode_' \in TableModes =>
            /\ item.op = "table" /\ at > 1
            /\ stream.items[at - 1].op = "block" /\ stream.items[at - 1].type = "dynamic"
            /\ stream.items[at - 1].last = last_
        /\ mode_' \in SymbolModes => item.op \in Symbols
    BY <1>2 DEF IInv, ItemInv
  <1>7. \E i \in 1 .. at' : InBlockOf(i)'
    BY <1>5
  <1>8. ItemInv'
    BY <1>1, <1>2, <1>3, <1>6, <1>7 DEF ItemInv
  <1> QED BY <1>1, <1>3, <1>8

\* The end of a block: another one follows if it was not the last.
LEMMA BlockCloses ==
    ASSUME IInv, UNCHANGED frame, at <= N, NEW j \in 1 .. at, InBlockOf(j),
           item.op \in {"stored", "eob"}, item.op = "stored" => item.good,
           at' = at + 1, last_' = last_, mode_' = "TYPE"
    PROVE  ItemInv' /\ SoundItem(item, stream.text[at], Len(stream.text[at]))
  <1>1. /\ TypeOK /\ stream' = stream /\ N' = N /\ at \in 1 .. N /\ N \in Nat
        /\ item' = stream.items[at + 1]
    BY FrameEffect, StateTypes DEF item, IInv
  <1>2. SoundItem(item, stream.text[at], Len(stream.text[at]))
    BY DEF SoundItem
  <1>3. Continues(stream, j, at)
    BY <1>1, <1>2, GrammarAt DEF InBlockOf
  <1>4. IF last_ THEN at = N ELSE at < N /\ stream.items[at + 1].op = "block"
    BY <1>3 DEF Continues, Follows, InBlockOf, item, N
  <1>5. ItemInv'
    BY <1>1, <1>4 DEF ItemInv, HeadModes, SymbolModes, EndModes, BodyModes, StoredModes, TableModes
  <1> QED BY <1>2, <1>5

\* The bytes of a stored block in the text.
LEMMA StoredText ==
    ASSUME TypeOK, at <= N, item.op = "stored"
    PROVE  /\ item.bytes \in Seq(Byte) /\ Len(item.bytes) \in Nat
           /\ Len(stream.text[at]) + Len(item.bytes) <= Len(Text(stream))
           /\ \A x \in 1 .. Len(item.bytes) :
                Text(stream)[Len(stream.text[at]) + x] = item.bytes[x]
  <1> DEFINE t == stream.text[at]
             u == stream.text[at + 1]
  <1>1. /\ item \in Item /\ t \in Seq(Byte) /\ u \in Seq(Byte) /\ Extends(u, item, t)
        /\ at + 1 \in 1 .. N + 1 /\ WellFormed(stream) /\ Len(t) \in Nat
    BY ItemAt, StateTypes
  <1>2. Len(u) <= Len(Text(stream)) /\ \A k \in 1 .. Len(u) : Text(stream)[k] = u[k]
    BY <1>1, TextsArePrefixes DEF N
  <1> HIDE DEF t, u
  <1>3. item.bytes \in Seq(Byte) /\ u = t \o item.bytes
    BY <1>1, ItemTypes DEF Extends
  <1>4. Len(item.bytes) \in Nat
    BY <1>3, LenProperties
  <1>5. /\ Len(u) = Len(t) + Len(item.bytes)
        /\ \A k \in 1 .. Len(t) + Len(item.bytes) :
            u[k] = IF k <= Len(t) THEN t[k] ELSE item.bytes[k - Len(t)]
    BY <1>1, <1>3, ConcatProperties
  <1>6. \A x \in 1 .. Len(item.bytes) : u[Len(t) + x] = item.bytes[x]
    BY <1>1, <1>4, <1>5
  <1>7. /\ Len(t) + Len(item.bytes) <= Len(Text(stream))
        /\ \A x \in 1 .. Len(item.bytes) : Text(stream)[Len(t) + x] = item.bytes[x]
    BY <1>1, <1>2, <1>4, <1>5, <1>6
  <1> QED BY <1>3, <1>4, <1>7 DEF t

\* Where the data of a stored block begin.
LEMMA DataBegins ==
    ASSUME TypeOK, at <= N, item.op = "stored"
    PROVE  /\ DataStart \in Nat /\ 8 * DataStart = NextByte(stream.start[at]) + 32
           /\ stream.start[at + 1] = 8 * (DataStart + Len(item.bytes))
           /\ NextByte(NextByte(stream.start[at])) = NextByte(stream.start[at])
           /\ NextByte(stream.start[at]) \in Nat
  <1> DEFINE b == stream.start[at]
             q == (b + 7) \div 8
  <1>1. b \in Nat /\ stream.start[at + 1] = NextByte(b) + 32 + 8 * Len(item.bytes)
    BY ItemAt DEF After
  <1>2. Len(item.bytes) \in Nat
    BY StoredText
  <1>3. NextByte(b) = 8 * q /\ DataStart = NextByte(b) \div 8 + 4
    BY DEF NextByte, DataStart
  <1>4. NextByte(NextByte(b)) = 8 * ((NextByte(b) + 7) \div 8)
    BY DEF NextByte
  <1> HIDE DEF b
  <1>5. q \in Nat
    BY <1>1
  <1> HIDE DEF q
  <1>6. DataStart = q + 4 /\ NextByte(NextByte(b)) = 8 * q
    BY <1>3, <1>4, <1>5
  <1>7. NextByte(b) \in Nat /\ DataStart \in Nat /\ 8 * DataStart = NextByte(b) + 32
    BY <1>3, <1>5, <1>6
  <1>8. stream.start[at + 1] = 8 * (DataStart + Len(item.bytes))
    BY <1>1, <1>2, <1>7
  <1> QED BY <1>3, <1>6, <1>7, <1>8 DEF b

\* The mode STORED keeps the invariant.
LEMMA KeepsSTORED ==
    ASSUME IInv, UNCHANGED frame, STORED
    PROVE  IInv'
  <1> DEFINE n == n_ - (n_ % 8)
             m == Bytes(32, n)
             b == stream.start[at]
  <1>1. /\ TypeOK /\ DataInv /\ RangeInv /\ mode_ = "STORED" /\ Bit \in {b, NextByte(b)}
        /\ item.op = "stored" /\ at <= N
    BY DEF IInv, ItemInv, BodyModes, StoredModes, BitInv, BlockBits, STORED, In
  <1>2. /\ n_ \in 0 .. 32 /\ next_in \in Nat /\ in_last \in Nat /\ next_in <= in_last
        /\ N \in Nat /\ at \in 1 .. N + 1 /\ sym \in Nat /\ last_ \in BOOLEAN
        /\ check_ \in Nat /\ length_ \in Nat /\ offset_ \in Nat /\ extra_ \in Nat
        /\ have_ \in Nat /\ lenbits_ \in Nat /\ distbits_ \in Nat
    BY <1>1, StateTypes DEF DataInv, RangeInv
  <1>3. /\ b \in Nat /\ NextByte(b) \in Nat /\ 8 * DataStart = NextByte(b) + 32
        /\ DataStart \in Nat /\ NextByte(NextByte(b)) = NextByte(b) /\ Len(item.bytes) \in Nat
    BY <1>1, ItemAt, DataBegins, StoredText
  <1>4. n \in 0 .. 32 /\ n % 8 = 0 /\ 8 * next_in - n = NextByte(b)
    <2>1. Bit \in Nat
      BY <1>1, <1>3
    <2> QED BY <1>1, <1>2, <1>3, <2>1, Aligned
  <1> HIDE DEF n, b
  <1>5. m \in Nat /\ 8 * m = 32 - n
    <2>1. CASE n = 32
      BY <2>1 DEF Bytes
    <2>2. CASE n # 32
      BY <1>4, <2>2 DEF Bytes
    <2> QED BY <2>1, <2>2
  <1> HIDE DEF m
  <1>6. mode_ \in InnerModes /\ mode_ \in StoredModes
    BY <1>1 DEF InnerModes, BlockModes, StoredModes
  <1>7. CASE m > avail /\ next_in' = in_last /\ n_' = n + 8 * avail /\ pc' = "done" /\ Kept
    <2>1. n_' \in 0 .. 32 /\ Bit' = NextByte(b)
      BY <1>2, <1>4, <1>5, <1>7 DEF avail, Bit
    <2>2. /\ code' = code /\ place' = place /\ mode_' = mode_ /\ last_' = last_ /\ at' = at
          /\ check_' = check_ /\ output' = output /\ avail_out' = avail_out
      BY <1>7 DEF Kept, place, state, result
    <2>3. ItemInv' /\ item' = item /\ stream' = stream
      BY <1>6, <2>2, SameItem, FrameEffect
    <2>4. BlockRegisters' /\ SymbolRegisters'
      BY <1>1, <2>2 DEF BlockRegisters, SymbolRegisters
    <2>5. BlockBits' /\ SymbolBits'
      BY <1>1, <2>1, <2>2, <2>3 DEF BlockBits, SymbolBits, b
    <2>6. StopInv' /\ TextAt' = TextAt
      BY <1>1, <1>7, <2>2, <2>3, FrameEffect DEF StopInv, TextAt, Copied
    <2>7. Registered'
      BY <1>2, <1>7, <2>1, <2>2, FrameEffect DEF Registered, code, place
    <2> QED BY <1>6, <1>7, <2>2, <2>3, <2>4, <2>5, <2>6, <2>7, InnerMoves
  <1>8. CASE /\ m <= avail /\ next_in' = next_in + m /\ UNCHANGED <<place, last_, check_>>
             /\ item.good /\ length_' = Len(item.bytes) /\ n_' = 0 /\ GotoUnlessTrees("COPY_")
             /\ UNCHANGED <<ec, result, offset_, extra_, have_, lenbits_, distbits_>>
    <2>1. next_in' \in Nat /\ next_in' <= in_last /\ Bit' = 8 * DataStart
      BY <1>2, <1>3, <1>4, <1>5, <1>8 DEF avail, Bit
    <2>2. /\ mode_' = "COPY_" /\ pc' \in {"switch", "done"} /\ (pc' = "done" => flush = "trees")
          /\ at' = at /\ output' = output /\ avail_out' = avail_out
      BY <1>8 DEF GotoUnlessTrees, place, result
    <2>3. mode_' \in StoredModes /\ mode_' \in InnerModes
      BY <2>2 DEF StoredModes, InnerModes, BlockModes
    <2>4. ItemInv' /\ item' = item /\ stream' = stream
      BY <1>6, <1>8, <2>2, <2>3, SameItem, FrameEffect
    <2>5. BlockRegisters' /\ SymbolRegisters'
      BY <1>3, <1>8, <2>2, <2>4 DEF BlockRegisters, SymbolRegisters
    <2>6. BlockBits' /\ SymbolBits'
      <3>1. DataStart' = DataStart
        BY <2>2, <2>4 DEF DataStart
      <3> QED BY <1>3, <1>8, <2>1, <2>2, <2>4, <3>1 DEF BlockBits, SymbolBits
    <2>7. StopInv' /\ TextAt' = TextAt
      BY <1>1, <1>3, <1>8, <2>2, <2>4, FrameEffect DEF StopInv, TextAt, Copied
    <2>8. Registered'
      BY <1>2, <1>3, <1>8, <2>1, <2>2, FrameEffect DEF Registered, place
    <2> QED BY <1>6, <1>8, <2>2, <2>3, <2>4, <2>5, <2>6, <2>7, <2>8, InnerMoves
  <1>9. CASE /\ m <= avail /\ next_in' = next_in + m /\ UNCHANGED <<place, last_, check_>>
             /\ err("invalid_stored_length") /\ n_' = n + 8 * m /\ UNCHANGED code
    <2>1. n_' \in 0 .. 32 /\ next_in' \in Nat /\ next_in' <= in_last
      BY <1>2, <1>4, <1>5, <1>9 DEF avail
    <2> QED BY <1>2, <1>9, <2>1, Fails
  <1> QED BY <1>7, <1>8, <1>9 DEF STORED, n, m

\* A piece of a sequence.
LEMMA Piece ==
    ASSUME NEW w \in Seq(Byte), NEW a \in Nat, NEW n \in Nat, a + n <= Len(w)
    PROVE  /\ SubSeq(w, a + 1, a + n) \in Seq(Byte) /\ Len(SubSeq(w, a + 1, a + n)) = n
           /\ \A x \in 1 .. n : SubSeq(w, a + 1, a + n)[x] = w[a + x]
  <1> DEFINE c == a + 1
             d == a + n
             p == SubSeq(w, c, d)
  <1>1. Len(w) \in Nat /\ c \in Int /\ d \in Int
    BY LenProperties
  <1>2. \A i \in c .. d : w[i] \in Byte
    <2>1. \A i \in c .. d : i \in 1 .. Len(w)
      BY <1>1
    <2> QED BY <2>1, ElementOfSeq
  <1> HIDE DEF c, d
  <1>3. /\ p \in Seq(Byte) /\ Len(p) = IF c <= d THEN d - c + 1 ELSE 0
        /\ \A x \in 1 .. d - c + 1 : p[x] = w[c + x - 1]
    BY <1>1, <1>2, SubSeqProperties
  <1> HIDE DEF p
  <1>4. Len(p) = n /\ \A x \in 1 .. n : p[x] = w[c + x - 1] /\ c + x - 1 = a + x
    BY <1>3 DEF c, d
  <1>5. \A x \in 1 .. n : p[x] = w[a + x]
    BY <1>4
  <1> QED BY <1>3, <1>4, <1>5 DEF p, c, d

\* A beginning of the text with the bytes that come next.
LEMMA Writes ==
    ASSUME NEW t \in Seq(Byte), NEW w \in Seq(Byte), NEW p \in Seq(Byte),
           Len(w) + Len(p) <= Len(t),
           \A k \in 1 .. Len(w) : w[k] = t[k],
           \A x \in 1 .. Len(p) : p[x] = t[Len(w) + x]
    PROVE  /\ w \o p \in Seq(Byte) /\ Len(w \o p) = Len(w) + Len(p)
           /\ Len(w) <= Len(w \o p)
           /\ \A k \in 1 .. Len(w) : (w \o p)[k] = w[k]
           /\ \A k \in 1 .. Len(w \o p) : (w \o p)[k] = t[k]
  <1> DEFINE u == w \o p
  <1>1. Len(w) \in Nat /\ Len(p) \in Nat
    BY LenProperties
  <1>2. /\ u \in Seq(Byte) /\ Len(u) = Len(w) + Len(p)
        /\ \A k \in 1 .. Len(w) + Len(p) : u[k] = IF k <= Len(w) THEN w[k] ELSE p[k - Len(w)]
    BY ConcatProperties
  <1> HIDE DEF u
  <1>3. \A k \in 1 .. Len(w) : u[k] = w[k]
    BY <1>1, <1>2
  <1>4. ASSUME NEW k \in 1 .. Len(u) PROVE u[k] = t[k]
    <2>1. CASE k <= Len(w)
      BY <1>1, <1>2, <1>3, <2>1
    <2>2. CASE ~(k <= Len(w))
      <3>1. k - Len(w) \in 1 .. Len(p) /\ Len(w) + (k - Len(w)) = k
        BY <1>1, <1>2, <2>2
      <3>2. u[k] = p[k - Len(w)]
        BY <1>1, <1>2, <2>2
      <3> QED BY <3>1, <3>2
    <2> QED BY <2>1, <2>2
  <1> QED BY <1>1, <1>2, <1>3, <1>4 DEF u

\* The mode COPY keeps the invariant.
LEMMA KeepsCOPY ==
    ASSUME IInv, UNCHANGED frame, COPY
    PROVE  IInv'
  <1> DEFINE copy == clamp(clamp(length_, avail), avail_out)
             from == next_in - DataStart
             L == Len(item.bytes)
             T == Len(stream.text[at])
  <1>1. /\ TypeOK /\ DataInv /\ RangeInv /\ TextInv /\ mode_ \in {"COPY_", "COPY"}
        /\ item.op = "stored" /\ at <= N /\ item.good /\ length_ <= L /\ n_ = 0
        /\ Bit = 8 * (DataStart + L - length_) /\ \E j \in 1 .. at : InBlockOf(j)
    BY DEF IInv, ItemInv, BodyModes, StoredModes, RegisterInv, BlockRegisters, BitInv, BlockBits,
           COPY, In
  <1>2. /\ next_in \in Nat /\ in_last \in Nat /\ next_in <= in_last /\ avail_out \in Nat
        /\ N \in Nat /\ at \in 1 .. N /\ sym \in Nat /\ last_ \in BOOLEAN
        /\ check_ \in Nat /\ length_ \in Nat /\ offset_ \in Nat /\ extra_ \in Nat
        /\ have_ \in Nat /\ lenbits_ \in Nat /\ distbits_ \in Nat
    BY <1>1, StateTypes DEF DataInv, RangeInv
  <1>3. /\ DataStart \in Nat /\ stream.start[at + 1] = 8 * (DataStart + L)
        /\ item.bytes \in Seq(Byte) /\ L \in Nat
        /\ Len(stream.text[at]) + L <= Len(Text(stream))
        /\ \A x \in 1 .. L : Text(stream)[Len(stream.text[at]) + x] = item.bytes[x]
        /\ Len(stream.text[at + 1]) = Len(stream.text[at]) + L /\ Len(stream.text[at]) \in Nat
    BY <1>1, DataBegins, StoredText, TextLength, ItemAt
  <1> HIDE DEF L, T
  <1>4. from = L - length_ /\ 8 * next_in = Bit /\ from \in Nat
    <2>1. length_ <= L /\ Bit = 8 * (DataStart + L - length_) /\ Bit = 8 * next_in - n_ /\ n_ = 0
      BY <1>1, <1>3 DEF L, Bit
    <2>2. PICK a \in Nat : a = next_in
      BY <1>2
    <2>3. PICK s \in Nat : s = DataStart
      BY <1>3
    <2>4. PICK m \in Nat : m = L
      BY <1>3
    <2>5. PICK k \in Nat : k = length_
      BY <1>2
    <2>6. k <= m /\ 8 * a - 0 = 8 * (s + m - k) /\ from = a - s /\ L - length_ = m - k
      BY <2>1, <2>2, <2>3, <2>4, <2>5
    <2>7. a - s = m - k /\ m - k \in Nat
      BY ONLY <2>6, a \in Nat, s \in Nat, m \in Nat, k \in Nat
    <2>8. 8 * next_in = Bit
      BY <1>2, <2>1
    <2> QED BY <2>6, <2>7, <2>8
  <1> HIDE DEF from
  <1>5. /\ output \in Seq(Byte) /\ Len(output) \in Nat
        /\ T \in Nat /\ Len(output) = T + from /\ length_ <= L
        /\ \A k \in 1 .. Len(output) : output[k] = Text(stream)[k]
    <2>1. output \in Seq(Byte) /\ Len(output) = T + Copied /\ Copied = L - length_
      BY <1>1 DEF DataInv, TextInv, Copied, L, T
    <2>2. \A k \in 1 .. Len(output) : output[k] = Text(stream)[k]
      BY <1>1 DEF TextInv
    <2>3. T \in Nat /\ length_ <= L
      BY <1>1, <1>3 DEF T, L
    <2> QED BY <1>4, <2>1, <2>2, <2>3, LenProperties
  <1>6. mode_ \in InnerModes /\ mode_ \in StoredModes /\ mode_ \notin SymbolModes
    BY <1>1 DEF InnerModes, BlockModes, StoredModes, SymbolModes
  <1>7. stream' = stream /\ N' = N /\ in_last' = in_last
    BY FrameEffect
  <1>8. CASE /\ length_ = 0 /\ Goto("TYPE") /\ at' = at + 1 /\ UNCHANGED <<input, result, length_>>
             /\ UNCHANGED <<ec, sym, offset_, extra_, have_, lenbits_, distbits_, last_, check_>>
    <2>1. /\ mode_' = "TYPE" /\ pc' = "switch" /\ Bit' = Bit /\ n_' = n_ /\ next_in' = next_in
          /\ output' = output /\ avail_out' = avail_out
      BY <1>8 DEF Goto, Bit, input, result
    <2>2. PICK j \in 1 .. at : InBlockOf(j)
      BY <1>1
    <2>3. ItemInv' /\ SoundItem(item, stream.text[at], Len(stream.text[at]))
      BY <1>1, <1>2, <1>8, <2>1, <2>2, BlockCloses
    <2>4. BlockRegisters' /\ SymbolRegisters' /\ StopInv'
      BY <2>1 DEF BlockRegisters, SymbolRegisters, StopInv
    <2>5. BlockBits' /\ SymbolBits'
      BY <1>1, <1>2, <1>3, <1>7, <1>8, <2>1 DEF BlockBits, SymbolBits, L
    <2>6. TextAt' = TextAt
      <3>1. TextAt = T + L /\ TextAt' = Len(stream.text[at + 1]) + 0
        BY <1>1, <1>5, <1>7, <1>8, <2>1 DEF TextAt, Copied, L, T
      <3>2. Len(stream.text[at + 1]) = T + L /\ T \in Nat /\ L \in Nat
        BY <1>3 DEF T, L
      <3> QED BY <3>1, <3>2
    <2>7. Registered' /\ mode_' \in InnerModes
      BY <1>1, <1>2, <1>7, <1>8, <2>1 DEF Registered, InnerModes, BlockModes
    <2> QED BY <1>1, <1>6, <1>8, <2>1, <2>3, <2>4, <2>5, <2>6, <2>7, InnerMoves
  <1>9. CASE /\ length_ > 0 /\ copy = 0 /\ mode_' = "COPY" /\ pc' = "done"
             /\ UNCHANGED <<input, result, length_, at>>
             /\ UNCHANGED <<ec, sym, offset_, extra_, have_, lenbits_, distbits_, last_, check_>>
    <2>1. /\ Bit' = Bit /\ n_' = n_ /\ next_in' = next_in /\ output' = output
          /\ avail_out' = avail_out
      BY <1>9 DEF Bit, input, result
    <2>2. mode_' \in StoredModes /\ mode_' \in InnerModes
      BY <1>9 DEF StoredModes, InnerModes, BlockModes
    <2>3. ItemInv' /\ item' = item
      BY <1>6, <1>9, <2>2, SameItem
    <2>4. next_in = in_last \/ avail_out = 0
      BY <1>2, <1>9 DEF clamp, avail
    <2>5. BlockRegisters' /\ SymbolRegisters' /\ StopInv'
      BY <1>1, <1>7, <1>9, <2>1, <2>3, <2>4 DEF BlockRegisters, SymbolRegisters, StopInv, L
    <2>6. BlockBits' /\ SymbolBits'
      <3>1. DataStart' = DataStart
        BY <1>7, <1>9 DEF DataStart
      <3> QED BY <1>1, <1>9, <2>1, <2>3, <3>1 DEF BlockBits, SymbolBits, L
    <2>7. TextAt' = TextAt
      BY <1>1, <1>7, <1>9, <2>3 DEF TextAt, Copied
    <2>8. Registered'
      BY <1>1, <1>2, <1>7, <1>9, <2>1 DEF Registered
    <2> QED BY <1>6, <1>9, <2>1, <2>2, <2>3, <2>5, <2>6, <2>7, <2>8, InnerMoves
  <1>10. CASE /\ copy > 0 /\ Goto("COPY")
              /\ output' = output \o SubSeq(item.bytes, from + 1, from + copy)
              /\ next_in' = next_in + copy /\ avail_out' = avail_out - copy
              /\ length_' = length_ - copy /\ UNCHANGED <<n_, at>>
              /\ UNCHANGED <<ec, sym, offset_, extra_, have_, lenbits_, distbits_, last_, check_>>
    <2>1. copy \in Nat /\ copy <= length_ /\ copy <= in_last - next_in /\ copy <= avail_out
      BY <1>2 DEF clamp, avail
    <2> HIDE DEF copy
    <2>2. /\ mode_' = "COPY" /\ pc' = "switch" /\ length_' \in Nat /\ avail_out' \in Nat
          /\ next_in' \in Nat /\ next_in' <= in_last /\ Bit' = Bit + 8 * copy
          /\ length_' = length_ - copy /\ n_' = 0 /\ at' = at
      BY <1>1, <1>2, <1>10, <2>1 DEF Goto, Bit
    <2>3. mode_' \in StoredModes /\ mode_' \in InnerModes
      BY <2>2 DEF StoredModes, InnerModes, BlockModes
    <2>4. ItemInv' /\ item' = item
      BY <1>6, <1>10, <2>3, SameItem
    <2>5. L \in Nat /\ length_' <= L /\ from + copy <= L /\ L - length_' = from + copy
      <3>1. L \in Nat
        BY <1>3 DEF L
      <3>2. from = L - length_ /\ length_ <= L /\ length_ \in Nat /\ from \in Nat
        BY <1>2, <1>4, <1>5
      <3>3. length_' = length_ - copy /\ copy \in Nat /\ copy <= length_
        BY <2>1, <2>2
      <3> QED BY <3>1, <3>2, <3>3
    <2>6. BlockRegisters' /\ SymbolRegisters' /\ StopInv'
      BY <1>1, <2>2, <2>4, <2>5 DEF BlockRegisters, SymbolRegisters, StopInv, L
    <2>7. BlockBits' /\ SymbolBits'
      <3>1. DataStart' = DataStart
        BY <1>7, <2>2 DEF DataStart
      <3>2. Bit = 8 * (DataStart + L - length_)
        BY <1>1 DEF L
      <3>3. Bit' = 8 * (DataStart + L - length_')
        BY <1>2, <1>3, <2>1, <2>2, <2>5, <3>2
      <3> QED BY <2>2, <2>4, <3>1, <3>3 DEF BlockBits, SymbolBits, L
    <2> DEFINE p == SubSeq(item.bytes, from + 1, from + copy)
    <2>8. /\ p \in Seq(Byte) /\ Len(p) = copy
          /\ \A x \in 1 .. copy : p[x] = item.bytes[from + x]
      <3>1. item.bytes \in Seq(Byte) /\ from + copy <= Len(item.bytes)
        BY <1>3, <2>5 DEF L
      <3> QED BY <1>4, <2>1, <3>1, Piece
    <2> HIDE DEF p
    <2>9. Text(stream) \in Seq(Byte) /\ Len(output) + Len(p) <= Len(Text(stream))
      <3>1. T + L <= Len(Text(stream))
        BY <1>3 DEF T, L
      <3>2. Text(stream) \in Seq(Byte) /\ Len(Text(stream)) \in Nat
        BY <1>1, StateTypes, StreamTypes
      <3>3. Len(output) = T + from /\ T \in Nat /\ from \in Nat
        BY <1>4, <1>5
      <3>4. Len(p) = copy /\ copy \in Nat /\ from + copy <= L /\ L \in Nat
        BY <2>1, <2>5, <2>8
      <3>5. Len(output) + Len(p) = T + (from + copy)
        BY <3>3, <3>4
      <3>6. T + (from + copy) <= T + L
        BY <3>3, <3>4
      <3> QED BY <3>1, <3>2, <3>3, <3>4, <3>5, <3>6
    <2>10. \A x \in 1 .. Len(p) : p[x] = Text(stream)[Len(output) + x]
      <3>1. SUFFICES ASSUME NEW x \in 1 .. copy
                     PROVE  p[x] = Text(stream)[Len(output) + x]
        BY <2>8
      <3>2. from + x \in 1 .. L /\ Len(output) + x = T + (from + x)
        BY <1>4, <1>5, <2>1, <2>5
      <3>3. Text(stream)[T + (from + x)] = item.bytes[from + x]
        BY <1>3, <3>2 DEF T, L
      <3> QED BY <2>8, <3>2, <3>3
    <2>11. /\ output' = output \o p /\ output' \in Seq(Byte) /\ Len(output') = Len(output) + copy
           /\ Len(output) <= Len(output') /\ \A k \in 1 .. Len(output) : output'[k] = output[k]
           /\ \A k \in 1 .. Len(output') : output'[k] = Text(stream)[k]
      <3>1. output' = output \o p
        BY <1>10 DEF p
      <3>2. output \in Seq(Byte) /\ \A k \in 1 .. Len(output) : output[k] = Text(stream)[k]
        BY <1>5
      <3>3. /\ output \o p \in Seq(Byte) /\ Len(output \o p) = Len(output) + Len(p)
            /\ Len(output) <= Len(output \o p)
            /\ \A k \in 1 .. Len(output) : (output \o p)[k] = output[k]
            /\ \A k \in 1 .. Len(output \o p) : (output \o p)[k] = Text(stream)[k]
        BY <2>8, <2>9, <2>10, <3>2, Writes
      <3> QED BY <2>8, <3>1, <3>3
    <2>12. TextInv'
      <3>1. Copied' = L - length_' /\ Len(stream'.text[at']) = T
        BY <1>7, <2>2, <2>4 DEF Copied, L, T
      <3>2. Len(output') = T + (L - length_') /\ Len(output') <= Len(Text(stream))
        BY <1>4, <1>5, <2>1, <2>5, <2>8, <2>9, <2>11
      <3> QED BY <1>7, <2>11, <3>1, <3>2 DEF TextInv
    <2>13. Registered'
      BY <1>1, <1>2, <1>7, <1>10, <2>2 DEF Registered
    <2> QED BY <1>6, <1>10, <2>2, <2>3, <2>4, <2>6, <2>7, <2>11, <2>12, <2>13, InnerGoes
  <1> QED BY <1>8, <1>9, <1>10 DEF COPY, from

\* The mode TABLE keeps the invariant.
LEMMA KeepsTABLE ==
    ASSUME IInv, UNCHANGED frame, TABLE
    PROVE  IInv'
  <1>1. /\ TypeOK /\ DataInv /\ RangeInv /\ mode_ = "TABLE" /\ Bit = stream.start[at]
        /\ item.op = "table" /\ at <= N
    BY DEF IInv, ItemInv, BodyModes, TableModes, BitInv, BlockBits, TABLE, In
  <1>2. /\ n_ \in 0 .. 32 /\ next_in \in Nat /\ in_last \in Nat /\ next_in <= in_last
        /\ N \in Nat /\ at \in 1 .. N + 1 /\ sym \in Nat /\ last_ \in BOOLEAN
        /\ check_ \in Nat /\ length_ \in Nat /\ offset_ \in Nat /\ extra_ \in Nat
        /\ have_ \in Nat /\ lenbits_ \in Nat /\ distbits_ \in Nat /\ stream.start[at] \in Nat
    BY <1>1, StateTypes, ItemAt DEF DataInv, RangeInv
  <1>3. CASE OutOfInput(14) /\ Kept
    BY <1>1, <1>3, Starves
  <1>4. CASE /\ Take(14, 14) /\ item.error # "counts" /\ have_' = 0 /\ Goto("LENLENS")
             /\ UNCHANGED <<ec, result>>
             /\ UNCHANGED <<length_, offset_, extra_, lenbits_, distbits_, place, last_, check_>>
    <2>1. n_' \in 0 .. 32 /\ next_in' \in Nat /\ next_in' <= in_last /\ Bit' = Bit + 14
      <3>1. Take(14, 14)
        BY <1>4, Zenon
      <3>2. n_ \in 0 .. 32 /\ next_in \in Nat /\ in_last \in Nat /\ next_in <= in_last
        BY <1>2, Zenon
      <3> QED BY <3>1, <3>2, TakeEffect DEF Bit
    <2>2. /\ mode_' = "LENLENS" /\ pc' = "switch" /\ at' = at /\ sym' = sym
          /\ output' = output /\ avail_out' = avail_out
      BY <1>4 DEF Goto, place, result
    <2>3. /\ mode_ \in TableModes /\ mode_' \in TableModes
          /\ mode_ \in InnerModes /\ mode_' \in InnerModes
      BY <1>1, <2>2 DEF TableModes, InnerModes, BlockModes
    <2>4. ItemInv' /\ item' = item /\ stream' = stream
      BY <1>4, <2>2, <2>3, SameItem, FrameEffect
    <2>5. BlockRegisters' /\ SymbolRegisters' /\ StopInv'
      <3>1. item \in Item
        BY <1>1, ItemAt
      <3>2. item.ncode \in Nat /\ item.ncode >= 0
        <4>1. item.ncode \in 4 .. 19
          BY <1>1, <3>1, TableTypes
        <4> QED BY ONLY <4>1
      <3> QED BY <1>4, <2>2, <2>4, <3>2 DEF BlockRegisters, SymbolRegisters, StopInv
    <2>6. BlockBits' /\ SymbolBits'
      BY <1>1, <1>2, <1>4, <2>1, <2>2, <2>4 DEF BlockBits, SymbolBits
    <2>7. TextAt' = TextAt
      BY <1>1, <2>2, <2>4 DEF TextAt, Copied
    <2>8. Registered'
      BY <1>2, <1>4, <2>1, <2>2, FrameEffect DEF Registered
    <2> QED BY <1>4, <2>2, <2>3, <2>4, <2>5, <2>6, <2>7, <2>8, InnerMoves
  <1>5. CASE /\ Take(14, 14) /\ err("too_many_symbols") /\ UNCHANGED have_
             /\ UNCHANGED <<length_, offset_, extra_, lenbits_, distbits_, place, last_, check_>>
    <2>1. n_' \in 0 .. 32 /\ next_in' \in Nat /\ next_in' <= in_last
      <3>1. Take(14, 14)
        BY <1>5, Zenon
      <3> QED BY <1>2, <3>1, TakeEffect
    <2> QED BY <1>2, <1>5, <2>1, Fails DEF code
  <1> QED BY <1>3, <1>4, <1>5 DEF TABLE

\* An error that leads to the mode BAD, and not out of the call.
LEMMA Spoils ==
    ASSUME IInv, UNCHANGED frame, Goto("BAD"),
           UNCHANGED <<input, result, code, place, last_, check_>>
    PROVE  IInv'
  <1>1. TypeOK /\ DataInv /\ RangeInv
    BY DEF IInv
  <1>2. /\ mode_' = "BAD" /\ pc' = "switch" /\ avail_out' = avail_out /\ output' = output
        /\ next_in' = next_in /\ n_' = n_ /\ last_' = last_ /\ check_' = check_
        /\ at' = at /\ sym' = sym /\ length_' = length_ /\ offset_' = offset_ /\ extra_' = extra_
        /\ have_' = have_ /\ lenbits_' = lenbits_ /\ distbits_' = distbits_
    BY DEF Goto, input, result, code, place
  <1>3. TypeOK'
    BY <1>1, <1>2, FrameEffect DEF TypeOK
  <1>4. DataInv' /\ RangeInv'
    BY <1>1, <1>2, FrameEffect DEF DataInv, RangeInv
  <1>5. ItemInv' /\ RegisterInv'
    BY <1>2 DEF ItemInv, RegisterInv, HeadRegisters, BlockRegisters, SymbolRegisters,
       HeadModes, SymbolModes, EndModes, BodyModes, StoredModes, TableModes
  <1>6. BitInv'
    BY <1>2 DEF BitInv, HeadBits, BlockBits, SymbolBits, EndBits
  <1>7. TextInv' /\ StopInv' /\ StopsWhenStuck' /\ SoundInv'
    BY <1>2 DEF TextInv, StopInv, StopsWhenStuck, SoundInv
  <1>8. WindowFollowsOutput' /\ CheckCoversOutput'
    BY <1>2 DEF WindowFollowsOutput, CheckCoversOutput, BlockModes, SymbolModes
  <1> QED BY <1>3, <1>4, <1>5, <1>6, <1>7, <1>8 DEF IInv

\* The mode LENLENS keeps the invariant.
LEMMA KeepsLENLENS ==
    ASSUME IInv, UNCHANGED frame, LENLENS
    PROVE  IInv'
  <1>1. /\ TypeOK /\ DataInv /\ RangeInv /\ mode_ = "LENLENS" /\ pc = "switch"
        /\ Bit = stream.start[at] + 14 + 3 * have_
        /\ item.op = "table" /\ at <= N /\ item.error # "counts" /\ have_ <= item.ncode
    BY DEF IInv, ItemInv, BodyModes, TableModes, BitInv, BlockBits, RegisterInv, BlockRegisters,
           LENLENS, In
  <1>2. /\ n_ \in 0 .. 32 /\ next_in \in Nat /\ in_last \in Nat /\ next_in <= in_last
        /\ N \in Nat /\ at \in 1 .. N + 1 /\ sym \in Nat /\ last_ \in BOOLEAN
        /\ check_ \in Nat /\ length_ \in Nat /\ offset_ \in Nat /\ extra_ \in Nat
        /\ have_ \in Nat /\ lenbits_ \in Nat /\ distbits_ \in Nat
    BY <1>1, StateTypes DEF DataInv, RangeInv
  <1>3. item \in Item /\ SymbolsInOrder(item) /\ stream.start[at] \in Nat
    BY <1>1, ItemAt
  <1>4. item.ncode \in Nat /\ item.clbits \in Nat /\ item.total \in Nat /\ Len(item.symbols) \in Nat
    <2>1. /\ item.ncode \in 4 .. 19 /\ item.clbits \in 1 .. 7
          /\ item.total \in Nat /\ Len(item.symbols) \in Nat
      BY <1>1, <1>3, TableTypes
    <2> QED BY ONLY <2>1
  <1>5. mode_ \in TableModes /\ mode_ \in InnerModes
    BY <1>1 DEF TableModes, InnerModes, BlockModes
  <1>6. CASE OutOfInput(3) /\ Kept
    BY <1>1, <1>6, Starves
  <1>7. CASE /\ have_ < item.ncode /\ Take(3, 3) /\ have_' = have_ + 1
             /\ UNCHANGED <<pc, ec, result, length_, offset_, extra_, lenbits_, distbits_, place, state>>
    <2>1. n_' \in 0 .. 32 /\ next_in' \in Nat /\ next_in' <= in_last /\ Bit' = Bit + 3
      <3>1. Take(3, 3)
        BY <1>7, Zenon
      <3> QED BY <1>2, <3>1, TakeEffect DEF Bit
    <2>2. /\ mode_' = "LENLENS" /\ pc' = "switch" /\ at' = at /\ sym' = sym /\ last_' = last_
          /\ check_' = check_ /\ output' = output /\ avail_out' = avail_out
      BY <1>1, <1>7 DEF place, result, state
    <2>3. ItemInv' /\ item' = item /\ stream' = stream
      BY <1>5, <2>2, SameItem, FrameEffect DEF TableModes
    <2>4. BlockRegisters' /\ SymbolRegisters' /\ StopInv'
      <3>1. have_' <= item.ncode
        BY <1>2, <1>4, <1>7
      <3> QED BY <1>1, <2>2, <2>3, <3>1 DEF BlockRegisters, SymbolRegisters, StopInv
    <2>5. BlockBits' /\ SymbolBits'
      <3>1. Bit' = stream.start[at] + 14 + 3 * have_'
        BY <1>1, <1>2, <1>3, <1>7, <2>1
      <3> QED BY <2>2, <2>3, <3>1 DEF BlockBits, SymbolBits
    <2>6. TextAt' = TextAt
      BY <1>1, <2>2, <2>3 DEF TextAt, Copied
    <2>7. Registered'
      BY <1>2, <1>7, <2>1, <2>2, FrameEffect DEF Registered
    <2>8. mode_' \in InnerModes
      BY <1>1, <1>5, <2>2
    <2> QED BY <1>5, <2>2, <2>3, <2>4, <2>5, <2>6, <2>7, <2>8, InnerMoves
  <1>8. CASE /\ have_ = item.ncode /\ item.error # "codes"
             /\ lenbits_' = item.clbits /\ have_' = 0 /\ sym' = 0 /\ Goto("CODELENS")
             /\ UNCHANGED <<ec, input, result, length_, offset_, extra_, distbits_, at, last_, check_>>
    <2>1. /\ mode_' = "CODELENS" /\ pc' = "switch" /\ Bit' = Bit /\ n_' = n_ /\ next_in' = next_in
          /\ output' = output /\ avail_out' = avail_out
      BY <1>8 DEF Goto, input, result, Bit
    <2>2. mode_' \in TableModes /\ mode_' \in InnerModes
      BY <2>1 DEF TableModes, InnerModes, BlockModes
    <2>3. ItemInv' /\ item' = item /\ stream' = stream
      BY <1>5, <1>8, <2>2, SameItem, FrameEffect
    <2>4. item.counts[1] = 0 /\ item.offsets[1] = 0
      BY <1>3 DEF SymbolsInOrder
    <2>5. BlockRegisters' /\ SymbolRegisters' /\ StopInv'
      <3>1. sym' + 1 = 1 /\ 0 <= Len(item.symbols) /\ 0 <= item.total /\ ~(sym' > 0)
        BY <1>4, <1>8
      <3>2. have_' = item.counts[sym' + 1] /\ have_' <= item.total /\ sym' <= Len(item.symbols)
        BY <1>8, <2>4, <3>1
      <3> QED BY <1>1, <1>8, <2>1, <2>3, <3>1, <3>2 DEF BlockRegisters, SymbolRegisters, StopInv
    <2>6. BlockBits' /\ SymbolBits'
      <3>1. sym' + 1 = 1
        BY <1>8
      <3>2. Bit' = stream.start[at] + 14 + 3 * item.ncode + item.offsets[sym' + 1]
        BY <1>1, <1>3, <1>4, <1>8, <2>1, <2>4, <3>1
      <3> QED BY <1>8, <2>1, <2>3, <3>2 DEF BlockBits, SymbolBits
    <2>7. TextAt' = TextAt
      BY <1>1, <1>8, <2>1, <2>3 DEF TextAt, Copied
    <2>8. Registered'
      BY <1>2, <1>4, <1>8, <2>1, FrameEffect DEF Registered
    <2> QED BY <1>5, <1>8, <2>1, <2>2, <2>3, <2>5, <2>6, <2>7, <2>8, InnerMoves
  <1>9. CASE Goto("BAD") /\ UNCHANGED <<input, result, code, place, last_, check_>>
    BY <1>9, Spoils
  <1> QED BY <1>6, <1>7, <1>8, <1>9 DEF LENLENS

\* The symbols of a table that are left to read, and the end of them.
LEMMA TableAt ==
    ASSUME IInv, mode_ = "CODELENS"
    PROVE  LET e == item
           IN  /\ item \in Item /\ item.op = "table" /\ at \in 1 .. N
               /\ SymbolsInOrder(item) /\ Consistent(item)
               /\ lenbits_ \in 1 .. 7 /\ have_ \in Nat /\ item.total \in Nat /\ item.total > 0
               /\ sym \in 0 .. Len(item.symbols) /\ Len(item.symbols) \in Nat
               /\ have_ = item.counts[sym + 1] /\ have_ <= item.total
               /\ item.offsets[sym + 1] \in Nat
               /\ have_ < item.total =>
                    /\ sym + 1 \in 1 .. Len(item.symbols)
                    /\ item.symbols[sym + 1] \in RunSymbol
                    /\ item.offsets[sym + 2] = item.offsets[sym + 1] + item.symbols[sym + 1].bits
                                                + RepeatBits(item.symbols[sym + 1].val)
                    /\ item.counts[sym + 2] = have_ + item.symbols[sym + 1].run
               /\ have_ = item.total => sym = Len(item.symbols) /\ sym > 0
  <1> DEFINE M == Len(item.symbols)
             S == item.symbols
             O == item.offsets
             C == item.counts
             q == sym + 1
  <1>1. /\ TypeOK /\ item.op = "table" /\ at <= N /\ item.error \notin {"counts", "codes"}
        /\ lenbits_ = item.clbits /\ sym <= M /\ have_ = C[q] /\ have_ <= item.total
    BY DEF IInv, ItemInv, BodyModes, TableModes, RegisterInv, BlockRegisters
  <1>2. item \in Item /\ SymbolsInOrder(item) /\ Consistent(item) /\ at \in 1 .. N
    BY <1>1, ItemAt
  <1>3. /\ item.clbits \in 1 .. 7 /\ item.total \in Nat /\ M \in Nat /\ sym \in Nat /\ have_ \in Nat
        /\ S \in Seq(RunSymbol) /\ O \in Seq(Nat)
    BY <1>1, <1>2, TableTypes, StateTypes
  <1>4. /\ Len(O) = M + 1 /\ item.total > 0 /\ C[M + 1] >= item.total
        /\ \A j \in 1 .. M : C[j] < item.total
    BY <1>1, <1>2 DEF Consistent
  <1>5. /\ C[1] = 0
        /\ \A j \in 1 .. M : /\ O[j + 1] = O[j] + S[j].bits + RepeatBits(S[j].val)
                             /\ C[j + 1] = C[j] + S[j].run
    BY <1>2 DEF SymbolsInOrder
  <1> HIDE DEF M, S, O, C
  <1>6. q \in 1 .. M + 1 /\ q + 1 = sym + 2
    BY <1>1, <1>3
  <1>7. O[q] \in Nat
    BY <1>3, <1>4, <1>6, ElementOfSeq
  <1> HIDE DEF q
  <1>8. ASSUME have_ < item.total
        PROVE  /\ q \in 1 .. M /\ S[q] \in RunSymbol
               /\ O[q + 1] = O[q] + S[q].bits + RepeatBits(S[q].val)
               /\ C[q + 1] = have_ + S[q].run
    <2>1. q # M + 1
      BY <1>1, <1>3, <1>4, <1>8
    <2>2. q \in 1 .. M
      BY <1>3, <1>6, <2>1
    <2>3. S[q] \in RunSymbol
      BY <1>3, <2>2, ElementOfSeq DEF M, S
    <2> QED BY <1>1, <1>5, <2>2, <2>3
  <1>9. ASSUME have_ = item.total
        PROVE  sym = M /\ sym > 0
    <2>1. ~(q \in 1 .. M)
      <3>1. SUFFICES ASSUME q \in 1 .. M PROVE FALSE
        OBVIOUS
      <3>2. C[q] < item.total
        BY <1>4, <3>1
      <3> QED BY <1>1, <1>3, <1>9, <3>2
    <2>2. q = M + 1
      BY <1>3, <1>6, <2>1
    <2>3. q # 1
      <3>1. C[q] > 0 /\ C[1] = 0
        BY <1>1, <1>3, <1>4, <1>5, <1>9
      <3> QED BY <3>1
    <2> QED BY <1>3, <2>2, <2>3 DEF q
  <1> QED BY <1>1, <1>2, <1>3, <1>4, <1>6, <1>7, <1>8, <1>9 DEF M, S, O, C, q

\* The symbols of a block begin after its table.
LEMMA TableCloses ==
    ASSUME IInv, UNCHANGED frame, mode_ = "CODELENS", have_ = item.total, item.error = "ok",
           lenbits_' = item.lenbits, distbits_' = item.distbits, at' = at + 1, last_' = last_,
           mode_' = "LEN_"
    PROVE  /\ ItemInv' /\ SoundItem(item, stream.text[at], Len(stream.text[at]))
           /\ stream.start[at + 1] = Bit /\ stream.text[at + 1] = stream.text[at]
  <1> DEFINE h == at - 1
  <1>1. /\ TypeOK /\ item.op = "table" /\ at <= N /\ at > 1 /\ stream.items[h].op = "block"
        /\ stream.items[h].type = "dynamic" /\ stream.items[h].last = last_
        /\ \E j \in 1 .. at : InBlockOf(j)
        /\ Bit = stream.start[at] + 14 + 3 * item.ncode + item.offsets[sym + 1]
    BY DEF IInv, ItemInv, BodyModes, TableModes, BitInv, BlockBits
  <1>2. at \in 1 .. N /\ N \in Nat
    BY <1>1, StateTypes
  <1>3. h \in 1 .. at /\ h + 1 = at
    BY <1>1, <1>2
  <1> HIDE DEF h
  <1>4. /\ sym = Len(item.symbols) /\ sym > 0 /\ sym \in Nat /\ have_ = item.counts[sym + 1]
        /\ lenbits_ \in 1 .. 7
    BY TableAt
  <1>5. SoundItem(item, stream.text[at], Len(stream.text[at]))
    <2>1. item.symbols[1].val # 16
      BY <1>4 DEF IInv, RegisterInv, BlockRegisters
    <2> QED BY <1>1, <1>4, <2>1 DEF SoundItem
  <1>6. Header(stream, h, at)
    <2>1. PICK j \in 1 .. at : Header(stream, j, at)
      BY <1>1 DEF InBlockOf
    <2>2. h \in j + 1 .. at => FALSE
      BY <1>1, <2>1 DEF Header
    <2>3. stream.items[at].op # "block" /\ stream.items[j].op = "block"
      BY <1>1, <2>1 DEF item, Header
    <2>4. j # at
      BY <2>3
    <2>5. j = h
      BY <1>2, <1>3, <2>2, <2>4
    <2> QED BY <2>1, <2>5
  <1>7. Continues(stream, h, at)
    BY <1>1, <1>3, <1>5, <1>6, GrammarAt
  <1>8. at < N /\ stream.items[at + 1].op \in Symbols
    BY <1>1, <1>7 DEF Continues, Follows, item, N
  <1>9. h \in 1 .. at + 1 /\ Header(stream, h, at + 1)
    BY <1>1, <1>3, <1>6, <1>8, SameBlock DEF Symbols
  <1>10. stream' = stream /\ N' = N /\ item' = stream.items[at + 1]
    BY FrameEffect DEF item
  <1>11. ItemInv'
    <2>1. LenIndex(stream, h) = item.lenbits /\ DistIndex(stream, h) = item.distbits
      BY <1>1, <1>3 DEF LenIndex, DistIndex, item
    <2>2. \E j \in 1 .. at' : InBlockOf(j)'
      <3>1. PICK i \in 1 .. at + 1 : i = h
        BY <1>9
      <3>2. InBlockOf(i)'
        BY <1>1, <1>9, <1>10, <2>1, <3>1 DEF InBlockOf
      <3> QED BY <3>2
    <2>3. mode_' \notin HeadModes \cup EndModes \cup StoredModes \cup TableModes
          /\ mode_' \notin {"TYPE", "TYPEDO"}
      BY DEF HeadModes, EndModes, StoredModes, TableModes
    <2>4. at' <= N'
      BY <1>2, <1>8, <1>10
    <2> QED BY <1>8, <1>10, <2>2, <2>3, <2>4 DEF ItemInv
  <1>12. stream.start[at + 1] = Bit /\ stream.text[at + 1] = stream.text[at]
    <2>1. stream.start[at + 1] = stream.start[at] + 14 + 3 * item.ncode + item.offsets[sym + 1]
      BY <1>1, <1>4, ItemAt DEF After
    <2> QED BY <1>1, <2>1, TextLength
  <1> QED BY <1>5, <1>11, <1>12

\* The mode CODELENS keeps the invariant.
LEMMA KeepsCODELENS ==
    ASSUME IInv, UNCHANGED frame, CODELENS
    PROVE  IInv'
  <1> DEFINE s == item.symbols[sym + 1]
             k == s.bits + RepeatBits(s.val)
             want == Max2(lenbits_, k)
  <1>1. /\ TypeOK /\ DataInv /\ RangeInv /\ mode_ = "CODELENS" /\ pc = "switch"
        /\ item.error \notin {"counts", "codes"} /\ lenbits_ = item.clbits
        /\ Bit = stream.start[at] + 14 + 3 * item.ncode + item.offsets[sym + 1]
    BY DEF IInv, BitInv, BlockBits, RegisterInv, BlockRegisters, CODELENS, In
  <1>2. /\ n_ \in 0 .. 32 /\ next_in \in Nat /\ in_last \in Nat /\ next_in <= in_last
        /\ N \in Nat /\ at \in 1 .. N + 1 /\ sym \in Nat /\ last_ \in BOOLEAN
        /\ check_ \in Nat /\ length_ \in Nat /\ offset_ \in Nat /\ extra_ \in Nat
        /\ have_ \in Nat /\ lenbits_ \in Nat /\ distbits_ \in Nat
    BY <1>1, StateTypes DEF DataInv, RangeInv
  <1>3. /\ item \in Item /\ item.op = "table" /\ at \in 1 .. N /\ at <= N /\ lenbits_ \in 1 .. 7
        /\ have_ <= item.total /\ item.total \in Nat /\ Len(item.symbols) \in Nat
        /\ item.offsets[sym + 1] \in Nat /\ have_ = item.counts[sym + 1]
    BY <1>1, TableAt
  <1>4. stream.start[at] \in Nat /\ item.ncode \in 4 .. 19
    BY <1>1, <1>3, ItemAt, TableTypes
  <1>5. have_ < item.total => /\ s \in RunSymbol /\ s.bits \in 1 .. 7 /\ k \in 1 .. 14
                             /\ s.run \in Nat /\ s.run > 0
                             /\ want \in 0 .. 25 /\ k <= want /\ sym + 1 <= Len(item.symbols)
                             /\ item.offsets[sym + 2] = item.offsets[sym + 1] + k
                             /\ item.counts[sym + 2] = have_ + s.run
    <2>1. SUFFICES ASSUME have_ < item.total
                   PROVE  /\ s \in RunSymbol /\ s.bits \in 1 .. 7 /\ k \in 1 .. 14
                          /\ s.run \in Nat /\ s.run > 0
                          /\ want \in 0 .. 25 /\ k <= want /\ sym + 1 <= Len(item.symbols)
                          /\ item.offsets[sym + 2] = item.offsets[sym + 1] + k
                          /\ item.counts[sym + 2] = have_ + s.run
      OBVIOUS
    <2>2. /\ s \in RunSymbol /\ sym + 1 \in 1 .. Len(item.symbols)
          /\ item.offsets[sym + 2] = item.offsets[sym + 1] + s.bits + RepeatBits(s.val)
          /\ item.counts[sym + 2] = have_ + s.run
      BY <1>1, <2>1, TableAt
    <2> HIDE DEF s
    <2>3. s.bits \in 1 .. 7 /\ s.run \in Nat /\ s.run > 0
      BY <2>2 DEF RunSymbol
    <2>4. RepeatBits(s.val) \in 0 .. 7
      BY DEF RepeatBits
    <2>5. k \in 1 .. 14 /\ item.offsets[sym + 1] + k = item.offsets[sym + 1] + s.bits + RepeatBits(s.val)
      <3> DEFINE r == RepeatBits(s.val)
                 o == item.offsets[sym + 1]
                 c == s.bits
      <3>1. o \in Nat /\ r \in 0 .. 7 /\ c \in 1 .. 7
        BY <1>3, <2>3, <2>4
      <3>2. k = c + r
        BY DEF k
      <3> HIDE DEF r, o, c, k
      <3>3. k \in 1 .. 14 /\ o + k = o + c + r
        BY <3>1, <3>2
      <3> QED BY <3>3 DEF r, o, c
    <2> HIDE DEF k
    <2>6. want \in 0 .. 25 /\ k <= want
      BY <1>3, <2>5 DEF Max2
    <2> QED BY <1>2, <1>3, <2>2, <2>3, <2>5, <2>6
  <1>6. mode_ \in TableModes /\ mode_ \in InnerModes
    BY <1>1 DEF TableModes, InnerModes, BlockModes
  <1> HIDE DEF s, k, want
  <1>7. CASE have_ < item.total /\ OutOfInput(want) /\ Kept
    <2>1. PICK w \in 0 .. 32 : w = want
      BY <1>5, <1>7
    <2>2. OutOfInput(w)
      BY <1>7, <2>1
    <2> QED BY <1>1, <1>7, <2>2, Starves
  <1>8. CASE /\ have_ < item.total /\ Take(want, k)
             /\ s.val = 16 => have_ > 0
             /\ have_ + s.run <= item.total
             /\ have_' = have_ + s.run /\ sym' = sym + 1
             /\ UNCHANGED <<pc, ec, mode_, result>>
             /\ UNCHANGED <<length_, offset_, extra_, lenbits_, distbits_, at, last_, check_>>
    <2>1. n_' \in 0 .. 32 /\ next_in' \in Nat /\ next_in' <= in_last /\ Bit' = Bit + k /\ k \in Nat
      <3>1. PICK w \in 0 .. 25 : w = want
        BY <1>5, <1>8
      <3>2. PICK x \in 0 .. w : x = k
        BY <1>5, <1>8, <3>1
      <3>3. Take(w, x)
        BY <1>8, <3>1, <3>2
      <3>4. w \in 0 .. 32 /\ w <= 25
        BY <3>1
      <3>5. n_' \in 0 .. 32 /\ next_in' \in Nat /\ next_in' <= in_last /\ 8 * next_in' - n_' = Bit + x
        BY <1>2, <3>3, <3>4, TakeEffect
      <3> QED BY <1>5, <1>8, <3>2, <3>5 DEF Bit
    <2>2. /\ mode_' = "CODELENS" /\ pc' = "switch" /\ output' = output /\ avail_out' = avail_out
          /\ sym' + 1 = sym + 2 /\ sym' \in Nat /\ have_' \in Nat /\ have_' > 0
          /\ sym' <= Len(item.symbols) /\ have_' <= item.total /\ have_' = item.counts[sym' + 1]
      <3>1. /\ mode_' = "CODELENS" /\ pc' = "switch" /\ output' = output /\ avail_out' = avail_out
        BY <1>1, <1>8 DEF result
      <3>2. sym' = sym + 1 /\ sym' + 1 = sym + 2 /\ sym' \in Nat
        BY <1>2, <1>8
      <3>3. s.run \in Nat /\ s.run > 0 /\ sym + 1 <= Len(item.symbols)
            /\ item.counts[sym + 2] = have_ + s.run
        BY <1>5, <1>8
      <3>4. have_' = have_ + s.run /\ have_ + s.run <= item.total
        BY <1>8
      <3>5. have_' \in Nat /\ have_' > 0
        BY <1>2, <3>3, <3>4
      <3> QED BY <3>1, <3>2, <3>3, <3>4, <3>5
    <2>3. ItemInv' /\ item' = item /\ stream' = stream
      BY <1>6, <1>8, <2>2, SameItem, FrameEffect
    <2>4. BlockRegisters' /\ SymbolRegisters' /\ StopInv'
      <3>1. item.symbols[1].val # 16
        <4>1. CASE sym > 0
          BY <1>1, <4>1 DEF IInv, RegisterInv, BlockRegisters
        <4>2. CASE sym = 0
          <5>1. SymbolsInOrder(item)
            BY <1>1, TableAt
          <5>2. have_ = 0
            BY <1>3, <4>2, <5>1 DEF SymbolsInOrder
          <5> QED BY <1>8, <4>2, <5>2 DEF s
        <4> QED BY <1>2, <4>1, <4>2
      <3> QED BY <1>1, <1>8, <2>2, <2>3, <3>1 DEF BlockRegisters, SymbolRegisters, StopInv
    <2>5. BlockBits' /\ SymbolBits'
      <3>1. item.offsets[sym' + 1] = item.offsets[sym + 1] + k
        BY <1>5, <1>8, <2>2
      <3>2. Bit' = stream.start[at] + 14 + 3 * item.ncode + item.offsets[sym' + 1]
        <4> DEFINE b == stream.start[at]
                   c == item.ncode
                   o == item.offsets[sym + 1]
        <4>1. b \in Nat /\ c \in Nat /\ o \in Nat /\ k \in Nat /\ Bit = b + 14 + 3 * c + o
          <5>1. c \in Nat
            BY <1>4
          <5> QED BY <1>1, <1>3, <1>4, <2>1, <5>1
        <4> HIDE DEF b, c, o
        <4>2. Bit + k = b + 14 + 3 * c + (o + k)
          BY <4>1
        <4> QED BY <2>1, <3>1, <4>2 DEF b, c, o
      <3> QED BY <1>8, <2>2, <2>3, <3>2 DEF BlockBits, SymbolBits
    <2>6. TextAt' = TextAt
      BY <1>1, <1>8, <2>2, <2>3 DEF TextAt, Copied
    <2>7. Registered'
      BY <1>2, <1>8, <2>1, <2>2, FrameEffect DEF Registered
    <2>8. mode_' \in InnerModes
      BY <1>1, <1>6, <2>2
    <2> QED BY <1>6, <1>8, <2>2, <2>3, <2>4, <2>5, <2>6, <2>7, <2>8, InnerMoves
  <1>9. CASE /\ have_ < item.total /\ Take(want, k)
             /\ err("invalid_bit_length_repeat") /\ UNCHANGED <<have_, sym>>
             /\ UNCHANGED <<length_, offset_, extra_, lenbits_, distbits_, at, last_, check_>>
    <2>1. n_' \in 0 .. 32 /\ next_in' \in Nat /\ next_in' <= in_last
      <3>1. PICK w \in 0 .. 25 : w = want
        BY <1>5, <1>9
      <3>2. PICK x \in 0 .. w : x = k
        BY <1>5, <1>9, <3>1
      <3>3. Take(w, x)
        BY <1>9, <3>1, <3>2
      <3>4. w \in 0 .. 32 /\ w <= 25
        BY <3>1
      <3> QED BY <1>2, <3>3, <3>4, TakeEffect
    <2> QED BY <1>2, <1>9, <2>1, Fails DEF code, place
  <1>10. CASE /\ have_ = item.total /\ item.error = "ok"
              /\ lenbits_' = item.lenbits /\ distbits_' = item.distbits
              /\ GotoUnlessTrees("LEN_") /\ at' = at + 1
              /\ UNCHANGED <<ec, input, result, length_, offset_, extra_, have_, sym, last_, check_>>
    <2>1. /\ mode_' = "LEN_" /\ pc' \in {"switch", "done"} /\ (pc' = "done" => flush = "trees")
          /\ Bit' = Bit /\ n_' = n_ /\ next_in' = next_in
          /\ output' = output /\ avail_out' = avail_out
      BY <1>10 DEF GotoUnlessTrees, input, result, Bit
    <2>2. /\ ItemInv' /\ SoundItem(item, stream.text[at], Len(stream.text[at]))
          /\ stream.start[at + 1] = Bit /\ stream.text[at + 1] = stream.text[at]
      BY <1>1, <1>10, <2>1, TableCloses
    <2>3. mode_' \in InnerModes
      BY <2>1 DEF InnerModes, SymbolModes
    <2>4. BlockRegisters' /\ SymbolRegisters' /\ StopInv'
      BY <2>1, FrameEffect DEF BlockRegisters, SymbolRegisters, StopInv
    <2>5. BlockBits' /\ SymbolBits'
      BY <1>10, <2>1, <2>2, FrameEffect DEF BlockBits, SymbolBits
    <2>6. TextAt' = TextAt
      BY <1>1, <1>10, <2>1, <2>2, FrameEffect DEF TextAt, Copied
    <2>7. Registered'
      <3>1. item.lenbits \in Nat /\ item.distbits \in Nat
        <4>1. item.lenbits \in 1 .. 9 /\ item.distbits \in 1 .. 6
          BY <1>3, TableTypes
        <4> QED BY <4>1
      <3> QED BY <1>2, <1>3, <1>10, <2>1, <3>1, FrameEffect DEF Registered
    <2> QED BY <1>3, <1>6, <1>10, <2>1, <2>2, <2>3, <2>4, <2>5, <2>6, <2>7, InnerMoves
  <1>11. CASE err(TableError) /\ UNCHANGED <<input, code, place, last_, check_>>
    BY <1>2, <1>11, Fails DEF input
  <1> QED BY <1>7, <1>8, <1>9, <1>10, <1>11 DEF CODELENS, s, k, want

-----------------------------------------------------------------------------
(* Copies *)

\* Division with remainder.
LEMMA Remainder ==
    ASSUME NEW a \in Nat, NEW d \in Nat \ {0}
    PROVE  /\ a % d \in 0 .. d - 1
           /\ a < d => a % d = a
           /\ (a + d) % d = a % d
  <1>1. a % d \in 0 .. d - 1
    OBVIOUS
  <1>2. a < d => a % d = a
    OBVIOUS
  <1>3. (a + d) % d = a % d
    <2>1. PICK b \in Nat : b = a + d
      OBVIOUS
    <2>2. PICK p \in Int : p = a \div d
      OBVIOUS
    <2>3. PICK q \in Int : q = b \div d
      OBVIOUS
    <2>4. a = d * p + (a % d)
      BY <2>2
    <2>5. b = d * q + (b % d) /\ b % d \in 0 .. d - 1
      BY <2>3
    <2>6. \A k \in Int : (k >= 1 => d * k >= d) /\ (k <= -1 => d * k <= -d)
      OBVIOUS
    <2>7. PICK k \in Int : k = q - p - 1
      OBVIOUS
    <2>8. d * k = (a % d) - (b % d)
      <3>1. d * k = d * q - d * p - d
        BY <2>7
      <3>2. PICK r \in Int : r = a % d
        BY <1>1
      <3>3. PICK u \in Int : u = b % d
        BY <2>5
      <3>4. PICK y \in Int : y = d * q
        OBVIOUS
      <3>5. PICK z \in Int : z = d * p
        OBVIOUS
      <3>6. a = z + r /\ b = y + u
        BY <2>4, <2>5, <3>2, <3>3, <3>4, <3>5
      <3>7. y - z - d = r - u
        BY <2>1, <3>6
      <3> QED BY <3>1, <3>2, <3>3, <3>4, <3>5, <3>7
    <2>9. k = 0
      BY <1>1, <2>5, <2>6, <2>8
    <2> QED BY <1>1, <2>1, <2>5, <2>8, <2>9
  <1> QED BY <1>1, <1>2, <1>3

\* What a match repeats of a text that goes on in step with itself d bytes back.
LEMMA RepeatedText ==
    ASSUME NEW t \in Seq(Byte), NEW w \in Seq(Byte), NEW d \in Nat \ {0}, NEW n \in Nat,
           d <= Len(w), Len(w) + n <= Len(t),
           \A k \in 1 .. Len(w) : w[k] = t[k],
           \A x \in 1 .. n : t[Len(w) + x] = t[Len(w) + x - d]
    PROVE  \E p \in Seq(Byte) :
            /\ Repeated(w, d, n) = w \o p /\ Len(p) = n
            /\ \A x \in 1 .. n : p[x] = t[Len(w) + x]
  <1> DEFINE l == Len(w)
             from(x) == w[l - d + 1 + ((x - 1) % d)]
             p == [k \in 1 .. n |-> from(k)]
             T == {m \in Nat : \A x \in 1 .. n : x <= m => from(x) = t[l + x]}
  <1>1. l \in Nat /\ Len(t) \in Nat
    BY LenProperties
  <1> HIDE DEF l
  <1>2. 0 \in T
    OBVIOUS
  <1>3. ASSUME NEW m \in Nat, m \in T PROVE m + 1 \in T
    <2>1. SUFFICES ASSUME m + 1 <= n PROVE from(m + 1) = t[l + (m + 1)]
      <3> HIDE DEF from
      <3>1. SUFFICES ASSUME NEW x \in 1 .. n, x <= m + 1 PROVE from(x) = t[l + x]
        OBVIOUS
      <3>2. CASE x <= m
        BY <1>3, <3>2
      <3>3. CASE ~(x <= m)
        <4>1. x = m + 1 /\ m + 1 <= n
          BY <3>1, <3>3
        <4> QED BY <2>1, <4>1
      <3> QED BY <3>2, <3>3
    <2>2. from(m + 1) = w[l - d + 1 + (m % d)] /\ m + 1 \in 1 .. n
      BY <2>1
    <2>3. t[l + (m + 1)] = t[l + (m + 1) - d]
      BY <2>2 DEF l
    <2>4. CASE m < d
      <3>1. m % d = m
        BY <2>4, Remainder
      <3>2. l - d + 1 + m \in 1 .. l /\ l - d + 1 + m = l + (m + 1) - d
        BY <1>1, <2>4 DEF l
      <3> QED BY <2>2, <2>3, <3>1, <3>2 DEF l
    <2>5. CASE m >= d
      <3>1. m - d \in Nat /\ (m - d) + d = m
        BY <2>5
      <3>2. (m - d) % d = m % d
        BY <3>1, Remainder
      <3>3. m - d + 1 \in 1 .. n /\ m - d + 1 <= m /\ m - d + 1 - 1 = m - d
            /\ l + (m - d + 1) = l + (m + 1) - d
        BY <1>1, <2>1, <2>5
      <3>4. from(m - d + 1) = t[l + (m - d + 1)]
        BY <1>3, <3>3
      <3> QED BY <2>2, <2>3, <3>2, <3>3, <3>4
    <2> QED BY <2>4, <2>5
  <1>4. n \in T
    <2> HIDE DEF T
    <2> QED BY <1>2, <1>3, InductionOnSet
  <1>5. \A x \in 1 .. n : from(x) = t[l + x]
    BY <1>4
  <1>6. \A x \in 1 .. n : from(x) \in Byte
    <2>1. \A x \in 1 .. n : l + x \in 1 .. Len(t)
      BY <1>1 DEF l
    <2>2. \A x \in 1 .. n : t[l + x] \in Byte
      BY <2>1, ElementOfSeq
    <2> QED BY <1>5, <2>2
  <1> HIDE DEF from
  <1>7. p \in Seq(Byte) /\ Len(p) = n /\ \A x \in 1 .. n : p[x] = from(x)
    BY <1>6
  <1>8. Repeated(w, d, n) = w \o p
    BY DEF Repeated, p, from, l
  <1> HIDE DEF p
  <1>9. Len(p) = n /\ \A x \in 1 .. n : p[x] = t[Len(w) + x]
    BY <1>5, <1>7 DEF l
  <1> QED BY <1>7, <1>8, <1>9

\* The window is the end of the output before this call, so that a copy out of it continues the text.
LEMMA WindowText ==
    ASSUME NEW t \in Seq(Byte), NEW d \in Nat \ {0}, NEW n \in Nat,
           output \in Seq(Byte), total_out \in Nat, total_out <= Len(output),
           window \in Seq(Byte), window = LastBytes(SubSeq(output, 1, total_out)),
           d - used > 0, n <= d - used, d - used <= Len(window),
           Len(output) + n <= Len(t),
           \A k \in 1 .. Len(output) : output[k] = t[k],
           \A x \in 1 .. n : t[Len(output) + x] = t[Len(output) + x - d]
    PROVE  /\ FromWindow(d - used, n) \in Seq(Byte) /\ Len(FromWindow(d - used, n)) = n
           /\ \A x \in 1 .. n : FromWindow(d - used, n)[x] = t[Len(output) + x]
           /\ d <= Len(output)
  <1> DEFINE l == Len(output)
             z == Len(window)
             b == d - used
             p == FromWindow(b, n)
             s == SubSeq(output, 1, total_out)
  <1>1. l \in Nat /\ z \in Nat /\ Len(t) \in Nat /\ b = d - (l - total_out) /\ b \in Nat
    <2>1. l \in Nat /\ z \in Nat /\ Len(t) \in Nat
      BY LenProperties
    <2>2. b = d - (l - total_out)
      BY DEF used
    <2> QED BY <2>1, <2>2
  <1>2. /\ z <= total_out
        /\ \A i \in 1 .. z : window[i] = output[total_out - z + i]
    <2>1. /\ s \in Seq(Byte) /\ Len(s) = total_out
          /\ \A k \in 1 .. total_out : s[k] = output[k]
      BY <1>1, Beginning
    <2> HIDE DEF s
    <2>2. CASE Len(s) <= capacity
      <3>1. window = s /\ z = total_out
        BY <2>1, <2>2 DEF LastBytes, s
      <3> QED BY <2>1, <3>1
    <2>3. CASE ~(Len(s) <= capacity)
      <3> DEFINE a == total_out - capacity
      <3>1. window = SubSeq(s, a + 1, total_out) /\ a \in Nat /\ capacity \in Nat
            /\ total_out = a + capacity
        BY <2>1, <2>3, InflateAssumption DEF LastBytes, s
      <3> HIDE DEF a
      <3>2. z = capacity /\ \A x \in 1 .. capacity : window[x] = s[a + x]
        BY <2>1, <3>1, Piece
      <3>3. \A x \in 1 .. capacity : a + x \in 1 .. total_out /\ total_out - z + x = a + x
        <4> HIDE DEF z
        <4>1. PICK c \in Nat : c = capacity
          BY <3>1
        <4>2. z = c /\ total_out = a + c /\ a \in Nat
          BY <3>1, <3>2, <4>1
        <4> QED BY ONLY <4>1, <4>2, c \in Nat
      <3>4. z <= total_out
        <4> HIDE DEF z
        <4> QED BY <3>1, <3>2
      <3>5. \A x \in 1 .. capacity : window[x] = output[total_out - z + x]
        BY <2>1, <3>2, <3>3
      <3> QED BY <3>2, <3>4, <3>5
    <2> QED BY <2>2, <2>3
  <1> HIDE DEF s
  <1>3. d <= l
    BY <1>1, <1>2
  <1>4. p \in Seq(Byte) /\ Len(p) = n /\ \A x \in 1 .. n : p[x] = window[z - b + x]
    <2>1. z - b \in Nat /\ z - b + n <= z /\ n \in Nat
      BY <1>1
    <2>2. p = SubSeq(window, z - b + 1, z - b + n)
      BY DEF FromWindow
    <2>3. window \in Seq(Byte) /\ z - b + n <= Len(window)
      BY <2>1
    <2> HIDE DEF z, b, p
    <2>4. PICK a \in Nat : a = z - b
      BY <2>1
    <2>5. a + n <= Len(window) /\ p = SubSeq(window, a + 1, a + n)
      BY <2>2, <2>3, <2>4
    <2>6. p \in Seq(Byte) /\ Len(p) = n /\ \A x \in 1 .. n : p[x] = window[a + x]
      BY <2>1, <2>3, <2>5, Piece
    <2> QED BY <2>4, <2>6
  <1>5. ASSUME NEW x \in 1 .. n PROVE p[x] = t[l + x]
    <2>1. z - b + x \in 1 .. z /\ total_out - z + (z - b + x) = l + x - d /\ l + x - d \in 1 .. l
      <3>1. z - b \in Nat /\ z - b + n <= z /\ n \in Nat /\ x \in 1 .. n
        BY <1>1
      <3>2. /\ z \in Nat /\ z <= total_out /\ b \in Nat /\ l \in Nat /\ total_out \in Nat /\ d \in Nat
            /\ b = d - (l - total_out)
        BY <1>1, <1>2
      <3>3. b > 0 /\ n <= b /\ total_out <= l
        BY <1>1
      <3> HIDE DEF z, b, l
      <3> QED BY ONLY <1>3, <3>1, <3>2, <3>3
    <2>2. window[z - b + x] = output[l + x - d]
      BY <1>2, <2>1
    <2>3. output[l + x - d] = t[l + x - d]
      BY <2>1
    <2>4. t[l + x] = t[l + x - d]
      OBVIOUS
    <2> HIDE DEF l, z, b, p
    <2> QED BY <1>4, <2>2, <2>3, <2>4
  <1> QED BY <1>3, <1>4, <1>5

-----------------------------------------------------------------------------
(* Symbols *)

\* The numbers of the state, and their ranges.
LEMMA Numbers ==
    ASSUME IInv
    PROVE  /\ n_ \in 0 .. 32 /\ next_in \in Nat /\ in_last \in Nat /\ next_in <= in_last
           /\ N \in Nat /\ N > 0 /\ at \in 1 .. N + 1 /\ sym \in Nat /\ last_ \in BOOLEAN
           /\ check_ \in Nat /\ length_ \in Nat /\ offset_ \in Nat /\ extra_ \in Nat
           /\ have_ \in Nat /\ lenbits_ \in Nat /\ distbits_ \in Nat /\ avail_out \in Nat
           /\ output \in Seq(Byte) /\ Len(output) \in Nat
           /\ total_out \in Nat /\ total_out <= Len(output)
  <1>1. TypeOK /\ DataInv /\ RangeInv
    BY DEF IInv
  <1> QED BY <1>1, StateTypes, LenProperties DEF DataInv, RangeInv

\* The symbol at hand, and the bits that a look-up of its codes takes.
LEMMA SymbolAt ==
    ASSUME IInv, mode_ \in SymbolModes
    PROVE  /\ TypeOK /\ at \in 1 .. N /\ at <= N /\ item \in Item /\ item.op \in Symbols
           /\ stream.start[at] \in Nat /\ item.bits \in 1 .. 15
           /\ Peek(lenbits_, item.sub) \in 0 .. 15 /\ item.bits <= Peek(lenbits_, item.sub)
           /\ item.op = "match" => /\ Peek(distbits_, item.dsub) \in 0 .. 15
                                   /\ item.dbits <= Peek(distbits_, item.dsub)
           /\ \E j \in 1 .. at : InBlockOf(j)
  <1>1. TypeOK /\ at <= N /\ item.op \in Symbols /\ \E j \in 1 .. at : InBlockOf(j)
    BY DEF IInv, ItemInv, BodyModes
  <1>2. item \in Item /\ at \in 1 .. N /\ stream.start[at] \in Nat
    BY <1>1, ItemAt
  <1>3. item.bits \in 1 .. 15 /\ item.sub \in 0 .. 14
    BY <1>1, <1>2, ItemTypes
  <1>4. PICK j \in 1 .. at : InBlockOf(j)
    BY <1>1
  <1>5. /\ item.bits <= lenbits_ + item.sub /\ lenbits_ + item.sub <= 15
        /\ item.op = "match" => item.dbits <= distbits_ + item.dsub /\ distbits_ + item.dsub <= 15
    BY <1>1, <1>4, GrammarAt DEF InBlockOf, Coded
  <1>6. lenbits_ \in Nat /\ distbits_ \in Nat
    BY Numbers
  <1>7. lenbits_ + item.sub \in 0 .. 15
    BY <1>3, <1>5, <1>6
  <1>8. item.op = "match" => distbits_ + item.dsub \in 0 .. 15
    <2>1. SUFFICES ASSUME item.op = "match" PROVE distbits_ + item.dsub \in 0 .. 15
      OBVIOUS
    <2>2. item.dsub \in 0 .. 14
      BY <1>2, <2>1, MatchTypes
    <2> QED BY <1>5, <1>6, <2>1, <2>2
  <1> QED BY <1>1, <1>2, <1>3, <1>5, <1>7, <1>8 DEF Peek

\* The end of a literal or of a match: another symbol follows.
LEMMA SymbolCloses ==
    ASSUME IInv, UNCHANGED frame, mode_ \in SymbolModes, item.op \in {"lit", "match"},
           SoundItem(item, stream.text[at], Len(stream.text[at])),
           at' = at + 1, last_' = last_, lenbits_' = lenbits_, distbits_' = distbits_,
           mode_' = "LEN"
    PROVE  ItemInv' /\ at + 1 \in 1 .. N
  <1>1. /\ TypeOK /\ at \in 1 .. N /\ at <= N /\ N \in Nat
        /\ stream' = stream /\ N' = N /\ item' = stream.items[at + 1]
    BY SymbolAt, StateTypes, FrameEffect DEF item
  <1>2. PICK j \in 1 .. at : InBlockOf(j)
    BY SymbolAt
  <1>3. Continues(stream, j, at)
    BY <1>1, <1>2, GrammarAt DEF InBlockOf
  <1>4. at < N /\ stream.items[at + 1].op \in Symbols
    BY <1>3 DEF Continues, Follows, item, N
  <1>5. j \in 1 .. at + 1 /\ Header(stream, j, at + 1)
    BY <1>1, <1>2, <1>4, SameBlock DEF Symbols, InBlockOf
  <1>6. InBlockOf(j)'
    BY <1>1, <1>2, <1>5 DEF InBlockOf
  <1>7. \E i \in 1 .. at' : InBlockOf(i)'
    BY <1>5, <1>6
  <1>8. /\ mode_' \notin HeadModes \cup EndModes \cup StoredModes \cup TableModes
        /\ mode_' \notin {"TYPE", "TYPEDO"}
    BY DEF HeadModes, EndModes, StoredModes, TableModes
  <1>9. at' <= N' /\ at + 1 \in 1 .. N
    BY <1>1, <1>4
  <1> QED BY <1>1, <1>4, <1>7, <1>8, <1>9 DEF ItemInv

\* The mode LEN keeps the invariant.
LEMMA KeepsLEN ==
    ASSUME IInv, UNCHANGED frame, LEN
    PROVE  IInv'
  <1>1. /\ TypeOK /\ mode_ \in {"LEN_", "LEN"} /\ Bit = stream.start[at]
        /\ last_' = last_ /\ check_' = check_
    BY DEF IInv, BitInv, SymbolBits, LEN, In
  <1>2. mode_ \in SymbolModes /\ mode_ \in InnerModes
    BY <1>1 DEF SymbolModes, InnerModes
  <1>3. /\ at \in 1 .. N /\ at <= N /\ item \in Item /\ item.op \in Symbols
        /\ stream.start[at] \in Nat /\ item.bits \in 1 .. 15
        /\ Peek(lenbits_, item.sub) \in 0 .. 15 /\ item.bits <= Peek(lenbits_, item.sub)
        /\ \E j \in 1 .. at : InBlockOf(j)
    BY <1>2, SymbolAt
  <1>4. TextAt = Len(stream.text[at]) + 0
    BY <1>1 DEF TextAt, Copied
  <1>5. CASE FastEnough /\ mode_' = "LEN" /\ pc' = "fast" /\ UNCHANGED <<ec, input, result, code, place>>
    <2>1. /\ at' = at /\ sym' = sym /\ length_' = length_ /\ offset_' = offset_ /\ extra_' = extra_
          /\ have_' = have_ /\ lenbits_' = lenbits_ /\ distbits_' = distbits_
          /\ n_' = n_ /\ next_in' = next_in /\ output' = output /\ avail_out' = avail_out /\ Bit' = Bit
      BY <1>5 DEF input, result, code, place, Bit
    <2>2. FastEnough' /\ mode_' \in SymbolModes /\ mode_' \in InnerModes
      BY <1>5, <2>1, FrameEffect DEF FastEnough, avail, SymbolModes, InnerModes
    <2>3. ItemInv' /\ stream' = stream
      BY <1>1, <1>2, <2>1, <2>2, SameItem, FrameEffect
    <2>4. BlockRegisters' /\ SymbolRegisters' /\ StopInv'
      BY <1>5 DEF BlockRegisters, SymbolRegisters, StopInv
    <2>5. BlockBits' /\ SymbolBits'
      BY <1>1, <1>5, <2>1, <2>3 DEF BlockBits, SymbolBits
    <2>6. TextAt' = TextAt
      BY <1>4, <1>5, <2>1, <2>3 DEF TextAt, Copied
    <2>7. Registered'
      BY <1>1, <2>1, Numbers, FrameEffect DEF Registered
    <2> QED BY <1>1, <1>2, <1>5, <2>1, <2>2, <2>3, <2>4, <2>5, <2>6, <2>7, InnerMoves
  <1>6. CASE OutOfInput(Peek(lenbits_, item.sub)) /\ mode_' = "LEN" /\ UNCHANGED <<ec, result, code, place>>
    <2>1. /\ at' = at /\ sym' = sym /\ length_' = length_ /\ offset_' = offset_ /\ extra_' = extra_
          /\ have_' = have_ /\ lenbits_' = lenbits_ /\ distbits_' = distbits_
          /\ output' = output /\ avail_out' = avail_out
      BY <1>6 DEF result, code, place
    <2>2. n_' \in 0 .. 32 /\ next_in' = in_last /\ pc' = "done" /\ Bit' = Bit
      <3>1. PICK w \in 0 .. 32 : w = Peek(lenbits_, item.sub)
        BY <1>3
      <3>2. OutOfInput(w)
        BY <1>6, <3>1
      <3> QED BY <3>2, Numbers, OutOfInputEffect DEF Bit
    <2>3. mode_' \in SymbolModes /\ mode_' \in InnerModes
      BY <1>6 DEF SymbolModes, InnerModes
    <2>4. ItemInv' /\ stream' = stream
      BY <1>1, <1>2, <2>1, <2>3, SameItem, FrameEffect
    <2>5. BlockRegisters' /\ SymbolRegisters' /\ StopInv'
      BY <1>6, <2>2, FrameEffect DEF BlockRegisters, SymbolRegisters, StopInv
    <2>6. BlockBits' /\ SymbolBits'
      BY <1>1, <1>6, <2>1, <2>2, <2>4 DEF BlockBits, SymbolBits
    <2>7. TextAt' = TextAt
      BY <1>4, <1>6, <2>1, <2>4 DEF TextAt, Copied
    <2>8. Registered'
      BY <1>1, <2>1, <2>2, Numbers, FrameEffect DEF Registered
    <2> QED BY <1>1, <1>2, <2>1, <2>2, <2>3, <2>4, <2>5, <2>6, <2>7, <2>8, InnerMoves
  <1>7. ASSUME Take(Peek(lenbits_, item.sub), item.bits)
        PROVE  n_' \in 0 .. 32 /\ next_in' \in Nat /\ next_in' <= in_last /\ Bit' = Bit + item.bits
    <2>1. PICK w \in 0 .. 15 : w = Peek(lenbits_, item.sub)
      BY <1>3
    <2>2. PICK k \in 0 .. w : k = item.bits
      BY <1>3, <2>1
    <2>3. Take(w, k) /\ w \in 0 .. 32 /\ w <= 25
      BY <1>7, <2>1, <2>2
    <2>4. n_ \in 0 .. 32 /\ next_in \in Nat /\ in_last \in Nat /\ next_in <= in_last
      BY Numbers
    <2>5. Take(w, k) /\ w \in Nat /\ k \in Nat /\ k <= w /\ w <= 25 /\ w <= 32
      BY <2>3
    <2>6. n_' \in 0 .. 32 /\ next_in' \in Nat /\ next_in' <= in_last /\ 8 * next_in' - n_' = Bit + k
      BY <2>4, <2>5, TakeEffect
    <2> QED BY <2>2, <2>6 DEF Bit
  <1>8. CASE /\ Take(Peek(lenbits_, item.sub), item.bits)
             /\ \/ item.op = "lit" /\ length_' = item.byte /\ Goto("LIT") /\ UNCHANGED extra_
                \/ /\ item.op = "match" /\ length_' = item.len /\ extra_' = item.extra
                   /\ Goto("LENEXT")
             /\ UNCHANGED <<ec, result, at, sym, offset_, have_, lenbits_, distbits_>>
    <2>1. n_' \in 0 .. 32 /\ next_in' \in Nat /\ next_in' <= in_last /\ Bit' = Bit + item.bits
      BY <1>7, <1>8
    <2>2. /\ mode_' \in {"LIT", "LENEXT"} /\ pc' = "switch"
          /\ mode_' = "LIT" => item.op = "lit" /\ length_' = item.byte
          /\ mode_' = "LENEXT" => item.op = "match" /\ length_' = item.len /\ extra_' = item.extra
          /\ output' = output /\ avail_out' = avail_out
      BY <1>8 DEF Goto, result
    <2>3. mode_' \in SymbolModes /\ mode_' \in InnerModes
      BY <2>2 DEF SymbolModes, InnerModes
    <2>4. ItemInv' /\ stream' = stream /\ item' = item
      BY <1>1, <1>2, <1>8, <2>3, SameItem, FrameEffect
    <2>5. BlockRegisters' /\ SymbolRegisters' /\ StopInv'
      BY <2>2, <2>4 DEF BlockRegisters, SymbolRegisters, StopInv
    <2>6. BlockBits' /\ SymbolBits'
      BY <1>1, <1>8, <2>1, <2>2, <2>4 DEF BlockBits, SymbolBits
    <2>7. TextAt' = TextAt
      BY <1>4, <1>8, <2>2, <2>4 DEF TextAt, Copied
    <2>8. length_' \in Nat /\ extra_' \in Nat
      <3>1. CASE item.op = "lit" /\ length_' = item.byte /\ UNCHANGED extra_
        <4>1. item.byte \in 0 .. 255
          BY <1>3, <3>1, ItemTypes DEF Byte
        <4>2. extra_ \in Nat
          BY Numbers
        <4>3. length_' \in Nat
          BY <3>1, <4>1
        <4> QED BY <3>1, <4>2, <4>3
      <3>2. CASE item.op = "match" /\ length_' = item.len /\ extra_' = item.extra
        <4>1. item.len \in Nat \ {0} /\ item.extra \in 0 .. 5
          BY <1>3, <3>2, MatchTypes
        <4> QED BY <3>2, <4>1
      <3> QED BY <1>8, <3>1, <3>2
    <2>9. Registered'
      BY <1>1, <1>8, <2>1, <2>8, Numbers, FrameEffect DEF Registered
    <2> QED BY <1>1, <1>2, <1>8, <2>2, <2>3, <2>4, <2>5, <2>6, <2>7, <2>9, InnerMoves
  <1>9. CASE /\ Take(Peek(lenbits_, item.sub), item.bits)
             /\ item.op = "eob" /\ Goto("TYPE") /\ at' = at + 1
             /\ UNCHANGED <<ec, result, length_, extra_, sym, offset_, have_, lenbits_, distbits_>>
    <2>1. n_' \in 0 .. 32 /\ next_in' \in Nat /\ next_in' <= in_last /\ Bit' = Bit + item.bits
      BY <1>7, <1>9
    <2>2. /\ mode_' = "TYPE" /\ pc' = "switch" /\ output' = output /\ avail_out' = avail_out
      BY <1>9 DEF Goto, result
    <2>3. PICK j \in 1 .. at : InBlockOf(j)
      BY <1>3
    <2>4. ItemInv' /\ SoundItem(item, stream.text[at], Len(stream.text[at]))
      BY <1>1, <1>3, <1>9, <2>2, <2>3, BlockCloses
    <2>5. mode_' \in InnerModes /\ stream' = stream
      BY <2>2, FrameEffect DEF InnerModes, BlockModes
    <2>6. BlockRegisters' /\ SymbolRegisters' /\ StopInv'
      BY <2>2 DEF BlockRegisters, SymbolRegisters, StopInv
    <2>7. BlockBits' /\ SymbolBits'
      <3>1. stream.start[at + 1] = stream.start[at] + item.bits
        BY <1>1, <1>3, <1>9, ItemAt DEF After
      <3> QED BY <1>1, <1>9, <2>1, <2>2, <2>5, <3>1 DEF BlockBits, SymbolBits
    <2>8. TextAt' = TextAt
      <3>1. stream.text[at + 1] = stream.text[at]
        BY <1>1, <1>3, <1>9, TextLength
      <3> QED BY <1>4, <1>9, <2>2, <2>5, <3>1 DEF TextAt, Copied
    <2>9. Registered'
      <3>1. at + 1 \in 1 .. N + 1
        <4>1. at \in 1 .. N /\ N \in Nat
          BY <1>3, Numbers
        <4> QED BY ONLY <4>1
      <3>2. at' \in 1 .. N' + 1
        BY <1>9, <3>1, FrameEffect
      <3> QED BY <1>1, <1>9, <2>1, <3>2, Numbers, FrameEffect DEF Registered
    <2> QED BY <1>1, <1>2, <1>3, <1>9, <2>2, <2>4, <2>5, <2>6, <2>7, <2>8, <2>9, InnerMoves
  <1>10. CASE /\ Take(Peek(lenbits_, item.sub), item.bits) /\ err("invalid_literal_length")
              /\ UNCHANGED <<length_, extra_, at, sym, offset_, have_, lenbits_, distbits_>>
    <2>1. n_' \in 0 .. 32 /\ next_in' \in Nat /\ next_in' <= in_last
      BY <1>7, <1>10
    <2>2. check_' \in Nat /\ last_' \in BOOLEAN
      BY <1>1, Numbers
    <2> QED BY <1>10, <2>1, <2>2, Fails DEF code, place
  <1> QED BY <1>5, <1>6, <1>8, <1>9, <1>10 DEF LEN

\* A step from part to part of a symbol.
LEMMA SymbolMoves ==
    ASSUME IInv, UNCHANGED frame, mode_ \in SymbolModes, mode_' \in SymbolModes, pc' = "switch",
           UNCHANGED <<result, place, last_, check_, have_, lenbits_, distbits_>>,
           length_' \in Nat, offset_' \in Nat, extra_' \in Nat,
           n_' \in 0 .. 32, next_in' \in Nat, next_in' <= in_last,
           SymbolRegisters', SymbolBits', TextAt' = TextAt
    PROVE  IInv'
  <1>1. /\ at' = at /\ sym' = sym /\ output' = output /\ avail_out' = avail_out
    BY DEF result, place
  <1>2. mode_ \in InnerModes /\ mode_' \in InnerModes
    BY DEF InnerModes
  <1>3. ItemInv'
    BY <1>1, SameItem
  <1>4. BlockRegisters' /\ BlockBits' /\ StopInv'
    BY DEF BlockRegisters, BlockBits, StopInv, SymbolModes
  <1>5. Registered'
    BY <1>1, Numbers, FrameEffect DEF Registered
  <1> QED BY <1>1, <1>2, <1>3, <1>4, <1>5, InnerMoves

\* The mode LENEXT keeps the invariant.
LEMMA KeepsLENEXT ==
    ASSUME IInv, UNCHANGED frame, LENEXT
    PROVE  IInv'
  <1>1. /\ mode_ = "LENEXT" /\ item.op = "match" /\ length_ = item.len /\ extra_ = item.extra
        /\ Bit = stream.start[at] + item.bits
    BY DEF IInv, RegisterInv, SymbolRegisters, BitInv, SymbolBits, LENEXT, In
  <1>2. mode_ \in SymbolModes
    BY <1>1 DEF SymbolModes
  <1>3. TypeOK /\ item \in Item /\ at <= N /\ stream.start[at] \in Nat /\ item.bits \in 1 .. 15
    BY <1>2, SymbolAt
  <1>4. item.extra \in 0 .. 5 /\ item.len \in Nat /\ item.len_v \in Nat
    BY <1>1, <1>3, MatchTypes
  <1>5. CASE OutOfInput(extra_) /\ Kept
    <2>1. PICK w \in 0 .. 5 : w = extra_
      BY <1>1, <1>4
    <2>2. OutOfInput(w) /\ w \in 0 .. 32
      BY <1>5, <2>1
    <2> QED BY <1>1, <1>5, <2>2, Starves
  <1>6. CASE /\ Take(extra_, extra_)
             /\ length_' = IF extra_ > 0 THEN length_ + item.len_v ELSE length_
             /\ Goto("DIST")
             /\ UNCHANGED <<ec, result, offset_, extra_, have_, lenbits_, distbits_, place, last_, check_>>
    <2>1. n_' \in 0 .. 32 /\ next_in' \in Nat /\ next_in' <= in_last /\ Bit' = Bit + item.extra
      <3>1. PICK w \in 0 .. 5 : w = extra_
        BY <1>1, <1>4
      <3>2. Take(w, w) /\ w \in 0 .. 32 /\ w \in 0 .. w /\ w <= 25
        BY <1>6, <3>1
      <3>3. n_ \in 0 .. 32 /\ next_in \in Nat /\ in_last \in Nat /\ next_in <= in_last
        BY Numbers
      <3>4. Take(w, w) /\ w \in Nat /\ w <= 25 /\ w <= 32
        BY <3>2
      <3>5. n_' \in 0 .. 32 /\ next_in' \in Nat /\ next_in' <= in_last /\ 8 * next_in' - n_' = Bit + w
        BY <3>3, <3>4, TakeEffect
      <3> QED BY <1>1, <3>1, <3>5 DEF Bit
    <2>2. length_' = item.len + item.len_v
      <3>1. item.extra = 0 => item.len_v = 0
        BY <1>1, <1>3, ItemAt DEF Consistent
      <3> QED BY <1>1, <1>4, <1>6, <3>1
    <2>3. mode_' = "DIST" /\ pc' = "switch" /\ item' = item /\ stream' = stream /\ at' = at
      BY <1>6, FrameEffect DEF Goto, item, place
    <2>4. mode_' \in SymbolModes
      BY <2>3 DEF SymbolModes
    <2>5. SymbolRegisters'
      BY <1>1, <2>2, <2>3 DEF SymbolRegisters
    <2>6. SymbolBits'
      BY <1>1, <2>1, <2>3 DEF SymbolBits
    <2>7. TextAt' = TextAt
      BY <1>1, <2>3 DEF TextAt, Copied
    <2>8. length_' \in Nat /\ offset_' \in Nat /\ extra_' \in Nat
      <3>1. item.len \in Nat /\ item.len_v \in Nat /\ offset_ \in Nat /\ extra_ \in Nat
        BY <1>1, <1>4, Numbers
      <3>2. offset_' = offset_ /\ extra_' = extra_
        BY <1>6
      <3> QED BY ONLY <2>2, <3>1, <3>2
    <2> QED BY <1>2, <1>6, <2>1, <2>3, <2>4, <2>5, <2>6, <2>7, <2>8, SymbolMoves
  <1> QED BY <1>5, <1>6 DEF LENEXT

\* The mode DIST keeps the invariant.
LEMMA KeepsDIST ==
    ASSUME IInv, UNCHANGED frame, DIST
    PROVE  IInv'
  <1>1. /\ mode_ = "DIST" /\ item.op = "match" /\ length_ = item.len + item.len_v
        /\ Bit = stream.start[at] + item.bits + item.extra
    BY DEF IInv, RegisterInv, SymbolRegisters, BitInv, SymbolBits, DIST, In
  <1>2. mode_ \in SymbolModes
    BY <1>1 DEF SymbolModes
  <1>3. /\ TypeOK /\ item \in Item /\ at <= N
        /\ Peek(distbits_, item.dsub) \in 0 .. 15 /\ item.dbits <= Peek(distbits_, item.dsub)
    BY <1>1, <1>2, SymbolAt
  <1>4. item.dbits \in 1 .. 15 /\ item.dist \in Nat /\ item.dextra \in 0 .. 13
    BY <1>1, <1>3, MatchTypes
  <1>5. CASE OutOfInput(Peek(distbits_, item.dsub)) /\ Kept
    <2>1. PICK w \in 0 .. 15 : w = Peek(distbits_, item.dsub)
      BY <1>3
    <2>2. OutOfInput(w) /\ w \in 0 .. 32
      BY <1>5, <2>1
    <2> QED BY <1>1, <1>5, <2>2, Starves
  <1>6. ASSUME Take(Peek(distbits_, item.dsub), item.dbits)
        PROVE  n_' \in 0 .. 32 /\ next_in' \in Nat /\ next_in' <= in_last /\ Bit' = Bit + item.dbits
    <2>1. PICK w \in 0 .. 15 : w = Peek(distbits_, item.dsub)
      BY <1>3
    <2>2. PICK k \in 0 .. w : k = item.dbits
      BY <1>3, <1>4, <2>1
    <2>3. Take(w, k) /\ w \in 0 .. 32 /\ w <= 25
      BY <1>6, <2>1, <2>2
    <2>4. n_ \in 0 .. 32 /\ next_in \in Nat /\ in_last \in Nat /\ next_in <= in_last
      BY Numbers
    <2>5. Take(w, k) /\ w \in Nat /\ k \in Nat /\ k <= w /\ w <= 25 /\ w <= 32
      BY <2>3
    <2>6. n_' \in 0 .. 32 /\ next_in' \in Nat /\ next_in' <= in_last /\ 8 * next_in' - n_' = Bit + k
      BY <2>4, <2>5, TakeEffect
    <2> QED BY <2>2, <2>6 DEF Bit
  <1>7. CASE /\ Take(Peek(distbits_, item.dsub), item.dbits)
             /\ item.valid /\ offset_' = item.dist /\ extra_' = item.dextra
             /\ Goto("DISTEXT") /\ UNCHANGED <<ec, result>>
             /\ UNCHANGED <<length_, have_, lenbits_, distbits_, place, last_, check_>>
    <2>1. mode_' = "DISTEXT" /\ pc' = "switch" /\ item' = item /\ stream' = stream /\ at' = at
      BY <1>7, FrameEffect DEF Goto, item, place
    <2>2. mode_' \in SymbolModes
      BY <2>1 DEF SymbolModes
    <2>3. SymbolRegisters'
      BY <1>1, <1>7, <2>1 DEF SymbolRegisters
    <2>4. SymbolBits'
      BY <1>1, <1>6, <1>7, <2>1 DEF SymbolBits
    <2>5. TextAt' = TextAt
      BY <1>1, <2>1 DEF TextAt, Copied
    <2>6. length_' \in Nat /\ offset_' \in Nat /\ extra_' \in Nat
      <3>1. extra_' \in 0 .. 13 /\ offset_' \in Nat
        BY <1>4, <1>7
      <3>2. length_' \in Nat
        BY <1>7, Numbers
      <3> QED BY <3>1, <3>2
    <2> QED BY <1>2, <1>6, <1>7, <2>1, <2>2, <2>3, <2>4, <2>5, <2>6, SymbolMoves
  <1>8. CASE /\ Take(Peek(distbits_, item.dsub), item.dbits)
             /\ err("invalid_distance_code") /\ UNCHANGED <<offset_, extra_>>
             /\ UNCHANGED <<length_, have_, lenbits_, distbits_, place, last_, check_>>
    <2>1. check_' \in Nat /\ last_' \in BOOLEAN
      BY <1>8, Numbers
    <2> QED BY <1>6, <1>8, <2>1, Fails DEF code
  <1> QED BY <1>5, <1>7, <1>8 DEF DIST

\* The mode DISTEXT keeps the invariant.
LEMMA KeepsDISTEXT ==
    ASSUME IInv, UNCHANGED frame, DISTEXT
    PROVE  IInv'
  <1>1. /\ mode_ = "DISTEXT" /\ item.op = "match" /\ length_ = item.len + item.len_v
        /\ offset_ = item.dist /\ extra_ = item.dextra /\ item.valid
        /\ Bit = stream.start[at] + item.bits + item.extra + item.dbits
    BY DEF IInv, RegisterInv, SymbolRegisters, BitInv, SymbolBits, DISTEXT, In
  <1>2. mode_ \in SymbolModes
    BY <1>1 DEF SymbolModes
  <1>3. TypeOK /\ item \in Item /\ at <= N
    BY <1>2, SymbolAt
  <1>4. item.dextra \in 0 .. 13 /\ item.dist \in Nat /\ item.dist_v \in Nat /\ Distance(item) \in Nat
        /\ item.len \in Nat /\ item.len_v \in Nat
    BY <1>1, <1>3, MatchTypes
  <1>5. CASE OutOfInput(extra_) /\ Kept
    <2>1. PICK w \in 0 .. 13 : w = extra_
      BY <1>1, <1>4
    <2>2. OutOfInput(w) /\ w \in 0 .. 32
      BY <1>5, <2>1
    <2> QED BY <1>1, <1>5, <2>2, Starves
  <1>6. CASE /\ Take(extra_, extra_)
             /\ offset_' = IF extra_ > 0 THEN offset_ + item.dist_v ELSE offset_
             /\ Goto("MATCH")
             /\ UNCHANGED <<ec, result, length_, extra_, have_, lenbits_, distbits_, place, last_, check_>>
    <2>1. n_' \in 0 .. 32 /\ next_in' \in Nat /\ next_in' <= in_last /\ Bit' = Bit + item.dextra
      <3>1. PICK w \in 0 .. 13 : w = extra_
        BY <1>1, <1>4
      <3>2. Take(w, w) /\ w \in 0 .. 32 /\ w \in 0 .. w /\ w <= 25
        BY <1>6, <3>1
      <3>3. n_ \in 0 .. 32 /\ next_in \in Nat /\ in_last \in Nat /\ next_in <= in_last
        BY Numbers
      <3>4. Take(w, w) /\ w \in Nat /\ w <= 25 /\ w <= 32
        BY <3>2
      <3>5. n_' \in 0 .. 32 /\ next_in' \in Nat /\ next_in' <= in_last /\ 8 * next_in' - n_' = Bit + w
        BY <3>3, <3>4, TakeEffect
      <3> QED BY <1>1, <3>1, <3>5 DEF Bit
    <2>2. offset_' = Distance(item)
      <3>1. item.dextra = 0 => item.dist_v = 0
        BY <1>1, <1>3, ItemAt DEF Consistent
      <3> QED BY <1>1, <1>4, <1>6, <3>1 DEF Distance
    <2>3. /\ mode_' = "MATCH" /\ pc' = "switch" /\ item' = item /\ stream' = stream /\ at' = at
          /\ length_' = length_
      BY <1>6, FrameEffect DEF Goto, item, place
    <2>4. mode_' \in SymbolModes
      BY <2>3 DEF SymbolModes
    <2>5. SymbolRegisters'
      <3>1. Distance(item)' = Distance(item) /\ length_' <= item.len + item.len_v
            /\ ~(length_' < item.len + item.len_v)
        BY <1>1, <1>4, <2>3 DEF Distance
      <3> QED BY <1>1, <2>2, <2>3, <3>1 DEF SymbolRegisters
    <2>6. SymbolBits'
      BY <1>1, <2>1, <2>3 DEF SymbolBits
    <2>7. TextAt' = TextAt
      <3>1. Copied = 0 /\ Copied' = 0
        BY <1>1, <1>4, <2>3 DEF Copied
      <3> QED BY <2>3, <3>1 DEF TextAt
    <2>8. length_' \in Nat /\ offset_' \in Nat /\ extra_' \in Nat
      BY <1>4, <1>6, <2>2, Numbers
    <2> QED BY <1>2, <1>6, <2>1, <2>3, <2>4, <2>5, <2>6, <2>7, <2>8, SymbolMoves
  <1> QED BY <1>5, <1>6 DEF DISTEXT

\* The text that a symbol stands for.
LEMMA LiteralText ==
    ASSUME TypeOK, at <= N, item.op = "lit"
    PROVE  /\ item.byte \in Byte /\ Len(stream.text[at]) + 1 <= Len(Text(stream))
           /\ Text(stream)[Len(stream.text[at]) + 1] = item.byte
  <1> DEFINE t == stream.text[at]
             u == stream.text[at + 1]
  <1>1. /\ item \in Item /\ t \in Seq(Byte) /\ Extends(u, item, t) /\ at + 1 \in 1 .. N + 1
        /\ WellFormed(stream) /\ Len(t) \in Nat
    BY ItemAt, StateTypes
  <1>2. Len(u) <= Len(Text(stream)) /\ \A k \in 1 .. Len(u) : Text(stream)[k] = u[k]
    BY <1>1, TextsArePrefixes DEF N
  <1> HIDE DEF t, u
  <1>3. item.byte \in Byte /\ u = Append(t, item.byte)
    BY <1>1, ItemTypes DEF Extends, Symbols
  <1>4. Len(u) = Len(t) + 1 /\ u[Len(t) + 1] = item.byte
    BY <1>1, <1>3, AppendProperties
  <1>5. Len(t) + 1 \in 1 .. Len(u)
    BY <1>1, <1>4
  <1> QED BY <1>2, <1>3, <1>4, <1>5 DEF t

\* The text of a match repeats the text that is its distance before.
LEMMA MatchText ==
    ASSUME TypeOK, at <= N, item.op = "match", Distance(item) <= Len(stream.text[at])
    PROVE  /\ Len(stream.text[at]) + (item.len + item.len_v) <= Len(Text(stream))
           /\ \A x \in 1 .. item.len + item.len_v :
                Text(stream)[Len(stream.text[at]) + x]
                    = Text(stream)[Len(stream.text[at]) + x - Distance(item)]
  <1> DEFINE t == stream.text[at]
             u == stream.text[at + 1]
             l == Len(t)
             d == Distance(item)
             m == item.len + item.len_v
  <1>1. /\ item \in Item /\ Extends(u, item, t) /\ at + 1 \in 1 .. N + 1
        /\ WellFormed(stream) /\ l \in Nat /\ d <= l
    BY ItemAt, StateTypes
  <1>2. Len(u) <= Len(Text(stream)) /\ \A k \in 1 .. Len(u) : Text(stream)[k] = u[k]
    BY <1>1, TextsArePrefixes DEF N
  <1>3. d \in Nat \ {0} /\ m \in Nat
    <2>1. item.len \in Nat /\ item.len_v \in Nat /\ Distance(item) \in Nat \ {0}
      BY <1>1, MatchTypes
    <2> QED BY <2>1
  <1>4. /\ Len(u) = l + item.len + item.len_v
        /\ \A k \in 1 .. Len(u) : u[k] = IF k <= l THEN t[k] ELSE u[k - d]
    BY <1>1 DEF Extends
  <1>5. Len(u) = l + m
    <2>1. item.len \in Nat /\ item.len_v \in Nat
      BY <1>1, MatchTypes
    <2> QED BY <1>1, <1>4, <2>1
  <1> HIDE DEF t, u, l, d, m
  <1>6. ASSUME NEW x \in 1 .. m PROVE Text(stream)[l + x] = Text(stream)[l + x - d]
    <2>1. l + x \in 1 .. Len(u) /\ l + x - d \in 1 .. Len(u) /\ ~(l + x <= l)
      BY <1>1, <1>3, <1>5
    <2>2. u[l + x] = u[l + x - d]
      <3> DEFINE k == l + x
      <3>1. k \in 1 .. Len(u) /\ ~(k <= l)
        BY <2>1
      <3>2. k - d = l + x - d
        BY <1>1, <1>3
      <3> HIDE DEF k
      <3>3. u[k] = u[k - d]
        BY <1>4, <3>1
      <3>4. u[k] = u[l + x - d]
        BY <3>2, <3>3
      <3> QED BY <3>4 DEF k
    <2> QED BY <1>2, <2>1, <2>2
  <1> QED BY <1>2, <1>5, <1>6 DEF t, l, d, m

\* The window never holds more than was written before this call.
LEMMA WindowLength ==
    ASSUME IInv, mode_ \in SymbolModes
    PROVE  /\ window \in Seq(Byte) /\ Len(window) \in Nat /\ Len(window) <= total_out
           /\ window = LastBytes(SubSeq(output, 1, total_out))
  <1> DEFINE s == SubSeq(output, 1, total_out)
  <1>1. window \in Seq(Byte) /\ window = LastBytes(s) /\ Len(window) \in Nat
    BY LenProperties DEF IInv, DataInv, WindowFollowsOutput, SymbolModes, EndModes
  <1>2. s \in Seq(Byte) /\ Len(s) = total_out /\ total_out \in Nat
    <2>1. output \in Seq(Byte) /\ total_out \in 0 .. Len(output)
      BY Numbers
    <2> QED BY <2>1, Beginning
  <1> HIDE DEF s
  <1>3. CASE Len(s) <= capacity
    <2>1. window = s
      BY <1>1, <1>3 DEF LastBytes
    <2>2. Len(window) <= total_out
      BY <1>2, <2>1
    <2> QED BY <1>1, <2>2 DEF s
  <1>4. CASE ~(Len(s) <= capacity)
    <2> DEFINE a == total_out - capacity
    <2>1. capacity \in Nat
      BY InflateAssumption
    <2>2. a \in Nat /\ total_out = a + capacity
      BY <1>2, <1>4, <2>1
    <2>3. window = SubSeq(s, a + 1, total_out)
      BY <1>1, <1>2, <1>4 DEF LastBytes
    <2> HIDE DEF a
    <2>4. Len(window) = capacity
      BY <1>2, <2>1, <2>2, <2>3, Piece
    <2>5. Len(window) <= total_out
      BY <2>1, <2>2, <2>4
    <2> QED BY <1>1, <2>5 DEF s
  <1> QED BY <1>3, <1>4

\* What can be reached in this call's output and in the window was written.
LEMMA Reach ==
    ASSUME IInv, mode_ \in SymbolModes, NEW d \in Nat, d > used => d - used <= Len(window)
    PROVE  d <= Len(output)
  <1>1. Len(output) \in Nat /\ total_out \in Nat /\ total_out <= Len(output)
    BY Numbers
  <1>2. Len(window) \in Nat /\ Len(window) <= total_out
    BY WindowLength
  <1>3. used = Len(output) - total_out
    BY DEF used
  <1> HIDE DEF used
  <1> QED BY <1>1, <1>2, <1>3

\* A literal is written, and the next symbol is at hand.
LEMMA LiteralWrites ==
    ASSUME IInv, UNCHANGED frame, mode_ \in {"LEN", "LIT"}, item.op = "lit",
           output' = Append(output, item.byte), at' = at + 1, mode_' = "LEN",
           last_' = last_, lenbits_' = lenbits_, distbits_' = distbits_
    PROVE  /\ output' \in Seq(Byte) /\ Len(output) <= Len(output')
           /\ \A k \in 1 .. Len(output) : output'[k] = output[k]
           /\ TextInv' /\ ItemInv' /\ at' \in 1 .. N' + 1 /\ at <= N
           /\ SoundItem(item, stream.text[at], Len(stream.text[at]))
           /\ stream.start[at + 1] = stream.start[at] + item.bits
  <1>1. mode_ \in SymbolModes /\ stream' = stream
    BY FrameEffect DEF SymbolModes
  <1>2. TypeOK /\ at \in 1 .. N /\ at <= N
    BY <1>1, SymbolAt
  <1>3. Len(output) = Len(stream.text[at]) + 0 /\ \A k \in 1 .. Len(output) : output[k] = Text(stream)[k]
    BY DEF IInv, TextInv, Copied
  <1>4. SoundItem(item, stream.text[at], Len(stream.text[at]))
    BY DEF SoundItem
  <1>5. ItemInv' /\ at + 1 \in 1 .. N
    BY <1>1, <1>4, SymbolCloses
  <1>6. /\ item.byte \in Byte /\ Len(stream.text[at]) + 1 <= Len(Text(stream))
        /\ Text(stream)[Len(stream.text[at]) + 1] = item.byte
    BY <1>2, LiteralText
  <1>7. /\ output' \in Seq(Byte) /\ Len(output') = Len(output) + 1
        /\ \A k \in 1 .. Len(output) : output'[k] = output[k]
        /\ output'[Len(output) + 1] = item.byte
    BY <1>6, Numbers, AppendProperties
  <1>8. Len(stream.text[at]) \in Nat /\ Len(output) = Len(stream.text[at])
    BY <1>2, <1>3, ItemAt
  <1>9. \A k \in 1 .. Len(output') : output'[k] = Text(stream)[k]
    <2>1. SUFFICES ASSUME NEW k \in 1 .. Len(output) + 1 PROVE output'[k] = Text(stream)[k]
      BY <1>7
    <2>2. k \in 1 .. Len(output) \/ k = Len(output) + 1
      BY <1>8
    <2> QED BY <1>3, <1>6, <1>7, <1>8, <2>2
  <1>10. TextInv'
    <2>1. Len(stream.text[at + 1]) = Len(stream.text[at]) + 1 /\ Copied' = 0
      BY <1>2, TextLength DEF Copied
    <2>2. Len(output') = Len(stream'.text[at']) + Copied' /\ Len(output') <= Len(Text(stream'))
      BY <1>1, <1>6, <1>7, <1>8, <2>1
    <2> QED BY <1>1, <1>9, <2>2 DEF TextInv
  <1>11. at' \in 1 .. N' + 1
    <2>1. N \in Nat /\ N' = N /\ at' \in 1 .. N
      BY <1>5, Numbers, FrameEffect
    <2> QED BY <2>1
  <1>12. stream.start[at + 1] = stream.start[at] + item.bits
    BY <1>2, ItemAt DEF After
  <1>13. Len(output) <= Len(output')
    BY <1>7, <1>8
  <1> QED BY <1>2, <1>4, <1>5, <1>7, <1>10, <1>11, <1>12, <1>13

\* The mode LIT keeps the invariant.
LEMMA KeepsLIT ==
    ASSUME IInv, UNCHANGED frame, LIT
    PROVE  IInv'
  <1>1. /\ mode_ = "LIT" /\ item.op = "lit" /\ length_ = item.byte /\ Bit = stream.start[at] + item.bits
        /\ next_in' = next_in /\ n_' = n_ /\ Bit' = Bit /\ sym' = sym
        /\ last_' = last_ /\ check_' = check_ /\ length_' = length_ /\ offset_' = offset_
        /\ extra_' = extra_ /\ have_' = have_ /\ lenbits_' = lenbits_ /\ distbits_' = distbits_
    BY DEF IInv, RegisterInv, SymbolRegisters, BitInv, SymbolBits, LIT, In, input, code, Bit
  <1>2. mode_ \in SymbolModes /\ mode_ \in InnerModes
    BY <1>1 DEF SymbolModes, InnerModes
  <1>3. CASE avail_out = 0 /\ pc' = "done" /\ UNCHANGED <<mode_, result, at>>
    <2>1. output' = output /\ avail_out' = avail_out /\ code' = code /\ place' = place /\ state' = state
      BY <1>1, <1>3 DEF result, code, place, state
    <2>2. ItemInv' /\ RegisterInv' /\ BitInv' /\ SoundInv' /\ TextAt' = TextAt
      BY <1>1, <2>1, Stays DEF Bit
    <2>3. StopInv'
      BY <1>3, <2>1 DEF StopInv
    <2>4. BlockRegisters' /\ SymbolRegisters' /\ BlockBits' /\ SymbolBits'
      BY <2>2 DEF RegisterInv, BitInv
    <2>5. Registered'
      BY <1>1, <1>3, Numbers, FrameEffect DEF Registered
    <2>6. mode_' \in InnerModes
      BY <1>2, <1>3
    <2> QED BY <1>1, <1>2, <1>3, <2>1, <2>2, <2>3, <2>4, <2>5, <2>6, InnerMoves
  <1>4. CASE /\ avail_out > 0 /\ output' = Append(output, length_) /\ avail_out' = avail_out - 1
             /\ Goto("LEN") /\ at' = at + 1
    <2>1. mode_' = "LEN" /\ pc' = "switch" /\ stream' = stream
      BY <1>4, FrameEffect DEF Goto
    <2>2. /\ output' \in Seq(Byte) /\ Len(output) <= Len(output')
          /\ \A k \in 1 .. Len(output) : output'[k] = output[k]
          /\ TextInv' /\ ItemInv' /\ at' \in 1 .. N' + 1 /\ at <= N
          /\ SoundItem(item, stream.text[at], Len(stream.text[at]))
          /\ stream.start[at + 1] = stream.start[at] + item.bits
      BY <1>1, <1>4, <2>1, LiteralWrites
    <2>3. mode_' \in InnerModes
      BY <2>1 DEF InnerModes, SymbolModes
    <2>4. BlockRegisters' /\ SymbolRegisters' /\ StopInv'
      BY <2>1 DEF BlockRegisters, SymbolRegisters, StopInv
    <2>5. BlockBits' /\ SymbolBits'
      BY <1>1, <1>4, <2>1, <2>2 DEF BlockBits, SymbolBits
    <2>6. Registered'
      BY <1>1, <2>2, Numbers, FrameEffect DEF Registered
    <2>7. avail_out' \in Nat
      <3>1. avail_out \in Nat
        BY Numbers
      <3> QED BY <1>4, <3>1
    <2> QED BY <1>1, <1>2, <1>4, <2>1, <2>2, <2>3, <2>4, <2>5, <2>6, <2>7, InnerGoes
  <1> QED BY <1>3, <1>4 DEF LIT

\* What MATCH writes is the next piece of the text.
LEMMA MatchCopies ==
    ASSUME IInv, mode_ = "MATCH", NEW m \in Nat, m <= length_,
           offset_ > used => offset_ - used <= Len(window) /\ m <= offset_ - used
    PROVE  /\ Distance(item) <= Len(stream.text[at])
           /\ Len(output) + m <= Len(Text(stream))
           /\ \E p \in Seq(Byte) :
                /\ Len(p) = m /\ \A x \in 1 .. m : p[x] = Text(stream)[Len(output) + x]
                /\ output \o p = IF offset_ > used THEN output \o FromWindow(offset_ - used, m)
                                 ELSE Repeated(output, offset_, m)
  <1> DEFINE T == Len(stream.text[at])
             L == item.len + item.len_v
             t == Text(stream)
             l == Len(output)
  <1>1. /\ item.op = "match" /\ offset_ = Distance(item) /\ length_ <= L
        /\ length_ < L => Distance(item) <= T
        /\ l = T + (L - length_) /\ \A k \in 1 .. l : output[k] = t[k]
    BY DEF IInv, RegisterInv, SymbolRegisters, TextInv, Copied
  <1>2. mode_ \in SymbolModes
    BY DEF SymbolModes
  <1>3. TypeOK /\ at <= N /\ item \in Item /\ T \in Nat /\ t \in Seq(Byte) /\ Len(t) \in Nat
    BY <1>2, SymbolAt, ItemAt, StateTypes, StreamTypes
  <1>4. L \in Nat /\ Distance(item) \in Nat \ {0}
    <2>1. item.len \in Nat /\ item.len_v \in Nat /\ Distance(item) \in Nat \ {0}
      BY <1>1, <1>3, MatchTypes
    <2> QED BY <2>1
  <1>5. PICK d \in Nat \ {0} : d = offset_
    BY <1>1, <1>4
  <1>6. /\ length_ \in Nat /\ l \in Nat /\ output \in Seq(Byte)
        /\ total_out \in Nat /\ total_out <= Len(output)
    BY Numbers
  <1>7. d <= l
    BY <1>2, <1>5, Reach
  <1> HIDE DEF T, L, t, l
  <1>8. d <= T
    BY <1>1, <1>3, <1>4, <1>5, <1>6, <1>7
  <1>9. T + L <= Len(t) /\ \A x \in 1 .. L : t[T + x] = t[T + x - d]
    BY <1>1, <1>3, <1>5, <1>8, MatchText DEF T, L, t
  <1>10. l + m <= Len(t)
    BY <1>1, <1>3, <1>4, <1>6, <1>9
  <1>11. ASSUME NEW x \in 1 .. m PROVE t[l + x] = t[l + x - d]
    <2> DEFINE y == L - length_ + x
    <2>1. y \in 1 .. L /\ T + y = l + x /\ T + y - d = l + x - d
      BY <1>1, <1>3, <1>4, <1>6
    <2> HIDE DEF y
    <2>2. t[T + y] = t[T + y - d]
      BY <1>9, <2>1
    <2> QED BY <2>1, <2>2
  <1>12. \E p \in Seq(Byte) :
            /\ Len(p) = m /\ \A x \in 1 .. m : p[x] = t[l + x]
            /\ output \o p = IF d > used THEN output \o FromWindow(d - used, m)
                             ELSE Repeated(output, d, m)
    <2>1. CASE d > used
      <3>1. used \in Int /\ d - used > 0 /\ m <= d - used /\ d - used <= Len(window)
        BY <1>5, <1>6, <2>1 DEF used, l
      <3>2. window \in Seq(Byte) /\ window = LastBytes(SubSeq(output, 1, total_out))
        BY <1>2, WindowLength
      <3>3. /\ \A k \in 1 .. Len(output) : output[k] = t[k]
            /\ \A x \in 1 .. m : t[Len(output) + x] = t[Len(output) + x - d]
            /\ Len(output) + m <= Len(t)
        BY <1>1, <1>10, <1>11 DEF l
      <3>4. /\ FromWindow(d - used, m) \in Seq(Byte) /\ Len(FromWindow(d - used, m)) = m
            /\ \A x \in 1 .. m : FromWindow(d - used, m)[x] = t[Len(output) + x]
        <4>1. t \in Seq(Byte) /\ d \in Nat \ {0} /\ m \in Nat
          BY <1>3, <1>6
        <4>2. output \in Seq(Byte) /\ total_out \in Nat /\ total_out <= Len(output)
          BY <1>6
        <4> QED BY ONLY <3>1, <3>2, <3>3, <4>1, <4>2, WindowText, ZenonT(30)
      <3> QED BY <2>1, <3>4 DEF l
    <2>2. CASE ~(d > used)
      <3>1. /\ \A k \in 1 .. Len(output) : output[k] = t[k]
            /\ \A x \in 1 .. m : t[Len(output) + x] = t[Len(output) + x - d]
            /\ Len(output) + m <= Len(t) /\ d <= Len(output)
        BY <1>1, <1>7, <1>10, <1>11 DEF l
      <3>2. PICK p \in Seq(Byte) :
                /\ Repeated(output, d, m) = output \o p /\ Len(p) = m
                /\ \A x \in 1 .. m : p[x] = t[Len(output) + x]
        <4>1. t \in Seq(Byte) /\ m \in Nat /\ output \in Seq(Byte) /\ d \in Nat \ {0}
          BY <1>3, <1>6
        <4>2. \E p \in Seq(Byte) :
                /\ Repeated(output, d, m) = output \o p /\ Len(p) = m
                /\ \A x \in 1 .. m : p[x] = t[Len(output) + x]
          BY ONLY <3>1, <4>1, RepeatedText, ZenonT(30)
        <4> QED BY <4>2
      <3> QED BY <2>2, <3>2 DEF l
    <2> QED BY <2>1, <2>2
  <1> QED BY <1>1, <1>5, <1>8, <1>10, <1>12 DEF T, t, l

\* The mode MATCH keeps the invariant.
LEMMA KeepsMATCH ==
    ASSUME IInv, UNCHANGED frame, MATCH
    PROVE  IInv'
  <1> DEFINE L == item.len + item.len_v
             T == Len(stream.text[at])
             back == offset_ - used
             n == IF offset_ > used THEN clamp(clamp(length_, back), avail_out)
                  ELSE clamp(length_, avail_out)
  <1>1. /\ mode_ = "MATCH" /\ item.op = "match" /\ item.valid /\ offset_ = Distance(item)
        /\ length_ <= L /\ (length_ < L => Distance(item) <= T)
        /\ Bit = stream.start[at] + item.bits + item.extra + item.dbits + item.dextra
        /\ next_in' = next_in /\ n_' = n_ /\ Bit' = Bit /\ sym' = sym
        /\ last_' = last_ /\ check_' = check_ /\ offset_' = offset_
        /\ extra_' = extra_ /\ have_' = have_ /\ lenbits_' = lenbits_ /\ distbits_' = distbits_
    BY DEF IInv, RegisterInv, SymbolRegisters, BitInv, SymbolBits, MATCH, In, input, Bit
  <1>2. mode_ \in SymbolModes /\ mode_ \in InnerModes
    BY <1>1 DEF SymbolModes, InnerModes
  <1>3. TypeOK /\ at \in 1 .. N /\ at <= N /\ item \in Item /\ \E j \in 1 .. at : InBlockOf(j)
    BY <1>2, SymbolAt
  <1>4. Len(output) = T + (L - length_) /\ \A k \in 1 .. Len(output) : output[k] = Text(stream)[k]
    BY <1>1 DEF IInv, TextInv, Copied
  <1>5. /\ L \in Nat /\ T \in Nat /\ length_ \in Nat /\ offset_ \in Nat \ {0} /\ avail_out \in Nat
        /\ total_out \in Nat /\ total_out <= Len(output) /\ Len(output) \in Nat /\ used \in Nat
        /\ item.len \in Nat /\ item.len_v \in Nat
    <2>1. item.len \in Nat /\ item.len_v \in Nat /\ Distance(item) \in Nat \ {0}
      BY <1>1, <1>3, MatchTypes
    <2>2. /\ length_ \in Nat /\ avail_out \in Nat /\ Len(output) \in Nat
          /\ total_out \in Nat /\ total_out <= Len(output)
      BY Numbers
    <2>3. T \in Nat
      BY <1>3, ItemAt
    <2> QED BY <1>1, <2>1, <2>2, <2>3 DEF used
  <1> HIDE DEF L, T
  <1>6. CASE avail_out = 0 /\ pc' = "done" /\ UNCHANGED <<ec, mode_, result, length_, at>>
    <2>1. output' = output /\ avail_out' = avail_out /\ code' = code /\ place' = place /\ state' = state
      BY <1>1, <1>6 DEF result, code, place, state
    <2>2. ItemInv' /\ RegisterInv' /\ BitInv' /\ SoundInv' /\ TextAt' = TextAt
      BY <1>1, <2>1, Stays DEF Bit
    <2>3. StopInv'
      BY <1>6, <2>1 DEF StopInv
    <2>4. BlockRegisters' /\ SymbolRegisters' /\ BlockBits' /\ SymbolBits'
      BY <2>2 DEF RegisterInv, BitInv
    <2>5. Registered'
      BY <1>1, <1>6, Numbers, FrameEffect DEF Registered
    <2>6. mode_' \in InnerModes
      BY <1>2, <1>6
    <2> QED BY <1>1, <1>2, <1>6, <2>1, <2>2, <2>3, <2>4, <2>5, <2>6, InnerMoves
  <1>7. CASE err("invalid_distance") /\ UNCHANGED <<length_, at>>
    <2>1. /\ check_' \in Nat /\ last_' \in BOOLEAN /\ n_' \in 0 .. 32 /\ next_in' \in Nat
          /\ next_in' <= in_last
      BY <1>1, Numbers
    <2> QED BY <1>1, <1>7, <2>1, Fails DEF code, place
  <1>8. CASE /\ avail_out > 0 /\ (offset_ > used => back <= Len(window))
             /\ output' = IF offset_ > used THEN output \o FromWindow(back, n)
                          ELSE Repeated(output, offset_, n)
             /\ avail_out' = avail_out - n /\ length_' = length_ - n
             /\ Goto(IF length_ = n THEN "LEN" ELSE "MATCH")
             /\ at' = IF length_ = n THEN at + 1 ELSE at
             /\ UNCHANGED ec
    <2>1. n \in Nat /\ n <= length_ /\ n <= avail_out /\ (offset_ > used => n <= back)
      BY <1>5 DEF clamp
    <2>2. PICK m \in Nat : m = n
      BY <2>1
    <2> HIDE DEF n
    <2>3. /\ m <= length_ /\ m <= avail_out
          /\ offset_ > used => offset_ - used <= Len(window) /\ m <= offset_ - used
      BY <1>8, <2>1, <2>2
    <2>4. /\ Distance(item) <= T /\ Len(output) + m <= Len(Text(stream))
          /\ \E p \in Seq(Byte) :
                /\ Len(p) = m /\ \A x \in 1 .. m : p[x] = Text(stream)[Len(output) + x]
                /\ output \o p = IF offset_ > used THEN output \o FromWindow(offset_ - used, m)
                                 ELSE Repeated(output, offset_, m)
      BY <1>1, <2>3, MatchCopies DEF T
    <2>5. PICK p \in Seq(Byte) :
                /\ Len(p) = m /\ \A x \in 1 .. m : p[x] = Text(stream)[Len(output) + x]
                /\ output' = output \o p
      BY <1>8, <2>2, <2>4
    <2>6. /\ output' \in Seq(Byte) /\ Len(output') = Len(output) + m
          /\ Len(output) <= Len(output') /\ \A k \in 1 .. Len(output) : output'[k] = output[k]
          /\ \A k \in 1 .. Len(output') : output'[k] = Text(stream)[k]
      <3>1. output \in Seq(Byte) /\ Text(stream) \in Seq(Byte)
        BY <1>3, Numbers, StateTypes, StreamTypes
      <3>2. /\ output \o p \in Seq(Byte) /\ Len(output \o p) = Len(output) + Len(p)
            /\ Len(output) <= Len(output \o p)
            /\ \A k \in 1 .. Len(output) : (output \o p)[k] = output[k]
            /\ \A k \in 1 .. Len(output \o p) : (output \o p)[k] = Text(stream)[k]
        BY <1>4, <2>4, <2>5, <3>1, Writes
      <3> QED BY <2>5, <3>2
    <2>7. avail_out' \in Nat /\ length_' \in Nat /\ length_' = length_ - m
          /\ Len(output') = T + (L - length_')
      <3>1. avail_out' = avail_out - m /\ length_' = length_ - m
        BY <1>8, <2>2
      <3> QED BY <1>4, <1>5, <2>3, <2>6, <3>1
    <2>8. stream' = stream /\ pc' = "switch" /\ mode_' = IF length_ = m THEN "LEN" ELSE "MATCH"
      BY <1>8, <2>2, FrameEffect DEF Goto
    <2>9. mode_' \in SymbolModes /\ mode_' \in InnerModes /\ check_' = check_
      BY <1>1, <2>8 DEF InnerModes, SymbolModes
    <2>10. BlockRegisters' /\ StopInv' /\ BlockBits'
      BY <2>8 DEF BlockRegisters, StopInv, BlockBits
    <2>11. Len(output') <= Len(Text(stream'))
      BY <2>4, <2>6, <2>8
    <2>12. CASE length_ = m
      <3>1. mode_' = "LEN" /\ at' = at + 1 /\ length_' = 0
        BY <1>5, <1>8, <2>2, <2>7, <2>8, <2>12
      <3>2. SoundItem(item, stream.text[at], Len(stream.text[at]))
        BY <1>1, <2>4 DEF SoundItem, T
      <3>3. ItemInv' /\ at + 1 \in 1 .. N
        BY <1>1, <1>2, <2>9, <3>1, <3>2, SymbolCloses
      <3>4. TextInv'
        <4>1. Len(stream.text[at + 1]) = T + item.len + item.len_v /\ Copied' = 0
          BY <1>1, <1>3, <2>4, <3>1, TextLength DEF Copied, T
        <4>2. Len(output') = Len(stream'.text[at']) + Copied'
          <5>1. L = item.len + item.len_v /\ item.len \in Nat /\ item.len_v \in Nat /\ T \in Nat
            BY <1>5 DEF L
          <5>2. Len(stream'.text[at']) = Len(stream.text[at + 1])
            BY <2>8, <3>1
          <5>3. length_' = 0
            BY <3>1
          <5>4. Len(output') = T + (L - length_')
            BY <2>7
          <5> QED BY ONLY <4>1, <5>1, <5>2, <5>3, <5>4
        <4> QED BY <2>6, <2>8, <2>11, <4>2 DEF TextInv
      <3>5. SymbolRegisters'
        BY <3>1 DEF SymbolRegisters
      <3>6. SymbolBits'
        <4>1. stream.start[at + 1]
                = stream.start[at] + item.bits + item.extra + item.dbits + item.dextra
          BY <1>1, <1>3, ItemAt DEF After
        <4> QED BY <1>1, <2>8, <3>1, <4>1 DEF SymbolBits
      <3>7. Registered'
        <4>1. at' \in 1 .. N' + 1
          <5>1. N \in Nat /\ N' = N /\ at' \in 1 .. N
            BY <3>1, <3>3, Numbers, FrameEffect
          <5> QED BY <5>1
        <4> QED BY <1>1, <2>7, <4>1, Numbers, FrameEffect DEF Registered
      <3> QED BY <1>2, <1>3, <2>6, <2>7, <2>8, <2>9, <2>10, <3>1, <3>2, <3>3, <3>4, <3>5, <3>6, <3>7,
              InnerGoes
    <2>13. CASE length_ # m
      <3>1. mode_' = "MATCH" /\ at' = at
        BY <1>8, <2>2, <2>8, <2>13
      <3>2. ItemInv' /\ item' = item
        BY <1>1, <1>2, <2>9, <3>1, SameItem
      <3>3. TextInv'
        <4>1. Copied' = L - length_' /\ Len(stream'.text[at']) = T
          BY <2>8, <3>1, <3>2 DEF Copied, L, T
        <4> QED BY <2>6, <2>7, <2>8, <2>11, <4>1 DEF TextInv
      <3>4. SymbolRegisters'
        <4>1. length_' <= L
          <5>1. length_ \in Nat /\ length_ <= L
            BY <1>1, <1>5 DEF L
          <5>2. length_' = length_ - m /\ m \in Nat /\ L \in Nat
            BY <1>5, <2>7
          <5> QED BY ONLY <5>1, <5>2
        <4>2. Distance(item)' = Distance(item)
          BY <3>2 DEF Distance
        <4> QED BY <1>1, <2>4, <2>8, <3>1, <3>2, <4>1, <4>2 DEF SymbolRegisters, L, T
      <3>5. SymbolBits'
        BY <1>1, <2>8, <3>1, <3>2 DEF SymbolBits
      <3>6. Registered'
        BY <1>1, <2>7, <3>1, Numbers, FrameEffect DEF Registered
      <3> QED BY <1>2, <2>6, <2>7, <2>8, <2>9, <2>10, <3>1, <3>2, <3>3, <3>4, <3>5, <3>6, InnerGoes
    <2> QED BY <2>12, <2>13
  <1> QED BY <1>6, <1>7, <1>8 DEF MATCH

-----------------------------------------------------------------------------
(* The fast path *)

\* Where the input is when a symbol has been read and n bits are left of the r bytes it took.
LEMMA FastInput ==
    ASSUME IInv, pc = "fast", NEW d \in Nat, NEW n \in 0 .. 32, NEW r \in 0 .. 6,
           n + d - n_ = 8 * r
    PROVE  /\ Reached(d, n) \in Nat /\ Reached(d, n) <= in_last
           /\ 8 * Reached(d, n) - n = Bit + d
  <1>1. next_in \in Nat /\ in_last \in Nat /\ n_ \in 0 .. 32
    BY Numbers
  <1>2. in_last - next_in >= 6
    BY DEF IInv, RangeInv, FastEnough, avail
  <1>3. Reached(d, n) = next_in + r
    BY DEF Reached
  <1> QED BY <1>1, <1>2, <1>3 DEF Bit

\* Whole bytes of the reservoir are given back.
LEMMA RewindEffect ==
    ASSUME NEW next \in Nat, NEW n \in 0 .. 32, next <= in_last, in_last \in Nat,
           8 * next - n >= 0, rewind(next, n)
    PROVE  /\ n_' \in 0 .. 32 /\ next_in' \in Nat /\ next_in' <= in_last
           /\ 8 * next_in' - n_' = 8 * next - n
  <1>1. PICK q \in 0 .. 4 : q = n \div 8
    OBVIOUS
  <1>2. PICK s \in 0 .. 7 : s = n % 8
    OBVIOUS
  <1>3. n = 8 * q + s
    BY <1>1, <1>2
  <1>4. next_in' = next - q /\ n_' = s
    BY <1>1, <1>2 DEF rewind
  <1> QED BY <1>3, <1>4

\* The end of a pass of inflate_fast goes on with enough left, or gives whole bytes back.
LEMMA FastNextEffect ==
    ASSUME NEW next \in Nat, NEW n \in 0 .. 32, next <= in_last, in_last \in Nat,
           8 * next - n >= 0, in_last' = in_last, FastNext(next, n)
    PROVE  /\ n_' \in 0 .. 32 /\ next_in' \in Nat /\ next_in' <= in_last
           /\ 8 * next_in' - n_' = 8 * next - n
           /\ pc' \in {"fast", "switch"} /\ (pc' = "fast" => FastEnough')
  <1>1. CASE pc' = "switch" /\ rewind(next, n)
    BY <1>1, RewindEffect
  <1>2. CASE /\ in_last - next >= 6 /\ avail_out' >= max_match
             /\ pc' = "fast" /\ next_in' = next /\ n_' = n
    BY <1>2 DEF FastEnough, avail
  <1> QED BY <1>1, <1>2 DEF FastNext

\* A symbol of the fast path.
LEMMA FastAt ==
    ASSUME IInv, pc = "fast"
    PROVE  /\ mode_ = "LEN" /\ mode_ \in SymbolModes /\ mode_ \in InnerModes
           /\ Bit = stream.start[at] /\ stream.start[at] \in Nat
           /\ TypeOK /\ at \in 1 .. N /\ at <= N /\ item \in Item /\ item.op \in Symbols
           /\ item.bits \in 1 .. 15 /\ \E j \in 1 .. at : InBlockOf(j)
           /\ n_ \in 0 .. 32 /\ in_last \in Nat /\ avail_out >= max_match
           /\ Len(output) = Len(stream.text[at])
           /\ \A k \in 1 .. Len(output) : output[k] = Text(stream)[k]
  <1>1. mode_ = "LEN" /\ avail_out >= max_match
    BY DEF IInv, RangeInv, FastEnough
  <1>2. mode_ \in SymbolModes /\ mode_ \in InnerModes
    BY <1>1 DEF SymbolModes, InnerModes
  <1>3. Bit = stream.start[at]
    BY <1>1 DEF IInv, BitInv, SymbolBits
  <1>4. Len(output) = Len(stream.text[at]) + 0 /\ \A k \in 1 .. Len(output) : output[k] = Text(stream)[k]
    BY <1>1 DEF IInv, TextInv, Copied
  <1>5. at <= N /\ TypeOK
    BY <1>2, SymbolAt
  <1>6. Len(stream.text[at]) \in Nat
    BY <1>5, ItemAt
  <1> QED BY <1>1, <1>2, <1>3, <1>4, <1>6, SymbolAt, Numbers

\* The reservoir when one code has been read of it.
LEMMA CodeRead ==
    ASSUME NEW m \in 0 .. 32, NEW b \in 1 .. 15
    PROVE  /\ Fill16(m) - b \in 0 .. 31
           /\ \E r \in {0, 2} : Fill16(m) = m + 8 * r
  BY DEF Fill16

\* A step of the fast path to the next symbol.
LEMMA FastGoes ==
    ASSUME IInv, UNCHANGED frame, pc = "fast", at' = at + 1, sym' = sym, code' = code,
           mode_' = mode_, last_' = last_, check_' = check_, avail_out' \in Nat,
           output' \in Seq(Byte), Len(output) <= Len(output'),
           \A k \in 1 .. Len(output) : output'[k] = output[k],
           TextInv', ItemInv', at' \in 1 .. N' + 1,
           SoundItem(item, stream.text[at], Len(stream.text[at])),
           NEW d \in Nat, NEW n \in 0 .. 32, NEW r \in 0 .. 6, n + d - n_ = 8 * r,
           stream.start[at + 1] = stream.start[at] + d,
           FastNext(Reached(d, n), n)
    PROVE  IInv'
  <1>1. /\ mode_ = "LEN" /\ mode_ \in InnerModes /\ Bit = stream.start[at] /\ stream.start[at] \in Nat
        /\ in_last \in Nat /\ at <= N
    BY FastAt
  <1>2. PICK next \in Nat : next = Reached(d, n) /\ next <= in_last /\ 8 * next - n = Bit + d
    BY FastInput
  <1>3. 8 * next - n >= 0
    <2>1. Bit \in Nat
      BY <1>1
    <2>0. d \in Nat /\ n \in 0 .. 32 /\ next \in Nat
      OBVIOUS
    <2>2. 8 * next - n = Bit + d
      BY <1>2
    <2> QED BY ONLY <2>0, <2>1, <2>2
  <1>4. FastNext(next, n) /\ in_last' = in_last /\ stream' = stream
    BY <1>2, FrameEffect
  <1>5. /\ n_' \in 0 .. 32 /\ next_in' \in Nat /\ next_in' <= in_last
        /\ 8 * next_in' - n_' = 8 * next - n
        /\ pc' \in {"fast", "switch"} /\ (pc' = "fast" => FastEnough')
    BY <1>1, <1>2, <1>3, <1>4, FastNextEffect
  <1>6. Bit' = stream.start[at + 1]
    BY <1>1, <1>2, <1>5 DEF Bit
  <1>7. BlockRegisters' /\ SymbolRegisters' /\ StopInv'
    BY <1>1, <1>5 DEF BlockRegisters, SymbolRegisters, StopInv
  <1>8. BlockBits' /\ SymbolBits'
    BY <1>1, <1>4, <1>6 DEF BlockBits, SymbolBits
  <1>9. Registered'
    BY <1>5, Numbers, FrameEffect DEF Registered, code
  <1> QED BY <1>1, <1>5, <1>7, <1>8, <1>9, InnerGoes

\* The pass fast_literal keeps the invariant.
LEMMA Keeps_fast_literal ==
    ASSUME IInv, UNCHANGED frame, fast_literal
    PROVE  IInv'
  <1>1. /\ pc = "fast" /\ item.op = "lit" /\ output' = Append(output, item.byte)
        /\ avail_out' = avail_out - 1 /\ at' = at + 1 /\ sym' = sym /\ code' = code
        /\ mode_' = mode_ /\ last_' = last_ /\ check_' = check_
        /\ lenbits_' = lenbits_ /\ distbits_' = distbits_
    BY DEF fast_literal, code, state
  <1>2. /\ mode_ = "LEN" /\ n_ \in 0 .. 32 /\ item.bits \in 1 .. 15 /\ avail_out >= max_match
        /\ max_match \in Nat \ {0} /\ avail_out \in Nat
    BY <1>1, FastAt, Numbers, InflateAssumption
  <1>3. /\ output' \in Seq(Byte) /\ Len(output) <= Len(output')
        /\ \A k \in 1 .. Len(output) : output'[k] = output[k]
        /\ TextInv' /\ ItemInv' /\ at' \in 1 .. N' + 1
        /\ SoundItem(item, stream.text[at], Len(stream.text[at]))
        /\ stream.start[at + 1] = stream.start[at] + item.bits
    BY <1>1, <1>2, LiteralWrites
  <1>4. PICK d \in 1 .. 15 : d = item.bits
    BY <1>2
  <1>5. PICK n \in 0 .. 32 : n = Fill16(n_) - d
    <2>1. Fill16(n_) - d \in 0 .. 31
      BY <1>2, CodeRead
    <2> QED BY <2>1
  <1>6. PICK r \in 0 .. 6 : n + d - n_ = 8 * r
    <2>1. PICK r \in {0, 2} : Fill16(n_) = n_ + 8 * r
      BY <1>2, <1>4, CodeRead
    <2>2. r \in 0 .. 6 /\ n + d - n_ = 8 * r
      BY <1>2, <1>5, <2>1
    <2> QED BY <2>2
  <1>7. FastNext(Reached(d, n), n)
    BY <1>4, <1>5 DEF fast_literal
  <1>8. avail_out' \in Nat /\ d \in Nat
    BY <1>1, <1>2
  <1> QED BY <1>1, <1>3, <1>4, <1>6, <1>7, <1>8, FastGoes

\* The pass fast_end_of_block keeps the invariant.
LEMMA Keeps_fast_end_of_block ==
    ASSUME IInv, UNCHANGED frame, fast_end_of_block
    PROVE  IInv'
  <1>1. /\ pc = "fast" /\ item.op = "eob" /\ mode_' = "TYPE" /\ pc' = "switch" /\ at' = at + 1
        /\ sym' = sym /\ code' = code /\ last_' = last_ /\ check_' = check_
        /\ output' = output /\ avail_out' = avail_out
    BY DEF fast_end_of_block, Goto, result
  <1>2. /\ mode_ = "LEN" /\ mode_ \in InnerModes /\ Bit = stream.start[at] /\ stream.start[at] \in Nat
        /\ n_ \in 0 .. 32 /\ item.bits \in 1 .. 15 /\ TypeOK /\ at \in 1 .. N /\ at <= N
        /\ in_last \in Nat /\ \E j \in 1 .. at : InBlockOf(j)
    BY <1>1, FastAt
  <1>3. PICK d \in 1 .. 15 : d = item.bits
    BY <1>2
  <1>4. PICK n \in 0 .. 32 : n = Fill16(n_) - d
    <2>1. Fill16(n_) - d \in 0 .. 31
      BY <1>2, CodeRead
    <2> QED BY <2>1
  <1>5. PICK r \in 0 .. 6 : n + d - n_ = 8 * r
    <2>1. PICK r \in {0, 2} : Fill16(n_) = n_ + 8 * r
      BY <1>2, <1>3, CodeRead
    <2>2. r \in 0 .. 6 /\ n + d - n_ = 8 * r
      BY <1>2, <1>4, <2>1
    <2> QED BY <2>2
  <1>6. rewind(Reached(d, n), n)
    BY <1>3, <1>4 DEF fast_end_of_block
  <1>7. n_' \in 0 .. 32 /\ next_in' \in Nat /\ next_in' <= in_last /\ Bit' = Bit + item.bits
    <2>1. d \in Nat
      BY <1>3
    <2>2. PICK next \in Nat : next = Reached(d, n) /\ next <= in_last /\ 8 * next - n = Bit + d
      BY <1>1, <1>5, <2>1, FastInput
    <2>3. 8 * next - n >= 0 /\ rewind(next, n)
      BY <1>2, <1>6, <2>2
    <2>4. /\ n_' \in 0 .. 32 /\ next_in' \in Nat /\ next_in' <= in_last
          /\ 8 * next_in' - n_' = 8 * next - n
      BY <1>2, <2>2, <2>3, RewindEffect
    <2> QED BY <1>3, <2>2, <2>4 DEF Bit
  <1>8. PICK j \in 1 .. at : InBlockOf(j)
    BY <1>2
  <1>9. ItemInv' /\ SoundItem(item, stream.text[at], Len(stream.text[at]))
    BY <1>1, <1>2, <1>8, BlockCloses
  <1>10. mode_' \in InnerModes /\ stream' = stream
    BY <1>1, FrameEffect DEF InnerModes, BlockModes
  <1>11. BlockRegisters' /\ SymbolRegisters' /\ StopInv'
    BY <1>1 DEF BlockRegisters, SymbolRegisters, StopInv
  <1>12. BlockBits' /\ SymbolBits'
    <2>1. stream.start[at + 1] = stream.start[at] + item.bits
      BY <1>1, <1>2, ItemAt DEF After
    <2> QED BY <1>1, <1>2, <1>7, <1>10, <2>1 DEF BlockBits, SymbolBits
  <1>13. TextAt' = TextAt
    <2>1. stream.text[at + 1] = stream.text[at]
      BY <1>1, <1>2, TextLength
    <2> QED BY <1>1, <1>2, <1>10, <2>1 DEF TextAt, Copied
  <1>14. Registered'
    <2>1. at + 1 \in 1 .. N + 1
      <3>1. at <= N /\ N \in Nat /\ at \in 1 .. N + 1
        BY <1>2, Numbers
      <3> QED BY ONLY <3>1
    <2>2. at' \in 1 .. N' + 1
      BY <1>1, <2>1, FrameEffect
    <2> QED BY <1>1, <1>7, <2>2, Numbers, FrameEffect DEF Registered, code
  <1> QED BY <1>1, <1>2, <1>9, <1>10, <1>11, <1>12, <1>13, <1>14, InnerMoves

\* The reservoir when extra bits have been read of it.
LEMMA ExtraRead ==
    ASSUME NEW m \in 0 .. 31, NEW b \in 0 .. 13
    PROVE  /\ Fill8For(m, b) - b \in 0 .. 31
           /\ \E r \in 0 .. 2 :
                /\ Fill8For(m, b) = m + 8 * r /\ (r > 0 => Fill8For(m, b) - b < 8)
                /\ b <= 8 => r <= 1
  <1>1. CASE m >= b
    <2>1. Fill8For(m, b) = m
      BY <1>1 DEF Fill8For
    <2> QED BY <1>1, <2>1
  <1>2. CASE m < b /\ m + 8 >= b
    <2>1. Fill8For(m, b) = m + 8
      BY <1>2 DEF Fill8For
    <2> QED BY <1>2, <2>1
  <1>3. CASE m + 8 < b
    <2>1. Fill8For(m, b) = m + 16
      BY <1>3 DEF Fill8For
    <2> QED BY <1>3, <2>1
  <1> QED BY <1>1, <1>2, <1>3

\* The reservoir after the length of a match, after the code of its distance, and after all of it.
LEMMA MatchRead ==
    ASSUME n_ \in 0 .. 32, NEW e \in Item, e.op = "match"
    PROVE  /\ Fill16(AfterLength(e)) - e.dbits \in 0 .. 32
           /\ \E r \in 0 .. 6 :
                Fill16(AfterLength(e)) - e.dbits + (e.bits + e.extra + e.dbits) - n_ = 8 * r
           /\ AfterMatch(e) \in 0 .. 32
           /\ \E r \in 0 .. 6 :
                AfterMatch(e) + (e.bits + e.extra + e.dbits + e.dextra) - n_ = 8 * r
  <1>1. PICK b \in 1 .. 15 : b = e.bits
    BY ItemTypes DEF Symbols
  <1>2. PICK x \in 0 .. 5 : x = e.extra
    BY MatchTypes
  <1>3. PICK c \in 1 .. 15 : c = e.dbits
    BY MatchTypes
  <1>4. PICK y \in 0 .. 13 : y = e.dextra
    BY MatchTypes
  <1>5. PICK i \in 0 .. 32 : i = n_
    OBVIOUS
  <1>6. PICK m1 \in 0 .. 31, r1 \in 0 .. 2 : m1 = Fill16(i) - b /\ m1 + b = i + 8 * r1
    <2>1. Fill16(i) - b \in 0 .. 31 /\ \E r \in {0, 2} : Fill16(i) = i + 8 * r
      BY CodeRead
    <2> QED BY <2>1
  <1>7. PICK m2 \in 0 .. 31, r2 \in 0 .. 1 : m2 = AfterLength(e) /\ m2 + x = m1 + 8 * r2
    <2>1. AfterLength(e) = Fill8For(m1, x) - x
      BY <1>1, <1>2, <1>5, <1>6 DEF AfterLength
    <2>2. x \in 0 .. 13 /\ x <= 8
      OBVIOUS
    <2>3. PICK r \in 0 .. 2 : Fill8For(m1, x) = m1 + 8 * r /\ r <= 1
      BY <2>2, ExtraRead
    <2>4. Fill8For(m1, x) - x \in 0 .. 31
      BY <2>2, ExtraRead
    <2> QED BY <2>1, <2>3, <2>4
  <1>8. PICK m3 \in 0 .. 31, r3 \in 0 .. 2 :
            m3 = Fill16(AfterLength(e)) - e.dbits /\ m3 + c = m2 + 8 * r3
    <2>1. Fill16(m2) - c \in 0 .. 31 /\ \E r \in {0, 2} : Fill16(m2) = m2 + 8 * r
      <3>1. m2 \in 0 .. 32
        OBVIOUS
      <3> QED BY <3>1, CodeRead
    <2>2. PICK r \in {0, 2} : Fill16(m2) = m2 + 8 * r
      BY <2>1
    <2>3. PICK q \in 0 .. 31 : q = Fill16(m2) - c
      BY <2>1
    <2>4. q + c = m2 + 8 * r /\ r \in 0 .. 2
      BY <2>2, <2>3
    <2> QED BY <1>3, <1>7, <2>3, <2>4
  <1>9. PICK m4 \in 0 .. 31, r4 \in 0 .. 2 :
            m4 = AfterMatch(e) /\ m4 + y = m3 + 8 * r4 /\ (r4 > 0 => m4 < 8)
    <2>1. AfterMatch(e) = Fill8For(m3, y) - y
      BY <1>4, <1>8 DEF AfterMatch
    <2>2. PICK r \in 0 .. 2 : Fill8For(m3, y) = m3 + 8 * r /\ (r > 0 => Fill8For(m3, y) - y < 8)
      BY ExtraRead
    <2>3. Fill8For(m3, y) - y \in 0 .. 31
      BY ExtraRead
    <2> QED BY <2>1, <2>2, <2>3
  <1>10. /\ m1 + b = i + 8 * r1 /\ m2 + x = m1 + 8 * r2
         /\ m3 + c = m2 + 8 * r3 /\ m4 + y = m3 + 8 * r4
    BY <1>6, <1>7, <1>8, <1>9
  <1>11. PICK s \in 0 .. 6 : m3 + (b + x + c) - i = 8 * s
    <2>1. r1 + r2 + r3 \in 0 .. 6 /\ m3 + (b + x + c) - i = 8 * (r1 + r2 + r3)
      BY <1>10
    <2> QED BY <2>1
  <1>12. PICK q \in 0 .. 6 : m4 + (b + x + c + y) - i = 8 * q
    <2>1. m4 + (b + x + c + y) - i = 8 * (r1 + r2 + r3 + r4)
      BY <1>10
    <2>2. r4 > 0 => m4 < 8
      BY <1>9
    <2>3. r1 + r2 + r3 + r4 \in 0 .. 6
      BY <2>1, <2>2
    <2> QED BY <2>1, <2>3
  <1>13. /\ m3 = Fill16(AfterLength(e)) - e.dbits /\ m4 = AfterMatch(e)
         /\ b + x + c = e.bits + e.extra + e.dbits
         /\ b + x + c + y = e.bits + e.extra + e.dbits + e.dextra
    BY <1>1, <1>2, <1>3, <1>4, <1>8, <1>9
  <1>14. m3 \in 0 .. 32 /\ m4 \in 0 .. 32
    OBVIOUS
  <1> QED BY <1>5, <1>11, <1>12, <1>13, <1>14

\* A copy out of the output.
LEMMA RepeatedWrites ==
    ASSUME NEW t \in Seq(Byte), NEW w \in Seq(Byte), NEW d \in Nat \ {0}, NEW m \in Nat,
           d <= Len(w), Len(w) + m <= Len(t),
           \A k \in 1 .. Len(w) : w[k] = t[k],
           \A x \in 1 .. m : t[Len(w) + x] = t[Len(w) + x - d]
    PROVE  /\ Repeated(w, d, m) \in Seq(Byte) /\ Len(Repeated(w, d, m)) = Len(w) + m
           /\ \A k \in 1 .. Len(Repeated(w, d, m)) : Repeated(w, d, m)[k] = t[k]
  <1>1. PICK p \in Seq(Byte) :
            /\ Repeated(w, d, m) = w \o p /\ Len(p) = m
            /\ \A x \in 1 .. m : p[x] = t[Len(w) + x]
    BY RepeatedText, ZenonT(30)
  <1>2. /\ w \o p \in Seq(Byte) /\ Len(w \o p) = Len(w) + Len(p)
        /\ \A k \in 1 .. Len(w \o p) : (w \o p)[k] = t[k]
    <2>1. Len(w) + Len(p) <= Len(t)
      BY <1>1
    <2>2. \A x \in 1 .. Len(p) : p[x] = t[Len(w) + x]
      BY <1>1
    <2>3. \A k \in 1 .. Len(w) : w[k] = t[k]
      OBVIOUS
    <2>4. t \in Seq(Byte) /\ w \in Seq(Byte) /\ p \in Seq(Byte)
      BY <1>1
    <2> QED BY ONLY <2>1, <2>2, <2>3, <2>4, Writes
  <1> QED BY <1>1, <1>2

\* What inflate_fast writes for a match is the next piece of the text.
LEMMA FastCopies ==
    ASSUME IInv, pc = "fast", item.op = "match", NEW d \in Nat \ {0}, d = Distance(item),
           NEW L \in Nat, L = item.len + item.len_v, NEW n \in Nat, n <= L,
           n > 0 => d - used > 0 /\ n <= d - used,
           d - used <= Len(window)
    PROVE  LET w == IF n > 0 THEN output \o FromWindow(d - used, n) ELSE output
               u == IF L > n THEN Repeated(w, d, L - n) ELSE w
           IN  /\ Distance(item) <= Len(stream.text[at])
               /\ u \in Seq(Byte) /\ Len(u) = Len(output) + L /\ Len(u) <= Len(Text(stream))
               /\ \A k \in 1 .. Len(u) : u[k] = Text(stream)[k]
               /\ \A k \in 1 .. Len(output) : u[k] = output[k]
  <1> DEFINE w == IF n > 0 THEN output \o FromWindow(d - used, n) ELSE output
             u == IF L > n THEN Repeated(w, d, L - n) ELSE w
             t == Text(stream)
             l == Len(output)
  <1> HIDE DEF w, u
  <1>1. /\ mode_ \in SymbolModes /\ TypeOK /\ at <= N /\ item \in Item
        /\ l = Len(stream.text[at]) /\ \A k \in 1 .. l : output[k] = t[k]
    BY FastAt
  <1>2. t \in Seq(Byte) /\ Len(t) \in Nat
    BY <1>1, StateTypes, StreamTypes
  <1>3. d \in Nat \ {0} /\ L \in Nat
    OBVIOUS
  <1>4. output \in Seq(Byte) /\ l \in Nat /\ total_out \in Nat /\ total_out <= l
    BY Numbers
  <1>5. window \in Seq(Byte) /\ window = LastBytes(SubSeq(output, 1, total_out))
    BY <1>1, WindowLength
  <1>6. d <= l
    BY <1>1, <1>3, Reach
  <1>7. l + L <= Len(t) /\ \A x \in 1 .. L : t[l + x] = t[l + x - d]
    BY <1>1, <1>6, MatchText
  <1>8. n \in Nat /\ n <= L /\ L - n \in Nat
    OBVIOUS
  <1>9. n > 0 => n <= d - used /\ d - used > 0
    OBVIOUS
  <1>10. w \in Seq(Byte) /\ Len(w) = l + n /\ \A k \in 1 .. l + n : w[k] = t[k]
    <2>1. CASE n = 0
      <3>1. w = output /\ l + n = l
        BY <1>4, <2>1 DEF w
      <3> QED BY <1>1, <1>4, <3>1
    <2>2. CASE n > 0
      <3>1. w = output \o FromWindow(d - used, n) /\ d - used > 0 /\ n <= d - used
        BY <1>9, <2>2 DEF w
      <3>2. Len(output) + n <= Len(t)
        BY <1>2, <1>3, <1>4, <1>7, <1>8
      <3>3. \A x \in 1 .. n : t[Len(output) + x] = t[Len(output) + x - d]
        <4>1. \A x \in 1 .. n : x \in 1 .. L
          BY <1>3, <1>8
        <4> QED BY <1>7, <4>1
      <3>4. \A k \in 1 .. Len(output) : output[k] = t[k]
        BY <1>1
      <3>5. PICK p \in Seq(Byte) :
                /\ p = FromWindow(d - used, n) /\ Len(p) = n
                /\ \A x \in 1 .. n : p[x] = t[Len(output) + x]
        <4> HIDE DEF t
        <4>1. t \in Seq(Byte) /\ d \in Nat \ {0} /\ n \in Nat
          BY <1>2, <1>3, <1>8
        <4>2. output \in Seq(Byte) /\ total_out \in Nat /\ total_out <= Len(output)
          BY <1>4
        <4>3. d - used > 0 /\ n <= d - used /\ d - used <= Len(window)
          BY <3>1
        <4>4. /\ FromWindow(d - used, n) \in Seq(Byte) /\ Len(FromWindow(d - used, n)) = n
              /\ \A x \in 1 .. n : FromWindow(d - used, n)[x] = t[Len(output) + x]
          BY ONLY <1>5, <3>2, <3>3, <3>4, <4>1, <4>2, <4>3, WindowText, ZenonT(30)
        <4> QED BY <4>4
      <3>6. /\ output \o p \in Seq(Byte) /\ Len(output \o p) = Len(output) + Len(p)
            /\ \A k \in 1 .. Len(output \o p) : (output \o p)[k] = t[k]
        <4> HIDE DEF t
        <4>1. Len(output) + Len(p) <= Len(t) /\ \A x \in 1 .. Len(p) : p[x] = t[Len(output) + x]
          BY <3>2, <3>5
        <4>2. output \in Seq(Byte) /\ t \in Seq(Byte)
          BY <1>2, <1>4
        <4> QED BY <3>4, <4>1, <4>2, Writes
      <3> QED BY <3>1, <3>5, <3>6
    <2>3. n = 0 \/ n > 0
      BY <1>8
    <2> QED BY <2>1, <2>2, <2>3
  <1>11. u \in Seq(Byte) /\ Len(u) = l + L /\ \A k \in 1 .. l + L : u[k] = t[k]
    <2>1. CASE ~(L > n)
      <3>1. u = w /\ l + n = l + L
        BY <1>3, <1>4, <1>8, <2>1 DEF u
      <3> QED BY <1>10, <3>1
    <2>2. CASE L > n
      <3>1. PICK m \in Nat : m = L - n
        BY <1>8
      <3>2. u = Repeated(w, d, m) /\ Len(w) + m = l + L
        BY <1>3, <1>4, <1>8, <1>10, <2>2, <3>1 DEF u
      <3>3. d <= Len(w) /\ Len(w) + m <= Len(t)
        <4>1. l \in Nat /\ Len(w) = l + n /\ l + L <= Len(t)
          BY <1>4, <1>7, <1>10
        <4> QED BY <1>6, <3>2, <4>1
      <3>4. \A k \in 1 .. Len(w) : w[k] = t[k]
        BY <1>10
      <3>5. ASSUME NEW x \in 1 .. m PROVE t[Len(w) + x] = t[Len(w) + x - d]
        <4>1. l \in Nat /\ Len(w) = l + n
          BY <1>4, <1>10
        <4>2. n + x \in 1 .. L /\ l + (n + x) = Len(w) + x /\ l + (n + x) - d = Len(w) + x - d
          BY <3>1, <4>1
        <4>3. t[l + (n + x)] = t[l + (n + x) - d]
          BY <1>7, <4>2
        <4> QED BY <4>2, <4>3
      <3>6. w \in Seq(Byte) /\ t \in Seq(Byte)
        BY <1>2, <1>10
      <3>7. /\ Repeated(w, d, m) \in Seq(Byte) /\ Len(Repeated(w, d, m)) = Len(w) + m
            /\ \A k \in 1 .. Len(Repeated(w, d, m)) : Repeated(w, d, m)[k] = t[k]
        <4> HIDE DEF l, t
        <4>1. PICK v \in Seq(Byte) : v = w
          BY <3>6
        <4>2. PICK s \in Seq(Byte) : s = t
          BY <3>6
        <4>3. d <= Len(v) /\ Len(v) + m <= Len(s)
          BY <3>3, <4>1, <4>2
        <4>4. \A k \in 1 .. Len(v) : v[k] = s[k]
          BY <3>4, <4>1, <4>2
        <4>5. \A x \in 1 .. m : s[Len(v) + x] = s[Len(v) + x - d]
          BY <3>5, <4>1, <4>2
        <4>6. /\ Repeated(v, d, m) \in Seq(Byte) /\ Len(Repeated(v, d, m)) = Len(v) + m
              /\ \A k \in 1 .. Len(Repeated(v, d, m)) : Repeated(v, d, m)[k] = s[k]
          <5>1. d \in Nat \ {0} /\ m \in Nat /\ v \in Seq(Byte) /\ s \in Seq(Byte)
            OBVIOUS
          <5> QED BY ONLY <4>3, <4>4, <4>5, <5>1, RepeatedWrites, ZenonT(30)
        <4> QED BY <4>1, <4>2, <4>6
      <3> QED BY <3>2, <3>7
    <2> QED BY <2>1, <2>2
  <1>12. \A k \in 1 .. l : k \in 1 .. l + L
    BY <1>3, <1>4
  <1> QED BY <1>1, <1>6, <1>7, <1>11, <1>12 DEF w, u

\* A symbol of the fast path that is refused, and the bytes that are given back.
LEMMA FastFails ==
    ASSUME IInv, UNCHANGED frame, pc = "fast", NEW e, err(e), code' = code, place' = place,
           check_' = check_, last_' = last_,
           NEW d \in Nat, NEW n \in 0 .. 32, NEW r \in 0 .. 6, n + d - n_ = 8 * r,
           rewind(Reached(d, n), n)
    PROVE  IInv'
  <1>1. Bit \in Nat /\ in_last \in Nat
    BY FastAt
  <1>2. PICK next \in Nat : next = Reached(d, n) /\ next <= in_last /\ 8 * next - n = Bit + d
    BY FastInput
  <1>3. 8 * next - n >= 0 /\ rewind(next, n)
    BY <1>1, <1>2
  <1>4. n_' \in 0 .. 32 /\ next_in' \in Nat /\ next_in' <= in_last
    BY <1>1, <1>2, <1>3, RewindEffect
  <1>5. check_' \in Nat /\ last_' \in BOOLEAN
    BY Numbers
  <1> QED BY <1>4, <1>5, Fails

\* The pass fast_match keeps the invariant.
LEMMA Keeps_fast_match ==
    ASSUME IInv, UNCHANGED frame, fast_match
    PROVE  IInv'
  <1> DEFINE len  == item.len + item.len_v
             dist == Distance(item)
             back == dist - used
             n    == IF dist > used THEN clamp(len, back) ELSE 0
             w    == IF n > 0 THEN output \o FromWindow(back, n) ELSE output
             bits == item.bits + item.extra + item.dbits + item.dextra
             T    == Len(stream.text[at])
  <1>1. /\ pc = "fast" /\ item.op = "match" /\ item.valid
        /\ sym' = sym /\ code' = code /\ last_' = last_ /\ check_' = check_
        /\ lenbits_' = lenbits_ /\ distbits_' = distbits_
    BY DEF fast_match, code
  <1>2. /\ mode_ = "LEN" /\ mode_ \in SymbolModes /\ n_ \in 0 .. 32 /\ avail_out >= max_match
        /\ TypeOK /\ at \in 1 .. N /\ at <= N /\ item \in Item /\ Len(output) = T
        /\ \A k \in 1 .. Len(output) : output[k] = Text(stream)[k]
    BY <1>1, FastAt
  <1>3. /\ bits \in Nat /\ item.len \in Nat /\ item.len_v \in Nat /\ len \in Nat
        /\ dist \in Nat \ {0}
    <2>1. /\ item.len \in Nat /\ item.len_v \in Nat /\ Distance(item) \in Nat \ {0}
          /\ item.extra \in 0 .. 5 /\ item.dbits \in 1 .. 15 /\ item.dextra \in 0 .. 13
      BY <1>1, <1>2, MatchTypes
    <2>2. item.bits \in 1 .. 15
      BY <1>1, FastAt
    <2> QED BY <2>1, <2>2
  <1>4. PICK m \in 0 .. 32 : m = AfterMatch(item)
    BY <1>1, <1>2, MatchRead
  <1>5. PICK d \in Nat : d = bits
    BY <1>3
  <1>6. PICK r \in 0 .. 6 : m + d - n_ = 8 * r
    BY <1>1, <1>2, <1>4, <1>5, MatchRead
  <1>7. CASE back > Len(window) /\ err("invalid_distance") /\ rewind(Reached(d, m), m) /\ UNCHANGED at
    BY <1>1, <1>6, <1>7, FastFails DEF place
  <1>8. CASE /\ back <= Len(window)
             /\ output' = IF len > n THEN Repeated(w, dist, len - n) ELSE w
             /\ avail_out' = avail_out - len
             /\ at' = at + 1
             /\ FastNext(Reached(d, m), m)
             /\ UNCHANGED <<ec, mode_>>
    <2>1. used \in Nat
      <3>1. total_out \in Nat /\ Len(output) \in Nat /\ total_out <= Len(output)
        BY Numbers
      <3> QED BY <3>1 DEF used
    <2>2. n \in Nat /\ n <= len /\ (n > 0 => dist - used > 0 /\ n <= dist - used)
      <3> HIDE DEF len, dist
      <3> QED BY <1>3, <2>1 DEF clamp
    <2>3. PICK x \in Nat : x = n
      BY <2>2
    <2>4. PICK L \in Nat : L = len
      BY <1>3
    <2>5. PICK b \in Nat \ {0} : b = dist
      BY <1>3
    <2>6. x <= L /\ (x > 0 => b - used > 0 /\ x <= b - used) /\ b - used <= Len(window)
      BY <1>8, <2>2, <2>3, <2>4, <2>5
    <2>7. output' = LET v == IF x > 0 THEN output \o FromWindow(b - used, x) ELSE output
                    IN  IF L > x THEN Repeated(v, b, L - x) ELSE v
      <3> HIDE DEF n, len, dist
      <3> QED BY <1>8, <2>3, <2>4, <2>5
    <2> HIDE DEF n, len, dist, back, w
    <2>8. /\ Distance(item) <= T
          /\ output' \in Seq(Byte) /\ Len(output') = Len(output) + L
          /\ Len(output') <= Len(Text(stream))
          /\ \A k \in 1 .. Len(output') : output'[k] = Text(stream)[k]
          /\ \A k \in 1 .. Len(output) : output'[k] = output[k]
      <3> DEFINE v == IF x > 0 THEN output \o FromWindow(b - used, x) ELSE output
                 u == IF L > x THEN Repeated(v, b, L - x) ELSE v
      <3>1. /\ IInv /\ pc = "fast" /\ item.op = "match" /\ b = Distance(item)
            /\ L = item.len + item.len_v /\ x <= L /\ (x > 0 => b - used > 0 /\ x <= b - used)
            /\ b - used <= Len(window) /\ x \in Nat /\ b \in Nat \ {0} /\ L \in Nat
        BY <1>1, <2>4, <2>5, <2>6 DEF len, dist
      <3>2. /\ Distance(item) <= Len(stream.text[at])
            /\ u \in Seq(Byte) /\ Len(u) = Len(output) + L /\ Len(u) <= Len(Text(stream))
            /\ \A k \in 1 .. Len(u) : u[k] = Text(stream)[k]
            /\ \A k \in 1 .. Len(output) : u[k] = output[k]
        BY ONLY <3>1, FastCopies, ZenonT(30)
      <3>3. output' = u
        BY <2>7
      <3> HIDE DEF u, v
      <3> QED BY <3>2, <3>3 DEF T
    <2>9. mode_' = "LEN" /\ at' = at + 1 /\ stream' = stream /\ mode_' = mode_
      BY <1>2, <1>8, FrameEffect
    <2>10. SoundItem(item, stream.text[at], T)
      BY <1>1, <2>8 DEF SoundItem
    <2>11. ItemInv' /\ at + 1 \in 1 .. N
      BY <1>1, <1>2, <2>9, <2>10, SymbolCloses DEF T
    <2>12. at' \in 1 .. N' + 1
      <3>1. N' = N /\ N \in Nat
        BY Numbers, FrameEffect
      <3> QED BY <2>9, <2>11, <3>1
    <2>13. Len(output) <= Len(output') /\ T \in Nat
      <3>1. Len(output) \in Nat
        BY Numbers
      <3> QED BY <1>2, <2>8, <3>1
    <2>14. TextInv'
      <3>1. Len(stream.text[at + 1]) = T + item.len + item.len_v /\ Copied' = 0
        BY <1>1, <1>2, <2>8, <2>9, TextLength DEF Copied, T
      <3>2. Len(output') = Len(stream'.text[at']) + Copied'
        <4>1. L = item.len + item.len_v
          BY <1>2, <2>4 DEF len
        <4>2. Len(stream'.text[at']) = Len(stream.text[at + 1])
          BY <2>9
        <4>3. L \in Nat /\ Len(output) = T
          BY <1>2, <1>3, <2>4
        <4>4. item.len \in Nat /\ item.len_v \in Nat
          BY <1>3
        <4>5. Len(output') = Len(output) + L
          BY <2>8
        <4> QED BY ONLY <3>1, <4>1, <4>2, <4>3, <4>4, <4>5
      <3>3. Len(output') <= Len(Text(stream')) /\ \A k \in 1 .. Len(output') : output'[k] = Text(stream')[k]
        BY <2>8, <2>9
      <3> QED BY <3>2, <3>3 DEF TextInv
    <2>15. avail_out' \in Nat
      <3>1. stream \in Streams /\ stream.items[at].op = "match"
        BY <1>1, <1>2, StateTypes DEF item
      <3>2. item.len + item.len_v <= max_match /\ max_match \in Nat
        <4>1. at \in 1 .. Len(stream.items)
          BY <1>2 DEF N
        <4>2. stream.items[at].len + stream.items[at].len_v <= max_match /\ max_match \in Nat
          BY <3>1, <4>1, InflateAssumption
        <4> QED BY <4>2 DEF item
      <3>3. avail_out \in Nat /\ avail_out' = avail_out - L /\ L <= max_match
        BY <1>8, <2>4, <3>2, Numbers DEF len
      <3> QED BY <1>2, <3>2, <3>3
    <2>16. stream.start[at + 1] = stream.start[at] + d
      <3>1. stream.start[at + 1]
                = stream.start[at] + item.bits + item.extra + item.dbits + item.dextra
        BY <1>1, <1>2, ItemAt DEF After
      <3>2. PICK s \in Nat : s = stream.start[at]
        BY <1>2, ItemAt
      <3>3. PICK b1 \in 1 .. 15 : b1 = item.bits
        BY <1>1, FastAt
      <3>4. PICK b2 \in 0 .. 5 : b2 = item.extra
        BY <1>1, <1>2, MatchTypes
      <3>5. PICK b3 \in 1 .. 15 : b3 = item.dbits
        BY <1>1, <1>2, MatchTypes
      <3>6. PICK b4 \in 0 .. 13 : b4 = item.dextra
        BY <1>1, <1>2, MatchTypes
      <3>7. d = b1 + b2 + b3 + b4 /\ stream.start[at + 1] = s + b1 + b2 + b3 + b4
        BY <1>5, <3>1, <3>2, <3>3, <3>4, <3>5, <3>6
      <3>8. PICK e \in Nat : e = stream.start[at + 1]
        BY <1>2, ItemAt
      <3>9. e = s + d
        BY <3>7, <3>8
      <3> QED BY <3>2, <3>8, <3>9
    <2>17. FastNext(Reached(d, m), m)
      BY <1>8
    <2> QED BY <1>1, <1>6, <2>8, <2>9, <2>10, <2>11, <2>12, <2>13, <2>14, <2>15, <2>16, <2>17,
            FastGoes DEF T
  <1>9. \/ back > Len(window) /\ err("invalid_distance") /\ rewind(Reached(d, m), m) /\ UNCHANGED at
        \/ /\ back <= Len(window)
           /\ output' = IF len > n THEN Repeated(w, dist, len - n) ELSE w
           /\ avail_out' = avail_out - len
           /\ at' = at + 1
           /\ FastNext(Reached(d, m), m)
           /\ UNCHANGED <<ec, mode_>>
    BY <1>4, <1>5 DEF fast_match
  <1> QED BY <1>7, <1>8, <1>9

\* The pass fast_invalid keeps the invariant.
LEMMA Keeps_fast_invalid ==
    ASSUME IInv, UNCHANGED frame, fast_invalid
    PROVE  IInv'
  <1>1. /\ pc = "fast" /\ code' = code /\ place' = place /\ last_' = last_ /\ check_' = check_
        /\ \/ item.op = "invalid" /\ err("invalid_literal_length")
           \/ item.op = "match" /\ ~item.valid /\ err("invalid_distance_code")
    BY DEF fast_invalid
  <1>2. n_ \in 0 .. 32 /\ item \in Item /\ item.bits \in 1 .. 15
    BY <1>1, FastAt
  <1>3. CASE item.op = "invalid"
    <2>1. PICK d \in 1 .. 15 : d = item.bits
      BY <1>2
    <2>2. PICK n \in 0 .. 32 : n = Fill16(n_) - d
      <3>1. Fill16(n_) - d \in 0 .. 31
        BY <1>2, CodeRead
      <3> QED BY <3>1
    <2>3. PICK r \in 0 .. 6 : n + d - n_ = 8 * r
      <3>1. PICK r \in {0, 2} : Fill16(n_) = n_ + 8 * r
        BY <1>2, <2>1, CodeRead
      <3>2. r \in 0 .. 6 /\ n + d - n_ = 8 * r
        BY <1>2, <2>2, <3>1
      <3> QED BY <3>2
    <2>4. rewind(Reached(d, n), n) /\ err("invalid_literal_length") /\ d \in Nat
      BY <1>1, <1>3, <2>1, <2>2 DEF fast_invalid
    <2> QED BY <1>1, <2>3, <2>4, FastFails
  <1>4. CASE item.op = "match"
    <2>1. PICK d \in Nat : d = item.bits + item.extra + item.dbits
      <3>1. item.extra \in 0 .. 5 /\ item.dbits \in 1 .. 15
        BY <1>2, <1>4, MatchTypes
      <3> QED BY <1>2, <3>1
    <2>2. PICK n \in 0 .. 32 : n = Fill16(AfterLength(item)) - item.dbits
      BY <1>2, <1>4, MatchRead
    <2>3. PICK r \in 0 .. 6 : n + d - n_ = 8 * r
      BY <1>2, <1>4, <2>1, <2>2, MatchRead
    <2>4. rewind(Reached(d, n), n) /\ err("invalid_distance_code")
      BY <1>1, <1>4, <2>1, <2>2 DEF fast_invalid
    <2> QED BY <1>1, <2>3, <2>4, FastFails
  <1> QED BY <1>1, <1>3, <1>4

\* Every pass of inflate_fast keeps the invariant.
LEMMA KeepsInFast ==
    ASSUME IInv, UNCHANGED frame, InFast
    PROVE  IInv'
  BY Keeps_fast_literal, Keeps_fast_match, Keeps_fast_end_of_block, Keeps_fast_invalid DEF InFast

\* Every mode of a block header keeps the invariant.
LEMMA KeepsInBlock ==
    ASSUME IInv, UNCHANGED frame, InBlock
    PROVE  IInv'
  BY KeepsTYPE, KeepsTYPEDO, KeepsSTORED, KeepsCOPY, KeepsTABLE, KeepsLENLENS, KeepsCODELENS DEF InBlock

\* Every mode of a symbol keeps the invariant.
LEMMA KeepsInSymbol ==
    ASSUME IInv, UNCHANGED frame, InSymbol
    PROVE  IInv'
  BY KeepsLEN, KeepsLENEXT, KeepsDIST, KeepsDISTEXT, KeepsMATCH, KeepsLIT DEF InSymbol

-----------------------------------------------------------------------------
(* The trailer *)

\* A step of the trailer.
LEMMA EndMoves ==
    ASSUME IInv, UNCHANGED frame, mode_ \in {"CHECK", "LENGTH"}, mode_' \in {"LENGTH", "DONE"},
           pc' = "switch", result' = result, code' = code, place' = place, last_' = last_,
           check_' \in Nat, n_' \in 0 .. 32, next_in' \in Nat, next_in' <= in_last,
           EndBits', verify => stream.check
    PROVE  IInv'
  <1>1. /\ output' = output /\ avail_out' = avail_out /\ at' = at /\ sym' = sym
        /\ stream' = stream /\ N' = N /\ verify' = verify
    BY FrameEffect DEF result, place
  <1>2. mode_ \in EndModes /\ mode_' \in EndModes /\ mode_ \notin HeadModes /\ mode_' \notin HeadModes
    BY DEF EndModes, HeadModes
  <1>3. at = N + 1
    BY <1>2 DEF IInv, ItemInv
  <1>4. ItemInv'
    BY <1>1, <1>3 DEF ItemInv, HeadModes, BodyModes, StoredModes, TableModes, SymbolModes
  <1>5. RegisterInv'
    BY DEF RegisterInv, HeadRegisters, BlockRegisters, SymbolRegisters
  <1>6. BitInv'
    BY DEF BitInv, HeadBits, BlockBits, SymbolBits
  <1>7. TextAt' = TextAt
    BY <1>1 DEF TextAt, Copied
  <1>8. StopInv'
    BY DEF StopInv
  <1>9. SoundInv'
    <2>1. /\ SoundHead(stream, capacity) \/ (~verify /\ stream.head.error = "header_crc_mismatch")
          /\ \A i \in 1 .. at - 1 : SoundItem(stream.items[i], stream.text[i], Len(stream.text[i]))
      BY <1>2 DEF IInv, SoundInv
    <2> QED BY <1>1, <2>1 DEF SoundInv
  <1>10. Registered'
    <2>1. /\ length_' = length_ /\ offset_' = offset_ /\ extra_' = extra_ /\ have_' = have_
          /\ lenbits_' = lenbits_ /\ distbits_' = distbits_
      BY DEF code
    <2> QED BY <1>1, <2>1, Numbers, FrameEffect DEF Registered
  <1>11. mode_ # "BAD" /\ mode_' \in AllModes \ {"BAD"}
         /\ mode_' \notin BlockModes \cup SymbolModes \cup {"CHECK"}
    BY <1>2 DEF AllModes, BlockModes, SymbolModes
  <1> QED BY <1>1, <1>2, <1>4, <1>5, <1>6, <1>7, <1>8, <1>9, <1>10, <1>11, Moves

\* The mode CHECK keeps the invariant.
LEMMA KeepsCHECK ==
    ASSUME IInv, UNCHANGED frame, CHECK
    PROVE  IInv'
  <1> DEFINE c == IF verify THEN check_ + used ELSE check_
             end == NextByte(stream.start[N + 1])
  <1>1. mode_ = "CHECK" /\ pc = "switch" /\ Bit = end /\ TypeOK
        /\ code' = code /\ place' = place /\ last_' = last_ /\ stream' = stream /\ N' = N
    BY FrameEffect DEF IInv, BitInv, EndBits, CHECK, In
  <1>2. c \in Nat /\ check_ \in Nat
    <2>1. check_ \in Nat /\ total_out \in Nat /\ Len(output) \in Nat /\ total_out <= Len(output)
      BY Numbers
    <2> QED BY <2>1 DEF used
  <1>3. CASE wrap_ = "none" /\ Goto("LENGTH") /\ UNCHANGED <<ec, input, result, check_>>
    <2>1. mode_' = "LENGTH" /\ pc' = "switch" /\ Bit' = Bit /\ n_' = n_ /\ next_in' = next_in
          /\ result' = result /\ check_' = check_
      BY <1>3 DEF Goto, input, Bit
    <2>2. CheckBytes(stream) = 0 /\ stream.check
      BY <1>1, <1>3, Heads DEF CheckBytes, HeadMatches, wrap_
    <2>3. EndBits'
      <3>1. PICK z \in Nat : z = CheckBytes(stream)
        BY <2>2
      <3>2. Bit' = end + 8 * z
        <4>1. n_ \in 0 .. 32 /\ next_in \in Nat
          BY Numbers
        <4>2. PICK b \in Int : b = Bit
          <5>1. Bit \in Int
            BY <4>1 DEF Bit
          <5> QED BY <5>1
        <4> HIDE DEF end
        <4> QED BY <1>1, <2>1, <2>2, <3>1, <4>2
      <3> QED BY <1>1, <2>1, <3>1, <3>2 DEF EndBits
    <2> QED BY <1>1, <1>2, <2>1, <2>2, <2>3, Numbers, EndMoves
  <1>4. CASE OutOfInput(32) /\ UNCHANGED <<ec, result, mode_, check_>>
    <2>1. Kept
      BY <1>1, <1>4 DEF Kept, state
    <2> QED BY <1>1, <1>4, <2>1, Starves
  <1>5. CASE /\ wrap_ # "none" /\ Take(32, 32)
             /\ check_' = c
             /\ IF verify /\ ~SameCheck(c) THEN err("incorrect_data_check")
                ELSE Goto("LENGTH") /\ UNCHANGED <<ec, result>>
    <2>1. n_' \in 0 .. 32 /\ next_in' \in Nat /\ next_in' <= in_last /\ Bit' = Bit + 32
      BY <1>5, Numbers, TakeEffect DEF Bit
    <2>2. CASE err("incorrect_data_check")
      BY <1>1, <1>2, <1>5, <2>1, <2>2, Numbers, Fails
    <2>3. CASE ~(verify /\ ~SameCheck(c)) /\ Goto("LENGTH") /\ UNCHANGED result
      <3>1. mode_' = "LENGTH" /\ pc' = "switch" /\ (verify => stream.check)
        BY <2>3 DEF Goto, SameCheck
      <3>2. CheckBytes(stream) = 4
        BY <1>5 DEF CheckBytes, wrap_
      <3>3. EndBits'
        <4>1. PICK z \in Nat : z = CheckBytes(stream)
          BY <3>2
        <4>2. Bit' = end + 8 * z
          <5>1. n_ \in 0 .. 32 /\ next_in \in Nat
            BY Numbers
          <5>2. PICK b \in Int : b = Bit
            <6>1. Bit \in Int
              BY <5>1 DEF Bit
            <6> QED BY <6>1
          <5> HIDE DEF end
          <5> QED BY <1>1, <2>1, <3>2, <4>1, <5>2
        <4> QED BY <1>1, <3>1, <4>1, <4>2 DEF EndBits
      <3> QED BY <1>1, <1>2, <1>5, <2>1, <2>3, <3>1, <3>3, EndMoves
    <2> QED BY <1>5, <2>2, <2>3
  <1> QED BY <1>3, <1>4, <1>5 DEF CHECK

\* The mode LENGTH keeps the invariant.
LEMMA KeepsLENGTH ==
    ASSUME IInv, UNCHANGED frame, LENGTH
    PROVE  IInv'
  <1> DEFINE end == NextByte(stream.start[N + 1])
  <1>1. mode_ = "LENGTH" /\ pc = "switch" /\ Bit = end + 8 * CheckBytes(stream) /\ TypeOK
        /\ code' = code /\ place' = place /\ last_' = last_ /\ check_' = check_
        /\ stream' = stream /\ N' = N
    BY FrameEffect DEF IInv, BitInv, EndBits, LENGTH, In
  <1>2. verify => stream.check
    BY <1>1 DEF IInv, SoundInv
  <1>3. CASE Goto("DONE") /\ UNCHANGED <<ec, input, result>>
    <2>1. mode_' = "DONE" /\ pc' = "switch" /\ Bit' = Bit /\ n_' = n_ /\ next_in' = next_in
          /\ result' = result
      BY <1>3 DEF Goto, input, Bit
    <2>2. EndBits'
      BY <1>1, <2>1 DEF EndBits
    <2> QED BY <1>1, <1>2, <2>1, <2>2, Numbers, EndMoves
  <1>4. CASE OutOfInput(32) /\ UNCHANGED <<ec, result, mode_>>
    <2>1. Kept
      BY <1>1, <1>4 DEF Kept, state
    <2> QED BY <1>1, <1>4, <2>1, Starves
  <1>5. CASE /\ wrap_ = "gzip" /\ Take(32, 32)
             /\ IF stream.length THEN Goto("DONE") /\ UNCHANGED <<ec, result>>
                ELSE err("incorrect_length_check")
    <2>1. n_' \in 0 .. 32 /\ next_in' \in Nat /\ next_in' <= in_last /\ Bit' = Bit + 32
      BY <1>5, Numbers, TakeEffect DEF Bit
    <2>2. CASE err("incorrect_length_check")
      BY <1>1, <2>1, <2>2, Numbers, Fails
    <2>3. CASE Goto("DONE") /\ UNCHANGED result
      <3>1. mode_' = "DONE" /\ pc' = "switch"
        BY <2>3 DEF Goto
      <3>2. EndBits'
        <4>1. LengthBytes(stream) = 4
          BY <1>5 DEF LengthBytes, wrap_
        <4>2. PICK z \in {0, 4} : z = CheckBytes(stream)
          BY <1>1, InputSize
        <4>3. PICK e \in Nat : e = end
          <5>1. PICK s \in Nat : s = stream.start[N + 1]
            BY <1>1, InputSize
          <5> QED BY <5>1 DEF NextByte
        <4>4. PICK m \in Nat : m = 8 * StreamBytes(stream) /\ m = e + 8 * z + 32
          BY <1>1, <4>1, <4>2, <4>3, InputSize
        <4>5. Bit' = m
          BY <1>1, <2>1, <4>2, <4>3, <4>4
        <4> QED BY <1>1, <3>1, <4>4, <4>5 DEF EndBits
      <3> QED BY <1>1, <1>2, <2>1, <2>3, <3>1, <3>2, Numbers, EndMoves
    <2> QED BY <1>5, <2>2, <2>3
  <1> QED BY <1>3, <1>4, <1>5 DEF LENGTH

\* The mode DONE keeps the invariant.
LEMMA KeepsDONE ==
    ASSUME IInv, UNCHANGED frame, DONE
    PROVE  IInv'
  <1>1. /\ mode_ = "DONE" /\ pc' = "done" /\ ec' = "end_of_stream"
        /\ next_in' = next_in /\ n_' = n_ /\ output' = output /\ avail_out' = avail_out
        /\ code' = code /\ place' = place /\ state' = state
    BY DEF DONE, In, input, result
  <1>2. TypeOK /\ DataInv /\ RangeInv /\ mode_' = mode_
    BY <1>1 DEF IInv, state
  <1>3. ItemInv' /\ RegisterInv' /\ BitInv' /\ SoundInv' /\ TextAt' = TextAt
    BY <1>1, Stays DEF Bit
  <1>4. StopInv'
    BY <1>1 DEF StopInv
  <1>5. Registered'
    BY <1>1, <1>2, StateTypes, FrameEffect DEF Registered, code, place, state, DataInv, RangeInv
  <1>6. mode_ \in AllModes \ {"BAD"} /\ mode_ \in EndModes
        /\ mode_' \notin BlockModes \cup SymbolModes \cup {"CHECK"}
    BY <1>1, <1>2 DEF AllModes, BlockModes, SymbolModes, EndModes
  <1> QED BY <1>1, <1>2, <1>3, <1>4, <1>5, <1>6, Moves

\* The mode BAD keeps the invariant.
LEMMA KeepsBAD ==
    ASSUME IInv, UNCHANGED frame, BAD
    PROVE  IInv'
  <1>1. TypeOK /\ DataInv /\ RangeInv
    BY DEF IInv
  <1>2. /\ mode_ = "BAD" /\ mode_' = "BAD" /\ pc' = "done" /\ avail_out' = avail_out /\ output' = output
        /\ next_in' = next_in /\ n_' = n_ /\ last_' = last_ /\ check_' = check_
        /\ at' = at /\ sym' = sym /\ length_' = length_ /\ offset_' = offset_ /\ extra_' = extra_
        /\ have_' = have_ /\ lenbits_' = lenbits_ /\ distbits_' = distbits_
    BY DEF BAD, In, input, result, code, place, state
  <1>3. TypeOK'
    BY <1>1, <1>2, FrameEffect DEF TypeOK
  <1>4. DataInv' /\ RangeInv'
    BY <1>1, <1>2, FrameEffect DEF DataInv, RangeInv
  <1>5. ItemInv' /\ RegisterInv'
    BY <1>2 DEF ItemInv, RegisterInv, HeadRegisters, BlockRegisters, SymbolRegisters,
       HeadModes, SymbolModes, EndModes, BodyModes, StoredModes, TableModes
  <1>6. BitInv'
    BY <1>2 DEF BitInv, HeadBits, BlockBits, SymbolBits, EndBits
  <1>7. TextInv' /\ StopInv' /\ StopsWhenStuck' /\ SoundInv'
    BY <1>2 DEF TextInv, StopInv, StopsWhenStuck, SoundInv
  <1>8. WindowFollowsOutput' /\ CheckCoversOutput'
    BY <1>2 DEF WindowFollowsOutput, CheckCoversOutput, BlockModes, SymbolModes
  <1> QED BY <1>3, <1>4, <1>5, <1>6, <1>7, <1>8 DEF IInv

\* Every mode of the trailer keeps the invariant.
LEMMA KeepsInTrailer ==
    ASSUME IInv, UNCHANGED frame, InTrailer
    PROVE  IInv'
  BY KeepsCHECK, KeepsLENGTH, KeepsDONE, KeepsBAD DEF InTrailer

-----------------------------------------------------------------------------
(* Calls *)

\* The last bytes of a sequence, one by one.
LEMMA LastBytesAre ==
    ASSUME NEW w \in Seq(Byte)
    PROVE  /\ LastBytes(w) \in Seq(Byte)
           /\ Len(LastBytes(w)) = IF Len(w) <= capacity THEN Len(w) ELSE capacity
           /\ \A i \in 1 .. Len(LastBytes(w)) :
                LastBytes(w)[i] = w[Len(w) - Len(LastBytes(w)) + i]
  <1>1. Len(w) \in Nat /\ capacity \in Nat
    BY LenProperties, InflateAssumption
  <1>2. CASE Len(w) <= capacity
    <2>1. LastBytes(w) = w
      BY <1>2 DEF LastBytes
    <2>2. \A i \in 1 .. Len(w) : Len(w) - Len(w) + i = i
      BY <1>1
    <2> QED BY <1>2, <2>1, <2>2
  <1>3. CASE ~(Len(w) <= capacity)
    <2>1. PICK a \in Nat : a = Len(w) - capacity
      BY <1>1, <1>3
    <2>2. LastBytes(w) = SubSeq(w, a + 1, a + capacity) /\ a + capacity = Len(w)
      BY <1>1, <1>3, <2>1 DEF LastBytes
    <2>3. /\ SubSeq(w, a + 1, a + capacity) \in Seq(Byte)
          /\ Len(SubSeq(w, a + 1, a + capacity)) = capacity
          /\ \A x \in 1 .. capacity : SubSeq(w, a + 1, a + capacity)[x] = w[a + x]
      <3>1. a + capacity <= Len(w)
        BY <1>1, <2>2
      <3> QED BY <1>1, <3>1, Piece
    <2> QED BY <1>3, <2>1, <2>2, <2>3
  <1> QED BY <1>2, <1>3

\* A window that has been brought up to date by pieces is as one written at once.
LEMMA LastOfLast ==
    ASSUME NEW a \in Seq(Byte), NEW b \in Seq(Byte)
    PROVE  LastBytes(LastBytes(a) \o b) = LastBytes(a \o b)
  <1> DEFINE u == LastBytes(a)
             v == u \o b
             w == a \o b
             p == LastBytes(v)
             q == LastBytes(w)
  <1>1. /\ Len(a) \in Nat /\ Len(b) \in Nat /\ capacity \in Nat
        /\ u \in Seq(Byte) /\ Len(u) = IF Len(a) <= capacity THEN Len(a) ELSE capacity
        /\ \A i \in 1 .. Len(u) : u[i] = a[Len(a) - Len(u) + i]
    BY LenProperties, LastBytesAre, InflateAssumption
  <1> HIDE DEF u
  <1>2. /\ v \in Seq(Byte) /\ Len(v) = Len(u) + Len(b)
        /\ \A i \in 1 .. Len(v) : v[i] = IF i <= Len(u) THEN u[i] ELSE b[i - Len(u)]
    BY <1>1
  <1>3. /\ w \in Seq(Byte) /\ Len(w) = Len(a) + Len(b)
        /\ \A i \in 1 .. Len(w) : w[i] = IF i <= Len(a) THEN a[i] ELSE b[i - Len(a)]
    OBVIOUS
  <1> HIDE DEF v, w
  <1>4. /\ p \in Seq(Byte) /\ Len(p) = IF Len(v) <= capacity THEN Len(v) ELSE capacity
        /\ \A i \in 1 .. Len(p) : p[i] = v[Len(v) - Len(p) + i]
    BY <1>2, LastBytesAre
  <1>5. /\ q \in Seq(Byte) /\ Len(q) = IF Len(w) <= capacity THEN Len(w) ELSE capacity
        /\ \A i \in 1 .. Len(q) : q[i] = w[Len(w) - Len(q) + i]
    BY <1>3, LastBytesAre
  <1> HIDE DEF p, q
  <1>6. /\ Len(u) \in Nat /\ Len(v) \in Nat /\ Len(w) \in Nat /\ Len(p) = Len(q) /\ Len(p) \in Nat
        /\ Len(p) <= Len(v) /\ Len(q) <= Len(w) /\ Len(u) <= Len(a)
    <2>1. /\ Len(u) = (IF Len(a) <= capacity THEN Len(a) ELSE capacity)
          /\ Len(v) = Len(u) + Len(b) /\ Len(w) = Len(a) + Len(b)
          /\ Len(p) = (IF Len(v) <= capacity THEN Len(v) ELSE capacity)
          /\ Len(q) = (IF Len(w) <= capacity THEN Len(w) ELSE capacity)
          /\ Len(a) \in Nat /\ Len(b) \in Nat /\ capacity \in Nat
      BY <1>1, <1>2, <1>3, <1>4, <1>5
    <2> QED BY ONLY <2>1
  <1>7. ASSUME NEW i \in 1 .. Len(p) PROVE p[i] = q[i]
    <2>0. i \in Nat /\ 1 <= i /\ i <= Len(p) /\ i \in 1 .. Len(q)
      BY <1>6
    <2>1. PICK j \in 1 .. Len(v) : j = Len(v) - Len(p) + i
      <3>1. Len(v) - Len(p) + i \in 1 .. Len(v)
        BY <1>6, <2>0
      <3> QED BY <3>1
    <2>2. PICK k \in 1 .. Len(w) : k = Len(w) - Len(q) + i
      <3>1. Len(w) - Len(q) + i \in 1 .. Len(w)
        BY <1>6, <2>0
      <3> QED BY <3>1
    <2>3. p[i] = v[j] /\ q[i] = w[k]
      BY <1>4, <1>5, <2>0, <2>1, <2>2
    <2>4. k - j = Len(a) - Len(u)
      <3>1. Len(v) = Len(u) + Len(b) /\ Len(w) = Len(a) + Len(b) /\ Len(a) \in Nat /\ Len(b) \in Nat
        BY <1>1, <1>2, <1>3
      <3> QED BY <1>6, <2>1, <2>2, <3>1
    <2>5. CASE j <= Len(u)
      <3>1. v[j] = u[j] /\ j \in 1 .. Len(u)
        BY <1>2, <1>6, <2>5
      <3>2. u[j] = a[Len(a) - Len(u) + j]
        BY <1>1, <3>1
      <3>3. Len(a) - Len(u) + j = k /\ k <= Len(a)
        BY <1>1, <1>6, <2>4, <2>5
      <3>4. w[k] = a[k]
        BY <1>3, <2>3, <3>3
      <3> QED BY <2>3, <3>1, <3>2, <3>3, <3>4
    <2>6. CASE ~(j <= Len(u))
      <3>1. v[j] = b[j - Len(u)]
        BY <1>2, <2>3, <2>6
      <3>2. k - Len(a) = j - Len(u) /\ ~(k <= Len(a))
        BY <1>1, <1>6, <2>4, <2>6
      <3>3. w[k] = b[k - Len(a)]
        BY <1>3, <2>3, <3>2
      <3> QED BY <2>3, <3>1, <3>2, <3>3
    <2> QED BY <2>5, <2>6
  <1>8. p = q
    <2> HIDE DEF u, v, w, p, q
    <2> QED BY ONLY <1>4, <1>5, <1>6, <1>7, SeqEqual
  <1> QED BY <1>8 DEF p, q, u, v, w

\* What a call writes goes behind what the calls before it wrote.
LEMMA OutputSplits ==
    ASSUME NEW w \in Seq(Byte), NEW n \in 0 .. Len(w)
    PROVE  /\ SubSeq(w, 1, n) \in Seq(Byte) /\ SubSeq(w, n + 1, Len(w)) \in Seq(Byte)
           /\ SubSeq(w, 1, n) \o SubSeq(w, n + 1, Len(w)) = w
  <1> DEFINE a == SubSeq(w, 1, n)
             b == SubSeq(w, n + 1, Len(w))
  <1>1. Len(w) \in Nat
    BY LenProperties
  <1>2. a \in Seq(Byte) /\ Len(a) = n /\ \A k \in 1 .. n : a[k] = w[k]
    BY Beginning
  <1>3. b \in Seq(Byte) /\ Len(b) = Len(w) - n /\ \A x \in 1 .. Len(w) - n : b[x] = w[n + x]
    <2>1. PICK m \in Nat : m = Len(w) - n
      BY <1>1
    <2>2. n \in Nat /\ n + m = Len(w) /\ n + m <= Len(w)
      BY <1>1, <2>1
    <2>3. /\ SubSeq(w, n + 1, n + m) \in Seq(Byte) /\ Len(SubSeq(w, n + 1, n + m)) = m
          /\ \A x \in 1 .. m : SubSeq(w, n + 1, n + m)[x] = w[n + x]
      BY <2>2, Piece
    <2> QED BY <2>1, <2>2, <2>3
  <1> HIDE DEF a, b
  <1>4. Len(a \o b) = Len(w) /\ a \o b \in Seq(Byte)
    BY <1>1, <1>2, <1>3
  <1>5. ASSUME NEW i \in 1 .. Len(w) PROVE (a \o b)[i] = w[i]
    <2>1. CASE i <= n
      <3>1. (a \o b)[i] = a[i]
        BY <1>1, <1>2, <1>3, <2>1
      <3> QED BY <1>2, <2>1, <3>1
    <2>2. CASE ~(i <= n)
      <3>1. i - n \in 1 .. Len(w) - n /\ n + (i - n) = i
        BY <1>1, <2>2
      <3>2. (a \o b)[i] = b[i - n]
        BY <1>1, <1>2, <1>3, <2>2
      <3> QED BY <1>3, <3>1, <3>2
    <2> QED BY <2>1, <2>2
  <1>6. a \o b = w
    <2>1. PICK c \in Seq(Byte) : c = a \o b
      BY <1>4
    <2>2. Len(c) = Len(w) /\ \A i \in 1 .. Len(w) : c[i] = w[i]
      BY <1>4, <1>5, <2>1
    <2>3. c = w
      BY <2>2
    <2> QED BY <2>1, <2>3
  <1> QED BY <1>2, <1>3, <1>6 DEF a, b

\* The return of a call keeps the invariant.
LEMMA Keeps_done ==
    ASSUME IInv, done
    PROVE  IInv'
  <1> DEFINE new == SubSeq(output, total_out + 1, Len(output))
             old == SubSeq(output, 1, total_out)
  <1>1. /\ pc = "done" /\ pc' = "idle" /\ total_in' = next_in /\ total_out' = Len(output)
        /\ window' = IF WritesWindow THEN LastBytes(window \o new) ELSE window
        /\ check_' = Checked /\ next_in' = next_in /\ n_' = n_ /\ output' = output
        /\ avail_out' = avail_out /\ code' = code /\ place' = place /\ mode_' = mode_
        /\ last_' = last_ /\ flush' = flush /\ verify' = verify /\ in_last' = in_last
        /\ stream' = stream /\ lives' = lives /\ at' = at /\ sym' = sym
        /\ length_' = length_ /\ offset_' = offset_ /\ extra_' = extra_ /\ have_' = have_
        /\ lenbits_' = lenbits_ /\ distbits_' = distbits_
    BY DEF done, input, result, code, place
  <1>2. TypeOK /\ DataInv /\ RangeInv
    BY DEF IInv
  <1>3. /\ total_out \in Nat /\ total_out <= Len(output) /\ Len(output) \in Nat /\ output \in Seq(Byte)
        /\ check_ \in Nat /\ used \in Nat /\ window \in Seq(Byte)
    <2>1. /\ total_out \in Nat /\ total_out <= Len(output) /\ Len(output) \in Nat /\ output \in Seq(Byte)
          /\ check_ \in Nat
      BY Numbers
    <2>2. used \in Nat
      BY <2>1 DEF used
    <2> QED BY <1>2, <2>1, <2>2 DEF DataInv
  <1>4. new \in Seq(Byte) /\ old \in Seq(Byte) /\ old \o new = output
    <2>1. total_out \in 0 .. Len(output)
      BY <1>3
    <2> QED BY <1>3, <2>1, OutputSplits
  <1> HIDE DEF new, old
  <1>5. check_' \in Nat
    BY <1>1, <1>3 DEF Checked
  <1>6. TypeOK'
    <2>1. /\ pc' \in {"idle", "switch", "fast", "done"}
          /\ mode_' \in HeadModes \cup SymbolModes \cup BlockModes \cup EndModes \cup {"BAD"}
          /\ last_' \in BOOLEAN /\ verify' \in BOOLEAN /\ flush' \in Flushes \cup {"none"}
          /\ stream' \in Streams /\ at' \in 1 .. Len(stream'.items) + 1 /\ sym' \in Nat
      BY <1>1, <1>2 DEF TypeOK
    <2>2. /\ {check_', length_', offset_', extra_', have_', lenbits_', distbits_', avail_out',
              next_in', in_last', total_in', total_out', lives'} \subseteq Nat
          /\ total_out' <= Len(output')
      BY <1>1, <1>2, <1>3, <1>5, StateTypes
    <2> QED BY <2>1, <2>2 DEF TypeOK
  <1>7. window' \in Seq(Byte)
    <2>1. window \o new \in Seq(Byte)
      BY <1>3, <1>4
    <2>2. LastBytes(window \o new) \in Seq(Byte)
      BY <2>1, LastBytesAre
    <2> QED BY <1>1, <1>3, <2>2
  <1>8. DataInv' /\ RangeInv'
    <2>1. next_in \in Nat /\ in_last \in Nat /\ InputBytes(stream) \in Nat
      BY <1>2, StateTypes, InputSize
    <2>2. next_in <= in_last /\ in_last <= InputBytes(stream) /\ next_in <= InputBytes(stream)
      BY <1>2, <2>1 DEF RangeInv
    <2>3. RangeInv'
      BY <1>1, <2>2 DEF RangeInv
    <2>4. DataInv'
      BY <1>1, <1>2, <1>7 DEF DataInv
    <2> QED BY <2>3, <2>4
  <1>9. N' = N /\ wrap_' = wrap_ /\ item' = item /\ Bit' = Bit
    BY <1>1 DEF N, wrap_, item, Bit
  <1>10. ItemInv'
    BY <1>1, <1>9 DEF IInv, ItemInv, InBlockOf
  <1>11. RegisterInv'
    BY <1>1, <1>9 DEF IInv, RegisterInv, HeadRegisters, BlockRegisters, SymbolRegisters
  <1>12. BitInv'
    BY <1>1, <1>9 DEF IInv, BitInv, HeadBits, BlockBits, SymbolBits, EndBits, DataStart
  <1>13. TextInv' /\ SoundInv' /\ StopInv'
    BY <1>1, <1>9 DEF IInv, TextInv, SoundInv, StopInv, Copied
  <1>14. WindowFollowsOutput'
    <2>1. SUFFICES ASSUME mode_ \notin EndModes \cup {"BAD"}
                   PROVE  window' = LastBytes(SubSeq(output, 1, Len(output)))
      BY <1>1 DEF WindowFollowsOutput, LastBytes
    <2>2. window = LastBytes(old)
      BY <2>1 DEF IInv, WindowFollowsOutput, old
    <2>3. SubSeq(output, 1, Len(output)) = output
      <3>1. /\ SubSeq(output, 1, Len(output)) \in Seq(Byte)
            /\ Len(SubSeq(output, 1, Len(output))) = Len(output)
            /\ \A k \in 1 .. Len(output) : SubSeq(output, 1, Len(output))[k] = output[k]
        BY <1>3, Beginning
      <3> QED BY <1>3, <3>1
    <2>4. CASE used > 0
      <3>1. WritesWindow
        BY <2>1, <2>4 DEF WritesWindow, EndModes
      <3>2. LastBytes(window \o new) = LastBytes(old \o new)
        BY <1>4, <2>2, LastOfLast
      <3> QED BY <1>1, <1>4, <2>3, <3>1, <3>2
    <2>5. CASE ~(used > 0)
      <3>1. total_out = Len(output)
        BY <1>3, <2>5 DEF used
      <3>2. ~WritesWindow
        BY <2>5 DEF WritesWindow
      <3> QED BY <1>1, <2>2, <3>1, <3>2 DEF old
    <2> QED BY <2>4, <2>5
  <1>15. CheckCoversOutput'
    <2>1. SUFFICES ASSUME wrap_ # "none", mode_ \in BlockModes \cup SymbolModes \cup {"CHECK"}
                   PROVE  check_' = Len(output)
      BY <1>1, <1>9 DEF CheckCoversOutput
    <2>2. check_ = total_out /\ check_' = check_ + used
      BY <1>1, <2>1 DEF IInv, CheckCoversOutput, Checked
    <2> QED BY <1>3, <2>2 DEF used
  <1>16. StopsWhenStuck'
    <2>1. SUFFICES ASSUME ec' \in {"ok", "need_buffers"}, mode_ # "BAD"
                   PROVE  \/ next_in = in_last \/ avail_out = 0
                          \/ flush \in {"block", "trees"} /\ mode_ \in {"TYPE", "LEN_", "COPY_"}
      BY <1>1 DEF StopsWhenStuck
    <2>2. ec # "end_of_stream"
      BY <2>1 DEF done
    <2> QED BY <1>1, <2>1, <2>2 DEF IInv, StopInv
  <1> QED BY <1>6, <1>8, <1>10, <1>11, <1>12, <1>13, <1>14, <1>15, <1>16 DEF IInv

\* The beginning of a call keeps the invariant.
LEMMA Keeps_write ==
    ASSUME IInv, NEW k \in InSizes, NEW o \in OutSizes, NEW f \in Flushes, write(k, o, f)
    PROVE  IInv'
  <1>1. /\ pc = "idle" /\ pc' = "switch" /\ flush' = f /\ ec' = "ok" /\ next_in' = total_in
        /\ in_last' = clamp(total_in + k, InputBytes(stream)) /\ avail_out' = o
        /\ mode_' = Entered /\ n_' = n_ /\ output' = output
        /\ last_' = last_ /\ check_' = check_ /\ verify' = verify /\ window' = window
        /\ total_in' = total_in /\ total_out' = total_out /\ stream' = stream /\ lives' = lives
        /\ at' = at /\ sym' = sym
        /\ length_' = length_ /\ offset_' = offset_ /\ extra_' = extra_ /\ have_' = have_
        /\ lenbits_' = lenbits_ /\ distbits_' = distbits_
    BY DEF write, code, place
  <1>2. TypeOK /\ DataInv /\ RangeInv /\ k \in Nat /\ o \in Nat
    BY InflateAssumption DEF IInv
  <1>3. /\ InputBytes(stream) \in Nat /\ total_in \in Nat /\ total_in <= InputBytes(stream)
        /\ mode_ \in AllModes
    BY <1>2, InputSize, StateTypes DEF RangeInv
  <1>4. in_last' \in Nat /\ next_in' <= in_last' /\ in_last' <= InputBytes(stream)
    BY <1>1, <1>2, <1>3 DEF clamp
  <1>5. mode_' \in AllModes
    BY <1>1, <1>3 DEF Entered, AllModes, BlockModes
  <1>6. TypeOK'
    BY <1>1, <1>2, <1>4, <1>5 DEF TypeOK, AllModes
  <1>7. DataInv' /\ RangeInv'
    BY <1>1, <1>2, <1>4 DEF DataInv, RangeInv
  <1>8. N' = N /\ wrap_' = wrap_ /\ item' = item
    BY <1>1 DEF N, wrap_, item
  <1>9. CASE mode_ = "BAD"
    <2>1. mode_' = "BAD"
      BY <1>1, <1>9 DEF Entered
    <2>2. ItemInv' /\ RegisterInv'
      BY <2>1 DEF ItemInv, RegisterInv, HeadRegisters, BlockRegisters, SymbolRegisters,
         HeadModes, SymbolModes, EndModes, BodyModes, StoredModes, TableModes
    <2>3. BitInv'
      BY <2>1 DEF BitInv, HeadBits, BlockBits, SymbolBits, EndBits
    <2>4. TextInv' /\ StopInv' /\ StopsWhenStuck' /\ SoundInv'
      BY <2>1 DEF TextInv, StopInv, StopsWhenStuck, SoundInv
    <2>5. WindowFollowsOutput' /\ CheckCoversOutput'
      BY <2>1 DEF WindowFollowsOutput, CheckCoversOutput, BlockModes, SymbolModes
    <2> QED BY <1>6, <1>7, <2>2, <2>3, <2>4, <2>5 DEF IInv
  <1>10. CASE mode_ # "BAD"
    <2>1. Bit' = Bit
      BY <1>1, <1>2, <1>10 DEF RangeInv, Bit
    <2>2. StopInv' /\ StopsWhenStuck'
      BY <1>1 DEF StopInv, StopsWhenStuck
    <2>3. CASE mode_ # "TYPE"
      <3>1. mode_' = mode_
        BY <1>1, <2>3 DEF Entered
      <3>2. ItemInv'
        BY <1>1, <1>8, <3>1 DEF IInv, ItemInv, InBlockOf
      <3>3. RegisterInv'
        BY <1>1, <1>8, <3>1 DEF IInv, RegisterInv, HeadRegisters, BlockRegisters, SymbolRegisters
      <3>4. BitInv'
        BY <1>1, <1>8, <2>1, <3>1
           DEF IInv, BitInv, HeadBits, BlockBits, SymbolBits, EndBits, DataStart
      <3>5. TextInv' /\ SoundInv'
        BY <1>1, <1>8, <3>1 DEF IInv, TextInv, SoundInv, Copied
      <3>6. WindowFollowsOutput' /\ CheckCoversOutput'
        BY <1>1, <1>8, <3>1 DEF IInv, WindowFollowsOutput, LastBytes, CheckCoversOutput
      <3> QED BY <1>6, <1>7, <2>2, <3>2, <3>3, <3>4, <3>5, <3>6 DEF IInv
    <2>4. CASE mode_ = "TYPE"
      <3>1. mode_' = "TYPEDO"
        BY <1>1, <2>4 DEF Entered
      <3>2. ItemInv'
        BY <1>1, <1>8, <2>4, <3>1 DEF IInv, ItemInv, HeadModes, SymbolModes, EndModes, BodyModes,
           StoredModes, TableModes
      <3>3. RegisterInv'
        BY <3>1 DEF RegisterInv, HeadRegisters, BlockRegisters, SymbolRegisters
      <3>4. BitInv'
        BY <1>1, <1>8, <2>1, <2>4, <3>1
           DEF IInv, BitInv, HeadBits, BlockBits, SymbolBits, EndBits
      <3>5. TextInv'
        BY <1>1, <1>8, <2>4, <3>1 DEF IInv, TextInv, Copied
      <3>6. SoundInv'
        BY <1>1, <1>8, <2>4, <3>1 DEF IInv, SoundInv, HeadModes
      <3>7. WindowFollowsOutput'
        BY <1>1, <1>8, <2>4 DEF IInv, WindowFollowsOutput, LastBytes, EndModes
      <3>8. CheckCoversOutput'
        BY <1>1, <1>8, <2>4 DEF IInv, CheckCoversOutput, BlockModes
      <3> QED BY <1>6, <1>7, <2>2, <3>2, <3>3, <3>4, <3>5, <3>6, <3>7, <3>8 DEF IInv
    <2> QED BY <2>3, <2>4
  <1> QED BY <1>9, <1>10

\* A decompressor that has nothing behind it, at the beginning of a stream.
Fresh ==
    /\ stream \in Streams /\ verify \in BOOLEAN /\ pc = "idle" /\ flush = "none"
    /\ mode_ = "HEAD" /\ last_ = FALSE /\ n_ = 0 /\ window = << >> /\ at = 1 /\ sym = 0
    /\ output = << >> /\ next_in = 0 /\ in_last = 0 /\ avail_out = 0
    /\ total_in = 0 /\ total_out = 0
    /\ {check_, length_, offset_, extra_, have_, lenbits_, distbits_, lives} \subseteq Nat

\* The invariant holds of a fresh stream.
LEMMA Begins == Fresh => IInv
  <1> SUFFICES ASSUME Fresh PROVE IInv
    OBVIOUS
  <1>1. /\ stream \in Streams /\ verify \in BOOLEAN /\ pc = "idle" /\ flush = "none"
        /\ mode_ = "HEAD" /\ last_ = FALSE /\ n_ = 0 /\ window = << >> /\ at = 1 /\ sym = 0
        /\ output = << >> /\ next_in = 0 /\ in_last = 0 /\ avail_out = 0
        /\ total_in = 0 /\ total_out = 0
        /\ {check_, length_, offset_, extra_, have_, lenbits_, distbits_, lives} \subseteq Nat
    BY DEF Fresh
  <1>2. Len(stream.items) \in Nat /\ Len(stream.items) > 0
    BY <1>1, FormatAssumption, StreamTypes
  <1>3. TypeOK
    <2>1. mode_ \in HeadModes /\ at \in 1 .. Len(stream.items) + 1
      BY <1>1, <1>2 DEF HeadModes
    <2>2. Len(output) = 0
      BY <1>1
    <2>3. /\ {check_, length_, offset_, extra_, have_, lenbits_, distbits_, avail_out,
              next_in, in_last, total_in, total_out, lives} \subseteq Nat
          /\ total_out <= Len(output)
      BY <1>1, <2>2
    <2> QED BY <1>1, <2>1, <2>3 DEF TypeOK
  <1>4. DataInv
    BY <1>1 DEF DataInv
  <1>5. RangeInv
    BY <1>1, <1>3, InputSize DEF RangeInv
  <1>6. ItemInv
    BY <1>1 DEF ItemInv, SymbolModes, EndModes, BodyModes, StoredModes, TableModes
  <1>7. RegisterInv
    BY <1>1 DEF RegisterInv, HeadRegisters, BlockRegisters, SymbolRegisters
  <1>8. BitInv
    BY <1>1 DEF BitInv, HeadBits, BlockBits, SymbolBits, EndBits, Bit
  <1>9. TextInv
    <2>1. Len(stream.text[at]) = 0 /\ Len(Text(stream)) \in Nat /\ Copied = 0
      BY <1>1, <1>3, Heads, StateTypes, StreamTypes DEF Copied
    <2> QED BY <1>1, <2>1 DEF TextInv
  <1>10. WindowFollowsOutput
    <2>1. SubSeq(output, 1, total_out) = << >>
      BY <1>1
    <2>2. capacity \in Nat
      BY InflateAssumption
    <2> QED BY <1>1, <2>1, <2>2 DEF WindowFollowsOutput, LastBytes
  <1>11. CheckCoversOutput
    BY <1>1 DEF CheckCoversOutput, BlockModes, SymbolModes
  <1>12. StopInv /\ StopsWhenStuck
    BY <1>1 DEF StopInv, StopsWhenStuck
  <1>13. SoundInv
    BY <1>1 DEF SoundInv, HeadModes
  <1> QED BY <1>3, <1>4, <1>5, <1>6, <1>7, <1>8, <1>9, <1>10, <1>11, <1>12, <1>13 DEF IInv

\* A reset keeps the invariant.
LEMMA Keeps_doReset ==
    ASSUME IInv, NEW s \in Later, NEW v \in Verify, doReset(s, v)
    PROVE  IInv'
  <1>1. s \in Streams /\ v \in BOOLEAN
    BY FormatAssumption, InflateAssumption
  <1>2. /\ check_ \in Nat /\ length_ \in Nat /\ offset_ \in Nat /\ extra_ \in Nat
        /\ have_ \in Nat /\ lenbits_ \in Nat /\ distbits_ \in Nat /\ lives \in Nat
    BY StateTypes DEF IInv
  <1>3. Fresh'
    BY <1>1, <1>2 DEF doReset, StartOf, code, Fresh
  <1>4. Fresh' => IInv'
    BY Begins, PTL
  <1> QED BY <1>3, <1>4

\* A stuttering step keeps the invariant.
LEMMA Idles ==
    ASSUME IInv, UNCHANGED vars
    PROVE  IInv'
  <1>1. /\ pc' = pc /\ ec' = ec /\ next_in' = next_in /\ n_' = n_ /\ output' = output
        /\ avail_out' = avail_out /\ code' = code /\ place' = place /\ state' = state /\ frame' = frame
    BY DEF vars, input, result
  <1>2. TypeOK /\ DataInv /\ RangeInv /\ at' = at /\ sym' = sym
        /\ mode_' = mode_ /\ last_' = last_ /\ check_' = check_
        /\ length_' = length_ /\ offset_' = offset_ /\ extra_' = extra_ /\ have_' = have_
        /\ lenbits_' = lenbits_ /\ distbits_' = distbits_
    BY <1>1 DEF IInv, code, place, state
  <1>3. ItemInv' /\ RegisterInv' /\ BitInv' /\ SoundInv'
    BY <1>1, Stays DEF Bit
  <1>4. TypeOK' /\ DataInv' /\ RangeInv'
    BY <1>1, <1>2, FrameEffect DEF TypeOK, DataInv, RangeInv, FastEnough, avail
  <1>5. item' = item
    BY <1>1, <1>2, FrameEffect DEF item
  <1>6. TextInv'
    BY <1>1, <1>2, <1>5, FrameEffect DEF IInv, TextInv, Copied
  <1>7. WindowFollowsOutput' /\ CheckCoversOutput' /\ StopInv' /\ StopsWhenStuck'
    BY <1>1, <1>2, FrameEffect
       DEF IInv, WindowFollowsOutput, LastBytes, CheckCoversOutput, StopInv, StopsWhenStuck
  <1> QED BY <1>3, <1>4, <1>6, <1>7 DEF IInv

\* Every step keeps the invariant.
LEMMA KeepsIInv ==
    ASSUME IInv, [Next]_vars
    PROVE  IInv'
  <1>1. CASE (InHeader \/ InBlock \/ InSymbol \/ InFast \/ InTrailer) /\ UNCHANGED frame
    BY <1>1, KeepsInHeader, KeepsInBlock, KeepsInSymbol, KeepsInFast, KeepsInTrailer
  <1>2. CASE done
    BY <1>2, Keeps_done
  <1>3. CASE Call
    BY <1>3, Keeps_write DEF Call
  <1>4. CASE Reset
    BY <1>4, Keeps_doReset DEF Reset
  <1>5. CASE UNCHANGED vars
    BY <1>5, Idles
  <1> QED BY <1>1, <1>2, <1>3, <1>4, <1>5 DEF Next, Inside

-----------------------------------------------------------------------------
(* The theorems *)

(***************************************************************************)
(* What each mode of write() leaves for the next one holds in every state, *)
(* whatever pieces input and output come in: IInv is inductive.            *)
(***************************************************************************)
THEOREM Invariance == Spec => []IInv
  <1>1. Init => IInv
    <2> SUFFICES ASSUME Init PROVE IInv
      OBVIOUS
    <2>1. Fresh
      BY InflateAssumption DEF Init, Fresh
    <2> QED BY <2>1, Begins
  <1>2. IInv /\ [Next]_vars => IInv'
    BY KeepsIInv
  <1> QED BY <1>1, <1>2, PTL DEF Spec

(***************************************************************************)
(* Every variable of inflate_stream keeps its type.                        *)
(***************************************************************************)
THEOREM TypesHold == Spec => []TypeOK
  <1>1. IInv => TypeOK
    BY DEF IInv
  <1> QED BY <1>1, Invariance, PTL

(***************************************************************************)
(* The reservoir of bitstream.hpp never holds more than its 32 bits nor    *)
(* fewer than none, and no byte behind the input is read, on the slow path *)
(* nor by inflate_fast with its six bytes of input.                        *)
(***************************************************************************)
THEOREM ReservoirInBounds == Spec => []InBounds
  <1>1. IInv => InBounds
    BY DEF IInv, DataInv, RangeInv, InBounds
  <1> QED BY <1>1, Invariance, PTL

(***************************************************************************)
(* The window that a match reaches into holds the last bytes of the output *)
(* of the calls before this one.                                           *)
(***************************************************************************)
THEOREM WindowIsHistory == Spec => []WindowFollowsOutput
  <1>1. IInv => WindowFollowsOutput
    BY DEF IInv
  <1> QED BY <1>1, Invariance, PTL

(***************************************************************************)
(* The checksum covers each byte of the output of earlier calls once.      *)
(***************************************************************************)
THEOREM ChecksumCoversOutput == Spec => []CheckCoversOutput
  <1>1. IInv => CheckCoversOutput
    BY DEF IInv
  <1> QED BY <1>1, Invariance, PTL

(***************************************************************************)
(* A call returns without an error only when its input or output space is  *)
(* used up, or at a boundary that was asked for.                           *)
(***************************************************************************)
THEOREM CallsUseTheirBuffers == Spec => []StopsWhenStuck
  <1>1. IInv => StopsWhenStuck
    BY DEF IInv
  <1> QED BY <1>1, Invariance, PTL

(***************************************************************************)
(* What the caller has been given is the beginning of the text of the      *)
(* stream, up to the item and the part of it that the decoder is at.       *)
(***************************************************************************)
THEOREM OutputIsText == Spec => []OutputInOrder
  <1>1. IInv => OutputInOrder
    <2> SUFFICES ASSUME IInv, mode_ # "BAD" PROVE OutputInOrder
      BY DEF OutputInOrder
    <2>1. /\ Len(output) = Len(stream.text[at]) + Copied
          /\ Len(output) <= Len(Text(stream))
          /\ \A k \in 1 .. Len(output) : output[k] = Text(stream)[k]
      BY DEF IInv, TextInv
    <2>2. output \in Seq(Byte) /\ Text(stream) \in Seq(Byte) /\ Len(output) \in Nat
      BY Numbers, StateTypes, StreamTypes DEF IInv
    <2>3. output = SubSeq(Text(stream), 1, Len(output))
      <3>1. PICK p \in Seq(Byte) :
                /\ p = SubSeq(Text(stream), 1, Len(output)) /\ Len(p) = Len(output)
                /\ \A k \in 1 .. Len(output) : p[k] = Text(stream)[k]
        <4>1. Len(output) \in 0 .. Len(Text(stream))
          BY <2>1, <2>2, LenProperties
        <4>2. /\ SubSeq(Text(stream), 1, Len(output)) \in Seq(Byte)
              /\ Len(SubSeq(Text(stream), 1, Len(output))) = Len(output)
              /\ \A k \in 1 .. Len(output) :
                    SubSeq(Text(stream), 1, Len(output))[k] = Text(stream)[k]
          BY <2>2, <4>1, Beginning
        <4> QED BY <4>2
      <3>2. \A k \in 1 .. Len(output) : p[k] = output[k]
        BY <2>1, <3>1
      <3>3. p = output
        BY <2>2, <3>1, <3>2
      <3> QED BY <3>1, <3>3
    <2>4. Copied = CASE mode_ \in {"COPY_", "COPY"} -> Len(item.bytes) - length_
                     [] mode_ = "MATCH" -> item.len + item.len_v - length_
                     [] OTHER -> 0
      <3>1. CASE mode_ = "MATCH"
        <4>1. item.op = "match" /\ TypeOK /\ item \in Item /\ length_ \in Nat
          BY <3>1, SymbolAt, Numbers DEF IInv, RegisterInv, SymbolRegisters, SymbolModes
        <4>2. item.len \in Nat /\ item.len_v \in Nat
          BY <4>1, MatchTypes
        <4> QED BY <3>1, <4>1, <4>2 DEF Copied
      <3>2. CASE mode_ # "MATCH"
        BY <3>2 DEF Copied
      <3> QED BY <3>1, <3>2
    <2> QED BY <2>1, <2>3, <2>4 DEF OutputInOrder
  <1> QED BY <1>1, Invariance, PTL

(***************************************************************************)
(* The bits are taken in order: what has been taken and is not left in the *)
(* reservoir are the items before the one the decoder is at, and the parts *)
(* of it that it has read, on both paths.                                  *)
(***************************************************************************)
THEOREM BitsAreTakenInOrder == Spec => []BitsInOrder
  <1>1. IInv => BitsInOrder
    <2> SUFFICES ASSUME IInv, mode_ # "BAD" PROVE Bit \in Positions
      BY DEF BitsInOrder, Bit
    <2>1. HeadBits /\ BlockBits /\ SymbolBits /\ EndBits /\ mode_ \in AllModes /\ TypeOK
      BY StateTypes DEF IInv, BitInv
    <2>2. 8 * GzipBytes = 80
      BY DEF GzipBytes
    <2>3. CASE mode_ \in {"HEAD", "FLAGS", "TIME", "OS", "DICTID"}
      BY <2>1, <2>3 DEF HeadBits, Positions
    <2>4. CASE mode_ = "EXLEN"
      BY <2>1, <2>2, <2>4 DEF HeadBits, Positions
    <2>5. CASE mode_ = "NAME"
      BY <2>1, <2>2, <2>5 DEF HeadBits, Positions
    <2>6. CASE mode_ = "COMMENT"
      BY <2>1, <2>2, <2>6 DEF HeadBits, Positions
    <2>7. CASE mode_ = "HCRC"
      BY <2>1, <2>2, <2>7 DEF HeadBits, Positions
    <2>8. CASE mode_ \in {"TYPE", "TYPEDO", "TABLE"}
      BY <2>1, <2>8 DEF BlockBits, Positions
    <2>9. CASE mode_ = "STORED"
      BY <2>1, <2>9 DEF BlockBits, Positions
    <2>10. CASE mode_ \in {"COPY_", "COPY"}
      BY <2>1, <2>10 DEF BlockBits, Positions
    <2>11. CASE mode_ \in {"LENLENS", "CODELENS"}
      BY <2>1, <2>11 DEF BlockBits, Positions
    <2>12. CASE mode_ \in {"LEN_", "LEN"}
      BY <2>1, <2>12 DEF SymbolBits, Positions
    <2>13. CASE mode_ \in {"LIT", "LENEXT", "DIST", "DISTEXT"}
      BY <2>1, <2>13 DEF SymbolBits, Positions
    <2>14. CASE mode_ = "MATCH"
      <3>1. Bit = stream.start[at] + item.bits + item.extra + item.dbits + item.dextra
        BY <2>1, <2>14 DEF SymbolBits
      <3>2. at <= N /\ item.op = "match"
        BY <2>14, SymbolAt DEF IInv, RegisterInv, SymbolRegisters, SymbolModes
      <3>3. stream.start[at + 1] = Bit
        BY <2>1, <3>1, <3>2, ItemAt DEF After
      <3> QED BY <2>14, <3>3 DEF Positions
    <2>15. CASE mode_ \in {"CHECK", "LENGTH", "DONE"}
      BY <2>1, <2>15 DEF EndBits, Positions, N
    <2> QED BY <2>1, <2>3, <2>4, <2>5, <2>6, <2>7, <2>8, <2>9, <2>10, <2>11, <2>12, <2>13, <2>14, <2>15
        DEF AllModes, HeadModes, BlockModes, SymbolModes, EndModes
  <1> QED BY <1>1, Invariance, PTL

-----------------------------------------------------------------------------
(* The promise of Decoder: every step of the modes hands over more of the *)
(* text, ends the stream, refuses it for something that is wrong with it, or *)
(* does not show. *)

Acceptable == Sound(stream, capacity) /\ ~(wrap_ = "gzip" /\ verify)

\* What a step of the modes shows to the caller.
Gives   == {mode_, mode_'} \cap {"BAD", "DONE"} = {} /\ Len(output) <= Len(output')
Ends    == mode_ = "LENGTH" /\ mode_' = "DONE" /\ output' = output
Refuses ==
    /\ mode_ \notin {"BAD", "DONE"} /\ mode_' = "BAD" /\ ~Acceptable
    /\ output' = output \/ output' = SubSeq(output, 1, total_out)
Hides   == mode_' = mode_ /\ output' = output
Shown   == Gives \/ Ends \/ Refuses \/ Hides

-----------------------------------------------------------------------------
(* What is refused *)

\* A stream one of whose items is not sound is not acceptable.
LEMMA BadItem ==
    ASSUME TypeOK, at <= N, ~SoundItem(item, stream.text[at], capacity)
    PROVE  ~Acceptable
  <1>1. at \in 1 .. Len(stream.items)
    BY ItemAt DEF N
  <1> QED BY <1>1 DEF Acceptable, Sound, item

\* An error that is one of the stream.
LEMMA Refusal ==
    ASSUME mode_ \notin {"BAD", "DONE"}, NEW e, err(e), ~Acceptable
    PROVE  Shown
  BY DEF err, Shown, Refuses

\* A step that gives nothing, to a mode that is not the end.
LEMMA Quiet ==
    ASSUME IInv, mode_ \notin {"BAD", "DONE"}, mode_' \notin {"BAD", "DONE"}, output' = output
    PROVE  Shown
  <1>1. Len(output) \in Nat
    BY Numbers
  <1>2. Len(output) <= Len(output')
    BY <1>1
  <1> QED BY <1>2 DEF Shown, Gives

\* What the mode HEAD shows to the caller.
LEMMA ShownHEAD ==
    ASSUME IInv, HEAD
    PROVE  Shown
  <1>1. mode_ = "HEAD"
    BY DEF HEAD, In
  <1>2. CASE wrap_ = "zlib" /\ HeadError # "ok" /\ err(HeadError)
    <2>1. ~Acceptable
      <3>1. stream.head.window \in Nat /\ capacity \in Nat
        BY Heads, InflateAssumption DEF IInv
      <3> QED BY <1>2, <3>1 DEF HeadError, Acceptable, Sound, SoundHead, wrap_
    <2> QED BY <1>1, <1>2, <2>1, Refusal
  <1>3. CASE output' = output /\ mode_' \in {"HEAD", "TYPEDO", "DICTID", "TYPE", "FLAGS"}
    BY <1>1, <1>3, Quiet
  <1>4. \/ wrap_ = "zlib" /\ HeadError # "ok" /\ err(HeadError)
        \/ output' = output /\ mode_' \in {"HEAD", "TYPEDO", "DICTID", "TYPE", "FLAGS"}
    BY <1>1 DEF HEAD, Goto, Kept, result, state
  <1> QED BY <1>2, <1>3, <1>4

\* What FLAGS, TIME and OS show to the caller.
LEMMA ShownField ==
    ASSUME IInv, FLAGS \/ TIME \/ OS
    PROVE  Shown
  <1>1. mode_ \in {"FLAGS", "TIME", "OS"}
    BY DEF FLAGS, TIME, OS, In
  <1>2. CASE stream.head.error # "ok" /\ err(stream.head.error)
    <2>1. ~Acceptable
      BY <1>2 DEF Acceptable, Sound, SoundHead
    <2> QED BY <1>1, <1>2, <2>1, Refusal
  <1>3. CASE output' = output /\ mode_' \in {"FLAGS", "TIME", "OS", "EXLEN"}
    BY <1>1, <1>3, Quiet
  <1>4. \/ stream.head.error # "ok" /\ err(stream.head.error)
        \/ output' = output /\ mode_' \in {"FLAGS", "TIME", "OS", "EXLEN"}
    BY <1>1 DEF FLAGS, TIME, OS, Field, Goto, Kept, result, state
  <1> QED BY <1>2, <1>3, <1>4

\* EXLEN, NAME and COMMENT show nothing.
LEMMA ShownText ==
    ASSUME IInv, EXLEN \/ NAME \/ COMMENT
    PROVE  Shown
  <1>1. /\ mode_ \in {"EXLEN", "NAME", "COMMENT"} /\ output' = output
        /\ mode_' \in {"NAME", "COMMENT", "HCRC"}
    BY DEF EXLEN, NAME, COMMENT, TextField, In, Goto, result
  <1> QED BY <1>1, Quiet

\* What the mode HCRC shows to the caller.
LEMMA ShownHCRC ==
    ASSUME IInv, HCRC
    PROVE  Shown
  <1>1. mode_ = "HCRC" /\ wrap_ = "gzip"
    BY DEF HCRC, In, IInv, RegisterInv, HeadRegisters
  <1>2. CASE verify /\ err("header_crc_mismatch")
    <2>1. ~Acceptable
      BY <1>1, <1>2 DEF Acceptable
    <2> QED BY <1>1, <1>2, <2>1, Refusal
  <1>3. CASE output' = output /\ mode_' \in {"HCRC", "TYPE"}
    BY <1>1, <1>3, Quiet
  <1>4. \/ verify /\ err("header_crc_mismatch")
        \/ output' = output /\ mode_' \in {"HCRC", "TYPE"}
    BY <1>1 DEF HCRC, Goto, Kept, result, state
  <1> QED BY <1>2, <1>3, <1>4

\* What the mode DICTID shows to the caller.
LEMMA ShownDICTID ==
    ASSUME IInv, DICTID
    PROVE  Shown
  <1>1. mode_ = "DICTID" /\ wrap_ = "zlib" /\ stream.head.dict
    BY DEF DICTID, In, IInv, RegisterInv, HeadRegisters
  <1>2. ~Acceptable
    BY <1>1 DEF Acceptable, Sound, SoundHead, wrap_
  <1>3. CASE err("need_dict")
    BY <1>1, <1>2, <1>3, Refusal
  <1>4. CASE Kept
    BY <1>1, <1>4, Quiet DEF Kept, result, state
  <1> QED BY <1>3, <1>4 DEF DICTID

-----------------------------------------------------------------------------
(* Blocks *)

\* What the mode TYPE shows to the caller.
LEMMA ShownTYPE ==
    ASSUME IInv, TYPE \/ TYPEDO
    PROVE  Shown
  <1>1. mode_ \in {"TYPE", "TYPEDO"}
    BY DEF TYPE, TYPEDO, In
  <1>2. CASE ~last_ /\ item.type = "invalid" /\ err("invalid_block_type")
    <2>1. TypeOK /\ at <= N /\ item.op = "block"
      BY <1>1, <1>2 DEF IInv, ItemInv
    <2>2. ~Acceptable
      BY <1>2, <2>1, BadItem DEF SoundItem
    <2> QED BY <1>1, <1>2, <2>2, Refusal
  <1>3. CASE output' = output /\ mode_' \in {"TYPE", "TYPEDO", "CHECK", "STORED", "LEN_", "TABLE"}
    BY <1>1, <1>3, Quiet
  <1>4. \/ ~last_ /\ item.type = "invalid" /\ err("invalid_block_type")
        \/ output' = output /\ mode_' \in {"TYPE", "TYPEDO", "CHECK", "STORED", "LEN_", "TABLE"}
    <2>1. CASE TYPE
      BY <1>1, <2>1 DEF TYPE, result, state
    <2>2. CASE TYPEDO
      BY <1>1, <2>2 DEF TYPEDO, Goto, GotoUnlessTrees, Kept, result, state
    <2> QED BY <2>1, <2>2
  <1> QED BY <1>2, <1>3, <1>4

\* What the mode STORED shows to the caller.
LEMMA ShownSTORED ==
    ASSUME IInv, STORED
    PROVE  Shown
  <1>1. mode_ = "STORED" /\ TypeOK /\ at <= N /\ item.op = "stored"
    BY DEF STORED, In, IInv, ItemInv, BodyModes, StoredModes
  <1>2. CASE ~item.good /\ err("invalid_stored_length")
    <2>1. ~Acceptable
      BY <1>1, <1>2, BadItem DEF SoundItem
    <2> QED BY <1>1, <1>2, <2>1, Refusal
  <1>3. CASE output' = output /\ mode_' \in {"STORED", "COPY_"}
    BY <1>1, <1>3, Quiet
  <1>4. \/ ~item.good /\ err("invalid_stored_length")
        \/ output' = output /\ mode_' \in {"STORED", "COPY_"}
    BY <1>1 DEF STORED, GotoUnlessTrees, Kept, result, state
  <1> QED BY <1>2, <1>3, <1>4

\* What the mode COPY shows to the caller.
LEMMA ShownCOPY ==
    ASSUME IInv, IInv', UNCHANGED frame, COPY
    PROVE  Shown
  <1> DEFINE copy == clamp(clamp(length_, avail), avail_out)
  <1>1. mode_ \in {"COPY_", "COPY"} /\ mode_' \in {"COPY", "TYPE"}
    BY DEF COPY, In, Goto
  <1>2. CASE output' = output
    BY <1>1, <1>2, Quiet
  <1>3. CASE copy > 0 /\ mode_' = "COPY" /\ length_' = length_ - copy /\ at' = at
    <2>1. TypeOK /\ at <= N /\ item.op = "stored" /\ length_ <= Len(item.bytes)
      BY <1>1 DEF IInv, ItemInv, BodyModes, StoredModes, RegisterInv, BlockRegisters
    <2>2. /\ Len(item.bytes) \in Nat /\ length_ \in Nat /\ length_' \in Nat
          /\ Len(stream.text[at]) \in Nat /\ Len(output) \in Nat
      <3>1. TypeOK'
        BY DEF IInv
      <3>2. length_' \in Nat
        BY <3>1 DEF TypeOK
      <3> QED BY <2>1, <3>2, StoredText, ItemAt, Numbers
    <2>3. Len(output) = Len(stream.text[at]) + (Len(item.bytes) - length_)
      BY <1>1 DEF IInv, TextInv, Copied
    <2>4. item' = item /\ stream' = stream
      BY <1>3, FrameEffect DEF item
    <2>5. Len(output') = Len(stream.text[at]) + (Len(item.bytes) - length_')
      BY <1>3, <2>4 DEF IInv, TextInv, Copied
    <2>6. length_' <= length_
      <3>1. length_ \in Nat /\ avail_out \in Nat /\ next_in \in Nat /\ in_last \in Nat /\ next_in <= in_last
        BY Numbers
      <3> QED BY <1>3, <3>1 DEF clamp, avail
    <2>7. Len(output) <= Len(output')
      <3>1. PICK b \in Nat : b = Len(item.bytes)
        BY <2>2
      <3>2. PICK t \in Nat : t = Len(stream.text[at])
        BY <2>2
      <3>3. PICK l \in Nat : l = length_
        BY <2>2
      <3>4. PICK k \in Nat : k = length_'
        BY <2>2
      <3>5. Len(output) = t + (b - l) /\ Len(output') = t + (b - k) /\ k <= l
        BY <2>3, <2>5, <2>6, <3>1, <3>2, <3>3, <3>4
      <3> QED BY ONLY <3>5, t \in Nat, b \in Nat, l \in Nat, k \in Nat
    <2> QED BY <1>1, <2>7 DEF Shown, Gives
  <1>4. output' = output \/ (copy > 0 /\ mode_' = "COPY" /\ length_' = length_ - copy /\ at' = at)
    BY DEF COPY, Goto, result
  <1> QED BY <1>2, <1>3, <1>4

\* What the mode TABLE shows to the caller.
LEMMA ShownTABLE ==
    ASSUME IInv, TABLE \/ LENLENS
    PROVE  Shown
  <1>1. mode_ \in {"TABLE", "LENLENS"} /\ TypeOK /\ at <= N /\ item.op = "table"
    BY DEF TABLE, LENLENS, In, IInv, ItemInv, BodyModes, TableModes
  <1>2. CASE item.error \in {"counts", "codes"}
    <2>1. ~Acceptable
      BY <1>1, <1>2, BadItem DEF SoundItem
    <2>2. CASE err("too_many_symbols")
      BY <1>1, <2>1, <2>2, Refusal
    <2>3. CASE Goto("BAD") /\ UNCHANGED result
      BY <1>1, <2>1, <2>3 DEF Goto, result, Shown, Refuses
    <2>4. CASE output' = output /\ mode_' \in {"TABLE", "LENLENS", "CODELENS"}
      BY <1>1, <2>4, Quiet
    <2>5. \/ err("too_many_symbols")
          \/ Goto("BAD") /\ UNCHANGED result
          \/ output' = output /\ mode_' \in {"TABLE", "LENLENS", "CODELENS"}
      BY <1>1 DEF TABLE, LENLENS, Goto, Kept, result, state
    <2> QED BY <2>2, <2>3, <2>4, <2>5
  <1>3. CASE item.error \notin {"counts", "codes"}
    <2>1. output' = output /\ mode_' \in {"TABLE", "LENLENS", "CODELENS"}
      BY <1>1, <1>3 DEF TABLE, LENLENS, Goto, Kept, result, state
    <2> QED BY <1>1, <2>1, Quiet
  <1> QED BY <1>2, <1>3

\* What the mode CODELENS shows to the caller.
LEMMA ShownCODELENS ==
    ASSUME IInv, CODELENS
    PROVE  Shown
  <1> DEFINE s == item.symbols[sym + 1]
  <1>1. mode_ = "CODELENS" /\ TypeOK /\ at <= N /\ item.op = "table"
    BY DEF CODELENS, In, IInv, ItemInv, BodyModes, TableModes
  <1>2. CASE /\ have_ < item.total /\ err("invalid_bit_length_repeat")
             /\ (s.val = 16 /\ have_ = 0) \/ have_ + s.run > item.total
    <2>1. /\ SymbolsInOrder(item) /\ Consistent(item)
          /\ have_ \in Nat /\ item.total \in Nat
          /\ sym \in 0 .. Len(item.symbols) /\ Len(item.symbols) \in Nat
          /\ sym + 1 \in 1 .. Len(item.symbols)
          /\ item.counts[sym + 2] = have_ + item.symbols[sym + 1].run
      BY <1>1, <1>2, TableAt
    <2>2. /\ item.error \notin {"counts", "codes"}
          /\ sym > 0 => have_ > 0
      BY <1>1 DEF IInv, RegisterInv, BlockRegisters
    <2>3. SUFFICES ASSUME SoundItem(item, stream.text[at], capacity) PROVE FALSE
      <3>1. ~Acceptable
        BY <1>1, <2>3, BadItem
      <3> QED BY <1>1, <1>2, <3>1, Refusal
    <2>4. item.counts[Len(item.symbols) + 1] = item.total /\ item.symbols[1].val # 16
      BY <1>1, <2>3 DEF SoundItem
    <2>5. CASE s.val = 16 /\ have_ = 0
      <3>1. sym = 0
        BY <2>1, <2>2, <2>5
      <3> QED BY <2>4, <2>5, <3>1
    <2>6. CASE have_ + s.run > item.total
      <3>1. \A j \in 1 .. Len(item.symbols) : item.counts[j] < item.total
        BY <1>1, <2>1, <2>2 DEF Consistent
      <3>2. item.counts[sym + 2] > item.total
        BY <2>1, <2>6
      <3>3. CASE sym + 2 \in 1 .. Len(item.symbols)
        <4>1. item.counts[sym + 2] < item.total
          BY <3>1, <3>3
        <4>2. PICK c \in Nat : c = item.counts[sym + 2]
          <5>1. item \in Item
            BY <1>1, ItemAt
          <5>2. item.counts \in Seq(Nat) /\ Len(item.counts) = Len(item.symbols) + 1
            BY <1>1, <2>1, <5>1, TableTypes DEF Consistent
          <5>3. sym + 2 \in 1 .. Len(item.counts)
            BY <2>1, <5>2
          <5> QED BY <5>2, <5>3, ElementOfSeq
        <4> QED BY <2>1, <3>2, <4>1, <4>2
      <3>4. CASE ~(sym + 2 \in 1 .. Len(item.symbols))
        <4>1. sym + 2 = Len(item.symbols) + 1
          BY <2>1, <3>4
        <4> QED BY <2>1, <2>4, <3>2, <4>1
      <3> QED BY <3>3, <3>4
    <2> QED BY <1>2, <2>5, <2>6
  <1>3. CASE item.error # "ok" /\ err(TableError)
    <2>1. ~Acceptable
      BY <1>1, <1>3, BadItem DEF SoundItem
    <2> QED BY <1>1, <1>3, <2>1, Refusal
  <1>4. CASE output' = output /\ mode_' \in {"CODELENS", "LEN_"}
    BY <1>1, <1>4, Quiet
  <1>5. \/ /\ have_ < item.total /\ err("invalid_bit_length_repeat")
           /\ (s.val = 16 /\ have_ = 0) \/ have_ + s.run > item.total
        \/ item.error # "ok" /\ err(TableError)
        \/ output' = output /\ mode_' \in {"CODELENS", "LEN_"}
    BY <1>1 DEF CODELENS, GotoUnlessTrees, Kept, result, state
  <1> QED BY <1>2, <1>3, <1>4, <1>5

-----------------------------------------------------------------------------
(* Symbols *)

\* What the mode LEN shows to the caller.
LEMMA ShownLEN ==
    ASSUME IInv, LEN
    PROVE  Shown
  <1>1. mode_ \in {"LEN_", "LEN"} /\ TypeOK /\ at <= N
    BY SymbolAt DEF LEN, In, SymbolModes
  <1>2. CASE item.op = "invalid" /\ err("invalid_literal_length")
    <2>1. ~Acceptable
      BY <1>1, <1>2, BadItem DEF SoundItem
    <2> QED BY <1>1, <1>2, <2>1, Refusal
  <1>3. CASE output' = output /\ mode_' \in {"LEN", "LIT", "TYPE", "LENEXT"}
    BY <1>1, <1>3, Quiet
  <1>4. \/ item.op = "invalid" /\ err("invalid_literal_length")
        \/ output' = output /\ mode_' \in {"LEN", "LIT", "TYPE", "LENEXT"}
    BY <1>1 DEF LEN, Goto, result
  <1> QED BY <1>2, <1>3, <1>4

\* LENEXT and DISTEXT show nothing.
LEMMA ShownExtra ==
    ASSUME IInv, LENEXT \/ DISTEXT
    PROVE  Shown
  <1>1. /\ mode_ \in {"LENEXT", "DISTEXT"} /\ output' = output
        /\ mode_' \in {"LENEXT", "DIST", "DISTEXT", "MATCH"}
    BY DEF LENEXT, DISTEXT, In, Goto, Kept, result, state
  <1> QED BY <1>1, Quiet

\* What the mode DIST shows to the caller.
LEMMA ShownDIST ==
    ASSUME IInv, DIST
    PROVE  Shown
  <1>1. mode_ = "DIST" /\ TypeOK /\ at <= N /\ item.op = "match"
    BY SymbolAt DEF DIST, In, SymbolModes, IInv, RegisterInv, SymbolRegisters
  <1>2. CASE ~item.valid /\ err("invalid_distance_code")
    <2>1. ~Acceptable
      BY <1>1, <1>2, BadItem DEF SoundItem
    <2> QED BY <1>1, <1>2, <2>1, Refusal
  <1>3. CASE output' = output /\ mode_' \in {"DIST", "DISTEXT"}
    BY <1>1, <1>3, Quiet
  <1>4. \/ ~item.valid /\ err("invalid_distance_code")
        \/ output' = output /\ mode_' \in {"DIST", "DISTEXT"}
    BY <1>1 DEF DIST, Goto, Kept, result, state
  <1> QED BY <1>2, <1>3, <1>4

\* A distance that reaches neither the output of the call nor the window is one of a bad match.
LEMMA TooFar ==
    ASSUME IInv, mode_ \in SymbolModes, item.op = "match",
           NEW d \in Nat, d = Distance(item), d - used > Len(window),
           Len(stream.text[at]) <= Len(output)
    PROVE  ~Acceptable
  <1>1. TypeOK /\ at <= N
    BY SymbolAt
  <1>2. /\ output \in Seq(Byte) /\ Len(output) \in Nat
        /\ total_out \in Nat /\ total_out <= Len(output) /\ total_out \in 0 .. Len(output)
    BY Numbers
  <1>3. window = LastBytes(SubSeq(output, 1, total_out))
    BY WindowLength
  <1>4. SubSeq(output, 1, total_out) \in Seq(Byte) /\ Len(SubSeq(output, 1, total_out)) = total_out
    BY <1>2, Beginning
  <1>5. Len(window) = IF total_out <= capacity THEN total_out ELSE capacity
    BY <1>3, <1>4, LastBytesAre
  <1>6. Len(stream.text[at]) \in Nat
    BY <1>1, ItemAt
  <1>7. ~(d <= Len(stream.text[at]) /\ d <= capacity)
    <2>1. capacity \in Nat
      BY InflateAssumption
    <2>2. d - (Len(output) - total_out) > Len(window)
      BY DEF used
    <2> QED BY <1>2, <1>5, <1>6, <2>1, <2>2
  <1> QED BY <1>1, <1>7, BadItem DEF SoundItem

\* What the mode MATCH shows to the caller.
LEMMA ShownMATCH ==
    ASSUME IInv, IInv', UNCHANGED frame, MATCH
    PROVE  Shown
  <1>1. mode_ = "MATCH" /\ mode_ \in SymbolModes /\ TypeOK /\ at <= N /\ item.op = "match"
        /\ offset_ = Distance(item) /\ length_ <= item.len + item.len_v
    BY SymbolAt DEF MATCH, In, SymbolModes, IInv, RegisterInv, SymbolRegisters
  <1>2. /\ offset_ \in Nat /\ length_ \in Nat /\ avail_out \in Nat /\ Len(output) \in Nat
        /\ item.len \in Nat /\ item.len_v \in Nat /\ Len(stream.text[at]) \in Nat
    BY <1>1, Numbers, ItemAt, MatchTypes
  <1>3. Len(output) = Len(stream.text[at]) + ((item.len + item.len_v) - length_)
    BY <1>1 DEF IInv, TextInv, Copied
  <1>4. CASE offset_ - used > Len(window) /\ err("invalid_distance")
    <2>1. Len(stream.text[at]) <= Len(output)
      BY <1>1, <1>2, <1>3
    <2>2. ~Acceptable
      BY <1>1, <1>2, <1>4, <2>1, TooFar
    <2> QED BY <1>1, <1>4, <2>2, Refusal
  <1>5. CASE output' = output /\ mode_' = "MATCH"
    BY <1>1, <1>5, Quiet
  <1>6. CASE mode_' \in {"MATCH", "LEN"} /\ (mode_' = "MATCH" => at' = at /\ length_' <= length_)
             /\ (mode_' = "LEN" => at' = at + 1 /\ Distance(item) <= Len(stream.text[at]))
    <2>1. Len(output) <= Len(output')
      <3>1. CASE mode_' = "MATCH"
        <4>1. item' = item /\ stream' = stream
          BY <1>6, <3>1, FrameEffect DEF item
        <4>2. Len(output') = Len(stream.text[at]) + ((item.len + item.len_v) - length_')
          BY <1>6, <3>1, <4>1 DEF IInv, TextInv, Copied
        <4>3. length_' \in Nat
          BY DEF IInv, TypeOK
        <4> QED BY <1>2, <1>3, <1>6, <3>1, <4>2, <4>3
      <3>2. CASE mode_' = "LEN"
        <4>1. stream' = stream /\ at' = at + 1
          BY <1>6, <3>2, FrameEffect
        <4>2. Len(output') = Len(stream.text[at + 1]) + 0
          BY <3>2, <4>1 DEF IInv, TextInv, Copied
        <4>3. Len(stream.text[at + 1]) = Len(stream.text[at]) + item.len + item.len_v
          BY <1>1, <1>6, <3>2, TextLength
        <4> QED BY <1>2, <1>3, <4>2, <4>3
      <3> QED BY <1>6, <3>1, <3>2
    <2> QED BY <1>1, <1>6, <2>1 DEF Shown, Gives
  <1>7. \/ offset_ - used > Len(window) /\ err("invalid_distance")
        \/ output' = output /\ mode_' = "MATCH"
        \/ /\ mode_' \in {"MATCH", "LEN"} /\ (mode_' = "MATCH" => at' = at /\ length_' <= length_)
           /\ (mode_' = "LEN" => at' = at + 1 /\ Distance(item) <= Len(stream.text[at]))
    <2> DEFINE m == IF offset_ > used THEN clamp(clamp(length_, offset_ - used), avail_out)
                    ELSE clamp(length_, avail_out)
    <2>1. CASE /\ avail_out > 0 /\ (offset_ > used => offset_ - used <= Len(window))
               /\ length_' = length_ - m
               /\ mode_' = IF length_ = m THEN "LEN" ELSE "MATCH"
               /\ at' = IF length_ = m THEN at + 1 ELSE at
      <3>1. total_out \in Nat /\ total_out <= Len(output)
        BY Numbers
      <3>2. used \in Nat
        BY <1>2, <3>1 DEF used
      <3>3. m \in Nat /\ m <= length_ /\ (offset_ > used => m <= offset_ - used)
        BY <1>2, <3>2 DEF clamp
      <3> HIDE DEF m
      <3>4. Distance(item) <= Len(stream.text[at])
        BY <1>1, <2>1, <3>3, MatchCopies
      <3>5. length_' <= length_
        BY <1>2, <2>1, <3>3
      <3> QED BY <2>1, <3>4, <3>5
    <2>2. \/ offset_ - used > Len(window) /\ err("invalid_distance")
          \/ output' = output /\ mode_' = "MATCH"
          \/ /\ avail_out > 0 /\ (offset_ > used => offset_ - used <= Len(window))
             /\ length_' = length_ - m
             /\ mode_' = IF length_ = m THEN "LEN" ELSE "MATCH"
             /\ at' = IF length_ = m THEN at + 1 ELSE at
      BY <1>1 DEF MATCH, Goto, result
    <2> QED BY <2>1, <2>2
  <1> QED BY <1>4, <1>5, <1>6, <1>7

\* What the mode LIT shows to the caller.
LEMMA ShownLIT ==
    ASSUME IInv, LIT
    PROVE  Shown
  <1>1. mode_ = "LIT" /\ length_ \in Byte /\ output \in Seq(Byte) /\ Len(output) \in Nat
    <2>1. mode_ = "LIT" /\ mode_ \in SymbolModes
      BY DEF LIT, In, SymbolModes
    <2>2. item \in Item /\ item.op = "lit" /\ length_ = item.byte
      BY <2>1, SymbolAt DEF IInv, RegisterInv, SymbolRegisters
    <2> QED BY <2>1, <2>2, ItemTypes, Numbers
  <1>2. CASE output' = output /\ mode_' = "LIT"
    BY <1>1, <1>2, Quiet
  <1>3. CASE output' = Append(output, length_) /\ mode_' = "LEN"
    <2>1. Len(output) <= Len(output')
      BY <1>1, <1>3
    <2> QED BY <1>1, <1>3, <2>1 DEF Shown, Gives
  <1>4. \/ output' = output /\ mode_' = "LIT"
        \/ output' = Append(output, length_) /\ mode_' = "LEN"
    BY <1>1 DEF LIT, Goto, result
  <1> QED BY <1>2, <1>3, <1>4

-----------------------------------------------------------------------------
(* Symbols in inflate_fast *)

\* A pass of inflate_fast that takes a symbol shows its text.
LEMMA ShownFastText ==
    ASSUME IInv, IInv', UNCHANGED frame, pc = "fast", at' = at + 1, mode_' = mode_
    PROVE  Shown
  <1>1. mode_ = "LEN" /\ TypeOK /\ at \in 1 .. N /\ Len(output) = Len(stream.text[at])
    BY FastAt
  <1>2. stream' = stream /\ mode_' = "LEN"
    BY <1>1, FrameEffect
  <1>3. Len(output') = Len(stream.text[at + 1]) + 0
    BY <1>2 DEF IInv, TextInv, Copied
  <1>4. /\ WellFormed(stream) /\ at \in 1 .. Len(stream.items)
        /\ Len(stream.text[at]) \in Nat /\ Len(stream.text[at + 1]) \in Nat
    <2>1. at <= N
      BY <1>1, FastAt
    <2> QED BY <1>1, <2>1, StateTypes, ItemAt DEF N
  <1>5. Len(stream.text[at]) <= Len(stream.text[at + 1])
    BY <1>4, TextGrows
  <1>6. Len(output) <= Len(output')
    BY <1>1, <1>3, <1>4, <1>5
  <1> QED BY <1>1, <1>2, <1>6 DEF Shown, Gives

\* What a pass of inflate_fast shows to the caller.
LEMMA ShownInFast ==
    ASSUME IInv, IInv', UNCHANGED frame, InFast
    PROVE  Shown
  <1>1. pc = "fast"
    BY DEF InFast, fast_literal, fast_match, fast_end_of_block, fast_invalid
  <1>2. mode_ = "LEN" /\ mode_ \in SymbolModes /\ TypeOK /\ at \in 1 .. N /\ at <= N /\ item \in Item
        /\ Len(output) = Len(stream.text[at])
    BY <1>1, FastAt
  <1>3. CASE fast_literal
    BY <1>1, <1>3, ShownFastText DEF fast_literal, state
  <1>4. CASE fast_match
    <2>1. item.op = "match" /\ Distance(item) \in Nat
      BY <1>2, <1>4, MatchTypes DEF fast_match
    <2>2. CASE at' = at + 1 /\ mode_' = mode_
      BY <1>1, <2>2, ShownFastText
    <2>3. CASE Distance(item) - used > Len(window) /\ err("invalid_distance")
      <3>1. Len(stream.text[at]) <= Len(output)
        BY <1>2, ItemAt
      <3>2. ~Acceptable
        BY <1>2, <2>1, <2>3, <3>1, TooFar
      <3> QED BY <1>2, <2>3, <3>2, Refusal
    <2> QED BY <1>4, <2>2, <2>3 DEF fast_match
  <1>5. CASE fast_end_of_block
    <2>1. output' = output /\ mode_' = "TYPE"
      BY <1>5 DEF fast_end_of_block, Goto, result
    <2> QED BY <1>2, <2>1, Quiet
  <1>6. CASE fast_invalid
    <2>1. \/ item.op = "invalid" /\ err("invalid_literal_length")
          \/ item.op = "match" /\ ~item.valid /\ err("invalid_distance_code")
      BY <1>6 DEF fast_invalid
    <2>2. ~Acceptable
      BY <1>2, <2>1, BadItem DEF SoundItem
    <2> QED BY <1>2, <2>1, <2>2, Refusal
  <1> QED BY <1>3, <1>4, <1>5, <1>6 DEF InFast

-----------------------------------------------------------------------------
(* The trailer *)

\* A gzip stream whose checksum is compared is not acceptable, and one of another kind has a wrong one.
LEMMA ShownCHECK ==
    ASSUME IInv, CHECK
    PROVE  Shown
  <1> DEFINE c == IF verify THEN check_ + used ELSE check_
  <1>1. mode_ = "CHECK"
    BY DEF CHECK, In
  <1>2. CASE wrap_ # "none" /\ verify /\ ~SameCheck(c) /\ err("incorrect_data_check")
    <2>1. check_ = total_out
      BY <1>1, <1>2 DEF IInv, CheckCoversOutput
    <2>2. c = Len(output)
      BY <1>2, <2>1, Numbers DEF used
    <2>3. ~stream.check \/ wrap_ = "gzip"
      BY <1>2, <2>2 DEF SameCheck
    <2>4. ~Acceptable
      BY <1>2, <2>3 DEF Acceptable, Sound
    <2> QED BY <1>1, <1>2, <2>4, Refusal
  <1>3. CASE output' = output /\ mode_' \in {"CHECK", "LENGTH"}
    BY <1>1, <1>3, Quiet
  <1>4. \/ wrap_ # "none" /\ verify /\ ~SameCheck(c) /\ err("incorrect_data_check")
        \/ output' = output /\ mode_' \in {"CHECK", "LENGTH"}
    BY <1>1 DEF CHECK, Goto, result
  <1> QED BY <1>2, <1>3, <1>4

\* What a mode of the trailer shows to the caller.
LEMMA ShownInTrailer ==
    ASSUME IInv, InTrailer
    PROVE  Shown
  <1>1. CASE CHECK
    BY <1>1, ShownCHECK
  <1>2. CASE LENGTH
    <2>1. mode_ = "LENGTH"
      BY <1>2 DEF LENGTH, In
    <2>2. CASE ~stream.length /\ err("incorrect_length_check")
      <3>1. ~Acceptable
        BY <2>2 DEF Acceptable, Sound
      <3> QED BY <2>1, <2>2, <3>1, Refusal
    <2>3. CASE output' = output /\ mode_' \in {"LENGTH", "DONE"}
      BY <2>1, <2>3 DEF Shown, Ends, Hides
    <2>4. \/ ~stream.length /\ err("incorrect_length_check")
          \/ output' = output /\ mode_' \in {"LENGTH", "DONE"}
      BY <1>2, <2>1 DEF LENGTH, Goto, result
    <2> QED BY <2>2, <2>3, <2>4
  <1>3. CASE DONE \/ BAD
    <2>1. mode_' = mode_ /\ output' = output
      BY <1>3 DEF DONE, BAD, result, state
    <2> QED BY <2>1 DEF Shown, Hides
  <1> QED BY <1>1, <1>2, <1>3 DEF InTrailer

-----------------------------------------------------------------------------
(* What is shown is a step of the decoder *)

\* Every step inside a call that is not its return.
LEMMA EachIsShown ==
    ASSUME IInv, IInv', UNCHANGED frame,
           InHeader \/ InBlock \/ InSymbol \/ InFast \/ InTrailer
    PROVE  Shown
  <1>1. CASE InHeader
    BY <1>1, ShownHEAD, ShownField, ShownText, ShownHCRC, ShownDICTID DEF InHeader
  <1>2. CASE InBlock
    BY <1>2, ShownTYPE, ShownSTORED, ShownCOPY, ShownTABLE, ShownCODELENS DEF InBlock
  <1>3. CASE InSymbol
    BY <1>3, ShownLEN, ShownExtra, ShownDIST, ShownMATCH, ShownLIT DEF InSymbol
  <1> QED BY <1>1, <1>2, <1>3, ShownInFast, ShownInTrailer

\* The stream and the wish to compare checksums are all that the promise is about.
LEMMA SamePromise ==
    ASSUME stream' = stream, verify' = verify
    PROVE  UNCHANGED <<Text(stream), Sound(stream, capacity) /\ ~(wrap_ = "gzip" /\ verify), Valid>>
  <1>1. Text(stream)' = Text(stream)
    OBVIOUS
  <1>2. wrap_' = wrap_
    BY DEF wrap_
  <1>3. Sound(stream, capacity)' = Sound(stream, capacity)
    OBVIOUS
  <1>4. Valid' = Valid
    BY DEF Valid
  <1> QED BY <1>1, <1>2, <1>3, <1>4

\* What is given stays given, and is the beginning of the text.
LEMMA GivesText ==
    ASSUME IInv, IInv', UNCHANGED frame, Gives
    PROVE  D!Give
  <1>1. mode_ \notin {"BAD", "DONE"} /\ mode_' \notin {"BAD", "DONE"} /\ Len(output) <= Len(output')
    BY DEF Gives
  <1>2. /\ output \in Seq(Byte) /\ Len(output) \in Nat
        /\ output' \in Seq(Byte) /\ Len(output') \in Nat
    BY DEF IInv, DataInv
  <1>3. Text(stream) \in Seq(Byte)
    BY StateTypes, StreamTypes DEF IInv
  <1>4. /\ Len(output) <= Len(Text(stream))
        /\ \A k \in 1 .. Len(output) : output[k] = Text(stream)[k]
        /\ Len(output') <= Len(Text(stream))
        /\ \A k \in 1 .. Len(output') : output'[k] = Text(stream)[k]
    BY <1>1, FrameEffect DEF IInv, TextInv
  <1> DEFINE T == Text(stream)
             u == output'
  <1>5. SubSeq(u, 1, Len(output)) = SubSeq(output, 1, Len(output))
    <2>1. /\ Len(output) \in 0 .. Len(u) /\ u \in Seq(Byte)
          /\ \A k \in 1 .. Len(output) : u[k] = output[k]
      BY <1>1, <1>2, <1>4
    <2> QED BY <1>2, <2>1, SameBeginning
  <1>6. SubSeq(T, 1, Len(u)) = SubSeq(u, 1, Len(u))
    <2>1. /\ Len(u) \in 0 .. Len(T) /\ u \in Seq(Byte) /\ T \in Seq(Byte)
          /\ \A k \in 1 .. Len(u) : T[k] = u[k]
      BY <1>2, <1>3, <1>4
    <2> QED BY <1>2, <2>1, SameBeginning
  <1>7. SubSeq(output, 1, Len(output)) = output /\ SubSeq(u, 1, Len(u)) = u
    BY <1>2
  <1>8. D!Prefix(output, u) /\ D!Prefix(u, T)
    BY <1>1, <1>4, <1>5, <1>6, <1>7 DEF D!Prefix
  <1>9. stream' = stream /\ verify' = verify
    BY FrameEffect
  <1> QED BY <1>1, <1>8, <1>9, SamePromise DEF D!Give

\* The end is reported of a valid stream, when all its text has been given.
LEMMA EndsValid ==
    ASSUME IInv, IInv', UNCHANGED frame, Ends
    PROVE  D!End
  <1>1. mode_ = "LENGTH" /\ mode_' = "DONE" /\ output' = output
    BY DEF Ends
  <1>2. stream' = stream /\ verify' = verify /\ N' = N
    BY FrameEffect
  <1>3. WellFormed(stream) /\ N \in Nat /\ at' = N + 1 /\ stream.text[N + 1] = Text(stream)
    BY <1>1, <1>2, StateTypes DEF IInv, ItemInv, EndModes, N, Text
  <1>4. output = Text(stream)
    <2>1. /\ output \in Seq(Byte) /\ Text(stream) \in Seq(Byte)
          /\ Len(Text(stream)) \in Nat
      BY <1>3, Numbers, StreamTypes
    <2>2. Len(output) = Len(Text(stream)) + 0
      BY <1>1, <1>2, <1>3 DEF IInv, TextInv, Copied
    <2>3. \A k \in 1 .. Len(output) : output[k] = Text(stream)[k]
      BY <1>1 DEF IInv, TextInv
    <2> QED BY <2>1, <2>2, <2>3
  <1>5. Valid
    <2>1. SoundHead(stream, capacity) \/ (~verify /\ stream.head.error = "header_crc_mismatch")
      BY <1>1 DEF IInv, SoundInv, HeadModes
    <2>2. verify => stream.check
      BY <1>1 DEF IInv, SoundInv
    <2>3. ASSUME NEW i \in 1 .. N
          PROVE  SoundItem(stream.items[i], stream.text[i], Len(Text(stream)))
      <3>1. i \in 1 .. at' - 1
        BY <1>3
      <3>2. SoundItem(stream.items[i], stream.text[i], Len(stream.text[i]))
        BY <1>1, <1>2, <3>1 DEF IInv, SoundInv
      <3>3. i \in 1 .. Len(stream.items) + 1 /\ i \in 1 .. Len(stream.items) /\ N = Len(stream.items)
        BY <1>3 DEF N
      <3>4. /\ Len(stream.text[i]) \in Nat /\ Len(Text(stream)) \in Nat
            /\ Len(stream.text[i]) <= Len(Text(stream)) /\ stream.items[i] \in Item
        BY <1>3, <3>3, StreamTypes, TextsArePrefixes
      <3>5. CASE stream.items[i].op = "match"
        <4>1. Distance(stream.items[i]) \in Nat
          BY <3>4, <3>5, MatchTypes
        <4> QED BY <3>2, <3>4, <3>5, <4>1 DEF SoundItem
      <3>6. CASE stream.items[i].op # "match"
        BY <3>2, <3>6 DEF SoundItem
      <3> QED BY <3>5, <3>6
    <2> QED BY <2>1, <2>2, <2>3 DEF Valid, N
  <1> QED BY <1>1, <1>2, <1>4, <1>5, SamePromise DEF D!End

\* Only a stream that is not sound is refused, and the bytes of the call are taken back.
LEMMA RefusesBad ==
    ASSUME IInv, UNCHANGED frame, Refuses
    PROVE  D!Fail
  <1>1. /\ mode_ \notin {"BAD", "DONE"} /\ mode_' = "BAD"
        /\ ~(Sound(stream, capacity) /\ ~(wrap_ = "gzip" /\ verify))
    BY DEF Refuses, Acceptable
  <1>2. output \in Seq(Byte) /\ Len(output) \in Nat /\ total_out \in 0 .. Len(output)
    BY Numbers
  <1>3. D!Prefix(output', output)
    <2>1. CASE output' = output
      <3>1. SubSeq(output, 1, Len(output)) = output
        BY <1>2
      <3> QED BY <1>2, <2>1, <3>1 DEF D!Prefix
    <2>2. CASE output' = SubSeq(output, 1, total_out)
      <3>1. Len(output') = total_out
        BY <1>2, <2>2, Beginning
      <3> QED BY <1>2, <2>2, <3>1 DEF D!Prefix
    <2> QED BY <2>1, <2>2 DEF Refuses
  <1>4. stream' = stream /\ verify' = verify
    BY FrameEffect
  <1> QED BY <1>1, <1>3, <1>4, SamePromise DEF D!Fail

DecoderStep == [D!Give \/ D!End \/ D!Fail \/ D!Restart]_(D!decoderVars)

\* A step that leaves what the caller sees is a stutter of the decoder.
LEMMA HidesAll ==
    ASSUME stream' = stream, verify' = verify, output' = output,
           mode_' = mode_ \/ {mode_, mode_'} \cap {"BAD", "DONE"} = {}
    PROVE  DecoderStep
  <1>1. UNCHANGED (IF mode_ = "BAD" THEN "failed" ELSE IF mode_ = "DONE" THEN "ended" ELSE "open")
    OBVIOUS
  <1> QED BY <1>1, SamePromise DEF DecoderStep, D!decoderVars

(***************************************************************************)
(* inflate_stream keeps the promise of Decoder, however input and output   *)
(* are cut: what write() hands over is the text in order, the end of the   *)
(* stream is reported when all of it is there and the stream is valid, an  *)
(* error is final, and only for a stream that is not sound or, where the   *)
(* checksum of a gzip stream is to be compared, for any.                   *)
(***************************************************************************)
THEOREM KeepsThePromise == Spec => IsDecoder
  <1>1. Init => D!Start
    BY DEF Init, D!Start
  <1>2. ASSUME IInv, IInv', [Next]_vars PROVE DecoderStep
    <2>1. CASE (InHeader \/ InBlock \/ InSymbol \/ InFast \/ InTrailer) /\ UNCHANGED frame
      <3>1. CASE Hides
        BY <2>1, <3>1, FrameEffect, HidesAll DEF Hides
      <3> QED BY <1>2, <2>1, <3>1, EachIsShown, GivesText, EndsValid, RefusesBad DEF Shown, DecoderStep
    <2>2. CASE done
      BY <2>2, HidesAll DEF done, result
    <2>3. CASE Call
      <3>1. stream' = stream /\ verify' = verify /\ output' = output /\ mode_' = Entered
        BY <2>3 DEF Call, write
      <3> QED BY <3>1, HidesAll DEF Entered
    <2>4. CASE Reset
      BY <2>4 DEF Reset, doReset, StartOf, DecoderStep, D!Restart
    <2>5. CASE UNCHANGED vars
      BY <2>5, HidesAll DEF vars, frame, result, state
    <2> QED BY <1>2, <2>1, <2>2, <2>3, <2>4, <2>5 DEF Next, Inside
  <1>3. Spec => []IInv
    BY Invariance
  <1> QED
    BY <1>1, <1>2, <1>3, PTL DEF Spec, IsDecoder, D!Decodes, DecoderStep
=============================================================================
