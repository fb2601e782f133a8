-------------------------- MODULE BitWriterProofs --------------------------
(***************************************************************************)
(* Proofs about BitWriter, for every width of a byte, every capacity of the   *)
(* pending buffer and every choice of pieces and stored blocks.               *)
(*                                                                           *)
(* The argument: Holds says that a writer that starts at the front of its     *)
(* buffer holds what follows the first h bits of a queue q.  Every operation  *)
(* that appends bits takes a writer that holds q to one that holds q with     *)
(* the bits appended; the actions compose operations.                         *)
(***************************************************************************)
EXTENDS BitWriter, SequenceTheorems, TLAPS

(* What a writer has in its buffer, from position o on, and in its word is the *)
(* queue q without its first h bits; the rest of the word is clear, since     *)
(* send_bits only sets bits.                                                  *)
HoldsAt(s, o, q, h) ==
    /\ Len(q) = h + s.pending_ + s.bi_valid_
    /\ \A i \in 0..s.pending_ - 1 : s.pending_buf_[o + i] = q[h + i + 1]
    /\ \A j \in 0..s.bi_valid_ - 1 : s.bi_buf_[j] = q[h + s.pending_ + j + 1]
    /\ \A j \in s.bi_valid_..buf_size - 1 : s.bi_buf_[j] = 0

Holds(s, q, h) ==
    /\ s \in Writer
    /\ q \in Seq(Bit)
    /\ HoldsAt(s, 0, q, h)
    /\ Multiple(s.pending_)

(* A step that may put bytes finds room for a word.                            *)
IInv ==
    /\ TypeOK
    /\ HoldsAt(w, pending_out_, sent, Len(next_out))
    /\ \A i \in 1..Len(next_out) : next_out[i] = sent[i]
    /\ Multiple(Len(next_out))
    /\ Multiple(w.pending_)
    /\ NothingToPutBehind
    /\ w.bi_valid_ >= byte => w.pending_ + buf_size <= Capacity

-----------------------------------------------------------------------------
(* Multiples of a byte.                                                        *)
LEMMA MultipleFacts ==
    /\ Multiple(0) /\ Multiple(byte) /\ Multiple(buf_size)
    /\ \A n, m \in Nat : Multiple(n) /\ Multiple(m) => Multiple(n + m)
    /\ \A n, m \in Nat : Multiple(n) /\ Multiple(m) /\ m <= n => Multiple(n - m)
<1>1. Multiple(0) /\ Multiple(byte) /\ Multiple(buf_size)
  <2>1. 0 \in 0..0 /\ 0 = 0 * byte  BY ByteAssumption
  <2>2. 1 \in 0..byte /\ byte = 1 * byte  BY ByteAssumption
  <2>3. 2 \in 0..buf_size /\ buf_size = 2 * byte  BY ByteAssumption DEF buf_size
  <2> QED  BY <2>1, <2>2, <2>3 DEF Multiple
<1>2. ASSUME NEW n \in Nat, NEW m \in Nat, Multiple(n), Multiple(m)
      PROVE  Multiple(n + m) /\ (m <= n => Multiple(n - m))
  <2>1. PICK k \in 0..n : n = k * byte  BY <1>2 DEF Multiple
  <2>2. PICK l \in 0..m : m = l * byte  BY <1>2 DEF Multiple
  <2>3. n + m = (k + l) * byte /\ k + l \in 0..n + m
    BY <2>1, <2>2, ByteAssumption
  <2>4. ASSUME m <= n  PROVE  Multiple(n - m)
    <3>1. n - m = (k - l) * byte  BY <2>1, <2>2, ByteAssumption
    <3>2. k - l >= 0
      <4>1. SUFFICES ASSUME k + 1 <= l  PROVE FALSE  BY <2>1, <2>2
      <4>2. (l - k - 1) * byte >= 0  BY <4>1, <2>1, <2>2, ByteAssumption
      <4>3. l * byte >= k * byte + byte  BY <4>2, <2>1, <2>2, ByteAssumption
      <4> QED  BY <4>3, <2>1, <2>2, <2>4, ByteAssumption
    <3>3. k - l <= n - m
      <4>1. (k - l) * (byte - 1) >= 0  BY <3>2, <2>1, <2>2, ByteAssumption
      <4> QED  BY <4>1, <3>1, <2>1, <2>2, ByteAssumption
    <3> QED  BY <3>1, <3>2, <3>3, <2>1, <2>2 DEF Multiple
  <2> QED  BY <2>3, <2>4 DEF Multiple
<1> QED  BY <1>1, <1>2

(* Between two multiples less than a byte apart there is nothing.              *)
LEMMA MultiplesApart ==
    ASSUME NEW n \in Nat, NEW m \in Nat, Multiple(n), Multiple(m),
           m <= n, n - m < byte
    PROVE  n = m
<1>1. Multiple(n - m)  BY MultipleFacts
<1>2. PICK k \in 0..n - m : n - m = k * byte  BY <1>1 DEF Multiple
<1>3. CASE k = 0  BY <1>2, <1>3, ByteAssumption
<1>4. CASE k >= 1
  <2>1. (k - 1) * byte >= 0  BY <1>4, ByteAssumption
  <2>2. k * byte >= byte  BY <2>1, <1>4, ByteAssumption
  <2> QED  BY <2>2, <1>2, ByteAssumption
<1> QED  BY <1>3, <1>4

(* The padding is determined by the place where it ends.                       *)
LEMMA PadIs ==
    ASSUME NEW n \in Nat, NEW p \in 0..byte - 1, Multiple(n + p)
    PROVE  Pad(n) = p
<1>1. ASSUME NEW r \in 0..byte - 1, Multiple(n + r)  PROVE r = p
  <2>1. n + r \in Nat /\ n + p \in Nat  BY ByteAssumption
  <2>2. CASE r <= p
    <3>1. n + p = n + r
      <4>1. n + r <= n + p /\ (n + p) - (n + r) < byte  BY <2>2, ByteAssumption
      <4> QED  BY <4>1, <2>1, <1>1, MultiplesApart
    <3> QED  BY <3>1, ByteAssumption
  <2>3. CASE p <= r
    <3>1. n + r = n + p
      <4>1. n + p <= n + r /\ (n + r) - (n + p) < byte  BY <2>3, ByteAssumption
      <4> QED  BY <4>1, <2>1, <1>1, MultiplesApart
    <3> QED  BY <3>1, ByteAssumption
  <2> QED  BY <2>2, <2>3, ByteAssumption
<1> QED  BY <1>1 DEF Pad

-----------------------------------------------------------------------------
(* Sequences of bits.                                                          *)
LEMMA Appended ==
    ASSUME NEW q \in Seq(Bit), NEW v \in Seq(Bit)
    PROVE  /\ q \o v \in Seq(Bit)
           /\ Len(q \o v) = Len(q) + Len(v)
           /\ \A i \in 1..Len(q) : (q \o v)[i] = q[i]
           /\ \A i \in 1..Len(v) : (q \o v)[Len(q) + i] = v[i]
  OBVIOUS

\* Putting sequences of bits together is associative.
LEMMA Associative ==
    ASSUME NEW q \in Seq(Bit), NEW a \in Seq(Bit), NEW b \in Seq(Bit)
    PROVE  (q \o a) \o b = q \o (a \o b)
  BY ConcatAssociative

\* Zeros(n) is n bits, all zero.
LEMMA ZerosAre ==
    ASSUME NEW n \in Nat
    PROVE  Zeros(n) \in Seq(Bit) /\ Len(Zeros(n)) = n /\ \A i \in 1..n : Zeros(n)[i] = 0
  BY DEF Zeros, Bit

\* A word is its low byte and its high byte.
LEMMA WordParts ==
    ASSUME NEW c \in Word
    PROVE  /\ LowByte(c) \in Seq(Bit) /\ Len(LowByte(c)) = byte
           /\ HighByte(c) \in Seq(Bit) /\ Len(HighByte(c)) = byte
           /\ \A i \in 1..byte : LowByte(c)[i] = c[i - 1]
           /\ \A i \in 1..byte : HighByte(c)[i] = c[byte + i - 1]
           /\ Complement(c) \in Word
<1>1. /\ \A i \in 1..byte : c[i - 1] \in Bit /\ c[byte + i - 1] \in Bit
      /\ \A i \in 1..buf_size : c[i - 1] \in Bit
  BY ByteAssumption DEF Word, buf_size
<1>2. Complement(c) \in Word
  BY ByteAssumption DEF Word, buf_size, Bit, Complement
<1> QED  BY <1>1, <1>2, ByteAssumption DEF LowByte, HighByte, buf_size

-----------------------------------------------------------------------------
(* The primitives.                                                             *)
LEMMA PutFacts ==
    ASSUME NEW s \in Writer, NEW b \in Seq(Bit), s.pending_ + Len(b) <= Capacity
    PROVE  /\ Put(s, b) \in Writer
           /\ Put(s, b).bi_buf_ = s.bi_buf_
           /\ Put(s, b).bi_valid_ = s.bi_valid_
           /\ Put(s, b).pending_ = s.pending_ + Len(b)
           /\ \A i \in 0..s.pending_ - 1 : Put(s, b).pending_buf_[i] = s.pending_buf_[i]
           /\ \A i \in s.pending_..s.pending_ + Len(b) - 1 :
                 Put(s, b).pending_buf_[i] = b[i - s.pending_ + 1]
<1> DEFINE mem == [i \in DOMAIN s.pending_buf_ |->
                      IF s.pending_ <= i /\ i < s.pending_ + Len(b)
                      THEN b[i - s.pending_ + 1] ELSE s.pending_buf_[i]]
<1>1. /\ s.pending_buf_ \in [0..Capacity - 1 -> Bit] /\ s.pending_ \in 0..Capacity
      /\ Len(b) \in Nat
  BY DEF Writer
<1>2. mem \in [0..Capacity - 1 -> Bit]
  <2>1. ASSUME NEW i \in 0..Capacity - 1  PROVE mem[i] \in Bit
    BY <1>1, <2>1, CapacityAssumption
  <2> QED  BY <2>1, <1>1
<1>3. /\ \A i \in 0..s.pending_ - 1 : mem[i] = s.pending_buf_[i]
      /\ \A i \in s.pending_..s.pending_ + Len(b) - 1 : mem[i] = b[i - s.pending_ + 1]
  <2>1. DOMAIN s.pending_buf_ = 0..Capacity - 1  BY <1>1
  <2>2. ASSUME NEW i \in 0..s.pending_ - 1  PROVE mem[i] = s.pending_buf_[i]
    <3>1. i \in 0..Capacity - 1 /\ ~(s.pending_ <= i)  BY <1>1, <2>2, CapacityAssumption
    <3> QED  BY <3>1, <2>1
  <2>3. ASSUME NEW i \in s.pending_..s.pending_ + Len(b) - 1
        PROVE  mem[i] = b[i - s.pending_ + 1]
    <3>1. i \in 0..Capacity - 1 /\ s.pending_ <= i /\ i < s.pending_ + Len(b)
      BY <1>1, <2>3, CapacityAssumption
    <3> QED  BY <3>1, <2>1
  <2> QED  BY <2>2, <2>3
<1>4. Put(s, b) = [s EXCEPT !.pending_buf_ = mem, !.pending_ = s.pending_ + Len(b)]
  BY DEF Put
<1> HIDE DEF mem
<1>5. s.pending_ + Len(b) \in 0..Capacity  BY <1>1, CapacityAssumption
<1>6. Put(s, b) \in Writer  BY <1>2, <1>4, <1>5 DEF Writer
<1>7. /\ Put(s, b).bi_buf_ = s.bi_buf_ /\ Put(s, b).bi_valid_ = s.bi_valid_
      /\ Put(s, b).pending_ = s.pending_ + Len(b) /\ Put(s, b).pending_buf_ = mem
  BY <1>4 DEF Writer
<1> QED  BY <1>3, <1>6, <1>7

\* put_short writes the low byte of a word, then the high one.
LEMMA PutShortFacts ==
    ASSUME NEW s \in Writer, NEW c \in Word, s.pending_ + buf_size <= Capacity
    PROVE  /\ put_short(s, c) \in Writer
           /\ put_short(s, c).bi_buf_ = s.bi_buf_
           /\ put_short(s, c).bi_valid_ = s.bi_valid_
           /\ put_short(s, c).pending_ = s.pending_ + buf_size
           /\ \A i \in 0..s.pending_ - 1 :
                 put_short(s, c).pending_buf_[i] = s.pending_buf_[i]
           /\ \A i \in s.pending_..s.pending_ + buf_size - 1 :
                 put_short(s, c).pending_buf_[i] = c[i - s.pending_]
<1> DEFINE t == Put(s, LowByte(c))
           u == Put(t, HighByte(c))
<1>0. s.pending_ \in Nat  BY CapacityAssumption DEF Writer
<1>1. /\ t \in Writer /\ t.bi_buf_ = s.bi_buf_ /\ t.bi_valid_ = s.bi_valid_
      /\ t.pending_ = s.pending_ + byte
      /\ \A i \in 0..s.pending_ - 1 : t.pending_buf_[i] = s.pending_buf_[i]
      /\ \A i \in s.pending_..s.pending_ + byte - 1 :
            t.pending_buf_[i] = LowByte(c)[i - s.pending_ + 1]
  <2> DEFINE b == LowByte(c)
  <2>1. Len(b) = byte /\ b \in Seq(Bit)  BY WordParts
  <2> HIDE DEF b
  <2>2. s.pending_ + Len(b) <= Capacity
    BY <1>0, <2>1, ByteAssumption, CapacityAssumption DEF buf_size
  <2>3. /\ Put(s, b) \in Writer /\ Put(s, b).bi_buf_ = s.bi_buf_
        /\ Put(s, b).bi_valid_ = s.bi_valid_
        /\ Put(s, b).pending_ = s.pending_ + Len(b)
        /\ \A i \in 0..s.pending_ - 1 : Put(s, b).pending_buf_[i] = s.pending_buf_[i]
        /\ \A i \in s.pending_..s.pending_ + Len(b) - 1 :
              Put(s, b).pending_buf_[i] = b[i - s.pending_ + 1]
    BY <2>1, <2>2, PutFacts
  <2> QED  BY <2>1, <2>3 DEF b
<1> HIDE DEF t
<1>2. /\ u \in Writer /\ u.bi_buf_ = s.bi_buf_ /\ u.bi_valid_ = s.bi_valid_
      /\ u.pending_ = s.pending_ + buf_size
      /\ \A i \in 0..s.pending_ + byte - 1 : u.pending_buf_[i] = t.pending_buf_[i]
      /\ \A i \in s.pending_ + byte..s.pending_ + buf_size - 1 :
            u.pending_buf_[i] = HighByte(c)[i - (s.pending_ + byte) + 1]
  <2>1. t.pending_ + Len(HighByte(c)) <= Capacity
    BY <1>0, <1>1, WordParts, ByteAssumption, CapacityAssumption DEF buf_size
  <2>2. s.pending_ + byte + byte = s.pending_ + buf_size
    BY <1>0, ByteAssumption DEF buf_size
  <2>3. Len(HighByte(c)) = byte /\ HighByte(c) \in Seq(Bit)  BY WordParts
  <2> DEFINE b == HighByte(c)
  <2>4. /\ u \in Writer /\ u.bi_buf_ = t.bi_buf_ /\ u.bi_valid_ = t.bi_valid_
        /\ u.pending_ = t.pending_ + Len(b)
        /\ \A i \in 0..t.pending_ - 1 : u.pending_buf_[i] = t.pending_buf_[i]
        /\ \A i \in t.pending_..t.pending_ + Len(b) - 1 :
              u.pending_buf_[i] = b[i - t.pending_ + 1]
    BY <2>1, <2>3, <1>1, PutFacts
  <2> HIDE DEF u, b
  <2>5. t.pending_ + Len(b) = s.pending_ + buf_size /\ t.pending_ = s.pending_ + byte
    BY <2>2, <2>3, <1>1 DEF b
  <2>6. \A i \in s.pending_ + byte..s.pending_ + buf_size - 1 :
           u.pending_buf_[i] = b[i - (s.pending_ + byte) + 1]
    <3> TAKE i \in s.pending_ + byte..s.pending_ + buf_size - 1
    <3>1. i \in t.pending_..t.pending_ + Len(b) - 1
      BY <2>3, <2>5, <1>0, ByteAssumption DEF b, buf_size
    <3>2. u.pending_buf_[i] = b[i - t.pending_ + 1]  BY <3>1, <2>4
    <3> QED  BY <3>2, <2>5
  <2>7. \A i \in 0..s.pending_ + byte - 1 : u.pending_buf_[i] = t.pending_buf_[i]
    <3> TAKE i \in 0..s.pending_ + byte - 1
    <3>1. i \in 0..t.pending_ - 1  BY <2>5, <1>0, ByteAssumption
    <3> QED  BY <3>1, <2>4
  <2> QED  BY <2>4, <2>5, <2>6, <2>7, <1>1 DEF b
<1> HIDE DEF u
<1>3. \A i \in s.pending_..s.pending_ + byte - 1 : u.pending_buf_[i] = c[i - s.pending_]
  <2> TAKE i \in s.pending_..s.pending_ + byte - 1
  <2> DEFINE k == i - s.pending_ + 1
  <2>1. k \in 1..byte /\ i \in 0..s.pending_ + byte - 1 /\ k - 1 = i - s.pending_
    BY <1>0, ByteAssumption
  <2>2. u.pending_buf_[i] = LowByte(c)[k]  BY <2>1, <1>1, <1>2
  <2> HIDE DEF k
  <2>3. LowByte(c)[k] = c[k - 1]  BY <2>1, WordParts
  <2> QED  BY <2>1, <2>2, <2>3
<1>4. \A i \in s.pending_ + byte..s.pending_ + buf_size - 1 :
         u.pending_buf_[i] = c[i - s.pending_]
  <2> TAKE i \in s.pending_ + byte..s.pending_ + buf_size - 1
  <2> DEFINE k == i - (s.pending_ + byte) + 1
  <2>1. k \in 1..byte /\ byte + k - 1 = i - s.pending_
    BY <1>0, ByteAssumption DEF buf_size
  <2>2. HighByte(c)[k] = c[byte + k - 1]  BY <2>1, WordParts
  <2> QED  BY <2>1, <2>2, <1>2
<1>5. \A i \in s.pending_..s.pending_ + buf_size - 1 : u.pending_buf_[i] = c[i - s.pending_]
  BY <1>0, <1>3, <1>4, ByteAssumption DEF buf_size
<1>6. \A i \in 0..s.pending_ - 1 : u.pending_buf_[i] = s.pending_buf_[i]
  BY <1>0, <1>1, <1>2, ByteAssumption
<1>7. put_short(s, c) = u  BY DEF put_short, u, t
<1> QED  BY <1>2, <1>5, <1>6, <1>7

-----------------------------------------------------------------------------
(* The numbers of a writer.                                                    *)
LEMMA Numbers ==
    ASSUME NEW s \in Writer
    PROVE  /\ s.pending_ \in Nat /\ s.pending_ <= Capacity
           /\ s.bi_valid_ \in Nat /\ s.bi_valid_ <= buf_size
           /\ s.bi_buf_ \in Word /\ buf_size \in Nat /\ buf_size = byte + byte
           /\ \A j \in 0..buf_size - 1 : s.bi_buf_[j] \in Bit
           /\ ZeroWord \in Word /\ \A j \in 0..buf_size - 1 : ZeroWord[j] = 0
  BY ByteAssumption, CapacityAssumption DEF Writer, Word, buf_size, ZeroWord, Bit

(* Or-ing a value into a word that is clear above its bits appends the value,  *)
(* as far as the word reaches.                                                 *)
LEMMA OrFacts ==
    ASSUME NEW c \in Word, NEW v \in Seq(Bit), NEW at \in 0..buf_size,
           \A j \in at..buf_size - 1 : c[j] = 0
    PROVE  /\ OrShifted(c, v, at) \in Word
           /\ \A j \in 0..at - 1 : OrShifted(c, v, at)[j] = c[j]
           /\ \A j \in at..buf_size - 1 :
                 OrShifted(c, v, at)[j] = IF j - at < Len(v) THEN v[j - at + 1] ELSE 0
<1>1. buf_size \in Nat /\ \A j \in 0..buf_size - 1 : c[j] \in Bit
  BY ByteAssumption DEF Word, buf_size
<1>2. \A j \in 0..buf_size - 1 :
         OrShifted(c, v, at)[j] =
             IF j < at THEN c[j] ELSE IF c[j] = 1 THEN 1 ELSE BitOf(v, j - at)
  BY DEF OrShifted
<1>3. \A j \in 0..at - 1 : OrShifted(c, v, at)[j] = c[j]
  <2> TAKE j \in 0..at - 1
  <2>1. j \in 0..buf_size - 1 /\ j < at  BY <1>1
  <2> QED  BY <2>1, <1>2
<1>4. \A j \in at..buf_size - 1 :
         OrShifted(c, v, at)[j] = IF j - at < Len(v) THEN v[j - at + 1] ELSE 0
  <2> TAKE j \in at..buf_size - 1
  <2>1. j \in 0..buf_size - 1 /\ ~(j < at)  BY <1>1
  <2>2. c[j] = 0  OBVIOUS
  <2> QED  BY <2>1, <2>2, <1>2 DEF BitOf
<1>5. OrShifted(c, v, at) \in Word
  <2>1. ASSUME NEW j \in 0..buf_size - 1  PROVE OrShifted(c, v, at)[j] \in Bit
    <3>1. CASE j < at  BY <3>1, <2>1, <1>1, <1>2
    <3>2. CASE ~(j < at)
      <4>1. j \in at..buf_size - 1  BY <3>2, <1>1
      <4>2. j - at < Len(v) => v[j - at + 1] \in Bit
        <5>1. j - at < Len(v) => j - at + 1 \in 1..Len(v)  BY <4>1, <1>1
        <5> QED  BY <5>1
      <4> QED  BY <4>1, <4>2, <1>4 DEF Bit
    <3> QED  BY <3>1, <3>2
  <2> QED  BY <2>1 DEF OrShifted, Word
<1> QED  BY <1>3, <1>4, <1>5

\* What a shift to the right leaves of a sequence of bits.
LEMMA ShiftFacts ==
    ASSUME NEW v \in Seq(Bit), NEW by \in Nat
    PROVE  /\ ShiftedRight(v, by) \in Word
           /\ \A j \in 0..buf_size - 1 :
                 ShiftedRight(v, by)[j] = IF j + by < Len(v) THEN v[j + by + 1] ELSE 0
<1>1. \A j \in 0..buf_size - 1 : j + by < Len(v) => j + by + 1 \in 1..Len(v)
  BY ByteAssumption DEF buf_size
<1>2. \A j \in 0..buf_size - 1 :
          (IF j + by < Len(v) THEN v[j + by + 1] ELSE 0) \in Bit
  BY <1>1 DEF Bit
<1> QED  BY <1>2 DEF ShiftedRight, BitOf, Word

\* A writer holds a sequence of bits if each of them is in its place.
LEMMA HoldsIs ==
    ASSUME NEW t \in Writer, NEW r \in Seq(Bit), NEW h \in Nat, NEW p \in Nat, NEW f \in Nat,
           t.pending_ = p, t.bi_valid_ = f, Len(r) = h + p + f, Multiple(p),
           \A i \in 0..p - 1 : t.pending_buf_[i] = r[h + i + 1],
           \A j \in 0..f - 1 : t.bi_buf_[j] = r[h + p + j + 1],
           \A j \in f..buf_size - 1 : t.bi_buf_[j] = 0
    PROVE  Holds(t, r, h)
<1>1. \A i \in 0..p - 1 : t.pending_buf_[0 + i] = r[h + i + 1]  OBVIOUS
<1> QED  BY <1>1 DEF Holds, HoldsAt

\* send_bits appends a value to the bits that the writer holds.
LEMMA SendHolds ==
    ASSUME NEW s, NEW q, NEW h \in Nat, Holds(s, q, h),
           NEW v \in Seq(Bit), Len(v) <= buf_size,
           s.pending_ + buf_size <= Capacity
    PROVE  /\ Holds(send_bits(s, v), q \o v, h)
           /\ send_bits(s, v).pending_ <= s.pending_ + buf_size
<1> DEFINE p == s.pending_
           f == s.bi_valid_
           n == Len(v)
           c == OrShifted(s.bi_buf_, v, f)
           t == send_bits(s, v)
           r == q \o v
           by == buf_size - f
<1>1. /\ s \in Writer /\ q \in Seq(Bit) /\ Len(q) = h + p + f /\ Multiple(p)
      /\ \A i \in 0..p - 1 : s.pending_buf_[i] = q[h + i + 1]
      /\ \A j \in 0..f - 1 : s.bi_buf_[j] = q[h + p + j + 1]
      /\ \A j \in f..buf_size - 1 : s.bi_buf_[j] = 0
  <2>1. \A i \in 0..p - 1 : s.pending_buf_[0 + i] = q[h + i + 1]
    BY DEF Holds, HoldsAt
  <2> QED  BY <2>1, Numbers DEF Holds, HoldsAt
<1>2. /\ p \in Nat /\ f \in 0..buf_size /\ n \in 0..buf_size /\ buf_size \in Nat
  BY <1>1, Numbers
<1>3. /\ c \in Word
      /\ \A j \in 0..f - 1 : c[j] = s.bi_buf_[j]
      /\ \A j \in f..buf_size - 1 : c[j] = IF j - f < n THEN v[j - f + 1] ELSE 0
  <2>1. s.bi_buf_ \in Word
    BY <1>1, Numbers, Zenon
  <2>2. f \in 0..buf_size /\ \A j \in f..buf_size - 1 : s.bi_buf_[j] = 0
    BY <1>1, <1>2, Zenon
  <2> QED  BY <2>1, <2>2, OrFacts
<1>4. /\ r \in Seq(Bit) /\ Len(r) = h + p + f + n
      /\ \A i \in 1..h + p + f : r[i] = q[i]
      /\ \A i \in 1..n : r[h + p + f + i] = v[i]
  <2>1. Len(q) + n = h + p + f + n  BY <1>1, <1>2
  <2>2. r \in Seq(Bit) /\ Len(r) = Len(q) + n
    BY <1>1, Appended
  <2>3. (\A i \in 1..Len(q) : r[i] = q[i]) /\ \A i \in 1..n : r[Len(q) + i] = v[i]
    BY <1>1, Appended
  <2> HIDE DEF r, n, p, f
  <2> QED  BY <2>1, <2>2, <2>3, <1>1
<1>0. by = buf_size - f  OBVIOUS
<1> HIDE DEF c, r, p, f, n, by
<1>5. CASE f > buf_size - n
  <2> DEFINE u == put_short(s, c)
  <2>1. /\ u \in Writer /\ u.pending_ = p + buf_size
        /\ \A i \in 0..p - 1 : u.pending_buf_[i] = s.pending_buf_[i]
        /\ \A i \in p..p + buf_size - 1 : u.pending_buf_[i] = c[i - p]
    BY <1>1, <1>3, PutShortFacts DEF p
  <2>2. /\ ShiftedRight(v, by) \in Word
        /\ \A j \in 0..buf_size - 1 :
              ShiftedRight(v, by)[j] = IF j + by < n THEN v[j + by + 1] ELSE 0
    <3>1. by \in Nat  BY <1>0, <1>2
    <3> QED  BY <3>1, ShiftFacts DEF n
  <2>3. t = [u EXCEPT !.bi_buf_ = ShiftedRight(v, by), !.bi_valid_ = f + n - buf_size]
    BY <1>5 DEF send_bits, c, f, n, by
  <2> HIDE DEF u, t
  <2>4. /\ t.pending_ = p + buf_size /\ t.bi_valid_ = f + n - buf_size
        /\ t.bi_buf_ = ShiftedRight(v, by) /\ t.pending_buf_ = u.pending_buf_
        /\ t \in Writer
    <3>1. f + n - buf_size \in 0..buf_size  BY <1>2, <1>5
    <3> QED  BY <2>1, <2>2, <2>3, <3>1 DEF Writer
  <2>5. \A i \in 0..p + buf_size - 1 : t.pending_buf_[i] = r[h + i + 1]
    <3> TAKE i \in 0..p + buf_size - 1
    <3>1. CASE i < p
      <4>1. i \in 0..p - 1 /\ h + i + 1 \in 1..h + p + f  BY <3>1, <1>2
      <4> QED  BY <4>1, <2>1, <2>4, <1>1, <1>4
    <3>2. CASE i >= p /\ i - p < f
      <4>1. /\ i \in p..p + buf_size - 1 /\ i - p \in 0..f - 1
            /\ h + i + 1 \in 1..h + p + f /\ h + p + (i - p) + 1 = h + i + 1
        BY <3>2, <1>2
      <4>2. c[i - p] = q[h + p + (i - p) + 1]  BY <4>1, <1>1, <1>3
      <4> QED  BY <4>1, <4>2, <2>1, <2>4, <1>4
    <3>3. CASE i >= p /\ i - p >= f
      <4> DEFINE k == i - p - f + 1
      <4>1. /\ i \in p..p + buf_size - 1 /\ i - p \in f..buf_size - 1
            /\ k \in 1..n /\ h + p + f + k = h + i + 1 /\ i - p - f < n
        BY <3>3, <1>2, <1>5
      <4>2. c[i - p] = v[k]  BY <4>1, <1>3
      <4>3. r[h + p + f + k] = v[k]  BY <4>1, <1>4
      <4> QED  BY <4>1, <4>2, <4>3, <2>1, <2>4
    <3> QED  BY <3>1, <3>2, <3>3, <1>2
  <2>6. \A j \in 0..f + n - buf_size - 1 :
           t.bi_buf_[j] = r[h + (p + buf_size) + j + 1]
    <3> TAKE j \in 0..f + n - buf_size - 1
    <3> DEFINE k == j + by + 1
    <3>1. /\ j \in 0..buf_size - 1 /\ j + by < n /\ k \in 1..n
          /\ h + p + f + k = h + (p + buf_size) + j + 1
      BY <1>0, <1>2, <1>5
    <3>2. r[h + p + f + k] = v[k]  BY <3>1, <1>4
    <3> QED  BY <3>1, <3>2, <2>2, <2>4
  <2>7. \A j \in f + n - buf_size..buf_size - 1 : t.bi_buf_[j] = 0
    <3> TAKE j \in f + n - buf_size..buf_size - 1
    <3>1. j \in 0..buf_size - 1 /\ ~(j + by < n)  BY <1>0, <1>2, <1>5
    <3> QED  BY <3>1, <2>2, <2>4
  <2>8. Multiple(p + buf_size)  BY <1>1, <1>2, MultipleFacts
  <2>9. Len(r) = h + (p + buf_size) + (f + n - buf_size)  BY <1>2, <1>4
  <2>10. Holds(t, r, h)
    <3> DEFINE P == p + buf_size
               F == f + n - buf_size
    <3>1. P \in Nat /\ F \in Nat  BY <1>2, <1>5
    <3>2. /\ t.pending_ = P /\ t.bi_valid_ = F /\ t \in Writer /\ r \in Seq(Bit)
          /\ Len(r) = h + P + F /\ Multiple(P)
      BY <1>4, <2>4, <2>8, <2>9
    <3>3. /\ \A i \in 0..P - 1 : t.pending_buf_[i] = r[h + i + 1]
          /\ \A j \in 0..F - 1 : t.bi_buf_[j] = r[h + P + j + 1]
          /\ \A j \in F..buf_size - 1 : t.bi_buf_[j] = 0
      BY <1>2, <3>1, <2>5, <2>6, <2>7
    <3> HIDE DEF P, F
    <3> QED  BY <3>1, <3>2, <3>3, HoldsIs
  <2> QED  BY <2>4, <2>10, <1>2 DEF t, r, p
<1>6. CASE ~(f > buf_size - n)
  <2>1. t = [s EXCEPT !.bi_buf_ = c, !.bi_valid_ = f + n]
    BY <1>6 DEF send_bits, c, f, n
  <2> HIDE DEF t
  <2>2. /\ t.pending_ = p /\ t.bi_valid_ = f + n /\ t.bi_buf_ = c
        /\ t.pending_buf_ = s.pending_buf_ /\ t \in Writer
    <3>1. f + n \in 0..buf_size  BY <1>2, <1>6
    <3> QED  BY <1>1, <1>3, <2>1, <3>1 DEF Writer, p
  <2>3. \A i \in 0..p - 1 : t.pending_buf_[i] = r[h + i + 1]
    <3> TAKE i \in 0..p - 1
    <3>1. h + i + 1 \in 1..h + p + f  BY <1>2
    <3> QED  BY <3>1, <2>2, <1>1, <1>4
  <2>4. \A j \in 0..f + n - 1 : t.bi_buf_[j] = r[h + p + j + 1]
    <3> TAKE j \in 0..f + n - 1
    <3>1. CASE j < f
      <4>1. j \in 0..f - 1 /\ h + p + j + 1 \in 1..h + p + f  BY <3>1, <1>2
      <4> QED  BY <4>1, <2>2, <1>1, <1>3, <1>4
    <3>2. CASE j >= f
      <4> DEFINE k == j - f + 1
      <4>1. /\ j \in f..buf_size - 1 /\ j - f < n /\ k \in 1..n
            /\ h + p + f + k = h + p + j + 1
        BY <3>2, <1>2, <1>6
      <4>2. r[h + p + f + k] = v[k]  BY <4>1, <1>4
      <4> QED  BY <4>1, <4>2, <2>2, <1>3
    <3> QED  BY <3>1, <3>2, <1>2
  <2>5. \A j \in f + n..buf_size - 1 : t.bi_buf_[j] = 0
    <3> TAKE j \in f + n..buf_size - 1
    <3>1. j \in f..buf_size - 1 /\ ~(j - f < n)  BY <1>2, <1>6
    <3> QED  BY <3>1, <2>2, <1>3
  <2>6. Len(r) = h + p + (f + n)  BY <1>2, <1>4
  <2>7. Holds(t, r, h)
    <3> DEFINE F == f + n
    <3>1. F \in Nat  BY <1>2
    <3>2. /\ t.pending_ = p /\ t.bi_valid_ = F /\ t \in Writer /\ r \in Seq(Bit)
          /\ Len(r) = h + p + F /\ Multiple(p) /\ p \in Nat
      BY <1>1, <1>2, <1>4, <2>2, <2>6
    <3>3. /\ \A i \in 0..p - 1 : t.pending_buf_[i] = r[h + i + 1]
          /\ \A j \in 0..F - 1 : t.bi_buf_[j] = r[h + p + j + 1]
          /\ \A j \in F..buf_size - 1 : t.bi_buf_[j] = 0
      BY <1>2, <3>1, <2>3, <2>4, <2>5
    <3> HIDE DEF F
    <3> QED  BY <3>1, <3>2, <3>3, HoldsIs
  <2> QED  BY <2>2, <2>7, <1>2 DEF t, r, p
<1> QED  BY <1>5, <1>6

(* b bits of the word go to the buffer, g stay in the word; z of them are the  *)
(* clear bits above those that were sent.                                      *)
Moved(s, t, b, g, z) ==
    /\ t \in Writer /\ b \in Nat /\ g \in Nat /\ z \in Nat
    /\ b + g = s.bi_valid_ + z /\ b + g <= buf_size /\ Multiple(b)
    /\ t.pending_ = s.pending_ + b /\ t.bi_valid_ = g
    /\ \A i \in 0..s.pending_ - 1 : t.pending_buf_[i] = s.pending_buf_[i]
    /\ \A i \in s.pending_..s.pending_ + b - 1 :
          t.pending_buf_[i] = s.bi_buf_[i - s.pending_]
    /\ \A j \in 0..g - 1 : t.bi_buf_[j] = s.bi_buf_[j + b]
    /\ \A j \in g..buf_size - 1 : t.bi_buf_[j] = 0

\* Whole bytes that move from the word to the buffer are still held, with zeros to fill them up.
LEMMA MovedHolds ==
    ASSUME NEW s, NEW q, NEW h \in Nat, Holds(s, q, h),
           NEW t, NEW b, NEW g, NEW z, Moved(s, t, b, g, z)
    PROVE  Holds(t, q \o Zeros(z), h)
<1> DEFINE p == s.pending_
           f == s.bi_valid_
           r == q \o Zeros(z)
           P == p + b
<1>0. b \in Nat /\ g \in Nat /\ z \in Nat /\ Multiple(b)  BY DEF Moved
<1>1. /\ s \in Writer /\ q \in Seq(Bit) /\ Len(q) = h + p + f /\ Multiple(p)
      /\ \A i \in 0..p - 1 : s.pending_buf_[i] = q[h + i + 1]
      /\ \A j \in 0..f - 1 : s.bi_buf_[j] = q[h + p + j + 1]
      /\ \A j \in f..buf_size - 1 : s.bi_buf_[j] = 0
  <2>1. \A i \in 0..p - 1 : s.pending_buf_[0 + i] = q[h + i + 1]
    BY DEF Holds, HoldsAt
  <2> QED  BY <2>1, Numbers DEF Holds, HoldsAt
<1>2. /\ p \in Nat /\ f \in 0..buf_size /\ buf_size \in Nat /\ P \in Nat
      /\ b \in Nat /\ g \in Nat /\ z \in Nat /\ Multiple(b)
  BY <1>0, <1>1, Numbers
<1>3. /\ r \in Seq(Bit) /\ Len(r) = h + p + f + z
      /\ \A i \in 1..h + p + f : r[i] = q[i]
      /\ \A i \in 1..z : r[h + p + f + i] = 0
  <2> DEFINE v == Zeros(z)
  <2>1. v \in Seq(Bit) /\ Len(v) = z /\ \A i \in 1..z : v[i] = 0  BY <1>0, ZerosAre
  <2> HIDE DEF v, p, f
  <2>2. /\ q \o v \in Seq(Bit) /\ Len(q \o v) = Len(q) + Len(v)
        /\ \A i \in 1..Len(q) : (q \o v)[i] = q[i]
        /\ \A i \in 1..Len(v) : (q \o v)[Len(q) + i] = v[i]
    BY <1>1, <2>1, Appended
  <2> QED  BY <1>1, <1>2, <2>1, <2>2 DEF v
<1>4. /\ b + g = f + z /\ t.pending_ = P /\ t.bi_valid_ = g /\ t \in Writer
      /\ b + g <= buf_size
      /\ \A i \in 0..p - 1 : t.pending_buf_[i] = s.pending_buf_[i]
      /\ \A i \in p..p + b - 1 : t.pending_buf_[i] = s.bi_buf_[i - p]
      /\ \A j \in 0..g - 1 : t.bi_buf_[j] = s.bi_buf_[j + b]
      /\ \A j \in g..buf_size - 1 : t.bi_buf_[j] = 0
  BY DEF Moved
<1>5. Multiple(P)  BY <1>1, <1>2, MultipleFacts
<1>6. P = p + b  OBVIOUS
<1> HIDE DEF p, f, r, P
(* Bit j of the word, sent or clear, is the one that follows in the queue.     *)
<1>7. \A j \in 0..b + g - 1 : s.bi_buf_[j] = r[h + p + j + 1]
  <2> TAKE j \in 0..b + g - 1
  <2>1. CASE j < f
    <3>1. j \in 0..f - 1 /\ h + p + j + 1 \in 1..h + p + f  BY <2>1, <1>2
    <3> QED  BY <3>1, <1>1, <1>3
  <2>2. CASE j >= f
    <3> DEFINE k == j - f + 1
    <3>1. j \in f..buf_size - 1 /\ k \in 1..z /\ h + p + f + k = h + p + j + 1
      BY <2>2, <1>2, <1>4
    <3>2. r[h + p + f + k] = 0  BY <3>1, <1>3
    <3> QED  BY <3>1, <3>2, <1>1
  <2> QED  BY <2>1, <2>2, <1>2
<1>8. \A i \in 0..P - 1 : t.pending_buf_[i] = r[h + i + 1]
  <2> TAKE i \in 0..P - 1
  <2>1. CASE i < p
    <3>1. i \in 0..p - 1 /\ h + i + 1 \in 1..h + p + f  BY <2>1, <1>2
    <3> QED  BY <3>1, <1>1, <1>3, <1>4
  <2>2. CASE i >= p
    <3> DEFINE j == i - p
    <3>1. i \in p..p + b - 1 /\ j \in 0..b + g - 1 /\ h + p + j + 1 = h + i + 1
      BY <2>2, <1>2, <1>6
    <3>2. s.bi_buf_[j] = r[h + p + j + 1]  BY <3>1, <1>7
    <3> QED  BY <3>1, <3>2, <1>4
  <2> QED  BY <2>1, <2>2, <1>2
<1>9. \A j \in 0..g - 1 : t.bi_buf_[j] = r[h + P + j + 1]
  <2> TAKE j \in 0..g - 1
  <2> DEFINE k == j + b
  <2>1. k \in 0..b + g - 1 /\ h + p + k + 1 = h + P + j + 1  BY <1>2, <1>6
  <2>2. s.bi_buf_[k] = r[h + p + k + 1]  BY <2>1, <1>7
  <2> QED  BY <2>1, <2>2, <1>4
<1>10. Len(r) = h + P + g  BY <1>2, <1>3, <1>4, <1>6
<1>11. Holds(t, r, h)
  BY <1>2, <1>3, <1>4, <1>5, <1>8, <1>9, <1>10, HoldsIs, ZenonT(60)
<1> QED  BY <1>11 DEF r

\* No zeros are appended by Zeros(0).
LEMMA NothingAppended ==
    ASSUME NEW q \in Seq(Bit)  PROVE q \o Zeros(0) = q
<1>1. Zeros(0) = <<>>  BY DEF Zeros
<1> QED  BY <1>1

\* bi_flush keeps the bits that the writer holds, and leaves less than a byte in the word.
LEMMA FlushHolds ==
    ASSUME NEW s, NEW q, NEW h \in Nat, Holds(s, q, h),
           s.bi_valid_ >= byte => s.pending_ + buf_size <= Capacity
    PROVE  /\ Holds(bi_flush(s), q, h)
           /\ bi_flush(s).bi_valid_ < byte
           /\ s.bi_valid_ = buf_size => bi_flush(s).bi_valid_ = 0
           /\ bi_flush(s).pending_ <= s.pending_ + buf_size
           /\ s.bi_valid_ < byte => bi_flush(s) = s
<1> DEFINE t == bi_flush(s)
           p == s.pending_
<1>1. /\ s \in Writer /\ q \in Seq(Bit) /\ Multiple(p)
      /\ \A j \in s.bi_valid_..buf_size - 1 : s.bi_buf_[j] = 0
  BY DEF Holds, HoldsAt
<1>2. /\ p \in Nat /\ s.bi_valid_ \in 0..buf_size /\ buf_size \in Nat
      /\ s.bi_buf_ \in Word /\ buf_size = byte + byte /\ byte \in Nat /\ byte > 0
      /\ ZeroWord \in Word /\ \A j \in 0..buf_size - 1 : ZeroWord[j] = 0
  BY <1>1, Numbers, ByteAssumption
<1>3. q \o Zeros(0) = q  BY <1>1, NothingAppended
<1>4. CASE s.bi_valid_ = buf_size
  <2> DEFINE u == put_short(s, s.bi_buf_)
  <2>1. p + buf_size <= Capacity  BY <1>2, <1>4
  <2>2. /\ u \in Writer /\ u.pending_ = p + buf_size
        /\ \A i \in 0..p - 1 : u.pending_buf_[i] = s.pending_buf_[i]
        /\ \A i \in p..p + buf_size - 1 : u.pending_buf_[i] = s.bi_buf_[i - p]
    BY <1>1, <1>2, <2>1, PutShortFacts
  <2>3. t = [u EXCEPT !.bi_buf_ = ZeroWord, !.bi_valid_ = 0]
    BY <1>4 DEF bi_flush
  <2> HIDE DEF u, t
  <2>4. /\ t \in Writer /\ t.pending_ = p + buf_size /\ t.bi_valid_ = 0
        /\ t.bi_buf_ = ZeroWord /\ t.pending_buf_ = u.pending_buf_
    <3>1. 0 \in 0..buf_size  BY <1>2
    <3> QED  BY <2>2, <2>3, <3>1, <1>2 DEF Writer
  <2>5. /\ \A i \in 0..p - 1 : t.pending_buf_[i] = s.pending_buf_[i]
        /\ \A i \in p..p + buf_size - 1 : t.pending_buf_[i] = s.bi_buf_[i - p]
        /\ \A j \in 0..0 - 1 : t.bi_buf_[j] = s.bi_buf_[j + buf_size]
        /\ \A j \in 0..buf_size - 1 : t.bi_buf_[j] = 0
    BY <1>2, <2>2, <2>4
  <2>6. /\ buf_size + 0 = s.bi_valid_ + 0 /\ buf_size + 0 <= buf_size /\ Multiple(buf_size)
    BY <1>2, <1>4, MultipleFacts
  <2>7. Moved(s, t, buf_size, 0, 0)
    <3>1. /\ t \in Writer /\ buf_size \in Nat /\ 0 \in Nat
          /\ buf_size + 0 = s.bi_valid_ + 0 /\ buf_size + 0 <= buf_size /\ Multiple(buf_size)
          /\ t.pending_ = s.pending_ + buf_size /\ t.bi_valid_ = 0
      BY <1>2, <2>4, <2>6
    <3>2. /\ \A i \in 0..s.pending_ - 1 : t.pending_buf_[i] = s.pending_buf_[i]
          /\ \A i \in s.pending_..s.pending_ + buf_size - 1 :
                t.pending_buf_[i] = s.bi_buf_[i - s.pending_]
      BY <2>5
    <3> QED  BY <3>1, <3>2, <2>5, Zenon DEF Moved
  <2>8. Holds(t, q \o Zeros(0), h)  BY <2>7, MovedHolds
  <2>9. Holds(t, q, h)  BY <1>3, <2>8
  <2>10. t.bi_valid_ < byte /\ t.pending_ <= s.pending_ + buf_size /\ ~(s.bi_valid_ < byte)
    BY <1>2, <1>4, <2>4
  <2> QED  BY <2>4, <2>9, <2>10 DEF t
<1>5. CASE s.bi_valid_ # buf_size /\ s.bi_valid_ >= byte
  <2> DEFINE v == LowByte(s.bi_buf_)
             u == Put(s, v)
             c == [i \in 0..buf_size - 1 |->
                      IF i + byte < buf_size THEN s.bi_buf_[i + byte] ELSE 0]
             g == s.bi_valid_ - byte
  <2>1. p + byte <= Capacity  BY <1>2, <1>5, CapacityAssumption
  <2>2. v \in Seq(Bit) /\ Len(v) = byte /\ \A i \in 1..byte : v[i] = s.bi_buf_[i - 1]
    BY <1>2, WordParts
  <2>3. t = [u EXCEPT !.bi_buf_ = c, !.bi_valid_ = g]
    BY <1>5 DEF bi_flush
  <2>4. c \in Word /\ \A j \in 0..byte - 1 : c[j] = s.bi_buf_[j + byte]
    <3>1. \A j \in 0..buf_size - 1 : c[j] \in Bit
      BY <1>2 DEF Word, Bit
    <3> QED  BY <3>1, <1>2 DEF Word
  <2>4a. \A j \in byte..buf_size - 1 : c[j] = 0  BY <1>2
  <2> HIDE DEF v, c, t
  <2>5. /\ u \in Writer /\ u.pending_ = p + byte
        /\ \A i \in 0..p - 1 : u.pending_buf_[i] = s.pending_buf_[i]
        /\ \A i \in p..p + byte - 1 : u.pending_buf_[i] = v[i - p + 1]
    <3>1. s.pending_ + Len(v) <= Capacity  BY <2>1, <2>2
    <3> QED  BY <1>1, <2>2, <3>1, PutFacts
  <2> HIDE DEF u
  <2>6. \A i \in p..p + byte - 1 : u.pending_buf_[i] = s.bi_buf_[i - p]
    <3> TAKE i \in p..p + byte - 1
    <3> DEFINE k == i - p + 1
    <3>1. k \in 1..byte /\ k - 1 = i - p  BY <1>2
    <3>2. u.pending_buf_[i] = v[k]  BY <2>5
    <3> HIDE DEF k
    <3>3. v[k] = s.bi_buf_[k - 1]  BY <3>1, <2>2
    <3> QED  BY <3>1, <3>2, <3>3
  <2>7. g \in Nat /\ g < byte  BY <1>2, <1>5
  <2>8. /\ t \in Writer /\ t.pending_ = p + byte /\ t.bi_valid_ = g
        /\ t.bi_buf_ = c /\ t.pending_buf_ = u.pending_buf_
    <3>1. g \in 0..buf_size  BY <1>2, <2>7
    <3> HIDE DEF g
    <3> QED  BY <2>3, <2>4, <2>5, <3>1 DEF Writer
  <2>9. /\ \A i \in 0..p - 1 : t.pending_buf_[i] = s.pending_buf_[i]
        /\ \A i \in p..p + byte - 1 : t.pending_buf_[i] = s.bi_buf_[i - p]
    BY <1>2, <2>5, <2>6, <2>8
  <2>10. \A j \in 0..g - 1 : t.bi_buf_[j] = s.bi_buf_[j + byte]
    BY <1>2, <2>4, <2>7, <2>8
  <2>11. \A j \in g..buf_size - 1 : t.bi_buf_[j] = 0
    <3> TAKE j \in g..buf_size - 1
    <3>1. CASE j >= byte  BY <3>1, <2>4a, <2>8, <1>2, <2>7
    <3>2. CASE j < byte
      <4>1. j \in 0..byte - 1 /\ j + byte \in s.bi_valid_..buf_size - 1
        BY <3>2, <1>2, <2>7
      <4> QED  BY <4>1, <1>1, <2>4, <2>8
    <3> QED  BY <3>1, <3>2, <1>2, <2>7
  <2>12. byte + g = s.bi_valid_ + 0 /\ byte + g <= buf_size /\ Multiple(byte)
    BY <1>2, MultipleFacts
  <2> HIDE DEF g
  <2>13. Moved(s, t, byte, g, 0)
    <3>1. /\ t \in Writer /\ byte \in Nat /\ g \in Nat /\ 0 \in Nat
          /\ byte + g = s.bi_valid_ + 0 /\ byte + g <= buf_size /\ Multiple(byte)
          /\ t.pending_ = s.pending_ + byte /\ t.bi_valid_ = g
      BY <1>2, <2>7, <2>8, <2>12
    <3> QED  BY <3>1, <2>9, <2>10, <2>11, Zenon DEF Moved
  <2>14. Holds(t, q \o Zeros(0), h)  BY <2>13, MovedHolds
  <2>15. Holds(t, q, h)  BY <1>3, <2>14
  <2>16. t.bi_valid_ < byte /\ t.pending_ <= s.pending_ + buf_size /\ ~(s.bi_valid_ < byte)
    BY <1>2, <1>5, <2>7, <2>8
  <2> QED  BY <1>5, <2>15, <2>16 DEF t
<1>6. CASE s.bi_valid_ < byte
  <2>1. bi_flush(s) = s  BY <1>2, <1>6 DEF bi_flush
  <2> QED  BY <2>1, <1>2, <1>6
<1> QED  BY <1>2, <1>4, <1>5, <1>6

(* u is s after b bits of its word, all that were sent and z clear ones, have  *)
(* been put.                                                                   *)
PutWhole(s, u, b, z) ==
    /\ u \in Writer /\ b \in Nat /\ b <= buf_size /\ z \in 0..byte - 1
    /\ b = s.bi_valid_ + z /\ Multiple(b) /\ u.pending_ = s.pending_ + b
    /\ \A i \in 0..s.pending_ - 1 : u.pending_buf_[i] = s.pending_buf_[i]
    /\ \A i \in s.pending_..s.pending_ + b - 1 :
          u.pending_buf_[i] = s.bi_buf_[i - s.pending_]

\* A word that was put whole and is cleared leaves the bits aligned.
LEMMA ClearedHolds ==
    ASSUME NEW s, NEW q, NEW h \in Nat, Holds(s, q, h), Multiple(h),
           NEW u, NEW b, NEW z, PutWhole(s, u, b, z),
           NEW t, t = [u EXCEPT !.bi_buf_ = ZeroWord, !.bi_valid_ = 0]
    PROVE  /\ Holds(t, Aligned(q), h)
           /\ t.bi_valid_ = 0
           /\ t.pending_ <= s.pending_ + buf_size
<1>1. /\ s \in Writer /\ q \in Seq(Bit) /\ Multiple(s.pending_)
      /\ Len(q) = h + s.pending_ + s.bi_valid_
  BY DEF Holds, HoldsAt
<1>2. /\ s.pending_ \in Nat /\ s.bi_valid_ \in Nat /\ buf_size \in Nat
      /\ ZeroWord \in Word /\ \A j \in 0..buf_size - 1 : ZeroWord[j] = 0
      /\ b \in Nat /\ z \in Nat /\ b <= buf_size /\ b = s.bi_valid_ + z /\ Multiple(b)
  BY <1>1, Numbers, ByteAssumption DEF PutWhole
<1>3. /\ t \in Writer /\ t.pending_ = s.pending_ + b /\ t.bi_valid_ = 0
      /\ t.bi_buf_ = ZeroWord /\ t.pending_buf_ = u.pending_buf_
  <2>1. 0 \in 0..buf_size /\ u \in Writer /\ u.pending_ = s.pending_ + b
    BY <1>2 DEF PutWhole
  <2> QED  BY <1>2, <2>1 DEF Writer
<1>4. Moved(s, t, b, 0, z)
  <2>1. /\ b \in Nat /\ 0 \in Nat /\ z \in Nat /\ b + 0 = s.bi_valid_ + z
        /\ b + 0 <= buf_size /\ t.pending_ = s.pending_ + b /\ Multiple(b)
    BY <1>2, <1>3
  <2>2. \A j \in 0..0 - 1 : t.bi_buf_[j] = s.bi_buf_[j + b]  OBVIOUS
  <2>3. \A j \in 0..buf_size - 1 : t.bi_buf_[j] = 0  BY <1>2, <1>3
  <2>4. /\ \A i \in 0..s.pending_ - 1 : t.pending_buf_[i] = s.pending_buf_[i]
        /\ \A i \in s.pending_..s.pending_ + b - 1 :
              t.pending_buf_[i] = s.bi_buf_[i - s.pending_]
    BY <1>3 DEF PutWhole
  <2> QED  BY <1>3, <2>1, <2>2, <2>3, <2>4, Zenon DEF Moved
<1>5. Holds(t, q \o Zeros(z), h)  BY <1>4, MovedHolds
<1>6. Pad(Len(q)) = z
  <2>1. \A n, m \in Nat : Multiple(n) /\ Multiple(m) => Multiple(n + m)
    BY MultipleFacts
  <2>2. Multiple(s.pending_ + b)  BY <1>1, <1>2, <2>1
  <2>3. s.pending_ + b \in Nat  BY <1>2
  <2>4. Multiple(h + (s.pending_ + b))  BY <2>1, <2>2, <2>3
  <2>5. Len(q) + z = h + (s.pending_ + b) /\ Len(q) \in Nat  BY <1>1, <1>2
  <2>6. z \in 0..byte - 1  BY DEF PutWhole
  <2>7. Multiple(Len(q) + z)  BY <2>4, <2>5
  <2> QED  BY <2>5, <2>6, <2>7, PadIs
<1>7. Aligned(q) = q \o Zeros(z)  BY <1>6 DEF Aligned
<1>8. Holds(t, Aligned(q), h)  BY <1>5, <1>7
<1> QED  BY <1>2, <1>3, <1>8

\* bi_windup appends zeros up to the next byte.
LEMMA WindupHolds ==
    ASSUME NEW s, NEW q, NEW h \in Nat, Holds(s, q, h), Multiple(h),
           s.pending_ + buf_size <= Capacity
    PROVE  /\ Holds(bi_windup(s), Aligned(q), h)
           /\ bi_windup(s).bi_valid_ = 0
           /\ bi_windup(s).pending_ <= s.pending_ + buf_size
<1> DEFINE t == bi_windup(s)
           p == s.pending_
           f == s.bi_valid_
<1>1. /\ s \in Writer /\ q \in Seq(Bit) /\ Multiple(p) /\ Len(q) = h + p + f
  BY DEF Holds, HoldsAt
<1>2. /\ p \in Nat /\ f \in 0..buf_size /\ buf_size \in Nat
      /\ s.bi_buf_ \in Word /\ buf_size = byte + byte /\ byte \in Nat /\ byte > 0
      /\ ZeroWord \in Word /\ \A j \in 0..buf_size - 1 : ZeroWord[j] = 0
  BY <1>1, Numbers, ByteAssumption
<1>4. CASE f > byte
  <2> DEFINE u == put_short(s, s.bi_buf_)
             z == buf_size - f
  <2>1. /\ u \in Writer /\ u.pending_ = p + buf_size
        /\ \A i \in 0..p - 1 : u.pending_buf_[i] = s.pending_buf_[i]
        /\ \A i \in p..p + buf_size - 1 : u.pending_buf_[i] = s.bi_buf_[i - p]
    BY <1>1, <1>2, PutShortFacts
  <2>2. t = [u EXCEPT !.bi_buf_ = ZeroWord, !.bi_valid_ = 0]
    BY <1>2, <1>4 DEF bi_windup
  <2>3. z \in 0..byte - 1 /\ buf_size = f + z /\ buf_size \in 0..buf_size
    BY <1>2, <1>4
  <2>4. Multiple(buf_size)  BY MultipleFacts
  <2> HIDE DEF u, z, t
  <2>5. PutWhole(s, u, buf_size, z)
    <3>1. /\ u \in Writer /\ buf_size \in Nat /\ buf_size <= buf_size
          /\ z \in 0..byte - 1 /\ buf_size = s.bi_valid_ + z /\ Multiple(buf_size)
          /\ u.pending_ = s.pending_ + buf_size
      BY <1>2, <2>1, <2>3, <2>4
    <3>2. /\ \A i \in 0..s.pending_ - 1 : u.pending_buf_[i] = s.pending_buf_[i]
          /\ \A i \in s.pending_..s.pending_ + buf_size - 1 :
                u.pending_buf_[i] = s.bi_buf_[i - s.pending_]
      BY <2>1
    <3> QED  BY <3>1, <3>2, Zenon DEF PutWhole
  <2> QED  BY <2>2, <2>5, ClearedHolds, Zenon DEF t
<1>5. CASE f > 0 /\ f <= byte
  <2> DEFINE v == LowByte(s.bi_buf_)
             u == Put(s, v)
             z == byte - f
  <2>1. v \in Seq(Bit) /\ Len(v) = byte /\ \A i \in 1..byte : v[i] = s.bi_buf_[i - 1]
    BY <1>2, WordParts
  <2>2. t = [u EXCEPT !.bi_buf_ = ZeroWord, !.bi_valid_ = 0]
    <3>1. ~(s.bi_valid_ > byte) /\ s.bi_valid_ > 0  BY <1>2, <1>5
    <3> QED  BY <3>1, Zenon DEF bi_windup
  <2> HIDE DEF v
  <2>3. /\ u \in Writer /\ u.pending_ = p + byte
        /\ \A i \in 0..p - 1 : u.pending_buf_[i] = s.pending_buf_[i]
        /\ \A i \in p..p + byte - 1 : u.pending_buf_[i] = v[i - p + 1]
    <3>1. s.pending_ + Len(v) <= Capacity  BY <1>2, <2>1, CapacityAssumption
    <3> QED  BY <1>1, <2>1, <3>1, PutFacts
  <2> HIDE DEF u
  <2>4. \A i \in p..p + byte - 1 : u.pending_buf_[i] = s.bi_buf_[i - p]
    <3> TAKE i \in p..p + byte - 1
    <3> DEFINE k == i - p + 1
    <3>1. k \in 1..byte /\ k - 1 = i - p  BY <1>2
    <3>2. u.pending_buf_[i] = v[k]  BY <2>3
    <3> HIDE DEF k
    <3>3. v[k] = s.bi_buf_[k - 1]  BY <3>1, <2>1
    <3> QED  BY <3>1, <3>2, <3>3
  <2>5. z \in 0..byte - 1 /\ byte = f + z /\ byte \in 0..buf_size
    BY <1>2, <1>5
  <2>6. Multiple(byte)  BY MultipleFacts
  <2> HIDE DEF z, t
  <2>7. PutWhole(s, u, byte, z)
    <3>1. /\ u \in Writer /\ byte \in Nat /\ byte <= buf_size
          /\ z \in 0..byte - 1 /\ byte = s.bi_valid_ + z /\ Multiple(byte)
          /\ u.pending_ = s.pending_ + byte
      BY <1>2, <2>3, <2>5, <2>6
    <3>2. /\ \A i \in 0..s.pending_ - 1 : u.pending_buf_[i] = s.pending_buf_[i]
          /\ \A i \in s.pending_..s.pending_ + byte - 1 :
                u.pending_buf_[i] = s.bi_buf_[i - s.pending_]
      BY <2>3, <2>4
    <3> QED  BY <3>1, <3>2, Zenon DEF PutWhole
  <2> QED  BY <2>2, <2>7, ClearedHolds, Zenon DEF t
<1>6. CASE f = 0
  <2>1. t = [s EXCEPT !.bi_buf_ = ZeroWord, !.bi_valid_ = 0]
    <3>1. ~(s.bi_valid_ > byte) /\ ~(s.bi_valid_ > 0)  BY <1>2, <1>6
    <3> QED  BY <3>1, Zenon DEF bi_windup
  <2>2. 0 \in 0..byte - 1 /\ 0 = f + 0 /\ 0 <= buf_size /\ Multiple(0) /\ p = p + 0
    <3>1. 0 \in 0..byte - 1 /\ 0 = f + 0 /\ 0 <= buf_size /\ p = p + 0
      BY <1>2, <1>6
    <3> QED  BY <3>1, MultipleFacts
  <2>4. PutWhole(s, s, 0, 0)
    <3>1. /\ s \in Writer /\ 0 \in Nat /\ 0 <= buf_size /\ 0 \in 0..byte - 1
          /\ 0 = s.bi_valid_ + 0 /\ Multiple(0) /\ s.pending_ = s.pending_ + 0
      BY <1>1, <1>2, <2>2
    <3>2. \A i \in 0..s.pending_ - 1 : s.pending_buf_[i] = s.pending_buf_[i]
      OBVIOUS
    <3>3. \A i \in s.pending_..s.pending_ + 0 - 1 :
             s.pending_buf_[i] = s.bi_buf_[i - s.pending_]
      <4> HIDE DEF p
      <4>1. p + 0 - 1 < p  BY <1>2
      <4>2. p..p + 0 - 1 = {}  BY <4>1, <1>2
      <4> QED  BY <4>2, Zenon DEF p
    <3> QED  BY <3>1, <3>2, <3>3, Zenon DEF PutWhole
  <2> QED  BY <2>1, <2>4, ClearedHolds, Zenon DEF t
<1> QED  BY <1>2, <1>4, <1>5, <1>6

(* With nothing in the word, bytes that are put follow what was sent.          *)
LEMMA PutsHolds ==
    ASSUME NEW s, NEW q, NEW h \in Nat, Holds(s, q, h), s.bi_valid_ = 0,
           NEW v \in Seq(Bit), Multiple(Len(v)), s.pending_ + Len(v) <= Capacity
    PROVE  /\ Holds(Put(s, v), q \o v, h)
           /\ Put(s, v).bi_valid_ = 0
           /\ Put(s, v).pending_ = s.pending_ + Len(v)
<1> DEFINE p == s.pending_
           n == Len(v)
           P == p + n
           r == q \o v
           t == Put(s, v)
<1>1. /\ s \in Writer /\ q \in Seq(Bit) /\ Len(q) = h + p /\ Multiple(p)
      /\ \A i \in 0..p - 1 : s.pending_buf_[i] = q[h + i + 1]
      /\ \A j \in 0..buf_size - 1 : s.bi_buf_[j] = 0
  <2>1. \A i \in 0..p - 1 : s.pending_buf_[0 + i] = q[h + i + 1]
    BY DEF Holds, HoldsAt
  <2>2. s \in Writer /\ Len(q) = h + p + s.bi_valid_
    BY DEF Holds, HoldsAt
  <2>3. Len(q) = h + p  BY <2>2, Numbers
  <2>4. \A j \in 0..buf_size - 1 : s.bi_buf_[j] = 0
    BY DEF Holds, HoldsAt
  <2> QED  BY <2>1, <2>2, <2>3, <2>4, Numbers DEF Holds
<1>2. p \in Nat /\ n \in Nat /\ P \in Nat /\ buf_size \in Nat  BY <1>1, Numbers
<1>3. /\ t \in Writer /\ t.pending_ = P /\ t.bi_valid_ = 0 /\ t.bi_buf_ = s.bi_buf_
      /\ \A i \in 0..p - 1 : t.pending_buf_[i] = s.pending_buf_[i]
      /\ \A i \in p..p + n - 1 : t.pending_buf_[i] = v[i - p + 1]
  BY <1>1, PutFacts
<1>4. /\ r \in Seq(Bit) /\ Len(r) = Len(q) + n
      /\ \A i \in 1..Len(q) : r[i] = q[i]
      /\ \A i \in 1..n : r[Len(q) + i] = v[i]
  BY <1>1, Appended
<1>5. Multiple(P)  BY <1>1, <1>2, MultipleFacts
<1>6. P = p + n  OBVIOUS
<1> HIDE DEF p, n, P, r, t
<1>7. \A i \in 0..P - 1 : t.pending_buf_[i] = r[h + i + 1]
  <2> TAKE i \in 0..P - 1
  <2>1. CASE i < p
    <3>1. i \in 0..p - 1 /\ h + i + 1 \in 1..Len(q)  BY <2>1, <1>1, <1>2
    <3> QED  BY <3>1, <1>1, <1>3, <1>4
  <2>2. CASE i >= p
    <3> DEFINE k == i - p + 1
    <3>1. /\ i \in p..p + n - 1 /\ k \in 1..n /\ Len(q) + k = h + i + 1
      BY <2>2, <1>1, <1>2, <1>6
    <3>2. t.pending_buf_[i] = v[k] /\ r[Len(q) + k] = v[k]  BY <3>1, <1>3, <1>4
    <3> QED  BY <3>1, <3>2
  <2> QED  BY <2>1, <2>2, <1>2
<1>8. Len(r) = h + P + 0  BY <1>1, <1>2, <1>4, <1>6
<1>9. /\ \A j \in 0..0 - 1 : t.bi_buf_[j] = r[h + P + j + 1]
      /\ \A j \in 0..buf_size - 1 : t.bi_buf_[j] = 0
  BY <1>1, <1>3
<1>10. Holds(t, r, h)
  <2>1. 0 \in Nat  OBVIOUS
  <2> QED  BY <2>1, <1>2, <1>3, <1>4, <1>5, <1>7, <1>8, <1>9, HoldsIs, ZenonT(60)
<1> QED  BY <1>3, <1>10 DEF t, r, P, n, p

\* put_short appends a word to the bits that the writer holds.
LEMMA PutShortHolds ==
    ASSUME NEW s, NEW q, NEW h \in Nat, Holds(s, q, h), s.bi_valid_ = 0,
           NEW c \in Word, s.pending_ + buf_size <= Capacity
    PROVE  /\ Holds(put_short(s, c), q \o WordBits(c), h)
           /\ put_short(s, c).bi_valid_ = 0
           /\ put_short(s, c).pending_ = s.pending_ + buf_size
<1> DEFINE l == LowByte(c)
           g == HighByte(c)
           t == Put(s, l)
<1>1. /\ s \in Writer /\ q \in Seq(Bit)  BY DEF Holds
<1>2. /\ s.pending_ \in Nat /\ buf_size = byte + byte /\ byte \in Nat
      /\ Multiple(byte) /\ Capacity \in Nat
  BY <1>1, Numbers, ByteAssumption, CapacityAssumption, MultipleFacts
<1>3. /\ l \in Seq(Bit) /\ Len(l) = byte /\ g \in Seq(Bit) /\ Len(g) = byte
  BY WordParts
<1>4. (q \o l) \o g = q \o WordBits(c)
  BY <1>1, <1>3, Associative DEF WordBits
<1>5. put_short(s, c) = Put(t, g)  BY DEF put_short
<1> HIDE DEF l, g, t
<1>6. /\ Holds(t, q \o l, h) /\ t.bi_valid_ = 0 /\ t.pending_ = s.pending_ + byte
  <2>1. s.pending_ + Len(l) <= Capacity /\ Multiple(Len(l))  BY <1>2, <1>3
  <2> QED  BY <2>1, <1>3, PutsHolds DEF t
<1>7. /\ Holds(Put(t, g), (q \o l) \o g, h) /\ Put(t, g).bi_valid_ = 0
      /\ Put(t, g).pending_ = t.pending_ + byte
  <2>1. t.pending_ + Len(g) <= Capacity /\ Multiple(Len(g))  BY <1>2, <1>3, <1>6
  <2> QED  BY <2>1, <1>3, <1>6, PutsHolds
<1>8. t.pending_ + byte = s.pending_ + buf_size  BY <1>2, <1>6
<1> QED  BY <1>4, <1>5, <1>7, <1>8

StoredBits(q, b) ==
    ((Aligned(q) \o WordBits(b.len)) \o WordBits(Complement(b.len))) \o b.buf

\* copy_block appends a stored block, with its length and the complement.
LEMMA CopyHolds ==
    ASSUME NEW s, NEW q, NEW h \in Nat, Holds(s, q, h), Multiple(h),
           NEW b \in Blocks, s.pending_ + 3 * buf_size + Len(b.buf) <= Capacity
    PROVE  /\ Holds(copy_block(s, b), StoredBits(q, b), h)
           /\ copy_block(s, b).bi_valid_ = 0
<1> DEFINE t1 == bi_windup(s)
           t2 == put_short(t1, b.len)
           t3 == put_short(t2, Complement(b.len))
           q1 == Aligned(q)
           q2 == q1 \o WordBits(b.len)
           q3 == q2 \o WordBits(Complement(b.len))
<1>1. /\ b.buf \in Seq(Bit) /\ b.len \in Word /\ Multiple(Len(b.buf))
      /\ Complement(b.len) \in Word
  BY BlocksAssumption, WordParts
<1>2. /\ s.pending_ \in Nat /\ buf_size \in Nat /\ Len(b.buf) \in Nat /\ Capacity \in Nat
  BY <1>1, Numbers, CapacityAssumption DEF Holds
<1>3. copy_block(s, b) = Put(t3, b.buf)  BY DEF copy_block
<1>4. StoredBits(q, b) = q3 \o b.buf  BY DEF StoredBits
<1>5. t2 = put_short(t1, b.len) /\ t3 = put_short(t2, Complement(b.len))
  OBVIOUS
<1>6. q2 = q1 \o WordBits(b.len) /\ q3 = q2 \o WordBits(Complement(b.len))
  OBVIOUS
<1>7. Holds(t1, q1, h) /\ t1.bi_valid_ = 0 /\ t1.pending_ <= s.pending_ + buf_size
  <2>1. s.pending_ + buf_size <= Capacity  BY <1>2
  <2> QED  BY <2>1, WindupHolds
<1>8. t1.pending_ \in Nat  BY <1>7, Numbers DEF Holds
<1> HIDE DEF t1, t2, t3, q1, q2, q3
<1>9. Holds(t2, q2, h) /\ t2.bi_valid_ = 0 /\ t2.pending_ = t1.pending_ + buf_size
  <2>1. t1.pending_ + buf_size <= Capacity  BY <1>2, <1>7, <1>8
  <2> QED  BY <2>1, <1>1, <1>5, <1>6, <1>7, PutShortHolds
<1>10. Holds(t3, q3, h) /\ t3.bi_valid_ = 0 /\ t3.pending_ = t2.pending_ + buf_size
  <2>1. t2.pending_ + buf_size <= Capacity  BY <1>2, <1>7, <1>8, <1>9
  <2> QED  BY <2>1, <1>1, <1>5, <1>6, <1>9, PutShortHolds
<1>11. Holds(Put(t3, b.buf), q3 \o b.buf, h) /\ Put(t3, b.buf).bi_valid_ = 0
  <2>1. t3.pending_ + Len(b.buf) <= Capacity  BY <1>2, <1>7, <1>8, <1>9, <1>10, SMTT(30)
  <2> QED  BY <2>1, <1>1, <1>10, PutsHolds
<1> QED  BY <1>3, <1>4, <1>11

(* The bits of v that a round of doPrime takes.                                *)
Taken(s, v) ==
    IF buf_size - s.bi_valid_ > Len(v) THEN Len(v) ELSE buf_size - s.bi_valid_

\* A round of doPrime appends the bits that it takes.
LEMMA RoundHolds ==
    ASSUME NEW s, NEW q, NEW h \in Nat, Holds(s, q, h),
           NEW v \in Seq(Bit), s.pending_ + 2 * buf_size <= Capacity
    PROVE  /\ Holds(PrimeRound(s, v).s, q \o SubSeq(v, 1, Taken(s, v)), h)
           /\ PrimeRound(s, v).v = SubSeq(v, Taken(s, v) + 1, Len(v))
           /\ PrimeRound(s, v).s.bi_valid_ < byte
           /\ Taken(s, v) < Len(v) => PrimeRound(s, v).s.bi_valid_ = 0
           /\ PrimeRound(s, v).s.pending_ <= s.pending_ + buf_size
<1> DEFINE n == Taken(s, v)
           a == SubSeq(v, 1, n)
           u == [s EXCEPT !.bi_buf_ = OrShifted(s.bi_buf_, a, s.bi_valid_),
                          !.bi_valid_ = s.bi_valid_ + n]
<1>1. /\ s \in Writer /\ q \in Seq(Bit)  BY DEF Holds
<1>2. /\ s.pending_ \in Nat /\ buf_size \in Nat /\ Capacity \in Nat
      /\ s.bi_valid_ \in 0..buf_size /\ byte \in Nat /\ buf_size = byte + byte
  BY <1>1, Numbers, CapacityAssumption, ByteAssumption
<1>3. n \in 0..Len(v) /\ n <= buf_size - s.bi_valid_ /\ n <= buf_size
  BY <1>2 DEF Taken
<1>4. n < Len(v) => s.bi_valid_ + n = buf_size
  BY <1>2 DEF Taken
<1>5. PrimeRound(s, v) = [s |-> bi_flush(u), v |-> SubSeq(v, n + 1, Len(v))]
  BY DEF PrimeRound, Taken
<1> HIDE DEF n
<1>6. a \in Seq(Bit) /\ Len(a) = n
  BY <1>3
<1> HIDE DEF a
<1>7. u = send_bits(s, a)
  <2>1. ~(s.bi_valid_ > buf_size - Len(a))  BY <1>2, <1>3, <1>6
  <2> QED  BY <2>1, <1>6 DEF send_bits
<1>8. u.bi_valid_ = s.bi_valid_ + n /\ u.pending_ = s.pending_
  BY <1>1 DEF Writer
<1> HIDE DEF u
<1>9. Holds(u, q \o a, h)
  <2>1. Len(a) <= buf_size /\ s.pending_ + buf_size <= Capacity
    BY <1>2, <1>3, <1>6
  <2> QED  BY <2>1, <1>6, <1>7, SendHolds
<1>10. u.pending_ + buf_size <= Capacity  BY <1>2, <1>8
<1>11. /\ Holds(bi_flush(u), q \o a, h)
       /\ bi_flush(u).bi_valid_ < byte
       /\ u.bi_valid_ = buf_size => bi_flush(u).bi_valid_ = 0
       /\ bi_flush(u).pending_ <= u.pending_ + buf_size
  BY <1>9, <1>10, FlushHolds
<1>12. PrimeRound(s, v).s = bi_flush(u) /\ PrimeRound(s, v).v = SubSeq(v, n + 1, Len(v))
  <2> DEFINE x == bi_flush(u)
             y == SubSeq(v, n + 1, Len(v))
             round == PrimeRound(s, v)
  <2>1. round = [s |-> x, v |-> y]  BY <1>5
  <2> HIDE DEF x, y, round
  <2>2. round.s = x /\ round.v = y  BY <2>1
  <2> QED  BY <2>2 DEF x, y, round
<1>13. n < Len(v) => bi_flush(u).bi_valid_ = 0  BY <1>4, <1>8, <1>11
<1>14. bi_flush(u).pending_ <= s.pending_ + buf_size  BY <1>8, <1>11
<1> QED  BY <1>11, <1>12, <1>13, <1>14, Zenon DEF n, a

\* doPrime appends its value in two rounds.
LEMMA PrimeHolds ==
    ASSUME NEW s, NEW q, NEW h \in Nat, Holds(s, q, h),
           NEW v \in Seq(Bit), Len(v) <= buf_size, s.pending_ + 3 * buf_size <= Capacity
    PROVE  Holds(prime(s, v), q \o v, h) /\ prime(s, v).bi_valid_ < byte
<1> DEFINE n == Taken(s, v)
           one == PrimeRound(s, v)
           a == SubSeq(v, 1, n)
           b == SubSeq(v, n + 1, Len(v))
<1>1. s \in Writer /\ q \in Seq(Bit)  BY DEF Holds
<1>2. /\ s.pending_ \in Nat /\ buf_size \in Nat /\ Capacity \in Nat
      /\ s.bi_valid_ \in 0..buf_size
  BY <1>1, Numbers, CapacityAssumption
<1>3. n \in 0..Len(v)  BY <1>2 DEF Taken
<1>4. /\ Holds(one.s, q \o a, h) /\ one.v = b /\ one.s.bi_valid_ < byte
      /\ n < Len(v) => one.s.bi_valid_ = 0
      /\ one.s.pending_ <= s.pending_ + buf_size
  <2>1. s.pending_ + 2 * buf_size <= Capacity  BY <1>2
  <2> QED  BY <2>1, RoundHolds
<1>5. prime(s, v) = IF b = <<>> THEN one.s ELSE PrimeRound(one.s, b).s
  BY <1>4 DEF prime
<1> HIDE DEF n, one
<1>6. CASE n = Len(v)
  <2>1. a = v /\ b = <<>>  BY <1>6
  <2> QED  BY <2>1, <1>4, <1>5
<1>7. CASE n < Len(v)
  <2>1. b \in Seq(Bit) /\ Len(b) = Len(v) - n /\ a \in Seq(Bit)  BY <1>3, <1>7
  <2>2. b # <<>>
    <3>1. Len(b) > 0  BY <2>1, <1>3, <1>7
    <3> HIDE DEF b
    <3> QED  BY <3>1
  <2>3. a \o b = v
    <3>1. 1 \in 1..Len(v) + 1 /\ n \in 1 - 1..Len(v) /\ Len(v) \in n..Len(v)
      BY <1>3
    <3>2. a \o b = SubSeq(v, 1, Len(v))  BY <3>1, ConcatAdjacentSubSeq
    <3> QED  BY <3>2, SubSeqFull
  <2> HIDE DEF a, b
  <2>4. Taken(one.s, b) = Len(b)
    <3>1. one.s.bi_valid_ = 0  BY <1>4, <1>7
    <3> QED  BY <3>1, <2>1, <1>2, <1>3 DEF Taken
  <2>5. SubSeq(b, 1, Len(b)) = b  BY <2>1
  <2>6. one.s.pending_ + 2 * buf_size <= Capacity
    <3>1. one.s.pending_ \in Nat  BY <1>4, Numbers DEF Holds
    <3> QED  BY <3>1, <1>2, <1>4
  <2>7. /\ Holds(PrimeRound(one.s, b).s, (q \o a) \o b, h)
        /\ PrimeRound(one.s, b).s.bi_valid_ < byte
    <3>1. /\ Holds(PrimeRound(one.s, b).s, (q \o a) \o SubSeq(b, 1, Taken(one.s, b)), h)
          /\ PrimeRound(one.s, b).s.bi_valid_ < byte
      BY <2>1, <2>6, <1>4, RoundHolds
    <3> QED  BY <3>1, <2>4, <2>5
  <2>8. (q \o a) \o b = q \o v
    <3>1. (q \o a) \o b = q \o (a \o b)  BY <1>1, <2>1, Associative
    <3> QED  BY <2>3, <3>1, Zenon
  <2> QED  BY <2>2, <2>7, <2>8, <1>5
<1> QED  BY <1>3, <1>6, <1>7

-----------------------------------------------------------------------------
(* The actions.                                                                *)
Extends(q, r, n) ==
    /\ q \in Seq(Bit) /\ r \in Seq(Bit) /\ n <= Len(q) /\ n <= Len(r)
    /\ \A i \in 1..n : r[i] = q[i]

\* Appending bits keeps the first n.
LEMMA AppendedExtends ==
    ASSUME NEW q, NEW r, NEW n \in Nat, Extends(q, r, n), NEW v \in Seq(Bit)
    PROVE  Extends(q, r \o v, n)
<1>1. /\ q \in Seq(Bit) /\ r \in Seq(Bit) /\ n <= Len(q) /\ n <= Len(r)
      /\ \A i \in 1..n : r[i] = q[i]
  BY DEF Extends
<1>2. /\ r \o v \in Seq(Bit) /\ Len(r \o v) = Len(r) + Len(v)
      /\ \A i \in 1..Len(r) : (r \o v)[i] = r[i]
  BY <1>1, Appended
<1> DEFINE x == r \o v
<1> HIDE DEF x
<1>3. n <= Len(x)  BY <1>1, <1>2 DEF x
<1>4. \A i \in 1..n : x[i] = q[i]
  <2> TAKE i \in 1..n
  <2>1. i \in 1..Len(r)  BY <1>1
  <2> QED  BY <2>1, <1>1, <1>2 DEF x
<1> QED  BY <1>1, <1>2, <1>3, <1>4 DEF x, Extends

\* Before a write the writer holds what was sent and not handed over.
LEMMA ReadyHolds ==
    ASSUME IInv, pending_out_ = 0
    PROVE  /\ Holds(w, sent, Len(next_out)) /\ Len(next_out) \in Nat
           /\ Multiple(Len(next_out)) /\ Extends(sent, sent, Len(next_out))
           /\ w.pending_ \in Nat /\ buf_size \in Nat /\ Capacity \in Nat
<1>1. w \in Writer /\ sent \in Seq(Bit) /\ next_out \in Seq(Bit)
  BY DEF IInv, TypeOK
<1>2. Holds(w, sent, Len(next_out))
  BY <1>1 DEF IInv, Holds
<1>3. /\ w.pending_ \in Nat /\ w.bi_valid_ \in Nat /\ buf_size \in Nat
      /\ Len(next_out) \in Nat /\ Capacity \in Nat
  BY <1>1, Numbers, CapacityAssumption
<1>4. Len(sent) = Len(next_out) + w.pending_ + w.bi_valid_
  BY DEF IInv, HoldsAt
<1>5. Len(next_out) <= Len(sent)  BY <1>3, <1>4
<1> QED  BY <1>1, <1>2, <1>3, <1>5 DEF IInv, Extends

\* A write after which the writer holds what was sent keeps the invariant.
LEMMA WriteKeeps ==
    ASSUME IInv, pending_out_ = 0, UNCHANGED <<pending_out_, next_out>>,
           Holds(w', sent', Len(next_out)), Extends(sent, sent', Len(next_out)),
           w'.bi_valid_ >= byte => w'.pending_ + buf_size <= Capacity
    PROVE  IInv'
<1>1. w' \in Writer /\ sent' \in Seq(Bit) /\ Multiple(w'.pending_)
      /\ HoldsAt(w', 0, sent', Len(next_out))
  BY DEF Holds
<1>2. /\ next_out' = next_out /\ pending_out_' = 0 /\ next_out \in Seq(Bit)
      /\ Multiple(Len(next_out)) /\ \A i \in 1..Len(next_out) : next_out[i] = sent[i]
  BY DEF IInv, TypeOK
<1>3. \A i \in 1..Len(next_out) : next_out[i] = sent'[i]
  BY <1>2 DEF Extends
<1>4. TypeOK'
  <2>1. w'.pending_ \in 0..Capacity  BY <1>1 DEF Writer
  <2>2. 0 \in 0..Capacity /\ 0 + w'.pending_ <= Capacity
    BY <2>1, CapacityAssumption
  <2> QED  BY <1>1, <1>2, <2>2 DEF TypeOK
<1>5. NothingToPutBehind'  BY <1>2 DEF NothingToPutBehind
<1>6. HoldsAt(w', pending_out_', sent', Len(next_out'))
  BY <1>1, <1>2
<1> QED  BY <1>1, <1>2, <1>3, <1>4, <1>5, <1>6 DEF IInv

\* SendBits keeps the invariant.
LEMMA SendBitsKeeps ==
    ASSUME IInv, NEW v \in Pieces, SendBits(v)  PROVE IInv'
<1>1. /\ pending_out_ = 0 /\ w.pending_ + buf_size + buf_size <= Capacity
      /\ w' = send_bits(w, v) /\ sent' = sent \o v
      /\ UNCHANGED <<pending_out_, next_out>>
  BY DEF SendBits, Ready
<1>2. v \in Seq(Bit) /\ Len(v) <= buf_size  BY PiecesAssumption
<1> DEFINE h == Len(next_out)
<1>3. /\ Holds(w, sent, h) /\ h \in Nat /\ Extends(sent, sent, h)
      /\ w.pending_ \in Nat /\ buf_size \in Nat /\ Capacity \in Nat
  BY <1>1, ReadyHolds
<1> HIDE DEF h
<1>4. /\ Holds(w', sent', h) /\ w'.pending_ <= w.pending_ + buf_size
  <2>1. w.pending_ + buf_size <= Capacity  BY <1>1, <1>3
  <2> QED  BY <2>1, <1>1, <1>2, <1>3, SendHolds
<1>5. Extends(sent, sent', h)  BY <1>1, <1>2, <1>3, AppendedExtends
<1>6. w'.pending_ + buf_size <= Capacity
  <2>1. w'.pending_ \in Nat  BY <1>4, Numbers DEF Holds
  <2> QED  BY <2>1, <1>1, <1>3, <1>4
<1> QED  BY <1>1, <1>4, <1>5, <1>6, WriteKeeps DEF h

\* TrAlign keeps the invariant.
LEMMA TrAlignKeeps ==
    ASSUME IInv, TrAlign  PROVE IInv'
<1> DEFINE h == Len(next_out)
           s1 == send_bits(w, StaticHeader)
           s2 == send_bits(s1, EndBlock)
           q1 == sent \o StaticHeader
           q2 == q1 \o EndBlock
<1>1. /\ pending_out_ = 0 /\ w.pending_ + 3 * buf_size + buf_size <= Capacity
      /\ w' = bi_flush(s2) /\ sent' = q2
      /\ UNCHANGED <<pending_out_, next_out>>
  BY DEF TrAlign, Ready
<1>2. /\ StaticHeader \in Seq(Bit) /\ Len(StaticHeader) <= buf_size
      /\ EndBlock \in Seq(Bit) /\ Len(EndBlock) <= buf_size
  <2>1. /\ StaticHeader \in Seq(Bit) /\ Len(StaticHeader) = 3
    BY DEF StaticHeader, Bit
  <2>2. EndBlock \in Seq(Bit) /\ Len(EndBlock) = 7
    BY ZerosAre DEF EndBlock
  <2> QED  BY <2>1, <2>2, ByteAssumption DEF buf_size
<1>3. /\ Holds(w, sent, h) /\ h \in Nat /\ Extends(sent, sent, h)
      /\ w.pending_ \in Nat /\ buf_size \in Nat /\ Capacity \in Nat
  BY <1>1, ReadyHolds
<1>4. q1 = sent \o StaticHeader /\ q2 = q1 \o EndBlock  OBVIOUS
<1> HIDE DEF h, q1, q2
<1>5. Holds(s1, q1, h) /\ s1.pending_ <= w.pending_ + buf_size
  <2>1. w.pending_ + buf_size <= Capacity  BY <1>1, <1>3
  <2> QED  BY <2>1, <1>2, <1>3, <1>4, SendHolds
<1>6. s1.pending_ \in Nat  BY <1>5, Numbers DEF Holds
<1> HIDE DEF s1
<1>7. Holds(s2, q2, h) /\ s2.pending_ <= s1.pending_ + buf_size
  <2>1. s1.pending_ + buf_size <= Capacity  BY <1>1, <1>3, <1>5, <1>6
  <2> QED  BY <2>1, <1>2, <1>3, <1>4, <1>5, SendHolds
<1>8. s2.pending_ \in Nat  BY <1>7, Numbers DEF Holds
<1> HIDE DEF s2
<1>9. Holds(bi_flush(s2), q2, h) /\ bi_flush(s2).bi_valid_ < byte
  <2>1. s2.pending_ + buf_size <= Capacity
    BY <1>1, <1>3, <1>5, <1>6, <1>7, <1>8
  <2> QED  BY <2>1, <1>3, <1>7, FlushHolds
<1>10. Extends(sent, q2, h)  BY <1>2, <1>3, <1>4, AppendedExtends
<1>11. ~(w'.bi_valid_ >= byte)
  <2>1. bi_flush(s2).bi_valid_ \in Nat  BY <1>9, Numbers DEF Holds
  <2> QED  BY <2>1, <1>1, <1>9, ByteAssumption
<1> QED  BY <1>1, <1>9, <1>10, <1>11, WriteKeeps DEF h

\* Aligning bits keeps the first n.
LEMMA AlignedExtends ==
    ASSUME NEW s, NEW r, NEW h \in Nat, Holds(s, r, h), Multiple(h),
           NEW q, NEW n \in Nat, Extends(q, r, n)
    PROVE  Extends(q, Aligned(r), n)
<1> DEFINE p == s.pending_
           f == s.bi_valid_
           z == IF f = 0 THEN 0 ELSE IF f > byte THEN buf_size - f ELSE byte - f
<1>1. /\ s \in Writer /\ r \in Seq(Bit) /\ Multiple(p) /\ Len(r) = h + p + f
  BY DEF Holds, HoldsAt
<1>2. /\ p \in Nat /\ f \in 0..buf_size /\ byte \in Nat /\ byte > 0
      /\ buf_size \in Nat /\ buf_size = byte + byte
  BY <1>1, Numbers, ByteAssumption
<1>3. z \in 0..byte - 1 /\ (f + z = 0 \/ f + z = byte \/ f + z = buf_size)
  BY <1>2
<1> HIDE DEF p, f, z
<1>4. Multiple(Len(r) + z)
  <2>1. \A a, b \in Nat : Multiple(a) /\ Multiple(b) => Multiple(a + b)
    BY MultipleFacts
  <2>2. Multiple(f + z) /\ f + z \in Nat
    <3>1. Multiple(0) /\ Multiple(byte) /\ Multiple(buf_size)  BY MultipleFacts
    <3>2. f + z \in Nat  BY <1>2, <1>3
    <3> QED  BY <3>1, <3>2, <1>3
  <2>3. Multiple(h + p) /\ h + p \in Nat  BY <1>1, <1>2, <2>1
  <2>4. Multiple((h + p) + (f + z))  BY <2>1, <2>2, <2>3
  <2>5. Len(r) + z = (h + p) + (f + z)  BY <1>1, <1>2, <1>3
  <2> QED  BY <2>4, <2>5
<1>5. Len(r) \in Nat  BY <1>1
<1>6. Pad(Len(r)) = z  BY <1>3, <1>4, <1>5, PadIs
<1>7. Zeros(z) \in Seq(Bit)
  <2>1. z \in Nat  BY <1>2, <1>3
  <2> QED  BY <2>1, ZerosAre
<1>8. Extends(q, r \o Zeros(z), n)  BY <1>7, AppendedExtends
<1> QED  BY <1>6, <1>8 DEF Aligned

\* TrStoredBlock keeps the invariant.
LEMMA TrStoredBlockKeeps ==
    ASSUME IInv, NEW b \in Blocks, NEW last \in Bit, TrStoredBlock(b, last)
    PROVE  IInv'
<1> DEFINE h == Len(next_out)
           header == <<last, 0, 0>>
           s1 == send_bits(w, header)
           q1 == sent \o header
           a == Aligned(q1)
           l == WordBits(b.len)
           c == WordBits(Complement(b.len))
<1>1. /\ pending_out_ = 0
      /\ w.pending_ + (4 * buf_size + Len(b.buf)) + buf_size <= Capacity
      /\ w' = copy_block(s1, b) /\ sent' = StoredBits(q1, b)
      /\ UNCHANGED <<pending_out_, next_out>>
  BY DEF TrStoredBlock, Ready, StoredBits
<1>2. header \in Seq(Bit) /\ Len(header) = 3 /\ 3 <= buf_size
  <2>1. header \in Seq(Bit) /\ Len(header) = 3  BY DEF Bit
  <2> QED  BY <2>1, ByteAssumption DEF buf_size
<1>3. /\ Holds(w, sent, h) /\ h \in Nat /\ Extends(sent, sent, h) /\ Multiple(h)
      /\ w.pending_ \in Nat /\ buf_size \in Nat /\ Capacity \in Nat
  BY <1>1, ReadyHolds
<1>4. /\ b.buf \in Seq(Bit) /\ Len(b.buf) \in Nat /\ l \in Seq(Bit) /\ c \in Seq(Bit)
  <2>1. b.buf \in Seq(Bit) /\ b.len \in Word  BY BlocksAssumption
  <2>2. \A v \in Word : LowByte(v) \o HighByte(v) \in Seq(Bit)
    <3> TAKE v \in Word
    <3>1. LowByte(v) \in Seq(Bit) /\ HighByte(v) \in Seq(Bit)  BY WordParts
    <3> QED  BY <3>1
  <2>3. Complement(b.len) \in Word  BY <2>1, WordParts
  <2> QED  BY <2>1, <2>2, <2>3 DEF WordBits
<1>5. StoredBits(q1, b) = ((a \o l) \o c) \o b.buf  BY DEF StoredBits
<1>6. q1 = sent \o header  OBVIOUS
<1> HIDE DEF h, q1, header, l, c
<1>7. Holds(s1, q1, h) /\ s1.pending_ <= w.pending_ + buf_size
  <2>1. w.pending_ + buf_size <= Capacity /\ Len(header) <= buf_size
    <3> DEFINE n == Len(b.buf)
    <3>1. n \in Nat /\ w.pending_ + (4 * buf_size + n) + buf_size <= Capacity
      BY <1>1, <1>4
    <3> HIDE DEF n
    <3> QED  BY <3>1, <1>2, <1>3
  <2> QED  BY <2>1, <1>2, <1>3, <1>6, SendHolds
<1>8. s1.pending_ \in Nat  BY <1>7, Numbers DEF Holds
<1> HIDE DEF s1
<1>9. Holds(w', sent', h) /\ w'.bi_valid_ = 0
  <2>1. s1.pending_ + 3 * buf_size + Len(b.buf) <= Capacity
    <3> DEFINE n == Len(b.buf)
    <3>1. n \in Nat /\ w.pending_ + (4 * buf_size + n) + buf_size <= Capacity
      BY <1>1, <1>4
    <3>2. s1.pending_ + 3 * buf_size + n <= Capacity
      <4> HIDE DEF n
      <4> QED  BY <3>1, <1>3, <1>7, <1>8
    <3> QED  BY <3>2
  <2> QED  BY <2>1, <1>1, <1>3, <1>7, CopyHolds
<1>10. Extends(sent, sent', h)
  <2>1. Extends(sent, q1, h)  BY <1>2, <1>3, <1>6, AppendedExtends
  <2>2. Extends(sent, a, h)  BY <2>1, <1>3, <1>7, AlignedExtends
  <2> HIDE DEF a
  <2>3. Extends(sent, a \o l, h)  BY <2>2, <1>3, <1>4, AppendedExtends
  <2>4. Extends(sent, (a \o l) \o c, h)  BY <2>3, <1>3, <1>4, AppendedExtends
  <2>5. Extends(sent, ((a \o l) \o c) \o b.buf, h)
    BY <2>4, <1>3, <1>4, AppendedExtends
  <2> QED  BY <2>5, <1>1, <1>5
<1>11. ~(w'.bi_valid_ >= byte)  BY <1>9, ByteAssumption
<1> QED  BY <1>1, <1>9, <1>10, <1>11, WriteKeeps DEF h

\* BiWindup keeps the invariant.
LEMMA BiWindupKeeps ==
    ASSUME IInv, BiWindup  PROVE IInv'
<1> DEFINE h == Len(next_out)
<1>1. /\ pending_out_ = 0 /\ w.pending_ + buf_size + buf_size <= Capacity
      /\ w' = bi_windup(w) /\ sent' = Aligned(sent)
      /\ UNCHANGED <<pending_out_, next_out>>
  BY DEF BiWindup, Ready
<1>2. /\ Holds(w, sent, h) /\ h \in Nat /\ Extends(sent, sent, h) /\ Multiple(h)
      /\ w.pending_ \in Nat /\ buf_size \in Nat /\ Capacity \in Nat
  BY <1>1, ReadyHolds
<1> HIDE DEF h
<1>3. Holds(w', sent', h) /\ w'.bi_valid_ = 0
  <2>1. w.pending_ + buf_size <= Capacity  BY <1>1, <1>2
  <2> QED  BY <2>1, <1>1, <1>2, WindupHolds
<1>4. Extends(sent, sent', h)  BY <1>1, <1>2, AlignedExtends
<1>5. ~(w'.bi_valid_ >= byte)  BY <1>3, ByteAssumption
<1> QED  BY <1>1, <1>3, <1>4, <1>5, WriteKeeps DEF h

\* DoPrime keeps the invariant.
LEMMA DoPrimeKeeps ==
    ASSUME IInv, NEW v \in Pieces, DoPrime(v)  PROVE IInv'
<1> DEFINE h == Len(next_out)
<1>1. /\ pending_out_ = 0 /\ w.pending_ + 2 * buf_size + buf_size <= Capacity
      /\ w' = prime(w, v) /\ sent' = sent \o v
      /\ UNCHANGED <<pending_out_, next_out>>
  BY DEF DoPrime, Ready
<1>2. v \in Seq(Bit) /\ Len(v) <= buf_size  BY PiecesAssumption
<1>3. /\ Holds(w, sent, h) /\ h \in Nat /\ Extends(sent, sent, h)
      /\ w.pending_ \in Nat /\ buf_size \in Nat /\ Capacity \in Nat
  BY <1>1, ReadyHolds
<1> HIDE DEF h
<1>4. Holds(w', sent', h) /\ w'.bi_valid_ < byte
  <2>1. w.pending_ + 3 * buf_size <= Capacity  BY <1>1, <1>3
  <2> QED  BY <2>1, <1>1, <1>2, <1>3, PrimeHolds
<1>5. Extends(sent, sent', h)  BY <1>1, <1>2, <1>3, AppendedExtends
<1>6. ~(w'.bi_valid_ >= byte)
  <2>1. w'.bi_valid_ \in Nat  BY <1>4, Numbers DEF Holds
  <2> QED  BY <2>1, <1>4, ByteAssumption
<1> QED  BY <1>1, <1>4, <1>5, <1>6, WriteKeeps DEF h

\* FlushPending, which hands over bytes, keeps the invariant.
LEMMA FlushPendingKeeps ==
    ASSUME IInv, NEW len \in 0..Capacity, FlushPending(len)
    PROVE  IInv' /\ w'.bi_valid_ < byte
<1> DEFINE h == Len(next_out)
           s == bi_flush(w)
           o == pending_out_
           p == s.pending_
           f == s.bi_valid_
           m == [i \in 1..len |-> s.pending_buf_[o + i - 1]]
<1>1. /\ len <= p /\ Multiple(len) /\ w' = [s EXCEPT !.pending_ = p - len]
      /\ next_out' = next_out \o m
      /\ pending_out_' = IF len = p THEN 0 ELSE o + len
      /\ sent' = sent
  BY DEF FlushPending
<1>2. /\ w \in Writer /\ o \in 0..Capacity /\ o + w.pending_ <= Capacity
      /\ next_out \in Seq(Bit) /\ sent \in Seq(Bit) /\ h \in Nat
      /\ byte \in Nat /\ Capacity \in Nat /\ buf_size \in Nat
  BY CapacityAssumption, ByteAssumption, Numbers DEF IInv, TypeOK
<1>3. /\ s \in Writer /\ Multiple(p) /\ f < byte /\ o + p <= Capacity
      /\ HoldsAt(s, o, sent, h)
  <2>1. CASE o = 0
    <3>1. Holds(w, sent, h)  BY <2>1, ReadyHolds
    <3>2. w.bi_valid_ >= byte => w.pending_ + buf_size <= Capacity  BY DEF IInv
    <3>3. Holds(s, sent, h) /\ f < byte  BY <1>2, <3>1, <3>2, FlushHolds
    <3>4. p <= Capacity /\ p \in Nat  BY <3>3, Numbers DEF Holds
    <3> QED  BY <2>1, <3>3, <3>4 DEF Holds
  <2>2. CASE o # 0
    <3>1. w.bi_valid_ < byte  BY <2>2 DEF IInv, NothingToPutBehind
    <3>2. ~(w.bi_valid_ = buf_size) /\ ~(w.bi_valid_ >= byte)
      BY <3>1, <1>2, Numbers, ByteAssumption DEF buf_size
    <3>3. s = w  BY <3>2, Zenon DEF bi_flush
    <3> QED  BY <3>1, <3>3, <1>2 DEF IInv
  <2> QED  BY <2>1, <2>2
<1>4. /\ p \in Nat /\ f \in Nat
      /\ Len(sent) = h + p + f
      /\ \A i \in 0..p - 1 : s.pending_buf_[o + i] = sent[h + i + 1]
      /\ \A j \in 0..f - 1 : s.bi_buf_[j] = sent[h + p + j + 1]
      /\ \A j \in f..buf_size - 1 : s.bi_buf_[j] = 0
  <2>1. p \in Nat /\ f \in Nat  BY <1>3, Numbers
  <2> QED  BY <2>1, <1>3 DEF HoldsAt
<1> DEFINE P == p - len
           H == h + len
           O == IF len = p THEN 0 ELSE o + len
<1>5. /\ P \in Nat /\ H \in Nat /\ len \in Nat /\ O \in Nat /\ O + P <= Capacity
      /\ P <= Capacity /\ O <= Capacity /\ (O # 0 => P > 0)
  <2>1. o \in Nat /\ len \in Nat /\ p \in Nat /\ len <= p /\ o + p <= Capacity
    BY <1>1, <1>2, <1>3, <1>4
  <2> HIDE DEF o, p
  <2> QED  BY <2>1, <1>2
<1>6. m \in Seq(Bit) /\ Len(m) = len /\ \A i \in 1..len : m[i] = sent[h + i]
  <2>1. \A i \in 1..len : m[i] = sent[h + i] /\ m[i] \in Bit
    <3> TAKE i \in 1..len
    <3> DEFINE k == i - 1
    <3>1. k \in 0..p - 1 /\ o + k = o + i - 1 /\ h + k + 1 = h + i
          /\ h + i \in 1..Len(sent)
      <4>1. /\ o \in Nat /\ p \in Nat /\ f \in Nat /\ h \in Nat /\ len \in Nat /\ len <= p
            /\ Len(sent) = h + p + f
        BY <1>1, <1>2, <1>4
      <4> HIDE DEF o, p, f, h
      <4> QED  BY <4>1
    <3>2. s.pending_buf_[o + k] = sent[h + k + 1]  BY <3>1, <1>4
    <3>3. m[i] = sent[h + i]  BY <3>1, <3>2
    <3>4. sent[h + i] \in Bit  BY <3>1, <1>2
    <3> QED  BY <3>3, <3>4
  <2>2. len \in Nat  BY <1>5
  <2>3. \A i \in 1..len : s.pending_buf_[o + i - 1] \in Bit  BY <2>1
  <2>4. m \in Seq(Bit) /\ Len(m) = len  BY <2>2, <2>3
  <2> QED  BY <2>1, <2>4
<1> HIDE DEF m
<1>7. /\ w'.pending_ = P /\ w'.bi_valid_ = f /\ w'.bi_buf_ = s.bi_buf_
      /\ w'.pending_buf_ = s.pending_buf_ /\ w' \in Writer
  <2>1. P \in 0..Capacity  BY <1>5, <1>2
  <2> HIDE DEF s
  <2> QED  BY <1>1, <1>3, <2>1 DEF Writer
<1>8. /\ next_out' \in Seq(Bit) /\ Len(next_out') = H
      /\ \A i \in 1..h : next_out'[i] = next_out[i]
      /\ \A i \in 1..len : next_out'[h + i] = m[i]
  <2>1. /\ next_out \o m \in Seq(Bit) /\ Len(next_out \o m) = h + Len(m)
        /\ \A i \in 1..h : (next_out \o m)[i] = next_out[i]
        /\ \A i \in 1..Len(m) : (next_out \o m)[h + i] = m[i]
    BY <1>2, <1>6, Appended
  <2> QED  BY <2>1, <1>1, <1>6
<1>9. pending_out_' = O  BY <1>1
<1>10. H = h + len /\ P = p - len  OBVIOUS
<1>11. O = 0 \/ O = o + len  OBVIOUS
<1>11a. P > 0 => O = o + len  BY <1>4, <1>5
<1>12. \A i \in 1..h : next_out[i] = sent[i]  BY DEF IInv
<1>13. Multiple(h) /\ Multiple(len) /\ len <= p /\ Multiple(p)
  BY <1>1, <1>3 DEF IInv
<1> HIDE DEF P, H, O, p, f, o, h, s
<1>14. \A i \in 1..H : next_out'[i] = sent[i]
  <2> TAKE i \in 1..H
  <2>1. CASE i <= h
    <3>1. i \in 1..h  BY <2>1, <1>2, <1>5
    <3> QED  BY <3>1, <1>8, <1>12
  <2>2. CASE i > h
    <3> DEFINE k == i - h
    <3>1. k \in 1..len /\ h + k = i  BY <2>2, <1>2, <1>5, <1>10
    <3>2. next_out'[h + k] = m[k] /\ m[k] = sent[h + k]  BY <3>1, <1>6, <1>8
    <3> QED  BY <3>1, <3>2
  <2> QED  BY <2>1, <2>2, <1>2, <1>5
<1>15. HoldsAt(w', O, sent, H)
  <2>1. Len(sent) = H + P + f  BY <1>2, <1>4, <1>5, <1>10
  <2>2. \A i \in 0..P - 1 : w'.pending_buf_[O + i] = sent[H + i + 1]
    <3> TAKE i \in 0..P - 1
    <3> DEFINE k == i + len
    <3>1. k \in 0..p - 1 /\ o + k = O + i /\ h + k + 1 = H + i + 1
      BY <1>2, <1>4, <1>5, <1>10, <1>11a
    <3>2. s.pending_buf_[o + k] = sent[h + k + 1]  BY <3>1, <1>4
    <3> QED  BY <3>1, <3>2, <1>7
  <2>3. \A j \in 0..f - 1 : w'.bi_buf_[j] = sent[H + P + j + 1]
    <3> TAKE j \in 0..f - 1
    <3>1. h + p + j + 1 = H + P + j + 1  BY <1>2, <1>4, <1>5, <1>10
    <3> QED  BY <3>1, <1>4, <1>7
  <2> QED  BY <2>1, <2>2, <2>3, <1>4, <1>7 DEF HoldsAt
<1>16. TypeOK'
  <2>1. O \in 0..Capacity /\ O + w'.pending_ <= Capacity
    BY <1>2, <1>5, <1>7
  <2> QED  BY <2>1, <1>1, <1>2, <1>7, <1>8, <1>9 DEF TypeOK
<1>17. Multiple(H) /\ Multiple(P)
  <2>1. \A a, b \in Nat : Multiple(a) /\ Multiple(b) => Multiple(a + b)
    BY MultipleFacts
  <2>2. \A a, b \in Nat : Multiple(a) /\ Multiple(b) /\ b <= a => Multiple(a - b)
    BY MultipleFacts
  <2>3. Multiple(h + len)  BY <2>1, <1>2, <1>5, <1>13
  <2>4. Multiple(p - len)  BY <2>2, <1>4, <1>5, <1>13
  <2> QED  BY <2>3, <2>4, <1>10
<1>18. NothingToPutBehind'  BY <1>3, <1>5, <1>7, <1>9 DEF NothingToPutBehind, f
<1>19. w'.bi_valid_ < byte  BY <1>3, <1>7 DEF f
<1>20. ~(w'.bi_valid_ >= byte)  BY <1>4, <1>7, <1>19, <1>2
<1>21. HoldsAt(w', pending_out_', sent', Len(next_out'))
  BY <1>1, <1>8, <1>9, <1>15
<1>22. \A i \in 1..Len(next_out') : next_out'[i] = sent'[i]
  BY <1>1, <1>8, <1>14
<1>23. Multiple(Len(next_out')) /\ Multiple(w'.pending_)
  BY <1>7, <1>8, <1>17
<1> QED  BY <1>16, <1>18, <1>19, <1>20, <1>21, <1>22, <1>23 DEF IInv

-----------------------------------------------------------------------------
\* The invariant holds at first.
LEMMA InitHolds == Init => IInv
<1> SUFFICES ASSUME Init  PROVE IInv
  OBVIOUS
<1>1. /\ w.bi_buf_ = ZeroWord /\ w.bi_valid_ = 0 /\ w.pending_ = 0
      /\ w.pending_buf_ = [i \in 0..Capacity - 1 |-> 0]
      /\ pending_out_ = 0 /\ next_out = <<>> /\ sent = <<>>
  BY DEF Init
<1>2. /\ buf_size \in Nat /\ Capacity \in Nat /\ byte \in Nat /\ byte > 0
  BY ByteAssumption, CapacityAssumption DEF buf_size
<1>3. w \in Writer
  <2>1. /\ ZeroWord \in Word /\ 0 \in 0..buf_size /\ 0 \in 0..Capacity
        /\ [i \in 0..Capacity - 1 |-> 0] \in [0..Capacity - 1 -> Bit]
    BY <1>2 DEF ZeroWord, Word, Bit
  <2> QED  BY <2>1 DEF Init, Writer
<1>4. <<>> \in Seq(Bit) /\ Len(<<>>) = 0 /\ Multiple(0)
  BY MultipleFacts
<1>5. TypeOK  BY <1>1, <1>2, <1>3, <1>4 DEF TypeOK
<1>6. HoldsAt(w, pending_out_, sent, Len(next_out))
  BY <1>1, <1>2 DEF HoldsAt, ZeroWord
<1>7. NothingToPutBehind /\ ~(w.bi_valid_ >= byte)
  BY <1>1, <1>2 DEF NothingToPutBehind
<1>8. \A i \in 1..Len(next_out) : next_out[i] = sent[i]
  BY <1>1
<1> QED  BY <1>1, <1>4, <1>5, <1>6, <1>7, <1>8 DEF IInv

\* Every step keeps the invariant.
LEMMA StepKeeps == IInv /\ [Next]_vars => IInv'
<1> SUFFICES ASSUME IInv, [Next]_vars  PROVE IInv'
  OBVIOUS
<1>1. ASSUME NEW v \in Pieces, SendBits(v)  PROVE IInv'
  BY <1>1, SendBitsKeeps
<1>2. ASSUME NEW v \in Pieces, DoPrime(v)  PROVE IInv'
  BY <1>2, DoPrimeKeeps
<1>3. CASE TrAlign  BY <1>3, TrAlignKeeps
<1>4. ASSUME NEW b \in Blocks, NEW last \in Bit, TrStoredBlock(b, last)  PROVE IInv'
  BY <1>4, TrStoredBlockKeeps
<1>5. CASE BiWindup  BY <1>5, BiWindupKeeps
<1>6. ASSUME NEW len \in 0..Capacity, FlushPending(len)  PROVE IInv'
  BY <1>6, FlushPendingKeeps
<1>7. CASE UNCHANGED vars
  BY <1>7 DEF vars, IInv, TypeOK, HoldsAt, NothingToPutBehind
<1> QED  BY <1>1, <1>2, <1>3, <1>4, <1>5, <1>6, <1>7 DEF Next

\* IInv holds in every behaviour.
LEMMA Invariance == Spec => []IInv
  BY InitHolds, StepKeeps, PTL DEF Spec

(***************************************************************************)
(* The word and the counters of the writer keep their widths, whatever        *)
(* lengths send_bits is given: no shift in the writer is by more than the     *)
(* word has, and nothing is put beyond pending_buf_.                          *)
(***************************************************************************)
THEOREM TypeCorrect == Spec => []TypeOK
<1>1. IInv => TypeOK  BY DEF IInv
<1> QED  BY <1>1, Invariance, PTL

(***************************************************************************)
(* The caller gets the bits that were sent, all of them, in order and once,   *)
(* through send_bits, bi_flush, bi_windup, copy_block and doPrime, whatever    *)
(* the sizes of the output at flush_pending.                                  *)
(***************************************************************************)
THEOREM SentInOrder == Spec => []BitsInOrder
<1>1. IInv => BitsInOrder
  <2> SUFFICES ASSUME IInv  PROVE sent = next_out \o Held
    BY DEF BitsInOrder
  <2> DEFINE h == Len(next_out)
             p == w.pending_
             f == w.bi_valid_
             n == p + f
             o == pending_out_
             r == next_out \o Held
  <2>1. /\ next_out \in Seq(Bit) /\ sent \in Seq(Bit) /\ w \in Writer /\ o \in Nat
        /\ Len(sent) = h + p + f
        /\ \A i \in 1..h : next_out[i] = sent[i]
        /\ \A i \in 0..p - 1 : w.pending_buf_[o + i] = sent[h + i + 1]
        /\ \A j \in 0..f - 1 : w.bi_buf_[j] = sent[h + p + j + 1]
    BY CapacityAssumption DEF IInv, TypeOK, HoldsAt
  <2>2. h \in Nat /\ p \in Nat /\ f \in Nat /\ n \in Nat  BY <2>1, Numbers
  <2>3. Held = [i \in 1..n |-> IF i <= p THEN w.pending_buf_[o + i - 1]
                                        ELSE w.bi_buf_[i - 1 - p]]
    BY DEF Held
  <2>4. n = p + f  OBVIOUS
  <2> HIDE DEF h, p, f, n, o
  <2>5. \A i \in 1..n : Held[i] = sent[h + i] /\ Held[i] \in Bit
    <3> TAKE i \in 1..n
    <3> DEFINE k == i - 1
    <3>1. h + i \in 1..Len(sent)  BY <2>1, <2>2, <2>4
    <3>2. CASE i <= p
      <4>1. k \in 0..p - 1 /\ o + k = o + i - 1 /\ h + k + 1 = h + i
        BY <3>2, <2>1, <2>2
      <4>2. w.pending_buf_[o + k] = sent[h + k + 1]  BY <4>1, <2>1
      <4> QED  BY <3>1, <3>2, <4>1, <4>2, <2>1, <2>3
    <3>3. CASE ~(i <= p)
      <4> DEFINE j == i - 1 - p
      <4>1. j \in 0..f - 1 /\ h + p + j + 1 = h + i  BY <3>3, <2>2, <2>4
      <4>2. w.bi_buf_[j] = sent[h + p + j + 1]  BY <4>1, <2>1
      <4> QED  BY <3>1, <3>3, <4>1, <4>2, <2>1, <2>3
    <3> QED  BY <3>2, <3>3
  <2>6. Held \in Seq(Bit) /\ Len(Held) = n  BY <2>2, <2>3, <2>5
  <2> HIDE DEF Held
  <2>7. /\ r \in Seq(Bit) /\ Len(r) = h + Len(Held)
        /\ \A i \in 1..h : r[i] = next_out[i]
        /\ \A i \in 1..Len(Held) : r[h + i] = Held[i]
    BY <2>1, <2>6, Appended DEF h
  <2> HIDE DEF r
  <2>8. \A i \in 1..Len(r) : r[i] = sent[i]
    <3> TAKE i \in 1..Len(r)
    <3>1. CASE i <= h
      <4>1. i \in 1..h  BY <3>1, <2>2, <2>6, <2>7
      <4> QED  BY <4>1, <2>1, <2>7
    <3>2. CASE i > h
      <4> DEFINE k == i - h
      <4>1. k \in 1..n /\ h + k = i  BY <3>2, <2>2, <2>6, <2>7
      <4>2. r[h + k] = Held[k] /\ Held[k] = sent[h + k]
        BY <4>1, <2>5, <2>6, <2>7
      <4> QED  BY <4>1, <4>2
    <3> QED  BY <3>1, <3>2, <2>2, <2>6, <2>7
  <2>9. Len(r) = Len(sent)  BY <2>1, <2>2, <2>4, <2>6, <2>7
  <2>10. r = sent  BY <2>1, <2>7, <2>8, <2>9, SeqEqual
  <2> QED  BY <2>10 DEF r
<1> QED  BY <1>1, Invariance, PTL

(***************************************************************************)
(* While a part of the pending bytes has been handed over there is no whole    *)
(* byte in the word, so that bi_flush of the next flush_pending puts none      *)
(* over bytes that are still pending.                                         *)
(***************************************************************************)
THEOREM NothingBehind == Spec => []NothingToPutBehind
<1>1. IInv => NothingToPutBehind  BY DEF IInv
<1> QED  BY <1>1, Invariance, PTL

(***************************************************************************)
(* A flush_pending that empties the buffer leaves less than a byte of what     *)
(* was sent behind.                                                           *)
(***************************************************************************)
THEOREM FlushDelivers == Spec => FlushLeavesLess
<1> DEFINE A == \A len \in 0..Capacity :
                   FlushPending(len) /\ w'.pending_ = 0
                       => Len(sent') - Len(next_out') < byte
<1>1. IInv /\ [Next]_vars => [A]_vars
  <2> SUFFICES ASSUME IInv, NEW len \in 0..Capacity, FlushPending(len), w'.pending_ = 0
               PROVE  Len(sent') - Len(next_out') < byte
    OBVIOUS
  <2>1. IInv' /\ w'.bi_valid_ < byte  BY FlushPendingKeeps
  <2>2. Len(sent') = Len(next_out') + w'.pending_ + w'.bi_valid_
    BY <2>1 DEF IInv, HoldsAt
  <2>3. w'.bi_valid_ \in Nat /\ Len(next_out') \in Nat /\ byte \in Nat
    <3>1. w' \in Writer /\ next_out' \in Seq(Bit)  BY <2>1 DEF IInv, TypeOK
    <3> QED  BY <3>1, Numbers, ByteAssumption
  <2> QED  BY <2>1, <2>2, <2>3
<1>2. []IInv /\ [][Next]_vars => [][A]_vars  BY <1>1, PTL
<1> QED  BY <1>2, Invariance, PTL DEF Spec, FlushLeavesLess

=============================================================================
