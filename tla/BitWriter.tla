------------------------------ MODULE BitWriter ------------------------------
(***************************************************************************)
(* The bit writer of deflate_stream: the words that send_bits puts          *)
(* together, the pending buffer they go to, and flush_pending, which hands   *)
(* that buffer over piece by piece.  A word is a function from bit numbers   *)
(* to bits, so that a shift out of the word loses bits as in the code;       *)
(* positions in the pending buffer are counted in bits.                      *)
(***************************************************************************)
EXTENDS Integers, Sequences, FiniteSets

CONSTANTS
    byte,        \* bits of a byte: 8 in the code
    Capacity,    \* bits of pending_buf_
    Pieces,      \* the bit strings that one send_bits call appends
    Blocks,      \* stored blocks: records of their bytes and their length
    MaxSent      \* bound on the bits sent before the last operation

Bit == {0, 1}
buf_size == 2 * byte
Word == [0..buf_size - 1 -> Bit]

ASSUME ByteAssumption == byte \in Nat /\ 7 <= 2 * byte
ASSUME CapacityAssumption == Capacity \in Nat
ASSUME MaxSentAssumption == MaxSent \in Nat

Multiple(n) == \E k \in 0..n : n = k * byte

ASSUME PiecesAssumption ==
    \A v \in Pieces : v \in Seq(Bit) /\ Len(v) <= buf_size
ASSUME BlocksAssumption ==
    \A b \in Blocks : b.buf \in Seq(Bit) /\ b.len \in Word /\ Multiple(Len(b.buf))

VARIABLES
    w,             \* bi_buf_, bi_valid_, pending_buf_ and pending_
    pending_out_,  \* where the next flush reads
    next_out,      \* the bits handed to the caller
    sent           \* history: the bits the format calls for, in order

vars == <<w, pending_out_, next_out, sent>>

Writer == [bi_buf_ : Word, bi_valid_ : 0..buf_size,
           pending_buf_ : [0..Capacity - 1 -> Bit], pending_ : 0..Capacity]

Zeros(n) == [i \in 1..n |-> 0]
ZeroWord == [i \in 0..buf_size - 1 |-> 0]

-----------------------------------------------------------------------------
(* put_byte and the memcpy of copy_block write at pending_, whatever          *)
(* pending_out_ is.                                                           *)
Put(s, b) ==
    [s EXCEPT !.pending_buf_ =
                  [i \in DOMAIN s.pending_buf_ |->
                      IF s.pending_ <= i /\ i < s.pending_ + Len(b)
                      THEN b[i - s.pending_ + 1] ELSE s.pending_buf_[i]],
              !.pending_ = s.pending_ + Len(b)]

LowByte(c) == [i \in 1..byte |-> c[i - 1]]
HighByte(c) == [i \in 1..byte |-> c[byte + i - 1]]

put_short(s, c) == Put(Put(s, LowByte(c)), HighByte(c))

(* c |= v << at, in buf_size bits; v fits in its length, as the IN assertion   *)
(* of send_bits asks.                                                         *)
BitOf(v, i) == IF i < Len(v) THEN v[i + 1] ELSE 0
OrShifted(c, v, at) ==
    [i \in 0..buf_size - 1 |->
        IF i < at THEN c[i] ELSE IF c[i] = 1 THEN 1 ELSE BitOf(v, i - at)]
ShiftedRight(v, by) == [i \in 0..buf_size - 1 |-> BitOf(v, i + by)]

send_bits_counts_on(s, v) ==
    LET c == OrShifted(s.bi_buf_, v, s.bi_valid_)
    IN  IF s.bi_valid_ > buf_size - Len(v)
        THEN [put_short(s, c) EXCEPT
                 !.bi_buf_ = ShiftedRight(v, buf_size - s.bi_valid_),
                 !.bi_valid_ = s.bi_valid_ + Len(v)]
        ELSE [s EXCEPT !.bi_buf_ = c, !.bi_valid_ = s.bi_valid_ + Len(v)]
send_bits(s, v) ==
    LET c == OrShifted(s.bi_buf_, v, s.bi_valid_)
    IN  IF s.bi_valid_ > buf_size - Len(v)
        THEN [put_short(s, c) EXCEPT
                 !.bi_buf_ = ShiftedRight(v, buf_size - s.bi_valid_),
                 !.bi_valid_ = s.bi_valid_ + Len(v) - buf_size]
        ELSE [s EXCEPT !.bi_buf_ = c, !.bi_valid_ = s.bi_valid_ + Len(v)]

(* Aligns to a byte boundary.                                                 *)
bi_windup_at_byte(s) ==
    LET t == IF s.bi_valid_ >= byte THEN put_short(s, s.bi_buf_)
             ELSE IF s.bi_valid_ > 0 THEN Put(s, LowByte(s.bi_buf_))
             ELSE s
    IN  [t EXCEPT !.bi_buf_ = ZeroWord, !.bi_valid_ = 0]
bi_windup(s) ==
    LET t == IF s.bi_valid_ > byte THEN put_short(s, s.bi_buf_)
             ELSE IF s.bi_valid_ > 0 THEN Put(s, LowByte(s.bi_buf_))
             ELSE s
    IN  [t EXCEPT !.bi_buf_ = ZeroWord, !.bi_valid_ = 0]

(* Leaves less than a byte in the word.                                       *)
bi_flush_full(s) ==
    IF s.bi_valid_ = buf_size
    THEN [put_short(s, s.bi_buf_) EXCEPT !.bi_buf_ = ZeroWord, !.bi_valid_ = 0]
    ELSE s
bi_flush(s) ==
    IF s.bi_valid_ = buf_size
    THEN [put_short(s, s.bi_buf_) EXCEPT !.bi_buf_ = ZeroWord, !.bi_valid_ = 0]
    ELSE IF s.bi_valid_ >= byte
    THEN [Put(s, LowByte(s.bi_buf_)) EXCEPT
             !.bi_buf_ = [i \in 0..buf_size - 1 |->
                             IF i + byte < buf_size THEN s.bi_buf_[i + byte] ELSE 0],
             !.bi_valid_ = s.bi_valid_ - byte]
    ELSE s

Complement(c) == [i \in 0..buf_size - 1 |-> 1 - c[i]]
copy_block(s, b) ==
    Put(put_short(put_short(bi_windup(s), b.len), Complement(b.len)), b.buf)

(* One round of the loop of doPrime: the low bits of value that fit.           *)
PrimeRound(s, v) ==
    LET room == buf_size - s.bi_valid_
        put  == IF room > Len(v) THEN Len(v) ELSE room
    IN  [s |-> bi_flush([s EXCEPT
                   !.bi_buf_ = OrShifted(s.bi_buf_, SubSeq(v, 1, put), s.bi_valid_),
                   !.bi_valid_ = s.bi_valid_ + put]),
         v |-> SubSeq(v, put + 1, Len(v))]

(* A round that takes only a part of v fills the word, which is then flushed    *)
(* whole: the second round takes the rest.                                     *)
prime(s, v) ==
    LET one == PrimeRound(s, v)
    IN  IF one.v = <<>> THEN one.s ELSE PrimeRound(one.s, one.v).s

-----------------------------------------------------------------------------
Init ==
    /\ w = [bi_buf_ |-> ZeroWord, bi_valid_ |-> 0,
            pending_buf_ |-> [i \in 0..Capacity - 1 |-> 0], pending_ |-> 0]
    /\ pending_out_ = 0
    /\ next_out = <<>>
    /\ sent = <<>>

(* The callers write only when everything before has been handed over, so      *)
(* that pending_ is the end of what is pending; they have room for n bits, and *)
(* for a word more that flush_pending may put.                                 *)
Ready(n) ==
    /\ pending_out_ = 0
    /\ w.pending_ + n + buf_size <= Capacity
    /\ Len(sent) <= MaxSent

SendBits(v) ==
    /\ Ready(buf_size)
    /\ w' = send_bits(w, v)
    /\ sent' = sent \o v
    /\ UNCHANGED <<pending_out_, next_out>>

(* An empty static block: three bits of header, seven of end_block.            *)
StaticHeader == <<0, 1, 0>>
EndBlock == Zeros(7)
TrAlign ==
    /\ Ready(3 * buf_size)
    /\ w' = bi_flush(send_bits(send_bits(w, StaticHeader), EndBlock))
    /\ sent' = (sent \o StaticHeader) \o EndBlock
    /\ UNCHANGED <<pending_out_, next_out>>

(* The format starts the length of a stored block, and whatever follows a      *)
(* stream, at the next byte of the output, however it was reached.             *)
Pad(n) == CHOOSE p \in 0..byte - 1 : Multiple(n + p)
Aligned(q) == q \o Zeros(Pad(Len(q)))

WordBits(c) == LowByte(c) \o HighByte(c)
TrStoredBlock(b, last) ==
    LET header == <<last, 0, 0>>
    IN  /\ Ready(4 * buf_size + Len(b.buf))
        /\ w' = copy_block(send_bits(w, header), b)
        /\ sent' = ((Aligned(sent \o header) \o WordBits(b.len))
                        \o WordBits(Complement(b.len))) \o b.buf
        /\ UNCHANGED <<pending_out_, next_out>>

BiWindup ==
    /\ Ready(buf_size)
    /\ w' = bi_windup(w)
    /\ sent' = Aligned(sent)
    /\ UNCHANGED <<pending_out_, next_out>>

DoPrime(v) ==
    /\ Ready(2 * buf_size)
    /\ w' = prime(w, v)
    /\ sent' = sent \o v
    /\ UNCHANGED <<pending_out_, next_out>>

(* len is what the caller's output takes of pending_, in whole bytes.          *)
FlushPending(len) ==
    LET s == bi_flush(w)
    IN  /\ len <= s.pending_
        /\ Multiple(len)
        /\ w' = [s EXCEPT !.pending_ = s.pending_ - len]
        /\ next_out' = next_out \o
               [i \in 1..len |-> s.pending_buf_[pending_out_ + i - 1]]
        /\ pending_out_' = IF len = s.pending_ THEN 0 ELSE pending_out_ + len
        /\ UNCHANGED sent

Next ==
    \/ \E v \in Pieces : SendBits(v) \/ DoPrime(v)
    \/ TrAlign
    \/ \E b \in Blocks, last \in Bit : TrStoredBlock(b, last)
    \/ BiWindup
    \/ \E len \in 0..Capacity : FlushPending(len)

Spec == Init /\ [][Next]_vars

-----------------------------------------------------------------------------
(***************************************************************************)
(* The word and the counters keep their widths, so that no shift in the      *)
(* writer is by more than the word has.                                      *)
(***************************************************************************)
TypeOK ==
    /\ w \in Writer
    /\ pending_out_ \in 0..Capacity
    /\ pending_out_ + w.pending_ <= Capacity
    /\ next_out \in Seq(Bit)
    /\ sent \in Seq(Bit)

(* What the writer still holds: the pending bytes, then the bits in the word.  *)
Held ==
    [i \in 1..w.pending_ + w.bi_valid_ |->
        IF i <= w.pending_ THEN w.pending_buf_[pending_out_ + i - 1]
                           ELSE w.bi_buf_[i - 1 - w.pending_]]

(***************************************************************************)
(* The caller gets the bits that were sent, all of them, in order and once,   *)
(* whatever the lengths, the fill of the word (length 16, a full word) and    *)
(* the sizes of the output: what was handed over and what is held is what was *)
(* sent.  Stored lengths and the end of a stream are at a byte of the output. *)
(***************************************************************************)
BitsInOrder == sent = next_out \o Held

(***************************************************************************)
(* While a part of the pending bytes has been handed over, bi_flush of the    *)
(* next flush_pending has no byte to put: put_byte would write it over bytes  *)
(* that are still pending.                                                    *)
(***************************************************************************)
NothingToPutBehind == pending_out_ # 0 => w.pending_ > 0 /\ w.bi_valid_ < byte

(***************************************************************************)
(* A flush that the caller's output has room for leaves less than a byte      *)
(* behind (7 bits): everything sent before it can be decoded up to there.     *)
(***************************************************************************)
FlushLeavesLess ==
    [][\A len \in 0..Capacity :
          FlushPending(len) /\ w'.pending_ = 0
              => Len(sent') - Len(next_out') < byte]_vars
=============================================================================
