--------------------------- MODULE InflateStream ---------------------------
(***************************************************************************)
(* The decompressor of include/boost/deflate/detail/inflate_stream.ipp:    *)
(* the machine of modes that write() resumes for every amount of input and *)
(* output space, with its bit reservoir (detail/bitstream.hpp) and the     *)
(* fast path of inflate_fast().  One action is one mode of the switch.     *)
(*                                                                         *)
(* Bits are counted, not held: the decoder's state says how many it has    *)
(* taken, and `at' and `sym' which part of the stream it takes to be next. *)
(* That it takes the right one is BitsInOrder.                             *)
(***************************************************************************)
EXTENDS DeflateFormat

CONSTANTS
    Streams,      \* what the caller may decompress: see DeflateFormat
    Later,        \* bound: those that it may decompress after a reset
    capacity,     \* bytes of the window
    max_match,    \* longest match, 258 in the code
    Verify,       \* values of the argument of reset() that asks to compare checksums
    Flushes,      \* values of Flush the caller uses
    InSizes,      \* bytes of new input a call may offer
    OutSizes,     \* avail_out of a call
    MaxLives      \* bound: streams that one object decompresses, one after the other

ASSUME FormatAssumption ==
    Later \subseteq Streams /\ \A s \in Streams : WellFormed(s)

ASSUME InflateAssumption ==
    /\ capacity \in Nat \ {0} /\ max_match \in Nat \ {0}
    /\ Verify \subseteq BOOLEAN
    /\ Flushes \subseteq {"none", "block", "partial", "sync", "full", "finish", "trees"}
    /\ InSizes \subseteq Nat /\ OutSizes \subseteq Nat /\ MaxLives \in Nat
    /\ \A s \in Streams : \A i \in 1 .. Len(s.items) :
        s.items[i].op = "match" => s.items[i].len + s.items[i].len_v <= max_match

VARIABLES
    pc,             \* "idle" between calls; "switch", "fast" or "done" inside
    flush, ec,      \* argument and result of the last call
    mode_, last_, verify, check_, window,
    length_, offset_, extra_, have_, lenbits_, distbits_,
    n_,             \* bits in the reservoir
    next_in, in_last, avail_out,   \* the ranges of the call, as offsets in the input
    total_in, total_out,           \* the caller's z_params
    \* Variables that are not in the code:
    stream, at, sym,               \* what is decompressed: item, and symbol of a table
    output,         \* the bytes the caller has been given, and those of this call
    lives

input  == <<next_in, n_>>
result == <<output, avail_out>>
code   == <<length_, offset_, extra_, have_, lenbits_, distbits_>>
place  == <<at, sym>>
state  == <<mode_, last_, check_>>
frame  == <<flush, verify, window, in_last, total_in, total_out, stream, lives>>
vars   == <<pc, ec, input, result, code, place, state, frame>>

clamp_not(u, v) == u
clamp(u, v) == IF u > v THEN v ELSE u

Max2(a, b) == IF a >= b THEN a ELSE b

item  == stream.items[at]
wrap_ == stream.wrap

used  == Len(output) - total_out       \* r.out.used()
avail == in_last - next_in             \* r.in.avail()

\* The last `capacity' bytes of w.
LastBytes(w) ==
    IF Len(w) <= capacity THEN w ELSE SubSeq(w, Len(w) - capacity + 1, Len(w))

\* doReset: what belongs to the block at hand keeps its old value.
StartOf(s, v) ==
    /\ stream' = s /\ verify' = v
    /\ mode_' = "HEAD" /\ last_' = FALSE /\ n_' = 0 /\ window' = << >>
    /\ at' = 1 /\ sym' = 0 /\ output' = << >>
    /\ next_in' = 0 /\ in_last' = 0 /\ avail_out' = 0
    /\ total_in' = 0 /\ total_out' = 0 /\ ec' = "ok" /\ flush' = "none"

Init ==
    /\ stream \in Streams /\ verify \in Verify
    /\ pc = "idle" /\ flush = "none" /\ ec = "ok"
    /\ mode_ = "HEAD" /\ last_ = FALSE /\ n_ = 0 /\ window = << >> /\ check_ = 0
    /\ length_ = 0 /\ offset_ = 0 /\ extra_ = 0 /\ have_ = 0
    /\ lenbits_ = 0 /\ distbits_ = 0
    /\ at = 1 /\ sym = 0 /\ output = << >>
    /\ next_in = 0 /\ in_last = 0 /\ avail_out = 0
    /\ total_in = 0 /\ total_out = 0 /\ lives = 1

-----------------------------------------------------------------------------
(* Between calls *)

doReset(s, v) ==
    /\ pc = "idle"
    /\ StartOf(s, v)
    /\ lives' = lives + 1
    /\ UNCHANGED <<pc, code, check_>>

\* The boundary at which the last call may have stopped is passed.
Entered_again == mode_
Entered == IF mode_ = "TYPE" THEN "TYPEDO" ELSE mode_

\* The caller offers k more bytes of the input and room for o.
write(k, o, f) ==
    /\ pc = "idle"
    /\ flush' = f /\ ec' = "ok"
    /\ next_in' = total_in
    /\ in_last' = clamp(total_in + k, InputBytes(stream))
    /\ avail_out' = o
    /\ mode_' = Entered
    /\ pc' = "switch"
    /\ UNCHANGED <<n_, output, code, place, last_, check_, verify, window,
                   total_in, total_out, stream, lives>>

WritesWindow_unless_finish == used > 0 /\ mode_ # "BAD" /\ flush # "finish"

\* After the last block no match follows, and a caller who asks to finish needs no history.
WritesWindow ==
    /\ used > 0 /\ mode_ # "BAD"
    /\ mode_ \in {"CHECK", "LENGTH", "DONE"} => flush # "finish"

Checked_with_input == IF wrap_ = "none" \/ next_in = total_in THEN check_ ELSE check_ + used
Checked == IF wrap_ = "none" THEN check_ ELSE check_ + used

\* The return of a call that has not failed.
done ==
    LET new == SubSeq(output, total_out + 1, Len(output))
    IN  /\ pc = "done"
        /\ window' = IF WritesWindow THEN LastBytes(window \o new) ELSE window
        /\ total_in' = next_in /\ total_out' = Len(output)
        /\ check_' = Checked
        /\ ec' = IF ec = "ok" /\ ((next_in = total_in /\ used = 0) \/ flush = "finish")
                 THEN "need_buffers" ELSE ec
        /\ pc' = "idle"
        /\ UNCHANGED <<input, result, code, place, mode_, last_, flush, verify, in_last,
                       stream, lives>>

-----------------------------------------------------------------------------
(* The reservoir, and the three ways to leave a mode *)

\* Bytes that fill(n) takes when there are m bits.
Bytes(n, m) == IF m >= n THEN 0 ELSE (n - m + 7) \div 8

\* fill(n) fails: it has taken all the input there was.
OutOfInput(n) ==
    /\ Bytes(n, n_) > avail
    /\ next_in' = in_last /\ n_' = n_ + 8 * avail
    /\ pc' = "done"

\* fill(n) succeeds and k of the bits are read or dropped.
Take(n, k) ==
    /\ Bytes(n, n_) <= avail
    /\ next_in' = next_in + Bytes(n, n_)
    /\ n_' = n_ + 8 * Bytes(n, n_) - k

Goto(m) == mode_' = m /\ pc' = "switch"

GotoUnlessTrees(m) == mode_' = m /\ pc' = IF flush = "trees" THEN "done" ELSE "switch"

\* The error returns do not go through done(): what this call wrote is not counted.
err(e) ==
    /\ ec' = e /\ mode_' = "BAD" /\ pc' = "idle"
    /\ output' = SubSeq(output, 1, total_out)
    /\ UNCHANGED avail_out

In(m) == pc = "switch" /\ mode_ = m

\* All the mode leaves alone when it returns for want of input.
Kept == UNCHANGED <<ec, result, code, place, state>>

-----------------------------------------------------------------------------
(* The header *)

HeadError ==
    IF stream.head.error # "ok" THEN stream.head.error
    ELSE IF stream.head.window > capacity THEN "invalid_window_size" ELSE "ok"

HEAD ==
    /\ In("HEAD")
    /\ \/ /\ wrap_ = "none" /\ Goto("TYPEDO")
          /\ UNCHANGED <<ec, input, result, code, place, last_, check_>>
       \/ wrap_ # "none" /\ OutOfInput(16) /\ Kept
       \/ /\ wrap_ = "zlib" /\ Take(16, 16)
          /\ \/ /\ HeadError = "ok"
                /\ Goto(IF stream.head.dict THEN "DICTID" ELSE "TYPE")
                /\ check_' = 0 /\ UNCHANGED <<ec, result>>
             \/ HeadError # "ok" /\ err(HeadError) /\ UNCHANGED check_
          /\ UNCHANGED <<code, place, last_>>
       \/ /\ wrap_ = "gzip" /\ Take(16, 16)
          /\ check_' = 2 /\ Goto("FLAGS")
          /\ UNCHANGED <<ec, result, code, place, last_>>

\* A field of the gzip header that goes into its checksum when there is one to compare.
Field(n, next) ==
    \/ OutOfInput(n) /\ Kept
    \/ /\ Take(n, n)
       /\ check_' = IF stream.head.hcrc /\ verify THEN check_ + n \div 8 ELSE check_
       /\ Goto(next)
       /\ UNCHANGED <<ec, result, code, place, last_>>

FLAGS ==
    /\ In("FLAGS")
    /\ IF stream.head.error \in {"unknown_compression_method", "unknown_header_flags"}
       THEN \/ OutOfInput(16) /\ Kept
            \/ /\ Take(16, 16) /\ err(stream.head.error)
               /\ UNCHANGED <<code, place, last_, check_>>
       ELSE Field(16, "TIME")

TIME == In("TIME") /\ Field(32, "OS")
OS == In("OS") /\ Field(16, "EXLEN")

\* No stream has an extra field: EXTRA reads it through the pointer head_, which is null.
EXLEN ==
    /\ In("EXLEN") /\ Goto("NAME")
    /\ next_in' = next_in - n_ \div 8 /\ n_' = n_ % 8
    /\ length_' = 0
    /\ UNCHANGED <<ec, result, offset_, extra_, have_, lenbits_, distbits_, place, last_, check_>>

\* A name or comment of n bytes with its zero, which is skipped; 0 if there is none.
TextField(n, next) ==
    LET left == n - 1 - length_
        copy == clamp(left, avail)
    IN  \/ /\ n = 0 \/ left < avail
           /\ next_in' = IF n = 0 THEN next_in ELSE next_in + copy + 1
           /\ check_' = IF n > 0 /\ stream.head.hcrc THEN check_ + copy ELSE check_
           /\ length_' = 0 /\ Goto(next)
           /\ UNCHANGED <<ec, n_, result, offset_, extra_, have_, lenbits_, distbits_, place, last_>>
        \/ /\ n > 0 /\ left >= avail
           /\ next_in' = next_in + copy /\ length_' = length_ + copy
           /\ check_' = IF stream.head.hcrc THEN check_ + copy ELSE check_
           /\ pc' = "done"
           /\ UNCHANGED <<ec, n_, result, offset_, extra_, have_, lenbits_, distbits_, place,
                          mode_, last_>>

NAME == In("NAME") /\ TextField(stream.head.name, "COMMENT")
COMMENT == In("COMMENT") /\ TextField(stream.head.comment, "HCRC")

HCRC ==
    /\ In("HCRC")
    /\ \/ stream.head.hcrc /\ OutOfInput(16) /\ Kept
       \/ /\ IF stream.head.hcrc THEN Take(16, 16) ELSE UNCHANGED input
          /\ IF /\ stream.head.hcrc /\ verify
                /\ check_ # HeadBytes(stream) - 2 \/ stream.head.error = "header_crc_mismatch"
             THEN err("header_crc_mismatch") /\ UNCHANGED check_
             ELSE check_' = 0 /\ Goto("TYPE") /\ UNCHANGED <<ec, result>>
          /\ UNCHANGED <<code, place, last_>>

\* No dictionary can be given, so DICT is left at once.
DICTID ==
    /\ In("DICTID")
    /\ \/ OutOfInput(32) /\ Kept
       \/ Take(32, 32) /\ err("need_dict") /\ UNCHANGED <<code, place, last_, check_>>

-----------------------------------------------------------------------------
(* Blocks *)

StopsAtBlock_finish == flush \in {"block", "trees", "finish"}
StopsAtBlock == flush \in {"block", "trees"}

TYPE ==
    /\ In("TYPE") /\ StopsAtBlock
    /\ pc' = "done"
    /\ UNCHANGED <<ec, input, result, code, place, state>>

\* TYPE falls through to TYPEDO without a change of mode.
TYPEDO ==
    /\ In("TYPEDO") \/ (In("TYPE") /\ ~StopsAtBlock)
    /\ \/ /\ last_
          /\ n_' = n_ - (n_ % 8) /\ Goto("CHECK")
          /\ UNCHANGED <<ec, next_in, result, code, place, last_, check_>>
       \/ ~last_ /\ OutOfInput(3) /\ Kept
       \/ /\ ~last_ /\ Take(3, 3)
          /\ last_' = item.last
          /\ \/ /\ item.type = "stored" /\ Goto("STORED") /\ at' = at + 1
                /\ UNCHANGED <<ec, result, code>>
             \/ /\ item.type = "fixed" /\ GotoUnlessTrees("LEN_") /\ at' = at + 1
                /\ lenbits_' = 9 /\ distbits_' = 5
                /\ UNCHANGED <<ec, result, length_, offset_, extra_, have_>>
             \/ /\ item.type = "dynamic" /\ Goto("TABLE") /\ at' = at + 1
                /\ UNCHANGED <<ec, result, code>>
             \/ /\ item.type = "invalid" /\ err("invalid_block_type")
                /\ UNCHANGED <<at, code>>
          /\ UNCHANGED <<sym, check_>>

STORED ==
    LET n == n_ - (n_ % 8)
    IN  /\ In("STORED")
        /\ \/ /\ Bytes(32, n) > avail
              /\ next_in' = in_last /\ n_' = n + 8 * avail /\ pc' = "done"
              /\ Kept
           \/ /\ Bytes(32, n) <= avail
              /\ next_in' = next_in + Bytes(32, n)
              /\ \/ /\ item.good
                    /\ length_' = Len(item.bytes) /\ n_' = 0 /\ GotoUnlessTrees("COPY_")
                    /\ UNCHANGED <<ec, result, offset_, extra_, have_, lenbits_, distbits_>>
                 \/ /\ ~item.good
                    /\ err("invalid_stored_length") /\ n_' = n + 8 * Bytes(32, n)
                    /\ UNCHANGED code
              /\ UNCHANGED <<place, last_, check_>>

\* The byte of the input where the data of the stored block begins.
DataStart == NextByte(stream.start[at]) \div 8 + 4

COPY ==
    LET copy == clamp(clamp(length_, avail), avail_out)
        from == next_in - DataStart
    IN  /\ In("COPY_") \/ In("COPY")
        /\ \/ /\ length_ = 0 /\ Goto("TYPE") /\ at' = at + 1
              /\ UNCHANGED <<input, result, length_>>
           \/ /\ length_ > 0 /\ copy = 0
              /\ mode_' = "COPY" /\ pc' = "done"
              /\ UNCHANGED <<input, result, length_, at>>
           \/ /\ copy > 0 /\ Goto("COPY")
              /\ output' = output \o SubSeq(item.bytes, from + 1, from + copy)
              /\ next_in' = next_in + copy /\ avail_out' = avail_out - copy
              /\ length_' = length_ - copy
              /\ UNCHANGED <<n_, at>>
        /\ UNCHANGED <<ec, sym, offset_, extra_, have_, lenbits_, distbits_, last_, check_>>

TABLE ==
    /\ In("TABLE")
    /\ \/ OutOfInput(14) /\ Kept
       \/ /\ Take(14, 14)
          /\ \/ /\ item.error # "counts" /\ have_' = 0 /\ Goto("LENLENS")
                /\ UNCHANGED <<ec, result>>
             \/ item.error = "counts" /\ err("too_many_symbols") /\ UNCHANGED have_
          /\ UNCHANGED <<length_, offset_, extra_, lenbits_, distbits_, place, last_, check_>>

LENLENS ==
    /\ In("LENLENS")
    /\ \/ have_ < item.ncode /\ OutOfInput(3) /\ Kept
       \/ /\ have_ < item.ncode /\ Take(3, 3)
          /\ have_' = have_ + 1
          /\ UNCHANGED <<pc, ec, result, length_, offset_, extra_, lenbits_, distbits_, place, state>>
       \/ /\ have_ = item.ncode /\ item.error # "codes"
          /\ lenbits_' = item.clbits /\ have_' = 0 /\ sym' = 0 /\ Goto("CODELENS")
          /\ UNCHANGED <<ec, input, result, length_, offset_, extra_, distbits_, at, last_, check_>>
       \/ /\ have_ = item.ncode /\ item.error = "codes"    \* goes on, to BAD
          /\ ec' = "incomplete_length_set" /\ Goto("BAD")
          /\ UNCHANGED <<input, result, code, place, last_, check_>>

TableError == IF item.error = "eob" THEN "missing_eob" ELSE "incomplete_length_set"

CODELENS ==
    LET s == item.symbols[sym + 1]
        want == Max2(lenbits_, s.bits + RepeatBits(s.val))
    IN  /\ In("CODELENS")
        /\ \/ /\ have_ < item.total /\ OutOfInput(want) /\ Kept
           \/ /\ have_ < item.total /\ Take(want, s.bits + RepeatBits(s.val))
              /\ \/ /\ s.val = 16 => have_ > 0
                    /\ have_ + s.run <= item.total
                    /\ have_' = have_ + s.run /\ sym' = sym + 1
                    /\ UNCHANGED <<pc, ec, mode_, result>>
                 \/ /\ (s.val = 16 /\ have_ = 0) \/ have_ + s.run > item.total
                    /\ err("invalid_bit_length_repeat") /\ UNCHANGED <<have_, sym>>
              /\ UNCHANGED <<length_, offset_, extra_, lenbits_, distbits_, at, last_, check_>>
           \/ /\ have_ = item.total /\ item.error = "ok"
              /\ lenbits_' = item.lenbits /\ distbits_' = item.distbits
              /\ GotoUnlessTrees("LEN_") /\ at' = at + 1
              /\ UNCHANGED <<ec, input, result, length_, offset_, extra_, have_, sym, last_, check_>>
           \/ /\ have_ = item.total /\ item.error # "ok"
              /\ err(TableError)
              /\ UNCHANGED <<input, code, place, last_, check_>>

-----------------------------------------------------------------------------
(* Symbols, one at a time *)

FastEnough_tight == avail >= 5 /\ avail_out >= max_match
FastEnough == avail >= 6 /\ avail_out >= max_match

\* The bits a look-up takes to see a code: the first table's index, and the second's.
Peek(index, sub) == index + sub

LEN ==
    /\ In("LEN_") \/ In("LEN")
    /\ \/ /\ FastEnough /\ mode_' = "LEN" /\ pc' = "fast"
          /\ UNCHANGED <<ec, input, result, code, place>>
       \/ /\ ~FastEnough /\ OutOfInput(Peek(lenbits_, item.sub)) /\ mode_' = "LEN"
          /\ UNCHANGED <<ec, result, code, place>>
       \/ /\ ~FastEnough /\ Take(Peek(lenbits_, item.sub), item.bits)
          /\ \/ /\ item.op = "lit" /\ length_' = item.byte /\ Goto("LIT")
                /\ UNCHANGED <<ec, result, extra_, at>>
             \/ /\ item.op = "eob" /\ Goto("TYPE") /\ at' = at + 1
                /\ UNCHANGED <<ec, result, length_, extra_>>
             \/ /\ item.op = "match" /\ length_' = item.len /\ extra_' = item.extra
                /\ Goto("LENEXT")
                /\ UNCHANGED <<ec, result, at>>
             \/ /\ item.op = "invalid" /\ err("invalid_literal_length")
                /\ UNCHANGED <<length_, extra_, at>>
          /\ UNCHANGED <<sym, offset_, have_, lenbits_, distbits_>>
    /\ UNCHANGED <<last_, check_>>

LENEXT ==
    /\ In("LENEXT")
    /\ \/ OutOfInput(extra_) /\ Kept
       \/ /\ Take(extra_, extra_)
          /\ length_' = IF extra_ > 0 THEN length_ + item.len_v ELSE length_
          /\ Goto("DIST")
          /\ UNCHANGED <<ec, result, offset_, extra_, have_, lenbits_, distbits_, place, last_, check_>>

DIST ==
    /\ In("DIST")
    /\ \/ OutOfInput(Peek(distbits_, item.dsub)) /\ Kept
       \/ /\ Take(Peek(distbits_, item.dsub), item.dbits)
          /\ \/ /\ item.valid /\ offset_' = item.dist /\ extra_' = item.dextra
                /\ Goto("DISTEXT") /\ UNCHANGED <<ec, result>>
             \/ ~item.valid /\ err("invalid_distance_code") /\ UNCHANGED <<offset_, extra_>>
          /\ UNCHANGED <<length_, have_, lenbits_, distbits_, place, last_, check_>>

DISTEXT ==
    /\ In("DISTEXT")
    /\ \/ OutOfInput(extra_) /\ Kept
       \/ /\ Take(extra_, extra_)
          /\ offset_' = IF extra_ > 0 THEN offset_ + item.dist_v ELSE offset_
          /\ Goto("MATCH")
          /\ UNCHANGED <<ec, result, length_, extra_, have_, lenbits_, distbits_, place, last_, check_>>

FromWindow_oldest(offset, n) == SubSeq(window, 1, n)

\* The n bytes of the window from `offset' back: see Window and History.
FromWindow(offset, n) ==
    SubSeq(window, Len(window) - offset + 1, Len(window) - offset + n)

\* w with n more bytes, each copied from `dist' back, one after the other.
Repeated(w, dist, n) ==
    w \o [k \in 1 .. n |-> w[Len(w) - dist + 1 + ((k - 1) % dist)]]

MATCH ==
    LET back == offset_ - used       \* how far back in the window
        n    == IF offset_ > used THEN clamp(clamp(length_, back), avail_out)
                ELSE clamp(length_, avail_out)
    IN  /\ In("MATCH")
        /\ \/ /\ avail_out = 0 /\ pc' = "done"
              /\ UNCHANGED <<ec, mode_, result, length_, at>>
           \/ /\ avail_out > 0 /\ offset_ > used /\ back > Len(window)
              /\ err("invalid_distance") /\ UNCHANGED <<length_, at>>
           \/ /\ avail_out > 0 /\ (offset_ > used => back <= Len(window))
              /\ output' = IF offset_ > used THEN output \o FromWindow(back, n)
                           ELSE Repeated(output, offset_, n)
              /\ avail_out' = avail_out - n /\ length_' = length_ - n
              /\ Goto(IF length_ = n THEN "LEN" ELSE "MATCH")
              /\ at' = IF length_ = n THEN at + 1 ELSE at
              /\ UNCHANGED ec
        /\ UNCHANGED <<input, sym, offset_, extra_, have_, lenbits_, distbits_, last_, check_>>

LIT ==
    /\ In("LIT")
    /\ \/ /\ avail_out = 0 /\ pc' = "done"
          /\ UNCHANGED <<mode_, result, at>>
       \/ /\ avail_out > 0
          /\ output' = Append(output, length_) /\ avail_out' = avail_out - 1
          /\ Goto("LEN") /\ at' = at + 1
    /\ UNCHANGED <<ec, input, code, sym, last_, check_>>

-----------------------------------------------------------------------------
(* Symbols in inflate_fast, while there are input and room for the longest one *)

Fill16(n) == IF n < 15 THEN n + 16 ELSE n

\* Two fill_8 for the extra bits of a distance; those of a length need one at most.
Fill8For(n, b) == IF n >= b THEN n ELSE IF n + 8 >= b THEN n + 8 ELSE n + 16

\* The reservoir after the parts of a match.
AfterLength(e) == Fill8For(Fill16(n_) - e.bits, e.extra) - e.extra
AfterMatch(e) == Fill8For(Fill16(AfterLength(e)) - e.dbits, e.dextra) - e.dextra

\* Where the input is when d bits have been dropped and n are left.
Reached(d, n) == next_in + (n + d - n_) \div 8

rewind_keeps_bits(next, n) == next_in' = next - (n \div 8) /\ n_' = n
rewind(next, n) == next_in' = next - (n \div 8) /\ n_' = n % 8

\* The end of a pass of the loop, and of the function when no further pass is possible.
FastNext(next, n) ==
    IF in_last - next >= 6 /\ avail_out' >= max_match
    THEN pc' = "fast" /\ next_in' = next /\ n_' = n
    ELSE pc' = "switch" /\ rewind(next, n)

fast_literal ==
    LET n == Fill16(n_) - item.bits
    IN  /\ pc = "fast" /\ item.op = "lit"
        /\ output' = Append(output, item.byte) /\ avail_out' = avail_out - 1
        /\ at' = at + 1
        /\ FastNext(Reached(item.bits, n), n)
        /\ UNCHANGED <<ec, sym, code, state>>

fast_match ==
    LET len  == item.len + item.len_v
        dist == Distance(item)
        back == dist - used
        n    == IF dist > used THEN clamp(len, back) ELSE 0    \* from the window
        w    == IF n > 0 THEN output \o FromWindow(back, n) ELSE output
        bits == item.bits + item.extra + item.dbits + item.dextra
    IN  /\ pc = "fast" /\ item.op = "match" /\ item.valid
        /\ \/ /\ back <= Len(window)
              /\ output' = IF len > n THEN Repeated(w, dist, len - n) ELSE w
              /\ avail_out' = avail_out - len
              /\ at' = at + 1
              /\ FastNext(Reached(bits, AfterMatch(item)), AfterMatch(item))
              /\ UNCHANGED <<ec, mode_>>
           \/ /\ back > Len(window)
              /\ err("invalid_distance")
              /\ rewind(Reached(bits, AfterMatch(item)), AfterMatch(item))
              /\ UNCHANGED at
        /\ UNCHANGED <<sym, code, last_, check_>>

fast_end_of_block ==
    LET n == Fill16(n_) - item.bits
    IN  /\ pc = "fast" /\ item.op = "eob"
        /\ Goto("TYPE") /\ at' = at + 1
        /\ rewind(Reached(item.bits, n), n)
        /\ UNCHANGED <<ec, sym, result, code, last_, check_>>

fast_invalid ==
    LET n == IF item.op = "match" THEN Fill16(AfterLength(item)) - item.dbits
             ELSE Fill16(n_) - item.bits
        d == IF item.op = "match" THEN item.bits + item.extra + item.dbits ELSE item.bits
    IN  /\ pc = "fast"
        /\ \/ item.op = "invalid" /\ err("invalid_literal_length")
           \/ item.op = "match" /\ ~item.valid /\ err("invalid_distance_code")
        /\ rewind(Reached(d, n), n)
        /\ UNCHANGED <<place, code, last_, check_>>

-----------------------------------------------------------------------------
(* The trailer and the end *)

SameCheck_before_call(c) == stream.check /\ c = total_out

(***************************************************************************)
(* Whether the comparison of the stored checksum with that of c bytes      *)
(* succeeds.  The code swaps the bytes of the stored one, whose order in a *)
(* gzip stream is the other one; only the checksum 0, that of an empty     *)
(* text, is the same in both.                                              *)
(***************************************************************************)
SameCheck(c) ==
    /\ stream.check /\ c = Len(output)
    /\ wrap_ = "gzip" => Len(output) = 0

CHECK ==
    LET c == IF verify THEN check_ + used ELSE check_
    IN  /\ In("CHECK")
        /\ \/ /\ wrap_ = "none" /\ Goto("LENGTH")
              /\ UNCHANGED <<ec, input, result, check_>>
           \/ wrap_ # "none" /\ OutOfInput(32) /\ UNCHANGED <<ec, result, mode_, check_>>
           \/ /\ wrap_ # "none" /\ Take(32, 32)
              /\ check_' = c
              /\ IF verify /\ ~SameCheck(c) THEN err("incorrect_data_check")
                 ELSE Goto("LENGTH") /\ UNCHANGED <<ec, result>>
        /\ UNCHANGED <<code, place, last_>>

LENGTH ==
    /\ In("LENGTH")
    /\ \/ /\ ~(verify /\ wrap_ = "gzip") /\ Goto("DONE")
          /\ UNCHANGED <<ec, input, result>>
       \/ verify /\ wrap_ = "gzip" /\ OutOfInput(32) /\ UNCHANGED <<ec, result, mode_>>
       \/ /\ verify /\ wrap_ = "gzip" /\ Take(32, 32)
          /\ IF stream.length THEN Goto("DONE") /\ UNCHANGED <<ec, result>>
             ELSE err("incorrect_length_check")
    /\ UNCHANGED <<code, place, last_, check_>>

DONE ==
    /\ In("DONE") /\ ec' = "end_of_stream" /\ pc' = "done"
    /\ UNCHANGED <<input, result, code, place, state>>

BAD ==
    /\ In("BAD") /\ pc' = "done"
    /\ UNCHANGED <<ec, input, result, code, place, state>>

-----------------------------------------------------------------------------

InHeader == HEAD \/ FLAGS \/ TIME \/ OS \/ EXLEN \/ NAME \/ COMMENT \/ HCRC \/ DICTID
InBlock == TYPE \/ TYPEDO \/ STORED \/ COPY \/ TABLE \/ LENLENS \/ CODELENS
InSymbol == LEN \/ LENEXT \/ DIST \/ DISTEXT \/ MATCH \/ LIT
InFast == fast_literal \/ fast_match \/ fast_end_of_block \/ fast_invalid
InTrailer == CHECK \/ LENGTH \/ DONE \/ BAD

Inside ==
    \/ (InHeader \/ InBlock \/ InSymbol \/ InFast \/ InTrailer) /\ UNCHANGED frame
    \/ done

Call == \E k \in InSizes, o \in OutSizes, f \in Flushes : write(k, o, f)

Reset == lives < MaxLives /\ \E s \in Later, v \in Verify : doReset(s, v)

Next == Inside \/ Call \/ Reset

Spec == Init /\ [][Next]_vars

(***************************************************************************)
(* A call that has begun goes on to its return, and the caller calls until *)
(* the end of the stream or an error.                                      *)
(***************************************************************************)
CooperativeSpec == Spec /\ WF_vars(Inside) /\ WF_vars(Call)

-----------------------------------------------------------------------------
(* Properties *)

HeadModes == {"HEAD", "FLAGS", "TIME", "OS", "EXLEN", "NAME", "COMMENT", "HCRC", "DICTID"}
SymbolModes == {"LEN_", "LEN", "LENEXT", "DIST", "DISTEXT", "MATCH", "LIT"}
BlockModes == {"TYPE", "TYPEDO", "STORED", "COPY_", "COPY", "TABLE", "LENLENS", "CODELENS"}
EndModes == {"CHECK", "LENGTH", "DONE"}

(***************************************************************************)
(* Every variable has its type.                                            *)
(***************************************************************************)
TypeOK ==
    /\ pc \in {"idle", "switch", "fast", "done"}
    /\ mode_ \in HeadModes \cup SymbolModes \cup BlockModes \cup EndModes \cup {"BAD"}
    /\ last_ \in BOOLEAN /\ verify \in BOOLEAN /\ flush \in Flushes \cup {"none"}
    /\ stream \in Streams /\ at \in 1 .. Len(stream.items) + 1 /\ sym \in Nat
    /\ {check_, length_, offset_, extra_, have_, lenbits_, distbits_, avail_out,
        next_in, in_last, total_in, total_out, lives} \subseteq Nat
    /\ total_out <= Len(output)

(***************************************************************************)
(* The reservoir never holds more bits than its 32, nor fewer than none,   *)
(* and no byte is read behind the input: six bytes of input are enough for *)
(* the longest symbol of inflate_fast, whatever was left in the reservoir. *)
(***************************************************************************)
InBounds == n_ \in 0 .. 32 /\ next_in <= in_last

\* The places in the stream where a decoder in this mode may be.
Positions ==
    LET b == stream.start[at]
        end == stream.start[Len(stream.items) + 1]
        text == 8 * GzipBytes
    IN  CASE mode_ = "HEAD"    -> {0}
          [] mode_ = "FLAGS"   -> {16}
          [] mode_ = "TIME"    -> {32}
          [] mode_ = "OS"      -> {64}
          [] mode_ = "EXLEN"   -> {text}
          [] mode_ = "NAME"    -> {text + 8 * length_}
          [] mode_ = "COMMENT" -> {text + 8 * (stream.head.name + length_)}
          [] mode_ = "HCRC"    -> {text + 8 * (stream.head.name + stream.head.comment)}
          [] mode_ = "DICTID"  -> {16}
          [] mode_ = "STORED"  -> {b, NextByte(b)}
          [] mode_ \in {"COPY_", "COPY"} -> {8 * (DataStart + Len(item.bytes) - length_)}
          [] mode_ = "LENLENS" -> {b + 14 + 3 * have_}
          [] mode_ = "CODELENS" -> {b + 14 + 3 * item.ncode + item.offsets[sym + 1]}
          [] mode_ \in {"LIT", "LENEXT"} -> {b + item.bits}
          [] mode_ = "DIST"    -> {b + item.bits + item.extra}
          [] mode_ = "DISTEXT" -> {b + item.bits + item.extra + item.dbits}
          [] mode_ = "MATCH"   -> {stream.start[at + 1]}
          [] mode_ = "CHECK"   -> {NextByte(end)}
          [] mode_ = "LENGTH"  -> {NextByte(end) + 8 * CheckBytes(stream)}
          [] mode_ = "DONE"    -> {NextByte(end) + 8 * CheckBytes(stream),
                                   8 * StreamBytes(stream)}
          [] OTHER -> {b}

(***************************************************************************)
(* The bits are taken in order: over all interruptions of all modes, over  *)
(* the two paths and the bytes that inflate_fast gives back, the bits that *)
(* have been taken and not left in the reservoir are those of the items    *)
(* before the one the decoder takes to be next, and of its parts so far.   *)
(***************************************************************************)
BitsInOrder == mode_ # "BAD" => 8 * next_in - n_ \in Positions

(***************************************************************************)
(* The output is in order: it is the text of the items so far, and of the  *)
(* match or stored block at hand the part that length_ says is done.       *)
(***************************************************************************)
OutputInOrder ==
    mode_ # "BAD" =>
        /\ Len(output) = Len(stream.text[at]) +
              CASE mode_ \in {"COPY_", "COPY"} -> Len(item.bytes) - length_
                [] mode_ = "MATCH" -> item.len + item.len_v - length_
                [] OTHER -> 0
        /\ output = SubSeq(Text(stream), 1, Len(output))

(***************************************************************************)
(* While a match may follow, the window holds the last bytes of the output *)
(* of all calls before this one, as many as it has room for.               *)
(***************************************************************************)
WindowFollowsOutput ==
    mode_ \notin EndModes \cup {"BAD"} => window = LastBytes(SubSeq(output, 1, total_out))

(***************************************************************************)
(* Between the header and the trailer check_ covers each byte of the       *)
(* output of the calls before this one, once.                              *)
(***************************************************************************)
CheckCoversOutput ==
    wrap_ # "none" /\ mode_ \in BlockModes \cup SymbolModes \cup {"CHECK"} => check_ = total_out

(***************************************************************************)
(* A call that returns without an error has used up its input or its       *)
(* output space, or has come to a boundary that Flush::block or            *)
(* Flush::trees asked for.                                                 *)
(***************************************************************************)
StopsWhenStuck ==
    pc = "idle" /\ ec \in {"ok", "need_buffers"} /\ mode_ # "BAD" =>
        \/ next_in = in_last \/ avail_out = 0
        \/ flush \in {"block", "trees"} /\ mode_ \in {"TYPE", "LEN_", "COPY_"}

\* What may be accepted: checksums count if they are compared, the window if it is reached into.
Valid ==
    /\ SoundHead(stream, capacity) \/ (~verify /\ stream.head.error = "header_crc_mismatch")
    /\ \A i \in 1 .. Len(stream.items) :
            SoundItem(stream.items[i], stream.text[i], Len(Text(stream)))
    /\ verify => stream.check

\* A gzip stream with checksums is refused whatever it holds: see SameCheck.
D == INSTANCE Decoder WITH
        text   <- Text(stream),
        sound  <- Sound(stream, capacity) /\ ~(wrap_ = "gzip" /\ verify),
        valid  <- Valid,
        given  <- output,
        status <- IF mode_ = "BAD" THEN "failed" ELSE IF mode_ = "DONE" THEN "ended" ELSE "open"

(***************************************************************************)
(* inflate_stream keeps the promise of Decoder: however input and output   *)
(* are cut, the caller gets the text in order, the end is reported when    *)
(* all of it is there, and an error is final and only for a bad stream.    *)
(***************************************************************************)
IsDecoder == D!Decodes

(***************************************************************************)
(* A caller who goes on offering input and space gets to the end of the    *)
(* stream or to its error, with every flush value, on a zlib stream and on *)
(* a raw one that is followed by more input.                               *)
(***************************************************************************)
Finishes == []<>(mode_ \in {"DONE", "BAD"})

(***************************************************************************)
(* A sound stream is never refused, as the documentation says of write():  *)
(* an error is for input that does not conform or whose check value is     *)
(* incorrect (inflate_stream.hpp).                                         *)
(***************************************************************************)
SoundStreamAccepted == Sound(stream, capacity) => mode_ # "BAD"
=============================================================================
