--------------------------- MODULE DeflateStream ---------------------------
(***************************************************************************)
(* The compressor of include/boost/deflate/detail/deflate_stream.ipp as a  *)
(* resumable state machine: what one call of write() or params() does, step *)
(* by step, for every amount of input and output space the caller offers.  *)
(*                                                                         *)
(* Bytes are not modelled, their positions are: `base' is the number of    *)
(* bytes the window has slid past, so the byte at window index i is byte   *)
(* base + i of the input.  A block is a number of output bytes and the     *)
(* stretch of input it stands for.                                         *)
(***************************************************************************)
EXTENDS Integers, FiniteSets

CONSTANTS
    w_size,       \* size of the history, 2^windowBits; the window is twice that
    max_match,    \* longest match, 258 in the code
    lit_bufsize,  \* a block ends when it holds lit_bufsize-1 symbols
    BlockBytes,   \* output bytes one block, marker or trailer may take
    wrap,         \* "none", "zlib" or "gzip"
    Levels,       \* functions of get_config(level): "stored", "fast", "slow"
    Strategies,   \* "normal" (also filtered and fixed), "rle", "huffman"
    Flushes,      \* values of Flush the caller uses
    InSizes,      \* bytes of new input a call may offer
    OutSizes,     \* avail_out of a call of write
    ParamsOut,    \* avail_out of a call of params; {} if params is never called
    PrimeBytes,   \* bytes a call of prime completes; {} if prime is never called
    MaxInput      \* bound: bytes of input a behaviour offers in all

min_match      == 3
kmin_lookahead == max_match + min_match + 1
kwin_init_short == max_match - 1
kwin_init      == max_match
max_dist_no_lookahead == w_size - min_match
max_dist       == w_size - kmin_lookahead
window_size    == 2 * w_size
pending_buf_size == 4 * lit_bufsize

Min2(a, b) == IF a <= b THEN a ELSE b
Max2(a, b) == IF a >= b THEN a ELSE b

\* The longest stored block: a 16-bit length, and 5 bytes of header with it.
max_block_size == Min2(65535, pending_buf_size - 5)

(***************************************************************************)
(* windowBits >= 9 makes w_size at least 512, above kmin_lookahead = 262;  *)
(* a block takes at least one byte (its 3 bit header, a symbol and the     *)
(* end-of-block code, or the padding of the last block).                   *)
(***************************************************************************)
ASSUME SizesAssumption ==
    /\ max_match \in Nat /\ max_match >= min_match
    /\ w_size \in Nat /\ w_size > kmin_lookahead
    /\ lit_bufsize \in Nat /\ lit_bufsize >= 3
    /\ BlockBytes \subseteq Nat \ {0}

ASSUME CallerAssumption ==
    /\ wrap \in {"none", "zlib", "gzip"}
    /\ Levels \subseteq {"stored", "fast", "slow"}
    /\ Strategies \subseteq {"normal", "rle", "huffman"}
    /\ Flushes \subseteq {"none", "block", "partial", "sync", "full", "finish", "trees"}
    /\ InSizes \subseteq Nat /\ OutSizes \subseteq Nat /\ ParamsOut \subseteq Nat
    /\ PrimeBytes \subseteq Nat
    /\ MaxInput \in Nat

\* The order of enum Flush, which the test for a repeated flush compares.
FlushRank(f) ==
    CASE f = "none" -> 0 [] f = "block" -> 1 [] f = "partial" -> 2
      [] f = "sync" -> 3 [] f = "full" -> 4 [] f = "finish" -> 5
      [] f = "trees" -> 6

VARIABLES
    pc,            \* where the call is: "idle" between calls
    flush,         \* the flush argument of the last call ("none" if it made no write)
    newParams,     \* the level and strategy params() will set when its write ends
    avail_in, avail_out, ec,          \* the caller's z_params and error_code
    status, last_flush, level, strategy,
    strstart, lookahead, block_start, insert, high_water,
    match_length, match_start, prev_length, match_available,
    last_lit,
    pending, pending_out,             \* bytes pending; offset of the first one
    \* Variables that are not in the code:
    base,          \* bytes the window has slid past
    written,       \* window indices of bytes read or zeroed since init(), or copied from such
    sent,          \* input bytes the finished blocks stand for
    covered,       \* input bytes the symbols of the current block stand for
    found,         \* the last match that was compared: where, and with what
    faithful,      \* no symbol or block stood for other bytes than it should
    closed,        \* the last block of the stream has been put
    full_mark,     \* position of the last Flush::full, where the hash table was cleared
    trailers       \* trailers put, counted up to MaxTrailers

config  == <<level, strategy>>
win     == <<strstart, lookahead, insert, high_water, base, written>>
match   == <<match_length, match_start, prev_length, match_available, found>>
block   == <<block_start, last_lit, sent, covered, faithful, closed>>
out     == <<pending, pending_out, avail_out>>
vars    == <<pc, flush, newParams, avail_in, ec, status, last_flush, config, win,
             match, block, out, full_mark, trailers>>

NoParams == [level |-> "none", strategy |-> "none"]
MaxTrailers == 2
total_in == base + strstart + lookahead

\* The compression function that doWrite dispatches to.
Func == IF strategy \in {"rle", "huffman"} THEN strategy ELSE level

\* The lookahead below which the function refills the window.
Need(f) == CASE f = "stored"  -> 2
             [] f = "huffman" -> 1
             [] f = "rle"     -> max_match + 1
             [] OTHER         -> kmin_lookahead

\* The lookahead without which the function returns when nothing is flushed.
Quota(f) == IF f = "stored" THEN 1 ELSE Need(f)

\* The top of every compression loop: refill first when the lookahead is short.
Top(look) == IF look < Need(Func) THEN "fill" ELSE "body"

\* init() and lm_init(), which run at the first call after a construction or reset.
Init ==
    /\ pc = "idle" /\ flush = "none" /\ newParams = NoParams
    /\ avail_in = 0 /\ avail_out = 0 /\ ec = "ok"
    /\ status = "BUSY" /\ last_flush = "none"
    /\ level \in Levels /\ strategy \in Strategies
    /\ strstart = 0 /\ lookahead = 0 /\ block_start = 0 /\ insert = 0
    /\ high_water = 0 /\ match_length = min_match - 1 /\ match_start = 0
    /\ prev_length = min_match - 1 /\ match_available = FALSE
    /\ last_lit = 0 /\ pending = 0 /\ pending_out = 0
    /\ base = 0 /\ written = {} /\ sent = 0 /\ covered = 0
    /\ found = [at |-> 0, src |-> 0]
    /\ faithful = TRUE /\ closed = FALSE /\ full_mark = 0 /\ trailers = 0

-----------------------------------------------------------------------------
(* The pending buffer *)

\* n bytes are put after the pending ones and as many as fit are handed over.
put_and_flush_pending(n) ==
    LET len == Min2(pending + n, avail_out)
    IN  /\ avail_out' = avail_out - len
        /\ pending' = pending + n - len
        /\ pending_out' = IF pending + n = len THEN 0 ELSE pending_out + len

(***************************************************************************)
(* The end of a call.  When params() made the call, the new level and      *)
(* strategy are set whatever it returned, and need_buffers is cleared if   *)
(* nothing is pending.                                                     *)
(***************************************************************************)
EndCall(params, e) ==
    /\ pc' = "idle"
    /\ newParams' = NoParams
    /\ IF params = NoParams
       THEN ec' = e /\ UNCHANGED config
       ELSE /\ ec' = IF e = "need_buffers" /\ pending' = 0 THEN "ok" ELSE e
            /\ level' = params.level
            /\ strategy' = params.strategy

Return(e) == EndCall(newParams, e)

Continue(label) == pc' = label /\ UNCHANGED <<newParams, ec, config>>

\* A return without an error: with no output space left, the next call with the
\* same flush is no repetition.
ReturnOk_keeps_flush == last_flush' = last_flush /\ Return("ok")

ReturnOk ==
    /\ last_flush' = IF avail_out' = 0 THEN "unset" ELSE last_flush
    /\ Return("ok")

-----------------------------------------------------------------------------
(* Blocks and symbols *)

(***************************************************************************)
(* flush_block: the input from block_start to `end' becomes one block of n *)
(* bytes.  A stored block copies it from the window, which is possible     *)
(* only while block_start is still in it, and is forced at level 0; the    *)
(* other encodings send the symbols, which stand for `cov' bytes.  `ok'    *)
(* says that the symbols were right.                                       *)
(***************************************************************************)
flush_block(end, cov, ok, last) ==
    \E n \in BlockBytes, stored \in BOOLEAN :
        /\ stored => block_start >= 0
        /\ (level = "stored" /\ block_start >= 0) => stored
        /\ put_and_flush_pending(n)
        /\ sent' = sent + (IF stored THEN end - block_start ELSE cov)
        /\ faithful' = /\ ok
                       /\ ~closed
                       /\ sent' = base + end
                       /\ stored => sent = base + block_start
        /\ block_start' = end
        /\ last_lit' = 0
        /\ covered' = 0
        /\ closed' = last

no_flush_block == UNCHANGED <<block_start, last_lit, sent, covered, closed, faithful, out>>

BlockIsFull_late(n) == n = lit_bufsize
BlockIsFull(n) == n = lit_bufsize - 1

\* tr_tally_lit and tr_tally_dist put a symbol for len bytes at window index pos,
\* and the block is flushed up to `end' when the symbol buffer is full.
tally(pos, len, genuine, end) ==
    LET ok == faithful /\ genuine /\ base + pos = sent + covered
    IN  IF BlockIsFull(last_lit + 1)
        THEN flush_block(end, covered + len, ok, FALSE)
        ELSE /\ last_lit' = last_lit + 1
             /\ covered' = covered + len
             /\ faithful' = ok
             /\ UNCHANGED <<block_start, sent, closed, out>>

-----------------------------------------------------------------------------
(* The window *)

\* The bytes the fill leaves out of the hash table, with k left out before and look to come.
InsertLeft(k, look) ==
    IF look + k < min_match THEN k ELSE Max2(0, min_match - 1 - look)

AfterFill_waits(look) ==
    IF look < Quota(Func) THEN ReturnOk
    ELSE Continue("body") /\ UNCHANGED last_flush

\* What the function does after a refill: wait for more input, end, or go on.
AfterFill(look) ==
    IF flush = "none" /\ look < Quota(Func) THEN ReturnOk
    ELSE /\ Continue(IF look = 0 THEN "tail" ELSE "body")
         /\ UNCHANGED last_flush

\* The slide copies the upper half of the window onto the lower one, all of it: also the
\* bytes at its end that were never written.
Slid(bytes) ==
    {i \in 0 .. window_size - 1 : (IF i < w_size THEN i + w_size ELSE i) \in bytes}

(***************************************************************************)
(* fill_window.  Its do-while loop is one pass: FillsOnce below says that  *)
(* the condition to repeat it never holds.                                 *)
(***************************************************************************)
fill_window ==
    /\ pc = "fill"
    /\ LET slide == IF strstart >= w_size + max_dist THEN w_size ELSE 0
           start == strstart - slide
           kept  == IF slide > 0 THEN Min2(insert, start) ELSE insert
           more  == window_size - lookahead - start
           n     == Min2(avail_in, more)
           curr  == start + lookahead + n
           ahead == Min2(curr + kwin_init, window_size)
       IN  /\ strstart' = start
           /\ block_start' = block_start - slide
           /\ match_start' = match_start - slide
           /\ base' = base + slide
           /\ avail_in' = avail_in - n
           /\ lookahead' = lookahead + n
           /\ insert' = IF avail_in = 0 THEN kept ELSE InsertLeft(kept, lookahead + n)
           /\ high_water' = Max2(high_water, ahead)
           /\ written' = (IF slide > 0 THEN Slid(written) ELSE written)
                         \cup (start + lookahead .. curr - 1)
                         \cup (Max2(high_water, curr) .. ahead - 1)
           /\ UNCHANGED avail_out
           /\ AfterFill(lookahead + n)
    /\ UNCHANGED <<flush, status, match_length, prev_length, match_available, found,
                   last_lit, sent, covered, faithful, closed, pending, pending_out,
                   full_mark, trailers>>

-----------------------------------------------------------------------------
(* Matches *)

\* Window indices of earlier strings the hash chains can lead to from strstart:
\* none is index 0, too far, or from before the last time the table was cleared.
Candidates ==
    {c \in Max2(1, strstart - max_dist) .. strstart - 1 : base + c >= full_mark}

(***************************************************************************)
(* longest_match, by its promise: a match longer than prev_length, or the  *)
(* length prev_length with match_start as it was; never over the           *)
(* lookahead.  Equal bytes at a candidate are a choice, and `found' keeps  *)
(* what was chosen.                                                        *)
(***************************************************************************)
longest_match(prev) ==
    {[len |-> Min2(prev, lookahead), start |-> match_start, found |-> found]} \cup
    {[len |-> Min2(m, lookahead), start |-> c,
      found |-> [at |-> base + strstart, src |-> base + c]] :
        m \in Max2(min_match, prev + 1) .. max_match, c \in Candidates}

CanSearch == lookahead >= min_match /\ Candidates # {}

\* A search result that is right for window index pos.
Genuine(pos, start, f) ==
    /\ f.at = base + pos /\ f.src = base + start
    /\ pos - start \in 1 .. max_dist

-----------------------------------------------------------------------------
(* One pass of the loop of each compression function *)

InBody(f) == pc = "body" /\ Func = f

\* The end of a pass: return if the block flush used up the output space, else loop.
Next_without_return(look) == Continue(Top(look)) /\ UNCHANGED last_flush

Next_or_return(look) ==
    IF avail_out' = 0 THEN ReturnOk ELSE Continue(Top(look)) /\ UNCHANGED last_flush

bodyUnchanged == UNCHANGED <<flush, status, avail_in, high_water, insert, base,
                             written, full_mark, trailers>>

StoredBlockDue_late(all, end) == end - block_start >= w_size
StoredBlockDue(all, end) ==
    all >= block_start + max_block_size \/ end - block_start >= max_dist

(* f_stored: the block ends when it fills the pending buffer, or when the   *)
(* window may have to slide.                                                *)
f_stored ==
    /\ InBody("stored")
    /\ LET all  == strstart + lookahead
           end  == Min2(all, block_start + max_block_size)
       IN  /\ strstart' = end
           /\ lookahead' = all - end
           /\ IF StoredBlockDue(all, end)
              THEN flush_block(end, covered, faithful, FALSE)
              ELSE no_flush_block
           /\ Next_or_return(all - end)
    /\ UNCHANGED match
    /\ bodyUnchanged

(* f_fast: a match is taken as soon as it is found. *)
f_fast ==
    /\ InBody("fast")
    /\ \E s \in {[len |-> match_length, start |-> match_start, found |-> found]} \cup
                (IF CanSearch THEN longest_match(prev_length) ELSE {}) :
        LET len == IF s.len >= min_match THEN s.len ELSE 1
        IN  /\ match_length' = IF s.len >= min_match THEN 0 ELSE s.len
            /\ match_start' = s.start
            /\ found' = s.found
            /\ tally(strstart, len,
                     s.len >= min_match => Genuine(strstart, s.start, s.found),
                     strstart + len)
            /\ strstart' = strstart + len
            /\ lookahead' = lookahead - len
            /\ Next_or_return(lookahead - len)
    /\ UNCHANGED <<prev_length, match_available>>
    /\ bodyUnchanged

(***************************************************************************)
(* f_slow: a match is taken unless the next byte starts a longer one, so   *)
(* that the byte before strstart may still be waiting (match_available).   *)
(* A search result of length <= 5 may be discarded (ktoo_far, filtered).   *)
(***************************************************************************)
SlowSearches ==
    {[len |-> min_match - 1, start |-> match_start, found |-> found]} \cup
    (IF CanSearch
     THEN LET S == longest_match(match_length)
          IN  S \cup {[s EXCEPT !.len = min_match - 1] : s \in {r \in S : r.len <= 5}}
     ELSE {})

f_slow ==
    /\ InBody("slow")
    /\ \E s \in SlowSearches :
        /\ match_start' = s.start
        /\ found' = s.found
        /\ \/ /\ match_length >= min_match /\ s.len <= match_length
              /\ tally(strstart - 1, match_length,
                       Genuine(strstart - 1, match_start, found),
                       strstart + match_length - 1)
              /\ strstart' = strstart + match_length - 1
              /\ lookahead' = lookahead - (match_length - 1)
              /\ match_length' = min_match - 1
              /\ prev_length' = 0
              /\ match_available' = FALSE
           \/ /\ ~(match_length >= min_match /\ s.len <= match_length)
              /\ IF match_available
                 THEN tally(strstart - 1, 1, TRUE, strstart)
                 ELSE no_flush_block
              /\ strstart' = strstart + 1
              /\ lookahead' = lookahead - 1
              /\ match_length' = s.len
              /\ prev_length' = match_length
              /\ match_available' = TRUE
        /\ Next_or_return(lookahead')
    /\ bodyUnchanged

(* f_rle: a run of the byte before strstart is a match at distance one.     *)
f_rle ==
    /\ InBody("rle")
    /\ \E len \in {1} \cup
                  (IF strstart > 0 THEN min_match .. Min2(max_match, lookahead) ELSE {}) :
        /\ tally(strstart, len, TRUE, strstart + len)
        /\ found' = IF len > 1 THEN [at |-> base + strstart, src |-> base + strstart - 1]
                    ELSE found
        /\ match_length' = 0
        /\ strstart' = strstart + len
        /\ lookahead' = lookahead - len
        /\ Next_or_return(lookahead - len)
    /\ UNCHANGED <<match_start, prev_length, match_available>>
    /\ bodyUnchanged

(* f_huff: a literal. *)
f_huff ==
    /\ InBody("huffman")
    /\ tally(strstart, 1, TRUE, strstart + 1)
    /\ match_length' = 0
    /\ strstart' = strstart + 1
    /\ lookahead' = lookahead - 1
    /\ Next_or_return(lookahead - 1)
    /\ UNCHANGED <<match_start, prev_length, match_available, found>>
    /\ bodyUnchanged

-----------------------------------------------------------------------------
(* The end of a compression function, when the input is used up and a flush was asked for *)

\* The literal that f_slow still holds back, tallied without looking at its flag.
waiting_lost == 0
waiting == IF Func = "slow" /\ match_available THEN 1 ELSE 0

finish_block ==
    /\ pc = "tail"
    /\ insert' = IF Func \in {"fast", "slow"} THEN Min2(strstart, min_match - 1) ELSE 0
    /\ match_available' = IF Func = "slow" THEN FALSE ELSE match_available
    /\ LET ok    == faithful /\ (waiting = 1 => base + strstart - 1 = sent + covered)
           some  == IF Func = "stored" THEN strstart > block_start ELSE last_lit + waiting > 0
       IN  \/ /\ flush = "finish"
              /\ flush_block(strstart, covered + waiting, ok, TRUE)
              /\ status' = "FINISH"
              /\ IF avail_out' = 0 THEN ReturnOk
                 ELSE Continue("trailer") /\ UNCHANGED last_flush
           \/ /\ flush # "finish"
              /\ UNCHANGED status
              /\ IF some THEN flush_block(strstart, covered + waiting, ok, FALSE)
                 ELSE no_flush_block
              /\ IF avail_out' = 0 THEN ReturnOk
                 ELSE Continue("block_done") /\ UNCHANGED last_flush
    /\ UNCHANGED <<flush, avail_in, strstart, lookahead, high_water, base, written,
                   match_length, match_start, prev_length, found, full_mark, trailers>>

forget_hash_only == insert' = 0 /\ UNCHANGED <<strstart, block_start, base>>

forget_history ==
    /\ strstart' = 0 /\ block_start' = 0 /\ insert' = 0
    /\ base' = base + strstart

\* doWrite after block_done: the marker of the flush, and for Flush::full no more history.
block_done ==
    /\ pc = "block_done"
    /\ \E n \in BlockBytes :
        put_and_flush_pending(IF flush = "block" THEN 0 ELSE n)
    /\ faithful' = (faithful /\ ~closed)
    /\ IF flush = "full" /\ lookahead = 0
       THEN forget_history
       ELSE UNCHANGED <<strstart, block_start, insert, base>>
    /\ full_mark' = IF flush = "full" THEN base + strstart ELSE full_mark
    /\ ReturnOk
    /\ UNCHANGED <<flush, avail_in, status, lookahead, high_water, written, match, last_lit,
                   sent, covered, closed, trailers>>

TrailerResult_early == "end_of_stream"
TrailerResult == IF pending' = 0 THEN "end_of_stream" ELSE "ok"

\* The end of doWrite for Flush::finish: the trailer, if the format has one.
trailer ==
    /\ pc = "trailer"
    /\ IF wrap = "none"
       THEN UNCHANGED <<out, trailers>> /\ Return("end_of_stream")
       ELSE /\ \E n \in BlockBytes : put_and_flush_pending(n)
            /\ trailers' = Min2(trailers + 1, MaxTrailers)
            /\ Return(TrailerResult)
    /\ UNCHANGED <<flush, avail_in, status, last_flush, win, match, block, full_mark>>

-----------------------------------------------------------------------------
(* The calls *)

unchangedByEntry == UNCHANGED <<status, win, match, block, full_mark, trailers>>

(***************************************************************************)
(* doWrite up to the compression function, for a caller that offers `more' *)
(* new bytes, `space' bytes of output and a cleared error_code.            *)
(***************************************************************************)
doWrite(f, more, space, params) ==
    LET len  == Min2(pending, space)
        fed  == avail_in + more
        busy == fed # 0 \/ lookahead # 0 \/ (f # "none" /\ status # "FINISH")
        enter(label) == /\ pc' = label /\ newParams' = params /\ ec' = "ok"
                        /\ UNCHANGED config
        leave(e)     == EndCall(params, e)
    IN  /\ flush' = f
        /\ avail_in' = fed
        /\ unchangedByEntry
        /\ IF status = "FINISH" /\ f # "finish" THEN
                /\ avail_out' = space /\ UNCHANGED <<pending, pending_out, last_flush>>
                /\ leave("stream_error")
           ELSE IF space = 0 THEN
                /\ avail_out' = space /\ UNCHANGED <<pending, pending_out, last_flush>>
                /\ leave("need_buffers")
           ELSE /\ avail_out' = space - len
                /\ pending' = pending - len
                /\ pending_out' = IF pending = len THEN 0 ELSE pending_out + len
                /\ IF pending # 0 /\ space = len THEN
                        last_flush' = "unset" /\ leave("ok")
                   ELSE /\ last_flush' = f
                        /\ IF \/ /\ pending = 0 /\ fed = 0 /\ f # "finish"
                                 /\ last_flush # "unset"
                                 /\ FlushRank(f) <= FlushRank(last_flush)
                              \/ status = "FINISH" /\ fed # 0
                           THEN leave("need_buffers")
                           ELSE IF busy THEN enter(Top(lookahead))
                           ELSE IF f = "finish" THEN enter("trailer")
                           ELSE leave("ok")

write ==
    /\ pc = "idle"
    /\ \E f \in Flushes, more \in InSizes, space \in OutSizes :
        /\ total_in + avail_in + more <= MaxInput
        /\ doWrite(f, more, space, NoParams)

ChangesFunction_by_strategy(l, s) == s # strategy
ChangesFunction(l, s) == s # strategy \/ l # level

\* doParams: the input so far is compressed with the old function if it changes.
doParams ==
    /\ pc = "idle"
    /\ \E l \in Levels, s \in Strategies, space \in ParamsOut :
        IF ChangesFunction(l, s) /\ total_in # 0
        THEN doWrite("block", 0, space, [level |-> l, strategy |-> s])
        ELSE /\ level' = l /\ strategy' = s /\ ec' = "ok" /\ avail_out' = space
             /\ flush' = "none"
             /\ UNCHANGED <<pc, newParams, avail_in, last_flush, pending, pending_out>>
             /\ unchangedByEntry

\* doPrime, before the first write as its documentation requires: the bits that
\* complete bytes go to the pending buffer.
doPrime ==
    /\ pc = "idle" /\ total_in = 0 /\ pending = 0 /\ ~closed
    /\ \E n \in PrimeBytes : pending' = n
    /\ ec' = "ok" /\ flush' = "none"
    /\ UNCHANGED <<pc, newParams, avail_in, avail_out, last_flush, config, pending_out>>
    /\ unchangedByEntry

(***************************************************************************)
(* doReset and doClear: the next call starts afresh, whatever was pending. *)
(* match_start_ alone is not initialised; it is not read before a match,   *)
(* so its value after a reset stands for any.                              *)
(***************************************************************************)
doReset ==
    /\ pc = "idle"
    /\ pc' = "idle" /\ flush' = "none" /\ newParams' = NoParams
    /\ avail_in' = 0 /\ avail_out' = 0 /\ ec' = "ok"
    /\ status' = "BUSY" /\ last_flush' = "none"
    /\ level' \in Levels /\ strategy' \in Strategies
    /\ strstart' = 0 /\ lookahead' = 0 /\ block_start' = 0 /\ insert' = 0
    /\ high_water' = 0 /\ match_length' = min_match - 1 /\ match_start' = 0
    /\ prev_length' = min_match - 1 /\ match_available' = FALSE
    /\ last_lit' = 0 /\ pending' = 0 /\ pending_out' = 0
    /\ base' = 0 /\ written' = {} /\ sent' = 0 /\ covered' = 0
    /\ found' = [at |-> 0, src |-> 0]
    /\ faithful' = TRUE /\ closed' = FALSE /\ full_mark' = 0 /\ trailers' = 0

Inside ==
    \/ fill_window
    \/ f_stored \/ f_fast \/ f_slow \/ f_rle \/ f_huff
    \/ finish_block \/ block_done \/ trailer

Next == write \/ doParams \/ doPrime \/ doReset \/ Inside

Spec == Init /\ [][Next]_vars

-----------------------------------------------------------------------------
(* The caller that finishes or flushes, repeating the call until it is done *)

\* "This function must be called again with [the same flush] and more output
\* space but no more input data".
again ==
    /\ pc = "idle" /\ ec \in {"ok", "need_buffers"} /\ flush # "none"
    /\ \E space \in OutSizes \ {0} : doWrite(flush, 0, space, NoParams)

\* After an incomplete flush the caller only repeats it; after the end it stops.
Repeating ==
    flush = "finish" \/ (flush # "none" /\ ec = "ok" /\ avail_out = 0)

CooperativeNext == Inside \/ again \/ (~Repeating /\ write)

(***************************************************************************)
(* Fairness: a call runs to its end, since write() has no blocking step;   *)
(* and the caller, who wants the flush done, does repeat it.               *)
(***************************************************************************)
CooperativeSpec ==
    Init /\ [][CooperativeNext]_vars /\ WF_vars(Inside) /\ WF_vars(Repeating /\ again)

-----------------------------------------------------------------------------
(* Properties *)

Hashing == Func \in {"fast", "slow"}

\* The window slides when at most kmin_lookahead - max_match bytes at its end are unwritten.
CopiedUnwritten(i) == i \in w_size - (kmin_lookahead - max_match) .. w_size - 1

(***************************************************************************)
(* Every variable has its type, and the window's positions are in order.   *)
(***************************************************************************)
TypeOK ==
    /\ pc \in {"idle", "fill", "body", "tail", "block_done", "trailer"}
    /\ flush \in Flushes \cup {"none", "block"}
    /\ newParams \in [level : Levels, strategy : Strategies] \cup {NoParams}
    /\ avail_in \in Nat /\ avail_out \in Nat
    /\ ec \in {"ok", "need_buffers", "stream_error", "end_of_stream"}
    /\ status \in {"BUSY", "FINISH"}
    /\ last_flush \in Flushes \cup {"none", "block", "unset"}
    /\ level \in Levels /\ strategy \in Strategies
    /\ strstart \in 0 .. window_size /\ lookahead \in 0 .. window_size
    /\ block_start \in Int /\ insert \in 0 .. min_match - 1
    /\ high_water \in 0 .. window_size /\ written \subseteq 0 .. window_size - 1
    /\ match_length \in 0 .. max_match /\ prev_length \in 0 .. max_match
    /\ match_start \in Int /\ match_available \in BOOLEAN
    /\ last_lit \in 0 .. lit_bufsize - 2
    /\ pending \in Nat /\ pending_out \in Nat
    /\ base \in Nat /\ sent \in Nat /\ covered \in Nat
    /\ found \in [at : Nat, src : Nat]
    /\ faithful \in BOOLEAN /\ closed \in BOOLEAN
    /\ full_mark \in Nat /\ trailers \in 0 .. MaxTrailers

(***************************************************************************)
(* put_byte writes at pending_buf_[pending_] while flush_pending reads at  *)
(* pending_out_: the two agree only if every put finds an empty buffer.    *)
(* Each step inside a call may put, and each finds it so, with room left.  *)
(***************************************************************************)
PutsFindEmptyBuffer ==
    /\ pc # "idle" => pending = 0 /\ avail_out > 0
    /\ pending = 0 => pending_out = 0

(***************************************************************************)
(* Decoding what was put gives back the input: every symbol stands for the *)
(* bytes that follow those of the symbol before it, a match copies the     *)
(* string it was compared with, at most max_dist back, a stored block is   *)
(* still in the window, and no block follows the last one.                 *)
(***************************************************************************)
Lossless ==
    /\ faithful
    /\ sent = base + block_start
    /\ pc = "idle" /\ ec = "end_of_stream" => sent = total_in

(***************************************************************************)
(* longest_match and f_rle compare up to max_match bytes past strstart,    *)
(* whatever the lookahead is: in the window (the BOOST_ASSERTs on          *)
(* strstart_ and scan), and in bytes that were written or zeroed, but for  *)
(* bytes past the lookahead among the last four of the lower half, which a *)
(* slide may have copied from where nothing was ever written.              *)
(***************************************************************************)
SearchStaysInWindow ==
    pc = "body" /\ (Hashing \/ Func = "rle") =>
        /\ Hashing => strstart <= window_size - kmin_lookahead
        /\ strstart + max_match < window_size
        /\ \A i \in 0 .. strstart + max_match :
              i \in written \/ (i >= strstart + lookahead /\ CopiedUnwritten(i))

(***************************************************************************)
(* fill_window's comments: when there is input there is room for two bytes *)
(* ("in all cases, more >= 2"), one pass either takes all input or leaves  *)
(* enough lookahead, and the first string to hash is in the window.        *)
(***************************************************************************)
FillsOnce ==
    pc = "fill" =>
        LET slide == IF strstart >= w_size + max_dist THEN w_size ELSE 0
            more  == window_size - lookahead - strstart + slide
        IN  /\ more >= 2
            /\ avail_in <= more \/ lookahead + more >= kmin_lookahead
            /\ insert <= strstart

(***************************************************************************)
(* f_stored's assertions: the unsent bytes are in the window, also after   *)
(* the slide that a refill may do; and its note that a stored block fits   *)
(* the pending buffer and its 16-bit length.                               *)
(***************************************************************************)
StoredBlockInWindow ==
    Func = "stored" =>
        /\ pc = "fill" => strstart < w_size + max_dist \/ block_start >= w_size
        /\ pc \in {"body", "tail"} => block_start >= 0
        /\ pc # "idle" => strstart - block_start < max_block_size

(***************************************************************************)
(* A call with a flush that returns without an error and with output space *)
(* left has taken all input and delivered it; and one that is refused as a *)
(* repetition has nothing left to deliver.                                 *)
(***************************************************************************)
FlushDelivers ==
    pc = "idle" /\ flush # "none" /\ avail_out > 0 /\ status = "BUSY"
    /\ ec \in {"ok", "need_buffers"} =>
        /\ avail_in = 0 /\ lookahead = 0 /\ pending = 0
        /\ sent = total_in

(***************************************************************************)
(* end_of_stream is reported only when the last block was put and all of   *)
(* the output, with the trailer, was handed over.                          *)
(***************************************************************************)
EndIsEnd ==
    pc = "idle" /\ ec = "end_of_stream" =>
        closed /\ pending = 0 /\ avail_in = 0 /\ (wrap # "none" => trailers > 0)

(***************************************************************************)
(* "Decompression can restart from this point": no match found after a     *)
(* Flush::full copies bytes from before it.                                *)
(***************************************************************************)
FullFlushIsolates == found.at >= full_mark => found.src >= full_mark

(***************************************************************************)
(* "write the trailer only once!"                                          *)
(***************************************************************************)
TrailerOnce == trailers <= 1

(***************************************************************************)
(* A finished stream ends: the caller who keeps calling with Flush::finish *)
(* and output space is told end_of_stream.                                 *)
(***************************************************************************)
FinishEnds == flush = "finish" ~> pc = "idle" /\ ec = "end_of_stream"

(***************************************************************************)
(* A flush ends: the caller who repeats it with room for its marker gets   *)
(* everything that the flush was to deliver.                               *)
(***************************************************************************)
FlushEnds ==
    pc # "idle" /\ flush \notin {"none", "finish"}
        ~> pc = "idle" /\ pending = 0 /\ avail_in = 0 /\ sent = total_in

(***************************************************************************)
(* The compressor is a pipe: what the stream has read is accepted, what    *)
(* its finished blocks stand for is encoded.                               *)
(***************************************************************************)
SP == INSTANCE StreamPipe WITH accepted <- total_in, encoded <- sent, closed <- closed

IsPipe == SP!Pipe
============================================================================
