------------------------ MODULE DeflateStreamProofs ------------------------
(***************************************************************************)
(* The safety of DeflateStream for every size of window, of symbol buffer  *)
(* and of the caller's buffers, when params() is not called: each step     *)
(* keeps IInv of DeflateStreamInv.                                         *)
(***************************************************************************)
EXTENDS DeflateStreamInv, TLAPS

\* What the sizes guarantee.
LEMMA Sizes ==
    /\ max_match \in Nat /\ max_match >= 3
    /\ kmin_lookahead = max_match + 4 /\ kwin_init = max_match
    /\ w_size \in Nat /\ max_dist \in Nat /\ max_dist >= 1
    /\ w_size = max_dist + max_match + 4
    /\ window_size = 2 * w_size
    /\ lit_bufsize \in Nat /\ lit_bufsize >= 3
    /\ max_block_size \in Nat /\ max_block_size >= 1
  BY SizesAssumption DEF kmin_lookahead, kwin_init, max_dist, window_size, min_match,
     max_block_size, pending_buf_size, Min2

\* How much lookahead each function needs for a pass.
LEMMA NeedBounds ==
    ASSUME NEW f
    PROVE  /\ Need(f) \in Nat /\ Need(f) >= 1 /\ Need(f) <= kmin_lookahead
           /\ f \in {"fast", "slow"} => Need(f) = kmin_lookahead
           /\ f = "rle" => Need(f) = max_match + 1
  BY Sizes DEF Need

\* n bytes put after the pending ones: nothing stays pending unless the output is full.
LEMMA PutFacts ==
    ASSUME TypeOK, PutsFindEmptyBuffer, NEW n \in Nat, put_and_flush_pending(n)
    PROVE  /\ avail_out' \in Nat /\ pending' \in Nat /\ pending_out' \in Nat
           /\ avail_out' > 0 => pending' = 0
           /\ pending' = 0 => pending_out' = 0
  BY DEF TypeOK, PutsFindEmptyBuffer, put_and_flush_pending, Min2

\* A block whose symbols are right, or that is stored, ends where the input has got to.
LEMMA FlushBlockFacts ==
    ASSUME TypeOK, PutsFindEmptyBuffer, BlockInv, ~closed,
           NEW end \in Int, NEW cov \in Nat, NEW last \in BOOLEAN,
           NEW ok \in BOOLEAN, ok, end >= block_start, base + end >= 0,
           \/ sent + cov = base + end
           \/ level = "stored" /\ block_start >= 0,
           flush_block(end, cov, ok, last)
    PROVE  /\ faithful' = TRUE /\ sent' \in Nat /\ sent' = base + end
           /\ block_start' = end /\ last_lit' = 0 /\ covered' = 0 /\ closed' = last
           /\ avail_out' \in Nat /\ pending' \in Nat /\ pending_out' \in Nat
           /\ avail_out' > 0 => pending' = 0
           /\ pending' = 0 => pending_out' = 0
  <1>1. PICK n \in BlockBytes, stored \in BOOLEAN :
            /\ (level = "stored" /\ block_start >= 0) => stored
            /\ put_and_flush_pending(n)
            /\ sent' = sent + (IF stored THEN end - block_start ELSE cov)
            /\ faithful' = /\ ok
                           /\ ~closed
                           /\ sent' = base + end
                           /\ stored => sent = base + block_start
            /\ block_start' = end
            /\ last_lit' = 0 /\ covered' = 0 /\ closed' = last
    BY DEF flush_block
  <1>2. n \in Nat
    BY SizesAssumption
  <1>3. /\ avail_out' \in Nat /\ pending' \in Nat /\ pending_out' \in Nat
        /\ avail_out' > 0 => pending' = 0
        /\ pending' = 0 => pending_out' = 0
    BY <1>1, <1>2, PutFacts
  <1>4. sent = base + block_start /\ base \in Nat /\ sent \in Nat /\ block_start \in Int
    BY DEF BlockInv, TypeOK
  <1>5. sent' = base + end
    BY <1>1, <1>4
  <1>6. faithful' = TRUE
    BY <1>1, <1>4, <1>5
  <1> QED
    BY <1>1, <1>3, <1>5, <1>6

\* A symbol that stands for the bytes after those of the symbol before it.
LEMMA TallyFacts ==
    ASSUME TypeOK, PutsFindEmptyBuffer, BlockInv, ~closed, avail_out > 0, pending = 0,
           NEW pos \in Int, NEW len \in Nat, len >= 1, NEW genuine \in BOOLEAN, genuine,
           base + pos = sent + covered,
           tally(pos, len, genuine, pos + len)
    PROVE  /\ faithful' = TRUE /\ sent' \in Nat /\ covered' \in Nat
           /\ block_start' \in Int /\ block_start' <= pos + len
           /\ sent' = base + block_start'
           /\ covered' = pos + len - block_start'
           /\ last_lit' \in 0 .. lit_bufsize - 2
           /\ last_lit' = 0 => covered' = 0
           /\ closed' = FALSE
           /\ avail_out' \in Nat /\ pending' \in Nat /\ pending_out' \in Nat
           /\ avail_out' > 0 => pending' = 0
           /\ pending' = 0 => pending_out' = 0
  <1> DEFINE ok == faithful /\ genuine /\ base + pos = sent + covered
  <1>1. /\ sent = base + block_start /\ base \in Nat /\ sent \in Nat /\ covered \in Nat
        /\ block_start \in Int /\ last_lit \in 0 .. lit_bufsize - 2 /\ lit_bufsize \in Nat
        /\ faithful = TRUE
    BY Sizes DEF BlockInv, TypeOK
  <1>2. ok = TRUE
    BY <1>1
  <1>3. CASE BlockIsFull(last_lit + 1)
    <2>1. flush_block(pos + len, covered + len, ok, FALSE)
      BY <1>3 DEF tally
    <2>2. /\ pos + len \in Int /\ covered + len \in Nat /\ pos + len >= block_start
          /\ base + (pos + len) >= 0
          /\ sent + (covered + len) = base + (pos + len)
      BY <1>1
    <2>3. /\ faithful' = TRUE /\ sent' \in Nat /\ sent' = base + (pos + len)
          /\ block_start' = pos + len /\ last_lit' = 0 /\ covered' = 0 /\ closed' = FALSE
          /\ avail_out' \in Nat /\ pending' \in Nat /\ pending_out' \in Nat
          /\ avail_out' > 0 => pending' = 0
          /\ pending' = 0 => pending_out' = 0
      <3> HIDE DEF ok
      <3> QED BY <1>2, <2>1, <2>2, FlushBlockFacts
    <2> QED BY <1>1, <2>2, <2>3, Sizes
  <1>4. CASE ~BlockIsFull(last_lit + 1)
    <2>1. /\ last_lit' = last_lit + 1 /\ covered' = covered + len /\ faithful' = ok
          /\ UNCHANGED <<block_start, sent, closed, out>>
      BY <1>4 DEF tally
    <2>2. last_lit + 1 # lit_bufsize - 1
      BY <1>4 DEF BlockIsFull
    <2>3. /\ faithful' = TRUE /\ last_lit' = last_lit + 1 /\ covered' = covered + len
          /\ block_start' = block_start /\ sent' = sent /\ closed' = FALSE
          /\ avail_out' = avail_out /\ pending' = 0 /\ pending_out' = 0
      BY <1>2, <2>1 DEF out, PutsFindEmptyBuffer, TypeOK
    <2>4. avail_out \in Nat
      BY DEF TypeOK
    <2> HIDE DEF ok
    <2> QED BY <1>1, <2>2, <2>3, <2>4
  <1> QED BY <1>3, <1>4

\* The end of a pass: the call returns without an error or goes on.
LEMMA NextFacts ==
    ASSUME TypeOK, newParams = NoParams, NEW look \in Nat, Next_or_return(look)
    PROVE  /\ newParams' = NoParams /\ UNCHANGED config
           /\ ec' \in {"ok", "need_buffers", "stream_error", "end_of_stream"}
           /\ last_flush' \in Flushes \cup {"none", "block", "unset"}
           /\ avail_out' = 0 => pc' = "idle" /\ ec' = "ok"
           /\ avail_out' # 0 => pc' = Top(look)
  BY DEF Next_or_return, ReturnOk, Return, EndCall, Continue, TypeOK

\* A refill keeps the invariant.
LEMMA FillStep ==
    ASSUME IInv, fill_window
    PROVE  IInv'
  <1> DEFINE slide == IF strstart >= w_size + max_dist THEN w_size ELSE 0
             start == strstart - slide
             kept  == IF slide > 0 THEN Min2(insert, start) ELSE insert
             more  == window_size - lookahead - start
             n     == Min2(avail_in, more)
             curr  == start + lookahead + n
             ahead == Min2(curr + kwin_init, window_size)
  <1>1. /\ pc = "fill"
        /\ strstart' = start /\ block_start' = block_start - slide
        /\ match_start' = match_start - slide /\ base' = base + slide
        /\ avail_in' = avail_in - n /\ lookahead' = lookahead + n
        /\ insert' = IF avail_in = 0 THEN kept ELSE InsertLeft(kept, lookahead + n)
        /\ high_water' = Max2(high_water, ahead)
        /\ written' = (IF slide > 0 THEN Slid(written) ELSE written)
                      \cup (start + lookahead .. curr - 1)
                      \cup (Max2(high_water, curr) .. ahead - 1)
        /\ UNCHANGED avail_out
        /\ AfterFill(lookahead + n)
        /\ UNCHANGED <<flush, status, match_length, prev_length, match_available, found,
                       last_lit, sent, covered, faithful, closed, pending, pending_out,
                       full_mark, trailers>>
    BY DEF fill_window
  <1>2. /\ strstart \in Nat /\ lookahead \in Nat /\ insert \in 0 .. 2 /\ avail_in \in Nat
        /\ high_water \in 0 .. window_size /\ block_start \in Int /\ match_start \in Int
        /\ base \in Nat /\ avail_out \in Nat
    BY DEF IInv, TypeOK, min_match
  <1>3. /\ strstart + lookahead <= high_water /\ insert <= strstart
        /\ lookahead < kmin_lookahead /\ lookahead < Need(Func)
    <2>1. Need(Func) \in Nat /\ Need(Func) <= kmin_lookahead
      BY NeedBounds
    <2>2. /\ strstart + lookahead <= high_water /\ insert <= strstart
          /\ lookahead < Need(Func)
      BY <1>1 DEF IInv, WindowInv
    <2> QED
      BY <1>2, <2>1, <2>2, Sizes
  <1>4. /\ slide \in {0, w_size} /\ start \in Nat /\ start < w_size + max_dist
        /\ kept \in 0 .. 2 /\ kept <= start
        /\ more \in Nat /\ more >= 2 /\ n \in Nat /\ n <= avail_in /\ n <= more
        /\ start + lookahead + n <= window_size
        /\ slide = w_size => strstart >= w_size + max_dist
    BY <1>2, <1>3, Sizes DEF Min2
  <1>5. /\ insert' \in 0 .. 2 /\ insert' <= start
    BY <1>1, <1>2, <1>4 DEF InsertLeft, Max2, min_match
  <1>6. /\ high_water' \in 0 .. window_size
        /\ start + lookahead + n <= high_water'
        /\ \/ start + lookahead + n + max_match <= high_water'
           \/ high_water' = window_size
    BY <1>1, <1>2, <1>4, Sizes DEF Max2, Min2
  <1>20. written' \subseteq 0 .. window_size - 1
    <2>1. written \subseteq 0 .. window_size - 1
      BY DEF IInv, TypeOK
    <2>2. Slid(written) \subseteq 0 .. window_size - 1
      BY DEF Slid
    <2>3. start + lookahead .. curr - 1 \subseteq 0 .. window_size - 1
      BY <1>2, <1>4, Sizes
    <2>4. Max2(high_water, curr) .. ahead - 1 \subseteq 0 .. window_size - 1
      BY <1>2, <1>4, Sizes DEF Max2, Min2
    <2> HIDE DEF slide, start, curr, ahead
    <2> QED BY <1>1, <2>1, <2>2, <2>3, <2>4
  <1> HIDE DEF slide, start, kept, more, n, curr, ahead
  <1>7. /\ newParams' = NoParams /\ UNCHANGED config
        /\ \/ /\ pc' = "idle" /\ ec' = "ok"
              /\ last_flush' \in Flushes \cup {"none", "block", "unset"}
           \/ /\ pc' = (IF lookahead + n = 0 THEN "tail" ELSE "body")
              /\ UNCHANGED <<ec, last_flush>>
    BY <1>1 DEF AfterFill, ReturnOk, Return, EndCall, Continue, IInv, TypeOK
  <1>8. Func' = Func
    BY <1>7 DEF Func, config
  <1>9. TypeOK'
    <2>1. sent = base + block_start
      BY DEF IInv, BlockInv
    <2> QED
      BY <1>1, <1>2, <1>4, <1>5, <1>6, <1>7, <1>20, Sizes
         DEF IInv, TypeOK, min_match, config
  <1>10. PutsFindEmptyBuffer'
    BY <1>1, <1>7 DEF IInv, PutsFindEmptyBuffer
  <1>11. WindowInv'
    BY <1>1, <1>2, <1>4, <1>5, <1>6, <1>7, <1>8 DEF WindowInv
  <1>12. BlockInv'
    <2>1. waiting' = waiting
      BY <1>1, <1>8 DEF waiting
    <2>2. Func = "stored" => /\ block_start >= 0 /\ strstart - block_start < max_dist
      BY DEF IInv, BlockInv
    <2>3. Func = "stored" => block_start' >= 0
      BY <1>1, <1>2, <1>4, <2>2, Sizes
    <2>4. /\ strstart' = strstart - slide /\ block_start' = block_start - slide
          /\ base' = base + slide /\ slide \in Int
      BY <1>1, <1>4, Sizes DEF start
    <2>5. pc' # "block_done"
      BY <1>7
    <2>6. /\ faithful' = faithful /\ sent' = sent /\ last_lit' = last_lit /\ covered' = covered
      BY <1>1
    <2>7. covered \in Nat /\ sent \in Nat
      BY DEF IInv, TypeOK
    <2>8. strstart' \in Int /\ block_start' \in Int /\ base' \in Int /\ waiting \in Int
      BY <1>9, Sizes DEF TypeOK, waiting
    <2>9. BlockInv /\ strstart \in Int /\ base \in Int /\ block_start \in Int
      BY <1>2 DEF IInv
    <2>10. /\ faithful' /\ (last_lit' = 0 => covered' = 0)
           /\ sent' = base' + block_start' /\ block_start' <= strstart'
      <3>1. sent = base + block_start /\ block_start <= strstart
        BY <2>9 DEF BlockInv
      <3>2. faithful /\ (last_lit = 0 => covered = 0)
        BY <2>9 DEF BlockInv
      <3>3. strstart \in Int /\ base \in Int /\ block_start \in Int
        BY <2>9
      <3>4. sent' = sent
        BY <2>6
      <3>5. sent' = base' + block_start' /\ block_start' <= strstart'
        BY <3>1, <2>4, <3>4, <2>8, <3>3
      <3> QED BY <3>2, <3>5, <2>6
    <2>11. CASE Func = "stored"
      <3>1. /\ covered' = 0 /\ last_lit' = 0 /\ block_start' >= 0
        BY <2>3, <2>6, <2>9, <2>11 DEF BlockInv
      <3>2. strstart' - block_start' < max_dist
        BY <2>4, <2>9, <2>11 DEF BlockInv
      <3>3. strstart' - block_start' < max_block_size
        BY <2>4, <2>9, <2>11 DEF BlockInv
      <3> QED BY <1>8, <2>5, <2>10, <2>11, <3>1, <3>2, <3>3 DEF BlockInv
    <2>12. CASE Func # "stored"
      <3>1. strstart - waiting = block_start + covered
        BY <2>9, <2>12 DEF BlockInv
      <3>2. strstart' - waiting' = block_start' + covered'
        BY <2>1, <2>4, <2>6, <2>7, <2>8, <2>9, <3>1
      <3> QED BY <1>8, <2>5, <2>10, <2>12, <3>2 DEF BlockInv
    <2> QED
      BY <2>11, <2>12
  <1>13. MatchInv'
    <2>1. match_available => strstart' >= 1
      BY <1>1, <1>2, <1>4, Sizes DEF IInv, MatchInv, start
    <2>2. ASSUME Genuine(strstart - 1, match_start, found)
          PROVE  Genuine(strstart - 1, match_start, found)'
      <3>1. /\ strstart' - 1 - match_start' = strstart - 1 - match_start
            /\ base' + (strstart' - 1) = base + (strstart - 1)
            /\ base' + match_start' = base + match_start
        BY <1>1, <1>2, <1>4, Sizes DEF start
      <3>2. found' = found
        BY <1>1
      <3> QED
        BY <2>2, <3>1, <3>2 DEF Genuine
    <2>3. lookahead' = lookahead + n /\ n \in Nat /\ lookahead \in Nat
      BY <1>1, <1>2, <1>4
    <2>4. /\ match_length' = match_length /\ prev_length' = prev_length
          /\ match_available' = match_available /\ match_length \in Nat
      BY <1>1, Sizes DEF IInv, TypeOK
    <2>5. MatchInv
      BY DEF IInv
    <2>6. match_available' => Func' = "slow" /\ strstart' >= 1
      BY <1>8, <2>1, <2>4, <2>5 DEF MatchInv
    <2>7. Func' = "fast" => match_length' < min_match /\ prev_length' < min_match
      BY <1>8, <2>4, <2>5 DEF MatchInv
    <2>8. ASSUME Func' = "slow", match_length' >= min_match
          PROVE  /\ match_available' /\ match_length' <= lookahead' + 1
                 /\ Genuine(strstart - 1, match_start, found)'
      <3>1. match_available /\ Genuine(strstart - 1, match_start, found)
        BY <1>8, <2>4, <2>5, <2>8 DEF MatchInv
      <3>2. match_length <= lookahead + 1
        BY <1>8, <2>4, <2>5, <2>8 DEF MatchInv
      <3>3. match_length' <= lookahead' + 1
        <4>1. match_length' = match_length /\ match_length \in Nat
          BY <2>4
        <4> QED BY <2>3, <3>2, <4>1
      <3> QED
        BY <2>2, <2>4, <3>1, <3>3
    <2> QED
      BY <2>6, <2>7, <2>8 DEF MatchInv
  <1>14. FullMarkInv'
    BY <1>1, <1>2, <1>4, Sizes DEF IInv, TypeOK, FullMarkInv, start
  <1>15. EndInv'
    BY <1>1, <1>7 DEF IInv, EndInv
  <1> QED
    BY <1>7, <1>9, <1>10, <1>11, <1>12, <1>13, <1>14, <1>15 DEF IInv

-----------------------------------------------------------------------------
(* One pass of a compression function *)

\* The numbers a pass starts from.
LEMMA BodyTypes ==
    ASSUME TypeOK
    PROVE  /\ strstart \in Nat /\ lookahead \in Nat /\ block_start \in Int /\ base \in Nat
           /\ sent \in Nat /\ covered \in Nat /\ match_start \in Int /\ full_mark \in Nat
           /\ high_water \in Nat /\ high_water <= window_size /\ insert \in Nat
           /\ match_length \in Nat /\ match_length <= max_match
           /\ prev_length \in Nat /\ prev_length <= max_match
           /\ avail_out \in Nat /\ pending \in Nat
  BY Sizes DEF TypeOK, min_match

\* What every pass that takes len bytes of the lookahead leaves true.
LEMMA PassStep ==
    ASSUME IInv, pc = "body", bodyUnchanged,
           NEW len \in Nat, len >= 1, len <= lookahead,
           strstart' = strstart + len, lookahead' = lookahead - len,
           NEW look \in Nat, look = lookahead - len, Next_or_return(look),
           closed' = FALSE, avail_out' \in Nat,
           avail_out' > 0 => pending' = 0, pending' = 0 => pending_out' = 0
    PROVE  /\ newParams' = NoParams /\ UNCHANGED config /\ Func' = Func
           /\ pc' \in {"idle", "fill", "body"}
           /\ ec' \in {"ok", "need_buffers", "stream_error", "end_of_stream"}
           /\ last_flush' \in Flushes \cup {"none", "block", "unset"}
           /\ strstart' \in 0 .. window_size /\ lookahead' \in 0 .. window_size
           /\ PutsFindEmptyBuffer' /\ WindowInv' /\ EndInv'
  <1>1. /\ newParams' = NoParams /\ UNCHANGED config
        /\ ec' \in {"ok", "need_buffers", "stream_error", "end_of_stream"}
        /\ last_flush' \in Flushes \cup {"none", "block", "unset"}
        /\ avail_out' = 0 => pc' = "idle" /\ ec' = "ok"
        /\ avail_out' # 0 => pc' = Top(look)
    BY NextFacts DEF IInv
  <1>2. Func' = Func
    BY <1>1 DEF Func, config
  <1>3. Top(look) \in {"fill", "body"}
    BY DEF Top
  <1>4. pc' \in {"idle", "fill", "body"}
    BY <1>1, <1>3
  <1>5. PutsFindEmptyBuffer'
    BY <1>1 DEF PutsFindEmptyBuffer
  <1>6. /\ strstart \in Nat /\ lookahead \in Nat /\ high_water \in Nat
        /\ high_water <= window_size /\ insert \in Nat
    BY BodyTypes DEF IInv
  <1>7. strstart + lookahead <= high_water /\ insert <= strstart
    BY DEF IInv, WindowInv
  <1>8. high_water' = high_water /\ insert' = insert
    BY DEF bodyUnchanged
  <1>9. strstart' \in 0 .. window_size /\ lookahead' \in 0 .. window_size
    BY <1>6, <1>7, Sizes
  <1>10. WindowInv'
    <2>1. strstart' + lookahead' <= high_water' /\ insert' <= strstart'
      BY <1>6, <1>7, <1>8
    <2>2. pc' = "fill" => lookahead' < Need(Func')
      BY <1>1, <1>2 DEF Top
    <2>3. Need(Func) \in Nat /\ Need(Func) >= 1
      BY NeedBounds
    <2>4. pc' = "body" => lookahead' >= 1 /\ lookahead' >= Need(Func')
      <3> SUFFICES ASSUME pc' = "body" PROVE look >= 1 /\ look >= Need(Func)
        BY <1>2
      <3>1. ~(look < Need(Func))
        BY <1>1 DEF Top
      <3> QED BY <3>1, <2>3
    <2> QED BY <1>4, <2>1, <2>2, <2>4 DEF WindowInv
  <1>11. EndInv'
    <2>1. ~closed /\ status # "FINISH"
      BY DEF IInv, EndInv
    <2>2. status' = status
      BY DEF bodyUnchanged
    <2>3. pc' = "idle" => ec' = "ok"
      BY <1>1, <1>3
    <2> QED BY <1>4, <2>1, <2>2, <2>3 DEF EndInv
  <1> QED BY <1>1, <1>2, <1>4, <1>5, <1>9, <1>10, <1>11

\* What is known of the blocks and of the output when a pass starts.
LEMMA BodyBlock ==
    ASSUME IInv, pc = "body"
    PROVE  /\ ~closed /\ avail_out > 0 /\ pending = 0 /\ pending_out = 0
           /\ faithful = TRUE /\ sent = base + block_start /\ lookahead >= 1
  BY DEF IInv, EndInv, PutsFindEmptyBuffer, BlockInv, WindowInv, TypeOK

\* A block of level 0 stands for the bytes it copies.
LEMMA StoredStep ==
    ASSUME IInv, f_stored
    PROVE  IInv'
  <1> DEFINE all == strstart + lookahead
             end == Min2(all, block_start + max_block_size)
             len == end - strstart
             due == StoredBlockDue(all, end)
  <1>1. /\ pc = "body" /\ Func = "stored" /\ bodyUnchanged /\ UNCHANGED match
        /\ strstart' = end /\ lookahead' = all - end
        /\ IF due THEN flush_block(end, covered, faithful, FALSE) ELSE no_flush_block
        /\ Next_or_return(all - end)
    BY DEF f_stored, InBody
  <1>2. /\ strstart \in Nat /\ lookahead \in Nat /\ block_start \in Int /\ base \in Nat
        /\ sent \in Nat /\ covered \in Nat /\ avail_out \in Nat
    BY BodyTypes DEF IInv
  <1>3. /\ level = "stored" /\ strategy \in {"normal", "rle", "huffman"}
    BY <1>1, CallerAssumption DEF Func, IInv, TypeOK
  <1>4. /\ covered = 0 /\ last_lit = 0 /\ block_start >= 0
        /\ block_start <= strstart /\ strstart - block_start < max_block_size
    BY <1>1 DEF IInv, BlockInv
  <1>5. ~closed /\ avail_out > 0 /\ pending = 0 /\ pending_out = 0 /\ faithful = TRUE
    BY <1>1, BodyBlock
  <1>6. sent = base + block_start /\ lookahead >= 1
    BY <1>1, BodyBlock
  <1>7. /\ end \in Int /\ len \in Nat /\ len >= 1 /\ len <= lookahead /\ end >= block_start
        /\ strstart' = strstart + len /\ lookahead' = lookahead - len
        /\ all - end = lookahead - len /\ all - end \in Nat /\ base + end >= 0
        /\ ~due => end - block_start < max_dist /\ end - block_start < max_block_size
    BY <1>1, <1>2, <1>4, <1>6, Sizes DEF Min2, StoredBlockDue
  <1> HIDE DEF all, end, len, due
  <1>8. /\ faithful' = TRUE /\ last_lit' = 0 /\ covered' = 0 /\ closed' = FALSE
        /\ avail_out' \in Nat /\ pending' \in Nat /\ pending_out' \in Nat
        /\ avail_out' > 0 => pending' = 0
        /\ pending' = 0 => pending_out' = 0
        /\ sent' \in Nat /\ sent' = base + block_start'
        /\ block_start' \in Int /\ block_start' >= 0
        /\ block_start' = end \/ (block_start' = block_start /\ ~due)
    <2>1. CASE due
      <3>1. flush_block(end, covered, faithful, FALSE)
        BY <1>1, <2>1
      <3>2. TypeOK /\ PutsFindEmptyBuffer /\ BlockInv
        BY DEF IInv
      <3>3. /\ faithful' = TRUE /\ sent' \in Nat /\ sent' = base + end
            /\ block_start' = end /\ last_lit' = 0 /\ covered' = 0 /\ closed' = FALSE
            /\ avail_out' \in Nat /\ pending' \in Nat /\ pending_out' \in Nat
            /\ avail_out' > 0 => pending' = 0
            /\ pending' = 0 => pending_out' = 0
        BY <1>2, <1>3, <1>4, <1>5, <1>7, <3>1, <3>2, FlushBlockFacts
      <3> QED BY <1>2, <1>4, <1>7, <3>3
    <2>2. CASE ~due
      <3>1. no_flush_block
        BY <1>1, <2>2
      <3> QED BY <1>2, <1>4, <1>5, <1>6, <2>2, <3>1 DEF no_flush_block, out
    <2> QED BY <2>1, <2>2
  <1>9. /\ newParams' = NoParams /\ UNCHANGED config /\ Func' = Func
        /\ pc' \in {"idle", "fill", "body"}
        /\ ec' \in {"ok", "need_buffers", "stream_error", "end_of_stream"}
        /\ last_flush' \in Flushes \cup {"none", "block", "unset"}
        /\ strstart' \in 0 .. window_size /\ lookahead' \in 0 .. window_size
        /\ PutsFindEmptyBuffer' /\ WindowInv' /\ EndInv'
    BY <1>1, <1>7, <1>8, PassStep
  <1>10. TypeOK'
    <2>1. sent' \in Nat /\ covered' \in Nat /\ last_lit' \in 0 .. lit_bufsize - 2
      BY <1>8, Sizes
    <2>2. faithful' \in BOOLEAN /\ closed' \in BOOLEAN
      BY <1>8
    <2> QED BY <1>1, <1>8, <1>9, <2>1, <2>2 DEF IInv, TypeOK, bodyUnchanged, match, config
  <1>11. BlockInv'
    <2>1. /\ block_start' <= strstart' /\ strstart' - block_start' < max_dist
          /\ strstart' - block_start' < max_block_size
      <3>1. strstart' = end
        BY <1>1
      <3>2. CASE block_start' = end
        BY <1>7, <3>1, <3>2, Sizes
      <3>3. CASE block_start' = block_start /\ ~due
        BY <1>2, <1>7, <3>1, <3>3
      <3> QED BY <1>8, <3>2, <3>3
    <2>2. base' = base
      BY <1>1 DEF bodyUnchanged
    <2>3. sent' = base' + block_start'
      BY <1>8, <2>2
    <2> QED BY <1>1, <1>8, <1>9, <2>1, <2>3 DEF BlockInv
  <1>12. MatchInv'
    <2>1. match_available' = match_available /\ ~match_available
      BY <1>1 DEF IInv, MatchInv, match
    <2> QED BY <1>1, <1>9, <2>1 DEF MatchInv
  <1>13. FullMarkInv'
    <2>1. found' = found /\ base' = base /\ full_mark' = full_mark
      BY <1>1 DEF match, bodyUnchanged
    <2>2. strstart' = strstart + len /\ len \in Nat /\ found.at \in Nat
      BY <1>7 DEF IInv, TypeOK
    <2>3. found.at < base + strstart => found.at < base + strstart'
      BY <1>2, <2>2
    <2> QED BY <2>1, <2>3 DEF IInv, FullMarkInv
  <1> QED
    BY <1>9, <1>10, <1>11, <1>12, <1>13 DEF IInv

\* A symbol for the bytes that follow the last one keeps the block in step with the input.
LEMMA SymbolStep ==
    ASSUME IInv, pc = "body", Func # "stored",
           NEW pos \in Int, pos = strstart - waiting,
           NEW len \in Nat, len >= 1, NEW genuine \in BOOLEAN, genuine,
           tally(pos, len, genuine, pos + len)
    PROVE  /\ faithful' = TRUE /\ sent' \in Nat /\ covered' \in Nat
           /\ block_start' \in Int /\ block_start' <= pos + len
           /\ sent' = base + block_start'
           /\ covered' = pos + len - block_start'
           /\ last_lit' \in 0 .. lit_bufsize - 2
           /\ last_lit' = 0 => covered' = 0
           /\ closed' = FALSE
           /\ avail_out' \in Nat /\ pending' \in Nat /\ pending_out' \in Nat
           /\ avail_out' > 0 => pending' = 0
           /\ pending' = 0 => pending_out' = 0
  <1>1. TypeOK /\ PutsFindEmptyBuffer /\ BlockInv
    BY DEF IInv
  <1>2. ~closed /\ avail_out > 0 /\ pending = 0
    BY BodyBlock
  <1>3. base + pos = sent + covered
    <2>1. /\ base \in Nat /\ sent \in Nat /\ covered \in Nat /\ block_start \in Int
      BY <1>1, BodyTypes
    <2>2. sent = base + block_start /\ strstart - waiting = block_start + covered
      BY <1>1 DEF BlockInv
    <2> QED BY <2>1, <2>2
  <1> QED BY <1>1, <1>2, <1>3, TallyFacts

\* A pass of f_fast, f_rle or f_huff, which hold no byte back.
LEMMA SymbolPass ==
    ASSUME IInv, pc = "body", Func \notin {"stored", "slow"}, bodyUnchanged,
           NEW len \in Nat, len >= 1, len <= lookahead,
           NEW genuine \in BOOLEAN, genuine,
           tally(strstart, len, genuine, strstart + len),
           strstart' = strstart + len, lookahead' = lookahead - len,
           Next_or_return(lookahead - len),
           match_length' \in 0 .. max_match, Func = "fast" => match_length' < min_match,
           match_start' \in Int, UNCHANGED <<prev_length, match_available>>,
           found' \in [at : Nat, src : Nat],
           found' = found \/ (found'.at = base + strstart /\ found'.src >= full_mark)
    PROVE  IInv'
  <1>1. /\ strstart \in Nat /\ lookahead \in Nat /\ base \in Nat
        /\ lookahead - len \in Nat
    BY BodyTypes DEF IInv
  <1>2. waiting = 0 /\ strstart = strstart - waiting /\ strstart \in Int
    BY <1>1 DEF waiting
  <1>3. /\ faithful' = TRUE /\ sent' \in Nat /\ covered' \in Nat
        /\ block_start' \in Int /\ block_start' <= strstart + len
        /\ sent' = base + block_start'
        /\ covered' = strstart + len - block_start'
        /\ last_lit' \in 0 .. lit_bufsize - 2
        /\ last_lit' = 0 => covered' = 0
        /\ closed' = FALSE
        /\ avail_out' \in Nat /\ pending' \in Nat /\ pending_out' \in Nat
        /\ avail_out' > 0 => pending' = 0
        /\ pending' = 0 => pending_out' = 0
    BY <1>1, <1>2, SymbolStep
  <1>4. /\ newParams' = NoParams /\ UNCHANGED config /\ Func' = Func
        /\ pc' \in {"idle", "fill", "body"}
        /\ ec' \in {"ok", "need_buffers", "stream_error", "end_of_stream"}
        /\ last_flush' \in Flushes \cup {"none", "block", "unset"}
        /\ strstart' \in 0 .. window_size /\ lookahead' \in 0 .. window_size
        /\ PutsFindEmptyBuffer' /\ WindowInv' /\ EndInv'
    BY <1>1, <1>3, PassStep
  <1>5. TypeOK'
    <2>1. /\ faithful' \in BOOLEAN /\ closed' \in BOOLEAN
          /\ match_available' \in BOOLEAN
      BY <1>3 DEF IInv, TypeOK
    <2>2. /\ pc' \in {"idle", "fill", "body", "tail", "block_done", "trailer"}
          /\ flush' \in Flushes \cup {"none", "block"}
          /\ newParams' \in [level : Levels, strategy : Strategies] \cup {NoParams}
          /\ avail_in' \in Nat
          /\ status' \in {"BUSY", "FINISH"}
          /\ level' \in Levels /\ strategy' \in Strategies
          /\ insert' \in 0 .. min_match - 1 /\ high_water' \in 0 .. window_size
          /\ written' \subseteq 0 .. window_size - 1
          /\ prev_length' \in 0 .. max_match
          /\ base' \in Nat /\ full_mark' \in Nat /\ trailers' \in 0 .. MaxTrailers
      BY <1>4 DEF IInv, TypeOK, bodyUnchanged, config
    <2> QED BY <1>3, <1>4, <2>1, <2>2 DEF TypeOK
  <1>6. base' = base /\ full_mark' = full_mark
    BY DEF bodyUnchanged
  <1>7. BlockInv'
    <2>1. waiting' = 0
      BY <1>4 DEF waiting
    <2>2. /\ block_start' <= strstart' /\ strstart' - waiting' = block_start' + covered'
          /\ sent' = base' + block_start'
      <3>1. strstart' \in Int /\ block_start' \in Int /\ covered' = strstart' - block_start'
        BY <1>1, <1>3
      <3>2. block_start' <= strstart'
        BY <1>3
      <3>3. strstart' - waiting' = block_start' + covered'
        BY <2>1, <3>1
      <3> QED BY <1>3, <1>6, <3>2, <3>3
    <2>3. faithful' /\ (last_lit' = 0 => covered' = 0)
      BY <1>3
    <2>4. Func' # "stored" /\ pc' # "block_done"
      BY <1>4
    <2> QED BY <2>2, <2>3, <2>4 DEF BlockInv
  <1>8. MatchInv'
    <2>1. ~match_available' /\ (Func' = "fast" => prev_length' < min_match)
      BY <1>4 DEF IInv, MatchInv
    <2> QED BY <1>4, <2>1 DEF MatchInv
  <1>9. FullMarkInv'
    <2>1. found.at \in Nat /\ full_mark \in Nat /\ full_mark <= base
      BY DEF IInv, TypeOK, FullMarkInv
    <2>2. found.at < base + strstart => found.at < base + strstart'
      BY <1>1, <2>1
    <2>3. base + strstart < base + strstart'
      BY <1>1
    <2>4. found.at = 0 \/ found.at < base + strstart
      BY DEF IInv, FullMarkInv
    <2>5. found.at >= full_mark => found.src >= full_mark
      BY DEF IInv, FullMarkInv
    <2>6. found'.at = 0 \/ found'.at < base + strstart'
      <3>1. CASE found' = found
        BY <2>2, <2>4, <3>1
      <3>2. CASE found'.at = base + strstart
        BY <2>3, <3>2
      <3> QED BY <3>1, <3>2
    <2>7. found'.at >= full_mark => found'.src >= full_mark
      BY <2>5
    <2> QED BY <1>6, <2>1, <2>6, <2>7 DEF FullMarkInv
  <1> QED
    BY <1>4, <1>5, <1>7, <1>8, <1>9 DEF IInv

\* f_huff puts a literal for the next byte.
LEMMA HuffStep ==
    ASSUME IInv, f_huff
    PROVE  IInv'
  <1> DEFINE len == 1
             literal == TRUE
  <1>1. /\ pc = "body" /\ Func = "huffman" /\ bodyUnchanged
        /\ tally(strstart, len, literal, strstart + len)
        /\ match_length' = 0
        /\ strstart' = strstart + len /\ lookahead' = lookahead - len
        /\ Next_or_return(lookahead - len)
        /\ UNCHANGED <<match_start, prev_length, match_available, found>>
    BY DEF f_huff, InBody
  <1>2. len \in Nat /\ len >= 1 /\ len <= lookahead /\ literal \in BOOLEAN /\ literal
    BY <1>1, BodyTypes, BodyBlock DEF IInv
  <1>3. /\ match_start' \in Int /\ found' \in [at : Nat, src : Nat]
        /\ match_length' \in 0 .. max_match
    BY <1>1, Sizes DEF IInv, TypeOK
  <1> HIDE DEF len, literal
  <1> QED
    BY <1>1, <1>2, <1>3, SymbolPass

\* f_rle puts a literal, or a match with the byte before the next one.
LEMMA RleStep ==
    ASSUME IInv, f_rle
    PROVE  IInv'
  <1> DEFINE literal == TRUE
  <1>1. PICK len \in {1} \cup
                  (IF strstart > 0 THEN min_match .. Min2(max_match, lookahead) ELSE {}) :
        /\ tally(strstart, len, literal, strstart + len)
        /\ found' = IF len > 1 THEN [at |-> base + strstart, src |-> base + strstart - 1]
                    ELSE found
        /\ match_length' = 0
        /\ strstart' = strstart + len
        /\ lookahead' = lookahead - len
        /\ Next_or_return(lookahead - len)
    BY DEF f_rle
  <1>2. /\ pc = "body" /\ Func = "rle" /\ bodyUnchanged
        /\ UNCHANGED <<match_start, prev_length, match_available>>
    BY DEF f_rle, InBody
  <1>3. /\ strstart \in Nat /\ lookahead \in Nat /\ lookahead >= 1 /\ base \in Nat
        /\ full_mark \in Nat /\ full_mark <= base /\ literal \in BOOLEAN /\ literal
    BY <1>2, BodyTypes, BodyBlock DEF IInv, FullMarkInv
  <1>4. len \in Nat /\ len >= 1 /\ len <= lookahead /\ (len > 1 => strstart > 0)
    BY <1>3, Sizes DEF Min2, min_match
  <1>5. /\ match_start' \in Int /\ match_length' \in 0 .. max_match
        /\ found \in [at : Nat, src : Nat]
    BY <1>1, <1>2, Sizes DEF IInv, TypeOK
  <1>6. /\ found' \in [at : Nat, src : Nat]
        /\ found' = found \/ (found'.at = base + strstart /\ found'.src >= full_mark)
    BY <1>1, <1>3, <1>4, <1>5
  <1> HIDE DEF literal
  <1> QED
    BY <1>1, <1>2, <1>3, <1>4, <1>5, <1>6, SymbolPass

\* What longest_match returns: what it was given, or a longer match that is right.
LEMMA LongestMatchFacts ==
    ASSUME TypeOK, CanSearch, NEW prev \in Nat, prev <= max_match,
           NEW s \in longest_match(prev)
    PROVE  /\ s.len \in Nat /\ s.len <= max_match /\ s.len <= lookahead
           /\ s.start \in Int /\ s.found \in [at : Nat, src : Nat]
           /\ \/ s.len <= prev /\ s.found = found
              \/ /\ s.len >= min_match
                 /\ Genuine(strstart, s.start, s.found)
                 /\ s.found.at = base + strstart /\ s.found.src >= full_mark
  <1>1. /\ strstart \in Nat /\ lookahead \in Nat /\ base \in Nat /\ match_start \in Int
        /\ full_mark \in Nat /\ found \in [at : Nat, src : Nat]
    BY BodyTypes DEF TypeOK
  <1>2. CASE s = [len |-> Min2(prev, lookahead), start |-> match_start, found |-> found]
    <2>1. s.len = Min2(prev, lookahead) /\ s.start = match_start /\ s.found = found
      BY <1>2
    <2>2. /\ Min2(prev, lookahead) \in Nat /\ Min2(prev, lookahead) <= lookahead
          /\ Min2(prev, lookahead) <= prev /\ Min2(prev, lookahead) <= max_match
      BY <1>1, Sizes DEF Min2
    <2> QED BY <1>1, <2>1, <2>2
  <1>3. ASSUME NEW m \in Max2(min_match, prev + 1) .. max_match, NEW c \in Candidates,
               s = [len |-> Min2(m, lookahead), start |-> c,
                    found |-> [at |-> base + strstart, src |-> base + c]]
        PROVE  /\ s.len \in Nat /\ s.len <= max_match /\ s.len <= lookahead
               /\ s.start \in Int /\ s.found \in [at : Nat, src : Nat]
               /\ s.len >= min_match /\ Genuine(strstart, s.start, s.found)
               /\ s.found.at = base + strstart /\ s.found.src >= full_mark
    <2>1. /\ s.len = Min2(m, lookahead) /\ s.start = c
          /\ s.found = [at |-> base + strstart, src |-> base + c]
          /\ s.found.at = base + strstart /\ s.found.src = base + c
      BY <1>3
    <2>2. /\ c \in Nat /\ c >= 1 /\ c <= strstart - 1 /\ c >= strstart - max_dist
          /\ base + c >= full_mark
      BY <1>1, Sizes DEF Candidates, Max2
    <2>3. m \in Nat /\ m >= 3 /\ m <= max_match
      BY Sizes DEF Max2, min_match
    <2>4. lookahead >= 3
      BY DEF CanSearch, min_match
    <2>5. Min2(m, lookahead) \in Nat /\ Min2(m, lookahead) <= max_match
          /\ Min2(m, lookahead) <= lookahead /\ Min2(m, lookahead) >= 3
      BY <1>1, <2>3, <2>4, Sizes DEF Min2
    <2>6. strstart - c \in 1 .. max_dist
      BY <1>1, <2>2, Sizes
    <2>7. Genuine(strstart, s.start, s.found)
      BY <2>1, <2>6 DEF Genuine
    <2>8. s.found \in [at : Nat, src : Nat]
      BY <1>1, <2>1, <2>2
    <2> QED BY <2>1, <2>2, <2>5, <2>7, <2>8 DEF min_match
  <1>4. \/ s = [len |-> Min2(prev, lookahead), start |-> match_start, found |-> found]
        \/ \E m \in Max2(min_match, prev + 1) .. max_match, c \in Candidates :
             s = [len |-> Min2(m, lookahead), start |-> c,
                  found |-> [at |-> base + strstart, src |-> base + c]]
    BY DEF longest_match
  <1> QED BY <1>2, <1>3, <1>4

\* f_fast puts a literal, or the match that it found.
LEMMA FastStep ==
    ASSUME IInv, f_fast
    PROVE  IInv'
  <1>1. PICK s \in {[len |-> match_length, start |-> match_start, found |-> found]} \cup
                   (IF CanSearch THEN longest_match(prev_length) ELSE {}) :
        LET len == IF s.len >= min_match THEN s.len ELSE 1
        IN  /\ match_length' = IF s.len >= min_match THEN 0 ELSE s.len
            /\ match_start' = s.start
            /\ found' = s.found
            /\ tally(strstart, len,
                     s.len >= min_match => Genuine(strstart, s.start, s.found),
                     strstart + len)
            /\ strstart' = strstart + len
            /\ lookahead' = lookahead - len
            /\ Next_or_return(lookahead - len)
    BY DEF f_fast
  <1> DEFINE len == IF s.len >= min_match THEN s.len ELSE 1
             genuine == s.len >= min_match => Genuine(strstart, s.start, s.found)
  <1>2. /\ pc = "body" /\ Func = "fast" /\ bodyUnchanged
        /\ UNCHANGED <<prev_length, match_available>>
    BY DEF f_fast, InBody
  <1>3. /\ match_length < min_match /\ prev_length < min_match
    BY <1>2 DEF IInv, MatchInv
  <1>4. /\ match_length \in Nat /\ prev_length \in Nat /\ match_start \in Int
        /\ match_length <= max_match /\ prev_length <= max_match
        /\ lookahead \in Nat /\ lookahead >= 1
        /\ TypeOK /\ found \in [at : Nat, src : Nat]
    BY <1>2, BodyTypes, BodyBlock DEF IInv, TypeOK
  <1>5. /\ s.len \in Nat /\ s.len <= max_match /\ s.start \in Int
        /\ s.found \in [at : Nat, src : Nat]
        /\ \/ s.len < min_match /\ s.found = found
           \/ /\ s.len >= min_match /\ s.len <= lookahead
              /\ Genuine(strstart, s.start, s.found)
              /\ s.found.at = base + strstart /\ s.found.src >= full_mark
    <2>1. CASE s = [len |-> match_length, start |-> match_start, found |-> found]
      <3>1. s.len = match_length /\ s.start = match_start /\ s.found = found
        BY <2>1
      <3> QED BY <1>3, <1>4, <3>1
    <2>2. CASE CanSearch /\ s \in longest_match(prev_length)
      <3>1. /\ s.len \in Nat /\ s.len <= max_match /\ s.len <= lookahead
            /\ s.start \in Int /\ s.found \in [at : Nat, src : Nat]
            /\ \/ s.len <= prev_length /\ s.found = found
               \/ /\ s.len >= min_match
                  /\ Genuine(strstart, s.start, s.found)
                  /\ s.found.at = base + strstart /\ s.found.src >= full_mark
        BY <1>4, <2>2, LongestMatchFacts
      <3>2. s.len <= prev_length => s.len < min_match
        BY <1>3, <1>4, <3>1 DEF min_match
      <3> QED BY <3>1, <3>2
    <2> QED BY <2>1, <2>2
  <1>6. /\ len \in Nat /\ len >= 1 /\ len <= lookahead
        /\ genuine /\ genuine \in BOOLEAN
    BY <1>4, <1>5 DEF min_match
  <1>7. /\ tally(strstart, len, genuine, strstart + len)
        /\ strstart' = strstart + len /\ lookahead' = lookahead - len
        /\ Next_or_return(lookahead - len)
    BY <1>1
  <1>8. /\ match_length' \in 0 .. max_match /\ match_length' < min_match
        /\ match_start' \in Int
        /\ found' \in [at : Nat, src : Nat]
        /\ found' = found \/ (found'.at = base + strstart /\ found'.src >= full_mark)
    BY <1>1, <1>5, Sizes DEF min_match
  <1> HIDE DEF len, genuine
  <1> QED
    BY <1>2, <1>6, <1>7, <1>8, SymbolPass

\* A pass of f_slow, that may leave a byte in waiting.
LEMMA SlowPass ==
    ASSUME IInv, pc = "body", Func = "slow", bodyUnchanged,
           NEW len \in Nat, len >= 1, len <= lookahead,
           strstart' = strstart + len, lookahead' = lookahead - len,
           Next_or_return(lookahead - len),
           match_length' \in 0 .. max_match, prev_length' \in 0 .. max_match,
           match_start' \in Int, match_available' \in BOOLEAN,
           match_length' >= min_match =>
               /\ match_available' /\ match_length' <= lookahead' + 1
               /\ Genuine(strstart - 1, match_start, found)',
           found' \in [at : Nat, src : Nat],
           found' = found \/ (found'.at = base + strstart /\ found'.src >= full_mark),
           faithful' = TRUE, closed' = FALSE, last_lit' \in 0 .. lit_bufsize - 2,
           last_lit' = 0 => covered' = 0,
           sent' \in Nat, covered' \in Nat, block_start' \in Int,
           sent' = base + block_start', block_start' <= strstart',
           covered' = strstart' - (IF match_available' THEN 1 ELSE 0) - block_start',
           avail_out' \in Nat, pending' \in Nat, pending_out' \in Nat,
           avail_out' > 0 => pending' = 0, pending' = 0 => pending_out' = 0
    PROVE  IInv'
  <1>1. /\ strstart \in Nat /\ lookahead \in Nat /\ base \in Nat
        /\ lookahead - len \in Nat
    BY BodyTypes DEF IInv
  <1>2. /\ newParams' = NoParams /\ UNCHANGED config /\ Func' = Func
        /\ pc' \in {"idle", "fill", "body"}
        /\ ec' \in {"ok", "need_buffers", "stream_error", "end_of_stream"}
        /\ last_flush' \in Flushes \cup {"none", "block", "unset"}
        /\ strstart' \in 0 .. window_size /\ lookahead' \in 0 .. window_size
        /\ PutsFindEmptyBuffer' /\ WindowInv' /\ EndInv'
    BY <1>1, PassStep
  <1>3. TypeOK'
    <2>1. faithful' \in BOOLEAN /\ closed' \in BOOLEAN
      OBVIOUS
    <2>2. /\ pc' \in {"idle", "fill", "body", "tail", "block_done", "trailer"}
          /\ flush' \in Flushes \cup {"none", "block"}
          /\ newParams' \in [level : Levels, strategy : Strategies] \cup {NoParams}
          /\ avail_in' \in Nat
          /\ status' \in {"BUSY", "FINISH"}
          /\ level' \in Levels /\ strategy' \in Strategies
          /\ insert' \in 0 .. min_match - 1 /\ high_water' \in 0 .. window_size
          /\ written' \subseteq 0 .. window_size - 1
          /\ base' \in Nat /\ full_mark' \in Nat /\ trailers' \in 0 .. MaxTrailers
      BY <1>2 DEF IInv, TypeOK, bodyUnchanged, config
    <2> QED BY <1>2, <2>1, <2>2 DEF TypeOK
  <1>4. base' = base /\ full_mark' = full_mark
    BY DEF bodyUnchanged
  <1>5. BlockInv'
    <2>1. waiting' = IF match_available' THEN 1 ELSE 0
      BY <1>2 DEF waiting
    <2>2. strstart' \in Int /\ waiting' \in Int
      BY <1>1, <2>1
    <2>3. covered' = strstart' - waiting' - block_start'
      BY <2>1
    <2>4. strstart' - waiting' = block_start' + covered'
      BY <2>2, <2>3
    <2>5. faithful' /\ sent' = base' + block_start'
      BY <1>4
    <2>6. Func' # "stored" /\ pc' # "block_done"
      BY <1>2
    <2> QED BY <2>4, <2>5, <2>6 DEF BlockInv
  <1>6. MatchInv'
    <2>1. strstart' >= 1
      BY <1>1
    <2> QED BY <1>2, <2>1 DEF MatchInv
  <1>7. FullMarkInv'
    <2>1. found.at \in Nat /\ full_mark \in Nat /\ full_mark <= base
      BY DEF IInv, TypeOK, FullMarkInv
    <2>2. found.at < base + strstart => found.at < base + strstart'
      BY <1>1, <2>1
    <2>3. base + strstart < base + strstart'
      BY <1>1
    <2>4. found.at = 0 \/ found.at < base + strstart
      BY DEF IInv, FullMarkInv
    <2>5. found.at >= full_mark => found.src >= full_mark
      BY DEF IInv, FullMarkInv
    <2>6. found'.at = 0 \/ found'.at < base + strstart'
      <3>1. CASE found' = found
        BY <2>2, <2>4, <3>1
      <3>2. CASE found'.at = base + strstart
        BY <2>3, <3>2
      <3> QED BY <3>1, <3>2
    <2>7. found'.at >= full_mark => found'.src >= full_mark
      BY <2>5
    <2> QED BY <1>4, <2>1, <2>6, <2>7 DEF FullMarkInv
  <1> QED
    BY <1>2, <1>3, <1>5, <1>6, <1>7 DEF IInv

\* f_slow puts the match or the literal in waiting, or holds back its first byte.
LEMMA SlowStep ==
    ASSUME IInv, f_slow
    PROVE  IInv'
  <1> DEFINE take(s) == match_length >= min_match /\ s.len <= match_length
             genuine == Genuine(strstart - 1, match_start, found)
  <1>1. PICK s \in SlowSearches :
        /\ match_start' = s.start
        /\ found' = s.found
        /\ \/ /\ take(s)
              /\ tally(strstart - 1, match_length, genuine, strstart + match_length - 1)
              /\ strstart' = strstart + match_length - 1
              /\ lookahead' = lookahead - (match_length - 1)
              /\ match_length' = min_match - 1
              /\ prev_length' = 0
              /\ match_available' = FALSE
           \/ /\ ~take(s)
              /\ IF match_available
                 THEN tally(strstart - 1, 1, TRUE, strstart)
                 ELSE no_flush_block
              /\ strstart' = strstart + 1
              /\ lookahead' = lookahead - 1
              /\ match_length' = s.len
              /\ prev_length' = match_length
              /\ match_available' = TRUE
        /\ Next_or_return(lookahead')
    BY DEF f_slow
  <1>2. pc = "body" /\ Func = "slow" /\ bodyUnchanged
    BY DEF f_slow, InBody
  <1>3. /\ strstart \in Nat /\ lookahead \in Nat /\ lookahead >= 1 /\ base \in Nat
        /\ match_length \in Nat /\ match_length <= max_match
        /\ match_start \in Int /\ full_mark \in Nat /\ full_mark <= base
        /\ TypeOK /\ found \in [at : Nat, src : Nat]
    BY <1>2, BodyTypes, BodyBlock DEF IInv, TypeOK, FullMarkInv
  <1>4. /\ s.len \in Nat /\ s.len <= max_match /\ s.start \in Int
        /\ s.found \in [at : Nat, src : Nat]
        /\ s.found = found \/ (s.found.at = base + strstart /\ s.found.src >= full_mark)
        /\ \/ s.len < min_match \/ s.len <= match_length
           \/ s.len <= lookahead /\ Genuine(strstart, s.start, s.found)
    <2> DEFINE none == [len |-> min_match - 1, start |-> match_start, found |-> found]
    <2>1. CASE s = none
      <3>1. s.len = 2 /\ s.start = match_start /\ s.found = found
        BY <2>1 DEF min_match
      <3> QED BY <1>3, <3>1, Sizes DEF min_match
    <2>2. ASSUME CanSearch, NEW r \in longest_match(match_length)
          PROVE  /\ r.len \in Nat /\ r.len <= max_match /\ r.len <= lookahead
                 /\ r.start \in Int /\ r.found \in [at : Nat, src : Nat]
                 /\ \/ r.len <= match_length /\ r.found = found
                    \/ /\ r.len >= min_match
                       /\ Genuine(strstart, r.start, r.found)
                       /\ r.found.at = base + strstart /\ r.found.src >= full_mark
      BY <1>3, <2>2, LongestMatchFacts
    <2>3. CASE CanSearch /\ s \in longest_match(match_length)
      BY <2>2, <2>3
    <2>4. ASSUME CanSearch, NEW r \in longest_match(match_length),
                 s = [r EXCEPT !.len = min_match - 1]
          PROVE  /\ s.len = min_match - 1 /\ s.start = r.start /\ s.found = r.found
      <3>1. \/ r = [len |-> Min2(match_length, lookahead), start |-> match_start, found |-> found]
            \/ \E m \in Max2(min_match, match_length + 1) .. max_match, c \in Candidates :
                 r = [len |-> Min2(m, lookahead), start |-> c,
                      found |-> [at |-> base + strstart, src |-> base + c]]
        BY DEF longest_match
      <3>2. ASSUME NEW l, NEW c, NEW f, r = [len |-> l, start |-> c, found |-> f]
            PROVE  s.len = min_match - 1 /\ s.start = r.start /\ s.found = r.found
        BY <2>4, <3>2
      <3> QED BY <3>1, <3>2
    <2>5. CASE CanSearch /\ \E r \in longest_match(match_length) :
                               s = [r EXCEPT !.len = min_match - 1]
      <3>1. PICK r \in longest_match(match_length) : s = [r EXCEPT !.len = min_match - 1]
        BY <2>5
      <3>2. s.len = min_match - 1 /\ s.start = r.start /\ s.found = r.found
        BY <2>4, <2>5, <3>1
      <3>3. /\ r.start \in Int /\ r.found \in [at : Nat, src : Nat]
            /\ r.found = found \/ (r.found.at = base + strstart /\ r.found.src >= full_mark)
        BY <2>2, <2>5
      <3>4. s.len \in Nat /\ s.len <= max_match /\ s.len < min_match
        BY <3>2, Sizes DEF min_match
      <3> QED BY <3>2, <3>3, <3>4
    <2>6. \/ s = none
          \/ CanSearch /\ s \in longest_match(match_length)
          \/ CanSearch /\ \E r \in longest_match(match_length) :
                             s = [r EXCEPT !.len = min_match - 1]
      BY DEF SlowSearches
    <2> HIDE DEF none
    <2> QED BY <2>1, <2>3, <2>5, <2>6
  <1>5. /\ match_start' \in Int /\ found' \in [at : Nat, src : Nat]
        /\ found' = found \/ (found'.at = base + strstart /\ found'.src >= full_mark)
    BY <1>1, <1>4
  <1>6. CASE take(s)
    <2> DEFINE len == match_length - 1
               pos == strstart - 1
    <2>1. /\ tally(pos, match_length, genuine, strstart + match_length - 1)
          /\ strstart' = strstart + match_length - 1
          /\ lookahead' = lookahead - len
          /\ match_length' = min_match - 1 /\ prev_length' = 0 /\ match_available' = FALSE
          /\ Next_or_return(lookahead')
      BY <1>1, <1>6
    <2>2. match_length >= 3
      BY <1>6 DEF min_match
    <2>3. match_available /\ strstart >= 1 /\ match_length <= lookahead + 1 /\ genuine
      BY <1>2, <1>6 DEF IInv, MatchInv
    <2>4. genuine \in BOOLEAN
      BY DEF Genuine
    <2>5. waiting = 1
      BY <1>2, <2>3 DEF waiting
    <2>6. /\ len \in Nat /\ len >= 1 /\ strstart' = strstart + len
          /\ pos \in Int /\ pos = strstart - waiting
          /\ pos + match_length = strstart + match_length - 1
          /\ pos + match_length = strstart'
      BY <1>3, <2>1, <2>2, <2>5
    <2>7. len <= lookahead
      <3>1. match_length <= lookahead + 1
        BY <2>3
      <3> QED BY <1>3, <3>1
    <2>8. tally(pos, match_length, genuine, pos + match_length)
      BY <2>1, <2>6
    <2> HIDE DEF pos, genuine
    <2>9. /\ faithful' = TRUE /\ sent' \in Nat /\ covered' \in Nat
          /\ block_start' \in Int /\ block_start' <= pos + match_length
          /\ sent' = base + block_start'
          /\ covered' = pos + match_length - block_start'
          /\ last_lit' \in 0 .. lit_bufsize - 2
          /\ last_lit' = 0 => covered' = 0
          /\ closed' = FALSE
          /\ avail_out' \in Nat /\ pending' \in Nat /\ pending_out' \in Nat
          /\ avail_out' > 0 => pending' = 0
          /\ pending' = 0 => pending_out' = 0
      <3>1. match_length >= 1
        BY <1>3, <2>2
      <3>2. genuine
        BY <2>3
      <3> QED BY <1>2, <1>3, <2>4, <2>6, <2>8, <3>1, <3>2, SymbolStep
    <2>10. /\ block_start' <= strstart'
           /\ covered' = strstart' - (IF match_available' THEN 1 ELSE 0) - block_start'
      <3>1. strstart' \in Int
        BY <1>3, <2>6
      <3>2. (IF match_available' THEN 1 ELSE 0) = 0
        BY <2>1
      <3>3. strstart' = pos + match_length
        BY <2>6
      <3>4. block_start' <= strstart' /\ covered' = strstart' - block_start'
        <4>1. /\ block_start' <= pos + match_length
              /\ covered' = pos + match_length - block_start'
          BY <2>9
        <4>2. pos \in Int /\ match_length \in Int /\ block_start' \in Int
          BY <1>3, <2>6, <2>9
        <4> QED BY <3>1, <3>3, <4>1, <4>2
      <3> QED BY <3>1, <3>2, <3>4
    <2>11. /\ match_length' \in 0 .. max_match /\ prev_length' \in 0 .. max_match
           /\ ~(match_length' >= min_match) /\ match_available' \in BOOLEAN
      <3>1. match_length' = 2 /\ prev_length' = 0 /\ match_available' = FALSE
        BY <2>1 DEF min_match
      <3>2. match_length' \in 0 .. max_match /\ prev_length' \in 0 .. max_match
        BY <3>1, Sizes
      <3>3. ~(match_length' >= min_match)
        BY <3>1 DEF min_match
      <3> QED BY <3>1, <3>2, <3>3
    <2>12. Next_or_return(lookahead - len)
      BY <2>1
    <2>13. lookahead' = lookahead - len
      BY <2>1
    <2> HIDE DEF len
    <2> QED
      BY <1>2, <1>5, <2>6, <2>7, <2>9, <2>10, <2>11, <2>12, <2>13, SlowPass
  <1>7. CASE ~take(s)
    <2> DEFINE len == 1
               literal == TRUE
    <2>1. /\ IF match_available THEN tally(strstart - 1, len, literal, strstart)
                                ELSE no_flush_block
          /\ strstart' = strstart + len /\ lookahead' = lookahead - len
          /\ match_length' = s.len /\ prev_length' = match_length
          /\ match_available' = TRUE
          /\ Next_or_return(lookahead')
      BY <1>1, <1>7
    <2>2. Next_or_return(lookahead - len)
      BY <2>1
    <2>3. /\ faithful' = TRUE /\ sent' \in Nat /\ covered' \in Nat
          /\ block_start' \in Int /\ block_start' <= strstart
          /\ sent' = base + block_start'
          /\ covered' = strstart - block_start'
          /\ last_lit' \in 0 .. lit_bufsize - 2
          /\ last_lit' = 0 => covered' = 0
          /\ closed' = FALSE
          /\ avail_out' \in Nat /\ pending' \in Nat /\ pending_out' \in Nat
          /\ avail_out' > 0 => pending' = 0
          /\ pending' = 0 => pending_out' = 0
      <3>1. CASE match_available
        <4> DEFINE pos == strstart - 1
        <4>1. waiting = 1
          BY <1>2, <3>1 DEF waiting
        <4>2. /\ pos \in Int /\ pos = strstart - waiting /\ pos + len = strstart
              /\ len \in Nat /\ len >= 1 /\ literal \in BOOLEAN /\ literal
          BY <1>3, <4>1
        <4>3. tally(pos, len, literal, pos + len)
          BY <2>1, <3>1, <4>2
        <4> HIDE DEF pos, len, literal
        <4>4. /\ faithful' = TRUE /\ sent' \in Nat /\ covered' \in Nat
              /\ block_start' \in Int /\ block_start' <= pos + len
              /\ sent' = base + block_start'
              /\ covered' = pos + len - block_start'
              /\ last_lit' \in 0 .. lit_bufsize - 2
              /\ last_lit' = 0 => covered' = 0
              /\ closed' = FALSE
              /\ avail_out' \in Nat /\ pending' \in Nat /\ pending_out' \in Nat
              /\ avail_out' > 0 => pending' = 0
              /\ pending' = 0 => pending_out' = 0
          BY <1>2, <4>2, <4>3, SymbolStep
        <4> QED BY <4>2, <4>4
      <3>2. CASE ~match_available
        <4>1. /\ waiting = 0 /\ no_flush_block
          BY <2>1, <3>2 DEF waiting
        <4>2. /\ block_start' = block_start /\ last_lit' = last_lit /\ sent' = sent
              /\ covered' = covered /\ closed' = closed /\ faithful' = faithful
              /\ pending' = pending /\ pending_out' = pending_out /\ avail_out' = avail_out
          BY <4>1 DEF no_flush_block, out
        <4>3. ~closed /\ faithful = TRUE /\ closed \in BOOLEAN
          BY <1>2, BodyBlock DEF IInv, TypeOK
        <4>4. avail_out \in Nat /\ pending = 0 /\ pending_out = 0
          BY <1>2, BodyBlock, BodyTypes DEF IInv
        <4>5. /\ block_start \in Int /\ sent \in Nat /\ covered \in Nat
              /\ last_lit \in 0 .. lit_bufsize - 2
          BY DEF IInv, TypeOK
        <4>6. /\ sent = base + block_start /\ block_start <= strstart
              /\ last_lit = 0 => covered = 0
              /\ strstart - waiting = block_start + covered
          BY <1>2 DEF IInv, BlockInv
        <4>7. covered = strstart - block_start
          <5>1. strstart = block_start + covered
            BY <1>3, <4>1, <4>6
          <5> QED BY <4>5, <5>1
        <4>8. faithful' = TRUE /\ closed' = FALSE /\ (last_lit' = 0 => covered' = 0)
          BY <4>2, <4>3, <4>6
        <4>9. /\ avail_out' \in Nat /\ pending' \in Nat /\ pending_out' \in Nat
              /\ avail_out' > 0 => pending' = 0
              /\ pending' = 0 => pending_out' = 0
          BY <4>2, <4>4
        <4>10. /\ sent' \in Nat /\ covered' \in Nat /\ block_start' \in Int
               /\ block_start' <= strstart /\ sent' = base + block_start'
               /\ covered' = strstart - block_start'
               /\ last_lit' \in 0 .. lit_bufsize - 2
          BY <4>2, <4>5, <4>6, <4>7
        <4> QED BY <4>8, <4>9, <4>10
      <3> QED BY <3>1, <3>2
    <2>4. /\ block_start' <= strstart'
          /\ covered' = strstart' - (IF match_available' THEN 1 ELSE 0) - block_start'
      <3>1. (IF match_available' THEN 1 ELSE 0) = 1
        BY <2>1
      <3>2. strstart' = strstart + 1 /\ block_start' \in Int
        BY <2>1, <2>3
      <3>3. block_start' <= strstart /\ covered' = strstart - block_start'
        BY <2>3
      <3>4. block_start' <= strstart'
        BY <1>3, <3>2, <3>3
      <3>5. covered' = strstart' - 1 - block_start'
        BY <1>3, <3>2, <3>3
      <3> QED BY <3>1, <3>4, <3>5
    <2>5. /\ match_length' \in 0 .. max_match /\ prev_length' \in 0 .. max_match
          /\ match_available' \in BOOLEAN /\ match_available'
      BY <1>3, <1>4, <2>1, Sizes
    <2>6. ASSUME match_length' >= min_match
          PROVE  /\ match_length' <= lookahead' + 1
                 /\ Genuine(strstart - 1, match_start, found)'
      <3>1. s.len >= min_match /\ match_length' = s.len
        BY <2>1, <2>6
      <3>2. s.len <= lookahead /\ Genuine(strstart, s.start, s.found)
        <4>1. ~(s.len < min_match)
          BY <1>4, <3>1, Sizes DEF min_match
        <4>2. ~(s.len <= match_length)
          BY <1>3, <1>4, <1>7, <3>1 DEF min_match
        <4> QED BY <1>4, <4>1, <4>2
      <3>3. match_length' <= lookahead' + 1
        BY <1>3, <1>4, <2>1, <3>1, <3>2
      <3>4. /\ strstart' - 1 = strstart /\ match_start' = s.start /\ found' = s.found
            /\ base' = base
        BY <1>1, <1>2, <1>3, <2>1 DEF bodyUnchanged
      <3> QED BY <3>2, <3>3, <3>4 DEF Genuine
    <2>7. len \in Nat /\ len >= 1 /\ len <= lookahead
      BY <1>3
    <2>8. strstart' = strstart + len /\ lookahead' = lookahead - len
      BY <2>1
    <2> HIDE DEF len, literal
    <2> QED
      BY <1>2, <1>5, <2>2, <2>3, <2>4, <2>5, <2>6, <2>7, <2>8, SlowPass
  <1> QED
    BY <1>6, <1>7

-----------------------------------------------------------------------------
(* The end of a compression function, of a flush and of the stream *)

\* The compression function ends with all of the window in finished blocks.
LEMMA FinishBlockStep ==
    ASSUME IInv, finish_block
    PROVE  IInv'
  <1> DEFINE ok   == faithful /\ (waiting = 1 => base + strstart - 1 = sent + covered)
             cov  == covered + waiting
             some == IF Func = "stored" THEN strstart > block_start ELSE last_lit + waiting > 0
             put(last) == flush_block(strstart, cov, ok, last)
  <1>1. /\ pc = "tail"
        /\ insert' = IF Func \in {"fast", "slow"} THEN Min2(strstart, min_match - 1) ELSE 0
        /\ match_available' = IF Func = "slow" THEN FALSE ELSE match_available
        /\ \/ /\ flush = "finish" /\ put(TRUE) /\ status' = "FINISH"
              /\ IF avail_out' = 0 THEN ReturnOk
                 ELSE Continue("trailer") /\ UNCHANGED last_flush
           \/ /\ flush # "finish" /\ UNCHANGED status
              /\ IF some THEN put(FALSE) ELSE no_flush_block
              /\ IF avail_out' = 0 THEN ReturnOk
                 ELSE Continue("block_done") /\ UNCHANGED last_flush
        /\ UNCHANGED <<flush, avail_in, strstart, lookahead, high_water, base, written,
                       match_length, match_start, prev_length, found, full_mark, trailers>>
    BY DEF finish_block
  <1>2. /\ strstart \in Nat /\ base \in Nat /\ sent \in Nat /\ covered \in Nat
        /\ block_start \in Int /\ avail_out \in Nat /\ pending \in Nat /\ insert \in Nat
        /\ lookahead \in Nat /\ match_length \in Nat /\ high_water \in Nat
    BY BodyTypes DEF IInv
  <1>3. /\ waiting \in {0, 1} /\ last_lit \in Nat
    BY Sizes DEF waiting, IInv, TypeOK
  <1>4. ~closed /\ status # "FINISH" /\ avail_out > 0 /\ pending = 0 /\ faithful = TRUE
    BY <1>1 DEF IInv, EndInv, PutsFindEmptyBuffer, BlockInv, TypeOK
  <1>5. /\ lookahead = 0 /\ strstart + lookahead <= high_water /\ insert <= strstart
    BY <1>1 DEF IInv, WindowInv
  <1>6. /\ sent = base + block_start /\ block_start <= strstart
        /\ last_lit = 0 => covered = 0
        /\ Func = "stored" => covered = 0 /\ last_lit = 0 /\ block_start >= 0
        /\ Func # "stored" => strstart - waiting = block_start + covered
    BY DEF IInv, BlockInv
  <1>7. Func = "stored" => level = "stored"
    BY CallerAssumption DEF Func, IInv, TypeOK
  <1>8. /\ cov \in Nat /\ ok \in BOOLEAN /\ ok /\ base + strstart >= 0
        /\ \/ sent + cov = base + strstart
           \/ level = "stored" /\ block_start >= 0
    <2>1. waiting = 1 => Func # "stored"
      BY DEF waiting
    <2>2. waiting = 1 => base + strstart - 1 = sent + covered
      BY <1>2, <1>6, <2>1
    <2>3. cov \in Nat /\ base + strstart >= 0
      BY <1>2, <1>3
    <2>4. Func # "stored" => sent + cov = base + strstart
      BY <1>2, <1>3, <1>6
    <2> QED BY <1>4, <1>6, <1>7, <2>2, <2>3, <2>4
  <1>9. ~some => block_start = strstart /\ covered = 0
    BY <1>2, <1>3, <1>6
  <1> HIDE DEF ok, cov, some
  <1>10. ASSUME NEW last \in BOOLEAN, put(last)
         PROVE  /\ faithful' = TRUE /\ sent' \in Nat /\ sent' = base + strstart
                /\ block_start' = strstart /\ last_lit' = 0 /\ covered' = 0 /\ closed' = last
                /\ avail_out' \in Nat /\ pending' \in Nat /\ pending_out' \in Nat
                /\ avail_out' > 0 => pending' = 0
                /\ pending' = 0 => pending_out' = 0
    <2>1. TypeOK /\ PutsFindEmptyBuffer /\ BlockInv /\ faithful
      BY DEF IInv, BlockInv
    <2>2. strstart \in Int /\ strstart >= block_start
      BY <1>2, <1>6
    <2> QED BY <1>4, <1>8, <1>10, <2>1, <2>2, FlushBlockFacts
  <1>11. /\ faithful' = TRUE /\ sent' \in Nat /\ sent' = base + strstart
         /\ block_start' = strstart /\ last_lit' \in 0 .. lit_bufsize - 2 /\ covered' = 0
         /\ closed' \in BOOLEAN /\ (closed' <=> flush = "finish")
         /\ avail_out' \in Nat /\ pending' \in Nat /\ pending_out' \in Nat
         /\ avail_out' > 0 => pending' = 0
         /\ pending' = 0 => pending_out' = 0
         /\ Func = "stored" => last_lit' = 0
    <2>1. CASE flush = "finish"
      <3>1. put(TRUE)
        BY <1>1, <2>1
      <3>2. 0 \in 0 .. lit_bufsize - 2
        BY Sizes
      <3>3. /\ faithful' = TRUE /\ sent' \in Nat /\ sent' = base + strstart
            /\ block_start' = strstart /\ last_lit' = 0 /\ covered' = 0 /\ closed' = TRUE
            /\ avail_out' \in Nat /\ pending' \in Nat /\ pending_out' \in Nat
            /\ avail_out' > 0 => pending' = 0
            /\ pending' = 0 => pending_out' = 0
        <4> HIDE DEF put
        <4> QED BY <1>10, <3>1
      <3> QED BY <2>1, <3>2, <3>3
    <2>2. CASE flush # "finish" /\ some
      <3>1. put(FALSE)
        BY <1>1, <2>2
      <3>2. 0 \in 0 .. lit_bufsize - 2
        BY Sizes
      <3>3. /\ faithful' = TRUE /\ sent' \in Nat /\ sent' = base + strstart
            /\ block_start' = strstart /\ last_lit' = 0 /\ covered' = 0 /\ closed' = FALSE
            /\ avail_out' \in Nat /\ pending' \in Nat /\ pending_out' \in Nat
            /\ avail_out' > 0 => pending' = 0
            /\ pending' = 0 => pending_out' = 0
        <4> HIDE DEF put
        <4> QED BY <1>10, <3>1
      <3> QED BY <2>2, <3>2, <3>3
    <2>3. CASE flush # "finish" /\ ~some
      <3>1. /\ block_start' = block_start /\ last_lit' = last_lit /\ sent' = sent
            /\ covered' = covered /\ closed' = closed /\ faithful' = faithful
            /\ pending' = pending /\ pending_out' = pending_out /\ avail_out' = avail_out
        BY <1>1, <2>3 DEF no_flush_block, out
      <3>2. /\ block_start = strstart /\ covered = 0 /\ sent = base + strstart
        BY <1>6, <1>9, <2>3
      <3>3. last_lit \in 0 .. lit_bufsize - 2 /\ pending_out = 0 /\ closed = FALSE
        BY <1>4 DEF IInv, TypeOK, PutsFindEmptyBuffer
      <3>4. closed' = FALSE /\ flush # "finish" /\ faithful' = TRUE
        BY <1>4, <2>3, <3>1, <3>3
      <3> QED BY <1>2, <1>4, <1>6, <3>1, <3>2, <3>3, <3>4
    <2> QED BY <2>1, <2>2, <2>3
  <1> HIDE DEF put
  <1>12. /\ newParams' = NoParams /\ UNCHANGED config /\ Func' = Func
         /\ last_flush' \in Flushes \cup {"none", "block", "unset"}
         /\ \/ pc' = "idle" /\ ec' = "ok"
            \/ pc' = "trailer" /\ avail_out' # 0 /\ ec' = ec /\ flush = "finish"
            \/ pc' = "block_done" /\ avail_out' # 0 /\ ec' = ec
    BY <1>1 DEF ReturnOk, Return, EndCall, Continue, IInv, TypeOK, Func, config
  <1>13. /\ status' \in {"BUSY", "FINISH"}
         /\ status' = "FINISH" <=> flush = "finish"
    BY <1>1, <1>4 DEF IInv, TypeOK
  <1>14. match_available' = FALSE
    BY <1>1 DEF IInv, MatchInv, TypeOK
  <1>15. insert' \in 0 .. 2 /\ insert' <= strstart
    BY <1>1, <1>2 DEF Min2, min_match
  <1>16. TypeOK'
    <2>1. /\ faithful' \in BOOLEAN /\ closed' \in BOOLEAN /\ match_available' \in BOOLEAN
      BY <1>11, <1>14
    <2>2. /\ pc' \in {"idle", "fill", "body", "tail", "block_done", "trailer"}
          /\ flush' \in Flushes \cup {"none", "block"}
          /\ newParams' \in [level : Levels, strategy : Strategies] \cup {NoParams}
          /\ avail_in' \in Nat
          /\ ec' \in {"ok", "need_buffers", "stream_error", "end_of_stream"}
          /\ level' \in Levels /\ strategy' \in Strategies
          /\ strstart' \in 0 .. window_size /\ lookahead' \in 0 .. window_size
          /\ high_water' \in 0 .. window_size /\ written' \subseteq 0 .. window_size - 1
          /\ match_length' \in 0 .. max_match /\ prev_length' \in 0 .. max_match
          /\ match_start' \in Int /\ base' \in Nat /\ found' \in [at : Nat, src : Nat]
          /\ full_mark' \in Nat /\ trailers' \in 0 .. MaxTrailers
      BY <1>1, <1>12 DEF IInv, TypeOK, config
    <2>3. insert' \in 0 .. min_match - 1
      BY <1>15 DEF min_match
    <2>4. block_start' \in Int /\ covered' \in Nat
      BY <1>2, <1>11
    <2> QED BY <1>11, <1>12, <1>13, <2>1, <2>2, <2>3, <2>4 DEF TypeOK
  <1>17. PutsFindEmptyBuffer'
    BY <1>11, <1>12 DEF PutsFindEmptyBuffer
  <1>18. WindowInv'
    BY <1>1, <1>5, <1>12, <1>15 DEF WindowInv
  <1>19. BlockInv'
    <2>1. waiting' = 0
      BY <1>14 DEF waiting
    <2>2. /\ sent' = base' + block_start' /\ block_start' <= strstart'
          /\ strstart' - waiting' = block_start' + covered'
          /\ strstart' - block_start' = 0
      BY <1>1, <1>2, <1>11, <2>1
    <2>3. strstart' - block_start' < max_dist /\ strstart' - block_start' < max_block_size
      BY <2>2, Sizes
    <2>4. block_start' >= 0 /\ block_start' = strstart'
      BY <1>1, <1>2, <1>11
    <2>5. faithful' /\ covered' = 0 /\ ~match_available' /\ Func' = Func
      BY <1>11, <1>12, <1>14
    <2>6. Func = "stored" => last_lit' = 0
      BY <1>11
    <2> QED BY <2>2, <2>3, <2>4, <2>5, <2>6 DEF BlockInv
  <1>20. MatchInv'
    <2>1. ~(Func = "slow" /\ match_length >= min_match)
      <3>1. Func = "slow" /\ match_length >= min_match => match_length <= lookahead + 1
        BY DEF IInv, MatchInv
      <3> QED BY <1>2, <1>5, <3>1 DEF min_match
    <2>2. Func = "fast" => match_length < min_match /\ prev_length < min_match
      BY DEF IInv, MatchInv
    <2>3. match_length' = match_length /\ prev_length' = prev_length
      BY <1>1
    <2> QED BY <1>12, <1>14, <2>1, <2>2, <2>3 DEF MatchInv
  <1>21. FullMarkInv'
    BY <1>1 DEF IInv, FullMarkInv
  <1>22. EndInv'
    <2>1. lookahead' = 0 /\ block_start' = strstart' /\ covered' = 0
      BY <1>1, <1>5, <1>11
    <2>2. (closed' <=> status' = "FINISH") /\ (closed' <=> flush = "finish")
      BY <1>11, <1>13
    <2>3. ~match_available'
      BY <1>14
    <2>4. /\ closed' => pc' \in {"idle", "trailer"}
          /\ pc' = "trailer" => closed'
          /\ pc' = "idle" => ec' = "ok"
      <3>1. CASE flush = "finish"
        <4>1. pc' # "block_done"
          BY <1>1, <3>1 DEF ReturnOk, Return, EndCall, Continue
        <4> QED BY <1>12, <2>2, <3>1, <4>1
      <3>2. CASE flush # "finish"
        BY <1>12, <2>2, <3>2
      <3> QED BY <3>1, <3>2
    <2> QED BY <2>1, <2>2, <2>3, <2>4 DEF EndInv
  <1> QED
    BY <1>12, <1>16, <1>17, <1>18, <1>19, <1>20, <1>21, <1>22 DEF IInv

\* The marker of a flush, and the history that Flush::full forgets.
LEMMA BlockDoneStep ==
    ASSUME IInv, block_done
    PROVE  IInv'
  <1>1. /\ pc = "block_done"
        /\ faithful' = (faithful /\ ~closed)
        /\ IF flush = "full" /\ lookahead = 0
           THEN forget_history
           ELSE UNCHANGED <<strstart, block_start, insert, base>>
        /\ full_mark' = IF flush = "full" THEN base + strstart ELSE full_mark
        /\ ReturnOk
        /\ UNCHANGED <<flush, avail_in, status, lookahead, high_water, written, match,
                       last_lit, sent, covered, closed, trailers>>
    BY DEF block_done
  <1>2. /\ strstart \in Nat /\ base \in Nat /\ high_water \in Nat /\ high_water <= window_size
        /\ block_start \in Int /\ full_mark \in Nat /\ insert \in Nat /\ lookahead \in Nat
        /\ sent \in Nat /\ covered \in Nat
    BY BodyTypes DEF IInv
  <1>3. /\ lookahead = 0 /\ strstart + lookahead <= high_water /\ insert <= strstart
    BY <1>1 DEF IInv, WindowInv
  <1>4. sent = base + block_start /\ block_start = strstart /\ covered = 0
    BY <1>1 DEF IInv, BlockInv
  <1>5. faithful /\ ~match_available /\ ~closed
    BY <1>1 DEF IInv, BlockInv, EndInv
  <1>6. /\ avail_out' \in Nat /\ pending' \in Nat /\ pending_out' \in Nat
        /\ pending' = 0 => pending_out' = 0
    <2>1. PICK n \in BlockBytes : put_and_flush_pending(IF flush = "block" THEN 0 ELSE n)
      BY DEF block_done
    <2>2. (IF flush = "block" THEN 0 ELSE n) \in Nat
      BY SizesAssumption
    <2> QED BY <2>1, <2>2, PutFacts DEF IInv
  <1>7. /\ newParams' = NoParams /\ UNCHANGED config /\ Func' = Func
        /\ pc' = "idle" /\ ec' = "ok"
        /\ last_flush' \in Flushes \cup {"none", "block", "unset"}
    BY <1>1 DEF ReturnOk, Return, EndCall, IInv, TypeOK, Func, config
  <1>8. /\ match_length' = match_length /\ match_start' = match_start /\ found' = found
        /\ prev_length' = prev_length /\ match_available' = match_available
    BY <1>1 DEF match
  <1>9. PICK s \in Nat, b \in Nat :
          /\ strstart' = s /\ block_start' = s /\ base' = b
          /\ s <= strstart /\ b + s = base + strstart
          /\ insert' \in Nat /\ insert' <= 2 /\ insert' <= s
          /\ full_mark' \in Nat
          /\ (full_mark' = full_mark /\ b = base) \/ (full_mark' = b /\ b = base + strstart)
    <2>1. insert <= 2
      BY DEF IInv, TypeOK, min_match
    <2>2. CASE flush = "full"
      <3>1. /\ strstart' = 0 /\ block_start' = 0 /\ base' = base + strstart /\ insert' = 0
            /\ full_mark' = base + strstart
        BY <1>1, <1>3, <2>2 DEF forget_history
      <3>2. base + strstart \in Nat
        BY <1>2
      <3> QED BY <1>2, <3>1, <3>2
    <2>3. CASE flush # "full"
      <3>1. /\ strstart' = strstart /\ block_start' = strstart /\ base' = base
            /\ insert' = insert /\ full_mark' = full_mark
        BY <1>1, <1>4, <2>3
      <3> QED BY <1>2, <1>3, <2>1, <3>1
    <2> QED BY <2>2, <2>3
  <1>10. TypeOK'
    <2>1. faithful' \in BOOLEAN
      BY <1>1
    <2>2. /\ pc' \in {"idle", "fill", "body", "tail", "block_done", "trailer"}
          /\ flush' \in Flushes \cup {"none", "block"}
          /\ newParams' \in [level : Levels, strategy : Strategies] \cup {NoParams}
          /\ avail_in' \in Nat /\ lookahead' \in 0 .. window_size
          /\ ec' \in {"ok", "need_buffers", "stream_error", "end_of_stream"}
          /\ status' \in {"BUSY", "FINISH"}
          /\ level' \in Levels /\ strategy' \in Strategies
          /\ high_water' \in 0 .. window_size /\ written' \subseteq 0 .. window_size - 1
          /\ last_lit' \in 0 .. lit_bufsize - 2
          /\ sent' \in Nat /\ covered' \in Nat
          /\ closed' \in BOOLEAN /\ trailers' \in 0 .. MaxTrailers
      BY <1>1, <1>7 DEF IInv, TypeOK, config
    <2>3. /\ match_length' \in 0 .. max_match /\ prev_length' \in 0 .. max_match
          /\ match_start' \in Int /\ match_available' \in BOOLEAN
          /\ found' \in [at : Nat, src : Nat]
      BY <1>8 DEF IInv, TypeOK
    <2>4. /\ strstart' \in 0 .. window_size /\ block_start' \in Int
          /\ insert' \in 0 .. min_match - 1
      <3>1. strstart <= window_size
        BY <1>2, <1>3, Sizes
      <3> QED BY <1>2, <1>9, <3>1, Sizes DEF min_match
    <2> QED BY <1>6, <1>7, <1>9, <2>1, <2>2, <2>3, <2>4 DEF TypeOK
  <1>11. PutsFindEmptyBuffer'
    BY <1>6, <1>7 DEF PutsFindEmptyBuffer
  <1>12. WindowInv'
    <2>1. lookahead' = lookahead /\ high_water' = high_water
      BY <1>1
    <2>2. s + lookahead <= high_water
      BY <1>2, <1>3, <1>9
    <2> QED BY <1>7, <1>9, <2>1, <2>2 DEF WindowInv
  <1>13. BlockInv'
    <2>1. waiting' = 0
      BY <1>5, <1>8 DEF waiting
    <2>2. faithful' /\ covered' = 0
      BY <1>1, <1>4, <1>5
    <2>3. /\ s - s < max_dist /\ s - s < max_block_size /\ s <= s /\ s >= 0
          /\ s - 0 = s + 0
      BY Sizes
    <2>4. sent' = b + s
      <3>1. sent' = sent /\ sent = base + strstart
        BY <1>1, <1>4
      <3> QED BY <1>9, <3>1
    <2>5. Func' = "stored" => last_lit' = 0
      BY <1>1, <1>7 DEF IInv, BlockInv
    <2> QED BY <1>7, <1>9, <2>1, <2>2, <2>3, <2>4, <2>5 DEF BlockInv
  <1>14. MatchInv'
    <2>1. Func = "slow" => ~(match_length >= min_match)
      BY <1>5 DEF IInv, MatchInv
    <2>2. Func = "fast" => match_length < min_match /\ prev_length < min_match
      BY DEF IInv, MatchInv
    <2> QED BY <1>5, <1>7, <1>8, <2>1, <2>2 DEF MatchInv
  <1>15. FullMarkInv'
    <2>1. /\ found.at \in Nat /\ found.src \in Nat
          /\ found.at = 0 \/ found.at < base + strstart
          /\ full_mark <= base
          /\ found.at >= full_mark => found.src >= full_mark
      BY DEF IInv, TypeOK, FullMarkInv
    <2>2. found'.at = 0 \/ found'.at < base' + strstart'
      BY <1>8, <1>9, <2>1
    <2>3. CASE full_mark' = full_mark /\ b = base
      BY <1>8, <1>9, <2>1, <2>2, <2>3 DEF FullMarkInv
    <2>4. CASE full_mark' = b /\ b = base + strstart
      <3>1. (found.at >= b => found.src >= b) /\ b <= b
        BY <1>2, <2>1, <2>4
      <3> QED BY <1>8, <1>9, <2>2, <2>4, <3>1 DEF FullMarkInv
    <2> QED BY <1>9, <2>3, <2>4
  <1>16. EndInv'
    <2>1. closed' = closed /\ status' = status
      BY <1>1
    <2>2. status # "FINISH"
      BY <1>5 DEF IInv, EndInv
    <2> QED BY <1>5, <1>7, <2>1, <2>2 DEF EndInv
  <1> QED
    BY <1>7, <1>10, <1>11, <1>12, <1>13, <1>14, <1>15, <1>16 DEF IInv

\* A step that touches neither the window nor the block keeps what is said of them.
LEMMA EntryStep ==
    ASSUME IInv, unchangedByEntry, newParams' = NoParams, UNCHANGED config,
           pc' \in {"idle", "fill", "body", "tail", "trailer"},
           pc' = "fill" => lookahead < Need(Func),
           pc' = "body" => lookahead >= Need(Func),
           pc' = "tail" \/ pc' = "trailer" => lookahead = 0,
           pc' = "trailer" => closed,
           pc' \in {"fill", "body", "tail"} => ~closed,
           ec' \in {"ok", "need_buffers", "stream_error", "end_of_stream"},
           pc' = "idle" /\ ec' = "end_of_stream" => closed
    PROVE  WindowInv' /\ BlockInv' /\ MatchInv' /\ FullMarkInv' /\ EndInv'
  <1>1. /\ status' = status /\ strstart' = strstart /\ lookahead' = lookahead
        /\ insert' = insert /\ high_water' = high_water /\ base' = base
        /\ written' = written
        /\ match_length' = match_length /\ match_start' = match_start
        /\ prev_length' = prev_length /\ match_available' = match_available /\ found' = found
        /\ block_start' = block_start /\ last_lit' = last_lit /\ sent' = sent
        /\ covered' = covered /\ faithful' = faithful /\ closed' = closed
        /\ full_mark' = full_mark
    BY DEF unchangedByEntry, win, match, block
  <1>2. Func' = Func /\ waiting' = waiting
    <2>1. Func' = Func
      BY DEF Func, config
    <2> QED BY <1>1, <2>1 DEF waiting
  <1>3. WindowInv'
    <2>1. pc' = "body" => lookahead >= 1
      <3>1. Need(Func) \in Nat /\ Need(Func) >= 1 /\ lookahead \in Nat
        BY NeedBounds, BodyTypes DEF IInv
      <3> QED BY <3>1
    <2> QED BY <1>1, <1>2, <2>1 DEF IInv, WindowInv
  <1>4. BlockInv'
    BY <1>1, <1>2 DEF IInv, BlockInv
  <1>5. MatchInv'
    <2>1. Genuine(strstart - 1, match_start, found)' <=> Genuine(strstart - 1, match_start, found)
      BY <1>1 DEF Genuine
    <2> QED BY <1>1, <1>2, <2>1 DEF IInv, MatchInv
  <1>6. FullMarkInv'
    BY <1>1 DEF IInv, FullMarkInv
  <1>7. EndInv'
    BY <1>1 DEF IInv, EndInv
  <1> QED BY <1>3, <1>4, <1>5, <1>6, <1>7

\* The types of what such a step leaves as it was.
LEMMA EntryTypes ==
    ASSUME IInv, unchangedByEntry, UNCHANGED config
    PROVE  /\ status' \in {"BUSY", "FINISH"}
           /\ level' \in Levels /\ strategy' \in Strategies
           /\ strstart' \in 0 .. window_size /\ lookahead' \in 0 .. window_size
           /\ block_start' \in Int /\ insert' \in 0 .. min_match - 1
           /\ high_water' \in 0 .. window_size /\ written' \subseteq 0 .. window_size - 1
           /\ match_length' \in 0 .. max_match /\ prev_length' \in 0 .. max_match
           /\ match_start' \in Int /\ match_available' \in BOOLEAN
           /\ last_lit' \in 0 .. lit_bufsize - 2
           /\ base' \in Nat /\ sent' \in Nat /\ covered' \in Nat
           /\ found' \in [at : Nat, src : Nat]
           /\ faithful' \in BOOLEAN /\ closed' \in BOOLEAN
           /\ full_mark' \in Nat /\ trailers' \in 0 .. MaxTrailers
  BY DEF IInv, TypeOK, unchangedByEntry, win, match, block, config

\* The trailer, after which nothing is left to do but to hand the output over.
LEMMA TrailerStep ==
    ASSUME IInv, trailer
    PROVE  IInv'
  <1>1. /\ pc = "trailer"
        /\ UNCHANGED <<flush, avail_in, status, last_flush, win, match, block, full_mark>>
    BY DEF trailer
  <1>2. /\ newParams' = NoParams /\ UNCHANGED config
        /\ pc' = "idle" /\ ec' \in {"ok", "end_of_stream"}
        /\ trailers' \in 0 .. MaxTrailers
        /\ avail_out' \in Nat /\ pending' \in Nat /\ pending_out' \in Nat
        /\ pending' = 0 => pending_out' = 0
    <2>1. newParams = NoParams /\ TypeOK /\ PutsFindEmptyBuffer
      BY DEF IInv
    <2>2. CASE wrap = "none"
      <3>1. UNCHANGED <<out, trailers>> /\ Return("end_of_stream")
        BY <2>2 DEF trailer
      <3> QED BY <2>1, <3>1 DEF TypeOK, PutsFindEmptyBuffer, out, Return, EndCall
    <2>3. CASE wrap # "none"
      <3>1. PICK n \in BlockBytes : put_and_flush_pending(n)
        BY <2>3 DEF trailer
      <3>2. trailers' = Min2(trailers + 1, MaxTrailers) /\ Return(TrailerResult)
        BY <2>3 DEF trailer
      <3>3. n \in Nat
        BY SizesAssumption
      <3>4. /\ avail_out' \in Nat /\ pending' \in Nat /\ pending_out' \in Nat
            /\ pending' = 0 => pending_out' = 0
        BY <2>1, <3>1, <3>3, PutFacts
      <3>5. trailers' \in 0 .. MaxTrailers
        BY <2>1, <3>2 DEF TypeOK, Min2, MaxTrailers
      <3>6. TrailerResult \in {"ok", "end_of_stream"}
        BY DEF TrailerResult
      <3>7. /\ newParams' = NoParams /\ UNCHANGED config
            /\ pc' = "idle" /\ ec' = TrailerResult
        BY <2>1, <3>2 DEF Return, EndCall
      <3> QED BY <3>4, <3>5, <3>6, <3>7
    <2> QED BY <2>2, <2>3
  <1>3. closed
    BY <1>1 DEF IInv, EndInv
  <1>4. /\ status' = status /\ strstart' = strstart /\ lookahead' = lookahead
        /\ insert' = insert /\ high_water' = high_water /\ base' = base
        /\ written' = written
        /\ match_length' = match_length /\ match_start' = match_start
        /\ prev_length' = prev_length /\ match_available' = match_available /\ found' = found
        /\ block_start' = block_start /\ last_lit' = last_lit /\ sent' = sent
        /\ covered' = covered /\ faithful' = faithful /\ closed' = closed
        /\ full_mark' = full_mark /\ flush' = flush /\ avail_in' = avail_in
        /\ last_flush' = last_flush
    BY <1>1 DEF win, match, block
  <1>5. Func' = Func /\ waiting' = waiting
    <2>1. Func' = Func
      BY <1>2 DEF Func, config
    <2> QED BY <1>4, <2>1 DEF waiting
  <1>6. TypeOK'
    BY <1>2, <1>4 DEF IInv, TypeOK, config
  <1>7. PutsFindEmptyBuffer'
    BY <1>2 DEF PutsFindEmptyBuffer
  <1>8. WindowInv'
    BY <1>2, <1>4 DEF IInv, WindowInv
  <1>9. BlockInv'
    BY <1>2, <1>4, <1>5 DEF IInv, BlockInv
  <1>10. MatchInv'
    <2>1. Genuine(strstart - 1, match_start, found)' <=> Genuine(strstart - 1, match_start, found)
      BY <1>4 DEF Genuine
    <2> QED BY <1>4, <1>5, <2>1 DEF IInv, MatchInv
  <1>11. FullMarkInv'
    BY <1>4 DEF IInv, FullMarkInv
  <1>12. EndInv'
    BY <1>2, <1>3, <1>4 DEF IInv, EndInv
  <1> QED
    BY <1>2, <1>6, <1>7, <1>8, <1>9, <1>10, <1>11, <1>12 DEF IInv

-----------------------------------------------------------------------------
(* The calls *)

\* The entry of write() hands over what is pending before anything is put.
LEMMA WriteStep ==
    ASSUME IInv, write
    PROVE  IInv'
  <1>1. PICK f \in Flushes, more \in InSizes, space \in OutSizes : doWrite(f, more, space, NoParams)
    BY DEF write
  <1> DEFINE len  == Min2(pending, space)
             fed  == avail_in + more
             busy == fed # 0 \/ lookahead # 0 \/ (f # "none" /\ status # "FINISH")
             refused == \/ /\ pending = 0 /\ fed = 0 /\ f # "finish"
                           /\ last_flush # "unset"
                           /\ FlushRank(f) <= FlushRank(last_flush)
                        \/ status = "FINISH" /\ fed # 0
  <1>2. /\ pending \in Nat /\ space \in Nat /\ fed \in Nat /\ lookahead \in Nat
        /\ pending_out \in Nat
    BY CallerAssumption DEF IInv, TypeOK
  <1>3. pc = "idle" /\ newParams = NoParams
    BY DEF write, IInv
  <1>4. /\ flush' = f /\ avail_in' = fed /\ unchangedByEntry
    BY <1>1 DEF doWrite
  <1>5. /\ newParams' = NoParams /\ UNCHANGED config
        /\ last_flush' \in {last_flush, f, "unset"}
        /\ \/ /\ avail_out' = space
              /\ UNCHANGED <<pending, pending_out>>
              /\ pc' = "idle" /\ ec' \in {"stream_error", "need_buffers"}
           \/ /\ avail_out' = space - len /\ pending' = pending - len
              /\ pending_out' = IF pending = len THEN 0 ELSE pending_out + len
              /\ \/ pc' = "idle" /\ ec' \in {"ok", "need_buffers"}
                 \/ /\ space # 0 /\ ~(pending # 0 /\ space = len) /\ ~refused /\ ec' = "ok"
                    /\ \/ busy /\ pc' = Top(lookahead)
                       \/ ~busy /\ f = "finish" /\ pc' = "trailer"
    <2> DEFINE enter(label) == /\ pc' = label /\ newParams' = NoParams /\ ec' = "ok"
                               /\ UNCHANGED config
               leave(e) == EndCall(NoParams, e)
    <2>1. IF status = "FINISH" /\ f # "finish" THEN
              /\ avail_out' = space /\ UNCHANGED <<pending, pending_out, last_flush>>
              /\ leave("stream_error")
          ELSE IF space = 0 THEN
              /\ avail_out' = space /\ UNCHANGED <<pending, pending_out, last_flush>>
              /\ leave("need_buffers")
          ELSE /\ avail_out' = space - len
               /\ pending' = pending - len
               /\ pending_out' = IF pending = len THEN 0 ELSE pending_out + len
               /\ IF pending # 0 /\ space = len THEN
                       last_flush' = "unset" /\ leave("ok")
                  ELSE /\ last_flush' = f
                       /\ IF refused THEN leave("need_buffers")
                          ELSE IF busy THEN enter(Top(lookahead))
                          ELSE IF f = "finish" THEN enter("trailer")
                          ELSE leave("ok")
      BY <1>1 DEF doWrite
    <2>2. ASSUME NEW e, leave(e)
          PROVE  pc' = "idle" /\ newParams' = NoParams /\ UNCHANGED config /\ ec' = e
      BY <2>2 DEF EndCall
    <2>3. CASE status = "FINISH" /\ f # "finish"
      <3>1. /\ avail_out' = space /\ UNCHANGED <<pending, pending_out, last_flush>>
            /\ leave("stream_error")
        BY <2>1, <2>3
      <3> HIDE DEF leave
      <3> QED BY <2>2, <3>1
    <2>4. CASE ~(status = "FINISH" /\ f # "finish") /\ space = 0
      <3>1. /\ avail_out' = space /\ UNCHANGED <<pending, pending_out, last_flush>>
            /\ leave("need_buffers")
        BY <2>1, <2>4
      <3> HIDE DEF leave
      <3> QED BY <2>2, <3>1
    <2>5. CASE ~(status = "FINISH" /\ f # "finish") /\ space # 0
      <3>1. /\ avail_out' = space - len
            /\ pending' = pending - len
            /\ pending_out' = IF pending = len THEN 0 ELSE pending_out + len
            /\ IF pending # 0 /\ space = len THEN
                    last_flush' = "unset" /\ leave("ok")
               ELSE /\ last_flush' = f
                    /\ IF refused THEN leave("need_buffers")
                       ELSE IF busy THEN enter(Top(lookahead))
                       ELSE IF f = "finish" THEN enter("trailer")
                       ELSE leave("ok")
        BY <2>1, <2>5
      <3> HIDE DEF leave, len, busy, refused
      <3> QED BY <2>2, <2>5, <3>1
    <2> QED BY <2>3, <2>4, <2>5
  <1>6. /\ len \in Nat /\ len <= pending /\ len <= space
        /\ len = pending \/ len = space
    BY <1>2 DEF Min2
  <1> HIDE DEF len
  <1>7. /\ avail_out' \in Nat /\ pending' \in Nat /\ pending_out' \in Nat
    <2>1. space - len \in Nat /\ pending - len \in Nat /\ pending_out + len \in Nat
      BY <1>2, <1>6
    <2> QED BY <1>2, <1>5, <2>1
  <1>8. PutsFindEmptyBuffer'
    <2>1. pending = 0 => pending_out = 0
      BY DEF IInv, PutsFindEmptyBuffer
    <2>2. pending - len = 0 => pending = len
      BY <1>2, <1>6
    <2>3. pending' = 0 => pending_out' = 0
      BY <1>5, <2>1, <2>2
    <2>4. ASSUME space # 0, ~(pending # 0 /\ space = len)
          PROVE  pending - len = 0 /\ space - len > 0
      BY <1>2, <1>6, <2>4
    <2>5. Top(lookahead) # "idle"
      BY DEF Top
    <2>6. pc' # "idle" => pending' = 0 /\ avail_out' > 0
      BY <1>5, <2>4
    <2> QED BY <2>3, <2>6 DEF PutsFindEmptyBuffer
  <1>9. pc' \in {"idle", "fill", "body", "trailer"}
    BY <1>5 DEF Top
  <1>10. ec' \in {"ok", "need_buffers", "stream_error"}
    BY <1>5
  <1>11. closed <=> status = "FINISH"
    BY DEF IInv, EndInv
  <1>12. closed => lookahead = 0
    BY DEF IInv, EndInv
  <1>13. /\ pc' = "fill" => lookahead < Need(Func)
         /\ pc' = "body" => lookahead >= Need(Func)
    <2>1. Need(Func) \in Nat
      BY NeedBounds
    <2> HIDE DEF busy, refused
    <2>2. pc' \in {"fill", "body"} => pc' = Top(lookahead)
      BY <1>5
    <2> QED BY <1>2, <2>1, <2>2 DEF Top
  <1>14. pc' = "trailer" => lookahead = 0 /\ closed
    <2> SUFFICES ASSUME pc' = "trailer" PROVE lookahead = 0 /\ closed
      OBVIOUS
    <2>1. Top(lookahead) # "trailer"
      BY DEF Top
    <2>2. ~busy /\ f = "finish"
      <3> HIDE DEF busy, refused
      <3> QED BY <1>5, <2>1
    <2> QED BY <1>11, <2>2
  <1>15. pc' \in {"fill", "body"} => ~closed
    <2> SUFFICES ASSUME pc' \in {"fill", "body"}, closed PROVE FALSE
      OBVIOUS
    <2>1. busy /\ ~refused
      <3> HIDE DEF busy, refused
      <3> QED BY <1>5
    <2>2. fed # 0
      BY <1>11, <1>12, <2>1
    <2> QED BY <1>11, <2>1, <2>2
  <1> HIDE DEF fed, busy, refused
  <1>16. TypeOK'
    <2>1. /\ flush' \in Flushes \cup {"none", "block"} /\ avail_in' \in Nat
          /\ last_flush' \in Flushes \cup {"none", "block", "unset"}
      BY <1>2, <1>4, <1>5 DEF IInv, TypeOK
    <2>2. /\ status' \in {"BUSY", "FINISH"}
          /\ level' \in Levels /\ strategy' \in Strategies
          /\ strstart' \in 0 .. window_size /\ lookahead' \in 0 .. window_size
          /\ block_start' \in Int /\ insert' \in 0 .. min_match - 1
          /\ high_water' \in 0 .. window_size /\ written' \subseteq 0 .. window_size - 1
          /\ match_length' \in 0 .. max_match /\ prev_length' \in 0 .. max_match
          /\ match_start' \in Int /\ match_available' \in BOOLEAN
          /\ last_lit' \in 0 .. lit_bufsize - 2
          /\ base' \in Nat /\ sent' \in Nat /\ covered' \in Nat
          /\ found' \in [at : Nat, src : Nat]
          /\ faithful' \in BOOLEAN /\ closed' \in BOOLEAN
          /\ full_mark' \in Nat /\ trailers' \in 0 .. MaxTrailers
      BY <1>4, <1>5, EntryTypes
    <2>3. /\ pc' \in {"idle", "fill", "body", "tail", "block_done", "trailer"}
          /\ ec' \in {"ok", "need_buffers", "stream_error", "end_of_stream"}
          /\ newParams' \in [level : Levels, strategy : Strategies] \cup {NoParams}
      BY <1>5, <1>9, <1>10
    <2> QED BY <1>7, <2>1, <2>2, <2>3 DEF TypeOK
  <1>17. WindowInv' /\ BlockInv' /\ MatchInv' /\ FullMarkInv' /\ EndInv'
    <2>1. /\ unchangedByEntry /\ newParams' = NoParams /\ UNCHANGED config
          /\ pc' # "tail" /\ ec' # "end_of_stream"
      BY <1>4, <1>5, <1>9, <1>10
    <2> QED BY <1>9, <1>10, <1>13, <1>14, <1>15, <2>1, EntryStep
  <1> QED
    BY <1>5, <1>8, <1>16, <1>17 DEF IInv

\* prime() puts bits before anything else is pending.
LEMMA PrimeStep ==
    ASSUME IInv, doPrime
    PROVE  IInv'
  <1>1. PICK n \in PrimeBytes : pending' = n
    BY DEF doPrime
  <1>2. /\ pc = "idle" /\ pending = 0 /\ ec' = "ok"
        /\ flush' = "none"
        /\ UNCHANGED <<pc, newParams, avail_in, avail_out, last_flush, config, pending_out>>
        /\ unchangedByEntry
    BY DEF doPrime
  <1>3. n \in Nat
    BY CallerAssumption
  <1>4. newParams' = NoParams /\ UNCHANGED config /\ pc' = "idle"
    BY <1>2 DEF IInv
  <1>5. TypeOK'
    <2>1. /\ status' \in {"BUSY", "FINISH"}
          /\ level' \in Levels /\ strategy' \in Strategies
          /\ strstart' \in 0 .. window_size /\ lookahead' \in 0 .. window_size
          /\ block_start' \in Int /\ insert' \in 0 .. min_match - 1
          /\ high_water' \in 0 .. window_size /\ written' \subseteq 0 .. window_size - 1
          /\ match_length' \in 0 .. max_match /\ prev_length' \in 0 .. max_match
          /\ match_start' \in Int /\ match_available' \in BOOLEAN
          /\ last_lit' \in 0 .. lit_bufsize - 2
          /\ base' \in Nat /\ sent' \in Nat /\ covered' \in Nat
          /\ found' \in [at : Nat, src : Nat]
          /\ faithful' \in BOOLEAN /\ closed' \in BOOLEAN
          /\ full_mark' \in Nat /\ trailers' \in 0 .. MaxTrailers
      BY <1>2, <1>4, EntryTypes
    <2> QED BY <1>1, <1>2, <1>3, <1>4, <2>1 DEF IInv, TypeOK
  <1>6. PutsFindEmptyBuffer'
    BY <1>2, <1>4 DEF IInv, PutsFindEmptyBuffer
  <1>7. WindowInv' /\ BlockInv' /\ MatchInv' /\ FullMarkInv' /\ EndInv'
    BY <1>2, <1>4, EntryStep
  <1> QED
    BY <1>4, <1>5, <1>6, <1>7 DEF IInv

-----------------------------------------------------------------------------
(* The specification *)

\* The invariant holds at first.
LEMMA InitInv == Init => IInv
  <1> SUFFICES ASSUME Init PROVE IInv
    OBVIOUS
  <1>1. TypeOK
    <2>1. /\ 0 \in 0 .. window_size /\ 2 \in 0 .. max_match /\ 0 \in 0 .. lit_bufsize - 2
          /\ 0 \in 0 .. 2
      BY Sizes
    <2>2. [at |-> 0, src |-> 0] \in [at : Nat, src : Nat]
      OBVIOUS
    <2>3. min_match - 1 = 2
      BY DEF min_match
    <2>4. /\ pc \in {"idle", "fill", "body", "tail", "block_done", "trailer"}
          /\ flush \in Flushes \cup {"none", "block"}
          /\ newParams \in [level : Levels, strategy : Strategies] \cup {NoParams}
          /\ ec \in {"ok", "need_buffers", "stream_error", "end_of_stream"}
          /\ status \in {"BUSY", "FINISH"}
          /\ last_flush \in Flushes \cup {"none", "block", "unset"}
          /\ level \in Levels /\ strategy \in Strategies
          /\ match_available \in BOOLEAN /\ faithful \in BOOLEAN /\ closed \in BOOLEAN
      BY DEF Init
    <2>5. /\ avail_in \in Nat /\ avail_out \in Nat /\ block_start \in Int
          /\ match_start \in Int /\ pending \in Nat /\ pending_out \in Nat
          /\ base \in Nat /\ sent \in Nat /\ covered \in Nat /\ full_mark \in Nat
          /\ trailers \in 0 .. MaxTrailers
      BY DEF Init, MaxTrailers
    <2>6. /\ strstart \in 0 .. window_size /\ lookahead \in 0 .. window_size
          /\ insert \in 0 .. min_match - 1 /\ high_water \in 0 .. window_size
          /\ written \subseteq 0 .. window_size - 1
          /\ match_length \in 0 .. max_match /\ prev_length \in 0 .. max_match
          /\ last_lit \in 0 .. lit_bufsize - 2
          /\ found \in [at : Nat, src : Nat]
      BY <2>1, <2>2, <2>3 DEF Init
    <2> QED BY <2>4, <2>5, <2>6 DEF TypeOK
  <1>2. waiting = 0
    BY DEF Init, waiting
  <1>3. BlockInv
    BY <1>2, Sizes DEF Init, BlockInv
  <1>4. WindowInv /\ MatchInv /\ FullMarkInv /\ EndInv /\ PutsFindEmptyBuffer
    BY DEF Init, WindowInv, MatchInv, FullMarkInv, EndInv, PutsFindEmptyBuffer, min_match
  <1> QED
    BY <1>1, <1>3, <1>4 DEF Init, IInv

\* A reset leads to a state that a construction could have led to.
LEMMA ResetStep ==
    ASSUME doReset
    PROVE  IInv'
  <1>1. Init'
    BY DEF doReset, Init
  <1> QED
    BY <1>1, InitInv, PTL

\* Every step of a stream whose params() is not called keeps the invariant.
LEMMA Step ==
    ASSUME ParamsOut = {}, IInv, [Next]_vars
    PROVE  IInv'
  <1>1. CASE UNCHANGED vars
    <2>1. Func' = Func /\ waiting' = waiting
      BY <1>1 DEF vars, config, match, Func, waiting
    <2>2. TypeOK' /\ PutsFindEmptyBuffer' /\ newParams' = NoParams
      BY <1>1 DEF IInv, TypeOK, PutsFindEmptyBuffer, vars, config, win, match, block, out
    <2>3. WindowInv' /\ FullMarkInv' /\ EndInv'
      BY <1>1, <2>1 DEF IInv, WindowInv, FullMarkInv, EndInv, vars, win, match, block
    <2>4. BlockInv'
      BY <1>1, <2>1 DEF IInv, BlockInv, vars, win, match, block
    <2>5. MatchInv'
      BY <1>1, <2>1 DEF IInv, MatchInv, Genuine, vars, win, match, block
    <2> QED BY <2>2, <2>3, <2>4, <2>5 DEF IInv
  <1>2. CASE write
    BY <1>2, WriteStep
  <1>3. CASE doParams
    BY <1>3 DEF doParams
  <1>4. CASE doPrime
    BY <1>4, PrimeStep
  <1>5. CASE doReset
    BY <1>5, ResetStep
  <1>6. CASE Inside
    BY <1>6, FillStep, StoredStep, FastStep, SlowStep, RleStep, HuffStep, FinishBlockStep,
       BlockDoneStep, TrailerStep DEF Inside
  <1> QED
    BY <1>1, <1>2, <1>3, <1>4, <1>5, <1>6 DEF Next

-----------------------------------------------------------------------------
(* The theorems *)

(***************************************************************************)
(* The invariant: between any two steps of a stream whose level and        *)
(* strategy stay as they were at the start, the finished blocks, the       *)
(* symbols of the current block, the byte in waiting and the lookahead     *)
(* follow one another in the window, and a put finds an empty buffer.      *)
(***************************************************************************)
THEOREM Invariance == ASSUME ParamsOut = {} PROVE Spec => []IInv
  <1>1. Init => IInv
    BY InitInv
  <1>2. IInv /\ [Next]_vars => IInv'
    BY Step
  <1> QED
    BY <1>1, <1>2, PTL DEF Spec

(***************************************************************************)
(* Types: the state of the deflate_stream stays in its ranges, whatever    *)
(* buffers the calls of write() bring.                                     *)
(***************************************************************************)
THEOREM TypeCorrect == ASSUME ParamsOut = {} PROVE Spec => []TypeOK
  <1>1. IInv => TypeOK
    BY DEF IInv
  <1> QED
    BY <1>1, Invariance, PTL

(***************************************************************************)
(* The pending buffer: put_byte, which ignores pending_out_, is only       *)
(* called when the buffer is empty.                                        *)
(***************************************************************************)
THEOREM PutsAreInOrder == ASSUME ParamsOut = {} PROVE Spec => []PutsFindEmptyBuffer
  <1>1. IInv => PutsFindEmptyBuffer
    BY DEF IInv
  <1> QED
    BY <1>1, Invariance, PTL

(***************************************************************************)
(* Losslessness: for every window, symbol buffer, input and output split,  *)
(* level, strategy and sequence of flushes, the blocks that the compressor *)
(* puts stand for exactly the input, in order.                             *)
(***************************************************************************)
THEOREM NothingIsLost == ASSUME ParamsOut = {} PROVE Spec => []Lossless
  <1>1. ASSUME IInv PROVE Lossless
    <2>1. faithful /\ sent = base + block_start
      BY <1>1 DEF IInv, BlockInv
    <2>2. ASSUME pc = "idle", ec = "end_of_stream" PROVE sent = total_in
      <3>1. lookahead = 0 /\ block_start = strstart
        BY <1>1, <2>2 DEF IInv, EndInv
      <3>2. strstart \in Nat /\ base \in Nat
        BY <1>1, BodyTypes DEF IInv
      <3> QED BY <2>1, <3>1, <3>2 DEF total_in
    <2> QED BY <2>1, <2>2 DEF Lossless
  <1> QED
    BY <1>1, Invariance, PTL

-----------------------------------------------------------------------------
(* What the searches compare: WrittenInv, step by step *)

\* A step that takes bytes from the lookahead only, or none.
LEMMA KeepsWritten ==
    ASSUME IInv, WrittenInv, written' = written, high_water' = high_water,
           NEW len \in Int, strstart' = strstart + len, lookahead' = lookahead - len
    PROVE  WrittenInv'
  <1>1. strstart \in Int /\ lookahead \in Int
    BY BodyTypes DEF IInv
  <1>2. /\ strstart' \in Int /\ lookahead' \in Int
        /\ strstart' + lookahead' = strstart + lookahead
    BY <1>1
  <1>3. \A i \in 0 .. strstart' + lookahead' - 1 : i \in written'
    <2>1. strstart' + lookahead' - 1 = strstart + lookahead - 1
      BY <1>1, <1>2
    <2> QED BY <2>1, Zenon DEF WrittenInv
  <1>4. \A i \in 0 .. high_water' - 1 : i \in written' \/ CopiedUnwritten(i)
    BY DEF WrittenInv
  <1>5. \/ strstart' + lookahead' = 0
        \/ strstart' + lookahead' + max_match <= high_water'
        \/ high_water' = window_size
    BY <1>2 DEF WrittenInv
  <1> QED BY <1>3, <1>4, <1>5 DEF WrittenInv, CopiedUnwritten

\* The refill: the slide copies all of the upper half, the data and the zeroed bytes follow it.
LEMMA FillWritten ==
    ASSUME IInv, WrittenInv, fill_window
    PROVE  WrittenInv'
  <1> DEFINE slide == IF strstart >= w_size + max_dist THEN w_size ELSE 0
             start == strstart - slide
             more  == window_size - lookahead - start
             n     == Min2(avail_in, more)
             curr  == start + lookahead + n
             ahead == Min2(curr + kwin_init, window_size)
             hw    == Max2(high_water, ahead)
             moved == IF slide > 0 THEN Slid(written) ELSE written
  <1>1. /\ pc = "fill" /\ strstart' = start /\ lookahead' = lookahead + n
        /\ high_water' = hw
        /\ written' = moved \cup (start + lookahead .. curr - 1)
                      \cup (Max2(high_water, curr) .. ahead - 1)
    BY DEF fill_window
  <1>2. /\ strstart \in Nat /\ lookahead \in Nat /\ avail_in \in Nat
        /\ high_water \in Nat /\ high_water <= window_size
    BY BodyTypes DEF IInv, TypeOK
  <1>3. strstart + lookahead <= high_water /\ lookahead < kmin_lookahead
    <2>1. Need(Func) \in Nat /\ Need(Func) <= kmin_lookahead
      BY NeedBounds
    <2>2. strstart + lookahead <= high_water /\ lookahead < Need(Func)
      BY <1>1 DEF IInv, WindowInv
    <2> QED BY <1>2, <2>1, <2>2, Sizes
  <1>4. /\ slide \in {0, w_size} /\ start \in Nat /\ start < w_size + max_dist
        /\ n \in Nat /\ curr \in Nat /\ curr = start + lookahead + n
        /\ curr <= window_size
        /\ slide = w_size => strstart >= w_size + max_dist
    BY <1>2, <1>3, Sizes DEF Min2
  <1>5. /\ ahead \in Nat /\ curr <= ahead /\ ahead <= window_size
        /\ ahead = window_size \/ curr + max_match <= ahead
    <2> HIDE DEF curr
    <2> QED BY <1>4, Sizes DEF Min2
  <1> HIDE DEF n, curr, ahead, moved
  <1>6. strstart' \in Int /\ lookahead' \in Int /\ strstart' + lookahead' = curr
    BY <1>1, <1>2, <1>4
  <1>7. /\ hw \in Nat /\ hw >= high_water /\ hw >= ahead /\ hw <= window_size
        /\ hw = high_water \/ hw = ahead
    BY <1>2, <1>5 DEF Max2
  <1> HIDE DEF hw
  <1>8. \A i \in 0 .. start + lookahead - 1 : i \in moved
    <2> SUFFICES ASSUME NEW i \in 0 .. start + lookahead - 1 PROVE i \in moved
      OBVIOUS
    <2>1. CASE slide = 0
      BY <1>2, <2>1 DEF WrittenInv, moved
    <2>2. CASE slide = w_size
      <3>1. w_size \in Nat /\ w_size >= 1 /\ window_size = 2 * w_size
        BY Sizes
      <3>2. start = strstart - w_size
        BY <2>2
      <3>3. i + w_size \in 0 .. strstart + lookahead - 1 /\ i < w_size
        BY <1>2, <1>3, <1>4, <3>1, <3>2
      <3>4. i + w_size \in written
        BY <3>3 DEF WrittenInv
      <3>5. i \in Slid(written)
        BY <3>1, <3>3, <3>4 DEF Slid
      <3>6. slide > 0
        BY <2>2, <3>1
      <3> QED BY <3>5, <3>6 DEF moved
    <2> QED BY <1>4, <2>1, <2>2
  <1>9. \A i \in 0 .. curr - 1 : i \in written'
    <2> SUFFICES ASSUME NEW i \in 0 .. curr - 1 PROVE i \in written'
      OBVIOUS
    <2>1. CASE i < start + lookahead
      <3>1. i \in 0 .. start + lookahead - 1
        BY <1>2, <1>4, <2>1
      <3> QED BY <1>1, <1>8, <3>1
    <2>2. CASE i >= start + lookahead
      <3>1. i \in start + lookahead .. curr - 1
        BY <1>2, <1>4, <2>2
      <3> QED BY <1>1, <3>1
    <2> QED BY <1>2, <1>4, <2>1, <2>2
  <1>10. \A i \in 0 .. high_water - 1 : i \in moved \/ CopiedUnwritten(i)
    <2> SUFFICES ASSUME NEW i \in 0 .. high_water - 1 PROVE i \in moved \/ CopiedUnwritten(i)
      OBVIOUS
    <2>1. CASE slide = 0
      BY <2>1 DEF WrittenInv, moved
    <2>2. CASE slide = w_size
      <3>1. w_size \in Nat /\ w_size >= 1 /\ window_size = 2 * w_size /\ i \in Nat
        BY Sizes
      <3>2. moved = Slid(written)
        BY <2>2, <3>1 DEF moved
      <3>3. CASE i >= w_size
        <4>1. ~CopiedUnwritten(i)
          BY <3>1, <3>3, Sizes DEF CopiedUnwritten
        <4>2. i \in written
          BY <4>1 DEF WrittenInv
        <4>3. i \in 0 .. window_size - 1 /\ ~(i < w_size)
          BY <1>2, <3>1, <3>3
        <4> QED BY <3>2, <4>2, <4>3 DEF Slid
      <3>4. CASE i < w_size /\ i + w_size < high_water
        <4>1. i + w_size \in 0 .. high_water - 1 /\ i \in 0 .. window_size - 1
          BY <1>2, <3>1, <3>4
        <4>2. ~CopiedUnwritten(i + w_size)
          BY <3>1, Sizes DEF CopiedUnwritten
        <4>3. i + w_size \in written
          BY <4>1, <4>2 DEF WrittenInv
        <4> QED BY <3>2, <3>4, <4>1, <4>3 DEF Slid
      <3>5. CASE i < w_size /\ i + w_size >= high_water
        <4>1. strstart >= w_size + max_dist
          BY <1>4, <2>2, <3>1
        <4>2. \/ strstart + lookahead + max_match <= high_water
              \/ high_water = window_size
          BY <1>2, <4>1, Sizes DEF WrittenInv
        <4>3. high_water >= w_size + max_dist + max_match
          BY <1>2, <4>1, <4>2, Sizes
        <4>4. i \in w_size - 4 .. w_size - 1
          BY <1>2, <3>1, <3>5, <4>3, Sizes
        <4>5. kmin_lookahead - max_match = 4
          BY Sizes
        <4> QED BY <4>4, <4>5 DEF CopiedUnwritten
      <3> QED BY <1>2, <3>1, <3>3, <3>4, <3>5
    <2> QED BY <1>4, <2>1, <2>2
  <1>11. \A i \in 0 .. hw - 1 : i \in written' \/ CopiedUnwritten(i)
    <2> SUFFICES ASSUME NEW i \in 0 .. hw - 1
                 PROVE  i \in written' \/ CopiedUnwritten(i)
      OBVIOUS
    <2>1. CASE i < high_water
      <3>1. i \in 0 .. high_water - 1
        BY <1>2, <2>1
      <3> QED BY <1>1, <1>10, <3>1
    <2>2. CASE i < curr
      <3>1. i \in 0 .. curr - 1
        BY <1>4, <2>2
      <3> QED BY <1>9, <3>1
    <2>3. CASE i >= high_water /\ i >= curr
      <3>1. i < ahead
        BY <1>2, <1>5, <1>7, <2>3
      <3>2. i \in Max2(high_water, curr) .. ahead - 1
        BY <1>2, <1>4, <1>5, <2>3, <3>1 DEF Max2
      <3> QED BY <1>1, <3>2
    <2> QED BY <1>2, <1>4, <1>7, <2>1, <2>2, <2>3
  <1>12. curr + max_match <= hw \/ hw = window_size
    BY <1>4, <1>5, <1>7, Sizes
  <1>13. \A i \in 0 .. strstart' + lookahead' - 1 : i \in written'
    <2>1. strstart' + lookahead' - 1 = curr - 1
      BY <1>4, <1>6
    <2> QED BY <1>9, <2>1, Zenon
  <1>14. \/ strstart' + lookahead' + max_match <= high_water'
         \/ high_water' = window_size
    BY <1>1, <1>6, <1>12
  <1>15. \A i \in 0 .. high_water' - 1 : i \in written' \/ CopiedUnwritten(i)
    BY <1>1, <1>11, Zenon
  <1> QED BY <1>13, <1>14, <1>15 DEF WrittenInv, CopiedUnwritten

\* The passes: each takes some of the lookahead.
LEMMA PassWritten ==
    ASSUME IInv, WrittenInv, f_stored \/ f_fast \/ f_slow \/ f_rle \/ f_huff
    PROVE  WrittenInv'
  <1>1. written' = written /\ high_water' = high_water
    BY DEF f_stored, f_fast, f_slow, f_rle, f_huff, bodyUnchanged
  <1>2. strstart \in Nat /\ lookahead \in Nat /\ block_start \in Int /\ match_length \in Nat
    BY BodyTypes DEF IInv
  <1>3. PICK len \in Int : strstart' = strstart + len /\ lookahead' = lookahead - len
    <2>1. CASE f_stored
      <3> DEFINE all == strstart + lookahead
                 end == Min2(all, block_start + max_block_size)
      <3>1. strstart' = end /\ lookahead' = all - end
        BY <2>1 DEF f_stored
      <3>2. end \in Int
        BY <1>2, Sizes DEF Min2
      <3> HIDE DEF end
      <3>3. /\ end - strstart \in Int /\ strstart' = strstart + (end - strstart)
            /\ lookahead' = lookahead - (end - strstart)
        BY <1>2, <3>1, <3>2
      <3> QED BY <3>3
    <2>2. CASE f_fast
      <3>1. PICK s \in {[len |-> match_length, start |-> match_start, found |-> found]} \cup
                       (IF CanSearch THEN longest_match(prev_length) ELSE {}) :
            LET len == IF s.len >= min_match THEN s.len ELSE 1
            IN  strstart' = strstart + len /\ lookahead' = lookahead - len
        BY <2>2 DEF f_fast
      <3>2. s.len \in Nat
        BY BodyTypes, LongestMatchFacts, <3>1 DEF IInv
      <3> DEFINE len == IF s.len >= min_match THEN s.len ELSE 1
      <3>3. len \in Int
        BY <3>2
      <3> QED BY <3>1, <3>3
    <2>3. CASE f_slow
      <3>1. \/ /\ strstart' = strstart + match_length - 1
               /\ lookahead' = lookahead - (match_length - 1)
            \/ strstart' = strstart + 1 /\ lookahead' = lookahead - 1
        BY <2>3 DEF f_slow
      <3>2. match_length - 1 \in Int /\ strstart + match_length - 1 = strstart + (match_length - 1)
        BY <1>2
      <3> QED BY <3>1, <3>2
    <2>4. CASE f_rle
      <3>1. PICK len \in {1} \cup
                  (IF strstart > 0 THEN min_match .. Min2(max_match, lookahead) ELSE {}) :
            strstart' = strstart + len /\ lookahead' = lookahead - len
        BY <2>4 DEF f_rle
      <3>2. len \in Int
        BY <1>2, Sizes DEF min_match, Min2
      <3> QED BY <3>1, <3>2
    <2>5. CASE f_huff
      BY <2>5 DEF f_huff
    <2> QED BY <2>1, <2>2, <2>3, <2>4, <2>5
  <1> QED BY <1>1, <1>3, KeepsWritten

\* The steps between the passes and the calls, and those that begin a call.
LEMMA OtherWritten ==
    ASSUME IInv, WrittenInv, unchangedByEntry \/ finish_block \/ block_done \/ trailer
    PROVE  WrittenInv'
  <1>1. written' = written /\ high_water' = high_water /\ lookahead' = lookahead
    BY DEF unchangedByEntry, finish_block, block_done, trailer, win
  <1>2. strstart \in Nat /\ lookahead \in Nat /\ high_water \in Nat
    BY BodyTypes DEF IInv
  <1>3. CASE strstart' = strstart
    <2>1. strstart' = strstart + 0 /\ lookahead' = lookahead - 0
      BY <1>1, <1>2, <1>3
    <2> QED BY <1>1, <2>1, KeepsWritten
  <1>4. CASE strstart' = 0 /\ lookahead = 0
    <2>1. strstart' = 0 /\ lookahead' = 0 /\ strstart' + lookahead' = 0
      BY <1>1, <1>4
    <2>2. \A i \in 0 .. strstart' + lookahead' - 1 : i \in written'
      BY <2>1
    <2>3. \A i \in 0 .. high_water' - 1 : i \in written' \/ CopiedUnwritten(i)
      BY <1>1 DEF WrittenInv
    <2> QED BY <2>1, <2>2, <2>3 DEF WrittenInv, CopiedUnwritten
  <1>5. strstart' = strstart \/ (strstart' = 0 /\ lookahead = 0)
    BY DEF unchangedByEntry, finish_block, block_done, trailer, win, forget_history
  <1> QED BY <1>3, <1>4, <1>5

\* Nothing is written at the start.
LEMMA InitWritten == Init => WrittenInv
  BY DEF Init, WrittenInv

\* Every step of a stream whose params() is not called.
LEMMA WrittenStep ==
    ASSUME ParamsOut = {}, IInv, WrittenInv, [Next]_vars
    PROVE  WrittenInv'
  <1>1. CASE UNCHANGED vars
    BY <1>1 DEF vars, win, WrittenInv, CopiedUnwritten
  <1>2. CASE write \/ doPrime
    <2>1. unchangedByEntry
      BY <1>2 DEF write, doPrime, doWrite
    <2> QED BY <2>1, OtherWritten
  <1>3. CASE doParams
    BY <1>3 DEF doParams
  <1>4. CASE doReset
    <2>1. Init'
      BY <1>4 DEF doReset, Init
    <2> QED BY <2>1, InitWritten, PTL
  <1>5. CASE Inside
    BY <1>5, FillWritten, PassWritten, OtherWritten DEF Inside
  <1> QED
    BY <1>1, <1>2, <1>3, <1>4, <1>5 DEF Next

(***************************************************************************)
(* Searches: longest_match and f_rle never compare bytes past the window,  *)
(* or bytes that were not written or zeroed, but for the at most four past *)
(* the lookahead that fill_window's slide copied with the upper half.      *)
(***************************************************************************)
THEOREM SearchesStayInWindow == ASSUME ParamsOut = {} PROVE Spec => []SearchStaysInWindow
  <1>1. ASSUME IInv, WrittenInv PROVE SearchStaysInWindow
    <2> SUFFICES ASSUME pc = "body", Hashing \/ Func = "rle"
                 PROVE  /\ Hashing => strstart <= window_size - kmin_lookahead
                        /\ strstart + max_match < window_size
                        /\ \A i \in 0 .. strstart + max_match :
                              \/ i \in written
                              \/ i >= strstart + lookahead /\ CopiedUnwritten(i)
      BY DEF SearchStaysInWindow
    <2>1. /\ strstart \in Nat /\ lookahead \in Nat /\ high_water \in Nat
          /\ high_water <= window_size
      BY <1>1, BodyTypes DEF IInv
    <2>2. /\ strstart + lookahead <= high_water /\ lookahead >= 1
          /\ lookahead >= Need(Func) \/
             /\ strstart < w_size + max_dist
             /\ \/ strstart + lookahead + max_match <= high_water
                \/ high_water = window_size
      BY <1>1 DEF IInv, WindowInv
    <2>3. /\ Hashing => Need(Func) = kmin_lookahead
          /\ Need(Func) \in Nat /\ Need(Func) >= max_match + 1
      BY NeedBounds, Sizes DEF Hashing
    <2>4. Hashing => strstart <= window_size - kmin_lookahead
      BY <2>1, <2>2, <2>3, Sizes
    <2>5. strstart + max_match < high_water
      BY <2>1, <2>2, <2>3, Sizes
    <2>6. ASSUME NEW i \in 0 .. strstart + max_match
          PROVE  i \in written \/ (i >= strstart + lookahead /\ CopiedUnwritten(i))
      <3>1. CASE i >= strstart + lookahead
        <4>1. i \in 0 .. high_water - 1
          BY <2>1, <2>5, Sizes
        <4> QED BY <1>1, <3>1, <4>1 DEF WrittenInv
      <3>2. CASE i < strstart + lookahead
        <4>1. i \in 0 .. strstart + lookahead - 1
          BY <2>1, <3>2, Sizes
        <4> QED BY <1>1, <4>1 DEF WrittenInv
      <3> QED BY <2>1, <3>1, <3>2, Sizes
    <2>7. strstart + max_match < window_size
      BY <2>1, <2>5, Sizes
    <2> QED BY <2>4, <2>6, <2>7
  <1>2. Init => IInv /\ WrittenInv
    BY InitInv, InitWritten
  <1>3. IInv /\ WrittenInv /\ [Next]_vars => IInv' /\ WrittenInv'
    BY Step, WrittenStep
  <1> QED
    BY <1>1, <1>2, <1>3, PTL DEF Spec

\* Before a refill the lookahead is short, so there is room.
LEMMA RoomToFill ==
    ASSUME IInv
    PROVE  FillsOnce
  <1> DEFINE slide == IF strstart >= w_size + max_dist THEN w_size ELSE 0
             more  == window_size - lookahead - strstart + slide
  <1> SUFFICES ASSUME pc = "fill"
               PROVE  /\ more >= 2
                      /\ avail_in <= more \/ lookahead + more >= kmin_lookahead
                      /\ insert <= strstart
    BY DEF FillsOnce
  <1>1. /\ strstart \in Nat /\ lookahead \in Nat /\ high_water \in Nat
        /\ high_water <= window_size
    BY BodyTypes DEF IInv
  <1>2. /\ strstart + lookahead <= high_water /\ lookahead < Need(Func)
        /\ insert <= strstart
    BY DEF IInv, WindowInv
  <1>3. Need(Func) \in Nat /\ Need(Func) <= kmin_lookahead
    BY NeedBounds
  <1>4. more >= 2 /\ lookahead + more >= kmin_lookahead
    BY <1>1, <1>2, <1>3, Sizes
  <1> QED BY <1>2, <1>4

(***************************************************************************)
(* Refills: whenever fill_window is called there is room, one pass of its  *)
(* loop is enough, and the strings it hashes are in the window.            *)
(***************************************************************************)
THEOREM RefillsHaveRoom == ASSUME ParamsOut = {} PROVE Spec => []FillsOnce
  <1>1. IInv => FillsOnce
    BY RoomToFill
  <1> QED
    BY <1>1, Invariance, PTL

(***************************************************************************)
(* Level 0: the bytes of a stored block are in the window when the block   *)
(* is put, and the block fits the pending buffer.                          *)
(***************************************************************************)
THEOREM StoredBlocksStayInWindow == ASSUME ParamsOut = {} PROVE Spec => []StoredBlockInWindow
  <1>1. ASSUME IInv PROVE StoredBlockInWindow
    <2> SUFFICES ASSUME Func = "stored"
                 PROVE  /\ strstart < w_size + max_dist \/ block_start >= w_size
                        /\ block_start >= 0 /\ strstart - block_start < max_block_size
      BY DEF StoredBlockInWindow
    <2>1. strstart \in Nat /\ block_start \in Int
      BY <1>1, BodyTypes DEF IInv
    <2>2. /\ block_start >= 0 /\ strstart - block_start < max_dist
          /\ strstart - block_start < max_block_size
      BY <1>1 DEF IInv, BlockInv
    <2>3. strstart < w_size + max_dist \/ block_start >= w_size
      BY <2>1, <2>2, Sizes
    <2> QED BY <2>2, <2>3
  <1> QED
    BY <1>1, Invariance, PTL

(***************************************************************************)
(* Flush::full: no match that is found after it copies from before it.     *)
(***************************************************************************)
THEOREM FullFlushesIsolate == ASSUME ParamsOut = {} PROVE Spec => []FullFlushIsolates
  <1>1. IInv => FullFlushIsolates
    BY DEF IInv, FullMarkInv, FullFlushIsolates
  <1> QED
    BY <1>1, Invariance, PTL

-----------------------------------------------------------------------------
(* The refinement of StreamPipe, when params() is not called: each step of *)
(* DeflateStream is a step of the pipe, or none. *)

\* What of the state the pipe shows.
PipeStep == SP!PipeNext \/ UNCHANGED <<total_in, sent, closed>>

\* The positions the pipe is made of.
Where ==
    /\ base \in Nat /\ strstart \in Nat /\ lookahead \in Nat /\ block_start \in Int
    /\ sent \in Nat /\ total_in \in Nat
    /\ sent = base + block_start /\ block_start <= strstart
    /\ sent <= total_in

\* Where the blocks sent end, in the invariant.
LEMMA Positions == IInv => Where
  <1> SUFFICES ASSUME IInv PROVE Where
    OBVIOUS
  <1>1. /\ base \in Nat /\ strstart \in Nat /\ lookahead \in Nat /\ block_start \in Int
        /\ sent \in Nat
    BY BodyTypes DEF IInv
  <1>2. sent = base + block_start /\ block_start <= strstart
    BY DEF IInv, BlockInv
  <1>3. total_in \in Nat /\ sent <= total_in
    BY <1>1, <1>2 DEF total_in
  <1> QED BY <1>1, <1>2, <1>3 DEF Where

\* The last block closes the stream.
Closing == closed \in BOOLEAN /\ (closed <=> status = "FINISH")

\* The stream is closed when its status is FINISH.
LEMMA ClosedAtFinish == IInv => Closing
  BY DEF IInv, TypeOK, EndInv, Closing

\* A step that takes nothing in, closes nothing and moves the end of the blocks forward.
LEMMA BlocksGrow ==
    ASSUME IInv, IInv', ~closed, status' = status,
           base' = base,
           NEW len \in Int, strstart' = strstart + len, lookahead' = lookahead - len,
           block_start' >= block_start
    PROVE  PipeStep
  <1>1. Where /\ Where'
    BY Positions, PTL
  <1>2. Closing /\ Closing'
    BY ClosedAtFinish, PTL
  <1>3. closed' = closed
    BY <1>2 DEF Closing
  <1>a. /\ base \in Nat /\ strstart \in Nat /\ lookahead \in Nat /\ block_start \in Int
        /\ sent \in Nat /\ total_in \in Nat /\ sent = base + block_start
    BY <1>1 DEF Where
  <1>b. /\ base' \in Nat /\ strstart' \in Nat /\ lookahead' \in Nat /\ block_start' \in Int
        /\ sent' \in Nat /\ total_in' \in Nat /\ sent' = base' + block_start'
        /\ sent' <= total_in'
    BY <1>1 DEF Where
  <1>4. total_in' = total_in
    BY <1>a, <1>b DEF total_in
  <1>5. sent' >= sent /\ sent' <= total_in' /\ sent \in Nat /\ sent' \in Nat
    <2>1. PICK e \in Int : e = block_start'
      BY <1>b
    <2>2. e >= block_start
      BY <2>1
    <2>3. sent' = base + e
      BY <1>b, <2>1
    <2>4. base + e >= base + block_start
      BY <1>a, <2>2
    <2> QED BY <1>a, <1>b, <2>3, <2>4
  <1>6. CASE sent' = sent
    BY <1>3, <1>4, <1>6 DEF PipeStep
  <1>7. CASE sent' # sent
    <2>1. sent < sent' /\ sent' <= total_in
      BY <1>4, <1>5, <1>7
    <2> QED BY <1>3, <1>4, <1>5, <2>1 DEF PipeStep, SP!PipeNext, SP!Encode
  <1> QED BY <1>6, <1>7

\* A symbol moves the start of the block forward, or leaves it.
LEMMA TallyForward ==
    ASSUME NEW pos, NEW len, NEW genuine, NEW end \in Int, block_start \in Int,
           end >= block_start, tally(pos, len, genuine, end)
    PROVE  block_start' >= block_start
  <1>1. block_start' = end \/ block_start' = block_start
    BY DEF tally, flush_block
  <1> QED BY <1>1

\* The passes of the five functions.
LEMMA PassPipe ==
    ASSUME IInv, IInv', pc = "body", f_stored \/ f_fast \/ f_slow \/ f_rle \/ f_huff
    PROVE  PipeStep
  <1>1. Where
    BY Positions
  <1>2. /\ base \in Nat /\ strstart \in Nat /\ lookahead \in Nat /\ block_start \in Int
        /\ block_start <= strstart
    BY <1>1 DEF Where
  <1>3. ~closed
    BY DEF IInv, EndInv
  <1>4. bodyUnchanged
    BY DEF f_stored, f_fast, f_slow, f_rle, f_huff
  <1>5. base' = base /\ status' = status
    BY <1>4 DEF bodyUnchanged
  <1>6. PICK len \in Int : /\ strstart' = strstart + len /\ lookahead' = lookahead - len
                           /\ block_start' >= block_start
    <2>1. CASE f_stored
      <3> DEFINE all == strstart + lookahead
                 end == Min2(all, block_start + max_block_size)
      <3>1. /\ strstart' = end /\ lookahead' = all - end
            /\ block_start' = end \/ block_start' = block_start
        BY <2>1 DEF f_stored, flush_block, no_flush_block
      <3>2. end \in Int /\ end >= block_start
        BY <1>2, Sizes DEF Min2
      <3>3. /\ strstart' = strstart + (end - strstart)
            /\ lookahead' = lookahead - (end - strstart)
        <4> HIDE DEF end
        <4> QED BY <1>2, <3>1, <3>2
      <3>4. block_start' >= block_start
        <4> HIDE DEF end
        <4> QED BY <1>2, <3>1, <3>2
      <3>5. end - strstart \in Int
        <4> HIDE DEF end
        <4> QED BY <1>2, <3>2
      <3> QED BY <3>3, <3>4, <3>5
    <2>2. CASE f_fast
      <3>1. PICK s \in {[len |-> match_length, start |-> match_start, found |-> found]} \cup
                       (IF CanSearch THEN longest_match(prev_length) ELSE {}) :
            LET len == IF s.len >= min_match THEN s.len ELSE 1
            IN  /\ tally(strstart, len,
                         s.len >= min_match => Genuine(strstart, s.start, s.found),
                         strstart + len)
                /\ strstart' = strstart + len
                /\ lookahead' = lookahead - len
        BY <2>2 DEF f_fast
      <3>2. s.len \in Nat
        BY BodyTypes, LongestMatchFacts, <3>1 DEF IInv
      <3> DEFINE len == IF s.len >= min_match THEN s.len ELSE 1
      <3>3. len \in Nat
        BY <3>2
      <3>4. strstart + len \in Int /\ strstart + len >= block_start
        <4> HIDE DEF len
        <4> QED BY <1>2, <3>3
      <3>5. block_start' >= block_start
        <4>1. tally(strstart, len, s.len >= min_match => Genuine(strstart, s.start, s.found),
                    strstart + len)
          BY <3>1
        <4> HIDE DEF len
        <4> QED BY <1>2, <3>4, <4>1, TallyForward
      <3> QED BY <3>1, <3>3, <3>5
    <2>3. CASE f_slow
      <3>1. match_length \in Nat
        BY BodyTypes DEF IInv
      <3>2. CASE /\ match_length >= min_match
                 /\ tally(strstart - 1, match_length,
                          Genuine(strstart - 1, match_start, found),
                          strstart + match_length - 1)
                 /\ strstart' = strstart + match_length - 1
                 /\ lookahead' = lookahead - (match_length - 1)
        <4>1. strstart + match_length - 1 \in Int /\ strstart + match_length - 1 >= block_start
          BY <1>2, <3>1, <3>2 DEF min_match
        <4>2. block_start' >= block_start
          BY <1>2, <3>2, <4>1, TallyForward
        <4>3. strstart' = strstart + (match_length - 1) /\ match_length - 1 \in Int
          BY <1>2, <3>1, <3>2
        <4> QED BY <3>2, <4>2, <4>3
      <3>3. CASE /\ IF match_available THEN tally(strstart - 1, 1, TRUE, strstart)
                    ELSE no_flush_block
                 /\ strstart' = strstart + 1
                 /\ lookahead' = lookahead - 1
        <4>1. CASE match_available
          <5>1. tally(strstart - 1, 1, TRUE, strstart)
            BY <3>3, <4>1
          <5>2. strstart \in Int /\ strstart >= block_start
            BY <1>2
          <5>3. block_start' >= block_start
            BY <1>2, <5>1, <5>2, TallyForward
          <5> QED BY <3>3, <5>3
        <4>2. CASE ~match_available
          BY <1>2, <3>3, <4>2 DEF no_flush_block
        <4> QED BY <3>3, <4>1, <4>2
      <3> QED BY <2>3, <3>2, <3>3 DEF f_slow
    <2>4. CASE f_rle
      <3>1. PICK len \in {1} \cup
                  (IF strstart > 0 THEN min_match .. Min2(max_match, lookahead) ELSE {}) :
            /\ tally(strstart, len, TRUE, strstart + len)
            /\ strstart' = strstart + len /\ lookahead' = lookahead - len
        BY <2>4 DEF f_rle
      <3>2. len \in Nat
        BY <1>2, Sizes DEF min_match, Min2
      <3>3. strstart + len \in Int /\ strstart + len >= block_start
        BY <1>2, <3>2
      <3>4. block_start' >= block_start
        BY <1>2, <3>1, <3>3, TallyForward
      <3> QED BY <3>1, <3>2, <3>4
    <2>5. CASE f_huff
      <3>1. /\ tally(strstart, 1, TRUE, strstart + 1)
            /\ strstart' = strstart + 1 /\ lookahead' = lookahead - 1
        BY <2>5 DEF f_huff
      <3>2. strstart + 1 \in Int /\ strstart + 1 >= block_start
        BY <1>2
      <3>3. block_start' >= block_start
        BY <1>2, <3>1, <3>2, TallyForward
      <3> QED BY <3>1, <3>3
    <2> QED BY <2>1, <2>2, <2>3, <2>4, <2>5
  <1> QED BY <1>3, <1>5, <1>6, BlocksGrow

\* A refill accepts the input it takes.
LEMMA FillPipe ==
    ASSUME IInv, IInv', fill_window
    PROVE  PipeStep
  <1> DEFINE slide == IF strstart >= w_size + max_dist THEN w_size ELSE 0
             start == strstart - slide
             more  == window_size - lookahead - start
             n     == Min2(avail_in, more)
  <1>1. /\ pc = "fill" /\ strstart' = start /\ base' = base + slide
        /\ lookahead' = lookahead + n /\ UNCHANGED <<sent, closed>>
    BY DEF fill_window
  <1>2. Where /\ Where'
    BY Positions, PTL
  <1>3. /\ base \in Nat /\ strstart \in Nat /\ lookahead \in Nat /\ total_in \in Nat
    BY <1>2 DEF Where
  <1>4. total_in' \in Nat
    BY <1>2 DEF Where
  <1>5. ~closed
    BY <1>1 DEF IInv, EndInv
  <1>6. slide \in Int /\ start \in Int /\ n \in Int /\ n >= 0
    <2>1. FillsOnce
      BY RoomToFill
    <2>2. more >= 2
      BY <1>1, <1>3, <2>1, Sizes DEF FillsOnce
    <2>3. avail_in \in Nat
      BY DEF IInv, TypeOK
    <2>4. slide \in Int /\ start \in Int /\ more \in Int
      BY <1>3, Sizes
    <2> HIDE DEF more, start, slide
    <2> QED BY <2>2, <2>3, <2>4 DEF Min2
  <1>7. total_in' = total_in + n
    <2> HIDE DEF n, slide
    <2> QED BY <1>1, <1>3, <1>6 DEF total_in
  <1> HIDE DEF n
  <1>8. CASE n = 0
    BY <1>1, <1>3, <1>7, <1>8 DEF PipeStep
  <1>9. CASE n # 0
    <2>1. total_in' > total_in
      BY <1>3, <1>6, <1>7, <1>9
    <2> QED BY <1>1, <1>4, <1>5, <2>1 DEF PipeStep, SP!PipeNext, SP!Accept
  <1> QED BY <1>8, <1>9

\* The end of a compression function: the last block closes the stream with nothing left.
LEMMA FinishBlockPipe ==
    ASSUME IInv, IInv', finish_block
    PROVE  PipeStep
  <1>1. Where
    BY Positions
  <1>2. /\ base \in Nat /\ strstart \in Nat /\ lookahead \in Nat /\ block_start \in Int
        /\ block_start <= strstart
    BY <1>1 DEF Where
  <1>3. pc = "tail" /\ UNCHANGED <<strstart, lookahead, base>>
    BY DEF finish_block
  <1>4. ~closed /\ lookahead = 0
    BY <1>3 DEF IInv, EndInv, WindowInv
  <1>5. CASE flush = "finish"
    <2>1. block_start' = strstart /\ closed' = TRUE
      BY <1>5 DEF finish_block, flush_block
    <2>2. BlockInv'
      BY DEF IInv
    <2>3. sent' = base' + block_start'
      BY <2>2 DEF BlockInv
    <2>4. total_in' = total_in
      BY <1>3 DEF total_in
    <2>5. sent' = base + strstart
      BY <1>3, <2>1, <2>3
    <2>6. sent' = total_in
      BY <1>2, <1>4, <2>5 DEF total_in
    <2> QED BY <1>4, <2>1, <2>4, <2>6 DEF PipeStep, SP!PipeNext, SP!Close
  <1>6. CASE flush # "finish"
    <2>1. block_start' = strstart \/ block_start' = block_start
      BY <1>6 DEF finish_block, flush_block, no_flush_block
    <2>2. block_start' >= block_start
      BY <1>2, <2>1
    <2>3. status' = status
      BY <1>6 DEF finish_block
    <2> DEFINE len == 0
    <2>4. len \in Int /\ strstart' = strstart + len /\ lookahead' = lookahead - len
      BY <1>2, <1>3
    <2> HIDE DEF len
    <2> QED BY <1>3, <1>4, <2>2, <2>3, <2>4, BlocksGrow
  <1> QED BY <1>5, <1>6

\* A marker, and the history that a full flush forgets, do not show in the pipe.
LEMMA BlockDonePipe ==
    ASSUME IInv, block_done
    PROVE  PipeStep
  <1>1. Where
    BY Positions
  <1>2. base \in Nat /\ strstart \in Nat /\ lookahead \in Nat
    BY <1>1 DEF Where
  <1>3. UNCHANGED <<sent, closed, lookahead>>
    BY DEF block_done, match
  <1>4. \/ strstart' = 0 /\ base' = base + strstart
        \/ strstart' = strstart /\ base' = base
    BY DEF block_done, forget_history
  <1>5. total_in' = total_in
    <2>1. CASE strstart' = 0 /\ base' = base + strstart
      BY <1>2, <1>3, <2>1 DEF total_in
    <2>2. CASE strstart' = strstart /\ base' = base
      BY <1>3, <2>2 DEF total_in
    <2> QED BY <1>4, <2>1, <2>2
  <1> QED BY <1>3, <1>5 DEF PipeStep

\* The steps between calls, and the trailer, do not show either, except a reset.
LEMMA EntryPipe ==
    ASSUME write \/ doPrime \/ trailer
    PROVE  PipeStep
  <1>1. UNCHANGED win /\ UNCHANGED block
    BY DEF write, doWrite, doPrime, unchangedByEntry, trailer
  <1> QED BY <1>1 DEF win, block, total_in, PipeStep

\* A reset is a reset of the pipe.
LEMMA ResetPipe ==
    ASSUME doReset
    PROVE  PipeStep
  <1>1. /\ base' = 0 /\ strstart' = 0 /\ lookahead' = 0 /\ sent' = 0 /\ closed' = FALSE
    BY DEF doReset
  <1>2. total_in' = 0
    BY <1>1 DEF total_in
  <1> QED BY <1>1, <1>2 DEF PipeStep, SP!PipeNext, SP!Reset

(***************************************************************************)
(* The compressor is a pipe: whatever the buffers of the calls and the     *)
(* flushes, input is accepted, encoded in order, never twice and never     *)
(* taken back, and the stream closes with all of it encoded.               *)
(***************************************************************************)
THEOREM ImplementsPipe == ASSUME ParamsOut = {} PROVE Spec => IsPipe
  <1>1. Init => SP!New
    BY DEF Init, SP!New, total_in
  <1>2. ASSUME IInv, IInv', [Next]_vars PROVE PipeStep
    <2>1. CASE UNCHANGED vars
      BY <2>1 DEF vars, win, block, total_in, PipeStep
    <2>2. CASE doParams
      BY <2>2 DEF doParams
    <2>3. CASE Inside
      BY <1>2, <2>3, FillPipe, PassPipe, FinishBlockPipe, BlockDonePipe, EntryPipe
         DEF Inside, f_stored, f_fast, f_slow, f_rle, f_huff, InBody
    <2> QED BY <1>2, <2>1, <2>2, <2>3, EntryPipe, ResetPipe DEF Next
  <1>3. PipeStep => [SP!PipeNext]_(SP!pipeVars)
    BY DEF PipeStep, SP!pipeVars
  <1>4. Spec => []IInv
    BY Invariance
  <1> QED
    BY <1>1, <1>2, <1>3, <1>4, PTL DEF Spec, IsPipe, SP!Pipe

-----------------------------------------------------------------------------
(* What a call promises when it returns, when params() is not called: a *)
(* flush that returns with output space left is done, a flush refused as a *)
(* repetition has nothing to do, and end_of_stream is the end. *)

\* IInv is about the steps of a call, this about its returns.
DInv == CallInv /\ FlushDelivers /\ EndIsEnd

\* The symbols and the blocks are all there is: nothing is left to deliver but what is pending.
AllSent == lookahead = 0 /\ sent = total_in

\* The return of a call whose flush, if it had one, is not done or not over.
LEMMA EarlyReturn ==
    ASSUME pc' = "idle", ec' # "end_of_stream",
           \/ avail_out' = 0 /\ last_flush' = "unset"
           \/ flush' = "none" /\ last_flush' \in {"none", "unset"}
    PROVE  DInv'
  <1>1. CallInv'
    BY DEF CallInv
  <1>2. FlushDelivers'
    BY DEF FlushDelivers
  <1>3. EndIsEnd'
    BY DEF EndIsEnd
  <1> QED BY <1>1, <1>2, <1>3 DEF DInv

\* A step that does not return.
LEMMA GoesOn ==
    ASSUME pc' # "idle", last_flush' = flush',
           pc' \in {"tail", "block_done", "trailer"} => avail_in' = 0
    PROVE  DInv'
  BY DEF DInv, CallInv, FlushDelivers, EndIsEnd

\* A refill returns only when no flush was asked for, and ends the function only
\* when the input is used up.
LEMMA FillDelivers ==
    ASSUME IInv, CallInv, fill_window
    PROVE  DInv'
  <1> DEFINE more == window_size - lookahead -
                       (strstart - (IF strstart >= w_size + max_dist THEN w_size ELSE 0))
             n    == Min2(avail_in, more)
  <1>1. /\ pc = "fill" /\ flush' = flush /\ avail_in' = avail_in - n
        /\ AfterFill(lookahead + n)
    BY DEF fill_window
  <1>2. lookahead \in Nat /\ strstart \in Nat /\ avail_in \in Nat
    BY BodyTypes DEF IInv, TypeOK
  <1>3. last_flush = flush
    BY <1>1 DEF CallInv
  <1>4. more \in Int /\ more >= 2
    BY <1>1, <1>2, RoomToFill, Sizes DEF FillsOnce
  <1>5. n \in Nat /\ (n = 0 => avail_in = 0)
    <2> HIDE DEF more
    <2> QED BY <1>2, <1>4 DEF Min2
  <1> HIDE DEF n
  <1>6. CASE flush = "none" /\ lookahead + n < Quota(Func)
    <2>1. ReturnOk
      BY <1>1, <1>6 DEF AfterFill
    <2>2. pc' = "idle" /\ ec' = "ok" /\ last_flush' \in {"none", "unset"}
      BY <1>3, <1>6, <2>1 DEF ReturnOk, Return, EndCall, IInv
    <2> QED BY <1>1, <1>6, <2>2, EarlyReturn
  <1>7. CASE ~(flush = "none" /\ lookahead + n < Quota(Func))
    <2>1. /\ pc' = (IF lookahead + n = 0 THEN "tail" ELSE "body")
          /\ last_flush' = last_flush
      BY <1>1, <1>7 DEF AfterFill, Continue
    <2>2. pc' = "tail" => avail_in' = 0
      <3>1. pc' = "tail" => lookahead + n = 0
        BY <2>1
      <3>2. lookahead + n = 0 => n = 0 /\ avail_in = 0
        BY <1>2, <1>5
      <3>3. n = 0 /\ avail_in = 0 => avail_in - n = 0
        OBVIOUS
      <3> QED BY <1>1, <3>1, <3>2, <3>3
    <2> QED BY <1>1, <1>3, <2>1, <2>2, GoesOn
  <1> QED BY <1>6, <1>7

\* A pass returns only when the output space is used up.
LEMMA PassDelivers ==
    ASSUME IInv, CallInv, pc = "body", f_stored \/ f_fast \/ f_slow \/ f_rle \/ f_huff
    PROVE  DInv'
  <1>1. PICK look : Next_or_return(look)
    BY DEF f_stored, f_fast, f_slow, f_rle, f_huff
  <1>2. flush' = flush /\ last_flush = flush
    BY DEF f_stored, f_fast, f_slow, f_rle, f_huff, bodyUnchanged, CallInv
  <1>3. CASE avail_out' = 0
    <2>1. pc' = "idle" /\ ec' = "ok" /\ last_flush' = "unset"
      BY <1>1, <1>3 DEF Next_or_return, ReturnOk, Return, EndCall, IInv
    <2> QED BY <1>3, <2>1, EarlyReturn
  <1>4. CASE avail_out' # 0
    <2>1. pc' \in {"fill", "body"} /\ last_flush' = last_flush
      BY <1>1, <1>4 DEF Next_or_return, Continue, Top
    <2> QED BY <1>2, <2>1, GoesOn
  <1> QED BY <1>3, <1>4

\* So does the end of a function.
LEMMA FinishBlockDelivers ==
    ASSUME IInv, CallInv, finish_block
    PROVE  DInv'
  <1>1. /\ pc = "tail" /\ flush' = flush /\ avail_in' = avail_in
        /\ last_flush = flush /\ avail_in = 0
    BY DEF finish_block, CallInv
  <1>2. CASE avail_out' = 0
    <2>1. ReturnOk
      BY <1>2 DEF finish_block
    <2>2. pc' = "idle" /\ ec' = "ok" /\ last_flush' = "unset"
      BY <1>2, <2>1 DEF ReturnOk, Return, EndCall, IInv
    <2> QED BY <1>2, <2>2, EarlyReturn
  <1>3. CASE avail_out' # 0
    <2>1. pc' \in {"trailer", "block_done"} /\ last_flush' = last_flush
      BY <1>3 DEF finish_block, Continue
    <2> QED BY <1>1, <2>1, GoesOn
  <1> QED BY <1>2, <1>3

\* What was taken in is in finished blocks when block_done is reached.
LEMMA SentAtBlockDone == IInv /\ pc = "block_done" => AllSent
  <1> SUFFICES ASSUME IInv, pc = "block_done" PROVE AllSent
    OBVIOUS
  <1>1. lookahead = 0 /\ sent = base + block_start /\ block_start = strstart
    BY DEF IInv, WindowInv, BlockInv
  <1>2. base \in Nat /\ strstart \in Nat
    BY BodyTypes DEF IInv
  <1> QED BY <1>1, <1>2 DEF AllSent, total_in

\* The marker is the last thing of a flush.
LEMMA BlockDoneDelivers ==
    ASSUME IInv, CallInv, block_done
    PROVE  DInv'
  <1>1. /\ pc = "block_done" /\ avail_in' = avail_in /\ avail_in = 0
        /\ lookahead' = lookahead /\ sent' = sent /\ ReturnOk
    BY DEF block_done, CallInv
  <1>2. AllSent
    BY <1>1, SentAtBlockDone
  <1>3. sent' = total_in' /\ lookahead' = 0
    <2>1. base \in Nat /\ strstart \in Nat /\ lookahead = 0
      BY <1>2, BodyTypes DEF IInv, AllSent
    <2>2. \/ strstart' = 0 /\ base' = base + strstart
          \/ strstart' = strstart /\ base' = base
      BY DEF block_done, forget_history
    <2>3. sent = base + strstart
      BY <1>2, <2>1 DEF AllSent, total_in
    <2> QED BY <1>1, <2>1, <2>2, <2>3 DEF total_in
  <1>4. pc' = "idle" /\ ec' = "ok"
    BY <1>1 DEF ReturnOk, Return, EndCall, IInv
  <1>5. avail_out' > 0 => pending' = 0
    <2>1. PICK n \in BlockBytes : put_and_flush_pending(IF flush = "block" THEN 0 ELSE n)
      BY DEF block_done
    <2>2. (IF flush = "block" THEN 0 ELSE n) \in Nat
      BY SizesAssumption
    <2> QED BY <2>1, <2>2, PutFacts DEF IInv
  <1>6. CallInv'
    BY <1>3, <1>4 DEF CallInv
  <1>7. FlushDelivers'
    BY <1>1, <1>3, <1>5 DEF FlushDelivers
  <1>8. EndIsEnd'
    BY <1>4 DEF EndIsEnd
  <1> QED BY <1>6, <1>7, <1>8 DEF DInv

\* The trailer leaves nothing pending if it reports the end.
LEMMA TrailerDelivers ==
    ASSUME IInv, CallInv, trailer
    PROVE  DInv'
  <1>1. /\ pc = "trailer" /\ avail_in' = avail_in /\ avail_in = 0
        /\ status' = status /\ closed' = closed
    BY DEF trailer, block, CallInv
  <1>2. closed /\ status = "FINISH"
    BY <1>1 DEF IInv, EndInv
  <1>3. pc' = "idle"
    BY DEF trailer, Return, EndCall
  <1>4. ec' = "end_of_stream" => pending' = 0 /\ (wrap # "none" => trailers' > 0)
    <2>1. CASE wrap = "none"
      <3>1. pending' = pending /\ pending = 0
        BY <1>1, <2>1 DEF trailer, out, IInv, PutsFindEmptyBuffer
      <3> QED BY <2>1, <3>1
    <2>2. CASE wrap # "none"
      <3>1. Return(TrailerResult) /\ trailers' = Min2(trailers + 1, MaxTrailers)
        BY <2>2 DEF trailer
      <3>2. ec' = "end_of_stream" => pending' = 0
        BY <3>1 DEF Return, EndCall, TrailerResult, IInv
      <3>3. trailers' > 0
        BY <3>1 DEF IInv, TypeOK, Min2, MaxTrailers
      <3> QED BY <3>2, <3>3
    <2> QED BY <2>1, <2>2
  <1>5. CallInv' /\ FlushDelivers'
    BY <1>1, <1>2, <1>3 DEF CallInv, FlushDelivers
  <1>6. EndIsEnd'
    BY <1>1, <1>2, <1>4 DEF EndIsEnd
  <1> QED BY <1>5, <1>6 DEF DInv

\* A flush that is repeated, or that is not above the last one, was delivered before.
LEMMA RepeatedFlush ==
    ASSUME NEW f \in {"block", "partial", "sync", "full", "finish", "trees"},
           last_flush \in {"none", "block", "partial", "sync", "full", "finish", "trees"},
           FlushRank(f) <= FlushRank(last_flush)
    PROVE  last_flush # "none"
  BY DEF FlushRank

\* The entry of write() returns early only with nothing left to do or no output space.
LEMMA WriteDelivers ==
    ASSUME IInv, CallInv, write
    PROVE  DInv'
  <1>1. PICK f \in Flushes, more \in InSizes, space \in OutSizes : doWrite(f, more, space, NoParams)
    BY DEF write
  <1> DEFINE len  == Min2(pending, space)
             fed  == avail_in + more
             busy == fed # 0 \/ lookahead # 0 \/ (f # "none" /\ status # "FINISH")
             repeated == /\ pending = 0 /\ fed = 0 /\ f # "finish"
                         /\ last_flush # "unset"
                         /\ FlushRank(f) <= FlushRank(last_flush)
             fed_after == status = "FINISH" /\ fed # 0
             enter(label) == /\ pc' = label /\ newParams' = NoParams /\ ec' = "ok"
                             /\ UNCHANGED config
             leave(e) == EndCall(NoParams, e)
  <1>2. /\ pending \in Nat /\ space \in Nat /\ more \in Nat /\ avail_in \in Nat
        /\ lookahead \in Nat
    BY CallerAssumption DEF IInv, TypeOK
  <1>3. /\ flush' = f /\ avail_in' = fed /\ unchangedByEntry /\ pc = "idle"
        /\ f \in {"none", "block", "partial", "sync", "full", "finish", "trees"}
    BY <1>1, CallerAssumption DEF doWrite, write
  <1>4. /\ status' = status /\ lookahead' = lookahead /\ sent' = sent
        /\ total_in' = total_in /\ closed' = closed /\ trailers' = trailers
    BY <1>3 DEF unchangedByEntry, win, block, total_in
  <1>5. IF status = "FINISH" /\ f # "finish" THEN
            /\ avail_out' = space /\ UNCHANGED <<pending, pending_out, last_flush>>
            /\ leave("stream_error")
        ELSE IF space = 0 THEN
            /\ avail_out' = space /\ UNCHANGED <<pending, pending_out, last_flush>>
            /\ leave("need_buffers")
        ELSE /\ avail_out' = space - len
             /\ pending' = pending - len
             /\ pending_out' = IF pending = len THEN 0 ELSE pending_out + len
             /\ IF pending # 0 /\ space = len THEN
                     last_flush' = "unset" /\ leave("ok")
                ELSE /\ last_flush' = f
                     /\ IF repeated \/ fed_after THEN leave("need_buffers")
                        ELSE IF busy THEN enter(Top(lookahead))
                        ELSE IF f = "finish" THEN enter("trailer")
                        ELSE leave("ok")
    BY <1>1 DEF doWrite
  <1>6. \A e : leave(e) => pc' = "idle" /\ ec' = e
    BY DEF EndCall
  <1> HIDE DEF leave
  <1>7. CallInv /\ (fed = 0 => avail_in = 0)
    BY <1>2
  <1>8. CASE status = "FINISH" /\ f # "finish"
    <2>1. pc' = "idle" /\ ec' = "stream_error" /\ status' = "FINISH"
      BY <1>4, <1>5, <1>6, <1>8
    <2> QED BY <2>1 DEF DInv, CallInv, FlushDelivers, EndIsEnd
  <1>9. CASE ~(status = "FINISH" /\ f # "finish") /\ space = 0
    <2>1. /\ pc' = "idle" /\ ec' = "need_buffers" /\ avail_out' = 0
          /\ pending' = pending /\ last_flush' = last_flush
      BY <1>5, <1>6, <1>9
    <2>2. CallInv'
      <3> HIDE DEF fed
      <3>1. status' = "BUSY" /\ last_flush' \notin {"none", "unset"} /\ pending' = 0
            /\ avail_in' = 0 => lookahead' = 0 /\ sent' = total_in'
        BY <1>3, <1>4, <1>7, <2>1 DEF CallInv
      <3> QED BY <2>1, <3>1 DEF CallInv
    <2>3. FlushDelivers' /\ EndIsEnd'
      BY <2>1 DEF FlushDelivers, EndIsEnd
    <2> QED BY <2>2, <2>3 DEF DInv
  <1>10. CASE ~(status = "FINISH" /\ f # "finish") /\ space # 0
    <2>1. /\ avail_out' = space - len /\ pending' = pending - len
          /\ IF pending # 0 /\ space = len THEN
                 last_flush' = "unset" /\ leave("ok")
             ELSE /\ last_flush' = f
                  /\ IF repeated \/ fed_after THEN leave("need_buffers")
                     ELSE IF busy THEN enter(Top(lookahead))
                     ELSE IF f = "finish" THEN enter("trailer")
                     ELSE leave("ok")
      BY <1>5, <1>10
    <2>2. CASE pending # 0 /\ space = len
      <3>1. avail_out' = 0
        <4> HIDE DEF len
        <4> QED BY <1>2, <2>1, <2>2
      <3>2. pc' = "idle" /\ ec' = "ok" /\ last_flush' = "unset"
        BY <1>6, <2>1, <2>2
      <3> QED BY <3>1, <3>2, EarlyReturn
    <2>3. CASE ~(pending # 0 /\ space = len) /\ repeated
      <3>1. pc' = "idle" /\ ec' = "need_buffers" /\ last_flush' = f
        BY <1>6, <2>1, <2>3
      <3>2. pending' = 0 /\ avail_in' = 0
        <4>1. pending = 0 /\ len = 0 /\ fed = 0
          BY <1>2, <2>3 DEF Min2
        <4>2. pending' = pending - len
          BY <2>1
        <4> HIDE DEF len, fed
        <4> QED BY <1>3, <4>1, <4>2
      <3>3. CASE f = "none"
        BY <1>3, <3>1, <3>3, EarlyReturn
      <3>4. CASE status = "FINISH"
        BY <1>4, <3>1, <3>4 DEF DInv, CallInv, FlushDelivers, EndIsEnd
      <3>5. CASE f # "none" /\ status # "FINISH"
        <4>1. last_flush \in {"none", "block", "partial", "sync", "full", "finish", "trees"}
          BY <2>3, CallerAssumption DEF IInv, TypeOK
        <4>2. last_flush \notin {"none", "unset"}
          BY <1>3, <2>3, <3>5, <4>1, RepeatedFlush
        <4>3. status = "BUSY"
          BY <3>5 DEF IInv, TypeOK
        <4>4. pending = 0 /\ avail_in = 0
          BY <1>7, <2>3
        <4>5. lookahead = 0 /\ sent = total_in
          BY <1>3, <4>2, <4>3, <4>4 DEF CallInv
        <4>6. lookahead' = 0 /\ sent' = total_in'
          BY <1>4, <4>5
        <4> QED BY <3>1, <3>2, <4>6 DEF DInv, CallInv, FlushDelivers, EndIsEnd
      <3> QED BY <3>3, <3>4, <3>5
    <2>4. CASE ~(pending # 0 /\ space = len) /\ fed_after
      <3>1. pc' = "idle" /\ ec' = "need_buffers" /\ status' = "FINISH"
        BY <1>4, <1>6, <2>1, <2>4
      <3> QED BY <3>1 DEF DInv, CallInv, FlushDelivers, EndIsEnd
    <2>5. CASE ~(pending # 0 /\ space = len) /\ ~(repeated \/ fed_after) /\ busy
      <3>1. pc' \in {"fill", "body"} /\ last_flush' = f
        <4> HIDE DEF busy, repeated, fed_after
        <4> QED BY <2>1, <2>5 DEF Top
      <3> QED BY <1>3, <3>1, GoesOn
    <2>6. CASE ~(pending # 0 /\ space = len) /\ ~(repeated \/ fed_after) /\ ~busy
      <3>1. fed = 0
        BY <2>6
      <3>2. CASE f = "finish"
        <4>1. pc' = "trailer" /\ last_flush' = f
          <5> HIDE DEF busy, repeated, fed_after
          <5> QED BY <2>1, <2>6, <3>2
        <4> QED BY <1>3, <3>1, <4>1, GoesOn
      <3>3. CASE f # "finish"
        <4>1. f = "none"
          BY <1>10, <2>6, <3>3
        <4>2. pc' = "idle" /\ ec' = "ok" /\ last_flush' = f
          <5> HIDE DEF busy, repeated, fed_after
          <5> QED BY <1>6, <2>1, <2>6, <3>3
        <4> QED BY <1>3, <4>1, <4>2, EarlyReturn
      <3> QED BY <3>2, <3>3
    <2> HIDE DEF busy, repeated, fed_after
    <2> QED BY <2>2, <2>3, <2>4, <2>5, <2>6
  <1> QED BY <1>8, <1>9, <1>10

\* prime() is called before a flush could be due.
LEMMA PrimeDelivers ==
    ASSUME IInv, CallInv, doPrime
    PROVE  DInv'
  <1>1. /\ pc = "idle" /\ pc' = "idle" /\ pending = 0 /\ ec' = "ok" /\ flush' = "none"
        /\ UNCHANGED <<avail_in, last_flush>> /\ unchangedByEntry
    BY DEF doPrime
  <1>2. /\ status' = status /\ lookahead' = lookahead /\ sent' = sent
        /\ total_in' = total_in
    BY <1>1 DEF unchangedByEntry, win, block, total_in
  <1>3. status' = "BUSY" /\ last_flush' \notin {"none", "unset"} /\ pending' = 0
        /\ avail_in' = 0 => lookahead' = 0 /\ sent' = total_in'
    BY <1>1, <1>2 DEF CallInv
  <1>4. CallInv'
    BY <1>1, <1>3 DEF CallInv
  <1>5. FlushDelivers' /\ EndIsEnd'
    BY <1>1 DEF FlushDelivers, EndIsEnd
  <1> QED BY <1>4, <1>5 DEF DInv

\* Every step keeps the promises.
LEMMA DeliveryStep ==
    ASSUME ParamsOut = {}, IInv, DInv, [Next]_vars
    PROVE  DInv'
  <1>1. CallInv
    BY DEF DInv
  <1>2. CASE UNCHANGED vars
    <2>1. total_in' = total_in
      BY <1>2 DEF vars, win, total_in
    <2>2. CallInv'
      BY <1>1, <1>2, <2>1 DEF CallInv, vars, win, block, out
    <2>3. FlushDelivers' /\ EndIsEnd'
      BY <1>2, <2>1 DEF DInv, FlushDelivers, EndIsEnd, vars, win, block, out
    <2> QED BY <2>2, <2>3 DEF DInv
  <1>3. CASE doReset
    <2>1. pc' = "idle" /\ flush' = "none" /\ last_flush' = "none" /\ ec' = "ok"
      BY <1>3 DEF doReset
    <2> QED BY <2>1, EarlyReturn
  <1>4. CASE doParams
    BY <1>4 DEF doParams
  <1>5. CASE Inside
    BY <1>1, <1>5, FillDelivers, PassDelivers, FinishBlockDelivers, BlockDoneDelivers,
       TrailerDelivers DEF Inside, f_stored, f_fast, f_slow, f_rle, f_huff, InBody
  <1> QED
    BY <1>1, <1>2, <1>3, <1>4, <1>5, WriteDelivers, PrimeDelivers DEF Next

(***************************************************************************)
(* The promises of a call: what it leaves in last_flush_ for the next one, *)
(* and what its result means to the caller, hold between any two steps.    *)
(***************************************************************************)
THEOREM Delivery == ASSUME ParamsOut = {} PROVE Spec => []DInv
  <1>1. Init => DInv
    BY DEF Init, DInv, CallInv, FlushDelivers, EndIsEnd
  <1>2. ASSUME IInv, DInv, [Next]_vars PROVE DInv'
    BY <1>2, DeliveryStep
  <1>3. Spec => []IInv
    BY Invariance
  <1> QED
    BY <1>1, <1>2, <1>3, PTL DEF Spec

(***************************************************************************)
(* Flush: a write() with a flush that returns without an error and leaves  *)
(* output space has compressed all of its input and handed over every      *)
(* byte, and one that is refused with need_buffers had nothing left to do. *)
(***************************************************************************)
THEOREM FlushesDeliver == ASSUME ParamsOut = {} PROVE Spec => []FlushDelivers
  <1>1. DInv => FlushDelivers
    BY DEF DInv
  <1> QED
    BY <1>1, Delivery, PTL

(***************************************************************************)
(* Finish: end_of_stream is only reported when the last block and the      *)
(* trailer are put, nothing is pending and no input is left.               *)
(***************************************************************************)
THEOREM EndsAreEnds == ASSUME ParamsOut = {} PROVE Spec => []EndIsEnd
  <1>1. DInv => EndIsEnd
    BY DEF DInv
  <1> QED
    BY <1>1, Delivery, PTL
=============================================================================
