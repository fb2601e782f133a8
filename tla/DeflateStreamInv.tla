------------------------- MODULE DeflateStreamInv --------------------------
(***************************************************************************)
(* The inductive invariant from which the safety properties of             *)
(* DeflateStream follow when params() is not called.  It says, part by     *)
(* part, what each step of a call leaves true for the next one.            *)
(***************************************************************************)
EXTENDS DeflateStream

\* The positions in the window, and what is known of the lookahead at each point of a call.
WindowInv ==
    /\ strstart + lookahead <= high_water
    /\ insert <= strstart
    /\ pc = "fill" => lookahead < Need(Func)
    /\ pc = "body" =>
        /\ lookahead >= 1
        /\ lookahead >= Need(Func) \/
           /\ strstart < w_size + max_dist
           /\ \/ strstart + lookahead + max_match <= high_water
              \/ high_water = window_size
    /\ pc \in {"tail", "block_done", "trailer"} => lookahead = 0

\* The finished blocks reach block_start, the symbols since then reach strstart.
BlockInv ==
    /\ faithful
    /\ sent = base + block_start
    /\ block_start <= strstart
    /\ last_lit = 0 => covered = 0
    /\ IF Func = "stored"
       THEN /\ covered = 0 /\ last_lit = 0
            /\ block_start >= 0
            /\ strstart - block_start < max_dist
            /\ strstart - block_start < max_block_size
       ELSE strstart - waiting = block_start + covered
    /\ pc = "block_done" => block_start = strstart /\ covered = 0 /\ ~match_available

\* A match in waiting is the one that was compared, and fits the lookahead.
MatchInv ==
    /\ match_available => Func = "slow" /\ strstart >= 1
    /\ Func = "fast" => match_length < min_match /\ prev_length < min_match
    /\ Func = "slow" /\ match_length >= min_match =>
        /\ match_available
        /\ match_length <= lookahead + 1
        /\ Genuine(strstart - 1, match_start, found)

\* The last Flush::full is not after the start of the window.
FullMarkInv ==
    /\ full_mark <= base
    /\ found.at = 0 \/ found.at < base + strstart
    /\ found.at >= full_mark => found.src >= full_mark

\* The last block ends the stream: nothing is left, and only the trailer may follow.
EndInv ==
    /\ closed <=> status = "FINISH"
    /\ closed => /\ pc \in {"idle", "trailer"}
                 /\ lookahead = 0 /\ block_start = strstart /\ covered = 0
                 /\ ~match_available
    /\ pc = "trailer" => closed
    /\ pc = "idle" /\ ec = "end_of_stream" => closed

(***************************************************************************)
(* What a call leaves for the next one, when params() is not called: the   *)
(* functions end when the input is used up, and a flush that is still in   *)
(* last_flush was delivered if nothing came after it.                      *)
(***************************************************************************)
CallInv ==
    /\ pc # "idle" => last_flush = flush
    /\ pc \in {"tail", "block_done", "trailer"} => avail_in = 0
    /\ pc = "idle" /\ status = "BUSY" /\ last_flush \notin {"none", "unset"}
       /\ pending = 0 /\ avail_in = 0 => lookahead = 0 /\ sent = total_in

(***************************************************************************)
(* What fill_window has written or zeroed: the data, the bytes below       *)
(* high_water but for those a slide may copy unwritten, and high_water     *)
(* itself far enough behind the data, so that a slide copies no more.      *)
(***************************************************************************)
WrittenInv ==
    /\ \A i \in 0 .. strstart + lookahead - 1 : i \in written
    /\ \A i \in 0 .. high_water - 1 : i \in written \/ CopiedUnwritten(i)
    /\ \/ strstart + lookahead = 0
       \/ strstart + lookahead + max_match <= high_water
       \/ high_water = window_size

IInv ==
    /\ TypeOK
    /\ newParams = NoParams
    /\ PutsFindEmptyBuffer
    /\ WindowInv
    /\ BlockInv
    /\ MatchInv
    /\ FullMarkInv
    /\ EndInv
============================================================================
