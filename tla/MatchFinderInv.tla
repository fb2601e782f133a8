--------------------------- MODULE MatchFinderInv ---------------------------
(***************************************************************************)
(* The inductive invariant from which the safety properties of MatchFinder *)
(* follow.  Strings are told apart by where they are in the input, base    *)
(* and the place in the window, so that nothing changes when it slides.    *)
(***************************************************************************)
EXTENDS MatchFinder

\* Where the bytes in the window end.
End == strstart_ + lookahead_

TypesInv ==
    /\ pc \in {"idle", "drained", "fill", "step", "finish"}
    /\ text \in Texts /\ config \in Settings
    /\ strstart_ \in Nat /\ lookahead_ \in Nat /\ insert_ \in Nat
    /\ base \in Nat /\ read \in Nat /\ avail_in \in Nat
    /\ match_start_ \in Int /\ match_length_ \in Nat /\ prev_length_ \in Nat
    /\ match_available_ \in BOOLEAN
    /\ symbol.at \in Nat /\ symbol.len \in Nat /\ symbol.dist \in Int

\* The window holds a piece of the input.
DataInv ==
    /\ DOMAIN window_ = 0..window_size - 1 /\ End <= window_size
    /\ base + End = read /\ read + avail_in <= Len(text)
    /\ \A i \in 0..End - 1 : window_[i] = At(base + i)

\* A step needs something to look at; at the end nothing is left.
StageInv ==
    /\ pc = "step" => lookahead_ > 0
    /\ pc \in {"finish", "drained"} => lookahead_ = 0
    /\ match_available_ => config.func = "slow" /\ pc # "drained" /\ strstart_ > 0

\* Strings wait to be inserted only while there is too little of them.
InsertInv == insert_ > 0 => insert_ + lookahead_ < min_match

\* The match that f_slow has put off.
MatchInv ==
    /\ config.func # "slow" => match_length_ < min_match /\ prev_length_ < min_match
    /\ prev_length_ >= min_match => prev_length_ <= lookahead_
    /\ match_length_ >= min_match =>
          /\ match_available_ /\ match_length_ <= lookahead_ + 1
          /\ strstart_ - 1 - match_start_ \in 1..max_dist
          /\ Repeat(base + strstart_ - 1, match_length_, base + match_start_)

TextHash(p) == update_hash(update_hash(At(p), At(p + 1)), At(p + 2))

\* From q on, the strings with hash h that are below top are found, the newest first.
Leads(strs, b, q, h, top) ==
    /\ q = 0 \/ (q \in strs /\ q < top /\ TextHash(b + q) = h)
    /\ \A p \in strs : p > 0 /\ p < top /\ TextHash(b + p) = h => p <= q

\* The strings of a dictionary d lie below top and end before end.  What prev_ has for a
\* string counts until one that is w_size further goes in.
DictOK(d, b, top, end) ==
    /\ d.strings \subseteq 0..top - 1 /\ \A p \in d.strings : p + min_match <= end
    /\ d.head \in [Hashes -> Nat] /\ d.prev \in [0..w_size - 1 -> Nat]
    /\ \A h \in Hashes : Leads(d.strings, b, d.head[h], h, top)
    /\ \A p \in d.strings :
          (\A q \in d.strings : q < p + w_size)
              => Leads(d.strings, b, d.prev[p % w_size], TextHash(b + p), p)

\* The running hash h is ready for the string at p of the input.
Rolls(h, p) ==
    \A c \in Byte : update_hash(h, c) = update_hash(update_hash(At(p), At(p + 1)), c)

DictInv ==
    /\ DictOK(Dictionary, base, strstart_, End)
    /\ config.func # "rle" /\ lookahead_ >= min_match => Rolls(ins_h_, base + strstart_)

IInv ==
    /\ TypesInv /\ DataInv /\ StageInv /\ InsertInv /\ MatchInv /\ DictInv
    /\ LongestFound /\ SymbolsAreText
=============================================================================
