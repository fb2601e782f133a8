----------------------------- MODULE MatchFinder -----------------------------
(***************************************************************************)
(* What DeflateStream leaves open about the search for matches: the bytes of  *)
(* the window, the hash chains head_ and prev_, the running hash ins_h_, the   *)
(* search of longest_match, and which strings f_fast, f_slow and f_rle insert. *)
(* How output is taken away is left to DeflateStream: here a function may come *)
(* back whenever a symbol fills the block, because there is no room for it.    *)
(* Bytes that no data has reached are whatever they were when the window was     *)
(* allocated: the zeros that fill_window puts there change nothing else.        *)
(***************************************************************************)
EXTENDS Integers, Sequences, FiniteSetsExt

CONSTANTS
    w_size, max_match,      \* 32768 and 258 in the code
    ktoo_far,               \* 4096 in the code
    hash_bits,              \* of the hash
    byte,                   \* bits of a byte
    lit_bufsize,            \* symbols of a block and one
    Texts,                  \* inputs to compress
    Settings,               \* levels: the function and what get_config says of it
    Amounts,                \* bytes that a call offers
    Flushes,
    NewWindows,             \* what the memory of a new window may hold
    BitXor(_, _)            \* of the bits of two numbers

min_match == 3
kmin_lookahead == max_match + min_match + 1
max_dist == w_size - kmin_lookahead
window_size == 2 * w_size
hash_shift == (hash_bits + min_match - 1) \div min_match

Byte == 0..2^byte - 1
Hashes == 0..2^hash_bits - 1

ASSUME WindowAssumption ==
    /\ w_size \in Nat /\ max_match \in Nat /\ ktoo_far \in Nat
    /\ max_match > min_match /\ max_dist > 0
ASSUME BlockAssumption == lit_bufsize \in Nat /\ lit_bufsize > 2
ASSUME SettingsAssumption ==
    \A s \in Settings :
        /\ s.func \in {"fast", "slow", "rle"} /\ s.filtered \in BOOLEAN
        /\ s.chain \in Nat /\ s.lazy \in Nat /\ s.good \in Nat /\ s.nice \in Nat
        /\ s.chain >= 4     \* a quarter of it is not zero
ASSUME TextsAssumption == \A t \in Texts : t \in Seq(Byte)
ASSUME NewWindowsAssumption == NewWindows \subseteq [0..window_size - 1 -> Byte]
ASSUME AmountsAssumption == Amounts \subseteq Nat

VARIABLES
    pc,             \* idle, drained after a flush, fill, step or finish
    text, read,     \* the input, and how much of it has come into the window
    avail_in, flush,
    config,         \* the level and strategy in force
    window_, head_, prev_, ins_h_,
    strstart_, lookahead_, insert_,
    match_start_, match_length_, prev_match_, prev_length_, match_available_,
    base,           \* where in the input the window begins
    strings,        \* where in the window a string has been inserted
    search,         \* what a search in the last step has found
    symbol,         \* the last symbol tallied
    last_lit_       \* how many of them are in the block

dictionary == <<head_, prev_, ins_h_, strings>>
window == <<window_, strstart_, lookahead_, insert_, base, read>>
matches == <<match_start_, match_length_, prev_match_, prev_length_, match_available_>>
offer == <<avail_in, flush>>
symbols == <<symbol, last_lit_>>
vars == <<pc, text, config, offer, window, dictionary, matches, search, symbols>>

-----------------------------------------------------------------------------
update_hash(h, c) == BitXor(h * 2^hash_shift, c) % 2^hash_bits
(* The hash is of three bytes: whatever came before is shifted out of it.  Two bytes  *)
(* that come third can be told apart by it.                                       *)
ASSUME HashAssumption ==
    /\ 2^byte \in Nat /\ 2^hash_bits \in Nat /\ 2^byte > 0 /\ 2^hash_bits >= 2^byte
    /\ \A h \in Hashes : \A a, b, c \in Byte :
          /\ update_hash(h, c) \in Hashes
          /\ update_hash(update_hash(update_hash(h, a), b), c) = update_hash(update_hash(a, b), c)
          /\ update_hash(h, b) = update_hash(h, c) => b = c
HashOfTwo_one(w, str) == w[str + 1]
HashOfTwo(w, str) == update_hash(w[str], w[str + 1])
NoHeads == [h \in Hashes |-> 0]

Dictionary == [head |-> head_, prev |-> prev_, h |-> ins_h_, strings |-> strings]
Becomes(d) == head_' = d.head /\ prev_' = d.prev /\ ins_h_' = d.h /\ strings' = d.strings
insert_string(d, w, str) ==
    LET h == update_hash(d.h, w[str + min_match - 1])
    IN  [head |-> [d.head EXCEPT ![h] = str], prev |-> [d.prev EXCEPT ![str % w_size] = d.head[h]],
         h |-> h, strings |-> d.strings \cup {str}]
Inserted(d, w, from, to) ==
    LET after[str \in from - 1..to] ==
            IF str = from - 1 THEN d ELSE insert_string(after[str - 1], w, str)
    IN  IF from > to THEN d ELSE after[to]

-----------------------------------------------------------------------------
(* The search goes from cur_match along the chain until it comes to limit, has seen   *)
(* so many strings, or has a match that is long enough.  The bytes compared may   *)
(* be behind the lookahead; the result is cut to it.                           *)
limit_of_window == 0
limit == Max({0, strstart_ - max_dist})
Equal(m, i) == window_[m + i] = window_[strstart_ + i]
MatchLength(m) == Min({i \in min_match..max_match : i = max_match \/ ~Equal(m, i)})
Candidate(r, prev, nice) ==
    LET m      == r.cur
        longer == /\ Equal(m, r.best) /\ Equal(m, r.best - 1) /\ Equal(m, 0) /\ Equal(m, 1)
                  /\ MatchLength(m) > r.best
        next   == prev[m % w_size]
    IN  [cur   |-> next,
         start |-> IF longer THEN m ELSE r.start,
         best  |-> IF longer THEN MatchLength(m) ELSE r.best,
         on    |-> ~(longer /\ MatchLength(m) >= nice) /\ next > limit]

ChainLength(prev_length) ==
    IF prev_length >= config.good THEN config.chain \div 4 ELSE config.chain
longest_match(cur_match, prev, prev_length) ==
    LET nice == Min({config.nice, lookahead_})
        r[k \in 0..ChainLength(prev_length)] ==
            IF k = 0 THEN [cur |-> cur_match, start |-> match_start_,
                           best |-> prev_length, on |-> TRUE]
            ELSE LET before == r[k - 1]
                 IN  IF before.on THEN Candidate(before, prev, nice) ELSE before
        last == r[ChainLength(prev_length)]
    IN  [start |-> last.start, length |-> Min({last.best, lookahead_})]

NoSearch == [length |-> 0]
InReach(p) == p > 0 /\ strstart_ - p <= max_dist
Searched(prev_length, r) ==
    search' = [at |-> base + strstart_, prev_length |-> prev_length, lookahead |-> lookahead_,
               start |-> base + r.start, length |-> r.length,
               strings |-> {base + p : p \in {q \in strings : InReach(q)}},
               chain |-> ChainLength(prev_length), nice |-> config.nice]

-----------------------------------------------------------------------------
(* fill_window, a round of its loop: the window slides and the chains with it, bytes   *)
(* come in, and the strings that were too short for it are inserted.           *)
Slid_unclipped(f) == [i \in DOMAIN f |-> IF f[i] >= w_size THEN f[i] - w_size ELSE f[i]]
Slid(f) == [i \in DOMAIN f |-> IF f[i] >= w_size THEN f[i] - w_size ELSE 0]
SlidDictionary ==
    [head |-> Slid(head_), prev |-> Slid(prev_), h |-> ins_h_,
     strings |-> {p - w_size : p \in {q \in strings : q >= w_size}}]

NeedsFill(ahead) == IF config.func = "rle" THEN ahead <= max_match ELSE ahead < kmin_lookahead
Top(ahead) == IF NeedsFill(ahead) THEN "fill" ELSE "step"
Filled(ahead) ==
    IF NeedsFill(ahead) /\ flush = "none" THEN "idle"
    ELSE IF ahead = 0 THEN "finish" ELSE "step"

fill_window ==
    LET slides == strstart_ >= w_size + max_dist
        s      == IF slides THEN strstart_ - w_size ELSE strstart_
        left   == Min({insert_, s})
        n      == Min({avail_in, window_size - lookahead_ - s})
        ahead  == lookahead_ + n
        new    == s + lookahead_
        w == [i \in DOMAIN window_ |->
                CASE i \in new..new + n - 1 -> text[read + i - new + 1]
                  [] slides /\ i < w_size /\ ~(i \in new..new + n - 1) -> window_[i + w_size]
                  [] OTHER -> window_[i]]
        d == IF slides THEN SlidDictionary ELSE Dictionary
        hashes == avail_in # 0 /\ ahead + left >= min_match
        k == IF hashes THEN Min({left, ahead + left - min_match + 1}) ELSE 0
    IN  /\ pc = "fill"
        /\ window_' = w /\ strstart_' = s
        /\ base' = IF slides THEN base + w_size ELSE base
        /\ match_start_' = IF slides THEN match_start_ - w_size ELSE match_start_
        /\ lookahead_' = ahead /\ read' = read + n /\ avail_in' = avail_in - n
        /\ insert_' = left - k
        /\ Becomes(IF hashes THEN Inserted([d EXCEPT !.h = HashOfTwo(w, s - left)], w,
                                           s - left, s - left + k - 1)
                   ELSE d)
        /\ pc' = IF ahead < kmin_lookahead /\ avail_in - n # 0 THEN pc ELSE Filled(ahead)
        /\ search' = NoSearch
        /\ UNCHANGED <<text, config, flush, match_length_, prev_match_, prev_length_,
                       match_available_, symbols>>

-----------------------------------------------------------------------------
Tallied == last_lit_' = (last_lit_ + 1) % (lit_bufsize - 1)
LiteralOf(str) == [at |-> base + str, len |-> 1, dist |-> 0, byte |-> window_[str]]
Literal(str) == symbol' = LiteralOf(str) /\ Tallied
Match(str, len, dist) ==
    /\ symbol' = [at |-> base + str, len |-> len, dist |-> dist, byte |-> 0]
    /\ Tallied

\* The string at strstart_ goes in, if there is enough of it; then the head before it.
WithString ==
    IF lookahead_ >= min_match THEN insert_string(Dictionary, window_, strstart_) ELSE Dictionary
HashHead == IF lookahead_ >= min_match THEN head_[WithString.h] ELSE 0
Near == HashHead # 0 /\ strstart_ - HashHead <= max_dist

Advances(n) == /\ strstart_' = strstart_ + n /\ lookahead_' = lookahead_ - n
               /\ UNCHANGED <<window_, insert_, base, read>>
Continues == pc' = Top(lookahead_')
MayReturn == Continues \/ (last_lit_' = 0 /\ pc' = "idle")

f_fast ==
    LET d == WithString
        r == longest_match(HashHead, d.prev, prev_length_)
        length == IF Near THEN r.length ELSE match_length_
        start  == IF Near THEN r.start ELSE match_start_
    IN  /\ pc = "step" /\ config.func = "fast"
        /\ match_start_' = start
        /\ IF Near THEN Searched(prev_length_, r) ELSE search' = NoSearch
        /\ IF length >= min_match
           THEN /\ Match(strstart_, length, strstart_ - start)
                /\ Advances(length)
                /\ match_length_' = 0
                /\ Becomes(IF length <= config.lazy /\ lookahead_ - length >= min_match
                           THEN Inserted(d, window_, strstart_ + 1, strstart_ + length - 1)
                           ELSE [d EXCEPT !.h = HashOfTwo(window_, strstart_ + length)])
           ELSE /\ Literal(strstart_)
                /\ Advances(1)
                /\ match_length_' = length
                /\ Becomes(d)
        /\ MayReturn
        /\ UNCHANGED <<text, config, offer, prev_match_, prev_length_, match_available_>>

(* A match is put off until the next string is known to have none that is longer.    *)
Ignored(r) == r.length <= 5 /\ (config.filtered \/ (r.length = min_match
                                    /\ strstart_ - r.start > ktoo_far))
f_slow ==
    LET d == WithString
        prev_length == match_length_
        searches == Near /\ prev_length < config.lazy
        r == longest_match(HashHead, d.prev, prev_length)
        length == IF searches /\ ~Ignored(r) THEN r.length ELSE min_match - 1
        max_insert == strstart_ + lookahead_ - min_match
    IN  /\ pc = "step" /\ config.func = "slow"
        /\ prev_match_' = match_start_
        /\ match_start_' = IF searches THEN r.start ELSE match_start_
        /\ IF searches THEN Searched(prev_length, r) ELSE search' = NoSearch
        /\ \/ /\ prev_length >= min_match /\ length <= prev_length
              /\ Match(strstart_ - 1, prev_length, strstart_ - 1 - match_start_)
              /\ Advances(prev_length - 1)
              /\ Becomes(Inserted(d, window_, strstart_ + 1,
                                  Min({strstart_ + prev_length - 2, max_insert})))
              /\ prev_length_' = 0 /\ match_length_' = min_match - 1
              /\ match_available_' = FALSE
              /\ MayReturn
           \/ /\ ~(prev_length >= min_match /\ length <= prev_length)
              /\ Advances(1)
              /\ IF match_available_ THEN Literal(strstart_ - 1) /\ MayReturn
                 ELSE Continues /\ UNCHANGED symbols
              /\ Becomes(d)
              /\ prev_length_' = prev_length /\ match_length_' = length
              /\ match_available_' = TRUE
        /\ UNCHANGED <<text, config, offer>>

(* Runs of the byte before; no string is inserted.                                *)
f_rle ==
    LET Repeats(i) == window_[strstart_ + i] = window_[strstart_ - 1]
        run == Min({i \in min_match..max_match : i = max_match \/ ~Repeats(i)})
        length == IF lookahead_ >= min_match /\ strstart_ > 0 /\ \A i \in 0..2 : Repeats(i)
                  THEN Min({run, lookahead_}) ELSE 0
    IN  /\ pc = "step" /\ config.func = "rle"
        /\ match_length_' = 0
        /\ IF length >= min_match THEN Match(strstart_, length, 1) /\ Advances(length)
           ELSE Literal(strstart_) /\ Advances(1)
        /\ MayReturn
        /\ search' = NoSearch
        /\ UNCHANGED <<text, config, offer, dictionary, match_start_, prev_match_,
                       prev_length_, match_available_>>

(* All input is compressed: the block is ended, and a full flush forgets the history. *)
finish ==
    /\ pc = "finish"
    /\ symbol' = IF match_available_ THEN LiteralOf(strstart_ - 1) ELSE symbol
    /\ last_lit_' = 0
    /\ match_available_' = FALSE
    /\ IF flush = "full"
       THEN /\ Becomes([Dictionary EXCEPT !.head = NoHeads, !.strings = {}])
            /\ strstart_' = 0 /\ insert_' = 0 /\ base' = base + strstart_
       ELSE /\ insert_' = IF config.func = "rle" THEN 0 ELSE Min({strstart_, min_match - 1})
            /\ UNCHANGED <<dictionary, strstart_, base>>
    /\ pc' = "drained"
    /\ search' = NoSearch
    /\ UNCHANGED <<text, config, offer, window_, lookahead_, read, match_start_,
                   match_length_, prev_match_, prev_length_>>

-----------------------------------------------------------------------------
write ==
    /\ pc \in {"idle", "drained"}
    /\ \E n \in Amounts, f \in Flushes :
          /\ avail_in' = Min({n, Len(text) - read}) /\ flush' = f
          /\ avail_in' # 0 \/ lookahead_ # 0 \/ f # "none"
    /\ pc' = Top(lookahead_)
    /\ search' = NoSearch
    /\ UNCHANGED <<text, config, window, dictionary, matches, symbols>>

(* Another function or strategy waits for Flush::block, given room for it, to have   *)
(* compressed all that was offered.                                           *)
doParams ==
    /\ \E s \in Settings :
          /\ pc = "drained"
                \/ (pc = "idle" /\ s.func = config.func /\ s.filtered = config.filtered)
          /\ s # config
          /\ config' = s
    /\ search' = NoSearch
    /\ UNCHANGED <<pc, text, offer, window, dictionary, matches, symbols>>

lm_init ==
    /\ head_ = NoHeads /\ ins_h_ = 0
    /\ strstart_ = 0 /\ lookahead_ = 0 /\ insert_ = 0
    /\ match_length_ = min_match - 1 /\ prev_length_ = min_match - 1
    /\ match_available_ = FALSE

Init ==
    /\ lm_init
    /\ prev_ = [i \in 0..w_size - 1 |-> 0]
    /\ window_ \in NewWindows
    /\ match_start_ = 0 /\ prev_match_ = 0
    /\ text \in Texts /\ config \in Settings
    /\ read = 0 /\ avail_in = 0 /\ flush = "none" /\ base = 0 /\ strings = {}
    /\ search = NoSearch /\ symbol = [at |-> 0, len |-> 0, dist |-> 0, byte |-> 0]
    /\ last_lit_ = 0 /\ pc = "drained"

Next == write \/ doParams \/ fill_window \/ f_fast \/ f_slow \/ f_rle \/ finish

Spec == Init /\ [][Next]_vars

-----------------------------------------------------------------------------
HashAt(p) ==
    LET h1 == HashOfTwo(window_, p) IN update_hash(h1, window_[p + 2])
(* The strings that a search for the hash h comes across, the newest first.  Where the  *)
(* chain does not lead to an older string, the string appears twice.                *)
Chain(h) ==
    LET c[p \in 0..window_size - 1] ==
            LET next == prev_[p % w_size]
            IN  IF ~InReach(p) THEN <<>> ELSE <<p>> \o (IF next < p THEN c[next] ELSE <<p>>)
    IN  c[head_[h]]

(***************************************************************************)
(* A chain leads through the strings with its hash that were inserted and are   *)
(* within reach, from the newest to the oldest, and through nothing else:      *)
(* whatever slides, whatever is inserted late, and whichever levels took turns. *)
(***************************************************************************)
ChainsHoldTheStrings ==
    \A h \in DOMAIN head_ :
        LET c == Chain(h)
        IN  /\ \A i \in 1..Len(c) - 1 : c[i] > c[i + 1]
            /\ {c[i] : i \in DOMAIN c} = {p \in strings : InReach(p) /\ HashAt(p) = h}

At(p) == text[p + 1]
Repeat(at, len, start) == \A i \in 0..len - 1 : At(at + i) = At(start + i)

(***************************************************************************)
(* The match that a search finds begins at a string within reach and repeats    *)
(* it, no longer than the lookahead; when the whole chain is searched, no       *)
(* string within reach repeats longer.  longest_match asks that prev_length_   *)
(* be 1 at least.                                                             *)
(***************************************************************************)
LongestFound ==
    search.length > 0 =>
        LET s == search
            Longer(p) == /\ s.at - p < max_dist
                         /\ s.length < Min({max_match, s.lookahead})
                         /\ Repeat(s.at, Max({s.length + 1, min_match}), p)
        IN  /\ s.length > s.prev_length =>
                  /\ s.start \in s.strings
                  /\ s.length <= s.lookahead /\ Repeat(s.at, s.length, s.start)
            /\ s.prev_length > 0 /\ s.chain > Cardinality(s.strings) /\ s.nice >= max_match =>
                  \A p \in s.strings : ~Longer(p)

(***************************************************************************)
(* The symbols follow each other without a gap and are the input: a literal is  *)
(* the byte at its place, a match repeats what is so far before it.            *)
(***************************************************************************)
SymbolsAreText ==
    /\ symbol.at + symbol.len = base + strstart_ - (IF match_available_ THEN 1 ELSE 0)
    /\ symbol.len > 0 =>
          IF symbol.dist = 0 THEN symbol.byte = At(symbol.at)
          ELSE /\ symbol.dist \in 1..max_dist
               /\ Repeat(symbol.at, symbol.len, symbol.at - symbol.dist)

=============================================================================
