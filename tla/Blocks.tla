------------------------------- MODULE Blocks -------------------------------
(***************************************************************************)
(* A block from the symbols that the compressor tallies to the symbols that *)
(* the decompressor reads: tr_tally, tr_flush_block with all that it calls,   *)
(* and the modes TYPE to DISTEXT of inflate_stream.  What is sent is a         *)
(* sequence of items: a code of one of the trees, or a value of some bits.    *)
(* HuffmanTree shows what build_tree makes and HuffmanCode that its codes are  *)
(* read as they were sent; here a tree is any complete code for its symbols.  *)
(***************************************************************************)
EXTENDS Integers, Sequences, FiniteSetsExt, SequencesExt, Codes

CONSTANTS
    Inputs,            \* what there is to compress: sequences of blocks of symbols
    CodesOver(_, _)    \* complete codes for a set of symbols within a length

max_bits == 15
max_bl_bits == 7

\* A symbol is a byte, or a match with its length less 3 and its distance.
Byte(c) == [len |-> c, dist |-> 0]
max_dist == 32768
Symbol == [len : 0..255, dist : 0..max_dist]
ASSUME InputsAssumption == Inputs \subseteq Seq(Seq(Symbol))

VARIABLES
    todo,                       \* blocks not yet tallied to the end
    buf,                        \* l_buf_ and d_buf_: the symbols tallied
    dyn_ltree_, dyn_dtree_,     \* .fc: how often each has occurred
    level_, strategy_,
    sent,                       \* the last block, what was thought of it, its items
    mode, last_, at,            \* the decompressor, and the item it reads next
    tree,                       \* the codes it reads: none, static or dynamic
    nlen_, ndist_, ncode_, lens_, extra_,
    length_, offset_,
    got                         \* the symbols it has read

compressor == <<todo, buf, dyn_ltree_, dyn_dtree_, level_, strategy_, sent>>
decompressor == <<mode, last_, at, tree, nlen_, ndist_, ncode_, lens_, extra_,
                  length_, offset_, got>>
vars == <<compressor, decompressor>>

-----------------------------------------------------------------------------
ZeroFreq(n) == [c \in 0..n - 1 |-> 0]
init_block ==
    /\ buf' = <<>>
    /\ dyn_ltree_' = [ZeroFreq(lcodes) EXCEPT ![end_block] = 1]
    /\ dyn_dtree_' = ZeroFreq(dcodes)

tr_tally ==
    LET s == Head(Head(todo))
    IN  /\ mode = "idle" /\ todo # <<>> /\ Head(todo) # <<>>
        /\ todo' = [todo EXCEPT ![1] = Tail(@)]
        /\ buf' = Append(buf, s)
        /\ IF s.dist = 0
           THEN /\ dyn_ltree_' = [dyn_ltree_ EXCEPT ![s.len] = @ + 1]
                /\ UNCHANGED dyn_dtree_
           ELSE /\ dyn_ltree_' = [dyn_ltree_ EXCEPT ![length_code[s.len] + literals + 1] = @ + 1]
                /\ dyn_dtree_' = [dyn_dtree_ EXCEPT ![d_code(s.dist - 1)] = @ + 1]
        /\ UNCHANGED <<level_, strategy_, sent, decompressor>>

-----------------------------------------------------------------------------
(* What build_tree leaves in dl: a complete code for the symbols that occur, and    *)
(* those that it makes occur so that there are two.                            *)
Occur(f) == {c \in DOMAIN f : f[c] # 0}
WithForced(used) == used \cup {Forced(used)[i] : i \in DOMAIN Forced(used)}
Complete(dl, s, limit) ==
    /\ DOMAIN dl = s /\ \A c \in s : dl[c] \in 1..limit
    /\ SumFunction([c \in s |-> 2^(limit - dl[c])]) = 2^limit
build_tree(f, limit) ==
    LET s == WithForced(Occur(f))
    IN  {[c \in DOMAIN f |-> IF c \in s THEN dl[c] ELSE 0] :
            dl \in {d \in CodesOver(s, limit) : Complete(d, s, limit)}}
max_code(dl) == Max(Occur(dl))
ExtraOfLiteral ==
    [c \in 0..lcodes - 1 |-> IF c > literals THEN extra_lbits[c - literals - 1] ELSE 0]
BitsOf(f, dl, extra) == SumFunction([c \in Occur(f) |-> f[c] * (dl[c] + extra[c])])

(* The lengths of a tree, each run of equal ones cut where scan_tree and send_tree   *)
(* cut it.  A length above the largest code is guarded: none is equal to it.    *)
Limits(prevlen, len) ==
    CASE len = 0 -> [max |-> 138, min |-> 3]
      [] len # 0 /\ len = prevlen -> [max |-> 6, min |-> 3]
      [] OTHER -> [max |-> 7, min |-> 4]
RunAt(dl, last, n) ==
    LET prevlen == IF n = 0 THEN -1 ELSE dl[n - 1]
        limits  == Limits(prevlen, dl[n])
        EndsAfter(k) == k = limits.max \/ n + k > last \/ dl[n + k] # dl[n]
    IN  [len |-> dl[n], prevlen |-> prevlen, min |-> limits.min,
         count |-> Min({k \in 1..limits.max : EndsAfter(k)})]
Runs(dl) ==
    LET last == max_code(dl)
        cut[n \in 0..last + 1] ==
            IF n > last THEN <<>>
            ELSE LET r == RunAt(dl, last, n) IN <<r>> \o cut[n + r.count]
    IN  cut[0]

(* How much a run adds to the frequency of a code of the bit length tree.          *)
Adds_again(r, c) ==
    IF r.count < r.min THEN IF c = r.len THEN r.count ELSE 0
    ELSE IF r.len # 0 THEN IF c \in {rep_3_6, r.len} THEN 1 ELSE 0
         ELSE IF c = (IF r.count <= 10 THEN repz_3_10 ELSE repz) THEN 1 ELSE 0
Adds(r, c) ==
    IF r.count < r.min THEN IF c = r.len THEN r.count ELSE 0
    ELSE IF r.len # 0
         THEN IF c = rep_3_6 \/ (c = r.len /\ r.len # r.prevlen) THEN 1 ELSE 0
         ELSE IF c = (IF r.count <= 10 THEN repz_3_10 ELSE repz) THEN 1 ELSE 0
scan_tree(runs) ==
    [c \in 0..bl_codes - 1 |-> SumFunction([i \in DOMAIN runs |-> Adds(runs[i], c)])]

-----------------------------------------------------------------------------
(* Items: a value of some bits, or a code of the tree of an alphabet; `of' tells the *)
(* trees of a static block, of a dynamic one and of the lengths apart.          *)
stored_blocks == 0
static_trees == 1
dynamic_trees == 2

send_bits(value, length) == [op |-> "bits", of |-> 0, val |-> value, bits |-> length]
send_code(value, alphabet, kind, dl) ==
    [op |-> alphabet, of |-> kind, val |-> value, bits |-> dl[value]]
Stored(n) == [op |-> "stored", of |-> 0, val |-> n, bits |-> 8 * (n + 4)]

SendRun_uncounted(r, bl) ==
    LET Code(c) == send_code(c, "length", dynamic_trees, bl)
    IN  IF r.count < r.min THEN [i \in 1..r.count |-> Code(r.len)]
        ELSE IF r.len # 0
        THEN (IF r.len # r.prevlen THEN <<Code(r.len)>> ELSE <<>>)
             \o <<Code(rep_3_6), send_bits(r.count - 3, 2)>>
        ELSE IF r.count <= 10 THEN <<Code(repz_3_10), send_bits(r.count - 3, 3)>>
        ELSE <<Code(repz), send_bits(r.count - 11, 7)>>

SendRun(r, bl) ==
    LET Code(c) == send_code(c, "length", dynamic_trees, bl)
        new     == r.len # r.prevlen
    IN  IF r.count < r.min THEN [i \in 1..r.count |-> Code(r.len)]
        ELSE IF r.len # 0
        THEN (IF new THEN <<Code(r.len)>> ELSE <<>>)
             \o <<Code(rep_3_6), send_bits((IF new THEN r.count - 1 ELSE r.count) - 3, 2)>>
        ELSE IF r.count <= 10 THEN <<Code(repz_3_10), send_bits(r.count - 3, 3)>>
        ELSE <<Code(repz), send_bits(r.count - 11, 7)>>
send_tree(runs, bl) == FlattenSeq([i \in DOMAIN runs |-> SendRun(runs[i], bl)])

(* At least four lengths of the bit length tree are sent, and none after the last    *)
(* that is used.                                                              *)
max_blindex(bl) == Max({3} \cup {i \in 0..bl_codes - 1 : bl[bl_order[i + 1]] # 0})
send_all_trees(l, d, bl) ==
    LET blcodes == max_blindex(bl) + 1
    IN  <<send_bits(max_code(l) + 1 - 257, 5), send_bits(max_code(d) + 1 - 1, 5),
          send_bits(blcodes - 4, 4)>>
        \o [i \in 1..blcodes |-> send_bits(bl[bl_order[i]], 3)]
        \o send_tree(Runs(l), bl) \o send_tree(Runs(d), bl)

Extra(n, v) == IF n = 0 THEN <<>> ELSE <<send_bits(v, n)>>
SendMatch(s, l, d, kind) ==
    LET code  == length_code[s.len]
        dcode == d_code(s.dist - 1)
    IN  <<send_code(code + literals + 1, "literal", kind, l)>>
        \o Extra(extra_lbits[code], s.len - base_length[code])
        \o <<send_code(dcode, "distance", kind, d)>>
        \o Extra(extra_dbits[dcode], s.dist - 1 - base_dist[dcode])
compress_block(symbols, l, d, kind) ==
    FlattenSeq([i \in DOMAIN symbols |->
        IF symbols[i].dist = 0 THEN <<send_code(symbols[i].len, "literal", kind, l)>>
        ELSE SendMatch(symbols[i], l, d, kind)])
    \o <<send_code(end_block, "literal", kind, l)>>

-----------------------------------------------------------------------------
Header(kind, last) == <<send_bits(2 * kind + last, 3)>>
StaticItems(symbols, last) ==
    Header(static_trees, last) \o compress_block(symbols, ltree, dtree, static_trees)
DynamicItems(symbols, last, l, d, bl) ==
    Header(dynamic_trees, last) \o send_all_trees(l, d, bl)
        \o compress_block(symbols, l, d, dynamic_trees)

StoredLen ==
    SumFunction([i \in DOMAIN buf |-> IF buf[i].dist = 0 THEN 1 ELSE buf[i].len + 3])
InBytes_headless(bits) == (bits + 7) \div 8
InBytes(bits) == (bits + 3 + 7) \div 8

(* in_window: the bytes of the block are still there to be stored.  At level 0 no    *)
(* tree is built, and none is used.                                            *)
tr_flush_block(in_window, last) ==
    \E l \in build_tree(dyn_ltree_, max_bits), d \in build_tree(dyn_dtree_, max_bits) :
      LET blfreq == scan_tree(Runs(l) \o Runs(d))
      IN \E bl \in build_tree(blfreq, max_bl_bits) :
        LET stored_len  == StoredLen
            opt_len_    == BitsOf(dyn_ltree_, l, ExtraOfLiteral)
                           + BitsOf(dyn_dtree_, d, extra_dbits)
                           + BitsOf(blfreq, bl, extra_blbits)
                           + 3 * (max_blindex(bl) + 1) + 5 + 5 + 4
            static_len_ == BitsOf(dyn_ltree_, ltree, ExtraOfLiteral)
                           + BitsOf(dyn_dtree_, dtree, extra_dbits)
            static_lenb == IF level_ > 0 THEN InBytes(static_len_) ELSE stored_len + 5
            opt_lenb    == IF level_ > 0 THEN Min({InBytes(opt_len_), static_lenb})
                           ELSE stored_len + 5
            Send(kind, len, items) ==
                sent' = [kind |-> kind, len |-> len, items |-> items, symbols |-> buf,
                         in_window |-> in_window, stored_len |-> stored_len,
                         last |-> last, l |-> l, d |-> d, bl |-> bl]
        IN  /\ IF stored_len + 4 <= opt_lenb /\ in_window
               THEN Send(stored_blocks, 8 * (stored_len + 4),
                         Header(stored_blocks, last) \o <<Stored(stored_len)>>)
               ELSE IF strategy_ = "fixed" \/ static_lenb = opt_lenb
               THEN Send(static_trees, static_len_, StaticItems(buf, last))
               ELSE Send(dynamic_trees, opt_len_, DynamicItems(buf, last, l, d, bl))
            /\ init_block

FlushBlock ==
    /\ mode = "idle" /\ todo # <<>> /\ Head(todo) = <<>>
    /\ \E in_window \in BOOLEAN :
           tr_flush_block(in_window, IF Len(todo) = 1 THEN 1 ELSE 0)
    /\ todo' = Tail(todo)
    /\ mode' = "TYPEDO" /\ at' = 1 /\ got' = <<>>
    /\ UNCHANGED <<level_, strategy_, last_, tree, nlen_, ndist_, ncode_, lens_,
                   extra_, length_, offset_>>

-----------------------------------------------------------------------------
(* inflate_stream: what each mode reads.                                         *)
order == <<16, 17, 18, 0, 8, 7, 9, 6, 10, 5, 11, 4, 12, 3, 13, 2, 14, 1, 15>>
lbase == <<3, 4, 5, 6, 7, 8, 9, 10, 11, 13, 15, 17, 19, 23, 27, 31,
           35, 43, 51, 59, 67, 83, 99, 115, 131, 163, 195, 227, 258>>
lext == <<16, 16, 16, 16, 16, 16, 16, 16, 17, 17, 17, 17, 18, 18, 18, 18,
          19, 19, 19, 19, 20, 20, 20, 20, 21, 21, 21, 21, 16>>
dbase == <<1, 2, 3, 4, 5, 7, 9, 13, 17, 25, 33, 49, 65, 97, 129, 193,
           257, 385, 513, 769, 1025, 1537, 2049, 3073, 4097, 6145,
           8193, 12289, 16385, 24577>>
dext == <<16, 16, 16, 16, 17, 17, 18, 18, 19, 19, 20, 20, 21, 21, 22, 22,
          23, 23, 24, 24, 25, 25, 26, 26, 27, 27, 28, 28, 29, 29>>

ValueOf(n) == [op |-> "bits", bits |-> n]
CodeOf(alphabet) == [op |-> alphabet, bits |-> 0]
RepeatBits(v) == CASE v = 16 -> <<ValueOf(2)>> [] v = 17 -> <<ValueOf(3)>>
                   [] v = 18 -> <<ValueOf(7)>> [] OTHER -> <<>>
Item(i) == sent.items[at + i].val
Wanted ==
    CASE mode = "TYPEDO" -> <<ValueOf(3)>>
      [] mode = "STORED" -> <<CodeOf("stored")>>
      [] mode = "TABLE" -> <<ValueOf(5), ValueOf(5), ValueOf(4)>>
      [] mode = "LENLENS" -> [i \in 1..ncode_ |-> ValueOf(3)]
      [] mode = "CODELENS" -> <<CodeOf("length")>> \o RepeatBits(Item(0))
      [] mode = "LEN" -> <<CodeOf("literal")>>
      [] mode = "DIST" -> <<CodeOf("distance")>>
      [] mode \in {"LENEXT", "DISTEXT"} -> <<ValueOf(extra_)>>

(* A code is read as what was sent if the tables are those of its tree, and it is one; *)
(* a value if as many bits are read as it has.                                *)
Matches(item, w) ==
    /\ item.op = w.op
    /\ IF w.op = "bits" THEN item.bits = w.bits ELSE item.of = tree /\ item.bits > 0
Readable ==
    /\ at <= Len(sent.items)
    /\ at + Len(Wanted) - 1 <= Len(sent.items)
    /\ \A i \in DOMAIN Wanted : Matches(sent.items[at + i - 1], Wanted[i])
Reads(m) == mode = m /\ Readable /\ at' = at + Len(Wanted)

-----------------------------------------------------------------------------
(* The fixed tables read the codes of the static trees when they are made of the same *)
(* lengths, and so do the tables made of the lengths that were sent.           *)
FixedLens == [n \in 0..287 |-> CASE n < 144 -> 8 [] n \in 144..255 -> 9
                                 [] n \in 256..279 -> 7 [] OTHER -> 8]
FixedDists == [n \in 0..31 |-> 5]
FixedTables == FixedLens = ltree /\ \A n \in 0..dcodes - 1 : FixedDists[n] = dtree[n]
Same(dl, l) == \A n \in DOMAIN dl : dl[n] = IF n + 1 \in DOMAIN l THEN l[n + 1] ELSE 0
EndOfBlock == IF last_ = 1 THEN "CHECK" ELSE "idle"

TYPEDO ==
    /\ Reads("TYPEDO")
    /\ last_' = Item(0) % 2
    /\ mode' = CASE Item(0) \div 2 = 0 -> "STORED"
                 [] Item(0) \div 2 = 1 -> IF FixedTables THEN "LEN" ELSE "lost"
                 [] Item(0) \div 2 = 2 -> "TABLE"
                 [] OTHER -> "BAD"
    /\ tree' = Item(0) \div 2
    /\ UNCHANGED <<compressor, nlen_, ndist_, ncode_, lens_, extra_, length_, offset_, got>>

STORED ==
    /\ Reads("STORED")
    /\ got' = <<Item(0)>>
    /\ mode' = EndOfBlock
    /\ UNCHANGED <<compressor, last_, tree, nlen_, ndist_, ncode_, lens_, extra_,
                   length_, offset_>>

TABLE ==
    /\ Reads("TABLE")
    /\ nlen_' = Item(0) + 257 /\ ndist_' = Item(1) + 1 /\ ncode_' = Item(2) + 4
    /\ mode' = IF nlen_' > 286 \/ ndist_' > 30 THEN "BAD" ELSE "LENLENS"
    /\ UNCHANGED <<compressor, last_, tree, lens_, extra_, length_, offset_, got>>

LENLENS ==
    LET lens == [c \in 0..18 |->
                    IF \E i \in 1..ncode_ : order[i] = c
                    THEN Item((CHOOSE i \in 1..ncode_ : order[i] = c) - 1) ELSE 0]
    IN  /\ Reads("LENLENS")
        /\ mode' = IF lens = sent.bl THEN "CODELENS" ELSE "lost"
        /\ lens_' = <<>>
        /\ UNCHANGED <<compressor, last_, tree, nlen_, ndist_, ncode_, extra_, length_,
                       offset_, got>>

CODELENS ==
    LET v    == Item(0)
        run  == CASE v < 16 -> [i \in 1..1 |-> v]
                  [] v = 16 -> [i \in 1..3 + Item(1) |-> Last(lens_)]
                  [] v = 17 -> [i \in 1..3 + Item(1) |-> 0]
                  [] OTHER  -> [i \in 1..11 + Item(1) |-> 0]
        bad  == (v = 16 /\ lens_ = <<>>) \/ Len(lens_ \o run) > nlen_ + ndist_
        lens == lens_ \o run
        read == Same(sent.l, SubSeq(lens, 1, nlen_))
                    /\ Same(sent.d, SubSeq(lens, nlen_ + 1, nlen_ + ndist_))
    IN  /\ Reads("CODELENS")
        /\ IF bad THEN mode' = "BAD" /\ UNCHANGED lens_
           ELSE /\ lens_' = lens
                /\ mode' = IF Len(lens) < nlen_ + ndist_ THEN mode
                           ELSE IF lens[257] = 0 THEN "BAD"
                           ELSE IF read THEN "LEN" ELSE "lost"
        /\ UNCHANGED <<compressor, last_, tree, nlen_, ndist_, ncode_, extra_, length_,
                       offset_, got>>

LEN ==
    LET v == Item(0)
    IN  /\ Reads("LEN")
        /\ CASE v < 256 -> /\ got' = Append(got, Byte(v))
                           /\ UNCHANGED <<mode, length_, extra_>>
             [] v = 256 -> /\ mode' = EndOfBlock
                           /\ UNCHANGED <<got, length_, extra_>>
             [] OTHER   -> /\ length_' = lbase[v - 256]
                           /\ extra_' = lext[v - 256] % 16
                           /\ mode' = IF extra_' = 0 THEN "DIST" ELSE "LENEXT"
                           /\ UNCHANGED got
        /\ UNCHANGED <<compressor, last_, tree, nlen_, ndist_, ncode_, lens_, offset_>>

LENEXT ==
    /\ Reads("LENEXT")
    /\ length_' = length_ + Item(0)
    /\ mode' = "DIST"
    /\ UNCHANGED <<compressor, last_, tree, nlen_, ndist_, ncode_, lens_, extra_, offset_,
                   got>>

Match(dist) == /\ got' = Append(got, [len |-> length_, dist |-> dist])
               /\ mode' = "LEN"
DIST ==
    LET v == Item(0)
    IN  /\ Reads("DIST")
        /\ offset_' = dbase[v + 1] /\ extra_' = dext[v + 1] % 16
        /\ IF extra_' = 0 THEN Match(offset_') ELSE mode' = "DISTEXT" /\ UNCHANGED got
        /\ UNCHANGED <<compressor, last_, tree, nlen_, ndist_, ncode_, lens_, length_>>

DISTEXT ==
    /\ Reads("DISTEXT")
    /\ offset_' = offset_ + Item(0)
    /\ Match(offset_')
    /\ UNCHANGED <<compressor, last_, tree, nlen_, ndist_, ncode_, lens_, extra_, length_>>

-----------------------------------------------------------------------------
Init ==
    /\ todo \in Inputs /\ todo # <<>>
    /\ buf = <<>>
    /\ dyn_ltree_ = [ZeroFreq(lcodes) EXCEPT ![end_block] = 1]
    /\ dyn_dtree_ = ZeroFreq(dcodes)
    /\ level_ \in {0, 1} /\ strategy_ \in {"normal", "fixed"}
    /\ sent = [items |-> <<>>]
    /\ mode = "idle" /\ last_ = 0 /\ at = 1 /\ tree = 0
    /\ nlen_ = 0 /\ ndist_ = 0 /\ ncode_ = 0 /\ lens_ = <<>>
    /\ extra_ = 0 /\ length_ = 0 /\ offset_ = 0 /\ got = <<>>

Next ==
    \/ tr_tally \/ FlushBlock
    \/ TYPEDO \/ STORED \/ TABLE \/ LENLENS \/ CODELENS
    \/ LEN \/ LENEXT \/ DIST \/ DISTEXT

Spec == Init /\ [][Next]_vars

-----------------------------------------------------------------------------
Sent(s) == IF s.dist = 0 THEN s ELSE [s EXCEPT !.len = @ + 3]
Symbols == IF sent.kind = stored_blocks THEN <<sent.stored_len>>
           ELSE [i \in DOMAIN sent.symbols |-> Sent(sent.symbols[i])]
ValuesFit == \A i \in DOMAIN sent.items :
                sent.items[i].op = "bits" => sent.items[i].val \in 0..2^sent.items[i].bits - 1

(***************************************************************************)
(* What was tallied is what is read: the lengths of the trees, the codes and   *)
(* the extra bits of a block never lead the decompressor astray, and when it    *)
(* comes to the end of the block it has read all of it, and the same lengths   *)
(* and distances.  Every value fits the bits it is sent in, as send_bits       *)
(* demands.                                                                   *)
(***************************************************************************)
BlockDecodes ==
    /\ mode \in {"idle", "CHECK"} \/ (mode \notin {"lost", "BAD"} /\ Readable)
    /\ mode = "TYPEDO" => ValuesFit
    /\ mode \in {"idle", "CHECK"} /\ sent.items # <<>> =>
          got = Symbols /\ at = Len(sent.items) + 1

Total(items) == SumFunction([i \in DOMAIN items |-> items[i].bits])

(***************************************************************************)
(* The bits of a block are those that the choice among the kinds was made by:   *)
(* opt_len_ with the trees that were sent, or static_len_, and the three bits   *)
(* of the header.                                                             *)
(***************************************************************************)
BitsAnnounced ==
    mode = "TYPEDO" /\ level_ > 0 => Total(sent.items) = 3 + sent.len

StoredBytes == sent.stored_len + 5
BytesOf(items) == (Total(items) + 7) \div 8

(***************************************************************************)
(* No other kind that could have been chosen takes fewer bytes; a stored block  *)
(* may take one more, which its lengths are taken to be short of.  A strategy   *)
(* that forbids the dynamic trees still compares a stored block with them.     *)
(***************************************************************************)
ShortestKind ==
    mode = "TYPEDO" /\ level_ > 0 /\ strategy_ # "fixed" =>
        LET static  == BytesOf(StaticItems(sent.symbols, sent.last))
            dynamic == BytesOf(DynamicItems(sent.symbols, sent.last, sent.l, sent.d, sent.bl))
            others  == {static, dynamic} \cup (IF sent.in_window THEN {StoredBytes} ELSE {})
        IN  IF sent.kind = stored_blocks
            THEN \A n \in others : StoredBytes <= n + 1
            ELSE \A n \in others : BytesOf(sent.items) <= n

=============================================================================
