------------------------------ MODULE BlocksInv ------------------------------
(***************************************************************************)
(* The inductive invariant of Blocks: what the frequencies count while a     *)
(* block is tallied, what was sent for it, and where in that each mode of    *)
(* the decompressor is.                                                     *)
(***************************************************************************)
EXTENDS Blocks

\* The codes that a symbol is sent with.
IsMatch(s) == s.dist # 0
LiteralCode(s) == IF s.dist = 0 THEN s.len ELSE length_code[s.len] + literals + 1
DistanceCode(s) == d_code(s.dist - 1)

\* Whether a symbol takes a code, as a number.
TakesLiteral(s, c) == IF LiteralCode(s) = c THEN 1 ELSE 0
TakesDistance(s, c) == IF IsMatch(s) /\ DistanceCode(s) = c THEN 1 ELSE 0

\* What is left to tally and what was tallied are symbols.
Typed ==
    /\ todo \in Seq(Seq(Symbol)) /\ buf \in Seq(Symbol)
    /\ level_ \in {0, 1} /\ strategy_ \in {"normal", "fixed"}

\* The frequencies are how often the codes of the symbols tallied occur.
LiteralCount(symbols, c) == SumFunction([i \in DOMAIN symbols |-> TakesLiteral(symbols[i], c)])
DistanceCount(symbols, c) == SumFunction([i \in DOMAIN symbols |-> TakesDistance(symbols[i], c)])
Counts(symbols, lfreq, dfreq) ==
    /\ lfreq = [c \in 0..lcodes - 1 |->
                   LiteralCount(symbols, c) + IF c = end_block THEN 1 ELSE 0]
    /\ dfreq = [c \in 0..dcodes - 1 |-> DistanceCount(symbols, c)]
Counted == Counts(buf, dyn_ltree_, dyn_dtree_)

-----------------------------------------------------------------------------
(* The block that was sent *)

\* The runs of both trees, as they are sent.
AllRuns(b) == Runs(b.l) \o Runs(b.d)

\* Every code that is sent has a length.
TreesFit(b) ==
    /\ b.l \in [0..lcodes - 1 -> 0..max_bits]
    /\ b.d \in [0..dcodes - 1 -> 0..max_bits]
    /\ b.bl \in [0..bl_codes - 1 -> 0..max_bl_bits]
    /\ b.l[end_block] # 0 /\ Occur(b.d) # {}
    /\ \A i \in DOMAIN b.symbols :
          /\ b.l[LiteralCode(b.symbols[i])] # 0
          /\ IsMatch(b.symbols[i]) => b.d[DistanceCode(b.symbols[i])] # 0
    /\ \A i \in DOMAIN AllRuns(b), c \in 0..bl_codes - 1 :
          Adds(AllRuns(b)[i], c) # 0 => b.bl[c] # 0

\* The block is what tr_flush_block sends for its symbols, of one of the three kinds.
Block(b) ==
    /\ b.kind \in {stored_blocks, static_trees, dynamic_trees} /\ b.last \in {0, 1}
    /\ b.symbols \in Seq(Symbol) /\ b.stored_len \in Nat /\ TreesFit(b)
    /\ b.items = CASE b.kind = stored_blocks ->
                          Header(stored_blocks, b.last) \o <<Stored(b.stored_len)>>
                   [] b.kind = static_trees -> StaticItems(b.symbols, b.last)
                   [] OTHER -> DynamicItems(b.symbols, b.last, b.l, b.d, b.bl)

\* The trees that the symbols are sent with.
LTree(b) == IF b.kind = static_trees THEN ltree ELSE b.l
DTree(b) == IF b.kind = static_trees THEN dtree ELSE b.d

\* What is sent before the first length of the trees, and before the first symbol.
HeadLen(b) == 4 + max_blindex(b.bl) + 1
SymbolsFrom(b) ==
    IF b.kind = static_trees THEN 1 ELSE 1 + Len(send_all_trees(b.l, b.d, b.bl))

\* The items of one symbol, and those of every symbol and of every run, a row each.
SymbolItems(s, l, d, kind) ==
    IF s.dist = 0 THEN <<send_code(s.len, "literal", kind, l)>> ELSE SendMatch(s, l, d, kind)
RowsOf(b) == [i \in DOMAIN b.symbols |->
                 SymbolItems(b.symbols[i], LTree(b), DTree(b), b.kind)]
RunRows(b) == [i \in DOMAIN AllRuns(b) |-> SendRun(AllRuns(b)[i], b.bl)]

\* How many items are in the rows before row k.
Place(rows, k) == SumFunctionOnSet([i \in DOMAIN rows |-> Len(rows[i])], 1..k - 1)

\* How many lengths are in the runs before run k, and what they are.
LensBefore(runs, k) == SumFunctionOnSet([i \in DOMAIN runs |-> runs[i].count], 1..k - 1)
LensOf(b) == [n \in 1..max_code(b.l) + 1 + max_code(b.d) + 1 |->
                 IF n <= max_code(b.l) + 1 THEN b.l[n - 1] ELSE b.d[n - 1 - (max_code(b.l) + 1)]]

-----------------------------------------------------------------------------
(* Where the decompressor is *)

\* The symbol that is read next, or the end of the block.
k_ == Len(got) + 1
SymbolAt == sent.symbols[k_]
RowAt == SymbolsFrom(sent) + Place(RowsOf(sent), k_)

\* What was read so far is the beginning of what was tallied, and a match comes next.
SymbolsRead ==
    /\ sent.kind \in {static_trees, dynamic_trees}
    /\ Len(got) \in 0..Len(sent.symbols)
    /\ got = [i \in 1..Len(got) |-> Sent(sent.symbols[i])]
MatchAt == SymbolsRead /\ Len(got) < Len(sent.symbols) /\ IsMatch(SymbolAt)

\* The items of the length of the match that come before those of its distance.
LengthItems == IF extra_lbits[length_code[SymbolAt.len]] = 0 THEN 1 ELSE 2

\* The codes of a run between which the decompressor can be.
StopsIn(r, i) ==
    \/ i = 0
    \/ r.count < r.min /\ i < r.count
    \/ i = 1 /\ r.len # 0 /\ r.count >= r.min /\ r.len # r.prevlen

\* The lengths read so far are the trees' lengths, up to a code of one of the runs.
LensRead ==
    /\ sent.kind = dynamic_trees
    /\ nlen_ = max_code(sent.l) + 1 /\ ndist_ = max_code(sent.d) + 1
    /\ lens_ = [n \in 1..Len(lens_) |-> LensOf(sent)[n]]
    /\ \E k \in DOMAIN AllRuns(sent) : \E i \in 0..6 :
          /\ StopsIn(AllRuns(sent)[k], i)
          /\ at = HeadLen(sent) + Place(RunRows(sent), k) + i + 1
          /\ Len(lens_) = LensBefore(AllRuns(sent), k) + i

\* The header was read; all of the block was read.
TypeKnown == tree = sent.kind /\ last_ = sent.last
AtEnd == got = Symbols /\ at = Len(sent.items) + 1

\* Where the decompressor is in the block, in each of its modes.
InMode ==
    CASE mode = "idle" -> sent.items # <<>> => AtEnd
      [] mode = "CHECK" -> AtEnd
      [] mode = "TYPEDO" -> at = 1 /\ got = <<>>
      [] mode = "STORED" -> TypeKnown /\ sent.kind = stored_blocks /\ at = 2
      [] mode = "TABLE" -> TypeKnown /\ sent.kind = dynamic_trees /\ at = 2 /\ got = <<>>
      [] mode = "LENLENS" ->
            /\ TypeKnown /\ sent.kind = dynamic_trees /\ at = 5 /\ got = <<>>
            /\ nlen_ = max_code(sent.l) + 1 /\ ndist_ = max_code(sent.d) + 1
            /\ ncode_ = max_blindex(sent.bl) + 1
      [] mode = "CODELENS" -> TypeKnown /\ got = <<>> /\ LensRead
      [] mode = "LEN" -> TypeKnown /\ SymbolsRead /\ at = RowAt + 1
      [] mode = "LENEXT" ->
            /\ TypeKnown /\ MatchAt /\ at = RowAt + 2
            /\ extra_ = extra_lbits[length_code[SymbolAt.len]] /\ extra_ # 0
            /\ length_ = base_length[length_code[SymbolAt.len]] + 3
      [] mode = "DIST" ->
            /\ TypeKnown /\ MatchAt /\ at = RowAt + LengthItems + 1
            /\ length_ = SymbolAt.len + 3
      [] mode = "DISTEXT" ->
            /\ TypeKnown /\ MatchAt /\ at = RowAt + LengthItems + 2
            /\ length_ = SymbolAt.len + 3
            /\ extra_ = extra_dbits[DistanceCode(SymbolAt)] /\ extra_ # 0
            /\ offset_ = base_dist[DistanceCode(SymbolAt)] + 1
      [] OTHER -> FALSE

\* The decompressor reads the block that was sent.
Decoding ==
    /\ sent.items = <<>> => mode = "idle"
    /\ sent.items # <<>> => Block(sent)
    /\ InMode

\* The inductive invariant.
IInv == Typed /\ Counted /\ Decoding
=============================================================================
