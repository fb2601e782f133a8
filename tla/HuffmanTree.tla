----------------------------- MODULE HuffmanTree -----------------------------
(***************************************************************************)
(* build_tree of deflate_stream: the heap that puts the two least frequent   *)
(* nodes together, gen_bitlen, which reads the lengths off the tree and       *)
(* shortens those that are too long, and gen_codes.  One action per round of  *)
(* a loop; the arrays are functions, the members of ct_data (fc, which holds  *)
(* a frequency and then a code, and dl, a father and then a length) two of    *)
(* them.  What is in heap_ after heap_len_ and before heap_max_ is left over. *)
(***************************************************************************)
EXTENDS Integers, Sequences, FiniteSetsExt, Codes

CONSTANTS
    elems,         \* symbols of the alphabet
    max_bits,      \* the longest code of any tree: 15 in the code
    Descs          \* the trees to build: records of frequencies and a description

Symbols == 0..elems - 1
heap_size == 2 * elems + 1
Nodes == 0..heap_size - 1
kSmallest == 1

ASSUME AlphabetAssumption == elems \in Nat \ 0..2 /\ max_bits \in Nat \ {0}

\* freq: the frequencies; max_length: the longest code; extra: extra_bits of a
\* symbol; stree: the lengths of the static tree, or << >> for a tree without one.
ASSUME DescsAssumption ==
    \A d \in Descs :
        /\ d.freq \in [Symbols -> Nat]
        /\ d.max_length \in 1..max_bits /\ elems <= 2^d.max_length
        /\ d.extra \in [Symbols -> Nat] /\ \A n \in 0..2 : d.extra[n] = 0
        /\ d.stree = <<>> \/ d.stree \in [Symbols -> Nat]

VARIABLES
    pc,            \* the loop that build_tree is in
    desc,          \* the tree being built
    fc, dl, heap_, heap_len_, heap_max_, depth_, node, max_code,
    bl_count_, h, overflow,
    opt_len_, static_len_

tree_vars == <<pc, desc, fc, dl, heap_, heap_len_, heap_max_, depth_, node,
               max_code, bl_count_, h, overflow, opt_len_, static_len_>>

-----------------------------------------------------------------------------
smaller_depth_first(f, d, n, m) == d[n] < d[m] \/ (d[n] = d[m] /\ f[n] <= f[m])
smaller(f, d, n, m) == f[n] < f[m] \/ (f[n] = f[m] /\ d[n] <= d[m])

(* The nodes of the heap hp of len nodes after that at k went down: the sons    *)
(* that are read on the way down are still where they were.                    *)
pqdownheap(hp, len, f, d, k) ==
    LET v == hp[k]
        Son(j) == IF 2 * j < len /\ smaller(f, d, hp[2 * j + 1], hp[2 * j])
                  THEN 2 * j + 1 ELSE 2 * j
        Down[j \in 1..len] ==
            IF 2 * j > len \/ smaller(f, d, v, hp[Son(j)])
            THEN [hp EXCEPT ![j] = v]
            ELSE [Down[Son(j)] EXCEPT ![j] = hp[Son(j)]]
    IN  Down[k]

Static(n) == IF desc.stree = <<>> THEN 0 ELSE desc.stree[n]

BuildHeap ==
    LET used   == {n \in Symbols : desc.freq[n] # 0}
        forced == Forced(used)
        coded  == used \cup {forced[i] : i \in DOMAIN forced}
        len    == Cardinality(coded)
        nth    == [i \in 1..Cardinality(used) |->
                     CHOOSE n \in used : Cardinality({m \in used : m <= n}) = i] \o forced
        f  == [n \in Nodes |-> CASE n \in used -> desc.freq[n]
                                 [] n \in coded \ used -> 1
                                 [] OTHER -> fc[n]]
        d  == [n \in Nodes |-> IF n \in coded THEN 0 ELSE depth_[n]]
        hp == [i \in Nodes |-> IF i \in 1..len THEN nth[i] ELSE heap_[i]]
        heapify[n \in 1..len \div 2 + 1] ==
            IF n = len \div 2 + 1 THEN hp
            ELSE pqdownheap(heapify[n + 1], len, f, d, n)
    IN  /\ pc = "heap"
        /\ fc' = f /\ depth_' = d
        /\ dl' = [n \in Nodes |-> IF n \in Symbols \ used THEN 0 ELSE dl[n]]
        /\ heap_' = heapify[1]
        /\ heap_len_' = len /\ heap_max_' = heap_size
        /\ max_code' = Max(coded)
        /\ node' = elems
        /\ opt_len_' = opt_len_ - Len(forced)
        /\ static_len_' = static_len_ -
                SumFunction([i \in DOMAIN forced |-> Static(forced[i])])
        /\ pc' = "combine"
        /\ UNCHANGED <<desc, bl_count_, h, overflow>>

(* The father of the two least frequent nodes takes their place.               *)
Combine ==
    LET n     == heap_[kSmallest]
        len   == heap_len_ - 1
        rest  == pqdownheap([heap_ EXCEPT ![kSmallest] = heap_[heap_len_]],
                            len, fc, depth_, kSmallest)
        m     == rest[kSmallest]
        f     == [fc EXCEPT ![node] = fc[n] + fc[m]]
        d     == [depth_ EXCEPT ![node] = Max({depth_[n], depth_[m]}) + 1]
        hp    == pqdownheap([rest EXCEPT ![heap_max_ - 1] = n, ![heap_max_ - 2] = m,
                                         ![kSmallest] = node],
                            len, f, d, kSmallest)
    IN  /\ pc = "combine"
        /\ heap_len_' = len
        /\ fc' = f /\ depth_' = d
        /\ node' = node + 1
        /\ IF len >= 2
           THEN /\ heap_' = hp
                /\ heap_max_' = heap_max_ - 2
                /\ dl' = [dl EXCEPT ![n] = node, ![m] = node]
                /\ UNCHANGED <<pc, h, bl_count_, overflow>>
           ELSE /\ heap_' = [hp EXCEPT ![heap_max_ - 3] = hp[kSmallest]]
                /\ heap_max_' = heap_max_ - 3
                /\ dl' = [dl EXCEPT ![n] = node, ![m] = node, ![hp[kSmallest]] = 0]
                /\ h' = heap_max_ - 2 /\ overflow' = 0
                /\ bl_count_' = [b \in 0..max_bits |-> 0]
                /\ pc' = "lengths"
        /\ UNCHANGED <<desc, max_code, opt_len_, static_len_>>

-----------------------------------------------------------------------------
(* gen_bitlen: a length is that of the father and one, as long as it may be.    *)
TooDeep_leaf(n, deep) == deep > desc.max_length /\ n <= max_code
TooDeep(n, deep) == deep > desc.max_length

SetLength ==
    LET n    == heap_[h]
        deep == dl[dl[n]] + 1
        bits == Min({deep, desc.max_length})
        over == overflow + (IF TooDeep(n, deep) THEN 1 ELSE 0)
    IN  /\ pc = "lengths"
        /\ dl' = [dl EXCEPT ![n] = bits]
        /\ overflow' = over
        /\ h' = h + 1
        /\ IF n > max_code
           THEN UNCHANGED <<bl_count_, opt_len_, static_len_>>
           ELSE /\ bl_count_' = [bl_count_ EXCEPT ![bits] = @ + 1]
                /\ opt_len_' = opt_len_ + fc[n] * (bits + desc.extra[n])
                /\ static_len_' = IF desc.stree = <<>> THEN static_len_
                                  ELSE static_len_ + fc[n] * (Static(n) + desc.extra[n])
        /\ pc' = IF h + 1 < heap_size THEN pc
                 ELSE IF over = 0 THEN "codes" ELSE "overflow"
        /\ UNCHANGED <<desc, fc, heap_, heap_len_, heap_max_, depth_, node, max_code>>

(* A leaf goes one down the tree, and one that is too deep becomes its brother. *)
MoveLeaf ==
    LET bits == Max({b \in 1..desc.max_length - 1 : bl_count_[b] # 0})
    IN  /\ pc = "overflow"
        /\ bl_count_' = [[[bl_count_ EXCEPT ![bits] = @ - 1]
                            EXCEPT ![bits + 1] = @ + 2]
                            EXCEPT ![desc.max_length] = @ - 1]
        /\ overflow' = overflow - 2
        /\ pc' = IF overflow - 2 > 0 THEN pc ELSE "recompute"
        /\ UNCHANGED <<desc, fc, dl, heap_, heap_len_, heap_max_, depth_, node,
                       max_code, h, opt_len_, static_len_>>

(* The scan of the sorted nodes from the least frequent one up: the first        *)
(* bl_count_[max_length] leaves get the longest codes, and so on.              *)
Leaves == {i \in heap_max_..heap_size - 1 : heap_[i] <= max_code}
LongerThan(bits) == SumFunctionOnSet(bl_count_, bits + 1..desc.max_length)
LengthAt_upwards(i) ==
    LET before == Cardinality({j \in Leaves : j < i})
    IN  CHOOSE b \in 1..desc.max_length :
            LongerThan(b) <= before /\ before < LongerThan(b) + bl_count_[b]
LengthAt(i) ==
    LET before == Cardinality({j \in Leaves : j > i})
    IN  CHOOSE b \in 1..desc.max_length :
            LongerThan(b) <= before /\ before < LongerThan(b) + bl_count_[b]

LengthChange_each(i, to) == to - dl[heap_[i]]
LengthChange(i, to) == (to - dl[heap_[i]]) * fc[heap_[i]]

Recompute ==
    LET moved == [i \in Leaves |-> LengthAt(i)]
        place == [n \in {heap_[i] : i \in Leaves} |-> CHOOSE i \in Leaves : heap_[i] = n]
    IN  /\ pc = "recompute"
        /\ dl' = [n \in Nodes |-> IF n \in DOMAIN place THEN moved[place[n]] ELSE dl[n]]
        /\ opt_len_' = opt_len_ +
               SumFunction([i \in Leaves |-> LengthChange(i, moved[i])])
        /\ pc' = "codes"
        /\ UNCHANGED <<desc, fc, heap_, heap_len_, heap_max_, depth_, node, max_code,
                       bl_count_, h, overflow, static_len_>>

-----------------------------------------------------------------------------
(* The first code of each length: the last code of the length before, and one,   *)
(* doubled.                                                                    *)
next_code_doubled_early ==
    LET first[bits \in 0..max_bits] ==
            IF bits = 0 THEN 0 ELSE first[bits - 1] * 2 + bl_count_[bits - 1]
    IN  first
next_code ==
    LET first[bits \in 0..max_bits] ==
            IF bits = 0 THEN 0 ELSE (first[bits - 1] + bl_count_[bits - 1]) * 2
    IN  first

gen_codes ==
    /\ pc = "codes"
    /\ fc' = [n \in Nodes |->
                 IF n <= max_code /\ dl[n] # 0
                 THEN bi_reverse(next_code[dl[n]] +
                          Cardinality({m \in 0..n - 1 : dl[m] = dl[n]}), dl[n])
                 ELSE fc[n]]
    /\ pc' = "done"
    /\ UNCHANGED <<desc, dl, heap_, heap_len_, heap_max_, depth_, node, max_code,
                   bl_count_, h, overflow, opt_len_, static_len_>>

(* The arrays hold what an earlier tree left in them; init_block has cleared fc.  *)
TreeInit ==
    /\ desc \in Descs
    /\ pc = "heap"
    /\ fc = [n \in Nodes |-> IF n \in Symbols THEN desc.freq[n] ELSE 1]
    /\ dl = [n \in Nodes |-> 1] /\ depth_ = [n \in Nodes |-> 1]
    /\ heap_ = [i \in Nodes |-> 1] /\ heap_len_ = 1 /\ heap_max_ = 1
    /\ bl_count_ = [b \in 0..max_bits |-> 1]
    /\ node = 1 /\ max_code = 1 /\ h = 1 /\ overflow = 0
    /\ opt_len_ = 0 /\ static_len_ = 0

BuildTree == BuildHeap \/ Combine \/ SetLength \/ MoveLeaf \/ Recompute \/ gen_codes

-----------------------------------------------------------------------------
(***************************************************************************)
(* The arrays keep their ranges; the heap and the sorted nodes do not meet.  *)
(***************************************************************************)
TreeTypeOK ==
    /\ pc \in {"heap", "combine", "lengths", "overflow", "recompute", "codes", "done"}
    /\ fc \in [Nodes -> Nat] /\ dl \in [Nodes -> Nodes]
    /\ heap_ \in [Nodes -> Nodes] /\ depth_ \in [Nodes -> Nodes]
    /\ bl_count_ \in [0..max_bits -> Nat]
    /\ overflow \in Nat
    /\ pc # "heap" => heap_len_ < heap_max_ /\ heap_max_ <= h + heap_size

Coded == {n \in Symbols : n <= max_code /\ dl[n] # 0}
WeightOf(n) == 2^(max_bits - dl[n])

(* gen_codes asserts the second and the third of these.                         *)
EverySymbolCoded == \A n \in Symbols : desc.freq[n] # 0 => n \in Coded
CompleteLimitedCode ==
    /\ \A n \in Coded : dl[n] \in 1..desc.max_length
    /\ SumFunction([n \in Coded |-> WeightOf(n)]) = 2^max_bits
LengthsMatchCounts ==
    \A b \in 1..max_bits : bl_count_[b] = Cardinality({n \in Coded : dl[n] = b})
FrequentIsShort ==
    \A m, n \in Symbols :
        desc.freq[m] > desc.freq[n] /\ desc.freq[n] # 0 => dl[m] <= dl[n]

(***************************************************************************)
(* The lengths, those that were too long shortened, are those of a complete    *)
(* code: every symbol that occurs has a length within the limit, every bit     *)
(* string starts with one code, bl_count_ counts the lengths, and a more       *)
(* frequent symbol has no longer code.                                        *)
(***************************************************************************)
CompleteCode ==
    pc \in {"codes", "done"} =>
        /\ EverySymbolCoded
        /\ CompleteLimitedCode
        /\ LengthsMatchCounts
        /\ FrequentIsShort

(***************************************************************************)
(* tr_flush_block chooses among the kinds of a block by opt_len_ and            *)
(* static_len_: they are the bits that the symbols really take, the codes that *)
(* were forced into the tree taking none.                                     *)
(***************************************************************************)
LengthsCounted ==
    pc = "done" =>
        /\ opt_len_ = SumFunction(
               [n \in Symbols |-> desc.freq[n] * (dl[n] + desc.extra[n])])
        /\ desc.stree # <<>> =>
              static_len_ = SumFunction(
                  [n \in Symbols |-> desc.freq[n] * (desc.stree[n] + desc.extra[n])])

(* The lengths, from the longest on, of the complete codes of n symbols.         *)
CompleteLengths ==
    [n \in 2..elems |->
        {l \in [1..n -> 1..max_bits] :
            /\ \A i \in 1..n - 1 : l[i] >= l[i + 1]
            /\ MapThenSumSet(LAMBDA i : 2^(max_bits - l[i]), 1..n) = 2^max_bits}]

(* The bits that those lengths take when the least frequent symbols get the      *)
(* longest of them.                                                           *)
BitsWith(l, f) ==
    LET n == Len(l)
        Nth(i) == CHOOSE v \in {f[m] : m \in DOMAIN f} :
                     /\ Cardinality({m \in DOMAIN f : f[m] < v}) < i
                     /\ i <= Cardinality({m \in DOMAIN f : f[m] <= v})
    IN  MapThenSumSet(LAMBDA i : Nth(i) * l[i], 1..n)

(***************************************************************************)
(* When no length has to be limited, no other prefix code takes fewer bits for  *)
(* these frequencies.                                                         *)
(***************************************************************************)
ShortestCode ==
    [][pc = "lengths" /\ pc' = "codes" =>
          LET used == {n \in Symbols : dl'[n] # 0}
              f    == [n \in used |-> fc[n]]
              bits == MapThenSumSet(LAMBDA n : fc[n] * dl'[n], used)
          IN  \A l \in CompleteLengths[Cardinality(used)] : bits <= BitsWith(l, f)]_tree_vars

=============================================================================
