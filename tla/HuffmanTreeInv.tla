---------------------------- MODULE HuffmanTreeInv ----------------------------
(***************************************************************************)
(* The inductive invariant of build_tree: the heap and the nodes that left it *)
(* while the tree grows, the lengths that were read off the tree, and the     *)
(* counts of lengths that are moved until they are those of a code.           *)
(***************************************************************************)
EXTENDS HuffmanTree

\* The symbols that occur, those that get a code, and how many.
UsedSymbols == {n \in Symbols : desc.freq[n] # 0}
ForcedSymbols == Forced(UsedSymbols)
Chosen == UsedSymbols \cup {ForcedSymbols[i] : i \in DOMAIN ForcedSymbols}
Leafs == Cardinality(Chosen)
Limit == desc.max_length

\* A symbol that is forced into the tree counts once.
Freq(n) == IF n \in UsedSymbols THEN desc.freq[n] ELSE 1

Typed ==
    /\ desc \in Descs
    /\ pc \in {"heap", "combine", "lengths", "overflow", "recompute", "codes", "done"}
    /\ fc \in [Nodes -> Nat] /\ dl \in [Nodes -> Nat] /\ depth_ \in [Nodes -> Nat]
    /\ heap_ \in [Nodes -> Nodes] /\ bl_count_ \in [0..max_bits -> Nat]
    /\ opt_len_ \in Int /\ static_len_ \in Int

-----------------------------------------------------------------------------
(* The heap, and the tree that grows out of it                                *)

Built == {"lengths", "overflow", "recompute", "codes", "done"}
Last_ == heap_size - 1

\* The nodes that are in the tree, or will be; those still in the heap.
Made == node - elems
AllNodes == Chosen \cup elems..node - 1
Sorted_ == heap_max_..Last_
Heap_ == IF pc = "combine" THEN 1..heap_len_ ELSE {}

\* The father of the node at place p.
FatherAt(p) == elems + (Last_ - p) \div 2

Ordered(hp, len_, f, d, from) ==
    \A j \in from..len_ : \A s \in {2 * j, 2 * j + 1} :
        s <= len_ => smaller(f, d, hp[j], hp[s])

\* Every symbol to be coded has its frequency, no other has a length.
ChosenInv ==
    pc # "heap" =>
        /\ max_code = Max(Chosen)
        /\ \A n \in Symbols \ Chosen : dl[n] = 0
        /\ pc # "done" => \A n \in Chosen : fc[n] = Freq(n)

\* Where the heap ends and the nodes that left it begin.
PlacesInv ==
    /\ pc = "combine" =>
          /\ node \in elems..elems + Leafs - 2
          /\ heap_len_ = Leafs - Made /\ heap_max_ = heap_size - 2 * Made
    /\ pc \in Built =>
          /\ node = elems + Leafs - 1 /\ heap_max_ = heap_size - 2 * Leafs + 1
          /\ heap_[heap_max_] = node - 1

\* Each node is in one of them, once.
NodesInv ==
    pc # "heap" =>
        /\ \A i, j \in Heap_ \cup Sorted_ : heap_[i] = heap_[j] => i = j
        /\ AllNodes = {heap_[i] : i \in Heap_ \cup Sorted_}

\* The least frequent nodes left the heap first, and in pairs.
OrderInv ==
    pc \notin {"heap", "done"} =>
        /\ pc = "combine" => Ordered(heap_, heap_len_, fc, depth_, 1)
        /\ \A n \in AllNodes : fc[n] > 0
        /\ \A p \in Sorted_ :
              /\ \A q \in Sorted_ : p < q => fc[heap_[p]] >= fc[heap_[q]]
              /\ \A i \in Heap_ : fc[heap_[i]] >= fc[heap_[p]]
        /\ \A p, q \in Sorted_ :
              FatherAt(p) = FatherAt(q) /\ p < q /\ FatherAt(p) < node =>
                  fc[FatherAt(p)] = fc[heap_[p]] + fc[heap_[q]]

\* A father was made after its sons.
FathersInv ==
    pc # "heap" =>
        \A p \in Sorted_ : FatherAt(p) < node => heap_[p] < FatherAt(p)

-----------------------------------------------------------------------------
(* The lengths, as far as they were read off the tree                         *)

After_ == IF pc = "combine" THEN Sorted_ ELSE h..Last_
Before_ == IF pc = "combine" THEN {} ELSE heap_max_..h - 1
DoneNodes == {heap_[p] : p \in Before_}
DoneLeaves == DoneNodes \cap Symbols

\* A length is that of the father and one, as long as it may be.
LengthBelow(deep) == IF deep < Limit THEN deep + 1 ELSE Limit
LengthsRead ==
    /\ dl[heap_[heap_max_]] = 0
    /\ \A p \in heap_max_ + 1..h - 1 :
          dl[heap_[p]] \in 1..Limit /\ dl[heap_[p]] = LengthBelow(dl[FatherAt(p)])
    /\ \A p, q \in Before_ : fc[heap_[p]] > fc[heap_[q]] => dl[heap_[p]] <= dl[heap_[q]]

LengthsInv ==
    /\ pc \in {"combine", "lengths"} => \A p \in After_ : dl[heap_[p]] = FatherAt(p)
    /\ pc = "lengths" => h \in heap_max_ + 1..Last_ /\ LengthsRead
    /\ pc \in {"overflow", "recompute", "codes", "done"} => h = heap_size

\* The bits of the symbols, those that were forced left out.
SymbolBits == [n \in Chosen |-> Freq(n) * (dl[n] + desc.extra[n])]
StaticBits == [n \in Chosen |-> Freq(n) * (Static(n) + desc.extra[n])]
ForcedBits == SumFunction([i \in DOMAIN ForcedSymbols |-> Static(ForcedSymbols[i])])

\* A weight of the lengths: of the leaves, and of the sons whose length follows
\* next from that of their father.
LeafWeights(w) == [n \in DoneLeaves |-> w[dl[n]]]
OpenWeights(w) ==
    [p \in Sorted_ |-> IF p >= h /\ FatherAt(p) \in DoneNodes THEN w[dl[FatherAt(p)]] ELSE 0]
WeightSum(w) ==
    2 * SumFunctionOnSet(LeafWeights(w), DoneLeaves) + SumFunctionOnSet(OpenWeights(w), Sorted_)
Halves == [b \in 0..Limit |-> 2^(Limit - b)]
Longest_ == [b \in 0..Limit |-> IF b = Limit THEN 1 ELSE 0]

LengthsAdded ==
    /\ \A b \in 0..max_bits : bl_count_[b] = Cardinality({n \in DoneLeaves : dl[n] = b})
    /\ overflow \in Nat
    /\ WeightSum(Halves) = 2 * 2^Limit + overflow
    /\ WeightSum(Longest_) >= overflow
    /\ opt_len_ = SumFunctionOnSet(SymbolBits, DoneLeaves) - Len(ForcedSymbols)
    /\ desc.stree # <<>> => static_len_ = SumFunctionOnSet(StaticBits, DoneLeaves) - ForcedBits

CountsInv ==
    /\ pc = "combine" =>
          opt_len_ = 0 - Len(ForcedSymbols) /\ static_len_ = 0 - ForcedBits
    /\ pc = "lengths" => LengthsAdded

\* The counts of lengths, whatever the symbols have.
KraftSum == SumFunctionOnSet([b \in 1..Limit |-> bl_count_[b] * Halves[b]], 1..Limit)
OverflowInv ==
    /\ pc \in {"overflow", "recompute"} =>
          /\ SumFunctionOnSet(bl_count_, 1..Limit) = Leafs
          /\ \A b \in 0..max_bits : b \notin 1..Limit => bl_count_[b] = 0
          /\ 2 * KraftSum = 2 * 2^Limit + overflow
          /\ overflow <= 2 * bl_count_[Limit]
    /\ pc = "overflow" => overflow \in Nat \ {0}
    /\ pc = "recompute" => overflow = 0

\* What the symbols have is a code.
CodeInv ==
    /\ pc \in {"overflow", "recompute", "codes", "done"} =>
          /\ \A n \in Chosen : dl[n] \in 1..Limit
          /\ opt_len_ = SumFunctionOnSet(SymbolBits, Chosen) - Len(ForcedSymbols)
          /\ desc.stree # <<>> => static_len_ = SumFunctionOnSet(StaticBits, Chosen) - ForcedBits
    /\ pc \in {"codes", "done"} =>
          /\ \A b \in 0..max_bits : bl_count_[b] = Cardinality({n \in Chosen : dl[n] = b})
          /\ SumFunctionOnSet([n \in Chosen |-> Halves[dl[n]]], Chosen) = 2^Limit
          /\ \A m, n \in Chosen : Freq(m) > Freq(n) => dl[m] <= dl[n]

IInv ==
    /\ Typed /\ (pc = "heap" => opt_len_ = 0 /\ static_len_ = 0)
    /\ ChosenInv /\ PlacesInv /\ NodesInv /\ OrderInv /\ FathersInv
    /\ LengthsInv /\ CountsInv /\ OverflowInv /\ CodeInv

=============================================================================
