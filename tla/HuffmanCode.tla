---------------------------- MODULE HuffmanCode ----------------------------
(***************************************************************************)
(* A Huffman code from the frequencies that the compressor counted to the     *)
(* tables that the decompressor reads it with: build_tree, the lengths that    *)
(* send_all_trees sends, inflate_table and the look-up.  Lengths that do not    *)
(* come from build_tree reach inflate_table as well.                          *)
(***************************************************************************)
EXTENDS HuffmanTree, InflateTable

CONSTANTS
    RootBits,      \* bits of the root table that inflate asks for, by type
    Arrived        \* lengths from elsewhere: records of a type and the lengths

ASSUME SameAlphabet == codes = elems /\ longest = max_bits
ASSUME ArrivedAssumption ==
    \A a \in Arrived : a.type \in Types /\ a.lens \in [Symbols -> 0..max_bits]

vars == <<tree_vars, table_vars>>

TableInit ==
    /\ count = <<>> /\ work = <<>> /\ sym = 0 /\ len = 0 /\ max = 0
    /\ huff = 0 /\ root = 0 /\ curr = 0 /\ drop = 0 /\ low = -1 /\ next = 0 /\ used = 0
    /\ ec = "ok"

(* inflate calls inflate_table for the bits of the root that it wants and the      *)
(* space that codes_ has.                                                      *)
Call(a) ==
    /\ type' = a.type /\ lens' = a.lens /\ bits' = RootBits[a.type]
    /\ table' = [i \in 0..Enough[a.type] - 1 |-> NoEntry]
    /\ step' = "check"

Idle ==
    /\ step = "idle" /\ type = "codes" /\ lens = <<>> /\ bits = 0 /\ table = <<>>

Init == TreeInit /\ TableInit /\ Idle

(* send_all_trees: the bit length tree is the one without a static tree.          *)
SendLengths ==
    /\ pc = "done" /\ step = "idle"
    /\ \E t \in IF desc.stree = <<>> THEN {"codes"} ELSE {"lens", "dists"} :
          Call([type |-> t, lens |-> [n \in Symbols |-> dl[n]]])
    /\ UNCHANGED <<tree_vars, locals, ec>>

(* A stream that another compressor wrote; one initial state does for all.        *)
Arrive ==
    /\ pc = "heap" /\ step = "idle"
    /\ \A n \in Symbols : desc.freq[n] = 0
    /\ \E a \in Arrived : Call(a)
    /\ UNCHANGED <<tree_vars, locals, ec>>

Next ==
    \/ step = "idle" /\ BuildTree /\ UNCHANGED table_vars
    \/ SendLengths
    \/ Arrive
    \/ InflateTable /\ UNCHANGED tree_vars

Spec == Init /\ [][Next]_vars

-----------------------------------------------------------------------------
(* The bits of a stream, the first of them the lowest, as peek returns them.       *)
Bits(b, from, n) == MapThenSumSet(LAMBDA i : b[from + i] * 2^(i - 1), 1..n)

(* The look-up of LEN, DIST and CODELENS: a second one in the sub-table.          *)
Lookup(b) ==
    LET cp == table[Bits(b, 0, bits)]
        at == table[cp.val + Bits(b, bits, cp.bits)]
    IN  IF cp.op = "table" THEN [at EXCEPT !.bits = bits + at.bits] ELSE cp

(* The code of a symbol as the format defines it: the codes, continued with zeros, *)
(* count up through the symbols by length and order.                           *)
Position(n) ==
    MapThenSumSet(LAMBDA m : 2^(longest - lens[m]),
                  {m \in Symbols : lens[m] # 0 /\ Before(m, n)})
StartsWithCodeOf(b, n) ==
    lens[n] # 0 /\ \A i \in 1..lens[n] : BitIs(Position(n), longest - i, b[i])

(***************************************************************************)
(* The arguments, the locals and the entries of inflate_table keep their       *)
(* ranges; nothing is written outside the room for the table, which is enough   *)
(* for every complete code, as the comment on the bounds claims.              *)
(***************************************************************************)
TypeOK ==
    /\ TreeTypeOK
    /\ step \in {"idle", "check", "fill", "ready", "error"}
    /\ step # "idle" => DOMAIN table = 0..Enough[type] - 1
    /\ step = "fill" => /\ huff \in 0..2^len - 1 /\ next + 2^curr <= Enough[type]
                        /\ used = next + 2^curr /\ drop \in {0, root}

(***************************************************************************)
(* The table decodes every bit string: to the symbol whose code it starts      *)
(* with, of which it takes the bits, or to an invalid code when it starts with *)
(* none.  So every entry that can be read has been written.                   *)
(***************************************************************************)
TableDecodes ==
    step = "ready" =>
        \A b \in [1..longest -> {0, 1}] :
            \/ \E n \in Symbols :
                  /\ StartsWithCodeOf(b, n)
                  /\ Lookup(b) = [op |-> "symbol", bits |-> lens[n], val |-> n]
            \/ /\ \A n \in Symbols : ~StartsWithCodeOf(b, n)
               /\ Lookup(b).op = "invalid"

(***************************************************************************)
(* A code that build_tree made, sent from its lowest bit, is decoded to its     *)
(* symbol by the table that inflate_table made of the lengths.                *)
(***************************************************************************)
CodesAgree ==
    step = "ready" /\ pc = "done" =>
        \A n \in Coded : \A b \in [1..longest -> {0, 1}] :
            (\A i \in 1..dl[n] : b[i] = BitAt(fc[n], i - 1)) =>
                Lookup(b) = [op |-> "symbol", bits |-> dl[n], val |-> n]

(* The symbols that are given a length, and the strings that start with their codes. *)
Given == {n \in Symbols : lens[n] # 0}
GivenTotal == SumFunction([n \in Given |-> 2^(longest - lens[n])])
Wrong ==
    \/ GivenTotal > 2^longest
    \/ /\ GivenTotal < 2^longest
       /\ ~(type # "codes" /\ \A n \in Given : lens[n] = 1)

\* The decompressor never refuses the lengths of a tree that build_tree made,
\* whatever had to be shortened or forced into it.
SentIsAccepted == pc = "done" => step # "error"

(***************************************************************************)
(* A set of lengths is refused exactly when it is no prefix code or leaves      *)
(* strings without a code, but for a single code of one bit, which a distance   *)
(* table may have; so those that build_tree made never are.                    *)
(***************************************************************************)
RefusedWhenWrong ==
    /\ step \notin {"idle", "check"} /\ Given # {} => (step = "error" <=> Wrong)
    /\ SentIsAccepted

=============================================================================
