-------------------------------- MODULE Codes --------------------------------
(***************************************************************************)
(* What the trees, the blocks and the tables share: the alphabets of deflate,  *)
(* the look-up tables of the compressor (get_lut) and helpers of build_tree.     *)
(***************************************************************************)
EXTENDS Integers, Sequences, FiniteSetsExt, Functions

literals == 256
length_codes == 29
end_block == 256
lcodes == literals + 1 + length_codes
dcodes == 30
bl_codes == 19
rep_3_6 == 16        \* the length before, 3 to 6 times again
repz_3_10 == 17      \* 3 to 10 zeros
repz == 18           \* 11 to 138 zeros

bl_order == <<16, 17, 18, 0, 8, 7, 9, 6, 10, 5, 11, 4, 12, 3, 13, 2, 14, 1, 15>>
extra_lbits == [c \in 0..length_codes - 1 |->
                   IF c < 8 \/ c = 28 THEN 0 ELSE c \div 4 - 1]
extra_dbits == [c \in 0..dcodes - 1 |-> IF c < 4 THEN 0 ELSE c \div 2 - 1]
extra_blbits == [c \in 0..bl_codes - 1 |->
                    CASE c = rep_3_6 -> 2 [] c = repz_3_10 -> 3 [] c = repz -> 7
                      [] OTHER -> 0]

-----------------------------------------------------------------------------
(* get_lut: a code stands for as many lengths, or distances, as its extra bits tell  *)
(* apart, from its base on.  Length 255 has a code of its own, without extra bits.  *)
base_length == [c \in 0..length_codes - 1 |->
    IF c = length_codes - 1 THEN 0
    ELSE SumFunction([k \in 0..c - 1 |-> 2^extra_lbits[k]])]
length_code == [l \in 0..255 |->
    IF l = 255 THEN length_codes - 1
    ELSE CHOOSE c \in 0..length_codes - 2 : l - base_length[c] \in 0..2^extra_lbits[c] - 1]

(* From 256 on there is an entry for 128 distances; the first two are never read.    *)
base_dist == [c \in 0..dcodes - 1 |->
    SumFunction([k \in 0..c - 1 |-> 2^extra_dbits[k]])]
dist_code == [i \in 0..511 |->
    CASE i < 256 -> CHOOSE c \in 0..15 : i - base_dist[c] \in 0..2^extra_dbits[c] - 1
      [] i \in {256, 257} -> 0
      [] OTHER -> CHOOSE c \in 16..dcodes - 1 :
                     i - 256 - base_dist[c] \div 128 \in 0..2^(extra_dbits[c] - 7) - 1]
d_code(dist) == IF dist < 256 THEN dist_code[dist] ELSE dist_code[256 + dist \div 128]

ltree == [n \in 0..lcodes + 1 |->
    CASE n <= 143 -> 8 [] n \in 144..255 -> 9 [] n \in 256..279 -> 7 [] OTHER -> 8]
dtree == [n \in 0..dcodes - 1 |-> 5]

-----------------------------------------------------------------------------
(* At least two codes have a frequency: each that is missing is the one after    *)
(* the largest, or 0 when that is 2 or more.                                   *)
Forced(used) ==
    CASE used = {} -> <<0, 1>>
      [] Cardinality(used) = 1 -> <<IF Max(used) < 2 THEN Max(used) + 1 ELSE 0>>
      [] OTHER -> <<>>

BitAt(code, i) == (code \div 2^i) % 2
bi_reverse(code, len) ==
    SumFunction([i \in 0..len - 1 |-> BitAt(code, i) * 2^(len - 1 - i)])

=============================================================================
