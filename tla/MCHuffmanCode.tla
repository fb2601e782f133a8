--------------------------- MODULE MCHuffmanCode ---------------------------
(* Six symbols and codes of at most four bits: chains of frequencies that make a  *)
(* tree of five levels, limited to three or four.                              *)
EXTENDS HuffmanCode

MCExtra == [n \in Symbols |-> IF n < 3 THEN 0 ELSE n - 3]
MCStatic == [n \in Symbols |-> IF n < 2 THEN 2 ELSE 3]
Chains == {f \in [Symbols -> {0, 1, 2, 3, 5, 8}] :
              \A m, n \in Symbols : m # n => f[m] # f[n] \/ f[m] = 1}
Desc(f, m, s) == [freq |-> f, max_length |-> m, extra |-> MCExtra, stree |-> s]
MCDescs ==
    {Desc(f, 3, <<>>) : f \in Chains}
        \cup {Desc(f, 4, MCStatic) : f \in [Symbols -> {0, 1, 2}]}
MCRootBits == [codes |-> 3, lens |-> 2, dists |-> 1]
MCEnough == [codes |-> 8, lens |-> 8, dists |-> 8]
MCArrived ==
    {[type |-> t, lens |-> l] : t \in Types, l \in [Symbols -> 0..3]}
=============================================================================
