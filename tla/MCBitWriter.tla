----------------------------- MODULE MCBitWriter -----------------------------
(* A byte of four bits: a word of eight, in which a value of eight bits and the *)
(* seven bits of end_block still fit.                                          *)
EXTENDS BitWriter

MCPieces ==
    {<<1>>, <<1, 0, 1>>, <<1, 1, 0, 1, 1>>, <<1, 0, 0, 1, 0, 1, 1, 1>>}

MCWord(n) == [i \in 0..7 |-> (n \div 2^i) % 2]
MCBlocks ==
    {[buf |-> <<>>, len |-> MCWord(0)],
     [buf |-> <<1, 1, 0, 1>>, len |-> MCWord(1)]}
=============================================================================
