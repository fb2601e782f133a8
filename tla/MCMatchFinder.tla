---------------------------- MODULE MCMatchFinder ----------------------------
(* Texts over four bytes, long enough for the window to slide twice: one that repeats *)
(* itself, and one without much order.                                        *)
EXTENDS MatchFinder, Bitwise

MCXor(a, b) == a ^^ b

MCTexts ==
    {[i \in 1..42 |-> IF i % 7 = 0 THEN 2 ELSE i % 2],
     [i \in 1..42 |-> (i * i * 3 + i \div 5) % 4]}
MCNewWindows == {[i \in 0..window_size - 1 |-> 0], [i \in 0..window_size - 1 |-> (i \div 3) % 4]}
Level(f, good, lazy, nice, chain, filtered) ==
    [func |-> f, good |-> good, lazy |-> lazy, nice |-> nice, chain |-> chain,
     filtered |-> filtered]
MCSettings ==
    {Level("fast", 4, 4, 9, 16, FALSE), Level("slow", 9, 9, 9, 16, FALSE),
     Level("slow", 3, 4, 4, 4, TRUE), Level("rle", 3, 3, 3, 4, FALSE)}
=============================================================================
