------------------------------ MODULE MCBlocks ------------------------------
(* Blocks whose trees have runs of every length at which a run is cut, and matches of *)
(* every length and of the first and last distance of every code.             *)
EXTENDS Blocks

InOrder(s) ==
    [i \in 1..Cardinality(s) |-> CHOOSE c \in s : Cardinality({d \in s : d <= c}) = i]
Literals(s) == LET b == InOrder(s) IN [i \in DOMAIN b |-> Byte(b[i])]
Match_(l, d) == [len |-> l - 3, dist |-> d]

Times(n, e) == [i \in 1..n |-> e]
(* Bytes from 144 on take nine bits of a static block: enough of them, and the trees   *)
(* are sent.                                                                 *)
Runs_ == {<<Times(n \div 4, Byte(144)) \o Literals(144..143 + n)>> : n \in {0, 4, 24}}
    \cup {<<Times(n, Byte(0)) \o Literals({0, 255})>> : n \in 8..40}
    \cup {<<Times(25 + n, Byte(144)) \o Literals(144..143 + n)>> : n \in 1..24}
Gaps == {<<Times(25, Byte(255)) \o Literals({0, g + 1, 255})>> :
            g \in {1, 2, 3, 4, 9, 10, 11, 12, 137, 138, 139, 140}}
Scattered == {<<Literals({144 + 2 * n : n \in 0..55})>>}
Lengths(from) == [i \in 1..32 |-> Match_(from + i - 1, 1)]
Distances == InOrder({base_dist[c] + 1 : c \in 0..29}
                         \cup {base_dist[c] + 2^extra_dbits[c] : c \in 0..29})
Matches_ ==
    {<<Lengths(3 + 32 * k), <<>>>> : k \in 0..7}
        \cup {<<Times(25, Match_(258, d))>> : d \in Range(Distances)}
        \cup {<<[i \in DOMAIN Distances |-> Match_(257, Distances[i])], Literals(0..3)>>}
MCInputs == Runs_ \cup Gaps \cup Scattered \cup Matches_

(* Two shapes of trees: as even as can be, and as uneven.                         *)
Even(s, limit) ==
    LET n == Cardinality(s)
        k == CHOOSE j \in 0..limit : 2^j <= n /\ n < 2^(j + 1)
    IN  [c \in s |-> IF Cardinality({d \in s : d <= c}) <= 2^(k + 1) - n THEN k ELSE k + 1]
Uneven(s) ==
    LET n == Cardinality(s)
    IN  [c \in s |-> Min({n - 1, Cardinality({d \in s : d >= c})})]
MCCodesOver(s, limit) ==
    {Even(s, limit)} \cup (IF Cardinality(s) - 1 <= limit THEN {Uneven(s)} ELSE {})
=============================================================================
