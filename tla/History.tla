------------------------------ MODULE History ------------------------------
(***************************************************************************)
(* What a sliding window promises: a read gives the bytes that were        *)
(* written `pos' bytes ago, as far back as the capacity reaches and no     *)
(* further than the last reset.  Bytes are numbered in the order they were *)
(* written, over all resets.                                               *)
(***************************************************************************)
EXTENDS Integers

VARIABLES
    capacity,   \* bytes that are remembered
    start,      \* number of the first byte after the last reset
    total,      \* bytes written so far
    got         \* the bytes of the last read

historyVars == <<capacity, start, total, got>>

Remembered == IF total - start <= capacity THEN total - start ELSE capacity

New == start = 0 /\ total = 0 /\ got = << >>

Reset == start' = total /\ UNCHANGED <<total, got>>

Write == total' > total /\ UNCHANGED <<capacity, start, got>>

Read ==
    /\ \E pos \in 1 .. Remembered : \E n \in 1 .. pos :
        got' = [k \in 0 .. n - 1 |-> total - pos + k]
    /\ UNCHANGED <<capacity, start, total>>

HistoryNext == Reset \/ Write \/ Read

History == New /\ [][HistoryNext]_historyVars
=============================================================================
