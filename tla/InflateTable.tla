---------------------------- MODULE InflateTable ----------------------------
(***************************************************************************)
(* inflate_table of inflate_stream: the table that decodes the code with the *)
(* given lengths, a root table of as many bits as are looked at first and the *)
(* sub-tables of the longer codes.  One action per way out of the checks and  *)
(* one for a round of the loop that enters a symbol.                          *)
(***************************************************************************)
EXTENDS Integers, FiniteSetsExt

CONSTANTS
    codes,         \* symbols that have a length
    longest,       \* the longest length: 15 in the code
    Enough         \* entries there is room for, by the type of the table

Coded_ == 0..codes - 1
Types == {"codes", "lens", "dists"}

ASSUME TableAssumption ==
    /\ codes \in Nat \ {0} /\ longest \in Nat \ {0}
    /\ Enough \in [Types -> Nat]

VARIABLES
    step,          \* where inflate_table is
    type, lens, bits,          \* its arguments; bits becomes the root it used
    count, work, sym, len, max,
    huff, root, curr, drop, low, next, used,
    table,         \* its entries; NoEntry where nothing was written
    ec             \* the error it reports

table_vars == <<step, type, lens, bits, count, work, sym, len, max, huff, root,
                curr, drop, low, next, used, table, ec>>
locals == <<count, work, sym, len, max, huff, root, curr, drop, low, next, used>>
arguments == <<type, lens>>

(* An entry is a symbol, an invalid code, or the bits and place of a sub-table.   *)
NoEntry == [op |-> "none", bits |-> 0, val |-> 0]
Invalid(n) == [op |-> "invalid", bits |-> n, val |-> 0]

-----------------------------------------------------------------------------
counts == [l \in 0..longest |-> Cardinality({s \in Coded_ : lens[s] = l})]
LengthsUsed == {l \in 1..longest : counts[l] # 0}

(* left: the codes of a length that are no longer code's, or below 0 when there   *)
(* are too many.                                                              *)
left ==
    LET l[n \in 0..longest] == IF n = 0 THEN 1 ELSE 2 * l[n - 1] - counts[n]
    IN  l
OverSubscribed == \E l \in 1..longest : left[l] < 0
Incomplete_any_type == left[longest] > 0 /\ Max(LengthsUsed) # 1
Incomplete == left[longest] > 0 /\ (type = "codes" \/ Max(LengthsUsed) # 1)

(* No symbol at all: a table whose two entries are invalid.                       *)
NoSymbols ==
    /\ step = "check" /\ LengthsUsed = {}
    /\ table' = [table EXCEPT ![0] = Invalid(1), ![1] = Invalid(1)]
    /\ bits' = 1
    /\ step' = "ready"
    /\ UNCHANGED <<arguments, locals, ec>>

Refuse ==
    /\ step = "check" /\ LengthsUsed # {}
    /\ OverSubscribed \/ Incomplete
    /\ ec' = IF OverSubscribed THEN "over_subscribed_length" ELSE "incomplete_length_set"
    /\ step' = "error"
    /\ UNCHANGED <<arguments, locals, bits, table>>

(* The symbols by length, and by their order within one.                          *)
Before(m, n) == lens[m] < lens[n] \/ (lens[m] = lens[n] /\ m < n)
Sorted ==
    LET with == {n \in Coded_ : lens[n] # 0}
    IN  [i \in 0..Cardinality(with) - 1 |->
            CHOOSE n \in with : Cardinality({m \in with : Before(m, n)}) = i]

Sort ==
    LET shortest == Min(LengthsUsed)
        r == Max({Min({bits, Max(LengthsUsed)}), shortest})
    IN  /\ step = "check" /\ LengthsUsed # {}
        /\ ~OverSubscribed /\ ~Incomplete
        /\ count' = counts /\ work' = Sorted
        /\ max' = Max(LengthsUsed) /\ len' = shortest
        /\ root' = r /\ curr' = r /\ used' = 2^r
        /\ drop' = 0 /\ low' = -1 /\ huff' = 0 /\ sym' = 0 /\ next' = 0
        /\ step' = IF type # "codes" /\ 2^r > Enough[type] THEN "not_enough" ELSE "fill"
        /\ UNCHANGED <<arguments, bits, table, ec>>

(* The next code of n bits, which are the wrong way round.                        *)
BitIs(h, i, b) == (h \div 2^i) % 2 = b
NextHuff_keeps(h, n) ==
    LET clear == {i \in 0..n - 1 : BitIs(h, i, 0)}
    IN  IF clear = {} THEN 0 ELSE h + 2^Max(clear)
NextHuff(h, n) ==
    LET clear == {i \in 0..n - 1 : BitIs(h, i, 0)}
    IN  IF clear = {} THEN 0 ELSE (h % 2^Max(clear)) + 2^Max(clear)

(* The bits of the sub-table for codes of n bits and those after: as many as       *)
(* the codes that are left fill.                                              *)
SubBits(cnt, n) ==
    LET free[c \in n - root..max - root] ==
            IF c = n - root THEN 2^c - cnt[c + root]
            ELSE 2 * free[c - 1] - cnt[c + root]
    IN  Min({c \in n - root..max - root : c + root = max \/ free[c] <= 0})

Enter ==
    LET symbol == work[sym]
        here == [op |-> "symbol", bits |-> len - drop, val |-> symbol]
        filled == [i \in DOMAIN table |->
                     IF \E k \in 0..2^(curr - (len - drop)) - 1 :
                            i = next + (huff \div 2^drop) + k * 2^(len - drop)
                     THEN here ELSE table[i]]
        h   == NextHuff(huff, len)
        cnt == [count EXCEPT ![len] = @ - 1]
        n   == IF cnt[len] = 0 /\ len # max THEN lens[work[sym + 1]] ELSE len
        sub == SubBits(cnt, n)
        at  == next + 2^curr
        last == cnt[len] = 0 /\ len = max
        new  == ~last /\ n > root /\ h % 2^root # low
    IN  /\ step = "fill"
        /\ count' = cnt /\ huff' = h /\ sym' = sym + 1
        /\ len' = n
        /\ IF new
           THEN /\ drop' = root
                /\ next' = at /\ curr' = sub
                /\ used' = used + 2^sub
                /\ low' = h % 2^root
                /\ IF type # "codes" /\ used + 2^sub > Enough[type]
                   THEN step' = "not_enough" /\ table' = filled
                   ELSE /\ step' = step
                        /\ table' = [filled EXCEPT ![h % 2^root] =
                                        [op |-> "table", bits |-> sub, val |-> at]]
           ELSE /\ UNCHANGED <<drop, next, curr, used, low>>
                /\ table' = IF last /\ h # 0
                            THEN [filled EXCEPT ![next + h] = Invalid(len - drop)]
                            ELSE filled
                /\ step' = IF last THEN "ready" ELSE step
        /\ bits' = IF last THEN root ELSE bits
        /\ UNCHANGED <<arguments, work, max, root, ec>>

InflateTable == NoSymbols \/ Refuse \/ Sort \/ Enter

=============================================================================
