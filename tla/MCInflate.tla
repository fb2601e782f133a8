----------------------------- MODULE MCInflate -----------------------------
(***************************************************************************)
(* Streams for the model checker.  They are short, but each code in them   *)
(* has a length that a code of its table can have.                         *)
(***************************************************************************)
EXTENDS InflateStream, SequencesExt

Block(type, last) == [op |-> "block", type |-> type, last |-> last]
Stored(bytes) == [op |-> "stored", bytes |-> bytes, good |-> TRUE]
Lit(byte, bits) == [op |-> "lit", byte |-> byte, bits |-> bits, sub |-> 0]
Eob(bits) == [op |-> "eob", bits |-> bits, sub |-> 0]
Bad(bits) == [op |-> "invalid", bits |-> bits, sub |-> 0]
Match(len, bits, dist, dbits) ==
    [op |-> "match", valid |-> TRUE,
     bits |-> bits, sub |-> 0, len |-> len, extra |-> 0, len_v |-> 0,
     dbits |-> dbits, dsub |-> 0, dist |-> dist, dextra |-> 0, dist_v |-> 0]

\* The longest symbol there is: 15 bits, 5 extra bits, 15 bits, 13 extra bits.
LongMatch ==
    [op |-> "match", valid |-> TRUE,
     bits |-> 15, sub |-> 6, len |-> 3, extra |-> 5, len_v |-> 1,
     dbits |-> 15, dsub |-> 9, dist |-> 1, dextra |-> 13, dist_v |-> 2]

\* A code length, or a run of `run' of them.
CodeLength(bits) == [val |-> 0, bits |-> bits, run |-> 1]
Run(val, bits, run) == [val |-> val, bits |-> bits, run |-> run]

SumTo(f, j) == FoldLeft(LAMBDA x, y : x + y, 0, SubSeq(f, 1, j))

Table(error, ncode, clbits, symbols, lenbits, distbits) ==
    LET bits == [j \in DOMAIN symbols |-> symbols[j].bits + RepeatBits(symbols[j].val)]
        runs == [j \in DOMAIN symbols |-> symbols[j].run]
        n    == Len(symbols)
    IN  [op |-> "table", error |-> error, ncode |-> ncode, clbits |-> clbits,
         symbols |-> symbols, lenbits |-> lenbits, distbits |-> distbits,
         offsets |-> [j \in 1 .. n + 1 |-> SumTo(bits, j - 1)],
         counts  |-> [j \in 1 .. n + 1 |-> SumTo(runs, j - 1)],
         total   |-> SumTo(runs, n)]

NoHead == [error |-> "ok", window |-> 2, dict |-> FALSE, name |-> 0, comment |-> 0, hcrc |-> FALSE]

\* The text after e: the item of Extends, computed.
Extended(e, t) ==
    CASE e.op = "stored" -> t \o e.bytes
      [] e.op = "lit"    -> Append(t, e.byte)
      [] e.op = "match" /\ Distance(e) <= Len(t) -> Repeated(t, Distance(e), e.len + e.len_v)
      [] OTHER           -> t

Stream(wrap, head, items, after) ==
    LET n == Len(items)
        h == HeadBytes([wrap |-> wrap, head |-> head])
        start[i \in 1 .. n + 1] ==
            IF i = 1 THEN 8 * h ELSE After(items[i - 1], start[i - 1])
        text[i \in 1 .. n + 1] ==
            IF i = 1 THEN << >> ELSE Extended(items[i - 1], text[i - 1])
    IN  [wrap |-> wrap, head |-> head, items |-> items,
         start |-> [i \in 1 .. n + 1 |-> start[i]], text |-> [i \in 1 .. n + 1 |-> text[i]],
         check |-> TRUE, length |-> TRUE, after |-> after]

-----------------------------------------------------------------------------

\* A fixed block with matches that reach into the window, and a stored one.
Zlib == Stream("zlib", NoHead,
    << Block("fixed", FALSE), Lit(1, 8), Lit(2, 8), Match(4, 7, 1, 5), Match(3, 7, 2, 5), Eob(7),
       Block("stored", TRUE), Stored(<<3, 4, 5>>) >>, 1)

(***************************************************************************)
(* The literals 97 to 104 with codes of 1, 4, 5, 6, 7, 8, 9, 9 bits, the   *)
(* end of the block with 2, the length 3 with 3, two distances with 1.     *)
(***************************************************************************)
ShortCodes == Table("ok", 18, 4,
    << Run(18, 2, 97), CodeLength(2), CodeLength(4), CodeLength(4), CodeLength(4), CodeLength(4),
       CodeLength(4), CodeLength(4), CodeLength(4), Run(18, 2, 138), Run(18, 2, 13),
       CodeLength(4), CodeLength(4), CodeLength(2), CodeLength(2) >>, 9, 1)

Raw(after) == Stream("none", NoHead,
    << Block("dynamic", TRUE), ShortCodes, Lit(97, 1), Match(3, 3, 1, 1), Lit(104, 9),
       Lit(97, 1), Lit(97, 1), Eob(2) >>, after)

\* Codes of all lengths to 15; the lengths in the table are abridged.
LongCodes == Table("ok", 4, 7,
    << CodeLength(7), Run(16, 3, 3), Run(17, 5, 3), Run(18, 2, 11) >>, 9, 6)

Long == Stream("zlib", NoHead,
    << Block("dynamic", TRUE), LongCodes, Lit(1, 9), Lit(2, 9), Lit(3, 9),
       LongMatch, LongMatch, [Eob(15) EXCEPT !.sub = 6] >>, 0)

Gzip(name, comment, hcrc, symbols) ==
    Stream("gzip", [NoHead EXCEPT !.name = name, !.comment = comment, !.hcrc = hcrc],
           << Block("fixed", TRUE) >> \o symbols \o << Eob(7) >>, 0)

Good == {Zlib, Raw(2), Long, Gzip(3, 0, TRUE, << Lit(1, 8) >>), Gzip(0, 2, FALSE, << >>)}

-----------------------------------------------------------------------------
(* Streams with one thing wrong each *)

BadHead(wrap, error) ==
    Stream(wrap, [NoHead EXCEPT !.error = error, !.hcrc = TRUE], << Block("fixed", TRUE), Eob(7) >>, 0)

\* A fixed block of the literal 1 and the item e.
BadSymbol(e) == Stream("none", NoHead, << Block("fixed", TRUE), Lit(1, 8), e >>, 6)

BadTable(error, symbols) ==
    Stream("none", NoHead, << Block("dynamic", TRUE), Table(error, 4, 7, symbols, 9, 6) >>, 2)

OverrunTable ==
    Stream("none", NoHead,
           << Block("dynamic", TRUE),
              [Table("ok", 4, 7, << CodeLength(2), Run(18, 2, 11) >>, 9, 6) EXCEPT !.total = 8] >>, 2)

Faulty ==
    { BadHead("zlib", "incorrect_header_check"),
      Stream("zlib", [NoHead EXCEPT !.window = 8], << Block("fixed", TRUE), Eob(7) >>, 0),
      Stream("zlib", [NoHead EXCEPT !.dict = TRUE], << Block("fixed", TRUE), Eob(7) >>, 0),
      BadHead("gzip", "unknown_header_flags"), BadHead("gzip", "header_crc_mismatch"),
      Stream("none", NoHead, << Block("stored", FALSE), Stored(<<1, 2>>), Block("invalid", TRUE) >>, 1),
      Stream("none", NoHead, << Block("stored", TRUE), [Stored(<< >>) EXCEPT !.good = FALSE] >>, 1),
      BadSymbol(Bad(8)), BadSymbol(Match(3, 7, 2, 5)),
      BadSymbol([Match(3, 7, 1, 5) EXCEPT !.valid = FALSE]),
      BadTable("counts", << >>), BadTable("codes", << >>),
      BadTable("eob", << CodeLength(2), Run(16, 3, 3) >>), BadTable("ok", << Run(16, 3, 3) >>),
      OverrunTable,
      [Stream("zlib", NoHead, << Block("stored", TRUE), Stored(<<1>>) >>, 0) EXCEPT !.check = FALSE],
      [Gzip(0, 0, FALSE, << >>) EXCEPT !.length = FALSE] }

All == Good \cup Faulty

\* Streams to decompress after a reset in the middle of another.
Few == {Zlib, Raw(2)}

\* For the question about one stream.
GzipText == {Gzip(0, 0, FALSE, << Lit(1, 8) >>)}
None == {}
=============================================================================
