--------------------------- MODULE DeflateFormat ---------------------------
(***************************************************************************)
(* Compressed streams as the decompressor sees them, RFC 1950 to 1952: a   *)
(* header, a list of items, a trailer.  Nothing here is code of the        *)
(* library; the modules of the decompressor are checked against it.        *)
(*                                                                         *)
(* A bit string is represented by its length, since only the decoder's     *)
(* position in the stream matters, and a stream by a record with           *)
(*   wrap      "none", "zlib" or "gzip"                                    *)
(*   head      its header: see HeadBytes                                   *)
(*   items     block headers, stored blocks, code tables and symbols       *)
(*   start     start[i] is the bit where items[i] begins                   *)
(*   text      text[i] is what the items before items[i] stand for         *)
(*   check     whether the trailer holds the right checksum                *)
(*   length    whether a gzip trailer holds the right length               *)
(*   after     bytes that follow the stream in the input                   *)
(***************************************************************************)
EXTENDS Integers, Sequences

(***************************************************************************)
(* Headers: `error' is "ok", or what is wrong with it; a zlib header names *)
(* a window and perhaps a preset dictionary; name and comment of a gzip    *)
(* header are lengths with their final zero, 0 if absent.                  *)
(***************************************************************************)
ZlibBytes == 2
GzipBytes == 10

HeadBytes(s) ==
    CASE s.wrap = "none" -> 0
      [] s.wrap = "zlib" -> ZlibBytes + IF s.head.dict THEN 4 ELSE 0
      [] s.wrap = "gzip" ->
            GzipBytes + s.head.name + s.head.comment + IF s.head.hcrc THEN 2 ELSE 0

CheckBytes(s) == IF s.wrap = "none" THEN 0 ELSE 4
LengthBytes(s) == IF s.wrap = "gzip" THEN 4 ELSE 0

(***************************************************************************)
(* Items.  A symbol has a code of `bits' bits; when sub > 0 the code is    *)
(* longer than the first table's index and a second table of sub index     *)
(* bits is looked up.  A match also has extra bits, of value len_v, and a  *)
(* distance with the same parts; its code may be invalid.  A table has     *)
(* ncode lengths of the code length code and run-length symbols for the    *)
(* `total' code lengths; `error' is "ok" or what is wrong with it.         *)
(***************************************************************************)
NextByte(bit) == 8 * ((bit + 7) \div 8)

RepeatBits(v) == CASE v = 16 -> 2 [] v = 17 -> 3 [] v = 18 -> 7 [] OTHER -> 0

\* The bit after item e when it begins at bit b; a table keeps the offsets of its symbols.
After(e, b) ==
    CASE e.op = "block"  -> b + 3
      [] e.op = "stored" -> NextByte(b) + 32 + 8 * Len(e.bytes)
      [] e.op = "table"  -> b + 14 + 3 * e.ncode + e.offsets[Len(e.symbols) + 1]
      [] e.op = "match"  -> b + e.bits + e.extra + e.dbits + e.dextra
      [] OTHER           -> b + e.bits

Distance(e) == e.dist + e.dist_v

\* What the item adds to the text t: a match repeats it, overlapping itself when it is longer than its distance.
Extends(u, e, t) ==
    CASE e.op = "stored" -> u = t \o e.bytes
      [] e.op = "lit"    -> u = Append(t, e.byte)
      [] e.op = "match" /\ Distance(e) <= Len(t) ->
            /\ Len(u) = Len(t) + e.len + e.len_v
            /\ \A k \in 1 .. Len(u) : u[k] = IF k <= Len(t) THEN t[k] ELSE u[k - Distance(e)]
      [] OTHER           -> u = t

\* The offsets of the symbols of a table in bits, and in code lengths.
SymbolsInOrder(e) ==
    /\ e.offsets[1] = 0 /\ e.counts[1] = 0
    /\ \A j \in 1 .. Len(e.symbols) :
        /\ e.offsets[j + 1] = e.offsets[j] + e.symbols[j].bits + RepeatBits(e.symbols[j].val)
        /\ e.counts[j + 1] = e.counts[j] + e.symbols[j].run

InOrder(s) ==
    /\ s.start[1] = 8 * HeadBytes(s) /\ s.text[1] = << >>
    /\ \A i \in 1 .. Len(s.items) :
        /\ s.items[i].op = "table" => SymbolsInOrder(s.items[i])
        /\ s.start[i + 1] = After(s.items[i], s.start[i])
        /\ Extends(s.text[i + 1], s.items[i], s.text[i])

(***************************************************************************)
(* A stream that a decompressor with a window of `capacity' bytes has to   *)
(* accept: no part of it is invalid, and it needs no preset dictionary.    *)
(***************************************************************************)
SoundItem(e, t, capacity) ==
    CASE e.op = "block"   -> e.type # "invalid"
      [] e.op = "stored"  -> e.good
      [] e.op = "table"   ->
            /\ e.error = "ok" /\ e.counts[Len(e.symbols) + 1] = e.total
            /\ e.symbols[1].val # 16
      [] e.op = "match"   -> e.valid /\ Distance(e) <= Len(t) /\ Distance(e) <= capacity
      [] e.op = "invalid" -> FALSE
      [] OTHER            -> TRUE

SoundHead(s, capacity) ==
    /\ s.head.error = "ok"
    /\ s.wrap = "zlib" => s.head.window <= capacity /\ ~s.head.dict

Sound(s, capacity) ==
    /\ SoundHead(s, capacity) /\ s.check /\ s.length
    /\ \A i \in 1 .. Len(s.items) : SoundItem(s.items[i], s.text[i], capacity)

(***************************************************************************)
(* What a part can be, with the widths that the two RFCs give it.  A       *)
(* header or trailer that is absent has nothing wrong with it.             *)
(***************************************************************************)
Byte == 0 .. 255

HeadFields == [error : STRING, window : Nat, dict : BOOLEAN, name : Nat, comment : Nat, hcrc : BOOLEAN]

GzipErrors == {"unknown_compression_method", "unknown_header_flags", "header_crc_mismatch"}

HeadMatches(s) ==
    /\ s.wrap = "none" => s.head.error = "ok" /\ s.check /\ s.length
    /\ s.wrap = "zlib" => s.length /\ s.head.error # "header_crc_mismatch"
    /\ s.wrap = "gzip" =>
        /\ s.head.error \in {"ok"} \cup GzipErrors
        /\ s.head.error = "header_crc_mismatch" => s.head.hcrc

Symbols == {"lit", "eob", "match", "invalid"}

RunSymbol == [val : 0 .. 18, bits : 1 .. 7, run : Nat \ {0}]

BlockItem  == [op : {"block"}, type : {"stored", "fixed", "dynamic", "invalid"}, last : BOOLEAN]
StoredItem == [op : {"stored"}, bytes : Seq(Byte), good : BOOLEAN]
TableItem  == [op : {"table"}, error : STRING, ncode : 4 .. 19, clbits : 1 .. 7,
               symbols : Seq(RunSymbol), lenbits : 1 .. 9, distbits : 1 .. 6,
               offsets : Seq(Nat), counts : Seq(Nat), total : Nat]
LitItem    == [op : {"lit"}, byte : Byte, bits : 1 .. 15, sub : 0 .. 14]
EndItem    == [op : {"eob", "invalid"}, bits : 1 .. 15, sub : 0 .. 14]
MatchItem  == [op : {"match"}, valid : BOOLEAN,
               bits : 1 .. 15, sub : 0 .. 14, len : Nat \ {0}, extra : 0 .. 5, len_v : Nat,
               dbits : 1 .. 15, dsub : 0 .. 14, dist : Nat \ {0}, dextra : 0 .. 13, dist_v : Nat]

Item == BlockItem \cup StoredItem \cup TableItem \cup LitItem \cup EndItem \cup MatchItem

\* A table holds no more symbols than its code lengths need; without extra bits there is no value.
Consistent(e) ==
    /\ e.op = "match" =>
        /\ e.extra = 0 => e.len_v = 0
        /\ e.dextra = 0 => e.dist_v = 0
    /\ e.op = "table" =>
        /\ Len(e.offsets) = Len(e.symbols) + 1 /\ Len(e.counts) = Len(e.symbols) + 1
        /\ e.error \notin {"counts", "codes"} =>
            /\ e.total > 0 /\ e.counts[Len(e.symbols) + 1] >= e.total
            /\ \A j \in 1 .. Len(e.symbols) : e.counts[j] < e.total

Typed(s) ==
    /\ s.wrap \in {"none", "zlib", "gzip"} /\ s.head \in HeadFields /\ HeadMatches(s)
    /\ s.items \in Seq(Item) /\ \A i \in 1 .. Len(s.items) : Consistent(s.items[i])
    /\ s.start \in [1 .. Len(s.items) + 1 -> Nat]
    /\ s.text \in [1 .. Len(s.items) + 1 -> Seq(Byte)]
    /\ s.check \in BOOLEAN /\ s.length \in BOOLEAN /\ s.after \in Nat

(***************************************************************************)
(* The order of the items.  Item j is the header of the block that item i  *)
(* belongs to; the block's codes have first tables of LenIndex(s, j) and   *)
(* DistIndex(s, j) bits.                                                   *)
(***************************************************************************)
Header(s, j, i) ==
    /\ j \in 1 .. i /\ s.items[j].op = "block"
    /\ \A k \in j + 1 .. i : s.items[k].op # "block"

LenIndex(s, j) == IF s.items[j].type = "fixed" THEN 9 ELSE s.items[j + 1].lenbits
DistIndex(s, j) == IF s.items[j].type = "fixed" THEN 5 ELSE s.items[j + 1].distbits

\* A code is seen through the first table or through a second one.
Coded(s, j, e) ==
    /\ e.op \in Symbols => e.bits <= LenIndex(s, j) + e.sub /\ LenIndex(s, j) + e.sub <= 15
    /\ e.op = "match" => e.dbits <= DistIndex(s, j) + e.dsub /\ DistIndex(s, j) + e.dsub <= 15

Body(type) ==
    CASE type = "stored" -> {"stored"} [] type = "fixed" -> Symbols [] OTHER -> {"table"}

Follows(s, i, ops) == i < Len(s.items) /\ s.items[i + 1].op \in ops

\* What comes after item i of the block with header j, if nothing is wrong with the item.
Continues(s, j, i) ==
    LET e == s.items[i]
    IN  CASE e.op = "block" -> Follows(s, i, Body(e.type))
          [] e.op \in {"table", "lit", "match"} -> Follows(s, i, Symbols)
          [] OTHER -> IF s.items[j].last THEN i = Len(s.items) ELSE Follows(s, i, {"block"})

Grammatical(s) ==
    /\ Len(s.items) > 0 /\ s.items[1].op = "block"
    /\ \A i \in 1 .. Len(s.items) : \A j \in 1 .. i :
        Header(s, j, i) =>
            /\ Coded(s, j, s.items[i])
            /\ SoundItem(s.items[i], s.text[i], Len(s.text[i])) => Continues(s, j, i)

WellFormed(s) == Typed(s) /\ InOrder(s) /\ Grammatical(s)

Text(s) == s.text[Len(s.items) + 1]

StreamBytes(s) ==
    NextByte(s.start[Len(s.items) + 1]) \div 8 + CheckBytes(s) + LengthBytes(s)

InputBytes(s) == StreamBytes(s) + s.after
=============================================================================
