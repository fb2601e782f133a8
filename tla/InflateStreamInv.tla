-------------------------- MODULE InflateStreamInv --------------------------
(***************************************************************************)
(* The inductive invariant from which the safety properties of             *)
(* InflateStream and its promise to Decoder follow.  It says, part by      *)
(* part, what each mode leaves true for the next one, whatever pieces the  *)
(* input and the output come in.                                           *)
(***************************************************************************)
EXTENDS InflateStream

N == Len(stream.items)

StoredModes == {"STORED", "COPY_", "COPY"}
TableModes == {"TABLE", "LENLENS", "CODELENS"}
BodyModes == StoredModes \cup TableModes \cup SymbolModes

\* The sequences hold bytes, and the numbers of the reservoir and the ranges are in their bounds.
DataInv ==
    /\ output \in Seq(Byte) /\ window \in Seq(Byte)
    /\ n_ \in 0 .. 32

\* The ranges of a call, and what is left of them between two calls and for the fast path.
RangeInv ==
    /\ next_in <= in_last /\ in_last <= InputBytes(stream)
    /\ total_in <= InputBytes(stream)
    /\ pc = "idle" => total_out = Len(output)
    /\ pc = "idle" /\ mode_ # "BAD" => total_in = next_in
    /\ pc = "fast" => mode_ = "LEN" /\ FastEnough

\* The block with header j is the one at hand, and its tables are those in use.
InBlockOf(j) ==
    /\ Header(stream, j, at) /\ stream.items[j].last = last_
    /\ mode_ \in SymbolModes =>
        lenbits_ = LenIndex(stream, j) /\ distbits_ = DistIndex(stream, j)

\* What the mode expects is what the stream has at this place.
ItemInv ==
    /\ mode_ \in HeadModes => at = 1 /\ ~last_
    /\ mode_ \in {"TYPE", "TYPEDO"} => IF last_ THEN at = N + 1 ELSE at <= N /\ item.op = "block"
    /\ mode_ \in BodyModes => at <= N /\ \E j \in 1 .. at : InBlockOf(j)
    /\ mode_ \in StoredModes => item.op = "stored"
    /\ mode_ \in TableModes =>
        /\ item.op = "table" /\ at > 1
        /\ stream.items[at - 1].op = "block" /\ stream.items[at - 1].type = "dynamic"
        /\ stream.items[at - 1].last = last_
    /\ mode_ \in SymbolModes => item.op \in Symbols
    /\ mode_ \in EndModes => at = N + 1

\* The registers hold what has been read of the header, the block or the symbol at hand.
HeadRegisters ==
    /\ mode_ \in {"FLAGS", "TIME", "OS", "EXLEN", "NAME", "COMMENT", "HCRC"} => wrap_ = "gzip"
    /\ mode_ = "DICTID" => wrap_ = "zlib" /\ stream.head.dict
    /\ mode_ = "NAME" => length_ < stream.head.name \/ length_ = 0
    /\ mode_ = "COMMENT" => length_ < stream.head.comment \/ length_ = 0

BlockRegisters ==
    /\ mode_ \in {"COPY_", "COPY"} => item.good /\ length_ <= Len(item.bytes) /\ n_ = 0
    /\ mode_ = "LENLENS" => item.error # "counts" /\ have_ <= item.ncode
    /\ mode_ = "CODELENS" =>
        /\ item.error \notin {"counts", "codes"} /\ lenbits_ = item.clbits
        /\ sym <= Len(item.symbols) /\ have_ = item.counts[sym + 1] /\ have_ <= item.total
        /\ sym > 0 => have_ > 0 /\ item.symbols[1].val # 16

SymbolRegisters ==
    /\ mode_ = "LIT" => item.op = "lit" /\ length_ = item.byte
    /\ mode_ \in {"LENEXT", "DIST", "DISTEXT", "MATCH"} => item.op = "match"
    /\ mode_ = "LENEXT" => length_ = item.len /\ extra_ = item.extra
    /\ mode_ \in {"DIST", "DISTEXT"} => length_ = item.len + item.len_v
    /\ mode_ \in {"DISTEXT", "MATCH"} => item.valid
    /\ mode_ = "DISTEXT" => offset_ = item.dist /\ extra_ = item.dextra
    /\ mode_ = "MATCH" =>
        /\ offset_ = Distance(item) /\ length_ <= item.len + item.len_v
        /\ length_ < item.len + item.len_v => Distance(item) <= Len(stream.text[at])

RegisterInv == HeadRegisters /\ BlockRegisters /\ SymbolRegisters

\* BitsInOrder, mode by mode.
Bit == 8 * next_in - n_

HeadBits ==
    /\ mode_ = "HEAD" => Bit = 0
    /\ mode_ \in {"FLAGS", "DICTID"} => Bit = 16
    /\ mode_ = "TIME" => Bit = 32
    /\ mode_ = "OS" => Bit = 64
    /\ mode_ = "EXLEN" => Bit = 80
    /\ mode_ = "NAME" => Bit = 80 + 8 * length_
    /\ mode_ = "COMMENT" => Bit = 80 + 8 * (stream.head.name + length_)
    /\ mode_ = "HCRC" => Bit = 80 + 8 * (stream.head.name + stream.head.comment)

BlockBits ==
    LET b == stream.start[at]
    IN  /\ mode_ \in {"TYPE", "TYPEDO", "TABLE"} => Bit = b
        /\ mode_ = "STORED" => Bit \in {b, NextByte(b)}
        /\ mode_ \in {"COPY_", "COPY"} => Bit = 8 * (DataStart + Len(item.bytes) - length_)
        /\ mode_ = "LENLENS" => Bit = b + 14 + 3 * have_
        /\ mode_ = "CODELENS" => Bit = b + 14 + 3 * item.ncode + item.offsets[sym + 1]

SymbolBits ==
    LET b == stream.start[at]
    IN  /\ mode_ \in {"LEN_", "LEN"} => Bit = b
        /\ mode_ \in {"LIT", "LENEXT"} => Bit = b + item.bits
        /\ mode_ = "DIST" => Bit = b + item.bits + item.extra
        /\ mode_ = "DISTEXT" => Bit = b + item.bits + item.extra + item.dbits
        /\ mode_ = "MATCH" => Bit = b + item.bits + item.extra + item.dbits + item.dextra

EndBits ==
    LET end == NextByte(stream.start[N + 1])
    IN  /\ mode_ = "CHECK" => Bit = end
        /\ mode_ = "LENGTH" => Bit = end + 8 * CheckBytes(stream)
        /\ mode_ = "DONE" => Bit \in {end + 8 * CheckBytes(stream), 8 * StreamBytes(stream)}

BitInv == HeadBits /\ BlockBits /\ SymbolBits /\ EndBits

\* The output is a prefix of the text that ends with the part of the item that is done.
Copied ==
    IF mode_ \in {"COPY_", "COPY"} THEN Len(item.bytes) - length_
    ELSE IF mode_ = "MATCH" THEN (item.len + item.len_v) - length_ ELSE 0

TextInv ==
    mode_ # "BAD" =>
        /\ Len(output) = Len(stream.text[at]) + Copied
        /\ Len(output) <= Len(Text(stream))
        /\ \A k \in 1 .. Len(output) : output[k] = Text(stream)[k]

\* A call goes to its return only when it can do no more.
StopInv ==
    pc = "done" /\ mode_ # "BAD" /\ ec # "end_of_stream" =>
        \/ next_in = in_last \/ avail_out = 0
        \/ flush \in {"block", "trees"} /\ mode_ \in {"TYPE", "LEN_", "COPY_"}

\* Nothing is wrong with what has been passed.
SoundInv ==
    mode_ # "BAD" =>
        /\ mode_ \in {"TIME", "OS", "EXLEN", "NAME", "COMMENT", "HCRC"} =>
            stream.head.error \in {"ok", "header_crc_mismatch"}
        /\ mode_ \notin HeadModes =>
            SoundHead(stream, capacity) \/ (~verify /\ stream.head.error = "header_crc_mismatch")
        /\ \A i \in 1 .. at - 1 : SoundItem(stream.items[i], stream.text[i], Len(stream.text[i]))
        /\ verify /\ mode_ \in {"LENGTH", "DONE"} => stream.check

IInv ==
    /\ TypeOK
    /\ DataInv
    /\ RangeInv
    /\ ItemInv
    /\ RegisterInv
    /\ BitInv
    /\ TextInv
    /\ WindowFollowsOutput
    /\ CheckCoversOutput
    /\ StopInv
    /\ StopsWhenStuck
    /\ SoundInv
=============================================================================
