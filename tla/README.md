# A TLA+ model of Deflate

This directory holds specifications of the C++ library in this repository: a port of zlib's
deflate and inflate (`include/boost/deflate/`). It states what the streams promise to a caller
who feeds and drains them piece by piece, checks it with TLC on small windows and buffers, and
proves with TLAPS, for all sizes, the safety part of the compressor's control, of its match finder
and block encoder, of the decompressor, of the bit writer and of the window. Paths below are relative to
`include/boost/deflate/` unless they start with another directory.

## 1. Inventory

The library is single-threaded and does no I/O. What makes it hard is that both streams are
*resumable*: a call of `write` may stop at any byte of input or output, keep what it was doing in
some forty member variables, and go on in the next call, with another flush value, other buffer
sizes, another level, or after a reset.

| Part | State | Operations | Hard behaviour | What makes it correct |
|---|---|---|---|---|
| `deflate_stream` control (`detail/deflate_stream.ipp`) | `status_`, `last_flush_`, window positions, pending buffer, symbol buffer, match in waiting | `write`, `params`, `prime`, `reset`, `clear`, `upper_bound`, `tune`, `pending` | resuming in every loop; repeated and incomplete flushes; window slides; switch of function in mid-stream | input is encoded once, in order; a flush delivers; a finish ends; searches stay in the window |
| match finder (`insert_string`, `longest_match`) | `head_`, `prev_`, `ins_h_` | insert, search, relocate on a slide, clear | chains cut by slides and by full flushes; compares past the lookahead | a match is real, in reach, and not from before a full flush |
| block encoder (`tr_*`, `build_tree`, `gen_bitlen`, `scan_tree`, `send_tree`, `compress_block`) | frequencies, heap, code lengths, symbol buffer overlaid with the pending buffer | tally a symbol, flush a block | length-limited codes, the overlay, choice among three encodings | complete prefix codes of at most 15 bits, decodable trees |
| bit writer (`send_bits`, `bi_flush`, `bi_windup`, `copy_block`) | `bi_buf_`, `bi_valid_` | append bits, flush bytes, align | 16-bit edges | the bits come out in order |
| container of the compressor | `wrap_`, `status_`, `zs.check` | header, trailer | trailer over several calls | one header, one trailer, right checksum |
| `inflate_stream` (`detail/inflate_stream.ipp`) | `mode_` (31 values), lengths and tables of the current block, `back_`, `check_` | `write`, `reset`, `clear` | every mode can run out of input or output and be entered again; a fast and a slow path | same output for every split of input and output; ends at the end; errors are final |
| `inflate_table`, fixed tables | code lengths, table memory | build | sub-tables, incomplete codes | the table decodes exactly the code |
| bit reader (`detail/bitstream.hpp`) | `v_`, `n_` | fill, peek, read, drop, rewind | 32-bit edges, rewind | bits in order, nothing read twice |
| `window` (`detail/window.hpp`) | ring buffer, `i_`, `size_` | reset, read, write | wrap-around, exactly full | read gives the last bytes written |
| `easy_compress`, `easy_uncompress` (`detail/easy.ipp`) | growing string | call the stream until the input is used up | growth, end of loop | result decompresses to the input |
| checksums (`detail/adler.ipp`, `detail/crc.ipp`) | none | `adler32`, `crc32` | deferred modulo, combination of calls | equals the definition, splits over pieces |
| error codes, configuration | none | - | - | - |
| vendored zlib (`test/extern/`) | - | reference in tests | - | not part of the library |

The streams call nothing outside themselves. `doWrite` of the compressor calls one compression
function, chosen by strategy and level; that calls `fill_window` (which takes input) and
`flush_block` (which hands over output). `doParams` calls `doWrite`. `doWrite` of the
decompressor calls `inflate_fast` when input and output are plentiful, `inflate_table` for a
dynamic block, and the window at its end and for far matches. The easy functions loop over
`write`.

The hazards found in this survey are listed in `PROJECT.json`, each at its line, with the
properties that cover it or the reason why none does yet.

## 2. Plan

| Step | Modules | Content |
|---|---|---|
| 1 (done) | `DeflateStream`, `StreamPipe`, `DeflateStreamInv`, `DeflateStreamProofs` | the compressor's control, its abstract pipe, its invariant and the proofs |
| 2 (done) | `History`, `Window`, `WindowProofs` | the ring buffer as a refinement of "the last `capacity` bytes written"; proofs of reset, read and write |
| 3 (done) | `DeflateFormat`, `Decoder`, `InflateStream`, `MCInflate`, `InflateStreamInv`, `InflateStreamProofs` | the mode machine with input and output in pieces, its bit reader and window; refines "decode the whole, deliver a prefix"; headers, checks, errors and resets; its invariant and the proofs of all safety properties and of the refinement |
| 4 (done) | `BitWriter`, `MCBitWriter`, `BitWriterProofs` | `send_bits`, `bi_flush`, `bi_windup`, `copy_block`, `flush_pending` and `prime` against the queue of bits that were sent; the proof that they are that queue |
| 5 (done) | `MatchFinder`, `MCMatchFinder`, `MatchFinderInv`, `MatchFinderProofs` | hash heads and chains with slide and clear, the search, and the symbols of three functions against the text; its invariant and the proofs that the chains hold the strings, that a search finds the longest match and that the symbols are the text |
| 6 (done but for the tables' proofs) | `Codes`, `HuffmanTree`, `InflateTable`, `HuffmanCode`, `MCHuffmanCode`, `HuffmanTreeInv`, `HuffmanTreeProofs`, `Blocks`, `MCBlocks`, `BlocksInv`, `SumLemmas`, `BlocksProofs` | `build_tree` with `gen_bitlen` and `gen_codes`, `inflate_table` against the code it is given; the invariant of `build_tree` and the proofs that it makes a complete code, counts its bits, and that `inflate_table` accepts the code and refuses what is none; a block from its symbols to the modes that read it; its invariant and the proof that a block is read as it was tallied |
| 7 | `Container`, `EasyApi`, `Checksum` | header and trailer bytes with `put_long`, the loops of `easy.ipp`, `adler32` and `crc32` |

The streams' runs stay with windows of some ten bytes, a symbol buffer of three symbols and one- to
three-byte output pieces: small enough to slide, fill and overflow in a stream of twenty bytes. What
is left to prove of step 6 is that the tables of `inflate_table` decode the code they are made for.

## 3. The modules

### DeflateStream

One behaviour is the life of one `deflate_stream` object with one caller. Between calls
`pc = "idle"`; inside a call, one action is one pass of a loop of the code:

| Action | Code |
|---|---|
| `write`, `doWrite` | `deflate_stream::write` and `doWrite` up to the call of the compression function: the refusals, the flush of what is pending, the test for a repeated flush |
| `doParams`, `EndCall` | `doParams`: `EndCall` is what it does after `doWrite` has returned |
| `doPrime` | `doPrime`, before the first `write` |
| `doReset` | `doReset`, `doClear` and the lazy `init`, `lm_init` of the next call |
| `fill_window` (`pc = "fill"`) | `fill_window` and `read_buf`, with the return that follows it in each function |
| `f_stored`, `f_fast`, `f_slow`, `f_rle`, `f_huff` (`pc = "body"`) | one pass of the loop of the function, with the block it may flush |
| `finish_block` (`pc = "tail"`) | the end of each function, when the input is used up: the last literal in waiting, the last or only block |
| `block_done` | `doWrite` after `block_done`: the marker of the flush, `clear_hash` and the forgotten history of `Flush::full` |
| `trailer` | the end of `doWrite` for `Flush::finish` |

Bytes are abstracted to their positions. `base` counts the bytes the window has slid past, so the
byte at window index `i` is byte `base + i` of the input. Equality of strings is a choice: a
search may return any length for any candidate in reach (`longest_match`), and the ghost `found`
keeps which string was compared with which. A block is a stretch of input and a number of output
bytes from `BlockBytes` (at least 1; TLC uses 1 and 2, the proofs any set of positive numbers);
whether it is stored, static or dynamic is a choice wherever `tr_flush_block` has one. The other
ghosts are `sent` (input bytes the finished blocks stand for), `covered` (those of the current
block's symbols), `faithful` (nothing so far stood for bytes it should not), `closed`, `full_mark`,
`trailers`, and `written`: which bytes of the window hold something that was read or zeroed since
the last `init`, directly or through the copy of a slide. `high_water` does not tell, because a slide
copies the upper half of the window whole (`Slid`), with the bytes at its end that were never written.

Abstractions that matter to a reader:

- `match_length_` after a search is any value up to the longest match; `max_lazy_`, `nice_match_`
  and `max_chain_length_`, which only cut a search short, are therefore free, and so is `tune`.
- The bits kept in `bi_buf_` between blocks are not counted; they only shift bytes from one block
  to the next, which the free block size covers.
- `Strategy::filtered` and `Strategy::fixed` choose the same functions as `normal`; filtered
  discards short matches, which `SlowSearches` allows always.
- The cleared hash heads of a full flush are `Candidates` from `full_mark` on, so `FullFlushIsolates`
  is about the positions, which a full flush sets to 0 as well; that the chains are empty after it is
  `ChainsHoldTheStrings` of `MatchFinder`.
- The caller offers non-null buffers and clears `ec` before a call. Reset and clear come between calls.
- The header code of `doWrite` cannot be reached (`init` sets `BUSY_STATE`) and is left out.
- `doDictionary` has no public caller and is left out.

### StreamPipe

The abstract promise: input is accepted, later encoded in order and without loss, and once the
stream is closed everything accepted is encoded and nothing more is accepted. `DeflateStream`
instantiates it with `accepted <- total_in`, `encoded <- sent`, `closed <- closed`; `IsPipe` is
checked as a property and proved.

### DeflateStreamInv, DeflateStreamProofs

The inductive invariant `IInv` in named parts, with `CallInv` for what one call leaves to the next;
the proof that `IInv` is invariant; and from it the refinement of `StreamPipe` and what a call
promises when it returns (section 6).

### History, Window, WindowProofs

`Window` is `detail/window.hpp`: `reset`, `write` and `read` are its operations with the branches
and `memcpy`s of the code. A byte is represented by its number in the order of all writes, so a byte
left over from before a reset (which keeps the buffer if the capacity does not change) differs from
every byte of the new stream. `read` has the guard its two callers establish: `MATCH`
(`inflate_stream.ipp:659-663`) and `inflate_fast` (`:1281-1288`) refuse a distance beyond
`size()` and clamp the length to it. A write has at least one byte (`done()` tests `r.out.used()`).
`History` is the promise, without a buffer: a read gives the bytes written `pos` bytes ago, at
most `capacity` of them and none from before the last reset.

### DeflateFormat, Decoder, InflateStream, MCInflate

`DeflateFormat` is the reference: what a zlib, gzip or raw stream is. A stream is a record: its
wrapping, what its header holds or has wrong with it (`head`), its *items* and whether its trailer
is right. An item is a block header or a symbol, a record with the bits of its parts, so that
`start[i]`, the place of item `i` in the input, and `text[i]`, the bytes that the items before it
stand for, follow from the items; they are fields of the record. `WellFormed` says what the proofs
have to know of a stream, and nothing about whether it is a good one: its fields have the widths of
the two RFCs (`Typed`), its places and texts are right (`InOrder`), and its items come in the order
of the format as long as nothing is wrong with them (`Grammatical`): a block header, its table or its
data, symbols up to the end of the block, and nothing after the last block. TLC evaluates it for each
stream it runs. `Sound` says that a decoder has to accept the stream.

`InflateStream` is `doWrite`, one action for one mode, with the name of the mode; `write` and
`done` are the beginning and the return of a call, `doReset` the reset with arguments, and
`fast_literal`, `fast_match`, `fast_end_of_block` and `fast_invalid` are the passes of the loop of
`inflate_fast`. The bits themselves are not held: `n_` and `next_in` are counted as
`detail/bitstream.hpp` counts them, and the ghosts `at` and `sym` are the item that the decoder
takes to be next. If it ever took a bit twice, or lost one, it would read other bits as that item;
`BitsInOrder` says that this does not happen, at every point of every mode. Bytes are values:
`output` is what was written, `window` the last `capacity` bytes that `done` gave to the window
(the ring buffer's own correctness is `Window`). `check_` counts the bytes that it covers: two
checksums are equal when they cover the same bytes and the stored one is right.

An action that finds too little input leaves with all of it in the reservoir (`OutOfInput`), as
`fill` does; one that goes on takes whole bytes and uses some of their bits (`Take`). Errors
return without `done`: what the call has read stays read, what it wrote is not counted (`err`).

`Decoder` is the promise without modes, bits or a window: a text is given out in order; the end
only when all of it is there, and not for an invalid stream; a failure only for a stream that is
not sound; both are final until the next stream. `IsDecoder` is its specification with
`given <- output`. A gzip stream with checksums counts as not sound in it, because the code refuses
each one that has a text (section 7).

`MCInflate` has the streams that TLC runs: sound ones with stored, fixed and dynamic blocks,
matches that reach into the window, cross into the output and overlap themselves, an empty stored
block, all optional fields of a gzip header that the code can read, raw streams with and without
more input after them; and a faulty stream for each kind of error that `doWrite` and `inflate_fast` can
return. A code table there has few symbols, a dynamic block few code lengths.

### InflateStreamInv, InflateStreamProofs

The inductive invariant `IInv` of the decompressor, mode by mode; the proof that it is one, and of the
safety properties that follow; and the refinement of `Decoder` (section 6).

### BitWriter, MCBitWriter, BitWriterProofs

What `DeflateStream` counts in bytes, `BitWriter` has in bits. A word (`bi_buf_`) is a function from
bit numbers to bits, a shift out of it loses bits, and `put_byte` writes at `pending_` while
`flush_pending` reads at `pending_out_`, as in the code; `byte` is a constant, a word two of them.
Each caller of the writer is an action: `SendBits` (`send_code` and all that sends a value),
`TrAlign`, `TrStoredBlock`, `BiWindup` (the end of the last block), `DoPrime`, and `FlushPending`
for every number of whole bytes that the caller's output takes. `Ready` is the callers' side: they write only when
everything has been handed over, which `PutsFindEmptyBuffer` of `DeflateStream` shows, and within
the buffer. The ghost `sent` is the promise: the bits that the format calls for, one after the other.
`MCBitWriter` has a byte of four bits, so that a word holds eight, values of 1, 3, 5 and 8 bits, and
stored blocks of no byte and of one; `MaxSent` bounds the bits of a behaviour.

### Codes, HuffmanTree, InflateTable, HuffmanCode, MCHuffmanCode

`Codes` has the alphabets and tables that both sides share (`get_lut` is written as what its loops
compute). `HuffmanTree` is `build_tree`, one action for a round of a loop: `BuildHeap`, `Combine`,
`SetLength` (a round of the first loop of `gen_bitlen`), `MoveLeaf`, `Recompute`, `gen_codes`; the
members `fc` and `dl` of `ct_data`, which change their meaning on the way, are two functions, and
the arrays start with what an earlier tree may have left. `InflateTable` is `inflate_table`: the
returns `NoSymbols` and `Refuse`, `Sort`, and `Enter` for a round of the loop that enters a symbol
and may open a sub-table; an entry that was not written is `NoEntry`. An entry holds its symbol,
where the code holds what the symbol stands for; `Blocks` has that part. `HuffmanCode` joins them:
the lengths that `build_tree` made, or any others, go to `inflate_table`, and `Lookup` reads with
the table. `MCHuffmanCode` has six symbols; codes of at most four bits are limited to three for
frequencies that make a tree of five levels. All lengths up to three arrive as well: 12288 cases, over-subscribed,
incomplete, single codes and none at all among them. Root tables of 3, 2 and 1 bits give
sub-tables of one and more bits.

### Blocks, MCBlocks

A block with the sizes of the code: 286 and 30 symbols, 19 code lengths. `tr_tally` counts the symbols, `tr_flush_block` builds the
trees, counts the runs of their lengths, compares the three kinds and sends one of them, as a sequence of items (a code of
a tree, or a value of some bits). The modes `TYPEDO` to `DISTEXT` read the items. `Readable` says that
the next items are what the mode is about to read: a code of the tree in use, or a value of the number of
bits that the mode asks for. Both sides carry their own tables, so that a base or a number of extra
bits that differs shows. A tree is any complete code for the symbols that occur (`CodesOver`): that `build_tree` makes
one is `HuffmanTreeProofs`, and that its codes are read as they were sent `HuffmanCode`. `MCBlocks` gives two shapes of
trees, an even and an uneven one; its blocks have runs of equal code lengths of 1 to 32 and around 138, every match
length, and the first and last distance of every code. What may be tallied is an assumption,
`InputsAssumption`: bytes, and matches with a length less 3 of one byte and a distance of at most
`max_dist`, the sizes of the arrays that `get_lut` fills (`d_code` is looked up with the distance less 1).

### BlocksInv, SumLemmas, BlocksProofs

The inductive invariant `IInv` of `Blocks`; facts about sums over finite sets and about sequences put after each
other; and the proofs, first of where in a block each of its items is (section 6).

### HuffmanTreeInv, HuffmanTreeProofs

The inductive invariant `IInv` of `build_tree`, and the proofs for `HuffmanCode`: of `build_tree`, and of the
checks of `inflate_table` (section 6).

### MatchFinder, MCMatchFinder, MatchFinderInv, MatchFinderProofs

What `DeflateStream` leaves free about a search: here the window has bytes, the hash is computed, and
`head_` and `prev_` are the arrays of the code. `fill_window` is a round of its loop (slide,
relocation of the chains, read, the strings that were too short before), `f_fast`, `f_slow` and `f_rle` a pass
of their loop with `longest_match`, `finish` their end with the full flush that follows. How output
runs out is `DeflateStream`'s; here a call may come back whenever a symbol fills the block. The ghosts
are `strings`, where strings were inserted, and `search`, what the last search found. `doParams`
switches where `DeflateStream` allows it with enough space. `MCMatchFinder` has
two texts of 42 bytes over four values, a window of 16 with `max_match = 5` and a hash of three bits,
four levels, calls of 10 and of 40 bytes: the window slides twice, and the hash has collisions.
What a new window holds is a constant (`NewWindows`: zeros, or a pattern of the four byte values),
since the searches compare bytes that no data has reached. The `memset` of `fill_window`, which
changes such bytes only, is left out; which of them a search can meet is `DeflateStream`'s.

The exclusive or of the hash is a constant operator, `BitXor`, and what the code needs of the hash is an
assumption on it (`HashAssumption`): after `min_match` bytes nothing of what came before is left in it,
and two bytes that come third can be told apart. Both follow from `hash_shift` being a third of `hash_bits`, rounded
up, and a byte fitting in the hash; TLC evaluates the assumption for the hash of the run,
`BitXor <- MCXor`. The second half is why `longest_match` may leave out the comparison of the third
byte, as the comment at `detail/deflate_stream.ipp:1980` says. `MatchFinderInv` has the inductive
invariant `IInv`, which TLC has checked on the instance of the run.

## 4. Runs

All sizes are small on purpose: `w_size = 9`, `max_match = 3` give `kmin_lookahead = 7`,
`max_dist = 2` and a window of 18 bytes that slides at index 11; `lit_bufsize = 4` ends a block
after three symbols and limits a stored block to 11 bytes. `MaxInput` bounds the input of one
behaviour; 20 bytes let the window slide. In `compress` calls bring 6, 11 or 20 bytes: 11 end exactly where
the window slides with nothing ahead, so that the slide copies bytes that were never written
(without its exception `SearchStaysInWindow` would fail). Output pieces of 1 and 3 bytes make a block fit, end
exactly with the space, or overflow it. What TLC shows on these sizes is proved for all sizes where
section 6 says so. `params` in `compress` and `flushes` offers 30 bytes of output, more than a block takes.
`window` has capacities 2 and 4, writes of 1 to 9 bytes, twelve bytes in all:
every branch of `write` from every position, and resets with and without a change of capacity.

`inflate` has a window of four bytes and `max_match = 4`, so that the fast path is entered with six
bytes of input and four of space, and matches cross the ends of the window and of a call. Calls
offer 1 or 14 bytes and have room for 1 or 9: every mode is interrupted in its middle, and both
paths alternate. `Flush::finish` and `Flush::trees` are the two values that change what `doWrite`
does (`block` stops at a part of the places of `trees`, the others act as `none`, and `finish`
differs from it only in the window and in its return). `MaxLives = 2` is a reset at any return.

| Run | Question | Result |
|---|---|---|
| `compress` | Over a raw stream at all levels and strategies, with slides, and with `params` in mid-stream given enough output space, are all positions in range, is every put made to an empty buffer, is nothing lost, do searches and stored blocks stay in the window, and is what a search compares written or zeroed but for what a slide copied unwritten? Is the compressor a `StreamPipe`? | holds |
| `flushes` | In a zlib stream, primed or not, with `params` between, does every flush that reports success deliver everything, does a full flush isolate, is the end reported only when everything is handed over? | holds |
| `ends` | Does a caller who keeps calling with `Flush::finish` reach the end, and one who repeats a flush get it done? | holds |
| `match_finder` | Do the hash chains hold exactly the strings inserted and in reach, newest first; is the match a search finds real, and the longest where the whole chain is searched; are the symbols the text, without gap or overlap? | holds |
| `huffman` | Are the lengths of `build_tree` those of a complete code within the limit, and a shortest one where none is limited; are `opt_len_` and `static_len_` its bits; does the table of `inflate_table` decode every bit string as the code says; are exactly the faulty sets of lengths refused, none of `build_tree`'s among them, and is there room for the tables of all others? | holds |
| `blocks` | Does the decompressor read every block as it was tallied; does it have the bits that its kind was chosen by; was a shorter kind passed over? | holds |
| `bit_writer` | Do the bits come out as they were sent, whatever their widths and the output's; does a flush that empties the buffer keep less than a byte? | holds |
| `window` | Does the ring buffer give back the last bytes of the same stream after writes that wrap, fill it exactly or exceed it? | holds |
| `inflate` | Over sound and faulty streams, on both paths, however input and output are cut: are the reservoir in its bounds, bits and output in order, the window and the checksum up to date; does a call only stop when it is stuck; is the decompressor a `Decoder`, and does it finish? | holds |
| `trailer_twice` | Is the trailer written "only once"? | violated |
| `params_early` | Does `params` compress the input so far with the old level when space is short? | violated |
| `gzip_check` | Is a sound gzip stream accepted? | violated |

Deadlock is checked except in `ends`, where a caller who has all that it
wanted stops, and in `huffman` and `blocks`, which end when the code or the last block has been read.

Every property of a passing run is broken by a mutant of the code: a block flushed one symbol
later, a pass that goes on after the output is used up, a literal in waiting that is forgotten, a
window zeroed one byte short, a `max_dist` without the lookahead, a stored block that waits for
`w_size`, a `last_flush_` that is kept, a full flush that keeps its positions, a `params` that
compares only the strategy, a trailer that reports the end too early, a refill that waits for
input although a flush was asked for; a window that wraps with the wrong bytes or whose
reset keeps the size; a `clamp` that does not, a fast path
entered with five bytes, a `rewind` that keeps its bits, a far match read from the oldest byte, a
window not updated for `Flush::finish`, a checksum skipped for a call without input or compared
before this call's bytes are in it, a stop at a block that nobody asked for, a call that stops at
the same block again; a `bi_valid_` that counts on after the word was put, a `bi_windup` that takes a
byte for more, a `bi_flush` that only flushes a full word; a node too deep that is not counted because it
is no leaf, lengths handed out from the wrong end, a change of length that forgets the frequency,
ties before frequencies in the heap, codes doubled too early, an incomplete set allowed for every type, a
`huff` that keeps its lower bits; a run that counts the length before it, a repetition counted twice,
a size without its header; a hash of one byte after a slide, a search beyond `max_dist`, a chain
that is not clipped when the window slides.

## 5. Fairness

`CooperativeSpec` has two assumptions. `WF_vars(Inside)`: a call that has begun goes on to its
return, because nothing in the code blocks. `WF_vars(Repeating /\ again)`: a caller whose flush is
incomplete calls again with the same flush and more output space, as the documentation of `write`
demands ("this function must be called again with the same value of the flush parameter and more
output space", `deflate_stream.hpp:249`). In these runs the caller gives no other call in between.
Nothing is assumed about how much space it offers beyond one byte; `ends` offers three bytes,
more than one marker takes, because the documentation says that a caller who offers less than a
marker gets repeated markers.

In `InflateStream`, `CooperativeSpec` assumes `WF_vars(Inside)` for the same reason, and
`WF_vars(Call)`: the caller goes on calling with input, as long as there is any, and output space
("`write` should normally be called until it returns `error::end_of_stream` or another error",
`inflate_stream.hpp:170`). It offers again what was not consumed, since `next_in` is where the
last call left it.

## 6. Proofs

`DeflateStreamProofs` proves, for every `w_size`, `max_match`, `lit_bufsize`, every set of block
sizes, levels, strategies, flushes, input and output sizes that satisfies the two ASSUMEs of
`DeflateStream`, and every bound `MaxInput`:

| Theorem | Property |
|---|---|
| `Invariance` | `IInv` |
| `TypeCorrect` | `TypeOK` |
| `PutsAreInOrder` | `PutsFindEmptyBuffer` |
| `NothingIsLost` | `Lossless` |
| `SearchesStayInWindow` | `SearchStaysInWindow` |
| `RefillsHaveRoom` | `FillsOnce` |
| `StoredBlocksStayInWindow` | `StoredBlockInWindow` |
| `FullFlushesIsolate` | `FullFlushIsolates` |
| `ImplementsPipe` | `IsPipe` |
| `Delivery`, `FlushesDeliver`, `EndsAreEnds` | `FlushDelivers`, `EndIsEnd` |

Each has the hypothesis `ParamsOut = {}`, that `params` is not called in the middle of a stream:
with little output space the properties fail, as `params_early` shows; with enough of it they are
model-checked. Levels and strategies still change at a reset. That `IInv` is inductive is proved for
these streams; with `params` it is not an invariant, and no run has it.

The properties are not inductive: that a search stays in the window depends on what the last refill
left, that nothing is lost depends on the match in waiting. `IInv` adds what connects them:

- `WindowInv`: in the body of a loop the lookahead suffices for the function, or the input is short
  and the zeroed margin after it is whole; at the end of a function the lookahead is zero.
- `BlockInv`: finished blocks reach `block_start`, the symbols of the current one reach `strstart`,
  less the byte that `f_slow` holds back; at level "stored" there are no symbols and the unsent
  bytes are fewer than `max_dist`, which is why a slide cannot take them.
- `MatchInv`: a match in waiting is the one that was compared, one byte before `strstart`, and does
  not exceed the lookahead.
- `WrittenInv` (beside `IInv`, for `SearchStaysInWindow`): the data and all that is below `high_water`
  was written or zeroed, but for the last four bytes of the lower half, and `high_water` is at least
  `max_match` past the data or at the window's end. The last part bounds what a slide copies
  unwritten: it slides from `w_size + max_dist` on, so `high_water` is then at most four bytes from
  the end of the window.
- `FullMarkInv`: the last full flush is not after the start of the window.
- `EndInv`: after the last block nothing is left, and only the trailer follows.

The argument: `FlushBlockFacts` says that a block whose symbols are right keeps `BlockInv`;
`TallyFacts` adds a symbol to it; `FillStep` is `fill_window`, slide included; `PassStep` is what
the five functions have in common, and `StoredStep`, `FastStep`, `SlowStep`, `RleStep`, `HuffStep`
instantiate it; `FinishBlockStep`, `BlockDoneStep`, `TrailerStep`, `WriteStep`, `PrimeStep` and
`ResetStep` are the other actions, and `Step` joins them. `WrittenInv` goes the same way:
`FillWritten` is the slide, the data and the zeroed bytes, byte by byte; the passes keep the sum of
`strstart` and `lookahead` (`PassWritten`), a full flush forgets the data with nothing ahead
(`OtherWritten`), and `WrittenStep` joins them.

The refinement needs no more than `IInv`: `Positions` gives `sent = base + block_start` with
`block_start <= strstart`; `BlocksGrow` says that a step which takes no input and moves
`block_start` forward is an `Encode` or a stutter, and `PassPipe` that the five functions are such
steps; `FillPipe` uses `RoomToFill` (a refill that takes input accepts it), and `FinishBlockPipe`
that the last block is put with an empty lookahead.

What a call promises when it returns depends on what the call before it left in `last_flush_`,
because a flush that is not above it is refused as a repetition. `CallInv` says that a value
other than `unset` stands for a flush that was delivered, if nothing came after it; it is inductive
together with `FlushDelivers`, `EndIsEnd` and `IInv`. Its steps are few: `EarlyReturn` (a return
with the output used up sets `unset`, or there was no flush), `GoesOn` (no return), and
`BlockDoneDelivers`, `TrailerDelivers` and `WriteDelivers` for the returns that say "done".

`WindowProofs` proves for every set of capacities and write sizes that `Window` satisfies
`TypeOK` and `Contents` and implements `History` (`WindowTypes`, `WindowContents`,
`ImplementsHistory`), without further hypothesis. `Contents` is the invariant: the byte written
`b` bytes ago is at index `i_ - b`, or `capacity_` above it; `WriteEffect` shows it for the three
branches of `write`, `ReadEffect` derives what the `memcpy`s of `read` copy.

`BitWriterProofs` proves for every width of a byte (of at least four bits), capacity, set of values and of stored
blocks, and every bound on what is sent:

| Theorem | Property |
|---|---|
| `TypeCorrect` | `TypeOK` |
| `SentInOrder` | `BitsInOrder` |
| `NothingBehind` | `NothingToPutBehind` |
| `FlushDelivers` | `FlushLeavesLess` |

`BitsInOrder` is an equation of sequences, and not inductive: a shift could leave something above
`bi_valid_`, and a flush that stops in the middle leaves `pending_out_` behind. The invariant `IInv`
says it by index (`HoldsAt`): the pending bits and those of the word are the last bits sent, the
word is zero above `bi_valid_`, and both buffers are whole bytes; while a part was handed over, the word
holds less than a byte. A lemma for each operation says what it makes of any writer that holds a
sequence of bits: `SendHolds` appends the value, `FlushHolds` moves a byte or a word to the buffer,
`WindupHolds` appends zeros up to the next byte of the output (`AlignedExtends`, `PadIs`),
`CopyHolds` the stored block, `PrimeHolds` what two rounds take. `WriteKeeps` joins them to an
action, and `FlushPendingKeeps` is the one that hands bits over. These theorems have no hypothesis
but the ASSUMEs; that the writers find the buffer empty is the guard `Ready`, which
`PutsAreInOrder` proves of the compressor's control.

The proof modules of the decompressor prove, for every set of well-formed streams, sound or not, every
window, every longest match, every amount of input and of output space that a call may offer, every
flush value, with and without checksums, and over any number of resets:

| Theorem | Property |
|---|---|
| `Invariance` (`InflateStreamProofs`) | `IInv` |
| `TypesHold` | `TypeOK` |
| `ReservoirInBounds` | `InBounds` |
| `BitsAreTakenInOrder` | `BitsInOrder` |
| `OutputIsText` | `OutputInOrder` |
| `WindowIsHistory` | `WindowFollowsOutput` |
| `ChecksumCoversOutput` | `CheckCoversOutput` |
| `CallsUseTheirBuffers` | `StopsWhenStuck` |
| `KeepsThePromise` | `IsDecoder` |

The only assumptions are the two ASSUMEs of `InflateStream`: the streams are `WellFormed`, no match is
longer than `max_match`, and the constants have their types. `IInv` has a part for everything that one
mode leaves for the next:

- `ItemInv`: what the mode expects is what the stream has at `at`: a block header in `TYPE`, a table
  in `CODELENS`, a symbol of the block at hand in `LEN` to `MATCH`, and the end of the items after the
  last block. `InBlockOf` names the header of that block, whose tables are the ones in use; without it
  the widths that `LEN` and `DIST` ask for would not be those of the stream's codes.
- `RegisterInv`: `length_`, `offset_`, `extra_` and `have_`, which every mode uses for something else,
  hold what has been read of the header, the table or the symbol.
- `BitInv` is `BitsInOrder` without the places of the other modes; `TextInv` is `OutputInOrder` by
  index, with the part of a match or of a stored block that is done.
- `RangeInv`: the ranges of the call, what is left of them between calls, and that a pass of the fast
  path begins with six bytes of input and room for the longest match.
- `StopInv`: a call that is about to return can do no more. `SoundInv`: nothing is wrong with what has
  been passed, so that an end is an end of a valid stream.

The argument: `OutOfInputEffect` and `TakeEffect` say what a fill does to the place in the input, with
a reservoir of at most 32 bits; `Moves`, `Goes`, `HeadMoves` and `InnerMoves` say which of the parts a
step may disturb, `Stays`, `Starves`, `Fails` and `Spoils` are the steps that leave a mode early, and
there is one lemma for each mode (`KeepsHEAD` to `KeepsBAD`). For the fast path, `CodeRead`,
`ExtraRead` and `MatchRead` bound what a pass reads by 48 bits, which is why six bytes suffice
(`FastInput`), and `RewindEffect` that giving whole bytes back keeps the place. The text of a match is
that of `RepeatedText` (the output repeated, overlaps included), of `WindowText` (the window, whose last
byte is the last of the calls before), or of both in one pass (`FastCopies`). `LastOfLast` is why a
window that only ever sees the output of one call at a time holds the last bytes of all of them.

The refinement says of each step what it shows: it gives more of the text, ends the stream, refuses
it, or does not show (`Shown`). For a refusal the mode's lemma finds the item or the field that is not
sound (`BadItem`); a distance that reaches behind the window is one that is longer than the text so far
or than the window (`TooFar`), since the window holds all that there is room for. `GivesText`,
`EndsValid` and `RefusesBad` take that to the steps of `Decoder`.

`MatchFinderProofs` proves for every set of inputs, whatever a new window holds, every window and longest match with `max_dist > 0`, every hash
that satisfies `HashAssumption`, every set of levels whose chains are at least four strings long (with fewer,
a quarter of them is none, and the counter of `longest_match` begins by wrapping), and every cutting of the input into calls with any
flush and switch of level between them:

| Theorem | Property |
|---|---|
| `Invariance` | `IInv` |
| `ChainsComplete` | `ChainsHoldTheStrings` |
| `Longest` | `LongestFound` |
| `Symbols` | `SymbolsAreText` |

The parts of `IInv`:

- `DataInv`: the window from its start to `End` is the input from `base` on. Strings are compared by their
  places in the input (`TextHash(base + p)`), so that a slide, which moves the places in the window, changes
  nothing that is said of them.
- `DictInv`: a head leads to the newest string with its hash, and what `prev_` has in the slot of a string
  leads to the next older one (`Leads`), as long as no string has come in that is `w_size` further and has taken the slot
  (`DictOK`). That is more than `ChainsHoldTheStrings` says, which ends where a search does, and it is needed:
  strings out of reach come before those that a later slide clips. While a string's bytes are there, the
  running hash is ready for it (`Rolls`), which is why the two insertion loops must not skip a string
  unless the hash is taken afresh.
- `MatchInv`: what `f_slow` has put off repeats the input one byte before `strstart_`, and is no longer than
  what is ahead; the other functions find no match length left over from it.
- `InsertInv`, `StageInv`: strings wait in `insert_` only while there is too little of them, and at the end of a
  function there is nothing ahead.

The argument: `InsertKeeps` shows `DictOK` and `Rolls` for one string, `InsertedKeeps` for many, `SlidKeeps`
for the slide, and `FillDictionary` joins them for `fill_window`. For the search, `Progress` is the invariant
of its rounds: the strings that are newer than the one it has come to have all been compared, none of them is a
longer match (`NoneMissed`), and as many were visited as rounds were made (`Visited`), so that a search with
more rounds than strings ends by itself (`SearchFinds`). `SameThird` is the third byte. `StringGoesIn`,
`NearFinds`, `FastInserts` and `SlowInserts` are the parts of a pass, `SymbolFits` is the symbol it
tallies, and `StepKeeps` what all passes have in common. `ChainLeads` follows a chain from any string in
reach, by induction over its place in the window. `Inserted`, `longest_match` and `Chain` are recursive functions;
`InsertedExists`, `SearchExists` and `ChainsExist` show that the functions which they choose exist.

`BlocksProofs` proves for every set of inputs that satisfies `InputsAssumption`, of blocks of any number of
symbols, for both levels and strategies and for every choice among the codes of `CodesOver`:

| Theorem | Property |
|---|---|
| `Invariance` | `IInv` |
| `Decodes` | `BlockDecodes` |
| `BitsAreAnnounced` | `BitsAnnounced` |
| `ChoosesShortest` | `ShortestKind` |

`BlockDecodes` says that each mode finds what it is about to read, and does not say where in the block that
is. `IInv` does:

- `Typed`, `Counted`: what is tallied are symbols, and the frequencies are how often the codes of the symbols
  in `buf` occur, with one end of the block.
- `Decoding`: what was sent is a `Block`: the items of one of the three kinds for its symbols, with trees
  that have a code for each of them and for each form of run (`TreesFit`). `InMode` says for each mode
  at which item it is: with so many symbols read, at the first item of the next one, or at the second, third
  or fourth of a match; with so many lengths read, in a run, and at which of its codes (`StopsIn`), since
  a short run is sent as several codes that are read one by one.

The argument: the first half of the module puts each item in its place. A block is rows of items, one for a symbol and one for a
run, put after each other; `Place` is where a row begins, a sum of lengths, and a row that ends is followed by the
next. `ItemSet` is that a value fits the bits it is sent in (`SmallBits`, `BitsItem`). The tables of
`get_lut` are compared with the decompressor's own: a length or a distance is its base and its extra bits (so
that `LENEXT` and `DISTEXT` add up to what was tallied), `bl_order` is `order`, the fixed tables are the static
trees. `RunsAre` says that the runs of a tree, one after the other, are its lengths; `TwoTreesRead` that those
of both trees, sent as one, are the list that `CODELENS` reads (`RunsRead`), and that a run which says the length
before again comes after it (`RunReads`), so that the `Last(lens_)` it repeats is the right one. In the second half
there is a lemma for each mode and each form of run, `FlushBlockIs` and `SentIsBlock` for the block that is sent, and
`NextIInv` joins them.

`BitsAnnounced` is an equation of two sums over different things: `opt_len_` goes over the codes of a tree, a
frequency times the bits of each, and `Total` over the items of the block. `SwapSums` exchanges the sums (for each
symbol, for each code), `LiteralSum` and `DistanceSum` apply it to the symbols, since `Counted` says what the
frequencies count, and `RunsTotal` to the runs, a form at a time (`RunTotal`). `CodedTotals` adds the header and the
lengths of the code for lengths. `ShortestKind` follows: the bytes that are compared are those that each kind
would take (`FlushTotals`, `ChoiceIsLeast`).

A sum over a sequence would be an induction. `SumLemmas` states sums as `SumFunctionOnSet` over finite sets, proves from
the theorems of the library on finite sets what a sum is of a set with one element more, and takes every
induction over a finite set in the form of a set of naturals for which the fact holds. TLC has checked
`IInv` on small inputs.

`HuffmanTreeProofs` proves for every alphabet of at least three symbols, every limit of the lengths that leaves
room for a code, all frequencies, extra bits and static lengths, and whatever an earlier tree left in the arrays:

| Theorem | Property |
|---|---|
| `Invariance` | `IInv` |
| `Completeness` | `CompleteCode` |
| `Counting` | `LengthsCounted` |
| `TableInvariance` | `TableInv` |
| `Refusals` | `RefusedWhenWrong` |

The assumptions are `AlphabetAssumption` and `DescsAssumption` of `HuffmanTree` (that the symbols which may be
forced into a tree have no extra bits holds of all three alphabets of the code), `SameAlphabet` and
`ArrivedAssumption` of `HuffmanCode`, and those of `InflateTable`. The parts of `IInv`:

- `PlacesInv`, `NodesInv`: `heap_` is two things, the heap at its start and the nodes that left it at its end, and
  each node is in one of them, once. The k-th father is at `elems + k`, its sons are the k-th pair from the end
  (`FatherAt`).
- `OrderInv`: the heap is ordered, what left it is in the order of frequency, no node in the heap is less
  frequent than one that left it, and a father has the sum of its sons. That a father comes before its sons in `heap_`
  (`FathersInv`) is why `gen_bitlen` finds the length of the father when it comes to a son.
- `LengthsInv`: each length that was read is that of the father and one, or the limit, and a less frequent node
  has no shorter one.
- `CountsInv`, `OverflowInv`: see below. `CodeInv`: what the symbols have in the end.

The argument for the tree has three parts. The heap: `DownGoes` and `DownEnds` are the rounds of `pqdownheap`, `HeapMade` the
loop that builds it, and `CombineDoes` what two of them and a new father make of it. The tree: `FatherSum`
and `FathersInOrder` carry the order of the sons to the fathers, so that the lengths are in order
(`SetLengthReads`). The counts: with the weight 2^(limit - b) for a length of b, every leaf whose length is known counts
twice its weight, every son whose father's length is known counts the weight of that father once, and the sum is
2 * 2^limit and one more for each `overflow` (`WeightSum`, `SetLengthAdds`). Once all the lengths are read, there are no
such sons, and the leaves exceed a code by half of `overflow`. `MoveLeaf` takes one from that excess and two from `overflow`,
and since the leaves of the longest length are at least half of `overflow`, there is one to take and one
shorter leaf to move (`ShorterLeaf`). `overflow` is even, as a sum of two even numbers, so it is 0 in the end and never jumps
below it. `Recompute` then hands out the lengths by rank: the ranks of the leaves in `heap_` (`LengthAtIs`)
have as many of each length as `bl_count_` says (`LengthCount`), in the order of frequency.
For `LengthsCounted`, the codes that were forced into the tree were taken off `opt_len_` at one bit each, although a
forced code might be longer: it is not, as with two codes in all both have one bit (`TwoCodes`).

For the checks of `inflate_table`, `LeftIsFree` says what `left` is after n lengths: the strings of n bits that do not
start with a code. So it is below 0 for some length if and only if the codes take more strings than there are
(`OverSubscribedIs`), and what is left after the last length is what is missing. `TableInv` adds that
the lengths stay those that were given, and those of the tree once one is done; `BuiltIsRight` joins both sides,
so that none of `build_tree`'s lengths is refused (`SentIsAccepted`, a part of `RefusedWhenWrong`).

So the theorems on `Blocks`, which say "for every complete code", hold of the codes that `build_tree` makes.

Only model-checked: the liveness properties `FinishEnds`, `FlushEnds` and `Finishes` (temporal
reasoning about fairness and ENABLED is outside the prover); everything with `params` in mid-stream;
`ShortestCode`, which quantifies over all codes; and what `HuffmanCode` says of `inflate_table` (`TypeOK`, `TableDecodes`,
`CodesAgree`): that the room for the tables is enough is a fact about the numbers
852 and 592 that comes from an enumeration of all codes, and has no proof for every
value of the constants; that the entries decode each string would be an argument about reversed
numbers and sub-tables, which was not attempted.
The library's induction theorems take an operator as a parameter and cannot be used; where a proof needs induction over an index (that an earlier text of a stream is a
prefix of a later one), `InductionOnSet` states it of a set.

## 7. Where the code and its documentation disagree

Three runs find a statement of the documentation or of a comment violated; `PROJECT.json` quotes each.

- `trailer_twice`: zlib marks the trailer as written; the port lost that statement, so each further
  call with `Flush::finish` appends a trailer, and with one byte of space per call a zlib or gzip
  stream never ends.
- `params_early`: `params` ignores that its flush was incomplete.
- `gzip_check`: the stored CRC-32 of a gzip stream has its bytes swapped before it is compared, so
  with checksums every stream with a text is refused. The test of a gzip
  stream with a text (`test/inflate_stream.cpp:671`) compares the bytes in its buffer, not the result or the count.

Seen while modelling, without a run of their own:

- At level 0 with `rle` or `huffman` a block is stored whatever its length
  (`deflate_stream.ipp:1652`), and may exceed the room that `f_stored` leaves in the pending buffer (`:2036`).
- `fill_window` zeroes what follows the data so that the searches use no uninitialized bytes
  (`deflate_stream.ipp:1793`), but its slide copies the upper half of the window whole (`:1718`; zlib leaves out the
  free end). When the data ends where the window slides, as after 65274 bytes and a flush, the four bytes at the
  end, never written in a new buffer (`:835`), come to the end of the lower half, below
  `high_water_`, and a search may compare one of them: the exception in `SearchStaysInWindow`. The output does
  not depend on it, as the comment at `:1967` says: a match is cut to the lookahead.
- Near the end of its input the slow path of the decompressor waits for `lenbits_` bits for a code
  of fewer (`inflate_stream.ipp:549`). The trailer of zlib and gzip supplies them; a raw stream's last
  symbols come only with further input.
- Whole bytes of the call before may be in the reservoir when `inflate_fast` begins, and are given back
  (`inflate_stream.ipp:1336`): `next_in` is then before the buffer of the call, and `avail_in`
  larger than it was. A caller who keeps its input in one piece is not affected (`inflate`).
- `params` with `avail_out = 0` reports no error (`deflate_stream.ipp:342`).
- A switch from a lazy to a fast level searches with `prev_length_ = 0`, against the IN assertion
  of `longest_match` (`deflate_stream.ipp:1916`): the match is real, but need not be the longest.
- With `Strategy::fixed` a stored block is compared with the dynamic trees too, which are then
  not used (`deflate_stream.ipp:1652`, `:1676`): `ShortestKind` is not asked of it.
- "node is 0 or 1" (`deflate_stream.ipp:1112`): with one used symbol, 1, it is 2. Its extra bits
  are none all the same.
- The zeros after a name or comment are not in the header's checksum
  (`inflate_stream.ipp:249`, `:269`), so that a gzip header with a name and a checksum is refused; the
  length of a gzip stream is left unread when checksums are not asked for (`:710`).
- `prime` in mid-stream writes at `pending_` while `pending_out_` may not be at the start
  (`deflate_stream.ipp:774`): what is pending has to be handed over first.

## 8. Not modelled

Planned (step 7): the bytes of the compressor's header and trailer (`put_long`, `put_long_msb`,
`put_short_msb`), the loops of `easy.ipp`, and the checksums.

Left out of the compressor: `doUpperBound`, a function of the length only; `doDictionary`, which no
public function calls; `detect_data_type` and `zs.data_type`, which nothing reads; `doPending`,
which changes nothing; the memory that the symbols of a block share with its output (the assertion
at `deflate_stream.ipp:1413` depends on the sizes of codes of a full buffer of symbols); the header code
of `doWrite`, which cannot be reached; the values of bytes beyond the input
(`SearchStaysInWindow` says which of them may be undefined when they are compared, and the properties of `MatchFinder`
do not depend on them).

Of the decompressor: the extra field of a gzip header (it is
read through `head_`, which nothing sets), preset dictionaries (`havedict_` is never set),
`reset()` without arguments, which falls back to raw streams, input that is not gzip although the
format is (an assertion), and `zs.data_type`. That `kEnough` entries suffice for the code's own 286
and 30 symbols is out of TLC's reach: `TypeOK` of `HuffmanCode` shows it for six symbols and eight entries.

Error codes, messages and macros have no state; the vendored zlib is used by tests only. The models
meet at interfaces and are not one composition: `DeflateStream` has positions where `MatchFinder`
has bytes, `Blocks` has items where `BitWriter` has bits, and each states what it takes from the other.
