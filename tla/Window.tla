------------------------------- MODULE Window -------------------------------
(***************************************************************************)
(* The window of the decompressor, include/boost/deflate/detail/window.hpp: *)
(* a ring buffer that keeps the output of earlier calls for the matches of *)
(* later ones.  A byte is represented by its number in the order of all    *)
(* writes, so that a byte of an earlier life of the window can be told     *)
(* from one of this life.                                                  *)
(***************************************************************************)
EXTENDS Integers

CONSTANTS
    Capacities,   \* the powers 2^bits that reset may set
    WriteSizes,   \* bytes of one write: the output of one call of inflate
    MaxTotal      \* bound: bytes written in a behaviour

\* doReset admits 8 to 15 bits, so a capacity fits its 16 bits; done() writes no empty output.
ASSUME WindowAssumption ==
    /\ \A c \in Capacities : c \in Nat /\ 1 <= c /\ c <= 65535
    /\ WriteSizes \subseteq Nat \ {0}
    /\ MaxTotal \in Nat

VARIABLES
    p_,           \* the buffer: a function on 0 .. capacity_-1, or NoBuffer
    i_,           \* where the next byte goes
    size_,        \* bytes that may be read
    capacity_,
    \* Variables that are not in the code:
    start,        \* number of the first byte written after the last reset
    total,        \* bytes written so far
    got           \* the bytes of the last read

vars == <<p_, i_, size_, capacity_, start, total, got>>

NoBuffer == << >>
Zero == -1        \* the value make_unique gives each byte

Init ==
    /\ capacity_ \in Capacities
    /\ p_ = NoBuffer /\ i_ = 0 /\ size_ = 0
    /\ start = 0 /\ total = 0 /\ got = << >>

\* The n bytes numbered from `from' on are copied to index `to' of the buffer p.
memcpy(p, to, from, n) ==
    [j \in DOMAIN p |-> IF to <= j /\ j < to + n THEN from + (j - to) ELSE p[j]]

reset_keeps_size(c) ==
    /\ IF c # capacity_ THEN p_' = NoBuffer /\ capacity_' = c
                        ELSE UNCHANGED <<p_, capacity_>>
    /\ i_' = 0 /\ size_' = (IF c # capacity_ THEN 0 ELSE size_) /\ start' = total
    /\ UNCHANGED <<total, got>>

\* The old bytes stay in the buffer if the capacity does.
reset(c) ==
    /\ IF c # capacity_ THEN p_' = NoBuffer /\ capacity_' = c
                        ELSE UNCHANGED <<p_, capacity_>>
    /\ i_' = 0 /\ size_' = 0 /\ start' = total
    /\ UNCHANGED <<total, got>>

\* The copy of n bytes that ends at the end of the buffer, or goes on at its start.
wrapped_at_n(p, n) ==
    LET m == capacity_ - i_
    IN  memcpy(memcpy(p, i_, total, m), 0, total, n - m)

wrapped(p, n) ==
    LET m == capacity_ - i_
    IN  memcpy(memcpy(p, i_, total, m), 0, total + m, n - m)

next_index(n) == (i_ + n) % capacity_

write(n) ==
    LET p == IF p_ = NoBuffer THEN [j \in 0 .. capacity_ - 1 |-> Zero] ELSE p_
    IN  /\ \/ /\ n >= capacity_
              /\ i_' = 0 /\ size_' = capacity_
              /\ p_' = memcpy(p, 0, total + (n - capacity_), capacity_)
           \/ /\ n < capacity_ /\ i_ + n <= capacity_
              /\ p_' = memcpy(p, i_, total, n)
              /\ size_' = IF size_ >= capacity_ - n THEN capacity_ ELSE size_ + n
              /\ i_' = next_index(n)
           \/ /\ n < capacity_ /\ i_ + n > capacity_
              /\ p_' = wrapped(p, n)
              /\ i_' = n - (capacity_ - i_)
              /\ size_' = capacity_
        /\ total' = total + n
        /\ UNCHANGED <<capacity_, start, got>>

(***************************************************************************)
(* A read of the n bytes from `pos' bytes back.  Both callers, MATCH in    *)
(* doWrite and inflate_fast, have refused pos > size_ and clamped n to pos. *)
(***************************************************************************)
read(pos, n) ==
    LET i == (i_ - pos + capacity_) % capacity_
        m == capacity_ - i
    IN  /\ pos <= size_ /\ n <= pos
        /\ got' = [k \in 0 .. n - 1 |->
                     IF i_ >= size_ THEN p_[i_ - pos + k]
                     ELSE IF k < m THEN p_[i + k] ELSE p_[k - m]]
        /\ UNCHANGED <<p_, i_, size_, capacity_, start, total>>

Next ==
    \/ \E c \in Capacities : reset(c)
    \/ \E n \in WriteSizes : total + n <= MaxTotal /\ write(n)
    \/ \E pos \in 1 .. size_ : \E n \in 1 .. pos : read(pos, n)

Spec == Init /\ [][Next]_vars

-----------------------------------------------------------------------------
(* Properties *)

(***************************************************************************)
(* Every variable has its type: the indices are in the buffer, and the     *)
(* buffer has the size that its users take it to have.                     *)
(***************************************************************************)
TypeOK ==
    /\ capacity_ \in Capacities
    /\ p_ = NoBuffer \/ p_ \in [0 .. capacity_ - 1 -> Int]
    /\ i_ \in 0 .. capacity_ - 1
    /\ size_ \in 0 .. capacity_
    /\ start \in Nat /\ total \in Nat /\ start <= total

\* The index of the byte that was written b bytes ago, when the next one goes to i.
Index(i, capacity, b) == IF b <= i THEN i - b ELSE i - b + capacity

(***************************************************************************)
(* The last size_ bytes are in the buffer, each in its place; they are all *)
(* that were written since the reset, or as many as fit; and the bytes are *)
(* contiguous, as read() takes them to be, until the buffer is full.       *)
(***************************************************************************)
Contents ==
    /\ size_ = IF total - start <= capacity_ THEN total - start ELSE capacity_
    /\ size_ < capacity_ => i_ = size_
    /\ size_ > 0 => p_ # NoBuffer
    /\ \A b \in 1 .. size_ : p_[Index(i_, capacity_, b)] = total - b

(***************************************************************************)
(* The ring buffer keeps the promise of History: however its writes wrap,  *)
(* fill it exactly or exceed it, and after a reset that keeps the buffer,  *)
(* a read gives the bytes written `pos' bytes ago, never older ones.       *)
(***************************************************************************)
H == INSTANCE History WITH capacity <- capacity_

IsHistory == H!History
=============================================================================
