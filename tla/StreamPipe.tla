----------------------------- MODULE StreamPipe -----------------------------
(***************************************************************************)
(* What a compressor promises, whatever it does inside: input is accepted, *)
(* and later encoded, in order and without loss; once the stream is closed *)
(* everything accepted is encoded, and nothing more is accepted.           *)
(* The counts are bytes of input.                                          *)
(***************************************************************************)
EXTENDS Integers

VARIABLES accepted, encoded, closed

pipeVars == <<accepted, encoded, closed>>

New == accepted = 0 /\ encoded = 0 /\ closed = FALSE

Accept ==
    /\ ~closed
    /\ accepted' \in Nat /\ accepted' > accepted
    /\ UNCHANGED <<encoded, closed>>

Encode ==
    /\ ~closed
    /\ encoded' \in Nat /\ encoded < encoded' /\ encoded' <= accepted
    /\ UNCHANGED <<accepted, closed>>

\* The last block, which may encode what remains or be empty.
Close ==
    /\ ~closed
    /\ encoded' = accepted
    /\ closed' = TRUE
    /\ UNCHANGED accepted

Reset == accepted' = 0 /\ encoded' = 0 /\ closed' = FALSE

PipeNext == Accept \/ Encode \/ Close \/ Reset

Pipe == New /\ [][PipeNext]_pipeVars
=============================================================================
