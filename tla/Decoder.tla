------------------------------ MODULE Decoder ------------------------------
(***************************************************************************)
(* What a decompressor promises, whatever pieces the input comes in and    *)
(* the output goes out in: it hands over the text of the stream from its   *)
(* beginning, says "ended" when it has handed over all of it and the       *)
(* stream is valid, and fails only if the stream is not sound.  Both are   *)
(* final.  The bytes of the call that fails are not counted as given.      *)
(***************************************************************************)
EXTENDS Integers, Sequences

VARIABLES
    text,      \* what the stream stands for
    sound,     \* it must be accepted
    valid,     \* it may be accepted
    given,     \* bytes handed over
    status     \* "open", "ended" or "failed"

decoderVars == <<text, sound, valid, given, status>>

Prefix(s, t) == Len(s) <= Len(t) /\ s = SubSeq(t, 1, Len(s))

Start == given = << >> /\ status = "open"

Give ==
    /\ status = "open" /\ status' = "open"
    /\ Prefix(given, given') /\ Prefix(given', text)
    /\ UNCHANGED <<text, sound, valid>>

End ==
    /\ status = "open" /\ status' = "ended"
    /\ valid /\ given = text
    /\ UNCHANGED <<text, sound, valid, given>>

Fail ==
    /\ status = "open" /\ status' = "failed"
    /\ ~sound
    /\ Prefix(given', given)
    /\ UNCHANGED <<text, sound, valid>>

Restart == given' = << >> /\ status' = "open"

Decodes == Start /\ [][Give \/ End \/ Fail \/ Restart]_decoderVars
=============================================================================
