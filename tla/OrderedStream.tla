---------------------------- MODULE OrderedStream ----------------------------
(***************************************************************************)
(* What a consumer of synthesized speech is promised (SynthesisChunk of    *)
(* voice/streaming_tts.py): chunks in the order of their sentences, each   *)
(* at most once, nothing after the one marked as the last, and nothing     *)
(* once the stream is over.                                                *)
(***************************************************************************)
EXTENDS Naturals, Sequences

CONSTANT Size

VARIABLES emitted, over

Chunk == [index : 1 .. Size, last : BOOLEAN]

Init == emitted = <<>> /\ over = FALSE

Follows(c) ==
    emitted # <<>> => LET before == emitted[Len(emitted)]
                      IN  before.index < c.index /\ ~before.last

Emit(c) ==
    /\ ~over /\ Follows(c)
    /\ emitted' = Append(emitted, c)
    /\ UNCHANGED over

End == over' = TRUE /\ UNCHANGED emitted

Next == (\E c \in Chunk : Emit(c)) \/ End

Spec == Init /\ [][Next]_<<emitted, over>>
=============================================================================
