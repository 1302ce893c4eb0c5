--------------------------- MODULE SpeechProvider ---------------------------
(***************************************************************************)
(* A speech provider: recognition (voice/stt.py) or synthesis              *)
(* (voice/tts.py).  Callers queue for one lock; who holds it has a thread  *)
(* load the model once and use it.  A call that times out or is cancelled  *)
(* gives the lock back, but its thread goes on and shares the model with   *)
(* the next.  Recognition is called by a stream (voice/streaming_stt.py)   *)
(* that decodes what it has heard at the end, or at every hop as well.     *)
(***************************************************************************)
EXTENDS Naturals, Sequences, SequencesExt

CONSTANTS Callers, None,
          MaxHeard,     \* bound: chunks of one utterance
          Window        \* _min_window_bytes, in chunks of _hop_bytes

VARIABLES
    kind,       \* "stt" with a GPU, "stt cpu", or "tts"
    rolling,    \* does recognition decode at every hop?
    stream,     \* caller -> where it is and what it has heard (its buffer)
    queue,      \* who holds the lock (the first) and who waits for it
    thread,     \* caller -> where the thread of its last call is
    model,      \* _model, by the caller whose thread made it, or None
    whole,      \* whose models are ready: warmed up, or set up
    cudaFailed, \* _cuda_failed
    reported,   \* history: has a load been reported as failed?
    givenUp     \* history: has a call been given up while its thread went on?

speechVars == <<kind, rolling, stream, queue, thread, model, whole, cudaFailed, reported, givenUp>>

Pcs == {"listening", "window", "final", "ended", "failed", "left"}

TypeOK ==
    /\ kind \in {"stt", "stt cpu", "tts"} /\ {rolling, cudaFailed, reported, givenUp} \subseteq BOOLEAN
    /\ stream \in [Callers -> [pc : Pcs, heard : 0 .. MaxHeard]]
    /\ queue \in Seq(Callers) /\ IsInjective(queue)
    /\ thread \in [Callers -> {"none", "load", "session", "cuda", "warm up", "cpu",
                           "set up", "using"}]
    /\ model \in Callers \cup {None} /\ whole \subseteq Callers

Init ==
    /\ kind \in {"stt", "stt cpu", "tts"} /\ rolling \in BOOLEAN
    /\ stream = [c \in Callers |-> [pc |-> "listening", heard |-> 0]]
    /\ queue = <<>> /\ thread = [c \in Callers |-> "none"]
    /\ model = None /\ whole = {} /\ cudaFailed = FALSE /\ reported = FALSE /\ givenUp = FALSE

-----------------------------------------------------------------------------
(* stream_transcribe: what a caller does between its calls *)

Goes(c, pc) == stream' = [stream EXCEPT ![c].pc = pc]
Waits(c, pc) == Goes(c, pc) /\ queue' = Append(queue, c)

Hear(c) ==
    /\ stream[c].pc = "listening" /\ stream[c].heard < MaxHeard
    /\ IF rolling /\ kind # "tts" /\ stream[c].heard + 1 >= Window
       THEN /\ stream' = [stream EXCEPT ![c] = [pc |-> "window", heard |-> @.heard + 1]]
            /\ queue' = Append(queue, c)
       ELSE stream' = [stream EXCEPT ![c].heard = @ + 1] /\ UNCHANGED queue
    /\ UNCHANGED <<kind, rolling, thread, model, whole, cudaFailed, reported, givenUp>>

(* The sound is over: the last decoding, unless nothing was heard.          *)
Over(c) ==
    /\ stream[c].pc = "listening"
    /\ IF stream[c].heard = 0 /\ kind # "tts" THEN Goes(c, "ended") /\ UNCHANGED queue
       ELSE Waits(c, "final")
    /\ UNCHANGED <<kind, rolling, thread, model, whole, cudaFailed, reported, givenUp>>

-----------------------------------------------------------------------------
(* transcribe and synthesize *)

Holds(c) == queue # <<>> /\ Head(queue) = c
InCall(c) == stream[c].pc \in {"window", "final"}
Calling(c) == InCall(c) /\ Holds(c) /\ thread[c] # "none"

Acquire(c) ==
    /\ InCall(c) /\ Holds(c) /\ thread[c] = "none"
    /\ thread' = [thread EXCEPT ![c] = "load"]
    /\ UNCHANGED <<kind, rolling, stream, queue, model, whole, cudaFailed, reported, givenUp>>

(* wait_for runs out, after 40 or 30 seconds. *)
TimesOut(c) ==
    /\ Calling(c)
    /\ Goes(c, "failed") /\ queue' = Tail(queue) /\ givenUp' = TRUE
    /\ UNCHANGED <<kind, rolling, thread, model, whole, cudaFailed, reported>>

(* The caller is cancelled, or its token is. *)
Leave(c) ==
    /\ stream[c].pc = "listening" \/ InCall(c)
    /\ Goes(c, "left")
    /\ IF InCall(c) THEN \E i \in DOMAIN queue : queue[i] = c /\ queue' = RemoveAt(queue, i)
       ELSE UNCHANGED queue
    /\ givenUp' = (givenUp \/ Calling(c))
    /\ UNCHANGED <<kind, rolling, thread, model, whole, cudaFailed, reported>>

(* The thread of c ends; whoever still waits for it learns how.             *)
ThreadEnds(c, failure) ==
    /\ thread' = [thread EXCEPT ![c] = "none"]
    /\ IF Calling(c)
       THEN /\ queue' = Tail(queue)
            /\ Goes(c, IF failure THEN "failed"
                       ELSE IF stream[c].pc = "window" THEN "listening" ELSE "ended")
       ELSE UNCHANGED <<queue, stream>>

-----------------------------------------------------------------------------
(* The thread: _ensure_loaded, then _transcribe_sync or _synthesize_sync *)

GoesOn(c, pc) == thread' = [thread EXCEPT ![c] = pc] /\ UNCHANGED <<stream, queue>>

Load(c) ==
    /\ thread[c] = "load" /\ model = None
    /\ GoesOn(c, CASE kind = "stt" /\ ~cudaFailed           -> "cuda"
                   [] kind = "stt cpu" \/ cudaFailed         -> "cpu"
                   [] kind = "tts" -> "session")
    /\ UNCHANGED <<kind, rolling, model, whole, cudaFailed, reported, givenUp>>

AlreadyLoaded(c) ==
    /\ thread[c] = "load" /\ model # None
    /\ GoesOn(c, "using")
    /\ UNCHANGED <<kind, rolling, model, whole, cudaFailed, reported, givenUp>>

(* The library is missing, the model file cannot be opened, set up or read. *)
LoadFails(c) ==
    /\ thread[c] \in {"load", "session", "cpu", "set up"} /\ (thread[c] = "load" => model = None)
    /\ ThreadEnds(c, TRUE) /\ reported' = TRUE
    /\ UNCHANGED <<kind, rolling, model, whole, cudaFailed, givenUp>>

(* The model is there before it has been warmed up or set up. *)
HalfMade(c) ==
    /\ thread[c] \in {"cuda", "session"}
    /\ model' = c /\ GoesOn(c, IF thread[c] = "cuda" THEN "warm up" ELSE "set up")
    /\ UNCHANGED <<kind, rolling, whole, cudaFailed, reported, givenUp>>

WarmedUp(c) ==
    /\ thread[c] = "warm up"
    /\ whole' = whole \cup {c} /\ cudaFailed' = FALSE /\ GoesOn(c, "using")
    /\ UNCHANGED <<kind, rolling, model, reported, givenUp>>

CudaFails_GoesOn(c) ==
    /\ thread[c] \in {"cuda", "warm up"}
    /\ cudaFailed' = TRUE /\ GoesOn(c, IF thread[c] = "warm up" THEN "using" ELSE "cpu")
    /\ UNCHANGED <<kind, rolling, model, whole, reported, givenUp>>

CudaFails(c) ==
    /\ thread[c] \in {"cuda", "warm up"}
    /\ cudaFailed' = TRUE /\ GoesOn(c, "cpu")
    /\ UNCHANGED <<kind, rolling, model, whole, reported, givenUp>>

SetUp(c) ==
    /\ thread[c] = "set up"
    /\ whole' = whole \cup {c} /\ GoesOn(c, "using")
    /\ UNCHANGED <<kind, rolling, model, cudaFailed, reported, givenUp>>

(* Recognition on the CPU, or synthesis whose constructor does it all.      *)
MadeAtOnce(c) ==
    /\ thread[c] \in {"cpu", "session"}
    /\ model' = c /\ whole' = whole \cup {c} /\ GoesOn(c, "using")
    /\ UNCHANGED <<kind, rolling, cudaFailed, reported, givenUp>>

Used(c) ==
    /\ thread[c] = "using"
    /\ \E failure \in BOOLEAN : ThreadEnds(c, failure)
    /\ UNCHANGED <<kind, rolling, model, whole, cudaFailed, reported, givenUp>>

Next == \E c \in Callers :
    \/ Hear(c) \/ Over(c) \/ Acquire(c) \/ TimesOut(c) \/ Leave(c)
    \/ Load(c) \/ AlreadyLoaded(c) \/ LoadFails(c) \/ HalfMade(c) \/ WarmedUp(c)
    \/ CudaFails(c) \/ SetUp(c) \/ MadeAtOnce(c) \/ Used(c)

-----------------------------------------------------------------------------
(* The lock stands for the model as long as nobody gives up a call: one     *)
(* thread at a time, and what it uses is a model that was made, warmed up  *)
(* or set up, unless a caller has been told that a load failed.            *)
WholeModelsOneAtATime ==
    ~givenUp => /\ \A c, d \in Callers : thread[c] # "none" /\ thread[d] # "none" => c = d
                /\ (\E c \in Callers : thread[c] = "using") => model \in whole \/ reported
=============================================================================
