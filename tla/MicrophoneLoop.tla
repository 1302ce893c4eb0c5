--------------------------- MODULE MicrophoneLoop ---------------------------
(***************************************************************************)
(* voice/microphone.py: frames from the engine become the events of an     *)
(* utterance (a start, its frames, an end) for a listener.  A poll hands   *)
(* over several frames; they are processed in bursts, and between bursts   *)
(* (and polls) the rest of the program gates, mutes, pauses or stops the   *)
(* loop.  A frame is speech or not and loud or not; of an utterance only   *)
(* its number of frames is kept.                                           *)
(***************************************************************************)
EXTENDS Naturals

CONSTANTS Onset,        \* min_speech_frames
          PreRoll,      \* pre_roll_frames
          Silence,      \* silence_duration_ms, in frames
          Shortest,     \* min_speech_ms, in frames
          Longest,      \* max_utterance_seconds, in frames
          Sustained,    \* barge_in_min_duration_ms, in frames
          Burst,        \* frames between two yields of push_samples
          MaxPoll,      \* bound: frames of one poll
          MaxFrames     \* bound: frames processed in all

VARIABLES
    switch,     \* running, muted, paused, gated
    polling,    \* "off", "poll", "burst" (nothing else runs), "yield", "stopping"
    ingest,     \* frames of _sample_buffer
    burst,      \* frames processed since the last yield
    speech,     \* the utterance being recorded
    loud,       \* frames in a row that are loud enough to barge in
    listener,   \* what a subscriber knows: is an utterance open, its frames so far, all in order?
    frames      \* frames processed so far (bound)

vars == <<switch, polling, ingest, burst, speech, loud, listener, frames>>

NoSpeech == [on |-> FALSE, onset |-> 0, preRoll |-> 0, frames |-> 0, silence |-> 0]

TypeOK ==
    /\ switch \in [running : BOOLEAN, muted : BOOLEAN, paused : BOOLEAN, gated : BOOLEAN]
    /\ polling \in {"off", "poll", "burst", "yield", "stopping"}
    /\ ingest \in 0 .. MaxFrames * MaxPoll /\ burst \in 0 .. Burst
    /\ speech \in [on : BOOLEAN, onset : 0 .. Onset, preRoll : 0 .. PreRoll,
                   frames : 0 .. Longest + PreRoll + Onset, silence : 0 .. Silence]
    /\ loud \in 0 .. Sustained
    /\ listener \in [open : BOOLEAN, frames : Nat, ordered : BOOLEAN, closed : BOOLEAN]

Init ==
    /\ switch = [running |-> FALSE, muted |-> FALSE, paused |-> FALSE, gated |-> FALSE]
    /\ polling = "off"
    /\ ingest = 0 /\ burst = 0 /\ speech = NoSpeech /\ loud = 0
    /\ listener = [open |-> FALSE, frames |-> 0, ordered |-> TRUE, closed |-> FALSE]
    /\ frames = 0

Idle == polling \in {"off", "poll", "yield", "stopping"}

(* What a listener makes of an event, and of several frames in a row.  The  *)
(* subscription's queue keeps the order, so it is taken to read at once; a *)
(* stopped loop has ended it.                                              *)
Heard(l, event) ==
    IF l.closed THEN l
    ELSE CASE event.is = "start"  -> [l EXCEPT !.open = TRUE, !.frames = 0]
           [] event.is = "frames" -> [l EXCEPT !.frames = @ + event.many,
                                               !.ordered = @ /\ l.open /\ event.n = l.frames]
           [] event.is = "end"    -> [l EXCEPT !.open = FALSE,
                                               !.ordered = @ /\ l.open /\ event.n = l.frames]
           [] event.is = "close"  -> [l EXCEPT !.closed = TRUE]

Event(is, n, many) == [is |-> is, n |-> n, many |-> many]
Started == Event("start", 0, 0)
Frames(n, many) == Event("frames", n, many)
Ended(n) == Event("end", n, 0)
Closed == Event("close", 0, 0)

(* _reset_turn_state *)
ResetTurn == speech' = NoSpeech /\ loud' = 0

(* stop() and mute() end the utterance as far as it was recorded. *)
CutOff == IF speech.on /\ speech.frames > 0 THEN Heard(listener, Ended(speech.frames))
          ELSE listener

-----------------------------------------------------------------------------
(* start, stop, mute, unmute, pause, resume, gate, ungate *)

Start ==
    /\ polling = "off" /\ ~switch.running
    /\ switch' = [switch EXCEPT !.running = TRUE] /\ polling' = "poll"
    /\ UNCHANGED <<ingest, burst, speech, loud, listener, frames>>

(* The poll loop is cancelled where it waits; the engine is told next. *)
Stop ==
    /\ switch.running /\ polling \in {"poll", "yield"}
    /\ switch' = [switch EXCEPT !.running = FALSE] /\ polling' = "stopping"
    /\ UNCHANGED <<ingest, burst, speech, loud, listener, frames>>

Stopped ==
    /\ polling = "stopping"
    /\ polling' = "off"
    /\ listener' = Heard(CutOff, Closed)
    /\ ResetTurn /\ ingest' = 0 /\ burst' = 0
    /\ UNCHANGED <<switch, frames>>

Mute_KeepsTurn ==
    /\ Idle /\ ~switch.muted
    /\ switch' = [switch EXCEPT !.muted = TRUE]
    /\ listener' = CutOff
    /\ ingest' = 0
    /\ UNCHANGED <<speech, loud, polling, burst, frames>>

Mute ==
    /\ Idle /\ ~switch.muted
    /\ switch' = [switch EXCEPT !.muted = TRUE]
    /\ listener' = CutOff
    /\ ResetTurn /\ ingest' = 0
    /\ UNCHANGED <<polling, burst, frames>>

Unmute ==
    /\ Idle /\ switch.muted
    /\ switch' = [switch EXCEPT !.muted = FALSE]
    /\ ResetTurn /\ ingest' = 0
    /\ UNCHANGED <<polling, burst, listener, frames>>

Gate(paused, gated) ==
    /\ Idle
    /\ switch' = [switch EXCEPT !.paused = paused, !.gated = gated]
    /\ UNCHANGED <<polling, ingest, burst, speech, loud, listener, frames>>

(* Neither touches the utterance: one that is open goes on after the gap.   *)
Pauses == Gate(TRUE, TRUE) \/ Gate(FALSE, FALSE)
Gates  == Gate(switch.paused, TRUE) \/ Gate(switch.paused, FALSE)

(* A new subscription; a stopped loop closes it at once. *)
Subscribe ==
    /\ Idle /\ listener.closed /\ switch.running /\ ~speech.on
    /\ listener' = [open |-> FALSE, frames |-> 0, ordered |-> TRUE, closed |-> FALSE]
    /\ UNCHANGED <<switch, polling, ingest, burst, speech, loud, frames>>

-----------------------------------------------------------------------------
(* _poll_engine_loop and push_samples *)

Poll ==
    /\ polling = "poll" /\ ~switch.paused /\ ~switch.muted /\ ~switch.gated
    /\ \E n \in 1 .. MaxPoll :
          /\ ingest' = ingest + n
          /\ polling' = "burst" /\ burst' = 0
          /\ frames + ingest' <= MaxFrames
    /\ UNCHANGED <<switch, speech, loud, listener, frames>>

Resumed ==
    /\ polling = "yield"
    /\ burst' = 0
    /\ polling' = IF ingest > 0 THEN "burst" ELSE "poll"
    /\ UNCHANGED <<switch, ingest, speech, loud, listener, frames>>

(* Frames taken from the buffer; push_samples yields after each burst. *)
Taken ==
    /\ polling = "burst" /\ ingest > 0
    /\ ingest' = ingest - 1 /\ frames' = frames + 1
    /\ burst' = burst + 1
    /\ polling' = CASE burst + 1 = Burst -> "yield"
                    [] burst + 1 # Burst /\ ingest = 1 -> "poll"
                    [] OTHER -> "burst"

(* _process_frame past the gate: before an utterance, at its onset, and in  *)
(* it.  "counted" is what is left of the count of loud frames.             *)
Lowest(a, b) == IF a < b THEN a ELSE b

Quiet(counted) ==
    /\ speech' = [speech EXCEPT !.onset = 0, !.preRoll = Lowest(PreRoll, @ + 1)]
    /\ loud' = counted
    /\ UNCHANGED listener

(* A voice is taken for speech after Onset frames in a row; the utterance   *)
(* begins with the silence before them.  All of it is sent at once.        *)
Voice(counted) ==
    LET begun == speech.onset + 1
        n == speech.preRoll + begun
    IN  /\ IF begun < Onset
           THEN speech' = [speech EXCEPT !.onset = begun] /\ UNCHANGED listener
           ELSE /\ speech' = [speech EXCEPT !.on = TRUE, !.onset = begun, !.preRoll = 0,
                                            !.frames = n, !.silence = 0]
                /\ listener' = Heard(Heard(listener, Started), Frames(0, n))
        /\ loud' = counted

(* A segment that is too short is dropped although its start was sent. *)
Recorded(voiced, counted) ==
    LET silence == IF voiced THEN 0 ELSE speech.silence + 1
        n == speech.frames + 1
        sent == Heard(listener, Frames(speech.frames, 1))
    IN  IF silence >= Silence \/ n >= Longest
        THEN /\ ResetTurn
             /\ listener' = IF n < Shortest THEN sent ELSE Heard(sent, Ended(n))
        ELSE /\ speech' = [speech EXCEPT !.frames = n, !.silence = silence]
             /\ listener' = sent
             /\ loud' = counted

Processed(counted) ==
    \/ ~speech.on /\ (Quiet(counted) \/ Voice(counted))
    \/ speech.on /\ \E voiced \in BOOLEAN : Recorded(voiced, counted)

ProcessFrame ==
    /\ Taken /\ ~switch.gated
    /\ Processed(loud)
    /\ UNCHANGED switch

(* Gated in the middle of a push: only sound loud enough for long enough    *)
(* opens the gate, and its last frame is processed.                        *)
IgnoredWhileGated ==
    /\ Taken /\ switch.gated
    /\ loud' = 0
    /\ UNCHANGED <<switch, speech, listener>>

LoudWhileGated ==
    /\ Taken /\ switch.gated
    /\ IF loud + 1 < Sustained
       THEN loud' = loud + 1 /\ UNCHANGED <<switch, speech, listener>>
       ELSE switch' = [switch EXCEPT !.gated = FALSE] /\ Processed(0)

Next ==
    \/ Start \/ Stop \/ Stopped \/ Mute \/ Unmute \/ Pauses \/ Gates \/ Subscribe
    \/ Poll \/ Resumed
    \/ ProcessFrame \/ IgnoredWhileGated \/ LoudWhileGated

Spec == Init /\ [][Next]_vars

-----------------------------------------------------------------------------
(* A listener hears whole utterances: every frame and every end belongs to  *)
(* the utterance whose start it heard last, frames come in order without a *)
(* gap, and the end counts them all, through gates, mutes, pauses, dropped *)
(* segments and a stop in the middle (_dispatch_event, _process_frame).    *)
UtterancesAreWhole == listener.ordered

(* No utterance outgrows the limit, however its pre-roll, its onset and the *)
(* gates in between come together (max_utterance_seconds).                 *)
UtterancesAreBounded ==
    speech.on => speech.frames < Longest \/ speech.frames <= PreRoll + Onset
=============================================================================
