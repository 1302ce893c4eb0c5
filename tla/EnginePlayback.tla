--------------------------- MODULE EnginePlayback ---------------------------
(***************************************************************************)
(* Playback in the engine (audio/manager.rs, audio/playback.rs):           *)
(* concurrent play_buffer requests, stop_playback, and for every opened    *)
(* stream the bridge task that resamples what it receives and the device   *)
(* callback that plays it.  A sound is Length samples, the resampler takes *)
(* Chunk of them at a time and the bridge keeps the rest.                  *)
(***************************************************************************)
EXTENDS Naturals, Sequences, SequencesExt

CONSTANTS Callers,      \* requests to play, each with a sound of its own
          NoStream,
          Length,       \* bound: samples of a sound
          Chunk,        \* input_frames_next()
          Queue,        \* capacity of the channel to the bridge (64)
          MaxStops      \* bound: requests to stop

VARIABLES
    current,    \* PlaybackState: the stream whose sender, token and controller it holds
    calls,      \* play_buffer: where each caller is, and the stream it will send to
    streams,    \* per stream, named after its opener: see Closed
    heard,      \* the samples the device has played
    hushed,     \* where a stop found each request: "no" stop, "under way" or "accepted"
    stops

playVars == <<current, calls, streams, heard, hushed, stops>>

(* device: not dropped with its controller; bridge: the task runs and holds *)
(* the receiver; channel: sounds sent; input, samples: what the bridge has  *)
(* kept for the resampler, and queued for the device.                      *)
Closed == [device |-> FALSE, bridge |-> FALSE, cancelled |-> FALSE,
           channel |-> <<>>, input |-> <<>>, samples |-> <<>>]

Init ==
    /\ current = NoStream
    /\ calls = [c \in Callers |-> [pc |-> "idle", to |-> NoStream]]
    /\ streams = [c \in Callers |-> Closed]
    /\ heard = <<>> /\ hushed = [c \in Callers |-> "no"] /\ stops = 0

Goes(c, pc) == calls' = [calls EXCEPT ![c].pc = pc]
Sound(c) == [i \in 1 .. Length |-> <<c, i>>]

-----------------------------------------------------------------------------
(* play_buffer *)

(* is_active, under the lock and then not. *)
Play(c) ==
    /\ calls[c].pc = "idle"
    /\ Goes(c, IF current # NoStream THEN "clone" ELSE "open")
    /\ UNCHANGED <<current, streams, heard, hushed, stops>>

(* start_live in a blocking thread: the device plays and the bridge waits,  *)
(* unless its resampler cannot be made.                                    *)
Opens(c) ==
    /\ calls[c].pc = "open"
    /\ \E works \in BOOLEAN :
          streams' = [streams EXCEPT ![c] = [Closed EXCEPT !.device = TRUE, !.bridge = works]]
    /\ Goes(c, "install")
    /\ UNCHANGED <<current, heard, hushed, stops>>

OpenFails(c) ==
    /\ calls[c].pc = "open"
    /\ Goes(c, "error")
    /\ UNCHANGED <<current, streams, heard, hushed, stops>>

(* The stream another request opened meanwhile is kept; this one is dropped. *)
Install_Unchecked(c) ==
    /\ calls[c].pc = "install"
    /\ current' = c
    /\ streams' = [s \in Callers |-> IF s = current THEN [streams[s] EXCEPT !.device = FALSE]
                                     ELSE streams[s]]
    /\ Goes(c, "clone")
    /\ UNCHANGED <<heard, hushed, stops>>

Install(c) ==
    /\ calls[c].pc = "install"
    /\ IF current = NoStream
       THEN current' = c /\ UNCHANGED streams
       ELSE streams' = [streams EXCEPT ![c] = Closed] /\ UNCHANGED current
    /\ Goes(c, "clone")
    /\ UNCHANGED <<heard, hushed, stops>>

(* Without a sender nothing is sent, and the request still reports success. *)
CloneSender(c) ==
    /\ calls[c].pc = "clone"
    /\ calls' = [calls EXCEPT ![c] = IF current = NoStream THEN [pc |-> "ok", to |-> NoStream]
                                     ELSE [pc |-> "send", to |-> current]]
    /\ UNCHANGED <<current, streams, heard, hushed, stops>>

Send(c) ==
    LET s == calls[c].to
    IN  /\ calls[c].pc = "send"
        /\ streams[s].bridge /\ Len(streams[s].channel) < Queue
        /\ streams' = [streams EXCEPT ![s].channel = Append(@, c)]
        /\ Goes(c, "ok")
        /\ UNCHANGED <<current, heard, hushed, stops>>

(* The bridge has gone, and the receiver with it. *)
SendFails(c) ==
    /\ calls[c].pc = "send" /\ ~streams[calls[c].to].bridge
    /\ Goes(c, "error")
    /\ UNCHANGED <<current, streams, heard, hushed, stops>>

(* The dispatcher drops a request that takes too long; a stream still being *)
(* opened for it is closed again.                                          *)
TimesOut(c) ==
    /\ calls[c].pc \in {"open", "send"}
    /\ Goes(c, "error")
    /\ UNCHANGED <<current, streams, heard, hushed, stops>>

-----------------------------------------------------------------------------
(* stop_playback *)

Hush ==
    [c \in Callers |-> CASE calls[c].pc = "idle" -> hushed[c]
                         [] calls[c].pc = "ok"   -> "accepted"
                         [] OTHER                -> "under way"]

Stop ==
    /\ stops < MaxStops
    /\ stops' = stops + 1
    /\ hushed' = Hush
    /\ IF current = NoStream THEN UNCHANGED streams
       ELSE streams' = [streams EXCEPT ![current].cancelled = TRUE, ![current].device = FALSE]
    /\ current' = NoStream
    /\ UNCHANGED <<calls, heard>>

-----------------------------------------------------------------------------
(* The bridge task and the device callback of a stream *)

(* Whole chunks go to the device queue, the rest waits for the next sound.  *)
(* A message may still win against the cancellation in select!.            *)
Bridge(s) ==
    /\ streams[s].bridge /\ streams[s].channel # <<>>
    /\ LET input == streams[s].input \o Sound(Head(streams[s].channel))
           whole == Len(input) - (Len(input) % Chunk)
       IN  streams' = [streams EXCEPT ![s].channel = Tail(@),
                                      ![s].input = SubSeq(input, whole + 1, Len(input)),
                                      ![s].samples = @ \o SubSeq(input, 1, whole)]
    /\ UNCHANGED <<current, calls, heard, hushed, stops>>

BridgeCancelled(s) ==
    /\ streams[s].bridge /\ streams[s].cancelled
    /\ streams' = [streams EXCEPT ![s].bridge = FALSE, ![s].channel = <<>>]
    /\ UNCHANGED <<current, calls, heard, hushed, stops>>

(* The callback takes what it needs from the front of the queue. *)
Device(s) ==
    /\ streams[s].device /\ streams[s].samples # <<>>
    /\ heard' = Append(heard, Head(streams[s].samples))
    /\ streams' = [streams EXCEPT ![s].samples = Tail(@)]
    /\ UNCHANGED <<current, calls, hushed, stops>>

Next ==
    \/ Stop
    \/ \E c \in Callers : Play(c) \/ Opens(c) \/ OpenFails(c) \/ Install(c) \/ CloneSender(c)
                            \/ Send(c) \/ SendFails(c) \/ TimesOut(c)
    \/ \E s \in Callers : Bridge(s) \/ BridgeCancelled(s) \/ Device(s)

-----------------------------------------------------------------------------
(* What the bridge has taken of the current stream's sounds, played or on   *)
(* its way to the loudspeaker, and the sounds that wait for the bridge.     *)
Taken == heard \o (IF current = NoStream THEN <<>>
                   ELSE streams[current].samples \o streams[current].input)
Waiting == IF current = NoStream THEN <<>> ELSE streams[current].channel

Absent(c, samples) == \A i \in DOMAIN samples : samples[i][1] # c

Whole(c, samples) ==
    \E k \in 0 .. Len(samples) - Length : \A i \in DOMAIN samples :
       IF i \in k + 1 .. k + Length THEN samples[i] = Sound(c)[i - k] ELSE samples[i][1] # c

(* play_buffer answered Ok and nobody asked for silence since the request   *)
(* came: every sample of the sound has been played or is on its way, once, *)
(* in order and with nothing in between, or the whole of it still waits,   *)
(* whichever stream the concurrent requests opened and dropped.            *)
AcceptedIsNotLost ==
    \A c \in Callers :
       calls[c].pc = "ok" /\ hushed[c] = "no" =>
          \/ Whole(c, Taken) /\ \A j \in DOMAIN Waiting : Waiting[j] # c
          \/ /\ Absent(c, Taken)
             /\ \E i \in DOMAIN Waiting : \A j \in DOMAIN Waiting : Waiting[j] = c <=> j = i

(* After stop_playback nothing is heard of a sound that had been accepted   *)
(* before it (barge-in), whatever its stream had queued.                   *)
StopSilences ==
    [][heard' # heard => hushed[Last(heard')[1]] # "accepted"]_playVars
=============================================================================
