---------------------------- MODULE StreamingTTS ----------------------------
(***************************************************************************)
(* One stream of voice/streaming_tts.py (IncrementalTTSStreamer): a        *)
(* producer takes sentences and starts a bounded number of synthesis       *)
(* tasks, a sequencer awaits them in order, the caller gets each chunk and *)
(* a player sends it to the engine.  A synthesis ends only when it is      *)
(* known whether its sentence is the last.                                 *)
(***************************************************************************)
EXTENDS Naturals, Sequences, FiniteSets

CONSTANTS Size,             \* sentences the source may give
          MaxConcurrent     \* syntheses at a time

Sentences == 1 .. Size
EOF == 0                    \* ends the queues; what the caller sees of a cancellation, too

VARIABLES
    fed, producer,      \* sentences taken; "fetch", "acquire", "ended"
    permits,            \* of the semaphore
    synth, last,        \* each sentence's task; whether it is known to be the last
    slots, sequencer,   \* tasks in order; the sentence it awaits, or EOF, or "ended"
    out, caller,        \* "get", "drain" or "ended"
    delivered,
    playQueue, player,  \* "get", "play", "tail" or "ended"
    played,
    completed,          \* how often the completion was called
    token               \* "none", "live", "cancelled", "seen" by the watcher

source == <<fed, producer>>
tasks == <<permits, synth, last>>
vars == <<source, tasks, slots, sequencer, out, caller, delivered, playQueue, player,
          played, completed, token>>

Chunk == [index : Sentences, last : BOOLEAN]

TypeOK ==
    /\ fed \in 0 .. Size /\ producer \in {"fetch", "acquire", "ended"}
    /\ permits \in 0 .. MaxConcurrent
    /\ synth \in [Sentences -> {"none", "synthesizing", "waiting", "failed", "done", "dead"}]
    /\ last \in [Sentences -> {"unknown", "last", "more"}]
    /\ slots \in Seq(Sentences \cup {EOF})
    /\ sequencer \in [pc : {"get", "await", "ended"}, task : Sentences \cup {EOF}]
    /\ caller \in {"get", "drain", "ended"} /\ player \in {"get", "play", "tail", "ended"}
    /\ delivered \in Seq(Chunk) /\ played \in Seq(Chunk)
    /\ completed \in Nat
    /\ token \in {"none", "live", "cancelled", "seen"}

Init ==
    /\ fed = 0 /\ producer = "fetch"
    /\ permits = MaxConcurrent
    /\ synth = [i \in Sentences |-> "none"] /\ last = [i \in Sentences |-> "unknown"]
    /\ slots = <<>> /\ sequencer = [pc |-> "get", task |-> EOF]
    /\ out = <<>> /\ caller = "get" /\ delivered = <<>>
    /\ playQueue = <<>> /\ player = "get" /\ played = <<>>
    /\ completed = 0
    /\ token \in {"none", "live"}

Cancelled == token \in {"cancelled", "seen"}
EndMark == [index |-> EOF, last |-> TRUE]

-----------------------------------------------------------------------------
(* _produce_sentences *)

(* The sentence before is known not to be the last.  The token was read     *)
(* before the wait: a sentence that comes after a cancellation counts.     *)
Fetch_MarksLast ==
    /\ producer = "fetch" /\ fed < Size
    /\ fed' = fed + 1 /\ producer' = "acquire"
    /\ last' = [i \in Sentences |-> IF i = fed THEN "last" ELSE last[i]]
    /\ UNCHANGED <<permits, synth, slots, sequencer, out, caller, delivered, playQueue,
                   player, played, completed, token>>

Fetch ==
    /\ producer = "fetch" /\ fed < Size
    /\ fed' = fed + 1 /\ producer' = "acquire"
    /\ last' = [i \in Sentences |-> IF i = fed THEN "more" ELSE last[i]]
    /\ UNCHANGED <<permits, synth, slots, sequencer, out, caller, delivered, playQueue,
                   player, played, completed, token>>

(* However the producer ends, the last sentence it took learns of it (the   *)
(* finally).                                                               *)
ProducerEnds_SilentIfCancelled(before) ==
    /\ producer' = "ended"
    /\ last' = [i \in Sentences |-> IF i = fed /\ last[i] = "unknown" /\ ~Cancelled THEN "last"
                                   ELSE last[i]]
    /\ slots' = Append(before, EOF)

ProducerEnds(before) ==
    /\ producer' = "ended"
    /\ last' = [i \in Sentences |-> IF i = fed /\ last[i] = "unknown" THEN "last" ELSE last[i]]
    /\ slots' = Append(before, EOF)

(* With the permit the task is started; then the token is read again. *)
StartSynthesis ==
    /\ producer = "acquire" /\ permits > 0
    /\ permits' = permits - 1
    /\ synth' = [synth EXCEPT ![fed] = "synthesizing"]
    /\ IF Cancelled THEN ProducerEnds(Append(slots, fed))
       ELSE producer' = "fetch" /\ slots' = Append(slots, fed) /\ UNCHANGED last
    /\ UNCHANGED <<fed, sequencer, out, caller, delivered, playQueue, player, played,
                   completed, token>>

(* The source is exhausted or fails, or the token is cancelled at first. *)
SourceEnds ==
    /\ producer = "fetch"
    /\ ProducerEnds(slots)
    /\ UNCHANGED <<fed, permits, synth, sequencer, out, caller, delivered, playQueue, player,
                   played, completed, token>>

(* _synthesize_chunk: the permit is returned before the wait. *)
Synthesized(i) ==
    /\ synth[i] = "synthesizing"
    /\ permits' = permits + 1
    /\ \E end \in {"waiting", "failed"} : synth' = [synth EXCEPT ![i] = end]
    /\ UNCHANGED <<source, last, slots, sequencer, out, caller, delivered, playQueue, player,
                   played, completed, token>>

LearnsIfLast(i) ==
    /\ synth[i] = "waiting" /\ last[i] # "unknown"
    /\ synth' = [synth EXCEPT ![i] = "done"]
    /\ UNCHANGED <<source, permits, last, slots, sequencer, out, caller, delivered, playQueue,
                   player, played, completed, token>>

-----------------------------------------------------------------------------
(* _sequence *)

NextSlot ==
    /\ sequencer.pc = "get" /\ slots # <<>> /\ Head(slots) # EOF
    /\ sequencer' = [pc |-> "await", task |-> Head(slots)]
    /\ slots' = Tail(slots)
    /\ UNCHANGED <<source, tasks, out, caller, delivered, playQueue, player, played, completed,
                   token>>

SequencerEnds ==
    /\ sequencer' = [pc |-> "ended", task |-> EOF]
    /\ out' = Append(out, EndMark)
    /\ playQueue' = Append(playQueue, EndMark)

NoMoreSlots ==
    /\ sequencer.pc = "get" /\ slots # <<>> /\ Head(slots) = EOF
    /\ SequencerEnds
    /\ slots' = Tail(slots)
    /\ UNCHANGED <<source, tasks, caller, delivered, player, played, completed, token>>

Skip ==
    /\ sequencer.pc = "await" /\ synth[sequencer.task] = "failed"
    /\ sequencer' = [pc |-> "get", task |-> EOF]
    /\ UNCHANGED <<source, tasks, slots, out, caller, delivered, playQueue, player, played,
                   completed, token>>

Sequence ==
    LET i == sequencer.task
        chunk == [index |-> i, last |-> last[i] = "last"]
    IN  /\ sequencer.pc = "await" /\ synth[i] = "done"
        /\ IF Cancelled THEN SequencerEnds
           ELSE /\ sequencer' = [pc |-> "get", task |-> EOF]
                /\ out' = Append(out, chunk) /\ playQueue' = Append(playQueue, chunk)
        /\ UNCHANGED <<source, tasks, slots, caller, delivered, player, played, completed, token>>

-----------------------------------------------------------------------------
(* stream_synthesize: the caller *)

(* _shutdown, from the finally: what still runs is cancelled.  Syntheses    *)
(* nobody awaits go on by themselves.                                      *)
Shutdown ==
    LET awaited == IF sequencer.pc = "await" THEN {sequencer.task} ELSE {}
        hit == {i \in awaited : synth[i] \in {"synthesizing", "waiting"}}
    IN  /\ caller' = "ended"
        /\ IF producer = "ended" THEN UNCHANGED <<producer, last, slots>> ELSE ProducerEnds(slots)
        /\ IF sequencer.pc = "ended" THEN UNCHANGED <<sequencer, out, playQueue>>
           ELSE SequencerEnds
        /\ synth' = [i \in Sentences |-> IF i \in hit THEN "dead" ELSE synth[i]]
        /\ permits' = permits + Cardinality({i \in hit : synth[i] = "synthesizing"})
        /\ player' = "ended"
        /\ completed' = IF player = "ended" THEN completed ELSE completed + 1

Deliver ==
    /\ caller = "get" /\ out # <<>> /\ Head(out).index # EOF
    /\ delivered' = Append(delivered, Head(out)) /\ out' = Tail(out)
    /\ UNCHANGED <<source, tasks, slots, sequencer, caller, playQueue, player, played,
                   completed, token>>

(* The end of the stream: without a cancellation the player may finish. *)
StreamEnds ==
    /\ caller = "get" /\ out # <<>> /\ Head(out).index = EOF
    /\ IF ~Cancelled
       THEN /\ caller' = "drain" /\ out' = Tail(out)
            /\ UNCHANGED <<producer, tasks, slots, sequencer, playQueue, player, completed>>
       ELSE Shutdown
    /\ UNCHANGED <<fed, delivered, played, token>>

(* _drain_playback: until the player is done, or the time is up. *)
Drained ==
    /\ caller = "drain"
    /\ Shutdown
    /\ UNCHANGED <<fed, delivered, played, token>>

(* The caller closes the stream early, or is cancelled. *)
CallerLeaves ==
    /\ caller = "get"
    /\ Shutdown
    /\ UNCHANGED <<fed, delivered, played, token>>

(* Cancelled while it waits for the player, the caller gets no further:     *)
(* nothing is shut down, and the player finishes by itself.                *)
LeavesDraining ==
    /\ caller = "drain"
    /\ caller' = "ended"
    /\ UNCHANGED <<source, tasks, slots, sequencer, out, delivered, playQueue, player, played,
                   completed, token>>

Cancel ==
    /\ token = "live" /\ ~(caller = "ended" /\ player = "ended")
    /\ token' = "cancelled"
    /\ UNCHANGED <<source, tasks, slots, sequencer, out, caller, delivered, playQueue, player,
                   played, completed>>

(* _watch_cancellation *)
Watch ==
    /\ token = "cancelled" /\ caller # "ended"
    /\ token' = "seen"
    /\ out' = Append(out, EndMark)
    /\ UNCHANGED <<source, tasks, slots, sequencer, caller, delivered, playQueue, player,
                   played, completed>>

-----------------------------------------------------------------------------
(* _play_pending *)

PlayerEnds == player' = "ended" /\ completed' = completed + 1

TakeChunk ==
    /\ player = "get" /\ playQueue # <<>>
    /\ CASE Head(playQueue).index = EOF -> player' = "tail" /\ UNCHANGED completed
         [] Head(playQueue).index # EOF /\ Cancelled -> PlayerEnds
         [] OTHER -> player' = "play" /\ UNCHANGED completed
    /\ UNCHANGED <<source, tasks, slots, sequencer, out, caller, delivered, playQueue, played,
                   token>>

Played ==
    /\ player = "play"
    /\ player' = "get"
    /\ played' = Append(played, Head(playQueue)) /\ playQueue' = Tail(playQueue)
    /\ UNCHANGED <<source, tasks, slots, sequencer, out, caller, delivered, completed, token>>

(* The connection is lost, or the chunk is given up. *)
PlayFails ==
    /\ player = "play"
    /\ playQueue' = Tail(playQueue)
    /\ PlayerEnds \/ (player' = "get" /\ UNCHANGED completed)
    /\ UNCHANGED <<source, tasks, slots, sequencer, out, caller, delivered, played, token>>

TailPlayed ==
    /\ player = "tail"
    /\ PlayerEnds
    /\ UNCHANGED <<source, tasks, slots, sequencer, out, caller, delivered, playQueue, played,
                   token>>

Next ==
    \/ Fetch \/ StartSynthesis \/ SourceEnds
    \/ \E i \in Sentences : Synthesized(i) \/ LearnsIfLast(i)
    \/ NextSlot \/ NoMoreSlots \/ Skip \/ Sequence
    \/ Deliver \/ StreamEnds \/ Drained \/ CallerLeaves \/ LeavesDraining \/ Cancel \/ Watch
    \/ TakeChunk \/ Played \/ PlayFails \/ TailPlayed

Spec == Init /\ [][Next]_vars

(* Syntheses and the engine's calls end, the source ends, the caller goes  *)
(* on asking.                                                              *)
Fairness ==
    /\ WF_vars(Fetch \/ SourceEnds) /\ WF_vars(StartSynthesis)
    /\ \A i \in Sentences : WF_vars(Synthesized(i)) /\ WF_vars(LearnsIfLast(i))
    /\ WF_vars(NextSlot) /\ WF_vars(NoMoreSlots) /\ WF_vars(Skip) /\ WF_vars(Sequence)
    /\ WF_vars(Deliver) /\ WF_vars(StreamEnds) /\ WF_vars(Drained) /\ WF_vars(Watch)
    /\ WF_vars(TakeChunk) /\ WF_vars(Played \/ PlayFails) /\ WF_vars(TailPlayed)

LiveSpec == Spec /\ Fairness

-----------------------------------------------------------------------------
Delivery == INSTANCE OrderedStream WITH emitted <- delivered, over <- caller = "ended"
Playback == INSTANCE OrderedStream WITH emitted <- played, over <- player = "ended"

(* The caller and the engine each get an ordered stream: in the order of    *)
(* the sentences although they are synthesized concurrently, none twice,   *)
(* none after the one marked last (is_last) although some fail.            *)
ImplementsOrderedStream == Delivery!Spec /\ Playback!Spec

(* Everything a stream has started ends, however it is failed, cancelled or *)
(* left: the stages, and every synthesis, the ones nobody waits for any    *)
(* more included, which must learn whether they were the last              *)
(* (is_last_event); every permit is back, and the completion that opens    *)
(* the microphone again was called once.  The watcher of a token that is   *)
(* never cancelled is not meant: it stays if the caller leaves draining.   *)
EveryTaskEnds ==
    <>(/\ caller = "ended" /\ producer = "ended" /\ sequencer.pc = "ended" /\ player = "ended"
       /\ \A i \in Sentences : synth[i] \notin {"synthesizing", "waiting"}
       /\ permits = MaxConcurrent /\ completed = 1)
=============================================================================
