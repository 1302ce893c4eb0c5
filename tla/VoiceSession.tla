---------------------------- MODULE VoiceSession ----------------------------
(***************************************************************************)
(* The voice session of voice/interaction_core.py: the consumer of the     *)
(* microphone's events, the turn it begins for an utterance, the barge-in  *)
(* that ends a turn when the user speaks again, the smart-turn timer, the  *)
(* wake word and shutdown, with the pipeline's states (voice/pipeline.py), *)
(* the conversation turns (voice/turn_manager.py), the player of the       *)
(* speech (voice/streaming_tts.py) and the engine's playback buffer.       *)
(*                                                                         *)
(* All of it runs on one event loop: an action is what a task does between *)
(* two awaits.  A turn is named by the epoch it was begun in; its token is *)
(* cancelled exactly when the epoch moves on.  Sound is the set of         *)
(* utterances it holds.                                                    *)
(***************************************************************************)
EXTENDS Naturals, Sequences, FiniteSets, SequencesExt, PipelineStates

CONSTANTS MaxUtterances,    \* what the user says in a session
          MaxChunks,        \* sentences of an answer
          None

ASSUME BoundsAssumption == MaxUtterances \in Nat /\ MaxChunks \in Nat
ASSUME NoneAssumption == None \notin Nat

Utterances == 1 .. MaxUtterances
(* The start of an utterance, its turn's barge-in and the turn, and stop(). *)
MaxEpoch == 3 * MaxUtterances + 1
Turns == 1 .. MaxEpoch

VARIABLES
    config,         \* [arbiter: is there a turn arbiter, wakeword: is it required]
    events, said, inSpeech, gated,                          \* the microphone
    state,                                                  \* the pipeline
    life, epoch, active, activeAudio, playbackActive,       \* the core
    barging, pending, candidate, smart, awake,
    caller,         \* the coroutines that begin or end turns
    turn,           \* each turn's task
    cancelled,      \* turns whose task was told to stop
    open, history,  \* the conversation turn that is open; records of the others
    calls           \* requests on their way to the engine

microphone == <<events, said, inSpeech>>
conversation == <<open, history>>
held == <<pending, candidate, smart>>
vars == <<config, microphone, gated, state, life, epoch, active, activeAudio,
          playbackActive, barging, held, awake, caller, turn, cancelled,
          conversation, calls>>

Callers == {"consumer", "timer", "stopper"}
Stages == {"none", "stt", "ack", "acked", "speak", "drain", "closing", "unwind", "finished", "gone"}
Sound == SUBSET Utterances

NoTurn == [stage |-> "none", heard |-> {}, context |-> FALSE, made |-> 0,
           queued |-> 0, player |-> FALSE]
Resting == [pc |-> "idle", then |-> None, audio |-> {}, epoch |-> 0, task |-> None]

TypeOK ==
    /\ config \in [arbiter : BOOLEAN, wakeword : BOOLEAN]
    /\ \A i \in 1 .. Len(events) : events[i] \in {<<"start">>, <<"close">>} \cup {<<"end", u>> : u \in Utterances}
    /\ said \in 0 .. MaxUtterances
    /\ {inSpeech, gated, playbackActive, barging, awake} \subseteq BOOLEAN
    /\ state \in States
    /\ life \in {"running", "stopping", "stopped"}
    /\ epoch \in 0 .. MaxEpoch
    /\ active \in Turns \cup {None} /\ open \in Turns \cup {None}
    /\ {activeAudio, pending, candidate} \subseteq Sound
    /\ smart \in {"off", "armed"}
    /\ caller \in [Callers ->
          [pc : {"idle", "greeting", "created", "analyze", "identify", "wake ack",
                 "flush", "reap", "microphone", "ended"},
           then : {"start", "begin", "stop", None}, audio : Sound,
           epoch : 0 .. MaxEpoch, task : Turns \cup {None}]]
    /\ turn \in [Turns -> [stage : Stages, heard : Sound, context : BOOLEAN,
                           made : 0 .. MaxChunks, queued : 0 .. MaxChunks,
                           player : BOOLEAN]]
    /\ cancelled \subseteq Turns
    /\ history \in Seq(Turns \X {"completed", "interrupted"})

Init ==
    /\ config \in [arbiter : BOOLEAN, wakeword : BOOLEAN]
    /\ events = <<>> /\ said = 0 /\ inSpeech = FALSE /\ gated = FALSE
    /\ state = "LISTENING"
    /\ life = "running" /\ epoch = 0 /\ active = None /\ activeAudio = {}
    /\ playbackActive = FALSE /\ barging = FALSE
    /\ pending = {} /\ candidate = {} /\ smart = "off"
    /\ awake = ~config.wakeword
    /\ caller = [c \in Callers |-> IF c = "consumer" THEN [Resting EXCEPT !.pc = "greeting"]
                                   ELSE Resting]
    /\ turn = [t \in Turns |-> NoTurn] /\ cancelled = {}
    /\ open = None /\ history = <<>>
    /\ calls = <<>>

-----------------------------------------------------------------------------
(* VoicePipelineManager *)

(* InteractionCore._transition: a transition that is not allowed is skipped. *)
Moved(from, target) == IF target \in Allowed[from] THEN target ELSE from
MovedThrough(from, targets) == FoldLeft(Moved, from, targets)

-----------------------------------------------------------------------------
(* MicrophoneLoop, as far as its listener sees it *)

MicrophoneOn == life # "stopped" /\ caller["stopper"].pc # "microphone"

SpeechStarts ==
    /\ MicrophoneOn /\ ~gated /\ ~inSpeech /\ said < MaxUtterances
    /\ inSpeech' = TRUE /\ said' = said + 1
    /\ events' = Append(events, <<"start">>)
    /\ UNCHANGED <<config, gated, state, life, epoch, active, activeAudio, playbackActive,
                   barging, held, awake, caller, turn, cancelled, conversation, calls>>

(* A segment that is too short ends without an event. *)
SpeechEnds ==
    /\ MicrophoneOn /\ inSpeech /\ ~gated
    /\ inSpeech' = FALSE
    /\ \/ events' = Append(events, <<"end", said>>)
       \/ UNCHANGED events
    /\ UNCHANGED <<config, said, gated, state, life, epoch, active, activeAudio,
                   playbackActive, barging, held, awake, caller, turn, cancelled,
                   conversation, calls>>

-----------------------------------------------------------------------------
Alive(t) == t = epoch
Done(t) == t # None => turn[t].stage \in {"finished", "gone"}
Playing(t) == \E i \in 1 .. Len(calls) : calls[i] = <<"play", t>>
(* A task that was created and a callback that is due run before anything   *)
(* that is only started after them can end.                                *)
Prompt ==
    /\ caller["timer"].pc # "created"
    /\ \A t \in Turns : turn[t].stage # "finished"
    /\ \A c \in Callers : caller[c].pc = "reap" =>
          caller[c].task # None /\ turn[caller[c].task].stage # "gone"
Rest(c) == caller' = [caller EXCEPT ![c] = Resting]

(* ConversationTurnManager._close: whatever the turn, none is open then. *)
Close_KeepsOpen(t, status) ==
    /\ open' = t
    /\ history' = Append(history, <<t, status>>)

Close(t, status) ==
    /\ open' = None
    /\ history' = Append(history, <<t, status>>)

(* InteractionCore._close_open_turn *)
CloseOpen == IF open = None THEN UNCHANGED conversation ELSE Close(open, "interrupted")

(* The first part of handle_barge_in and stop: the epoch moves on, then    *)
(* playback is flushed, or the task is cancelled at once.                  *)
Invalidate(c, then, audio) ==
    LET waits == [pc |-> IF playbackActive THEN "flush" ELSE "reap", then |-> then,
                  audio |-> audio, epoch |-> epoch + 1,
                  task |-> IF Done(active) THEN None ELSE active]
    IN  /\ epoch' = epoch + 1
        /\ caller' = [caller EXCEPT ![c] = waits]
        /\ IF playbackActive
           THEN calls' = Append(calls, <<"stop", c>>) /\ UNCHANGED cancelled
           ELSE /\ cancelled' = cancelled \cup ({waits.task} \ {None})
                /\ UNCHANGED calls

BargeIn(c, then, audio) ==
    /\ barging' = TRUE
    /\ IF state = "PROCESSING" /\ ~playbackActive /\ activeAudio # {}
       THEN \E kept \in {pending, {}} : pending' = kept \cup activeAudio
       ELSE pending' = {}
    /\ Invalidate(c, then, audio)
    /\ UNCHANGED <<gated, state, active, activeAudio, playbackActive, turn,
                   conversation>>

Recovered(s) ==
    CASE s = "ERROR"    -> MovedThrough(s, <<"IDLE", "LISTENING">>)
      [] s = "SPEAKING" -> MovedThrough(s, <<"INTERRUPTED", "IDLE", "LISTENING">>)
      [] OTHER          -> s

(* The last part of _begin_turn.  What a barge-in cut off is heard again   *)
(* when it is recent enough.                                               *)
NewTurn(audio, from) ==
    /\ epoch < MaxEpoch
    /\ pending' = {}
    /\ epoch' = epoch + 1 /\ active' = epoch + 1
    /\ playbackActive' = FALSE
    /\ state' = Moved(Recovered(from), "PROCESSING")
    /\ \E heard \in {audio, audio \cup pending} :
          /\ activeAudio' = heard
          /\ turn' = [turn EXCEPT ![epoch + 1] = [NoTurn EXCEPT !.stage = "stt", !.heard = heard]]

(* _begin_turn; what it does not mention is its callers'. *)
BeginTurn(c, audio) ==
    /\ UNCHANGED <<config, life>>
    /\ \/ /\ life # "running"
          /\ Rest(c)
          /\ UNCHANGED <<gated, state, epoch, active, activeAudio, playbackActive,
                         barging, pending, turn, cancelled, conversation, calls>>
       \/ /\ life = "running" /\ ~Done(active)
          /\ BargeIn(c, "begin", audio)
       \/ /\ life = "running" /\ Done(active)
          /\ NewTurn(audio, state)
          /\ Rest(c)
          /\ UNCHANGED <<gated, barging, cancelled, conversation, calls>>

-----------------------------------------------------------------------------
(* InteractionCore.run: the consumer *)

Consumes(event) ==
    /\ caller["consumer"].pc = "idle"
    /\ events # <<>> /\ Head(events) = event
    /\ events' = Tail(events)
    /\ UNCHANGED <<said, inSpeech>>

(* The session starts with a greeting, or without one. *)
Greet ==
    /\ caller["consumer"].pc = "greeting"
    /\ awake' \in {awake, TRUE}
    /\ Rest("consumer")
    /\ UNCHANGED <<config, microphone, gated, state, life, epoch, active, activeAudio,
                   playbackActive, barging, held, turn, cancelled, conversation, calls>>

(* The loop ends when it sees an event after stop() has begun, or the last. *)
Leave ==
    /\ \/ events # <<>> /\ life = "stopping" /\ Consumes(Head(events))
       \/ Consumes(<<"close">>)
    /\ caller' = [caller EXCEPT !["consumer"].pc = "ended"]
    /\ UNCHANGED <<config, gated, state, life, epoch, active, activeAudio, playbackActive,
                   barging, held, awake, turn, cancelled, conversation, calls>>

HearStart ==
    /\ life # "stopping"
    /\ Consumes(<<"start">>)
    /\ smart' = "off"
    /\ UNCHANGED <<config, life, candidate, awake>>
    /\ \/ /\ ~Done(active)
          /\ BargeIn("consumer", "start", {})
       \/ /\ Done(active)
          /\ state' = Moved(state, "LISTENING")
          /\ UNCHANGED <<gated, epoch, active, activeAudio, playbackActive, barging, pending,
                         caller, turn, cancelled, conversation, calls>>

(* _handle_speech_end: an utterance goes to the wake word, to the arbiter,  *)
(* or begins a turn.                                                       *)
HearEnd(u) ==
    /\ life # "stopping"
    /\ Consumes(<<"end", u>>)
    /\ smart' = "off"
    /\ UNCHANGED <<candidate, awake>>
    /\ LET audio == candidate \cup {u}
           ask(pc) == /\ Prompt
                      /\ caller' = [caller EXCEPT !["consumer"].pc = pc,
                                                  !["consumer"].audio = audio]
                      /\ UNCHANGED <<config, gated, state, life, epoch, active, activeAudio,
                                     playbackActive, barging, pending, turn, cancelled,
                                     conversation, calls>>
       IN  CASE ~awake         -> ask("identify")
             [] config.arbiter /\ awake -> ask("analyze")
             [] OTHER          -> BeginTurn("consumer", audio)

(* Not the wake phrase; the wake phrase and a request; the phrase alone.   *)
Identified ==
    /\ caller["consumer"].pc = "identify"
    /\ candidate' = {}
    /\ UNCHANGED <<microphone, smart>>
    /\ \/ /\ Rest("consumer")
          /\ UNCHANGED <<config, gated, state, life, epoch, active, activeAudio,
                         playbackActive, barging, pending, awake, turn, cancelled,
                         conversation, calls>>
       \/ /\ awake' = TRUE
          /\ BeginTurn("consumer", caller["consumer"].audio)
       \/ /\ awake' = TRUE
          /\ state' = Moved(state, "SPEAKING") /\ gated' = TRUE
          /\ caller' = [caller EXCEPT !["consumer"] = [Resting EXCEPT !.pc = "wake ack"]]
          /\ UNCHANGED <<config, life, epoch, active, activeAudio, playbackActive, barging,
                         pending, turn, cancelled, conversation, calls>>

WakeAckPlayed ==
    /\ caller["consumer"].pc = "wake ack"
    /\ gated' = FALSE
    /\ state' = Moved(state, "LISTENING")
    /\ Rest("consumer")
    /\ UNCHANGED <<config, microphone, life, epoch, active, activeAudio, playbackActive,
                   barging, held, awake, turn, cancelled, conversation, calls>>

(* The speaker has not finished: the timer waits for the rest. *)
Continuing ==
    /\ caller["consumer"].pc = "analyze"
    /\ candidate' = caller["consumer"].audio /\ smart' = "armed"
    /\ Rest("consumer")
    /\ UNCHANGED <<config, microphone, gated, state, life, epoch, active, activeAudio,
                   playbackActive, barging, pending, awake, turn, cancelled, conversation,
                   calls>>

Complete ==
    /\ caller["consumer"].pc = "analyze"
    /\ candidate' = {}
    /\ BeginTurn("consumer", caller["consumer"].audio)
    /\ UNCHANGED <<microphone, smart, awake>>

SmartTurnTimeout_KeepsCandidate ==
    /\ smart = "armed" /\ caller["timer"].pc = "idle"
    /\ smart' = "off"
    /\ IF candidate # {} /\ life = "running"
       THEN caller' = [caller EXCEPT !["timer"].pc = "created", !["timer"].audio = candidate]
       ELSE UNCHANGED caller
    /\ UNCHANGED <<config, microphone, gated, state, life, epoch, active, activeAudio,
                   playbackActive, barging, pending, candidate, awake, turn, cancelled,
                   conversation, calls>>

(* _on_smart_turn_timeout; one such task at a time. *)
SmartTurnTimeout ==
    /\ smart = "armed" /\ caller["timer"].pc = "idle"
    /\ smart' = "off"
    /\ IF candidate # {} /\ life = "running"
       THEN /\ candidate' = {}
            /\ caller' = [caller EXCEPT !["timer"].pc = "created", !["timer"].audio = candidate]
       ELSE UNCHANGED <<candidate, caller>>
    /\ UNCHANGED <<config, microphone, gated, state, life, epoch, active, activeAudio,
                   playbackActive, barging, pending, awake, turn, cancelled, conversation,
                   calls>>

TimerTaskRuns ==
    /\ caller["timer"].pc = "created"
    /\ BeginTurn("timer", caller["timer"].audio)
    /\ UNCHANGED <<microphone, candidate, smart, awake>>

(* _on_wakeword_timeout, from its timer or from the watchdog *)
WakeWordTimeout ==
    /\ config.wakeword /\ awake /\ ~inSpeech
    /\ state = "LISTENING" /\ active = None /\ ~playbackActive
    /\ awake' = FALSE
    /\ UNCHANGED <<config, microphone, gated, state, life, epoch, active, activeAudio,
                   playbackActive, barging, held, caller, turn, cancelled, conversation,
                   calls>>

(* _listening_watchdog: LISTENING and deaf for too long *)
Watchdog ==
    /\ life = "running" /\ state = "LISTENING" /\ gated
    /\ gated' = FALSE
    /\ UNCHANGED <<config, microphone, state, life, epoch, active, activeAudio,
                   playbackActive, barging, held, awake, caller, turn, cancelled,
                   conversation, calls>>

-----------------------------------------------------------------------------
(* The flush has been answered: now the task is cancelled. *)
Flushed(c) ==
    LET task == caller[c].task IN
    /\ caller[c].pc = "flush" /\ ~\E i \in 1 .. Len(calls) : calls[i] = <<"stop", c>>
    /\ playbackActive' = FALSE
    /\ cancelled' = IF Done(task) THEN cancelled ELSE cancelled \cup {task}
    /\ caller' = [caller EXCEPT ![c].pc = "reap",
                                ![c].task = IF Done(task) THEN None ELSE task]
    /\ UNCHANGED <<config, microphone, gated, state, life, epoch, active, activeAudio,
                   barging, held, awake, turn, conversation, calls>>

Reaped(c, then) ==
    /\ caller[c].pc = "reap" /\ caller[c].then = then
    /\ caller[c].task # None => turn[caller[c].task].stage = "gone"

(* The last part of handle_barge_in; its transitions count only if nobody  *)
(* has moved the epoch on meanwhile.                                       *)
AfterBargeIn(c) ==
    IF caller[c].epoch = epoch THEN MovedThrough(state, <<"INTERRUPTED", "LISTENING">>)
    ELSE state

BargedIn_KeepsGate(c) ==
    /\ CloseOpen
    /\ candidate' = {}
    /\ gated' = gated /\ barging' = FALSE
    /\ Rest(c)

BargedIn(c) ==
    /\ CloseOpen
    /\ candidate' = {}
    /\ gated' = FALSE /\ barging' = FALSE
    /\ Rest(c)

StartAfterBargeIn ==
    /\ Reaped("consumer", "start")
    /\ BargedIn("consumer")
    /\ active' = None /\ activeAudio' = {}
    /\ state' = Moved(AfterBargeIn("consumer"), "LISTENING")
    /\ UNCHANGED <<config, microphone, life, epoch, playbackActive, pending, smart, awake,
                   turn, cancelled, calls>>

(* Whether the core was stopped meanwhile is not asked again. *)
BeginAfterBargeIn(c) ==
    /\ Reaped(c, "begin")
    /\ BargedIn(c)
    /\ NewTurn(caller[c].audio, AfterBargeIn(c))
    /\ UNCHANGED <<config, microphone, life, smart, awake, cancelled, calls>>

-----------------------------------------------------------------------------
(* InteractionCore.stop *)

Stop ==
    /\ life = "running"
    /\ life' = "stopping"
    /\ Invalidate("stopper", "stop", {})
    /\ UNCHANGED <<config, microphone, gated, state, active, activeAudio, playbackActive,
                   barging, held, awake, turn, conversation>>

StopMicrophone ==
    /\ Reaped("stopper", "stop")
    /\ active' = None /\ activeAudio' = {}
    /\ CloseOpen
    /\ pending' = {} /\ candidate' = {} /\ smart' = "off"
    /\ caller' = [caller EXCEPT !["stopper"] = [Resting EXCEPT !.pc = "microphone"]]
    /\ UNCHANGED <<config, microphone, gated, state, life, epoch, playbackActive, barging,
                   awake, turn, cancelled, calls>>

Stopped ==
    /\ caller["stopper"].pc = "microphone"
    /\ events' = events \o (IF inSpeech THEN << <<"end", said>>, <<"close">> >> ELSE << <<"close">> >>)
    /\ inSpeech' = FALSE
    /\ state' = MovedThrough(state, <<"INTERRUPTED", "IDLE">>)
    /\ life' = "stopped"
    /\ Rest("stopper")
    /\ UNCHANGED <<config, said, gated, epoch, active, activeAudio, playbackActive, barging,
                   held, awake, turn, cancelled, conversation, calls>>

-----------------------------------------------------------------------------
(* TurnExecutor.execute: a turn's task *)

Runs(t, stages) == turn[t].stage \in stages /\ t \notin cancelled

(* The rest of the core is not a turn's. *)
Bystanders == <<config, microphone, life, epoch, active, activeAudio, barging, held, awake,
                caller, cancelled>>

Finish(t) == turn' = [turn EXCEPT ![t] = [@ EXCEPT !.stage = "finished", !.queued = 0]]

(* on_speaking *)
StartSpeaking(t) ==
    /\ playbackActive' = TRUE
    /\ state' = Moved(state, "SPEAKING")
    /\ gated' = TRUE

(* on_playback_completed *)
PlaybackCompleted(t) == gated' = IF Alive(t) THEN FALSE ELSE gated

(* The epoch has moved on, or nothing was said. *)
NothingToDo(t) ==
    /\ Runs(t, {"stt"})
    /\ Finish(t) /\ PlaybackCompleted(t)
    /\ UNCHANGED <<Bystanders, state, playbackActive, conversation, calls>>

(* The policy acts without a word. *)
ActSilently(t) ==
    /\ Runs(t, {"stt"}) /\ Alive(t)
    /\ Close(t, "completed") /\ Finish(t) /\ PlaybackCompleted(t)
    /\ UNCHANGED <<Bystanders, state, playbackActive, calls>>

(* The policy answers at once, or acknowledges first. *)
StartAnswer(t) ==
    /\ Runs(t, {"stt"}) /\ Alive(t)
    /\ open' = t
    /\ StartSpeaking(t)
    /\ \/ turn' = [turn EXCEPT ![t] = [@ EXCEPT !.stage = "speak", !.context = TRUE,
                                                !.player = TRUE]]
       \/ turn' = [turn EXCEPT ![t] = [@ EXCEPT !.stage = "ack", !.context = TRUE,
                                                !.player = TRUE]]
    /\ UNCHANGED <<Bystanders, history, calls>>

(* What is synthesized is played at once, or behind the player's call that  *)
(* is under way.                                                           *)
ToPlayer(t, r) ==
    IF r.player /\ (Playing(t) \/ r.queued > 0)
    THEN turn' = [turn EXCEPT ![t] = [r EXCEPT !.queued = @ + 1]] /\ UNCHANGED calls
    ELSE /\ turn' = [turn EXCEPT ![t] = r]
         /\ calls' = IF r.player THEN Append(calls, <<"play", t>>) ELSE calls

AckSynthesized(t) ==
    /\ Runs(t, {"ack"}) /\ Alive(t)
    /\ ToPlayer(t, [turn[t] EXCEPT !.stage = "acked"])
    /\ UNCHANGED <<Bystanders, state, gated, playbackActive, conversation>>

(* The acknowledgement has been played, or failed, or is late.             *)
Acknowledged(t) ==
    /\ \/ Runs(t, {"ack"})
       \/ Runs(t, {"acked"}) /\ ~Playing(t)
    /\ turn' = [turn EXCEPT ![t] = [@ EXCEPT !.stage = "speak", !.player = TRUE]]
    /\ UNCHANGED <<Bystanders, state, gated, playbackActive, conversation, calls>>

(* A sentence is synthesized.  A turn that is no longer current leaves the  *)
(* stream, and takes the player with it.                                   *)
Synthesized(t) ==
    /\ Runs(t, {"speak"}) /\ turn[t].made < MaxChunks
    /\ IF Alive(t)
       THEN ToPlayer(t, [turn[t] EXCEPT !.made = @ + 1])
       ELSE /\ turn' = [turn EXCEPT ![t] = [@ EXCEPT !.stage = "closing", !.queued = 0,
                                                     !.player = FALSE]]
            /\ UNCHANGED calls
    /\ UNCHANGED <<Bystanders, state, gated, playbackActive, conversation>>

AnswerEnds(t) ==
    /\ Runs(t, {"speak"})
    /\ turn' = [turn EXCEPT ![t].stage = "drain"]
    /\ UNCHANGED <<Bystanders, state, gated, playbackActive, conversation, calls>>

(* The player has played everything, or the turn waits no longer for it.   *)
Drained(t) ==
    /\ Runs(t, {"drain"})
    /\ turn' = [turn EXCEPT ![t] = [@ EXCEPT !.stage = "closing", !.queued = 0,
                                             !.player = FALSE]]
    /\ PlaybackCompleted(t)
    /\ UNCHANGED <<Bystanders, state, playbackActive, conversation, calls>>

AnswerFails(t) ==
    /\ Runs(t, {"speak", "drain"})
    /\ Close(t, "interrupted") /\ Finish(t) /\ PlaybackCompleted(t)
    /\ UNCHANGED <<Bystanders, state, playbackActive, calls>>

(* The reply is recorded, or what was said of it. *)
Closed(t) ==
    /\ Runs(t, {"closing"})
    /\ Close(t, IF Alive(t) THEN "completed" ELSE "interrupted") /\ Finish(t) /\ PlaybackCompleted(t)
    /\ UNCHANGED <<Bystanders, state, playbackActive, calls>>

CancelArrives(t) ==
    /\ caller["timer"].pc # "created"
    /\ t \in cancelled /\ turn[t].stage \in {"stt", "ack", "acked", "speak", "drain", "closing"}
    /\ turn' = [turn EXCEPT ![t] = [@ EXCEPT !.stage = "unwind", !.queued = 0,
                                             !.player = FALSE]]
    /\ PlaybackCompleted(t)
    /\ UNCHANGED <<Bystanders, state, playbackActive, conversation, calls>>

Unwound(t) ==
    /\ turn[t].stage = "unwind"
    /\ IF turn[t].context THEN Close(t, "interrupted") ELSE UNCHANGED conversation
    /\ Finish(t)
    /\ UNCHANGED <<Bystanders, state, gated, playbackActive, calls>>

TurnDone_StaysSpeaking(t) ==
    /\ turn[t].stage = "finished"
    /\ turn' = [turn EXCEPT ![t].stage = "gone"]
    /\ active' = IF active = t THEN None ELSE active
    /\ activeAudio' = {} /\ playbackActive' = FALSE
    /\ UNCHANGED <<config, microphone, gated, state, life, epoch, barging, held, awake,
                   caller, cancelled, conversation, calls>>

(* _on_turn_done, called by the loop once the task is done *)
TurnDone(t) ==
    /\ turn[t].stage = "finished"
    /\ turn' = [turn EXCEPT ![t].stage = "gone"]
    /\ active' = IF active = t THEN None ELSE active
    /\ activeAudio' = {} /\ playbackActive' = FALSE
    /\ state' = IF life = "running" /\ ~barging
                THEN MovedThrough(state, <<"IDLE", "LISTENING">>) ELSE state
    /\ UNCHANGED <<config, microphone, gated, life, epoch, barging, held, awake, caller,
                   cancelled, conversation, calls>>

-----------------------------------------------------------------------------
(* IncrementalTTSStreamer._play_pending: the player of a turn's speech.  It *)
(* does not ask whether the turn is still current.                         *)
Play(t) ==
    /\ turn[t].player /\ turn[t].queued > 0 /\ ~Playing(t)
    /\ turn' = [turn EXCEPT ![t].queued = @ - 1]
    /\ calls' = Append(calls, <<"play", t>>)
    /\ UNCHANGED <<Bystanders, state, gated, playbackActive, conversation>>

(* The engine answers its calls in their order. *)
EngineServes ==
    /\ calls # <<>>
    /\ calls' = Tail(calls)
    /\ UNCHANGED <<Bystanders, state, gated, playbackActive, turn, conversation>>

(* A call fails: a flush is given up, a player that lost the connection     *)
(* ends and completes.                                                     *)
EngineFails ==
    /\ calls # <<>>
    /\ calls' = Tail(calls)
    /\ \/ UNCHANGED <<turn, gated>>
       \/ LET t == Head(calls)[2] IN
          /\ Head(calls)[1] = "play" /\ turn[t].player
          /\ turn' = [turn EXCEPT ![t] = [@ EXCEPT !.player = FALSE, !.queued = 0]]
          /\ IF turn[t].stage = "acked" THEN UNCHANGED gated ELSE PlaybackCompleted(t)
    /\ UNCHANGED <<Bystanders, state, playbackActive, conversation>>

Core ==
    \/ Greet \/ Leave \/ HearStart \/ Identified \/ WakeAckPlayed \/ Continuing \/ Complete
    \/ SmartTurnTimeout \/ TimerTaskRuns \/ WakeWordTimeout \/ Watchdog
    \/ StartAfterBargeIn \/ Stop \/ StopMicrophone \/ Stopped
    \/ \E u \in Utterances : HearEnd(u)
    \/ \E c \in Callers : Flushed(c) \/ BeginAfterBargeIn(c)

TurnSteps(t) ==
    \/ NothingToDo(t) \/ ActSilently(t) \/ StartAnswer(t) \/ AckSynthesized(t) \/ Acknowledged(t)
    \/ Synthesized(t) \/ AnswerEnds(t) \/ Drained(t) \/ AnswerFails(t) \/ Closed(t)
    \/ CancelArrives(t) \/ Unwound(t) \/ TurnDone(t)

Next ==
    \/ SpeechStarts \/ SpeechEnds
    \/ Core
    \/ \E t \in Turns : TurnSteps(t) \/ Play(t)
    \/ EngineServes \/ EngineFails

Spec == Init /\ [][Next]_vars

-----------------------------------------------------------------------------
Running(t) == turn[t].stage # "none" /\ ~Done(t)

(* The microphone is gated only while somebody is bound to open it again:   *)
(* a running turn of the current epoch, a barge-in under way, or the wake  *)
(* acknowledgement; a turn that lost its epoch does not open it (mic.gate, *)
(* mic.ungate, mic.resume).                                                *)
GateHasAnOwner ==
    gated /\ life = "running" =>
       \/ caller["consumer"].pc = "wake ack"
       \/ barging
       \/ \E t \in Turns : Alive(t) /\ Running(t)

(* No two turns that were answered to the end answered the same utterance,  *)
(* however barge-ins, merges and the smart-turn timer passed it on.        *)
AnsweredOnce ==
    \A i, j \in 1 .. Len(history) :
       i # j /\ history[i][2] = "completed" /\ history[j][2] = "completed" =>
          turn[history[i][1]].heard \cap turn[history[j][1]].heard = {}

(* Without a turn arbiter: one turn runs at a time, each is recorded at     *)
(* most once in the conversation, and none outlives stop().                *)
TurnsEndOnce ==
    ~config.arbiter =>
       /\ Cardinality({t \in Turns : Running(t) /\ t \notin cancelled}) <= 1
       /\ \A i, j \in 1 .. Len(history) : i # j => history[i][1] # history[j][1]
       /\ life = "stopped" => ~\E t \in Turns : Running(t)

(* Every step but the user's and stop()'s happens eventually: recognition,  *)
(* synthesis and the engine's calls end, and the watchdog polls.           *)
LiveSpec ==
    /\ Spec
    /\ WF_vars(EngineServes)
    /\ WF_vars(Greet) /\ WF_vars(HearStart) /\ WF_vars(Identified) /\ WF_vars(WakeAckPlayed)
    /\ WF_vars(Continuing \/ Complete)
    /\ WF_vars(SmartTurnTimeout) /\ WF_vars(TimerTaskRuns) /\ WF_vars(Watchdog)
    /\ WF_vars(StartAfterBargeIn)
    /\ \A c \in Callers : WF_vars(Flushed(c)) /\ WF_vars(BeginAfterBargeIn(c))
    /\ \A t \in Turns : WF_vars(TurnSteps(t))

(* As long as it is not stopped, the session comes back to listening with   *)
(* an open microphone, whatever failed or was cut off meanwhile.           *)
HearsAgain == life = "running" ~> (state = "LISTENING" /\ ~gated) \/ life # "running"

(* interaction_core.py: "no stale chunk can be enqueued *after* the engine  *)
(* buffer is flushed"                                                      *)
NoStaleChunk ==
    \A i, j \in 1 .. Len(calls) :
       i < j /\ calls[i][1] = "stop" /\ calls[j][1] = "play" => Alive(calls[j][2])

(* InteractionCore.stop: "Stop the interaction loop cleanly. Idempotent and *)
(* never leaks tasks."                                                     *)
NoLeakedTurn == life = "stopped" => ~\E t \in Turns : Running(t)

=============================================================================
