---------------------------- MODULE MCVoiceParts ----------------------------
(***************************************************************************)
(* Six parts of the voice subsystem that do not call each other, checked   *)
(* in one run: "part" says which of them this behaviour is about, and the  *)
(* others stay as they begin.                                              *)
(***************************************************************************)
EXTENDS Naturals, Sequences, FiniteSets

CONSTANTS Size, MaxConcurrent,
          Onset, PreRoll, Silence, Shortest, Longest, Sustained, Burst, MaxPoll, MaxFrames,
          Turns, MaxBargeIns, NoOne,
          Callers, None, MaxHeard, Window,
          MaxText, MinSentence, MinClause, MinClauseWords, FirstWords, ShortSentence,
          SlowTools, MaxHistory, MaxBackground, MaxSamples, Threshold, MaxTurns, MaxCalls

ASSUME PreRollAssumption == PreRoll \in Nat
ASSUME SizeAssumption == Size \in Nat

(* 15 and 20 characters are what the program is built with. *)
ASSUME SentenceAssumption ==
    MinClause \in Nat /\ MinSentence \in Nat /\ MinClause <= MinSentence

VARIABLES
    part,
    fed, producer, permits, synth, last, slots, sequencer, out, caller, delivered, playQueue,
    player, played, completed, token,
    switch, polling, ingest, burst, speech, loud, listener, frames,
    pipeline, turns, disturbed, barger, resetter, announcer, bargeIns, cutOff,
    kind, rolling, stream, queue, thread, model, whole, cudaFailed, reported, givenUp,
    text, buf, pieces, first,
    contexts, current, counter, history, referents, background, tasks, timings, calls

Deltas == {<<"letter">>, <<"space">>, <<"stop">>, <<"clause">>, <<"digit", "stop">>,
           <<"mark", "newline">>, <<"abbreviation", "stop", "space">>,
           <<"letter", "space", "letter", "mark">>}
Utterances == {{}, {"anaphora"}, {"progress", "heavy"}}

Stream == INSTANCE StreamingTTS
Mic == INSTANCE MicrophoneLoop
Pipe == INSTANCE VoicePipeline
Speech == INSTANCE SpeechProvider
Sentences == INSTANCE SentenceStreamer
Conversation == INSTANCE TurnManager

ASSUME UtterancesAssumption == Utterances \subseteq SUBSET Conversation!Features

streamVars == <<fed, producer, permits, synth, last, slots, sequencer, out, caller, delivered,
                playQueue, player, played, completed, token>>
micVars == <<switch, polling, ingest, burst, speech, loud, listener, frames>>
pipeVars == <<pipeline, turns, disturbed, barger, resetter, announcer, bargeIns, cutOff>>
speechVars == <<kind, rolling, stream, queue, thread, model, whole, cudaFailed, reported,
                givenUp>>
sentenceVars == <<text, buf, pieces, first>>
conversationVars == <<contexts, current, counter, history, referents, background, tasks,
                      timings, calls>>
vars == <<part, streamVars, micVars, pipeVars, speechVars, sentenceVars, conversationVars>>

Init ==
    /\ part \in {"stream", "microphone", "pipeline", "speech", "sentences", "conversation"}
    /\ Stream!Init /\ Mic!Init /\ Pipe!Init /\ Speech!Init
    /\ Sentences!Init /\ Conversation!Init
    /\ part # "stream" => token = "none"
    /\ part # "speech" => kind = "tts" /\ ~rolling

StreamNext ==
    /\ part = "stream" /\ Stream!Next
    /\ UNCHANGED <<part, micVars, pipeVars, speechVars, sentenceVars, conversationVars>>

MicNext ==
    /\ part = "microphone" /\ Mic!Next
    /\ UNCHANGED <<part, streamVars, pipeVars, speechVars, sentenceVars, conversationVars>>

PipeNext ==
    /\ part = "pipeline" /\ Pipe!Next
    /\ UNCHANGED <<part, streamVars, micVars, speechVars, sentenceVars, conversationVars>>

SpeechNext ==
    /\ part = "speech" /\ Speech!Next
    /\ UNCHANGED <<part, streamVars, micVars, pipeVars, sentenceVars, conversationVars>>

SentencesNext ==
    /\ part = "sentences" /\ Sentences!Next
    /\ UNCHANGED <<part, streamVars, micVars, pipeVars, speechVars, conversationVars>>

ConversationNext ==
    /\ part = "conversation" /\ Conversation!Next
    /\ UNCHANGED <<part, streamVars, micVars, pipeVars, speechVars, sentenceVars>>

Next ==
    \/ StreamNext \/ MicNext \/ PipeNext \/ SpeechNext
    \/ SentencesNext \/ ConversationNext

Spec == Init /\ [][Next]_vars /\ (part = "stream" => Stream!Fairness)

StreamImplementsOrderedStream == Stream!ImplementsOrderedStream
StreamTasksEnd == part = "stream" => Stream!EveryTaskEnds
UtterancesAreWhole == Mic!UtterancesAreWhole
NeverLeftBusy == Pipe!NeverLeftBusy
CompletedUndisturbed == Pipe!CompletedUndisturbed
SpokenWhole == Sentences!SpokenWhole
TurnsKeepTheirContext == Conversation!TurnsKeepTheirContext
WholeModelsOneAtATime == Speech!WholeModelsOneAtATime
=============================================================================
