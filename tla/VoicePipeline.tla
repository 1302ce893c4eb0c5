---------------------------- MODULE VoicePipeline ----------------------------
(***************************************************************************)
(* voice/pipeline.py and voice/interaction.py used as a turn at a time:    *)
(* run_turn listens, transcribes, asks the agent, synthesizes and plays;   *)
(* handle_barge_in and reset interrupt it from other tasks, and announce   *)
(* speaks in between.  An action is what a task does between two awaits;   *)
(* what it awaits may fail.                                                *)
(***************************************************************************)
EXTENDS Naturals, FiniteSets, PipelineStates

CONSTANTS Turns,            \* the tasks that run turns
          MaxBargeIns,      \* bound: calls of handle_barge_in
          NoOne

VARIABLES
    pipeline,   \* state, epoch (_current_turn_id), interrupted, active (_active_turn_task)
    turns,      \* pc; the epoch it was begun in; told to cancel?; its result
    disturbed,  \* history: turns that somebody interrupted, reset or overtook
    barger, resetter, announcer,
    bargeIns,
    cutOff      \* history: somebody who cleaned up or flushed was cancelled meanwhile, and
                \* no reset was completed since

vars == <<pipeline, turns, disturbed, barger, resetter, announcer, bargeIns, cutOff>>

Awaits == {"capture", "transcribe", "agent", "synthesize", "play"}
Cleanup == {"failing", "unwinding"}

TypeOK ==
    /\ pipeline \in [state : States, epoch : Nat, interrupted : BOOLEAN, active : Turns \cup {NoOne}]
    /\ turns \in [Turns -> [pc : {"new", "ended"} \cup Awaits \cup Cleanup, mine : Nat, cancel : BOOLEAN,
                            result : {"none", "completed", "empty", "interrupted", "error", "cancelled"}]]
    /\ disturbed \subseteq Turns
    /\ barger \in {"idle", "flush"} /\ resetter \in {"idle", "cleanup", "done"}
    /\ announcer \in {"idle", "flush", "synthesize", "play", "done", "refused"}
    /\ cutOff \in BOOLEAN

Init ==
    /\ pipeline = [state |-> "IDLE", epoch |-> 0, interrupted |-> FALSE, active |-> NoOne]
    /\ turns = [t \in Turns |-> [pc |-> "new", mine |-> 0, cancel |-> FALSE, result |-> "none"]]
    /\ disturbed = {}
    /\ barger = "idle" /\ resetter = "idle" /\ announcer = "idle"
    /\ bargeIns = 0 /\ cutOff = FALSE

Alive(t) == turns[t].pc \notin {"new", "ended"}
Living == {t \in Turns : Alive(t)}
Current_IgnoresEpoch(t) == ~pipeline.interrupted

Current(t) == ~pipeline.interrupted /\ pipeline.epoch = turns[t].mine

(* transition_to *)
CanMove(to) == to = pipeline.state \/ to \in Allowed[pipeline.state]

-----------------------------------------------------------------------------
(* run_turn *)

Goes(t, pc) == turns' = [turns EXCEPT ![t].pc = pc]
Ends(t, result) ==
    turns' = [turns EXCEPT ![t].pc = "ended", ![t].result = result, ![t].cancel = FALSE]
Released(t) == IF pipeline.active = t THEN NoOne ELSE pipeline.active

Others == <<disturbed, barger, resetter, announcer, bargeIns, cutOff>>

(* The samples are given, or are captured first. *)
Begin(t) ==
    /\ turns[t].pc = "new" /\ pipeline.state \in {"IDLE", "INTERRUPTED"}
    /\ \E first \in {"capture", "transcribe", "ended"} :
          LET mine == pipeline.epoch + 1
              ended == first = "ended"
          IN  /\ turns' = [turns EXCEPT ![t] =
                              [pc |-> first, mine |-> mine, cancel |-> FALSE,
                               result |-> IF ended THEN "empty" ELSE "none"]]
              /\ pipeline' = [state |-> CASE first = "capture"    -> "LISTENING"
                                          [] first = "transcribe" -> "PROCESSING"
                                          [] ended                -> "IDLE",
                              epoch |-> mine, interrupted |-> FALSE,
                              active |-> IF ended THEN NoOne ELSE t]
    /\ disturbed' = disturbed \cup Living
    /\ UNCHANGED <<barger, resetter, announcer, bargeIns, cutOff>>

(* An exception: the epoch is bumped, the engine is told to stop. *)
Fails(t) ==
    /\ Goes(t, "failing")
    /\ pipeline' = [pipeline EXCEPT !.epoch = @ + 1]

MovesTo(t, state, pc) ==
    IF CanMove(state)
    THEN Goes(t, pc) /\ pipeline' = [pipeline EXCEPT !.state = state]
    ELSE Fails(t)

Finishes(t, result) ==
    IF CanMove("IDLE")
    THEN /\ Ends(t, result)
         /\ pipeline' = [pipeline EXCEPT !.state = "IDLE", !.active = Released(t)]
    ELSE Fails(t)

(* What was awaited succeeds and the turn is still the current one. *)
Proceeds(t) ==
    LET pc == turns[t].pc
    IN  /\ pc \in Awaits /\ ~turns[t].cancel /\ Current(t)
        /\ \/ pc = "capture"    /\ MovesTo(t, "PROCESSING", "transcribe")
           \/ pc = "transcribe" /\ Goes(t, "agent") /\ UNCHANGED pipeline
           \/ pc = "agent"      /\ MovesTo(t, "SPEAKING", "synthesize")
           \/ pc = "synthesize" /\ Goes(t, "play") /\ UNCHANGED pipeline
           \/ pc = "play"       /\ Finishes(t, "completed")
           \/ pc \in {"capture", "transcribe", "agent"} /\ Finishes(t, "empty")
    /\ UNCHANGED Others

Overtaken(t) ==
    /\ turns[t].pc \in Awaits /\ ~turns[t].cancel /\ ~Current(t)
    /\ Ends(t, "interrupted")
    /\ pipeline' = [pipeline EXCEPT !.active = Released(t)]
    /\ UNCHANGED Others

AwaitFails(t) ==
    /\ turns[t].pc \in Awaits /\ ~turns[t].cancel
    /\ Fails(t)
    /\ UNCHANGED Others

FailureHandled(t) ==
    /\ turns[t].pc = "failing" /\ ~turns[t].cancel
    /\ Ends(t, "error")
    /\ pipeline' = [pipeline EXCEPT !.active = Released(t),
                                    !.state = IF "ERROR" \in Allowed[@] THEN "ERROR" ELSE @]
    /\ UNCHANGED Others

(* A cancellation: the turn cleans up; cancelled again, it leaves at once. *)
CancelArrives(t) ==
    /\ turns[t].pc \in Awaits /\ turns[t].cancel
    /\ turns' = [turns EXCEPT ![t].pc = "unwinding", ![t].cancel = FALSE]
    /\ pipeline' = [pipeline EXCEPT !.interrupted = TRUE, !.epoch = @ + 1]
    /\ UNCHANGED Others

CancelledAgain(t) ==
    /\ turns[t].pc \in Cleanup /\ turns[t].cancel
    /\ Ends(t, "cancelled")
    /\ pipeline' = [pipeline EXCEPT !.active = Released(t)]
    /\ UNCHANGED Others

Unwound_Keeps(t) ==
    /\ turns[t].pc = "unwinding" /\ ~turns[t].cancel
    /\ Ends(t, "cancelled")
    /\ pipeline' = [pipeline EXCEPT !.active = Released(t)]
    /\ UNCHANGED Others

Unwound(t) ==
    /\ turns[t].pc = "unwinding" /\ ~turns[t].cancel
    /\ Ends(t, "cancelled")
    /\ pipeline' = [pipeline EXCEPT !.active = Released(t),
          !.state = CASE @ = "SPEAKING" -> "INTERRUPTED"
                      [] @ \notin {"SPEAKING", "INTERRUPTED"} /\ "IDLE" \in Allowed[@] -> "IDLE"
                      [] OTHER -> @]
    /\ UNCHANGED Others

(* The caller of run_turn is cancelled: at an await of the turn, or while    *)
(* it cleans up (stop_audio_playback, stop_audio_capture), and nobody will *)
(* finish the clean-up.                                                    *)
CallerCancelled(t) ==
    /\ Alive(t) /\ ~turns[t].cancel
    /\ turns' = [turns EXCEPT ![t].cancel = TRUE]
    /\ disturbed' = disturbed \cup {t}
    /\ cutOff' = (cutOff \/ turns[t].pc \in Cleanup)
    /\ UNCHANGED <<pipeline, barger, resetter, announcer, bargeIns>>

-----------------------------------------------------------------------------
(* handle_barge_in: invalidate, flush, cancel who is active after the flush *)

Invalidates(interrupted) ==
    /\ pipeline' = [pipeline EXCEPT !.interrupted = interrupted, !.epoch = @ + 1]
    /\ disturbed' = disturbed \cup Living

CancelsActive ==
    turns' = [t \in Turns |-> IF t = pipeline.active THEN [turns[t] EXCEPT !.cancel = TRUE]
                              ELSE turns[t]]
WasActive == IF pipeline.active = NoOne THEN {} ELSE {pipeline.active}

Interrupted(state) ==
    IF state \in {"SPEAKING", "PROCESSING", "LISTENING"} THEN "INTERRUPTED" ELSE state

BargesIn ==
    /\ barger = "idle" /\ bargeIns < MaxBargeIns
    /\ barger' = "flush" /\ bargeIns' = bargeIns + 1
    /\ Invalidates(TRUE)
    /\ UNCHANGED <<turns, resetter, announcer, cutOff>>

BargedIn ==
    /\ barger = "flush"
    /\ barger' = "idle"
    /\ CancelsActive
    /\ disturbed' = disturbed \cup WasActive
    /\ pipeline' = [pipeline EXCEPT !.state = Interrupted(@)]
    /\ UNCHANGED <<resetter, announcer, bargeIns, cutOff>>

Resets ==
    /\ resetter = "idle"
    /\ resetter' = "cleanup"
    /\ Invalidates(FALSE)
    /\ CancelsActive
    /\ UNCHANGED <<barger, announcer, bargeIns, cutOff>>

WasReset ==
    /\ resetter = "cleanup"
    /\ resetter' = "done"
    /\ pipeline' = [pipeline EXCEPT !.state = "IDLE"]
    /\ cutOff' = FALSE
    /\ UNCHANGED <<turns, disturbed, barger, announcer, bargeIns>>

-----------------------------------------------------------------------------
(* VoiceInteractionManager.announce *)

(* An interrupted pipeline must not go straight to PROCESSING: refused. *)
Prepares ==
    /\ announcer' = IF CanMove("PROCESSING") THEN "synthesize" ELSE "refused"
    /\ UNCHANGED <<disturbed, barger, resetter, bargeIns>>

Prepared(state) ==
    IF state \in {"IDLE", "INTERRUPTED"} /\ CanMove("PROCESSING") THEN "PROCESSING" ELSE state

Announces ==
    /\ announcer = "idle"
    /\ pipeline.state \in {"IDLE", "INTERRUPTED"}
    /\ Prepares
    /\ pipeline' = [pipeline EXCEPT !.state = Prepared(@)]
    /\ UNCHANGED <<turns, cutOff>>

AnnouncesOver ==
    /\ announcer = "idle" /\ pipeline.state = "SPEAKING"
    /\ announcer' = "flush"
    /\ Invalidates(TRUE)
    /\ UNCHANGED <<turns, barger, resetter, bargeIns, cutOff>>

InterruptedForAnnouncement ==
    LET now == Interrupted(pipeline.state)
        refused == now = "INTERRUPTED"
    IN  /\ announcer = "flush"
        /\ CancelsActive
        /\ disturbed' = disturbed \cup WasActive
        /\ announcer' = IF refused THEN "refused" ELSE "synthesize"
        /\ pipeline' = [pipeline EXCEPT !.state = IF now = "IDLE" THEN "PROCESSING" ELSE now]
        /\ UNCHANGED <<barger, resetter, bargeIns, cutOff>>

(* The finally: back to IDLE if that is allowed. *)
AnnouncementEnds ==
    /\ announcer' = "done"
    /\ pipeline' = [pipeline EXCEPT !.state = IF "IDLE" \in Allowed[@] THEN "IDLE" ELSE @]

AnnouncementSynthesized ==
    /\ announcer = "synthesize"
    /\ \/ /\ CanMove("SPEAKING")
          /\ announcer' = "play" /\ pipeline' = [pipeline EXCEPT !.state = "SPEAKING"]
       \/ AnnouncementEnds
    /\ UNCHANGED <<turns, disturbed, barger, resetter, bargeIns, cutOff>>

AnnouncementPlayed ==
    /\ announcer = "play"
    /\ AnnouncementEnds
    /\ UNCHANGED <<turns, disturbed, barger, resetter, bargeIns, cutOff>>

(* Whoever interrupts the turn is cancelled at stop_audio_playback: the     *)
(* epoch has moved, but the turn is not cancelled and the state stays.     *)
InterrupterCancelled ==
    /\ \/ barger = "flush" /\ barger' = "idle" /\ UNCHANGED <<resetter, announcer>>
       \/ resetter = "cleanup" /\ resetter' = "done" /\ UNCHANGED <<barger, announcer>>
       \/ announcer = "flush" /\ announcer' = "done" /\ UNCHANGED <<barger, resetter>>
    /\ cutOff' = TRUE
    /\ UNCHANGED <<pipeline, turns, disturbed, bargeIns>>

Next ==
    \/ \E t \in Turns :
          \/ Begin(t) \/ Proceeds(t) \/ Overtaken(t) \/ AwaitFails(t) \/ FailureHandled(t)
          \/ CancelArrives(t) \/ CancelledAgain(t) \/ Unwound(t) \/ CallerCancelled(t)
    \/ BargesIn \/ BargedIn \/ Resets \/ WasReset
    \/ Announces \/ AnnouncesOver \/ InterruptedForAnnouncement
    \/ AnnouncementSynthesized \/ AnnouncementPlayed \/ InterrupterCancelled

Spec == Init /\ [][Next]_vars

-----------------------------------------------------------------------------
(* A turn that reports its answer as spoken was left alone from its         *)
(* beginning to its end: nobody barged in, reset the pipeline or began     *)
(* another turn meanwhile, not even while it was playing (run_turn).       *)
CompletedUndisturbed == \A t \in Turns : turns[t].result = "completed" => t \notin disturbed

(* When nobody is at work the pipeline can be used again: it is not left    *)
(* LISTENING, PROCESSING or SPEAKING by a turn that is gone, whoever       *)
(* interrupted or cancelled whom (run_turn would refuse for ever).  The    *)
(* code does not promise it once somebody was cancelled while it cleaned   *)
(* up or flushed, until a reset is completed.                              *)
NeverLeftBusy ==
    (Living = {} /\ barger = "idle" /\ resetter # "cleanup"
        /\ announcer \in {"idle", "done", "refused"} /\ ~cutOff)
    => pipeline.state \in {"IDLE", "INTERRUPTED", "ERROR"}

(* A priority announcement interrupts what is spoken, and is spoken.        *)
PriorityIsSpoken == announcer # "refused"
=============================================================================
