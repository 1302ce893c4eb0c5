------------------------- MODULE VoiceSessionProofs -------------------------
(***************************************************************************)
(* Theorems about VoiceSession, for any number of utterances and sentences *)
(* and every setting of the arbiter and the wake word.                     *)
(***************************************************************************)
EXTENDS VoiceSession, SequenceTheorems, FiniteSetTheorems, TLAPS

-----------------------------------------------------------------------------
(* Types: as weak as the proofs need them *)

TurnRows == [stage : Stages, heard : Sound, context : BOOLEAN, made : Nat, queued : Nat,
             player : BOOLEAN]
CallerRows ==
    [pc : {"idle", "greeting", "created", "analyze", "identify", "wake ack",
           "flush", "reap", "microphone", "ended"},
     then : {"start", "begin", "stop", None}, audio : Sound,
     epoch : Nat, task : Turns \cup {None}]
Events == {<<"start">>, <<"close">>} \cup {<<"end", u>> : u \in Utterances}
Calls == ({"play"} \X Turns) \cup ({"stop"} \X Callers)

Typed ==
    /\ config \in [arbiter : BOOLEAN, wakeword : BOOLEAN]
    /\ said \in 0 .. MaxUtterances
    /\ inSpeech \in BOOLEAN /\ gated \in BOOLEAN /\ barging \in BOOLEAN
    /\ inSpeech => said # 0
    /\ life \in {"running", "stopping", "stopped"}
    /\ epoch \in Nat
    /\ active \in Turns \cup {None} /\ open \in Turns \cup {None}
    /\ activeAudio \in Sound /\ pending \in Sound /\ candidate \in Sound
    /\ smart \in {"off", "armed"}
    /\ caller \in [Callers -> CallerRows]
    /\ turn \in [Turns -> TurnRows]
    /\ cancelled \subseteq Turns
    /\ history \in Seq(Turns \X {"completed", "interrupted"})
    /\ events \in Seq(Events)
    /\ calls \in Seq(Calls)

LEMMA TurnsAreNumbers ==
    /\ MaxEpoch \in Nat
    /\ \A t \in Turns : t \in Nat /\ t # None
    /\ \A e \in Nat : e < MaxEpoch => e + 1 \in Turns
    /\ \A e \in Nat : e # None
BY BoundsAssumption, NoneAssumption DEF Turns, MaxEpoch

LEMMA RowsOfTheStart ==
    /\ NoTurn \in TurnRows
    /\ Resting \in CallerRows
    /\ \A r \in CallerRows : [r EXCEPT !.pc = "greeting"] \in CallerRows
<1>1. NoTurn \in TurnRows
    BY DEF NoTurn, TurnRows, Stages, Sound
<1>2. Resting \in CallerRows
    BY DEF Resting, CallerRows, Sound
<1>3. \A r \in CallerRows : [r EXCEPT !.pc = "greeting"] \in CallerRows
    BY DEF CallerRows
<1> QED
    BY <1>1, <1>2, <1>3

LEMMA TypedStart == Init => Typed
<1> SUFFICES ASSUME Init PROVE Typed
    OBVIOUS
<1>1. caller \in [Callers -> CallerRows] /\ turn \in [Turns -> TurnRows]
    BY RowsOfTheStart DEF Init
<1>2. history \in Seq(Turns \X {"completed", "interrupted"}) /\ calls \in Seq(Calls) /\ events \in Seq(Events)
    BY DEF Init
<1>3. /\ config \in [arbiter : BOOLEAN, wakeword : BOOLEAN]
      /\ inSpeech \in BOOLEAN /\ gated \in BOOLEAN /\ barging \in BOOLEAN /\ ~inSpeech
    BY DEF Init
<1>4. /\ said \in 0 .. MaxUtterances /\ epoch \in Nat
      /\ active \in Turns \cup {None} /\ open \in Turns \cup {None} /\ cancelled \subseteq Turns
      /\ activeAudio \in Sound /\ pending \in Sound /\ candidate \in Sound
      /\ life \in {"running", "stopping", "stopped"} /\ smart \in {"off", "armed"}
    BY BoundsAssumption DEF Init, Sound
<1> QED
    BY <1>1, <1>2, <1>3, <1>4 DEF Typed

-----------------------------------------------------------------------------
(* What a step does, as far as the invariants ask *)

(***************************************************************************)
(* A turn's step changes the turn's row and nothing of the core but what   *)
(* it reports.  It works on, begins to answer, finishes, or is over.       *)
(***************************************************************************)
TurnMoves(t) ==
    /\ UNCHANGED <<config, microphone, life, epoch, barging, held, awake, caller, cancelled>>
    /\ turn' \in [Turns -> TurnRows]
    /\ \A s \in Turns : s # t => turn'[s] = turn[s]
    /\ turn'[t].heard = turn[t].heard
    /\ calls' \in Seq(Calls)
    /\ gated' \in BOOLEAN

AtWork == {"stt", "ack", "acked", "speak", "drain", "closing", "unwind"}

Works(t) ==
    /\ \/ turn'[t].stage = turn[t].stage
       \/ /\ turn[t].stage \in AtWork
          /\ \/ turn'[t].stage \in {"acked", "speak", "drain", "closing"}
             \/ turn'[t].stage = "unwind" /\ t \in cancelled
    /\ turn'[t].context = turn[t].context
    /\ gated' = gated \/ ~gated'
    /\ UNCHANGED <<active, activeAudio, conversation>>

Answers(t) ==
    /\ Alive(t)
    /\ turn[t].stage = "stt" /\ turn'[t].stage \in {"ack", "speak"} /\ turn'[t].context
    /\ open' = t
    /\ UNCHANGED <<active, activeAudio, history>>

Finishes(t) ==
    /\ turn[t].stage \in AtWork /\ turn'[t].stage = "finished"
    /\ IF Alive(t) /\ turn[t].stage # "unwind" THEN ~gated' ELSE gated' = gated
    /\ \/ UNCHANGED conversation /\ (turn[t].stage = "stt" \/ ~turn[t].context)
       \/ Close(t, "interrupted")
       \/ Close(t, "completed") /\ Alive(t)
    /\ UNCHANGED <<active, activeAudio>>

IsOver(t) ==
    /\ turn[t].stage = "finished" /\ turn'[t].stage = "gone"
    /\ active' = IF active = t THEN None ELSE active
    /\ activeAudio' = {}
    /\ UNCHANGED <<gated, conversation>>

OnlyCalls ==
    /\ UNCHANGED <<config, microphone, gated, life, epoch, active, activeAudio, barging, held,
                   awake, caller, turn, cancelled, conversation>>
    /\ calls' \in Seq(Calls)

LEMMA PlayIsACall ==
    ASSUME Typed, NEW t \in Turns
    PROVE  Append(calls, <<"play", t>>) \in Seq(Calls)
BY DEF Typed, Calls

(* A row that was changed in one of the ways the steps change rows. *)
LEMMA RowsChange ==
    ASSUME NEW r \in TurnRows
    PROVE  /\ \A n \in Nat : LET q == [r EXCEPT !.queued = n] IN
                q \in TurnRows /\ q.stage = r.stage /\ q.heard = r.heard /\ q.context = r.context
           /\ LET q == [r EXCEPT !.player = FALSE, !.queued = 0] IN
                q \in TurnRows /\ q.stage = r.stage /\ q.heard = r.heard /\ q.context = r.context
           /\ LET q == [r EXCEPT !.made = @ + 1] IN
                q \in TurnRows /\ q.stage = r.stage /\ q.heard = r.heard /\ q.context = r.context
           /\ \A s \in Stages : LET q == [r EXCEPT !.stage = s] IN
                q \in TurnRows /\ q.stage = s /\ q.heard = r.heard /\ q.context = r.context
<1> USE DEF TurnRows
<1>1. \A n \in Nat : LET q == [r EXCEPT !.queued = n] IN
         q \in TurnRows /\ q.stage = r.stage /\ q.heard = r.heard /\ q.context = r.context
    OBVIOUS
<1>2. LET q == [r EXCEPT !.player = FALSE, !.queued = 0] IN
         q \in TurnRows /\ q.stage = r.stage /\ q.heard = r.heard /\ q.context = r.context
    OBVIOUS
<1>3. LET q == [r EXCEPT !.made = @ + 1] IN
         q \in TurnRows /\ q.stage = r.stage /\ q.heard = r.heard /\ q.context = r.context
    OBVIOUS
<1>4. \A s \in Stages : LET q == [r EXCEPT !.stage = s] IN
         q \in TurnRows /\ q.stage = s /\ q.heard = r.heard /\ q.context = r.context
    OBVIOUS
<1> QED
    BY <1>1, <1>2, <1>3, <1>4

LEMMA ToPlayerEffect ==
    ASSUME Typed, NEW t \in Turns, NEW r \in TurnRows, ToPlayer(t, r)
    PROVE  /\ turn' \in [Turns -> TurnRows] /\ calls' \in Seq(Calls)
           /\ \A s \in Turns : s # t => turn'[s] = turn[s]
           /\ turn'[t].stage = r.stage /\ turn'[t].heard = r.heard /\ turn'[t].context = r.context
<1>t. turn \in [Turns -> TurnRows] /\ calls \in Seq(Calls) /\ r.queued \in Nat
    BY DEF Typed, TurnRows
<1>1. CASE r.player /\ (Playing(t) \/ r.queued > 0)
    <2> DEFINE q == [r EXCEPT !.queued = r.queued + 1]
    <2>1. turn' = [turn EXCEPT ![t] = q] /\ calls' = calls
        BY <1>1 DEF ToPlayer
    <2>2. r.queued + 1 \in Nat
        BY <1>t
    <2>3. q \in TurnRows /\ q.stage = r.stage /\ q.heard = r.heard /\ q.context = r.context
        BY <2>2, RowsChange
    <2> HIDE DEF q
    <2> QED
        BY <1>t, <2>1, <2>3
<1>2. CASE ~(r.player /\ (Playing(t) \/ r.queued > 0))
    BY <1>2, <1>t, PlayIsACall DEF ToPlayer
<1> QED
    BY <1>1, <1>2

LEMMA TurnEffects ==
    ASSUME Typed, NEW t \in Turns, TurnSteps(t) \/ Play(t)
    PROVE  TurnMoves(t) /\ (Works(t) \/ Answers(t) \/ Finishes(t) \/ IsOver(t))
<1> USE DEF Bystanders, held, conversation, microphone, Runs
<1>t. turn \in [Turns -> TurnRows] /\ calls \in Seq(Calls) /\ gated \in BOOLEAN
    BY DEF Typed
<1>f. ASSUME Finish(t)
      PROVE  /\ turn' \in [Turns -> TurnRows] /\ turn'[t].heard = turn[t].heard
             /\ \A s \in Turns : s # t => turn'[s] = turn[s]
             /\ turn'[t].stage = "finished"
    BY <1>t, <1>f DEF Finish, TurnRows, Stages
<1>1. CASE NothingToDo(t)
    BY <1>1, <1>t, <1>f DEF NothingToDo, TurnMoves, Finishes, PlaybackCompleted, AtWork
<1>2. CASE ActSilently(t)
    BY <1>2, <1>t, <1>f DEF ActSilently, TurnMoves, Finishes, PlaybackCompleted, AtWork
<1>3. CASE StartAnswer(t)
    <2>1. PICK s \in {"ack", "speak"} :
             turn' = [turn EXCEPT ![t] = [turn[t] EXCEPT !.stage = s, !.context = TRUE, !.player = TRUE]]
        BY <1>3 DEF StartAnswer
    <2> DEFINE q == [turn[t] EXCEPT !.stage = s, !.context = TRUE, !.player = TRUE]
    <2>2. q \in TurnRows /\ q.stage = s /\ q.heard = turn[t].heard /\ q.context
        BY <1>t DEF TurnRows, Stages
    <2>3. turn' = [turn EXCEPT ![t] = q]
        BY <2>1
    <2> HIDE DEF q
    <2> QED
        BY <1>3, <1>t, <2>2, <2>3 DEF StartAnswer, StartSpeaking, TurnMoves, Answers
<1>4. CASE AckSynthesized(t)
    <2> DEFINE q == [turn[t] EXCEPT !.stage = "acked"]
    <2>1. q \in TurnRows /\ q.stage = "acked" /\ q.heard = turn[t].heard /\ q.context = turn[t].context
        BY <1>t, RowsChange DEF Stages
    <2>2. ToPlayer(t, q)
        BY <1>4 DEF AckSynthesized
    <2> HIDE DEF q
    <2> QED
        BY <1>4, <1>t, <2>1, <2>2, ToPlayerEffect DEF AckSynthesized, TurnMoves, Works, AtWork
<1>5. CASE Acknowledged(t)
    BY <1>5, <1>t DEF Acknowledged, TurnMoves, Works, AtWork, TurnRows, Stages
<1>6. CASE Synthesized(t)
    <2> DEFINE q == [turn[t] EXCEPT !.made = @ + 1]
    <2>1. q \in TurnRows /\ q.stage = turn[t].stage /\ q.heard = turn[t].heard /\ q.context = turn[t].context
        BY <1>t, RowsChange
    <2>2. ASSUME Alive(t) PROVE ToPlayer(t, q)
        BY <1>6, <2>2 DEF Synthesized
    <2> HIDE DEF q
    <2>3. CASE Alive(t)
        BY <1>6, <1>t, <2>1, <2>2, <2>3, ToPlayerEffect DEF Synthesized, TurnMoves, Works, AtWork
    <2>4. CASE ~Alive(t)
        <3> DEFINE p == [turn[t] EXCEPT !.stage = "closing", !.queued = 0, !.player = FALSE]
        <3>1. p \in TurnRows /\ p.stage = "closing" /\ p.heard = turn[t].heard /\ p.context = turn[t].context
            BY <1>t DEF TurnRows, Stages
        <3>2. turn' = [turn EXCEPT ![t] = p] /\ UNCHANGED calls
            BY <1>6, <2>4 DEF Synthesized
        <3> HIDE DEF p
        <3> QED
            BY <1>6, <1>t, <3>1, <3>2 DEF Synthesized, TurnMoves, Works, AtWork
    <2> QED
        BY <2>3, <2>4
<1>7. CASE AnswerEnds(t)
    BY <1>7, <1>t DEF AnswerEnds, TurnMoves, Works, AtWork, TurnRows, Stages
<1>8. CASE Drained(t)
    BY <1>8, <1>t DEF Drained, PlaybackCompleted, TurnMoves, Works, AtWork, TurnRows, Stages
<1>9. CASE AnswerFails(t)
    BY <1>9, <1>t, <1>f DEF AnswerFails, TurnMoves, Finishes, PlaybackCompleted, AtWork
<1>10. CASE Closed(t)
    BY <1>10, <1>t, <1>f DEF Closed, Close, TurnMoves, Finishes, PlaybackCompleted, AtWork
<1>11. CASE CancelArrives(t)
    BY <1>11, <1>t DEF CancelArrives, PlaybackCompleted, TurnMoves, Works, AtWork, TurnRows, Stages
<1>12. CASE Unwound(t)
    BY <1>12, <1>t, <1>f DEF Unwound, TurnMoves, Finishes, AtWork
<1>13. CASE TurnDone(t)
    BY <1>13, <1>t DEF TurnDone, TurnMoves, IsOver, TurnRows, Stages
<1>14. CASE Play(t)
    <2> DEFINE q == [turn[t] EXCEPT !.queued = turn[t].queued - 1]
    <2>1. turn[t].queued - 1 \in Nat
        BY <1>14, <1>t DEF Play, TurnRows
    <2>2. q \in TurnRows /\ q.stage = turn[t].stage /\ q.heard = turn[t].heard /\ q.context = turn[t].context
        BY <1>t, <2>1, RowsChange
    <2>3. turn' = [turn EXCEPT ![t] = q]
        BY <1>14 DEF Play
    <2> HIDE DEF q
    <2> QED
        BY <1>14, <1>t, <2>2, <2>3, PlayIsACall DEF Play, TurnMoves, Works
<1> QED
    BY <1>1, <1>2, <1>3, <1>4, <1>5, <1>6, <1>7, <1>8, <1>9, <1>10, <1>11, <1>12, <1>13, <1>14
       DEF TurnSteps

LEMMA EngineEffects ==
    ASSUME Typed, EngineServes \/ EngineFails
    PROVE  OnlyCalls \/ \E t \in Turns : TurnMoves(t) /\ Works(t)
<1> USE DEF Bystanders, held, conversation, microphone
<1>t. turn \in [Turns -> TurnRows] /\ calls \in Seq(Calls) /\ calls # <<>> /\ gated \in BOOLEAN
    BY DEF Typed, EngineServes, EngineFails
<1>c. Tail(calls) \in Seq(Calls) /\ Head(calls) \in Calls
    BY <1>t
<1>1. CASE EngineServes
    BY <1>1, <1>c DEF EngineServes, OnlyCalls
<1>2. CASE EngineFails /\ UNCHANGED <<turn, gated>>
    BY <1>2, <1>c DEF EngineFails, OnlyCalls
<1>3. CASE EngineFails /\ ~UNCHANGED <<turn, gated>>
    <2>1. Head(calls)[2] \in Turns
        BY <1>3, <1>c DEF EngineFails, Calls
    <2> DEFINE t == Head(calls)[2]
               q == [turn[t] EXCEPT !.player = FALSE, !.queued = 0]
    <2>2. q \in TurnRows /\ q.stage = turn[t].stage /\ q.heard = turn[t].heard /\ q.context = turn[t].context
        BY <1>t, <2>1, RowsChange
    <2>3. turn' = [turn EXCEPT ![t] = q] /\ t \in Turns
        BY <1>3, <2>1 DEF EngineFails
    <2>4. gated' \in BOOLEAN /\ (gated' = gated \/ ~gated')
        BY <1>3, <1>t DEF EngineFails, PlaybackCompleted
    <2>5. /\ UNCHANGED <<config, microphone, life, epoch, active, activeAudio, barging, held, awake,
                        caller, cancelled, conversation>>
          /\ calls' = Tail(calls)
        BY <1>3 DEF EngineFails
    <2> HIDE DEF t, q
    <2> QED
        BY <1>c, <1>t, <2>2, <2>3, <2>4, <2>5 DEF TurnMoves, Works
<1> QED
    BY <1>1, <1>2, <1>3

(***************************************************************************)
(* The core invalidates the epoch and waits for the turn that was active,  *)
(* or begins the turn of the next epoch.                                   *)
(***************************************************************************)
Invalidates(c, then, audio) ==
    /\ epoch' = epoch + 1
    /\ caller' \in [Callers -> CallerRows]
    /\ \A d \in Callers : d # c => caller'[d] = caller[d]
    /\ caller'[c].pc \in {"flush", "reap"} /\ caller'[c].then = then /\ caller'[c].audio = audio
    /\ caller'[c].task = IF Done(active) THEN None ELSE active
    /\ cancelled' \in {cancelled, cancelled \cup ({caller'[c].task} \ {None})}
    /\ calls' \in Seq(Calls)

Begins(audio) ==
    /\ epoch' = epoch + 1 /\ active' = epoch + 1 /\ epoch + 1 \in Turns
    /\ pending' = {}
    /\ activeAudio' \in {audio, audio \cup pending}
    /\ turn' \in [Turns -> TurnRows]
    /\ \A s \in Turns : s # epoch + 1 => turn'[s] = turn[s]
    /\ turn'[epoch + 1].stage = "stt" /\ turn'[epoch + 1].heard = activeAudio'

(* A coroutine goes on to p with audio. *)
Goes(c, p, audio) ==
    /\ caller' \in [Callers -> CallerRows]
    /\ \A d \in Callers : d # c => caller'[d] = caller[d]
    /\ caller'[c].pc = p /\ caller'[c].audio = audio /\ caller'[c].task \in {caller[c].task, None}

Rests(c) == Goes(c, "idle", {})

LEMMA RestEffect ==
    ASSUME Typed, NEW c \in Callers, Rest(c)
    PROVE  Rests(c)
<1>1. Resting \in CallerRows /\ Resting.pc = "idle" /\ Resting.audio = {} /\ Resting.task = None
    BY RowsOfTheStart DEF Resting
<1>2. caller \in [Callers -> CallerRows] /\ caller' = [caller EXCEPT ![c] = Resting]
    BY DEF Typed, Rest
<1> QED
    BY <1>1, <1>2 DEF Rests, Goes

LEMMA CallersGo ==
    ASSUME Typed, NEW audio \in Sound
    PROVE  /\ caller' = [caller EXCEPT !["consumer"].pc = "ended"] =>
                 Goes("consumer", "ended", caller["consumer"].audio)
           /\ \A p \in {"identify", "analyze"} :
                 caller' = [caller EXCEPT !["consumer"].pc = p, !["consumer"].audio = audio] =>
                    Goes("consumer", p, audio)
           /\ caller' = [caller EXCEPT !["consumer"] = [Resting EXCEPT !.pc = "wake ack"]] =>
                 Goes("consumer", "wake ack", {})
           /\ caller' = [caller EXCEPT !["timer"].pc = "created", !["timer"].audio = audio] =>
                 Goes("timer", "created", audio)
           /\ caller' = [caller EXCEPT !["stopper"] = [Resting EXCEPT !.pc = "microphone"]] =>
                 Goes("stopper", "microphone", {})
<1>t. caller \in [Callers -> CallerRows] /\ {"consumer", "timer", "stopper"} \subseteq Callers
    BY DEF Typed, Callers
<1>1. ASSUME caller' = [caller EXCEPT !["consumer"].pc = "ended"]
      PROVE  Goes("consumer", "ended", caller["consumer"].audio)
    BY <1>t, <1>1 DEF CallerRows, Goes
<1>2. ASSUME NEW p \in {"identify", "analyze"},
             caller' = [caller EXCEPT !["consumer"].pc = p, !["consumer"].audio = audio]
      PROVE  Goes("consumer", p, audio)
    BY <1>t, <1>2 DEF CallerRows, Goes
<1>3. \A p \in {"wake ack", "microphone"} :
         LET r == [Resting EXCEPT !.pc = p] IN
         r \in CallerRows /\ r.pc = p /\ r.audio = {} /\ r.task = None
    BY RowsOfTheStart DEF CallerRows, Resting
<1>4. ASSUME caller' = [caller EXCEPT !["consumer"] = [Resting EXCEPT !.pc = "wake ack"]]
      PROVE  Goes("consumer", "wake ack", {})
    BY <1>t, <1>3, <1>4 DEF Goes
<1>5. ASSUME caller' = [caller EXCEPT !["timer"].pc = "created", !["timer"].audio = audio]
      PROVE  Goes("timer", "created", audio)
    BY <1>t, <1>5 DEF CallerRows, Goes
<1>6. ASSUME caller' = [caller EXCEPT !["stopper"] = [Resting EXCEPT !.pc = "microphone"]]
      PROVE  Goes("stopper", "microphone", {})
    BY <1>t, <1>3, <1>6 DEF Goes
<1> QED
    BY <1>1, <1>2, <1>4, <1>5, <1>6

LEMMA InvalidateEffect ==
    ASSUME Typed, NEW c \in Callers, NEW then \in {"start", "begin", "stop"}, NEW audio \in Sound,
           Invalidate(c, then, audio)
    PROVE  Invalidates(c, then, audio)
<1> DEFINE w == [pc |-> IF playbackActive THEN "flush" ELSE "reap", then |-> then,
                 audio |-> audio, epoch |-> epoch + 1,
                 task |-> IF Done(active) THEN None ELSE active]
<1>1. /\ w \in CallerRows /\ w.pc \in {"flush", "reap"} /\ w.then = then /\ w.audio = audio
      /\ w.task = IF Done(active) THEN None ELSE active
    <2> DEFINE pc == IF playbackActive THEN "flush" ELSE "reap"
               task == IF Done(active) THEN None ELSE active
    <2>1. pc \in {"flush", "reap"} /\ task \in Turns \cup {None} /\ epoch + 1 \in Nat
        BY DEF Typed
    <2> HIDE DEF pc, task
    <2>2. [pc |-> pc, then |-> then, audio |-> audio, epoch |-> epoch + 1, task |-> task] \in CallerRows
        BY <2>1 DEF CallerRows
    <2>3. w = [pc |-> pc, then |-> then, audio |-> audio, epoch |-> epoch + 1, task |-> task]
        BY DEF pc, task
    <2> QED
        BY <2>1, <2>2, <2>3 DEF task
<1>2. /\ epoch' = epoch + 1 /\ caller' = [caller EXCEPT ![c] = w]
      /\ IF playbackActive
         THEN calls' = Append(calls, <<"stop", c>>) /\ UNCHANGED cancelled
         ELSE /\ cancelled' = cancelled \cup ({w.task} \ {None})
              /\ UNCHANGED calls
    BY DEF Invalidate
<1> HIDE DEF w
<1>3. Append(calls, <<"stop", c>>) \in Seq(Calls) /\ calls \in Seq(Calls)
    BY DEF Typed, Calls
<1>4. caller' \in [Callers -> CallerRows] /\ caller'[c] = w
      /\ \A d \in Callers : d # c => caller'[d] = caller[d]
    BY <1>1, <1>2 DEF Typed
<1> QED
    BY <1>1, <1>2, <1>3, <1>4 DEF Invalidates

LEMMA InvalidatesTyped ==
    ASSUME Typed, NEW c \in Callers, NEW then, NEW audio, Invalidates(c, then, audio)
    PROVE  /\ cancelled' \subseteq Turns /\ epoch' \in Nat
           /\ caller' \in [Callers -> CallerRows] /\ calls' \in Seq(Calls)
<1>1. caller'[c].task \in Turns \cup {None}
    BY DEF Invalidates, CallerRows
<1> QED
    BY <1>1 DEF Invalidates, Typed

LEMMA NewTurnEffect ==
    ASSUME Typed, NEW audio \in Sound, NEW from, NewTurn(audio, from)
    PROVE  Begins(audio)
<1>1. PICK heard \in {audio, audio \cup pending} :
          /\ activeAudio' = heard
          /\ turn' = [turn EXCEPT ![epoch + 1] = [NoTurn EXCEPT !.stage = "stt", !.heard = heard]]
    BY DEF NewTurn
<1> DEFINE r == [NoTurn EXCEPT !.stage = "stt", !.heard = heard]
<1>2. heard \in Sound
    BY DEF Typed, Sound
<1>3. r \in TurnRows /\ r.stage = "stt" /\ r.heard = heard
    <2>1. NoTurn \in TurnRows
        BY RowsOfTheStart
    <2>2. r \in TurnRows
        BY <1>2, <2>1 DEF TurnRows, Stages
    <2>3. r.stage = "stt" /\ r.heard = heard
        BY <2>1 DEF TurnRows
    <2> QED
        BY <2>2, <2>3
<1>4. turn' = [turn EXCEPT ![epoch + 1] = r] /\ turn \in [Turns -> TurnRows]
    BY <1>1 DEF Typed
<1>5. epoch + 1 \in Turns
    BY TurnsAreNumbers DEF NewTurn, Typed
<1> HIDE DEF r
<1> QED
    BY <1>1, <1>3, <1>4, <1>5 DEF NewTurn, Begins

(* The three outcomes of _begin_turn: the session is over, a turn is in the *)
(* way, or the turn begins.                                                 *)
Returns(c) ==
    /\ life # "running"
    /\ Rests(c)
    /\ UNCHANGED <<gated, epoch, active, activeAudio, barging, pending, turn, cancelled,
                   conversation, calls>>

Interrupts(c, then, audio) ==
    /\ Invalidates(c, then, audio)
    /\ barging'
    /\ pending' \in Sound /\ pending' \subseteq pending \cup activeAudio
    /\ UNCHANGED <<gated, active, activeAudio, turn, conversation>>

StartsTurn(c, audio) ==
    /\ life = "running" /\ Done(active)
    /\ Begins(audio)
    /\ Rests(c)
    /\ UNCHANGED <<gated, barging, cancelled, conversation, calls>>

LEMMA BargeInEffect ==
    ASSUME Typed, NEW c \in Callers, NEW then \in {"start", "begin", "stop"}, NEW audio \in Sound,
           BargeIn(c, then, audio)
    PROVE  Interrupts(c, then, audio)
<1>1. Invalidates(c, then, audio)
    BY InvalidateEffect DEF BargeIn
<1>2. pending' \in Sound /\ pending' \subseteq pending \cup activeAudio
    BY DEF BargeIn, Typed, Sound
<1> QED
    BY <1>1, <1>2 DEF BargeIn, Interrupts, conversation

LEMMA BeginTurnEffect ==
    ASSUME Typed, NEW c \in Callers, NEW audio \in Sound, BeginTurn(c, audio)
    PROVE  /\ UNCHANGED <<config, life>>
           /\ \/ Returns(c)
              \/ life = "running" /\ ~Done(active) /\ Interrupts(c, "begin", audio)
              \/ StartsTurn(c, audio)
<1>1. ASSUME Rest(c) PROVE Rests(c)
    BY <1>1, RestEffect
<1>2. ASSUME BargeIn(c, "begin", audio) PROVE Interrupts(c, "begin", audio)
    BY <1>2, BargeInEffect
<1>3. ASSUME NewTurn(audio, state) PROVE Begins(audio)
    BY <1>3, NewTurnEffect
<1> QED
    BY <1>1, <1>2, <1>3 DEF BeginTurn, Returns, StartsTurn

(* What is typed of what a call of _begin_turn changes. *)
LEMMA BeginTurnTyped ==
    ASSUME Typed, NEW c \in Callers, NEW audio \in Sound,
           Returns(c) \/ Interrupts(c, "begin", audio) \/ StartsTurn(c, audio)
    PROVE  /\ gated' \in BOOLEAN /\ barging' \in BOOLEAN /\ epoch' \in Nat
           /\ active' \in Turns \cup {None} /\ open' \in Turns \cup {None}
           /\ activeAudio' \in Sound /\ pending' \in Sound
           /\ caller' \in [Callers -> CallerRows] /\ turn' \in [Turns -> TurnRows]
           /\ cancelled' \subseteq Turns
           /\ history' \in Seq(Turns \X {"completed", "interrupted"}) /\ calls' \in Seq(Calls)
<1>1. CASE Returns(c)
    BY <1>1 DEF Typed, Returns, Rests, Goes, conversation
<1>2. CASE Interrupts(c, "begin", audio)
    BY <1>2 DEF Typed, Interrupts, Invalidates, conversation
<1>3. CASE StartsTurn(c, audio)
    BY <1>3 DEF Typed, StartsTurn, Begins, Rests, Goes, conversation, Sound
<1> QED
    BY <1>1, <1>2, <1>3

-----------------------------------------------------------------------------
(* Every step keeps the types *)

LEMMA TypedMicrophone ==
    ASSUME Typed, SpeechStarts \/ SpeechEnds \/ Stopped
    PROVE  Typed'
<1> USE DEF microphone, held, conversation
<1>e. \A q \in Seq(Events), v \in Events : Append(q, v) \in Seq(Events)
    OBVIOUS
<1>s. inSpeech => <<"end", said>> \in Events
    BY BoundsAssumption DEF Typed, Events, Utterances
<1>c. <<"start">> \in Events /\ <<"close">> \in Events
    BY DEF Events
<1>1. CASE SpeechStarts
    <2>1. events' \in Seq(Events)
        BY <1>1, <1>e, <1>c DEF SpeechStarts, Typed
    <2>2. said' \in 0 .. MaxUtterances /\ said' # 0
        BY <1>1, BoundsAssumption DEF SpeechStarts, Typed
    <2> QED
        BY <1>1, <2>1, <2>2 DEF SpeechStarts, Typed
<1>2. CASE SpeechEnds
    <2>1. events' \in Seq(Events)
        BY <1>2, <1>e, <1>s DEF SpeechEnds, Typed
    <2> QED
        BY <1>2, <2>1 DEF SpeechEnds, Typed
<1>3. CASE Stopped
    <2>1. /\ events \in Seq(Events) /\ << <<"close">> >> \in Seq(Events)
          /\ inSpeech => << <<"end", said>>, <<"close">> >> \in Seq(Events)
        BY <1>s, <1>c DEF Typed
    <2>2. events' \in Seq(Events)
        BY <1>3, <2>1, ConcatProperties DEF Stopped
    <2>3. Rests("stopper")
        BY <1>3, RestEffect DEF Stopped, Callers
    <2> QED
        BY <1>3, <2>2, <2>3 DEF Stopped, Typed, Rests, Goes
<1> QED
    BY <1>1, <1>2, <1>3

LEMMA ConsumesEffect ==
    ASSUME Typed, NEW event, Consumes(event)
    PROVE  /\ events # <<>> /\ events' = Tail(events) /\ events' \in Seq(Events)
           /\ Head(events) \in Events /\ event = Head(events)
           /\ UNCHANGED <<said, inSpeech>>
BY DEF Typed, Consumes

LEMMA FlushedEffect ==
    ASSUME Typed, NEW c \in Callers, Flushed(c)
    PROVE  /\ caller[c].pc = "flush"
           /\ caller' \in [Callers -> CallerRows]
           /\ \A d \in Callers : d # c => caller'[d] = caller[d]
           /\ caller'[c].pc = "reap" /\ caller'[c].then = caller[c].then
           /\ caller'[c].audio = caller[c].audio
           /\ caller'[c].task = IF Done(caller[c].task) THEN None ELSE caller[c].task
           /\ cancelled' = cancelled \cup ({caller'[c].task} \ {None})
<1> DEFINE task == IF Done(caller[c].task) THEN None ELSE caller[c].task
<1>1. caller \in [Callers -> CallerRows] /\ task \in Turns \cup {None}
    BY DEF Typed, CallerRows
<1>2. ~Done(caller[c].task) => caller[c].task # None
    BY DEF Done
<1>3. /\ caller' = [caller EXCEPT ![c].pc = "reap", ![c].task = task]
      /\ cancelled' = IF Done(caller[c].task) THEN cancelled ELSE cancelled \cup {caller[c].task}
      /\ caller[c].pc = "flush"
    BY DEF Flushed
<1>4. cancelled' = cancelled \cup ({task} \ {None})
    BY <1>2, <1>3
<1> HIDE DEF task
<1>5. /\ caller' \in [Callers -> CallerRows]
      /\ \A d \in Callers : d # c => caller'[d] = caller[d]
      /\ caller'[c].pc = "reap" /\ caller'[c].then = caller[c].then
      /\ caller'[c].audio = caller[c].audio /\ caller'[c].task = task
    BY <1>1, <1>3 DEF CallerRows
<1> QED
    BY <1>3, <1>4, <1>5 DEF task

LEMMA ClosesTyped ==
    ASSUME Typed, CloseOpen
    PROVE  open' \in Turns \cup {None} /\ history' \in Seq(Turns \X {"completed", "interrupted"})
<1>1. CASE open = None
    BY <1>1 DEF Typed, CloseOpen, conversation
<1>2. CASE open # None
    <2>1. <<open, "interrupted">> \in Turns \X {"completed", "interrupted"}
        BY <1>2 DEF Typed
    <2>2. open' = None /\ history' = Append(history, <<open, "interrupted">>)
        BY <1>2 DEF CloseOpen, Close
    <2> QED
        BY <2>1, <2>2 DEF Typed
<1> QED
    BY <1>1, <1>2

LEMMA TypedCore ==
    ASSUME Typed, Core
    PROVE  Typed'
<1> USE DEF microphone, held, conversation
<1>c. {"consumer", "timer", "stopper"} = Callers
    BY DEF Callers
<1>a. \A c \in Callers : caller[c].audio \in Sound
    BY DEF Typed, CallerRows
<1>e. {} \in Sound
    BY DEF Sound
<1>1. CASE Greet
    BY <1>1, <1>c, RestEffect DEF Greet, Typed, Rests, Goes
<1>2. CASE Leave
    <2>1. PICK event : Consumes(event)
        BY <1>2 DEF Leave
    <2>2. events' \in Seq(Events) /\ UNCHANGED <<said, inSpeech>>
        BY <2>1, ConsumesEffect
    <2>3. Goes("consumer", "ended", caller["consumer"].audio)
        BY <1>2, <1>e, CallersGo DEF Leave
    <2> QED
        BY <1>2, <2>2, <2>3 DEF Leave, Typed, Goes
<1>3. CASE HearStart
    <2>1. events' \in Seq(Events) /\ UNCHANGED <<said, inSpeech>>
        BY <1>3, ConsumesEffect DEF HearStart
    <2>2. ASSUME BargeIn("consumer", "start", {}) PROVE Interrupts("consumer", "start", {})
        BY <2>2, <1>c, <1>e, BargeInEffect
    <2>3. CASE BargeIn("consumer", "start", {})
        <3>1. cancelled' \subseteq Turns /\ epoch' \in Nat /\ caller' \in [Callers -> CallerRows]
              /\ calls' \in Seq(Calls) /\ pending' \in Sound /\ barging'
              /\ UNCHANGED <<gated, active, activeAudio, turn, conversation>>
            BY <1>c, <2>2, <2>3, InvalidatesTyped DEF Interrupts
        <3> QED
            BY <1>3, <2>1, <3>1 DEF HearStart, Typed
    <2>4. CASE Done(active) /\ UNCHANGED <<gated, epoch, active, activeAudio, barging, pending, caller,
                                           turn, cancelled, conversation, calls>>
        BY <1>3, <2>1, <2>4 DEF HearStart, Typed
    <2> QED
        BY <1>3, <2>3, <2>4 DEF HearStart
<1>4. CASE Identified
    <2>1. CASE Rest("consumer") /\ UNCHANGED <<gated, epoch, active, activeAudio, barging, pending, turn,
                                               cancelled, conversation, calls, config, life>>
        BY <1>4, <1>c, <1>e, <2>1, RestEffect DEF Identified, Typed, Rests, Goes
    <2>2. CASE BeginTurn("consumer", caller["consumer"].audio)
        BY <1>4, <1>c, <1>a, <1>e, <2>2, BeginTurnEffect, BeginTurnTyped DEF Identified, Typed
    <2>3. CASE /\ gated' = TRUE
               /\ caller' = [caller EXCEPT !["consumer"] = [Resting EXCEPT !.pc = "wake ack"]]
               /\ UNCHANGED <<epoch, active, activeAudio, barging, pending, turn, cancelled,
                              conversation, calls, config, life>>
        BY <1>4, <1>e, <2>3, CallersGo DEF Identified, Typed, Goes
    <2> QED
        BY <1>4, <2>1, <2>2, <2>3 DEF Identified
<1>5. CASE WakeAckPlayed
    BY <1>5, <1>c, RestEffect DEF WakeAckPlayed, Typed, Rests, Goes
<1>6. CASE Continuing
    BY <1>6, <1>c, <1>a, RestEffect DEF Continuing, Typed, Rests, Goes
<1>7. CASE Complete
    BY <1>7, <1>c, <1>a, <1>e, BeginTurnEffect, BeginTurnTyped DEF Complete, Typed
<1>8. CASE SmartTurnTimeout
    BY <1>8, <1>e, CallersGo DEF SmartTurnTimeout, Typed, Goes
<1>9. CASE TimerTaskRuns
    BY <1>9, <1>c, <1>a, <1>e, BeginTurnEffect, BeginTurnTyped DEF TimerTaskRuns, Typed
<1>10. CASE WakeWordTimeout
    BY <1>10 DEF WakeWordTimeout, Typed
<1>11. CASE Watchdog
    BY <1>11 DEF Watchdog, Typed
<1>12. CASE StartAfterBargeIn
    BY <1>12, <1>c, <1>e, RestEffect, ClosesTyped DEF StartAfterBargeIn, BargedIn, Typed, Rests, Goes
<1>13. CASE Stop
    <2>1. Invalidates("stopper", "stop", {})
        BY <1>13, <1>c, <1>e, InvalidateEffect DEF Stop
    <2>2. cancelled' \subseteq Turns /\ epoch' \in Nat /\ caller' \in [Callers -> CallerRows]
          /\ calls' \in Seq(Calls)
        BY <1>c, <2>1, InvalidatesTyped
    <2> QED
        BY <1>13, <2>2 DEF Stop, Typed
<1>14. CASE StopMicrophone
    BY <1>14, <1>e, CallersGo, ClosesTyped DEF StopMicrophone, Typed, Goes
<1>15. CASE Stopped
    BY <1>15, TypedMicrophone
<1>16. ASSUME NEW u \in Utterances, HearEnd(u) PROVE Typed'
    <2> DEFINE audio == candidate \cup {u}
    <2>1. events' \in Seq(Events) /\ UNCHANGED <<said, inSpeech, candidate>> /\ smart' = "off"
        BY <1>16, ConsumesEffect DEF HearEnd
    <2>2. audio \in Sound
        BY DEF Typed, Sound
    <2>3. CASE BeginTurn("consumer", audio)
        BY <1>c, <2>1, <2>2, <2>3, BeginTurnEffect, BeginTurnTyped DEF Typed
    <2>4. CASE \E p \in {"identify", "analyze"} :
                /\ caller' = [caller EXCEPT !["consumer"].pc = p, !["consumer"].audio = audio]
                /\ UNCHANGED <<config, gated, life, epoch, active, activeAudio, barging, pending,
                               turn, cancelled, conversation, calls>>
        BY <2>1, <2>2, <2>4, CallersGo DEF Typed, Goes
    <2> QED
        BY <1>16, <2>3, <2>4 DEF HearEnd
<1>17. ASSUME NEW c \in Callers, Flushed(c) PROVE Typed'
    <2>1. cancelled' \subseteq Turns
        <3>1. caller'[c].task \in Turns \cup {None}
            BY <1>17, FlushedEffect DEF CallerRows
        <3> QED
            BY <1>17, <3>1, FlushedEffect DEF Typed
    <2> QED
        BY <1>17, <2>1, FlushedEffect DEF Flushed, Typed
<1>18. ASSUME NEW c \in Callers, BeginAfterBargeIn(c) PROVE Typed'
    <2>1. Rests(c) /\ Begins(caller[c].audio)
        BY <1>18, <1>a, RestEffect, NewTurnEffect DEF BeginAfterBargeIn, BargedIn
    <2>2. activeAudio' \in Sound
        BY <1>a, <2>1 DEF Begins, Typed, Sound
    <2>3. /\ open' \in Turns \cup {None} /\ history' \in Seq(Turns \X {"completed", "interrupted"})
          /\ gated' = FALSE /\ barging' = FALSE /\ candidate' = {}
        BY <1>18, ClosesTyped DEF BeginAfterBargeIn, BargedIn
    <2>4. /\ epoch' \in Nat /\ active' \in Turns \cup {None} /\ pending' = {}
          /\ caller' \in [Callers -> CallerRows] /\ turn' \in [Turns -> TurnRows]
        BY <2>1 DEF Begins, Rests, Goes, Typed
    <2> QED
        BY <1>18, <1>e, <2>2, <2>3, <2>4 DEF BeginAfterBargeIn, Typed
<1> QED
    BY <1>1, <1>2, <1>3, <1>4, <1>5, <1>6, <1>7, <1>8, <1>9, <1>10, <1>11, <1>12, <1>13, <1>14,
       <1>15, <1>16, <1>17, <1>18 DEF Core

LEMMA TypedTurn ==
    ASSUME Typed, NEW t \in Turns, TurnMoves(t), Works(t) \/ Answers(t) \/ Finishes(t) \/ IsOver(t)
    PROVE  Typed'
<1>t. /\ UNCHANGED <<config, microphone, life, epoch, barging, held, caller, cancelled>>
      /\ turn' \in [Turns -> TurnRows] /\ calls' \in Seq(Calls) /\ gated' \in BOOLEAN
    BY DEF TurnMoves
<1>1. /\ active' \in Turns \cup {None} /\ open' \in Turns \cup {None} /\ activeAudio' \in Sound
      /\ history' \in Seq(Turns \X {"completed", "interrupted"})
    <2>1. ASSUME NEW status \in {"completed", "interrupted"}, Close(t, status)
          PROVE  open' = None /\ history' \in Seq(Turns \X {"completed", "interrupted"})
        <3>1. <<t, status>> \in Turns \X {"completed", "interrupted"}
            OBVIOUS
        <3> QED
            BY <2>1, <3>1 DEF Close, Typed
    <2>2. CASE Works(t)
        BY <2>2 DEF Works, Typed, conversation
    <2>3. CASE Answers(t)
        BY <2>3 DEF Answers, Typed
    <2>4. CASE Finishes(t)
        BY <2>1, <2>4 DEF Finishes, Typed, conversation
    <2>5. CASE IsOver(t)
        BY <2>5 DEF IsOver, Typed, conversation, Sound
    <2> QED
        BY <2>2, <2>3, <2>4, <2>5
<1> QED
    BY <1>t, <1>1 DEF Typed, microphone, held

LEMMA TypedStep == Typed /\ [Next]_vars => Typed'
<1> SUFFICES ASSUME Typed, [Next]_vars PROVE Typed'
    OBVIOUS
<1>1. CASE SpeechStarts \/ SpeechEnds
    BY <1>1, TypedMicrophone
<1>2. CASE Core
    BY <1>2, TypedCore
<1>3. ASSUME NEW t \in Turns, TurnSteps(t) \/ Play(t) PROVE Typed'
    BY <1>3, TurnEffects, TypedTurn
<1>4. CASE EngineServes \/ EngineFails
    <2>1. CASE OnlyCalls
        BY <2>1 DEF OnlyCalls, Typed, microphone, held, conversation
    <2> QED
        BY <1>4, <2>1, EngineEffects, TypedTurn
<1>5. CASE UNCHANGED vars
    BY <1>5 DEF vars, Typed, microphone, held, conversation
<1> QED
    BY <1>1, <1>2, <1>3, <1>4, <1>5 DEF Next

LEMMA ConfigStays ==
    ASSUME Typed, [Next]_vars
    PROVE  UNCHANGED config
<1>1. CASE SpeechStarts \/ SpeechEnds
    BY <1>1 DEF SpeechStarts, SpeechEnds
<1>2. CASE Core
    BY <1>2 DEF Core, Greet, Leave, HearStart, Identified, WakeAckPlayed, Continuing, Complete,
                SmartTurnTimeout, TimerTaskRuns, WakeWordTimeout, Watchdog, StartAfterBargeIn, Stop,
                StopMicrophone, Stopped, HearEnd, Flushed, BeginAfterBargeIn, BeginTurn
<1>3. ASSUME NEW t \in Turns, TurnSteps(t) \/ Play(t) PROVE UNCHANGED config
    BY <1>3, TurnEffects DEF TurnMoves
<1>4. CASE EngineServes \/ EngineFails
    BY <1>4, EngineEffects DEF OnlyCalls, TurnMoves
<1> QED
    BY <1>1, <1>2, <1>3, <1>4 DEF Next, vars

-----------------------------------------------------------------------------
(* The gate *)

(***************************************************************************)
(* GateHasAnOwner is not inductive: a turn that is told to stop unwinds    *)
(* without opening the gate, so it must have lost its epoch by then, and   *)
(* so must every turn somebody is about to cancel.                         *)
(***************************************************************************)
CancelledArePast ==
    /\ \A t \in cancelled : t < epoch
    /\ \A c \in Callers : caller[c].task # None => caller[c].task < epoch
    /\ active # None => active <= epoch
    /\ \A t \in Turns : turn[t].stage = "unwind" => t \in cancelled

NoneAhead == \A t \in Turns : t > epoch => turn[t].stage = "none"

GateInv == Typed /\ NoneAhead /\ CancelledArePast /\ GateHasAnOwner

LEMMA GateStart == Init => NoneAhead /\ CancelledArePast /\ GateHasAnOwner
<1> SUFFICES ASSUME Init PROVE NoneAhead /\ CancelledArePast /\ GateHasAnOwner
    OBVIOUS
<1>1. \A t \in Turns : turn[t].stage = "none"
    BY DEF Init, NoTurn
<1>2. \A c \in Callers : caller[c].task = None
    BY DEF Init, Resting
<1> QED
    BY <1>1, <1>2 DEF Init, NoneAhead, CancelledArePast, GateHasAnOwner

(* A step of the core that begins no turn and invalidates no epoch. *)
LEMMA GateAside ==
    ASSUME GateInv, UNCHANGED <<barging, epoch, turn, cancelled>>,
           active' \in {active, None}, gated' => gated, life' = "running" => life = "running",
           \A c \in Callers : caller'[c].task \in {caller[c].task, None},
           caller["consumer"].pc = "wake ack" => caller'["consumer"].pc = "wake ack" \/ ~gated'
    PROVE  NoneAhead' /\ CancelledArePast' /\ GateHasAnOwner'
<1>1. NoneAhead'
    BY DEF GateInv, NoneAhead
<1>2. CancelledArePast'
    BY DEF GateInv, CancelledArePast
<1>3. GateHasAnOwner'
    BY DEF GateInv, GateHasAnOwner, Alive, Running, Done
<1> QED
    BY <1>1, <1>2, <1>3

(* The epoch moves on: what was current is past, and the gate is whoever's  *)
(* who moved it.                                                           *)
LEMMA GateInvalidates ==
    ASSUME GateInv, NEW c \in Callers, NEW then, NEW audio, Invalidates(c, then, audio),
           UNCHANGED <<active, turn>>
    PROVE  NoneAhead' /\ CancelledArePast'
<1>t. epoch \in Nat /\ active \in Turns \cup {None} /\ cancelled \subseteq Turns
    BY DEF GateInv, Typed
<1>1. NoneAhead'
    BY <1>t, TurnsAreNumbers DEF GateInv, NoneAhead, Invalidates
<1>2. \A d \in Callers : caller'[d].task # None => caller'[d].task < epoch'
    <2>1. \A d \in Callers : caller[d].task \in Turns \cup {None}
        BY DEF GateInv, Typed, CallerRows
    <2> QED
        BY <1>t, <2>1, TurnsAreNumbers DEF GateInv, CancelledArePast, Invalidates
<1>3. \A t \in cancelled' : t < epoch'
    BY <1>t, <1>2, TurnsAreNumbers DEF GateInv, CancelledArePast, Invalidates
<1>4. active' # None => active' <= epoch'
    BY <1>t, TurnsAreNumbers DEF GateInv, CancelledArePast, Invalidates
<1>5. \A t \in Turns : turn'[t].stage = "unwind" => t \in cancelled'
    BY DEF GateInv, CancelledArePast, Invalidates
<1> QED
    BY <1>1, <1>2, <1>3, <1>4, <1>5 DEF CancelledArePast

LEMMA GateInterrupts ==
    ASSUME GateInv, NEW c \in Callers, NEW then, NEW audio, Interrupts(c, then, audio)
    PROVE  NoneAhead' /\ CancelledArePast' /\ GateHasAnOwner'
BY GateInvalidates DEF Interrupts, GateHasAnOwner

(* The turn of the new epoch owns the gate. *)
LEMMA GateBegins ==
    ASSUME GateInv, NEW c \in Callers, NEW audio, Begins(audio), Rests(c), UNCHANGED cancelled
    PROVE  NoneAhead' /\ CancelledArePast' /\ GateHasAnOwner'
<1>t. epoch \in Nat /\ cancelled \subseteq Turns /\ caller \in [Callers -> CallerRows]
    BY DEF GateInv, Typed
<1>1. NoneAhead'
    BY <1>t, TurnsAreNumbers DEF GateInv, NoneAhead, Begins
<1>2. \A d \in Callers : caller'[d].task # None => caller'[d].task < epoch'
    <2>1. \A d \in Callers : caller'[d].task \in {caller[d].task, None} /\ caller[d].task \in Turns \cup {None}
        BY <1>t DEF Rests, Goes, CallerRows
    <2> QED
        BY <1>t, <2>1, TurnsAreNumbers DEF GateInv, CancelledArePast, Begins
<1>3. \A t \in cancelled' : t < epoch'
    BY <1>t, TurnsAreNumbers DEF GateInv, CancelledArePast, Begins
<1>4. active' <= epoch'
    BY <1>t, TurnsAreNumbers DEF Begins
<1>5. \A t \in Turns : turn'[t].stage = "unwind" => t \in cancelled'
    BY DEF GateInv, CancelledArePast, Begins
<1>6. GateHasAnOwner'
    BY TurnsAreNumbers DEF Begins, GateHasAnOwner, Alive, Running, Done
<1>7. CancelledArePast'
    BY <1>2, <1>3, <1>4, <1>5 DEF CancelledArePast
<1> QED
    BY <1>1, <1>6, <1>7

LEMMA GateCore ==
    ASSUME GateInv, Core
    PROVE  NoneAhead' /\ CancelledArePast' /\ GateHasAnOwner'
<1> USE DEF microphone, held, conversation
<1> DEFINE Goal == NoneAhead' /\ CancelledArePast' /\ GateHasAnOwner'
<1>t. Typed /\ {"consumer", "timer", "stopper"} = Callers /\ {} \in Sound
    BY DEF GateInv, Callers, Sound
<1>a. \A c \in Callers : caller[c].audio \in Sound
    BY <1>t DEF Typed, CallerRows
<1>b. ASSUME NEW c \in Callers, NEW audio \in Sound, BeginTurn(c, audio),
             caller["consumer"].pc = "wake ack" => c # "consumer"
      PROVE  Goal
    <2>1. CASE Returns(c)
        BY <1>b, <1>t, <2>1, BeginTurnEffect, GateAside DEF Returns, Rests, Goes
    <2>2. CASE Interrupts(c, "begin", audio)
        BY <2>2, GateInterrupts
    <2>3. CASE StartsTurn(c, audio)
        BY <2>3, GateBegins DEF StartsTurn
    <2> QED
        BY <1>b, <1>t, <2>1, <2>2, <2>3, BeginTurnEffect
<1>g. ASSUME NEW c \in Callers, NEW p, NEW audio, Goes(c, p, audio),
             UNCHANGED <<barging, epoch, turn, cancelled, active>>, gated' => gated,
             life' = "running" => life = "running",
             caller["consumer"].pc = "wake ack" => c # "consumer" \/ ~gated'
      PROVE  Goal
    <2>1. /\ \A d \in Callers : caller'[d].task \in {caller[d].task, None}
          /\ caller["consumer"].pc = "wake ack" => caller'["consumer"].pc = "wake ack" \/ ~gated'
        BY <1>g, <1>t DEF Goes
    <2> QED
        BY <1>g, <2>1, GateAside
<1>r. \A c \in Callers : Rest(c) => Goes(c, "idle", {})
    BY <1>t, RestEffect DEF Rests
<1>1. CASE Greet
    BY <1>1, <1>t, <1>r, <1>g DEF Greet
<1>2. CASE Leave
    <2>1. Goes("consumer", "ended", caller["consumer"].audio)
        BY <1>2, <1>t, CallersGo DEF Leave
    <2>2. caller["consumer"].pc = "idle"
        BY <1>2 DEF Leave, Consumes
    <2> QED
        BY <1>2, <1>t, <1>g, <2>1, <2>2 DEF Leave
<1>3. CASE HearStart
    <2>1. CASE BargeIn("consumer", "start", {})
        BY <1>t, <2>1, BargeInEffect, GateInterrupts
    <2>2. CASE Done(active) /\ UNCHANGED <<gated, epoch, active, barging, caller, turn, cancelled>>
        BY <1>3, <2>2, GateAside DEF HearStart
    <2> QED
        BY <1>3, <2>1, <2>2 DEF HearStart
<1>4. CASE Identified
    <2>1. CASE Rest("consumer") /\ UNCHANGED <<gated, epoch, active, barging, turn, cancelled, life>>
        BY <1>4, <1>t, <1>r, <1>g, <2>1 DEF Identified
    <2>2. CASE BeginTurn("consumer", caller["consumer"].audio)
        BY <1>4, <1>t, <1>a, <1>b, <2>2 DEF Identified
    <2>3. CASE /\ caller' = [caller EXCEPT !["consumer"] = [Resting EXCEPT !.pc = "wake ack"]]
               /\ UNCHANGED <<life, epoch, active, barging, turn, cancelled>>
        <3>1. Goes("consumer", "wake ack", {})
            BY <1>t, <2>3, CallersGo
        <3>2. NoneAhead' /\ CancelledArePast'
            BY <1>t, <2>3, <3>1 DEF GateInv, NoneAhead, CancelledArePast, Goes
        <3> QED
            BY <3>1, <3>2 DEF GateHasAnOwner, Goes
    <2> QED
        BY <1>4, <2>1, <2>2, <2>3 DEF Identified
<1>5. CASE WakeAckPlayed
    BY <1>5, <1>t, <1>r, <1>g DEF WakeAckPlayed
<1>6. CASE Continuing
    BY <1>6, <1>t, <1>r, <1>g DEF Continuing
<1>7. CASE Complete
    BY <1>7, <1>t, <1>a, <1>b DEF Complete
<1>8. CASE SmartTurnTimeout
    <2>1. CASE UNCHANGED caller
        BY <1>8, <2>1, GateAside DEF SmartTurnTimeout
    <2>2. CASE caller' = [caller EXCEPT !["timer"].pc = "created", !["timer"].audio = candidate]
        <3>1. Goes("timer", "created", candidate)
            BY <1>t, <2>2, CallersGo DEF Typed
        <3> QED
            BY <1>8, <1>t, <1>g, <3>1 DEF SmartTurnTimeout
    <2> QED
        BY <1>8, <2>1, <2>2 DEF SmartTurnTimeout
<1>9. CASE TimerTaskRuns
    BY <1>9, <1>t, <1>a, <1>b DEF TimerTaskRuns
<1>10. CASE WakeWordTimeout
    BY <1>10, GateAside DEF WakeWordTimeout
<1>11. CASE Watchdog
    BY <1>11, GateAside DEF Watchdog
<1>12. CASE StartAfterBargeIn
    <2>1. Goes("consumer", "idle", {}) /\ ~gated'
        BY <1>12, <1>t, <1>r DEF StartAfterBargeIn, BargedIn
    <2>2. NoneAhead' /\ CancelledArePast'
        BY <1>12, <1>t, <2>1 DEF StartAfterBargeIn, GateInv, NoneAhead, CancelledArePast, Goes
    <2> QED
        BY <2>1, <2>2 DEF GateHasAnOwner
<1>13. CASE Stop
    <2>1. Invalidates("stopper", "stop", {})
        BY <1>13, <1>t, InvalidateEffect DEF Stop
    <2> QED
        BY <1>13, <1>t, <2>1, GateInvalidates DEF Stop, GateHasAnOwner
<1>14. CASE StopMicrophone
    <2>1. Goes("stopper", "microphone", {})
        BY <1>14, <1>t, CallersGo DEF StopMicrophone
    <2> QED
        BY <1>14, <1>t, <2>1, GateAside DEF StopMicrophone, Goes
<1>15. CASE Stopped
    BY <1>15, <1>t, <1>r, <1>g DEF Stopped
<1>16. ASSUME NEW u \in Utterances, HearEnd(u) PROVE Goal
    <2> DEFINE audio == candidate \cup {u}
    <2>1. audio \in Sound /\ caller["consumer"].pc = "idle"
        BY <1>t, <1>16 DEF Typed, Sound, HearEnd, Consumes
    <2>2. CASE BeginTurn("consumer", audio)
        BY <1>t, <1>b, <2>1, <2>2
    <2>3. CASE \E p \in {"identify", "analyze"} :
                /\ caller' = [caller EXCEPT !["consumer"].pc = p, !["consumer"].audio = audio]
                /\ UNCHANGED <<gated, life, epoch, active, barging, turn, cancelled>>
        <3>1. PICK p \in {"identify", "analyze"} : Goes("consumer", p, audio)
            BY <1>t, <2>1, <2>3, CallersGo
        <3> HIDE DEF audio
        <3> QED
            BY <1>t, <1>g, <2>1, <2>3, <3>1
    <2> QED
        BY <1>16, <2>2, <2>3 DEF HearEnd
<1>17. ASSUME NEW c \in Callers, Flushed(c) PROVE Goal
    <2>1. \A d \in Callers : caller'[d].task \in {caller[d].task, None}
        BY <1>17, <1>t, FlushedEffect
    <2>2. \A t \in cancelled' : t < epoch'
        <3>1. caller[c].task # None => caller[c].task < epoch
            BY DEF GateInv, CancelledArePast
        <3>2. \A t \in cancelled : t < epoch
            BY DEF GateInv, CancelledArePast
        <3>3. cancelled' = cancelled \cup ({caller'[c].task} \ {None}) /\ epoch' = epoch
            <4>1. epoch' = epoch
                BY <1>17 DEF Flushed
            <4> QED
                BY <1>17, <1>t, <4>1, FlushedEffect
        <3> QED
            BY <2>1, <3>1, <3>2, <3>3
    <2>3. NoneAhead' /\ CancelledArePast'
        BY <1>17, <1>t, <2>1, <2>2, FlushedEffect DEF Flushed, GateInv, NoneAhead, CancelledArePast
    <2>4. caller["consumer"].pc = "wake ack" => caller'["consumer"].pc = "wake ack"
        BY <1>17, <1>t, FlushedEffect
    <2> QED
        BY <1>17, <2>3, <2>4 DEF Flushed, GateInv, GateHasAnOwner, Alive, Running, Done
<1>18. ASSUME NEW c \in Callers, BeginAfterBargeIn(c) PROVE Goal
    <2>1. Rests(c) /\ Begins(caller[c].audio)
        BY <1>18, <1>t, <1>a, RestEffect, NewTurnEffect DEF BeginAfterBargeIn, BargedIn
    <2> QED
        BY <1>18, <2>1, GateBegins DEF BeginAfterBargeIn
<1> QED
    BY <1>1, <1>2, <1>3, <1>4, <1>5, <1>6, <1>7, <1>8, <1>9, <1>10, <1>11, <1>12, <1>13, <1>14,
       <1>15, <1>16, <1>17, <1>18 DEF Core

(* A turn that finishes opens the gate if it is the current one; one that  *)
(* unwinds is not.                                                         *)
LEMMA GateTurn ==
    ASSUME GateInv, NEW t \in Turns, TurnMoves(t), Works(t) \/ Answers(t) \/ Finishes(t) \/ IsOver(t)
    PROVE  NoneAhead' /\ CancelledArePast' /\ GateHasAnOwner'
<1>t. /\ epoch \in Nat /\ cancelled \subseteq Turns
      /\ UNCHANGED <<life, epoch, barging, caller, cancelled>> /\ active' \in {active, None}
      /\ \A s \in Turns : s # t => turn'[s] = turn[s]
    BY DEF GateInv, Typed, TurnMoves, Works, Answers, Finishes, IsOver
<1>1. NoneAhead'
    BY <1>t, TurnsAreNumbers DEF GateInv, NoneAhead, Works, Answers, Finishes, IsOver, AtWork, Alive
<1>2. CancelledArePast'
    BY <1>t DEF GateInv, CancelledArePast, Works, Answers, Finishes, IsOver, AtWork
<1>3. turn[t].stage = "unwind" => ~Alive(t)
    BY <1>t, TurnsAreNumbers DEF GateInv, CancelledArePast, Alive
<1>4. GateHasAnOwner'
    BY <1>t, <1>3, TurnsAreNumbers DEF GateInv, GateHasAnOwner, Alive, Running, Done, Works, Answers, Finishes, IsOver, AtWork
<1> QED
    BY <1>1, <1>2, <1>4

LEMMA GateStep == GateInv /\ [Next]_vars => GateInv'
<1> SUFFICES ASSUME GateInv, [Next]_vars PROVE GateInv'
    OBVIOUS
<1> DEFINE Goal == NoneAhead' /\ CancelledArePast' /\ GateHasAnOwner'
<1>t. Typed /\ Typed'
    BY TypedStep DEF GateInv
<1> SUFFICES Goal
    BY <1>t DEF GateInv
<1>1. CASE SpeechStarts \/ SpeechEnds
    <2>1. UNCHANGED <<gated, life, epoch, active, barging, caller, turn, cancelled>>
        BY <1>1 DEF SpeechStarts, SpeechEnds
    <2> QED
        BY <2>1, GateAside
<1>2. CASE Core
    BY <1>2, GateCore
<1>3. ASSUME NEW t \in Turns, TurnSteps(t) \/ Play(t) PROVE Goal
    BY <1>3, <1>t, TurnEffects, GateTurn
<1>4. CASE EngineServes \/ EngineFails
    <2>1. CASE OnlyCalls
        BY <2>1, GateAside DEF OnlyCalls
    <2> QED
        BY <1>4, <1>t, <2>1, EngineEffects, GateTurn
<1>5. CASE UNCHANGED vars
    <2>1. \A c \in Callers : caller'[c].task = caller[c].task
        BY <1>5 DEF vars
    <2> QED
        BY <1>5, <2>1, GateAside DEF vars
<1> QED
    BY <1>t, <1>1, <1>2, <1>3, <1>4, <1>5 DEF Next, GateInv

(***************************************************************************)
(* The microphone is gated only while somebody is bound to open it again.  *)
(***************************************************************************)
THEOREM TheGateIsOpened == Spec => []GateHasAnOwner
<1>1. Init => GateInv
    BY TypedStart, GateStart DEF GateInv
<1>2. GateInv => GateHasAnOwner
    BY DEF GateInv
<1> QED
    BY <1>1, <1>2, GateStep, PTL DEF Spec

-----------------------------------------------------------------------------
(* One turn after the other *)

Flushing(c) == caller[c].pc \in {"flush", "reap"}

(***************************************************************************)
(* Without an arbiter only the consumer begins turns, when an utterance is *)
(* over, and its barge-in at the start of the utterance has ended the turn *)
(* before; stop() waits for the turn that was the last one.                *)
(***************************************************************************)
OnlyTheConsumer ==
    /\ smart = "off" /\ caller["timer"].pc = "idle" /\ caller["consumer"].pc # "analyze"
    /\ Flushing("consumer") => caller["consumer"].then = "start"
    /\ Flushing("stopper") => caller["stopper"].then = "stop"
    /\ caller["stopper"].pc \in {"idle", "flush", "reap", "microphone"}
    /\ caller["stopper"].pc # "idle" => life = "stopping"

ActiveAlone ==
    /\ \A t \in Turns : Running(t) => t = active
    /\ \A c \in Callers : Flushing(c) => Done(active) \/ active = caller[c].task
    /\ caller["stopper"].pc = "microphone" \/ life = "stopped" => active = None

(***************************************************************************)
(* In the queue every end has its start before it, and when the consumer   *)
(* comes to an end whose start it has heard, no turn is running.           *)
(***************************************************************************)
Quiet == Done(active) \/ Flushing("consumer") \/ caller["consumer"].pc = "ended"

Alternates(q) == \A i \in 1 .. Len(q) - 1 : q[i + 1][1] = "end" => q[i] = <<"start">>

StartsAndEnds ==
    /\ Alternates(events)
    /\ events # <<>> /\ Head(events)[1] = "end" => Quiet /\ caller["consumer"].pc # "identify"
    /\ inSpeech => IF events = <<>> THEN Quiet /\ caller["consumer"].pc # "identify"
                                   ELSE events[Len(events)] = <<"start">>
    /\ caller["consumer"].pc = "identify" => Done(active)

RecordedOnce ==
    /\ open # None => Running(open) /\ turn[open].context /\ turn[open].stage # "stt"
    /\ \A i \in 1 .. Len(history) : turn[history[i][1]].stage \in {"finished", "gone"}
    /\ \A i, j \in 1 .. Len(history) : i # j => history[i][1] # history[j][1]

OneAtATime == OnlyTheConsumer /\ ActiveAlone /\ StartsAndEnds /\ RecordedOnce
OneByOne == ~config.arbiter => OneAtATime

TurnsInv == GateInv /\ OneByOne

LEMMA TailAlternates ==
    ASSUME NEW q \in Seq(Events), q # <<>>, Alternates(q)
    PROVE  /\ Alternates(Tail(q))
           /\ Tail(q) # <<>> => Tail(q)[Len(Tail(q))] = q[Len(q)]
           /\ Tail(q) # <<>> /\ Head(Tail(q))[1] = "end" => Head(q) = <<"start">>
           /\ Tail(q) = <<>> => q[Len(q)] = Head(q)
<1>1. /\ Tail(q) \in Seq(Events) /\ Len(Tail(q)) = Len(q) - 1 /\ Len(q) \in Nat /\ Len(q) # 0
      /\ \A i \in 1 .. Len(q) - 1 : Tail(q)[i] = q[i + 1]
    BY HeadTailProperties
<1>2. Alternates(Tail(q))
    <2> SUFFICES ASSUME NEW i \in 1 .. Len(q) - 2, q[i + 2][1] = "end" PROVE q[i + 1] = <<"start">>
        BY <1>1 DEF Alternates
    <2> QED
        BY <1>1 DEF Alternates
<1>3. Tail(q) # <<>> => Tail(q)[Len(Tail(q))] = q[Len(q)]
    BY <1>1
<1>4. Tail(q) # <<>> /\ Head(Tail(q))[1] = "end" => Head(q) = <<"start">>
    BY <1>1 DEF Alternates
<1>5. Tail(q) = <<>> => q[Len(q)] = Head(q)
    BY <1>1
<1> QED
    BY <1>2, <1>3, <1>4, <1>5

LEMMA AppendAlternates ==
    ASSUME NEW q \in Seq(Events), NEW v \in Events, Alternates(q),
           v[1] = "end" => q = <<>> \/ q[Len(q)] = <<"start">>
    PROVE  /\ Append(q, v) \in Seq(Events) /\ Append(q, v) # <<>>
           /\ Alternates(Append(q, v))
           /\ Append(q, v)[Len(Append(q, v))] = v
           /\ Head(Append(q, v)) = IF q = <<>> THEN v ELSE Head(q)
<1>1. /\ Append(q, v) \in Seq(Events) /\ Append(q, v) # <<>>
      /\ Len(Append(q, v)) = Len(q) + 1 /\ Len(q) \in Nat
      /\ \A i \in 1 .. Len(q) : Append(q, v)[i] = q[i]
      /\ Append(q, v)[Len(q) + 1] = v
    BY AppendProperties
<1>2. Alternates(Append(q, v))
    <2> SUFFICES ASSUME NEW i \in 1 .. Len(q), Append(q, v)[i + 1][1] = "end"
                 PROVE  Append(q, v)[i] = <<"start">>
        BY <1>1 DEF Alternates
    <2>1. CASE i = Len(q)
        BY <1>1, <2>1
    <2>2. CASE i # Len(q)
        BY <1>1, <2>2 DEF Alternates
    <2> QED
        BY <2>1, <2>2
<1>3. Head(Append(q, v)) = IF q = <<>> THEN v ELSE Head(q)
    BY <1>1
<1> QED
    BY <1>1, <1>2, <1>3

(* When the active turn is done none runs, and none is open. *)
LEMMA NothingRuns ==
    ASSUME Typed, OneAtATime, Done(active)
    PROVE  open = None /\ \A t \in Turns : ~Running(t)
BY DEF Typed, OneAtATime, ActiveAlone, RecordedOnce, Running, Done

(* What was waited for is over. *)
LEMMA WaitedFor ==
    ASSUME Typed, OneAtATime, NEW c \in Callers, NEW then, Reaped(c, then)
    PROVE  Done(active) /\ (CloseOpen => UNCHANGED conversation)
<1>1. Done(active)
    BY DEF OneAtATime, ActiveAlone, Flushing, Reaped, Done
<1>2. open = None
    BY <1>1, NothingRuns
<1> QED
    BY <1>1, <1>2 DEF CloseOpen

LEMMA OneAside ==
    ASSUME Typed, OneAtATime, StartsAndEnds', UNCHANGED <<smart, active, turn, conversation, life>>,
           \/ UNCHANGED caller
           \/ \E p \in {"idle", "ended", "identify", "wake ack"} : \E audio \in Sound : Goes("consumer", p, audio)
    PROVE  OneAtATime'
<1>c. Callers = {"consumer", "timer", "stopper"}
    BY DEF Callers
<1>u. UNCHANGED <<open, history>>
    BY DEF conversation
<1>1. CASE UNCHANGED caller
    BY <1>1, <1>u DEF OneAtATime, OnlyTheConsumer, ActiveAlone, RecordedOnce, Flushing, Running, Done
<1>2. ASSUME NEW p \in {"idle", "ended", "identify", "wake ack"}, NEW audio \in Sound,
             Goes("consumer", p, audio)
      PROVE  OneAtATime'
    <2>1. /\ caller'["consumer"].pc = p /\ caller'["timer"] = caller["timer"]
          /\ caller'["stopper"] = caller["stopper"]
        BY <1>2, <1>c DEF Goes
    <2>2. OnlyTheConsumer'
        BY <2>1 DEF OneAtATime, OnlyTheConsumer, Flushing
    <2>3. ActiveAlone'
        BY <1>c, <2>1 DEF OneAtATime, ActiveAlone, Flushing, Running, Done
    <2>4. RecordedOnce'
        BY <1>u DEF OneAtATime, RecordedOnce, Running, Done
    <2> QED
        BY <2>2, <2>3, <2>4 DEF OneAtATime
<1> QED
    BY <1>1, <1>2

(* The queue as the consumer leaves it when it begins a turn. *)
NoEndNext ==
    /\ Alternates(events)
    /\ events # <<>> => Head(events)[1] # "end"
    /\ inSpeech => events # <<>> /\ events[Len(events)] = <<"start">>

LEMMA OneBegins ==
    ASSUME Typed, NoneAhead, OneAtATime, Done(active), life = "running", NEW audio, Begins(audio),
           Rests("consumer"), UNCHANGED <<life, conversation>>, smart' = "off", NoEndNext'
    PROVE  OneAtATime'
<1>c. /\ Callers = {"consumer", "timer", "stopper"} /\ epoch \in Nat
      /\ turn \in [Turns -> TurnRows] /\ history \in Seq(Turns \X {"completed", "interrupted"})
    BY DEF Callers, Typed
<1>1. /\ caller'["consumer"].pc = "idle" /\ caller'["timer"].pc = "idle"
      /\ caller'["stopper"].pc = "idle"
    BY <1>c DEF Rests, Goes, OneAtATime, OnlyTheConsumer
<1>2. OnlyTheConsumer'
    BY <1>1 DEF OnlyTheConsumer, Flushing
<1>3. ActiveAlone'
    <2>1. \A t \in Turns : Running(t)' => t = epoch + 1
        BY NothingRuns DEF Begins, Running, Done
    <2> QED
        BY <1>c, <1>1, <2>1 DEF Begins, ActiveAlone, Flushing
<1>4. StartsAndEnds'
    BY <1>1 DEF StartsAndEnds, NoEndNext
<1>5. RecordedOnce'
    <2>1. \A i \in 1 .. Len(history) : history[i][1] \in Turns /\ history[i][1] # epoch + 1
        <3> SUFFICES ASSUME NEW i \in 1 .. Len(history)
                     PROVE  history[i][1] \in Turns /\ history[i][1] # epoch + 1
            OBVIOUS
        <3>1. history[i] \in Turns \X {"completed", "interrupted"}
            BY <1>c
        <3>2. turn[history[i][1]].stage # "none"
            BY DEF OneAtATime, RecordedOnce
        <3> QED
            BY <1>c, <3>1, <3>2, TurnsAreNumbers DEF NoneAhead
    <2>2. open' = None /\ history' = history
        BY NothingRuns DEF conversation
    <2> QED
        BY <2>1, <2>2 DEF Begins, OneAtATime, RecordedOnce
<1> QED
    BY <1>2, <1>3, <1>4, <1>5 DEF OneAtATime

LEMMA OneBeginTurn ==
    ASSUME Typed, NoneAhead, OneAtATime, Done(active), NEW audio \in Sound,
           BeginTurn("consumer", audio), smart' = "off", NoEndNext'
    PROVE  OneAtATime'
<1>b. /\ UNCHANGED life
      /\ Returns("consumer") \/ StartsTurn("consumer", audio)
    BY BeginTurnEffect DEF Callers
<1>1. CASE Returns("consumer")
    <2>1. Goes("consumer", "idle", {}) /\ Done(active)'
        BY <1>1 DEF Returns, Rests, Done
    <2>2. StartsAndEnds'
        BY <2>1 DEF StartsAndEnds, NoEndNext, Goes
    <2>3. smart' = smart
        BY DEF OneAtATime, OnlyTheConsumer
    <2>4. {} \in Sound
        BY DEF Sound
    <2> QED
        BY <1>b, <1>1, <2>1, <2>2, <2>3, <2>4, OneAside DEF Returns
<1>2. CASE StartsTurn("consumer", audio)
    BY <1>b, <1>2, OneBegins DEF StartsTurn
<1> QED
    BY <1>b, <1>1, <1>2

LEMMA OneStart == Init => OneAtATime
<1> SUFFICES ASSUME Init PROVE OneAtATime
    OBVIOUS
<1>1. /\ caller["consumer"].pc = "greeting" /\ caller["timer"].pc = "idle" /\ caller["stopper"].pc = "idle"
      /\ Callers = {"consumer", "timer", "stopper"}
    BY DEF Init, Resting, Callers
<1>2. \A t \in Turns : turn[t].stage = "none"
    BY DEF Init, NoTurn
<1>3. OnlyTheConsumer
    BY <1>1 DEF Init, OnlyTheConsumer, Flushing
<1>4. ActiveAlone
    BY <1>1, <1>2 DEF Init, ActiveAlone, Flushing, Running
<1>5. StartsAndEnds
    BY <1>1 DEF Init, StartsAndEnds, Alternates
<1>6. RecordedOnce
    BY DEF Init, RecordedOnce
<1> QED
    BY <1>3, <1>4, <1>5, <1>6 DEF OneAtATime

LEMMA OneMicrophone ==
    ASSUME Typed, OneAtATime, SpeechStarts \/ SpeechEnds
    PROVE  OneAtATime'
<1>u. UNCHANGED <<smart, active, turn, conversation, life, caller>>
    BY DEF SpeechStarts, SpeechEnds, held, conversation
<1>q. UNCHANGED Quiet
    BY <1>u DEF Quiet, Done, Flushing
<1>t. events \in Seq(Events) /\ <<"start">> \in Events /\ (inSpeech => <<"end", said>> \in Events)
    BY BoundsAssumption DEF Typed, Events, Utterances
<1>1. CASE SpeechStarts
    <2>1. events' = Append(events, <<"start">>) /\ Alternates(events)
        BY <1>1 DEF SpeechStarts, OneAtATime, StartsAndEnds
    <2>2. StartsAndEnds'
        BY <1>u, <1>q, <1>t, <2>1, AppendAlternates DEF OneAtATime, StartsAndEnds, Done
    <2> QED
        BY <1>u, <2>2, OneAside
<1>2. CASE SpeechEnds /\ events' = Append(events, <<"end", said>>)
    <2>1. inSpeech /\ ~inSpeech' /\ Alternates(events)
        BY <1>2 DEF SpeechEnds, OneAtATime, StartsAndEnds
    <2>2. StartsAndEnds'
        BY <1>2, <1>u, <1>q, <1>t, <2>1, AppendAlternates DEF OneAtATime, StartsAndEnds, Done
    <2> QED
        BY <1>u, <2>2, OneAside
<1>3. CASE SpeechEnds /\ UNCHANGED events
    <2>1. StartsAndEnds'
        BY <1>3, <1>u, <1>q DEF SpeechEnds, OneAtATime, StartsAndEnds, Done
    <2> QED
        BY <1>u, <2>1, OneAside
<1> QED
    BY <1>1, <1>2, <1>3 DEF SpeechEnds

(* A record is added for a turn that ran until now. *)
LEMMA OneRecordMore ==
    ASSUME Typed, RecordedOnce, NEW t \in Turns, NEW status \in {"completed", "interrupted"},
           Close(t, status), turn[t].stage \in AtWork, turn'[t].stage = "finished",
           \A s \in Turns : s # t => turn'[s] = turn[s]
    PROVE  RecordedOnce'
<1>1. /\ open' = None /\ history' = Append(history, <<t, status>>)
      /\ history \in Seq(Turns \X {"completed", "interrupted"})
    BY DEF Close, Typed
<1>2. \A i \in 1 .. Len(history) :
         history[i][1] \in Turns /\ history[i][1] # t /\ turn'[history[i][1]].stage \in {"finished", "gone"}
    <2> SUFFICES ASSUME NEW i \in 1 .. Len(history)
                 PROVE  /\ history[i][1] \in Turns /\ history[i][1] # t
                        /\ turn'[history[i][1]].stage \in {"finished", "gone"}
        OBVIOUS
    <2>1. history[i] \in Turns \X {"completed", "interrupted"}
        BY <1>1
    <2>2. turn[history[i][1]].stage \in {"finished", "gone"}
        BY DEF RecordedOnce
    <2> QED
        BY <2>1, <2>2 DEF AtWork
<1>3. /\ Len(history') = Len(history) + 1 /\ Len(history) \in Nat
      /\ \A i \in 1 .. Len(history) : history'[i] = history[i]
      /\ history'[Len(history) + 1] = <<t, status>>
    BY <1>1, AppendProperties
<1> QED
    BY <1>1, <1>2, <1>3 DEF RecordedOnce

LEMMA OneTurnStep ==
    ASSUME Typed, OneAtATime, NEW t \in Turns, TurnMoves(t),
           Works(t) \/ Answers(t) \/ Finishes(t) \/ IsOver(t)
    PROVE  OneAtATime'
<1>t. /\ UNCHANGED <<config, said, inSpeech, events, life, smart, caller>>
      /\ \A s \in Turns : s # t => turn'[s] = turn[s]
      /\ active \in Turns \cup {None}
    BY DEF TurnMoves, microphone, held, Typed
<1>r. \A s \in Turns : Running(s)' => Running(s)
    BY <1>t DEF Works, Answers, Finishes, IsOver, Running, Done, AtWork
<1>a. \/ active' = active
      \/ active' = None /\ active = t /\ ~Running(t)
    BY DEF Works, Answers, Finishes, IsOver, Running, Done
<1>d. Done(active) => Done(active)'
    BY <1>t, <1>a DEF Works, Answers, Finishes, IsOver, Done, AtWork
<1>1. OnlyTheConsumer'
    BY <1>t DEF OneAtATime, OnlyTheConsumer, Flushing
<1>2. ActiveAlone'
    <2>1. \A s \in Turns : Running(s)' => s = active'
        BY <1>r, <1>a DEF OneAtATime, ActiveAlone
    <2>2. \A c \in Callers : Flushing(c)' => Done(active)' \/ active' = caller'[c].task
        BY <1>t, <1>a, <1>d DEF OneAtATime, ActiveAlone, Flushing, Done
    <2>3. caller'["stopper"].pc = "microphone" \/ life' = "stopped" => active' = None
        BY <1>t, <1>a DEF OneAtATime, ActiveAlone
    <2> QED
        BY <2>1, <2>2, <2>3 DEF ActiveAlone
<1>3. StartsAndEnds'
    BY <1>t, <1>d DEF OneAtATime, StartsAndEnds, Quiet, Flushing
<1>4. RecordedOnce'
    <2>h. \A i \in 1 .. Len(history) :
             history[i][1] \in Turns /\ turn[history[i][1]].stage \in {"finished", "gone"}
        <3> SUFFICES ASSUME NEW i \in 1 .. Len(history)
                     PROVE  history[i][1] \in Turns /\ turn[history[i][1]].stage \in {"finished", "gone"}
            OBVIOUS
        <3>1. history[i] \in Turns \X {"completed", "interrupted"}
            BY DEF Typed
        <3> QED
            BY <3>1 DEF OneAtATime, RecordedOnce
    <2>o. open # None => open \in Turns /\ Running(open) /\ turn[open].context /\ turn[open].stage # "stt"
        BY DEF Typed, OneAtATime, RecordedOnce
    <2>1. CASE Works(t)
        <3>1. UNCHANGED <<open, history>>
            BY <2>1 DEF Works, conversation
        <3>2. open # None => Running(open)' /\ turn'[open].context /\ turn'[open].stage # "stt"
            BY <1>t, <2>1, <2>o, <3>1 DEF Works, Running, Done, AtWork
        <3>3. \A i \in 1 .. Len(history) : turn'[history[i][1]].stage \in {"finished", "gone"}
            BY <1>t, <2>1, <2>h DEF Works, AtWork
        <3> QED
            BY <3>1, <3>2, <3>3 DEF OneAtATime, RecordedOnce, Running, Done
    <2>2. CASE Answers(t)
        <3>1. open' = t /\ Running(t)' /\ turn'[t].context /\ turn'[t].stage # "stt" /\ UNCHANGED history
            BY <2>2, TurnsAreNumbers DEF Answers, Running, Done
        <3>2. \A i \in 1 .. Len(history) : turn'[history[i][1]].stage \in {"finished", "gone"}
            BY <1>t, <2>2, <2>h DEF Answers
        <3> QED
            BY <3>1, <3>2 DEF OneAtATime, RecordedOnce, Running, Done
    <2>3. CASE Finishes(t) /\ UNCHANGED conversation
        <3>1. open = None /\ UNCHANGED <<open, history>>
            <4>1. Running(t)
                BY <2>3, TurnsAreNumbers DEF Finishes, AtWork, Running, Done
            <4>2. open # None => open = t
                BY <2>o, <4>1 DEF OneAtATime, ActiveAlone
            <4>3. turn[t].stage = "stt" \/ ~turn[t].context \/ \E status \in {"completed", "interrupted"} : Close(t, status)
                BY <2>3 DEF Finishes
            <4> QED
                BY <2>3, <2>o, <4>2, <4>3, TurnsAreNumbers DEF Close, conversation
        <3>2. \A i \in 1 .. Len(history) : turn'[history[i][1]].stage \in {"finished", "gone"}
            BY <1>t, <2>3, <2>h DEF Finishes, AtWork
        <3> QED
            BY <3>1, <3>2 DEF OneAtATime, RecordedOnce
    <2>4. CASE Finishes(t) /\ ~UNCHANGED conversation
        <3>1. PICK status \in {"completed", "interrupted"} : Close(t, status)
            BY <2>4 DEF Finishes
        <3> QED
            BY <1>t, <2>4, <3>1, OneRecordMore DEF Finishes, OneAtATime
    <2>5. CASE IsOver(t)
        <3>1. UNCHANGED <<open, history>>
            BY <2>5 DEF IsOver, conversation
        <3>2. open # None => Running(open)' /\ turn'[open].context /\ turn'[open].stage # "stt"
            BY <1>t, <2>5, <2>o, <3>1 DEF IsOver, Running, Done
        <3>3. \A i \in 1 .. Len(history) : turn'[history[i][1]].stage \in {"finished", "gone"}
            BY <1>t, <2>5, <2>h DEF IsOver
        <3> QED
            BY <3>1, <3>2, <3>3 DEF OneAtATime, RecordedOnce, Running, Done
    <2> QED
        BY <2>1, <2>2, <2>3, <2>4, <2>5
<1> QED
    BY <1>1, <1>2, <1>3, <1>4 DEF OneAtATime

LEMMA OneCore ==
    ASSUME Typed, NoneAhead, OneAtATime, ~config.arbiter, Core
    PROVE  OneAtATime'
<1> USE DEF microphone, held
<1>t. /\ Callers = {"consumer", "timer", "stopper"} /\ {} \in Sound /\ candidate \in Sound
      /\ caller \in [Callers -> CallerRows] /\ \A c \in Callers : caller[c].audio \in Sound
      /\ events \in Seq(Events)
    BY DEF Typed, CallerRows, Callers, Sound
<1>o. OnlyTheConsumer /\ ActiveAlone /\ StartsAndEnds /\ RecordedOnce
    BY DEF OneAtATime
<1>r. Rest("consumer") => Goes("consumer", "idle", {})
    BY <1>t, RestEffect DEF Rests
(* Nothing that the queue asks is touched but the consumer's place. *)
<1>q. ASSUME UNCHANGED <<events, inSpeech, active, turn>>, NEW p \in {"idle", "wake ack"},
             Goes("consumer", p, {}),
             caller["consumer"].pc \notin {"flush", "reap", "ended"} \/ Done(active)
      PROVE  StartsAndEnds'
    BY <1>o, <1>q DEF StartsAndEnds, Quiet, Flushing, Done, Goes
(* An event is consumed. *)
<1>c. ASSUME NEW event, Consumes(event)
      PROVE  /\ Alternates(events') /\ UNCHANGED inSpeech
             /\ events' # <<>> => events'[Len(events')] = events[Len(events)]
             /\ events' # <<>> /\ Head(events')[1] = "end" => Head(events) = <<"start">>
             /\ events' = <<>> => events[Len(events)] = Head(events)
    BY <1>c, <1>t, <1>o, TailAlternates DEF Consumes, StartsAndEnds
<1>1. CASE Greet
    <2>1. Goes("consumer", "idle", {}) /\ UNCHANGED <<events, inSpeech, active, turn, smart, conversation, life>>
          /\ caller["consumer"].pc = "greeting"
        BY <1>1, <1>r DEF Greet
    <2>2. StartsAndEnds'
        BY <1>q, <2>1
    <2> QED
        BY <1>t, <2>1, <2>2, OneAside
<1>2. CASE Leave
    <2>1. /\ Goes("consumer", "ended", caller["consumer"].audio)
          /\ UNCHANGED <<active, turn, smart, conversation, life>>
        BY <1>2, <1>t, CallersGo DEF Leave
    <2>2. PICK event : Consumes(event)
        BY <1>2 DEF Leave
    <2>3. Quiet' /\ caller'["consumer"].pc = "ended"
        BY <2>1 DEF Quiet, Goes
    <2>4. StartsAndEnds'
        BY <1>c, <1>o, <2>2, <2>3 DEF StartsAndEnds, Consumes
    <2> QED
        BY <1>t, <2>1, <2>4, OneAside
<1>3. CASE HearStart
    <2>1. Consumes(<<"start">>) /\ smart' = "off" /\ UNCHANGED life
        BY <1>3 DEF HearStart
    <2>2. CASE BargeIn("consumer", "start", {})
        <3>1. Interrupts("consumer", "start", {})
            BY <1>t, <2>2, BargeInEffect
        <3>2. /\ UNCHANGED <<active, turn, open, history>> /\ Flushing("consumer")'
              /\ caller'["consumer"].then = "start"
              /\ caller'["consumer"].task = IF Done(active) THEN None ELSE active
              /\ caller'["timer"] = caller["timer"] /\ caller'["stopper"] = caller["stopper"]
            BY <1>t, <3>1 DEF Interrupts, Invalidates, Flushing, conversation
        <3>3. OnlyTheConsumer'
            BY <1>o, <2>1, <3>2 DEF OnlyTheConsumer, Flushing
        <3>4. ActiveAlone'
            BY <1>t, <1>o, <2>1, <3>2 DEF ActiveAlone, Flushing, Running, Done
        <3>5. StartsAndEnds'
            BY <1>c, <1>o, <2>1, <3>2 DEF StartsAndEnds, Quiet, Consumes, Flushing
        <3>6. RecordedOnce'
            BY <1>o, <3>2 DEF RecordedOnce, Running, Done
        <3> QED
            BY <3>3, <3>4, <3>5, <3>6 DEF OneAtATime
    <2>3. CASE Done(active) /\ UNCHANGED <<active, caller, turn, conversation>>
        <3>1. StartsAndEnds' /\ smart' = smart
            BY <1>c, <1>o, <2>1, <2>3 DEF StartsAndEnds, Quiet, Consumes, Done, OnlyTheConsumer
        <3> QED
            BY <2>1, <2>3, <3>1, OneAside
    <2> QED
        BY <1>3, <2>2, <2>3 DEF HearStart
<1>4. CASE Identified
    <2>1. /\ caller["consumer"].pc = "identify" /\ Done(active)
          /\ UNCHANGED <<events, inSpeech, smart>> /\ smart = "off"
        BY <1>4, <1>o DEF Identified, StartsAndEnds, OnlyTheConsumer
    <2>2. CASE BeginTurn("consumer", caller["consumer"].audio)
        <3>1. NoEndNext'
            BY <1>o, <2>1 DEF StartsAndEnds, NoEndNext
        <3> QED
            BY <1>t, <2>1, <2>2, <3>1, OneBeginTurn
    <2>3. CASE /\ \/ Rest("consumer")
                  \/ caller' = [caller EXCEPT !["consumer"] = [Resting EXCEPT !.pc = "wake ack"]]
               /\ UNCHANGED <<active, turn, conversation, life>>
        <3>1. PICK p \in {"idle", "wake ack"} : Goes("consumer", p, {})
            BY <1>t, <1>r, <2>3, CallersGo
        <3>2. StartsAndEnds'
            BY <1>q, <2>1, <2>3, <3>1
        <3> QED
            BY <1>t, <2>1, <2>3, <3>1, <3>2, OneAside
    <2> QED
        BY <1>4, <2>2, <2>3 DEF Identified
<1>5. CASE WakeAckPlayed
    <2>1. Goes("consumer", "idle", {}) /\ UNCHANGED <<events, inSpeech, active, turn, smart, conversation, life>>
          /\ caller["consumer"].pc = "wake ack"
        BY <1>5, <1>r DEF WakeAckPlayed
    <2>2. StartsAndEnds'
        BY <1>q, <2>1
    <2> QED
        BY <1>t, <2>1, <2>2, OneAside
<1>6. ASSUME Continuing \/ Complete \/ SmartTurnTimeout \/ TimerTaskRuns PROVE FALSE
    BY <1>6, <1>o DEF Continuing, Complete, SmartTurnTimeout, TimerTaskRuns, OnlyTheConsumer
<1>7. CASE WakeWordTimeout \/ Watchdog
    <2>1. UNCHANGED <<events, inSpeech, active, turn, smart, conversation, life, caller>>
        BY <1>7 DEF WakeWordTimeout, Watchdog
    <2>2. StartsAndEnds'
        BY <1>o, <2>1 DEF StartsAndEnds, Quiet, Flushing, Done
    <2> QED
        BY <2>1, <2>2, OneAside
<1>8. CASE StartAfterBargeIn
    <2>1. /\ Goes("consumer", "idle", {}) /\ active' = None
          /\ UNCHANGED <<events, inSpeech, turn, smart, life, open, history>>
          /\ \A t \in Turns : ~Running(t)
        BY <1>8, <1>t, <1>r, WaitedFor, NothingRuns DEF StartAfterBargeIn, BargedIn, conversation
    <2>2. caller'["consumer"].pc = "idle" /\ caller'["timer"] = caller["timer"] /\ caller'["stopper"] = caller["stopper"]
        BY <1>t, <2>1 DEF Goes
    <2>3. OnlyTheConsumer'
        BY <1>o, <2>1, <2>2 DEF OnlyTheConsumer, Flushing
    <2>4. ActiveAlone'
        BY <1>t, <1>o, <2>1, <2>2 DEF ActiveAlone, Flushing, Running, Done
    <2>5. StartsAndEnds'
        BY <1>o, <2>1, <2>2 DEF StartsAndEnds, Quiet, Done
    <2>6. RecordedOnce'
        BY <1>o, <2>1 DEF RecordedOnce, Running, Done
    <2> QED
        BY <2>3, <2>4, <2>5, <2>6 DEF OneAtATime
<1>9. CASE Stop
    <2>1. Invalidates("stopper", "stop", {}) /\ life' = "stopping"
          /\ UNCHANGED <<events, inSpeech, active, turn, smart, open, history>>
        BY <1>9, <1>t, InvalidateEffect DEF Stop, conversation
    <2>2. /\ Flushing("stopper")' /\ caller'["stopper"].then = "stop"
          /\ caller'["stopper"].task = IF Done(active) THEN None ELSE active
          /\ caller'["timer"] = caller["timer"] /\ caller'["consumer"] = caller["consumer"]
        BY <1>t, <2>1 DEF Invalidates, Flushing
    <2>3. OnlyTheConsumer'
        BY <1>o, <2>1, <2>2 DEF OnlyTheConsumer, Flushing
    <2>4. ActiveAlone'
        BY <1>t, <1>o, <2>1, <2>2 DEF ActiveAlone, Flushing, Running, Done
    <2>5. StartsAndEnds'
        BY <1>o, <2>1, <2>2 DEF StartsAndEnds, Quiet, Flushing, Done
    <2>6. RecordedOnce'
        BY <1>o, <2>1 DEF RecordedOnce, Running, Done
    <2> QED
        BY <2>3, <2>4, <2>5, <2>6 DEF OneAtATime
<1>10. CASE StopMicrophone
    <2>1. /\ Goes("stopper", "microphone", {}) /\ active' = None /\ smart' = "off"
          /\ UNCHANGED <<events, inSpeech, turn, life, open, history>>
          /\ \A t \in Turns : ~Running(t)
        BY <1>10, <1>t, CallersGo, WaitedFor, NothingRuns DEF StopMicrophone, conversation
    <2>2. /\ caller'["stopper"].pc = "microphone" /\ caller'["timer"] = caller["timer"]
          /\ caller'["consumer"] = caller["consumer"] /\ life = "stopping"
        BY <1>10, <1>t, <1>o, <2>1 DEF Goes, StopMicrophone, Reaped, OnlyTheConsumer
    <2>3. OnlyTheConsumer'
        BY <1>o, <2>1, <2>2 DEF OnlyTheConsumer, Flushing
    <2>4. ActiveAlone'
        BY <1>t, <1>o, <2>1, <2>2 DEF ActiveAlone, Flushing, Running, Done
    <2>5. StartsAndEnds'
        BY <1>o, <2>1, <2>2 DEF StartsAndEnds, Quiet, Done
    <2>6. RecordedOnce'
        BY <1>o, <2>1 DEF RecordedOnce, Running, Done
    <2> QED
        BY <2>3, <2>4, <2>5, <2>6 DEF OneAtATime
<1>11. CASE Stopped
    <2>1. /\ Goes("stopper", "idle", {}) /\ life' = "stopped" /\ ~inSpeech' /\ active = None
          /\ UNCHANGED <<active, turn, smart, open, history>>
        BY <1>11, <1>t, <1>o, RestEffect DEF Stopped, Rests, conversation, ActiveAlone
    <2>2. /\ caller'["stopper"].pc = "idle" /\ caller'["timer"] = caller["timer"]
          /\ caller'["consumer"] = caller["consumer"]
        BY <1>t, <2>1 DEF Goes
    <2>3. OnlyTheConsumer'
        BY <1>o, <2>1, <2>2 DEF OnlyTheConsumer, Flushing
    <2>4. ActiveAlone'
        BY <1>t, <1>o, <2>1, <2>2 DEF ActiveAlone, Flushing, Running, Done
    <2>5. StartsAndEnds'
        <3>1. <<"close">> \in Events /\ (inSpeech => <<"end", said>> \in Events)
            BY BoundsAssumption DEF Typed, Events, Utterances
        <3>2. CASE inSpeech
            <4> DEFINE q == Append(events, <<"end", said>>)
            <4>1. /\ q \in Seq(Events) /\ Alternates(q) /\ q # <<>>
                  /\ Head(q) = IF events = <<>> THEN <<"end", said>> ELSE Head(events)
                BY <1>t, <1>o, <3>1, <3>2, AppendAlternates DEF StartsAndEnds
            <4>2. events' = Append(q, <<"close">>)
                BY <1>11, <1>t, <3>1, <3>2 DEF Stopped
            <4> HIDE DEF q
            <4>3. Alternates(events') /\ events' # <<>> /\ Head(events') = Head(q)
                BY <3>1, <4>1, <4>2, AppendAlternates
            <4> QED
                BY <1>o, <2>1, <2>2, <3>2, <4>1, <4>3 DEF StartsAndEnds, Quiet, Done, Flushing
        <3>3. CASE ~inSpeech
            <4>1. events' = Append(events, <<"close">>)
                BY <1>11, <1>t, <3>1, <3>3 DEF Stopped
            <4>2. /\ Alternates(events') /\ events' # <<>>
                  /\ Head(events') = IF events = <<>> THEN <<"close">> ELSE Head(events)
                BY <1>t, <1>o, <3>1, <4>1, AppendAlternates DEF StartsAndEnds
            <4> QED
                BY <1>o, <2>1, <2>2, <4>2 DEF StartsAndEnds, Quiet, Done, Flushing
        <3> QED
            BY <3>2, <3>3
    <2>6. RecordedOnce'
        BY <1>o, <2>1 DEF RecordedOnce, Running, Done
    <2> QED
        BY <2>3, <2>4, <2>5, <2>6 DEF OneAtATime
<1>12. ASSUME NEW u \in Utterances, HearEnd(u) PROVE OneAtATime'
    <2> DEFINE audio == candidate \cup {u}
    <2>1. Consumes(<<"end", u>>) /\ smart' = "off" /\ smart = "off" /\ audio \in Sound
        BY <1>t, <1>o, <1>12 DEF HearEnd, OnlyTheConsumer, Sound
    <2>2. Done(active) /\ caller["consumer"].pc = "idle"
        BY <1>o, <2>1 DEF Consumes, StartsAndEnds, Quiet, Flushing
    <2>3. NoEndNext'
        <3>1. events # <<>> /\ Head(events) = <<"end", u>> /\ <<"end", u>> # <<"start">>
            BY <2>1 DEF Consumes
        <3> QED
            BY <1>c, <1>o, <2>1, <3>1 DEF NoEndNext, StartsAndEnds
    <2> HIDE DEF audio
    <2>4. CASE BeginTurn("consumer", audio)
        BY <2>1, <2>2, <2>3, <2>4, OneBeginTurn
    <2>5. CASE /\ caller' = [caller EXCEPT !["consumer"].pc = "identify", !["consumer"].audio = audio]
               /\ UNCHANGED <<active, turn, conversation, life>>
        <3>1. Goes("consumer", "identify", audio)
            BY <2>1, <2>5, CallersGo
        <3>2. StartsAndEnds'
            BY <2>2, <2>3, <2>5, <3>1 DEF StartsAndEnds, NoEndNext, Goes, Done
        <3> QED
            BY <2>1, <2>5, <3>1, <3>2, OneAside
    <2> QED
        BY <1>12, <2>4, <2>5 DEF HearEnd, audio
<1>13. ASSUME NEW c \in Callers, Flushed(c) PROVE OneAtATime'
    <2>1. UNCHANGED <<events, inSpeech, active, turn, smart, open, history, life>>
        BY <1>13 DEF Flushed, conversation
    <2>2. /\ \A d \in Callers : d # c => caller'[d] = caller[d]
          /\ Flushing(c) /\ Flushing(c)' /\ caller'[c].then = caller[c].then
          /\ caller'[c].pc = "reap"
          /\ caller'[c].task = IF Done(caller[c].task) THEN None ELSE caller[c].task
        BY <1>13, FlushedEffect DEF Flushing
    <2>3. OnlyTheConsumer'
        BY <1>t, <1>o, <2>1, <2>2 DEF OnlyTheConsumer, Flushing
    <2>4. ActiveAlone'
        BY <1>t, <1>o, <2>1, <2>2 DEF ActiveAlone, Flushing, Running, Done
    <2>5. StartsAndEnds'
        BY <1>t, <1>o, <2>1, <2>2 DEF StartsAndEnds, Quiet, Flushing, Done
    <2>6. RecordedOnce'
        BY <1>o, <2>1 DEF RecordedOnce, Running, Done
    <2> QED
        BY <2>3, <2>4, <2>5, <2>6 DEF OneAtATime
<1>14. ASSUME NEW c \in Callers, BeginAfterBargeIn(c) PROVE FALSE
    BY <1>14, <1>t, <1>o DEF BeginAfterBargeIn, Reaped, OnlyTheConsumer, Flushing
<1> QED
    BY <1>1, <1>2, <1>3, <1>4, <1>5, <1>6, <1>7, <1>8, <1>9, <1>10, <1>11, <1>12, <1>13, <1>14
       DEF Core

LEMMA TurnsStep == TurnsInv /\ [Next]_vars => TurnsInv'
<1> SUFFICES ASSUME TurnsInv, [Next]_vars PROVE TurnsInv'
    OBVIOUS
<1>t. GateInv /\ GateInv' /\ Typed /\ NoneAhead
    BY GateStep DEF TurnsInv, GateInv
<1>c. UNCHANGED config
    BY <1>t, ConfigStays
<1> SUFFICES ASSUME ~config.arbiter PROVE OneAtATime'
    BY <1>t, <1>c DEF TurnsInv, OneByOne
<1>o. OneAtATime
    BY DEF TurnsInv, OneByOne
<1>1. CASE SpeechStarts \/ SpeechEnds
    BY <1>1, <1>t, <1>o, OneMicrophone
<1>2. CASE Core
    BY <1>2, <1>t, <1>o, OneCore
<1>3. ASSUME NEW t \in Turns, TurnSteps(t) \/ Play(t) PROVE OneAtATime'
    BY <1>3, <1>t, <1>o, TurnEffects, OneTurnStep
<1>4. ASSUME UNCHANGED <<events, inSpeech, smart, active, turn, conversation, life, caller>>
      PROVE  OneAtATime'
    <2>1. StartsAndEnds'
        BY <1>4, <1>o DEF OneAtATime, StartsAndEnds, Quiet, Flushing, Done
    <2> QED
        BY <1>4, <1>t, <1>o, <2>1, OneAside
<1>5. CASE EngineServes \/ EngineFails
    <2>1. CASE OnlyCalls
        BY <1>4, <2>1 DEF OnlyCalls, microphone, held
    <2> QED
        BY <1>5, <1>t, <1>o, <2>1, EngineEffects, OneTurnStep
<1>6. CASE UNCHANGED vars
    BY <1>4, <1>6 DEF vars, microphone, held
<1> QED
    BY <1>1, <1>2, <1>3, <1>5, <1>6 DEF Next

LEMMA AtMostTheActiveOne ==
    ASSUME Typed, ActiveAlone
    PROVE  Cardinality({t \in Turns : Running(t) /\ t \notin cancelled}) <= 1
<1> DEFINE S == {t \in Turns : Running(t) /\ t \notin cancelled}
<1>1. S = {} \/ S = {active}
    BY DEF Typed, ActiveAlone
<1> HIDE DEF S
<1>2. Cardinality(S) \in {0, 1}
    BY <1>1, FS_EmptySet, FS_Singleton
<1> QED
    BY <1>2 DEF S

(***************************************************************************)
(* Without a turn arbiter one turn runs at a time, each is recorded at     *)
(* most once in the conversation, and none outlives stop().                *)
(***************************************************************************)
THEOREM TurnsRunOneAtATime == Spec => []TurnsEndOnce
<1>1. Init => TurnsInv
    BY TypedStart, GateStart, OneStart DEF TurnsInv, GateInv, OneByOne
<1>2. TurnsInv => TurnsEndOnce
    <2> SUFFICES ASSUME TurnsInv, ~config.arbiter
                 PROVE  /\ Cardinality({t \in Turns : Running(t) /\ t \notin cancelled}) <= 1
                        /\ \A i, j \in 1 .. Len(history) : i # j => history[i][1] # history[j][1]
                        /\ life = "stopped" => ~\E t \in Turns : Running(t)
        BY DEF TurnsEndOnce
    <2>1. Typed /\ ActiveAlone /\ RecordedOnce
        BY DEF TurnsInv, GateInv, OneByOne, OneAtATime
    <2>2. life = "stopped" => ~\E t \in Turns : Running(t)
        BY <2>1, TurnsAreNumbers DEF ActiveAlone
    <2> QED
        BY <2>1, <2>2, AtMostTheActiveOne DEF RecordedOnce
<1> QED
    BY <1>1, <1>2, TurnsStep, PTL DEF Spec

-----------------------------------------------------------------------------
(* Where an utterance is *)

EndsOf(q) == {u \in Utterances : \E i \in 1 .. Len(q) : q[i] = <<"end", u>>}
DistinctEnds(q) == \A i, j \in 1 .. Len(q) : q[i][1] = "end" /\ q[i] = q[j] => i = j

OfTurn(t) == IF t \in Turns /\ turn[t].stage \in AtWork THEN turn[t].heard ELSE {}

Coming == EndsOf(events) \cup (IF inSpeech THEN {said} ELSE {})
Heard == caller["consumer"].audio \cup candidate
Due == caller["timer"].audio
Kept == pending \cup OfTurn(active) \cup OfTurn(epoch)
Answered ==
    {u \in Utterances : \E i \in 1 .. Len(history) :
        history[i][2] = "completed" /\ u \in turn[history[i][1]].heard}

Apart(A, B) == A \cap B = {}

(***************************************************************************)
(* An utterance is in one place: on its way from the microphone, with the  *)
(* consumer or the candidate, with the timer's task, with the turns that   *)
(* may still pass it on, or answered.                                      *)
(***************************************************************************)
InOnePlace ==
    /\ Apart(Coming, Heard) /\ Apart(Coming, Due) /\ Apart(Coming, Kept) /\ Apart(Coming, Answered)
    /\ Apart(Heard, Due) /\ Apart(Heard, Kept) /\ Apart(Heard, Answered)
    /\ Apart(Due, Kept) /\ Apart(Due, Answered)
    /\ Apart(Kept, Answered)

SaidBefore == Coming \cup Heard \cup Due \cup Kept \cup Answered \subseteq 1 .. said

ComesOnce == DistinctEnds(events) /\ (inSpeech => said \notin EndsOf(events))

(***************************************************************************)
(* The candidate waits for the timer only while the consumer holds none of *)
(* it; nobody else has one without an arbiter.                             *)
(***************************************************************************)
Candidates ==
    /\ smart = "armed" => caller["consumer"].audio = {}
    /\ ~config.arbiter => candidate = {} /\ caller["consumer"].pc # "analyze"
    /\ caller["stopper"].audio = {}

(***************************************************************************)
(* What is cut off is kept only while no turn of this epoch runs, that turn *)
(* is the active one unless it was forgotten, and a turn that was answered *)
(* to the end is done.                                                     *)
(***************************************************************************)
AnsweredAreDone ==
    \A i \in 1 .. Len(history) :
       history[i][2] = "completed" => turn[history[i][1]].stage \in {"finished", "gone"}

KeptByOne ==
    /\ epoch \in Turns /\ turn[epoch].stage \in AtWork => pending = {} /\ active \in {epoch, None}
    /\ activeAudio # {} => /\ active # None /\ turn[active].stage # "none"
                           /\ activeAudio = turn[active].heard

AnswersInv ==
    GateInv /\ InOnePlace /\ SaidBefore /\ ComesOnce /\ Candidates /\ AnsweredAreDone /\ KeptByOne
    /\ AnsweredOnce

LEMMA TailEnds ==
    ASSUME NEW q \in Seq(Events), q # <<>>, DistinctEnds(q)
    PROVE  /\ EndsOf(Tail(q)) \subseteq EndsOf(q) /\ DistinctEnds(Tail(q))
           /\ \A u \in Utterances : Head(q) = <<"end", u>> => u \in EndsOf(q) /\ u \notin EndsOf(Tail(q))
<1>1. /\ Tail(q) \in Seq(Events) /\ Len(Tail(q)) = Len(q) - 1 /\ Len(q) \in Nat /\ Len(q) # 0
      /\ \A i \in 1 .. Len(q) - 1 : Tail(q)[i] = q[i + 1]
      /\ Head(q) = q[1]
    BY HeadTailProperties
<1>2. EndsOf(Tail(q)) \subseteq EndsOf(q)
    <2> SUFFICES ASSUME NEW u \in Utterances, NEW i \in 1 .. Len(q) - 1, q[i + 1] = <<"end", u>>
                 PROVE  \E j \in 1 .. Len(q) : q[j] = <<"end", u>>
        BY <1>1 DEF EndsOf
    <2>1. i + 1 \in 1 .. Len(q)
        BY <1>1
    <2> QED
        BY <2>1
<1>3. DistinctEnds(Tail(q))
    <2> SUFFICES ASSUME NEW i \in 1 .. Len(q) - 1, NEW j \in 1 .. Len(q) - 1,
                        q[i + 1][1] = "end", q[i + 1] = q[j + 1]
                 PROVE  i = j
        BY <1>1 DEF DistinctEnds
    <2>1. i + 1 \in 1 .. Len(q) /\ j + 1 \in 1 .. Len(q)
        BY <1>1
    <2>2. i + 1 = j + 1
        BY <2>1 DEF DistinctEnds
    <2> QED
        BY <1>1, <2>2
<1>4. ASSUME NEW u \in Utterances, Head(q) = <<"end", u>>
      PROVE  u \in EndsOf(q) /\ u \notin EndsOf(Tail(q))
    <2>1. u \in EndsOf(q)
        BY <1>1, <1>4 DEF EndsOf
    <2>2. ASSUME NEW i \in 1 .. Len(q) - 1, q[i + 1] = <<"end", u>> PROVE FALSE
        <3>1. i + 1 \in 1 .. Len(q) /\ 1 \in 1 .. Len(q) /\ i + 1 # 1
            BY <1>1
        <3>2. q[1] = q[i + 1] /\ q[1][1] = "end"
            BY <1>1, <1>4, <2>2
        <3> QED
            BY <3>1, <3>2 DEF DistinctEnds
    <2>3. u \notin EndsOf(Tail(q))
        BY <1>1, <2>2 DEF EndsOf
    <2> QED
        BY <2>1, <2>3
<1> QED
    BY <1>2, <1>3, <1>4

LEMMA AppendEnds ==
    ASSUME NEW q \in Seq(Events), DistinctEnds(q)
    PROVE  /\ \A v \in {<<"start">>, <<"close">>} :
                 EndsOf(Append(q, v)) = EndsOf(q) /\ DistinctEnds(Append(q, v))
           /\ \A u \in Utterances \ EndsOf(q) :
                 /\ EndsOf(Append(q, <<"end", u>>)) = EndsOf(q) \cup {u}
                 /\ DistinctEnds(Append(q, <<"end", u>>))
<1>1. \A v \in Events :
         /\ Len(Append(q, v)) = Len(q) + 1 /\ Len(q) \in Nat
         /\ \A i \in 1 .. Len(q) : Append(q, v)[i] = q[i]
         /\ Append(q, v)[Len(q) + 1] = v
    BY AppendProperties
<1>2. ASSUME NEW v \in {<<"start">>, <<"close">>}
      PROVE  EndsOf(Append(q, v)) = EndsOf(q) /\ DistinctEnds(Append(q, v))
    <2>1. v \in Events /\ v[1] # "end" /\ \A u \in Utterances : v # <<"end", u>>
        BY DEF Events
    <2>2. \A i \in 1 .. Len(q) + 1 : i \in 1 .. Len(q) \/ i = Len(q) + 1
        BY <1>1, <2>1
    <2>3. \A u \in Utterances :
             (\E i \in 1 .. Len(q) + 1 : Append(q, v)[i] = <<"end", u>>) <=> \E i \in 1 .. Len(q) : q[i] = <<"end", u>>
        BY <1>1, <2>1, <2>2
    <2>4. EndsOf(Append(q, v)) = EndsOf(q)
        BY <1>1, <2>1, <2>3 DEF EndsOf
    <2>5. DistinctEnds(Append(q, v))
        <3> SUFFICES ASSUME NEW i \in 1 .. Len(q) + 1, NEW j \in 1 .. Len(q) + 1,
                            Append(q, v)[i][1] = "end", Append(q, v)[i] = Append(q, v)[j]
                     PROVE  i = j
            BY <1>1, <2>1 DEF DistinctEnds
        <3>1. i \in 1 .. Len(q) /\ j \in 1 .. Len(q)
            BY <1>1, <2>1, <2>2
        <3> QED
            BY <1>1, <2>1, <3>1 DEF DistinctEnds
    <2> QED
        BY <2>4, <2>5
<1>3. ASSUME NEW u \in Utterances \ EndsOf(q)
      PROVE  /\ EndsOf(Append(q, <<"end", u>>)) = EndsOf(q) \cup {u}
             /\ DistinctEnds(Append(q, <<"end", u>>))
    <2> DEFINE v == <<"end", u>>
    <2>1. v \in Events /\ \A w \in Utterances : v = <<"end", w>> <=> w = u
        BY DEF Events
    <2>2. \A i \in 1 .. Len(q) : q[i] # v
        BY DEF EndsOf
    <2> HIDE DEF v
    <2>3. \A i \in 1 .. Len(q) + 1 : i \in 1 .. Len(q) \/ i = Len(q) + 1
        BY <1>1, <2>1
    <2>4. \A w \in Utterances :
             (\E i \in 1 .. Len(q) + 1 : Append(q, v)[i] = <<"end", w>>)
                <=> (w = u \/ \E i \in 1 .. Len(q) : q[i] = <<"end", w>>)
        BY <1>1, <2>1, <2>3
    <2>5. EndsOf(Append(q, v)) = EndsOf(q) \cup {u}
        BY <1>1, <2>1, <2>4 DEF EndsOf
    <2>6. DistinctEnds(Append(q, v))
        <3> SUFFICES ASSUME NEW i \in 1 .. Len(q) + 1, NEW j \in 1 .. Len(q) + 1,
                            Append(q, v)[i][1] = "end", Append(q, v)[i] = Append(q, v)[j]
                     PROVE  i = j
            BY <1>1, <2>1 DEF DistinctEnds
        <3> QED
            BY <1>1, <2>1, <2>2, <2>3 DEF DistinctEnds
    <2> QED
        BY <2>5, <2>6 DEF v
<1> QED
    BY <1>2, <1>3

(* Nothing is answered by a step that records no turn as completed and      *)
(* leaves those that are over as they are.                                 *)
LEMMA NothingAnswered ==
    ASSUME Typed, AnsweredAreDone, AnsweredOnce,
           \/ UNCHANGED history
           \/ \E t \in Turns : history' = Append(history, <<t, "interrupted">>),
           \A s \in Turns : turn[s].stage \in {"finished", "gone"} =>
              turn'[s].stage \in {"finished", "gone"} /\ turn'[s].heard = turn[s].heard
    PROVE  Answered' = Answered /\ AnsweredAreDone' /\ AnsweredOnce'
<1> DEFINE OnlyLonger ==
       /\ Len(history) \in Nat /\ Len(history') \in Nat /\ Len(history) <= Len(history')
       /\ \A i \in 1 .. Len(history) : history'[i] = history[i] /\ history[i][1] \in Turns
       /\ \A i \in 1 .. Len(history') : i \in 1 .. Len(history) \/ history'[i][2] # "completed"
<1>1. OnlyLonger
    <2>0. history \in Seq(Turns \X {"completed", "interrupted"})
        BY DEF Typed
    <2>h. Len(history) \in Nat /\ \A i \in 1 .. Len(history) : history[i][1] \in Turns
        <3>1. \A i \in 1 .. Len(history) : history[i] \in Turns \X {"completed", "interrupted"}
            BY <2>0
        <3> QED
            BY <2>0, <3>1
    <2>1. CASE UNCHANGED history
        BY <2>h, <2>1
    <2>2. ASSUME NEW t \in Turns, history' = Append(history, <<t, "interrupted">>)
          PROVE  OnlyLonger
        <3>1. <<t, "interrupted">> \in Turns \X {"completed", "interrupted"}
            OBVIOUS
        <3>2. /\ Len(history') = Len(history) + 1
              /\ \A i \in 1 .. Len(history) : history'[i] = history[i]
              /\ history'[Len(history) + 1] = <<t, "interrupted">>
            BY <2>0, <2>2, <3>1, AppendProperties
        <3> QED
            BY <2>h, <3>2
    <2> QED
        BY <2>1, <2>2
<1>2. \A i \in 1 .. Len(history) : history[i][2] = "completed" =>
         /\ turn'[history[i][1]].stage \in {"finished", "gone"}
         /\ turn'[history[i][1]].heard = turn[history[i][1]].heard
    BY <1>1 DEF AnsweredAreDone
<1>3. AnsweredAreDone'
    BY <1>1, <1>2 DEF AnsweredAreDone
<1>4. AnsweredOnce'
    <2> SUFFICES ASSUME NEW i \in 1 .. Len(history'), NEW j \in 1 .. Len(history'), i # j,
                        history'[i][2] = "completed", history'[j][2] = "completed"
                 PROVE  turn'[history'[i][1]].heard \cap turn'[history'[j][1]].heard = {}
        BY DEF AnsweredOnce
    <2>1. /\ i \in 1 .. Len(history) /\ j \in 1 .. Len(history)
          /\ history'[i] = history[i] /\ history'[j] = history[j]
        BY <1>1
    <2>2. turn[history[i][1]].heard \cap turn[history[j][1]].heard = {}
        BY <2>1 DEF AnsweredOnce
    <2> QED
        BY <1>2, <2>1, <2>2
<1>5. Answered' = Answered
    <2>1. \A u \in Utterances :
             (\E i \in 1 .. Len(history') : history'[i][2] = "completed" /\ u \in turn'[history'[i][1]].heard)
             <=> (\E i \in 1 .. Len(history) : history[i][2] = "completed" /\ u \in turn[history[i][1]].heard)
        BY <1>1, <1>2
    <2> QED
        BY <2>1 DEF Answered
<1> QED
    BY <1>3, <1>4, <1>5

LEMMA CloseOpenRecords ==
    ASSUME Typed, CloseOpen
    PROVE  \/ UNCHANGED history
           \/ \E t \in Turns : history' = Append(history, <<t, "interrupted">>)
<1>1. CASE open = None
    BY <1>1 DEF CloseOpen, conversation
<1>2. CASE open # None
    <2>1. open \in Turns
        BY <1>2 DEF Typed
    <2>2. history' = Append(history, <<open, "interrupted">>)
        BY <1>2 DEF CloseOpen, Close
    <2> QED
        BY <2>1, <2>2
<1> QED
    BY <1>1, <1>2

(* A step of the core that begins no turn and invalidates no epoch passes   *)
(* nothing on to a turn.                                                   *)
LEMMA KeptAside ==
    ASSUME AnswersInv, UNCHANGED <<epoch, turn>>, pending' \subseteq pending,
           \/ UNCHANGED <<active, activeAudio>>
           \/ active' = None /\ activeAudio' = {}
    PROVE  Kept' \subseteq Kept /\ KeptByOne'
<1>1. None \notin Turns
    BY TurnsAreNumbers
<1>2. OfTurn(epoch)' = OfTurn(epoch) /\ OfTurn(active)' \subseteq OfTurn(active)
    BY <1>1 DEF OfTurn
<1>3. Kept' \subseteq Kept
    BY <1>2 DEF Kept
<1>4. KeptByOne'
    BY DEF AnswersInv, KeptByOne
<1> QED
    BY <1>3, <1>4

LEMMA KeptInvalidates ==
    ASSUME AnswersInv, NEW c \in Callers, NEW then, NEW audio, Invalidates(c, then, audio),
           UNCHANGED <<active, activeAudio, turn>>,
           \/ pending' \subseteq pending
           \/ ~Done(active) /\ pending' \subseteq pending \cup activeAudio
    PROVE  Kept' \subseteq Kept /\ KeptByOne'
<1>t. /\ epoch \in Nat /\ epoch' = epoch + 1 /\ active \in Turns \cup {None}
      /\ turn \in [Turns -> TurnRows]
    BY DEF AnswersInv, GateInv, Typed, Invalidates
<1>1. epoch' \in Turns => turn[epoch'].stage = "none"
    BY <1>t DEF AnswersInv, GateInv, NoneAhead
<1>2. OfTurn(epoch)' = {} /\ OfTurn(active)' = OfTurn(active)
    BY <1>t, <1>1 DEF OfTurn, AtWork
<1>3. ~Done(active) /\ activeAudio # {} => activeAudio = OfTurn(active)
    <2> SUFFICES ASSUME ~Done(active), activeAudio # {} PROVE activeAudio = OfTurn(active)
        OBVIOUS
    <2>1. active \in Turns /\ active # None /\ turn[active].stage \in Stages /\ activeAudio = turn[active].heard
          /\ turn[active].stage \notin {"none", "finished", "gone"}
        BY <1>t DEF Done, AnswersInv, KeptByOne, TurnRows
    <2> QED
        BY <2>1 DEF OfTurn, Stages, AtWork
<1>4. Kept' \subseteq Kept
    BY <1>2, <1>3 DEF Kept
<1>5. KeptByOne'
    BY <1>t, <1>1 DEF AnswersInv, KeptByOne, AtWork
<1> QED
    BY <1>4, <1>5

LEMMA KeptBegins ==
    ASSUME AnswersInv, NEW audio \in Sound, Begins(audio)
    PROVE  /\ Kept' \subseteq Kept \cup audio /\ KeptByOne'
           /\ \A s \in Turns : turn[s].stage \in {"finished", "gone"} =>
                 turn'[s].stage \in {"finished", "gone"} /\ turn'[s].heard = turn[s].heard
<1>t. epoch \in Nat /\ epoch' = epoch + 1 /\ active' = epoch + 1 /\ epoch + 1 \in Turns
    BY DEF AnswersInv, GateInv, Typed, Begins
<1>1. OfTurn(epoch)' = activeAudio' /\ OfTurn(active)' = activeAudio'
    BY <1>t DEF Begins, OfTurn, AtWork
<1>2. Kept' \subseteq Kept \cup audio
    BY <1>1 DEF Begins, Kept
<1>3. KeptByOne'
    BY <1>t, TurnsAreNumbers DEF Begins, KeptByOne
<1>4. turn[epoch + 1].stage = "none"
    BY <1>t DEF AnswersInv, GateInv, NoneAhead
<1>5. \A s \in Turns : turn[s].stage \in {"finished", "gone"} =>
         turn'[s].stage \in {"finished", "gone"} /\ turn'[s].heard = turn[s].heard
    BY <1>4 DEF Begins
<1> QED
    BY <1>2, <1>3, <1>5

Placed == InOnePlace /\ SaidBefore /\ ComesOnce

(* Every place only loses utterances. *)
LEMMA PlacesShrink ==
    ASSUME Placed, ComesOnce', said' = said,
           Coming' \subseteq Coming, Heard' \subseteq Heard, Due' \subseteq Due, Kept' \subseteq Kept,
           Answered' = Answered
    PROVE  Placed'
BY DEF Placed, InOnePlace, SaidBefore, Apart

LEMMA AnswersMicrophone ==
    ASSUME AnswersInv, SpeechStarts \/ SpeechEnds \/ Stopped
    PROVE  Placed' /\ Candidates' /\ AnsweredAreDone' /\ KeptByOne' /\ AnsweredOnce'
<1>t. Typed /\ events \in Seq(Events) /\ Placed /\ DistinctEnds(events)
    BY DEF AnswersInv, GateInv, Typed, Placed, ComesOnce
<1>u. /\ UNCHANGED <<config, epoch, active, activeAudio, pending, candidate, smart, turn, history>>
      /\ caller'["consumer"] = caller["consumer"] /\ caller'["timer"] = caller["timer"]
      /\ caller'["stopper"].audio = {} \/ caller'["stopper"] = caller["stopper"]
    <2>1. CASE SpeechStarts \/ SpeechEnds
        BY <2>1 DEF SpeechStarts, SpeechEnds, held, conversation
    <2>2. CASE Stopped
        BY <2>2, <1>t, RestEffect DEF Stopped, held, conversation, Rests, Goes, Callers
    <2> QED
        BY <2>1, <2>2
<1>k. Kept' \subseteq Kept /\ KeptByOne' /\ Kept' = Kept
    BY <1>u, KeptAside DEF Kept, OfTurn
<1>a. Answered' = Answered /\ AnsweredAreDone' /\ AnsweredOnce'
    BY <1>t, <1>u, NothingAnswered DEF AnswersInv
<1>h. Heard' = Heard /\ Due' = Due /\ Candidates'
    BY <1>u DEF Heard, Due, Candidates, AnswersInv
<1>1. CASE SpeechStarts
    <2>1. /\ events' = Append(events, <<"start">>) /\ ~inSpeech /\ inSpeech' /\ said' = said + 1
          /\ said \in Nat
        BY <1>1, <1>t, BoundsAssumption DEF SpeechStarts, Typed
    <2>2. EndsOf(events') = EndsOf(events) /\ DistinctEnds(events')
        BY <1>t, <2>1, AppendEnds
    <2>3. Coming' = EndsOf(events) \cup {said + 1} /\ Coming = EndsOf(events)
        BY <2>1, <2>2 DEF Coming
    <2>4. said + 1 \notin Coming \cup Heard \cup Due \cup Kept \cup Answered
        BY <1>t, <2>1 DEF Placed, SaidBefore
    <2>5. ComesOnce'
        BY <2>1, <2>2, <2>3, <2>4 DEF ComesOnce
    <2>6. SaidBefore'
        BY <1>t, <1>k, <1>a, <1>h, <2>1, <2>3 DEF Placed, SaidBefore
    <2>7. InOnePlace'
        BY <1>t, <1>k, <1>a, <1>h, <2>3, <2>4 DEF Placed, InOnePlace, Apart
    <2> QED
        BY <1>k, <1>a, <1>h, <2>5, <2>6, <2>7 DEF Placed
<1>e. inSpeech => said \in Utterances \ EndsOf(events) /\ said \in Coming
    BY <1>t, BoundsAssumption DEF Typed, Utterances, Placed, ComesOnce, Coming
<1>2. CASE SpeechEnds
    <2>1. inSpeech /\ ~inSpeech' /\ said' = said
        BY <1>2 DEF SpeechEnds
    <2>2. CASE events' = Append(events, <<"end", said>>)
        <3>1. EndsOf(events') = EndsOf(events) \cup {said} /\ DistinctEnds(events')
            BY <1>t, <1>e, <2>1, <2>2, AppendEnds
        <3>2. Coming' \subseteq Coming /\ ComesOnce'
            BY <2>1, <3>1 DEF Coming, ComesOnce
        <3> QED
            BY <1>t, <1>k, <1>a, <1>h, <2>1, <3>2, PlacesShrink
    <2>3. CASE UNCHANGED events
        <3>1. Coming' \subseteq Coming /\ ComesOnce'
            BY <1>t, <2>1, <2>3 DEF Coming, ComesOnce, Placed
        <3> QED
            BY <1>t, <1>k, <1>a, <1>h, <2>1, <3>1, PlacesShrink
    <2> QED
        BY <1>2, <2>2, <2>3 DEF SpeechEnds
<1>3. CASE Stopped
    <2>1. ~inSpeech' /\ said' = said /\ <<"close">> \in Events /\ (inSpeech => <<"end", said>> \in Events)
        BY <1>3, <1>e DEF Stopped, Events
    <2>2. CASE inSpeech
        <3> DEFINE q == Append(events, <<"end", said>>)
        <3>1. EndsOf(q) = EndsOf(events) \cup {said} /\ DistinctEnds(q) /\ q \in Seq(Events)
            BY <1>t, <1>e, <2>1, <2>2, AppendEnds
        <3>2. events' = Append(q, <<"close">>)
            BY <1>3, <1>t, <2>1, <2>2 DEF Stopped
        <3> HIDE DEF q
        <3>3. EndsOf(events') = EndsOf(q) /\ DistinctEnds(events')
            BY <3>1, <3>2, AppendEnds
        <3>4. Coming' \subseteq Coming /\ ComesOnce'
            BY <2>1, <2>2, <3>1, <3>3 DEF Coming, ComesOnce
        <3> QED
            BY <1>t, <1>k, <1>a, <1>h, <2>1, <3>4, PlacesShrink
    <2>3. CASE ~inSpeech
        <3>1. events' = Append(events, <<"close">>)
            BY <1>3, <1>t, <2>1, <2>3 DEF Stopped
        <3>2. EndsOf(events') = EndsOf(events) /\ DistinctEnds(events')
            BY <1>t, <3>1, AppendEnds
        <3>3. Coming' \subseteq Coming /\ ComesOnce'
            BY <2>1, <2>3, <3>2 DEF Coming, ComesOnce
        <3> QED
            BY <1>t, <1>k, <1>a, <1>h, <2>1, <3>3, PlacesShrink
    <2> QED
        BY <2>2, <2>3
<1> QED
    BY <1>1, <1>2, <1>3

(* What a turn held when it was answered to the end moves to the answered.  *)
LEMMA AnsweredToTheEnd ==
    ASSUME AnswersInv, NEW t \in Turns, TurnMoves(t), Finishes(t), Close(t, "completed"), Alive(t)
    PROVE  /\ Answered' \subseteq Answered \cup Kept /\ Kept' = {}
           /\ KeptByOne' /\ AnsweredAreDone' /\ AnsweredOnce'
<1>t. /\ Typed /\ t = epoch /\ turn[t].stage \in AtWork /\ turn'[t].stage = "finished"
      /\ UNCHANGED <<epoch, active, activeAudio, pending>> /\ turn'[t].heard = turn[t].heard
      /\ \A s \in Turns : s # t => turn'[s] = turn[s]
    BY DEF AnswersInv, GateInv, TurnMoves, Finishes, Alive, held
<1>k. pending = {} /\ active \in {t, None}
    BY <1>t DEF AnswersInv, KeptByOne
<1>h. turn[t].heard \subseteq Kept /\ turn[t].heard \subseteq Utterances
    <2>1. turn[t] \in TurnRows
        BY <1>t DEF Typed
    <2> QED
        BY <1>t, <2>1 DEF Kept, OfTurn, TurnRows, Sound
<1>1. Kept' = {}
    BY <1>t, <1>k, TurnsAreNumbers DEF Kept, OfTurn, AtWork
<1>2. KeptByOne'
    <2>1. epoch' \in Turns /\ turn'[epoch'].stage \notin AtWork
        BY <1>t DEF AtWork
    <2>2. activeAudio # {} => active = t
        BY <1>k DEF AnswersInv, KeptByOne
    <2> QED
        BY <1>t, <2>1, <2>2 DEF AnswersInv, KeptByOne
<1> DEFINE n == Len(history) + 1
<1>3. /\ Len(history) \in Nat /\ Len(history') = n /\ history'[n] = <<t, "completed">>
      /\ \A i \in 1 .. Len(history) : history'[i] = history[i] /\ history[i][1] \in Turns
      /\ \A i \in 1 .. n : i \in 1 .. Len(history) \/ i = n
    <2>0. history \in Seq(Turns \X {"completed", "interrupted"})
        BY <1>t DEF Typed
    <2>1. <<t, "completed">> \in Turns \X {"completed", "interrupted"} /\ history' = Append(history, <<t, "completed">>)
        BY DEF Close
    <2>2. \A i \in 1 .. Len(history) : history[i][1] \in Turns
        <3>1. \A i \in 1 .. Len(history) : history[i] \in Turns \X {"completed", "interrupted"}
            BY <2>0
        <3> QED
            BY <3>1
    <2>3. /\ Len(history) \in Nat /\ Len(history') = n /\ history'[n] = <<t, "completed">>
          /\ \A i \in 1 .. Len(history) : history'[i] = history[i]
        BY <2>0, <2>1, AppendProperties
    <2> QED
        BY <2>2, <2>3
<1> HIDE DEF n
<1>4. \A i \in 1 .. Len(history) : history[i][2] = "completed" =>
         /\ history[i][1] # t
         /\ turn'[history[i][1]] = turn[history[i][1]]
         /\ turn'[history[i][1]].stage \in {"finished", "gone"}
         /\ turn[history[i][1]].heard \subseteq Answered
    <2> SUFFICES ASSUME NEW i \in 1 .. Len(history), history[i][2] = "completed"
                 PROVE  /\ history[i][1] # t
                        /\ turn'[history[i][1]] = turn[history[i][1]]
                        /\ turn'[history[i][1]].stage \in {"finished", "gone"}
                        /\ turn[history[i][1]].heard \subseteq Answered
        OBVIOUS
    <2>1. turn[history[i][1]].stage \in {"finished", "gone"}
        BY DEF AnswersInv, AnsweredAreDone
    <2>2. history[i][1] # t /\ turn'[history[i][1]] = turn[history[i][1]]
        BY <1>t, <1>3, <2>1 DEF AtWork
    <2>3. turn[history[i][1]].heard \subseteq Utterances
        <3>1. turn[history[i][1]] \in TurnRows
            BY <1>t, <1>3 DEF Typed
        <3> QED
            BY <3>1 DEF TurnRows, Sound
    <2>4. turn[history[i][1]].heard \subseteq Answered
        BY <2>3 DEF Answered
    <2> QED
        BY <2>1, <2>2, <2>4
<1>5. AnsweredAreDone'
    BY <1>t, <1>3, <1>4 DEF AnsweredAreDone
<1>6. Answered' \subseteq Answered \cup Kept
    <2> SUFFICES ASSUME NEW u \in Utterances, NEW i \in 1 .. n, history'[i][2] = "completed",
                        u \in turn'[history'[i][1]].heard
                 PROVE  u \in Answered \cup Kept
        BY <1>3 DEF Answered
    <2>1. CASE i = n
        BY <1>t, <1>h, <1>3, <2>1
    <2>2. CASE i \in 1 .. Len(history)
        BY <1>3, <1>4, <2>2
    <2> QED
        BY <1>3, <2>1, <2>2
<1>7. AnsweredOnce'
    <2> SUFFICES ASSUME NEW i \in 1 .. n, NEW j \in 1 .. n, i # j,
                        history'[i][2] = "completed", history'[j][2] = "completed"
                 PROVE  turn'[history'[i][1]].heard \cap turn'[history'[j][1]].heard = {}
        BY <1>3 DEF AnsweredOnce
    <2>0. Kept \cap Answered = {}
        BY DEF AnswersInv, InOnePlace, Apart
    <2>1. ASSUME NEW k \in 1 .. Len(history), history[k][2] = "completed"
          PROVE  turn'[history'[k][1]].heard \cap turn'[history'[n][1]].heard = {}
        BY <1>t, <1>h, <1>3, <1>4, <2>0, <2>1
    <2>2. CASE i = n
        BY <1>3, <2>1, <2>2
    <2>3. CASE j = n
        BY <1>3, <2>1, <2>3
    <2>4. CASE i # n /\ j # n
        <3>1. i \in 1 .. Len(history) /\ j \in 1 .. Len(history)
            BY <1>3, <2>4
        <3>2. turn[history[i][1]].heard \cap turn[history[j][1]].heard = {}
            BY <1>3, <3>1 DEF AnswersInv, AnsweredOnce
        <3> QED
            BY <1>3, <1>4, <3>1, <3>2
    <2> QED
        BY <2>2, <2>3, <2>4
<1> QED
    BY <1>1, <1>2, <1>5, <1>6, <1>7

LEMMA AnswersTurn ==
    ASSUME AnswersInv, NEW t \in Turns, TurnMoves(t),
           Works(t) \/ Answers(t) \/ Finishes(t) \/ IsOver(t)
    PROVE  Placed' /\ Candidates' /\ AnsweredAreDone' /\ KeptByOne' /\ AnsweredOnce'
<1>t. /\ Typed /\ Placed
      /\ UNCHANGED <<config, said, inSpeech, events, epoch, pending, candidate, smart, caller>>
      /\ turn'[t].heard = turn[t].heard /\ \A s \in Turns : s # t => turn'[s] = turn[s]
    BY DEF AnswersInv, GateInv, Placed, TurnMoves, microphone, held
<1>h. /\ Coming' = Coming /\ Heard' = Heard /\ Due' = Due /\ Candidates' /\ ComesOnce'
    BY <1>t DEF Coming, Heard, Due, Candidates, AnswersInv, Placed, ComesOnce
<1>1. CASE Finishes(t) /\ Close(t, "completed") /\ Alive(t)
    <2>1. /\ Answered' \subseteq Answered \cup Kept /\ Kept' = {}
          /\ KeptByOne' /\ AnsweredAreDone' /\ AnsweredOnce'
        BY <1>1, AnsweredToTheEnd
    <2>2. InOnePlace'
        BY <1>t, <1>h, <2>1 DEF Placed, InOnePlace, Apart
    <2>3. SaidBefore'
        BY <1>t, <1>h, <2>1 DEF Placed, SaidBefore
    <2> QED
        BY <1>h, <2>1, <2>2, <2>3 DEF Placed
<1>2. CASE ~(Finishes(t) /\ Close(t, "completed") /\ Alive(t))
    <2>1. \/ UNCHANGED history
          \/ \E s \in Turns : history' = Append(history, <<s, "interrupted">>)
        BY <1>2 DEF Works, Answers, Finishes, IsOver, conversation, Close
    <2>2. \A s \in Turns : turn[s].stage \in {"finished", "gone"} =>
             turn'[s].stage \in {"finished", "gone"} /\ turn'[s].heard = turn[s].heard
        BY <1>t DEF Works, Answers, Finishes, IsOver, AtWork
    <2>3. Answered' = Answered /\ AnsweredAreDone' /\ AnsweredOnce'
        BY <1>t, <2>1, <2>2, NothingAnswered DEF AnswersInv
    <2>4. \A s \in Turns : /\ turn'[s].stage \in AtWork => turn[s].stage \in AtWork
                           /\ turn'[s].heard = turn[s].heard
                           /\ turn[s].stage # "none" => turn'[s].stage # "none"
        BY <1>t DEF Works, Answers, Finishes, IsOver, AtWork
    <2>5. \/ UNCHANGED <<active, activeAudio>>
          \/ active' \in {active, None} /\ activeAudio' = {}
        BY DEF Works, Answers, Finishes, IsOver
    <2>8. active \in Turns \cup {None} /\ active' \in Turns \cup {None} /\ epoch' = epoch
        BY <1>t, <2>5 DEF Typed
    <2>9. \A s \in Turns : (IF turn'[s].stage \in AtWork THEN turn'[s].heard ELSE {}) \subseteq OfTurn(s)
        BY <2>4 DEF OfTurn
    <2>6. Kept' \subseteq Kept
        <3>1. OfTurn(epoch)' \subseteq OfTurn(epoch)
            <4>1. CASE epoch \in Turns
                BY <2>8, <2>9, <4>1 DEF OfTurn
            <4>2. CASE epoch \notin Turns
                BY <2>8, <4>2 DEF OfTurn
            <4> QED
                BY <4>1, <4>2
        <3>2. OfTurn(active)' \subseteq OfTurn(active)
            <4>1. CASE active' = active /\ active \in Turns
                <5>1. OfTurn(active)' = IF turn'[active].stage \in AtWork THEN turn'[active].heard ELSE {}
                    BY <4>1 DEF OfTurn
                <5> QED
                    BY <2>9, <4>1, <5>1
            <4>2. CASE active' \notin Turns
                BY <4>2 DEF OfTurn
            <4> QED
                BY <2>5, <2>8, <4>1, <4>2, TurnsAreNumbers
        <3> QED
            BY <1>t, <3>1, <3>2 DEF Kept
    <2>7. KeptByOne'
        <3>1. epoch' \in Turns /\ turn'[epoch'].stage \in AtWork => pending' = {} /\ active' \in {epoch', None}
            BY <1>t, <2>4, <2>5, <2>8 DEF AnswersInv, KeptByOne
        <3>2. ASSUME activeAudio' # {}
              PROVE  active' # None /\ turn'[active'].stage # "none" /\ activeAudio' = turn'[active'].heard
            <4>1. active' = active /\ activeAudio' = activeAudio
                BY <2>5, <3>2
            <4>2. active # None /\ turn[active].stage # "none" /\ activeAudio = turn[active].heard
                BY <3>2, <4>1 DEF AnswersInv, KeptByOne
            <4> QED
                BY <2>4, <2>8, <4>1, <4>2
        <3> QED
            BY <3>1, <3>2 DEF KeptByOne
    <2> QED
        BY <1>t, <1>h, <2>3, <2>6, <2>7, PlacesShrink
<1> QED
    BY <1>1, <1>2

(* Utterances pass from one place to one other. *)
LEMMA PlacesPass ==
    ASSUME Placed, ComesOnce', said' = said, Coming' \subseteq Coming, Answered' = Answered,
           NEW M, M \subseteq Coming \cup Heard \cup Due, Apart(M, Coming'),
           \/ /\ Heard' \subseteq Heard \cup M /\ Due' \subseteq Due /\ Kept' \subseteq Kept
              /\ Apart(M, Due) /\ Apart(M, Kept)
           \/ /\ Heard' \subseteq Heard /\ Due' \subseteq Due \cup M /\ Kept' \subseteq Kept
              /\ Apart(M, Heard') /\ Apart(M, Kept)
           \/ /\ Heard' \subseteq Heard /\ Due' \subseteq Due /\ Kept' \subseteq Kept \cup M
              /\ Apart(M, Heard') /\ Apart(M, Due')
    PROVE  Placed'
<1>1. Apart(M, Answered)
    BY DEF Placed, InOnePlace, Apart
<1>2. SaidBefore'
    BY DEF Placed, SaidBefore
<1>3. InOnePlace'
    BY <1>1 DEF Placed, InOnePlace, Apart
<1> QED
    BY <1>2, <1>3 DEF Placed

(* A step of the core that passes nothing on and begins no epoch. *)
LEMMA AnswersAside ==
    ASSUME AnswersInv, UNCHANGED <<config, said, epoch, turn>>, pending' \subseteq pending,
           UNCHANGED <<active, activeAudio>> \/ (active' = None /\ activeAudio' = {}),
           UNCHANGED history \/ \E t \in Turns : history' = Append(history, <<t, "interrupted">>),
           ComesOnce', Coming' \subseteq Coming,
           candidate' \in {candidate, {}}, smart' \in {smart, "off"},
           \A d \in Callers : /\ caller'[d].audio \subseteq caller[d].audio
                              /\ caller'[d].pc = "analyze" => caller[d].pc = "analyze"
    PROVE  Placed' /\ Candidates' /\ AnsweredAreDone' /\ KeptByOne' /\ AnsweredOnce'
<1>c. {"consumer", "timer", "stopper"} = Callers
    BY DEF Callers
<1>1. Kept' \subseteq Kept /\ KeptByOne'
    BY KeptAside
<1>2. Answered' = Answered /\ AnsweredAreDone' /\ AnsweredOnce'
    BY NothingAnswered DEF AnswersInv, GateInv
<1>3. Heard' \subseteq Heard /\ Due' \subseteq Due
    BY <1>c DEF Heard, Due
<1>4. Candidates'
    BY <1>c DEF AnswersInv, Candidates
<1>5. Placed'
    BY <1>1, <1>2, <1>3, PlacesShrink DEF AnswersInv, Placed
<1> QED
    BY <1>1, <1>2, <1>4, <1>5

(* What a coroutine begins a turn with is the turn's, or still its own. *)
LEMMA AnswersBegins ==
    ASSUME AnswersInv, NEW c \in Callers, NEW audio \in Sound, Begins(audio), Rests(c),
           UNCHANGED history \/ \E t \in Turns : history' = Append(history, <<t, "interrupted">>)
    PROVE  /\ Kept' \subseteq Kept \cup audio /\ KeptByOne'
           /\ Answered' = Answered /\ AnsweredAreDone' /\ AnsweredOnce'
           /\ caller'[c].audio = {} /\ caller'[c].pc = "idle"
           /\ \A d \in Callers : d # c => caller'[d] = caller[d]
<1>1. /\ Kept' \subseteq Kept \cup audio /\ KeptByOne'
      /\ \A s \in Turns : turn[s].stage \in {"finished", "gone"} =>
            turn'[s].stage \in {"finished", "gone"} /\ turn'[s].heard = turn[s].heard
    BY KeptBegins
<1>2. Answered' = Answered /\ AnsweredAreDone' /\ AnsweredOnce'
    BY <1>1, NothingAnswered DEF AnswersInv, GateInv
<1> QED
    BY <1>1, <1>2 DEF Rests, Goes

LEMMA AnswersBeginTurn ==
    ASSUME AnswersInv, NEW c \in Callers, NEW audio \in Sound, BeginTurn(c, audio)
    PROVE  /\ \/ Kept' \subseteq Kept /\ caller'[c].audio \in {{}, audio}
              \/ Kept' \subseteq Kept \cup audio /\ caller'[c].audio = {}
           /\ caller'[c].pc # "analyze"
           /\ KeptByOne'
           /\ Answered' = Answered /\ AnsweredAreDone' /\ AnsweredOnce'
           /\ \A d \in Callers : d # c => caller'[d] = caller[d]
           /\ UNCHANGED config
<1>t. Typed
    BY DEF AnswersInv, GateInv
<1>b. /\ UNCHANGED config
      /\ \/ Returns(c)
         \/ ~Done(active) /\ Interrupts(c, "begin", audio)
         \/ StartsTurn(c, audio)
    BY <1>t, BeginTurnEffect
<1>s. ASSUME UNCHANGED <<turn, conversation>>
      PROVE  Answered' = Answered /\ AnsweredAreDone' /\ AnsweredOnce'
    BY <1>s, <1>t, NothingAnswered DEF AnswersInv, conversation
<1>1. CASE Returns(c)
    <2>1. Kept' \subseteq Kept /\ KeptByOne'
        BY <1>1, KeptAside DEF Returns
    <2> QED
        BY <1>1, <1>b, <1>s, <2>1 DEF Returns, Rests, Goes
<1>2. CASE ~Done(active) /\ Interrupts(c, "begin", audio)
    <2>1. Kept' \subseteq Kept /\ KeptByOne'
        BY <1>2, KeptInvalidates DEF Interrupts
    <2>2. UNCHANGED <<turn, conversation>> /\ Invalidates(c, "begin", audio)
        BY <1>2 DEF Interrupts
    <2> QED
        BY <1>b, <1>s, <2>1, <2>2 DEF Invalidates
<1>3. CASE StartsTurn(c, audio)
    <2>1. Begins(audio) /\ Rests(c) /\ UNCHANGED history
        BY <1>3 DEF StartsTurn, conversation
    <2>2. caller'[c].pc = "idle" /\ caller'[c].audio = {}
        BY <2>1 DEF Rests, Goes
    <2> QED
        BY <1>b, <2>1, <2>2, AnswersBegins
<1> QED
    BY <1>b, <1>1, <1>2, <1>3

LEMMA AnswersCore ==
    ASSUME AnswersInv, Core
    PROVE  Placed' /\ Candidates' /\ AnsweredAreDone' /\ KeptByOne' /\ AnsweredOnce'
<1> USE DEF microphone, held
<1> DEFINE Goal == Placed' /\ Candidates' /\ AnsweredAreDone' /\ KeptByOne' /\ AnsweredOnce'
           Recorded == UNCHANGED history \/ \E t \in Turns : history' = Append(history, <<t, "interrupted">>)
           CallersLess == \A d \in Callers : /\ caller'[d].audio \subseteq caller[d].audio
                                             /\ caller'[d].pc = "analyze" => caller[d].pc = "analyze"
<1>t. /\ Typed /\ Callers = {"consumer", "timer", "stopper"} /\ {} \in Sound
      /\ events \in Seq(Events) /\ caller \in [Callers -> CallerRows]
      /\ \A c \in Callers : caller[c].audio \in Sound
      /\ candidate \in Sound
    BY DEF AnswersInv, GateInv, Typed, CallerRows, Callers, Sound
<1>p. Placed /\ ComesOnce /\ Candidates
    BY DEF AnswersInv, Placed
<1>m. ASSUME UNCHANGED microphone PROVE ComesOnce' /\ Coming' = Coming /\ said' = said
    BY <1>m, <1>p DEF ComesOnce, Coming
<1>e. ASSUME NEW event, Consumes(event)
      PROVE  /\ ComesOnce' /\ Coming' \subseteq Coming /\ said' = said
             /\ \A u \in Utterances : event = <<"end", u>> => u \in Coming /\ u \notin Coming'
    <2>1. events # <<>> /\ events' = Tail(events) /\ event = Head(events) /\ UNCHANGED <<said, inSpeech>>
        BY <1>e, <1>t, ConsumesEffect
    <2>2. DistinctEnds(events) /\ (inSpeech => said \notin EndsOf(events))
        BY <1>p DEF ComesOnce
    <2>3. /\ EndsOf(events') \subseteq EndsOf(events) /\ DistinctEnds(events')
          /\ \A u \in Utterances : event = <<"end", u>> => u \in EndsOf(events) /\ u \notin EndsOf(events')
        BY <1>t, <2>1, <2>2, TailEnds
    <2> QED
        BY <2>1, <2>2, <2>3 DEF ComesOnce, Coming
<1>g. ASSUME NEW c \in Callers, NEW p, NEW audio \in {{}, caller[c].audio}, Goes(c, p, audio), p # "analyze"
      PROVE  CallersLess
    BY <1>g DEF Goes
<1>r. \A c \in Callers : Rest(c) => CallersLess
    BY <1>t, <1>g, RestEffect DEF Rests
<1>s. CloseOpen => Recorded
    BY <1>t, CloseOpenRecords
<1>u. UNCHANGED caller => CallersLess
    OBVIOUS
<1>v. UNCHANGED conversation => Recorded
    BY DEF conversation
<1> HIDE DEF CallersLess, Recorded
<1>a. ASSUME UNCHANGED <<config, said, epoch, turn>>, pending' \subseteq pending,
             UNCHANGED <<active, activeAudio>> \/ (active' = None /\ activeAudio' = {}),
             Recorded, ComesOnce', Coming' \subseteq Coming,
             candidate' \in {candidate, {}}, smart' \in {smart, "off"}, CallersLess
      PROVE  Goal
    BY <1>a, AnswersAside DEF CallersLess, Recorded
<1>1. CASE Greet
    BY <1>1, <1>t, <1>m, <1>r, <1>v, <1>a DEF Greet
<1>2. CASE Leave
    <2>1. CallersLess
        BY <1>2, <1>t, <1>g, CallersGo DEF Leave
    <2>2. ComesOnce' /\ Coming' \subseteq Coming /\ said' = said
        BY <1>2, <1>e DEF Leave
    <2> QED
        BY <1>2, <1>v, <1>a, <2>1, <2>2 DEF Leave
<1>3. CASE HearStart
    <2>1. ComesOnce' /\ Coming' \subseteq Coming /\ said' = said
        BY <1>3, <1>e DEF HearStart
    <2>2. CASE ~Done(active) /\ BargeIn("consumer", "start", {})
        <3>1. Interrupts("consumer", "start", {})
            BY <1>t, <2>2, BargeInEffect
        <3>2. Invalidates("consumer", "start", {}) /\ UNCHANGED <<turn, history>>
            BY <3>1 DEF Interrupts, conversation
        <3>3. Kept' \subseteq Kept /\ KeptByOne'
            BY <1>t, <2>2, <3>1, KeptInvalidates DEF Interrupts
        <3>4. Answered' = Answered /\ AnsweredAreDone' /\ AnsweredOnce'
            BY <1>t, <3>2, NothingAnswered DEF AnswersInv
        <3>5. /\ caller'["consumer"].audio = {} /\ caller'["consumer"].pc \in {"flush", "reap"}
              /\ caller'["timer"] = caller["timer"] /\ caller'["stopper"] = caller["stopper"]
            BY <1>t, <3>2 DEF Invalidates
        <3>6. Heard' \subseteq Heard /\ Due' \subseteq Due /\ Candidates'
            BY <1>3, <1>p, <3>5 DEF HearStart, Heard, Due, Candidates
        <3> QED
            BY <1>p, <2>1, <3>3, <3>4, <3>6, PlacesShrink
    <2>3. CASE UNCHANGED <<epoch, active, activeAudio, pending, caller, turn, conversation>>
        BY <1>3, <1>u, <1>v, <1>a, <2>1, <2>3 DEF HearStart
    <2> QED
        BY <1>3, <2>2, <2>3 DEF HearStart
(* The consumer begins a turn with what it holds. *)
<1>b. ASSUME BeginTurn("consumer", caller["consumer"].audio), candidate' = {}, UNCHANGED <<microphone, smart>>
      PROVE  Goal
    <2> DEFINE audio == caller["consumer"].audio
    <2>1. /\ \/ Kept' \subseteq Kept /\ caller'["consumer"].audio \in {{}, audio}
             \/ Kept' \subseteq Kept \cup audio /\ caller'["consumer"].audio = {}
          /\ caller'["consumer"].pc # "analyze"
          /\ KeptByOne' /\ Answered' = Answered /\ AnsweredAreDone' /\ AnsweredOnce'
          /\ caller'["timer"] = caller["timer"] /\ caller'["stopper"] = caller["stopper"]
          /\ UNCHANGED config
        BY <1>b, <1>t, AnswersBeginTurn
    <2>2. Due' = Due /\ audio \subseteq Heard /\ Heard' = caller'["consumer"].audio
        BY <1>b, <2>1 DEF Due, Heard
    <2>3. Candidates'
        BY <1>b, <1>p, <2>1 DEF Candidates
    <2> HIDE DEF audio
    <2>4. Placed'
        <3>1. CASE Kept' \subseteq Kept /\ Heard' \subseteq Heard
            BY <1>b, <1>m, <1>p, <2>1, <2>2, <3>1, PlacesShrink
        <3>2. CASE Kept' \subseteq Kept \cup audio /\ Heard' = {}
            <4>1. Apart(audio, Coming') /\ Apart(audio, Heard') /\ Apart(audio, Due')
                BY <1>b, <1>m, <1>p, <2>2, <3>2 DEF Placed, InOnePlace, Apart
            <4> QED
                BY <1>b, <1>m, <1>p, <2>1, <2>2, <3>2, <4>1, PlacesPass
        <3> QED
            BY <2>1, <2>2, <3>1, <3>2
    <2> QED
        BY <2>1, <2>3, <2>4
<1>4. CASE Identified
    <2>1. CASE BeginTurn("consumer", caller["consumer"].audio)
        BY <1>4, <1>b, <2>1 DEF Identified
    <2>2. CASE /\ \/ Rest("consumer")
                  \/ caller' = [caller EXCEPT !["consumer"] = [Resting EXCEPT !.pc = "wake ack"]]
               /\ UNCHANGED <<config, epoch, active, activeAudio, pending, turn, conversation>>
        <3>1. CallersLess
            BY <1>t, <1>r, <1>g, <2>2, CallersGo
        <3> QED
            BY <1>4, <1>m, <1>v, <1>a, <2>2, <3>1 DEF Identified
    <2> QED
        BY <1>4, <2>1, <2>2 DEF Identified
<1>5. CASE WakeAckPlayed
    BY <1>5, <1>t, <1>m, <1>r, <1>v, <1>a DEF WakeAckPlayed
<1>6. CASE Continuing
    <2>1. /\ UNCHANGED <<config, said, epoch, active, activeAudio, pending, turn, history>>
          /\ candidate' = caller["consumer"].audio /\ smart' = "armed"
          /\ caller["consumer"].pc = "analyze"
        BY <1>6 DEF Continuing, conversation
    <2>2. /\ caller'["consumer"].audio = {} /\ caller'["consumer"].pc = "idle"
          /\ caller'["timer"] = caller["timer"] /\ caller'["stopper"] = caller["stopper"]
        BY <1>6, <1>t, RestEffect DEF Continuing, Rests, Goes
    <2>3. Kept' \subseteq Kept /\ KeptByOne'
        BY <2>1, KeptAside
    <2>4. Answered' = Answered /\ AnsweredAreDone' /\ AnsweredOnce'
        BY <1>t, <2>1, NothingAnswered DEF AnswersInv
    <2>5. Heard' \subseteq Heard /\ Due' \subseteq Due
        BY <2>1, <2>2 DEF Heard, Due
    <2>6. Candidates'
        BY <1>p, <2>1, <2>2 DEF Candidates
    <2>7. ComesOnce' /\ Coming' = Coming
        BY <1>6, <1>m DEF Continuing
    <2> QED
        BY <1>p, <2>1, <2>3, <2>4, <2>5, <2>6, <2>7, PlacesShrink
<1>7. CASE Complete
    BY <1>7, <1>b DEF Complete
<1>8. CASE SmartTurnTimeout
    <2>1. CASE UNCHANGED <<candidate, caller>>
        BY <1>8, <1>m, <1>u, <1>v, <1>a, <2>1 DEF SmartTurnTimeout
    <2>2. CASE /\ candidate' = {}
               /\ caller' = [caller EXCEPT !["timer"].pc = "created", !["timer"].audio = candidate]
        <3>1. Goes("timer", "created", candidate)
            BY <1>t, <2>2, CallersGo
        <3>2. /\ UNCHANGED <<config, said, epoch, active, activeAudio, pending, turn, history>>
              /\ caller["consumer"].audio = {} /\ smart' = "off"
            BY <1>8, <1>p DEF SmartTurnTimeout, Candidates, conversation
        <3>3. /\ caller'["timer"].audio = candidate /\ caller'["consumer"] = caller["consumer"]
              /\ caller'["stopper"] = caller["stopper"]
            BY <1>t, <3>1 DEF Goes
        <3>4. Kept' \subseteq Kept /\ KeptByOne'
            BY <3>2, KeptAside
        <3>5. Answered' = Answered /\ AnsweredAreDone' /\ AnsweredOnce'
            BY <1>t, <3>2, NothingAnswered DEF AnswersInv
        <3>6. Heard = candidate /\ Heard' = {} /\ Due' = candidate
            BY <2>2, <3>2, <3>3 DEF Heard, Due
        <3>7. Candidates'
            BY <1>p, <2>2, <3>2, <3>3 DEF Candidates
        <3>8. ComesOnce' /\ Coming' = Coming
            BY <1>8, <1>m DEF SmartTurnTimeout
        <3>9. Apart(candidate, Coming') /\ Apart(candidate, Heard') /\ Apart(candidate, Kept)
            BY <1>p, <3>6, <3>8 DEF Placed, InOnePlace, Apart
        <3> QED
            BY <1>p, <3>2, <3>4, <3>5, <3>6, <3>7, <3>8, <3>9, PlacesPass
    <2> QED
        BY <1>8, <2>1, <2>2 DEF SmartTurnTimeout
<1>9. CASE TimerTaskRuns
    <2> DEFINE audio == caller["timer"].audio
    <2>1. UNCHANGED <<microphone, candidate, smart>> /\ BeginTurn("timer", audio)
        BY <1>9 DEF TimerTaskRuns
    <2>2. /\ \/ Kept' \subseteq Kept /\ caller'["timer"].audio \in {{}, audio}
             \/ Kept' \subseteq Kept \cup audio /\ caller'["timer"].audio = {}
          /\ KeptByOne' /\ Answered' = Answered /\ AnsweredAreDone' /\ AnsweredOnce'
          /\ caller'["consumer"] = caller["consumer"] /\ caller'["stopper"] = caller["stopper"]
          /\ UNCHANGED config
        BY <1>t, <2>1, AnswersBeginTurn
    <2>3. Due = audio /\ Due' = caller'["timer"].audio /\ Heard' = Heard
        BY <2>1, <2>2 DEF Due, Heard
    <2>4. Candidates'
        BY <1>p, <2>1, <2>2 DEF Candidates
    <2> HIDE DEF audio
    <2>5. Placed'
        <3>1. CASE Kept' \subseteq Kept /\ Due' \subseteq Due
            BY <1>m, <1>p, <2>1, <2>2, <2>3, <3>1, PlacesShrink
        <3>2. CASE Kept' \subseteq Kept \cup audio /\ Due' = {}
            <4>1. Apart(audio, Coming') /\ Apart(audio, Heard') /\ Apart(audio, Due')
                BY <1>m, <1>p, <2>1, <2>3, <3>2 DEF Placed, InOnePlace, Apart
            <4> QED
                BY <1>m, <1>p, <2>1, <2>2, <2>3, <3>2, <4>1, PlacesPass
        <3> QED
            BY <2>2, <2>3, <3>1, <3>2
    <2> QED
        BY <2>2, <2>4, <2>5
<1>10. CASE WakeWordTimeout
    BY <1>10, <1>m, <1>u, <1>v, <1>a DEF WakeWordTimeout
<1>11. CASE Watchdog
    BY <1>11, <1>m, <1>u, <1>v, <1>a DEF Watchdog
<1>12. CASE StartAfterBargeIn
    BY <1>12, <1>t, <1>m, <1>r, <1>s, <1>a DEF StartAfterBargeIn, BargedIn
<1>13. CASE Stop
    <2>1. /\ Invalidates("stopper", "stop", {})
          /\ UNCHANGED <<config, said, active, activeAudio, pending, candidate, smart, turn, history>>
        BY <1>13, <1>t, InvalidateEffect DEF Stop, conversation
    <2>2. Kept' \subseteq Kept /\ KeptByOne'
        BY <1>t, <2>1, KeptInvalidates
    <2>3. Answered' = Answered /\ AnsweredAreDone' /\ AnsweredOnce'
        BY <1>t, <2>1, NothingAnswered DEF AnswersInv
    <2>4. /\ caller'["stopper"].audio = {}
          /\ caller'["timer"] = caller["timer"] /\ caller'["consumer"] = caller["consumer"]
        BY <1>t, <2>1 DEF Invalidates
    <2>5. Heard' \subseteq Heard /\ Due' \subseteq Due /\ Candidates'
        BY <1>p, <2>1, <2>4 DEF Heard, Due, Candidates
    <2>6. ComesOnce' /\ Coming' = Coming
        BY <1>13, <1>m DEF Stop
    <2> QED
        BY <1>p, <2>1, <2>2, <2>3, <2>5, <2>6, PlacesShrink
<1>14. CASE StopMicrophone
    <2>1. CallersLess
        BY <1>14, <1>t, <1>g, CallersGo DEF StopMicrophone
    <2> QED
        BY <1>14, <1>m, <1>s, <1>a, <2>1 DEF StopMicrophone
<1>15. CASE Stopped
    BY <1>15, AnswersMicrophone
<1>16. ASSUME NEW u \in Utterances, HearEnd(u) PROVE Goal
    <2> DEFINE audio == candidate \cup {u}
    <2>1. /\ ComesOnce' /\ Coming' \subseteq Coming /\ said' = said /\ u \in Coming /\ u \notin Coming'
          /\ audio \in Sound /\ smart' = "off" /\ candidate' = candidate
        BY <1>16, <1>t, <1>e DEF HearEnd, Sound
    <2>2. CASE \E p \in {"identify", "analyze"} :
                /\ caller' = [caller EXCEPT !["consumer"].pc = p, !["consumer"].audio = audio]
                /\ UNCHANGED <<config, epoch, active, activeAudio, pending, turn, conversation>>
                /\ p = "analyze" => config.arbiter
        <3>1. PICK p \in {"identify", "analyze"} :
                 Goes("consumer", p, audio) /\ (p = "analyze" => config.arbiter)
            BY <1>t, <2>1, <2>2, CallersGo
        <3>2. UNCHANGED <<config, epoch, active, activeAudio, pending, turn, history>>
            BY <2>2 DEF conversation
        <3>3. /\ caller'["consumer"].audio = audio /\ caller'["consumer"].pc = p
              /\ caller'["timer"] = caller["timer"] /\ caller'["stopper"] = caller["stopper"]
            BY <1>t, <3>1 DEF Goes
        <3>4. Kept' \subseteq Kept /\ KeptByOne'
            BY <3>2, KeptAside
        <3>5. Answered' = Answered /\ AnsweredAreDone' /\ AnsweredOnce'
            BY <1>t, <3>2, NothingAnswered DEF AnswersInv
        <3>6. Candidates'
            BY <1>p, <2>1, <3>1, <3>2, <3>3 DEF Candidates
        <3>7. Heard' \subseteq Heard \cup {u} /\ Due' = Due
            BY <2>1, <3>3 DEF Heard, Due
        <3>8. Apart({u}, Coming') /\ Apart({u}, Due) /\ Apart({u}, Kept)
            BY <1>p, <2>1 DEF Placed, InOnePlace, Apart
        <3> QED
            BY <1>p, <2>1, <3>4, <3>5, <3>6, <3>7, <3>8, PlacesPass
    <2>3. CASE ~config.arbiter /\ BeginTurn("consumer", audio)
        <3>1. /\ \/ Kept' \subseteq Kept /\ caller'["consumer"].audio \in {{}, audio}
                 \/ Kept' \subseteq Kept \cup audio /\ caller'["consumer"].audio = {}
              /\ caller'["consumer"].pc # "analyze"
              /\ KeptByOne' /\ Answered' = Answered /\ AnsweredAreDone' /\ AnsweredOnce'
              /\ caller'["timer"] = caller["timer"] /\ caller'["stopper"] = caller["stopper"]
              /\ UNCHANGED config
            BY <1>t, <2>1, <2>3, AnswersBeginTurn
        <3>2. candidate = {} /\ audio = {u}
            BY <1>p, <2>3 DEF Candidates
        <3>3. Candidates'
            BY <1>p, <2>1, <3>1, <3>2 DEF Candidates
        <3>4. Due' = Due /\ Heard' = caller'["consumer"].audio
            BY <2>1, <3>1, <3>2 DEF Due, Heard
        <3> HIDE DEF audio
        <3>5. Apart(audio, Coming') /\ Apart(audio, Due) /\ Apart(audio, Kept)
            BY <1>p, <2>1, <3>2 DEF Placed, InOnePlace, Apart
        <3>6. CASE Kept' \subseteq Kept
            BY <1>p, <2>1, <3>1, <3>2, <3>3, <3>4, <3>5, <3>6, PlacesPass
        <3>7. CASE Kept' \subseteq Kept \cup audio /\ Heard' = {}
            <4>1. Apart(audio, Heard') /\ Apart(audio, Due')
                BY <3>4, <3>5, <3>7 DEF Apart
            <4> QED
                BY <1>p, <2>1, <3>1, <3>2, <3>3, <3>4, <3>5, <3>7, <4>1, PlacesPass
        <3> QED
            BY <3>1, <3>4, <3>6, <3>7
    <2> QED
        BY <1>16, <2>2, <2>3 DEF HearEnd
<1>17. ASSUME NEW c \in Callers, Flushed(c) PROVE Goal
    <2>1. CallersLess
        BY <1>17, <1>t, FlushedEffect DEF CallersLess
    <2> QED
        BY <1>17, <1>m, <1>v, <1>a, <2>1 DEF Flushed
<1>18. ASSUME NEW c \in Callers, BeginAfterBargeIn(c) PROVE Goal
    <2> DEFINE audio == caller[c].audio
    <2>1. /\ Rests(c) /\ Begins(audio) /\ Recorded /\ candidate' = {}
          /\ UNCHANGED <<config, microphone, smart>> /\ audio \in Sound
        BY <1>18, <1>t, <1>s, RestEffect, NewTurnEffect DEF BeginAfterBargeIn, BargedIn
    <2>2. /\ Kept' \subseteq Kept \cup audio /\ KeptByOne'
          /\ Answered' = Answered /\ AnsweredAreDone' /\ AnsweredOnce'
          /\ caller'[c].audio = {} /\ caller'[c].pc = "idle"
          /\ \A d \in Callers : d # c => caller'[d] = caller[d]
        BY <2>1, AnswersBegins DEF Recorded
    <2>3. Heard' \subseteq Heard /\ Due' \subseteq Due
        BY <1>t, <2>1, <2>2 DEF Heard, Due
    <2>4. audio \subseteq Heard \cup Due /\ Apart(audio, Heard') /\ Apart(audio, Due')
        <3>1. CASE c = "consumer"
            BY <1>t, <1>p, <2>1, <2>2, <3>1 DEF Heard, Due, Placed, InOnePlace, Apart
        <3>2. CASE c = "timer"
            BY <1>t, <1>p, <2>1, <2>2, <2>3, <3>2 DEF Heard, Due, Placed, InOnePlace, Apart
        <3>3. CASE c = "stopper"
            BY <1>p, <3>3 DEF Candidates, Apart
        <3> QED
            BY <1>t, <3>1, <3>2, <3>3
    <2>5. Candidates'
        BY <1>t, <1>p, <2>1, <2>2 DEF Candidates
    <2> HIDE DEF audio
    <2>6. Apart(audio, Coming') /\ ComesOnce' /\ Coming' = Coming /\ said' = said
        BY <1>m, <1>p, <2>1, <2>4 DEF Placed, InOnePlace, Apart
    <2> QED
        BY <1>p, <2>2, <2>3, <2>4, <2>5, <2>6, PlacesPass
<1> QED
    BY <1>1, <1>2, <1>3, <1>4, <1>5, <1>6, <1>7, <1>8, <1>9, <1>10, <1>11, <1>12, <1>13, <1>14,
       <1>15, <1>16, <1>17, <1>18 DEF Core

LEMMA AnswersStart == Init => AnswersInv
<1> SUFFICES ASSUME Init PROVE AnswersInv
    OBVIOUS
<1>1. GateInv
    BY TypedStart, GateStart DEF GateInv
<1>2. /\ \A c \in Callers : caller[c].audio = {} /\ caller[c].pc # "analyze"
      /\ {"consumer", "timer", "stopper"} = Callers
    BY DEF Init, Resting, Callers
<1>3. /\ pending = {} /\ candidate = {} /\ activeAudio = {} /\ ~inSpeech /\ said = 0 /\ epoch = 0
      /\ active = None /\ smart = "off" /\ events = <<>> /\ history = <<>>
    BY DEF Init
<1>4. 0 \notin Turns /\ None \notin Turns
    BY TurnsAreNumbers DEF Turns
<1>5. Coming = {} /\ Heard = {} /\ Due = {} /\ Kept = {} /\ Answered = {}
    <2>1. Coming = {} /\ Answered = {}
        BY <1>3 DEF Coming, EndsOf, Answered
    <2>2. Heard = {} /\ Due = {}
        BY <1>2, <1>3 DEF Heard, Due
    <2>3. Kept = {}
        BY <1>3, <1>4 DEF Kept, OfTurn
    <2> QED
        BY <2>1, <2>2, <2>3
<1>6. InOnePlace /\ SaidBefore
    BY <1>3, <1>5 DEF InOnePlace, Apart, SaidBefore
<1>7. ComesOnce /\ Candidates /\ AnsweredAreDone /\ AnsweredOnce
    BY <1>2, <1>3 DEF ComesOnce, DistinctEnds, EndsOf, Candidates, AnsweredAreDone, AnsweredOnce
<1>8. KeptByOne
    BY <1>3, <1>4 DEF KeptByOne
<1> QED
    BY <1>1, <1>6, <1>7, <1>8 DEF AnswersInv

LEMMA AnswersStep == AnswersInv /\ [Next]_vars => AnswersInv'
<1> SUFFICES ASSUME AnswersInv, [Next]_vars PROVE AnswersInv'
    OBVIOUS
<1> DEFINE Goal == Placed' /\ Candidates' /\ AnsweredAreDone' /\ KeptByOne' /\ AnsweredOnce'
<1>t. Typed /\ GateInv'
    BY GateStep DEF AnswersInv, GateInv
<1> SUFFICES Goal
    BY <1>t DEF AnswersInv, Placed
<1>1. CASE SpeechStarts \/ SpeechEnds
    BY <1>1, AnswersMicrophone
<1>2. CASE Core
    BY <1>2, AnswersCore
<1>3. ASSUME NEW t \in Turns, TurnSteps(t) \/ Play(t) PROVE Goal
    BY <1>3, <1>t, TurnEffects, AnswersTurn
<1>4. ASSUME UNCHANGED <<config, microphone, epoch, active, activeAudio, held, caller, turn, conversation>>
      PROVE  Goal
    <2>1. /\ UNCHANGED <<config, said, events, inSpeech, epoch, active, activeAudio>>
          /\ UNCHANGED <<pending, candidate, smart, caller, turn, history>>
        BY <1>4 DEF microphone, held, conversation
    <2>2. ComesOnce' /\ Coming' \subseteq Coming
        BY <2>1 DEF AnswersInv, ComesOnce, Coming
    <2> QED
        BY <2>1, <2>2, AnswersAside
<1>5. CASE EngineServes \/ EngineFails
    <2>1. CASE OnlyCalls
        BY <1>4, <2>1 DEF OnlyCalls
    <2> QED
        BY <1>5, <1>t, <2>1, EngineEffects, AnswersTurn
<1>6. CASE UNCHANGED vars
    BY <1>4, <1>6 DEF vars
<1> QED
    BY <1>1, <1>2, <1>3, <1>5, <1>6 DEF Next

(***************************************************************************)
(* No two turns that were answered to the end answered the same utterance, *)
(* however barge-ins, merges and the smart-turn timer passed it on: it is  *)
(* in one place at a time.                                                 *)
(***************************************************************************)
THEOREM NothingIsAnsweredTwice == Spec => []AnsweredOnce
<1>1. AnswersInv => AnsweredOnce
    BY DEF AnswersInv
<1> QED
    BY <1>1, AnswersStart, AnswersStep, PTL DEF Spec

=============================================================================
