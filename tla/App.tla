-------------------------------- MODULE App ---------------------------------
(***************************************************************************)
(* The program from main() to its exit (main.py), with the lifecycle of    *)
(* the link (core/lifecycle.py), the text console (desktop/console.py) and *)
(* the tray (desktop/tray.py).  A signal, Quit in the tray, the end of the *)
(* console or of the voice loop, or a failure anywhere ends it; _shutdown  *)
(* then takes every part down in turn.                                     *)
(***************************************************************************)
EXTENDS Naturals, Sequences, SequencesExt

VARIABLES
    mode,       \* "cli", "voice", "health" or "bench", with an engine or without
    pc,         \* where run() is
    signalled,  \* _shutdown_event
    part,       \* part -> none, up, down, or half down because its stop failed
    main,       \* the task that run() waits for
    stdin,      \* does a thread still wait for a line of input?
    failed,     \* has anything raised out of the mode's function?
    gone        \* history: the parts in the order _shutdown took them down

appVars == <<mode, pc, signalled, part, main, stdin, failed, gone>>

Parts == {"tray", "core", "console", "memory", "link"}
Order == <<"tray", "core", "console", "memory", "link">>
Modes == [kind : {"cli", "voice", "health", "bench"}, engine : BOOLEAN]
Setup == {"arguments", "config", "connect", "wire", "tray"}
Running == {"running", "stop main", "cancel"}

TypeOK ==
    /\ mode \in Modes /\ {signalled, stdin, failed} \subseteq BOOLEAN
    /\ pc \in Setup \cup Running \cup Parts \cup {"exited", "ended"}
    /\ part \in [Parts -> {"none", "up", "down", "half"}]
    /\ main \in {"none", "reading", "answering", "listening", "done", "raised", "cancelled"}
    /\ gone \in Seq(Parts)

Init ==
    /\ mode \in Modes /\ pc = "arguments" /\ signalled = FALSE
    /\ part = [p \in Parts |-> "none"]
    /\ main = "none" /\ stdin = FALSE /\ failed = FALSE /\ gone = <<>>

Turns(p, state) == part' = [part EXCEPT ![p] = state]

(* SIGINT, SIGTERM, or Quit in the tray. *)
Signal ==
    /\ ~signalled /\ pc \notin {"exited", "ended"}
    /\ signalled' = TRUE
    /\ UNCHANGED <<mode, pc, part, main, stdin, failed, gone>>

-----------------------------------------------------------------------------
(* _setup: what fails goes to the finally of run() *)

setUp == <<mode, signalled, main, stdin, gone>>

(* --voice needs the engine. *)
ArgumentsParsed ==
    /\ pc = "arguments"
    /\ IF mode.kind = "voice" /\ ~mode.engine THEN pc' = "tray" /\ failed' = TRUE
       ELSE pc' = "config" /\ UNCHANGED failed
    /\ UNCHANGED <<part, setUp>>

(* The configuration, the governor and the memory.  The health check and    *)
(* the benchmark need no more: they end by themselves.                     *)
Configured ==
    /\ pc = "config"
    /\ Turns("memory", "up")
    /\ pc' = IF mode.kind \in {"health", "bench"} THEN "tray"
             ELSE IF mode.engine THEN "connect" ELSE "wire"
    /\ UNCHANGED <<failed, setUp>>

(* LifecycleManager.start *)
Connected ==
    /\ pc = "connect"
    /\ Turns("link", "up") /\ pc' = "wire"
    /\ UNCHANGED <<failed, setUp>>

(* connect, ping or status fails: _cleanup_on_failure closes the link. *)
NotConnected ==
    /\ pc = "connect"
    /\ Turns("link", "down") /\ pc' = "tray" /\ failed' = TRUE
    /\ UNCHANGED setUp

Leading == IF mode.kind = "cli" THEN "console" ELSE "core"

(* Tools, provider, router, agent and orchestrator; the console or the core *)
(* of the mode; its tray; its task.                                        *)
Wired ==
    /\ pc = "wire"
    /\ \E tray \in {"none", "up"} :
          part' = [part EXCEPT ![Leading] = "up", !["tray"] = tray]
    /\ main' = IF mode.kind = "cli" THEN "reading" ELSE "listening"
    /\ stdin' = (mode.kind = "cli")
    /\ pc' = "running"
    /\ UNCHANGED <<mode, signalled, failed, gone>>

SetupFails ==
    /\ pc \in {"config", "wire"}
    /\ \/ UNCHANGED part
       \/ pc = "wire" /\ Turns(Leading, "up")
    /\ pc' = "tray" /\ failed' = TRUE
    /\ UNCHANGED setUp

-----------------------------------------------------------------------------
(* TextConsole.run, InteractionCore.run *)

running == <<mode, pc, signalled, part, failed, gone>>

(* A request, exit or the end of the input, or an empty line. *)
LineTyped ==
    /\ main = "reading"
    /\ main' \in {"answering", "done"} \cup (IF signalled THEN {} ELSE {"reading"})
    /\ stdin' = (main' = "reading")
    /\ UNCHANGED running

(* The loop looks at the event between two lines. *)
LineAnswered ==
    /\ main = "answering"
    /\ main' = IF signalled THEN "done" ELSE "reading"
    /\ stdin' = ~signalled
    /\ UNCHANGED running

MainEnds ==
    /\ main \in {"answering", "listening"}
    /\ main' \in {"raised"} \cup (IF main = "listening" THEN {"done"} ELSE {})
    /\ UNCHANGED <<stdin, running>>

Ended == main \in {"done", "raised"}

(* asyncio.wait: the task is done, or the event is set. *)
WaitReturns ==
    /\ pc = "running" /\ (Ended \/ signalled)
    /\ pc' = IF signalled THEN "stop main" ELSE "cancel"
    /\ UNCHANGED <<mode, signalled, part, main, stdin, failed, gone>>

(* console.stop() only sets the event again; the core's stop can fail half  *)
(* way, and is then taken for done when it is called again.                *)
StopMain ==
    /\ pc = "stop main"
    /\ IF mode.kind = "cli" THEN pc' = "cancel" /\ UNCHANGED <<part, failed>>
       ELSE \/ Turns("core", "down") /\ pc' = "cancel" /\ UNCHANGED failed
            \/ Turns("core", "half") /\ pc' = "tray" /\ failed' = TRUE
    /\ UNCHANGED <<mode, signalled, main, stdin, gone>>

(* Whatever is pending is cancelled; the thread that reads a line is not.   *)
Cancel ==
    /\ pc = "cancel"
    /\ main' = IF Ended THEN main ELSE "cancelled"
    /\ failed' = (main = "raised") /\ pc' = "tray"
    /\ UNCHANGED <<mode, signalled, part, stdin, gone>>

-----------------------------------------------------------------------------
(* _shutdown *)

After(p) == LET n == CHOOSE k \in DOMAIN Order : Order[k] = p
            IN  IF n < Len(Order) THEN Order[n + 1] ELSE "exited"

TakeDown_Raises ==
    /\ pc \in Parts
    /\ \E state \in {"down", "half"} :
          /\ IF part[pc] = "up" THEN Turns(pc, state) /\ gone' = Append(gone, pc)
             ELSE UNCHANGED <<part, gone>>
          /\ pc' = IF part[pc] = "up" /\ state = "half" THEN "exited" ELSE After(pc)
    /\ UNCHANGED <<mode, signalled, main, stdin, failed>>

(* A part whose stop fails is logged and passed over. *)
TakeDown ==
    /\ pc \in Parts
    /\ IF part[pc] = "up"
       THEN /\ \E state \in {"down", "half"} : Turns(pc, state)
            /\ gone' = Append(gone, pc)
       ELSE UNCHANGED <<part, gone>>
    /\ pc' = After(pc)
    /\ UNCHANGED <<mode, signalled, main, stdin, failed>>

(* asyncio.run cancels what is left and joins the threads of the loop.      *)
ProcessEnds ==
    /\ pc = "exited" /\ ~stdin
    /\ pc' = "ended" /\ main' = IF Ended \/ main = "none" THEN main ELSE "cancelled"
    /\ UNCHANGED <<mode, signalled, part, stdin, failed, gone>>

(* The line that a thread waited for after its task had been cancelled.     *)
LateLine ==
    /\ stdin /\ main = "cancelled"
    /\ stdin' = FALSE
    /\ UNCHANGED <<main, running>>

Next ==
    \/ Signal \/ ArgumentsParsed \/ Configured \/ Connected \/ NotConnected \/ Wired
    \/ SetupFails \/ LineTyped \/ LineAnswered \/ MainEnds \/ WaitReturns \/ StopMain
    \/ Cancel \/ TakeDown \/ ProcessEnds \/ LateLine

-----------------------------------------------------------------------------
(* Wherever the program is interrupted and whatever fails, in set-up, in    *)
(* its task or in the stop of a part, no part is left up when run()        *)
(* returns, and the link, which the others speak over, goes down after     *)
(* them (_shutdown).                                                       *)
EverythingIsTakenDown ==
    /\ pc \in {"exited", "ended"} => \A p \in Parts : part[p] # "up"
    /\ "link" \in ToSet(gone) => \A p \in Parts : part[p] # "up"
    /\ pc = "ended" => main \notin {"reading", "answering", "listening"}
=============================================================================
