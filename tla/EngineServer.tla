---------------------------- MODULE EngineServer ----------------------------
(***************************************************************************)
(* The engine as a process: the named-pipe accept loop and one worker per  *)
(* connection (ipc/server.rs), the dispatcher's timeout                    *)
(* (ipc/dispatcher.rs), and the shutdown that cancels everything and waits *)
(* for its subsystems one after another (lifecycle.rs, main.rs).  Workers  *)
(* are told to cancel, but nobody waits for them.  Behind main the runtime *)
(* drops every task, and waits for the threads that may not be dropped:    *)
(* blocking calls of handlers, and the listener for the hotkeys.           *)
(***************************************************************************)
EXTENDS Naturals, Sequences, FiniteSets, SequencesExt

CONSTANTS Clients,
          Sinks,        \* the subsystems besides the pipe server, in main's order
          Listener,     \* the one of them that runs on a thread of its own
          MaxSent       \* bound: frames of a client

VARIABLES
    engine,     \* "running", "stopping", "leaving" (behind main) or "ended"
    cancelled,  \* the root token and its children
    sinks,      \* per subsystem: "running", "ok" or "failed"
    awaited,    \* shutdown: how many handles it has dealt with
    errors,     \* shutdown: what it reports
    accept,     \* the accept loop: "create", "wait", "ok" or "failed"
    conn,       \* per client: see NotConnected
    orphans     \* blocking calls (spawn_blocking) whose request was given up

engineVars == <<engine, cancelled, sinks, awaited, errors, accept, conn, orphans>>

Frames == {"good", "hang", "junk", "blank", "huge"}

(* sent: frames the client has written; read: how many the worker has taken; *)
(* replies: answers the client got; worker: where it is, reply: what it     *)
(* writes; stalled: the client does not read; hungUp: it has disconnected.  *)
NotConnected == [sent |-> <<>>, read |-> 0, replies |-> <<>>, worker |-> "none",
                 reply |-> "none", stalled |-> FALSE, hungUp |-> FALSE]

Init ==
    /\ engine = "running" /\ cancelled = FALSE
    /\ sinks = [t \in Sinks |-> "running"]
    /\ awaited = 0 /\ errors = {}
    /\ accept = "create"
    /\ conn = [c \in Clients |-> NotConnected] /\ orphans = 0

-----------------------------------------------------------------------------
(* run_named_pipe_server *)

CreateInstance ==
    /\ accept = "create"
    /\ accept' \in {"wait", "failed"}
    /\ UNCHANGED <<engine, cancelled, sinks, awaited, errors, conn, orphans>>

(* A worker with a child token; the loop makes the next instance. *)
Connect(c) ==
    /\ accept = "wait" /\ conn[c].worker = "none"
    /\ accept' = "create"
    /\ \E stalls \in BOOLEAN :
          conn' = [conn EXCEPT ![c].worker = "read", ![c].stalled = stalls]
    /\ UNCHANGED <<engine, cancelled, sinks, awaited, errors, orphans>>

ConnectFails ==
    /\ accept = "wait"
    /\ accept' = "create"
    /\ UNCHANGED <<engine, cancelled, sinks, awaited, errors, conn, orphans>>

AcceptCancelled ==
    /\ accept = "wait" /\ cancelled
    /\ accept' = "ok"
    /\ UNCHANGED <<engine, cancelled, sinks, awaited, errors, conn, orphans>>

-----------------------------------------------------------------------------
(* handle_connection, and the client at the other end *)

Worker(c, from, to) ==
    /\ conn[c].worker = from
    /\ conn' = [conn EXCEPT ![c].worker = to]
    /\ UNCHANGED <<engine, cancelled, sinks, awaited, errors, accept, orphans>>

Sends(c) ==
    /\ conn[c].worker # "none" /\ ~conn[c].hungUp /\ Len(conn[c].sent) < MaxSent
    /\ \E f \in Frames : conn' = [conn EXCEPT ![c].sent = Append(@, f)]
    /\ UNCHANGED <<engine, cancelled, sinks, awaited, errors, accept, orphans>>

HangsUp(c) ==
    /\ conn[c].worker # "none" /\ ~conn[c].hungUp
    /\ conn' = [conn EXCEPT ![c].hungUp = TRUE]
    /\ UNCHANGED <<engine, cancelled, sinks, awaited, errors, accept, orphans>>

(* The worker looks at its token only here. *)
ReadCancelled(c) == cancelled /\ Worker(c, "read", "ended")

EndOfFile(c) ==
    /\ conn[c].hungUp /\ conn[c].read = Len(conn[c].sent)
    /\ Worker(c, "read", "ended")

(* read_line_bounded, and the parser: what is not a request is answered at  *)
(* once, a blank line is not.                                              *)
Reads(c) ==
    /\ conn[c].worker = "read" /\ conn[c].read < Len(conn[c].sent)
    /\ LET frame == conn[c].sent[conn[c].read + 1]
           to == CASE frame = "blank" -> "read"
                   [] frame = "junk"  -> "write"
                   [] frame = "huge"  -> "refuse"
                   [] OTHER           -> "dispatch"
       IN  conn' = [conn EXCEPT ![c].read = @ + 1, ![c].worker = to, ![c].reply = "INVALID"]
    /\ UNCHANGED <<engine, cancelled, sinks, awaited, errors, accept, orphans>>

(* dispatch: an unknown method or a bad request is an error of its own. *)
Answers(c) ==
    /\ conn[c].worker = "dispatch" /\ conn[c].sent[conn[c].read] = "good"
    /\ \E reply \in {"ok", "error"} :
          conn' = [conn EXCEPT ![c].worker = "write", ![c].reply = reply]
    /\ UNCHANGED <<engine, cancelled, sinks, awaited, errors, accept, orphans>>

(* The handler is dropped; what it has given to a thread goes on. *)
DispatchTimesOut_IfGood(c) ==
    /\ conn[c].worker = "dispatch" /\ conn[c].sent[conn[c].read] = "good"
    /\ conn' = [conn EXCEPT ![c].worker = "write", ![c].reply = "TIMEOUT"]
    /\ \E left \in {0, 1} : orphans' = orphans + left
    /\ UNCHANGED <<engine, cancelled, sinks, awaited, errors, accept>>

DispatchTimesOut(c) ==
    /\ conn[c].worker = "dispatch"
    /\ conn' = [conn EXCEPT ![c].worker = "write", ![c].reply = "TIMEOUT"]
    /\ \E left \in {0, 1} : orphans' = orphans + left
    /\ UNCHANGED <<engine, cancelled, sinks, awaited, errors, accept>>

OrphanEnds ==
    /\ orphans > 0 /\ orphans' = orphans - 1
    /\ UNCHANGED <<engine, cancelled, sinks, awaited, errors, accept, conn>>

Replied(c, to) ==
    /\ ~conn[c].stalled /\ ~conn[c].hungUp
    /\ conn' = [conn EXCEPT ![c].replies = Append(@, conn[c].reply), ![c].worker = to]
    /\ UNCHANGED <<engine, cancelled, sinks, awaited, errors, accept, orphans>>

Writes(c) == conn[c].worker = "write" /\ Replied(c, "read")

(* Two seconds, or a broken pipe. *)
WriteFails(c) == Worker(c, "write", "ended")

(* The answer to a frame that is too large is written without a timeout,    *)
(* and whether that works does not matter.                                 *)
Refuses(c) ==
    \/ conn[c].worker = "refuse" /\ Replied(c, "ended")
    \/ conn[c].hungUp /\ Worker(c, "refuse", "ended")

-----------------------------------------------------------------------------
(* EngineLifecycle *)

SinkEnds(t) ==
    /\ sinks[t] = "running" /\ cancelled
    /\ sinks' = [sinks EXCEPT ![t] = "ok"]
    /\ UNCHANGED <<engine, cancelled, awaited, errors, accept, conn, orphans>>

(* An error, a panic; nobody looks at it before the shutdown. *)
SinkFails(t) ==
    /\ sinks[t] = "running"
    /\ sinks' = [sinks EXCEPT ![t] = "failed"]
    /\ UNCHANGED <<engine, cancelled, awaited, errors, accept, conn, orphans>>

Signal ==
    /\ engine = "running"
    /\ engine' = "stopping" /\ cancelled' = TRUE
    /\ UNCHANGED <<sinks, awaited, errors, accept, conn, orphans>>

Handles == SetToSeq(Sinks) \o <<"pipe">>
Status(t) == IF t = "pipe" THEN accept ELSE sinks[t]

HandleAwaited ==
    /\ engine = "stopping" /\ awaited < Len(Handles)
    /\ LET t == Handles[awaited + 1]
       IN  /\ Status(t) \in {"ok", "failed"}
           /\ errors' = IF Status(t) = "ok" THEN errors ELSE errors \cup {t}
    /\ awaited' = awaited + 1
    /\ UNCHANGED <<engine, cancelled, sinks, accept, conn, orphans>>

(* A subsystem that hangs costs five seconds. *)
HandleTimesOut ==
    /\ engine = "stopping" /\ awaited < Len(Handles)
    /\ Status(Handles[awaited + 1]) \notin {"ok", "failed"}
    /\ errors' = errors \cup {Handles[awaited + 1]}
    /\ awaited' = awaited + 1
    /\ UNCHANGED <<engine, cancelled, sinks, accept, conn, orphans>>

(* main returns: every task is dropped where it waits, the handlers with    *)
(* their workers.                                                          *)
ShutdownEnds ==
    /\ engine = "stopping" /\ awaited = Len(Handles)
    /\ engine' = "leaving"
    /\ conn' = [c \in Clients |->
                  IF conn[c].worker = "none" THEN conn[c] ELSE [conn[c] EXCEPT !.worker = "ended"]]
    /\ accept' = IF accept = "ok" THEN "ok" ELSE "failed"
    /\ sinks' = [t \in Sinks |-> IF t # Listener /\ sinks[t] = "running" THEN "failed" ELSE sinks[t]]
    /\ \E left \in 0 .. Cardinality({c \in Clients : conn[c].worker = "dispatch"}) :
          orphans' = orphans + left
    /\ UNCHANGED <<cancelled, awaited, errors>>

(* The runtime is dropped, for which it waits for its threads. *)
ProcessEnds ==
    /\ engine = "leaving" /\ orphans = 0 /\ sinks[Listener] # "running"
    /\ engine' = "ended"
    /\ UNCHANGED <<cancelled, sinks, awaited, errors, accept, conn, orphans>>

Next ==
    \/ CreateInstance \/ ConnectFails \/ AcceptCancelled
    \/ Signal \/ HandleAwaited \/ HandleTimesOut \/ ShutdownEnds \/ ProcessEnds
    \/ OrphanEnds
    \/ \E t \in Sinks : SinkEnds(t) \/ SinkFails(t)
    \/ \E c \in Clients :
          \/ Connect(c) \/ Sends(c) \/ HangsUp(c) \/ ReadCancelled(c) \/ EndOfFile(c) \/ Reads(c)
          \/ Answers(c) \/ DispatchTimesOut(c) \/ Writes(c) \/ WriteFails(c) \/ Refuses(c)

(* The task of a connection and main go on, timers run out, and the listener *)
(* looks at its token between two messages.  Clients owe nothing, nor does  *)
(* another subsystem, a blocking call, or who would accept.                *)
Fairness ==
    /\ WF_engineVars(HandleAwaited \/ HandleTimesOut \/ ShutdownEnds \/ ProcessEnds)
    /\ WF_engineVars(SinkEnds(Listener))
    /\ \A c \in Clients :
          WF_engineVars(\/ ReadCancelled(c) \/ EndOfFile(c) \/ Reads(c) \/ DispatchTimesOut(c)
                        \/ Writes(c) \/ WriteFails(c) \/ Refuses(c))

-----------------------------------------------------------------------------
Fits(frame, reply) ==
    CASE frame = "good" -> reply \in {"ok", "error", "TIMEOUT"}
      [] frame = "hang" -> reply = "TIMEOUT"
      [] OTHER          -> reply = "INVALID"

(* The client matches answers to requests by their order on the pipe as     *)
(* well as by id: every frame it was answered has one answer, in the order *)
(* of the frames, with blank lines passed over and timed-out handlers      *)
(* answered for (handle_connection is a loop over one frame at a time).    *)
AnsweredInOrder ==
    \A c \in Clients :
       LET asked == SelectSeq(conn[c].sent, LAMBDA f : f # "blank")
       IN  /\ Len(conn[c].replies) <= Len(asked)
           /\ \A i \in DOMAIN conn[c].replies : Fits(asked[i], conn[c].replies[i])

Away(c) == conn[c].worker \in {"dispatch", "write"}

(* Whatever its handler and its client do, a worker is back where it sees   *)
(* its token (handle_connection), but from the refusal of a frame that was *)
(* too large, which has no timeout.  After the signal main returns however *)
(* its subsystems hang, and the process ends once no blocking call runs    *)
(* that was given up: while one does the runtime waits without limit.      *)
EverythingStops ==
    /\ \A c \in Clients : Away(c) ~> ~Away(c)
    /\ engine = "stopping" ~> [](engine = "ended" \/ (engine = "leaving" /\ orphans > 0))
=============================================================================
