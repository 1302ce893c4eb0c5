---------------------------- MODULE AgentSession ----------------------------
(***************************************************************************)
(* The one agent of the program (agents/base.py), the orchestrator that    *)
(* runs requests on it (agents/orchestrator.py) and the tool executor they *)
(* share (tools/executor.py).  Requests come one after another, as run()   *)
(* or stream(); the agent's state, the executor's confirmation hook and    *)
(* the lease on the reasoning model outlive them.  A request can be        *)
(* cancelled by its token, by its task, or by closing the stream.          *)
(***************************************************************************)
EXTENDS Naturals

CONSTANTS MaxSteps,     \* max_steps
          MaxTools,     \* bound: tool calls of one answer
          MaxChunks,    \* bound: chunks of one answer
          MaxLate       \* bound: handlers that go on after their call has ended

VARIABLES
    agent,      \* AgentState
    request,    \* where the request is; how it was asked; its steps, tools and chunks left
    token,      \* is the request's token cancelled?
    killed,     \* is its task told to cancel?
    lease,      \* is the lease on the reasoning model held?
    hook,       \* the executor's confirmation hook: "inner" or "aware" of the agent
    late,       \* handlers still at work for a call that has ended
    outcome     \* of the last request

vars == <<agent, request, token, killed, lease, hook, late, outcome>>

AgentStates == {"IDLE", "THINKING", "ACTING", "WAITING_CONFIRMATION", "ERROR", "TERMINATED"}
Awaits == {"route", "lease", "think", "confirm", "running", "drain", "kill drain"}

TypeOK ==
    /\ agent \in AgentStates
    /\ request \in [pc : {"none", "step", "tools", "yielded"} \cup Awaits,
                    as : {"run", "stream", "direct"}, step : 0 .. MaxSteps,
                    tools : 0 .. MaxTools, chunks : 0 .. MaxChunks]
    /\ {token, killed, lease} \subseteq BOOLEAN
    /\ hook \in {"inner", "aware"} /\ late \in 0 .. MaxLate
    /\ outcome \in {"none", "answered", "cancelled", "failed", "closed", "raised"}

NoRequest == [pc |-> "none", as |-> "run", step |-> 0, tools |-> 0, chunks |-> 0]

Init ==
    /\ agent = "IDLE" /\ request = NoRequest /\ token = FALSE /\ killed = FALSE
    /\ lease = FALSE /\ hook = "inner" /\ late = 0 /\ outcome = "none"

-----------------------------------------------------------------------------
(* Agent.transition_to *)

ValidTransitions ==
    [s \in AgentStates |->
       CASE s = "IDLE"     -> {"THINKING", "TERMINATED"}
         [] s = "THINKING" -> {"ACTING", "WAITING_CONFIRMATION", "IDLE", "ERROR", "TERMINATED"}
         [] s = "ACTING"   -> {"THINKING", "WAITING_CONFIRMATION", "IDLE", "ERROR", "TERMINATED"}
         [] s = "WAITING_CONFIRMATION" -> {"ACTING", "IDLE", "ERROR", "TERMINATED"}
         [] s = "ERROR"      -> {"IDLE", "TERMINATED"}
         [] s = "TERMINATED" -> {}]

Can(state) == state \in ValidTransitions[agent]
Terminated == agent' = "TERMINATED"
Ends(how) == request' = NoRequest /\ outcome' = how /\ token' = FALSE /\ killed' = FALSE
At(pc) == request.pc = pc
Goes(pc) == request' = [request EXCEPT !.pc = pc] /\ UNCHANGED <<outcome, token, killed>>

(* An exception nobody catches leaves run() and stream(). *)
Raises == Ends("raised") /\ UNCHANGED agent

-----------------------------------------------------------------------------
(* run and stream *)

Begin ==
    /\ At("none")
    /\ \E as \in {"run", "stream"} :
          request' = [NoRequest EXCEPT !.pc = "route", !.as = as]
    /\ UNCHANGED <<agent, token, killed, lease, hook, late, outcome>>

(* _check_cancelled *)
Cancelled == Terminated /\ Ends("cancelled")

(* The token had been cancelled before the request was routed. *)
CancelledAtOnce ==
    /\ At("route") /\ token
    /\ Cancelled
    /\ UNCHANGED <<lease, hook, late>>

RoutedToLoop ==
    /\ At("route") /\ ~killed
    /\ Goes("step")
    /\ UNCHANGED <<agent, lease, hook, late>>

(* _execute_direct_tool *)
RoutedToTool ==
    /\ At("route") /\ ~killed
    /\ request' = [request EXCEPT !.pc = "tools", !.as = "direct", !.tools = 1]
    /\ agent' = IF agent = "IDLE" THEN "THINKING" ELSE agent
    /\ UNCHANGED <<token, killed, lease, hook, late, outcome>>

(* There is no model: THINKING, then ERROR. *)
NoModel ==
    /\ At("route") /\ ~killed
    /\ CASE agent = "TERMINATED" -> Ends("answered") /\ UNCHANGED agent
         [] agent = "IDLE"       -> Ends("answered") /\ agent' = "ERROR"
         [] OTHER                -> Raises
    /\ UNCHANGED <<lease, hook, late>>

-----------------------------------------------------------------------------
(* _run_agent_loop and _stream_agent_loop *)

(* _think waits for the lease on the reasoning model. *)
Step ==
    /\ At("step") /\ ~token /\ request.step < MaxSteps
    /\ IF agent \in {"TERMINATED", "THINKING"} \/ Can("THINKING")
       THEN /\ request' = [request EXCEPT !.pc = "lease", !.step = @ + 1, !.chunks = MaxChunks]
            /\ agent' = IF agent = "TERMINATED" THEN agent ELSE "THINKING"
            /\ UNCHANGED <<outcome, token, killed>>
       ELSE Raises
    /\ UNCHANGED <<lease, hook, late>>

StepCancelled ==
    /\ At("step") /\ token /\ request.step < MaxSteps
    /\ Cancelled
    /\ UNCHANGED <<lease, hook, late>>

OutOfSteps ==
    /\ At("step") /\ request.step = MaxSteps
    /\ Ends("failed")
    /\ agent' = IF agent = "TERMINATED" THEN agent ELSE "ERROR"
    /\ UNCHANGED <<lease, hook, late>>

LeaseGranted ==
    /\ At("lease") /\ ~killed
    /\ lease' = TRUE
    /\ Goes("think")
    /\ UNCHANGED <<agent, hook, late>>

(* The lease is refused, or the model fails: the lease goes back. *)
ModelFails ==
    /\ At("lease") \/ At("think")
    /\ ~killed
    /\ Ends("failed")
    /\ agent' = IF agent = "THINKING" THEN "ERROR" ELSE agent
    /\ lease' = FALSE
    /\ UNCHANGED <<hook, late>>

Chunk ==
    /\ At("think") /\ ~killed /\ request.as = "stream" /\ request.chunks > 0
    /\ IF token THEN Cancelled /\ lease' = FALSE
       ELSE /\ request' = [request EXCEPT !.pc = "yielded", !.chunks = @ - 1]
            /\ UNCHANGED <<agent, token, killed, lease, outcome>>
    /\ UNCHANGED <<hook, late>>

Consumed ==
    /\ At("yielded")
    /\ Goes("think")
    /\ UNCHANGED <<agent, lease, hook, late>>

(* The consumer closes the stream, or is gone: the generator unwinds, and   *)
(* nothing but its lease is given back.                                    *)
Closed_KeepsLease ==
    /\ At("yielded")
    /\ Ends("closed")
    /\ UNCHANGED <<agent, lease, hook, late>>

Closed ==
    /\ At("yielded")
    /\ Ends("closed")
    /\ lease' = FALSE
    /\ UNCHANGED <<agent, hook, late>>

Answered ==
    /\ At("think") /\ ~killed
    /\ lease' = FALSE
    /\ \/ /\ \E n \in 1 .. MaxTools : request' = [request EXCEPT !.pc = "tools", !.tools = n]
          /\ UNCHANGED <<agent, outcome, token, killed>>
       \/ /\ Ends("answered")
          /\ agent' = IF agent = "THINKING" THEN "IDLE" ELSE agent
    /\ UNCHANGED <<hook, late>>

(* The task is cancelled where the request waits for a route or a model. *)
KilledThinking ==
    /\ killed /\ (At("route") \/ At("lease") \/ At("think"))
    /\ Ends("cancelled")
    /\ agent' = IF At("route") THEN agent ELSE "TERMINATED"
    /\ lease' = FALSE
    /\ UNCHANGED <<hook, late>>

-----------------------------------------------------------------------------
(* Agent.execute_tool and ToolExecutor.execute *)

(* What happens after the observation has been recorded. *)
Observed ==
    /\ hook' = "inner"
    /\ LET after == IF agent \in {"WAITING_CONFIRMATION", "ACTING"} THEN "THINKING" ELSE agent
           left == request.tools - 1
       IN  IF request.as = "direct"
           THEN /\ Ends("answered")
                /\ agent' = IF after = "THINKING" THEN "IDLE" ELSE after
           ELSE /\ agent' = after
                /\ request' = [request EXCEPT !.tools = left,
                                              !.pc = IF left = 0 THEN "step" ELSE "tools"]
                /\ UNCHANGED <<outcome, token, killed>>

MayAct == agent \in {"IDLE", "THINKING", "ACTING"} \/ Can("ACTING")

ToolCancelled ==
    /\ At("tools") /\ token /\ request.as # "direct"
    /\ Cancelled
    /\ UNCHANGED <<lease, hook, late>>

ToolRaises ==
    /\ At("tools") /\ (~token \/ request.as = "direct") /\ ~MayAct
    /\ Raises
    /\ UNCHANGED <<lease, hook, late>>

ToolBegins == At("tools") /\ (~token \/ request.as = "direct") /\ MayAct

(* Unknown, prohibited, or called with arguments that do not fit. *)
ToolRefused ==
    /\ ToolBegins
    /\ LET left == request.tools - 1
       IN  IF request.as = "direct" THEN Ends("answered") /\ agent' = "IDLE"
           ELSE /\ agent' = "THINKING"
                /\ request' = [request EXCEPT !.tools = left,
                                              !.pc = IF left = 0 THEN "step" ELSE "tools"]
                /\ UNCHANGED <<outcome, token, killed>>
    /\ UNCHANGED <<lease, hook, late>>

ToolAsks ==
    /\ ToolBegins
    /\ agent' = "WAITING_CONFIRMATION" /\ hook' = "aware"
    /\ Goes("confirm")
    /\ UNCHANGED <<lease, late>>

ToolStarts ==
    /\ ToolBegins
    /\ agent' = "ACTING" /\ hook' = "aware"
    /\ Goes("running")
    /\ UNCHANGED <<lease, late>>

Confirmed ==
    /\ At("confirm") /\ ~killed
    /\ agent' = "ACTING"
    /\ Goes("running")
    /\ UNCHANGED <<lease, hook, late>>

(* Denied, timed out, or the hook failed. *)
Denied ==
    /\ At("confirm") /\ ~killed
    /\ Observed
    /\ UNCHANGED <<lease, late>>

ToolReturns ==
    /\ At("running") /\ ~killed
    /\ Observed
    /\ UNCHANGED <<lease, late>>

ToolTimesOut_Never ==
    /\ At("running") /\ ~killed /\ request.as = "direct"
    /\ Goes("drain")
    /\ UNCHANGED <<agent, lease, hook, late>>

ToolTimesOut ==
    /\ At("running") /\ ~killed
    /\ Goes("drain")
    /\ UNCHANGED <<agent, lease, hook, late>>

(* _drain_cancelled_task: the handler stops in time, or goes on behind the  *)
(* call.  A cancellation that arrives meanwhile is swallowed.              *)
Drained ==
    /\ At("drain")
    /\ late' \in {late, late + 1} /\ late' <= MaxLate
    /\ hook' = "inner"
    /\ LET after == "THINKING"
           left == request.tools - 1
       IN  IF request.as = "direct"
           THEN Ends("answered") /\ agent' = "IDLE"
           ELSE /\ agent' = after
                /\ request' = [request EXCEPT !.tools = left,
                                              !.pc = IF left = 0 THEN "step" ELSE "tools"]
                /\ killed' = FALSE
                /\ UNCHANGED <<outcome, token>>
    /\ UNCHANGED lease

KilledRunning ==
    /\ killed /\ At("running")
    /\ request' = [request EXCEPT !.pc = "kill drain"]
    /\ killed' = FALSE
    /\ UNCHANGED <<agent, token, lease, hook, late, outcome>>

KilledActing ==
    /\ \/ killed /\ At("confirm") /\ late' = late
       \/ At("kill drain") /\ late' \in {late, late + 1} /\ late' <= MaxLate
    /\ hook' = "inner"
    /\ Terminated /\ Ends("cancelled")
    /\ UNCHANGED lease

-----------------------------------------------------------------------------
(* The caller, and the handlers left behind *)

CancelToken ==
    /\ ~At("none") /\ ~token
    /\ token' = TRUE
    /\ UNCHANGED <<agent, request, killed, lease, hook, late, outcome>>

Kill ==
    /\ request.pc \in Awaits \ {"kill drain"} /\ ~killed
    /\ killed' = TRUE
    /\ UNCHANGED <<agent, request, token, lease, hook, late, outcome>>

LateHandlerEnds ==
    /\ late > 0
    /\ late' = late - 1
    /\ UNCHANGED <<agent, request, token, killed, lease, hook, outcome>>

Next ==
    \/ Begin \/ CancelledAtOnce \/ RoutedToLoop \/ RoutedToTool \/ NoModel
    \/ Step \/ StepCancelled \/ OutOfSteps
    \/ LeaseGranted \/ ModelFails \/ Chunk \/ Consumed \/ Closed \/ Answered \/ KilledThinking
    \/ ToolCancelled \/ ToolRaises \/ ToolRefused \/ ToolAsks \/ ToolStarts
    \/ Confirmed \/ Denied \/ ToolReturns \/ ToolTimesOut \/ Drained
    \/ KilledRunning \/ KilledActing
    \/ CancelToken \/ Kill \/ LateHandlerEnds

Spec == Init /\ [][Next]_vars

(* Routing, leases, confirmations and calls of the model end (each has a    *)
(* timeout of its own), a tool need not: its timeout does.  Who consumes a *)
(* stream goes on or closes it.                                            *)
Fairness ==
    /\ WF_vars(CancelledAtOnce \/ RoutedToLoop \/ RoutedToTool \/ NoModel)
    /\ WF_vars(Step) /\ WF_vars(StepCancelled) /\ WF_vars(OutOfSteps)
    /\ WF_vars(LeaseGranted \/ ModelFails \/ Answered) /\ WF_vars(Consumed \/ Closed)
    /\ WF_vars(KilledThinking) /\ WF_vars(ToolCancelled) /\ WF_vars(ToolRaises)
    /\ WF_vars(ToolRefused \/ ToolAsks \/ ToolStarts) /\ WF_vars(Confirmed \/ Denied)
    /\ WF_vars(ToolTimesOut) /\ WF_vars(Drained) /\ WF_vars(KilledRunning)
    /\ WF_vars(KilledActing) /\ WF_vars(LateHandlerEnds)

-----------------------------------------------------------------------------
(* However a request ended (answered, cancelled by token or task, closed    *)
(* at a yield, failed, timed out, denied), it leaves nothing behind: the   *)
(* lease is back, the executor has its own hook again and the agent is not *)
(* in the middle of an action (async with, finally, execute_tool).         *)
NothingLeftBehind ==
    At("none") => /\ ~lease /\ hook = "inner"
                  /\ agent \notin {"ACTING", "WAITING_CONFIRMATION"}

(* A request ends, although a tool never returns and a cancellation can be  *)
(* swallowed while a timed-out tool is drained.                            *)
RequestsEnd == ~At("none") ~> At("none")

(* A request can be served whatever happened to the one before it.          *)
AgentStaysUsable == outcome # "raised"
=============================================================================
