--------------------------- MODULE TaskExecution ---------------------------
(***************************************************************************)
(* Tasks and their execution: TaskManager (agents/task_manager.py) keeps   *)
(* the state of each task and its cancellation token; one TaskExecutor     *)
(* (agents/executor.py) runs the steps of several plans, each through the  *)
(* pipeline of ToolExecutor (tools/executor.py), and consults one          *)
(* LoopDetector for all of them.                                           *)
(*                                                                         *)
(* Everything runs on one event loop: an action is what happens from one   *)
(* await to the next.  A plan is a sequence of steps already in execution  *)
(* order.  The rows in SQLite are written and never read back, and are     *)
(* left out.                                                               *)
(***************************************************************************)
EXTENDS Integers, Sequences, FiniteSets

CONSTANTS Tasks,
          Plan,           \* the steps of each task
          Cyclic,         \* tasks whose plan has no execution order
          Known,          \* tool calls whose tool is in the registry
          Tools, Outputs, Errors, None,
          MaxSteps,       \* the executor's step budget
          ToolThreshold

Steps == [tool : Tools,             \* the tool and its parameters
          asks : BOOLEAN,           \* ASK_USER: the user must confirm
          revalidate : BOOLEAN,     \* the target is looked for on the screen first
          terminal : BOOLEAN,
          deps : SUBSET Nat]        \* positions of prerequisites; 0: not in the plan

ASSUME PlanAssumption ==
    /\ Plan \in [Tasks -> Seq(Steps)]
    /\ \A t \in Tasks : Plan[t] # <<>>
ASSUME BudgetAssumption == MaxSteps \in Nat /\ MaxSteps >= 1
ASSUME MembershipAssumption == Cyclic \subseteq Tasks /\ Known \subseteq Tools

VARIABLES
    state,      \* the manager's record of each task, None before it is created
    error,      \* why it failed
    token,      \* its cancellation token is set
    pc,         \* where its execution is
    pos,        \* steps executed
    done,       \* positions of the steps that succeeded
    late,       \* its wall-clock limit has passed
    result,     \* the state that execute() returned
    ran,        \* history: positions whose handler was invoked, in order
    approved,   \* history: positions the user approved
    detector, calls, screens   \* the loop detector and its history

manager == <<state, error, token>>
execution == <<pc, pos, done, late, result>>
history == <<ran, approved>>
loop == <<detector, calls, screens>>
vars == <<manager, execution, history, loop>>

Life == INSTANCE TaskLifecycle
Loop == INSTANCE LoopDetector
        WITH Screens <- {}, ObsThreshold <- ToolThreshold, MaxHistory <- 0

Terminal == Life!Terminal
Awaiting == {"revalidating", "confirming", "acting"}
Ended == {"returned", "raised"}
Causes == {None, "timeout", "budget", "dependency", "revalidation", "loop", "step"}

ASSUME NoneAssumption == None \notin Life!TaskStates

TypeOK ==
    /\ state \in [Tasks -> Life!TaskStates \cup {None}]
    /\ error \in [Tasks -> Causes]
    /\ token \in [Tasks -> BOOLEAN]
    /\ pc \in [Tasks -> {"idle"} \cup Awaiting \cup Ended]
    /\ pos \in [Tasks -> Nat] /\ done \in [Tasks -> SUBSET Nat]
    /\ ran \in [Tasks -> Seq(Nat)] /\ approved \in [Tasks -> SUBSET Nat]
    /\ late \in [Tasks -> BOOLEAN]
    /\ result \in [Tasks -> Terminal \cup {None}]

Init ==
    /\ state = [t \in Tasks |-> None]
    /\ error = [t \in Tasks |-> None]
    /\ token = [t \in Tasks |-> FALSE]
    /\ pc = [t \in Tasks |-> "idle"]
    /\ pos = [t \in Tasks |-> 0]
    /\ done = [t \in Tasks |-> {}]
    /\ late = [t \in Tasks |-> FALSE]
    /\ result = [t \in Tasks |-> None]
    /\ ran = [t \in Tasks |-> <<>>]
    /\ approved = [t \in Tasks |-> {}]
    /\ Loop!Init

-----------------------------------------------------------------------------
(* TaskManager *)

Create(t) ==
    /\ state[t] = None
    /\ state' = [state EXCEPT ![t] = "CREATED"]
    /\ UNCHANGED <<error, token, execution, history, loop>>

(* transition() by the router and the planner, before the task is executed *)
Prepare(t) ==
    /\ pc[t] = "idle"
    /\ state[t] # None
    /\ \E s \in {"ROUTING", "PLANNING"} \cap Life!Transitions[state[t]] :
          state' = [state EXCEPT ![t] = s]
    /\ UNCHANGED <<error, token, execution, history, loop>>

Cancelled(s) == IF s \in Terminal THEN s ELSE "CANCELLED"

Cancel(t) ==
    /\ state[t] # None
    /\ token' = [token EXCEPT ![t] = TRUE]
    /\ state' = [state EXCEPT ![t] = Cancelled(@)]
    /\ UNCHANGED <<error, execution, history, loop>>

-----------------------------------------------------------------------------
(* TaskExecutor.execute(): s is the state the task has reached within the  *)
(* action and n the number of steps executed.                              *)

Return(t, s, n, r, e) ==
    /\ pc' = [pc EXCEPT ![t] = "returned"]
    /\ result' = [result EXCEPT ![t] = r]
    /\ state' = [state EXCEPT ![t] = s]
    /\ error' = [error EXCEPT ![t] = e]
    /\ pos' = [pos EXCEPT ![t] = n]
    /\ UNCHANGED ran

(* TaskManager.fail() spares a task that is already terminal; the executor  *)
(* reports FAILED all the same.                                             *)
Fail(t, s, n, e) ==
    IF s \in Terminal THEN Return(t, s, n, "FAILED", error[t])
                      ELSE Return(t, "FAILED", n, "FAILED", e)

Raise(t, s, n) ==
    /\ pc' = [pc EXCEPT ![t] = "raised"]
    /\ state' = [state EXCEPT ![t] = s]
    /\ pos' = [pos EXCEPT ![t] = n]
    /\ UNCHANGED <<result, error, ran>>

Await(t, s, n, where) ==
    /\ pc' = [pc EXCEPT ![t] = where]
    /\ state' = [state EXCEPT ![t] = s]
    /\ pos' = [pos EXCEPT ![t] = n]
    /\ UNCHANGED <<result, error>>

(* ToolExecutor hands the step to its handler. *)
Act(t, s, n) ==
    /\ Await(t, s, n, "acting")
    /\ ran' = [ran EXCEPT ![t] = Append(@, n + 1)]

Attempt_IgnoresState(t, s, n) ==
    IF Plan[t][n + 1].asks
    THEN Await(t, "WAITING_CONFIRMATION", n, "confirming") /\ UNCHANGED ran
    ELSE Act(t, s, n)

(* The permission pre-check and the call of ToolExecutor.execute(). *)
Attempt(t, s, n) ==
    LET step == Plan[t][n + 1] IN
    \/ step.tool \notin Known /\ Raise(t, s, n)
    \/ step.tool \in Known /\ ~step.asks /\ Act(t, s, n)
    \/ /\ step.tool \in Known /\ step.asks
       /\ s = "EXECUTING"
       /\ Await(t, "WAITING_CONFIRMATION", n, "confirming")
       /\ UNCHANGED ran
    \/ step.tool \in Known /\ step.asks /\ s # "EXECUTING" /\ Raise(t, s, n)

Turn_BudgetOffByOne(t, s, n, d) ==
    IF n > MaxSteps THEN Fail(t, s, n, "budget") ELSE Attempt(t, s, n)

(* One turn of the loop over the steps; d are the steps that succeeded. *)
Turn(t, s, n, d) ==
    LET step == Plan[t][n + 1] IN
    IF token[t] THEN Return(t, Cancelled(s), n, "CANCELLED", error[t])
    ELSE IF late[t] THEN Fail(t, s, n, "timeout")
    ELSE IF n >= MaxSteps THEN Fail(t, s, n, "budget")
    ELSE IF ~(step.deps \subseteq d) THEN Fail(t, s, n, "dependency")
    ELSE IF step.revalidate THEN Await(t, s, n, "revalidating") /\ UNCHANGED ran
    ELSE Attempt(t, s, n)

(* TaskManager.complete() only completes a task it has as EXECUTING. *)
Complete(t, s, n) ==
    IF late[t] THEN Fail(t, s, n, "timeout")
    ELSE Return(t, IF s = "EXECUTING" THEN "COMPLETED" ELSE s, n, "COMPLETED", error[t])

Start(t) ==
    LET s == IF state[t] \in {"CREATED", "ROUTING", "PLANNING"} THEN "EXECUTING"
             ELSE state[t]
    IN  /\ pc[t] = "idle" /\ state[t] # None
        /\ IF t \in Cyclic THEN Raise(t, s, 0) ELSE Turn(t, s, 0, {})
        /\ UNCHANGED <<token, done, late, approved, loop>>

Revalidated_OnlyIfExecuting(t, found) ==
    /\ pc[t] = "revalidating" /\ state[t] = "EXECUTING"
    /\ IF found THEN Attempt(t, state[t], pos[t])
                ELSE Fail(t, state[t], pos[t], "revalidation")
    /\ UNCHANGED <<token, done, late, approved, loop>>

Revalidated(t, found) ==
    /\ pc[t] = "revalidating"
    /\ IF found THEN Attempt(t, state[t], pos[t])
                ELSE Fail(t, state[t], pos[t], "revalidation")
    /\ UNCHANGED <<token, done, late, approved, loop>>

Approve(t) ==
    /\ pc[t] = "confirming"
    /\ approved' = [approved EXCEPT ![t] = @ \cup {pos[t] + 1}]
    /\ Act(t, state[t], pos[t])
    /\ UNCHANGED <<token, done, late, loop>>

Resumed_Forgotten(s) == s

(* The finally clause after the tool. *)
Resumed(s) == IF s = "WAITING_CONFIRMATION" THEN "EXECUTING" ELSE s

(* The tool failed, timed out, or was refused. *)
StepFails(t, e) ==
    LET n == pos[t] + 1  s == Resumed(state[t])
    IN  /\ pc[t] \in {"confirming", "acting"}
        /\ Loop!RecordToolCall(Plan[t][n].tool, e, FALSE)
        /\ Fail(t, s, n, IF detector'.reason # None THEN "loop" ELSE "step")
        /\ UNCHANGED <<token, done, late, approved>>

StepSucceeds(t, o) ==
    LET n == pos[t] + 1  s == Resumed(state[t])  d == done[t] \cup {n}
    IN  /\ pc[t] = "acting"
        /\ Loop!RecordToolCall(Plan[t][n].tool, o, TRUE)
        /\ IF detector'.reason # None
           THEN Fail(t, s, n, "loop") /\ UNCHANGED done
           ELSE /\ done' = [done EXCEPT ![t] = d]
                /\ IF Plan[t][n].terminal \/ n = Len(Plan[t])
                   THEN Complete(t, s, n)
                   ELSE Turn(t, s, n, d)
        /\ UNCHANGED <<token, late, approved>>

(* The coroutine of execute() is cancelled by its caller. *)
Abandon(t) ==
    /\ pc[t] \in Awaiting
    /\ Raise(t, Resumed(state[t]), pos[t])
    /\ UNCHANGED <<token, done, late, approved, loop>>

(* The wall-clock limit passes while the execution waits. *)
RunsLate(t) ==
    /\ pc[t] \in Awaiting /\ ~late[t]
    /\ late' = [late EXCEPT ![t] = TRUE]
    /\ UNCHANGED <<manager, pc, pos, done, result, history, loop>>

(* What an execution waits for: the confirmation and the tool have limits  *)
(* of their own, and the screen is looked at once.                         *)
Answer(t) ==
    \/ \E found \in BOOLEAN : Revalidated(t, found)
    \/ Approve(t)
    \/ \E e \in Errors : StepFails(t, e)
    \/ \E o \in Outputs : StepSucceeds(t, o)

Next == \E t \in Tasks : \/ Create(t) \/ Prepare(t) \/ Cancel(t) \/ Start(t)
                         \/ Answer(t) \/ Abandon(t) \/ RunsLate(t)

Spec == Init /\ [][Next]_vars

Fairness == \A t \in Tasks : WF_vars(Answer(t))
LiveSpec == Spec /\ Fairness

-----------------------------------------------------------------------------
(* What holds of the code. *)

(* Whatever cancel() meets, what execute() returns and what the manager    *)
(* keeps agree, but for a task that was cancelled in the meantime; and no   *)
(* task ends as completed or failed without its execution saying so.       *)
EndsAsReported ==
    \A t \in Tasks :
        /\ result[t] # None => state[t] \in {result[t], "CANCELLED"}
        /\ state[t] \in {"COMPLETED", "FAILED"} => result[t] = state[t]

(* A task is WAITING_CONFIRMATION only while a step that asks is being     *)
(* confirmed or, once approved, executed; and a prompt is out only for a   *)
(* task that waits or was cancelled meanwhile (executor.py:249-264).       *)
WaitingIsForUser ==
    \A t \in Tasks :
        /\ state[t] = "WAITING_CONFIRMATION" =>
              pc[t] \in {"confirming", "acting"} /\ Plan[t][pos[t] + 1].asks
        /\ pc[t] = "confirming" => state[t] \in {"WAITING_CONFIRMATION", "CANCELLED"}

(* Handlers run one after another in the plan's order, each at most once,  *)
(* within the budget, after its prerequisites succeeded and, where the     *)
(* user is asked, after the user approved that very step.                  *)
StepsInOrder ==
    \A t \in Tasks :
        /\ Len(ran[t]) <= MaxSteps
        /\ \A i \in 1 .. Len(ran[t]) :
              /\ ran[t][i] = i
              /\ Plan[t][i].deps \subseteq done[t] \cap 1 .. (i - 1)
              /\ Plan[t][i].asks => i \in approved[t]
              /\ i < Len(ran[t]) => i \in done[t] /\ ~Plan[t][i].terminal

(* "Terminal states — no further transitions allowed" (schemas/task.py),   *)
(* though fail(), cancel() and complete() pass by the matrix.              *)
TerminalIsFinal ==
    [][\A t \in Tasks : state[t] \in Terminal => state'[t] = state[t]]_vars

(* The call that completes a loop ends the task that made it.              *)
LoopsAbort ==
    [][calls' # calls /\ Loop!ToolLoopAt(Len(calls))' =>
          \E t \in Tasks : pc[t] \in Awaiting /\ result'[t] = "FAILED"]_vars

(* The manager and the executor move every task along the matrix.          *)
ImplementsTaskLifecycle == Life!Spec

(* An execution ends, however it is cancelled, refused or late.            *)
ExecutionsEnd == \A t \in Tasks : pc[t] \in Awaiting ~> pc[t] \in Ended

-----------------------------------------------------------------------------
(* What the documentation says and the code does not do. *)

(* "Cooperative cancellation is checked before every action."              *)
CancelledActsNoMore ==
    [][\A t \in Tasks : token[t] => ran'[t] = ran[t]]_vars

(* A task is aborted for a loop only by the call that completes one.       *)
AbortedForALoop ==
    [][\A t \in Tasks : error[t] # "loop" /\ error'[t] = "loop" =>
                           Loop!ToolLoopAt(Len(calls))']_vars

(* A task whose result is COMPLETED is COMPLETED in the manager.           *)
CompletedInManager == \A t \in Tasks : result[t] = "COMPLETED" => state[t] = "COMPLETED"

(* A task that is listed as active is being executed, or will be.          *)
ActiveIsExecuted == \A t \in Tasks : pc[t] \in Ended => state[t] \in Terminal

=============================================================================
