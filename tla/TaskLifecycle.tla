--------------------------- MODULE TaskLifecycle ---------------------------
(***************************************************************************)
(* What schemas/task.py promises of a task: it moves along the matrix of   *)
(* valid transitions, and a terminal state is never left.  One step may    *)
(* take several transitions, as the code does under one lock or between    *)
(* two awaits.                                                             *)
(***************************************************************************)
EXTENDS Naturals

CONSTANTS Tasks, None

VARIABLE state   \* the state of each task, None before it exists

TaskStates == {"CREATED", "ROUTING", "PLANNING", "EXECUTING", "WAITING_CONFIRMATION",
               "COMPLETING", "COMPLETED", "FAILED", "CANCELLED"}

Terminal == {"COMPLETED", "FAILED", "CANCELLED"}

Transitions ==
    [s \in TaskStates |->
        CASE s = "CREATED"   -> {"ROUTING", "CANCELLED"}
          [] s = "ROUTING"   -> {"PLANNING", "EXECUTING", "FAILED", "CANCELLED"}
          [] s = "PLANNING"  -> {"EXECUTING", "FAILED", "CANCELLED"}
          [] s = "EXECUTING" -> {"WAITING_CONFIRMATION", "PLANNING", "COMPLETING",
                                 "FAILED", "CANCELLED"}
          [] s = "WAITING_CONFIRMATION" -> {"EXECUTING", "FAILED", "CANCELLED"}
          [] s = "COMPLETING" -> {"COMPLETED", "FAILED"}
          [] s \in Terminal   -> {}]

(* What up to three transitions reach. *)
After(S) == S \cup UNION {Transitions[s] : s \in S}
Reachable(s) == After(After(Transitions[s]))

Init == state = [t \in Tasks |-> None]

Create(t) == state[t] = None /\ state' = [state EXCEPT ![t] = "CREATED"]

Move(t) ==
    /\ state[t] # None
    /\ \E s \in Reachable(state[t]) : state' = [state EXCEPT ![t] = s]

Next == \E t \in Tasks : Create(t) \/ Move(t)

Spec == Init /\ [][Next]_state
=============================================================================
