------------------------- MODULE TaskExecutionProofs -------------------------
(***************************************************************************)
(* Proofs about tasks and their execution, for any number of tasks and any *)
(* plans.  The invariant ties the manager's state of a task and its token  *)
(* to the place where its execution waits (Standing), and the steps that   *)
(* ran to the position in the plan (Progress).                             *)
(*                                                                         *)
(* And about the planner, for any plans, whatever their names, tools and   *)
(* dependencies: an accepted plan is ordered as it should be, and one      *)
(* refused for a cycle has one.                                            *)
(***************************************************************************)
EXTENDS TaskExecution, Planner, FiniteSetTheorems, TLAPS

PCs == {"idle"} \cup Awaiting \cup Ended

Standing(t) ==
    /\ pc[t] = "idle" => state[t] \in {None, "CREATED", "ROUTING", "PLANNING", "CANCELLED"}
    /\ pc[t] = "revalidating" => state[t] \in {"EXECUTING", "CANCELLED"}
    /\ pc[t] = "confirming" =>
          Plan[t][pos[t] + 1].asks /\ state[t] \in {"WAITING_CONFIRMATION", "CANCELLED"}
    /\ pc[t] = "acting" =>
          state[t] \in {"CANCELLED"} \cup (IF Plan[t][pos[t] + 1].asks
                                           THEN {"WAITING_CONFIRMATION"} ELSE {"EXECUTING"})
    /\ pc[t] = "raised" => state[t] \in {"EXECUTING", "CANCELLED"}
    /\ pc[t] = "returned" => result[t] \in Terminal /\ state[t] \in {result[t], "CANCELLED"}
    /\ pc[t] # "returned" => result[t] = None
    /\ pc[t] \in {"idle"} \cup Awaiting => (token[t] <=> state[t] = "CANCELLED")

Progress(t) ==
    /\ pc[t] = "idle" => pos[t] = 0 /\ done[t] = {} /\ ran[t] = <<>>
    /\ pc[t] \in Awaiting =>
          /\ pos[t] < Len(Plan[t]) /\ pos[t] < MaxSteps
          /\ done[t] = 1 .. pos[t]
          /\ Plan[t][pos[t] + 1].deps \subseteq done[t]
          /\ \A i \in 1 .. pos[t] : ~Plan[t][i].terminal
          /\ Len(ran[t]) = pos[t] + (IF pc[t] = "acting" THEN 1 ELSE 0)

Ordered(t) ==
    /\ Len(ran[t]) <= MaxSteps
    /\ \A i \in 1 .. Len(ran[t]) :
          /\ ran[t][i] = i
          /\ Plan[t][i].deps \subseteq done[t] \cap 1 .. (i - 1)
          /\ Plan[t][i].asks => i \in approved[t]
          /\ i < Len(ran[t]) => i \in done[t] /\ ~Plan[t][i].terminal

IInv == TypeOK /\ \A t \in Tasks : Standing(t) /\ Progress(t) /\ Ordered(t)

(* How a stretch of execute() ends that reached state s with n steps       *)
(* executed: the states it may move to are S.                              *)
Ends(t, s, n, S, q, z, r, e) ==
    /\ pc' = [pc EXCEPT ![t] = q]
    /\ state' = [state EXCEPT ![t] = z]
    /\ result' = [result EXCEPT ![t] = r]
    /\ error' = [error EXCEPT ![t] = e]
    /\ pos' = [pos EXCEPT ![t] = n]
    /\ ran' = [ran EXCEPT ![t] = IF q = "acting" THEN Append(@, n + 1) ELSE @]
    /\ z = s \/ (z \in S /\ s # "CANCELLED")
    /\ q = "returned" => r \in Terminal /\ z \in {r, "CANCELLED"}
    /\ q # "returned" => r = None
    /\ q = "raised" => z \in {"EXECUTING", "CANCELLED"}
    /\ q \in Awaiting =>
          /\ n < Len(Plan[t]) /\ n < MaxSteps
          /\ Plan[t][n + 1].deps \subseteq 1 .. n
          /\ token[t] <=> z = "CANCELLED"
    /\ q = "revalidating" => z \in {"EXECUTING", "CANCELLED"}
    /\ q = "confirming" =>
          Plan[t][n + 1].asks /\ z \in {"WAITING_CONFIRMATION", "CANCELLED"}
    /\ q = "acting" => z \in {"CANCELLED"} \cup (IF Plan[t][n + 1].asks
                                                THEN {"WAITING_CONFIRMATION"}
                                                ELSE {"EXECUTING"})

Outcome(t, s, n, S) ==
    \E q \in Awaiting \cup Ended, z \in Life!TaskStates,
       r \in Terminal \cup {None}, e \in Causes : Ends(t, s, n, S, q, z, r, e)

LEMMA StatesAreDistinct ==
  /\ None \notin Life!TaskStates
  /\ Terminal = {"COMPLETED", "FAILED", "CANCELLED"}
  /\ Life!TaskStates = {"CREATED", "ROUTING", "PLANNING", "EXECUTING", "WAITING_CONFIRMATION",
                        "COMPLETING", "COMPLETED", "FAILED", "CANCELLED"}
  BY NoneAssumption DEF Terminal, Life!Terminal, Life!TaskStates

-----------------------------------------------------------------------------
(* The stretches of execute(), one lemma for each operator. *)

LEMMA ReturnOutcome ==
  ASSUME TypeOK, NEW t \in Tasks, NEW s, NEW z \in Life!TaskStates, NEW n,
         NEW r \in Terminal, NEW e \in Causes, NEW S,
         Return(t, z, n, r, e), z \in {r, "CANCELLED"},
         z = s \/ (z \in S /\ s # "CANCELLED")
  PROVE  Outcome(t, s, n, S) /\ pc'[t] = "returned"
<1>1. ran' = [ran EXCEPT ![t] = IF "returned" = "acting" THEN Append(@, n + 1) ELSE @]
  BY DEF Return, TypeOK
<1>2. "returned" \in Awaiting \cup Ended
  BY DEF Ended
<1>3. pc'[t] = "returned"
  BY DEF Return, TypeOK
<1> QED
  BY <1>1, <1>2, <1>3 DEF Return, Outcome, Awaiting, Ends

LEMMA FailOutcome ==
  ASSUME TypeOK, NEW t \in Tasks, NEW s \in {"EXECUTING", "CANCELLED"}, NEW n,
         NEW e \in Causes, NEW S, "FAILED" \in S, Fail(t, s, n, e)
  PROVE  Outcome(t, s, n, S) /\ pc'[t] = "returned"
<1>1. CASE s = "CANCELLED"
  <2>1. Return(t, s, n, "FAILED", error[t])
    BY <1>1, StatesAreDistinct DEF Fail
  <2>2. error[t] \in Causes
    BY DEF TypeOK
  <2> QED
    BY <1>1, <2>1, <2>2, StatesAreDistinct, ReturnOutcome
<1>2. CASE s = "EXECUTING"
  <2>1. Return(t, "FAILED", n, "FAILED", e)
    BY <1>2, StatesAreDistinct DEF Fail
  <2> QED
    BY <1>2, <2>1, StatesAreDistinct, ReturnOutcome
<1> QED
  BY <1>1, <1>2

LEMMA CompleteOutcome ==
  ASSUME TypeOK, NEW t \in Tasks, NEW s \in {"EXECUTING", "CANCELLED"}, NEW n, NEW S,
         {"FAILED", "COMPLETED"} \subseteq S, Complete(t, s, n)
  PROVE  Outcome(t, s, n, S) /\ pc'[t] = "returned"
<1>1. CASE late[t]
  <2>1. Fail(t, s, n, "timeout")
    BY <1>1 DEF Complete
  <2> QED
    BY <2>1, FailOutcome DEF Causes
<1>2. CASE ~late[t]
  <2> DEFINE z == IF s = "EXECUTING" THEN "COMPLETED" ELSE s
  <2>1. Return(t, z, n, "COMPLETED", error[t])
    BY <1>2 DEF Complete
  <2>2. error[t] \in Causes
    BY DEF TypeOK
  <2>3. /\ z \in Life!TaskStates /\ z \in {"COMPLETED", "CANCELLED"}
        /\ z = s \/ (z \in S /\ s # "CANCELLED")
    BY StatesAreDistinct
  <2> HIDE DEF z
  <2> QED
    BY <2>1, <2>2, <2>3, StatesAreDistinct, ReturnOutcome
<1> QED
  BY <1>1, <1>2

LEMMA RaiseOutcome ==
  ASSUME TypeOK, NEW t \in Tasks, NEW s \in {"EXECUTING", "CANCELLED"}, NEW n, NEW S,
         result[t] = None, Raise(t, s, n)
  PROVE  Outcome(t, s, n, S) /\ pc'[t] = "raised"
<1>1. ran' = [ran EXCEPT ![t] = IF "raised" = "acting" THEN Append(@, n + 1) ELSE @]
  BY DEF Raise, TypeOK
<1>2. "raised" \in Awaiting \cup Ended /\ "raised" \notin Awaiting
  BY DEF Ended, Awaiting
<1>3. pc' = [pc EXCEPT ![t] = "raised"] /\ pc'[t] = "raised"
  BY DEF Raise, TypeOK
<1>4. result' = [result EXCEPT ![t] = None] /\ error' = [error EXCEPT ![t] = error[t]]
      /\ error[t] \in Causes
  BY DEF Raise, TypeOK
<1>5. s \in Life!TaskStates
  BY StatesAreDistinct
<1> QED
  BY <1>1, <1>2, <1>3, <1>4, <1>5 DEF Raise, Outcome, Ends

LEMMA AwaitOutcome ==
  ASSUME TypeOK, NEW t \in Tasks, NEW s \in {"EXECUTING", "WAITING_CONFIRMATION", "CANCELLED"},
         NEW n, NEW S, result[t] = None,
         NEW q \in Awaiting, NEW z \in {"EXECUTING", "WAITING_CONFIRMATION", "CANCELLED"},
         Await(t, z, n, q),
         ran' = [ran EXCEPT ![t] = IF q = "acting" THEN Append(@, n + 1) ELSE @],
         z = s \/ (z \in S /\ s # "CANCELLED"),
         n < Len(Plan[t]), n < MaxSteps, Plan[t][n + 1].deps \subseteq 1 .. n,
         token[t] <=> z = "CANCELLED",
         q = "revalidating" => z # "WAITING_CONFIRMATION",
         q = "confirming" => Plan[t][n + 1].asks /\ z # "EXECUTING",
         q = "acting" => z \in {"CANCELLED"} \cup (IF Plan[t][n + 1].asks
                                                  THEN {"WAITING_CONFIRMATION"}
                                                  ELSE {"EXECUTING"})
  PROVE  Outcome(t, s, n, S) /\ pc'[t] = q
<1>1. pc' = [pc EXCEPT ![t] = q] /\ pc'[t] = q
  BY DEF Await, TypeOK
<1>2. result' = [result EXCEPT ![t] = None] /\ error' = [error EXCEPT ![t] = error[t]]
      /\ error[t] \in Causes
  BY DEF Await, TypeOK
<1>3. z \in Life!TaskStates /\ q \in Awaiting \cup Ended /\ q # "returned" /\ q # "raised"
  BY StatesAreDistinct DEF Awaiting
<1>4. state' = [state EXCEPT ![t] = z] /\ pos' = [pos EXCEPT ![t] = n]
  BY DEF Await
<1>5. q = "revalidating" => z \in {"EXECUTING", "CANCELLED"}
  OBVIOUS
<1>6. q = "confirming" => Plan[t][n + 1].asks /\ z \in {"WAITING_CONFIRMATION", "CANCELLED"}
  OBVIOUS
<1> QED
  BY <1>1, <1>2, <1>3, <1>4, <1>5, <1>6 DEF Outcome, Ends

(* What an execution is allowed to move to before it completes. *)
Early == {"WAITING_CONFIRMATION", "FAILED"}

LEMMA AttemptOutcome ==
  ASSUME TypeOK, NEW t \in Tasks, NEW s \in {"EXECUTING", "CANCELLED"}, NEW n \in Nat,
         result[t] = None, token[t] <=> s = "CANCELLED",
         n < Len(Plan[t]), n < MaxSteps, Plan[t][n + 1].deps \subseteq 1 .. n,
         Attempt(t, s, n)
  PROVE  /\ Outcome(t, s, n, Early)
         /\ pc'[t] = "acting" => ~Plan[t][n + 1].asks
<1> DEFINE step == Plan[t][n + 1]
<1>1. CASE step.tool \notin Known /\ Raise(t, s, n)
  BY <1>1, RaiseOutcome
<1>2. CASE step.tool \in Known /\ ~step.asks /\ Act(t, s, n)
  <2>1. Await(t, s, n, "acting") /\ ran' = [ran EXCEPT ![t] = Append(@, n + 1)]
    BY <1>2 DEF Act
  <2> QED
    BY <1>2, <2>1, AwaitOutcome DEF Awaiting
<1>3. CASE /\ step.tool \in Known /\ step.asks /\ s = "EXECUTING"
           /\ Await(t, "WAITING_CONFIRMATION", n, "confirming") /\ UNCHANGED ran
  <2>1. ran' = [ran EXCEPT ![t] = @]
    BY <1>3 DEF TypeOK
  <2> QED
    BY <1>3, <2>1, AwaitOutcome DEF Awaiting, Early
<1>4. CASE step.tool \in Known /\ step.asks /\ s # "EXECUTING" /\ Raise(t, s, n)
  BY <1>4, RaiseOutcome
<1> QED
  BY <1>1, <1>2, <1>3, <1>4 DEF Attempt

LEMMA TurnOutcome ==
  ASSUME TypeOK, NEW t \in Tasks, NEW s \in {"EXECUTING", "CANCELLED"}, NEW n \in Nat,
         result[t] = None, token[t] <=> s = "CANCELLED", n < Len(Plan[t]),
         NEW d, d = 1 .. n, Turn(t, s, n, d)
  PROVE  /\ Outcome(t, s, n, Early)
         /\ pc'[t] = "acting" => ~Plan[t][n + 1].asks
<1> DEFINE step == Plan[t][n + 1]
<1>1. CASE token[t]
  <2>1. Return(t, s, n, "CANCELLED", error[t]) /\ s = "CANCELLED"
    BY <1>1 DEF Turn, Cancelled
  <2>2. error[t] \in Causes
    BY DEF TypeOK
  <2> QED
    BY <2>1, <2>2, ReturnOutcome, StatesAreDistinct
<1>2. CASE ~token[t]
  <2>0. "FAILED" \in Early /\ {"timeout", "budget", "dependency"} \subseteq Causes
    BY DEF Early, Causes
  <2>1. CASE late[t]
    BY <1>2, <2>0, <2>1, FailOutcome DEF Turn
  <2>2. CASE ~late[t] /\ n >= MaxSteps
    BY <1>2, <2>0, <2>2, FailOutcome DEF Turn
  <2>3. CASE ~late[t] /\ ~(n >= MaxSteps) /\ ~(step.deps \subseteq d)
    BY <1>2, <2>0, <2>3, FailOutcome DEF Turn
  <2>4. CASE ~late[t] /\ ~(n >= MaxSteps) /\ step.deps \subseteq d
    <3>0. n < MaxSteps
      BY <2>4, BudgetAssumption
    <3>1. CASE step.revalidate
      <4>1. Await(t, s, n, "revalidating") /\ ran' = [ran EXCEPT ![t] = @]
        BY <1>2, <2>4, <3>1 DEF Turn, TypeOK
      <4> QED
        BY <2>4, <3>0, <4>1, AwaitOutcome DEF Awaiting
    <3>2. CASE ~step.revalidate
      <4>1. Attempt(t, s, n)
        BY <1>2, <2>4, <3>2 DEF Turn
      <4> QED
        BY <2>4, <3>0, <4>1, AttemptOutcome
    <3> QED
      BY <3>1, <3>2
  <2> QED
    BY <2>1, <2>2, <2>3, <2>4
<1> QED
  BY <1>1, <1>2

-----------------------------------------------------------------------------
(* Whatever a stretch does, the invariant holds after it: d and p are the  *)
(* steps done and approved when it ends.                                   *)
LEMMA OutcomeKeeps ==
  ASSUME IInv, NEW t \in Tasks, NEW s, NEW n \in Nat, NEW S, Outcome(t, s, n, S),
         NEW d \in SUBSET Nat, NEW p \in SUBSET Nat,
         done' = [done EXCEPT ![t] = d], approved' = [approved EXCEPT ![t] = p],
         UNCHANGED <<token, late>>,
         done[t] \subseteq d, approved[t] \subseteq p,
         pc'[t] \in Awaiting => /\ d = 1 .. n /\ Len(ran[t]) = n
                                /\ \A i \in 1 .. n : ~Plan[t][i].terminal,
         pc'[t] = "acting" => (Plan[t][n + 1].asks => n + 1 \in p)
  PROVE  IInv'
<1>1. PICK q \in Awaiting \cup Ended, z \in Life!TaskStates,
           r \in Terminal \cup {None}, e \in Causes : Ends(t, s, n, S, q, z, r, e)
  BY DEF Outcome
<1> USE DEF Ends
<1>2. TypeOK /\ \A u \in Tasks : Standing(u) /\ Progress(u) /\ Ordered(u)
  BY DEF IInv
<1> DEFINE w == IF q = "acting" THEN Append(ran[t], n + 1) ELSE ran[t]
<1>3. w \in Seq(Nat)
  BY <1>2 DEF TypeOK
<1>4. TypeOK'
  <2>1. ran' = [ran EXCEPT ![t] = w]
    BY <1>1, <1>2 DEF TypeOK
  <2> HIDE DEF w
  <2> QED
    BY <1>1, <1>2, <1>3, <2>1 DEF TypeOK
<1>5. /\ pc'[t] = q /\ state'[t] = z /\ result'[t] = r /\ pos'[t] = n /\ ran'[t] = w
      /\ done'[t] = d /\ approved'[t] = p /\ token'[t] = token[t]
  BY <1>1, <1>2 DEF TypeOK
<1>6. \A u \in Tasks \ {t} : Standing(u)' /\ Progress(u)' /\ Ordered(u)'
  <2> SUFFICES ASSUME NEW u \in Tasks \ {t}
               PROVE  Standing(u)' /\ Progress(u)' /\ Ordered(u)'
    OBVIOUS
  <2>1. /\ pc'[u] = pc[u] /\ state'[u] = state[u] /\ result'[u] = result[u]
        /\ pos'[u] = pos[u] /\ ran'[u] = ran[u] /\ done'[u] = done[u]
        /\ approved'[u] = approved[u] /\ token'[u] = token[u]
    BY <1>1, <1>2 DEF TypeOK
  <2> QED
    BY <1>2, <2>1 DEF Standing, Progress, Ordered
<1>7. Standing(t)'
  BY <1>1, <1>5 DEF Standing, Awaiting, Ended
<1>8. Progress(t)'
  <2>1. q # "idle"
    BY DEF Awaiting, Ended
  <2>2. q \in Awaiting => Len(w) = n + (IF q = "acting" THEN 1 ELSE 0)
    BY <1>2, <1>5 DEF TypeOK
  <2> HIDE DEF w
  <2> QED
    BY <1>1, <1>5, <2>1, <2>2 DEF Progress
<1>9. Ordered(t)'
  <2>1. Ordered(t)
    BY <1>2
  <2>2. CASE q # "acting"
    BY <1>5, <2>1, <2>2 DEF Ordered
  <2>3. CASE q = "acting"
    <3>1. /\ d = 1 .. n /\ Len(ran[t]) = n /\ n < MaxSteps
          /\ Plan[t][n + 1].deps \subseteq 1 .. n
          /\ \A i \in 1 .. n : ~Plan[t][i].terminal
          /\ Plan[t][n + 1].asks => n + 1 \in p
      BY <1>1, <1>5, <2>3 DEF Awaiting
    <3>2. w = Append(ran[t], n + 1) /\ ran[t] \in Seq(Nat)
      BY <1>2, <2>3 DEF TypeOK
    <3>3. Len(w) = n + 1 /\ w[n + 1] = n + 1 /\ \A i \in 1 .. n : w[i] = ran[t][i]
      BY <3>1, <3>2
    <3> HIDE DEF w
    <3>4. ASSUME NEW i \in 1 .. (n + 1)
          PROVE  /\ w[i] = i
                 /\ Plan[t][i].deps \subseteq d \cap 1 .. (i - 1)
                 /\ Plan[t][i].asks => i \in p
                 /\ i < n + 1 => i \in d /\ ~Plan[t][i].terminal
      <4>1. CASE i = n + 1
        BY <3>1, <3>3, <4>1
      <4>2. CASE i \in 1 .. n
        BY <2>1, <3>1, <3>3, <4>2 DEF Ordered
      <4> QED
        BY <4>1, <4>2
    <3>5. n + 1 <= MaxSteps
      BY <3>1, BudgetAssumption
    <3> QED
      BY <1>5, <3>3, <3>4, <3>5 DEF Ordered
  <2> QED
    BY <2>2, <2>3
<1> QED
  BY <1>4, <1>6, <1>7, <1>8, <1>9 DEF IInv

-----------------------------------------------------------------------------
(* Steps of the manager: one task changes its state, nothing else moves. *)
LEMMA ManagerKeeps ==
  ASSUME IInv, NEW t \in Tasks, NEW z \in Life!TaskStates, NEW c \in BOOLEAN,
         state' = [state EXCEPT ![t] = z], token' = [token EXCEPT ![t] = c],
         UNCHANGED <<error, execution, history>>,
         Standing(t)'
  PROVE  IInv'
<1>1. TypeOK /\ \A u \in Tasks : Standing(u) /\ Progress(u) /\ Ordered(u)
  BY DEF IInv
<1>2. TypeOK'
  BY <1>1 DEF TypeOK, execution, history
<1>3. \A u \in Tasks \ {t} : state'[u] = state[u] /\ token'[u] = token[u]
  BY <1>1 DEF TypeOK
<1>4. \A u \in Tasks : Standing(u)'
  BY <1>1, <1>3 DEF Standing, execution
<1>5. \A u \in Tasks : Progress(u)' /\ Ordered(u)'
  BY <1>1 DEF Progress, Ordered, execution, history
<1> QED
  BY <1>2, <1>4, <1>5 DEF IInv

LEMMA CreateKeeps == ASSUME IInv, NEW t \in Tasks, Create(t) PROVE IInv'
<1>1. TypeOK /\ Standing(t)
  BY DEF IInv
<1>2. token' = [token EXCEPT ![t] = token[t]] /\ token[t] \in BOOLEAN
  BY <1>1 DEF TypeOK, Create
<1>3. state' = [state EXCEPT ![t] = "CREATED"] /\ state'[t] = "CREATED" /\ state[t] = None
  BY <1>1 DEF TypeOK, Create
<1>4. pc[t] = "idle"
  BY <1>1, <1>3, StatesAreDistinct DEF TypeOK, Standing, Awaiting, Ended
<1>5. Standing(t)'
  BY <1>1, <1>2, <1>3, <1>4, StatesAreDistinct DEF TypeOK, Create, Standing, Awaiting, execution
<1> QED
  BY <1>2, <1>3, <1>5, StatesAreDistinct, ManagerKeeps DEF Create

LEMMA PrepareKeeps == ASSUME IInv, NEW t \in Tasks, Prepare(t) PROVE IInv'
<1>1. TypeOK /\ Standing(t)
  BY DEF IInv
<1>2. token' = [token EXCEPT ![t] = token[t]] /\ token[t] \in BOOLEAN
  BY <1>1 DEF TypeOK, Prepare
<1>3. PICK z \in {"ROUTING", "PLANNING"} \cap Life!Transitions[state[t]] :
        state' = [state EXCEPT ![t] = z]
  BY DEF Prepare
<1>4. pc[t] = "idle" /\ state[t] \in {"CREATED", "ROUTING", "PLANNING", "CANCELLED"}
  BY <1>1 DEF Prepare, Standing
<1>5. state[t] # "CANCELLED"
  <2>1. Life!Transitions["CANCELLED"] = {}
    BY DEF Life!Transitions, Life!TaskStates, Life!Terminal
  <2> QED
    BY <1>3, <2>1
<1>6. state'[t] = z
  BY <1>1, <1>3 DEF TypeOK
<1>7. Standing(t)'
  BY <1>1, <1>2, <1>3, <1>4, <1>5, <1>6 DEF TypeOK, Prepare, Standing, Awaiting, execution
<1> QED
  BY <1>2, <1>3, <1>7, StatesAreDistinct, ManagerKeeps DEF Prepare

LEMMA CancelKeeps == ASSUME IInv, NEW t \in Tasks, Cancel(t) PROVE IInv'
<1>1. TypeOK /\ Standing(t)
  BY DEF IInv
<1> DEFINE z == Cancelled(state[t])
<1>2. state' = [state EXCEPT ![t] = z] /\ token' = [token EXCEPT ![t] = TRUE]
      /\ state'[t] = z /\ token'[t]
  BY <1>1 DEF TypeOK, Cancel
<1>3. z \in Terminal /\ (state[t] \in Terminal => z = state[t])
      /\ (state[t] \notin Terminal => z = "CANCELLED")
  BY StatesAreDistinct DEF Cancelled
<1>4. pc[t] \in {"idle"} \cup Awaiting => z = "CANCELLED"
  BY <1>1, <1>3, StatesAreDistinct DEF Cancel, Standing, Awaiting
<1> HIDE DEF z
<1>5. Standing(t)'
  BY <1>1, <1>2, <1>3, <1>4, StatesAreDistinct
     DEF TypeOK, Cancel, Standing, Awaiting, Ended, execution
<1> QED
  BY <1>2, <1>3, <1>5, StatesAreDistinct, ManagerKeeps DEF Cancel

-----------------------------------------------------------------------------
(* Steps of an execution, each with the states it may lead to. *)

Starting(t) == IF state[t] \in {"CREATED", "ROUTING", "PLANNING"} THEN "EXECUTING"
               ELSE state[t]

LEMMA StartOutcome ==
  ASSUME IInv, NEW t \in Tasks, Start(t)
  PROVE  Outcome(t, Starting(t), 0, Early) /\ (pc'[t] = "acting" => ~Plan[t][1].asks)
         /\ Starting(t) \in {"EXECUTING", "CANCELLED"}
<1> DEFINE s == Starting(t)
<1>1. TypeOK /\ Standing(t) /\ pc[t] = "idle" /\ state[t] # None
  BY DEF IInv, Start
<1>2. /\ s \in {"EXECUTING", "CANCELLED"} /\ result[t] = None
      /\ token[t] <=> s = "CANCELLED"
  BY <1>1 DEF Standing, Starting
<1>3. 0 < Len(Plan[t]) /\ 1 .. 0 = {}
  BY PlanAssumption
<1>4. IF t \in Cyclic THEN Raise(t, s, 0) ELSE Turn(t, s, 0, {})
  BY DEF Start, Starting
<1> HIDE DEF s
<1>5. CASE t \in Cyclic
  BY <1>1, <1>2, <1>4, <1>5, RaiseOutcome DEF s
<1>6. CASE t \notin Cyclic
  BY <1>1, <1>2, <1>3, <1>4, <1>6, TurnOutcome DEF s
<1> QED
  BY <1>2, <1>5, <1>6 DEF s

LEMMA StartKeeps == ASSUME IInv, NEW t \in Tasks, Start(t) PROVE IInv'
<1>1. TypeOK /\ Progress(t) /\ pc[t] = "idle"
  BY DEF IInv, Start
<1>2. /\ done' = [done EXCEPT ![t] = done[t]] /\ approved' = [approved EXCEPT ![t] = approved[t]]
      /\ done[t] = {} /\ approved[t] \in SUBSET Nat /\ Len(ran[t]) = 0
      /\ UNCHANGED <<token, late>>
  BY <1>1 DEF TypeOK, Progress, Start
<1>3. 1 .. 0 = {} /\ done[t] \in SUBSET Nat /\ 0 + 1 = 1 /\ 0 \in Nat
  BY <1>2
<1> QED
  BY <1>2, <1>3, StartOutcome, OutcomeKeeps

LEMMA RevalidatedOutcome ==
  ASSUME IInv, NEW t \in Tasks, NEW found \in BOOLEAN, Revalidated(t, found)
  PROVE  Outcome(t, state[t], pos[t], Early)
         /\ (pc'[t] = "acting" => ~Plan[t][pos[t] + 1].asks)
<1>1. TypeOK /\ Standing(t) /\ Progress(t) /\ pc[t] = "revalidating"
  BY DEF IInv, Revalidated
<1>2. /\ state[t] \in {"EXECUTING", "CANCELLED"} /\ result[t] = None
      /\ token[t] <=> state[t] = "CANCELLED"
      /\ pos[t] \in Nat /\ pos[t] < Len(Plan[t]) /\ pos[t] < MaxSteps
      /\ Plan[t][pos[t] + 1].deps \subseteq 1 .. pos[t]
  BY <1>1 DEF TypeOK, Standing, Progress, Awaiting
<1>3. CASE found
  BY <1>1, <1>2, <1>3, AttemptOutcome DEF Revalidated
<1>4. CASE ~found
  <2>1. Fail(t, state[t], pos[t], "revalidation")
    BY <1>4 DEF Revalidated
  <2> QED
    BY <1>1, <1>2, <2>1, FailOutcome DEF Early, Causes
<1> QED
  BY <1>3, <1>4

LEMMA RevalidatedKeeps ==
  ASSUME IInv, NEW t \in Tasks, NEW found \in BOOLEAN, Revalidated(t, found) PROVE IInv'
<1>1. TypeOK /\ Progress(t) /\ pc[t] = "revalidating"
  BY DEF IInv, Revalidated
<1>2. /\ done' = [done EXCEPT ![t] = done[t]] /\ approved' = [approved EXCEPT ![t] = approved[t]]
      /\ done[t] = 1 .. pos[t] /\ approved[t] \in SUBSET Nat /\ Len(ran[t]) = pos[t]
      /\ \A i \in 1 .. pos[t] : ~Plan[t][i].terminal
      /\ pos[t] \in Nat /\ done[t] \in SUBSET Nat
      /\ UNCHANGED <<token, late>>
  BY <1>1 DEF TypeOK, Progress, Awaiting, Revalidated
<1> QED
  BY <1>2, RevalidatedOutcome, OutcomeKeeps

LEMMA ApproveOutcome ==
  ASSUME IInv, NEW t \in Tasks, Approve(t)
  PROVE  Outcome(t, state[t], pos[t], {}) /\ pc'[t] = "acting"
<1>1. TypeOK /\ Standing(t) /\ Progress(t) /\ pc[t] = "confirming"
  BY DEF IInv, Approve
<1>2. /\ state[t] \in {"WAITING_CONFIRMATION", "CANCELLED"} /\ result[t] = None
      /\ Plan[t][pos[t] + 1].asks
      /\ token[t] <=> state[t] = "CANCELLED"
      /\ pos[t] \in Nat /\ pos[t] < Len(Plan[t]) /\ pos[t] < MaxSteps
      /\ Plan[t][pos[t] + 1].deps \subseteq 1 .. pos[t]
  BY <1>1 DEF TypeOK, Standing, Progress, Awaiting
<1>3. /\ Await(t, state[t], pos[t], "acting")
      /\ ran' = [ran EXCEPT ![t] = IF "acting" = "acting" THEN Append(@, pos[t] + 1) ELSE @]
  BY DEF Approve, Act
<1> QED
  BY <1>1, <1>2, <1>3, AwaitOutcome DEF Awaiting

LEMMA ApproveKeeps == ASSUME IInv, NEW t \in Tasks, Approve(t) PROVE IInv'
<1>1. TypeOK /\ Progress(t) /\ pc[t] = "confirming"
  BY DEF IInv, Approve
<1> DEFINE p == approved[t] \cup {pos[t] + 1}
<1>2. /\ done' = [done EXCEPT ![t] = done[t]] /\ approved' = [approved EXCEPT ![t] = p]
      /\ done[t] = 1 .. pos[t] /\ Len(ran[t]) = pos[t]
      /\ \A i \in 1 .. pos[t] : ~Plan[t][i].terminal
      /\ pos[t] \in Nat /\ done[t] \in SUBSET Nat /\ p \in SUBSET Nat
      /\ approved[t] \subseteq p /\ pos[t] + 1 \in p
      /\ UNCHANGED <<token, late>>
  BY <1>1 DEF TypeOK, Progress, Awaiting, Approve
<1> HIDE DEF p
<1> QED
  BY <1>2, ApproveOutcome, OutcomeKeeps

(* The state in which the finally clause leaves the task. *)
LEMMA ResumedState ==
  ASSUME IInv, NEW t \in Tasks, pc[t] \in Awaiting
  PROVE  /\ Resumed(state[t]) \in {"EXECUTING", "CANCELLED"}
         /\ Resumed(state[t]) = "CANCELLED" <=> state[t] = "CANCELLED"
         /\ token[t] <=> Resumed(state[t]) = "CANCELLED"
         /\ result[t] = None
<1>1. Standing(t)
  BY DEF IInv
<1> QED
  BY <1>1 DEF Standing, Resumed, Awaiting

(* What an execution may move to when a step has ended. *)
Late == Early \cup {"COMPLETED"}

LEMMA OutcomeWidens ==
  ASSUME NEW t, NEW s, NEW n, NEW S, NEW T, S \subseteq T, Outcome(t, s, n, S)
  PROVE  Outcome(t, s, n, T)
<1>1. PICK q \in Awaiting \cup Ended, z \in Life!TaskStates,
           r \in Terminal \cup {None}, e \in Causes : Ends(t, s, n, S, q, z, r, e)
  BY DEF Outcome
<1>2. Ends(t, s, n, T, q, z, r, e)
  BY <1>1 DEF Ends
<1> QED
  BY <1>2 DEF Outcome

LEMMA StepFailsOutcome ==
  ASSUME IInv, NEW t \in Tasks, NEW e \in Errors, StepFails(t, e)
  PROVE  Outcome(t, Resumed(state[t]), pos[t] + 1, Late) /\ pc'[t] = "returned"
<1>1. TypeOK /\ pc[t] \in Awaiting
  BY DEF IInv, StepFails, Awaiting
<1>2. PICK c \in Causes : Fail(t, Resumed(state[t]), pos[t] + 1, c)
  BY DEF StepFails, Causes
<1> QED
  BY <1>1, <1>2, ResumedState, FailOutcome DEF Late, Early

LEMMA StepFailsKeeps ==
  ASSUME IInv, NEW t \in Tasks, NEW e \in Errors, StepFails(t, e) PROVE IInv'
<1>1. TypeOK
  BY DEF IInv
<1>2. /\ done' = [done EXCEPT ![t] = done[t]] /\ approved' = [approved EXCEPT ![t] = approved[t]]
      /\ approved[t] \in SUBSET Nat /\ pos[t] + 1 \in Nat /\ done[t] \in SUBSET Nat
      /\ UNCHANGED <<token, late>>
  BY <1>1 DEF TypeOK, StepFails
<1>3. "returned" \notin Awaiting /\ "returned" # "acting"
  BY DEF Awaiting
<1> QED
  BY <1>2, <1>3, StepFailsOutcome, OutcomeKeeps

(* A step that succeeded: the loop stops here, or goes on with the next    *)
(* one, of which all before it are done.                                   *)
LEMMA StepSucceedsOutcome ==
  ASSUME IInv, NEW t \in Tasks, NEW o \in Outputs, StepSucceeds(t, o)
  PROVE  /\ Outcome(t, Resumed(state[t]), pos[t] + 1, Late)
         /\ pc'[t] = "acting" => ~Plan[t][pos[t] + 2].asks
         /\ \/ pc'[t] = "returned" /\ done' = done
            \/ pc'[t] = "returned" /\ done' = [done EXCEPT ![t] = @ \cup {pos[t] + 1}]
            \/ /\ done' = [done EXCEPT ![t] = @ \cup {pos[t] + 1}]
               /\ ~Plan[t][pos[t] + 1].terminal
<1> DEFINE n == pos[t] + 1
           s == Resumed(state[t])
           d == done[t] \cup {n}
<1>1. TypeOK /\ Progress(t) /\ pc[t] = "acting" /\ pc[t] \in Awaiting
  BY DEF IInv, StepSucceeds, Awaiting
<1>2. /\ s \in {"EXECUTING", "CANCELLED"} /\ result[t] = None
      /\ token[t] <=> s = "CANCELLED"
  BY <1>1, ResumedState
<1>3. n \in Nat /\ n <= Len(Plan[t]) /\ d = 1 .. n
  BY <1>1, PlanAssumption DEF TypeOK, Progress
<1>4. IF detector'.reason # None
      THEN Fail(t, s, n, "loop") /\ UNCHANGED done
      ELSE /\ done' = [done EXCEPT ![t] = d]
           /\ IF Plan[t][n].terminal \/ n = Len(Plan[t])
              THEN Complete(t, s, n)
              ELSE Turn(t, s, n, d)
  BY DEF StepSucceeds
<1>5. done' = [done EXCEPT ![t] = d] <=> done' = [done EXCEPT ![t] = @ \cup {pos[t] + 1}]
  BY <1>1 DEF TypeOK
<1>6. n + 1 = pos[t] + 2
  BY <1>1 DEF TypeOK
<1>7. {"FAILED", "COMPLETED"} \subseteq Late /\ "loop" \in Causes /\ Early \subseteq Late
  BY DEF Late, Early, Causes
<1> HIDE DEF n, s, d
<1>8. CASE detector'.reason # None
  <2>1. Outcome(t, s, n, Late) /\ pc'[t] = "returned"
    BY <1>1, <1>2, <1>4, <1>7, <1>8, FailOutcome
  <2> QED
    BY <1>4, <1>8, <2>1 DEF n, s
<1>9. CASE ~(detector'.reason # None) /\ (Plan[t][n].terminal \/ n = Len(Plan[t]))
  <2>1. Outcome(t, s, n, Late) /\ pc'[t] = "returned"
    BY <1>1, <1>2, <1>4, <1>7, <1>9, CompleteOutcome
  <2> QED
    BY <1>4, <1>5, <1>9, <2>1 DEF n, s
<1>10. CASE ~(detector'.reason # None) /\ ~(Plan[t][n].terminal \/ n = Len(Plan[t]))
  <2>1. n < Len(Plan[t])
    BY <1>3, <1>10, PlanAssumption
  <2>2. Outcome(t, s, n, Early) /\ (pc'[t] = "acting" => ~Plan[t][n + 1].asks)
    BY <1>1, <1>2, <1>3, <1>4, <1>10, <2>1, TurnOutcome
  <2>3. Outcome(t, s, n, Late)
    BY <2>2, <1>7, OutcomeWidens
  <2> QED
    BY <1>4, <1>5, <1>6, <1>10, <2>2, <2>3 DEF n, s
<1> QED
  BY <1>8, <1>9, <1>10

LEMMA StepSucceedsKeeps ==
  ASSUME IInv, NEW t \in Tasks, NEW o \in Outputs, StepSucceeds(t, o) PROVE IInv'
<1> DEFINE n == pos[t] + 1
<1>1. TypeOK /\ Progress(t) /\ pc[t] = "acting" /\ pc[t] \in Awaiting
  BY DEF IInv, StepSucceeds, Awaiting
<1>2. /\ approved' = [approved EXCEPT ![t] = approved[t]] /\ approved[t] \in SUBSET Nat
      /\ n \in Nat /\ n + 1 = pos[t] + 2 /\ done[t] \in SUBSET Nat
      /\ UNCHANGED <<token, late>>
  BY <1>1 DEF TypeOK, StepSucceeds
<1>3. /\ Outcome(t, Resumed(state[t]), n, Late)
      /\ pc'[t] = "acting" => ~Plan[t][n + 1].asks
  BY <1>2, StepSucceedsOutcome
<1>4. "returned" \notin Awaiting /\ "returned" # "acting"
  BY DEF Awaiting
<1>5. CASE pc'[t] = "returned" /\ done' = done
  <2>1. done' = [done EXCEPT ![t] = done[t]]
    BY <1>1, <1>5 DEF TypeOK
  <2>2. pc'[t] \notin Awaiting /\ pc'[t] # "acting"
    BY <1>4, <1>5
  <2>3. Outcome(t, Resumed(state[t]), n, Late) /\ n \in Nat
    BY <1>2, <1>3
  <2>4. /\ approved' = [approved EXCEPT ![t] = approved[t]] /\ approved[t] \in SUBSET Nat
        /\ done[t] \in SUBSET Nat /\ UNCHANGED <<token, late>>
    BY <1>2
  <2> HIDE DEF n
  <2> QED
    BY <2>1, <2>2, <2>3, <2>4, OutcomeKeeps
<1>6. ASSUME NEW d, d = done[t] \cup {n}, done' = [done EXCEPT ![t] = d],
             pc'[t] = "returned" \/ ~Plan[t][n].terminal
      PROVE  IInv'
  <2>1. d \in SUBSET Nat /\ done[t] \subseteq d
    BY <1>2, <1>6
  <2>2. ASSUME pc'[t] \in Awaiting
        PROVE  /\ d = 1 .. n /\ Len(ran[t]) = n
               /\ \A i \in 1 .. n : ~Plan[t][i].terminal
    <3>1. /\ done[t] = 1 .. pos[t] /\ pos[t] \in Nat
          /\ \A i \in 1 .. pos[t] : ~Plan[t][i].terminal
          /\ Len(ran[t]) = pos[t] + 1
      BY <1>1 DEF TypeOK, Progress
    <3>2. ~Plan[t][n].terminal
      BY <1>4, <1>6, <2>2
    <3>3. 1 .. n = 1 .. pos[t] \cup {n}
      BY <3>1
    <3> HIDE DEF n
    <3>4. d = 1 .. n /\ \A i \in 1 .. n : ~Plan[t][i].terminal
      BY <1>6, <3>1, <3>2, <3>3
    <3> QED
      BY <3>1, <3>4 DEF n
  <2> HIDE DEF n
  <2> QED
    BY <1>2, <1>3, <1>6, <2>1, <2>2, OutcomeKeeps
<1>7. done' = [done EXCEPT ![t] = @ \cup {pos[t] + 1}]
        <=> done' = [done EXCEPT ![t] = done[t] \cup {n}]
  BY <1>1 DEF TypeOK
<1> QED
  BY <1>5, <1>6, <1>7, StepSucceedsOutcome

LEMMA AbandonOutcome ==
  ASSUME IInv, NEW t \in Tasks, Abandon(t)
  PROVE  Outcome(t, Resumed(state[t]), pos[t], Late) /\ pc'[t] = "raised"
<1>1. TypeOK /\ pc[t] \in Awaiting /\ Raise(t, Resumed(state[t]), pos[t])
  BY DEF IInv, Abandon
<1> QED
  BY <1>1, ResumedState, RaiseOutcome

LEMMA AbandonKeeps == ASSUME IInv, NEW t \in Tasks, Abandon(t) PROVE IInv'
<1>1. TypeOK
  BY DEF IInv
<1>2. /\ done' = [done EXCEPT ![t] = done[t]] /\ approved' = [approved EXCEPT ![t] = approved[t]]
      /\ approved[t] \in SUBSET Nat /\ pos[t] \in Nat /\ done[t] \in SUBSET Nat
      /\ UNCHANGED <<token, late>>
  BY <1>1 DEF TypeOK, Abandon
<1>3. "raised" \notin Awaiting /\ "raised" # "acting"
  BY DEF Awaiting
<1> QED
  BY <1>2, <1>3, AbandonOutcome, OutcomeKeeps

LEMMA RunsLateKeeps == ASSUME IInv, NEW t \in Tasks, RunsLate(t) PROVE IInv'
<1>1. TypeOK'
  BY DEF IInv, TypeOK, RunsLate, manager, history
<1>2. \A u \in Tasks : Standing(u)' /\ Progress(u)' /\ Ordered(u)'
  BY DEF IInv, RunsLate, manager, history, Standing, Progress, Ordered
<1> QED
  BY <1>1, <1>2 DEF IInv

-----------------------------------------------------------------------------
LEMMA InitEstablishes == Init => IInv
<1> SUFFICES ASSUME Init PROVE IInv
  OBVIOUS
<1>1. TypeOK
  BY DEF Init, TypeOK, Causes
<1>2. ASSUME NEW t \in Tasks PROVE Standing(t) /\ Progress(t) /\ Ordered(t)
  <2>1. /\ pc[t] = "idle" /\ state[t] = None /\ result[t] = None /\ ~token[t]
        /\ pos[t] = 0 /\ done[t] = {} /\ ran[t] = <<>> /\ Len(ran[t]) = 0
    BY DEF Init
  <2> QED
    BY <2>1, StatesAreDistinct, BudgetAssumption DEF Standing, Progress, Ordered, Awaiting
<1> QED
  BY <1>1, <1>2 DEF IInv

LEMMA NextKeeps == IInv /\ [Next]_vars => IInv'
<1> SUFFICES ASSUME IInv, [Next]_vars PROVE IInv'
  OBVIOUS
<1>1. CASE UNCHANGED vars
  BY <1>1 DEF vars, manager, execution, history, IInv, TypeOK, Standing, Progress, Ordered
<1>2. ASSUME NEW t \in Tasks,
             \/ Create(t) \/ Prepare(t) \/ Cancel(t) \/ Start(t)
             \/ Answer(t) \/ Abandon(t) \/ RunsLate(t)
      PROVE  IInv'
  BY <1>2, CreateKeeps, PrepareKeeps, CancelKeeps, StartKeeps, RevalidatedKeeps, ApproveKeeps,
     StepFailsKeeps, StepSucceedsKeeps, AbandonKeeps, RunsLateKeeps DEF Answer
<1> QED
  BY <1>1, <1>2 DEF Next

LEMMA Inductive == Spec => []IInv
  BY InitEstablishes, NextKeeps, PTL DEF Spec

(* Every variable keeps its type, for any plans.                           *)
THEOREM TypeCorrect == Spec => []TypeOK
  BY Inductive, PTL DEF IInv

(* Handlers run in the plan's order, at most once each, within the budget, *)
(* after their prerequisites and with the user's approval where asked      *)
(* (executor.py:144-255, tools/executor.py:147-172).                       *)
THEOREM StepsRunInOrder == Spec => []StepsInOrder
<1>1. IInv => StepsInOrder
  BY DEF IInv, Ordered, StepsInOrder
<1> QED
  BY <1>1, Inductive, PTL

(* What execute() returns is what the manager keeps, unless the task was   *)
(* cancelled (task_manager.py:148-195).                                    *)
THEOREM ReportsAgree == Spec => []EndsAsReported
<1>1. IInv => EndsAsReported
  <2> SUFFICES ASSUME IInv, NEW t \in Tasks
               PROVE  /\ result[t] # None => state[t] \in {result[t], "CANCELLED"}
                      /\ state[t] \in {"COMPLETED", "FAILED"} => result[t] = state[t]
    BY DEF EndsAsReported
  <2>1. Standing(t) /\ pc[t] \in PCs
    BY DEF IInv, TypeOK, PCs
  <2> QED
    BY <2>1, StatesAreDistinct DEF Standing, PCs, Awaiting, Ended
<1> QED
  BY <1>1, Inductive, PTL

(* A task waits for the user exactly as long as a step that asks is being  *)
(* confirmed or executed (executor.py:246-264).                            *)
THEOREM WaitsForUser == Spec => []WaitingIsForUser
<1>1. IInv => WaitingIsForUser
  <2> SUFFICES ASSUME IInv, NEW t \in Tasks
               PROVE  /\ state[t] = "WAITING_CONFIRMATION" =>
                            pc[t] \in {"confirming", "acting"} /\ Plan[t][pos[t] + 1].asks
                      /\ pc[t] = "confirming" =>
                            state[t] \in {"WAITING_CONFIRMATION", "CANCELLED"}
    BY DEF WaitingIsForUser
  <2>1. Standing(t) /\ pc[t] \in PCs
    BY DEF IInv, TypeOK, PCs
  <2> QED
    BY <2>1, StatesAreDistinct DEF Standing, PCs, Awaiting, Ended
<1> QED
  BY <1>1, Inductive, PTL

-----------------------------------------------------------------------------
(* Every step moves the tasks along the matrix of schemas/task.py. *)

Live == {"CREATED", "ROUTING", "PLANNING", "EXECUTING", "WAITING_CONFIRMATION"}

LEMMA Hops ==
  ASSUME NEW x, NEW y, NEW z,
         x \in Life!TaskStates, y \in Life!Transitions[x],
         z = y \/ z \in Life!Transitions[y]
         \/ \E v \in Life!Transitions[y] : z \in Life!Transitions[v]
  PROVE  z \in Life!Reachable(x)
  BY DEF Life!Reachable, Life!After

LEMMA Matrix ==
  /\ Life!Transitions["CREATED"] = {"ROUTING", "CANCELLED"}
  /\ Life!Transitions["ROUTING"] = {"PLANNING", "EXECUTING", "FAILED", "CANCELLED"}
  /\ Life!Transitions["PLANNING"] = {"EXECUTING", "FAILED", "CANCELLED"}
  /\ Life!Transitions["EXECUTING"] = {"WAITING_CONFIRMATION", "PLANNING", "COMPLETING",
                                      "FAILED", "CANCELLED"}
  /\ Life!Transitions["WAITING_CONFIRMATION"] = {"EXECUTING", "FAILED", "CANCELLED"}
  /\ Life!Transitions["COMPLETING"] = {"COMPLETED", "FAILED"}
  /\ \A s \in Terminal : Life!Transitions[s] = {}
<1>1. \A s \in Life!TaskStates : Life!Transitions[s] =
        CASE s = "CREATED"   -> {"ROUTING", "CANCELLED"}
          [] s = "ROUTING"   -> {"PLANNING", "EXECUTING", "FAILED", "CANCELLED"}
          [] s = "PLANNING"  -> {"EXECUTING", "FAILED", "CANCELLED"}
          [] s = "EXECUTING" -> {"WAITING_CONFIRMATION", "PLANNING", "COMPLETING",
                                 "FAILED", "CANCELLED"}
          [] s = "WAITING_CONFIRMATION" -> {"EXECUTING", "FAILED", "CANCELLED"}
          [] s = "COMPLETING" -> {"COMPLETED", "FAILED"}
          [] s \in Life!Terminal   -> {}
  BY DEF Life!Transitions
<1>2. Terminal = Life!Terminal /\ Life!Terminal = {"COMPLETED", "FAILED", "CANCELLED"}
  BY DEF Terminal, Life!Terminal
<1> QED
  BY <1>1, <1>2, StatesAreDistinct

LEMMA LiveStatesReach ==
  ASSUME NEW x \in Live
  PROVE  /\ {"EXECUTING", "CANCELLED"} \cup Early \subseteq Life!Reachable(x)
         /\ x \in {"EXECUTING", "WAITING_CONFIRMATION"} => Late \subseteq Life!Reachable(x)
<1>1. CASE x = "CREATED"
  BY <1>1, Hops, Matrix, StatesAreDistinct DEF Early
<1>2. CASE x = "ROUTING"
  BY <1>2, Hops, Matrix, StatesAreDistinct DEF Early
<1>3. CASE x = "PLANNING"
  BY <1>3, Hops, Matrix, StatesAreDistinct DEF Early
<1>4. CASE x = "EXECUTING"
  BY <1>4, Hops, Matrix, StatesAreDistinct DEF Early, Late
<1>5. CASE x = "WAITING_CONFIRMATION"
  BY <1>5, Hops, Matrix, StatesAreDistinct DEF Early, Late
<1> QED
  BY <1>1, <1>2, <1>3, <1>4, <1>5 DEF Live

(* COMPLETING is passed through within one step. *)
LEMMA IInvStates ==
  ASSUME IInv, NEW t \in Tasks, state[t] # None
  PROVE  state[t] \in Live \/ state[t] \in Terminal
<1>1. Standing(t) /\ pc[t] \in PCs
  BY DEF IInv, TypeOK, PCs
<1> QED
  BY <1>1, StatesAreDistinct DEF Standing, PCs, Awaiting, Ended, Live

LEMMA OutcomeMoves ==
  ASSUME TypeOK, NEW t \in Tasks, NEW s, NEW n, NEW S, Outcome(t, s, n, S),
         state[t] # None,
         s = state[t] \/ s \in Life!Reachable(state[t]),
         s = "CANCELLED" \/ S \subseteq Life!Reachable(state[t])
  PROVE  UNCHANGED state \/ Life!Next
<1>1. PICK q \in Awaiting \cup Ended, z \in Life!TaskStates,
           r \in Terminal \cup {None}, e \in Causes : Ends(t, s, n, S, q, z, r, e)
  BY DEF Outcome
<1>2. state' = [state EXCEPT ![t] = z] /\ (z = state[t] \/ z \in Life!Reachable(state[t]))
  BY <1>1 DEF Ends
<1>3. CASE z = state[t]
  BY <1>2, <1>3 DEF TypeOK
<1>4. CASE z \in Life!Reachable(state[t])
  BY <1>2, <1>4 DEF Life!Next, Life!Move
<1> QED
  BY <1>2, <1>3, <1>4

LEMMA ManagerMoves ==
  ASSUME IInv, NEW t \in Tasks, Create(t) \/ Prepare(t) \/ Cancel(t)
  PROVE  UNCHANGED state \/ Life!Next
<1>1. CASE Create(t)
  BY <1>1 DEF Create, Life!Next, Life!Create
<1>2. CASE Prepare(t)
  <2>1. state[t] \in Life!TaskStates /\ state[t] # None
    BY <1>2 DEF IInv, TypeOK, Prepare
  <2>2. PICK z \in Life!Transitions[state[t]] : state' = [state EXCEPT ![t] = z]
    BY <1>2 DEF Prepare
  <2>3. z \in Life!Reachable(state[t])
    BY <2>1, Hops
  <2> QED
    BY <2>1, <2>2, <2>3 DEF Life!Next, Life!Move
<1>3. CASE Cancel(t)
  <2>1. /\ state[t] # None /\ state \in [Tasks -> Life!TaskStates \cup {None}]
        /\ state' = [state EXCEPT ![t] = Cancelled(state[t])]
    BY <1>3 DEF IInv, TypeOK, Cancel
  <2>2. CASE state[t] \in Terminal
    BY <2>1, <2>2 DEF Cancelled
  <2>3. CASE state[t] \notin Terminal
    <3>1. state[t] \in Live
      BY <2>1, <2>3, IInvStates
    <3>2. state' = [state EXCEPT ![t] = "CANCELLED"]
      BY <2>1, <2>3 DEF Cancelled
    <3> QED
      BY <2>1, <3>1, <3>2, LiveStatesReach DEF Life!Next, Life!Move
  <2> QED
    BY <2>2, <2>3
<1> QED
  BY <1>1, <1>2, <1>3

LEMMA StepMoves == IInv /\ [Next]_vars => [Life!Next]_state
<1> SUFFICES ASSUME IInv, [Next]_vars PROVE UNCHANGED state \/ Life!Next
  OBVIOUS
<1>1. CASE UNCHANGED vars
  BY <1>1 DEF vars, manager
<1>2. ASSUME NEW t \in Tasks,
             \/ Create(t) \/ Prepare(t) \/ Cancel(t) \/ Start(t)
             \/ Answer(t) \/ Abandon(t) \/ RunsLate(t)
      PROVE  UNCHANGED state \/ Life!Next
  <2>0. TypeOK /\ (state[t] # None => state[t] \in Live \/ state[t] \in Terminal)
    BY IInvStates DEF IInv
  <2>1. CASE Create(t) \/ Prepare(t) \/ Cancel(t)
    BY <2>1, ManagerMoves
  <2>2. CASE Start(t)
    <3>1. state[t] \in {"CREATED", "ROUTING", "PLANNING", "CANCELLED"} /\ state[t] # None
      BY <2>2 DEF IInv, Standing, Start
    <3>2. CASE state[t] = "CANCELLED"
      <4>1. Starting(t) = state[t] /\ Starting(t) = "CANCELLED"
        BY <3>2 DEF Starting
      <4> QED
        BY <2>0, <2>2, <3>1, <4>1, StartOutcome, OutcomeMoves
    <3>3. CASE state[t] \in {"CREATED", "ROUTING", "PLANNING"}
      <4>1. Starting(t) \in Life!Reachable(state[t]) /\ Early \subseteq Life!Reachable(state[t])
        BY <3>3, LiveStatesReach DEF Starting, Live
      <4> QED
        BY <2>0, <2>2, <3>1, <4>1, StartOutcome, OutcomeMoves
    <3> QED
      BY <3>1, <3>2, <3>3
  <2>3. CASE Answer(t) \/ Abandon(t)
    <3>1. /\ pc[t] \in Awaiting /\ state[t] \in {"EXECUTING", "WAITING_CONFIRMATION", "CANCELLED"}
          /\ state[t] # None
      BY <2>3, StatesAreDistinct
         DEF IInv, Standing, Awaiting, Answer, Revalidated, Approve, StepFails, StepSucceeds, Abandon
    <3>2. /\ state[t] = "CANCELLED" => Resumed(state[t]) = "CANCELLED"
          /\ state[t] # "CANCELLED" =>
               /\ Late \subseteq Life!Reachable(state[t])
               /\ Early \subseteq Life!Reachable(state[t])
               /\ {} \subseteq Life!Reachable(state[t])
               /\ Resumed(state[t]) \in Life!Reachable(state[t])
      BY <3>1, LiveStatesReach DEF Live, Resumed
    <3>3. PICK n, s, S : /\ Outcome(t, s, n, S)
                         /\ s = state[t] \/ s = Resumed(state[t])
                         /\ S \in {Early, Late, {}}
      BY <2>3, RevalidatedOutcome, ApproveOutcome, StepFailsOutcome, StepSucceedsOutcome,
         AbandonOutcome DEF Answer
    <3> QED
      BY <2>0, <3>1, <3>2, <3>3, OutcomeMoves
  <2>4. CASE RunsLate(t)
    BY <2>4 DEF RunsLate, manager
  <2> QED
    BY <1>2, <2>1, <2>2, <2>3, <2>4
<1> QED
  BY <1>1, <1>2 DEF Next

(* Whatever is cancelled, refused or late, and however tasks interleave,   *)
(* every task moves along the matrix of schemas/task.py.                   *)
THEOREM Refinement == Spec => ImplementsTaskLifecycle
<1>1. Init => Life!Init
  BY DEF Init, Life!Init
<1> QED
  BY <1>1, StepMoves, Inductive, PTL DEF Spec, ImplementsTaskLifecycle, Life!Spec

(* A terminal state is never left, though cancel(), fail() and complete()   *)
(* do not go through transition() (task_manager.py:148-195).               *)
THEOREM TerminalStaysFinal == Spec => TerminalIsFinal
<1>1. IInv /\ [Next]_vars =>
        [\A t \in Tasks : state[t] \in Terminal => state'[t] = state[t]]_vars
  <2> SUFFICES ASSUME IInv, [Next]_vars, NEW t \in Tasks, state[t] \in Terminal
               PROVE  state'[t] = state[t]
    OBVIOUS
  <2>1. Life!Reachable(state[t]) = {} /\ state[t] # None
    BY Matrix, StatesAreDistinct DEF Life!Reachable, Life!After
  <2>2. CASE UNCHANGED state
    BY <2>2
  <2>3. ASSUME NEW u \in Tasks, Life!Create(u) \/ Life!Move(u)
        PROVE  state'[t] = state[t]
    <3>1. u # t
      BY <2>1, <2>3 DEF Life!Create, Life!Move
    <3> QED
      BY <2>3, <3>1 DEF Life!Create, Life!Move, IInv, TypeOK
  <2> QED
    BY <2>2, <2>3, StepMoves DEF Life!Next
<1> QED
  BY <1>1, Inductive, PTL DEF Spec, TerminalIsFinal

-----------------------------------------------------------------------------
(* The order of a plan *)

(***************************************************************************)
(* Kahn's algorithm between two steps.  The dependencies a step waits for  *)
(* are those on steps not in the order yet; inDegree counts them, and the  *)
(* steps that wait for none are those in the order and the ready ones.     *)
(***************************************************************************)
Waits(s) == {e \in Edges(plan, s) : plan[e[1]].deps[e[2]] \notin Elements(ordered)}

Counted == inDegree = [s \in Names(plan) |-> Cardinality(Waits(s))]

Sorted ==
    /\ ready \subseteq Names(plan) /\ Elements(ordered) \subseteq Names(plan)
    /\ ready \cap Elements(ordered) = {}
    /\ \A i, j \in DOMAIN ordered : ordered[i] = ordered[j] => i = j
    /\ \A s \in Names(plan) : s \in ready \cup Elements(ordered) <=> Waits(s) = {}

(***************************************************************************)
(* ListedOrder is about the steps in the order; to keep it when one is     *)
(* appended it must also say it of those that may be.                      *)
(***************************************************************************)
ReadyInListedOrder ==
    \A i \in DOMAIN ordered, r \in ready :
       ListedBefore(plan, r, ordered[i]) =>
          \E k \in i .. Len(ordered) : ordered[k] \in Prerequisites(plan, r)

Kahn == Counted /\ Sorted /\ PrerequisitesFirst /\ ListedOrder /\ ReadyInListedOrder

Typed ==
    /\ stage \in {"idle", "asking", "ordering", "accepted", "refused", "cancelled"}
    /\ plan \in Seq(PlanSteps) /\ ordered \in Seq(Ids)

PlanInv ==
    /\ Typed
    /\ stage \in {"ordering", "accepted"} \/ reason = "cycle" => Kahn
    /\ stage \in {"idle", "asking", "ordering", "accepted"} => reason = NoReason
    /\ stage = "accepted" => Len(ordered) = Len(plan)
    /\ reason = "cycle" => stage = "refused" /\ ready = {} /\ Len(ordered) # Len(plan)
    /\ checked /\ stage \in {"ordering", "accepted"} => Verdict(plan) = NoReason

-----------------------------------------------------------------------------
(* What holds of any plan.                                                 *)

LEMMA UpTo ==
    ASSUME NEW n \in Nat
    PROVE  IsFiniteSet(1 .. n) /\ Cardinality(1 .. n) = n
<1>1. 1 \in Int /\ n \in Int
  OBVIOUS
<1>2. IsFiniteSet(1 .. n) /\ Cardinality(1 .. n) = IF 1 > n THEN 0 ELSE n - 1 + 1
  BY <1>1, FS_Interval, Zenon
<1> QED BY <1>2

LEMMA StepFields ==
    ASSUME NEW p \in Seq(PlanSteps)
    PROVE  /\ Len(p) \in Nat /\ DOMAIN p = 1 .. Len(p)
           /\ \A i \in DOMAIN p : p[i].id \in Ids /\ p[i].deps \in Seq(Ids)
<1>1. \A i \in DOMAIN p : p[i] \in PlanSteps
  OBVIOUS
<1>2. \A r \in PlanSteps : r.id \in Ids /\ r.deps \in Seq(Ids)
  BY DEF PlanSteps
<1> QED BY <1>1, <1>2

(* A sequence has as many elements as places exactly if it repeats none.   *)
LEMMA ElementsCounted ==
    ASSUME NEW S, NEW f \in Seq(S)
    PROVE  /\ IsFiniteSet(Elements(f)) /\ Cardinality(Elements(f)) <= Len(f)
           /\ Cardinality(Elements(f)) \in Nat
           /\ Cardinality(Elements(f)) = Len(f)
                 <=> \A i, j \in DOMAIN f : f[i] = f[j] => i = j
<1>1. f \in [1 .. Len(f) -> Elements(f)] /\ Len(f) \in Nat /\ DOMAIN f = 1 .. Len(f)
  BY DEF Elements
<1>2. f \in Surjection(1 .. Len(f), Elements(f))
  BY <1>1 DEF Surjection, Elements
<1>3. IsFiniteSet(1 .. Len(f)) /\ Cardinality(1 .. Len(f)) = Len(f)
  BY <1>1, UpTo
<1>4. /\ IsFiniteSet(Elements(f)) /\ Cardinality(Elements(f)) <= Len(f)
      /\ Cardinality(Elements(f)) = Len(f) <=> f \in Injection(1 .. Len(f), Elements(f))
  BY <1>2, <1>3, FS_Surjection
<1>5. f \in Injection(1 .. Len(f), Elements(f))
         <=> \A i, j \in DOMAIN f : f[i] = f[j] => i = j
  BY <1>1 DEF Injection, IsInjective
<1> QED BY <1>4, <1>5, FS_CardinalityType

LEMMA NamesCounted ==
    ASSUME NEW p \in Seq(PlanSteps)
    PROVE  /\ IsFiniteSet(Names(p)) /\ Cardinality(Names(p)) <= Len(p)
           /\ Cardinality(Names(p)) \in Nat
           /\ Cardinality(Names(p)) = Len(p)
                 <=> \A i, j \in DOMAIN p : p[i].id = p[j].id => i = j
<1> DEFINE f == [i \in 1 .. Len(p) |-> p[i].id]
<1>1. Len(p) \in Nat /\ DOMAIN p = 1 .. Len(p) /\ \A i \in DOMAIN p : p[i].id \in Ids
  BY StepFields
<1>2. f \in Seq(Ids) /\ Len(f) = Len(p) /\ DOMAIN f = DOMAIN p
  BY <1>1
<1>3. Elements(f) = Names(p)
  BY <1>1 DEF Elements, Names
<1>4. \A i \in DOMAIN p : f[i] = p[i].id
  BY <1>1
<1> HIDE DEF f
<1> QED BY <1>2, <1>3, <1>4, ElementsCounted

LEMMA EdgesFinite ==
    ASSUME NEW p \in Seq(PlanSteps), NEW s
    PROVE  IsFiniteSet(Edges(p, s))
<1> DEFINE Row == [i \in 1 .. Len(p) |-> {i} \X DOMAIN p[i].deps]
           Rows == {Row[i] : i \in 1 .. Len(p)}
<1>1. Len(p) \in Nat /\ DOMAIN p = 1 .. Len(p) /\ \A i \in DOMAIN p : p[i].deps \in Seq(Ids)
  BY StepFields
<1>2. Row \in Surjection(1 .. Len(p), Rows)
  BY DEF Surjection
<1>3. IsFiniteSet(Rows)
  <2> HIDE DEF Row
  <2> QED BY <1>1, <1>2, UpTo, FS_Surjection
<1>4. \A R \in Rows : IsFiniteSet(R)
  <2> SUFFICES ASSUME NEW i \in 1 .. Len(p) PROVE IsFiniteSet({i} \X DOMAIN p[i].deps)
    OBVIOUS
  <2>1. Len(p[i].deps) \in Nat /\ DOMAIN p[i].deps = 1 .. Len(p[i].deps)
    BY <1>1
  <2>2. IsFiniteSet(DOMAIN p[i].deps)
    BY <2>1, UpTo
  <2>3. IsFiniteSet({i})
    BY FS_EmptySet, FS_AddElement, IsFiniteSet({} \cup {i}), {} \cup {i} = {i}
  <2> QED BY <2>2, <2>3, FS_Product
<1>5. Places(p) = UNION Rows
  BY <1>1 DEF Places
<1>6. IsFiniteSet(Places(p))
  <2> HIDE DEF Rows
  <2> QED BY <1>3, <1>4, <1>5, FS_UNION
<1> QED BY <1>6, FS_Subset DEF Edges

(* Before the first step is taken every step waits for all it depends on.  *)
LEMMA OrderingStarts ==
    ASSUME NEW p \in Plans, Ordering(p)
    PROVE  Typed' /\ Kahn'
<1>1. p \in Seq(PlanSteps)
  BY PlansAssumption DEF IsPlan
<1>2. plan' = p /\ ordered' = <<>> /\ stage' = "ordering"
  BY DEF Ordering
<1>3. Elements(ordered') = {} /\ DOMAIN ordered' = {} /\ ordered' \in Seq(Ids)
  BY <1>2 DEF Elements
<1>4. \A s : Waits(s)' = Edges(p, s)
  BY <1>2, <1>3 DEF Waits, Edges
<1>5. Counted'
  BY <1>2, <1>4 DEF Counted, Ordering
<1>6. Sorted'
  BY <1>2, <1>3, <1>4 DEF Sorted, Ordering
<1>7. PrerequisitesFirst' /\ ListedOrder' /\ ReadyInListedOrder'
  BY <1>3 DEF PrerequisitesFirst, ListedOrder, ReadyInListedOrder
<1> QED BY <1>1, <1>2, <1>3, <1>5, <1>6, <1>7 DEF Typed, Kahn
(* What s is the last prerequisite of waits for nothing once s is taken,   *)
(* and nothing else that waits ceases to.                                  *)
LEMMA TakeCounts ==
    ASSUME Typed, Counted, Sorted, NEW s \in ready, Take(s)
    PROVE  /\ \A d : Waits(d)' = Waits(d) \ EdgesFrom(plan, d, s)
           /\ Counted'
           /\ \A d \in Names(plan) : Waits(d)' = {} <=> Waits(d) = {} \/ d \in Released(s)
           /\ \A d \in Released(s) : Waits(d) # {} /\ s \in Prerequisites(plan, d)
<1>1. plan' = plan /\ ordered' = Append(ordered, s)
  BY DEF Take
<1>2. Elements(ordered') = Elements(ordered) \cup {s}
  BY <1>1 DEF Typed, Elements
<1>3. \A d : Waits(d)' = Waits(d) \ EdgesFrom(plan, d, s)
  BY <1>1, <1>2 DEF Waits, EdgesFrom
<1>4. s \notin Elements(ordered)
  BY DEF Sorted
<1>5. \A d : EdgesFrom(plan, d, s) \subseteq Waits(d)
  BY <1>4 DEF EdgesFrom, Waits
<1>6. ASSUME NEW d \in Names(plan)
      PROVE  /\ Cardinality(Waits(d)') = inDegree[d] - Cardinality(EdgesFrom(plan, d, s))
             /\ Waits(d)' = {} <=> inDegree[d] = Cardinality(EdgesFrom(plan, d, s))
             /\ EdgesFrom(plan, d, s) = {} => Waits(d)' = Waits(d)
  <2>1. IsFiniteSet(Edges(plan, d)) /\ Waits(d) \subseteq Edges(plan, d)
    BY EdgesFinite DEF Typed, Waits
  <2>2. IsFiniteSet(Waits(d)) /\ IsFiniteSet(EdgesFrom(plan, d, s)) /\ IsFiniteSet(Waits(d)')
    BY <2>1, <1>3, <1>5, FS_Subset
  <2>3. /\ Cardinality(Waits(d)) \in Nat /\ Cardinality(EdgesFrom(plan, d, s)) \in Nat
        /\ Cardinality(Waits(d)') \in Nat
    BY <2>2, FS_CardinalityType
  <2>4. Waits(d) \cap EdgesFrom(plan, d, s) = EdgesFrom(plan, d, s)
    BY <1>5
  <2>5. Cardinality(Waits(d)') = Cardinality(Waits(d)) - Cardinality(EdgesFrom(plan, d, s))
    BY <1>3, <2>2, <2>4, FS_Difference
  <2>6. inDegree[d] = Cardinality(Waits(d))
    BY DEF Counted
  <2>7. Waits(d)' = {} <=> Cardinality(Waits(d)') = 0
    BY <2>2, FS_EmptySet
  <2>8. EdgesFrom(plan, d, s) = {} => Waits(d)' = Waits(d)
    BY <1>3
  <2> QED BY <2>3, <2>5, <2>6, <2>7, <2>8
<1>7. Counted'
  <2>1. inDegree' = [d \in Names(plan) |-> inDegree[d] - Cardinality(EdgesFrom(plan, d, s))]
    BY DEF Take
  <2> QED BY <1>1, <1>6, <2>1 DEF Counted
<1>8. \A d \in Names(plan) : Waits(d)' = {} <=> Waits(d) = {} \/ d \in Released(s)
  BY <1>3, <1>6 DEF Released
<1>9. \A d \in Released(s) : Waits(d) # {} /\ s \in Prerequisites(plan, d)
  BY <1>5 DEF Released, EdgesFrom, Prerequisites
<1> QED BY <1>3, <1>7, <1>8, <1>9

LEMMA TakeKeeps ==
    ASSUME Typed, Kahn, NEW s \in ready, Take(s)
    PROVE  Typed' /\ Kahn'
<1> DEFINE n == Len(ordered)
<1>1. /\ plan' = plan /\ ordered' = Append(ordered, s) /\ stage' = stage
      /\ ready' = (ready \ {s}) \cup Released(s)
      /\ IsNext(s)
  BY DEF Take
<1>2. /\ n \in Nat /\ DOMAIN ordered = 1 .. n /\ DOMAIN ordered' = 1 .. (n + 1)
      /\ Len(ordered') = n + 1 /\ ordered'[n + 1] = s
      /\ \A i \in 1 .. n : ordered'[i] = ordered[i]
  BY <1>1 DEF Typed
<1>3. /\ s \in Names(plan) /\ s \notin Elements(ordered) /\ Waits(s) = {}
      /\ Elements(ordered') = Elements(ordered) \cup {s}
  BY <1>1, <1>2 DEF Kahn, Sorted, Elements
<1>4. /\ Counted'
      /\ \A d \in Names(plan) : Waits(d)' = {} <=> Waits(d) = {} \/ d \in Released(s)
      /\ \A d \in Released(s) : Waits(d) # {} /\ s \in Prerequisites(plan, d)
  BY TakeCounts DEF Kahn
<1>5. Typed'
  <2>1. s \in Ids
    BY <1>3, StepFields DEF Typed, Names
  <2> QED BY <1>1, <2>1 DEF Typed
<1>6. Sorted'
  <2>1. ready' \subseteq Names(plan) /\ Elements(ordered') \subseteq Names(plan)
    BY <1>1, <1>3 DEF Kahn, Sorted, Released
  <2>2. \A d \in ready \cup Elements(ordered) : Waits(d) = {}
    BY DEF Kahn, Sorted
  <2>3. ready' \cap Elements(ordered') = {}
    BY <1>1, <1>3, <1>4, <2>2 DEF Kahn, Sorted
  <2>4. \A i, j \in DOMAIN ordered' : ordered'[i] = ordered'[j] => i = j
    <3>1. \A i \in 1 .. n : ordered[i] # s
      BY <1>2, <1>3 DEF Elements
    <3> QED BY <1>2, <3>1 DEF Kahn, Sorted
  <2>5. \A d \in Names(plan) : d \in ready' \cup Elements(ordered') <=> Waits(d)' = {}
    BY <1>1, <1>3, <1>4 DEF Kahn, Sorted
  <2> QED BY <1>1, <2>1, <2>3, <2>4, <2>5 DEF Sorted
<1>7. PrerequisitesFirst'
  <2> SUFFICES ASSUME NEW i \in 1 .. (n + 1), NEW q \in Prerequisites(plan, ordered'[i])
               PROVE  \E k \in 1 .. (i - 1) : ordered'[k] = q
    BY <1>1, <1>2 DEF PrerequisitesFirst
  <2>1. CASE i \in 1 .. n
    <3>1. PICK k \in 1 .. (i - 1) : ordered[k] = q
      BY <2>1, <1>2 DEF Kahn, PrerequisitesFirst
    <3> QED BY <3>1, <2>1, <1>2
  <2>2. CASE i = n + 1
    <3>1. q \in Elements(ordered)
      BY <2>2, <1>2, <1>3 DEF Prerequisites, Waits
    <3>2. PICK k \in 1 .. n : ordered[k] = q
      BY <3>1, <1>2 DEF Elements
    <3> QED BY <3>2, <2>2, <1>2
  <2> QED BY <2>1, <2>2, <1>2
<1>8. ListedOrder'
  <2> SUFFICES ASSUME NEW i \in 1 .. (n + 1), NEW j \in 1 .. (n + 1), i < j,
                      ListedBefore(plan, ordered'[j], ordered'[i])
               PROVE  \E k \in i .. (j - 1) : ordered'[k] \in Prerequisites(plan, ordered'[j])
    BY <1>1, <1>2 DEF ListedOrder
  <2>0. i \in 1 .. n
    BY <1>2
  <2>1. CASE j \in 1 .. n
    <3>1. PICK k \in i .. (j - 1) : ordered[k] \in Prerequisites(plan, ordered[j])
      BY <2>0, <2>1, <1>2 DEF Kahn, ListedOrder
    <3> QED BY <3>1, <2>0, <2>1, <1>2
  <2>2. CASE j = n + 1
    <3>1. PICK k \in i .. n : ordered[k] \in Prerequisites(plan, s)
      BY <2>0, <2>2, <1>2 DEF Kahn, ReadyInListedOrder
    <3> QED BY <3>1, <2>0, <2>2, <1>2
  <2> QED BY <2>1, <2>2, <1>2
<1>9. ReadyInListedOrder'
  <2> SUFFICES ASSUME NEW i \in 1 .. (n + 1), NEW r \in ready',
                      ListedBefore(plan, r, ordered'[i])
               PROVE  \E k \in i .. (n + 1) : ordered'[k] \in Prerequisites(plan, r)
    BY <1>1, <1>2 DEF ReadyInListedOrder
  <2>1. CASE r \in Released(s)
    BY <2>1, <1>2, <1>4
  <2>2. CASE r \in ready /\ i \in 1 .. n
    <3>1. PICK k \in i .. n : ordered[k] \in Prerequisites(plan, r)
      BY <2>2, <1>2 DEF Kahn, ReadyInListedOrder
    <3> QED BY <3>1, <2>2, <1>2
  <2>3. CASE r \in ready /\ i = n + 1
    BY <2>3, <1>1, <1>2 DEF IsNext
  <2> QED BY <2>1, <2>2, <2>3, <1>1, <1>2
<1> QED BY <1>4, <1>5, <1>6, <1>7, <1>8, <1>9 DEF Kahn
-----------------------------------------------------------------------------
LEMMA InitHolds == PlannerInit => PlanInv
BY DEF PlannerInit, PlanInv, Typed, NoReason

(* What a step leaves alone keeps the state of the algorithm.              *)
LEMMA KahnKept ==
    ASSUME UNCHANGED <<plan, inDegree, ready, ordered>>, Kahn
    PROVE  Kahn'
<1>1. \A s : Waits(s)' = Waits(s)
  BY DEF Waits
<1>2. Counted' /\ Sorted'
  BY <1>1 DEF Kahn, Counted, Sorted
<1> QED BY <1>2 DEF Kahn, PrerequisitesFirst, ListedOrder, ReadyInListedOrder

LEMMA StepKeeps == PlanInv /\ [PlannerNext]_plannerVars => PlanInv'
<1> SUFFICES ASSUME PlanInv, [PlannerNext]_plannerVars PROVE PlanInv'
  OBVIOUS
<1> USE DEF PlanInv
<1>1. CASE CancelPlanning
  <2>1. UNCHANGED <<stage, plan, checked, inDegree, ready, ordered, reason>>
    BY <1>1 DEF CancelPlanning
  <2> QED BY <2>1, KahnKept DEF Typed
<1>2. CASE MakePlan \/ Replan
  <2>1. /\ stage' \in {"cancelled", "asking"} /\ plan' = <<>> /\ ordered' = <<>>
        /\ checked' = FALSE /\ reason' = NoReason
    BY <1>2 DEF MakePlan, Replan, Asks
  <2> QED BY <2>1 DEF Typed, NoReason
<1>3. CASE AnswerIsVoid
  <2>1. stage = "asking" /\ stage' = "cancelled" /\ UNCHANGED <<plan, ordered, reason, checked>>
    BY <1>3 DEF AnswerIsVoid
  <2> QED BY <2>1 DEF Typed, NoReason
<1>4. CASE Malformed
  <2>1. /\ stage = "asking" /\ stage' = "refused" /\ reason' = "schema"
        /\ UNCHANGED <<plan, ordered, checked>>
    BY <1>4 DEF Malformed
  <2> QED BY <2>1 DEF Typed
<1>5. CASE OrderEnds
  <2>1. stage = "ordering" /\ ready = {} /\ UNCHANGED <<plan, checked, inDegree, ready, ordered>>
    BY <1>5 DEF OrderEnds
  <2>2. Kahn'
    BY <2>1, KahnKept
  <2>3. \/ stage' = "accepted" /\ reason' = reason /\ Len(ordered) = Len(plan)
        \/ stage' = "refused" /\ reason' = "cycle" /\ Len(ordered) # Len(plan)
    BY <1>5 DEF OrderEnds
  <2> QED BY <2>1, <2>2, <2>3 DEF Typed
<1>6. ASSUME NEW p \in Plans, Answered(p) PROVE PlanInv'
  <2>1. stage = "asking" /\ reason = NoReason /\ checked' = TRUE
    BY <1>6 DEF Answered
  <2>2. CASE Verdict(p) = NoReason
    <3>1. Ordering(p)
      BY <1>6, <2>2 DEF Answered
    <3>2. Typed' /\ Kahn' /\ stage' = "ordering" /\ plan' = p /\ reason' = reason
      BY <3>1, OrderingStarts DEF Ordering
    <3> QED BY <2>1, <2>2, <3>2 DEF NoReason
  <2>3. CASE Verdict(p) # NoReason
    <3>1. /\ stage' = "refused" /\ reason' = Verdict(p) /\ plan' = p /\ ordered' = ordered
      BY <1>6, <2>3 DEF Answered
    <3>2. Verdict(p) # "cycle"
      BY DEF Verdict, NoReason
    <3>3. p \in Seq(PlanSteps)
      BY PlansAssumption DEF IsPlan
    <3> QED BY <3>1, <3>2, <3>3 DEF Typed
  <2> QED BY <2>2, <2>3
<1>7. ASSUME NEW p \in Plans, Resolve(p) PROVE PlanInv'
  <2>1. stage = "idle" /\ reason = NoReason /\ checked' = FALSE /\ Ordering(p)
    BY <1>7 DEF Resolve
  <2>2. Typed' /\ Kahn' /\ stage' = "ordering" /\ reason' = reason
    BY <2>1, OrderingStarts DEF Ordering
  <2> QED BY <2>1, <2>2 DEF NoReason
<1>8. ASSUME NEW s \in ready, Take(s) PROVE PlanInv'
  <2>1. stage = "ordering" /\ UNCHANGED <<stage, plan, checked, reason>>
    BY <1>8 DEF Take
  <2>2. Typed' /\ Kahn'
    BY <1>8, <2>1, TakeKeeps
  <2> QED BY <2>1, <2>2 DEF NoReason
<1>9. CASE UNCHANGED plannerVars
  <2>1. UNCHANGED <<stage, plan, checked, inDegree, ready, ordered, reason>>
    BY <1>9 DEF plannerVars
  <2> QED BY <2>1, KahnKept DEF Typed
<1> QED BY <1>1, <1>2, <1>3, <1>4, <1>5, <1>6, <1>7, <1>8, <1>9 DEF PlannerNext

(* All steps are in the order if it is as long as the plan; if not, those  *)
(* that are not wait for each other, or two have one name.                 *)
LEMMA WholeOrCyclic == PlanInv => OrderIsRight
<1> SUFFICES ASSUME PlanInv PROVE OrderIsRight
  OBVIOUS
<1>0. plan \in Seq(PlanSteps) /\ ordered \in Seq(Ids)
  BY DEF PlanInv, Typed
<1>1. /\ IsFiniteSet(Names(plan)) /\ Cardinality(Names(plan)) <= Len(plan)
      /\ Cardinality(Names(plan)) \in Nat /\ Len(plan) \in Nat
      /\ Cardinality(Names(plan)) = Len(plan)
            <=> \A i, j \in DOMAIN plan : plan[i].id = plan[j].id => i = j
  BY <1>0, NamesCounted
<1>2. ASSUME Kahn
      PROVE  /\ Cardinality(Elements(ordered)) = Len(ordered)
             /\ Elements(ordered) \subseteq Names(plan)
             /\ Len(ordered) <= Cardinality(Names(plan))
             /\ Len(ordered) = Cardinality(Names(plan)) => Elements(ordered) = Names(plan)
             /\ Len(ordered) \in Nat
  <2>1. Cardinality(Elements(ordered)) = Len(ordered) /\ Len(ordered) \in Nat
    BY <1>0, <1>2, ElementsCounted DEF Kahn, Sorted
  <2>2. Elements(ordered) \subseteq Names(plan)
    BY <1>2 DEF Kahn, Sorted
  <2>3. /\ Cardinality(Elements(ordered)) <= Cardinality(Names(plan))
        /\ Cardinality(Names(plan)) = Cardinality(Elements(ordered))
              => Names(plan) = Elements(ordered)
    BY <1>1, <2>2, FS_Subset
  <2> QED BY <2>1, <2>2, <2>3
<1>3. stage = "accepted" => EachStepOnce /\ PrerequisitesFirst /\ ListedOrder
  <2> SUFFICES ASSUME stage = "accepted" PROVE EachStepOnce /\ PrerequisitesFirst /\ ListedOrder
    OBVIOUS
  <2>1. Kahn /\ Len(ordered) = Len(plan)
    BY DEF PlanInv
  <2>2. Cardinality(Names(plan)) = Len(plan) /\ Elements(ordered) = Names(plan)
    BY <1>1, <1>2, <2>1
  <2>3. EachStepOnce
    BY <1>1, <2>1, <2>2 DEF EachStepOnce, Kahn, Sorted
  <2> QED BY <2>1, <2>3 DEF Kahn
<1>4. ASSUME stage = "accepted", checked
      PROVE  /\ Len(plan) <= MaxPlanned
             /\ \A i \in DOMAIN plan : /\ plan[i].tool \in Registered
                                       /\ Elements(plan[i].deps) \subseteq Names(plan)
  <2>1. Verdict(plan) = NoReason
    BY <1>4 DEF PlanInv
  <2>2. ~(Len(plan) > MaxPlanned) /\ BadSteps(plan) = {} /\ BadPlaces(plan) = {}
    BY <2>1 DEF Verdict, NoReason
  <2>3. ASSUME NEW i \in DOMAIN plan, NEW j \in DOMAIN plan[i].deps
        PROVE  plan[i].deps[j] \in Names(plan)
    <3>1. <<i, j>> \in Places(plan)
      BY DEF Places
    <3> QED BY <2>2, <3>1 DEF BadPlaces
  <2>4. \A i \in DOMAIN plan : Elements(plan[i].deps) \subseteq Names(plan)
    BY <2>3 DEF Elements
  <2>5. \A i \in DOMAIN plan : plan[i].tool \in Registered
    BY <2>2 DEF BadSteps
  <2> QED BY <1>1, <2>2, <2>4, <2>5, BoundsAssumption
<1>5. ASSUME reason = "cycle" PROVE HasCycle
  <2>1. Kahn /\ ready = {} /\ Len(ordered) # Len(plan)
    BY <1>5 DEF PlanInv
  <2>2. CASE Elements(ordered) = Names(plan)
    <3>1. Cardinality(Names(plan)) # Len(plan)
      BY <2>1, <2>2, <1>2
    <3> QED BY <3>1, <1>1 DEF HasCycle
  <2>3. CASE Elements(ordered) # Names(plan)
    <3> DEFINE C == Names(plan) \ Elements(ordered)
    <3>1. C # {} /\ C \in SUBSET Names(plan)
      BY <2>1, <2>3, <1>2
    <3>2. ASSUME NEW s \in C PROVE Prerequisites(plan, s) \cap C # {}
      <4>1. Waits(s) # {}
        BY <2>1 DEF Kahn, Sorted
      <4>2. PICK e \in Edges(plan, s) : plan[e[1]].deps[e[2]] \notin Elements(ordered)
        BY <4>1 DEF Waits
      <4>3. /\ plan[e[1]].deps[e[2]] \in Prerequisites(plan, s)
            /\ plan[e[1]].deps[e[2]] \in Names(plan)
        BY <4>2 DEF Prerequisites, Edges
      <4> QED BY <4>2, <4>3
    <3> QED BY <3>1, <3>2 DEF HasCycle
  <2> QED BY <2>2, <2>3
<1> QED BY <1>3, <1>4, <1>5 DEF OrderIsRight

(* An accepted plan is ordered whole, prerequisites first and otherwise as *)
(* listed; one that was validated has no unknown tool and no unknown       *)
(* prerequisite; a plan refused for a cycle has one (get_execution_order,  *)
(* resolve_execution_order).                                               *)
THEOREM PlansAreOrdered == PlannerSpec => []OrderIsRight
<1>1. PlannerSpec => []PlanInv
  BY InitHolds, StepKeeps, PTL DEF PlannerSpec
<1> QED BY <1>1, WholeOrCyclic, PTL
=============================================================================
