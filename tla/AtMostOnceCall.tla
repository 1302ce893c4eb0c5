---------------------------- MODULE AtMostOnceCall ----------------------------
(***************************************************************************)
(* What the IPC client promises the rest of the program about a request to *)
(* the engine: it is executed at most once, whoever waits for it gets one  *)
(* outcome, a success means the engine executed it, and a request that was *)
(* refused before it was written is never executed.  A failed request may  *)
(* or may not have been executed, or may still be.                         *)
(***************************************************************************)
CONSTANT Request

VARIABLES
    call,       \* "idle", "open", then one of "done", "failed", "unsent"
    executed    \* how often the engine has executed each request

vars == <<call, executed>>

Init ==
    /\ call = [r \in Request |-> "idle"]
    /\ executed = [r \in Request |-> 0]

Refuse(r) ==
    /\ call[r] = "idle"
    /\ call' = [call EXCEPT ![r] = "unsent"]
    /\ UNCHANGED executed

Open(r) ==
    /\ call[r] = "idle"
    /\ call' = [call EXCEPT ![r] = "open"]
    /\ UNCHANGED executed

Execute(r) ==
    /\ call[r] \notin {"idle", "unsent"}
    /\ executed[r] = 0
    /\ executed' = [executed EXCEPT ![r] = 1]
    /\ UNCHANGED call

Withdraw(r) ==
    /\ call[r] = "open"
    /\ executed[r] = 0
    /\ call' = [call EXCEPT ![r] = "unsent"]
    /\ UNCHANGED executed

Succeed(r) ==
    /\ call[r] = "open"
    /\ executed[r] = 1
    /\ call' = [call EXCEPT ![r] = "done"]
    /\ UNCHANGED executed

Fail(r) ==
    /\ call[r] = "open"
    /\ call' = [call EXCEPT ![r] = "failed"]
    /\ UNCHANGED executed

Next ==
    \E r \in Request :
        Refuse(r) \/ Open(r) \/ Execute(r) \/ Withdraw(r) \/ Succeed(r) \/ Fail(r)

Spec == Init /\ [][Next]_vars
=============================================================================
