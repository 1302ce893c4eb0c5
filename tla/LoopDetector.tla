---------------------------- MODULE LoopDetector ----------------------------
(***************************************************************************)
(* The detector of agents/loop_detector.py that the executor of tasks      *)
(* consults after every tool call.  It keeps no history, only the last     *)
(* call, the last outcome and two counters; calls and screens are history  *)
(* variables that let the properties compare it with what it is for.       *)
(*                                                                         *)
(* A call is one value for the tool and its parameters; outcomes are       *)
(* fingerprints, those of errors distinct from those of outputs.           *)
(***************************************************************************)
EXTENDS Integers, Sequences

CONSTANTS Tools,          \* a tool together with its parameters
          Outputs,        \* what a successful call may return
          Errors,         \* what a failed call may report
          Screens,        \* fingerprints of observations
          None,
          ToolThreshold, ObsThreshold,
          MaxHistory      \* bound: calls and observations in one history

ASSUME ThresholdAssumption == ToolThreshold \in Nat /\ ObsThreshold \in Nat
ASSUME ThresholdFloor == ToolThreshold >= 2 /\ ObsThreshold >= 2
ASSUME NoneAssumption == None \notin Tools \cup {"tool", "observation"}
ASSUME OutcomeAssumption == Outputs \cap Errors = {}

VARIABLES detector, calls, screens
vars == <<detector, calls, screens>>

Calls == [tool : Tools, outcome : Outputs, ok : {TRUE}]
             \cup [tool : Tools, outcome : Errors, ok : {FALSE}]

Reasons == {None, "tool", "observation"}

Fresh == [tool |-> None, outcome |-> None, toolCount |-> 0,
          screen |-> None, screenCount |-> 0, reason |-> None]

TypeOK ==
    /\ detector \in [tool : Tools \cup {None}, outcome : Outputs \cup Errors \cup {None},
                     toolCount : Nat, screen : Screens \cup {None}, screenCount : Nat,
                     reason : Reasons]
    /\ calls \in Seq(Calls)
    /\ screens \in Seq(Screens)

Init == detector = Fresh /\ calls = <<>> /\ screens = <<>>

-----------------------------------------------------------------------------
Repeated(tool) == detector.tool = tool

(* A failure, or the outcome the detector remembers for the same call. *)
Ineffective(tool, outcome, ok) == ~ok \/ (Repeated(tool) /\ outcome = detector.outcome)

Counted_ForgetsFailures(tool, outcome, ok) ==
    IF Repeated(tool) /\ outcome = detector.outcome
    THEN [detector EXCEPT !.toolCount = @ + 1]
    ELSE [detector EXCEPT !.toolCount = 1, !.tool = tool, !.outcome = outcome]

(* The last call and its outcome are only remembered when the count starts  *)
(* anew.                                                                    *)
Counted(tool, outcome, ok) ==
    IF Repeated(tool) /\ Ineffective(tool, outcome, ok)
    THEN [detector EXCEPT !.toolCount = @ + 1]
    ELSE [detector EXCEPT !.toolCount = 1, !.tool = tool, !.outcome = outcome]

Judged(d, count, threshold, why) ==
    [d EXCEPT !.reason = IF count >= threshold THEN why ELSE @]

RecordToolCall(tool, outcome, ok) ==
    /\ LET d == Counted(tool, outcome, ok)
       IN  detector' = Judged(d, d.toolCount, ToolThreshold, "tool")
    /\ calls' = Append(calls, [tool |-> tool, outcome |-> outcome, ok |-> ok])
    /\ UNCHANGED screens

RecordObservation(screen) ==
    /\ LET n == IF detector.screen = screen THEN detector.screenCount + 1 ELSE 1
       IN  detector' = Judged([detector EXCEPT !.screen = screen, !.screenCount = n],
                              n, ObsThreshold, "observation")
    /\ screens' = Append(screens, screen)
    /\ UNCHANGED calls

Reset == detector' = Fresh /\ calls' = <<>> /\ screens' = <<>>

Next ==
    \/ /\ Len(calls) < MaxHistory
       /\ \/ \E t \in Tools, o \in Outputs : RecordToolCall(t, o, TRUE)
          \/ \E t \in Tools, e \in Errors : RecordToolCall(t, e, FALSE)
    \/ Len(screens) < MaxHistory /\ \E s \in Screens : RecordObservation(s)
    \/ Reset

Spec == Init /\ [][Next]_vars

-----------------------------------------------------------------------------
(* What the detector is for, said of the history. *)
RepeatsInVain(i) ==
    /\ calls[i].tool = calls[i - 1].tool
    /\ ~calls[i].ok \/ calls[i].outcome = calls[i - 1].outcome

ShowsTheSame(i) == screens[i] = screens[i - 1]

ToolLoopAt(i) ==
    i >= ToolThreshold /\ \A j \in (i - ToolThreshold + 2) .. i : RepeatsInVain(j)

ScreenLoopAt(i) ==
    i >= ObsThreshold /\ \A j \in (i - ObsThreshold + 2) .. i : ShowsTheSame(j)

ToolLoop == \E i \in 1 .. Len(calls) : ToolLoopAt(i)
ScreenLoop == \E i \in 1 .. Len(screens) : ScreenLoopAt(i)

(* Three identical calls in a row, each after the first failing or         *)
(* returning what the one before it returned, are always noticed, however  *)
(* failures and outputs alternate before them; so are three identical      *)
(* observations (record_tool_call, record_observation).                    *)
LoopsAreFound == ToolLoop \/ ScreenLoop => detector.reason # None

(* The detector blames the screen only for identical observations.         *)
StagnationIsReal == detector.reason = "observation" => ScreenLoop

(* "identical output as previous attempt of same call": the detector       *)
(* blames a tool only for a loop.  It compares with the output it          *)
(* remembers, which is not that of the previous attempt once one failed.   *)
RepetitionIsReal == detector.reason = "tool" => ToolLoop

=============================================================================
