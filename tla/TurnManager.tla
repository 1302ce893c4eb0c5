---------------------------- MODULE TurnManager ----------------------------
(***************************************************************************)
(* The conversation as the voice subsystem remembers it                    *)
(* (voice/turn_manager.py) and how a turn is to be answered                *)
(* (voice/response_policy.py).  Every operation runs to its end without an *)
(* await; who calls them, and in which order, is up to the turns, the      *)
(* barge-ins and the tools of interaction_core.py, which may hold the      *)
(* context of a turn long after the next has begun.                        *)
(*                                                                         *)
(* A turn is known by the order in which it was started; what a referent   *)
(* says is the tool it comes from and the turn that it is stamped with.    *)
(***************************************************************************)
EXTENDS Integers, Sequences, FiniteSets, SequencesExt

CONSTANTS Utterances,     \* sets of features, {} for an empty one
          SlowTools,      \* _LATENCY_BEARING_TOOLS and their categories
          MaxHistory, MaxBackground, MaxSamples, Threshold,
          MaxTurns, MaxCalls     \* bounds: turns started, and all else that is recorded

VARIABLES
    contexts,     \* the contexts handed out, in order
    current,      \* position of the turn in flight, 0 for none
    counter,      \* _turn_counter
    history, referents, background,
    tasks,        \* what TaskManager.list_active() returns, oldest first
    timings,      \* of each tool, the last samples
    calls         \* bound

vars == <<contexts, current, counter, history, referents, background, tasks, timings, calls>>

(* What the tables of response_policy.py look for in an utterance; {} is    *)
(* an empty one.                                                           *)
Features == {"silence", "progress", "vague", "destructive", "declared slow", "heavy", "target", "anaphora"}

NoTool == "none"
Tools == {"files.read_file", "memory.recall", "shell.run"}
Slots == {"last_file", "last_query", "last_tool", "named"}

(* _TOOL_REFERRULES                                                        *)
Rule == [tool \in {"files.read_file", "memory.recall"} |->
            IF tool = "files.read_file" THEN "last_file" ELSE "last_query"]

Nothing == [tool |-> NoTool, turn |-> 0]

-----------------------------------------------------------------------------
(* ResponsePolicy                                                          *)

(* The mean of what was observed reaches the threshold.                    *)
ObservedSlow(tool) ==
    /\ timings[tool] # <<>>
    /\ FoldSeq(LAMBDA x, y : x + y, 0, timings[tool]) >= Threshold * Len(timings[tool])

IsLatencyBearing(tool) == tool \in SlowTools \/ ObservedSlow(tool)

Known(c) == \E s \in Slots : c.referents[s] # Nothing

Clarify(said, c) ==
    \/ "vague" \in said
    \/ "anaphora" \in said /\ ~Known(c) /\ c.history = <<>>
    \/ "destructive" \in said /\ "target" \notin said /\ ~Known(c)

Slow(said, planned) ==
    \/ \E i \in DOMAIN planned : IsLatencyBearing(planned[i])
    \/ Len(planned) >= 2
    \/ "declared slow" \in said
    \/ "heavy" \in said

(* decide: the rules in their order.                                       *)
Decide(said, planned, c) ==
    IF said = {} \/ "silence" \in said THEN "SILENT_ACT"
    ELSE IF "progress" \in said /\ c.background # <<>> THEN "REPORT_PROGRESS"
    ELSE IF Clarify(said, c) THEN "CLARIFY"
    ELSE IF Slow(said, planned) THEN "FAST_ACK_THEN_WORK"
    ELSE "SPEAK_DIRECT"

RecordToolTiming(tool, ms) ==
    /\ calls < MaxCalls /\ calls' = calls + 1
    /\ LET all == Append(timings[tool], ms)
       IN  timings' = [timings EXCEPT ![tool] =
                         SubSeq(all, (IF Len(all) > MaxSamples THEN Len(all) - MaxSamples ELSE 0) + 1, Len(all))]
    /\ UNCHANGED <<contexts, current, counter, history, referents, background, tasks>>

-----------------------------------------------------------------------------
(* ConversationTurnManager                                                 *)

Init ==
    /\ contexts = <<>> /\ current = 0 /\ counter = 0
    /\ history = <<>> /\ background = <<>> /\ tasks = <<>>
    /\ referents = [s \in Slots |-> Nothing]
    /\ timings = [tool \in Tools |-> <<>>]
    /\ calls = 0

(* sync_background_tasks: the oldest active tasks; none when list_active   *)
(* raises.                                                                 *)
Synced == {<<>>, SubSeq(tasks, 1, IF Len(tasks) < MaxBackground THEN Len(tasks) ELSE MaxBackground)}

SyncBackgroundTasks ==
    /\ background' \in Synced
    /\ UNCHANGED <<contexts, current, counter, history, referents, tasks, timings, calls>>

TaskBegins(t) ==
    /\ ~Contains(tasks, t)
    /\ calls < MaxCalls /\ calls' = calls + 1
    /\ tasks' = Append(tasks, t)
    /\ UNCHANGED <<contexts, current, counter, history, referents, background, timings>>

TaskEnds(t) ==
    /\ Contains(tasks, t)
    /\ tasks' = Remove(tasks, t)
    /\ UNCHANGED <<contexts, current, counter, history, referents, background, timings, calls>>

(* The policy is asked at once, with the context as it was made.           *)
StartTurn(said, planned) ==
    /\ Len(contexts) < MaxTurns
    /\ counter' = counter + 1
    /\ background' \in Synced
    /\ LET c == [index |-> counter + 1, referents |-> referents, history |-> history,
                 background |-> background', action |-> "none"]
       IN  contexts' = Append(contexts, [c EXCEPT !.action = Decide(said, planned, c)])
    /\ current' = Len(contexts) + 1
    /\ UNCHANGED <<history, referents, tasks, timings, calls>>

Updated(old, slots, r) == [s \in Slots |-> IF s \in slots THEN r ELSE old[s]]

Noted_InAll(c, slots, r) ==
    [i \in DOMAIN contexts |-> [contexts[i] EXCEPT !.referents = Updated(@, slots, r)]]

(* To the context of turn c, 0 if the caller has none.                     *)
Noted(c, slots, r) ==
    IF c = 0 THEN contexts ELSE [contexts EXCEPT ![c].referents = Updated(@, slots, r)]

(* A tool without a rule, or a call without the argument the rule names,   *)
(* is remembered as the last tool, though not in the context.              *)
RecordToolCall(c, tool, named) ==
    /\ calls < MaxCalls /\ calls' = calls + 1
    /\ LET r == [tool |-> tool, turn |-> c]
           slots == {"last_tool", Rule[tool]}
       IN  IF tool \in DOMAIN Rule /\ named
           THEN referents' = Updated(referents, slots, r) /\ contexts' = Noted(c, slots, r)
           ELSE referents' = Updated(referents, {"last_tool"}, r) /\ UNCHANGED contexts
    /\ UNCHANGED <<current, counter, history, background, tasks, timings>>

RegisterReferent(c) ==
    /\ calls < MaxCalls /\ calls' = calls + 1
    /\ LET r == [tool |-> "named", turn |-> c]
       IN  referents' = Updated(referents, {"named"}, r) /\ contexts' = Noted(c, {"named"}, r)
    /\ UNCHANGED <<current, counter, history, background, tasks, timings>>

(* _close: whoever closes a turn, and whichever it is, none is in flight   *)
(* any more.  Without a context it is the one in flight, if any.           *)
Close(c, status) ==
    LET turn == IF c # 0 THEN c ELSE current
        record == [turn |-> turn, status |-> status]
        all == Append(history, record)
    IN  /\ calls < MaxCalls /\ calls' = calls + 1
        /\ history' = IF Len(all) > MaxHistory THEN Tail(all) ELSE all
        /\ current' = 0
        /\ UNCHANGED <<contexts, counter, referents, background, tasks, timings>>

Reset ==
    /\ history' = <<>> /\ referents' = [s \in Slots |-> Nothing] /\ background' = <<>>
    /\ current' = 0 /\ counter' = 0
    /\ UNCHANGED <<contexts, tasks, timings, calls>>

Next ==
    \/ \E said \in Utterances, planned \in {<<>>, <<"shell.run">>, <<"shell.run", "shell.run">>} :
          StartTurn(said, planned)
    \/ \E c \in 0 .. Len(contexts) :
          \/ \E tool \in Tools, named \in BOOLEAN : RecordToolCall(c, tool, named)
          \/ RegisterReferent(c)
          \/ \E status \in {"completed", "interrupted"} : Close(c, status)
    \/ \E ms \in {0, 2 * Threshold} : RecordToolTiming("shell.run", ms)
    \/ \E t \in 1 .. MaxBackground + 1 : TaskBegins(t) \/ TaskEnds(t)
    \/ SyncBackgroundTasks \/ Reset

Spec == Init /\ [][Next]_vars

-----------------------------------------------------------------------------
(* "A snapshot ... so a turn stays internally consistent even if later     *)
(* turns mutate manager state" (start_turn): whatever other turns and      *)
(* their tools do, and a reset, the context of a turn changes only by what *)
(* is recorded for that turn, and holds nothing that a later turn left.    *)
OwnNotesOnly ==
    \A c \in DOMAIN contexts :
       LET was == contexts[c]
           is == contexts'[c]
       IN  /\ [was EXCEPT !.referents = is.referents] = is
           /\ \A s \in Slots : was.referents[s] # is.referents[s] => is.referents[s].turn = c

NothingFromLater ==
    \A c \in DOMAIN contexts :
       /\ \A s \in Slots : contexts[c].referents[s].turn <= c
       /\ \A r \in ToSet(contexts[c].history) : r.turn < c

TurnsKeepTheirContext == []NothingFromLater /\ [][OwnNotesOnly]_vars
=============================================================================
