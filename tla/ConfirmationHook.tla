-------------------------- MODULE ConfirmationHook --------------------------
(***************************************************************************)
(* The console prompts of security/confirmation.py: ConfirmationTracker    *)
(* limits how many are shown, ConsoleConfirmationHook has a thread of      *)
(* asyncio's pool print each one and read a line, under a time limit that  *)
(* ends the wait and not the thread.                                       *)
(*                                                                         *)
(* Times are ages in ticks of the monotonic clock, forgotten when they no  *)
(* longer matter.  Only prompts use the pool.                              *)
(***************************************************************************)
EXTENDS Integers, Sequences, FiniteSets, SequencesExt

CONSTANTS Requests,     \* callers, each with one request at a time
          None,
          MaxPrompts, Window, Cooldown, Timeout,
          Workers       \* threads of the pool

Limits ==
    /\ {MaxPrompts, Window, Cooldown, Timeout, Workers} \subseteq Nat \ {0}
    /\ None \notin Requests \cup {"yes", "no"}

VARIABLES
    history,    \* ages of the prompts the tracker remembers, oldest first
    cooldown,   \* what is left of it
    asked,      \* for each request, how long it has waited; None: not waiting
    outcome,    \* how its last request ended
    readers,    \* requests whose thread reads a line
    queue,      \* requests that wait for a thread
    stale,      \* threads that read for a request that has ended
    line,       \* the line that was read for a request
    shown       \* history: ages of all prompts permitted within the window

tracker == <<history, cooldown, shown>>
pool == <<readers, queue, stale>>
vars == <<tracker, pool, asked, outcome, line>>

Lines == {"yes", "no"}     \* "no" stands for an error of the input, too
Outcomes == {None, "granted", "denied", "blocked", "timed out"}

TypeOK ==
    /\ history \in Seq(Nat) /\ shown \in Seq(Nat)
    /\ cooldown \in 0 .. Cooldown
    /\ asked \in [Requests -> 0 .. Timeout \cup {None}]
    /\ outcome \in [Requests -> Outcomes]
    /\ readers \subseteq Requests /\ queue \in Seq(Requests) /\ stale \in Nat
    /\ line \in [Requests -> Lines \cup {None}]

Init ==
    /\ history = <<>> /\ shown = <<>> /\ cooldown = 0
    /\ asked = [r \in Requests |-> None]
    /\ outcome = [r \in Requests |-> None]
    /\ readers = {} /\ queue = <<>> /\ stale = 0
    /\ line = [r \in Requests |-> None]

-----------------------------------------------------------------------------
(* ConfirmationTracker.acquire() *)

InWindow(ages) == SelectSeq(ages, LAMBDA a : a < Window)

Blocked(r) ==
    /\ outcome' = [outcome EXCEPT ![r] = "blocked"]
    /\ UNCHANGED <<shown, asked, pool, line>>

Flooded(r) ==
    /\ cooldown = 0 /\ Len(InWindow(history)) >= MaxPrompts
    /\ history' = <<>> /\ cooldown' = Cooldown
    /\ Blocked(r)

CoolingDown(r) ==
    /\ cooldown > 0
    /\ Blocked(r) /\ UNCHANGED <<history, cooldown>>

(* The pool hands the prompt to a free thread, or keeps it for later. *)
Submit(r) ==
    IF Cardinality(readers) + stale < Workers
    THEN readers' = readers \cup {r} /\ UNCHANGED <<queue, stale>>
    ELSE queue' = Append(queue, r) /\ UNCHANGED <<readers, stale>>

Permitted(r) ==
    /\ cooldown = 0 /\ Len(InWindow(history)) < MaxPrompts
    /\ history' = Append(InWindow(history), 0)
    /\ shown' = Append(shown, 0)
    /\ asked' = [asked EXCEPT ![r] = 0]
    /\ Submit(r)
    /\ UNCHANGED <<cooldown, outcome, line>>

(* There is no terminal to ask on. *)
NotInteractive(r) ==
    /\ outcome' = [outcome EXCEPT ![r] = "denied"]
    /\ UNCHANGED <<tracker, pool, asked, line>>

Request(r) ==
    /\ asked[r] = None
    /\ Flooded(r) \/ CoolingDown(r) \/ Permitted(r) \/ NotInteractive(r)

ResetTracker ==
    /\ history' = <<>> /\ cooldown' = 0 /\ shown' = <<>>
    /\ UNCHANGED <<pool, asked, outcome, line>>

-----------------------------------------------------------------------------
(* A thread has read a line: it takes the next prompt. *)

Freed(others, old) ==
    /\ stale' = old
    /\ IF queue = <<>> THEN readers' = others /\ UNCHANGED queue
       ELSE readers' = others \cup {Head(queue)} /\ queue' = Tail(queue)

(* The line goes to whichever thread reads. *)
ReadLine(r, l) ==
    /\ r \in readers
    /\ line' = [line EXCEPT ![r] = l]
    /\ Freed(readers \ {r}, stale)
    /\ UNCHANGED <<tracker, asked, outcome>>

ReadInVain ==
    /\ stale > 0
    /\ Freed(readers, stale - 1)
    /\ UNCHANGED <<tracker, asked, outcome, line>>

Decide(r) ==
    /\ line[r] # None
    /\ outcome' = [outcome EXCEPT ![r] = IF line[r] = "yes" THEN "granted" ELSE "denied"]
    /\ line' = [line EXCEPT ![r] = None]
    /\ asked' = [asked EXCEPT ![r] = None]
    /\ UNCHANGED <<tracker, pool>>

(* The wait ends: a prompt still queued is withdrawn, a thread that reads   *)
(* goes on, a line that was read is thrown away.                           *)
StopsWaiting(r, o) ==
    /\ asked' = [asked EXCEPT ![r] = None]
    /\ outcome' = [outcome EXCEPT ![r] = o]
    /\ line' = [line EXCEPT ![r] = None]
    /\ readers' = readers \ {r}
    /\ stale' = IF r \in readers THEN stale + 1 ELSE stale
    /\ queue' = SelectSeq(queue, LAMBDA q : q # r)
    /\ UNCHANGED tracker

TimesOut(r) == asked[r] = Timeout /\ StopsWaiting(r, "timed out")

(* The tool call that asks is cancelled. *)
Abandon(r) == asked[r] # None /\ StopsWaiting(r, "denied")

Older(ages) == [i \in 1 .. Len(ages) |-> ages[i] + 1]

Tick ==
    /\ history' = InWindow(Older(history))
    /\ shown' = InWindow(Older(shown))
    /\ cooldown' = IF cooldown = 0 THEN 0 ELSE cooldown - 1
    /\ asked' = [r \in Requests |-> IF asked[r] \in {None, Timeout} THEN asked[r]
                                    ELSE asked[r] + 1]
    /\ UNCHANGED <<pool, outcome, line>>

Next ==
    \/ \E r \in Requests :
          \/ Request(r) \/ Decide(r) \/ TimesOut(r) \/ Abandon(r)
          \/ \E l \in Lines : ReadLine(r, l)
    \/ ReadInVain \/ ResetTracker \/ Tick

Spec == Init /\ [][Next]_vars

Fairness == WF_vars(Tick) /\ \A r \in Requests : WF_vars(Decide(r)) /\ WF_vars(TimesOut(r))

LiveSpec == Spec /\ Fairness

-----------------------------------------------------------------------------
Shortest == IF Window < Cooldown THEN Window ELSE Cooldown

(* More than MaxPrompts prompts are never shown within the window or, when *)
(* it is shorter, the cooldown, however requests, refusals and cooldowns   *)
(* follow one another (acquire).                                           *)
BurstsAreBounded ==
    \A i \in 1 .. Len(shown) - MaxPrompts : shown[i] - shown[i + MaxPrompts] >= Shortest

(* A request that waits is in one place: with a thread, in the queue, or   *)
(* with its line; and nobody queues while a thread is free, nor holds a    *)
(* thread without being counted (request_confirmation, to_thread).         *)
EveryPromptIsSomewhere ==
    /\ Cardinality(readers) + stale <= Workers
    /\ queue # <<>> => Cardinality(readers) + stale = Workers
    /\ \A r \in Requests :
          LET places == {p \in {"read", "queued", "line"} :
                            \/ p = "read" /\ r \in readers
                            \/ p = "queued" /\ \E i \in 1 .. Len(queue) : queue[i] = r
                            \/ p = "line" /\ line[r] # None}
          IN  Cardinality(places) = (IF asked[r] = None THEN 0 ELSE 1)

(* Every request is decided, whatever became of its thread.                *)
EveryRequestEnds == \A r \in Requests : asked[r] # None ~> asked[r] = None

(* Refused requests do not prolong the cooldown.                           *)
CooldownEnds == cooldown > 0 ~> cooldown = 0

(* "at most max_prompts within a sliding window_seconds"                   *)
WindowIsKept == Len(shown) <= MaxPrompts

(* A request that timed out had been put to the user.                      *)
TimedOutWasShown ==
    [][\A r \in Requests : asked[r] # None /\ outcome'[r] = "timed out" =>
                              ~\E i \in 1 .. Len(queue) : queue[i] = r]_vars

=============================================================================
