--------------------------- MODULE ReminderService ---------------------------
(***************************************************************************)
(* Reminders: rows in SQLite (personal/store.py), the service whose tick() *)
(* dispatches the ones that are due (personal/reminders.py), and the       *)
(* policy of the scheduler that lets a dispatch pass or not, and that also *)
(* runs proactive plans (agents/proactive.py).                             *)
(*                                                                         *)
(* A dispatched reminder is a task without a plan: it is put on record and *)
(* over.  The database is used in worker threads, so whatever else runs    *)
(* may run between the dispatch and the record of it, and so may a crash.  *)
(* Times are relative to the present, in ticks of the clock.  Left out:    *)
(* the map of the reminders' triggers, which nothing reads, and new times  *)
(* in the past.                                                            *)
(***************************************************************************)
EXTENDS Integers, Sequences, FiniteSets, SequencesExt

CONSTANTS Reminders, Tickers, None,
          Plans,        \* triggers with a plan, at most one execution of each
          Cooldown,     \* between proactive dispatches
          PlanTicks,    \* the longest execution of a plan
          Period,       \* from one occurrence of a recurring reminder to the next
          MaxFires,     \* bound: occurrences of a reminder
          Horizon,      \* bound: how far ahead a reminder is set
          Late,         \* bound: what is overdue longer is overdue this long
          TickSpan,     \* bound: how long a tick() may take
          MaxCrashes    \* bound: crashes of the process

Bounds ==
    /\ {Cooldown, Period, MaxFires, Horizon, Late, TickSpan} \subseteq Nat \ {0}
    /\ {PlanTicks, MaxCrashes} \subseteq Nat
    /\ TickSpan <= Late
    /\ PlanTicks < Cooldown
    /\ None \notin Nat \cup Plans
    /\ IsFiniteSet(Reminders)

VARIABLES
    row,         \* for each reminder, its row in the store
    tick,        \* for each caller, how far its tick() has come
    last,        \* how long ago the latest proactive dispatch was, None: never
    userActive,  \* _user_active_override
    running,     \* for each plan, how long it has been executed; None: it is not
    active,      \* the plan whose token the scheduler has in hand
    preempted,   \* plans whose token was cancelled
    told,        \* history: dispatches of the current occurrence in this process
    crashes

store == row
scheduler == <<last, userActive, running, active, preempted>>
vars == <<store, tick, scheduler, told, crashes>>

Status == {"absent", "active", "cancelled", "completed", "deleted"}
Ahead == -Late .. Horizon + Period
Age == 0 .. TickSpan
LastAge == 0 .. Cooldown + TickSpan

Rows == [status : Status,
         left : Ahead,             \* until fire_utc; below zero: overdue
         fires : 0 .. MaxFires, max : 1 .. MaxFires]

Due == [reminder : Reminders, fires : 0 .. MaxFires]   \* a row as it was read

Idle == [pc |-> "idle", age |-> 0, quiet |-> FALSE, list |-> <<>>]

TypeOK ==
    /\ row \in [Reminders -> Rows]
    /\ tick \in [Tickers -> [pc : {"idle", "waiting", "deciding", "recording"},
                             age : Age, quiet : BOOLEAN, list : Seq(Due)]]
    /\ last \in LastAge \cup {None}
    /\ userActive \in BOOLEAN
    /\ running \in [Plans -> 0 .. PlanTicks \cup {None}]
    /\ active \in Plans \cup {None} /\ preempted \subseteq Plans
    /\ told \in [Reminders -> Nat]
    /\ crashes \in 0 .. MaxCrashes

NoRow(status) == [status |-> status, left |-> 0, fires |-> 0, max |-> 1]

(* Of a row that is no longer active the times are not read again. *)
Retired(old, status) == [status |-> status, left |-> 0, fires |-> old.fires, max |-> 1]

Init ==
    /\ row = [r \in Reminders |-> NoRow("absent")]
    /\ tick = [k \in Tickers |-> Idle]
    /\ last = None /\ userActive = FALSE
    /\ running = [p \in Plans |-> None]
    /\ active = None /\ preempted = {}
    /\ told = [r \in Reminders |-> 0]
    /\ crashes = 0

-----------------------------------------------------------------------------
(* What the user does to a reminder, each a transaction of the store. *)

Write(r, new) == row' = [row EXCEPT ![r] = new] /\ UNCHANGED <<tick, scheduler, told, crashes>>

Create(r) ==
    /\ row[r].status = "absent"
    /\ \E l \in 0 .. Horizon, m \in 1 .. MaxFires :
          Write(r, [status |-> "active", left |-> l, fires |-> 0, max |-> m])

Update(r) ==
    /\ row[r].status = "active"
    /\ \E l \in 0 .. Horizon, m \in 1 .. MaxFires :
          m > row[r].fires /\ Write(r, [row[r] EXCEPT !.left = l, !.max = m])

Cancel(r) == row[r].status = "active" /\ Write(r, Retired(row[r], "cancelled"))

Delete(r) ==
    /\ row[r].status \notin {"absent", "deleted"}
    /\ Write(r, NoRow("deleted"))

-----------------------------------------------------------------------------
(* ProactiveScheduler *)

Elapsed_Anyhow(age) == TRUE

(* The rate limit at a time that was the present age ticks ago. *)
Elapsed(age) == last # None => last - age >= Cooldown

Allowed(age, quiet) == ~userActive /\ ~quiet /\ Elapsed(age)

StartPlan(p) ==
    /\ running[p] = None
    /\ Allowed(0, FALSE)
    /\ last' = 0
    /\ running' = [running EXCEPT ![p] = 0]
    /\ active' = p
    /\ preempted' = preempted \ {p}
    /\ UNCHANGED <<row, tick, userActive, told, crashes>>

PlanEnds(p) ==
    /\ running[p] # None
    /\ running' = [running EXCEPT ![p] = None]
    /\ active' = IF active = p THEN None ELSE active
    /\ preempted' = preempted \ {p}
    /\ UNCHANGED <<row, tick, last, userActive, told, crashes>>

SignalUserTaskStarted ==
    /\ userActive' = TRUE
    /\ preempted' = preempted \cup ({active} \ {None})
    /\ UNCHANGED <<row, tick, last, running, active, told, crashes>>

SignalUserTaskEnded ==
    /\ userActive' = FALSE
    /\ UNCHANGED <<row, tick, last, running, active, preempted, told, crashes>>

-----------------------------------------------------------------------------
(* tick() *)

Begin(k, quiet) ==
    /\ tick[k].pc = "idle"
    /\ tick' = [tick EXCEPT ![k] = [Idle EXCEPT !.pc = "waiting", !.quiet = quiet]]
    /\ UNCHANGED <<row, scheduler, told, crashes>>

IsDue(r, age) == row[r].status = "active" /\ row[r].left + age <= 0

AllDue(age) == {r \in Reminders : IsDue(r, age)}

InOrder(list) == \A i \in 1 .. Len(list) - 1 : row[list[i]].left <= row[list[i + 1]].left

ReadDue_Unlocked(k) ==
    /\ tick[k].pc = "waiting"
    /\ \E list \in SetToSeqs(AllDue(tick[k].age)) :
          /\ InOrder(list)
          /\ tick' = [tick EXCEPT
                ![k].pc = "deciding",
                ![k].list = [i \in DOMAIN list |->
                                [reminder |-> list[i], fires |-> row[list[i]].fires]]]
    /\ UNCHANGED <<row, scheduler, told, crashes>>

(* One tick at a time reads what is due, the longest overdue first. *)
ReadDue(k) ==
    /\ tick[k].pc = "waiting"
    /\ \A other \in Tickers : tick[other].pc \in {"idle", "waiting"}
    /\ \E list \in SetToSeqs(AllDue(tick[k].age)) :
          /\ InOrder(list)
          /\ tick' = [tick EXCEPT
                ![k].pc = "deciding",
                ![k].list = [i \in DOMAIN list |->
                                [reminder |-> list[i], fires |-> row[list[i]].fires]]]
    /\ UNCHANGED <<row, scheduler, told, crashes>>

(* dispatch_proactive_task() of a reminder: the token of its task is put in *)
(* hand and, the task having no plan, let go at once.                       *)
Dispatch(k) ==
    /\ tick[k].pc = "deciding" /\ tick[k].list # <<>>
    /\ Allowed(tick[k].age, tick[k].quiet)
    /\ last' = tick[k].age
    /\ active' = None
    /\ told' = [told EXCEPT ![Head(tick[k].list).reminder] = @ + 1]
    /\ tick' = [tick EXCEPT ![k].pc = "recording"]
    /\ UNCHANGED <<row, userActive, running, preempted, crashes>>

Defer_RecordsAnyway(k, busy) ==
    /\ tick[k].pc = "deciding"
    /\ tick[k].list = <<>> \/ busy \/ ~Allowed(tick[k].age, tick[k].quiet)
    /\ tick' = [tick EXCEPT ![k] = IF tick[k].list = <<>> THEN Idle
                                   ELSE [@ EXCEPT !.pc = "recording"]]
    /\ UNCHANGED <<row, scheduler, told, crashes>>

(* Nothing left to do; or the policy, which also refuses while the task     *)
(* manager lists a task of the user (busy), refuses all that is left.       *)
Defer(k, busy) ==
    /\ tick[k].pc = "deciding"
    /\ tick[k].list = <<>> \/ busy \/ ~Allowed(tick[k].age, tick[k].quiet)
    /\ tick' = [tick EXCEPT ![k] = Idle]
    /\ UNCHANGED <<row, scheduler, told, crashes>>

(* The next occurrence follows the previous one, not the present. *)
NextOccurrence(left) ==
    IF left = -Late THEN -Late .. Period - Late ELSE {left + Period}

(* record_reminder_fire() when the row is still as expected *)
Consume(r) ==
    LET n == row[r].fires + 1 IN
    /\ IF n >= row[r].max
       THEN row' = [row EXCEPT ![r] = Retired([@ EXCEPT !.fires = n], "completed")]
       ELSE \E l \in NextOccurrence(row[r].left) :
               row' = [row EXCEPT ![r].fires = n, ![r].left = l]
    /\ told' = [told EXCEPT ![r] = 0]

Record_NotFoundHangs(k) ==
    LET due == Head(tick[k].list)  r == due.reminder IN
    /\ tick[k].pc = "recording"
    /\ row[r].status # "deleted"
    /\ IF row[r].status = "active" /\ row[r].fires = due.fires
       THEN Consume(r) ELSE UNCHANGED <<row, told>>
    /\ tick' = [tick EXCEPT ![k].pc = "deciding", ![k].list = Tail(@)]
    /\ UNCHANGED <<scheduler, crashes>>

(* A row that is gone raises, which ends the tick. *)
Record(k) ==
    LET due == Head(tick[k].list)  r == due.reminder IN
    /\ tick[k].pc = "recording"
    /\ IF row[r].status = "active" /\ row[r].fires = due.fires
       THEN Consume(r) ELSE UNCHANGED <<row, told>>
    /\ tick' = [tick EXCEPT ![k] =
                   IF row[r].status = "deleted" THEN Idle
                   ELSE [tick[k] EXCEPT !.pc = "deciding", !.list = Tail(@)]]
    /\ UNCHANGED <<scheduler, crashes>>

-----------------------------------------------------------------------------
(* The process dies and is started again: what is in the store remains. *)
Crash ==
    /\ crashes < MaxCrashes
    /\ crashes' = crashes + 1
    /\ tick' = [k \in Tickers |-> Idle]
    /\ last' = None /\ userActive' = FALSE
    /\ running' = [p \in Plans |-> None]
    /\ active' = None /\ preempted' = {}
    /\ told' = [r \in Reminders |-> 0]
    /\ UNCHANGED row

AtMost(bound, n) == IF n > bound THEN bound ELSE n

Clock ==
    /\ \A k \in Tickers : tick[k].age < TickSpan
    /\ \A p \in Plans : running[p] # PlanTicks
    /\ row' = [r \in Reminders |->
                  IF row[r].status = "active" /\ row[r].left > -Late
                  THEN [row[r] EXCEPT !.left = @ - 1] ELSE row[r]]
    /\ tick' = [k \in Tickers |->
                   IF tick[k].pc = "idle" THEN tick[k] ELSE [tick[k] EXCEPT !.age = @ + 1]]
    /\ last' = IF last = None THEN None ELSE AtMost(Cooldown + TickSpan, last + 1)
    /\ running' = [p \in Plans |-> IF running[p] = None THEN None ELSE running[p] + 1]
    /\ UNCHANGED <<userActive, active, preempted, told, crashes>>

Next ==
    \/ \E r \in Reminders : Create(r) \/ Update(r) \/ Cancel(r) \/ Delete(r)
    \/ \E p \in Plans : StartPlan(p) \/ PlanEnds(p)
    \/ SignalUserTaskStarted \/ SignalUserTaskEnded
    \/ \E k \in Tickers :
          \/ \E b \in BOOLEAN : Begin(k, b) \/ Defer(k, b)
          \/ ReadDue(k) \/ Dispatch(k) \/ Record(k)
    \/ Crash \/ Clock

Spec == Init /\ [][Next]_vars

(* Ticks come again and again, some of them outside the quiet hours; the   *)
(* database answers; a plan ends; the task manager does not list a task of *)
(* the user whenever a reminder could be dispatched.                       *)
Fairness ==
    /\ WF_vars(Clock)
    /\ \A p \in Plans : WF_vars(PlanEnds(p))
    /\ \A k \in Tickers :
          /\ SF_vars(Begin(k, FALSE)) /\ SF_vars(ReadDue(k)) /\ SF_vars(Dispatch(k))
          /\ WF_vars(Defer(k, FALSE)) /\ WF_vars(Record(k))

LeftAlone ==
    /\ <>[]~userActive
    /\ <>[][~\E p \in Plans : StartPlan(p)]_vars
    /\ <>[][~\E r \in Reminders : Update(r)]_vars

LiveSpec == Spec /\ Fairness /\ LeftAlone

-----------------------------------------------------------------------------
(* However ticks overlap, an occurrence is dispatched at most once, unless *)
(* the process dies before the dispatch is on record (tick).               *)
FiresAtMostOnce == \A r \in DOMAIN told : told[r] <= 1

(* No occurrence is used up that was not dispatched: what a policy defers  *)
(* stays due (tick, record_reminder_fire).                                 *)
NothingIsSkipped ==
    [][\A r \in DOMAIN row : row'[r].fires > row[r].fires => told[r] = 1]_vars

(* Once the user is active, every plan under way has been told to stop,    *)
(* though the scheduler has one token in hand (signal_user_task_started).  *)
UserComesFirst ==
    userActive => \A p \in DOMAIN running : running[p] # None => p \in preempted

(* Once the user and plans leave the scheduler alone, every reminder that  *)
(* is due is dispatched until it has caught up with its schedule, however  *)
(* many are due, whatever was cancelled or deleted in mid-dispatch.        *)
Overdue(r) == row[r].status = "active" /\ row[r].left <= 0

EveryReminderFires == \A r \in Reminders : Overdue(r) ~> ~Overdue(r)

(* "Old time no longer fires; new time does": an occurrence is used up only *)
(* when its time has come.                                                  *)
ConsumedWhenDue ==
    [][\A r \in Reminders : row'[r].fires > row[r].fires => row[r].left <= 0]_vars

(* A reminder that was cancelled is not dispatched.                        *)
CancelledIsSilent ==
    [][\A r \in Reminders : told'[r] > told[r] => row[r].status = "active"]_vars

=============================================================================
