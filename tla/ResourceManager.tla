--------------------------- MODULE ResourceManager ---------------------------
(***************************************************************************)
(* The hardware resource governor (src/python/tom/resources/manager.py)    *)
(* and its priority queue (src/python/tom/resources/policies.py).          *)
(*                                                                         *)
(* Every client is a coroutine of the one asyncio loop that asks for a     *)
(* lease, uses it and releases it, over and over.  A TLA+ step is what the *)
(* loop runs between two suspension points: the state lock and the queue   *)
(* lock are only ever held across code that never suspends, so an acquire  *)
(* decides in one step and a release, with the dispatch it ends in, is     *)
(* another; a queued request suspends twice, until it is granted and until *)
(* the loop resumes it (or a timeout or cancellation gets there first).    *)
(*                                                                         *)
(* An operator named X_<fault> is X with a plausible programming error.    *)
(* No specification uses one; PROJECT.json names the property that detects *)
(* each.                                                                   *)
(***************************************************************************)
EXTENDS Integers, FiniteSetsExt

CONSTANTS
    Client,         \* the coroutines that use the governor
    Role,           \* ModelRole
    HeavyRole,      \* ResourceManager.HEAVY_ROLES
    Demand,         \* the requests clients make, see DemandType
    NoDemand,       \* what a client without a request has in place of one
    Reading,        \* what the telemetry provider may answer, see ReadingType
    LiveTelemetry,  \* TRUE: SystemTelemetryProvider asks the driver each time;
                    \* FALSE: EngineTelemetryProvider answers from a snapshot
    RacyReads,      \* TRUE: two queries of one step may see different readings
    MaxVram,        \* config.max_vram_mb
    MaxRam,         \* config.max_ram_mb
    Headroom,       \* safety_headroom_mb
    ResidentVram,   \* what register_resident_model records for each role
    AgingTicks      \* aging_threshold_seconds, in ticks of the clock

MaxPriority == 5    \* TaskPriority.BACKGROUND

DemandType ==
    [role : Role, vram : Nat, ram : Nat, priority : 0..MaxPriority, blocking : BOOLEAN]

ReadingType == [gpu : BOOLEAN, vramFree : Nat, ramFree : Nat]

ASSUME ConstantsAssumption ==
    /\ HeavyRole \subseteq Role
    /\ Demand \subseteq DemandType
    /\ NoDemand \notin Demand
    /\ Reading \subseteq ReadingType
    /\ LiveTelemetry \in BOOLEAN /\ RacyReads \in BOOLEAN
    /\ RacyReads => LiveTelemetry
    /\ MaxVram \in Nat /\ MaxRam \in Nat /\ Headroom \in Nat
    /\ ResidentVram \in [Role -> Nat]
    /\ AgingTicks \in Nat \ {0}

VARIABLES
    pc,         \* where each client is, see PC
    demand,     \* what it asked for
    age,        \* ticks a queued client has waited, saturated where aging ends
    ahead,      \* for a queued client, the queued clients of a lower sequence number
    book,       \* the governor's counters and the state of its heavy lock
    resident,   \* roles with an entry in _resident_vram
    telemetry   \* what the provider answers at this moment

vars == <<pc, demand, age, ahead, book, resident, telemetry>>

(***************************************************************************)
(* "idle"      has no request                                              *)
(* "rejected"  its last request raised: no budget, lock held, timeout      *)
(* "waiting"   suspended in ready_event.wait(), in the queue               *)
(* "granted"   the event is set, the coroutine has not resumed yet         *)
(* "holding"   acquire returned the lease                                  *)
(* "cleanup"   gave up after the grant; the shielded release is scheduled  *)
(***************************************************************************)
Free   == {"idle", "rejected"}
Leased == {"granted", "holding", "cleanup"}
PC     == Free \cup Leased \cup {"waiting"}

MaxAge == AgingTicks * MaxPriority

Book == [vram : Nat, ram : Nat, heavyVram : Nat, locked : BOOLEAN, reserved : BOOLEAN]

TypeOK ==
    /\ pc \in [Client -> PC]
    /\ demand \in [Client -> Demand \cup {NoDemand}]
    /\ age \in [Client -> 0..MaxAge]
    /\ ahead \in [Client -> SUBSET Client]
    /\ book \in Book
    /\ resident \subseteq Role
    /\ telemetry \in Reading

Monus(m, n) == IF m > n THEN m - n ELSE 0

Heavy(d) == d.role \in HeavyRole

Waiting == {c \in Client : pc[c] = "waiting"}

-----------------------------------------------------------------------------
(***************************************************************************)
(* Admission.  A heavy request is measured against the books without the   *)
(* current heavy lease, whose VRAM it will inherit (not its RAM), and      *)
(* credited with its own resident model; a light request is measured       *)
(* against the whole books and credited with every resident model.         *)
(***************************************************************************)
Ceiling == Monus(MaxVram, Headroom)

ResidentTotal == MapThenSumSet(LAMBDA r : ResidentVram[r], resident)

ResidentCredit(d) ==
    IF Heavy(d) THEN IF d.role \in resident THEN ResidentVram[d.role] ELSE 0
                ELSE ResidentTotal

FitsBooks_LightIgnoresHeavy(d, b) ==
    /\ b.vram - b.heavyVram + d.vram <= Ceiling
    /\ b.ram + d.ram <= MaxRam

FitsBooks(d, b) ==
    /\ b.vram - (IF Heavy(d) THEN b.heavyVram ELSE 0) + d.vram <= Ceiling
    /\ b.ram + d.ram <= MaxRam

FitsReading(d, t) ==
    /\ (t.gpu /\ d.vram > 0) => d.vram <= t.vramFree + ResidentCredit(d) - Headroom
    /\ d.ram > 0 => d.ram <= t.ramFree

Fits(d, b, t) == FitsBooks(d, b) /\ FitsReading(d, t)

SlotFree(d, b) == Heavy(d) => ~b.locked /\ ~b.reserved

Admissible(d, b, t) == Fits(d, b, t) /\ SlotFree(d, b)

-----------------------------------------------------------------------------
(***************************************************************************)
(* The books after a grant, after the granted coroutine takes the heavy    *)
(* lock, and after a lease is taken off them.                              *)
(***************************************************************************)
Grant(b, d) ==
    [vram      |-> b.vram + d.vram,
     ram       |-> b.ram + d.ram,
     heavyVram |-> IF Heavy(d) THEN d.vram ELSE b.heavyVram,
     locked    |-> b.locked,
     reserved  |-> IF Heavy(d) THEN TRUE ELSE b.reserved]

TakeLock(b, d) ==
    IF Heavy(d) THEN [b EXCEPT !.locked = TRUE, !.reserved = FALSE] ELSE b

Settle_AlwaysUnlocks(b, d) ==
    [vram      |-> Monus(b.vram, d.vram),
     ram       |-> Monus(b.ram, d.ram),
     heavyVram |-> IF Heavy(d) THEN 0 ELSE b.heavyVram,
     locked    |-> FALSE,
     reserved  |-> FALSE]

Settle(b, d) ==
    [vram      |-> Monus(b.vram, d.vram),
     ram       |-> Monus(b.ram, d.ram),
     heavyVram |-> IF Heavy(d) THEN 0 ELSE b.heavyVram,
     locked    |-> IF Heavy(d) THEN FALSE ELSE b.locked,
     reserved  |-> IF Heavy(d) THEN FALSE ELSE b.reserved]

-----------------------------------------------------------------------------
(***************************************************************************)
(* The queue: lower effective priority first, then sequence number.        *)
(***************************************************************************)
EffectivePriority_NoAgeing(c) == demand[c].priority

EffectivePriority(c) == Monus(demand[c].priority, age[c] \div AgingTicks)

Outranks(u, w) ==
    \/ EffectivePriority(u) < EffectivePriority(w)
    \/ EffectivePriority(u) = EffectivePriority(w) /\ u \in ahead[w]

Enqueue(c) ==
    /\ ahead' = [ahead EXCEPT ![c] = Waiting]
    /\ age' = [age EXCEPT ![c] = 0]

Unqueue(c) ==
    /\ ahead' = [w \in Client |-> IF w = c THEN {} ELSE ahead[w] \ {c}]
    /\ age' = [age EXCEPT ![c] = 0]

\* What one telemetry query may answer, when the provider's last answer was t.
Answers(t) == IF RacyReads THEN Reading ELSE {t}

-----------------------------------------------------------------------------
Init ==
    /\ pc = [c \in Client |-> "idle"]
    /\ demand = [c \in Client |-> NoDemand]
    /\ age = [c \in Client |-> 0]
    /\ ahead = [c \in Client |-> {}]
    /\ book = [vram |-> 0, ram |-> 0, heavyVram |-> 0, locked |-> FALSE, reserved |-> FALSE]
    /\ resident = {}
    /\ telemetry \in Reading

(***************************************************************************)
(* acquire: refresh the snapshot, check the budget, then decide.  The      *)
(* budget is checked twice, each time with a telemetry query of its own.   *)
(***************************************************************************)
AcquireNow(c, d, t) ==
    /\ Admissible(d, book, t)
    /\ pc' = [pc EXCEPT ![c] = "holding"]
    /\ demand' = [demand EXCEPT ![c] = d]
    /\ book' = TakeLock(Grant(book, d), d)
    /\ UNCHANGED <<age, ahead>>

AcquireQueued(c, d, t) ==
    /\ ~Admissible(d, book, t)
    /\ d.blocking
    /\ pc' = [pc EXCEPT ![c] = "waiting"]
    /\ demand' = [demand EXCEPT ![c] = d]
    /\ Enqueue(c)
    /\ UNCHANGED book

AcquireRejected(c, d, t) ==
    /\ ~Admissible(d, book, t)
    /\ ~d.blocking
    /\ pc' = [pc EXCEPT ![c] = "rejected"]
    /\ UNCHANGED <<demand, age, ahead, book>>

AcquireUnfit(c) ==
    /\ pc' = [pc EXCEPT ![c] = "rejected"]
    /\ UNCHANGED <<demand, age, ahead, book>>

Acquire(c, d) ==
    /\ pc[c] \in Free
    /\ \E t \in Reading :
          /\ telemetry' = t
          /\ \/ ~Fits(d, book, t) /\ AcquireUnfit(c)
             \/ /\ Fits(d, book, t)
                /\ \E u \in Answers(t) :
                      \/ AcquireNow(c, d, u)
                      \/ AcquireQueued(c, d, u)
                      \/ AcquireRejected(c, d, u)
    /\ UNCHANGED resident

(***************************************************************************)
(* The granted coroutine resumes and takes the heavy lock, for which it    *)
(* would have to wait again if anybody else held it.                       *)
(***************************************************************************)
Resume(c) ==
    /\ pc[c] = "granted"
    /\ Heavy(demand[c]) => ~book.locked
    /\ pc' = [pc EXCEPT ![c] = "holding"]
    /\ book' = TakeLock(book, demand[c])
    /\ UNCHANGED <<demand, age, ahead, resident, telemetry>>

\* wait_for times out, or the client is cancelled, while it is in the queue.
GiveUpWaiting(c) ==
    /\ pc[c] = "waiting"
    /\ pc' = [pc EXCEPT ![c] = "rejected"]
    /\ demand' = [demand EXCEPT ![c] = NoDemand]
    /\ Unqueue(c)
    /\ UNCHANGED <<book, resident, telemetry>>

GiveUpGranted_DropsLease(c) ==
    /\ pc[c] = "granted"
    /\ pc' = [pc EXCEPT ![c] = "rejected"]
    /\ demand' = [demand EXCEPT ![c] = NoDemand]
    /\ UNCHANGED <<age, ahead, book, resident, telemetry>>

\* ... or after a release has granted it the lease, which it must give back.
GiveUpGranted(c) ==
    /\ pc[c] = "granted"
    /\ pc' = [pc EXCEPT ![c] = "cleanup"]
    /\ UNCHANGED <<demand, age, ahead, book, resident, telemetry>>

(***************************************************************************)
(* release: take the lease off the books, then let the best waiter that is *)
(* admissible have it.  Each waiter is judged by a telemetry query of its  *)
(* own; at most one is granted.                                            *)
(***************************************************************************)
DispatchNobody(c, b, answer) ==
    /\ \A w \in Waiting : ~Admissible(demand[w], b, answer[w])
    /\ pc' = [pc EXCEPT ![c] = "idle"]
    /\ demand' = [demand EXCEPT ![c] = NoDemand]
    /\ book' = b
    /\ UNCHANGED <<age, ahead>>

Dispatch(c, w, b, answer) ==
    /\ Admissible(demand[w], b, answer[w])
    /\ \A u \in Waiting : Outranks(u, w) => ~Admissible(demand[u], b, answer[u])
    /\ pc' = [pc EXCEPT ![c] = "idle", ![w] = "granted"]
    /\ demand' = [demand EXCEPT ![c] = NoDemand]
    /\ book' = Grant(b, demand[w])
    /\ Unqueue(w)

Release(c) ==
    /\ pc[c] \in {"holding", "cleanup"}
    /\ \E answer \in [Waiting -> Answers(telemetry)] :
          LET b == Settle(book, demand[c])
          IN  \/ DispatchNobody(c, b, answer)
              \/ \E w \in Waiting : Dispatch(c, w, b, answer)
    /\ UNCHANGED <<resident, telemetry>>

-----------------------------------------------------------------------------
(***************************************************************************)
(* The rest of the program: the server's models, the GPU and the clock.    *)
(***************************************************************************)
RegisterResident(r) ==
    /\ r \notin resident
    /\ resident' = resident \cup {r}
    /\ UNCHANGED <<pc, demand, age, ahead, book, telemetry>>

ClearResident(r) ==
    /\ r \in resident
    /\ resident' = resident \ {r}
    /\ UNCHANGED <<pc, demand, age, ahead, book, telemetry>>

\* Physical memory is used or freed by others, which a live provider reports.
TelemetryMoves ==
    /\ LiveTelemetry
    /\ telemetry' \in Reading \ {telemetry}
    /\ UNCHANGED <<pc, demand, age, ahead, book, resident>>

Tick ==
    /\ \E c \in Waiting : age[c] < MaxAge
    /\ age' = [c \in Client |->
                  IF c \in Waiting /\ age[c] < MaxAge THEN age[c] + 1 ELSE age[c]]
    /\ UNCHANGED <<pc, demand, ahead, book, resident, telemetry>>

Next ==
    \/ \E c \in Client, d \in Demand : Acquire(c, d)
    \/ \E c \in Client :
          Resume(c) \/ GiveUpWaiting(c) \/ GiveUpGranted(c) \/ Release(c)
    \/ \E r \in Role : RegisterResident(r) \/ ClearResident(r)
    \/ TelemetryMoves
    \/ Tick

Spec == Init /\ [][Next]_vars

(***************************************************************************)
(* The loop resumes what is ready, leases are used in a context manager    *)
(* around an inference that ends, and time passes.  Nobody has to ask for  *)
(* a lease, to give up or to load a model.                                 *)
(***************************************************************************)
Fairness ==
    /\ \A c \in Client : WF_vars(Resume(c)) /\ WF_vars(Release(c))
    /\ WF_vars(Tick)

FairSpec == Spec /\ Fairness

-----------------------------------------------------------------------------
HeavyOwners == {c \in Client : pc[c] \in Leased /\ Heavy(demand[c])}

(***************************************************************************)
(* At most one heavy lease is outstanding, whatever releases, cancellations*)
(* and grants interleave (src/STATE.md, invariant 14): the reservation     *)
(* covers the time between a dispatch and the moment the granted coroutine *)
(* takes the heavy lock.                                                   *)
(***************************************************************************)
HeavyExclusion == \A c, d \in HeavyOwners : c = d

(***************************************************************************)
(* The lock is held for a heavy lease in use and reserved for one granted  *)
(* but not yet in use, and for nothing else: no interleaving of a timeout  *)
(* or a cancellation with a grant leaves the slot taken with no lease to   *)
(* release it, or free while a lease is outstanding.  So the coroutine that*)
(* resumes never finds the heavy lock held.                                *)
(***************************************************************************)
LockMatchesLease ==
    /\ book.locked <=> \E c \in HeavyOwners : pc[c] = "holding"
    /\ book.reserved <=> \E c \in HeavyOwners : pc[c] # "holding"

(***************************************************************************)
(* The software budget is never exceeded (src/STATE.md, invariant 15),     *)
(* although a heavy request is admitted against books that leave the       *)
(* current heavy lease out.                                                *)
(***************************************************************************)
WithinCeiling ==
    /\ book.vram <= Ceiling
    /\ book.ram <= MaxRam

(***************************************************************************)
(* The counters are the sums over the outstanding leases: nothing drifts   *)
(* over any sequence of grants, give-ups and releases, and the clamps at 0 *)
(* in release never hide a difference.                                     *)
(***************************************************************************)
BooksExact ==
    LET Total(amount(_), S) == MapThenSumSet(LAMBDA c : amount(demand[c]), S)
        leased == {c \in Client : pc[c] \in Leased}
    IN  /\ book.vram = Total(LAMBDA d : d.vram, leased)
        /\ book.ram = Total(LAMBDA d : d.ram, leased)
        /\ book.heavyVram = Total(LAMBDA d : d.vram, HeavyOwners)

(***************************************************************************)
(* A waiter is never granted past one that has been queued longer and asks *)
(* for no more, in the same role, at the same or a better priority: ageing *)
(* keeps the order of arrival among equals (src/STATE.md, invariant 16).   *)
(***************************************************************************)
AsksNoMore(d, e) ==
    /\ d.role = e.role
    /\ d.vram <= e.vram /\ d.ram <= e.ram
    /\ d.priority <= e.priority

NoOvertaking ==
    [][\A u, w \in Waiting :
           u \in ahead[w] /\ AsksNoMore(demand[u], demand[w]) => pc'[w] # "granted"]_vars

(***************************************************************************)
(* Nobody queues for ever.  Where the budget has room for every request    *)
(* and only the heavy slot is contended, ageing brings a background request*)
(* to the front even if interactive ones never stop coming.                *)
(***************************************************************************)
NobodyStarves == \A c \in Client : pc[c] = "waiting" ~> pc[c] # "waiting"

(***************************************************************************)
(* src/STATE.md, invariant 16: "When capacity frees, queued waiters are    *)
(* admitted".  A waiter that is admissible from some moment on, by the     *)
(* books, the lock and the telemetry, does not stay queued.                *)
(***************************************************************************)
CapacityAdmitsWaiters ==
    \A c \in Client :
        ~ <>[](pc[c] = "waiting" /\ Admissible(demand[c], book, telemetry))

(***************************************************************************)
(* The governor provides the exclusive heavy slot of ExclusiveLease.       *)
(***************************************************************************)
Slot == INSTANCE ExclusiveLease WITH
            owners  <- HeavyOwners,
            waiting <- {c \in Waiting : Heavy(demand[c])}

ImplementsExclusiveLease == Slot!Spec

=============================================================================
