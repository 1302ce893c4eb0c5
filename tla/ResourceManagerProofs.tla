------------------------ MODULE ResourceManagerProofs ------------------------
(***************************************************************************)
(* For any number of clients, any roles, budgets, demands and telemetry:   *)
(* the governor's types, the exclusion of heavy leases, the agreement of   *)
(* the heavy lock with the leases, the software budget, and the refinement *)
(* of ExclusiveLease.                                                      *)
(***************************************************************************)
EXTENDS ResourceManager, TLAPS

(***************************************************************************)
(* HeavyExclusion alone is not inductive: a grant may only assume the slot *)
(* free because the lock and the reservation tell whether a heavy lease is *)
(* outstanding, and a heavy request only fits the whole budget because the *)
(* VRAM left out of its check is 0 when the slot is free.                  *)
(***************************************************************************)
AskedWhatItHolds ==
    \A c \in Client : pc[c] \notin Free => demand[c] \in Demand

NoHeavyVramWhenFree ==
    HeavyOwners = {} => book.heavyVram = 0

-----------------------------------------------------------------------------
(***************************************************************************)
(* Facts about the books.                                                  *)
(***************************************************************************)
LEMMA MonusType ==
    ASSUME NEW m \in Nat, NEW n \in Nat
    PROVE  Monus(m, n) \in Nat /\ Monus(m, n) <= m
BY DEF Monus

LEMMA CeilingType == Ceiling \in Nat
BY ConstantsAssumption DEF Ceiling, Monus

LEMMA DemandFields ==
    ASSUME NEW d \in Demand
    PROVE  d.vram \in Nat /\ d.ram \in Nat
BY ConstantsAssumption DEF DemandType

LEMMA BookTypes ==
    ASSUME NEW b \in Book, NEW d \in Demand
    PROVE  /\ Grant(b, d) \in Book
           /\ TakeLock(b, d) \in Book
           /\ Settle(b, d) \in Book
<1>1. /\ b.vram \in Nat /\ b.ram \in Nat /\ b.heavyVram \in Nat
      /\ b.locked \in BOOLEAN /\ b.reserved \in BOOLEAN
  BY DEF Book
<1>2. d.vram \in Nat /\ d.ram \in Nat
  BY DemandFields
<1>3. Grant(b, d) \in Book
  <2>1. CASE Heavy(d)
    BY <1>1, <1>2, <2>1 DEF Grant, Book
  <2>2. CASE ~Heavy(d)
    BY <1>1, <1>2, <2>2 DEF Grant, Book
  <2> QED BY <2>1, <2>2
<1>4. TakeLock(b, d) \in Book
  <2>1. CASE Heavy(d)
    BY <1>1, <2>1 DEF TakeLock, Book
  <2>2. CASE ~Heavy(d)
    BY <2>2 DEF TakeLock
  <2> QED BY <2>1, <2>2
<1>5. Settle(b, d) \in Book
  <2>1. Monus(b.vram, d.vram) \in Nat /\ Monus(b.ram, d.ram) \in Nat
    BY <1>1, <1>2, MonusType
  <2>2. CASE Heavy(d)
    BY <1>1, <2>1, <2>2 DEF Settle, Book
  <2>3. CASE ~Heavy(d)
    BY <1>1, <2>1, <2>3 DEF Settle, Book
  <2> QED BY <2>2, <2>3
<1> QED BY <1>3, <1>4, <1>5

\* Settling a lease never raises a counter, and a heavy one frees the slot.
LEMMA SettleShrinks ==
    ASSUME NEW b \in Book, NEW d \in Demand
    PROVE  /\ Settle(b, d).vram <= b.vram
           /\ Settle(b, d).ram <= b.ram
<1>1. b.vram \in Nat /\ b.ram \in Nat /\ d.vram \in Nat /\ d.ram \in Nat
  BY DemandFields DEF Book
<1>2. Monus(b.vram, d.vram) <= b.vram /\ Monus(b.ram, d.ram) <= b.ram
  BY <1>1, MonusType
<1> QED BY <1>2 DEF Settle

\* A grant that was checked against books with no hidden heavy VRAM stays
\* within the budget.
LEMMA GrantWithinCeiling ==
    ASSUME NEW b \in Book, NEW d \in Demand,
           FitsBooks(d, b),
           Heavy(d) => b.heavyVram = 0
    PROVE  /\ Grant(b, d).vram <= Ceiling
           /\ Grant(b, d).ram <= MaxRam
BY DemandFields, CeilingType, ConstantsAssumption DEF FitsBooks, Grant, Book

-----------------------------------------------------------------------------
(***************************************************************************)
(* Types, and that a client with a request has a proper demand.            *)
(***************************************************************************)
Typed == TypeOK /\ AskedWhatItHolds

LEMMA InitTyped == Init => Typed
BY ConstantsAssumption
DEF Init, Typed, TypeOK, AskedWhatItHolds, Free, PC, Leased, Book, MaxAge, MaxPriority

LEMMA QueueTypes ==
    ASSUME Typed, NEW c \in Client
    PROVE  /\ Enqueue(c) => /\ age' \in [Client -> 0..MaxAge]
                            /\ ahead' \in [Client -> SUBSET Client]
           /\ Unqueue(c) => /\ age' \in [Client -> 0..MaxAge]
                            /\ ahead' \in [Client -> SUBSET Client]
<1>1. MaxAge \in Nat
  BY ConstantsAssumption DEF MaxAge, MaxPriority
<1>2. Waiting \in SUBSET Client
  BY DEF Waiting
<1> QED BY <1>1, <1>2 DEF Typed, TypeOK, Enqueue, Unqueue

LEMMA AcquireTyped ==
    ASSUME Typed, NEW c \in Client, NEW d \in Demand, Acquire(c, d)
    PROVE  Typed'
<1> USE DEF Typed
<1>1. PICK t \in Reading :
          /\ telemetry' = t
          /\ \/ ~Fits(d, book, t) /\ AcquireUnfit(c)
             \/ /\ Fits(d, book, t)
                /\ \E u \in Answers(t) :
                      \/ AcquireNow(c, d, u)
                      \/ AcquireQueued(c, d, u)
                      \/ AcquireRejected(c, d, u)
  BY DEF Acquire
<1>2. telemetry' \in Reading /\ resident' \subseteq Role
  BY <1>1 DEF Acquire, TypeOK
<1>3. CASE AcquireUnfit(c) \/ \E u : AcquireRejected(c, d, u)
  BY <1>2, <1>3
  DEF AcquireUnfit, AcquireRejected, TypeOK, AskedWhatItHolds, PC, Free
<1>4. ASSUME NEW u, AcquireNow(c, d, u)
      PROVE  Typed'
  <2>1. book' \in Book
    BY <1>4, BookTypes DEF AcquireNow, TypeOK
  <2> QED
    BY <1>2, <1>4, <2>1 DEF AcquireNow, TypeOK, AskedWhatItHolds, PC, Leased
<1>5. ASSUME NEW u, AcquireQueued(c, d, u)
      PROVE  Typed'
  BY <1>2, <1>5, QueueTypes DEF AcquireQueued, TypeOK, AskedWhatItHolds, PC
<1> QED BY <1>1, <1>3, <1>4, <1>5

LEMMA ReleaseTyped ==
    ASSUME Typed, NEW c \in Client, Release(c)
    PROVE  Typed'
<1> USE DEF Typed
<1> DEFINE b == Settle(book, demand[c])
<1>1. PICK answer \in [Waiting -> Answers(telemetry)] :
          \/ DispatchNobody(c, b, answer)
          \/ \E w \in Waiting : Dispatch(c, w, b, answer)
  BY DEF Release
<1>2. demand[c] \in Demand /\ pc[c] # "waiting"
  BY DEF Release, AskedWhatItHolds, Free
<1>3. b \in Book
  BY <1>2, BookTypes DEF TypeOK
<1>4. telemetry' \in Reading /\ resident' \subseteq Role
  BY DEF Release, TypeOK
<1> HIDE DEF b
<1>5. CASE DispatchNobody(c, b, answer)
  BY <1>3, <1>4, <1>5 DEF DispatchNobody, TypeOK, AskedWhatItHolds, PC, Free
<1>6. ASSUME NEW w \in Waiting, Dispatch(c, w, b, answer)
      PROVE  Typed'
  <2>1. w \in Client /\ w # c /\ demand[w] \in Demand
    BY <1>2 DEF Waiting, AskedWhatItHolds, Free
  <2>2. book' \in Book
    BY <1>3, <1>6, <2>1, BookTypes DEF Dispatch
  <2>3. age' \in [Client -> 0..MaxAge] /\ ahead' \in [Client -> SUBSET Client]
    BY <1>6, <2>1, QueueTypes DEF Dispatch
  <2>4. /\ pc' \in [Client -> PC]
        /\ demand' \in [Client -> Demand \cup {NoDemand}]
    BY <1>6, <2>1 DEF Dispatch, TypeOK, PC, Free, Leased
  <2>5. AskedWhatItHolds'
    BY <1>6, <2>1 DEF Dispatch, TypeOK, AskedWhatItHolds, Free
  <2> QED BY <1>4, <2>2, <2>3, <2>4, <2>5 DEF TypeOK
<1> QED BY <1>1, <1>5, <1>6

LEMMA NextTyped == Typed /\ [Next]_vars => Typed'
<1> USE DEF Typed
<1> SUFFICES ASSUME Typed, [Next]_vars
             PROVE  Typed'
  OBVIOUS
<1>1. ASSUME NEW c \in Client, NEW d \in Demand, Acquire(c, d)
      PROVE  Typed'
  BY <1>1, AcquireTyped
<1>2. ASSUME NEW c \in Client, Resume(c)
      PROVE  Typed'
  <2>1. demand[c] \in Demand
    BY <1>2 DEF Resume, AskedWhatItHolds, Free
  <2>2. book' \in Book
    BY <1>2, <2>1, BookTypes DEF Resume, TypeOK
  <2> QED BY <1>2, <2>1, <2>2 DEF Resume, TypeOK, AskedWhatItHolds, PC, Leased
<1>3. ASSUME NEW c \in Client, GiveUpWaiting(c)
      PROVE  Typed'
  BY <1>3, QueueTypes DEF GiveUpWaiting, TypeOK, AskedWhatItHolds, PC, Free
<1>4. ASSUME NEW c \in Client, GiveUpGranted(c)
      PROVE  Typed'
  BY <1>4 DEF GiveUpGranted, TypeOK, AskedWhatItHolds, PC, Free, Leased
<1>5. ASSUME NEW c \in Client, Release(c)
      PROVE  Typed'
  BY <1>5, ReleaseTyped
<1>6. ASSUME NEW r \in Role, RegisterResident(r) \/ ClearResident(r)
      PROVE  Typed'
  BY <1>6 DEF RegisterResident, ClearResident, TypeOK, AskedWhatItHolds
<1>7. CASE TelemetryMoves
  BY <1>7 DEF TelemetryMoves, TypeOK, AskedWhatItHolds
<1>8. CASE Tick
  <2>1. MaxAge \in Nat
    BY ConstantsAssumption DEF MaxAge, MaxPriority
  <2>2. age' \in [Client -> 0..MaxAge]
    BY <1>8, <2>1 DEF Tick, TypeOK
  <2> QED BY <1>8, <2>2 DEF Tick, TypeOK, AskedWhatItHolds
<1>9. CASE UNCHANGED vars
  BY <1>9 DEF vars, TypeOK, AskedWhatItHolds
<1> QED BY <1>1, <1>2, <1>3, <1>4, <1>5, <1>6, <1>7, <1>8, <1>9 DEF Next

-----------------------------------------------------------------------------
(***************************************************************************)
(* The slot.  A client's stake in it is its lease if that is heavy, so a   *)
(* step is understood by what it does to HeavyOwners and to the books.     *)
(***************************************************************************)
SlotInv == HeavyExclusion /\ LockMatchesLease /\ NoHeavyVramWhenFree /\ WithinCeiling

LEMMA InitSlot == Init => SlotInv
<1> SUFFICES ASSUME Init PROVE SlotInv
  OBVIOUS
<1>1. HeavyOwners = {}
  BY DEF Init, HeavyOwners, Leased
<1> QED BY <1>1, CeilingType, ConstantsAssumption
        DEF Init, SlotInv, HeavyExclusion, LockMatchesLease, NoHeavyVramWhenFree, WithinCeiling

\* A heavy request is only granted when nobody owns the slot, and then the
\* books hide no VRAM from its check.
LEMMA SlotFreeNoOwner ==
    ASSUME SlotInv, ~book.locked, ~book.reserved
    PROVE  HeavyOwners = {} /\ book.heavyVram = 0
BY DEF SlotInv, LockMatchesLease, NoHeavyVramWhenFree

\* A step that leaves the books, the heavy leases and their stage alone.
LEMMA SlotUntouched ==
    ASSUME SlotInv, UNCHANGED book, HeavyOwners' = HeavyOwners,
           \A c \in HeavyOwners : (pc'[c] = "holding") <=> (pc[c] = "holding")
    PROVE  SlotInv'
BY DEF SlotInv, HeavyExclusion, LockMatchesLease, NoHeavyVramWhenFree, WithinCeiling, Ceiling

LEMMA AcquireSlot ==
    ASSUME Typed, SlotInv, NEW c \in Client, NEW d \in Demand, Acquire(c, d)
    PROVE  SlotInv'
<1>1. pc[c] \in Free /\ c \notin HeavyOwners
  BY DEF Acquire, HeavyOwners, Free, Leased
<1>2. CASE \/ AcquireUnfit(c)
           \/ \E u : AcquireQueued(c, d, u) \/ AcquireRejected(c, d, u)
  <2>1. UNCHANGED book /\ HeavyOwners' = HeavyOwners
    BY <1>1, <1>2
    DEF AcquireUnfit, AcquireQueued, AcquireRejected, HeavyOwners, Typed, TypeOK, Leased
  <2>2. \A o \in HeavyOwners : pc'[o] = pc[o]
    BY <1>1, <1>2
    DEF AcquireUnfit, AcquireQueued, AcquireRejected, HeavyOwners, Typed, TypeOK
  <2> QED BY <2>1, <2>2, SlotUntouched
<1>3. ASSUME NEW u, AcquireNow(c, d, u)
      PROVE  SlotInv'
  <2>1. book \in Book /\ Grant(book, d) \in Book
    BY BookTypes DEF Typed, TypeOK
  <2>2. /\ pc' = [pc EXCEPT ![c] = "holding"]
        /\ demand' = [demand EXCEPT ![c] = d]
        /\ book' = TakeLock(Grant(book, d), d)
    BY <1>3 DEF AcquireNow
  <2>3. /\ FitsBooks(d, book)
        /\ Heavy(d) => ~book.locked /\ ~book.reserved
    BY <1>3 DEF AcquireNow, Admissible, Fits, SlotFree
  <2>4. book'.vram <= Ceiling /\ book'.ram <= MaxRam
    BY <2>1, <2>2, <2>3, GrantWithinCeiling, SlotFreeNoOwner DEF TakeLock, Book
  <2>5. CASE Heavy(d)
    <3>1. HeavyOwners = {}
      BY <2>3, <2>5, SlotFreeNoOwner
    <3>2. HeavyOwners' = {c}
      BY <2>2, <2>5, <3>1 DEF HeavyOwners, Typed, TypeOK, Leased, Heavy
    <3>3. pc'[c] = "holding" /\ book'.locked /\ ~book'.reserved
      BY <2>1, <2>2, <2>5 DEF TakeLock, Book, Typed, TypeOK
    <3> QED BY <2>4, <3>2, <3>3
            DEF SlotInv, HeavyExclusion, LockMatchesLease, NoHeavyVramWhenFree, WithinCeiling, Ceiling
  <2>6. CASE ~Heavy(d)
    <3>1. HeavyOwners' = HeavyOwners
      BY <1>1, <2>2, <2>6 DEF HeavyOwners, Typed, TypeOK, Heavy
    <3>2. \A o \in HeavyOwners : pc'[o] = pc[o]
      BY <1>1, <2>2 DEF HeavyOwners, Typed, TypeOK
    <3>3. /\ book'.locked = book.locked /\ book'.reserved = book.reserved
          /\ book'.heavyVram = book.heavyVram
      BY <2>2, <2>6 DEF TakeLock, Grant
    <3> QED BY <2>4, <3>1, <3>2, <3>3
            DEF SlotInv, HeavyExclusion, LockMatchesLease, NoHeavyVramWhenFree, WithinCeiling, Ceiling
  <2> QED BY <2>5, <2>6
<1> QED BY <1>2, <1>3 DEF Acquire

LEMMA ResumeSlot ==
    ASSUME Typed, SlotInv, NEW c \in Client, Resume(c)
    PROVE  SlotInv'
<1>1. /\ pc[c] = "granted"
      /\ pc' = [pc EXCEPT ![c] = "holding"]
      /\ demand' = demand
      /\ book' = TakeLock(book, demand[c])
  BY DEF Resume
<1>2. HeavyOwners' = HeavyOwners
  BY <1>1 DEF HeavyOwners, Typed, TypeOK, Leased, Heavy
<1>3. CASE Heavy(demand[c])
  <2>1. c \in HeavyOwners
    BY <1>1, <1>3 DEF HeavyOwners, Leased
  <2>2. /\ book'.locked /\ ~book'.reserved
        /\ book'.vram = book.vram /\ book'.ram = book.ram
    BY <1>1, <1>3 DEF TakeLock, Typed, TypeOK, Book
  <2>3. pc'[c] = "holding"
    BY <1>1 DEF Typed, TypeOK
  <2> QED BY <1>2, <2>1, <2>2, <2>3
          DEF SlotInv, HeavyExclusion, LockMatchesLease, NoHeavyVramWhenFree, WithinCeiling, Ceiling
<1>4. CASE ~Heavy(demand[c])
  <2>1. c \notin HeavyOwners /\ UNCHANGED book
    BY <1>1, <1>4 DEF HeavyOwners, TakeLock
  <2>2. \A o \in HeavyOwners : pc'[o] = pc[o]
    BY <1>1, <2>1 DEF HeavyOwners, Typed, TypeOK
  <2> QED BY <1>2, <2>1, <2>2, SlotUntouched
<1> QED BY <1>3, <1>4

LEMMA GiveUpSlot ==
    ASSUME Typed, SlotInv, NEW c \in Client, GiveUpWaiting(c) \/ GiveUpGranted(c)
    PROVE  SlotInv'
<1>1. UNCHANGED book
  BY DEF GiveUpWaiting, GiveUpGranted
<1>2. HeavyOwners' = HeavyOwners
  <2>1. CASE GiveUpWaiting(c)
    BY <2>1 DEF GiveUpWaiting, HeavyOwners, Typed, TypeOK, Leased, Heavy
  <2>2. CASE GiveUpGranted(c)
    BY <2>2 DEF GiveUpGranted, HeavyOwners, Typed, TypeOK, Leased, Heavy
  <2> QED BY <2>1, <2>2
<1>3. \A o \in HeavyOwners : (pc'[o] = "holding") <=> (pc[o] = "holding")
  BY DEF GiveUpWaiting, GiveUpGranted, HeavyOwners, Typed, TypeOK
<1> QED BY <1>1, <1>2, <1>3, SlotUntouched

(***************************************************************************)
(* A release first takes its own stake away, which leaves books that no    *)
(* other heavy lease is on if it was heavy, and at most the dispatched     *)
(* waiter gains one.                                                       *)
(***************************************************************************)
Others(c) == HeavyOwners \ {c}

SettledSlot(c, b) ==
    /\ b \in Book
    /\ b.vram <= Ceiling /\ b.ram <= MaxRam
    /\ b.locked <=> \E o \in Others(c) : pc[o] = "holding"
    /\ b.reserved <=> \E o \in Others(c) : pc[o] # "holding"
    /\ Others(c) = {} => b.heavyVram = 0

LEMMA SettleSlot ==
    ASSUME Typed, SlotInv, NEW c \in Client, Release(c)
    PROVE  SettledSlot(c, Settle(book, demand[c]))
<1> DEFINE b == Settle(book, demand[c])
<1>1. pc[c] \in {"holding", "cleanup"} /\ demand[c] \in Demand
  BY DEF Release, Typed, AskedWhatItHolds, Free
<1>2. book \in Book /\ b \in Book
  BY <1>1, BookTypes DEF Typed, TypeOK
<1>3. b.vram <= Ceiling /\ b.ram <= MaxRam
  <2>1. b.vram <= book.vram /\ b.ram <= book.ram
    BY <1>1, <1>2, SettleShrinks
  <2>2. book.vram <= Ceiling /\ book.ram <= MaxRam
    BY DEF SlotInv, WithinCeiling
  <2>3. /\ b.vram \in Nat /\ b.ram \in Nat /\ book.vram \in Nat /\ book.ram \in Nat
        /\ Ceiling \in Nat /\ MaxRam \in Nat
    BY <1>2, CeilingType, ConstantsAssumption DEF Book
  <2> HIDE DEF b
  <2> QED BY <2>1, <2>2, <2>3
<1>4. CASE Heavy(demand[c])
  <2>1. Others(c) = {}
    BY <1>1, <1>4 DEF Others, HeavyOwners, Leased, SlotInv, HeavyExclusion
  <2>2. ~b.locked /\ ~b.reserved /\ b.heavyVram = 0
    BY <1>4 DEF Settle
  <2> QED BY <1>2, <1>3, <2>1, <2>2 DEF SettledSlot
<1>5. CASE ~Heavy(demand[c])
  <2>1. Others(c) = HeavyOwners
    BY <1>5 DEF Others, HeavyOwners
  <2>2. b.locked = book.locked /\ b.reserved = book.reserved /\ b.heavyVram = book.heavyVram
    BY <1>5 DEF Settle
  <2> QED BY <1>2, <1>3, <2>1, <2>2
          DEF SettledSlot, SlotInv, LockMatchesLease, NoHeavyVramWhenFree
<1> QED BY <1>4, <1>5

LEMMA ReleaseSlot ==
    ASSUME Typed, SlotInv, NEW c \in Client, Release(c)
    PROVE  SlotInv'
<1> DEFINE b == Settle(book, demand[c])
<1>1. PICK answer \in [Waiting -> Answers(telemetry)] :
          \/ DispatchNobody(c, b, answer)
          \/ \E w \in Waiting : Dispatch(c, w, b, answer)
  BY DEF Release
<1>2. SettledSlot(c, b)
  BY SettleSlot
<1>3. \A o, q \in Others(c) : o = q
  BY DEF Others, SlotInv, HeavyExclusion
<1>4. pc[c] \in {"holding", "cleanup"}
  BY DEF Release
<1> HIDE DEF b
<1>5. CASE DispatchNobody(c, b, answer)
  <2>1. HeavyOwners' = Others(c)
    BY <1>4, <1>5 DEF DispatchNobody, Others, HeavyOwners, Typed, TypeOK, Leased, Heavy
  <2>2. book' = b /\ \A o \in Others(c) : pc'[o] = pc[o]
    BY <1>5 DEF DispatchNobody, Others, HeavyOwners, Typed, TypeOK
  <2> QED BY <1>2, <1>3, <2>1, <2>2
          DEF SettledSlot, SlotInv, HeavyExclusion, LockMatchesLease, NoHeavyVramWhenFree,
              WithinCeiling, Ceiling
<1>6. ASSUME NEW w \in Waiting, Dispatch(c, w, b, answer)
      PROVE  SlotInv'
  <2>1. w \in Client /\ w # c /\ pc[w] = "waiting" /\ demand[w] \in Demand
    BY <1>4 DEF Waiting, Typed, AskedWhatItHolds, Free
  <2>2. /\ pc' = [pc EXCEPT ![c] = "idle", ![w] = "granted"]
        /\ demand' = [demand EXCEPT ![c] = NoDemand]
        /\ book' = Grant(b, demand[w])
    BY <1>6 DEF Dispatch
  <2>3. /\ FitsBooks(demand[w], b)
        /\ Heavy(demand[w]) => ~b.locked /\ ~b.reserved
    BY <1>6 DEF Dispatch, Admissible, Fits, SlotFree
  <2>4. Heavy(demand[w]) => Others(c) = {} /\ b.heavyVram = 0
    BY <1>2, <2>3 DEF SettledSlot
  <2>5. book'.vram <= Ceiling /\ book'.ram <= MaxRam
    BY <1>2, <2>1, <2>2, <2>3, <2>4, GrantWithinCeiling DEF SettledSlot
  <2>6. \A o \in Others(c) : o # w /\ pc'[o] = pc[o]
    BY <2>1, <2>2 DEF Others, HeavyOwners, Leased, Typed, TypeOK
  <2>7. CASE Heavy(demand[w])
    <3>1. HeavyOwners' = {w}
      BY <2>1, <2>2, <2>4, <2>7
      DEF Others, HeavyOwners, Leased, Typed, TypeOK, Heavy
    <3>2. pc'[w] = "granted" /\ book'.reserved /\ ~book'.locked
      BY <2>1, <2>2, <2>3, <2>7 DEF Grant, Typed, TypeOK
    <3> QED BY <2>5, <3>1, <3>2
            DEF SlotInv, HeavyExclusion, LockMatchesLease, NoHeavyVramWhenFree, WithinCeiling,
                Ceiling
  <2>8. CASE ~Heavy(demand[w])
    <3>1. HeavyOwners' = Others(c)
      BY <1>4, <2>1, <2>2, <2>8 DEF Others, HeavyOwners, Leased, Typed, TypeOK, Heavy
    <3>2. /\ book'.locked = b.locked /\ book'.reserved = b.reserved
          /\ book'.heavyVram = b.heavyVram
      BY <2>2, <2>8 DEF Grant
    <3> QED BY <1>2, <1>3, <2>5, <2>6, <3>1, <3>2
            DEF SettledSlot, SlotInv, HeavyExclusion, LockMatchesLease, NoHeavyVramWhenFree,
                WithinCeiling, Ceiling
  <2> QED BY <2>7, <2>8
<1> QED BY <1>1, <1>5, <1>6

LEMMA NextSlot == Typed /\ SlotInv /\ [Next]_vars => SlotInv'
<1> SUFFICES ASSUME Typed, SlotInv, [Next]_vars
             PROVE  SlotInv'
  OBVIOUS
<1>1. ASSUME UNCHANGED <<pc, demand, book>>
      PROVE  SlotInv'
  BY <1>1, SlotUntouched DEF HeavyOwners
<1>2. CASE \E c \in Client, d \in Demand : Acquire(c, d)
  BY <1>2, AcquireSlot
<1>3. CASE \E c \in Client : Resume(c)
  BY <1>3, ResumeSlot
<1>4. CASE \E c \in Client : GiveUpWaiting(c) \/ GiveUpGranted(c)
  BY <1>4, GiveUpSlot
<1>5. CASE \E c \in Client : Release(c)
  BY <1>5, ReleaseSlot
<1>6. CASE \E r \in Role : RegisterResident(r) \/ ClearResident(r)
  BY <1>1, <1>6 DEF RegisterResident, ClearResident
<1>7. CASE TelemetryMoves \/ Tick \/ UNCHANGED vars
  BY <1>1, <1>7 DEF TelemetryMoves, Tick, vars
<1> QED BY <1>2, <1>3, <1>4, <1>5, <1>6, <1>7 DEF Next

-----------------------------------------------------------------------------
IInv == Typed /\ SlotInv

LEMMA Inductive == Spec => []IInv
<1>1. Init => IInv
  BY InitTyped, InitSlot DEF IInv
<1>2. IInv /\ [Next]_vars => IInv'
  BY NextTyped, NextSlot DEF IInv
<1> QED BY <1>1, <1>2, PTL DEF Spec

(***************************************************************************)
(* The governor's state keeps its types.                                   *)
(***************************************************************************)
THEOREM TypeCorrect == Spec => []TypeOK
<1>1. IInv => TypeOK
  BY DEF IInv, Typed
<1> QED BY <1>1, Inductive, PTL

(***************************************************************************)
(* _heavy_lock and _heavy_lock_reserved together let at most one heavy     *)
(* lease be outstanding, for any number of coroutines and roles.           *)
(***************************************************************************)
THEOREM ExclusiveHeavyLease == Spec => []HeavyExclusion
<1>1. IInv => HeavyExclusion
  BY DEF IInv, SlotInv
<1> QED BY <1>1, Inductive, PTL

(***************************************************************************)
(* No timeout or cancellation, whenever it strikes, strands the heavy lock *)
(* or its reservation, and a granted coroutine finds the lock free.        *)
(***************************************************************************)
THEOREM LockFollowsLease == Spec => []LockMatchesLease
<1>1. IInv => LockMatchesLease
  BY DEF IInv, SlotInv
<1> QED BY <1>1, Inductive, PTL

(***************************************************************************)
(* Grants never exceed the VRAM ceiling or the RAM budget, although        *)
(* _check_budget_for_role leaves the current heavy lease out of its sum.   *)
(***************************************************************************)
THEOREM BudgetKept == Spec => []WithinCeiling
<1>1. IInv => WithinCeiling
  BY DEF IInv, SlotInv
<1> QED BY <1>1, Inductive, PTL

-----------------------------------------------------------------------------
(***************************************************************************)
(* Every step of the governor is a step of ExclusiveLease or leaves its    *)
(* owners and its waiting clients alone.                                   *)
(***************************************************************************)
HeavyWaiting == {c \in Waiting : Heavy(demand[c])}

SlotStep == \/ \E c \in Client : \/ Slot!Take(c) \/ Slot!Queue(c) \/ Slot!GiveUp(c)
                               \/ Slot!Free(c) \/ Slot!Serve(c)
            \/ UNCHANGED <<HeavyOwners, HeavyWaiting>>

LEMMA AcquireRefines ==
    ASSUME Typed, SlotInv, NEW c \in Client, NEW d \in Demand, Acquire(c, d)
    PROVE  SlotStep
<1>1. pc[c] \in Free /\ c \notin HeavyOwners /\ c \notin HeavyWaiting
  BY DEF Acquire, HeavyOwners, HeavyWaiting, Waiting, Free, Leased
<1>2. CASE AcquireUnfit(c) \/ \E u : AcquireRejected(c, d, u)
  <2>1. HeavyOwners' = HeavyOwners /\ HeavyWaiting' = HeavyWaiting
    BY <1>1, <1>2 DEF AcquireUnfit, AcquireRejected, HeavyOwners, HeavyWaiting, Waiting,
                      Typed, TypeOK, Leased
  <2> QED BY <2>1 DEF SlotStep
<1>3. ASSUME NEW u, AcquireQueued(c, d, u)
      PROVE  SlotStep
  <2>1. HeavyOwners' = HeavyOwners
    BY <1>1, <1>3 DEF AcquireQueued, HeavyOwners, Typed, TypeOK, Leased
  <2>2. CASE Heavy(d)
    <3>1. HeavyWaiting' = HeavyWaiting \cup {c}
      BY <1>1, <1>3, <2>2 DEF AcquireQueued, HeavyWaiting, Waiting, Typed, TypeOK, Heavy
    <3> QED BY <1>1, <2>1, <3>1 DEF SlotStep, Slot!Queue, HeavyWaiting
  <2>3. CASE ~Heavy(d)
    <3>1. HeavyWaiting' = HeavyWaiting
      BY <1>1, <1>3, <2>3 DEF AcquireQueued, HeavyWaiting, Waiting, Typed, TypeOK, Heavy, Free
    <3> QED BY <2>1, <3>1 DEF SlotStep
  <2> QED BY <2>2, <2>3
<1>4. ASSUME NEW u, AcquireNow(c, d, u)
      PROVE  SlotStep
  <2>1. /\ pc' = [pc EXCEPT ![c] = "holding"]
        /\ demand' = [demand EXCEPT ![c] = d]
        /\ Heavy(d) => HeavyOwners = {}
    BY <1>4, SlotFreeNoOwner DEF AcquireNow, Admissible, SlotFree
  <2>2. HeavyWaiting' = HeavyWaiting
    BY <1>1, <2>1 DEF HeavyWaiting, Waiting, Typed, TypeOK, Heavy, Free
  <2>3. CASE Heavy(d)
    <3>1. HeavyOwners' = {c}
      BY <2>1, <2>3 DEF HeavyOwners, Typed, TypeOK, Leased, Heavy
    <3> QED BY <1>1, <2>1, <2>2, <2>3, <3>1 DEF SlotStep, Slot!Take, HeavyWaiting
  <2>4. CASE ~Heavy(d)
    <3>1. HeavyOwners' = HeavyOwners
      BY <1>1, <2>1, <2>4 DEF HeavyOwners, Typed, TypeOK, Heavy
    <3> QED BY <2>2, <3>1 DEF SlotStep
  <2> QED BY <2>3, <2>4
<1> QED BY <1>2, <1>3, <1>4 DEF Acquire

LEMMA GiveUpRefines ==
    ASSUME Typed, NEW c \in Client, GiveUpWaiting(c) \/ GiveUpGranted(c) \/ Resume(c)
    PROVE  SlotStep
<1>1. CASE GiveUpWaiting(c)
  <2>1. HeavyOwners' = HeavyOwners
    BY <1>1 DEF GiveUpWaiting, HeavyOwners, Typed, TypeOK, Leased, Heavy
  <2>2. HeavyWaiting' = HeavyWaiting \ {c}
    BY <1>1 DEF GiveUpWaiting, HeavyWaiting, Waiting, Typed, TypeOK, Heavy
  <2>3. CASE c \in HeavyWaiting
    BY <2>1, <2>2, <2>3 DEF SlotStep, Slot!GiveUp, HeavyWaiting
  <2>4. CASE c \notin HeavyWaiting
    BY <2>1, <2>2, <2>4 DEF SlotStep
  <2> QED BY <2>3, <2>4
<1>2. CASE GiveUpGranted(c) \/ Resume(c)
  <2>1. HeavyOwners' = HeavyOwners
    BY <1>2 DEF GiveUpGranted, Resume, HeavyOwners, Typed, TypeOK, Leased, Heavy
  <2>2. HeavyWaiting' = HeavyWaiting
    BY <1>2 DEF GiveUpGranted, Resume, HeavyWaiting, Waiting, Typed, TypeOK, Heavy
  <2> QED BY <2>1, <2>2 DEF SlotStep
<1> QED BY <1>1, <1>2

LEMMA ReleaseRefines ==
    ASSUME Typed, SlotInv, NEW c \in Client, Release(c)
    PROVE  SlotStep
<1> DEFINE b == Settle(book, demand[c])
<1>1. PICK answer \in [Waiting -> Answers(telemetry)] :
          \/ DispatchNobody(c, b, answer)
          \/ \E w \in Waiting : Dispatch(c, w, b, answer)
  BY DEF Release
<1>2. SettledSlot(c, b)
  BY SettleSlot
<1>3. pc[c] \in {"holding", "cleanup"} /\ c \notin HeavyWaiting
  BY DEF Release, HeavyWaiting, Waiting
<1>4. HeavyOwners = {} \/ HeavyOwners = {c} \/ Others(c) # {}
  BY DEF Others
<1> HIDE DEF b
<1>5. ASSUME HeavyOwners' = Others(c), HeavyWaiting' = HeavyWaiting
      PROVE  SlotStep
  <2>1. CASE c \in HeavyOwners
    BY <1>5, <2>1 DEF SlotStep, Slot!Free, Others, HeavyWaiting
  <2>2. CASE c \notin HeavyOwners
    <3>1. HeavyOwners' = HeavyOwners
      BY <1>5, <2>2 DEF Others
    <3> QED BY <1>5, <3>1 DEF SlotStep
  <2> QED BY <2>1, <2>2
<1>6. CASE DispatchNobody(c, b, answer)
  <2>1. HeavyOwners' = Others(c)
    BY <1>3, <1>6 DEF DispatchNobody, Others, HeavyOwners, Typed, TypeOK, Leased, Heavy
  <2>2. HeavyWaiting' = HeavyWaiting
    BY <1>3, <1>6 DEF DispatchNobody, HeavyWaiting, Waiting, Typed, TypeOK, Heavy
  <2> QED BY <1>5, <2>1, <2>2
<1>7. ASSUME NEW w \in Waiting, Dispatch(c, w, b, answer)
      PROVE  SlotStep
  <2>1. w \in Client /\ w # c /\ pc[w] = "waiting"
    BY <1>3 DEF Waiting
  <2>2. /\ pc' = [pc EXCEPT ![c] = "idle", ![w] = "granted"]
        /\ demand' = [demand EXCEPT ![c] = NoDemand]
        /\ Heavy(demand[w]) => ~b.locked /\ ~b.reserved
    BY <1>7 DEF Dispatch, Admissible, SlotFree
  <2>3. CASE Heavy(demand[w])
    <3>1. Others(c) = {}
      BY <1>2, <2>2, <2>3 DEF SettledSlot
    <3>2. HeavyOwners' = {w}
      BY <2>1, <2>2, <2>3, <3>1 DEF Others, HeavyOwners, Leased, Typed, TypeOK, Heavy
    <3>3. HeavyWaiting' = HeavyWaiting \ {w} /\ w \in HeavyWaiting
      BY <1>3, <2>1, <2>2, <2>3 DEF HeavyWaiting, Waiting, Typed, TypeOK, Heavy
    <3>4. HeavyOwners = {} \/ \E o \in HeavyOwners : HeavyOwners = {o}
      BY <1>4, <3>1
    <3> QED BY <2>1, <3>2, <3>3, <3>4 DEF SlotStep, Slot!Serve, HeavyWaiting
  <2>4. CASE ~Heavy(demand[w])
    <3>1. HeavyOwners' = Others(c)
      BY <1>3, <2>1, <2>2, <2>4 DEF Others, HeavyOwners, Leased, Typed, TypeOK, Heavy
    <3>2. HeavyWaiting' = HeavyWaiting
      BY <1>3, <2>1, <2>2, <2>4 DEF HeavyWaiting, Waiting, Typed, TypeOK, Heavy
    <3> QED BY <1>5, <3>1, <3>2
  <2> QED BY <2>3, <2>4
<1> QED BY <1>1, <1>6, <1>7

LEMMA NextRefines == IInv /\ [Next]_vars => SlotStep
<1> SUFFICES ASSUME Typed, SlotInv, [Next]_vars
             PROVE  SlotStep
  BY DEF IInv
<1>1. ASSUME UNCHANGED <<pc, demand>>
      PROVE  SlotStep
  BY <1>1 DEF SlotStep, HeavyOwners, HeavyWaiting, Waiting
<1>2. CASE \E c \in Client, d \in Demand : Acquire(c, d)
  BY <1>2, AcquireRefines
<1>3. CASE \E c \in Client : GiveUpWaiting(c) \/ GiveUpGranted(c) \/ Resume(c)
  BY <1>3, GiveUpRefines
<1>4. CASE \E c \in Client : Release(c)
  BY <1>4, ReleaseRefines
<1>5. CASE \/ \E r \in Role : RegisterResident(r) \/ ClearResident(r)
           \/ TelemetryMoves \/ Tick \/ UNCHANGED vars
  BY <1>1, <1>5 DEF RegisterResident, ClearResident, TelemetryMoves, Tick, vars
<1> QED BY <1>2, <1>3, <1>4, <1>5 DEF Next

(***************************************************************************)
(* acquire, release and the dispatch inside it implement the exclusive     *)
(* slot the agents and the vision manager rely on: from a free slot or     *)
(* from its owner, it only ever passes to one client.                      *)
(***************************************************************************)
THEOREM Refinement == Spec => ImplementsExclusiveLease
<1>1. Init => Slot!Init
  <2> SUFFICES ASSUME Init PROVE Slot!Init
    OBVIOUS
  <2> QED BY DEF Init, Slot!Init, HeavyOwners, Waiting, Leased
<1>2. IInv /\ [Next]_vars => [Slot!Next]_(Slot!vars)
  BY NextRefines DEF SlotStep, Slot!Next, Slot!vars, HeavyWaiting
<1> QED BY <1>1, <1>2, Inductive, PTL DEF Spec, ImplementsExclusiveLease, Slot!Spec

=============================================================================
