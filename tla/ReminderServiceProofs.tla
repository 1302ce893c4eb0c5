----------------------- MODULE ReminderServiceProofs -----------------------
(***************************************************************************)
(* For any number of reminders, ticks and plans and any bounds: that an    *)
(* occurrence is dispatched at most once and used up only when it was, and *)
(* that no plan goes on unwarned once the user is active.                  *)
(***************************************************************************)
EXTENDS ReminderService, FiniteSetTheorems, SequenceTheorems, TLAPS

ReminderRows == [status : Status, left : Int, fires : Nat, max : Nat]
ReadRows == [reminder : Reminders, fires : Nat]
Ticks == [pc : {"idle", "waiting", "deciding", "recording"}, age : Nat, quiet : BOOLEAN,
          list : Seq(ReadRows)]

Typed ==
    /\ row \in [Reminders -> ReminderRows]
    /\ tick \in [Tickers -> Ticks]
    /\ told \in [Reminders -> Nat]

(***************************************************************************)
(* One tick at a time has a list, on which no reminder is twice.           *)
(***************************************************************************)
Busy(k) == tick[k].pc \in {"deciding", "recording"}

OneTick == \A j, k \in Tickers : Busy(j) /\ Busy(k) => j = k

Lists ==
    \A k \in Tickers :
       /\ tick[k].pc = "recording" => tick[k].list # <<>>
       /\ \A i, j \in 1 .. Len(tick[k].list) :
             tick[k].list[i].reminder = tick[k].list[j].reminder => i = j

LEMMA InitTyped == Init => Typed /\ OneTick /\ Lists
<1> SUFFICES ASSUME Init
             PROVE  Typed /\ OneTick /\ Lists
  OBVIOUS
<1>1. row \in [Reminders -> ReminderRows] /\ told \in [Reminders -> Nat]
  BY DEF Init, NoRow, ReminderRows, Status
<1>2. Idle \in Ticks
  BY DEF Idle, Ticks
<1>3. tick \in [Tickers -> Ticks]
  BY <1>2 DEF Init
<1>4. OneTick /\ Lists
  BY DEF Init, Idle, OneTick, Busy, Lists
<1> QED
  BY <1>1, <1>3, <1>4 DEF Typed

(* What is due, as it is read. *)
LEMMA DueList ==
    ASSUME Bounds, Typed, NEW age, NEW list \in SetToSeqs(AllDue(age))
    PROVE  /\ list \in Seq(Reminders)
           /\ \A i \in 1 .. Len(list) : row[list[i]].status = "active"
           /\ \A i, j \in 1 .. Len(list) : list[i] = list[j] => i = j
<1> DEFINE due == AllDue(age)
<1>1. Cardinality(due) \in Nat
  <2>1. due \subseteq Reminders /\ IsFiniteSet(Reminders)
    BY DEF Bounds, AllDue
  <2> QED
    BY <2>1, FS_Subset, FS_CardinalityType
<1> DEFINE n == Cardinality(due)
<1> HIDE DEF n
<1>2. /\ list \in [1 .. n -> due]
      /\ \A i, j \in 1 .. n : i # j => list[i] # list[j]
  BY DEF SetToSeqs, n
<1>3. n \in Nat
  BY <1>1 DEF n
<1>4. list \in Seq(Reminders) /\ Len(list) = n
  BY <1>2, <1>3 DEF AllDue
<1> QED
  BY <1>2, <1>4 DEF AllDue, IsDue

-----------------------------------------------------------------------------
(* Types *)

LEMMA NextOccurrenceIsATime ==
    ASSUME Bounds, NEW left \in Int
    PROVE  NextOccurrence(left) \subseteq Int
BY DEF Bounds, NextOccurrence

LEMMA RetiredRow ==
    ASSUME NEW old \in ReminderRows, NEW status \in Status
    PROVE  /\ Retired(old, status) \in ReminderRows
           /\ Retired(old, status).status = status /\ Retired(old, status).fires = old.fires
BY DEF Retired, ReminderRows

LEMMA ConsumeTyped ==
    ASSUME Bounds, Typed, NEW r \in Reminders, Consume(r)
    PROVE  /\ row' \in [Reminders -> ReminderRows]
           /\ told' = [told EXCEPT ![r] = 0]
           /\ \A q \in Reminders \ {r} : row'[q] = row[q]
           /\ row'[r].fires = row[r].fires + 1
           /\ row'[r].status \in {row[r].status, "completed"}
<1> DEFINE n == row[r].fires + 1
<1>1. row[r] \in ReminderRows /\ n \in Nat /\ row[r].left \in Int /\ row[r].max \in Nat
  BY DEF Typed, ReminderRows
<1>2. told' = [told EXCEPT ![r] = 0]
  BY DEF Consume
<1>3. CASE n >= row[r].max
  <2> DEFINE counted == [row[r] EXCEPT !.fires = n]
             new == Retired(counted, "completed")
  <2>1. row' = [row EXCEPT ![r] = new]
    BY <1>3 DEF Consume
  <2> HIDE DEF n
  <2>2. counted \in ReminderRows /\ counted.fires = n
    BY <1>1 DEF ReminderRows
  <2> HIDE DEF counted
  <2>3. new \in ReminderRows /\ new.fires = n /\ new.status = "completed"
    BY <2>2, RetiredRow DEF Status
  <2> HIDE DEF new
  <2> QED
    BY <1>2, <2>1, <2>3 DEF Typed, n
<1>4. CASE ~(n >= row[r].max)
  <2>1. PICK l \in NextOccurrence(row[r].left) : row' = [row EXCEPT ![r].fires = n, ![r].left = l]
    BY <1>4 DEF Consume
  <2>2. l \in Int
    BY <1>1, NextOccurrenceIsATime
  <2> HIDE DEF n
  <2> DEFINE new == [row[r] EXCEPT !.fires = n, !.left = l]
  <2>3. row' = [row EXCEPT ![r] = new]
    BY <2>1, <1>1 DEF ReminderRows, Typed
  <2>4. new \in ReminderRows /\ new.fires = n /\ new.status = row[r].status
    BY <1>1, <2>2 DEF ReminderRows
  <2> HIDE DEF new
  <2> QED
    BY <1>2, <2>3, <2>4 DEF Typed, n
<1> QED
  BY <1>3, <1>4

(* What becomes of the rows in the hands of the user and of the clock. *)
RowsStay ==
    /\ row' \in [Reminders -> ReminderRows]
    /\ \A r \in Reminders :
          /\ row'[r].status = "active" => \/ row[r].status = "active" /\ row'[r].fires = row[r].fires
                                         \/ row[r].status = "absent"
          /\ row'[r].status = "absent" => row[r].status = "absent"
          /\ row'[r].fires <= row[r].fires

LEMMA WritesStay ==
    ASSUME Bounds, Typed,
           \E r \in Reminders : Create(r) \/ Update(r) \/ Cancel(r) \/ Delete(r)
    PROVE  RowsStay /\ UNCHANGED <<tick, scheduler, told>>
<1>1. ASSUME NEW r \in Reminders, NEW new \in ReminderRows, Write(r, new),
             new.fires <= row[r].fires, new.status # "absent",
             new.status = "active" => \/ row[r].status = "active" /\ new.fires = row[r].fires
                                      \/ row[r].status = "absent"
      PROVE  RowsStay /\ UNCHANGED <<tick, scheduler, told>>
  BY <1>1 DEF Write, RowsStay, Typed, ReminderRows
<1>2. PICK r \in Reminders : Create(r) \/ Update(r) \/ Cancel(r) \/ Delete(r)
  OBVIOUS
<1>3. row[r] \in ReminderRows
  BY DEF Typed
<1>4. CASE Create(r)
  <2>1. PICK l \in 0 .. Horizon, m \in 1 .. MaxFires :
           Write(r, [status |-> "active", left |-> l, fires |-> 0, max |-> m])
    BY <1>4 DEF Create
  <2>2. [status |-> "active", left |-> l, fires |-> 0, max |-> m] \in ReminderRows
    BY DEF Bounds, ReminderRows, Status
  <2>3. row[r].status = "absent" /\ 0 <= row[r].fires
    BY <1>3, <1>4 DEF Create, ReminderRows
  <2> QED
    BY <1>1, <2>1, <2>2, <2>3
<1>5. CASE Update(r)
  <2>1. PICK l \in 0 .. Horizon, m \in 1 .. MaxFires : Write(r, [row[r] EXCEPT !.left = l, !.max = m])
    BY <1>5 DEF Update
  <2>2. l \in Int /\ m \in Nat
    BY DEF Bounds
  <2> DEFINE new == [row[r] EXCEPT !.left = l, !.max = m]
  <2>3. /\ new \in ReminderRows /\ new.status = row[r].status /\ new.fires = row[r].fires
        /\ row[r].status = "active" /\ row[r].fires \in Nat
    BY <1>3, <1>5, <2>2 DEF Update, ReminderRows
  <2>4. Write(r, new)
    BY <2>1
  <2> HIDE DEF new
  <2> QED
    BY <1>1, <2>3, <2>4
<1>6. CASE Cancel(r)
  <2> DEFINE new == Retired(row[r], "cancelled")
  <2>1. new \in ReminderRows /\ new.status = "cancelled" /\ new.fires = row[r].fires
    BY <1>3, RetiredRow DEF Status
  <2>2. Write(r, new) /\ row[r].fires \in Nat
    BY <1>3, <1>6 DEF Cancel, ReminderRows
  <2> HIDE DEF new
  <2> QED
    BY <1>1, <2>1, <2>2
<1>7. CASE Delete(r)
  <2>1. /\ NoRow("deleted") \in ReminderRows /\ NoRow("deleted").status = "deleted"
        /\ NoRow("deleted").fires <= row[r].fires
    BY <1>3 DEF NoRow, ReminderRows, Status
  <2> QED
    BY <1>1, <1>7, <2>1 DEF Delete
<1> QED
  BY <1>2, <1>4, <1>5, <1>6, <1>7

LEMMA ClockStays ==
    ASSUME Typed, Clock
    PROVE  RowsStay
<1>1. ASSUME NEW r \in Reminders
      PROVE  /\ row'[r] \in ReminderRows
             /\ row'[r].status = row[r].status /\ row'[r].fires = row[r].fires
             /\ row[r].fires \in Nat
  <2>1. row[r] \in ReminderRows
    BY DEF Typed
  <2>2. row'[r] = row[r] \/ row'[r] = [row[r] EXCEPT !.left = @ - 1]
    BY DEF Clock
  <2> QED
    BY <2>1, <2>2 DEF ReminderRows
<1>2. row' \in [Reminders -> ReminderRows]
  BY <1>1 DEF Clock
<1> QED
  BY <1>1, <1>2 DEF RowsStay

(* A tick that turns to its list, goes on with it or ends. *)
LEMMA TickTyped ==
    ASSUME Typed, NEW k \in Tickers, NEW to \in Ticks, tick' = [tick EXCEPT ![k] = to]
    PROVE  tick' \in [Tickers -> Ticks] /\ tick'[k] = to /\ \A j \in Tickers \ {k} : tick'[j] = tick[j]
BY DEF Typed

LEMMA ReadTyped ==
    ASSUME Bounds, Typed, NEW k \in Tickers, ReadDue(k)
    PROVE  \E to \in Ticks :
              /\ tick' = [tick EXCEPT ![k] = to] /\ to.pc = "deciding"
              /\ \A i \in 1 .. Len(to.list) :
                    /\ row[to.list[i].reminder].status = "active"
                    /\ to.list[i].fires = row[to.list[i].reminder].fires
              /\ \A i, j \in 1 .. Len(to.list) :
                    to.list[i].reminder = to.list[j].reminder => i = j
<1>1. PICK list \in SetToSeqs(AllDue(tick[k].age)) :
         tick' = [tick EXCEPT
                    ![k].pc = "deciding",
                    ![k].list = [i \in DOMAIN list |->
                                    [reminder |-> list[i], fires |-> row[list[i]].fires]]]
  BY DEF ReadDue
<1>2. /\ list \in Seq(Reminders)
      /\ \A i \in 1 .. Len(list) : row[list[i]].status = "active"
      /\ \A i, j \in 1 .. Len(list) : list[i] = list[j] => i = j
  BY DueList
<1> DEFINE read == [i \in 1 .. Len(list) |-> [reminder |-> list[i], fires |-> row[list[i]].fires]]
           to == [tick[k] EXCEPT !.pc = "deciding", !.list = read]
<1>3. \A i \in 1 .. Len(list) : list[i] \in Reminders /\ row[list[i]].fires \in Nat
  BY <1>2 DEF Typed, ReminderRows
<1>4. /\ read \in Seq(ReadRows) /\ Len(read) = Len(list)
      /\ \A i \in 1 .. Len(list) : read[i].reminder = list[i] /\ read[i].fires = row[list[i]].fires
  BY <1>2, <1>3 DEF ReadRows
<1>5. DOMAIN list = 1 .. Len(list)
  BY <1>2
<1>6. tick' = [tick EXCEPT ![k].pc = "deciding", ![k].list = read]
  BY <1>1, <1>5
<1> HIDE DEF read
<1>7. tick' = [tick EXCEPT ![k] = to] /\ to \in Ticks /\ to.pc = "deciding" /\ to.list = read
  BY <1>4, <1>6 DEF Typed, Ticks
<1> HIDE DEF to
<1>8. /\ \A i \in 1 .. Len(to.list) :
            /\ row[to.list[i].reminder].status = "active"
            /\ to.list[i].fires = row[to.list[i].reminder].fires
      /\ \A i, j \in 1 .. Len(to.list) :
            to.list[i].reminder = to.list[j].reminder => i = j
  BY <1>2, <1>4, <1>7
<1> QED
  BY <1>7, <1>8

-----------------------------------------------------------------------------
(***************************************************************************)
(* FiresAtMostOnce is not inductive: it holds because a reminder whose     *)
(* dispatch is not on record is the one being recorded, or will never be   *)
(* read again, and because nobody but the tick that read a row can use up  *)
(* the occurrence that it read.                                            *)
(***************************************************************************)
ToldOnce ==
    \A r \in Reminders :
       \/ told[r] = 0
       \/ /\ told[r] = 1
          /\ \/ row[r].status \notin {"active", "absent"}
             \/ \E k \in Tickers : tick[k].pc = "recording" /\ tick[k].list[1].reminder = r

Owed ==
    \A k \in Tickers : Busy(k) =>
       /\ tick[k].pc = "recording" => told[tick[k].list[1].reminder] = 1
       /\ \A i \in 1 .. Len(tick[k].list) :
             LET due == tick[k].list[i] IN
             /\ (tick[k].pc = "recording" /\ i = 1) \/ told[due.reminder] = 0
             /\ row[due.reminder].status # "absent"
             /\ row[due.reminder].status = "active" => row[due.reminder].fires = due.fires

IInv == Typed /\ OneTick /\ Lists /\ ToldOnce /\ Owed

LEMMA InitInv == Init => IInv
<1> SUFFICES ASSUME Init
             PROVE  ToldOnce /\ Owed
  BY InitTyped DEF IInv
<1> QED
  BY DEF Init, Idle, ToldOnce, Owed, Busy

LEMMA OnAList ==
    ASSUME NEW x \in Ticks, NEW i \in 1 .. Len(x.list)
    PROVE  /\ x.list \in Seq(ReadRows) /\ Len(x.list) \in Nat
           /\ x.list[i] \in ReadRows
           /\ x.list[i].reminder \in Reminders /\ x.list[i].fires \in Nat
<1>1. x.list \in Seq(ReadRows)
  BY DEF Ticks
<1>2. x.list[i] \in ReadRows
  BY <1>1, ElementOfSeq
<1> QED
  BY <1>1, <1>2 DEF ReadRows

(* The user writes, plans start and end, time passes. *)
LEMMA AsideKeeps ==
    ASSUME IInv, RowsStay, UNCHANGED told, tick' \in [Tickers -> Ticks],
           \A k \in Tickers : tick'[k].pc = tick[k].pc /\ tick'[k].list = tick[k].list
    PROVE  IInv'
<1>1. Typed'
  BY DEF IInv, Typed, RowsStay
<1>2. OneTick' /\ Lists'
  BY DEF IInv, OneTick, Lists, Busy
<1>3. \A k \in Tickers : \A i \in 1 .. Len(tick[k].list) : tick[k].list[i].reminder \in Reminders
  BY OnAList DEF IInv, Typed
<1>4. ToldOnce'
  BY <1>3 DEF IInv, ToldOnce, RowsStay
<1>5. Owed'
  BY <1>3 DEF IInv, Owed, Busy, RowsStay
<1> QED
  BY <1>1, <1>2, <1>4, <1>5 DEF IInv

(* A tick without a list begins, or one that nothing is recorded for ends. *)
LEMMA IdleKeeps ==
    ASSUME IInv, UNCHANGED <<row, told>>, NEW k \in Tickers, tick[k].pc # "recording",
           NEW to \in Ticks, tick' = [tick EXCEPT ![k] = to], to.pc \in {"idle", "waiting"},
           to.list = <<>>
    PROVE  IInv'
<1>1. /\ Typed' /\ tick'[k] = to
      /\ \A j \in Tickers \ {k} : tick'[j] = tick[j]
  BY DEF IInv, Typed
<1>2. OneTick' /\ Lists'
  BY <1>1 DEF IInv, OneTick, Lists, Busy
<1>3. ToldOnce' /\ Owed'
  BY <1>1 DEF IInv, ToldOnce, Owed, Busy
<1> QED
  BY <1>1, <1>2, <1>3 DEF IInv

LEMMA ReadKeeps ==
    ASSUME Bounds, IInv, NEW k \in Tickers, ReadDue(k)
    PROVE  IInv'
<1>1. PICK to \in Ticks :
        /\ tick' = [tick EXCEPT ![k] = to] /\ to.pc = "deciding"
        /\ \A i \in 1 .. Len(to.list) :
              /\ row[to.list[i].reminder].status = "active"
              /\ to.list[i].fires = row[to.list[i].reminder].fires
        /\ \A i, j \in 1 .. Len(to.list) :
              to.list[i].reminder = to.list[j].reminder => i = j
  BY ReadTyped DEF IInv
<1>2. /\ Typed' /\ tick'[k] = to
      /\ \A j \in Tickers \ {k} : tick'[j] = tick[j]
  BY <1>1 DEF IInv, Typed, ReadDue
<1>3. UNCHANGED <<row, told>> /\ tick[k].pc = "waiting" /\ \A j \in Tickers : ~Busy(j)
  BY DEF ReadDue, Busy
<1>4. OneTick' /\ Lists'
  BY <1>1, <1>2, <1>3 DEF IInv, OneTick, Lists, Busy
<1>5. \A r \in Reminders : told[r] = 0 \/ row[r].status # "active"
  BY <1>3 DEF IInv, ToldOnce, Busy
<1>6. \A i \in 1 .. Len(to.list) : to.list[i].reminder \in Reminders
  BY OnAList
<1>7. ToldOnce' /\ Owed'
  BY <1>1, <1>2, <1>3, <1>5, <1>6 DEF IInv, ToldOnce, Owed, Busy
<1> QED
  BY <1>2, <1>4, <1>7 DEF IInv

LEMMA DispatchKeeps ==
    ASSUME IInv, NEW k \in Tickers, Dispatch(k)
    PROVE  IInv'
<1> DEFINE list == tick[k].list
           r == list[1].reminder
           to == [tick[k] EXCEPT !.pc = "recording"]
<1>1. tick[k] \in Ticks /\ list \in Seq(ReadRows) /\ list # <<>> /\ tick[k].pc = "deciding"
  BY DEF Dispatch, IInv, Typed, Ticks
<1>2. 1 \in 1 .. Len(list) /\ Head(list) = list[1]
  BY <1>1
<1>3. r \in Reminders
  BY <1>1, <1>2, OnAList
<1>4. told' = [told EXCEPT ![r] = @ + 1] /\ told[r] = 0 /\ UNCHANGED row
  BY <1>1, <1>2 DEF Dispatch, IInv, Owed, Busy
<1>5. /\ to \in Ticks /\ to.pc = "recording" /\ to.list = list
      /\ tick' = [tick EXCEPT ![k] = to]
  BY <1>1 DEF Dispatch, Ticks
<1> HIDE DEF to
<1>6. tick' \in [Tickers -> Ticks] /\ tick'[k] = to /\ \A j \in Tickers \ {k} : tick'[j] = tick[j]
  BY <1>5, TickTyped DEF IInv
<1>7. /\ told' \in [Reminders -> Nat]
      /\ \A q \in Reminders : told'[q] = IF q = r THEN 1 ELSE told[q]
  BY <1>3, <1>4 DEF IInv, Typed
<1>8. Typed'
  BY <1>4, <1>6, <1>7 DEF IInv, Typed
<1>9. OneTick' /\ Lists'
  BY <1>1, <1>5, <1>6 DEF IInv, OneTick, Lists, Busy
<1>10. ToldOnce'
  <2> SUFFICES ASSUME NEW q \in Reminders, told'[q] # 0
               PROVE  /\ told'[q] = 1
                      /\ \/ row[q].status \notin {"active", "absent"}
                         \/ \E j \in Tickers : tick'[j].pc = "recording" /\ tick'[j].list[1].reminder = q
    BY <1>4 DEF ToldOnce
  <2>1. CASE q = r
    BY <1>5, <1>6, <1>7, <2>1
  <2>2. CASE q # r
    <3>1. \A j \in Tickers : tick[j].pc = "recording" => j # k
      BY <1>1
    <3> QED
      BY <1>6, <1>7, <2>2, <3>1 DEF IInv, ToldOnce
  <2> QED
    BY <2>1, <2>2
<1>11. \A j \in Tickers : Busy(j)' => j = k
  BY <1>1, <1>5, <1>6 DEF IInv, OneTick, Busy
<1>12. Owed'
  <2>1. \A i \in 1 .. Len(list) : list[i].reminder \in Reminders
    BY <1>1, OnAList
  <2>2. \A i \in 1 .. Len(list) : list[i].reminder = r => i = 1
    BY <1>2 DEF IInv, Lists
  <2>3. \A i \in 1 .. Len(list) :
           /\ i = 1 \/ told'[list[i].reminder] = 0
           /\ row[list[i].reminder].status # "absent"
           /\ row[list[i].reminder].status = "active" => row[list[i].reminder].fires = list[i].fires
    BY <1>1, <1>7, <2>1, <2>2 DEF IInv, Owed, Busy
  <2>4. told'[r] = 1
    BY <1>3, <1>7
  <2> HIDE DEF list
  <2> QED
    BY <1>4, <1>5, <1>6, <1>11, <2>3, <2>4 DEF Owed
<1> QED
  BY <1>8, <1>9, <1>10, <1>12 DEF IInv

(* record_reminder_fire() and what follows it. *)
LEMMA RecordKeeps ==
    ASSUME Bounds, IInv, NEW k \in Tickers, Record(k)
    PROVE  /\ IInv'
           /\ \A q \in Reminders : row'[q].fires > row[q].fires => told[q] = 1
<1> DEFINE list == tick[k].list
           r == list[1].reminder
           onTime == row[r].status = "active" /\ row[r].fires = list[1].fires
           to == IF row[r].status = "deleted" THEN Idle
                 ELSE [tick[k] EXCEPT !.pc = "deciding", !.list = Tail(list)]
<1>1. /\ tick[k] \in Ticks /\ list \in Seq(ReadRows) /\ list # <<>>
      /\ tick[k].pc = "recording" /\ Busy(k)
  BY DEF Record, IInv, Typed, Ticks, Lists, Busy
<1>2. 1 \in 1 .. Len(list) /\ Head(list) = list[1] /\ Len(list) \in Nat
  BY <1>1
<1>3. \A i \in 1 .. Len(list) : list[i].reminder \in Reminders
  BY <1>1, OnAList
<1>4. r \in Reminders
  BY <1>2, <1>3
<1>5. /\ told[r] = 1
      /\ \A i \in 2 .. Len(list) : list[i].reminder # r /\ told[list[i].reminder] = 0
  BY <1>1, <1>2 DEF IInv, Owed, Lists, Busy
<1>6. IF onTime THEN Consume(r) ELSE UNCHANGED <<row, told>>
  BY <1>2 DEF Record
<1>7. onTime <=> row[r].status = "active"
  BY <1>1, <1>2 DEF IInv, Owed, Busy
<1>8. /\ row' \in [Reminders -> ReminderRows] /\ told' \in [Reminders -> Nat]
      /\ \A q \in Reminders \ {r} : row'[q] = row[q] /\ told'[q] = told[q]
      /\ \/ told'[r] = 0
         \/ told'[r] = 1 /\ row'[r] = row[r] /\ row[r].status # "active"
      /\ row'[r].status # "absent"
  <2>1. row[r].status # "absent"
    BY <1>1, <1>2 DEF IInv, Owed, Busy
  <2>2. CASE onTime
    BY <1>4, <1>6, <2>1, <2>2, ConsumeTyped DEF IInv, Typed
  <2>3. CASE ~onTime
    BY <1>4, <1>5, <1>6, <1>7, <2>1, <2>3 DEF IInv, Typed
  <2> QED
    BY <2>2, <2>3
<1>9. /\ tick' = [tick EXCEPT ![k] = to]
      /\ to \in Ticks /\ to.pc \in {"idle", "deciding"}
      /\ Len(to.list) \in Nat
      /\ \A i \in 1 .. Len(to.list) :
            i + 1 \in 2 .. Len(list) /\ to.list[i] = list[i + 1]
  <2>1. tick' = [tick EXCEPT ![k] = to]
    <3>1. Head(list).reminder = r
      BY <1>2
    <3>2. tick' = [tick EXCEPT ![k] =
                      IF row[Head(list).reminder].status = "deleted" THEN Idle
                      ELSE [tick[k] EXCEPT !.pc = "deciding", !.list = Tail(list)]]
      BY DEF Record
    <3> QED
      BY <3>1, <3>2
  <2>2. CASE row[r].status = "deleted"
    BY <2>1, <2>2 DEF Idle, Ticks
  <2>3. CASE row[r].status # "deleted"
    <3>1. /\ Tail(list) \in Seq(ReadRows) /\ Len(Tail(list)) = Len(list) - 1
          /\ \A i \in 1 .. Len(Tail(list)) : Tail(list)[i] = list[i + 1]
      BY <1>1
    <3>2. to \in Ticks /\ to.pc = "deciding" /\ to.list = Tail(list)
      BY <1>1, <2>3, <3>1 DEF Ticks
    <3> HIDE DEF to, list
    <3> QED
      BY <1>2, <2>1, <3>1, <3>2
  <2> QED
    BY <2>2, <2>3
<1> HIDE DEF to
<1>10. tick' \in [Tickers -> Ticks] /\ tick'[k] = to /\ \A j \in Tickers \ {k} : tick'[j] = tick[j]
  BY <1>9, TickTyped DEF IInv
<1>11. Typed'
  BY <1>8, <1>10 DEF Typed
<1>12. \A j \in Tickers : Busy(j)' => j = k
  BY <1>1, <1>10 DEF IInv, OneTick, Busy
<1>13. OneTick'
  BY <1>12 DEF OneTick
<1>14. \A j \in Tickers \ {k} : tick[j].pc # "recording"
  BY <1>1 DEF IInv, OneTick, Busy
<1>15. Lists'
  <2>1. \A i, j \in 1 .. Len(to.list) : to.list[i].reminder = to.list[j].reminder => i = j
    <3> SUFFICES ASSUME NEW i \in 1 .. Len(to.list), NEW j \in 1 .. Len(to.list),
                        to.list[i].reminder = to.list[j].reminder
                 PROVE  i = j
      OBVIOUS
    <3>1. \A m, n \in 1 .. Len(list) : list[m].reminder = list[n].reminder => m = n
      BY DEF IInv, Lists
    <3>2. i + 1 \in 1 .. Len(list) /\ j + 1 \in 1 .. Len(list)
      BY <1>2, <1>9
    <3>3. list[i + 1].reminder = list[j + 1].reminder
      BY <1>9
    <3>4. i + 1 = j + 1
      BY <3>1, <3>2, <3>3
    <3> QED
      BY <1>9, <3>4
  <2> QED
    BY <1>9, <1>10, <2>1 DEF IInv, Lists
<1>16. ToldOnce'
  <2> SUFFICES ASSUME NEW q \in Reminders, told'[q] # 0
               PROVE  told'[q] = 1 /\ row'[q].status \notin {"active", "absent"}
    BY DEF ToldOnce
  <2>1. CASE q = r
    BY <1>8, <2>1
  <2>2. CASE q # r
    <3>1. told[q] # 0 /\ row'[q] = row[q] /\ told'[q] = told[q]
      BY <1>8, <2>2
    <3> QED
      BY <1>14, <2>2, <3>1 DEF IInv, ToldOnce
  <2> QED
    BY <2>1, <2>2
<1>17. Owed'
  <2>1. \A i \in 2 .. Len(list) :
           /\ told'[list[i].reminder] = 0
           /\ row'[list[i].reminder].status # "absent"
           /\ row'[list[i].reminder].status = "active"
                 => row'[list[i].reminder].fires = list[i].fires
    <3> SUFFICES ASSUME NEW i \in 2 .. Len(list)
                 PROVE  /\ told'[list[i].reminder] = 0
                        /\ row'[list[i].reminder].status # "absent"
                        /\ row'[list[i].reminder].status = "active"
                              => row'[list[i].reminder].fires = list[i].fires
      OBVIOUS
    <3>1. i \in 1 .. Len(list) /\ list[i].reminder \in Reminders \ {r}
      BY <1>2, <1>3, <1>5
    <3>2. row'[list[i].reminder] = row[list[i].reminder] /\ told'[list[i].reminder] = 0
      BY <1>5, <1>8, <3>1
    <3>3. /\ row[list[i].reminder].status # "absent"
          /\ row[list[i].reminder].status = "active" => row[list[i].reminder].fires = list[i].fires
      BY <1>1, <3>1 DEF IInv, Owed
    <3> QED
      BY <3>2, <3>3
  <2> HIDE DEF list
  <2>2. \A i \in 1 .. Len(to.list) :
           /\ told'[to.list[i].reminder] = 0
           /\ row'[to.list[i].reminder].status # "absent"
           /\ row'[to.list[i].reminder].status = "active"
                 => row'[to.list[i].reminder].fires = to.list[i].fires
    BY <1>9, <2>1
  <2> QED
    BY <1>9, <1>10, <1>12, <2>2 DEF Owed
<1>18. \A q \in Reminders : row'[q].fires > row[q].fires => told[q] = 1
  <2> SUFFICES ASSUME NEW q \in Reminders, q # r
               PROVE  ~(row'[q].fires > row[q].fires)
    BY <1>5
  <2> QED
    BY <1>8 DEF IInv, Typed, ReminderRows
<1> QED
  BY <1>11, <1>13, <1>15, <1>16, <1>17, <1>18 DEF IInv

LEMMA CrashKeeps ==
    ASSUME IInv, Crash
    PROVE  IInv'
<1>1. Typed'
  <2>1. Idle \in Ticks
    BY DEF Idle, Ticks
  <2> QED
    BY <2>1 DEF Crash, IInv, Typed
<1>2. OneTick' /\ Lists' /\ ToldOnce' /\ Owed'
  BY DEF Crash, Idle, OneTick, Busy, Lists, ToldOnce, Owed
<1> QED
  BY <1>1, <1>2 DEF IInv

LEMMA StepKeeps ==
    ASSUME Bounds, IInv, [Next]_vars
    PROVE  /\ IInv'
           /\ \A r \in Reminders : row'[r].fires > row[r].fires => told[r] = 1
<1> DEFINE Used == \A r \in Reminders : row'[r].fires > row[r].fires => told[r] = 1
<1>1. ASSUME UNCHANGED row
      PROVE  Used
  BY <1>1 DEF IInv, Typed, ReminderRows
<1>2. ASSUME RowsStay
      PROVE  Used
  BY <1>2 DEF IInv, Typed, ReminderRows, RowsStay
<1>3. ASSUME UNCHANGED <<row, tick, told>>
      PROVE  IInv' /\ Used
  BY <1>1, <1>3 DEF IInv, Typed, OneTick, Busy, Lists, ToldOnce, Owed
<1>4. CASE \E r \in Reminders : Create(r) \/ Update(r) \/ Cancel(r) \/ Delete(r)
  <2>1. RowsStay /\ UNCHANGED <<tick, told>>
    BY <1>4, WritesStay DEF IInv
  <2>2. tick' \in [Tickers -> Ticks]
    BY <2>1 DEF IInv, Typed
  <2> QED
    BY <1>2, <2>1, <2>2, AsideKeeps
<1>5. CASE \E p \in Plans : StartPlan(p) \/ PlanEnds(p)
  BY <1>3, <1>5 DEF StartPlan, PlanEnds
<1>6. CASE SignalUserTaskStarted \/ SignalUserTaskEnded
  BY <1>3, <1>6 DEF SignalUserTaskStarted, SignalUserTaskEnded
<1>7. ASSUME NEW k \in Tickers, NEW b \in BOOLEAN, Begin(k, b) \/ Defer(k, b)
      PROVE  IInv' /\ Used
  <2> DEFINE begun == [Idle EXCEPT !.pc = "waiting", !.quiet = b]
  <2>1. Idle \in Ticks /\ Idle.pc = "idle" /\ Idle.list = <<>>
    BY DEF Idle, Ticks
  <2>2. PICK to \in {Idle, begun} : tick' = [tick EXCEPT ![k] = to]
    BY <1>7 DEF Begin, Defer
  <2>3. begun \in Ticks
    BY <2>1 DEF Ticks
  <2>4. begun.pc = "waiting" /\ begun.list = <<>>
    BY <2>1 DEF Ticks
  <2>5. to \in Ticks /\ to.pc \in {"idle", "waiting"} /\ to.list = <<>>
    <3> HIDE DEF begun
    <3> QED
      BY <2>1, <2>2, <2>3, <2>4
  <2>6. tick[k].pc # "recording" /\ UNCHANGED <<row, told>>
    BY <1>7 DEF Begin, Defer
  <2> QED
    BY <1>1, <2>2, <2>5, <2>6, IdleKeeps
<1>8. ASSUME NEW k \in Tickers, ReadDue(k)
      PROVE  IInv' /\ Used
  BY <1>1, <1>8, ReadKeeps DEF ReadDue
<1>9. ASSUME NEW k \in Tickers, Dispatch(k)
      PROVE  IInv' /\ Used
  BY <1>1, <1>9, DispatchKeeps DEF Dispatch
<1>10. ASSUME NEW k \in Tickers, Record(k)
       PROVE  IInv' /\ Used
  BY <1>10, RecordKeeps
<1>11. CASE Crash
  BY <1>1, <1>11, CrashKeeps DEF Crash
<1>12. CASE Clock
  <2>1. RowsStay /\ UNCHANGED told
    BY <1>12, ClockStays DEF IInv, Clock
  <2>2. \A k \in Tickers :
           tick'[k] \in Ticks /\ tick'[k].pc = tick[k].pc /\ tick'[k].list = tick[k].list
    <3> SUFFICES ASSUME NEW k \in Tickers
                 PROVE  tick'[k] \in Ticks /\ tick'[k].pc = tick[k].pc /\ tick'[k].list = tick[k].list
      OBVIOUS
    <3>1. tick'[k] = tick[k] \/ tick'[k] = [tick[k] EXCEPT !.age = @ + 1]
      BY <1>12 DEF Clock
    <3>2. tick[k] \in Ticks
      BY DEF IInv, Typed
    <3> QED
      BY <3>1, <3>2 DEF Ticks
  <2>3. tick' \in [Tickers -> Ticks]
    BY <1>12, <2>2 DEF Clock
  <2> QED
    BY <1>2, <2>1, <2>2, <2>3, AsideKeeps
<1>13. CASE UNCHANGED vars
  BY <1>3, <1>13 DEF vars, store
<1> QED
  BY <1>4, <1>5, <1>6, <1>7, <1>8, <1>9, <1>10, <1>11, <1>12, <1>13 DEF Next

(***************************************************************************)
(* However many ticks overlap, and whatever the user does in between, an   *)
(* occurrence of a reminder is dispatched at most once while the process   *)
(* lives (FiresAtMostOnce).                                                *)
(***************************************************************************)
THEOREM DispatchedOnce ==
    ASSUME Bounds
    PROVE  Spec => []FiresAtMostOnce
<1>1. IInv => FiresAtMostOnce
  BY DEF IInv, Typed, ToldOnce, FiresAtMostOnce
<1> QED
  BY <1>1, InitInv, StepKeeps, PTL DEF Spec

(***************************************************************************)
(* An occurrence that is used up was dispatched: what a policy defers, and *)
(* what an overlapping tick has read, stays due (NothingIsSkipped).        *)
(***************************************************************************)
THEOREM DeferredStaysDue ==
    ASSUME Bounds
    PROVE  Spec => NothingIsSkipped
<1>1. ASSUME IInv, [Next]_vars
      PROVE  [\A r \in DOMAIN row : row'[r].fires > row[r].fires => told[r] = 1]_vars
  <2>1. DOMAIN row = Reminders
    BY <1>1 DEF IInv, Typed
  <2> QED
    BY <1>1, <2>1, StepKeeps
<1> QED
  BY <1>1, InitInv, StepKeeps, PTL DEF Spec, NothingIsSkipped

-----------------------------------------------------------------------------
(***************************************************************************)
(* The scheduler has one token in hand.  UserComesFirst holds because one  *)
(* plan runs at a time, and that because the rate limit outlasts a plan:   *)
(* the latest dispatch is no older than any plan under way.                *)
(***************************************************************************)
Recent ==
    /\ last \in Nat \cup {None}
    /\ running \in [Plans -> 0 .. PlanTicks \cup {None}]
    /\ \A p \in Plans : running[p] # None =>
          /\ last # None /\ last <= running[p]
          /\ active = p

PlanInv == IInv /\ Recent /\ UserComesFirst

LEMMA TooSoon ==
    ASSUME Bounds, Recent, NEW age \in Nat, Elapsed(age)
    PROVE  \A p \in Plans : running[p] = None
BY DEF Bounds, Recent, Elapsed

LEMMA PlanStepKeeps ==
    ASSUME Bounds, PlanInv, [Next]_vars
    PROVE  PlanInv'
<1> SUFFICES Recent' /\ UserComesFirst'
  BY StepKeeps DEF PlanInv
<1>1. Recent /\ UserComesFirst /\ None \notin Nat \cup Plans /\ 0 \in 0 .. PlanTicks
  BY DEF PlanInv, Bounds
<1>2. CASE UNCHANGED <<last, userActive, running, active, preempted>>
  BY <1>1, <1>2 DEF Recent, UserComesFirst
<1>3. ASSUME NEW p \in Plans, StartPlan(p)
      PROVE  Recent' /\ UserComesFirst'
  <2>1. \A q \in Plans : running[q] = None
    BY <1>1, <1>3, TooSoon DEF StartPlan, Allowed
  <2> QED
    BY <1>1, <1>3, <2>1 DEF StartPlan, Allowed, Recent, UserComesFirst
<1>4. ASSUME NEW p \in Plans, PlanEnds(p)
      PROVE  Recent' /\ UserComesFirst'
  BY <1>1, <1>4 DEF PlanEnds, Recent, UserComesFirst
<1>5. CASE SignalUserTaskStarted
  BY <1>1, <1>5 DEF SignalUserTaskStarted, Recent, UserComesFirst
<1>6. CASE SignalUserTaskEnded
  BY <1>1, <1>6 DEF SignalUserTaskEnded, Recent, UserComesFirst
<1>7. ASSUME NEW k \in Tickers, Dispatch(k)
      PROVE  Recent' /\ UserComesFirst'
  <2>1. tick[k].age \in Nat
    BY DEF PlanInv, IInv, Typed, Ticks
  <2>2. \A q \in Plans : running[q] = None
    BY <1>1, <1>7, <2>1, TooSoon DEF Dispatch, Allowed
  <2> QED
    BY <1>1, <1>7, <2>1, <2>2 DEF Dispatch, Recent, UserComesFirst
<1>8. CASE Crash
  BY <1>1, <1>8 DEF Crash, Recent, UserComesFirst
<1>9. CASE Clock
  <2>1. ASSUME NEW p \in Plans, running[p] # None
        PROVE  /\ running'[p] = running[p] + 1 /\ running'[p] \in 0 .. PlanTicks
               /\ last # None /\ last' # None /\ last' <= running'[p] /\ active' = p
    <3>1. running[p] \in 0 .. PlanTicks /\ running[p] # PlanTicks /\ PlanTicks \in Nat
      BY <1>1, <1>9, <2>1 DEF Clock, Recent, Bounds
    <3>2. last \in Nat /\ last <= running[p] /\ active = p
      BY <1>1, <2>1 DEF Recent
    <3>3. running'[p] = running[p] + 1
      BY <1>9, <2>1 DEF Clock
    <3>4. last' = AtMost(Cooldown + TickSpan, last + 1) /\ active' = active
      BY <1>1, <1>9, <3>2 DEF Clock
    <3>5. last' \in Nat /\ last' <= last + 1
      BY <3>2, <3>4 DEF AtMost, Bounds
    <3> QED
      BY <1>1, <3>1, <3>2, <3>3, <3>4, <3>5
  <2>2. last' \in Nat \cup {None}
    BY <1>1, <1>9 DEF Clock, AtMost, Recent, Bounds
  <2>3. \A p \in Plans : running[p] = None => running'[p] = None
    BY <1>9 DEF Clock
  <2>4. running' \in [Plans -> 0 .. PlanTicks \cup {None}]
    BY <1>9, <2>1, <2>3 DEF Clock
  <2>5. userActive' = userActive /\ preempted' = preempted
    BY <1>9 DEF Clock
  <2> QED
    BY <1>1, <2>1, <2>2, <2>3, <2>4, <2>5 DEF Recent, UserComesFirst
<1> QED
  BY <1>2, <1>3, <1>4, <1>5, <1>6, <1>7, <1>8, <1>9
     DEF Next, vars, scheduler, Create, Update, Cancel, Delete, Write, Begin, ReadDue, Defer, Record

(***************************************************************************)
(* Once the user is active, every plan under way has been told to stop     *)
(* (UserComesFirst); it takes a rate limit longer than any plan.           *)
(***************************************************************************)
THEOREM PlansGiveWay ==
    ASSUME Bounds
    PROVE  Spec => []UserComesFirst
<1>1. Init => PlanInv
  <2>1. ASSUME Init
        PROVE  Recent /\ UserComesFirst
    BY <2>1 DEF Init, Recent, UserComesFirst
  <2> QED
    BY <2>1, InitInv DEF PlanInv
<1>2. PlanInv => UserComesFirst
  BY DEF PlanInv
<1> QED
  BY <1>1, <1>2, PlanStepKeeps, PTL DEF Spec
=============================================================================
