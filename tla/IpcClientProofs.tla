--------------------------- MODULE IpcClientProofs ---------------------------
(***************************************************************************)
(* For any set of requests, whichever of them are large or have oversized  *)
(* answers, and any number of attempts per burst: the ownership of the     *)
(* link, the receiver of those who wait, the quiet of a closed client and  *)
(* the refinement of AtMostOnceCall.                                       *)
(***************************************************************************)
EXTENDS IpcClient, SequenceTheorems, TLAPS

(***************************************************************************)
(* The types, without the injectivity of the queues, which rests on the    *)
(* histories below.                                                        *)
(***************************************************************************)
Typed ==
    /\ req \in [Request -> Status]
    /\ fut \in [Request -> {"unset", "result", "error"}]
    /\ pending \subseteq Request
    /\ lockq \in Seq(Request)
    /\ state \in ConnectionState /\ closed \in BOOLEAN
    /\ manager \in {"idle", "connecting"}
    /\ recv \in {"none", "reading", "closing"}
    /\ reconn \in {"none", "sleeping", "connecting", "resting"}
    /\ attempt \in 0..MaxAttempts
    /\ pipe \in {"none", "open", "dead"} /\ peer \in BOOLEAN
    /\ toEngine \in Seq(Request) /\ fromEngine \in Seq(Request)
    /\ engine \in {"up", "hung", "down"}
    /\ executed \in [Request -> Nat]

(***************************************************************************)
(* OneOwnerOfTheLink alone is not inductive: connect() looks at the state  *)
(* and not at the receive task, so a receive task must imply CONNECTED.    *)
(***************************************************************************)
Roles ==
    /\ OneOwnerOfTheLink
    /\ recv # "none" => state = "CONNECTED"
    /\ recv = "closing" => pipe = "none"
    /\ ClosedIsQuiet
    /\ closed => manager = "idle"

(***************************************************************************)
(* Whoever is in the queue for the write lock waits for it, and once.      *)
(***************************************************************************)
LockQueue ==
    /\ \A i \in DOMAIN lockq : req[lockq[i]] = "queued"
    /\ IsInjective(lockq)

(***************************************************************************)
(* A frame is in the pipe at most once, before it is executed; a response, *)
(* or a future that has one, says that its request was executed.           *)
(***************************************************************************)
Unwritten == {"new", "queued", "refused", "crashed"}

Frames ==
    /\ IsInjective(toEngine) /\ IsInjective(fromEngine)
    /\ \A i \in DOMAIN toEngine :
          executed[toEngine[i]] = 0 /\ req[toEngine[i]] \notin Unwritten
    /\ \A i \in DOMAIN fromEngine : executed[fromEngine[i]] = 1

Executions ==
    \A r \in Request :
        /\ executed[r] \in {0, 1}
        /\ req[r] \in Unwritten => executed[r] = 0
        /\ fut[r] = "result" => executed[r] = 1

IInv == Typed /\ Roles /\ LockQueue /\ WaitersHaveReceiver /\ Frames /\ Executions

-----------------------------------------------------------------------------
(***************************************************************************)
(* Facts about queues.                                                     *)
(***************************************************************************)
LEMMA TailOfQueue ==
    ASSUME NEW S, NEW q \in Seq(S), q # <<>>, IsInjective(q)
    PROVE  /\ Head(q) \in S /\ Head(q) = q[1] /\ 1 \in DOMAIN q
           /\ Tail(q) \in Seq(S) /\ IsInjective(Tail(q))
           /\ \A i \in DOMAIN Tail(q) :
                 i + 1 \in DOMAIN q /\ Tail(q)[i] = q[i + 1] /\ Tail(q)[i] # Head(q)
<1>1. /\ Len(q) \in Nat \ {0} /\ DOMAIN q = 1..Len(q)
      /\ Head(q) \in S /\ Head(q) = q[1]
      /\ Tail(q) \in Seq(S) /\ Len(Tail(q)) = Len(q) - 1
      /\ DOMAIN Tail(q) = 1..Len(Tail(q))
      /\ \A i \in 1..Len(Tail(q)) : Tail(q)[i] = q[i + 1]
  BY HeadTailProperties, LenProperties, EmptySeq
<1> QED BY <1>1 DEF IsInjective

LEMMA AppendToQueue ==
    ASSUME NEW S, NEW q \in Seq(S), NEW e \in S
    PROVE  /\ Append(q, e) \in Seq(S)
           /\ DOMAIN q = 1..Len(q) /\ Len(q) \in Nat
           /\ DOMAIN Append(q, e) = DOMAIN q \cup {Len(q) + 1}
           /\ \A i \in DOMAIN q : Append(q, e)[i] = q[i]
           /\ Append(q, e)[Len(q) + 1] = e
           /\ IsInjective(q) /\ (\A i \in DOMAIN q : q[i] # e) => IsInjective(Append(q, e))
<1>1. /\ Append(q, e) \in Seq(S) /\ Len(Append(q, e)) = Len(q) + 1
      /\ \A i \in 1..Len(q) : Append(q, e)[i] = q[i]
      /\ Append(q, e)[Len(q) + 1] = e
      /\ Len(q) \in Nat /\ DOMAIN q = 1..Len(q)
      /\ DOMAIN Append(q, e) = 1..(Len(q) + 1)
  BY AppendProperties, LenProperties
<1>2. DOMAIN Append(q, e) = DOMAIN q \cup {Len(q) + 1}
  BY <1>1
<1> QED BY <1>1, <1>2 DEF IsInjective

LEMMA PrefixOfQueue ==
    ASSUME NEW S, NEW q \in Seq(S), NEW p \in Prefixes(q)
    PROVE  /\ p \in Seq(S) /\ DOMAIN p \subseteq DOMAIN q
           /\ \A i \in DOMAIN p : p[i] = q[i]
           /\ IsInjective(q) => IsInjective(p)
<1>1. PICK n \in 0..Len(q) : p = SubSeq(q, 1, n)
  BY DEF Prefixes
<1>2. Len(q) \in Nat /\ DOMAIN q = 1..Len(q) /\ \A i \in 1..n : q[i] \in S
  BY LenProperties, ElementOfSeq
<1>3. /\ p \in Seq(S) /\ Len(p) = n
      /\ \A i \in 1..n : p[i] = q[i]
  BY <1>1, <1>2, SubSeqProperties
<1>4. DOMAIN p = 1..n
  BY <1>3, LenProperties
<1> QED BY <1>2, <1>3, <1>4 DEF IsInjective

LEMMA QueueWithout ==
    ASSUME NEW S, NEW q \in Seq(S), IsInjective(q), NEW k \in DOMAIN q
    PROVE  /\ RemoveAt(q, k) \in Seq(S) /\ IsInjective(RemoveAt(q, k))
           /\ \A i \in DOMAIN RemoveAt(q, k) :
                 \E j \in DOMAIN q : RemoveAt(q, k)[i] = q[j] /\ q[j] # q[k]
<1> DEFINE front == SubSeq(q, 1, k - 1)
           back == SubSeq(q, k + 1, Len(q))
<1>1. Len(q) \in Nat /\ DOMAIN q = 1..Len(q) /\ \A i \in 1..Len(q) : q[i] \in S
  BY LenProperties, ElementOfSeq
<1>2. /\ front \in Seq(S) /\ Len(front) = k - 1
      /\ \A i \in 1..(k - 1) : front[i] = q[i]
  BY <1>1, SubSeqProperties
<1>3. /\ back \in Seq(S) /\ Len(back) = Len(q) - k
      /\ \A i \in 1..(Len(q) - k) : back[i] = q[k + i]
  <2>1. \A i \in k + 1 .. Len(q) : q[i] \in S
    BY <1>1
  <2>2. /\ back \in Seq(S)
        /\ Len(back) = IF k + 1 <= Len(q) THEN Len(q) - (k + 1) + 1 ELSE 0
        /\ \A i \in 1 .. Len(q) - (k + 1) + 1 : back[i] = q[k + 1 + i - 1]
    BY <1>1, <2>1, SubSeqProperties
  <2>3. /\ k \in 1..Len(q) /\ Len(q) - (k + 1) + 1 = Len(q) - k
        /\ (IF k + 1 <= Len(q) THEN Len(q) - (k + 1) + 1 ELSE 0) = Len(q) - k
    BY <1>1
  <2>4. \A i \in 1 .. Len(q) - k : k + 1 + i - 1 = k + i
    BY <1>1
  <2> HIDE DEF back
  <2> QED BY <2>2, <2>3, <2>4
<1> DEFINE rest == front \o back
<1> HIDE DEF front, back
<1>4. /\ rest \in Seq(S) /\ Len(rest) = (k - 1) + (Len(q) - k)
      /\ \A i \in 1 .. (k - 1) + (Len(q) - k) :
            rest[i] = IF i <= k - 1 THEN front[i] ELSE back[i - (k - 1)]
  <2>1. /\ rest \in Seq(S) /\ Len(rest) = Len(front) + Len(back)
        /\ \A i \in 1 .. Len(front) + Len(back) :
              rest[i] = IF i <= Len(front) THEN front[i] ELSE back[i - Len(front)]
    BY <1>2, <1>3, ConcatProperties
  <2> HIDE DEF rest
  <2> QED BY <1>2, <1>3, <2>1
<1> HIDE DEF rest
<1>5. k \in 1..Len(q) /\ (k - 1) + (Len(q) - k) = Len(q) - 1
  BY <1>1
<1>6. ASSUME NEW i \in 1 .. Len(q) - 1
      PROVE  rest[i] = IF i < k THEN q[i] ELSE q[i + 1]
  <2>1. rest[i] = IF i <= k - 1 THEN front[i] ELSE back[i - (k - 1)]
    BY <1>4, <1>5
  <2>2. CASE i < k
    BY <1>1, <1>2, <1>5, <2>1, <2>2
  <2>3. CASE ~(i < k)
    <3>1. ~(i <= k - 1) /\ i - (k - 1) \in 1 .. Len(q) - k /\ k + (i - (k - 1)) = i + 1
      BY <1>1, <1>5, <2>3
    <3> QED BY <1>3, <2>1, <2>3, <3>1
  <2> QED BY <2>2, <2>3
<1>7. DOMAIN rest = 1 .. Len(q) - 1
  BY <1>4, <1>5, LenProperties
<1>8. RemoveAt(q, k) = rest
  BY DEF RemoveAt, rest, front, back
<1>9. ASSUME NEW i \in 1 .. Len(q) - 1
      PROVE  \E j \in DOMAIN q : rest[i] = q[j] /\ q[j] # q[k]
  <2>1. CASE i < k
    <3>1. i \in DOMAIN q /\ i # k
      BY <1>1, <1>5, <2>1
    <3> QED BY <1>6, <2>1, <3>1 DEF IsInjective
  <2>2. CASE ~(i < k)
    <3>1. i + 1 \in DOMAIN q /\ i + 1 # k
      BY <1>1, <1>5, <2>2
    <3> QED BY <1>6, <2>2, <3>1 DEF IsInjective
  <2> QED BY <2>1, <2>2
<1>10. ASSUME NEW a \in 1 .. Len(q) - 1, NEW b \in 1 .. Len(q) - 1, rest[a] = rest[b]
       PROVE  a = b
  <2> DEFINE at(i) == IF i < k THEN i ELSE i + 1
  <2>1. at(a) \in DOMAIN q /\ at(b) \in DOMAIN q /\ q[at(a)] = q[at(b)]
    BY <1>1, <1>5, <1>6, <1>10
  <2>2. at(a) = at(b)
    BY <2>1 DEF IsInjective
  <2> QED BY <1>1, <1>5, <2>2
<1> QED BY <1>4, <1>7, <1>8, <1>9, <1>10 DEF IsInjective

-----------------------------------------------------------------------------
(***************************************************************************)
(* The invariant holds initially, and each of its parts in every step.     *)
(***************************************************************************)
LEMMA InitInv == Init => IInv
<1> SUFFICES ASSUME Init PROVE IInv
  OBVIOUS
<1>1. Typed
  <2>1. <<>> \in Seq(Request) /\ 0 \in 0..MaxAttempts /\ "new" \in Status
    BY IpcAssumption, EmptySeq DEF Status
  <2> QED BY <2>1 DEF Init, Typed, ConnectionState
<1>2. Roles /\ WaitersHaveReceiver
  BY DEF Init, Roles, OneOwnerOfTheLink, ClosedIsQuiet, WaitersHaveReceiver, InFlight, Writing
<1>3. DOMAIN <<>> = {} /\ IsInjective(<<>>)
  BY DEF IsInjective
<1>4. LockQueue /\ Frames /\ Executions
  BY <1>3 DEF Init, LockQueue, Frames, Executions
<1> QED BY <1>1, <1>2, <1>4 DEF IInv

LEMMA StepTyped ==
    ASSUME IInv, [Next]_vars
    PROVE  Typed'
<1> USE DEF IInv, Typed
<1> USE DEF ConnectionState
<1>1. ASSUME NEW r \in Request, Caller(r)
      PROVE  Typed'
  <2> DEFINE Becomes(s) == req' = [req EXCEPT ![r] = s]
  <2>0. /\ \A s \in Status : Becomes(s) => req' \in [Request -> Status]
        /\ {"queued", "draining", "awaiting"} \subseteq Status
        /\ {"answered", "timeout", "cancelled", "lost", "refused", "crashed"} \subseteq Status
    BY DEF Status, InFlight, Writing, Ended
  <2>1. Append(toEngine, r) \in Seq(Request) /\ Append(lockq, r) \in Seq(Request)
    BY AppendProperties
  <2>2. lockq # <<>> => Tail(lockq) \in Seq(Request)
    BY HeadTailProperties
  <2>3. \A i \in DOMAIN lockq : RemoveAt(lockq, i) \in Seq(Request)
    BY QueueWithout DEF LockQueue
  <2>4. CASE Refuse(r) \/ Drained(r) \/ DrainFails(r)
    BY <2>0, <2>4 DEF Refuse, Drained, DrainFails, EndCall, client, link, calls, world
  <2>5. CASE Send(r)
    <3>1. req' \in [Request -> Status] /\ toEngine' \in Seq(Request)
      BY <2>0, <2>1, <2>5 DEF Send, Put
    <3>2. lockq' \in Seq(Request) /\ pending' \subseteq Request
      BY <2>1, <2>5 DEF Send
    <3>3. UNCHANGED <<client, fut, pipe, peer, fromEngine, world>>
      BY <2>5 DEF Send
    <3> QED BY <3>1, <3>2, <3>3 DEF client, world
  <2>6. CASE LockGranted(r)
    <3>1. /\ req' \in [Request -> Status] /\ toEngine' \in Seq(Request)
          /\ pending' \subseteq Request
      BY <2>0, <2>1, <2>6 DEF LockGranted, Put, EndCall
    <3> QED BY <2>2, <2>6, <3>1 DEF LockGranted, client, world
  <2>7. CASE Answered(r) \/ Lost(r) \/ TimesOut(r) \/ CancelAwaiting(r)
    <3>1. PICK s \in {"answered", "lost", "timeout", "cancelled"} : EndCall(r, s)
      BY <2>7 DEF Answered, Lost, TimesOut, CancelAwaiting
    <3>2. UNCHANGED <<client, link, fut, lockq, world>>
      BY <2>7 DEF Answered, Lost, TimesOut, CancelAwaiting
    <3> QED BY <2>0, <3>1, <3>2 DEF EndCall, client, link, world
  <2>8. CASE CancelWriting(r)
    BY <2>0, <2>3, <2>8 DEF CancelWriting, client, link, world
  <2> QED BY <1>1, <2>4, <2>5, <2>6, <2>7, <2>8 DEF Caller
<1>2. CASE ReceiveLoop
  <2>1. fromEngine # <<>> => Tail(fromEngine) \in Seq(Request)
    BY HeadTailProperties
  <2>2. /\ \A r : Resolve(r) \in [Request -> {"unset", "result", "error"}]
        /\ \A f \in [Request -> {"unset", "result", "error"}] :
              FailPending(f) \in [Request -> {"unset", "result", "error"}]
    BY DEF Resolve, FailPending
  <2>3. CASE Receive
    BY <2>1, <2>2, <2>3 DEF Receive, client, world
  <2>4. CASE ReceiveLast
    BY <2>1, <2>2, <2>4 DEF ReceiveLast, world
  <2>5. CASE ReceiveFails
    <3>1. <<>> \in Seq(Request)
      BY EmptySeq
    <3> QED BY <2>2, <2>5, <3>1 DEF ReceiveFails, CloseLink, world
  <2>6. CASE StartReconnecting
    BY <2>6, IpcAssumption DEF StartReconnecting, link, calls, world
  <2> QED BY <1>2, <2>3, <2>4, <2>5, <2>6 DEF ReceiveLoop
<1>3. CASE ReconnectLoop \/ LifecycleManager
  <2>1. FailPending(fut) \in [Request -> {"unset", "result", "error"}]
    BY DEF FailPending
  <2>2. CASE ReconnectLoop
    <3>1. <<>> \in Seq(Request) /\ MaxAttempts \in Nat \ {0}
      BY IpcAssumption, EmptySeq
    <3>2. CASE Reconnected
      BY <3>1, <3>2 DEF Reconnected, OpenLink, calls, world
    <3>3. CASE Attempt \/ AttemptFails \/ NextBurst
      BY <3>1, <3>3 DEF Attempt, AttemptFails, NextBurst, link, calls, world
    <3> QED BY <2>2, <3>2, <3>3 DEF ReconnectLoop
  <2>3. CASE Connect \/ Connected \/ ConnectFails
    BY <2>3, EmptySeq DEF Connect, Connected, ConnectFails, OpenLink, link, calls, world
  <2>4. CASE Close
    BY <2>1, <2>4, EmptySeq DEF Close, CloseLink, world
  <2> QED BY <1>3, <2>2, <2>3, <2>4 DEF LifecycleManager
<1>4. CASE Engine
  <2>1. CASE Serve
    <3>1. /\ Tail(toEngine) \in Seq(Request) /\ Head(toEngine) \in Request
          /\ Append(fromEngine, Head(toEngine)) \in Seq(Request)
      BY <2>1, HeadTailProperties, AppendProperties DEF Serve
    <3> QED BY <2>1, <3>1 DEF Serve, client, calls
  <2>2. CASE DropConnection
    <3>1. fromEngine' \in Seq(Request)
      BY <2>2, PrefixOfQueue DEF DropConnection
    <3> QED BY <2>2, <3>1, EmptySeq DEF DropConnection, client, calls
  <2>3. CASE WriterFails \/ EngineStarts \/ EngineHangs
    BY <2>3 DEF WriterFails, EngineStarts, EngineHangs, client, link, calls, world
  <2> QED BY <1>4, <2>1, <2>2, <2>3 DEF Engine
<1>5. CASE UNCHANGED vars
  BY <1>5 DEF vars, client, link, calls, world
<1> QED BY <1>1, <1>2, <1>3, <1>4, <1>5 DEF Next

LEMMA StepRoles ==
    ASSUME IInv, [Next]_vars
    PROVE  Roles'
<1> USE DEF IInv, Roles, OneOwnerOfTheLink, ClosedIsQuiet
<1>1. ASSUME NEW r \in Request, Caller(r)
      PROVE  Roles'
  <2>1. CASE Send(r)
    BY <2>1 DEF Send, IsConnected, Put, client, world
  <2>2. CASE LockGranted(r)
    BY <2>2 DEF LockGranted, Put, EndCall, client, world
  <2>3. CASE Refuse(r) \/ Drained(r) \/ DrainFails(r) \/ CancelWriting(r)
    BY <2>3 DEF Refuse, Drained, DrainFails, CancelWriting, EndCall, client, link, calls, world
  <2>4. CASE Answered(r) \/ Lost(r) \/ TimesOut(r) \/ CancelAwaiting(r)
    BY <2>4 DEF Answered, Lost, TimesOut, CancelAwaiting, EndCall, client, link, world
  <2> QED BY <1>1, <2>1, <2>2, <2>3, <2>4 DEF Caller
<1>2. CASE ReceiveLoop
  BY <1>2
  DEF ReceiveLoop, Receive, ReceiveLast, ReceiveFails, StartReconnecting, CloseLink,
      client, link, calls, world
<1>3. CASE ReconnectLoop
  BY <1>3
  DEF ReconnectLoop, Attempt, Reconnected, AttemptFails, NextBurst, OpenLink,
      Typed, link, calls, world
<1>4. CASE LifecycleManager
  BY <1>4
  DEF LifecycleManager, Connect, Connected, ConnectFails, Close, OpenLink, CloseLink,
      Typed, link, calls, world
<1>5. CASE Engine \/ UNCHANGED vars
  BY <1>5
  DEF Engine, Serve, DropConnection, WriterFails, EngineStarts, EngineHangs, vars,
      client, link, calls, world
<1> QED BY <1>1, <1>2, <1>3, <1>4, <1>5 DEF Next
LEMMA StepWaiters ==
    ASSUME IInv, [Next]_vars
    PROVE  LockQueue' /\ WaitersHaveReceiver'
<1> USE DEF IInv, InFlight, Writing
<1>0. ASSUME UNCHANGED <<req, lockq>>
      PROVE  LockQueue'
  BY <1>0 DEF LockQueue
<1>1. ASSUME NEW r \in Request, Caller(r)
      PROVE  LockQueue' /\ WaitersHaveReceiver'
  <2> USE DEF Typed, LockQueue, WaitersHaveReceiver
  <2>1. CASE Refuse(r) \/ Drained(r) \/ DrainFails(r)
    BY <2>1 DEF Refuse, Drained, DrainFails, EndCall, client, link, calls, world
  <2>2. CASE Send(r)
    <3>1. recv = "reading"
      BY <2>2 DEF Send, IsConnected, Roles
    <3>2. /\ pending' = pending \cup {r}
          /\ UNCHANGED <<client, fut>>
          /\ \E s \in Status : req' = [req EXCEPT ![r] = s]
      BY <2>2 DEF Send, Put, Status
    <3>3. WaitersHaveReceiver'
      BY <3>1, <3>2 DEF client
    <3>4. LockQueue'
      <4>1. \A i \in DOMAIN lockq : lockq[i] # r
        BY <2>2 DEF Send
      <4>2. CASE UNCHANGED lockq
        BY <3>2, <4>1, <4>2
      <4>3. CASE req' = [req EXCEPT ![r] = "queued"] /\ lockq' = Append(lockq, r)
        <5>1. /\ DOMAIN lockq' = DOMAIN lockq \cup {Len(lockq) + 1}
              /\ \A i \in DOMAIN lockq : lockq'[i] = lockq[i]
              /\ lockq'[Len(lockq) + 1] = r
              /\ IsInjective(lockq')
          BY <4>1, <4>3, AppendToQueue
        <5> QED BY <4>1, <4>3, <5>1
      <4> QED BY <2>2, <4>2, <4>3 DEF Send
    <3> QED BY <3>3, <3>4
  <2>3. CASE LockGranted(r)
    <3>1. /\ lockq # <<>> /\ r = Head(lockq) /\ lockq' = Tail(lockq)
          /\ UNCHANGED <<client, fut>>
          /\ \/ UNCHANGED pending
             \/ pending' = pending \ {r} /\ req'[r] \notin InFlight
          /\ \E s \in Status : req' = [req EXCEPT ![r] = s]
      BY <2>3 DEF LockGranted, Put, EndCall, Status, Ended
    <3>2. /\ r = lockq[1] /\ 1 \in DOMAIN lockq /\ IsInjective(lockq')
          /\ \A i \in DOMAIN lockq' :
                i + 1 \in DOMAIN lockq /\ lockq'[i] = lockq[i + 1] /\ lockq'[i] # r
      BY <3>1, TailOfQueue
    <3>3. req[r] = "queued"
      BY <3>2
    <3>4. LockQueue'
      BY <3>1, <3>2
    <3>5. WaitersHaveReceiver'
      BY <3>1, <3>3 DEF client
    <3> QED BY <3>4, <3>5
  <2>4. CASE Answered(r) \/ Lost(r) \/ TimesOut(r) \/ CancelAwaiting(r)
    <3>1. PICK s \in {"answered", "lost", "timeout", "cancelled"} : EndCall(r, s)
      BY <2>4 DEF Answered, Lost, TimesOut, CancelAwaiting
    <3>2. req[r] = "awaiting" /\ UNCHANGED <<client, link, fut, lockq, world>>
      BY <2>4 DEF Answered, Lost, TimesOut, CancelAwaiting
    <3> QED BY <3>1, <3>2 DEF EndCall, client
  <2>5. CASE CancelWriting(r)
    <3>1. /\ req' = [req EXCEPT ![r] = "cancelled"]
          /\ UNCHANGED <<client, fut, pending>>
      BY <2>5 DEF CancelWriting
    <3>2. WaitersHaveReceiver'
      BY <3>1 DEF client
    <3>3. CASE req[r] = "queued"
      <4>1. PICK k \in DOMAIN lockq : lockq[k] = r /\ lockq' = RemoveAt(lockq, k)
        BY <2>5, <3>3 DEF CancelWriting
      <4>2. /\ IsInjective(lockq')
            /\ \A i \in DOMAIN lockq' :
                  \E j \in DOMAIN lockq : lockq'[i] = lockq[j] /\ lockq[j] # r
        BY <4>1, QueueWithout
      <4> QED BY <3>1, <3>2, <4>2
    <3>4. CASE req[r] # "queued"
      BY <2>5, <3>1, <3>2, <3>4 DEF CancelWriting
    <3> QED BY <3>3, <3>4
  <2> QED BY <1>1, <2>1, <2>2, <2>3, <2>4, <2>5 DEF Caller
<1>2. CASE ReceiveLoop
  <2>1. UNCHANGED <<req, lockq>>
    BY <1>2 DEF ReceiveLoop, Receive, ReceiveLast, ReceiveFails, StartReconnecting, calls
  <2>2. WaitersHaveReceiver'
    <3> USE DEF Typed, WaitersHaveReceiver
    <3>1. CASE Receive
      <4>1. \A q \in Request : fut'[q] = "unset" => fut[q] = "unset"
        BY <3>1, HeadTailProperties DEF Receive, Resolve
      <4> QED BY <3>1, <4>1 DEF Receive, client
    <3>2. CASE ReceiveLast
      <4>1. \A q \in pending : fut'[q] # "unset"
        BY <3>2 DEF ReceiveLast, FailPending
      <4>2. \A q \in Request : fut'[q] = "unset" => fut[q] = "unset"
        BY <3>2, HeadTailProperties DEF ReceiveLast, FailPending, Resolve
      <4> QED BY <2>1, <4>1, <4>2
    <3>3. CASE ReceiveFails
      BY <2>1, <3>3 DEF ReceiveFails, FailPending
    <3>4. CASE StartReconnecting
      BY <3>4 DEF StartReconnecting, calls
    <3> QED BY <1>2, <3>1, <3>2, <3>3, <3>4 DEF ReceiveLoop
  <2> QED BY <1>0, <2>1, <2>2
<1>3. CASE ReconnectLoop \/ LifecycleManager
  <2>1. UNCHANGED <<req, lockq>>
    BY <1>3
    DEF ReconnectLoop, Attempt, Reconnected, AttemptFails, NextBurst,
        LifecycleManager, Connect, Connected, ConnectFails, Close, calls
  <2>2. CASE Close
    <3>1. WaitersHaveReceiver'
      BY <2>2 DEF Close, FailPending, Typed, WaitersHaveReceiver
    <3> QED BY <1>0, <2>1, <3>1
  <2>3. CASE ~Close
    <3>1. UNCHANGED <<fut, pending>> /\ (recv' = recv \/ recv' = "reading")
      BY <1>3, <2>3
      DEF ReconnectLoop, Attempt, Reconnected, AttemptFails, NextBurst,
          LifecycleManager, Connect, Connected, ConnectFails, calls
    <3> QED BY <1>0, <2>1, <3>1 DEF WaitersHaveReceiver
  <2> QED BY <2>2, <2>3
<1>4. CASE Engine \/ UNCHANGED vars
  <2>1. UNCHANGED <<client, calls>>
    BY <1>4
    DEF Engine, Serve, DropConnection, WriterFails, EngineStarts, EngineHangs, vars
  <2> QED BY <1>0, <2>1 DEF client, calls, WaitersHaveReceiver
<1> QED BY <1>1, <1>2, <1>3, <1>4 DEF Next
(***************************************************************************)
(* What a step of r's own call does to the frames: it never takes back     *)
(* that it was written, and writes at most once.                           *)
(***************************************************************************)
CallStep(r) ==
    /\ \E s \in Status : /\ req' = [req EXCEPT ![r] = s]
                         /\ s \in Unwritten => req[r] \in Unwritten
    /\ UNCHANGED <<fut, fromEngine, executed>>
    /\ \/ UNCHANGED toEngine
       \/ /\ req[r] \in Unwritten /\ req'[r] \notin Unwritten
          /\ toEngine' = Append(toEngine, r)

LEMMA CallersStep ==
    ASSUME IInv, NEW r \in Request, Caller(r)
    PROVE  CallStep(r)
<1> USE DEF IInv, Typed, CallStep, Unwritten
<1>1. {"queued", "draining", "awaiting", "answered", "timeout", "cancelled", "lost",
        "refused", "crashed"} \subseteq Status
  BY DEF Status, InFlight, Writing, Ended
<1>2. CASE Refuse(r) \/ Drained(r) \/ DrainFails(r)
  BY <1>1, <1>2 DEF Refuse, Drained, DrainFails, EndCall, link, world
<1>3. ASSUME Put(r), req[r] \in {"new", "queued"}, UNCHANGED <<fut, fromEngine, executed>>
      PROVE  CallStep(r)
  <2>1. PICK s \in {"awaiting", "draining"} : req' = [req EXCEPT ![r] = s]
    BY <1>3 DEF Put
  <2>2. req'[r] = s
    BY <2>1
  <2> QED BY <1>1, <1>3, <2>1, <2>2 DEF Put
<1>4. CASE Send(r)
  <2>1. req[r] = "new" /\ UNCHANGED <<fut, fromEngine, executed>>
    BY <1>4 DEF Send, world
  <2>2. CASE Put(r)
    BY <1>3, <2>1, <2>2
  <2>3. CASE ~Put(r)
    BY <1>1, <1>4, <2>1, <2>3 DEF Send
  <2> QED BY <2>2, <2>3
<1>5. CASE LockGranted(r)
  <2>1. req[r] = "queued"
    BY <1>5, TailOfQueue DEF LockGranted, LockQueue
  <2>2. UNCHANGED <<fut, fromEngine, executed>>
    BY <1>5 DEF LockGranted, world
  <2>3. CASE Put(r)
    BY <1>3, <2>1, <2>2, <2>3
  <2>4. CASE ~Put(r)
    BY <1>1, <1>5, <2>1, <2>2, <2>4 DEF LockGranted, EndCall
  <2> QED BY <2>3, <2>4
<1>6. CASE Answered(r) \/ Lost(r) \/ TimesOut(r) \/ CancelAwaiting(r)
  <2>1. PICK s \in {"answered", "lost", "timeout", "cancelled"} : EndCall(r, s)
    BY <1>6 DEF Answered, Lost, TimesOut, CancelAwaiting
  <2>2. UNCHANGED <<client, link, fut, lockq, world>>
    BY <1>6 DEF Answered, Lost, TimesOut, CancelAwaiting
  <2> QED BY <1>1, <2>1, <2>2 DEF EndCall, link, world
<1>7. CASE CancelWriting(r)
  BY <1>1, <1>7 DEF CancelWriting, link, world
<1> QED BY <1>2, <1>4, <1>5, <1>6, <1>7 DEF Caller

LEMMA CallersFrames ==
    ASSUME IInv, NEW r \in Request, CallStep(r)
    PROVE  Frames' /\ Executions'
<1> USE DEF IInv, Typed
<1>1. Executions'
  BY DEF CallStep, Executions, Unwritten
<1>2. \A q \in Request : req'[q] \in Unwritten => req[q] \in Unwritten
  BY DEF CallStep
<1>3. CASE UNCHANGED toEngine
  <2>1. \A i \in DOMAIN toEngine : toEngine[i] \in Request
    BY ElementOfSeq, LenProperties
  <2>2. Frames'
    BY <1>2, <1>3, <2>1 DEF CallStep, Frames
  <2> QED BY <1>1, <2>2
<1>4. CASE /\ req[r] \in Unwritten /\ req'[r] \notin Unwritten
           /\ toEngine' = Append(toEngine, r)
  <2>1. \A i \in DOMAIN toEngine : toEngine[i] \in Request /\ toEngine[i] # r
    BY <1>4, ElementOfSeq, LenProperties DEF Frames
  <2>2. /\ DOMAIN toEngine' = DOMAIN toEngine \cup {Len(toEngine) + 1}
        /\ \A i \in DOMAIN toEngine : toEngine'[i] = toEngine[i]
        /\ toEngine'[Len(toEngine) + 1] = r
        /\ IsInjective(toEngine')
    BY <1>4, <2>1, AppendToQueue DEF Frames
  <2>3. executed[r] = 0
    BY <1>4 DEF Executions
  <2>4. Frames'
    BY <1>2, <1>4, <2>1, <2>2, <2>3 DEF CallStep, Frames
  <2> QED BY <1>1, <2>4
<1> QED BY <1>3, <1>4 DEF CallStep

LEMMA ServeFrames ==
    ASSUME IInv, Serve
    PROVE  Frames' /\ Executions'
<1> USE DEF IInv, Typed, Frames, Executions
<1> DEFINE r == Head(toEngine)
<1>1. /\ toEngine # <<>> /\ toEngine' = Tail(toEngine)
      /\ fromEngine' = Append(fromEngine, r)
      /\ executed' = [executed EXCEPT ![r] = @ + 1]
      /\ UNCHANGED <<req, fut>>
  BY DEF Serve, calls
<1>2. /\ r \in Request /\ r = toEngine[1] /\ 1 \in DOMAIN toEngine
      /\ IsInjective(toEngine')
      /\ \A i \in DOMAIN toEngine' :
            i + 1 \in DOMAIN toEngine /\ toEngine'[i] = toEngine[i + 1] /\ toEngine'[i] # r
  BY <1>1, TailOfQueue
<1> HIDE DEF r
<1>3. executed[r] = 0 /\ req[r] \notin Unwritten
  BY <1>2
<1>4. \A q \in Request : executed'[q] = IF q = r THEN 1 ELSE executed[q]
  BY <1>1, <1>2, <1>3
<1>5. Executions'
  BY <1>1, <1>3, <1>4
<1>6. \A i \in DOMAIN fromEngine : fromEngine[i] \in Request /\ fromEngine[i] # r
  BY <1>3, ElementOfSeq, LenProperties
<1>7. /\ DOMAIN fromEngine' = DOMAIN fromEngine \cup {Len(fromEngine) + 1}
      /\ \A i \in DOMAIN fromEngine : fromEngine'[i] = fromEngine[i]
      /\ fromEngine'[Len(fromEngine) + 1] = r
      /\ IsInjective(fromEngine')
  BY <1>1, <1>2, <1>6, AppendToQueue
<1>8. \A i \in DOMAIN toEngine' : toEngine'[i] \in Request
  BY <1>2, ElementOfSeq, LenProperties
<1>9. Frames'
  BY <1>1, <1>2, <1>4, <1>6, <1>7, <1>8
<1> QED BY <1>5, <1>9

LEMMA StepFrames ==
    ASSUME IInv, [Next]_vars
    PROVE  Frames' /\ Executions'
<1> USE DEF IInv, Typed
<1>1. CASE \E r \in Request : Caller(r)
  BY <1>1, CallersStep, CallersFrames
<1>2. DOMAIN <<>> = {} /\ IsInjective(<<>>)
  BY DEF IsInjective
<1>3. ASSUME UNCHANGED <<req, executed>>,
             fut' = fut \/ \A q \in Request : fut'[q] = "result" => executed[q] = 1,
             toEngine' = toEngine \/ toEngine' = <<>>,
             \/ fromEngine' = fromEngine
             \/ fromEngine # <<>> /\ fromEngine' = Tail(fromEngine)
             \/ fromEngine' \in Prefixes(fromEngine)
             \/ fromEngine' = <<>>
      PROVE  Frames' /\ Executions'
  <2>1. Executions'
    BY <1>3 DEF Executions
  <2>2. IsInjective(fromEngine') /\ \A i \in DOMAIN fromEngine' : executed[fromEngine'[i]] = 1
    <3>1. CASE fromEngine # <<>> /\ fromEngine' = Tail(fromEngine)
      BY <3>1, TailOfQueue DEF Frames
    <3>2. CASE fromEngine' \in Prefixes(fromEngine)
      BY <3>2, PrefixOfQueue DEF Frames
    <3> QED BY <1>2, <1>3, <3>1, <3>2 DEF Frames
  <2> QED BY <1>2, <1>3, <2>1, <2>2 DEF Frames
<1>4. CASE ReceiveLoop
  <2>1. ASSUME fromEngine # <<>>
        PROVE  \A q \in Request : Resolve(Head(fromEngine))[q] = "result" => executed[q] = 1
    BY <2>1, TailOfQueue DEF Resolve, Frames, Executions
  <2>2. ASSUME NEW f, \A q \in Request : f[q] = "result" => executed[q] = 1
        PROVE  \A q \in Request : FailPending(f)[q] = "result" => executed[q] = 1
    BY <2>2 DEF FailPending
  <2>3. CASE Receive
    BY <1>3, <2>1, <2>3 DEF Receive, world
  <2>4. CASE ReceiveLast
    BY <1>3, <2>1, <2>2, <2>4 DEF ReceiveLast, world
  <2>5. CASE ReceiveFails
    BY <1>3, <2>2, <2>5 DEF ReceiveFails, CloseLink, Executions, world
  <2>6. CASE StartReconnecting
    BY <1>3, <2>6 DEF StartReconnecting, link, calls, world
  <2> QED BY <1>4, <2>3, <2>4, <2>5, <2>6 DEF ReceiveLoop
<1>5. CASE ReconnectLoop
  BY <1>3, <1>5
  DEF ReconnectLoop, Attempt, Reconnected, AttemptFails, NextBurst, OpenLink,
      link, calls, world
<1>6. CASE Connect \/ Connected \/ ConnectFails
  BY <1>3, <1>6 DEF Connect, Connected, ConnectFails, OpenLink, link, calls, world
<1>7. CASE Close
  <2>1. \A q \in Request : fut'[q] = "result" => executed[q] = 1
    BY <1>7 DEF Close, FailPending, Executions
  <2> QED BY <1>3, <1>7, <2>1 DEF Close, CloseLink, world
<1>8. CASE Serve
  BY <1>8, ServeFrames
<1>9. CASE DropConnection \/ WriterFails \/ EngineStarts \/ EngineHangs \/ UNCHANGED vars
  BY <1>3, <1>9
  DEF DropConnection, WriterFails, EngineStarts, EngineHangs, vars, link, calls, world
<1> QED BY <1>1, <1>4, <1>5, <1>6, <1>7, <1>8, <1>9 DEF Next, LifecycleManager, Engine

LEMMA Inductive == Spec => []IInv
<1>1. IInv /\ [Next]_vars => IInv'
  <2> SUFFICES ASSUME IInv, [Next]_vars PROVE IInv'
    OBVIOUS
  <2> QED BY StepTyped, StepRoles, StepWaiters, StepFrames DEF IInv
<1> QED BY <1>1, InitInv, PTL DEF Spec

-----------------------------------------------------------------------------
(***************************************************************************)
(* Every variable keeps its type; in particular no call is twice in the    *)
(* queue for the write lock (asyncio.Lock), no frame twice in the pipe.    *)
(***************************************************************************)
THEOREM TypeCorrect == Spec => []TypeOK
<1>1. IInv => TypeOK
  BY DEF IInv, Typed, TypeOK, FrameQueue, LockQueue, Frames
<1> QED BY <1>1, Inductive, PTL

(***************************************************************************)
(* _receive_loop, _reconnect_loop and connect() never own the link at the  *)
(* same time.                                                              *)
(***************************************************************************)
THEOREM LinkHasOneOwner == Spec => []OneOwnerOfTheLink
<1>1. IInv => OneOwnerOfTheLink
  BY DEF IInv, Roles
<1> QED BY <1>1, Inductive, PTL

(***************************************************************************)
(* Whoever waits in request() is in _pending and _receive_loop is reading. *)
(***************************************************************************)
THEOREM NobodyWaitsInVain == Spec => []WaitersHaveReceiver
<1>1. IInv => WaitersHaveReceiver
  BY DEF IInv
<1> QED BY <1>1, Inductive, PTL

(***************************************************************************)
(* After close() no task, pending request or transport is left.            *)
(***************************************************************************)
THEOREM CloseIsFinal == Spec => []ClosedIsQuiet
<1>1. IInv => ClosedIsQuiet
  BY DEF IInv, Roles
<1> QED BY <1>1, Inductive, PTL

-----------------------------------------------------------------------------
(***************************************************************************)
(* Each step of the client and the engine is one of AtMostOnceCall for one *)
(* request, or changes neither its calls nor their executions.             *)
(***************************************************************************)
LEMMA CallCases ==
    /\ CallOf("new") = "idle"
    /\ \A s \in InFlight : CallOf(s) = "open"
    /\ CallOf("answered") = "done"
    /\ \A s \in {"refused", "crashed"} : CallOf(s) = "unsent"
    /\ \A s \in {"timeout", "cancelled", "lost"} : CallOf(s) = "failed"
BY DEF CallOf, InFlight, Writing
LEMMA CallChange ==
    ASSUME Typed, NEW r \in Request, NEW s \in Status, req' = [req EXCEPT ![r] = s]
    PROVE  /\ Calls[r] = CallOf(req[r])
           /\ Calls' = [Calls EXCEPT ![r] = CallOf(s)]
           /\ CallOf(req[r]) = CallOf(s) => UNCHANGED Calls
BY DEF Calls, Typed

CallerStep(r) ==
    \/ UNCHANGED Calls
    \/ Promise!Refuse(r) \/ Promise!Open(r) \/ Promise!Withdraw(r)
    \/ Promise!Succeed(r) \/ Promise!Fail(r)

LEMMA CallerRefines ==
    ASSUME IInv, NEW r \in Request, Caller(r)
    PROVE  CallerStep(r) /\ UNCHANGED executed
<1> USE DEF IInv
<1>0. UNCHANGED executed
  BY CallersStep DEF CallStep
<1> SUFFICES CallerStep(r)
  BY <1>0
<1>1. {"queued", "draining", "awaiting"} = InFlight /\ "new" \notin InFlight
  BY DEF InFlight, Writing
<1>2. InFlight \cup {"answered", "timeout", "cancelled", "lost", "refused", "crashed"}
        \subseteq Status
  BY DEF Status, Ended
<1>3. ASSUME req[r] \in InFlight, NEW s \in {"timeout", "cancelled", "lost"},
             req' = [req EXCEPT ![r] = s]
      PROVE  CallerStep(r)
  <2>1. CallOf(req[r]) = "open" /\ CallOf(s) = "failed" /\ s \in Status
    BY <1>2, <1>3, CallCases
  <2>2. Calls[r] = "open" /\ Calls' = [Calls EXCEPT ![r] = "failed"]
    BY <1>3, <2>1, CallChange
  <2> QED BY <1>0, <2>2 DEF CallerStep, Promise!Fail
<1>4. ASSUME req[r] \in InFlight, NEW s \in InFlight, req' = [req EXCEPT ![r] = s]
      PROVE  CallerStep(r)
  <2>1. CallOf(req[r]) = "open" /\ CallOf(s) = "open" /\ s \in Status
    BY <1>2, <1>4, CallCases
  <2> QED BY <1>4, <2>1, CallChange DEF CallerStep
<1>5. ASSUME req[r] = "new", NEW s \in InFlight, req' = [req EXCEPT ![r] = s]
      PROVE  CallerStep(r)
  <2>0. CallOf(req[r]) = "idle" /\ CallOf(s) = "open" /\ s \in Status
    BY <1>2, <1>5, CallCases
  <2>1. Calls[r] = "idle" /\ Calls' = [Calls EXCEPT ![r] = "open"]
    BY <1>5, <2>0, CallChange
  <2> QED BY <1>0, <2>1 DEF CallerStep, Promise!Open
<1>6. CASE Refuse(r)
  <2>1. req[r] = "new" /\ req' = [req EXCEPT ![r] = "refused"]
    BY <1>6 DEF Refuse
  <2>2. CallOf(req[r]) = "idle" /\ CallOf("refused") = "unsent" /\ "refused" \in Status
    BY <1>2, <2>1, CallCases
  <2>3. Calls[r] = "idle" /\ Calls' = [Calls EXCEPT ![r] = "unsent"]
    BY <2>1, <2>2, CallChange
  <2> QED BY <1>0, <2>3 DEF CallerStep, Promise!Refuse
<1>7. CASE Send(r)
  BY <1>1, <1>5, <1>7 DEF Send, Put
<1>8. CASE LockGranted(r)
  <2>1. req[r] = "queued" /\ executed[r] = 0
    BY <1>8, TailOfQueue DEF LockGranted, LockQueue, Typed, Executions, Unwritten
  <2>2. CASE Put(r)
    BY <1>1, <1>4, <2>1, <2>2 DEF Put
  <2>3. CASE EndCall(r, "lost")
    BY <1>1, <1>3, <2>1, <2>3 DEF EndCall
  <2>4. CASE EndCall(r, "crashed")
    <3>1. CallOf(req[r]) = "open" /\ CallOf("crashed") = "unsent" /\ "crashed" \in Status
      BY <1>1, <1>2, <2>1, CallCases
    <3>2. req' = [req EXCEPT ![r] = "crashed"]
      BY <2>4 DEF EndCall
    <3>3. Calls[r] = "open" /\ Calls' = [Calls EXCEPT ![r] = "unsent"]
      BY <3>1, <3>2, CallChange
    <3> QED BY <1>0, <2>1, <3>3 DEF CallerStep, Promise!Withdraw
  <2> QED BY <1>8, <2>2, <2>3, <2>4 DEF LockGranted
<1>9. CASE Drained(r) \/ DrainFails(r)
  BY <1>1, <1>3, <1>4, <1>9 DEF Drained, DrainFails, EndCall
<1>10. CASE Answered(r)
  <2>1. req[r] = "awaiting" /\ executed[r] = 1 /\ req' = [req EXCEPT ![r] = "answered"]
    BY <1>10 DEF Answered, EndCall, Executions
  <2>2. CallOf(req[r]) = "open" /\ CallOf("answered") = "done" /\ "answered" \in Status
    BY <1>1, <1>2, <2>1, CallCases
  <2>3. Calls[r] = "open" /\ Calls' = [Calls EXCEPT ![r] = "done"]
    BY <2>1, <2>2, CallChange
  <2> QED BY <1>0, <2>1, <2>3 DEF CallerStep, Promise!Succeed
<1>11. CASE Lost(r) \/ TimesOut(r) \/ CancelAwaiting(r)
  BY <1>1, <1>3, <1>11 DEF Lost, TimesOut, CancelAwaiting, EndCall
<1>12. CASE CancelWriting(r)
  BY <1>1, <1>3, <1>12 DEF CancelWriting, Writing
<1> QED
  BY <1>6, <1>7, <1>8, <1>9, <1>10, <1>11, <1>12 DEF Caller

LEMMA ServeRefines ==
    ASSUME IInv, Serve
    PROVE  \E r \in Request : Promise!Execute(r)
<1> USE DEF IInv, Typed
<1> DEFINE r == Head(toEngine)
<1>1. /\ toEngine # <<>> /\ executed' = [executed EXCEPT ![r] = @ + 1]
      /\ UNCHANGED req
  BY DEF Serve, calls
<1>2. r \in Request /\ r = toEngine[1] /\ 1 \in DOMAIN toEngine
  BY <1>1, TailOfQueue DEF Frames
<1> HIDE DEF r
<1>3. executed[r] = 0 /\ req[r] \notin Unwritten
  BY <1>2 DEF Frames
<1>4. Calls[r] = CallOf(req[r]) /\ UNCHANGED Calls
  BY <1>1, <1>2 DEF Calls
<1>5. Calls[r] \notin {"idle", "unsent"}
  BY <1>2, <1>3, <1>4, CallCases DEF Unwritten, Status, Ended
<1>6. executed' = [executed EXCEPT ![r] = 1]
  BY <1>1, <1>2, <1>3
<1> QED BY <1>2, <1>3, <1>4, <1>5, <1>6 DEF Promise!Execute

LEMMA NextRefines == IInv /\ [Next]_vars => [Promise!Next]_(Promise!vars)
<1> SUFFICES ASSUME IInv, [Next]_vars PROVE [Promise!Next]_(Promise!vars)
  OBVIOUS
<1>1. CASE \E r \in Request : Caller(r)
  BY <1>1, CallerRefines DEF CallerStep, Promise!Next, Promise!vars
<1>2. CASE Serve
  BY <1>2, ServeRefines DEF Promise!Next
<1>3. ASSUME UNCHANGED <<req, executed>>
      PROVE  [Promise!Next]_(Promise!vars)
  BY <1>3 DEF Calls, Promise!vars
<1>4. CASE ReceiveLoop \/ ReconnectLoop \/ LifecycleManager
  BY <1>3, <1>4
  DEF ReceiveLoop, Receive, ReceiveLast, ReceiveFails, StartReconnecting,
      ReconnectLoop, Attempt, Reconnected, AttemptFails, NextBurst,
      LifecycleManager, Connect, Connected, ConnectFails, Close, calls, world
<1>5. CASE DropConnection \/ WriterFails \/ EngineStarts \/ EngineHangs \/ UNCHANGED vars
  BY <1>3, <1>5
  DEF DropConnection, WriterFails, EngineStarts, EngineHangs, vars, calls, world
<1> QED BY <1>1, <1>2, <1>4, <1>5 DEF Next, Engine

(***************************************************************************)
(* Whatever the connection does, request() is an at-most-once call: a      *)
(* reconnect repeats nothing, an answer is its own request's, and what was *)
(* refused was never executed.                                             *)
(***************************************************************************)
THEOREM Refinement == Spec => ImplementsAtMostOnceCall
<1>1. Init => Promise!Init
  BY CallCases DEF Init, Promise!Init, Calls
<1> QED BY <1>1, NextRefines, Inductive, PTL DEF Spec, ImplementsAtMostOnceCall, Promise!Spec
=============================================================================
