------------------------------ MODULE IpcClient ------------------------------
(***************************************************************************)
(* The client end of the named pipe to the Rust engine: the request table, *)
(* the receive loop and the reconnect loop of src/python/tom/ipc/client.py *)
(* over the transport of src/python/tom/ipc/transport.py, used by          *)
(* src/python/tom/core/lifecycle.py, against the connection handler of     *)
(* src/rust/tom-engine/src/ipc/server.rs.                                  *)
(*                                                                         *)
(* A step is what the asyncio loop runs between two suspension points.     *)
(* A request is written once and has a fresh id, so requests stand for     *)
(* their ids.  A response is abstracted to the id it answers: an error     *)
(* response is an answer.  _recently_done is left out: it only chooses the *)
(* wording of a warning about a response nobody waits for.                 *)
(*                                                                         *)
(* An operator named X_<fault> is X with a plausible programming error.    *)
(***************************************************************************)
EXTENDS Integers, Sequences, SequencesExt

CONSTANTS
    Request,        \* the calls of request(), each with an id of its own
    Large,          \* requests above the writer's high-water mark: drain() may wait
    Oversized,      \* requests whose response exceeds MAX_FRAME_BYTES
    MaxAttempts,    \* max_reconnect_attempts, per burst
    MayHang         \* TRUE: the engine may stop reading its pipe without closing it

ASSUME IpcAssumption ==
    /\ Large \subseteq Request /\ Oversized \subseteq Request
    /\ MaxAttempts \in Nat \ {0}
    /\ MayHang \in BOOLEAN

VARIABLES
    req,        \* how far each request() call has come, see Status
    fut,        \* the future of each request: "unset", "result", "error"
    pending,    \* the keys of _pending
    lockq,      \* the calls that wait for the transport's _write_lock, in order
    state,      \* ConnectionState
    closed,     \* _closed
    manager,    \* whether the lifecycle manager is inside connect()
    recv,       \* the receive task: "none" (also done), "reading", "closing"
    reconn,     \* the reconnect task: "none", "sleeping", "connecting", "resting"
    attempt,    \* attempts made in the current burst
    pipe,       \* the writer: "none", "open", "dead" (closing, or a write has failed)
    peer,       \* the engine still has its end of the pipe open
    toEngine,   \* frames written and not yet dispatched
    fromEngine, \* responses not yet read
    engine,     \* "up", "hung", "down"
    executed    \* history: how often the engine has dispatched each request

client  == <<state, closed, manager, recv, reconn, attempt>>
link    == <<pipe, peer, toEngine, fromEngine>>
calls   == <<req, fut, pending, lockq>>
world   == <<engine, executed>>
vars    == <<client, link, calls, world>>

(***************************************************************************)
(* "queued"    waits for the write lock       "draining" waits in drain()  *)
(* "awaiting"  waits for its future           "answered" response, or error*)
(* "timeout", "cancelled", "lost"             ended without one            *)
(* "refused"   NotConnectedError before anything was registered            *)
(* "crashed"   the writer was gone when the lock came: AttributeError      *)
(***************************************************************************)
Writing  == {"queued", "draining"}
InFlight == Writing \cup {"awaiting"}
Ended    == {"answered", "timeout", "cancelled", "lost", "refused", "crashed"}
Status   == {"new"} \cup InFlight \cup Ended

ConnectionState == {"DISCONNECTED", "CONNECTING", "CONNECTED", "RECONNECTING", "CLOSED"}

FrameQueue == {s \in Seq(Request) : IsInjective(s)}

TypeOK ==
    /\ req \in [Request -> Status]
    /\ fut \in [Request -> {"unset", "result", "error"}]
    /\ pending \subseteq Request
    /\ lockq \in FrameQueue
    /\ state \in ConnectionState /\ closed \in BOOLEAN
    /\ manager \in {"idle", "connecting"}
    /\ recv \in {"none", "reading", "closing"}
    /\ reconn \in {"none", "sleeping", "connecting", "resting"}
    /\ attempt \in 0..MaxAttempts
    /\ pipe \in {"none", "open", "dead"} /\ peer \in BOOLEAN
    /\ toEngine \in FrameQueue /\ fromEngine \in FrameQueue
    /\ engine \in {"up", "hung", "down"}
    /\ executed \in [Request -> Nat]

IsConnected_IgnoresReceiver == state = "CONNECTED" /\ ~closed /\ pipe # "none"

IsConnected == state = "CONNECTED" /\ ~closed /\ pipe = "open" /\ recv # "none"

Draining == {r \in Request : req[r] = "draining"}

Init ==
    /\ req = [r \in Request |-> "new"]
    /\ fut = [r \in Request |-> "unset"]
    /\ pending = {} /\ lockq = <<>>
    /\ state = "DISCONNECTED" /\ closed = FALSE
    /\ manager = "idle" /\ recv = "none" /\ reconn = "none" /\ attempt = 0
    /\ pipe = "none" /\ peer = FALSE
    /\ toEngine = <<>> /\ fromEngine = <<>>
    /\ engine \in {"up", "down"}
    /\ executed = [r \in Request |-> 0]

-----------------------------------------------------------------------------
(***************************************************************************)
(* The transport.  A new connection starts with empty buffers.  Closing    *)
(* the writer ends the drains that wait on it, and the loop runs what they *)
(* wake before a backoff delay is over, so none is left by then.           *)
(***************************************************************************)
OpenLink ==
    /\ Draining = {} /\ lockq = <<>>
    /\ engine # "down"
    /\ pipe' = "open" /\ peer' = TRUE
    /\ toEngine' = <<>> /\ fromEngine' = <<>>

\* Frames still in it are dropped: whether the engine gets to execute them makes
\* no difference to callers that are being told the connection is lost.
CloseLink ==
    /\ pipe' = "none" /\ peer' = FALSE
    /\ toEngine' = <<>> /\ fromEngine' = <<>>

\* write_frame with the write lock in hand: r's frame goes into the writer's
\* buffer, and r may have to wait for the engine to read it.
Put(r) ==
    /\ pipe = "open"
    /\ toEngine' = IF peer THEN Append(toEngine, r) ELSE toEngine
    /\ \/ req' = [req EXCEPT ![r] = "awaiting"]
       \/ r \in Large /\ req' = [req EXCEPT ![r] = "draining"]

-----------------------------------------------------------------------------
(***************************************************************************)
(* request()                                                               *)
(***************************************************************************)
Refuse(r) ==
    /\ req[r] = "new"
    /\ ~IsConnected
    /\ req' = [req EXCEPT ![r] = "refused"]
    /\ UNCHANGED <<client, link, fut, pending, lockq, world>>

Send(r) ==
    /\ req[r] = "new"
    /\ IsConnected
    /\ pending' = pending \cup {r}
    /\ IF Draining = {} /\ lockq = <<>>
       THEN Put(r) /\ UNCHANGED lockq
       ELSE /\ req' = [req EXCEPT ![r] = "queued"]
            /\ lockq' = Append(lockq, r)
            /\ UNCHANGED toEngine
    /\ UNCHANGED <<client, fut, pipe, peer, fromEngine, world>>

\* An exception of request() takes the request off the table.
EndCall(r, outcome) ==
    /\ req' = [req EXCEPT ![r] = outcome]
    /\ pending' = pending \ {r}

LockGranted(r) ==
    /\ Draining = {}
    /\ lockq # <<>> /\ r = Head(lockq)
    /\ lockq' = Tail(lockq)
    /\ \/ Put(r) /\ UNCHANGED pending
       \/ pipe = "dead" /\ EndCall(r, "lost") /\ UNCHANGED toEngine
       \/ pipe = "none" /\ EndCall(r, "crashed") /\ UNCHANGED toEngine
    /\ UNCHANGED <<client, fut, pipe, peer, fromEngine, world>>

Drained(r) ==
    /\ req[r] = "draining"
    /\ pipe = "open"
    /\ r \notin Range(toEngine)
    /\ peer
    /\ req' = [req EXCEPT ![r] = "awaiting"]
    /\ UNCHANGED <<client, link, fut, pending, lockq, world>>

DrainFails(r) ==
    /\ req[r] = "draining"
    /\ pipe # "open"
    /\ EndCall(r, "lost")
    /\ UNCHANGED <<client, link, fut, lockq, world>>

Answered(r) ==
    /\ req[r] = "awaiting"
    /\ fut[r] = "result"
    /\ EndCall(r, "answered")
    /\ UNCHANGED <<client, link, fut, lockq, world>>

Lost(r) ==
    /\ req[r] = "awaiting"
    /\ fut[r] = "error"
    /\ EndCall(r, "lost")
    /\ UNCHANGED <<client, link, fut, lockq, world>>

\* wait_for's deadline, which may pass just as the future is resolved.
TimesOut(r) ==
    /\ req[r] = "awaiting"
    /\ EndCall(r, "timeout")
    /\ UNCHANGED <<client, link, fut, lockq, world>>

CancelAwaiting(r) ==
    /\ req[r] = "awaiting"
    /\ EndCall(r, "cancelled")
    /\ UNCHANGED <<client, link, fut, lockq, world>>

\* CancelledError inside write_frame passes by the "except Exception" that
\* takes a failed request off the table.
CancelWriting(r) ==
    /\ req[r] \in Writing
    /\ req' = [req EXCEPT ![r] = "cancelled"]
    /\ IF req[r] = "queued"
       THEN \E i \in DOMAIN lockq : lockq[i] = r /\ lockq' = RemoveAt(lockq, i)
       ELSE UNCHANGED lockq
    /\ UNCHANGED <<client, link, fut, pending, world>>

-----------------------------------------------------------------------------
(***************************************************************************)
(* The receive loop                                                        *)
(***************************************************************************)
(* _fail_pending, on the futures f.                                        *)
FailPending(f) ==
    [r \in Request |-> IF r \in pending /\ f[r] = "unset" THEN "error" ELSE f[r]]

Resolve_AnyPending(r) ==
    [q \in Request |->
        IF r # q /\ q \in pending /\ fut[q] = "unset" THEN "result" ELSE fut[q]]

Resolve(r) ==
    IF r \in pending /\ fut[r] = "unset" THEN [fut EXCEPT ![r] = "result"] ELSE fut

\* A response is read and matched to its future; then the loop looks at the
\* transport again.
Receive ==
    /\ recv = "reading"
    /\ fromEngine # <<>> /\ Head(fromEngine) \notin Oversized
    /\ fromEngine' = Tail(fromEngine)
    /\ pipe = "open"
    /\ fut' = Resolve(Head(fromEngine))
    /\ UNCHANGED <<client, pipe, peer, toEngine, req, pending, lockq, world>>

\* The writer died while the response was on its way to the loop, which ends
\* without an error, and so without reconnecting.
ReceiveLast ==
    /\ recv = "reading"
    /\ fromEngine # <<>> /\ Head(fromEngine) \notin Oversized
    /\ fromEngine' = Tail(fromEngine)
    /\ pipe = "dead"
    /\ fut' = FailPending(Resolve(Head(fromEngine)))
    /\ pending' = {}
    /\ recv' = "none"
    /\ UNCHANGED <<state, closed, manager, reconn, attempt,
                   pipe, peer, toEngine, req, lockq, world>>

\* End of file, a reset, or a frame that is too large: fail everybody and
\* start closing the transport.
ReceiveFails ==
    /\ recv = "reading"
    /\ \/ fromEngine = <<>> /\ (~peer \/ pipe = "dead")
       \/ fromEngine # <<>> /\ Head(fromEngine) \in Oversized
    /\ recv' = "closing"
    /\ CloseLink
    /\ fut' = FailPending(fut)
    /\ pending' = {}
    /\ UNCHANGED <<state, closed, manager, reconn, attempt, req, lockq, world>>

StartReconnecting_NoTask ==
    /\ recv = "closing"
    /\ recv' = "none"
    /\ state' = "RECONNECTING"
    /\ UNCHANGED <<closed, manager, reconn, attempt, link, calls, world>>

StartReconnecting ==
    /\ recv = "closing"
    /\ recv' = "none"
    /\ state' = "RECONNECTING"
    /\ reconn' = "sleeping"
    /\ attempt' = 1
    /\ UNCHANGED <<closed, manager, link, calls, world>>

-----------------------------------------------------------------------------
(***************************************************************************)
(* The reconnect loop: bursts of MaxAttempts attempts with a rest between  *)
(***************************************************************************)
Attempt ==
    /\ reconn = "sleeping"
    /\ reconn' = "connecting"
    /\ UNCHANGED <<state, closed, manager, recv, attempt, link, calls, world>>

Reconnected ==
    /\ reconn = "connecting"
    /\ OpenLink
    /\ reconn' = "none"
    /\ recv' = "reading"
    /\ state' = "CONNECTED"
    /\ UNCHANGED <<closed, manager, attempt, calls, world>>

AttemptFails ==
    /\ reconn = "connecting"
    /\ IF attempt < MaxAttempts
       THEN /\ attempt' = attempt + 1
            /\ reconn' = "sleeping"
            /\ UNCHANGED state
       ELSE /\ reconn' = "resting"
            /\ state' = "DISCONNECTED"
            /\ UNCHANGED attempt
    /\ UNCHANGED <<closed, manager, recv, link, calls, world>>

NextBurst ==
    /\ reconn = "resting"
    /\ attempt' = 1
    /\ reconn' = "sleeping"
    /\ UNCHANGED <<state, closed, manager, recv, link, calls, world>>

-----------------------------------------------------------------------------
(***************************************************************************)
(* connect() and close(), called by the lifecycle manager, never two at a  *)
(* time.  A task that is cancelled takes no other step than to end, and    *)
(* nothing else the client runs depends on when, so it ends at once.       *)
(***************************************************************************)
Connect_KeepsReconnecting ==
    /\ manager = "idle"
    /\ state # "CONNECTED"
    /\ closed' = FALSE
    /\ state' = "CONNECTING"
    /\ manager' = "connecting"
    /\ UNCHANGED <<recv, reconn, attempt, link, calls, world>>

Connect ==
    /\ manager = "idle"
    /\ state # "CONNECTED"
    /\ closed' = FALSE
    /\ reconn' = "none"
    /\ state' = "CONNECTING"
    /\ manager' = "connecting"
    /\ UNCHANGED <<recv, attempt, link, calls, world>>

Connected ==
    /\ manager = "connecting"
    /\ OpenLink
    /\ manager' = "idle"
    /\ recv' = "reading"
    /\ state' = "CONNECTED"
    /\ UNCHANGED <<closed, reconn, attempt, calls, world>>

ConnectFails ==
    /\ manager = "connecting"
    /\ manager' = "idle"
    /\ state' = "DISCONNECTED"
    /\ UNCHANGED <<closed, recv, reconn, attempt, link, calls, world>>

Close ==
    /\ manager = "idle"
    /\ ~closed
    /\ closed' = TRUE
    /\ state' = "CLOSED"
    /\ reconn' = "none"
    /\ recv' = "none"
    /\ fut' = FailPending(fut)
    /\ pending' = {}
    /\ CloseLink
    /\ UNCHANGED <<manager, attempt, req, lockq, world>>

-----------------------------------------------------------------------------
(***************************************************************************)
(* The engine serves the frames of a connection one by one; it may crash,  *)
(* drop the connection, hang, and come back.  What it had sent may or may  *)
(* not arrive.                                                             *)
(***************************************************************************)

Serve ==
    /\ engine = "up" /\ peer
    /\ toEngine # <<>>
    /\ toEngine' = Tail(toEngine)
    /\ fromEngine' = Append(fromEngine, Head(toEngine))
    /\ executed' = [executed EXCEPT ![Head(toEngine)] = @ + 1]
    /\ UNCHANGED <<client, calls, pipe, peer, engine>>

DropConnection ==
    /\ peer
    /\ peer' = FALSE
    /\ toEngine' = <<>>
    /\ fromEngine' \in Prefixes(fromEngine)
    /\ engine' \in {engine, "down"}
    /\ UNCHANGED <<client, calls, pipe, executed>>

\* A write to the pipe fails after the engine has closed its end.
WriterFails ==
    /\ pipe = "open" /\ ~peer
    /\ pipe' = "dead"
    /\ UNCHANGED <<client, calls, peer, toEngine, fromEngine, world>>

EngineStarts ==
    /\ engine = "down"
    /\ engine' = "up"
    /\ UNCHANGED <<client, calls, link, executed>>

EngineHangs ==
    /\ MayHang
    /\ engine = "up"
    /\ engine' = "hung"
    /\ UNCHANGED <<client, calls, link, executed>>

-----------------------------------------------------------------------------
Caller(r) ==
    \/ Refuse(r) \/ Send(r) \/ LockGranted(r) \/ Drained(r) \/ DrainFails(r)
    \/ Answered(r) \/ Lost(r) \/ TimesOut(r) \/ CancelAwaiting(r) \/ CancelWriting(r)

ReceiveLoop == Receive \/ ReceiveLast \/ ReceiveFails \/ StartReconnecting

ReconnectLoop == Attempt \/ Reconnected \/ AttemptFails \/ NextBurst

LifecycleManager == Connect \/ Connected \/ ConnectFails \/ Close

Engine == Serve \/ DropConnection \/ WriterFails \/ EngineStarts \/ EngineHangs

Next ==
    (\E r \in Request : Caller(r)) \/ ReceiveLoop \/ ReconnectLoop \/ LifecycleManager \/ Engine

Spec == Init /\ [][Next]_vars

(***************************************************************************)
(* The loop runs what is ready, timers expire, an engine that is up reads  *)
(* its pipe, the system reports a broken pipe, and an attempt made over    *)
(* and over to reach a running engine succeeds.  Nobody has to connect,    *)
(* close, call or cancel.                                                  *)
(***************************************************************************)
Fairness ==
    /\ \A r \in Request :
          /\ WF_vars(LockGranted(r)) /\ WF_vars(Drained(r)) /\ WF_vars(DrainFails(r))
          /\ WF_vars(Answered(r)) /\ WF_vars(Lost(r)) /\ WF_vars(TimesOut(r))
    /\ WF_vars(ReceiveLoop)
    /\ WF_vars(Attempt) /\ WF_vars(NextBurst) /\ SF_vars(Reconnected)
    /\ WF_vars(Serve) /\ WF_vars(WriterFails)

FairSpec == Spec /\ Fairness

-----------------------------------------------------------------------------
(***************************************************************************)
(* At most one of the receive task, the reconnect task and connect() is    *)
(* alive at any time, so no connection is ever opened over a live one and  *)
(* never do two loops read the same stream.                                *)
(***************************************************************************)
OneOwnerOfTheLink ==
    /\ recv # "none" => reconn = "none" /\ manager = "idle"
    /\ reconn # "none" => manager = "idle"

(***************************************************************************)
(* Whoever still waits for an answer is in the table, and a receive loop   *)
(* that will find the answer, or fail the request, is reading: nobody      *)
(* waits for a response that cannot come until its timeout ends the wait.  *)
(***************************************************************************)
WaitersHaveReceiver ==
    \A r \in Request :
        req[r] \in InFlight /\ fut[r] = "unset" => r \in pending /\ recv = "reading"

(***************************************************************************)
(* A closed client is quiet: no task, no pending request, no transport.    *)
(* close() must win against a receive loop that is about to reconnect and  *)
(* against a reconnect loop in any of its waits.                           *)
(***************************************************************************)
ClosedIsQuiet ==
    closed => /\ state = "CLOSED"
              /\ recv = "none" /\ reconn = "none"
              /\ pipe = "none" /\ pending = {}

(***************************************************************************)
(* Every call ends (docstring of request(): "IpcTimeoutError: If response  *)
(* is not received within the timeout.").                                  *)
(***************************************************************************)
EveryCallEnds == \A r \in Request : req[r] \in InFlight ~> req[r] \in Ended

(***************************************************************************)
(* A client that has noticed the loss of its connection is not left        *)
(* without one for ever while the engine is up, however many bursts of     *)
(* attempts failed before.                                                 *)
(***************************************************************************)
KeepsReconnecting ==
    ~ <>[](engine = "up" /\ (state = "RECONNECTING" \/ reconn # "none"))

(***************************************************************************)
(* A client that was connected and has not been closed "eventually         *)
(* recovers when the engine becomes available" (docstring of               *)
(* _reconnect_loop).                                                       *)
(***************************************************************************)
RecoversWhenEngineIsUp ==
    ~ <>[](engine = "up" /\ state = "CONNECTED" /\ ~IsConnected)

(***************************************************************************)
(* _pending holds "requests currently awaiting responses" (docstring of    *)
(* pending_count) and nothing else, however a request ended.               *)
(***************************************************************************)
PendingIsInFlight == \A r \in pending : req[r] \in InFlight

(***************************************************************************)
(* A write fails as write_frame documents: NotConnectedError or            *)
(* ConnectionLostError, whatever happens while the call waits for the      *)
(* write lock.                                                             *)
(***************************************************************************)
FailsAsDocumented == \A r \in Request : req[r] # "crashed"

(***************************************************************************)
(* The client provides the calls of AtMostOnceCall: a reconnect never      *)
(* repeats a request, and an answer is only ever given to its own request. *)
(***************************************************************************)
CallOf(status) ==
    CASE status = "new" -> "idle"
      [] status \in InFlight -> "open"
      [] status = "answered" -> "done"
      [] status \in {"refused", "crashed"} -> "unsent"
      [] OTHER -> "failed"

Calls == [r \in Request |-> CallOf(req[r])]

Promise == INSTANCE AtMostOnceCall WITH call <- Calls

ImplementsAtMostOnceCall == Promise!Spec
=============================================================================
