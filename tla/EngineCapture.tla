---------------------------- MODULE EngineCapture ----------------------------
(***************************************************************************)
(* Capture in the engine (audio/manager.rs, audio/capture.rs,              *)
(* audio/buffer.rs): start_capture, stop_capture and get_speech against    *)
(* the chain of every session: device callback, raw channel, conversion    *)
(* task, channel, worker, and the one ring buffer all sessions share.      *)
(* Only how many frames are where is kept; a callback delivers one frame,  *)
(* a frame is one sample.                                                  *)
(***************************************************************************)
EXTENDS Naturals, FiniteSets

CONSTANTS Sessions,     \* requests to start, in the order they come
          NoSession,
          RawQueue,     \* capacity of the channel behind the callback (128)
          FrameQueue,   \* capacity of the channel to the worker (64)
          Capacity,     \* of the ring buffer (30 s)
          MaxFrames,    \* bound: frames of a session
          MaxStops      \* bound: requests to stop

VARIABLES
    held,       \* token, controller: the sessions whose token and stream the manager
                \* holds, each behind a lock of its own
    starts,     \* start_capture: where each request is
    stopping,   \* a stop_capture is between the two locks
    chain,      \* per session: see Idle
    buffer,     \* samples in the ring buffer
    books,      \* total_captured_samples, total_overrun_samples, and what get_speech took
    capStops

captureVars == <<held, starts, stopping, chain, buffer, books, capStops>>

(* device: the stream is open; sent: frames it has delivered; raw, frames:  *)
(* the channels; hand: what the conversion task waits to send; conv, work:  *)
(* the tasks run; counted: what the worker has counted and not yet pushed;  *)
(* guard: the task that waits for the token and does nothing.              *)
Idle == [device |-> FALSE, cancelled |-> FALSE, sent |-> 0, raw |-> 0, hand |-> 0,
         frames |-> 0, conv |-> FALSE, work |-> FALSE, counted |-> 0, guard |-> FALSE]

Init ==
    /\ held = [token |-> NoSession, controller |-> NoSession]
    /\ starts = [s \in Sessions |-> "idle"] /\ stopping = FALSE
    /\ chain = [s \in Sessions |-> Idle]
    /\ buffer = 0
    /\ books = [total |-> 0, overrun |-> 0, popped |-> 0]
    /\ capStops = 0

-----------------------------------------------------------------------------
(* The requests *)

(* stop_capture: the token is cancelled, and then the stream dropped. *)
TakeToken ==
    /\ held' = [held EXCEPT !.token = NoSession]
    /\ chain' = IF held.token = NoSession THEN chain
                ELSE [chain EXCEPT ![held.token].cancelled = TRUE]

Holds(s) ==
    /\ held' = [held EXCEPT !.controller = s]
    /\ chain' = IF held.controller \in {NoSession, s} THEN chain
                ELSE [chain EXCEPT ![held.controller].device = FALSE]

Goes(s, from, to) ==
    /\ starts[s] = from
    /\ starts' = [starts EXCEPT ![s] = to]
    /\ UNCHANGED <<stopping, capStops>>

Start(s) == Goes(s, "idle", "drop") /\ TakeToken /\ UNCHANGED <<buffer, books>>
Drops(s) == Goes(s, "drop", "clear") /\ Holds(NoSession) /\ UNCHANGED <<buffer, books>>

Clear(s) ==
    /\ Goes(s, "clear", "open")
    /\ buffer' = 0
    /\ books' = [total |-> 0, overrun |-> 0, popped |-> 0]
    /\ UNCHANGED <<held, chain>>

(* The conversion task ends at once if it can make no resampler. *)
Opened(s) ==
    /\ Goes(s, "open", "install")
    /\ \E works \in BOOLEAN :
          chain' = [chain EXCEPT ![s].device = TRUE, ![s].conv = works, ![s].guard = TRUE]
    /\ UNCHANGED <<held, buffer, books>>

OpenRefused(s) == Goes(s, "open", "failed") /\ UNCHANGED <<held, chain, buffer, books>>

(* The dispatcher has dropped the request: its thread opens the device      *)
(* nevertheless, and stream, channel and token are forgotten at once.      *)
OpenedForNobody(s) ==
    /\ Goes(s, "open", "failed")
    /\ \E works \in BOOLEAN : chain' = [chain EXCEPT ![s].conv = works, ![s].guard = TRUE]
    /\ UNCHANGED <<held, buffer, books>>

(* Nobody looks whether another request has started meanwhile: its token is *)
(* forgotten uncancelled, and then its stream dropped.                     *)
InstallToken(s) ==
    /\ Goes(s, "install", "hold")
    /\ held' = [held EXCEPT !.token = s]
    /\ chain' = [chain EXCEPT ![s].work = TRUE]
    /\ UNCHANGED <<buffer, books>>

Installed(s) == Goes(s, "hold", "started") /\ Holds(s) /\ UNCHANGED <<buffer, books>>

StopCapture ==
    /\ ~stopping /\ capStops < MaxStops
    /\ stopping' = TRUE /\ capStops' = capStops + 1
    /\ TakeToken
    /\ UNCHANGED <<starts, buffer, books>>

StopDrops ==
    /\ stopping /\ stopping' = FALSE
    /\ Holds(NoSession)
    /\ UNCHANGED <<starts, capStops, buffer, books>>

(* With clear; without it nothing changes. *)
GetSpeech ==
    /\ buffer > 0
    /\ buffer' = 0 /\ books' = [books EXCEPT !.popped = @ + buffer]
    /\ UNCHANGED <<held, starts, stopping, chain, capStops>>

-----------------------------------------------------------------------------
(* The chain of a session *)

Alive(s) == chain[s].conv /\ chain[s].hand = 0

(* try_send: a frame the conversion task has no room for is lost. *)
Callback(s) ==
    /\ chain[s].device /\ chain[s].sent < MaxFrames
    /\ chain' = [chain EXCEPT
                    ![s].sent = @ + 1,
                    ![s].raw = IF chain[s].conv /\ @ < RawQueue THEN @ + 1 ELSE @]
    /\ UNCHANGED <<held, starts, stopping, buffer, books, capStops>>

Convert(s) ==
    /\ Alive(s) /\ chain[s].raw > 0
    /\ chain' = [chain EXCEPT ![s].raw = @ - 1, ![s].hand = 1]
    /\ UNCHANGED <<held, starts, stopping, buffer, books, capStops>>

(* The task waits for room, deaf to its token meanwhile. *)
SendFrame(s) ==
    /\ chain[s].hand = 1 /\ chain[s].frames < FrameQueue
    /\ chain' = [chain EXCEPT ![s].frames = @ + 1, ![s].hand = 0]
    /\ UNCHANGED <<held, starts, stopping, buffer, books, capStops>>

(* Cancelled, or the stream is gone and its channel empty. *)
ConversionEnds(s) ==
    /\ Alive(s)
    /\ chain[s].cancelled \/ (~chain[s].device /\ chain[s].raw = 0)
    /\ chain' = [chain EXCEPT ![s].conv = FALSE, ![s].raw = 0]
    /\ UNCHANGED <<held, starts, stopping, buffer, books, capStops>>

Count(s) ==
    /\ chain[s].work /\ chain[s].counted = 0 /\ chain[s].frames > 0
    /\ chain' = [chain EXCEPT ![s].frames = @ - 1, ![s].counted = 1]
    /\ books' = [books EXCEPT !.total = @ + 1]
    /\ UNCHANGED <<held, starts, stopping, buffer, capStops>>

(* push_samples_with_overrun: the oldest make room. *)
Push(s) ==
    /\ chain[s].counted = 1
    /\ LET full == buffer = Capacity
       IN  /\ buffer' = IF full THEN buffer ELSE buffer + 1
           /\ books' = [books EXCEPT !.overrun = IF full THEN @ + 1 ELSE @]
    /\ chain' = [chain EXCEPT ![s].counted = 0]
    /\ UNCHANGED <<held, starts, stopping, capStops>>

WorkerEnds(s) ==
    /\ chain[s].work /\ chain[s].counted = 0 /\ chain[s].frames = 0 /\ ~chain[s].conv
    /\ chain' = [chain EXCEPT ![s].work = FALSE]
    /\ UNCHANGED <<held, starts, stopping, buffer, books, capStops>>

(* The supervisor of capture.rs: only a cancelled token ends it. *)
GuardEnds(s) ==
    /\ chain[s].guard /\ chain[s].cancelled
    /\ chain' = [chain EXCEPT ![s].guard = FALSE]
    /\ UNCHANGED <<held, starts, stopping, buffer, books, capStops>>

Next ==
    \/ StopCapture \/ StopDrops \/ GetSpeech
    \/ \E s \in Sessions :
          \/ Start(s) \/ Drops(s) \/ Clear(s) \/ Opened(s) \/ OpenRefused(s)
          \/ OpenedForNobody(s) \/ InstallToken(s) \/ Installed(s) \/ GuardEnds(s)
          \/ Callback(s) \/ Convert(s) \/ SendFrame(s) \/ ConversionEnds(s)
          \/ Count(s) \/ Push(s) \/ WorkerEnds(s)

(* A request that has begun goes on, and so do the tasks; nobody has to ask *)
(* or to speak.                                                            *)
Fairness ==
    /\ WF_captureVars(StopDrops)
    /\ \A s \in Sessions :
          /\ WF_captureVars(\/ Drops(s) \/ Clear(s) \/ Opened(s) \/ OpenRefused(s)
                            \/ OpenedForNobody(s) \/ InstallToken(s) \/ Installed(s))
          /\ WF_captureVars(Convert(s) \/ SendFrame(s) \/ ConversionEnds(s))
          /\ WF_captureVars(Count(s) \/ Push(s) \/ WorkerEnds(s))
          /\ WF_captureVars(GuardEnds(s))

-----------------------------------------------------------------------------
NotHeld == {s \in Sessions : s # held.controller /\ starts[s] \in {"started", "failed"}}

(* The conversion task and the worker of a session end once its stream is   *)
(* not held any more: it was stopped, its request had timed out, or a      *)
(* concurrent start_capture overwrote its token, or its stream, or both.   *)
(* The supervisor ends only where the token was cancelled: of a token that *)
(* was forgotten, by an overwriting request or a timeout, it stays.        *)
StoppedChainsEnd ==
    <>[](\A s \in NotHeld : /\ ~chain[s].conv /\ ~chain[s].work
                            /\ chain[s].cancelled => ~chain[s].guard)

(* No sample is unaccounted for while one session uses the buffer: counted  *)
(* is buffered, handed out, overrun, or in the worker's hand.              *)
BooksBalance ==
    Cardinality({s \in Sessions : starts[s] # "idle"}) = 1 =>
        LET hand == Cardinality({s \in Sessions : chain[s].counted = 1})
        IN  books.total = buffer + books.popped + books.overrun + hand
=============================================================================
