---------------------------- MODULE MCEngineParts ----------------------------
(***************************************************************************)
(* Three parts of the engine that do not call each other, checked in one   *)
(* run: "part" says which of them this behaviour is about, and the others  *)
(* stay as they begin.                                                     *)
(***************************************************************************)
EXTENDS Naturals, Sequences, FiniteSets

CONSTANTS Callers, NoStream, Length, Chunk, Queue,
          Sessions, NoSession, RawQueue, FrameQueue, Capacity, MaxFrames, MaxStops,
          Clients, Sinks, Listener, MaxSent

ASSUME PlaybackAssumption == NoStream \notin Callers /\ Length \in Nat /\ Chunk \in Nat \ {0}

VARIABLES
    part,
    current, calls, streams, heard, hushed, stops,
    held, starts, stopping, chain, buffer, books, capStops,
    engine, cancelled, sinks, awaited, errors, accept, conn, orphans

Play == INSTANCE EnginePlayback
Capture == INSTANCE EngineCapture
Server == INSTANCE EngineServer

playVars == <<current, calls, streams, heard, hushed, stops>>
captureVars == <<held, starts, stopping, chain, buffer, books, capStops>>
serverVars == <<engine, cancelled, sinks, awaited, errors, accept, conn, orphans>>
vars == <<part, playVars, captureVars, serverVars>>

Init ==
    /\ part \in {"playback", "capture", "server"}
    /\ Play!Init /\ Capture!Init /\ Server!Init

PlayNext == part = "playback" /\ Play!Next /\ UNCHANGED <<part, captureVars, serverVars>>
CaptureNext == part = "capture" /\ Capture!Next /\ UNCHANGED <<part, playVars, serverVars>>
ServerNext == part = "server" /\ Server!Next /\ UNCHANGED <<part, playVars, captureVars>>

Next == PlayNext \/ CaptureNext \/ ServerNext

(* As they begin the parts owe no step, so the others need not be excused. *)
Spec == Init /\ [][Next]_vars /\ Capture!Fairness /\ Server!Fairness

AcceptedIsNotLost == Play!AcceptedIsNotLost
StopSilences == Play!StopSilences
BooksBalance == Capture!BooksBalance
AnsweredInOrder == Server!AnsweredInOrder
EverythingStops == Server!EverythingStops /\ Capture!StoppedChainsEnd
=============================================================================
