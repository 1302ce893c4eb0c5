--------------------------- MODULE ExclusiveLease ---------------------------
(***************************************************************************)
(* What the resource governor promises the rest of TOM about the one       *)
(* heavyweight inference slot (src/STATE.md, invariant 14): reasoning and  *)
(* VLM inference never hold it together, whoever asked either gets the     *)
(* slot, gives up, or keeps waiting, and the slot passes from an owner to  *)
(* nobody or straight to somebody who was waiting.                         *)
(*                                                                         *)
(* The books, budgets, telemetry, asyncio locks and priorities of          *)
(* ResourceManager are absent here: that module implements this one.       *)
(***************************************************************************)
CONSTANT Client

VARIABLES
    owners,     \* the clients a heavy lease is outstanding for
    waiting     \* the clients queued for one

vars == <<owners, waiting>>

TypeOK ==
    /\ owners \subseteq Client
    /\ waiting \subseteq Client

Init ==
    /\ owners = {}
    /\ waiting = {}

\* The slot is free and goes to a client that was not queued.
Take(c) ==
    /\ owners = {}
    /\ c \notin waiting
    /\ owners' = {c}
    /\ UNCHANGED waiting

\* The client joins those who wait; waiting is its only stake until it is served.
Queue(c) ==
    /\ c \notin owners \cup waiting
    /\ waiting' = waiting \cup {c}
    /\ UNCHANGED owners

\* A waiting client times out or is cancelled.
GiveUp(c) ==
    /\ c \in waiting
    /\ waiting' = waiting \ {c}
    /\ UNCHANGED owners

\* The owner gives the slot back and no waiting client is served.
Free(c) ==
    /\ c \in owners
    /\ owners' = owners \ {c}
    /\ UNCHANGED waiting

\* A waiting client is served, by an owner that leaves or from a free slot.
Serve(w) ==
    /\ w \in waiting
    /\ owners' = {w}
    /\ waiting' = waiting \ {w}
    /\ \/ owners = {}
       \/ \E c \in owners : owners = {c}

Next ==
    \E c \in Client : Take(c) \/ Queue(c) \/ GiveUp(c) \/ Free(c) \/ Serve(c)

Spec == Init /\ [][Next]_vars

(***************************************************************************)
(* Reasoning and VLM inference are mutually exclusive.                     *)
(***************************************************************************)
AtMostOneOwner == \A c, d \in owners : c = d

=============================================================================
