---------------------------- MODULE ModelLifecycle ----------------------------
(***************************************************************************)
(* ModelLifecycleCoordinator (resources/model_manager.py).  Every method   *)
(* is one step under the lock, but for trigger_eviction, whose hook runs   *)
(* between two of them while the model may be acquired, released, failed,  *)
(* unloaded, unregistered or registered anew.  Clock and idle timeout are  *)
(* left out: get_idle_models only reads.                                   *)
(***************************************************************************)
EXTENDS Naturals

CONSTANTS Models, Evictors,
          Unregistered,
          MaxUsers      \* bound: acquisitions of one model

VARIABLES
    models,     \* name |-> Unregistered or its record
    eviction    \* per evictor: the model whose hook is running, or Unregistered

lifecycleVars == <<models, eviction>>

ModelStates == {"UNLOADED", "READY", "BUSY", "IDLE", "ERROR"}
Record == [state : ModelStates, resident : BOOLEAN, confirmed : BOOLEAN, acquisitions : Nat]
New == [state |-> "UNLOADED", resident |-> FALSE, confirmed |-> FALSE, acquisitions |-> 0]

Init ==
    /\ models = [m \in Models |-> Unregistered]
    /\ eviction = [e \in Evictors |-> Unregistered]

ValidTransitions ==
    [s \in ModelStates |->
       CASE s = "UNLOADED" -> {"READY", "ERROR"}
         [] s = "READY"    -> {"BUSY", "UNLOADED", "ERROR"}
         [] s = "BUSY"     -> {"IDLE", "READY", "ERROR"}
         [] s = "IDLE"     -> {"BUSY", "UNLOADED", "ERROR", "READY"}
         [] s = "ERROR"    -> {"UNLOADED", "READY"}]

State(m) == models[m].state
Registered(m) == models[m] # Unregistered
Becomes(m, record) == models' = [models EXCEPT ![m] = record]
CanBecome(m, state) == Registered(m) /\ state \in ValidTransitions[State(m)]

-----------------------------------------------------------------------------
RegisterModel(m) ==
    /\ ~Registered(m)
    /\ Becomes(m, New)
    /\ UNCHANGED eviction

UnregisterModel(m) ==
    /\ Registered(m) /\ State(m) # "BUSY"
    /\ Becomes(m, Unregistered)
    /\ UNCHANGED eviction

(* Repeated, it only notes the residency. *)
RecordReady(m, seen) ==
    /\ Registered(m)
    /\ \/ /\ State(m) = "READY"
          /\ Becomes(m, [models[m] EXCEPT !.resident = seen])
       \/ /\ CanBecome(m, "READY")
          /\ Becomes(m, [models[m] EXCEPT !.state = "READY", !.resident = seen, !.confirmed = FALSE])
    /\ UNCHANGED eviction

RecordAcquire(m) ==
    /\ Registered(m) /\ models[m].acquisitions < MaxUsers
    /\ State(m) = "BUSY" \/ CanBecome(m, "BUSY")
    /\ Becomes(m, [models[m] EXCEPT !.state = "BUSY", !.acquisitions = @ + 1])
    /\ UNCHANGED eviction

RecordRelease(m) ==
    /\ Registered(m) /\ State(m) = "BUSY"
    /\ LET n == models[m].acquisitions
           left == IF n > 0 THEN n - 1 ELSE 0
       IN  Becomes(m, [models[m] EXCEPT !.acquisitions = left,
                                        !.state = IF left = 0 THEN "IDLE" ELSE "BUSY"])
    /\ UNCHANGED eviction

RecordError(m) ==
    /\ CanBecome(m, "ERROR")
    /\ Becomes(m, [models[m] EXCEPT !.state = "ERROR", !.acquisitions = 0])
    /\ UNCHANGED eviction

RecordUnloaded(m, confirmed) ==
    /\ Registered(m) /\ State(m) # "BUSY"
    /\ \/ /\ State(m) = "UNLOADED"
          /\ Becomes(m, [models[m] EXCEPT !.resident = FALSE, !.confirmed = confirmed])
       \/ /\ CanBecome(m, "UNLOADED")
          /\ Becomes(m, [New EXCEPT !.confirmed = confirmed])
    /\ UNCHANGED eviction

-----------------------------------------------------------------------------
(* trigger_eviction *)

TriggerEviction(e, m) ==
    /\ eviction[e] = Unregistered
    /\ Registered(m) /\ State(m) # "BUSY"
    /\ eviction' = [eviction EXCEPT ![e] = m]
    /\ UNCHANGED models

EvictionFails(e) ==
    /\ eviction[e] # Unregistered
    /\ eviction' = [eviction EXCEPT ![e] = Unregistered]
    /\ UNCHANGED models

(* The hook says the server has unloaded the model: the record is looked up *)
(* again.  Of a model that is BUSY by now nothing is noted; from UNLOADED  *)
(* the transition raises.                                                  *)
EvictionSucceeds_Unchecked(e) ==
    /\ eviction[e] # Unregistered
    /\ LET m == eviction[e]
       IN  models' = IF Registered(m)
                     THEN [models EXCEPT ![m].state = "UNLOADED", ![m].resident = FALSE,
                                         ![m].confirmed = TRUE]
                     ELSE models
    /\ eviction' = [eviction EXCEPT ![e] = Unregistered]

EvictionSucceeds(e) ==
    /\ eviction[e] # Unregistered
    /\ LET m == eviction[e]
       IN  models' = IF CanBecome(m, "UNLOADED")
                     THEN [models EXCEPT ![m].state = "UNLOADED", ![m].resident = FALSE,
                                         ![m].confirmed = TRUE]
                     ELSE models
    /\ eviction' = [eviction EXCEPT ![e] = Unregistered]

Next ==
    \/ \E m \in Models :
          \/ RegisterModel(m) \/ UnregisterModel(m) \/ RecordAcquire(m) \/ RecordRelease(m)
          \/ RecordError(m) \/ \E b \in BOOLEAN : RecordReady(m, b) \/ RecordUnloaded(m, b)
          \/ \E e \in Evictors : TriggerEviction(e, m)
    \/ \E e \in Evictors : EvictionFails(e) \/ EvictionSucceeds(e)

-----------------------------------------------------------------------------
(* What the governor is told of a model: one in inference counts its users, *)
(* so its last release ends it, and no model is at once observed on the    *)
(* server, or in use, and confirmed to be gone, whatever happened to it    *)
(* while an eviction hook ran.                                             *)
RecordsAgree ==
    \A m \in Models : Registered(m) =>
       /\ State(m) = "BUSY" => models[m].acquisitions > 0
       /\ models[m].confirmed => /\ ~models[m].resident
                                 /\ State(m) \in {"UNLOADED", "ERROR"}

(* Nobody takes a model away from those who use it: it stops being BUSY by  *)
(* the release of its last user, by an error, or by a record_ready.        *)
BusyIsSpared ==
    [][\A m \in Models : Registered(m) /\ State(m) = "BUSY" =>
          /\ models'[m] # Unregistered
          /\ models'[m].state # "UNLOADED"
          /\ models'[m].state = "IDLE" => models[m].acquisitions = 1]_lifecycleVars
=============================================================================
