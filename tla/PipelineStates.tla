--------------------------- MODULE PipelineStates ---------------------------
(***************************************************************************)
(* The states of the voice pipeline and the transitions between them       *)
(* (voice/pipeline.py), shared by the session that skips a transition that *)
(* is not allowed and by the turn that fails on it.                        *)
(***************************************************************************)

States == {"IDLE", "LISTENING", "PROCESSING", "SPEAKING", "INTERRUPTED", "ERROR"}

Allowed ==
    [s \in States |->
       CASE s = "IDLE"        -> {"LISTENING", "PROCESSING", "ERROR"}
         [] s = "LISTENING"   -> {"PROCESSING", "SPEAKING", "IDLE", "INTERRUPTED", "ERROR"}
         [] s = "PROCESSING"  -> {"SPEAKING", "IDLE", "INTERRUPTED", "ERROR"}
         [] s = "SPEAKING"    -> {"IDLE", "LISTENING", "INTERRUPTED", "ERROR"}
         [] s = "INTERRUPTED" -> {"IDLE", "LISTENING", "ERROR"}
         [] s = "ERROR"       -> {"IDLE", "LISTENING"}]
=============================================================================
