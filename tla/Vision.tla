------------------------------- MODULE Vision -------------------------------
(***************************************************************************)
(* The vision tools (tools/vision.py): a frame is grabbed behind the       *)
(* privacy shield (vision/capture.py, vision/privacy.py), and the manager  *)
(* answers from it with text recognition, element location or the visual   *)
(* model (vision/manager.py, vision/vlm.py), whose memory the governor     *)
(* grants as a lease, or, without a governor, one look at the free memory. *)
(***************************************************************************)
CONSTANT Requests

VARIABLES
    governed,   \* is there a resource manager?
    hasModel,   \* is there a visual model?
    foreground, \* is the window in the foreground a sensitive one?
    request,    \* request -> where it is, its tool, and its tier
    leased      \* who holds the lease on the visual model

visionVars == <<governed, hasModel, foreground, request, leased>>

VisionTools == {"capture", "ocr", "find", "ask", "analyze"}
Tiers == {"none", "OCR_ONLY", "ELEMENT_LOCATION", "FAST_VLM"}   \* FAST, PRIMARY, DEEP
Pcs == {"called", "checked", "grabbed", "memory", "lease", "model",
        "answered", "blocked", "rejected", "failed", "cancelled"}

TypeOK ==
    /\ {governed, hasModel, foreground} \subseteq BOOLEAN
    /\ request \in [Requests -> [pc : Pcs, tool : VisionTools, tier : Tiers]]
    /\ leased \subseteq Requests

Init ==
    /\ governed \in BOOLEAN /\ hasModel \in BOOLEAN /\ foreground \in BOOLEAN
    /\ request \in [Requests -> [pc : {"called"}, tool : VisionTools, tier : {"none"}]]
    /\ leased = {}

At(r, pc) == request[r].pc = pc
Goes(r, pc) == request' = [request EXCEPT ![r].pc = pc]
Locating(r) == request[r].tier = "ELEMENT_LOCATION"
HandsBack(r) == leased' = leased \ {r}

(* The user brings another window to the front. *)
WindowChanges ==
    /\ foreground' = ~foreground
    /\ UNCHANGED <<governed, hasModel, request, leased>>

-----------------------------------------------------------------------------
(* capture_screen and capture_region: the check, then the grab, which may   *)
(* find another window in front                                            *)

Checked(r) ==
    /\ At(r, "called")
    /\ Goes(r, IF foreground THEN "blocked" ELSE "checked")
    /\ UNCHANGED <<governed, hasModel, foreground, leased>>

Grabbed(r) ==
    /\ At(r, "checked")
    /\ \/ Goes(r, IF request[r].tool = "capture" THEN "answered" ELSE "grabbed")
       \/ Goes(r, "failed")                             \* no such monitor
    /\ UNCHANGED <<governed, hasModel, foreground, leased>>

-----------------------------------------------------------------------------
(* analyze: the tier of the tool, or what classify_capability makes of the  *)
(* query; recognition and location have no await.                          *)

TierOf(r) == CASE request[r].tool = "ocr"     -> {"OCR_ONLY"}
               [] request[r].tool = "find"    -> {"ELEMENT_LOCATION"}
               [] request[r].tool = "ask"     -> {"FAST_VLM"}
               [] request[r].tool = "analyze" -> Tiers \ {"none"}

Read(r) ==
    /\ At(r, "grabbed")
    /\ \/ "OCR_ONLY" \in TierOf(r)
       \/ "FAST_VLM" \in TierOf(r) /\ ~hasModel         \* the text instead
    /\ Goes(r, "answered")
    /\ UNCHANGED <<governed, hasModel, foreground, leased>>

(* Found by its text, or not found and nobody else to ask. *)
Located(r) ==
    /\ At(r, "grabbed") /\ "ELEMENT_LOCATION" \in TierOf(r)
    /\ Goes(r, "answered")
    /\ UNCHANGED <<governed, hasModel, foreground, leased>>

(* An element that was not found, or a question: the visual model.          *)
Escalates(r) ==
    /\ At(r, "grabbed") /\ hasModel
    /\ \E tier \in TierOf(r) \ {"OCR_ONLY"} :
          request' = [request EXCEPT ![r].tier = tier,
                                     ![r].pc = IF governed THEN "lease" ELSE "memory"]
    /\ UNCHANGED <<governed, hasModel, foreground, leased>>

(* No memory: a question is rejected, an element counts as not found.       *)
WithoutModel(r) == Goes(r, IF Locating(r) THEN "answered" ELSE "rejected")

(* check_vram_available: what it saw may be stale when the model is called. *)
MemoryChecked(r) ==
    /\ At(r, "memory")
    /\ Goes(r, "model") \/ WithoutModel(r)
    /\ UNCHANGED <<governed, hasModel, foreground, leased>>

(* ResourceManager.acquire: exclusive for the heavy models. *)
Leased(r) ==
    /\ At(r, "lease") /\ leased = {}
    /\ leased' = {r} /\ Goes(r, "model")
    /\ UNCHANGED <<governed, hasModel, foreground>>

LeaseRefused_GoesOn(r) ==
    /\ At(r, "lease")
    /\ IF Locating(r) THEN Goes(r, "model") ELSE WithoutModel(r)
    /\ UNCHANGED <<governed, hasModel, foreground, leased>>

LeaseRefused(r) ==
    /\ At(r, "lease")
    /\ WithoutModel(r)
    /\ UNCHANGED <<governed, hasModel, foreground, leased>>

(* locate_element without a box leaves the element not found.               *)
ModelAnswers(r) ==
    /\ At(r, "model")
    /\ HandsBack(r) /\ Goes(r, "answered")
    /\ UNCHANGED <<governed, hasModel, foreground>>

(* No connection, a timeout, a bad status or a bad answer. *)
ModelFails(r) ==
    /\ At(r, "model")
    /\ HandsBack(r) /\ Goes(r, "failed")
    /\ UNCHANGED <<governed, hasModel, foreground>>

(* The tool's timeout, or its request, cancels it at an await. *)
Cancelled(r) ==
    /\ request[r].pc \in {"memory", "lease", "model"}
    /\ HandsBack(r) /\ Goes(r, "cancelled")
    /\ UNCHANGED <<governed, hasModel, foreground>>

Next ==
    \/ WindowChanges
    \/ \E r \in Requests :
          \/ Checked(r) \/ Grabbed(r) \/ Read(r) \/ Located(r) \/ Escalates(r)
          \/ MemoryChecked(r) \/ Leased(r) \/ LeaseRefused(r)
          \/ ModelAnswers(r) \/ ModelFails(r) \/ Cancelled(r)

-----------------------------------------------------------------------------
(* With a governor one request at a time is at the visual model, and it     *)
(* holds the lease; nobody holds it who is not, whether it was answered,   *)
(* found nothing, failed or was cancelled (analyze).  Which tier an answer *)
(* reports is left out.                                                    *)
ModelOnlyUnderLease ==
    governed => /\ {r \in Requests : At(r, "model")} = leased
                /\ \A q, r \in leased : q = r
=============================================================================
