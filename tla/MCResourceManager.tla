------------------------- MODULE MCResourceManager -------------------------
(***************************************************************************)
(* Small governors for TLC.  Units are about a gigabyte: a ceiling of 7 is *)
(* the 8 GB card less its headroom, the reasoning model takes 4, the VLM 5.*)
(***************************************************************************)
EXTENDS ResourceManager, TLC

CONSTANTS c1, c2, c3

ThreeClients == Permutations({c1, c2, c3})

MCRole      == {"reasoning", "vlm", "stt"}
MCHeavyRole == {"reasoning", "vlm"}
MCResident  == [r \in MCRole |-> IF r = "reasoning" THEN 4 ELSE 1]

Ask(role, vram, ram, priority, blocking) ==
    [role |-> role, vram |-> vram, ram |-> ram, priority |-> priority, blocking |-> blocking]

Sees(gpu, vramFree, ramFree) == [gpu |-> gpu, vramFree |-> vramFree, ramFree |-> ramFree]

\* Two heavy roles and a light one that fill the books together, and a caller
\* that does not wait.
MixedDemand ==
    { Ask("reasoning", 4, 2, 1, TRUE),
      Ask("vlm",       5, 1, 2, TRUE),
      Ask("stt",       2, 1, 1, TRUE),
      Ask("vlm",       5, 1, 0, FALSE) }

\* The empty card, the card with a model loaded, and no GPU answering.
MixedReading == { Sees(TRUE, 7, 4), Sees(TRUE, 2, 3), Sees(FALSE, 0, 4) }

\* Voice work that never stops coming, and one background request.
VoiceAndBackground ==
    { Ask("reasoning", 4, 1, 0, TRUE),
      Ask("vlm",       5, 1, 2, TRUE) }

\* The same role at two priorities as well, for the order of the queue.
VoiceAndVision == VoiceAndBackground \union { Ask("vlm", 4, 1, 1, TRUE) }

AmpleReading == { Sees(TRUE, 8, 4) }
=============================================================================
