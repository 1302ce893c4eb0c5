----------------------------- MODULE MCIpcClient -----------------------------
(***************************************************************************)
(* Three requests: an ordinary one, and two large ones of which the second *)
(* can find the write lock taken.                                          *)
(***************************************************************************)
EXTENDS IpcClient, TLC

CONSTANTS r1, r2, r3

\* r2 and r3 are alike in the safety run.
LargeOnes == Permutations({r2, r3})

(* Every call ends, and a link that is down is tried until it is up.       *)
EndsAndRecovers == EveryCallEnds /\ KeepsReconnecting
=============================================================================
