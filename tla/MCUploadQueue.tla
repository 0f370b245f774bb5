--------------------------- MODULE MCUploadQueue ---------------------------
(* Model-checking instance of UploadQueue.                                 *)
EXTENDS UploadQueue, TLC

CONSTANTS f1, u1, u2, u3

MCFiles == {f1}
MCSlots == {u1, u2, u3}
MCSlots2 == {u1, u2}
MCSlotSymmetry == Permutations(MCSlots)
=============================================================================
