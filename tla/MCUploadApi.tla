---------------------------- MODULE MCUploadApi -----------------------------
(***************************************************************************)
(* Small instances of UploadApi for TLC.                                   *)
(***************************************************************************)
EXTENDS UploadApi, TLC

CONSTANTS r1, r2, r3, p1, p2, k1, k2, c1, c2

UploadSymmetry == Permutations(Requests) \cup Permutations(Processes)
                    \cup Permutations(Keys) \cup Permutations(Contents)
=============================================================================
