----------------------------- MODULE MCService ------------------------------
(***************************************************************************)
(* A small instance of Service for TLC.                                    *)
(***************************************************************************)
EXTENDS Service

CONSTANTS r1, r2, p1, p2, k1, c1, w1, w2

\* The order of two rows by created_at.
MCNumber == [r \in Requests |-> IF r = r1 THEN 1 ELSE 2]

\* The two uploads reach two processes.
MCRoute == [r \in Requests |-> IF r = r1 THEN {p1} ELSE {p2}]

MCRaised == {"LLM_TIMEOUT", "FILE_NOT_FOUND"}
=============================================================================
