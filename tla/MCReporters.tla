----------------------------- MODULE MCReporters -----------------------------
(* Two scans, one after the other, that run the same two checks.            *)
EXTENDS Reporters

InTurn == [s \in Scan |-> IF s = "second" THEN {"first"} ELSE {}]
=============================================================================
