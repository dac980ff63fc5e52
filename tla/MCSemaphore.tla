---------------------------- MODULE MCSemaphore ----------------------------
(* One more client than slots plus one spare, so that callers queue.       *)
(* The mutants are the mistakes this code could contain.                   *)
EXTENDS Semaphore
=============================================================================
