------------------------------ MODULE MCWorker ------------------------------
(* The worker with a handful of submissions: enough for one request to be   *)
(* running, one to be skipped in the slot, one to replace it, and one more  *)
(* to arrive while a result waits for its reader.                           *)
EXTENDS Worker
=============================================================================
