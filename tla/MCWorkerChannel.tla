--------------------------- MODULE MCWorkerChannel ---------------------------
(* WorkerChannel for TLC.                                                  *)
EXTENDS WorkerChannel

==============================================================================
