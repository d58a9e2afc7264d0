--------------------------- MODULE MCTaskLifecycle ---------------------------
(* TaskLifecycle for TLC.                                                  *)
EXTENDS TaskLifecycle, TLC

==============================================================================
