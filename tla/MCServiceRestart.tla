--------------------------- MODULE MCServiceRestart ---------------------------
(* ServiceRestart for TLC.                                                 *)
EXTENDS ServiceRestart

==============================================================================
