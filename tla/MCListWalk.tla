------------------------------ MODULE MCListWalk ------------------------------
(* ListWalk and MemoryList for TLC.                                        *)
EXTENDS MemoryList

==============================================================================
