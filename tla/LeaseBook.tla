------------------------------ MODULE LeaseBook ------------------------------
(***************************************************************************)
(* What the proxy controller promises about the leases it asks the remote  *)
(* side for: a session owns at most one, an owned lease is held there, and *)
(* one caller gives it back, which reports success only when it is no      *)
(* longer held. Two kinds of lease may be held for nobody: those whose     *)
(* answer was never read ("unread") and those whose one return failed      *)
(* ("kept").                                                               *)
(***************************************************************************)
CONSTANTS
  Leases,        \* one for each request that may acquire one
  SessionOf      \* the session each lease is acquired for

VARIABLES
  life,          \* "none", "asked", "unread", "owned", "returning", "gone", "kept"
  held           \* the leases the remote side holds for us

vars == <<life, held>>

Init ==
  /\ life = [l \in Leases |-> "none"]
  /\ held = {}

Move(l, from, to) ==
  /\ life[l] \in from
  /\ life' = [life EXCEPT ![l] = to]
  /\ UNCHANGED held

\* A session has one attempt under way, and none once it owns a lease.
Alone(l) ==
  \A k \in Leases \ {l} : SessionOf[k] = SessionOf[l] => life[k] \in {"none", "unread"}

Ask(l) == Alone(l) /\ Move(l, {"none"}, "asked")

\* A request may be carried out long after its caller gave up.
Grant(l) ==
  /\ life[l] \in {"asked", "unread"}
  /\ held' = held \cup {l}
  /\ UNCHANGED life

Own(l) ==
  /\ l \in held
  /\ Alone(l)
  /\ Move(l, {"asked"}, "owned")

Drop(l) ==
  /\ life[l] \in {"returning", "kept"}
  /\ held' = held \ {l}
  /\ UNCHANGED life

Gone(l) ==
  /\ l \notin held
  /\ Move(l, {"returning"}, "gone")

Next ==
  \E l \in Leases :
    \/ Ask(l)
    \/ Grant(l)
    \/ Move(l, {"asked"}, "unread")
    \/ Own(l)
    \/ Move(l, {"owned"}, "returning")
    \/ Drop(l)
    \/ Gone(l)
    \/ Move(l, {"returning"}, "kept")

Spec == Init /\ [][Next]_vars

==============================================================================
