----------------------------- MODULE OutagePool -----------------------------
(***************************************************************************)
(* BrowserPool for a service that shuts down, crashes and starts again: a  *)
(* shutdown retires every browser that serves at once, and an outage ends  *)
(* what the service has of all of them. It adds no way to a second life, a *)
(* second stopper or more than MaxSessions browsers.                       *)
(***************************************************************************)
EXTENDS BrowserPool

RetireAll ==
  life' = [s \in Sessions |-> IF life[s] = "serving" THEN "stopping" ELSE life[s]]

\* A start that was in flight before its launch is lost with the others; a session
\* that nobody asked for yet can still be started afterwards.
Outage ==
  \E lost \in SUBSET Sessions :
    life' = [s \in Sessions |-> IF life[s] = "none" /\ s \notin lost THEN "none" ELSE "gone"]

OutageNext == Next \/ RetireAll \/ Outage

OutageSpec == Init /\ [][OutageNext]_life

==============================================================================
