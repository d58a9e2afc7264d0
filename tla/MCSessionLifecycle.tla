-------------------------- MODULE MCSessionLifecycle --------------------------
(* SessionLifecycle for TLC.                                               *)
EXTENDS SessionLifecycle, TLC

\* Sessions, enders and request ids are interchangeable: sound for the safety
\* properties, which do not tell them apart.
Symmetry ==
  Permutations(Sessions) \cup Permutations(Enders) \cup Permutations(RequestIds)

\* Bound: the starts carry one request id, or none of them carries one.
SameRequest ==
  \A s, t \in Sessions :
    startPc[s] # "idle" /\ startPc[t] # "idle" => req[s] = req[t]

==============================================================================
