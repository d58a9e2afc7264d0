----------------------------- MODULE BrowserPool -----------------------------
(***************************************************************************)
(* What the browser runtimes promise the rest of the service, without      *)
(* calls, store or registry: a session gets at most one browser, the       *)
(* browser serves at most once, at most MaxSessions browsers serve at a    *)
(* time, and a browser that served is stopped by one stopper.              *)
(***************************************************************************)
EXTENDS Naturals, FiniteSets

CONSTANTS
  Sessions,      \* session ids
  MaxSessions    \* Config.MaxSessions of the runtime

VARIABLE life    \* the life of each session's browser

Life == {"none", "launching", "serving", "stopping", "gone"}

Serving == {s \in Sessions : life[s] = "serving"}

Become(s, from, to) ==
  /\ life[s] = from
  /\ life' = [life EXCEPT ![s] = to]

Init == life = [s \in Sessions |-> "none"]

Launch(s) == Become(s, "none", "launching")

GiveUp(s) == Become(s, "none", "gone")

Discard(s) == Become(s, "launching", "gone")

Serve(s) ==
  /\ Cardinality(Serving) < MaxSessions
  /\ Become(s, "launching", "serving")

Retire(s) == Become(s, "serving", "stopping")

Reap(s) == Become(s, "stopping", "gone")

Next ==
  \E s \in Sessions :
    Launch(s) \/ GiveUp(s) \/ Discard(s) \/ Serve(s) \/ Retire(s) \/ Reap(s)

Spec == Init /\ [][Next]_life

==============================================================================
