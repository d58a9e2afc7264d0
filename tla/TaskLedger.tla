------------------------------ MODULE TaskLedger ------------------------------
(***************************************************************************)
(* What executing commands promises a client: a request id is accepted for *)
(* one task, the commands of a task reach the browser at most once and     *)
(* only after it was accepted, and a closed task stays as it was closed.   *)
(***************************************************************************)
CONSTANTS
  Tasks,         \* task ids
  RequestIds,    \* the request ids clients send
  NoRequest      \* an empty request_id: the service generates a fresh one

VARIABLES
  status,        \* "none", "queued", "open", or how the task was closed
  request,       \* the request id a task was accepted for
  ran            \* tasks whose commands were sent to the browser

vars == <<status, request, ran>>

Accepted == {t \in Tasks : status[t] # "none"}

Init ==
  /\ status = [t \in Tasks |-> "none"]
  /\ request = [t \in Tasks |-> NoRequest]
  /\ ran = {}

Accept(t, r) ==
  /\ t \notin Accepted
  /\ r # NoRequest => \A u \in Accepted : request[u] # r
  /\ \E s \in {"queued", "open"} : status' = [status EXCEPT ![t] = s]
  /\ request' = [request EXCEPT ![t] = r]
  /\ UNCHANGED ran

Run(t) ==
  /\ status[t] = "open"
  /\ t \notin ran
  /\ ran' = ran \cup {t}
  /\ UNCHANGED <<status, request>>

\* The commands of a task that is closed as succeeded were sent.
Close(t) ==
  /\ status[t] = "open"
  /\ \/ t \in ran /\ status' = [status EXCEPT ![t] = "succeeded"]
     \/ status' = [status EXCEPT ![t] = "failed"]
  /\ UNCHANGED <<request, ran>>

Next ==
  \/ \E t \in Tasks, r \in RequestIds \cup {NoRequest} : Accept(t, r)
  \/ \E t \in Tasks : Run(t) \/ Close(t)

Spec == Init /\ [][Next]_vars

==============================================================================
