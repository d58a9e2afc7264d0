--------------------------- MODULE SessionLifecycle ---------------------------
(***************************************************************************)
(* The life of browser sessions in browser-automation: the handlers        *)
(* StartBrowserSession, StopBrowserSession and GetBrowserSession of        *)
(* internal/app/session_service.go, interleaved with each other, with the  *)
(* runtime registry and browser processes of internal/adapters/runtime,    *)
(* the proxy map of proxyplugin and the blind row updates of the store.    *)
(*                                                                         *)
(* A handler runs on the goroutine of its request: its position is a       *)
(* program counter, and one action is the code between two points where    *)
(* another goroutine can get in (a store call, a runtime call, a critical  *)
(* section of Runtime.mu or Controller.mu, a wait for a process).          *)
(* A session id is fresh for every start call, so a start call is named by *)
(* the id it may create.                                                   *)
(***************************************************************************)
EXTENDS Naturals, FiniteSets

CONSTANTS
  Sessions,      \* start calls, and the session id each one generates
  Enders,        \* goroutines that serve stop and get requests, one at a time
  RequestIds,    \* the request ids clients send
  NoRequest,     \* an empty request_id: the service generates a fresh one
  NoSession,     \* the target of an idle stop or get goroutine
  MaxSessions,   \* Config.MaxSessions of the runtime
  Unreliable,    \* sessions whose row updates may fail or go unacknowledged
  Unkillable     \* sessions whose processes may survive SIGKILL for a second

ASSUME MaxSessionsAssumption == MaxSessions \in Nat \ {0}
ASSUME RequestAssumption == NoRequest \notin RequestIds
ASSUME SessionsAssumption == IsFiniteSet(Sessions) /\ NoSession \notin Sessions

VARIABLES
  startPc,    \* where the start call of each session is
  req,        \* the request id that call was given
  row,        \* status of the session's row in the store
  elapsed,    \* sessions whose expires_at has passed
  leases,     \* keys of Controller.sessions: session proxies held
  registry,   \* keys of Runtime.sessions
  live,       \* sessions that have a browser process in the OS
  stuck,      \* live ones whose stop gave up after SIGKILL
  endPc,      \* where each stop or get call is
  target,     \* the session that call is about
  final,      \* the status a tear-down will write
  raced,      \* history: a stop or expiry began before the start returned
  faulted     \* history: an update of the row was not acknowledged

startVars == <<startPc, req>>
endVars == <<endPc, target, final>>
procVars == <<live, stuck>>
rowVars == <<row, faulted>>
vars == <<startVars, rowVars, elapsed, leases, registry, procVars, endVars, raced>>

------------------------------------------------------------------------------

FinalStatus == {"STOPPED", "FAILED", "EXPIRED"}
Status == {"absent", "STARTING", "RUNNING", "STOPPING"} \cup FinalStatus

\* Positions of a start call before, while and after it owns the browser.
BeforeLaunch == {"idle", "admit", "create", "prepare", "reserve", "launch"}
Launching == {"boot", "register"}
StartPc == BeforeLaunch \cup Launching \cup {"running", "abort", "abortSave", "done"}

EndPc == {"idle", "mark", "take", "kill", "release", "releaseAgain", "save"}

IsOpen(s) == row[s] \notin FinalStatus \cup {"absent"}

StartReturned(s) == startPc[s] = "done"

Ending(s) == {e \in Enders : endPc[e] # "idle" /\ target[e] = s}

\* The tear-downs that took the session's entry out of the registry and have
\* not yet stopped its processes: they hold the only pointer to them.
Killers(s) == {e \in Enders : endPc[e] = "kill" /\ target[e] = s}

Init ==
  /\ startPc = [s \in Sessions |-> "idle"]
  /\ req = [s \in Sessions |-> NoRequest]
  /\ row = [s \in Sessions |-> "absent"]
  /\ elapsed = {}
  /\ leases = {}
  /\ registry = {}
  /\ live = {}
  /\ stuck = {}
  /\ endPc = [e \in Enders |-> "idle"]
  /\ target = [e \in Enders |-> NoSession]
  /\ final = [e \in Enders |-> "STOPPED"]
  /\ raced = {}
  /\ faulted = {}

------------------------------------------------------------------------------
(* Steps several handlers share.                                           *)

StartTo(s, to) == startPc' = [startPc EXCEPT ![s] = to]

EndTo(e, to) ==
  /\ endPc' = [endPc EXCEPT ![e] = to]
  /\ UNCHANGED target

\* The handler returns and its locals are gone.
EndReturn(e) ==
  /\ endPc' = [endPc EXCEPT ![e] = "idle"]
  /\ target' = [target EXCEPT ![e] = NoSession]
  /\ final' = [final EXCEPT ![e] = "STOPPED"]

Acks(s) == IF s \in Unreliable THEN BOOLEAN ELSE {TRUE}

GiveUps(s) == IF s \in Unkillable THEN BOOLEAN ELSE {FALSE}

\* Mutant of SaveRow: the handler forgets to set the status it saves.
SaveRowUnset(s, status, acked) ==
  /\ row' = [row EXCEPT ![s] = "UNSPECIFIED"]
  /\ faulted' = IF acked THEN faulted ELSE faulted \cup {s}

\* UpdateSession overwrites the row whatever it holds. When it fails (database
\* down, statement timeout, request context cancelled) the caller cannot tell
\* whether the row was written.
SaveRow(s, status, acked) ==
  /\ IF acked
     THEN row' = [row EXCEPT ![s] = status]
     ELSE row' \in {row, [row EXCEPT ![s] = status]}
  /\ faulted' = IF acked THEN faulted ELSE faulted \cup {s}

\* server.stop and worker.stop: stop line or SIGINT, then SIGKILL, then give up.
StopProcesses(s, gaveUp) ==
  IF gaveUp
  THEN stuck' = stuck \cup {s} /\ UNCHANGED live
  ELSE live' = live \ {s} /\ UNCHANGED stuck

Taken(r) == \E t \in Sessions : row[t] # "absent" /\ req[t] = r /\ r # NoRequest

HasRoom == Cardinality(registry) < MaxSessions

------------------------------------------------------------------------------
(* StartBrowserSession.                                                    *)

\* The dedupe read. The call returns the row that carries its request id, or
\* gives up on a failed read or an invalid profile or ttl.
StartLookup(s, r) ==
  /\ startPc[s] = "idle"
  /\ req' = [req EXCEPT ![s] = r]
  /\ \/ StartTo(s, "done")
     \/ ~Taken(r) /\ StartTo(s, "admit")
  /\ UNCHANGED <<rowVars, elapsed, leases, registry, procVars, endVars, raced>>

\* ensureSessionCapacity reads the registry and reserves nothing.
StartAdmit(s) ==
  /\ startPc[s] = "admit"
  /\ StartTo(s, IF HasRoom THEN "create" ELSE "done")
  /\ UNCHANGED <<req, rowVars, elapsed, leases, registry, procVars, endVars, raced>>

\* Mutant of StartCreate: no unique index on request_id.
CreateAnyway(s) ==
  /\ startPc[s] = "create"
  /\ row' = [row EXCEPT ![s] = "STARTING"]
  /\ StartTo(s, "prepare")
  /\ UNCHANGED <<req, faulted, elapsed, leases, registry, procVars, endVars, raced>>

\* The insert is refused when another row has the request id. An insert whose
\* acknowledgement is lost leaves a row whose call has returned an error.
StartCreate(s) ==
  /\ startPc[s] = "create"
  /\ \/ /\ ~Taken(req[s])
        /\ \E acked \in Acks(s) :
             /\ row' = [row EXCEPT ![s] = "STARTING"]
             /\ faulted' = IF acked THEN faulted ELSE faulted \cup {s}
             /\ StartTo(s, IF acked THEN "prepare" ELSE "done")
     \/ StartTo(s, "done") /\ UNCHANGED rowVars
  /\ UNCHANGED <<req, elapsed, leases, registry, procVars, endVars, raced>>

\* PrepareSessionProxy: no proxy, a proxy remembered for the session, or an error.
StartPrepare(s) ==
  /\ startPc[s] = "prepare"
  /\ \/ leases' \in {leases, leases \cup {s}} /\ StartTo(s, "reserve")
     \/ UNCHANGED leases /\ StartTo(s, "abort")
  /\ UNCHANGED <<req, rowVars, elapsed, registry, procVars, endVars, raced>>

\* First critical section of Runtime.StartSession: nothing is reserved here
\* either. A browser kind the runtime does not support is refused before it.
StartReserve(s) ==
  /\ startPc[s] = "reserve"
  /\ \/ StartTo(s, "abort")
     \/ StartTo(s, IF s \in registry THEN "running"
                   ELSE IF HasRoom THEN "launch" ELSE "abort")
  /\ UNCHANGED <<req, rowVars, elapsed, leases, registry, procVars, endVars, raced>>

\* Artifacts directory, then the server and worker processes.
StartLaunch(s) ==
  /\ startPc[s] = "launch"
  /\ \/ live' = live \cup {s} /\ StartTo(s, "boot")
     \/ UNCHANGED live /\ StartTo(s, "abort")
  /\ UNCHANGED <<req, rowVars, elapsed, leases, registry, stuck, endVars, raced>>

\* The wait for the endpoint and the worker's ready line, ended by an exit, a
\* timeout or the request's context: then what was started is stopped.
StartBoot(s) ==
  /\ startPc[s] = "boot"
  /\ \/ StartTo(s, "register") /\ UNCHANGED <<leases, procVars>>
     \/ /\ \E gaveUp \in GiveUps(s) : StopProcesses(s, gaveUp)
        /\ leases' = leases \ {s}
        /\ StartTo(s, "abort")
  /\ UNCHANGED <<req, rowVars, elapsed, registry, endVars, raced>>

\* Mutants of StartRegister: trust the first check; leave the processes of a
\* refused start running; report a refused start as started.
RegisterUnchecked(s) ==
  /\ startPc[s] = "register"
  /\ registry' = registry \cup {s}
  /\ StartTo(s, "running")
  /\ UNCHANGED <<req, rowVars, elapsed, leases, procVars, endVars, raced>>

RegisterLeavesProcesses(s) ==
  /\ startPc[s] = "register"
  /\ registry' = IF HasRoom THEN registry \cup {s} ELSE registry
  /\ StartTo(s, IF HasRoom THEN "running" ELSE "abort")
  /\ UNCHANGED <<req, rowVars, elapsed, leases, procVars, endVars, raced>>

RegisterSwallowsRefusal(s) ==
  /\ startPc[s] = "register"
  /\ registry' = IF HasRoom THEN registry \cup {s} ELSE registry
  /\ live' = IF HasRoom THEN live ELSE live \ {s}
  /\ StartTo(s, "running")
  /\ UNCHANGED <<req, rowVars, elapsed, leases, stuck, endVars, raced>>

\* Second critical section: a full registry is found out only now, and the
\* processes are stopped while Runtime.mu is held.
StartRegister(s) ==
  /\ startPc[s] = "register"
  /\ IF s \notin registry /\ HasRoom
     THEN /\ registry' = registry \cup {s}
          /\ StartTo(s, "running")
          /\ UNCHANGED <<leases, procVars>>
     ELSE /\ \E gaveUp \in GiveUps(s) : StopProcesses(s, gaveUp)
          /\ leases' = leases \ {s}
          /\ StartTo(s, IF s \in registry THEN "running" ELSE "abort")
          /\ UNCHANGED registry
  /\ UNCHANGED <<req, rowVars, elapsed, endVars, raced>>

\* The row becomes RUNNING whatever it is by now, and whatever became of the
\* registry entry. A failed update leaves the browser registered.
StartFinish(s) ==
  /\ startPc[s] = "running"
  /\ \E acked \in Acks(s) : SaveRow(s, "RUNNING", acked)
  /\ StartTo(s, "done")
  /\ UNCHANGED <<req, elapsed, leases, registry, procVars, endVars, raced>>

\* The error paths release the proxy and then write FAILED, ignoring both errors.
StartAbort(s) ==
  /\ startPc[s] = "abort"
  /\ leases' = leases \ {s}
  /\ StartTo(s, "abortSave")
  /\ UNCHANGED <<req, rowVars, elapsed, registry, procVars, endVars, raced>>

StartAbortSave(s) ==
  /\ startPc[s] = "abortSave"
  /\ \E acked \in Acks(s) : SaveRow(s, "FAILED", acked)
  /\ StartTo(s, "done")
  /\ UNCHANGED <<req, elapsed, leases, registry, procVars, endVars, raced>>

------------------------------------------------------------------------------
(* StopBrowserSession and expireSessionIfNeeded. The read that finds no row, *)
(* a final row or an unexpired session returns without a change.             *)

Begin(e, s, at, status) ==
  /\ endPc[e] = "idle"
  /\ IsOpen(s)
  /\ endPc' = [endPc EXCEPT ![e] = at]
  /\ target' = [target EXCEPT ![e] = s]
  /\ final' = [final EXCEPT ![e] = status]
  /\ raced' = IF StartReturned(s) THEN raced ELSE raced \cup {s}
  /\ UNCHANGED <<startVars, rowVars, elapsed, leases, registry, procVars>>

StopRead(e, s) == Begin(e, s, "mark", "STOPPED")

ExpireRead(e, s) == s \in elapsed /\ Begin(e, s, "take", "EXPIRED")

StopMark(e) ==
  /\ endPc[e] = "mark"
  /\ \E acked \in Acks(target[e]) :
       /\ SaveRow(target[e], "STOPPING", acked)
       /\ IF acked THEN EndTo(e, "take") /\ UNCHANGED final ELSE EndReturn(e)
  /\ UNCHANGED <<startVars, elapsed, leases, registry, procVars, raced>>

\* Mutants of EndTake: stop the browser although another handler has taken its
\* entry; leave the entry of a session that is expired rather than stopped.
TakeTaken(e) ==
  /\ endPc[e] = "take"
  /\ registry' = registry \ {target[e]}
  /\ EndTo(e, "kill")
  /\ UNCHANGED <<startVars, rowVars, elapsed, leases, procVars, final, raced>>

TakeOnlyStopped(e) ==
  /\ endPc[e] = "take"
  /\ registry' = IF final[e] = "STOPPED" THEN registry \ {target[e]} ELSE registry
  /\ EndTo(e, IF registry' # registry THEN "kill" ELSE "release")
  /\ UNCHANGED <<startVars, rowVars, elapsed, leases, procVars, final, raced>>

\* Critical section of Runtime.StopSession.
EndTake(e) ==
  /\ endPc[e] = "take"
  /\ registry' = registry \ {target[e]}
  /\ EndTo(e, IF target[e] \in registry THEN "kill" ELSE "release")
  /\ UNCHANGED <<startVars, rowVars, elapsed, leases, procVars, final, raced>>

\* A stop that fails becomes FAILED; an expiry ignores the error. A stop also
\* reports an error for a dead worker whose exit a reader has consumed.
FinalOr(e, failed) ==
  final' = IF failed /\ final[e] = "STOPPED"
           THEN [final EXCEPT ![e] = "FAILED"] ELSE final

EndKill(e) ==
  /\ endPc[e] = "kill"
  /\ \E gaveUp \in GiveUps(target[e]), failed \in BOOLEAN :
       /\ gaveUp => failed
       /\ StopProcesses(target[e], gaveUp)
       /\ FinalOr(e, failed)
  /\ EndTo(e, "release")
  /\ UNCHANGED <<startVars, rowVars, elapsed, leases, registry, raced>>

\* Mutant of EndRelease: the proxy is kept and the whole stop is tried again
\* until the remote side answers.
ReleaseUntilAnswered(e) ==
  /\ endPc[e] = "release"
  /\ \E answered \in BOOLEAN :
       /\ ~answered => target[e] \in leases
       /\ leases' = IF answered THEN leases \ {target[e]} ELSE leases
       /\ EndTo(e, IF answered THEN "releaseAgain" ELSE "take")
  /\ UNCHANGED <<startVars, rowVars, elapsed, registry, procVars, final, raced>>

\* The runtime's release forgets the proxy first; the remote release that
\* follows may fail, and is never tried again.
EndRelease(e) ==
  /\ endPc[e] = "release"
  /\ \E failed \in BOOLEAN :
       /\ failed => target[e] \in leases
       /\ FinalOr(e, failed)
  /\ leases' = leases \ {target[e]}
  /\ EndTo(e, "releaseAgain")
  /\ UNCHANGED <<startVars, rowVars, elapsed, registry, procVars, raced>>

\* The application releases once more and ignores the error.
EndReleaseAgain(e) ==
  /\ endPc[e] = "releaseAgain"
  /\ leases' = leases \ {target[e]}
  /\ EndTo(e, "save")
  /\ UNCHANGED <<startVars, rowVars, elapsed, registry, procVars, final, raced>>

EndSave(e) ==
  /\ endPc[e] = "save"
  /\ \E acked \in Acks(target[e]) : SaveRow(target[e], final[e], acked)
  /\ EndReturn(e)
  /\ UNCHANGED <<startVars, elapsed, leases, registry, procVars, raced>>

\* The clock passes expires_at.
Elapse(s) ==
  /\ row[s] # "absent"
  /\ s \notin elapsed
  /\ elapsed' = elapsed \cup {s}
  /\ UNCHANGED <<startVars, rowVars, leases, registry, procVars, endVars, raced>>

\* A browser or worker process ends on its own; nobody is told.
BrowserExit(s) ==
  /\ s \in live
  /\ live' = live \ {s}
  /\ UNCHANGED <<startVars, rowVars, elapsed, leases, registry, stuck, endVars, raced>>

------------------------------------------------------------------------------

StartStep(s) ==
  \/ StartAdmit(s)
  \/ StartCreate(s)
  \/ StartPrepare(s)
  \/ StartReserve(s)
  \/ StartLaunch(s)
  \/ StartBoot(s)
  \/ StartRegister(s)
  \/ StartFinish(s)
  \/ StartAbort(s)
  \/ StartAbortSave(s)

EndStep(e) ==
  \/ StopMark(e)
  \/ EndTake(e)
  \/ EndKill(e)
  \/ EndRelease(e)
  \/ EndReleaseAgain(e)
  \/ EndSave(e)

Next ==
  \/ \E s \in Sessions, r \in RequestIds \cup {NoRequest} : StartLookup(s, r)
  \/ \E s \in Sessions : StartStep(s)
  \/ \E e \in Enders, s \in Sessions : StopRead(e, s)
  \/ \E e \in Enders, s \in Sessions : ExpireRead(e, s)
  \/ \E e \in Enders : EndStep(e)
  \/ \E s \in Sessions : Elapse(s) \/ BrowserExit(s)

Spec == Init /\ [][Next]_vars

\* Every wait inside a handler is bounded: store calls by the statement
\* timeout, the proxy client by its HTTP timeout and three attempts, a launch
\* by StartupTimeout, a stop by ShutdownTimeout and the wait after SIGKILL -
\* as long as the worker's stdin has room for the stop line (WorkerChannel).
\* Clients owe nothing: no start, stop or get has to arrive.
FairSpec ==
  /\ Spec
  /\ \A s \in Sessions : WF_vars(StartStep(s))
  /\ \A e \in Enders : WF_vars(EndStep(e))

\* Somebody keeps reading every session, as the web UI does while its home page
\* is open: it lists the sessions every five seconds. Nothing in the service
\* itself reads a session to expire it.
PolledSpec ==
  /\ FairSpec
  /\ \A s \in Sessions : SF_vars(\E e \in Enders : ExpireRead(e, s))

------------------------------------------------------------------------------
(* Properties.                                                             *)

TypeOK ==
  /\ startPc \in [Sessions -> StartPc]
  /\ req \in [Sessions -> RequestIds \cup {NoRequest}]
  /\ row \in [Sessions -> Status]
  /\ elapsed \subseteq Sessions
  /\ leases \subseteq Sessions
  /\ registry \subseteq Sessions
  /\ live \subseteq Sessions
  /\ stuck \subseteq Sessions
  /\ endPc \in [Enders -> EndPc]
  /\ target \in [Enders -> Sessions \cup {NoSession}]
  /\ \A e \in Enders : endPc[e] # "idle" => target[e] \in Sessions
  /\ final \in [Enders -> FinalStatus]
  /\ raced \subseteq Sessions
  /\ faulted \subseteq Sessions

\* At most MaxSessions browsers are registered, although both admission checks
\* of a start read the registry long before the start adds to it.
CapacityRespected == Cardinality(registry) <= MaxSessions

\* The limit is on registered browsers, and the memory it is derived from is spent
\* by processes: those nobody gave up on exceed it by the starts that are
\* launching and the sessions being stopped, and by no more.
ProcessesBounded ==
  Cardinality(live \ stuck) <=
    MaxSessions + Cardinality({s \in Sessions : startPc[s] \in Launching})
                + Cardinality({s \in Sessions : Killers(s) # {}})

\* A browser process nobody gave up on is reachable: by the start call that is
\* launching it, through the registry, or by a tear-down that is stopping it.
NoOrphanProcess ==
  \A s \in live \ stuck :
    startPc[s] \in Launching \/ s \in registry \/ Killers(s) # {}

\* Those three exclude one another, and one tear-down stops a browser: no
\* process is stopped twice or stopped while it is handed out.
SingleOwner ==
  \A s \in Sessions :
    /\ startPc[s] \in Launching => s \notin registry /\ Killers(s) = {}
    /\ s \in registry => Killers(s) = {}
    /\ \A e, f \in Killers(s) : e = f

\* Two starts with one request id never have a browser each, however their
\* dedupe reads interleave with the inserts.
OneBrowserPerRequest ==
  \A s, t \in live :
    s # t => req[s] # req[t] \/ req[s] = NoRequest

Quiet(s) == StartReturned(s) /\ Ending(s) = {}

Agrees(s) ==
  /\ s \in registry <=> row[s] = "RUNNING"
  /\ s \in live => s \in registry \cup stuck
  /\ s \in leases => s \in registry
  /\ row[s] \in FinalStatus \cup {"absent", "RUNNING"}

\* Once no call about a session is in flight, its row, registry entry,
\* processes and proxy agree - unless a stop or an expiry began while the start
\* was in flight, or an update of the row failed. Those two are the only ways
\* to a slot, a process or a proxy that nothing will give back.
QuietAgreement ==
  \A s \in Sessions \ (raced \cup faulted) : Quiet(s) => Agrees(s)

\* A session that ended does not come back: a final row is only ever replaced by
\* another final status, or by the STOPPING of a stop that had read it open. The
\* one exception is a stop or an expiry that began while the start was in flight;
\* updates that fail are none.
NoRevival ==
  [][\A s \in Sessions \ raced :
       row[s] \in FinalStatus => row'[s] \in FinalStatus \cup {"STOPPING"}]_vars

\* Every call returns.
CallsReturn ==
  /\ \A s \in Sessions : startPc[s] # "idle" ~> StartReturned(s)
  /\ \A e \in Enders : endPc[e] # "idle" ~> endPc[e] = "idle"

\* While sessions are polled, an expired session gives its slot back, even when
\* row updates fail - unless a stop or an expiry began while it was starting:
\* its row may then be final, and nobody ever stops its browser.
ExpiryFreesSlot ==
  \A s \in Sessions :
    (s \in elapsed /\ s \in registry) ~> (s \notin registry \/ s \in raced)

\* The ttl by itself frees the slot of an expired session.
TtlFreesSlot ==
  \A s \in Sessions : (s \in elapsed /\ s \in registry) ~> s \notin registry

------------------------------------------------------------------------------
(* The runtime implements BrowserPool.                                     *)

browserLife ==
  [s \in Sessions |->
     IF startPc[s] \in BeforeLaunch THEN "none"
     ELSE IF startPc[s] \in Launching THEN "launching"
     ELSE IF s \in registry THEN "serving"
     ELSE IF Killers(s) # {} THEN "stopping"
     ELSE "gone"]

Pool == INSTANCE BrowserPool WITH life <- browserLife

\* Whatever the interleaving, each session's browser goes through one life and
\* at most MaxSessions serve at a time.
ImplementsPool == Pool!Spec

==============================================================================
