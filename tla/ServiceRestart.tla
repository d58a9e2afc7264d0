---------------------------- MODULE ServiceRestart ----------------------------
(***************************************************************************)
(* The life of the service process around the sessions it serves:          *)
(* cmd/browser-automation-service/main.go and shutdown.go, and             *)
(* Runtime.Shutdown. A signal drains the servers for a grace period, a     *)
(* server that fails skips the drain; then the runtime takes a snapshot of *)
(* its registry and stops what it took, one session after another, while   *)
(* calls the grace period did not wait for are still running. The process  *)
(* ends with them, or crashes at any point, and may be started again: the  *)
(* rows of the store and the processes of the browsers are what it finds.  *)
(***************************************************************************)
EXTENDS SessionLifecycle

CONSTANT MaxRestarts   \* bound: how often the service is started again

ASSUME RestartAssumption == MaxRestarts \in Nat

VARIABLES
  phase,       \* of the process: up, draining, stopping or down
  listening,   \* new calls are accepted
  restarts,    \* starts of the service after the first
  taken,       \* sessions of Shutdown's snapshot that are not stopped yet
  releasing,   \* the one whose proxy Shutdown is about to release
  late,        \* history: calls about them were in flight after the snapshot
  cut,         \* history: Shutdown or the end of the process took their browser
  leftBehind   \* history: they had a browser process when a process life ended

phaseVars == <<phase, listening, restarts>>
shutdownVars == <<taken, releasing>>
historyVars == <<late, cut, leftBehind>>
allVars == <<vars, phaseVars, shutdownVars, historyVars>>

InFlight(s) == startPc[s] \notin {"idle", "done"} \/ Ending(s) # {}

ServiceInit ==
  /\ Init
  /\ phase = "up"
  /\ listening = TRUE
  /\ restarts = 0
  /\ taken = {}
  /\ releasing = {}
  /\ late = {}
  /\ cut = {}
  /\ leftBehind = {}

------------------------------------------------------------------------------
(* Calls, as SessionLifecycle has them, for as long as there is a process.  *)

\* A step of a call. Calls that are about after the snapshot are late.
During(step) ==
  /\ phase # "down"
  /\ step
  /\ late' = IF phase = "stopping" THEN late \cup {s \in Sessions : InFlight(s)'} ELSE late
  /\ UNCHANGED <<phaseVars, shutdownVars, cut, leftBehind>>

Lookup(s, r) == listening /\ During(StartLookup(s, r))

Stop(e, s) == listening /\ During(StopRead(e, s))

\* Mutant of Expire: a session without a registry entry is left as it is.
ExpireServed(e, s) ==
  /\ listening
  /\ s \in registry
  /\ During(ExpireRead(e, s))

Expire(e, s) == listening /\ During(ExpireRead(e, s))

Starting(s) == During(StartStep(s))

Stopping(e) == During(EndStep(e))

\* The clock and the browsers go on without the service.
Outside(s) ==
  /\ Elapse(s) \/ BrowserExit(s)
  /\ UNCHANGED <<phaseVars, shutdownVars, historyVars>>

------------------------------------------------------------------------------
(* Shutdown.                                                               *)

\* A signal: health turns to not serving, no listener takes a new call, and
\* both servers wait for the calls in flight.
Signal ==
  /\ phase = "up"
  /\ phase' = "draining"
  /\ listening' = FALSE
  /\ UNCHANGED <<vars, restarts, shutdownVars, historyVars>>

\* Mutant of ShutdownTake: the snapshot leaves the map as it is.
TakeSharing ==
  /\ phase \in {"up", "draining"}
  /\ phase' = "stopping"
  /\ taken' = registry
  /\ late' = {s \in Sessions : InFlight(s)}
  /\ cut' = cut \cup registry
  /\ UNCHANGED <<vars, listening, restarts, releasing, leftBehind>>

\* The drain is over, because every call has returned or because the grace
\* period has; or a server has failed, and run returns without a drain and
\* with the other server still listening. Runtime.Shutdown takes every entry.
ShutdownTake ==
  /\ phase \in {"up", "draining"}
  /\ phase' = "stopping"
  /\ taken' = registry
  /\ registry' = {}
  /\ late' = {s \in Sessions : InFlight(s)}
  /\ cut' = cut \cup registry
  /\ UNCHANGED <<startVars, rowVars, elapsed, leases, procVars, endVars, raced,
                 listening, restarts, releasing, leftBehind>>

ShutdownStop(s) ==
  /\ s \in taken
  /\ releasing = {}
  /\ \E gaveUp \in GiveUps(s) : StopProcesses(s, gaveUp)
  /\ taken' = taken \ {s}
  /\ releasing' = {s}
  /\ UNCHANGED <<startVars, rowVars, elapsed, leases, registry, endVars, raced,
                 phaseVars, historyVars>>

\* Mutant of ShutdownRelease: it releases a session without an id.
ReleaseNobody(s) ==
  /\ s \in releasing
  /\ releasing' = releasing \ {s}
  /\ UNCHANGED <<startVars, rowVars, elapsed, leases, registry, procVars, endVars, raced,
                 phaseVars, taken, historyVars>>

\* The controller forgets the proxy; the remote release has what is left of
\* the grace period (ProxyLease).
ShutdownRelease(s) ==
  /\ s \in releasing
  /\ leases' = leases \ {s}
  /\ releasing' = releasing \ {s}
  /\ UNCHANGED <<startVars, rowVars, elapsed, registry, procVars, endVars, raced,
                 phaseVars, taken, historyVars>>

\* The process is gone: its calls end where they are and its maps are lost.
\* Rows and browsers stay, each in a process group of its own.
ProcessEnds ==
  /\ phase' = "down"
  /\ listening' = FALSE
  /\ startPc' = [s \in Sessions |-> IF startPc[s] = "idle" THEN "idle" ELSE "done"]
  /\ endPc' = [e \in Enders |-> "idle"]
  /\ target' = [e \in Enders |-> NoSession]
  /\ final' = [e \in Enders |-> "STOPPED"]
  /\ registry' = {}
  /\ leases' = {}
  /\ taken' = {}
  /\ releasing' = {}
  /\ cut' = cut \cup {s \in Sessions : IsOpen(s) \/ InFlight(s)}
  /\ leftBehind' = leftBehind \cup live
  /\ UNCHANGED <<req, rowVars, elapsed, procVars, raced, restarts, late>>

ShutdownDone == phase = "stopping" /\ taken = {} /\ releasing = {}

\* run returns: the pool waits for statements that are running, not for calls.
Exit == ShutdownDone /\ ProcessEnds

\* A panic, a SIGKILL, the end of the container's own grace period.
Crash == phase # "down" /\ ProcessEnds

Restart ==
  /\ phase = "down"
  /\ restarts < MaxRestarts
  /\ phase' = "up"
  /\ listening' = TRUE
  /\ restarts' = restarts + 1
  /\ late' = {}
  /\ UNCHANGED <<vars, shutdownVars, cut, leftBehind>>

------------------------------------------------------------------------------

ShutdownStep ==
  \/ phase = "draining" /\ ShutdownTake
  \/ \E s \in Sessions : ShutdownStop(s) \/ ShutdownRelease(s)
  \/ Exit

ServiceNext ==
  \/ \E s \in Sessions, r \in RequestIds \cup {NoRequest} : Lookup(s, r)
  \/ \E e \in Enders, s \in Sessions : Stop(e, s) \/ Expire(e, s)
  \/ \E s \in Sessions : Starting(s) \/ Outside(s)
  \/ \E e \in Enders : Stopping(e)
  \/ Signal
  \/ ShutdownTake
  \/ \E s \in Sessions : ShutdownStop(s) \/ ShutdownRelease(s)
  \/ Exit
  \/ Crash
  \/ Restart

ServiceSpec == ServiceInit /\ [][ServiceNext]_allVars

\* Calls are bounded as in FairSpec, the drain by its grace period and every
\* stop of the shutdown by its timeouts. Somebody polls the sessions. Nothing
\* makes the service start again, or stop.
ServiceFairSpec ==
  /\ ServiceSpec
  /\ \A s \in Sessions : WF_allVars(Starting(s))
  /\ \A e \in Enders : WF_allVars(Stopping(e))
  /\ WF_allVars(ShutdownStep)
  /\ \A s \in Sessions : SF_allVars(\E e \in Enders : Expire(e, s))

------------------------------------------------------------------------------
(* Properties.                                                             *)

ServiceTypeOK ==
  /\ TypeOK
  /\ phase \in {"up", "draining", "stopping", "down"}
  /\ listening \in BOOLEAN
  /\ restarts \in 0..MaxRestarts
  /\ taken \subseteq Sessions
  /\ releasing \subseteq Sessions
  /\ late \subseteq Sessions
  /\ cut \subseteq Sessions
  /\ leftBehind \subseteq Sessions

\* A shutdown that ran to its end leaves a browser process or a proxy only of a
\* session that a call was about after the snapshot: a start or a stop the
\* grace period did not wait for, or a call accepted after a server failed.
\* (Processes that survive SIGKILL, or an earlier life, are not its work.)
ShutdownLeavesOnlyLate ==
  ShutdownDone =>
    /\ live \subseteq stuck \cup leftBehind \cup late
    /\ leases \subseteq late

\* A browser process that nothing in the service refers to was given up on, or
\* was left behind by an earlier life of the service.
LeftBehindOnly ==
  \A s \in live \ (stuck \cup leftBehind) :
    startPc[s] \in Launching \/ s \in registry \cup taken \/ Killers(s) # {}

\* While the service shuts down its browsers may be those of its limit, those of the
\* snapshot, and the starts and stops in flight; what an earlier life left behind
\* comes on top and is counted nowhere.
ServiceProcessesBounded ==
  Cardinality(live \ (stuck \cup leftBehind)) <=
    MaxSessions + Cardinality({s \in Sessions : startPc[s] \in Launching})
                + Cardinality({s \in Sessions : Killers(s) # {}})
                + Cardinality(taken)

\* A launching start, the registry, a tear-down and Shutdown exclude one
\* another: what Shutdown stops nobody else stops or hands out.
OneStopper ==
  /\ SingleOwner
  /\ \A s \in taken :
       s \notin registry /\ Killers(s) = {} /\ startPc[s] \notin Launching

\* A restart is the third and last way to a session at rest whose row and
\* browser disagree: its browser was taken by a shutdown or a crash.
AgreementAcrossRestarts ==
  \A s \in Sessions \ (raced \cup faulted \cup cut) : Quiet(s) => Agrees(s)

\* A session whose browser a shutdown or a crash took is polled: once its ttl
\* has passed its row ends, although the service that reads it never had the
\* browser. (Without a ttl the row stays open until a client stops it.)
ExpiredRowsEnd ==
  \A s \in Sessions :
    (s \in elapsed \cap cut /\ IsOpen(s)) ~>
      (~IsOpen(s) \/ s \in faulted \/ phase # "up")

------------------------------------------------------------------------------
(* The service implements OutagePool.                                      *)

\* A browser that Shutdown took is being stopped, by Shutdown alone: with another
\* owner it would lead two lives, and the pool knows no browser that does.
serviceLife ==
  [s \in Sessions |->
     IF s \notin taken THEN browserLife[s]
     ELSE IF browserLife[s] = "gone" THEN "stopping"
     ELSE "shared"]

Outages == INSTANCE OutagePool WITH life <- serviceLife

\* Through shutdowns, crashes and restarts each session's browser goes through
\* one life, with one stopper, and at most MaxSessions serve at a time: no later
\* life of the service finds, hands out or stops what an earlier one had.
ImplementsOutagePool == Outages!OutageSpec

==============================================================================
