----------------------------- MODULE ProxyLease -----------------------------
(***************************************************************************)
(* The proxies of sessions (internal/adapters/proxyplugin): the controller,*)
(* which remembers one proxy for each session under a mutex, and its client*)
(* of the remote proxy-runtime, which posts a request up to three times.   *)
(*                                                                         *)
(* An attempt <<c, n>> is the n-th post of call c. Nothing identifies the  *)
(* attempts of one call to the remote side, so each one it carries out     *)
(* acquires a lease of its own, and that lease is named by its attempt.    *)
(***************************************************************************)
EXTENDS Naturals

CONSTANTS
  Sessions,      \* session ids; a session's proxy is prepared once, by its start
  Releases,      \* calls of ReleaseSessionProxy
  MaxAttempts,   \* proxyRuntimeMaxAttempts
  NoSession,     \* the session of a release that has not begun
  NoProxy,       \* no entry, or an entry whose proxy needs no lease is Manual
  Manual

Calls == Sessions \cup Releases
Leases == Sessions \X (1 .. MaxAttempts)
Attempts == Calls \X (1 .. MaxAttempts)

ASSUME CallsAssumption == Sessions \cap Releases = {} /\ NoSession \notin Sessions
ASSUME AttemptsAssumption == MaxAttempts \in Nat \ {0}
ASSUME ProxyAssumption == NoProxy # Manual /\ {NoProxy, Manual} \cap Leases = {}

VARIABLES
  pc,            \* where each call is; a session's call is its PrepareSessionProxy
  tries,         \* how many attempts of its post the call has sent
  target,        \* the session a release is for
  carries,       \* the lease a release has taken out of the map
  entry,         \* Controller.sessions
  proxyRef,      \* profile.ProxyRef, by the kind of proxy it names
  route,         \* what ResolveSessionProxy told the runtime to launch with
  wire,          \* attempts that were sent and not carried out (yet)
  held,          \* leases the remote side holds
  cancelled      \* calls whose request context has ended

callVars == <<pc, tries, target, carries>>
sessionVars == <<entry, proxyRef, route>>
remoteVars == <<wire, held>>
vars == <<callVars, sessionVars, remoteVars, cancelled>>

------------------------------------------------------------------------------

Active == {"send", "await"}
Pc == {"idle", "done", "failed"} \cup Active
Proxies == Leases \cup {NoProxy, Manual}
Kinds == {"none", "manual", "lease"}

KindOf(p) == IF p = NoProxy THEN "none" ELSE IF p = Manual THEN "manual" ELSE "lease"

Init ==
  /\ pc = [c \in Calls |-> "idle"]
  /\ tries = [c \in Calls |-> 0]
  /\ target = [r \in Releases |-> NoSession]
  /\ carries = [r \in Releases |-> NoProxy]
  /\ entry = [s \in Sessions |-> NoProxy]
  /\ proxyRef \in [Sessions -> {"none", "manual"}]
  /\ route = [s \in Sessions |-> "unresolved"]
  /\ wire = {}
  /\ held = {}
  /\ cancelled = {}

CallTo(c, to) == pc' = [pc EXCEPT ![c] = to]

\* The attempt a call waits for, and the lease its answer would carry.
Current(c) == <<c, tries[c]>>

------------------------------------------------------------------------------
(* PrepareSessionProxy.                                                    *)

\* Mutant of PrepareLocal: no proxy leaves the profile's legacy proxy_ref as the client sent it.
PrepareKeepsRef(s) ==
  /\ pc[s] = "idle"
  /\ \/ /\ CallTo(s, "done")
        /\ \E p \in {NoProxy, Manual} : entry' = [entry EXCEPT ![s] = p]
        /\ UNCHANGED proxyRef
     \/ /\ CallTo(s, "failed")
        /\ UNCHANGED <<entry, proxyRef>>
  /\ UNCHANGED <<tries, target, carries, route, remoteVars, cancelled>>

\* resolveSelection without the remote side: no proxy, one the request or the
\* configuration names, or an error. Only success writes the profile.
PrepareLocal(s) ==
  /\ pc[s] = "idle"
  /\ \/ /\ CallTo(s, "done")
        /\ \E p \in {NoProxy, Manual} :
             /\ entry' = [entry EXCEPT ![s] = p]
             /\ proxyRef' = [proxyRef EXCEPT ![s] = KindOf(p)]
     \/ /\ CallTo(s, "failed")
        /\ UNCHANGED <<entry, proxyRef>>
  /\ UNCHANGED <<tries, target, carries, route, remoteVars, cancelled>>

PrepareRemote(s) ==
  /\ pc[s] = "idle"
  /\ CallTo(s, "send")
  /\ UNCHANGED <<tries, target, carries, sessionVars, remoteVars, cancelled>>

\* Mutant of Acquired: a second acquire after one whose answer could be used.
AcquiredTwice(s) ==
  /\ pc[s] = "await"
  /\ Current(s) \notin wire
  /\ CallTo(s, IF tries[s] < MaxAttempts THEN "send" ELSE "done")
  /\ entry' = [entry EXCEPT ![s] = Current(s)]
  /\ proxyRef' = [proxyRef EXCEPT ![s] = "lease"]
  /\ UNCHANGED <<tries, target, carries, route, remoteVars, cancelled>>

\* The answer names a lease with a usable egress. Any other answer is a GiveUp.
Acquired(s) ==
  /\ pc[s] = "await"
  /\ Current(s) \notin wire
  /\ CallTo(s, "done")
  /\ entry' = [entry EXCEPT ![s] = Current(s)]
  /\ proxyRef' = [proxyRef EXCEPT ![s] = "lease"]
  /\ UNCHANGED <<tries, target, carries, route, remoteVars, cancelled>>

\* The runtime asks for the proxy later, when it launches the browser.
ResolveSessionProxy(s) ==
  /\ pc[s] = "done"
  /\ route[s] = "unresolved"
  /\ route' = [route EXCEPT ![s] = KindOf(entry[s])]
  /\ UNCHANGED <<callVars, entry, proxyRef, remoteVars, cancelled>>

------------------------------------------------------------------------------
(* ReleaseSessionProxy: any handler may call it once the session's row     *)
(* exists, which is before its proxy is prepared.                          *)

\* Mutant of ReleaseSessionProxy: the entry is not deleted in the critical
\* section that reads it.
ReleaseKeepsEntry(r, s) ==
  /\ pc[r] = "idle"
  /\ target' = [target EXCEPT ![r] = s]
  /\ IF entry[s] \in Leases
       THEN CallTo(r, "send") /\ carries' = [carries EXCEPT ![r] = entry[s]]
       ELSE CallTo(r, "done") /\ UNCHANGED carries
  /\ UNCHANGED <<tries, sessionVars, remoteVars, cancelled>>

ReleaseSessionProxy(r, s) ==
  /\ pc[r] = "idle"
  /\ target' = [target EXCEPT ![r] = s]
  /\ entry' = [entry EXCEPT ![s] = NoProxy]
  /\ IF entry[s] \in Leases
       THEN CallTo(r, "send") /\ carries' = [carries EXCEPT ![r] = entry[s]]
       ELSE CallTo(r, "done") /\ UNCHANGED carries
  /\ UNCHANGED <<tries, proxyRef, route, remoteVars, cancelled>>

\* A status of success with an empty body or a JSON object: post returns nil.
Released(r) ==
  /\ pc[r] = "await"
  /\ Current(r) \notin wire
  /\ CallTo(r, "done")
  /\ UNCHANGED <<tries, target, carries, sessionVars, remoteVars, cancelled>>

------------------------------------------------------------------------------
(* post, of either call.                                                   *)

\* The http client sends nothing under a context that has ended.
Send(c) ==
  /\ pc[c] = "send"
  /\ \/ /\ c \notin cancelled
        /\ CallTo(c, "await")
        /\ tries' = [tries EXCEPT ![c] = @ + 1]
        /\ wire' = wire \cup {<<c, tries[c] + 1>>}
     \/ /\ c \in cancelled
        /\ CallTo(c, "failed")
        /\ UNCHANGED <<tries, wire>>
  /\ UNCHANGED <<target, carries, sessionVars, held, cancelled>>

\* Mutant of Retry: the bound of the loop is off by one.
RetryOnceMore(c) ==
  /\ pc[c] = "await"
  /\ tries[c] <= MaxAttempts
  /\ CallTo(c, "send")
  /\ UNCHANGED <<tries, target, carries, sessionVars, remoteVars, cancelled>>

\* Mutant of Retry: the loop repeats an attempt without counting it.
RetryUncounted(c) ==
  /\ pc[c] = "await"
  /\ tries[c] < MaxAttempts
  /\ CallTo(c, "send")
  /\ tries' = [tries EXCEPT ![c] = @ - 1]
  /\ UNCHANGED <<target, carries, sessionVars, remoteVars, cancelled>>

\* A transport error or a status that is retried tells nothing about whether
\* the attempt was, or will be, carried out.
Retry(c) ==
  /\ pc[c] = "await"
  /\ tries[c] < MaxAttempts
  /\ CallTo(c, "send")
  /\ UNCHANGED <<tries, target, carries, sessionVars, remoteVars, cancelled>>

\* Mutant of GiveUp: a release that gives up reports success.
GiveUpQuietly(c) ==
  /\ pc[c] = "await"
  /\ CallTo(c, IF c \in Releases THEN "done" ELSE "failed")
  /\ UNCHANGED <<tries, target, carries, sessionVars, remoteVars, cancelled>>

\* The last attempt failed, or the error is not one that is retried: the context
\* has ended, a status below 500, an answer that cannot be used.
GiveUp(c) ==
  /\ pc[c] = "await"
  /\ CallTo(c, "failed")
  /\ UNCHANGED <<tries, target, carries, sessionVars, remoteVars, cancelled>>

Cancel(c) ==
  /\ pc[c] \in Active
  /\ c \notin cancelled
  /\ cancelled' = cancelled \cup {c}
  /\ UNCHANGED <<callVars, sessionVars, remoteVars>>

\* The remote side, at any time after the attempt was sent, or never.
CarryOut(a) ==
  /\ a \in wire
  /\ wire' = wire \ {a}
  /\ held' = IF a \in Leases THEN held \cup {a} ELSE held \ {carries[a[1]]}
  /\ UNCHANGED <<callVars, sessionVars, cancelled>>

------------------------------------------------------------------------------

CallStep(c) ==
  \/ c \in Sessions /\ Acquired(c)
  \/ c \in Releases /\ Released(c)
  \/ Send(c)
  \/ Retry(c)
  \/ GiveUp(c)

Next ==
  \/ \E s \in Sessions : PrepareLocal(s) \/ PrepareRemote(s) \/ ResolveSessionProxy(s)
  \/ \E r \in Releases, s \in Sessions : ReleaseSessionProxy(r, s)
  \/ \E c \in Calls : CallStep(c) \/ Cancel(c)
  \/ \E a \in Attempts : CarryOut(a)

Spec == Init /\ [][Next]_vars

\* The http client's timeout ends an attempt, a timer the wait before the next.
FairSpec == Spec /\ \A c \in Calls : WF_vars(CallStep(c))

------------------------------------------------------------------------------
(* Properties.                                                             *)

\* Type invariant of the controller, its client and the remote side.
TypeOK ==
  /\ pc \in [Calls -> Pc]
  /\ tries \in [Calls -> 0 .. MaxAttempts]
  /\ target \in [Releases -> Sessions \cup {NoSession}]
  /\ carries \in [Releases -> Leases \cup {NoProxy}]
  /\ entry \in [Sessions -> Proxies]
  /\ proxyRef \in [Sessions -> Kinds]
  /\ route \in [Sessions -> Kinds \cup {"unresolved"}]
  /\ wire \subseteq Attempts
  /\ held \subseteq Leases
  /\ cancelled \subseteq Calls

Remembered(l) == entry[l[1]] = l
CarriedBy(r, l) == carries[r] = l

\* The client did not wait for the answer that would name the lease, or could
\* not use it: no variable of the service ever holds its id.
Unread(l) ==
  \/ l[2] < tries[l[1]]
  \/ l = Current(l[1]) /\ pc[l[1]] \in {"send", "failed"}

\* A lease the remote side holds is one a session remembers, one whose answer
\* is awaited, or one a release is returning - or it is left behind, in one of
\* two ways only: its answer was never read (a retry of acquire without an
\* idempotency key, or an egress that is refused), or its one release failed
\* after it had forgotten it. In particular a release that reports success
\* leaves nothing behind.
LeaseAccounted ==
  \A l \in held :
    \/ Remembered(l)
    \/ l = Current(l[1]) /\ pc[l[1]] = "await"
    \/ Unread(l)
    \/ \E r \in Releases : CarriedBy(r, l) /\ pc[r] \in Active \cup {"failed"}

\* A lease is returned by one caller: runtime, service, a second stop and an
\* expiry all release the session, and only the one that finds the entry posts.
\* While a lease is remembered nobody has asked the remote side to drop it.
OneReturn ==
  \A r \in Releases, l \in Leases : CarriedBy(r, l) =>
    /\ ~ Remembered(l)
    /\ \A q \in Releases : CarriedBy(q, l) => q = r

\* The lease a browser is launched with is held as long as it is remembered,
\* however many attempts were answered late or never.
RememberedIsHeld == \A l \in Leases : Remembered(l) => l \in held

\* A browser goes through the kind of proxy its profile names. The exception:
\* a release between preparing and resolving (a stop or expiry that overtakes
\* the start) makes ResolveSessionProxy return "", which is no error, and the
\* browser that should be behind a proxy connects directly.
RouteAsProfile ==
  \A s \in Sessions : route[s] \notin {"unresolved", proxyRef[s]} =>
    /\ route[s] = "none"
    /\ \E r \in Releases : target[r] = s

\* Preparing and releasing return: no answer, and no remote side, keeps them.
CallsReturn == \A c \in Calls : (pc[c] \in Active) ~> (pc[c] \in {"done", "failed"})

\* The life of a lease as the service sees it.
LifeOf(l) ==
  IF Remembered(l) THEN "owned"
  ELSE IF \E r \in Releases : CarriedBy(r, l) /\ pc[r] \in Active THEN "returning"
  ELSE IF \E r \in Releases : CarriedBy(r, l) /\ pc[r] = "failed" THEN "kept"
  ELSE IF \E r \in Releases : CarriedBy(r, l) THEN "gone"
  ELSE IF tries[l[1]] < l[2] THEN "none"
  ELSE IF Unread(l) THEN "unread"
  ELSE "asked"

leaseLife == [l \in Leases |-> LifeOf(l)]

Book == INSTANCE LeaseBook WITH
  life <- leaseLife, SessionOf <- [l \in Leases |-> l[1]]

\* The controller and its client implement the ledger of leases.
ImplementsBook == Book!Spec

==============================================================================
