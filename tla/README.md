# Verification of browser-automation

TLA+ models of the browser-automation service, the TLC runs that check them and
the TLAPS proofs about them. Paths are relative to the repository.

- [The system](#the-system): components, state, operations, what is hard
- [The models](#the-models): modules, correspondence with the code, decisions
- [The runs](#the-runs): what each checks, its bounds, the fairness assumed
- [The proofs](#the-proofs): theorems, invariants, what stays with TLC
- [What the checks found](#what-the-checks-found)
- [What is not modelled](#what-is-not-modelled), and what could follow

## The system

A Go service hands out browsers. A client starts a session, which launches a
browser in processes of its own, has commands executed in it, watches it live,
and stops it. Sessions and tasks are rows in postgres; browsers, their workers
and their proxies exist only in the memory of the process.

| Component | State it keeps | Operations | Correct when |
|---|---|---|---|
| session service, `internal/app/session_service.go` | none of its own; a handler's copy of the row | start, get, list, stop, expire on read | no browser, slot or proxy is left to nobody; a repeated request id starts one browser; row and browser agree at rest |
| runtime registry, `internal/adapters/runtime/{camoufox,cloakbrowser}/runtime_core.go` | `Runtime.sessions` under `Runtime.mu` | StartSession, StopSession, Shutdown, capacity | at most `MaxSessions` registered; one owner for each process; a shutdown leaves nothing |
| worker channel, `runtime_worker.go`, `runtime_session.go`, `runtime_live.go` | two pipes, `lines`, the buffered `done`, `workerProcess.mu` | executeTask, captureLiveFrame, dispatchLiveInput, stop | each call gets its own answer; calls and stop return; no process outlives a successful stop |
| python worker, `scripts/worker_main.py`, `playwrightworker/scripts` | page, network log | one request at a time; exit on `stop` | one answer for each request |
| session proxies, `internal/adapters/proxyplugin` | `Controller.sessions`; leases at the remote side | prepare, resolve, release | each lease is released once |
| rows, `internal/adapters/repository/postgres` | sessions, tasks, artifacts | insert, blind update, lookups, offset list | one row for a request id; a walk misses no row that did not change |
| task service, `internal/app/task_service.go` | none of its own | start, execute, get, list | every task reaches a final status; a request id executes once |
| live view, `internal/app/live_view_service.go`, `internal/adapters/http` | signed tokens, sockets, peer connections | create, authorise, frame, input | a connection the viewer has left leaves nothing behind |
| web UI, `webui/src` | reconnect state, query cache | poll the list, WebRTC with a socket as fall-back | what it tells the viewer is true; a dead session is reported |
| validation, `task_validation.go`, `selector_validation.go` | none | one rule for each operation | the worker runs what the service accepts |
| start-up and shutdown, `cmd/browser-automation-service` | none | capacity, graceful stop | no browser outlives the service, but for calls the grace period cut off |

**How they interact.** A request runs on a goroutine of its own. The handlers
of two requests share the rows (through separate statements, with no
transaction around a handler), the registry (through short critical sections)
and the proxy map. The service calls the runtime, which calls the worker over
two pipes; the worker's exit comes back as one message in a buffered channel
that several readers may take. No task runs in the background: a session expires
only when somebody reads it. A live view is the exception: once authorised, a
loop per connection captures frames through the same worker, and callbacks of
the peer connection, an input reader and the browser's own timers run beside it.

**What is hard.** A start takes tens of seconds and can be overtaken by a stop
or an expiry of the same session; the row is read, held and overwritten; the
capacity is checked twice before it is used; a cancelled request context takes
the error path's own writes with it; an answer can arrive after its call gave
up; a full pipe blocks where no timer runs; a process may survive SIGKILL; the
service may end between any two of these steps. A tab reconnects while its old
connection is still being torn down; a page of a list is an offset into an order
that moves. The hazards are listed one by one, at their lines, in PROJECT.json.

## The models

| Module | Models |
|---|---|
| `SessionLifecycle` | start, stop, get and expiry of sessions, with the registry, processes, proxy map and rows they share |
| `BrowserPool` | the abstract specification: what the runtimes promise about browsers |
| `SessionLifecycle_proofs` | theorems about it, and that it implements `BrowserPool` |
| `WorkerChannel` | calls, worker and stop of one session on its two pipes |
| `WorkerChannel_proofs` | theorems about it |
| `TaskLifecycle` | the task calls of one session, their rows, and the worker, as an instance of `WorkerChannel` |
| `TaskLedger` | the abstract specification: what executing commands promises a client |
| `TaskLifecycle_proofs` | theorems about it, that it implements `TaskLedger`, and that what is proved of the channel holds of its worker |
| `ProxyLease` | the proxies of sessions: the controller's map, acquire and release at the remote side with their retries |
| `LeaseBook` | the abstract specification: what becomes of a lease |
| `ProxyLease_proofs` | theorems about it, and that it implements `LeaseBook` |
| `ServiceRestart` | the process around the sessions: drain, runtime shutdown, a failing server, crash, restart. Composes with `SessionLifecycle`, whose actions are its calls |
| `OutagePool` | the abstract specification: `BrowserPool` with shutdowns and outages |
| `ServiceRestart_proofs` | theorems about it, on the invariant of `SessionLifecycle_proofs`, and that it implements `OutagePool` |
| `LiveView` | a tab of the web UI composed with the socket handler and the peers of the service |
| `LiveView_proofs` | theorems about it |
| `ListWalk` | a client's walk over the pages of a list while rows are written |
| `MemoryList` | the lists of the in-memory store, compared with those of postgres |
| `ListWalk_proofs` | theorems about the walk and about the two stores |
| `CommandRules` | the commands of a task: what the service accepts, what the worker runs, how the task ends |
| `CommandRules_proofs` | theorems about it |
| `MCSessionLifecycle`, `MCWorkerChannel`, ... | the instances for TLC, one for each component |

### SessionLifecycle

A handler is a program counter; one action is the code between two points
where another goroutine can get in. Start calls (`startPc`) are named by the
session id they generate, which is fresh. Tear-downs (`endPc`, `target`,
`final`) are goroutines that serve one stop or one reading request after
another.

| Position | Action | Code |
|---|---|---|
| `idle` | `StartLookup` | the dedupe read and validation, `session_service.go:14-35` |
| `admit` | `StartAdmit` | `ensureSessionCapacity`, `:36` |
| `create` | `StartCreate` | the insert under the unique index, `:53` |
| `prepare` | `StartPrepare` | `PrepareSessionProxy`, `:56` |
| `reserve` | `StartReserve` | first critical section of `StartSession`, `runtime_core.go:53-62` |
| `launch` | `StartLaunch` | artifacts directory, proxy, process start, `:63-75` |
| `boot` | `StartBoot` | the waits for the endpoint and for the ready line |
| `register` | `StartRegister` | second critical section, `:81-102` |
| `running` | `StartFinish` | the RUNNING update, `session_service.go:72-79` |
| `abort`, `abortSave` | `StartAbort`, `StartAbortSave` | the error paths, `:57-62`, `:65-70` |
| tear-down `idle` | `StopRead`, `ExpireRead` | the read that decides, `:120-126`, `:161-165` |
| `mark` | `StopMark` | the STOPPING update of a stop, `:129` |
| `take` | `EndTake` | `StopSession` takes the entry out, `runtime_core.go:108-111` |
| `kill` | `EndKill` | stop worker and server, `:115` |
| `release`, `releaseAgain` | `EndRelease`, `EndReleaseAgain` | the runtime's and the service's release of the proxy |
| `save` | `EndSave` | the final update, `session_service.go:151`, `:137`, `:171` |

Decisions:

- `UpdateSession` overwrites the whole row, so `SaveRow` does not look at what
  it replaces. A failed update may have been written (`faulted`): the caller of
  a cancelled statement cannot tell. `Unreliable` names the sessions it can
  happen to.
- The server and the worker of a camoufox session are one browser here;
  cloakbrowser is the same code with the worker alone. `BrowserExit` is a
  process that ends by itself.
- `Unkillable` names the sessions whose processes may survive SIGKILL for the
  second `stopCommand` grants; `stuck` remembers that stop gave up.
- The branch of `StartSession` for an existing entry is kept, though fresh ids
  never take it.
- A profile, a ttl or a browser kind that is refused is a choice of its own
  (`StartLookup` and `StartReserve` may always refuse).
- `raced` and `faulted` are history: no action reads them.

### WorkerChannel

Lines are never reordered, so each pipe is a cursor into the one stream of
lines sent: `taken` by the worker, `answered`, and `readTo` by the callers.
`sent[i]` is the call that wrote the i-th line, and answer i is the answer to
it. `PipeRoom` and `AnswerRoom` stand for the sizes of the two OS pipes (plus
the scanner's one line). The mutex is held while a call is at `write` or
`read`; `stop` takes no lock. `exitToken` is the one message of the buffered
`done`: either a reader or `stop` gets it. An exit may lose answers that were
written but not read, because `cmd.Wait` closes the pipe the scanner reads.
`scanning` says whether anybody still reads stdout: an answer longer than the
scanner's 16 MB ends it (`LineTooLong`, `process_io.go:9-16`) and closes `lines`
although the worker is up. `StdoutClosed` is what a call then finds, at once and
after its line was written; it finds the same once the worker has exited and what
it had written is read. What the scanner had not handed over is lost. A worker
inside such a line may go on (the rest of it fits into the pipe) or be blocked for
ever, and so may stdin (`StdinFull`): a write has neither timeout nor context. A
call's answer is decoded by type only, so a call succeeds with any answer of
its type. Calls are one-shot, and a call may still be in flight when `Stop`
begins, but none begins after: `StopSession` took the session out of the
registry first. The closing of a context and browser on exit is part of `Exit`.

### TaskLifecycle

It composes the task handlers with `WorkerChannel`: `pc`, `sent` and the other
variables of the channel are shared, and every action either is one of the
channel's with something of the handler around it, or leaves the channel alone
(`ImplementsChannel`). A task id is fresh for every call, so a call is named by
the task it may create.

| Position | Action | Code |
|---|---|---|
| `idle` | `Lookup` | the dedupe read and, after it, the validation, `task_service.go:59-80` |
| `check` | `Check` | `GetBrowserSession` and its status, `:81-87` |
| `create` | `Create` | the insert under the unique index, `:103` |
| `execute` | `Find`, `Miss` | the session is, or no longer is, in the registry, `runtime_core.go:157-168` |
| `await` | `ChannelStep`, `Perform` | `executeTask` and the worker |
| `await`, `save` | `Save` | the update with what the runtime returned, `task_service.go:107-122` |

Decisions:

- A task whose row says RUNNING has a handler that is executing it: this model
  has no restart of the service. After one the row stays RUNNING, since nothing
  in the code looks at it again.
- `EnqueueTask` of both runtimes does nothing, so a queued task returns at once
  and stays QUEUED; the error path behind the enqueue cannot be reached.
- `broken` names the tasks with a command that ended them. A command that fails
  with `continue_on_error` breaks nothing, as in `02_execute_task.py`.
- `results` keeps whose results a row holds; their content tells nothing apart.
- `Unreliable` names the tasks whose writes may be lost or go unacknowledged,
  as when the request's context is cancelled: `UpdateTask` runs under the same
  context that ended the execution. `faulted` is history.
- `CloseSession` is a stop or expiry of the session in the store; taking it out
  of the registry is the channel's `Stop`. They are not ordered, as in
  `SessionLifecycle`.
- `LineTooLong` is a step of the worker here as well: the results of a task are
  what makes a long answer.

### ProxyLease

A session's call is its `PrepareSessionProxy`; any number of `Releases` may be
called for it, because the runtime's error paths, the service's, a stop and an
expiry all call it. `SessionLifecycle` says who calls when; here a release may
come at any time after the session's row exists.

| Action | Code |
|---|---|
| `PrepareLocal`, `PrepareRemote` | `resolveSelection` and the profile's new `ProxyRef`, `controller.go:53-142`, `:144-149` |
| `Acquired` | the answer with a usable lease, `proxy_runtime_client.go:78-95`, and the map entry, `controller.go:69-71` |
| `ResolveSessionProxy` | what the launch asks for, `controller.go:75` |
| `ReleaseSessionProxy` | the entry is read and deleted, `controller.go:85-96` |
| `Send`, `Retry`, `GiveUp`, `Released` | one attempt of `post` and the three ways it ends, `proxy_runtime_http.go:19-64` |
| `Cancel` | the request's context ends |
| `CarryOut` (external) | the remote side does what an attempt asks |

Decisions:

- Nothing in a request identifies its attempts to the remote side (the session
  id is a label), so each attempt that is carried out acquires its own lease,
  which is named by the attempt. A remote side that recognised the label would
  leave fewer leases behind.
- An attempt on the `wire` is carried out at any time or never, whatever became
  of its call: a time-out, a reset connection and a status of 500 say nothing
  about it.
- Waiting before a retry and the attempt that follows are one position, `send`:
  both only look at the context.
- A lease is held until it is given back: the remote side's own expiry of
  leases is not modelled, and would only shrink `held`.

### ServiceRestart

It extends `SessionLifecycle`: its calls are that module's actions, for as long
as there is a process (`During`), and new ones only while a listener accepts
them. Around them:

| Action | Code |
|---|---|
| `Signal` | the signal context ends, `shutdownServers` stops the listeners, `main.go:188`, `shutdown.go:19-30` |
| `ShutdownTake` | the deferred `Runtime.Shutdown` copies and empties the registry, `runtime_core.go:123-130` |
| `ShutdownStop`, `ShutdownRelease` | each entry it took, one after another, `:132-134` |
| `Exit`, `Crash` | the end of the process, in order or not: calls end where they are, the maps are lost, rows and browser processes stay |
| `Restart` | `run` again, on what the rows say |

Decisions:

- The drain waits for calls, but not longer than the grace period, so
  `ShutdownTake` may come while calls are in flight; it may also come without a
  drain, because a server that fails makes `run` return with the other server
  still listening.
- A browser runs in a process group of its own, so it survives its service.
- `late`, `cut` and `leftBehind` are history: sessions a call was about after the
  snapshot, sessions whose browser a shutdown or a crash took, and sessions with
  a browser process when a process life ended.
- `serviceLife` maps the service to `OutagePool`: `browserLife` for a session the
  shutdown does not hold, and one that is being stopped for the others. A session
  that the shutdown shared with anybody would be mapped to no life of the pool.
- The live token key is made anew by each start, so a restart ends all live
  views; `LiveView` has that as a connection that breaks and a view that expires.

### LiveView

Each attempt of the tab to connect is a link: the server's loop (`serve`), its
input reader or callback (`input`), the wire, the peer's context (`ctx`), an error
message on its way (`mail`), and whether the tab has seen it open. A link is used
again when nothing is left of it, or only what waits for ever (`Over`, `Remains`), so the number of links bounds how many are torn down
at a time, not how often the tab reconnects.

| Action | Code |
|---|---|
| `Upgrade`, `CreateAnswer`, `Answer`, `ChannelOpens` | authorisation and set-up, `server.go:130-206`, `live_webrtc.go:96-156` |
| `Tick`, `Capture`, `Tell`, `SendFails`, `Leave` | the two frame loops, `server.go:206-226`, `live_webrtc.go:179-213` |
| `InputEnds` | `readLiveMessages` and its channel of capacity one, `server.go:228-253` |
| `Wedge`, `Dispatch` | a capture and a dispatch that wait for the mutex or the stdin of a wedged worker, `runtime_live.go:41-75` |
| `Deadline`, `PeerGone`, `ClosePeer` | the peer's context and what ends it, `live_webrtc.go:100-114`, `:158` |
| `Connect`, `Opened`, `Lost`, `ConnectTimeout`, `Message` | the hook of the transport in use, `use-browser-live-rtc.ts`, `use-browser-live-socket.ts` |
| `FallBack`, `Refetch`, `Close` | `use-live-view.ts`: the transport changes, another view is created, the tab goes away |

Decisions:

- One module has both hooks, because exactly one of them has a path: `Use` is
  the clean-up of one and the first effect of the other.
- The effect that falls back on an error runs before the next event
  (`Rendered`), as React runs effects before it handles one.
- A negotiation that fails after its peer was replaced cannot happen: its
  promise is settled by the close of the peer, or the hook is already waiting for
  the reconnect it would schedule. What can happen is in `Opened` (the handlers
  of a peer stay until its successor is created) and in `Message` (a fatal error
  leaves `connected` set).
- On a worker that is not wedged a capture ends with a frame or an error at any
  time: an error may be the end of its five seconds, which are only looked at once
  it has the mutex and has written its line. What it leaves in the pipes is
  `WorkerChannel`'s.
- `Wedge` is the other case, finding 3: the worker's stdin is full and the worker
  neither reads on nor exits. Captures and dispatches in flight that had not written
  their line, and all later ones, are `blocked` for ever, because `worker.mu.Lock`
  and `stdin.Write` (`runtime_live.go:47-49`, `:65-67`) look at no context. A stop of
  such a session takes it out of the registry and waits as well: from then on new
  captures fail, the blocked ones stay. A wedge counts as one of the upsets.
- Only cloakbrowser has live views; the session is reduced to running, failing
  (its captures fail, its row still says RUNNING) and ended.

### ListWalk

`stamp` is what a list is ordered by, `shown` the rows its filter selects. Handlers
take times of nanoseconds. The columns of postgres are `timestamptz`
(`migrations/0001_browser_automation_store.sql:7-8`, `:31-32`), which keep microseconds:
its order (`Position`) is that of the times divided by `Resolution`, the id breaking
ties. The in-memory store compares the protobuf times to the nanosecond
(`memory_session.go:68-75`, `memory_task.go:69-76`). `NewerBy` is the one order
in both units. Ids are compared alike by both, and a filter selects the same rows in
both: limits on `created_at`, which also meet two resolutions, are left out. A
handler takes its time before it writes (`Take`, `Save`), so what it stores may be
older than what is there: `UpdateSession` is blind. A list of sessions writes too:
it looks at each session of the page it has read, expires those whose ttl has
passed, and fails with the first it cannot write (`Expire`, `Expired`, `Fails`);
the client then asks for the page again. `MemoryList` has the lists of the
in-memory store, a sort and a slice, and compares them with the query. Rows of one
microsecond whose ids do not follow the order of their nanoseconds (`Swapped`) are
the only ones the two stores may page differently.

### CommandRules

A command is reduced to what some rule looks at: whether a selector, a group of
selectors, a point, a word or an amount is there, and what becomes of it in the
JSON between the two programs (a point at the origin has no fields left, a blank
selector is still an element of its group). `Accepts` is `validateCommand` with the
validators it calls; `Runs` is what the worker's handlers demand before they touch
the page. `Execute` runs the next command with any outcome its operation has, and
stops the task at a failure that `continue_on_error` does not excuse.

## The runs

| Run | Instance | Shows |
|---|---|---|
| `session_races` | 2 sessions with 1 request id or none, 2 tear-downs, 1 slot | the processes the limit allows, ownership, one browser for a request id, agreement at rest, refinement of `BrowserPool` |
| `service` | 1 session, 1 tear-down, 1 restart, all faults | what a shutdown leaves, agreement across restarts, refinement of `OutagePool`; calls return, polling frees slots and ends rows |
| `session_ttl` (violated) | 1 session, 1 tear-down, polled | a slot that is never given back |
| `worker_calls` | 2 tasks, 1 live frame, stop, room for 1 line in each pipe, an answer that is too long | where every line is; answers lag by the time-outs before them; what a stop's verdict is worth; calls and stop return unless stdin stays full for ever |
| `worker_answers` (violated) | the same, room for 4 lines | a task that succeeds with another task's answer |
| `worker_pipes` (violated) | as `worker_calls`, with a worker that goes on whenever it can | a stop that never returns |
| `tasks` | 2 executions, 1 request id, lost updates for one, stop | one execution for a request id; rows, answers and what clients were told agree; refinement of `WorkerChannel` |
| `task_ends` | 1 execution, 1 queued task, 1 request id, lost updates for one, stop, pipes of 1 line | an accepted execution ends unless stdin stays full for ever; one task for a request id; refinement of `TaskLedger` |
| `leases` | 1 session, 2 releases, 3 attempts | where every lease is; the route of the browser; refinement of `LeaseBook` |
| `live` | 1 tab, 2 links, 1 reconnect on each transport, 1 upset (the network's, a wedged worker or another view) | what the viewer is told is true; one connection at a time; connections leave nothing behind, and a dead session is reported, but for what a wedged worker blocks |
| `lists` | 3 rows, 1 writer and the lister, pages of 1, times up to 3, 2 to a microsecond | a walk misses no row that did not change; both stores page alike but within one microsecond |
| `commands` | each operation with every combination of what its rules look at; all pairs and triples of three that succeed, fail or are refused, each soft or not | the rules of service and worker agree but for the named gaps; a task ends as its commands did |

**Properties.** Most relate several actors and several pieces of state:

- `ProcessesBounded`: the limit is on registered browsers, but its memory is spent
  by processes. Those nobody gave up on exceed it by the starts that are launching
  and the sessions being stopped, and by no more. The check that keeps the limit
  is the third (`CapacityRespected`, proved with it); the first two are made long
  before the entry is added.
- `NoOrphanProcess`: a process that stop has not given up on is owned by its
  start, the registry or one tear-down.
- `ImplementsOutagePool`: through shutdowns, crashes and restarts each session's
  browser has one life and one stopper, and no later life of the service finds,
  hands out or stops what an earlier one had.
- `OneBrowserPerRequest`: two starts with one request id never both get a
  browser, whatever their dedupe reads saw.
- `QuietAgreement`: when no call about a session is in flight, row, registry,
  processes and proxy agree. The exceptions are exact: a tear-down that began
  before the start returned (`raced`) and an update that was not acknowledged
  (`faulted`). So these are the only ways to a leak.
- `LagLaw`: a call's answer and its own place in the stream differ by the
  number of earlier lines whose answer was never read in its turn.
- `LinesAccounted`: while the worker runs, every line that was written had one
  answer read, belongs to a call that gave up, found stdout closed or is reading, or
  is the stop line; and stdout is closed by a line that is too long only. Nothing
  takes an answer back that nobody waits for.
- `CallsReturn` and `StopReturnsOnceTold` of the worker: a call that has written its
  line returns whatever the worker does, and so does a stop whose line is written.
  To come that far each needs a stdin that does not stay full for ever, and nothing
  else: not the mutex, not the exit it may have lost to another reader.
- `StopVerdict`: a stop that returns no error leaves no worker process
  (`StopSuccessMeansGone`). One that returns an error is right too, unless a call
  had taken the exit it was waiting for.
- `ExecutedOnce` and `SameAnswer`: calls that repeat a request id, also while
  the first is in flight, run its commands once and are told of one task.
- `ToldIsTrue`: how a client was told a task ended is what the row says from
  then on; the one exception is a write that was not acknowledged.
- `OwnResults`: as long as no call on the worker has given up, a row holds the
  results of its own task and a task that failed in the browser is not
  SUCCEEDED. `worker_answers` shows why the condition is needed.
- `EndedStays`: nothing writes a row that has ended, because each has one
  writer, although the update is as blind as that of a session.
- `ImplementsLedger`: a request id is accepted once, run at most once and closed
  once, and what was only queued is neither run nor closed.
- `RowsEnd`: an accepted execution ends, whatever the worker does, unless its updates
  are lost, or the worker's stdin stays full for ever: then the write blocks with the
  mutex held (finding 3), and the row stays RUNNING.
- `LeaseAccounted`: a lease the remote side holds is remembered, asked for, or
  being returned - or left behind in one of two ways: its answer was never read,
  or its one release failed after the map had forgotten it.
- `OneReturn`: of the up to four releases of one session one posts its lease.
- `RouteAsProfile`: a stop that overtakes a start makes the browser connect
  directly although its profile names a proxy; nothing else does.
- `ShutdownLeavesOnlyLate`: what a shutdown that ran to its end leaves belongs to
  calls that its grace period did not wait for, or that a server accepted after
  the other had failed.
- `AgreementAcrossRestarts`: a shutdown or a crash is the third and last way to a
  session at rest whose row and browser disagree.
- `ExpiredRowsEnd`: such a row ends once its ttl has passed and somebody reads it,
  although the service that reads it never had the browser.
- `OneConnection`: a tab has no connection open but the one it watches, whatever
  made it change the transport, the view or the attempt.
- `ConnectedIsServed`: a tab that says it is connected is, or is about to learn
  that it is not. Three exceptions: a peer whose frame could not be sent, which its
  pump leaves open behind it, a channel that opened when its successor was due, and a
  loop that a wedged worker blocks.
- `ConnectionsEnd`: handler, reader, pump, peer and context of a connection the tab
  no longer holds end; so does a peer whose view expired. A socket that the tab
  keeps outlives its view for as long as captures succeed. What waits for a wedged
  worker stays for ever: the blocked loop or dispatch, and the request of its socket;
  the rest of its connection ends.
- `ViewerTold`: once captures fail the viewer sees an error and no connection,
  whichever transport, whatever was lost, for as long as it stays. One viewer is
  never told: the one on a socket whose handler is blocked on a wedged worker. A
  blocked peer's context ends with its view, which closes it.
- `UntouchedListed`: a walk to the last page has shown every row that was there
  when it began and was not written since. Two exceptions, both in `shrunk`: a
  write with an older time than the row's, and a task that leaves the filter.
- `StoresAgree`: for every offset the two stores return the same next token, and a row
  is on the page of both or of neither, unless another row of its microsecond was
  stamped in an order their ids do not follow.
- `AcceptedRuns`: the worker turns down exactly the accepted commands that have a
  `Gap`: `evaluate` (its script is read under `expression`, which the message does not
  have, `14_handlers_extract.py:108`), `upload_file` (no resolver, `:81`), a selector
  behind a group of blank ones (`32_locator_group.py:8-11`), and a point at the
  origin where only a point tells where (`40_geometry_extract.py:9-11`).
- `EndsAsCommands`: a task fails with its first failure that may not be skipped,
  and no command runs after it.

Some properties are stated and proved but not checked by a run of their own,
because another property of the run says more or a bounded run says little:
`CapacityRespected`, `StopSuccessMeansGone`, `OneStopper`, `LeftBehindOnly`,
`NoRevival`, `ServiceProcessesBounded`, `WedgedByUnread`, `ShiftedResults`,
`GivenUpIsTold`, `StillWalk`, and the types of `WorkerChannel` and `LiveView`. TLC found each of them
true at the bounds of its module's run before it was proved.

**Bounds.** One slot and two sessions are the smallest instance in which
admission can be raced; two tear-downs of one session are the smallest in which
they can race each other. A third session adds no new kind of step, since
sessions meet only in the size of the registry and in a request id, which two
share. Three calls are enough for an answer to be shifted over one call and
refused by another of a different type. With room for one line in each pipe they
also fill both: an abandoned answer in stdout, one the worker waits to write, a line
in stdin, and a call or the stop behind it; and an answer that is too long needs only
one call before it. `worker_answers` has room for four lines, which shows that
finding 2 needs no full pipe. The safety properties of all models are proved without these bounds. Two
executions are the smallest instance with a repeated request, or with an answer
that can be somebody else's. A queued task differs from them only up to its
insert; `task_ends` pairs it with an execution. Live calls on the same worker
are left to `worker_calls`: what they do to tasks is `WorkerChannel`'s, and the
theorems cover them. In `tasks` room for three lines never blocks two tasks and a
stop, since it asks what becomes of lines that were written; in `task_ends` pipes of
one line let the stop line or the task be the one that waits. In
`leases` three attempts are the code's number, two releases are the smallest
race for an entry, and sessions share nothing, so one is enough.

`session_races` has the one constraint of the project, `SameRequest`: the starts
carry one request id or none, which are the two cases its formulas tell apart.

In `service` one session is enough for what a shutdown, a crash or a restart does to
it, since sessions meet only in the size of the registry, which `session_races`
covers; one restart is the smallest number with a life before and a life after. Its
theorems hold for any number of both. In `live` a tab holds one link while another
is torn down, which is all that two ends can disagree about; the code's two and five
attempts are one each, because a bound is reached in the same way, and `MaxUpsets`
counts failures of the network, the wedged worker and further views together; both
links can be blocked by the one wedge. In `lists` pages of
one row make every row a page boundary; three rows are enough for one to cross it
while another is written, and three times for a write that is older than its row.
With two nanoseconds to a microsecond the times 2 and 3 share one, and 1 does not.
In `commands` single commands are exhaustive; triples are enough for a soft failure, a
hard one and a command that must not run.

Symmetry is used for `session_races` only, whose formulas do not tell sessions,
tear-downs and request ids apart, and for no run with a liveness property.
Deadlock is not checked: calls are one-shot, tabs leave, walks and tasks end, and
the bounds on restarts, upsets and the clock are reached, so every model may stop.

**Fairness.** `FairSpec` of the session model is weak fairness of each handler's
next step: store calls end with the statement timeout, the proxy client's with
its HTTP timeout and three attempts, a launch with the startup timeout, a stop
with its escalation. That last bound needs room in the worker's stdin for the
stop line, which `worker_pipes` shows can be missing. Clients owe nothing.
`PolledSpec` adds that every session is read again and again: the web UI's home
page does so every five seconds (`webui/src/routes/home-route.tsx:45`), for the
sessions of its page and while no earlier one on it fails to expire
(`session_service.go:110-113`). The fairness is strong because both goroutines
may be busy between reads. In `WorkerChannel`, `Lock` is strongly fair (a Go
mutex hands over to a waiter that has starved), a caller and `stop` are weakly
fair (their timers fire), and the worker owes nothing in `FairSpec`: a script
in a page may keep it for ever. No fairness empties a full stdin, which is why
`CallsReturn` and `StopReturnsOnceTold` name one that stays full. `HealthySpec` adds a
worker that goes on for as long as its stdout is read (inside a line that is too
long it may be blocked), so that `worker_pipes` blames neither of them. `FairSpec` of the task model is the sum of
the two: each handler's next step, and the channel's callers. Neither worker nor
stop owes it anything. In `ProxyLease` a call is weakly fair (the http client's
timeout, the timer between attempts); the remote side owes nothing.
`ServiceFairSpec` is `FairSpec` with polling, plus the shutdown's own steps, which are
bounded by the grace period and by the timeouts of each stop; nothing makes the
service start again or stop. In `LiveView` loops, callbacks, timers and events go on
and time passes, so a view expires; leaving a loop is strongly fair, because a Go
`select` takes a ready branch at random, and one that is ready again and again is
taken. A capture that waits for its answer is fair, since `readLine` ends with its
context; one that is `blocked` on a wedged worker has no step, and nothing ends it. Nobody has to stop the session, fetch a view or leave.

## The proofs

Assumptions on the constants: `MaxSessions` is positive, `Sessions` is a finite
set (so that a registry has a size), the empty request id and the idle target
are no ordinary ones, the stop line is no call, and pipes have room for a line.
Executions, queued tasks and live calls are different calls. Sessions and
releases are different calls, and at least one attempt is made. No link is the
absent link, attempts and upsets are counted by natural numbers. Rows are finitely
many numbers, the lister is no writer, page sizes and the resolution of postgres are
positive. Submissions are
sequences of commands.

`SessionLifecycle_proofs` proves `[]IInv` for the conjunction of

- `TypeOK`, `CapacityRespected` and `QuietAgreement`;
- `Ownership`: `NoOrphanProcess` and `SingleOwner`, which need two facts about
  starts to be inductive. Until a start has registered its browser nobody else
  holds it (`NotServedYet`), and before the launch there is no process
  (`NoProcessYet`);
- `RowsExist` and `OneRowPerRequest`: a start that is past its insert has a row,
  and no two rows carry one request id. `OneBrowserPerRequest` follows, since
  only a session with a row has a process;
- `Undisturbed`: what row, registry and proxy are at each position of a start
  and of a tear-down, for a session without history. Without it the last step of
  a call would not be known to leave them in agreement.

Each part has an initial lemma and a step lemma; a step lemma has one step for
each kind of handler and, under it, one case for each action. Capacity follows
from how a step changes the registry (`RegistryStep`): it is added to only while
there is room. `PoolTheorem` maps each step under the invariant to a step of
`BrowserPool` or a stutter; `browserLife` is the refinement mapping, and the
registry, which holds every browser that serves, bounds them. What each action
does to the lives is one lemma for both pools: `NextLives`, which says that a step
changes none (`SameLives`) or moves one along an arc (`LifeMoves`).

`ProcessesBounded` counts: a process nobody gave up on is in the registry, at a start
that is launching or in the hands of a tear-down (`Ownership`), so all of them fit
into three finite sets whose sizes add up (`UnionBound`, `OwnedBound`). `NoRevival` is
an action property about the blind write of RUNNING. It needs a part that survives
lost updates, which `Undisturbed` does not: while a start that nobody raced is in
flight its row is STARTING and no tear-down is about it (`StartOwnsRow`), whatever
was lost. The other blind
write of an open status is the STOPPING of a stop, which the property allows.

`WorkerChannel_proofs` proves `[]IInv` for `TypeOK`, `ExitSeen` (nobody has seen
an exit that has not happened) and `LagInv`: `LagLaw`, one holder of the mutex
(`OneHolder`), one line for each call (`SentOnce`), how far the next answer is
behind the call that reads (`ReaderLag`), and how many lines were read or
skipped while nobody reads (`IdleLag`). `LagLaw` speaks of calls that have read,
so it is not inductive: the lag must be known when a line is sent and while its
call waits. The steps that matter are the ones that send a line, read an answer
or give up; each has a lemma. `OneTimeoutShiftsAll` is the consequence worth
reading: a call reads its own answer if and only if no earlier line was skipped.

Its last conjunct, `AnswersToCalls`, says that the worker answers requests only
and that an answer somebody holds was read. It gives `OwnAnswersTheorem`: while
no call has given up every call reads its own answer, wherever the stop line
falls among the requests.

The cursors alone do not say how much lies in the pipes. `CountInv` counts it:
`LinesAccounted` with the finiteness of the sets it counts. `NextCount` has one case for each kind of step, and the ones that
touch no count (`UncountedStep`) are disposed of at once. `WedgedByUnread` follows: a
worker that waits to write while stdin is full and nobody reads has as many calls that
gave up behind it as both pipes have room, and one more - or one line that was too
long, and then as many calls without an answer as stdin has room, and one more (the
stop line may be one of them). Finding 3 needs that many and no fewer, whatever the
sizes. `StopVerdict` needs `ExitHandedOver`: once the worker has
exited, its exit is in the channel, was taken by a call, which then failed, or was
taken by stop.

`TaskLifecycle_proofs` first maps every step to the channel (`ChannelTheorem`).
The invariant of `WorkerChannel_proofs`, cited through an instance, then holds
of the tasks' worker and is not proved again. Its own invariant is `TaskInv`:

- `Waiting` and `RowOfTask` tie the handler to its call and to its row: no row
  before the insert, RUNNING until the one update. `EndedStays` is what they
  say of `Save`, and `ToldIsTrue` is inductive with them;
- `RowBeforeCall` and `OneRow` with `SentOnce` of the channel give
  `ExecutedOnce`: a line is sent for a row, and a request id has one row.
  `ToldOwn` and `OneRow` give `SameAnswer`;
- `AnsweredSent` and `SucceededAnswered` with `OwnAnswers` of the channel make
  `OwnResults` inductive: the worker cannot break a task it has answered.

`ShiftedTheorem` is what finding 2 comes to in the rows: with `ReadResults` (what a row
holds is what its call read) and `LagLaw` of the channel, a row holds exactly the
results of the task as many lines before its own as were not answered in turn.

`LedgerTheorem` maps `Create` to `Accept`, the channel's `Write` to `Run`, and
`Save` to `Close` or a stutter.

`ProxyLease_proofs` proves `[]IInv` for `TypeOK`, `OneReturn`, `RouteAsProfile`
and what makes them inductive: where an attempt can be (`Counted`, `WasSent`),
that only the last attempt of a call that returned is ever remembered or carried
(`WasRead`, `OwnEntry`, `NothingYet`), that a lease stays until a release that
carries it asks for its return (`HeldUntilAsked`) and is gone once one such
attempt was carried out (`DroppedWhenAsked`), and that a call that returned has
not lost its lease (`Kept`). `LeaseAccounted` and `RememberedIsHeld` follow.
`BookTheorem` maps each step to one of `LeaseBook`: attempts to `Ask`, `Retry`
and `GiveUp` to leases that are unread or kept, `CarryOut` to `Grant` or `Drop`.

`ServiceRestart_proofs` proves an invariant `SInv` of its own. Where a step is one of
`SessionLifecycle`'s the step lemmas of `SessionLifecycle_proofs` are cited for the
parts that survive a restart (types, capacity, rows and request ids); ownership and
agreement are stated again with the shutdown as a further owner (`HasOwner`) and
with `cut` as a further exception (`Calm`), because a crash breaks them as they
stand there. `LateLaw` carries the shutdown: after its snapshot a browser is in the
hands of a late call, of the snapshot or of nobody anyone refers to.
`OutageTheorem` maps calls by `NextLives`, `ShutdownTake` to `RetireAll`, each stop of
the shutdown to `Reap`, and the end of a process life to `Outage`; it needs that
the shutdown shares what it stops with nobody (`OneServiceLife`) and that what
serves is registered (`ServiceServing`). `ServiceProcessesBounded` has the snapshot as a
fourth set. `RevivalAcrossRestarts` cites the steps of `SessionLifecycle_proofs`, since
nothing around the calls writes a row.

`LiveView_proofs` proves `LiveTypeOK` and `ConnectedIsServed`, whatever a wedged worker
blocks. The second is not inductive: it needs what the tab's hook says of the link it holds (a link it has
seen open was streaming once, a link at rest is held by nobody), and what the two
ends of a link can be at a time. `OneConnection` and `GivenUpIsTold` are parts of that
strengthening which say something on their own.

`ListWalk_proofs` proves `UntouchedListed` from `Owed`: a row that was there, was not
written and was not shown yet stands at or behind the offset of the page to be
served. Two facts carry it. A position is the number of rows ahead, and a write
with a newer time only adds rows ahead of one that is not written (`MovesBack`); and
a page that has no row more ends the list, because the rows ahead of one behind it
fill every position up to its own: rows have places of their own, so as many rows as
there are positions take all of them (`PlacesDiffer`, `PlacesTaken`, `MoreFollow`; a
count of finite sets, since induction over data is out of the prover's reach).

`StoresAgree` compares a query with a sort and a slice. The sort of the in-memory
store is a choice of a sorted sequence, and two facts make it usable: there is one,
the function that puts each row at its place (`SortExists`), and any sorted one is
that function (`SortedPlaces`), because the row at a place has as many rows ahead of
it as there are places before. They hold of the order in any unit of time
(`PlaceBy`), the in-memory store's and postgres's. A page of the in-memory store is then
the rows whose places, to the nanosecond, are in the window (`PagesByPlace`); a row that
is swapped with no other has the same rows ahead of it in both units, hence the same
place (`SamePlaceUnlessSwapped`). `StillWalk` is the exact form of what a walk shows when nobody
writes: the rows before its offset, each once, so all of them at the end.

`CommandRules_proofs` proves `RulesAgree`, that an accepted command is refused by the
worker if and only if it has a gap, by cases on the operation, and both theorems
from it and the shape of `results`.

Only TLC shows the liveness properties (`CallsReturn`, `ExpiryFreesSlot`,
`ExpiredRowsEnd`, `StopReturnsOnceTold`, `RowsEnd`, `ConnectionsEnd`, `ViewerTold`): the prover
has no rules for fairness and ENABLED here. Every other property of a passing run is a
theorem. The three violated properties are counterexamples, which TLC finds.

## What the checks found

1. `TtlFreesSlot`: when a stop overtakes a start and its STOPPED is saved last, the
   row is final, the browser is registered, and get, list, stop and expiry all
   return early. The slot and the processes are held until the service ends.
2. `AnswerMatches`: the task id in an answer is decoded and never compared
   (`worker_response.go:13`), so after one time-out every later call of the
   session reads somebody else's answer.
3. `StopReturns`: the stop line is written before any timer is set
   (`runtime_worker.go:99`). When abandoned answers fill stdout and requests
   fill stdin, the worker, the writer that holds the mutex, and stop wait for
   one another. No signal is ever sent. An answer over 16 MB, which ends the reading
   of stdout (`process_io.go:12`), is the shorter way there. `WedgedTheorem` says what
   it takes: calls that gave up, as many as both pipes hold lines and one more, or such
   an answer and then calls that found stdout closed, as many as stdin holds and one
   more.

Weaknesses that no document of the repository rules out are exceptions that the
properties name, and the only ones: the blind RUNNING over a final row
(`session_service.go:76`; `NoRevival` shows that only a race with the start brings it
about) and the other races and lost updates in `QuietAgreement`, the
leases in `LeaseAccounted`, the direct connection in `RouteAsProfile`, the calls a
shutdown does not wait for in `ShutdownLeavesOnlyLate`, the browsers a crash leaves in
`AgreementAcrossRestarts`, the peer whose send failed in `ConnectedIsServed`, what a
wedged worker blocks for ever in `RowsEnd`, `ConnectionsEnd` and `ViewerTold` (finding 3,
seen by the tasks and the viewers of its session), the rows of one microsecond that the
two stores order differently in `StoresAgree`, and the commands that are accepted but never run in `AcceptedRuns`.

## What is not modelled

Postgres itself, HTTP, the browsers, the network and the proxy service are external:
their effect on the state is modelled where the code meets them.

- gRPC server: a stateless mapping of requests to the services.
- Capacity from a memory limit (`capacity.go`): one formula a unit test reaches; the
  models take any positive limit.
- What a page does with a command, the network log, page state and geometry: data of
  Playwright that no property tells apart. Options and fingerprints as well.
- The in-memory store's writes: those of postgres under one mutex.
- Signing of live tokens: cryptography. Environment variables, URL and JSON helpers,
  the plugin registry (written once at start-up), migrations, generated code and the
  UI's rendering have no behaviour to check.

What could follow: the composition of `SessionLifecycle` with `TaskLifecycle` (the
registry entry `Find` relies on), with `ProxyLease` (which releases a session really
makes) and with `LiveView` (when its captures fail). Each pair meets in a few
variables, but their product is beyond TLC at the bounds above.
