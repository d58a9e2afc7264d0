---------------------------- MODULE TaskLifecycle ----------------------------
(***************************************************************************)
(* Tasks of one session: ExecuteBrowserCommands and StartBrowserTask of    *)
(* internal/app/task_service.go, their rows in the store, and the worker   *)
(* of the session, which WorkerChannel describes. Other calls on the same  *)
(* worker (live frames and input) and its stop are WorkerChannel's own.    *)
(*                                                                         *)
(* A handler is a program counter, as in SessionLifecycle. A task id is    *)
(* fresh for every call, so a call is named by the task it may create. The *)
(* session has started; another goroutine may close it at any time.        *)
(***************************************************************************)
EXTENDS Naturals, Sequences, FiniteSets

CONSTANTS
  ExecuteCalls,  \* calls of ExecuteBrowserCommands, and their task ids
  QueueCalls,    \* calls of StartBrowserTask, and their task ids
  FrameCalls,    \* live frames on the same worker
  InputCalls,    \* live input on the same worker
  RequestIds,    \* the request ids clients send
  NoRequest,     \* an empty request_id: the service generates a fresh one
  NoTask,        \* no task
  Unreliable,    \* tasks whose row updates may fail or go unacknowledged
  StopLine, PipeRoom, AnswerRoom   \* as in WorkerChannel

Tasks == ExecuteCalls \cup QueueCalls

ASSUME TasksAssumption == ExecuteCalls \cap QueueCalls = {} /\ NoTask \notin Tasks
ASSUME RequestAssumption == NoRequest \notin RequestIds
ASSUME LinesAssumption ==
  /\ StopLine \notin Tasks \cup FrameCalls \cup InputCalls
  /\ Tasks \cap (FrameCalls \cup InputCalls) = {}
  /\ PipeRoom \in Nat \ {0} /\ AnswerRoom \in Nat \ {0}

VARIABLES
  pc, got, sent, taken, answered, readTo,          \* as in WorkerChannel
  worker, scanning, exitToken, stopPc, stopFailed,
  taskPc,     \* where the call of each task is
  req,        \* the request id that call was given
  row,        \* status of the task's row in the store
  results,    \* the task whose results the row holds
  told,       \* what the call returned: a task and the status it was seen in
  broken,     \* tasks with a command that failed in the browser
  open,       \* the session's row is RUNNING
  faulted     \* history: a write of the row was not acknowledged

Channel == INSTANCE WorkerChannel WITH TaskCalls <- ExecuteCalls

channelVars ==
  <<pc, got, sent, taken, answered, readTo, worker, scanning, exitToken, stopPc, stopFailed>>
handlerVars == <<taskPc, req, told>>
rowVars == <<row, results, faulted>>
vars == <<channelVars, handlerVars, rowVars, broken, open>>

------------------------------------------------------------------------------

TaskPc == {"idle", "check", "create", "execute", "await", "save", "done"}

FinalStatus == {"SUCCEEDED", "FAILED"}
Status == {"absent", "QUEUED", "RUNNING"} \cup FinalStatus

Nothing == [task |-> NoTask, status |-> "absent"]

Init ==
  /\ Channel!Init
  /\ taskPc = [t \in Tasks |-> "idle"]
  /\ req = [t \in Tasks |-> NoRequest]
  /\ row = [t \in Tasks |-> "absent"]
  /\ results = [t \in Tasks |-> NoTask]
  /\ told = [t \in Tasks |-> Nothing]
  /\ broken = {}
  /\ open = TRUE
  /\ faulted = {}

TaskTo(t, to) == taskPc' = [taskPc EXCEPT ![t] = to]

Return(t, task, status) ==
  /\ TaskTo(t, "done")
  /\ told' = [told EXCEPT ![t] = [task |-> task, status |-> status]]

\* The call returns an error and no task.
Refuse(t) == TaskTo(t, "done") /\ UNCHANGED told

Acks(t) == IF t \in Unreliable THEN BOOLEAN ELSE {TRUE}

\* The rows that carry a request id.
Holders(r) == {u \in Tasks : row[u] # "absent" /\ req[u] = r /\ r # NoRequest}

------------------------------------------------------------------------------
(* The two handlers up to the insert.                                      *)

\* The dedupe read comes before the validation of the input: a repeated request
\* id returns the task it created, in whatever state it is by now.
Lookup(t, r) ==
  /\ taskPc[t] = "idle"
  /\ req' = [req EXCEPT ![t] = r]
  /\ \/ \E u \in Holders(r) : Return(t, u, row[u])
     \/ Refuse(t)
     \/ Holders(r) = {} /\ TaskTo(t, "check") /\ UNCHANGED told
  /\ UNCHANGED <<channelVars, rowVars, broken, open>>

\* GetBrowserSession, and the test that the session is RUNNING.
Check(t) ==
  /\ taskPc[t] = "check"
  /\ \/ Refuse(t)
     \/ open /\ TaskTo(t, "create") /\ UNCHANGED told
  /\ UNCHANGED <<channelVars, req, rowVars, broken, open>>

\* Mutant of FirstStatus: a row with the status nobody set.
StatusUnset(t) == IF t \in QueueCalls THEN "QUEUED" ELSE "UNSPECIFIED"

FirstStatus(t) == IF t \in QueueCalls THEN "QUEUED" ELSE "RUNNING"

\* Mutants of Create: no unique index on request_id; an insert that resets the
\* task that has the request id; one that does nothing then, and is taken for done.
CreateAnyway(t) ==
  /\ taskPc[t] = "create"
  /\ row' = [row EXCEPT ![t] = FirstStatus(t)]
  /\ IF t \in QueueCalls THEN Return(t, t, "QUEUED")
     ELSE TaskTo(t, "execute") /\ UNCHANGED told
  /\ UNCHANGED <<channelVars, req, results, faulted, broken, open>>

CreateOrReset(t) ==
  /\ taskPc[t] = "create"
  /\ \E u \in IF Holders(req[t]) = {} THEN {t} ELSE Holders(req[t]) :
       row' = [row EXCEPT ![u] = FirstStatus(t)]
  /\ IF t \in QueueCalls THEN Return(t, t, "QUEUED")
     ELSE TaskTo(t, "execute") /\ UNCHANGED told
  /\ UNCHANGED <<channelVars, req, results, faulted, broken, open>>

CreateOrNothing(t) ==
  /\ taskPc[t] = "create"
  /\ row' = IF Holders(req[t]) = {} THEN [row EXCEPT ![t] = FirstStatus(t)] ELSE row
  /\ IF t \in QueueCalls THEN Return(t, t, "QUEUED")
     ELSE TaskTo(t, "execute") /\ UNCHANGED told
  /\ UNCHANGED <<channelVars, req, results, faulted, broken, open>>

\* CreateTask is refused when another row has the request id. EnqueueTask of
\* both runtimes does nothing, so a queued task returns at once.
Create(t) ==
  /\ taskPc[t] = "create"
  /\ \/ /\ Holders(req[t]) = {}
        /\ row' = [row EXCEPT ![t] = FirstStatus(t)]
        /\ \E acked \in Acks(t) :
             /\ faulted' = IF acked THEN faulted ELSE faulted \cup {t}
             /\ IF ~acked THEN Refuse(t)
                ELSE IF t \in QueueCalls THEN Return(t, t, "QUEUED")
                ELSE TaskTo(t, "execute") /\ UNCHANGED told
     \/ Refuse(t) /\ UNCHANGED <<row, faulted>>
  /\ UNCHANGED <<channelVars, req, results, broken, open>>

------------------------------------------------------------------------------
(* ExecuteTask of the runtime, and the update with what it returned.       *)

\* Mutant of Find: the runtime calls a worker that is no longer registered.
FindUnregistered(t) ==
  /\ taskPc[t] = "execute"
  /\ pc[t] = "idle"
  /\ pc' = [pc EXCEPT ![t] = "lock"]
  /\ TaskTo(t, "await")
  /\ UNCHANGED <<got, sent, taken, answered, readTo, worker, scanning, exitToken, stopPc,
                 stopFailed, req, told, rowVars, broken, open>>

\* The session's worker is registered: the call queues for its mutex.
Find(t) ==
  /\ taskPc[t] = "execute"
  /\ Channel!Call(t)
  /\ TaskTo(t, "await")
  /\ UNCHANGED <<req, told, rowVars, broken, open>>

\* The session was taken out of the registry since the check.
Miss(t) ==
  /\ taskPc[t] = "execute"
  /\ stopPc # "idle"
  /\ TaskTo(t, "save")
  /\ UNCHANGED <<channelVars, req, told, rowVars, broken, open>>

\* Mutant of Source: the newest answer.
NewestAnswer(t) == IF pc[t] = "answered" THEN sent[answered] ELSE NoTask

\* The task whose answer the call took for its own.
Source(t) == IF pc[t] = "answered" THEN sent[got[t]] ELSE NoTask

Succeeds(t) == pc[t] = "answered" /\ Source(t) \notin broken

Returned(t) == taskPc[t] = "save" \/ (taskPc[t] = "await" /\ pc[t] \in Channel!Ended)

\* Mutant of Save: a failed task returns without an update.
SaveSuccessOnly(t) ==
  /\ Returned(t)
  /\ row' = IF Succeeds(t) THEN [row EXCEPT ![t] = "SUCCEEDED"] ELSE row
  /\ results' = IF Succeeds(t) THEN [results EXCEPT ![t] = Source(t)] ELSE results
  /\ Return(t, t, IF Succeeds(t) THEN "SUCCEEDED" ELSE "FAILED")
  /\ UNCHANGED <<channelVars, req, faulted, broken, open>>

\* UpdateTask overwrites the row without looking at what it replaces.
UpdateTask(t, status) ==
  /\ row' = [row EXCEPT ![t] = status]
  /\ results' = [results EXCEPT ![t] = Source(t)]

\* The error of the update is returned for a task that succeeded and dropped for
\* one that failed.
Save(t) ==
  /\ Returned(t)
  /\ LET status == IF Succeeds(t) THEN "SUCCEEDED" ELSE "FAILED" IN
     \E acked \in Acks(t), written \in BOOLEAN :
       /\ acked => written
       /\ IF written THEN UpdateTask(t, status) ELSE UNCHANGED <<row, results>>
       /\ faulted' = IF acked THEN faulted ELSE faulted \cup {t}
       /\ IF Succeeds(t) /\ ~acked THEN Refuse(t) ELSE Return(t, t, status)
  /\ UNCHANGED <<channelVars, req, broken, open>>

------------------------------------------------------------------------------
(* The worker and the session.                                             *)

\* execute_task runs the commands in order. The task breaks at the first one
\* that fails and is not marked continue_on_error.
Perform ==
  /\ Channel!Answer
  /\ broken' \in {broken, broken \cup ({sent[answered + 1]} \cap ExecuteCalls)}
  /\ UNCHANGED <<handlerVars, rowVars, open>>

\* A stop or an expiry writes the session's row, before or after StopSession.
CloseSession ==
  /\ open
  /\ open' = FALSE
  /\ UNCHANGED <<channelVars, handlerVars, rowVars, broken>>

ChannelStep ==
  /\ \/ \E c \in ExecuteCalls \cup FrameCalls \cup InputCalls :
          Channel!Lock(c) \/ Channel!CallStep(c)
     \/ \E c \in FrameCalls \cup InputCalls : Channel!Call(c)
     \/ Channel!TakeRequest
     \/ Channel!LineTooLong
     \/ Channel!Crash
     \/ Channel!Stop
     \/ Channel!StopStep
  /\ UNCHANGED <<handlerVars, rowVars, broken, open>>

TaskStep(t) ==
  \/ Check(t)
  \/ Create(t)
  \/ t \in ExecuteCalls /\ Find(t)
  \/ Miss(t)
  \/ Save(t)

Next ==
  \/ \E t \in Tasks, r \in RequestIds \cup {NoRequest} : Lookup(t, r)
  \/ \E t \in Tasks : TaskStep(t)
  \/ Perform
  \/ CloseSession
  \/ ChannelStep

Spec == Init /\ [][Next]_vars

\* Store calls end with the statement timeout, and the channel is as fair as
\* WorkerChannel has it: its timers fire, its mutex starves nobody, its worker
\* owes nothing.
FairSpec ==
  /\ Spec
  /\ \A t \in Tasks : WF_vars(TaskStep(t))
  /\ \A c \in ExecuteCalls \cup FrameCalls \cup InputCalls :
       /\ SF_vars(Channel!Lock(c) /\ UNCHANGED <<handlerVars, rowVars, broken, open>>)
       /\ WF_vars(Channel!CallStep(c) /\ UNCHANGED <<handlerVars, rowVars, broken, open>>)

------------------------------------------------------------------------------
(* Properties.                                                             *)

TypeOK ==
  /\ Channel!TypeOK
  /\ taskPc \in [Tasks -> TaskPc]
  /\ req \in [Tasks -> RequestIds \cup {NoRequest}]
  /\ row \in [Tasks -> Status]
  /\ results \in [Tasks -> ExecuteCalls \cup {NoTask}]
  /\ told \in [Tasks -> [task : Tasks \cup {NoTask}, status : Status]]
  /\ broken \subseteq ExecuteCalls
  /\ open \in BOOLEAN
  /\ faulted \subseteq Tasks

\* The commands of one request id reach the browser once, however often and
\* however concurrently a client repeats the request, and whatever is lost.
ExecutedOnce ==
  \A i, j \in 1..Len(sent) :
    (i # j /\ {sent[i], sent[j]} \subseteq ExecuteCalls) =>
      req[sent[i]] # req[sent[j]] \/ req[sent[i]] = NoRequest

\* All the calls that carry one request id and get a task get the same one.
SameAnswer ==
  \A t, u \in Tasks :
    (told[t].task # NoTask /\ told[u].task # NoTask /\ req[t] = req[u]) =>
      told[t].task = told[u].task \/ req[t] = NoRequest

\* A client that was told how a task ended was told what its row says, now and
\* for ever - unless a write of that row was not acknowledged.
ToldIsTrue ==
  \A t \in Tasks :
    LET task == told[t].task IN
    (task \in Tasks \ faulted /\ told[t].status \in FinalStatus) =>
      row[task] = told[t].status

\* While no call on the session's worker has given up, a row holds the results
\* of its own task, and a task that succeeded has no command that broke it.
OwnResults ==
  (\A c \in ExecuteCalls \cup FrameCalls \cup InputCalls : pc[c] # "timeout") =>
    \A t \in Tasks :
      /\ results[t] \in {t, NoTask}
      /\ row[t] = "SUCCEEDED" => results[t] = t /\ t \notin broken

\* And after calls that gave up a row holds exactly the results of the task whose
\* line lies before its own by as many lines as were not answered in their turn.
ShiftedResults ==
  \A t \in ExecuteCalls : \A i \in 1..Len(sent) :
    (sent[i] = t /\ results[t] # NoTask) =>
      results[t] = sent[i - Cardinality(Channel!Skipped(i))]

\* A task that has ended never changes again.
EndedStays ==
  [][\A t \in Tasks :
       row[t] \in FinalStatus => row'[t] = row[t] /\ results'[t] = results[t]]_rowVars

\* A task that was accepted for execution ends once its line is written, whatever
\* its worker does. Before that it may wait behind a stdin that stays full for
\* ever, which no time-out ends; and nobody repairs a row whose update was not
\* acknowledged.
RowsEnd ==
  \A t \in ExecuteCalls :
    /\ pc[t] = "read" ~> row[t] \in FinalStatus \/ t \in faulted
    /\ \/ row[t] = "RUNNING" ~> row[t] \in FinalStatus \/ t \in faulted
       \/ <>[]Channel!StdinFull

------------------------------------------------------------------------------
(* The handlers use the channel as WorkerChannel has it, and implement       *)
(* TaskLedger.                                                               *)

ImplementsChannel == Channel!Spec

LedgerStatus(s) ==
  CASE s = "absent"    -> "none"
    [] s = "QUEUED"    -> "queued"
    [] s = "RUNNING"   -> "open"
    [] s = "SUCCEEDED" -> "succeeded"
    [] s = "FAILED"    -> "failed"

Ledger == INSTANCE TaskLedger WITH
  status <- [t \in Tasks |-> LedgerStatus(row[t])],
  request <- [t \in Tasks |-> IF row[t] = "absent" THEN NoRequest ELSE req[t]],
  ran <- {t \in Tasks : \E i \in 1..Len(sent) : sent[i] = t}

\* A request id is accepted for one task, whose commands run at most once.
ImplementsLedger == Ledger!Spec

==============================================================================
