------------------------ MODULE TaskLifecycle_proofs ------------------------
(***************************************************************************)
(* Proofs about TaskLifecycle, for every set of calls, request ids and     *)
(* capacities. What WorkerChannel_proofs shows of the channel is cited     *)
(* through an instance: the tasks' steps are steps of the channel.         *)
(***************************************************************************)
EXTENDS TaskLifecycle, SequenceTheorems, FiniteSetTheorems, TLAPS

Worker == INSTANCE WorkerChannel_proofs WITH TaskCalls <- ExecuteCalls

------------------------------------------------------------------------------
(* The inductive invariant, in named parts.                                *)

TaskTypes ==
  /\ taskPc \in [Tasks -> TaskPc]
  /\ req \in [Tasks -> RequestIds \cup {NoRequest}]
  /\ row \in [Tasks -> Status]
  /\ results \in [Tasks -> ExecuteCalls \cup {NoTask}]
  /\ told \in [Tasks -> [task : Tasks \cup {NoTask}, status : Status]]
  /\ broken \subseteq ExecuteCalls
  /\ open \in BOOLEAN
  /\ faulted \subseteq Tasks

\* The handler and its call on the worker: it waits for as long as the call
\* lasts, and is done with a call that has ended.
Waiting ==
  \A t \in ExecuteCalls :
    /\ taskPc[t] \notin {"await", "done"} => pc[t] = "idle"
    /\ taskPc[t] = "await" => pc[t] # "idle"
    /\ taskPc[t] = "done" => pc[t] \in {"idle"} \cup Channel!Ended

\* The handler and its row: there is none before the insert, and it is RUNNING
\* until the one update.
RowOfTask ==
  \A t \in Tasks :
    /\ taskPc[t] \in {"idle", "check", "create"} => row[t] = "absent"
    /\ taskPc[t] \in {"execute", "await", "save"} => row[t] = "RUNNING" /\ t \in ExecuteCalls

\* Only a task that has a row calls the worker.
RowBeforeCall == \A t \in ExecuteCalls : pc[t] # "idle" => row[t] # "absent"

\* A call that has taken an answer has written its line, and took the answer to
\* a task.
AnsweredSent ==
  \A t \in ExecuteCalls :
    pc[t] = "answered" =>
      /\ \E i \in 1..Len(sent) : sent[i] = t
      /\ got[t] \in 1..Len(sent) /\ sent[got[t]] \in ExecuteCalls

\* The unique index on request_id.
OneRow ==
  \A t, u \in Tasks :
    (row[t] # "absent" /\ row[u] # "absent" /\ req[t] = req[u]) => t = u \/ req[t] = NoRequest

\* A call returns its own task or one with its request id.
ToldOwn ==
  \A t \in Tasks :
    told[t].task # NoTask =>
      /\ taskPc[t] = "done"
      /\ row[told[t].task] # "absent"
      /\ req[told[t].task] = req[t]

\* A task has succeeded only with an answer.
SucceededAnswered == \A t \in ExecuteCalls : row[t] = "SUCCEEDED" => pc[t] = "answered"

TaskInv ==
  /\ TaskTypes /\ Waiting /\ RowOfTask /\ RowBeforeCall
  /\ AnsweredSent /\ OneRow /\ ToldOwn /\ ToldIsTrue
  /\ SucceededAnswered /\ OwnResults

NobodyGaveUp == \A c \in Channel!Calls : pc[c] # "timeout"

------------------------------------------------------------------------------
(* The channel.                                                            *)

\* The assumptions of WorkerChannel.
LEMMA ChannelAssumptions ==
  /\ StopLine \notin Worker!Calls
  /\ PipeRoom \in Nat \ {0} /\ AnswerRoom \in Nat \ {0}
BY LinesAssumption DEF Tasks, Worker!Calls

\* The tasks start with the channel as it starts.
LEMMA ChannelInit == Init => Channel!Init
BY DEF Init

\* A step of the tasks is a step of the channel or leaves it alone.
LEMMA ChannelNext == [Next]_vars => [Channel!Next]_Channel!vars
<1> SUFFICES ASSUME [Next]_vars PROVE [Channel!Next]_Channel!vars
  OBVIOUS
<1> USE DEF Channel!vars, Channel!callVars, Channel!pipeVars, Channel!procVars,
        Channel!stopVars, channelVars
<1>1. ASSUME NEW t \in Tasks, NEW r \in RequestIds \cup {NoRequest}, Lookup(t, r)
      PROVE  UNCHANGED Channel!vars
  BY <1>1 DEF Lookup
<1>2. ASSUME NEW t \in Tasks, TaskStep(t)
      PROVE  [Channel!Next]_Channel!vars
  <2>1. CASE Check(t) \/ Create(t) \/ Miss(t) \/ Save(t)
    BY <2>1 DEF Check, Create, Miss, Save
  <2>2. CASE t \in ExecuteCalls /\ Find(t)
    BY <2>2 DEF Find, Channel!Next, Channel!Calls
  <2> QED
    BY <1>2, <2>1, <2>2 DEF TaskStep
<1>3. CASE Perform
  BY <1>3 DEF Perform, Channel!Next, Channel!WorkerStep
<1>4. CASE CloseSession
  BY <1>4 DEF CloseSession
<1>5. CASE ChannelStep
  BY <1>5 DEF ChannelStep, Channel!Next, Channel!WorkerStep, Channel!Calls
<1>6. CASE UNCHANGED vars
  BY <1>6 DEF vars
<1> QED
  BY <1>1, <1>2, <1>3, <1>4, <1>5, <1>6 DEF Next

\* The handlers, the worker and the session behave on the channel as
\* WorkerChannel says: what is proved of it holds of the tasks' worker.
THEOREM ChannelTheorem == Spec => ImplementsChannel
BY ChannelInit, ChannelNext, PTL DEF Spec, ImplementsChannel, Channel!Spec

\* Both instances name one specification.
LEMMA SameChannel == Channel!Spec => Worker!Spec
<1> USE DEF Channel!Calls, Worker!Calls, Channel!vars, Worker!vars, Channel!callVars,
            Worker!callVars, Channel!pipeVars, Worker!pipeVars, Channel!procVars,
            Worker!procVars, Channel!stopVars, Worker!stopVars
<1>1. Channel!Init => Worker!Init
  BY DEF Channel!Init, Worker!Init
<1>2. \A c : (Channel!Call(c) <=> Worker!Call(c)) /\ (Channel!Lock(c) <=> Worker!Lock(c))
  BY DEF Channel!Call, Worker!Call, Channel!Lock, Worker!Lock, Channel!CallTo,
         Worker!CallTo, Channel!MutexHolders, Worker!MutexHolders
<1>3. \A c : Channel!CallStep(c) <=> Worker!CallStep(c)
  BY DEF Channel!CallStep, Worker!CallStep, Channel!Write, Worker!Write,
         Channel!ReadAnswer, Worker!ReadAnswer, Channel!ReadExit, Worker!ReadExit,
         Channel!StdoutClosed, Worker!StdoutClosed,
         Channel!ReadTimeout, Worker!ReadTimeout, Channel!CallTo, Worker!CallTo,
         Channel!CanSend, Worker!CanSend, Channel!SameType, Worker!SameType
<1>4. /\ Channel!WorkerStep <=> Worker!WorkerStep
      /\ Channel!LineTooLong <=> Worker!LineTooLong
      /\ Channel!Crash <=> Worker!Crash
  BY DEF Channel!WorkerStep, Worker!WorkerStep, Channel!TakeRequest, Worker!TakeRequest,
         Channel!Answer, Worker!Answer, Channel!LineTooLong, Worker!LineTooLong,
         Channel!Crash, Worker!Crash, Channel!Exit,
         Worker!Exit
<1>5. (Channel!Stop <=> Worker!Stop) /\ (Channel!StopStep <=> Worker!StopStep)
  BY DEF Channel!Stop, Worker!Stop, Channel!StopStep, Worker!StopStep, Channel!StopTell,
         Worker!StopTell, Channel!StopSeesExit, Worker!StopSeesExit, Channel!StopWaits,
         Worker!StopWaits, Channel!StopTo, Worker!StopTo, Channel!CanSend,
         Worker!CanSend
<1>6. [Channel!Next]_Channel!vars => [Worker!Next]_Worker!vars
  BY <1>2, <1>3, <1>4, <1>5 DEF Channel!Next, Worker!Next
<1> QED
  BY <1>1, <1>6, PTL DEF Channel!Spec, Worker!Spec

\* What WorkerChannel_proofs shows of every state of the channel.
LEMMA ChannelInvariance == Spec => []Worker!IInv
<1>1. Worker!Spec => []Worker!IInv
  BY ChannelAssumptions, Worker!Invariance
<1> QED
  BY ChannelTheorem, SameChannel, <1>1, PTL DEF ImplementsChannel

------------------------------------------------------------------------------
(* How the channel moves under the handlers.                               *)

\* The facts of WorkerChannel_proofs the handlers rely on.
LEMMA ChannelFacts ==
  ASSUME Worker!IInv
  PROVE  /\ pc \in [Channel!Calls -> Channel!CallPc]
         /\ got \in [Channel!Calls -> Nat]
         /\ sent \in Seq(Channel!Calls \cup {StopLine})
         /\ Len(sent) \in Nat
         /\ \A i \in 1..Len(sent) : sent[i] \in Channel!Calls \cup {StopLine}
         /\ readTo \in Nat /\ answered \in Nat /\ taken \in Nat
         /\ readTo <= answered /\ answered <= taken /\ taken <= Len(sent)
         /\ \A i, j \in 1..Len(sent) : sent[i] = sent[j] /\ sent[i] # StopLine => i = j
         /\ \A i \in 1..Len(sent) :
              sent[i] # StopLine => pc[sent[i]] \notin {"idle", "lock", "write"}
         /\ \A c \in Channel!Calls :
              pc[c] = "read" => \E i \in 1..Len(sent) : sent[i] = c
<1>1. Worker!TypeOK /\ Worker!SentOnce
  BY DEF Worker!IInv, Worker!LagInv
<1>2. sent \in Seq(Channel!Calls \cup {StopLine})
  BY <1>1 DEF Worker!TypeOK, Worker!Calls, Channel!Calls
<1>3. Len(sent) \in Nat /\ \A i \in 1..Len(sent) : sent[i] \in Channel!Calls \cup {StopLine}
  BY <1>2, LenProperties, ElementOfSeq
<1> QED
  BY <1>1, <1>2, <1>3
  DEF Worker!TypeOK, Worker!SentOnce, Worker!Calls, Channel!Calls, Worker!CallPc, Channel!CallPc,
      Worker!Ended, Channel!Ended

\* The lines of tasks and of the other calls are told apart.
LEMMA LinesApart ==
  /\ StopLine \notin Tasks /\ StopLine \notin Channel!Calls
  /\ \A t \in ExecuteCalls : t \in Tasks /\ t \in Channel!Calls /\ t # StopLine
  /\ \A t \in Tasks : t \notin FrameCalls \cup InputCalls
  /\ \A t \in QueueCalls : t \in Tasks /\ t \notin ExecuteCalls /\ t \notin Channel!Calls
  /\ NoTask \notin Tasks
BY TasksAssumption, LinesAssumption DEF Tasks, Channel!Calls

\* What a step of the calls, the worker or stop does to the calls of tasks: none
\* starts, none that has ended goes on, and one that takes an answer has read it.
TaskCallsMove ==
  \A t \in ExecuteCalls :
    /\ pc'[t] = "idle" <=> pc[t] = "idle"
    /\ pc[t] \in Channel!Ended => pc'[t] = pc[t] /\ got'[t] = got[t]
    /\ pc'[t] = "answered" =>
         \/ pc[t] = "answered"
         \/ pc[t] = "read" /\ got'[t] = readTo + 1 /\ readTo < answered
            /\ sent[readTo + 1] \in ExecuteCalls

\* The stream of lines only grows.
LinesStay ==
  /\ Len(sent') \in Nat /\ Len(sent) <= Len(sent')
  /\ \A i \in 1..Len(sent) : sent'[i] = sent[i]

LEMMA ChannelStepMoves ==
  ASSUME Worker!IInv, ChannelStep
  PROVE  TaskCallsMove /\ LinesStay
<1> DEFINE Same == UNCHANGED <<pc, got, sent>>
<1> USE ChannelFacts, LinesApart
<1>1. Same => TaskCallsMove /\ LinesStay
  BY DEF TaskCallsMove, LinesStay
<1>2. ASSUME NEW c \in Channel!Calls, Channel!Lock(c)
      PROVE  TaskCallsMove /\ LinesStay
  BY <1>2 DEF Channel!Lock, Channel!CallTo, Channel!pipeVars, Channel!Ended, TaskCallsMove, LinesStay
<1>3. ASSUME NEW c \in Channel!Calls, Channel!CallStep(c)
      PROVE  TaskCallsMove /\ LinesStay
  <2> USE DEF Channel!CallTo, Channel!pipeVars, Channel!Ended
  <2>1. CASE Channel!Write(c)
    <3>1. TaskCallsMove
      BY <2>1 DEF Channel!Write, TaskCallsMove
    <3>2. LinesStay
      BY <2>1, AppendProperties DEF Channel!Write, LinesStay
    <3> QED
      BY <3>1, <3>2
  <2>2. CASE Channel!ReadAnswer(c)
    BY <2>2 DEF Channel!ReadAnswer, Channel!SameType, TaskCallsMove, LinesStay
  <2>3. CASE Channel!ReadExit(c) \/ Channel!ReadTimeout(c)
    BY <2>3 DEF Channel!ReadExit, Channel!ReadTimeout, TaskCallsMove, LinesStay
  <2> QED
    BY <1>3, <2>1, <2>2, <2>3 DEF Channel!CallStep
<1>4. ASSUME NEW c \in FrameCalls \cup InputCalls, Channel!Call(c)
      PROVE  TaskCallsMove /\ LinesStay
  BY <1>4 DEF Channel!Call, Channel!CallTo, Channel!pipeVars, Channel!Ended, Channel!Calls,
              TaskCallsMove, LinesStay
<1>5. CASE Channel!TakeRequest \/ Channel!LineTooLong \/ Channel!Crash \/ Channel!Stop
  BY <1>1, <1>5 DEF Channel!TakeRequest, Channel!LineTooLong, Channel!Crash, Channel!Stop, Channel!callVars,
                    Channel!pipeVars
<1>6. CASE Channel!StopStep
  <2> USE DEF Channel!callVars, Channel!pipeVars
  <2>1. CASE Channel!StopTell
    <3>1. pc' = pc /\ got' = got
      BY <2>1 DEF Channel!StopTell
    <3>2. TaskCallsMove
      BY <3>1 DEF TaskCallsMove
    <3>3. LinesStay
      BY <2>1, AppendProperties DEF Channel!StopTell, LinesStay
    <3> QED
      BY <3>2, <3>3
  <2>2. CASE Channel!StopSeesExit \/ Channel!StopWaits
    BY <1>1, <2>2 DEF Channel!StopSeesExit, Channel!StopWaits
  <2> QED
    BY <1>6, <2>1, <2>2 DEF Channel!StopStep
<1> QED
  BY <1>2, <1>3, <1>4, <1>5, <1>6 DEF ChannelStep, Channel!Calls

------------------------------------------------------------------------------
(* The handlers.                                                           *)

\* Nothing has been asked at first.
LEMMA InitTasks == Init => TaskInv
<1> SUFFICES ASSUME Init PROVE TaskInv
  OBVIOUS
<1>1. /\ pc = [c \in Channel!Calls |-> "idle"]
      /\ taskPc = [t \in Tasks |-> "idle"]
      /\ req = [t \in Tasks |-> NoRequest]
      /\ row = [t \in Tasks |-> "absent"]
      /\ results = [t \in Tasks |-> NoTask]
      /\ told = [t \in Tasks |-> Nothing]
      /\ broken = {} /\ open = TRUE /\ faulted = {}
  BY DEF Init, Channel!Init
<1>2. TaskTypes
  BY <1>1 DEF TaskTypes, TaskPc, Status, Nothing
<1>3. Waiting /\ RowOfTask /\ RowBeforeCall /\ AnsweredSent
  BY <1>1, LinesApart DEF Waiting, RowOfTask, RowBeforeCall, AnsweredSent
<1>4. OneRow /\ ToldOwn /\ ToldIsTrue /\ SucceededAnswered /\ OwnResults
  BY <1>1, LinesApart DEF OneRow, ToldOwn, ToldIsTrue, SucceededAnswered, OwnResults, Nothing
<1> QED
  BY <1>2, <1>3, <1>4 DEF TaskInv

\* The update finds the row RUNNING, and writes the results of a task or none.
LEMMA SaveTypes ==
  ASSUME TaskInv, NEW t \in Tasks, Returned(t)
  PROVE  t \in ExecuteCalls /\ row[t] = "RUNNING" /\ Source(t) \in ExecuteCalls \cup {NoTask}
<1>1. t \in ExecuteCalls /\ row[t] = "RUNNING"
  BY DEF TaskInv, RowOfTask, Returned
<1> QED
  BY <1>1 DEF TaskInv, AnsweredSent, Source

\* CreateTask inserts the row of a task or changes nothing in the store.
LEMMA CreateOutcome ==
  ASSUME NEW t \in Tasks, Create(t)
  PROVE  /\ UNCHANGED <<pc, got, sent, req, results>>
         /\ \/ TaskTo(t, "done") /\ UNCHANGED <<row, told>>
            \/ /\ Holders(req[t]) = {}
               /\ row' = [row EXCEPT ![t] = FirstStatus(t)]
               /\ \/ TaskTo(t, "done") /\ UNCHANGED told
                  \/ t \in QueueCalls /\ Return(t, t, "QUEUED")
                  \/ t \in ExecuteCalls /\ TaskTo(t, "execute") /\ UNCHANGED told
BY DEF Create, Refuse, channelVars, Tasks

\* Every step keeps the types.
LEMMA NextTypes == Worker!IInv /\ TaskInv /\ [Next]_vars => TaskTypes'
<1> SUFFICES ASSUME Worker!IInv, TaskInv, [Next]_vars PROVE TaskTypes'
  OBVIOUS
<1> USE DEF TaskTypes, TaskPc, Status, FinalStatus, TaskTo, Return, Refuse, handlerVars, rowVars
<1> TaskTypes
  BY DEF TaskInv
<1>1. ASSUME NEW t \in Tasks, NEW r \in RequestIds \cup {NoRequest}, Lookup(t, r)
      PROVE  TaskTypes'
  <2>1. CASE Refuse(t) \/ (TaskTo(t, "check") /\ UNCHANGED told)
    BY <1>1, <2>1 DEF Lookup
  <2>2. ASSUME NEW u \in Holders(r), Return(t, u, row[u])
        PROVE  TaskTypes'
    BY <1>1, <2>2 DEF Lookup, Holders
  <2> QED
    BY <1>1, <2>1, <2>2 DEF Lookup
<1>2. ASSUME NEW t \in Tasks, TaskStep(t)
      PROVE  TaskTypes'
  <2>1. CASE Check(t)
    BY <2>1 DEF Check
  <2>2. CASE Create(t)
    BY <2>2 DEF Create, FirstStatus
  <2>3. CASE Find(t) \/ Miss(t)
    BY <2>3 DEF Find, Miss
  <2>4. CASE Save(t)
    <3>1. Source(t) \in ExecuteCalls \cup {NoTask}
      BY <2>4, SaveTypes DEF Save
    <3> QED
      <4>1. \/ row' = row /\ results' = results
            \/ \E s \in FinalStatus : row' = [row EXCEPT ![t] = s]
                                     /\ results' = [results EXCEPT ![t] = Source(t)]
        BY <2>4 DEF Save, UpdateTask
      <4>2. /\ taskPc' = [taskPc EXCEPT ![t] = "done"]
            /\ \/ told' = told
               \/ \E s \in FinalStatus : told' = [told EXCEPT ![t] = [task |-> t, status |-> s]]
            /\ faulted' \subseteq faulted \cup {t}
            /\ UNCHANGED <<req, broken, open>>
        BY <2>4 DEF Save
      <4> QED
        BY <3>1, <4>1, <4>2
  <2> QED
    BY <1>2, <2>1, <2>2, <2>3, <2>4 DEF TaskStep
<1>3. CASE Perform \/ CloseSession \/ ChannelStep
  BY <1>3 DEF Perform, CloseSession, ChannelStep
<1>4. CASE UNCHANGED vars
  BY <1>4 DEF vars
<1> QED
  BY <1>1, <1>2, <1>3, <1>4 DEF Next

\* Handler, call and row go together.
LEMMA NextTogether ==
  Worker!IInv /\ TaskInv /\ [Next]_vars =>
    Waiting' /\ RowOfTask' /\ RowBeforeCall' /\ AnsweredSent'
<1> DEFINE Together == Waiting /\ RowOfTask /\ RowBeforeCall /\ AnsweredSent
<1> SUFFICES ASSUME Worker!IInv, TaskInv, [Next]_vars PROVE Together'
  OBVIOUS
<1> TaskTypes /\ Together
  BY DEF TaskInv
<1> USE ChannelFacts, LinesApart DEF TaskTypes, Waiting, RowOfTask, RowBeforeCall, AnsweredSent
<1> USE DEF TaskTo, Return, Refuse, handlerVars, rowVars, channelVars
<1>1. ASSUME NEW t \in Tasks, NEW r \in RequestIds \cup {NoRequest}, Lookup(t, r)
      PROVE  Together'
  BY <1>1 DEF Lookup
<1>2. ASSUME NEW t \in Tasks, TaskStep(t)
      PROVE  Together'
  <2>1. CASE Check(t)
    BY <2>1 DEF Check
  <2>2. CASE Create(t)
    <3>1. Waiting' /\ RowBeforeCall' /\ AnsweredSent'
      BY <2>2, CreateOutcome DEF Create
    <3>2. RowOfTask'
      BY <2>2, CreateOutcome DEF Create, FirstStatus
    <3> QED
      BY <3>1, <3>2
  <2>3. CASE t \in ExecuteCalls /\ Find(t)
    BY <2>3 DEF Find, Channel!Call, Channel!CallTo, Channel!pipeVars
  <2>4. CASE Miss(t)
    BY <2>4 DEF Miss
  <2>5. CASE Save(t)
    <3>1. UNCHANGED <<pc, got, sent>> /\ t \in ExecuteCalls /\ TaskTo(t, "done")
      BY <2>5, SaveTypes DEF Save
    <3>2. pc[t] \in {"idle"} \cup Channel!Ended
      BY <2>5, <3>1 DEF Save, Returned
    <3>3. row' = row \/ \E s \in FinalStatus : row' = [row EXCEPT ![t] = s]
      BY <2>5 DEF Save, UpdateTask, FinalStatus
    <3>4. Waiting' /\ RowBeforeCall' /\ AnsweredSent'
      BY <3>1, <3>2, <3>3 DEF FinalStatus
    <3>5. RowOfTask'
      BY <3>1, <3>3
    <3> QED
      BY <3>4, <3>5
  <2> QED
    BY <1>2, <2>1, <2>2, <2>3, <2>4, <2>5 DEF TaskStep
<1>3. CASE Perform
  BY <1>3 DEF Perform, Channel!Answer, Channel!callVars
<1>4. CASE CloseSession
  BY <1>4 DEF CloseSession
<1>5. CASE ChannelStep
  <2>1. UNCHANGED <<taskPc, row>>
    BY <1>5 DEF ChannelStep
  <2>2. TaskCallsMove /\ LinesStay
    BY <1>5, ChannelStepMoves
  <2>3. Waiting' /\ RowOfTask' /\ RowBeforeCall'
    BY <2>1, <2>2 DEF TaskCallsMove
  <2>4. AnsweredSent'
    <3> SUFFICES ASSUME NEW t \in ExecuteCalls, pc'[t] = "answered"
                 PROVE  /\ \E i \in 1..Len(sent) : sent[i] = t
                        /\ got'[t] \in 1..Len(sent) /\ sent[got'[t]] \in ExecuteCalls
      BY <2>2 DEF LinesStay
    <3>1. CASE pc[t] = "answered"
      BY <2>2, <3>1 DEF TaskCallsMove, Channel!Ended
    <3>2. CASE pc[t] = "read" /\ got'[t] = readTo + 1 /\ readTo < answered
               /\ sent[readTo + 1] \in ExecuteCalls
      BY <3>2
    <3> QED
      BY <2>2, <3>1, <3>2 DEF TaskCallsMove
  <2> QED
    BY <2>3, <2>4
<1>6. CASE UNCHANGED vars
  BY <1>6 DEF vars
<1> QED
  BY <1>1, <1>2, <1>3, <1>4, <1>5, <1>6 DEF Next

\* The unique index and the read before it keep a request id to one task.
LEMMA NextOneRow == TaskInv /\ [Next]_vars => OneRow'
<1> SUFFICES ASSUME TaskInv, [Next]_vars PROVE OneRow'
  OBVIOUS
<1> USE DEF TaskInv, TaskTypes, RowOfTask, OneRow, handlerVars, rowVars
<1>1. ASSUME NEW t \in Tasks, NEW r \in RequestIds \cup {NoRequest}, Lookup(t, r)
      PROVE  OneRow'
  BY <1>1 DEF Lookup
<1>2. ASSUME NEW t \in Tasks, TaskStep(t)
      PROVE  OneRow'
  <2>1. CASE Create(t)
    BY <2>1, CreateOutcome DEF Holders
  <2>2. CASE Save(t)
    BY <2>2, SaveTypes DEF Save, UpdateTask
  <2>3. CASE Check(t) \/ Find(t) \/ Miss(t)
    BY <2>3 DEF Check, Find, Miss
  <2> QED
    BY <1>2, <2>1, <2>2, <2>3 DEF TaskStep
<1>3. CASE Perform \/ CloseSession \/ ChannelStep
  BY <1>3 DEF Perform, CloseSession, ChannelStep
<1>4. CASE UNCHANGED vars
  BY <1>4 DEF vars
<1> QED
  BY <1>1, <1>2, <1>3, <1>4 DEF Next

\* A row that has ended is never written again.
LEMMA EndedRowsStay ==
  ASSUME TaskInv, [Next]_vars, NEW t \in Tasks, row[t] \in FinalStatus
  PROVE  row'[t] = row[t] /\ results'[t] = results[t]
<1> USE DEF TaskInv, TaskTypes, RowOfTask, FinalStatus, handlerVars, rowVars
<1>1. ASSUME NEW u \in Tasks, TaskStep(u)
      PROVE  row'[t] = row[t] /\ results'[t] = results[t]
  <2>1. CASE Create(u)
    <3>1. taskPc[u] = "create"
      BY <2>1 DEF Create
    <3> QED
      BY <2>1, <3>1, CreateOutcome
  <2>2. CASE Save(u)
    BY <2>2, SaveTypes DEF Save, UpdateTask
  <2>3. CASE Check(u) \/ Find(u) \/ Miss(u)
    BY <2>3 DEF Check, Find, Miss
  <2> QED
    BY <1>1, <2>1, <2>2, <2>3 DEF TaskStep
<1>2. ASSUME NEW u \in Tasks, NEW r \in RequestIds \cup {NoRequest}, Lookup(u, r)
      PROVE  row'[t] = row[t] /\ results'[t] = results[t]
  BY <1>2 DEF Lookup
<1>3. CASE Perform \/ CloseSession \/ ChannelStep
  BY <1>3 DEF Perform, CloseSession, ChannelStep
<1>4. CASE UNCHANGED vars
  BY <1>4 DEF vars
<1> QED
  BY <1>1, <1>2, <1>3, <1>4 DEF Next

\* What a call returned was true and stays true.
LEMMA NextTold == TaskInv /\ [Next]_vars => ToldOwn' /\ ToldIsTrue'
<1> SUFFICES ASSUME TaskInv, [Next]_vars PROVE ToldOwn' /\ ToldIsTrue'
  OBVIOUS
<1> USE LinesApart
    DEF TaskInv, TaskTypes, RowOfTask, ToldOwn, ToldIsTrue, FinalStatus, handlerVars, rowVars,
        TaskTo
<1>1. ASSUME NEW t \in Tasks, NEW r \in RequestIds \cup {NoRequest}, Lookup(t, r)
      PROVE  ToldOwn' /\ ToldIsTrue'
  <2>1. CASE Refuse(t) \/ (TaskTo(t, "check") /\ UNCHANGED told)
    BY <1>1, <2>1 DEF Lookup, Refuse
  <2>2. ASSUME NEW u \in Holders(r), Return(t, u, row[u])
        PROVE  ToldOwn' /\ ToldIsTrue'
    BY <1>1, <2>2 DEF Lookup, Return, Holders
  <2> QED
    BY <1>1, <2>1, <2>2 DEF Lookup
<1>2. ASSUME NEW t \in Tasks, TaskStep(t)
      PROVE  ToldOwn' /\ ToldIsTrue'
  <2>1. CASE Create(t)
    <3>1. /\ taskPc[t] = "create" /\ row[t] = "absent"
          /\ faulted \subseteq faulted'
      BY <2>1 DEF Create
    <3>2. \A u \in Tasks :
            \/ told'[u] = told[u]
            \/ u = t /\ told'[u] = [task |-> t, status |-> "QUEUED"] /\ row'[t] = "QUEUED"
      BY <2>1, CreateOutcome DEF Return, FirstStatus
    <3>3. \A u \in Tasks : row[u] # "absent" => row'[u] = row[u] /\ u # t
      BY <2>1, <3>1, CreateOutcome
    <3>4. req' = req /\ taskPc'[t] # "create" /\ \A u \in Tasks : u # t => taskPc'[u] = taskPc[u]
      BY <2>1, CreateOutcome DEF Return
    <3>5. ToldOwn'
      <4> SUFFICES ASSUME NEW u \in Tasks, told'[u].task # NoTask
                   PROVE  /\ taskPc'[u] = "done"
                          /\ row'[told'[u].task] # "absent"
                          /\ req[told'[u].task] = req[u]
        BY <3>4
      <4>1. CASE told'[u] = told[u]
        <5>1. u # t /\ told[u].task \in Tasks
          BY <3>1, <4>1
        <5> QED
          BY <3>3, <3>4, <4>1, <5>1
      <4>2. CASE u = t /\ told'[u] = [task |-> t, status |-> "QUEUED"] /\ row'[t] = "QUEUED"
        <5>1. taskPc'[t] = "done"
          BY <2>1, <3>1, <4>2, CreateOutcome DEF Return
        <5> QED
          BY <4>2, <5>1
      <4> QED
        BY <3>2, <4>1, <4>2
    <3>6. ToldIsTrue'
      BY <3>1, <3>2, <3>3
    <3> QED
      BY <3>5, <3>6
  <2>2. CASE Save(t)
    <3>1. PICK acked \in Acks(t), written \in BOOLEAN :
            /\ acked => written
            /\ row' = IF written
                      THEN [row EXCEPT ![t] = IF Succeeds(t) THEN "SUCCEEDED" ELSE "FAILED"]
                      ELSE row
            /\ faulted' = IF acked THEN faulted ELSE faulted \cup {t}
            /\ \/ Refuse(t)
               \/ Return(t, t, IF Succeeds(t) THEN "SUCCEEDED" ELSE "FAILED")
      BY <2>2 DEF Save, UpdateTask
    <3>2. req' = req /\ row[t] = "RUNNING" /\ taskPc[t] \in {"save", "await"}
      BY <2>2, SaveTypes DEF Save, Returned
    <3>3. ToldOwn'
      BY <3>1, <3>2 DEF Refuse, Return
    <3>4. ToldIsTrue'
      BY <3>1, <3>2 DEF Refuse, Return
    <3> QED
      BY <3>3, <3>4
  <2>3. CASE Check(t) \/ Find(t) \/ Miss(t)
    BY <2>3 DEF Check, Find, Miss, Refuse
  <2> QED
    BY <1>2, <2>1, <2>2, <2>3 DEF TaskStep
<1>3. CASE Perform \/ CloseSession \/ ChannelStep
  BY <1>3 DEF Perform, CloseSession, ChannelStep
<1>4. CASE UNCHANGED vars
  BY <1>4 DEF vars
<1> QED
  BY <1>1, <1>2, <1>3, <1>4 DEF Next

\* A call that gave up has given up for good.
LEMMA TimeoutStays ==
  ASSUME Worker!IInv, [Next]_vars, NEW c \in Channel!Calls, pc[c] = "timeout"
  PROVE  pc'[c] = "timeout"
<1> USE ChannelFacts
    DEF Channel!CallTo, Channel!callVars, Channel!pipeVars, Channel!procVars, Channel!stopVars
<1>1. [Channel!Next]_Channel!vars
  BY ChannelNext
<1>2. ASSUME NEW d \in Channel!Calls, Channel!Call(d) \/ Channel!Lock(d)
      PROVE  pc'[c] = "timeout"
  BY <1>2 DEF Channel!Call, Channel!Lock
<1>3. ASSUME NEW d \in Channel!Calls, Channel!CallStep(d)
      PROVE  pc'[c] = "timeout"
  BY <1>3 DEF Channel!CallStep, Channel!Write, Channel!ReadAnswer, Channel!ReadExit,
              Channel!ReadTimeout
<1>4. CASE Channel!WorkerStep \/ Channel!LineTooLong \/ Channel!Crash
  BY <1>4 DEF Channel!WorkerStep, Channel!TakeRequest, Channel!Answer, Channel!LineTooLong,
              Channel!Crash
<1>5. CASE Channel!Stop \/ Channel!StopStep
  BY <1>5 DEF Channel!Stop, Channel!StopStep, Channel!StopTell, Channel!StopSeesExit,
              Channel!StopWaits
<1>6. CASE UNCHANGED Channel!vars
  BY <1>6 DEF Channel!vars
<1> QED
  BY <1>1, <1>2, <1>3, <1>4, <1>5, <1>6 DEF Channel!Next

\* While nobody gave up, the answer a task took is its own, and behind the
\* worker's cursor.
LEMMA OwnSource ==
  ASSUME TaskInv, Worker!IInv, NobodyGaveUp, NEW t \in ExecuteCalls, pc[t] = "answered"
  PROVE  Source(t) = t /\ got[t] \in 1..answered /\ sent[got[t]] = t
<1>1. got[t] \in 1..Len(sent)
  BY DEF TaskInv, AnsweredSent
<1>2. got[t] <= answered
  BY <1>1, ChannelFacts, LinesApart
  DEF Worker!IInv, Worker!AnswersToCalls, Worker!Calls, Channel!Calls
<1>3. sent[got[t]] = t
  BY <1>1, Worker!OwnAnswer, LinesApart, ChannelAssumptions
  DEF Worker!OwnAnswers, NobodyGaveUp, Worker!Calls, Channel!Calls
<1> QED
  BY <1>1, <1>2, <1>3, ChannelFacts DEF Source

\* A row holds the results of its own task until a call gives up.
LEMMA NextOwnResults ==
  Worker!IInv /\ TaskInv /\ [Next]_vars => SucceededAnswered' /\ OwnResults'
<1> DEFINE Own == SucceededAnswered /\ OwnResults
<1> SUFFICES ASSUME Worker!IInv, TaskInv, [Next]_vars PROVE Own'
  OBVIOUS
<1>0. NobodyGaveUp' => NobodyGaveUp
  BY TimeoutStays DEF NobodyGaveUp
<1> USE <1>0, LinesApart
    DEF TaskInv, TaskTypes, RowOfTask, SucceededAnswered, OwnResults, NobodyGaveUp,
        Channel!Calls, handlerVars, rowVars, channelVars
<1>1. CASE UNCHANGED <<pc, row, results, broken>>
  BY <1>1
<1>2. ASSUME NEW t \in Tasks, Create(t)
      PROVE  Own'
  <2>1. pc' = pc /\ results' = results /\ broken' = broken /\ row[t] = "absent"
    BY <1>2 DEF Create
  <2>2. row' = row \/ row' = [row EXCEPT ![t] = FirstStatus(t)]
    BY <1>2, CreateOutcome
  <2> QED
    BY <2>1, <2>2 DEF FirstStatus
<1>3. ASSUME NEW t \in Tasks, t \in ExecuteCalls, Find(t)
      PROVE  Own'
  <2>1. /\ pc' = [pc EXCEPT ![t] = "lock"] /\ row[t] = "RUNNING"
        /\ UNCHANGED <<row, results, broken>>
    BY <1>3 DEF Find, Channel!Call, Channel!CallTo
  <2> QED
    BY <2>1, ChannelFacts
<1>4. ASSUME NEW t \in Tasks, Save(t)
      PROVE  Own'
  <2>1. t \in ExecuteCalls /\ pc' = pc /\ broken' = broken
    BY <1>4, SaveTypes DEF Save, UpdateTask
  <2>2. \/ row' = row /\ results' = results
        \/ /\ row' = [row EXCEPT ![t] = IF Succeeds(t) THEN "SUCCEEDED" ELSE "FAILED"]
           /\ results' = [results EXCEPT ![t] = Source(t)]
    BY <1>4 DEF Save, UpdateTask
  <2>3. Succeeds(t) => pc[t] = "answered" /\ Source(t) \notin broken
    BY DEF Succeeds
  <2>4. NobodyGaveUp => Source(t) \in {t, NoTask} /\ (Succeeds(t) => Source(t) = t)
    BY <2>1, <2>3, OwnSource DEF Source
  <2>5. SucceededAnswered'
    BY <2>1, <2>2, <2>3
  <2>6. OwnResults'
    BY <2>1, <2>2, <2>3, <2>4
  <2> QED
    BY <2>5, <2>6
<1>5. CASE Perform
  <2>1. /\ UNCHANGED <<pc, row, results>> /\ answered < taken
        /\ broken' \subseteq broken \cup {sent[answered + 1]}
    BY <1>5 DEF Perform, Channel!Answer, Channel!callVars
  <2>2. ASSUME NobodyGaveUp, NEW t \in ExecuteCalls, pc[t] = "answered"
        PROVE  t # sent[answered + 1]
    <3>1. got[t] \in 1..answered /\ sent[got[t]] = t
      BY <2>2, OwnSource
    <3> QED
      BY <2>1, <3>1, ChannelFacts
  <2>3. \A t \in Tasks : row[t] = "SUCCEEDED" /\ NobodyGaveUp => t \in ExecuteCalls
    OBVIOUS
  <2> QED
    BY <2>1, <2>2, <2>3
<1>6. CASE ChannelStep
  <2>1. UNCHANGED <<row, results, broken>>
    BY <1>6 DEF ChannelStep
  <2>2. \A t \in ExecuteCalls : pc[t] = "answered" => pc'[t] = "answered"
    BY <1>6, ChannelStepMoves DEF TaskCallsMove, Channel!Ended
  <2> QED
    BY <2>1, <2>2
<1>7. ASSUME NEW t \in Tasks, NEW r \in RequestIds \cup {NoRequest}, Lookup(t, r)
      PROVE  Own'
  BY <1>1, <1>7 DEF Lookup
<1>8. ASSUME NEW t \in Tasks, Check(t) \/ Miss(t)
      PROVE  Own'
  BY <1>1, <1>8 DEF Check, Miss
<1>9. CASE CloseSession \/ UNCHANGED vars
  BY <1>1, <1>9 DEF CloseSession, vars
<1> QED
  BY <1>2, <1>3, <1>4, <1>5, <1>6, <1>7, <1>8, <1>9 DEF Next, TaskStep

\* What a row holds is what its call read.
ReadResults ==
  \A t \in ExecuteCalls :
    results[t] # NoTask => pc[t] = "answered" /\ results[t] = sent[got[t]]

\* Only the update of a task writes its results, and what its call read stays.
LEMMA NextReadResults ==
  Worker!IInv /\ TaskInv /\ ReadResults /\ [Next]_vars => ReadResults'
<1> SUFFICES ASSUME Worker!IInv, TaskInv, ReadResults, [Next]_vars PROVE ReadResults'
  OBVIOUS
<1> USE LinesApart
    DEF TaskInv, TaskTypes, AnsweredSent, ReadResults, handlerVars, rowVars, channelVars
<1>1. CASE UNCHANGED <<pc, got, sent, results>>
  BY <1>1
<1>2. ASSUME NEW t \in Tasks, NEW r \in RequestIds \cup {NoRequest}, Lookup(t, r)
      PROVE  ReadResults'
  BY <1>1, <1>2 DEF Lookup
<1>3. ASSUME NEW t \in Tasks, Check(t) \/ Miss(t)
      PROVE  ReadResults'
  BY <1>1, <1>3 DEF Check, Miss
<1>4. ASSUME NEW t \in Tasks, Create(t)
      PROVE  ReadResults'
  BY <1>1, <1>4, CreateOutcome
<1>5. ASSUME NEW t \in ExecuteCalls, Find(t)
      PROVE  ReadResults'
  BY <1>5, ChannelFacts DEF Find, Channel!Call, Channel!CallTo, Channel!pipeVars
<1>6. ASSUME NEW t \in Tasks, Save(t)
      PROVE  ReadResults'
  <2>1. t \in ExecuteCalls /\ UNCHANGED <<pc, got, sent>>
    BY <1>6, SaveTypes DEF Save
  <2>2. results' = results \/ results' = [results EXCEPT ![t] = Source(t)]
    BY <1>6 DEF Save, UpdateTask
  <2> QED
    BY <2>1, <2>2 DEF Source
<1>7. CASE Perform
  BY <1>1, <1>7 DEF Perform, Channel!Answer, Channel!callVars
<1>8. CASE ChannelStep
  <2>1. results' = results /\ TaskCallsMove /\ LinesStay
    BY <1>8, ChannelStepMoves DEF ChannelStep
  <2>2. ASSUME NEW t \in ExecuteCalls, pc[t] = "answered"
        PROVE  pc'[t] = "answered" /\ got'[t] = got[t] /\ sent'[got[t]] = sent[got[t]]
    BY <2>1, <2>2 DEF TaskCallsMove, LinesStay, Channel!Ended
  <2> QED
    BY <2>1, <2>2
<1>9. CASE CloseSession \/ UNCHANGED vars
  BY <1>1, <1>9 DEF CloseSession, vars
<1> QED
  BY <1>2, <1>3, <1>4, <1>5, <1>6, <1>7, <1>8, <1>9 DEF Next, TaskStep

------------------------------------------------------------------------------
(* The theorems.                                                           *)

\* The inductive invariant holds in every state.
LEMMA Invariance == Spec => [](TaskInv /\ Worker!IInv)
<1>1. Worker!IInv /\ TaskInv /\ [Next]_vars => TaskInv'
  BY NextTypes, NextTogether, NextOneRow, NextTold, NextOwnResults DEF TaskInv
<1> QED
  BY InitTasks, ChannelInvariance, <1>1, PTL DEF Spec

\* The rows, the handlers and what they return are well typed; the results of a
\* row are those of a task, never a live frame's or the stop line's.
THEOREM TypeCorrect == Spec => []TypeOK
<1>1. ASSUME TaskInv, Worker!IInv PROVE TypeOK
  <2>1. Channel!TypeOK
    BY <1>1
    DEF Worker!IInv, Worker!TypeOK, Channel!TypeOK, Worker!Calls, Channel!Calls, Worker!CallPc,
        Channel!CallPc, Worker!Ended, Channel!Ended, Worker!StopPc, Channel!StopPc
  <2> QED
    BY <1>1, <2>1 DEF TypeOK, TaskInv, TaskTypes
<1> QED
  BY Invariance, <1>1, PTL

\* The commands of a request reach the browser at most once, however many calls
\* repeat it at the same time.
THEOREM ExecutedOnceTheorem == Spec => []ExecutedOnce
<1>1. ASSUME TaskInv, Worker!IInv,
             NEW i \in 1..Len(sent), NEW j \in 1..Len(sent), i # j,
             sent[i] \in ExecuteCalls, sent[j] \in ExecuteCalls, req[sent[i]] = req[sent[j]]
      PROVE  req[sent[i]] = NoRequest
  <2>1. pc[sent[i]] # "idle" /\ pc[sent[j]] # "idle" /\ sent[i] # sent[j]
    BY <1>1, ChannelFacts, LinesApart
  <2>2. row[sent[i]] # "absent" /\ row[sent[j]] # "absent"
    BY <1>1, <2>1 DEF TaskInv, RowBeforeCall
  <2> QED
    BY <1>1, <2>1, <2>2, LinesApart DEF TaskInv, OneRow
<1>2. TaskInv /\ Worker!IInv => ExecutedOnce
  BY <1>1 DEF ExecutedOnce
<1> QED
  BY Invariance, <1>2, PTL

\* All the calls with one request id that get a task get the same task.
THEOREM SameAnswerTheorem == Spec => []SameAnswer
<1>1. TaskInv => SameAnswer
  BY DEF TaskInv, TaskTypes, ToldOwn, OneRow, SameAnswer
<1> QED
  BY Invariance, <1>1, PTL

\* What a client was told about the end of a task agrees with its row for ever.
THEOREM ToldTheorem == Spec => []ToldIsTrue
<1>1. TaskInv => ToldIsTrue
  BY DEF TaskInv
<1> QED
  BY Invariance, <1>1, PTL

\* While no call on its worker has given up, a task gets its own results: those
\* of another request cannot make it succeed.
THEOREM OwnResultsTheorem == Spec => []OwnResults
<1>1. TaskInv => OwnResults
  BY DEF TaskInv
<1> QED
  BY Invariance, <1>1, PTL

\* Whose results a row holds, for any number of calls that gave up.
THEOREM ShiftedTheorem == Spec => []ShiftedResults
<1>1. Init => ReadResults
  BY LinesApart DEF Init, ReadResults
<1>2. ASSUME TaskInv, Worker!IInv, ReadResults,
             NEW t \in ExecuteCalls, NEW i \in 1..Len(sent), sent[i] = t, results[t] # NoTask
      PROVE  results[t] = sent[i - Cardinality(Channel!Skipped(i))]
  <2>1. pc[t] = "answered" /\ results[t] = sent[got[t]]
    BY <1>2 DEF ReadResults
  <2>2. t \in Worker!Calls /\ got[t] \in 1..Len(sent)
    BY <1>2, <2>1 DEF TaskInv, AnsweredSent, Worker!Calls
  <2>3. got[t] + Cardinality(Worker!Skipped(i)) = i
    <3>1. Worker!LagLaw
      BY <1>2 DEF Worker!IInv, Worker!LagInv
    <3>2. got[t] # 0
      BY <1>2, <2>2, ChannelFacts
    <3> QED
      BY <1>2, <2>2, <3>1, <3>2, Zenon DEF Worker!LagLaw, Worker!Cardinality, Cardinality
  <2>4. Worker!Skipped(i) = Channel!Skipped(i)
    BY DEF Worker!Skipped, Channel!Skipped
  <2>5. IsFiniteSet(Channel!Skipped(i))
    <3>1. Channel!Skipped(i) \subseteq 1..(i - 1)
      BY DEF Channel!Skipped
    <3>2. 1 \in Int /\ i - 1 \in Int
      BY <1>2, ChannelFacts
    <3>3. IsFiniteSet(1..(i - 1))
      BY <3>2, FS_Interval
    <3> QED
      BY <3>1, <3>3, FS_Subset
  <2>6. got[t] = i - Cardinality(Channel!Skipped(i))
    BY <2>2, <2>3, <2>4, <2>5, <1>2, ChannelFacts, FS_CardinalityType
  <2> QED
    BY <2>1, <2>6
<1>3. TaskInv /\ Worker!IInv /\ ReadResults => ShiftedResults
  BY <1>2 DEF ShiftedResults
<1>4. TaskInv /\ Worker!IInv /\ ReadResults /\ [Next]_vars => ReadResults'
  BY NextReadResults
<1> QED
  BY Invariance, <1>1, <1>3, <1>4, PTL DEF Spec

\* A task ends once.
THEOREM EndedTheorem == Spec => EndedStays
<1>1. TaskInv /\ [Next]_vars =>
        [\A t \in Tasks :
           row[t] \in FinalStatus => row'[t] = row[t] /\ results'[t] = results[t]]_rowVars
  BY EndedRowsStay
<1> QED
  BY Invariance, <1>1, PTL DEF Spec, EndedStays

------------------------------------------------------------------------------
(* The ledger.                                                             *)

\* The tasks whose line was written.
Ran == {t \in Tasks : \E i \in 1..Len(sent) : sent[i] = t}

\* A step that writes no row and sends no line of a task is a stutter.
LEMMA LedgerStutter ==
  ASSUME row' = row, Ran' = Ran, \A t \in Tasks : row[t] = "absent" \/ req'[t] = req[t]
  PROVE  UNCHANGED Ledger!vars
BY DEF Ledger!vars, Ran

\* The ledger starts empty.
LEMMA LedgerInit == Init => Ledger!Init
<1> SUFFICES ASSUME Init PROVE Ledger!Init
  OBVIOUS
<1>1. Len(sent) = 0 /\ row = [t \in Tasks |-> "absent"]
  BY EmptySeq DEF Init, Channel!Init
<1> QED
  BY <1>1 DEF Ledger!Init, LedgerStatus

\* CreateTask accepts a task for a request id no task has.
LEMMA LedgerAccept ==
  ASSUME TaskInv, NEW t \in Tasks, Create(t)
  PROVE  [Ledger!Next]_Ledger!vars
<1> USE DEF TaskInv, TaskTypes
<1>1. sent' = sent /\ req' = req /\ Ran' = Ran
  BY CreateOutcome DEF Ran
<1>2. CASE row' = row
  BY <1>1, <1>2, LedgerStutter
<1> PICK r \in RequestIds \cup {NoRequest} : r = req[t]
  OBVIOUS
<1>3. CASE Holders(req[t]) = {} /\ row' = [row EXCEPT ![t] = FirstStatus(t)]
  <2>1. row[t] = "absent"
    BY DEF Create, RowOfTask
  <2>2. FirstStatus(t) \in {"QUEUED", "RUNNING"}
    BY DEF FirstStatus
  <2>3. Ledger!Accept(t, r)
    <3>1. t \notin Ledger!Accepted
      BY <2>1 DEF Ledger!Accepted, LedgerStatus
    <3>2. \A u \in Ledger!Accepted : row[u] # "absent" /\ u \in Tasks
      BY DEF Ledger!Accepted, LedgerStatus
    <3>3. r # NoRequest =>
            \A u \in Ledger!Accepted :
              [v \in Tasks |-> IF row[v] = "absent" THEN NoRequest ELSE req[v]][u] # r
      BY <1>3, <3>2 DEF Holders
    <3>4. LedgerStatus(FirstStatus(t)) \in {"queued", "open"}
      BY <2>2 DEF LedgerStatus
    <3>5. [v \in Tasks |-> LedgerStatus(row'[v])]
            = [[v \in Tasks |-> LedgerStatus(row[v])] EXCEPT ![t] = LedgerStatus(FirstStatus(t))]
      BY <1>3
    <3>6. [v \in Tasks |-> IF row'[v] = "absent" THEN NoRequest ELSE req'[v]]
            = [[v \in Tasks |-> IF row[v] = "absent" THEN NoRequest ELSE req[v]]
                 EXCEPT ![t] = r]
      BY <1>1, <1>3, <2>2
    <3> QED
      BY <1>1, <3>1, <3>3, <3>4, <3>5, <3>6 DEF Ledger!Accept, Ran
  <2> QED
    BY <2>3 DEF Ledger!Next
<1> QED
  BY <1>2, <1>3, CreateOutcome

\* Adding an element of a set to a part of it, or something else.
LEMMA AddOne ==
  ASSUME NEW T, NEW A, NEW B, NEW x, A \subseteq T, B \subseteq T,
         \A t \in T : t \in B <=> t \in A \/ t = x
  PROVE  (x \in T => B = A \cup {x}) /\ (x \notin T => B = A)
OBVIOUS

\* Writing the line of a task runs it, once, and only while its row is RUNNING.
LEMMA LedgerRun ==
  ASSUME TaskInv, Worker!IInv, ChannelStep
  PROVE  [Ledger!Next]_Ledger!vars
<1> USE ChannelFacts, LinesApart
<1>1. row' = row /\ req' = req
  BY DEF ChannelStep, handlerVars, rowVars
<1>2. CASE Ran' = Ran
  BY <1>1, <1>2, LedgerStutter
<1>3. ASSUME NEW x, sent' = Append(sent, x), x \in Channel!Calls \cup {StopLine}
      PROVE  (x \in Tasks => Ran' = Ran \cup {x}) /\ (x \notin Tasks => Ran' = Ran)
  <2>1. /\ Len(sent') = Len(sent) + 1 /\ sent'[Len(sent) + 1] = x
        /\ \A i \in 1..Len(sent) : sent'[i] = sent[i]
    BY <1>3, AppendProperties
  <2> QED
    <3>1. \A i : i \in 1..Len(sent') <=> i \in 1..Len(sent) \/ i = Len(sent) + 1
      BY <2>1
    <3>2. \A t \in Tasks : t \in Ran' <=> t \in Ran \/ t = x
      BY <2>1, <3>1 DEF Ran
    <3>3. Ran' \subseteq Tasks /\ Ran \subseteq Tasks
      BY DEF Ran
    <3> QED
      BY <3>2, <3>3, AddOne
<1>4. ASSUME NEW c \in Channel!Calls, Channel!Write(c)
      PROVE  [Ledger!Next]_Ledger!vars
  <2>1. CASE sent' = Append(sent, c)
    <3>1. CASE c \in ExecuteCalls
      <4>1. pc[c] = "write" /\ c \in Tasks
        BY <1>4, <3>1 DEF Channel!Write
      <4>2. row[c] = "RUNNING"
        BY <3>1, <4>1 DEF TaskInv, TaskTypes, TaskPc, Waiting, RowOfTask, Channel!Ended
      <4>3. c \notin Ran
        BY <4>1 DEF Ran
      <4>4. Ran' = Ran \cup {c}
        BY <1>3, <2>1, <4>1
      <4>5. Ledger!Run(c)
        BY <1>1, <4>1, <4>2, <4>3, <4>4 DEF Ledger!Run, LedgerStatus, Ran
      <4> QED
        BY <4>1, <4>5 DEF Ledger!Next
    <3>2. CASE c \notin ExecuteCalls
      <4>1. c \notin Tasks
        BY <3>2 DEF Tasks, Channel!Calls
      <4>2. Ran' = Ran
        BY <1>3, <2>1, <4>1
      <4> QED
        BY <1>2, <4>2
    <3> QED
      BY <3>1, <3>2
  <2>2. CASE sent' = sent
    BY <1>2, <2>2 DEF Ran
  <2> QED
    BY <1>4, <2>1, <2>2 DEF Channel!Write
<1>5. CASE Channel!StopTell
  <2>1. CASE sent' = Append(sent, StopLine)
    <3>1. Ran' = Ran
      BY <1>3, <2>1
    <3> QED
      BY <1>2, <3>1
  <2>2. CASE sent' = sent
    BY <1>2, <2>2 DEF Ran
  <2> QED
    BY <1>5, <2>1, <2>2 DEF Channel!StopTell
<1>6. CASE sent' = sent
  BY <1>2, <1>6 DEF Ran
<1>7. \/ \E c \in Channel!Calls : Channel!Write(c)
      \/ Channel!StopTell
      \/ sent' = sent
  BY DEF ChannelStep, Channel!Calls, Channel!Lock, Channel!Call, Channel!CallStep,
         Channel!ReadAnswer, Channel!ReadExit, Channel!ReadTimeout, Channel!TakeRequest,
         Channel!LineTooLong, Channel!Crash, Channel!Stop, Channel!StopStep, Channel!StopSeesExit, Channel!StopWaits,
         Channel!pipeVars
<1> QED
  BY <1>4, <1>5, <1>6, <1>7

\* The update closes the task: as succeeded only when its commands were sent.
LEMMA LedgerClose ==
  ASSUME TaskInv, NEW t \in Tasks, Save(t)
  PROVE  [Ledger!Next]_Ledger!vars
<1>1. Returned(t) /\ sent' = sent /\ req' = req
  BY DEF Save, channelVars
<1>2. t \in ExecuteCalls /\ row[t] = "RUNNING"
  BY <1>1, SaveTypes
<1>3. Ran' = Ran
  BY <1>1 DEF Ran
<1>4. \/ row' = row
      \/ row' = [row EXCEPT ![t] = "FAILED"]
      \/ Succeeds(t) /\ row' = [row EXCEPT ![t] = "SUCCEEDED"]
  BY DEF Save, UpdateTask
<1>5. CASE row' = row
  BY <1>1, <1>3, <1>5, LedgerStutter
<1>6. ASSUME NEW s \in FinalStatus, row' = [row EXCEPT ![t] = s], s = "SUCCEEDED" => Succeeds(t)
      PROVE  [Ledger!Next]_Ledger!vars
  <2>1. s = "SUCCEEDED" => t \in Ran
    BY <1>2, <1>6 DEF TaskInv, AnsweredSent, Succeeds, Ran
  <2>2. [v \in Tasks |-> LedgerStatus(row'[v])]
          = [[v \in Tasks |-> LedgerStatus(row[v])] EXCEPT ![t] = LedgerStatus(s)]
    BY <1>6 DEF TaskInv, TaskTypes
  <2>3. [v \in Tasks |-> IF row'[v] = "absent" THEN NoRequest ELSE req'[v]]
          = [v \in Tasks |-> IF row[v] = "absent" THEN NoRequest ELSE req[v]]
    BY <1>1, <1>2, <1>6 DEF TaskInv, TaskTypes, FinalStatus
  <2>4. LedgerStatus(s) = IF s = "SUCCEEDED" THEN "succeeded" ELSE "failed"
    BY DEF LedgerStatus, FinalStatus
  <2>5. Ledger!Close(t)
    BY <1>2, <1>3, <2>1, <2>2, <2>3, <2>4 DEF Ledger!Close, LedgerStatus, Ran
  <2> QED
    BY <2>5 DEF Ledger!Next
<1> QED
  BY <1>4, <1>5, <1>6 DEF FinalStatus

\* Every step of the handlers is a step of the ledger, or invisible in it.
LEMMA LedgerNext == TaskInv /\ Worker!IInv /\ [Next]_vars => [Ledger!Next]_Ledger!vars
<1> SUFFICES ASSUME TaskInv, Worker!IInv, [Next]_vars PROVE [Ledger!Next]_Ledger!vars
  OBVIOUS
<1> USE DEF handlerVars, rowVars, channelVars
<1>1. ASSUME NEW t \in Tasks, NEW r \in RequestIds \cup {NoRequest}, Lookup(t, r)
      PROVE  [Ledger!Next]_Ledger!vars
  <2>1. row' = row /\ sent' = sent /\ row[t] = "absent" /\ req' = [req EXCEPT ![t] = r]
    BY <1>1 DEF Lookup, TaskInv, RowOfTask
  <2>2. \A u \in Tasks : row[u] = "absent" \/ req'[u] = req[u]
    BY <2>1 DEF TaskInv, TaskTypes
  <2>3. Ran' = Ran
    BY <2>1 DEF Ran
  <2> QED
    BY <2>1, <2>2, <2>3, LedgerStutter
<1>2. ASSUME NEW t \in Tasks, Check(t) \/ (t \in ExecuteCalls /\ Find(t)) \/ Miss(t)
      PROVE  [Ledger!Next]_Ledger!vars
  <2>1. row' = row /\ sent' = sent /\ req' = req
    BY <1>2 DEF Check, Find, Miss, Channel!Call, Channel!pipeVars
  <2>2. Ran' = Ran
    BY <2>1 DEF Ran
  <2> QED
    BY <2>1, <2>2, LedgerStutter
<1>3. CASE Perform \/ CloseSession \/ UNCHANGED vars
  <2>1. row' = row /\ sent' = sent /\ req' = req
    BY <1>3 DEF Perform, CloseSession, vars, Channel!Answer
  <2>2. Ran' = Ran
    BY <2>1 DEF Ran
  <2> QED
    BY <2>1, <2>2, LedgerStutter
<1> QED
  BY <1>1, <1>2, <1>3, LedgerAccept, LedgerRun, LedgerClose DEF Next, TaskStep

\* The handlers implement the ledger: a request id is accepted for one task,
\* whose commands are sent at most once while it is open.
THEOREM LedgerTheorem == Spec => ImplementsLedger
BY LedgerInit, LedgerNext, Invariance, PTL DEF Spec, ImplementsLedger, Ledger!Spec

==============================================================================
