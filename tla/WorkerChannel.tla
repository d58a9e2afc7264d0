---------------------------- MODULE WorkerChannel ----------------------------
(***************************************************************************)
(* The line protocol between the Go runtime and the Python worker of one   *)
(* session (internal/adapters/runtime/cloakbrowser; camoufox is the case   *)
(* without live calls): callers that share workerProcess.mu, the worker's  *)
(* loop, and workerProcess.stop, which takes no lock.                      *)
(*                                                                         *)
(* Lines are never reordered, so the two pipes are cursors into the stream *)
(* of lines sent: the worker has taken the first `taken` of them, answered *)
(* the first `answered`, and the callers have read `readTo` answers. What  *)
(* lies between the cursors is in a pipe, with the worker, or unread.      *)
(***************************************************************************)
EXTENDS Naturals, Sequences, FiniteSets

CONSTANTS
  TaskCalls,     \* calls of executeTask
  FrameCalls,    \* calls of captureLiveFrame
  InputCalls,    \* calls of dispatchLiveInput
  StopLine,      \* the line {"type":"stop"}
  PipeRoom,      \* lines the worker's stdin holds before a write blocks
  AnswerRoom     \* answers the worker's stdout holds before its write blocks

Calls == TaskCalls \cup FrameCalls \cup InputCalls

ASSUME StopLineAssumption == StopLine \notin Calls
ASSUME RoomAssumption == PipeRoom \in Nat \ {0} /\ AnswerRoom \in Nat \ {0}

VARIABLES
  pc,          \* where each call is, and how it ended
  got,         \* which answer a call took for its own, 0 for none
  sent,        \* every line written to the worker's stdin
  taken,       \* how many of them the worker has read
  answered,    \* how many of them it has answered
  readTo,      \* how many answers the callers have read
  worker,      \* "up" or "exited"
  scanning,    \* scanWorkerLines has not met a line longer than its buffer
  exitToken,   \* the buffered exit of workerProcess.done, which one reader gets
  stopPc,      \* where workerProcess.stop is
  stopFailed   \* the error it returned

callVars == <<pc, got>>
pipeVars == <<sent, taken, answered, readTo>>
procVars == <<worker, scanning, exitToken>>
stopVars == <<stopPc, stopFailed>>
vars == <<callVars, pipeVars, procVars, stopVars>>

------------------------------------------------------------------------------

\* A call took an answer it could use, or could not; it gave up; it found stdout
\* closed; it took the worker's exit; its write failed.
Ended == {"answered", "refused", "timeout", "closed", "tookExit", "failed"}
CallPc == {"idle", "lock", "write", "read"} \cup Ended

StopPc == {"idle", "tell", "grace", "signal", "interrupted", "killed", "returned"}

Init ==
  /\ pc = [c \in Calls |-> "idle"]
  /\ got = [c \in Calls |-> 0]
  /\ sent = <<>>
  /\ taken = 0
  /\ answered = 0
  /\ readTo = 0
  /\ worker = "up"
  /\ scanning = TRUE
  /\ exitToken = FALSE
  /\ stopPc = "idle"
  /\ stopFailed = FALSE

CallTo(c, to) == pc' = [pc EXCEPT ![c] = to]

MutexHolders == {c \in Calls : pc[c] \in {"write", "read"}}

\* A write to stdin blocks while the pipe is full and fails once nobody reads it.
CanSend == worker = "up" /\ Len(sent) - taken < PipeRoom
StdinFull == worker = "up" /\ ~CanSend

\* The decoders compare the type of an answer and nothing else.
SameType(c, line) ==
  \/ {c, line} \subseteq TaskCalls
  \/ {c, line} \subseteq FrameCalls
  \/ {c, line} \subseteq InputCalls

------------------------------------------------------------------------------
(* executeTask, captureLiveFrame and dispatchLiveInput.                    *)

\* The call finds the session in the registry, which stopping takes it out of.
Call(c) ==
  /\ pc[c] = "idle"
  /\ stopPc = "idle"
  /\ CallTo(c, "lock")
  /\ UNCHANGED <<got, pipeVars, procVars, stopVars>>

Lock(c) ==
  /\ pc[c] = "lock"
  /\ MutexHolders = {}
  /\ CallTo(c, "write")
  /\ UNCHANGED <<got, pipeVars, procVars, stopVars>>

\* The write has no timeout and does not look at the call's context.
Write(c) ==
  /\ pc[c] = "write"
  /\ \/ /\ CanSend
        /\ sent' = Append(sent, c)
        /\ CallTo(c, "read")
     \/ /\ worker = "exited"
        /\ CallTo(c, "failed")
        /\ UNCHANGED sent
  /\ UNCHANGED <<got, taken, answered, readTo, procVars, stopVars>>

\* Mutant of ReadAnswer: an answer that cannot be used is left for the next call.
ReadOnlyUsable(c) ==
  /\ pc[c] = "read"
  /\ scanning /\ readTo < answered
  /\ \/ /\ SameType(c, sent[readTo + 1]) /\ CallTo(c, "answered")
        /\ readTo' = readTo + 1
        /\ got' = [got EXCEPT ![c] = readTo + 1]
     \/ CallTo(c, "refused") /\ UNCHANGED <<readTo, got>>
  /\ UNCHANGED <<sent, taken, answered, procVars, stopVars>>

\* readLine hands over the oldest unread answer, whoever it is for. Decoding
\* may refuse it: a wrong type, an error from a live call, a malformed result.
ReadAnswer(c) ==
  /\ pc[c] = "read"
  /\ scanning /\ readTo < answered
  /\ readTo' = readTo + 1
  /\ got' = [got EXCEPT ![c] = readTo + 1]
  /\ \/ SameType(c, sent[readTo + 1]) /\ CallTo(c, "answered")
     \/ CallTo(c, "refused")
  /\ UNCHANGED <<sent, taken, answered, procVars, stopVars>>

\* scanWorkerLines closes `lines` when stdout ends, and when it stops scanning.
StdoutClosed == ~scanning \/ (worker = "exited" /\ readTo = answered)

\* readLine finds stdout closed, or takes the exit that stop may be waiting for.
ReadExit(c) ==
  /\ pc[c] = "read"
  /\ \/ StdoutClosed /\ CallTo(c, "closed") /\ UNCHANGED exitToken
     \/ exitToken /\ exitToken' = FALSE /\ CallTo(c, "tookExit")
  /\ UNCHANGED <<got, pipeVars, worker, scanning, stopVars>>

\* Mutants of ReadTimeout: a caller that gives up counts its answer as read; no
\* timeout at all.
TimeoutSkipping(c) ==
  /\ pc[c] = "read"
  /\ CallTo(c, "timeout")
  /\ readTo' = readTo + 1
  /\ UNCHANGED <<got, sent, taken, answered, procVars, stopVars>>

TimeoutNever(c) == pc[c] = "read" /\ FALSE

\* readLine gives up on the task timeout or the call's context. Select is free
\* to do so although an answer is there.
ReadTimeout(c) ==
  /\ pc[c] = "read"
  /\ CallTo(c, "timeout")
  /\ UNCHANGED <<got, pipeVars, procVars, stopVars>>

------------------------------------------------------------------------------
(* The worker's loop, one request at a time.                               *)

\* The process ends: its stop line, a signal, an error no handler catches. What
\* it had answered may be lost: cmd.Wait closes the pipe behind the scanner.
Exit ==
  /\ worker' = "exited"
  /\ exitToken' = TRUE
  /\ answered' \in readTo..answered
  /\ UNCHANGED scanning

TakeRequest ==
  /\ worker = "up"
  /\ taken = answered
  /\ taken < Len(sent)
  /\ taken' = taken + 1
  /\ IF sent[taken + 1] = StopLine
     THEN Exit
     ELSE UNCHANGED <<procVars, answered>>
  /\ UNCHANGED <<callVars, sent, readTo, stopVars>>

\* Mutant of Answer: progress lines on the protocol's stdout.
AnswerTwice ==
  /\ worker = "up"
  /\ answered < taken
  /\ answered - readTo < AnswerRoom
  /\ answered' \in {answered + 1, answered + 2}
  /\ UNCHANGED <<callVars, sent, taken, readTo, procVars, stopVars>>

\* An answer nobody reads stays in stdout: the scanner hands lines over one by
\* one, and the worker's write blocks when the pipe behind it is full.
Answer ==
  /\ worker = "up"
  /\ answered < taken
  /\ answered - readTo < AnswerRoom
  /\ answered' = answered + 1
  /\ UNCHANGED <<callVars, sent, taken, readTo, procVars, stopVars>>

\* The answer that is being written is longer than the scanner's buffer. The
\* scanner has handed over all the earlier ones and ends: the worker is up, and
\* nobody reads its stdout any more. The rest of the line may fit in the pipe.
LineTooLong ==
  /\ worker = "up" /\ scanning
  /\ readTo = answered /\ answered < taken
  /\ scanning' = FALSE
  /\ UNCHANGED <<callVars, pipeVars, worker, exitToken, stopVars>>

Crash ==
  /\ worker = "up"
  /\ Exit
  /\ UNCHANGED <<callVars, sent, taken, readTo, stopVars>>

------------------------------------------------------------------------------
(* workerProcess.stop and stopCommand.                                     *)

StopTo(to) == stopPc' = to /\ UNCHANGED stopFailed

Stop ==
  /\ stopPc = "idle"
  /\ StopTo("tell")
  /\ UNCHANGED <<callVars, pipeVars, procVars>>

\* The stop line is written before any timer is set, and its error ignored.
StopTell ==
  /\ stopPc = "tell"
  /\ \/ CanSend /\ sent' = Append(sent, StopLine)
     \/ worker = "exited" /\ UNCHANGED sent
  /\ StopTo("grace")
  /\ UNCHANGED <<callVars, taken, answered, readTo, procVars>>

\* The exit arrives while stop waits for it.
StopSeesExit ==
  /\ stopPc \in {"grace", "signal", "interrupted", "killed"}
  /\ exitToken
  /\ exitToken' = FALSE
  /\ StopTo("returned")
  /\ UNCHANGED <<callVars, pipeVars, worker, scanning>>

\* Mutants of StopWaits: the grace period ends the stop; it is waited out without
\* a timer.
StopAfterGrace ==
  /\ \/ stopPc = "grace" /\ StopTo("returned")
     \/ stopPc = "signal" /\ ~exitToken /\ StopTo("interrupted")
     \/ stopPc = "interrupted" /\ StopTo("killed")
     \/ stopPc = "killed" /\ stopPc' = "returned" /\ stopFailed' = TRUE
  /\ UNCHANGED <<callVars, pipeVars, procVars>>

StopWithoutTimer ==
  /\ \/ stopPc = "signal" /\ ~exitToken /\ StopTo("interrupted")
     \/ stopPc = "interrupted" /\ StopTo("killed")
     \/ stopPc = "killed" /\ stopPc' = "returned" /\ stopFailed' = TRUE
  /\ UNCHANGED <<callVars, pipeVars, procVars>>

\* ShutdownTimeout passes, SIGINT is sent, it passes again, SIGKILL is sent, and
\* after one more second stop reports that the process did not exit.
StopWaits ==
  /\ \/ stopPc = "grace" /\ StopTo("signal")
     \/ stopPc = "signal" /\ ~exitToken /\ StopTo("interrupted")
     \/ stopPc = "interrupted" /\ StopTo("killed")
     \/ stopPc = "killed" /\ stopPc' = "returned" /\ stopFailed' = TRUE
  /\ UNCHANGED <<callVars, pipeVars, procVars>>

------------------------------------------------------------------------------

CallStep(c) ==
  \/ Write(c)
  \/ ReadAnswer(c)
  \/ ReadExit(c)
  \/ ReadTimeout(c)

WorkerStep == TakeRequest \/ Answer

StopStep ==
  \/ StopTell
  \/ StopSeesExit
  \/ StopWaits

Next ==
  \/ \E c \in Calls : Call(c) \/ Lock(c) \/ CallStep(c)
  \/ WorkerStep
  \/ LineTooLong
  \/ Crash
  \/ Stop
  \/ StopStep

Spec == Init /\ [][Next]_vars

\* Timers fire and a Go mutex starves no waiter. The worker owes nothing: a page
\* script without an end keeps it busy for ever.
FairSpec ==
  /\ Spec
  /\ \A c \in Calls : SF_vars(Lock(c)) /\ WF_vars(CallStep(c))
  /\ WF_vars(StopStep)

\* A worker that goes on with its loop whenever it can, for as long as the scanner
\* reads what it writes: inside a line that is too long it may be blocked for ever.
HealthySpec == FairSpec /\ WF_vars(scanning /\ WorkerStep)

------------------------------------------------------------------------------
(* Properties.                                                             *)

TypeOK ==
  /\ pc \in [Calls -> CallPc]
  /\ got \in [Calls -> Nat]
  /\ sent \in Seq(Calls \cup {StopLine})
  /\ taken \in Nat /\ answered \in Nat /\ readTo \in Nat
  /\ readTo <= answered /\ answered <= taken /\ taken <= Len(sent)
  /\ worker \in {"up", "exited"}
  /\ scanning \in BOOLEAN
  /\ exitToken \in BOOLEAN
  /\ stopPc \in StopPc
  /\ stopFailed \in BOOLEAN

\* Lines before the i-th whose answer no caller read in its turn.
Skipped(i) ==
  {j \in 1..(i - 1) : sent[j] = StopLine \/ pc[sent[j]] = "timeout"}

\* A call reads its own answer if and only if no earlier call gave up: every
\* time-out shifts all the answers read after it by one, for the rest of the
\* session.
LagLaw ==
  \A i \in 1..Len(sent) :
    \A c \in Calls :
      (sent[i] = c /\ got[c] # 0) => got[c] + Cardinality(Skipped(i)) = i

\* Calls that read no answer because they gave up or found stdout closed, and the
\* one that still reads.
Abandoned == {c \in Calls : pc[c] = "timeout"}
Closed == {c \in Calls : pc[c] = "closed"}
Reading == {c \in Calls : pc[c] = "read"}
StopLinesSent == IF stopPc \in {"idle", "tell"} THEN 0 ELSE 1

\* What fills the pipes: as long as the worker runs, every line that was sent has
\* had one answer read, belongs to a call that gave up, found stdout closed or is
\* reading, or is the stop line - and stdout is closed by a line that was too
\* long only. Nothing is read in excess and nothing takes an answer back, so an
\* answer nobody waits for is never got rid of.
LinesAccounted ==
  worker = "up" =>
    /\ Len(sent) = readTo + Cardinality(Abandoned) + Cardinality(Closed)
                     + Cardinality(Reading) + StopLinesSent
    /\ scanning => Closed = {}

\* The worker waits to write an answer, its stdin is full and nobody reads: what
\* StopReturns runs into.
Wedged ==
  /\ StdinFull /\ Reading = {}
  /\ answered < taken /\ (scanning => answered - readTo >= AnswerRoom)

\* That takes as many calls that gave up as both pipes hold, and one more - or
\* one line that was too long, and then as many calls without an answer as
\* stdin holds, and one more.
WedgedByUnread ==
  Wedged =>
    IF scanning
    THEN Cardinality(Abandoned) + StopLinesSent > PipeRoom + AnswerRoom
    ELSE Cardinality(Abandoned) + Cardinality(Closed) + StopLinesSent > PipeRoom

\* A stop that reports no error leaves no worker process behind.
StopSuccessMeansGone == (stopPc = "returned" /\ ~stopFailed) => worker = "exited"

\* The error that stop returns is right: without one the worker is gone; with one
\* it was running then - it may have exited since, and its exit may still be
\* waiting to be read - or a call had taken the exit that stop was waiting for.
StopVerdict ==
  stopPc = "returned" =>
    IF stopFailed
    THEN worker = "up" \/ exitToken \/ \E c \in Calls : pc[c] = "tookExit"
    ELSE worker = "exited"

\* The worker answers a request with the task_id it carried, for the caller
\* that sent it: a call that succeeds returns its own answer.
AnswerMatches == \A c \in Calls : pc[c] = "answered" => sent[got[c]] = c

\* Every call returns, whatever the worker does and although it waits for a mutex
\* that others hold - unless stdin stays full for ever: then a write blocks, and
\* all the calls behind its mutex with it. One that has written returns even so.
CallsReturn ==
  \A c \in Calls :
    /\ pc[c] = "read" ~> pc[c] \in Ended
    /\ (pc[c] # "idle" ~> pc[c] \in Ended) \/ <>[]StdinFull

\* workerProcess.stop returns once its line is written, with and without the exit
\* it waits for; to write it takes a stdin that does not stay full for ever.
StopReturnsOnceTold ==
  /\ stopPc \notin {"idle", "tell"} ~> stopPc = "returned"
  /\ (stopPc # "idle" ~> stopPc = "returned") \/ <>[]StdinFull

\* workerProcess.stop returns, whatever the worker does.
StopReturns == stopPc # "idle" ~> stopPc = "returned"

==============================================================================
