------------------------- MODULE WorkerChannel_proofs -------------------------
(***************************************************************************)
(* Proofs about WorkerChannel, for every set of calls and every capacity   *)
(* of the two pipes.                                                       *)
(***************************************************************************)
EXTENDS WorkerChannel, FiniteSetTheorems, SequenceTheorems, TLAPS

------------------------------------------------------------------------------
(* The inductive invariant, in named parts.                                *)

\* workerProcess.mu is held by one call from its write to the end of its read.
OneHolder == \A c, d \in MutexHolders : c = d

\* Each call writes one line, and the one that reads has written its own.
SentOnce ==
  /\ \A i, j \in 1..Len(sent) : sent[i] = sent[j] /\ sent[i] # StopLine => i = j
  /\ \A i \in 1..Len(sent) :
       sent[i] # StopLine => pc[sent[i]] \notin {"idle", "lock", "write"}
  /\ \A c \in Calls : pc[c] = "read" => \E i \in 1..Len(sent) : sent[i] = c

\* A call holds an answer only after it has read one.
NotReadYet == \A c \in Calls : pc[c] \notin {"answered", "refused"} => got[c] = 0

\* The next answer a reading call will find, if stdout is scanned, is as far
\* behind its own as there are skipped lines before it, and nothing but a stop
\* line was sent since.
ReaderLag ==
  \A c \in Calls : \A i \in 1..Len(sent) :
    (pc[c] = "read" /\ sent[i] = c) =>
      /\ scanning => readTo + 1 + Cardinality(Skipped(i)) = i
      /\ \A j \in (i + 1)..Len(sent) : sent[j] = StopLine

\* Between calls every line sent was read in its turn or skipped, as long as the
\* scanner hands over what the worker writes.
IdleLag ==
  (worker = "up" /\ scanning /\ \A c \in Calls : pc[c] # "read") =>
    readTo + Cardinality(Skipped(Len(sent) + 1)) = Len(sent)

\* Nobody has seen an exit that has not happened.
ExitSeen == worker = "up" => ~exitToken /\ StopSuccessMeansGone

LagInv == OneHolder /\ SentOnce /\ NotReadYet /\ ReaderLag /\ IdleLag /\ LagLaw

\* The worker answers requests only: it exits when it takes the stop line. An
\* answer a call holds was read, and the call has a line.
AnswersToCalls ==
  /\ \A k \in 1..answered : sent[k] # StopLine
  /\ worker = "up" => \A k \in 1..taken : sent[k] # StopLine
  /\ \A c \in Calls : got[c] # 0 => got[c] <= readTo /\ \E i \in 1..Len(sent) : sent[i] = c

IInv == TypeOK /\ LagInv /\ ExitSeen /\ AnswersToCalls

------------------------------------------------------------------------------
(* Type correctness and the exit of the worker.                            *)

\* A stream has a length, and its positions hold calls or the stop line.
LEMMA SentLines ==
  ASSUME TypeOK
  PROVE  /\ Len(sent) \in Nat
         /\ \A j \in 1..Len(sent) : sent[j] \in Calls \cup {StopLine}
BY LenProperties, ElementOfSeq DEF TypeOK

\* What writing a line does to the stream.
LEMMA SendLine ==
  ASSUME TypeOK, NEW x \in Calls \cup {StopLine}, sent' = Append(sent, x)
  PROVE  /\ sent' \in Seq(Calls \cup {StopLine})
         /\ Len(sent') = Len(sent) + 1
         /\ \A j \in 1..Len(sent) : sent'[j] = sent[j]
         /\ sent'[Len(sent) + 1] = x
BY AppendProperties DEF TypeOK

\* The initial state is well typed, and its worker runs.
LEMMA InitTypeOK == Init => TypeOK /\ ExitSeen
<1> SUFFICES ASSUME Init PROVE TypeOK /\ ExitSeen
  OBVIOUS
<1>1. sent \in Seq(Calls \cup {StopLine}) /\ Len(sent) = 0
  BY EmptySeq DEF Init
<1>2. /\ pc \in [Calls -> CallPc]
      /\ got \in [Calls -> Nat]
      /\ taken = 0 /\ answered = 0 /\ readTo = 0
      /\ worker = "up" /\ scanning = TRUE /\ exitToken = FALSE
      /\ stopPc = "idle" /\ stopFailed = FALSE
  BY DEF Init, CallPc
<1>3. readTo <= answered /\ answered <= taken /\ taken <= Len(sent)
  BY <1>1, <1>2
<1>4. TypeOK
  BY <1>1, <1>2, <1>3 DEF TypeOK, StopPc
<1>5. ExitSeen
  BY <1>2 DEF ExitSeen, StopSuccessMeansGone
<1> QED
  BY <1>4, <1>5

\* Every step of a call, the worker or stop keeps the types.
LEMMA NextTypeOK == TypeOK /\ [Next]_vars => TypeOK'
<1> SUFFICES ASSUME TypeOK, [Next]_vars PROVE TypeOK'
  OBVIOUS
<1> Len(sent) \in Nat
  BY SentLines
<1> USE DEF TypeOK, CallPc, Ended, StopPc, vars, callVars, pipeVars, procVars, stopVars,
        CallTo, StopTo
<1>1. ASSUME NEW c \in Calls, Call(c) \/ Lock(c)
      PROVE  TypeOK'
  BY <1>1 DEF Call, Lock
<1>2. ASSUME NEW c \in Calls, CallStep(c)
      PROVE  TypeOK'
  <2>1. CASE Write(c)
    <3>1. CASE sent' = Append(sent, c)
      BY <2>1, <3>1, SendLine DEF Write
    <3> QED
      BY <2>1, <3>1 DEF Write
  <2>2. CASE ReadAnswer(c)   BY <2>2 DEF ReadAnswer
  <2>3. CASE ReadExit(c)     BY <2>3 DEF ReadExit
  <2>4. CASE ReadTimeout(c)  BY <2>4 DEF ReadTimeout
  <2> QED
    BY <1>2, <2>1, <2>2, <2>3, <2>4 DEF CallStep
<1>3. ASSUME WorkerStep \/ LineTooLong \/ Crash
      PROVE  TypeOK'
  <2>1. CASE TakeRequest
    <3>1. taken' \in Nat /\ taken < taken' /\ taken' <= Len(sent)
      BY <2>1 DEF TakeRequest
    <3>2. CASE Exit
      BY <2>1, <3>1, <3>2 DEF TakeRequest, Exit
    <3>3. CASE UNCHANGED <<procVars, answered>>
      BY <2>1, <3>1, <3>3 DEF TakeRequest
    <3> QED
      BY <2>1, <3>2, <3>3 DEF TakeRequest
  <2>2. CASE Answer          BY <2>2 DEF Answer
  <2>3. CASE Crash           BY <2>3 DEF Crash, Exit
  <2>4. CASE LineTooLong     BY <2>4 DEF LineTooLong
  <2> QED
    BY <1>3, <2>1, <2>2, <2>3, <2>4 DEF WorkerStep
<1>4. ASSUME Stop \/ StopStep
      PROVE  TypeOK'
  <2>1. CASE Stop            BY <2>1 DEF Stop
  <2>2. CASE StopTell
    <3>1. CASE sent' = Append(sent, StopLine)
      BY <2>2, <3>1, SendLine DEF StopTell
    <3> QED
      BY <2>2, <3>1 DEF StopTell
  <2>3. CASE StopSeesExit    BY <2>3 DEF StopSeesExit
  <2>4. CASE StopWaits       BY <2>4 DEF StopWaits
  <2> QED
    BY <1>4, <2>1, <2>2, <2>3, <2>4 DEF StopStep
<1>5. CASE UNCHANGED vars
  BY <1>5
<1> QED
  BY <1>1, <1>2, <1>3, <1>4, <1>5 DEF Next

\* The exit token is the only way to a stop without an error.
LEMMA NextExitSeen == TypeOK /\ ExitSeen /\ [Next]_vars => ExitSeen'
<1> SUFFICES ASSUME TypeOK, ExitSeen, [Next]_vars PROVE ExitSeen'
  OBVIOUS
<1> USE DEF TypeOK, ExitSeen, StopSuccessMeansGone, vars, callVars, pipeVars, procVars, stopVars,
        StopTo
<1>1. ASSUME NEW c \in Calls, Call(c) \/ Lock(c) \/ CallStep(c)
      PROVE  ExitSeen'
  BY <1>1 DEF Call, Lock, CallStep, Write, ReadAnswer, ReadExit, ReadTimeout
<1>2. ASSUME WorkerStep \/ LineTooLong \/ Crash
      PROVE  ExitSeen'
  BY <1>2 DEF WorkerStep, TakeRequest, Answer, LineTooLong, Crash, Exit
<1>3. ASSUME Stop \/ StopStep
      PROVE  ExitSeen'
  BY <1>3 DEF Stop, StopStep, StopTell, StopSeesExit, StopWaits
<1>4. CASE UNCHANGED vars
  BY <1>4
<1> QED
  BY <1>1, <1>2, <1>3, <1>4 DEF Next

------------------------------------------------------------------------------
(* Counting skipped lines.                                                 *)

\* The lines skipped before the i-th are finitely many.
LEMMA SkippedFinite ==
  ASSUME TypeOK, NEW i \in 1..(Len(sent) + 1)
  PROVE  IsFiniteSet(Skipped(i)) /\ Cardinality(Skipped(i)) \in Nat
<1>1. IsFiniteSet(1..(i - 1))
  BY SentLines, FS_Interval
<1>2. Skipped(i) \subseteq 1..(i - 1)
  BY DEF Skipped
<1> QED
  BY <1>1, <1>2, FS_Subset, FS_CardinalityType

\* Adding an interval above a set of positions.
LEMMA AddInterval ==
  ASSUME NEW S, IsFiniteSet(S), NEW a \in Nat, NEW b \in Nat, a <= b + 1,
         \A x \in S : x \notin a..b
  PROVE  Cardinality(S \cup (a..b)) = Cardinality(S) + (b + 1 - a)
<1>1. IsFiniteSet(a..b) /\ Cardinality(a..b) = b + 1 - a
  BY FS_Interval
<1>2. S \cap (a..b) = {}
  OBVIOUS
<1>3. Cardinality(S \cap (a..b)) = 0
  BY <1>2, FS_EmptySet
<1>4. Cardinality(S) \in Nat
  BY FS_CardinalityType
<1>5. Cardinality(S \cup (a..b)) = Cardinality(S) + Cardinality(a..b) - Cardinality(S \cap (a..b))
  BY <1>1, FS_Union
<1> QED
  BY <1>1, <1>3, <1>4, <1>5

\* A step that sends nothing and lets no call give up skips no line.
LEMMA SameSkipped ==
  ASSUME TypeOK, TypeOK', sent' = sent,
         \A c \in Calls : pc'[c] = "timeout" <=> pc[c] = "timeout"
  PROVE  \A i \in 1..(Len(sent) + 1) : Skipped(i)' = Skipped(i)
<1> SUFFICES ASSUME NEW i \in 1..(Len(sent) + 1), NEW j \in 1..(i - 1)
             PROVE  (sent'[j] = StopLine \/ pc'[sent'[j]] = "timeout")
                      <=> (sent[j] = StopLine \/ pc[sent[j]] = "timeout")
  BY DEF Skipped
<1>1. j \in 1..Len(sent)
  BY SentLines
<1>2. sent[j] \in Calls \cup {StopLine}
  BY <1>1, SentLines
<1> QED
  BY <1>2

\* Nor does a line sent count among the skipped ones before an earlier line.
LEMMA AppendSkipped ==
  ASSUME TypeOK, NEW x \in Calls \cup {StopLine}, sent' = Append(sent, x),
         \A c \in Calls : pc'[c] = "timeout" <=> pc[c] = "timeout"
  PROVE  \A i \in 1..(Len(sent) + 1) : Skipped(i)' = Skipped(i)
<1> SUFFICES ASSUME NEW i \in 1..(Len(sent) + 1), NEW j \in 1..(i - 1)
             PROVE  (sent'[j] = StopLine \/ pc'[sent'[j]] = "timeout")
                      <=> (sent[j] = StopLine \/ pc[sent[j]] = "timeout")
  BY DEF Skipped
<1>1. j \in 1..Len(sent)
  BY SentLines
<1>2. sent[j] \in Calls \cup {StopLine} /\ sent'[j] = sent[j]
  BY <1>1, SentLines, SendLine
<1> QED
  BY <1>2

------------------------------------------------------------------------------
(* The lag.                                                                *)

\* No line is sent at first.
LEMMA InitLag == Init => LagInv
<1> SUFFICES ASSUME Init PROVE LagInv
  OBVIOUS
<1>1. Len(sent) = 0
  BY EmptySeq DEF Init
<1>2. Skipped(1) = {}
  BY DEF Skipped
<1>3. Cardinality(Skipped(Len(sent) + 1)) = 0
  BY <1>1, <1>2, FS_EmptySet
<1>4. readTo = 0 /\ pc = [c \in Calls |-> "idle"] /\ got = [c \in Calls |-> 0]
  BY DEF Init
<1> QED
  BY <1>1, <1>3, <1>4 DEF LagInv, OneHolder, SentOnce, NotReadYet, ReaderLag, IdleLag, LagLaw,
                         MutexHolders

\* A step that neither sends, reads nor gives up: positions move within a call,
\* and whoever starts or stops reading has not sent or finds the worker gone.
LEMMA QuietStep ==
  ASSUME TypeOK, TypeOK', LagInv,
         sent' = sent, readTo' = readTo, got' = got,
         worker' = "up" => worker = "up", scanning' => scanning,
         \/ pc' = pc
         \/ \E c \in Calls :
              /\ pc' = [pc EXCEPT ![c] = pc'[c]]
              /\ \/ pc[c] = "idle" /\ pc'[c] = "lock"
                 \/ pc[c] = "lock" /\ pc'[c] = "write" /\ MutexHolders = {}
                 \/ /\ pc[c] \in {"write", "read"}
                    /\ pc'[c] \in {"closed", "tookExit", "failed"}
                    /\ worker' = "exited" \/ ~scanning'
  PROVE  LagInv'
<1> USE DEF LagInv
<1>1. \A c \in Calls : pc'[c] = "timeout" <=> pc[c] = "timeout"
  BY DEF TypeOK
<1>2. \A i \in 1..(Len(sent) + 1) : Skipped(i)' = Skipped(i)
  BY <1>1, SameSkipped
<1>3. \A c \in Calls : pc'[c] = "read" => pc[c] = "read"
  BY DEF TypeOK
<1>4. OneHolder'
  BY DEF OneHolder, MutexHolders, TypeOK
<1>5. SentOnce'
  BY SentLines DEF SentOnce, TypeOK
<1>6. NotReadYet'
  BY DEF NotReadYet, TypeOK
<1>7. ReaderLag'
  BY <1>2, <1>3, SentLines DEF ReaderLag
<1>8. IdleLag'
  <2>1. worker' = "up" /\ scanning' =>
          \A c \in Calls : pc'[c] # "read" => pc[c] # "read"
    BY DEF TypeOK
  <2> QED
    BY <1>2, <2>1, SentLines DEF IdleLag
<1>9. LagLaw'
  BY <1>2, SentLines DEF LagLaw
<1> QED
  BY <1>4, <1>5, <1>6, <1>7, <1>8, <1>9

\* The line a call sends is as far ahead of the answers read as there are
\* skipped lines before it.
LEMMA SendStep ==
  ASSUME TypeOK, TypeOK', LagInv, NEW c \in Calls, Write(c), sent' = Append(sent, c),
         worker = "up", pc' = [pc EXCEPT ![c] = "read"]
  PROVE  LagInv'
<1> USE DEF LagInv
<1>0. PICK n \in Nat : n = Len(sent)
  BY SentLines
<1>1. \A d \in Calls : pc'[d] = "timeout" <=> pc[d] = "timeout"
  BY DEF TypeOK, Write
<1>2. \A i \in 1..(n + 1) : Skipped(i)' = Skipped(i)
  BY <1>0, <1>1, AppendSkipped
<1>3. /\ Len(sent') = n + 1
      /\ \A j \in 1..n : sent'[j] = sent[j]
      /\ sent'[n + 1] = c
  BY <1>0, SendLine
<1>4. pc[c] = "write" /\ \A d \in Calls : pc[d] # "read"
  BY DEF Write, OneHolder, MutexHolders
<1>5. readTo' = readTo /\ got' = got
  BY DEF Write, pipeVars
<1>a. scanning' = scanning
  BY DEF Write, procVars
<1>6. OneHolder'
  <2>1. \A d \in Calls : pc[d] \in {"write", "read"} => d = c
    BY <1>4 DEF OneHolder, MutexHolders
  <2>2. \A d \in Calls : pc'[d] \in {"write", "read"} => d = c
    BY <2>1 DEF TypeOK
  <2> QED
    BY <2>2 DEF OneHolder, MutexHolders
<1>7. SentOnce'
  <2>1. \A i \in 1..n : sent[i] # c
    BY <1>0, <1>4, StopLineAssumption DEF SentOnce
  <2>2. \A i \in 1..Len(sent') : i = n + 1 \/ i \in 1..n
    BY <1>3
  <2> QED
    BY <1>0, <1>3, <1>4, <2>1, <2>2, SentLines DEF SentOnce, TypeOK
<1>8. NotReadYet'
  BY <1>4, <1>5 DEF NotReadYet, TypeOK
<1>9. ReaderLag'
  <2>1. scanning => readTo + Cardinality(Skipped(n + 1)) = n
    BY <1>0, <1>4 DEF IdleLag
  <2>2. Cardinality(Skipped(n + 1)) \in Nat
    BY <1>0, SkippedFinite
  <2>3. \A d \in Calls : pc'[d] = "read" => d = c
    BY <1>4 DEF TypeOK
  <2>4. \A i \in 1..Len(sent') : sent'[i] = c => i = n + 1
    BY <1>0, <1>3, <1>4, StopLineAssumption DEF SentOnce
  <2> Skipped(n + 1)' = Skipped(n + 1)
    BY <1>2
  <2>5. scanning' => readTo' + 1 + Cardinality(Skipped(n + 1)') = n + 1
    BY <1>5, <1>a, <2>1, <2>2 DEF TypeOK
  <2>6. ((n + 1) + 1)..Len(sent') = {}
    BY <1>3
  <2> QED
    BY <1>3, <2>3, <2>4, <2>5, <2>6 DEF ReaderLag
<1>10. IdleLag'
  BY DEF IdleLag, TypeOK
<1>11. LagLaw'
  <2>1. got'[c] = 0
    BY <1>4, <1>5 DEF NotReadYet
  <2>2. \A i \in 1..Len(sent') : i = n + 1 \/ i \in 1..n
    BY <1>3
  <2> QED
    BY <1>0, <1>2, <1>3, <1>5, <2>1, <2>2 DEF LagLaw
<1> QED
  BY <1>6, <1>7, <1>8, <1>9, <1>10, <1>11

\* What ReaderLag says of a reading call and its line, and what it adds up to at
\* the end of the stream once that line is read or skipped.
LEMMA LinesSince ==
  ASSUME TypeOK, LagInv, NEW c \in Calls, pc[c] = "read"
  PROVE  \E i \in 1..Len(sent) :
           /\ sent[i] = c
           /\ scanning => readTo + 1 + Cardinality(Skipped(i)) = i
           /\ \A j \in (i + 1)..Len(sent) : sent[j] = StopLine
           /\ \A j \in 1..Len(sent) : sent[j] = c => j = i
           /\ IsFiniteSet(Skipped(i)) /\ Cardinality(Skipped(i)) \in Nat
           /\ Cardinality(Skipped(i) \cup ((i + 1)..Len(sent)))
                = Cardinality(Skipped(i)) + (Len(sent) - i)
           /\ Cardinality(Skipped(i) \cup (i..Len(sent)))
                = Cardinality(Skipped(i)) + (Len(sent) + 1 - i)
<1>1. PICK i \in 1..Len(sent) : sent[i] = c
  BY DEF LagInv, SentOnce
<1>2. Len(sent) \in Nat /\ i \in Nat
  BY SentLines
<1>3. IsFiniteSet(Skipped(i)) /\ Cardinality(Skipped(i)) \in Nat
  BY <1>2, SkippedFinite
<1>4. \A x \in Skipped(i) : x \notin i..Len(sent) /\ x \notin (i + 1)..Len(sent)
  BY <1>2 DEF Skipped
<1>5. Cardinality(Skipped(i) \cup ((i + 1)..Len(sent)))
        = Cardinality(Skipped(i)) + (Len(sent) + 1 - (i + 1))
  <2>1. i + 1 \in Nat /\ i + 1 <= Len(sent) + 1
    BY <1>2
  <2>2. \A x \in Skipped(i) : x \notin (i + 1)..Len(sent)
    BY <1>4
  <2> QED
    BY <1>2, <1>3, <2>1, <2>2, AddInterval
<1>6. Cardinality(Skipped(i) \cup (i..Len(sent)))
        = Cardinality(Skipped(i)) + (Len(sent) + 1 - i)
  <2>1. i <= Len(sent) + 1
    BY <1>2
  <2>2. \A x \in Skipped(i) : x \notin i..Len(sent)
    BY <1>4
  <2> QED
    BY <1>2, <1>3, <2>1, <2>2, AddInterval
<1>7. Len(sent) + 1 - (i + 1) = Len(sent) - i
  BY <1>2
<1> QED
  BY <1>1, <1>3, <1>5, <1>6, <1>7, StopLineAssumption DEF LagInv, SentOnce, ReaderLag

\* A call that reads an answer finds the one as many lines behind its own as
\* were skipped.
LEMMA ReadStep ==
  ASSUME TypeOK, TypeOK', LagInv, NEW c \in Calls, ReadAnswer(c)
  PROVE  LagInv'
<1> USE DEF LagInv
<1>1. /\ scanning /\ pc[c] = "read" /\ sent' = sent /\ readTo' = readTo + 1
      /\ got' = [got EXCEPT ![c] = readTo + 1]
      /\ pc' = [pc EXCEPT ![c] = pc'[c]] /\ pc'[c] \in {"answered", "refused"}
  BY DEF ReadAnswer, CallTo, TypeOK
<1>2. PICK n \in Nat : n = Len(sent)
  BY SentLines
<1>3. PICK i \in 1..n :
        /\ sent[i] = c
        /\ readTo + 1 + Cardinality(Skipped(i)) = i
        /\ \A j \in (i + 1)..n : sent[j] = StopLine
        /\ \A j \in 1..n : sent[j] = c => j = i
        /\ IsFiniteSet(Skipped(i)) /\ Cardinality(Skipped(i)) \in Nat
        /\ Cardinality(Skipped(i) \cup ((i + 1)..n)) = Cardinality(Skipped(i)) + (n - i)
  BY <1>1, <1>2, LinesSince
<1>4. \A k \in 1..(n + 1) : Skipped(k)' = Skipped(k)
  <2>1. \A d \in Calls : pc'[d] = "timeout" <=> pc[d] = "timeout"
    BY <1>1 DEF TypeOK
  <2> QED
    BY <1>1, <1>2, <2>1, SameSkipped
<1>5. \A d \in Calls : pc[d] \in {"write", "read"} => d = c
  BY <1>1 DEF OneHolder, MutexHolders
<1>6. \A d \in Calls : pc'[d] \notin {"write", "read"}
  BY <1>1, <1>5 DEF TypeOK
<1>7. OneHolder' /\ ReaderLag'
  BY <1>6 DEF OneHolder, MutexHolders, ReaderLag
<1>8. SentOnce'
  BY <1>1, <1>6, SentLines DEF SentOnce, TypeOK
<1>9. NotReadYet'
  BY <1>1 DEF NotReadYet, TypeOK
<1>10. IdleLag'
  <2>1. Skipped(n + 1) = Skipped(i) \cup ((i + 1)..n)
    BY <1>1, <1>3, StopLineAssumption DEF Skipped
  <2>2. Skipped(n + 1)' = Skipped(n + 1)
    BY <1>4
  <2>3. Cardinality(Skipped(n + 1)') = Cardinality(Skipped(i)) + (n - i)
    BY <1>3, <2>1, <2>2
  <2>4. readTo' + Cardinality(Skipped(n + 1)') = n
    <3>1. readTo' = readTo + 1 /\ readTo \in Nat /\ i \in Nat
      BY <1>1 DEF TypeOK
    <3>2. readTo + 1 + Cardinality(Skipped(i)) = i /\ Cardinality(Skipped(i)) \in Nat
      BY <1>3
    <3> QED
      BY <2>3, <3>1, <3>2
  <2>5. Len(sent') = n
    BY <1>1, <1>2
  <2> QED
    BY <2>4, <2>5 DEF IdleLag
<1>11. LagLaw'
  <2> SUFFICES ASSUME NEW k \in 1..n, NEW d \in Calls, sent[k] = d, got'[d] # 0
               PROVE  got'[d] + Cardinality(Skipped(k)) = k
    <3>1. \A k \in 1..n : Skipped(k)' = Skipped(k)
      BY <1>4
    <3> QED
      BY <1>1, <1>2, <3>1 DEF LagLaw
  <2>1. CASE d = c
    <3>1. k = i /\ got'[c] = readTo + 1
      BY <1>1, <1>3, <2>1 DEF TypeOK
    <3> QED
      BY <1>3, <2>1, <3>1
  <2>2. CASE d # c
    BY <1>1, <1>2, <2>2 DEF LagLaw, TypeOK
  <2> QED
    BY <2>1, <2>2
<1> QED
  BY <1>7, <1>8, <1>9, <1>10, <1>11

\* A call that gives up leaves its answer unread: its line is skipped from now on.
LEMMA TimeoutStep ==
  ASSUME TypeOK, TypeOK', LagInv, NEW c \in Calls, ReadTimeout(c)
  PROVE  LagInv'
<1> USE DEF LagInv
<1>1. /\ pc[c] = "read" /\ sent' = sent /\ readTo' = readTo /\ got' = got
      /\ pc' = [pc EXCEPT ![c] = "timeout"]
      /\ scanning' = scanning
  BY DEF ReadTimeout, CallTo, pipeVars, procVars
<1>2. PICK n \in Nat : n = Len(sent)
  BY SentLines
<1>3. PICK i \in 1..n :
        /\ sent[i] = c
        /\ scanning => readTo + 1 + Cardinality(Skipped(i)) = i
        /\ \A j \in (i + 1)..n : sent[j] = StopLine
        /\ \A j \in 1..n : sent[j] = c => j = i
        /\ IsFiniteSet(Skipped(i)) /\ Cardinality(Skipped(i)) \in Nat
        /\ Cardinality(Skipped(i) \cup (i..n)) = Cardinality(Skipped(i)) + (n + 1 - i)
  BY <1>1, <1>2, LinesSince
<1>4. \A k \in 1..i : Skipped(k)' = Skipped(k)
  <2> SUFFICES ASSUME NEW k \in 1..i, NEW j \in 1..(k - 1)
               PROVE  (sent[j] = StopLine \/ pc'[sent[j]] = "timeout")
                        <=> (sent[j] = StopLine \/ pc[sent[j]] = "timeout")
    BY <1>1 DEF Skipped
  <2>1. j \in 1..n /\ j # i
    OBVIOUS
  <2>2. sent[j] # c /\ sent[j] \in Calls \cup {StopLine}
    BY <1>2, <1>3, <2>1, SentLines
  <2> QED
    BY <1>1, <2>2 DEF TypeOK
<1>5. \A d \in Calls : pc[d] \in {"write", "read"} => d = c
  BY <1>1 DEF OneHolder, MutexHolders
<1>6. \A d \in Calls : pc'[d] \notin {"write", "read"}
  BY <1>1, <1>5 DEF TypeOK
<1>7. OneHolder' /\ ReaderLag'
  BY <1>6 DEF OneHolder, MutexHolders, ReaderLag
<1>8. SentOnce'
  BY <1>1, <1>6, SentLines DEF SentOnce, TypeOK
<1>9. NotReadYet'
  BY <1>1 DEF NotReadYet, TypeOK
<1>10. IdleLag'
  <2>1. Skipped(n + 1)' = Skipped(i)' \cup (i..n)
    <3>1. \A j \in i..n : sent'[j] = StopLine \/ pc'[sent'[j]] = "timeout"
      <4>1. pc'[c] = "timeout"
        BY <1>1 DEF TypeOK
      <4>2. \A j \in i..n : j = i \/ j \in (i + 1)..n
        OBVIOUS
      <4> QED
        BY <1>1, <1>3, <4>1, <4>2
    <3> QED
      BY <1>1, <1>3, <3>1 DEF Skipped
  <2>2. Skipped(i)' = Skipped(i)
    BY <1>4
  <2>3. Cardinality(Skipped(n + 1)') = Cardinality(Skipped(i)) + (n + 1 - i)
    BY <1>3, <2>1, <2>2
  <2>4. scanning' => readTo' + Cardinality(Skipped(n + 1)') = n
    <3>1. readTo' = readTo /\ readTo \in Nat /\ i \in Nat /\ scanning' = scanning
      BY <1>1 DEF TypeOK
    <3>2. (scanning => readTo + 1 + Cardinality(Skipped(i)) = i) /\ Cardinality(Skipped(i)) \in Nat
      BY <1>3
    <3> QED
      BY <2>3, <3>1, <3>2
  <2>5. Len(sent') = n
    BY <1>1, <1>2
  <2> QED
    BY <2>4, <2>5 DEF IdleLag
<1>11. LagLaw'
  <2> SUFFICES ASSUME NEW k \in 1..n, NEW d \in Calls, sent[k] = d, got[d] # 0
               PROVE  got[d] + Cardinality(Skipped(k)') = k
    BY <1>1, <1>2 DEF LagLaw
  <2>1. d # c
    BY <1>1 DEF NotReadYet
  <2>2. k \in 1..i
    BY <1>3, StopLineAssumption
  <2>3. Skipped(k)' = Skipped(k)
    BY <1>4, <2>2
  <2> QED
    BY <1>2, <2>3 DEF LagLaw
<1> QED
  BY <1>7, <1>8, <1>9, <1>10, <1>11

\* The stop line is skipped as soon as it is sent, whoever is reading.
LEMMA StopLineStep ==
  ASSUME TypeOK, TypeOK', LagInv, sent' = Append(sent, StopLine),
         UNCHANGED <<pc, got, readTo, worker, scanning>>
  PROVE  LagInv'
<1> USE DEF LagInv
<1>1. PICK n \in Nat : n = Len(sent)
  BY SentLines
<1>2. /\ Len(sent') = n + 1
      /\ \A j \in 1..n : sent'[j] = sent[j]
      /\ sent'[n + 1] = StopLine
  BY <1>1, SendLine
<1>3. \A k \in 1..(n + 1) : Skipped(k)' = Skipped(k)
  BY <1>1, AppendSkipped
<1>4. \A k \in 1..Len(sent') : k = n + 1 \/ k \in 1..n
  BY <1>2
<1>5. OneHolder' /\ NotReadYet'
  BY DEF OneHolder, MutexHolders, NotReadYet
<1>6. SentOnce'
  BY <1>1, <1>2, <1>4 DEF SentOnce
<1>7. ReaderLag'
  BY <1>1, <1>2, <1>3, <1>4, StopLineAssumption DEF ReaderLag
<1>8. IdleLag'
  <2>1. Skipped(n + 2)' = Skipped(n + 1)' \cup {n + 1} /\ n + 1 \notin Skipped(n + 1)
    BY <1>2 DEF Skipped
  <2>2. Skipped(n + 1)' = Skipped(n + 1)
    BY <1>3
  <2>3. IsFiniteSet(Skipped(n + 1)) /\ Cardinality(Skipped(n + 1)) \in Nat
    BY <1>1, SkippedFinite
  <2>4. Cardinality(Skipped(n + 2)') = Cardinality(Skipped(n + 1)) + 1
    BY <2>1, <2>2, <2>3, FS_AddElement
  <2>5. Len(sent') + 1 = n + 2
    BY <1>2
  <2> QED
    BY <1>1, <1>2, <2>3, <2>4, <2>5 DEF IdleLag, TypeOK
<1>9. LagLaw'
  BY <1>1, <1>2, <1>3, <1>4, StopLineAssumption DEF LagLaw
<1> QED
  BY <1>5, <1>6, <1>7, <1>8, <1>9

\* Every step keeps the lag.
LEMMA NextLag == TypeOK /\ ExitSeen /\ LagInv /\ [Next]_vars => LagInv'
<1> SUFFICES ASSUME TypeOK, ExitSeen, LagInv, [Next]_vars PROVE LagInv'
  OBVIOUS
<1>0. TypeOK'
  BY NextTypeOK
<1> USE DEF vars, callVars, pipeVars, procVars, stopVars, CallTo
<1>1. ASSUME NEW c \in Calls, Call(c) \/ Lock(c)
      PROVE  LagInv'
  <2>1. CASE Call(c)
    BY <1>0, <2>1, QuietStep DEF Call, TypeOK
  <2>2. CASE Lock(c)
    BY <1>0, <2>2, QuietStep DEF Lock, TypeOK
  <2> QED
    BY <1>1, <2>1, <2>2
<1>2. ASSUME NEW c \in Calls, CallStep(c)
      PROVE  LagInv'
  <2>1. CASE Write(c)
    <3>1. CASE CanSend /\ sent' = Append(sent, c) /\ CallTo(c, "read")
      BY <1>0, <2>1, <3>1, SendStep DEF CanSend
    <3>2. CASE worker = "exited" /\ CallTo(c, "failed") /\ UNCHANGED sent
      BY <1>0, <2>1, <3>2, QuietStep DEF Write, TypeOK
    <3> QED
      BY <2>1, <3>1, <3>2 DEF Write
  <2>2. CASE ReadAnswer(c)
    BY <1>0, <2>2, ReadStep
  <2>3. CASE ReadExit(c)
    BY <1>0, <2>3, QuietStep DEF ReadExit, StdoutClosed, ExitSeen, TypeOK
  <2>4. CASE ReadTimeout(c)
    BY <1>0, <2>4, TimeoutStep
  <2> QED
    BY <1>2, <2>1, <2>2, <2>3, <2>4 DEF CallStep
<1>3. ASSUME WorkerStep \/ LineTooLong \/ Crash
      PROVE  LagInv'
  BY <1>0, <1>3, QuietStep DEF WorkerStep, TakeRequest, Answer, LineTooLong, Crash, Exit
<1>4. ASSUME Stop \/ StopStep
      PROVE  LagInv'
  <2>1. CASE StopTell
    <3>1. CASE sent' = Append(sent, StopLine)
      BY <1>0, <2>1, <3>1, StopLineStep DEF StopTell
    <3>2. CASE UNCHANGED sent
      BY <1>0, <2>1, <3>2, QuietStep DEF StopTell
    <3> QED
      BY <2>1, <3>1, <3>2 DEF StopTell
  <2>2. CASE Stop \/ StopSeesExit \/ StopWaits
    BY <1>0, <2>2, QuietStep DEF Stop, StopSeesExit, StopWaits
  <2> QED
    BY <1>4, <2>1, <2>2 DEF StopStep
<1>5. CASE UNCHANGED vars
  BY <1>0, <1>5, QuietStep
<1> QED
  BY <1>1, <1>2, <1>3, <1>4, <1>5 DEF Next

\* Every step keeps the answers to calls.
LEMMA NextAnswers ==
  TypeOK /\ LagInv /\ AnswersToCalls /\ [Next]_vars => AnswersToCalls'
<1> SUFFICES ASSUME TypeOK, LagInv, AnswersToCalls, [Next]_vars PROVE AnswersToCalls'
  OBVIOUS
<1> USE SentLines DEF TypeOK, AnswersToCalls, vars, callVars, pipeVars, procVars, stopVars,
        CallTo, StopTo
<1>1. ASSUME NEW c \in Calls, Call(c) \/ Lock(c) \/ CallStep(c)
      PROVE  AnswersToCalls'
  <2>1. CASE Write(c)
    <3>1. CASE sent' = Append(sent, c)
      BY <2>1, <3>1, SendLine DEF Write
    <3> QED
      BY <2>1, <3>1 DEF Write
  <2>2. CASE ReadAnswer(c)
    <3>1. \E i \in 1..Len(sent) : sent[i] = c
      BY <2>2 DEF ReadAnswer, LagInv, SentOnce
    <3> QED
      BY <2>2, <3>1 DEF ReadAnswer
  <2>3. CASE Call(c) \/ Lock(c) \/ ReadExit(c) \/ ReadTimeout(c)
    <3>1. UNCHANGED <<got, pipeVars, worker>>
      BY <2>3 DEF Call, Lock, ReadExit, ReadTimeout
    <3> QED
      BY <3>1
  <2> QED
    BY <1>1, <2>1, <2>2, <2>3 DEF CallStep
<1>2. ASSUME WorkerStep \/ LineTooLong \/ Crash
      PROVE  AnswersToCalls'
  <2>1. CASE TakeRequest
    <3>1. CASE sent[taken + 1] = StopLine
      BY <2>1, <3>1 DEF TakeRequest, Exit
    <3>2. CASE sent[taken + 1] # StopLine
      BY <2>1, <3>2 DEF TakeRequest
    <3> QED
      BY <3>1, <3>2
  <2>2. CASE Answer
    BY <2>2 DEF Answer
  <2>3. CASE Crash
    BY <2>3 DEF Crash, Exit
  <2>4. CASE LineTooLong
    BY <2>4 DEF LineTooLong
  <2> QED
    BY <1>2, <2>1, <2>2, <2>3, <2>4 DEF WorkerStep
<1>3. ASSUME Stop \/ StopStep
      PROVE  AnswersToCalls'
  <2>1. CASE StopTell
    <3>1. CASE sent' = Append(sent, StopLine)
      BY <2>1, <3>1, SendLine DEF StopTell
    <3> QED
      BY <2>1, <3>1 DEF StopTell
  <2>2. CASE Stop \/ StopSeesExit \/ StopWaits
    BY <2>2 DEF Stop, StopSeesExit, StopWaits
  <2> QED
    BY <1>3, <2>1, <2>2 DEF StopStep
<1>4. CASE UNCHANGED vars
  BY <1>4
<1> QED
  BY <1>1, <1>2, <1>3, <1>4 DEF Next

------------------------------------------------------------------------------
(* The theorems.                                                           *)

\* The inductive invariant holds in every state.
LEMMA Invariance == Spec => []IInv
<1>1. Init => AnswersToCalls
  BY DEF Init, AnswersToCalls
<1>2. Init => IInv
  BY <1>1, InitTypeOK, InitLag DEF IInv
<1>3. IInv /\ [Next]_vars => IInv'
  BY NextTypeOK, NextExitSeen, NextLag, NextAnswers DEF IInv
<1> QED
  BY <1>2, <1>3, PTL DEF Spec

\* The cursors of the two pipes stay in order: no answer is read before it is
\* given, and none is given before its request is taken.
THEOREM TypeCorrect == Spec => []TypeOK
<1>1. IInv => TypeOK
  BY DEF IInv
<1> QED
  BY Invariance, <1>1, PTL

\* Whatever the callers, the worker and stop do, the answer a call reads is
\* as many lines behind its own as earlier calls gave up.
THEOREM LagTheorem == Spec => []LagLaw
<1>1. IInv => LagLaw
  BY DEF IInv, LagInv
<1> QED
  BY Invariance, <1>1, PTL

\* In particular a call that reads its own answer follows no call that gave up,
\* and the answer of a call that follows one is another's: nothing in the
\* protocol lets the two sides meet again.
OwnAnswerOnlyBeforeTimeouts ==
  \A i \in 1..Len(sent) : \A c \in Calls :
    (sent[i] = c /\ got[c] # 0) => (got[c] = i <=> Skipped(i) = {})

\* One call that gives up shifts the answers of all the calls after it.
THEOREM OneTimeoutShiftsAll == Spec => []OwnAnswerOnlyBeforeTimeouts
<1>1. ASSUME IInv, NEW i \in 1..Len(sent), NEW c \in Calls, sent[i] = c, got[c] # 0
      PROVE  got[c] = i <=> Skipped(i) = {}
  <2>1. got[c] + Cardinality(Skipped(i)) = i
    BY <1>1 DEF IInv, LagInv, LagLaw
  <2>2. Len(sent) \in Nat
    BY <1>1, SentLines DEF IInv
  <2>3. IsFiniteSet(Skipped(i)) /\ Cardinality(Skipped(i)) \in Nat
    BY <1>1, <2>2, SkippedFinite DEF IInv
  <2>4. Cardinality(Skipped(i)) = 0 <=> Skipped(i) = {}
    BY <2>3, FS_EmptySet
  <2>5. got[c] \in Nat
    BY <1>1 DEF IInv, TypeOK
  <2> QED
    BY <2>1, <2>2, <2>3, <2>4, <2>5
<1>2. IInv => OwnAnswerOnlyBeforeTimeouts
  BY <1>1 DEF OwnAnswerOnlyBeforeTimeouts
<1> QED
  BY Invariance, <1>2, PTL

\* While no call has given up, every call that reads an answer reads its own,
\* although stop puts its line among those of the calls.
OwnAnswers ==
  (\A c \in Calls : pc[c] # "timeout") =>
    \A c \in Calls : got[c] # 0 => got[c] \in 1..Len(sent) /\ sent[got[c]] = c

\* What the invariant says of one answer.
LEMMA OwnAnswer == IInv => OwnAnswers
<1> SUFFICES ASSUME IInv, \A c \in Calls : pc[c] # "timeout", NEW c \in Calls, got[c] # 0
             PROVE  got[c] \in 1..Len(sent) /\ sent[got[c]] = c
  BY DEF OwnAnswers
<1> USE DEF IInv
<1>1. Len(sent) \in Nat /\ got[c] \in Nat /\ got[c] <= answered /\ answered <= Len(sent)
  BY SentLines DEF TypeOK, AnswersToCalls
<1>2. PICK i \in 1..Len(sent) : sent[i] = c
  BY DEF AnswersToCalls
<1>3. got[c] + Cardinality(Skipped(i)) = i
  BY <1>2 DEF LagInv, LagLaw
<1>4. IsFiniteSet(Skipped(i)) /\ Cardinality(Skipped(i)) \in Nat
  BY <1>1, SkippedFinite
<1>5. Skipped(i) \subseteq (got[c] + 1)..(i - 1)
  <2> SUFFICES ASSUME NEW j \in 1..(i - 1), sent[j] = StopLine \/ pc[sent[j]] = "timeout"
               PROVE  j > got[c]
    BY <1>1 DEF Skipped
  <2>1. sent[j] = StopLine
    BY SentLines
  <2>2. j > answered
    BY <1>1, <2>1 DEF AnswersToCalls, TypeOK
  <2> QED
    BY <1>1, <2>2 DEF TypeOK
<1>6. CASE got[c] < i
  <2>1. /\ IsFiniteSet((got[c] + 1)..(i - 1))
        /\ Cardinality((got[c] + 1)..(i - 1)) = i - 1 - got[c]
    <3>1. got[c] + 1 \in Int /\ i - 1 \in Int /\ (got[c] + 1 > i - 1 => i - 1 - got[c] = 0)
      BY <1>1, <1>6
    <3>2. /\ IsFiniteSet((got[c] + 1)..(i - 1))
          /\ Cardinality((got[c] + 1)..(i - 1))
               = IF got[c] + 1 > i - 1 THEN 0 ELSE (i - 1) - (got[c] + 1) + 1
      BY <3>1, FS_Interval
    <3> QED
      BY <1>1, <3>1, <3>2
  <2>2. Cardinality(Skipped(i)) <= i - 1 - got[c]
    BY <1>5, <2>1, FS_Subset
  <2> QED
    BY <1>1, <1>3, <1>4, <2>2
<1>7. CASE got[c] >= i
  <2>1. got[c] = i
    BY <1>1, <1>3, <1>4, <1>7
  <2> QED
    BY <1>2, <2>1
<1> QED
  BY <1>1, <1>6, <1>7

\* Only a call that gave up lets answers go astray.
THEOREM OwnAnswersTheorem == Spec => []OwnAnswers
BY Invariance, OwnAnswer, PTL

\* A stop that reports no error leaves no worker process behind.
THEOREM StopTheorem == Spec => []StopSuccessMeansGone
<1>1. IInv => StopSuccessMeansGone
  BY DEF IInv, ExitSeen, StopSuccessMeansGone, TypeOK
<1> QED
  BY Invariance, <1>1, PTL

------------------------------------------------------------------------------
(* What fills the pipes.                                                   *)

\* The calls that gave up or found stdout closed and the one that reads are
\* finitely many, although Calls may be infinite: each has a line in the stream.
CountInv ==
  /\ IsFiniteSet(Abandoned) /\ IsFiniteSet(Closed) /\ IsFiniteSet(Reading)
  /\ LinesAccounted

\* A step that moves no call into or out of a read, and sends nothing.
LEMMA UncountedStep ==
  ASSUME CountInv, sent' = sent, readTo' = readTo,
         worker' = "up" => worker = "up", scanning' => scanning,
         Abandoned' = Abandoned, Closed' = Closed, Reading' = Reading,
         StopLinesSent' = StopLinesSent
  PROVE  CountInv'
BY DEF CountInv, LinesAccounted

\* A line is counted when it is sent, and once more under another name when the
\* call that sent it reads an answer or gives up.
LEMMA NextCount == TypeOK /\ ExitSeen /\ CountInv /\ [Next]_vars => CountInv'
<1> SUFFICES ASSUME TypeOK, ExitSeen, CountInv, [Next]_vars PROVE CountInv'
  OBVIOUS
<1>0. PICK n \in Nat : n = Len(sent)
  BY SentLines
<1>a. /\ IsFiniteSet(Abandoned) /\ Cardinality(Abandoned) \in Nat
      /\ IsFiniteSet(Closed) /\ Cardinality(Closed) \in Nat
      /\ IsFiniteSet(Reading) /\ Cardinality(Reading) \in Nat
      /\ StopLinesSent \in Nat
  BY FS_CardinalityType DEF CountInv, StopLinesSent
<1>b. worker = "up" =>
        /\ n = readTo + Cardinality(Abandoned) + Cardinality(Closed) + Cardinality(Reading)
               + StopLinesSent
        /\ scanning => Closed = {}
  BY <1>0 DEF CountInv, LinesAccounted
<1> USE DEF vars, callVars, pipeVars, procVars, stopVars, CallTo
<1>1. ASSUME NEW c \in Calls, Call(c) \/ Lock(c)
      PROVE  CountInv'
  <2>1. Abandoned' = Abandoned /\ Closed' = Closed /\ Reading' = Reading
    BY <1>1 DEF Call, Lock, Abandoned, Closed, Reading, TypeOK
  <2>2. UNCHANGED <<sent, readTo, worker, scanning, stopPc>>
    BY <1>1 DEF Call, Lock
  <2> QED
    BY <2>1, <2>2, UncountedStep DEF StopLinesSent
<1>2. ASSUME NEW c \in Calls, Write(c)
      PROVE  CountInv'
  <2>1. pc[c] = "write" /\ UNCHANGED <<readTo, worker, scanning, stopPc>>
    BY <1>2 DEF Write
  <2>2. CASE CanSend /\ sent' = Append(sent, c) /\ pc' = [pc EXCEPT ![c] = "read"]
    <3>1. /\ Abandoned' = Abandoned /\ Closed' = Closed
          /\ Reading' = Reading \cup {c} /\ c \notin Reading
      BY <2>1, <2>2 DEF Abandoned, Closed, Reading, TypeOK
    <3>2. Len(sent') = n + 1
      BY <1>0, <2>2, SendLine
    <3>3. IsFiniteSet(Reading') /\ Cardinality(Reading') = Cardinality(Reading) + 1
      BY <1>a, <3>1, FS_AddElement
    <3>4. StopLinesSent' = StopLinesSent /\ readTo \in Nat
      BY <2>1 DEF StopLinesSent, TypeOK
    <3> QED
      BY <1>a, <1>b, <2>1, <3>1, <3>2, <3>3, <3>4 DEF CountInv, LinesAccounted
  <2>3. CASE worker = "exited" /\ pc' = [pc EXCEPT ![c] = "failed"] /\ sent' = sent
    <3>1. Abandoned' = Abandoned /\ Closed' = Closed /\ Reading' = Reading
      BY <2>1, <2>3 DEF Abandoned, Closed, Reading, TypeOK
    <3> QED
      BY <2>1, <2>3, <3>1, UncountedStep DEF StopLinesSent
  <2> QED
    BY <1>2, <2>2, <2>3 DEF Write
<1>3. ASSUME NEW c \in Calls, ReadAnswer(c)
      PROVE  CountInv'
  <2>1. /\ pc[c] = "read" /\ readTo' = readTo + 1
        /\ UNCHANGED <<sent, worker, scanning, stopPc>>
        /\ \/ pc' = [pc EXCEPT ![c] = "answered"]
           \/ pc' = [pc EXCEPT ![c] = "refused"]
    BY <1>3 DEF ReadAnswer
  <2>2. /\ Abandoned' = Abandoned /\ Closed' = Closed
        /\ Reading' = Reading \ {c} /\ c \in Reading
    BY <2>1 DEF Abandoned, Closed, Reading, TypeOK
  <2>3. IsFiniteSet(Reading') /\ Cardinality(Reading') = Cardinality(Reading) - 1
    BY <1>a, <2>2, FS_RemoveElement
  <2>4. StopLinesSent' = StopLinesSent /\ readTo \in Nat
    BY <2>1 DEF StopLinesSent, TypeOK
  <2> QED
    BY <1>0, <1>a, <1>b, <2>1, <2>2, <2>3, <2>4 DEF CountInv, LinesAccounted
<1>4. ASSUME NEW c \in Calls, ReadExit(c)
      PROVE  CountInv'
  <2>1. pc[c] = "read" /\ UNCHANGED <<sent, readTo, worker, scanning, stopPc>>
    BY <1>4 DEF ReadExit
  <2>2. CASE StdoutClosed /\ pc' = [pc EXCEPT ![c] = "closed"]
    <3>1. /\ Abandoned' = Abandoned
          /\ Closed' = Closed \cup {c} /\ c \notin Closed
          /\ Reading' = Reading \ {c} /\ c \in Reading
      BY <2>1, <2>2 DEF Abandoned, Closed, Reading, TypeOK
    <3>2. /\ IsFiniteSet(Closed') /\ Cardinality(Closed') = Cardinality(Closed) + 1
          /\ IsFiniteSet(Reading') /\ Cardinality(Reading') = Cardinality(Reading) - 1
      BY <1>a, <3>1, FS_AddElement, FS_RemoveElement
    <3>3. worker = "up" => ~scanning
      BY <2>2 DEF StdoutClosed
    <3>4. StopLinesSent' = StopLinesSent /\ readTo \in Nat
      BY <2>1 DEF StopLinesSent, TypeOK
    <3> QED
      BY <1>0, <1>a, <1>b, <2>1, <3>1, <3>2, <3>3, <3>4 DEF CountInv, LinesAccounted
  <2>3. CASE exitToken /\ pc' = [pc EXCEPT ![c] = "tookExit"]
    <3>1. Abandoned' = Abandoned /\ Closed' = Closed /\ Reading' \subseteq Reading
      BY <2>1, <2>3 DEF Abandoned, Closed, Reading, TypeOK
    <3>2. worker # "up"
      BY <2>3 DEF ExitSeen
    <3>3. IsFiniteSet(Reading')
      BY <1>a, <3>1, FS_Subset
    <3> QED
      BY <1>a, <2>1, <3>1, <3>2, <3>3 DEF CountInv, LinesAccounted
  <2> QED
    BY <1>4, <2>2, <2>3 DEF ReadExit
<1>5. ASSUME NEW c \in Calls, ReadTimeout(c)
      PROVE  CountInv'
  <2>1. /\ pc[c] = "read" /\ pc' = [pc EXCEPT ![c] = "timeout"]
        /\ UNCHANGED <<sent, readTo, worker, scanning, stopPc>>
    BY <1>5 DEF ReadTimeout
  <2>2. /\ Abandoned' = Abandoned \cup {c} /\ c \notin Abandoned
        /\ Reading' = Reading \ {c} /\ c \in Reading
        /\ Closed' = Closed
    BY <2>1 DEF Abandoned, Closed, Reading, TypeOK
  <2>3. /\ IsFiniteSet(Abandoned') /\ Cardinality(Abandoned') = Cardinality(Abandoned) + 1
        /\ IsFiniteSet(Reading') /\ Cardinality(Reading') = Cardinality(Reading) - 1
    BY <1>a, <2>2, FS_AddElement, FS_RemoveElement
  <2> QED
    BY <1>0, <1>a, <1>b, <2>1, <2>2, <2>3 DEF CountInv, LinesAccounted, StopLinesSent, TypeOK
<1>6. ASSUME WorkerStep \/ LineTooLong \/ Crash
      PROVE  CountInv'
  <2>1. /\ UNCHANGED <<pc, sent, readTo, stopPc>>
        /\ (worker' = "up" => worker = "up") /\ (scanning' => scanning)
    BY <1>6 DEF WorkerStep, TakeRequest, Answer, LineTooLong, Crash, Exit
  <2> QED
    BY <2>1, UncountedStep DEF Abandoned, Closed, Reading, StopLinesSent
<1>7. ASSUME Stop \/ StopSeesExit \/ StopWaits
      PROVE  CountInv'
  <2>1. UNCHANGED <<pc, sent, readTo, worker, scanning>>
    BY <1>7 DEF Stop, StopSeesExit, StopWaits
  <2>2. StopLinesSent' = StopLinesSent
    BY <1>7 DEF Stop, StopSeesExit, StopWaits, StopTo, StopLinesSent
  <2> QED
    BY <2>1, <2>2, UncountedStep DEF Abandoned, Closed, Reading
<1>8. ASSUME StopTell
      PROVE  CountInv'
  <2>1. StopLinesSent = 0 /\ StopLinesSent' = 1 /\ UNCHANGED <<pc, readTo, worker, scanning>>
    BY <1>8 DEF StopTell, StopTo, StopLinesSent
  <2>2. CASE CanSend /\ sent' = Append(sent, StopLine)
    <3>1. Len(sent') = n + 1
      BY <1>0, <2>2, SendLine
    <3> QED
      BY <1>a, <1>b, <2>1, <3>1 DEF CountInv, LinesAccounted, Abandoned, Closed, Reading, TypeOK
  <2>3. CASE worker = "exited" /\ sent' = sent
    BY <1>a, <2>1, <2>3 DEF CountInv, LinesAccounted, Abandoned, Closed, Reading
  <2> QED
    BY <1>8, <2>2, <2>3 DEF StopTell
<1>9. CASE UNCHANGED vars
  BY <1>9, UncountedStep DEF Abandoned, Closed, Reading, StopLinesSent
<1> QED
  BY <1>1, <1>2, <1>3, <1>4, <1>5, <1>6, <1>7, <1>8, <1>9 DEF Next, CallStep, StopStep

\* The count holds in every state.
LEMMA CountInvariance == Spec => [](TypeOK /\ ExitSeen /\ CountInv)
<1>1. Init => TypeOK /\ ExitSeen /\ CountInv
  <2> SUFFICES ASSUME Init PROVE CountInv
    BY InitTypeOK
  <2>1. Abandoned = {} /\ Closed = {} /\ Reading = {}
    BY DEF Init, Abandoned, Closed, Reading
  <2>2. Len(sent) = 0 /\ readTo = 0 /\ StopLinesSent = 0
    BY EmptySeq DEF Init, StopLinesSent
  <2> QED
    BY <2>1, <2>2, FS_EmptySet DEF CountInv, LinesAccounted
<1>2. TypeOK /\ ExitSeen /\ CountInv /\ [Next]_vars => (TypeOK /\ ExitSeen /\ CountInv)'
  BY NextTypeOK, NextExitSeen, NextCount
<1> QED
  BY <1>1, <1>2, PTL DEF Spec

\* While the worker runs, every line it was sent is an answer read, a call that
\* gave up, found stdout closed or reads, or the stop line; and while its stdout
\* is scanned none found it closed.
THEOREM LinesTheorem == Spec => []LinesAccounted
<1>1. CountInv => LinesAccounted
  BY DEF CountInv
<1> QED
  BY CountInvariance, <1>1, PTL

\* Nobody is wedged - the worker on its stdout, the next caller or stop on the
\* worker's stdin - before more calls gave up than both pipes hold, or a line was
\* too long and as many calls got no answer as stdin holds, and one more.
THEOREM WedgedTheorem == Spec => []WedgedByUnread
<1>1. ASSUME TypeOK, CountInv, Wedged
      PROVE  IF scanning
             THEN Cardinality(Abandoned) + StopLinesSent > PipeRoom + AnswerRoom
             ELSE Cardinality(Abandoned) + Cardinality(Closed) + StopLinesSent > PipeRoom
  <2>1. worker = "up" /\ Cardinality(Reading) = 0
    BY <1>1, FS_EmptySet DEF Wedged, StdinFull
  <2>2. /\ Cardinality(Abandoned) \in Nat /\ Cardinality(Closed) \in Nat
        /\ StopLinesSent \in Nat /\ Len(sent) \in Nat
    BY <1>1, FS_CardinalityType, SentLines DEF CountInv, StopLinesSent
  <2>3. Len(sent) = readTo + Cardinality(Abandoned) + Cardinality(Closed) + StopLinesSent
    BY <1>1, <2>1, <2>2 DEF CountInv, LinesAccounted, TypeOK
  <2>4. Len(sent) >= taken + PipeRoom /\ taken >= answered + 1
    BY <1>1, <2>2, RoomAssumption DEF Wedged, StdinFull, CanSend, TypeOK
  <2>5. CASE scanning
    <3>1. Cardinality(Closed) = 0
      BY <1>1, <2>1, <2>5, FS_EmptySet DEF CountInv, LinesAccounted
    <3>2. answered >= readTo + AnswerRoom
      BY <1>1, <2>5, RoomAssumption DEF Wedged, TypeOK
    <3> QED
      BY <1>1, <2>2, <2>3, <2>4, <2>5, <3>1, <3>2, RoomAssumption DEF TypeOK
  <2>6. CASE ~scanning
    BY <1>1, <2>2, <2>3, <2>4, <2>6, RoomAssumption DEF TypeOK
  <2> QED
    BY <2>5, <2>6
<1>2. TypeOK /\ CountInv => WedgedByUnread
  BY <1>1 DEF WedgedByUnread
<1> QED
  BY CountInvariance, <1>2, PTL

------------------------------------------------------------------------------
(* The verdict of stop.                                                    *)

\* The exit of the worker is handed over once: to stop, which then reports no
\* error, or to a call, which returns it. Stop decides once.
ExitHandedOver ==
  /\ stopPc # "returned" => ~stopFailed
  /\ (worker = "exited" /\ ~exitToken) =>
       \/ stopPc = "returned" /\ ~stopFailed
       \/ \E c \in Calls : pc[c] = "tookExit"

\* A call that took the exit has ended with it, and a failed stop has returned.
LEMMA NextHandedOver ==
  TypeOK /\ ExitHandedOver /\ [Next]_vars => ExitHandedOver'
<1> SUFFICES ASSUME TypeOK, ExitHandedOver, [Next]_vars PROVE ExitHandedOver'
  OBVIOUS
<1> USE DEF TypeOK, ExitHandedOver, vars, callVars, pipeVars, procVars, stopVars, CallTo, StopTo
<1>1. ASSUME NEW c \in Calls, Call(c) \/ Lock(c) \/ CallStep(c)
      PROVE  ExitHandedOver'
  <2>1. \A d \in Calls : pc[d] = "tookExit" => pc'[d] = "tookExit"
    BY <1>1 DEF Call, Lock, CallStep, Write, ReadAnswer, ReadExit, ReadTimeout
  <2>2. UNCHANGED <<worker, stopPc, stopFailed>>
    BY <1>1 DEF Call, Lock, CallStep, Write, ReadAnswer, ReadExit, ReadTimeout
  <2>3. exitToken' # exitToken => pc'[c] = "tookExit"
    BY <1>1 DEF Call, Lock, CallStep, Write, ReadAnswer, ReadExit, ReadTimeout
  <2> QED
    BY <2>1, <2>2, <2>3
<1>2. ASSUME WorkerStep \/ LineTooLong \/ Crash
      PROVE  ExitHandedOver'
  BY <1>2 DEF WorkerStep, TakeRequest, Answer, LineTooLong, Crash, Exit
<1>3. ASSUME Stop \/ StopStep
      PROVE  ExitHandedOver'
  BY <1>3 DEF Stop, StopStep, StopTell, StopSeesExit, StopWaits
<1>4. CASE UNCHANGED vars
  BY <1>4
<1> QED
  BY <1>1, <1>2, <1>3, <1>4 DEF Next

\* Stop errs on the side of an error, and only when a call took the exit from it:
\* the one shared channel of workerProcess.done decides.
THEOREM VerdictTheorem == Spec => []StopVerdict
<1>1. Init => TypeOK /\ ExitSeen /\ ExitHandedOver
  <2>1. Init => ExitHandedOver
    BY DEF Init, ExitHandedOver
  <2> QED
    BY <2>1, InitTypeOK
<1>2. TypeOK /\ ExitSeen /\ ExitHandedOver /\ [Next]_vars
        => (TypeOK /\ ExitSeen /\ ExitHandedOver)'
  BY NextTypeOK, NextExitSeen, NextHandedOver
<1>3. TypeOK /\ ExitSeen /\ ExitHandedOver => StopVerdict
  BY DEF TypeOK, ExitSeen, ExitHandedOver, StopSuccessMeansGone, StopVerdict
<1> QED
  BY <1>1, <1>2, <1>3, PTL DEF Spec

==============================================================================
