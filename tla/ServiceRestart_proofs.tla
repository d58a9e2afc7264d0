------------------------ MODULE ServiceRestart_proofs ------------------------
(***************************************************************************)
(* Proofs about ServiceRestart: what the proofs of SessionLifecycle show   *)
(* of one life of the service still holds across shutdowns, crashes and    *)
(* restarts, and what a shutdown leaves behind.                            *)
(***************************************************************************)
EXTENDS ServiceRestart, SessionLifecycle_proofs

------------------------------------------------------------------------------
(* The inductive invariant, in named parts.                                *)

\* What Shutdown took has been handed out, and nobody else holds it.
TakenAlone ==
  \A s \in taken :
    /\ startPc[s] \in {"running", "done"}
    /\ s \notin registry
    /\ Killers(s) = {}

\* Shutdown works in its phase, on sessions it cut.
ShutdownPhase ==
  /\ phase # "stopping" => taken = {} /\ releasing = {}
  /\ taken \cup releasing \subseteq cut

\* What an earlier life left behind has no call any more, and is at rest only
\* with a process that was given up on.
LeftAlone ==
  \A s \in leftBehind :
    /\ startPc[s] = "done"
    /\ s \notin cut \cup raced \cup faulted => s \notin live \ stuck

OwnedUnlessTaken == \A s \in Sessions \ (leftBehind \cup taken) : HasOwner(s)

\* A remembered proxy belongs to a registered browser, to its start, to the
\* tear-down that took the browser, or to Shutdown.
LeaseHeld(s) ==
  s \in leases =>
    \/ s \in registry
    \/ startPc[s] \in {"reserve", "launch", "boot", "register", "abort"}
    \/ \E e \in Enders : target[e] = s /\ endPc[e] \in {"kill", "release"}

LeasesHeld == \A s \in Sessions \ (taken \cup releasing) : LeaseHeld(s)

\* What is left to Shutdown, or late.
LateLaw ==
  phase = "stopping" =>
    /\ live \subseteq stuck \cup leftBehind \cup late \cup taken
    /\ leases \subseteq late \cup taken \cup releasing

Calm == \A s \in Sessions \ cut : UndisturbedOf(s) /\ QuietOf(s)

SInv ==
  /\ ServiceTypeOK
  /\ CapacityRespected
  /\ Owners
  /\ RowsExist
  /\ OneRowPerRequest
  /\ TakenAlone
  /\ ShutdownPhase
  /\ LeftAlone
  /\ OwnedUnlessTaken
  /\ LeasesHeld
  /\ LateLaw
  /\ Calm

------------------------------------------------------------------------------
(* Steps of the service.                                                   *)

\* Every step is one of a call, of the world outside or of the process.
LEMMA StepKinds ==
  ASSUME [ServiceNext]_allVars
  PROVE  \/ During([Next]_vars)
         \/ [Next]_vars /\ live' \subseteq live /\ UNCHANGED <<stuck, leases>>
              /\ UNCHANGED <<phaseVars, shutdownVars, historyVars>>
         \/ Signal
         \/ ShutdownTake
         \/ \E s \in Sessions : ShutdownStop(s) \/ ShutdownRelease(s)
         \/ ProcessEnds /\ phase # "down"
         \/ Restart
<1>1. ASSUME NEW s \in Sessions, NEW r \in RequestIds \cup {NoRequest}, Lookup(s, r)
      PROVE  During([Next]_vars)
  BY <1>1 DEF Lookup, During, Next
<1>2. ASSUME NEW e \in Enders, NEW s \in Sessions, Stop(e, s) \/ Expire(e, s)
      PROVE  During([Next]_vars)
  BY <1>2 DEF Stop, Expire, During, Next
<1>3. ASSUME NEW s \in Sessions, Starting(s)
      PROVE  During([Next]_vars)
  BY <1>3 DEF Starting, During, Next
<1>4. ASSUME NEW e \in Enders, Stopping(e)
      PROVE  During([Next]_vars)
  BY <1>4 DEF Stopping, During, Next
<1>5. ASSUME NEW s \in Sessions, Outside(s)
      PROVE  [Next]_vars /\ live' \subseteq live /\ UNCHANGED <<stuck, leases>>
               /\ UNCHANGED <<phaseVars, shutdownVars, historyVars>>
  BY <1>5 DEF Outside, Next, Elapse, BrowserExit, procVars
<1>6. CASE UNCHANGED allVars
  BY <1>6 DEF allVars, vars, procVars
<1> QED
  BY <1>1, <1>2, <1>3, <1>4, <1>5, <1>6 DEF ServiceNext, Exit, Crash, ShutdownDone

\* What a call gains for a session it gains while it is in flight; what was
\* raced, faulted or given up on stays so.
LEMMA Gains ==
  ASSUME NEW x \in Sessions, TypeOK, Owners, [Next]_vars
  PROVE  /\ x \in live' => x \in live \/ InFlight(x)'
         /\ x \in leases' => x \in leases \/ InFlight(x)'
         /\ startPc[x] \in {"running", "done"} =>
              /\ x \in live' => x \in live
              /\ x \in registry' => x \in registry
              /\ startPc'[x] \in {"running", "done"}
              /\ startPc[x] = "done" => startPc'[x] = "done"
              /\ x \notin registry /\ Killers(x) = {} => Killers(x)' = {}
         /\ stuck \subseteq stuck' /\ raced \subseteq raced' /\ faulted \subseteq faulted'
<1> USE DEF Owners, SingleOwner, NotServedYet, Killers, InFlight, Ending, TypeOK, StartPc,
        BeforeLaunch, Launching, EndPc,
        vars, startVars, rowVars, procVars, endVars, StartTo, EndTo, EndReturn
<1> DEFINE Gain ==
      /\ x \in live' => x \in live \/ InFlight(x)'
      /\ x \in leases' => x \in leases \/ InFlight(x)'
      /\ startPc[x] \in {"running", "done"} =>
           /\ x \in live' => x \in live
           /\ x \in registry' => x \in registry
           /\ startPc'[x] \in {"running", "done"}
           /\ startPc[x] = "done" => startPc'[x] = "done"
           /\ x \notin registry /\ Killers(x) = {} => Killers(x)' = {}
      /\ stuck \subseteq stuck' /\ raced \subseteq raced' /\ faulted \subseteq faulted'
<1>1. ASSUME NEW s \in Sessions, NEW r \in RequestIds \cup {NoRequest}, StartLookup(s, r)
      PROVE  Gain
  BY <1>1 DEF StartLookup
<1>2. ASSUME NEW s \in Sessions, StartStep(s)
      PROVE  Gain
  <2>1. CASE StartAdmit(s)     BY <2>1 DEF StartAdmit
  <2>2. CASE StartCreate(s)    BY <2>2 DEF StartCreate
  <2>3. CASE StartPrepare(s)   BY <2>3 DEF StartPrepare
  <2>4. CASE StartReserve(s)   BY <2>4 DEF StartReserve
  <2>5. CASE StartLaunch(s)    BY <2>5 DEF StartLaunch
  <2>6. CASE StartBoot(s)      BY <2>6 DEF StartBoot, StopProcesses
  <2>7. CASE StartRegister(s)  BY <2>7 DEF StartRegister, StopProcesses
  <2>8. CASE StartFinish(s)    BY <2>8 DEF StartFinish, SaveRow
  <2>9. CASE StartAbort(s)     BY <2>9 DEF StartAbort
  <2>10. CASE StartAbortSave(s) BY <2>10 DEF StartAbortSave, SaveRow
  <2> QED
    BY <1>2, <2>1, <2>2, <2>3, <2>4, <2>5, <2>6, <2>7, <2>8, <2>9, <2>10 DEF StartStep
<1>3. ASSUME NEW e \in Enders, NEW s \in Sessions, StopRead(e, s) \/ ExpireRead(e, s)
      PROVE  Gain
  BY <1>3 DEF StopRead, ExpireRead, Begin
<1>4. ASSUME NEW e \in Enders, EndStep(e)
      PROVE  Gain
  <2>1. CASE StopMark(e)       BY <2>1 DEF StopMark, SaveRow
  <2>2. CASE EndTake(e)        BY <2>2 DEF EndTake
  <2>3. CASE EndKill(e)        BY <2>3 DEF EndKill, StopProcesses
  <2>4. CASE EndRelease(e)     BY <2>4 DEF EndRelease
  <2>5. CASE EndReleaseAgain(e) BY <2>5 DEF EndReleaseAgain
  <2>6. CASE EndSave(e)        BY <2>6 DEF EndSave, SaveRow
  <2> QED
    BY <1>4, <2>1, <2>2, <2>3, <2>4, <2>5, <2>6 DEF EndStep
<1>5. ASSUME NEW s \in Sessions, Elapse(s) \/ BrowserExit(s)
      PROVE  Gain
  BY <1>5 DEF Elapse, BrowserExit
<1>6. CASE UNCHANGED vars
  BY <1>6
<1> QED
  BY <1>1, <1>2, <1>3, <1>4, <1>5, <1>6 DEF Next

\* A remembered proxy is passed on with its browser, and released with it.
LEMMA NextLeaseHeld ==
  ASSUME NEW x \in Sessions, TypeOK, Owners, LeaseHeld(x), [Next]_vars
  PROVE  LeaseHeld(x)'
<1> USE DEF LeaseHeld, Owners, SingleOwner, NotServedYet, Killers, TypeOK, StartPc,
        BeforeLaunch, Launching, EndPc,
        vars, startVars, rowVars, procVars, endVars, StartTo, EndTo, EndReturn
<1>1. ASSUME NEW s \in Sessions, NEW r \in RequestIds \cup {NoRequest}, StartLookup(s, r)
      PROVE  LeaseHeld(x)'
  BY <1>1 DEF StartLookup
<1>2. ASSUME NEW s \in Sessions, StartStep(s)
      PROVE  LeaseHeld(x)'
  <2>1. CASE StartAdmit(s)     BY <2>1 DEF StartAdmit
  <2>2. CASE StartCreate(s)    BY <2>2 DEF StartCreate
  <2>3. CASE StartPrepare(s)   BY <2>3 DEF StartPrepare
  <2>4. CASE StartReserve(s)   BY <2>4 DEF StartReserve
  <2>5. CASE StartLaunch(s)    BY <2>5 DEF StartLaunch
  <2>6. CASE StartBoot(s)      BY <2>6 DEF StartBoot
  <2>7. CASE StartRegister(s)  BY <2>7 DEF StartRegister
  <2>8. CASE StartFinish(s)    BY <2>8 DEF StartFinish
  <2>9. CASE StartAbort(s)     BY <2>9 DEF StartAbort
  <2>10. CASE StartAbortSave(s) BY <2>10 DEF StartAbortSave
  <2> QED
    BY <1>2, <2>1, <2>2, <2>3, <2>4, <2>5, <2>6, <2>7, <2>8, <2>9, <2>10 DEF StartStep
<1>3. ASSUME NEW e \in Enders, NEW s \in Sessions, StopRead(e, s) \/ ExpireRead(e, s)
      PROVE  LeaseHeld(x)'
  BY <1>3 DEF StopRead, ExpireRead, Begin
<1>4. ASSUME NEW e \in Enders, EndStep(e)
      PROVE  LeaseHeld(x)'
  <2>1. CASE StopMark(e)       BY <2>1 DEF StopMark
  <2>2. CASE EndTake(e)        BY <2>2 DEF EndTake
  <2>3. CASE EndKill(e)        BY <2>3 DEF EndKill
  <2>4. CASE EndRelease(e)     BY <2>4 DEF EndRelease
  <2>5. CASE EndReleaseAgain(e) BY <2>5 DEF EndReleaseAgain
  <2>6. CASE EndSave(e)        BY <2>6 DEF EndSave
  <2> QED
    BY <1>4, <2>1, <2>2, <2>3, <2>4, <2>5, <2>6 DEF EndStep
<1>5. ASSUME NEW s \in Sessions, Elapse(s) \/ BrowserExit(s)
      PROVE  LeaseHeld(x)'
  BY <1>5 DEF Elapse, BrowserExit
<1>6. CASE UNCHANGED vars
  BY <1>6
<1> QED
  BY <1>1, <1>2, <1>3, <1>4, <1>5, <1>6 DEF Next

------------------------------------------------------------------------------
(* Preservation, one lemma for each kind of step.                          *)

\* A service that has just started for the first time.
LEMMA InitSInv == ServiceInit => SInv
<1> SUFFICES ASSUME ServiceInit PROVE SInv
  OBVIOUS
<1>1. Init
  BY DEF ServiceInit
<1>2. ServiceTypeOK
  BY <1>1, InitTypeOK, RestartAssumption DEF ServiceInit, ServiceTypeOK
<1>3. TakenAlone /\ ShutdownPhase /\ LeftAlone /\ LateLaw
  BY DEF ServiceInit, TakenAlone, ShutdownPhase, LeftAlone, LateLaw
<1>4. OwnedUnlessTaken /\ LeasesHeld
  BY <1>1 DEF Init, OwnedUnlessTaken, HasOwner, LeasesHeld, LeaseHeld
<1>5. Calm
  BY <1>1, InitQuiet DEF Calm, Undisturbed, QuietAgreement, QuietOf
<1> QED
  BY <1>1, <1>2, <1>3, <1>4, <1>5, InitCapacity, InitOwnership, InitRows DEF SInv, Ownership

\* A step of the calls or of the world outside.
LEMMA CallSInv ==
  ASSUME SInv, [Next]_vars, UNCHANGED <<phaseVars, shutdownVars, cut, leftBehind>>,
         late' \subseteq Sessions, late \subseteq late',
         phase = "stopping" => \A s \in Sessions :
           /\ s \in live' => s \in live \cup late'
           /\ s \in leases' => s \in leases \cup late'
  PROVE  SInv'
<1> USE DEF phaseVars, shutdownVars
<1>1. ServiceTypeOK'
  BY NextTypeOK DEF SInv, ServiceTypeOK
<1>2. CapacityRespected' /\ Owners' /\ RowsExist' /\ OneRowPerRequest'
  BY NextCapacity, NextOwners, NextRowsExist, NextOneRow DEF SInv, ServiceTypeOK
<1>3. TypeOK /\ Owners /\ RowsExist /\ taken \subseteq Sessions /\ leftBehind \subseteq Sessions
  BY DEF SInv, ServiceTypeOK
<1>4. TakenAlone'
  BY <1>3, Gains DEF SInv, TakenAlone
<1>5. ShutdownPhase'
  BY DEF SInv, ShutdownPhase
<1>6. LeftAlone'
  BY <1>3, Gains DEF SInv, LeftAlone
<1>7. OwnedUnlessTaken'
  BY <1>3, NextHasOwner DEF SInv, OwnedUnlessTaken
<1>8. LeasesHeld'
  BY <1>3, NextLeaseHeld DEF SInv, LeasesHeld
<1>9. LateLaw'
  <2> SUFFICES ASSUME phase = "stopping"
               PROVE  /\ live' \subseteq stuck' \cup leftBehind \cup late' \cup taken
                      /\ leases' \subseteq late' \cup taken \cup releasing
    BY DEF LateLaw
  <2>1. live' \subseteq Sessions /\ leases' \subseteq Sessions
    BY <1>1 DEF ServiceTypeOK, TypeOK
  <2>2. ASSUME NEW s \in live' PROVE s \in stuck' \cup leftBehind \cup late' \cup taken
    <3>1. s \in Sessions /\ s \in live \cup late'
      BY <2>1, <2>2
    <3>2. stuck \subseteq stuck'
      BY <1>3, <3>1, Gains
    <3> QED
      BY <3>1, <3>2 DEF SInv, LateLaw
  <2>3. leases' \subseteq late' \cup taken \cup releasing
    BY <2>1 DEF SInv, LateLaw
  <2> QED
    BY <2>2, <2>3
<1>10. ASSUME NEW x \in Sessions \ cut PROVE UndisturbedOf(x)' /\ QuietOf(x)'
  <2>1. UndisturbedOf(x) /\ QuietOf(x)
    BY DEF SInv, Calm
  <2>2. UndisturbedOf(x)'
    BY <1>3, <2>1, NextUndisturbed
  <2>3. CASE x \in raced \cup faulted
    BY <1>3, <2>2, <2>3, Gains DEF QuietOf
  <2>4. CASE x \notin raced \cup faulted
    <3>1. x \notin taken
      BY DEF SInv, ShutdownPhase
    <3>2. HasOwner(x)
      BY <2>4, <3>1 DEF SInv, OwnedUnlessTaken, LeftAlone, HasOwner
    <3> QED
      BY <1>3, <2>1, <2>2, <3>2, NextQuiet
  <2> QED
    BY <2>2, <2>3, <2>4
<1>11. Calm'
  BY <1>10 DEF Calm
<1> QED
  BY <1>1, <1>2, <1>4, <1>5, <1>6, <1>7, <1>8, <1>9, <1>11 DEF SInv

\* An empty registry respects the capacity.
LEMMA EmptyCapacity == registry' = {} => CapacityRespected'
BY MaxSessionsAssumption, FS_EmptySet DEF CapacityRespected

\* Shutdown takes the registered browsers; everything else that is not at rest
\* has a call in flight.
LEMMA TakeSInv == SInv /\ ShutdownTake => SInv'
<1> SUFFICES ASSUME SInv, ShutdownTake PROVE SInv'
  OBVIOUS
<1> USE DEF ShutdownTake, startVars, rowVars, procVars, endVars
<1>1. ServiceTypeOK'
  BY DEF SInv, ServiceTypeOK, TypeOK
<1>2. CapacityRespected' /\ Owners' /\ RowsExist' /\ OneRowPerRequest'
  BY EmptyCapacity DEF SInv, Owners, SingleOwner, NotServedYet, NoProcessYet, Killers, RowsExist,
     OneRowPerRequest
<1>3. TypeOK /\ Owners /\ taken = {} /\ releasing = {}
  BY DEF SInv, ServiceTypeOK, ShutdownPhase
<1>4. TakenAlone'
  BY <1>3 DEF TypeOK, Owners, SingleOwner, NotServedYet, TakenAlone, Killers
<1>5. ShutdownPhase'
  BY <1>3 DEF SInv, ShutdownPhase
<1>6. LeftAlone'
  BY DEF SInv, LeftAlone
<1>7. OwnedUnlessTaken'
  BY <1>3 DEF SInv, OwnedUnlessTaken, HasOwner, Killers
<1>8. LeasesHeld'
  BY <1>3 DEF SInv, LeasesHeld, LeaseHeld
<1>9. LateLaw'
  <2>1. ASSUME NEW s \in live, s \notin stuck \cup leftBehind \cup registry
        PROVE  InFlight(s)
    BY <1>3, <2>1 DEF SInv, OwnedUnlessTaken, HasOwner, InFlight, Launching, Killers, Ending, TypeOK
  <2>2. ASSUME NEW s \in leases, s \notin registry
        PROVE  InFlight(s)
    BY <1>3, <2>2 DEF SInv, LeasesHeld, LeaseHeld, InFlight, Ending, TypeOK
  <2> QED
    BY <1>3, <2>1, <2>2 DEF LateLaw, TypeOK
<1>10. Calm'
  BY <1>3 DEF SInv, Calm, UndisturbedOf, StartPhase, EndPhase, QuietOf, Quiet, Agrees,
     StartReturned, Ending, InFlight, NotServedYet, Owners
<1> QED
  BY <1>1, <1>2, <1>4, <1>5, <1>6, <1>7, <1>8, <1>9, <1>10 DEF SInv

\* Shutdown stops and releases what it took, and touches nothing else.
LEMMA StopSInv ==
  ASSUME SInv, NEW s \in Sessions, ShutdownStop(s) \/ ShutdownRelease(s)
  PROVE  SInv'
<1> USE DEF ShutdownStop, ShutdownRelease, StopProcesses, startVars, rowVars, procVars, endVars,
        phaseVars, historyVars
<1>1. ServiceTypeOK'
  BY DEF SInv, ServiceTypeOK, TypeOK
<1>2. CapacityRespected' /\ Owners' /\ RowsExist' /\ OneRowPerRequest'
  BY DEF SInv, CapacityRespected, Owners, SingleOwner, NotServedYet, NoProcessYet, Killers,
     RowsExist, OneRowPerRequest
<1>3. TypeOK /\ Owners /\ s \in taken \cup releasing /\ taken \subseteq cut /\ releasing \subseteq cut
  BY DEF SInv, ServiceTypeOK, ShutdownPhase
<1>4. TakenAlone'
  BY DEF SInv, TakenAlone, Killers
<1>5. ShutdownPhase'
  BY <1>3 DEF SInv, ShutdownPhase
<1>6. LeftAlone'
  BY DEF SInv, LeftAlone
<1>7. OwnedUnlessTaken'
  BY <1>3 DEF SInv, OwnedUnlessTaken, HasOwner, Killers
<1>8. LeasesHeld'
  BY <1>3 DEF SInv, LeasesHeld, LeaseHeld
<1>9. LateLaw'
  BY <1>3 DEF SInv, LateLaw
<1>10. Calm'
  BY <1>3 DEF SInv, Calm, UndisturbedOf, StartPhase, EndPhase, QuietOf, Quiet, Agrees,
     StartReturned, Ending
<1> QED
  BY <1>1, <1>2, <1>4, <1>5, <1>6, <1>7, <1>8, <1>9, <1>10 DEF SInv

\* The end of the process leaves sessions at rest: they agree, or were cut.
LEMMA EndSInv == SInv /\ ProcessEnds => SInv'
<1> SUFFICES ASSUME SInv, ProcessEnds PROVE SInv'
  OBVIOUS
<1> USE DEF ProcessEnds, rowVars, procVars
<1>1. TypeOK
  BY DEF SInv, ServiceTypeOK
<1>2. ServiceTypeOK'
  BY DEF SInv, ServiceTypeOK, TypeOK, StartPc, BeforeLaunch, EndPc, FinalStatus
<1>3. \A s \in Sessions :
        /\ startPc'[s] \in {"idle", "done"}
        /\ startPc'[s] = "idle" <=> startPc[s] = "idle"
        /\ Ending(s)' = {} /\ Killers(s)' = {}
  BY <1>1 DEF Ending, Killers
<1>4. Owners' /\ RowsExist' /\ OneRowPerRequest' /\ CapacityRespected'
  <2>1. Owners'
    BY <1>3 DEF SInv, Owners, SingleOwner, NotServedYet, NoProcessYet, Launching, BeforeLaunch
  <2>2. RowsExist'
    BY <1>1, <1>3 DEF SInv, RowsExist, BeforeCreate, TypeOK
  <2> QED
    BY <2>1, <2>2, EmptyCapacity DEF SInv, OneRowPerRequest
<1>5. TakenAlone' /\ ShutdownPhase' /\ LeasesHeld' /\ LateLaw'
  BY DEF TakenAlone, ShutdownPhase, LeasesHeld, LeaseHeld, LateLaw
<1>6. ASSUME NEW s \in Sessions, s \notin cut'
      PROVE  /\ row[s] \in FinalStatus \cup {"absent"}
             /\ startPc[s] \in {"idle", "done"} /\ Ending(s) = {}
             /\ startPc[s] = "idle" => s \notin live
             /\ startPc[s] = "done" /\ s \notin raced \cup faulted => s \notin live \ stuck
  BY <1>6 DEF SInv, Calm, QuietOf, Quiet, Agrees, StartReturned, InFlight, IsOpen, Owners,
     NoProcessYet, BeforeLaunch, FinalStatus
<1>7. LeftAlone'
  <2>1. ASSUME NEW s \in live PROVE s \in Sessions /\ startPc'[s] = "done"
    BY <1>1, <1>3 DEF SInv, Owners, NoProcessYet, BeforeLaunch, TypeOK
  <2>2. ASSUME NEW s \in leftBehind
        PROVE  s \in Sessions /\ startPc'[s] = "done"
    BY <1>3 DEF SInv, LeftAlone, ServiceTypeOK
  <2>3. ASSUME NEW s \in leftBehind \cup live, s \notin cut' \cup raced \cup faulted
        PROVE  s \notin live \ stuck
    <3>1. s \in Sessions /\ startPc'[s] = "done" /\ s \notin cut'
      BY <2>1, <2>2, <2>3
    <3> QED
      BY <1>3, <1>6, <2>3, <3>1
  <2> QED
    BY <2>1, <2>2, <2>3 DEF LeftAlone
<1>8. OwnedUnlessTaken'
  BY DEF OwnedUnlessTaken, HasOwner
<1>9. Calm'
  BY <1>3, <1>6 DEF Calm, UndisturbedOf, StartPhase, EndPhase, QuietOf, Quiet, Agrees,
     StartReturned, BeforeCreate, FinalStatus
<1> QED
  BY <1>2, <1>4, <1>5, <1>7, <1>8, <1>9 DEF SInv

\* A signal and a restart change the phase only.
LEMMA PhaseSInv == SInv /\ (Signal \/ Restart) => SInv'
<1> SUFFICES ASSUME SInv, Signal \/ Restart PROVE SInv'
  OBVIOUS
<1>1. UNCHANGED <<vars, shutdownVars, cut, leftBehind>> /\ phase # "stopping" /\ phase' # "stopping"
  BY DEF Signal, Restart, historyVars
<1>2. ServiceTypeOK'
  <2>1. TypeOK'
    BY <1>1, NextTypeOK DEF SInv, ServiceTypeOK
  <2>2. restarts' \in 0..MaxRestarts
    BY RestartAssumption DEF SInv, ServiceTypeOK, Signal, Restart
  <2> QED
    BY <2>1, <2>2 DEF SInv, ServiceTypeOK, Signal, Restart, shutdownVars, historyVars
<1>3. TakenAlone' /\ ShutdownPhase' /\ LeftAlone' /\ LateLaw'
  BY <1>1 DEF SInv, TakenAlone, Killers, ShutdownPhase, LeftAlone, LateLaw, vars, startVars,
     endVars, procVars, rowVars, shutdownVars
<1>4. CapacityRespected' /\ Owners' /\ RowsExist' /\ OneRowPerRequest'
  BY <1>1, NextCapacity, NextOwners, NextRowsExist, NextOneRow DEF SInv, ServiceTypeOK
<1>5. OwnedUnlessTaken' /\ LeasesHeld'
  BY <1>1 DEF SInv, OwnedUnlessTaken, HasOwner, LeasesHeld, LeaseHeld, Killers, vars, startVars,
     endVars, procVars, shutdownVars
<1>6. Calm'
  BY <1>1 DEF SInv, Calm, UndisturbedOf, StartPhase, EndPhase, QuietOf, Quiet, Agrees,
     StartReturned, Ending, vars, startVars, endVars, procVars, rowVars
<1> QED
  BY <1>2, <1>3, <1>4, <1>5, <1>6 DEF SInv

\* The invariant holds in every state of every life of the service.
LEMMA ServiceInvariance == ServiceSpec => []SInv
<1>1. ASSUME SInv, [ServiceNext]_allVars PROVE SInv'
  <2>1. ASSUME During([Next]_vars) PROVE SInv'
    <3>1. TypeOK /\ Owners
      BY <1>1 DEF SInv, ServiceTypeOK
    <3>2. [Next]_vars /\ UNCHANGED <<phaseVars, shutdownVars, cut, leftBehind>>
      BY <2>1 DEF During
    <3>3. \A s \in Sessions :
            /\ s \in live' => s \in live \/ InFlight(s)'
            /\ s \in leases' => s \in leases \/ InFlight(s)'
      BY <3>1, <3>2, Gains
    <3>4. /\ late' \subseteq Sessions /\ late \subseteq late'
          /\ phase = "stopping" => \A s \in Sessions : InFlight(s)' => s \in late'
      BY <1>1, <2>1 DEF During, SInv, ServiceTypeOK
    <3> QED
      BY <1>1, <3>2, <3>3, <3>4, CallSInv
  <2>2. ASSUME [Next]_vars, live' \subseteq live, UNCHANGED <<stuck, leases>>,
               UNCHANGED <<phaseVars, shutdownVars, historyVars>>
        PROVE  SInv'
    <3>1. late' = late /\ late \subseteq Sessions
      BY <1>1, <2>2 DEF historyVars, SInv, ServiceTypeOK
    <3> QED
      BY <1>1, <2>2, <3>1, CallSInv DEF historyVars
  <2> QED
    BY <1>1, <2>1, <2>2, StepKinds, TakeSInv, StopSInv, EndSInv, PhaseSInv
<1> QED
  BY <1>1, InitSInv, PTL DEF ServiceSpec

------------------------------------------------------------------------------
(* The service implements OutagePool.                                      *)

\* A step that changes the life of one session is a step of the pool.
LEMMA OneServiceLife ==
  ASSUME NEW s \in Sessions, NEW from, NEW to,
         serviceLife[s] = from, serviceLife'[s] = to,
         \A t \in Sessions \ {s} : serviceLife'[t] = serviceLife[t]
  PROVE  Outages!Become(s, from, to)
BY DEF Outages!Become, serviceLife

\* A browser that serves is registered, so the registry bounds those that serve.
LEMMA ServiceServing ==
  ASSUME TypeOK, HasRoom
  PROVE  Outages!Cardinality(Outages!Serving) < MaxSessions
<1>1. Outages!Serving \subseteq registry
  BY DEF Outages!Serving, serviceLife, browserLife
<1>2. IsFiniteSet(registry) /\ Cardinality(registry) \in Nat
  BY SessionsAssumption, FS_Subset, FS_CardinalityType DEF TypeOK
<1>3. Cardinality(Outages!Serving) \in Nat /\ Cardinality(Outages!Serving) <= Cardinality(registry)
  BY <1>1, <1>2, FS_Subset, FS_CardinalityType
<1>4. Outages!Cardinality(Outages!Serving) = Cardinality(Outages!Serving)
  BY DEF Cardinality, Outages!Cardinality
<1> QED
  BY <1>2, <1>3, <1>4, MaxSessionsAssumption DEF HasRoom

\* What Shutdown took has no other owner, so it is being stopped.
LEMMA ServiceLives ==
  ASSUME TypeOK, TakenAlone, NEW s \in Sessions
  PROVE  /\ s \in taken => browserLife[s] = "gone" /\ serviceLife[s] = "stopping"
         /\ s \notin taken => serviceLife[s] = browserLife[s]
BY DEF TypeOK, TakenAlone, serviceLife, browserLife, BeforeLaunch, Launching

\* Calls move one life at most, and none that Shutdown took.
LEMMA CallOutage ==
  ASSUME SInv, SInv', [Next]_vars, taken' = taken
  PROVE  Outages!Next \/ serviceLife' = serviceLife
<1>0. TypeOK /\ TypeOK' /\ Owners /\ TakenAlone /\ TakenAlone'
  BY DEF SInv, ServiceTypeOK
<1> USE DEF LifeMoves
<1>1. CASE SameLives
  BY <1>1 DEF SameLives, serviceLife
<1>2. ASSUME NEW s \in Sessions, NEW from, NEW to, LifeMoves(s, from, to), from # "gone"
      PROVE  Outages!Become(s, from, to)
  <2>1. s \notin taken
    BY <1>0, <1>2, ServiceLives
  <2>2. serviceLife[s] = from /\ serviceLife'[s] = to
    BY <1>2, <2>1 DEF serviceLife
  <2>3. \A t \in Sessions \ {s} : serviceLife'[t] = serviceLife[t]
    BY <1>2 DEF serviceLife
  <2> QED
    BY <2>2, <2>3, OneServiceLife
<1>3. ASSUME NEW s \in Sessions, LifeStep(s)
      PROVE  Outages!Next \/ serviceLife' = serviceLife
  <2>1. CASE LifeMoves(s, "none", "launching")
    BY <1>2, <2>1 DEF Outages!Next, Outages!Launch
  <2>2. CASE LifeMoves(s, "none", "gone")
    BY <1>2, <2>2 DEF Outages!Next, Outages!GiveUp
  <2>3. CASE LifeMoves(s, "launching", "gone")
    BY <1>2, <2>3 DEF Outages!Next, Outages!Discard
  <2>4. CASE LifeMoves(s, "launching", "serving") /\ HasRoom
    BY <1>0, <1>2, <2>4, ServiceServing DEF Outages!Next, Outages!Serve
  <2>5. CASE LifeMoves(s, "serving", "stopping")
    BY <1>2, <2>5 DEF Outages!Next, Outages!Retire
  <2>6. CASE LifeMoves(s, "stopping", "gone")
    BY <1>2, <2>6 DEF Outages!Next, Outages!Reap
  <2> QED
    BY <1>1, <1>3, <2>1, <2>2, <2>3, <2>4, <2>5, <2>6 DEF LifeStep
<1> QED
  BY <1>0, <1>1, <1>3, NextLives

\* Shutdown takes what serves, and what serves only.
LEMMA TakeOutage ==
  ASSUME SInv, SInv', ShutdownTake
  PROVE  Outages!RetireAll
<1>0. TypeOK /\ TypeOK' /\ Owners /\ TakenAlone /\ TakenAlone' /\ taken = {} /\ taken' = registry
  BY DEF SInv, ServiceTypeOK, ShutdownPhase, ShutdownTake
<1>1. \A t \in Sessions : serviceLife'[t] = IF serviceLife[t] = "serving" THEN "stopping" ELSE serviceLife[t]
  <2> SUFFICES ASSUME NEW t \in Sessions
               PROVE  serviceLife'[t] = IF serviceLife[t] = "serving" THEN "stopping" ELSE serviceLife[t]
    OBVIOUS
  <2>1. CASE t \in registry
    <3>1. serviceLife'[t] = "stopping"
      BY <1>0, <2>1, ServiceLives DEF serviceLife, browserLife, BeforeLaunch, Launching, TakenAlone,
         TypeOK
    <3>2. serviceLife[t] = "serving"
      BY <1>0, <2>1 DEF serviceLife, browserLife, Owners, NotServedYet, BeforeLaunch, Launching
    <3> QED
      BY <3>1, <3>2
  <2>2. CASE t \notin registry
    BY <1>0, <2>2 DEF ShutdownTake, serviceLife, browserLife, Killers, startVars, endVars
  <2> QED
    BY <2>1, <2>2
<1> QED
  BY <1>1 DEF Outages!RetireAll, serviceLife

\* Shutdown stops one browser, or forgets a proxy.
LEMMA StopOutage ==
  ASSUME SInv, SInv', NEW s \in Sessions, ShutdownStop(s) \/ ShutdownRelease(s)
  PROVE  Outages!Next \/ serviceLife' = serviceLife
<1>0. TypeOK /\ TakenAlone
  BY DEF SInv, ServiceTypeOK
<1>1. browserLife' = browserLife
  BY DEF ShutdownStop, ShutdownRelease, browserLife, Killers, startVars, endVars
<1>2. CASE ShutdownStop(s)
  <2>1. s \in taken /\ taken' = taken \ {s}
    BY <1>2 DEF ShutdownStop
  <2>2. serviceLife[s] = "stopping" /\ serviceLife'[s] = "gone"
    BY <1>0, <1>1, <2>1, ServiceLives DEF serviceLife
  <2>3. \A t \in Sessions \ {s} : serviceLife'[t] = serviceLife[t]
    BY <1>1, <2>1 DEF serviceLife
  <2> QED
    BY <2>2, <2>3, OneServiceLife DEF Outages!Next, Outages!Reap
<1>3. CASE ShutdownRelease(s)
  BY <1>1, <1>3 DEF ShutdownRelease, serviceLife
<1> QED
  BY <1>2, <1>3

\* The end of the process ends every life but those that had not begun.
LEMMA EndOutage ==
  ASSUME SInv, ProcessEnds
  PROVE  Outages!Outage
<1>0. TypeOK /\ TakenAlone
  BY DEF SInv, ServiceTypeOK
<1> DEFINE lost == {t \in Sessions : startPc[t] # "idle"}
<1>1. \A t \in Sessions :
        serviceLife'[t] = IF serviceLife[t] = "none" /\ t \notin lost THEN "none" ELSE "gone"
  <2> SUFFICES ASSUME NEW t \in Sessions
               PROVE  serviceLife'[t] = IF serviceLife[t] = "none" /\ t \notin lost
                                        THEN "none" ELSE "gone"
    OBVIOUS
  <2>1. /\ startPc'[t] = IF startPc[t] = "idle" THEN "idle" ELSE "done"
        /\ registry' = {} /\ taken' = {} /\ Killers(t)' = {}
    BY DEF ProcessEnds, Killers
  <2>2. CASE startPc[t] = "idle"
    <3>1. t \notin taken
      BY <2>2 DEF SInv, TakenAlone
    <3> QED
      BY <2>1, <2>2, <3>1 DEF serviceLife, browserLife, BeforeLaunch
  <2>3. CASE startPc[t] # "idle"
    BY <2>1, <2>3 DEF serviceLife, browserLife, BeforeLaunch, Launching
  <2> QED
    BY <2>2, <2>3
<1>2. serviceLife' = [t \in Sessions |->
        IF serviceLife[t] = "none" /\ t \notin lost THEN "none" ELSE "gone"]
  BY <1>1 DEF serviceLife
<1>3. lost \in SUBSET Sessions
  OBVIOUS
<1> QED
  BY <1>2, <1>3 DEF Outages!Outage

\* Every step of the service maps to a step of the pool or to a stutter.
LEMMA NextOutage ==
  ASSUME SInv, SInv', [ServiceNext]_allVars
  PROVE  [Outages!OutageNext]_serviceLife
<1>1. ASSUME During([Next]_vars) PROVE Outages!Next \/ serviceLife' = serviceLife
  BY <1>1, CallOutage DEF During, shutdownVars
<1>2. ASSUME [Next]_vars, UNCHANGED shutdownVars PROVE Outages!Next \/ serviceLife' = serviceLife
  BY <1>2, CallOutage DEF shutdownVars
<1>3. ASSUME Signal \/ Restart PROVE serviceLife' = serviceLife
  BY <1>3 DEF Signal, Restart, vars, startVars, endVars, shutdownVars, serviceLife, browserLife,
     Killers
<1> QED
  BY <1>1, <1>2, <1>3, StepKinds, TakeOutage, StopOutage, EndOutage DEF Outages!OutageNext

------------------------------------------------------------------------------
(* Rows of ended sessions.                                                 *)

OwnRows == \A s \in Sessions : StartOwnsRow(s)

NoRevivalStep ==
  \A s \in Sessions \ raced : row[s] \in FinalStatus => row'[s] \in FinalStatus \cup {"STOPPING"}

\* What is not a step of a call writes no row and begins no stop, and the end of the
\* process ends the starts in flight.
LEMMA NextRows ==
  ASSUME SInv, OwnRows, [ServiceNext]_allVars
  PROVE  OwnRows' /\ [NoRevivalStep]_vars
<1>0. TypeOK /\ RowsExist
  BY DEF SInv, ServiceTypeOK
<1>1. ASSUME [Next]_vars
      PROVE  OwnRows' /\ [NoRevivalStep]_vars
  BY <1>0, <1>1, NextOwnsRow, NextRevival DEF OwnRows, NoRevivalStep
<1>2. ASSUME UNCHANGED <<startVars, rowVars, endVars, raced>>
      PROVE  OwnRows' /\ NoRevivalStep
  BY <1>2 DEF OwnRows, NoRevivalStep, StartOwnsRow, Ending, startVars, rowVars, endVars
<1>3. ASSUME ProcessEnds
      PROVE  OwnRows' /\ NoRevivalStep
  BY <1>3 DEF OwnRows, NoRevivalStep, StartOwnsRow, BeforeCreate, ProcessEnds, rowVars
<1>4. ASSUME ShutdownTake \/ Signal \/ Restart \/ \E s \in Sessions : ShutdownStop(s) \/ ShutdownRelease(s)
      PROVE  UNCHANGED <<startVars, rowVars, endVars, raced>>
  BY <1>4 DEF ShutdownTake, Signal, Restart, ShutdownStop, ShutdownRelease, vars
<1> QED
  BY <1>1, <1>2, <1>3, <1>4, StepKinds DEF During

------------------------------------------------------------------------------
(* The theorems.                                                           *)

\* Every variable keeps its type, through shutdowns, crashes and restarts.
THEOREM ServiceTypeCorrect == ServiceSpec => []ServiceTypeOK
<1>1. SInv => ServiceTypeOK
  BY DEF SInv
<1> QED
  BY <1>1, ServiceInvariance, PTL

\* A shutdown that runs to its end leaves browsers and proxies of late calls only.
THEOREM ShutdownTheorem == ServiceSpec => []ShutdownLeavesOnlyLate
<1>1. SInv => ShutdownLeavesOnlyLate
  BY DEF SInv, LateLaw, ShutdownLeavesOnlyLate, ShutdownDone
<1> QED
  BY <1>1, ServiceInvariance, PTL

\* A browser process without an owner was given up on or left behind, and
\* Shutdown shares what it stops with nobody.
THEOREM OwnersAcrossRestarts == ServiceSpec => [](LeftBehindOnly /\ OneStopper)
<1>1. SInv => LeftBehindOnly
  BY DEF SInv, ServiceTypeOK, TypeOK, OwnedUnlessTaken, HasOwner, LeftBehindOnly
<1>2. SInv => OneStopper
  BY DEF SInv, Owners, TakenAlone, OneStopper, Launching
<1> QED
  BY <1>1, <1>2, ServiceInvariance, PTL

\* Two starts with one request id never both have a browser, even when the
\* service crashed between them: the row outlives the process.
THEOREM RequestAcrossRestarts == ServiceSpec => []OneBrowserPerRequest
<1>1. SInv => OneBrowserPerRequest
  BY DEF SInv, ServiceTypeOK, TypeOK, RowsExist, OneRowPerRequest, OneBrowserPerRequest
<1> QED
  BY <1>1, ServiceInvariance, PTL

\* No life of the service registers more than MaxSessions browsers.
THEOREM CapacityAcrossRestarts == ServiceSpec => []CapacityRespected
<1>1. SInv => CapacityRespected
  BY DEF SInv
<1> QED
  BY <1>1, ServiceInvariance, PTL

\* A session at rest that was not raced, faulted or cut agrees with its browser.
THEOREM AgreementTheorem == ServiceSpec => []AgreementAcrossRestarts
<1>1. SInv => AgreementAcrossRestarts
  BY DEF SInv, Calm, QuietOf, AgreementAcrossRestarts
<1> QED
  BY <1>1, ServiceInvariance, PTL

\* Every behaviour of the service, with its shutdowns, crashes and restarts, is one
\* of a pool in which a browser lives once and is stopped once.
THEOREM OutageTheorem == ServiceSpec => ImplementsOutagePool
<1>1. ServiceInit => Outages!Init
  BY DEF ServiceInit, Init, Outages!Init, serviceLife, browserLife, BeforeLaunch
<1>2. SInv /\ SInv' /\ [ServiceNext]_allVars => [Outages!OutageNext]_serviceLife
  BY NextOutage
<1> QED
  BY <1>1, <1>2, ServiceInvariance, PTL DEF ServiceSpec, ImplementsOutagePool, Outages!OutageSpec

\* During a shutdown the processes may exceed the limit by the snapshot as well: late
\* starts find the fresh map empty.
THEOREM ProcessesAcrossRestarts == ServiceSpec => []ServiceProcessesBounded
<1>1. ASSUME SInv PROVE ServiceProcessesBounded
  <2> DEFINE P == (live \ (stuck \cup leftBehind)) \ taken
             A == live \ (stuck \cup leftBehind)
             Bound == MaxSessions + Cardinality(LaunchingStarts) + Cardinality(BeingStopped)
  <2>1. P \subseteq registry \cup LaunchingStarts \cup BeingStopped
    BY <1>1 DEF SInv, ServiceTypeOK, TypeOK, OwnedUnlessTaken, HasOwner, LaunchingStarts, BeingStopped
  <2>2. IsFiniteSet(P) /\ Cardinality(P) \in Nat /\ Cardinality(P) <= Bound
    BY <1>1, <2>1, OwnedBound DEF SInv, ServiceTypeOK, TypeOK
  <2>3. IsFiniteSet(taken)
    BY <1>1, SessionsAssumption, FS_Subset DEF SInv, ServiceTypeOK
  <2>4. Bound \in Nat
    BY SessionsAssumption, FS_Subset, FS_CardinalityType, MaxSessionsAssumption
       DEF LaunchingStarts, BeingStopped
  <2>5. /\ IsFiniteSet(P \cup taken)
        /\ Cardinality(P \cup taken) \in Nat /\ Cardinality(taken) \in Nat
        /\ Cardinality(P \cup taken) <= Cardinality(P) + Cardinality(taken)
    BY <2>2, <2>3, UnionBound
  <2>6. Cardinality(A) \in Nat /\ Cardinality(A) <= Cardinality(P \cup taken)
    <3>1. A \subseteq P \cup taken
      OBVIOUS
    <3> QED
      BY <2>5, <3>1, FS_Subset, FS_CardinalityType
  <2>7. Cardinality(A) <= Bound + Cardinality(taken)
    <3> HIDE DEF A, P, Bound
    <3> QED
      BY <2>2, <2>4, <2>5, <2>6
  <2> QED
    BY <2>7 DEF ServiceProcessesBounded, LaunchingStarts, BeingStopped
<1> QED
  BY <1>1, ServiceInvariance, PTL

\* No restart brings an ended session back either.
THEOREM RevivalAcrossRestarts == ServiceSpec => NoRevival
<1>1. ServiceInit => OwnRows
  BY DEF ServiceInit, Init, OwnRows, StartOwnsRow, BeforeCreate
<1>2. SInv /\ OwnRows /\ [ServiceNext]_allVars => OwnRows' /\ [NoRevivalStep]_vars
  BY NextRows
<1> QED
  BY <1>1, <1>2, ServiceInvariance, PTL DEF ServiceSpec, NoRevival, NoRevivalStep

==============================================================================
