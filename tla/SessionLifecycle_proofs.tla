----------------------- MODULE SessionLifecycle_proofs -----------------------
(***************************************************************************)
(* Proofs about SessionLifecycle, for every set of sessions, calls and     *)
(* request ids, every MaxSessions and every choice of failing updates.     *)
(***************************************************************************)
EXTENDS SessionLifecycle, FiniteSetTheorems, TLAPS

------------------------------------------------------------------------------
(* The inductive invariant, in named parts.                                *)

\* Until a start has registered its browser nobody else can hold it.
NotServedYet ==
  \A s \in Sessions :
    startPc[s] \notin {"running", "done"} => s \notin registry /\ Killers(s) = {}

\* There is no process before the launch.
NoProcessYet == \A s \in Sessions : startPc[s] \in BeforeLaunch => s \notin live

Owners == SingleOwner /\ NotServedYet /\ NoProcessYet

HasOwner(s) ==
  s \in live \ stuck => startPc[s] \in Launching \/ s \in registry \/ Killers(s) # {}

Ownership == NoOrphanProcess /\ Owners

BeforeCreate == {"idle", "admit", "create"}

\* A row is inserted by its own start, and calls are only about rows that exist.
RowsExist ==
  /\ \A s \in Sessions :
       /\ startPc[s] \in BeforeCreate => row[s] = "absent"
       /\ startPc[s] \notin BeforeCreate \cup {"done"} => row[s] # "absent"
       /\ s \in live => row[s] # "absent"
  /\ \A e \in Enders : endPc[e] # "idle" => row[target[e]] # "absent"

\* At most one row carries a request id.
OneRowPerRequest ==
  \A s, t \in Sessions :
    (s # t /\ row[s] # "absent" /\ row[t] # "absent") =>
      req[s] # req[t] \/ req[s] = NoRequest

\* What an undisturbed session looks like at each position of its start call,
\* and what the tear-downs that came later have already undone.
StartPhase(s) ==
  /\ ~StartReturned(s) => Ending(s) = {}
  /\ startPc[s] \notin BeforeCreate \cup {"done"} => row[s] = "STARTING"
  /\ startPc[s] = "running" => s \in registry
  /\ s \in leases => startPc[s] \in {"reserve", "launch", "boot", "register",
                                     "running", "abort", "done"}

EndPhase(s) ==
  \A e \in Ending(s) :
    /\ endPc[e] \in {"kill", "release", "releaseAgain", "save"} => s \notin registry
    /\ endPc[e] = "save" => s \notin leases

UndisturbedOf(s) == s \notin raced \cup faulted => StartPhase(s) /\ EndPhase(s)

Undisturbed == \A s \in Sessions : UndisturbedOf(s)

QuietOf(s) == s \notin raced \cup faulted /\ Quiet(s) => Agrees(s)

IInv ==
  /\ TypeOK
  /\ CapacityRespected
  /\ Ownership
  /\ RowsExist
  /\ OneRowPerRequest
  /\ Undisturbed
  /\ QuietAgreement

------------------------------------------------------------------------------
(* Type correctness.                                                       *)

\* The initial state is well typed.
LEMMA InitTypeOK == Init => TypeOK
BY RequestAssumption DEF Init, TypeOK, StartPc, BeforeLaunch, Status, EndPc, FinalStatus

\* Every step of a handler, of a process or of the clock keeps the types.
LEMMA NextTypeOK == TypeOK /\ [Next]_vars => TypeOK'
<1> SUFFICES ASSUME TypeOK, [Next]_vars PROVE TypeOK'
  OBVIOUS
<1> USE DEF TypeOK, StartPc, BeforeLaunch, Launching, Status, EndPc, FinalStatus,
        vars, startVars, rowVars, procVars, endVars, StartTo, EndTo, EndReturn
<1>1. ASSUME NEW s \in Sessions, NEW r \in RequestIds \cup {NoRequest}, StartLookup(s, r)
      PROVE  TypeOK'
  BY <1>1 DEF StartLookup
<1>2. ASSUME NEW s \in Sessions, StartStep(s)
      PROVE  TypeOK'
  <2>1. CASE StartAdmit(s)     BY <2>1 DEF StartAdmit
  <2>2. CASE StartCreate(s)    BY <2>2 DEF StartCreate
  <2>3. CASE StartPrepare(s)   BY <2>3 DEF StartPrepare
  <2>4. CASE StartReserve(s)   BY <2>4 DEF StartReserve
  <2>5. CASE StartLaunch(s)    BY <2>5 DEF StartLaunch
  <2>6. CASE StartBoot(s)      BY <2>6 DEF StartBoot, StopProcesses
  <2>7. CASE StartRegister(s)  BY <2>7 DEF StartRegister, StopProcesses
  <2>8. CASE StartFinish(s)    BY <2>8 DEF StartFinish, SaveRow
  <2>9. CASE StartAbort(s)     BY <2>9 DEF StartAbort
  <2>10. CASE StartAbortSave(s) BY <2>10 DEF StartAbortSave, SaveRow
  <2> QED
    BY <1>2, <2>1, <2>2, <2>3, <2>4, <2>5, <2>6, <2>7, <2>8, <2>9, <2>10 DEF StartStep
<1>3. ASSUME NEW e \in Enders, NEW s \in Sessions, StopRead(e, s) \/ ExpireRead(e, s)
      PROVE  TypeOK'
  BY <1>3 DEF StopRead, ExpireRead, Begin
<1>4. ASSUME NEW e \in Enders, EndStep(e)
      PROVE  TypeOK'
  <2>1. CASE StopMark(e)       BY <2>1 DEF StopMark, SaveRow
  <2>2. CASE EndTake(e)        BY <2>2 DEF EndTake
  <2>3. CASE EndKill(e)        BY <2>3 DEF EndKill, StopProcesses, FinalOr
  <2>4. CASE EndRelease(e)     BY <2>4 DEF EndRelease, FinalOr
  <2>5. CASE EndReleaseAgain(e) BY <2>5 DEF EndReleaseAgain
  <2>6. CASE EndSave(e)        BY <2>6 DEF EndSave, SaveRow
  <2> QED
    BY <1>4, <2>1, <2>2, <2>3, <2>4, <2>5, <2>6 DEF EndStep
<1>5. ASSUME NEW s \in Sessions, Elapse(s) \/ BrowserExit(s)
      PROVE  TypeOK'
  BY <1>5 DEF Elapse, BrowserExit
<1>6. CASE UNCHANGED vars
  BY <1>6
<1> QED
  BY <1>1, <1>2, <1>3, <1>4, <1>5, <1>6 DEF Next


------------------------------------------------------------------------------
(* Capacity.                                                               *)

\* How a step changes the registry: a start adds its session while there is
\* room, a tear-down removes one, everything else leaves it alone.
LEMMA RegistryStep ==
  ASSUME [Next]_vars
  PROVE  \/ \E s \in Sessions : registry' = registry \cup {s} /\ HasRoom
         \/ registry' \subseteq registry
<1> USE DEF vars, startVars, rowVars, procVars, endVars
<1>1. ASSUME NEW s \in Sessions, NEW r \in RequestIds \cup {NoRequest}, StartLookup(s, r)
      PROVE  registry' \subseteq registry
  BY <1>1 DEF StartLookup
<1>2. ASSUME NEW s \in Sessions, StartStep(s)
      PROVE  (registry' = registry \cup {s} /\ HasRoom) \/ registry' \subseteq registry
  BY <1>2 DEF StartStep, StartAdmit, StartCreate, StartPrepare, StartReserve, StartLaunch,
              StartBoot, StartRegister, StartFinish, StartAbort, StartAbortSave
<1>3. ASSUME NEW e \in Enders, NEW s \in Sessions, StopRead(e, s) \/ ExpireRead(e, s)
      PROVE  registry' \subseteq registry
  BY <1>3 DEF StopRead, ExpireRead, Begin
<1>4. ASSUME NEW e \in Enders, EndStep(e)
      PROVE  registry' \subseteq registry
  BY <1>4 DEF EndStep, StopMark, EndTake, EndKill, EndRelease, EndReleaseAgain, EndSave
<1>5. ASSUME NEW s \in Sessions, Elapse(s) \/ BrowserExit(s)
      PROVE  registry' \subseteq registry
  BY <1>5 DEF Elapse, BrowserExit
<1>6. CASE UNCHANGED vars
  BY <1>6
<1> QED
  BY <1>1, <1>2, <1>3, <1>4, <1>5, <1>6 DEF Next

\* An empty registry respects the capacity.
LEMMA InitCapacity == Init => CapacityRespected
BY MaxSessionsAssumption, FS_EmptySet DEF Init, CapacityRespected

\* A step adds to the registry only while there is room.
LEMMA NextCapacity == TypeOK /\ CapacityRespected /\ [Next]_vars => CapacityRespected'
<1> SUFFICES ASSUME TypeOK, CapacityRespected, [Next]_vars PROVE CapacityRespected'
  OBVIOUS
<1>1. IsFiniteSet(registry) /\ Cardinality(registry) \in Nat
  BY SessionsAssumption, FS_Subset, FS_CardinalityType DEF TypeOK
<1>2. ASSUME NEW s \in Sessions, registry' = registry \cup {s}, HasRoom
      PROVE  CapacityRespected'
  <2>1. Cardinality(registry') <= Cardinality(registry) + 1
    BY <1>1, <1>2, FS_AddElement
  <2> QED
    BY <1>1, <1>2, <2>1, FS_AddElement, MaxSessionsAssumption DEF HasRoom, CapacityRespected
<1>3. CASE registry' \subseteq registry
  <2>1. Cardinality(registry') <= Cardinality(registry) /\ Cardinality(registry') \in Nat
    BY <1>1, <1>3, FS_Subset, FS_CardinalityType
  <2> QED
    BY <1>1, <2>1, MaxSessionsAssumption DEF CapacityRespected
<1> QED
  BY RegistryStep, <1>2, <1>3


------------------------------------------------------------------------------
(* Ownership of browser processes.                                         *)

\* There is no process to own at first.
LEMMA InitOwnership == Init => Ownership
BY DEF Init, Ownership, Owners, NoOrphanProcess, SingleOwner, NotServedYet, NoProcessYet,
       BeforeLaunch, Launching, Killers

\* Launches, registrations and tear-downs never share a browser.
LEMMA NextOwners == TypeOK /\ Owners /\ [Next]_vars => Owners'
<1> SUFFICES ASSUME TypeOK, Owners, [Next]_vars PROVE Owners'
  OBVIOUS
<1> USE DEF Owners, SingleOwner, NotServedYet, NoProcessYet, Killers,
        TypeOK, StartPc, BeforeLaunch, Launching, EndPc,
        vars, startVars, rowVars, procVars, endVars, StartTo, EndTo, EndReturn
<1>1. ASSUME NEW s \in Sessions, NEW r \in RequestIds \cup {NoRequest}, StartLookup(s, r)
      PROVE  Owners'
  BY <1>1 DEF StartLookup
<1>2. ASSUME NEW s \in Sessions, StartStep(s)
      PROVE  Owners'
  <2>1. CASE StartAdmit(s)     BY <2>1 DEF StartAdmit
  <2>2. CASE StartCreate(s)    BY <2>2 DEF StartCreate
  <2>3. CASE StartPrepare(s)   BY <2>3 DEF StartPrepare
  <2>4. CASE StartReserve(s)   BY <2>4 DEF StartReserve
  <2>5. CASE StartLaunch(s)    BY <2>5 DEF StartLaunch
  <2>6. CASE StartBoot(s)      BY <2>6 DEF StartBoot, StopProcesses
  <2>7. CASE StartRegister(s)  BY <2>7 DEF StartRegister, StopProcesses
  <2>8. CASE StartFinish(s)    BY <2>8 DEF StartFinish
  <2>9. CASE StartAbort(s)     BY <2>9 DEF StartAbort
  <2>10. CASE StartAbortSave(s) BY <2>10 DEF StartAbortSave
  <2> QED
    BY <1>2, <2>1, <2>2, <2>3, <2>4, <2>5, <2>6, <2>7, <2>8, <2>9, <2>10 DEF StartStep
<1>3. ASSUME NEW e \in Enders, NEW s \in Sessions, StopRead(e, s) \/ ExpireRead(e, s)
      PROVE  Owners'
  BY <1>3 DEF StopRead, ExpireRead, Begin
<1>4. ASSUME NEW e \in Enders, EndStep(e)
      PROVE  Owners'
  <2>1. CASE StopMark(e)       BY <2>1 DEF StopMark
  <2>2. CASE EndTake(e)        BY <2>2 DEF EndTake
  <2>3. CASE EndKill(e)        BY <2>3 DEF EndKill, StopProcesses
  <2>4. CASE EndRelease(e)     BY <2>4 DEF EndRelease
  <2>5. CASE EndReleaseAgain(e) BY <2>5 DEF EndReleaseAgain
  <2>6. CASE EndSave(e)        BY <2>6 DEF EndSave
  <2> QED
    BY <1>4, <2>1, <2>2, <2>3, <2>4, <2>5, <2>6 DEF EndStep
<1>5. ASSUME NEW s \in Sessions, Elapse(s) \/ BrowserExit(s)
      PROVE  Owners'
  BY <1>5 DEF Elapse, BrowserExit
<1>6. CASE UNCHANGED vars
  BY <1>6
<1> QED
  BY <1>1, <1>2, <1>3, <1>4, <1>5, <1>6 DEF Next


\* They pass a browser on from one to the next, whatever became of the others.
LEMMA NextHasOwner ==
  ASSUME NEW x \in Sessions, TypeOK, Owners, HasOwner(x), [Next]_vars
  PROVE  HasOwner(x)'
<1> USE DEF HasOwner, Owners, SingleOwner, NotServedYet, NoProcessYet, Killers,
        TypeOK, StartPc, BeforeLaunch, Launching, EndPc,
        vars, startVars, rowVars, procVars, endVars, StartTo, EndTo, EndReturn
<1>1. ASSUME NEW s \in Sessions, NEW r \in RequestIds \cup {NoRequest}, StartLookup(s, r)
      PROVE  HasOwner(x)'
  BY <1>1 DEF StartLookup
<1>2. ASSUME NEW s \in Sessions, StartStep(s)
      PROVE  HasOwner(x)'
  <2>1. CASE StartAdmit(s)     BY <2>1 DEF StartAdmit
  <2>2. CASE StartCreate(s)    BY <2>2 DEF StartCreate
  <2>3. CASE StartPrepare(s)   BY <2>3 DEF StartPrepare
  <2>4. CASE StartReserve(s)   BY <2>4 DEF StartReserve
  <2>5. CASE StartLaunch(s)    BY <2>5 DEF StartLaunch
  <2>6. CASE StartBoot(s)      BY <2>6 DEF StartBoot, StopProcesses
  <2>7. CASE StartRegister(s)  BY <2>7 DEF StartRegister, StopProcesses
  <2>8. CASE StartFinish(s)    BY <2>8 DEF StartFinish
  <2>9. CASE StartAbort(s)     BY <2>9 DEF StartAbort
  <2>10. CASE StartAbortSave(s) BY <2>10 DEF StartAbortSave
  <2> QED
    BY <1>2, <2>1, <2>2, <2>3, <2>4, <2>5, <2>6, <2>7, <2>8, <2>9, <2>10 DEF StartStep
<1>3. ASSUME NEW e \in Enders, NEW s \in Sessions, StopRead(e, s) \/ ExpireRead(e, s)
      PROVE  HasOwner(x)'
  BY <1>3 DEF StopRead, ExpireRead, Begin
<1>4. ASSUME NEW e \in Enders, EndStep(e)
      PROVE  HasOwner(x)'
  <2>1. CASE StopMark(e)       BY <2>1 DEF StopMark
  <2>2. CASE EndTake(e)        BY <2>2 DEF EndTake
  <2>3. CASE EndKill(e)        BY <2>3 DEF EndKill, StopProcesses
  <2>4. CASE EndRelease(e)     BY <2>4 DEF EndRelease
  <2>5. CASE EndReleaseAgain(e) BY <2>5 DEF EndReleaseAgain
  <2>6. CASE EndSave(e)        BY <2>6 DEF EndSave
  <2> QED
    BY <1>4, <2>1, <2>2, <2>3, <2>4, <2>5, <2>6 DEF EndStep
<1>5. ASSUME NEW s \in Sessions, Elapse(s) \/ BrowserExit(s)
      PROVE  HasOwner(x)'
  BY <1>5 DEF Elapse, BrowserExit
<1>6. CASE UNCHANGED vars
  BY <1>6
<1> QED
  BY <1>1, <1>2, <1>3, <1>4, <1>5, <1>6 DEF Next


\* A session is orphaned when it has no owner.
LEMMA OrphanFree == TypeOK => (NoOrphanProcess <=> \A s \in Sessions : HasOwner(s))
BY DEF TypeOK, NoOrphanProcess, HasOwner

\* No browser is orphaned and none has two owners.
LEMMA NextOwnership == TypeOK /\ Ownership /\ [Next]_vars => Ownership'
<1> SUFFICES ASSUME TypeOK, Ownership, [Next]_vars PROVE Ownership'
  OBVIOUS
<1>1. TypeOK'
  BY NextTypeOK
<1>2. \A s \in Sessions : HasOwner(s)
  BY OrphanFree DEF Ownership
<1>3. \A s \in Sessions : HasOwner(s)'
  BY <1>2, NextHasOwner DEF Ownership
<1>4. NoOrphanProcess'
  BY <1>1, <1>3 DEF TypeOK, NoOrphanProcess, HasOwner
<1> QED
  BY <1>4, NextOwners DEF Ownership

------------------------------------------------------------------------------
(* Request ids.                                                            *)

\* The store is empty at first.
LEMMA InitRows == Init => RowsExist /\ OneRowPerRequest
BY DEF Init, RowsExist, OneRowPerRequest, BeforeCreate

\* Rows are inserted by their start call and never deleted.
LEMMA NextRowsExist ==
  TypeOK /\ RowsExist /\ [Next]_vars => RowsExist'
<1> SUFFICES ASSUME TypeOK, RowsExist, [Next]_vars
             PROVE  RowsExist'
  OBVIOUS
<1> USE DEF RowsExist, BeforeCreate, TypeOK, StartPc, BeforeLaunch, Launching,
        EndPc, Status, FinalStatus, vars, startVars, rowVars, procVars, endVars, StartTo, EndTo, EndReturn
<1>1. ASSUME NEW s \in Sessions, NEW r \in RequestIds \cup {NoRequest}, StartLookup(s, r)
      PROVE  RowsExist'
  BY <1>1 DEF StartLookup
<1>2. ASSUME NEW s \in Sessions, StartStep(s)
      PROVE  RowsExist'
  <2>1. CASE StartAdmit(s)
    BY <2>1 DEF StartAdmit
  <2>2. CASE StartCreate(s)
    BY <2>2 DEF StartCreate
  <2>3. CASE StartPrepare(s)
    BY <2>3 DEF StartPrepare
  <2>4. CASE StartReserve(s)
    BY <2>4 DEF StartReserve
  <2>5. CASE StartLaunch(s)
    BY <2>5 DEF StartLaunch
  <2>6. CASE StartBoot(s)
    BY <2>6 DEF StartBoot, StopProcesses
  <2>7. CASE StartRegister(s)
    BY <2>7 DEF StartRegister, StopProcesses
  <2>8. CASE StartFinish(s)
    BY <2>8 DEF StartFinish, SaveRow
  <2>9. CASE StartAbort(s)
    BY <2>9 DEF StartAbort
  <2>10. CASE StartAbortSave(s)
    BY <2>10 DEF StartAbortSave, SaveRow
  <2> QED
    BY <1>2, <2>1, <2>2, <2>3, <2>4, <2>5, <2>6, <2>7, <2>8, <2>9, <2>10 DEF StartStep
<1>3. ASSUME NEW e \in Enders, NEW s \in Sessions, StopRead(e, s) \/ ExpireRead(e, s)
      PROVE  RowsExist'
  BY <1>3 DEF StopRead, ExpireRead, Begin, IsOpen
<1>4. ASSUME NEW e \in Enders, EndStep(e)
      PROVE  RowsExist'
  <2>1. CASE StopMark(e)
    BY <2>1 DEF StopMark, SaveRow
  <2>2. CASE EndTake(e)
    BY <2>2 DEF EndTake
  <2>3. CASE EndKill(e)
    BY <2>3 DEF EndKill, StopProcesses
  <2>4. CASE EndRelease(e)
    BY <2>4 DEF EndRelease
  <2>5. CASE EndReleaseAgain(e)
    BY <2>5 DEF EndReleaseAgain
  <2>6. CASE EndSave(e)
    BY <2>6 DEF EndSave, SaveRow
  <2> QED
    BY <1>4, <2>1, <2>2, <2>3, <2>4, <2>5, <2>6 DEF EndStep
<1>5. ASSUME NEW s \in Sessions, Elapse(s) \/ BrowserExit(s)
      PROVE  RowsExist'
  BY <1>5 DEF Elapse, BrowserExit
<1>6. CASE UNCHANGED vars
  BY <1>6
<1> QED
  BY <1>1, <1>2, <1>3, <1>4, <1>5, <1>6 DEF Next

\* The unique index of the table keeps request ids apart.
LEMMA NextOneRow ==
  TypeOK /\ RowsExist /\ OneRowPerRequest /\ [Next]_vars => OneRowPerRequest'
<1> SUFFICES ASSUME TypeOK, RowsExist, OneRowPerRequest, [Next]_vars
             PROVE  OneRowPerRequest'
  OBVIOUS
<1> USE DEF OneRowPerRequest, RowsExist, BeforeCreate, TypeOK, EndPc,
        vars, startVars, rowVars, procVars, endVars, StartTo, EndTo, EndReturn
<1>1. ASSUME NEW s \in Sessions, NEW r \in RequestIds \cup {NoRequest}, StartLookup(s, r)
      PROVE  OneRowPerRequest'
  BY <1>1 DEF StartLookup
<1>2. ASSUME NEW s \in Sessions, StartStep(s)
      PROVE  OneRowPerRequest'
  <2>1. CASE StartAdmit(s)
    BY <2>1 DEF StartAdmit
  <2>2. CASE StartCreate(s)
    BY <2>2 DEF StartCreate, Taken
  <2>3. CASE StartPrepare(s)
    BY <2>3 DEF StartPrepare
  <2>4. CASE StartReserve(s)
    BY <2>4 DEF StartReserve
  <2>5. CASE StartLaunch(s)
    BY <2>5 DEF StartLaunch
  <2>6. CASE StartBoot(s)
    BY <2>6 DEF StartBoot
  <2>7. CASE StartRegister(s)
    BY <2>7 DEF StartRegister
  <2>8. CASE StartFinish(s)
    BY <2>8 DEF StartFinish, SaveRow
  <2>9. CASE StartAbort(s)
    BY <2>9 DEF StartAbort
  <2>10. CASE StartAbortSave(s)
    BY <2>10 DEF StartAbortSave, SaveRow
  <2> QED
    BY <1>2, <2>1, <2>2, <2>3, <2>4, <2>5, <2>6, <2>7, <2>8, <2>9, <2>10 DEF StartStep
<1>3. ASSUME NEW e \in Enders, NEW s \in Sessions, StopRead(e, s) \/ ExpireRead(e, s)
      PROVE  OneRowPerRequest'
  BY <1>3 DEF StopRead, ExpireRead, Begin
<1>4. ASSUME NEW e \in Enders, EndStep(e)
      PROVE  OneRowPerRequest'
  <2>1. CASE StopMark(e)
    BY <2>1 DEF StopMark, SaveRow
  <2>2. CASE EndTake(e)
    BY <2>2 DEF EndTake
  <2>3. CASE EndKill(e)
    BY <2>3 DEF EndKill
  <2>4. CASE EndRelease(e)
    BY <2>4 DEF EndRelease
  <2>5. CASE EndReleaseAgain(e)
    BY <2>5 DEF EndReleaseAgain
  <2>6. CASE EndSave(e)
    BY <2>6 DEF EndSave, SaveRow
  <2> QED
    BY <1>4, <2>1, <2>2, <2>3, <2>4, <2>5, <2>6 DEF EndStep
<1>5. ASSUME NEW s \in Sessions, Elapse(s) \/ BrowserExit(s)
      PROVE  OneRowPerRequest'
  BY <1>5 DEF Elapse, BrowserExit
<1>6. CASE UNCHANGED vars
  BY <1>6
<1> QED
  BY <1>1, <1>2, <1>3, <1>4, <1>5, <1>6 DEF Next


------------------------------------------------------------------------------
(* Agreement of row, registry, processes and proxy once calls are done.    *)

\* Nothing is in flight at first.
LEMMA InitQuiet == Init => Undisturbed /\ QuietAgreement
BY DEF Init, Undisturbed, UndisturbedOf, StartPhase, EndPhase, QuietAgreement, Agrees, Quiet, StartReturned, Ending,
       BeforeCreate

\* A start that nothing disturbs finds at each position what it left.
LEMMA NextUndisturbed ==
  ASSUME NEW x \in Sessions, TypeOK, Owners, RowsExist, UndisturbedOf(x), [Next]_vars
  PROVE  UndisturbedOf(x)'
<1> USE DEF UndisturbedOf, StartPhase, EndPhase, StartReturned, Ending, BeforeCreate,
        RowsExist, Owners, NotServedYet, Killers, TypeOK, StartPc, BeforeLaunch, Launching,
        EndPc, Status, FinalStatus, vars, startVars, rowVars, procVars, endVars, StartTo, EndTo, EndReturn
<1>1. ASSUME NEW s \in Sessions, NEW r \in RequestIds \cup {NoRequest}, StartLookup(s, r)
      PROVE  UndisturbedOf(x)'
  BY <1>1 DEF StartLookup
<1>2. ASSUME NEW s \in Sessions, StartStep(s)
      PROVE  UndisturbedOf(x)'
  <2>1. CASE StartAdmit(s)
    BY <2>1 DEF StartAdmit
  <2>2. CASE StartCreate(s)
    BY <2>2 DEF StartCreate
  <2>3. CASE StartPrepare(s)
    BY <2>3 DEF StartPrepare
  <2>4. CASE StartReserve(s)
    BY <2>4 DEF StartReserve
  <2>5. CASE StartLaunch(s)
    BY <2>5 DEF StartLaunch
  <2>6. CASE StartBoot(s)
    BY <2>6 DEF StartBoot
  <2>7. CASE StartRegister(s)
    BY <2>7 DEF StartRegister
  <2>8. CASE StartFinish(s)
    BY <2>8 DEF StartFinish, SaveRow
  <2>9. CASE StartAbort(s)
    BY <2>9 DEF StartAbort
  <2>10. CASE StartAbortSave(s)
    BY <2>10 DEF StartAbortSave, SaveRow
  <2> QED
    BY <1>2, <2>1, <2>2, <2>3, <2>4, <2>5, <2>6, <2>7, <2>8, <2>9, <2>10 DEF StartStep
<1>3. ASSUME NEW e \in Enders, NEW s \in Sessions, StopRead(e, s) \/ ExpireRead(e, s)
      PROVE  UndisturbedOf(x)'
  BY <1>3 DEF StopRead, ExpireRead, Begin
<1>4. ASSUME NEW e \in Enders, EndStep(e)
      PROVE  UndisturbedOf(x)'
  <2>1. CASE StopMark(e)
    BY <2>1 DEF StopMark, SaveRow
  <2>2. CASE EndTake(e)
    BY <2>2 DEF EndTake
  <2>3. CASE EndKill(e)
    BY <2>3 DEF EndKill
  <2>4. CASE EndRelease(e)
    BY <2>4 DEF EndRelease
  <2>5. CASE EndReleaseAgain(e)
    BY <2>5 DEF EndReleaseAgain
  <2>6. CASE EndSave(e)
    BY <2>6 DEF EndSave, SaveRow
  <2> QED
    BY <1>4, <2>1, <2>2, <2>3, <2>4, <2>5, <2>6 DEF EndStep
<1>5. ASSUME NEW s \in Sessions, Elapse(s) \/ BrowserExit(s)
      PROVE  UndisturbedOf(x)'
  BY <1>5 DEF Elapse, BrowserExit
<1>6. CASE UNCHANGED vars
  BY <1>6
<1> QED
  BY <1>1, <1>2, <1>3, <1>4, <1>5, <1>6 DEF Next

\* The row of a start in flight is its own until a stop or an expiry finds it.
StartOwnsRow(s) ==
  (s \notin raced /\ startPc[s] \notin BeforeCreate \cup {"done"}) =>
    row[s] = "STARTING" /\ Ending(s) = {}

\* Whoever finds it before the start returns is what raced remembers.
LEMMA NextOwnsRow ==
  ASSUME NEW x \in Sessions, TypeOK, RowsExist, StartOwnsRow(x), [Next]_vars
  PROVE  StartOwnsRow(x)'
<1> USE DEF StartOwnsRow, StartReturned, Ending, BeforeCreate, RowsExist, TypeOK, StartPc,
        BeforeLaunch, Launching, EndPc, Status, FinalStatus, IsOpen,
        vars, startVars, rowVars, procVars, endVars, StartTo, EndTo, EndReturn
<1>1. ASSUME NEW s \in Sessions, NEW r \in RequestIds \cup {NoRequest}, StartLookup(s, r)
      PROVE  StartOwnsRow(x)'
  BY <1>1 DEF StartLookup
<1>2. ASSUME NEW s \in Sessions, StartStep(s)
      PROVE  StartOwnsRow(x)'
  <2>1. CASE StartAdmit(s)      BY <2>1 DEF StartAdmit
  <2>2. CASE StartCreate(s)     BY <2>2 DEF StartCreate
  <2>3. CASE StartPrepare(s)    BY <2>3 DEF StartPrepare
  <2>4. CASE StartReserve(s)    BY <2>4 DEF StartReserve
  <2>5. CASE StartLaunch(s)     BY <2>5 DEF StartLaunch
  <2>6. CASE StartBoot(s)       BY <2>6 DEF StartBoot
  <2>7. CASE StartRegister(s)   BY <2>7 DEF StartRegister
  <2>8. CASE StartFinish(s)     BY <2>8 DEF StartFinish, SaveRow
  <2>9. CASE StartAbort(s)      BY <2>9 DEF StartAbort
  <2>10. CASE StartAbortSave(s) BY <2>10 DEF StartAbortSave, SaveRow
  <2> QED
    BY <1>2, <2>1, <2>2, <2>3, <2>4, <2>5, <2>6, <2>7, <2>8, <2>9, <2>10 DEF StartStep
<1>3. ASSUME NEW e \in Enders, NEW s \in Sessions, StopRead(e, s) \/ ExpireRead(e, s)
      PROVE  StartOwnsRow(x)'
  BY <1>3 DEF StopRead, ExpireRead, Begin
<1>4. ASSUME NEW e \in Enders, EndStep(e)
      PROVE  StartOwnsRow(x)'
  <2>1. CASE StopMark(e)        BY <2>1 DEF StopMark, SaveRow
  <2>2. CASE EndTake(e)         BY <2>2 DEF EndTake
  <2>3. CASE EndKill(e)         BY <2>3 DEF EndKill
  <2>4. CASE EndRelease(e)      BY <2>4 DEF EndRelease
  <2>5. CASE EndReleaseAgain(e) BY <2>5 DEF EndReleaseAgain
  <2>6. CASE EndSave(e)         BY <2>6 DEF EndSave, SaveRow
  <2> QED
    BY <1>4, <2>1, <2>2, <2>3, <2>4, <2>5, <2>6 DEF EndStep
<1>5. ASSUME NEW s \in Sessions, Elapse(s) \/ BrowserExit(s)
      PROVE  StartOwnsRow(x)'
  BY <1>5 DEF Elapse, BrowserExit
<1>6. CASE UNCHANGED vars
  BY <1>6
<1> QED
  BY <1>1, <1>2, <1>3, <1>4, <1>5, <1>6 DEF Next

\* Only the last step of a start writes RUNNING, and its row is not final then.
LEMMA NextRevival ==
  ASSUME NEW x \in Sessions \ raced, TypeOK, RowsExist, StartOwnsRow(x), [Next]_vars,
         row[x] \in FinalStatus
  PROVE  row'[x] \in FinalStatus \cup {"STOPPING"}
<1> USE DEF StartOwnsRow, BeforeCreate, RowsExist, TypeOK, StartPc, FinalStatus,
        vars, rowVars
<1>1. ASSUME NEW s \in Sessions, StartStep(s)
      PROVE  row'[x] \in FinalStatus \cup {"STOPPING"}
  <2>1. CASE StartCreate(s)
    BY <2>1 DEF StartCreate
  <2>2. CASE StartFinish(s) \/ StartAbortSave(s)
    BY <2>2 DEF StartFinish, StartAbortSave, SaveRow
  <2>3. CASE row' = row
    BY <2>3
  <2> QED
    BY <1>1, <2>1, <2>2, <2>3 DEF StartStep, StartAdmit, StartPrepare, StartReserve, StartLaunch,
       StartBoot, StartRegister, StartAbort
<1>2. ASSUME NEW e \in Enders, EndStep(e)
      PROVE  row'[x] \in FinalStatus \cup {"STOPPING"}
  <2>1. CASE StopMark(e)
    BY <2>1 DEF StopMark, SaveRow
  <2>2. CASE EndSave(e)
    BY <2>2 DEF EndSave, SaveRow
  <2>3. CASE row' = row
    BY <2>3
  <2> QED
    BY <1>2, <2>1, <2>2, <2>3 DEF EndStep, EndTake, EndKill, EndRelease, EndReleaseAgain
<1>3. CASE row' = row
  BY <1>3
<1> QED
  BY <1>1, <1>2, <1>3 DEF Next, StartLookup, StopRead, ExpireRead, Begin, Elapse, BrowserExit

\* The last step of a call leaves row, registry, processes and proxy in agreement.
LEMMA NextQuiet ==
  ASSUME NEW x \in Sessions, TypeOK, Owners, HasOwner(x), RowsExist, UndisturbedOf(x),
         QuietOf(x), [Next]_vars
  PROVE  QuietOf(x)'
<1> USE DEF QuietOf, Agrees, Quiet, UndisturbedOf, StartPhase, EndPhase, StartReturned, Ending,
        BeforeCreate, RowsExist, Owners, HasOwner, NotServedYet, NoProcessYet, Killers,
        TypeOK, StartPc, BeforeLaunch, Launching, EndPc, Status, FinalStatus,
        vars, startVars, rowVars, procVars, endVars, StartTo, EndTo, EndReturn
<1>1. ASSUME NEW s \in Sessions, NEW r \in RequestIds \cup {NoRequest}, StartLookup(s, r)
      PROVE  QuietOf(x)'
  BY <1>1 DEF StartLookup
<1>2. ASSUME NEW s \in Sessions, StartStep(s)
      PROVE  QuietOf(x)'
  <2>1. CASE StartAdmit(s)
    BY <2>1 DEF StartAdmit
  <2>2. CASE StartCreate(s)
    BY <2>2 DEF StartCreate
  <2>3. CASE StartPrepare(s)
    BY <2>3 DEF StartPrepare
  <2>4. CASE StartReserve(s)
    BY <2>4 DEF StartReserve
  <2>5. CASE StartLaunch(s)
    BY <2>5 DEF StartLaunch
  <2>6. CASE StartBoot(s)
    BY <2>6 DEF StartBoot, StopProcesses
  <2>7. CASE StartRegister(s)
    BY <2>7 DEF StartRegister, StopProcesses
  <2>8. CASE StartFinish(s)
    BY <2>8 DEF StartFinish, SaveRow
  <2>9. CASE StartAbort(s)
    BY <2>9 DEF StartAbort
  <2>10. CASE StartAbortSave(s)
    BY <2>10 DEF StartAbortSave, SaveRow
  <2> QED
    BY <1>2, <2>1, <2>2, <2>3, <2>4, <2>5, <2>6, <2>7, <2>8, <2>9, <2>10 DEF StartStep
<1>3. ASSUME NEW e \in Enders, NEW s \in Sessions, StopRead(e, s) \/ ExpireRead(e, s)
      PROVE  QuietOf(x)'
  BY <1>3 DEF StopRead, ExpireRead, Begin
<1>4. ASSUME NEW e \in Enders, EndStep(e)
      PROVE  QuietOf(x)'
  <2>1. CASE StopMark(e)
    BY <2>1 DEF StopMark, SaveRow
  <2>2. CASE EndTake(e)
    BY <2>2 DEF EndTake
  <2>3. CASE EndKill(e)
    BY <2>3 DEF EndKill, StopProcesses
  <2>4. CASE EndRelease(e)
    BY <2>4 DEF EndRelease
  <2>5. CASE EndReleaseAgain(e)
    BY <2>5 DEF EndReleaseAgain
  <2>6. CASE EndSave(e)
    BY <2>6 DEF EndSave, SaveRow
  <2> QED
    BY <1>4, <2>1, <2>2, <2>3, <2>4, <2>5, <2>6 DEF EndStep
<1>5. ASSUME NEW s \in Sessions, Elapse(s) \/ BrowserExit(s)
      PROVE  QuietOf(x)'
  BY <1>5 DEF Elapse, BrowserExit
<1>6. CASE UNCHANGED vars
  BY <1>6
<1> QED
  BY <1>1, <1>2, <1>3, <1>4, <1>5, <1>6 DEF Next


------------------------------------------------------------------------------
(* Counting processes.                                                     *)

LaunchingStarts == {s \in Sessions : startPc[s] \in Launching}
BeingStopped == {s \in Sessions : Killers(s) # {}}

\* A union is no larger than its parts together.
LEMMA UnionBound ==
  ASSUME NEW S, NEW T, IsFiniteSet(S), IsFiniteSet(T)
  PROVE  /\ IsFiniteSet(S \cup T)
         /\ Cardinality(S \cup T) \in Nat /\ Cardinality(S) \in Nat /\ Cardinality(T) \in Nat
         /\ Cardinality(S \cup T) <= Cardinality(S) + Cardinality(T)
<1>1. /\ IsFiniteSet(S \cup T)
      /\ Cardinality(S \cup T) = Cardinality(S) + Cardinality(T) - Cardinality(S \cap T)
  BY FS_Union
<1>2. IsFiniteSet(S \cap T)
  BY FS_Subset
<1>3. Cardinality(S \cup T) \in Nat /\ Cardinality(S) \in Nat /\ Cardinality(T) \in Nat
      /\ Cardinality(S \cap T) \in Nat
  BY <1>1, <1>2, FS_CardinalityType
<1> QED
  BY <1>1, <1>3

\* Processes that are all owned are no more than their owners.
LEMMA OwnedBound ==
  ASSUME CapacityRespected, registry \subseteq Sessions,
         NEW P, P \subseteq registry \cup LaunchingStarts \cup BeingStopped
  PROVE  /\ IsFiniteSet(P) /\ Cardinality(P) \in Nat
         /\ Cardinality(P) <= MaxSessions + Cardinality(LaunchingStarts) + Cardinality(BeingStopped)
<1> DEFINE L == LaunchingStarts
           K == BeingStopped
<1>1. IsFiniteSet(registry) /\ IsFiniteSet(L) /\ IsFiniteSet(K)
  BY SessionsAssumption, FS_Subset DEF LaunchingStarts, BeingStopped
<1> HIDE DEF L, K
<1>2. /\ IsFiniteSet(registry \cup L)
      /\ Cardinality(registry \cup L) \in Nat
      /\ Cardinality(registry) \in Nat /\ Cardinality(L) \in Nat
      /\ Cardinality(registry \cup L) <= Cardinality(registry) + Cardinality(L)
  BY <1>1, UnionBound
<1>3. /\ IsFiniteSet((registry \cup L) \cup K)
      /\ Cardinality((registry \cup L) \cup K) \in Nat /\ Cardinality(K) \in Nat
      /\ Cardinality((registry \cup L) \cup K) <= Cardinality(registry \cup L) + Cardinality(K)
  BY <1>1, <1>2, UnionBound
<1>4. P \subseteq (registry \cup L) \cup K
  BY DEF L, K
<1>5. IsFiniteSet(P) /\ Cardinality(P) \in Nat
      /\ Cardinality(P) <= Cardinality((registry \cup L) \cup K)
  BY <1>3, <1>4, FS_Subset, FS_CardinalityType
<1>6. Cardinality(P) <= MaxSessions + Cardinality(L) + Cardinality(K)
  BY <1>2, <1>3, <1>5, MaxSessionsAssumption DEF CapacityRespected
<1> QED
  BY <1>5, <1>6 DEF L, K

------------------------------------------------------------------------------
(* The runtime implements BrowserPool.                                     *)

\* A step that changes the life of one session is a step of the pool.
LEMMA OneLife ==
  ASSUME NEW s \in Sessions, NEW from, NEW to,
         browserLife[s] = from, browserLife'[s] = to,
         \A t \in Sessions \ {s} : browserLife'[t] = browserLife[t]
  PROVE  Pool!Become(s, from, to)
BY DEF Pool!Become, browserLife

\* Cardinality as BrowserPool sees it.
LEMMA PoolCardinality ==
  ASSUME NEW S
  PROVE  Pool!Cardinality(S) = Cardinality(S)
BY DEF Cardinality, Pool!Cardinality

\* A browser that serves is registered, so the registry bounds those that serve.
LEMMA ServingIsRegistered ==
  ASSUME TypeOK, HasRoom
  PROVE  Pool!Cardinality(Pool!Serving) < MaxSessions
<1>1. Pool!Serving \subseteq registry
  BY DEF Pool!Serving, browserLife
<1>2. IsFiniteSet(registry) /\ Cardinality(registry) \in Nat
  BY SessionsAssumption, FS_Subset, FS_CardinalityType DEF TypeOK
<1>3. Cardinality(Pool!Serving) \in Nat /\ Cardinality(Pool!Serving) <= Cardinality(registry)
  BY <1>1, <1>2, FS_Subset, FS_CardinalityType
<1> QED
  BY <1>2, <1>3, PoolCardinality, MaxSessionsAssumption DEF HasRoom

\* Initial states map to the initial state of the pool.
LEMMA InitPool == Init => Pool!Init
BY DEF Init, Pool!Init, browserLife, BeforeLaunch

\* What a step does to the lives: it changes none, or moves one forward.
SameLives == \A t \in Sessions : browserLife'[t] = browserLife[t]

LifeMoves(s, from, to) ==
  /\ browserLife[s] = from
  /\ browserLife'[s] = to
  /\ \A t \in Sessions \ {s} : browserLife'[t] = browserLife[t]

LifeStep(s) ==
  \/ SameLives
  \/ LifeMoves(s, "none", "launching")
  \/ LifeMoves(s, "none", "gone")
  \/ LifeMoves(s, "launching", "gone")
  \/ LifeMoves(s, "launching", "serving") /\ HasRoom
  \/ LifeMoves(s, "serving", "stopping")
  \/ LifeMoves(s, "stopping", "gone")

\* Every step of the service is such a step, as long as no browser has two owners.
LEMMA NextLives ==
  TypeOK /\ Owners /\ [Next]_vars => SameLives \/ \E s \in Sessions : LifeStep(s)
<1> SUFFICES ASSUME TypeOK, Owners, [Next]_vars
             PROVE  SameLives \/ \E s \in Sessions : LifeStep(s)
  OBVIOUS
<1>1. \A t \in Sessions :
        /\ browserLife[t] = IF startPc[t] \in BeforeLaunch THEN "none"
                            ELSE IF startPc[t] \in Launching THEN "launching"
                            ELSE IF t \in registry THEN "serving"
                            ELSE IF Killers(t) # {} THEN "stopping"
                            ELSE "gone"
        /\ browserLife'[t] = IF startPc'[t] \in BeforeLaunch THEN "none"
                             ELSE IF startPc'[t] \in Launching THEN "launching"
                             ELSE IF t \in registry' THEN "serving"
                             ELSE IF Killers(t)' # {} THEN "stopping"
                             ELSE "gone"
  BY DEF browserLife
<1> USE DEF SameLives, LifeMoves, LifeStep, Owners, SingleOwner, NotServedYet, Killers,
        TypeOK, StartPc, BeforeLaunch, Launching, EndPc,
        vars, startVars, rowVars, procVars, endVars, StartTo, EndTo, EndReturn
<1>2. ASSUME NEW s \in Sessions, NEW r \in RequestIds \cup {NoRequest}, StartLookup(s, r)
      PROVE  LifeStep(s)
  BY <1>1, <1>2 DEF StartLookup
<1>3. ASSUME NEW s \in Sessions, StartStep(s)
      PROVE  LifeStep(s)
  <2>1. CASE StartAdmit(s)
    BY <1>1, <2>1 DEF StartAdmit
  <2>2. CASE StartCreate(s)
    BY <1>1, <2>2 DEF StartCreate
  <2>3. CASE StartPrepare(s)
    BY <1>1, <2>3 DEF StartPrepare
  <2>4. CASE StartReserve(s)
    BY <1>1, <2>4 DEF StartReserve
  <2>5. CASE StartLaunch(s)
    BY <1>1, <2>5 DEF StartLaunch
  <2>6. CASE StartBoot(s)
    BY <1>1, <2>6 DEF StartBoot
  <2>7. CASE StartRegister(s)
    BY <1>1, <2>7 DEF StartRegister
  <2>8. CASE StartFinish(s)
    BY <1>1, <2>8 DEF StartFinish
  <2>9. CASE StartAbort(s)
    BY <1>1, <2>9 DEF StartAbort
  <2>10. CASE StartAbortSave(s)
    BY <1>1, <2>10 DEF StartAbortSave
  <2> QED
    BY <1>3, <2>1, <2>2, <2>3, <2>4, <2>5, <2>6, <2>7, <2>8, <2>9, <2>10 DEF StartStep
<1>4. ASSUME NEW e \in Enders, NEW s \in Sessions, StopRead(e, s) \/ ExpireRead(e, s)
      PROVE  LifeStep(s)
  BY <1>1, <1>4 DEF StopRead, ExpireRead, Begin
<1>5. ASSUME NEW e \in Enders, EndStep(e)
      PROVE  \E s \in Sessions : LifeStep(s)
  <2> target[e] \in Sessions
    BY <1>5 DEF EndStep, StopMark, EndTake, EndKill, EndRelease, EndReleaseAgain, EndSave
  <2> SUFFICES LifeStep(target[e])
    OBVIOUS
  <2>1. CASE StopMark(e)
    BY <1>1, <2>1 DEF StopMark
  <2>2. CASE EndTake(e)
    BY <1>1, <2>2 DEF EndTake
  <2>3. CASE EndKill(e)
    BY <1>1, <2>3 DEF EndKill
  <2>4. CASE EndRelease(e)
    BY <1>1, <2>4 DEF EndRelease
  <2>5. CASE EndReleaseAgain(e)
    BY <1>1, <2>5 DEF EndReleaseAgain
  <2>6. CASE EndSave(e)
    BY <1>1, <2>6 DEF EndSave
  <2> QED
    BY <1>5, <2>1, <2>2, <2>3, <2>4, <2>5, <2>6 DEF EndStep
<1>6. ASSUME NEW s \in Sessions, Elapse(s) \/ BrowserExit(s)
      PROVE  LifeStep(s)
  BY <1>1, <1>6 DEF Elapse, BrowserExit
<1>7. CASE UNCHANGED vars
  BY <1>1, <1>7
<1> QED
  BY <1>2, <1>3, <1>4, <1>5, <1>6, <1>7 DEF Next

\* Every step maps to a step of the pool or to a stutter.
LEMMA NextPool == TypeOK /\ Owners /\ [Next]_vars => [Pool!Next]_browserLife
<1> SUFFICES ASSUME TypeOK, Owners, [Next]_vars
             PROVE  Pool!Next \/ browserLife' = browserLife
  OBVIOUS
<1>1. ASSUME SameLives
      PROVE  browserLife' = browserLife
  BY <1>1 DEF SameLives, browserLife
<1>2. ASSUME NEW s \in Sessions, LifeStep(s)
      PROVE  Pool!Next \/ browserLife' = browserLife
  <2>1. CASE LifeMoves(s, "none", "launching")
    BY <2>1, OneLife DEF LifeMoves, Pool!Next, Pool!Launch
  <2>2. CASE LifeMoves(s, "none", "gone")
    BY <2>2, OneLife DEF LifeMoves, Pool!Next, Pool!GiveUp
  <2>3. CASE LifeMoves(s, "launching", "gone")
    BY <2>3, OneLife DEF LifeMoves, Pool!Next, Pool!Discard
  <2>4. CASE LifeMoves(s, "launching", "serving") /\ HasRoom
    BY <2>4, OneLife, ServingIsRegistered DEF LifeMoves, Pool!Next, Pool!Serve
  <2>5. CASE LifeMoves(s, "serving", "stopping")
    BY <2>5, OneLife DEF LifeMoves, Pool!Next, Pool!Retire
  <2>6. CASE LifeMoves(s, "stopping", "gone")
    BY <2>6, OneLife DEF LifeMoves, Pool!Next, Pool!Reap
  <2> QED
    BY <1>1, <1>2, <2>1, <2>2, <2>3, <2>4, <2>5, <2>6 DEF LifeStep
<1> QED
  BY <1>1, <1>2, NextLives

------------------------------------------------------------------------------
(* The theorems.                                                           *)

\* The inductive invariant holds in every state.
LEMMA Invariance == Spec => []IInv
<1>1. Init => IInv
  BY InitTypeOK, InitCapacity, InitOwnership, InitRows, InitQuiet DEF IInv
<1>2. ASSUME IInv, [Next]_vars PROVE IInv'
  <2>1. TypeOK' /\ CapacityRespected' /\ Ownership' /\ RowsExist' /\ OneRowPerRequest'
    BY <1>2, NextTypeOK, NextCapacity, NextOwnership, NextRowsExist, NextOneRow DEF IInv
  <2>2. Owners /\ \A s \in Sessions : HasOwner(s) /\ UndisturbedOf(s) /\ QuietOf(s)
    BY <1>2, OrphanFree DEF IInv, Ownership, Undisturbed, QuietAgreement, QuietOf
  <2>3. Undisturbed'
    BY <1>2, <2>2, NextUndisturbed DEF IInv, Undisturbed
  <2>4. \A s \in Sessions : QuietOf(s)'
    BY <1>2, <2>2, NextQuiet DEF IInv
  <2>5. QuietAgreement'
    BY <2>4 DEF QuietAgreement, QuietOf
  <2> QED
    BY <2>1, <2>3, <2>5 DEF IInv
<1> QED
  BY <1>1, <1>2, PTL DEF Spec

\* Every variable keeps its type: in particular a row only ever holds a status
\* of the code, and a stop or get in progress is about a session of the store.
THEOREM TypeCorrect == Spec => []TypeOK
<1>1. IInv => TypeOK
  BY DEF IInv
<1> QED
  BY Invariance, <1>1, PTL

\* At most MaxSessions browsers are registered, however starts interleave:
\* the second critical section of Runtime.StartSession checks again.
THEOREM CapacityTheorem == Spec => []CapacityRespected
<1>1. IInv => CapacityRespected
  BY DEF IInv
<1> QED
  BY Invariance, <1>1, PTL

\* No browser process is orphaned by a start, a stop or an expiry, and no two
\* of them own it at once.
THEOREM OwnershipTheorem == Spec => [](NoOrphanProcess /\ SingleOwner)
<1>1. IInv => NoOrphanProcess /\ SingleOwner
  BY DEF IInv, Ownership, Owners
<1> QED
  BY Invariance, <1>1, PTL

\* Starts that share a request id never have two browsers, whatever they read
\* before they insert their rows.
THEOREM RequestTheorem == Spec => []OneBrowserPerRequest
<1>1. IInv => OneBrowserPerRequest
  BY DEF IInv, TypeOK, RowsExist, OneRowPerRequest, OneBrowserPerRequest
<1> QED
  BY Invariance, <1>1, PTL

\* Unless its start was raced or an update of its row failed, a session whose
\* calls are done has a row, a registry entry, processes and a proxy that agree.
THEOREM QuietTheorem == Spec => []QuietAgreement
<1>1. IInv => QuietAgreement
  BY DEF IInv
<1> QED
  BY Invariance, <1>1, PTL

\* Every behaviour of the handlers and runtimes is one of the browser pool.
THEOREM PoolTheorem == Spec => ImplementsPool
<1>1. Init => Pool!Init
  BY InitPool
<1>2. IInv /\ [Next]_vars => [Pool!Next]_browserLife
  BY NextPool DEF IInv, Ownership
<1> QED
  BY <1>1, <1>2, Invariance, PTL DEF Spec, ImplementsPool, Pool!Spec

\* The processes nobody gave up on exceed the limit by the starts that launch and
\* the sessions being stopped: the memory MaxSessions is derived from has to
\* have room for those.
THEOREM ProcessTheorem == Spec => []ProcessesBounded
<1>1. ASSUME IInv PROVE ProcessesBounded
  <2>1. live \ stuck \subseteq registry \cup LaunchingStarts \cup BeingStopped
    BY <1>1 DEF IInv, TypeOK, Ownership, NoOrphanProcess, LaunchingStarts, BeingStopped
  <2> QED
    BY <1>1, <2>1, OwnedBound
       DEF IInv, TypeOK, ProcessesBounded, LaunchingStarts, BeingStopped
<1> QED
  BY <1>1, Invariance, PTL

\* A session that ended stays ended, unless its start was raced.
THEOREM RevivalTheorem == Spec => NoRevival
<1> DEFINE RInv == \A s \in Sessions : StartOwnsRow(s)
           Ends == \A s \in Sessions \ raced :
                     row[s] \in FinalStatus => row'[s] \in FinalStatus \cup {"STOPPING"}
<1>1. Init => RInv
  BY DEF Init, StartOwnsRow, BeforeCreate
<1>2. IInv /\ RInv /\ [Next]_vars => RInv'
  BY NextOwnsRow DEF IInv
<1>3. IInv /\ RInv /\ [Next]_vars => [Ends]_vars
  BY NextRevival DEF IInv
<1> QED
  BY <1>1, <1>2, <1>3, Invariance, PTL DEF Spec, NoRevival

==============================================================================
