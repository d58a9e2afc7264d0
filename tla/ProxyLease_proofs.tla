-------------------------- MODULE ProxyLease_proofs --------------------------
(***************************************************************************)
(* Proofs about ProxyLease: where every lease is, for any number of        *)
(* sessions, releases and attempts, and that it implements LeaseBook.      *)
(***************************************************************************)
EXTENDS ProxyLease, TLAPS

(* The inductive invariant.                                                *)

\* How many attempts a call has sent, by where it is.
Counted ==
  \A c \in Calls :
    /\ pc[c] = "idle" => tries[c] = 0
    /\ pc[c] = "send" => tries[c] < MaxAttempts
    /\ pc[c] = "await" => tries[c] > 0

\* Only attempts that were sent are on the wire or carried out.
WasSent ==
  /\ \A a \in wire : a[2] <= tries[a[1]]
  /\ \A l \in held : l[2] <= tries[l[1]] /\ l \notin wire

\* A lease that is remembered, or that a release took, was answered to the last
\* attempt of a call that returned.
WasRead ==
  \A l \in Leases :
    Remembered(l) \/ (\E r \in Releases : CarriedBy(r, l)) =>
      pc[l[1]] = "done" /\ l = Current(l[1]) /\ l \notin wire

\* Before its call returns, a session has no entry, and a release has no lease.
NothingYet ==
  /\ \A s \in Sessions : pc[s] # "done" => entry[s] = NoProxy
  /\ \A s \in Sessions : pc[s] # "done" => route[s] = "unresolved"
  /\ \A r \in Releases : pc[r] = "idle" => carries[r] = NoProxy /\ target[r] = NoSession
  /\ \A r \in Releases : carries[r] = NoProxy => pc[r] \in {"idle", "done"} /\ tries[r] = 0

\* A session remembers leases of its own.
OwnEntry == \A s \in Sessions, l \in Leases : entry[s] = l => l[1] = s

\* A lease that was acquired is held until a release that carries it asks for
\* its return.
HeldUntilAsked ==
  \A l \in Leases :
    /\ l[2] <= tries[l[1]]
    /\ l \notin wire
    /\ \A r \in Releases : ~ CarriedBy(r, l)
    => l \in held

\* An attempt of a release that was carried out has dropped the lease.
DroppedWhenAsked ==
  \A r \in Releases, l \in Leases :
    CarriedBy(r, l) =>
      /\ \A n \in 1 .. tries[r] : <<r, n>> \notin wire => l \notin held
      /\ pc[r] = "done" => l \notin held

\* The lease of a call that returned is not lost.
Kept ==
  \A s \in Sessions :
    pc[s] = "done" /\ tries[s] > 0 =>
      \/ Remembered(Current(s))
      \/ \E r \in Releases : CarriedBy(r, Current(s))

\* What is remembered is what the profile names, until somebody releases it.
EntryAsProfile ==
  \A s \in Sessions :
    pc[s] = "done" =>
      \/ KindOf(entry[s]) = proxyRef[s]
      \/ entry[s] = NoProxy /\ \E r \in Releases : target[r] = s

IInv ==
  /\ TypeOK
  /\ Counted
  /\ WasSent
  /\ WasRead
  /\ OwnEntry
  /\ NothingYet
  /\ OneReturn
  /\ HeldUntilAsked
  /\ DroppedWhenAsked
  /\ Kept
  /\ EntryAsProfile
  /\ RouteAsProfile

USE AttemptsAssumption, CallsAssumption, ProxyAssumption
USE DEF CallTo, Calls, Leases, Attempts, vars, callVars, sessionVars, remoteVars

(* Each lemma shows that a step preserves one part of the invariant: one step *)
(* for each action, and stuttering last.                                    *)

LEMMA TypeStep ==
  ASSUME IInv, [Next]_vars
  PROVE  TypeOK'
<1> USE DEF IInv, TypeOK, Counted, Proxies, Kinds, KindOf, Pc, Active, Current
<1>1. ASSUME NEW s \in Sessions, PrepareLocal(s)
      PROVE  TypeOK'
  BY <1>1 DEF PrepareLocal
<1>2. ASSUME NEW s \in Sessions, PrepareRemote(s)
      PROVE  TypeOK'
  BY <1>2 DEF PrepareRemote
<1>3. ASSUME NEW s \in Sessions, Acquired(s)
      PROVE  TypeOK'
  BY <1>3 DEF Acquired
<1>4. ASSUME NEW s \in Sessions, ResolveSessionProxy(s)
      PROVE  TypeOK'
  BY <1>4 DEF ResolveSessionProxy
<1>5. ASSUME NEW r \in Releases, NEW s \in Sessions, ReleaseSessionProxy(r, s)
      PROVE  TypeOK'
  BY <1>5 DEF ReleaseSessionProxy
<1>6. ASSUME NEW r \in Releases, Released(r)
      PROVE  TypeOK'
  BY <1>6 DEF Released
<1>7. ASSUME NEW c \in Calls, Send(c)
      PROVE  TypeOK'
  BY <1>7 DEF Send
<1>8. ASSUME NEW c \in Calls, Retry(c)
      PROVE  TypeOK'
  BY <1>8 DEF Retry
<1>9. ASSUME NEW c \in Calls, GiveUp(c)
      PROVE  TypeOK'
  BY <1>9 DEF GiveUp
<1>10. ASSUME NEW c \in Calls, Cancel(c)
      PROVE  TypeOK'
  BY <1>10 DEF Cancel
<1>11. ASSUME NEW a \in Attempts, CarryOut(a)
      PROVE  TypeOK'
  BY <1>11 DEF CarryOut
<1>12. CASE UNCHANGED vars
  BY <1>12 DEF vars, callVars, sessionVars, remoteVars
<1>q. QED
  BY <1>1, <1>2, <1>3, <1>4, <1>5, <1>6, <1>7, <1>8, <1>9, <1>10, <1>11, <1>12 DEF Next, CallStep

LEMMA CountedStep ==
  ASSUME IInv, [Next]_vars
  PROVE  Counted'
<1> USE DEF IInv, TypeOK, Counted, Pc, Active
<1>1. ASSUME NEW s \in Sessions, PrepareLocal(s)
      PROVE  Counted'
  BY <1>1 DEF PrepareLocal
<1>2. ASSUME NEW s \in Sessions, PrepareRemote(s)
      PROVE  Counted'
  BY <1>2 DEF PrepareRemote
<1>3. ASSUME NEW s \in Sessions, Acquired(s)
      PROVE  Counted'
  BY <1>3 DEF Acquired
<1>4. ASSUME NEW s \in Sessions, ResolveSessionProxy(s)
      PROVE  Counted'
  BY <1>4 DEF ResolveSessionProxy
<1>5. ASSUME NEW r \in Releases, NEW s \in Sessions, ReleaseSessionProxy(r, s)
      PROVE  Counted'
  BY <1>5 DEF ReleaseSessionProxy
<1>6. ASSUME NEW r \in Releases, Released(r)
      PROVE  Counted'
  BY <1>6 DEF Released
<1>7. ASSUME NEW c \in Calls, Send(c)
      PROVE  Counted'
  BY <1>7 DEF Send
<1>8. ASSUME NEW c \in Calls, Retry(c)
      PROVE  Counted'
  BY <1>8 DEF Retry
<1>9. ASSUME NEW c \in Calls, GiveUp(c)
      PROVE  Counted'
  BY <1>9 DEF GiveUp
<1>10. ASSUME NEW c \in Calls, Cancel(c)
      PROVE  Counted'
  BY <1>10 DEF Cancel
<1>11. ASSUME NEW a \in Attempts, CarryOut(a)
      PROVE  Counted'
  BY <1>11 DEF CarryOut
<1>12. CASE UNCHANGED vars
  BY <1>12 DEF vars, callVars, sessionVars, remoteVars
<1>q. QED
  BY <1>1, <1>2, <1>3, <1>4, <1>5, <1>6, <1>7, <1>8, <1>9, <1>10, <1>11, <1>12 DEF Next, CallStep

LEMMA WasSentStep ==
  ASSUME IInv, [Next]_vars
  PROVE  WasSent'
<1> USE DEF IInv, TypeOK, Counted, WasSent, Pc
<1>1. ASSUME NEW s \in Sessions, PrepareLocal(s)
      PROVE  WasSent'
  BY <1>1 DEF PrepareLocal
<1>2. ASSUME NEW s \in Sessions, PrepareRemote(s)
      PROVE  WasSent'
  BY <1>2 DEF PrepareRemote
<1>3. ASSUME NEW s \in Sessions, Acquired(s)
      PROVE  WasSent'
  BY <1>3 DEF Acquired
<1>4. ASSUME NEW s \in Sessions, ResolveSessionProxy(s)
      PROVE  WasSent'
  BY <1>4 DEF ResolveSessionProxy
<1>5. ASSUME NEW r \in Releases, NEW s \in Sessions, ReleaseSessionProxy(r, s)
      PROVE  WasSent'
  BY <1>5 DEF ReleaseSessionProxy
<1>6. ASSUME NEW r \in Releases, Released(r)
      PROVE  WasSent'
  BY <1>6 DEF Released
<1>7. ASSUME NEW c \in Calls, Send(c)
      PROVE  WasSent'
  BY <1>7 DEF Send
<1>8. ASSUME NEW c \in Calls, Retry(c)
      PROVE  WasSent'
  BY <1>8 DEF Retry
<1>9. ASSUME NEW c \in Calls, GiveUp(c)
      PROVE  WasSent'
  BY <1>9 DEF GiveUp
<1>10. ASSUME NEW c \in Calls, Cancel(c)
      PROVE  WasSent'
  BY <1>10 DEF Cancel
<1>11. ASSUME NEW a \in Attempts, CarryOut(a)
      PROVE  WasSent'
  BY <1>11 DEF CarryOut
<1>12. CASE UNCHANGED vars
  BY <1>12 DEF vars, callVars, sessionVars, remoteVars
<1>q. QED
  BY <1>1, <1>2, <1>3, <1>4, <1>5, <1>6, <1>7, <1>8, <1>9, <1>10, <1>11, <1>12 DEF Next, CallStep

LEMMA WasReadStep ==
  ASSUME IInv, [Next]_vars
  PROVE  WasRead'
<1> USE DEF IInv, TypeOK, Counted, WasSent, WasRead, OwnEntry, NothingYet, Remembered, CarriedBy, Current, Proxies
<1>1. ASSUME NEW s \in Sessions, PrepareLocal(s)
      PROVE  WasRead'
  BY <1>1 DEF PrepareLocal
<1>2. ASSUME NEW s \in Sessions, PrepareRemote(s)
      PROVE  WasRead'
  BY <1>2 DEF PrepareRemote
<1>3. ASSUME NEW s \in Sessions, Acquired(s)
      PROVE  WasRead'
  BY <1>3 DEF Acquired
<1>4. ASSUME NEW s \in Sessions, ResolveSessionProxy(s)
      PROVE  WasRead'
  BY <1>4 DEF ResolveSessionProxy
<1>5. ASSUME NEW r \in Releases, NEW s \in Sessions, ReleaseSessionProxy(r, s)
      PROVE  WasRead'
  <2>1. SUFFICES ASSUME NEW l \in Leases,
                        Remembered(l)' \/ \E q \in Releases : CarriedBy(q, l)'
               PROVE  Remembered(l) \/ \E q \in Releases : CarriedBy(q, l)
    BY <1>5 DEF ReleaseSessionProxy
  <2>2. CASE Remembered(l)'
    BY <1>5, <2>2 DEF ReleaseSessionProxy
  <2>3. CASE \E q \in Releases : CarriedBy(q, l)'
    <3>1. PICK q \in Releases : CarriedBy(q, l)'
      BY <2>3
    <3>2. carries[q] = l \/ (q = r /\ entry[s] = l)
      BY <1>5, <3>1 DEF ReleaseSessionProxy
    <3> QED
      BY <3>2
  <2> QED
    BY <2>1, <2>2, <2>3
<1>6. ASSUME NEW r \in Releases, Released(r)
      PROVE  WasRead'
  BY <1>6 DEF Released
<1>7. ASSUME NEW c \in Calls, Send(c)
      PROVE  WasRead'
  BY <1>7 DEF Send
<1>8. ASSUME NEW c \in Calls, Retry(c)
      PROVE  WasRead'
  BY <1>8 DEF Retry
<1>9. ASSUME NEW c \in Calls, GiveUp(c)
      PROVE  WasRead'
  BY <1>9 DEF GiveUp
<1>10. ASSUME NEW c \in Calls, Cancel(c)
      PROVE  WasRead'
  BY <1>10 DEF Cancel
<1>11. ASSUME NEW a \in Attempts, CarryOut(a)
      PROVE  WasRead'
  BY <1>11 DEF CarryOut
<1>12. CASE UNCHANGED vars
  BY <1>12 DEF vars, callVars, sessionVars, remoteVars
<1>q. QED
  BY <1>1, <1>2, <1>3, <1>4, <1>5, <1>6, <1>7, <1>8, <1>9, <1>10, <1>11, <1>12 DEF Next, CallStep

LEMMA OwnEntryStep ==
  ASSUME IInv, [Next]_vars
  PROVE  OwnEntry'
<1> USE DEF IInv, TypeOK, OwnEntry, Remembered, Current, Proxies
<1>1. ASSUME NEW s \in Sessions, PrepareLocal(s)
      PROVE  OwnEntry'
  BY <1>1 DEF PrepareLocal
<1>2. ASSUME NEW s \in Sessions, PrepareRemote(s)
      PROVE  OwnEntry'
  BY <1>2 DEF PrepareRemote
<1>3. ASSUME NEW s \in Sessions, Acquired(s)
      PROVE  OwnEntry'
  BY <1>3 DEF Acquired
<1>4. ASSUME NEW s \in Sessions, ResolveSessionProxy(s)
      PROVE  OwnEntry'
  BY <1>4 DEF ResolveSessionProxy
<1>5. ASSUME NEW r \in Releases, NEW s \in Sessions, ReleaseSessionProxy(r, s)
      PROVE  OwnEntry'
  BY <1>5 DEF ReleaseSessionProxy
<1>6. ASSUME NEW r \in Releases, Released(r)
      PROVE  OwnEntry'
  BY <1>6 DEF Released
<1>7. ASSUME NEW c \in Calls, Send(c)
      PROVE  OwnEntry'
  BY <1>7 DEF Send
<1>8. ASSUME NEW c \in Calls, Retry(c)
      PROVE  OwnEntry'
  BY <1>8 DEF Retry
<1>9. ASSUME NEW c \in Calls, GiveUp(c)
      PROVE  OwnEntry'
  BY <1>9 DEF GiveUp
<1>10. ASSUME NEW c \in Calls, Cancel(c)
      PROVE  OwnEntry'
  BY <1>10 DEF Cancel
<1>11. ASSUME NEW a \in Attempts, CarryOut(a)
      PROVE  OwnEntry'
  BY <1>11 DEF CarryOut
<1>12. CASE UNCHANGED vars
  BY <1>12 DEF vars, callVars, sessionVars, remoteVars
<1>q. QED
  BY <1>1, <1>2, <1>3, <1>4, <1>5, <1>6, <1>7, <1>8, <1>9, <1>10, <1>11, <1>12 DEF Next, CallStep

LEMMA NothingYetStep ==
  ASSUME IInv, [Next]_vars
  PROVE  NothingYet'
<1> USE DEF IInv, TypeOK, Counted, NothingYet, Proxies, Active
<1>1. ASSUME NEW s \in Sessions, PrepareLocal(s)
      PROVE  NothingYet'
  BY <1>1 DEF PrepareLocal
<1>2. ASSUME NEW s \in Sessions, PrepareRemote(s)
      PROVE  NothingYet'
  BY <1>2 DEF PrepareRemote
<1>3. ASSUME NEW s \in Sessions, Acquired(s)
      PROVE  NothingYet'
  BY <1>3 DEF Acquired
<1>4. ASSUME NEW s \in Sessions, ResolveSessionProxy(s)
      PROVE  NothingYet'
  BY <1>4 DEF ResolveSessionProxy
<1>5. ASSUME NEW r \in Releases, NEW s \in Sessions, ReleaseSessionProxy(r, s)
      PROVE  NothingYet'
  BY <1>5 DEF ReleaseSessionProxy
<1>6. ASSUME NEW r \in Releases, Released(r)
      PROVE  NothingYet'
  BY <1>6 DEF Released
<1>7. ASSUME NEW c \in Calls, Send(c)
      PROVE  NothingYet'
  BY <1>7 DEF Send
<1>8. ASSUME NEW c \in Calls, Retry(c)
      PROVE  NothingYet'
  BY <1>8 DEF Retry
<1>9. ASSUME NEW c \in Calls, GiveUp(c)
      PROVE  NothingYet'
  BY <1>9 DEF GiveUp
<1>10. ASSUME NEW c \in Calls, Cancel(c)
      PROVE  NothingYet'
  BY <1>10 DEF Cancel
<1>11. ASSUME NEW a \in Attempts, CarryOut(a)
      PROVE  NothingYet'
  BY <1>11 DEF CarryOut
<1>12. CASE UNCHANGED vars
  BY <1>12 DEF vars, callVars, sessionVars, remoteVars
<1>q. QED
  BY <1>1, <1>2, <1>3, <1>4, <1>5, <1>6, <1>7, <1>8, <1>9, <1>10, <1>11, <1>12 DEF Next, CallStep

LEMMA OneReturnStep ==
  ASSUME IInv, [Next]_vars
  PROVE  OneReturn'
<1> USE DEF IInv, TypeOK, WasRead, OwnEntry, OneReturn, NothingYet, Remembered, CarriedBy, Current, Proxies
<1>1. ASSUME NEW s \in Sessions, PrepareLocal(s)
      PROVE  OneReturn'
  BY <1>1 DEF PrepareLocal
<1>2. ASSUME NEW s \in Sessions, PrepareRemote(s)
      PROVE  OneReturn'
  BY <1>2 DEF PrepareRemote
<1>3. ASSUME NEW s \in Sessions, Acquired(s)
      PROVE  OneReturn'
  BY <1>3 DEF Acquired
<1>4. ASSUME NEW s \in Sessions, ResolveSessionProxy(s)
      PROVE  OneReturn'
  BY <1>4 DEF ResolveSessionProxy
<1>5. ASSUME NEW r \in Releases, NEW s \in Sessions, ReleaseSessionProxy(r, s)
      PROVE  OneReturn'
  <2>1. \A l \in Leases : Remembered(l)' => Remembered(l)
    BY <1>5 DEF ReleaseSessionProxy
  <2>2. \A q \in Releases, l \in Leases :
          CarriedBy(q, l)' => CarriedBy(q, l) \/ (q = r /\ l = entry[s])
    BY <1>5 DEF ReleaseSessionProxy
  <2>3. \A l \in Leases : ~ CarriedBy(r, l)
    BY <1>5 DEF ReleaseSessionProxy
  <2>4. \A l \in Leases : l = entry[s] => l[1] = s /\ Remembered(l)
    OBVIOUS
  <2>5. \A l \in Leases : l[1] = s => ~ Remembered(l)'
    BY <1>5 DEF ReleaseSessionProxy
  <2> QED
    BY <2>1, <2>2, <2>3, <2>4, <2>5
<1>6. ASSUME NEW r \in Releases, Released(r)
      PROVE  OneReturn'
  BY <1>6 DEF Released
<1>7. ASSUME NEW c \in Calls, Send(c)
      PROVE  OneReturn'
  BY <1>7 DEF Send
<1>8. ASSUME NEW c \in Calls, Retry(c)
      PROVE  OneReturn'
  BY <1>8 DEF Retry
<1>9. ASSUME NEW c \in Calls, GiveUp(c)
      PROVE  OneReturn'
  BY <1>9 DEF GiveUp
<1>10. ASSUME NEW c \in Calls, Cancel(c)
      PROVE  OneReturn'
  BY <1>10 DEF Cancel
<1>11. ASSUME NEW a \in Attempts, CarryOut(a)
      PROVE  OneReturn'
  BY <1>11 DEF CarryOut
<1>12. CASE UNCHANGED vars
  BY <1>12 DEF vars, callVars, sessionVars, remoteVars
<1>q. QED
  BY <1>1, <1>2, <1>3, <1>4, <1>5, <1>6, <1>7, <1>8, <1>9, <1>10, <1>11, <1>12 DEF Next, CallStep

LEMMA HeldUntilAskedStep ==
  ASSUME IInv, [Next]_vars
  PROVE  HeldUntilAsked'
<1> USE DEF IInv, TypeOK, Counted, WasSent, WasRead, HeldUntilAsked, NothingYet, CarriedBy
<1>1. ASSUME NEW s \in Sessions, PrepareLocal(s)
      PROVE  HeldUntilAsked'
  BY <1>1 DEF PrepareLocal
<1>2. ASSUME NEW s \in Sessions, PrepareRemote(s)
      PROVE  HeldUntilAsked'
  BY <1>2 DEF PrepareRemote
<1>3. ASSUME NEW s \in Sessions, Acquired(s)
      PROVE  HeldUntilAsked'
  BY <1>3 DEF Acquired
<1>4. ASSUME NEW s \in Sessions, ResolveSessionProxy(s)
      PROVE  HeldUntilAsked'
  BY <1>4 DEF ResolveSessionProxy
<1>5. ASSUME NEW r \in Releases, NEW s \in Sessions, ReleaseSessionProxy(r, s)
      PROVE  HeldUntilAsked'
  BY <1>5 DEF ReleaseSessionProxy
<1>6. ASSUME NEW r \in Releases, Released(r)
      PROVE  HeldUntilAsked'
  BY <1>6 DEF Released
<1>7. ASSUME NEW c \in Calls, Send(c)
      PROVE  HeldUntilAsked'
  BY <1>7 DEF Send
<1>8. ASSUME NEW c \in Calls, Retry(c)
      PROVE  HeldUntilAsked'
  BY <1>8 DEF Retry
<1>9. ASSUME NEW c \in Calls, GiveUp(c)
      PROVE  HeldUntilAsked'
  BY <1>9 DEF GiveUp
<1>10. ASSUME NEW c \in Calls, Cancel(c)
      PROVE  HeldUntilAsked'
  BY <1>10 DEF Cancel
<1>11. ASSUME NEW a \in Attempts, CarryOut(a)
      PROVE  HeldUntilAsked'
  BY <1>11 DEF CarryOut
<1>12. CASE UNCHANGED vars
  BY <1>12 DEF vars, callVars, sessionVars, remoteVars
<1>q. QED
  BY <1>1, <1>2, <1>3, <1>4, <1>5, <1>6, <1>7, <1>8, <1>9, <1>10, <1>11, <1>12 DEF Next, CallStep

LEMMA DroppedStep ==
  ASSUME IInv, [Next]_vars
  PROVE  DroppedWhenAsked'
<1> USE DEF IInv, TypeOK, Counted, WasSent, WasRead, DroppedWhenAsked, NothingYet, OneReturn, Remembered, CarriedBy, Current, Proxies
<1>1. ASSUME NEW s \in Sessions, PrepareLocal(s)
      PROVE  DroppedWhenAsked'
  BY <1>1 DEF PrepareLocal
<1>2. ASSUME NEW s \in Sessions, PrepareRemote(s)
      PROVE  DroppedWhenAsked'
  BY <1>2 DEF PrepareRemote
<1>3. ASSUME NEW s \in Sessions, Acquired(s)
      PROVE  DroppedWhenAsked'
  BY <1>3 DEF Acquired
<1>4. ASSUME NEW s \in Sessions, ResolveSessionProxy(s)
      PROVE  DroppedWhenAsked'
  BY <1>4 DEF ResolveSessionProxy
<1>5. ASSUME NEW r \in Releases, NEW s \in Sessions, ReleaseSessionProxy(r, s)
      PROVE  DroppedWhenAsked'
  BY <1>5 DEF ReleaseSessionProxy
<1>6. ASSUME NEW r \in Releases, Released(r)
      PROVE  DroppedWhenAsked'
  BY <1>6 DEF Released
<1>7. ASSUME NEW c \in Calls, Send(c)
      PROVE  DroppedWhenAsked'
  BY <1>7 DEF Send
<1>8. ASSUME NEW c \in Calls, Retry(c)
      PROVE  DroppedWhenAsked'
  BY <1>8 DEF Retry
<1>9. ASSUME NEW c \in Calls, GiveUp(c)
      PROVE  DroppedWhenAsked'
  BY <1>9 DEF GiveUp
<1>10. ASSUME NEW c \in Calls, Cancel(c)
      PROVE  DroppedWhenAsked'
  BY <1>10 DEF Cancel
<1>11. ASSUME NEW a \in Attempts, CarryOut(a)
      PROVE  DroppedWhenAsked'
  BY <1>11 DEF CarryOut
<1>12. CASE UNCHANGED vars
  BY <1>12 DEF vars, callVars, sessionVars, remoteVars
<1>q. QED
  BY <1>1, <1>2, <1>3, <1>4, <1>5, <1>6, <1>7, <1>8, <1>9, <1>10, <1>11, <1>12 DEF Next, CallStep

LEMMA KeptStep ==
  ASSUME IInv, [Next]_vars
  PROVE  Kept'
<1> USE DEF IInv, TypeOK, Counted, Kept, NothingYet, WasRead, Remembered, CarriedBy, Current, Proxies
<1>1. ASSUME NEW s \in Sessions, PrepareLocal(s)
      PROVE  Kept'
  <2>1. SUFFICES ASSUME NEW t \in Sessions, pc'[t] = "done", tries'[t] > 0
               PROVE  \/ entry'[t] = Current(t)
                      \/ \E q \in Releases : carries[q] = Current(t)
    BY <1>1 DEF PrepareLocal
  <2>2. t # s
    BY <1>1, <2>1 DEF PrepareLocal
  <2>3. pc[t] = "done" /\ tries[t] > 0 /\ entry'[t] = entry[t]
    BY <1>1, <2>1, <2>2 DEF PrepareLocal
  <2> QED
    BY <2>3
<1>2. ASSUME NEW s \in Sessions, PrepareRemote(s)
      PROVE  Kept'
  BY <1>2 DEF PrepareRemote
<1>3. ASSUME NEW s \in Sessions, Acquired(s)
      PROVE  Kept'
  BY <1>3 DEF Acquired
<1>4. ASSUME NEW s \in Sessions, ResolveSessionProxy(s)
      PROVE  Kept'
  BY <1>4 DEF ResolveSessionProxy
<1>5. ASSUME NEW r \in Releases, NEW s \in Sessions, ReleaseSessionProxy(r, s)
      PROVE  Kept'
  <2>1. SUFFICES ASSUME NEW t \in Sessions, pc'[t] = "done", tries'[t] > 0
               PROVE  \/ entry'[t] = Current(t)
                      \/ \E q \in Releases : carries'[q] = Current(t)
    BY <1>5 DEF ReleaseSessionProxy
  <2>2. pc[t] = "done" /\ tries[t] > 0
    BY <1>5, <2>1 DEF ReleaseSessionProxy
  <2>3. Current(t) \in Leases
    BY <2>2
  <2>4. CASE entry[t] = Current(t)
    <3>1. CASE t = s
      BY <1>5, <2>3, <2>4, <3>1 DEF ReleaseSessionProxy
    <3>2. CASE t # s
      BY <1>5, <2>4, <3>2 DEF ReleaseSessionProxy
    <3> QED
      BY <3>1, <3>2
  <2>5. CASE \E q \in Releases : carries[q] = Current(t)
    <3>1. PICK q \in Releases : carries[q] = Current(t)
      BY <2>5
    <3>2. q # r
      BY <1>5, <2>3, <3>1 DEF ReleaseSessionProxy
    <3> QED
      BY <1>5, <3>1, <3>2 DEF ReleaseSessionProxy
  <2> QED
    BY <2>2, <2>4, <2>5
<1>6. ASSUME NEW r \in Releases, Released(r)
      PROVE  Kept'
  BY <1>6 DEF Released
<1>7. ASSUME NEW c \in Calls, Send(c)
      PROVE  Kept'
  <2>1. SUFFICES ASSUME NEW t \in Sessions, pc'[t] = "done", tries'[t] > 0
               PROVE  \/ entry[t] = Current(t)'
                      \/ \E q \in Releases : carries[q] = Current(t)'
    BY <1>7 DEF Send
  <2>2. pc[t] = "done" /\ tries'[t] = tries[t]
    BY <1>7, <2>1 DEF Send
  <2> QED
    BY <2>1, <2>2
<1>8. ASSUME NEW c \in Calls, Retry(c)
      PROVE  Kept'
  BY <1>8 DEF Retry
<1>9. ASSUME NEW c \in Calls, GiveUp(c)
      PROVE  Kept'
  BY <1>9 DEF GiveUp
<1>10. ASSUME NEW c \in Calls, Cancel(c)
      PROVE  Kept'
  BY <1>10 DEF Cancel
<1>11. ASSUME NEW a \in Attempts, CarryOut(a)
      PROVE  Kept'
  BY <1>11 DEF CarryOut
<1>12. CASE UNCHANGED vars
  BY <1>12 DEF vars, callVars, sessionVars, remoteVars
<1>q. QED
  BY <1>1, <1>2, <1>3, <1>4, <1>5, <1>6, <1>7, <1>8, <1>9, <1>10, <1>11, <1>12 DEF Next, CallStep

LEMMA EntryAsProfileStep ==
  ASSUME IInv, [Next]_vars
  PROVE  EntryAsProfile'
<1> USE DEF IInv, TypeOK, Counted, EntryAsProfile, NothingYet, KindOf, Kinds, Proxies
<1>1. ASSUME NEW s \in Sessions, PrepareLocal(s)
      PROVE  EntryAsProfile'
  BY <1>1 DEF PrepareLocal
<1>2. ASSUME NEW s \in Sessions, PrepareRemote(s)
      PROVE  EntryAsProfile'
  BY <1>2 DEF PrepareRemote
<1>3. ASSUME NEW s \in Sessions, Acquired(s)
      PROVE  EntryAsProfile'
  <2>1. Current(s) \in Leases
    BY <1>3 DEF Acquired, Current
  <2>2. KindOf(entry'[s]) = proxyRef'[s]
    BY <1>3, <2>1 DEF Acquired
  <2>3. \A t \in Sessions \ {s} :
          pc'[t] = pc[t] /\ entry'[t] = entry[t] /\ proxyRef'[t] = proxyRef[t]
    BY <1>3 DEF Acquired
  <2> QED
    BY <1>3, <2>2, <2>3 DEF Acquired
<1>4. ASSUME NEW s \in Sessions, ResolveSessionProxy(s)
      PROVE  EntryAsProfile'
  BY <1>4 DEF ResolveSessionProxy
<1>5. ASSUME NEW r \in Releases, NEW s \in Sessions, ReleaseSessionProxy(r, s)
      PROVE  EntryAsProfile'
  BY <1>5 DEF ReleaseSessionProxy
<1>6. ASSUME NEW r \in Releases, Released(r)
      PROVE  EntryAsProfile'
  BY <1>6 DEF Released
<1>7. ASSUME NEW c \in Calls, Send(c)
      PROVE  EntryAsProfile'
  BY <1>7 DEF Send
<1>8. ASSUME NEW c \in Calls, Retry(c)
      PROVE  EntryAsProfile'
  BY <1>8 DEF Retry
<1>9. ASSUME NEW c \in Calls, GiveUp(c)
      PROVE  EntryAsProfile'
  BY <1>9 DEF GiveUp
<1>10. ASSUME NEW c \in Calls, Cancel(c)
      PROVE  EntryAsProfile'
  BY <1>10 DEF Cancel
<1>11. ASSUME NEW a \in Attempts, CarryOut(a)
      PROVE  EntryAsProfile'
  BY <1>11 DEF CarryOut
<1>12. CASE UNCHANGED vars
  BY <1>12 DEF vars, callVars, sessionVars, remoteVars
<1>q. QED
  BY <1>1, <1>2, <1>3, <1>4, <1>5, <1>6, <1>7, <1>8, <1>9, <1>10, <1>11, <1>12 DEF Next, CallStep

LEMMA RouteStep ==
  ASSUME IInv, [Next]_vars
  PROVE  RouteAsProfile'
<1> USE DEF IInv, TypeOK, RouteAsProfile, EntryAsProfile, NothingYet, KindOf, Kinds, Proxies
<1>1. ASSUME NEW s \in Sessions, PrepareLocal(s)
      PROVE  RouteAsProfile'
  BY <1>1 DEF PrepareLocal
<1>2. ASSUME NEW s \in Sessions, PrepareRemote(s)
      PROVE  RouteAsProfile'
  BY <1>2 DEF PrepareRemote
<1>3. ASSUME NEW s \in Sessions, Acquired(s)
      PROVE  RouteAsProfile'
  BY <1>3 DEF Acquired
<1>4. ASSUME NEW s \in Sessions, ResolveSessionProxy(s)
      PROVE  RouteAsProfile'
  BY <1>4 DEF ResolveSessionProxy
<1>5. ASSUME NEW r \in Releases, NEW s \in Sessions, ReleaseSessionProxy(r, s)
      PROVE  RouteAsProfile'
  BY <1>5 DEF ReleaseSessionProxy
<1>6. ASSUME NEW r \in Releases, Released(r)
      PROVE  RouteAsProfile'
  BY <1>6 DEF Released
<1>7. ASSUME NEW c \in Calls, Send(c)
      PROVE  RouteAsProfile'
  BY <1>7 DEF Send
<1>8. ASSUME NEW c \in Calls, Retry(c)
      PROVE  RouteAsProfile'
  BY <1>8 DEF Retry
<1>9. ASSUME NEW c \in Calls, GiveUp(c)
      PROVE  RouteAsProfile'
  BY <1>9 DEF GiveUp
<1>10. ASSUME NEW c \in Calls, Cancel(c)
      PROVE  RouteAsProfile'
  BY <1>10 DEF Cancel
<1>11. ASSUME NEW a \in Attempts, CarryOut(a)
      PROVE  RouteAsProfile'
  BY <1>11 DEF CarryOut
<1>12. CASE UNCHANGED vars
  BY <1>12 DEF vars, callVars, sessionVars, remoteVars
<1>q. QED
  BY <1>1, <1>2, <1>3, <1>4, <1>5, <1>6, <1>7, <1>8, <1>9, <1>10, <1>11, <1>12 DEF Next, CallStep

LEMMA InitInv == Init => IInv
  BY DEF Init, IInv, TypeOK, Counted, WasSent, WasRead, OwnEntry, NothingYet, OneReturn,
    HeldUntilAsked, DroppedWhenAsked, Kept, EntryAsProfile, RouteAsProfile,
    Remembered, CarriedBy, Current, Proxies, Kinds, KindOf, Pc, Active

LEMMA StepInv == IInv /\ [Next]_vars => IInv'
  BY TypeStep, CountedStep, WasSentStep, WasReadStep, OwnEntryStep, NothingYetStep,
    OneReturnStep, HeldUntilAskedStep, DroppedStep, KeptStep,
    EntryAsProfileStep, RouteStep
  DEF IInv

\* The invariant holds of every behaviour: the one induction all theorems share.
THEOREM Invariance == Spec => []IInv
  BY InitInv, StepInv, PTL DEF Spec

\* Every variable keeps its type.
THEOREM TypeCorrect == Spec => []TypeOK
  BY Invariance, PTL DEF IInv

\* A lease is returned by the one release that found it in the map.
THEOREM OneReturnTheorem == Spec => []OneReturn
  BY Invariance, PTL DEF IInv

\* A browser that is not behind the proxy its profile names connects directly,
\* because a release overtook its start.
THEOREM RouteTheorem == Spec => []RouteAsProfile
  BY Invariance, PTL DEF IInv

LEMMA RememberedHeld == IInv => RememberedIsHeld
  BY DEF IInv, RememberedIsHeld, TypeOK, WasRead, OneReturn, HeldUntilAsked,
    Current

\* What a session remembers is held at the remote side.
THEOREM RememberedTheorem == Spec => []RememberedIsHeld
  BY Invariance, RememberedHeld, PTL

LEMMA Accounted == IInv => LeaseAccounted
<1> SUFFICES ASSUME IInv, NEW l \in held
             PROVE  \/ Remembered(l)
                    \/ l = Current(l[1]) /\ pc[l[1]] = "await"
                    \/ Unread(l)
                    \/ \E r \in Releases : CarriedBy(r, l) /\ pc[r] \in Active \cup {"failed"}
  BY DEF LeaseAccounted
<1> DEFINE s == l[1]
<1>1. l \in Leases /\ s \in Sessions /\ l[2] \in 1 .. MaxAttempts /\ l = <<s, l[2]>>
  BY DEF IInv, TypeOK
<1>2. l[2] <= tries[s] /\ tries[s] \in 0 .. MaxAttempts
  BY <1>1 DEF IInv, TypeOK, WasSent
<1>3. CASE l[2] < tries[s]
  BY <1>3 DEF Unread
<1>4. CASE l[2] = tries[s]
  <2>1. l = Current(s)
    BY <1>1, <1>4 DEF Current
  <2>2. pc[s] # "idle"
    BY <1>1, <1>4 DEF IInv, Counted
  <2>3. CASE pc[s] \in {"send", "failed", "await"}
    BY <2>1, <2>3 DEF Unread
  <2>4. CASE pc[s] = "done" /\ ~ Remembered(l)
    <3>1. PICK r \in Releases : CarriedBy(r, l)
      BY <1>1, <1>4, <2>1, <2>4 DEF IInv, Kept
    <3>2. pc[r] \notin {"done", "idle"}
      BY <1>1, <3>1 DEF IInv, DroppedWhenAsked, NothingYet, CarriedBy
    <3> QED
      BY <3>1, <3>2 DEF IInv, TypeOK, Pc
  <2> QED
    BY <1>1, <2>2, <2>3, <2>4 DEF IInv, TypeOK, Pc, Active
<1> QED
  BY <1>1, <1>2, <1>3, <1>4

\* A lease is left behind in two ways only: its answer was never read, or its
\* one release failed.
THEOREM LeaseTheorem == Spec => []LeaseAccounted
  BY Invariance, Accounted, PTL

------------------------------------------------------------------------------
(* ProxyLease implements LeaseBook.                                        *)

\* What a step must not touch for the life of a lease to stay as it is.
LEMMA SameLife ==
  ASSUME NEW l \in Leases,
         Remembered(l)' <=> Remembered(l),
         \A r \in Releases : CarriedBy(r, l)' <=> CarriedBy(r, l),
         \A r \in Releases : CarriedBy(r, l) => pc'[r] = pc[r],
         tries'[l[1]] = tries[l[1]],
         pc'[l[1]] = pc[l[1]]
  PROVE  LifeOf(l)' = LifeOf(l)
BY DEF LifeOf, Unread, Current

\* The life of a lease that no session remembers and no release carries.
LEMMA FreeLife ==
  ASSUME NEW l \in Leases, ~ Remembered(l), \A r \in Releases : ~ CarriedBy(r, l)
  PROVE  LifeOf(l) = IF tries[l[1]] < l[2] THEN "none"
                     ELSE IF Unread(l) THEN "unread" ELSE "asked"
BY DEF LifeOf

LEMMA CarriedLife ==
  ASSUME OneReturn, NEW l \in Leases, NEW r \in Releases, CarriedBy(r, l)
  PROVE  LifeOf(l) = IF pc[r] \in Active THEN "returning"
                     ELSE IF pc[r] = "failed" THEN "kept" ELSE "gone"
BY DEF LifeOf, OneReturn

\* One lease moves on, or none does.
LEMMA OneLife ==
  ASSUME NEW l \in Leases, \A k \in Leases \ {l} : LifeOf(k)' = LifeOf(k)
  PROVE  leaseLife' = [leaseLife EXCEPT ![l] = LifeOf(l)']
BY DEF leaseLife

LEMMA NoLife ==
  ASSUME \A k \in Leases : LifeOf(k)' = LifeOf(k), held' = held
  PROVE  UNCHANGED Book!vars
BY DEF leaseLife, Book!vars

LEMMA BookInit == Init => Book!Init
<1> SUFFICES ASSUME Init, NEW l \in Leases PROVE LifeOf(l) = "none"
  BY DEF Init, Book!Init, leaseLife
<1> QED
  BY DEF Init, LifeOf, Remembered, CarriedBy

\* Steps that move no lease and leave the remote side alone.
LEMMA BookQuiet ==
  ASSUME IInv,
         \/ \E s \in Sessions : PrepareLocal(s) \/ PrepareRemote(s) \/ ResolveSessionProxy(s)
         \/ \E c \in Calls : Cancel(c)
         \/ UNCHANGED vars
  PROVE  UNCHANGED Book!vars
<1> USE DEF IInv, TypeOK, Counted, WasRead, NothingYet
<1>1. carries' = carries /\ tries' = tries /\ held' = held
  BY DEF PrepareLocal, PrepareRemote, ResolveSessionProxy, Cancel
<1>2. \A r \in Releases : pc'[r] = pc[r]
  BY DEF PrepareLocal, PrepareRemote, ResolveSessionProxy, Cancel
<1>3. SUFFICES ASSUME NEW l \in Leases PROVE LifeOf(l)' = LifeOf(l)
  BY <1>1, NoLife
<1>4. (Remembered(l)' <=> Remembered(l)) \/ tries[l[1]] = 0
  BY DEF PrepareLocal, PrepareRemote, ResolveSessionProxy, Cancel, Remembered
<1>5. Remembered(l)' <=> Remembered(l)
  BY DEF PrepareLocal, PrepareRemote, ResolveSessionProxy, Cancel, Remembered
<1>6. \A r \in Releases : CarriedBy(r, l)' <=> CarriedBy(r, l)
  BY <1>1 DEF CarriedBy
<1>7. pc'[l[1]] = pc[l[1]] \/ tries[l[1]] = 0
  BY DEF PrepareLocal, PrepareRemote, ResolveSessionProxy, Cancel
<1>8. CASE pc'[l[1]] = pc[l[1]]
  BY <1>1, <1>2, <1>5, <1>6, <1>8, SameLife
<1>9. CASE tries[l[1]] = 0
  BY <1>1, <1>2, <1>5, <1>6, <1>9 DEF LifeOf
<1> QED
  BY <1>7, <1>8, <1>9

\* What a call of a session leaves alone: every lease but the one it waits for.
LEMMA OthersOf ==
  ASSUME IInv, NEW s \in Sessions, NEW l \in Leases, l[1] # s,
         carries' = carries,
         \A c \in Calls \ {s} : pc'[c] = pc[c] /\ tries'[c] = tries[c],
         \A t \in Sessions \ {s} : entry'[t] = entry[t]
  PROVE  LifeOf(l)' = LifeOf(l)
BY SameLife DEF Remembered, CarriedBy, IInv, TypeOK

\* The rivals of the lease a session waits for were never read, or not asked for.
LEMMA AloneOf ==
  ASSUME IInv, NEW s \in Sessions, pc[s] \in {"send", "await"},
         NEW l \in Leases, l[1] = s, l # Current(s) \/ pc[s] = "send"
  PROVE  leaseLife[l] \in {"none", "unread"}
<1>1. ~ Remembered(l) /\ \A r \in Releases : ~ CarriedBy(r, l)
  BY DEF IInv, WasRead
<1>2. LifeOf(l) = IF tries[l[1]] < l[2] THEN "none" ELSE IF Unread(l) THEN "unread" ELSE "asked"
  BY <1>1, FreeLife
<1>3. tries[s] < l[2] \/ Unread(l)
  BY DEF Unread, Current, IInv, TypeOK
<1> QED
  BY <1>2, <1>3 DEF leaseLife

\* An attempt of a session asks for a lease.
LEMMA BookAsk ==
  ASSUME IInv, NEW s \in Sessions, Send(s)
  PROVE  [Book!Next]_Book!vars
<1> USE DEF IInv, TypeOK, Counted, WasRead
<1>1. pc[s] = "send" /\ held' = held /\ carries' = carries /\ entry' = entry
  BY DEF Send
<1>2. \A c \in Calls \ {s} : pc'[c] = pc[c] /\ tries'[c] = tries[c]
  BY DEF Send
<1>3. \A k \in Leases : k[1] # s => LifeOf(k)' = LifeOf(k)
  BY <1>1, <1>2, OthersOf
<1>4. \A k \in Leases : k[1] = s => ~ Remembered(k) /\ \A r \in Releases : ~ CarriedBy(r, k)
  BY <1>1
<1>5. \A k \in Leases : k[1] = s => ~ Remembered(k)' /\ \A r \in Releases : ~ CarriedBy(r, k)'
  BY <1>1, <1>4 DEF Remembered, CarriedBy
<1>6. \A k \in Leases : k[1] = s =>
        LifeOf(k)' = IF tries'[s] < k[2] THEN "none" ELSE IF Unread(k)' THEN "unread" ELSE "asked"
  BY <1>5 DEF LifeOf
<1>7. \A k \in Leases : k[1] = s =>
        LifeOf(k) = IF tries[s] < k[2] THEN "none" ELSE IF Unread(k) THEN "unread" ELSE "asked"
  BY <1>4, FreeLife
<1>8. CASE s \in cancelled
  <2>1. tries' = tries /\ pc'[s] = "failed"
    BY <1>8 DEF Send
  <2>2. \A k \in Leases : k[1] = s => (Unread(k)' <=> Unread(k))
    BY <1>1, <2>1 DEF Unread, Current
  <2> QED
    BY <1>1, <1>3, <1>6, <1>7, <2>1, <2>2, NoLife
<1>9. CASE s \notin cancelled
  <2> <<s, tries[s] + 1>> \in Leases
    BY <1>1
  <2>1. PICK l \in Leases : l = <<s, tries[s] + 1>> /\ l[1] = s /\ l[2] = tries[s] + 1
    OBVIOUS
  <2>2. tries'[s] = tries[s] + 1 /\ pc'[s] = "await"
    BY <1>9 DEF Send
  <2>3. LifeOf(l) = "none"
    BY <1>7, <2>1
  <2>4. LifeOf(l)' = "asked"
    BY <1>6, <2>1, <2>2 DEF Unread, Current
  <2>5. \A k \in Leases \ {l} : k[1] = s => LifeOf(k)' = LifeOf(k)
    <3>1. SUFFICES ASSUME NEW k \in Leases \ {l}, k[1] = s PROVE LifeOf(k)' = LifeOf(k)
      OBVIOUS
    <3>2. k[2] # tries[s] + 1
      BY <2>1, <3>1, k = <<k[1], k[2]>>
    <3>3. (tries'[s] < k[2]) <=> (tries[s] < k[2])
      BY <2>2, <3>2, k[2] \in Nat, tries[s] \in Nat
    <3>4. CASE tries[s] < k[2]
      BY <1>6, <1>7, <3>1, <3>3, <3>4
    <3>5. CASE k[2] <= tries[s]
      <4>1. k[2] < tries[s] \/ k = <<s, tries[s]>>
        BY <3>1, <3>5, k = <<k[1], k[2]>>, k[2] \in Nat, tries[s] \in Nat
      <4>2. Unread(k)
        BY <1>1, <3>1, <4>1 DEF Unread, Current
      <4>3. k[2] < tries'[s]
        BY <2>2, <3>5, k[2] \in Nat, tries[s] \in Nat
      <4>4. Unread(k)'
        BY <3>1, <4>3 DEF Unread
      <4> QED
        BY <1>6, <1>7, <3>1, <3>3, <3>5, <4>2, <4>4
    <3> QED
      BY <3>4, <3>5, k[2] \in Nat, tries[s] \in Nat
  <2>6. leaseLife' = [leaseLife EXCEPT ![l] = "asked"]
    BY <1>3, <2>1, <2>4, <2>5, OneLife
  <2>7. \A k \in Leases : k[1] = s => leaseLife[k] \in {"none", "unread"}
    BY <1>1, AloneOf
  <2>8. Book!Alone(l)
    BY <2>1, <2>7 DEF Book!Alone
  <2>9. Book!Ask(l)
    BY <1>1, <2>1, <2>3, <2>6, <2>8 DEF Book!Ask, Book!Move, leaseLife
  <2> QED
    BY <2>1, <2>9 DEF Book!Next
<1> QED
  BY <1>8, <1>9

\* A session stops waiting for the answer to an attempt.
LEMMA BookUnread ==
  ASSUME IInv, NEW s \in Sessions, Retry(s) \/ GiveUp(s)
  PROVE  [Book!Next]_Book!vars
<1> USE DEF IInv, TypeOK, Counted, WasRead
<1>1. pc[s] = "await" /\ held' = held /\ carries' = carries /\ entry' = entry /\ tries' = tries
  BY DEF Retry, GiveUp
<1>2. pc'[s] \in {"send", "failed"} /\ \A c \in Calls \ {s} : pc'[c] = pc[c]
  BY DEF Retry, GiveUp
<1> Current(s) \in Leases
  BY <1>1 DEF Current
<1>3. PICK l \in Leases : l = Current(s) /\ l[1] = s /\ l[2] = tries[s]
  BY DEF Current
<1>4. \A k \in Leases : k[1] # s => LifeOf(k)' = LifeOf(k)
  BY <1>1, <1>2, OthersOf
<1>5. \A k \in Leases : k[1] = s => ~ Remembered(k) /\ \A r \in Releases : ~ CarriedBy(r, k)
  BY <1>1
<1>6. \A k \in Leases : k[1] = s =>
        LifeOf(k)' = IF tries[s] < k[2] THEN "none" ELSE IF Unread(k)' THEN "unread" ELSE "asked"
  BY <1>1, <1>5 DEF LifeOf, Remembered, CarriedBy
<1>7. \A k \in Leases : k[1] = s =>
        LifeOf(k) = IF tries[s] < k[2] THEN "none" ELSE IF Unread(k) THEN "unread" ELSE "asked"
  BY <1>5, FreeLife
<1>8. LifeOf(l) = "asked" /\ LifeOf(l)' = "unread"
  BY <1>1, <1>2, <1>3, <1>6, <1>7 DEF Unread, Current
<1>9. \A k \in Leases \ {l} : k[1] = s => LifeOf(k)' = LifeOf(k)
  BY <1>1, <1>3, <1>6, <1>7 DEF Unread, Current
<1>10. leaseLife' = [leaseLife EXCEPT ![l] = "unread"]
  BY <1>3, <1>4, <1>8, <1>9, OneLife
<1>11. Book!Move(l, {"asked"}, "unread")
  BY <1>1, <1>3, <1>8, <1>10 DEF Book!Move, leaseLife
<1> QED
  BY <1>3, <1>11 DEF Book!Next

\* An answer that names a lease makes it the session's own.
LEMMA BookOwn ==
  ASSUME IInv, NEW s \in Sessions, Acquired(s)
  PROVE  [Book!Next]_Book!vars
<1> USE DEF IInv, TypeOK, Counted, WasRead
<1>1. pc[s] = "await" /\ held' = held /\ carries' = carries /\ tries' = tries
  BY DEF Acquired
<1>2. pc'[s] = "done" /\ \A c \in Calls \ {s} : pc'[c] = pc[c]
  BY DEF Acquired
<1>3. entry'[s] = Current(s) /\ Current(s) \notin wire /\ \A t \in Sessions \ {s} : entry'[t] = entry[t]
  BY DEF Acquired
<1> Current(s) \in Leases
  BY <1>1 DEF Current
<1>4. PICK l \in Leases : l = Current(s) /\ l[1] = s /\ l[2] = tries[s]
  BY DEF Current
<1>5. \A k \in Leases : k[1] # s => LifeOf(k)' = LifeOf(k)
  BY <1>1, <1>2, <1>3, OthersOf
<1>6. \A k \in Leases : k[1] = s => ~ Remembered(k) /\ \A r \in Releases : ~ CarriedBy(r, k)
  BY <1>1
<1>7. \A k \in Leases : k[1] = s =>
        LifeOf(k) = IF tries[s] < k[2] THEN "none" ELSE IF Unread(k) THEN "unread" ELSE "asked"
  BY <1>6, FreeLife
<1>8. \A k \in Leases \ {l} : k[1] = s =>
        LifeOf(k)' = IF tries[s] < k[2] THEN "none" ELSE IF Unread(k)' THEN "unread" ELSE "asked"
  BY <1>1, <1>3, <1>4, <1>6 DEF LifeOf, Remembered, CarriedBy
<1>9. \A k \in Leases \ {l} : k[1] = s => LifeOf(k)' = LifeOf(k)
  BY <1>1, <1>4, <1>7, <1>8 DEF Unread, Current
<1>10. LifeOf(l) = "asked" /\ LifeOf(l)' = "owned"
  BY <1>1, <1>3, <1>4, <1>7 DEF Unread, Current, LifeOf, Remembered
<1>11. leaseLife' = [leaseLife EXCEPT ![l] = "owned"]
  BY <1>4, <1>5, <1>9, <1>10, OneLife
<1>12. l \in held
  <2>1. l[2] <= tries[l[1]] /\ l \notin wire
    BY <1>3, <1>4
  <2>2. \A r \in Releases : ~ CarriedBy(r, l)
    BY <1>4, <1>6
  <2> QED
    BY <2>1, <2>2 DEF HeldUntilAsked
<1>13. \A k \in Leases \ {l} : k[1] = s => leaseLife[k] \in {"none", "unread"}
  BY <1>1, <1>4, AloneOf
<1>14. Book!Alone(l)
  BY <1>4, <1>13 DEF Book!Alone
<1>15. Book!Own(l)
  BY <1>1, <1>4, <1>10, <1>11, <1>12, <1>14 DEF Book!Own, Book!Move, leaseLife
<1> QED
  BY <1>4, <1>15 DEF Book!Next

\* A release takes what its session remembers.
LEMMA BookReturn ==
  ASSUME IInv, NEW r \in Releases, NEW s \in Sessions, ReleaseSessionProxy(r, s)
  PROVE  [Book!Next]_Book!vars
<1> USE DEF IInv, TypeOK, WasRead, NothingYet
<1>1. pc[r] = "idle" /\ held' = held /\ tries' = tries /\ carries[r] = NoProxy
  BY DEF ReleaseSessionProxy
<1>2. \A c \in Calls \ {r} : pc'[c] = pc[c]
  BY DEF ReleaseSessionProxy
<1>3. entry'[s] = NoProxy /\ \A t \in Sessions \ {s} : entry'[t] = entry[t]
  BY DEF ReleaseSessionProxy
<1>4. \A q \in Releases \ {r} : carries'[q] = carries[q]
  BY DEF ReleaseSessionProxy
<1>5. \A k \in Leases : ~ CarriedBy(r, k)
  BY <1>1 DEF CarriedBy
<1>6. \A k \in Leases \ {entry[s]} : LifeOf(k)' = LifeOf(k)
  <2>1. SUFFICES ASSUME NEW k \in Leases \ {entry[s]} PROVE LifeOf(k)' = LifeOf(k)
    OBVIOUS
  <2>2. Remembered(k)' <=> Remembered(k)
    BY <1>3, <2>1 DEF Remembered
  <2>3. \A q \in Releases : CarriedBy(q, k)' <=> CarriedBy(q, k)
    BY <1>1, <1>4, <2>1 DEF CarriedBy, ReleaseSessionProxy
  <2>4. \A q \in Releases : CarriedBy(q, k) => pc'[q] = pc[q]
    BY <1>2, <1>5
  <2> QED
    BY <1>1, <1>2, <2>2, <2>3, <2>4, SameLife
<1>7. CASE entry[s] \notin Leases
  BY <1>1, <1>6, <1>7, NoLife
<1>8. CASE entry[s] \in Leases
  <2>1. PICK l \in Leases : l = entry[s] /\ Remembered(l) /\ l[1] = s
    BY <1>8 DEF Remembered, OwnEntry
  <2>2. LifeOf(l) = "owned"
    BY <2>1 DEF LifeOf
  <2>3. CarriedBy(r, l)' /\ pc'[r] = "send" /\ ~ Remembered(l)'
    BY <1>3, <1>8, <2>1 DEF ReleaseSessionProxy, CarriedBy, Remembered
  <2>4. LifeOf(l)' = "returning"
    BY <2>3 DEF LifeOf, Active
  <2>5. leaseLife' = [leaseLife EXCEPT ![l] = "returning"]
    BY <1>6, <2>1, <2>4, OneLife
  <2>6. Book!Move(l, {"owned"}, "returning")
    BY <1>1, <2>2, <2>5 DEF Book!Move, leaseLife
  <2> QED
    BY <2>6 DEF Book!Next
<1> QED
  BY <1>7, <1>8

\* A step of a release's post moves the lease it carries, or nothing.
LEMMA BookPost ==
  ASSUME IInv, IInv', NEW r \in Releases, Send(r) \/ Retry(r) \/ GiveUp(r) \/ Released(r)
  PROVE  [Book!Next]_Book!vars
<1> USE DEF IInv, TypeOK, NothingYet
<1>1. held' = held /\ carries' = carries /\ entry' = entry /\ pc[r] \in Active
  BY DEF Send, Retry, GiveUp, Released, Active
<1>2. \A c \in Calls \ {r} : pc'[c] = pc[c] /\ tries'[c] = tries[c]
  BY DEF Send, Retry, GiveUp, Released
<1>3. PICK l \in Leases : CarriedBy(r, l)
  BY <1>1 DEF CarriedBy, Active
<1>4. \A k \in Leases \ {l} : LifeOf(k)' = LifeOf(k)
  BY <1>1, <1>2, <1>3, SameLife DEF Remembered, CarriedBy
<1>5. LifeOf(l) = "returning"
  BY <1>1, <1>3, CarriedLife
<1>6. ~ Remembered(l)' /\ CarriedBy(r, l)' /\ \A q \in Releases : CarriedBy(q, l)' => q = r
  BY <1>1, <1>3 DEF OneReturn, CarriedBy, Remembered
<1>7. LifeOf(l)' = IF pc'[r] \in Active THEN "returning" ELSE IF pc'[r] = "failed" THEN "kept" ELSE "gone"
  BY <1>6 DEF LifeOf
<1>8. leaseLife' = [leaseLife EXCEPT ![l] = LifeOf(l)']
  BY <1>3, <1>4, OneLife
<1>9. CASE pc'[r] \in Active
  BY <1>1, <1>4, <1>5, <1>7, <1>9, NoLife
<1>10. CASE pc'[r] = "failed"
  <2>1. Book!Move(l, {"returning"}, "kept")
    BY <1>1, <1>3, <1>5, <1>7, <1>8, <1>10 DEF Book!Move, leaseLife, Active
  <2> QED
    BY <1>3, <2>1 DEF Book!Next
<1>11. CASE pc'[r] = "done"
  <2>1. l \notin held
    BY <1>1, <1>3, <1>6, <1>11 DEF DroppedWhenAsked
  <2>2. Book!Gone(l)
    BY <1>1, <1>3, <1>5, <1>7, <1>8, <1>11, <2>1 DEF Book!Gone, Book!Move, leaseLife, Active
  <2> QED
    BY <1>3, <2>2 DEF Book!Next
<1> QED
  BY <1>9, <1>10, <1>11 DEF Send, Retry, GiveUp, Released, Active

\* The remote side grants a lease somebody asked for, or drops one that is given
\* back.
LEMMA BookRemote ==
  ASSUME IInv, NEW a \in Attempts, CarryOut(a)
  PROVE  [Book!Next]_Book!vars
<1> USE DEF IInv, TypeOK, NothingYet, WasSent, WasRead
<1>1. \A k \in Leases : LifeOf(k)' = LifeOf(k)
  BY SameLife DEF CarryOut, Remembered, CarriedBy
<1>2. leaseLife' = leaseLife
  BY <1>1 DEF leaseLife
<1>3. CASE a \in Leases
  <2>1. held' = held \cup {a} /\ a \in wire
    BY <1>3 DEF CarryOut
  <2>2. ~ Remembered(a) /\ \A r \in Releases : ~ CarriedBy(r, a)
    BY <1>3, <2>1
  <2>3. ~ (tries[a[1]] < a[2])
    BY <1>3, <2>1
  <2>4. LifeOf(a) \in {"asked", "unread"}
    BY <1>3, <2>2, <2>3, FreeLife
  <2>5. Book!Grant(a)
    BY <1>2, <1>3, <2>1, <2>4 DEF Book!Grant, leaseLife
  <2> QED
    BY <1>3, <2>5 DEF Book!Next
<1>4. CASE a \notin Leases
  <2> DEFINE r == a[1]  l == carries[r]
  <2>1. r \in Releases /\ held' = held \ {l} /\ a \in wire /\ a[2] \in 1 .. MaxAttempts
    BY <1>4 DEF CarryOut
  <2>2. l \in Leases /\ CarriedBy(r, l)
    BY <2>1 DEF CarriedBy
  <2>3. pc[r] \in Active \cup {"failed", "done"}
    BY <2>1, <2>2 DEF Pc, CarriedBy
  <2>4. CASE pc[r] \in Active \cup {"failed"}
    <3>1. LifeOf(l) \in {"returning", "kept"}
      BY <2>1, <2>2, <2>4, CarriedLife
    <3>2. Book!Drop(l)
      BY <1>2, <2>1, <2>2, <3>1 DEF Book!Drop, leaseLife
    <3> QED
      BY <2>2, <3>2 DEF Book!Next
  <2>5. CASE pc[r] = "done"
    <3>1. l \notin held
      BY <2>1, <2>2, <2>5 DEF DroppedWhenAsked
    <3>2. held' = held
      BY <2>1, <3>1
    <3> QED
      BY <1>1, <3>2, NoLife
  <2> QED
    BY <2>3, <2>4, <2>5
<1> QED
  BY <1>3, <1>4

LEMMA BookNext == IInv /\ IInv' /\ [Next]_vars => [Book!Next]_Book!vars
<1> SUFFICES ASSUME IInv, IInv', [Next]_vars PROVE [Book!Next]_Book!vars
  OBVIOUS
<1>1. CASE \/ \E s \in Sessions : PrepareLocal(s) \/ PrepareRemote(s) \/ ResolveSessionProxy(s)
           \/ \E c \in Calls : Cancel(c)
           \/ UNCHANGED vars
  BY <1>1, BookQuiet
<1>2. ASSUME NEW r \in Releases, NEW s \in Sessions, ReleaseSessionProxy(r, s)
      PROVE  [Book!Next]_Book!vars
  BY <1>2, BookReturn
<1>3. ASSUME NEW s \in Sessions, Acquired(s) \/ Send(s) \/ Retry(s) \/ GiveUp(s)
      PROVE  [Book!Next]_Book!vars
  BY <1>3, BookOwn, BookAsk, BookUnread
<1>4. ASSUME NEW r \in Releases, Released(r) \/ Send(r) \/ Retry(r) \/ GiveUp(r)
      PROVE  [Book!Next]_Book!vars
  BY <1>4, BookPost
<1>5. ASSUME NEW a \in Attempts, CarryOut(a)
      PROVE  [Book!Next]_Book!vars
  BY <1>5, BookRemote
<1> QED
  BY <1>1, <1>2, <1>3, <1>4, <1>5 DEF Next, CallStep

\* The controller and its client implement the ledger of leases: a session owns
\* at most one lease, which is held until the one release that took it.
THEOREM BookTheorem == Spec => ImplementsBook
  BY BookInit, BookNext, Invariance, PTL DEF ImplementsBook, Book!Spec, Spec

==============================================================================
