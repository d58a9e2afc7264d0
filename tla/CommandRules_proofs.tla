-------------------------- MODULE CommandRules_proofs --------------------------
(***************************************************************************)
(* The two sets of rules compared for every submission of any length, and  *)
(* how a task ends.                                                        *)
(***************************************************************************)
EXTENDS CommandRules, TLAPS

Codes == {"ok", "validation_failed", "unsupported_operation", "timeout",
          "browser_unavailable", "navigation_failed"}

TypeOK ==
  /\ task \in Seq(Command)
  /\ stage \in {"sent", "refused", "running", "SUCCEEDED", "FAILED"}
  /\ results \in Seq(Codes)
  /\ Len(results) <= Len(task)

Failed(i) == results[i] # "ok" /\ ~task[i].soft

IInv ==
  /\ TypeOK
  /\ stage \in {"sent", "refused"} => results = <<>>
  /\ stage \notin {"sent", "refused"} => \A i \in 1..Len(task) : Accepts(task[i])
  /\ \A i \in 1..Len(results) : results[i] \in Outcomes(task[i])
  /\ stage \in {"running", "SUCCEEDED"} => \A i \in 1..Len(results) : ~Failed(i)
  /\ stage = "FAILED" => \A i \in 1..Len(results) : Failed(i) <=> i = Len(results)
  /\ stage = "FAILED" => results # <<>>
  /\ stage = "SUCCEEDED" => Len(results) = Len(task)

\* A command the service accepts is run by the worker unless it has a gap.
LEMMA RulesAgree ==
  ASSUME NEW c \in Command, Accepts(c)
  PROVE  Runs(c) <=> ~Gap(c)
<1> USE DEF Command, Place, Point, Content, Accepts, Runs, Gap
<1>1. CASE c.op = "drag"
  <2>1. ASSUME NEW p \in Place, HasSelector(p) \/ p.point # "none"
        PROVE  Reaches(p) <=> ~EndLost(p)
    BY <2>1 DEF HasSelector, Reaches, Locates, Sees, EndLost
  <2>2. Runs(c) <=> Reaches(c.at) /\ Reaches(c.to)
    BY <1>1 DEF Selected, Optional, Worded
  <2>3. Gap(c) <=> EndLost(c.at) \/ EndLost(c.to)
    BY <1>1 DEF Selected, Optional
  <2>4. \A p \in {c.at, c.to} : p \in Place /\ (HasSelector(p) \/ p.point # "none")
    BY <1>1
  <2> QED BY <2>1, <2>2, <2>3, <2>4
<1>2. CASE c.op \in {"mouse_move", "mouse_click"}
  BY <1>2 DEF Selected, Optional, Worded, Sees
<1>3. CASE c.op \in Selected \cup Optional
  BY <1>3 DEF Selected, Optional, Worded, HasSelector, Locates
<1>4. CASE c.op \notin Selected \cup Optional \cup Pointed
  BY <1>4 DEF Pointed
<1> QED BY <1>1, <1>2, <1>3, <1>4 DEF Pointed

LEMMA InitOK == Init => IInv
  BY SubmissionAssumption DEF Init, IInv, TypeOK

LEMMA NextKeeps == IInv /\ [Next]_vars => IInv'
<1> SUFFICES ASSUME IInv, [Next]_vars PROVE IInv'
  OBVIOUS
<1>1. CASE Validate
  BY <1>1 DEF Validate, IInv, TypeOK, Failed
<1>2. CASE Execute
  <2>1. PICK o \in Outcomes(Current) :
          /\ results' = Append(results, o)
          /\ stage' = IF o = "ok" \/ Current.soft THEN stage ELSE "FAILED"
    BY <1>2 DEF Execute
  <2>2. o \in Codes
    BY <2>1 DEF Outcomes, PageCodes, RefusalCode, Codes
  <2>3. stage = "running" /\ task' = task /\ Len(results) < Len(task)
    BY <1>2 DEF Execute
  <2>4. PICK n \in Nat : n = Len(results) + 1
    BY DEF IInv, TypeOK
  <2>5. /\ Len(results') = n /\ results' \in Seq(Codes) /\ results'[n] = o
        /\ \A i \in 1..n - 1 : results'[i] = results[i]
    BY <2>1, <2>2, <2>4 DEF IInv, TypeOK
  <2>6. TypeOK'
    BY <2>1, <2>3, <2>4, <2>5 DEF IInv, TypeOK
  <2>7. \A i \in 1..n : results'[i] \in Outcomes(task[i])
    BY <2>1, <2>4, <2>5 DEF IInv, TypeOK, Current
  <2>8. \A i \in 1..n - 1 : ~Failed(i)'
    BY <2>3, <2>4, <2>5 DEF IInv, TypeOK, Failed
  <2>9. Failed(n)' <=> (o # "ok" /\ ~Current.soft)
    BY <2>3, <2>4, <2>5 DEF Failed, Current
  <2>10. stage' \in {"running", "FAILED"} /\ (stage' = "FAILED" <=> (o # "ok" /\ ~Current.soft))
    BY <2>1, <2>3
  <2>11. \A i \in 1..Len(task) : Accepts(task[i])
    BY <2>3 DEF IInv
  <2>12. stage' = "FAILED" => \A i \in 1..n : Failed(i)' <=> i = n
    BY <2>8, <2>9, <2>10
  <2>13. stage' = "running" => \A i \in 1..n : ~Failed(i)'
    BY <2>8, <2>9, <2>10
  <2>14. results' # <<>>
    BY <2>4, <2>5
  <2> QED BY <2>3, <2>5, <2>6, <2>7, <2>10, <2>11, <2>12, <2>13, <2>14 DEF IInv
<1>3. CASE Complete
  BY <1>3 DEF Complete, IInv, TypeOK, Failed
<1>4. CASE UNCHANGED vars
  BY <1>4 DEF vars, IInv, TypeOK, Failed
<1> QED BY <1>1, <1>2, <1>3, <1>4 DEF Next

LEMMA Invariance == Spec => []IInv
  BY InitOK, NextKeeps, PTL DEF Spec

\* Of the commands of a task the service accepted, the worker turns down those
\* that have a gap, and no other, for any commands in any order.
THEOREM RulesTheorem == Spec => []AcceptedRuns
<1>1. IInv => AcceptedRuns
  <2> SUFFICES ASSUME IInv, NEW i \in 1..Len(results)
               PROVE  results[i] \in {"validation_failed", "unsupported_operation"} <=> Gap(task[i])
    BY DEF AcceptedRuns
  <2>1. i \in 1..Len(task) /\ task[i] \in Command /\ results[i] \in Outcomes(task[i])
    BY DEF IInv, TypeOK
  <2>2. Accepts(task[i])
    BY <2>1 DEF IInv
  <2>3. Runs(task[i]) <=> ~Gap(task[i])
    BY <2>1, <2>2, RulesAgree
  <2> QED BY <2>1, <2>3 DEF Outcomes, PageCodes, RefusalCode
<1> QED BY <1>1, Invariance, PTL

\* A task fails with its first failure that may not be skipped and runs nothing
\* after it, and one that succeeds has run all its commands.
THEOREM EndTheorem == Spec => []EndsAsCommands
<1>1. IInv => EndsAsCommands
  <2> SUFFICES ASSUME IInv PROVE EndsAsCommands
    OBVIOUS
  <2>1. stage = "FAILED" => {i \in 1..Len(results) : Failed(i)} = {Len(results)}
    BY DEF IInv, TypeOK
  <2>2. stage \in {"running", "SUCCEEDED"} => {i \in 1..Len(results) : Failed(i)} = {}
    BY DEF IInv
  <2> QED BY <2>1, <2>2 DEF EndsAsCommands, Failed, IInv
<1> QED BY <1>1, Invariance, PTL

==============================================================================
