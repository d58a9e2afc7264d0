------------------------------ MODULE MemoryList ------------------------------
(***************************************************************************)
(* ListSessions and ListTasks of the in-memory store (app/memory_session.go *)
(* and memory_task.go), which stand in for postgres: the rows sorted in    *)
(* memory, a slice of them and the token of the next slice. They are       *)
(* sorted by the nanoseconds of their times. The rows a filter selects are *)
(* the same here and there: limits on created_at, which memory compares by *)
(* the nanosecond as well, are not among the filters.                      *)
(***************************************************************************)
EXTENDS ListWalk, Sequences

\* sort.Slice leaves one order, for no two rows have one id.
MemoryRows ==
  CHOOSE s \in [1..Cardinality(shown) -> shown] :
    \A i, j \in DOMAIN s : i < j => NewerBy(1, s[i], s[j])

\* Mutant of MemoryEnd: the slice that reaches the end of the list is cut short.
MemoryEndShort(rows, o) == IF o + PageSize >= Len(rows) THEN Len(rows) - 1 ELSE o + PageSize

MemoryEnd(rows, o) == IF o + PageSize > Len(rows) THEN Len(rows) ELSE o + PageSize

\* A page and its token, 0 for none: offset 0 is the empty token.
MemoryPage(rows, o) ==
  IF o >= Len(rows) THEN [rows |-> {}, next |-> 0]
  ELSE [rows |-> {rows[i] : i \in o + 1 .. MemoryEnd(rows, o)},
        next |-> IF MemoryEnd(rows, o) < Len(rows) THEN MemoryEnd(rows, o) ELSE 0]

PostgresPage(o) ==
  [rows |-> PageRows(o), next |-> IF HasMore(o) THEN o + PageSize ELSE 0]

\* Two rows of one microsecond, created or updated in an order their ids do not
\* follow: memory lists the later one first, postgres the one with the lower id.
Swapped(q, r) ==
  /\ In(Resolution, stamp[q]) = In(Resolution, stamp[r])
  /\ NewerBy(1, q, r) # NewerBy(Resolution, q, r)

\* Whatever the rows, their times and the offset, both stores answer with the
\* same token, and a row is on the same page of both unless it is swapped with
\* another row. That is all a page seen of one store leaves open for the other.
StoresAgree ==
  LET sorted == MemoryRows
  IN \A o \in 0 .. Cardinality(Rows) + 1 :
       LET mine == MemoryPage(sorted, o)
           theirs == PostgresPage(o)
       IN /\ mine.next = theirs.next
          /\ \A r \in shown :
               \/ r \in mine.rows <=> r \in theirs.rows
               \/ \E q \in shown : Swapped(q, r)

==============================================================================
