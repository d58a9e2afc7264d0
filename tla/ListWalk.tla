------------------------------- MODULE ListWalk -------------------------------
(***************************************************************************)
(* A client walks through a list page by page while rows are written: the  *)
(* sessions in the order of their updates, or the tasks that match a       *)
(* filter in the order of their creation (session_list_repository.go and   *)
(* task_list_repository.go of the postgres repository, core/pagination.go, *)
(* ListBrowserSessions). A page token is an offset into the list as it is  *)
(* when the page is asked for.                                             *)
(*                                                                         *)
(* A handler takes the time of its write before it writes: what it stores  *)
(* may be older than what is there. A list of sessions writes too: it      *)
(* expires the sessions of the page it has read, and fails with the first  *)
(* one it cannot write. Rows are their ids, times are nanoseconds: those a *)
(* handler takes, of which postgres orders the rows by the microseconds.   *)
(***************************************************************************)
EXTENDS Naturals, FiniteSets

CONSTANTS
  Rows,            \* ids of sessions, or of tasks
  NoRow,
  Writers,         \* handlers that create and update rows
  Lister,          \* the handler that lists
  RequestedSize,   \* page_size of the requests
  DefaultPageSize, \* 50
  MaxPageSize,     \* 200
  Resolution,      \* nanoseconds of a microsecond
  MaxTime          \* bound: the last time the clock shows

ASSUME RowAssumption == Rows \subseteq Nat /\ IsFiniteSet(Rows) /\ NoRow \notin Rows
ASSUME ListerAssumption == Lister \notin Writers
ASSUME SizeAssumption ==
  /\ RequestedSize \in Nat
  /\ DefaultPageSize \in Nat \ {0} /\ MaxPageSize \in Nat \ {0}
ASSUME TimeAssumption == MaxTime \in Nat \ {0} /\ Resolution \in Nat \ {0}

Handlers == Writers \cup {Lister}

VARIABLES
  list,      \* "sessions" or "tasks"
  clock,
  stamp,     \* updated_at of a session, created_at of a task; 0 for no row
  shown,     \* the rows the filter selects, all of them for sessions
  row,       \* the row a handler is about to write,
  time,      \* and the time it took for it
  phase,     \* of the walk: idle, asking, page, done
  offset,    \* the page token
  page,      \* the rows of the page being served
  more,      \* a page follows it
  left,      \* its sessions that were not looked at yet
  seen,      \* rows of the pages the client got
  there,     \* history: rows of the list when the walk began,
  touched,   \* history: those written since,
  shrunk     \* history: a row has left the list or has gone back in it since

rowVars == <<list, clock, stamp, shown>>
handlerVars == <<row, time>>
walkVars == <<phase, offset, page, more, left, seen, there>>
vars == <<rowVars, handlerVars, walkVars, touched, shrunk>>

------------------------------------------------------------------------------

\* NormalizePageSize.
PageSize ==
  IF RequestedSize = 0 THEN DefaultPageSize
  ELSE IF RequestedSize > MaxPageSize THEN MaxPageSize ELSE RequestedSize

\* What is left of a time in units of so many nanoseconds.
In(unit, t) == t \div unit

\* Newest first, and by id what is of one time: q comes before r.
NewerBy(unit, q, r) ==
  \/ In(unit, stamp[q]) > In(unit, stamp[r])
  \/ In(unit, stamp[q]) = In(unit, stamp[r]) /\ q < r

AheadBy(unit, r) == {q \in shown : NewerBy(unit, q, r)}
PlaceBy(unit, r) == Cardinality(AheadBy(unit, r))

\* order by updated_at desc, session_id asc: timestamptz keeps microseconds.
Position(r) == PlaceBy(Resolution, r)

\* limit PageSize + 1 offset o: one row more tells whether a page follows.
Fetched(o) == {r \in shown : o <= Position(r) /\ Position(r) < o + PageSize + 1}
PageRows(o) == {r \in Fetched(o) : Position(r) < o + PageSize}
HasMore(o) == Cardinality(Fetched(o)) > PageSize

Init ==
  /\ list \in {"sessions", "tasks"}
  /\ clock = 1
  /\ stamp = [r \in Rows |-> 0]
  /\ shown = {}
  /\ row = [h \in Handlers |-> NoRow]
  /\ time = [h \in Handlers |-> 0]
  /\ phase = "idle"
  /\ offset = 0
  /\ page = {}
  /\ more = FALSE
  /\ left = {}
  /\ seen = {}
  /\ there = {}
  /\ touched = {}
  /\ shrunk = FALSE

------------------------------------------------------------------------------
(* Writers.                                                                *)

Clock ==
  /\ clock < MaxTime
  /\ clock' = clock + 1
  /\ UNCHANGED <<list, stamp, shown, handlerVars, walkVars, touched, shrunk>>

Takes(h, r) ==
  /\ row[h] = NoRow
  /\ row' = [row EXCEPT ![h] = r]
  /\ time' = [time EXCEPT ![h] = clock]

\* A handler sets created_at of a new row, or updated_at of a session it read.
Take(w, r) ==
  /\ Takes(w, r)
  /\ \/ stamp[r] = 0 /\ \A h \in Handlers : row[h] # r
     \/ stamp[r] # 0 /\ list = "sessions"
  /\ UNCHANGED <<rowVars, walkVars, touched, shrunk>>

Forgets(h) ==
  /\ row' = [row EXCEPT ![h] = NoRow]
  /\ time' = [time EXCEPT ![h] = 0]

\* The write of handler h, after which the rows in to are shown.
Stores(h, to) ==
  /\ stamp' = [stamp EXCEPT ![row[h]] = time[h]]
  /\ shown' = to
  /\ Forgets(h)
  /\ touched' = touched \cup {row[h]}
  /\ shrunk' = (shrunk \/ (row[h] \in shown /\ In(Resolution, time[h]) < In(Resolution, stamp[row[h]])))
  /\ UNCHANGED <<list, clock>>

\* The insert or the blind update. A new task matches the filter, or does not.
Save(w) ==
  /\ row[w] # NoRow
  /\ \/ Stores(w, shown \cup {row[w]})
     \/ list = "tasks" /\ Stores(w, shown)
  /\ UNCHANGED walkVars

\* The status of a task changes, and with it whether the filter selects it.
Restatus(r) ==
  /\ list = "tasks"
  /\ stamp[r] # 0
  /\ \/ shown' = shown \cup {r} /\ UNCHANGED shrunk
     \/ shown' = shown \ {r} /\ shrunk' = TRUE
  /\ touched' = touched \cup {r}
  /\ UNCHANGED <<list, clock, stamp, handlerVars, walkVars>>

------------------------------------------------------------------------------
(* The walk.                                                               *)

Begin ==
  /\ phase = "idle"
  /\ phase' = "asking"
  /\ there' = shown
  /\ touched' = {}
  /\ shrunk' = FALSE
  /\ UNCHANGED <<rowVars, handlerVars, offset, page, more, left, seen>>

\* The query. The sessions of the page are then looked at for their ttl.
Read ==
  /\ phase = "asking"
  /\ phase' = "page"
  /\ page' = PageRows(offset)
  /\ more' = HasMore(offset)
  /\ left' = IF list = "sessions" THEN PageRows(offset) ELSE {}
  /\ UNCHANGED <<rowVars, handlerVars, offset, seen, there, touched, shrunk>>

\* expireSessionIfNeeded: the session as it was read has not expired, or is final.
Keep(r) ==
  /\ phase = "page" /\ row[Lister] = NoRow
  /\ r \in left
  /\ left' = left \ {r}
  /\ UNCHANGED <<rowVars, handlerVars, phase, offset, page, more, seen, there, touched, shrunk>>

\* Its ttl has passed: the time is taken before its browser is stopped.
Expire(r) ==
  /\ phase = "page"
  /\ r \in left
  /\ Takes(Lister, r)
  /\ left' = left \ {r}
  /\ UNCHANGED <<rowVars, phase, offset, page, more, seen, there, touched, shrunk>>

Expired ==
  /\ row[Lister] # NoRow
  /\ Stores(Lister, shown)
  /\ UNCHANGED walkVars

\* Its row cannot be written: the whole list fails. The client asks again with
\* the token it has.
Fails ==
  /\ row[Lister] # NoRow
  /\ Forgets(Lister)
  /\ phase' = "asking"
  /\ left' = {}
  /\ UNCHANGED <<rowVars, offset, page, more, seen, there, touched, shrunk>>

\* Mutant of Return: the token counts the row that was fetched in excess.
ReturnAfterFetched ==
  /\ phase = "page" /\ left = {} /\ row[Lister] = NoRow
  /\ seen' = seen \cup page
  /\ phase' = IF more THEN "asking" ELSE "done"
  /\ offset' = IF more THEN offset + PageSize + 1 ELSE offset
  /\ page' = {}
  /\ UNCHANGED <<rowVars, handlerVars, more, left, there, touched, shrunk>>

\* PageToken(offset + PageSize) when a page follows.
Return ==
  /\ phase = "page" /\ left = {} /\ row[Lister] = NoRow
  /\ seen' = seen \cup page
  /\ phase' = IF more THEN "asking" ELSE "done"
  /\ offset' = IF more THEN offset + PageSize ELSE offset
  /\ page' = {}
  /\ UNCHANGED <<rowVars, handlerVars, more, left, there, touched, shrunk>>

Next ==
  \/ Clock
  \/ \E w \in Writers : Save(w) \/ \E r \in Rows : Take(w, r)
  \/ \E r \in Rows : Restatus(r) \/ Keep(r) \/ Expire(r)
  \/ Begin \/ Read \/ Expired \/ Fails \/ Return

Spec == Init /\ [][Next]_vars

------------------------------------------------------------------------------
(* Properties.                                                             *)

\* A walk that came to its end has shown every row that was in the list when it
\* began and was not written since, although pages are offsets and the list
\* moves under them: rows only move towards pages that were served. Two things
\* break it: a write whose time is older than the row's, which moves the row
\* back, and a task that no longer matches the filter.
UntouchedListed ==
  phase = "done" /\ ~shrunk => there \ touched \subseteq seen

\* A walk during which nothing is written shows every row, and none twice: the
\* pages meet without a gap or an overlap, also after a page that failed.
StillWalk ==
  touched = {} =>
    /\ phase = "page" => page \cap seen = {}
    /\ phase = "done" => seen = shown

==============================================================================
