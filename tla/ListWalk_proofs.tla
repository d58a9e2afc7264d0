---------------------------- MODULE ListWalk_proofs ----------------------------
(***************************************************************************)
(* A walk through a list misses no row that nobody wrote, for any rows, any *)
(* number of writers and any size of a page. Two arguments meet: the place *)
(* of a row that is not written can only grow (MovesBack), and the places  *)
(* of the rows are 0 .. n - 1, one row at each (PlacesTaken), so that a    *)
(* page that says no other follows has reached the end of the list.        *)
(***************************************************************************)
EXTENDS MemoryList, FiniteSetTheorems, TLAPS

TypeOK ==
  /\ list \in {"sessions", "tasks"}
  /\ clock \in Nat
  /\ stamp \in [Rows -> Nat]
  /\ shown \subseteq Rows
  /\ row \in [Handlers -> Rows \cup {NoRow}]
  /\ time \in [Handlers -> Nat]
  /\ phase \in {"idle", "asking", "page", "done"}
  /\ offset \in Nat
  /\ there \subseteq Rows

\* Rows the client may not miss: they were there and were not written.
Owed == there \ touched

WalkOK ==
  /\ row[Lister] # NoRow => phase = "page"
  /\ phase = "idle" => offset = 0
  /\ phase # "idle" /\ ~shrunk => Owed \subseteq shown
  /\ phase \in {"asking", "page"} /\ ~shrunk =>
       \A r \in Owed \ seen : offset <= Position(r)
  /\ phase = "page" /\ ~shrunk =>
       \A r \in Owed \ (seen \cup page) : more /\ offset + PageSize <= Position(r)
  /\ phase = "done" /\ ~shrunk => Owed \subseteq seen

IInv == TypeOK /\ WalkOK

------------------------------------------------------------------------------
(* The order of the rows and their places.                                 *)

LEMMA PageSizeType == PageSize \in Nat \ {0}
  BY SizeAssumption DEF PageSize

Units == Nat \ {0}

LEMMA ResolutionType == Resolution \in Units
  BY TimeAssumption DEF Units

LEMMA InType ==
  ASSUME NEW u \in Units, NEW s \in Nat, NEW t \in Nat
  PROVE  In(u, s) \in Nat /\ (s <= t => In(u, s) <= In(u, t))
  BY DEF In, Units

\* In every unit the rows are totally ordered.
LEMMA NewerOrders ==
  ASSUME TypeOK, NEW u \in Units, NEW p \in Rows, NEW q \in Rows, NEW r \in Rows
  PROVE  /\ ~NewerBy(u, q, q)
         /\ NewerBy(u, q, r) => ~NewerBy(u, r, q)
         /\ NewerBy(u, p, q) /\ NewerBy(u, q, r) => NewerBy(u, p, r)
         /\ q # r => NewerBy(u, q, r) \/ NewerBy(u, r, q)
<1>1. p \in Nat /\ q \in Nat /\ r \in Nat
  BY RowAssumption
<1>2. /\ In(u, stamp[p]) \in Nat
      /\ In(u, stamp[q]) \in Nat
      /\ In(u, stamp[r]) \in Nat
  BY InType DEF TypeOK
<1> QED BY <1>1, <1>2 DEF NewerBy

\* A place is a number, smaller than the number of rows.
LEMMA PlaceType ==
  ASSUME TypeOK, NEW u \in Units, NEW r \in Rows
  PROVE  /\ AheadBy(u, r) \subseteq shown /\ IsFiniteSet(shown)
         /\ IsFiniteSet(AheadBy(u, r)) /\ PlaceBy(u, r) \in Nat
         /\ r \in shown => PlaceBy(u, r) < Cardinality(shown)
<1> DEFINE ahead == AheadBy(u, r)
<1>1. IsFiniteSet(shown) /\ ahead \subseteq shown
  BY RowAssumption, FS_Subset DEF TypeOK, AheadBy
<1>2. r \notin ahead
  BY NewerOrders DEF AheadBy
<1> HIDE DEF ahead
<1>3. IsFiniteSet(ahead) /\ Cardinality(ahead) <= Cardinality(shown)
  BY <1>1, FS_Subset
<1>4. Cardinality(ahead) \in Nat /\ Cardinality(shown) \in Nat
  BY <1>1, <1>3, FS_CardinalityType
<1>5. r \in shown => Cardinality(ahead) # Cardinality(shown)
  BY <1>1, <1>2, FS_Subset
<1> QED BY <1>1, <1>3, <1>4, <1>5 DEF PlaceBy, ahead

LEMMA PositionType ==
  ASSUME TypeOK, NEW r \in Rows
  PROVE  Position(r) \in Nat /\ (r \in shown => Position(r) < Cardinality(shown))
  BY ResolutionType, PlaceType DEF Position

\* Of two rows, the one ahead has the smaller place.
LEMMA PlaceGrows ==
  ASSUME TypeOK, NEW u \in Units, NEW q \in shown, NEW r \in shown, NewerBy(u, q, r)
  PROVE  PlaceBy(u, q) < PlaceBy(u, r)
<1>1. q \in Rows /\ r \in Rows /\ shown \subseteq Rows
  BY DEF TypeOK
<1>2. AheadBy(u, q) \subseteq AheadBy(u, r)
  <2> SUFFICES ASSUME NEW p \in shown, NewerBy(u, p, q) PROVE NewerBy(u, p, r)
    BY DEF AheadBy
  <2> QED BY <1>1, NewerOrders
<1>3. q \in AheadBy(u, r) /\ q \notin AheadBy(u, q)
  BY <1>1, NewerOrders DEF AheadBy
<1>4. IsFiniteSet(AheadBy(u, r)) /\ PlaceBy(u, q) \in Nat /\ PlaceBy(u, r) \in Nat
  BY <1>1, PlaceType
<1>5. PlaceBy(u, q) <= PlaceBy(u, r) /\ PlaceBy(u, q) # PlaceBy(u, r)
  BY <1>2, <1>3, <1>4, FS_Subset DEF PlaceBy
<1> QED BY <1>4, <1>5

LEMMA PlacesDiffer ==
  ASSUME TypeOK, NEW u \in Units, NEW q \in shown, NEW r \in shown, q # r
  PROVE  PlaceBy(u, q) # PlaceBy(u, r)
<1>1. q \in Rows /\ r \in Rows
  BY DEF TypeOK
<1>2. NewerBy(u, q, r) \/ NewerBy(u, r, q)
  BY <1>1, NewerOrders
<1>3. PlaceBy(u, q) \in Nat /\ PlaceBy(u, r) \in Nat
  BY <1>1, PlaceType
<1>4. CASE NewerBy(u, q, r)
  BY <1>3, <1>4, PlaceGrows
<1>5. CASE NewerBy(u, r, q)
  BY <1>3, <1>5, PlaceGrows
<1> QED BY <1>2, <1>4, <1>5

\* The pigeonhole: n rows with n different places below n leave no place free.
LEMMA PlacesTaken ==
  ASSUME TypeOK, NEW u \in Units, NEW k \in Nat, k < Cardinality(shown)
  PROVE  \E r \in shown : PlaceBy(u, r) = k
<1> DEFINE n == Cardinality(shown)
           places == [r \in shown |-> PlaceBy(u, r)]
<1>1. IsFiniteSet(shown) /\ n \in Nat
  BY RowAssumption, FS_Subset, FS_CardinalityType DEF TypeOK
<1>2. \A r \in shown : PlaceBy(u, r) \in 0 .. n - 1
  <2> TAKE r \in shown
  <2>1. r \in Rows
    BY DEF TypeOK
  <2> QED BY <1>1, <2>1, PlaceType
<1>3. places \in Injection(shown, 0 .. n - 1)
  <2>1. places \in [shown -> 0 .. n - 1]
    BY <1>2
  <2>2. \A q, r \in shown : places[q] = places[r] => q = r
    BY PlacesDiffer
  <2> QED BY <2>1, <2>2 DEF Injection, IsInjective
<1>4. IsFiniteSet(0 .. n - 1) /\ Cardinality(0 .. n - 1) = n
  <2> HIDE DEF n
  <2>1. n - 1 \in Int /\ n \in Nat
    BY <1>1
  <2>2. IsFiniteSet(0 .. n - 1) /\ Cardinality(0 .. n - 1) = IF 0 > n - 1 THEN 0 ELSE n - 1 - 0 + 1
    BY <2>1, FS_Interval
  <2> QED BY <2>1, <2>2
<1>5. places \in Surjection(shown, 0 .. n - 1)
  BY <1>3, <1>4, FS_Injection
<1>6. \A t \in 0 .. n - 1 : \E r \in shown : places[r] = t
  BY <1>5 DEF Surjection
<1> QED BY <1>1, <1>6

\* When a row lies beyond the page, the page is full and one row more is fetched.
LEMMA MoreFollow ==
  ASSUME TypeOK, NEW o \in Nat, NEW r \in shown, o + PageSize <= Position(r)
  PROVE  HasMore(o)
<1> DEFINE window == o .. o + PageSize
           rows == Fetched(o)
           places == [q \in rows |-> Position(q)]
<1>1. r \in Rows /\ rows \subseteq shown /\ shown \subseteq Rows /\ o \in Nat
  BY DEF TypeOK, Fetched
<1>2. IsFiniteSet(shown) /\ Cardinality(shown) \in Nat /\ IsFiniteSet(rows)
  BY <1>1, PlaceType, ResolutionType, FS_CardinalityType, FS_Subset
<1>3. Position(r) \in Nat /\ Position(r) < Cardinality(shown)
  BY <1>1, PositionType
<1>4. \A q \in rows : Position(q) \in window
  <2> TAKE q \in rows
  <2>1. Position(q) \in Nat
    BY <1>1, PositionType
  <2> QED BY <2>1, <1>1, PageSizeType DEF Fetched
<1>5. \A t \in window : \E q \in rows : Position(q) = t
  <2> TAKE t \in window
  <2>1. t \in Nat /\ t < Cardinality(shown)
    BY <1>1, <1>2, <1>3, PageSizeType
  <2>2. PICK q \in shown : Position(q) = t
    BY <2>1, PlacesTaken, ResolutionType DEF Position
  <2>3. q \in rows
    BY <2>1, <2>2, <1>1, PageSizeType DEF Fetched
  <2> QED BY <2>2, <2>3
<1>6. places \in Surjection(rows, window)
  BY <1>4, <1>5 DEF Surjection
<1>7. Cardinality(window) <= Cardinality(rows)
  BY <1>2, <1>6, FS_Surjection
<1>8. Cardinality(window) = PageSize + 1 /\ Cardinality(rows) \in Nat
  BY <1>1, <1>2, PageSizeType, FS_Interval, FS_CardinalityType
<1> QED BY <1>7, <1>8, PageSizeType DEF HasMore

------------------------------------------------------------------------------
(* A write that does not take a row out of its place.                      *)

\* What a writer does to the list as long as nothing shrinks: rows that are
\* not written stay, and every row that was ahead of them still is.
Written ==
  /\ TypeOK'
  /\ UNCHANGED <<phase, offset, page, more, seen, there>>
  /\ row'[Lister] # NoRow => phase = "page"
  /\ touched \subseteq touched'
  /\ ~shrunk' =>
       /\ ~shrunk
       /\ shown \subseteq shown'
       /\ \A r \in Rows \ touched' :
            AheadBy(Resolution, r) \subseteq AheadBy(Resolution, r)'

LEMMA MovesBack ==
  ASSUME TypeOK, Written, ~shrunk', NEW r \in Rows, r \notin touched'
  PROVE  Position(r) <= Position(r)'
<1> DEFINE ahead == AheadBy(Resolution, r)
<1>1. ahead \subseteq ahead'
  BY DEF Written
<1>2. IsFiniteSet(ahead')
  <2>1. IsFiniteSet(shown')
    BY RowAssumption, FS_Subset DEF Written, TypeOK
  <2>2. ahead' \subseteq shown'
    BY DEF AheadBy
  <2> QED BY <2>1, <2>2, FS_Subset
<1>3. Cardinality(ahead) <= Cardinality(ahead')
  <2> HIDE DEF ahead
  <2> QED BY <1>1, <1>2, FS_Subset
<1> QED BY <1>3 DEF Position, PlaceBy

LEMMA WrittenKeeps == IInv /\ Written => IInv'
<1> SUFFICES ASSUME IInv, Written PROVE WalkOK'
  BY DEF IInv, Written
<1> SUFFICES ASSUME ~shrunk', phase # "idle" PROVE WalkOK'
  BY DEF IInv, WalkOK, Written
<1>1. Owed' \subseteq Owed /\ Owed' \subseteq Rows \ touched' /\ ~shrunk
  BY DEF Owed, Written, IInv, TypeOK
<1>2. \A r \in Owed' : Position(r) \in Nat /\ Position(r)' \in Nat /\ Position(r) <= Position(r)'
  <2> TAKE r \in Owed'
  <2>1. r \in Rows /\ r \notin touched'
    BY <1>1
  <2>2. Position(r) <= Position(r)'
    BY <2>1, MovesBack DEF IInv
  <2>3. Position(r) \in Nat
    BY <2>1, PositionType DEF IInv
  <2>4. Position(r)' \in Nat
    <3>1. IsFiniteSet(shown') /\ AheadBy(Resolution, r)' \subseteq shown'
      BY RowAssumption, FS_Subset DEF Written, TypeOK, AheadBy
    <3> QED BY <3>1, FS_Subset, FS_CardinalityType DEF Position, PlaceBy
  <2> QED BY <2>2, <2>3, <2>4
<1>3. Owed' \subseteq shown'
  BY <1>1 DEF Written, IInv, WalkOK
<1>4. offset \in Nat /\ PageSize \in Nat /\ PageSize' = PageSize
  BY PageSizeType DEF IInv, TypeOK, PageSize
<1>5. ASSUME phase \in {"asking", "page"}, NEW r \in Owed' \ seen PROVE offset <= Position(r)'
  BY <1>1, <1>2, <1>4, <1>5 DEF IInv, WalkOK
<1>6. ASSUME phase = "page", NEW r \in Owed' \ (seen \cup page)
      PROVE  more /\ offset + PageSize <= Position(r)'
  <2>1. more /\ offset + PageSize <= Position(r)
    BY <1>1, <1>6 DEF IInv, WalkOK
  <2> QED BY <1>2, <1>4, <2>1
<1>7. phase = "done" => Owed' \subseteq seen
  BY <1>1 DEF IInv, WalkOK
<1>8. /\ phase' = phase /\ seen' = seen /\ page' = page /\ more' = more
      /\ offset' = offset
  BY DEF Written
<1>9. row'[Lister] # NoRow => phase = "page"
  BY DEF Written
<1> QED BY <1>3, <1>4, <1>5, <1>6, <1>7, <1>8, <1>9 DEF WalkOK

LEMMA StoresWrite ==
  ASSUME TypeOK, NEW h \in Handlers, row[h] # NoRow, NEW to,
         shown \subseteq to, to \subseteq Rows, Stores(h, to), UNCHANGED walkVars,
         row[Lister] # NoRow => phase = "page"
  PROVE  Written
<1>1. row[h] \in Rows /\ time[h] \in Nat
  BY DEF TypeOK
<1>2. TypeOK'
  BY <1>1 DEF TypeOK, Stores, Forgets, walkVars
<1>3. ASSUME ~shrunk', NEW r \in Rows \ touched'
      PROVE  AheadBy(Resolution, r) \subseteq AheadBy(Resolution, r)'
  <2> SUFFICES ASSUME NEW q \in shown, NewerBy(Resolution, q, r)
               PROVE  q \in shown' /\ NewerBy(Resolution, q, r)'
    BY DEF AheadBy
  <2> DEFINE micros(s) == In(Resolution, s)
  <2>1. r \in Rows /\ r # row[h] /\ q \in Rows /\ stamp[q] \in Nat /\ stamp[r] \in Nat
    BY DEF Stores, TypeOK
  <2>2. stamp'[r] = stamp[r]
    BY <2>1, <1>1 DEF Stores, TypeOK
  <2>3. stamp'[q] \in Nat /\ ~(micros(stamp'[q]) < micros(stamp[q]))
    <3>1. stamp' = [stamp EXCEPT ![row[h]] = time[h]] /\ stamp \in [Rows -> Nat]
      BY DEF Stores, TypeOK
    <3>2. CASE q = row[h]
      <4>1. ~(micros(time[h]) < micros(stamp[q]))
        BY <1>3, <3>2 DEF Stores
      <4> QED BY <1>1, <2>1, <3>1, <3>2, <4>1
    <3>3. CASE q # row[h]
      <4>1. stamp'[q] = stamp[q] /\ micros(stamp[q]) \in Nat
        BY <2>1, <3>1, <3>3, ResolutionType, InType
      <4> QED BY <2>1, <4>1
    <3> QED BY <3>2, <3>3
  <2>4. micros(stamp[q]) \in Nat /\ micros(stamp'[q]) \in Nat /\ micros(stamp[r]) \in Nat
    BY <2>1, <2>3, ResolutionType, InType
  <2>5. q \in Nat /\ r \in Nat /\ q \in shown'
    BY <2>1, RowAssumption DEF Stores
  <2> QED BY <2>2, <2>3, <2>4, <2>5 DEF NewerBy
<1>4. row'[Lister] # NoRow => row[Lister] # NoRow
  BY DEF Stores, Forgets, TypeOK, Handlers
<1> QED BY <1>2, <1>3, <1>4 DEF Stores, Written, walkVars

LEMMA RestatusWrites ==
  ASSUME TypeOK, NEW r \in Rows, Restatus(r), row[Lister] # NoRow => phase = "page"
  PROVE  Written
<1>1. TypeOK'
  BY DEF TypeOK, Restatus, handlerVars, walkVars
<1>2. ASSUME shown \subseteq shown', NEW s
      PROVE  AheadBy(Resolution, s) \subseteq AheadBy(Resolution, s)'
  BY <1>2 DEF Restatus, AheadBy, NewerBy
<1>3. touched \subseteq touched' /\ UNCHANGED <<walkVars, row>>
  BY DEF Restatus, handlerVars
<1>4. ~shrunk' => ~shrunk /\ shown \subseteq shown'
  BY DEF Restatus
<1> QED BY <1>1, <1>2, <1>3, <1>4 DEF Written, walkVars

\* The steps that write no row.
LEMMA QuietWrites ==
  ASSUME TypeOK',
         UNCHANGED <<stamp, shown, phase, offset, page, more, seen, there, touched, shrunk>>,
         row'[Lister] # NoRow => phase = "page"
  PROVE  Written
  BY DEF Written, AheadBy, NewerBy

------------------------------------------------------------------------------
(* The steps of the walk.                                                  *)

LEMMA SamePlaces ==
  ASSUME UNCHANGED <<stamp, shown>>, NEW r
  PROVE  Position(r)' = Position(r)
  BY DEF Position, PlaceBy, AheadBy, NewerBy

LEMMA BeginKeeps == IInv /\ Begin => IInv'
<1> SUFFICES ASSUME IInv, Begin PROVE IInv'
  OBVIOUS
<1>1. TypeOK'
  BY DEF IInv, TypeOK, Begin, rowVars, handlerVars
<1>2. Owed' = shown /\ shown' = shown /\ offset' = 0
  BY DEF Begin, Owed, rowVars, IInv, WalkOK
<1>3. \A r \in shown : Position(r)' \in Nat
  <2> TAKE r \in shown
  <2>1. Position(r) \in Nat
    BY PositionType DEF IInv, TypeOK
  <2> QED BY <2>1, SamePlaces DEF Begin, rowVars
<1>4. row'[Lister] = NoRow
  BY DEF Begin, handlerVars, IInv, WalkOK
<1>5. WalkOK'
  BY <1>2, <1>3, <1>4 DEF Begin, WalkOK
<1> QED BY <1>1, <1>5 DEF IInv

LEMMA ReadKeeps == IInv /\ Read => IInv'
<1> SUFFICES ASSUME IInv, Read PROVE IInv'
  OBVIOUS
<1>1. TypeOK'
  BY DEF IInv, TypeOK, Read, rowVars, handlerVars
<1>2. Owed' = Owed
  BY DEF Read, Owed
<1>3. ASSUME ~shrunk, NEW r \in Owed \ (seen \cup page')
      PROVE  more' /\ offset + PageSize <= Position(r)
  <2>1. r \in shown /\ offset <= Position(r)
    BY <1>3 DEF IInv, WalkOK, Read
  <2>2. Position(r) \in Nat /\ offset \in Nat
    BY <2>1, PositionType DEF IInv, TypeOK
  <2>3. r \notin PageRows(offset)
    BY <1>3 DEF Read
  <2>4. offset + PageSize <= Position(r)
    BY <2>1, <2>2, <2>3, PageSizeType DEF PageRows, Fetched
  <2> QED BY <2>1, <2>2, <2>4, MoreFollow DEF IInv, Read
<1>4. WalkOK'
  <2>1. /\ phase = "asking" /\ phase' = "page" /\ shrunk' = shrunk /\ shown' = shown
        /\ seen' = seen /\ offset' = offset /\ row' = row
    BY DEF Read, rowVars, handlerVars
  <2>2. \A r : Position(r)' = Position(r)
    BY SamePlaces DEF Read, rowVars
  <2>3. PageSize' = PageSize
    BY DEF PageSize
  <2>4. ~shrunk => Owed \subseteq shown /\ \A r \in Owed \ seen : offset <= Position(r)
    BY <2>1 DEF IInv, WalkOK
  <2> QED BY <1>2, <1>3, <2>1, <2>2, <2>3, <2>4 DEF WalkOK
<1> QED BY <1>1, <1>4 DEF IInv

LEMMA ReturnKeeps == IInv /\ Return => IInv'
<1> SUFFICES ASSUME IInv, Return PROVE IInv'
  OBVIOUS
<1>1. TypeOK'
  BY PageSizeType DEF IInv, TypeOK, Return, rowVars, handlerVars
<1>2. Owed' = Owed
  BY DEF Return, Owed
<1>3. /\ phase = "page" /\ shrunk' = shrunk /\ shown' = shown
      /\ seen' = seen \cup page /\ row'[Lister] = NoRow
      /\ phase' = IF more THEN "asking" ELSE "done"
      /\ offset' = IF more THEN offset + PageSize ELSE offset
  BY DEF Return, rowVars, handlerVars
<1>4. ~shrunk => \A r \in Owed \ (seen \cup page) : more /\ offset + PageSize <= Position(r)
  BY <1>3 DEF IInv, WalkOK
<1>5. \A r : Position(r)' = Position(r)
  BY SamePlaces DEF Return, rowVars
<1>6. ~shrunk => Owed \subseteq shown
  BY <1>3 DEF IInv, WalkOK
<1>7. WalkOK'
  BY <1>2, <1>3, <1>4, <1>5, <1>6 DEF WalkOK
<1> QED BY <1>1, <1>7 DEF IInv

\* The page that failed is forgotten: the client asks for it again.
LEMMA FailsKeeps == IInv /\ Fails => IInv'
<1> SUFFICES ASSUME IInv, Fails PROVE IInv'
  OBVIOUS
<1>1. TypeOK' /\ row'[Lister] = NoRow
  BY DEF IInv, TypeOK, Fails, Forgets, rowVars, Handlers
<1>2. Owed' = Owed
  BY DEF Fails, Owed
<1>3. /\ phase = "page" /\ phase' = "asking" /\ shrunk' = shrunk /\ shown' = shown
      /\ seen' = seen /\ offset' = offset
  BY DEF IInv, WalkOK, Fails, rowVars
<1>4. \A r : Position(r)' = Position(r)
  BY SamePlaces DEF Fails, rowVars
<1>5. ~shrunk => Owed \subseteq shown /\ \A r \in Owed \ seen : offset <= Position(r)
  BY <1>3 DEF IInv, WalkOK
<1> QED BY <1>1, <1>2, <1>3, <1>4, <1>5 DEF IInv, WalkOK

LEMMA InitOK == Init => IInv
<1> SUFFICES ASSUME Init PROVE IInv
  OBVIOUS
<1>1. TypeOK
  BY DEF Init, TypeOK
<1>2. row[Lister] = NoRow
  BY DEF Init, Handlers
<1> QED BY <1>1, <1>2 DEF Init, IInv, WalkOK

LEMMA NextKeeps == IInv /\ [Next]_vars => IInv'
<1> SUFFICES ASSUME IInv, [Next]_vars PROVE IInv'
  OBVIOUS
<1>1. row[Lister] # NoRow => phase = "page"
  BY DEF IInv, WalkOK
<1>2. CASE Clock
  <2>1. TypeOK'
    BY <1>2 DEF IInv, TypeOK, Clock, handlerVars, walkVars
  <2> QED BY <1>1, <1>2, <2>1, QuietWrites, WrittenKeeps DEF Clock, handlerVars, walkVars
<1>3. ASSUME NEW w \in Writers, NEW r \in Rows, Take(w, r)
      PROVE  IInv'
  <2>1. TypeOK'
    BY <1>3 DEF IInv, TypeOK, Take, Takes, rowVars, walkVars, Handlers
  <2>2. row'[Lister] = row[Lister]
    BY <1>3, ListerAssumption DEF Take, Takes, IInv, TypeOK, Handlers
  <2> QED BY <1>1, <1>3, <2>1, <2>2, QuietWrites, WrittenKeeps DEF Take, rowVars, walkVars
<1>4. ASSUME NEW h \in Handlers, NEW to, row[h] # NoRow, Stores(h, to), UNCHANGED walkVars,
             shown \subseteq to, to \subseteq Rows
      PROVE  IInv'
  BY <1>1, <1>4, StoresWrite, WrittenKeeps DEF IInv
<1>5. ASSUME NEW w \in Writers, Save(w) PROVE IInv'
  <2>1. w \in Handlers /\ row[w] \in Rows /\ shown \subseteq Rows
    BY <1>5 DEF Save, Handlers, IInv, TypeOK
  <2> QED BY <1>4, <1>5, <2>1 DEF Save
<1>6. CASE Expired
  <2>1. Lister \in Handlers /\ shown \subseteq Rows
    BY DEF Handlers, IInv, TypeOK
  <2> QED BY <1>4, <1>6, <2>1 DEF Expired
<1>7. ASSUME NEW r \in Rows, Restatus(r) PROVE IInv'
  BY <1>1, <1>7, RestatusWrites, WrittenKeeps DEF IInv
<1>8. ASSUME NEW r \in Rows, Keep(r) \/ Expire(r) PROVE IInv'
  <2>1. TypeOK' /\ phase = "page"
    BY <1>8 DEF IInv, TypeOK, Keep, Expire, Takes, rowVars, handlerVars, Handlers
  <2>2. UNCHANGED <<stamp, shown, phase, offset, page, more, seen, there, touched, shrunk>>
    BY <1>8 DEF Keep, Expire, rowVars
  <2> QED BY <2>1, <2>2, QuietWrites, WrittenKeeps
<1>9. CASE UNCHANGED vars
  <2>1. TypeOK'
    BY <1>9 DEF vars, rowVars, handlerVars, walkVars, IInv, TypeOK
  <2> QED BY <1>1, <1>9, <2>1, QuietWrites, WrittenKeeps
      DEF vars, rowVars, handlerVars, walkVars
<1> QED BY <1>2, <1>3, <1>5, <1>6, <1>7, <1>8, <1>9,
           BeginKeeps, ReadKeeps, ReturnKeeps, FailsKeeps DEF Next

LEMMA Invariance == Spec => []IInv
  BY InitOK, NextKeeps, PTL DEF Spec

\* A walk that ends has shown every row that was there when it began and was not
\* written since, unless a write took a row backwards or out of the list: for
\* any rows, any size of a page, any number of writers and any times.
THEOREM WalkTheorem == Spec => []UntouchedListed
<1>1. IInv => UntouchedListed
  BY DEF IInv, WalkOK, UntouchedListed, Owed
<1> QED BY <1>1, Invariance, PTL

------------------------------------------------------------------------------
(* The in-memory store.                                                    *)

Sorted(u, s) ==
  /\ s \in [1..Cardinality(shown) -> shown]
  /\ \A i, j \in DOMAIN s : i < j => NewerBy(u, s[i], s[j])

\* The rows in order of their places are sorted.
LEMMA SortExists ==
  ASSUME TypeOK, NEW u \in Units
  PROVE  \E s : Sorted(u, s)
<1> DEFINE n == Cardinality(shown)
           s == [i \in 1..n |-> CHOOSE r \in shown : PlaceBy(u, r) = i - 1]
<1>1. n \in Nat /\ shown \subseteq Rows
  BY RowAssumption, FS_Subset, FS_CardinalityType DEF TypeOK
<1>2. \A i \in 1..n : s[i] \in shown /\ PlaceBy(u, s[i]) = i - 1
  <2> TAKE i \in 1..n
  <2>1. i - 1 \in Nat /\ i - 1 < n
    BY <1>1
  <2> QED BY <2>1, PlacesTaken
<1>3. s \in [1..n -> shown]
  BY <1>2
<1> HIDE DEF s
<1>4. ASSUME NEW i \in 1..n, NEW j \in 1..n, i < j PROVE NewerBy(u, s[i], s[j])
  <2>1. s[i] # s[j] /\ ~(PlaceBy(u, s[j]) < PlaceBy(u, s[i]))
    BY <1>1, <1>2, <1>4
  <2>2. ~NewerBy(u, s[j], s[i])
    BY <1>2, <2>1, PlaceGrows
  <2> QED BY <1>1, <1>2, <2>1, <2>2, NewerOrders
<1> QED BY <1>3, <1>4 DEF Sorted

\* The row at index i of the sorted rows has i - 1 rows ahead of it.
LEMMA SortedPlaces ==
  ASSUME TypeOK, NEW u \in Units, NEW m, Sorted(u, m)
  PROVE  /\ \A i \in 1..Cardinality(shown) : PlaceBy(u, m[i]) = i - 1
         /\ \A r \in shown : \E i \in 1..Cardinality(shown) : m[i] = r
<1> DEFINE n == Cardinality(shown)
<1>1. n \in Nat /\ IsFiniteSet(shown) /\ shown \subseteq Rows
  BY RowAssumption, FS_Subset, FS_CardinalityType DEF TypeOK
<1>2. m \in [1..n -> shown] /\ \A i, j \in 1..n : i < j => NewerBy(u, m[i], m[j])
  BY DEF Sorted
<1>3. \A q, r \in shown : NewerBy(u, q, r) => ~NewerBy(u, r, q)
  BY <1>1, NewerOrders
<1>4. \A i, j \in 1..n : m[i] = m[j] => i = j
  <2> SUFFICES ASSUME NEW i \in 1..n, NEW j \in 1..n, m[i] = m[j], i < j PROVE FALSE
    BY <1>1
  <2> QED BY <1>2, <1>3
<1>5. m \in Surjection(1..n, shown)
  <2>1. m \in Injection(1..n, shown)
    BY <1>2, <1>4 DEF Injection, IsInjective
  <2>2. Cardinality(1..n) = n
    BY <1>1, FS_Interval
  <2> QED BY <1>1, <2>1, <2>2, FS_Injection
<1>6. \A r \in shown : \E i \in 1..n : m[i] = r
  BY <1>5 DEF Surjection
<1>7. ASSUME NEW i \in 1..n PROVE PlaceBy(u, m[i]) = i - 1
  <2> DEFINE first == [j \in 1..(i - 1) |-> m[j]]
             ahead == AheadBy(u, m[i])
  <2>1. \A j \in 1..(i - 1) : j \in 1..n /\ j < i
    BY <1>1
  <2>2. \A j \in 1..(i - 1) : m[j] \in ahead
    BY <1>2, <2>1 DEF AheadBy
  <2>3. \A q \in ahead : \E j \in 1..(i - 1) : first[j] = q
    <3> TAKE q \in ahead
    <3>1. q \in shown /\ NewerBy(u, q, m[i])
      BY DEF AheadBy
    <3>2. PICK k \in 1..n : m[k] = q
      BY <1>6, <3>1
    <3>3. ~NewerBy(u, m[i], q)
      BY <1>2, <1>3, <3>1
    <3>4. k # i
      BY <3>1, <3>2, <3>3
    <3>5. ~(i < k)
      BY <1>2, <3>2, <3>3
    <3>6. k \in 1..(i - 1)
      BY <1>1, <3>4, <3>5
    <3> QED BY <3>2, <3>6
  <2> HIDE DEF ahead
  <2>4. first \in Bijection(1..(i - 1), ahead)
    <3>1. first \in [1..(i - 1) -> ahead]
      BY <2>2
    <3>2. \A j, k \in 1..(i - 1) : first[j] = first[k] => j = k
      BY <1>4, <2>1
    <3> QED BY <2>3, <3>1, <3>2 DEF Bijection, Injection, Surjection, IsInjective
  <2>5. Cardinality(1..(i - 1)) = i - 1 /\ IsFiniteSet(1..(i - 1))
    BY FS_Interval
  <2>6. ExistsBijection(1..(i - 1), ahead)
    BY <2>4 DEF ExistsBijection
  <2>7. Cardinality(ahead) = i - 1
    BY <2>5, <2>6, FS_Bijection
  <2> QED BY <2>7 DEF PlaceBy, ahead
<1> QED BY <1>6, <1>7

\* One row more than a page is fetched if and only if the list goes on behind it.
LEMMA MoreMeansMore ==
  ASSUME TypeOK, NEW o \in Nat
  PROVE  HasMore(o) <=> o + PageSize < Cardinality(shown)
<1> DEFINE n == Cardinality(shown)
           rows == Fetched(o)
           places == [r \in rows |-> Position(r)]
<1>1. n \in Nat /\ PageSize \in Nat \ {0} /\ shown \subseteq Rows /\ rows \subseteq shown
  BY RowAssumption, PageSizeType, FS_Subset, FS_CardinalityType DEF TypeOK, Fetched
<1>2. ASSUME o + PageSize < n PROVE HasMore(o)
  <2>1. PICK r \in shown : Position(r) = o + PageSize
    BY <1>1, <1>2, PlacesTaken, ResolutionType DEF Position
  <2> QED BY <1>1, <2>1, MoreFollow
<1>3. ASSUME ~(o + PageSize < n) PROVE ~HasMore(o)
  <2> DEFINE window == o .. o + PageSize - 1
  <2>1. IsFiniteSet(window) /\ Cardinality(window) = PageSize
    BY <1>1, FS_Interval
  <2>2. \A r \in rows : Position(r) \in window
    <3> TAKE r \in rows
    <3>1. r \in shown /\ r \in Rows /\ o <= Position(r)
      BY <1>1 DEF Fetched
    <3>2. Position(r) \in Nat /\ Position(r) < n
      BY <3>1, PositionType
    <3> QED BY <1>1, <1>3, <3>1, <3>2
  <2>3. places \in Injection(rows, window)
    <3>1. places \in [rows -> window]
      BY <2>2
    <3>2. \A q, r \in rows : places[q] = places[r] => q = r
      BY <1>1, PlacesDiffer, ResolutionType DEF Position
    <3> QED BY <3>1, <3>2 DEF Injection, IsInjective
  <2>4. IsFiniteSet(rows) /\ Cardinality(rows) <= PageSize
    BY <2>1, <2>3, FS_Injection
  <2>5. Cardinality(rows) \in Nat
    BY <2>4, FS_CardinalityType
  <2> QED BY <1>1, <2>4, <2>5 DEF HasMore
<1> QED BY <1>2, <1>3

\* A row is on a page if and only if its place among the rows is, in the order
\* of the store; the token is the same in every order.
LEMMA PagesByPlace ==
  ASSUME TypeOK, NEW o \in Nat
  PROVE  /\ MemoryPage(MemoryRows, o).next = PostgresPage(o).next
         /\ \A r \in shown :
              /\ r \in MemoryPage(MemoryRows, o).rows
                   <=> o <= PlaceBy(1, r) /\ PlaceBy(1, r) < o + PageSize
              /\ r \in PostgresPage(o).rows
                   <=> o <= Position(r) /\ Position(r) < o + PageSize
<1> DEFINE n == Cardinality(shown)
           m == MemoryRows
<1>1. n \in Nat /\ PageSize \in Nat \ {0} /\ shown \subseteq Rows
  BY RowAssumption, PageSizeType, FS_Subset, FS_CardinalityType DEF TypeOK
<1>2. 1 \in Units
  BY DEF Units
<1>3. Sorted(1, m)
  <2>1. \E s : Sorted(1, s)
    BY <1>2, SortExists
  <2> QED BY <2>1 DEF MemoryRows, Sorted
<1>4. /\ m \in [1..n -> shown]
      /\ \A i \in 1..n : PlaceBy(1, m[i]) = i - 1
      /\ \A r \in shown : \E i \in 1..n : m[i] = r
  <2>1. m \in [1..n -> shown]
    BY <1>3 DEF Sorted
  <2> HIDE DEF m
  <2> QED BY <1>2, <1>3, <2>1, SortedPlaces
<1> HIDE DEF m
<1>5. Len(m) = n
  BY <1>1, <1>4
<1>6. \A r \in shown : PlaceBy(1, r) \in Nat /\ PlaceBy(1, r) < n
  BY <1>1, <1>2, PlaceType
<1>7. \A r \in shown : Position(r) \in Nat
  BY <1>1, PositionType
<1>8. HasMore(o) <=> o + PageSize < n
  BY MoreMeansMore
<1> HIDE DEF n
<1>9. ASSUME NEW r \in shown
      PROVE  r \in PostgresPage(o).rows <=> o <= Position(r) /\ Position(r) < o + PageSize
  BY <1>1, <1>7 DEF PostgresPage, PageRows, Fetched
<1>10. PostgresPage(o).next = IF o + PageSize < n THEN o + PageSize ELSE 0
  BY <1>8 DEF PostgresPage
<1>11. CASE o >= n
  <2>1. MemoryPage(m, o).rows = {} /\ MemoryPage(m, o).next = 0
    BY <1>5, <1>11 DEF MemoryPage
  <2>2. \A r \in shown : ~(o <= PlaceBy(1, r))
    BY <1>1, <1>6, <1>11
  <2>3. ~(o + PageSize < n)
    BY <1>1, <1>11
  <2> QED BY <1>9, <1>10, <2>1, <2>2, <2>3 DEF m
<1>12. CASE ~(o >= n)
  <2> DEFINE end == MemoryEnd(m, o)
  <2>1. end = IF o + PageSize > n THEN n ELSE o + PageSize
    BY <1>5 DEF MemoryEnd
  <2>2. /\ MemoryPage(m, o).rows = {m[i] : i \in o + 1 .. end}
        /\ MemoryPage(m, o).next = IF end < n THEN end ELSE 0
    BY <1>5, <1>12 DEF MemoryPage
  <2> HIDE DEF end
  <2>3. end \in Nat /\ end <= n /\ end <= o + PageSize
    BY <1>1, <2>1
  <2>4. MemoryPage(m, o).next = PostgresPage(o).next
    BY <1>1, <1>10, <2>1, <2>2
  <2>5. ASSUME NEW r \in shown
        PROVE  r \in MemoryPage(m, o).rows <=> o <= PlaceBy(1, r) /\ PlaceBy(1, r) < o + PageSize
    <3>1. PICK i \in 1..n : m[i] = r
      BY <1>4
    <3>2. PlaceBy(1, r) = i - 1
      BY <1>4, <3>1
    <3>3. \A k \in 1..n : m[k] = r => k = i
      <4> TAKE k \in 1..n
      <4>1. PlaceBy(1, m[k]) = k - 1
        BY <1>4
      <4> QED BY <3>2, <4>1
    <3>4. r \in MemoryPage(m, o).rows <=> i \in o + 1 .. end
      <4>1. \A k \in o + 1 .. end : k \in 1..n
        BY <1>1, <2>3
      <4> QED BY <2>2, <3>1, <3>3, <4>1
    <3>5. i \in o + 1 .. end <=> o <= i - 1 /\ i - 1 < o + PageSize
      BY <1>1, <2>1, <2>3
    <3> QED BY <3>2, <3>4, <3>5
  <2> QED BY <1>9, <2>4, <2>5 DEF m
<1> QED BY <1>11, <1>12

\* Rows that are swapped with no other have the same rows ahead in both orders.
LEMMA SamePlaceUnlessSwapped ==
  ASSUME TypeOK, NEW r \in shown, ~ \E q \in shown : Swapped(q, r)
  PROVE  PlaceBy(1, r) = Position(r)
<1>1. ASSUME NEW q \in shown PROVE NewerBy(1, q, r) <=> NewerBy(Resolution, q, r)
  <2>1. r \in Rows /\ q \in Rows /\ stamp[q] \in Nat /\ stamp[r] \in Nat
    BY DEF TypeOK
  <2>2. CASE In(Resolution, stamp[q]) = In(Resolution, stamp[r])
    BY <2>2 DEF Swapped
  <2>3. CASE In(Resolution, stamp[q]) # In(Resolution, stamp[r])
    <3>1. In(1, stamp[q]) = stamp[q] /\ In(1, stamp[r]) = stamp[r]
      BY <2>1 DEF In
    <3>2. /\ In(Resolution, stamp[q]) \in Nat
          /\ In(Resolution, stamp[r]) \in Nat
          /\ stamp[q] <= stamp[r] => In(Resolution, stamp[q]) <= In(Resolution, stamp[r])
          /\ stamp[r] <= stamp[q] => In(Resolution, stamp[r]) <= In(Resolution, stamp[q])
      BY <2>1, ResolutionType, InType
    <3> QED BY <2>1, <2>3, <3>1, <3>2 DEF NewerBy
  <2> QED BY <2>2, <2>3
<1>2. AheadBy(1, r) = AheadBy(Resolution, r)
  BY <1>1 DEF AheadBy
<1> QED BY <1>2 DEF PlaceBy, Position

\* Both stores serve the same token for every offset, and the same page but for
\* rows whose order within one microsecond their ids do not follow: whatever rows
\* a history of writes has left, for every size of a page and every resolution.
THEOREM StoresTheorem == Spec => []StoresAgree
<1>1. IInv => StoresAgree
  <2> SUFFICES ASSUME IInv, NEW o \in 0 .. Cardinality(Rows) + 1
               PROVE  /\ MemoryPage(MemoryRows, o).next = PostgresPage(o).next
                      /\ \A r \in shown :
                           \/ r \in MemoryPage(MemoryRows, o).rows <=> r \in PostgresPage(o).rows
                           \/ \E q \in shown : Swapped(q, r)
    BY DEF StoresAgree
  <2>1. o \in Nat /\ TypeOK
    BY RowAssumption, FS_CardinalityType DEF IInv
  <2>2. MemoryPage(MemoryRows, o).next = PostgresPage(o).next
    BY <2>1, PagesByPlace
  <2>3. ASSUME NEW r \in shown, ~ \E q \in shown : Swapped(q, r)
        PROVE  r \in MemoryPage(MemoryRows, o).rows <=> r \in PostgresPage(o).rows
    BY <2>1, <2>3, PagesByPlace, SamePlaceUnlessSwapped
  <2> QED BY <2>2, <2>3
<1> QED BY <1>1, Invariance, PTL

------------------------------------------------------------------------------
(* A walk nobody disturbs.                                                 *)

\* The rows in front of an offset.
Front(o) == {r \in shown : Position(r) < o}

StillOK ==
  /\ phase = "idle" => seen = {}
  /\ touched = {} =>
       /\ phase \in {"asking", "page"} => seen = Front(offset)
       /\ phase = "page" => page = PageRows(offset) /\ more = HasMore(offset)
       /\ phase = "done" => seen = shown

LEMMA FrontGrows ==
  ASSUME TypeOK, NEW o \in Nat
  PROVE  /\ Front(0) = {}
         /\ Front(o) \cap PageRows(o) = {}
         /\ Front(o) \cup PageRows(o) = Front(o + PageSize)
         /\ ~HasMore(o) => Front(o + PageSize) = shown
<1>1. Cardinality(shown) \in Nat /\ PageSize \in Nat
  BY RowAssumption, PageSizeType, FS_Subset, FS_CardinalityType DEF TypeOK
<1>2. \A r \in shown : Position(r) \in Nat /\ Position(r) < Cardinality(shown)
  BY PositionType DEF TypeOK
<1>3. ~HasMore(o) => Cardinality(shown) <= o + PageSize
  BY <1>1, MoreMeansMore
<1> QED BY <1>1, <1>2, <1>3 DEF Front, PageRows, Fetched

\* What is still holds after a step that moves no row and no page.
LEMMA StillStays ==
  ASSUME StillOK,
         UNCHANGED <<stamp, shown, phase, offset, page, more, seen, touched>>
  PROVE  StillOK'
<1>1. \A r : Position(r)' = Position(r)
  BY SamePlaces
<1>2. /\ Front(offset)' = Front(offset) /\ PageRows(offset)' = PageRows(offset)
      /\ HasMore(offset)' = HasMore(offset)
  BY <1>1 DEF Front, PageRows, HasMore, Fetched, PageSize
<1> QED BY <1>2 DEF StillOK

\* A write touches a row: nothing is claimed of the walk any more.
LEMMA StoresTouches ==
  ASSUME StillOK, NEW h, NEW to, Stores(h, to), UNCHANGED walkVars
  PROVE  StillOK'
<1>1. touched' # {}
  BY DEF Stores
<1> QED BY <1>1 DEF StillOK, walkVars

LEMMA StillKeeps == IInv /\ StillOK /\ [Next]_vars => StillOK'
<1> SUFFICES ASSUME IInv, StillOK, [Next]_vars PROVE StillOK'
  OBVIOUS
<1>1. TypeOK /\ offset \in Nat
  BY DEF IInv, TypeOK
<1>2. CASE Begin
  <2>1. /\ phase' = "asking" /\ seen' = {} /\ offset' = 0 /\ shown' = shown
        /\ stamp' = stamp
    BY <1>2 DEF Begin, StillOK, IInv, WalkOK, rowVars
  <2>2. Front(0)' = {}
    BY <1>1, <2>1, FrontGrows, SamePlaces DEF Front
  <2>3. Front(offset)' = Front(0)'
    BY <2>1
  <2> QED BY <2>1, <2>2, <2>3 DEF StillOK
<1>3. CASE Read
  <2>1. /\ phase = "asking" /\ phase' = "page" /\ page' = PageRows(offset)
        /\ more' = HasMore(offset)
        /\ UNCHANGED <<stamp, shown, offset, seen, touched>>
    BY <1>3 DEF Read, rowVars
  <2>2. \A r : Position(r)' = Position(r)
    BY <2>1, SamePlaces
  <2>3. /\ Front(offset)' = Front(offset) /\ PageRows(offset)' = PageRows(offset)
        /\ HasMore(offset)' = HasMore(offset)
    BY <2>1, <2>2 DEF Front, PageRows, HasMore, Fetched, PageSize
  <2> QED BY <2>1, <2>3 DEF StillOK
<1>4. CASE Return
  <2>1. /\ phase = "page" /\ seen' = seen \cup page
        /\ phase' = IF more THEN "asking" ELSE "done"
        /\ offset' = IF more THEN offset + PageSize ELSE offset
        /\ UNCHANGED <<stamp, shown, touched>>
    BY <1>4 DEF Return, rowVars
  <2>2. touched = {} =>
          /\ seen' = Front(offset + PageSize)
          /\ ~more => seen' = shown
    BY <1>1, <2>1, FrontGrows DEF StillOK
  <2>3. Front(offset)' = {r \in shown : Position(r) < offset'}
    BY <2>1, SamePlaces DEF Front
  <2> QED BY <2>1, <2>2, <2>3 DEF StillOK, Front
<1>5. CASE Fails
  <2>1. /\ phase = "page" /\ phase' = "asking"
        /\ UNCHANGED <<stamp, shown, offset, seen, touched>>
    BY <1>5 DEF Fails, IInv, WalkOK, rowVars
  <2>2. Front(offset)' = Front(offset)
    BY <2>1, SamePlaces DEF Front
  <2> QED BY <2>1, <2>2 DEF StillOK
<1>6. ASSUME NEW w \in Writers, Save(w) PROVE StillOK'
  BY <1>6, StoresTouches DEF Save
<1>7. CASE Expired
  BY <1>7, StoresTouches DEF Expired
<1>8. ASSUME NEW r \in Rows, Restatus(r) PROVE StillOK'
  <2>1. touched' # {} /\ UNCHANGED <<phase, seen>>
    BY <1>8 DEF Restatus, walkVars
  <2> QED BY <2>1 DEF StillOK
<1>9. CASE \/ Clock \/ \E w \in Writers, r \in Rows : Take(w, r)
           \/ \E r \in Rows : Keep(r) \/ Expire(r)
           \/ UNCHANGED vars
  <2>1. UNCHANGED <<stamp, shown, phase, offset, page, more, seen, touched>>
    BY <1>9 DEF Clock, Take, Keep, Expire, vars, rowVars, walkVars
  <2> QED BY <2>1, StillStays
<1> QED BY <1>2, <1>3, <1>4, <1>5, <1>6, <1>7, <1>8, <1>9 DEF Next

\* A list nobody writes to is shown row by row exactly once, for every number of
\* rows and every size of a page, whichever pages failed and were asked for again.
THEOREM StillTheorem == Spec => []StillWalk
<1>1. Init => StillOK
  BY DEF Init, StillOK
<1>2. IInv /\ StillOK => StillWalk
  <2> SUFFICES ASSUME IInv, StillOK PROVE StillWalk
    OBVIOUS
  <2>1. Front(offset) \cap PageRows(offset) = {}
    BY FrontGrows DEF IInv, TypeOK
  <2> QED BY <2>1 DEF StillOK, StillWalk
<1> QED BY <1>1, <1>2, StillKeeps, Invariance, PTL DEF Spec

==============================================================================
