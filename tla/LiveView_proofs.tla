---------------------------- MODULE LiveView_proofs ----------------------------
(***************************************************************************)
(* The safety of LiveView for any number of links and of attempts. The     *)
(* invariant says of one link how a loop of the service ends (LinkInv), of *)
(* the tab what it holds while it says it is connected (TabInv). A step of *)
(* the service changes one link and leaves the tab; a step of the tab      *)
(* closes the link it held, and may ask for one more.                      *)
(***************************************************************************)
EXTENDS LiveView, TLAPS

\* What a link is like, whichever end acts next.
LinkOK(s) ==
  /\ s \in LinkState
  /\ s.opened => s.input # "off"
  /\ s.input # "off" => s.serve \in Streaming \cup {"muted", "ended"}
  /\ s.serve = "ended" => s.mail \/ s.wire = "closed" \/ s.ctx = "done"

LinkInv == \A l \in Links : LinkOK(link[l])

TabInv ==
  /\ connected => mode \in {"rtc", "socket"}
  /\ mode = "socket" /\ hook # "open" => ~connected
  /\ hook = "stopped" => error
  /\ connected /\ ~error =>
       /\ at # NoLink
       /\ \/ link[at].opened
          \/ mode = "rtc" /\ hook = "opening"

WorldOK ==
  /\ session \in {"running", "failing", "ended"}
  /\ views \in 1..MaxViews
  /\ expired \in 0..views
  /\ drops \in Nat
  /\ drops + views <= MaxViews
  /\ wedged \in BOOLEAN

TabOK ==
  /\ mode \in {"rtc", "socket", "left"}
  /\ hook \in {"waiting", "opening", "open", "stopped"}
  /\ at \in Links \cup {NoLink}
  /\ hook \in {"opening", "open"} => at # NoLink
  /\ tries \in Nat
  /\ connected \in BOOLEAN
  /\ error \in BOOLEAN

LinksOK == link \in [Links -> LinkState] /\ LinkInv /\ OneConnection

IInv == WorldOK /\ LinksOK /\ TabOK /\ TabInv

\* A step of the service at one link: the link stays as LinkOK has it, the tab
\* does not notice.
Serves(l) ==
  /\ \E s : /\ LinkOK(s)
            /\ at = l /\ link[l].opened => s.opened
            /\ s.wire = "open" => link[l].wire = "open"
            /\ link' = [link EXCEPT ![l] = s]
  /\ UNCHANGED tabVars

LEMMA FinishedOK == LinkOK(Finished)
  BY UpsetAssumption DEF LinkOK, Finished, LinkState, MaxViews, Serve, Input, Streaming

LEMMA AskedOK ==
  ASSUME NEW k \in {"peer", "socket"}, NEW v \in 1..MaxViews
  PROVE  LinkOK(Asked(k, v))
  BY DEF LinkOK, Asked, LinkState, Serve, Input, Streaming

LEMMA RemainsOK ==
  ASSUME NEW s
  PROVE  LinkOK(Remains(s)) /\ Remains(s).wire = "closed"
  BY FinishedOK DEF Remains, Finished, LinkOK, LinkState, Serve, Input, Streaming

LEMMA ClosedOK ==
  ASSUME NEW s, LinkOK(s)
  PROVE  LinkOK(Closed(s)) /\ Closed(s).wire = "closed"
<1> DEFINE c == [s EXCEPT !.wire = "closed", !.mail = FALSE, !.opened = FALSE]
<1>1. LinkOK(c) /\ c.wire = "closed"
  BY DEF LinkOK, LinkState
<1>2. Closed(s) = IF Over(c) THEN Remains(c) ELSE c
  BY DEF Closed
<1> HIDE DEF c
<1> QED BY <1>1, <1>2, RemainsOK

\* Writing one link with To serves it, provided what is written is a link.
LEMMA ToServes ==
  ASSUME IInv, NEW l \in Links, NEW s, To(l, s),
         LinkOK(s), s.opened = link[l].opened,
         s.wire = "open" => link[l].wire = "open"
  PROVE  Serves(l) /\ UNCHANGED worldVars
<1> DEFINE t == IF Over(s) /\ at # l THEN Remains(s) ELSE s
<1>1. link' = [link EXCEPT ![l] = t] /\ UNCHANGED <<worldVars, tabVars>>
  BY DEF To
<1>2. LinkOK(t) /\ (t.wire = "open" => link[l].wire = "open")
  BY RemainsOK
<1>3. at = l => t = s
  OBVIOUS
<1> HIDE DEF t
<1> QED BY <1>1, <1>2, <1>3 DEF Serves

\* The three ways a link is written, with what each asks of the link before.
LEMMA ServeToServes ==
  ASSUME IInv, NEW l \in Links, NEW where \in Serve, ServeTo(l, where),
         link[l].input # "off" => where \in Streaming \cup {"muted", "ended"},
         where = "ended" => link[l].mail \/ Cut(l) \/ link[l].ctx = "done"
  PROVE  Serves(l) /\ UNCHANGED worldVars
<1> DEFINE s == [link[l] EXCEPT !.serve = where]
<1>1. LinkOK(link[l])
  BY DEF IInv, LinksOK, LinkInv
<1>2. LinkOK(s) /\ s.opened = link[l].opened /\ (s.wire = "open" => link[l].wire = "open")
  BY <1>1 DEF LinkOK, LinkState, Cut
<1>3. To(l, s)
  BY DEF ServeTo
<1> HIDE DEF s
<1> QED BY <1>2, <1>3, ToServes

LEMMA ShutOK ==
  ASSUME NEW s, LinkOK(s)
  PROVE  LinkOK(Shut(s)) /\ Shut(s).opened = s.opened /\ Shut(s).wire = "closed"
  BY DEF LinkOK, Shut, LinkState, Serve

LEMMA ShutServes ==
  ASSUME IInv, NEW l \in Links, To(l, Shut(link[l]))
  PROVE  Serves(l) /\ UNCHANGED worldVars
<1>1. LinkOK(link[l])
  BY DEF IInv, LinksOK, LinkInv
<1> QED BY <1>1, ShutOK, ToServes

\* A loop that has a reason to stop: its context is done, or it is a socket's.
LEMMA StoppedOK ==
  ASSUME NEW s, LinkOK(s), s.kind = "socket" \/ s.ctx = "done"
  PROVE  /\ LinkOK(Stopped(s)) /\ Stopped(s).opened = s.opened
         /\ Stopped(s).wire = "open" => s.wire = "open"
<1>1. CASE s.kind = "socket"
  BY <1>1, ShutOK DEF Stopped
<1>2. CASE s.kind # "socket"
  BY <1>2 DEF Stopped, LinkOK, LinkState, Serve
<1> QED BY <1>1, <1>2

LEMMA StreamsServes ==
  ASSUME IInv, NEW l \in Links, Streams(l)
  PROVE  Serves(l) /\ UNCHANGED worldVars
<1> DEFINE s == [link[l] EXCEPT !.serve = "tick", !.input = "listening"]
<1>1. LinkOK(link[l])
  BY DEF IInv, LinksOK, LinkInv
<1>2. LinkOK(s) /\ s.opened = link[l].opened /\ (s.wire = "open" => link[l].wire = "open")
  BY <1>1 DEF LinkOK, LinkState, Serve, Input, Streaming
<1>3. To(l, s)
  BY DEF Streams
<1> HIDE DEF s
<1> QED BY <1>2, <1>3, ToServes

LEMMA SendFailsServes ==
  ASSUME IInv, NEW l \in Links, SendFails(l)
  PROVE  Serves(l) /\ UNCHANGED worldVars
<1>1. CASE To(l, Shut(link[l]))
  BY <1>1, ShutServes
<1>2. CASE ServeTo(l, IF Cut(l) THEN "ended" ELSE "muted")
  <2> DEFINE where == IF Cut(l) THEN "ended" ELSE "muted"
  <2>1. where \in Serve /\ where \in {"muted", "ended"} /\ (where = "ended" => Cut(l))
    BY DEF Serve
  <2>2. ServeTo(l, where)
    BY <1>2
  <2> HIDE DEF where
  <2> QED BY <2>1, <2>2, ServeToServes
<1> QED BY <1>1, <1>2 DEF SendFails

LEMMA TellServes ==
  ASSUME IInv, NEW l \in Links, Tell(l)
  PROVE  Serves(l) /\ UNCHANGED worldVars
<1> DEFINE s == [Stopped(link[l]) EXCEPT !.mail = TRUE]
<1>1. CASE To(l, s)
  <2>1. LinkOK(link[l])
    BY DEF IInv, LinksOK, LinkInv
  <2>2. LinkOK(s) /\ s.opened = link[l].opened /\ (s.wire = "open" => link[l].wire = "open")
    BY <2>1 DEF Stopped, Shut, LinkOK, LinkState, Serve
  <2> HIDE DEF s
  <2> QED BY <1>1, <2>2, ToServes
<1>2. CASE SendFails(l)
  BY <1>2, SendFailsServes
<1> QED BY <1>1, <1>2 DEF Tell

LEMMA LoopServes ==
  ASSUME IInv, NEW l \in Links, LoopStep(l)
  PROVE  Serves(l) /\ UNCHANGED worldVars
<1>1. LinkOK(link[l])
  BY DEF IInv, LinksOK, LinkInv
<1>2. CASE Upgrade(l)
  BY <1>2, StreamsServes, ShutServes DEF Upgrade
<1>3. CASE CreateAnswer(l)
  <2>1. CASE ServeTo(l, "gather")
    BY <1>1, <1>3, <2>1, ServeToServes DEF CreateAnswer, Serving, LinkOK, Serve, Streaming
  <2> QED BY <1>3, <2>1, ShutServes DEF CreateAnswer
<1>4. CASE Answer(l)
  <2> DEFINE where == IF Cut(l) THEN "ended" ELSE "answered"
  <2>1. CASE ServeTo(l, where)
    <3>1. link[l].input = "off"
      BY <1>1, <1>4 DEF Answer, Serving, LinkOK, Streaming
    <3>2. where \in Serve /\ (where = "ended" => Cut(l))
      BY DEF Serve
    <3> HIDE DEF where
    <3> QED BY <2>1, <3>1, <3>2, ServeToServes
  <2> QED BY <1>4, <2>1, ShutServes DEF Answer
<1>5. CASE ChannelOpens(l)
  BY <1>5, StreamsServes DEF ChannelOpens
<1>6. CASE Tick(l)
  <2>1. CASE Cut(l) /\ ServeTo(l, "ended")
    BY <2>1, ServeToServes DEF Serve
  <2>2. CASE ServeTo(l, IF wedged THEN "blocked" ELSE "capture")
    <3> DEFINE where == IF wedged THEN "blocked" ELSE "capture"
    <3>1. where \in Serve /\ where \in Streaming /\ where # "ended"
      BY DEF Serve, Streaming
    <3>2. ServeTo(l, where)
      BY <2>2
    <3> HIDE DEF where
    <3> QED BY <3>1, <3>2, ServeToServes
  <2>3. CASE Tell(l)
    BY <2>3, TellServes
  <2> QED BY <1>6, <2>1, <2>2, <2>3 DEF Tick
<1>7. CASE Capture(l)
  <2>1. CASE ServeTo(l, "tick")
    BY <2>1, ServeToServes DEF Serve, Streaming
  <2> QED BY <1>7, <2>1, SendFailsServes, TellServes DEF Capture
<1> QED BY <1>2, <1>3, <1>4, <1>5, <1>6, <1>7 DEF LoopStep

LEMMA LeaveServes ==
  ASSUME IInv, NEW l \in Links, Leave(l)
  PROVE  Serves(l) /\ UNCHANGED worldVars
<1>1. LinkOK(link[l])
  BY DEF IInv, LinksOK, LinkInv
<1>2. link[l].kind = "socket" \/ link[l].ctx = "done"
  BY DEF Leave, Kind
<1>3. To(l, Stopped(link[l]))
  BY DEF Leave
<1> QED BY <1>1, <1>2, <1>3, StoppedOK, ToServes

LEMMA InputServes ==
  ASSUME IInv, NEW l \in Links, InputEnds(l)
  PROVE  Serves(l) /\ UNCHANGED worldVars
<1> DEFINE s == [link[l] EXCEPT !.input = "ended"]
<1>1. LinkOK(link[l])
  BY DEF IInv, LinksOK, LinkInv
<1>2. LinkOK(s) /\ s.opened = link[l].opened /\ (s.wire = "open" => link[l].wire = "open")
  BY <1>1 DEF InputEnds, LinkOK, LinkState, Input
<1>3. To(l, s)
  BY DEF InputEnds, InputEnded
<1> HIDE DEF s
<1> QED BY <1>2, <1>3, ToServes

LEMMA DispatchServes ==
  ASSUME IInv, NEW l \in Links, Dispatch(l)
  PROVE  Serves(l) /\ UNCHANGED worldVars
<1> DEFINE s == [link[l] EXCEPT !.input = "blocked"]
<1>1. LinkOK(link[l])
  BY DEF IInv, LinksOK, LinkInv
<1>2. LinkOK(s) /\ s.opened = link[l].opened /\ (s.wire = "open" => link[l].wire = "open")
  BY <1>1 DEF Dispatch, LinkOK, LinkState, Input
<1>3. To(l, s)
  BY DEF Dispatch
<1> HIDE DEF s
<1> QED BY <1>2, <1>3, ToServes

LEMMA PeerServes ==
  ASSUME IInv, NEW l \in Links, PeerStep(l)
  PROVE  Serves(l) /\ UNCHANGED worldVars
<1>1. LinkOK(link[l])
  BY DEF IInv, LinksOK, LinkInv
<1>2. CASE ContextDone(l)
  <2> DEFINE s == [link[l] EXCEPT !.ctx = "done"]
  <2>1. LinkOK(s) /\ s.opened = link[l].opened /\ (s.wire = "open" => link[l].wire = "open")
    BY <1>1 DEF LinkOK, LinkState
  <2>2. To(l, s)
    BY <1>2 DEF ContextDone
  <2> HIDE DEF s
  <2> QED BY <2>1, <2>2, ToServes
<1>3. CASE ClosePeer(l)
  <2> DEFINE s == [link[l] EXCEPT !.wire = "closed",
                     !.serve = IF Serving(l, "answered") THEN "ended" ELSE @]
  <2>1. LinkOK(s) /\ s.opened = link[l].opened /\ (s.wire = "open" => link[l].wire = "open")
    BY <1>1 DEF LinkOK, LinkState, Serve, Serving
  <2>2. To(l, s)
    BY <1>3 DEF ClosePeer
  <2> HIDE DEF s
  <2> QED BY <2>1, <2>2, ToServes
<1> QED BY <1>2, <1>3 DEF PeerStep, Deadline, PeerGone

------------------------------------------------------------------------------

LEMMA ServesKeeps ==
  ASSUME IInv, NEW l \in Links, Serves(l)
  PROVE  LinksOK' /\ TabOK' /\ TabInv'
<1>1. PICK s : /\ LinkOK(s)
               /\ at = l /\ link[l].opened => s.opened
               /\ s.wire = "open" => link[l].wire = "open"
               /\ link' = [link EXCEPT ![l] = s]
  BY DEF Serves
<1>2. UNCHANGED tabVars
  BY DEF Serves
<1>3. LinksOK'
  BY <1>1, <1>2 DEF IInv, LinksOK, LinkInv, LinkOK, LinkState, OneConnection, Cut, tabVars
<1>4. TabOK'
  BY <1>2 DEF IInv, TabOK, tabVars
<1>5. at \in Links /\ link[at].opened => link'[at].opened
  BY <1>1 DEF IInv, LinksOK
<1>6. TabInv'
  BY <1>2, <1>5, LinkAssumption DEF IInv, TabInv, TabOK, tabVars
<1> QED BY <1>3, <1>4, <1>6

\* Closing the link the tab holds keeps every link as LinkOK has it.
LEMMA HangupOK ==
  ASSUME LinksOK, at \in Links \cup {NoLink}
  PROVE  /\ Hangup \in [Links -> LinkState]
         /\ \A k \in Links : LinkOK(Hangup[k]) /\ Hangup[k].wire = "closed"
<1>1. CASE at = NoLink
  BY <1>1, LinkAssumption DEF Hangup, LinksOK, LinkInv, OneConnection, Cut
<1>2. CASE at # NoLink
  <2>1. LinkOK(Closed(link[at])) /\ Closed(link[at]).wire = "closed"
    BY <1>2, ClosedOK DEF LinksOK, LinkInv
  <2>2. Hangup = [link EXCEPT ![at] = Closed(link[at])]
    BY <1>2 DEF Hangup
  <2> QED BY <1>2, <2>1, <2>2 DEF LinksOK, LinkInv, LinkOK, OneConnection, Cut
<1> QED BY <1>1, <1>2

LEMMA ConnectKeeps ==
  ASSUME IInv, NEW l \in Links, Connect(l)
  PROVE  IInv'
<1> DEFINE k == IF mode = "rtc" THEN "peer" ELSE "socket"
<1>1. LinkOK(Asked(k, views))
  BY AskedOK DEF IInv, WorldOK
<1>2. link' = [Hangup EXCEPT ![l] = Asked(k, views)]
  BY DEF Connect
<1> HIDE DEF k
<1>3. LinksOK'
  <2>1. /\ Hangup \in [Links -> LinkState]
        /\ \A i \in Links : LinkOK(Hangup[i]) /\ Hangup[i].wire = "closed"
    BY HangupOK DEF IInv, TabOK
  <2>2. at' = l
    BY DEF Connect
  <2> QED BY <1>1, <1>2, <2>1, <2>2 DEF LinksOK, LinkInv, LinkOK, OneConnection, Cut
<1>4. WorldOK'
  BY DEF Connect, IInv, WorldOK, worldVars
<1>5. TabOK'
  BY LinkAssumption DEF Connect, IInv, TabOK
<1>6. TabInv'
  BY LinkAssumption DEF Connect, Rendered, IInv, TabInv, TabOK
<1> QED BY <1>3, <1>4, <1>5, <1>6 DEF IInv

LEMMA OpenedKeeps ==
  ASSUME IInv, Opened
  PROVE  IInv'
<1>1. at \in Links
  BY DEF Opened, IInv, TabOK
<1>2. LinkOK(link[at]) /\ link[at].input # "off"
  BY <1>1 DEF Opened, IInv, LinksOK, LinkInv
<1> DEFINE s == [link[at] EXCEPT !.opened = TRUE]
<1>3. LinkOK(s) /\ s.opened
  BY <1>2 DEF LinkOK, LinkState
<1>4. link' = [link EXCEPT ![at] = s]
  BY DEF Opened
<1> HIDE DEF s
<1>5. LinksOK'
  <2>1. at' = at
    BY DEF Opened
  <2>2. s.wire = link[at].wire
    BY <1>2 DEF s
  <2> QED BY <1>1, <1>3, <1>4, <2>1, <2>2
          DEF IInv, LinksOK, LinkInv, LinkOK, OneConnection, Cut
<1>6. WorldOK'
  BY DEF Opened, IInv, WorldOK, worldVars
<1>7. TabOK'
  BY <1>1, LinkAssumption DEF Opened, IInv, TabOK
<1>8. link'[at].opened
  BY <1>1, <1>3, <1>4 DEF IInv, LinksOK
<1>9. TabInv'
  BY <1>1, <1>8, LinkAssumption DEF Opened, Rendered, IInv, TabInv, TabOK
<1> QED BY <1>5, <1>6, <1>7, <1>9 DEF IInv

\* Lost, the connect timer and a flap: not connected, the links as they were.
LEMMA RescheduleKeeps ==
  ASSUME IInv, Trying, NEW e \in BOOLEAN, Reschedule(e), UNCHANGED link
  PROVE  LinksOK' /\ TabOK' /\ TabInv'
<1>1. LinksOK'
  BY DEF Reschedule, IInv, LinksOK, LinkInv, OneConnection, Cut
<1>2. TabOK'
  <2>1. error' \in BOOLEAN /\ connected' \in BOOLEAN
    BY Zenon DEF Reschedule, IInv, TabOK
  <2>2. hook' \in {"waiting", "stopped"} /\ tries' \in Nat
    BY DEF Reschedule, IInv, TabOK
  <2> QED BY <2>1, <2>2 DEF Reschedule, IInv, TabOK
<1>3. TabInv'
  BY DEF Reschedule, TabInv
<1> QED BY <1>1, <1>2, <1>3

LEMMA MessageKeeps ==
  ASSUME IInv, Message
  PROVE  IInv'
<1>1. LinksOK'
  BY HangupOK DEF Message, IInv, TabOK, LinksOK, LinkInv, OneConnection, Cut
<1>2. WorldOK'
  BY DEF Message, IInv, WorldOK, worldVars
<1>3. TabOK'
  BY DEF Message, IInv, TabOK
<1>4. TabInv'
  BY DEF Message, Rendered, IInv, TabInv, TabOK
<1> QED BY <1>1, <1>2, <1>3, <1>4 DEF IInv

LEMMA UseKeeps ==
  ASSUME IInv, NEW transport \in {"rtc", "socket", "left"}, Use(transport)
  PROVE  LinksOK' /\ TabOK' /\ TabInv'
<1>1. LinksOK'
  BY HangupOK DEF Use, IInv, TabOK, LinksOK, LinkInv, OneConnection, Cut
<1>2. TabOK'
  BY DEF Use, TabOK
<1>3. TabInv'
  BY DEF Use, TabInv
<1> QED BY <1>1, <1>2, <1>3

LEMMA BreakKeeps ==
  ASSUME IInv, NEW l \in Links, Break(l)
  PROVE  IInv'
<1>1. LinkOK(link[l])
  BY DEF IInv, LinksOK, LinkInv
<1>2. UNCHANGED tabVars
  BY DEF Break
<1>3. Serves(l)
  <2>1. CASE link' = [link EXCEPT ![l].wire = "closed"]
    <3> DEFINE s == [link[l] EXCEPT !.wire = "closed"]
    <3>1. LinkOK(s) /\ s.opened = link[l].opened /\ (s.wire = "open" => link[l].wire = "open")
      BY <1>1 DEF LinkOK, LinkState
    <3>2. link' = [link EXCEPT ![l] = s]
      BY <2>1
    <3> HIDE DEF s
    <3> QED BY <1>2, <3>1, <3>2 DEF Serves
  <2>2. CASE link' = [link EXCEPT ![l].wire = "closed", ![l].mail = FALSE]
    <3> DEFINE s == [link[l] EXCEPT !.wire = "closed", !.mail = FALSE]
    <3>1. LinkOK(s) /\ s.opened = link[l].opened /\ (s.wire = "open" => link[l].wire = "open")
      BY <1>1 DEF LinkOK, LinkState
    <3>2. link' = [link EXCEPT ![l] = s]
      BY <2>2 DEF IInv, LinksOK
    <3> HIDE DEF s
    <3> QED BY <1>2, <3>1, <3>2 DEF Serves
  <2> QED BY <2>1, <2>2 DEF Break
<1>4. WorldOK'
  BY UpsetAssumption DEF Break, UpsetLeft, IInv, WorldOK, MaxViews
<1> QED BY <1>3, <1>4, ServesKeeps DEF IInv

\* A capture that blocks was streaming, a dispatch that blocks was listening.
LEMMA WedgeKeeps ==
  ASSUME IInv, Wedge
  PROVE  IInv'
<1>1. PICK captures \in SUBSET {l \in Links : Serving(l, "capture")},
           dispatches \in SUBSET {l \in Links : link[l].input = "listening"} :
        link' = [l \in Links |->
                  [link[l] EXCEPT !.serve = IF l \in captures THEN "blocked" ELSE @,
                                  !.input = IF l \in dispatches THEN "blocked" ELSE @]]
  BY DEF Wedge
<1>2. ASSUME NEW l \in Links
      PROVE  LinkOK(link'[l]) /\ link'[l].wire = link[l].wire /\ link'[l].opened = link[l].opened
  <2>1. LinkOK(link[l])
    BY DEF IInv, LinksOK, LinkInv
  <2>2. /\ l \in captures => link[l].serve = "capture"
        /\ l \in dispatches => link[l].input = "listening"
    BY DEF Serving
  <2> DEFINE s == [link[l] EXCEPT !.serve = IF l \in captures THEN "blocked" ELSE @,
                                  !.input = IF l \in dispatches THEN "blocked" ELSE @]
  <2>3. link'[l] = s
    BY <1>1
  <2>4. LinkOK(s) /\ s.wire = link[l].wire /\ s.opened = link[l].opened
    BY <2>1, <2>2 DEF LinkOK, LinkState, Serve, Input, Streaming
  <2> HIDE DEF s
  <2> QED BY <2>3, <2>4
<1>3. UNCHANGED tabVars
  BY DEF Wedge
<1>4. LinksOK'
  <2>1. link' \in [Links -> LinkState]
    BY <1>1, <1>2 DEF LinkOK
  <2> QED BY <1>2, <1>3, <2>1 DEF IInv, LinksOK, LinkInv, OneConnection, Cut, tabVars
<1>5. WorldOK'
  <2>1. wedged' \in BOOLEAN
    BY Zenon DEF Wedge
  <2>2. /\ drops + views <= MaxUpsets
        /\ drops' = drops + 1
        /\ UNCHANGED <<session, views, expired>>
    BY DEF Wedge, UpsetLeft
  <2> QED BY <2>1, <2>2, UpsetAssumption DEF IInv, WorldOK, MaxViews
<1>6. TabOK'
  BY <1>3 DEF IInv, TabOK, tabVars
<1>7. TabInv'
  BY <1>2, <1>3, LinkAssumption DEF IInv, TabInv, TabOK, tabVars
<1> QED BY <1>4, <1>5, <1>6, <1>7 DEF IInv

LEMMA InitOK == Init => IInv
<1> SUFFICES ASSUME Init PROVE IInv
  OBVIOUS
<1>1. WorldOK
  <2>1. wedged \in BOOLEAN
    BY Zenon DEF Init
  <2> QED BY <2>1, UpsetAssumption DEF Init, WorldOK, MaxViews
<1>3. TabOK /\ TabInv
  BY DEF Init, TabOK, TabInv
<1>2. LinksOK
  BY FinishedOK DEF Init, LinksOK, LinkInv, LinkOK, OneConnection, Cut, Finished
<1> QED BY <1>1, <1>2, <1>3 DEF IInv

LEMMA NextKeeps == IInv /\ [Next]_vars => IInv'
<1> SUFFICES ASSUME IInv, [Next]_vars PROVE IInv'
  OBVIOUS
<1>1. ASSUME NEW l \in Links,
             LoopStep(l) \/ Leave(l) \/ InputEnds(l) \/ Dispatch(l) \/ PeerStep(l)
      PROVE  IInv'
  <2>1. Serves(l) /\ UNCHANGED worldVars
    BY <1>1, LoopServes, LeaveServes, InputServes, DispatchServes, PeerServes
  <2>2. WorldOK'
    BY <2>1 DEF IInv, WorldOK, worldVars
  <2> QED BY <2>1, <2>2, ServesKeeps DEF IInv
<1>2. CASE TabStep
  <2>1. CASE Lost
    <3>1. PICK e \in BOOLEAN : Reschedule(e)
      BY <2>1 DEF Lost
    <3>2. Trying /\ UNCHANGED <<worldVars, link>>
      BY <2>1 DEF Lost
    <3>3. WorldOK'
      BY <3>2 DEF IInv, WorldOK, worldVars
    <3> QED BY <3>1, <3>2, <3>3, RescheduleKeeps DEF IInv
  <2>2. CASE ConnectTimeout
    <3>1. Trying /\ Reschedule(TRUE) /\ UNCHANGED <<worldVars, link>>
      BY <2>2 DEF ConnectTimeout
    <3>2. WorldOK'
      BY <3>1 DEF IInv, WorldOK, worldVars
    <3> QED BY <3>1, <3>2, RescheduleKeeps DEF IInv
  <2>3. CASE FallBack
    <3>1. WorldOK'
      BY <2>3 DEF FallBack, IInv, WorldOK, worldVars
    <3> QED BY <2>3, <3>1, UseKeeps DEF FallBack, IInv
  <2> QED BY <1>2, <2>1, <2>2, <2>3, ConnectKeeps, OpenedKeeps, MessageKeeps DEF TabStep
<1>3. CASE Refetch
  <2>1. WorldOK'
    BY <1>3, UpsetAssumption DEF Refetch, UpsetLeft, IInv, WorldOK, MaxViews
  <2> QED BY <1>3, <2>1, UseKeeps DEF Refetch, IInv
<1>4. CASE Close
  <2>1. WorldOK'
    BY <1>4 DEF Close, IInv, WorldOK, worldVars
  <2> QED BY <1>4, <2>1, UseKeeps DEF Close, IInv
<1>5. CASE SessionFails \/ SessionEnds \/ Expire
  <2>1. WorldOK'
    BY <1>5 DEF SessionFails, SessionEnds, Expire, IInv, WorldOK
  <2>2. UNCHANGED <<link, tabVars>>
    BY <1>5 DEF SessionFails, SessionEnds, Expire
  <2> QED BY <2>1, <2>2 DEF IInv, LinksOK, LinkInv, TabOK, TabInv, tabVars, OneConnection, Cut
<1>6. CASE Flap
  <2>1. Trying /\ Reschedule(FALSE) /\ UNCHANGED link
    BY <1>6 DEF Flap
  <2>2. WorldOK'
    BY <1>6, UpsetAssumption DEF Flap, UpsetLeft, IInv, WorldOK, MaxViews
  <2> QED BY <2>1, <2>2, RescheduleKeeps DEF IInv
<1>7. CASE UNCHANGED vars
  BY <1>7 DEF vars, worldVars, tabVars, IInv, WorldOK, LinksOK, LinkInv, TabOK, TabInv,
     OneConnection, Cut
<1> QED BY <1>1, <1>2, <1>3, <1>4, <1>5, <1>6, <1>7, BreakKeeps, WedgeKeeps DEF Next

LEMMA Invariance == Spec => []IInv
  BY InitOK, NextKeeps, PTL DEF Spec

\* Every link and the tab keep their types, for any number of links, attempts
\* and failures of the network.
THEOREM LiveTypeCorrect == Spec => []LiveTypeOK
<1>1. IInv => LiveTypeOK
  BY DEF IInv, WorldOK, LinksOK, TabOK, LiveTypeOK
<1> QED BY <1>1, Invariance, PTL

\* A tab that says it is connected is served, or is about to learn that it is
\* not: a peer that was left open after a failed send is the one it never learns
\* of, and a peer that opened late is replaced.
THEOREM ConnectedTheorem == Spec => []ConnectedIsServed
<1>1. IInv => ConnectedIsServed
  <2> SUFFICES ASSUME IInv, connected, ~error PROVE ConnectedIsServed
    BY DEF ConnectedIsServed
  <2>1. at \in Links
    BY DEF IInv, TabInv, TabOK
  <2>2. LinkOK(link[at])
    BY <2>1 DEF IInv, LinksOK, LinkInv
  <2>3. link[at].opened \/ (mode = "rtc" /\ hook = "opening")
    BY DEF IInv, TabInv
  <2> QED BY <2>1, <2>2, <2>3, LinkAssumption DEF ConnectedIsServed, LinkOK, Cut, Serving, Streaming
<1> QED BY <1>1, Invariance, PTL

\* Whatever made the tab let go of a connection, it closed it: no second one is
\* open beside the one it watches.
THEOREM OneConnectionTheorem == Spec => []OneConnection
<1>1. IInv => OneConnection
  BY DEF IInv, LinksOK
<1> QED BY <1>1, Invariance, PTL

\* A tab that has stopped trying says so.
THEOREM GivenUpTheorem == Spec => []GivenUpIsTold
<1>1. IInv => GivenUpIsTold
  BY DEF IInv, TabInv, GivenUpIsTold
<1> QED BY <1>1, Invariance, PTL

================================================================================
