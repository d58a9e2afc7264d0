------------------------------- MODULE LiveView -------------------------------
(***************************************************************************)
(* One tab of the web UI that watches one session, and the service it      *)
(* watches it through: use-live-view.ts with its two hooks, the web socket *)
(* handler of internal/adapters/http/server.go and the peer connections of *)
(* live_webrtc.go. The tab starts with WebRTC, falls back to the socket    *)
(* and reconnects both; the service authorises a connection once, then     *)
(* captures a frame per tick until a capture or a send fails.              *)
(*                                                                         *)
(* Every attempt of the tab to connect is a link, with its two ends and    *)
(* the wire between them. A link is used again when nothing is left of its *)
(* last use, or only what waits for ever. What a capture and a dispatch do *)
(* on the worker is WorkerChannel's: here they end, unless the stdin of    *)
(* the worker is full for good. Frames are not told apart.                 *)
(***************************************************************************)
EXTENDS Naturals

CONSTANTS
  Links,         \* connections that exist at the same time
  NoLink,        \* the tab has none
  RtcTries,      \* maxReconnectAttempts of use-browser-live-rtc.ts
  SocketTries,   \* maxReconnectAttempts of use-browser-live-socket.ts
  MaxUpsets      \* bound: failures of the network, a wedged worker, further views

ASSUME LinkAssumption == NoLink \notin Links
ASSUME TryAssumption == RtcTries \in Nat /\ SocketTries \in Nat
ASSUME UpsetAssumption == MaxUpsets \in Nat

VARIABLES
  session,     \* running; failing: its row is RUNNING, its captures fail; ended
  views,       \* live views created so far, the last of them in use
  expired,     \* the first so many have expired: they all live for the same time
  drops,       \* failures of the network and of the worker so far
  wedged,      \* the worker of the session will not read its full stdin again
  link,        \* both server loops, the wire and the peer's context per link
  mode,        \* the transport the tab uses, or "left"
  hook,        \* where the transport's hook is
  at,          \* the link it holds
  tries,       \* its attempts
  connected,   \* what the viewer sees: connected,
  error        \* and an error

worldVars == <<session, views, expired, drops, wedged>>
tabVars == <<mode, hook, at, tries, connected, error>>
vars == <<worldVars, link, tabVars>>

MaxViews == MaxUpsets + 1
UpsetLeft == drops + views <= MaxUpsets

------------------------------------------------------------------------------
(* Links. mail: the error message is on its way to the tab; opened: the tab *)
(* has seen it open; ctx: of the request of a socket, of a peer.           *)

\* muted: the loop of a peer ended on a send that failed, the peer is open.
\* blocked: the mutex or the stdin of a wedged worker is waited for, and neither
\* heeds the context of the caller.
Streaming == {"tick", "capture", "blocked"}
Serve == {"asked", "gather", "answered", "muted", "ended"} \cup Streaming
Input == {"off", "listening", "blocked", "ended"}

LinkState ==
  [kind : {"socket", "peer"}, view : 1..MaxViews, serve : Serve, input : Input,
   wire : {"open", "closed"}, mail : BOOLEAN, opened : BOOLEAN, ctx : {"live", "done"}]

Asked(k, v) ==
  [kind |-> k, view |-> v, serve |-> "asked", input |-> "off",
   wire |-> "open", mail |-> FALSE, opened |-> FALSE, ctx |-> "live"]

Finished ==
  [kind |-> "socket", view |-> 1, serve |-> "ended", input |-> "off",
   wire |-> "closed", mail |-> FALSE, opened |-> FALSE, ctx |-> "done"]

\* Nothing of a link is left in the service, no loop, no peer, no goroutine, but
\* what is blocked: its loop, which keeps the request of a socket, or its input.
Over(s) ==
  /\ s.serve \in {"ended", "muted", "blocked"}
  /\ s.input \in {"off", "ended", "blocked"}
  /\ s.wire = "closed"
  /\ s.ctx = "done" \/ (s.kind = "socket" /\ s.serve = "blocked")

Blocked(s) == "blocked" \in {s.serve, s.input}

\* What a link that is over leaves behind.
Remains(s) ==
  [Finished EXCEPT !.serve = IF s.serve = "blocked" THEN "blocked" ELSE @,
                   !.input = IF s.input = "blocked" THEN "blocked" ELSE @]

Ended(l) == Over(link[l])

Init ==
  /\ session = "running"
  /\ views = 1
  /\ expired = 0
  /\ drops = 0
  /\ wedged = FALSE
  /\ link = [l \in Links |-> Finished]
  /\ mode = "rtc"
  /\ hook = "waiting"
  /\ at = NoLink
  /\ tries = 0
  /\ connected = FALSE
  /\ error = FALSE

------------------------------------------------------------------------------
(* The service. Its two loops per link, the frames and the input, change   *)
(* nothing but the link.                                                   *)

Kind(l, k) == link[l].kind = k
Serving(l, where) == link[l].serve = where
Cut(l) == link[l].wire = "closed"

\* A link both ends have left is as it was before its first use, but for what is
\* blocked for ever.
To(l, s) ==
  /\ link' = [link EXCEPT ![l] = IF Over(s) /\ at # l THEN Remains(s) ELSE s]
  /\ UNCHANGED <<worldVars, tabVars>>

ServeTo(l, where) == To(l, [link[l] EXCEPT !.serve = where])
ContextDone(l) == To(l, [link[l] EXCEPT !.ctx = "done"])
InputEnded(l) == To(l, [link[l] EXCEPT !.input = "ended"])

\* A handler that ends its connection, which ends the context too.
Shut(s) == [s EXCEPT !.serve = "ended", !.wire = "closed", !.ctx = "done"]

\* What a loop ends with. A socket's handler closes its connection, the frame
\* pump of a peer leaves the peer as it is.
Stopped(s) == IF s.kind = "socket" THEN Shut(s) ELSE [s EXCEPT !.serve = "ended"]

\* AuthorizeBrowserLiveView: the token's view, then the session's row.
Authorised(l) == link[l].view > expired /\ session # "ended"

Streams(l) == To(l, [link[l] EXCEPT !.serve = "tick", !.input = "listening"])

\* The authorisation and the upgrade, or an answer that refuses it.
Upgrade(l) ==
  /\ Serving(l, "asked") /\ Kind(l, "socket")
  /\ \/ Authorised(l) /\ Streams(l)
     \/ ~Authorised(l) /\ To(l, Shut(link[l]))

CreateAnswer(l) ==
  /\ Serving(l, "asked") /\ Kind(l, "peer")
  /\ \/ Authorised(l) /\ ServeTo(l, "gather")
     \/ ~Authorised(l) /\ To(l, Shut(link[l]))

\* Gathering ends in time, or one of the steps of the answer fails.
Answer(l) ==
  /\ Serving(l, "gather")
  /\ \/ ServeTo(l, IF Cut(l) THEN "ended" ELSE "answered")
     \/ To(l, Shut(link[l]))

ChannelOpens(l) == Serving(l, "answered") /\ ~Cut(l) /\ Streams(l)

\* Mutant of Tell: the loop ends on the error before the message is sent.
TellNothing(l) == To(l, Stopped(link[l]))

\* A message that cannot be sent ends the loop; what has ended a peer's is seen
\* by nobody while the peer is open.
SendFails(l) ==
  \/ Kind(l, "socket") /\ To(l, Shut(link[l]))
  \/ Kind(l, "peer") /\ ServeTo(l, IF Cut(l) THEN "ended" ELSE "muted")

\* The capture's error is the last message of its link.
Tell(l) ==
  \/ ~Cut(l) /\ To(l, [Stopped(link[l]) EXCEPT !.mail = TRUE])
  \/ SendFails(l)

\* A tick: the pump of a peer asks whether its channel is open, then both look
\* the session up in the registry.
Tick(l) ==
  /\ Serving(l, "tick")
  /\ \/ Kind(l, "peer") /\ Cut(l) /\ ServeTo(l, "ended")
     \/ /\ Kind(l, "peer") => ~Cut(l)
        /\ \/ session = "running" /\ ServeTo(l, IF wedged THEN "blocked" ELSE "capture")
           \/ session # "running" /\ Tell(l)

\* The worker's answer is sent, which may succeed although the other end is
\* gone, or there is none: an error of the worker, a wrong answer, the end of
\* the five seconds. They are only looked at once the capture has the mutex and
\* its line is written: a task ahead of it may have used them up.
Capture(l) ==
  /\ Serving(l, "capture")
  /\ \/ ServeTo(l, "tick")
     \/ SendFails(l)
     \/ Tell(l)

\* The other branches of the two selects: the reader's error, which its channel
\* of capacity one keeps, and the end of the peer's context.
Leave(l) ==
  /\ Serving(l, "tick")
  /\ \/ Kind(l, "socket") /\ link[l].input = "ended"
     \/ Kind(l, "peer") /\ link[l].ctx = "done"
  /\ To(l, Stopped(link[l]))

\* Mutant of InputEnds: the reader waits for its handler to take the error.
InputEndsHandedOver(l) ==
  /\ link[l].input = "listening"
  /\ Cut(l)
  /\ Serving(l, "tick")
  /\ InputEnded(l)

\* readLiveMessages, and OnMessage of a peer: messages of the tab are dispatched
\* one at a time until the connection ends. The outcome of a dispatch is only
\* logged, so one that ends leaves no trace.
InputEnds(l) == link[l].input = "listening" /\ Cut(l) /\ InputEnded(l)

\* A dispatch on a wedged worker. What the tab sent before its connection ended
\* may as well be read before it.
Dispatch(l) ==
  /\ wedged /\ session = "running"
  /\ link[l].input = "listening" /\ ~Cut(l)
  /\ To(l, [link[l] EXCEPT !.input = "blocked"])

\* A peer whose context is not done.
Alive(l) == Kind(l, "peer") /\ ~Serving(l, "asked") /\ link[l].ctx = "live"

\* livePeerContext: the peer's context ends with the view.
Deadline(l) == Alive(l) /\ link[l].view <= expired /\ ContextDone(l)

\* OnConnectionStateChange: the other end is gone, or never came.
PeerGone(l) == Alive(l) /\ Cut(l) /\ ContextDone(l)

\* The goroutine that waits for the context closes the peer.
ClosePeer(l) ==
  /\ Kind(l, "peer") /\ link[l].ctx = "done"
  /\ ~Cut(l) \/ Serving(l, "answered")
  /\ To(l, [link[l] EXCEPT !.wire = "closed",
              !.serve = IF Serving(l, "answered") THEN "ended" ELSE @])

LoopStep(l) ==
  \/ Upgrade(l) \/ CreateAnswer(l) \/ Answer(l) \/ ChannelOpens(l)
  \/ Tick(l) \/ Capture(l)
PeerStep(l) == Deadline(l) \/ PeerGone(l) \/ ClosePeer(l)

------------------------------------------------------------------------------
(* The tab. One of the two hooks has a path, the other one is reset.       *)

MaxTries == IF mode = "rtc" THEN RtcTries ELSE SocketTries

\* The effect that falls back on an error runs before the next event.
Rendered == mode # "left" /\ ~(mode = "rtc" /\ error)

\* closePeer and closeSocket: no handler of the link is called any more.
Closed(s) ==
  LET c == [s EXCEPT !.wire = "closed", !.mail = FALSE, !.opened = FALSE]
  IN IF Over(c) THEN Remains(c) ELSE c
Hangup == IF at = NoLink THEN link ELSE [link EXCEPT ![at] = Closed(@)]

\* Mutant of Connect: the hook does not keep the connection it has opened.
ConnectUnkept(l) ==
  /\ Rendered
  /\ hook = "waiting"
  /\ Ended(l) /\ l # at
  /\ link' = [Hangup EXCEPT ![l] = Asked(IF mode = "rtc" THEN "peer" ELSE "socket", views)]
  /\ hook' = "opening"
  /\ UNCHANGED <<worldVars, mode, at, tries, connected, error>>

\* connect and openSocket: due at first and after a reconnect's delay.
Connect(l) ==
  /\ Rendered
  /\ hook = "waiting"
  /\ Ended(l) /\ l # at
  /\ link' = [Hangup EXCEPT ![l] = Asked(IF mode = "rtc" THEN "peer" ELSE "socket", views)]
  /\ at' = l
  /\ hook' = "opening"
  /\ UNCHANGED <<worldVars, mode, tries, connected, error>>

\* onopen. The handlers of a peer stay until the next one is created, so its
\* channel may open although the hook has scheduled a reconnect.
Opened ==
  /\ Rendered
  /\ hook = "opening" \/ (mode = "rtc" /\ hook = "waiting")
  /\ at # NoLink
  /\ link[at].input # "off" /\ ~link[at].opened
  /\ hook' = IF hook = "opening" THEN "open" ELSE hook
  /\ link' = [link EXCEPT ![at].opened = TRUE]
  /\ tries' = 0
  /\ connected' = TRUE
  /\ error' = FALSE
  /\ UNCHANGED <<worldVars, mode, at>>

\* scheduleReconnect, with the error its caller has set.
Reschedule(failure) ==
  /\ connected' = FALSE
  /\ IF tries >= MaxTries
     THEN hook' = "stopped" /\ error' = TRUE /\ UNCHANGED tries
     ELSE hook' = "waiting" /\ error' = (error \/ failure) /\ tries' = tries + 1
  /\ UNCHANGED <<mode, at>>

Trying == Rendered /\ hook \in {"opening", "open"}

\* onclose, a failed state, or the error of a negotiation that was refused. A
\* message that came before the close of a socket is handled before it.
Lost ==
  /\ Trying
  /\ Cut(at)
  /\ Kind(at, "socket") => ~link[at].mail
  /\ \/ Reschedule(FALSE)
     \/ mode = "rtc" /\ hook = "opening" /\ Reschedule(TRUE)
  /\ UNCHANGED <<worldVars, link>>

\* The timer of twelve seconds.
ConnectTimeout ==
  /\ Trying
  /\ mode = "rtc" /\ hook = "opening"
  /\ Reschedule(TRUE)
  /\ UNCHANGED <<worldVars, link>>

\* handleMessage with an error: the hook is fatal and closes what it has. The
\* one of WebRTC does not reset connected.
Message ==
  /\ Rendered
  /\ at # NoLink /\ link[at].mail /\ link[at].opened
  /\ error' = TRUE
  /\ connected' = IF mode = "socket" THEN FALSE ELSE connected
  /\ hook' = "stopped"
  /\ link' = Hangup
  /\ at' = NoLink
  /\ UNCHANGED <<worldVars, mode, tries>>

\* The effects run again for another path: clean-up, resetState, a first attempt.
Use(transport) ==
  /\ link' = Hangup
  /\ mode' = transport
  /\ hook' = "waiting"
  /\ at' = NoLink
  /\ tries' = 0
  /\ connected' = FALSE
  /\ error' = FALSE

\* Mutant of FallBack: only the timer of eight seconds changes the transport.
FallBackOnTimer ==
  /\ mode = "rtc"
  /\ ~connected
  /\ Use("socket")
  /\ UNCHANGED worldVars

\* useLiveTransport: an error of WebRTC, or eight seconds without a connection.
FallBack ==
  /\ mode = "rtc"
  /\ error \/ ~connected
  /\ Use("socket")
  /\ UNCHANGED worldVars

\* The query runs again: another view with other paths, WebRTC first.
Refetch ==
  /\ Rendered
  /\ UpsetLeft
  /\ session # "ended"
  /\ views' = views + 1
  /\ Use("rtc")
  /\ UNCHANGED <<session, expired, drops, wedged>>

\* The tab is closed, or shows something else.
Close ==
  /\ mode # "left"
  /\ Use("left")
  /\ UNCHANGED worldVars

TabStep ==
  \/ \E l \in Links : Connect(l)
  \/ Opened \/ Lost \/ ConnectTimeout \/ Message \/ FallBack

------------------------------------------------------------------------------
(* The world.                                                              *)

\* The worker exits, or the session leaves the registry, which of the two it is
\* when the worker is wedged: its stop waits as well.
SessionFails ==
  /\ session = "running"
  /\ session' = "failing"
  /\ UNCHANGED <<views, expired, drops, wedged, link, tabVars>>

\* Its row is saved as stopped or expired.
SessionEnds ==
  /\ session = "failing"
  /\ session' = "ended"
  /\ UNCHANGED <<views, expired, drops, wedged, link, tabVars>>

Expire ==
  /\ expired < views
  /\ expired' = expired + 1
  /\ UNCHANGED <<session, views, drops, wedged, link, tabVars>>

\* The network loses a connection, with or without the message on its way.
Break(l) ==
  /\ UpsetLeft
  /\ ~Cut(l)
  /\ drops' = drops + 1
  /\ \/ link' = [link EXCEPT ![l].wire = "closed"]
     \/ link' = [link EXCEPT ![l].wire = "closed", ![l].mail = FALSE]
  /\ UNCHANGED <<session, views, expired, wedged, tabVars>>

\* A peer is disconnected for a moment and recovers: the hook reconnects.
Flap ==
  /\ UpsetLeft
  /\ Trying /\ mode = "rtc"
  /\ drops' = drops + 1
  /\ Reschedule(FALSE)
  /\ UNCHANGED <<session, views, expired, wedged, link>>

\* The stdin of the worker is full and the worker, which waits for room in its
\* stdout or hangs, neither reads on nor exits: calls that have not written
\* their line yet wait from now on. (A lack of room that ends is a delay.)
Wedge ==
  /\ UpsetLeft
  /\ ~wedged
  /\ drops' = drops + 1
  /\ wedged' = TRUE
  /\ \E captures \in SUBSET {l \in Links : Serving(l, "capture")},
        dispatches \in SUBSET {l \in Links : link[l].input = "listening"} :
       link' = [l \in Links |->
                 [link[l] EXCEPT !.serve = IF l \in captures THEN "blocked" ELSE @,
                                 !.input = IF l \in dispatches THEN "blocked" ELSE @]]
  /\ UNCHANGED <<session, views, expired, tabVars>>

Next ==
  \/ \E l \in Links :
       \/ LoopStep(l) \/ Leave(l) \/ InputEnds(l) \/ Dispatch(l)
       \/ PeerStep(l) \/ Break(l)
  \/ TabStep \/ Refetch \/ Close
  \/ SessionFails \/ SessionEnds \/ Flap \/ Expire \/ Wedge

Spec == Init /\ [][Next]_vars

\* Loops, goroutines, events and timers go on and time passes: a view expires.
\* A select takes a ready branch at random, so one that is ready again and again
\* is taken. No fairness ends what is blocked on a wedged worker. Nobody has to
\* stop the session, fetch another view, send input or leave.
FairSpec ==
  /\ Spec
  /\ \A l \in Links :
       /\ WF_vars(LoopStep(l)) /\ SF_vars(Leave(l))
       /\ WF_vars(InputEnds(l)) /\ WF_vars(PeerStep(l))
  /\ WF_vars(TabStep)
  /\ WF_vars(Expire)

------------------------------------------------------------------------------
(* Properties.                                                             *)

LiveTypeOK ==
  /\ session \in {"running", "failing", "ended"}
  /\ views \in 1..MaxViews
  /\ expired \in 0..views
  /\ drops \in Nat
  /\ drops + views <= MaxViews
  /\ wedged \in BOOLEAN
  /\ link \in [Links -> LinkState]
  /\ mode \in {"rtc", "socket", "left"}
  /\ hook \in {"waiting", "opening", "open", "stopped"}
  /\ at \in Links \cup {NoLink}
  /\ hook \in {"opening", "open"} => at # NoLink
  /\ tries \in Nat
  /\ connected \in BOOLEAN
  /\ error \in BOOLEAN

\* A tab that says it is connected, and shows no error, holds a link whose loop
\* goes on, or whose end it is about to learn: the message is on its way, the
\* wire is closed or about to be. The exceptions are a peer whose send failed, which
\* its pump leaves open behind it, one that opened when its successor was due,
\* and a loop that a wedged worker blocks.
ConnectedIsServed ==
  connected /\ ~error =>
    /\ at # NoLink
    /\ \/ link[at].serve \in {"tick", "capture", "muted"}
       \/ Serving(at, "blocked")
       \/ mode = "rtc" /\ hook = "opening"
       \/ link[at].mail
       \/ Cut(at)
       \/ link[at].ctx = "done"

\* The tab has one connection at most: whatever made it change the transport, the
\* view or the attempt, no other is open, so no peer and no socket of an earlier
\* attempt goes on capturing behind the one it watches.
OneConnection == \A l \in Links : ~Cut(l) => at = l

\* A hook gives up aloud: when it has stopped trying an error is shown, and the
\* viewer on the socket, which nothing follows, is not told it is connected.
GivenUpIsTold ==
  hook = "stopped" => error /\ (mode = "socket" => ~connected)

\* A connection the tab no longer holds, whatever it was doing, leaves nothing in
\* the service: handler, reader, pump, peer and context end. So does a peer whose
\* view has expired, also when the tab keeps it. (A socket does not.) The one
\* exception is what waits for a wedged worker: the capture or the dispatch
\* that does, and what waits for it, stays for ever, and all the rest ends.
ConnectionsEnd ==
  \A l \in Links :
    (at # l \/ (Kind(l, "peer") /\ link[l].view <= expired))
      ~> (Ended(l) /\ (Blocked(link[l]) => wedged))

\* Once the captures of a session fail the viewer is told so and stays told: it
\* is not connected and shows an error, whichever transport it was on and
\* whatever was lost, unless it leaves. One viewer is never told: the one on a
\* socket whose handler is blocked on the wedged worker. (A peer's view expires.)
ViewerTold ==
  (session # "running") ~>
    [](\/ mode = "left"
       \/ ~connected /\ error
       \/ mode = "socket" /\ at # NoLink /\ Serving(at, "blocked"))

==============================================================================
