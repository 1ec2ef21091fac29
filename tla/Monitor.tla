-------------------------------- MODULE Monitor --------------------------------
(***************************************************************************)
(* From the records of a task to the page of a browser: the monitor's loop *)
(* (cmd/claw-monitor) refreshes its index every second and announces a     *)
(* change, the server (server.go) passes announcements on over server-sent *)
(* events, and the page (web/app.js) fetches its view anew some time after *)
(* each of them.                                                           *)
(*                                                                         *)
(* An announcement says only that something changed.  A subscriber that is *)
(* slow is closed, a connection may break, and the browser comes back with *)
(* the last announcement it saw; requests of the page may overtake each    *)
(* other.                                                                  *)
(***************************************************************************)
EXTENDS MonitorIndex

CONSTANTS
  RingSize,   \* announcements the server keeps (1024 in Notify)
  ChanSize,   \* announcements a subscriber's channel holds (16 in stream)
  Courses     \* bound: what may happen in one behaviour

ASSUME StreamAssumption ==
  /\ {RingSize, ChanSize} \subseteq Nat \ {0}
  /\ \A c \in Courses :
       /\ {c.attempts, c.changes, c.requests} \subseteq Nat /\ c.watched \in BOOLEAN
       /\ c.reports \subseteq {"none", "partial", "analysis"}
       /\ c.faults \subseteq {"crash", "lost", "silence", "restore", "remove", "drop"}

VARIABLES
  notified,   \* the server's sequence of announcements
  ring,       \* the last of them
  subscribed, \* the page's channel is among the subscribers
  chan,       \* what the channel holds
  pending,    \* what the handler sends before it looks at the channel
  linked,     \* the page's connection and its handler exist
  cursor,     \* the page's Last-Event-ID; -1 before the first
  due,        \* the page's timer runs: it will fetch the view
  requests,   \* the requests of the page under way, with their answers
  page        \* the view it shows

serverVars == <<notified, ring, subscribed, chan, pending, linked>>
pageVars == <<cursor, due, requests, page>>
vars == <<indexVars, serverVars, pageVars>>

\* A page has been opened and has not been shown anything yet.
Init ==
  /\ IndexInit
  /\ course \in Courses /\ faults = course.faults
  /\ notified = 0 /\ ring = <<>>
  /\ subscribed = FALSE /\ chan = <<>> /\ pending = <<>> /\ linked = FALSE
  /\ cursor = -1 /\ due = FALSE /\ requests = <<>> /\ page = Absent

-----------------------------------------------------------------------------
(* The server.                                                             *)

lastOf(s, n) == IF Len(s) > n THEN Tail(s) ELSE s

\* The loop announces a change before it refreshes the index again.  A full
\* channel is closed; what it holds is still sent.
Notify ==
  /\ stage = "changed" /\ stage' = "idle"
  /\ notified' = notified + 1
  /\ ring' = lastOf(Append(ring, notified + 1), RingSize)
  /\ LET full == Len(chan) >= ChanSize
     IN /\ chan' = IF subscribed /\ ~full THEN Append(chan, notified + 1) ELSE chan
        /\ subscribed' = (subscribed /\ ~full)
  /\ UNCHANGED <<programVars, diskVars, readerVars, shown, pending, linked, pageVars>>

\* What the ring holds behind the place where it has n.
behind(n) == SubSeq(ring, 1 + CHOOSE i \in DOMAIN ring : ring[i] = n, Len(ring))

\* Mutant: a cursor the ring does not know is taken for the latest.
replayKnown == IF cursor \in Range(ring) THEN behind(cursor) ELSE <<>>

\* What followed the page's cursor, or the word to start anew.
replay == IF cursor \in Range(ring) THEN behind(cursor) ELSE <<notified>>

\* The handler finds what to replay and subscribes in one critical section.
Connect ==
  /\ ~linked /\ linked' = TRUE
  /\ course.watched
  /\ pending' = replay
  /\ chan' = <<>> /\ subscribed' = TRUE
  /\ UNCHANGED <<indexVars, notified, ring, pageVars>>

\* The page learns an announcement and starts its timer again.
Send ==
  /\ linked
  /\ \/ /\ pending # <<>>
        /\ cursor' = Head(pending) /\ pending' = Tail(pending) /\ UNCHANGED chan
     \/ /\ pending = <<>> /\ chan # <<>>
        /\ cursor' = Head(chan) /\ chan' = Tail(chan) /\ UNCHANGED pending
  /\ due' = TRUE
  /\ UNCHANGED <<indexVars, notified, ring, subscribed, linked, requests, page>>

cut == /\ linked' = FALSE /\ subscribed' = FALSE
       /\ chan' = <<>> /\ pending' = <<>>
       /\ UNCHANGED <<notified, ring, pageVars>>

\* The handler has sent what a closed channel held; the browser reconnects.
HangUp ==
  /\ linked /\ ~subscribed /\ pending = <<>> /\ chan = <<>>
  /\ cut /\ UNCHANGED indexVars

\* The connection breaks; what was under way is lost.
Drop ==
  /\ linked /\ fault("drop") /\ cut
  /\ UNCHANGED <<phase, attempts, queue, emitted, course, diskVars, stage, readerVars, shown>>

-----------------------------------------------------------------------------
(* The page.                                                               *)

NoAnswer == [Absent EXCEPT !.quality = "asked"]

\* The timer fires: the page asks for its view.
Fetch ==
  /\ due /\ due' = FALSE
  /\ Len(requests) < course.requests
  /\ requests' = Append(requests, NoAnswer)
  /\ UNCHANGED <<indexVars, serverVars, cursor, page>>

\* The server answers with the view of the moment.  It waits for the refresh
\* that is under way, which changes the view with its last step.
Answer ==
  /\ \E i \in DOMAIN requests :
       requests[i] = NoAnswer /\ requests' = [requests EXCEPT ![i] = shown]
  /\ UNCHANGED <<indexVars, serverVars, cursor, due, page>>

\* An answer arrives: it is shown if it is that of the last request, after
\* which all that were asked before are ignored.
Arrive ==
  /\ \E i \in DOMAIN requests :
       /\ requests[i] # NoAnswer
       /\ IF i = Len(requests)
          THEN page' = requests[i] /\ requests' = <<>>
          ELSE requests' = RemoveAt(requests, i) /\ UNCHANGED page
  /\ UNCHANGED <<indexVars, serverVars, cursor, due>>

-----------------------------------------------------------------------------

Work == Program /\ UNCHANGED <<serverVars, pageVars>>
Look == notified < course.changes /\ Refresh /\ UNCHANGED <<serverVars, pageVars>>

Loop == Look \/ Notify
Handler == Connect \/ Send \/ HangUp
Browser == Fetch \/ Answer \/ Arrive

Next == Work \/ Loop \/ Handler \/ Drop \/ Browser

Spec == Init /\ [][Next]_vars

-----------------------------------------------------------------------------

TypeOK ==
  /\ IndexTypeOK
  /\ Len(ring) <= RingSize /\ Len(chan) <= ChanSize
  /\ cursor \in -1 .. notified
  /\ {subscribed, linked, due} \subseteq BOOLEAN

\* No change is lost between the index and the page, wherever the connection
\* broke and whatever was announced meanwhile: as long as the page shows
\* something else than the index, something is under way that makes it fetch.
NothingMissed ==
  page # shown =>
    \/ stage = "changed" \/ ~linked \/ ~subscribed
    \/ pending # <<>> \/ chan # <<>>
    \/ due \/ \E i \in DOMAIN requests : i = Len(requests) /\ requests[i] \in {NoAnswer, shown}
=============================================================================
