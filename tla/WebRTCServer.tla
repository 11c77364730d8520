---------------------------- MODULE WebRTCServer ----------------------------
(***************************************************************************)
(* runtime_v2/serving/webrtc_server.py under webrtc_client_window.py: one  *)
(* browser at a time watches a run of sessions.                            *)
(*                                                                         *)
(* Two threads.  The run's thread (`main') opens the window for each       *)
(* session, writes, resizes, polls and closes it, and waits for the loop   *)
(* when it must; the server's event loop negotiates, releases peers and    *)
(* buffers messages.  An action is what a thread does between two awaits,  *)
(* waits or reads of what the other thread writes.  A track is what        *)
(* VideoTrack says of it: here, the sessions whose frames are in it.       *)
(***************************************************************************)
EXTENDS Integers, Sequences, FiniteSets

CONSTANTS Peers,       \* bound: offers a browser makes
          None,
          Server,      \* who waits for a peer that _shutdown releases
          MaxSessions, \* bound: sessions of the run
          MaxEvents    \* bound: events in the buffer

ASSUME NamesAreApart == None # Server /\ {None, Server} \cap Peers = {}
ASSUME BoundsAreNat == {MaxSessions, MaxEvents} \subseteq Nat

VARIABLES
    closed,    \* _closed
    session,   \* the session whose description is in _session_desc, 0: none
    main,      \* what the run's thread is in the middle of
    target,    \* the track it has read and goes on with
    lock,      \* _offer_lock: the offers that hold it and wait for it
    place,     \* per peer: how far its connection has come
    active,    \* _peer_connection
    track,     \* _video_track: the peer it belongs to
    waiter,    \* per peer that closes: the offer, or Server, that waits for it
    box,       \* per peer: the sessions whose frames are in its track
    epoch,     \* timestamps: the session whose open read the clock last
    message,   \* the message the loop is in the middle of, if any: its timestamp
    events     \* _input_events: their timestamps

peers == <<lock, place, active, track, waiter>>
input == <<epoch, message, events>>
vars == <<closed, session, main, target, peers, box, input>>

Init ==
    /\ closed = FALSE /\ session = 0 /\ main = "idle" /\ target = None
    /\ lock = <<>> /\ active = None /\ track = None
    /\ place = [p \in Peers |-> "none"]
    /\ waiter = [p \in Peers |-> None]
    /\ box = [p \in Peers |-> {}]
    /\ epoch = 0 /\ message = <<>> /\ events = <<>>

LoopIsFree == main # "stopped" /\ message = <<>>
Holds(p) == lock # <<>> /\ Head(lock) = p

-----------------------------------------------------------------------------
\* open: discard the frames of the replaced session, then keep the session's
\* description, take its clock and clear the input of the handoff.
UseTrack(doing) == main' = doing /\ target' = track

Open ==
    /\ main = "idle" /\ session < MaxSessions
    /\ IF track # None THEN UseTrack("starting") ELSE UseTrack("opened")
    /\ UNCHANGED <<closed, session, peers, box, input>>

Resize ==
    /\ main = "idle" /\ session > 0 /\ track # None
    /\ UseTrack("resizing")
    /\ UNCHANGED <<closed, session, peers, box, input>>

\* Mutation: the frames that are queued stay.
StartSessionKeepsFrames ==
    /\ main \in {"starting", "resizing"} /\ LoopIsFree
    /\ main' = IF main = "starting" THEN "opened" ELSE "idle"
    /\ target' = None
    /\ UNCHANGED <<closed, session, peers, box, input>>

\* _start_session_if_active, on the loop; the caller may have timed out.
StartSession ==
    /\ main \in {"starting", "resizing"} /\ LoopIsFree
    /\ box' = [box EXCEPT ![target] = IF track = target THEN {} ELSE @]
    /\ main' = IF main = "starting" THEN "opened" ELSE "idle"
    /\ target' = None
    /\ UNCHANGED <<closed, session, peers, input>>

TimesOut ==
    /\ main \in {"starting", "resizing"}
    /\ main' = "failed" /\ target' = None
    /\ UNCHANGED <<closed, session, peers, box, input>>

Describe ==
    /\ main = "opened"
    /\ session' = session + 1 /\ main' = "described"
    /\ UNCHANGED <<closed, target, peers, box, input>>

ReadClock ==
    /\ main = "described"
    /\ epoch' = session /\ main' = "clearing"
    /\ UNCHANGED <<closed, session, target, peers, box, message, events>>

\* Mutation: the window keeps what it has buffered.
ClearNothing ==
    /\ main = "clearing" /\ main' = "idle"
    /\ UNCHANGED <<closed, session, target, peers, box, input>>

ClearInput ==
    /\ main = "clearing"
    /\ events' = <<>> /\ main' = "idle"
    /\ UNCHANGED <<closed, session, target, peers, box, epoch, message>>

\* get_user_input_events
Poll ==
    /\ main = "idle" /\ events # <<>>
    /\ events' = <<>>
    /\ UNCHANGED <<closed, session, main, target, peers, box, epoch, message>>

\* write: read _video_track, materialize the frame, enqueue it.
Write ==
    /\ main = "idle" /\ session > 0 /\ track # None
    /\ UseTrack("writing")
    /\ UNCHANGED <<closed, session, peers, box, input>>

Enqueue ==
    /\ main = "writing"
    /\ box' = [box EXCEPT ![target] =
                  IF place[target] = "up" THEN @ \cup {session} ELSE @]
    /\ main' = "idle" /\ target' = None
    /\ UNCHANGED <<closed, session, peers, input>>

\* aiortc takes the oldest frames first.
Send ==
    /\ LoopIsFree /\ track # None /\ box[track] # {}
    /\ box' = [box EXCEPT ![track] = {s \in @ : \E r \in @ : r < s}]
    /\ UNCHANGED <<closed, session, main, target, peers, input>>

-----------------------------------------------------------------------------
\* _offer, from the request to the lock and then to the answer.
Offer(p) ==
    /\ LoopIsFree /\ place[p] = "none"
    /\ IF closed \/ session = 0
       THEN place' = [place EXCEPT ![p] = "refused"] /\ UNCHANGED lock
       ELSE place' = [place EXCEPT ![p] = "waiting"] /\ lock' = Append(lock, p)
    /\ UNCHANGED <<closed, session, main, target, active, track, waiter, box,
                   input>>

\* Mutation: an offer that is refused keeps the lock.
NegotiateKeepsLock(p) ==
    /\ LoopIsFree /\ Holds(p) /\ place[p] = "waiting"
    /\ place' = [place EXCEPT ![p] = IF closed THEN "refused" ELSE "negotiating"]
    /\ UNCHANGED <<closed, session, main, target, lock, active, track, waiter, box, input>>

Negotiate(p) ==
    /\ LoopIsFree /\ Holds(p) /\ place[p] = "waiting"
    /\ IF closed
       THEN place' = [place EXCEPT ![p] = "refused"] /\ lock' = Tail(lock)
       ELSE place' = [place EXCEPT ![p] = "negotiating"] /\ UNCHANGED lock
    /\ UNCHANGED <<closed, session, main, target, active, track, waiter, box,
                   input>>

\* Mutation: the track of the peer that is released stays the server's.
DetachPeer == active' = None /\ UNCHANGED track

\* The first part of _release_peer_connection: detach the peer and close its
\* track; peer_connection.close() is awaited, by w.
Detach == active' = None /\ track' = None
Release(p, w) ==
    /\ place' = [place EXCEPT ![p] = "closing"]
    /\ waiter' = [waiter EXCEPT ![p] = w]
    /\ box' = [box EXCEPT ![p] = {}]
Install(p) == active' = p /\ track' = p /\ lock' = Tail(lock)

\* The end of _shutdown: it takes and closes the track that is the server's by
\* now, also that of a peer an offer installed while _shutdown waited.
TakeTrack == track' = None /\ box' = [p \in Peers |-> IF p = track THEN {} ELSE box[p]]

\* The peers have an answer, or not.  A new browser takes the place of the old.
Negotiated(p) ==
    /\ LoopIsFree /\ Holds(p) /\ place[p] = "negotiating"
    /\ \/ Release(p, p) /\ UNCHANGED <<lock, active, track>>
       \/ /\ active = None
          /\ Install(p)
          /\ place' = [place EXCEPT ![p] = "up"]
          /\ UNCHANGED <<waiter, box>>
       \/ /\ active # None
          /\ place' = [place EXCEPT ![active] = "closing", ![p] = "replacing"]
          /\ waiter' = [waiter EXCEPT ![active] = p]
          /\ box' = [box EXCEPT ![active] = {}]
          /\ Detach
          /\ UNCHANGED lock
    /\ UNCHANGED <<closed, session, main, target, input>>

\* A control channel or a connection is gone.
Disconnect ==
    /\ LoopIsFree /\ active # None
    /\ Release(active, None) /\ Detach
    /\ UNCHANGED <<closed, session, main, target, lock, input>>

\* peer_connection.close() returns, or raises, and whoever waits for it goes
\* on: the offer that gave up, _shutdown, or the offer that replaces the peer.
PeerCloses(p) ==
    LET w == waiter[p] IN
    /\ LoopIsFree /\ place[p] = "closing"
    /\ \/ /\ w \in {None, Server, p}
          /\ place' = [place EXCEPT ![p] = "closed"]
          /\ lock' = IF w = p THEN Tail(lock) ELSE lock
          /\ IF w = Server
             THEN main' = "cleaning" /\ TakeTrack
             ELSE UNCHANGED <<main, track, box>>
          /\ UNCHANGED <<active, waiter>>
       \/ /\ w \in Peers \ {p}
          /\ Install(w)
          /\ place' = [place EXCEPT ![p] = "closed", ![w] = "up"]
          /\ UNCHANGED <<main, waiter, box>>
       \/ /\ w \in Peers \ {p}
          /\ place' = [place EXCEPT ![p] = "closed", ![w] = "closing"]
          /\ waiter' = [waiter EXCEPT ![w] = w]
          /\ UNCHANGED <<main, lock, active, track, box>>
    /\ UNCHANGED <<closed, session, target, input>>

\* _buffer_browser_message: stamp the event, then append it under the window's
\* lock.  Messages of a peer that is not active are ignored.
Message ==
    /\ LoopIsFree /\ active # None /\ Len(events) < MaxEvents
    /\ message' = <<epoch>>
    /\ UNCHANGED <<closed, session, main, target, peers, box, epoch, events>>

AppendEvent ==
    /\ message # <<>>
    /\ events' = events \o message /\ message' = <<>>
    /\ UNCHANGED <<closed, session, main, target, peers, box, epoch>>

-----------------------------------------------------------------------------
\* close: wait for the track to drain or two seconds, release the peer on the
\* loop, wait for the handlers that still run, stop the loop.
Close ==
    /\ main \in {"idle", "failed"}
    /\ closed' = TRUE /\ main' = "draining"
    /\ UNCHANGED <<session, target, peers, box, input>>

Drained ==
    /\ main = "draining"
    /\ main' = "shutting"
    /\ UNCHANGED <<closed, session, target, peers, box, input>>

Shutdown ==
    /\ main = "shutting" /\ LoopIsFree
    /\ IF active = None
       THEN main' = "cleaning" /\ TakeTrack /\ UNCHANGED <<place, active, waiter>>
       ELSE main' = "releasing" /\ Release(active, Server) /\ Detach
    /\ UNCHANGED <<closed, session, target, lock, input>>

Stop ==
    /\ main = "cleaning" /\ LoopIsFree /\ lock = <<>>
    /\ main' = "stopped"
    /\ UNCHANGED <<closed, session, target, peers, box, input>>

-----------------------------------------------------------------------------
Main == Describe \/ ReadClock \/ ClearInput \/ Enqueue \/ Drained
Loop ==
    \/ StartSession \/ AppendEvent \/ Shutdown \/ Stop
    \/ \E p \in Peers : Negotiate(p) \/ Negotiated(p) \/ PeerCloses(p)
Next ==
    \/ Main \/ Loop
    \/ Open \/ Resize \/ TimesOut \/ Poll \/ Write \/ Send \/ Disconnect \/ Message
    \/ Close \/ \E p \in Peers : Offer(p)

\* Each thread goes on with what it has begun; the loop runs callbacks in the
\* order they became ready, so messages cannot keep one out for ever, and each
\* peer's handlers are few.  What browsers and the run ask for may never come.
Fairness == /\ WF_vars(Main)
            /\ SF_vars(StartSession) /\ WF_vars(AppendEvent) /\ SF_vars(Shutdown)
            /\ SF_vars(Stop)
            /\ SF_vars(\E p \in Peers : Negotiate(p) \/ Negotiated(p) \/ PeerCloses(p))
Spec == Init /\ [][Next]_vars /\ Fairness

-----------------------------------------------------------------------------
TypeOK ==
    /\ closed \in BOOLEAN /\ session \in 0 .. MaxSessions /\ epoch \in 0 .. MaxSessions
    /\ main \in {"idle", "starting", "resizing", "writing", "failed", "opened", "described", "clearing",
                 "draining", "shutting", "releasing", "cleaning", "stopped"}
    /\ {target, active, track} \subseteq Peers \cup {None}
    /\ waiter \in [Peers -> Peers \cup {None, Server}]
    /\ lock \in Seq(Peers)
    /\ place \in [Peers -> {"none", "waiting", "refused", "negotiating", "replacing",
                         "up", "closing", "closed"}]
    /\ box \in [Peers -> SUBSET (1 .. MaxSessions)]
    /\ {message, events} \subseteq Seq(0 .. epoch)

\* A peer that is connected is the active one and has the track that write
\* finds: replacing, failing and disconnecting peers in any order leaves none
\* open that no release would find and none without its track.  Only _shutdown
\* takes the track of a connected peer, one that came while it waited for the
\* release of another, when the run writes no more.
UpPeerIsActive ==
    /\ TypeOK
    /\ \A p \in Peers : place[p] = "up" <=> active = p
    /\ track # active => track = None /\ main \in {"cleaning", "stopped"}

\* When open has returned, no frame of the replaced session is in the track
\* the browser watches, also if the browser was replaced meanwhile.
NewSessionStartsClean ==
    main \in {"described", "clearing", "idle"} /\ track # None => box[track] \subseteq {session}

\* close returns once the loop has run what was begun.
ServerStops == closed ~> main = "stopped"

\* The input of a session's handoff is cleared by open before the session can
\* poll: of what was stamped before the session's clock was read, no more than
\* the message the loop was in the middle of can reach the session.
HandoffKeepsOneEvent ==
    main = "idle" => Cardinality({i \in 1 .. Len(events) : events[i] # epoch}) <= 1

\* What the docstring of WebRTCClientWindow (webrtc_client_window.py:28) says of
\* a handoff: no input aimed at a completed session's UI reaches the next one.
NoInputOfCompletedUi ==
    main = "idle" => \A i \in 1 .. Len(events) : events[i] \notin 1 .. session - 1
=============================================================================
