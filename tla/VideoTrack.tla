----------------------------- MODULE VideoTrack -----------------------------
(***************************************************************************)
(* _VideoTrack of runtime_v2/serving/webrtc_server.py: the mailbox between *)
(* the run's thread, which writes frames, and aiortc's sender.             *)
(*                                                                         *)
(* Two threads: the run's (`writer') calls enqueue; everything else        *)
(* runs on the server's event loop (`loop'), one piece at a time.  An      *)
(* action is one section under _state_lock, or what follows it up to the   *)
(* next section or await: the other thread may come in between.            *)
(***************************************************************************)
EXTENDS Integers, Sequences, FiniteSets

CONSTANTS Capacity,  \* _INTERACTIVE_FRAME_QUEUE_SIZE
          MaxFrames, \* bound: frames enqueued
          MaxClock   \* bound: time.monotonic, in ticks of the RTP clock

ASSUME CapacityIsPositive == Capacity \in Nat \ {0}
ASSUME BoundsAreNat == MaxFrames \in Nat /\ MaxClock \in Nat

None == -1
Frames == [n : 1 .. MaxFrames, at : 0 .. MaxClock] \* at: enqueued_at
Counters == {"enqueued", "handed", "lag", "session", "close"}

VARIABLES
    clock,
    frames,    \* _frames
    available, \* _frame_available is set
    drained,   \* _sender_drained is set
    wake,      \* _wake_scheduled
    wakes,     \* _finish_enqueue callbacks the loop has still to run
    inFlight,  \* _frame_in_flight
    closed,    \* _closed
    first,     \* _first_enqueued_at
    nextPts,   \* _next_pts
    count,     \* the five counters of frames
    writer,    \* "idle", or "wake": about to schedule _finish_enqueue
    loop,      \* what the loop is in the middle of
    taken,     \* the frame recv has popped
    sender     \* recv: "away", "waiting" on the event, "woken", or "stopped"

track == <<frames, available, drained, wake, inFlight, closed, first, nextPts, count>>
vars == <<clock, track, wakes, writer, loop, taken, sender>>

Init ==
    /\ clock = 0 /\ frames = <<>> /\ available = FALSE /\ drained = TRUE
    /\ wake = FALSE /\ wakes = 0 /\ inFlight = FALSE /\ closed = FALSE
    /\ first = None /\ nextPts = 0
    /\ count = [c \in Counters |-> 0]
    /\ writer = "idle" /\ loop = "idle" /\ taken = <<>> /\ sender = "away"

Tick == clock < MaxClock /\ clock' = clock + 1
        /\ UNCHANGED <<track, wakes, writer, loop, taken, sender>>

-----------------------------------------------------------------------------
\* enqueue, on the run's thread: drop the oldest frame if full, and
\* schedule one wake-up unless there is one.
Oldest(seq) == IF Len(seq) >= Capacity THEN Tail(seq) ELSE seq

Enqueue ==
    /\ writer = "idle" /\ ~closed /\ count["enqueued"] < MaxFrames
    /\ LET kept == Oldest(frames) IN
         /\ frames' = Append(kept, [n |-> count["enqueued"] + 1, at |-> clock])
         /\ count' = [count EXCEPT !["enqueued"] = @ + 1,
                                   !["lag"] = @ + Len(frames) - Len(kept)]
    /\ drained' = FALSE
    /\ writer' = IF wake THEN "idle" ELSE "wake"
    /\ wake' = TRUE
    /\ UNCHANGED <<clock, available, inFlight, closed, first, nextPts, wakes, loop,
                   taken, sender>>

ScheduleWake ==
    /\ writer = "wake"
    /\ writer' = "idle" /\ wakes' = wakes + 1
    /\ UNCHANGED <<clock, track, loop, taken, sender>>

-----------------------------------------------------------------------------
\* Event.set() wakes recv for good: a later clear() does not put it back.
SetEvent == /\ available' = TRUE
            /\ sender' = IF sender = "waiting" THEN "woken" ELSE sender

\* Mutation: the wake-up is not marked as done, so none follows.
FinishForgetsWake ==
    /\ loop = "idle" /\ wakes > 0
    /\ wakes' = wakes - 1 /\ loop' = "finish"
    /\ UNCHANGED <<clock, track, writer, taken, sender>>

FinishEnqueue ==
    /\ loop = "idle" /\ wakes > 0
    /\ wakes' = wakes - 1 /\ wake' = FALSE /\ loop' = "finish"
    /\ UNCHANGED <<clock, frames, available, drained, inFlight, closed, first, nextPts,
                   count, writer, taken, sender>>

\* recv: the frame of the last call has been sent.
Recv ==
    /\ loop = "idle" /\ sender = "away"
    /\ inFlight' = FALSE
    /\ drained' = (drained \/ (inFlight /\ frames = <<>>))
    /\ loop' = "next"
    /\ UNCHANGED <<clock, frames, available, wake, closed, first, nextPts, count, wakes,
                   writer, taken, sender>>

Woken ==
    /\ loop = "idle" /\ sender = "woken"
    /\ loop' = "next"
    /\ UNCHANGED <<clock, track, wakes, writer, taken, sender>>

\* _next_queued_frame: one turn of its loop.
NextQueuedFrame ==
    /\ loop = "next"
    /\ \/ /\ frames # <<>>
          /\ taken' = <<Head(frames)>> /\ frames' = Tail(frames)
          /\ available' = (available /\ Tail(frames) # <<>>)
          /\ loop' = "took" /\ sender' = "away"
       \/ /\ frames = <<>>
          /\ sender' = IF closed THEN "stopped" ELSE "waiting"
          /\ available' = (available /\ closed)
          /\ loop' = "idle"
          /\ UNCHANGED <<frames, taken>>
    /\ UNCHANGED <<clock, drained, wake, inFlight, closed, first, nextPts, count, wakes,
                   writer>>

\* The rest of _recv_one: stamp the frame and hand it to aiortc.
Larger(a, b) == IF a > b THEN a ELSE b
Pts(frame, since) == Larger(nextPts, frame.at - since)

HandOff ==
    LET frame == taken[1]
        since == IF first = None THEN frame.at ELSE first
    IN  /\ loop = "took"
        /\ first' = since
        /\ nextPts' = Pts(frame, since) + 1
        /\ inFlight' = TRUE
        /\ count' = [count EXCEPT !["handed"] = @ + 1]
        /\ taken' = <<>> /\ loop' = "idle"
        /\ UNCHANGED <<clock, frames, available, drained, wake, closed, wakes, writer,
                       sender>>

\* Mutation: the frames a new session discards are not counted.
StartSessionUncounted ==
    /\ loop = "idle" /\ ~closed
    /\ frames' = <<>> /\ first' = None
    /\ drained' = (drained \/ ~inFlight)
    /\ loop' = "session"
    /\ UNCHANGED <<clock, available, wake, inFlight, closed, nextPts, count, wakes,
                   writer, taken, sender>>

\* Mutation: a new session takes the frame that is being sent for sent.
StartSessionDrained ==
    /\ loop = "idle" /\ ~closed
    /\ frames' = <<>> /\ first' = None
    /\ count' = [count EXCEPT !["session"] = @ + Len(frames)]
    /\ drained' = TRUE
    /\ loop' = "session"
    /\ UNCHANGED <<clock, available, wake, inFlight, closed, nextPts, wakes, writer,
                   taken, sender>>

\* start_session, for a replacement session or a new window size.
StartSession ==
    /\ loop = "idle" /\ ~closed
    /\ frames' = <<>> /\ first' = None
    /\ count' = [count EXCEPT !["session"] = @ + Len(frames)]
    /\ drained' = (drained \/ ~inFlight)
    /\ loop' = "session"
    /\ UNCHANGED <<clock, available, wake, inFlight, closed, nextPts, wakes, writer,
                   taken, sender>>

Close ==
    /\ loop = "idle" /\ ~closed
    /\ closed' = TRUE /\ wake' = FALSE /\ frames' = <<>> /\ inFlight' = FALSE
    /\ count' = [count EXCEPT !["close"] = @ + Len(frames)]
    /\ drained' = TRUE
    /\ loop' = "close"
    /\ UNCHANGED <<clock, available, first, nextPts, wakes, writer, taken, sender>>

\* What follows the section of FinishEnqueue, Close and StartSession.
AfterSection ==
    /\ \/ loop \in {"finish", "close"} /\ SetEvent
       \/ loop = "session" /\ available' = FALSE /\ UNCHANGED sender
    /\ loop' = "idle"
    /\ UNCHANGED <<clock, frames, drained, wake, inFlight, closed, first, nextPts,
                   count, wakes, writer, taken>>

LoopGoesOn == FinishEnqueue \/ Woken \/ NextQueuedFrame \/ HandOff \/ AfterSection
Next == Tick \/ Enqueue \/ ScheduleWake \/ LoopGoesOn \/ Recv \/ StartSession \/ Close

\* Both threads run what they have begun and the callbacks that are due.  The
\* sender may never ask again, and nobody need start a session or close.
Spec == Init /\ [][Next]_vars
             /\ WF_vars(ScheduleWake) /\ WF_vars(FinishEnqueue) /\ WF_vars(Woken)
             /\ WF_vars(NextQueuedFrame) /\ WF_vars(HandOff) /\ WF_vars(AfterSection)

-----------------------------------------------------------------------------
QueuesOK == /\ frames \in Seq(Frames) /\ Len(frames) <= Capacity
            /\ taken \in Seq(Frames) /\ Len(taken) <= 1
FlagsOK == /\ available \in BOOLEAN /\ drained \in BOOLEAN /\ wake \in BOOLEAN
           /\ inFlight \in BOOLEAN /\ closed \in BOOLEAN
NumbersOK == /\ clock \in 0 .. MaxClock /\ first \in 0 .. MaxClock \cup {None}
             /\ nextPts \in Nat /\ wakes \in {0, 1} /\ count \in [Counters -> Nat]
ThreadsOK == /\ writer \in {"idle", "wake"}
             /\ loop \in {"idle", "finish", "next", "took", "session", "close"}
             /\ sender \in {"away", "waiting", "woken", "stopped"}
TypeOK == QueuesOK /\ FlagsOK /\ NumbersOK /\ ThreadsOK

\* Every frame that was admitted is handed to aiortc or counted as dropped for
\* lag, discarded for a session or discarded at the close, once.
FramesAccounted ==
    count["enqueued"] = count["handed"] + count["lag"] + count["session"] + count["close"]
                     + Len(frames) + Len(taken)

\* The server's close waits for _sender_drained.  It is set exactly while no
\* frame is queued, popped, or handed over without a later recv: not for a
\* frame dropped by a new session, and not before the last one is sent.
DrainedExactly ==
    drained <=> frames = <<>> /\ taken = <<>> /\ ~inFlight

\* A sender that waits is woken whenever there is a frame, whatever the other
\* thread did between the check and the wait: the track is a mailbox that
\* keeps the newest frames and gives one to whoever asks.
Mailbox == INSTANCE FrameMailbox
    WITH box <- frames, shut <- closed,
         asked <- (sender \in {"waiting", "woken"} \/ loop = "next")
ImplementsMailbox == Mailbox!Spec
=============================================================================
