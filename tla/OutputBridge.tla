---------------------------- MODULE OutputBridge ----------------------------
(***************************************************************************)
(* ThreadSafeWebRTCOutputBridge (serving/webrtc/services.py) between the   *)
(* realtime driver that writes to it and the BufferedVideoTrack it feeds.  *)
(*                                                                         *)
(* The model's worker thread submits one chunk of frames per step.  The    *)
(* driver, a task of the event loop, asks for the steps and begins a new   *)
(* generation between two of them.  A delivery is a task of the same loop  *)
(* that puts the frames of one chunk into the track.                       *)
(*                                                                         *)
(* The loop runs callbacks in the order they were scheduled, and that      *)
(* order is what the bridge relies on: `ready' is the loop's queue, an     *)
(* action of the loop runs its head to the next await, and what the other  *)
(* thread schedules is appended as it happens.  Its entries:               *)
(*   deliver c   run_coroutine_threadsafe's callback, makes the task       *)
(*   step c      the task of chunk c goes on                               *)
(*   cancel c    the task of chunk c is cancelled                          *)
(*   done c      the task is over: its future is settled                   *)
(*   flush c     makes the task that flushes; c is the newest chunk that   *)
(*               was stale when it was scheduled (history)                 *)
(*   empty c     that task runs                                            *)
(*   close 0     makes the task of the track's close()                     *)
(*   end 0       that task runs                                            *)
(*   turn 0      the driver goes on                                        *)
(***************************************************************************)
EXTENDS Integers, Sequences, SequencesExt, FiniteSets, FiniteSetsExt

CONSTANTS MaxPending,  \* max_pending_chunks
          MaxSize,     \* maxsize of the track, in frames
          FrameCount,  \* frames of a chunk
          CloseTrack,  \* close_track, the values to check
          MaxChunks,   \* bound: chunks submitted
          MaxGenerations \* bound: begin_generation after the first

ASSUME BoundsArePositive ==
    {MaxPending, MaxSize, FrameCount, MaxChunks} \subseteq Nat \ {0}
ASSUME ValuesToCheck == CloseTrack \subseteq BOOLEAN /\ MaxGenerations \in Nat

Chunks == 1 .. MaxChunks
Sentinel == 0 \* the None that close() puts into the track
Nobody == 0

VARIABLES
    closeTrack, bridgeClosed, generation,
    pending, \* _pending: the chunks whose futures the bridge tracks
    worker,  \* submit_chunk: [at, gen, stale], stale: popped, not cancelled yet
    submitted, \* chunks submitted
    gen,     \* per chunk: its generation
    ready,   \* the event loop's queue
    place,   \* per chunk: where its delivery is
    left,    \* per chunk: frames not in the track yet
    future,  \* per chunk: its concurrent future
    must,    \* per chunk: its next step raises CancelledError
    holder,  \* who holds _delivery_lock
    waiters, \* who waits for it, in order
    queue,   \* the frames in the track, by chunk
    ended,   \* the track is closed
    shown    \* chunk of the last frame the sender took

bridge == <<closeTrack, bridgeClosed, generation>>
tasks == <<place, left, must, holder, waiters>>
bridgeVars == <<bridge, pending, worker, submitted, gen, ready, tasks, future, queue,
                ended, shown>>

BridgeInit ==
    /\ closeTrack \in CloseTrack /\ bridgeClosed = FALSE /\ generation = 0
    /\ pending = {} /\ submitted = 0
    /\ worker = [at |-> "idle", gen |-> 0, stale |-> {}]
    /\ gen = [c \in Chunks |-> 0]
    /\ ready = << <<"turn", 0>> >>
    /\ place = [c \in Chunks |-> "none"]
    /\ left = [c \in Chunks |-> FrameCount]
    /\ future = [c \in Chunks |-> "none"]
    /\ must = [c \in Chunks |-> FALSE]
    /\ holder = Nobody /\ waiters = <<>>
    /\ queue = <<>> /\ ended = FALSE /\ shown = 0

\* future.cancel() of some chunks: it settles those that are pending, and tells
\* the loop to cancel their tasks.  (There are tasks: the driver's turn, and so
\* any cancel, comes after the callbacks that make them.)
Cancellable(cs) == {c \in cs : future[c] = "pending"}
InOrder(cs) == {told \in [1 .. Cardinality(cs) -> cs] :
                  /\ Range(told) = cs
                  /\ \A i, j \in DOMAIN told : i < j => told[i] < told[j]}
Cancels(told) == [i \in DOMAIN told |-> <<"cancel", told[i]>>]
Settle(cs) == future' = [c \in Chunks |-> IF c \in Cancellable(cs) THEN "cancelled"
                                                                  ELSE future[c]]
\* Mutation: cancelled deliveries leave their frames.
NoFlush(c) == <<>>

Flush(c) == << <<"flush", c>> >>

-----------------------------------------------------------------------------
\* The worker thread: submit_chunk, one action per section under the lock.
Refused == bridgeClosed \/ worker.gen < generation
Full == Cardinality(pending) >= MaxPending

\* submit_chunk returns; the driver hears of it.
Return(items) ==
    /\ worker' = [worker EXCEPT !.at = "idle"]
    /\ ready' = ready \o items \o << <<"turn", 0>> >>

NextSection == [enter |-> "recheck", recheck |-> "schedule"]

\* Refuse the chunk, or make room for it; the payload is prepared after "enter".
Section ==
    /\ worker.at \in DOMAIN NextSection /\ worker.stale = {}
    /\ IF Refused
       THEN Return(<<>>) /\ UNCHANGED pending
       ELSE /\ worker' = [worker EXCEPT !.at = NextSection[@],
                                        !.stale = IF Full THEN pending ELSE {}]
            /\ pending' = IF Full THEN {} ELSE pending
            /\ UNCHANGED ready
    /\ UNCHANGED <<bridge, submitted, gen, tasks, future, queue, ended, shown>>

\* Mutation: what overflows is flushed but not cancelled.
FlushStaleOnly ==
    /\ worker.stale # {}
    /\ ready' = ready \o Flush(Max(worker.stale))
    /\ worker' = [worker EXCEPT !.stale = {}]
    /\ UNCHANGED <<bridge, pending, submitted, gen, tasks, future, queue, ended, shown>>

CancelStale ==
    /\ worker.stale # {}
    /\ Settle(worker.stale)
    /\ \E told \in InOrder(Cancellable(worker.stale)) :
         ready' = ready \o Cancels(told) \o Flush(Max(worker.stale))
    /\ worker' = [worker EXCEPT !.stale = {}]
    /\ UNCHANGED <<bridge, pending, submitted, gen, tasks, queue, ended, shown>>

\* Mutation: the track is flushed for the chunk once that is scheduled.
ScheduleThenFlush ==
    LET c == submitted + 1 IN
    /\ worker.at = "schedule" /\ worker.stale = {} /\ ~Refused
    /\ Return(<< <<"deliver", c>> >> \o Flush(submitted))
    /\ submitted' = c
    /\ gen' = [gen EXCEPT ![c] = worker.gen]
    /\ place' = [place EXCEPT ![c] = "created"]
    /\ future' = [future EXCEPT ![c] = "pending"]
    /\ pending' = pending \cup {c}
    /\ UNCHANGED <<bridge, left, must, holder, waiters, queue, ended, shown>>

Schedule ==
    LET c == submitted + 1 IN
    /\ worker.at = "schedule" /\ worker.stale = {}
    /\ IF Refused
       THEN Return(<<>>) /\ UNCHANGED <<pending, submitted, gen, place, future>>
       ELSE /\ Return(<< <<"deliver", c>> >>)
            /\ submitted' = c
            /\ gen' = [gen EXCEPT ![c] = worker.gen]
            /\ place' = [place EXCEPT ![c] = "created"]
            /\ future' = [future EXCEPT ![c] = "pending"]
            /\ pending' = pending \cup {c}
    /\ UNCHANGED <<bridge, left, must, holder, waiters, queue, ended, shown>>

\* The worker plans the next step; only then does the driver ask for it.
Plan ==
    /\ worker.at = "plan"
    /\ Return(<<>>)
    /\ UNCHANGED <<bridge, pending, submitted, gen, tasks, future, queue, ended, shown>>

-----------------------------------------------------------------------------
Runs(kind) == ready # <<>> /\ Head(ready)[1] = kind
Then(items) == ready' = Tail(ready) \o items

\* The driver: another step, another generation, or the end.
Write ==
    /\ Runs("turn") /\ ~bridgeClosed /\ submitted < MaxChunks
    /\ worker' = [at |-> "enter", gen |-> generation, stale |-> {}]
    /\ Then(<<>>)
    /\ UNCHANGED <<bridge, pending, submitted, gen, tasks, future, queue, ended, shown>>

BeginGeneration ==
    /\ Runs("turn") /\ ~bridgeClosed /\ generation < MaxGenerations
    /\ generation' = generation + 1
    /\ Settle(pending) /\ pending' = {}
    /\ \E told \in InOrder(Cancellable(pending)) :
         Then(Cancels(told) \o Flush(submitted))
    /\ worker' = [worker EXCEPT !.at = "plan"]
    /\ UNCHANGED <<closeTrack, bridgeClosed, submitted, gen, tasks, queue, ended, shown>>

\* Mutation: close leaves the deliveries to themselves.
CloseAlone ==
    LET turn == Runs("turn") IN
    /\ ~bridgeClosed /\ (turn \/ worker.at # "idle")
    /\ bridgeClosed' = TRUE
    /\ ready' = (IF turn THEN Tail(ready) ELSE ready)
                    \o (IF closeTrack THEN << <<"close", 0>> >> ELSE <<>>)
    /\ UNCHANGED <<closeTrack, generation, pending, worker, submitted, gen, tasks, future,
                   queue, ended, shown>>

\* At the end of the run, or while a step is stuck and cleanup has timed out.
CloseBridge ==
    LET turn == Runs("turn") IN
    /\ ~bridgeClosed /\ (turn \/ worker.at # "idle")
    /\ bridgeClosed' = TRUE
    /\ Settle(pending) /\ pending' = {}
    /\ \E told \in InOrder(Cancellable(pending)) :
         ready' = (IF turn THEN Tail(ready) ELSE ready) \o Cancels(told)
                    \o (IF closeTrack THEN << <<"close", 0>> >> ELSE <<>>)
    /\ UNCHANGED <<closeTrack, generation, worker, submitted, gen, tasks, queue, ended,
                   shown>>

DriverIsDone ==
    /\ Runs("turn") /\ bridgeClosed
    /\ Then(<<>>)
    /\ UNCHANGED <<bridge, pending, worker, submitted, gen, tasks, future, queue, ended,
                   shown>>

-----------------------------------------------------------------------------
\* The delivery of a chunk, from the callback that makes its task.
MakeTask ==
    /\ Runs("deliver")
    /\ LET c == Head(ready)[2] IN
         /\ place' = [place EXCEPT ![c] = "new"]
         /\ Then(<< <<"step", c>> >>)
    /\ UNCHANGED <<bridge, pending, worker, submitted, gen, left, must, holder, waiters,
                   future, queue, ended, shown>>

Scheduled(c) == Contains(ready, <<"step", c>>)
\* Whoever blocks on a full track is woken when a frame leaves it.
WakePutter == IF holder # Nobody /\ place[holder] = "put" /\ ~Scheduled(holder)
              THEN << <<"step", holder>> >> ELSE <<>>
WakeFirst(seq) == IF seq = <<>> \/ Scheduled(Head(seq)) THEN <<>>
                  ELSE << <<"step", Head(seq)>> >>

\* asyncio.Lock is fair: who comes while others wait for it waits too.
LockIsFree == holder = Nobody /\ waiters = <<>>

CancelTask ==
    /\ Runs("cancel")
    /\ LET c == Head(ready)[2] IN
         /\ must' = [must EXCEPT ![c] = place[c] # "over"]
         /\ Then(IF place[c] # "over" /\ ~Scheduled(c) THEN << <<"step", c>> >>
                                                       ELSE <<>>)
    /\ UNCHANGED <<bridge, pending, worker, submitted, gen, place, left, holder, waiters,
                   future, queue, ended, shown>>

Stale(c) == bridgeClosed \/ gen[c] < generation
Over(c) == place' = [place EXCEPT ![c] = "over"]

\* CancelledError, thrown in by a cancel or raised by a check: leave the queue
\* for the delivery lock, or give it back.
Aborts(c) ==
    /\ must[c] \/ (place[c] \in {"new", "lock"} /\ Stale(c))
    /\ Over(c)
    /\ waiters' = RemoveFirst(waiters, c)
    /\ holder' = IF holder = c THEN Nobody ELSE holder
    /\ Then((IF holder' = Nobody /\ place[c] # "new" THEN WakeFirst(waiters') ELSE <<>>)
            \o << <<"done", c>> >>)
    /\ must' = [must EXCEPT ![c] = TRUE]
    /\ UNCHANGED <<left, queue>>

Waits(c) ==
    /\ ~must[c] /\ ~Stale(c)
    /\ place[c] = "new" /\ ~LockIsFree
    /\ place' = [place EXCEPT ![c] = "lock"]
    /\ waiters' = Append(waiters, c)
    /\ Then(<<>>)
    /\ UNCHANGED <<left, must, holder, queue>>

\* With the delivery lock: drop a track that is full, then put the frames, as
\* many as fit; the rest when there is room.  A closed track takes none but
\* the one that already waits.
Puts(c) ==
    LET granted == place[c] = "lock" \/ (place[c] = "new" /\ LockIsFree)
        kept == IF granted /\ Len(queue) >= FrameCount /\ ~ended THEN <<>> ELSE queue
        wanted == IF ~ended THEN left[c] ELSE IF granted THEN 0 ELSE 1
        put == Min({wanted, MaxSize - Len(kept)})
        rest == RemoveFirst(waiters, c)
    IN  /\ ~must[c]
        /\ (granted /\ ~Stale(c)) \/ place[c] = "put"
        /\ queue' = kept \o [i \in 1 .. put |-> c]
        /\ left' = [left EXCEPT ![c] = @ - put]
        /\ waiters' = rest
        /\ IF put < wanted
           THEN /\ place' = [place EXCEPT ![c] = "put"]
                /\ holder' = c
                /\ Then(<<>>)
                /\ UNCHANGED must
           ELSE /\ Over(c)
                /\ holder' = Nobody
                /\ must' = [must EXCEPT ![c] = Stale(c)]
                /\ Then(WakeFirst(rest) \o (IF Stale(c) THEN Flush(c) ELSE <<>>)
                        \o << <<"done", c>> >>)

Step ==
    /\ Runs("step")
    /\ LET c == Head(ready)[2] IN Aborts(c) \/ Waits(c) \/ Puts(c)
    /\ UNCHANGED <<bridge, pending, worker, submitted, gen, future, ended, shown>>

\* _on_done: the bridge forgets the future; a result that nobody cancelled is
\* reported to the browser.
Reports(c) == future[c] = "pending" /\ ~must[c]
Done ==
    /\ Runs("done")
    /\ LET c == Head(ready)[2] IN
         /\ future' = [future EXCEPT ![c] = IF Reports(c) THEN "reported" ELSE "cancelled"]
         /\ pending' = pending \ {c}
    /\ Then(<<>>)
    /\ UNCHANGED <<bridge, worker, submitted, gen, tasks, queue, ended, shown>>

-----------------------------------------------------------------------------
\* The track: flush, close, and the sender that takes a frame.
MakeTrackTask ==
    /\ \/ Runs("flush") /\ Then(<< <<"empty", Head(ready)[2]>> >>)
       \/ Runs("close") /\ Then(<< <<"end", 0>> >>)
    /\ UNCHANGED <<bridge, pending, worker, submitted, gen, tasks, future, queue, ended,
                   shown>>

Empty ==
    /\ Runs("empty")
    /\ IF ended THEN Then(<<>>) /\ UNCHANGED queue
                ELSE /\ queue' = <<>>
                     /\ Then(IF queue # <<>> THEN WakePutter ELSE <<>>)
    /\ UNCHANGED <<bridge, pending, worker, submitted, gen, tasks, future, ended, shown>>

EndTrack ==
    /\ Runs("end")
    /\ ended' = TRUE
    /\ queue' = <<Sentinel>>
    /\ Then(IF queue # <<>> THEN WakePutter ELSE <<>>)
    /\ UNCHANGED <<bridge, pending, worker, submitted, gen, tasks, future, shown>>

TakeFrame ==
    /\ queue # <<>> /\ ~ended
    /\ shown' = Head(queue)
    /\ queue' = Tail(queue)
    /\ ready' = ready \o WakePutter
    /\ UNCHANGED <<bridge, pending, worker, submitted, gen, tasks, future, ended>>

Worker == Section \/ CancelStale \/ Schedule \/ Plan
Loop == \/ Write \/ BeginGeneration \/ DriverIsDone \/ MakeTask \/ CancelTask
        \/ Step \/ Done \/ MakeTrackTask \/ Empty \/ EndTrack
        \/ (Runs("turn") /\ CloseBridge)
BridgeNext == Worker \/ Loop \/ CloseBridge \/ TakeFrame

\* Both threads go on.  A sender that has lost its peer may take no frame.
BridgeSpec == BridgeInit /\ [][BridgeNext]_bridgeVars
              /\ WF_bridgeVars(Worker) /\ WF_bridgeVars(Loop)

-----------------------------------------------------------------------------
BridgeTypeOK ==
    /\ closeTrack \in CloseTrack /\ {bridgeClosed, ended} \subseteq BOOLEAN
    /\ generation \in 0 .. MaxGenerations
    /\ pending \subseteq 1 .. submitted /\ Cardinality(pending) <= MaxPending
    /\ worker.at \in {"idle", "enter", "recheck", "schedule", "plan"}
    /\ worker.stale \subseteq 1 .. submitted
    /\ submitted \in 0 .. MaxChunks
    /\ ready \in Seq({"deliver", "step", "cancel", "done", "flush", "empty", "close",
                      "end", "turn"} \X (0 .. MaxChunks))
    /\ \A i, j \in 1 .. Len(ready) :
          ready[i] = ready[j] /\ ready[i][1] \in {"step", "turn", "done"} => i = j
    /\ place \in [Chunks -> {"none", "created", "new", "lock", "put", "over"}]
    /\ left \in [Chunks -> 0 .. FrameCount] /\ must \in [Chunks -> BOOLEAN]
    /\ future \in [Chunks -> {"none", "pending", "cancelled", "reported"}]
    /\ holder \in Chunks \cup {Nobody} /\ IsInjective(waiters)
    /\ queue \in Seq(0 .. MaxChunks) /\ Len(queue) <= MaxSize

\* A delivery that is not over is one the bridge tracks, or its future is
\* cancelled, or the thread that took it from _pending has still to cancel it:
\* none goes on unseen after an overflow, a new generation or a close.
NoDeliveryEscapes ==
    /\ BridgeTypeOK
    /\ \A c \in 1 .. submitted :
        \/ place[c] = "over"
        \/ c \in pending \cup worker.stale
        \/ future[c] = "cancelled"

\* Once the flush of begin_generation has run, the track has frames of the
\* current generation only, although deliveries of the old one were under way
\* and some end after it.
OldGenerationLeavesTrack ==
    \/ bridgeClosed
    \/ \E i \in 1 .. Len(ready) : ready[i][1] \in {"flush", "empty"}
    \/ \A i \in 1 .. Len(queue) : gen[queue[i]] = generation

\* Frames leave the track in the order of the chunks, whatever deliveries end,
\* are cancelled or flushed in between; and a flush drops what was stale when
\* it was scheduled and nothing newer: that of an overflow or of a late delivery
\* does not reach the frames of the chunk that replaces it.
TrackKeepsOrder ==
    [][/\ shown' >= shown
       /\ Empty /\ ~ended =>
            \A i \in 1 .. Len(queue) : queue[i] <= Head(ready)[2]]_bridgeVars

\* After close() every delivery ends and gives back the delivery lock, although
\* the sender takes nothing any more.
ClosedDrains ==
    bridgeClosed ~> /\ \A c \in Chunks : place[c] \in {"none", "over"}
              /\ holder = Nobody
=============================================================================
