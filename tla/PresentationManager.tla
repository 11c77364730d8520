------------------------ MODULE PresentationManager -------------------------
(***************************************************************************)
(* runtime_v2/presentation_manager.py: model output on its way from the    *)
(* model thread (publish) to the UI thread (advance), through a queue of   *)
(* at most QueueCapacity chunks.                                           *)
(*                                                                         *)
(* Both calls are split where the other thread can get in between: at      *)
(* every operation on the queue, on the shared stop event and on the       *)
(* clock's lock.  A chunk is its reset generation, its place in the order  *)
(* of publication and its number of frames.  Time is abstracted: once a    *)
(* frame has been selected, a later is_due may or may not find that the    *)
(* next one is due, unless the queue is full.                              *)
(***************************************************************************)
EXTENDS Integers, Sequences

CONSTANTS QueueCapacity,  \* maxsize of _bufferedChunks (1 in the code)
          FrameCounts,    \* frames a chunk may hold
          MaxPublished,   \* bound: chunks ever published
          MaxGeneration,  \* bound: resets
          NoChunk         \* None

ASSUME CapacityIsPositive == QueueCapacity \in Nat \ {0}
ASSUME FrameCountsArePositive == FrameCounts \subseteq Nat \ {0}
ASSUME BoundsAreNat == MaxPublished \in Nat /\ MaxGeneration \in Nat
ASSUME NoChunkIsNoChunk ==
    NoChunk \notin [generation : Nat, serial : Nat \ {0}, frames : FrameCounts]

VARIABLES mode,             \* _backpressure_mode
          stop,             \* the session's shutdown event
          buffered,         \* _bufferedChunks
          clock,            \* _PresentationClock: its generation, and whether
                            \* _next_frame_at is set
          generation,       \* _generation
          presented,        \* _presented_chunk
          frameIndex,       \* _frame_index
          presentedFrameCount, droppedForSpace, discardedAtReset,
          publisher,        \* where the model thread is inside publish
          presenter,        \* where the UI thread is inside advance
          current,          \* environment: EventBuffer.generation
          closed,           \* environment: close() has run
          published,        \* history: the generation of each chunk, in order
          shown,            \* history: the last frame selected
          taken, gaveUp, cleared \* history: chunks selected, given up, cleared

managerVars == <<buffered, clock, generation, presented, frameIndex,
                 presentedFrameCount, droppedForSpace, discardedAtReset,
                 publisher, presenter, published, shown, taken, gaveUp, cleared>>
presentationVars == <<mode, stop, managerVars, current, closed>>

None == -1
Modes == {"BLOCK", "DROP_OLDEST"}
Chunks == [generation : Nat, serial : Nat \ {0}, frames : FrameCounts]
Publishers == [pc : {"idle", "checkStop", "put", "checkStopLatest", "putNowait",
                     "evict"},
               chunk : Chunks \cup {NoChunk}]
Presenters == [pc : {"idle", "isDue", "take", "mark"}, backlog : BOOLEAN,
               selected : Chunks \cup {NoChunk}, advanced : BOOLEAN]
NothingShown == [generation |-> 0, serial |-> 0, frame |-> 0, frames |-> 1]

LastGeneration == IF published = <<>> THEN 0 ELSE published[Len(published)]

\* The generation a clock is reset to; _next_frame_at becomes None.
ResetClock(g) == [generation |-> g, armed |-> FALSE]

IsBacklogged == Len(buffered) >= QueueCapacity

\* Mutation: the walk through a chunk stops one frame early.
HasNextFrameShort == presented # NoChunk /\ frameIndex + 2 < presented.frames

HasNextFrame == presented # NoChunk /\ frameIndex + 1 < presented.frames

\* Mutation: the last frame of the presented chunk still counts as pending.
HasPendingFramesOffByOne ==
    \/ presented # NoChunk /\ frameIndex + 1 <= presented.frames
    \/ buffered # <<>>

HasPendingFrames == HasNextFrame \/ buffered # <<>>

-----------------------------------------------------------------------------
(* A manager that run_session has configured for one session.               *)
Init ==
    /\ mode \in Modes
    /\ stop = FALSE
    /\ buffered = <<>>
    /\ clock = [generation |-> None, armed |-> FALSE]
    /\ generation = 0
    /\ presented = NoChunk /\ frameIndex = -1
    /\ presentedFrameCount = 0 /\ droppedForSpace = 0 /\ discardedAtReset = 0
    /\ publisher = [pc |-> "idle", chunk |-> NoChunk]
    /\ presenter = [pc |-> "idle", backlog |-> FALSE, selected |-> NoChunk,
                    advanced |-> FALSE]
    /\ current = 0
    /\ closed = FALSE
    /\ published = <<>>
    /\ shown = NothingShown
    /\ taken = 0 /\ gaveUp = 0 /\ cleared = 0

-----------------------------------------------------------------------------
(* publish, on the model thread.                                            *)

presenterVars == <<generation, presented, frameIndex, presentedFrameCount,
                   discardedAtReset, presenter, shown, taken, cleared>>

\* Mutation: every session evicts, whatever its backpressure mode.
PublishAlwaysLatest(g, frames) ==
    /\ publisher.pc = "idle"
    /\ published' = Append(published, g)
    /\ clock' = IF g > clock.generation THEN ResetClock(g) ELSE clock
    /\ publisher' = [pc |-> "checkStopLatest",
                     chunk |-> [generation |-> g, serial |-> Len(published) + 1,
                                frames |-> frames]]
    /\ UNCHANGED <<buffered, droppedForSpace, gaveUp, presenterVars>>

\* The clock takes in the completed step; a newer generation resets it.
PublishBegin(g, frames) ==
    /\ publisher.pc = "idle"
    /\ published' = Append(published, g)
    /\ clock' = IF g > clock.generation THEN ResetClock(g) ELSE clock
    /\ publisher' = [pc |-> IF mode = "BLOCK" THEN "checkStop" ELSE "checkStopLatest",
                     chunk |-> [generation |-> g, serial |-> Len(published) + 1,
                                frames |-> frames]]
    /\ UNCHANGED <<buffered, droppedForSpace, gaveUp, presenterVars>>

PublisherAt(pc) == publisher' = [publisher EXCEPT !.pc = pc]

PublisherDone == publisher' = [pc |-> "idle", chunk |-> NoChunk]

\* while not self._stop.is_set(), in publish and in _publish_latest.
CheckStop ==
    /\ publisher.pc \in {"checkStop", "checkStopLatest"}
    /\ IF stop
         THEN PublisherDone /\ gaveUp' = gaveUp + 1
         ELSE /\ PublisherAt(IF publisher.pc = "checkStop" THEN "put" ELSE "putNowait")
              /\ UNCHANGED gaveUp
    /\ UNCHANGED <<buffered, clock, droppedForSpace, published, presenterVars>>

\* The queue takes the chunk; publish returns.
Enqueue ==
    /\ buffered' = Append(buffered, publisher.chunk)
    /\ PublisherDone
    /\ UNCHANGED <<clock, droppedForSpace, gaveUp, published, presenterVars>>

\* put(pending, timeout=...) waits for room; stop may be set meanwhile.
Put ==
    /\ publisher.pc = "put"
    /\ ~IsBacklogged
    /\ Enqueue

\* Mutation: the wait is not sliced, so stop is never looked at again.
PutNeverTimesOut ==
    /\ FALSE
    /\ UNCHANGED managerVars

\* queue.Full after the timeout slice.
PutTimeout ==
    /\ publisher.pc = "put"
    /\ IsBacklogged
    /\ PublisherAt("checkStop")
    /\ UNCHANGED <<buffered, clock, droppedForSpace, gaveUp, published, presenterVars>>

PutNowait ==
    /\ publisher.pc = "putNowait"
    /\ \/ ~IsBacklogged /\ Enqueue
       \/ /\ IsBacklogged
          /\ PublisherAt("evict")
          /\ UNCHANGED <<buffered, clock, droppedForSpace, gaveUp, published,
                         presenterVars>>

\* get_nowait after queue.Full: the UI thread may have emptied the queue.
Evict ==
    /\ publisher.pc = "evict"
    /\ \/ /\ buffered # <<>>
          /\ buffered' = Tail(buffered)
          /\ droppedForSpace' = droppedForSpace + 1
       \/ /\ buffered = <<>>
          /\ UNCHANGED <<buffered, droppedForSpace>>
    /\ PublisherAt("checkStopLatest")
    /\ UNCHANGED <<clock, gaveUp, published, presenterVars>>

PublishStep == CheckStop \/ Put \/ PutTimeout \/ PutNowait \/ Evict

-----------------------------------------------------------------------------
(* advance, on the UI thread, once per tick.                                *)

publisherVars == <<publisher, gaveUp, published, cleared>>
presentedVars == <<generation, presented, frameIndex, presentedFrameCount, shown, taken>>

\* A new generation drops what is presented; then the queue is looked at.
AdvanceBegin(g) ==
    /\ presenter.pc = "idle"
    /\ generation' = g
    /\ IF g # generation
         THEN presented' = NoChunk /\ frameIndex' = -1 /\ presentedFrameCount' = 0
         ELSE UNCHANGED <<presented, frameIndex, presentedFrameCount>>
    /\ presenter' = [pc |-> "isDue", backlog |-> IsBacklogged,
                     selected |-> NoChunk, advanced |-> FALSE]
    /\ UNCHANGED <<buffered, clock, droppedForSpace, discardedAtReset, shown,
                   taken, publisherVars>>

PresenterDone(advanced) ==
    presenter' = [pc |-> "idle", backlog |-> FALSE, selected |-> NoChunk,
                  advanced |-> advanced]

\* is_due answers `due'.  A due frame is the next one of the presented chunk
\* or, when that chunk is used up, the first one of a chunk still to be taken.
IsDue(due) ==
    LET seen == IF generation # clock.generation THEN ResetClock(generation)
                                                 ELSE clock
    IN  /\ presenter.pc = "isDue"
        /\ ~due => ~presenter.backlog /\ seen.armed
        /\ clock' = seen
        /\ \/ ~due /\ PresenterDone(FALSE)
           \/ due /\ presenter' = [presenter EXCEPT
                                     !.pc = IF HasNextFrame THEN "mark" ELSE "take"]
        /\ UNCHANGED <<buffered, generation, presented, frameIndex,
                       presentedFrameCount, droppedForSpace, discardedAtReset,
                       shown, taken, publisherVars>>

\* Mutation: chunks of an older generation are taken like any other.
TakeAnyGeneration ==
    /\ presenter.pc = "take" /\ buffered # <<>>
    /\ buffered' = Tail(buffered)
    /\ presenter' = [presenter EXCEPT !.selected = Head(buffered), !.pc = "mark"]
    /\ UNCHANGED <<clock, droppedForSpace, discardedAtReset, presentedVars,
                   publisherVars>>

\* Mutation: in the latest mode a chunk that is replaced is not counted.
TakeWithoutCounting ==
    /\ presenter.pc = "take" /\ buffered # <<>>
    /\ buffered' = Tail(buffered)
    /\ presenter' = [presenter EXCEPT !.selected = Head(buffered),
                          !.pc = IF mode = "BLOCK" THEN "mark" ELSE "take"]
    /\ UNCHANGED <<clock, droppedForSpace, discardedAtReset, presentedVars,
                   publisherVars>>

\* One get_nowait of _take_buffered_chunk that finds a chunk.
TakeChunk ==
    LET chunk == Head(buffered)
        stale == chunk.generation # generation
    IN  /\ presenter.pc = "take" /\ buffered # <<>>
        /\ buffered' = Tail(buffered)
        /\ \/ /\ stale
              /\ discardedAtReset' = discardedAtReset + 1
              /\ UNCHANGED <<droppedForSpace, presenter>>
           \/ /\ ~stale
              /\ presenter' = [presenter EXCEPT !.selected = chunk,
                                  !.pc = IF mode = "BLOCK" THEN "mark" ELSE "take"]
              /\ droppedForSpace' = droppedForSpace
                     + (IF presenter.selected # NoChunk THEN 1 ELSE 0)
              /\ UNCHANGED discardedAtReset
        /\ UNCHANGED <<clock, presentedVars, publisherVars>>

\* get_nowait raises queue.Empty: what was selected, if anything, is taken.
TakeEmpty ==
    /\ presenter.pc = "take" /\ buffered = <<>>
    /\ \/ presenter.selected # NoChunk /\ presenter' = [presenter EXCEPT !.pc = "mark"]
       \/ presenter.selected = NoChunk /\ PresenterDone(FALSE)
    /\ UNCHANGED <<buffered, clock, droppedForSpace, discardedAtReset, presentedVars,
                   publisherVars>>

\* The frame is presented and mark_advanced sets the time of the next one.  A
\* chunk just selected becomes the presented one, at its first frame.
MarkAdvanced ==
    LET fresh == presenter.selected # NoChunk
        chunk == IF fresh THEN presenter.selected ELSE presented
        index == IF fresh THEN 0 ELSE frameIndex + 1
    IN  /\ presenter.pc = "mark"
        /\ presented' = chunk /\ frameIndex' = index
        /\ presentedFrameCount' = presentedFrameCount + 1
        /\ shown' = [generation |-> chunk.generation, serial |-> chunk.serial,
                     frame |-> index, frames |-> chunk.frames]
        /\ taken' = taken + (IF fresh THEN 1 ELSE 0)
        /\ clock' = [clock EXCEPT !.armed = TRUE]
        /\ PresenterDone(TRUE)
        /\ UNCHANGED <<buffered, generation, droppedForSpace, discardedAtReset,
                       publisherVars>>

AdvanceStep ==
    (\E due \in BOOLEAN : IsDue(due)) \/ TakeChunk \/ TakeEmpty \/ MarkAdvanced

\* close() discards what is buffered and presented; the model thread is gone.
\* (Waiting for the presentation stream may raise before anything is cleared.)
Close ==
    /\ buffered' = <<>>
    /\ cleared' = cleared + Len(buffered)
    /\ presented' = NoChunk /\ frameIndex' = -1 /\ presentedFrameCount' = 0
    /\ UNCHANGED <<clock, generation, droppedForSpace, discardedAtReset, publisher,
                   presenter, published, shown, taken, gaveUp>>

-----------------------------------------------------------------------------
(* The two threads of run_session around the manager.  Between ticks the UI *)
(* thread collects input, which may hold a reset, and may set stop; after   *)
(* stop it ticks no more, joins the model thread and closes the manager.    *)
(* The model thread publishes under the generation it read when its step    *)
(* began, which is no newer than the current one and never goes back.       *)
PublishNext ==
    /\ ~closed /\ Len(published) < MaxPublished
    /\ \E g \in LastGeneration .. current, frames \in FrameCounts :
          PublishBegin(g, frames)
    /\ UNCHANGED <<mode, stop, current, closed>>

ModelThread == PublishStep /\ UNCHANGED <<mode, stop, current, closed>>

Tick == ~stop /\ AdvanceBegin(current) /\ UNCHANGED <<mode, stop, current, closed>>

UIThread == AdvanceStep /\ UNCHANGED <<mode, stop, current, closed>>

ResetArrives ==
    /\ presenter.pc = "idle" /\ ~stop
    /\ \E g \in current + 1 .. MaxGeneration : current' = g
    /\ UNCHANGED <<mode, stop, closed, managerVars>>

SetStop ==
    /\ presenter.pc = "idle" /\ ~stop
    /\ stop' = TRUE
    /\ UNCHANGED <<mode, current, closed, managerVars>>

CloseManager ==
    /\ stop /\ ~closed /\ publisher.pc = "idle" /\ presenter.pc = "idle"
    /\ Close \/ UNCHANGED managerVars
    /\ closed' = TRUE
    /\ UNCHANGED <<mode, stop, current>>

Finished == closed /\ UNCHANGED presentationVars

Next == \/ PublishNext \/ ModelThread
        \/ Tick \/ UIThread
        \/ ResetArrives \/ SetStop \/ CloseManager
        \/ Finished

\* Threads that can run do run, and a deadline that ticks keep asking about
\* eventually passes.  Nothing obliges the model to publish or a client to stop.
Fairness ==
    /\ WF_presentationVars(ModelThread)
    /\ WF_presentationVars(Tick)
    /\ WF_presentationVars(UIThread)
    /\ SF_presentationVars(IsDue(TRUE) /\ UNCHANGED <<mode, stop, current, closed>>)

Spec == Init /\ [][Next]_presentationVars /\ Fairness

-----------------------------------------------------------------------------
TypeOK ==
    /\ mode \in Modes /\ stop \in BOOLEAN /\ closed \in BOOLEAN
    /\ buffered \in Seq(Chunks) /\ Len(buffered) <= QueueCapacity
    /\ clock \in [generation : Nat \cup {None}, armed : BOOLEAN]
    /\ generation \in Nat /\ current \in Nat
    /\ presented \in Chunks \cup {NoChunk}
    /\ frameIndex \in Nat \cup {-1}
    /\ presentedFrameCount \in Nat
    /\ droppedForSpace \in Nat /\ discardedAtReset \in Nat
    /\ publisher \in Publishers /\ presenter \in Presenters
    /\ published \in Seq(Nat)
    /\ shown \in [generation : Nat, serial : Nat, frame : Nat, frames : Nat]
    /\ taken \in Nat /\ gaveUp \in Nat /\ cleared \in Nat

InHand(chunk) == IF chunk = NoChunk THEN 0 ELSE 1

\* Chunks on their way, and chunks disposed of.
Underway == InHand(publisher.chunk) + Len(buffered) + InHand(presenter.selected)
Settled == taken + droppedForSpace + discardedAtReset + gaveUp + cleared

(***************************************************************************)
(* No chunk vanishes and none is counted twice: whatever the two threads   *)
(* do to the queue at the same time, every published chunk is in the       *)
(* publisher's hand, queued, in the presenter's hand, presented, counted   *)
(* in dropped_for_space or discarded_at_reset, given up because of stop,   *)
(* or cleared at close.                                                    *)
(***************************************************************************)
ChunksAccounted == Len(published) = Underway + Settled

(***************************************************************************)
(* Blocking backpressure holds the model thread back instead of dropping   *)
(* work, and only a stop makes it give a chunk up.                         *)
(***************************************************************************)
BlockDropsNothing ==
    /\ mode = "BLOCK" => droppedForSpace = 0
    /\ gaveUp > 0 => stop

Follows(g, f) ==
    \/ g.generation > f.generation
    \/ /\ g.generation = f.generation
       /\ \/ g.serial > f.serial /\ g.frame = 0
          \/ g.serial = f.serial /\ g.frame = f.frame + 1

FollowsAtOnce(g, f) ==
    g.generation = f.generation =>
        \/ g.serial = f.serial /\ g.frame = f.frame + 1
        \/ /\ f.frame + 1 = f.frames /\ g.frame = 0
           /\ \A k \in f.serial + 1 .. g.serial - 1 : published[k] # g.generation

(***************************************************************************)
(* The frames that the UI selects go forward in (generation, chunk, frame) *)
(* whatever is dropped, and with BLOCK they skip nothing within a          *)
(* generation: every frame of every chunk is selected once, in order.      *)
(***************************************************************************)
FramesInOrder ==
    [][shown' # shown => /\ Follows(shown', shown)
                         /\ mode = "BLOCK" => FollowsAtOnce(shown', shown)]_shown

(***************************************************************************)
(* Nothing generated before a reset survives it: once the UI thread has    *)
(* ticked under a generation, the frame it would draw is of that one.      *)
(***************************************************************************)
NothingStalePresented ==
    presented # NoChunk => /\ presented.generation = generation
                           /\ frameIndex \in 0 .. presented.frames - 1

(***************************************************************************)
(* A publish always returns: as long as the UI ticks, room appears, and    *)
(* once it ticks no more a blocked publish still notices the stop.         *)
(***************************************************************************)
PublishReturns == publisher.pc # "idle" ~> publisher.pc = "idle"

=============================================================================
