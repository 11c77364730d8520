# FlashDreams runtimes in TLA+

This directory is a verification project for the runtimes of FlashDreams: the v2
runtime that runs an application's session around a model, its WebRTC server, and
the session manager and output path of the earlier (v1) WebRTC serving. It holds
TLA+ modules translated from the source, TLC configurations that check them on
small instances, and TLAPS proofs. Paths below are relative to
`src/flashdreams/flashdreams/` unless they start with `src/`.

## 1. The system

A *session* joins an application (a model loop and a UI loop) to a client window
(a browser over WebRTC, a native window, an MP4 file, or none). Each process runs
it with two threads:

    window --get_user_input_events--> EventBuffer --read--> model loop
      ^                                   |                     |
      |                                  read                publish
    write                                 v                     v
      +--------------------------------- UI loop <--advance-- PresentationManager

The **main thread** owns the window and everything that touches it. Once per tick
it collects input, advances the presentation by at most one frame and runs the UI
loop. The **model thread** reads input, steps the model and publishes a chunk of
frames. Besides the two buffers they share one shutdown event, one failure queue
and the model loop's inference state. A session on several GPUs runs the same two
threads on every rank, and the ranks agree on each step over a process group.

The WebRTC window of v2 adds a third thread: the server's event loop, which
negotiates with browsers, releases their peers, buffers their messages, and feeds
the frames that the main thread enqueues to the sender of the track.

The v1 serving is built the other way round: everything but the model runs as tasks
of one event loop, and the model on a worker of one thread.

    HTTP offer --create_answer--> active session --data channel--> generation task
        |                             ^                               |  submit
     admission policy (one slot)      | close, by five kinds of task  v
        ^                             |                            worker thread
        +---- release after cleanup --+----- output bridge <-------- chunks
                                             |
                                             +--> buffered track --> sender

### Inventory

| Part (source) | State | Operations | Correct when |
|---|---|---|---|
| `EventBuffer` (`runtime_v2/event_buffer.py`, `user_input_events.py`) | retained events and arrival stamps, base index, a cursor per reader, reset generation | register, append, read, unregister, collect_garbage, clear | no reader loses or repeats an event, those of one read are sorted by timestamp; generations match the resets read |
| `PresentationManager` (`runtime_v2/presentation_manager.py`) | bounded chunk queue, presented chunk and frame index, presentation clock, counters | configure, publish, advance, has_pending_frames, close | no chunk is lost uncounted, BLOCK drops nothing, frames in order, none from before a reset |
| Session runner (`runtime_v2/session_runner.py`) | deadline, failures, replacement request, the model thread, ownership of the window | start-up, tick, end-of-run decision, cleanup, choice of the failure | every failure surfaces, teardown follows the model thread, the window has one owner, the session ends |
| Session loops (`api_v2/loop.py`, `api_v2/session.py`, `runtime_v2/blit_model_output_to_screen_loop.py`) | step index, generation, pending events, request, closed flag, inference state | _begin_run, step, _finish_run, _shutdown, invoke_async, _run_model_loop | a reset reaches each loop once, a loop is closed once, a message runs once |
| Step agreement (`runtime_v2/coordination.py`) | a process group; the order of each rank's calls | ready, inputs, session_result, close | calls match, all ranks run the same steps on the same input, nobody waits for ever |
| Application runner (`runtime_v2/application_runner.py`) | remaining steps, deadline, who closes the window, what failed first | init, create_session, run_session, close | window and sink closed exactly once over a run of sessions; budget and deadline kept; ranks start a replacement together |
| WebRTC server v2 (`runtime_v2/serving/webrtc_server.py`, `runtime_v2/webrtc_client_window.py`) | a frame mailbox per track; the active peer and its track; the offer lock; buffered input and its clock | offer, enqueue, recv, start_session, resize, write, poll, close, release of a peer | no lost wake-up, frames accounted for, connected peer is the active one, a session starts with a clean track and its own input, close ends |
| WebRTC session manager v1 (`serving/webrtc/manager.py` with `runtime/demo/run_modes.py`, `drivers.py`, `host.py`, `runtime/worker.py`) | session lock, active session, the slot's reservation, the tasks of each session, calls queued for the worker, model resources | create_answer, data channel, generation task, watchdog, close by several tasks, cleanup | the slot is neither shared nor forgotten, resources are released before it is, no open peer is unseen, the lock is given back |
| WebRTC output v1 (`serving/webrtc/services.py`, `media.py`) | pending futures, generation, delivery lock, the buffered track | submit_chunk, begin_generation, close, the delivery and flush tasks, recv | no delivery goes on unseen, nothing old stays in the track, order kept, close drains |
| Input timeline, keyboard (`runtime_v2/input_timeline.py`, `keyboard_input.py`) | next window start; keys held | next_window, reset, sample | windows never go back or overlap |
| Other windows, sinks, renderers, profiler, CLI | files, GPU and window handles, counters | I/O | out of scope: see section 7 |

What is hard in this code: two threads at a queue of one place where *either* may
be the consumer; a reset that must reach both loops and the presentation without
any of them talking to each other; a stop while the other thread waits for room;
failures of several hooks in one session; the end of a finite run, which must not
cut its last frames off; collectives matched by order only, made from two threads
of each rank, while every rank may stop or fail at a moment of its own; callbacks that
one thread schedules on another's event loop and that run later, in the order they
were scheduled; several tasks that all close the same session behind one lock, one of
them from inside the session; futures that settle before their task is over.
`PROJECT.json` lists each of these hazards at its line.

## 2. Modules

| Module | What it is |
|---|---|
| `EventLog` | what an event buffer promises: one log, one position per reader, what a read hands out, no storage |
| `EventBuffer` | `event_buffer.py` with the sort of `user_input_events.py`; refines `EventLog` (`Log` is the collected prefix and the retained events) |
| `MCEventBuffer` | its instance for TLC |
| `EventBufferProofs` | TLAPS proofs about it: cursors, generations and the refinement of `EventLog` |
| `PresentationManager` | `presentation_manager.py` with the two threads that call it |
| `PresentationManagerProofs` | TLAPS proofs about it |
| `SessionRunner` | `session_runner.py` and the loops; **composes** `EventBuffer` and `PresentationManager` (INSTANCE, with their actions as parts of the threads' steps) |
| `MCSessionRunner` | its instances for TLC |
| `SessionRunnerProofs` | TLAPS proofs about it, and those of its two buffers inside a session |
| `StepAgreement` | `coordination.py` and its callers on several ranks |
| `StepAgreementProofs` | TLAPS proofs about it |
| `ApplicationRunner` | `application_runner.py` on several ranks, over sessions seen from outside |
| `ApplicationRunnerProofs` | TLAPS proofs about it |
| `FrameMailbox` | what the sender of an interactive stream is promised: a mailbox, no threads |
| `VideoTrack` | `_VideoTrack` of `webrtc_server.py` with both its threads; refines `FrameMailbox` |
| `WebRTCServer` | the rest of `webrtc_server.py` under `webrtc_client_window.py`: peers, offers, sessions, input |
| `WebRTCServerProofs` | TLAPS proofs about it |
| `WebRTCSessionManager` | `serving/webrtc/manager.py` over the v1 driver, host and worker |
| `MCWebRTCSessionManager` | its instances for TLC |
| `WebRTCSessionManagerProofs` | TLAPS proofs about it |
| `OutputBridge` | `ThreadSafeWebRTCOutputBridge` of `services.py` over the track of `media.py` |
| `WebRTCOutputProofs` | TLAPS proofs about `OutputBridge` and `VideoTrack` |

**How state corresponds.** Python attributes are variables of the same name in
camel case (`_reader_indexes` is `readerIndexes`); a dict is a partial function, a
`queue.Queue` a sequence. A method that holds one lock is one action. A method that
does not is cut where the other thread can get in: `publish` has a place before each
look at the stop event and each queue operation, `advance` one before the clock's
lock, one at each `get_nowait`, and one before `mark_advanced`. `publisher.pc`,
`presenter.pc`, `main.pc` and `model.pc` hold those places. Variables marked
*history* exist in no code; they remember what a property needs.

**What is the environment.** The application's hooks (`init`, `step`, `reset`,
`close`, `is_finished`) and the window may do whatever their interfaces allow, raise
included, up to `MaxFailures` times. In `SessionRunner` the UI is either the default
one (`blit`, from the source) or an *interactive* one that may draw, ask for a
replacement session, or do neither. Frames have no content. Time is nondeterminism:
the presentation clock answers *due* or *not due* (always *due* on a full queue, as in
the code), the deadline passes at any moment.

**Event loops.** A task runs alone from one await to the next, so that is one action;
what it reads before an await may be stale after it. Where the order of callbacks
matters the loop's queue is a variable: `ready` of `OutputBridge`, whose head an action
runs and to whose end both threads append. (`OutputBridge` and `VideoTrack` share a proof
module, so the bridge's names are kept apart from the track's: `BridgeInit`, `TakeFrame`,
`queue`.) A task that a task creates costs a hop of
its own through that queue, as `create_task` does. In `WebRTCSessionManager` a task is
`<<kind, s>>`, `s` the session that created it, and `lock` is the session lock's holder
followed by those that wait, in order (`asyncio.Lock` is first come, first served);
`pc` says where each task is. `VideoTrack` cuts each method at its sections under
`_state_lock`. `WebRTCServer` has the run's thread in `main` and keeps of each track
only the sessions whose frames are in it: how frames get in and out is `VideoTrack`.

**Definitions marked "Mutation"** are the code with a plausible bug. Nothing in the
specifications uses them; each shows, put in place of the definition it mutates, that
a property would notice.

**`StepAgreement`** has the ranks' `main` and `model` threads at the grain of the
collectives. `calls[r]` is the list of collectives rank r has entered. An `all_reduce`
returns when all ranks have entered it, a broadcast when rank 0 has, and a call that
waits for a rank that has left raises. Kinds of calls are recorded but not used for
matching, so a mismatch is a reachable state which `CollectivesMatch` excludes. The
5-minute timeout is assumed longer than any tick, so a slow rank is waited for.

**`ApplicationRunner`** keeps the local variables of `run` in one record per rank and
has one action per call of `run`'s body; the finally clause, which nothing interrupts,
is one. What `run_session` does is an assumption here and a result elsewhere: that it
leaves the window open only for a replacement is `WindowOwnership` of `SessionRunner`,
that all ranks get one result is `SameOutcome` of `StepAgreement`. One `decision` at a
time is enough, because a session is decided only when every rank has begun it. A rank
is *deserted* when a peer has gone before the decision. A run on one rank and a run on
all of them are both initial states, since only the first looks at the deadline before
every session. The early `ValueError`s of `run_session` (a presenting rank without a
window, a worker with one) are left out: ranks are given what they need. In that case
`run_session` would close nothing, although the runner counts on it.

## 3. Runs

| Run | Question | Bounds |
|---|---|---|
| `event_buffer` | Do cursors, deletion and generations stay consistent, and is it the log it promises to be? | two readers, as in the code; an event and a reset that is older by its timestamp, whichever arrives first; 4 events between two clears, 2 resets, batches of one and two |
| `presentation_manager` | The model thread against the UI thread, both backpressure modes, resets, stop, close | queue of 1 (the code's), chunks of 1 and 2 frames, the chunks and resets of the cfg |
| `session_safety` | Windows, teardown, failures, replacement. Is every frame of a file written once? Do the threads keep the presentation manager's contract? | 2 input events, 1 reset; with a deadline: two failures anywhere, 1 model step of 1 frame, both UIs; without one: no failures, 2 model steps of 1 or 2 frames, step limit or none, the default UI, all four modes |
| `session_liveness` | Does a session end? | one failure, one input event, 2 model steps, fairness as below |
| `step_agreement` | Do ranks agree and end? | 3 ranks, 2 steps, 1 poll that says go on, 1 failure |
| `application_runner` | Who closes what, budget, deadline and failures over a run of sessions? | 1 and 2 ranks, 3 sessions that may ask for a replacement, budgets 0, 2 and none, 2 failures |
| `video_track` | Does the sender always get the newest frames, and is none lost uncounted? | track of 2, 4 frames, a clock of 2 ticks, any number of session starts, one close |
| `webrtc_server` | Whose track, frames and input does a session get, and does the server stop? | 3 offers, 2 sessions, 2 buffered events |
| `webrtc_manager` | Who has the slot, the model's resources and the session lock? | 2 browsers; the closing tasks `event` and `watch` of the first, `overload` of the second, besides `run` and `closed` of both; kept connections; one pending input |
| `output_bridge` | What becomes of deliveries and frames across overflow, a new generation and close? | 4 chunks of 2 frames, 2 pending, a track of 2 frames, 1 new generation, both values of close_track |
| `stale_close` | The sentence of a test, expected to be violated | 2 browsers, one closing task each |
| `stale_input` | The sentence of a docstring, expected to be violated | those of `webrtc_server` |

`session_safety`, `step_agreement`, `webrtc_manager`, `output_bridge` and `webrtc_server`
check the type invariant as the first conjunct of `WindowOwnership`, `CollectivesMatch`,
`SlotAccounted`, `NoDeliveryEscapes` and `UpPeerIsActive`. All type invariants,
all safety properties and all action properties of the passing runs are proved for
every value of the constants (section 5).
`session_safety` explores two families of sessions in one run, told apart by the deadline
of their initial state (`TwoFamilies` of `MCSessionRunner`, a constraint): failures, the
interactive UI and the deadline are one question, frames and modes another. The first
family is BLOCK with ON_DEMAND, the mode in which the model thread waits most; no code
that handles a failure looks at the mode or counts frames. One reset is enough to tell a
generation that goes back; two are in the runs of the two buffers. The safety theorems of
section 5 hold for the combinations too.
The runs `video_track`, `output_bridge`, `webrtc_server` and `stale_input` turn the
deadlock check off:
a track that is closed, a bridge whose chunks are all delivered and a server that has
stopped have nothing more to do. `WebRTCSessionManager` says the same in `Quiet`, a
stutter that is allowed only when nobody holds the lock and the worker has no call.

**Why the bounds are enough.** Two failures are what it takes for one to hide
another; two resets in one batch tell counting from detecting; two chunks of two
frames with a queue of one place fill the queue, the publisher's hand and the
presented chunk at once; two steps of three ranks let a rank be ahead by one step of
one peer and not of the other; a session that
takes 2 of 2 steps, one that takes fewer and a preload that takes 1 of 0 are all the
ways a budget can meet a session. Four frames into a track of two overwrite twice
and still leave one queued; three offers are one that is connected, one that replaces
it and one that waits for the lock; four chunks with two pending overflow twice, once
with a delivery that holds the lock and once with one that waits for it, and chunks as
long as the track block `put`. Two browsers are what the one slot can be confused
between, and two closing tasks of one session, besides its own run and the report of
the closed connection, are what it takes for one of them to find the session closed
and another browser's in its place. `MaxWrites` stops the count of window writes above
every value a property compares with. A model that has taken `MaxSteps` steps without
a step limit must say that it is finished; this is the one place where a bound
removes a behaviour (a model that never ends), so the liveness runs say nothing about
a session that nobody stops.

**Properties worth knowing.**

- `ImplementsEventLog`: a read hands out what arrived since the reader's last one, each
  event once, from the oldest timestamp to the newest (`UserInputEvents` sorts, and the
  stamps of arrival stay in the order of arrival). Between two reads the order is that of
  arrival, since an event that comes late cannot be handed out earlier.
- `ChunksAccounted`: at every step of both threads the published chunks equal those in
  each hand, queued, taken, dropped, discarded, given up and cleared.
- `FramesInOrder`: an action property over the last frame selected; with BLOCK it
  allows no gap within a generation.
- `KeepsManagerContract`: what `PresentationManager` assumes about its callers is what
  `SessionRunner` does: the session refines the manager's own next-state relation, so
  the safety properties of the `presentation_manager` run carry over to the session.
- `FileRunWritesEveryFrame`: BLOCK with ON_DEMAND and the default UI, not stopped from
  outside: frames written equal frames generated.
- `NoSilentFailure`: the session raises exactly when something raised.
- `CloseCancelsReplacement`: no close event the UI has read leaves a replacement behind.
- `CollectivesMatch`, `AdmissionCommitsAll`, `SameOutcome`, `AllRanksEnd`: the ranks as
  one.
- `ClosedOnce`: window and sink over the whole run, whichever of runner and session
  closes them. `AgreedReplacementBegins`: a deadline does not split the ranks between
  two sessions. (The check before the *first* session is each rank's own; a rank whose
  clock says no there does desert the others, which then raise.) `DeadlineKept`: at
  most one session begins late.
- `ImplementsMailbox`: `VideoTrack`, with an event, a flag and callbacks on their way,
  behaves as a mailbox that gives a frame to whoever asks. Its liveness half is the
  absence of a lost wake-up. `FramesAccounted`, `DrainedExactly`: what the counters and
  the event that close waits for really say.
- `NewSessionStartsClean`: `open` reads the track, then discards on the loop; a browser
  may be replaced in between. `UpPeerIsActive`: whoever is connected has the track that
  `write` finds; only `_shutdown`, which takes whatever track is there after it has
  waited for a peer's release, leaves one without. `HandoffKeepsOneEvent`: a message
  that the loop was in the
  middle of when `open` read the clock may still reach the new session, no other may.
- `SlotAccounted`: besides counting reservations it says that whoever has one still has
  a task that will release it, on every path through failures and cancellations but
  those of `Lose` (section 4).
- `ReleasedAfterCleanup`: a slot is given on only when the model's resources are closed
  on the worker, unless the host has been marked unhealthy and admits nobody; and a
  cleanup that has succeeded, which is when the driver forgets them, has closed them all.
- `LockDrains`: the generation task closes its own session; nobody who holds the lock
  waits for somebody who waits for it.
- `TrackKeepsOrder`: a flush drops only what was stale when it was scheduled, although
  it runs later; `OldGenerationLeavesTrack` and `NoDeliveryEscapes` say that nothing of
  an old generation is overlooked.

**Fairness.** Weak fairness of each thread: the operating system schedules both, and
hooks return. Strong fairness of *due*: the presentation clock's deadline is a fixed
time and ticks go on asking. Nothing is assumed of the model (it may never publish),
of the client (it may never close) or of the deadline. In `StepAgreement` each rank's
two threads are weakly fair, a stop or a failure is not. `ApplicationRunner` assumes
that a session which all ranks are in ends, so `RunEnds` says that the runner itself
adds no way to wait for ever.

The event loops run every callback that is due and threads go on with what they have
begun; what browsers send, whether a sender asks for frames, and what the run does
next are never assumed. `VideoTrack`: weak fairness of each continuation, one by one,
because the refinement needs them apart. `OutputBridge`: weak fairness of the worker
and of the loop, which runs its queue in order; none of `TakeFrame`, since a sender that has
lost its peer takes nothing. `WebRTCSessionManager`: weak fairness of the worker, of the
handlers and closes together (their order is the lock's), and of each session's run;
none of silence or of what a browser sends. `WebRTCServer`: weak fairness of the run's thread
and of a message begun, strong fairness of the loop's callbacks that messages interrupt:
asyncio runs callbacks in the order they became ready, so messages cannot keep one out.

## 4. Where the code does not do what the repository says

Two runs end in a counterexample. In `stale_close`, `close_active_session`
(`serving/webrtc/manager.py:1708`) takes no session: it closes whichever session is
active once it has the session lock. A peer whose data channel closes or whose
connection fails creates such a task; so does the state change that
`peer_connection.close()` itself reports. If another task is closing that peer, the new
one waits for the lock; if a new browser's offer is admitted first, the task closes the
new browser's session. Only `_close_overloaded_input_session` (line 1736) compares
identities. The test `test_expired_old_peer_cannot_close_a_replacement_session`
(`src/flashdreams/tests/test_webrtc_manager.py:808`) names the promise and tries it for
that one path. `ClosedByItsOwnTasks` is the promise for every path.

`stale_input` is about the input of a handoff. The docstring of `WebRTCClientWindow`
(`runtime_v2/webrtc_client_window.py:28`) says that the window "clears input buffered
during a session handoff", so that "input aimed at a completed UI cannot accidentally act
on its replacement". The server's loop stamps a message as soon as it has parsed it
(`runtime_v2/serving/webrtc_server.py:999`) and appends it at the end of the callback;
`open` reads the new session's clock and clears the input on the run's thread. When both
fall between the stamp and the append, the message is appended after the clearing:
`get_user_input_events` gives it the timestamp zero and the new session acts on it.
`NoInputOfCompletedUi` is the sentence of the docstring: no event that was stamped
while an earlier session ran is in the input of a later one. In the shortest
counterexample the browser connects just before the second `open`; one
that has been connected all along does the same. What the code does guarantee is
`HandoffKeepsOneEvent`: the loop is in the middle of one message at most, so no more than
one such event gets through.

No text of the repository speaks of a second observation, so no run states it. The
`finally` of `_run_realtime_driver_session` (line 2096) forgets the
session's reservation without releasing it. When what precedes
`run_demo_session_async` raises (`PrepareFails`: the scenario or the pipeline of a
generation), or when the task starts while the session is closing (`LateChannel`),
nobody has the reservation any more, the admission policy stays reserved, and later
offers are refused. `Lose` models it as a slot that is `lost`; the other paths are
what `SlotAccounted` is about.

## 5. Proofs

Every theorem holds for all values of the constants that satisfy the named
assumptions of the module: bounds are naturals (`BoundsAreNat`, `BudgetsAreNat`,
`BoundsArePositive`),
timestamps are integers (`TimestampsAreInt`),
resets are events and batches are sequences of events (`ResetsAreEvents`,
`BatchesAreSequences`), queues and chunks are not empty (`CapacityIsPositive`,
`FrameCountsArePositive`), the settings are those of the code (`SettingsAreKnown`), the
ranks besides 0 are finitely many (`WorkersAreNotTheMain`, `WorkersAreNotRankZero`; the
latter needs no finiteness), and model values differ from the values they stand beside
(`NoChunkIsNoChunk`, `NoneIsApart`, `NamesAreApart`). So any number of readers, ranks,
browsers, events, chunks, sessions and failures, any queue capacity and any frame
counts. The bounds that cap the models appear as arbitrary naturals.

The modules are laid out alike: the invariant in named parts, lemmas about the operators
it is made of, one lemma per action or per group of actions that disturb the same parts,
initiation and induction, and at the end the theorems that follow.

| Module | Inductive invariant | Theorems |
|---|---|---|
| `EventBufferProofs` | `StoreInv`, `GenInv` | `CursorsStayInWindow`, `GenerationsMatch`, `BufferIsALog` |
| `PresentationManagerProofs` | `ManagerInv`, `OrderInv` | `NoChunkIsLost`, `BlockKeepsEveryChunk`, `NothingStaleIsPresented`, `FramesAlwaysInOrder` |
| `SessionRunnerProofs` | `SessionInv`, `FileOK` | `WindowAlwaysOwned`, `ModelAlwaysGoneAtTeardown`, `NoFailureIsSilent`, `CloseAlwaysWins`, `ManagerContractKept`, `SharedObjectsStayCorrect`, `SessionShowsFramesInOrder`, `FileRunAlwaysComplete` |
| `StepAgreementProofs` | `AgreeInv` | `CollectivesAlwaysMatch`, `AdmissionAlwaysCommitsAll`, `OutcomeAlwaysSame` |
| `ApplicationRunnerProofs` | `RunInv` | `RunStaysInBudget`, `WindowAndSinkClosedOnce`, `DeadlineAlwaysKept`, `AgreedReplacementAlwaysBegins` |
| `WebRTCOutputProofs` | `BridgeInv`, `GenInv`, `FlowInv`, `TrackInv` | `NoDeliveryIsLost`, `NewGenerationStartsClean`, `FramesKeepTheirOrder`, `NoFrameIsLost`, `DrainedMeansSent`, `TrackIsMailbox` |
| `WebRTCServerProofs` | `ServerInv` | `UpPeerAlwaysActive`, `NewSessionAlwaysClean`, `HandoffAlwaysKeepsOneEvent` |
| `WebRTCSessionManagerProofs` | `ManagerInv` | `OpenPeerAlwaysActive`, `SlotAlwaysAccounted`, `AlwaysReleasedAfterCleanup` |

**Event buffer.** For the cursors the invariant is `TypeOK /\ CursorsInWindow`. Neither
part is inductive alone: a read slices the retained list at `cursor - base`, which has a
type only for a cursor in the window, and `collect_garbage` moves the base to the smallest
cursor, which keeps the others in the window only because they were there. `GenInv` adds
`GenerationMatchesRead`. A collection shortens the list whose resets are counted, so the
step rests on lemmas about counting resets in a concatenation (`ResetsOfConcat`,
`DropOfConcat`) and on the cursors being inside the window. `BufferIsALog` is the
refinement of `EventLog`: `InitRefines`, and `NextRefines` with a lemma per kind of step.
A collection maps to a stutter because what it moves from the retained list to the
collected prefix leaves their concatenation alone (`RemoveKeepsLog`). That a read hands out
its events sorted and each once is about the sort: `UserInputEvents` places each event by
its rank, the number of events that come before it. Ranks differ and there are as many as
places, so every place is taken by one event (`RankFacts`, `OriginFacts`), and a smaller
rank is an older event or the earlier of two (`UserInputEventsSorted`).

**Presentation manager.** `ManagerInv` is the three state properties, `TypeOK`, and
`HandsOK`, which says what each thread holds at each of its places. It is needed because
the places cut a method in the middle: between taking a chunk from the queue and counting
it, that chunk is nowhere but in the thread's hand, and between comparing a generation
and presenting, the comparison is only remembered by where the thread is.
`FramesInOrder` is an action property and needs more than the presented chunk: `OrderInv`
orders the serials along the whole way from `publish` to the screen, and for BLOCK says
of *every* serial between the last one shown and the last one that entered the queue that
its chunk is in line or is stale (`NoneSkippedOK`). The chunks that a stop made `publish`
give up are the last ones, which is why they leave no gap.

**Session.** The session is composed of the two buffers, and so is its proof:
`SessionRunnerProofs` instantiates the two proof modules under the session's names and
uses their theorems. `ManagerContractKept` discharges what `PresentationManager` assumes of
its callers (`CallsOK`: `publish` and `advance` are each called by one thread, from one
place, with generations that never go back), the actions of the buffer in the session are
actions of `EventBuffer`, and so everything proved there holds inside every session
(`SharedObjectsStayCorrect`, `SessionShowsFramesInOrder`). The session's own part,
`PlacesOK` and `ErrorsOK`, says at each place of the main thread which calls of start-up
and cleanup have been made, where the model thread can be, and in which of the three
places `run_session` looks for failures each of them is. `CloseAlwaysWins` holds because
the request for a replacement, the stop and the close event are decided in one tick and
no tick begins after a stop.

**File runs.** `FileRunAlwaysComplete` counts frames. `FileOK` says where each generated
frame is: presented, to come in the presented chunk, in line, in the UI's hand or in the
publisher's (`FramesCounted`); that no chunk is stale, since nobody resets, and one is taken
only when the last is used up (`ChunksCurrent`); that a tick which presents a frame writes
it and no other tick writes (`DrawnOK`); that the inference state follows the model thread
(`InferenceOK`); and that the UI ends the session only after the model
is done and nothing is left to show (`EndsWhenShown`). The model's count of writes stops
at `MaxWrites`, so the theorem assumes that `K * MaxSteps <= MaxWrites` for a bound K of
the chunks' sizes: then the count never stops (`FramesBounded`). This is about the model's
counter only; the code has none. The `session_safety` run satisfies it.

**Step agreement.** The state that matters is the list of calls of each rank. `AgreeInv`
gives each rank a number m: its first m calls are those of its model thread in their
fixed order, each step's agreement is one in which *all* ranks said go, and the others are
results it asked for because an agreement had refused. Two ranks agree on where the first
part ends, because one that goes on has seen every vote accept at the very call at which
the other has seen a refusal. The three properties are consequences about the k-th call of
two ranks.

**Application runner.** `BudgetInv` adds to the types that remaining and taken steps add
up to the budget, at the right places only: a session that is decided and not yet
subtracted is counted twice (`Account`); that a rank which goes on has steps left
(`GoesOnWithSteps`); and that a limit stays a limit (`LimitStays`). `OwnerOK` says at each
place of `run` who owns the window and the sink, `LateOK` what a session that begins after
the deadline leads to, and `PeersOK` how far apart ranks can be that no exception has
disturbed: no rank is more than one session past the last decision, and one that is past it
follows that decision.

**Video track.** `TrackInv` is the types, the two properties, and two facts about the
threads. `TakenIsStamped` says that a frame is popped exactly while `recv` is about to
stamp it: without it a popped frame could be forgotten or counted twice between two
sections of the lock. `OneWakeUp` says that no more than one wake-up is ever on its way,
which is what the `_wake_scheduled` flag is for and what bounds the callbacks in the loop's
queue. `TrackIsMailbox` is the safety half of `ImplementsMailbox`: it maps each step of the
track to a step of `FrameMailbox` or to a stutter, `enqueue` on a full track to one `Put`
that forgets the oldest frame. The liveness half stays with TLC.

**Output bridge.** The bridge has no flag that says what is under way; what keeps it right
is what the event loop has in its queue, in which order. The proofs speak of the queue
through `Has` and `Before` alone, with lemmas about taking its head and appending to its
end, and through `Moved(k, c, t)`, which sums up what any step of the loop does: its head
`<<k, c>>` is gone and `t` is at the end. Three invariants rest on each other.

- `BridgeInv`, for `NoDeliveryEscapes`: a delivery that is created has its callback in the
  queue and none of its items is there twice (`PlacesOK`), the driver's turn comes after
  the callbacks of what was submitted (`TurnOK`), who holds the delivery lock puts and a
  release wakes the first that waits (`LockOK`), and a delivery that is not over is tracked,
  in the worker's hand or cancelled (`FuturesOK`).
- `GenInv`, for `OldGenerationLeavesTrack`: who is cancelled hears of it (`ToldOK`), an older
  delivery that may still put frames is told so before a flush that is on its way (`OldOK`),
  so without a flush on its way all frames in the track are of the current generation
  (`TrackOK`), until the bridge is closed (`ClosedOK`).
- `FlowInv`, for `TrackKeepsOrder`. `RankOK`: deliveries go in step, so that of two which
  are not over the older is at least as far, and the one that puts is the oldest. Then
  what was shown, what is in the track and what is to come are in order (`OrderOK`). That a
  flush drops nothing it should not takes both directions of time: what an overflow takes
  is the *newest* under way, every younger chunk is over and its frames have left the track
  (`TrackedOK`), and while a flush is on its way no frame younger than its mark is in the
  track (`MarkOK`) or can be put there before it runs (`YoungOK`). A new generation needs
  that the cancellations of the old one are in the queue before the driver writes
  (`OldCancels`).

**WebRTC server.** `PeersOK` relates the place of each offer to the queue of the lock (the
first has gone on, the others wait, each is there once) and says that an offer which waits
for a peer to close has the lock, so that one handover happens at a time and the server has
no peer meanwhile. `TrackOK` says that the server's track is its peer's until
`_shutdown` has taken it; nothing before that parts the two, which is why a release that
takes the active peer takes the right track.
`BoxOK` says that a track which is no longer the one `open` has read is
a new one, hence empty; `InputOK` that at most one message from before the clock was read
is on its way.

**WebRTC session manager.** `ManagerInv` of `WebRTCSessionManagerProofs` has a part for each
thing that the tasks of a session share. `LockOK`: exactly the tasks that wait for the
session lock or are in one of its sections are in its queue, and one in a section is its
head; so nobody else closes while an offer negotiates (`NobodyCloses`). `OffersOK` and
`LivesOK`: an offer is admitted when no peer is left, there is one peer at a time, a peer
that is being closed has a closer which holds the lock, and a cancellation is only on its
way to a task that has not ended. `SlotsOK`: a reservation belongs to a session that is being admitted, is
open or is draining. `RunsOK`: what the generation task counts on at each of its places,
from the reservation it holds while it uses the model to the resources the driver has
forgotten when the task is elsewhere. `ReleasedAfterCleanup` was not inductive as first
stated: it spoke of a session that has given its slot back, and the step that gives it back
relies on what the worker has closed by then. The property now says that too. The lock's
queue is handled by lemmas about entering, leaving and being removed from a queue without
repetitions (`QueueEnter`, `QueueLeave`, `QueueRemove`) and one about any task that moves
(`LockMoves`); the generation task's steps share `RunMoves`, in which a step shows only
what the task counts on at its next place.

**Model-checked only.** All liveness properties and everything that rests on fairness or
ENABLED, which the prover does not handle: `PublishReturns`, `Terminates`,
`FiniteRunEnds`, `AllRanksEnd`, `RunEnds`, `LockDrains`, `ServerStops`, `ClosedDrains` and
the liveness half of `ImplementsMailbox`.

## 6. Plan

Done: the two buffers, the session on one process, agreement between ranks, the runs of
sessions; the v2 track and server; the v1 session manager and output bridge; proofs
of every safety and action property of all of them. Next, in this order:

1. `LoopMessages`: `invoke_async` against `_run_message_batch` and `_shutdown`
   (a message runs once, before a step, or is refused), with the pending events that
   `_finish_run` clears.
2. `InputTimeline`: sampling windows as functions over bounded integer time.
3. Refinement of `ApplicationRunner`'s session by `StepAgreement`: its outcome as the
   abstract `SessionEnds`.


## 7. Not modelled, and why

- Graphics, codecs, HTTP, files (`native_window_client_window.py`, `video_encoder.py`,
  the sinks, the UI renderers): I/O. What the session needs of them (may raise, must be
  closed) is in `SessionRunner`'s environment.
- The cadence arithmetic of the presentation clock and the frame-rate tracker:
  floating-point rates. The models allow every answer the arithmetic can give.
- Profiler, chunk traces, preparation guard: no control flow depends on them.
- `api_v2/loop.py`: messages between loops, pacing, and the step index and pending
  events of `_finish_run`. `session_runner.py`: which failures are logged
  beside the one that is raised.
- `runtime_v2/serving/webrtc_server.py`: cursor options, links, image conversion, static
  routes, start of the server's thread, the time limits of close (the loop is assumed
  to answer in time there; the limits of `open` and `resize` are `TimesOut`), and a peer
  that fails before it is installed. The connection of an offer that is installed after
  `_shutdown` has looked for a peer stays open (its track may have been taken): the
  process ends next and nothing says what should hold of it.
- `serving/webrtc/manager.py` and what it runs on: preload and warm-up, the H.264
  fallback (a negotiation that fails stands for it), the content of messages, metrics,
  shutdown while an offer waits, a cancellation that arrives during
  `create_provider` or `start_session` and leaves resources the driver never had, a
  `start_session` that returns after its timeout. `services.py`, `media.py`: the NVENC
  track, encoders and the resampler.
- The other drivers, providers and metrics of `runtime/` and `demo/`: sequential set-up
  of a run and offline loops without a second actor.
- `core/`, `accelerated/`, `infra/`, `recipes/`, `quality/`: numeric model code.
  `src/apps`, `src/integrations_v2`: users of the API.

## 8. Running

    tlc -workers 2 -config SessionSafety.cfg MCSessionRunner
    tlapm EventBufferProofs.tla       # and the other *Proofs modules

`PROJECT.json` pairs every run with its module and configuration, every property
with a mutant that violates it, and every definition with the lines it models.
