--------------------------- MODULE SessionRunner ----------------------------
(***************************************************************************)
(* runtime_v2/session_runner.py with the loops of api_v2/loop.py: one      *)
(* session on one process.  The main thread owns the window and runs the   *)
(* UI loop; the model thread runs the model loop.  They share an           *)
(* EventBuffer, a PresentationManager, the shutdown event, the failure     *)
(* queue and the model's inference state, and nothing else, so steps are   *)
(* cut where one of those is touched.                                      *)
(*                                                                         *)
(* The application's own code (init, step, reset, close, is_finished) and  *)
(* the client window are the environment: they may do what their           *)
(* interfaces allow, including raise.  Pixels, metrics values and pacing   *)
(* are left out, and so are the step index and the pending events, which   *)
(* only reach the application's step.                                      *)
(***************************************************************************)
EXTENDS Integers, Sequences, FiniteSets

CONSTANTS UiReader, ModelReader, \* _UI_READER_ID, _MODEL_READER_ID
          CloseEvent, ResetEvent, OtherEvent,
          Timestamp,             \* event -> get_timestamp()
          Batches,               \* what one poll of the window may return
          UiKinds,               \* subset of {"blit", "interactive"}
          BackpressureModes,     \* subset of {"BLOCK", "DROP_OLDEST"}
          PresentationModes,     \* subset of {"CONTINUOUS", "ON_DEMAND"}
          StepLimits,            \* values of `steps'; NoLimit is None
          NoLimit,
          Deadlines,             \* subset of {"none", "ahead"}
          FrameCounts, NoChunk,  \* as in PresentationManager
          MaxLog,                \* bound: input events
          MaxSteps,              \* bound: model steps
          MaxWrites,             \* bound: the count of window writes stops here
          MaxFailures            \* bound: times the environment raises

ASSUME FrameCountsArePositive == FrameCounts \subseteq Nat \ {0}
ASSUME BoundsAreNat == {MaxLog, MaxSteps, MaxWrites, MaxFailures} \subseteq Nat
ASSUME SettingsAreKnown == /\ BackpressureModes \subseteq {"BLOCK", "DROP_OLDEST"}
                           /\ Deadlines \subseteq {"none", "ahead"}
ASSUME NoChunkIsNoChunk ==
    NoChunk \notin [generation : Nat, serial : Nat \ {0}, frames : FrameCounts]

Readers == {UiReader, ModelReader}
Events == {CloseEvent, ResetEvent, OtherEvent}

ASSUME TimestampsAreInt == Timestamp \in [Events -> Int]
ASSUME BatchesAreSequences == Batches \subseteq Seq(Events)

VARIABLES
    \* EventBuffer; `current' is its generation
    events, received, baseIndex, readerIndexes, current, lastReadReceived,
    lastRead, collected, clearedResets,
    \* PresentationManager; `stop' is the shutdown event
    mode, stop, buffered, clock, generation, presented, frameIndex,
    presentedFrameCount, droppedForSpace, discardedAtReset, publisher,
    presenter, closed, published, shown, taken, gaveUp, cleared,
    \* the session and its loops
    config,        \* the session description and run_session's arguments
    deadline,      \* "none", "ahead" or "passed"
    main,          \* the main thread: where it is, and its locals
    ui,            \* the UI loop
    model,         \* the model thread and the model loop
    inference,     \* _inference_state
    failureQueue,  \* session._failure_queue
    nextSession,   \* next_session_desc is not None
    window,        \* the client window, with a history of its use
    errors,        \* high_level_failures, cleanup_failures, and a history
    outcome        \* how run_session ended

EB == INSTANCE EventBuffer
        WITH generation <- current, ResetEvents <- {ResetEvent}, Times <- {0},
             MaxGeneration <- MaxLog
PM == INSTANCE PresentationManager
        WITH QueueCapacity <- 1, MaxPublished <- MaxSteps, MaxGeneration <- MaxLog

bufferVars == <<events, received, baseIndex, readerIndexes, current,
                lastReadReceived, lastRead, collected, clearedResets>>
queueVars == <<buffered, clock, generation, presented, frameIndex,
               presentedFrameCount, droppedForSpace, discardedAtReset, publisher,
               presenter, published, shown, taken, gaveUp, cleared>>
managerVars == <<queueVars, mode, closed>>
modelVars == <<model, inference, failureQueue>>
fixedVars == <<config, deadline>>
sessionVars == <<bufferVars, managerVars, modelVars, fixedVars, stop, main, ui,
                 nextSession, window, errors, outcome>>

Nothing == "nothing"   \* no exception

Done == main.pc = "done"

-----------------------------------------------------------------------------
Init ==
    /\ EB!Init /\ PM!Init
    /\ mode \in BackpressureModes
    /\ config \in [ui : UiKinds, presentation : PresentationModes, steps : StepLimits]
    /\ deadline \in Deadlines
    /\ main = [pc |-> "init", startup |-> TRUE, registered |-> FALSE,
               stepRequested |-> FALSE, pending |-> FALSE, uiFinished |-> FALSE]
    /\ ui = [generation |-> 0, request |-> FALSE, drawn |-> 0, sawClose |-> FALSE,
             closes |-> 0]
    /\ model = [pc |-> "off", generation |-> 0, steps |-> 0, frames |-> 0, closes |-> 0]
    /\ inference = "NOT_STARTED"
    /\ failureQueue = <<>>
    /\ nextSession = FALSE
    /\ window = [open |-> FALSE, closes |-> 0, writes |-> 0, misused |-> FALSE]
    /\ errors = [raised |-> {}, main |-> Nothing, cleanup |-> <<>>]
    /\ outcome = "running"

Goto(pc) == main' = [main EXCEPT !.pc = pc]

\* A step after which the locals of should_end_ui and tick_ui are dead.
GotoAfresh(pc) == main' = [main EXCEPT !.pc = pc, !.stepRequested = FALSE,
                                       !.pending = FALSE, !.uiFinished = FALSE]

\* The environment raises; the history remembers every exception.
CanRaise(failure) ==
    Cardinality(errors.raised) < MaxFailures /\ failure \notin errors.raised

\* An exception inside the try: remembered, and cleanup begins.
MainRaises(failure) ==
    /\ CanRaise(failure)
    /\ errors' = [errors EXCEPT !.raised = @ \cup {failure}, !.main = failure]
    /\ GotoAfresh("setStop")

-----------------------------------------------------------------------------
(* The main thread: setting the session up.                                 *)

\* session.init() and _take_loops().  A failed init may have registered loops.
InitSession ==
    /\ main.pc = "init"
    /\ \/ main' = [main EXCEPT !.pc = "registerUi", !.registered = TRUE]
          /\ UNCHANGED errors
       \/ \E registered \in BOOLEAN :
             /\ CanRaise("init")
             /\ errors' = [errors EXCEPT !.raised = @ \cup {"init"}, !.main = "init"]
             /\ main' = [main EXCEPT !.pc = "setStop", !.registered = registered]
    /\ UNCHANGED <<bufferVars, managerVars, modelVars, fixedVars, stop, ui,
                   nextSession, window, outcome>>

RegisterReaders ==
    /\ \/ main.pc = "registerUi" /\ EB!Register(UiReader) /\ Goto("registerModel")
       \/ main.pc = "registerModel" /\ EB!Register(ModelReader) /\ Goto("open")
    /\ UNCHANGED <<managerVars, modelVars, fixedVars, stop, ui, nextSession, window,
                   errors, outcome>>

\* window.open(session_desc), and the sink's open.
OpenWindow ==
    /\ main.pc = "open"
    /\ window' = [window EXCEPT !.open = TRUE]
    /\ \/ Goto("collect") /\ UNCHANGED errors
       \/ MainRaises("open")
    /\ UNCHANGED <<bufferVars, managerVars, modelVars, fixedVars, stop, ui,
                   nextSession, outcome>>

-----------------------------------------------------------------------------
(* The main thread: one tick.                                               *)

\* A call on the window; the history remembers one outside open .. close.
UseWindow(w) == [w EXCEPT !.misused = @ \/ ~w.open]

CollectInput(after) ==
    /\ window' = UseWindow(window)
    /\ \/ /\ \E batch \in Batches : EB!AppendBatch(batch, 0)
          /\ Goto(after) /\ UNCHANGED errors
       \/ MainRaises("input") /\ UNCHANGED bufferVars
    /\ UNCHANGED <<managerVars, modelVars, fixedVars, stop, ui, nextSession, outcome>>

Collect == main.pc = "collect" /\ CollectInput("tick")

\* Mutation: advance is given the generation the UI loop last ran under.
TickUiBehind ==
    /\ main.pc = "tick"
    /\ PM!AdvanceBegin(ui.generation)
    /\ Goto("advance")
    /\ UNCHANGED <<bufferVars, mode, closed, modelVars, fixedVars, stop, ui,
                   nextSession, window, errors, outcome>>

\* tick_ui reads the generation, and advance begins with it.
TickUi ==
    /\ main.pc = "tick"
    /\ PM!AdvanceBegin(current)
    /\ Goto("advance")
    /\ UNCHANGED <<bufferVars, mode, closed, modelVars, fixedVars, stop, ui,
                   nextSession, window, errors, outcome>>

Advance ==
    /\ main.pc = "advance"
    /\ PM!AdvanceStep
    /\ Goto(IF presenter'.pc = "idle" THEN "request" ELSE "advance")
    /\ UNCHANGED <<bufferVars, mode, closed, modelVars, fixedVars, stop, ui,
                   nextSession, window, errors, outcome>>

\* Whether this tick asks the UI loop for a step.
StepRequested ==
    \/ presenter.advanced
    \/ inference = "RUNNING" /\ config.presentation = "CONTINUOUS"
    \/ inference = "NOT_STARTED"
    \/ inference = "FINISHED" /\ ~PM!HasPendingFrames /\ failureQueue = <<>>

RequestStep ==
    /\ main.pc = "request"
    /\ main' = [main EXCEPT !.pc = "runUi", !.stepRequested = StepRequested]
    /\ UNCHANGED <<bufferVars, managerVars, modelVars, fixedVars, stop, ui,
                   nextSession, window, errors, outcome>>

Holds(batch, event) == \E i \in 1 .. Len(batch) : batch[i] = event

\* _begin_run at a new generation: reset().
AfterReset(loop, g) ==
    IF g # loop.generation
      THEN [loop EXCEPT !.generation = g, !.drawn = 0]
      ELSE loop

\* BlitModelOutputToScreenLoop.is_finished; an interactive UI never finishes.
UiFinished(loop) ==
    /\ config.ui = "blit"
    /\ inference = "FINISHED"
    /\ ~PM!HasPendingFrames
    /\ loop.drawn = presentedFrameCount

\* step(), then the flush that puts a replacement request back, then write().
StepUi(loop, draws, asks) ==
    /\ ui' = [loop EXCEPT !.request = asks, !.drawn = presentedFrameCount]
    /\ window' = IF draws THEN [UseWindow(window) EXCEPT
                                            !.writes = IF @ < MaxWrites THEN @ + 1 ELSE @]
                          ELSE window
    /\ UNCHANGED <<stop, nextSession>>

UiSteps(loop) ==
    \/ config.ui = "blit" /\ StepUi(loop, presented # NoChunk, FALSE)
    \/ /\ config.ui = "interactive"
       /\ \E draws, asks \in BOOLEAN : StepUi(loop, draws, asks)

\* The loop once it has the events just read.
UiAfterRead ==
    [ui EXCEPT !.sawClose = @ \/ Holds(lastRead'[UiReader].events, CloseEvent)]

\* Mutation: a replacement request is looked at before the close event.
RunUiRequestFirst(requested, after) ==
    /\ EB!Read(UiReader)
    /\ LET loop == AfterReset(UiAfterRead, lastRead'[UiReader].generation)
       IN  \/ /\ loop.request
              /\ stop' = TRUE /\ nextSession' = TRUE
              /\ ui' = [loop EXCEPT !.request = FALSE]
              /\ UNCHANGED window
           \/ /\ ~loop.request /\ loop.sawClose
              /\ stop' = TRUE
              /\ ui' = loop /\ UNCHANGED <<nextSession, window>>
           \/ ~loop.request /\ ~loop.sawClose /\ UiSteps(loop)
    /\ Goto(after) /\ UNCHANGED errors
    /\ UNCHANGED <<managerVars, modelVars, fixedVars, outcome>>

\* run_ui_once: a close event comes first, then a replacement asked for in an
\* earlier step, then the step itself.
RunUi(requested, after) ==
    /\ EB!Read(UiReader)
    /\ LET read == UiAfterRead
           closing == stop \/ read.sawClose
           loop == AfterReset(read, lastRead'[UiReader].generation)
           idle == ~requested \/ UiFinished(loop)
       IN  \/ /\ MainRaises("ui")
              /\ ui' \in {read, loop}
              /\ UNCHANGED <<stop, nextSession, window>>
           \/ /\ main' = [main EXCEPT !.pc = after, !.stepRequested = FALSE]
              /\ UNCHANGED errors
              /\ \/ /\ closing
                    /\ stop' = TRUE
                    /\ ui' = read /\ UNCHANGED <<nextSession, window>>
                 \/ /\ ~closing /\ loop.request
                    /\ stop' = TRUE /\ nextSession' = TRUE
                    /\ ui' = [loop EXCEPT !.request = FALSE]
                    /\ UNCHANGED window
                 \/ /\ ~closing /\ ~loop.request /\ idle
                    /\ ui' = loop
                    /\ UNCHANGED <<stop, nextSession, window>>
                 \/ ~closing /\ ~loop.request /\ ~idle /\ UiSteps(loop)
    /\ UNCHANGED <<managerVars, modelVars, fixedVars, outcome>>

RunTickUi ==
    /\ main.pc = "runUi"
    /\ RunUi(main.stepRequested, IF main.startup THEN "launch" ELSE "garbage")

CollectGarbage ==
    /\ main.pc = "garbage"
    /\ EB!CollectGarbage
    /\ Goto("loop")
    /\ UNCHANGED <<managerVars, modelVars, fixedVars, stop, ui, nextSession, window,
                   errors, outcome>>

-----------------------------------------------------------------------------
(* The main thread: the loop around the ticks.                              *)

ExpireIfDue ==
    IF deadline = "passed"
      THEN stop' = TRUE /\ nextSession' = FALSE
      ELSE UNCHANGED <<stop, nextSession>>

\* After the first tick: start the model thread, unless the run is over.
Launch ==
    /\ main.pc = "launch"
    /\ ExpireIfDue
    /\ main' = [main EXCEPT !.pc = IF stop' THEN "setStop" ELSE "loop",
                            !.startup = FALSE]
    /\ model' = IF stop' THEN model ELSE [model EXCEPT !.pc = "started"]
    /\ UNCHANGED <<bufferVars, managerVars, fixedVars, inference, failureQueue, ui,
                   window, errors, outcome>>

LoopTop ==
    /\ main.pc = "loop"
    /\ ExpireIfDue
    /\ Goto("shouldEnd")
    /\ UNCHANGED <<bufferVars, managerVars, modelVars, fixedVars, ui, window, errors,
                   outcome>>

\* Mutation: the run ends with its model, whatever is still to be shown.
ShouldEndIgnoringPending ==
    /\ main.pc = "shouldEnd"
    /\ Goto(IF model.pc # "dead" THEN "wait" ELSE "setStop")
    /\ UNCHANGED <<bufferVars, managerVars, modelVars, fixedVars, stop, ui,
                   nextSession, window, errors, outcome>>

\* should_end_ui, up to the last poll of the window that it may make.
ShouldEnd ==
    LET pending == PM!HasPendingFrames
        settled == ~pending /\ ~stop /\ ~nextSession
        uiFinished == settled /\ config.steps = NoLimit /\ UiFinished(ui)
    IN  /\ main.pc = "shouldEnd"
        /\ \/ model.pc # "dead" /\ Goto("wait")
           \/ model.pc = "dead" /\ failureQueue # <<>> /\ Goto("setStop")
           \/ /\ model.pc = "dead" /\ failureQueue = <<>>
              /\ main' = [main EXCEPT
                    !.pending = pending, !.uiFinished = uiFinished,
                    !.pc = IF settled /\ (config.steps # NoLimit \/ uiFinished)
                             THEN "lastCollect" ELSE "decideEnd"]
        /\ UNCHANGED <<bufferVars, managerVars, modelVars, fixedVars, stop, ui,
                       nextSession, window, errors, outcome>>

LastCollect == main.pc = "lastCollect" /\ CollectInput("lastRun")

LastRun == main.pc = "lastRun" /\ RunUi(FALSE, "decideEnd")

DecideEnd ==
    /\ main.pc = "decideEnd"
    /\ GotoAfresh(IF \/ stop \/ nextSession \/ main.uiFinished
                     \/ ~main.pending /\ config.steps # NoLimit
                    THEN "setStop" ELSE "wait")
    /\ UNCHANGED <<bufferVars, managerVars, modelVars, fixedVars, stop, ui,
                   nextSession, window, errors, outcome>>

\* After a stop the loop only joins; otherwise it sleeps until the next tick.
Wait ==
    /\ main.pc = "wait"
    /\ \/ stop /\ model.pc = "dead" /\ Goto("loop") /\ UNCHANGED <<stop, nextSession>>
       \/ ~stop /\ ExpireIfDue /\ Goto(IF stop' THEN "loop" ELSE "collect")
    /\ UNCHANGED <<bufferVars, managerVars, modelVars, fixedVars, ui, window, errors,
                   outcome>>

-----------------------------------------------------------------------------
(* The model thread: _run_model_loop.                                       *)

ModelGoto(pc) == model' = [model EXCEPT !.pc = pc]

\* The except clause puts the exception on the session's queue.
ModelRaises(failure, pc) ==
    /\ CanRaise(failure)
    /\ errors' = [errors EXCEPT !.raised = @ \cup {failure}]
    /\ failureQueue' = Append(failureQueue, failure)
    /\ ModelGoto(pc)

mainSide == <<main, ui, nextSession, window, outcome, stop, mode, closed, fixedVars>>

ModelStart ==
    /\ model.pc = "started"
    /\ inference' = "RUNNING"
    /\ ModelGoto("check")
    /\ UNCHANGED <<bufferVars, queueVars, failureQueue, errors, mainSide>>

ModelCheck ==
    /\ model.pc = "check"
    /\ ModelGoto(IF stop \/ (config.steps # NoLimit /\ model.steps >= config.steps)
                   THEN "exit" ELSE "read")
    /\ UNCHANGED <<bufferVars, queueVars, inference, failureQueue, errors, mainSide>>

\* Read the input, and _begin_run: a close event or the shutdown event ends the
\* loop, and so does is_finished, which the last step of the model must answer.
ModelRead ==
    /\ model.pc = "read"
    /\ EB!Read(ModelReader)
    /\ LET closing == Holds(lastRead'[ModelReader].events, CloseEvent)
           read == [model EXCEPT !.generation = lastRead'[ModelReader].generation]
       IN  \/ ModelRaises("model", "exit")
           \/ /\ UNCHANGED <<failureQueue, errors>>
              /\ \/ /\ closing \/ stop
                    /\ model' = [model EXCEPT !.pc = "exit"]
                 \/ ~closing /\ ~stop /\ model' = [read EXCEPT !.pc = "exit"]
                 \/ /\ ~closing /\ ~stop /\ model.steps < MaxSteps
                    /\ model' = [read EXCEPT !.pc = "admit"]
    /\ UNCHANGED <<queueVars, inference, mainSide>>

\* After the pace: the last look at the shutdown event before a step.
ModelAdmit ==
    /\ model.pc = "admit"
    /\ ModelGoto(IF stop THEN "exit" ELSE "step")
    /\ UNCHANGED <<bufferVars, queueVars, inference, failureQueue, errors, mainSide>>

\* step() returns nothing to present, or a chunk that publish begins to hand
\* over, or raises.
ModelStep ==
    /\ model.pc = "step"
    /\ \/ ModelRaises("model", "exit") /\ UNCHANGED queueVars
       \/ /\ model' = [model EXCEPT !.pc = "check", !.steps = @ + 1]
          /\ UNCHANGED <<queueVars, failureQueue, errors>>
       \/ \E frames \in FrameCounts :
             /\ PM!PublishBegin(model.generation, frames)
             /\ model' = [model EXCEPT !.pc = "publish", !.frames = @ + frames]
             /\ UNCHANGED <<failureQueue, errors>>
    /\ UNCHANGED <<bufferVars, inference, mainSide>>

ModelPublish ==
    /\ model.pc = "publish"
    /\ PM!PublishStep
    /\ UNCHANGED <<bufferVars, modelVars, errors, mainSide>>

\* publish has returned; the sink's write may raise.
ModelPublished ==
    /\ model.pc = "publish" /\ publisher.pc = "idle"
    /\ \/ ModelRaises("model", "exit")
       \/ /\ model' = [model EXCEPT !.pc = "check", !.steps = @ + 1]
          /\ UNCHANGED <<failureQueue, errors>>
    /\ UNCHANGED <<bufferVars, queueVars, inference, mainSide>>

ModelExit ==
    /\ model.pc = "exit"
    /\ inference' = "FINISHED"
    /\ ModelGoto("shutdown")
    /\ UNCHANGED <<bufferVars, queueVars, failureQueue, errors, mainSide>>

\* self._shutdown() in the finally clause; then the thread is dead.
ModelShutdown ==
    /\ model.pc = "shutdown"
    /\ LET closedLoop == [model EXCEPT !.closes = @ + 1, !.pc = "dead"]
       IN  \/ model' = closedLoop /\ UNCHANGED <<failureQueue, errors>>
           \/ /\ CanRaise("modelClose")
              /\ errors' = [errors EXCEPT !.raised = @ \cup {"modelClose"}]
              /\ failureQueue' = Append(failureQueue, "modelClose")
              /\ model' = closedLoop
    /\ UNCHANGED <<bufferVars, queueVars, inference, mainSide>>

-----------------------------------------------------------------------------
(* The main thread: the finally clause and what follows it.                 *)

SetStop ==
    /\ main.pc = "setStop"
    /\ stop' = TRUE
    /\ Goto("join")
    /\ UNCHANGED <<bufferVars, managerVars, modelVars, fixedVars, ui, nextSession,
                   window, errors, outcome>>

\* Mutation: cleanup does not wait for the model thread.
NoJoin ==
    /\ main.pc = "join"
    /\ Goto("closeManager")
    /\ UNCHANGED <<bufferVars, managerVars, modelVars, fixedVars, stop, ui,
                   nextSession, window, errors, outcome>>

Join ==
    /\ main.pc = "join"
    /\ model.pc \in {"off", "dead"}
    /\ Goto("closeManager")
    /\ UNCHANGED <<bufferVars, managerVars, modelVars, fixedVars, stop, ui,
                   nextSession, window, errors, outcome>>

\* cleanup(action): an exception is kept and the next action runs all the same.
Cleanup(failure, next) ==
    /\ Goto(next)
    /\ \/ UNCHANGED errors
       \/ /\ CanRaise(failure)
          /\ errors' = [errors EXCEPT !.raised = @ \cup {failure},
                                      !.cleanup = Append(@, failure)]

CloseManager ==
    /\ main.pc = "closeManager"
    /\ Cleanup("manager", "closeModelLoop")
    /\ closed' = TRUE
    /\ IF errors' = errors THEN PM!Close ELSE UNCHANGED queueVars
    /\ UNCHANGED <<bufferVars, mode, modelVars, fixedVars, stop, ui, nextSession,
                   window, outcome>>

\* _shutdown_registered_loops: a loop that the model thread has closed already,
\* or that was never registered, is passed over.
CloseModelLoop ==
    /\ main.pc = "closeModelLoop"
    /\ IF main.registered /\ model.closes = 0
         THEN /\ Cleanup("modelClose", "closeUiLoop")
              /\ model' = [model EXCEPT !.closes = @ + 1]
         ELSE Goto("closeUiLoop") /\ UNCHANGED <<errors, model>>
    /\ UNCHANGED <<bufferVars, managerVars, inference, failureQueue, fixedVars, stop,
                   ui, nextSession, window, outcome>>

CloseUiLoop ==
    /\ main.pc = "closeUiLoop"
    /\ IF main.registered
         THEN Cleanup("uiClose", "clearBuffer") /\ ui' = [ui EXCEPT !.closes = @ + 1]
         ELSE Goto("clearBuffer") /\ UNCHANGED <<errors, ui>>
    /\ UNCHANGED <<bufferVars, managerVars, modelVars, fixedVars, stop, nextSession,
                   window, outcome>>

ClearBuffer ==
    /\ main.pc = "clearBuffer"
    /\ EB!Clear
    /\ Goto("closeWindow")
    /\ UNCHANGED <<managerVars, modelVars, fixedVars, stop, ui, nextSession, window,
                   errors, outcome>>

CloseIt(w) == [w EXCEPT !.open = FALSE, !.closes = @ + 1]

\* The sink, and the window unless a replacement session is to have it.
CloseWindow ==
    /\ main.pc = "closeWindow"
    /\ Cleanup("window", "closeSession")
    /\ window' = IF nextSession THEN window ELSE CloseIt(window)
    /\ UNCHANGED <<bufferVars, managerVars, modelVars, fixedVars, stop, ui,
                   nextSession, outcome>>

CloseSession ==
    /\ main.pc = "closeSession"
    /\ Cleanup("session", "report")
    /\ UNCHANGED <<bufferVars, managerVars, modelVars, fixedVars, stop, ui,
                   nextSession, window, outcome>>

\* Mutation: the main thread's own failure is looked at first.
PrimaryMainFirst ==
    IF errors.main # Nothing THEN errors.main
    ELSE IF failureQueue # <<>> THEN Head(failureQueue)
    ELSE IF errors.cleanup # <<>> THEN Head(errors.cleanup)
    ELSE Nothing

\* loop_failures or high_level_failures, or else the first cleanup failure.
Primary ==
    IF failureQueue # <<>> THEN Head(failureQueue)
    ELSE IF errors.main # Nothing THEN errors.main
    ELSE IF errors.cleanup # <<>> THEN Head(errors.cleanup)
    ELSE Nothing

\* Mutation: the window of a replacement that cannot be is left open.
ReportKeepingWindow ==
    /\ main.pc = "report"
    /\ outcome' = IF Primary # Nothing THEN Primary
                  ELSE IF nextSession THEN "replaced" ELSE "ended"
    /\ Goto("done")
    /\ UNCHANGED <<bufferVars, managerVars, modelVars, fixedVars, stop, ui,
                   nextSession, window, errors>>

\* Select the failure to raise, close the window of a replacement that cannot
\* be, and raise or return.
Report ==
    /\ main.pc = "report"
    /\ outcome' = IF Primary # Nothing THEN Primary
                  ELSE IF nextSession THEN "replaced" ELSE "ended"
    /\ LET closing == nextSession /\ Primary # Nothing
       IN  /\ window' = IF closing THEN CloseIt(window) ELSE window
           /\ \/ UNCHANGED errors
              \/ /\ closing /\ CanRaise("lateClose")
                 /\ errors' = [errors EXCEPT !.raised = @ \cup {"lateClose"}]
    /\ Goto("done")
    /\ UNCHANGED <<bufferVars, managerVars, modelVars, fixedVars, stop, ui,
                   nextSession>>

-----------------------------------------------------------------------------
DeadlinePasses ==
    /\ deadline = "ahead" /\ ~Done
    /\ deadline' = "passed"
    /\ UNCHANGED <<bufferVars, managerVars, modelVars, stop, main, ui, nextSession,
                   window, errors, outcome, config>>

Finished == Done /\ UNCHANGED sessionVars

MainThread ==
    \/ InitSession \/ RegisterReaders \/ OpenWindow
    \/ Collect \/ TickUi \/ Advance \/ RequestStep \/ RunTickUi \/ CollectGarbage
    \/ Launch \/ LoopTop \/ ShouldEnd \/ LastCollect \/ LastRun \/ DecideEnd \/ Wait
    \/ SetStop \/ Join \/ CloseManager \/ CloseModelLoop \/ CloseUiLoop \/ ClearBuffer
    \/ CloseWindow \/ CloseSession \/ Report

ModelThread ==
    \/ ModelStart \/ ModelCheck \/ ModelRead \/ ModelAdmit \/ ModelStep
    \/ ModelPublish \/ ModelPublished \/ ModelExit \/ ModelShutdown

Next == MainThread \/ ModelThread \/ DeadlinePasses \/ Finished

\* Both threads are scheduled, hooks of the application return, and the time
\* for the next frame comes while ticks keep asking.
Fairness ==
    /\ WF_sessionVars(MainThread)
    /\ WF_sessionVars(ModelThread)
    /\ SF_sessionVars(Advance /\ PM!IsDue(TRUE))

Spec == Init /\ [][Next]_sessionVars /\ Fairness

-----------------------------------------------------------------------------
TypeOK ==
    /\ EB!TypeOK /\ PM!TypeOK
    /\ deadline \in {"none", "ahead", "passed"}
    /\ model.steps \in 0 .. MaxSteps /\ model.closes \in {0, 1}
    /\ ui.closes \in {0, 1}
    /\ inference \in {"NOT_STARTED", "RUNNING", "FINISHED"}
    /\ nextSession \in BOOLEAN

(***************************************************************************)
(* The window is opened before it is used, never used after it was closed, *)
(* closed at most once, and left open exactly when a clean replacement     *)
(* session is to take it over.                                             *)
(***************************************************************************)
WindowOwnership ==
    /\ TypeOK
    /\ ~window.misused
    /\ window.closes <= 1
    /\ Done => (window.closes = 0 <=> outcome = "replaced")

(***************************************************************************)
(* Nothing that the model thread uses is torn down while it may still run, *)
(* and at the end each registered loop has been closed exactly once,       *)
(* whichever thread came to it first.                                      *)
(***************************************************************************)
TeardownAfterModel ==
    /\ (closed \/ window.closes > 0 \/ ui.closes > 0) => model.pc \in {"off", "dead"}
    /\ Done => /\ model.closes = (IF main.registered THEN 1 ELSE 0)
               /\ ui.closes = (IF main.registered THEN 1 ELSE 0)

(***************************************************************************)
(* run_session raises when anything at all raised, in the try, on the      *)
(* model thread or in cleanup, and only then; a failure of the model loop  *)
(* outranks the rest.                                                      *)
(***************************************************************************)
NoSilentFailure ==
    Done => /\ (errors.raised = {}) <=> (outcome \in {"ended", "replaced"})
            /\ ("model" \in errors.raised) => (outcome = "model")

(***************************************************************************)
(* A close event that the UI has seen ends the application run: no         *)
(* replacement request, earlier or in the same step, survives it.          *)
(***************************************************************************)
CloseCancelsReplacement == nextSession => ~ui.sawClose

(***************************************************************************)
(* A run for files (the default UI, BLOCK, ON_DEMAND) that nobody stops    *)
(* early writes every generated frame to the window, each exactly once,    *)
(* including those generated last.                                         *)
(***************************************************************************)
FileRunWritesEveryFrame ==
    /\ Done /\ outcome = "ended"
    /\ config.ui = "blit" /\ mode = "BLOCK" /\ config.presentation = "ON_DEMAND"
    /\ current = 0 /\ ~ui.sawClose /\ deadline # "passed"
    => window.writes = model.frames

(***************************************************************************)
(* The two threads keep to what the PresentationManager module assumes of  *)
(* them: generations published never go back nor run ahead of the event    *)
(* buffer's, resets and stops fall between two advances, and the manager   *)
(* is closed when neither thread is inside it.                             *)
(***************************************************************************)
KeepsManagerContract == PM!Init /\ [][PM!Next]_(PM!presentationVars)

(***************************************************************************)
(* Once shutdown is signalled, something failed or the deadline passed,    *)
(* the session ends, wherever the two threads are.                         *)
(***************************************************************************)
Terminates == (stop \/ errors.raised # {} \/ deadline = "passed") ~> Done

(***************************************************************************)
(* With the default UI a session whose model loop has ended ends by itself.*)
(***************************************************************************)
FiniteRunEnds == (config.ui = "blit" /\ model.pc = "dead") ~> Done

=============================================================================
