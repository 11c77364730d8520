------------------------ MODULE SessionRunnerProofs -------------------------
(***************************************************************************)
(* One session, for every batch of input, every bound and every set of     *)
(* settings: who owns the window, what is torn down when, which failure is *)
(* raised, and that the two threads use the PresentationManager as its     *)
(* module assumes, so that what is proved there holds inside a session.    *)
(***************************************************************************)
EXTENDS SessionRunner, FiniteSetTheorems, SequenceTheorems, TLAPS

\* The theorems about the two shared objects, as this session uses them.
EBP == INSTANCE EventBufferProofs
        WITH generation <- current, ResetEvents <- {ResetEvent}, Times <- {0},
             MaxGeneration <- MaxLog
PMP == INSTANCE PresentationManagerProofs
        WITH QueueCapacity <- 1, MaxPublished <- MaxSteps, MaxGeneration <- MaxLog

-----------------------------------------------------------------------------
(* Places of the two threads.                                               *)

Setup == {"init", "registerUi", "registerModel", "open"}

\* Reached only while the shutdown event is not set.
Ticking == {"collect", "tick", "advance", "request", "runUi", "lastCollect", "lastRun"}
Looping == Ticking \cup {"launch", "garbage", "loop", "shouldEnd", "decideEnd", "wait"}

\* The cleanup after the join, from each of its calls on.
PastWindow == {"closeSession", "report", "done"}
PastUiLoop == PastWindow \cup {"clearBuffer", "closeWindow"}
PastModelLoop == PastUiLoop \cup {"closeUiLoop"}
PastManager == PastModelLoop \cup {"closeModelLoop"}
PastJoin == PastManager \cup {"closeManager"}
MainPlaces == Setup \cup Looping \cup {"setStop", "join"} \cup PastJoin

\* The model thread before the exit from its loop.
Running == {"started", "check", "read", "admit", "step", "publish"}
ModelPlaces == Running \cup {"off", "exit", "shutdown", "dead"}

Failures == {"init", "open", "input", "ui", "model", "modelClose", "manager",
             "uiClose", "window", "session", "lateClose"}

-----------------------------------------------------------------------------
(* The inductive invariant.                                                 *)

Mains == [pc : MainPlaces, startup : BOOLEAN, registered : BOOLEAN,
          stepRequested : BOOLEAN, pending : BOOLEAN, uiFinished : BOOLEAN]

Uis == [generation : Nat, request : BOOLEAN, drawn : Nat, sawClose : BOOLEAN,
        closes : {0, 1}]
Models == [pc : ModelPlaces, generation : Nat, steps : 0 .. MaxSteps, frames : Nat,
           closes : {0, 1}]
Windows == [open : BOOLEAN, closes : Nat, writes : Nat, misused : BOOLEAN]

Types ==
    /\ main \in Mains /\ ui \in Uis /\ model \in Models /\ window \in Windows
    /\ stop \in BOOLEAN /\ nextSession \in BOOLEAN
    /\ inference \in {"NOT_STARTED", "RUNNING", "FINISHED"}
    /\ deadline \in {"none", "ahead", "passed"}

\* No tick begins after a stop, the model thread starts once and only in a
\* session with loops, and after the join there is no model thread.
ThreadsOK ==
    /\ main.pc \in Setup \cup Ticking => ~stop
    /\ main.pc \in PastJoin \cup {"join"} => stop
    /\ main.pc \in Setup \cup {"launch"} => main.startup
    /\ main.startup => model.pc = "off"
    /\ main.pc \in Looping \cup (Setup \ {"init"}) => main.registered
    /\ model.pc # "off" => main.registered
    /\ main.pc \in PastJoin => model.pc \in {"off", "dead"}
    /\ model.pc \in {"admit", "step", "publish"} => model.steps < MaxSteps

\* Who has closed which loop by now.
ClosesOK ==
    /\ model.pc \in ModelPlaces \ {"off", "dead"} => model.closes = 0
    /\ model.pc = "dead" => model.closes = 1
    /\ model.pc = "off" /\ main.pc \notin PastModelLoop => model.closes = 0
    /\ main.pc \in PastModelLoop /\ main.registered => model.closes = 1
    /\ ~main.registered => model.closes = 0
    /\ ui.closes = IF main.pc \in PastUiLoop /\ main.registered THEN 1 ELSE 0
    /\ closed => main.pc \in PastManager

\* A replacement is asked for with a stop, which no later tick can undo.
RequestOK == nextSession => stop /\ ~ui.sawClose

\* The window is open while the loop runs, and a replacement keeps it open.
WindowOK ==
    /\ ~window.misused
    /\ main.pc \in Looping => window.open
    /\ main.pc \notin PastWindow => window.closes = 0
    /\ main.pc \in PastWindow \ {"done"} =>
          window.closes = IF nextSession THEN 0 ELSE 1

PlacesOK == Types /\ ThreadsOK /\ ClosesOK /\ RequestOK /\ WindowOK

ControlInv == PlacesOK /\ EBP!StoreInv /\ PMP!ManagerInv

NothingFailed == failureQueue = <<>> /\ errors.main = Nothing /\ errors.cleanup = <<>>

\* What has been raised is in one of the three places that run_session looks
\* at, the failure of a model loop first.
FailuresOK ==
    /\ failureQueue \in Seq(Failures)
    /\ errors \in [raised : SUBSET Failures, main : Failures \cup {Nothing},
                   cleanup : Seq(Failures)]
    /\ errors.raised = {} <=> NothingFailed
    /\ "model" \in errors.raised => failureQueue # <<>> /\ Head(failureQueue) = "model"

\* The model thread has failed only once it has left its loop, and run_session
\* ends as the failures and the request for a replacement say.
ErrorsOK ==
    /\ FailuresOK
    /\ model.pc \in Running \cup {"off"} => failureQueue = <<>>
    /\ Done => /\ outcome = IF ~NothingFailed THEN Primary
                            ELSE IF nextSession THEN "replaced" ELSE "ended"
               /\ window.closes = IF nextSession /\ NothingFailed THEN 0 ELSE 1

\* What the PresentationManager module assumes of the two threads.
CallsOK ==
    /\ presenter.pc # "idle" => main.pc = "advance"
    /\ publisher.pc # "idle" => model.pc = "publish"
    /\ PM!LastGeneration <= model.generation /\ model.generation <= current
    /\ model.pc \in Running \cup {"off"} =>
          Len(published) <= model.steps + (IF model.pc = "publish" THEN 1 ELSE 0)

SessionInv == ControlInv /\ ErrorsOK /\ CallsOK

-----------------------------------------------------------------------------
(* The buffer and the manager inside a session.                             *)

\* Both instances of a module name the same operators.
LEMMA SameBuffer ==
    /\ EBP!TypeOK <=> EB!TypeOK
    /\ EBP!Init <=> EB!Init
    /\ [EBP!Next]_(EBP!eventVars) <=> [EB!Next]_(EB!eventVars)
  <1>1. (EBP!TypeOK <=> EB!TypeOK) /\ (EBP!Init <=> EB!Init)
    BY DEF EBP!TypeOK, EB!TypeOK, EBP!Init, EB!Init
  <1>2. [EBP!Next]_(EBP!eventVars) <=> [EB!Next]_(EB!eventVars)
    BY DEF EBP!Next, EB!Next, EBP!eventVars, EB!eventVars, EBP!AppendBatch,
           EB!AppendBatch, EBP!Log, EB!Log, EBP!ResetsIn, EB!ResetsIn,
           EBP!Cardinality, EB!Cardinality, EBP!Register, EB!Register,
           EBP!SetDefault, EB!SetDefault, EBP!Put, EB!Put, EBP!Read, EB!Read,
           EBP!Drop, EB!Drop, EBP!UserInputEvents, EB!UserInputEvents, EBP!Origin, EB!Origin,
           EBP!Rank, EB!Rank, EBP!Before, EB!Before, EBP!Unregister, EB!Unregister, EBP!Without,
           EB!Without, EBP!CollectGarbage, EB!CollectGarbage, EBP!Remove,
           EB!Remove, EBP!Clear, EB!Clear
  <1> QED
    BY <1>1, <1>2

LEMMA SameManager ==
    /\ PMP!TypeOK <=> PM!TypeOK
    /\ PMP!Init <=> PM!Init
    /\ [PMP!Next]_(PMP!presentationVars) <=> [PM!Next]_(PM!presentationVars)
  <1>1. PMP!TypeOK <=> PM!TypeOK
    BY DEF PMP!TypeOK, PM!TypeOK, PMP!Modes, PM!Modes, PMP!Chunks, PM!Chunks,
           PMP!Publishers, PM!Publishers, PMP!Presenters, PM!Presenters,
           PMP!None, PM!None
  <1>2. PMP!Init <=> PM!Init
    BY DEF PMP!Init, PM!Init, PMP!Modes, PM!Modes, PMP!None, PM!None,
           PMP!NothingShown, PM!NothingShown
  <1>3. [PMP!Next]_(PMP!presentationVars) <=> [PM!Next]_(PM!presentationVars)
    BY DEF PMP!Next, PM!Next, PMP!PublishNext, PM!PublishNext, PMP!ModelThread,
           PM!ModelThread, PMP!Tick, PM!Tick, PMP!UIThread, PM!UIThread,
           PMP!ResetArrives, PM!ResetArrives, PMP!SetStop, PM!SetStop,
           PMP!CloseManager, PM!CloseManager, PMP!Finished, PM!Finished,
           PMP!PublishBegin, PM!PublishBegin, PMP!PublishStep, PM!PublishStep,
           PMP!CheckStop, PM!CheckStop, PMP!Put, PM!Put, PMP!PutTimeout,
           PM!PutTimeout, PMP!PutNowait, PM!PutNowait, PMP!Evict, PM!Evict,
           PMP!Enqueue, PM!Enqueue, PMP!PublisherAt, PM!PublisherAt,
           PMP!PublisherDone, PM!PublisherDone, PMP!AdvanceBegin, PM!AdvanceBegin,
           PMP!AdvanceStep, PM!AdvanceStep, PMP!IsDue, PM!IsDue, PMP!TakeChunk,
           PM!TakeChunk, PMP!TakeEmpty, PM!TakeEmpty, PMP!MarkAdvanced,
           PM!MarkAdvanced, PMP!PresenterDone, PM!PresenterDone, PMP!Close,
           PM!Close, PMP!presentationVars, PM!presentationVars, PMP!managerVars,
           PM!managerVars, PMP!presenterVars, PM!presenterVars, PMP!publisherVars,
           PM!publisherVars, PMP!presentedVars, PM!presentedVars,
           PMP!LastGeneration, PM!LastGeneration, PMP!IsBacklogged,
           PM!IsBacklogged, PMP!HasNextFrame, PM!HasNextFrame, PMP!ResetClock,
           PM!ResetClock
  <1> QED
    BY <1>1, <1>2, <1>3

\* What the modules of the two objects prove, with the session's constants.
LEMMA BufferTheorems ==
    /\ EB!Init => EBP!StoreInv
    /\ EBP!StoreInv /\ [EB!Next]_(EB!eventVars) => EBP!StoreInv'
    /\ EBP!StoreInv => EB!TypeOK
  <1>1. {ResetEvent} \subseteq Events /\ MaxLog \in Nat
    BY BoundsAreNat DEF Events
  <1>2. EBP!Init => EBP!StoreInv
    BY <1>1, TimestampsAreInt, BatchesAreSequences, EBP!InitStore
  <1>3. EBP!StoreInv /\ [EBP!Next]_(EBP!eventVars) => EBP!StoreInv'
    BY <1>1, TimestampsAreInt, BatchesAreSequences, EBP!NextStore
  <1>4. EBP!StoreInv => EBP!TypeOK
    BY DEF EBP!StoreInv
  <1> QED
    BY <1>2, <1>3, <1>4, SameBuffer

LEMMA ManagerTheorems ==
    /\ PM!Init => PMP!ManagerInv
    /\ PMP!ManagerInv /\ [PM!Next]_(PM!presentationVars) => PMP!ManagerInv'
    /\ PMP!ManagerInv => PM!TypeOK
  <1>1. MaxSteps \in Nat /\ MaxLog \in Nat
    BY BoundsAreNat
  <1>2. PMP!Init => PMP!ManagerInv
    BY <1>1, FrameCountsArePositive, NoChunkIsNoChunk, PMP!InitManager
  <1>3. PMP!ManagerInv /\ [PMP!Next]_(PMP!presentationVars) => PMP!ManagerInv'
    BY <1>1, FrameCountsArePositive, NoChunkIsNoChunk, PMP!NextManager
  <1>4. PMP!ManagerInv => PMP!TypeOK
    BY DEF PMP!ManagerInv
  <1> QED
    BY <1>2, <1>3, <1>4, SameManager

-----------------------------------------------------------------------------
(* The steps of the session as steps of the two objects.                    *)

\* A read returns the generation that the buffer is at, and moves only cursors.
LEMMA ReadFacts ==
    ASSUME EBP!StoreInv, NEW r \in Readers, EB!Read(r)
    PROVE  /\ lastRead'[r].generation = current /\ current' = current
           /\ current \in Nat
  <1>1. /\ lastRead \in [Readers -> [events : Seq(Events), generation : Nat]]
        /\ current \in Nat
    BY BufferTheorems DEF EB!TypeOK
  <1> QED
    BY <1>1 DEF EB!Read

\* A batch makes the generation no smaller.
LEMMA AppendFacts ==
    ASSUME EBP!StoreInv, NEW batch \in Batches, EB!AppendBatch(batch, 0)
    PROVE  /\ current \in Nat /\ current' \in Nat /\ current <= current'
           /\ current' <= MaxLog /\ EB!Next
  <1>1. EB!ResetsIn(batch) \in Nat
    <2>1. batch \in Seq(Events)
      BY BatchesAreSequences
    <2>2. IsFiniteSet({i \in 1 .. Len(batch) : batch[i] \in {ResetEvent}})
      <3>1. 1 \in Int /\ Len(batch) \in Int
        BY <2>1
      <3>2. IsFiniteSet(1 .. Len(batch))
        BY <3>1, FS_Interval
      <3> QED
        BY <3>2, FS_Subset
    <2>3. Cardinality({i \in 1 .. Len(batch) : batch[i] \in {ResetEvent}}) \in Nat
      BY <2>2, FS_CardinalityType
    <2> QED
      BY <2>3 DEF EB!ResetsIn, EB!Cardinality, Cardinality
  <1>2. current \in Nat
    BY BufferTheorems DEF EB!TypeOK
  <1>3. EB!Next
    BY DEF EB!Next
  <1>4. current' = current + EB!ResetsIn(batch) /\ current' <= MaxLog
    BY DEF EB!AppendBatch
  <1> QED
    BY <1>1, <1>2, <1>3, <1>4

\* The steps that use neither the buffer nor the manager.
Quiet ==
    \/ InitSession \/ OpenWindow \/ RequestStep \/ Launch \/ LoopTop \/ ShouldEnd
    \/ DecideEnd \/ Wait \/ SetStop \/ Join \/ CloseModelLoop \/ CloseUiLoop
    \/ CloseWindow \/ CloseSession \/ Report \/ ModelStart \/ ModelCheck \/ ModelAdmit
    \/ ModelPublished \/ ModelExit \/ ModelShutdown \/ DeadlinePasses \/ Finished

\* The steps of the manager, and those of the buffer.
UsesManager == TickUi \/ Advance \/ CloseManager \/ ModelStep \/ ModelPublish
Reads == RunTickUi \/ LastRun \/ ModelRead
UsesBuffer == RegisterReaders \/ Collect \/ LastCollect \/ CollectGarbage \/ ClearBuffer

LEMMA AllSteps == [Next]_sessionVars <=>
    Quiet \/ UsesManager \/ Reads \/ UsesBuffer \/ UNCHANGED sessionVars
  BY DEF Next, MainThread, ModelThread, Quiet, UsesManager, Reads, UsesBuffer

LEMMA QuietFacts ==
    ASSUME Quiet \/ UNCHANGED sessionVars
    PROVE  UNCHANGED <<bufferVars, managerVars>>
  BY DEF Quiet, sessionVars, InitSession, OpenWindow, RequestStep, Launch, LoopTop,
         ShouldEnd, DecideEnd, Wait, SetStop, Join, CloseModelLoop, CloseUiLoop,
         CloseWindow, CloseSession, Report, ModelStart, ModelCheck, ModelAdmit,
         ModelPublished, ModelExit, ModelShutdown, DeadlinePasses, Finished, mainSide,
         managerVars

LEMMA BufferMoves ==
    ASSUME EBP!StoreInv, [Next]_sessionVars
    PROVE  [EB!Next]_(EB!eventVars)
  <1>1. CASE UNCHANGED bufferVars
    BY <1>1 DEF bufferVars, EB!eventVars
  <1>2. CASE Quiet \/ UsesManager \/ UNCHANGED sessionVars
    BY <1>1, <1>2, QuietFacts
       DEF UsesManager, TickUi, Advance, CloseManager, ModelStep, ModelPublish
  <1>3. CASE Reads
    BY <1>3 DEF Reads, RunTickUi, LastRun, RunUi, ModelRead, EB!Next, Readers
  <1>4. CASE RegisterReaders \/ CollectGarbage \/ ClearBuffer
    BY <1>4 DEF RegisterReaders, CollectGarbage, ClearBuffer, EB!Next, Readers
  <1>5. CASE Collect \/ LastCollect
    BY <1>1, <1>5, AppendFacts DEF Collect, LastCollect, CollectInput
  <1> QED
    BY <1>2, <1>3, <1>4, <1>5, AllSteps DEF UsesBuffer

\* What the buffer does to the generation.
LEMMA GenerationMoves ==
    ASSUME EBP!StoreInv, [Next]_sessionVars
    PROVE  /\ current \in Nat /\ current' \in Nat /\ current <= current'
           /\ current' # current => main.pc \in {"collect", "lastCollect"}
  <1>1. current \in Nat
    BY BufferTheorems DEF EB!TypeOK
  <1>2. CASE UNCHANGED current
    BY <1>1, <1>2
  <1>3. CASE Quiet \/ UsesManager \/ UNCHANGED sessionVars
    BY <1>2, <1>3, QuietFacts DEF bufferVars,
       UsesManager, TickUi, Advance, CloseManager, ModelStep, ModelPublish
  <1>4. CASE Reads
    BY <1>2, <1>4 DEF Reads, RunTickUi, LastRun, RunUi, ModelRead, EB!Read
  <1>5. CASE RegisterReaders \/ CollectGarbage \/ ClearBuffer
    BY <1>2, <1>5 DEF RegisterReaders, CollectGarbage, ClearBuffer, EB!Register,
                      EB!CollectGarbage, EB!Remove, EB!Clear
  <1>6. CASE Collect \/ LastCollect
    BY <1>2, <1>6, AppendFacts DEF Collect, LastCollect, CollectInput, bufferVars
  <1> QED
    BY <1>3, <1>4, <1>5, <1>6, AllSteps DEF UsesBuffer

\* Who sets the shutdown event.
LEMMA StopMoves ==
    ASSUME [Next]_sessionVars
    PROVE  \/ stop' = stop
           \/ /\ stop' = TRUE
              /\ main.pc \in {"runUi", "lastRun", "launch", "loop", "wait", "setStop"}
  <1>1. CASE Quiet \/ UNCHANGED sessionVars
    BY <1>1 DEF Quiet, sessionVars, InitSession, OpenWindow, RequestStep, Launch,
       LoopTop, ShouldEnd, DecideEnd, Wait, SetStop, Join, CloseModelLoop, CloseUiLoop,
       CloseWindow, CloseSession, Report, ModelStart, ModelCheck, ModelAdmit,
       ModelPublished, ModelExit, ModelShutdown, DeadlinePasses, Finished, mainSide,
       ExpireIfDue
  <1>2. CASE UsesManager
    BY <1>2 DEF UsesManager, TickUi, Advance, CloseManager, ModelStep, ModelPublish,
       mainSide
  <1>3. CASE UsesBuffer
    BY <1>3 DEF UsesBuffer, RegisterReaders, Collect, LastCollect, CollectInput,
       CollectGarbage, ClearBuffer
  <1>4. CASE Reads
    BY <1>4 DEF Reads, RunTickUi, LastRun, RunUi, ModelRead, mainSide, UiSteps, StepUi
  <1> QED
    BY <1>1, <1>2, <1>3, <1>4, AllSteps

\* The last generation published is a number.
LEMMA LastElement ==
    ASSUME NEW s \in Seq(Nat), s # <<>>
    PROVE  s[Len(s)] \in Nat
  <1>1. Len(s) \in Nat /\ Len(s) # 0
    BY EmptySeq
  <1>2. Len(s) \in 1 .. Len(s)
    BY <1>1
  <1> QED
    BY <1>2, ElementOfSeq

(***************************************************************************)
(* Every step of a session is a step that the PresentationManager module   *)
(* allows its two threads, or none of its business.                        *)
(***************************************************************************)
LEMMA ManagerMoves ==
    ASSUME SessionInv, [Next]_sessionVars
    PROVE  [PM!Next]_(PM!presentationVars)
  <1>1. /\ stop \in BOOLEAN /\ current \in Nat /\ published \in Seq(Nat)
        /\ model.generation \in Nat /\ model.steps \in 0 .. MaxSteps
    BY ManagerTheorems DEF SessionInv, ControlInv, PlacesOK, Types, Models, PM!TypeOK
  <1>2. CASE UNCHANGED <<managerVars, stop, current>>
    BY <1>2 DEF PM!presentationVars, PM!managerVars, managerVars, queueVars
  <1>3. CASE UNCHANGED <<managerVars, current>>
    <2>1. CASE stop' = TRUE /\ ~stop /\ main.pc # "advance"
      BY <1>3, <2>1 DEF PM!Next, PM!SetStop, PM!managerVars, managerVars, queueVars,
                        SessionInv, CallsOK
    <2> QED
      BY <1>1, <1>2, <1>3, <2>1, StopMoves
  <1>4. CASE Quiet \/ UNCHANGED sessionVars
    BY <1>3, <1>4, QuietFacts DEF bufferVars
  <1>5. CASE Reads
    BY <1>3, <1>5 DEF Reads, RunTickUi, LastRun, RunUi, ModelRead, EB!Read, managerVars,
                      mainSide
  <1>6. CASE RegisterReaders \/ CollectGarbage \/ ClearBuffer
    BY <1>3, <1>6 DEF RegisterReaders, CollectGarbage, ClearBuffer, EB!Register,
                      EB!CollectGarbage, EB!Remove, EB!Clear
  <1>7. CASE Collect \/ LastCollect
    <2>1. /\ UNCHANGED <<managerVars, stop>> /\ main.pc \in {"collect", "lastCollect"}
          /\ \/ UNCHANGED bufferVars
             \/ \E batch \in Batches : EB!AppendBatch(batch, 0)
      BY <1>7 DEF Collect, LastCollect, CollectInput
    <2>2. UNCHANGED current \/ current' \in current + 1 .. MaxLog
      BY <2>1, AppendFacts, BoundsAreNat DEF SessionInv, ControlInv, bufferVars
    <2>3. presenter.pc = "idle" /\ ~stop
      BY <2>1 DEF SessionInv, ControlInv, CallsOK, PlacesOK, ThreadsOK, Ticking
    <2>4. CASE current' \in current + 1 .. MaxLog
      <3>1. PM!ResetArrives
        BY <2>1, <2>3, <2>4 DEF PM!ResetArrives, PM!managerVars, managerVars, queueVars
      <3> QED
        BY <3>1 DEF PM!Next
    <2> QED
      BY <1>2, <2>1, <2>2, <2>4
  <1>8. CASE TickUi
    <2>1. ~stop
      BY <1>8 DEF TickUi, SessionInv, ControlInv, PlacesOK, ThreadsOK, Ticking
    <2> QED
      BY <1>8, <2>1 DEF TickUi, PM!Next, PM!Tick, bufferVars
  <1>9. CASE Advance
    BY <1>9 DEF Advance, PM!Next, PM!UIThread, bufferVars
  <1>10. CASE CloseManager
    <2>1. stop /\ ~closed /\ publisher.pc = "idle" /\ presenter.pc = "idle"
      BY <1>10 DEF CloseManager, SessionInv, ControlInv, PlacesOK, ThreadsOK, ClosesOK,
                   CallsOK,
                   PastManager, PastModelLoop, PastUiLoop, PastWindow, PastJoin
    <2> QED
      BY <1>10, <2>1 DEF CloseManager, PM!Next, PM!CloseManager, PM!managerVars,
                         bufferVars, queueVars
  <1>11. CASE ModelStep
    <2>1. ~closed /\ Len(published) < MaxSteps
      <3>1. /\ model.pc = "step" /\ model.steps < MaxSteps
            /\ Len(published) <= model.steps + 0
        BY <1>11 DEF ModelStep, SessionInv, ControlInv, PlacesOK, ThreadsOK, CallsOK,
                     Running
      <3>2. ~closed
        BY <3>1 DEF SessionInv, ControlInv, PlacesOK, ThreadsOK, ClosesOK, PastJoin
      <3> QED
        BY <1>1, <3>1, <3>2, BoundsAreNat
    <2>2. model.generation \in PM!LastGeneration .. current
      <3>1. PM!LastGeneration \in Nat
        BY <1>1, LastElement DEF PM!LastGeneration
      <3> QED
        BY <1>1, <3>1 DEF SessionInv, CallsOK
    <2>3. CASE UNCHANGED queueVars
      BY <1>2, <1>11, <2>3 DEF ModelStep, mainSide, bufferVars, managerVars
    <2>4. ASSUME NEW frames \in FrameCounts, PM!PublishBegin(model.generation, frames)
          PROVE  PM!Next
      BY <1>11, <2>1, <2>2, <2>4
         DEF ModelStep, mainSide, bufferVars, PM!Next, PM!PublishNext
    <2> QED
      BY <1>11, <2>3, <2>4 DEF ModelStep
  <1>12. CASE ModelPublish
    BY <1>12 DEF ModelPublish, mainSide, bufferVars, PM!Next, PM!ModelThread
  <1> QED
    BY <1>4, <1>5, <1>6, <1>7, <1>8, <1>9, <1>10, <1>11, <1>12, AllSteps
       DEF UsesManager, UsesBuffer

-----------------------------------------------------------------------------
(* Where the threads are.                                                   *)

\* Going from one place to another leaves the rest of a thread as it is.
LEMMA GotoFacts ==
    ASSUME main \in Mains, NEW pc \in MainPlaces,
           \/ Goto(pc) \/ GotoAfresh(pc)
           \/ main' = [main EXCEPT !.pc = pc, !.stepRequested = FALSE]
    PROVE  /\ main' \in Mains /\ main'.pc = pc
           /\ main'.startup = main.startup /\ main'.registered = main.registered
  BY DEF Goto, GotoAfresh, Mains

LEMMA ModelFacts ==
    ASSUME model \in Models
    PROVE  /\ \A pc \in ModelPlaces : ModelGoto(pc) =>
                /\ model' \in Models /\ model'.pc = pc /\ model'.closes = model.closes
                /\ model'.steps = model.steps /\ model'.generation = model.generation
           /\ \A pc \in ModelPlaces, g \in Nat :
                model' = [[model EXCEPT !.generation = g] EXCEPT !.pc = pc] =>
                /\ model' \in Models /\ model'.pc = pc /\ model'.closes = model.closes
                /\ model'.steps = model.steps /\ model'.generation = g
           /\ model.steps < MaxSteps
              /\ model' = [model EXCEPT !.pc = "check", !.steps = @ + 1] =>
                /\ model' \in Models /\ model'.pc = "check"
                /\ model'.closes = model.closes /\ model'.steps = model.steps + 1
                /\ model'.generation = model.generation
           /\ \A f \in FrameCounts :
                model' = [model EXCEPT !.pc = "publish", !.frames = @ + f] =>
                /\ model' \in Models /\ model'.pc = "publish"
                /\ model'.closes = model.closes /\ model'.steps = model.steps
                /\ model'.generation = model.generation
           /\ model.closes = 0
              /\ model' = [model EXCEPT !.closes = @ + 1, !.pc = "dead"] =>
                /\ model' \in Models /\ model'.pc = "dead" /\ model'.closes = 1
                /\ model'.generation = model.generation
  <1> USE DEF Models
  <1>1. ASSUME NEW pc \in ModelPlaces, ModelGoto(pc)
        PROVE  /\ model' \in Models /\ model'.pc = pc /\ model'.closes = model.closes
               /\ model'.steps = model.steps /\ model'.generation = model.generation
    BY <1>1 DEF ModelGoto
  <1>2. ASSUME NEW pc \in ModelPlaces, NEW g \in Nat,
               model' = [[model EXCEPT !.generation = g] EXCEPT !.pc = pc]
        PROVE  /\ model' \in Models /\ model'.pc = pc /\ model'.closes = model.closes
               /\ model'.steps = model.steps /\ model'.generation = g
    BY <1>2
  <1>3. ASSUME model.steps < MaxSteps,
               model' = [model EXCEPT !.pc = "check", !.steps = @ + 1]
        PROVE  /\ model' \in Models /\ model'.pc = "check"
               /\ model'.closes = model.closes /\ model'.steps = model.steps + 1
               /\ model'.generation = model.generation
    <2>1. model.steps + 1 \in 0 .. MaxSteps
      BY <1>3, BoundsAreNat
    <2> QED
      BY <1>3, <2>1 DEF ModelPlaces, Running
  <1>4. ASSUME NEW f \in FrameCounts,
               model' = [model EXCEPT !.pc = "publish", !.frames = @ + f]
        PROVE  /\ model' \in Models /\ model'.pc = "publish"
               /\ model'.closes = model.closes /\ model'.steps = model.steps
               /\ model'.generation = model.generation
    <2>1. model.frames + f \in Nat
      BY FrameCountsArePositive
    <2> QED
      BY <1>4, <2>1 DEF ModelPlaces, Running
  <1>5. ASSUME model.closes = 0, model' = [model EXCEPT !.closes = @ + 1, !.pc = "dead"]
        PROVE  /\ model' \in Models /\ model'.pc = "dead" /\ model'.closes = 1
               /\ model'.generation = model.generation
    <2>1. model.closes + 1 = 1
      BY <1>5
    <2> QED
      BY <1>5, <2>1 DEF ModelPlaces
  <1> HIDE DEF Models
  <1> QED
    BY <1>1, <1>2, <1>3, <1>4, <1>5

LEMMA CloseItFacts ==
    ASSUME window \in Windows
    PROVE  /\ CloseIt(window) \in Windows
           /\ CloseIt(window).misused = window.misused
           /\ CloseIt(window).closes = window.closes + 1
  <1>1. window.closes + 1 \in Nat
    BY DEF Windows
  <1> QED
    BY <1>1 DEF CloseIt, Windows

LEMMA CollectPlaces ==
    ASSUME SessionInv, NEW after \in {"tick", "lastRun"}, CollectInput(after),
           main.pc \in {"collect", "lastCollect"}
    PROVE  PlacesOK'
  <1>1. PlacesOK
    BY DEF SessionInv, ControlInv
  <1> USE <1>1, BoundsAreNat
      DEF PlacesOK, Types, ThreadsOK, ClosesOK, RequestOK, WindowOK, MainPlaces, Setup,
          Looping, Ticking, PastJoin, PastManager, PastModelLoop, PastUiLoop, PastWindow,
          ModelPlaces, Running, managerVars, modelVars, fixedVars
  <1>2. UNCHANGED <<ui, model, inference, deadline, nextSession, stop, closed>>
    BY DEF CollectInput
  <1>3. window' = UseWindow(window) /\ window.open
    BY DEF CollectInput
  <1>4. /\ window' \in Windows
        /\ window'.open /\ window'.closes = window.closes /\ ~window'.misused
    BY <1>3 DEF UseWindow, Windows
  <1>5. /\ main' \in Mains /\ main'.pc \in {after, "setStop"}
        /\ main'.startup = main.startup /\ main'.registered = main.registered
    BY GotoFacts DEF CollectInput, MainRaises
  <1> QED
    BY <1>2, <1>4, <1>5

LEMMA RunUiPlaces ==
    ASSUME SessionInv, NEW requested, NEW after \in {"launch", "garbage", "decideEnd"},
           after = "launch" => main.startup,
           RunUi(requested, after), main.pc \in {"runUi", "lastRun"}
    PROVE  PlacesOK'
  <1>1. PlacesOK
    BY DEF SessionInv, ControlInv
  <1> USE <1>1, BoundsAreNat
      DEF PlacesOK, Types, ThreadsOK, ClosesOK, RequestOK, WindowOK, MainPlaces, Setup,
          Looping, Ticking, PastJoin, PastManager, PastModelLoop, PastUiLoop, PastWindow,
          ModelPlaces, Running, managerVars, modelVars, fixedVars
  <1>2. /\ lastRead'[UiReader].generation \in Nat /\ presentedFrameCount \in Nat
    BY ReadFacts, ManagerTheorems DEF RunUi, SessionInv, ControlInv, Readers, PM!TypeOK
  <1>3. PICK read : read = UiAfterRead
    OBVIOUS
  <1>4. read \in Uis /\ read.closes = ui.closes
    BY <1>3 DEF UiAfterRead, Holds, Uis
  <1>5. PICK loop : loop = AfterReset(read, lastRead'[UiReader].generation)
    OBVIOUS
  <1>6. loop \in Uis /\ loop.closes = ui.closes /\ loop.sawClose = read.sawClose
    BY <1>2, <1>4, <1>5 DEF AfterReset, Uis
  <1>7. /\ UNCHANGED <<model, inference, deadline, closed>> /\ ~stop /\ ~nextSession
        /\ window.open
    BY DEF RunUi
  <1>8. /\ main' \in Mains /\ main'.pc \in {after, "setStop"}
        /\ main'.startup = main.startup /\ main'.registered = main.registered
    BY GotoFacts DEF RunUi, MainRaises
  <1>9. ASSUME UiSteps(loop)
        PROVE  /\ ui' \in Uis /\ ui'.closes = ui.closes /\ UNCHANGED <<stop, nextSession>>
               /\ window' \in Windows
               /\ window'.open /\ window'.closes = window.closes /\ ~window'.misused
    <2>1. PICK draws, asks \in BOOLEAN : StepUi(loop, draws, asks)
      BY <1>9 DEF UiSteps
    <2>2. ui' \in Uis /\ ui'.closes = ui.closes /\ UNCHANGED <<stop, nextSession>>
      BY <1>2, <1>6, <2>1 DEF StepUi, Uis
    <2>3. UseWindow(window) \in Windows
      BY DEF UseWindow, Windows
    <2>4. /\ window' \in Windows
          /\ window'.open /\ window'.closes = window.closes /\ ~window'.misused
      <3>1. UseWindow(window).open /\ UseWindow(window).closes = window.closes
            /\ ~UseWindow(window).misused
        BY <1>7 DEF UseWindow, Windows
      <3>2. UseWindow(window).writes + 1 \in Nat /\ UseWindow(window).writes \in Nat
        BY <2>3 DEF Windows
      <3>3. CASE ~draws
        BY <1>7, <2>1, <3>3 DEF StepUi
      <3>4. CASE draws
        BY <2>1, <2>3, <3>1, <3>2, <3>4 DEF StepUi, Windows
      <3> QED
        BY <3>3, <3>4
    <2> QED
      BY <2>2, <2>4
  <1>10. ASSUME UNCHANGED window
         PROVE  /\ window' \in Windows /\ window'.open
                /\ window'.closes = window.closes /\ ~window'.misused
    BY <1>7, <1>10
  <1>11. [loop EXCEPT !.request = FALSE] \in Uis
    BY <1>6 DEF Uis
  <1>12. /\ ui' \in Uis /\ ui'.closes = ui.closes
         /\ stop' \in BOOLEAN /\ nextSession' \in BOOLEAN
         /\ nextSession' => stop' /\ ~ui'.sawClose
         /\ window' \in Windows
         /\ window'.open /\ window'.closes = window.closes /\ ~window'.misused
    <2>1. CASE ui' \in {read, loop} /\ UNCHANGED <<stop, nextSession, window>>
      BY <1>4, <1>6, <1>7, <1>10, <2>1
    <2>2. CASE stop' = TRUE /\ ui' = read /\ UNCHANGED <<nextSession, window>>
      BY <1>4, <1>7, <1>10, <2>2
    <2>3. CASE /\ ~read.sawClose /\ stop' = TRUE /\ nextSession' = TRUE
               /\ ui' = [loop EXCEPT !.request = FALSE] /\ UNCHANGED window
      BY <1>6, <1>10, <1>11, <2>3 DEF Uis
    <2>4. CASE UiSteps(loop)
      BY <1>7, <1>9, <2>4
    <2> QED
      BY <1>3, <1>5, <2>1, <2>2, <2>3, <2>4 DEF RunUi
  <1> QED
    BY <1>7, <1>8, <1>12

LEMMA PlacesStep ==
    ASSUME SessionInv, [Next]_sessionVars
    PROVE  PlacesOK'
  <1>1. PlacesOK
    BY DEF SessionInv, ControlInv
  <1> USE <1>1, BoundsAreNat
      DEF PlacesOK, Types, ThreadsOK, ClosesOK, RequestOK, WindowOK, MainPlaces, Setup,
          Looping, Ticking, PastJoin, PastManager, PastModelLoop, PastUiLoop, PastWindow,
          ModelPlaces, Running, managerVars, modelVars, fixedVars
  <1>2. CASE InitSession
    <2>1. UNCHANGED <<ui, model, inference, deadline, nextSession, window, stop, closed>>
      BY <1>2 DEF InitSession
    <2>2. main.pc = "init" /\ main.startup
      BY <1>2 DEF InitSession
    <2>3. PICK place \in {"registerUi", "setStop"}, registered \in BOOLEAN :
            /\ main' = [main EXCEPT !.pc = place, !.registered = registered]
            /\ place = "registerUi" => registered
      BY <1>2 DEF InitSession
    <2>4. /\ main' \in Mains /\ main'.startup = main.startup
          /\ main'.pc = place /\ main'.registered = registered
      BY <2>3 DEF Mains
    <2> QED
      BY <2>1, <2>2, <2>3, <2>4
  <1>3. CASE RegisterReaders
    BY <1>3 DEF RegisterReaders, Goto, Mains, Uis, Models
  <1>4. CASE OpenWindow
    <2>1. UNCHANGED <<ui, model, inference, deadline, nextSession, stop, closed>>
      BY <1>4 DEF OpenWindow
    <2>2. /\ window' \in Windows
          /\ window'.open /\ window'.closes = window.closes
          /\ window'.misused = window.misused
      BY <1>4 DEF OpenWindow, Windows
    <2>3. /\ main.pc = "open" /\ main' \in Mains /\ main'.pc \in {"collect", "setStop"}
          /\ main'.startup = main.startup /\ main'.registered = main.registered
      BY <1>4, GotoFacts DEF OpenWindow, MainRaises
    <2> QED
      BY <2>1, <2>2, <2>3
  <1>5. CASE Collect
    BY <1>5, CollectPlaces DEF Collect
  <1>6. CASE TickUi
    BY <1>6 DEF TickUi, Goto, Mains, Uis, Models
  <1>7. CASE Advance
    BY <1>7 DEF Advance, Goto, Mains, Uis, Models
  <1>8. CASE RequestStep
    <2>1. UNCHANGED <<ui, model, inference, deadline, nextSession, window, stop, closed>>
      BY <1>8 DEF RequestStep
    <2>2. StepRequested \in BOOLEAN
      BY DEF StepRequested
    <2>3. /\ main.pc = "request" /\ main' \in Mains /\ main'.pc = "runUi"
          /\ main'.startup = main.startup /\ main'.registered = main.registered
      BY <1>8, <2>2 DEF RequestStep, Mains
    <2> QED
      BY <2>1, <2>3
  <1>9. CASE RunTickUi
    BY <1>9, RunUiPlaces DEF RunTickUi
  <1>10. CASE CollectGarbage
    BY <1>10 DEF CollectGarbage, Goto, Mains, Uis, Models
  <1>11. CASE Launch
    <2>1. UNCHANGED <<ui, inference, window, closed, deadline>> /\ main.pc = "launch"
      BY <1>11 DEF Launch
    <2>2. /\ stop' \in BOOLEAN /\ nextSession' \in BOOLEAN
          /\ nextSession' => nextSession /\ stop'
      BY <1>11 DEF Launch, ExpireIfDue
    <2>3. /\ main' \in Mains /\ ~main'.startup /\ main'.registered
          /\ main'.pc \in {"setStop", "loop"}
      BY <1>11 DEF Launch, Mains
    <2>4. model' = model \/ model' = [model EXCEPT !.pc = "started"]
      BY <1>11 DEF Launch
    <2>5. /\ model' \in Models
          /\ model'.pc \in {"off", "started"} /\ model'.closes = 0
      BY <2>1, <2>4 DEF Models
    <2> QED
      BY <2>1, <2>2, <2>3, <2>5
  <1>12. CASE LoopTop
    <2>1. UNCHANGED <<ui, model, inference, deadline, window, closed>> /\ main.pc = "loop"
      BY <1>12 DEF LoopTop
    <2>2. /\ stop' \in BOOLEAN /\ nextSession' \in BOOLEAN
          /\ nextSession' => nextSession /\ stop'
      BY <1>12 DEF LoopTop, ExpireIfDue
    <2>3. /\ main' \in Mains /\ main'.pc = "shouldEnd"
          /\ main'.startup = main.startup /\ main'.registered = main.registered
      BY <1>12, GotoFacts DEF LoopTop
    <2> QED
      BY <2>1, <2>2, <2>3
  <1>13. CASE ShouldEnd
    <2>1. UNCHANGED <<ui, model, inference, deadline, nextSession, window, stop, closed>>
      BY <1>13 DEF ShouldEnd
    <2>2. /\ main.pc = "shouldEnd" /\ main' \in Mains
          /\ main'.startup = main.startup /\ main'.registered = main.registered
          /\ main'.pc \in {"wait", "setStop", "lastCollect", "decideEnd"}
          /\ main'.pc = "lastCollect" => ~stop
      <3>1. CASE Goto("wait") \/ Goto("setStop")
        BY <1>13, <3>1, GotoFacts DEF ShouldEnd
      <3>2. PM!HasPendingFrames \in BOOLEAN /\ UiFinished(ui) \in BOOLEAN
        BY DEF PM!HasPendingFrames, UiFinished
      <3>3. ASSUME NEW pending \in BOOLEAN, NEW uiFinished \in BOOLEAN,
                   NEW place \in {"lastCollect", "decideEnd"},
                   main' = [main EXCEPT !.pending = pending, !.uiFinished = uiFinished,
                                        !.pc = place]
            PROVE  /\ main' \in Mains /\ main'.pc = place /\ main'.startup = main.startup
                   /\ main'.registered = main.registered
        BY <3>3, ZenonT(30) DEF Mains
      <3>4. CASE ~Goto("wait") /\ ~Goto("setStop")
        <4> DEFINE pending == PM!HasPendingFrames
                   settled == ~pending /\ ~stop /\ ~nextSession
                   uiFinished == settled /\ config.steps = NoLimit /\ UiFinished(ui)
                   place == IF settled /\ (config.steps # NoLimit \/ uiFinished)
                              THEN "lastCollect" ELSE "decideEnd"
        <4>1. main' = [main EXCEPT !.pending = pending, !.uiFinished = uiFinished,
                                   !.pc = place]
          BY <1>13, <3>4 DEF ShouldEnd
        <4>2. /\ pending \in BOOLEAN /\ uiFinished \in BOOLEAN
              /\ place \in {"lastCollect", "decideEnd"} /\ (place = "lastCollect" => ~stop)
          BY <3>2
        <4>3. main.pc = "shouldEnd"
          BY <1>13 DEF ShouldEnd
        <4> HIDE DEF pending, uiFinished, place
        <4> QED
          BY <3>3, <4>1, <4>2, <4>3
      <3> QED
        BY <3>1, <3>4
    <2> QED
      BY <2>1, <2>2
  <1>14. CASE LastCollect
    BY <1>14, CollectPlaces DEF LastCollect
  <1>15. CASE LastRun
    BY <1>15, RunUiPlaces DEF LastRun
  <1>16. CASE DecideEnd
    <2>1. UNCHANGED <<ui, model, inference, deadline, nextSession, window, stop, closed>>
      BY <1>16 DEF DecideEnd
    <2>2. /\ main.pc = "decideEnd" /\ main' \in Mains /\ main'.pc \in {"setStop", "wait"}
          /\ main'.startup = main.startup /\ main'.registered = main.registered
      BY <1>16, GotoFacts DEF DecideEnd
    <2> QED
      BY <2>1, <2>2
  <1>17. CASE Wait
    <2>1. UNCHANGED <<ui, model, inference, deadline, window, closed>> /\ main.pc = "wait"
      BY <1>17 DEF Wait
    <2>2. /\ stop' \in BOOLEAN /\ nextSession' \in BOOLEAN
          /\ nextSession' => nextSession /\ stop'
      <3>1. CASE UNCHANGED <<stop, nextSession>>
        BY <3>1
      <3>2. CASE ~stop /\ ExpireIfDue
        BY <3>2 DEF ExpireIfDue
      <3> QED
        BY <1>17, <3>1, <3>2 DEF Wait
    <2>3. /\ main' \in Mains /\ main'.pc \in {"loop", "collect"}
          /\ main'.startup = main.startup /\ main'.registered = main.registered
          /\ main'.pc = "collect" => ~stop'
      BY <1>17, GotoFacts DEF Wait
    <2> QED
      BY <2>1, <2>2, <2>3
  <1>18. CASE SetStop
    BY <1>18 DEF SetStop, Goto, Mains, Uis, Models
  <1>19. CASE Join
    BY <1>19 DEF Join, Goto, Mains, Uis, Models
  <1>20. CASE CloseManager
    BY <1>20 DEF CloseManager, Cleanup, Goto, Mains, Uis, Models
  <1>21. CASE CloseModelLoop
    BY <1>21 DEF CloseModelLoop, Cleanup, Goto, Mains, Uis, Models
  <1>22. CASE CloseUiLoop
    BY <1>22 DEF CloseUiLoop, Cleanup, Goto, Mains, Uis, Models
  <1>23. CASE ClearBuffer
    BY <1>23 DEF ClearBuffer, Goto, Mains, Uis, Models
  <1>24. CASE CloseWindow
    <2>1. UNCHANGED <<ui, model, inference, deadline, nextSession, stop, closed>>
      BY <1>24 DEF CloseWindow
    <2>2. /\ main.pc = "closeWindow" /\ main' \in Mains /\ main'.pc = "closeSession"
          /\ main'.startup = main.startup /\ main'.registered = main.registered
      BY <1>24, GotoFacts DEF CloseWindow, Cleanup
    <2>3. /\ window' \in Windows
          /\ window'.misused = window.misused
          /\ window'.closes = IF nextSession THEN 0 ELSE 1
      BY <1>24, <2>2, CloseItFacts DEF CloseWindow
    <2> QED
      BY <2>1, <2>2, <2>3
  <1>25. CASE CloseSession
    BY <1>25 DEF CloseSession, Cleanup, Goto, Mains, Uis, Models
  <1>26. CASE Report
    <2>1. UNCHANGED <<ui, model, inference, deadline, nextSession, stop, closed>>
      BY <1>26 DEF Report
    <2>2. /\ main.pc = "report" /\ main' \in Mains /\ main'.pc = "done"
          /\ main'.startup = main.startup /\ main'.registered = main.registered
      BY <1>26, GotoFacts DEF Report
    <2>3. /\ window' \in Windows
          /\ window'.misused = window.misused
      BY <1>26, CloseItFacts DEF Report
    <2> QED
      BY <2>1, <2>2, <2>3
  <1>27. CASE ModelStart
    BY <1>27 DEF ModelStart, ModelGoto, mainSide, Mains, Uis, Models
  <1>28. CASE ModelCheck
    BY <1>28 DEF ModelCheck, ModelGoto, mainSide, Mains, Uis, Models
  <1>29. CASE ModelRead
    <2>1. UNCHANGED <<main, ui, deadline, nextSession, window, stop, closed, inference>>
      BY <1>29 DEF ModelRead, mainSide
    <2>2. lastRead'[ModelReader].generation \in Nat
      BY <1>29, ReadFacts DEF ModelRead, SessionInv, ControlInv, Readers
    <2>3. PICK g \in Nat : g = lastRead'[ModelReader].generation
      BY <2>2
    <2>4. model.pc = "read" /\ model.closes = 0
      BY <1>29 DEF ModelRead
    <2>5. \/ ModelGoto("exit")
          \/ model' = [[model EXCEPT !.generation = g] EXCEPT !.pc = "exit"]
          \/ /\ model.steps < MaxSteps
             /\ model' = [[model EXCEPT !.generation = g] EXCEPT !.pc = "admit"]
      BY <1>29, <2>3 DEF ModelRead, ModelRaises, ModelGoto
    <2>6. /\ model' \in Models /\ model'.closes = model.closes
          /\ model'.pc \in {"exit", "admit"}
          /\ model'.pc = "admit" => model'.steps < MaxSteps
      <3>1. model \in Models /\ {"exit", "admit"} \subseteq ModelPlaces
        OBVIOUS
      <3>2. CASE ModelGoto("exit")
        BY <3>1, <3>2, ModelFacts
      <3>3. CASE model' = [[model EXCEPT !.generation = g] EXCEPT !.pc = "exit"]
        BY <3>1, <3>3, ModelFacts
      <3>4. CASE /\ model.steps < MaxSteps
                 /\ model' = [[model EXCEPT !.generation = g] EXCEPT !.pc = "admit"]
        BY <3>1, <3>4, ModelFacts
      <3> QED
        BY <2>5, <3>2, <3>3, <3>4
    <2> QED
      BY <2>1, <2>4, <2>6
  <1>30. CASE ModelAdmit
    BY <1>30 DEF ModelAdmit, ModelGoto, mainSide, Mains, Uis, Models
  <1>31. CASE ModelStep
    <2>1. UNCHANGED <<main, ui, deadline, nextSession, window, stop, closed, inference>>
      BY <1>31 DEF ModelStep, mainSide
    <2>2. model.pc = "step" /\ model.steps < MaxSteps
      BY <1>31 DEF ModelStep
    <2>3. /\ model' \in Models /\ model'.closes = model.closes
          /\ model'.pc \in {"exit", "check", "publish"}
          /\ model'.pc = "publish" => model'.steps = model.steps
      BY <1>31, <2>2, ModelFacts DEF ModelStep, ModelRaises
    <2> QED
      BY <2>1, <2>2, <2>3
  <1>32. CASE ModelPublish
    BY <1>32 DEF ModelPublish, mainSide, Mains, Uis, Models
  <1>33. CASE ModelPublished
    <2>1. UNCHANGED <<main, ui, deadline, nextSession, window, stop, closed, inference>>
      BY <1>33 DEF ModelPublished, mainSide
    <2>2. model.pc = "publish" /\ model.steps < MaxSteps
      BY <1>33 DEF ModelPublished
    <2>3. /\ model' \in Models /\ model'.closes = model.closes
          /\ model'.pc \in {"exit", "check"}
      BY <1>33, <2>2, ModelFacts DEF ModelPublished, ModelRaises
    <2> QED
      BY <2>1, <2>2, <2>3
  <1>34. CASE ModelExit
    BY <1>34 DEF ModelExit, ModelGoto, mainSide, Mains, Uis, Models
  <1>35. CASE ModelShutdown
    <2>1. UNCHANGED <<main, ui, deadline, nextSession, window, stop, closed, inference>>
      BY <1>35 DEF ModelShutdown, mainSide
    <2>2. model' = [model EXCEPT !.closes = @ + 1, !.pc = "dead"] /\ model.pc = "shutdown"
      BY <1>35 DEF ModelShutdown
    <2>3. /\ model' \in Models
          /\ model'.pc = "dead" /\ model'.closes = 1
      BY <2>2, ModelFacts
    <2> QED
      BY <2>1, <2>2, <2>3
  <1>36. CASE DeadlinePasses
    BY <1>36 DEF DeadlinePasses, Done, Mains, Uis, Models
  <1>37. CASE Finished \/ UNCHANGED sessionVars
    BY <1>37 DEF Finished, sessionVars
  <1> QED
    BY <1>2, <1>3, <1>4, <1>5, <1>6, <1>7, <1>8, <1>9, <1>10, <1>11, <1>12,
       <1>13, <1>14, <1>15, <1>16, <1>17, <1>18, <1>19, <1>20, <1>21, <1>22,
       <1>23, <1>24, <1>25, <1>26, <1>27, <1>28, <1>29, <1>30, <1>31, <1>32,
       <1>33, <1>34, <1>35, <1>36, <1>37
       DEF Next, MainThread, ModelThread

\* What a step of the main thread does to the places: it is nowhere near the end
\* until it reports, and it leaves the model thread alone but to start and close it.
LEMMA MainMoves ==
    ASSUME main \in Mains, MainThread
    PROVE  /\ main.pc # "done"
           /\ Report \/ main'.pc # "done"
           /\ main.pc = "advance" => Advance
           /\ \/ model' = model
              \/ Launch /\ model' = [model EXCEPT !.pc = "started"]
              \/ CloseModelLoop /\ model' = [model EXCEPT !.closes = @ + 1]
           /\ UNCHANGED failureQueue
  <1> USE DEF Mains, managerVars, modelVars
  <1>1. CASE InitSession \/ RegisterReaders \/ OpenWindow
    BY <1>1 DEF InitSession, RegisterReaders, OpenWindow, Goto, MainRaises, GotoAfresh
  <1>2. CASE Collect \/ LastCollect
    BY <1>2 DEF Collect, LastCollect, CollectInput, Goto, MainRaises, GotoAfresh
  <1>3. CASE TickUi \/ Advance \/ RequestStep \/ CollectGarbage
    BY <1>3 DEF TickUi, Advance, RequestStep, CollectGarbage, Goto
  <1>4. CASE RunTickUi
    BY <1>4 DEF RunTickUi, RunUi, MainRaises, GotoAfresh
  <1>5. CASE LastRun
    BY <1>5 DEF LastRun, RunUi, MainRaises, GotoAfresh
  <1>6. CASE Launch
    BY <1>6 DEF Launch
  <1>7. CASE LoopTop \/ Wait \/ DecideEnd
    BY <1>7 DEF LoopTop, Wait, DecideEnd, Goto, GotoAfresh
  <1>8. CASE ShouldEnd
    BY <1>8 DEF ShouldEnd, Goto
  <1>9. CASE SetStop \/ Join \/ ClearBuffer \/ Report
    BY <1>9 DEF SetStop, Join, ClearBuffer, Report, Goto
  <1>10. CASE CloseManager \/ CloseUiLoop \/ CloseWindow \/ CloseSession
    BY <1>10 DEF CloseManager, CloseUiLoop, CloseWindow, CloseSession, Cleanup, Goto
  <1>11. CASE CloseModelLoop
    BY <1>11 DEF CloseModelLoop, Cleanup, Goto
  <1> QED
    BY <1>1, <1>2, <1>3, <1>4, <1>5, <1>6, <1>7, <1>8, <1>9, <1>10, <1>11
       DEF MainThread

LEMMA ModelMoves ==
    ASSUME model \in Models, ModelThread
    PROVE  /\ main' = main /\ outcome' = outcome /\ window' = window
           /\ nextSession' = nextSession
           /\ model.pc \notin {"off", "dead"} /\ model'.pc # "off"
           /\ model'.pc \in Running => model.pc \in Running
           /\ model.pc = "publish" => ModelPublish \/ ModelPublished
  <1> USE DEF Models, Running, mainSide, ModelGoto, ModelRaises
  <1>1. CASE ModelStart \/ ModelCheck \/ ModelAdmit \/ ModelExit
    BY <1>1 DEF ModelStart, ModelCheck, ModelAdmit, ModelExit
  <1>2. CASE ModelRead
    BY <1>2 DEF ModelRead
  <1>3. CASE ModelStep
    BY <1>3 DEF ModelStep
  <1>4. CASE ModelPublish \/ ModelPublished
    BY <1>4 DEF ModelPublish, ModelPublished, modelVars
  <1>5. CASE ModelShutdown
    BY <1>5 DEF ModelShutdown
  <1> QED
    BY <1>1, <1>2, <1>3, <1>4, <1>5 DEF ModelThread

-----------------------------------------------------------------------------
(* What has been raised.                                                    *)

\* The ways to raise: in the try, in cleanup, on the model thread, and late.
MainFails(f) ==
    /\ errors' = [errors EXCEPT !.raised = @ \cup {f}, !.main = f]
    /\ UNCHANGED failureQueue
CleanupFails(f) ==
    /\ errors' = [errors EXCEPT !.raised = @ \cup {f}, !.cleanup = Append(@, f)]
    /\ UNCHANGED failureQueue
ModelFails(f) ==
    /\ errors' = [errors EXCEPT !.raised = @ \cup {f}]
    /\ failureQueue' = Append(failureQueue, f)
FailsLate(f) ==
    /\ ~NothingFailed /\ errors' = [errors EXCEPT !.raised = @ \cup {f}]
    /\ UNCHANGED failureQueue
Raising ==
    \/ UNCHANGED <<errors, failureQueue>>
    \/ \E f \in Failures \ {"model"} : MainFails(f) \/ CleanupFails(f) \/ FailsLate(f)
    \/ \E f \in Failures : (f = "model" => failureQueue = <<>>) /\ ModelFails(f)

\* The head of a queue stays, and a queue that has been appended to has one.
LEMMA AppendFails ==
    ASSUME NEW q \in Seq(Failures), NEW f \in Failures
    PROVE  /\ Append(q, f) \in Seq(Failures) /\ Append(q, f) # <<>>
           /\ q = <<>> => Head(Append(q, f)) = f
           /\ q # <<>> => Head(Append(q, f)) = Head(q)
  <1>1. /\ Append(q, f) \in Seq(Failures) /\ Len(Append(q, f)) = Len(q) + 1
        /\ Len(q) \in Nat
    BY AppendProperties
  <1>2. Append(q, f) # <<>>
    BY <1>1, EmptySeq
  <1>3. Head(Append(q, f)) = Append(q, f)[1]
    BY <1>1, <1>2
  <1>4. CASE q = <<>>
    BY <1>2, <1>3, <1>4
  <1>5. CASE q # <<>>
    <2>1. Len(q) # 0
      BY <1>5, EmptySeq
    <2>2. 1 \in 1 .. Len(q) /\ Head(q) = q[1]
      BY <1>1, <1>5, <2>1
    <2> QED
      BY <1>1, <1>2, <1>3, <1>5, <2>2, AppendProperties
  <1> QED
    BY <1>1, <1>2, <1>4, <1>5

\* What is at the head of a list of failures is a failure.
LEMMA HeadFails ==
    ASSUME NEW q \in Seq(Failures), q # <<>>
    PROVE  Head(q) \in Failures /\ Head(q) # Nothing
  <1>1. Head(q) \in Failures
    BY HeadTailProperties
  <1> QED
    BY <1>1 DEF Failures, Nothing

\* If anything failed, a failure is selected to be raised.
LEMMA PrimaryFails ==
    ASSUME FailuresOK, ~NothingFailed
    PROVE  Primary \in Failures
  <1>1. failureQueue # <<>> => Head(failureQueue) \in Failures
    BY HeadFails DEF FailuresOK
  <1>2. errors.cleanup # <<>> => Head(errors.cleanup) \in Failures
    BY HeadFails DEF FailuresOK
  <1>3. errors.main # Nothing => errors.main \in Failures
    BY DEF FailuresOK
  <1> QED
    BY <1>1, <1>2, <1>3 DEF Primary, NothingFailed

LEMMA RaisingKeeps ==
    ASSUME FailuresOK, Raising
    PROVE  FailuresOK'
  <1> USE DEF FailuresOK, NothingFailed
  <1>1. CASE UNCHANGED <<errors, failureQueue>>
    BY <1>1
  <1>2. ASSUME NEW f \in Failures \ {"model"}, MainFails(f)
        PROVE  FailuresOK'
    <2>1. f # Nothing
      BY DEF Failures, Nothing
    <2> QED
      BY <1>2, <2>1 DEF MainFails
  <1>3. ASSUME NEW f \in Failures \ {"model"}, CleanupFails(f)
        PROVE  FailuresOK'
    BY <1>3, AppendFails DEF CleanupFails
  <1>4. ASSUME NEW f \in Failures \ {"model"}, FailsLate(f)
        PROVE  FailuresOK'
    BY <1>4 DEF FailsLate
  <1>5. ASSUME NEW f \in Failures, f = "model" => failureQueue = <<>>, ModelFails(f)
        PROVE  FailuresOK'
    BY <1>5, AppendFails DEF ModelFails
  <1> QED
    BY <1>1, <1>2, <1>3, <1>4, <1>5 DEF Raising

LEMMA RaisingSteps ==
    ASSUME SessionInv, [Next]_sessionVars
    PROVE  Raising
  <1>1. /\ model.pc \in Running \cup {"off"} => failureQueue = <<>>
        /\ main \in Mains /\ model \in Models
    BY DEF SessionInv, ErrorsOK, ControlInv, PlacesOK, Types
  <1>2. CASE UNCHANGED <<errors, failureQueue>>
    BY <1>2 DEF Raising
  <1>3. CASE MainThread
    <2>1. failureQueue' = failureQueue
      BY <1>1, <1>3, MainMoves
    <2>2. CASE UNCHANGED errors
      BY <1>2, <2>1, <2>2
    <2>3. ASSUME NEW f \in Failures \ {"model"}, MainRaises(f)
          PROVE  Raising
      BY <2>1, <2>3 DEF MainRaises, Raising, MainFails
    <2>4. ASSUME NEW f \in Failures \ {"model"}, NEW place, Cleanup(f, place)
          PROVE  Raising
      BY <2>1, <2>2, <2>4 DEF Cleanup, Raising, CleanupFails
    <2>5. {"init", "open", "input", "ui", "manager", "modelClose", "uiClose", "window",
           "session", "lateClose"} \subseteq Failures \ {"model"}
      BY DEF Failures
    <2>6. CASE InitSession
      BY <2>1, <2>2, <2>5, <2>6 DEF InitSession, Raising, MainFails
    <2>7. CASE OpenWindow \/ Collect \/ LastCollect
      BY <2>2, <2>3, <2>5, <2>7 DEF OpenWindow, Collect, LastCollect, CollectInput
    <2>8. CASE RunTickUi \/ LastRun
      BY <2>2, <2>3, <2>5, <2>8 DEF RunTickUi, LastRun, RunUi
    <2>9. CASE \/ CloseManager \/ CloseModelLoop \/ CloseUiLoop \/ CloseWindow
               \/ CloseSession
      BY <2>2, <2>4, <2>5, <2>9
         DEF CloseManager, CloseModelLoop, CloseUiLoop, CloseWindow, CloseSession
    <2>10. CASE Report
      <3>1. Primary # Nothing => ~NothingFailed
        BY DEF Primary, NothingFailed
      <3> QED
        BY <2>1, <2>2, <2>5, <2>10, <3>1 DEF Report, Raising, FailsLate
    <2>11. CASE \/ RegisterReaders \/ TickUi \/ Advance \/ RequestStep \/ CollectGarbage
                \/ Launch \/ LoopTop \/ ShouldEnd \/ DecideEnd \/ Wait \/ SetStop \/ Join
                \/ ClearBuffer
      BY <2>2, <2>11 DEF RegisterReaders, TickUi, Advance, RequestStep, CollectGarbage,
                         Launch, LoopTop, ShouldEnd, DecideEnd, Wait, SetStop, Join,
                         ClearBuffer
    <2> QED
      BY <1>3, <2>6, <2>7, <2>8, <2>9, <2>10, <2>11 DEF MainThread
  <1>4. CASE ModelThread
    <2>1. ASSUME NEW f \in Failures, NEW place, ModelRaises(f, place),
                 f = "model" => failureQueue = <<>>
          PROVE  Raising
      BY <2>1 DEF ModelRaises, Raising, ModelFails
    <2>2. {"model", "modelClose"} \subseteq Failures
      BY DEF Failures
    <2>3. CASE ModelStart \/ ModelCheck \/ ModelAdmit \/ ModelExit \/ ModelPublish
      BY <1>2, <2>3 DEF ModelStart, ModelCheck, ModelAdmit, ModelExit, ModelPublish,
                        modelVars
    <2>4. CASE ModelRead \/ ModelStep \/ ModelPublished
      <3>1. failureQueue = <<>>
        BY <1>1, <2>4 DEF ModelRead, ModelStep, ModelPublished, Running
      <3> QED
        BY <1>2, <2>1, <2>2, <2>4, <3>1 DEF ModelRead, ModelStep, ModelPublished
    <2>5. CASE ModelShutdown
      BY <1>2, <2>2, <2>5 DEF ModelShutdown, Raising, ModelFails
    <2> QED
      BY <1>4, <2>3, <2>4, <2>5 DEF ModelThread
  <1>5. CASE DeadlinePasses \/ Finished \/ UNCHANGED sessionVars
    BY <1>2, <1>5 DEF DeadlinePasses, Finished, sessionVars, modelVars
  <1> QED
    BY <1>3, <1>4, <1>5 DEF Next

\* What ends the session, and what it returns.
LEMMA ErrorsStep ==
    ASSUME SessionInv, [Next]_sessionVars
    PROVE  ErrorsOK'
  <1>1. /\ ErrorsOK /\ main \in Mains /\ model \in Models
        /\ main.pc \in PastJoin => model.pc \in {"off", "dead"}
    BY DEF SessionInv, ControlInv, PlacesOK, Types, ThreadsOK
  <1>2. FailuresOK'
    BY RaisingSteps, RaisingKeeps DEF SessionInv, ErrorsOK
  <1>3. model'.pc \in Running \cup {"off"} => failureQueue' = <<>>
    <2>1. CASE MainThread
      <3>1. failureQueue' = failureQueue
        BY <1>1, <2>1, MainMoves
      <3>2. CASE model' = model
        BY <1>1, <3>1, <3>2 DEF ErrorsOK
      <3>3. CASE Launch
        BY <1>1, <3>1, <3>3
           DEF Launch, ErrorsOK, SessionInv, ControlInv, PlacesOK, ThreadsOK
      <3>4. CASE model' = [model EXCEPT !.closes = @ + 1]
        BY <1>1, <3>1, <3>4 DEF ErrorsOK, Models
      <3> QED
        BY <1>1, <2>1, <3>2, <3>3, <3>4, MainMoves
    <2>2. CASE ModelThread
      <3>1. ASSUME model'.pc \in Running
            PROVE  UNCHANGED failureQueue
        <4>1. ASSUME NEW f, ModelRaises(f, "exit")
              PROVE  FALSE
          BY <1>1, <3>1, <4>1 DEF ModelRaises, ModelGoto, Models, Running
        <4> QED
          BY <1>1, <2>2, <3>1, <4>1
             DEF ModelThread, ModelStart, ModelCheck, ModelRead, ModelAdmit, ModelStep,
                 ModelPublish, ModelPublished, ModelExit, ModelShutdown, modelVars,
                 Models, Running
      <3> QED
        BY <1>1, <2>2, <3>1, ModelMoves DEF ErrorsOK
    <2>3. CASE DeadlinePasses \/ Finished \/ UNCHANGED sessionVars
      BY <1>1, <2>3 DEF DeadlinePasses, Finished, sessionVars, modelVars, ErrorsOK
    <2> QED
      BY <2>1, <2>2, <2>3 DEF Next
  <1>4. ASSUME Done'
        PROVE  /\ outcome' = IF ~NothingFailed' THEN Primary'
                              ELSE IF nextSession' THEN "replaced" ELSE "ended"
               /\ window'.closes = IF nextSession' /\ NothingFailed' THEN 0 ELSE 1
    <2>1. CASE UNCHANGED <<main, outcome, window, nextSession, errors, failureQueue>>
      BY <1>1, <1>4, <2>1 DEF ErrorsOK, Done, NothingFailed, Primary
    <2>2. CASE Report
      <3>1. NothingFailed <=> Primary = Nothing
        BY <1>1, PrimaryFails DEF ErrorsOK, Failures, Nothing, Primary, NothingFailed
      <3>2. NothingFailed' <=> NothingFailed
        BY <1>1, <2>2 DEF Report, NothingFailed, modelVars, ErrorsOK, FailuresOK
      <3>3. Primary' = Primary
        BY <1>1, <2>2 DEF Report, Primary, modelVars, ErrorsOK, FailuresOK
      <3>4. /\ main.pc = "report" /\ nextSession' = nextSession /\ window \in Windows
            /\ window.closes = IF nextSession THEN 0 ELSE 1
        BY <2>2 DEF Report, SessionInv, ControlInv, PlacesOK, Types, WindowOK, PastWindow
      <3>5. outcome' = IF Primary # Nothing THEN Primary
                       ELSE IF nextSession THEN "replaced" ELSE "ended"
        BY <2>2 DEF Report
      <3>6. window' = IF nextSession /\ Primary # Nothing THEN CloseIt(window) ELSE window
        BY <2>2 DEF Report
      <3> QED
        BY <3>1, <3>2, <3>3, <3>4, <3>5, <3>6, CloseItFacts
    <2>3. CASE ModelThread
      BY <1>1, <1>4, <2>3, ModelMoves DEF Done, PastJoin, PastManager, PastModelLoop,
         PastUiLoop, PastWindow
    <2>4. CASE DeadlinePasses \/ Finished \/ UNCHANGED sessionVars
      BY <1>4, <2>1, <2>4 DEF DeadlinePasses, Finished, sessionVars, modelVars, Done
    <2> QED
      BY <1>1, <1>4, <2>2, <2>3, <2>4, MainMoves DEF Next, Done
  <1> QED
    BY <1>2, <1>3, <1>4 DEF ErrorsOK

-----------------------------------------------------------------------------
(* What the PresentationManager module assumes.                             *)

\* The main thread never publishes, and is inside advance only at "advance".
LEMMA MainPublishesNothing ==
    ASSUME main \in Mains, MainThread, presenter.pc # "idle" => main.pc = "advance"
    PROVE  /\ UNCHANGED <<publisher, published>>
           /\ presenter'.pc # "idle" => main'.pc = "advance"
  <1>1. CASE TickUi
    BY <1>1 DEF TickUi, PM!AdvanceBegin, PM!publisherVars, Goto, Mains
  <1>2. CASE Advance
    <2>1. UNCHANGED <<publisher, published>>
      BY <1>2 DEF Advance, PM!AdvanceStep, PM!IsDue, PM!TakeChunk, PM!TakeEmpty,
                  PM!MarkAdvanced, PM!publisherVars
    <2> QED
      BY <1>2, <2>1 DEF Advance, Goto, Mains
  <1>3. CASE CloseManager
    BY <1>3 DEF CloseManager, PM!Close, queueVars
  <1>4. CASE main.pc # "advance" /\ UNCHANGED queueVars
    BY <1>4 DEF queueVars
  <1>5. CASE RegisterReaders \/ CollectGarbage \/ ClearBuffer
    BY <1>4, <1>5 DEF RegisterReaders, CollectGarbage, ClearBuffer, managerVars
  <1>6. CASE Collect \/ LastCollect
    BY <1>4, <1>6 DEF Collect, LastCollect, CollectInput, managerVars
  <1>7. CASE RunTickUi \/ LastRun
    BY <1>4, <1>7 DEF RunTickUi, LastRun, RunUi, managerVars
  <1>8. CASE \/ InitSession \/ OpenWindow \/ RequestStep \/ Launch \/ LoopTop
             \/ ShouldEnd \/ DecideEnd \/ Wait \/ SetStop \/ Join \/ CloseModelLoop
             \/ CloseUiLoop \/ CloseWindow \/ CloseSession \/ Report
    <2>1. UNCHANGED managerVars
      BY <1>8, QuietFacts DEF Quiet
    <2>2. main.pc # "advance"
      BY <1>8 DEF InitSession, OpenWindow, RequestStep, Launch, LoopTop, ShouldEnd,
                  DecideEnd, Wait, SetStop, Join, CloseModelLoop, CloseUiLoop,
                  CloseWindow, CloseSession, Report
    <2> QED
      BY <1>4, <2>1, <2>2 DEF managerVars
  <1> QED
    BY <1>1, <1>2, <1>3, <1>5, <1>6, <1>7, <1>8 DEF MainThread

\* The place of the last generation after one more chunk.
LEMMA AppendGeneration ==
    ASSUME NEW s \in Seq(Nat), NEW g \in Nat
    PROVE  /\ Append(s, g) # <<>> /\ Append(s, g)[Len(Append(s, g))] = g
           /\ Len(Append(s, g)) = Len(s) + 1 /\ Len(s) \in Nat
  <1>1. /\ Append(s, g) \in Seq(Nat) /\ Len(Append(s, g)) = Len(s) + 1
        /\ Append(s, g)[Len(s) + 1] = g /\ Len(s) \in Nat
    BY AppendProperties
  <1> QED
    BY <1>1, EmptySeq

LEMMA MainCalls ==
    ASSUME SessionInv, MainThread, [Next]_sessionVars
    PROVE  CallsOK'
  <1>1. /\ CallsOK /\ main \in Mains /\ model \in Models
        /\ current \in Nat /\ published \in Seq(Nat)
    BY BufferTheorems, ManagerTheorems
       DEF SessionInv, ControlInv, PlacesOK, Types, EB!TypeOK, PM!TypeOK
  <1>2. /\ UNCHANGED <<publisher, published>>
        /\ presenter'.pc # "idle" => main'.pc = "advance"
    BY <1>1, MainPublishesNothing DEF CallsOK
  <1>3. current' \in Nat /\ current <= current'
    BY GenerationMoves DEF SessionInv, ControlInv
  <1>4. /\ model'.generation = model.generation /\ model'.steps = model.steps
        /\ model'.pc = model.pc \/ (model.pc = "off" /\ model'.pc = "started")
    <2>1. CASE model' = model
      BY <2>1
    <2>2. CASE Launch /\ model' = [model EXCEPT !.pc = "started"]
      <3>1. model.pc = "off"
        BY <2>2 DEF Launch, SessionInv, ControlInv, PlacesOK, ThreadsOK
      <3> QED
        BY <1>1, <2>2, <3>1 DEF Models
    <2>3. CASE model' = [model EXCEPT !.closes = @ + 1]
      BY <1>1, <2>3 DEF Models
    <2> QED
      BY <1>1, <2>1, <2>2, <2>3, MainMoves
  <1>5. PM!LastGeneration' = PM!LastGeneration
    BY <1>2 DEF PM!LastGeneration
  <1>6. PM!LastGeneration' <= model'.generation /\ model'.generation <= current'
    BY <1>1, <1>3, <1>4, <1>5 DEF CallsOK, Models
  <1> QED
    BY <1>1, <1>2, <1>4, <1>6 DEF CallsOK, Running

LEMMA ModelCalls ==
    ASSUME SessionInv, ModelThread
    PROVE  CallsOK'
  <1>1. /\ CallsOK /\ main \in Mains /\ model \in Models
        /\ current \in Nat /\ published \in Seq(Nat)
    BY BufferTheorems, ManagerTheorems
       DEF SessionInv, ControlInv, PlacesOK, Types, EB!TypeOK, PM!TypeOK
  <1>2. /\ model.steps \in Nat /\ model.generation \in Nat /\ Len(published) \in Nat
    BY <1>1, BoundsAreNat DEF Models
  <1>3. /\ presenter.pc # "idle" => main.pc = "advance"
        /\ publisher.pc # "idle" => model.pc = "publish"
        /\ PM!LastGeneration <= model.generation /\ model.generation <= current
        /\ model.pc \in Running \cup {"off"} =>
              Len(published) <= model.steps + (IF model.pc = "publish" THEN 1 ELSE 0)
    BY <1>1 DEF CallsOK
  \* A step that publishes nothing and keeps the generation.
  <1>4. ASSUME UNCHANGED <<main, presenter, publisher, published, current>>,
               publisher.pc = "idle",
               model'.generation = model.generation,
               model'.pc \in Running =>
                  /\ model.pc \in Running /\ model'.pc # "publish"
                  /\ model'.steps =
                        model.steps + (IF model.pc \in {"step", "publish"} THEN 1 ELSE 0),
               model'.pc # "off"
        PROVE  CallsOK'
    <2>1. PM!LastGeneration' = PM!LastGeneration
      BY <1>4 DEF PM!LastGeneration
    <2>2. model'.pc \in Running =>
             Len(published) <= model'.steps + (IF model'.pc = "publish" THEN 1 ELSE 0)
      BY <1>2, <1>3, <1>4
    <2> QED
      BY <1>3, <1>4, <2>1, <2>2 DEF CallsOK
  <1>5. CASE ModelStart \/ ModelCheck \/ ModelAdmit \/ ModelExit
    <2>1. UNCHANGED <<main, presenter, publisher, published, current>>
      BY <1>5 DEF ModelStart, ModelCheck, ModelAdmit, ModelExit, mainSide, queueVars,
                  bufferVars
    <2>2. /\ model.pc \notin {"step", "publish"} /\ model'.generation = model.generation
          /\ model'.steps = model.steps /\ model'.pc # "off" /\ model'.pc # "publish"
          /\ model'.pc \in Running => model.pc \in Running
      BY <1>1, <1>5 DEF ModelStart, ModelCheck, ModelAdmit, ModelExit, ModelGoto,
                        Models, Running
    <2> QED
      BY <1>2, <1>3, <1>4, <2>1, <2>2
  <1>6. CASE ModelRead
    <2>1. UNCHANGED <<main, presenter, publisher, published, current>>
      BY <1>6 DEF ModelRead, mainSide, queueVars, EB!Read
    <2>2. lastRead'[ModelReader].generation = current
      BY <1>6, ReadFacts DEF ModelRead, SessionInv, ControlInv, Readers
    <2>3. /\ model.pc = "read" /\ model'.steps = model.steps
          /\ model'.pc \in {"exit", "admit"}
          /\ model'.generation \in {model.generation, current}
      BY <1>1, <1>6, <2>2 DEF ModelRead, ModelRaises, ModelGoto, Models
    <2>4. PM!LastGeneration' = PM!LastGeneration
      BY <2>1 DEF PM!LastGeneration
    <2>5. PM!LastGeneration \in Nat
      BY <1>1, LastElement DEF PM!LastGeneration
    <2>6. PM!LastGeneration' <= model'.generation /\ model'.generation <= current'
      BY <1>1, <1>2, <1>3, <2>1, <2>3, <2>4, <2>5
    <2> QED
      BY <1>2, <1>3, <2>1, <2>3, <2>6 DEF CallsOK, Running
  <1>7. CASE ModelStep
    <2>1. /\ UNCHANGED <<main, current>> /\ model.pc = "step"
      BY <1>7 DEF ModelStep, mainSide, bufferVars
    <2>2. CASE UNCHANGED queueVars
      <3>1. UNCHANGED <<presenter, publisher, published>>
        BY <2>2 DEF queueVars
      <3>2. CASE ModelGoto("exit")
        <4>1. model'.pc = "exit" /\ model'.generation = model.generation
          BY <1>1, <3>2 DEF ModelGoto, Models
        <4> QED
          BY <1>3, <1>4, <2>1, <3>1, <4>1 DEF Running
      <3>3. CASE model' = [model EXCEPT !.pc = "check", !.steps = @ + 1]
        <4>1. /\ model'.pc = "check" /\ model'.generation = model.generation
              /\ model'.steps = model.steps + 1
          BY <1>1, <3>3 DEF Models
        <4> QED
          BY <1>3, <1>4, <2>1, <3>1, <4>1 DEF Running
      <3>4. ASSUME NEW f \in FrameCounts, PM!PublishBegin(model.generation, f)
            PROVE  FALSE
        <4>1. published' = Append(published, model.generation)
          BY <3>4 DEF PM!PublishBegin
        <4>2. Len(published') = Len(published) + 1
          BY <1>1, <1>2, <4>1, AppendGeneration
        <4> QED
          BY <1>2, <3>1, <4>2
      <3> QED
        BY <1>7, <3>2, <3>3, <3>4 DEF ModelStep, ModelRaises
    <2>3. ASSUME NEW f \in FrameCounts, PM!PublishBegin(model.generation, f),
                 model' = [model EXCEPT !.pc = "publish", !.frames = @ + f]
          PROVE  CallsOK'
      <3>1. /\ published' = Append(published, model.generation)
            /\ presenter' = presenter
        BY <2>3 DEF PM!PublishBegin, PM!presenterVars
      <3>2. /\ model'.pc = "publish" /\ model'.generation = model.generation
            /\ model'.steps = model.steps
        BY <1>1, <2>3 DEF Models
      <3>3. PM!LastGeneration' = model.generation /\ Len(published') = Len(published) + 1
        BY <1>1, <1>2, <3>1, AppendGeneration DEF PM!LastGeneration
      <3>4. Len(published') <= model'.steps + 1
        BY <1>2, <1>3, <2>1, <3>2, <3>3 DEF Running
      <3> QED
        BY <1>2, <1>3, <2>1, <3>1, <3>2, <3>3, <3>4 DEF CallsOK
    <2> QED
      BY <1>7, <2>2, <2>3 DEF ModelStep
  <1>8. CASE ModelPublish
    <2>1. UNCHANGED <<main, model, presenter, published, current>> /\ model.pc = "publish"
      BY <1>8 DEF ModelPublish, mainSide, bufferVars, modelVars, PM!PublishStep,
         PM!CheckStop, PM!Put, PM!Enqueue, PM!PutTimeout, PM!PutNowait, PM!Evict,
         PM!presenterVars
    <2>2. PM!LastGeneration' = PM!LastGeneration
      BY <2>1 DEF PM!LastGeneration
    <2> QED
      BY <1>3, <2>1, <2>2 DEF CallsOK
  <1>9. CASE ModelPublished
    <2>1. /\ UNCHANGED <<main, presenter, publisher, published, current>>
          /\ model.pc = "publish" /\ publisher.pc = "idle"
      BY <1>9 DEF ModelPublished, mainSide, queueVars, bufferVars
    <2>2. /\ model'.generation = model.generation
          /\ \/ model'.pc = "exit"
             \/ model'.pc = "check" /\ model'.steps = model.steps + 1
      BY <1>1, <1>9 DEF ModelPublished, ModelRaises, ModelGoto, Models
    <2> QED
      BY <1>4, <2>1, <2>2 DEF Running
  <1>10. CASE ModelShutdown
    <2>1. /\ UNCHANGED <<main, presenter, publisher, published, current>>
          /\ model.pc = "shutdown"
      BY <1>10 DEF ModelShutdown, mainSide, queueVars, bufferVars
    <2>2. model'.generation = model.generation /\ model'.pc = "dead"
      BY <1>1, <1>10 DEF ModelShutdown, Models
    <2> QED
      BY <1>3, <1>4, <2>1, <2>2 DEF Running
  <1> QED
    BY <1>5, <1>6, <1>7, <1>8, <1>9, <1>10 DEF ModelThread

LEMMA CallsStep ==
    ASSUME SessionInv, [Next]_sessionVars
    PROVE  CallsOK'
  <1>1. CASE DeadlinePasses \/ Finished \/ UNCHANGED sessionVars
    <2>1. UNCHANGED <<main, model, presenter, publisher, published, current>>
      BY <1>1 DEF DeadlinePasses, Finished, sessionVars, modelVars, managerVars,
                  queueVars, bufferVars
    <2>2. PM!LastGeneration' = PM!LastGeneration
      BY <2>1 DEF PM!LastGeneration
    <2> QED
      BY <2>1, <2>2 DEF SessionInv, CallsOK
  <1> QED
    BY <1>1, MainCalls, ModelCalls DEF Next

-----------------------------------------------------------------------------
(* The invariant holds.                                                     *)

LEMMA InitSessionInv == Init => SessionInv
  <1> SUFFICES ASSUME Init
               PROVE  SessionInv
    OBVIOUS
  <1>1. EBP!StoreInv /\ PMP!ManagerInv
    BY BufferTheorems, ManagerTheorems DEF Init
  <1>2. stop = FALSE /\ closed = FALSE /\ current = 0 /\ published = <<>>
        /\ publisher.pc = "idle" /\ presenter.pc = "idle"
    BY DEF Init, PM!Init
  <1>3. Types
    <2>1. main \in Mains
      BY DEF Init, Mains, MainPlaces, Setup
    <2>2. ui \in Uis /\ window \in Windows
      BY DEF Init, Uis, Windows
    <2>3. model \in Models
      <3>1. 0 \in 0 .. MaxSteps
        BY BoundsAreNat
      <3> QED
        BY <3>1 DEF Init, Models, ModelPlaces
    <2> QED
      BY <1>2, <2>1, <2>2, <2>3, SettingsAreKnown DEF Init, Types
  <1>4. /\ main.pc = "init" /\ main.startup /\ ~main.registered
        /\ model.pc = "off" /\ model.closes = 0 /\ model.generation = 0 /\ model.steps = 0
        /\ ui.closes = 0 /\ window.closes = 0 /\ ~window.misused /\ ~nextSession
    BY DEF Init
  <1>5. ThreadsOK /\ ClosesOK /\ RequestOK /\ WindowOK
    BY <1>2, <1>4 DEF ThreadsOK, ClosesOK, RequestOK, WindowOK, Setup, Ticking, Looping,
       PastJoin, PastManager, PastModelLoop, PastUiLoop, PastWindow, ModelPlaces, Running
  <1>6. ErrorsOK
    <2>1. /\ failureQueue = <<>>
          /\ errors = [raised |-> {}, main |-> Nothing, cleanup |-> <<>>]
      BY DEF Init
    <2>2. FailuresOK
      BY <2>1 DEF FailuresOK, NothingFailed
    <2> QED
      BY <1>4, <2>1, <2>2 DEF ErrorsOK, Done
  <1>7. CallsOK
    BY <1>2, <1>4 DEF CallsOK, PM!LastGeneration
  <1> QED
    BY <1>1, <1>3, <1>5, <1>6, <1>7 DEF SessionInv, ControlInv, PlacesOK

LEMMA NextSessionInv == SessionInv /\ [Next]_sessionVars => SessionInv'
  <1> SUFFICES ASSUME SessionInv, [Next]_sessionVars
               PROVE  SessionInv'
    OBVIOUS
  <1>1. EBP!StoreInv'
    BY BufferMoves, BufferTheorems DEF SessionInv, ControlInv
  <1>2. PMP!ManagerInv'
    BY ManagerMoves, ManagerTheorems DEF SessionInv, ControlInv
  <1> QED
    BY <1>1, <1>2, PlacesStep, ErrorsStep, CallsStep DEF SessionInv, ControlInv

(***************************************************************************)
(* In every reachable state the two threads are where run_session's order  *)
(* of start, stop, join and cleanup allows, failures are recorded where    *)
(* they are looked for, and both shared objects satisfy their invariants.  *)
(***************************************************************************)
THEOREM SessionInvHolds == Spec => []SessionInv
  BY InitSessionInv, NextSessionInv, PTL DEF Spec

-----------------------------------------------------------------------------
(* What follows from it.                                                    *)

(***************************************************************************)
(* The window is used only between its opening and its one closing, and    *)
(* run_session leaves it open exactly for a clean replacement.             *)
(***************************************************************************)
THEOREM WindowAlwaysOwned == Spec => []WindowOwnership
  <1>1. ASSUME SessionInv
        PROVE  WindowOwnership
    <2>1. PlacesOK /\ ErrorsOK /\ EB!TypeOK /\ PM!TypeOK
      BY <1>1, BufferTheorems, ManagerTheorems DEF SessionInv, ControlInv
    <2>2. TypeOK
      BY <2>1 DEF TypeOK, PlacesOK, Types, Models, Uis
    <2>3. ~Done => window.closes <= 1
      BY <2>1 DEF PlacesOK, Types, Mains, WindowOK, PastWindow, Done
    <2>4. Done => window.closes <= 1 /\ (window.closes = 0 <=> outcome = "replaced")
      <3>1. ~NothingFailed => Primary \in Failures
        BY <2>1, PrimaryFails DEF ErrorsOK
      <3> QED
        BY <2>1, <3>1 DEF ErrorsOK, Failures
    <2> QED
      BY <2>1, <2>2, <2>3, <2>4 DEF WindowOwnership, PlacesOK, WindowOK
  <1> QED
    BY SessionInvHolds, <1>1, PTL

(***************************************************************************)
(* cleanup waits for the model thread, and of the two threads that close   *)
(* the model loop exactly one does.                                        *)
(***************************************************************************)
THEOREM ModelAlwaysGoneAtTeardown == Spec => []TeardownAfterModel
  <1>1. ASSUME SessionInv
        PROVE  TeardownAfterModel
    <2>1. Types /\ ThreadsOK /\ ClosesOK /\ WindowOK
      BY <1>1 DEF SessionInv, ControlInv, PlacesOK
    <2>2. closed \/ window.closes > 0 \/ ui.closes > 0 => main.pc \in PastJoin
      BY <2>1 DEF ClosesOK, WindowOK, PastJoin, PastManager, PastModelLoop, PastUiLoop,
                  PastWindow
    <2>3. Done => main.pc \in PastUiLoop /\ main.pc \in PastModelLoop
      BY DEF Done, PastModelLoop, PastUiLoop, PastWindow
    <2>4. main.registered \in BOOLEAN
      BY <2>1 DEF Types, Mains
    <2> QED
      BY <2>1, <2>2, <2>3, <2>4 DEF TeardownAfterModel, ThreadsOK, ClosesOK
  <1> QED
    BY SessionInvHolds, <1>1, PTL

(***************************************************************************)
(* run_session raises if and only if something raised, and the failure of  *)
(* a model loop before any other.                                          *)
(***************************************************************************)
THEOREM NoFailureIsSilent == Spec => []NoSilentFailure
  <1>1. ASSUME SessionInv
        PROVE  NoSilentFailure
    <2>1. ErrorsOK
      BY <1>1 DEF SessionInv
    <2>2. ~NothingFailed => Primary \in Failures
      BY <2>1, PrimaryFails DEF ErrorsOK
    <2>3. {"ended", "replaced"} \cap Failures = {}
      BY DEF Failures
    <2>4. errors.raised = {} <=> NothingFailed
      BY <2>1 DEF ErrorsOK, FailuresOK
    <2>5. "model" \in errors.raised => ~NothingFailed /\ Primary = "model"
      BY <2>1 DEF ErrorsOK, FailuresOK, NothingFailed, Primary
    <2> QED
      BY <2>1, <2>2, <2>3, <2>4, <2>5 DEF NoSilentFailure, ErrorsOK
  <1> QED
    BY SessionInvHolds, <1>1, PTL

(***************************************************************************)
(* run_ui_once looks at the close event first, so that no session replaces *)
(* one that its user has closed.                                           *)
(***************************************************************************)
THEOREM CloseAlwaysWins == Spec => []CloseCancelsReplacement
  <1>1. SessionInv => CloseCancelsReplacement
    BY DEF SessionInv, ControlInv, PlacesOK, RequestOK, CloseCancelsReplacement
  <1> QED
    BY SessionInvHolds, <1>1, PTL

(***************************************************************************)
(* The two threads of a session stay within what the PresentationManager   *)
(* module assumes of its callers.                                          *)
(***************************************************************************)
THEOREM ManagerContractKept == Spec => KeepsManagerContract
  <1>1. Init => PM!Init
    BY DEF Init
  <1>2. SessionInv /\ [Next]_sessionVars => [PM!Next]_(PM!presentationVars)
    BY ManagerMoves
  <1> QED
    BY SessionInvHolds, <1>1, <1>2, PTL DEF Spec, KeepsManagerContract

(***************************************************************************)
(* Hence what PresentationManagerProofs and EventBufferProofs show of the  *)
(* two shared objects is true inside every session: no chunk is lost, a    *)
(* blocking session drops none, no stale frame is on show and no loop's    *)
(* cursor has left the events that are kept.                               *)
(***************************************************************************)
THEOREM SharedObjectsStayCorrect ==
    Spec => [](/\ PM!ChunksAccounted /\ PM!BlockDropsNothing
               /\ PM!NothingStalePresented /\ EB!CursorsInWindow)
  <1>1. PMP!ManagerInv =>
           PMP!ChunksAccounted /\ PMP!BlockDropsNothing /\ PMP!NothingStalePresented
    BY DEF PMP!ManagerInv
  <1>2. /\ PMP!ChunksAccounted <=> PM!ChunksAccounted
        /\ PMP!BlockDropsNothing <=> PM!BlockDropsNothing
        /\ PMP!NothingStalePresented <=> PM!NothingStalePresented
    BY DEF PMP!ChunksAccounted, PM!ChunksAccounted, PMP!BlockDropsNothing,
           PM!BlockDropsNothing, PMP!NothingStalePresented, PM!NothingStalePresented,
           PMP!Underway, PM!Underway, PMP!Settled, PM!Settled, PMP!InHand, PM!InHand
  <1>3. EBP!StoreInv => EB!CursorsInWindow
    BY DEF EBP!StoreInv, EBP!CursorsInWindow, EB!CursorsInWindow
  <1>4. SessionInv =>
           /\ PM!ChunksAccounted /\ PM!BlockDropsNothing /\ PM!NothingStalePresented
           /\ EB!CursorsInWindow
    BY <1>1, <1>2, <1>3 DEF SessionInv, ControlInv
  <1> QED
    BY SessionInvHolds, <1>4, PTL

(***************************************************************************)
(* And the frames that a session's UI thread selects go forward; a         *)
(* blocking session skips none within a generation.                        *)
(***************************************************************************)
THEOREM SessionShowsFramesInOrder == Spec => PM!FramesInOrder
  <1>1. MaxSteps \in Nat /\ MaxLog \in Nat
    BY BoundsAreNat
  <1>2. PMP!Init => PMP!OrderInv
    BY <1>1, FrameCountsArePositive, NoChunkIsNoChunk, PMP!InitOrder
  <1>3. PMP!ManagerInv /\ PMP!OrderInv /\ [PMP!Next]_(PMP!presentationVars) =>
           /\ PMP!OrderInv'
           /\ shown' # shown => /\ PMP!Follows(shown', shown)
                                /\ mode = "BLOCK" => PMP!FollowsAtOnce(shown', shown)
    BY <1>1, FrameCountsArePositive, NoChunkIsNoChunk, PMP!NextOrder
  <1>4. \A a, b : /\ PMP!Follows(a, b) <=> PM!Follows(a, b)
                  /\ PMP!FollowsAtOnce(a, b) <=> PM!FollowsAtOnce(a, b)
    BY DEF PMP!Follows, PM!Follows, PMP!FollowsAtOnce, PM!FollowsAtOnce
  <1>5. Init => PMP!OrderInv
    BY <1>2, SameManager DEF Init
  <1>6. SessionInv /\ PMP!OrderInv /\ [Next]_sessionVars =>
           /\ PMP!OrderInv'
           /\ [shown' # shown => /\ PM!Follows(shown', shown)
                                 /\ mode = "BLOCK" => PM!FollowsAtOnce(shown', shown)]_shown
    <2> SUFFICES ASSUME SessionInv, PMP!OrderInv, [Next]_sessionVars
                 PROVE  /\ PMP!OrderInv'
                        /\ shown' # shown =>
                              /\ PM!Follows(shown', shown)
                              /\ mode = "BLOCK" => PM!FollowsAtOnce(shown', shown)
      OBVIOUS
    <2>1. [PMP!Next]_(PMP!presentationVars)
      BY ManagerMoves, SameManager
    <2> QED
      BY <1>3, <1>4, <2>1 DEF SessionInv, ControlInv
  <1> QED
    BY SessionInvHolds, <1>5, <1>6, PTL DEF Spec, PM!FramesInOrder

-----------------------------------------------------------------------------
(* A run for files.                                                         *)

\* A run for files so far: nobody has stopped it, and nothing has failed.
FileRun ==
    /\ config.ui = "blit" /\ mode = "BLOCK" /\ config.presentation = "ON_DEMAND"
    /\ current = 0 /\ ~ui.sawClose /\ deadline # "passed"
    /\ errors.raised = {}

Ending == {"setStop", "join"} \cup PastJoin

\* Where a generated frame is before it has been presented.
ChunkFrames(chunk) == IF chunk = NoChunk THEN 0 ELSE chunk.frames
ToPresent == IF presented = NoChunk THEN 0 ELSE presented.frames - (frameIndex + 1)
Queued == IF buffered = <<>> THEN 0 ELSE ChunkFrames(buffered[1])
Undrawn == IF main.pc \in {"request", "runUi"} /\ presenter.advanced THEN 1 ELSE 0

\* No frame is lost on the way from the model to the presented ones.
FramesCounted ==
    main.pc \notin Ending =>
        model.frames = presentedFrameCount + ToPresent + Queued
                       + ChunkFrames(presenter.selected) + ChunkFrames(publisher.chunk)

\* All is of the one generation, and a chunk is taken when the last one is used up.
ChunksCurrent ==
    /\ generation = 0 /\ ui.generation = 0 /\ model.generation = 0
    /\ publisher.chunk # NoChunk => publisher.chunk.generation = 0
    /\ buffered # <<>> => buffered[1].generation = 0
    /\ presenter.pc = "take" \/ presenter.selected # NoChunk => ~PM!HasNextFrame

\* A tick that presents a frame writes it; no other tick writes.
DrawnOK ==
    /\ ~ui.request
    /\ main.pc \notin Ending => presentedFrameCount = ui.drawn + Undrawn
    /\ ui.drawn = window.writes
    /\ main.pc \in {"request", "runUi"} /\ presenter.advanced => presented # NoChunk
    /\ main.pc = "runUi" /\ presenter.advanced => main.stepRequested
    /\ main.pc = "runUi" /\ main.stepRequested /\ ~presenter.advanced =>
          presented = NoChunk \/ (inference = "FINISHED" /\ ~PM!HasPendingFrames)
    /\ main.pc \notin Ending /\ presented # NoChunk => presentedFrameCount > 0

\* The inference state follows the model thread.
InferenceOK ==
    /\ inference = "NOT_STARTED" <=> model.pc \in {"off", "started"}
    /\ inference = "FINISHED" <=> model.pc \in {"shutdown", "dead"}
    /\ inference = "NOT_STARTED" => model.frames = 0

\* The loop ends when the model thread is gone and nothing is pending.
EndsWhenShown ==
    /\ stop => main.pc \in Ending \ {"setStop"}
    /\ main.pc \in {"lastCollect", "lastRun", "decideEnd"} =>
          /\ model.pc = "dead"
          /\ main.pending <=> PM!HasPendingFrames
          /\ main.uiFinished => ~main.pending
    /\ main.pc \in Ending => model.pc = "dead" /\ window.writes = model.frames

FileOK == FramesCounted /\ ChunksCurrent /\ DrawnOK /\ InferenceOK /\ EndsWhenShown

\* Neither the model thread nor most steps of the main thread touch the UI loop.
LEMMA ModelLeavesMain == ModelThread => UNCHANGED mainSide
  <1>1. ModelStart \/ ModelCheck \/ ModelRead \/ ModelAdmit => UNCHANGED mainSide
    BY Zenon DEF ModelStart, ModelCheck, ModelRead, ModelAdmit
  <1>2. ModelStep \/ ModelPublish \/ ModelPublished => UNCHANGED mainSide
    BY Zenon DEF ModelStep, ModelPublish, ModelPublished
  <1>3. ModelExit \/ ModelShutdown => UNCHANGED mainSide
    BY Zenon DEF ModelExit, ModelShutdown
  <1> QED
    BY <1>1, <1>2, <1>3, Zenon DEF ModelThread

LEMMA UiMoves ==
    ASSUME MainThread
    PROVE  \/ UNCHANGED ui \/ CloseUiLoop
           \/ RunTickUi \/ LastRun
  <1>1. InitSession \/ RegisterReaders \/ OpenWindow => UNCHANGED ui
    BY Zenon DEF InitSession, RegisterReaders, OpenWindow
  <1>2. Collect \/ TickUi \/ Advance \/ RequestStep \/ CollectGarbage => UNCHANGED ui
    BY Zenon DEF Collect, CollectInput, TickUi, Advance, RequestStep, CollectGarbage
  <1>3. Launch \/ LoopTop \/ LastCollect \/ DecideEnd \/ Wait => UNCHANGED ui
    BY Zenon DEF Launch, LoopTop, LastCollect, CollectInput, DecideEnd, Wait
  <1>4. ShouldEnd => UNCHANGED ui
    BY Zenon DEF ShouldEnd
  <1>5. SetStop \/ Join \/ CloseManager \/ CloseModelLoop \/ ClearBuffer => UNCHANGED ui
    BY Zenon DEF SetStop, Join, CloseManager, CloseModelLoop, ClearBuffer
  <1>6. CloseWindow \/ CloseSession \/ Report => UNCHANGED ui
    BY Zenon DEF CloseWindow, CloseSession, Report
  <1> QED
    BY <1>1, <1>2, <1>3, <1>4, <1>5, <1>6 DEF MainThread

\* The UI loop once it has its events: in the same generation nothing is redrawn.
LEMMA UiReads ==
    ASSUME SessionInv, NEW requested, NEW after, RunUi(requested, after)
    PROVE  LET read == UiAfterRead
               loop == AfterReset(read, lastRead'[UiReader].generation)
           IN  /\ ui \in Uis /\ read \in Uis /\ loop \in Uis
               /\ ui.sawClose => read.sawClose
               /\ loop.sawClose = read.sawClose
               /\ read.generation = ui.generation /\ read.drawn = ui.drawn
               /\ read.request = ui.request /\ loop.request = ui.request
               /\ ui.generation = current => loop = read
               /\ current' = current
               /\ \A draws, asks \in BOOLEAN : StepUi(loop, draws, asks) =>
                     /\ ui' \in Uis /\ ui'.sawClose = loop.sawClose
                     /\ ui'.generation = loop.generation /\ ui'.request = asks
                     /\ ui'.drawn = presentedFrameCount
                     /\ window' = IF draws
                           THEN [UseWindow(window) EXCEPT
                                   !.writes = IF @ < MaxWrites THEN @ + 1 ELSE @]
                           ELSE window
                     /\ UNCHANGED <<stop, nextSession>>
  <1> DEFINE read == UiAfterRead
             loop == AfterReset(read, lastRead'[UiReader].generation)
  <1>1. ui \in Uis /\ presentedFrameCount \in Nat
    BY ManagerTheorems DEF SessionInv, ControlInv, PlacesOK, Types, PM!TypeOK
  <1>2. /\ lastRead'[UiReader].generation = current /\ current' = current
        /\ current \in Nat
    BY ReadFacts DEF RunUi, SessionInv, ControlInv, Readers
  <1>3. /\ read \in Uis /\ (ui.sawClose => read.sawClose)
        /\ read.generation = ui.generation /\ read.drawn = ui.drawn
        /\ read.request = ui.request
    BY <1>1 DEF UiAfterRead, Holds, Uis
  <1> HIDE DEF read
  <1>4. /\ loop \in Uis /\ loop.sawClose = read.sawClose /\ loop.request = read.request
        /\ read.generation = current => loop = read
    BY <1>2, <1>3 DEF AfterReset, Uis
  <1> HIDE DEF loop
  <1>5. ASSUME NEW draws \in BOOLEAN, NEW asks \in BOOLEAN, StepUi(loop, draws, asks)
        PROVE  /\ ui' \in Uis /\ ui'.sawClose = loop.sawClose
               /\ ui'.generation = loop.generation /\ ui'.request = asks
               /\ ui'.drawn = presentedFrameCount
               /\ window' = IF draws
                           THEN [UseWindow(window) EXCEPT
                                   !.writes = IF @ < MaxWrites THEN @ + 1 ELSE @]
                           ELSE window
               /\ UNCHANGED <<stop, nextSession>>
    <2>1. ui' = [loop EXCEPT !.request = asks, !.drawn = presentedFrameCount]
      BY <1>5 DEF StepUi
    <2>2. /\ ui' \in Uis /\ ui'.sawClose = loop.sawClose
          /\ ui'.generation = loop.generation /\ ui'.request = asks
          /\ ui'.drawn = presentedFrameCount
      BY <1>1, <1>4, <2>1 DEF Uis
    <2> QED
      BY <1>5, <2>2, Zenon DEF StepUi
  <1> QED
    BY <1>1, <1>2, <1>3, <1>4, <1>5 DEF read, loop

LEMMA SettingsStay ==
    ASSUME [Next]_sessionVars
    PROVE  UNCHANGED <<config, mode>> /\ (deadline = "passed" => deadline' = "passed")
  <1>1. ModelThread => UNCHANGED <<config, mode, deadline>>
    BY ModelLeavesMain DEF mainSide, fixedVars
  <1>2. DeadlinePasses \/ Finished \/ UNCHANGED sessionVars =>
           UNCHANGED <<config, mode>> /\ (deadline = "passed" => deadline' = "passed")
    BY DEF DeadlinePasses, Finished, sessionVars, managerVars, fixedVars
  <1>3. InitSession \/ RegisterReaders \/ OpenWindow => UNCHANGED <<fixedVars, mode>>
    BY Zenon DEF InitSession, RegisterReaders, OpenWindow, managerVars
  <1>4. Collect \/ TickUi \/ Advance \/ RequestStep \/ CollectGarbage =>
           UNCHANGED <<fixedVars, mode>>
    BY Zenon DEF Collect, CollectInput, TickUi, Advance, RequestStep, CollectGarbage,
                 managerVars
  <1>5. Launch \/ LoopTop \/ LastCollect \/ DecideEnd \/ Wait =>
           UNCHANGED <<fixedVars, mode>>
    BY Zenon DEF Launch, LoopTop, LastCollect, CollectInput, DecideEnd, Wait, managerVars
  <1>6. RunTickUi \/ LastRun => UNCHANGED <<fixedVars, mode>>
    BY Zenon DEF RunTickUi, LastRun, RunUi, managerVars
  <1>7. ShouldEnd => UNCHANGED <<fixedVars, mode>>
    BY Zenon DEF ShouldEnd, managerVars
  <1>8. SetStop \/ Join \/ CloseManager \/ CloseModelLoop \/ CloseUiLoop \/ ClearBuffer =>
           UNCHANGED <<fixedVars, mode>>
    BY Zenon DEF SetStop, Join, CloseManager, CloseModelLoop, CloseUiLoop, ClearBuffer,
                 managerVars
  <1>9. CloseWindow \/ CloseSession \/ Report => UNCHANGED <<fixedVars, mode>>
    BY Zenon DEF CloseWindow, CloseSession, Report, managerVars
  <1> QED
    BY <1>1, <1>2, <1>3, <1>4, <1>5, <1>6, <1>7, <1>8, <1>9
       DEF Next, MainThread, fixedVars

\* Who the client is, and what has been seen, does not change back.
LEMMA FileRunMoves ==
    ASSUME SessionInv, [Next]_sessionVars, FileRun'
    PROVE  FileRun /\ UNCHANGED <<errors, failureQueue>> /\ failureQueue = <<>>
  <1>1. main \in Mains /\ model \in Models /\ ui \in Uis
    BY DEF SessionInv, ControlInv, PlacesOK, Types
  <1>2. UNCHANGED <<errors, failureQueue>> /\ failureQueue = <<>>
    <2>1. errors \in [raised : SUBSET Failures, main : Failures \cup {Nothing},
                      cleanup : Seq(Failures)]
      BY DEF SessionInv, ErrorsOK, FailuresOK
    <2>2. Raising /\ errors'.raised = {}
      BY RaisingSteps DEF FileRun
    <2>3. ASSUME NEW f \in Failures,
                 MainFails(f) \/ CleanupFails(f) \/ FailsLate(f) \/ ModelFails(f)
          PROVE  FALSE
      <3>1. f \in errors'.raised
        BY <2>1, <2>3 DEF MainFails, CleanupFails, FailsLate, ModelFails
      <3> QED
        BY <2>2, <3>1
    <2>4. UNCHANGED <<errors, failureQueue>>
      BY <2>2, <2>3 DEF Raising
    <2> QED
      BY <2>2, <2>4 DEF SessionInv, ErrorsOK, FailuresOK, NothingFailed
  <1>3. current = 0
    BY GenerationMoves DEF FileRun, SessionInv, ControlInv
  <1>5. ui.sawClose => ui'.sawClose
    <2>1. CASE UNCHANGED ui
      BY <2>1
    <2>2. CASE CloseUiLoop
      BY <1>1, <2>2 DEF CloseUiLoop, Uis
    <2>3. ASSUME NEW requested, NEW after, RunUi(requested, after)
          PROVE  ui.sawClose => ui'.sawClose
      <3> DEFINE read == UiAfterRead
                 loop == AfterReset(read, lastRead'[UiReader].generation)
      <3>1. \/ ui' = read \/ ui' = loop \/ ui' = [loop EXCEPT !.request = FALSE]
            \/ \E draws, asks \in BOOLEAN : StepUi(loop, draws, asks)
        BY <2>3 DEF RunUi, UiSteps
      <3>2. /\ ui.sawClose => loop.sawClose /\ read.sawClose
            /\ loop \in Uis
            /\ \A draws, asks \in BOOLEAN :
                  StepUi(loop, draws, asks) => ui'.sawClose = loop.sawClose
        BY <2>3, UiReads
      <3> HIDE DEF read, loop
      <3> QED
        BY <3>1, <3>2 DEF Uis
    <2>4. CASE ModelThread
      BY <2>1, <2>4, ModelLeavesMain DEF mainSide
    <2>5. CASE MainThread
      BY <2>1, <2>2, <2>3, <2>5, UiMoves DEF RunTickUi, LastRun
    <2>6. CASE DeadlinePasses \/ Finished \/ UNCHANGED sessionVars
      BY <2>1, <2>6 DEF DeadlinePasses, Finished, sessionVars
    <2> QED
      BY <2>4, <2>5, <2>6 DEF Next
  <1> QED
    BY <1>1, <1>2, <1>3, <1>5, SettingsStay DEF FileRun

\* The chunks and the numbers that the count of frames is made of.
LEMMA FileFacts ==
    ASSUME SessionInv
    PROVE  /\ main \in Mains /\ ui \in Uis /\ model \in Models /\ window \in Windows
           /\ presentedFrameCount \in Nat /\ ToPresent \in Nat /\ Queued \in Nat
           /\ ChunkFrames(presenter.selected) \in Nat
           /\ ChunkFrames(publisher.chunk) \in Nat
           /\ \A chunk \in PM!Chunks :
                 chunk # NoChunk /\ chunk.frames \in FrameCounts /\ chunk.frames \in Nat \ {0}
           /\ presented \in PM!Chunks \cup {NoChunk} /\ frameIndex \in Nat \cup {-1}
           /\ presenter.selected \in PM!Chunks \cup {NoChunk}
           /\ publisher.chunk \in PM!Chunks \cup {NoChunk}
           /\ presenter.advanced \in BOOLEAN
           /\ buffered # <<>> =>
                 /\ Head(buffered) = buffered[1] /\ buffered[1] \in PM!Chunks
                 /\ Tail(buffered) = <<>>
           /\ publisher.pc = "idle" <=> publisher.chunk = NoChunk
           /\ presenter.pc = "idle" => presenter.selected = NoChunk
           /\ presenter.pc \in {"isDue", "take"} /\ mode = "BLOCK"
                 => presenter.selected = NoChunk
           /\ presenter.pc = "mark" /\ presenter.selected = NoChunk => PM!HasNextFrame
           /\ presenter.pc # "idle" => main.pc = "advance"
           /\ publisher.pc # "idle" => model.pc = "publish"
           /\ stop \in BOOLEAN
  <1>1. PM!TypeOK /\ PMP!HandsOK /\ PMP!NothingStalePresented
    BY ManagerTheorems DEF SessionInv, ControlInv, PMP!ManagerInv
  <1>2. /\ main \in Mains /\ ui \in Uis /\ model \in Models /\ window \in Windows
        /\ stop \in BOOLEAN
    BY DEF SessionInv, ControlInv, PlacesOK, Types
  <1>3. /\ presentedFrameCount \in Nat
        /\ presented \in PM!Chunks \cup {NoChunk} /\ frameIndex \in Nat \cup {-1}
        /\ presenter.selected \in PM!Chunks \cup {NoChunk}
        /\ publisher.chunk \in PM!Chunks \cup {NoChunk}
        /\ presenter.advanced \in BOOLEAN
        /\ presenter.pc \in {"idle", "isDue", "take", "mark"}
    BY <1>1 DEF PM!TypeOK, PM!Presenters, PM!Publishers
  <1>4. \A chunk \in PM!Chunks :
           chunk # NoChunk /\ chunk.frames \in FrameCounts /\ chunk.frames \in Nat \ {0}
    BY NoChunkIsNoChunk, FrameCountsArePositive DEF PM!Chunks
  <1>5. buffered # <<>> =>
           /\ Head(buffered) = buffered[1] /\ buffered[1] \in PM!Chunks
           /\ Tail(buffered) = <<>>
    <2> SUFFICES ASSUME buffered # <<>>
                 PROVE  /\ Head(buffered) = buffered[1] /\ buffered[1] \in PM!Chunks
                        /\ Tail(buffered) = <<>>
      OBVIOUS
    <2>1. buffered \in Seq(PM!Chunks) /\ Len(buffered) <= 1
      BY <1>1 DEF PM!TypeOK
    <2>2. /\ Head(buffered) \in PM!Chunks /\ Tail(buffered) \in Seq(PM!Chunks)
          /\ Len(buffered) \in Nat \ {0} /\ Len(Tail(buffered)) = Len(buffered) - 1
      BY <2>1, HeadTailProperties, EmptySeq
    <2>3. Len(Tail(buffered)) = 0
      BY <2>1, <2>2
    <2> QED
      BY <2>1, <2>2, <2>3, EmptySeq
  <1>6. /\ ChunkFrames(presenter.selected) \in Nat /\ ChunkFrames(publisher.chunk) \in Nat
        /\ Queued \in Nat
    BY <1>3, <1>4, <1>5 DEF ChunkFrames, Queued
  <1>7. ToPresent \in Nat
    BY <1>1, <1>3, <1>4 DEF PMP!NothingStalePresented, ToPresent
  <1>8. /\ publisher.pc = "idle" <=> publisher.chunk = NoChunk
        /\ presenter.pc = "idle" => presenter.selected = NoChunk
        /\ presenter.pc \in {"isDue", "take"} /\ mode = "BLOCK"
              => presenter.selected = NoChunk
        /\ presenter.pc = "mark" /\ presenter.selected = NoChunk => PM!HasNextFrame
    BY <1>1 DEF PMP!HandsOK, PMP!HasNextFrame, PM!HasNextFrame
  <1> QED
    BY <1>2, <1>3, <1>4, <1>5, <1>6, <1>7, <1>8 DEF SessionInv, CallsOK

\* What the count is made of outside the manager's own steps.
frameVars == <<presented, frameIndex, presentedFrameCount, buffered, presenter, publisher,
               generation>>

\* A step of the main thread that presents nothing, draws nothing and does not end.
LEMMA StillFile ==
    ASSUME SessionInv, FileOK, FileRun,
           UNCHANGED <<frameVars, inference, stop>>,
           ui'.generation = ui.generation, ui'.request = ui.request,
           ui'.drawn = ui.drawn, window'.writes = window.writes,
           model'.frames = model.frames, model'.generation = model.generation,
           model'.pc = model.pc \/ (model.pc = "off" /\ model'.pc = "started"),
           {main.pc, main'.pc} \cap {"request", "runUi"} = {},
           main'.pc \in Ending => main.pc \in Ending,
           main.pc \in Ending => main'.pc \in Ending \ {"setStop"},
           main'.pc \in {"lastCollect", "lastRun", "decideEnd"} =>
              /\ main.pc \in {"lastCollect", "lastRun"}
              /\ main'.pending = main.pending /\ main'.uiFinished = main.uiFinished
    PROVE  FileOK'
  <1>1. ToPresent' = ToPresent /\ Queued' = Queued /\ (PM!HasNextFrame)' = PM!HasNextFrame
        /\ (PM!HasPendingFrames)' = PM!HasPendingFrames
    BY DEF frameVars, ToPresent, Queued, PM!HasNextFrame, PM!HasPendingFrames, ChunkFrames
  <1>2. FramesCounted'
    BY <1>1 DEF FileOK, FramesCounted, frameVars, ChunkFrames
  <1>3. ChunksCurrent'
    BY <1>1 DEF FileOK, ChunksCurrent, frameVars
  <1>4. DrawnOK'
    BY <1>1 DEF FileOK, DrawnOK, Undrawn, frameVars
  <1>5. InferenceOK'
    BY DEF FileOK, InferenceOK
  <1>6. EndsWhenShown'
    BY <1>1, FileFacts DEF FileOK, EndsWhenShown, Models
  <1> QED
    BY <1>2, <1>3, <1>4, <1>5, <1>6 DEF FileOK

\* The steps that this covers: setting up, collecting input, the loop, and cleanup.
StillStep ==
    \/ InitSession \/ RegisterReaders \/ OpenWindow \/ Collect \/ CollectGarbage
    \/ Launch \/ LoopTop \/ LastCollect \/ Wait \/ Join \/ CloseModelLoop
    \/ CloseUiLoop \/ ClearBuffer \/ CloseWindow \/ CloseSession \/ Report

LEMMA CallsKeepFile ==
    ASSUME SessionInv, FileOK, FileRun, FileRun', UNCHANGED errors, StillStep
    PROVE  FileOK'
  <1>1. main \in Mains /\ ui \in Uis /\ model \in Models /\ window \in Windows
    BY FileFacts
  <1>2. errors \in [raised : SUBSET Failures, main : Failures \cup {Nothing},
                    cleanup : Seq(Failures)]
    BY DEF SessionInv, ErrorsOK, FailuresOK
  <1>3. \A f : errors.raised \cup {f} # {}
    OBVIOUS
  <1>4. ~(\E f : MainRaises(f))
    <2> SUFFICES ASSUME NEW f, MainRaises(f)
                 PROVE  FALSE
      OBVIOUS
    <2>1. errors'.raised = errors.raised \cup {f}
      BY <1>2 DEF MainRaises
    <2> QED
      BY <2>1 DEF FileRun
  <1> USE DEF Ending, PastJoin, PastManager, PastModelLoop, PastUiLoop, PastWindow,
              frameVars, managerVars, queueVars, modelVars
  <1>5. CASE InitSession
    <2>1. main' = [main EXCEPT !.pc = "registerUi", !.registered = TRUE]
      <3>1. \/ main' = [main EXCEPT !.pc = "registerUi", !.registered = TRUE]
            \/ errors' = [errors EXCEPT !.raised = @ \cup {"init"}, !.main = "init"]
        BY <1>5, Zenon DEF InitSession
      <3>2. CASE errors' = [errors EXCEPT !.raised = @ \cup {"init"}, !.main = "init"]
        <4>1. errors'.raised = errors.raised \cup {"init"}
          BY <1>2, <3>2
        <4> QED
          BY <4>1 DEF FileRun
      <3> QED
        BY <3>1, <3>2
    <2>2. UNCHANGED <<frameVars, inference, stop, ui, window, model>> /\ main.pc = "init"
      BY <1>5, Zenon DEF InitSession
    <2>3. main'.pc = "registerUi"
      BY <1>1, <2>1 DEF Mains
    <2> QED
      BY <2>2, <2>3, StillFile
  <1>6. CASE RegisterReaders
    <2>1. UNCHANGED <<frameVars, inference, stop, ui, window, model>>
      BY <1>6, Zenon DEF RegisterReaders
    <2>2. /\ main.pc \in {"registerUi", "registerModel"}
          /\ main'.pc \in {"registerModel", "open"}
      BY <1>1, <1>6 DEF RegisterReaders, Goto, Mains
    <2> QED
      BY <2>1, <2>2, StillFile
  <1>7. CASE OpenWindow
    <2>1. UNCHANGED <<frameVars, inference, stop, ui, model>> /\ main.pc = "open"
      BY <1>7, Zenon DEF OpenWindow
    <2>2. Goto("collect") /\ window' = [window EXCEPT !.open = TRUE]
      BY <1>4, <1>7, Zenon DEF OpenWindow
    <2>3. main'.pc = "collect" /\ window'.writes = window.writes
      BY <1>1, <2>2 DEF Goto, Mains, Windows
    <2> QED
      BY <2>1, <2>3, StillFile
  <1>8. CASE Collect \/ LastCollect
    <2>1. PICK after \in {"tick", "lastRun"} :
             /\ CollectInput(after) /\ main.pc \in {"collect", "lastCollect"}
             /\ after = "lastRun" <=> main.pc = "lastCollect"
      BY <1>8 DEF Collect, LastCollect
    <2>2. UNCHANGED <<frameVars, inference, stop, ui, model>>
      BY <2>1, Zenon DEF CollectInput
    <2>3. Goto(after) /\ window' = UseWindow(window)
      BY <1>4, <2>1, Zenon DEF CollectInput
    <2>4. /\ main'.pc = after /\ window'.writes = window.writes
          /\ main'.pending = main.pending /\ main'.uiFinished = main.uiFinished
      BY <1>1, <2>3 DEF Goto, Mains, UseWindow, Windows
    <2> QED
      BY <2>1, <2>2, <2>4, StillFile
  <1>9. CASE CollectGarbage
    <2>1. UNCHANGED <<frameVars, inference, stop, ui, window, model>>
          /\ main.pc = "garbage" /\ Goto("loop")
      BY <1>9, Zenon DEF CollectGarbage
    <2>2. main'.pc = "loop"
      BY <1>1, <2>1 DEF Goto, Mains
    <2> QED
      BY <2>1, <2>2, StillFile
  <1>10. CASE Launch
    <2>1. UNCHANGED <<frameVars, inference, stop, ui, window>> /\ main.pc = "launch"
      BY <1>10 DEF Launch, ExpireIfDue, FileRun, fixedVars
    <2>2. ~stop
      BY <2>1 DEF FileOK, EndsWhenShown
    <2>3. /\ main' = [main EXCEPT !.pc = "loop", !.startup = FALSE]
          /\ model' = [model EXCEPT !.pc = "started"]
      BY <1>10, <2>1, <2>2 DEF Launch
    <2>4. main'.pc = "loop" /\ model'.pc = "started" /\ model'.frames = model.frames
          /\ model'.generation = model.generation
      BY <1>1, <2>3 DEF Mains, Models
    <2>5. model.pc = "off"
      BY <2>1 DEF SessionInv, ControlInv, PlacesOK, ThreadsOK
    <2> QED
      BY <2>1, <2>4, <2>5, StillFile
  <1>11. CASE LoopTop
    <2>1. UNCHANGED <<frameVars, inference, stop, ui, window, model>>
          /\ main.pc = "loop" /\ Goto("shouldEnd")
      BY <1>11 DEF LoopTop, ExpireIfDue, FileRun
    <2>2. main'.pc = "shouldEnd"
      BY <1>1, <2>1 DEF Goto, Mains
    <2> QED
      BY <2>1, <2>2, StillFile
  <1>12. CASE Wait
    <2>1. UNCHANGED <<frameVars, inference, ui, window, model>> /\ main.pc = "wait"
      BY <1>12, Zenon DEF Wait
    <2>2. ~stop
      BY <2>1 DEF FileOK, EndsWhenShown
    <2>3. UNCHANGED stop /\ Goto("collect")
      BY <1>12, <2>2 DEF Wait, ExpireIfDue, FileRun
    <2>4. main'.pc = "collect"
      BY <1>1, <2>3 DEF Goto, Mains
    <2> QED
      BY <2>1, <2>3, <2>4, StillFile
  <1>13. CASE Join \/ ClearBuffer \/ CloseSession
    <2>1. UNCHANGED <<frameVars, inference, stop, ui, window, model>>
      BY <1>13, Zenon DEF Join, ClearBuffer, CloseSession
    <2>2. /\ main.pc \in {"join", "clearBuffer", "closeSession"}
          /\ main'.pc \in {"closeManager", "closeWindow", "report"}
      BY <1>1, <1>13 DEF Join, ClearBuffer, CloseSession, Cleanup, Goto, Mains
    <2> QED
      BY <2>1, <2>2, StillFile
  <1>14. CASE CloseModelLoop
    <2>1. UNCHANGED <<frameVars, inference, stop, ui, window>>
          /\ main.pc = "closeModelLoop" /\ Goto("closeUiLoop")
          /\ (UNCHANGED model \/ model' = [model EXCEPT !.closes = @ + 1])
      BY <1>14 DEF CloseModelLoop, Cleanup
    <2>2. main'.pc = "closeUiLoop"
      BY <1>1, <2>1 DEF Goto, Mains
    <2>3. model'.pc = model.pc /\ model'.frames = model.frames
          /\ model'.generation = model.generation
      BY <1>1, <2>1 DEF Models
    <2> QED
      BY <2>1, <2>2, <2>3, StillFile
  <1>15. CASE CloseUiLoop
    <2>1. UNCHANGED <<frameVars, inference, stop, model, window>>
          /\ main.pc = "closeUiLoop" /\ Goto("clearBuffer")
          /\ (UNCHANGED ui \/ ui' = [ui EXCEPT !.closes = @ + 1])
      BY <1>15 DEF CloseUiLoop, Cleanup
    <2>2. main'.pc = "clearBuffer"
      BY <1>1, <2>1 DEF Goto, Mains
    <2>3. ui'.generation = ui.generation /\ ui'.drawn = ui.drawn
          /\ ui'.request = ui.request
      BY <1>1, <2>1 DEF Uis
    <2> QED
      BY <2>1, <2>2, <2>3, StillFile
  <1>16. CASE CloseWindow \/ Report
    <2>1. UNCHANGED <<frameVars, inference, stop, ui, model>>
      BY <1>16, Zenon DEF CloseWindow, Report
    <2>2. /\ main.pc \in {"closeWindow", "report"}
          /\ main'.pc \in {"closeSession", "done"}
      BY <1>1, <1>16 DEF CloseWindow, Report, Cleanup, Goto, Mains
    <2>3. window' = window \/ window' = CloseIt(window)
      BY <1>16, Zenon DEF CloseWindow, Report
    <2>4. window'.writes = window.writes
      BY <1>1, <2>3 DEF CloseIt, Windows
    <2> QED
      BY <2>1, <2>2, <2>4, StillFile
  <1> QED
    BY <1>5, <1>6, <1>7, <1>8, <1>9, <1>10, <1>11, <1>12, <1>13, <1>14, <1>15, <1>16
       DEF StillStep

\* A tick begins, and asks the UI loop for a step when it has presented a frame.
LEMMA TickKeepsFile ==
    ASSUME SessionInv, FileOK, FileRun, FileRun', TickUi \/ RequestStep
    PROVE  FileOK'
  <1>1. main \in Mains
    BY FileFacts
  <1> USE DEF Ending, PastJoin, PastManager, PastModelLoop, PastUiLoop, PastWindow
  <1>2. CASE TickUi
    <2>1. /\ UNCHANGED <<presented, frameIndex, presentedFrameCount, buffered, publisher,
                         generation, inference, stop, ui, window, model>>
          /\ main.pc = "tick" /\ presenter.selected = NoChunk
          /\ presenter'.pc = "isDue" /\ presenter'.selected = NoChunk
      BY <1>2, FileFacts DEF TickUi, PM!AdvanceBegin, PM!publisherVars, modelVars, FileRun,
                             FileOK, ChunksCurrent
    <2>2. main'.pc = "advance"
      BY <1>1, <1>2 DEF TickUi, Goto, Mains
    <2>3. ToPresent' = ToPresent /\ Queued' = Queued
          /\ (PM!HasNextFrame)' = PM!HasNextFrame
          /\ (PM!HasPendingFrames)' = PM!HasPendingFrames
      BY <2>1 DEF ToPresent, Queued, PM!HasNextFrame, PM!HasPendingFrames, ChunkFrames
    <2>4. FramesCounted' /\ ChunksCurrent'
      BY <2>1, <2>2, <2>3 DEF FileOK, FramesCounted, ChunksCurrent, ChunkFrames
    <2>5. DrawnOK' /\ InferenceOK' /\ EndsWhenShown'
      BY <2>1, <2>2, <2>3 DEF FileOK, DrawnOK, InferenceOK, EndsWhenShown, Undrawn
    <2> QED
      BY <2>4, <2>5 DEF FileOK
  <1>3. CASE RequestStep
    <2>1. /\ UNCHANGED <<frameVars, inference, stop, ui, window, model>>
          /\ main.pc = "request"
      BY <1>3, Zenon DEF RequestStep, frameVars, modelVars, managerVars, queueVars
    <2>2. main'.pc = "runUi" /\ main'.stepRequested = StepRequested
      BY <1>1, <1>3 DEF RequestStep, Mains
    <2>3. ToPresent' = ToPresent /\ Queued' = Queued
          /\ (PM!HasNextFrame)' = PM!HasNextFrame
          /\ (PM!HasPendingFrames)' = PM!HasPendingFrames /\ Undrawn' = Undrawn
      BY <2>1, <2>2 DEF ToPresent, Queued, PM!HasNextFrame, PM!HasPendingFrames,
                        ChunkFrames, frameVars, Undrawn
    <2>4. FramesCounted' /\ ChunksCurrent'
      BY <2>1, <2>2, <2>3
         DEF FileOK, FramesCounted, ChunksCurrent, ChunkFrames, frameVars
    <2>5. /\ presenter.advanced => StepRequested
          /\ StepRequested /\ ~presenter.advanced =>
                presented = NoChunk \/ (inference = "FINISHED" /\ ~PM!HasPendingFrames)
      <3>1. inference = "NOT_STARTED" => presented = NoChunk
        <4>1. inference = "NOT_STARTED" => model.frames = 0
          BY DEF FileOK, InferenceOK
        <4>2. model.frames >= presentedFrameCount
          BY <2>1, FileFacts DEF FileOK, FramesCounted
        <4> QED
          BY <2>1, <4>1, <4>2, FileFacts DEF FileOK, DrawnOK
      <3> QED
        BY <3>1 DEF StepRequested, FileRun
    <2>6. DrawnOK'
      BY <2>1, <2>2, <2>3, <2>5 DEF FileOK, DrawnOK, frameVars
    <2>7. InferenceOK' /\ EndsWhenShown'
      BY <2>1, <2>2 DEF FileOK, InferenceOK, EndsWhenShown
    <2> QED
      BY <2>4, <2>6, <2>7 DEF FileOK
  <1> QED
    BY <1>2, <1>3

\* advance takes a chunk only when the last one is used up, and presents each frame.
LEMMA AdvanceKeepsFile ==
    ASSUME SessionInv, FileOK, FileRun, Advance
    PROVE  FileOK'
  <1>1. main \in Mains /\ ui \in Uis /\ model \in Models
    BY FileFacts
  <1>2. /\ UNCHANGED <<inference, stop, ui, window, model>>
        /\ main.pc = "advance"
    BY <1>1 DEF Advance, modelVars
  <1>3. main'.pc = IF presenter'.pc = "idle" THEN "request" ELSE "advance"
    BY <1>1 DEF Advance, Goto, Mains
  <1> USE DEF Ending, PastJoin, PastManager, PastModelLoop, PastUiLoop, PastWindow
  <1>4. /\ model.frames = presentedFrameCount + ToPresent + Queued
                         + ChunkFrames(presenter.selected) + ChunkFrames(publisher.chunk)
        /\ presentedFrameCount = ui.drawn
    BY <1>2, FileFacts DEF FileOK, FramesCounted, DrawnOK, Undrawn, Uis
  <1>5. InferenceOK' /\ EndsWhenShown'
    BY <1>2, <1>3 DEF FileOK, InferenceOK, EndsWhenShown
  <1>6. ASSUME UNCHANGED <<presented, frameIndex, presentedFrameCount, publisher,
                           generation>>,
               ToPresent' = ToPresent,
               Queued' + ChunkFrames(presenter'.selected)
                  = Queued + ChunkFrames(presenter.selected),
               Queued' \in Nat, ChunkFrames(presenter'.selected) \in Nat,
               ChunksCurrent', presenter'.pc = "idle" => ~presenter'.advanced
        PROVE  FileOK'
    <2>1. FramesCounted'
      <3>1. /\ model'.frames = model.frames /\ presentedFrameCount' = presentedFrameCount
            /\ ChunkFrames(publisher'.chunk) = ChunkFrames(publisher.chunk)
        BY <1>2, <1>6
      <3>2. /\ presentedFrameCount \in Nat /\ ToPresent \in Nat /\ Queued \in Nat
            /\ ChunkFrames(presenter.selected) \in Nat
            /\ ChunkFrames(publisher.chunk) \in Nat
        BY FileFacts
      <3>3. model'.frames = presentedFrameCount' + ToPresent' + Queued'
               + ChunkFrames(presenter'.selected) + ChunkFrames(publisher'.chunk)
        BY <1>4, <1>6, <3>1, <3>2
      <3> QED
        BY <3>3 DEF FramesCounted
    <2>2. DrawnOK'
      BY <1>2, <1>3, <1>4, <1>6 DEF FileOK, DrawnOK, Undrawn, Uis
    <2> QED
      BY <1>5, <1>6, <2>1, <2>2 DEF FileOK
  <1>7. ASSUME NEW due \in BOOLEAN, PM!IsDue(due)
        PROVE  FileOK'
    <2>1. /\ UNCHANGED <<buffered, generation, presented, frameIndex, presentedFrameCount,
                         publisher>>
          /\ presenter.pc = "isDue"
      BY <1>7 DEF PM!IsDue, PM!publisherVars
    <2>2. presenter.selected = NoChunk
      BY <2>1, FileFacts DEF FileRun
    <2>3. /\ presenter'.selected = NoChunk
          /\ presenter'.pc = "take" => ~PM!HasNextFrame
          /\ presenter'.pc = "idle" => ~presenter'.advanced
      <3>1. presenter \in PM!Presenters
        BY ManagerTheorems DEF SessionInv, ControlInv, PM!TypeOK
      <3> QED
        BY <1>7, <2>1, <2>2, <3>1 DEF PM!IsDue, PM!PresenterDone, PM!Presenters
    <2>4. ToPresent' = ToPresent /\ Queued' = Queued
          /\ (PM!HasNextFrame)' = PM!HasNextFrame
      BY <2>1 DEF ToPresent, Queued, PM!HasNextFrame, ChunkFrames
    <2>5. ChunksCurrent'
      BY <1>2, <2>1, <2>3, <2>4 DEF FileOK, ChunksCurrent
    <2> QED
      BY <1>6, <2>1, <2>2, <2>3, <2>4, <2>5, FileFacts
  <1>8. CASE PM!TakeChunk
    <2>1. /\ UNCHANGED <<generation, presented, frameIndex, presentedFrameCount,
                         publisher>>
          /\ presenter.pc = "take" /\ buffered # <<>> /\ buffered' = Tail(buffered)
      BY <1>8 DEF PM!TakeChunk, PM!publisherVars, PM!presentedVars
    <2>2. /\ presenter.selected = NoChunk /\ Head(buffered) = buffered[1]
          /\ buffered[1] \in PM!Chunks /\ buffered' = <<>> /\ buffered[1] # NoChunk
      BY <2>1, FileFacts DEF FileRun
    <2>3. Head(buffered).generation = generation
      BY <2>1, <2>2 DEF FileOK, ChunksCurrent
    <2>4. presenter' = [presenter EXCEPT !.selected = Head(buffered), !.pc = "mark"]
      BY <1>8, <2>3 DEF PM!TakeChunk, FileRun
    <2>5. presenter'.selected = buffered[1] /\ presenter'.pc = "mark"
      <3>1. presenter \in PM!Presenters
        BY ManagerTheorems DEF SessionInv, ControlInv, PM!TypeOK
      <3> QED
        BY <2>2, <2>4, <3>1 DEF PM!Presenters
    <2>6. ToPresent' = ToPresent /\ (PM!HasNextFrame)' = PM!HasNextFrame
      BY <2>1 DEF ToPresent, PM!HasNextFrame, ChunkFrames
    <2>7. /\ Queued' = 0 /\ Queued = ChunkFrames(buffered[1])
          /\ ChunkFrames(presenter.selected) = 0
          /\ Queued \in Nat
      BY <2>1, <2>2, FileFacts DEF Queued, ChunkFrames
    <2>8. Queued' + ChunkFrames(presenter'.selected)
             = Queued + ChunkFrames(presenter.selected)
      BY <2>5, <2>7
    <2>9. ChunksCurrent'
      BY <1>2, <2>1, <2>2, <2>5, <2>6 DEF FileOK, ChunksCurrent
    <2> QED
      BY <1>6, <2>1, <2>5, <2>6, <2>7, <2>8, <2>9
  <1>9. CASE PM!TakeEmpty
    <2>1. /\ UNCHANGED <<buffered, generation, presented, frameIndex, presentedFrameCount,
                         publisher>>
          /\ presenter.pc = "take"
      BY <1>9 DEF PM!TakeEmpty, PM!publisherVars, PM!presentedVars
    <2>2. presenter.selected = NoChunk
      BY <2>1, FileFacts DEF FileRun
    <2>3. /\ presenter'.selected = NoChunk /\ presenter'.pc = "idle"
          /\ ~presenter'.advanced
      BY <1>9, <2>2 DEF PM!TakeEmpty, PM!PresenterDone
    <2>4. ToPresent' = ToPresent /\ Queued' = Queued
          /\ (PM!HasNextFrame)' = PM!HasNextFrame
      BY <2>1 DEF ToPresent, Queued, PM!HasNextFrame, ChunkFrames
    <2>5. ChunksCurrent'
      BY <1>2, <2>1, <2>3, <2>4 DEF FileOK, ChunksCurrent
    <2> QED
      BY <1>6, <2>1, <2>2, <2>3, <2>4, <2>5, FileFacts
  <1>10. CASE PM!MarkAdvanced
    <2>1. /\ UNCHANGED <<buffered, generation, publisher>>
          /\ presenter.pc = "mark" /\ presentedFrameCount' = presentedFrameCount + 1
          /\ presenter'.pc = "idle" /\ presenter'.selected = NoChunk
          /\ presenter'.advanced
      BY <1>10 DEF PM!MarkAdvanced, PM!publisherVars, PM!PresenterDone
    <2>2. /\ presented' = IF presenter.selected # NoChunk THEN presenter.selected
                                                          ELSE presented
          /\ frameIndex' = IF presenter.selected # NoChunk THEN 0 ELSE frameIndex + 1
      BY <1>10 DEF PM!MarkAdvanced
    <2>3. /\ presented' # NoChunk
          /\ ToPresent' + 1 = ToPresent + ChunkFrames(presenter.selected)
          /\ ToPresent' \in Nat
      <3>1. CASE presenter.selected # NoChunk
        <4>1. ~PM!HasNextFrame
          BY <3>1 DEF FileOK, ChunksCurrent
        <4>2. ToPresent = 0
          BY <4>1, FileFacts DEF PM!HasNextFrame, ToPresent
        <4>3. presented' = presenter.selected /\ frameIndex' = 0
              /\ presenter.selected.frames \in Nat \ {0}
          BY <2>2, <3>1, FileFacts
        <4> QED
          BY <3>1, <4>2, <4>3 DEF ToPresent, ChunkFrames
      <3>2. CASE presenter.selected = NoChunk
        <4>1. PM!HasNextFrame
          BY <2>1, <3>2, FileFacts
        <4>2. presented' = presented /\ frameIndex' = frameIndex + 1
              /\ presented # NoChunk /\ presented.frames \in Nat
          BY <2>2, <3>2, <4>1, FileFacts DEF PM!HasNextFrame
        <4> QED
          BY <3>2, <4>1, <4>2, FileFacts DEF ToPresent, ChunkFrames, PM!HasNextFrame
      <3> QED
        BY <3>1, <3>2
    <2>4. FramesCounted'
      <3>1. Queued' = Queued /\ ChunkFrames(presenter'.selected) = 0
            /\ ChunkFrames(publisher'.chunk) = ChunkFrames(publisher.chunk)
        BY <2>1 DEF Queued, ChunkFrames
      <3> QED
        <4>1. /\ presentedFrameCount \in Nat /\ ToPresent \in Nat /\ Queued \in Nat
              /\ ChunkFrames(presenter.selected) \in Nat
              /\ ChunkFrames(publisher.chunk) \in Nat
          BY FileFacts
        <4>2. model'.frames = presentedFrameCount' + ToPresent' + Queued'
                 + ChunkFrames(presenter'.selected) + ChunkFrames(publisher'.chunk)
          BY <1>2, <1>4, <2>1, <2>3, <3>1, <4>1
        <4> QED
          BY <4>2 DEF FramesCounted
    <2>5. ChunksCurrent'
      BY <1>2, <2>1 DEF FileOK, ChunksCurrent
    <2>6. DrawnOK'
      BY <1>2, <1>3, <1>4, <2>1, <2>3, FileFacts DEF FileOK, DrawnOK, Undrawn, Uis
    <2> QED
      BY <1>5, <2>4, <2>5, <2>6 DEF FileOK
  <1> QED
    BY <1>7, <1>8, <1>9, <1>10 DEF Advance, PM!AdvanceStep

\* run_ui_once draws exactly in the ticks that have presented a frame, and each
\* drawn frame is written while the count of writes has room for it.
LEMMA RunUiKeepsFile ==
    ASSUME SessionInv, FileOK, FileRun, FileRun', UNCHANGED errors,
           RunTickUi \/ LastRun, model.frames <= MaxWrites
    PROVE  FileOK'
  <1>1. main \in Mains /\ ui \in Uis /\ model \in Models /\ window \in Windows
    BY FileFacts
  <1> DEFINE requested == IF main.pc = "runUi" THEN main.stepRequested ELSE FALSE
             read == UiAfterRead
             loop == AfterReset(read, lastRead'[UiReader].generation)
             idle == ~requested \/ UiFinished(loop)
  <1>2. PICK after \in {"launch", "garbage", "decideEnd"} :
           /\ RunUi(requested, after) /\ main.pc \in {"runUi", "lastRun"}
           /\ after = "decideEnd" <=> main.pc = "lastRun"
    BY DEF RunTickUi, LastRun
  <1>3. /\ loop \in Uis /\ loop = read /\ loop.generation = ui.generation
        /\ loop.drawn = ui.drawn /\ ~loop.request /\ (read.sawClose = loop.sawClose)
        /\ \A draws, asks \in BOOLEAN : StepUi(loop, draws, asks) =>
              /\ ui'.sawClose = loop.sawClose
              /\ ui'.generation = loop.generation /\ ui'.request = asks
              /\ ui'.drawn = presentedFrameCount
              /\ window' = IF draws THEN [UseWindow(window) EXCEPT
                                  !.writes = IF @ < MaxWrites THEN @ + 1 ELSE @]
                           ELSE window
              /\ UNCHANGED <<stop, nextSession>>
    BY <1>2, UiReads DEF FileRun, FileOK, ChunksCurrent, DrawnOK
  <1>4. UNCHANGED <<frameVars, inference, model>>
    BY <1>2, Zenon DEF RunUi, managerVars, queueVars, modelVars, frameVars
  <1>5. ~stop
    BY <1>2 DEF FileOK, EndsWhenShown, Ending, PastJoin, PastManager, PastModelLoop,
                PastUiLoop, PastWindow
  <1>6. ~(\E f : MainRaises(f))
    <2> SUFFICES ASSUME NEW f, MainRaises(f)
                 PROVE  FALSE
      OBVIOUS
    <2>1. errors \in [raised : SUBSET Failures, main : Failures \cup {Nothing},
                      cleanup : Seq(Failures)]
      BY DEF SessionInv, ErrorsOK, FailuresOK
    <2>2. errors'.raised = errors.raised \cup {f}
      BY <2>1 DEF MainRaises
    <2> QED
      BY <2>2 DEF FileRun
  <1>7. /\ main' = [main EXCEPT !.pc = after, !.stepRequested = FALSE]
        /\ \/ stop' = TRUE /\ ui' = read /\ read.sawClose
           \/ idle /\ ui' = loop /\ UNCHANGED <<stop, window>>
           \/ ~idle /\ UiSteps(loop)
    BY <1>2, <1>3, <1>5, <1>6 DEF RunUi
  <1>8. /\ main'.pc = after /\ main'.pending = main.pending
        /\ main'.uiFinished = main.uiFinished
    BY <1>1, <1>7 DEF Mains
  <1>9. \/ idle /\ ui' = loop /\ UNCHANGED <<stop, window>>
        \/ ~idle /\ StepUi(loop, presented # NoChunk, FALSE)
    BY <1>7 DEF FileRun, UiSteps
  <1> HIDE DEF loop, read
  <1> USE DEF Ending, PastJoin, PastManager, PastModelLoop, PastUiLoop, PastWindow
  <1>10. /\ presentedFrameCount = ui.drawn + Undrawn /\ ui.drawn = window.writes
         /\ presentedFrameCount \in Nat /\ ui.drawn \in Nat
         /\ presentedFrameCount <= model.frames /\ model.frames \in Nat
    BY <1>1, <1>2, FileFacts, SMTT(20) DEF FileOK, FramesCounted, DrawnOK, Uis, Models
  <1>11. /\ UNCHANGED stop /\ ui'.generation = ui.generation /\ ~ui'.request
         /\ ui'.drawn = presentedFrameCount /\ window'.writes = presentedFrameCount
    <2>1. CASE idle /\ ui' = loop /\ UNCHANGED <<stop, window>>
      <3>1. Undrawn = 0
        <4> SUFFICES ASSUME main.pc \in {"request", "runUi"} /\ presenter.advanced
                     PROVE  FALSE
          BY DEF Undrawn
        <4>1. requested
          BY <1>2 DEF FileOK, DrawnOK
        <4>2. UiFinished(loop)
          BY <2>1, <4>1
        <4>3. loop.drawn = presentedFrameCount
          BY <4>2 DEF UiFinished
        <4>4. Undrawn = 1
          BY DEF Undrawn
        <4> QED
          BY <1>3, <1>10, <4>3, <4>4
      <3> QED
        BY <1>3, <1>10, <2>1, <3>1
    <2>2. CASE ~idle /\ StepUi(loop, presented # NoChunk, FALSE)
      <3>1. /\ main.pc = "runUi" /\ main.stepRequested
            /\ ~UiFinished(loop)
        BY <1>2, <2>2
      <3>2. /\ UNCHANGED stop /\ ui'.generation = ui.generation /\ ~ui'.request
            /\ ui'.drawn = presentedFrameCount
            /\ window' = IF presented # NoChunk
                           THEN [UseWindow(window) EXCEPT
                                   !.writes = IF @ < MaxWrites THEN @ + 1 ELSE @]
                           ELSE window
        BY <1>3, <2>2
      <3>3. CASE presenter.advanced
        <4>1. presented # NoChunk /\ Undrawn = 1
          BY <1>2, <3>1, <3>3 DEF FileOK, DrawnOK, Undrawn
        <4>2. window.writes < MaxWrites /\ window.writes + 1 \in Nat
          BY <1>10, <4>1, BoundsAreNat
        <4>3. UseWindow(window) \in Windows /\ UseWindow(window).writes = window.writes
          BY <1>1 DEF UseWindow, Windows
        <4>4. window' = [UseWindow(window) EXCEPT !.writes = window.writes + 1]
          BY <3>2, <4>1, <4>2, <4>3
        <4>5. window'.writes = window.writes + 1
          BY <4>3, <4>4 DEF Windows
        <4> QED
          BY <1>10, <3>2, <4>1, <4>5
      <3>4. CASE ~presenter.advanced
        <4>1. Undrawn = 0
          BY <3>4 DEF Undrawn
        <4>2. presented = NoChunk \/ (inference = "FINISHED" /\ ~PM!HasPendingFrames)
          BY <3>1, <3>4 DEF FileOK, DrawnOK
        <4>3. presented = NoChunk
          BY <1>3, <1>10, <3>1, <4>1, <4>2 DEF UiFinished, FileRun
        <4> QED
          BY <1>10, <3>2, <4>1, <4>3
      <3> QED
        BY <3>3, <3>4
    <2> QED
      BY <1>9, <2>1, <2>2
  <1>12. ToPresent' = ToPresent /\ Queued' = Queued /\ (PM!HasNextFrame)' = PM!HasNextFrame
         /\ (PM!HasPendingFrames)' = PM!HasPendingFrames
    BY <1>4
       DEF frameVars, ToPresent, Queued, PM!HasNextFrame, PM!HasPendingFrames, ChunkFrames
  <1>13. FramesCounted' /\ ChunksCurrent'
    BY <1>2, <1>4, <1>8, <1>11, <1>12
       DEF FileOK, FramesCounted, ChunksCurrent, frameVars, ChunkFrames
  <1>14. DrawnOK'
    <2>1. Undrawn' = 0
      BY <1>8 DEF Undrawn
    <2> QED
      BY <1>2, <1>4, <1>8, <1>10, <1>11, <1>12, <2>1 DEF FileOK, DrawnOK, frameVars
  <1>15. InferenceOK' /\ EndsWhenShown'
    BY <1>2, <1>4, <1>8, <1>11, <1>12 DEF FileOK, InferenceOK, EndsWhenShown
  <1> QED
    BY <1>13, <1>14, <1>15 DEF FileOK

\* The loop ends only when the model thread is dead and no frame is pending.
LEMMA EndKeepsFile ==
    ASSUME SessionInv, FileOK, FileRun, FileRun', failureQueue = <<>>,
           ShouldEnd \/ DecideEnd \/ SetStop \/ CloseManager
    PROVE  FileOK'
  <1>1. main \in Mains /\ ui \in Uis /\ model \in Models /\ window \in Windows
        /\ stop \in BOOLEAN
    BY FileFacts
  <1> USE DEF Ending, PastJoin, PastManager, PastModelLoop, PastUiLoop, PastWindow
  <1>2. CASE ShouldEnd \/ DecideEnd
    <2>1. /\ UNCHANGED <<frameVars, inference, stop, ui, model, window>>
          /\ main.pc \in {"shouldEnd", "decideEnd"}
      BY <1>2, Zenon
         DEF ShouldEnd, DecideEnd, managerVars, queueVars, modelVars, frameVars
    <2>2. ToPresent' = ToPresent /\ Queued' = Queued
          /\ (PM!HasNextFrame)' = PM!HasNextFrame
          /\ (PM!HasPendingFrames)' = PM!HasPendingFrames
      BY <2>1 DEF frameVars, ToPresent, Queued, PM!HasNextFrame, PM!HasPendingFrames,
                  ChunkFrames
    <2>3. ~stop /\ ~nextSession
      BY <2>1, <1>1 DEF FileOK, EndsWhenShown, SessionInv, ControlInv, PlacesOK, RequestOK
    <2>4. /\ main'.pc \in {"wait", "lastCollect", "decideEnd", "setStop"}
          /\ main'.pc \in {"lastCollect", "decideEnd"} =>
                /\ model.pc = "dead"
                /\ main'.pending <=> PM!HasPendingFrames
                /\ main'.uiFinished => ~main'.pending
          /\ main'.pc = "setStop" => model.pc = "dead" /\ ~PM!HasPendingFrames
      <3>1. CASE ShouldEnd
        <4> DEFINE pending == PM!HasPendingFrames
                   settled == ~pending /\ ~stop /\ ~nextSession
                   uiFinished == settled /\ config.steps = NoLimit /\ UiFinished(ui)
                   place == IF settled /\ (config.steps # NoLimit \/ uiFinished)
                              THEN "lastCollect" ELSE "decideEnd"
        <4>1. \/ Goto("wait")
              \/ /\ model.pc = "dead"
                 /\ main' = [main EXCEPT !.pending = pending, !.uiFinished = uiFinished,
                                         !.pc = place]
          BY <3>1, Zenon DEF ShouldEnd
        <4>2. /\ pending \in BOOLEAN /\ uiFinished \in BOOLEAN
              /\ place \in {"lastCollect", "decideEnd"}
              /\ (uiFinished => ~pending) /\ (pending <=> PM!HasPendingFrames)
          BY <1>1 DEF PM!HasPendingFrames
        <4> HIDE DEF pending, uiFinished, place
        <4> QED
          BY <1>1, <4>1, <4>2 DEF Goto, Mains
      <3>2. CASE DecideEnd
        <4>1. /\ main.pc = "decideEnd" /\ model.pc = "dead"
              /\ main.pending <=> PM!HasPendingFrames
              /\ main.uiFinished => ~main.pending
          BY <3>2 DEF DecideEnd, FileOK, EndsWhenShown
        <4>2. \/ GotoAfresh("wait")
              \/ GotoAfresh("setStop") /\ (main.uiFinished \/ ~main.pending)
          BY <2>3, <3>2 DEF DecideEnd
        <4> QED
          BY <1>1, <4>1, <4>2 DEF GotoAfresh, Mains
      <3> QED
        BY <1>2, <3>1, <3>2
    <2>5. FramesCounted' /\ ChunksCurrent'
      BY <2>1, <2>2, <2>4
         DEF FileOK, FramesCounted, ChunksCurrent, frameVars, ChunkFrames
    <2>6. Undrawn = 0 /\ Undrawn' = 0
      BY <2>1, <2>4 DEF Undrawn
    <2>7. DrawnOK' /\ InferenceOK'
      BY <2>1, <2>2, <2>4, <2>6 DEF FileOK, DrawnOK, InferenceOK, frameVars
    <2>8. ~PM!HasPendingFrames /\ model.pc = "dead" => window.writes = model.frames
      <3> SUFFICES ASSUME ~PM!HasPendingFrames, model.pc = "dead"
                   PROVE  window.writes = model.frames
        OBVIOUS
      <3>1. ToPresent = 0 /\ Queued = 0
        BY FileFacts DEF PM!HasPendingFrames, PM!HasNextFrame, ToPresent, Queued
      <3>2. /\ ChunkFrames(presenter.selected) = 0
            /\ ChunkFrames(publisher.chunk) = 0
        BY <2>1, FileFacts DEF ChunkFrames
      <3>3. model.frames = presentedFrameCount + ToPresent + Queued
               + ChunkFrames(presenter.selected) + ChunkFrames(publisher.chunk)
        BY <2>1 DEF FileOK, FramesCounted
      <3>4. presentedFrameCount = window.writes + Undrawn
        BY <2>1 DEF FileOK, DrawnOK
      <3>5. presentedFrameCount \in Nat /\ window.writes \in Nat
        BY <1>1, FileFacts DEF Windows
      <3> QED
        BY <2>6, <3>1, <3>2, <3>3, <3>4, <3>5
    <2>9. EndsWhenShown'
      BY <1>1, <2>1, <2>2, <2>3, <2>4, <2>8 DEF EndsWhenShown
    <2> QED
      BY <2>5, <2>7, <2>9 DEF FileOK
  <1>3. CASE SetStop
    <2>1. /\ UNCHANGED <<frameVars, inference, ui, model, window>>
          /\ main.pc = "setStop" /\ Goto("join")
      BY <1>3, Zenon DEF SetStop, managerVars, queueVars, modelVars, frameVars
    <2>2. main'.pc = "join"
      BY <1>1, <2>1 DEF Goto, Mains
    <2>3. (PM!HasNextFrame)' = PM!HasNextFrame
      BY <2>1 DEF frameVars, PM!HasNextFrame
    <2>4. FramesCounted' /\ ChunksCurrent' /\ DrawnOK'
      BY <2>1, <2>2, <2>3 DEF FileOK, FramesCounted, ChunksCurrent, DrawnOK, frameVars
    <2>5. InferenceOK' /\ EndsWhenShown'
      BY <2>1, <2>2 DEF FileOK, InferenceOK, EndsWhenShown
    <2> QED
      BY <2>4, <2>5 DEF FileOK
  <1>4. CASE CloseManager
    <2>1. /\ UNCHANGED <<generation, publisher, presenter, inference, stop, ui, model,
                         window>>
          /\ main.pc = "closeManager" /\ Goto("closeModelLoop")
          /\ buffered' = <<>> \/ UNCHANGED buffered
      BY <1>4 DEF CloseManager, Cleanup, PM!Close, queueVars, modelVars
    <2>2. main'.pc = "closeModelLoop"
      BY <1>1, <2>1 DEF Goto, Mains
    <2>3. presenter.pc = "idle" /\ presenter.selected = NoChunk
      BY <2>1, FileFacts
    <2>4. FramesCounted' /\ ChunksCurrent' /\ DrawnOK'
      BY <2>1, <2>2, <2>3 DEF FileOK, FramesCounted, ChunksCurrent, DrawnOK
    <2>5. InferenceOK' /\ EndsWhenShown'
      BY <2>1, <2>2 DEF FileOK, InferenceOK, EndsWhenShown
    <2> QED
      BY <2>4, <2>5 DEF FileOK
  <1> QED
    BY <1>2, <1>3, <1>4

\* The model thread adds what it publishes to the count, and nothing else does.
LEMMA ModelKeepsFile ==
    ASSUME SessionInv, FileOK, FileRun, FileRun', UNCHANGED errors, ModelThread
    PROVE  FileOK'
  <1>1. main \in Mains /\ ui \in Uis /\ model \in Models /\ stop \in BOOLEAN
    BY FileFacts
  <1>2. UNCHANGED <<main, ui, window, stop>>
    BY ModelLeavesMain, Zenon DEF mainSide
  <1>3. /\ model.pc \notin {"off", "dead"} /\ main.pc \notin Ending
        /\ main.pc \notin {"lastCollect", "lastRun", "decideEnd"} /\ ~stop
    <2>1. model.pc \notin {"off", "dead"}
      BY <1>1, ModelMoves
    <2> QED
      BY <1>1, <2>1 DEF FileOK, EndsWhenShown
  <1>4. ~(\E f, pc : ModelRaises(f, pc))
    <2> SUFFICES ASSUME NEW f, NEW pc, ModelRaises(f, pc)
                 PROVE  FALSE
      OBVIOUS
    <2>1. errors \in [raised : SUBSET Failures, main : Failures \cup {Nothing},
                      cleanup : Seq(Failures)]
      BY DEF SessionInv, ErrorsOK, FailuresOK
    <2>2. errors'.raised = errors.raised \cup {f}
      BY <2>1 DEF ModelRaises
    <2> QED
      BY <2>2 DEF FileRun
  <1>5. EndsWhenShown'
    BY <1>2, <1>3 DEF EndsWhenShown
  <1>6. ASSUME UNCHANGED frameVars,
               model'.frames = model.frames, model'.generation = 0,
               model'.pc \in {"check", "read", "admit", "step", "exit"}
                  => inference' = "RUNNING",
               model'.pc \in {"shutdown", "dead"} => inference' = "FINISHED",
               model'.pc \in {"check", "read", "admit", "step", "exit", "shutdown", "dead"},
               inference = "FINISHED" => inference' = "FINISHED"
        PROVE  FileOK'
    <2>1. ToPresent' = ToPresent /\ Queued' = Queued
          /\ (PM!HasNextFrame)' = PM!HasNextFrame
          /\ (PM!HasPendingFrames)' = PM!HasPendingFrames /\ Undrawn' = Undrawn
      BY <1>2, <1>6 DEF ToPresent, Queued, PM!HasNextFrame, PM!HasPendingFrames,
                        ChunkFrames, frameVars, Undrawn
    <2>2. FramesCounted' /\ ChunksCurrent' /\ DrawnOK'
      BY <1>2, <1>6, <2>1
         DEF FileOK, FramesCounted, ChunksCurrent, DrawnOK, frameVars, ChunkFrames
    <2>3. InferenceOK'
      BY <1>6 DEF InferenceOK
    <2> QED
      BY <1>5, <2>2, <2>3 DEF FileOK
  <1>7. model.generation = 0
        /\ (model.pc \in {"check", "read", "admit", "step", "publish", "exit"}
              => inference = "RUNNING")
        /\ (model.pc = "shutdown" => inference = "FINISHED")
    BY <1>1 DEF FileOK, ChunksCurrent, InferenceOK, SessionInv, ControlInv, PlacesOK, Types
  <1> USE DEF queueVars, frameVars
  <1>8. CASE ModelStart
    <2>1. UNCHANGED frameVars /\ inference' = "RUNNING" /\ ModelGoto("check")
          /\ model.pc = "started"
      BY <1>8, Zenon DEF ModelStart
    <2>2. model'.frames = model.frames /\ model'.generation = 0 /\ model'.pc = "check"
      BY <1>1, <1>7, <2>1 DEF ModelGoto, Models
    <2>3. inference # "FINISHED"
      BY <2>1 DEF FileOK, InferenceOK
    <2> QED
      BY <1>6, <2>1, <2>2, <2>3
  <1>9. CASE ModelCheck \/ ModelAdmit
    <2>1. UNCHANGED <<frameVars, inference>> /\ model.pc \in {"check", "admit"}
          /\ \E pc \in {"exit", "read", "step"} : ModelGoto(pc)
      BY <1>9 DEF ModelCheck, ModelAdmit
    <2>2. model'.frames = model.frames /\ model'.generation = 0
          /\ model'.pc \in {"exit", "read", "step"}
      BY <1>1, <1>7, <2>1 DEF ModelGoto, Models
    <2> QED
      BY <1>6, <1>7, <2>1, <2>2
  <1>10. CASE ModelRead
    <2>1. UNCHANGED <<frameVars, inference>> /\ model.pc = "read" /\ EB!Read(ModelReader)
      BY <1>10, Zenon DEF ModelRead
    <2>2. lastRead'[ModelReader].generation = 0
      BY <2>1, ReadFacts DEF SessionInv, ControlInv, Readers, FileRun
    <2>3. \/ model' = [model EXCEPT !.pc = "exit"]
          \/ \E pc \in {"exit", "admit"} :
                model' = [[model EXCEPT !.generation = 0] EXCEPT !.pc = pc]
      BY <1>4, <1>10, <2>2 DEF ModelRead
    <2>4. model'.frames = model.frames /\ model'.generation = 0
          /\ model'.pc \in {"exit", "admit"}
      BY <1>1, <1>7, <2>3 DEF Models
    <2> QED
      BY <1>6, <1>7, <2>1, <2>4
  <1>11. CASE ModelStep
    <2>1. model.pc = "step" /\ UNCHANGED inference
      BY <1>11, Zenon DEF ModelStep
    <2>2. CASE /\ model' = [model EXCEPT !.pc = "check", !.steps = @ + 1]
               /\ UNCHANGED queueVars
      <3>1. model'.frames = model.frames /\ model'.generation = 0 /\ model'.pc = "check"
        BY <1>1, <1>7, <2>2 DEF Models
      <3> QED
        BY <1>6, <1>7, <2>1, <2>2, <3>1
    <2>3. ASSUME NEW frames \in FrameCounts,
                 PM!PublishBegin(model.generation, frames),
                 model' = [model EXCEPT !.pc = "publish", !.frames = @ + frames]
          PROVE  FileOK'
      <3>1. /\ UNCHANGED <<presented, frameIndex, presentedFrameCount, buffered, presenter,
                           generation>>
            /\ publisher.pc = "idle"
            /\ publisher'.chunk = [generation |-> 0, serial |-> Len(published) + 1,
                                   frames |-> frames]
        BY <1>7, <2>3 DEF PM!PublishBegin, PM!presenterVars
      <3>2. /\ model'.frames = model.frames + frames /\ model'.generation = 0
            /\ model'.pc = "publish" /\ frames \in Nat
        BY <1>1, <1>7, <2>3, FrameCountsArePositive DEF Models
      <3>3. publisher'.chunk # NoChunk
        <4>1. Len(published) \in Nat
          BY ManagerTheorems DEF SessionInv, ControlInv, PM!TypeOK
        <4> QED
          BY <3>1, <4>1, NoChunkIsNoChunk
      <3>4. ChunkFrames(publisher'.chunk) = frames /\ ChunkFrames(publisher.chunk) = 0
        BY <3>1, <3>3, FileFacts DEF ChunkFrames
      <3>5. ToPresent' = ToPresent /\ Queued' = Queued
            /\ (PM!HasNextFrame)' = PM!HasNextFrame
            /\ (PM!HasPendingFrames)' = PM!HasPendingFrames /\ Undrawn' = Undrawn
            /\ ChunkFrames(presenter'.selected) = ChunkFrames(presenter.selected)
        BY <1>2, <3>1 DEF ToPresent, Queued, PM!HasNextFrame, PM!HasPendingFrames,
                          ChunkFrames, Undrawn
      <3>6. FramesCounted'
        <4>1. /\ presentedFrameCount \in Nat /\ ToPresent \in Nat /\ Queued \in Nat
              /\ ChunkFrames(presenter.selected) \in Nat /\ model.frames \in Nat
          BY <1>1, FileFacts DEF Models
        <4>2. model.frames = presentedFrameCount + ToPresent + Queued
                 + ChunkFrames(presenter.selected) + ChunkFrames(publisher.chunk)
          BY <1>3 DEF FileOK, FramesCounted
        <4>3. presentedFrameCount' = presentedFrameCount
          BY <3>1
        <4>4. model'.frames = presentedFrameCount' + ToPresent' + Queued'
                 + ChunkFrames(presenter'.selected) + ChunkFrames(publisher'.chunk)
          BY <3>2, <3>4, <3>5, <4>1, <4>2, <4>3
        <4> QED
          BY <4>4 DEF FramesCounted
      <3>7. ChunksCurrent' /\ DrawnOK'
        BY <1>2, <2>1, <3>1, <3>2, <3>5 DEF FileOK, ChunksCurrent, DrawnOK
      <3>8. InferenceOK'
        BY <1>7, <2>1, <3>2 DEF InferenceOK
      <3> QED
        BY <1>5, <3>6, <3>7, <3>8 DEF FileOK
    <2> QED
      BY <1>4, <1>11, <2>2, <2>3, Zenon DEF ModelStep
  <1>12. CASE ModelPublish
    <2>1. model.pc = "publish" /\ UNCHANGED <<model, inference>> /\ PM!PublishStep
      BY <1>12, Zenon DEF ModelPublish, modelVars
    <2>2. publisher.pc # "idle" /\ publisher.chunk # NoChunk
      BY <2>1, FileFacts DEF PM!PublishStep, PM!CheckStop, PM!Put, PM!PutTimeout,
                             PM!PutNowait, PM!Evict
    <2>3. publisher.pc \in {"checkStop", "put"} /\ publisher \in PM!Publishers
      <3>1. PM!TypeOK /\ PMP!HandsOK
        BY ManagerTheorems DEF SessionInv, ControlInv, PMP!ManagerInv
      <3> QED
        BY <2>2, <3>1 DEF PM!TypeOK, PM!Publishers, PMP!HandsOK, FileRun
    <2>4. /\ UNCHANGED <<presented, frameIndex, presentedFrameCount, presenter, generation>>
          /\ \/ \E pc : PM!PublisherAt(pc) /\ UNCHANGED buffered
             \/ PM!PublisherDone /\ buffered' = Append(buffered, publisher.chunk)
                /\ Len(buffered) < 1
      <3>1. CASE PM!CheckStop
        BY <1>3, <3>1 DEF PM!CheckStop, PM!presenterVars
      <3>2. CASE PM!Put
        <4>1. Len(buffered) \in Nat
          BY ManagerTheorems DEF SessionInv, ControlInv, PM!TypeOK
        <4> QED
          BY <3>2, <4>1 DEF PM!Put, PM!Enqueue, PM!presenterVars, PM!IsBacklogged
      <3>3. CASE PM!PutTimeout
        BY <3>3 DEF PM!PutTimeout, PM!presenterVars
      <3> QED
        BY <2>1, <2>3, <3>1, <3>2, <3>3 DEF PM!PublishStep, PM!PutNowait, PM!Evict
    <2>5. InferenceOK'
      BY <2>1 DEF FileOK, InferenceOK
    <2>6. ToPresent' = ToPresent
          /\ (PM!HasNextFrame)' = PM!HasNextFrame /\ Undrawn' = Undrawn
          /\ ChunkFrames(presenter'.selected) = ChunkFrames(presenter.selected)
      BY <1>2, <2>4 DEF ToPresent, PM!HasNextFrame, ChunkFrames, Undrawn
    <2>7. DrawnOK'
      BY <1>2, <1>7, <2>1, <2>4, <2>6 DEF FileOK, DrawnOK
    <2>8. /\ Queued' + ChunkFrames(publisher'.chunk) = Queued + ChunkFrames(publisher.chunk)
          /\ Queued' \in Nat /\ ChunkFrames(publisher'.chunk) \in Nat
          /\ publisher'.chunk # NoChunk => publisher'.chunk.generation = 0
          /\ buffered' # <<>> => buffered'[1].generation = 0
      <3>1. ASSUME NEW pc, PM!PublisherAt(pc), UNCHANGED buffered
            PROVE  /\ Queued' = Queued /\ publisher'.chunk = publisher.chunk
                   /\ buffered' # <<>> => buffered'[1].generation = 0
        BY <2>3, <3>1 DEF PM!PublisherAt, PM!Publishers, Queued, ChunkFrames, FileOK,
                          ChunksCurrent
      <3>2. ASSUME PM!PublisherDone, buffered' = Append(buffered, publisher.chunk),
                   Len(buffered) < 1
            PROVE  /\ Queued = 0 /\ Queued' = ChunkFrames(publisher.chunk)
                   /\ publisher'.chunk = NoChunk /\ buffered'[1] = publisher.chunk
        <4>1. buffered = <<>>
          <5>1. buffered \in Seq(PM!Chunks)
            BY ManagerTheorems DEF SessionInv, ControlInv, PM!TypeOK
          <5> QED
            BY <3>2, <5>1, EmptySeq
        <4>2. buffered' = <<publisher.chunk>>
          BY <3>2, <4>1
        <4> QED
          BY <3>2, <4>1, <4>2 DEF PM!PublisherDone, Queued, ChunkFrames
      <3>3. ChunkFrames(NoChunk) = 0
        BY DEF ChunkFrames
      <3> QED
        BY <2>2, <2>4, <3>1, <3>2, <3>3, FileFacts DEF FileOK, ChunksCurrent
    <2>9. ChunksCurrent'
      BY <1>2, <2>1, <2>4, <2>6, <2>8 DEF FileOK, ChunksCurrent
    <2>10. FramesCounted'
      <3>1. /\ presentedFrameCount \in Nat /\ ToPresent \in Nat /\ Queued \in Nat
            /\ ChunkFrames(presenter.selected) \in Nat
            /\ ChunkFrames(publisher.chunk) \in Nat
        BY FileFacts
      <3>2. model.frames = presentedFrameCount + ToPresent + Queued
               + ChunkFrames(presenter.selected) + ChunkFrames(publisher.chunk)
        BY <1>3 DEF FileOK, FramesCounted
      <3>3. presentedFrameCount' = presentedFrameCount /\ model'.frames = model.frames
        BY <2>1, <2>4
      <3>4. model'.frames = presentedFrameCount' + ToPresent' + Queued'
               + ChunkFrames(presenter'.selected) + ChunkFrames(publisher'.chunk)
        <4>1. /\ ToPresent' = ToPresent
              /\ ChunkFrames(presenter'.selected) = ChunkFrames(presenter.selected)
              /\ Queued' + ChunkFrames(publisher'.chunk)
                    = Queued + ChunkFrames(publisher.chunk)
              /\ Queued' \in Nat /\ ChunkFrames(publisher'.chunk) \in Nat
          BY <2>6, <2>8
        <4> QED
          BY <3>1, <3>2, <3>3, <4>1
      <3> QED
        BY <3>4 DEF FramesCounted
    <2> QED
      BY <1>5, <2>5, <2>7, <2>9, <2>10 DEF FileOK
  <1>13. CASE ModelPublished
    <2>1. UNCHANGED <<frameVars, inference>> /\ model.pc = "publish"
          /\ model' = [model EXCEPT !.pc = "check", !.steps = @ + 1]
      BY <1>4, <1>13, Zenon DEF ModelPublished
    <2>2. model'.frames = model.frames /\ model'.generation = 0 /\ model'.pc = "check"
      BY <1>1, <1>7, <2>1 DEF Models
    <2> QED
      BY <1>6, <1>7, <2>1, <2>2
  <1>14. CASE ModelExit
    <2>1. UNCHANGED frameVars /\ inference' = "FINISHED" /\ ModelGoto("shutdown")
          /\ model.pc = "exit"
      BY <1>14, Zenon DEF ModelExit
    <2>2. model'.frames = model.frames /\ model'.generation = 0 /\ model'.pc = "shutdown"
      BY <1>1, <1>7, <2>1 DEF ModelGoto, Models
    <2> QED
      BY <1>6, <2>1, <2>2
  <1>15. CASE ModelShutdown
    <2>1. UNCHANGED <<frameVars, inference>> /\ model.pc = "shutdown"
          /\ model' = [model EXCEPT !.closes = @ + 1, !.pc = "dead"]
      BY <1>15, Zenon DEF ModelShutdown
    <2>2. model'.frames = model.frames /\ model'.generation = 0 /\ model'.pc = "dead"
      BY <1>1, <1>7, <2>1 DEF Models
    <2> QED
      BY <1>6, <1>7, <2>1, <2>2
  <1> QED
    BY <1>8, <1>9, <1>10, <1>11, <1>12, <1>13, <1>14, <1>15 DEF ModelThread

\* One step generates at most K frames.
FramesBounded(K) ==
    model.frames <= K * (model.steps + (IF model.pc = "publish" THEN 1 ELSE 0))

LEMMA Products ==
    ASSUME NEW K \in Nat, NEW m \in Nat, NEW n \in Nat
    PROVE  /\ K * m \in Nat /\ K * (m + 1) = K * m + K
           /\ m <= n => K * m <= K * n
  <1>1. K * m \in Nat /\ K * (m + 1) = K * m + K
    BY SMT
  <1>2. ASSUME m <= n
        PROVE  K * m <= K * n
    <2>1. PICK d \in Nat : n = m + d
      <3>1. n - m \in Nat /\ n = m + (n - m)
        BY <1>2
      <3> QED
        BY <3>1
    <2>2. K * n = K * m + K * d /\ K * d \in Nat
      BY <2>1, SMT
    <2> QED
      BY <1>1, <2>2
  <1> QED
    BY <1>1, <1>2

\* A run that nothing has failed in keeps to the bound.
LEMMA BoundKept ==
    ASSUME NEW K \in Nat, \A f \in FrameCounts : f <= K,
           SessionInv, FramesBounded(K), FileRun', UNCHANGED errors, [Next]_sessionVars
    PROVE  FramesBounded(K)'
  <1>1. main \in Mains /\ model \in Models /\ model.steps \in Nat
    BY FileFacts, BoundsAreNat DEF Models
  <1>2. K * model.steps \in Nat /\ K * (model.steps + 1) = K * model.steps + K
    BY <1>1, Products
  <1>3. K * (model.steps + 0) = K * model.steps
    BY <1>1
  <1>4. ~(\E f, pc : ModelRaises(f, pc))
    <2> SUFFICES ASSUME NEW f, NEW pc, ModelRaises(f, pc)
                 PROVE  FALSE
      OBVIOUS
    <2>1. errors \in [raised : SUBSET Failures, main : Failures \cup {Nothing},
                      cleanup : Seq(Failures)]
      BY DEF SessionInv, ErrorsOK, FailuresOK
    <2>2. errors'.raised = errors.raised \cup {f}
      BY <2>1 DEF ModelRaises
    <2> QED
      BY <2>2 DEF FileRun
  <1>5. ASSUME model'.frames = model.frames, model'.steps = model.steps,
               model'.pc = "publish" <=> model.pc = "publish"
        PROVE  FramesBounded(K)'
    BY <1>5 DEF FramesBounded
  <1>6. CASE MainThread
    <2>1. CASE model' = model
      BY <1>5, <2>1
    <2>2. CASE Launch /\ model' = [model EXCEPT !.pc = "started"]
      <3>1. model.pc = "off"
        BY <2>2 DEF Launch, SessionInv, ControlInv, PlacesOK, ThreadsOK
      <3> QED
        BY <1>1, <1>5, <2>2, <3>1 DEF Models
    <2>3. CASE model' = [model EXCEPT !.closes = @ + 1]
      BY <1>1, <1>5, <2>3 DEF Models
    <2> QED
      BY <1>1, <1>6, <2>1, <2>2, <2>3, MainMoves
  <1>7. CASE DeadlinePasses \/ Finished \/ UNCHANGED sessionVars
    BY <1>5, <1>7 DEF DeadlinePasses, Finished, sessionVars, modelVars
  <1>8. CASE ModelThread
    <2>1. CASE \E pc \in ModelPlaces \ {"publish"} : ModelGoto(pc) /\ model.pc # "publish"
      BY <1>1, <1>5, <2>1 DEF ModelGoto, Models
    <2>2. CASE model' = model
      BY <1>5, <2>2
    <2>3. CASE model' = [model EXCEPT !.pc = "check", !.steps = @ + 1]
      <3>1. /\ model'.frames = model.frames /\ model'.steps = model.steps + 1
            /\ model'.pc = "check" /\ model.frames \in Nat
        BY <1>1, <2>3 DEF Models
      <3>2. model.frames <= K * (model.steps + 1)
        BY <1>1, <1>2, <1>3, <3>1 DEF FramesBounded
      <3>3. K * (model'.steps + 0) = K * (model.steps + 1)
        BY <1>1, <3>1
      <3> QED
        BY <3>1, <3>2, <3>3 DEF FramesBounded
    <2>4. ASSUME NEW f \in FrameCounts, model.pc = "step",
                 model' = [model EXCEPT !.pc = "publish", !.frames = @ + f]
          PROVE  FramesBounded(K)'
      <3>1. /\ model'.frames = model.frames + f /\ model'.steps = model.steps
            /\ model'.pc = "publish" /\ model.frames \in Nat /\ f \in Nat /\ f <= K
        BY <1>1, <2>4, FrameCountsArePositive DEF Models
      <3>2. model.frames <= K * model.steps
        BY <1>3, <2>4 DEF FramesBounded
      <3>3. model.frames + f <= K * (model.steps + 1)
        BY <1>2, <3>1, <3>2
      <3> QED
        BY <3>1, <3>3 DEF FramesBounded
    <2>5. CASE model' = [model EXCEPT !.closes = @ + 1, !.pc = "dead"]
               /\ model.pc = "shutdown"
      BY <1>1, <1>5, <2>5 DEF Models
    <2>6. CASE ModelStart \/ ModelCheck \/ ModelAdmit \/ ModelExit
      BY <2>1, <2>6 DEF ModelStart, ModelCheck, ModelAdmit, ModelExit, ModelPlaces,
                        Running
    <2>7. CASE ModelRead
      <3>1. \/ model' = [model EXCEPT !.pc = "exit"]
            \/ \E pc \in {"exit", "admit"} : model' =
                  [[model EXCEPT !.generation = lastRead'[ModelReader].generation]
                     EXCEPT !.pc = pc]
        BY <1>4, <2>7 DEF ModelRead
      <3>2. model.pc = "read"
        BY <2>7 DEF ModelRead
      <3>3. /\ model'.frames = model.frames /\ model'.steps = model.steps
            /\ model'.pc \in {"exit", "admit"}
        BY <1>1, <3>1 DEF Models
      <3> QED
        BY <1>5, <3>2, <3>3
    <2>8. CASE ModelStep
      BY <1>4, <2>3, <2>4, <2>8, Zenon DEF ModelStep
    <2>9. CASE ModelPublish
      BY <2>2, <2>9, Zenon DEF ModelPublish, modelVars
    <2>10. CASE ModelPublished
      BY <1>4, <2>3, <2>10, Zenon DEF ModelPublished
    <2>11. CASE ModelShutdown
      BY <2>5, <2>11, Zenon DEF ModelShutdown
    <2> QED
      BY <1>8, <2>6, <2>7, <2>8, <2>9, <2>10, <2>11 DEF ModelThread
  <1> QED
    BY <1>6, <1>7, <1>8 DEF Next

LEMMA InitFile ==
    ASSUME Init, NEW K \in Nat
    PROVE  FileOK /\ FramesBounded(K)
  <1>1. /\ main = [pc |-> "init", startup |-> TRUE, registered |-> FALSE,
                   stepRequested |-> FALSE, pending |-> FALSE, uiFinished |-> FALSE]
        /\ ui = [generation |-> 0, request |-> FALSE, drawn |-> 0, sawClose |-> FALSE,
                 closes |-> 0]
        /\ model = [pc |-> "off", generation |-> 0, steps |-> 0, frames |-> 0,
                    closes |-> 0]
        /\ inference = "NOT_STARTED" /\ window.writes = 0
    BY DEF Init
  <1>2. /\ presented = NoChunk /\ frameIndex = -1 /\ presentedFrameCount = 0
        /\ buffered = <<>> /\ generation = 0 /\ stop = FALSE
        /\ publisher.chunk = NoChunk /\ presenter.selected = NoChunk
        /\ presenter.pc = "idle"
    BY DEF Init, PM!Init
  <1>3. ToPresent = 0 /\ Queued = 0 /\ Undrawn = 0 /\ ChunkFrames(NoChunk) = 0
    BY <1>1, <1>2 DEF ToPresent, Queued, Undrawn, ChunkFrames
  <1>4. FramesCounted /\ ChunksCurrent /\ DrawnOK
    BY <1>1, <1>2, <1>3 DEF FramesCounted, ChunksCurrent, DrawnOK, PM!HasNextFrame
  <1>5. InferenceOK /\ EndsWhenShown
    BY <1>1, <1>2 DEF InferenceOK, EndsWhenShown, Ending, PastJoin, PastManager,
                      PastModelLoop, PastUiLoop, PastWindow
  <1>6. FramesBounded(K)
    BY <1>1 DEF FramesBounded
  <1> QED
    BY <1>4, <1>5, <1>6 DEF FileOK

LEMMA NextFile ==
    ASSUME NEW K \in Nat, \A f \in FrameCounts : f <= K, K * MaxSteps <= MaxWrites,
           SessionInv, FileRun => FileOK /\ FramesBounded(K), [Next]_sessionVars
    PROVE  (FileRun => FileOK /\ FramesBounded(K))'
  <1> SUFFICES ASSUME FileRun'
               PROVE  FileOK' /\ FramesBounded(K)'
    OBVIOUS
  <1>1. FileRun /\ UNCHANGED errors /\ failureQueue = <<>>
    BY FileRunMoves
  <1>2. FileOK /\ FramesBounded(K)
    BY <1>1
  <1>3. model.frames <= MaxWrites
    <2>1. /\ model \in Models /\ model.steps \in 0 .. MaxSteps /\ model.steps \in Nat
          /\ model.pc = "publish" => model.steps < MaxSteps
      BY FileFacts, BoundsAreNat DEF Models, SessionInv, ControlInv, PlacesOK, ThreadsOK
    <2>2. model.frames <= K * MaxSteps
      <3>1. PICK n \in Nat : n <= MaxSteps /\ model.frames <= K * n
        BY <1>2, <2>1, BoundsAreNat DEF FramesBounded
      <3>2. K * n <= K * MaxSteps /\ K * n \in Nat /\ K * MaxSteps \in Nat
        BY <3>1, Products, BoundsAreNat
      <3>3. model.frames \in Nat
        BY <2>1 DEF Models
      <3> QED
        BY <3>1, <3>2, <3>3
    <2>3. model.frames \in Nat /\ K * MaxSteps \in Nat
      BY <2>1, Products, BoundsAreNat DEF Models
    <2> QED
      BY <2>2, <2>3, BoundsAreNat
  <1>4. FramesBounded(K)'
    BY <1>1, <1>2, BoundKept
  <1>5. CASE StillStep
    BY <1>1, <1>2, <1>4, <1>5, CallsKeepFile
  <1>6. CASE TickUi \/ RequestStep
    BY <1>1, <1>2, <1>4, <1>6, TickKeepsFile
  <1>7. CASE Advance
    BY <1>1, <1>2, <1>4, <1>7, AdvanceKeepsFile
  <1>8. CASE RunTickUi \/ LastRun
    BY <1>1, <1>2, <1>3, <1>4, <1>8, RunUiKeepsFile
  <1>9. CASE ShouldEnd \/ DecideEnd \/ SetStop \/ CloseManager
    BY <1>1, <1>2, <1>4, <1>9, EndKeepsFile
  <1>10. CASE ModelThread
    BY <1>1, <1>2, <1>4, <1>10, ModelKeepsFile
  <1>11. CASE Finished \/ UNCHANGED sessionVars
    <2>1. UNCHANGED <<managerVars, stop, main, ui, window, model, inference>>
      BY <1>11 DEF Finished, sessionVars, modelVars
    <2>2. ToPresent' = ToPresent /\ Queued' = Queued /\ Undrawn' = Undrawn
          /\ (PM!HasNextFrame)' = PM!HasNextFrame
          /\ (PM!HasPendingFrames)' = PM!HasPendingFrames
      BY <2>1 DEF managerVars, queueVars, ToPresent, Queued, Undrawn, PM!HasNextFrame,
                  PM!HasPendingFrames, ChunkFrames
    <2>3. FramesCounted' /\ ChunksCurrent' /\ DrawnOK'
      BY <1>2, <2>1, <2>2 DEF FileOK, FramesCounted, ChunksCurrent, DrawnOK, managerVars,
                              queueVars
    <2>4. InferenceOK' /\ EndsWhenShown'
      BY <1>2, <2>1, <2>2 DEF FileOK, InferenceOK, EndsWhenShown
    <2> QED
      BY <1>4, <2>3, <2>4 DEF FileOK
  <1>12. CASE DeadlinePasses
    BY <1>12 DEF DeadlinePasses, FileRun
  <1> QED
    BY <1>4, <1>5, <1>6, <1>7, <1>8, <1>9, <1>10, <1>11, <1>12
       DEF Next, MainThread, StillStep

(***************************************************************************)
(* A run for files that nobody stops writes every generated frame to the   *)
(* window exactly once, whatever the chunks' sizes, the steps and how the  *)
(* two threads interleave.  The count of writes must not stop before the   *)
(* frames that the model can generate have been written.                   *)
(***************************************************************************)
THEOREM FileRunAlwaysComplete ==
    ASSUME NEW K \in Nat, \A f \in FrameCounts : f <= K, K * MaxSteps <= MaxWrites
    PROVE  Spec => []FileRunWritesEveryFrame
  <1>1. Init => (FileRun => FileOK /\ FramesBounded(K))
    BY InitFile
  <1>2. SessionInv /\ (FileRun => FileOK /\ FramesBounded(K)) /\ [Next]_sessionVars
           => (FileRun => FileOK /\ FramesBounded(K))'
    BY NextFile
  <1>3. SessionInv /\ (FileRun => FileOK /\ FramesBounded(K)) => FileRunWritesEveryFrame
    <2> SUFFICES ASSUME SessionInv, FileRun => FileOK,
                        Done, outcome = "ended",
                        config.ui = "blit", mode = "BLOCK",
                        config.presentation = "ON_DEMAND",
                        current = 0, ~ui.sawClose, deadline # "passed"
                 PROVE  window.writes = model.frames
      BY DEF FileRunWritesEveryFrame
    <2>1. errors.raised = {}
      <3>1. ~NothingFailed => Primary \in Failures
        BY PrimaryFails DEF SessionInv, ErrorsOK
      <3> QED
        BY <3>1 DEF SessionInv, ErrorsOK, FailuresOK, Failures
    <2> QED
      BY <2>1 DEF FileRun, FileOK, EndsWhenShown, Done, Ending, PastJoin, PastManager,
                  PastModelLoop, PastUiLoop, PastWindow
  <1> QED
    BY SessionInvHolds, <1>1, <1>2, <1>3, PTL DEF Spec
=============================================================================
