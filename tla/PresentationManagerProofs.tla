---------------------- MODULE PresentationManagerProofs ----------------------
(***************************************************************************)
(* The presentation manager loses no chunk, keeps its promise to a         *)
(* blocking session, presents nothing stale and shows frames in order, for *)
(* every queue capacity, every size of the chunks and every number.        *)
(***************************************************************************)
EXTENDS PresentationManager, SequenceTheorems, TLAPS

\* What each thread may hold at each place inside publish and advance.
HandsOK ==
    /\ publisher.pc = "idle" <=> publisher.chunk = NoChunk
    /\ publisher.pc \in {"checkStop", "put"} => mode = "BLOCK"
    /\ publisher.pc \in {"checkStopLatest", "putNowait", "evict"}
          => mode = "DROP_OLDEST"
    /\ presenter.pc \in {"idle", "isDue"} => presenter.selected = NoChunk
    /\ presenter.pc = "take" /\ mode = "BLOCK" => presenter.selected = NoChunk
    /\ presenter.pc = "mark" /\ presenter.selected = NoChunk => HasNextFrame
    /\ presenter.selected # NoChunk => presenter.selected.generation = generation

\* The inductive invariant: neither the accounting nor the promise of BLOCK nor
\* the freshness of the presented chunk is inductive without HandsOK.
ManagerInv == /\ TypeOK /\ HandsOK
              /\ ChunksAccounted /\ BlockDropsNothing /\ NothingStalePresented

\* A chunk taken from the head of the queue.
LEMMA QueueTail ==
  ASSUME NEW S, NEW q \in Seq(S), q # <<>>
  PROVE  /\ Head(q) \in S /\ Tail(q) \in Seq(S)
         /\ Len(q) \in Nat \ {0} /\ Len(Tail(q)) = Len(q) - 1
  <1>1. Len(q) \in Nat /\ Len(q) # 0
    BY EmptySeq
  <1> QED BY <1>1, HeadTailProperties

\* A chunk put at the end of the queue.
LEMMA QueueAppend ==
  ASSUME NEW S, NEW q \in Seq(S), NEW e \in S
  PROVE  Append(q, e) \in Seq(S) /\ Len(Append(q, e)) = Len(q) + 1
  BY AppendProperties

\* Where a thread goes, and what it takes along.
LEMMA PublisherMoves ==
  ASSUME publisher \in Publishers
  PROVE  /\ PublisherDone => /\ publisher' \in Publishers
                             /\ publisher'.pc = "idle" /\ publisher'.chunk = NoChunk
         /\ \A pc \in {"checkStop", "put", "checkStopLatest", "putNowait", "evict"} :
               PublisherAt(pc) => /\ publisher' \in Publishers
                                  /\ publisher'.pc = pc
                                  /\ publisher'.chunk = publisher.chunk
  BY DEF Publishers, PublisherDone, PublisherAt

\* advance returns.
LEMMA PresenterDoneMoves ==
  ASSUME NEW advanced \in BOOLEAN, PresenterDone(advanced)
  PROVE  /\ presenter' \in Presenters
         /\ presenter'.pc = "idle" /\ presenter'.selected = NoChunk
  BY DEF Presenters, PresenterDone

\* advance goes to another place.
LEMMA PresenterMoves ==
  ASSUME presenter \in Presenters, NEW pc \in {"isDue", "take", "mark"},
         presenter' = [presenter EXCEPT !.pc = pc]
  PROVE  /\ presenter' \in Presenters
         /\ presenter'.pc = pc /\ presenter'.selected = presenter.selected
  BY DEF Presenters

\* advance holds a chunk it has just taken from the queue.
LEMMA PresenterSelects ==
  ASSUME presenter \in Presenters, NEW pc \in {"take", "mark"}, NEW chunk \in Chunks,
         presenter' = [presenter EXCEPT !.selected = chunk, !.pc = pc]
  PROVE  /\ presenter' \in Presenters
         /\ presenter'.pc = pc /\ presenter'.selected = chunk
  BY DEF Presenters

\* What is in the two hands, as numbers.
LEMMA Hands ==
  ASSUME TypeOK
  PROVE  /\ publisher.chunk \in Chunks \cup {NoChunk}
         /\ presenter.selected \in Chunks \cup {NoChunk}
         /\ presenter.pc \in {"idle", "isDue", "take", "mark"}
         /\ \A chunk \in Chunks : InHand(chunk) = 1
         /\ InHand(NoChunk) = 0
         /\ \A chunk \in Chunks \cup {NoChunk} : InHand(chunk) \in {0, 1}
         /\ Len(buffered) \in Nat /\ Len(published) \in Nat
  BY NoChunkIsNoChunk DEF TypeOK, Publishers, Presenters, InHand, Chunks

\* Everything that ChunksAccounted adds up is a number.
LEMMA Numbers ==
  ASSUME ManagerInv
  PROVE  /\ InHand(publisher.chunk) \in Nat /\ InHand(presenter.selected) \in Nat
         /\ Len(buffered) \in Nat /\ Len(published) \in Nat
         /\ taken \in Nat /\ droppedForSpace \in Nat /\ discardedAtReset \in Nat
         /\ gaveUp \in Nat /\ cleared \in Nat
  BY Hands DEF ManagerInv, TypeOK

\* The balance before a step, with the types the provers need to add.
LEMMA Balance ==
  ASSUME ManagerInv
  PROVE  /\ Len(published) = Underway + Settled
         /\ Underway \in Nat /\ Settled \in Nat /\ Len(published) \in Nat
  <1>1. Len(published) = Underway + Settled
    BY DEF ManagerInv, ChunksAccounted
  <1>2. Underway \in Nat
    BY Numbers, SMTT(60) DEF Underway
  <1>3. Settled \in Nat
    BY Numbers, SMTT(60) DEF Settled
  <1> QED BY <1>1, <1>2, <1>3, Numbers

\* A new manager satisfies the invariant.
LEMMA InitManager == Init => ManagerInv
  <1> SUFFICES ASSUME Init PROVE ManagerInv
    OBVIOUS
  <1>1. TypeOK
    <2>1. publisher \in Publishers /\ presenter \in Presenters
      BY DEF Init, Publishers, Presenters
    <2>2. clock \in [generation : Nat \cup {None}, armed : BOOLEAN]
      BY DEF Init, None
    <2>3. /\ buffered \in Seq(Chunks) /\ Len(buffered) <= QueueCapacity
          /\ published \in Seq(Nat)
      BY CapacityIsPositive DEF Init
    <2>4. /\ presented \in Chunks \cup {NoChunk}
          /\ frameIndex \in Nat \cup {-1}
          /\ generation \in Nat /\ current \in Nat
          /\ presentedFrameCount \in Nat
          /\ droppedForSpace \in Nat /\ discardedAtReset \in Nat
          /\ taken \in Nat /\ gaveUp \in Nat /\ cleared \in Nat
      BY DEF Init
    <2>5. /\ mode \in Modes /\ stop \in BOOLEAN /\ closed \in BOOLEAN
          /\ shown \in [generation : Nat, serial : Nat, frame : Nat, frames : Nat]
      BY DEF Init, NothingShown
    <2> QED BY <2>1, <2>2, <2>3, <2>4, <2>5 DEF TypeOK
  <1>2. HandsOK /\ ChunksAccounted /\ BlockDropsNothing /\ NothingStalePresented
    BY DEF Init, HandsOK, ChunksAccounted, Underway, Settled, BlockDropsNothing,
           NothingStalePresented, InHand
  <1> QED BY <1>1, <1>2 DEF ManagerInv

-----------------------------------------------------------------------------
(* publish.                                                                 *)

\* What neither publish nor advance touches.
environment == <<mode, stop, current, closed>>

\* publish takes in a completed step and may reset the clock.
LEMMA PublishBeginKeeps ==
  ASSUME ManagerInv, NEW g \in Nat, NEW frames \in FrameCounts,
         PublishBegin(g, frames), UNCHANGED environment
  PROVE  ManagerInv'
  <1> DEFINE chunk == [generation |-> g, serial |-> Len(published) + 1,
                       frames |-> frames]
  <1>1. chunk \in Chunks /\ chunk # NoChunk
    <2>1. chunk \in Chunks
      BY DEF ManagerInv, TypeOK, Chunks
    <2> QED BY <2>1, NoChunkIsNoChunk DEF Chunks
  <1> HIDE DEF chunk
  <1>2. /\ publisher.pc = "idle" /\ publisher.chunk = NoChunk
        /\ publisher' \in Publishers /\ publisher'.chunk = chunk
        /\ publisher'.pc \in {"checkStop", "checkStopLatest"}
        /\ publisher'.pc = "checkStop" <=> mode = "BLOCK"
    BY <1>1 DEF PublishBegin, Publishers, ManagerInv, HandsOK, chunk
  <1>3. /\ published' \in Seq(Nat) /\ Len(published') = Len(published) + 1
        /\ Len(published) \in Nat
    BY QueueAppend DEF PublishBegin, ManagerInv, TypeOK
  <1>4. UNCHANGED <<environment, buffered, droppedForSpace, gaveUp, presenterVars>>
    BY DEF PublishBegin
  <1>5. clock' \in [generation : Nat \cup {None}, armed : BOOLEAN]
    BY DEF PublishBegin, ResetClock, ManagerInv, TypeOK
  <1>6. TypeOK'
    BY <1>2, <1>3, <1>4, <1>5 DEF ManagerInv, TypeOK, presenterVars, environment
  <1>7. HandsOK'
    BY <1>1, <1>2, <1>4
       DEF ManagerInv, TypeOK, Modes, HandsOK, HasNextFrame, presenterVars, environment
  <1>8. ChunksAccounted'
    <2>1. InHand(publisher.chunk) = 0 /\ InHand(publisher'.chunk) = 1
      BY <1>1, <1>2, Hands DEF ManagerInv
    <2>2. /\ InHand(presenter'.selected) = InHand(presenter.selected)
          /\ Len(buffered') = Len(buffered) /\ taken' = taken
          /\ droppedForSpace' = droppedForSpace
          /\ discardedAtReset' = discardedAtReset /\ gaveUp' = gaveUp
          /\ cleared' = cleared
      BY <1>4 DEF presenterVars
    <2>3. Underway' = Underway + 1
      BY <2>1, <2>2, Numbers, SMTT(60) DEF Underway
    <2>4. Settled' = Settled
      BY <2>2 DEF Settled
    <2> QED BY <1>3, <2>1, <2>2, <2>3, <2>4, Balance, SMTT(60) DEF ChunksAccounted
  <1>9. BlockDropsNothing' /\ NothingStalePresented'
    BY <1>4 DEF ManagerInv, BlockDropsNothing, NothingStalePresented,
                presenterVars, environment
  <1> QED BY <1>6, <1>7, <1>8, <1>9 DEF ManagerInv

\* publish looks at the stop event, and gives its chunk up when it is set.
LEMMA CheckStopKeeps ==
  ASSUME ManagerInv, CheckStop, UNCHANGED environment
  PROVE  ManagerInv'
  <1>1. UNCHANGED <<environment, buffered, clock, droppedForSpace, published,
                    presenterVars>>
    BY DEF CheckStop
  <1>2. /\ publisher \in Publishers /\ publisher.chunk # NoChunk
        /\ publisher.pc \in {"checkStop", "checkStopLatest"}
    BY DEF CheckStop, ManagerInv, TypeOK, HandsOK
  <1>3. CASE stop
    <2>1. /\ publisher' \in Publishers /\ gaveUp' = gaveUp + 1
          /\ publisher'.pc = "idle" /\ publisher'.chunk = NoChunk
      BY <1>2, <1>3, PublisherMoves DEF CheckStop
    <2>2. TypeOK'
      BY <1>1, <2>1 DEF ManagerInv, TypeOK, presenterVars, environment
    <2>3. HandsOK'
      BY <1>1, <2>1 DEF ManagerInv, HandsOK, HasNextFrame, presenterVars, environment
    <2>4. ChunksAccounted'
      <3>1. InHand(publisher.chunk) = 1 /\ InHand(publisher'.chunk) = 0
        BY <1>2, <2>1, Hands DEF ManagerInv, Publishers
      <3>2. /\ InHand(presenter'.selected) = InHand(presenter.selected)
            /\ Len(buffered') = Len(buffered)
            /\ Len(published') = Len(published) /\ taken' = taken
            /\ droppedForSpace' = droppedForSpace
            /\ discardedAtReset' = discardedAtReset /\ cleared' = cleared
        BY <1>1 DEF presenterVars
      <3>3. Underway' = Underway - 1
        BY <2>1, <3>1, <3>2, Numbers, SMTT(60) DEF Underway
      <3>4. Settled' = Settled + 1
        BY <2>1, <3>1, <3>2, Numbers, SMTT(60) DEF Settled
      <3> QED BY <2>1, <3>1, <3>2, <3>3, <3>4, Balance, SMTT(60) DEF ChunksAccounted
    <2>5. BlockDropsNothing' /\ NothingStalePresented'
      BY <1>1, <1>3 DEF ManagerInv, BlockDropsNothing, NothingStalePresented,
                        presenterVars, environment
    <2> QED BY <2>2, <2>3, <2>4, <2>5 DEF ManagerInv
  <1>4. CASE ~stop
    <2>1. /\ publisher' \in Publishers /\ gaveUp' = gaveUp
          /\ publisher.pc = "checkStop" => publisher'.pc = "put"
          /\ publisher.pc = "checkStopLatest" => publisher'.pc = "putNowait"
          /\ publisher'.chunk = publisher.chunk
      BY <1>2, <1>4, PublisherMoves DEF CheckStop
    <2>2. TypeOK'
      BY <1>1, <2>1 DEF ManagerInv, TypeOK, presenterVars, environment
    <2>3. HandsOK'
      BY <1>1, <1>2, <2>1 DEF ManagerInv, HandsOK, HasNextFrame, presenterVars, environment
    <2>4. ChunksAccounted'
      BY <1>1, <2>1 DEF ManagerInv, ChunksAccounted, Underway, Settled, presenterVars
    <2>5. BlockDropsNothing' /\ NothingStalePresented'
      BY <1>1, <2>1 DEF ManagerInv, BlockDropsNothing, NothingStalePresented,
                        presenterVars, environment
    <2> QED BY <2>2, <2>3, <2>4, <2>5 DEF ManagerInv
  <1> QED BY <1>3, <1>4

\* The queue takes the chunk in hand.
LEMMA EnqueueKeeps ==
  ASSUME ManagerInv, publisher.pc # "idle", ~IsBacklogged, Enqueue,
         UNCHANGED environment
  PROVE  ManagerInv'
  <1>1. UNCHANGED <<environment, clock, droppedForSpace, gaveUp, published,
                    presenterVars>>
    BY DEF Enqueue
  <1>2. publisher \in Publishers /\ publisher.chunk \in Chunks
    BY Hands DEF ManagerInv, TypeOK, HandsOK
  <1>3. /\ publisher' \in Publishers
        /\ publisher'.pc = "idle" /\ publisher'.chunk = NoChunk
    BY <1>2, PublisherMoves DEF Enqueue
  <1>4. /\ buffered' \in Seq(Chunks) /\ Len(buffered') = Len(buffered) + 1
        /\ Len(buffered) \in Nat
    BY <1>2, QueueAppend DEF Enqueue, ManagerInv, TypeOK
  <1>5. Len(buffered') <= QueueCapacity
    BY <1>4, CapacityIsPositive DEF IsBacklogged
  <1>6. TypeOK'
    BY <1>1, <1>3, <1>4, <1>5 DEF ManagerInv, TypeOK, presenterVars, environment
  <1>7. HandsOK'
    BY <1>1, <1>3 DEF ManagerInv, HandsOK, HasNextFrame, presenterVars, environment
  <1>8. ChunksAccounted'
    <2>1. InHand(publisher.chunk) = 1 /\ InHand(publisher'.chunk) = 0
      BY <1>2, <1>3, Hands DEF ManagerInv
    <2>2. /\ InHand(presenter'.selected) = InHand(presenter.selected)
          /\ Len(published') = Len(published) /\ taken' = taken
          /\ droppedForSpace' = droppedForSpace
          /\ discardedAtReset' = discardedAtReset /\ gaveUp' = gaveUp
          /\ cleared' = cleared
      BY <1>1 DEF presenterVars
    <2>3. Underway' = Underway
      BY <1>4, <2>1, <2>2, Numbers, SMTT(60) DEF Underway
    <2>4. Settled' = Settled
      BY <1>4, <2>1, <2>2, Numbers, SMTT(60) DEF Settled
    <2> QED BY <1>4, <2>1, <2>2, <2>3, <2>4, Balance, SMTT(60) DEF ChunksAccounted
  <1>9. BlockDropsNothing' /\ NothingStalePresented'
    BY <1>1 DEF ManagerInv, BlockDropsNothing, NothingStalePresented,
                presenterVars, environment
  <1> QED BY <1>6, <1>7, <1>8, <1>9 DEF ManagerInv

\* A full queue sends publish back to the stop event, or to eviction.
LEMMA FullKeeps ==
  ASSUME ManagerInv, UNCHANGED environment,
         \/ publisher.pc = "put" /\ PublisherAt("checkStop")
         \/ publisher.pc = "putNowait" /\ PublisherAt("evict"),
         UNCHANGED <<buffered, clock, droppedForSpace, gaveUp, published,
                     presenterVars>>
  PROVE  ManagerInv'
  <1>1. /\ publisher \in Publishers /\ publisher' \in Publishers
        /\ publisher'.chunk = publisher.chunk
        /\ \/ publisher.pc = "put" /\ publisher'.pc = "checkStop"
           \/ publisher.pc = "putNowait" /\ publisher'.pc = "evict"
    BY PublisherMoves DEF ManagerInv, TypeOK
  <1>2. TypeOK'
    BY <1>1 DEF ManagerInv, TypeOK, presenterVars, environment
  <1>3. HandsOK'
    BY <1>1 DEF ManagerInv, HandsOK, HasNextFrame, presenterVars, environment
  <1>4. ChunksAccounted' /\ BlockDropsNothing' /\ NothingStalePresented'
    BY <1>1 DEF ManagerInv, ChunksAccounted, Underway, Settled, BlockDropsNothing,
                NothingStalePresented, presenterVars, environment
  <1> QED BY <1>2, <1>3, <1>4 DEF ManagerInv

\* publish removes the oldest chunk, unless the UI thread has just taken it.
LEMMA EvictKeeps ==
  ASSUME ManagerInv, Evict, UNCHANGED environment
  PROVE  ManagerInv'
  <1>1. UNCHANGED <<environment, clock, gaveUp, published, presenterVars>>
    BY DEF Evict
  <1>2. /\ publisher \in Publishers /\ publisher' \in Publishers
        /\ publisher.pc = "evict" /\ publisher'.pc = "checkStopLatest"
        /\ publisher'.chunk = publisher.chunk
        /\ mode = "DROP_OLDEST"
    BY PublisherMoves DEF Evict, ManagerInv, TypeOK, HandsOK
  <1>3. /\ buffered' \in Seq(Chunks) /\ Len(buffered') <= QueueCapacity
        /\ Len(buffered') \in Nat /\ droppedForSpace' \in Nat
        /\ \E d \in {0, 1} : /\ Len(buffered') = Len(buffered) - d
                              /\ droppedForSpace' = droppedForSpace + d
    <2>1. CASE buffered # <<>> /\ buffered' = Tail(buffered)
                 /\ droppedForSpace' = droppedForSpace + 1
      BY <2>1, QueueTail, CapacityIsPositive DEF ManagerInv, TypeOK
    <2>2. CASE UNCHANGED <<buffered, droppedForSpace>>
      BY <2>2, Hands DEF ManagerInv, TypeOK
    <2> QED BY <2>1, <2>2 DEF Evict
  <1>4. TypeOK'
    BY <1>1, <1>2, <1>3 DEF ManagerInv, TypeOK, presenterVars, environment
  <1>5. HandsOK'
    BY <1>1, <1>2 DEF ManagerInv, HandsOK, HasNextFrame, presenterVars, environment
  <1>6. ChunksAccounted'
    <2>1. /\ InHand(publisher'.chunk) = InHand(publisher.chunk)
          /\ InHand(presenter'.selected) = InHand(presenter.selected)
          /\ Len(published') = Len(published) /\ taken' = taken
          /\ discardedAtReset' = discardedAtReset /\ gaveUp' = gaveUp
          /\ cleared' = cleared
      BY <1>1, <1>2 DEF presenterVars
    <2>2. PICK d \in {0, 1} : /\ Len(buffered') = Len(buffered) - d
                              /\ droppedForSpace' = droppedForSpace + d
      BY <1>3
    <2>3. Underway' = Underway - d
      BY <2>1, <2>2, Numbers, SMTT(60) DEF Underway
    <2>4. Settled' = Settled + d
      <3>1. /\ droppedForSpace' = droppedForSpace + d /\ d \in Nat
            /\ taken' = taken /\ discardedAtReset' = discardedAtReset
            /\ gaveUp' = gaveUp /\ cleared' = cleared
        BY <2>1, <2>2
      <3> QED BY <3>1, Numbers, SMTT(60) DEF Settled
    <2> QED BY <2>1, <2>2, <2>3, <2>4, Balance, SMTT(60) DEF ChunksAccounted
  <1>7. BlockDropsNothing' /\ NothingStalePresented'
    BY <1>1, <1>2 DEF ManagerInv, BlockDropsNothing, NothingStalePresented,
                      presenterVars, environment
  <1> QED BY <1>4, <1>5, <1>6, <1>7 DEF ManagerInv

-----------------------------------------------------------------------------
(* advance.                                                                 *)

\* advance starts; under a new generation it presents nothing any more.
LEMMA AdvanceBeginKeeps ==
  ASSUME ManagerInv, NEW g \in Nat, AdvanceBegin(g), UNCHANGED environment
  PROVE  ManagerInv'
  <1>1. UNCHANGED <<environment, buffered, clock, droppedForSpace,
                    discardedAtReset, shown, taken, publisherVars>>
    BY DEF AdvanceBegin
  <1>2. /\ presenter' \in Presenters
        /\ presenter'.pc = "isDue" /\ presenter'.selected = NoChunk
        /\ presenter.pc = "idle" /\ presenter.selected = NoChunk
    BY DEF AdvanceBegin, IsBacklogged, Presenters, ManagerInv, HandsOK
  <1>3. /\ generation' = g
        /\ \/ /\ presented' = NoChunk /\ frameIndex' = -1
              /\ presentedFrameCount' = 0
           \/ /\ g = generation
              /\ UNCHANGED <<presented, frameIndex, presentedFrameCount>>
    BY DEF AdvanceBegin
  <1>4. TypeOK'
    BY <1>1, <1>2, <1>3 DEF ManagerInv, TypeOK, publisherVars, environment
  <1>5. HandsOK'
    BY <1>1, <1>2 DEF ManagerInv, HandsOK, publisherVars, environment
  <1>6. ChunksAccounted' /\ BlockDropsNothing'
    BY <1>1, <1>2 DEF ManagerInv, ChunksAccounted, Underway, Settled, BlockDropsNothing,
                      publisherVars, environment
  <1>7. NothingStalePresented'
    BY <1>3 DEF ManagerInv, NothingStalePresented
  <1> QED BY <1>4, <1>5, <1>6, <1>7 DEF ManagerInv

\* The clock answers, and advance knows where its frame comes from.
LEMMA IsDueKeeps ==
  ASSUME ManagerInv, NEW due \in BOOLEAN, IsDue(due), UNCHANGED environment
  PROVE  ManagerInv'
  <1>1. UNCHANGED <<environment, buffered, generation, presented, frameIndex,
                    presentedFrameCount, droppedForSpace, discardedAtReset, shown,
                    taken, publisherVars>>
    BY DEF IsDue
  <1>2. /\ presenter \in Presenters
        /\ presenter.pc = "isDue" /\ presenter.selected = NoChunk
    BY DEF IsDue, ManagerInv, TypeOK, HandsOK
  <1>3. /\ presenter' \in Presenters /\ presenter'.selected = NoChunk
        /\ \/ presenter'.pc = "idle"
           \/ presenter'.pc = "take"
           \/ presenter'.pc = "mark" /\ HasNextFrame
    <2>1. CASE PresenterDone(FALSE)
      BY <2>1, PresenterDoneMoves
    <2>2. CASE HasNextFrame /\ presenter' = [presenter EXCEPT !.pc = "mark"]
      BY <1>2, <2>2, PresenterMoves
    <2>3. CASE presenter' = [presenter EXCEPT !.pc = "take"]
      BY <1>2, <2>3, PresenterMoves
    <2> QED BY <2>1, <2>2, <2>3 DEF IsDue
  <1>4. clock' \in [generation : Nat \cup {None}, armed : BOOLEAN]
    BY DEF IsDue, ResetClock, ManagerInv, TypeOK
  <1>5. TypeOK'
    BY <1>1, <1>3, <1>4 DEF ManagerInv, TypeOK, publisherVars, environment
  <1>6. HandsOK'
    BY <1>1, <1>3 DEF ManagerInv, HandsOK, HasNextFrame, publisherVars, environment
  <1>7. /\ ChunksAccounted' /\ BlockDropsNothing' /\ NothingStalePresented'
    BY <1>1, <1>2, <1>3 DEF ManagerInv, ChunksAccounted, Underway, Settled, BlockDropsNothing,
                            NothingStalePresented, publisherVars, environment
  <1> QED BY <1>5, <1>6, <1>7 DEF ManagerInv

\* One get_nowait that finds a chunk: a stale one is discarded, another one
\* comes to hand, and in the latest mode replaces the one already there.
LEMMA TakeChunkKeeps ==
  ASSUME ManagerInv, TakeChunk, UNCHANGED environment
  PROVE  ManagerInv'
  <1> DEFINE chunk == Head(buffered)
  <1>1. UNCHANGED <<environment, clock, presentedVars, publisherVars>>
    BY DEF TakeChunk
  <1>2. /\ chunk \in Chunks /\ chunk # NoChunk
        /\ buffered' \in Seq(Chunks) /\ Len(buffered') <= QueueCapacity
        /\ Len(buffered) \in Nat /\ Len(buffered') = Len(buffered) - 1
    <2>1. /\ buffered \in Seq(Chunks) /\ Len(buffered) <= QueueCapacity
          /\ buffered # <<>> /\ buffered' = Tail(buffered)
      BY DEF TakeChunk, ManagerInv, TypeOK
    <2>2. /\ chunk \in Chunks /\ buffered' \in Seq(Chunks)
          /\ Len(buffered) \in Nat /\ Len(buffered') = Len(buffered) - 1
      BY <2>1, QueueTail
    <2>3. NoChunk \notin Chunks
      BY NoChunkIsNoChunk DEF Chunks
    <2> QED BY <2>1, <2>2, <2>3, CapacityIsPositive
  <1> HIDE DEF chunk
  <1>3. /\ presenter \in Presenters /\ presenter.pc = "take"
        /\ presenter.selected \in Chunks \cup {NoChunk}
        /\ mode = "BLOCK" => presenter.selected = NoChunk
    BY Hands DEF TakeChunk, ManagerInv, TypeOK, HandsOK
  <1>4. CASE /\ discardedAtReset' = discardedAtReset + 1
             /\ UNCHANGED <<droppedForSpace, presenter>>
    <2>1. TypeOK'
      BY <1>1, <1>2, <1>3, <1>4
         DEF ManagerInv, TypeOK, presentedVars, publisherVars, environment
    <2>2. HandsOK'
      BY <1>1, <1>4 DEF ManagerInv, HandsOK, HasNextFrame, presentedVars,
                        publisherVars, environment
    <2>3. ChunksAccounted'
      <3>1. /\ InHand(publisher'.chunk) = InHand(publisher.chunk)
            /\ InHand(presenter'.selected) = InHand(presenter.selected)
            /\ Len(published') = Len(published) /\ taken' = taken
            /\ gaveUp' = gaveUp /\ cleared' = cleared
        BY <1>1, <1>4 DEF presentedVars, publisherVars
      <3>3. Underway' = Underway - 1
        BY <1>2, <1>4, <3>1, Numbers, SMTT(60) DEF Underway
      <3>4. Settled' = Settled + 1
        BY <1>2, <1>4, <3>1, Numbers, SMTT(60) DEF Settled
      <3> QED BY <1>2, <1>4, <3>1, <3>3, <3>4, Balance, SMTT(60) DEF ChunksAccounted
    <2>4. BlockDropsNothing' /\ NothingStalePresented'
      BY <1>1, <1>4 DEF ManagerInv, BlockDropsNothing, NothingStalePresented,
                        presentedVars, publisherVars, environment
    <2> QED BY <2>1, <2>2, <2>3, <2>4 DEF ManagerInv
  <1>5. CASE /\ chunk.generation = generation
             /\ presenter' = [presenter EXCEPT !.selected = chunk,
                                 !.pc = IF mode = "BLOCK" THEN "mark" ELSE "take"]
             /\ droppedForSpace' = droppedForSpace
                    + (IF presenter.selected # NoChunk THEN 1 ELSE 0)
             /\ UNCHANGED discardedAtReset
    <2>1. /\ presenter' \in Presenters /\ presenter'.selected = chunk
          /\ presenter'.pc = IF mode = "BLOCK" THEN "mark" ELSE "take"
      <3>1. CASE mode = "BLOCK"
        BY <1>2, <1>3, <1>5, <3>1, PresenterSelects
      <3>2. CASE mode # "BLOCK"
        BY <1>2, <1>3, <1>5, <3>2, PresenterSelects
      <3> QED BY <3>1, <3>2
    <2>2. /\ droppedForSpace' \in Nat
          /\ droppedForSpace' = droppedForSpace + InHand(presenter.selected)
          /\ mode = "BLOCK" => droppedForSpace' = droppedForSpace
      BY <1>3, <1>5, SMTT(20) DEF ManagerInv, TypeOK, InHand
    <2>3. TypeOK'
      BY <1>1, <1>2, <1>5, <2>1, <2>2
         DEF ManagerInv, TypeOK, presentedVars, publisherVars, environment
    <2>4. HandsOK'
      BY <1>1, <1>2, <1>5, <2>1 DEF ManagerInv, HandsOK, presentedVars,
                                    publisherVars, environment
    <2>5. ChunksAccounted'
      <3>1. InHand(presenter'.selected) = 1
        BY <1>2, <2>1, Hands DEF ManagerInv
      <3>2. /\ InHand(publisher'.chunk) = InHand(publisher.chunk)
            /\ Len(published') = Len(published) /\ taken' = taken
            /\ discardedAtReset' = discardedAtReset /\ gaveUp' = gaveUp
            /\ cleared' = cleared
        BY <1>1, <1>5 DEF presentedVars, publisherVars
      <3>3. Underway' = Underway - InHand(presenter.selected)
        BY <1>2, <3>1, <3>2, Numbers, SMTT(60) DEF Underway
      <3>4. Settled' = Settled + InHand(presenter.selected)
        <4>1. /\ droppedForSpace' = droppedForSpace + InHand(presenter.selected)
              /\ taken' = taken /\ discardedAtReset' = discardedAtReset
              /\ gaveUp' = gaveUp /\ cleared' = cleared
          BY <2>2, <3>2
        <4> QED BY <4>1, Numbers, SMTT(60) DEF Settled
      <3> QED BY <3>2, <3>3, <3>4, Balance, Numbers, SMTT(60) DEF ChunksAccounted
    <2>6. BlockDropsNothing' /\ NothingStalePresented'
      BY <1>1, <2>2 DEF ManagerInv, BlockDropsNothing, NothingStalePresented,
                        presentedVars, publisherVars, environment
    <2> QED BY <2>3, <2>4, <2>5, <2>6 DEF ManagerInv
  <1> QED BY <1>4, <1>5 DEF TakeChunk, chunk

\* A get_nowait that finds the queue empty.
LEMMA TakeEmptyKeeps ==
  ASSUME ManagerInv, TakeEmpty, UNCHANGED environment
  PROVE  ManagerInv'
  <1>1. UNCHANGED <<environment, buffered, clock, droppedForSpace, discardedAtReset,
                    presentedVars, publisherVars>>
    BY DEF TakeEmpty
  <1>2. presenter \in Presenters
    BY DEF ManagerInv, TypeOK
  <1>3. /\ presenter' \in Presenters /\ presenter'.selected = presenter.selected
        /\ \/ presenter'.pc = "idle" /\ presenter.selected = NoChunk
           \/ presenter'.pc = "mark" /\ presenter.selected # NoChunk
    <2>1. CASE /\ presenter.selected # NoChunk
               /\ presenter' = [presenter EXCEPT !.pc = "mark"]
      BY <1>2, <2>1, PresenterMoves
    <2>2. CASE presenter.selected = NoChunk /\ PresenterDone(FALSE)
      BY <2>2, PresenterDoneMoves
    <2> QED BY <2>1, <2>2 DEF TakeEmpty
  <1>4. TypeOK'
    BY <1>1, <1>3 DEF ManagerInv, TypeOK, presentedVars, publisherVars, environment
  <1>5. HandsOK'
    BY <1>1, <1>3 DEF ManagerInv, HandsOK, HasNextFrame, presentedVars,
                      publisherVars, environment
  <1>6. ChunksAccounted' /\ BlockDropsNothing' /\ NothingStalePresented'
    BY <1>1, <1>3 DEF ManagerInv, ChunksAccounted, Underway, Settled, BlockDropsNothing,
                      NothingStalePresented, presentedVars, publisherVars, environment
  <1> QED BY <1>4, <1>5, <1>6 DEF ManagerInv

\* A frame is presented: the next of the chunk, or the first of a new one.
LEMMA MarkAdvancedKeeps ==
  ASSUME ManagerInv, MarkAdvanced, UNCHANGED environment
  PROVE  ManagerInv'
  <1> DEFINE fresh == presenter.selected # NoChunk
             chunk == IF fresh THEN presenter.selected ELSE presented
             index == IF fresh THEN 0 ELSE frameIndex + 1
  <1>1. UNCHANGED <<environment, buffered, generation, droppedForSpace,
                    discardedAtReset, publisherVars>>
    BY DEF MarkAdvanced
  <1>2. /\ presenter.pc = "mark"
        /\ presented' = chunk /\ frameIndex' = index
        /\ presentedFrameCount' = presentedFrameCount + 1
        /\ shown' = [generation |-> chunk.generation, serial |-> chunk.serial,
                     frame |-> index, frames |-> chunk.frames]
        /\ taken' = taken + InHand(presenter.selected)
        /\ clock' = [clock EXCEPT !.armed = TRUE]
    BY DEF MarkAdvanced, InHand
  <1>3. /\ presenter' \in Presenters
        /\ presenter'.pc = "idle" /\ presenter'.selected = NoChunk
    BY PresenterDoneMoves DEF MarkAdvanced
  <1>4. /\ chunk \in Chunks /\ chunk.generation = generation
        /\ index \in 0 .. chunk.frames - 1
    <2>1. \A c \in Chunks : c.frames \in Nat \ {0}
      BY FrameCountsArePositive DEF Chunks
    <2>2. CASE fresh
      BY <2>1, <2>2, Hands DEF ManagerInv, HandsOK
    <2>3. CASE ~fresh
      <3>1. /\ presented \in Chunks /\ presented.generation = generation
            /\ frameIndex \in 0 .. presented.frames - 1
            /\ frameIndex + 1 < presented.frames
        BY <1>2, <2>3 DEF ManagerInv, TypeOK, HandsOK, HasNextFrame,
                          NothingStalePresented
      <3> QED BY <2>1, <2>3, <3>1
    <2> QED BY <2>2, <2>3
  <1>5. /\ index \in Nat /\ chunk.generation \in Nat /\ chunk.serial \in Nat
        /\ chunk.frames \in Nat
    <2>1. index \in Nat
      <3>1. \A c \in Chunks : c.frames \in Nat
        BY FrameCountsArePositive DEF Chunks
      <3> HIDE DEF chunk, index
      <3> QED BY <1>4, <3>1
    <2> HIDE DEF chunk, index
    <2> QED BY <1>4, <2>1, FrameCountsArePositive DEF Chunks
  <1> HIDE DEF chunk, index
  <1>6. clock' \in [generation : Nat \cup {None}, armed : BOOLEAN]
    BY <1>2 DEF ManagerInv, TypeOK
  <1>7. taken' \in Nat
    BY <1>2, Numbers
  <1>8. TypeOK'
    <2>1. shown' \in [generation : Nat, serial : Nat, frame : Nat, frames : Nat]
      BY <1>2, <1>5
    <2>2. /\ presented' \in Chunks \cup {NoChunk} /\ frameIndex' \in Nat \cup {-1}
          /\ presentedFrameCount' \in Nat
      <3>1. presentedFrameCount' \in Nat
        BY <1>2, SMTT(20) DEF ManagerInv, TypeOK
      <3> QED BY <1>2, <1>4, <1>5, <3>1
    <2> QED BY <1>1, <1>3, <1>6, <1>7, <2>1, <2>2
            DEF ManagerInv, TypeOK, publisherVars, environment
  <1>9. HandsOK'
    BY <1>1, <1>3 DEF ManagerInv, HandsOK, publisherVars, environment
  <1>10. ChunksAccounted'
    <2>1. InHand(presenter'.selected) = 0
      BY <1>3, Hands DEF ManagerInv
    <2>2. /\ InHand(publisher'.chunk) = InHand(publisher.chunk)
          /\ Len(buffered') = Len(buffered) /\ Len(published') = Len(published)
          /\ droppedForSpace' = droppedForSpace
          /\ discardedAtReset' = discardedAtReset /\ gaveUp' = gaveUp
          /\ cleared' = cleared
      BY <1>1 DEF publisherVars
    <2>3. Underway' = Underway - InHand(presenter.selected)
      BY <2>1, <2>2, Numbers, SMTT(60) DEF Underway
    <2>4. Settled' = Settled + InHand(presenter.selected)
      <3>1. taken' = taken + InHand(presenter.selected)
        BY <1>2
      <3> QED BY <2>2, <3>1, Numbers, SMTT(60) DEF Settled
    <2> QED BY <2>2, <2>3, <2>4, Balance, Numbers, SMTT(60) DEF ChunksAccounted
  <1>11. BlockDropsNothing' /\ NothingStalePresented'
    BY <1>1, <1>2, <1>4 DEF ManagerInv, BlockDropsNothing, NothingStalePresented,
                            publisherVars, environment
  <1> QED BY <1>8, <1>9, <1>10, <1>11 DEF ManagerInv

-----------------------------------------------------------------------------
(* The session around the manager.                                          *)

\* close clears what is left, or raises before it has cleared anything.
LEMMA CloseManagerKeeps ==
  ASSUME ManagerInv, CloseManager
  PROVE  ManagerInv'
  <1>1. /\ UNCHANGED <<mode, stop, current>> /\ closed' = TRUE
        /\ presenter.pc = "idle" /\ presenter.selected = NoChunk
    BY DEF CloseManager, ManagerInv, HandsOK
  <1>2. CASE UNCHANGED managerVars
    BY <1>1, <1>2 DEF ManagerInv, TypeOK, HandsOK, HasNextFrame, ChunksAccounted, Underway, Settled,
                      BlockDropsNothing, NothingStalePresented, managerVars
  <1>3. CASE Close
    <2>1. /\ UNCHANGED <<clock, generation, droppedForSpace, discardedAtReset,
                         publisher, presenter, published, shown, taken, gaveUp>>
          /\ buffered' = <<>> /\ cleared' = cleared + Len(buffered)
          /\ presented' = NoChunk /\ frameIndex' = -1 /\ presentedFrameCount' = 0
      BY <1>3 DEF Close
    <2>2. buffered' \in Seq(Chunks) /\ Len(buffered') = 0 /\ cleared' \in Nat
      BY <2>1, Numbers
    <2>3. TypeOK'
      BY <1>1, <2>1, <2>2, CapacityIsPositive DEF ManagerInv, TypeOK
    <2>4. HandsOK'
      BY <1>1, <2>1 DEF ManagerInv, HandsOK
    <2>5. ChunksAccounted'
      <3>1. Underway' = Underway - Len(buffered)
        BY <2>1, <2>2, Numbers, SMTT(60) DEF Underway
      <3>2. Settled' = Settled + Len(buffered)
        BY <2>1, Numbers, SMTT(60) DEF Settled
      <3>3. Len(published') = Len(published)
        BY <2>1
      <3> QED BY <3>1, <3>2, <3>3, Balance, Numbers, SMTT(60) DEF ChunksAccounted
    <2>6. BlockDropsNothing' /\ NothingStalePresented'
      BY <1>1, <2>1 DEF ManagerInv, BlockDropsNothing, NothingStalePresented
    <2> QED BY <2>3, <2>4, <2>5, <2>6 DEF ManagerInv
  <1> QED BY <1>2, <1>3 DEF CloseManager

\* A reset that reaches the input, or a stop, between two ticks.
LEMMA EnvironmentKeeps ==
  ASSUME ManagerInv, ResetArrives \/ SetStop \/ UNCHANGED presentationVars
  PROVE  ManagerInv'
  <1>1. UNCHANGED <<mode, closed, managerVars>>
    BY DEF ResetArrives, SetStop, presentationVars
  <1>2. /\ stop' \in BOOLEAN /\ (stop => stop') /\ current' \in Nat
    <2>1. CASE ResetArrives
      BY <2>1 DEF ResetArrives, ManagerInv, TypeOK
    <2>2. CASE SetStop
      BY <2>2 DEF SetStop, ManagerInv, TypeOK
    <2>3. CASE UNCHANGED presentationVars
      BY <2>3 DEF presentationVars, ManagerInv, TypeOK
    <2> QED BY <2>1, <2>2, <2>3
  <1>3. TypeOK'
    BY <1>1, <1>2 DEF ManagerInv, TypeOK, managerVars
  <1>4. HandsOK' /\ ChunksAccounted' /\ NothingStalePresented'
    BY <1>1 DEF ManagerInv, HandsOK, HasNextFrame, ChunksAccounted, Underway, Settled,
                NothingStalePresented, managerVars
  <1>5. BlockDropsNothing'
    BY <1>1, <1>2 DEF ManagerInv, BlockDropsNothing, managerVars
  <1> QED BY <1>3, <1>4, <1>5 DEF ManagerInv

\* Every step of the two threads keeps the invariant.
LEMMA NextManager == ManagerInv /\ [Next]_presentationVars => ManagerInv'
  <1> SUFFICES ASSUME ManagerInv, [Next]_presentationVars PROVE ManagerInv'
    OBVIOUS
  <1>1. CASE PublishNext
    <2>1. LastGeneration \in Nat /\ current \in Nat
      <3>1. Len(published) \in Nat /\ published \in Seq(Nat)
        BY Numbers DEF ManagerInv, TypeOK
      <3>2. CASE published = <<>>
        BY <3>2 DEF LastGeneration, ManagerInv, TypeOK
      <3>3. CASE published # <<>>
        <4>1. Len(published) \in 1 .. Len(published)
          BY <3>1, <3>3, EmptySeq
        <4> QED BY <3>1, <3>3, <4>1, ElementOfSeq DEF LastGeneration, ManagerInv, TypeOK
      <3> QED BY <3>2, <3>3
    <2>2. PICK g \in Nat, frames \in FrameCounts : PublishBegin(g, frames)
      BY <1>1, <2>1 DEF PublishNext
    <2> QED BY <1>1, <2>2, PublishBeginKeeps DEF PublishNext, environment
  <1>2. CASE ModelThread
    <2>1. UNCHANGED environment
      BY <1>2 DEF ModelThread, environment
    <2>2. CASE CheckStop
      BY <2>1, <2>2, CheckStopKeeps
    <2>3. CASE Put
      BY <2>1, <2>3, EnqueueKeeps DEF Put
    <2>4. CASE PutTimeout
      BY <2>1, <2>4, FullKeeps DEF PutTimeout
    <2>5. CASE PutNowait
      BY <2>1, <2>5, EnqueueKeeps, FullKeeps DEF PutNowait
    <2>6. CASE Evict
      BY <2>1, <2>6, EvictKeeps
    <2> QED BY <1>2, <2>2, <2>3, <2>4, <2>5, <2>6 DEF ModelThread, PublishStep
  <1>3. CASE Tick
    <2>1. current \in Nat
      BY DEF ManagerInv, TypeOK
    <2> QED BY <1>3, <2>1, AdvanceBeginKeeps DEF Tick, environment
  <1>4. CASE UIThread
    <2>1. UNCHANGED environment
      BY <1>4 DEF UIThread, environment
    <2> QED BY <1>4, <2>1, IsDueKeeps, TakeChunkKeeps, TakeEmptyKeeps,
               MarkAdvancedKeeps DEF UIThread, AdvanceStep
  <1>5. CASE CloseManager
    BY <1>5, CloseManagerKeeps
  <1>6. CASE ResetArrives \/ SetStop \/ Finished \/ UNCHANGED presentationVars
    BY <1>6, EnvironmentKeeps DEF Finished
  <1> QED BY <1>1, <1>2, <1>3, <1>4, <1>5, <1>6 DEF Next

(***************************************************************************)
(* No chunk that the model thread publishes vanishes, and none is counted  *)
(* twice, at any step of publish, advance and close.                       *)
(***************************************************************************)
THEOREM NoChunkIsLost == Spec => []ChunksAccounted
  <1>1. ManagerInv => ChunksAccounted
    BY DEF ManagerInv
  <1> QED BY InitManager, NextManager, <1>1, PTL DEF Spec

(***************************************************************************)
(* With BLOCK the manager drops no chunk for want of space, and whatever   *)
(* the mode only a stop makes publish give a chunk up.                     *)
(***************************************************************************)
THEOREM BlockKeepsEveryChunk == Spec => []BlockDropsNothing
  <1>1. ManagerInv => BlockDropsNothing
    BY DEF ManagerInv
  <1> QED BY InitManager, NextManager, <1>1, PTL DEF Spec

(***************************************************************************)
(* Whatever was generated before a reset is not presented after a tick     *)
(* under the new generation, and the frame index stays within the chunk.   *)
(***************************************************************************)
THEOREM NothingStaleIsPresented == Spec => [](TypeOK /\ NothingStalePresented)
  <1>1. ManagerInv => TypeOK /\ NothingStalePresented
    BY DEF ManagerInv
  <1> QED BY InitManager, NextManager, <1>1, PTL DEF Spec

-----------------------------------------------------------------------------
(* The order of the frames.                                                 *)

\* The chunks that have left publish.
Entered == Len(published) - InHand(publisher.chunk)

\* An advance works under the latest generation, and no step is newer.
TimesOK ==
    /\ generation <= current
    /\ presenter.pc # "idle" => generation = current
    /\ closed => stop /\ presenter.pc = "idle"
    /\ \A k \in 1 .. Len(published) : published[k] <= current

\* The last frame shown is the presented one.  If nothing is presented, it is of
\* an older generation, and a chunk is taken only when the last one is used up.
ShownOK ==
    /\ shown.generation <= generation /\ shown.serial <= Entered
    /\ presented # NoChunk =>
          shown = [generation |-> presented.generation, serial |-> presented.serial,
                   frame |-> frameIndex, frames |-> presented.frames]
    /\ presented = NoChunk /\ ~closed =>
          shown = NothingShown \/ shown.generation < generation
    /\ presenter.pc = "take" \/ presenter.selected # NoChunk => ~HasNextFrame

\* On the way from publish to the screen chunks keep their order.
InHandsOK ==
    /\ publisher.chunk # NoChunk =>
          /\ publisher.chunk.serial = Len(published)
          /\ publisher.chunk.generation = published[Len(published)]
    /\ presenter.selected # NoChunk =>
          shown.serial < presenter.selected.serial /\ presenter.selected.serial <= Entered

QueueOK ==
    /\ \A i \in 1 .. Len(buffered) :
          /\ shown.serial < buffered[i].serial /\ buffered[i].serial <= Entered
          /\ buffered[i].generation = published[buffered[i].serial]
          /\ presenter.selected # NoChunk =>
                presenter.selected.serial < buffered[i].serial
    /\ \A i, j \in 1 .. Len(buffered) : i < j => buffered[i].serial < buffered[j].serial

InLine(k) ==
    \/ presenter.selected # NoChunk /\ presenter.selected.serial = k
    \/ \E i \in 1 .. Len(buffered) : buffered[i].serial = k

\* With BLOCK every chunk that entered the queue is shown, in line, or stale; those
\* given up are the last ones.
NoneSkippedOK ==
    mode = "BLOCK" /\ ~closed =>
        /\ publisher.pc = "put" => gaveUp = 0
        /\ \A k \in 1 .. Len(published) :
              shown.serial < k /\ k <= Entered - gaveUp =>
                 InLine(k) \/ published[k] < generation
        /\ \A k \in 1 .. Len(published) : InLine(k) => k <= Entered - gaveUp

\* FramesInOrder is not inductive: it needs the order of the chunks on their way.
OrderInv == TimesOK /\ ShownOK /\ InHandsOK /\ QueueOK /\ NoneSkippedOK

\* The types that the proofs below add and compare with.
LEMMA OrderFacts ==
  ASSUME ManagerInv
  PROVE  /\ Len(published) \in Nat /\ Len(buffered) \in Nat /\ Entered \in Int
         /\ \A i \in 1 .. Len(buffered) : buffered[i] \in Chunks
         /\ \A k \in 1 .. Len(published) : published[k] \in Nat
         /\ \A c \in Chunks : /\ c # NoChunk /\ c.serial \in Nat \ {0}
                              /\ c.generation \in Nat /\ c.frames \in Nat \ {0}
         /\ shown.serial \in Nat /\ shown.generation \in Nat
         /\ generation \in Nat /\ current \in Nat /\ gaveUp \in Nat
         /\ frameIndex \in Int
         /\ publisher.chunk \in Chunks \cup {NoChunk}
         /\ presenter.selected \in Chunks \cup {NoChunk}
         /\ presented \in Chunks \cup {NoChunk}
         /\ publisher.chunk = NoChunk => Entered = Len(published)
         /\ publisher.chunk # NoChunk => Entered = Len(published) - 1
  <1>1. TypeOK
    BY DEF ManagerInv
  <1>2. /\ \A i \in 1 .. Len(buffered) : buffered[i] \in Chunks
        /\ \A k \in 1 .. Len(published) : published[k] \in Nat
    BY <1>1, ElementOfSeq DEF TypeOK
  <1>3. \A c \in Chunks : /\ c # NoChunk /\ c.serial \in Nat \ {0}
                          /\ c.generation \in Nat /\ c.frames \in Nat \ {0}
    BY NoChunkIsNoChunk, FrameCountsArePositive DEF Chunks
  <1>4. /\ publisher.chunk \in Chunks \cup {NoChunk} /\ Len(published) \in Nat
        /\ presenter.selected \in Chunks \cup {NoChunk} /\ Len(buffered) \in Nat
    BY <1>1, Hands
  <1>5. /\ publisher.chunk = NoChunk => InHand(publisher.chunk) = 0
        /\ publisher.chunk # NoChunk => InHand(publisher.chunk) = 1
    BY DEF InHand
  <1>6. /\ publisher.chunk = NoChunk => Entered = Len(published)
        /\ publisher.chunk # NoChunk => Entered = Len(published) - 1
    BY <1>4, <1>5 DEF Entered
  <1>7. Entered \in Int
    BY <1>4, <1>6
  <1>8. /\ shown.serial \in Nat /\ shown.generation \in Nat
        /\ generation \in Nat /\ current \in Nat /\ gaveUp \in Nat
        /\ frameIndex \in Int /\ presented \in Chunks \cup {NoChunk}
    BY <1>1 DEF TypeOK
  <1> QED BY <1>2, <1>3, <1>4, <1>6, <1>7, <1>8

\* A step of the publisher that moves no chunk.
LEMMA SameOrder ==
  ASSUME ManagerInv, OrderInv,
         UNCHANGED <<environment, buffered, published, presenterVars>>,
         Entered' - gaveUp' = Entered - gaveUp, Entered' \in {Entered, Entered + 1},
         gaveUp' \in Nat,
         publisher'.pc = "put" => gaveUp' = 0,
         publisher'.chunk \in {publisher.chunk, NoChunk}
  PROVE  OrderInv'
  <1>1. UNCHANGED <<mode, stop, current, closed, buffered, published, generation,
                    presented, frameIndex, presenter, shown>>
    BY DEF environment, presenterVars
  <1>2. /\ shown.serial \in Nat /\ Entered \in Int /\ Entered' \in Int
        /\ Entered <= Entered' /\ gaveUp \in Nat
        /\ \A i \in 1 .. Len(buffered) : buffered[i].serial \in Nat
        /\ presenter.selected # NoChunk => presenter.selected.serial \in Nat
    BY OrderFacts, SMTT(20)
  <1>3. TimesOK' /\ ShownOK'
    BY <1>1, <1>2 DEF OrderInv, TimesOK, ShownOK, HasNextFrame
  <1>4. InHandsOK'
    BY <1>1, <1>2 DEF OrderInv, InHandsOK
  <1>5. QueueOK'
    BY <1>1, <1>2, SMTT(20) DEF OrderInv, QueueOK
  <1>6. \A k : InLine(k)' <=> InLine(k)
    BY <1>1 DEF InLine
  <1>7. NoneSkippedOK'
    BY <1>1, <1>2, <1>6 DEF OrderInv, NoneSkippedOK
  <1> QED BY <1>3, <1>4, <1>5, <1>7 DEF OrderInv

\* What is left of the queue without its head.
LEMMA TailFacts ==
  ASSUME ManagerInv, buffered # <<>>, buffered' = Tail(buffered)
  PROVE  /\ Head(buffered) = buffered[1] /\ 1 \in 1 .. Len(buffered)
         /\ Len(buffered) \in Nat /\ Len(buffered') = Len(buffered) - 1
         /\ \A i \in 1 .. Len(buffered') :
               i + 1 \in 1 .. Len(buffered) /\ buffered'[i] = buffered[i + 1]
         /\ \A i \in 1 .. Len(buffered) :
               i = 1 \/ (i - 1 \in 1 .. Len(buffered') /\ buffered'[i - 1] = buffered[i])
  <1>1. buffered \in Seq(Chunks)
    BY DEF ManagerInv, TypeOK
  <1>2. /\ Head(buffered) = buffered[1] /\ Len(buffered) \in Nat \ {0}
        /\ Len(buffered') = Len(buffered) - 1
        /\ \A i \in 1 .. Len(buffered') : buffered'[i] = buffered[i + 1]
    BY <1>1, EmptySeq, HeadTailProperties
  <1>3. ASSUME NEW i \in 1 .. Len(buffered), i # 1
        PROVE  i - 1 \in 1 .. Len(buffered') /\ buffered'[i - 1] = buffered[i]
    BY <1>2, <1>3
  <1> QED BY <1>2, <1>3

LEMMA TailOrders ==
  ASSUME ManagerInv, QueueOK, buffered # <<>>, buffered' = Tail(buffered)
  PROVE  /\ \A i \in 1 .. Len(buffered') :
               /\ shown.serial < buffered'[i].serial /\ buffered'[i].serial <= Entered
               /\ buffered'[i].generation = published[buffered'[i].serial]
               /\ presenter.selected # NoChunk =>
                     presenter.selected.serial < buffered'[i].serial
               /\ Head(buffered).serial < buffered'[i].serial
         /\ \A i, j \in 1 .. Len(buffered') :
               i < j => buffered'[i].serial < buffered'[j].serial
  <1>1. ASSUME NEW i \in 1 .. Len(buffered')
        PROVE  i + 1 \in 1 .. Len(buffered) /\ buffered'[i] = buffered[i + 1]
               /\ 1 < i + 1 /\ 1 \in 1 .. Len(buffered) /\ Head(buffered) = buffered[1]
    BY TailFacts
  <1>2. ASSUME NEW i \in 1 .. Len(buffered'), NEW j \in 1 .. Len(buffered'), i < j
        PROVE  buffered'[i].serial < buffered'[j].serial
    <2>1. i + 1 < j + 1
      BY <1>2
    <2> QED BY <1>1, <2>1 DEF QueueOK
  <1> QED BY <1>1, <1>2 DEF QueueOK

\* The oldest chunk is thrown away: only the latest mode does that.
LEMMA EvictOrders ==
  ASSUME ManagerInv, OrderInv, Evict, UNCHANGED environment
  PROVE  OrderInv'
  <1>1. /\ UNCHANGED <<mode, stop, current, closed, published, generation, presented,
                       frameIndex, presenter, shown>>
        /\ publisher.pc = "evict" /\ PublisherAt("checkStopLatest")
        /\ buffered' = buffered \/ (buffered # <<>> /\ buffered' = Tail(buffered))
    BY DEF Evict, environment, presenterVars
  <1>2. publisher'.chunk = publisher.chunk /\ Entered' = Entered
    BY <1>1, PublisherMoves DEF ManagerInv, TypeOK, Entered
  <1>3. TimesOK' /\ ShownOK' /\ InHandsOK'
    BY <1>1, <1>2 DEF OrderInv, TimesOK, ShownOK, InHandsOK, HasNextFrame
  <1>4. QueueOK'
    <2>1. CASE buffered' = buffered
      BY <1>1, <1>2, <2>1 DEF OrderInv, QueueOK
    <2>2. CASE buffered # <<>> /\ buffered' = Tail(buffered)
      BY <1>1, <1>2, <2>2, TailOrders DEF OrderInv, QueueOK
    <2> QED BY <1>1, <2>1, <2>2
  <1>5. NoneSkippedOK'
    BY <1>1 DEF ManagerInv, HandsOK, NoneSkippedOK
  <1> QED BY <1>3, <1>4, <1>5 DEF OrderInv

\* A chunk more was published: it is the newest, and still in publish.
LEMMA PublishBeginOrders ==
  ASSUME ManagerInv, OrderInv, NEW g \in Nat, g <= current, NEW frames \in FrameCounts,
         PublishBegin(g, frames), UNCHANGED environment
  PROVE  OrderInv'
  <1>1. /\ UNCHANGED <<mode, stop, current, closed, buffered, generation, presented,
                       frameIndex, presenter, shown, gaveUp>>
        /\ published' = Append(published, g) /\ publisher.pc = "idle"
        /\ publisher'.chunk = [generation |-> g, serial |-> Len(published) + 1,
                               frames |-> frames]
        /\ publisher'.pc # "put"
    BY DEF PublishBegin, environment, presenterVars
  <1>2. /\ Len(published) \in Nat /\ Len(published') = Len(published) + 1
        /\ \A k \in 1 .. Len(published) : published'[k] = published[k]
        /\ published'[Len(published) + 1] = g
    <2>1. published \in Seq(Nat)
      BY DEF ManagerInv, TypeOK
    <2> QED BY <1>1, <2>1, AppendProperties
  <1>3. /\ publisher'.chunk \in Chunks /\ publisher'.chunk # NoChunk
        /\ publisher'.chunk.serial = Len(published') /\ publisher'.chunk.generation = g
    <2>1. publisher'.chunk \in Chunks
      BY <1>1, <1>2 DEF Chunks
    <2> QED BY <1>1, <1>2, <2>1, OrderFacts
  <1>4. Entered = Len(published) /\ Entered' = Entered
    <2>1. publisher.chunk = NoChunk
      BY <1>1 DEF ManagerInv, HandsOK
    <2>2. InHand(publisher'.chunk) = 1
      BY <1>3 DEF InHand
    <2> QED BY <1>2, <2>1, <2>2, OrderFacts DEF Entered
  <1>5. /\ shown.serial \in Nat /\ gaveUp \in Nat /\ current \in Nat
        /\ \A i \in 1 .. Len(buffered) : buffered[i].serial \in Nat \ {0}
        /\ presenter.selected # NoChunk => presenter.selected.serial \in Nat \ {0}
    BY OrderFacts
  <1>6. TimesOK'
    BY <1>1, <1>2 DEF OrderInv, TimesOK
  <1>7. ShownOK'
    BY <1>1, <1>4 DEF OrderInv, ShownOK, HasNextFrame
  <1>8. InHandsOK'
    BY <1>1, <1>2, <1>3, <1>4 DEF OrderInv, InHandsOK
  <1>9. QueueOK'
    BY <1>1, <1>2, <1>4, <1>5 DEF OrderInv, QueueOK
  <1>10. \A k : InLine(k)' <=> InLine(k)
    BY <1>1 DEF InLine
  <1>11. \A k : InLine(k) => k \in Nat /\ k <= Entered
    BY <1>5 DEF InLine, OrderInv, InHandsOK, QueueOK
  <1>12. NoneSkippedOK'
    BY <1>1, <1>2, <1>4, <1>5, <1>10, <1>11 DEF OrderInv, NoneSkippedOK
  <1> QED BY <1>6, <1>7, <1>8, <1>9, <1>12 DEF OrderInv

\* A chunk put at the end of the line.
LEMMA EnqueueOrders ==
  ASSUME ManagerInv, OrderInv, publisher.pc \in {"put", "putNowait"}, Enqueue,
         UNCHANGED environment
  PROVE  OrderInv'
  <1> DEFINE chunk == publisher.chunk
  <1>1. /\ UNCHANGED <<mode, stop, current, closed, published, generation, presented,
                       frameIndex, presenter, shown, gaveUp>>
        /\ buffered' = Append(buffered, chunk)
        /\ publisher'.chunk = NoChunk /\ publisher'.pc = "idle"
    BY DEF Enqueue, PublisherDone, environment, presenterVars
  <1>2. chunk \in Chunks /\ chunk # NoChunk
    BY OrderFacts DEF ManagerInv, HandsOK
  <1>3. /\ chunk.serial = Len(published) /\ chunk.generation = published[Len(published)]
        /\ Entered = Len(published) - 1 /\ Entered' = Len(published)
        /\ Len(published) \in Nat
    <2>1. InHand(publisher'.chunk) = 0
      BY <1>1 DEF InHand
    <2> QED BY <1>1, <1>2, <2>1, OrderFacts DEF OrderInv, InHandsOK, Entered
  <1> HIDE DEF chunk
  <1>4. /\ Len(buffered) \in Nat /\ Len(buffered') = Len(buffered) + 1
        /\ \A i \in 1 .. Len(buffered) : buffered'[i] = buffered[i]
        /\ buffered'[Len(buffered) + 1] = chunk
    <2>1. buffered \in Seq(Chunks)
      BY DEF ManagerInv, TypeOK
    <2> QED BY <1>1, <1>2, <2>1, AppendProperties
  <1>5. /\ shown.serial \in Nat /\ gaveUp \in Nat
        /\ \A i \in 1 .. Len(buffered) : buffered[i].serial \in Nat
        /\ presenter.selected # NoChunk => presenter.selected.serial \in Nat
    BY OrderFacts
  <1>6. TimesOK'
    BY <1>1 DEF OrderInv, TimesOK
  <1>7. ShownOK'
    BY <1>1, <1>3, <1>5 DEF OrderInv, ShownOK, HasNextFrame
  <1>8. InHandsOK'
    BY <1>1, <1>3, <1>5 DEF OrderInv, InHandsOK
  <1>9. QueueOK'
    <2>1. ASSUME NEW i \in 1 .. Len(buffered')
          PROVE  /\ shown.serial < buffered'[i].serial /\ buffered'[i].serial <= Entered'
                 /\ buffered'[i].generation = published[buffered'[i].serial]
                 /\ presenter.selected # NoChunk =>
                       presenter.selected.serial < buffered'[i].serial
      <3>1. CASE i = Len(buffered) + 1
        BY <1>3, <1>4, <1>5, <3>1 DEF OrderInv, ShownOK, InHandsOK
      <3>2. CASE i \in 1 .. Len(buffered)
        BY <1>3, <1>4, <1>5, <3>2 DEF OrderInv, QueueOK
      <3> QED BY <1>4, <3>1, <3>2
    <2>2. ASSUME NEW i \in 1 .. Len(buffered'), NEW j \in 1 .. Len(buffered'), i < j
          PROVE  buffered'[i].serial < buffered'[j].serial
      <3>1. i \in 1 .. Len(buffered)
        BY <1>4, <2>2
      <3>2. CASE j = Len(buffered) + 1
        BY <1>3, <1>4, <1>5, <3>1, <3>2 DEF OrderInv, QueueOK
      <3>3. CASE j \in 1 .. Len(buffered)
        BY <1>4, <2>2, <3>1, <3>3 DEF OrderInv, QueueOK
      <3> QED BY <1>4, <3>2, <3>3
    <2> QED BY <1>1, <2>1, <2>2 DEF QueueOK
  <1>10. \A k : InLine(k)' <=> InLine(k) \/ k = chunk.serial
    <2>1. 1 .. Len(buffered') = (1 .. Len(buffered)) \cup {Len(buffered) + 1}
      BY <1>4
    <2> QED BY <1>1, <1>4, <2>1 DEF InLine
  <1>11. ASSUME mode = "BLOCK", ~closed
         PROVE  gaveUp = 0
    <2>1. publisher.pc = "put"
      BY <1>11 DEF ManagerInv, HandsOK
    <2> QED BY <1>11, <2>1 DEF OrderInv, NoneSkippedOK
  <1>12. NoneSkippedOK'
    BY <1>1, <1>3, <1>5, <1>10, <1>11 DEF OrderInv, NoneSkippedOK
  <1> QED BY <1>6, <1>7, <1>8, <1>9, <1>12 DEF OrderInv

\* The rest of publish.
LEMMA PublishOrders ==
  ASSUME ManagerInv, OrderInv, PublishStep, UNCHANGED environment
  PROVE  OrderInv'
  <1>1. publisher \in Publishers /\ gaveUp \in Nat /\ Entered \in Int
    BY OrderFacts DEF ManagerInv, TypeOK
  <1>2. CASE CheckStop /\ stop
    <2>1. UNCHANGED <<environment, buffered, published, presenterVars>>
      BY <1>2 DEF CheckStop
    <2>2. publisher'.chunk = NoChunk /\ publisher'.pc = "idle" /\ gaveUp' = gaveUp + 1
      BY <1>2 DEF CheckStop, PublisherDone
    <2>3. Entered' = Entered + 1
      <3>1. publisher.chunk # NoChunk
        BY <1>2 DEF CheckStop, ManagerInv, HandsOK
      <3>2. InHand(publisher.chunk) = 1 /\ InHand(publisher'.chunk) = 0
        BY <2>2, <3>1 DEF InHand
      <3>3. Len(published) \in Nat /\ Len(published') = Len(published)
        BY <2>1, OrderFacts
      <3> QED BY <3>2, <3>3 DEF Entered
    <2> QED BY <1>1, <2>1, <2>2, <2>3, SameOrder
  <1>3. ASSUME UNCHANGED <<buffered, published, gaveUp, presenterVars>>,
               NEW pc \in {"checkStop", "put", "checkStopLatest", "putNowait", "evict"},
               PublisherAt(pc), pc = "put" => gaveUp = 0
        PROVE  OrderInv'
    <2>1. publisher'.chunk = publisher.chunk /\ publisher'.pc = pc
      BY <1>1, <1>3, PublisherMoves
    <2>2. Entered' = Entered
      BY <1>3, <2>1 DEF Entered
    <2> QED BY <1>1, <1>3, <2>1, <2>2, SameOrder
  <1>4. CASE CheckStop /\ ~stop
    <2>1. gaveUp = 0
      BY <1>1, <1>4 DEF ManagerInv, BlockDropsNothing
    <2> QED BY <1>3, <1>4, <2>1 DEF CheckStop
  <1>5. CASE Put
    BY <1>5, EnqueueOrders DEF Put
  <1>6. CASE PutTimeout
    BY <1>3, <1>6 DEF PutTimeout
  <1>7. CASE PutNowait
    BY <1>3, <1>7, EnqueueOrders DEF PutNowait
  <1>8. CASE Evict
    BY <1>8, EvictOrders
  <1> QED BY <1>2, <1>4, <1>5, <1>6, <1>7, <1>8 DEF PublishStep

\* advance begins: the generation is the latest one, which drops older frames.
LEMMA AdvanceBeginOrders ==
  ASSUME ManagerInv, OrderInv, AdvanceBegin(current), ~stop, UNCHANGED environment
  PROVE  OrderInv'
  <1>1. /\ UNCHANGED <<mode, stop, current, closed, buffered, shown, published, gaveUp,
                       publisher>>
        /\ generation' = current
        /\ \/ current # generation /\ presented' = NoChunk
           \/ current = generation /\ UNCHANGED <<presented, frameIndex>>
        /\ presenter.pc = "idle" /\ presenter'.pc = "isDue"
        /\ presenter'.selected = NoChunk
    BY DEF AdvanceBegin, environment, publisherVars
  <1>2. presenter.selected = NoChunk /\ ~closed
    BY <1>1 DEF ManagerInv, HandsOK, OrderInv, TimesOK
  <1>3. Entered' = Entered
    BY <1>1 DEF Entered
  <1>4. /\ shown.generation \in Nat /\ generation \in Nat /\ current \in Nat
        /\ \A k \in 1 .. Len(published) : published[k] \in Nat
    BY OrderFacts
  <1>5. TimesOK'
    BY <1>1, <1>2, <1>4 DEF OrderInv, TimesOK
  <1>6. ShownOK'
    BY <1>1, <1>2, <1>3, <1>4 DEF OrderInv, TimesOK, ShownOK
  <1>7. InHandsOK' /\ QueueOK'
    BY <1>1, <1>2, <1>3 DEF OrderInv, InHandsOK, QueueOK
  <1>8. \A k : InLine(k)' <=> InLine(k)
    BY <1>1, <1>2 DEF InLine
  <1>9. NoneSkippedOK'
    BY <1>1, <1>2, <1>3, <1>4, <1>8 DEF OrderInv, NoneSkippedOK, TimesOK
  <1> QED BY <1>5, <1>6, <1>7, <1>9 DEF OrderInv

\* Inside advance without a chunk moving.
LEMMA PlaceOrders ==
  ASSUME ManagerInv, OrderInv, presenter.pc # "idle",
         UNCHANGED <<environment, buffered, generation, presented, frameIndex, shown,
                     publisherVars>>,
         presenter'.selected = presenter.selected,
         presenter'.pc = "take" => ~HasNextFrame
  PROVE  OrderInv'
  <1>1. UNCHANGED <<mode, stop, current, closed, published, gaveUp, publisher>>
    BY DEF environment, publisherVars
  <1>2. Entered' = Entered
    BY <1>1 DEF Entered
  <1>3. TimesOK' /\ ShownOK'
    BY <1>1, <1>2 DEF OrderInv, TimesOK, ShownOK, HasNextFrame
  <1>4. InHandsOK' /\ QueueOK'
    BY <1>1, <1>2 DEF OrderInv, InHandsOK, QueueOK
  <1>5. \A k : InLine(k)' <=> InLine(k)
    BY <1>1 DEF InLine
  <1>6. NoneSkippedOK'
    BY <1>1, <1>2, <1>5 DEF OrderInv, NoneSkippedOK
  <1> QED BY <1>3, <1>4, <1>6 DEF OrderInv

\* A chunk taken from the queue is the next in line, or stale for good.
LEMMA TakeChunkOrders ==
  ASSUME ManagerInv, OrderInv, TakeChunk, UNCHANGED environment
  PROVE  OrderInv'
  <1> DEFINE chunk == Head(buffered)
  <1>1. /\ UNCHANGED <<mode, stop, current, closed, shown, published, gaveUp, publisher,
                       generation, presented, frameIndex>>
        /\ buffered # <<>> /\ buffered' = Tail(buffered) /\ presenter.pc = "take"
        /\ \/ chunk.generation # generation /\ presenter' = presenter
           \/ /\ chunk.generation = generation
              /\ presenter' = [presenter EXCEPT !.selected = chunk,
                                  !.pc = IF mode = "BLOCK" THEN "mark" ELSE "take"]
    BY DEF TakeChunk, environment, publisherVars, presentedVars
  <1>2. Entered' = Entered
    BY <1>1 DEF Entered
  <1>3. /\ chunk = buffered[1] /\ 1 \in 1 .. Len(buffered)
        /\ chunk \in Chunks /\ chunk # NoChunk
        /\ chunk.serial \in 1 .. Len(published)
        /\ shown.serial < chunk.serial /\ chunk.serial <= Entered
        /\ chunk.generation = published[chunk.serial]
    <2>1. chunk = buffered[1] /\ 1 \in 1 .. Len(buffered)
      BY <1>1, TailFacts
    <2>2. /\ shown.serial < chunk.serial /\ chunk.serial <= Entered
          /\ chunk.generation = published[chunk.serial]
      BY <2>1 DEF OrderInv, QueueOK
    <2>3. chunk \in Chunks
      BY <2>1, OrderFacts
    <2> QED BY <2>1, <2>2, <2>3, OrderFacts
  <1> HIDE DEF chunk
  <1>4. /\ \A i \in 1 .. Len(buffered') :
               /\ shown.serial < buffered'[i].serial /\ buffered'[i].serial <= Entered
               /\ buffered'[i].generation = published[buffered'[i].serial]
               /\ presenter.selected # NoChunk =>
                     presenter.selected.serial < buffered'[i].serial
               /\ chunk.serial < buffered'[i].serial
        /\ \A i, j \in 1 .. Len(buffered') :
               i < j => buffered'[i].serial < buffered'[j].serial
    BY <1>1, TailOrders DEF OrderInv, chunk
  <1>5. \A k : (\E i \in 1 .. Len(buffered) : buffered[i].serial = k)
                  => \/ k = chunk.serial
                     \/ \E i \in 1 .. Len(buffered') : buffered'[i].serial = k
    <2>1. ASSUME NEW i \in 1 .. Len(buffered), i # 1
          PROVE  \E j \in 1 .. Len(buffered') : buffered'[j].serial = buffered[i].serial
      <3>1. i - 1 \in 1 .. Len(buffered') /\ buffered'[i - 1] = buffered[i]
        BY <1>1, <2>1, TailFacts
      <3> QED BY <3>1
    <2> QED BY <1>3, <2>1
  <1>6. \A k : (\E i \in 1 .. Len(buffered') : buffered'[i].serial = k)
                  => \E i \in 1 .. Len(buffered) : buffered[i].serial = k
    BY <1>1, TailFacts
  <1>7. presenter \in Presenters /\ (mode = "BLOCK" => presenter.selected = NoChunk)
    BY <1>1 DEF ManagerInv, TypeOK, HandsOK
  <1>8. ~HasNextFrame /\ ~HasNextFrame'
    BY <1>1 DEF OrderInv, ShownOK, HasNextFrame
  <1>9. CASE chunk.generation # generation /\ presenter' = presenter
    <2>1. TimesOK' /\ ShownOK' /\ InHandsOK'
      BY <1>1, <1>2, <1>9 DEF OrderInv, TimesOK, ShownOK, InHandsOK, HasNextFrame
    <2>2. QueueOK'
      BY <1>1, <1>2, <1>4, <1>9 DEF QueueOK
    <2>3. published[chunk.serial] < generation
      BY <1>1, <1>3, <1>9, OrderFacts DEF OrderInv, TimesOK
    <2>4. \A k : InLine(k) => InLine(k)' \/ k = chunk.serial
      BY <1>5, <1>9 DEF InLine
    <2>5. \A k : InLine(k)' => InLine(k)
      BY <1>6, <1>9 DEF InLine
    <2>6. NoneSkippedOK'
      BY <1>1, <1>2, <2>3, <2>4, <2>5 DEF OrderInv, NoneSkippedOK
    <2> QED BY <2>1, <2>2, <2>6 DEF OrderInv
  <1>10. CASE /\ chunk.generation = generation
              /\ presenter' = [presenter EXCEPT !.selected = chunk,
                                  !.pc = IF mode = "BLOCK" THEN "mark" ELSE "take"]
    <2>1. presenter'.selected = chunk /\ presenter'.pc # "idle"
      BY <1>7, <1>10 DEF Presenters
    <2>2. TimesOK' /\ ShownOK'
      BY <1>1, <1>2, <1>8, <2>1 DEF OrderInv, TimesOK, ShownOK
    <2>3. InHandsOK'
      BY <1>1, <1>2, <1>3, <2>1 DEF OrderInv, InHandsOK
    <2>4. QueueOK'
      BY <1>1, <1>2, <1>4, <2>1 DEF QueueOK
    <2>5. mode = "BLOCK" => \A k : InLine(k)' <=> InLine(k)
      <3>1. \A k : InLine(k)' <=>
               chunk.serial = k \/ \E i \in 1 .. Len(buffered') : buffered'[i].serial = k
        BY <1>3, <2>1 DEF InLine
      <3>2. mode = "BLOCK" =>
               \A k : InLine(k) <=> \E i \in 1 .. Len(buffered) : buffered[i].serial = k
        BY <1>7 DEF InLine
      <3>3. \E i \in 1 .. Len(buffered) : buffered[i].serial = chunk.serial
        BY <1>3
      <3> QED BY <1>5, <1>6, <3>1, <3>2, <3>3
    <2>6. NoneSkippedOK'
      BY <1>1, <1>2, <2>5 DEF OrderInv, NoneSkippedOK
    <2> QED BY <2>2, <2>3, <2>4, <2>6 DEF OrderInv
  <1> QED BY <1>1, <1>9, <1>10

\* A frame selected is the next one of the chunk on show, or the first one of the
\* next chunk in line.
LEMMA MarkAdvancedOrders ==
  ASSUME ManagerInv, OrderInv, MarkAdvanced, UNCHANGED environment
  PROVE  /\ OrderInv' /\ Follows(shown', shown)
         /\ mode = "BLOCK" => FollowsAtOnce(shown', shown)
  <1> DEFINE fresh == presenter.selected # NoChunk
             chunk == IF fresh THEN presenter.selected ELSE presented
             index == IF fresh THEN 0 ELSE frameIndex + 1
  <1>1. /\ UNCHANGED <<mode, stop, current, closed, buffered, published, gaveUp,
                       publisher, generation>>
        /\ presenter.pc = "mark" /\ presented' = chunk /\ frameIndex' = index
        /\ shown' = [generation |-> chunk.generation, serial |-> chunk.serial,
                     frame |-> index, frames |-> chunk.frames]
        /\ presenter'.pc = "idle" /\ presenter'.selected = NoChunk
    BY DEF MarkAdvanced, environment, publisherVars, PresenterDone
  <1>2. chunk \in Chunks /\ chunk # NoChunk /\ chunk.generation = generation
    <2>1. CASE fresh
      BY <2>1, OrderFacts DEF ManagerInv, HandsOK
    <2>2. CASE ~fresh
      <3>1. HasNextFrame
        BY <1>1, <2>2 DEF ManagerInv, HandsOK
      <3>2. presented # NoChunk
        BY <3>1 DEF HasNextFrame
      <3> QED BY <2>2, <3>2, OrderFacts DEF ManagerInv, NothingStalePresented
    <2> QED BY <2>1, <2>2
  <1>3. Entered' = Entered
    BY <1>1 DEF Entered
  <1>4. /\ shown.serial \in Nat /\ chunk.serial \in Nat \ {0} /\ Entered \in Int
        /\ generation \in Nat /\ frameIndex \in Int /\ gaveUp \in Nat
        /\ Len(published) \in Nat /\ shown.generation \in Nat
        /\ chunk.frames \in Nat \ {0} /\ Entered <= Len(published)
    BY <1>2, OrderFacts
  <1>5. ~closed
    BY <1>1 DEF OrderInv, TimesOK
  <1>6. /\ shown'.serial = chunk.serial /\ shown'.generation = generation
        /\ shown'.frame = index /\ shown.serial <= chunk.serial
        /\ chunk.serial <= Entered
    <2>1. fresh => shown.serial < chunk.serial /\ chunk.serial <= Entered
      BY DEF OrderInv, InHandsOK
    <2>2. ~fresh => shown.serial = chunk.serial /\ chunk.serial <= Entered
      BY <1>2 DEF OrderInv, ShownOK
    <2> QED BY <1>1, <1>2, <1>4, <2>1, <2>2
  <1>7. CASE ~fresh
    <2>1. /\ chunk = presented /\ index = frameIndex + 1
          /\ shown.generation = generation /\ shown.serial = chunk.serial
          /\ shown.frame = frameIndex
      BY <1>2, <1>7 DEF OrderInv, ShownOK
    <2>2. Follows(shown', shown) /\ FollowsAtOnce(shown', shown)
      BY <1>6, <2>1 DEF Follows, FollowsAtOnce
    <2>3. TimesOK' /\ ShownOK'
      BY <1>1, <1>2, <1>3, <1>4, <1>6 DEF OrderInv, TimesOK, ShownOK
    <2>4. InHandsOK' /\ QueueOK'
      BY <1>1, <1>3, <1>6, <2>1 DEF OrderInv, InHandsOK, QueueOK
    <2>5. \A k : InLine(k)' <=> InLine(k)
      BY <1>1, <1>7 DEF InLine
    <2>6. NoneSkippedOK'
      BY <1>1, <1>3, <1>6, <2>1, <2>5 DEF OrderInv, NoneSkippedOK
    <2> QED BY <2>2, <2>3, <2>4, <2>6 DEF OrderInv
  <1>8. CASE fresh
    <2>1. /\ chunk = presenter.selected /\ index = 0
          /\ shown.serial < chunk.serial /\ ~HasNextFrame
      BY <1>8 DEF OrderInv, InHandsOK, ShownOK
    <2>2. \A i \in 1 .. Len(buffered) : chunk.serial < buffered[i].serial
      BY <1>8, <2>1 DEF OrderInv, QueueOK
    <2>3. Follows(shown', shown)
      BY <1>4, <1>6, <2>1 DEF Follows, OrderInv, ShownOK
    <2>4. ASSUME mode = "BLOCK"
          PROVE  /\ chunk.serial <= Entered - gaveUp
                 /\ \A k \in 1 .. Len(published) :
                       shown.serial < k /\ k < chunk.serial => published[k] < generation
      <3>1. InLine(chunk.serial)
        BY <1>8, <2>1 DEF InLine
      <3>2. chunk.serial <= Entered - gaveUp
        BY <1>4, <1>5, <1>6, <2>4, <3>1 DEF OrderInv, NoneSkippedOK
      <3>3. ASSUME NEW k \in 1 .. Len(published), shown.serial < k, k < chunk.serial
            PROVE  published[k] < generation
        <4>1. ~InLine(k)
          BY <1>4, <2>1, <2>2, <3>3, OrderFacts DEF InLine
        <4> QED BY <1>4, <1>5, <2>4, <3>2, <3>3, <4>1 DEF OrderInv, NoneSkippedOK
      <3> QED BY <3>2, <3>3
    <2>5. mode = "BLOCK" => FollowsAtOnce(shown', shown)
      <3>1. SUFFICES ASSUME mode = "BLOCK", shown.generation = generation
                     PROVE  /\ shown.frame + 1 = shown.frames
                            /\ \A k \in shown.serial + 1 .. chunk.serial - 1 :
                                  published[k] # generation
        BY <1>6, <2>1 DEF FollowsAtOnce
      <3>2. shown.frame + 1 = shown.frames
        <4>1. CASE presented = NoChunk
          <5>1. shown = NothingShown
            BY <1>4, <1>5, <3>1, <4>1 DEF OrderInv, ShownOK
          <5> QED BY <5>1 DEF NothingShown
        <4>2. CASE presented # NoChunk
          <5>1. /\ frameIndex \in 0 .. presented.frames - 1
                /\ frameIndex + 1 >= presented.frames
            BY <1>4, <2>1, <4>2, OrderFacts
               DEF HasNextFrame, ManagerInv, NothingStalePresented
          <5>2. shown.frame = frameIndex /\ shown.frames = presented.frames
            BY <4>2 DEF OrderInv, ShownOK
          <5>3. presented.frames \in Nat
            BY <4>2, OrderFacts
          <5> QED BY <5>1, <5>2, <5>3
        <4> QED BY <4>1, <4>2
      <3>3. ASSUME NEW k \in shown.serial + 1 .. chunk.serial - 1
            PROVE  published[k] # generation
        <4>1. k \in 1 .. Len(published) /\ shown.serial < k /\ k < chunk.serial
          BY <1>4, <1>6, <3>3
        <4>2. published[k] < generation /\ published[k] \in Nat
          BY <2>4, <3>1, <4>1, OrderFacts
        <4> QED BY <1>4, <4>2
      <3> QED BY <3>2, <3>3
    <2>6. TimesOK' /\ ShownOK'
      BY <1>1, <1>2, <1>3, <1>4, <1>6 DEF OrderInv, TimesOK, ShownOK
    <2>7. InHandsOK' /\ QueueOK'
      BY <1>1, <1>3, <1>6, <2>2 DEF OrderInv, InHandsOK, QueueOK
    <2>8. \A k : InLine(k) <=> InLine(k)' \/ k = chunk.serial
      BY <1>1, <1>8, <2>1 DEF InLine
    <2>9. NoneSkippedOK'
      BY <1>1, <1>3, <1>4, <1>6, <2>1, <2>8 DEF OrderInv, NoneSkippedOK
    <2> QED BY <2>3, <2>5, <2>6, <2>7, <2>9 DEF OrderInv
  <1> QED BY <1>7, <1>8

\* What the rest of the session does to the manager.
LEMMA EnvironmentOrders ==
  ASSUME ManagerInv, OrderInv,
         ResetArrives \/ SetStop \/ CloseManager \/ UNCHANGED presentationVars
  PROVE  OrderInv'
  <1>1. UNCHANGED <<mode, publisher, presenter, generation, shown, published, gaveUp>>
    BY DEF ResetArrives, SetStop, CloseManager, Close, presentationVars, managerVars
  <1>2. Entered' = Entered
    BY <1>1 DEF Entered
  <1>3. /\ current \in Nat /\ generation \in Nat
        /\ \A k \in 1 .. Len(published) : published[k] \in Nat
    BY OrderFacts
  <1>4. CASE UNCHANGED <<buffered, presented, frameIndex, closed>>
    <2>1. TimesOK'
      <3>1. CASE UNCHANGED <<stop, current>>
        BY <1>1, <1>4, <3>1 DEF OrderInv, TimesOK
      <3>2. CASE presenter.pc = "idle" /\ ~stop /\ current' \in Nat /\ current <= current'
        BY <1>1, <1>3, <1>4, <3>2 DEF OrderInv, TimesOK
      <3>3. CASE ResetArrives
        <4>1. PICK g \in current + 1 .. MaxGeneration : current' = g
          BY <3>3 DEF ResetArrives
        <4> QED BY <1>3, <3>2, <3>3, <4>1, BoundsAreNat DEF ResetArrives
      <3>4. CASE SetStop
        BY <1>3, <3>2, <3>4 DEF SetStop
      <3>5. CASE CloseManager \/ UNCHANGED presentationVars
        BY <3>1, <3>5 DEF CloseManager, presentationVars
      <3> QED BY <3>3, <3>4, <3>5
    <2>2. ShownOK' /\ InHandsOK' /\ QueueOK'
      BY <1>1, <1>2, <1>4 DEF OrderInv, ShownOK, InHandsOK, QueueOK, HasNextFrame
    <2>3. \A k : InLine(k)' <=> InLine(k)
      BY <1>1, <1>4 DEF InLine
    <2>4. NoneSkippedOK'
      BY <1>1, <1>2, <1>4, <2>3 DEF OrderInv, NoneSkippedOK
    <2> QED BY <2>1, <2>2, <2>4 DEF OrderInv
  <1>5. CASE CloseManager
    <2>1. stop' /\ closed' = TRUE /\ presenter.pc = "idle" /\ UNCHANGED current
      BY <1>5 DEF CloseManager
    <2>2. presenter.selected = NoChunk
      BY <2>1 DEF ManagerInv, HandsOK
    <2>3. /\ UNCHANGED <<presented, frameIndex>> \/ presented' = NoChunk
          /\ buffered' = buffered \/ buffered' = <<>>
      BY <1>5 DEF CloseManager, Close, managerVars
    <2>4. TimesOK' /\ ShownOK' /\ NoneSkippedOK'
      BY <1>1, <1>2, <2>1, <2>2, <2>3
         DEF OrderInv, TimesOK, ShownOK, NoneSkippedOK, HasNextFrame
    <2>5. InHandsOK' /\ QueueOK'
      BY <1>1, <1>2, <2>3 DEF OrderInv, InHandsOK, QueueOK
    <2> QED BY <2>4, <2>5 DEF OrderInv
  <1> QED BY <1>4, <1>5 DEF ResetArrives, SetStop, presentationVars, managerVars

LEMMA InitOrder == Init => OrderInv
  <1> SUFFICES ASSUME Init PROVE OrderInv
    OBVIOUS
  <1>1. Entered = 0
    BY DEF Init, Entered, InHand
  <1>2. TimesOK /\ ShownOK
    BY <1>1 DEF Init, TimesOK, ShownOK, NothingShown
  <1>3. InHandsOK /\ QueueOK /\ NoneSkippedOK
    BY DEF Init, InHandsOK, QueueOK, NoneSkippedOK
  <1> QED BY <1>2, <1>3 DEF OrderInv

\* One step of the two threads: what it shows is in order, and stays so.
LEMMA NextOrder ==
  ASSUME ManagerInv, OrderInv, [Next]_presentationVars
  PROVE  /\ OrderInv'
         /\ shown' # shown => /\ Follows(shown', shown)
                              /\ mode = "BLOCK" => FollowsAtOnce(shown', shown)
  <1>1. CASE PublishNext
    <2>1. PICK g \in LastGeneration .. current, frames \in FrameCounts :
             PublishBegin(g, frames)
      BY <1>1 DEF PublishNext
    <2>2. UNCHANGED environment /\ UNCHANGED shown
      BY <1>1, <2>1 DEF PublishNext, environment, PublishBegin, presenterVars
    <2>3. LastGeneration \in Nat /\ current \in Nat
      <3>1. published \in Seq(Nat) /\ current \in Nat
        BY DEF ManagerInv, TypeOK
      <3>2. published # <<>> => Len(published) \in 1 .. Len(published)
        BY <3>1, EmptySeq
      <3> QED BY <3>1, <3>2, ElementOfSeq DEF LastGeneration
    <2>4. g \in Nat /\ g <= current
      BY <2>1, <2>3
    <2> QED BY <2>1, <2>2, <2>4, PublishBeginOrders
  <1>2. CASE ModelThread
    BY <1>2, PublishOrders DEF ModelThread, environment, PublishStep, CheckStop, Put,
       Enqueue, PutTimeout, PutNowait, Evict, presenterVars
  <1>3. CASE Tick
    BY <1>3, AdvanceBeginOrders DEF Tick, environment, AdvanceBegin
  <1>4. CASE UIThread
    <2>1. UNCHANGED environment
      BY <1>4 DEF UIThread, environment
    <2>2. CASE \E due \in BOOLEAN : IsDue(due)
      <3>1. /\ UNCHANGED <<buffered, generation, presented, frameIndex, shown,
                           publisherVars>>
            /\ presenter.pc = "isDue"
        BY <2>2 DEF IsDue
      <3>2. presenter.selected = NoChunk /\ presenter \in Presenters
        BY <3>1 DEF ManagerInv, TypeOK, HandsOK
      <3>3. presenter'.selected = NoChunk /\ (presenter'.pc = "take" => ~HasNextFrame)
        <4>1. CASE PresenterDone(FALSE)
          BY <4>1, PresenterDoneMoves
        <4>2. CASE HasNextFrame /\ presenter' = [presenter EXCEPT !.pc = "mark"]
          BY <3>2, <4>2, PresenterMoves
        <4>3. CASE ~HasNextFrame /\ presenter' = [presenter EXCEPT !.pc = "take"]
          BY <3>2, <4>3, PresenterMoves
        <4> QED BY <2>2, <4>1, <4>2, <4>3 DEF IsDue
      <3> QED BY <2>1, <3>1, <3>2, <3>3, PlaceOrders
    <2>3. CASE TakeChunk
      BY <2>1, <2>3, TakeChunkOrders DEF TakeChunk, presentedVars
    <2>4. CASE TakeEmpty
      <3>1. /\ UNCHANGED <<buffered, generation, presented, frameIndex, shown,
                           publisherVars>>
            /\ presenter.pc = "take" /\ presenter \in Presenters
        BY <2>4 DEF TakeEmpty, presentedVars, ManagerInv, TypeOK
      <3>2. presenter'.selected = presenter.selected /\ presenter'.pc # "take"
        BY <2>4, <3>1, PresenterMoves, PresenterDoneMoves DEF TakeEmpty
      <3> QED BY <2>1, <3>1, <3>2, PlaceOrders
    <2>5. CASE MarkAdvanced
      BY <2>1, <2>5, MarkAdvancedOrders
    <2> QED BY <1>4, <2>2, <2>3, <2>4, <2>5 DEF UIThread, AdvanceStep
  <1>5. CASE ResetArrives \/ SetStop \/ CloseManager \/ UNCHANGED presentationVars
    BY <1>5, EnvironmentOrders
       DEF ResetArrives, SetStop, CloseManager, Close, presentationVars, managerVars
  <1> QED BY <1>1, <1>2, <1>3, <1>4, <1>5 DEF Next, Finished

\* No fairness is needed, so that a session may rely on it as well.
LEMMA StepsShowInOrder == Init /\ [][Next]_presentationVars => FramesInOrder
  <1>1. ManagerInv /\ OrderInv /\ [Next]_presentationVars => (ManagerInv /\ OrderInv)'
    BY NextManager, NextOrder
  <1>2. ManagerInv /\ OrderInv /\ [Next]_presentationVars =>
           [shown' # shown => /\ Follows(shown', shown)
                              /\ mode = "BLOCK" => FollowsAtOnce(shown', shown)]_shown
    BY NextOrder
  <1> QED BY InitManager, InitOrder, <1>1, <1>2, PTL DEF FramesInOrder

(***************************************************************************)
(* Whatever the two threads do, the frames that the UI selects go forward  *)
(* in (generation, chunk, frame); with BLOCK they skip nothing within a    *)
(* generation.                                                             *)
(***************************************************************************)
THEOREM FramesAlwaysInOrder == Spec => FramesInOrder
  BY StepsShowInOrder, PTL DEF Spec
=============================================================================
