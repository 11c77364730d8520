-------------------------- MODULE EventBufferProofs --------------------------
(***************************************************************************)
(* The event buffer keeps every registered cursor inside the retained      *)
(* window, hands each reader the generation of the resets it has read, and *)
(* is the log it promises to be: for every set of readers, events and      *)
(* batches.                                                                *)
(***************************************************************************)
EXTENDS EventBuffer, FiniteSetTheorems, FunctionTheorems, SequenceTheorems, TLAPS

-----------------------------------------------------------------------------
(* What UserInputEvents does to a sequence of events.                       *)

\* The stable order by timestamp is a strict total order on the positions.
LEMMA BeforeIsAnOrder ==
  ASSUME NEW s \in Seq(Events)
  PROVE  \A i, j, k \in 1 .. Len(s) :
            /\ ~ Before(s, i, i)
            /\ Before(s, i, j) /\ Before(s, j, k) => Before(s, i, k)
            /\ i # j => Before(s, i, j) \/ Before(s, j, i)
  <1>1. \A i \in 1 .. Len(s) : Timestamp[s[i]] \in Int
    BY TimestampsAreInt
  <1> QED BY <1>1 DEF Before

\* Ranks are 0 .. Len(s) - 1, and grow with the order.
LEMMA RankFacts ==
  ASSUME NEW s \in Seq(Events)
  PROVE  /\ \A i \in 1 .. Len(s) : Rank(s, i) \in 0 .. Len(s) - 1
         /\ \A i, j \in 1 .. Len(s) : Before(s, i, j) => Rank(s, i) < Rank(s, j)
  <1> DEFINE earlier(i) == {j \in 1 .. Len(s) : Before(s, j, i)}
  <1>1. IsFiniteSet(1 .. Len(s)) /\ Cardinality(1 .. Len(s)) = Len(s)
    <2>1. Len(s) \in Nat /\ 1 \in Int /\ Len(s) \in Int
      OBVIOUS
    <2>2. /\ IsFiniteSet(1 .. Len(s))
          /\ Cardinality(1 .. Len(s)) = IF 1 > Len(s) THEN 0 ELSE Len(s) - 1 + 1
      BY <2>1, FS_Interval
    <2> QED BY <2>1, <2>2
  <1>2. ASSUME NEW i \in 1 .. Len(s)
        PROVE  /\ IsFiniteSet(earlier(i)) /\ Rank(s, i) = Cardinality(earlier(i))
               /\ Rank(s, i) \in 0 .. Len(s) - 1
    <2>1. earlier(i) \in SUBSET (1 .. Len(s)) /\ earlier(i) # 1 .. Len(s)
      BY BeforeIsAnOrder
    <2>2. /\ IsFiniteSet(earlier(i)) /\ Cardinality(earlier(i)) <= Len(s)
          /\ Cardinality(earlier(i)) # Len(s)
      BY <1>1, <2>1, FS_Subset
    <2>3. Cardinality(earlier(i)) \in Nat
      BY <2>2, FS_CardinalityType
    <2>4. Rank(s, i) = Cardinality(earlier(i))
      BY DEF Rank
    <2> QED BY <2>2, <2>3, <2>4
  <1>3. ASSUME NEW i \in 1 .. Len(s), NEW j \in 1 .. Len(s), Before(s, i, j)
        PROVE  Rank(s, i) < Rank(s, j)
    <2>1. earlier(i) \in SUBSET earlier(j) /\ earlier(i) # earlier(j)
      <3>1. i \in earlier(j) /\ i \notin earlier(i)
        BY <1>3, BeforeIsAnOrder
      <3>2. \A k \in earlier(i) : k \in earlier(j)
        BY <1>3, BeforeIsAnOrder
      <3> QED BY <3>1, <3>2
    <2>2. IsFiniteSet(earlier(j)) /\ IsFiniteSet(earlier(i))
      BY <1>2
    <2> HIDE DEF earlier
    <2>3. /\ Cardinality(earlier(i)) <= Cardinality(earlier(j))
          /\ Cardinality(earlier(i)) # Cardinality(earlier(j))
      BY <2>1, <2>2, FS_Subset
    <2>4. Cardinality(earlier(i)) \in Nat /\ Cardinality(earlier(j)) \in Nat
      BY <2>2, FS_CardinalityType
    <2>5. Rank(s, i) = Cardinality(earlier(i)) /\ Rank(s, j) = Cardinality(earlier(j))
      BY <1>2
    <2> QED BY <2>3, <2>4, <2>5
  <1> QED BY <1>2, <1>3

\* The sort takes every position once, and goes up in the order.
LEMMA OriginFacts ==
  ASSUME NEW s \in Seq(Events)
  PROVE  /\ \A k \in 1 .. Len(s) : Origin(s, k) \in 1 .. Len(s)
         /\ \A i \in 1 .. Len(s) : \E k \in 1 .. Len(s) : Origin(s, k) = i
         /\ \A k, l \in 1 .. Len(s) :
               k < l => Before(s, Origin(s, k), Origin(s, l))
  <1> DEFINE place == [i \in 1 .. Len(s) |-> Rank(s, i) + 1]
  <1>1. IsFiniteSet(1 .. Len(s)) /\ Len(s) \in Nat
    BY FS_Interval
  <1>2. place \in Injection(1 .. Len(s), 1 .. Len(s))
    <2>1. place \in [1 .. Len(s) -> 1 .. Len(s)]
      BY <1>1, RankFacts
    <2>2. ASSUME NEW i \in 1 .. Len(s), NEW j \in 1 .. Len(s), i # j
          PROVE  place[i] # place[j]
      <3>1. Before(s, i, j) \/ Before(s, j, i)
        BY <2>2, BeforeIsAnOrder
      <3>2. Rank(s, i) < Rank(s, j) \/ Rank(s, j) < Rank(s, i)
        BY <3>1, RankFacts
      <3>3. Rank(s, i) \in Int /\ Rank(s, j) \in Int
        BY RankFacts
      <3> QED BY <3>2, <3>3
    <2> QED BY <2>1, <2>2 DEF Injection, IsInjective
  <1>3. place \in Surjection(1 .. Len(s), 1 .. Len(s))
    BY <1>1, <1>2, FS_Injection
  <1>4. ASSUME NEW k \in 1 .. Len(s)
        PROVE  Origin(s, k) \in 1 .. Len(s) /\ Rank(s, Origin(s, k)) = k - 1
    <2>1. PICK i \in 1 .. Len(s) : place[i] = k
      BY <1>3 DEF Surjection
    <2>2. Rank(s, i) = k - 1
      BY <2>1, RankFacts
    <2> QED BY <2>2 DEF Origin
  <1>5. ASSUME NEW i \in 1 .. Len(s)
        PROVE  \E k \in 1 .. Len(s) : Origin(s, k) = i
    <2>1. place[i] \in 1 .. Len(s) /\ Rank(s, i) = place[i] - 1
      BY <1>1, RankFacts
    <2>2. /\ Origin(s, place[i]) \in 1 .. Len(s)
          /\ place[Origin(s, place[i])] = place[i]
      BY <1>4, <2>1
    <2>3. Origin(s, place[i]) = i
      BY <1>2, <2>2 DEF Injection, IsInjective
    <2> QED BY <2>1, <2>3
  <1>6. ASSUME NEW k \in 1 .. Len(s), NEW l \in 1 .. Len(s), k < l
        PROVE  Before(s, Origin(s, k), Origin(s, l))
    <2>1. Rank(s, Origin(s, k)) < Rank(s, Origin(s, l))
      BY <1>4, <1>6
    <2>2. /\ ~ Rank(s, Origin(s, l)) < Rank(s, Origin(s, k))
          /\ Origin(s, k) # Origin(s, l)
      BY <1>4, <2>1
    <2> QED BY <1>4, <2>2, BeforeIsAnOrder, RankFacts
  <1> QED BY <1>4, <1>5, <1>6

\* The sorted events are as many as before, of the same type.
LEMMA UserInputEventsType ==
  ASSUME NEW s \in Seq(Events)
  PROVE  UserInputEvents(s) \in Seq(Events) /\ Len(UserInputEvents(s)) = Len(s)
  BY OriginFacts DEF UserInputEvents

\* Every event is held as often as before, and none after a newer one.
LEMMA UserInputEventsSorted ==
  ASSUME NEW s \in Seq(Events)
  PROVE  Abstract!OldestFirst(UserInputEvents(s), s)
  <1> DEFINE t == UserInputEvents(s)
  <1>1. DOMAIN t = 1 .. Len(s) /\ \A k \in 1 .. Len(s) : t[k] = s[Origin(s, k)]
    BY DEF UserInputEvents
  <1> HIDE DEF t
  <1>2. ASSUME NEW i \in 1 .. Len(s), NEW j \in 1 .. Len(s), i < j
        PROVE  Timestamp[t[i]] <= Timestamp[t[j]]
    <2>1. Before(s, Origin(s, i), Origin(s, j))
      BY <1>2, OriginFacts
    <2>2. Origin(s, i) \in 1 .. Len(s) /\ Origin(s, j) \in 1 .. Len(s)
      BY OriginFacts
    <2>3. /\ Timestamp[s[Origin(s, i)]] \in Int
          /\ Timestamp[s[Origin(s, j)]] \in Int
      BY <2>2, TimestampsAreInt
    <2> QED BY <1>1, <2>1, <2>3 DEF Before
  <1>3. ASSUME NEW event
        PROVE  Abstract!Count(t, event) = Abstract!Count(s, event)
    <2> DEFINE here == {i \in DOMAIN s : s[i] = event}
               there == {k \in DOMAIN t : t[k] = event}
               origin == [k \in there |-> Origin(s, k)]
    <2>1. DOMAIN s = 1 .. Len(s) /\ Len(s) \in Nat
      OBVIOUS
    <2>2. IsFiniteSet(there)
      <3>1. IsFiniteSet(1 .. Len(s))
        BY <2>1, FS_Interval
      <3>2. there \in SUBSET (1 .. Len(s))
        BY <1>1
      <3> QED BY <3>1, <3>2, FS_Subset
    <2>3. origin \in [there -> here]
      BY <1>1, <2>1, OriginFacts
    <2>4. ASSUME NEW k \in there, NEW l \in there, origin[k] = origin[l]
          PROVE  k = l
      <3>1. k \in 1 .. Len(s) /\ l \in 1 .. Len(s) /\ Origin(s, k) = Origin(s, l)
        BY <1>1, <2>4
      <3>2. ~ Before(s, Origin(s, k), Origin(s, l))
        BY <3>1, OriginFacts, BeforeIsAnOrder
      <3>3. ~ Before(s, Origin(s, l), Origin(s, k))
        BY <3>1, OriginFacts, BeforeIsAnOrder
      <3>4. ~ k < l /\ ~ l < k
        BY <3>1, <3>2, <3>3, OriginFacts
      <3> QED BY <3>1, <3>4
    <2>5. ASSUME NEW i \in here
          PROVE  \E k \in there : origin[k] = i
      <3>1. PICK k \in 1 .. Len(s) : Origin(s, k) = i
        BY <2>1, OriginFacts
      <3>2. k \in there
        BY <1>1, <3>1
      <3> QED BY <3>1, <3>2
    <2>6. origin \in Bijection(there, here)
      BY <2>3, <2>4, <2>5 DEF Bijection, Injection, Surjection, IsInjective
    <2> HIDE DEF origin, here, there
    <2>7. Cardinality(here) = Cardinality(there)
      BY <2>2, <2>6, FS_Bijection DEF ExistsBijection
    <2> QED BY <2>7 DEF here, there, Abstract!Count, Abstract!Cardinality, Cardinality
  <1>4. \A i \in 1 .. Len(s) : Abstract!Count(t, s[i]) = Abstract!Count(s, s[i])
    BY <1>3
  <1> QED BY <1>1, <1>2, <1>4 DEF Abstract!OldestFirst, t

-----------------------------------------------------------------------------
(* Storage: cursors, the retained window and what was deleted before it.    *)

\* The inductive part about storage alone.
StoreInv == TypeOK /\ CursorsInWindow

\* Dropping a prefix of a sequence: its type, length and elements.
LEMMA DropFacts ==
  ASSUME NEW S, NEW s \in Seq(S), NEW n \in 0 .. Len(s)
  PROVE  /\ Drop(s, n) \in Seq(S)
         /\ Len(Drop(s, n)) = Len(s) - n
         /\ \A i \in 1 .. Len(s) - n : Drop(s, n)[i] = s[n + i]
  BY DEF Drop

\* A partial function with one more key.
LEMMA PutFacts ==
  ASSUME NEW f, NEW key, NEW value
  PROVE  /\ DOMAIN Put(f, key, value) = DOMAIN f \cup {key}
         /\ Put(f, key, value)[key] = value
         /\ \A x \in DOMAIN f : x # key => Put(f, key, value)[x] = f[x]
  BY DEF Put

\* The storage invariant holds when the buffer is created.
LEMMA InitStore == Init => StoreInv
  BY DEF Init, StoreInv, TypeOK, CursorsInWindow

\* Deleting the first n retained events keeps the invariant when no reader's
\* cursor lies within them.
LEMMA RemoveStore ==
  ASSUME StoreInv, NEW n \in 0 .. Len(events), Remove(n),
         \A r \in DOMAIN readerIndexes : readerIndexes[r] >= baseIndex + n
  PROVE  StoreInv'
  <1>1. /\ events' \in Seq(Events) /\ Len(events') = Len(events) - n
        /\ received' \in Seq(Times) /\ Len(received') = Len(received) - n
    BY DropFacts DEF Remove, StoreInv, TypeOK, CursorsInWindow
  <1>2. /\ SubSeq(events, 1, n) \in Seq(Events)
        /\ Len(SubSeq(events, 1, n)) = n
    BY DEF StoreInv, TypeOK
  <1>3. collected' \in Seq(Events) /\ Len(collected') = Len(collected) + n
    BY <1>2 DEF Remove, StoreInv, TypeOK
  <1> QED BY <1>1, <1>3 DEF Remove, StoreInv, TypeOK, CursorsInWindow

\* Every step of the buffer keeps the storage invariant.
LEMMA NextStore == StoreInv /\ [Next]_eventVars => StoreInv'
  <1> SUFFICES ASSUME StoreInv, [Next]_eventVars PROVE StoreInv'
    OBVIOUS
  <1>1. ASSUME NEW batch \in Batches, NEW now \in Times, AppendBatch(batch, now)
        PROVE  StoreInv'
    <2>1. batch \in Seq(Events)
      BY BatchesAreSequences
    <2>2. /\ events' \in Seq(Events)
          /\ Len(events') = Len(events) + Len(batch)
      BY <1>1, <2>1 DEF AppendBatch, StoreInv, TypeOK
    <2>3. [i \in 1 .. Len(batch) |-> now] \in Seq(Times)
      BY <2>1
    <2>4. /\ received' \in Seq(Times)
          /\ Len(received') = Len(received) + Len(batch)
      BY <1>1, <2>1, <2>3 DEF AppendBatch, StoreInv, TypeOK
    <2>5. ResetsIn(batch) \in Nat
      <3>1. IsFiniteSet({i \in 1 .. Len(batch) : batch[i] \in ResetEvents})
        BY <2>1, FS_Interval, FS_Subset
      <3> QED BY <3>1, FS_CardinalityType DEF ResetsIn
    <2> QED BY <1>1, <2>1, <2>2, <2>4, <2>5, SMTT(20)
            DEF AppendBatch, StoreInv, TypeOK, CursorsInWindow
  <1>2. ASSUME NEW r \in Readers, Register(r)
        PROVE  StoreInv'
    <2>1. /\ DOMAIN readerIndexes' = DOMAIN readerIndexes \cup {r}
          /\ \A q \in DOMAIN readerIndexes' :
                readerIndexes'[q] \in baseIndex .. baseIndex + Len(events)
      <3>1. baseIndex \in baseIndex .. baseIndex + Len(events)
        BY DEF StoreInv, TypeOK
      <3> QED BY <1>2, <3>1
              DEF Register, SetDefault, Put, StoreInv, CursorsInWindow
    <2>2. DOMAIN readerIndexes' \subseteq Readers
      BY <2>1 DEF StoreInv, TypeOK
    <2>3. UNCHANGED <<events, received, baseIndex, generation,
                      lastReadReceived, lastRead, collected, clearedResets>>
      BY <1>2 DEF Register
    <2>4. TypeOK'
      BY <2>1, <2>2, <2>3 DEF StoreInv, TypeOK
    <2>5. CursorsInWindow'
      BY <2>1, <2>3 DEF StoreInv, CursorsInWindow
    <2> QED BY <2>4, <2>5 DEF StoreInv
  <1>3. ASSUME NEW r \in Readers, Read(r)
        PROVE  StoreInv'
    <2> DEFINE cursor == SetDefault(readerIndexes, r, baseIndex)[r]
               relative == cursor - baseIndex
    <2>1. relative \in 0 .. Len(events)
      BY DEF SetDefault, Put, StoreInv, TypeOK, CursorsInWindow
    <2> HIDE DEF relative
    <2>2. /\ Drop(events, relative) \in Seq(Events)
          /\ Drop(received, relative) \in Seq(Times)
          /\ Len(Drop(events, relative)) = Len(Drop(received, relative))
      BY <2>1, DropFacts, SMTT(20) DEF StoreInv, TypeOK, CursorsInWindow
    <2> DEFINE returned == [events |-> UserInputEvents(Drop(events, relative)),
                            generation |-> generation]
    <2>3. /\ lastRead' = [lastRead EXCEPT ![r] = returned]
          /\ lastReadReceived' = Put(lastReadReceived, r, Drop(received, relative))
          /\ readerIndexes' = Put(readerIndexes, r, baseIndex + Len(events))
          /\ UNCHANGED <<events, received, baseIndex, generation, collected,
                         clearedResets>>
      BY <1>3 DEF Read, relative
    <2>4. /\ returned \in [events : Seq(Events), generation : Nat]
          /\ Len(returned.events) = Len(Drop(received, relative))
      BY <2>2, UserInputEventsType DEF StoreInv, TypeOK
    <2> HIDE DEF returned
    <2>5. /\ lastRead' \in [Readers -> [events : Seq(Events), generation : Nat]]
          /\ lastRead'[r] = returned
          /\ \A q \in Readers \ {r} : lastRead'[q] = lastRead[q]
      BY <2>3, <2>4 DEF StoreInv, TypeOK
    <2>6. /\ DOMAIN lastReadReceived' = DOMAIN lastReadReceived \cup {r}
          /\ lastReadReceived'[r] = Drop(received, relative)
          /\ \A q \in DOMAIN lastReadReceived :
                q # r => lastReadReceived'[q] = lastReadReceived[q]
      BY <2>3 DEF Put
    <2>7. /\ DOMAIN readerIndexes' = DOMAIN readerIndexes \cup {r}
          /\ readerIndexes'[r] = baseIndex + Len(events)
          /\ \A q \in DOMAIN readerIndexes :
                q # r => readerIndexes'[q] = readerIndexes[q]
      BY <2>3 DEF Put
    <2>8. baseIndex + Len(events) \in baseIndex .. baseIndex + Len(events)
      BY DEF StoreInv, TypeOK
    <2>9. TypeOK'
      <3>1. /\ events' \in Seq(Events) /\ received' \in Seq(Times)
            /\ baseIndex' \in Nat /\ generation' \in Nat
            /\ collected' \in Seq(Events) /\ clearedResets' \in Nat
        BY <2>3 DEF StoreInv, TypeOK
      <3>2. /\ DOMAIN readerIndexes' \subseteq Readers
            /\ \A q \in DOMAIN readerIndexes' : readerIndexes'[q] \in Nat
        BY <2>7, <2>8 DEF StoreInv, TypeOK
      <3>3. /\ DOMAIN lastReadReceived' \subseteq Readers
            /\ \A q \in DOMAIN lastReadReceived' :
                  lastReadReceived'[q] \in Seq(Times)
        BY <2>2, <2>6 DEF StoreInv, TypeOK
      <3> QED BY <2>5, <3>1, <3>2, <3>3 DEF TypeOK
    <2>10. CursorsInWindow'
      <3>1. baseIndex' = Len(collected') /\ Len(received') = Len(events')
        BY <2>3 DEF StoreInv, CursorsInWindow
      <3>2. \A q \in DOMAIN readerIndexes' :
               readerIndexes'[q] \in baseIndex' .. baseIndex' + Len(events')
        BY <2>3, <2>7, <2>8 DEF StoreInv, CursorsInWindow
      <3>3. \A q \in DOMAIN lastReadReceived' :
               /\ q \in DOMAIN readerIndexes'
               /\ Len(lastReadReceived'[q]) = Len(lastRead'[q].events)
        <4>1. CASE r \in Readers
          BY <2>4, <2>5, <2>6, <2>7 DEF StoreInv, TypeOK, CursorsInWindow
        <4> QED BY <4>1
      <3> QED BY <3>1, <3>2, <3>3 DEF CursorsInWindow
    <2> QED BY <2>9, <2>10 DEF StoreInv
  <1>4. ASSUME NEW r \in Readers, Unregister(r)
        PROVE  StoreInv'
    <2>1. /\ DOMAIN readerIndexes' = DOMAIN readerIndexes \ {r}
          /\ \A q \in DOMAIN readerIndexes' : readerIndexes'[q] = readerIndexes[q]
          /\ DOMAIN lastReadReceived' = DOMAIN lastReadReceived \ {r}
          /\ \A q \in DOMAIN lastReadReceived' :
                lastReadReceived'[q] = lastReadReceived[q]
      BY <1>4 DEF Unregister, Without
    <2>2. UNCHANGED <<events, received, baseIndex, generation, lastRead,
                      collected, clearedResets>>
      BY <1>4 DEF Unregister
    <2>3. TypeOK'
      BY <2>1, <2>2 DEF StoreInv, TypeOK
    <2>4. CursorsInWindow'
      BY <2>1, <2>2 DEF StoreInv, CursorsInWindow
    <2> QED BY <2>3, <2>4 DEF StoreInv
  <1>5. ASSUME CollectGarbage
        PROVE  StoreInv'
    <2>1. CASE readerIndexes = <<>> /\ Remove(Len(events))
      <3>1. Len(events) \in 0 .. Len(events)
        BY DEF StoreInv, TypeOK
      <3>2. DOMAIN readerIndexes = {}
        BY <2>1
      <3> QED BY <2>1, <3>1, <3>2, RemoveStore
    <2>2. ASSUME NEW r \in DOMAIN readerIndexes,
                 \A q \in DOMAIN readerIndexes :
                    readerIndexes[r] <= readerIndexes[q],
                 Remove(readerIndexes[r] - baseIndex)
          PROVE  StoreInv'
      <3>1. /\ readerIndexes[r] - baseIndex \in 0 .. Len(events)
            /\ \A q \in DOMAIN readerIndexes :
                  readerIndexes[q] >= baseIndex + (readerIndexes[r] - baseIndex)
        BY <2>2 DEF StoreInv, TypeOK, CursorsInWindow
      <3> QED BY <2>2, <3>1, RemoveStore
    <2> QED BY <1>5, <2>1, <2>2 DEF CollectGarbage
  <1>6. ASSUME Clear PROVE StoreInv'
    BY <1>6 DEF Clear, StoreInv, TypeOK, CursorsInWindow
  <1>7. ASSUME UNCHANGED eventVars PROVE StoreInv'
    BY <1>7 DEF eventVars, StoreInv, TypeOK, CursorsInWindow
  <1> QED BY <1>1, <1>2, <1>3, <1>4, <1>5, <1>6, <1>7 DEF Next

(***************************************************************************)
(* TypeOK and CursorsInWindow hold in every reachable state: no reader of  *)
(* an EventBuffer ever loses an unread event to collect_garbage, and the   *)
(* slice that read() takes never starts outside the retained list.         *)
(***************************************************************************)
THEOREM CursorsStayInWindow == Spec => [](TypeOK /\ CursorsInWindow)
  <1>1. StoreInv => TypeOK /\ CursorsInWindow
    BY DEF StoreInv
  <1> QED BY InitStore, NextStore, <1>1, PTL DEF Spec

-----------------------------------------------------------------------------
(* What a reader is handed: the generations of GenerationMatchesRead, and   *)
(* the events of EventLog.  The window and what was deleted before it are   *)
(* seen as one log.                                                         *)

\* The positions of the resets in a sequence.
Resets(s) == {i \in 1 .. Len(s) : s[i] \in ResetEvents}

\* The resets of a sequence are finitely many, and no more than its events.
LEMMA ResetsAreFew ==
  ASSUME NEW s \in Seq(Events)
  PROVE  /\ IsFiniteSet(Resets(s))
         /\ ResetsIn(s) = Cardinality(Resets(s))
         /\ ResetsIn(s) \in 0 .. Len(s)
  <1>1. IsFiniteSet(1 .. Len(s)) /\ Cardinality(1 .. Len(s)) = Len(s)
    <2>1. Len(s) \in Nat /\ 1 \in Int /\ Len(s) \in Int
      OBVIOUS
    <2>2. /\ IsFiniteSet(1 .. Len(s))
          /\ Cardinality(1 .. Len(s)) = IF 1 > Len(s) THEN 0 ELSE Len(s) - 1 + 1
      BY <2>1, FS_Interval
    <2> QED BY <2>1, <2>2
  <1>2. Resets(s) \in SUBSET (1 .. Len(s))
    BY DEF Resets
  <1>3. IsFiniteSet(Resets(s)) /\ Cardinality(Resets(s)) <= Len(s)
    BY <1>1, <1>2, FS_Subset
  <1>4. Cardinality(Resets(s)) \in Nat
    BY <1>3, FS_CardinalityType
  <1>5. ResetsIn(s) = Cardinality(Resets(s))
    BY DEF ResetsIn, Resets
  <1> QED BY <1>3, <1>4, <1>5

\* The resets of a concatenation are those of its parts.
LEMMA ResetsOfConcat ==
  ASSUME NEW s \in Seq(Events), NEW t \in Seq(Events)
  PROVE  ResetsIn(s \o t) = ResetsIn(s) + ResetsIn(t)
  <1> DEFINE shift == [i \in Resets(t) |-> Len(s) + i]
             shifted == {Len(s) + i : i \in Resets(t)}
  <1>1. s \o t \in Seq(Events)
    OBVIOUS
  <1>2. shift \in Bijection(Resets(t), shifted)
    <2>1. shift \in [Resets(t) -> shifted]
      OBVIOUS
    <2>2. \A a, b \in Resets(t) : shift[a] = shift[b] => a = b
      BY DEF Resets
    <2>3. \A y \in shifted : \E a \in Resets(t) : shift[a] = y
      OBVIOUS
    <2> QED BY <2>1, <2>2, <2>3 DEF Bijection, Injection, Surjection, IsInjective
  <1>3. IsFiniteSet(shifted) /\ Cardinality(shifted) = ResetsIn(t)
    BY <1>2, FS_Bijection, ResetsAreFew DEF ExistsBijection
  <1>4. Resets(s \o t) = Resets(s) \cup shifted
    <2>1. \A i \in 1 .. Len(s) : (s \o t)[i] = s[i]
      OBVIOUS
    <2>2. \A i \in 1 .. Len(t) : (s \o t)[Len(s) + i] = t[i]
      OBVIOUS
    <2>3. Len(s \o t) = Len(s) + Len(t)
      OBVIOUS
    <2>4. Resets(s) \cup shifted \subseteq Resets(s \o t)
      BY <2>1, <2>2, <2>3 DEF Resets
    <2>5. ASSUME NEW i \in Resets(s \o t)
          PROVE  i \in Resets(s) \cup shifted
      <3>1. CASE i <= Len(s)
        BY <3>1, <2>1, <2>3 DEF Resets
      <3>2. CASE i > Len(s)
        <4>1. i - Len(s) \in 1 .. Len(t) /\ i = Len(s) + (i - Len(s))
          BY <3>2, <2>3 DEF Resets
        <4>2. i - Len(s) \in Resets(t)
          BY <4>1, <2>2 DEF Resets
        <4> QED BY <4>1, <4>2
      <3> QED BY <3>1, <3>2 DEF Resets
    <2> QED BY <2>4, <2>5
  <1>5. Resets(s) \cap shifted = {}
    BY DEF Resets
  <1>6. Cardinality(Resets(s) \cap shifted) = 0
    BY <1>5, FS_EmptySet
  <1>7. Cardinality(Resets(s \o t)) = Cardinality(Resets(s)) + Cardinality(shifted)
    <2>1. /\ IsFiniteSet(Resets(s)) /\ Cardinality(Resets(s)) \in Nat
          /\ IsFiniteSet(shifted) /\ Cardinality(shifted) \in Nat
      <3>1. IsFiniteSet(Resets(s)) /\ ResetsIn(s) = Cardinality(Resets(s))
        BY ResetsAreFew
      <3>2. ResetsIn(s) \in Nat /\ ResetsIn(t) \in Nat
        BY ResetsAreFew
      <3> QED BY <1>3, <3>1, <3>2
    <2> HIDE DEF shifted
    <2>2. Cardinality(Resets(s) \cup shifted)
             = Cardinality(Resets(s)) + Cardinality(shifted)
                  - Cardinality(Resets(s) \cap shifted)
      BY <2>1, FS_Union
    <2> QED BY <2>1, <2>2, <1>4, <1>6
  <1> QED BY <1>1, <1>3, <1>7, ResetsAreFew

-----------------------------------------------------------------------------
(* The log behind a buffer.                                                 *)

\* A suffix of the second part of a concatenation.
LEMMA DropOfConcat ==
  ASSUME NEW s \in Seq(Events), NEW t \in Seq(Events), NEW n \in 0 .. Len(t)
  PROVE  SubSeq(s \o t, Len(s) + n + 1, Len(s) + Len(t)) = Drop(t, n)
  <1> DEFINE whole == s \o t
             from  == Len(s) + n + 1
             to    == Len(s) + Len(t)
  <1>1. /\ whole \in Seq(Events) /\ Len(whole) = to
        /\ \A i \in 1 .. Len(t) : whole[Len(s) + i] = t[i]
    OBVIOUS
  <1>2. /\ Len(s) \in Nat /\ Len(t) \in Nat /\ n \in Nat
        /\ from \in Int /\ to \in Int
    OBVIOUS
  <1>3. /\ Drop(t, n) \in Seq(Events) /\ Len(Drop(t, n)) = Len(t) - n
        /\ \A i \in 1 .. Len(t) - n : Drop(t, n)[i] = t[n + i]
    BY DropFacts
  <1> HIDE DEF whole
  <1>4. /\ SubSeq(whole, from, to) \in Seq(Events)
        /\ Len(SubSeq(whole, from, to)) = Len(t) - n
        /\ \A i \in 1 .. Len(t) - n :
              SubSeq(whole, from, to)[i] = whole[Len(s) + (n + i)]
    <2>1. \A i \in from .. to : whole[i] \in Events
      BY <1>1, <1>2, ElementOfSeq
    <2>2. to - from + 1 = Len(t) - n /\ (from > to => Len(t) - n = 0)
      BY <1>2
    <2>3. \A i \in 1 .. Len(t) - n : from + i - 1 = Len(s) + (n + i)
      BY <1>2
    <2> HIDE DEF from, to
    <2>4. /\ SubSeq(whole, from, to) \in Seq(Events)
          /\ Len(SubSeq(whole, from, to)) = IF from <= to THEN to - from + 1 ELSE 0
          /\ \A i \in 1 .. to - from + 1 :
                SubSeq(whole, from, to)[i] = whole[from + i - 1]
      BY <1>2, <2>1, SubSeqProperties
    <2>5. Len(SubSeq(whole, from, to)) = Len(t) - n
      BY <1>2, <2>2, <2>4
    <2>6. ASSUME NEW i \in 1 .. Len(t) - n
          PROVE  SubSeq(whole, from, to)[i] = whole[Len(s) + (n + i)]
      <3>1. i \in 1 .. to - from + 1
        BY <2>2
      <3> QED BY <3>1, <2>3, <2>4
    <2> QED BY <2>4, <2>5, <2>6
  <1>5. \A i \in 1 .. Len(t) - n : SubSeq(whole, from, to)[i] = Drop(t, n)[i]
    BY <1>1, <1>2, <1>3, <1>4
  <1>6. SubSeq(whole, from, to) = Drop(t, n)
    BY <1>3, <1>4, <1>5, SeqEqual
  <1> QED BY <1>6 DEF whole

\* Three parts of a log.
LEMMA ConcatThree ==
  \A a, b, c \in Seq(Events) : (a \o b) \o c = a \o (b \o c)
  BY ConcatAssociative

\* The log is the deleted events and the retained ones; a cursor is a position
\* in it, and what lies behind a cursor is what read() slices off.
LEMMA LogFacts ==
  ASSUME StoreInv
  PROVE  /\ Log \in Seq(Events)
         /\ Len(Log) = baseIndex + Len(events)
         /\ \A k \in baseIndex .. baseIndex + Len(events) :
               Drop(events, k - baseIndex) = SubSeq(Log, k + 1, Len(Log))
  <1>1. /\ collected \in Seq(Events) /\ events \in Seq(Events)
        /\ Len(collected) = baseIndex
    BY DEF StoreInv, TypeOK, CursorsInWindow
  <1>2. Log \in Seq(Events) /\ Len(Log) = baseIndex + Len(events)
    BY <1>1 DEF Log
  <1>3. ASSUME NEW k \in baseIndex .. baseIndex + Len(events)
        PROVE  Drop(events, k - baseIndex) = SubSeq(Log, k + 1, Len(Log))
    <2>1. /\ k - baseIndex \in 0 .. Len(events)
          /\ Len(collected) + (k - baseIndex) + 1 = k + 1
          /\ Len(Log) = Len(collected) + Len(events)
      BY <1>1, <1>2
    <2>2. SubSeq(collected \o events, Len(collected) + (k - baseIndex) + 1,
                 Len(collected) + Len(events)) = Drop(events, k - baseIndex)
      BY <1>1, <2>1, DropOfConcat
    <2> QED BY <2>1, <2>2 DEF Log
  <1> QED BY <1>2, <1>3

\* Deleting retained events does not change the log.
LEMMA RemoveKeepsLog ==
  ASSUME StoreInv, NEW n \in 0 .. Len(events), Remove(n)
  PROVE  Log' = Log
  <1>1. collected \in Seq(Events) /\ events \in Seq(Events)
    BY DEF StoreInv, TypeOK
  <1>2. SubSeq(events, 1, n) \o Drop(events, n) = events
    <2>1. /\ 1 \in 1 .. Len(events) + 1 /\ n \in 1 - 1 .. Len(events)
          /\ Len(events) \in n .. Len(events)
      BY <1>1
    <2>2. SubSeq(events, 1, n) \o SubSeq(events, n + 1, Len(events))
             = SubSeq(events, 1, Len(events))
      BY <1>1, <2>1, ConcatAdjacentSubSeq
    <2> QED BY <2>2, <1>1, SubSeqFull DEF Drop
  <1>3. SubSeq(events, 1, n) \in Seq(Events) /\ Drop(events, n) \in Seq(Events)
    BY <1>1, DropFacts
  <1>4. Log' = (collected \o SubSeq(events, 1, n)) \o Drop(events, n)
    BY DEF Log, Remove
  <1>5. (collected \o SubSeq(events, 1, n)) \o Drop(events, n)
           = collected \o (SubSeq(events, 1, n) \o Drop(events, n))
    BY <1>1, <1>3, ConcatThree
  <1> QED BY <1>2, <1>4, <1>5 DEF Log

\* collect_garbage leaves alone everything that a reader can see.
LEMMA CollectKeepsLog ==
  ASSUME StoreInv, CollectGarbage
  PROVE  /\ Log' = Log
         /\ UNCHANGED <<readerIndexes, generation, lastReadReceived, lastRead,
                        clearedResets>>
  <1>1. PICK n \in 0 .. Len(events) : Remove(n)
    <2>1. Len(events) \in 0 .. Len(events)
      BY DEF StoreInv, TypeOK
    <2>2. \A r \in DOMAIN readerIndexes :
             readerIndexes[r] - baseIndex \in 0 .. Len(events)
      BY DEF StoreInv, TypeOK, CursorsInWindow
    <2> QED BY <2>1, <2>2 DEF CollectGarbage
  <1>2. Log' = Log
    BY <1>1, RemoveKeepsLog
  <1> QED BY <1>1, <1>2 DEF Remove

\* Appending a batch appends it to the log.
LEMMA AppendExtendsLog ==
  ASSUME StoreInv, NEW batch \in Batches, NEW now \in Times, AppendBatch(batch, now)
  PROVE  batch \in Seq(Events) /\ Log' = Log \o batch
  <1>1. /\ batch \in Seq(Events) /\ collected \in Seq(Events)
        /\ events \in Seq(Events)
    BY BatchesAreSequences DEF StoreInv, TypeOK
  <1>2. Log' = collected \o (events \o batch)
    BY DEF Log, AppendBatch
  <1> QED BY <1>1, <1>2, ConcatAssociative DEF Log

-----------------------------------------------------------------------------
(* The generation that a read returns.                                      *)

\* Appending does not change what lies before a position.
LEMMA PrefixOfConcat ==
  ASSUME NEW s \in Seq(Events), NEW t \in Seq(Events), NEW k \in 0 .. Len(s)
  PROVE  SubSeq(s \o t, 1, k) = SubSeq(s, 1, k)
  <1>1. CASE k = 0
    BY <1>1, SubSeqEmpty
  <1>2. CASE k # 0
    <2>1. k \in 1 .. Len(s) /\ 1 \in 1 .. Len(s)
      BY <1>2
    <2> QED BY <2>1, SubSeqOfConcat1
  <1> QED BY <1>1, <1>2

\* The log is empty, and without resets, when nothing was appended.
LEMMA EmptyLog ==
  ASSUME events = <<>>, collected = <<>>
  PROVE  Log = <<>> /\ ResetsIn(Log) = 0
  <1>1. Log = <<>>
    BY DEF Log
  <1>2. <<>> \in Seq(Events) /\ Len(<<>>) = 0
    OBVIOUS
  <1>3. ResetsIn(<<>>) \in 0 .. Len(<<>>)
    BY <1>2, ResetsAreFew
  <1> QED BY <1>1, <1>2, <1>3

\* GenerationMatchesRead relates cursors to the log, so it is inductive only
\* together with the invariant of the storage.
GenInv == StoreInv /\ GenerationMatchesRead

LEMMA InitGeneration == Init => GenInv
  <1> SUFFICES ASSUME Init PROVE GenInv
    OBVIOUS
  <1>1. ResetsIn(Log) = 0
    BY EmptyLog DEF Init
  <1>2. generation = 0 /\ clearedResets = 0 /\ DOMAIN lastReadReceived = {}
    BY DEF Init
  <1>3. GenerationMatchesRead
    BY <1>1, <1>2 DEF GenerationMatchesRead
  <1> QED BY <1>3, InitStore DEF GenInv

\* Every step of the buffer keeps the generations right.
LEMMA NextGeneration == GenInv /\ [Next]_eventVars => GenInv'
  <1> SUFFICES ASSUME GenInv, [Next]_eventVars PROVE GenInv'
    OBVIOUS
  <1>1. StoreInv /\ StoreInv'
    BY NextStore DEF GenInv
  <1>2. Log \in Seq(Events) /\ Len(Log) = baseIndex + Len(events)
    BY <1>1, LogFacts
  <1>3. /\ generation = clearedResets + ResetsIn(Log)
        /\ \A r \in DOMAIN lastReadReceived :
              lastRead[r].generation =
                  clearedResets + ResetsIn(SubSeq(Log, 1, readerIndexes[r]))
    BY DEF GenInv, GenerationMatchesRead
  <1>4. \A r \in DOMAIN lastReadReceived :
           r \in DOMAIN readerIndexes /\ readerIndexes[r] \in 0 .. Len(Log)
    BY <1>1, <1>2 DEF StoreInv, TypeOK, CursorsInWindow
  <1>5. /\ clearedResets \in Nat /\ generation \in Nat
        /\ DOMAIN lastReadReceived \subseteq Readers
        /\ lastRead \in [Readers -> [events : Seq(Events), generation : Nat]]
    BY <1>1 DEF StoreInv, TypeOK
  <1>6. ASSUME NEW batch \in Batches, NEW now \in Times, AppendBatch(batch, now)
        PROVE  GenerationMatchesRead'
    <2>1. batch \in Seq(Events) /\ Log' = Log \o batch
      BY <1>1, <1>6, AppendExtendsLog
    <2>2. /\ generation' = generation + ResetsIn(batch)
          /\ UNCHANGED <<readerIndexes, lastReadReceived, lastRead, clearedResets>>
      BY <1>6 DEF AppendBatch
    <2>3. ResetsIn(Log') = ResetsIn(Log) + ResetsIn(batch)
      BY <1>2, <2>1, ResetsOfConcat
    <2>4. ResetsIn(Log) \in Nat /\ ResetsIn(batch) \in Nat
      BY <1>2, <2>1, ResetsAreFew
    <2>5. \A r \in DOMAIN lastReadReceived :
             SubSeq(Log', 1, readerIndexes[r]) = SubSeq(Log, 1, readerIndexes[r])
      BY <1>2, <1>4, <2>1, PrefixOfConcat
    <2>6. generation' = clearedResets' + ResetsIn(Log')
      BY <1>3, <1>5, <2>2, <2>3, <2>4
    <2>7. \A r \in DOMAIN lastReadReceived' :
             lastRead'[r].generation =
                 clearedResets' + ResetsIn(SubSeq(Log', 1, readerIndexes'[r]))
      BY <1>3, <2>2, <2>5
    <2> QED BY <2>6, <2>7 DEF GenerationMatchesRead
  <1>7. ASSUME NEW r \in Readers, Register(r)
        PROVE  GenerationMatchesRead'
    <2>1. UNCHANGED <<events, collected, generation, lastReadReceived, lastRead,
                      clearedResets>>
      BY <1>7 DEF Register
    <2>2. \A q \in DOMAIN readerIndexes : readerIndexes'[q] = readerIndexes[q]
      BY <1>7 DEF Register, SetDefault, Put
    <2> QED BY <1>3, <1>4, <2>1, <2>2 DEF GenerationMatchesRead, Log
  <1>8. ASSUME NEW r \in Readers, Read(r)
        PROVE  GenerationMatchesRead'
    <2>1. /\ UNCHANGED <<events, collected, generation, clearedResets>>
          /\ lastRead'[r].generation = generation
          /\ \A q \in Readers \ {r} : lastRead'[q] = lastRead[q]
      BY <1>5, <1>8 DEF Read
    <2>2. /\ DOMAIN lastReadReceived' = DOMAIN lastReadReceived \cup {r}
          /\ readerIndexes'[r] = baseIndex + Len(events)
          /\ \A q \in DOMAIN readerIndexes :
                q # r => readerIndexes'[q] = readerIndexes[q]
      BY <1>8 DEF Read, Put
    <2>3. Log' = Log
      BY <2>1 DEF Log
    <2>4. SubSeq(Log, 1, readerIndexes'[r]) = Log
      BY <1>2, <2>2, SubSeqFull
    <2>5. lastRead'[r].generation
             = clearedResets + ResetsIn(SubSeq(Log, 1, readerIndexes'[r]))
      BY <1>3, <2>1, <2>4
    <2>6. ASSUME NEW q \in DOMAIN lastReadReceived, q # r
          PROVE  lastRead'[q].generation
                    = clearedResets + ResetsIn(SubSeq(Log, 1, readerIndexes'[q]))
      <3>1. /\ q \in Readers \ {r} /\ lastRead'[q] = lastRead[q]
            /\ readerIndexes'[q] = readerIndexes[q]
        BY <1>4, <1>5, <2>1, <2>2, <2>6
      <3> QED BY <1>3, <2>6, <3>1
    <2> QED BY <1>3, <2>1, <2>2, <2>3, <2>5, <2>6 DEF GenerationMatchesRead
  <1>9. ASSUME NEW r \in Readers, Unregister(r)
        PROVE  GenerationMatchesRead'
    <2>1. UNCHANGED <<events, collected, generation, lastRead, clearedResets>>
      BY <1>9 DEF Unregister
    <2>2. /\ \A q \in DOMAIN readerIndexes :
                q # r => readerIndexes'[q] = readerIndexes[q]
          /\ DOMAIN lastReadReceived' = DOMAIN lastReadReceived \ {r}
      BY <1>9 DEF Unregister, Without
    <2> QED BY <1>3, <1>4, <2>1, <2>2 DEF GenerationMatchesRead, Log
  <1>10. ASSUME CollectGarbage
         PROVE  GenerationMatchesRead'
    <2>1. /\ Log' = Log
          /\ UNCHANGED <<readerIndexes, generation, lastReadReceived, lastRead,
                         clearedResets>>
      BY <1>1, <1>10, CollectKeepsLog
    <2> QED BY <1>3, <2>1 DEF GenerationMatchesRead
  <1>11. ASSUME Clear
         PROVE  GenerationMatchesRead'
    <2>1. /\ events' = <<>> /\ collected' = <<>>
          /\ DOMAIN lastReadReceived' = {}
          /\ clearedResets' = generation /\ generation' = generation
      BY <1>11 DEF Clear
    <2>2. ResetsIn(Log') = 0
      <3>1. Log' = <<>>
        BY <2>1 DEF Log
      <3>2. <<>> \in Seq(Events) /\ Len(<<>>) = 0
        OBVIOUS
      <3>3. ResetsIn(<<>>) \in 0 .. Len(<<>>)
        BY <3>2, ResetsAreFew
      <3> QED BY <3>1, <3>2, <3>3
    <2> QED BY <1>5, <2>1, <2>2 DEF GenerationMatchesRead
  <1>12. ASSUME UNCHANGED eventVars
         PROVE  GenerationMatchesRead'
    BY <1>3, <1>12 DEF eventVars, GenerationMatchesRead, Log
  <1>13. GenerationMatchesRead'
    BY <1>6, <1>7, <1>8, <1>9, <1>10, <1>11, <1>12 DEF Next
  <1> QED BY <1>1, <1>13 DEF GenInv

(***************************************************************************)
(* GenerationMatchesRead holds in every reachable state: the generation    *)
(* that EventBuffer.read hands to a loop counts the resets up to exactly   *)
(* the events it handed out with it.                                       *)
(***************************************************************************)
THEOREM GenerationsMatch == Spec => []GenerationMatchesRead
  <1>1. GenInv => GenerationMatchesRead
    BY DEF GenInv
  <1> QED BY InitGeneration, NextGeneration, <1>1, PTL DEF Spec

-----------------------------------------------------------------------------
(* The buffer implements the log.                                           *)

\* A new buffer is an empty log.
LEMMA InitRefines == Init => Abstract!Init
  BY EmptyLog DEF Init, Abstract!Init

\* Every step of the buffer is a step of the log, or changes nothing there.
LEMMA NextRefines ==
  StoreInv /\ [Next]_eventVars => [Abstract!Next]_Abstract!logVars
  <1> SUFFICES ASSUME StoreInv, [Next]_eventVars
               PROVE  [Abstract!Next]_Abstract!logVars
    OBVIOUS
  <1>1. /\ Log \in Seq(Events) /\ Len(Log) = baseIndex + Len(events)
        /\ \A k \in baseIndex .. baseIndex + Len(events) :
              Drop(events, k - baseIndex) = SubSeq(Log, k + 1, Len(Log))
    BY LogFacts
  <1>2. /\ baseIndex \in Nat /\ Len(events) \in Nat
        /\ \A r \in DOMAIN readerIndexes :
              readerIndexes[r] \in baseIndex .. baseIndex + Len(events)
    BY DEF StoreInv, TypeOK, CursorsInWindow
  <1>3. baseIndex \in 0 .. Len(Log) /\ baseIndex \in baseIndex .. baseIndex + Len(events)
    BY <1>1, <1>2
  <1>4. ASSUME NEW batch \in Batches, NEW now \in Times, AppendBatch(batch, now)
        PROVE  Abstract!Next
    <2>1. batch \in Seq(Events) /\ Log' = Log \o batch
      BY <1>4, AppendExtendsLog
    <2>2. ResetsIn(batch) \in 0 .. Len(batch)
      BY <2>1, ResetsAreFew
    <2>3. /\ generation' = generation + ResetsIn(batch)
          /\ UNCHANGED <<readerIndexes, lastRead>>
      BY <1>4 DEF AppendBatch
    <2>4. Abstract!AppendBatch(batch)
      BY <2>1, <2>2, <2>3 DEF Abstract!AppendBatch
    <2> QED BY <2>4 DEF Abstract!Next
  <1>5. ASSUME NEW r \in Readers, Register(r)
        PROVE  [Abstract!Next]_Abstract!logVars
    <2>1. Log' = Log /\ UNCHANGED <<generation, lastRead>>
      BY <1>5 DEF Register, Log
    <2>2. CASE r \in DOMAIN readerIndexes
      <3>1. UNCHANGED readerIndexes
        BY <1>5, <2>2 DEF Register, SetDefault
      <3> QED BY <2>1, <3>1 DEF Abstract!logVars
    <2>3. CASE r \notin DOMAIN readerIndexes
      <3>1. readerIndexes' = Abstract!Put(readerIndexes, r, baseIndex)
        BY <1>5, <2>3 DEF Register, SetDefault, Put, Abstract!Put
      <3>2. Abstract!Join(r)
        BY <1>3, <2>1, <2>3, <3>1 DEF Abstract!Join
      <3> QED BY <3>2 DEF Abstract!Next
    <2> QED BY <2>2, <2>3
  <1>6. ASSUME NEW r \in Readers, Read(r)
        PROVE  Abstract!Next
    <2> DEFINE cursor == SetDefault(readerIndexes, r, baseIndex)[r]
    <2>1. /\ cursor \in baseIndex .. baseIndex + Len(events)
          /\ r \in DOMAIN readerIndexes => cursor = readerIndexes[r]
          /\ r \notin DOMAIN readerIndexes => cursor = baseIndex
      BY <1>2, <1>3 DEF SetDefault, Put
    <2>2. /\ lastRead' = [lastRead EXCEPT ![r] =
                            [events |->
                                 UserInputEvents(Drop(events, cursor - baseIndex)),
                             generation |-> generation]]
          /\ readerIndexes' = Put(readerIndexes, r, baseIndex + Len(events))
          /\ UNCHANGED <<events, collected, generation>>
      BY <1>6 DEF Read
    <2> HIDE DEF cursor
    <2>3. Log' = Log
      BY <2>2 DEF Log
    <2>4. /\ Drop(events, cursor - baseIndex) = SubSeq(Log, cursor + 1, Len(Log))
          /\ Drop(events, cursor - baseIndex) \in Seq(Events)
      <3>1. cursor - baseIndex \in 0 .. Len(events)
        BY <1>2, <2>1
      <3>2. events \in Seq(Events)
        BY DEF StoreInv, TypeOK
      <3> QED BY <1>1, <2>1, <3>1, <3>2, DropFacts
    <2> DEFINE unread   == SubSeq(Log, cursor + 1, Len(Log))
               returned == UserInputEvents(unread)
    <2>5. Abstract!OldestFirst(returned, unread)
      BY <2>4, UserInputEventsSorted
    <2>6. /\ lastRead' = [lastRead EXCEPT ![r] =
                            [events |-> returned, generation |-> generation]]
          /\ lastRead'[r].events = returned
      BY <2>2, <2>4 DEF StoreInv, TypeOK
    <2>7. readerIndexes' = Abstract!Put(readerIndexes, r, Len(Log))
      BY <1>1, <2>2 DEF Put, Abstract!Put
    <2>8. Abstract!ReadFrom(r, cursor)
      BY <2>2, <2>3, <2>7, <2>5, <2>6 DEF Abstract!ReadFrom
    <2>9. Abstract!Read(r)
      BY <1>3, <2>1, <2>8 DEF Abstract!Read
    <2> QED BY <2>9 DEF Abstract!Next
  <1>7. ASSUME NEW r \in Readers, Unregister(r)
        PROVE  Abstract!Next
    <2>1. Abstract!Leave(r)
      BY <1>7 DEF Unregister, Without, Log, Abstract!Leave, Abstract!Without
    <2> QED BY <2>1 DEF Abstract!Next
  <1>8. ASSUME CollectGarbage
        PROVE  UNCHANGED Abstract!logVars
    BY <1>8, CollectKeepsLog DEF Abstract!logVars
  <1>9. ASSUME Clear
        PROVE  Abstract!Next
    <2>1. Log' = <<>>
      BY <1>9 DEF Clear, Log
    <2>2. Abstract!Clear
      BY <1>9, <2>1 DEF Clear, Abstract!Clear
    <2> QED BY <2>2 DEF Abstract!Next
  <1>10. ASSUME UNCHANGED eventVars
         PROVE  UNCHANGED Abstract!logVars
    BY <1>10 DEF eventVars, Log, Abstract!logVars
  <1> QED BY <1>4, <1>5, <1>6, <1>7, <1>8, <1>9, <1>10 DEF Next

(***************************************************************************)
(* An EventBuffer is an EventLog: whatever the other loop reads, registers *)
(* or collects, and in whatever order the timestamps arrive, a reader is   *)
(* handed every event after the point where it joined, once, and those of  *)
(* one read from the oldest timestamp to the newest.                       *)
(***************************************************************************)
THEOREM BufferIsALog == Spec => ImplementsEventLog
  <1>1. Spec => []StoreInv
    BY InitStore, NextStore, PTL DEF Spec
  <1> QED BY InitRefines, NextRefines, <1>1, PTL
          DEF Spec, ImplementsEventLog, Abstract!Spec
=============================================================================
