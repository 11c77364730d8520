---------------------------- MODULE EventBuffer -----------------------------
(***************************************************************************)
(* runtime_v2/event_buffer.py: the input events shared by the UI loop and  *)
(* the model loop.  A flat list of retained events, the absolute index of  *)
(* its first element, one absolute cursor per reader, and a reset counter. *)
(* Every method holds the one lock for its whole body, so each is a single *)
(* action.                                                                 *)
(*                                                                         *)
(* An event is a model value; what the buffer tells apart is whether it is *)
(* a ResetUserInputEvent and the timestamp its window gave it, which need  *)
(* not follow the order of arrival.  `collected' and `clearedResets' are   *)
(* history: they record what collect_garbage and clear threw away.         *)
(***************************************************************************)
EXTENDS Integers, Sequences, FiniteSets

CONSTANTS Readers,      \* reader ids: the UI loop is 0 and the model loop 1
          Events,       \* input events
          ResetEvents,  \* the ResetUserInputEvent ones
          Timestamp,    \* event -> get_timestamp()
          Batches,      \* what one get_user_input_events() call may return
          Times,        \* arrival stamps (time.monotonic_ns)
          MaxLog,       \* bound: events ever appended between two clears
          MaxGeneration \* bound: resets ever appended

ASSUME ResetsAreEvents == ResetEvents \subseteq Events
ASSUME TimestampsAreInt == Timestamp \in [Events -> Int]
ASSUME BatchesAreSequences == Batches \subseteq Seq(Events)
ASSUME BoundsAreNat == MaxLog \in Nat /\ MaxGeneration \in Nat

VARIABLES events,           \* _events
          received,         \* _received_ns, parallel to events
          baseIndex,        \* _base_index
          readerIndexes,    \* _reader_indexes: a dict, a partial function
          generation,       \* _generation
          lastReadReceived, \* _last_read_received_ns: a dict
          lastRead,         \* what read() last returned to each reader
          collected,        \* history: events deleted since the last clear
          clearedResets     \* history: generation at the last clear

eventVars == <<events, received, baseIndex, readerIndexes, generation,
               lastReadReceived, lastRead, collected, clearedResets>>

\* Every event appended since the last clear, deleted or not.
Log == collected \o events

ResetsIn(s) == Cardinality({i \in 1 .. Len(s) : s[i] \in ResetEvents})

Put(f, key, value) ==
    [x \in DOMAIN f \cup {key} |-> IF x = key THEN value ELSE f[x]]

\* dict.setdefault(key, value)
SetDefault(f, key, value) == IF key \in DOMAIN f THEN f ELSE Put(f, key, value)

\* dict.pop(key, None)
Without(f, key) == [x \in DOMAIN f \ {key} |-> f[x]]

Drop(s, n) == SubSeq(s, n + 1, Len(s))

\* Position i of s comes before position j in a stable sort by timestamp.
Before(s, i, j) ==
    \/ Timestamp[s[i]] < Timestamp[s[j]]
    \/ Timestamp[s[i]] = Timestamp[s[j]] /\ i < j

\* How many positions come before position i.
Rank(s, i) == Cardinality({j \in 1 .. Len(s) : Before(s, j, i)})

\* The position of s that the sort puts at k.
Origin(s, k) == CHOOSE i \in 1 .. Len(s) : Rank(s, i) = k - 1

\* Mutation: the events are held as they came.
UnsortedUserInputEvents(s) == s

\* UserInputEvents(s): the events sorted by timestamp.
UserInputEvents(s) == [k \in 1 .. Len(s) |-> s[Origin(s, k)]]

-----------------------------------------------------------------------------
Init ==
    /\ events = <<>> /\ received = <<>>
    /\ baseIndex = 0
    /\ readerIndexes = <<>>
    /\ generation = 0
    /\ lastReadReceived = <<>>
    /\ lastRead = [r \in Readers |-> [events |-> <<>>, generation |-> 0]]
    /\ collected = <<>>
    /\ clearedResets = 0

Register(r) ==
    /\ readerIndexes' = SetDefault(readerIndexes, r, baseIndex)
    /\ UNCHANGED <<events, received, baseIndex, generation, lastReadReceived,
                   lastRead, collected, clearedResets>>

\* Mutation: a batch is taken to hold at most one reset.
AppendOneResetPerBatch(batch, now) ==
    /\ Len(Log) + Len(batch) <= MaxLog
    /\ generation + ResetsIn(batch) <= MaxGeneration
    /\ events' = events \o batch
    /\ received' = received \o [i \in 1 .. Len(batch) |-> now]
    /\ generation' = generation + (IF ResetsIn(batch) > 0 THEN 1 ELSE 0)
    /\ UNCHANGED <<baseIndex, readerIndexes, lastReadReceived, lastRead,
                   collected, clearedResets>>

AppendBatch(batch, now) ==
    /\ Len(Log) + Len(batch) <= MaxLog
    /\ generation + ResetsIn(batch) <= MaxGeneration
    /\ events' = events \o batch
    /\ received' = received \o [i \in 1 .. Len(batch) |-> now]
    /\ generation' = generation + ResetsIn(batch)
    /\ UNCHANGED <<baseIndex, readerIndexes, lastReadReceived, lastRead,
                   collected, clearedResets>>

\* The slice starts at the reader's cursor; a reader that never registered
\* starts at the oldest retained event.  The events are handed out sorted, the
\* stamps of their arrival are not.
Read(r) ==
    LET cursor == SetDefault(readerIndexes, r, baseIndex)[r]
        relative == cursor - baseIndex
    IN  /\ lastRead' = [lastRead EXCEPT ![r] =
                          [events |-> UserInputEvents(Drop(events, relative)),
                           generation |-> generation]]
        /\ lastReadReceived' =
               Put(lastReadReceived, r, Drop(received, relative))
        /\ readerIndexes' = Put(readerIndexes, r, baseIndex + Len(events))
        /\ UNCHANGED <<events, received, baseIndex, generation, collected,
                       clearedResets>>

Unregister(r) ==
    /\ readerIndexes' = Without(readerIndexes, r)
    /\ lastReadReceived' = Without(lastReadReceived, r)
    /\ UNCHANGED <<events, received, baseIndex, generation, lastRead,
                   collected, clearedResets>>

\* del self._events[:removed], and the same for the stamps.
Remove(removed) ==
    /\ events' = Drop(events, removed)
    /\ received' = Drop(received, removed)
    /\ baseIndex' = baseIndex + removed
    /\ collected' = collected \o SubSeq(events, 1, removed)
    /\ UNCHANGED <<readerIndexes, generation, lastReadReceived, lastRead,
                   clearedResets>>

\* Mutation: collect up to the most advanced reader instead of the slowest.
CollectPastSlowest ==
    \/ readerIndexes = <<>> /\ Remove(Len(events))
    \/ \E r \in DOMAIN readerIndexes :
          /\ \A q \in DOMAIN readerIndexes : readerIndexes[q] <= readerIndexes[r]
          /\ Remove(readerIndexes[r] - baseIndex)

\* With no reader everything goes; otherwise the prefix, perhaps empty, that
\* the slowest reader has passed.
CollectGarbage ==
    \/ readerIndexes = <<>> /\ Remove(Len(events))
    \/ \E r \in DOMAIN readerIndexes :
          /\ \A q \in DOMAIN readerIndexes : readerIndexes[r] <= readerIndexes[q]
          /\ Remove(readerIndexes[r] - baseIndex)

\* Readers, events and stamps go; the generation stays.
Clear ==
    /\ events' = <<>> /\ received' = <<>>
    /\ readerIndexes' = <<>>
    /\ lastReadReceived' = <<>>
    /\ baseIndex' = 0
    /\ collected' = <<>>
    /\ clearedResets' = generation
    /\ UNCHANGED <<generation, lastRead>>

Next ==
    \/ \E batch \in Batches, now \in Times : AppendBatch(batch, now)
    \/ \E r \in Readers : Register(r) \/ Read(r) \/ Unregister(r)
    \/ CollectGarbage
    \/ Clear

Spec == Init /\ [][Next]_eventVars

-----------------------------------------------------------------------------
TypeOK ==
    /\ events \in Seq(Events)
    /\ received \in Seq(Times)
    /\ baseIndex \in Nat
    /\ DOMAIN readerIndexes \subseteq Readers
    /\ \A r \in DOMAIN readerIndexes : readerIndexes[r] \in Nat
    /\ generation \in Nat
    /\ DOMAIN lastReadReceived \subseteq Readers
    /\ \A r \in DOMAIN lastReadReceived : lastReadReceived[r] \in Seq(Times)
    /\ lastRead \in [Readers -> [events : Seq(Events), generation : Nat]]
    /\ collected \in Seq(Events)
    /\ clearedResets \in Nat

(***************************************************************************)
(* No registered reader has lost an event or points past the end: its      *)
(* cursor lies within the retained window, and the window starts exactly   *)
(* after what was deleted.  read() slices with `cursor - base_index', so a *)
(* cursor below the window would make Python slice from the end and hand   *)
(* out the wrong events without an error.                                  *)
(***************************************************************************)
CursorsInWindow ==
    /\ baseIndex = Len(collected)
    /\ Len(received) = Len(events)
    /\ \A r \in DOMAIN readerIndexes :
          readerIndexes[r] \in baseIndex .. baseIndex + Len(events)
    /\ \A r \in DOMAIN lastReadReceived :
          /\ r \in DOMAIN readerIndexes
          /\ Len(lastReadReceived[r]) = Len(lastRead[r].events)

(***************************************************************************)
(* The generation a read() returns counts exactly the resets among the     *)
(* events up to the reader's new cursor: a loop never sees a generation    *)
(* whose reset event is still to come, nor a reset event without its       *)
(* generation.                                                             *)
(***************************************************************************)
GenerationMatchesRead ==
    /\ generation = clearedResets + ResetsIn(Log)
    /\ \A r \in DOMAIN lastReadReceived :
          lastRead[r].generation =
              clearedResets + ResetsIn(SubSeq(Log, 1, readerIndexes[r]))

\* The buffer seen as a log that is never collected.
Abstract == INSTANCE EventLog WITH log <- Log, position <- readerIndexes

(***************************************************************************)
(* Every reader is handed every event after the point where it joined,     *)
(* once, and those of one read from the oldest timestamp to the newest,    *)
(* however reads, appends and collections interleave and in whatever order *)
(* the events arrived.  Between two reads the order is that of arrival: an *)
(* event that arrives after a read is not handed out before it.            *)
(***************************************************************************)
ImplementsEventLog == Abstract!Spec
=============================================================================
