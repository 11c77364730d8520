------------------------------ MODULE EventLog ------------------------------
(***************************************************************************)
(* What an event buffer promises its readers, with no word about storage:  *)
(* one log of input events in the order of their arrival, and one position *)
(* per reader.  A read returns every event between the reader's position   *)
(* and the end of the log, each once and none after a newer one, together  *)
(* with the reset generation at that same instant, and moves the position  *)
(* to the end.  Nothing is ever skipped or repeated.                       *)
(***************************************************************************)
EXTENDS Integers, Sequences, FiniteSets

CONSTANTS Readers,   \* reader ids
          Timestamp, \* event -> when its window says that it happened
          Batches    \* the batches a client window may deliver

VARIABLES log,         \* every event appended since the last clear
          position,    \* partial function: reader -> events already handed out
          generation,  \* resets ever appended
          lastRead     \* reader -> what its latest read returned

logVars == <<log, position, generation, lastRead>>

Put(f, key, value) ==
    [x \in DOMAIN f \cup {key} |-> IF x = key THEN value ELSE f[x]]

Without(f, key) == [x \in DOMAIN f \ {key} |-> f[x]]

Init == /\ log = <<>>
        /\ position = <<>>
        /\ generation = 0
        /\ lastRead = [r \in Readers |-> [events |-> <<>>, generation |-> 0]]

\* The end of the log grows; the generation grows by some number of resets,
\* which may not exceed the size of the batch.
AppendBatch(batch) ==
    /\ log' = log \o batch
    /\ \E resets \in 0 .. Len(batch) : generation' = generation + resets
    /\ UNCHANGED <<position, lastRead>>

\* A new reader starts somewhere in the log.
Join(r) ==
    /\ r \notin DOMAIN position
    /\ \E start \in 0 .. Len(log) : position' = Put(position, r, start)
    /\ UNCHANGED <<log, generation, lastRead>>

\* How often an event occurs.
Count(s, event) == Cardinality({i \in DOMAIN s : s[i] = event})

\* s holds the events of t, each as often as t does, and none after a newer one.
OldestFirst(s, t) ==
    /\ DOMAIN s = 1 .. Len(t)
    /\ \A i \in 1 .. Len(t) : Count(s, t[i]) = Count(t, t[i])
    /\ \A i, j \in 1 .. Len(t) : i < j => Timestamp[s[i]] <= Timestamp[s[j]]

ReadFrom(r, start) ==
    /\ LET returned == lastRead'[r].events
       IN  /\ OldestFirst(returned, SubSeq(log, start + 1, Len(log)))
           /\ lastRead' = [lastRead EXCEPT ![r] =
                              [events |-> returned, generation |-> generation]]
    /\ position' = Put(position, r, Len(log))
    /\ UNCHANGED <<log, generation>>

\* A reader that never joined joins by reading.
Read(r) ==
    \/ r \in DOMAIN position /\ ReadFrom(r, position[r])
    \/ r \notin DOMAIN position /\ \E start \in 0 .. Len(log) : ReadFrom(r, start)

Leave(r) ==
    /\ position' = Without(position, r)
    /\ UNCHANGED <<log, generation, lastRead>>

Clear ==
    /\ log' = <<>>
    /\ position' = <<>>
    /\ UNCHANGED <<generation, lastRead>>

Next == \/ \E batch \in Batches : AppendBatch(batch)
        \/ \E r \in Readers : Join(r) \/ Read(r) \/ Leave(r)
        \/ Clear

Spec == Init /\ [][Next]_logVars
=============================================================================
