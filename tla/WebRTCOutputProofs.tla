------------------------- MODULE WebRTCOutputProofs -------------------------
(***************************************************************************)
(* Proofs about the WebRTC output, for any values of the constants.  First *)
(* OutputBridge, the bridge that hands the model's chunks to the track     *)
(* through the event loop; then VideoTrack, the track that paces them.     *)
(*                                                                         *)
(* The bridge has no flag that says what is under way: what keeps it right *)
(* is what the loop has in its queue and in which order.  So its invariant *)
(* speaks of the queue: that an item is in it (Has), and that one item is  *)
(* before another (Before).                                                *)
(***************************************************************************)
EXTENDS OutputBridge, VideoTrack, SequenceTheorems, FiniteSetTheorems,
        WellFoundedInduction, TLAPS

(***************************************************************************)
(* The loop's queue, seen through what it holds and in which order.        *)
(***************************************************************************)
HasIn(s, k, c) == \E i \in 1 .. Len(s) : s[i] = <<k, c>>
BeforeIn(s, k, c, l, d) ==
    \E i, j \in 1 .. Len(s) : i < j /\ s[i] = <<k, c>> /\ s[j] = <<l, d>>
Has(k, c) == HasIn(ready, k, c)
Before(k, c, l, d) == BeforeIn(ready, k, c, l, d)

Items == ({"deliver", "step", "cancel", "done"} \X Chunks)
           \cup ({"flush", "empty"} \X (0 .. MaxChunks))
           \cup ({"close", "end", "turn"} \X {0})

-----------------------------------------------------------------------------
(* Sequences of items.                                                      *)

LEMMA Concatenation ==
  ASSUME NEW S, NEW s \in Seq(S), NEW t \in Seq(S)
  PROVE  /\ s \o t \in Seq(S)
         /\ \A k, c : HasIn(s \o t, k, c) <=> HasIn(s, k, c) \/ HasIn(t, k, c)
         /\ \A k, c, l, d : BeforeIn(s \o t, k, c, l, d) <=>
               \/ BeforeIn(s, k, c, l, d) \/ BeforeIn(t, k, c, l, d)
               \/ HasIn(s, k, c) /\ HasIn(t, l, d)
  <1> DEFINE st == s \o t
  <1>1. /\ st \in Seq(S) /\ Len(st) = Len(s) + Len(t)
        /\ \A i \in 1 .. Len(s) + Len(t) :
              st[i] = IF i <= Len(s) THEN s[i] ELSE t[i - Len(s)]
    BY ConcatProperties
  <1>2. Len(s) \in Nat /\ Len(t) \in Nat
    OBVIOUS
  <1> HIDE DEF st
  <1>3. /\ \A i \in 1 .. Len(s) : i \in 1 .. Len(st) /\ st[i] = s[i]
        /\ \A i \in 1 .. Len(t) : Len(s) + i \in 1 .. Len(st) /\ st[Len(s) + i] = t[i]
        /\ \A i \in 1 .. Len(st) : i \in 1 .. Len(s) \/ i - Len(s) \in 1 .. Len(t)
    <2>1. ASSUME NEW i \in 1 .. Len(t)
          PROVE  Len(s) + i \in 1 .. Len(st) /\ st[Len(s) + i] = t[i]
      <3>1. Len(s) + i \in 1 .. Len(s) + Len(t) /\ ~(Len(s) + i <= Len(s))
            /\ (Len(s) + i) - Len(s) = i
        BY <1>2
      <3> QED BY <1>1, <3>1
    <2> QED BY <1>1, <1>2, <2>1
  <1>4. \A k, c : HasIn(st, k, c) <=> HasIn(s, k, c) \/ HasIn(t, k, c)
    <2> TAKE k, c
    <2>1. ASSUME HasIn(st, k, c) PROVE HasIn(s, k, c) \/ HasIn(t, k, c)
      <3>1. PICK i \in 1 .. Len(st) : st[i] = <<k, c>>
        BY <2>1 DEF HasIn
      <3>2. CASE i \in 1 .. Len(s)
        BY <1>3, <3>1, <3>2 DEF HasIn
      <3>3. CASE i - Len(s) \in 1 .. Len(t)
        <4>1. Len(s) + (i - Len(s)) = i
          BY <1>2
        <4> QED BY <1>3, <3>1, <3>3, <4>1 DEF HasIn
      <3> QED BY <1>3, <3>2, <3>3
    <2>2. HasIn(s, k, c) => HasIn(st, k, c)
      BY <1>3 DEF HasIn
    <2>3. HasIn(t, k, c) => HasIn(st, k, c)
      BY <1>3 DEF HasIn
    <2> QED BY <2>1, <2>2, <2>3
  <1>5. ASSUME NEW k, NEW c, NEW l, NEW d
        PROVE  BeforeIn(st, k, c, l, d) <=>
               \/ BeforeIn(s, k, c, l, d) \/ BeforeIn(t, k, c, l, d)
               \/ HasIn(s, k, c) /\ HasIn(t, l, d)
    <2>1. ASSUME BeforeIn(st, k, c, l, d)
          PROVE  \/ BeforeIn(s, k, c, l, d) \/ BeforeIn(t, k, c, l, d)
                 \/ HasIn(s, k, c) /\ HasIn(t, l, d)
      <3>1. PICK i \in 1 .. Len(st), j \in 1 .. Len(st) :
               i < j /\ st[i] = <<k, c>> /\ st[j] = <<l, d>>
        BY <2>1 DEF BeforeIn
      <3>2. Len(s) + (i - Len(s)) = i /\ Len(s) + (j - Len(s)) = j
        BY <1>2
      <3>3. CASE j \in 1 .. Len(s)
        <4>1. i \in 1 .. Len(s)
          BY <1>2, <3>1, <3>3
        <4> QED BY <1>3, <3>1, <3>3, <4>1 DEF BeforeIn
      <3>4. CASE j - Len(s) \in 1 .. Len(t) /\ i \in 1 .. Len(s)
        <4>1. s[i] = <<k, c>> /\ t[j - Len(s)] = <<l, d>>
          BY <1>3, <3>1, <3>2, <3>4
        <4> QED BY <3>4, <4>1 DEF HasIn
      <3>5. CASE j - Len(s) \in 1 .. Len(t) /\ i - Len(s) \in 1 .. Len(t)
        <4>1. i - Len(s) < j - Len(s)
          BY <1>2, <3>1
        <4>2. t[i - Len(s)] = <<k, c>> /\ t[j - Len(s)] = <<l, d>>
          BY <1>3, <3>1, <3>2, <3>5
        <4> QED BY <3>5, <4>1, <4>2 DEF BeforeIn
      <3> QED BY <1>3, <3>3, <3>4, <3>5
    <2>2. BeforeIn(s, k, c, l, d) => BeforeIn(st, k, c, l, d)
      BY <1>3 DEF BeforeIn
    <2>3. ASSUME BeforeIn(t, k, c, l, d) PROVE BeforeIn(st, k, c, l, d)
      <3>1. PICK i \in 1 .. Len(t), j \in 1 .. Len(t) :
               i < j /\ t[i] = <<k, c>> /\ t[j] = <<l, d>>
        BY <2>3 DEF BeforeIn
      <3>2. Len(s) + i < Len(s) + j
        BY <1>2, <3>1
      <3> QED BY <1>3, <3>1, <3>2 DEF BeforeIn
    <2>4. ASSUME HasIn(s, k, c), HasIn(t, l, d) PROVE BeforeIn(st, k, c, l, d)
      <3>1. PICK i \in 1 .. Len(s) : s[i] = <<k, c>>
        BY <2>4 DEF HasIn
      <3>2. PICK j \in 1 .. Len(t) : t[j] = <<l, d>>
        BY <2>4 DEF HasIn
      <3>3. i < Len(s) + j
        BY <1>2
      <3> QED BY <1>3, <3>1, <3>2, <3>3 DEF BeforeIn
    <2> QED BY <2>1, <2>2, <2>3, <2>4
  <1> QED BY <1>1, <1>4, <1>5 DEF st

LEMMA OneItem ==
  ASSUME NEW k, NEW c
  PROVE  /\ \A l, d : HasIn(<< <<k, c>> >>, l, d) <=> l = k /\ d = c
         /\ \A l, d, m, e : ~BeforeIn(<< <<k, c>> >>, l, d, m, e)
  <1> DEFINE s == << <<k, c>> >>
  <1>1. Len(s) = 1 /\ s[1] = <<k, c>>
    OBVIOUS
  <1> HIDE DEF s
  <1>2. \A l, d : HasIn(s, l, d) <=> l = k /\ d = c
    BY <1>1 DEF HasIn
  <1>3. \A l, d, m, e : ~BeforeIn(s, l, d, m, e)
    BY <1>1 DEF BeforeIn
  <1> QED BY <1>2, <1>3 DEF s

LEMMA NoItem ==
  /\ \A l, d : ~HasIn(<<>>, l, d)
  /\ \A l, d, m, e : ~BeforeIn(<<>>, l, d, m, e)
  BY DEF HasIn, BeforeIn

\* A queue is its head and the rest.
LEMMA HeadAndTail ==
  ASSUME NEW S, NEW s \in Seq(S), s # <<>>, NEW k, NEW c, Head(s) = <<k, c>>
  PROVE  /\ Tail(s) \in Seq(S)
         /\ \A l, d : HasIn(s, l, d) <=> (l = k /\ d = c) \/ HasIn(Tail(s), l, d)
         /\ \A l, d, m, e : BeforeIn(s, l, d, m, e) <=>
               (l = k /\ d = c /\ HasIn(Tail(s), m, e)) \/ BeforeIn(Tail(s), l, d, m, e)
  <1> DEFINE one == << <<k, c>> >>
             rest == Tail(s)
  <1>1. <<k, c>> \in S /\ rest \in Seq(S) /\ s = one \o rest
    <2>1. /\ Head(s) \in S /\ rest \in Seq(S) /\ Len(rest) = Len(s) - 1
          /\ \A i \in 1 .. Len(rest) : rest[i] = s[i + 1]
      BY HeadTailProperties
    <2>2. one \in Seq(S) /\ Len(one) = 1 /\ one[1] = s[1] /\ Len(s) \in Nat
      BY <2>1
    <2> HIDE DEF one, rest
    <2>3. /\ one \o rest \in Seq(S) /\ Len(one \o rest) = Len(s)
          /\ \A i \in 1 .. Len(s) :
                (one \o rest)[i] = IF i <= 1 THEN one[i] ELSE rest[i - 1]
      <3>1. /\ one \o rest \in Seq(S) /\ Len(one \o rest) = Len(one) + Len(rest)
            /\ \A i \in 1 .. Len(one) + Len(rest) : (one \o rest)[i] =
                     IF i <= Len(one) THEN one[i] ELSE rest[i - Len(one)]
        <4>1. one \in Seq(S) /\ rest \in Seq(S)
          BY <2>1, <2>2
        <4> QED BY <4>1, ConcatProperties
      <3>2. Len(one) + Len(rest) = Len(s)
        BY <2>1, <2>2
      <3> QED BY <2>2, <3>1, <3>2
    <2>4. ASSUME NEW i \in 1 .. Len(s) PROVE (one \o rest)[i] = s[i]
      <3>1. CASE i = 1
        BY <2>2, <2>3, <3>1
      <3>2. CASE i # 1
        <4>1. i - 1 \in 1 .. Len(rest) /\ (i - 1) + 1 = i
          BY <2>1, <2>2, <3>2
        <4> QED BY <2>1, <2>3, <3>2, <4>1
      <3> QED BY <3>1, <3>2
    <2> QED BY <2>1, <2>3, <2>4, SeqEqual
  <1>2. one \in Seq(S)
    BY <1>1
  <1>3. /\ \A l, d : HasIn(one, l, d) <=> l = k /\ d = c
        /\ \A l, d, m, e : ~BeforeIn(one, l, d, m, e)
    BY OneItem
  <1> HIDE DEF one, rest
  <1>4. /\ \A l, d : HasIn(one \o rest, l, d) <=> HasIn(one, l, d) \/ HasIn(rest, l, d)
        /\ \A l, d, m, e : BeforeIn(one \o rest, l, d, m, e) <=>
               \/ BeforeIn(one, l, d, m, e) \/ BeforeIn(rest, l, d, m, e)
               \/ HasIn(one, l, d) /\ HasIn(rest, m, e)
    BY <1>1, <1>2, Concatenation
  <1>5. rest = Tail(s) /\ rest \in Seq(S)
    BY <1>1 DEF rest
  <1>6. /\ \A l, d : HasIn(s, l, d) <=> (l = k /\ d = c) \/ HasIn(rest, l, d)
        /\ \A l, d, m, e : BeforeIn(s, l, d, m, e) <=>
               (l = k /\ d = c /\ HasIn(rest, m, e)) \/ BeforeIn(rest, l, d, m, e)
    BY <1>1, <1>3, <1>4
  <1> QED BY <1>5, <1>6

-----------------------------------------------------------------------------
(* What an action does to the loop's queue.                                 *)

\* The head, <<k, c>>, goes, and `t' is appended.
LEMMA Pops ==
  ASSUME ready \in Seq(Items), ready # <<>>, NEW k, NEW c, Head(ready) = <<k, c>>,
         NEW t \in Seq(Items), ready' = Tail(ready) \o t
  PROVE  /\ ready' \in Seq(Items)
         /\ Has(k, c)
         /\ \A l, d : Has(l, d)' => Has(l, d) \/ HasIn(t, l, d)
         /\ \A l, d : Has(l, d) /\ ~(l = k /\ d = c) => Has(l, d)'
         /\ \A l, d : HasIn(t, l, d) => Has(l, d)'
         /\ ~Before(k, c, k, c) /\ ~HasIn(t, k, c) => ~Has(k, c)'
         /\ \A l, d : Has(l, d) /\ ~(l = k /\ d = c) => Before(k, c, l, d)
         /\ \A l, d, m, e : Before(l, d, m, e)' =>
               \/ Before(l, d, m, e) \/ BeforeIn(t, l, d, m, e)
               \/ Has(l, d) /\ HasIn(t, m, e) /\ (l = k /\ d = c => Before(k, c, k, c))
         /\ \A l, d, m, e : Before(l, d, m, e) /\ ~(l = k /\ d = c) =>
               Before(l, d, m, e)'
         /\ \A l, d, m, e : Has(l, d) /\ ~(l = k /\ d = c) /\ HasIn(t, m, e) =>
               Before(l, d, m, e)'
  <1> DEFINE rest == Tail(ready)
  <1>1. /\ rest \in Seq(Items)
        /\ \A l, d : HasIn(ready, l, d) <=> (l = k /\ d = c) \/ HasIn(rest, l, d)
        /\ \A l, d, m, e : BeforeIn(ready, l, d, m, e) <=>
               (l = k /\ d = c /\ HasIn(rest, m, e)) \/ BeforeIn(rest, l, d, m, e)
    BY HeadAndTail
  <1>2. ready' = rest \o t
    OBVIOUS
  <1> HIDE DEF rest
  <1>3. /\ ready' \in Seq(Items)
        /\ \A l, d : HasIn(ready', l, d) <=> HasIn(rest, l, d) \/ HasIn(t, l, d)
        /\ \A l, d, m, e : BeforeIn(ready', l, d, m, e) <=>
               \/ BeforeIn(rest, l, d, m, e) \/ BeforeIn(t, l, d, m, e)
               \/ HasIn(rest, l, d) /\ HasIn(t, m, e)
    <2>1. rest \in Seq(Items) /\ t \in Seq(Items)
      BY <1>1
    <2>2. /\ rest \o t \in Seq(Items)
          /\ \A l, d : HasIn(rest \o t, l, d) <=> HasIn(rest, l, d) \/ HasIn(t, l, d)
          /\ \A l, d, m, e : BeforeIn(rest \o t, l, d, m, e) <=>
                \/ BeforeIn(rest, l, d, m, e) \/ BeforeIn(t, l, d, m, e)
                \/ HasIn(rest, l, d) /\ HasIn(t, m, e)
      BY <2>1, Concatenation
    <2> QED BY <1>2, <2>2
  <1>4. \A l, d, m, e : BeforeIn(rest, l, d, m, e) => HasIn(rest, l, d)
    BY DEF BeforeIn, HasIn
  <1>5. /\ Has(k, c)
        /\ \A l, d : Has(l, d)' => Has(l, d) \/ HasIn(t, l, d)
        /\ \A l, d : Has(l, d) /\ ~(l = k /\ d = c) => Has(l, d)'
        /\ \A l, d : HasIn(t, l, d) => Has(l, d)'
        /\ \A l, d : Has(l, d) /\ ~(l = k /\ d = c) => Before(k, c, l, d)
    BY <1>1, <1>3 DEF Has, Before
  <1>6. ~Before(k, c, k, c) /\ ~HasIn(t, k, c) => ~Has(k, c)'
    BY <1>1, <1>3 DEF Has, Before
  <1>7. \A l, d, m, e : Before(l, d, m, e)' =>
               \/ Before(l, d, m, e) \/ BeforeIn(t, l, d, m, e)
               \/ Has(l, d) /\ HasIn(t, m, e) /\ (l = k /\ d = c => Before(k, c, k, c))
    BY <1>1, <1>3 DEF Has, Before
  <1>8. \A l, d, m, e : Before(l, d, m, e) /\ ~(l = k /\ d = c) => Before(l, d, m, e)'
    BY <1>1, <1>3 DEF Before
  <1>9. \A l, d, m, e : Has(l, d) /\ ~(l = k /\ d = c) /\ HasIn(t, m, e) =>
               Before(l, d, m, e)'
    BY <1>1, <1>3 DEF Has, Before
  <1> QED BY <1>3, <1>5, <1>6, <1>7, <1>8, <1>9

LEMMA Appends ==
  ASSUME ready \in Seq(Items), NEW t \in Seq(Items), ready' = ready \o t
  PROVE  /\ ready' \in Seq(Items)
         /\ \A l, d : Has(l, d)' <=> Has(l, d) \/ HasIn(t, l, d)
         /\ \A l, d, m, e : Before(l, d, m, e)' <=>
               \/ Before(l, d, m, e) \/ BeforeIn(t, l, d, m, e)
               \/ Has(l, d) /\ HasIn(t, m, e)
  BY Concatenation DEF Has, Before

-----------------------------------------------------------------------------
(***************************************************************************)
(* The first invariant: the deliveries, the loop's queue and the lock.     *)
(***************************************************************************)
Live(c) == c <= submitted /\ place[c] # "over"
Writing == worker.at \in {"enter", "recheck", "schedule"}

BridgeTypes ==
    /\ closeTrack \in BOOLEAN /\ bridgeClosed \in BOOLEAN /\ ended \in BOOLEAN
    /\ generation \in 0 .. MaxGenerations
    /\ submitted \in 0 .. MaxChunks
    /\ gen \in [Chunks -> 0 .. MaxGenerations]
    /\ \A c \in Chunks : gen[c] <= generation
    /\ ready \in Seq(Items)
    /\ shown \in 0 .. MaxChunks

TaskTypes ==
    /\ place \in [Chunks -> {"none", "created", "new", "lock", "put", "over"}]
    /\ left \in [Chunks -> 0 .. FrameCount]
    /\ must \in [Chunks -> BOOLEAN]
    /\ future \in [Chunks -> {"none", "pending", "cancelled", "reported"}]

PendingOK ==
    /\ pending \subseteq 1 .. submitted
    /\ IsFiniteSet(pending) /\ Cardinality(pending) <= MaxPending

\* There is room for the chunk that the worker has in hand.
WorkerOK ==
    /\ worker \in [at : {"idle", "enter", "recheck", "schedule", "plan"},
                   gen : 0 .. MaxGenerations, stale : SUBSET (1 .. submitted)]
    /\ worker.gen <= generation
    /\ Writing => submitted < MaxChunks
    /\ worker.at = "schedule" => Cardinality(pending) < MaxPending
    /\ worker.stale # {} => worker.at \in {"recheck", "schedule"}

QueueOK == queue \in Seq(0 .. MaxChunks) /\ Len(queue) <= MaxSize

\* The driver has its turn after the callbacks of what was submitted, and only
\* while the worker is idle.
TurnOK ==
    /\ Has("turn", 0) => worker.at = "idle" /\ ~Before("turn", 0, "turn", 0)
    /\ \A c \in Chunks : Has("deliver", c) =>
          Has("turn", 0) /\ ~Before("turn", 0, "deliver", c)

\* Where a delivery is, and what the loop has in store for it.
PlacesOK == \A c \in Chunks :
    /\ c <= submitted <=> place[c] # "none"
    /\ Has("deliver", c) <=> place[c] = "created"
    /\ Has("step", c) => place[c] \in {"new", "lock", "put"}
    /\ Has("done", c) => place[c] = "over"
    /\ Has("cancel", c) => place[c] \notin {"none", "created"}
    /\ \A k \in {"deliver", "step", "done"} : ~Before(k, c, k, c)

\* Who holds _delivery_lock puts, the others of `waiters' wait for it; it is
\* the first of them that a release wakes.
LockOK ==
    /\ holder \in Chunks \cup {Nobody}
    /\ waiters \in Seq(Chunks)
    /\ \A i, j \in 1 .. Len(waiters) : waiters[i] = waiters[j] => i = j
    /\ \A c \in Chunks :
         /\ (\E i \in 1 .. Len(waiters) : waiters[i] = c) <=> place[c] = "lock"
         /\ holder = c <=> place[c] = "put"
         /\ place[c] = "put" => left[c] > 0
         /\ Has("step", c) /\ place[c] = "lock" /\ ~must[c] =>
               holder = Nobody /\ waiters[1] = c

\* A delivery that is not over is tracked or cancelled.
FuturesOK == \A c \in Chunks :
    /\ future[c] = "none" <=> submitted < c
    /\ Live(c) => /\ future[c] \in {"pending", "cancelled"}
                  /\ c \in pending \/ c \in worker.stale \/ future[c] = "cancelled"

BridgeInv == /\ BridgeTypes /\ TaskTypes /\ PendingOK /\ WorkerOK /\ QueueOK
             /\ TurnOK /\ PlacesOK /\ LockOK /\ FuturesOK

LEMMA HeadItem ==
  ASSUME ready \in Seq(Items), NEW k, Runs(k)
  PROVE  /\ ready # <<>> /\ Head(ready) \in Items
         /\ Head(ready) = <<k, Head(ready)[2]>>
         /\ k \in {"deliver", "step", "cancel", "done"} => Head(ready)[2] \in Chunks
         /\ k \in {"flush", "empty"} => Head(ready)[2] \in 0 .. MaxChunks
         /\ k \in {"close", "end", "turn"} => Head(ready)[2] = 0
  <1>1. ready # <<>> /\ Head(ready) \in Items /\ Head(ready)[1] = k
    BY HeadTailProperties DEF Runs
  <1>2. Head(ready) = <<k, Head(ready)[2]>>
    BY <1>1 DEF Items
  <1>3. k \in {"deliver", "step", "cancel", "done"} => Head(ready)[2] \in Chunks
    BY <1>1 DEF Items
  <1>4. k \in {"flush", "empty"} => Head(ready)[2] \in 0 .. MaxChunks
    BY <1>1 DEF Items
  <1>5. k \in {"close", "end", "turn"} => Head(ready)[2] = 0
    BY <1>1 DEF Items
  <1> QED BY <1>1, <1>2, <1>3, <1>4, <1>5

LEMMA ItemsOf ==
  /\ \A c \in Chunks : \A k \in {"deliver", "step", "cancel", "done"} :
        <<k, c>> \in Items /\ << <<k, c>> >> \in Seq(Items)
  /\ \A m \in 0 .. MaxChunks : \A k \in {"flush", "empty"} : << <<k, m>> >> \in Seq(Items)
  /\ \A k \in {"close", "end", "turn"} : << <<k, 0>> >> \in Seq(Items)
  /\ <<>> \in Seq(Items)
  BY DEF Items

LEMMA InitBridge == BridgeInit => BridgeInv
  <1> SUFFICES ASSUME BridgeInit PROVE BridgeInv
    OBVIOUS
  <1> USE BoundsArePositive, ValuesToCheck DEF BridgeInit
  <1>0. /\ \A k, c : Has(k, c) <=> k = "turn" /\ c = 0
        /\ \A k, c, l, d : ~Before(k, c, l, d)
    BY OneItem DEF Has, Before
  <1>1. BridgeTypes
    <2>1. closeTrack \in BOOLEAN /\ bridgeClosed \in BOOLEAN /\ ended \in BOOLEAN
      OBVIOUS
    <2>2. ready \in Seq(Items)
      BY ItemsOf
    <2>3. /\ generation \in 0 .. MaxGenerations /\ submitted \in 0 .. MaxChunks
          /\ shown \in 0 .. MaxChunks
      OBVIOUS
    <2>4. gen \in [Chunks -> 0 .. MaxGenerations] /\ \A c \in Chunks : gen[c] <= generation
      OBVIOUS
    <2> QED BY <2>1, <2>2, <2>3, <2>4 DEF BridgeTypes
  <1>2. TaskTypes
    BY DEF TaskTypes, Chunks
  <1>3. PendingOK
    BY FS_EmptySet DEF PendingOK
  <1>4. WorkerOK
    BY DEF WorkerOK, Writing
  <1>5. QueueOK
    BY DEF QueueOK
  <1>6. TurnOK
    BY <1>0 DEF TurnOK
  <1>7. PlacesOK
    BY <1>0 DEF PlacesOK, Chunks
  <1>8. LockOK
    BY <1>0 DEF LockOK, Chunks, Nobody
  <1>9. FuturesOK
    BY DEF FuturesOK, Chunks, Live
  <1> QED BY <1>1, <1>2, <1>3, <1>4, <1>5, <1>6, <1>7, <1>8, <1>9 DEF BridgeInv

-----------------------------------------------------------------------------
(* The worker's steps.                                                      *)

LEMMA ReturnStays ==
  ASSUME BridgeInv, worker.at # "idle", worker.stale = {}, Return(<<>>),
         UNCHANGED <<bridge, pending, submitted, gen, tasks, future, queue, ended, shown>>
  PROVE  BridgeInv'
  <1> USE DEF bridge, tasks
  <1>1. /\ UNCHANGED <<closeTrack, bridgeClosed, generation, pending, submitted, gen>>
        /\ UNCHANGED <<place, left, must, holder, waiters, future, queue, ended, shown>>
    OBVIOUS
  <1>2. /\ ready' \in Seq(Items)
        /\ \A k, c : Has(k, c)' <=> Has(k, c) \/ (k = "turn" /\ c = 0)
        /\ \A k, c, l, d : Before(k, c, l, d)' <=>
              Before(k, c, l, d) \/ (Has(k, c) /\ l = "turn" /\ d = 0)
    <2> DEFINE t == << <<"turn", 0>> >>
    <2>1. t \in Seq(Items)
      BY ItemsOf
    <2>2. ready \in Seq(Items)
      BY DEF BridgeInv, BridgeTypes
    <2>3. ready' = ready \o t
      BY <2>2 DEF Return
    <2>4. /\ \A l, d : HasIn(t, l, d) <=> l = "turn" /\ d = 0
          /\ \A l, d, m, e : ~BeforeIn(t, l, d, m, e)
      BY OneItem
    <2> HIDE DEF t
    <2>5. /\ ready' \in Seq(Items)
          /\ \A l, d : Has(l, d)' <=> Has(l, d) \/ HasIn(t, l, d)
          /\ \A l, d, m, e : Before(l, d, m, e)' <=>
                \/ Before(l, d, m, e) \/ BeforeIn(t, l, d, m, e)
                \/ Has(l, d) /\ HasIn(t, m, e)
      BY <2>1, <2>2, <2>3, Appends
    <2> QED BY <2>4, <2>5
  <1>3. /\ worker'.at = "idle" /\ worker'.gen = worker.gen /\ worker'.stale = {}
        /\ worker' \in [at : {"idle", "enter", "recheck", "schedule", "plan"},
                   gen : 0 .. MaxGenerations, stale : SUBSET (1 .. submitted)]
    BY DEF Return, BridgeInv, WorkerOK
  <1>4. BridgeTypes'
    BY <1>1, <1>2 DEF BridgeInv, BridgeTypes
  <1>5. TaskTypes' /\ PendingOK' /\ QueueOK'
    BY <1>1 DEF BridgeInv, TaskTypes, PendingOK, QueueOK
  <1>6. WorkerOK'
    BY <1>1, <1>3 DEF BridgeInv, WorkerOK, Writing
  <1>7. TurnOK'
    <2>1. ~Has("turn", 0) /\ \A c \in Chunks : ~Has("deliver", c)
      BY DEF BridgeInv, TurnOK
    <2>2. /\ ~Before("turn", 0, "turn", 0)'
          /\ \A c \in Chunks : ~Has("deliver", c)'
      <3>1. ~Before("turn", 0, "turn", 0)
        BY <2>1 DEF Before, Has, BeforeIn, HasIn
      <3> QED BY <1>2, <2>1, <3>1
    <2> QED BY <1>3, <2>2 DEF TurnOK
  <1>8. PlacesOK'
    BY <1>1, <1>2 DEF BridgeInv, PlacesOK
  <1>9. LockOK'
    BY <1>1, <1>2 DEF BridgeInv, LockOK
  <1>10. FuturesOK'
    BY <1>1, <1>3 DEF BridgeInv, FuturesOK, Live
  <1> QED BY <1>4, <1>5, <1>6, <1>7, <1>8, <1>9, <1>10 DEF BridgeInv

LEMMA PlanStays ==
  ASSUME BridgeInv, Plan
  PROVE  BridgeInv'
  <1>1. worker.at = "plan" /\ Return(<<>>)
        /\ UNCHANGED <<bridge, pending, submitted, gen, tasks, future, queue, ended, shown>>
    BY DEF Plan
  <1>2. worker.stale = {}
    BY <1>1 DEF BridgeInv, WorkerOK
  <1> QED BY <1>1, <1>2, ReturnStays

LEMMA SectionStays ==
  ASSUME BridgeInv, Section
  PROVE  BridgeInv'
  <1>1. worker.at \in {"enter", "recheck"} /\ worker.stale = {}
    BY DEF Section, NextSection
  <1>2. CASE Refused
    BY <1>1, <1>2, ReturnStays DEF Section
  <1>3. CASE ~Refused
    <2>1. /\ UNCHANGED <<closeTrack, bridgeClosed, generation, submitted, gen, ready>>
          /\ UNCHANGED <<place, left, must, holder, waiters, future, queue, ended, shown>>
      BY <1>3 DEF Section, bridge, tasks
    <2>2. /\ worker' = [worker EXCEPT !.at = NextSection[@],
                                      !.stale = IF Full THEN pending ELSE {}]
          /\ pending' = IF Full THEN {} ELSE pending
      BY <1>3 DEF Section
    <2>3. pending \subseteq 1 .. submitted
      BY DEF BridgeInv, PendingOK
    <2>4. /\ worker'.at \in {"recheck", "schedule"} /\ worker'.gen = worker.gen
          /\ worker'.stale = IF Full THEN pending ELSE {}
          /\ worker' \in [at : {"idle", "enter", "recheck", "schedule", "plan"},
                     gen : 0 .. MaxGenerations, stale : SUBSET (1 .. submitted)]
      <3>1. worker \in [at : {"idle", "enter", "recheck", "schedule", "plan"},
                        gen : 0 .. MaxGenerations, stale : SUBSET (1 .. submitted)]
        BY DEF BridgeInv, WorkerOK
      <3>2. NextSection[worker.at] \in {"recheck", "schedule"}
        BY <1>1 DEF NextSection
      <3>3. (IF Full THEN pending ELSE {}) \in SUBSET (1 .. submitted)
        BY <2>3
      <3> DEFINE at == NextSection[worker.at]
                 stale == IF Full THEN pending ELSE {}
      <3> HIDE DEF at, stale
      <3>4. worker' = [worker EXCEPT !.at = at, !.stale = stale]
        BY <2>2, <3>1 DEF at, stale
      <3>5. at \in {"recheck", "schedule"} /\ stale \in SUBSET (1 .. submitted)
        BY <3>2, <3>3 DEF at, stale
      <3>6. /\ worker'.at = at /\ worker'.gen = worker.gen /\ worker'.stale = stale
            /\ worker' \in [at : {"idle", "enter", "recheck", "schedule", "plan"},
                     gen : 0 .. MaxGenerations, stale : SUBSET (1 .. submitted)]
        BY <3>1, <3>4, <3>5
      <3> QED BY <3>5, <3>6 DEF stale
    <2>5. BridgeTypes' /\ TaskTypes' /\ QueueOK'
      BY <2>1 DEF BridgeInv, BridgeTypes, TaskTypes, QueueOK
    <2>6. PendingOK' /\ Cardinality(pending') < MaxPending
      BY <2>1, <2>2, FS_EmptySet, FS_CardinalityType, BoundsArePositive
         DEF BridgeInv, PendingOK, Full
    <2>7. WorkerOK'
      BY <1>1, <2>1, <2>4, <2>6 DEF BridgeInv, WorkerOK, Writing
    <2>8. \A k, c : Has(k, c)' <=> Has(k, c)
      BY <2>1 DEF Has
    <2>9. \A k, c, l, d : Before(k, c, l, d)' <=> Before(k, c, l, d)
      BY <2>1 DEF Before
    <2>10. TurnOK'
      BY <1>1, <2>8, <2>9 DEF BridgeInv, TurnOK
    <2>11. PlacesOK' /\ LockOK'
      BY <2>1, <2>8, <2>9 DEF BridgeInv, PlacesOK, LockOK
    <2>12. FuturesOK'
      BY <1>1, <2>1, <2>2, <2>4 DEF BridgeInv, FuturesOK, Live
    <2> QED BY <2>5, <2>6, <2>7, <2>10, <2>11, <2>12 DEF BridgeInv
  <1> QED BY <1>2, <1>3

LEMMA CancelItems ==
  ASSUME NEW cs \in SUBSET Chunks, IsFiniteSet(cs), NEW told \in InOrder(cs)
  PROVE  /\ Cancels(told) \in Seq(Items)
         /\ \A k, c : HasIn(Cancels(told), k, c) <=> k = "cancel" /\ c \in cs
         /\ \A k, c, l, d : BeforeIn(Cancels(told), k, c, l, d) =>
               k = "cancel" /\ l = "cancel" /\ c # d
  <1>1. Cardinality(cs) \in Nat
    BY FS_CardinalityType
  <1>2. /\ told \in [1 .. Cardinality(cs) -> cs]
        /\ Range(told) = cs
        /\ \A i, j \in 1 .. Cardinality(cs) : i < j => told[i] < told[j]
    BY DEF InOrder
  <1> DEFINE n == Cardinality(cs)
             s == Cancels(told)
  <1>3. s = [i \in 1 .. n |-> <<"cancel", told[i]>>]
    BY <1>2 DEF Cancels
  <1> HIDE DEF n, s
  <1>4. \A i \in 1 .. n : told[i] \in Chunks /\ told[i] \in cs
    BY <1>2 DEF n
  <1>5. \A i \in 1 .. n : <<"cancel", told[i]>> \in Items
    BY <1>4 DEF Items
  <1>6. s \in Seq(Items) /\ Len(s) = n /\ \A i \in 1 .. n : s[i] = <<"cancel", told[i]>>
    BY <1>1, <1>3, <1>5 DEF n
  <1>7. \A c \in cs : \E i \in 1 .. n : told[i] = c
    BY <1>2 DEF Range, n
  <1>8. ASSUME NEW k, NEW c PROVE HasIn(s, k, c) <=> k = "cancel" /\ c \in cs
    BY <1>4, <1>6, <1>7 DEF HasIn
  <1>9. ASSUME NEW k, NEW c, NEW l, NEW d, BeforeIn(s, k, c, l, d)
        PROVE  k = "cancel" /\ l = "cancel" /\ c # d
    <2>1. PICK i \in 1 .. n, j \in 1 .. n : i < j /\ s[i] = <<k, c>> /\ s[j] = <<l, d>>
      BY <1>6, <1>9 DEF BeforeIn
    <2>2. k = "cancel" /\ l = "cancel" /\ c = told[i] /\ d = told[j]
      BY <1>6, <2>1
    <2>3. told[i] < told[j] /\ told[i] \in Chunks
      BY <1>2, <1>4, <2>1 DEF n
    <2> QED BY <2>2, <2>3 DEF Chunks
  <1> QED BY <1>6, <1>8, <1>9 DEF s

LEMMA CancelsThen ==
  ASSUME NEW cs \in SUBSET Chunks, IsFiniteSet(cs), NEW told \in InOrder(cs),
         NEW k \in {"flush", "close"}, NEW m \in 0 .. MaxChunks, << <<k, m>> >> \in Seq(Items)
  PROVE  LET t == Cancels(told) \o << <<k, m>> >>
         IN  /\ t \in Seq(Items)
             /\ \A l, d : HasIn(t, l, d) <=>
                   (l = "cancel" /\ d \in cs) \/ (l = k /\ d = m)
             /\ \A l, d, n, e : BeforeIn(t, l, d, n, e) =>
                   l = "cancel" /\ (n = "cancel" \/ (n = k /\ e = m))
             /\ \A d \in cs : BeforeIn(t, "cancel", d, k, m)
  <1> DEFINE one == << <<k, m>> >>
             s == Cancels(told)
             t == s \o one
  <1>1. /\ s \in Seq(Items)
        /\ \A l, d : HasIn(s, l, d) <=> l = "cancel" /\ d \in cs
        /\ \A l, d, n, e : BeforeIn(s, l, d, n, e) => l = "cancel" /\ n = "cancel" /\ d # e
    BY CancelItems
  <1>2. /\ \A l, d : HasIn(one, l, d) <=> l = k /\ d = m
        /\ \A l, d, n, e : ~BeforeIn(one, l, d, n, e)
    BY OneItem
  <1>3. one \in Seq(Items)
    OBVIOUS
  <1> HIDE DEF one, s
  <1>4. /\ t \in Seq(Items)
        /\ \A l, d : HasIn(t, l, d) <=> HasIn(s, l, d) \/ HasIn(one, l, d)
        /\ \A l, d, n, e : BeforeIn(t, l, d, n, e) <=>
               \/ BeforeIn(s, l, d, n, e) \/ BeforeIn(one, l, d, n, e)
               \/ HasIn(s, l, d) /\ HasIn(one, n, e)
    BY <1>1, <1>3, Concatenation
  <1> HIDE DEF t
  <1>5. /\ t \in Seq(Items)
        /\ \A l, d : HasIn(t, l, d) <=> (l = "cancel" /\ d \in cs) \/ (l = k /\ d = m)
        /\ \A l, d, n, e : BeforeIn(t, l, d, n, e) =>
              l = "cancel" /\ (n = "cancel" \/ (n = k /\ e = m))
        /\ \A d \in cs : BeforeIn(t, "cancel", d, k, m)
    BY <1>1, <1>2, <1>4
  <1> QED BY <1>5 DEF t, s, one

\* Cancelling settles futures: it takes none from what is tracked or cancelled.
LEMMA SettleFacts ==
  ASSUME FuturesOK, TaskTypes, NEW cs \in SUBSET Chunks, Settle(cs)
  PROVE  /\ future' \in [Chunks -> {"none", "pending", "cancelled", "reported"}]
         /\ \A c \in Chunks : future'[c] = "none" <=> future[c] = "none"
         /\ \A c \in Chunks : future[c] = "cancelled" => future'[c] = "cancelled"
         /\ \A c \in Chunks : future'[c] = "cancelled" =>
               future[c] = "cancelled" \/ c \in Cancellable(cs)
         /\ \A c \in Chunks : Live(c) => future'[c] \in {"pending", "cancelled"}
         /\ \A c \in cs : Live(c) => future'[c] = "cancelled"
         /\ Cancellable(cs) \subseteq cs
  <1>1. \A c \in Chunks : future'[c] =
             IF c \in cs /\ future[c] = "pending" THEN "cancelled" ELSE future[c]
    BY DEF Settle, Cancellable
  <1>2. future' \in [Chunks -> {"none", "pending", "cancelled", "reported"}]
    BY <1>1 DEF Settle, TaskTypes
  <1>3. \A c \in Chunks : /\ future[c] \in {"none", "pending", "cancelled", "reported"}
                          /\ Live(c) => future[c] \in {"pending", "cancelled"}
    BY DEF FuturesOK, TaskTypes
  <1> QED BY <1>1, <1>2, <1>3 DEF Cancellable

\* The greatest of some chunks.
LEMMA MaxFacts ==
  ASSUME NEW n \in Nat, NEW cs, cs \subseteq 1 .. n, cs # {}
  PROVE  Max(cs) \in cs /\ \A x \in cs : x <= Max(cs)
  <1> DEFINE T == {n - x : x \in cs}
             R == {ss \in Nat \X Nat : ss[1] < ss[2]}
  <1>1. IsWellFoundedOn(R, Nat)
    BY NatLessThanWellFounded DEF OpToRel
  <1>2. T \subseteq Nat /\ T # {}
    <2>1. \A x \in cs : x \in Nat /\ n - x \in Nat
      OBVIOUS
    <2>2. PICK x \in cs : TRUE
      OBVIOUS
    <2> QED BY <2>1, <2>2
  <1>3. \E x \in T : \A y \in T : ~ (<<y, x>> \in R)
    <2> HIDE DEF R, T
    <2> QED BY <1>1, <1>2, WFMin
  <1>4. PICK x \in T : \A y \in T : ~ (<<y, x>> \in R)
    BY <1>3
  <1>5. PICK top \in cs : x = n - top
    OBVIOUS
  <1>6. ASSUME NEW y \in cs PROVE top >= y
    <2>1. n - y \in T /\ n - y \in Nat /\ n - top \in Nat
      OBVIOUS
    <2>2. ~(n - y < n - top)
      BY <1>4, <1>5, <2>1
    <2> QED BY <2>2
  <1> QED BY <1>5, <1>6 DEF Max

LEMMA CancelStaleStays ==
  ASSUME BridgeInv, CancelStale
  PROVE  BridgeInv'
  <1> DEFINE cs == Cancellable(worker.stale)
             m == Max(worker.stale)
  <1>1. /\ UNCHANGED <<closeTrack, bridgeClosed, generation, pending, submitted, gen>>
        /\ UNCHANGED <<place, left, must, holder, waiters, queue, ended, shown>>
    BY DEF CancelStale, bridge, tasks
  <1>2. /\ worker.stale # {} /\ worker.stale \subseteq 1 .. submitted
        /\ worker.stale \in SUBSET Chunks /\ worker.at \in {"recheck", "schedule"}
        /\ submitted \in 0 .. MaxChunks
    <2>1. worker.stale # {}
      BY DEF CancelStale
    <2>2. worker.stale \subseteq 1 .. submitted /\ worker.at \in {"recheck", "schedule"}
      BY <2>1 DEF BridgeInv, WorkerOK
    <2>3. submitted \in 0 .. MaxChunks /\ MaxChunks \in Nat
      BY BoundsArePositive DEF BridgeInv, BridgeTypes
    <2>4. worker.stale \in SUBSET Chunks
      BY <2>2, <2>3 DEF Chunks
    <2> QED BY <2>1, <2>2, <2>3, <2>4
  <1>3. worker' = [worker EXCEPT !.stale = {}] /\ Settle(worker.stale)
    BY DEF CancelStale
  <1>4. PICK told \in InOrder(cs) : ready' = ready \o Cancels(told) \o Flush(m)
    BY DEF CancelStale
  <1>5. cs \subseteq worker.stale /\ cs \in SUBSET Chunks /\ IsFiniteSet(cs)
    BY <1>2, FS_Interval, FS_Subset DEF Cancellable
  <1>6. m \in 1 .. submitted /\ m \in 0 .. MaxChunks
    <2>1. submitted \in Nat /\ MaxChunks \in Nat
      BY <1>2, BoundsArePositive
    <2>2. Max(worker.stale) \in worker.stale
      BY <1>2, <2>1, MaxFacts
    <2> QED BY <1>2, <2>1, <2>2
  <1> HIDE DEF cs, m
  <1> DEFINE t == Cancels(told) \o << <<"flush", m>> >>
  <1>7. /\ t \in Seq(Items)
        /\ \A l, d : HasIn(t, l, d) <=> (l = "cancel" /\ d \in cs) \/ (l = "flush" /\ d = m)
        /\ \A l, d, n, e : BeforeIn(t, l, d, n, e) =>
              l = "cancel" /\ (n = "cancel" \/ (n = "flush" /\ e = m))
    <2>1. << <<"flush", m>> >> \in Seq(Items)
      BY <1>6, ItemsOf
    <2> QED BY <1>5, <1>6, <2>1, CancelsThen
  <1>8. ready \in Seq(Items) /\ ready' = ready \o t
    <2>1. ready \in Seq(Items) /\ Cancels(told) \in Seq(Items) /\ Flush(m) \in Seq(Items)
      BY <1>5, <1>6, CancelItems, ItemsOf DEF BridgeInv, BridgeTypes, Flush
    <2> QED BY <1>4, <2>1, ConcatAssociative DEF Flush
  <1> HIDE DEF t
  <1>9. /\ ready' \in Seq(Items)
        /\ \A l, d : Has(l, d)' <=> Has(l, d) \/ HasIn(t, l, d)
        /\ \A l, d, n, e : Before(l, d, n, e)' <=>
               \/ Before(l, d, n, e) \/ BeforeIn(t, l, d, n, e)
               \/ Has(l, d) /\ HasIn(t, n, e)
    BY <1>7, <1>8, Appends
  <1>10. /\ \A k, c : Has(k, c)' <=> \/ Has(k, c) \/ (k = "cancel" /\ c \in cs)
                                     \/ (k = "flush" /\ c = m)
         /\ \A k \in {"deliver", "step", "done", "turn"} : \A c, l, d :
               Before(l, d, k, c)' => Before(l, d, k, c)
    BY <1>7, <1>9
  <1>11. /\ worker'.at = worker.at /\ worker'.gen = worker.gen /\ worker'.stale = {}
         /\ worker' \in [at : {"idle", "enter", "recheck", "schedule", "plan"},
                    gen : 0 .. MaxGenerations, stale : SUBSET (1 .. submitted)]
    BY <1>3 DEF BridgeInv, WorkerOK
  <1>12. ~Has("turn", 0) /\ \A c \in Chunks : ~Has("deliver", c)
    BY <1>2 DEF BridgeInv, TurnOK
  <1>13. /\ future' \in [Chunks -> {"none", "pending", "cancelled", "reported"}]
         /\ \A c \in Chunks : future'[c] = "none" <=> future[c] = "none"
         /\ \A c \in Chunks : future[c] = "cancelled" => future'[c] = "cancelled"
         /\ \A c \in Chunks : Live(c) => future'[c] \in {"pending", "cancelled"}
         /\ \A c \in worker.stale : Live(c) => future'[c] = "cancelled"
    BY <1>2, <1>3, SettleFacts DEF BridgeInv
  <1>14. BridgeTypes'
    BY <1>1, <1>9 DEF BridgeInv, BridgeTypes
  <1>15. TaskTypes' /\ PendingOK' /\ QueueOK'
    BY <1>1, <1>13 DEF BridgeInv, TaskTypes, PendingOK, QueueOK
  <1>16. WorkerOK'
    BY <1>1, <1>11 DEF BridgeInv, WorkerOK, Writing
  <1>17. TurnOK'
    <2>1. ~Has("turn", 0)' /\ \A c \in Chunks : ~Has("deliver", c)'
      BY <1>10, <1>12
    <2> QED BY <2>1 DEF TurnOK
  <1>18. PlacesOK'
    <2> SUFFICES ASSUME NEW c \in Chunks
                 PROVE  /\ c <= submitted' <=> place'[c] # "none"
                        /\ Has("deliver", c)' <=> place'[c] = "created"
                        /\ Has("step", c)' => place'[c] \in {"new", "lock", "put"}
                        /\ Has("done", c)' => place'[c] = "over"
                        /\ Has("cancel", c)' => place'[c] \notin {"none", "created"}
                        /\ \A k \in {"deliver", "step", "done"} : ~Before(k, c, k, c)'
      BY DEF PlacesOK
    <2>1. c \in cs => c <= submitted
      BY <1>2, <1>5
    <2> QED BY <1>1, <1>10, <1>12, <2>1 DEF BridgeInv, PlacesOK
  <1>19. LockOK'
    BY <1>1, <1>10 DEF BridgeInv, LockOK
  <1>20. FuturesOK'
    BY <1>1, <1>11, <1>13 DEF BridgeInv, FuturesOK, Live
  <1> QED BY <1>14, <1>15, <1>16, <1>17, <1>18, <1>19, <1>20 DEF BridgeInv

LEMMA ScheduleStays ==
  ASSUME BridgeInv, Schedule
  PROVE  BridgeInv'
  <1> DEFINE c == submitted + 1
             t == << <<"deliver", c>> >> \o << <<"turn", 0>> >>
  <1>1. worker.at = "schedule" /\ worker.stale = {}
    BY DEF Schedule
  <1>2. CASE Refused
    BY <1>1, <1>2, ReturnStays DEF Schedule, tasks
  <1>3. CASE ~Refused
    <2>1. /\ UNCHANGED <<closeTrack, bridgeClosed, generation, left, must, holder, waiters>>
          /\ UNCHANGED <<queue, ended, shown>>
      BY DEF Schedule, bridge
    <2>2. Return(<< <<"deliver", c>> >>) /\ submitted' = c /\ gen' = [gen EXCEPT ![c] = worker.gen]
      BY <1>3 DEF Schedule
    <2>3. /\ place' = [place EXCEPT ![c] = "created"]
          /\ future' = [future EXCEPT ![c] = "pending"]
          /\ pending' = pending \cup {c}
      BY <1>3 DEF Schedule
    <2>4. /\ submitted \in 0 .. MaxChunks /\ c \in Chunks /\ c = submitted + 1
          /\ submitted < MaxChunks
      BY <1>1, BoundsArePositive DEF BridgeInv, BridgeTypes, WorkerOK, Writing, Chunks
    <2>5. /\ t \in Seq(Items)
          /\ \A k, d : HasIn(t, k, d) <=> (k = "deliver" /\ d = c) \/ (k = "turn" /\ d = 0)
          /\ \A k, d, l, e : BeforeIn(t, k, d, l, e) =>
                k = "deliver" /\ d = c /\ l = "turn" /\ e = 0
      <3> DEFINE one == << <<"deliver", c>> >>
                 two == << <<"turn", 0>> >>
      <3>1. one \in Seq(Items) /\ two \in Seq(Items)
        BY <2>4, ItemsOf
      <3>2. /\ \A k, d : HasIn(one, k, d) <=> k = "deliver" /\ d = c
            /\ \A k, d, l, e : ~BeforeIn(one, k, d, l, e)
        BY OneItem
      <3>3. /\ \A k, d : HasIn(two, k, d) <=> k = "turn" /\ d = 0
            /\ \A k, d, l, e : ~BeforeIn(two, k, d, l, e)
        BY OneItem
      <3> HIDE DEF one, two
      <3>4. /\ one \o two \in Seq(Items)
            /\ \A k, d : HasIn(one \o two, k, d) <=> HasIn(one, k, d) \/ HasIn(two, k, d)
            /\ \A k, d, l, e : BeforeIn(one \o two, k, d, l, e) <=>
                  \/ BeforeIn(one, k, d, l, e) \/ BeforeIn(two, k, d, l, e)
                  \/ HasIn(one, k, d) /\ HasIn(two, l, e)
        BY <3>1, Concatenation
      <3>5. t = one \o two
        BY DEF one, two
      <3> HIDE DEF t
      <3> QED BY <3>2, <3>3, <3>4, <3>5
    <2>6. ready \in Seq(Items) /\ ready' = ready \o t
      <3>1. /\ ready \in Seq(Items) /\ << <<"deliver", c>> >> \in Seq(Items)
            /\ << <<"turn", 0>> >> \in Seq(Items)
        BY <2>4, ItemsOf DEF BridgeInv, BridgeTypes
      <3> QED BY <2>2, <3>1, ConcatAssociative DEF Return
    <2> HIDE DEF t, c
    <2>7. /\ ready' \in Seq(Items)
          /\ \A k, d : Has(k, d)' <=> Has(k, d) \/ HasIn(t, k, d)
          /\ \A k, d, l, e : Before(k, d, l, e)' <=>
               \/ Before(k, d, l, e) \/ BeforeIn(t, k, d, l, e)
               \/ Has(k, d) /\ HasIn(t, l, e)
      BY <2>5, <2>6, Appends
    <2>8. /\ ~Has("turn", 0) /\ \A d \in Chunks : ~Has("deliver", d)
          /\ ~Before("turn", 0, "turn", 0)
      <3>1. ~Has("turn", 0) /\ \A d \in Chunks : ~Has("deliver", d)
        BY <1>1 DEF BridgeInv, TurnOK
      <3> QED BY <3>1 DEF Has, Before, HasIn, BeforeIn
    <2>9. /\ \A k, d : Has(k, d)' <=> \/ Has(k, d) \/ (k = "deliver" /\ d = c)
                                      \/ (k = "turn" /\ d = 0)
          /\ \A k \in {"step", "done"} : \A d : Before(k, d, k, d)' => Before(k, d, k, d)
          /\ ~Before("turn", 0, "turn", 0)'
          /\ \A d \in Chunks : ~Before("turn", 0, "deliver", d)'
          /\ \A d \in Chunks : ~Before("deliver", d, "deliver", d)'
      <3>1. /\ \A k \in {"step", "done"} : \A d : Before(k, d, k, d)' => Before(k, d, k, d)
            /\ ~Before("turn", 0, "turn", 0)'
        BY <2>5, <2>7, <2>8
      <3>2. ASSUME NEW d \in Chunks
            PROVE  ~Before("turn", 0, "deliver", d)' /\ ~Before("deliver", d, "deliver", d)'
        <4>1. ~Has("deliver", d) /\ ~Before("deliver", d, "deliver", d)
          BY <2>8 DEF BridgeInv, PlacesOK
        <4>2. ~Before("turn", 0, "deliver", d)
          BY <4>1 DEF Before, Has, BeforeIn, HasIn
        <4> QED BY <2>5, <2>7, <2>8, <4>1, <4>2
      <3> QED BY <2>5, <2>7, <3>1, <3>2
    <2>10. /\ worker'.at = "idle" /\ worker'.gen = worker.gen /\ worker'.stale = {}
           /\ worker' \in [at : {"idle", "enter", "recheck", "schedule", "plan"},
                    gen : 0 .. MaxGenerations, stale : SUBSET (1 .. submitted')]
      <3>1. /\ worker \in [at : {"idle", "enter", "recheck", "schedule", "plan"},
                      gen : 0 .. MaxGenerations, stale : SUBSET (1 .. submitted)]
            /\ worker' = [worker EXCEPT !.at = "idle"]
        BY <2>2 DEF Return, BridgeInv, WorkerOK
      <3> QED BY <1>1, <3>1
    <2>11. /\ place' \in [Chunks -> {"none", "created", "new", "lock", "put", "over"}]
           /\ place'[c] = "created" /\ \A d \in Chunks : d # c => place'[d] = place[d]
           /\ future' \in [Chunks -> {"none", "pending", "cancelled", "reported"}]
           /\ future'[c] = "pending" /\ \A d \in Chunks : d # c => future'[d] = future[d]
      BY <2>3, <2>4 DEF BridgeInv, TaskTypes
    <2>12. gen' \in [Chunks -> 0 .. MaxGenerations] /\ \A d \in Chunks : gen'[d] <= generation
      BY <2>2, <2>4 DEF BridgeInv, BridgeTypes, WorkerOK
    <2>13. BridgeTypes'
      <3>1. submitted' \in 0 .. MaxChunks
        BY <2>2, <2>4 DEF Chunks
      <3> QED BY <2>1, <2>7, <2>12, <3>1 DEF BridgeInv, BridgeTypes
    <2>14. TaskTypes' /\ QueueOK'
      BY <2>1, <2>11 DEF BridgeInv, TaskTypes, QueueOK
    <2>15. PendingOK'
      <3>1. /\ pending \subseteq 1 .. submitted /\ IsFiniteSet(pending)
            /\ Cardinality(pending) < MaxPending
        BY <1>1 DEF BridgeInv, PendingOK, WorkerOK
      <3>2. c \notin pending /\ c \in 1 .. c
        BY <2>4, <3>1
      <3>3. IsFiniteSet(pending') /\ Cardinality(pending') = Cardinality(pending) + 1
        BY <2>3, <3>1, <3>2, FS_AddElement
      <3>4. Cardinality(pending) \in Nat /\ MaxPending \in Nat
        BY <3>1, FS_CardinalityType, BoundsArePositive
      <3>5. pending' \subseteq 1 .. submitted'
        BY <2>2, <2>3, <2>4, <3>1, <3>2
      <3> QED BY <3>1, <3>3, <3>4, <3>5 DEF PendingOK
    <2>16. WorkerOK'
      BY <2>1, <2>10 DEF BridgeInv, WorkerOK, Writing
    <2>17. TurnOK'
      BY <2>9, <2>10 DEF TurnOK
    <2>18. place[c] = "none" /\ \A d \in Chunks : d # c => (d <= c <=> d <= submitted)
      BY <2>4 DEF BridgeInv, PlacesOK, Chunks
    <2>19. ASSUME NEW d \in Chunks
           PROVE  /\ d <= submitted' <=> place'[d] # "none"
                  /\ Has("deliver", d)' <=> place'[d] = "created"
                  /\ Has("step", d)' => place'[d] \in {"new", "lock", "put"}
                  /\ Has("done", d)' => place'[d] = "over"
                  /\ Has("cancel", d)' => place'[d] \notin {"none", "created"}
                  /\ \A k \in {"deliver", "step", "done"} : ~Before(k, d, k, d)'
      <3>1. CASE d = c
        BY <2>2, <2>4, <2>9, <2>11, <2>18, <3>1 DEF BridgeInv, PlacesOK
      <3>2. CASE d # c
        BY <2>2, <2>9, <2>11, <2>18, <3>2 DEF BridgeInv, PlacesOK
      <3> QED BY <3>1, <3>2
    <2>20. PlacesOK'
      BY <2>19 DEF PlacesOK
    <2>21. LockOK'
      <3>1. ASSUME NEW d \in Chunks
            PROVE  /\ (\E i \in 1 .. Len(waiters) : waiters[i] = d) <=> place'[d] = "lock"
                   /\ holder = d <=> place'[d] = "put"
                   /\ place'[d] = "put" => left[d] > 0
                   /\ Has("step", d)' /\ place'[d] = "lock" /\ ~must[d] =>
                         holder = Nobody /\ waiters[1] = d
        <4>1. CASE d = c
          BY <2>9, <2>11, <2>18, <4>1 DEF BridgeInv, LockOK
        <4>2. CASE d # c
          BY <2>9, <2>11, <4>2 DEF BridgeInv, LockOK
        <4> QED BY <4>1, <4>2
      <3>2. /\ holder \in Chunks \cup {Nobody} /\ waiters \in Seq(Chunks)
            /\ \A i, j \in 1 .. Len(waiters) : waiters[i] = waiters[j] => i = j
        BY DEF BridgeInv, LockOK
      <3> QED BY <2>1, <3>1, <3>2 DEF LockOK
    <2>22. FuturesOK'
      <3>1. ASSUME NEW d \in Chunks
            PROVE  /\ future'[d] = "none" <=> submitted' < d
                   /\ Live(d)' => /\ future'[d] \in {"pending", "cancelled"}
                                  /\ \/ d \in pending' \/ d \in worker'.stale
                                     \/ future'[d] = "cancelled"
        <4>1. CASE d = c
          BY <2>2, <2>3, <2>4, <2>11, <4>1
        <4>2. CASE d # c
          <5>1. submitted' < d <=> submitted < d
            BY <2>2, <2>4, <4>2 DEF Chunks
          <5>2. Live(d)' => Live(d)
            BY <2>2, <2>11, <2>18, <4>2 DEF Live
          <5> QED BY <1>1, <2>3, <2>11, <4>2, <5>1, <5>2 DEF BridgeInv, FuturesOK
        <4> QED BY <4>1, <4>2
      <3> QED BY <3>1 DEF FuturesOK
    <2> QED BY <2>13, <2>14, <2>15, <2>16, <2>17, <2>20, <2>21, <2>22 DEF BridgeInv
  <1> QED BY <1>2, <1>3

-----------------------------------------------------------------------------
(* The driver's turns.                                                      *)

LEMMA PlacesStay ==
  ASSUME PlacesOK, LockOK, UNCHANGED <<submitted, place, left, must, holder, waiters>>,
         \A c \in Chunks :
            /\ Has("deliver", c)' <=> Has("deliver", c)
            /\ Has("step", c)' => Has("step", c)
            /\ Has("done", c)' => Has("done", c)
            /\ Has("cancel", c)' => Has("cancel", c) \/ place[c] \notin {"none", "created"}
            /\ \A k \in {"deliver", "step", "done"} :
                  Before(k, c, k, c)' => Before(k, c, k, c)
  PROVE  PlacesOK' /\ LockOK'
  <1>1. PlacesOK'
    BY DEF PlacesOK
  <1>2. LockOK'
    BY DEF LockOK
  <1> QED BY <1>1, <1>2

\* The driver's turn comes when every submitted chunk has its task.
LEMMA TurnTaken ==
  ASSUME BridgeInv, Runs("turn"), NEW t \in Seq(Items), ready' = Tail(ready) \o t,
         \A k \in {"deliver", "step", "done", "turn"} : \A c : ~HasIn(t, k, c)
  PROVE  /\ worker.at = "idle" /\ worker.stale = {}
         /\ ready' \in Seq(Items)
         /\ ~Has("turn", 0)'
         /\ \A c \in Chunks : ~Has("deliver", c) /\ ~Has("deliver", c)'
         /\ \A c \in Chunks : place[c] # "created"
         /\ \A k, c : k # "turn" => (Has(k, c)' <=> Has(k, c) \/ HasIn(t, k, c))
         /\ \A k \in {"deliver", "step", "done", "turn"} : \A c, l, d :
               Before(l, d, k, c)' => Before(l, d, k, c)
  <1>1. ready \in Seq(Items)
    BY DEF BridgeInv, BridgeTypes
  <1>2. ready # <<>> /\ Head(ready) = <<"turn", 0>>
    BY <1>1, HeadItem
  <1>3. /\ ready' \in Seq(Items)
        /\ Has("turn", 0)
        /\ \A l, d : Has(l, d)' => Has(l, d) \/ HasIn(t, l, d)
        /\ \A l, d : Has(l, d) /\ ~(l = "turn" /\ d = 0) => Has(l, d)'
        /\ \A l, d : HasIn(t, l, d) => Has(l, d)'
        /\ ~Before("turn", 0, "turn", 0) /\ ~HasIn(t, "turn", 0) => ~Has("turn", 0)'
        /\ \A l, d : Has(l, d) /\ ~(l = "turn" /\ d = 0) => Before("turn", 0, l, d)
        /\ \A l, d, m, e : Before(l, d, m, e)' =>
              \/ Before(l, d, m, e) \/ BeforeIn(t, l, d, m, e)
              \/ Has(l, d) /\ HasIn(t, m, e)
    BY <1>1, <1>2, Pops
  <1>4. worker.at = "idle" /\ ~Before("turn", 0, "turn", 0)
    BY <1>3 DEF BridgeInv, TurnOK
  <1>5. worker.stale = {}
    BY <1>4 DEF BridgeInv, WorkerOK
  <1>6. ~Has("turn", 0)'
    BY <1>3, <1>4
  <1>7. \A c \in Chunks : ~Has("deliver", c)
    BY <1>3 DEF BridgeInv, TurnOK
  <1>8. \A c \in Chunks : ~Has("deliver", c)' /\ place[c] # "created"
    BY <1>3, <1>7 DEF BridgeInv, PlacesOK
  <1>9. \A l, d, m, e : BeforeIn(t, l, d, m, e) => HasIn(t, m, e)
    BY DEF BeforeIn, HasIn
  <1>10. \A k, c : k # "turn" => (Has(k, c)' <=> Has(k, c) \/ HasIn(t, k, c))
    BY <1>3
  <1>11. \A k \in {"deliver", "step", "done", "turn"} : \A c, l, d :
               Before(l, d, k, c)' => Before(l, d, k, c)
    BY <1>3, <1>9
  <1> QED BY <1>3, <1>4, <1>5, <1>6, <1>7, <1>8, <1>10, <1>11

LEMMA WriteStays ==
  ASSUME BridgeInv, Write
  PROVE  BridgeInv'
  <1>1. /\ UNCHANGED <<closeTrack, bridgeClosed, generation, pending, submitted, gen>>
        /\ UNCHANGED <<place, left, must, holder, waiters, future, queue, ended, shown>>
    BY DEF Write, bridge, tasks
  <1>2. /\ Runs("turn") /\ submitted < MaxChunks /\ ready' = Tail(ready) \o <<>>
        /\ worker' = [at |-> "enter", gen |-> generation, stale |-> {}]
    BY DEF Write, Then
  <1>3. /\ <<>> \in Seq(Items) /\ \A k, c : ~HasIn(<<>>, k, c)
    BY ItemsOf, NoItem
  <1>4. /\ worker.at = "idle" /\ worker.stale = {} /\ ready' \in Seq(Items)
        /\ ~Has("turn", 0)' /\ \A c \in Chunks : ~Has("deliver", c) /\ ~Has("deliver", c)'
        /\ \A k, c : k # "turn" => (Has(k, c)' <=> Has(k, c) \/ HasIn(<<>>, k, c))
        /\ \A k \in {"deliver", "step", "done", "turn"} : \A c, l, d :
               Before(l, d, k, c)' => Before(l, d, k, c)
    BY <1>2, <1>3, TurnTaken
  <1>5. BridgeTypes'
    BY <1>1, <1>4 DEF BridgeInv, BridgeTypes
  <1>6. TaskTypes' /\ PendingOK' /\ QueueOK'
    BY <1>1 DEF BridgeInv, TaskTypes, PendingOK, QueueOK
  <1>7. WorkerOK'
    BY <1>1, <1>2 DEF BridgeInv, BridgeTypes, WorkerOK, Writing
  <1>8. TurnOK'
    BY <1>4 DEF TurnOK
  <1>9. PlacesOK' /\ LockOK'
    BY <1>1, <1>3, <1>4, PlacesStay DEF BridgeInv
  <1>10. FuturesOK'
    BY <1>1, <1>2, <1>4 DEF BridgeInv, FuturesOK, Live
  <1> QED BY <1>5, <1>6, <1>7, <1>8, <1>9, <1>10 DEF BridgeInv

LEMMA DriverIsDoneStays ==
  ASSUME BridgeInv, DriverIsDone
  PROVE  BridgeInv'
  <1>1. /\ UNCHANGED <<closeTrack, bridgeClosed, generation, pending, submitted, gen>>
        /\ UNCHANGED <<place, left, must, holder, waiters, future, queue, ended, shown>>
        /\ UNCHANGED worker
    BY DEF DriverIsDone, bridge, tasks
  <1>2. Runs("turn") /\ ready' = Tail(ready) \o <<>>
    BY DEF DriverIsDone, Then
  <1>3. /\ <<>> \in Seq(Items) /\ \A k, c : ~HasIn(<<>>, k, c)
    BY ItemsOf, NoItem
  <1>4. /\ worker.at = "idle" /\ worker.stale = {} /\ ready' \in Seq(Items)
        /\ ~Has("turn", 0)' /\ \A c \in Chunks : ~Has("deliver", c) /\ ~Has("deliver", c)'
        /\ \A k, c : k # "turn" => (Has(k, c)' <=> Has(k, c) \/ HasIn(<<>>, k, c))
        /\ \A k \in {"deliver", "step", "done", "turn"} : \A c, l, d :
               Before(l, d, k, c)' => Before(l, d, k, c)
    BY <1>2, <1>3, TurnTaken
  <1>5. BridgeTypes'
    BY <1>1, <1>4 DEF BridgeInv, BridgeTypes
  <1>6. TaskTypes' /\ PendingOK' /\ QueueOK' /\ WorkerOK' /\ FuturesOK'
    BY <1>1 DEF BridgeInv, TaskTypes, PendingOK, QueueOK, WorkerOK, Writing, FuturesOK, Live
  <1>7. TurnOK'
    BY <1>4 DEF TurnOK
  <1>8. PlacesOK' /\ LockOK'
    BY <1>1, <1>3, <1>4, PlacesStay DEF BridgeInv
  <1> QED BY <1>5, <1>6, <1>7, <1>8 DEF BridgeInv

LEMMA TrackedChunks ==
  ASSUME BridgeInv
  PROVE  /\ pending \in SUBSET Chunks
         /\ Cancellable(pending) \subseteq pending
         /\ Cancellable(pending) \in SUBSET Chunks
         /\ IsFiniteSet(Cancellable(pending))
  <1>1. /\ pending \subseteq 1 .. submitted /\ IsFiniteSet(pending)
        /\ submitted \in 0 .. MaxChunks /\ MaxChunks \in Nat
    BY BoundsArePositive DEF BridgeInv, PendingOK, BridgeTypes
  <1>2. 1 .. submitted \subseteq Chunks
    BY <1>1 DEF Chunks
  <1>3. Cancellable(pending) \subseteq pending
    BY DEF Cancellable
  <1>4. IsFiniteSet(Cancellable(pending))
    BY <1>1, <1>3, FS_Subset
  <1> QED BY <1>1, <1>2, <1>3, <1>4

\* What a new generation and a close have in common: every tracked future is
\* settled, and the loop is told to cancel the tasks.
LEMMA SettleStays ==
  ASSUME BridgeInv, Settle(pending), pending' = {}, worker'.stale = worker.stale,
         UNCHANGED <<submitted, place>>
  PROVE  /\ FuturesOK' /\ PendingOK'
         /\ future' \in [Chunks -> {"none", "pending", "cancelled", "reported"}]
  <1>1. pending \in SUBSET Chunks
    BY TrackedChunks
  <1>2. /\ future' \in [Chunks -> {"none", "pending", "cancelled", "reported"}]
        /\ \A c \in Chunks : future'[c] = "none" <=> future[c] = "none"
        /\ \A c \in Chunks : future[c] = "cancelled" => future'[c] = "cancelled"
        /\ \A c \in Chunks : Live(c) => future'[c] \in {"pending", "cancelled"}
        /\ \A c \in pending : Live(c) => future'[c] = "cancelled"
    BY <1>1, SettleFacts DEF BridgeInv
  <1>3. FuturesOK'
    BY <1>2 DEF BridgeInv, FuturesOK, Live
  <1>4. PendingOK'
    BY FS_EmptySet, BoundsArePositive DEF PendingOK
  <1> QED BY <1>2, <1>3, <1>4

LEMMA BeginGenerationStays ==
  ASSUME BridgeInv, BeginGeneration
  PROVE  BridgeInv'
  <1> DEFINE cs == Cancellable(pending)
  <1>1. /\ UNCHANGED <<closeTrack, bridgeClosed, submitted, gen>>
        /\ UNCHANGED <<place, left, must, holder, waiters, queue, ended, shown>>
    BY DEF BeginGeneration, tasks
  <1>2. /\ Runs("turn") /\ generation < MaxGenerations /\ generation' = generation + 1
        /\ Settle(pending) /\ pending' = {} /\ worker' = [worker EXCEPT !.at = "plan"]
    BY DEF BeginGeneration
  <1>3. PICK told \in InOrder(cs) : ready' = Tail(ready) \o (Cancels(told) \o Flush(submitted))
    BY DEF BeginGeneration, Then
  <1>4. pending \subseteq 1 .. submitted /\ IsFiniteSet(pending) /\ submitted \in 0 .. MaxChunks
    BY DEF BridgeInv, PendingOK, BridgeTypes
  <1>5. cs \subseteq pending /\ cs \in SUBSET Chunks /\ IsFiniteSet(cs)
    BY TrackedChunks
  <1> HIDE DEF cs
  <1> DEFINE t == Cancels(told) \o << <<"flush", submitted>> >>
  <1>6. /\ t \in Seq(Items)
        /\ \A l, d : HasIn(t, l, d) <=> (l = "cancel" /\ d \in cs)
                                           \/ (l = "flush" /\ d = submitted)
    <2>1. << <<"flush", submitted>> >> \in Seq(Items)
      BY <1>4, ItemsOf
    <2> QED BY <1>4, <1>5, <2>1, CancelsThen
  <1>7. ready' = Tail(ready) \o t
    BY <1>3 DEF Flush
  <1> HIDE DEF t
  <1>8. /\ worker.at = "idle" /\ worker.stale = {} /\ ready' \in Seq(Items)
        /\ ~Has("turn", 0)' /\ \A c \in Chunks : ~Has("deliver", c) /\ ~Has("deliver", c)'
        /\ \A c \in Chunks : place[c] # "created"
        /\ \A k, c : k # "turn" => (Has(k, c)' <=> Has(k, c) \/ HasIn(t, k, c))
        /\ \A k \in {"deliver", "step", "done", "turn"} : \A c, l, d :
               Before(l, d, k, c)' => Before(l, d, k, c)
    <2>1. \A k \in {"deliver", "step", "done", "turn"} : \A c : ~HasIn(t, k, c)
      BY <1>6
    <2> QED BY <1>2, <1>6, <1>7, <2>1, TurnTaken
  <1>9. /\ worker'.at = "plan" /\ worker'.gen = worker.gen /\ worker'.stale = worker.stale
        /\ worker' \in [at : {"idle", "enter", "recheck", "schedule", "plan"},
                   gen : 0 .. MaxGenerations, stale : SUBSET (1 .. submitted)]
    BY <1>2 DEF BridgeInv, WorkerOK
  <1>10. BridgeTypes'
    <2>1. generation' \in 0 .. MaxGenerations /\ generation <= generation'
      BY <1>2, ValuesToCheck DEF BridgeInv, BridgeTypes
    <2>2. \A c \in Chunks : gen[c] <= generation'
      BY <2>1, <1>2 DEF BridgeInv, BridgeTypes
    <2> QED BY <1>1, <1>8, <2>1, <2>2 DEF BridgeInv, BridgeTypes
  <1>11. FuturesOK' /\ PendingOK' /\ TaskTypes'
    BY <1>1, <1>2, <1>9, SettleStays DEF BridgeInv, TaskTypes
  <1>12. QueueOK'
    BY <1>1 DEF BridgeInv, QueueOK
  <1>13. WorkerOK'
    <2>1. worker'.gen <= generation'
      BY <1>2, <1>9, ValuesToCheck DEF BridgeInv, BridgeTypes, WorkerOK
    <2> QED BY <1>1, <1>8, <1>9, <2>1 DEF WorkerOK, Writing
  <1>14. TurnOK'
    BY <1>8 DEF TurnOK
  <1>15. PlacesOK' /\ LockOK'
    <2>1. \A c \in cs : c <= submitted /\ place[c] # "none"
      BY <1>4, <1>5 DEF BridgeInv, PlacesOK
    <2>2. \A c \in Chunks :
            /\ Has("deliver", c)' <=> Has("deliver", c)
            /\ Has("step", c)' => Has("step", c)
            /\ Has("done", c)' => Has("done", c)
            /\ Has("cancel", c)' => Has("cancel", c) \/ place[c] \notin {"none", "created"}
            /\ \A k \in {"deliver", "step", "done"} :
                  Before(k, c, k, c)' => Before(k, c, k, c)
      BY <1>6, <1>8, <2>1
    <2> QED BY <1>1, <2>2, PlacesStay DEF BridgeInv
  <1> QED BY <1>10, <1>11, <1>12, <1>13, <1>14, <1>15 DEF BridgeInv

LEMMA CloseStays ==
  ASSUME BridgeInv, CloseBridge
  PROVE  BridgeInv'
  <1> DEFINE cs == Cancellable(pending)
             last == IF closeTrack THEN << <<"close", 0>> >> ELSE <<>>
             rest == IF Runs("turn") THEN Tail(ready) ELSE ready
  <1>1. /\ UNCHANGED <<closeTrack, generation, worker, submitted, gen>>
        /\ UNCHANGED <<place, left, must, holder, waiters, queue, ended, shown>>
    BY DEF CloseBridge, tasks
  <1>2. /\ Runs("turn") \/ worker.at # "idle"
        /\ bridgeClosed' = TRUE /\ Settle(pending) /\ pending' = {}
    BY DEF CloseBridge
  <1>3. PICK told \in InOrder(cs) : ready' = rest \o Cancels(told) \o last
    BY DEF CloseBridge
  <1>4. pending \subseteq 1 .. submitted /\ IsFiniteSet(pending) /\ submitted \in 0 .. MaxChunks
    BY DEF BridgeInv, PendingOK, BridgeTypes
  <1>5. cs \subseteq pending /\ cs \in SUBSET Chunks /\ IsFiniteSet(cs)
    BY TrackedChunks
  <1> HIDE DEF cs
  <1> DEFINE t == Cancels(told) \o last
  <1>6. /\ last \in Seq(Items)
        /\ \A l, d : HasIn(last, l, d) => l = "close" /\ d = 0
    BY ItemsOf, OneItem, NoItem
  <1>7. /\ Cancels(told) \in Seq(Items)
        /\ \A l, d : HasIn(Cancels(told), l, d) <=> l = "cancel" /\ d \in cs
    BY <1>5, CancelItems
  <1> HIDE DEF last
  <1>8. /\ t \in Seq(Items)
        /\ \A l, d : HasIn(t, l, d) => \/ l = "cancel" /\ d \in cs
                                       \/ l = "close" /\ d = 0
    <2>1. /\ t \in Seq(Items)
          /\ \A l, d : HasIn(t, l, d) <=> HasIn(Cancels(told), l, d) \/ HasIn(last, l, d)
      BY <1>6, <1>7, Concatenation
    <2> QED BY <1>6, <1>7, <2>1
  <1>9. ready \in Seq(Items) /\ rest \in Seq(Items)
    <2>1. ready \in Seq(Items)
      BY DEF BridgeInv, BridgeTypes
    <2>2. Runs("turn") => Tail(ready) \in Seq(Items)
      BY <2>1, HeadTailProperties DEF Runs
    <2> QED BY <2>1, <2>2
  <1>10. ready' = rest \o t
    <2> DEFINE mid == Cancels(told)
    <2>1. rest \in Seq(Items) /\ mid \in Seq(Items) /\ last \in Seq(Items)
      BY <1>6, <1>7, <1>9
    <2>2. (rest \o mid) \o last = rest \o (mid \o last)
      <3> HIDE DEF rest, mid
      <3> QED BY <2>1, ConcatAssociative
    <2> HIDE DEF rest
    <2> QED BY <1>3, <2>2
  <1> HIDE DEF t
  <1>11. \A k \in {"deliver", "step", "done", "turn"} : \A c : ~HasIn(t, k, c)
    BY <1>8
  <1>12. /\ ready' \in Seq(Items)
         /\ ~Has("turn", 0)' /\ \A c \in Chunks : ~Has("deliver", c) /\ ~Has("deliver", c)'
         /\ \A c \in Chunks : place[c] # "created"
         /\ \A k, c : k # "turn" => (Has(k, c)' <=> Has(k, c) \/ HasIn(t, k, c))
         /\ \A k \in {"deliver", "step", "done", "turn"} : \A c, l, d :
               Before(l, d, k, c)' => Before(l, d, k, c)
    <2>1. CASE Runs("turn")
      <3>1. ready' = Tail(ready) \o t
        BY <1>10, <2>1
      <3> QED BY <1>8, <1>11, <2>1, <3>1, TurnTaken
    <2>2. CASE ~Runs("turn")
      <3>1. ready' = ready \o t
        BY <1>10, <2>2
      <3>2. /\ ready' \in Seq(Items)
            /\ \A l, d : Has(l, d)' <=> Has(l, d) \/ HasIn(t, l, d)
            /\ \A l, d, m, e : Before(l, d, m, e)' <=>
                 \/ Before(l, d, m, e) \/ BeforeIn(t, l, d, m, e)
                 \/ Has(l, d) /\ HasIn(t, m, e)
        BY <1>8, <1>9, <3>1, Appends
      <3>3. ~Has("turn", 0) /\ \A c \in Chunks : ~Has("deliver", c)
        BY <1>2, <2>2 DEF BridgeInv, TurnOK
      <3>4. \A c \in Chunks : place[c] # "created"
        BY <3>3 DEF BridgeInv, PlacesOK
      <3>5. \A l, d, m, e : BeforeIn(t, l, d, m, e) => HasIn(t, m, e)
        BY DEF BeforeIn, HasIn
      <3>6. ~Has("turn", 0)' /\ \A c \in Chunks : ~Has("deliver", c)'
        BY <1>11, <3>2, <3>3
      <3>7. \A k \in {"deliver", "step", "done", "turn"} : \A c, l, d :
               Before(l, d, k, c)' => Before(l, d, k, c)
        BY <1>11, <3>2, <3>5
      <3> QED BY <3>2, <3>3, <3>4, <3>6, <3>7
    <2> QED BY <2>1, <2>2
  <1>13. BridgeTypes'
    BY <1>1, <1>2, <1>12 DEF BridgeInv, BridgeTypes
  <1>14. FuturesOK' /\ PendingOK' /\ TaskTypes'
    BY <1>1, <1>2, SettleStays DEF BridgeInv, TaskTypes
  <1>15. QueueOK'
    BY <1>1 DEF BridgeInv, QueueOK
  <1>16. WorkerOK'
    <2>1. worker.at = "schedule" => Cardinality(pending') < MaxPending
      BY <1>2, FS_EmptySet, BoundsArePositive
    <2> QED BY <1>1, <2>1 DEF BridgeInv, WorkerOK, Writing
  <1>17. TurnOK'
    BY <1>12 DEF TurnOK
  <1>18. PlacesOK' /\ LockOK'
    <2>1. \A c \in cs : c <= submitted /\ place[c] # "none"
      BY <1>4, <1>5 DEF BridgeInv, PlacesOK
    <2>2. \A c \in Chunks :
            /\ Has("deliver", c)' <=> Has("deliver", c)
            /\ Has("step", c)' => Has("step", c)
            /\ Has("done", c)' => Has("done", c)
            /\ Has("cancel", c)' => Has("cancel", c) \/ place[c] \notin {"none", "created"}
            /\ \A k \in {"deliver", "step", "done"} :
                  Before(k, c, k, c)' => Before(k, c, k, c)
      BY <1>8, <1>12, <2>1
    <2> QED BY <1>1, <2>2, PlacesStay DEF BridgeInv
  <1> QED BY <1>13, <1>14, <1>15, <1>16, <1>17, <1>18 DEF BridgeInv

-----------------------------------------------------------------------------
(* The loop's steps.                                                        *)

\* Whatever the loop runs between two turns of the driver leaves the turn and
\* the callbacks before it where they are.
LEMMA LoopPops ==
  ASSUME BridgeInv, worker'.at = worker.at,
         ready # <<>>, NEW k, NEW c, Head(ready) = <<k, c>>, k # "turn",
         NEW t \in Seq(Items), ready' = Tail(ready) \o t,
         \A d : ~HasIn(t, "deliver", d) /\ ~HasIn(t, "turn", d)
  PROVE  /\ ready' \in Seq(Items) /\ Has(k, c) /\ TurnOK'
         /\ \A l, d : Has(l, d)' => Has(l, d) \/ HasIn(t, l, d)
         /\ \A l, d : Has(l, d) /\ ~(l = k /\ d = c) => Has(l, d)'
         /\ \A l, d : HasIn(t, l, d) => Has(l, d)'
         /\ ~Before(k, c, k, c) /\ ~HasIn(t, k, c) => ~Has(k, c)'
         /\ \A l \in {"deliver", "step", "done"} : \A d \in Chunks :
               /\ ~HasIn(t, l, d) => ~Before(l, d, l, d)'
               /\ ~Has(l, d) /\ ~BeforeIn(t, l, d, l, d) => ~Before(l, d, l, d)'
  <1>1. ready \in Seq(Items)
    BY DEF BridgeInv, BridgeTypes
  <1>3. /\ ready' \in Seq(Items)
        /\ Has(k, c)
        /\ \A l, d : Has(l, d)' => Has(l, d) \/ HasIn(t, l, d)
        /\ \A l, d : Has(l, d) /\ ~(l = k /\ d = c) => Has(l, d)'
        /\ \A l, d : HasIn(t, l, d) => Has(l, d)'
        /\ ~Before(k, c, k, c) /\ ~HasIn(t, k, c) => ~Has(k, c)'
        /\ \A l, d, m, e : Before(l, d, m, e)' =>
              \/ Before(l, d, m, e) \/ BeforeIn(t, l, d, m, e)
              \/ Has(l, d) /\ HasIn(t, m, e)
    BY <1>1, Pops
  <1>4. \A l, d, m, e : BeforeIn(t, l, d, m, e) => HasIn(t, l, d) /\ HasIn(t, m, e)
    BY DEF BeforeIn, HasIn
  <1>5. TurnOK'
    <2>1. Has("turn", 0)' => worker'.at = "idle" /\ ~Before("turn", 0, "turn", 0)'
      BY <1>3, <1>4 DEF BridgeInv, TurnOK
    <2>2. ASSUME NEW d \in Chunks, Has("deliver", d)'
          PROVE  Has("turn", 0)' /\ ~Before("turn", 0, "deliver", d)'
      <3>1. Has("deliver", d)
        BY <1>3, <2>2
      <3>2. Has("turn", 0) /\ ~Before("turn", 0, "deliver", d)
        BY <3>1 DEF BridgeInv, TurnOK
      <3> QED BY <1>3, <1>4, <3>2
    <2> QED BY <2>1, <2>2 DEF TurnOK
  <1>6. \A l \in {"deliver", "step", "done"} : \A d \in Chunks : ~Before(l, d, l, d)
    BY DEF BridgeInv, PlacesOK
  <1>8. \A l \in {"deliver", "step", "done"} : \A d \in Chunks :
               /\ ~HasIn(t, l, d) => ~Before(l, d, l, d)'
               /\ ~Has(l, d) /\ ~BeforeIn(t, l, d, l, d) => ~Before(l, d, l, d)'
    BY <1>3, <1>4, <1>6
  <1> QED BY <1>3, <1>5, <1>8

LEMMA WakePutterFacts ==
  ASSUME LockOK
  PROVE  /\ WakePutter \in Seq(Items)
         /\ \A k, c : HasIn(WakePutter, k, c) =>
               k = "step" /\ c = holder /\ c \in Chunks /\ place[c] = "put" /\ ~Has("step", c)
         /\ \A k, c, l, d : ~BeforeIn(WakePutter, k, c, l, d)
  <1>1. CASE holder # Nobody /\ place[holder] = "put" /\ ~Scheduled(holder)
    <2>1. holder \in Chunks /\ ~Has("step", holder)
      BY <1>1 DEF LockOK, Scheduled, Contains, Has, HasIn
    <2>2. WakePutter = << <<"step", holder>> >>
      BY <1>1 DEF WakePutter
    <2>3. WakePutter \in Seq(Items)
      BY <2>1, <2>2, ItemsOf
    <2> QED BY <1>1, <2>1, <2>2, <2>3, OneItem
  <1>2. CASE ~(holder # Nobody /\ place[holder] = "put" /\ ~Scheduled(holder))
    <2>1. WakePutter = <<>>
      BY <1>2 DEF WakePutter
    <2> QED BY <2>1, ItemsOf, NoItem
  <1> QED BY <1>1, <1>2

LEMMA WakeFirstFacts ==
  ASSUME NEW s \in Seq(Chunks)
  PROVE  /\ WakeFirst(s) \in Seq(Items)
         /\ \A k, c : HasIn(WakeFirst(s), k, c) =>
               k = "step" /\ s # <<>> /\ c = s[1] /\ c \in Chunks /\ ~Has("step", c)
         /\ \A k, c, l, d : ~BeforeIn(WakeFirst(s), k, c, l, d)
  <1>1. CASE s = <<>> \/ Scheduled(Head(s))
    <2>1. WakeFirst(s) = <<>>
      BY <1>1 DEF WakeFirst
    <2> QED BY <2>1, ItemsOf, NoItem
  <1>2. CASE s # <<>> /\ ~Scheduled(Head(s))
    <2>1. WakeFirst(s) = << <<"step", Head(s)>> >>
      BY <1>2 DEF WakeFirst
    <2>2. Head(s) \in Chunks /\ Head(s) = s[1]
      BY <1>2, HeadTailProperties
    <2>3. ~Has("step", Head(s))
      BY <1>2 DEF Scheduled, Contains, Has, HasIn
    <2>4. WakeFirst(s) \in Seq(Items)
      BY <2>1, <2>2, ItemsOf
    <2> QED BY <1>2, <2>1, <2>2, <2>3, <2>4, OneItem
  <1> QED BY <1>1, <1>2

\* One chunk leaves the lock's waiters; the others stay in their order.
LEMMA RemoveWaiter ==
  ASSUME NEW q \in Seq(Chunks), NEW c,
         \A i, j \in 1 .. Len(q) : q[i] = q[j] => i = j
  PROVE  LET rest == RemoveFirst(q, c)
         IN  /\ rest \in Seq(Chunks)
             /\ \A i, j \in 1 .. Len(rest) : rest[i] = rest[j] => i = j
             /\ \A d : (\E i \in 1 .. Len(rest) : rest[i] = d) <=>
                          (\E i \in 1 .. Len(q) : q[i] = d) /\ d # c
             /\ q # <<>> /\ q[1] # c => rest # <<>> /\ rest[1] = q[1]
             /\ (\A i, j \in 1 .. Len(q) : i < j => q[i] < q[j]) =>
                   \A i, j \in 1 .. Len(rest) : i < j => rest[i] < rest[j]
  <1> DEFINE rest == RemoveFirst(q, c)
  <1>1. Len(q) \in Nat
    OBVIOUS
  <1>2. CASE ~\E i \in 1 .. Len(q) : q[i] = c
    <2>1. rest = q
      BY <1>2 DEF RemoveFirst
    <2> HIDE DEF rest
    <2>2. /\ rest \in Seq(Chunks)
          /\ \A i, j \in 1 .. Len(rest) : rest[i] = rest[j] => i = j
          /\ \A d : (\E i \in 1 .. Len(rest) : rest[i] = d) <=>
                          (\E i \in 1 .. Len(q) : q[i] = d) /\ d # c
          /\ q # <<>> /\ q[1] # c => rest # <<>> /\ rest[1] = q[1]
          /\ (\A i, j \in 1 .. Len(q) : i < j => q[i] < q[j]) =>
                   \A i, j \in 1 .. Len(rest) : i < j => rest[i] < rest[j]
      BY <1>2, <2>1
    <2> QED BY <2>2 DEF rest
  <1>3. CASE \E i \in 1 .. Len(q) : q[i] = c
    <2>1. PICK n \in 1 .. Len(q) : q[n] = c
      BY <1>3
    <2>2. rest = RemoveAt(q, n)
      <3>1. {i \in 1 .. Len(q) : q[i] = c} = {n}
        BY <2>1
      <3>2. Min({n}) = n
        BY <2>1 DEF Min
      <3>3. SelectInSeq(q, LAMBDA v : v = c) = n
        BY <3>1, <3>2 DEF SelectInSeq
      <3> QED BY <2>1, <3>3 DEF RemoveFirst
    <2> HIDE DEF rest
    <2>3. /\ rest \in Seq(Chunks) /\ Len(rest) = Len(q) - 1
          /\ \A i \in 1 .. Len(rest) : rest[i] = IF i < n THEN q[i] ELSE q[i + 1]
      <3> DEFINE front == SubSeq(q, 1, n - 1)
                 back == SubSeq(q, n + 1, Len(q))
      <3>1. /\ front \in Seq(Chunks) /\ Len(front) = n - 1
            /\ \A i \in 1 .. n - 1 : front[i] = q[i]
        BY <1>1, SubSeqProperties
      <3>2. /\ back \in Seq(Chunks) /\ Len(back) = Len(q) - n
            /\ \A i \in 1 .. Len(q) - n : back[i] = q[n + i]
        BY <1>1, SubSeqProperties
      <3>3. rest = front \o back
        BY <2>2 DEF RemoveAt
      <3> HIDE DEF front, back
      <3>4. front \in Seq(Chunks) /\ back \in Seq(Chunks)
        BY <3>1, <3>2
      <3>5. /\ front \o back \in Seq(Chunks) /\ Len(front \o back) = Len(front) + Len(back)
            /\ \A i \in 1 .. Len(front) + Len(back) :
                  (front \o back)[i] = IF i <= Len(front) THEN front[i]
                                                          ELSE back[i - Len(front)]
        BY <3>4, ConcatProperties
      <3>6. /\ rest \in Seq(Chunks) /\ Len(rest) = Len(q) - 1
            /\ \A i \in 1 .. Len(rest) : rest[i] = IF i <= n - 1 THEN front[i]
                                                             ELSE back[i - (n - 1)]
        BY <1>1, <3>1, <3>2, <3>3, <3>5
      <3>7. ASSUME NEW i \in 1 .. Len(rest)
            PROVE  rest[i] = IF i < n THEN q[i] ELSE q[i + 1]
        <4>1. CASE i < n
          BY <1>1, <3>1, <3>6, <4>1
        <4>2. CASE i >= n
          <5>1. i - (n - 1) \in 1 .. Len(q) - n /\ n + (i - (n - 1)) = i + 1
            BY <1>1, <3>6, <4>2
          <5> QED BY <1>1, <3>2, <3>6, <4>2, <5>1
        <4> QED BY <1>1, <4>1, <4>2
      <3> QED BY <3>6, <3>7
    <2>4. \A i \in 1 .. Len(rest) : i \in 1 .. Len(q) /\ i + 1 \in 1 .. Len(q)
      BY <1>1, <2>3
    <2>5. \A i, j \in 1 .. Len(rest) : rest[i] = rest[j] => i = j
      BY <1>1, <2>3, <2>4
    <2>6. ASSUME NEW d
          PROVE  (\E i \in 1 .. Len(rest) : rest[i] = d) <=>
                          (\E i \in 1 .. Len(q) : q[i] = d) /\ d # c
      <3>1. ASSUME NEW i \in 1 .. Len(rest), rest[i] = d
            PROVE  (\E j \in 1 .. Len(q) : q[j] = d) /\ d # c
        <4>1. CASE i < n
          BY <1>1, <2>1, <2>3, <2>4, <3>1, <4>1
        <4>2. CASE i >= n
          BY <1>1, <2>1, <2>3, <2>4, <3>1, <4>2
        <4> QED BY <1>1, <4>1, <4>2
      <3>2. ASSUME NEW i \in 1 .. Len(q), q[i] = d, d # c
            PROVE  \E j \in 1 .. Len(rest) : rest[j] = d
        <4>1. CASE i < n
          BY <1>1, <2>1, <2>3, <3>2, <4>1
        <4>2. CASE i > n
          <5>1. i - 1 \in 1 .. Len(rest) /\ ~(i - 1 < n) /\ (i - 1) + 1 = i
            BY <1>1, <2>1, <2>3, <4>2
          <5> QED BY <2>3, <3>2, <5>1
        <4> QED BY <1>1, <2>1, <3>2, <4>1, <4>2
      <3> QED BY <3>1, <3>2
    <2>7. q # <<>> /\ q[1] # c => rest # <<>> /\ rest[1] = q[1]
      <3> SUFFICES ASSUME q # <<>>, q[1] # c PROVE rest # <<>> /\ rest[1] = q[1]
        OBVIOUS
      <3>1. n # 1 /\ 1 \in 1 .. Len(rest)
        BY <1>1, <2>1, <2>3
      <3> QED BY <1>1, <2>1, <2>3, <3>1
    <2>8. ASSUME \A i, j \in 1 .. Len(q) : i < j => q[i] < q[j],
                 NEW i \in 1 .. Len(rest), NEW j \in 1 .. Len(rest), i < j
          PROVE  rest[i] < rest[j]
      <3>1. CASE i < n /\ j < n
        BY <1>1, <2>3, <2>4, <2>8, <3>1
      <3>2. CASE i < n /\ j >= n
        <4>1. i < j + 1
          BY <1>1, <2>8
        <4> QED BY <1>1, <2>3, <2>4, <2>8, <3>2, <4>1
      <3>3. CASE i >= n /\ j >= n
        <4>1. i + 1 < j + 1 /\ ~(i < n) /\ ~(j < n)
          BY <1>1, <2>1, <2>8, <3>3
        <4>2. rest[i] = q[i + 1] /\ rest[j] = q[j + 1]
          BY <2>3, <4>1
        <4> QED BY <2>4, <2>8, <4>1, <4>2
      <3> QED BY <1>1, <2>8, <3>1, <3>2, <3>3
    <2>9. /\ rest \in Seq(Chunks)
          /\ \A i, j \in 1 .. Len(rest) : rest[i] = rest[j] => i = j
          /\ \A d : (\E i \in 1 .. Len(rest) : rest[i] = d) <=>
                          (\E i \in 1 .. Len(q) : q[i] = d) /\ d # c
          /\ q # <<>> /\ q[1] # c => rest # <<>> /\ rest[1] = q[1]
          /\ (\A i, j \in 1 .. Len(q) : i < j => q[i] < q[j]) =>
                   \A i, j \in 1 .. Len(rest) : i < j => rest[i] < rest[j]
      BY <2>3, <2>5, <2>6, <2>7, <2>8
    <2> QED BY <2>9 DEF rest
  <1> QED BY <1>2, <1>3

LEMMA MakeTaskStays ==
  ASSUME BridgeInv, MakeTask
  PROVE  BridgeInv'
  <1>0. PICK c \in Chunks : ready # <<>> /\ Head(ready) = <<"deliver", c>> /\ Head(ready)[2] = c
    BY HeadItem DEF MakeTask, BridgeInv, BridgeTypes
  <1> DEFINE t == << <<"step", c>> >>
  <1>1. /\ UNCHANGED <<closeTrack, bridgeClosed, generation, pending, worker, submitted>>
        /\ UNCHANGED <<gen, left, must, holder, waiters, future, queue, ended, shown>>
    BY DEF MakeTask, bridge
  <1>2. /\ place' = [place EXCEPT ![c] = "new"]
        /\ ready' = Tail(ready) \o t
    BY <1>0 DEF MakeTask, Then
  <1>4. /\ t \in Seq(Items) /\ \A k, d : HasIn(t, k, d) <=> k = "step" /\ d = c
        /\ \A k, d, l, e : ~BeforeIn(t, k, d, l, e)
    <2>1. t \in Seq(Items)
      BY ItemsOf
    <2> QED BY <2>1, OneItem
  <1> HIDE DEF t
  <1>5. /\ ready' \in Seq(Items) /\ Has("deliver", c) /\ TurnOK'
        /\ \A l, d : Has(l, d)' => Has(l, d) \/ HasIn(t, l, d)
        /\ \A l, d : Has(l, d) /\ ~(l = "deliver" /\ d = c) => Has(l, d)'
        /\ \A l, d : HasIn(t, l, d) => Has(l, d)'
        /\ ~Before("deliver", c, "deliver", c) /\ ~HasIn(t, "deliver", c) => ~Has("deliver", c)'
        /\ \A l \in {"deliver", "step", "done"} : \A d \in Chunks :
               /\ ~HasIn(t, l, d) => ~Before(l, d, l, d)'
               /\ ~Has(l, d) /\ ~BeforeIn(t, l, d, l, d) => ~Before(l, d, l, d)'
    <2>1. /\ worker'.at = worker.at
          /\ \A d : ~HasIn(t, "deliver", d) /\ ~HasIn(t, "turn", d)
      BY <1>1, <1>4
    <2>2. t \in Seq(Items) /\ ready' = Tail(ready) \o t
      BY <1>2, <1>4
    <2>3. ready # <<>> /\ Head(ready) = <<"deliver", c>> /\ "deliver" # "turn"
      BY <1>0
    <2> QED BY <2>1, <2>2, <2>3, LoopPops
  <1>6. place[c] = "created" /\ ~Has("step", c)
    BY <1>5 DEF BridgeInv, PlacesOK
  <1>7. /\ place' \in [Chunks -> {"none", "created", "new", "lock", "put", "over"}]
        /\ place'[c] = "new" /\ \A d \in Chunks : d # c => place'[d] = place[d]
    BY <1>2 DEF BridgeInv, TaskTypes
  <1>8. /\ \A d \in Chunks : /\ Has("deliver", d)' <=> Has("deliver", d) /\ d # c
                             /\ Has("step", d)' <=> Has("step", d) \/ d = c
                             /\ Has("done", d)' => Has("done", d)
                             /\ Has("cancel", d)' => Has("cancel", d)
        /\ \A k \in {"deliver", "step", "done"} : \A d \in Chunks : ~Before(k, d, k, d)'
    <2>1. ~Before("deliver", c, "deliver", c)
      BY DEF BridgeInv, PlacesOK
    <2>2. ~Has("deliver", c)'
      BY <1>4, <1>5, <2>1
    <2>3. \A k \in {"deliver", "step", "done"} : \A d \in Chunks : ~Before(k, d, k, d)'
      BY <1>4, <1>5, <1>6
    <2> QED BY <1>4, <1>5, <2>2, <2>3
  <1>9. BridgeTypes'
    BY <1>1, <1>5 DEF BridgeInv, BridgeTypes
  <1>10. TaskTypes'
    BY <1>1, <1>7 DEF BridgeInv, TaskTypes
  <1>11. PendingOK' /\ QueueOK' /\ WorkerOK'
    BY <1>1 DEF BridgeInv, PendingOK, QueueOK, WorkerOK, Writing
  <1>12. PlacesOK'
    BY <1>1,  <1>6, <1>7, <1>8 DEF BridgeInv, PlacesOK
  <1>13. LockOK'
    BY <1>1,  <1>6, <1>7, <1>8 DEF BridgeInv, LockOK
  <1>14. FuturesOK'
    BY <1>1,  <1>6, <1>7 DEF BridgeInv, FuturesOK, Live
  <1> QED BY <1>5, <1>9, <1>10, <1>11, <1>12, <1>13, <1>14 DEF BridgeInv

LEMMA CancelTaskStays ==
  ASSUME BridgeInv, CancelTask
  PROVE  BridgeInv'
  <1>0. PICK c \in Chunks : ready # <<>> /\ Head(ready) = <<"cancel", c>> /\ Head(ready)[2] = c
    BY HeadItem DEF CancelTask, BridgeInv, BridgeTypes
  <1> DEFINE t == IF place[c] # "over" /\ ~Scheduled(c) THEN << <<"step", c>> >> ELSE <<>>
  <1>1. /\ UNCHANGED <<closeTrack, bridgeClosed, generation, pending, worker, submitted>>
        /\ UNCHANGED <<gen, place, left, holder, waiters, future, queue, ended, shown>>
    BY DEF CancelTask, bridge
  <1>2. /\ must' = [must EXCEPT ![c] = place[c] # "over"]
        /\ ready' = Tail(ready) \o t
    BY <1>0 DEF CancelTask, Then
  <1>4. /\ t \in Seq(Items)
        /\ \A k, d : HasIn(t, k, d) =>
              k = "step" /\ d = c /\ place[c] # "over" /\ ~Has("step", c)
        /\ \A k, d, l, e : ~BeforeIn(t, k, d, l, e)
    <2>1. CASE place[c] # "over" /\ ~Scheduled(c)
      <3>1. t = << <<"step", c>> >>
        BY <2>1
      <3>2. ~Has("step", c)
        BY <2>1 DEF Scheduled, Contains, Has, HasIn
      <3> HIDE DEF t
      <3>3. << <<"step", c>> >> \in Seq(Items)
        BY ItemsOf
      <3> QED BY <2>1, <3>1, <3>2, <3>3, OneItem
    <2>2. CASE ~(place[c] # "over" /\ ~Scheduled(c))
      BY <2>2, ItemsOf, NoItem
    <2> QED BY <2>1, <2>2
  <1> HIDE DEF t
  <1>5. /\ ready' \in Seq(Items) /\ Has("cancel", c) /\ TurnOK'
        /\ \A l, d : Has(l, d)' => Has(l, d) \/ HasIn(t, l, d)
        /\ \A l, d : Has(l, d) /\ ~(l = "cancel" /\ d = c) => Has(l, d)'
        /\ \A l, d : HasIn(t, l, d) => Has(l, d)'
        /\ ~Before("cancel", c, "cancel", c) /\ ~HasIn(t, "cancel", c) => ~Has("cancel", c)'
        /\ \A l \in {"deliver", "step", "done"} : \A d \in Chunks :
               /\ ~HasIn(t, l, d) => ~Before(l, d, l, d)'
               /\ ~Has(l, d) /\ ~BeforeIn(t, l, d, l, d) => ~Before(l, d, l, d)'
    <2>1. /\ worker'.at = worker.at
          /\ \A d : ~HasIn(t, "deliver", d) /\ ~HasIn(t, "turn", d)
      BY <1>1, <1>4
    <2>2. t \in Seq(Items) /\ ready' = Tail(ready) \o t
      BY <1>2, <1>4
    <2>3. ready # <<>> /\ Head(ready) = <<"cancel", c>> /\ "cancel" # "turn"
      BY <1>0
    <2> QED BY <2>1, <2>2, <2>3, LoopPops
  <1>6. place[c] \notin {"none", "created"}
    BY <1>5 DEF BridgeInv, PlacesOK
  <1>7. /\ must' \in [Chunks -> BOOLEAN]
        /\ must'[c] = (place[c] # "over") /\ \A d \in Chunks : d # c => must'[d] = must[d]
    BY <1>2 DEF BridgeInv, TaskTypes
  <1>8. /\ \A d \in Chunks :
              /\ Has("deliver", d)' <=> Has("deliver", d)
              /\ Has("step", d)' => Has("step", d) \/ (d = c /\ place[c] # "over")
              /\ Has("done", d)' => Has("done", d)
              /\ Has("cancel", d)' => Has("cancel", d)
        /\ \A k \in {"deliver", "step", "done"} : \A d \in Chunks : ~Before(k, d, k, d)'
    BY <1>4, <1>5
  <1>9. BridgeTypes'
    BY <1>1, <1>5 DEF BridgeInv, BridgeTypes
  <1>10. TaskTypes'
    BY <1>1, <1>7 DEF BridgeInv, TaskTypes
  <1>11. PendingOK' /\ QueueOK' /\ WorkerOK' /\ FuturesOK'
    BY <1>1 DEF BridgeInv, PendingOK, QueueOK, WorkerOK, Writing, FuturesOK, Live
  <1>12. PlacesOK'
    <2>1. place[c] \in {"none", "created", "new", "lock", "put", "over"}
      BY DEF BridgeInv, TaskTypes
    <2> QED BY <1>1,  <1>6, <1>8, <2>1 DEF BridgeInv, PlacesOK
  <1>13. LockOK'
    <2>1. ASSUME NEW d \in Chunks, Has("step", d)', place[d] = "lock", ~must'[d]
          PROVE  holder = Nobody /\ waiters[1] = d
      <3>1. d # c
        BY <1>7, <2>1
      <3> QED BY <1>7, <1>8, <2>1, <3>1 DEF BridgeInv, LockOK
    <2> QED BY <1>1, <2>1 DEF BridgeInv, LockOK
  <1> QED BY <1>5, <1>9, <1>10, <1>11, <1>12, <1>13 DEF BridgeInv

LEMMA DoneStays ==
  ASSUME BridgeInv, Done
  PROVE  BridgeInv'
  <1>0. PICK c \in Chunks : ready # <<>> /\ Head(ready) = <<"done", c>> /\ Head(ready)[2] = c
    BY HeadItem DEF Done, BridgeInv, BridgeTypes
  <1> DEFINE t == <<>>
  <1>1. /\ UNCHANGED <<closeTrack, bridgeClosed, generation, worker, submitted>>
        /\ UNCHANGED <<gen, place, left, must, holder, waiters, queue, ended, shown>>
    BY DEF Done, bridge, tasks
  <1>2. /\ pending' = pending \ {c} /\ ready' = Tail(ready) \o t
        /\ future' = [future EXCEPT ![c] = IF Reports(c) THEN "reported" ELSE "cancelled"]
    BY <1>0 DEF Done, Then
  <1>4. t \in Seq(Items) /\ \A k, d : ~HasIn(t, k, d)
    BY ItemsOf, NoItem
  <1> HIDE DEF t
  <1>5. /\ ready' \in Seq(Items) /\ Has("done", c) /\ TurnOK'
        /\ \A l, d : Has(l, d)' => Has(l, d) \/ HasIn(t, l, d)
        /\ \A l, d : Has(l, d) /\ ~(l = "done" /\ d = c) => Has(l, d)'
        /\ \A l, d : HasIn(t, l, d) => Has(l, d)'
        /\ ~Before("done", c, "done", c) /\ ~HasIn(t, "done", c) => ~Has("done", c)'
        /\ \A l \in {"deliver", "step", "done"} : \A d \in Chunks :
               /\ ~HasIn(t, l, d) => ~Before(l, d, l, d)'
               /\ ~Has(l, d) /\ ~BeforeIn(t, l, d, l, d) => ~Before(l, d, l, d)'
    <2>1. /\ worker'.at = worker.at
          /\ \A d : ~HasIn(t, "deliver", d) /\ ~HasIn(t, "turn", d)
      BY <1>1, <1>4
    <2>2. t \in Seq(Items) /\ ready' = Tail(ready) \o t
      BY <1>2, <1>4
    <2>3. ready # <<>> /\ Head(ready) = <<"done", c>> /\ "done" # "turn"
      BY <1>0
    <2> QED BY <2>1, <2>2, <2>3, LoopPops
  <1>6. place[c] = "over"
    BY <1>5 DEF BridgeInv, PlacesOK
  <1>7. /\ future' \in [Chunks -> {"none", "pending", "cancelled", "reported"}]
        /\ future'[c] # "none" /\ \A d \in Chunks : d # c => future'[d] = future[d]
    BY <1>2 DEF BridgeInv, TaskTypes
  <1>8. BridgeTypes'
    BY <1>1, <1>5 DEF BridgeInv, BridgeTypes
  <1>9. TaskTypes' /\ QueueOK'
    BY <1>1, <1>7 DEF BridgeInv, TaskTypes, QueueOK
  <1>10. PendingOK' /\ Cardinality(pending') <= Cardinality(pending)
    <2>1. /\ IsFiniteSet(pending) /\ Cardinality(pending) <= MaxPending
          /\ pending' \subseteq pending /\ pending \subseteq 1 .. submitted
      BY <1>2 DEF BridgeInv, PendingOK
    <2>2. IsFiniteSet(pending') /\ Cardinality(pending') <= Cardinality(pending)
      BY <2>1, FS_Subset
    <2>3. Cardinality(pending) \in Nat /\ Cardinality(pending') \in Nat /\ MaxPending \in Nat
      BY <2>1, <2>2, FS_CardinalityType, BoundsArePositive
    <2> QED BY <1>1, <2>1, <2>2, <2>3 DEF PendingOK
  <1>11. WorkerOK'
    <2>1. Cardinality(pending) \in Nat /\ Cardinality(pending') \in Nat /\ MaxPending \in Nat
      BY <1>10, FS_CardinalityType, BoundsArePositive DEF BridgeInv, PendingOK
    <2>2. worker.at = "schedule" => Cardinality(pending') < MaxPending
      BY <1>10, <2>1 DEF BridgeInv, WorkerOK
    <2> QED BY <1>1, <2>2 DEF BridgeInv, WorkerOK, Writing
  <1>12. PlacesOK' /\ LockOK'
    <2>1. \A d \in Chunks :
            /\ Has("deliver", d)' <=> Has("deliver", d)
            /\ Has("step", d)' => Has("step", d)
            /\ Has("done", d)' => Has("done", d)
            /\ Has("cancel", d)' => Has("cancel", d) \/ place[d] \notin {"none", "created"}
            /\ \A k \in {"deliver", "step", "done"} :
                  Before(k, d, k, d)' => Before(k, d, k, d)
      BY <1>4, <1>5
    <2> QED BY <1>1, <2>1, PlacesStay DEF BridgeInv
  <1>13. FuturesOK'
    <2>1. c <= submitted /\ future[c] # "none"
      BY <1>6 DEF BridgeInv, PlacesOK, FuturesOK, BridgeTypes, Chunks
    <2> QED BY <1>1, <1>2,  <1>6, <1>7, <2>1 DEF BridgeInv, FuturesOK, Live
  <1> QED BY <1>5, <1>8, <1>9, <1>10, <1>11, <1>12, <1>13 DEF BridgeInv

\* A step of the track: at most it wakes the delivery that waits for room.
LEMMA TrackMoves ==
  ASSUME BridgeInv,
         UNCHANGED <<bridge, pending, worker, submitted, gen, tasks, future>>,
         ended' \in BOOLEAN, shown' \in 0 .. MaxChunks, QueueOK', TurnOK',
         ready' \in Seq(Items),
         \A c \in Chunks :
            /\ Has("deliver", c)' <=> Has("deliver", c)
            /\ Has("step", c)' => Has("step", c) \/ place[c] = "put"
            /\ Has("done", c)' => Has("done", c)
            /\ Has("cancel", c)' => Has("cancel", c)
            /\ \A k \in {"deliver", "step", "done"} : ~Before(k, c, k, c)'
  PROVE  BridgeInv'
  <1>1. /\ UNCHANGED <<closeTrack, bridgeClosed, generation, pending, worker, submitted>>
        /\ UNCHANGED <<gen, place, left, must, holder, waiters, future>>
    BY DEF bridge, tasks
  <1>2. BridgeTypes'
    BY <1>1 DEF BridgeInv, BridgeTypes
  <1>3. TaskTypes' /\ PendingOK' /\ WorkerOK' /\ FuturesOK'
    BY <1>1 DEF BridgeInv, TaskTypes, PendingOK, WorkerOK, Writing, FuturesOK, Live
  <1>4. PlacesOK'
    BY <1>1 DEF BridgeInv, PlacesOK
  <1>5. LockOK'
    BY <1>1 DEF BridgeInv, LockOK
  <1> QED BY <1>2, <1>3, <1>4, <1>5 DEF BridgeInv

LEMMA TrackPops ==
  ASSUME BridgeInv, UNCHANGED <<bridge, pending, worker, submitted, gen, tasks, future>>,
         ended' \in BOOLEAN, shown' \in 0 .. MaxChunks, QueueOK',
         NEW k \in {"flush", "empty", "close", "end"}, Runs(k),
         NEW t \in Seq(Items), ready' = Tail(ready) \o t,
         \A l \in {"deliver", "turn", "done", "cancel"} : \A d : ~HasIn(t, l, d),
         \A d : HasIn(t, "step", d) => place[d] = "put" /\ ~Has("step", d),
         \A l, d, m, e : ~BeforeIn(t, l, d, m, e)
  PROVE  BridgeInv'
  <1>1. PICK c \in 0 .. MaxChunks : ready # <<>> /\ Head(ready) = <<k, c>>
    <2>1. /\ ready # <<>> /\ Head(ready) = <<k, Head(ready)[2]>>
          /\ k \in {"flush", "empty"} => Head(ready)[2] \in 0 .. MaxChunks
          /\ k \in {"close", "end", "turn"} => Head(ready)[2] = 0
      BY HeadItem DEF BridgeInv, BridgeTypes
    <2> QED BY <2>1, BoundsArePositive
  <1>2. worker'.at = worker.at /\ k # "turn"
        /\ \A d : ~HasIn(t, "deliver", d) /\ ~HasIn(t, "turn", d)
    OBVIOUS
  <1>5. \A d : ~HasIn(t, "done", d) /\ ~HasIn(t, "cancel", d)
    OBVIOUS
  <1>3. /\ ready' \in Seq(Items) /\ Has(k, c) /\ TurnOK'
        /\ \A l, d : Has(l, d)' => Has(l, d) \/ HasIn(t, l, d)
        /\ \A l, d : Has(l, d) /\ ~(l = k /\ d = c) => Has(l, d)'
        /\ \A l, d : HasIn(t, l, d) => Has(l, d)'
        /\ ~Before(k, c, k, c) /\ ~HasIn(t, k, c) => ~Has(k, c)'
        /\ \A l \in {"deliver", "step", "done"} : \A d \in Chunks :
               /\ ~HasIn(t, l, d) => ~Before(l, d, l, d)'
               /\ ~Has(l, d) /\ ~BeforeIn(t, l, d, l, d) => ~Before(l, d, l, d)'
    BY <1>1, <1>2, LoopPops
  <1>4. \A d \in Chunks :
            /\ Has("deliver", d)' <=> Has("deliver", d)
            /\ Has("step", d)' => Has("step", d) \/ place[d] = "put"
            /\ Has("done", d)' => Has("done", d)
            /\ Has("cancel", d)' => Has("cancel", d)
            /\ \A l \in {"deliver", "step", "done"} : ~Before(l, d, l, d)'
    <2> TAKE d \in Chunks
    <2>1. Has("deliver", d)' <=> Has("deliver", d)
      BY <1>2, <1>3
    <2>2. Has("step", d)' => Has("step", d) \/ place[d] = "put"
      BY <1>3
    <2>3. (Has("done", d)' => Has("done", d)) /\ (Has("cancel", d)' => Has("cancel", d))
      BY <1>3, <1>5
    <2>4. ASSUME NEW l \in {"deliver", "step", "done"} PROVE ~Before(l, d, l, d)'
      <3>1. CASE HasIn(t, l, d)
        BY <1>3, <3>1
      <3>2. CASE ~HasIn(t, l, d)
        BY <1>3, <3>2
      <3> QED BY <3>1, <3>2
    <2> QED BY <2>1, <2>2, <2>3, <2>4
  <1> QED BY <1>3, <1>4, TrackMoves

LEMMA MakeTrackTaskStays ==
  ASSUME BridgeInv, MakeTrackTask
  PROVE  BridgeInv'
  <1>1. /\ UNCHANGED <<bridge, pending, worker, submitted, gen, tasks, future>>
        /\ UNCHANGED <<queue, ended, shown>>
    BY DEF MakeTrackTask
  <1>2. ended' \in BOOLEAN /\ shown' \in 0 .. MaxChunks /\ QueueOK'
    BY <1>1 DEF BridgeInv, BridgeTypes, QueueOK
  <1>3. CASE Runs("flush") /\ Then(<< <<"empty", Head(ready)[2]>> >>)
    <2>1. Head(ready)[2] \in 0 .. MaxChunks
      BY <1>3, HeadItem DEF BridgeInv, BridgeTypes
    <2> DEFINE t == << <<"empty", Head(ready)[2]>> >>
    <2>2. t \in Seq(Items)
      BY <2>1, ItemsOf
    <2>3. /\ \A l \in {"deliver", "turn", "done", "cancel"} : \A d : ~HasIn(t, l, d)
          /\ \A d : HasIn(t, "step", d) => place[d] = "put" /\ ~Has("step", d)
          /\ \A l, d, m, e : ~BeforeIn(t, l, d, m, e)
      BY OneItem
    <2>4. ready' = Tail(ready) \o t
      BY <1>3 DEF Then
    <2> HIDE DEF t
    <2> QED BY <1>1, <1>2, <1>3, <2>2, <2>3, <2>4, TrackPops
  <1>4. CASE Runs("close") /\ Then(<< <<"end", 0>> >>)
    <2> DEFINE t == << <<"end", 0>> >>
    <2>1. t \in Seq(Items)
      BY ItemsOf
    <2>2. /\ \A l \in {"deliver", "turn", "done", "cancel"} : \A d : ~HasIn(t, l, d)
          /\ \A d : HasIn(t, "step", d) => place[d] = "put" /\ ~Has("step", d)
          /\ \A l, d, m, e : ~BeforeIn(t, l, d, m, e)
      BY OneItem
    <2>3. ready' = Tail(ready) \o t
      BY <1>4 DEF Then
    <2> HIDE DEF t
    <2> QED BY <1>1, <1>2, <1>4, <2>1, <2>2, <2>3, TrackPops
  <1> QED BY <1>3, <1>4 DEF MakeTrackTask

LEMMA EmptyStays ==
  ASSUME BridgeInv, Empty \/ EndTrack
  PROVE  BridgeInv'
  <1> DEFINE t == IF (Empty /\ ended) \/ queue = <<>> THEN <<>> ELSE WakePutter
  <1>1. /\ UNCHANGED <<bridge, pending, worker, submitted, gen, tasks, future, shown>>
        /\ Runs("empty") \/ Runs("end")
        /\ ended' \in BOOLEAN
    BY DEF Empty, EndTrack, BridgeInv, BridgeTypes
  <1>2. ready' = Tail(ready) \o t
    <2>1. CASE Empty
      BY <2>1 DEF Empty, Then
    <2>2. CASE EndTrack /\ ~Empty
      BY <2>2 DEF EndTrack, Then
    <2> QED BY <2>1, <2>2
  <1>3. QueueOK' /\ shown' \in 0 .. MaxChunks
    <2>1. queue' \in {queue, <<>>, <<Sentinel>>}
      BY DEF Empty, EndTrack
    <2>2. QueueOK'
      <3>1. /\ <<0>> \in Seq(0 .. MaxChunks) /\ Len(<<0>>) = 1
            /\ <<>> \in Seq(0 .. MaxChunks) /\ Len(<<>>) = 0
            /\ 0 <= MaxSize /\ 1 <= MaxSize
        BY BoundsArePositive
      <3>2. queue \in Seq(0 .. MaxChunks) /\ Len(queue) <= MaxSize
        BY DEF BridgeInv, QueueOK
      <3> QED BY <2>1, <3>1, <3>2 DEF QueueOK, Sentinel
    <2> QED BY <1>1, <2>2 DEF BridgeInv, BridgeTypes
  <1>4. /\ t \in Seq(Items)
        /\ \A l \in {"deliver", "turn", "done", "cancel"} : \A d : ~HasIn(t, l, d)
        /\ \A d : HasIn(t, "step", d) => place[d] = "put" /\ ~Has("step", d)
        /\ \A l, d, m, e : ~BeforeIn(t, l, d, m, e)
    BY WakePutterFacts, ItemsOf, NoItem DEF BridgeInv
  <1> HIDE DEF t
  <1> QED BY <1>1, <1>2, <1>3, <1>4, TrackPops

LEMMA TakeFrameStays ==
  ASSUME BridgeInv, TakeFrame
  PROVE  BridgeInv'
  <1>1. /\ UNCHANGED <<bridge, pending, worker, submitted, gen, tasks, future, ended>>
        /\ queue # <<>> /\ queue' = Tail(queue) /\ shown' = Head(queue)
        /\ ready' = ready \o WakePutter
    BY DEF TakeFrame
  <1>2. QueueOK' /\ shown' \in 0 .. MaxChunks /\ ended' \in BOOLEAN
    <2>1. /\ Head(queue) \in 0 .. MaxChunks /\ Tail(queue) \in Seq(0 .. MaxChunks)
          /\ Len(Tail(queue)) = Len(queue) - 1
      BY <1>1, HeadTailProperties DEF BridgeInv, QueueOK
    <2>2. Len(queue) \in Nat /\ MaxSize \in Nat
      BY BoundsArePositive DEF BridgeInv, QueueOK
    <2>3. QueueOK'
      BY <1>1, <2>1, <2>2 DEF BridgeInv, QueueOK
    <2> QED BY <1>1, <2>1, <2>3 DEF BridgeInv, BridgeTypes
  <1> DEFINE t == WakePutter
  <1>3. /\ t \in Seq(Items)
        /\ \A k, c : HasIn(t, k, c) =>
               k = "step" /\ c = holder /\ c \in Chunks /\ place[c] = "put" /\ ~Has("step", c)
        /\ \A k, c, l, d : ~BeforeIn(t, k, c, l, d)
    BY WakePutterFacts DEF BridgeInv
  <1> HIDE DEF t
  <1>4. ready \in Seq(Items) /\ ready' = ready \o t
    BY <1>1 DEF BridgeInv, BridgeTypes, t
  <1>5. /\ ready' \in Seq(Items)
        /\ \A l, d : Has(l, d)' <=> Has(l, d) \/ HasIn(t, l, d)
        /\ \A l, d, m, e : Before(l, d, m, e)' <=>
               \/ Before(l, d, m, e) \/ BeforeIn(t, l, d, m, e)
               \/ Has(l, d) /\ HasIn(t, m, e)
    BY <1>3, <1>4, Appends
  <1>6. TurnOK'
    <2>1. worker' = worker
      BY <1>1
    <2>2. /\ Has("turn", 0)' <=> Has("turn", 0)
          /\ Before("turn", 0, "turn", 0)' <=> Before("turn", 0, "turn", 0)
          /\ \A d \in Chunks :
                /\ Has("deliver", d)' <=> Has("deliver", d)
                /\ Before("turn", 0, "deliver", d)' <=> Before("turn", 0, "deliver", d)
      BY <1>3, <1>5
    <2> QED BY <2>1, <2>2 DEF BridgeInv, TurnOK
  <1>7. \A d \in Chunks :
            /\ Has("deliver", d)' <=> Has("deliver", d)
            /\ Has("step", d)' => Has("step", d) \/ place[d] = "put"
            /\ Has("done", d)' => Has("done", d)
            /\ Has("cancel", d)' => Has("cancel", d)
            /\ \A l \in {"deliver", "step", "done"} : ~Before(l, d, l, d)'
    BY <1>3, <1>5 DEF BridgeInv, PlacesOK
  <1> QED BY <1>1, <1>2, <1>5, <1>6, <1>7, TrackMoves

\* What the three things that a delivery's step can do have in common: only the
\* delivery's own place changes, and it wakes at most the head of the waiters.
LEMMA StepMoves ==
  ASSUME BridgeInv, UNCHANGED <<bridge, pending, worker, submitted, gen, future, ended, shown>>,
         NEW c \in Chunks, ready # <<>>, Head(ready) = <<"step", c>>,
         NEW p \in {"lock", "put", "over"}, place' = [place EXCEPT ![c] = p],
         NEW t \in Seq(Items), ready' = Tail(ready) \o t,
         \A l \in {"deliver", "turn", "cancel"} : \A d : ~HasIn(t, l, d),
         \A d : HasIn(t, "step", d) => d # c /\ ~Has("step", d),
         \A d \in Chunks : HasIn(t, "step", d) => place[d] = "lock",
         \A d : HasIn(t, "done", d) => d = c /\ p = "over",
         \A l \in {"step", "done"} : \A d : ~BeforeIn(t, l, d, l, d)
  PROVE  /\ BridgeTypes' /\ PendingOK' /\ WorkerOK' /\ TurnOK' /\ PlacesOK' /\ FuturesOK'
         /\ place' \in [Chunks -> {"none", "created", "new", "lock", "put", "over"}]
         /\ place'[c] = p /\ \A d \in Chunks : d # c => place'[d] = place[d]
         /\ Has("step", c) /\ place[c] \in {"new", "lock", "put"}
         /\ \A d \in Chunks : Has("step", d)' => d # c /\ (Has("step", d) \/ HasIn(t, "step", d))
  <1>1. /\ UNCHANGED <<closeTrack, bridgeClosed, generation, pending, worker, submitted>>
        /\ UNCHANGED <<gen, future, ended, shown>>
    BY DEF bridge
  <1>2. /\ ready' \in Seq(Items) /\ Has("step", c) /\ TurnOK'
        /\ \A l, d : Has(l, d)' => Has(l, d) \/ HasIn(t, l, d)
        /\ \A l, d : Has(l, d) /\ ~(l = "step" /\ d = c) => Has(l, d)'
        /\ \A l, d : HasIn(t, l, d) => Has(l, d)'
        /\ ~Before("step", c, "step", c) /\ ~HasIn(t, "step", c) => ~Has("step", c)'
        /\ \A l \in {"deliver", "step", "done"} : \A d \in Chunks :
               /\ ~HasIn(t, l, d) => ~Before(l, d, l, d)'
               /\ ~Has(l, d) /\ ~BeforeIn(t, l, d, l, d) => ~Before(l, d, l, d)'
    <2>1. /\ worker'.at = worker.at /\ "step" # "turn"
          /\ \A d : ~HasIn(t, "deliver", d) /\ ~HasIn(t, "turn", d)
      BY <1>1
    <2> QED BY <2>1, LoopPops
  <1>3. place[c] \in {"new", "lock", "put"} /\ ~Has("done", c) /\ ~Before("step", c, "step", c)
    BY <1>2 DEF BridgeInv, PlacesOK
  <1>4. /\ place' \in [Chunks -> {"none", "created", "new", "lock", "put", "over"}]
        /\ place'[c] = p /\ \A d \in Chunks : d # c => place'[d] = place[d]
    BY DEF BridgeInv, TaskTypes
  <1>5. ~Has("step", c)'
    BY <1>2, <1>3
  <1>6. \A d \in Chunks : Has("step", d)' => d # c /\ (Has("step", d) \/ HasIn(t, "step", d))
    BY <1>2, <1>5
  <1>7. BridgeTypes'
    BY <1>1, <1>2 DEF BridgeInv, BridgeTypes
  <1>8. PendingOK' /\ WorkerOK'
    BY <1>1 DEF BridgeInv, PendingOK, WorkerOK, Writing
  <1>9. FuturesOK'
    BY <1>1, <1>3, <1>4 DEF BridgeInv, FuturesOK, Live
  <1>10. PlacesOK'
    <2>1. ASSUME NEW d \in Chunks
          PROVE  /\ d <= submitted' <=> place'[d] # "none"
                 /\ Has("deliver", d)' <=> place'[d] = "created"
                 /\ Has("step", d)' => place'[d] \in {"new", "lock", "put"}
                 /\ Has("done", d)' => place'[d] = "over"
                 /\ Has("cancel", d)' => place'[d] \notin {"none", "created"}
      <3>1. /\ Has("deliver", d)' <=> Has("deliver", d)
            /\ Has("cancel", d)' => Has("cancel", d)
            /\ Has("done", d)' => Has("done", d) \/ (d = c /\ p = "over")
        <4>1. ~HasIn(t, "deliver", d) /\ ~HasIn(t, "cancel", d)
          OBVIOUS
        <4> QED BY <1>2, <4>1
      <3>2. CASE d = c
        BY <1>1, <1>3, <1>4, <1>5, <3>1, <3>2 DEF BridgeInv, PlacesOK
      <3>3. CASE d # c
        BY <1>1, <1>4, <1>6, <3>1, <3>3 DEF BridgeInv, PlacesOK
      <3> QED BY <3>2, <3>3
    <2>2. ASSUME NEW d \in Chunks, NEW k \in {"deliver", "step", "done"}
          PROVE  ~Before(k, d, k, d)'
      <3>1. CASE k = "deliver"
        <4>1. ~HasIn(t, "deliver", d)
          OBVIOUS
        <4> QED BY <1>2, <3>1, <4>1
      <3>2. CASE k = "step"
        <4>1. ~BeforeIn(t, "step", d, "step", d)
          OBVIOUS
        <4>2. CASE HasIn(t, "step", d)
          BY <1>2, <3>2, <4>1, <4>2
        <4>3. CASE ~HasIn(t, "step", d)
          BY <1>2, <3>2, <4>3
        <4> QED BY <4>2, <4>3
      <3>3. CASE k = "done"
        <4>1. ~BeforeIn(t, "done", d, "done", d)
          OBVIOUS
        <4>2. CASE HasIn(t, "done", d)
          BY <1>2, <1>3, <3>3, <4>1, <4>2
        <4>3. CASE ~HasIn(t, "done", d)
          BY <1>2, <3>3, <4>3
        <4> QED BY <4>2, <4>3
      <3> QED BY <3>1, <3>2, <3>3
    <2> QED BY <2>1, <2>2 DEF PlacesOK
  <1> QED BY <1>2, <1>3, <1>4, <1>6, <1>7, <1>8, <1>9, <1>10

\* Who leaves the queue for the lock leaves the others in it.
LEMMA WaitersLeft ==
  ASSUME BridgeInv, NEW c \in Chunks, waiters' = RemoveFirst(waiters, c)
  PROVE  /\ waiters' \in Seq(Chunks)
         /\ \A i, j \in 1 .. Len(waiters') : waiters'[i] = waiters'[j] => i = j
         /\ \A d \in Chunks : (\E i \in 1 .. Len(waiters') : waiters'[i] = d) <=>
                                 place[d] = "lock" /\ d # c
         /\ waiters # <<>> /\ waiters[1] # c => waiters' # <<>> /\ waiters'[1] = waiters[1]
         /\ (\A i, j \in 1 .. Len(waiters) : i < j => waiters[i] < waiters[j]) =>
               \A i, j \in 1 .. Len(waiters') : i < j => waiters'[i] < waiters'[j]
  <1> DEFINE rest == RemoveFirst(waiters, c)
  <1>1. /\ waiters \in Seq(Chunks)
        /\ \A i, j \in 1 .. Len(waiters) : waiters[i] = waiters[j] => i = j
    BY DEF BridgeInv, LockOK
  <1>2. /\ rest \in Seq(Chunks)
        /\ \A i, j \in 1 .. Len(rest) : rest[i] = rest[j] => i = j
        /\ \A d : (\E i \in 1 .. Len(rest) : rest[i] = d) <=>
                     (\E i \in 1 .. Len(waiters) : waiters[i] = d) /\ d # c
        /\ waiters # <<>> /\ waiters[1] # c => rest # <<>> /\ rest[1] = waiters[1]
        /\ (\A i, j \in 1 .. Len(waiters) : i < j => waiters[i] < waiters[j]) =>
               \A i, j \in 1 .. Len(rest) : i < j => rest[i] < rest[j]
    BY <1>1, RemoveWaiter
  <1>3. \A d \in Chunks : (\E i \in 1 .. Len(waiters) : waiters[i] = d) <=> place[d] = "lock"
    BY DEF BridgeInv, LockOK
  <1>4. waiters' = rest
    OBVIOUS
  <1> HIDE DEF rest
  <1>5. \A d \in Chunks : (\E i \in 1 .. Len(rest) : rest[i] = d) <=>
                             place[d] = "lock" /\ d # c
    BY <1>2, <1>3
  <1> QED BY <1>2, <1>4, <1>5

LEMMA AbortsItems ==
  ASSUME BridgeInv, NEW c \in Chunks, Aborts(c)
  PROVE  \E t \in Seq(Items) :
            /\ ready' = Tail(ready) \o t
            /\ \A k, d : HasIn(t, k, d) =>
                  \/ /\ k = "step" /\ d \in Chunks /\ d # c /\ place[d] = "lock"
                     /\ ~Has("step", d) /\ holder' = Nobody /\ waiters'[1] = d
                  \/ k = "done" /\ d = c
            /\ HasIn(t, "done", c)
            /\ \A k, d : ~BeforeIn(t, k, d, k, d)
  <1> DEFINE released == holder' = Nobody /\ place[c] # "new"
             w == IF released THEN WakeFirst(waiters') ELSE <<>>
             one == << <<"done", c>> >>
             t == w \o one
  <1>1. waiters' = RemoveFirst(waiters, c) /\ ready' = Tail(ready) \o t
    BY DEF Aborts, Then
  <1>2. /\ waiters' \in Seq(Chunks)
        /\ \A d \in Chunks : (\E i \in 1 .. Len(waiters') : waiters'[i] = d) <=>
                                place[d] = "lock" /\ d # c
    BY <1>1, WaitersLeft
  <1>3. /\ w \in Seq(Items)
        /\ \A k, d : HasIn(w, k, d) =>
              /\ k = "step" /\ released /\ waiters' # <<>> /\ d = waiters'[1]
              /\ d \in Chunks /\ ~Has("step", d)
        /\ \A k, d, l, e : ~BeforeIn(w, k, d, l, e)
    <2>1. CASE released
      <3>1. w = WakeFirst(waiters')
        BY <2>1
      <3> HIDE DEF w, released
      <3> QED BY <1>2, <2>1, <3>1, WakeFirstFacts
    <2>2. CASE ~released
      <3>1. w = <<>>
        BY <2>2
      <3> HIDE DEF w, released
      <3> QED BY <2>2, <3>1, ItemsOf, NoItem
    <2> QED BY <2>1, <2>2
  <1>4. /\ one \in Seq(Items) /\ \A k, d : HasIn(one, k, d) <=> k = "done" /\ d = c
        /\ \A k, d, l, e : ~BeforeIn(one, k, d, l, e)
    <2>1. one \in Seq(Items)
      BY ItemsOf
    <2> QED BY <2>1, OneItem
  <1> HIDE DEF w, one, released
  <1>5. /\ t \in Seq(Items)
        /\ \A k, d : HasIn(t, k, d) <=> HasIn(w, k, d) \/ HasIn(one, k, d)
        /\ \A k, d, l, e : BeforeIn(t, k, d, l, e) <=>
               \/ BeforeIn(w, k, d, l, e) \/ BeforeIn(one, k, d, l, e)
               \/ HasIn(w, k, d) /\ HasIn(one, l, e)
    BY <1>3, <1>4, Concatenation
  <1> HIDE DEF t
  <1>6. ASSUME NEW k, NEW d, HasIn(w, k, d)
        PROVE  /\ k = "step" /\ d \in Chunks /\ d # c /\ place[d] = "lock"
               /\ ~Has("step", d) /\ holder' = Nobody /\ waiters'[1] = d
    <2>1. waiters' # <<>> /\ d = waiters'[1] /\ d \in Chunks /\ k = "step" /\ ~Has("step", d)
      BY <1>3, <1>6
    <2>2. \E i \in 1 .. Len(waiters') : waiters'[i] = d
      BY <1>2, <2>1
    <2>3. holder' = Nobody
      BY <1>3, <1>6 DEF released
    <2> QED BY <1>2, <2>1, <2>2, <2>3
  <1>7. \A k, d : ~BeforeIn(t, k, d, k, d)
    BY <1>3, <1>4, <1>5
  <1>8. /\ \A k, d : HasIn(t, k, d) =>
              \/ /\ k = "step" /\ d \in Chunks /\ d # c /\ place[d] = "lock"
                 /\ ~Has("step", d) /\ holder' = Nobody /\ waiters'[1] = d
              \/ k = "done" /\ d = c
        /\ HasIn(t, "done", c)
    BY <1>4, <1>5, <1>6
  <1> QED BY <1>1, <1>5, <1>7, <1>8

LEMMA AbortsStays ==
  ASSUME BridgeInv, UNCHANGED <<bridge, pending, worker, submitted, gen, future, ended, shown>>,
         NEW c \in Chunks, ready # <<>>, Head(ready) = <<"step", c>>, Aborts(c)
  PROVE  BridgeInv'
  <1>1. /\ place' = [place EXCEPT ![c] = "over"] /\ must' = [must EXCEPT ![c] = TRUE]
        /\ waiters' = RemoveFirst(waiters, c)
        /\ holder' = IF holder = c THEN Nobody ELSE holder
        /\ left' = left /\ queue' = queue
    BY DEF Aborts, Over
  <1>2. /\ waiters' \in Seq(Chunks)
        /\ \A i, j \in 1 .. Len(waiters') : waiters'[i] = waiters'[j] => i = j
        /\ \A d \in Chunks : (\E i \in 1 .. Len(waiters') : waiters'[i] = d) <=>
                                place[d] = "lock" /\ d # c
        /\ waiters # <<>> /\ waiters[1] # c => waiters' # <<>> /\ waiters'[1] = waiters[1]
    BY <1>1, WaitersLeft
  <1>3. PICK t \in Seq(Items) :
            /\ ready' = Tail(ready) \o t
            /\ \A k, d : HasIn(t, k, d) =>
                  \/ /\ k = "step" /\ d \in Chunks /\ d # c /\ place[d] = "lock"
                     /\ ~Has("step", d) /\ holder' = Nobody /\ waiters'[1] = d
                  \/ k = "done" /\ d = c
            /\ HasIn(t, "done", c)
            /\ \A k, d : ~BeforeIn(t, k, d, k, d)
    BY AbortsItems
  <1>7. /\ BridgeTypes' /\ PendingOK' /\ WorkerOK' /\ TurnOK' /\ PlacesOK' /\ FuturesOK'
        /\ place' \in [Chunks -> {"none", "created", "new", "lock", "put", "over"}]
        /\ place'[c] = "over" /\ \A d \in Chunks : d # c => place'[d] = place[d]
        /\ Has("step", c) /\ place[c] \in {"new", "lock", "put"}
        /\ \A d \in Chunks : Has("step", d)' => d # c /\ (Has("step", d) \/ HasIn(t, "step", d))
    <2>1. /\ \A l \in {"deliver", "turn", "cancel"} : \A d : ~HasIn(t, l, d)
          /\ \A d : HasIn(t, "step", d) => d # c /\ ~Has("step", d)
          /\ \A d \in Chunks : HasIn(t, "step", d) => place[d] = "lock"
          /\ \A d : HasIn(t, "done", d) => d = c
          /\ \A l \in {"step", "done"} : \A d : ~BeforeIn(t, l, d, l, d)
      <3>1. \A l \in {"deliver", "turn", "cancel"} : \A d : ~HasIn(t, l, d)
        BY <1>3
      <3>2. \A d : HasIn(t, "step", d) => d # c /\ ~Has("step", d) /\ place[d] = "lock"
        BY <1>3
      <3>3. \A d : HasIn(t, "done", d) => d = c
        BY <1>3
      <3> QED BY <1>3, <3>1, <3>2, <3>3
    <2> DEFINE p == "over"
    <2>2. p \in {"lock", "put", "over"} /\ place' = [place EXCEPT ![c] = p] /\ p = "over"
      BY <1>1
    <2> HIDE DEF p
    <2>3. ready' = Tail(ready) \o t
      BY <1>3
    <2> QED BY <2>1, <2>2, <2>3, StepMoves
  <1>8. /\ must' \in [Chunks -> BOOLEAN]
        /\ \A d \in Chunks : d # c => must'[d] = must[d]
    BY <1>1 DEF BridgeInv, TaskTypes
  <1>9. TaskTypes' /\ QueueOK'
    BY <1>1, <1>7, <1>8 DEF BridgeInv, TaskTypes, QueueOK
  <1>10. LockOK'
    <2>1. c # Nobody /\ holder \in Chunks \cup {Nobody} /\ holder' \in Chunks \cup {Nobody}
      BY <1>1 DEF Chunks, Nobody, BridgeInv, LockOK
    <2>2. ASSUME NEW d \in Chunks
          PROVE  /\ (\E i \in 1 .. Len(waiters') : waiters'[i] = d) <=> place'[d] = "lock"
                 /\ holder' = d <=> place'[d] = "put"
                 /\ place'[d] = "put" => left'[d] > 0
      <3>0. d # Nobody
        BY DEF Chunks, Nobody
      <3>1. (\E i \in 1 .. Len(waiters') : waiters'[i] = d) <=> place'[d] = "lock"
        <4>1. (\E i \in 1 .. Len(waiters') : waiters'[i] = d) <=> place[d] = "lock" /\ d # c
          BY <1>2
        <4> QED BY <1>7, <4>1
      <3>2. holder' = d <=> place'[d] = "put"
        BY <1>1, <1>7, <2>1, <3>0 DEF BridgeInv, LockOK
      <3>3. place'[d] = "put" => left'[d] > 0
        BY <1>1, <1>7 DEF BridgeInv, LockOK
      <3> QED BY <3>1, <3>2, <3>3
    <2>3. ASSUME NEW d \in Chunks, Has("step", d)', place'[d] = "lock", ~must'[d]
          PROVE  holder' = Nobody /\ waiters'[1] = d
      <3>1. d # c /\ (Has("step", d) \/ HasIn(t, "step", d))
        BY <1>7, <2>3
      <3>2. CASE HasIn(t, "step", d)
        BY <1>3, <3>2
      <3>3. CASE Has("step", d)
        <4>1. place[d] = "lock" /\ ~must[d]
          BY <1>7, <1>8, <2>3, <3>1
        <4>2. holder = Nobody /\ waiters[1] = d /\ \E i \in 1 .. Len(waiters) : waiters[i] = d
          BY <3>3, <4>1 DEF BridgeInv, LockOK
        <4>3. waiters # <<>>
          BY <4>2
        <4> QED BY <1>1, <1>2, <2>1, <3>1, <4>2, <4>3
      <3> QED BY <3>1, <3>2, <3>3
    <2> QED BY <1>2, <2>1, <2>2, <2>3 DEF LockOK
  <1> QED BY <1>7, <1>9, <1>10 DEF BridgeInv

LEMMA WaitsStays ==
  ASSUME BridgeInv, UNCHANGED <<bridge, pending, worker, submitted, gen, future, ended, shown>>,
         NEW c \in Chunks, ready # <<>>, Head(ready) = <<"step", c>>, Waits(c)
  PROVE  BridgeInv'
  <1> DEFINE t == <<>>
             p == "lock"
  <1>1. /\ place' = [place EXCEPT ![c] = p] /\ waiters' = Append(waiters, c)
        /\ UNCHANGED <<left, must, holder, queue>> /\ place[c] = "new"
        /\ ready' = Tail(ready) \o t /\ p = "lock"
    BY DEF Waits, Then
  <1>2. t \in Seq(Items) /\ (\A k, d : ~HasIn(t, k, d)) /\ \A k, d, l, e : ~BeforeIn(t, k, d, l, e)
    BY ItemsOf, NoItem
  <1> HIDE DEF t, p
  <1>3. /\ BridgeTypes' /\ PendingOK' /\ WorkerOK' /\ TurnOK' /\ PlacesOK' /\ FuturesOK'
        /\ place' \in [Chunks -> {"none", "created", "new", "lock", "put", "over"}]
        /\ place'[c] = p /\ \A d \in Chunks : d # c => place'[d] = place[d]
        /\ Has("step", c) /\ place[c] \in {"new", "lock", "put"}
        /\ \A d \in Chunks : Has("step", d)' => d # c /\ (Has("step", d) \/ HasIn(t, "step", d))
    <2>1. p \in {"lock", "put", "over"}
      BY <1>1
    <2> QED BY <1>1, <1>2, <2>1, StepMoves
  <1>4. TaskTypes' /\ QueueOK'
    BY <1>1, <1>3 DEF BridgeInv, TaskTypes, QueueOK
  <1>5. /\ waiters \in Seq(Chunks) /\ Len(waiters) \in Nat
        /\ waiters' \in Seq(Chunks) /\ Len(waiters') = Len(waiters) + 1
        /\ waiters'[Len(waiters) + 1] = c
        /\ \A i \in 1 .. Len(waiters) : waiters'[i] = waiters[i]
    <2>1. waiters \in Seq(Chunks)
      BY DEF BridgeInv, LockOK
    <2> QED BY <1>1, <2>1, AppendProperties
  <1>6. \A i \in 1 .. Len(waiters) : waiters[i] # c
    BY <1>1 DEF BridgeInv, LockOK
  <1>7. LockOK'
    <2>1. ASSUME NEW i \in 1 .. Len(waiters'), NEW j \in 1 .. Len(waiters'),
                 waiters'[i] = waiters'[j]
          PROVE  i = j
      <3>1. i \in 1 .. Len(waiters) \/ i = Len(waiters) + 1
        BY <1>5
      <3>2. j \in 1 .. Len(waiters) \/ j = Len(waiters) + 1
        BY <1>5
      <3>3. \A m, n \in 1 .. Len(waiters) : waiters[m] = waiters[n] => m = n
        BY DEF BridgeInv, LockOK
      <3> QED BY <1>5, <1>6, <2>1, <3>1, <3>2, <3>3
    <2>2. ASSUME NEW d \in Chunks
          PROVE  (\E i \in 1 .. Len(waiters') : waiters'[i] = d) <=> place'[d] = "lock"
      <3>1. (\E i \in 1 .. Len(waiters') : waiters'[i] = d)
               <=> d = c \/ \E i \in 1 .. Len(waiters) : waiters[i] = d
        <4>1. 1 .. Len(waiters') = 1 .. Len(waiters) \cup {Len(waiters) + 1}
          BY <1>5
        <4> QED BY <1>5, <4>1
      <3> QED BY <1>1, <1>3, <3>1 DEF BridgeInv, LockOK
    <2>3. ASSUME NEW d \in Chunks
          PROVE  (holder' = d <=> place'[d] = "put") /\ (place'[d] = "put" => left'[d] > 0)
      BY <1>1, <1>3 DEF BridgeInv, LockOK
    <2>4. ASSUME NEW d \in Chunks, Has("step", d)', place'[d] = "lock", ~must'[d]
          PROVE  holder' = Nobody /\ waiters'[1] = d
      <3>1. d # c /\ Has("step", d) /\ place[d] = "lock" /\ ~must[d]
        BY <1>1, <1>2, <1>3, <2>4
      <3>2. holder = Nobody /\ waiters[1] = d /\ \E i \in 1 .. Len(waiters) : waiters[i] = d
        BY <3>1 DEF BridgeInv, LockOK
      <3>3. 1 \in 1 .. Len(waiters)
        BY <1>5, <3>2
      <3> QED BY <1>1, <1>5, <3>2, <3>3
    <2>5. holder' \in Chunks \cup {Nobody}
      BY <1>1 DEF BridgeInv, LockOK
    <2> QED BY <1>5, <2>1, <2>2, <2>3, <2>4, <2>5 DEF LockOK
  <1> QED BY <1>3, <1>4, <1>7 DEF BridgeInv

LEMMA LesserOf ==
  ASSUME NEW a \in Int, NEW b \in Int
  PROVE  Min({a, b}) = IF a <= b THEN a ELSE b
  <1>1. CASE a <= b
    <2>1. \A x \in {a, b} : (\A y \in {a, b} : x <= y) <=> x = a
      BY <1>1
    <2> QED BY <1>1, <2>1 DEF Min
  <1>2. CASE ~(a <= b)
    <2>1. \A x \in {a, b} : (\A y \in {a, b} : x <= y) <=> x = b
      BY <1>2
    <2> QED BY <1>2, <2>1 DEF Min
  <1> QED BY <1>1, <1>2

\* The frames `q' are those of `s' or of `c', in their order and those of c last.
FramesFrom(q, s, c) ==
    \A i \in 1 .. Len(q) : q[i] = c \/ \E j \in 1 .. Len(s) : q[i] = s[j]
OrderFrom(q, s, c) ==
    \A i, j \in 1 .. Len(q) : i < j =>
       q[j] = c \/ \E l, m \in 1 .. Len(s) : l < m /\ q[i] = s[l] /\ q[j] = s[m]

LEMMA Followed ==
  ASSUME NEW S, NEW s \in Seq(S), NEW more \in Seq(S), NEW c \in S,
         \A i \in 1 .. Len(more) : more[i] = c
  PROVE  /\ s \o more \in Seq(S) /\ Len(s \o more) = Len(s) + Len(more)
         /\ FramesFrom(s \o more, s, c) /\ OrderFrom(s \o more, s, c)
  <1> DEFINE q == s \o more
             n == Len(more)
  <1>1. q = s \o more /\ more \in Seq(S) /\ Len(more) = n /\ n \in Nat
        /\ \A i \in 1 .. n : more[i] = c
    OBVIOUS
  <1> HIDE DEF q, n
  <1>2. Len(s) \in Nat
    OBVIOUS
  <1>3. /\ q \in Seq(S) /\ Len(q) = Len(s) + Len(more)
        /\ \A i \in 1 .. Len(s) + Len(more) :
              q[i] = IF i <= Len(s) THEN s[i] ELSE more[i - Len(s)]
    <2>1. s \in Seq(S) /\ more \in Seq(S)
      OBVIOUS
    <2>2. /\ s \o more \in Seq(S) /\ Len(s \o more) = Len(s) + Len(more)
          /\ \A i \in 1 .. Len(s) + Len(more) :
                (s \o more)[i] = IF i <= Len(s) THEN s[i] ELSE more[i - Len(s)]
      BY <2>1, ConcatProperties
    <2> QED BY <1>1, <2>2
  <1>4. ASSUME NEW i \in 1 .. Len(q)
        PROVE  (i \in 1 .. Len(s) /\ q[i] = s[i]) \/ (i > Len(s) /\ q[i] = c)
    <2>1. CASE i <= Len(s)
      BY <1>1, <1>2, <1>3, <2>1
    <2>2. CASE ~(i <= Len(s))
      <3>1. i - Len(s) \in 1 .. n /\ i > Len(s)
        BY <1>1, <1>2, <1>3, <2>2
      <3> QED BY <1>1, <1>3, <2>2, <3>1
    <2> QED BY <2>1, <2>2
  <1>5. ASSUME NEW i \in 1 .. Len(q), NEW j \in 1 .. Len(q), i < j
        PROVE  q[j] = c \/ \E l, m \in 1 .. Len(s) : l < m /\ q[i] = s[l] /\ q[j] = s[m]
    <2>1. CASE j > Len(s)
      BY <1>2, <1>4, <2>1
    <2>2. CASE j \in 1 .. Len(s)
      <3>1. i \in 1 .. Len(s)
        BY <1>2, <1>3, <1>5, <2>2
      <3>2. q[i] = s[i] /\ q[j] = s[j]
        BY <1>2, <1>4, <2>2, <3>1
      <3> QED BY <1>5, <2>2, <3>1, <3>2
    <2> QED BY <1>4, <2>1, <2>2
  <1>6. FramesFrom(q, s, c)
    BY <1>4 DEF FramesFrom
  <1>7. OrderFrom(q, s, c)
    BY <1>5 DEF OrderFrom
  <1> QED BY <1>1, <1>3, <1>6, <1>7 DEF q

\* What a delivery may put: as many frames as fit, and never below zero.
LEMMA PutsFacts ==
  ASSUME BridgeInv, NEW c \in Chunks, Puts(c), Has("step", c)
  PROVE  /\ waiters' = RemoveFirst(waiters, c)
         /\ holder \in {Nobody, c}
         /\ \A d \in Chunks : d # c /\ place[d] = "lock" /\ Has("step", d) => must[d]
         /\ QueueOK'
         /\ FramesFrom(queue', queue, c) /\ OrderFrom(queue', queue, c)
         /\ ~must[c] /\ (place[c] = "put" \/ ~Stale(c))
         /\ left' \in [Chunks -> 0 .. FrameCount]
         /\ \A d \in Chunks : d # c => left'[d] = left[d]
         /\ \/ /\ place' = [place EXCEPT ![c] = "put"]
               /\ holder' = c /\ must' = must /\ left'[c] > 0
               /\ ready' = Tail(ready) \o <<>>
            \/ /\ place' = [place EXCEPT ![c] = "over"]
               /\ holder' = Nobody /\ must' = [must EXCEPT ![c] = Stale(c)]
               /\ ready' = Tail(ready) \o
                      (WakeFirst(waiters') \o (IF Stale(c) THEN Flush(c) ELSE <<>>)
                        \o << <<"done", c>> >>)
  <1> DEFINE granted == place[c] = "lock" \/ (place[c] = "new" /\ LockIsFree)
             kept == IF granted /\ Len(queue) >= FrameCount /\ ~ended THEN <<>> ELSE queue
             wanted == IF ~ended THEN left[c] ELSE IF granted THEN 0 ELSE 1
             put == Min({wanted, MaxSize - Len(kept)})
             rest == RemoveFirst(waiters, c)
  <1>1. /\ ~must[c] /\ ((granted /\ ~Stale(c)) \/ place[c] = "put")
        /\ queue' = kept \o [i \in 1 .. put |-> c]
        /\ left' = [left EXCEPT ![c] = @ - put]
        /\ waiters' = rest
        /\ put < wanted => /\ place' = [place EXCEPT ![c] = "put"]
                           /\ holder' = c /\ must' = must
                           /\ ready' = Tail(ready) \o <<>>
        /\ ~(put < wanted) =>
              /\ place' = [place EXCEPT ![c] = "over"]
              /\ holder' = Nobody /\ must' = [must EXCEPT ![c] = Stale(c)]
              /\ ready' = Tail(ready) \o
                      (WakeFirst(rest) \o (IF Stale(c) THEN Flush(c) ELSE <<>>)
                        \o << <<"done", c>> >>)
    BY DEF Puts, Over, Then
  <1>2. /\ kept \in Seq(0 .. MaxChunks) /\ Len(kept) \in Nat /\ Len(kept) <= MaxSize
        /\ ended => kept = queue
        /\ MaxSize \in Nat \ {0} /\ FrameCount \in Nat \ {0}
    <2>1. /\ queue \in Seq(0 .. MaxChunks) /\ Len(queue) \in Nat /\ Len(queue) <= MaxSize
          /\ <<>> \in Seq(0 .. MaxChunks) /\ Len(<<>>) = 0
      BY DEF BridgeInv, QueueOK
    <2>2. MaxSize \in Nat \ {0} /\ FrameCount \in Nat \ {0}
      BY BoundsArePositive
    <2>3. kept \in {queue, <<>>} /\ (ended => kept = queue)
      OBVIOUS
    <2> HIDE DEF kept
    <2>4. CASE kept = queue
      BY <2>1, <2>2, <2>3, <2>4
    <2>5. CASE kept = <<>>
      <3>1. Len(kept) = 0 /\ 0 <= MaxSize /\ kept \in Seq(0 .. MaxChunks)
        BY <2>1, <2>2, <2>5
      <3> QED BY <2>2, <2>3, <3>1
    <2> QED BY <2>3, <2>4, <2>5
  <1>3. left \in [Chunks -> 0 .. FrameCount] /\ left[c] \in 0 .. FrameCount
    BY DEF BridgeInv, TaskTypes
  <1>4. place[c] = "put" => left[c] > 0
    BY DEF BridgeInv, LockOK
  <1>5. wanted \in Nat
    BY <1>3
  <1>6. put = IF wanted <= MaxSize - Len(kept) THEN wanted ELSE MaxSize - Len(kept)
    <2>1. wanted \in Int /\ MaxSize - Len(kept) \in Int
      BY <1>2, <1>5
    <2> HIDE DEF wanted, kept
    <2> QED BY <2>1, LesserOf
  <1>7. put \in Nat /\ put <= wanted /\ Len(kept) + put <= MaxSize
    <2> HIDE DEF wanted, kept, put
    <2> QED BY <1>2, <1>5, <1>6
  <1>8. /\ put <= left[c]
        /\ put < wanted => left[c] - put > 0
    <2>1. CASE ~ended
      <3>1. wanted = left[c]
        BY <2>1
      <3> HIDE DEF wanted, kept, put
      <3> QED BY <1>3, <1>7, <3>1
    <2>2. CASE ended /\ granted
      <3>1. wanted = 0
        BY <2>2
      <3> HIDE DEF wanted, kept, put
      <3> QED BY <1>3, <1>7, <3>1
    <2>3. CASE ended /\ ~granted
      <3>1. wanted = 1 /\ left[c] > 0
        BY <1>1, <1>4, <2>3
      <3> HIDE DEF wanted, kept, put
      <3> QED BY <1>3, <1>7, <3>1
    <2> QED BY <2>1, <2>2, <2>3
  <1>9. QueueOK' /\ FramesFrom(queue', queue, c) /\ OrderFrom(queue', queue, c)
    <2> DEFINE S == 0 .. MaxChunks
               more == [i \in 1 .. put |-> c]
    <2>1. kept = <<>> \/ kept = queue
      OBVIOUS
    <2>2. queue' = kept \o more
      BY <1>1
    <2> HIDE DEF kept, put, wanted
    <2>3. kept \in Seq(S) /\ c \in S /\ put \in Nat
      BY <1>2, <1>7, BoundsArePositive DEF Chunks
    <2> HIDE DEF S
    <2>4. more \in Seq(S) /\ Len(more) = put /\ \A i \in 1 .. Len(more) : more[i] = c
      BY <2>3
    <2> HIDE DEF more
    <2>5. /\ kept \o more \in Seq(S) /\ Len(kept \o more) = Len(kept) + Len(more)
          /\ FramesFrom(kept \o more, kept, c) /\ OrderFrom(kept \o more, kept, c)
      BY <2>3, <2>4, Followed
    <2>6. queue' \in Seq(S) /\ Len(queue') = Len(kept) + put
      BY <2>2, <2>4, <2>5
    <2>7. QueueOK'
      BY <1>2, <1>7, <2>6 DEF QueueOK, S
    <2>8. FramesFrom(queue', kept, c) /\ OrderFrom(queue', kept, c)
      BY <2>2, <2>5
    <2>9. CASE kept = queue
      BY <2>7, <2>8, <2>9
    <2>10. CASE kept = <<>>
      <3>1. \A j : j \notin 1 .. Len(kept)
        BY <2>10
      <3>2. \A i \in 1 .. Len(queue') : queue'[i] = c
        BY <2>8, <3>1 DEF FramesFrom
      <3>3. FramesFrom(queue', queue, c) /\ OrderFrom(queue', queue, c)
        BY <3>2 DEF FramesFrom, OrderFrom
      <3> QED BY <2>7, <3>3
    <2> QED BY <2>1, <2>9, <2>10
  <1>10. /\ left' \in [Chunks -> 0 .. FrameCount] /\ left'[c] = left[c] - put
         /\ \A d \in Chunks : d # c => left'[d] = left[d]
    <2> HIDE DEF put
    <2>1. left[c] - put \in 0 .. FrameCount
      BY <1>2, <1>3, <1>7, <1>8
    <2>2. left' = [left EXCEPT ![c] = left[c] - put]
      BY <1>1
    <2> QED BY <1>3, <2>1, <2>2
  <1>11. /\ holder \in {Nobody, c}
         /\ \A d \in Chunks : d # c /\ place[d] = "lock" /\ Has("step", d) => must[d]
    <2>1. CASE place[c] = "put"
      <3>1. holder = c /\ c # Nobody
        BY <2>1 DEF BridgeInv, LockOK, Chunks, Nobody
      <3> QED BY <3>1 DEF BridgeInv, LockOK
    <2>2. CASE place[c] = "lock"
      <3>1. holder = Nobody /\ waiters[1] = c
        BY <1>1, <2>2 DEF BridgeInv, LockOK
      <3> QED BY <3>1 DEF BridgeInv, LockOK
    <2>3. CASE place[c] = "new" /\ LockIsFree
      <3>1. holder = Nobody /\ waiters = <<>>
        BY <2>3 DEF LockIsFree
      <3>2. \A d \in Chunks : place[d] # "lock"
        BY <3>1 DEF BridgeInv, LockOK
      <3> QED BY <3>1, <3>2
    <2> QED BY <1>1, <2>1, <2>2, <2>3
  <1>12. \/ /\ place' = [place EXCEPT ![c] = "put"]
            /\ holder' = c /\ must' = must /\ left'[c] > 0
            /\ ready' = Tail(ready) \o <<>>
         \/ /\ place' = [place EXCEPT ![c] = "over"]
            /\ holder' = Nobody /\ must' = [must EXCEPT ![c] = Stale(c)]
            /\ ready' = Tail(ready) \o
                   (WakeFirst(waiters') \o (IF Stale(c) THEN Flush(c) ELSE <<>>)
                     \o << <<"done", c>> >>)
    <2> HIDE DEF put, wanted
    <2>1. CASE put < wanted
      BY <1>1, <1>8, <1>10, <2>1
    <2>2. CASE ~(put < wanted)
      BY <1>1, <2>2
    <2> QED BY <2>1, <2>2
  <1>13. ~must[c] /\ (place[c] = "put" \/ ~Stale(c)) /\ waiters' = RemoveFirst(waiters, c)
    BY <1>1
  <1> QED BY <1>9, <1>10, <1>11, <1>12, <1>13

LEMMA PutsItems ==
  ASSUME BridgeInv, NEW c \in Chunks, waiters' = RemoveFirst(waiters, c),
         ready' = Tail(ready) \o (WakeFirst(waiters') \o (IF Stale(c) THEN Flush(c) ELSE <<>>)
                                    \o << <<"done", c>> >>)
  PROVE  \E t \in Seq(Items) :
            /\ ready' = Tail(ready) \o t
            /\ \A k, d : HasIn(t, k, d) =>
                  \/ /\ k = "step" /\ d \in Chunks /\ d # c /\ place[d] = "lock"
                     /\ ~Has("step", d) /\ waiters'[1] = d
                  \/ k = "flush" /\ d = c /\ Stale(c)
                  \/ k = "done" /\ d = c
            /\ HasIn(t, "done", c)
            /\ Stale(c) => HasIn(t, "flush", c)
            /\ \A k, d : ~BeforeIn(t, k, d, k, d)
  <1> DEFINE w == WakeFirst(waiters')
             f == IF Stale(c) THEN Flush(c) ELSE <<>>
             one == << <<"done", c>> >>
             wf == w \o f
             t == wf \o one
  <1>1. ready' = Tail(ready) \o t
    OBVIOUS
  <1>2. /\ waiters' \in Seq(Chunks)
        /\ \A d \in Chunks : (\E i \in 1 .. Len(waiters') : waiters'[i] = d) <=>
                                place[d] = "lock" /\ d # c
    BY WaitersLeft
  <1>3. /\ w \in Seq(Items)
        /\ \A k, d : HasIn(w, k, d) =>
               k = "step" /\ waiters' # <<>> /\ d = waiters'[1] /\ d \in Chunks /\ ~Has("step", d)
        /\ \A k, d, l, e : ~BeforeIn(w, k, d, l, e)
    BY <1>2, WakeFirstFacts
  <1>4. /\ f \in Seq(Items) /\ \A k, d : HasIn(f, k, d) <=> k = "flush" /\ d = c /\ Stale(c)
        /\ \A k, d, l, e : ~BeforeIn(f, k, d, l, e)
    <2>1. c \in 0 .. MaxChunks
      BY BoundsArePositive DEF Chunks
    <2>2. << <<"flush", c>> >> \in Seq(Items)
      BY <2>1, ItemsOf
    <2>3. CASE Stale(c)
      BY <2>2, <2>3, OneItem DEF Flush
    <2>4. CASE ~Stale(c)
      BY <2>4, ItemsOf, NoItem
    <2> QED BY <2>3, <2>4
  <1>5. /\ one \in Seq(Items) /\ \A k, d : HasIn(one, k, d) <=> k = "done" /\ d = c
        /\ \A k, d, l, e : ~BeforeIn(one, k, d, l, e)
    <2>1. one \in Seq(Items)
      BY ItemsOf
    <2> QED BY <2>1, OneItem
  <1> HIDE DEF w, f, one
  <1>6. /\ wf \in Seq(Items)
        /\ \A k, d : HasIn(wf, k, d) <=> HasIn(w, k, d) \/ HasIn(f, k, d)
        /\ \A k, d, l, e : BeforeIn(wf, k, d, l, e) <=>
                 \/ BeforeIn(w, k, d, l, e) \/ BeforeIn(f, k, d, l, e)
                 \/ HasIn(w, k, d) /\ HasIn(f, l, e)
    BY <1>3, <1>4, Concatenation
  <1> HIDE DEF wf
  <1>7. /\ t \in Seq(Items)
        /\ \A k, d : HasIn(t, k, d) <=> HasIn(wf, k, d) \/ HasIn(one, k, d)
        /\ \A k, d, l, e : BeforeIn(t, k, d, l, e) <=>
                 \/ BeforeIn(wf, k, d, l, e) \/ BeforeIn(one, k, d, l, e)
                 \/ HasIn(wf, k, d) /\ HasIn(one, l, e)
    BY <1>5, <1>6, Concatenation
  <1> HIDE DEF t
  <1>8. ASSUME NEW k, NEW d, HasIn(w, k, d)
        PROVE  /\ k = "step" /\ d \in Chunks /\ d # c /\ place[d] = "lock"
               /\ ~Has("step", d) /\ waiters'[1] = d
    <2>1. waiters' # <<>> /\ d = waiters'[1] /\ d \in Chunks /\ k = "step" /\ ~Has("step", d)
      BY <1>3, <1>8
    <2>2. \E i \in 1 .. Len(waiters') : waiters'[i] = d
      BY <1>2, <2>1
    <2> QED BY <1>2, <2>1, <2>2
  <1>9. ASSUME NEW k, NEW d PROVE ~BeforeIn(t, k, d, k, d)
    <2>0. ~(HasIn(w, k, d) /\ HasIn(f, k, d))
      BY <1>3, <1>4
    <2>1. ~BeforeIn(wf, k, d, k, d)
      <3>1. ~BeforeIn(w, k, d, k, d) /\ ~BeforeIn(f, k, d, k, d)
        BY <1>3, <1>4
      <3> QED BY <1>6, <2>0, <3>1
    <2>2. ~(HasIn(wf, k, d) /\ HasIn(one, k, d))
      BY <1>3, <1>4, <1>5, <1>6
    <2> QED BY <1>5, <1>7, <2>1, <2>2
  <1>10. ASSUME NEW k, NEW d, HasIn(t, k, d)
         PROVE  \/ /\ k = "step" /\ d \in Chunks /\ d # c /\ place[d] = "lock"
                   /\ ~Has("step", d) /\ waiters'[1] = d
                \/ k = "flush" /\ d = c /\ Stale(c)
                \/ k = "done" /\ d = c
    <2>1. HasIn(w, k, d) \/ HasIn(f, k, d) \/ HasIn(one, k, d)
      BY <1>6, <1>7, <1>10
    <2> QED BY <1>4, <1>5, <1>8, <2>1
  <1>11. HasIn(t, "done", c) /\ (Stale(c) => HasIn(t, "flush", c))
    BY <1>4, <1>5, <1>6, <1>7
  <1> QED BY <1>1, <1>7, <1>9, <1>10, <1>11

LEMMA PutsStays ==
  ASSUME BridgeInv, UNCHANGED <<bridge, pending, worker, submitted, gen, future, ended, shown>>,
         NEW c \in Chunks, ready # <<>>, Head(ready) = <<"step", c>>, Puts(c)
  PROVE  BridgeInv'
  <1>1. Has("step", c)
    <2>1. ready \in Seq(Items)
      BY DEF BridgeInv, BridgeTypes
    <2>2. 1 \in 1 .. Len(ready) /\ ready[1] = <<"step", c>>
      BY <2>1
    <2> QED BY <2>2 DEF Has, HasIn
  <1>2. /\ waiters' = RemoveFirst(waiters, c)
        /\ holder \in {Nobody, c}
        /\ \A d \in Chunks : d # c /\ place[d] = "lock" /\ Has("step", d) => must[d]
        /\ QueueOK'
        /\ left' \in [Chunks -> 0 .. FrameCount]
        /\ \A d \in Chunks : d # c => left'[d] = left[d]
        /\ \/ /\ place' = [place EXCEPT ![c] = "put"]
              /\ holder' = c /\ must' = must /\ left'[c] > 0
              /\ ready' = Tail(ready) \o <<>>
           \/ /\ place' = [place EXCEPT ![c] = "over"]
              /\ holder' = Nobody /\ must' = [must EXCEPT ![c] = Stale(c)]
              /\ ready' = Tail(ready) \o
                     (WakeFirst(waiters') \o (IF Stale(c) THEN Flush(c) ELSE <<>>)
                       \o << <<"done", c>> >>)
    BY <1>1, PutsFacts
  <1>3. /\ waiters' \in Seq(Chunks)
        /\ \A i, j \in 1 .. Len(waiters') : waiters'[i] = waiters'[j] => i = j
        /\ \A d \in Chunks : (\E i \in 1 .. Len(waiters') : waiters'[i] = d) <=>
                                place[d] = "lock" /\ d # c
    BY <1>2, WaitersLeft
  <1>9. CASE /\ place' = [place EXCEPT ![c] = "put"]
             /\ holder' = c /\ must' = must /\ left'[c] > 0
             /\ ready' = Tail(ready) \o <<>>
    <2> DEFINE t == <<>>
               p == "put"
    <2>1. /\ t \in Seq(Items) /\ \A k, d : ~HasIn(t, k, d)
          /\ \A k, d, l, e : ~BeforeIn(t, k, d, l, e)
      BY ItemsOf, NoItem
    <2>2. /\ p \in {"lock", "put", "over"} /\ p = "put"
          /\ place' = [place EXCEPT ![c] = p] /\ ready' = Tail(ready) \o t
      BY <1>9
    <2> HIDE DEF t, p
    <2>3. /\ BridgeTypes' /\ PendingOK' /\ WorkerOK' /\ TurnOK' /\ PlacesOK' /\ FuturesOK'
          /\ place' \in [Chunks -> {"none", "created", "new", "lock", "put", "over"}]
          /\ place'[c] = p /\ \A d \in Chunks : d # c => place'[d] = place[d]
          /\ Has("step", c) /\ place[c] \in {"new", "lock", "put"}
          /\ \A d \in Chunks : Has("step", d)' => d # c /\ (Has("step", d) \/ HasIn(t, "step", d))
      <3>1. /\ \A l \in {"deliver", "turn", "cancel"} : \A d : ~HasIn(t, l, d)
            /\ \A d : HasIn(t, "step", d) => d # c /\ ~Has("step", d)
            /\ \A d \in Chunks : HasIn(t, "step", d) => place[d] = "lock"
            /\ \A d : HasIn(t, "done", d) => d = c
            /\ \A l \in {"step", "done"} : \A d : ~BeforeIn(t, l, d, l, d)
        BY <2>1
      <3> QED BY <2>1, <2>2, <3>1, StepMoves
    <2>4. TaskTypes'
      BY <1>2, <1>9, <2>3 DEF BridgeInv, TaskTypes
    <2>5. LockOK'
      <3>1. ASSUME NEW d \in Chunks
            PROVE  (\E i \in 1 .. Len(waiters') : waiters'[i] = d) <=> place'[d] = "lock"
        <4>1. (\E i \in 1 .. Len(waiters') : waiters'[i] = d) <=> place[d] = "lock" /\ d # c
          BY <1>3
        <4> QED BY <2>2, <2>3, <4>1
      <3>2. ASSUME NEW d \in Chunks
            PROVE  (holder' = d <=> place'[d] = "put") /\ (place'[d] = "put" => left'[d] > 0)
        <4>1. d # c => place[d] # "put"
          BY <1>2 DEF BridgeInv, LockOK, Chunks, Nobody
        <4> QED BY <1>2, <1>9, <2>2, <2>3, <4>1
      <3>3. ASSUME NEW d \in Chunks, Has("step", d)', place'[d] = "lock", ~must'[d]
            PROVE  holder' = Nobody /\ waiters'[1] = d
        BY <1>2, <1>9, <2>1, <2>3, <3>3
      <3>4. holder' \in Chunks \cup {Nobody} /\ waiters' \in Seq(Chunks)
        BY <1>2, <1>3, <1>9
      <3> QED BY <1>2, <1>3, <3>1, <3>2, <3>3, <3>4 DEF LockOK
    <2> QED BY <1>2, <2>3, <2>4, <2>5 DEF BridgeInv
  <1>10. CASE /\ place' = [place EXCEPT ![c] = "over"]
              /\ holder' = Nobody /\ must' = [must EXCEPT ![c] = Stale(c)]
              /\ ready' = Tail(ready) \o
                     (WakeFirst(waiters') \o (IF Stale(c) THEN Flush(c) ELSE <<>>)
                       \o << <<"done", c>> >>)
    <2>1. PICK t \in Seq(Items) :
            /\ ready' = Tail(ready) \o t
            /\ \A k, d : HasIn(t, k, d) =>
                  \/ /\ k = "step" /\ d \in Chunks /\ d # c /\ place[d] = "lock"
                     /\ ~Has("step", d) /\ waiters'[1] = d
                  \/ k = "flush" /\ d = c /\ Stale(c)
                  \/ k = "done" /\ d = c
            /\ HasIn(t, "done", c)
            /\ Stale(c) => HasIn(t, "flush", c)
            /\ \A k, d : ~BeforeIn(t, k, d, k, d)
      BY <1>2, <1>10, PutsItems
    <2> DEFINE p == "over"
    <2>2. p \in {"lock", "put", "over"} /\ place' = [place EXCEPT ![c] = p] /\ p = "over"
      BY <1>10
    <2> HIDE DEF p
    <2>3. /\ BridgeTypes' /\ PendingOK' /\ WorkerOK' /\ TurnOK' /\ PlacesOK' /\ FuturesOK'
          /\ place' \in [Chunks -> {"none", "created", "new", "lock", "put", "over"}]
          /\ place'[c] = p /\ \A d \in Chunks : d # c => place'[d] = place[d]
          /\ Has("step", c) /\ place[c] \in {"new", "lock", "put"}
          /\ \A d \in Chunks :
                Has("step", d)' => d # c /\ (Has("step", d) \/ HasIn(t, "step", d))
      <3>1. \A l \in {"deliver", "turn", "cancel"} : \A d : ~HasIn(t, l, d)
        BY <2>1
      <3>2. /\ \A d : HasIn(t, "step", d) => d # c /\ ~Has("step", d)
            /\ \A d \in Chunks : HasIn(t, "step", d) => place[d] = "lock"
        BY <2>1
      <3>3. \A d : HasIn(t, "done", d) => d = c
        BY <2>1
      <3>4. \A l \in {"step", "done"} : \A d : ~BeforeIn(t, l, d, l, d)
        BY <2>1
      <3>5. ready' = Tail(ready) \o t
        BY <2>1
      <3> QED BY <2>2, <3>1, <3>2, <3>3, <3>4, <3>5, StepMoves
    <2>4. /\ must' \in [Chunks -> BOOLEAN]
          /\ \A d \in Chunks : d # c => must'[d] = must[d]
      <3>1. gen[c] \in 0 .. MaxGenerations /\ Stale(c) \in BOOLEAN
        BY DEF BridgeInv, BridgeTypes, Stale
      <3> QED BY <1>10, <3>1 DEF BridgeInv, TaskTypes
    <2>5. TaskTypes'
      BY <1>2, <2>3, <2>4 DEF BridgeInv, TaskTypes
    <2>6. LockOK'
      <3>1. ASSUME NEW d \in Chunks
            PROVE  (\E i \in 1 .. Len(waiters') : waiters'[i] = d) <=> place'[d] = "lock"
        <4>1. (\E i \in 1 .. Len(waiters') : waiters'[i] = d) <=> place[d] = "lock" /\ d # c
          BY <1>3
        <4> QED BY <2>2, <2>3, <4>1
      <3>2. ASSUME NEW d \in Chunks
            PROVE  (holder' = d <=> place'[d] = "put") /\ (place'[d] = "put" => left'[d] > 0)
        <4>1. (d # c => place[d] # "put") /\ d # Nobody
          BY <1>2 DEF BridgeInv, LockOK, Chunks, Nobody
        <4> QED BY <1>2, <1>10, <2>2, <2>3, <4>1
      <3>3. ASSUME NEW d \in Chunks, Has("step", d)', place'[d] = "lock", ~must'[d]
            PROVE  holder' = Nobody /\ waiters'[1] = d
        <4>1. d # c /\ place[d] = "lock" /\ ~must[d]
          BY <2>3, <2>4, <3>3
        <4>2. HasIn(t, "step", d)
          BY <1>2, <2>3, <3>3, <4>1
        <4> QED BY <1>10, <2>1, <4>2
      <3>4. holder' \in Chunks \cup {Nobody} /\ waiters' \in Seq(Chunks)
        BY <1>2, <1>3, <1>10
      <3> QED BY <1>2, <1>3, <3>1, <3>2, <3>3, <3>4 DEF LockOK
    <2> QED BY <1>2, <2>3, <2>5, <2>6 DEF BridgeInv
  <1> QED BY <1>2, <1>9, <1>10

LEMMA StepStays ==
  ASSUME BridgeInv, Step
  PROVE  BridgeInv'
  <1>1. PICK c \in Chunks : ready # <<>> /\ Head(ready) = <<"step", c>> /\ Head(ready)[2] = c
    BY HeadItem DEF Step, BridgeInv, BridgeTypes
  <1>2. /\ UNCHANGED <<bridge, pending, worker, submitted, gen, future, ended, shown>>
        /\ Aborts(c) \/ Waits(c) \/ Puts(c)
    BY <1>1 DEF Step
  <1> QED BY <1>1, <1>2, AbortsStays, WaitsStays, PutsStays

LEMMA BridgeStays ==
  ASSUME BridgeInv, [BridgeNext]_bridgeVars
  PROVE  BridgeInv'
  <1>1. CASE Worker
    BY <1>1, SectionStays, CancelStaleStays, ScheduleStays, PlanStays DEF Worker
  <1>2. CASE Loop
    BY <1>2, WriteStays, BeginGenerationStays, DriverIsDoneStays, MakeTaskStays,
       CancelTaskStays, StepStays, DoneStays, MakeTrackTaskStays, EmptyStays, CloseStays
       DEF Loop
  <1>3. CASE CloseBridge
    BY <1>3, CloseStays
  <1>4. CASE TakeFrame
    BY <1>4, TakeFrameStays
  <1>5. CASE UNCHANGED bridgeVars
    <2>1. /\ UNCHANGED <<closeTrack, bridgeClosed, generation, pending, worker, submitted>>
          /\ UNCHANGED <<gen, ready, place, left, must, holder, waiters, future, queue>>
          /\ UNCHANGED <<ended, shown>>
      BY <1>5 DEF bridgeVars, bridge, tasks
    <2>2. /\ \A k, c : Has(k, c)' <=> Has(k, c)
          /\ \A k, c, l, d : Before(k, c, l, d)' <=> Before(k, c, l, d)
      BY <2>1 DEF Has, Before
    <2>3. BridgeTypes' /\ TaskTypes' /\ PendingOK' /\ QueueOK'
      BY <2>1 DEF BridgeInv, BridgeTypes, TaskTypes, PendingOK, QueueOK
    <2>4. WorkerOK' /\ FuturesOK'
      BY <2>1 DEF BridgeInv, WorkerOK, Writing, FuturesOK, Live
    <2>5. TurnOK'
      BY <2>1, <2>2 DEF BridgeInv, TurnOK
    <2>6. PlacesOK'
      BY <2>1, <2>2 DEF BridgeInv, PlacesOK
    <2>7. LockOK'
      BY <2>1, <2>2 DEF BridgeInv, LockOK
    <2> QED BY <2>3, <2>4, <2>5, <2>6, <2>7 DEF BridgeInv
  <1> QED BY <1>1, <1>2, <1>3, <1>4, <1>5 DEF BridgeNext

\* What the type invariant of the module says follows from the invariant.
LEMMA BridgeIsTyped ==
  ASSUME BridgeInv, closeTrack \in CloseTrack
  PROVE  BridgeTypeOK
  <1>1. /\ {bridgeClosed, ended} \subseteq BOOLEAN /\ generation \in 0 .. MaxGenerations
        /\ submitted \in 0 .. MaxChunks
        /\ queue \in Seq(0 .. MaxChunks) /\ Len(queue) <= MaxSize
        /\ pending \subseteq 1 .. submitted /\ Cardinality(pending) <= MaxPending
    BY DEF BridgeInv, BridgeTypes, QueueOK, PendingOK
  <1>2. /\ worker.at \in {"idle", "enter", "recheck", "schedule", "plan"}
        /\ worker.stale \subseteq 1 .. submitted
    BY DEF BridgeInv, WorkerOK
  <1>3. /\ place \in [Chunks -> {"none", "created", "new", "lock", "put", "over"}]
        /\ left \in [Chunks -> 0 .. FrameCount] /\ must \in [Chunks -> BOOLEAN]
        /\ future \in [Chunks -> {"none", "pending", "cancelled", "reported"}]
    BY DEF BridgeInv, TaskTypes
  <1>4. ready \in Seq({"deliver", "step", "cancel", "done", "flush", "empty", "close",
                       "end", "turn"} \X (0 .. MaxChunks))
    <2> DEFINE All == {"deliver", "step", "cancel", "done", "flush", "empty", "close",
                       "end", "turn"} \X (0 .. MaxChunks)
    <2>1. Items \subseteq All
      <3>1. Chunks \subseteq 0 .. MaxChunks /\ {0} \subseteq 0 .. MaxChunks
        BY BoundsArePositive DEF Chunks
      <3> QED BY <3>1 DEF Items
    <2>2. ready \in Seq(Items)
      BY DEF BridgeInv, BridgeTypes
    <2> HIDE DEF All
    <2>3. ready \in Seq(All)
      BY <2>1, <2>2
    <2> QED BY <2>3 DEF All
  <1>5. ASSUME NEW i \in 1 .. Len(ready), NEW j \in 1 .. Len(ready), ready[i] = ready[j],
               ready[i][1] \in {"step", "turn", "done"}
        PROVE  i = j
    <2>1. Len(ready) \in Nat /\ ready[i] \in Items
      BY DEF BridgeInv, BridgeTypes
    <2>2. CASE ready[i][1] = "turn"
      <3>1. ready[i] = <<"turn", 0>>
        BY <2>1, <2>2 DEF Items
      <3>2. ~Before("turn", 0, "turn", 0)
        <4>1. Has("turn", 0)
          BY <3>1 DEF Has, HasIn
        <4> QED BY <4>1 DEF BridgeInv, TurnOK
      <3>3. ~(i < j) /\ ~(j < i)
        BY <1>5, <3>1, <3>2 DEF Before, BeforeIn
      <3> QED BY <2>1, <3>3
    <2>3. CASE ready[i][1] \in {"step", "done"}
      <3>1. PICK k \in {"step", "done"}, c \in Chunks : ready[i] = <<k, c>>
        BY <2>1, <2>3 DEF Items
      <3>2. ~Before(k, c, k, c)
        BY DEF BridgeInv, PlacesOK
      <3>3. ~(i < j) /\ ~(j < i)
        BY <1>5, <3>1, <3>2 DEF Before, BeforeIn
      <3> QED BY <2>1, <3>3
    <2> QED BY <1>5, <2>2, <2>3
  <1>6. holder \in Chunks \cup {Nobody} /\ IsInjective(waiters)
    BY DEF BridgeInv, LockOK, IsInjective
  <1> QED BY <1>1, <1>2, <1>3, <1>4, <1>5, <1>6 DEF BridgeTypeOK

\* Every step of the two threads and of the sender keeps the loop's queue, the
\* bridge's set of futures and the lock in agreement; so no delivery goes on
\* that the bridge neither tracks nor has cancelled or is about to cancel,
\* after an overflow, a begin_generation or a close (services.py).
THEOREM NoDeliveryIsLost == BridgeSpec => []NoDeliveryEscapes
  <1> DEFINE Inv == BridgeInv /\ closeTrack \in CloseTrack
  <1>1. BridgeInit => Inv
    BY InitBridge DEF BridgeInit
  <1>2. Inv /\ [BridgeNext]_bridgeVars => Inv'
    <2> SUFFICES ASSUME Inv, [BridgeNext]_bridgeVars PROVE Inv'
      OBVIOUS
    <2>1. closeTrack' = closeTrack
      BY DEF BridgeNext, Worker, Loop, Section, CancelStale, Schedule, Plan, Write,
         BeginGeneration, DriverIsDone, MakeTask, CancelTask, Step, Done, MakeTrackTask,
         Empty, EndTrack, CloseBridge, TakeFrame, bridgeVars, bridge
    <2> QED BY <2>1, BridgeStays
  <1>3. Inv => NoDeliveryEscapes
    <2> SUFFICES ASSUME Inv PROVE NoDeliveryEscapes
      OBVIOUS
    <2>1. BridgeTypeOK
      BY BridgeIsTyped
    <2>2. ASSUME NEW c \in 1 .. submitted
          PROVE  place[c] = "over" \/ c \in pending \cup worker.stale \/ future[c] = "cancelled"
      <3>1. submitted \in 0 .. MaxChunks /\ MaxChunks \in Nat
        BY BoundsArePositive DEF BridgeInv, BridgeTypes
      <3>2. c \in Chunks /\ c <= submitted
        BY <3>1 DEF Chunks
      <3> QED BY <3>2 DEF BridgeInv, FuturesOK, Live
    <2> QED BY <2>1, <2>2 DEF NoDeliveryEscapes
  <1> QED BY <1>1, <1>2, <1>3, PTL DEF BridgeSpec

-----------------------------------------------------------------------------
(***************************************************************************)
(* What the track holds after a new generation.                            *)
(***************************************************************************)
Drops == {"flush", "empty"}
Marks == 0 .. MaxChunks
Dropping == \E k \in Drops, m \in Marks : Has(k, m)

ClosedOK == ended \/ Has("close", 0) \/ Has("end", 0) => bridgeClosed

\* Who is cancelled hears of it: the future is settled at once, the task by an
\* item of the loop's queue.
ToldOK == \A c \in Chunks :
    Live(c) /\ future[c] = "cancelled" => must[c] \/ Has("cancel", c)

\* A delivery of an older generation that may still put frames is cancelled,
\* and after that the track is flushed.
OldOK == ~bridgeClosed => \A c \in Chunks :
    Live(c) /\ gen[c] < generation /\ ~must[c] =>
       \E k \in Drops, m \in Marks : Before("cancel", c, k, m)

FramesOK == ~ended => \A i \in 1 .. Len(queue) : queue[i] \in 1 .. submitted

TrackOK == ~bridgeClosed =>
    Dropping \/ \A i \in 1 .. Len(queue) : gen[queue[i]] = generation

GenInv == ClosedOK /\ ToldOK /\ OldOK /\ FramesOK /\ TrackOK

\* A step of the loop or of another thread, seen through the queue: <<k, c>>, if
\* it is not "nothing", is the head that goes, and `t' is appended.
Moved(k, c, t) ==
    /\ ready' \in Seq(Items)
    /\ k # "nothing" => \A l, d : Has(l, d) /\ ~(l = k /\ d = c) => Before(k, c, l, d)
    /\ \A l, d : Has(l, d)' => Has(l, d) \/ HasIn(t, l, d)
    /\ \A l, d : Has(l, d) /\ ~(l = k /\ d = c) => Has(l, d)'
    /\ \A l, d : HasIn(t, l, d) => Has(l, d)'
    /\ \A l, d, m, e : Before(l, d, m, e)' =>
          Before(l, d, m, e) \/ ((Has(l, d) \/ HasIn(t, l, d)) /\ HasIn(t, m, e))
    /\ \A l, d, m, e : Before(l, d, m, e) /\ ~(l = k /\ d = c) => Before(l, d, m, e)'
    /\ \A l, d, m, e : Has(l, d) /\ ~(l = k /\ d = c) /\ HasIn(t, m, e) =>
          Before(l, d, m, e)'
    /\ \A l, d, m, e : BeforeIn(t, l, d, m, e) => Before(l, d, m, e)'
    /\ ~Before(k, c, k, c) /\ ~HasIn(t, k, c) /\ k # "nothing" => ~Has(k, c)'

LEMMA MovedByPop ==
  ASSUME ready \in Seq(Items), ready # <<>>, NEW k, NEW c, Head(ready) = <<k, c>>,
         NEW t \in Seq(Items), ready' = Tail(ready) \o t
  PROVE  Moved(k, c, t)
  <1>1. /\ ready' \in Seq(Items)
        /\ Has(k, c)
        /\ \A l, d : Has(l, d)' => Has(l, d) \/ HasIn(t, l, d)
        /\ \A l, d : Has(l, d) /\ ~(l = k /\ d = c) => Has(l, d)'
        /\ \A l, d : HasIn(t, l, d) => Has(l, d)'
        /\ ~Before(k, c, k, c) /\ ~HasIn(t, k, c) => ~Has(k, c)'
        /\ \A l, d : Has(l, d) /\ ~(l = k /\ d = c) => Before(k, c, l, d)
        /\ \A l, d, m, e : Before(l, d, m, e)' =>
              \/ Before(l, d, m, e) \/ BeforeIn(t, l, d, m, e)
              \/ Has(l, d) /\ HasIn(t, m, e) /\ (l = k /\ d = c => Before(k, c, k, c))
        /\ \A l, d, m, e : Before(l, d, m, e) /\ ~(l = k /\ d = c) =>
              Before(l, d, m, e)'
        /\ \A l, d, m, e : Has(l, d) /\ ~(l = k /\ d = c) /\ HasIn(t, m, e) =>
              Before(l, d, m, e)'
    BY Pops
  <1>2. \A l, d, m, e : BeforeIn(t, l, d, m, e) => HasIn(t, l, d) /\ HasIn(t, m, e)
    BY DEF BeforeIn, HasIn
  <1>3. \A l, d, m, e : BeforeIn(t, l, d, m, e) => Before(l, d, m, e)'
    <2>1. Tail(ready) \in Seq(Items)
      BY HeadTailProperties
    <2> DEFINE rest == Tail(ready)
    <2> HIDE DEF rest
    <2>2. rest \in Seq(Items) /\ ready' = rest \o t
      BY <2>1 DEF rest
    <2>3. \A l, d, m, e : BeforeIn(t, l, d, m, e) => BeforeIn(rest \o t, l, d, m, e)
      BY <2>2, Concatenation
    <2> QED BY <2>2, <2>3 DEF Before
  <1>4. \A l, d, m, e : Before(l, d, m, e)' =>
          Before(l, d, m, e) \/ ((Has(l, d) \/ HasIn(t, l, d)) /\ HasIn(t, m, e))
    BY <1>1, <1>2
  <1> QED BY <1>1, <1>3, <1>4 DEF Moved

LEMMA MovedByAppend ==
  ASSUME ready \in Seq(Items), NEW t \in Seq(Items), ready' = ready \o t, NEW c
  PROVE  Moved("nothing", c, t)
  <1>1. /\ ready' \in Seq(Items)
        /\ \A l, d : Has(l, d)' <=> Has(l, d) \/ HasIn(t, l, d)
        /\ \A l, d, m, e : Before(l, d, m, e)' <=>
               \/ Before(l, d, m, e) \/ BeforeIn(t, l, d, m, e)
               \/ Has(l, d) /\ HasIn(t, m, e)
    BY Appends
  <1>2. \A l, d, m, e : BeforeIn(t, l, d, m, e) => HasIn(t, l, d) /\ HasIn(t, m, e)
    BY DEF BeforeIn, HasIn
  <1>3. \A l, d, m, e : Before(l, d, m, e)' =>
          Before(l, d, m, e) \/ ((Has(l, d) \/ HasIn(t, l, d)) /\ HasIn(t, m, e))
    BY <1>1, <1>2
  <1> QED BY <1>1, <1>3 DEF Moved

\* Nothing but a new generation makes a delivery old; every other step keeps
\* the invariant when it only ends deliveries, tells those it cancels, and puts
\* frames of this generation or of a delivery after which it flushes.
LEMMA GenStays ==
  ASSUME BridgeInv, GenInv, NEW k, NEW c, NEW t, Moved(k, c, t),
         generation' = generation, bridgeClosed => bridgeClosed', ended => ended',
         submitted' \in Nat, submitted <= submitted',
         \A d \in 1 .. submitted : gen'[d] = gen[d],
         ended' => bridgeClosed',
         HasIn(t, "close", 0) \/ HasIn(t, "end", 0) => bridgeClosed',
         \A d \in Chunks : Live(d)' =>
            \/ /\ Live(d) /\ (must[d] => must'[d])
               /\ future'[d] = "cancelled" => future[d] = "cancelled" \/ Has("cancel", d)'
            \/ future'[d] = "pending" /\ gen'[d] = generation,
         k = "cancel" => must'[c] \/ ~Live(c)',
         k \in Drops => Dropping' \/ bridgeClosed' \/ queue' = <<>>,
         \A i \in 1 .. Len(queue') :
            \/ \E j \in 1 .. Len(queue) : queue'[i] = queue[j]
            \/ ended'
            \/ /\ queue'[i] \in 1 .. submitted
               /\ gen[queue'[i]] = generation \/ Dropping' \/ bridgeClosed'
  PROVE  GenInv'
  <1>1. submitted \in 0 .. MaxChunks /\ MaxChunks \in Nat /\ generation \in Nat
        /\ \A d \in Chunks : gen[d] \in Nat
    BY BoundsArePositive, ValuesToCheck DEF BridgeInv, BridgeTypes
  <1>2. ClosedOK'
    BY DEF GenInv, ClosedOK, Moved
  <1>3. ToldOK'
    <2> SUFFICES ASSUME NEW d \in Chunks, Live(d)', future'[d] = "cancelled"
                 PROVE  must'[d] \/ Has("cancel", d)'
      BY DEF ToldOK
    <2>1. /\ Live(d) /\ (must[d] => must'[d])
          /\ future[d] = "cancelled" \/ Has("cancel", d)'
      OBVIOUS
    <2>2. CASE future[d] = "cancelled"
      <3>1. must[d] \/ Has("cancel", d)
        BY <2>1, <2>2 DEF GenInv, ToldOK
      <3>2. CASE k = "cancel" /\ d = c
        BY <3>2
      <3>3. CASE ~(k = "cancel" /\ d = c)
        BY <2>1, <3>1, <3>3 DEF Moved
      <3> QED BY <3>2, <3>3
    <2> QED BY <2>1, <2>2
  <1>4. OldOK'
    <2> SUFFICES ASSUME ~bridgeClosed', NEW d \in Chunks, Live(d)', gen'[d] < generation,
                        ~must'[d]
                 PROVE  \E l \in Drops, m \in Marks : Before("cancel", d, l, m)'
      BY DEF OldOK
    <2>1. Live(d) /\ ~must[d] /\ ~bridgeClosed
      <3>1. gen'[d] # generation
        BY <1>1
      <3> QED BY <3>1
    <2>2. gen[d] < generation
      <3>1. d \in 1 .. submitted
        BY <1>1, <2>1 DEF Live, Chunks
      <3> QED BY <3>1
    <2>3. PICK l \in Drops, m \in Marks : Before("cancel", d, l, m)
      BY <2>1, <2>2 DEF GenInv, OldOK
    <2>4. ~("cancel" = k /\ d = c)
      OBVIOUS
    <2> QED BY <2>3, <2>4 DEF Moved
  <1>5. FramesOK'
    <2> SUFFICES ASSUME ~ended', NEW i \in 1 .. Len(queue')
                 PROVE  queue'[i] \in 1 .. submitted'
      BY DEF FramesOK
    <2>1. queue'[i] \in 1 .. submitted
      BY DEF GenInv, FramesOK
    <2> QED BY <1>1, <2>1
  <1>6. TrackOK'
    <2> SUFFICES ASSUME ~bridgeClosed', ~Dropping', NEW i \in 1 .. Len(queue')
                 PROVE  gen'[queue'[i]] = generation
      BY DEF TrackOK
    <2>1. ~bridgeClosed /\ ~ended' /\ ~ended
      OBVIOUS
    <2>2. k \notin Drops
      <3>1. queue' # <<>>
        OBVIOUS
      <3> QED BY <3>1
    <2>3. ~Dropping
      <3>1. \A l \in Drops, m \in Marks : Has(l, m) => Has(l, m)'
        BY <2>2 DEF Moved
      <3> QED BY <3>1 DEF Dropping
    <2>4. queue'[i] \in 1 .. submitted /\ gen[queue'[i]] = generation
      <3>1. CASE \E j \in 1 .. Len(queue) : queue'[i] = queue[j]
        BY <2>1, <2>3, <3>1 DEF GenInv, FramesOK, TrackOK
      <3> QED BY <2>1, <3>1
    <2> QED BY <2>4
  <1> QED BY <1>2, <1>3, <1>4, <1>5, <1>6 DEF GenInv

\* What each step does to the loop's queue.
LEMMA ReturnItems ==
  ASSUME BridgeInv, Return(<<>>)
  PROVE  \E t \in Seq(Items) : /\ Moved("nothing", 0, t)
                               /\ \A l, d : HasIn(t, l, d) <=> l = "turn" /\ d = 0
  <1> DEFINE t == << <<"turn", 0>> >>
  <1>1. t \in Seq(Items) /\ \A l, d : HasIn(t, l, d) <=> l = "turn" /\ d = 0
    BY ItemsOf, OneItem
  <1>2. ready \in Seq(Items)
    BY DEF BridgeInv, BridgeTypes
  <1>3. ready' = ready \o t
    BY <1>2 DEF Return
  <1> HIDE DEF t
  <1> QED BY <1>1, <1>2, <1>3, MovedByAppend

LEMMA NothingMoves ==
  ASSUME BridgeInv, ready' = ready
  PROVE  Moved("nothing", 0, <<>>)
  <1>1. ready \in Seq(Items) /\ <<>> \in Seq(Items) /\ ready' = ready \o <<>>
    BY ItemsOf DEF BridgeInv, BridgeTypes
  <1> QED BY <1>1, MovedByAppend

LEMMA TurnItems ==
  ASSUME BridgeInv, Runs("turn"), NEW t \in Seq(Items), ready' = Tail(ready) \o t
  PROVE  Moved("turn", 0, t)
  <1>1. ready \in Seq(Items) /\ ready # <<>> /\ Head(ready) = <<"turn", 0>>
    BY HeadItem DEF BridgeInv, BridgeTypes
  <1> QED BY <1>1, MovedByPop

LEMMA CancelStaleItems ==
  ASSUME BridgeInv, CancelStale
  PROVE  /\ worker.stale # {} /\ worker.stale \subseteq 1 .. submitted
         /\ worker.stale \in SUBSET Chunks
         /\ Max(worker.stale) \in worker.stale
         /\ \A x \in worker.stale : x <= Max(worker.stale)
         /\ \E t \in Seq(Items) :
               /\ Moved("nothing", 0, t)
               /\ \A l, d : HasIn(t, l, d) <=>
                     \/ l = "cancel" /\ d \in Cancellable(worker.stale)
                     \/ l = "flush" /\ d = Max(worker.stale)
  <1> DEFINE cs == Cancellable(worker.stale)
             m == Max(worker.stale)
  <1>1. worker.stale # {}
    BY DEF CancelStale
  <1>2. worker.stale \subseteq 1 .. submitted
    BY DEF BridgeInv, WorkerOK
  <1>3. submitted \in 0 .. MaxChunks /\ submitted \in Nat /\ MaxChunks \in Nat
    BY BoundsArePositive DEF BridgeInv, BridgeTypes
  <1>4. worker.stale \in SUBSET Chunks
    BY <1>2, <1>3 DEF Chunks
  <1>5. PICK told \in InOrder(cs) : ready' = ready \o Cancels(told) \o Flush(m)
    BY DEF CancelStale
  <1>6. cs \subseteq worker.stale /\ cs \in SUBSET Chunks /\ IsFiniteSet(cs)
    <2>1. cs \subseteq worker.stale
      BY DEF Cancellable
    <2>2. IsFiniteSet(1 .. submitted)
      BY <1>3, FS_Interval
    <2>3. IsFiniteSet(worker.stale)
      BY <1>2, <2>2, FS_Subset
    <2> HIDE DEF cs
    <2>4. IsFiniteSet(cs)
      BY <2>1, <2>3, FS_Subset
    <2> QED BY <1>4, <2>1, <2>4
  <1>7. m \in worker.stale /\ \A x \in worker.stale : x <= m
    BY <1>1, <1>2, <1>3, MaxFacts
  <1>8. m \in 0 .. MaxChunks
    BY <1>2, <1>3, <1>7
  <1> HIDE DEF cs, m
  <1> DEFINE t == Cancels(told) \o << <<"flush", m>> >>
  <1>9. /\ t \in Seq(Items)
        /\ \A l, d : HasIn(t, l, d) <=> (l = "cancel" /\ d \in cs) \/ (l = "flush" /\ d = m)
    <2>1. << <<"flush", m>> >> \in Seq(Items)
      BY <1>8, ItemsOf
    <2> QED BY <1>6, <1>8, <2>1, CancelsThen
  <1>10. ready \in Seq(Items) /\ ready' = ready \o t
    <2>1. ready \in Seq(Items) /\ Cancels(told) \in Seq(Items) /\ Flush(m) \in Seq(Items)
      BY <1>6, <1>8, CancelItems, ItemsOf DEF BridgeInv, BridgeTypes, Flush
    <2> QED BY <1>5, <2>1, ConcatAssociative DEF Flush
  <1> HIDE DEF t
  <1>11. Moved("nothing", 0, t)
    BY <1>9, <1>10, MovedByAppend
  <1> QED BY <1>1, <1>2, <1>4, <1>7, <1>9, <1>11 DEF cs, m

LEMMA ScheduleItems ==
  ASSUME BridgeInv, Schedule, ~Refused
  PROVE  \E t \in Seq(Items) :
            /\ Moved("nothing", 0, t)
            /\ \A l, d : HasIn(t, l, d) <=>
                  (l = "deliver" /\ d = submitted + 1) \/ (l = "turn" /\ d = 0)
  <1> DEFINE one == << <<"deliver", submitted + 1>> >>
             two == << <<"turn", 0>> >>
             t == one \o two
  <1>1. submitted + 1 \in Chunks
    BY BoundsArePositive DEF Schedule, BridgeInv, BridgeTypes, WorkerOK, Writing, Chunks
  <1>2. one \in Seq(Items) /\ two \in Seq(Items) /\ ready \in Seq(Items)
    BY <1>1, ItemsOf DEF BridgeInv, BridgeTypes
  <1>3. ready' = (ready \o one) \o two
    BY DEF Schedule, Return
  <1>4. /\ \A k, d : HasIn(one, k, d) <=> k = "deliver" /\ d = submitted + 1
        /\ \A k, d : HasIn(two, k, d) <=> k = "turn" /\ d = 0
    BY OneItem
  <1> HIDE DEF one, two
  <1>5. ready' = ready \o t
    BY <1>2, <1>3, ConcatAssociative
  <1>6. t \in Seq(Items) /\ \A k, d : HasIn(t, k, d) <=> HasIn(one, k, d) \/ HasIn(two, k, d)
    BY <1>2, Concatenation
  <1> HIDE DEF t
  <1>7. Moved("nothing", 0, t)
    BY <1>2, <1>5, <1>6, MovedByAppend
  <1>8. \A l, d : HasIn(t, l, d) <=>
                  (l = "deliver" /\ d = submitted + 1) \/ (l = "turn" /\ d = 0)
    BY <1>4, <1>6
  <1> QED BY <1>6, <1>7, <1>8

LEMMA BeginGenerationItems ==
  ASSUME BridgeInv, BeginGeneration
  PROVE  \E t \in Seq(Items) :
            /\ Moved("turn", 0, t)
            /\ \A l, d : HasIn(t, l, d) <=>
                  (l = "cancel" /\ d \in Cancellable(pending)) \/ (l = "flush" /\ d = submitted)
            /\ \A d \in Cancellable(pending) : BeforeIn(t, "cancel", d, "flush", submitted)
  <1> DEFINE cs == Cancellable(pending)
  <1>1. PICK told \in InOrder(cs) : ready' = Tail(ready) \o (Cancels(told) \o Flush(submitted))
    BY DEF BeginGeneration, Then
  <1>2. submitted \in 0 .. MaxChunks
    BY DEF BridgeInv, BridgeTypes
  <1>3. cs \subseteq pending /\ cs \in SUBSET Chunks /\ IsFiniteSet(cs)
    BY TrackedChunks
  <1> HIDE DEF cs
  <1> DEFINE t == Cancels(told) \o << <<"flush", submitted>> >>
  <1>4. /\ t \in Seq(Items)
        /\ \A l, d : HasIn(t, l, d) <=> (l = "cancel" /\ d \in cs)
                                           \/ (l = "flush" /\ d = submitted)
        /\ \A d \in cs : BeforeIn(t, "cancel", d, "flush", submitted)
    <2>1. << <<"flush", submitted>> >> \in Seq(Items)
      BY <1>2, ItemsOf
    <2> QED BY <1>2, <1>3, <2>1, CancelsThen
  <1>5. ready' = Tail(ready) \o t
    BY <1>1 DEF Flush
  <1> HIDE DEF t
  <1>6. Moved("turn", 0, t)
    BY <1>4, <1>5, TurnItems DEF BeginGeneration
  <1> QED BY <1>4, <1>6 DEF cs

LEMMA CloseItems ==
  ASSUME BridgeInv, CloseBridge
  PROVE  \E k \in {"turn", "nothing"}, t \in Seq(Items) :
            /\ Moved(k, 0, t)
            /\ k = "nothing" => ~Has("turn", 0)
            /\ \A l, d : HasIn(t, l, d) =>
                  (l = "cancel" /\ d \in Cancellable(pending)) \/ (l = "close" /\ d = 0)
            /\ \A d \in Cancellable(pending) : HasIn(t, "cancel", d)
  <1> DEFINE cs == Cancellable(pending)
             last == IF closeTrack THEN << <<"close", 0>> >> ELSE <<>>
             rest == IF Runs("turn") THEN Tail(ready) ELSE ready
  <1>1. Runs("turn") \/ worker.at # "idle"
    BY DEF CloseBridge
  <1>2. PICK told \in InOrder(cs) : ready' = rest \o Cancels(told) \o last
    BY DEF CloseBridge
  <1>3. cs \in SUBSET Chunks /\ IsFiniteSet(cs)
    BY TrackedChunks
  <1> HIDE DEF cs
  <1> DEFINE t == Cancels(told) \o last
  <1>4. last \in Seq(Items) /\ \A l, d : HasIn(last, l, d) => l = "close" /\ d = 0
    BY ItemsOf, OneItem, NoItem
  <1>5. /\ Cancels(told) \in Seq(Items)
        /\ \A l, d : HasIn(Cancels(told), l, d) <=> l = "cancel" /\ d \in cs
    BY <1>3, CancelItems
  <1> HIDE DEF last
  <1>6. /\ t \in Seq(Items)
        /\ \A l, d : HasIn(t, l, d) <=> HasIn(Cancels(told), l, d) \/ HasIn(last, l, d)
    BY <1>4, <1>5, Concatenation
  <1>7. ready \in Seq(Items) /\ rest \in Seq(Items)
    <2>1. ready \in Seq(Items)
      BY DEF BridgeInv, BridgeTypes
    <2>2. Runs("turn") => Tail(ready) \in Seq(Items)
      BY <2>1, HeadTailProperties DEF Runs
    <2> QED BY <2>1, <2>2
  <1>8. ready' = rest \o t
    <2> DEFINE mid == Cancels(told)
    <2>1. rest \in Seq(Items) /\ mid \in Seq(Items) /\ last \in Seq(Items)
      BY <1>4, <1>5, <1>7
    <2>2. (rest \o mid) \o last = rest \o (mid \o last)
      <3> HIDE DEF rest, mid
      <3> QED BY <2>1, ConcatAssociative
    <2> HIDE DEF rest
    <2> QED BY <1>2, <2>2
  <1> HIDE DEF t
  <1>9. /\ \A l, d : HasIn(t, l, d) => (l = "cancel" /\ d \in cs) \/ (l = "close" /\ d = 0)
        /\ \A d \in cs : HasIn(t, "cancel", d)
    BY <1>4, <1>5, <1>6
  <1>10. CASE Runs("turn")
    <2>1. Moved("turn", 0, t)
      BY <1>6, <1>8, <1>10, TurnItems
    <2> QED BY <1>6, <1>9, <2>1 DEF cs
  <1>11. CASE ~Runs("turn")
    <2>1. ~Has("turn", 0)
      BY <1>1, <1>11 DEF BridgeInv, TurnOK
    <2>2. Moved("nothing", 0, t)
      BY <1>6, <1>7, <1>8, <1>11, MovedByAppend
    <2> QED BY <1>6, <1>9, <2>1, <2>2 DEF cs
  <1> QED BY <1>10, <1>11

\* The steps that leave deliveries, futures and track as they are.
LEMMA QuietGen ==
  ASSUME BridgeInv, GenInv, NEW k, NEW c, NEW t, Moved(k, c, t), k # "cancel", k \notin Drops,
         UNCHANGED <<bridgeClosed, generation, submitted, gen, place, must, future, queue>>,
         ended' = ended,
         HasIn(t, "close", 0) \/ HasIn(t, "end", 0) => bridgeClosed
  PROVE  GenInv'
  <1>1. submitted' \in Nat /\ submitted <= submitted'
    BY BoundsArePositive DEF BridgeInv, BridgeTypes
  <1>2. ended' => bridgeClosed'
    BY DEF GenInv, ClosedOK
  <1>3. \A d \in Chunks : Live(d)' =>
            \/ /\ Live(d) /\ (must[d] => must'[d])
               /\ future'[d] = "cancelled" => future[d] = "cancelled" \/ Has("cancel", d)'
            \/ future'[d] = "pending" /\ gen'[d] = generation
    BY DEF Live
  <1> QED BY <1>1, <1>2, <1>3, GenStays

LEMMA ReturnGen ==
  ASSUME BridgeInv, GenInv, Return(<<>>),
         UNCHANGED <<bridgeClosed, generation, submitted, gen, place, must, future, queue>>,
         ended' = ended
  PROVE  GenInv'
  <1>1. PICK t \in Seq(Items) : /\ Moved("nothing", 0, t)
                                /\ \A l, d : HasIn(t, l, d) <=> l = "turn" /\ d = 0
    BY ReturnItems
  <1>2. ~HasIn(t, "close", 0) /\ ~HasIn(t, "end", 0)
    BY <1>1
  <1>3. "nothing" # "cancel" /\ "nothing" \notin Drops
    BY DEF Drops
  <1> QED BY <1>1, <1>2, <1>3, QuietGen

LEMMA SectionGen ==
  ASSUME BridgeInv, GenInv, Section
  PROVE  GenInv'
  <1>1. /\ UNCHANGED <<bridgeClosed, generation, submitted, gen, place, must, future, queue>>
        /\ ended' = ended
    BY DEF Section, bridge, tasks
  <1>2. CASE Refused
    BY <1>1, <1>2, ReturnGen DEF Section
  <1>3. CASE ~Refused
    <2>1. Moved("nothing", 0, <<>>)
      BY <1>3, NothingMoves DEF Section
    <2>2. "nothing" # "cancel" /\ "nothing" \notin Drops
      BY DEF Drops
    <2>3. ~HasIn(<<>>, "close", 0) /\ ~HasIn(<<>>, "end", 0)
      BY NoItem
    <2> QED BY <1>1, <2>1, <2>2, <2>3, QuietGen
  <1> QED BY <1>2, <1>3

LEMMA PlanGen ==
  ASSUME BridgeInv, GenInv, Plan
  PROVE  GenInv'
  <1>1. /\ UNCHANGED <<bridgeClosed, generation, submitted, gen, place, must, future, queue>>
        /\ ended' = ended /\ Return(<<>>)
    BY DEF Plan, bridge, tasks
  <1> QED BY <1>1, ReturnGen

\* What the driver takes its turn for when it begins no generation.
LEMMA TurnGen ==
  ASSUME BridgeInv, GenInv, Write \/ DriverIsDone
  PROVE  GenInv'
  <1>1. /\ UNCHANGED <<bridgeClosed, generation, submitted, gen, place, must, future, queue>>
        /\ ended' = ended /\ Runs("turn") /\ ready' = Tail(ready) \o <<>>
    BY DEF Write, DriverIsDone, bridge, tasks, Then
  <1>2. Moved("turn", 0, <<>>)
    BY <1>1, ItemsOf, TurnItems
  <1>3. "turn" # "cancel" /\ "turn" \notin Drops
    BY DEF Drops
  <1>4. ~HasIn(<<>>, "close", 0) /\ ~HasIn(<<>>, "end", 0)
    BY NoItem
  <1> QED BY <1>1, <1>2, <1>3, <1>4, QuietGen

LEMMA ScheduleGen ==
  ASSUME BridgeInv, GenInv, Schedule
  PROVE  GenInv'
  <1>1. /\ UNCHANGED <<bridgeClosed, generation, must, queue>> /\ ended' = ended
    BY DEF Schedule, bridge
  <1>2. CASE Refused
    BY <1>1, <1>2, ReturnGen DEF Schedule
  <1>3. CASE ~Refused
    <2> DEFINE c == submitted + 1
    <2>1. PICK t \in Seq(Items) :
            /\ Moved("nothing", 0, t)
            /\ \A l, d : HasIn(t, l, d) <=>
                  (l = "deliver" /\ d = submitted + 1) \/ (l = "turn" /\ d = 0)
      BY <1>3, ScheduleItems
    <2>2. /\ submitted' = c /\ gen' = [gen EXCEPT ![c] = worker.gen]
          /\ place' = [place EXCEPT ![c] = "created"]
          /\ future' = [future EXCEPT ![c] = "pending"]
      BY <1>3 DEF Schedule
    <2>3. submitted \in Nat /\ submitted' \in Nat /\ submitted <= submitted'
      BY <2>2, BoundsArePositive DEF BridgeInv, BridgeTypes
    <2>4. worker.gen = generation
      BY <1>3, ValuesToCheck DEF BridgeInv, BridgeTypes, WorkerOK, Refused
    <2>5. \A d \in Chunks : d # c => gen'[d] = gen[d] /\ place'[d] = place[d]
                                       /\ future'[d] = future[d]
      BY <2>2 DEF BridgeInv, BridgeTypes, TaskTypes
    <2>6. \A d \in 1 .. submitted : gen'[d] = gen[d]
      <3>1. \A d \in 1 .. submitted : d \in Chunks /\ d # c
        BY <2>3, BoundsArePositive DEF BridgeInv, BridgeTypes, Chunks
      <3> QED BY <2>5, <3>1
    <2>7. ASSUME NEW d \in Chunks, Live(d)'
          PROVE  \/ /\ Live(d) /\ (must[d] => must'[d])
                    /\ future'[d] = "cancelled" => future[d] = "cancelled" \/ Has("cancel", d)'
                 \/ future'[d] = "pending" /\ gen'[d] = generation
      <3>1. CASE d = c
        BY <2>2, <2>4, <3>1 DEF BridgeInv, BridgeTypes, TaskTypes
      <3>2. CASE d # c
        <4>1. d <= submitted
          BY <2>2, <2>3, <2>7, <3>2 DEF Live, Chunks
        <4> QED BY <1>1, <2>5, <2>7, <3>2, <4>1 DEF Live
      <3> QED BY <3>1, <3>2
    <2>8. "nothing" # "cancel" /\ "nothing" \notin Drops
      BY DEF Drops
    <2>9. ~HasIn(t, "close", 0) /\ ~HasIn(t, "end", 0)
      BY <2>1
    <2>10. ended' => bridgeClosed'
      BY <1>1 DEF GenInv, ClosedOK
    <2> HIDE DEF c
    <2> QED BY <1>1, <2>1, <2>3, <2>6, <2>7, <2>8, <2>9, <2>10, GenStays
  <1> QED BY <1>2, <1>3

\* What cancels some futures: the loop is told of each.
LEMMA CancelGen ==
  ASSUME BridgeInv, GenInv, NEW cs \in SUBSET Chunks, Settle(cs),
         NEW k \in {"turn", "nothing"}, NEW t, Moved(k, 0, t),
         \A d \in Cancellable(cs) : HasIn(t, "cancel", d),
         HasIn(t, "close", 0) \/ HasIn(t, "end", 0) => bridgeClosed',
         UNCHANGED <<generation, submitted, gen, place, must, queue>>, ended' = ended,
         bridgeClosed => bridgeClosed'
  PROVE  GenInv'
  <1>1. submitted' \in Nat /\ submitted <= submitted'
    BY BoundsArePositive DEF BridgeInv, BridgeTypes
  <1>2. ended' => bridgeClosed'
    BY DEF GenInv, ClosedOK
  <1>3. \A d \in Chunks : future'[d] = "cancelled" => future[d] = "cancelled" \/ Has("cancel", d)'
    <2>1. \A d \in Chunks : future'[d] = "cancelled" =>
              future[d] = "cancelled" \/ d \in Cancellable(cs)
      BY SettleFacts DEF BridgeInv
    <2> QED BY <2>1 DEF Moved
  <1>4. \A d \in Chunks : Live(d)' =>
            \/ /\ Live(d) /\ (must[d] => must'[d])
               /\ future'[d] = "cancelled" => future[d] = "cancelled" \/ Has("cancel", d)'
            \/ future'[d] = "pending" /\ gen'[d] = generation
    BY <1>3 DEF Live
  <1>5. k # "cancel" /\ k \notin Drops
    BY DEF Drops
  <1> QED BY <1>1, <1>2, <1>4, <1>5, GenStays

LEMMA CancelStaleGen ==
  ASSUME BridgeInv, GenInv, CancelStale
  PROVE  GenInv'
  <1>1. /\ UNCHANGED <<bridgeClosed, generation, submitted, gen, place, must, queue>>
        /\ ended' = ended /\ Settle(worker.stale)
    BY DEF CancelStale, bridge, tasks
  <1>2. worker.stale \in SUBSET Chunks
    BY CancelStaleItems
  <1>3. PICK t \in Seq(Items) :
               /\ Moved("nothing", 0, t)
               /\ \A l, d : HasIn(t, l, d) <=>
                     \/ l = "cancel" /\ d \in Cancellable(worker.stale)
                     \/ l = "flush" /\ d = Max(worker.stale)
    BY CancelStaleItems
  <1>4. /\ \A d \in Cancellable(worker.stale) : HasIn(t, "cancel", d)
        /\ ~HasIn(t, "close", 0) /\ ~HasIn(t, "end", 0)
    BY <1>3
  <1> QED BY <1>1, <1>2, <1>3, <1>4, CancelGen

LEMMA CloseGen ==
  ASSUME BridgeInv, GenInv, CloseBridge
  PROVE  GenInv'
  <1>1. /\ UNCHANGED <<generation, submitted, gen, place, must, queue>>
        /\ ended' = ended /\ Settle(pending) /\ bridgeClosed'
    BY DEF CloseBridge, tasks
  <1>2. pending \in SUBSET Chunks
    BY TrackedChunks
  <1>3. PICK k \in {"turn", "nothing"}, t \in Seq(Items) :
            /\ Moved(k, 0, t)
            /\ k = "nothing" => ~Has("turn", 0)
            /\ \A l, d : HasIn(t, l, d) =>
                  (l = "cancel" /\ d \in Cancellable(pending)) \/ (l = "close" /\ d = 0)
            /\ \A d \in Cancellable(pending) : HasIn(t, "cancel", d)
    BY CloseItems
  <1> QED BY <1>1, <1>2, <1>3, CancelGen

\* The head of the loop's queue, of a kind that is about a chunk.
LEMMA HeadOf ==
  ASSUME BridgeInv, NEW k \in {"deliver", "step", "cancel", "done"}, Runs(k)
  PROVE  \E c \in Chunks : /\ ready # <<>> /\ Head(ready) = <<k, c>> /\ Head(ready)[2] = c
                           /\ Has(k, c)
  <1>1. ready \in Seq(Items)
    BY DEF BridgeInv, BridgeTypes
  <1>2. PICK c \in Chunks : ready # <<>> /\ Head(ready) = <<k, c>> /\ Head(ready)[2] = c
    BY <1>1, HeadItem
  <1>3. Has(k, c)
    <2>1. 1 \in 1 .. Len(ready) /\ ready[1] = <<k, c>>
      BY <1>1, <1>2
    <2> QED BY <2>1 DEF Has, HasIn
  <1> QED BY <1>2, <1>3

LEMMA MakeTaskGen ==
  ASSUME BridgeInv, GenInv, MakeTask
  PROVE  GenInv'
  <1>1. PICK c \in Chunks : /\ ready # <<>> /\ Head(ready) = <<"deliver", c>>
                            /\ Head(ready)[2] = c /\ Has("deliver", c)
    BY HeadOf DEF MakeTask
  <1> DEFINE t == << <<"step", c>> >>
  <1>2. /\ UNCHANGED <<bridgeClosed, generation, submitted, gen, must, future, queue>>
        /\ ended' = ended /\ place' = [place EXCEPT ![c] = "new"]
        /\ ready' = Tail(ready) \o t
    BY <1>1 DEF MakeTask, bridge, Then
  <1>3. t \in Seq(Items) /\ ~HasIn(t, "close", 0) /\ ~HasIn(t, "end", 0)
    <2>1. t \in Seq(Items)
      BY ItemsOf
    <2>2. \A l, d : HasIn(t, l, d) <=> l = "step" /\ d = c
      BY OneItem
    <2> QED BY <2>1, <2>2
  <1>5. place[c] = "created"
    BY <1>1 DEF BridgeInv, PlacesOK
  <1> HIDE DEF t
  <1>6. Moved("deliver", c, t)
    BY <1>1, <1>2, <1>3, MovedByPop DEF BridgeInv, BridgeTypes
  <1>7. \A d \in Chunks : Live(d)' => Live(d)
    BY <1>2, <1>5 DEF BridgeInv, TaskTypes, Live
  <1>8. submitted' \in Nat /\ submitted <= submitted' /\ (ended' => bridgeClosed')
    BY <1>2, BoundsArePositive DEF BridgeInv, BridgeTypes, GenInv, ClosedOK
  <1>9. "deliver" # "cancel" /\ "deliver" \notin Drops
    BY DEF Drops
  <1> QED BY <1>2, <1>3, <1>6, <1>7, <1>8, <1>9, GenStays

LEMMA CancelTaskGen ==
  ASSUME BridgeInv, GenInv, CancelTask
  PROVE  GenInv'
  <1>1. PICK c \in Chunks : /\ ready # <<>> /\ Head(ready) = <<"cancel", c>>
                            /\ Head(ready)[2] = c
    BY HeadOf DEF CancelTask
  <1> DEFINE t == IF place[c] # "over" /\ ~Scheduled(c) THEN << <<"step", c>> >> ELSE <<>>
  <1>2. /\ UNCHANGED <<bridgeClosed, generation, submitted, gen, place, future, queue>>
        /\ ended' = ended /\ must' = [must EXCEPT ![c] = place[c] # "over"]
        /\ ready' = Tail(ready) \o t
    BY <1>1 DEF CancelTask, bridge, Then
  <1>3. t \in Seq(Items) /\ ~HasIn(t, "close", 0) /\ ~HasIn(t, "end", 0)
    <2> DEFINE one == << <<"step", c>> >>
    <2>1. one \in Seq(Items) /\ ~HasIn(one, "close", 0) /\ ~HasIn(one, "end", 0)
      <3>1. one \in Seq(Items)
        BY ItemsOf
      <3>2. \A l, d : HasIn(one, l, d) <=> l = "step" /\ d = c
        BY OneItem
      <3> QED BY <3>1, <3>2
    <2>2. <<>> \in Seq(Items) /\ ~HasIn(<<>>, "close", 0) /\ ~HasIn(<<>>, "end", 0)
      BY ItemsOf, NoItem
    <2>3. t = one \/ t = <<>>
      OBVIOUS
    <2> HIDE DEF t, one
    <2> QED BY <2>1, <2>2, <2>3
  <1> HIDE DEF t
  <1>4. Moved("cancel", c, t)
    BY <1>1, <1>2, <1>3, MovedByPop DEF BridgeInv, BridgeTypes
  <1>5. /\ \A d \in Chunks : d # c => must'[d] = must[d]
        /\ must'[c] = (place[c] # "over")
    BY <1>2 DEF BridgeInv, TaskTypes
  <1>6. \A d \in Chunks : Live(d)' => Live(d) /\ (must[d] => must'[d])
    BY <1>2, <1>5 DEF Live
  <1>7. must'[c] \/ ~Live(c)'
    BY <1>2, <1>5 DEF Live
  <1>8. submitted' \in Nat /\ submitted <= submitted' /\ (ended' => bridgeClosed')
    BY <1>2, BoundsArePositive DEF BridgeInv, BridgeTypes, GenInv, ClosedOK
  <1>9. "cancel" \notin Drops
    BY DEF Drops
  <1> QED BY <1>2, <1>3, <1>4, <1>6, <1>7, <1>8, <1>9, GenStays

LEMMA DoneGen ==
  ASSUME BridgeInv, GenInv, Done
  PROVE  GenInv'
  <1>1. PICK c \in Chunks : /\ ready # <<>> /\ Head(ready) = <<"done", c>>
                            /\ Head(ready)[2] = c /\ Has("done", c)
    BY HeadOf DEF Done
  <1>2. /\ UNCHANGED <<bridgeClosed, generation, submitted, gen, place, must, queue>>
        /\ ended' = ended /\ ready' = Tail(ready) \o <<>>
        /\ future' = [future EXCEPT ![c] = IF Reports(c) THEN "reported" ELSE "cancelled"]
    BY <1>1 DEF Done, bridge, tasks, Then
  <1>3. /\ <<>> \in Seq(Items) /\ ~HasIn(<<>>, "close", 0) /\ ~HasIn(<<>>, "end", 0)
    BY ItemsOf, NoItem
  <1>4. Moved("done", c, <<>>)
    BY <1>1, <1>2, <1>3, MovedByPop DEF BridgeInv, BridgeTypes
  <1>5. ~Live(c)
    BY <1>1 DEF BridgeInv, PlacesOK, Live
  <1>6. \A d \in Chunks : Live(d)' => Live(d) /\ future'[d] = future[d]
    BY <1>2, <1>5 DEF BridgeInv, TaskTypes, Live
  <1>8. submitted' \in Nat /\ submitted <= submitted' /\ (ended' => bridgeClosed')
    BY <1>2, BoundsArePositive DEF BridgeInv, BridgeTypes, GenInv, ClosedOK
  <1>9. "done" # "cancel" /\ "done" \notin Drops
    BY DEF Drops
  <1> QED BY <1>2, <1>3, <1>4, <1>6, <1>8, <1>9, GenStays

\* A step of a delivery, when no frame is put.
LEMMA LeavesGen ==
  ASSUME BridgeInv, GenInv,
         UNCHANGED <<bridgeClosed, generation, submitted, gen, future, queue>>, ended' = ended,
         NEW c \in Chunks, NEW p, place' = [place EXCEPT ![c] = p],
         NEW t, Moved("step", c, t), Live(c), p = "over" \/ must' = must,
         \A d \in Chunks : d # c => must'[d] = must[d],
         ~HasIn(t, "close", 0) /\ ~HasIn(t, "end", 0)
  PROVE  GenInv'
  <1>1. \A d \in Chunks : d # c => place'[d] = place[d]
    BY DEF BridgeInv, TaskTypes
  <1>2. place'[c] = p
    BY DEF BridgeInv, TaskTypes
  <1>3. \A d \in Chunks : Live(d)' => Live(d) /\ (must[d] => must'[d])
    <2> TAKE d \in Chunks
    <2>1. CASE d = c
      BY <1>2, <2>1 DEF Live
    <2>2. CASE d # c
      BY <1>1, <2>2 DEF Live
    <2> QED BY <2>1, <2>2
  <1>4. submitted' \in Nat /\ submitted <= submitted' /\ (ended' => bridgeClosed')
    BY BoundsArePositive DEF BridgeInv, BridgeTypes, GenInv, ClosedOK
  <1>5. "step" # "cancel" /\ "step" \notin Drops
    BY DEF Drops
  <1> QED BY <1>3, <1>4, <1>5, GenStays

LEMMA StepsLive ==
  ASSUME BridgeInv, NEW c \in Chunks, Has("step", c)
  PROVE  Live(c) /\ c \in 1 .. submitted
  <1>1. place[c] \in {"new", "lock", "put"} /\ c <= submitted
    BY DEF BridgeInv, PlacesOK
  <1>2. submitted \in Nat /\ c >= 1 /\ c \in Nat
    BY BoundsArePositive DEF BridgeInv, BridgeTypes, Chunks
  <1> QED BY <1>1, <1>2 DEF Live

LEMMA AbortsGen ==
  ASSUME BridgeInv, GenInv,
         UNCHANGED <<bridge, pending, worker, submitted, gen, future, ended, shown>>,
         NEW c \in Chunks, ready # <<>>, Head(ready) = <<"step", c>>, Has("step", c), Aborts(c)
  PROVE  GenInv'
  <1>1. /\ UNCHANGED <<bridgeClosed, generation, submitted, gen, future, queue>>
        /\ ended' = ended /\ place' = [place EXCEPT ![c] = "over"]
        /\ must' = [must EXCEPT ![c] = TRUE]
    BY DEF Aborts, Over, bridge
  <1>2. PICK t \in Seq(Items) :
            /\ ready' = Tail(ready) \o t
            /\ \A k, d : HasIn(t, k, d) =>
                  \/ /\ k = "step" /\ d \in Chunks /\ d # c /\ place[d] = "lock"
                     /\ ~Has("step", d) /\ holder' = Nobody /\ waiters'[1] = d
                  \/ k = "done" /\ d = c
            /\ HasIn(t, "done", c)
            /\ \A k, d : ~BeforeIn(t, k, d, k, d)
    BY AbortsItems
  <1>3. ~HasIn(t, "close", 0) /\ ~HasIn(t, "end", 0)
    <2>1. \A l \in {"close", "end"} : \A d : ~HasIn(t, l, d)
      BY <1>2
    <2> QED BY <2>1
  <1>4. Moved("step", c, t)
    <2>1. ready \in Seq(Items) /\ ready' = Tail(ready) \o t
      BY <1>2 DEF BridgeInv, BridgeTypes
    <2> QED BY <2>1, MovedByPop
  <1>5. Live(c)
    BY StepsLive
  <1>6. \A d \in Chunks : d # c => must'[d] = must[d]
    BY <1>1 DEF BridgeInv, TaskTypes
  <1> DEFINE p == "over"
  <1>7. place' = [place EXCEPT ![c] = p] /\ p = "over"
    BY <1>1
  <1> HIDE DEF p
  <1> QED BY <1>1, <1>3, <1>4, <1>5, <1>6, <1>7, LeavesGen

LEMMA WaitsGen ==
  ASSUME BridgeInv, GenInv,
         UNCHANGED <<bridge, pending, worker, submitted, gen, future, ended, shown>>,
         NEW c \in Chunks, ready # <<>>, Head(ready) = <<"step", c>>, Has("step", c), Waits(c)
  PROVE  GenInv'
  <1> DEFINE p == "lock"
  <1>1. /\ UNCHANGED <<bridgeClosed, generation, submitted, gen, future, queue>>
        /\ ended' = ended /\ place' = [place EXCEPT ![c] = p]
        /\ must' = must /\ ready' = Tail(ready) \o <<>>
    BY DEF Waits, bridge, Then
  <1> HIDE DEF p
  <1>2. <<>> \in Seq(Items) /\ ~HasIn(<<>>, "close", 0) /\ ~HasIn(<<>>, "end", 0)
    BY ItemsOf, NoItem
  <1>3. Moved("step", c, <<>>)
    BY <1>1, <1>2, MovedByPop DEF BridgeInv, BridgeTypes
  <1>4. Live(c)
    BY StepsLive
  <1> QED BY <1>1, <1>2, <1>3, <1>4, LeavesGen

LEMMA PutsGen ==
  ASSUME BridgeInv, GenInv,
         UNCHANGED <<bridge, pending, worker, submitted, gen, future, ended, shown>>,
         NEW c \in Chunks, ready # <<>>, Head(ready) = <<"step", c>>, Has("step", c), Puts(c)
  PROVE  GenInv'
  <1>1. /\ UNCHANGED <<bridgeClosed, generation, submitted, gen, future>> /\ ended' = ended
    BY DEF bridge
  <1>2. /\ waiters' = RemoveFirst(waiters, c) /\ FramesFrom(queue', queue, c)
        /\ ~must[c] /\ (place[c] = "put" \/ ~Stale(c))
        /\ \/ /\ place' = [place EXCEPT ![c] = "put"]
              /\ must' = must
              /\ ready' = Tail(ready) \o <<>>
           \/ /\ place' = [place EXCEPT ![c] = "over"]
              /\ must' = [must EXCEPT ![c] = Stale(c)]
              /\ ready' = Tail(ready) \o
                     (WakeFirst(waiters') \o (IF Stale(c) THEN Flush(c) ELSE <<>>)
                       \o << <<"done", c>> >>)
    BY PutsFacts
  <1>3. Live(c) /\ c \in 1 .. submitted
    BY StepsLive
  <1>4. \E t \in Seq(Items) : /\ ready' = Tail(ready) \o t
                              /\ ~HasIn(t, "close", 0) /\ ~HasIn(t, "end", 0)
    <2>1. CASE ready' = Tail(ready) \o <<>>
      BY <2>1, ItemsOf, NoItem
    <2>2. CASE ready' = Tail(ready) \o
                     (WakeFirst(waiters') \o (IF Stale(c) THEN Flush(c) ELSE <<>>)
                       \o << <<"done", c>> >>)
      <3>1. PICK t \in Seq(Items) :
            /\ ready' = Tail(ready) \o t
            /\ \A k, d : HasIn(t, k, d) =>
                  \/ /\ k = "step" /\ d \in Chunks /\ d # c /\ place[d] = "lock"
                     /\ ~Has("step", d) /\ waiters'[1] = d
                  \/ k = "flush" /\ d = c /\ Stale(c)
                  \/ k = "done" /\ d = c
            /\ HasIn(t, "done", c)
            /\ Stale(c) => HasIn(t, "flush", c)
            /\ \A k, d : ~BeforeIn(t, k, d, k, d)
        BY <1>2, <2>2, PutsItems
      <3>2. \A l \in {"close", "end"} : \A d : ~HasIn(t, l, d)
        BY <3>1
      <3>3. ~HasIn(t, "close", 0) /\ ~HasIn(t, "end", 0)
        BY <3>2
      <3>4. ready' = Tail(ready) \o t
        BY <3>1
      <3> QED BY <3>3, <3>4
    <2> QED BY <1>2, <2>1, <2>2
  <1>5. PICK t \in Seq(Items) : /\ ready' = Tail(ready) \o t
                                /\ ~HasIn(t, "close", 0) /\ ~HasIn(t, "end", 0)
    BY <1>4
  <1>6. Moved("step", c, t)
    <2>1. ready \in Seq(Items) /\ ready' = Tail(ready) \o t
      BY <1>5 DEF BridgeInv, BridgeTypes
    <2> QED BY <2>1, MovedByPop
  <1>7. \A d \in Chunks : Live(d)' => Live(d) /\ (must[d] => must'[d])
    <2> TAKE d \in Chunks
    <2>1. CASE d = c
      BY <1>2, <1>3, <2>1
    <2>2. CASE d # c
      BY <1>1, <1>2, <2>2 DEF Live, BridgeInv, TaskTypes
    <2> QED BY <2>1, <2>2
  <1>8. submitted' \in Nat /\ submitted <= submitted' /\ (ended' => bridgeClosed')
    <2>1. submitted \in Nat /\ submitted' = submitted
      BY <1>1, BoundsArePositive DEF BridgeInv, BridgeTypes
    <2>2. ended' => bridgeClosed'
      BY <1>1 DEF GenInv, ClosedOK
    <2> QED BY <2>1, <2>2
  <1>9. "step" # "cancel" /\ "step" \notin Drops
    BY DEF Drops
  <1>10. gen[c] = generation \/ Dropping' \/ bridgeClosed'
    <2> SUFFICES ASSUME gen[c] # generation, ~bridgeClosed PROVE Dropping'
      BY <1>1
    <2>1. gen[c] < generation
      BY ValuesToCheck DEF BridgeInv, BridgeTypes
    <2>2. PICK k \in Drops, m \in Marks : Before("cancel", c, k, m)
      BY <1>2, <1>3, <2>1 DEF GenInv, OldOK
    <2>3. Has(k, m)
      BY <2>2 DEF Before, BeforeIn, Has, HasIn
    <2>4. Has(k, m)'
      BY <1>6, <1>9, <2>3 DEF Moved
    <2> QED BY <2>4 DEF Dropping
  <1>11. \A i \in 1 .. Len(queue') :
            \/ \E j \in 1 .. Len(queue) : queue'[i] = queue[j]
            \/ ended'
            \/ /\ queue'[i] \in 1 .. submitted
               /\ gen[queue'[i]] = generation \/ Dropping' \/ bridgeClosed'
    BY <1>2, <1>3, <1>10 DEF FramesFrom
  <1> QED BY <1>1, <1>5, <1>6, <1>7, <1>8, <1>9, <1>11, GenStays

LEMMA StepGen ==
  ASSUME BridgeInv, GenInv, Step
  PROVE  GenInv'
  <1>1. PICK c \in Chunks : /\ ready # <<>> /\ Head(ready) = <<"step", c>>
                            /\ Head(ready)[2] = c /\ Has("step", c)
    BY HeadOf DEF Step
  <1>2. /\ UNCHANGED <<bridge, pending, worker, submitted, gen, future, ended, shown>>
        /\ Aborts(c) \/ Waits(c) \/ Puts(c)
    BY <1>1 DEF Step
  <1> QED BY <1>1, <1>2, AbortsGen, WaitsGen, PutsGen

\* A step of the track: frames leave it, and it wakes at most a delivery.
LEMMA TrackGen ==
  ASSUME BridgeInv, GenInv,
         UNCHANGED <<bridge, pending, worker, submitted, gen, tasks, future>>,
         NEW k, NEW c, NEW t, Moved(k, c, t), k # "cancel",
         ended => ended', ended' => bridgeClosed,
         HasIn(t, "close", 0) \/ HasIn(t, "end", 0) => bridgeClosed,
         k \in Drops => Dropping' \/ bridgeClosed \/ queue' = <<>>,
         \A i \in 1 .. Len(queue') : ended' \/ \E j \in 1 .. Len(queue) : queue'[i] = queue[j]
  PROVE  GenInv'
  <1>1. UNCHANGED <<bridgeClosed, generation, submitted, gen, place, must, future>>
    BY DEF bridge, tasks
  <1>2. submitted' \in Nat /\ submitted <= submitted'
    BY <1>1, BoundsArePositive DEF BridgeInv, BridgeTypes
  <1>3. \A d \in Chunks : Live(d)' => Live(d) /\ (must[d] => must'[d])
    BY <1>1 DEF Live
  <1> QED BY <1>1, <1>2, <1>3, GenStays

LEMMA MakeTrackTaskGen ==
  ASSUME BridgeInv, GenInv, MakeTrackTask
  PROVE  GenInv'
  <1>1. /\ UNCHANGED <<bridge, pending, worker, submitted, gen, tasks, future>>
        /\ queue' = queue /\ ended' = ended
    BY DEF MakeTrackTask
  <1>2. ready \in Seq(Items) /\ (ended => bridgeClosed)
    BY DEF BridgeInv, BridgeTypes, GenInv, ClosedOK
  <1>3. CASE Runs("flush") /\ Then(<< <<"empty", Head(ready)[2]>> >>)
    <2>1. PICK m \in Marks : /\ ready # <<>> /\ Head(ready) = <<"flush", m>>
                             /\ m = Head(ready)[2]
      BY <1>2, <1>3, HeadItem DEF Marks
    <2> DEFINE t == << <<"empty", m>> >>
    <2>2. t \in Seq(Items)
      BY <2>1, ItemsOf DEF Marks
    <2>3. \A l, d : HasIn(t, l, d) <=> l = "empty" /\ d = m
      BY OneItem
    <2>4. ready' = Tail(ready) \o t
      BY <1>3, <2>1 DEF Then
    <2> HIDE DEF t
    <2>5. Moved("flush", m, t)
      BY <1>2, <2>1, <2>2, <2>4, MovedByPop
    <2>6. Dropping'
      <3>1. HasIn(t, "empty", m)
        BY <2>3
      <3>2. Has("empty", m)'
        BY <2>5, <3>1 DEF Moved
      <3> DEFINE k == "empty"
      <3>3. k \in Drops /\ Has(k, m)'
        BY <3>2 DEF Drops
      <3> HIDE DEF k
      <3> QED BY <2>1, <3>3 DEF Dropping
    <2>7. ~HasIn(t, "close", 0) /\ ~HasIn(t, "end", 0) /\ "flush" # "cancel"
      BY <2>3
    <2> QED BY <1>1, <1>2, <2>5, <2>6, <2>7, TrackGen
  <1>4. CASE Runs("close") /\ Then(<< <<"end", 0>> >>)
    <2> DEFINE t == << <<"end", 0>> >>
    <2>1. ready # <<>> /\ Head(ready) = <<"close", 0>>
      BY <1>2, <1>4, HeadItem
    <2>2. t \in Seq(Items)
      BY ItemsOf
    <2>3. ready' = Tail(ready) \o t
      BY <1>4 DEF Then
    <2> HIDE DEF t
    <2>4. Moved("close", 0, t)
      BY <1>2, <2>1, <2>2, <2>3, MovedByPop
    <2>5. bridgeClosed
      <3>1. 1 \in 1 .. Len(ready) /\ ready[1] = <<"close", 0>>
        BY <1>2, <2>1
      <3>2. Has("close", 0)
        BY <3>1 DEF Has, HasIn
      <3> QED BY <3>2 DEF GenInv, ClosedOK
    <2>6. "close" # "cancel"
      OBVIOUS
    <2> QED BY <1>1, <1>2, <2>4, <2>5, <2>6, TrackGen
  <1> QED BY <1>3, <1>4 DEF MakeTrackTask

LEMMA WakesOnly ==
  ASSUME BridgeInv
  PROVE  /\ WakePutter \in Seq(Items)
         /\ ~HasIn(WakePutter, "close", 0) /\ ~HasIn(WakePutter, "end", 0)
  <1>1. /\ WakePutter \in Seq(Items)
        /\ \A k, c : HasIn(WakePutter, k, c) =>
               k = "step" /\ c = holder /\ c \in Chunks /\ place[c] = "put" /\ ~Has("step", c)
    BY WakePutterFacts DEF BridgeInv
  <1> QED BY <1>1

LEMMA EmptyGen ==
  ASSUME BridgeInv, GenInv, Empty
  PROVE  GenInv'
  <1> DEFINE t == IF ~ended /\ queue # <<>> THEN WakePutter ELSE <<>>
  <1>1. /\ UNCHANGED <<bridge, pending, worker, submitted, gen, tasks, future>>
        /\ ended' = ended /\ Runs("empty")
        /\ IF ended THEN queue' = queue ELSE queue' = <<>>
        /\ ready' = Tail(ready) \o t
    BY DEF Empty, Then
  <1>2. ready \in Seq(Items) /\ (ended => bridgeClosed)
    BY DEF BridgeInv, BridgeTypes, GenInv, ClosedOK
  <1>3. PICK m : ready # <<>> /\ Head(ready) = <<"empty", m>>
    BY <1>1, <1>2, HeadItem
  <1>4. t \in Seq(Items) /\ ~HasIn(t, "close", 0) /\ ~HasIn(t, "end", 0)
    BY WakesOnly, ItemsOf, NoItem
  <1> HIDE DEF t
  <1>5. Moved("empty", m, t)
    BY <1>1, <1>2, <1>3, <1>4, MovedByPop
  <1>6. bridgeClosed \/ queue' = <<>>
    BY <1>1, <1>2
  <1>7. \A i \in 1 .. Len(queue') : ended' \/ \E j \in 1 .. Len(queue) : queue'[i] = queue[j]
    BY <1>1
  <1>8. "empty" # "cancel"
    OBVIOUS
  <1> QED BY <1>1, <1>2, <1>4, <1>5, <1>6, <1>7, <1>8, TrackGen

LEMMA EndTrackGen ==
  ASSUME BridgeInv, GenInv, EndTrack
  PROVE  GenInv'
  <1> DEFINE t == IF queue # <<>> THEN WakePutter ELSE <<>>
  <1>1. /\ UNCHANGED <<bridge, pending, worker, submitted, gen, tasks, future>>
        /\ ended' = TRUE /\ Runs("end")
        /\ ready' = Tail(ready) \o t
    BY DEF EndTrack, Then
  <1>2. ready \in Seq(Items)
    BY DEF BridgeInv, BridgeTypes
  <1>3. ready # <<>> /\ Head(ready) = <<"end", 0>>
    BY <1>1, <1>2, HeadItem
  <1>4. t \in Seq(Items) /\ ~HasIn(t, "close", 0) /\ ~HasIn(t, "end", 0)
    BY WakesOnly, ItemsOf, NoItem
  <1> HIDE DEF t
  <1>5. Moved("end", 0, t)
    BY <1>1, <1>2, <1>3, <1>4, MovedByPop
  <1>6. bridgeClosed
    <2>1. 1 \in 1 .. Len(ready) /\ ready[1] = <<"end", 0>>
      BY <1>2, <1>3
    <2>2. Has("end", 0)
      BY <2>1 DEF Has, HasIn
    <2> QED BY <2>2 DEF GenInv, ClosedOK
  <1>7. "end" # "cancel"
    OBVIOUS
  <1> QED BY <1>1, <1>4, <1>5, <1>6, <1>7, TrackGen

LEMMA TakeFrameGen ==
  ASSUME BridgeInv, GenInv, TakeFrame
  PROVE  GenInv'
  <1>1. /\ UNCHANGED <<bridge, pending, worker, submitted, gen, tasks, future>>
        /\ ended' = ended /\ ~ended /\ queue # <<>> /\ queue' = Tail(queue)
        /\ ready' = ready \o WakePutter
    BY DEF TakeFrame
  <1>2. Moved("nothing", 0, WakePutter)
    <2>1. ready \in Seq(Items) /\ WakePutter \in Seq(Items)
      BY WakesOnly DEF BridgeInv, BridgeTypes
    <2> DEFINE t == WakePutter
    <2>2. t \in Seq(Items) /\ ready' = ready \o t
      BY <1>1, <2>1
    <2> HIDE DEF t
    <2>3. Moved("nothing", 0, t)
      BY <2>1, <2>2, MovedByAppend
    <2> QED BY <2>3 DEF t
  <1>3. \A i \in 1 .. Len(queue') : \E j \in 1 .. Len(queue) : queue'[i] = queue[j]
    <2>1. queue \in Seq(0 .. MaxChunks)
      BY DEF BridgeInv, QueueOK
    <2>2. /\ Len(queue') = Len(queue) - 1 /\ Len(queue) \in Nat
          /\ \A i \in 1 .. Len(queue') : queue'[i] = queue[i + 1]
      BY <1>1, <2>1, HeadTailProperties
    <2>3. \A i \in 1 .. Len(queue') : i + 1 \in 1 .. Len(queue)
      BY <2>2
    <2> QED BY <2>2, <2>3
  <1>4. "nothing" # "cancel" /\ "nothing" \notin Drops
    BY DEF Drops
  <1> QED BY <1>1, <1>2, <1>3, <1>4, WakesOnly, TrackGen

\* A new generation: what is under way gets old, and is cancelled before the
\* track is flushed.
LEMMA BeginGenerationGen ==
  ASSUME BridgeInv, GenInv, BeginGeneration
  PROVE  GenInv'
  <1>1. /\ UNCHANGED <<bridgeClosed, submitted, gen, place, must, queue, ended>>
        /\ generation' = generation + 1 /\ Settle(pending) /\ Runs("turn")
    BY DEF BeginGeneration, tasks
  <1>2. PICK t \in Seq(Items) :
            /\ Moved("turn", 0, t)
            /\ \A l, d : HasIn(t, l, d) <=>
                  (l = "cancel" /\ d \in Cancellable(pending)) \/ (l = "flush" /\ d = submitted)
            /\ \A d \in Cancellable(pending) : BeforeIn(t, "cancel", d, "flush", submitted)
    BY BeginGenerationItems
  <1>3. PICK m \in Marks : m = submitted
    BY DEF Marks, BridgeInv, BridgeTypes
  <1>4. HasIn(t, "flush", m)
    BY <1>2, <1>3
  <1>5. Has("flush", m)'
    BY <1>2, <1>4 DEF Moved
  <1> DEFINE k == "flush"
  <1>6. k \in Drops /\ k = "flush"
    BY DEF Drops
  <1> HIDE DEF k
  <1>7. ClosedOK'
    <2>1. \A l \in {"close", "end"} : Has(l, 0)' => Has(l, 0)
      <3>1. \A l \in {"close", "end"} : ~HasIn(t, l, 0)
        BY <1>2
      <3> QED BY <1>2, <3>1 DEF Moved
    <2> QED BY <1>1, <2>1 DEF GenInv, ClosedOK
  <1>8. \A d \in Chunks : Live(d) /\ ~must[d] => Has("cancel", d) \/ d \in Cancellable(pending)
    <2> SUFFICES ASSUME NEW d \in Chunks, Live(d), ~must[d], d \notin Cancellable(pending)
                 PROVE  Has("cancel", d)
      OBVIOUS
    <2>1. worker.stale = {}
      <3>1. ready \in Seq(Items) /\ ready # <<>> /\ Head(ready) = <<"turn", 0>>
        BY <1>1, HeadItem DEF BridgeInv, BridgeTypes
      <3>2. 1 \in 1 .. Len(ready) /\ ready[1] = <<"turn", 0>>
        BY <3>1
      <3>3. Has("turn", 0)
        BY <3>2 DEF Has, HasIn
      <3> QED BY <3>3 DEF BridgeInv, TurnOK, WorkerOK
    <2>2. future[d] = "cancelled"
      BY <2>1 DEF BridgeInv, FuturesOK, Cancellable
    <2> QED BY <2>2 DEF GenInv, ToldOK
  <1>9. \A d \in Chunks : Live(d) /\ ~must[d] =>
              Has("cancel", d)' /\ Before("cancel", d, "flush", m)'
    <2> TAKE d \in Chunks
    <2>1. CASE Has("cancel", d)
      <3>1. Has("cancel", d)' /\ Before("cancel", d, "flush", m)'
        BY <1>2, <1>4, <2>1 DEF Moved
      <3> QED BY <3>1
    <2>2. CASE d \in Cancellable(pending)
      <3>1. HasIn(t, "cancel", d) /\ BeforeIn(t, "cancel", d, "flush", m)
        BY <1>2, <1>3, <2>2
      <3>2. Has("cancel", d)' /\ Before("cancel", d, "flush", m)'
        BY <1>2, <3>1 DEF Moved
      <3> QED BY <3>2
    <2> QED BY <1>8, <2>1, <2>2
  <1>10. ToldOK'
    BY <1>1, <1>9 DEF ToldOK, Live
  <1>11. OldOK'
    <2> SUFFICES ASSUME NEW d \in Chunks, Live(d)', ~must'[d]
                 PROVE  \E l \in Drops, n \in Marks : Before("cancel", d, l, n)'
      BY DEF OldOK
    <2>1. Before("cancel", d, k, m)'
      BY <1>1, <1>6, <1>9 DEF Live
    <2> QED BY <1>6, <2>1
  <1>12. FramesOK'
    BY <1>1 DEF GenInv, FramesOK
  <1>13. TrackOK'
    <2>1. Dropping'
      BY <1>5, <1>6 DEF Dropping
    <2> QED BY <2>1 DEF TrackOK
  <1> QED BY <1>7, <1>10, <1>11, <1>12, <1>13 DEF GenInv

LEMMA InitGen == BridgeInit => GenInv
  <1> SUFFICES ASSUME BridgeInit PROVE GenInv
    OBVIOUS
  <1>1. \A k, c : Has(k, c) <=> k = "turn" /\ c = 0
    BY OneItem DEF BridgeInit, Has
  <1>2. ClosedOK
    BY <1>1 DEF BridgeInit, ClosedOK
  <1>3. \A c \in Chunks : ~Live(c)
    BY BoundsArePositive DEF BridgeInit, Live, Chunks
  <1>4. ToldOK /\ OldOK
    BY <1>3 DEF ToldOK, OldOK
  <1>5. FramesOK /\ TrackOK
    BY DEF BridgeInit, FramesOK, TrackOK
  <1> QED BY <1>2, <1>4, <1>5 DEF GenInv

LEMMA GenNext ==
  ASSUME BridgeInv, GenInv, [BridgeNext]_bridgeVars
  PROVE  GenInv'
  <1>1. CASE Worker
    BY <1>1, SectionGen, CancelStaleGen, ScheduleGen, PlanGen DEF Worker
  <1>2. CASE Loop
    BY <1>2, TurnGen, BeginGenerationGen, MakeTaskGen, CancelTaskGen, StepGen, DoneGen,
       MakeTrackTaskGen, EmptyGen, EndTrackGen, CloseGen DEF Loop
  <1>3. CASE CloseBridge
    BY <1>3, CloseGen
  <1>4. CASE TakeFrame
    BY <1>4, TakeFrameGen
  <1>5. CASE UNCHANGED bridgeVars
    <2>1. /\ UNCHANGED <<bridgeClosed, generation, submitted, gen, place, must, future, queue>>
          /\ ended' = ended /\ ready' = ready
      BY <1>5 DEF bridgeVars, bridge, tasks
    <2>2. Moved("nothing", 0, <<>>)
      BY <2>1, NothingMoves
    <2>3. "nothing" # "cancel" /\ "nothing" \notin Drops
      BY DEF Drops
    <2>4. ~HasIn(<<>>, "close", 0) /\ ~HasIn(<<>>, "end", 0)
      BY NoItem
    <2> QED BY <2>1, <2>2, <2>3, <2>4, QuietGen
  <1> QED BY <1>1, <1>2, <1>3, <1>4, <1>5 DEF BridgeNext

\* begin_generation cancels what it finds under way and schedules the flush
\* after that: once the flush has run no frame of an older generation is in the
\* track, though a delivery of one may have been in the middle of its frames
\* (services.py, BufferedVideoTrack.flush).
THEOREM NewGenerationStartsClean == BridgeSpec => []OldGenerationLeavesTrack
  <1> DEFINE Inv == BridgeInv /\ GenInv
  <1>1. BridgeInit => Inv
    BY InitBridge, InitGen
  <1>2. Inv /\ [BridgeNext]_bridgeVars => Inv'
    BY BridgeStays, GenNext
  <1>3. Inv => OldGenerationLeavesTrack
    <2> SUFFICES ASSUME Inv, ~bridgeClosed PROVE OldGenerationLeavesTrack
      BY DEF OldGenerationLeavesTrack
    <2>1. ASSUME Dropping PROVE \E i \in 1 .. Len(ready) : ready[i][1] \in {"flush", "empty"}
      BY <2>1 DEF Dropping, Has, HasIn, Drops
    <2> QED BY <2>1 DEF GenInv, TrackOK, OldGenerationLeavesTrack
  <1> QED BY <1>1, <1>2, <1>3, PTL DEF BridgeSpec

-----------------------------------------------------------------------------
(***************************************************************************)
(* The order of the frames.  Deliveries are in step: of two that are not   *)
(* over the older is at least as far as the younger, so who puts frames is *)
(* the oldest of all.                                                      *)
(***************************************************************************)
Rank(c) == IF place[c] = "put" THEN 3 ELSE IF place[c] = "lock" THEN 2
           ELSE IF place[c] = "new" THEN 1 ELSE 0

CancelsFirst == \A c \in Chunks : ~Before("turn", 0, "cancel", c)
RankOK == \A c, d \in Chunks : c < d /\ Live(c) /\ Live(d) => Rank(d) <= Rank(c)
WaitersInOrder == \A i, j \in 1 .. Len(waiters) : i < j => waiters[i] < waiters[j]
NewOK == \A c \in Chunks : place[c] = "new" => Has("step", c)
DeliversInOrder == \A c, d \in Chunks : c < d => ~Before("deliver", d, "deliver", c)
StepsInOrder == \A c, d \in Chunks :
    c < d /\ place[c] = "new" /\ place[d] = "new" => ~Before("step", d, "step", c)

RankInv == CancelsFirst /\ RankOK /\ WaitersInOrder /\ NewOK /\ DeliversInOrder /\ StepsInOrder

InTrack(d) == \E i \in 1 .. Len(queue) : queue[i] = d

\* What was shown, what is in the track, what is to come.
OrderOK == ~ended =>
    /\ \A i, j \in 1 .. Len(queue) : i < j => queue[i] <= queue[j]
    /\ \A i \in 1 .. Len(queue) : shown <= queue[i]
    /\ \A c \in Chunks : Live(c) => shown <= c /\ \A i \in 1 .. Len(queue) : queue[i] <= c
    /\ shown <= submitted

\* What an overflow takes is the newest that is under way: a younger chunk than
\* one of it is over, and its frames have left the track.
Gone(d) == place[d] = "over" /\ ~InTrack(d)
Newest(cs) == \A c \in cs : \A d \in Chunks : c <= d /\ d <= submitted => d \in cs \/ Gone(d)
NewestOK == ~ended => Newest(pending) /\ Newest(worker.stale)
DoneOK == \A c \in pending : place[c] = "over" => Has("done", c)
DoneInOrder == ~ended => \A c, d \in Chunks :
    c < d /\ Before("done", d, "done", c) => ~InTrack(d)
CurrentOK == ~bridgeClosed => \A c \in pending \cup worker.stale : gen[c] = generation

\* An older generation is cancelled before the driver writes for the new one.
OldCancels == ~bridgeClosed => \A c \in Chunks :
    gen[c] < generation /\ Has("cancel", c) =>
       ~Writing /\ \A d \in 1 .. submitted : gen[d] < generation

\* A flush meets no frame of a chunk younger than its mark, and none is put
\* before it has run.
Harmless(d) == place[d] = "over" \/ (Stale(d) /\ place[d] # "put")
BeforeFlush(d, m) ==
    Harmless(d) \/ (place[d] = "created" /\ ~Before("deliver", d, "flush", m))
BeforeEmpty(d, m) == \/ Harmless(d) \/ place[d] = "created"
                     \/ place[d] = "new" /\ ~Before("step", d, "empty", m)

MarkOK == ~ended => \A m \in Marks :
    Has("flush", m) \/ Has("empty", m) => \A i \in 1 .. Len(queue) : queue[i] <= m
YoungOK == ~ended => \A m \in Marks : \A d \in Chunks : m < d /\ d <= submitted =>
    /\ Has("flush", m) => BeforeFlush(d, m)
    /\ Has("empty", m) => BeforeEmpty(d, m)

TrackedOK == NewestOK /\ DoneOK /\ DoneInOrder /\ CurrentOK
FlowInv == RankInv /\ OrderOK /\ TrackedOK /\ OldCancels /\ MarkOK /\ YoungOK

LEMMA BeforeHas ==
  /\ \A l, d, m, e : Before(l, d, m, e) => Has(l, d) /\ Has(m, e)
  /\ \A l, d, m, e : Before(l, d, m, e)' => Has(l, d)' /\ Has(m, e)'
  BY DEF Before, BeforeIn, Has, HasIn

\* A step that moves no delivery keeps them in order.
LEMMA RankStays ==
  ASSUME BridgeInv, RankInv, NEW k, NEW c, NEW t, Moved(k, c, t), k # "step",
         UNCHANGED <<submitted, place, waiters>>,
         \A d : HasIn(t, "step", d) => place[d] # "new",
         \A d : ~HasIn(t, "deliver", d),
         \A d \in Chunks : HasIn(t, "cancel", d) => ~Has("turn", 0)'
  PROVE  RankInv'
  <1>1. \A l, d, m, e : Before(l, d, m, e)' => Before(l, d, m, e) \/ HasIn(t, m, e)
    BY DEF Moved
  <1>2. CancelsFirst'
    BY <1>1, BeforeHas DEF RankInv, CancelsFirst
  <1>3. RankOK'
    BY DEF RankInv, RankOK, Live, Rank
  <1>4. WaitersInOrder'
    BY DEF RankInv, WaitersInOrder
  <1>5. NewOK'
    BY DEF RankInv, NewOK, Moved
  <1>6. DeliversInOrder'
    BY <1>1 DEF RankInv, DeliversInOrder
  <1>7. StepsInOrder'
    BY <1>1 DEF RankInv, StepsInOrder
  <1> QED BY <1>2, <1>3, <1>4, <1>5, <1>6, <1>7 DEF RankInv

\* Frames leave the track, or none does; deliveries end, or younger ones come.
LEMMA OrderStays ==
  ASSUME BridgeInv, OrderOK, ended => ended', shown' = shown,
         submitted' \in Nat, submitted <= submitted',
         ended' \/ queue' = queue \/ queue' = <<>>,
         \A d \in Chunks : Live(d)' => Live(d) \/ submitted < d,
         FramesOK
  PROVE  OrderOK'
  <1> SUFFICES ASSUME ~ended' PROVE OrderOK'
    BY DEF OrderOK
  <1>1. submitted \in Nat /\ shown \in Nat /\ \A i \in 1 .. Len(queue) : queue[i] \in Nat
    BY BoundsArePositive, SMTT(20) DEF BridgeInv, BridgeTypes, QueueOK
  <1>2. /\ \A i, j \in 1 .. Len(queue) : i < j => queue[i] <= queue[j]
        /\ \A i \in 1 .. Len(queue) : shown <= queue[i] /\ queue[i] <= submitted
        /\ \A d \in Chunks : Live(d) => shown <= d /\ \A i \in 1 .. Len(queue) : queue[i] <= d
        /\ shown <= submitted
    BY DEF OrderOK, FramesOK
  <1>3. ASSUME NEW d \in Chunks, Live(d)'
        PROVE  shown <= d /\ \A i \in 1 .. Len(queue) : queue[i] <= d
    <2>1. CASE Live(d)
      BY <1>2, <2>1
    <2>2. CASE submitted < d
      BY <1>1, <1>2, <2>2 DEF Chunks
    <2> QED BY <1>3, <2>1, <2>2
  <1>4. shown' <= submitted'
    BY <1>1, <1>2
  <1>5. CASE queue' = queue
    BY <1>2, <1>3, <1>4, <1>5 DEF OrderOK
  <1>6. CASE queue' = <<>>
    <2>1. \A i : i \notin 1 .. Len(queue')
      BY <1>6
    <2> QED BY <1>3, <1>4, <2>1 DEF OrderOK
  <1> QED BY <1>5, <1>6

\* What the bridge tracks stays the newest: frames leave the track, deliveries
\* end with their done in the loop's queue, and what overflows is all of it.
LEMMA TrackedStays ==
  ASSUME BridgeInv, TrackedOK, NEW k, NEW c, NEW t, Moved(k, c, t), k # "done",
         ended => ended', bridgeClosed => bridgeClosed', UNCHANGED <<submitted, gen>>,
         generation' = generation \/ (pending' = {} /\ worker'.stale = {}),
         pending' = pending \/ pending' = {},
         worker'.stale = worker.stale \/ worker'.stale = pending \/ worker'.stale = {},
         \A d \in Chunks : place[d] = "over" => place'[d] = "over",
         \A d \in Chunks : place'[d] = "over" => place[d] = "over" \/ HasIn(t, "done", d),
         \A d \in Chunks : ~ended' /\ InTrack(d)' => InTrack(d) \/ Live(d),
         \A d : HasIn(t, "done", d) /\ ~ended' => \A i \in 1 .. Len(queue') : queue'[i] <= d
  PROVE  TrackedOK'
  <1>1. submitted \in Nat /\ \A d \in Chunks : d \in Nat
    BY BoundsArePositive DEF BridgeInv, BridgeTypes, Chunks
  <1>2. \A d \in Chunks : ~ended' /\ Gone(d) => Gone(d)'
    BY DEF Gone, Live
  <1>3. ASSUME ~ended', NEW cs, cs = pending \/ cs = worker.stale \/ cs = {},
               NEW x \in cs, NEW d \in Chunks, x <= d, d <= submitted
        PROVE  d \in cs \/ Gone(d)'
    <2>1. d \in cs \/ Gone(d)
      BY <1>3 DEF TrackedOK, NewestOK, Newest
    <2> QED BY <1>2, <1>3, <2>1
  <1>4. NewestOK'
    <2> SUFFICES ASSUME ~ended' PROVE Newest(pending)' /\ Newest(worker.stale)'
      BY DEF NewestOK
    <2>1. \A cs : cs = pending \/ cs = worker.stale \/ cs = {} =>
             \A x \in cs : \A d \in Chunks : x <= d /\ d <= submitted => d \in cs \/ Gone(d)'
      BY <1>3
    <2>2. Newest(pending)'
      <3>1. pending' = pending \/ pending' = worker.stale \/ pending' = {}
        OBVIOUS
      <3> QED BY <2>1, <3>1 DEF Newest
    <2>3. Newest(worker.stale)'
      <3>1. worker'.stale = pending \/ worker'.stale = worker.stale \/ worker'.stale = {}
        OBVIOUS
      <3> QED BY <2>1, <3>1 DEF Newest
    <2> QED BY <2>2, <2>3
  <1>5. DoneOK'
    <2> SUFFICES ASSUME NEW d \in pending', place'[d] = "over" PROVE Has("done", d)'
      BY DEF DoneOK
    <2>1. d \in pending /\ d \in Chunks
      BY TrackedChunks
    <2>2. CASE place[d] = "over"
      <3>1. Has("done", d)
        BY <2>1, <2>2 DEF TrackedOK, DoneOK
      <3> QED BY <3>1 DEF Moved
    <2>3. CASE HasIn(t, "done", d)
      BY <2>3 DEF Moved
    <2> QED BY <2>1, <2>2, <2>3
  <1>6. DoneInOrder'
    <2> SUFFICES ASSUME ~ended', NEW d \in Chunks, NEW e \in Chunks, d < e,
                        Before("done", e, "done", d)'
                 PROVE  ~InTrack(e)'
      BY DEF DoneInOrder
    <2>1. CASE Before("done", e, "done", d)
      <3>1. ~InTrack(e)
        BY <2>1 DEF TrackedOK, DoneInOrder
      <3>2. Has("done", e)
        BY <2>1, BeforeHas
      <3>3. ~Live(e)
        BY <3>2 DEF BridgeInv, PlacesOK, Live
      <3> QED BY <3>1, <3>3
    <2>2. CASE HasIn(t, "done", d)
      <3>1. \A i \in 1 .. Len(queue') : queue'[i] <= d
        BY <2>2
      <3>2. ~(e <= d)
        BY <1>1
      <3> QED BY <3>1, <3>2 DEF InTrack
    <2> QED BY <2>1, <2>2 DEF Moved
  <1>7. CurrentOK'
    BY DEF TrackedOK, CurrentOK
  <1> QED BY <1>4, <1>5, <1>6, <1>7 DEF TrackedOK

LEMMA OldCancelsStay ==
  ASSUME OldCancels, NEW k, NEW c, NEW t, Moved(k, c, t), bridgeClosed => bridgeClosed',
         UNCHANGED <<submitted, gen, generation>>, Writing' => Writing,
         \A d \in Chunks : HasIn(t, "cancel", d) => bridgeClosed' \/ ~(gen[d] < generation)
  PROVE  OldCancels'
  <1>1. \A d \in Chunks : Has("cancel", d)' => Has("cancel", d) \/ HasIn(t, "cancel", d)
    BY DEF Moved
  <1> QED BY <1>1 DEF OldCancels

\* Marks: frames leave the track, or those put are of chunks no younger than
\* any flush that is under way.
LEMMA MarkStays ==
  ASSUME MarkOK, NEW k, NEW c, NEW t, Moved(k, c, t), ended => ended',
         \A m \in Marks : (Has("flush", m) \/ Has("empty", m)) /\ ~ended' =>
            \A i \in 1 .. Len(queue') :
               queue'[i] <= m \/ \E j \in 1 .. Len(queue) : queue'[i] = queue[j],
         \A m \in Marks : HasIn(t, "flush", m) /\ ~ended' =>
            \A i \in 1 .. Len(queue') : queue'[i] <= m,
         \A m \in Marks : HasIn(t, "empty", m) => Has("flush", m)
  PROVE  MarkOK'
  <1> SUFFICES ASSUME ~ended', NEW m \in Marks, Has("flush", m)' \/ Has("empty", m)',
                      NEW i \in 1 .. Len(queue')
               PROVE  queue'[i] <= m
    BY DEF MarkOK
  <1>1. Has("flush", m) \/ Has("empty", m) \/ HasIn(t, "flush", m)
    BY DEF Moved
  <1>2. CASE Has("flush", m) \/ Has("empty", m)
    BY <1>2 DEF MarkOK
  <1>3. CASE HasIn(t, "flush", m)
    BY <1>3
  <1> QED BY <1>1, <1>2, <1>3

LEMMA YoungStays ==
  ASSUME BridgeInv, YoungOK, NEW k, NEW c, NEW t, Moved(k, c, t), ended => ended',
         submitted' \in Nat, submitted <= submitted',
         \A d \in 1 .. submitted : Harmless(d) => Harmless(d)',
         \A d \in Chunks : place[d] = "created" =>
            place'[d] = "created" \/ (k = "deliver" /\ d = c /\ place'[d] = "new"),
         \A d \in Chunks : place[d] = "new" =>
            place'[d] = "new" \/ Harmless(d)' \/ (k = "step" /\ d = c),
         \A d \in Chunks : submitted < d /\ d <= submitted' => place'[d] = "created",
         \A m \in Marks : HasIn(t, "flush", m) /\ ~ended' =>
            \A d \in Chunks : m < d /\ d <= submitted' => Harmless(d)',
         \A m \in Marks : HasIn(t, "empty", m) => k = "flush" /\ Has("flush", m)
  PROVE  YoungOK'
  <1> SUFFICES ASSUME ~ended', NEW m \in Marks, NEW d \in Chunks, m < d, d <= submitted'
               PROVE  /\ Has("flush", m)' => BeforeFlush(d, m)'
                      /\ Has("empty", m)' => BeforeEmpty(d, m)'
    BY DEF YoungOK
  <1>1. submitted \in Nat /\ d \in Nat /\ d >= 1
    BY BoundsArePositive DEF BridgeInv, BridgeTypes, Chunks
  <1>2. CASE submitted < d
    <2>1. place'[d] = "created"
      BY <1>2
    <2>2. ~Has("deliver", d)
      BY <1>1, <1>2 DEF BridgeInv, PlacesOK
    <2>3. Before("deliver", d, "flush", m)' => HasIn(t, "flush", m)
      BY <2>2, BeforeHas DEF Moved
    <2>4. Before("deliver", d, "flush", m)' => Harmless(d)'
      BY <2>3
    <2> QED BY <2>1, <2>4 DEF BeforeFlush, BeforeEmpty
  <1>3. CASE d <= submitted
    <2>1. d \in 1 .. submitted
      BY <1>1, <1>3
    <2>2. Harmless(d) => Harmless(d)'
      BY <2>1
    <2>3. (Has("flush", m) => BeforeFlush(d, m)) /\ (Has("empty", m) => BeforeEmpty(d, m))
      BY <1>3 DEF YoungOK
    <2>4. ASSUME Has("flush", m)' PROVE BeforeFlush(d, m)'
      <3>1. CASE HasIn(t, "flush", m)
        BY <3>1 DEF BeforeFlush
      <3>2. CASE Has("flush", m) /\ ~HasIn(t, "flush", m)
        <4>1. Harmless(d) \/ (place[d] = "created" /\ ~Before("deliver", d, "flush", m))
          BY <2>3, <3>2 DEF BeforeFlush
        <4>2. CASE Harmless(d)
          BY <2>2, <4>2 DEF BeforeFlush
        <4>3. CASE place[d] = "created" /\ ~Before("deliver", d, "flush", m)
          <5>1. ~Before("deliver", d, "flush", m)'
            BY <3>2, <4>3 DEF Moved
          <5>2. ~(k = "deliver" /\ d = c)
            BY <3>2, <4>3 DEF Moved
          <5>3. place'[d] = "created"
            BY <4>3, <5>2
          <5> QED BY <5>1, <5>3 DEF BeforeFlush
        <4> QED BY <4>1, <4>2, <4>3
      <3> QED BY <2>4, <3>1, <3>2 DEF Moved
    <2>5. ASSUME Has("empty", m)' PROVE BeforeEmpty(d, m)'
      <3>1. CASE HasIn(t, "empty", m)
        <4>1. Has("flush", m) /\ k = "flush"
          BY <3>1
        <4>2. Harmless(d) \/ place[d] = "created"
          BY <2>3, <4>1 DEF BeforeFlush
        <4>3. place[d] = "created" => place'[d] = "created"
          BY <4>1
        <4> QED BY <2>2, <4>2, <4>3 DEF BeforeEmpty
      <3>2. CASE Has("empty", m) /\ ~HasIn(t, "empty", m)
        <4>1. \/ Harmless(d) \/ place[d] = "created"
              \/ place[d] = "new" /\ ~Before("step", d, "empty", m)
          BY <2>3, <3>2 DEF BeforeEmpty
        <4>2. CASE Harmless(d)
          BY <2>2, <4>2 DEF BeforeEmpty
        <4>3. CASE place[d] = "created"
          <5>1. ~Has("step", d)
            BY <4>3 DEF BridgeInv, PlacesOK
          <5>2. ~Before("step", d, "empty", m)'
            BY <3>2, <5>1, BeforeHas DEF Moved
          <5>3. place'[d] = "created" \/ place'[d] = "new"
            BY <4>3
          <5> QED BY <5>2, <5>3 DEF BeforeEmpty
        <4>4. CASE place[d] = "new" /\ ~Before("step", d, "empty", m)
          <5>1. ~Before("step", d, "empty", m)'
            BY <3>2, <4>4 DEF Moved
          <5>2. ~(k = "step" /\ d = c)
            BY <3>2, <4>4 DEF Moved
          <5>3. place'[d] = "new" \/ Harmless(d)'
            BY <4>4, <5>2
          <5> QED BY <5>1, <5>3 DEF BeforeEmpty
        <4> QED BY <4>1, <4>2, <4>3, <4>4
      <3> QED BY <2>5, <3>1, <3>2 DEF Moved
    <2> QED BY <2>4, <2>5
  <1> QED BY <1>1, <1>2, <1>3

\* The steps that move no delivery.
LEMMA StillFlow ==
  ASSUME BridgeInv, GenInv, FlowInv, NEW k, NEW c, NEW t, Moved(k, c, t), k # "step",
         UNCHANGED <<submitted, gen, place, waiters, shown>>,
         ended => ended', bridgeClosed => bridgeClosed',
         generation' \in Nat, generation <= generation',
         ended' \/ queue' = queue \/ queue' = <<>>,
         \A d : HasIn(t, "step", d) => place[d] # "new",
         \A d : ~HasIn(t, "deliver", d),
         \A d \in Chunks : HasIn(t, "cancel", d) => ~Has("turn", 0)',
         \A m \in Marks : HasIn(t, "flush", m) /\ ~ended' =>
            /\ \A i \in 1 .. Len(queue) : queue[i] <= m
            /\ \A d \in Chunks : m < d /\ d <= submitted => place[d] = "over",
         \A m \in Marks : HasIn(t, "empty", m) => k = "flush" /\ Has("flush", m)
  PROVE  RankInv' /\ OrderOK' /\ MarkOK' /\ YoungOK'
  <1>1. submitted \in Nat /\ generation \in Nat /\ \A d \in Chunks : gen[d] \in Nat
    BY BoundsArePositive, ValuesToCheck DEF BridgeInv, BridgeTypes
  <1>2. RankInv'
    BY RankStays DEF FlowInv
  <1>3. OrderOK'
    <2>1. \A d \in Chunks : Live(d)' => Live(d)
      BY DEF Live
    <2>2. OrderOK /\ FramesOK /\ submitted' \in Nat /\ submitted <= submitted'
      BY <1>1 DEF FlowInv, GenInv
    <2> QED BY <2>1, <2>2, OrderStays
  <1>4. \A i : ~ended' /\ i \in 1 .. Len(queue') =>
           i \in 1 .. Len(queue) /\ queue'[i] = queue[i]
    BY DEF BridgeInv, QueueOK
  <1>5. MarkOK'
    <2>1. \A m \in Marks : (Has("flush", m) \/ Has("empty", m)) /\ ~ended' =>
             \A i \in 1 .. Len(queue') :
                queue'[i] <= m \/ \E j \in 1 .. Len(queue) : queue'[i] = queue[j]
      BY <1>4
    <2>2. \A m \in Marks : HasIn(t, "flush", m) /\ ~ended' =>
             \A i \in 1 .. Len(queue') : queue'[i] <= m
      BY <1>4
    <2>3. MarkOK /\ \A m \in Marks : HasIn(t, "empty", m) => Has("flush", m)
      BY DEF FlowInv
    <2> QED BY <2>1, <2>2, <2>3, MarkStays
  <1>6. YoungOK'
    <2>1. \A d \in 1 .. submitted : Harmless(d) => Harmless(d)'
      <3> SUFFICES ASSUME NEW d \in 1 .. submitted, Harmless(d) PROVE Harmless(d)'
        OBVIOUS
      <3>1. Stale(d) => Stale(d)'
        <4>1. d \in Chunks
          BY BoundsArePositive DEF BridgeInv, BridgeTypes, Chunks
        <4>2. gen[d] < generation => gen'[d] < generation'
          BY <1>1, <4>1
        <4> QED BY <4>2 DEF Stale
      <3> QED BY <3>1 DEF Harmless
    <2>2. \A d \in Chunks : place[d] = "created" =>
             place'[d] = "created" \/ (k = "deliver" /\ d = c /\ place'[d] = "new")
      OBVIOUS
    <2>3. \A d \in Chunks : place[d] = "new" =>
             place'[d] = "new" \/ Harmless(d)' \/ (k = "step" /\ d = c)
      OBVIOUS
    <2>4. \A d \in Chunks : submitted < d /\ d <= submitted' => place'[d] = "created"
      BY <1>1 DEF Chunks
    <2>5. \A m \in Marks : HasIn(t, "flush", m) /\ ~ended' =>
             \A d \in Chunks : m < d /\ d <= submitted' => Harmless(d)'
      BY DEF Harmless
    <2>6. YoungOK /\ submitted' \in Nat /\ submitted <= submitted'
      BY <1>1 DEF FlowInv
    <2> QED BY <2>1, <2>2, <2>3, <2>4, <2>5, <2>6, YoungStays
  <1> QED BY <1>2, <1>3, <1>5, <1>6

\* Of these, the ones that leave alone what the bridge tracks but for taking it
\* out, and the generation.
LEMMA QuietFlow ==
  ASSUME BridgeInv, GenInv, FlowInv, NEW k, NEW c, NEW t, Moved(k, c, t), k # "step", k # "done",
         UNCHANGED <<submitted, gen, generation, place, waiters, shown>>,
         ended => ended', bridgeClosed => bridgeClosed',
         ended' \/ queue' = queue \/ queue' = <<>>,
         pending' = pending \/ pending' = {},
         worker'.stale = worker.stale \/ worker'.stale = pending \/ worker'.stale = {},
         Writing' => Writing \/ \A d \in Chunks : ~Has("cancel", d)',
         \A d : HasIn(t, "step", d) => place[d] # "new",
         \A l \in {"deliver", "done"} : \A d : ~HasIn(t, l, d),
         \A d \in Chunks : HasIn(t, "cancel", d) =>
            ~Has("turn", 0)' /\ (bridgeClosed' \/ ~(gen[d] < generation)),
         \A m \in Marks : HasIn(t, "flush", m) /\ ~ended' =>
            /\ \A i \in 1 .. Len(queue) : queue[i] <= m
            /\ \A d \in Chunks : m < d /\ d <= submitted => place[d] = "over",
         \A m \in Marks : HasIn(t, "empty", m) => k = "flush" /\ Has("flush", m)
  PROVE  FlowInv'
  <1>1. RankInv' /\ OrderOK' /\ MarkOK' /\ YoungOK'
    <2>1. generation' \in Nat /\ generation <= generation'
      BY ValuesToCheck DEF BridgeInv, BridgeTypes
    <2>2. \A d : ~HasIn(t, "deliver", d)
      OBVIOUS
    <2>3. \A d \in Chunks : HasIn(t, "cancel", d) => ~Has("turn", 0)'
      OBVIOUS
    <2> QED BY <2>1, <2>2, <2>3, StillFlow
  <1>2. TrackedOK'
    <2>1. TrackedOK
      BY DEF FlowInv
    <2>2. \A d : ~HasIn(t, "done", d)
      OBVIOUS
    <2>3. \A d \in Chunks : ~ended' /\ InTrack(d)' => InTrack(d) \/ Live(d)
      BY DEF InTrack
    <2>4. \A d \in Chunks : place'[d] = "over" => place[d] = "over" \/ HasIn(t, "done", d)
      OBVIOUS
    <2> QED BY <2>1, <2>2, <2>3, <2>4, TrackedStays
  <1>3. OldCancels'
    <2>1. CASE \A d \in Chunks : ~Has("cancel", d)'
      BY <2>1 DEF OldCancels
    <2>2. CASE Writing' => Writing
      <3>1. OldCancels
        BY DEF FlowInv
      <3>2. \A d \in Chunks : HasIn(t, "cancel", d) => bridgeClosed' \/ ~(gen[d] < generation)
        OBVIOUS
      <3> QED BY <2>2, <3>1, <3>2, OldCancelsStay
    <2> QED BY <2>1, <2>2
  <1> QED BY <1>1, <1>2, <1>3 DEF FlowInv

LEMMA ReturnFlow ==
  ASSUME BridgeInv, GenInv, FlowInv, Return(<<>>),
         UNCHANGED <<bridge, pending, submitted, gen, tasks, queue, ended, shown>>
  PROVE  FlowInv'
  <1>1. PICK t \in Seq(Items) : /\ Moved("nothing", 0, t)
                                /\ \A l, d : HasIn(t, l, d) <=> l = "turn" /\ d = 0
    BY ReturnItems
  <1>2. /\ worker'.stale = worker.stale /\ ~Writing'
    BY DEF Return, Writing, BridgeInv, WorkerOK
  <1>3. /\ UNCHANGED <<bridgeClosed, generation, submitted, gen, place, waiters, shown>>
        /\ ended' = ended /\ queue' = queue /\ pending' = pending
    BY DEF bridge, tasks
  <1>4. \A l : \A d : HasIn(t, l, d) => l = "turn"
    BY <1>1
  <1>5. /\ \A d : ~HasIn(t, "step", d)
        /\ \A l \in {"deliver", "done"} : \A d : ~HasIn(t, l, d)
        /\ \A d : ~HasIn(t, "cancel", d) /\ ~HasIn(t, "flush", d) /\ ~HasIn(t, "empty", d)
    BY <1>4
  <1>6. "nothing" # "step" /\ "nothing" # "done"
    OBVIOUS
  <1> QED BY <1>1, <1>2, <1>3, <1>5, <1>6, QuietFlow

LEMMA EmptyItems ==
  /\ \A d : ~HasIn(<<>>, "step", d)
  /\ \A l \in {"deliver", "done"} : \A d : ~HasIn(<<>>, l, d)
  /\ \A d : ~HasIn(<<>>, "cancel", d) /\ ~HasIn(<<>>, "flush", d) /\ ~HasIn(<<>>, "empty", d)
  BY NoItem

\* Nothing is scheduled.
LEMMA SilentFlow ==
  ASSUME BridgeInv, GenInv, FlowInv, NEW k \in {"nothing", "turn"}, Moved(k, 0, <<>>),
         UNCHANGED <<bridge, submitted, gen, tasks, queue, ended, shown>>,
         pending' = pending \/ pending' = {},
         worker'.stale = worker.stale \/ worker'.stale = pending \/ worker'.stale = {},
         Writing' => Writing \/ \A d \in Chunks : ~Has("cancel", d)'
  PROVE  FlowInv'
  <1>1. /\ UNCHANGED <<bridgeClosed, generation, submitted, gen, place, waiters, shown>>
        /\ ended' = ended /\ queue' = queue
    BY DEF bridge, tasks
  <1>2. k # "step" /\ k # "done"
    OBVIOUS
  <1> DEFINE t == <<>>
  <1>3. /\ \A d : ~HasIn(t, "step", d)
        /\ \A l \in {"deliver", "done"} : \A d : ~HasIn(t, l, d)
        /\ \A d : ~HasIn(t, "cancel", d) /\ ~HasIn(t, "flush", d) /\ ~HasIn(t, "empty", d)
    BY EmptyItems
  <1>4. Moved(k, 0, t)
    OBVIOUS
  <1> HIDE DEF t
  <1> QED BY <1>1, <1>2, <1>3, <1>4, QuietFlow

LEMMA SectionFlow ==
  ASSUME BridgeInv, GenInv, FlowInv, Section
  PROVE  FlowInv'
  <1>1. /\ UNCHANGED <<bridge, submitted, gen, tasks, queue, ended, shown>>
        /\ worker.at \in {"enter", "recheck"} /\ worker.stale = {}
    BY DEF Section, NextSection
  <1>2. CASE Refused
    BY <1>1, <1>2, ReturnFlow DEF Section
  <1>3. CASE ~Refused
    <2>1. Moved("nothing", 0, <<>>)
      BY <1>3, NothingMoves DEF Section
    <2>2. pending' = pending \/ pending' = {}
      BY <1>3 DEF Section
    <2>3. worker'.stale = pending \/ worker'.stale = {}
      BY <1>3 DEF Section, BridgeInv, WorkerOK
    <2>4. Writing
      BY <1>1 DEF Writing
    <2> QED BY <1>1, <2>1, <2>2, <2>3, <2>4, SilentFlow
  <1> QED BY <1>2, <1>3

LEMMA PlanFlow ==
  ASSUME BridgeInv, GenInv, FlowInv, Plan
  PROVE  FlowInv'
  BY ReturnFlow DEF Plan

\* The driver writes when nothing is cancelled any more: its turn comes last.
LEMMA TurnFlow ==
  ASSUME BridgeInv, GenInv, FlowInv, Write \/ DriverIsDone
  PROVE  FlowInv'
  <1>1. /\ UNCHANGED <<bridge, pending, submitted, gen, tasks, queue, ended, shown>>
        /\ Runs("turn") /\ ready' = Tail(ready) \o <<>>
    BY DEF Write, DriverIsDone, Then
  <1>2. Moved("turn", 0, <<>>)
    BY <1>1, ItemsOf, TurnItems
  <1>3. worker'.stale = worker.stale \/ worker'.stale = {}
    BY DEF Write, DriverIsDone
  <1>4. \A d \in Chunks : ~Has("cancel", d)'
    <2>1. \A d \in Chunks : Has("cancel", d)' => Has("cancel", d)
      BY <1>2, NoItem DEF Moved
    <2>2. \A d \in Chunks : Has("cancel", d) => Before("turn", 0, "cancel", d)
      BY <1>2 DEF Moved
    <2> QED BY <2>1, <2>2 DEF FlowInv, RankInv, CancelsFirst
  <1> QED BY <1>1, <1>2, <1>3, <1>4, SilentFlow

LEMMA StutterFlow ==
  ASSUME BridgeInv, GenInv, FlowInv, UNCHANGED bridgeVars
  PROVE  FlowInv'
  <1>1. /\ UNCHANGED <<bridge, pending, worker, submitted, gen, tasks, queue, ended, shown>>
        /\ ready' = ready
    BY DEF bridgeVars
  <1>2. Moved("nothing", 0, <<>>)
    BY <1>1, NothingMoves
  <1>3. Writing' => Writing
    BY <1>1 DEF Writing
  <1> QED BY <1>1, <1>2, <1>3, SilentFlow

\* What overflows is the newest that is under way: its flush has no younger
\* frame before it.
LEMMA CancelStaleFlow ==
  ASSUME BridgeInv, GenInv, FlowInv, CancelStale
  PROVE  FlowInv'
  <1> DEFINE n == Max(worker.stale)
  <1>1. /\ UNCHANGED <<bridgeClosed, generation, submitted, gen, place, waiters, shown>>
        /\ ended' = ended /\ queue' = queue /\ pending' = pending
    BY DEF CancelStale, bridge, tasks
  <1>2. worker'.stale = {} /\ worker'.at = worker.at
    BY DEF CancelStale, BridgeInv, WorkerOK
  <1>3. worker.stale \in SUBSET Chunks /\ n \in worker.stale
    BY CancelStaleItems
  <1>4. PICK t \in Seq(Items) :
               /\ Moved("nothing", 0, t)
               /\ \A l, d : HasIn(t, l, d) <=>
                     \/ l = "cancel" /\ d \in Cancellable(worker.stale)
                     \/ l = "flush" /\ d = n
    BY CancelStaleItems
  <1>5. worker.at # "idle"
    BY <1>3 DEF BridgeInv, WorkerOK
  <1>6. ~Has("turn", 0)'
    <2>1. ~Has("turn", 0)
      BY <1>5 DEF BridgeInv, TurnOK
    <2>2. ~HasIn(t, "turn", 0)
      BY <1>4
    <2> QED BY <1>4, <2>1, <2>2 DEF Moved
  <1>7. \A d \in Chunks : HasIn(t, "cancel", d) =>
            ~Has("turn", 0)' /\ (bridgeClosed' \/ ~(gen[d] < generation))
    <2> SUFFICES ASSUME NEW d \in Chunks, HasIn(t, "cancel", d), ~bridgeClosed
                 PROVE  ~(gen[d] < generation)
      BY <1>1, <1>6
    <2>1. d \in worker.stale
      BY <1>4 DEF Cancellable
    <2>2. gen[d] = generation
      BY <2>1 DEF FlowInv, TrackedOK, CurrentOK
    <2> QED BY <2>2, ValuesToCheck DEF BridgeInv, BridgeTypes
  <1>8. n \in Chunks /\ n \in Nat /\ submitted \in Nat
    BY <1>3, BoundsArePositive DEF Chunks, BridgeInv, BridgeTypes
  <1>9. ~ended => \A d \in Chunks : n < d /\ d <= submitted => Gone(d)
    <2> SUFFICES ASSUME ~ended, NEW d \in Chunks, n < d, d <= submitted PROVE Gone(d)
      OBVIOUS
    <2>1. d \in worker.stale \/ Gone(d)
      <3>1. n <= d
        BY <1>8 DEF Chunks
      <3> QED BY <1>3, <3>1 DEF FlowInv, TrackedOK, NewestOK, Newest
    <2>2. \A x \in worker.stale : x <= n
      BY CancelStaleItems
    <2>3. d \notin worker.stale
      BY <1>8, <2>2 DEF Chunks
    <2> QED BY <2>1, <2>3
  <1>10. ~ended => \A i \in 1 .. Len(queue) : queue[i] <= n
    <2> SUFFICES ASSUME ~ended, NEW i \in 1 .. Len(queue) PROVE queue[i] <= n
      OBVIOUS
    <2>1. queue[i] \in 1 .. submitted
      BY DEF GenInv, FramesOK
    <2>2. queue[i] \in Chunks /\ queue[i] <= submitted /\ queue[i] \in Nat
      BY <1>8, <2>1, BoundsArePositive DEF BridgeInv, BridgeTypes, Chunks
    <2>3. ~Gone(queue[i])
      BY DEF Gone, InTrack
    <2> QED BY <1>8, <1>9, <2>2, <2>3
  <1>11. \A m \in Marks : HasIn(t, "flush", m) /\ ~ended' =>
            /\ \A i \in 1 .. Len(queue) : queue[i] <= m
            /\ \A d \in Chunks : m < d /\ d <= submitted => place[d] = "over"
    <2> SUFFICES ASSUME NEW m \in Marks, HasIn(t, "flush", m), ~ended
                 PROVE  /\ \A i \in 1 .. Len(queue) : queue[i] <= m
                        /\ \A d \in Chunks : m < d /\ d <= submitted => place[d] = "over"
      BY <1>1
    <2>1. m = n
      BY <1>4
    <2> HIDE DEF n
    <2> QED BY <1>9, <1>10, <2>1 DEF Gone
  <1>12. \A l : \A d : HasIn(t, l, d) => l = "cancel" \/ l = "flush"
    BY <1>4
  <1>13. /\ \A d : ~HasIn(t, "step", d) /\ ~HasIn(t, "empty", d)
         /\ \A l \in {"deliver", "done"} : \A d : ~HasIn(t, l, d)
    BY <1>12
  <1>14. Writing' => Writing
    BY <1>2 DEF Writing
  <1>15. "nothing" # "step" /\ "nothing" # "done"
    OBVIOUS
  <1> QED BY <1>1, <1>2, <1>4, <1>7, <1>11, <1>13, <1>14, <1>15, QuietFlow

LEMMA CloseFlow ==
  ASSUME BridgeInv, GenInv, FlowInv, CloseBridge
  PROVE  FlowInv'
  <1>1. /\ UNCHANGED <<generation, submitted, gen, place, waiters, shown, worker>>
        /\ ended' = ended /\ queue' = queue /\ pending' = {} /\ bridgeClosed'
    BY DEF CloseBridge, tasks
  <1>2. PICK k \in {"turn", "nothing"}, t \in Seq(Items) :
            /\ Moved(k, 0, t)
            /\ k = "nothing" => ~Has("turn", 0)
            /\ \A l, d : HasIn(t, l, d) =>
                  (l = "cancel" /\ d \in Cancellable(pending)) \/ (l = "close" /\ d = 0)
            /\ \A d \in Cancellable(pending) : HasIn(t, "cancel", d)
    BY CloseItems
  <1>3. \A l : \A d : HasIn(t, l, d) => l = "cancel" \/ l = "close"
    BY <1>2
  <1>4. /\ \A d : ~HasIn(t, "step", d) /\ ~HasIn(t, "empty", d) /\ ~HasIn(t, "flush", d)
        /\ \A l \in {"deliver", "done"} : \A d : ~HasIn(t, l, d)
        /\ ~HasIn(t, "turn", 0)
    BY <1>3
  <1>5. ~Has("turn", 0)'
    <2>1. CASE k = "nothing"
      BY <1>2, <1>4, <2>1 DEF Moved
    <2>2. CASE k = "turn"
      <3>1. Has("turn", 0) => ~Before("turn", 0, "turn", 0)
        BY DEF BridgeInv, TurnOK
      <3>2. Before("turn", 0, "turn", 0) => Has("turn", 0)
        BY BeforeHas
      <3> QED BY <1>2, <1>4, <2>2, <3>1, <3>2 DEF Moved
    <2> QED BY <2>1, <2>2
  <1>6. Writing' => Writing
    BY <1>1 DEF Writing
  <1>7. k # "step" /\ k # "done" /\ Moved(k, 0, t)
    BY <1>2
  <1> QED BY <1>1, <1>4, <1>5, <1>6, <1>7, QuietFlow

LEMMA BeginGenerationFlow ==
  ASSUME BridgeInv, GenInv, FlowInv, BeginGeneration
  PROVE  FlowInv'
  <1>1. /\ UNCHANGED <<bridgeClosed, submitted, gen, place, waiters, shown>>
        /\ ended' = ended /\ queue' = queue /\ pending' = {} /\ generation' = generation + 1
        /\ Runs("turn")
    BY DEF BeginGeneration, tasks
  <1>2. worker'.stale = worker.stale /\ worker'.at = "plan"
    BY DEF BeginGeneration, BridgeInv, WorkerOK
  <1>3. PICK t \in Seq(Items) :
            /\ Moved("turn", 0, t)
            /\ \A l, d : HasIn(t, l, d) <=>
                  (l = "cancel" /\ d \in Cancellable(pending)) \/ (l = "flush" /\ d = submitted)
    BY BeginGenerationItems
  <1>4. \A l : \A d : HasIn(t, l, d) => l = "cancel" \/ l = "flush"
    BY <1>3
  <1>5. /\ \A d : ~HasIn(t, "step", d) /\ ~HasIn(t, "empty", d)
        /\ \A l \in {"deliver", "done"} : \A d : ~HasIn(t, l, d)
        /\ ~HasIn(t, "turn", 0)
    BY <1>4
  <1>6. ~Has("turn", 0)'
    <2>1. Has("turn", 0) => ~Before("turn", 0, "turn", 0)
      BY DEF BridgeInv, TurnOK
    <2>2. Before("turn", 0, "turn", 0) => Has("turn", 0)
      BY BeforeHas
    <2> QED BY <1>3, <1>5, <2>1, <2>2 DEF Moved
  <1>7. worker.stale = {}
    <2>1. ready \in Seq(Items) /\ ready # <<>> /\ Head(ready) = <<"turn", 0>>
      BY <1>1, HeadItem DEF BridgeInv, BridgeTypes
    <2>2. 1 \in 1 .. Len(ready) /\ ready[1] = <<"turn", 0>>
      BY <2>1
    <2>3. Has("turn", 0)
      BY <2>2 DEF Has, HasIn
    <2> QED BY <2>3 DEF BridgeInv, TurnOK, WorkerOK
  <1>8. generation \in Nat /\ submitted \in Nat /\ generation' \in Nat
        /\ generation < generation' /\ \A d \in Chunks : gen[d] <= generation /\ gen[d] \in Nat
    BY <1>1, BoundsArePositive, ValuesToCheck DEF BridgeInv, BridgeTypes
  <1>9. \A m \in Marks : HasIn(t, "flush", m) /\ ~ended' =>
            /\ \A i \in 1 .. Len(queue) : queue[i] <= m
            /\ \A d \in Chunks : m < d /\ d <= submitted => place[d] = "over"
    <2> SUFFICES ASSUME NEW m \in Marks, HasIn(t, "flush", m), ~ended
                 PROVE  /\ \A i \in 1 .. Len(queue) : queue[i] <= m
                        /\ \A d \in Chunks : m < d /\ d <= submitted => place[d] = "over"
      BY <1>1
    <2>1. m = submitted
      BY <1>3
    <2>2. \A i \in 1 .. Len(queue) : queue[i] <= m
      BY <2>1 DEF GenInv, FramesOK
    <2>3. \A d \in Chunks : ~(m < d /\ d <= submitted)
      BY <1>8, <2>1 DEF Chunks
    <2> QED BY <2>2, <2>3
  <1>10. RankInv' /\ OrderOK' /\ MarkOK' /\ YoungOK'
    <2>1. /\ generation <= generation'
          /\ \A d : ~HasIn(t, "deliver", d)
          /\ \A d \in Chunks : HasIn(t, "cancel", d) => ~Has("turn", 0)'
      BY <1>5, <1>6, <1>8
    <2>2. "turn" # "step"
      OBVIOUS
    <2> QED BY <1>1, <1>3, <1>5, <1>8, <1>9, <2>1, <2>2, StillFlow
  <1>11. TrackedOK'
    <2>1. TrackedOK
      BY DEF FlowInv
    <2>2. \A d : ~HasIn(t, "done", d)
      BY <1>5
    <2>3. \A d \in Chunks : ~ended' /\ InTrack(d)' => InTrack(d) \/ Live(d)
      BY <1>1 DEF InTrack
    <2>4. /\ \A d \in Chunks : place'[d] = "over" => place[d] = "over" \/ HasIn(t, "done", d)
          /\ \A d \in Chunks : place[d] = "over" => place'[d] = "over"
          /\ worker'.stale = {}
      BY <1>1, <1>2, <1>7
    <2>5. "turn" # "done"
      OBVIOUS
    <2> QED BY <1>1, <1>3, <2>1, <2>2, <2>3, <2>4, <2>5, TrackedStays
  <1>12. OldCancels'
    <2>1. ~Writing'
      BY <1>2 DEF Writing
    <2>2. \A d \in 1 .. submitted' : gen'[d] < generation'
      <3>1. 1 .. submitted' \subseteq Chunks
        BY <1>1, BoundsArePositive DEF BridgeInv, BridgeTypes, Chunks
      <3> QED BY <1>1, <1>8, <3>1
    <2> QED BY <2>1, <2>2 DEF OldCancels
  <1> QED BY <1>10, <1>11, <1>12 DEF FlowInv

LEMMA CancelTaskFlow ==
  ASSUME BridgeInv, GenInv, FlowInv, CancelTask
  PROVE  FlowInv'
  <1>1. PICK c \in Chunks : /\ ready # <<>> /\ Head(ready) = <<"cancel", c>>
                            /\ Head(ready)[2] = c
    BY HeadOf DEF CancelTask
  <1> DEFINE t == IF place[c] # "over" /\ ~Scheduled(c) THEN << <<"step", c>> >> ELSE <<>>
  <1>2. /\ UNCHANGED <<bridgeClosed, generation, submitted, gen, place, waiters, shown>>
        /\ ended' = ended /\ queue' = queue /\ pending' = pending /\ worker' = worker
        /\ ready' = Tail(ready) \o t
    BY <1>1 DEF CancelTask, bridge, Then
  <1>3. t \in Seq(Items) /\ \A l, d : HasIn(t, l, d) => l = "step" /\ d = c /\ ~Has("step", c)
    <2> DEFINE one == << <<"step", c>> >>
    <2>1. one \in Seq(Items) /\ \A l, d : HasIn(one, l, d) => l = "step" /\ d = c
      <3>1. one \in Seq(Items)
        BY ItemsOf
      <3>2. \A l, d : HasIn(one, l, d) <=> l = "step" /\ d = c
        BY OneItem
      <3> QED BY <3>1, <3>2
    <2>2. <<>> \in Seq(Items) /\ \A l, d : ~HasIn(<<>>, l, d)
      BY ItemsOf, NoItem
    <2>3. (t = one /\ ~Scheduled(c)) \/ t = <<>>
      OBVIOUS
    <2>4. ~Scheduled(c) => ~Has("step", c)
      BY DEF Scheduled, Contains, Has, HasIn
    <2> HIDE DEF t, one
    <2> QED BY <2>1, <2>2, <2>3, <2>4
  <1> HIDE DEF t
  <1>4. Moved("cancel", c, t)
    BY <1>1, <1>2, <1>3, MovedByPop DEF BridgeInv, BridgeTypes
  <1>5. \A d : HasIn(t, "step", d) => place[d] # "new"
    <2>1. place[c] = "new" => Has("step", c)
      BY DEF FlowInv, RankInv, NewOK
    <2> QED BY <1>3, <2>1
  <1>6. \A l : \A d : HasIn(t, l, d) => l = "step"
    BY <1>3
  <1>7. /\ \A d : ~HasIn(t, "cancel", d) /\ ~HasIn(t, "empty", d) /\ ~HasIn(t, "flush", d)
        /\ \A l \in {"deliver", "done"} : \A d : ~HasIn(t, l, d)
    BY <1>6
  <1>8. "cancel" # "step" /\ "cancel" # "done" /\ (Writing' => Writing)
    BY <1>2 DEF Writing
  <1> QED BY <1>2, <1>4, <1>5, <1>7, <1>8, QuietFlow

\* The steps of the track that end no delivery.
LEMMA TrackFlow ==
  ASSUME BridgeInv, GenInv, FlowInv, NEW k, NEW c, NEW t, Moved(k, c, t),
         k # "step", k # "done",
         UNCHANGED <<bridge, pending, worker, submitted, gen, tasks, shown>>,
         ended => ended', ended' \/ queue' = queue \/ queue' = <<>>,
         \A d : HasIn(t, "step", d) => place[d] = "put",
         \A l \in {"deliver", "done", "cancel", "flush"} : \A d : ~HasIn(t, l, d),
         \A m \in Marks : HasIn(t, "empty", m) => k = "flush" /\ Has("flush", m)
  PROVE  FlowInv'
  <1>1. /\ UNCHANGED <<bridgeClosed, generation, submitted, gen, place, waiters, shown>>
        /\ pending' = pending /\ worker' = worker
    BY DEF bridge, tasks
  <1>2. /\ \A d : HasIn(t, "step", d) => place[d] # "new"
        /\ \A l \in {"deliver", "done"} : \A d : ~HasIn(t, l, d)
        /\ \A d : ~HasIn(t, "cancel", d) /\ ~HasIn(t, "flush", d)
    OBVIOUS
  <1>3. Writing' => Writing
    BY <1>1 DEF Writing
  <1> QED BY <1>1, <1>2, <1>3, QuietFlow

LEMMA MakeTrackTaskFlow ==
  ASSUME BridgeInv, GenInv, FlowInv, MakeTrackTask
  PROVE  FlowInv'
  <1>1. /\ UNCHANGED <<bridge, pending, worker, submitted, gen, tasks, shown>>
        /\ queue' = queue /\ ended' = ended
    BY DEF MakeTrackTask
  <1>2. ready \in Seq(Items)
    BY DEF BridgeInv, BridgeTypes
  <1>3. CASE Runs("flush") /\ Then(<< <<"empty", Head(ready)[2]>> >>)
    <2>1. PICK m \in Marks : /\ ready # <<>> /\ Head(ready) = <<"flush", m>>
                             /\ m = Head(ready)[2]
      BY <1>2, <1>3, HeadItem DEF Marks
    <2> DEFINE t == << <<"empty", m>> >>
    <2>2. t \in Seq(Items)
      BY <2>1, ItemsOf DEF Marks
    <2>3. \A l, d : HasIn(t, l, d) <=> l = "empty" /\ d = m
      BY OneItem
    <2>4. ready' = Tail(ready) \o t
      BY <1>3, <2>1 DEF Then
    <2> HIDE DEF t
    <2>5. Moved("flush", m, t)
      BY <1>2, <2>1, <2>2, <2>4, MovedByPop
    <2>6. Has("flush", m)
      <3>1. 1 \in 1 .. Len(ready) /\ ready[1] = <<"flush", m>>
        BY <1>2, <2>1
      <3> QED BY <3>1 DEF Has, HasIn
    <2>7. /\ \A d : ~HasIn(t, "step", d)
          /\ \A l \in {"deliver", "done", "cancel", "flush"} : \A d : ~HasIn(t, l, d)
          /\ \A n \in Marks : HasIn(t, "empty", n) => Has("flush", n)
      BY <2>3, <2>6
    <2> DEFINE k == "flush"
    <2>8. k # "step" /\ k # "done" /\ k = "flush" /\ Moved(k, m, t)
      BY <2>5
    <2> HIDE DEF k
    <2> QED BY <1>1, <2>7, <2>8, TrackFlow
  <1>4. CASE Runs("close") /\ Then(<< <<"end", 0>> >>)
    <2> DEFINE t == << <<"end", 0>> >>
    <2>1. ready # <<>> /\ Head(ready) = <<"close", 0>>
      BY <1>2, <1>4, HeadItem
    <2>2. t \in Seq(Items)
      BY ItemsOf
    <2>3. ready' = Tail(ready) \o t
      BY <1>4 DEF Then
    <2>4. \A l, d : HasIn(t, l, d) <=> l = "end" /\ d = 0
      BY OneItem
    <2> HIDE DEF t
    <2>5. Moved("close", 0, t)
      BY <1>2, <2>1, <2>2, <2>3, MovedByPop
    <2>6. /\ \A d : ~HasIn(t, "step", d) /\ ~HasIn(t, "empty", d)
          /\ \A l \in {"deliver", "done", "cancel", "flush"} : \A d : ~HasIn(t, l, d)
      BY <2>4
    <2>7. "close" # "step" /\ "close" # "done"
      OBVIOUS
    <2> QED BY <1>1, <2>5, <2>6, <2>7, TrackFlow
  <1> QED BY <1>3, <1>4 DEF MakeTrackTask

LEMMA WakesPutter ==
  ASSUME BridgeInv
  PROVE  /\ WakePutter \in Seq(Items)
         /\ \A d : HasIn(WakePutter, "step", d) => place[d] = "put"
         /\ \A l \in {"deliver", "done", "cancel", "flush", "empty"} :
               \A d : ~HasIn(WakePutter, l, d)
  BY WakePutterFacts DEF BridgeInv

LEMMA EmptyFlow ==
  ASSUME BridgeInv, GenInv, FlowInv, Empty \/ EndTrack
  PROVE  FlowInv'
  <1>1. ready \in Seq(Items)
    BY DEF BridgeInv, BridgeTypes
  <1>2. PICK k \in {"empty", "end"} : Runs(k)
    BY DEF Empty, EndTrack
  <1>3. PICK m : ready # <<>> /\ Head(ready) = <<k, m>>
    BY <1>1, <1>2, HeadItem
  <1>4. /\ UNCHANGED <<bridge, pending, worker, submitted, gen, tasks, shown>>
        /\ ended => ended'
        /\ ended' \/ queue' = queue \/ queue' = <<>>
        /\ ready' = Tail(ready) \o WakePutter \/ ready' = Tail(ready) \o <<>>
    <2>1. CASE Empty
      <3>1. UNCHANGED <<bridge, pending, worker, submitted, gen, tasks, shown>> /\ ended' = ended
        BY <2>1 DEF Empty
      <3>2. CASE ended
        BY <2>1, <3>1, <3>2 DEF Empty, Then
      <3>3. CASE ~ended
        <4>1. queue' = <<>> /\ ready' = Tail(ready) \o (IF queue # <<>> THEN WakePutter ELSE <<>>)
          BY <2>1, <3>3 DEF Empty, Then
        <4> QED BY <3>1, <4>1
      <3> QED BY <3>2, <3>3
    <2>2. CASE EndTrack
      <3>1. /\ UNCHANGED <<bridge, pending, worker, submitted, gen, tasks, shown>> /\ ended'
            /\ ready' = Tail(ready) \o (IF queue # <<>> THEN WakePutter ELSE <<>>)
        BY <2>2 DEF EndTrack, Then
      <3> QED BY <3>1
    <2> QED BY <2>1, <2>2
  <1>5. PICK u \in {WakePutter, <<>>} : ready' = Tail(ready) \o u
    BY <1>4
  <1>6. /\ u \in Seq(Items)
        /\ \A d : HasIn(u, "step", d) => place[d] = "put"
        /\ \A l \in {"deliver", "done", "cancel", "flush", "empty"} : \A d : ~HasIn(u, l, d)
    <2>1. CASE u = WakePutter
      BY <2>1, WakesPutter
    <2>2. CASE u = <<>>
      BY <2>2, ItemsOf, NoItem
    <2> QED BY <2>1, <2>2
  <1>7. Moved(k, m, u)
    BY <1>1, <1>3, <1>5, <1>6, MovedByPop
  <1>8. /\ \A l \in {"deliver", "done", "cancel", "flush"} : \A d : ~HasIn(u, l, d)
        /\ \A d : ~HasIn(u, "empty", d)
        /\ k # "step" /\ k # "done" /\ (ended => ended')
    BY <1>4, <1>6
  <1> QED BY <1>4, <1>6, <1>7, <1>8, TrackFlow

\* A delivery that is over is forgotten: were an older one tracked still, the
\* frames of this one would have left the track.
LEMMA DoneFlow ==
  ASSUME BridgeInv, GenInv, FlowInv, Done
  PROVE  FlowInv'
  <1>1. PICK c \in Chunks : /\ ready # <<>> /\ Head(ready) = <<"done", c>>
                            /\ Head(ready)[2] = c /\ Has("done", c)
    BY HeadOf DEF Done
  <1>2. /\ UNCHANGED <<bridgeClosed, generation, submitted, gen, place, waiters, shown>>
        /\ ended' = ended /\ queue' = queue /\ pending' = pending \ {c} /\ worker' = worker
        /\ ready' = Tail(ready) \o <<>>
    BY <1>1 DEF Done, bridge, tasks, Then
  <1>3. Moved("done", c, <<>>)
    BY <1>1, <1>2, ItemsOf, MovedByPop DEF BridgeInv, BridgeTypes
  <1>4. submitted \in Nat /\ generation' \in Nat /\ generation <= generation'
        /\ \A d \in Chunks : d \in Nat
    BY <1>2, BoundsArePositive, ValuesToCheck DEF BridgeInv, BridgeTypes, Chunks
  <1>5. RankInv' /\ OrderOK' /\ MarkOK' /\ YoungOK'
    <2> DEFINE t == <<>>
    <2>1. Moved("done", c, t)
      BY <1>3
    <2>2. \A l, d : ~HasIn(t, l, d)
      BY NoItem
    <2> HIDE DEF t
    <2>3. "done" # "step"
      OBVIOUS
    <2> QED BY <1>2, <1>4, <2>1, <2>2, <2>3, StillFlow
  <1>6. OldCancels'
    <2> DEFINE t == <<>>
    <2>1. Moved("done", c, t)
      BY <1>3
    <2>2. \A l, d : ~HasIn(t, l, d)
      BY NoItem
    <2> HIDE DEF t
    <2>3. OldCancels /\ (Writing' => Writing)
      BY <1>2 DEF FlowInv, Writing
    <2> QED BY <1>2, <2>1, <2>2, <2>3, OldCancelsStay
  <1>7. TrackedOK
    BY DEF FlowInv
  <1>8. place[c] = "over"
    BY <1>1 DEF BridgeInv, PlacesOK
  <1>9. NewestOK'
    <2> SUFFICES ASSUME ~ended PROVE Newest(pending)' /\ Newest(worker.stale)'
      BY <1>2 DEF NewestOK
    <2>1. \A d \in Chunks : Gone(d) => Gone(d)'
      BY <1>2 DEF Gone, InTrack
    <2>2. Newest(pending) /\ Newest(worker.stale)
      BY <1>7 DEF TrackedOK, NewestOK
    <2>3. ASSUME NEW e \in pending, e # c, e <= c PROVE Gone(c)'
      <3>1. e \in Chunks /\ e <= submitted /\ e < c
        <4>1. e \in Chunks /\ e \in 1 .. submitted
          BY TrackedChunks DEF BridgeInv, PendingOK
        <4> QED BY <1>4, <2>3, <4>1
      <3>2. CASE place[e] = "over"
        <4>1. Has("done", e)
          BY <1>7, <3>2 DEF TrackedOK, DoneOK
        <4>2. Before("done", c, "done", e)
          BY <1>3, <2>3, <4>1 DEF Moved
        <4>3. ~InTrack(c)
          BY <1>7, <3>1, <4>2 DEF TrackedOK, DoneInOrder
        <4> QED BY <1>8, <2>1, <4>3 DEF Gone
      <3>3. CASE place[e] # "over"
        <4>1. \A i \in 1 .. Len(queue) : queue[i] <= e
          BY <3>1, <3>3 DEF FlowInv, OrderOK, Live
        <4>2. ~InTrack(c)
          BY <1>4, <3>1, <4>1 DEF InTrack
        <4> QED BY <1>8, <2>1, <4>2 DEF Gone
      <3> QED BY <3>2, <3>3
    <2>4. Newest(pending)'
      <3>1. ASSUME NEW e \in pending', NEW d \in Chunks, e <= d, d <= submitted
            PROVE  d \in pending' \/ Gone(d)'
        <4>1. e \in pending /\ e # c
          BY <1>2
        <4>2. d \in pending \/ Gone(d)
          BY <2>2, <3>1, <4>1 DEF Newest
        <4>3. CASE d = c
          BY <2>3, <3>1, <4>1, <4>3
        <4>4. CASE d # c
          BY <1>2, <2>1, <4>2, <4>4
        <4> QED BY <4>3, <4>4
      <3> QED BY <1>2, <3>1 DEF Newest
    <2>5. Newest(worker.stale)'
      BY <1>2, <2>1, <2>2 DEF Newest
    <2> QED BY <2>4, <2>5
  <1>10. DoneOK'
    <2> SUFFICES ASSUME NEW e \in pending', place'[e] = "over" PROVE Has("done", e)'
      BY DEF DoneOK
    <2>1. Has("done", e) /\ e # c
      BY <1>2, <1>7 DEF TrackedOK, DoneOK
    <2> QED BY <1>3, <2>1 DEF Moved
  <1>11. DoneInOrder'
    <2>1. \A d, e : Before("done", d, "done", e)' => Before("done", d, "done", e)
      BY <1>3, NoItem DEF Moved
    <2>2. DoneInOrder
      BY <1>7 DEF TrackedOK
    <2> QED BY <1>2, <2>1, <2>2 DEF DoneInOrder, InTrack
  <1>12. CurrentOK'
    <2>1. CurrentOK
      BY <1>7 DEF TrackedOK
    <2> QED BY <1>2, <2>1 DEF CurrentOK
  <1> QED BY <1>5, <1>6, <1>9, <1>10, <1>11, <1>12 DEF FlowInv, TrackedOK

LEMMA TakeFrameFlow ==
  ASSUME BridgeInv, GenInv, FlowInv, TakeFrame
  PROVE  FlowInv'
  <1>1. /\ UNCHANGED <<bridgeClosed, generation, submitted, gen, place, waiters>>
        /\ pending' = pending /\ worker' = worker
        /\ ended' = ended /\ ~ended /\ queue # <<>> /\ queue' = Tail(queue)
        /\ shown' = Head(queue) /\ ready' = ready \o WakePutter
    BY DEF TakeFrame, bridge, tasks
  <1>2. PICK t \in Seq(Items) : t = WakePutter
    BY WakesPutter
  <1>3. Moved("nothing", 0, t)
    <2>1. ready \in Seq(Items) /\ ready' = ready \o t
      BY <1>1, <1>2 DEF BridgeInv, BridgeTypes
    <2> QED BY <2>1, MovedByAppend
  <1>4. /\ \A d : HasIn(t, "step", d) => place[d] = "put"
        /\ \A l \in {"deliver", "done", "cancel", "flush", "empty"} : \A d : ~HasIn(t, l, d)
    BY <1>2, WakesPutter
  <1>5. /\ queue \in Seq(0 .. MaxChunks) /\ Len(queue') = Len(queue) - 1 /\ Len(queue) \in Nat
        /\ \A i \in 1 .. Len(queue') : queue'[i] = queue[i + 1] /\ i + 1 \in 1 .. Len(queue)
        /\ shown' = queue[1] /\ 1 \in 1 .. Len(queue)
    <2>1. queue \in Seq(0 .. MaxChunks)
      BY DEF BridgeInv, QueueOK
    <2>2. /\ Len(queue') = Len(queue) - 1 /\ Len(queue) \in Nat
          /\ \A i \in 1 .. Len(queue') : queue'[i] = queue[i + 1]
      BY <1>1, <2>1, HeadTailProperties
    <2>3. \A i \in 1 .. Len(queue') : i + 1 \in 1 .. Len(queue)
      BY <2>2
    <2>4. shown' = queue[1] /\ 1 \in 1 .. Len(queue)
      BY <1>1, <2>1
    <2> QED BY <2>1, <2>2, <2>3, <2>4
  <1>6. submitted \in Nat /\ \A d \in Chunks : d \in Nat
    BY BoundsArePositive DEF BridgeInv, BridgeTypes, Chunks
  <1>7. RankInv'
    <2>1. /\ \A d : HasIn(t, "step", d) => place[d] # "new"
          /\ \A d : ~HasIn(t, "deliver", d) /\ ~HasIn(t, "cancel", d)
      BY <1>4
    <2>2. RankInv /\ "nothing" # "step"
      BY DEF FlowInv
    <2> QED BY <1>1, <1>3, <2>1, <2>2, RankStays
  <1>8. OrderOK'
    <2>1. /\ \A i, j \in 1 .. Len(queue) : i < j => queue[i] <= queue[j]
          /\ \A d \in Chunks : Live(d) => \A i \in 1 .. Len(queue) : queue[i] <= d
      BY <1>1 DEF FlowInv, OrderOK
    <2>2. \A i \in 1 .. Len(queue) : queue[i] \in 1 .. submitted
      BY <1>1 DEF GenInv, FramesOK
    <2>3. \A i, j \in 1 .. Len(queue') : i < j => queue'[i] <= queue'[j]
      <3>1. \A i, j \in 1 .. Len(queue') : i < j => i + 1 < j + 1
        BY <1>5
      <3> QED BY <1>5, <2>1, <3>1
    <2>4. \A i \in 1 .. Len(queue') : shown' <= queue'[i]
      <3>1. \A i \in 1 .. Len(queue') : 1 < i + 1
        BY <1>5
      <3> QED BY <1>5, <2>1, <3>1
    <2>5. \A d \in Chunks : Live(d)' => shown' <= d /\ \A i \in 1 .. Len(queue') : queue'[i] <= d
      <3>1. \A d \in Chunks : Live(d)' => Live(d)
        BY <1>1 DEF Live
      <3> QED BY <1>5, <2>1, <3>1
    <2>6. shown' <= submitted'
      BY <1>1, <1>5, <2>2
    <2> QED BY <2>3, <2>4, <2>5, <2>6 DEF OrderOK
  <1>9. TrackedOK'
    <2>1. TrackedOK
      BY DEF FlowInv
    <2>2. \A d : ~HasIn(t, "done", d)
      BY <1>4
    <2>3. \A d \in Chunks : ~ended' /\ InTrack(d)' => InTrack(d) \/ Live(d)
      BY <1>5 DEF InTrack
    <2>4. /\ \A d \in Chunks : place'[d] = "over" => place[d] = "over" \/ HasIn(t, "done", d)
          /\ \A d \in Chunks : place[d] = "over" => place'[d] = "over"
          /\ "nothing" # "done"
      BY <1>1
    <2> QED BY <1>1, <1>3, <2>1, <2>2, <2>3, <2>4, TrackedStays
  <1>10. OldCancels'
    <2>1. OldCancels /\ (Writing' => Writing) /\ \A d : ~HasIn(t, "cancel", d)
      BY <1>1, <1>4 DEF FlowInv, Writing
    <2> QED BY <1>1, <1>3, <2>1, OldCancelsStay
  <1>11. MarkOK'
    <2>1. MarkOK /\ \A d : ~HasIn(t, "flush", d) /\ ~HasIn(t, "empty", d)
      BY <1>4 DEF FlowInv
    <2>2. \A i \in 1 .. Len(queue') : \E j \in 1 .. Len(queue) : queue'[i] = queue[j]
      BY <1>5
    <2> QED BY <1>1, <1>3, <2>1, <2>2, MarkStays
  <1>12. YoungOK'
    <2>1. YoungOK /\ \A d : ~HasIn(t, "flush", d) /\ ~HasIn(t, "empty", d)
      BY <1>4 DEF FlowInv
    <2>2. \A d \in 1 .. submitted : Harmless(d) => Harmless(d)'
      BY <1>1 DEF Harmless, Stale
    <2>3. /\ submitted' \in Nat /\ submitted <= submitted'
          /\ \A d \in Chunks : ~(submitted < d /\ d <= submitted')
      BY <1>1, <1>6
    <2>4. \A d \in Chunks : place'[d] = place[d]
      BY <1>1
    <2> QED BY <1>1, <1>3, <2>1, <2>2, <2>3, <2>4, YoungStays
  <1> QED BY <1>7, <1>8, <1>9, <1>10, <1>11, <1>12 DEF FlowInv

\* A new chunk is the youngest.
LEMMA ScheduleFlow ==
  ASSUME BridgeInv, GenInv, FlowInv, Schedule
  PROVE  FlowInv'
  <1>1. CASE Refused
    <2>1. /\ UNCHANGED <<bridge, pending, submitted, gen, queue, ended, shown>>
          /\ UNCHANGED tasks /\ Return(<<>>)
      BY <1>1 DEF Schedule, tasks
    <2> QED BY <2>1, ReturnFlow
  <1>2. CASE ~Refused
    <2>1. PICK c : c = submitted + 1
      OBVIOUS
    <2>2. PICK t \in Seq(Items) :
            /\ Moved("nothing", 0, t)
            /\ \A l, d : HasIn(t, l, d) <=>
                  (l = "deliver" /\ d = submitted + 1) \/ (l = "turn" /\ d = 0)
      BY <1>2, ScheduleItems
    <2>3. /\ UNCHANGED <<bridgeClosed, generation, waiters, shown>>
          /\ ended' = ended /\ queue' = queue
          /\ submitted' = c /\ gen' = [gen EXCEPT ![c] = worker.gen]
          /\ place' = [place EXCEPT ![c] = "created"]
          /\ pending' = pending \cup {c} /\ worker.at = "schedule" /\ worker.stale = {}
      BY <1>2, <2>1 DEF Schedule, bridge
    <2>4. worker'.stale = {} /\ ~Writing'
      BY <1>2, <2>3 DEF Schedule, Return, Writing, BridgeInv, WorkerOK
    <2>5. submitted \in Nat /\ submitted' \in Nat /\ submitted <= submitted' /\ submitted < c
          /\ c \in Nat /\ \A d \in Chunks : d \in Nat /\ d >= 1
      BY <2>1, <2>3, BoundsArePositive DEF BridgeInv, BridgeTypes, Chunks
    <2>6. c \in Chunks
      BY <2>1, <2>3, BoundsArePositive DEF BridgeInv, BridgeTypes, WorkerOK, Writing, Chunks
    <2>7. /\ \A d \in Chunks : d # c => gen'[d] = gen[d] /\ place'[d] = place[d]
          /\ place'[c] = "created" /\ gen'[c] = worker.gen /\ place[c] = "none"
      BY <2>3, <2>5, <2>6 DEF BridgeInv, BridgeTypes, TaskTypes, PlacesOK
    <2>8. worker.gen = generation
      BY <1>2, ValuesToCheck DEF BridgeInv, BridgeTypes, WorkerOK, Refused
    <2>9. \A d \in Chunks : d <= submitted => d # c
      BY <2>5
    <2>10. \A d \in Chunks : d <= submitted' => d <= submitted \/ d = c
      BY <2>1, <2>3, <2>5
    <2>11. \A l : \A d : HasIn(t, l, d) => l = "deliver" \/ l = "turn"
      BY <2>2
    <2>12. \A l \in {"step", "cancel", "done", "flush", "empty"} : \A d : ~HasIn(t, l, d)
      BY <2>11
    <2>13. \A l \in {"step", "cancel", "done", "flush", "empty"} : \A d, m, e :
              Before(m, e, l, d)' => Before(m, e, l, d)
      BY <2>2, <2>12 DEF Moved
    <2>14. \A d \in Chunks : Live(d)' => (Live(d) /\ d # c /\ place'[d] = place[d]) \/ d = c
      <3>1. \A d \in Chunks : d <= submitted => place'[d] = place[d] /\ d # c
        BY <2>7, <2>9
      <3> QED BY <2>10, <3>1 DEF Live
    <2>15. RankInv'
      <3>1. CancelsFirst'
        BY <2>13 DEF FlowInv, RankInv, CancelsFirst
      <3>2. RankOK'
        <4> SUFFICES ASSUME NEW x \in Chunks, NEW y \in Chunks, x < y, Live(x)', Live(y)'
                     PROVE  Rank(y)' <= Rank(x)'
          BY DEF RankOK
        <4>1. CASE y = c
          <5>1. Rank(y)' = 0
            BY <2>7, <4>1 DEF Rank
          <5>2. Rank(x)' \in {0, 1, 2, 3}
            BY DEF Rank
          <5> QED BY <5>1, <5>2
        <4>2. CASE y # c
          <5>1. Live(y) /\ place'[y] = place[y]
            BY <2>14, <4>2
          <5>2. x # c
            <6>1. y <= submitted
              BY <5>1 DEF Live
            <6> QED BY <2>5, <6>1
          <5>3. Live(x) /\ place'[x] = place[x]
            BY <2>14, <5>2
          <5>4. Rank(y) <= Rank(x)
            BY <5>1, <5>3 DEF FlowInv, RankInv, RankOK
          <5> QED BY <5>1, <5>3, <5>4 DEF Rank
        <4> QED BY <4>1, <4>2
      <3>3. WaitersInOrder'
        BY <2>3 DEF FlowInv, RankInv, WaitersInOrder
      <3>4. NewOK'
        <4> SUFFICES ASSUME NEW d \in Chunks, place'[d] = "new" PROVE Has("step", d)'
          BY DEF NewOK
        <4>1. place[d] = "new"
          BY <2>7
        <4>2. Has("step", d)
          BY <4>1 DEF FlowInv, RankInv, NewOK
        <4> QED BY <2>2, <4>2 DEF Moved
      <3>5. DeliversInOrder'
        <4> SUFFICES ASSUME NEW x \in Chunks, NEW y \in Chunks, x < y,
                            Before("deliver", y, "deliver", x)'
                     PROVE  FALSE
          BY DEF DeliversInOrder
        <4>1. ~Before("deliver", y, "deliver", x)
          BY DEF FlowInv, RankInv, DeliversInOrder
        <4>2. HasIn(t, "deliver", x) /\ (Has("deliver", y) \/ HasIn(t, "deliver", y))
          BY <2>2, <4>1 DEF Moved
        <4>3. x = c
          BY <2>1, <2>2, <4>2
        <4>4. y # c
          BY <2>5, <4>3
        <4>5. Has("deliver", y)
          BY <2>1, <2>2, <4>2, <4>4
        <4>6. y <= submitted
          BY <4>5 DEF BridgeInv, PlacesOK
        <4> QED BY <2>5, <4>3, <4>6
      <3>6. StepsInOrder'
        <4> SUFFICES ASSUME NEW x \in Chunks, NEW y \in Chunks, x < y,
                            place'[x] = "new", place'[y] = "new",
                            Before("step", y, "step", x)'
                     PROVE  FALSE
          BY DEF StepsInOrder
        <4>1. Before("step", y, "step", x)
          BY <2>13
        <4>2. place[x] = "new" /\ place[y] = "new"
          BY <2>7
        <4> QED BY <4>1, <4>2 DEF FlowInv, RankInv, StepsInOrder
      <3> QED BY <3>1, <3>2, <3>3, <3>4, <3>5, <3>6 DEF RankInv
    <2>16. OrderOK'
      <3>1. \A d \in Chunks : Live(d)' => Live(d) \/ submitted < d
        BY <2>5, <2>14
      <3>2. OrderOK /\ FramesOK
        BY DEF FlowInv, GenInv
      <3> QED BY <2>3, <2>5, <3>1, <3>2, OrderStays
    <2>17. TrackedOK
      BY DEF FlowInv
    <2>18. pending \subseteq 1 .. submitted /\ pending \in SUBSET Chunks
      BY TrackedChunks DEF BridgeInv, PendingOK
    <2>19. NewestOK'
      <3> SUFFICES ASSUME ~ended PROVE Newest(pending)' /\ Newest(worker.stale)'
        BY <2>3 DEF NewestOK
      <3>1. Newest(worker.stale)'
        BY <2>4 DEF Newest
      <3>2. ASSUME NEW e \in pending', NEW d \in Chunks, e <= d, d <= submitted'
            PROVE  d \in pending' \/ Gone(d)'
        <4>1. CASE d = c
          BY <2>3, <4>1
        <4>2. CASE d # c
          <5>1. d <= submitted
            BY <2>10, <3>2, <4>2
          <5>2. e # c
            <6>1. e \in Chunks /\ (e = c => c <= d)
              BY <2>3, <2>6, <2>18, <3>2
            <6> QED BY <2>5, <5>1, <6>1
          <5>3. d \in pending \/ Gone(d)
            <6>1. e \in pending
              BY <2>3, <5>2
            <6> QED BY <2>17, <3>2, <5>1, <6>1 DEF TrackedOK, NewestOK, Newest
          <5> QED BY <2>3, <2>7, <4>2, <5>3 DEF Gone, InTrack
        <4> QED BY <4>1, <4>2
      <3> QED BY <3>1, <3>2 DEF Newest
    <2>20. DoneOK'
      <3> SUFFICES ASSUME NEW e \in pending', place'[e] = "over" PROVE Has("done", e)'
        BY DEF DoneOK
      <3>1. e # c
        BY <2>7
      <3>2. e \in pending /\ place[e] = "over"
        BY <2>3, <2>7, <2>18, <3>1
      <3>3. Has("done", e)
        BY <2>17, <3>2 DEF TrackedOK, DoneOK
      <3> QED BY <2>2, <3>3 DEF Moved
    <2>21. DoneInOrder'
      <3>1. DoneInOrder
        BY <2>17 DEF TrackedOK
      <3>2. \A d, e : Before("done", d, "done", e)' => Before("done", d, "done", e)
        BY <2>13
      <3> QED BY <2>3, <3>1, <3>2 DEF DoneInOrder, InTrack
    <2>22. CurrentOK'
      <3> SUFFICES ASSUME ~bridgeClosed, NEW e \in pending' \cup worker'.stale
                   PROVE  gen'[e] = generation
        BY <2>3 DEF CurrentOK
      <3>1. CASE e = c
        BY <2>7, <2>8, <3>1
      <3>2. CASE e # c
        <4>1. e \in pending /\ e \in Chunks
          BY <2>3, <2>4, <2>18, <3>2
        <4>2. gen[e] = generation
          BY <2>17, <4>1 DEF TrackedOK, CurrentOK
        <4> QED BY <2>7, <3>2, <4>1, <4>2
      <3> QED BY <3>1, <3>2
    <2>23. OldCancels'
      <3> SUFFICES ASSUME ~bridgeClosed, NEW d \in Chunks, gen'[d] < generation,
                          Has("cancel", d)'
                   PROVE  FALSE
        BY <2>3 DEF OldCancels
      <3>1. Has("cancel", d)
        BY <2>2, <2>12 DEF Moved
      <3>2. d # c
        BY <2>7, <3>1 DEF BridgeInv, PlacesOK
      <3>3. gen[d] < generation
        BY <2>7, <3>2
      <3>4. Writing
        BY <2>3 DEF Writing
      <3> QED BY <3>1, <3>3, <3>4 DEF FlowInv, OldCancels
    <2>24. MarkOK'
      <3>1. MarkOK /\ \A d : ~HasIn(t, "flush", d) /\ ~HasIn(t, "empty", d)
        BY <2>12 DEF FlowInv
      <3> QED BY <2>2, <2>3, <3>1, MarkStays
    <2>25. YoungOK'
      <3>1. YoungOK /\ \A d : ~HasIn(t, "flush", d) /\ ~HasIn(t, "empty", d)
        BY <2>12 DEF FlowInv
      <3>2. \A d \in 1 .. submitted : Harmless(d) => Harmless(d)'
        <4>1. \A d \in 1 .. submitted : d \in Chunks /\ d # c
          BY <2>5, <2>9, BoundsArePositive DEF BridgeInv, BridgeTypes, Chunks
        <4>2. \A d \in 1 .. submitted : place'[d] = place[d] /\ gen'[d] = gen[d]
          BY <2>7, <4>1
        <4> QED BY <2>3, <4>2 DEF Harmless, Stale
      <3>3. \A d \in Chunks : submitted < d /\ d <= submitted' => place'[d] = "created"
        <4>1. \A d \in Chunks : submitted < d /\ d <= submitted' => d = c
          BY <2>5, <2>10
        <4> QED BY <2>7, <4>1
      <3>4. /\ \A d \in Chunks : place[d] = "created" => place'[d] = "created"
            /\ \A d \in Chunks : place[d] = "new" => place'[d] = "new"
        BY <2>7
      <3> QED BY <2>2, <2>3, <2>5, <3>1, <3>2, <3>3, <3>4, YoungStays
    <2> QED BY <2>15, <2>16, <2>19, <2>20, <2>21, <2>22, <2>23, <2>24, <2>25
        DEF FlowInv, TrackedOK
  <1> QED BY <1>1, <1>2

\* The callbacks that make the tasks run in the order of the chunks, and so do
\* the first steps of the tasks.
LEMMA MakeTaskFlow ==
  ASSUME BridgeInv, GenInv, FlowInv, MakeTask
  PROVE  FlowInv'
  <1>1. PICK c \in Chunks : /\ ready # <<>> /\ Head(ready) = <<"deliver", c>>
                            /\ Head(ready)[2] = c /\ Has("deliver", c)
    BY HeadOf DEF MakeTask
  <1> DEFINE t == << <<"step", c>> >>
  <1>2. /\ UNCHANGED <<bridgeClosed, generation, submitted, gen, waiters, shown>>
        /\ ended' = ended /\ queue' = queue /\ pending' = pending /\ worker' = worker
        /\ place' = [place EXCEPT ![c] = "new"]
        /\ ready' = Tail(ready) \o t
    BY <1>1 DEF MakeTask, bridge, Then
  <1>3. t \in Seq(Items)
    BY ItemsOf
  <1>4. \A l, d : HasIn(t, l, d) <=> l = "step" /\ d = c
    BY OneItem
  <1> HIDE DEF t
  <1>5. Moved("deliver", c, t)
    BY <1>1, <1>2, <1>3, MovedByPop DEF BridgeInv, BridgeTypes
  <1>6. /\ place[c] = "created" /\ place'[c] = "new" /\ ~Has("step", c) /\ c <= submitted
        /\ \A d \in Chunks : d # c => place'[d] = place[d]
    BY <1>1, <1>2 DEF BridgeInv, PlacesOK, TaskTypes
  <1>7. \A l \in {"deliver", "cancel", "done", "flush", "empty"} : \A d : ~HasIn(t, l, d)
    BY <1>4
  <1>8. \A l \in {"deliver", "cancel", "done", "flush", "empty"} : \A d, m, e :
           Before(m, e, l, d)' => Before(m, e, l, d)
    BY <1>5, <1>7 DEF Moved
  <1>9. \A d \in Chunks : Live(d)' => Live(d)
    BY <1>2, <1>6 DEF Live
  <1>10. submitted \in Nat /\ \A d \in Chunks : d \in Nat
    BY BoundsArePositive DEF BridgeInv, BridgeTypes, Chunks
  <1>11. RankInv
    BY DEF FlowInv
  <1>12. \A d \in Chunks : Live(d) /\ c < d => Rank(d) = 0
    <2> SUFFICES ASSUME NEW d \in Chunks, Live(d), c < d PROVE Rank(d) = 0
      OBVIOUS
    <2>1. Live(c) /\ Rank(c) = 0
      BY <1>6 DEF Live, Rank
    <2>2. Rank(d) <= Rank(c)
      BY <1>11, <2>1 DEF RankInv, RankOK
    <2>3. Rank(d) \in {0, 1, 2, 3}
      BY DEF Rank
    <2> QED BY <2>1, <2>2, <2>3
  <1>13. RankInv'
    <2>1. CancelsFirst'
      BY <1>8, <1>11 DEF RankInv, CancelsFirst
    <2>2. RankOK'
      <3> SUFFICES ASSUME NEW x \in Chunks, NEW y \in Chunks, x < y, Live(x)', Live(y)'
                   PROVE  Rank(y)' <= Rank(x)'
        BY DEF RankOK
      <3>1. Live(x) /\ Live(y)
        BY <1>9
      <3>2. Rank(y) <= Rank(x)
        BY <1>11, <3>1 DEF RankInv, RankOK
      <3>3. CASE y = c
        <4>1. x # c
          BY <1>10, <3>3
        <4>2. place'[x] = place[x]
          BY <1>6, <4>1
        <4>3. ~Has("deliver", x)
          <5>1. ~Before("deliver", c, "deliver", x)
            BY <1>11, <3>3 DEF RankInv, DeliversInOrder
          <5> QED BY <1>5, <4>1, <5>1 DEF Moved
        <4>4. place[x] \in {"new", "lock", "put"}
          <5>1. x <= submitted /\ place[x] # "over"
            BY <3>1 DEF Live
          <5>2. place[x] \in {"none", "created", "new", "lock", "put", "over"}
            BY DEF BridgeInv, TaskTypes
          <5>3. place[x] # "none" /\ place[x] # "created"
            BY <4>3, <5>1 DEF BridgeInv, PlacesOK
          <5> QED BY <5>1, <5>2, <5>3
        <4>5. Rank(x)' \in {1, 2, 3}
          BY <4>2, <4>4 DEF Rank
        <4>6. Rank(y)' = 1
          BY <1>6, <3>3 DEF Rank
        <4> QED BY <4>5, <4>6
      <3>4. CASE x = c
        <4>1. y # c
          BY <1>10, <3>4
        <4>2. Rank(y) = 0
          BY <1>12, <3>1, <3>4
        <4>3. Rank(y)' = 0
          BY <1>6, <4>1, <4>2 DEF Rank
        <4>4. Rank(x)' = 1
          BY <1>6, <3>4 DEF Rank
        <4> QED BY <4>3, <4>4
      <3>5. CASE x # c /\ y # c
        <4>1. place'[x] = place[x] /\ place'[y] = place[y]
          BY <1>6, <3>5
        <4> QED BY <3>2, <4>1 DEF Rank
      <3> QED BY <3>3, <3>4, <3>5
    <2>3. WaitersInOrder'
      BY <1>2, <1>11 DEF RankInv, WaitersInOrder
    <2>4. NewOK'
      <3> SUFFICES ASSUME NEW d \in Chunks, place'[d] = "new" PROVE Has("step", d)'
        BY DEF NewOK
      <3>1. CASE d = c
        BY <1>4, <1>5, <3>1 DEF Moved
      <3>2. CASE d # c
        <4>1. Has("step", d)
          BY <1>6, <1>11, <3>2 DEF RankInv, NewOK
        <4> QED BY <1>5, <4>1 DEF Moved
      <3> QED BY <3>1, <3>2
    <2>5. DeliversInOrder'
      BY <1>8, <1>11 DEF RankInv, DeliversInOrder
    <2>6. StepsInOrder'
      <3> SUFFICES ASSUME NEW x \in Chunks, NEW y \in Chunks, x < y,
                          place'[x] = "new", place'[y] = "new",
                          Before("step", y, "step", x)'
                   PROVE  FALSE
        BY DEF StepsInOrder
      <3>1. CASE Before("step", y, "step", x)
        <4>1. Has("step", y) /\ Has("step", x)
          BY <3>1, BeforeHas
        <4>2. x # c /\ y # c
          BY <1>6, <4>1
        <4>3. place[x] = "new" /\ place[y] = "new"
          BY <1>6, <4>2
        <4> QED BY <1>11, <3>1, <4>3 DEF RankInv, StepsInOrder
      <3>2. CASE HasIn(t, "step", x)
        <4>1. x = c /\ y # c
          BY <1>4, <1>10, <3>2
        <4>2. place[y] = "new"
          BY <1>6, <4>1
        <4>3. Has("step", y)
          BY <1>11, <4>2 DEF RankInv, NewOK
        <4>4. Live(y)
          BY <4>3, StepsLive
        <4>5. Rank(y) = 1
          BY <4>2 DEF Rank
        <4> QED BY <1>12, <4>1, <4>4, <4>5
      <3> QED BY <1>5, <3>1, <3>2 DEF Moved
    <2> QED BY <2>1, <2>2, <2>3, <2>4, <2>5, <2>6 DEF RankInv
  <1>14. OrderOK'
    <2>1. OrderOK /\ FramesOK /\ submitted' \in Nat /\ submitted <= submitted'
      BY <1>2, <1>10 DEF FlowInv, GenInv
    <2> QED BY <1>2, <1>9, <2>1, OrderStays
  <1>15. TrackedOK'
    <2>1. TrackedOK
      BY DEF FlowInv
    <2>2. \A d : ~HasIn(t, "done", d)
      BY <1>7
    <2>3. \A d \in Chunks : ~ended' /\ InTrack(d)' => InTrack(d) \/ Live(d)
      BY <1>2 DEF InTrack
    <2>4. /\ \A d \in Chunks : place'[d] = "over" => place[d] = "over" \/ HasIn(t, "done", d)
          /\ \A d \in Chunks : place[d] = "over" => place'[d] = "over"
      BY <1>6
    <2>5. "deliver" # "done"
      OBVIOUS
    <2> QED BY <1>2, <1>5, <2>1, <2>2, <2>3, <2>4, <2>5, TrackedStays
  <1>16. OldCancels'
    <2>1. OldCancels /\ (Writing' => Writing) /\ \A d : ~HasIn(t, "cancel", d)
      BY <1>2, <1>7 DEF FlowInv, Writing
    <2> QED BY <1>2, <1>5, <2>1, OldCancelsStay
  <1>17. MarkOK'
    <2>1. MarkOK /\ \A d : ~HasIn(t, "flush", d) /\ ~HasIn(t, "empty", d)
      BY <1>7 DEF FlowInv
    <2> QED BY <1>2, <1>5, <2>1, MarkStays
  <1>18. YoungOK'
    <2>1. YoungOK /\ \A d : ~HasIn(t, "flush", d) /\ ~HasIn(t, "empty", d)
      BY <1>7 DEF FlowInv
    <2>2. \A d \in 1 .. submitted : Harmless(d) => Harmless(d)'
      <3> SUFFICES ASSUME NEW d \in 1 .. submitted, Harmless(d) PROVE Harmless(d)'
        OBVIOUS
      <3>1. d \in Chunks
        BY BoundsArePositive DEF BridgeInv, BridgeTypes, Chunks
      <3>2. Stale(d)' <=> Stale(d)
        BY <1>2 DEF Stale
      <3>3. CASE d = c
        BY <1>6, <3>2, <3>3 DEF Harmless
      <3>4. CASE d # c
        BY <1>6, <3>1, <3>2, <3>4 DEF Harmless
      <3> QED BY <3>3, <3>4
    <2>3. /\ submitted' \in Nat /\ submitted <= submitted'
          /\ \A d \in Chunks : ~(submitted < d /\ d <= submitted')
      BY <1>2, <1>10
    <2> DEFINE k == "deliver"
    <2>4. /\ \A d \in Chunks : place[d] = "created" =>
                place'[d] = "created" \/ (k = "deliver" /\ d = c /\ place'[d] = "new")
          /\ \A d \in Chunks : place[d] = "new" => place'[d] = "new"
          /\ Moved(k, c, t)
      BY <1>5, <1>6
    <2> HIDE DEF k
    <2> QED BY <1>2, <2>1, <2>2, <2>3, <2>4, YoungStays
  <1> QED BY <1>13, <1>14, <1>15, <1>16, <1>17, <1>18 DEF FlowInv

-----------------------------------------------------------------------------
(* The steps of a delivery.                                                 *)

\* A task goes on to `p', behind the older ones.
LEMMA StepRank ==
  ASSUME BridgeInv, RankInv, NEW c \in Chunks, Has("step", c),
         NEW p \in {"lock", "put", "over"}, place' = [place EXCEPT ![c] = p],
         NEW t, Moved("step", c, t), submitted' = submitted, WaitersInOrder',
         \A d : HasIn(t, "step", d) => d \in Chunks /\ place[d] = "lock",
         \A d : ~HasIn(t, "deliver", d) /\ ~HasIn(t, "cancel", d),
         p = "lock" => /\ place[c] = "new"
                       /\ \A x \in Chunks : x < c /\ Live(x) => Rank(x) >= 2,
         p = "put" => \A x \in Chunks : x < c => ~Live(x)
  PROVE  RankInv'
  <1>1. place'[c] = p /\ \A d \in Chunks : d # c => place'[d] = place[d]
    BY DEF BridgeInv, TaskTypes
  <1>2. Live(c) /\ \A d \in Chunks : d \in Nat
    BY StepsLive DEF Chunks
  <1>3. \A d \in Chunks : Live(d)' => Live(d)
    BY <1>1, <1>2 DEF Live
  <1>4. CancelsFirst'
    <2>1. \A d : Before("turn", 0, "cancel", d)' => Before("turn", 0, "cancel", d)
      BY DEF Moved
    <2> QED BY <2>1 DEF RankInv, CancelsFirst
  <1>5. DeliversInOrder'
    <2>1. \A d, e : Before("deliver", d, "deliver", e)' => Before("deliver", d, "deliver", e)
      BY DEF Moved
    <2> QED BY <2>1 DEF RankInv, DeliversInOrder
  <1>6. NewOK'
    <2> SUFFICES ASSUME NEW d \in Chunks, place'[d] = "new" PROVE Has("step", d)'
      BY DEF NewOK
    <2>1. d # c
      BY <1>1
    <2>2. Has("step", d)
      BY <1>1, <2>1 DEF RankInv, NewOK
    <2> QED BY <2>1, <2>2 DEF Moved
  <1>7. StepsInOrder'
    <2> SUFFICES ASSUME NEW x \in Chunks, NEW y \in Chunks, x < y,
                        place'[x] = "new", place'[y] = "new",
                        Before("step", y, "step", x)'
                 PROVE  FALSE
      BY DEF StepsInOrder
    <2>1. x # c /\ y # c
      BY <1>1
    <2>2. place[x] = "new" /\ place[y] = "new"
      BY <1>1, <2>1
    <2>3. ~Before("step", y, "step", x)
      BY <2>2 DEF RankInv, StepsInOrder
    <2>4. HasIn(t, "step", x)
      BY <2>3 DEF Moved
    <2> QED BY <2>2, <2>4
  <1>8. RankOK'
    <2> SUFFICES ASSUME NEW x \in Chunks, NEW y \in Chunks, x < y, Live(x)', Live(y)'
                 PROVE  Rank(y)' <= Rank(x)'
      BY DEF RankOK
    <2>1. Live(x) /\ Live(y)
      BY <1>3
    <2>2. Rank(y) <= Rank(x)
      BY <2>1 DEF RankInv, RankOK
    <2>3. p # "over" \/ (x # c /\ y # c)
      BY <1>1 DEF Live
    <2>4. CASE x # c /\ y # c
      <3>1. place'[x] = place[x] /\ place'[y] = place[y]
        BY <1>1, <2>4
      <3> QED BY <2>2, <3>1 DEF Rank
    <2>5. CASE y = c /\ p # "over"
      <3>1. x # c
        BY <1>2, <2>5
      <3>2. Rank(x)' = Rank(x)
        BY <1>1, <3>1 DEF Rank
      <3>3. p = "lock"
        BY <2>1, <2>5
      <3>4. Rank(y)' = 2
        BY <1>1, <2>5, <3>3 DEF Rank
      <3>5. Rank(x) >= 2
        BY <2>1, <2>5, <3>3
      <3> QED BY <3>2, <3>4, <3>5
    <2>6. CASE x = c /\ p # "over"
      <3>1. y # c
        BY <1>2, <2>6
      <3>2. Rank(y)' = Rank(y) /\ Rank(y) \in {0, 1, 2, 3}
        BY <1>1, <3>1 DEF Rank
      <3>3. CASE p = "put"
        <4>1. Rank(x)' = 3
          BY <1>1, <2>6, <3>3 DEF Rank
        <4> QED BY <3>2, <4>1
      <3>4. CASE p = "lock"
        <4>1. Rank(x)' = 2 /\ Rank(x) = 1
          BY <1>1, <2>6, <3>4 DEF Rank
        <4> QED BY <2>2, <3>2, <4>1
      <3> QED BY <2>6, <3>3, <3>4
    <2> QED BY <2>3, <2>4, <2>5, <2>6
  <1> QED BY <1>4, <1>5, <1>6, <1>7, <1>8 DEF RankInv

\* A delivery that puts frames is older than all the others, and no flush older
\* than it is under way.
LEMMA StepFlow ==
  ASSUME BridgeInv, GenInv, FlowInv, NEW c \in Chunks, Has("step", c),
         UNCHANGED <<bridge, pending, worker, submitted, gen, ended, shown>>,
         NEW p \in {"lock", "put", "over"}, place' = [place EXCEPT ![c] = p],
         NEW t, Moved("step", c, t), RankInv',
         \A l \in {"cancel", "empty"} : \A d : ~HasIn(t, l, d),
         \A d : HasIn(t, "done", d) => d = c,
         p = "over" => HasIn(t, "done", c),
         \A m : HasIn(t, "flush", m) => m = c /\ p = "over",
         \A d \in Chunks : HasIn(t, "flush", c) /\ c < d /\ d <= submitted => Harmless(d),
         p = "put" => ~Harmless(c),
         FramesFrom(queue', queue, c), OrderFrom(queue', queue, c),
         queue' = queue \/ (~Harmless(c) /\ \A x \in Chunks : x < c => ~Live(x))
  PROVE  FlowInv'
  <1>1. place'[c] = p /\ \A d \in Chunks : d # c => place'[d] = place[d]
    BY DEF BridgeInv, TaskTypes
  <1>2. /\ UNCHANGED <<bridgeClosed, generation, submitted, gen, shown>>
        /\ pending' = pending /\ worker' = worker /\ ended' = ended
    BY DEF bridge
  <1>3. Live(c) /\ c <= submitted /\ c \in Nat /\ place[c] \in {"new", "lock", "put"}
        /\ submitted \in Nat /\ \A d \in Chunks : d \in Nat
    BY StepsLive, BoundsArePositive DEF BridgeInv, BridgeTypes, PlacesOK, Chunks
  <1>4. \A d \in Chunks : Live(d)' => Live(d)
    BY <1>1, <1>2, <1>3 DEF Live
  <1>5. ~ended => /\ \A i, j \in 1 .. Len(queue) : i < j => queue[i] <= queue[j]
                  /\ \A i \in 1 .. Len(queue) : shown <= queue[i] /\ queue[i] <= c
                  /\ \A d \in Chunks : Live(d) =>
                        shown <= d /\ \A i \in 1 .. Len(queue) : queue[i] <= d
                  /\ shown <= submitted /\ shown <= c
    BY <1>3 DEF FlowInv, OrderOK
  <1>6. ~ended => \A i \in 1 .. Len(queue') : queue'[i] <= c
    BY <1>3, <1>5 DEF FramesFrom
  <1>7. OrderOK'
    <2>1. CASE queue' = queue
      <3>1. OrderOK /\ FramesOK /\ submitted' \in Nat /\ submitted <= submitted'
        BY <1>2, <1>3 DEF FlowInv, GenInv
      <3> QED BY <1>2, <1>4, <2>1, <3>1, OrderStays
    <2>2. CASE \A x \in Chunks : x < c => ~Live(x)
      <3> SUFFICES ASSUME ~ended PROVE OrderOK'
        BY <1>2 DEF OrderOK
      <3>1. ASSUME NEW i \in 1 .. Len(queue'), NEW j \in 1 .. Len(queue'), i < j
            PROVE  queue'[i] <= queue'[j]
        <4>1. CASE queue'[j] = c
          BY <1>6, <4>1
        <4>2. CASE queue'[j] # c
          <5>1. PICK l \in 1 .. Len(queue), m \in 1 .. Len(queue) :
                   l < m /\ queue'[i] = queue[l] /\ queue'[j] = queue[m]
            BY <3>1, <4>2 DEF OrderFrom
          <5> QED BY <1>5, <5>1
        <4> QED BY <4>1, <4>2
      <3>2. \A i \in 1 .. Len(queue') : shown' <= queue'[i]
        BY <1>2, <1>5 DEF FramesFrom
      <3>3. ASSUME NEW d \in Chunks, Live(d)'
            PROVE  shown' <= d /\ \A i \in 1 .. Len(queue') : queue'[i] <= d
        <4>1. Live(d) /\ c <= d
          BY <1>3, <1>4, <2>2, <3>3
        <4> QED BY <1>2, <1>5, <4>1 DEF FramesFrom
      <3>4. shown' <= submitted'
        BY <1>2, <1>5
      <3> QED BY <3>1, <3>2, <3>3, <3>4 DEF OrderOK
    <2> QED BY <2>1, <2>2
  <1>8. TrackedOK'
    <2>1. TrackedOK
      BY DEF FlowInv
    <2>2. \A d : HasIn(t, "done", d) /\ ~ended' => \A i \in 1 .. Len(queue') : queue'[i] <= d
      BY <1>2, <1>6
    <2>3. \A d \in Chunks : ~ended' /\ InTrack(d)' => InTrack(d) \/ Live(d)
      BY <1>3 DEF InTrack, FramesFrom
    <2>4. \A d \in Chunks : place'[d] = "over" => place[d] = "over" \/ HasIn(t, "done", d)
      BY <1>1
    <2>5. \A d \in Chunks : place[d] = "over" => place'[d] = "over"
      BY <1>1, <1>3
    <2>6. "step" # "done"
      OBVIOUS
    <2> QED BY <1>2, <2>1, <2>2, <2>3, <2>4, <2>5, <2>6, TrackedStays
  <1>9. OldCancels'
    <2>1. OldCancels /\ (Writing' => Writing) /\ \A d : ~HasIn(t, "cancel", d)
      BY <1>2 DEF FlowInv, Writing
    <2> QED BY <1>2, <2>1, OldCancelsStay
  <1>10. MarkOK'
    <2>1. ASSUME NEW m \in Marks, Has("flush", m) \/ Has("empty", m), ~ended,
                 NEW i \in 1 .. Len(queue')
          PROVE  queue'[i] <= m \/ \E j \in 1 .. Len(queue) : queue'[i] = queue[j]
      <3>1. CASE queue' = queue
        BY <3>1
      <3>2. CASE queue'[i] = c /\ ~Harmless(c)
        <4>1. ASSUME m < c PROVE FALSE
          <5>1. /\ Has("flush", m) => BeforeFlush(c, m)
                /\ Has("empty", m) => BeforeEmpty(c, m)
            BY <1>3, <2>1, <4>1 DEF FlowInv, YoungOK
          <5>2. ~Has("flush", m)
            BY <1>3, <3>2, <5>1 DEF BeforeFlush
          <5>3. Has("empty", m)
            BY <2>1, <5>2
          <5>4. ~Before("step", c, "empty", m)
            BY <1>3, <3>2, <5>1, <5>3 DEF BeforeEmpty
          <5>5. Before("step", c, "empty", m)
            BY <5>3 DEF Moved
          <5> QED BY <5>4, <5>5
        <4>2. m \in Nat
          BY BoundsArePositive DEF Marks
        <4> QED BY <1>3, <3>2, <4>1, <4>2
      <3> QED BY <3>1, <3>2 DEF FramesFrom
    <2>2. \A m \in Marks : (Has("flush", m) \/ Has("empty", m)) /\ ~ended' =>
            \A i \in 1 .. Len(queue') :
               queue'[i] <= m \/ \E j \in 1 .. Len(queue) : queue'[i] = queue[j]
      BY <1>2, <2>1
    <2>3. \A m \in Marks : HasIn(t, "flush", m) /\ ~ended' =>
            \A i \in 1 .. Len(queue') : queue'[i] <= m
      BY <1>2, <1>6
    <2>4. MarkOK /\ \A m \in Marks : ~HasIn(t, "empty", m)
      BY DEF FlowInv
    <2> QED BY <1>2, <2>2, <2>3, <2>4, MarkStays
  <1>11. YoungOK'
    <2>1. YoungOK /\ \A d : ~HasIn(t, "empty", d)
      BY DEF FlowInv
    <2>2. ASSUME NEW d \in Chunks, Harmless(d) PROVE Harmless(d)'
      <3>1. Stale(d)' <=> Stale(d)
        BY <1>2 DEF Stale
      <3>2. CASE d = c
        BY <1>1, <1>3, <2>2, <3>1, <3>2 DEF Harmless
      <3>3. CASE d # c
        BY <1>1, <2>2, <3>1, <3>3 DEF Harmless
      <3> QED BY <3>2, <3>3
    <2>3. \A d \in 1 .. submitted : Harmless(d) => Harmless(d)'
      BY <2>2, BoundsArePositive DEF BridgeInv, BridgeTypes, Chunks
    <2>4. \A m \in Marks : HasIn(t, "flush", m) /\ ~ended' =>
            \A d \in Chunks : m < d /\ d <= submitted' => Harmless(d)'
      BY <1>2, <2>2
    <2>5. /\ submitted' \in Nat /\ submitted <= submitted'
          /\ \A d \in Chunks : ~(submitted < d /\ d <= submitted')
      BY <1>2, <1>3
    <2>6. \A d \in Chunks : place[d] = "created" => place'[d] = "created"
      BY <1>1, <1>3
    <2> DEFINE k == "step"
    <2>7. /\ \A d \in Chunks : place[d] = "new" => place'[d] = "new" \/ (k = "step" /\ d = c)
          /\ Moved(k, c, t)
      BY <1>1
    <2> HIDE DEF k
    <2> QED BY <1>2, <2>1, <2>3, <2>4, <2>5, <2>6, <2>7, YoungStays
  <1> QED BY <1>7, <1>8, <1>9, <1>10, <1>11 DEF FlowInv

LEMMA AbortsFlow ==
  ASSUME BridgeInv, GenInv, FlowInv,
         UNCHANGED <<bridge, pending, worker, submitted, gen, future, ended, shown>>,
         NEW c \in Chunks, ready # <<>>, Head(ready) = <<"step", c>>, Has("step", c), Aborts(c)
  PROVE  FlowInv'
  <1>1. /\ UNCHANGED <<bridge, pending, worker, submitted, gen, ended, shown>>
        /\ queue' = queue /\ waiters' = RemoveFirst(waiters, c)
        /\ place' = [place EXCEPT ![c] = "over"] /\ submitted' = submitted
    BY DEF Aborts, Over
  <1>2. PICK t \in Seq(Items) :
            /\ ready' = Tail(ready) \o t
            /\ \A k, d : HasIn(t, k, d) =>
                  \/ /\ k = "step" /\ d \in Chunks /\ d # c /\ place[d] = "lock"
                     /\ ~Has("step", d) /\ holder' = Nobody /\ waiters'[1] = d
                  \/ k = "done" /\ d = c
            /\ HasIn(t, "done", c)
            /\ \A k, d : ~BeforeIn(t, k, d, k, d)
    BY AbortsItems
  <1>3. /\ \A d : HasIn(t, "step", d) => d \in Chunks /\ place[d] = "lock"
        /\ \A d : HasIn(t, "done", d) => d = c
        /\ HasIn(t, "done", c)
    BY <1>2
  <1>4. \A l \in {"deliver", "cancel", "empty", "flush"} : \A d : ~HasIn(t, l, d)
    BY <1>2
  <1>5. Moved("step", c, t)
    <2>1. ready \in Seq(Items) /\ ready' = Tail(ready) \o t
      BY <1>2 DEF BridgeInv, BridgeTypes
    <2> QED BY <2>1, MovedByPop
  <1>6. WaitersInOrder'
    <2>1. \A i, j \in 1 .. Len(waiters) : i < j => waiters[i] < waiters[j]
      BY DEF FlowInv, RankInv, WaitersInOrder
    <2> QED BY <1>1, <2>1, WaitersLeft DEF WaitersInOrder
  <1> DEFINE p == "over"
  <1>7. p \in {"lock", "put", "over"} /\ p # "lock" /\ p # "put" /\ p = "over"
        /\ place' = [place EXCEPT ![c] = p]
    BY <1>1
  <1> HIDE DEF p
  <1>8. RankInv'
    <2>1. RankInv /\ \A d : ~HasIn(t, "deliver", d) /\ ~HasIn(t, "cancel", d)
      BY <1>4 DEF FlowInv
    <2> QED BY <1>1, <1>3, <1>5, <1>6, <1>7, <2>1, StepRank
  <1>9. FramesFrom(queue', queue, c) /\ OrderFrom(queue', queue, c)
    BY <1>1 DEF FramesFrom, OrderFrom
  <1>10. /\ \A l \in {"cancel", "empty"} : \A d : ~HasIn(t, l, d)
         /\ \A d : ~HasIn(t, "flush", d)
    BY <1>4
  <1> QED BY <1>1, <1>3, <1>5, <1>7, <1>8, <1>9, <1>10, StepFlow

\* Of the tasks that have not started, the oldest starts first.
LEMMA OlderStarted ==
  ASSUME BridgeInv, RankInv, NEW c \in Chunks, NEW t, Moved("step", c, t),
         place[c] = "new", Has("step", c),
         NEW x \in Chunks, x < c, Live(x)
  PROVE  place[x] = "lock" \/ place[x] = "put"
  <1>1. Live(c) /\ x # c
    BY StepsLive DEF Chunks
  <1>2. Rank(c) <= Rank(x) /\ Rank(c) = 1
    BY <1>1 DEF RankInv, RankOK, Rank
  <1>3. Rank(x) # 0
    BY <1>2
  <1>4. place[x] # "new"
    <2> SUFFICES ASSUME place[x] = "new" PROVE FALSE
      OBVIOUS
    <2>1. Has("step", x)
      BY DEF RankInv, NewOK
    <2>2. Before("step", c, "step", x)
      BY <1>1, <2>1 DEF Moved
    <2> QED BY <2>2 DEF RankInv, StepsInOrder
  <1> QED BY <1>3, <1>4 DEF Rank

LEMMA WaitsFlow ==
  ASSUME BridgeInv, GenInv, FlowInv,
         UNCHANGED <<bridge, pending, worker, submitted, gen, future, ended, shown>>,
         NEW c \in Chunks, ready # <<>>, Head(ready) = <<"step", c>>, Has("step", c), Waits(c)
  PROVE  FlowInv'
  <1> DEFINE p == "lock"
             t == <<>>
  <1>1. /\ UNCHANGED <<bridge, pending, worker, submitted, gen, ended, shown>>
        /\ queue' = queue /\ waiters' = Append(waiters, c) /\ place[c] = "new"
        /\ place' = [place EXCEPT ![c] = p] /\ submitted' = submitted
        /\ ready' = Tail(ready) \o t
    BY DEF Waits, Then
  <1>2. t \in Seq(Items) /\ \A l, d : ~HasIn(t, l, d)
    BY ItemsOf, NoItem
  <1>3. p \in {"lock", "put", "over"} /\ p = "lock" /\ p # "put" /\ p # "over"
    OBVIOUS
  <1> HIDE DEF p, t
  <1>4. Moved("step", c, t)
    BY <1>1, <1>2, MovedByPop DEF BridgeInv, BridgeTypes
  <1>5. RankInv
    BY DEF FlowInv
  <1>6. \A x \in Chunks : x < c /\ Live(x) => Rank(x) >= 2
    <2> SUFFICES ASSUME NEW x \in Chunks, x < c, Live(x) PROVE Rank(x) >= 2
      OBVIOUS
    <2>1. place[x] = "lock" \/ place[x] = "put"
      BY <1>1, <1>4, <1>5, OlderStarted
    <2> QED BY <2>1 DEF Rank
  <1>7. WaitersInOrder'
    <2>1. /\ waiters \in Seq(Chunks) /\ Len(waiters) \in Nat
          /\ Len(waiters') = Len(waiters) + 1 /\ waiters'[Len(waiters) + 1] = c
          /\ \A i \in 1 .. Len(waiters) : waiters'[i] = waiters[i]
      <3>1. waiters \in Seq(Chunks)
        BY DEF BridgeInv, LockOK
      <3> QED BY <1>1, <3>1, AppendProperties
    <2>2. ASSUME NEW i \in 1 .. Len(waiters) PROVE waiters[i] < c
      <3>1. waiters[i] \in Chunks /\ place[waiters[i]] = "lock"
        BY <2>1 DEF BridgeInv, LockOK
      <3>2. Live(waiters[i])
        BY <3>1 DEF BridgeInv, PlacesOK, Live
      <3>3. Live(c)
        BY StepsLive
      <3>4. Rank(waiters[i]) = 2 /\ Rank(c) = 1
        BY <1>1, <3>1 DEF Rank
      <3>5. ~(c < waiters[i])
        BY <1>5, <3>1, <3>2, <3>3, <3>4 DEF RankInv, RankOK
      <3>6. waiters[i] # c
        BY <1>1, <3>1
      <3>7. waiters[i] \in Nat /\ c \in Nat
        BY <3>1 DEF Chunks
      <3> QED BY <3>5, <3>6, <3>7
    <2>3. ASSUME NEW i \in 1 .. Len(waiters'), NEW j \in 1 .. Len(waiters'), i < j
          PROVE  waiters'[i] < waiters'[j]
      <3>1. i \in 1 .. Len(waiters) /\ (j \in 1 .. Len(waiters) \/ j = Len(waiters) + 1)
        <4>1. Len(waiters) \in Nat /\ Len(waiters') = Len(waiters) + 1
          BY <2>1
        <4> QED BY <2>3, <4>1
      <3>2. CASE j \in 1 .. Len(waiters)
        BY <1>5, <2>1, <2>3, <3>1, <3>2 DEF RankInv, WaitersInOrder
      <3>3. CASE j = Len(waiters) + 1
        BY <2>1, <2>2, <3>1, <3>3
      <3> QED BY <3>1, <3>2, <3>3
    <2> QED BY <2>3 DEF WaitersInOrder
  <1>8. RankInv'
    BY <1>1, <1>2, <1>3, <1>4, <1>5, <1>6, <1>7, StepRank
  <1>9. FramesFrom(queue', queue, c) /\ OrderFrom(queue', queue, c)
    BY <1>1 DEF FramesFrom, OrderFrom
  <1> QED BY <1>1, <1>2, <1>3, <1>4, <1>8, <1>9, StepFlow

\* Who has the delivery lock is the oldest of all.
LEMMA PutsOldest ==
  ASSUME BridgeInv, RankInv, NEW c \in Chunks, NEW t, Moved("step", c, t), Has("step", c),
         Puts(c)
  PROVE  \A x \in Chunks : x < c => ~Live(x)
  <1> SUFFICES ASSUME NEW x \in Chunks, x < c, Live(x) PROVE FALSE
    OBVIOUS
  <1>1. x # c /\ x \in Nat /\ c \in Nat /\ c # 0 /\ x # 0
    BY DEF Chunks
  <1>2. Live(c) /\ Rank(c) <= Rank(x)
    BY StepsLive DEF RankInv, RankOK
  <1>3. (place[x] = "put" => holder = x) /\ (place[c] = "put" => holder = c)
    BY DEF BridgeInv, LockOK
  <1>4. CASE place[c] = "put"
    <2>1. Rank(c) = 3
      BY <1>4 DEF Rank
    <2>2. place[x] = "put"
      BY <1>2, <2>1 DEF Rank
    <2> QED BY <1>1, <1>3, <1>4, <2>2
  <1>5. CASE place[c] = "lock"
    <2>1. ~must[c]
      BY DEF Puts
    <2>2. holder = Nobody /\ waiters[1] = c
      BY <1>5, <2>1 DEF BridgeInv, LockOK
    <2>3. Rank(c) = 2
      BY <1>5 DEF Rank
    <2>4. place[x] = "put" \/ place[x] = "lock"
      BY <1>2, <2>3 DEF Rank
    <2>5. place[x] = "lock"
      BY <1>1, <1>3, <2>2, <2>4 DEF Nobody
    <2>6. PICK i \in 1 .. Len(waiters) : waiters[i] = x
      BY <2>5 DEF BridgeInv, LockOK
    <2>7. Len(waiters) \in Nat
      BY DEF BridgeInv, LockOK
    <2>8. 1 \in 1 .. Len(waiters) /\ 1 < i
      BY <1>1, <2>2, <2>6, <2>7
    <2>9. c < x
      BY <2>2, <2>6, <2>8 DEF RankInv, WaitersInOrder
    <2> QED BY <1>1, <2>9
  <1>6. CASE place[c] = "new"
    <2>1. holder = Nobody /\ waiters = <<>>
      BY <1>6 DEF Puts, LockIsFree
    <2>2. place[x] = "lock" \/ place[x] = "put"
      BY <1>6, OlderStarted
    <2>3. place[x] # "lock"
      BY <2>1 DEF BridgeInv, LockOK
    <2> QED BY <1>1, <1>3, <2>1, <2>2, <2>3 DEF Nobody
  <1>7. place[c] \in {"new", "lock", "put"}
    BY DEF BridgeInv, PlacesOK
  <1> QED BY <1>4, <1>5, <1>6, <1>7

\* A late delivery is one of an older generation, and what is younger is old too.
LEMMA LatePut ==
  ASSUME BridgeInv, GenInv, FlowInv, NEW c \in Chunks, Has("step", c), ~must[c],
         place[c] = "put", Stale(c),
         NEW d \in Chunks, c < d, d <= submitted
  PROVE  Harmless(d)
  <1>1. place[d] # "put"
    <2>1. (place[d] = "put" => holder = d) /\ (place[c] = "put" => holder = c)
      BY DEF BridgeInv, LockOK
    <2>2. c # d
      BY DEF Chunks
    <2> QED BY <2>1, <2>2
  <1>2. Stale(d)
    <2> SUFFICES ASSUME ~bridgeClosed PROVE gen[d] < generation
      BY DEF Stale
    <2>1. gen[c] < generation /\ Live(c)
      BY StepsLive DEF Stale
    <2>2. PICK k \in Drops, m \in Marks : Before("cancel", c, k, m)
      BY <2>1 DEF GenInv, OldOK
    <2>3. Has("cancel", c)
      BY <2>2, BeforeHas
    <2>4. d \in 1 .. submitted
      BY BoundsArePositive DEF BridgeInv, BridgeTypes, Chunks
    <2> QED BY <2>1, <2>3, <2>4 DEF FlowInv, OldCancels
  <1> QED BY <1>1, <1>2 DEF Harmless

LEMMA PutsFlow ==
  ASSUME BridgeInv, GenInv, FlowInv,
         UNCHANGED <<bridge, pending, worker, submitted, gen, future, ended, shown>>,
         NEW c \in Chunks, ready # <<>>, Head(ready) = <<"step", c>>, Has("step", c), Puts(c)
  PROVE  FlowInv'
  <1>1. /\ waiters' = RemoveFirst(waiters, c)
        /\ FramesFrom(queue', queue, c) /\ OrderFrom(queue', queue, c)
        /\ ~must[c] /\ (place[c] = "put" \/ ~Stale(c))
        /\ \/ /\ place' = [place EXCEPT ![c] = "put"]
              /\ ready' = Tail(ready) \o <<>>
           \/ /\ place' = [place EXCEPT ![c] = "over"]
              /\ ready' = Tail(ready) \o
                     (WakeFirst(waiters') \o (IF Stale(c) THEN Flush(c) ELSE <<>>)
                       \o << <<"done", c>> >>)
    BY PutsFacts
  <1>2. /\ UNCHANGED <<bridge, pending, worker, submitted, gen, ended, shown>>
        /\ submitted' = submitted
    OBVIOUS
  <1>3. ready \in Seq(Items)
    BY DEF BridgeInv, BridgeTypes
  <1>4. PICK p \in {"put", "over"}, t \in Seq(Items) :
            /\ place' = [place EXCEPT ![c] = p]
            /\ ready' = Tail(ready) \o t
            /\ \A k, d : HasIn(t, k, d) =>
                  \/ k = "step" /\ d \in Chunks /\ place[d] = "lock"
                  \/ k = "flush" /\ d = c /\ Stale(c) /\ p = "over"
                  \/ k = "done" /\ d = c
            /\ p = "over" => HasIn(t, "done", c)
    <2>1. CASE place' = [place EXCEPT ![c] = "put"] /\ ready' = Tail(ready) \o <<>>
      <3> DEFINE p == "put"
                 t == <<>>
      <3>1. p \in {"put", "over"} /\ p # "over" /\ place' = [place EXCEPT ![c] = p]
            /\ ready' = Tail(ready) \o t
        BY <2>1
      <3>2. t \in Seq(Items) /\ \A k, d : ~HasIn(t, k, d)
        BY ItemsOf, NoItem
      <3> HIDE DEF p, t
      <3> QED BY <3>1, <3>2
    <2>2. CASE /\ place' = [place EXCEPT ![c] = "over"]
               /\ ready' = Tail(ready) \o
                     (WakeFirst(waiters') \o (IF Stale(c) THEN Flush(c) ELSE <<>>)
                       \o << <<"done", c>> >>)
      <3>1. PICK t \in Seq(Items) :
            /\ ready' = Tail(ready) \o t
            /\ \A k, d : HasIn(t, k, d) =>
                  \/ /\ k = "step" /\ d \in Chunks /\ d # c /\ place[d] = "lock"
                     /\ ~Has("step", d) /\ waiters'[1] = d
                  \/ k = "flush" /\ d = c /\ Stale(c)
                  \/ k = "done" /\ d = c
            /\ HasIn(t, "done", c)
            /\ Stale(c) => HasIn(t, "flush", c)
            /\ \A k, d : ~BeforeIn(t, k, d, k, d)
        BY <1>1, <2>2, PutsItems
      <3> DEFINE p == "over"
      <3>2. p \in {"put", "over"} /\ p = "over" /\ place' = [place EXCEPT ![c] = p]
        BY <2>2
      <3> HIDE DEF p
      <3>3. \A k, d : HasIn(t, k, d) =>
                  \/ k = "step" /\ d \in Chunks /\ place[d] = "lock"
                  \/ k = "flush" /\ d = c /\ Stale(c) /\ p = "over"
                  \/ k = "done" /\ d = c
        BY <3>1, <3>2
      <3>4. ready' = Tail(ready) \o t /\ HasIn(t, "done", c)
        BY <3>1
      <3> QED BY <3>2, <3>3, <3>4
    <2> QED BY <1>1, <2>1, <2>2
  <1>5. Moved("step", c, t)
    <2>1. ready' = Tail(ready) \o t
      BY <1>4
    <2> QED BY <1>3, <2>1, MovedByPop
  <1>6. /\ \A d : HasIn(t, "step", d) => d \in Chunks /\ place[d] = "lock"
        /\ \A d : HasIn(t, "done", d) => d = c
        /\ \A d : HasIn(t, "flush", d) => d = c /\ Stale(c) /\ p = "over"
    BY <1>4
  <1>7. \A l \in {"deliver", "cancel", "empty"} : \A d : ~HasIn(t, l, d)
    BY <1>4
  <1>8. RankInv
    BY DEF FlowInv
  <1>9. \A x \in Chunks : x < c => ~Live(x)
    BY <1>5, <1>8, PutsOldest
  <1>10. WaitersInOrder'
    <2>1. \A i, j \in 1 .. Len(waiters) : i < j => waiters[i] < waiters[j]
      BY <1>8 DEF RankInv, WaitersInOrder
    <2> QED BY <1>1, <2>1, WaitersLeft DEF WaitersInOrder
  <1>11. p \in {"lock", "put", "over"} /\ p # "lock" /\ place' = [place EXCEPT ![c] = p]
    BY <1>4
  <1>12. RankInv'
    <2>1. \A d : ~HasIn(t, "deliver", d) /\ ~HasIn(t, "cancel", d)
      BY <1>7
    <2> QED BY <1>2, <1>5, <1>6, <1>8, <1>9, <1>10, <1>11, <2>1, StepRank
  <1>13. ~Harmless(c)
    <2>1. place[c] # "over"
      BY StepsLive DEF Live
    <2> QED BY <1>1, <2>1 DEF Harmless
  <1>14. \A d \in Chunks : HasIn(t, "flush", c) /\ c < d /\ d <= submitted => Harmless(d)
    <2> SUFFICES ASSUME NEW d \in Chunks, HasIn(t, "flush", c), c < d, d <= submitted
                 PROVE  Harmless(d)
      OBVIOUS
    <2>1. Stale(c)
      BY <1>6
    <2>2. place[c] = "put" /\ ~must[c]
      BY <1>1, <2>1
    <2> QED BY <2>1, <2>2, LatePut
  <1>15. /\ \A l \in {"cancel", "empty"} : \A d : ~HasIn(t, l, d)
         /\ \A m : HasIn(t, "flush", m) => m = c /\ p = "over"
         /\ p = "over" => HasIn(t, "done", c)
    BY <1>4, <1>6, <1>7
  <1> QED BY <1>1, <1>2, <1>5, <1>6, <1>9, <1>11, <1>12, <1>13, <1>14, <1>15, StepFlow

LEMMA StepTaken ==
  ASSUME BridgeInv, GenInv, FlowInv, Step
  PROVE  FlowInv'
  <1>1. PICK c \in Chunks : /\ ready # <<>> /\ Head(ready) = <<"step", c>>
                            /\ Head(ready)[2] = c /\ Has("step", c)
    BY HeadOf DEF Step
  <1>2. /\ UNCHANGED <<bridge, pending, worker, submitted, gen, future, ended, shown>>
        /\ Aborts(c) \/ Waits(c) \/ Puts(c)
    BY <1>1 DEF Step
  <1> QED BY <1>1, <1>2, AbortsFlow, WaitsFlow, PutsFlow

LEMMA InitFlow == BridgeInit => FlowInv
  <1> SUFFICES ASSUME BridgeInit PROVE FlowInv
    OBVIOUS
  <1>1. \A k, c : Has(k, c) <=> k = "turn" /\ c = 0
    BY OneItem DEF BridgeInit, Has
  <1>2. \A l, d, m, e : ~Before(l, d, m, e)
    BY OneItem DEF BridgeInit, Before
  <1>3. /\ \A c \in Chunks : ~Live(c) /\ place[c] = "none"
        /\ pending = {} /\ worker.stale = {} /\ queue = <<>> /\ waiters = <<>>
        /\ shown = 0 /\ submitted = 0
    BY BoundsArePositive DEF BridgeInit, Live, Chunks
  <1>4. \A i : i \notin 1 .. Len(queue) /\ i \notin 1 .. Len(waiters)
    BY <1>3
  <1>5. RankInv
    BY <1>2, <1>3, <1>4 DEF RankInv, CancelsFirst, RankOK, WaitersInOrder, NewOK,
                            DeliversInOrder, StepsInOrder
  <1>6. OrderOK
    BY <1>3, <1>4 DEF OrderOK
  <1>7. TrackedOK
    BY <1>2, <1>3 DEF TrackedOK, NewestOK, Newest, DoneOK, DoneInOrder, CurrentOK
  <1>8. OldCancels /\ MarkOK /\ YoungOK
    BY <1>1 DEF OldCancels, MarkOK, YoungOK
  <1> QED BY <1>5, <1>6, <1>7, <1>8 DEF FlowInv

LEMMA FlowNext ==
  ASSUME BridgeInv, GenInv, FlowInv, [BridgeNext]_bridgeVars
  PROVE  FlowInv'
  <1>1. CASE Worker
    BY <1>1, SectionFlow, CancelStaleFlow, ScheduleFlow, PlanFlow DEF Worker
  <1>2. CASE Loop
    BY <1>2, TurnFlow, BeginGenerationFlow, MakeTaskFlow, CancelTaskFlow, StepTaken, DoneFlow,
       MakeTrackTaskFlow, EmptyFlow, CloseFlow DEF Loop
  <1>3. CASE CloseBridge
    BY <1>3, CloseFlow
  <1>4. CASE TakeFrame
    BY <1>4, TakeFrameFlow
  <1>5. CASE UNCHANGED bridgeVars
    BY <1>5, StutterFlow
  <1> QED BY <1>1, <1>2, <1>3, <1>4, <1>5 DEF BridgeNext

\* A frame is shown after the frames of older chunks or not at all, and a flush
\* drops nothing younger than what was stale when it was scheduled: the frames
\* of a chunk are put by the oldest delivery that is not over, and only when no
\* flush that should meet older ones is still to run (services.py, _deliver and
\* submit_chunk; BufferedVideoTrack.flush).
THEOREM FramesKeepTheirOrder == BridgeSpec => TrackKeepsOrder
  <1> DEFINE Inv == BridgeInv /\ GenInv /\ FlowInv
             Ordered == /\ shown' >= shown
                        /\ Empty /\ ~ended =>
                             \A i \in 1 .. Len(queue) : queue[i] <= Head(ready)[2]
  <1>1. BridgeInit => Inv
    BY InitBridge, InitGen, InitFlow
  <1>2. Inv /\ [BridgeNext]_bridgeVars => Inv'
    BY BridgeStays, GenNext, FlowNext
  <1>3. Inv /\ [BridgeNext]_bridgeVars => [Ordered]_bridgeVars
    <2> SUFFICES ASSUME Inv, BridgeNext PROVE Ordered
      OBVIOUS
    <2>1. shown \in Nat
      BY BoundsArePositive DEF BridgeInv, BridgeTypes
    <2>2. shown' >= shown
      <3>1. CASE TakeFrame
        <4>1. ~ended /\ queue # <<>> /\ shown' = Head(queue)
          BY <3>1 DEF TakeFrame
        <4>2. queue \in Seq(0 .. MaxChunks)
          BY DEF BridgeInv, QueueOK
        <4>3. 1 \in 1 .. Len(queue) /\ shown' = queue[1] /\ queue[1] \in Nat
          BY <4>1, <4>2, BoundsArePositive
        <4>4. shown <= queue[1]
          BY <4>1, <4>3 DEF FlowInv, OrderOK
        <4> QED BY <2>1, <4>3, <4>4
      <3>2. CASE ~TakeFrame
        <4>1. shown' = shown
          BY <3>2 DEF BridgeNext, Worker, Loop, Section, CancelStale, Schedule, Plan, Write,
                      BeginGeneration, DriverIsDone, MakeTask, CancelTask, Step, Done,
                      MakeTrackTask, Empty, EndTrack, CloseBridge
        <4> QED BY <2>1, <4>1
      <3> QED BY <3>1, <3>2
    <2>3. ASSUME Empty, ~ended, NEW i \in 1 .. Len(queue) PROVE queue[i] <= Head(ready)[2]
      <3>1. ready \in Seq(Items) /\ Runs("empty")
        BY <2>3 DEF BridgeInv, BridgeTypes, Empty
      <3>2. PICK m \in Marks : ready # <<>> /\ Head(ready) = <<"empty", m>> /\ m = Head(ready)[2]
        BY <3>1, HeadItem DEF Marks
      <3>3. 1 \in 1 .. Len(ready) /\ ready[1] = <<"empty", m>>
        BY <3>1, <3>2
      <3>4. Has("empty", m)
        BY <3>3 DEF Has, HasIn
      <3>5. queue[i] <= m
        BY <2>3, <3>4 DEF FlowInv, MarkOK
      <3> QED BY <3>2, <3>5
    <2> QED BY <2>2, <2>3
  <1>4. BridgeSpec => [][Ordered]_bridgeVars
    BY <1>1, <1>2, <1>3, PTL DEF BridgeSpec
  <1> QED BY <1>4 DEF TrackKeepsOrder

-----------------------------------------------------------------------------
(***************************************************************************)
(* The track.  Its own invariants need two facts about its threads: recv   *)
(* has popped a frame exactly while it is about to stamp it, and no more   *)
(* than one wake-up is ever on its way, which is what _wake_scheduled is   *)
(* for.                                                                    *)
(***************************************************************************)
(***************************************************************************)
(* A wake-up is on its way to the loop, or is about to be scheduled, only  *)
(* while _wake_scheduled is set, or after the close that reset it.         *)
(***************************************************************************)
OneWakeUp ==
    /\ wakes = 1 => writer = "idle"
    /\ ~wake /\ ~closed => wakes = 0 /\ writer = "idle"

(***************************************************************************)
(* A popped frame is one that recv goes on to stamp.                       *)
(***************************************************************************)
TakenIsStamped == loop = "took" <=> taken # <<>>

TrackInv == TypeOK /\ OneWakeUp /\ TakenIsStamped /\ FramesAccounted /\ DrainedExactly

USE CapacityIsPositive, BoundsAreNat DEF None

-----------------------------------------------------------------------------
(***************************************************************************)
(* Putting a frame at the end keeps the newest `Capacity' frames, at most  *)
(* one of them having been dropped.                                        *)
(***************************************************************************)
LEMMA OldestFacts ==
  ASSUME NEW s \in Seq(Frames), Len(s) <= Capacity, NEW f \in Frames
  PROVE  /\ Oldest(s) \in Seq(Frames)
         /\ Len(Oldest(s)) \in Nat /\ Len(Oldest(s)) <= Len(s)
         /\ Append(Oldest(s), f) \in Seq(Frames)
         /\ Len(Append(Oldest(s), f)) = Len(Oldest(s)) + 1
         /\ Len(Append(Oldest(s), f)) <= Capacity
         /\ Append(Oldest(s), f) # <<>>
  <1>1. CASE Len(s) >= Capacity
    <2>1. s # <<>> /\ Oldest(s) = Tail(s)
      BY <1>1 DEF Oldest
    <2>2. Tail(s) \in Seq(Frames) /\ Len(Tail(s)) = Len(s) - 1
      BY <2>1, HeadTailProperties
    <2> DEFINE t == Tail(s)
    <2> HIDE DEF t
    <2>3. t \in Seq(Frames) /\ Len(t) = Len(s) - 1 /\ Len(s) \in Nat /\ Oldest(s) = t
      BY <2>1, <2>2 DEF t
    <2>4. Append(t, f) \in Seq(Frames) /\ Len(Append(t, f)) = Len(t) + 1 /\ Len(t) \in Nat
      BY <2>3, AppendProperties
    <2>5. Append(t, f) # <<>>
      BY <2>3, <2>4
    <2> QED
      BY <2>3, <2>4, <2>5
  <1>2. CASE Len(s) < Capacity
    BY <1>2 DEF Oldest
  <1> QED
    BY <1>1, <1>2

LEMMA InitTrack == Init => TrackInv
  <1> SUFFICES ASSUME Init PROVE TrackInv
    OBVIOUS
  <1>1. TypeOK
    <2>1. QueuesOK
      BY DEF Init, QueuesOK
    <2>2. FlagsOK
      BY DEF Init, FlagsOK
    <2>3. NumbersOK
      BY DEF Init, NumbersOK
    <2>4. ThreadsOK
      BY DEF Init, ThreadsOK
    <2> QED
      BY <2>1, <2>2, <2>3, <2>4 DEF TypeOK
  <1>2. OneWakeUp /\ TakenIsStamped /\ DrainedExactly
    BY DEF Init, OneWakeUp, TakenIsStamped, DrainedExactly
  <1>3. FramesAccounted
    BY DEF Init, FramesAccounted, Counters
  <1> QED
    BY <1>1, <1>2, <1>3 DEF TrackInv

LEMMA CounterFacts ==
  ASSUME NEW c \in [Counters -> Nat]
  PROVE  /\ c["enqueued"] \in Nat /\ c["handed"] \in Nat /\ c["lag"] \in Nat
         /\ c["session"] \in Nat /\ c["close"] \in Nat
  BY DEF Counters

LEMMA EnqueueKeeps == TrackInv /\ Enqueue => TrackInv'
  <1> SUFFICES ASSUME TrackInv, Enqueue PROVE TrackInv'
    OBVIOUS
  <1> DEFINE f == [n |-> count["enqueued"] + 1, at |-> clock]
             kept == Oldest(frames)
  <1>1. frames \in Seq(Frames) /\ Len(frames) <= Capacity /\ count \in [Counters -> Nat]
    BY DEF TrackInv, TypeOK, QueuesOK, NumbersOK
  <1>2. f \in Frames
    BY <1>1, CounterFacts DEF TrackInv, TypeOK, NumbersOK, Enqueue, Frames
  <1>3. /\ frames' \in Seq(Frames) /\ Len(frames') <= Capacity /\ frames' # <<>>
        /\ Len(frames') = Len(kept) + 1 /\ Len(kept) \in Nat /\ Len(kept) <= Len(frames)
    <2>1. frames' = Append(kept, f)
      BY DEF Enqueue
    <2> HIDE DEF f
    <2> QED
      BY <1>1, <1>2, <2>1, OldestFacts
  <1>4. count' = [count EXCEPT !["enqueued"] = @ + 1,
                               !["lag"] = @ + Len(frames) - Len(kept)]
    BY DEF Enqueue
  <1> HIDE DEF kept
  <1>5. /\ count' \in [Counters -> Nat]
        /\ count'["enqueued"] = count["enqueued"] + 1
        /\ count'["lag"] = count["lag"] + (Len(frames) - Len(kept))
        /\ count'["handed"] = count["handed"] /\ count'["session"] = count["session"]
        /\ count'["close"] = count["close"]
    <2>1. Len(frames) \in Nat /\ Len(kept) \in Nat /\ Len(kept) <= Len(frames)
      BY <1>1, <1>3
    <2> QED
      BY <1>1, <1>4, <2>1 DEF Counters
  <1>6. TypeOK'
    <2>1. QueuesOK'
      BY <1>3 DEF TrackInv, TypeOK, QueuesOK, Enqueue
    <2>2. FlagsOK' /\ ThreadsOK'
      BY DEF TrackInv, TypeOK, FlagsOK, ThreadsOK, Enqueue
    <2>3. NumbersOK'
      BY <1>5 DEF TrackInv, TypeOK, NumbersOK, Enqueue
    <2> QED
      BY <2>1, <2>2, <2>3 DEF TypeOK
  <1>7. OneWakeUp' /\ TakenIsStamped'
    BY DEF TrackInv, TypeOK, FlagsOK, OneWakeUp, TakenIsStamped, Enqueue
  <1>8. FramesAccounted'
    <2>1. taken' = taken /\ Len(taken) \in Nat /\ Len(frames) \in Nat
      BY <1>1 DEF TrackInv, TypeOK, QueuesOK, Enqueue
    <2>2. count["enqueued"] = count["handed"] + count["lag"] + count["session"]
                              + count["close"] + Len(frames) + Len(taken)
      BY DEF TrackInv, FramesAccounted
    <2>3. /\ count["enqueued"] \in Nat /\ count["handed"] \in Nat /\ count["lag"] \in Nat
          /\ count["session"] \in Nat /\ count["close"] \in Nat
      BY CounterFacts DEF TrackInv, TypeOK, NumbersOK
    <2>4. Len(kept) \in Nat /\ Len(frames') = Len(kept) + 1
      BY <1>3
    <2>5. count["enqueued"] + 1
            = count["handed"] + (count["lag"] + (Len(frames) - Len(kept)))
              + count["session"] + count["close"] + (Len(kept) + 1) + Len(taken)
      <3> DEFINE n == Len(frames)
                 k == Len(kept)
                 t == Len(taken)
      <3>1. n \in Nat /\ k \in Nat /\ t \in Nat
        BY <2>1, <2>4
      <3>2. count["enqueued"] = count["handed"] + count["lag"] + count["session"]
                                + count["close"] + n + t
        BY <2>2
      <3> HIDE DEF n, k, t
      <3>3. count["enqueued"] + 1
              = count["handed"] + (count["lag"] + (n - k)) + count["session"]
                + count["close"] + (k + 1) + t
        BY <2>3, <3>1, <3>2
      <3> QED
        BY <3>3 DEF n, k, t
    <2> QED
      BY <1>5, <2>1, <2>4, <2>5 DEF FramesAccounted
  <1>9. DrainedExactly'
    BY <1>3 DEF DrainedExactly, Enqueue
  <1> QED
    BY <1>6, <1>7, <1>8, <1>9 DEF TrackInv

LEMMA NextQueuedFrameKeeps == TrackInv /\ NextQueuedFrame => TrackInv'
  <1> SUFFICES ASSUME TrackInv, NextQueuedFrame PROVE TrackInv'
    OBVIOUS
  <1>1. NumbersOK' /\ count' = count
    BY DEF TrackInv, TypeOK, NumbersOK, NextQueuedFrame
  <1>2. CASE frames = <<>>
    <2>1. QueuesOK' /\ frames' = frames /\ taken' = taken
      BY <1>2 DEF TrackInv, TypeOK, QueuesOK, NextQueuedFrame
    <2>2. FlagsOK' /\ ThreadsOK'
      BY <1>2 DEF TrackInv, TypeOK, FlagsOK, ThreadsOK, NextQueuedFrame
    <2>3. OneWakeUp' /\ TakenIsStamped' /\ DrainedExactly'
      BY <1>2, <2>1
         DEF TrackInv, OneWakeUp, TakenIsStamped, DrainedExactly, NextQueuedFrame
    <2>4. FramesAccounted'
      BY <1>1, <2>1 DEF TrackInv, FramesAccounted
    <2> QED
      BY <1>1, <2>1, <2>2, <2>3, <2>4 DEF TrackInv, TypeOK
  <1>3. CASE frames # <<>>
    <2>1. /\ frames' = Tail(frames) /\ taken' = <<Head(frames)>> /\ loop' = "took"
          /\ taken = <<>>
      BY <1>3 DEF NextQueuedFrame, TrackInv, TakenIsStamped
    <2>2. /\ Head(frames) \in Frames /\ frames' \in Seq(Frames)
          /\ Len(frames') = Len(frames) - 1 /\ Len(frames) \in Nat
      BY <1>3, <2>1, HeadTailProperties DEF TrackInv, TypeOK, QueuesOK
    <2>3. taken' \in Seq(Frames) /\ Len(taken') = 1 /\ taken' # <<>>
      BY <2>1, <2>2
    <2>4. QueuesOK'
      BY <2>2, <2>3 DEF TrackInv, TypeOK, QueuesOK
    <2>5. FlagsOK' /\ ThreadsOK'
      BY <1>3 DEF TrackInv, TypeOK, FlagsOK, ThreadsOK, NextQueuedFrame
    <2>6. OneWakeUp' /\ TakenIsStamped'
      BY <2>1, <2>3 DEF TrackInv, OneWakeUp, TakenIsStamped, NextQueuedFrame
    <2>7. FramesAccounted'
      <3>1. Len(taken) = 0 /\ count \in [Counters -> Nat]
        BY <2>1 DEF TrackInv, TypeOK, NumbersOK
      <3>2. count["enqueued"] = count["handed"] + count["lag"] + count["session"]
                                + count["close"] + Len(frames) + Len(taken)
        BY DEF TrackInv, FramesAccounted
      <3>3. /\ count["enqueued"] \in Nat /\ count["handed"] \in Nat /\ count["lag"] \in Nat
            /\ count["session"] \in Nat /\ count["close"] \in Nat
        BY CounterFacts DEF TrackInv, TypeOK, NumbersOK
      <3>4. /\ Len(frames) \in Nat /\ Len(frames') = Len(frames) - 1
            /\ Len(taken') = 1
        BY <2>2, <2>3
      <3>5. count["enqueued"] = count["handed"] + count["lag"] + count["session"]
                                + count["close"] + Len(frames') + Len(taken')
        BY <3>1, <3>2, <3>3, <3>4
      <3> QED
        BY <1>1, <3>5 DEF FramesAccounted
    <2>8. DrainedExactly'
      BY <1>3, <2>3 DEF TrackInv, DrainedExactly, NextQueuedFrame
    <2> QED
      BY <1>1, <2>4, <2>5, <2>6, <2>7, <2>8 DEF TrackInv, TypeOK
  <1> QED
    BY <1>2, <1>3

LEMMA HandOffKeeps == TrackInv /\ HandOff => TrackInv'
  <1> SUFFICES ASSUME TrackInv, HandOff PROVE TrackInv'
    OBVIOUS
  <1>1. Len(taken) = 1 /\ taken[1] \in Frames /\ taken # <<>> /\ taken' = <<>>
    <2>1. taken \in Seq(Frames) /\ Len(taken) <= 1 /\ taken' = <<>>
      BY DEF TrackInv, TypeOK, QueuesOK, HandOff
    <2>2. taken # <<>>
      BY DEF TrackInv, TakenIsStamped, HandOff
    <2>3. Len(taken) \in Nat /\ Len(taken) # 0
      BY <2>1, <2>2, EmptySeq
    <2>4. Len(taken) = 1
      <3>1. \A n \in Nat : n <= 1 /\ n # 0 => n = 1
        OBVIOUS
      <3>2. Len(taken) <= 1
        BY <2>1
      <3> QED
        BY <2>3, <3>1, <3>2
    <2>5. taken[1] \in Frames
      BY <2>1, <2>4
    <2> QED
      BY <2>1, <2>2, <2>4, <2>5
  <1>2. taken[1].at \in 0 .. MaxClock
    BY <1>1 DEF Frames
  <1>3. first' \in 0 .. MaxClock
    BY <1>2 DEF HandOff, TrackInv, TypeOK, NumbersOK
  <1>4. nextPts' \in Nat
    BY <1>2, <1>3 DEF HandOff, TrackInv, TypeOK, NumbersOK, Pts, Larger
  <1>5. /\ count' \in [Counters -> Nat]
        /\ count'["handed"] = count["handed"] + 1
        /\ count'["enqueued"] = count["enqueued"] /\ count'["lag"] = count["lag"]
        /\ count'["session"] = count["session"] /\ count'["close"] = count["close"]
    BY DEF HandOff, TrackInv, TypeOK, NumbersOK, Counters
  <1>6. TypeOK'
    <2>1. QueuesOK'
      BY <1>1 DEF TrackInv, TypeOK, QueuesOK, HandOff
    <2>2. FlagsOK' /\ ThreadsOK'
      BY DEF TrackInv, TypeOK, FlagsOK, ThreadsOK, HandOff
    <2>3. NumbersOK'
      BY <1>3, <1>4, <1>5 DEF TrackInv, TypeOK, NumbersOK, HandOff
    <2> QED
      BY <2>1, <2>2, <2>3 DEF TypeOK
  <1>7. OneWakeUp' /\ TakenIsStamped' /\ DrainedExactly'
    BY <1>1 DEF TrackInv, OneWakeUp, TakenIsStamped, DrainedExactly, HandOff
  <1>8. FramesAccounted'
    <2>1. frames' = frames /\ Len(frames) \in Nat /\ count \in [Counters -> Nat]
          /\ Len(taken') = 0
      BY <1>1 DEF TrackInv, TypeOK, NumbersOK, QueuesOK, HandOff
    <2>2. count["enqueued"] = count["handed"] + count["lag"] + count["session"]
                              + count["close"] + Len(frames) + Len(taken)
      BY DEF TrackInv, FramesAccounted
    <2>3. /\ count["enqueued"] \in Nat /\ count["handed"] \in Nat /\ count["lag"] \in Nat
          /\ count["session"] \in Nat /\ count["close"] \in Nat
      BY CounterFacts DEF TrackInv, TypeOK, NumbersOK
    <2>4. Len(taken) = 1 /\ Len(frames) \in Nat
      BY <1>1, <2>1
    <2> DEFINE e == count["enqueued"]  h == count["handed"]   l == count["lag"]
               s == count["session"]   c == count["close"]    f == Len(frames)
    <2>5. e = (h + 1) + l + s + c + f + 0
      <3>1. e = h + l + s + c + f + 1
        BY <2>2, <2>4
      <3>2. h \in Nat /\ l \in Nat /\ s \in Nat /\ c \in Nat /\ f \in Nat
        BY <2>3, <2>4
      <3> HIDE DEF e, h, l, s, c, f
      <3> QED
        BY <3>1, <3>2
    <2>6. Len(frames') = Len(frames) /\ Len(taken') = 0
      BY <2>1
    <2> QED
      BY <1>5, <2>5, <2>6 DEF FramesAccounted
  <1> QED
    BY <1>6, <1>7, <1>8 DEF TrackInv

LEMMA StartSessionKeeps == TrackInv /\ StartSession => TrackInv'
  <1> SUFFICES ASSUME TrackInv, StartSession PROVE TrackInv'
    OBVIOUS
  <1>1. taken = <<>> /\ taken' = <<>> /\ Len(frames) \in Nat /\ frames' = <<>>
    BY DEF TrackInv, TypeOK, QueuesOK, TakenIsStamped, StartSession
  <1>2. /\ count' \in [Counters -> Nat]
        /\ count'["session"] = count["session"] + Len(frames)
        /\ count'["enqueued"] = count["enqueued"] /\ count'["lag"] = count["lag"]
        /\ count'["handed"] = count["handed"] /\ count'["close"] = count["close"]
    BY <1>1 DEF StartSession, TrackInv, TypeOK, NumbersOK, Counters
  <1>3. TypeOK'
    <2>1. QueuesOK'
      BY <1>1 DEF QueuesOK
    <2>2. FlagsOK' /\ ThreadsOK'
      BY DEF TrackInv, TypeOK, FlagsOK, ThreadsOK, StartSession
    <2>3. NumbersOK'
      BY <1>2 DEF TrackInv, TypeOK, NumbersOK, StartSession
    <2> QED
      BY <2>1, <2>2, <2>3 DEF TypeOK
  <1>4. OneWakeUp' /\ TakenIsStamped' /\ DrainedExactly'
    BY <1>1 DEF TrackInv, TypeOK, FlagsOK, OneWakeUp, TakenIsStamped, DrainedExactly,
                StartSession
  <1>5. FramesAccounted'
    BY <1>1, <1>2, CounterFacts DEF TrackInv, TypeOK, NumbersOK, FramesAccounted
  <1> QED
    BY <1>3, <1>4, <1>5 DEF TrackInv

LEMMA CloseKeeps == TrackInv /\ Close => TrackInv'
  <1> SUFFICES ASSUME TrackInv, Close PROVE TrackInv'
    OBVIOUS
  <1>1. taken = <<>> /\ taken' = <<>> /\ Len(frames) \in Nat /\ frames' = <<>>
    BY DEF TrackInv, TypeOK, QueuesOK, TakenIsStamped, Close
  <1>2. /\ count' \in [Counters -> Nat]
        /\ count'["close"] = count["close"] + Len(frames)
        /\ count'["enqueued"] = count["enqueued"] /\ count'["lag"] = count["lag"]
        /\ count'["handed"] = count["handed"] /\ count'["session"] = count["session"]
    BY <1>1 DEF Close, TrackInv, TypeOK, NumbersOK, Counters
  <1>3. TypeOK'
    <2>1. QueuesOK'
      BY <1>1 DEF QueuesOK
    <2>2. FlagsOK' /\ ThreadsOK'
      BY DEF TrackInv, TypeOK, FlagsOK, ThreadsOK, Close
    <2>3. NumbersOK'
      BY <1>2 DEF TrackInv, TypeOK, NumbersOK, Close
    <2> QED
      BY <2>1, <2>2, <2>3 DEF TypeOK
  <1>4. OneWakeUp' /\ TakenIsStamped' /\ DrainedExactly'
    BY <1>1 DEF TrackInv, TypeOK, OneWakeUp, TakenIsStamped, DrainedExactly, Close
  <1>5. FramesAccounted'
    BY <1>1, <1>2, CounterFacts DEF TrackInv, TypeOK, NumbersOK, FramesAccounted
  <1> QED
    BY <1>3, <1>4, <1>5 DEF TrackInv

\* The steps that leave the queue, the popped frame and the counters alone.
LEMMA FinishEnqueueKeeps == TrackInv /\ FinishEnqueue => TrackInv'
  <1> SUFFICES ASSUME TrackInv, FinishEnqueue PROVE TrackInv'
    OBVIOUS
  <1>1. wakes = 1 /\ wakes' = 0 /\ writer' = "idle"
    BY DEF TrackInv, TypeOK, NumbersOK, OneWakeUp, FinishEnqueue
  <1>2. NumbersOK'
    BY <1>1 DEF TrackInv, TypeOK, NumbersOK, FinishEnqueue
  <1>3. QueuesOK' /\ FramesAccounted'
    BY DEF TrackInv, TypeOK, QueuesOK, FramesAccounted, FinishEnqueue
  <1>4. FlagsOK' /\ ThreadsOK'
    BY DEF TrackInv, TypeOK, FlagsOK, ThreadsOK, FinishEnqueue
  <1>5. OneWakeUp' /\ TakenIsStamped' /\ DrainedExactly'
    BY <1>1 DEF TrackInv, OneWakeUp, TakenIsStamped, DrainedExactly, FinishEnqueue
  <1> QED
    BY <1>2, <1>3, <1>4, <1>5 DEF TrackInv, TypeOK

LEMMA StepKeeps == TrackInv /\ [Next]_vars => TrackInv'
  <1> SUFFICES ASSUME TrackInv, [Next]_vars PROVE TrackInv'
    OBVIOUS
  <1> USE DEF TrackInv, TypeOK, QueuesOK, FlagsOK, NumbersOK, ThreadsOK, OneWakeUp,
              TakenIsStamped, FramesAccounted, DrainedExactly, track, vars
  <1>1. CASE UNCHANGED vars
    BY <1>1
  <1>2. CASE Tick
    BY <1>2 DEF Tick
  <1>3. CASE ScheduleWake
    BY <1>3 DEF ScheduleWake
  <1>4. CASE Recv
    BY <1>4 DEF Recv
  <1>5. CASE Woken
    BY <1>5 DEF Woken
  <1>6. CASE AfterSection
    BY <1>6 DEF AfterSection, SetEvent
  <1> QED
    BY <1>1, <1>2, <1>3, <1>4, <1>5, <1>6, EnqueueKeeps, NextQueuedFrameKeeps,
       HandOffKeeps, StartSessionKeeps, CloseKeeps, FinishEnqueueKeeps
       DEF Next, LoopGoesOn

(***************************************************************************)
(* Every frame that was admitted is handed to aiortc or counted as dropped *)
(* or discarded, once, whatever the two threads do (enqueue, _recv_one,    *)
(* start_session, close).                                                  *)
(***************************************************************************)
THEOREM NoFrameIsLost == Spec => [](TypeOK /\ FramesAccounted)
  <1>1. TrackInv => TypeOK /\ FramesAccounted
    BY DEF TrackInv
  <1> QED
    BY <1>1, InitTrack, StepKeeps, PTL DEF Spec

(***************************************************************************)
(* _sender_drained, which the server's close waits for, is set exactly     *)
(* while no frame is queued, popped or in flight.                          *)
(***************************************************************************)
THEOREM DrainedMeansSent == Spec => []DrainedExactly
  <1>1. TrackInv => DrainedExactly
    BY DEF TrackInv
  <1> QED
    BY <1>1, InitTrack, StepKeeps, PTL DEF Spec

-----------------------------------------------------------------------------
(***************************************************************************)
(* The queue of the mailbox drops after the frame is put, the track before *)
(* it: the same frames are kept.                                           *)
(***************************************************************************)
LEMMA SameFramesKept ==
  ASSUME NEW s \in Seq(Frames), Len(s) <= Capacity, NEW f \in Frames
  PROVE  Append(Oldest(s), f) = Mailbox!Newest(Append(s, f))
  <1>1. Len(Append(s, f)) = Len(s) + 1 /\ Len(s) \in Nat
    BY AppendProperties
  <1>2. CASE Len(s) >= Capacity
    <2>1. s # <<>> /\ Len(Append(s, f)) > Capacity
      BY <1>1, <1>2
    <2> QED
      BY <1>2, <2>1, HeadTailAppend DEF Oldest, Mailbox!Newest
  <1>3. CASE Len(s) < Capacity
    <2>1. ~(Len(s) >= Capacity) /\ ~(Len(Append(s, f)) > Capacity)
      BY <1>1, <1>3
    <2> QED
      BY <2>1 DEF Oldest, Mailbox!Newest
  <1> QED
    BY <1>1, <1>2, <1>3

LEMMA StepIsMailboxStep ==
  TrackInv /\ [Next]_vars => [Mailbox!Next]_(Mailbox!vars)
  <1> SUFFICES ASSUME TrackInv, [Next]_vars PROVE [Mailbox!Next]_(Mailbox!vars)
    OBVIOUS
  <1> DEFINE asked == sender \in {"waiting", "woken"} \/ loop = "next"
  <1>1. CASE Enqueue
    <2> DEFINE f == [n |-> count["enqueued"] + 1, at |-> clock]
    <2>1. f \in Frames
      BY <1>1, CounterFacts DEF TrackInv, TypeOK, NumbersOK, Enqueue, Frames
    <2>2. frames' = Append(Oldest(frames), f) /\ ~closed /\ closed' = closed
          /\ sender' = sender /\ loop' = loop
      BY <1>1 DEF Enqueue
    <2> HIDE DEF f
    <2>3. frames' = Mailbox!Newest(Append(frames, f))
      BY <2>1, <2>2, SameFramesKept DEF TrackInv, TypeOK, QueuesOK
    <2>4. Mailbox!Put(f)
      BY <2>2, <2>3 DEF Mailbox!Put
    <2> QED
      BY <2>1, <2>4 DEF Mailbox!Next
  <1>2. CASE NextQueuedFrame
    <2>1. CASE frames # <<>>
      BY <1>2, <2>1 DEF NextQueuedFrame, Mailbox!Give, Mailbox!Next
    <2>2. CASE frames = <<>> /\ closed
      BY <1>2, <2>2 DEF NextQueuedFrame, Mailbox!Refuse, Mailbox!Next
    <2>3. CASE frames = <<>> /\ ~closed
      BY <1>2, <2>3 DEF NextQueuedFrame, Mailbox!vars
    <2> QED
      BY <2>1, <2>2, <2>3
  <1>3. CASE Recv
    BY <1>3 DEF Recv, Mailbox!Ask, Mailbox!Next
  <1>4. CASE StartSession
    BY <1>4 DEF StartSession, Mailbox!Clear, Mailbox!Next
  <1>5. CASE Close
    BY <1>5 DEF Close, Mailbox!Shut, Mailbox!Next
  <1>6. CASE Tick \/ ScheduleWake \/ FinishEnqueue \/ HandOff \/ UNCHANGED vars
    BY <1>6 DEF Tick, ScheduleWake, FinishEnqueue, HandOff, vars, track, Mailbox!vars
  <1>7. CASE Woken \/ AfterSection
    BY <1>7 DEF Woken, AfterSection, SetEvent, track, Mailbox!vars
  <1> QED
    BY <1>1, <1>2, <1>3, <1>4, <1>5, <1>6, <1>7 DEF Next, LoopGoesOn

(***************************************************************************)
(* The track with its two threads, its event and its wake-ups does what    *)
(* the mailbox of one actor does (enqueue, recv, start_session, close):    *)
(* the safety part of ImplementsMailbox.                                   *)
(***************************************************************************)
THEOREM TrackIsMailbox == Spec => Mailbox!Init /\ [][Mailbox!Next]_(Mailbox!vars)
  <1>1. Init => Mailbox!Init
    BY DEF Init, Mailbox!Init
  <1> QED
    BY <1>1, InitTrack, StepKeeps, StepIsMailboxStep, PTL DEF Spec
=============================================================================
