--------------------- MODULE WebRTCSessionManagerProofs ---------------------
(***************************************************************************)
(* Whatever browsers offer, whatever fails and however many tasks close a  *)
(* session, the slot has one owner who will release it, no open peer is    *)
(* out of sight and the model's resources are closed before the slot is    *)
(* free: for every set of sessions and every set of closing tasks.         *)
(***************************************************************************)
EXTENDS WebRTCSessionManager, FiniteSetTheorems, SequenceTheorems, TLAPS

Calls == {"reset", "provider", "session", "step", "close"}
PlacesOf(kind) ==
    CASE kind = "offer" -> {"none", "waiting", "resetting", "negotiating", "failing",
                            "refused", "failed", "answered"}
      [] kind = "run" -> RunPlaces
      [] OTHER -> Places \cup {"alive", "closing"}

\* The types, with what TypeOK leaves open, by who changes what.
IsQueue(q) == q \in Seq(Tasks) /\ IsInjective(q)
LockTypes == IsQueue(lock)
PcTypes == /\ pc \in [Tasks -> UNION {PlacesOf(kind) : kind \in Closers \cup {"offer"}}]
           /\ \A t \in Tasks : pc[t] \in PlacesOf(t[1])
CloseTypes ==
    /\ active \in Sessions \cup {None}
    /\ life \in [Sessions -> {"none", "open", "draining", "peer", "closed"}]
    /\ by \in [Sessions -> Tasks \cup {<<>>}]
    /\ {transport, cancelled} \subseteq [Sessions -> BOOLEAN]
SlotTypes == reserved \in BOOLEAN /\ slot \in [Sessions -> {"none", "held", "lost"}]
WorkTypes ==
    /\ queue \in Seq(Calls \X Sessions)
    /\ ready \in [Sessions -> {<<>>} \cup (Calls \X BOOLEAN)]
    /\ {known, open} \subseteq [Sessions -> SUBSET {"provider", "session"}]
    /\ healthy \in BOOLEAN
FreeTypes == /\ keep \in KeepConnection /\ completed \in [Sessions -> BOOLEAN]
             /\ {pending, input} \subseteq Inputs \cup {None}
Types == /\ LockTypes /\ PcTypes /\ CloseTypes /\ SlotTypes /\ WorkTypes /\ FreeTypes

\* Places of a task that has the session lock.
InSection == {"resetting", "negotiating", "failing", "closing"}
InLock(t) == Contains(lock, t)
First(q, t) == q # <<>> /\ Head(q) = t

\* A task that waits for the lock or has it is in its queue, at its head if it
\* has it.
LockOK ==
    /\ \A t \in Tasks : InLock(t) <=> pc[t] \in InSection \cup {"waiting"}
    /\ \A t \in Tasks : pc[t] \in InSection => Holds(t)

\* An offer is admitted when no peer is left, and until it is answered nobody
\* but the offer closes its peer.
OffersOK ==
    \A s \in Sessions :
        /\ pc[<<"offer", s>>] \in {"none", "waiting", "resetting", "refused"} =>
              life[s] = "none"
        /\ At("offer", s, "resetting") =>
              /\ slot[s] = "held"
              /\ \A r \in Sessions : life[r] \in {"none", "closed"}
        /\ At("offer", s, "negotiating") => life[s] = "open"
        /\ At("offer", s, "failing") =>
              active = s /\ life[s] \in {"draining", "peer"} /\ by[s] = <<"offer", s>>

\* One peer at a time; its session is the active one until somebody with the
\* lock begins to close it.
Living == {"open", "draining", "peer"}
LivesOK ==
    /\ OpenPeerIsActive
    /\ \A s, r \in Sessions : life[s] \in Living /\ life[r] \in Living => s = r
    /\ \A s \in Sessions :
          /\ life[s] = "none" => \A kind \in Closers : At(kind, s, "none")
          /\ life[s] # "closed" => At("closed", s, "none")
          /\ life[s] \in {"draining", "peer"} =>
                /\ by[s] \in Tasks /\ pc[by[s]] \in {"failing", "closing"}
                /\ by[s][1] = "offer" => by[s] = <<"offer", s>>
          /\ cancelled[s] => /\ life[s] = "draining" /\ by[s] # <<"run", s>>
                             /\ pc[<<"run", s>>] \notin {"none", "done"}

Using == {"activating", "starting", "running", "stepping", "cleanup"}
Working == {"new", "idle", "assembling"} \cup Using

\* A reservation is of a session that is being admitted, used or closed.
OneOwner ==
    /\ reserved <=> \E s \in Sessions : slot[s] # "none"
    /\ \A s, r \in Sessions : slot[s] # "none" /\ slot[r] # "none" => s = r
SlotsOK ==
    /\ OneOwner
    /\ \A s \in Sessions :
          /\ slot[s] = "held" =>
                At("offer", s, "resetting") \/ life[s] \in {"open", "draining"}
          /\ life[s] = "open" /\ At("run", s, "none") => slot[s] = "held"

\* What the generation task counts on at each of its places.
RunsOK ==
    \A s \in Sessions :
        /\ pc[<<"run", s>>] \in Working => life[s] \in {"open", "draining"}
        /\ pc[<<"run", s>>] \in Using \cup {"assembling"} => slot[s] = "held"
        /\ pc[<<"run", s>>] \in {"waiting", "closing"} => slot[s] # "held"
        /\ At("run", s, "new") => slot[s] = "held" \/ ~reserved
        /\ At("run", s, "idle") => ~reserved
        /\ pc[<<"run", s>>] \in Using \/ known[s] = {} \/ ~healthy
        /\ At("run", s, "cleanup") /\ Finished("close", s, TRUE) =>
              known[s] \cap open[s] = {}

ManagerInv == Types /\ LockOK /\ OffersOK /\ LivesOK /\ SlotsOK /\ RunsOK

-----------------------------------------------------------------------------
(* The session lock.                                                        *)

TakesPart(p) == p \in InSection \cup {"waiting"}

LEMMA TasksArePairs ==
  ASSUME NEW s \in Sessions
  PROVE  /\ <<"offer", s>> \in Tasks /\ \A kind \in Closers : <<kind, s>> \in Tasks
         /\ \A kind \in Closers \cup {"offer"} : <<kind, s>>[1] = kind
         /\ <<"run", s>> \in Tasks /\ <<"watch", s>> \in Tasks /\ <<"closed", s>> \in Tasks
  BY DEF Tasks, Closers

\* The first of the queue has the lock; the rest of the queue waits.
LEMMA QueueHead ==
  ASSUME NEW q, IsQueue(q), NEW t, First(q, t)
  PROVE  /\ Len(q) \in Nat \ {0} /\ q[1] = t /\ t \in Tasks /\ Contains(q, t)
  <1>1. q # <<>> /\ Head(q) = t /\ q \in Seq(Tasks)
    BY DEF IsQueue, First
  <1>2. Len(q) \in Nat /\ Len(q) # 0
    BY <1>1, EmptySeq
  <1>3. q[1] = t
    BY <1>1, <1>2
  <1>4. q[1] \in Tasks
    BY <1>1, <1>2, ElementOfSeq
  <1> QED BY <1>2, <1>3, <1>4 DEF Contains

\* Somebody enters the queue.
LEMMA QueueEnter ==
  ASSUME NEW q, IsQueue(q), NEW t \in Tasks, ~Contains(q, t), NEW q2, q2 = Append(q, t)
  PROVE  /\ IsQueue(q2)
         /\ \A u \in Tasks : Contains(q2, u) <=> Contains(q, u) \/ u = t
         /\ \A u \in Tasks : First(q, u) => First(q2, u)
  <1>1. /\ q \in Seq(Tasks) /\ Len(q) \in Nat /\ q2 \in Seq(Tasks)
        /\ Len(q2) = Len(q) + 1 /\ q2[Len(q) + 1] = t
        /\ \A i \in 1 .. Len(q) : q2[i] = q[i]
    BY AppendProperties DEF IsQueue
  <1>2. IsInjective(q2)
    <2> SUFFICES ASSUME NEW i \in 1 .. Len(q2), NEW j \in 1 .. Len(q2),
                        q2[i] = q2[j]
                 PROVE  i = j
      BY <1>1 DEF IsInjective
    <2>1. \A k, m \in 1 .. Len(q) : q[k] = q[m] => k = m
      BY <1>1 DEF IsQueue, IsInjective
    <2> QED BY <1>1, <2>1 DEF Contains
  <1>3. \A u \in Tasks : Contains(q2, u) <=> Contains(q, u) \/ u = t
    <2> SUFFICES ASSUME NEW u \in Tasks PROVE Contains(q2, u) <=> Contains(q, u) \/ u = t
      OBVIOUS
    <2>1. ASSUME NEW i \in 1 .. Len(q), q[i] = u PROVE Contains(q2, u)
      BY <1>1, <2>1 DEF Contains
    <2>2. Contains(q2, t)
      BY <1>1 DEF Contains
    <2>3. ASSUME NEW i \in 1 .. Len(q2), q2[i] = u PROVE Contains(q, u) \/ u = t
      BY <1>1, <2>3 DEF Contains
    <2> QED BY <2>1, <2>2, <2>3 DEF Contains
  <1>4. ASSUME NEW u \in Tasks, First(q, u) PROVE First(q2, u)
    <2>1. Len(q) \in Nat \ {0} /\ q[1] = u
      BY <1>4, QueueHead
    <2>2. q2 # <<>> /\ q2[1] = u
      BY <1>1, <2>1, EmptySeq
    <2> QED BY <2>2 DEF First
  <1> QED BY <1>1, <1>2, <1>3, <1>4 DEF IsQueue

\* Who has the lock gives it back.
LEMMA QueueLeave ==
  ASSUME NEW q, IsQueue(q), NEW t \in Tasks, First(q, t), NEW q2, q2 = Tail(q)
  PROVE  /\ IsQueue(q2)
         /\ \A u \in Tasks : Contains(q2, u) <=> Contains(q, u) /\ u # t
  <1>1. /\ q \in Seq(Tasks) /\ Len(q) \in Nat \ {0} /\ q[1] = t /\ q # <<>>
        /\ \A k, m \in 1 .. Len(q) : q[k] = q[m] => k = m
    BY QueueHead DEF IsQueue, IsInjective, First
  <1>2. /\ q2 \in Seq(Tasks) /\ Len(q2) = Len(q) - 1
        /\ \A i \in 1 .. Len(q2) : q2[i] = q[i + 1]
    BY <1>1, HeadTailProperties
  <1>3. IsInjective(q2)
    <2> SUFFICES ASSUME NEW i \in 1 .. Len(q2), NEW j \in 1 .. Len(q2),
                        q2[i] = q2[j]
                 PROVE  i = j
      BY <1>2 DEF IsInjective
    <2>1. i + 1 \in 1 .. Len(q) /\ j + 1 \in 1 .. Len(q)
      BY <1>1, <1>2
    <2> QED BY <1>1, <1>2, <2>1
  <1>4. ASSUME NEW u \in Tasks PROVE Contains(q2, u) <=> Contains(q, u) /\ u # t
    <2>1. ASSUME NEW i \in 1 .. Len(q), q[i] = u, u # t PROVE Contains(q2, u)
      <3>1. i - 1 \in 1 .. Len(q2) /\ q2[i - 1] = u
        BY <1>1, <1>2, <2>1
      <3> QED BY <3>1 DEF Contains
    <2>2. ASSUME NEW i \in 1 .. Len(q2), q2[i] = u PROVE Contains(q, u) /\ u # t
      <3>1. i + 1 \in 1 .. Len(q) /\ q[i + 1] = u /\ 1 \in 1 .. Len(q)
        BY <1>1, <1>2, <2>2
      <3> QED BY <1>1, <3>1 DEF Contains
    <2> QED BY <2>1, <2>2 DEF Contains
  <1> QED BY <1>2, <1>3, <1>4 DEF IsQueue

\* A cancelled task leaves the queue.
LEMMA QueueRemove ==
  ASSUME NEW q, IsQueue(q), NEW t \in Tasks, NEW q2, q2 = RemoveFirst(q, t)
  PROVE  /\ IsQueue(q2)
         /\ \A u \in Tasks : Contains(q2, u) <=> Contains(q, u) /\ u # t
         /\ \A u \in Tasks : First(q, u) /\ u # t => First(q2, u)
  <1>1. /\ q \in Seq(Tasks) /\ Len(q) \in Nat
        /\ \A k, m \in 1 .. Len(q) : q[k] = q[m] => k = m
    BY DEF IsQueue, IsInjective
  <1>2. CASE ~Contains(q, t)
    <2>1. q2 = q
      BY <1>2 DEF RemoveFirst, Contains
    <2> QED BY <1>2, <2>1 DEF IsQueue, Contains, First
  <1>3. CASE Contains(q, t)
    <2>1. PICK n \in 1 .. Len(q) : q[n] = t
      BY <1>3 DEF Contains
    <2>2. q2 = RemoveAt(q, n)
      <3>1. {k \in 1 .. Len(q) : q[k] = t} = {n}
        BY <1>1, <2>1
      <3>2. Min({n}) = n
        BY <2>1 DEF Min
      <3>3. SelectInSeq(q, LAMBDA v: v = t) = n
        BY <3>1, <3>2 DEF SelectInSeq
      <3> QED BY <2>1, <3>3 DEF RemoveFirst
    <2>3. /\ q2 \in Seq(Tasks) /\ Len(q2) = Len(q) - 1
          /\ \A i \in 1 .. Len(q2) : q2[i] = IF i < n THEN q[i] ELSE q[i + 1]
      <3> DEFINE front == SubSeq(q, 1, n - 1)
                 back == SubSeq(q, n + 1, Len(q))
      <3>1. /\ front \in Seq(Tasks) /\ Len(front) = n - 1
            /\ \A i \in 1 .. n - 1 : front[i] = q[i]
        BY <1>1, SubSeqProperties
      <3>2. /\ back \in Seq(Tasks) /\ Len(back) = Len(q) - n
            /\ \A i \in 1 .. Len(q) - n : back[i] = q[n + i]
        BY <1>1, SubSeqProperties
      <3>3. q2 = front \o back
        BY <2>2 DEF RemoveAt
      <3> HIDE DEF front, back
      <3>4. /\ q2 \in Seq(Tasks) /\ Len(q2) = Len(front) + Len(back)
            /\ \A i \in 1 .. Len(front) + Len(back) :
                  q2[i] = IF i <= Len(front) THEN front[i] ELSE back[i - Len(front)]
        <4>1. front \in Seq(Tasks) /\ back \in Seq(Tasks)
          BY <3>1, <3>2
        <4>2. /\ front \o back \in Seq(Tasks) /\ Len(front \o back) = Len(front) + Len(back)
              /\ \A i \in 1 .. Len(front) + Len(back) :
                    (front \o back)[i] = IF i <= Len(front) THEN front[i]
                                                            ELSE back[i - Len(front)]
          BY <4>1, ConcatProperties
        <4> QED BY <3>3, <4>2
      <3>5. ASSUME NEW i \in 1 .. Len(q2)
            PROVE  q2[i] = IF i < n THEN q[i] ELSE q[i + 1]
        <4>1. CASE i < n
          BY <1>1, <3>1, <3>2, <3>4, <4>1
        <4>2. CASE i >= n
          <5>1. i - Len(front) \in 1 .. Len(q) - n
            BY <1>1, <3>1, <3>2, <3>4, <4>2
          <5>2. back[i - Len(front)] = q[n + (i - Len(front))] /\ n + (i - Len(front)) = i + 1
            BY <1>1, <3>1, <3>2, <5>1
          <5> QED BY <1>1, <3>1, <3>2, <3>4, <4>2, <5>2
        <4> QED BY <1>1, <4>1, <4>2
      <3> QED BY <1>1, <3>1, <3>2, <3>4, <3>5
    <2>4. IsInjective(q2)
      <3> SUFFICES ASSUME NEW i \in 1 .. Len(q2), NEW j \in 1 .. Len(q2),
                          q2[i] = q2[j]
                   PROVE  i = j
        BY <2>3 DEF IsInjective
      <3>1. /\ i \in 1 .. Len(q) /\ i + 1 \in 1 .. Len(q)
            /\ j \in 1 .. Len(q) /\ j + 1 \in 1 .. Len(q)
        BY <1>1, <2>3
      <3> QED BY <1>1, <2>3, <3>1
    <2>5. ASSUME NEW u \in Tasks PROVE Contains(q2, u) <=> Contains(q, u) /\ u # t
      <3>1. ASSUME NEW i \in 1 .. Len(q), q[i] = u, u # t PROVE Contains(q2, u)
        <4>1. CASE i < n
          BY <1>1, <2>1, <2>3, <3>1, <4>1 DEF Contains
        <4>2. CASE i > n
          <5>1. i - 1 \in 1 .. Len(q2) /\ q2[i - 1] = u
            BY <1>1, <2>1, <2>3, <3>1, <4>2
          <5> QED BY <5>1 DEF Contains
        <4> QED BY <2>1, <3>1, <4>1, <4>2
      <3>2. ASSUME NEW i \in 1 .. Len(q2), q2[i] = u PROVE Contains(q, u) /\ u # t
        <4>1. i \in 1 .. Len(q) /\ i + 1 \in 1 .. Len(q)
          BY <1>1, <2>3
        <4> QED BY <1>1, <2>1, <2>3, <3>2, <4>1 DEF Contains
      <3> QED BY <3>1, <3>2 DEF Contains
    <2>6. ASSUME NEW u \in Tasks, First(q, u), u # t PROVE First(q2, u)
      <3>1. Len(q) \in Nat \ {0} /\ q[1] = u
        BY <2>6, QueueHead
      <3>2. n # 1 /\ Len(q2) >= 1 /\ q2[1] = u
        BY <1>1, <2>1, <2>3, <2>6, <3>1
      <3> QED BY <2>3, <3>2, EmptySeq DEF First
    <2> QED BY <2>3, <2>4, <2>5, <2>6 DEF IsQueue
  <1> QED BY <1>2, <1>3

LEMMA LockIsQueue ==
  /\ LockTypes <=> IsQueue(lock)
  /\ LockTypes' <=> IsQueue(lock')
  /\ \A t : InLock(t) <=> Contains(lock, t)
  /\ \A t : InLock(t)' <=> Contains(lock', t)
  /\ \A t : Holds(t) <=> First(lock, t)
  /\ \A t : Holds(t)' <=> First(lock', t)
  BY DEF LockTypes, InLock, Holds, First

\* A step of another task leaves u where it is, or away from the lock.
Besides(u) ==
    \/ pc'[u] = pc[u]
    \/ ~TakesPart(pc[u]) /\ ~TakesPart(pc'[u])

\* A task that moves keeps to the lock, on its way in, on its way out and besides.
LEMMA LockMoves ==
  ASSUME LockTypes, LockOK, NEW t \in Tasks, NEW p, pc'[t] = p,
         \A u \in Tasks : u # t => Besides(u),
         \/ ~TakesPart(pc[t]) /\ p = "waiting" /\ lock' = Append(lock, t)
         \/ Holds(t) /\ ~TakesPart(p) /\ lock' = Tail(lock)
         \/ TakesPart(pc[t]) /\ ~TakesPart(p) /\ lock' = RemoveFirst(lock, t)
         \/ /\ lock' = lock /\ (TakesPart(pc[t]) <=> TakesPart(p))
            /\ p \in InSection => Holds(t)
  PROVE  LockTypes' /\ LockOK'
  <1>1. /\ \A u \in Tasks : InLock(u) <=> TakesPart(pc[u])
        /\ \A u \in Tasks : pc[u] \in InSection => Holds(u)
        /\ \A u \in Tasks : u # t => (TakesPart(pc[u]) <=> TakesPart(pc'[u]))
        /\ \A u \in Tasks : u # t /\ pc'[u] \in InSection => pc[u] \in InSection
    BY DEF LockOK, TakesPart, Besides
  <1>2. \A u, v \in Tasks : Holds(u) /\ Holds(v) => u = v
    BY DEF Holds
  <1>3. "waiting" \notin InSection /\ TakesPart("waiting")
    BY DEF InSection, TakesPart
  <1>4. CASE ~TakesPart(pc[t]) /\ p = "waiting" /\ lock' = Append(lock, t)
    <2>1. /\ LockTypes' /\ \A u \in Tasks : InLock(u)' <=> InLock(u) \/ u = t
          /\ \A u \in Tasks : Holds(u) => Holds(u)'
      BY <1>1, <1>4, QueueEnter, LockIsQueue
    <2> QED BY <1>1, <1>3, <1>4, <2>1 DEF LockOK, TakesPart
  <1>5. CASE Holds(t) /\ ~TakesPart(p) /\ lock' = Tail(lock)
    <2>1. LockTypes' /\ \A u \in Tasks : InLock(u)' <=> InLock(u) /\ u # t
      BY <1>5, QueueLeave, LockIsQueue
    <2>2. \A u \in Tasks : pc'[u] \notin InSection
      BY <1>1, <1>2, <1>5 DEF TakesPart
    <2> QED BY <1>1, <1>5, <2>1, <2>2 DEF LockOK, TakesPart
  <1>6. CASE TakesPart(pc[t]) /\ ~TakesPart(p) /\ lock' = RemoveFirst(lock, t)
    <2>1. /\ LockTypes' /\ \A u \in Tasks : InLock(u)' <=> InLock(u) /\ u # t
          /\ \A u \in Tasks : Holds(u) /\ u # t => Holds(u)'
      BY <1>6, QueueRemove, LockIsQueue
    <2> QED BY <1>1, <1>6, <2>1 DEF LockOK, TakesPart
  <1>7. CASE /\ lock' = lock /\ (TakesPart(pc[t]) <=> TakesPart(p))
             /\ p \in InSection => Holds(t)
    BY <1>1, <1>7 DEF LockOK, LockTypes, InLock, Holds, TakesPart
  <1> QED BY <1>4, <1>5, <1>6, <1>7

\* In a section of the lock there is nobody else.
LEMMA OneInSection ==
  ASSUME LockOK, NEW t \in Tasks, Holds(t), NEW u \in Tasks, pc[u] \in InSection
  PROVE  u = t
  BY DEF LockOK, Holds

-----------------------------------------------------------------------------
(* Places, reservations and calls.                                          *)

LEMMA PcMoves ==
  ASSUME PcTypes, NEW t \in Tasks, NEW p \in PlacesOf(t[1]), pc' = [pc EXCEPT ![t] = p]
  PROVE  PcTypes' /\ pc'[t] = p /\ \A u \in Tasks : u # t => pc'[u] = pc[u]
  <1>1. t[1] \in Closers \cup {"offer"}
    BY DEF Tasks
  <1>2. p \in UNION {PlacesOf(kind) : kind \in Closers \cup {"offer"}}
    BY <1>1
  <1>3. pc' \in [Tasks -> UNION {PlacesOf(kind) : kind \in Closers \cup {"offer"}}]
    BY <1>2 DEF PcTypes
  <1>4. pc'[t] = p /\ \A u \in Tasks : u # t => pc'[u] = pc[u]
    BY DEF PcTypes
  <1>5. \A u \in Tasks : pc'[u] \in PlacesOf(u[1])
    BY <1>4 DEF PcTypes
  <1> QED BY <1>3, <1>4, <1>5 DEF PcTypes

\* A reservation is taken, given back or forgotten by the session it belongs to.
LEMMA SlotFacts ==
  ASSUME SlotTypes, OneOwner, NEW s \in Sessions,
         \/ Reserve(s) /\ (slot[s] = "held" \/ ~reserved)
         \/ Release(s) \/ Lose(s) \/ UNCHANGED slots
  PROVE  /\ SlotTypes' /\ OneOwner'
         /\ \A r \in Sessions : r # s => slot'[r] = slot[r]
         /\ Reserve(s) => slot'[s] = "held"
         /\ Release(s) => slot'[s] # "held" /\ (slot[s] = "held" => ~reserved')
         /\ Lose(s) => slot'[s] # "held"
  <1>1. CASE Reserve(s) /\ (slot[s] = "held" \/ ~reserved)
    <2>1. /\ reserved' = TRUE /\ slot'[s] = "held"
          /\ \A r \in Sessions : r # s => slot'[r] = slot[r] /\ slot[r] = "none"
      BY <1>1 DEF Reserve, SlotTypes, OneOwner
    <2>2. SlotTypes' /\ OneOwner'
      BY <1>1, <2>1 DEF Reserve, SlotTypes, OneOwner
    <2>3. ~Release(s) /\ ~Lose(s)
      BY <2>1 DEF Release, Lose, slots, SlotTypes
    <2> QED BY <2>1, <2>2, <2>3
  <1>2. CASE Release(s)
    <2>1. CASE slot[s] = "held"
      <3>1. /\ reserved' = FALSE /\ slot'[s] = "none"
            /\ \A r \in Sessions : r # s => slot'[r] = slot[r] /\ slot[r] = "none"
        BY <1>2, <2>1 DEF Release, SlotTypes, OneOwner
      <3>2. SlotTypes' /\ OneOwner'
        BY <1>2, <2>1, <3>1 DEF Release, SlotTypes, OneOwner
      <3> QED BY <3>1, <3>2 DEF Reserve
    <2>2. CASE slot[s] # "held"
      BY <1>2, <2>2 DEF Release, Reserve, slots, SlotTypes, OneOwner
    <2> QED BY <2>1, <2>2
  <1>3. CASE Lose(s)
    <2>1. /\ reserved' = reserved
          /\ slot'[s] = IF slot[s] = "held" THEN "lost" ELSE slot[s]
          /\ \A r \in Sessions : r # s => slot'[r] = slot[r]
      BY <1>3 DEF Lose, SlotTypes
    <2>2. SlotTypes' /\ OneOwner'
      BY <1>3, <2>1 DEF Lose, SlotTypes, OneOwner
    <2>3. slot'[s] # "held"
      BY <2>1
    <2>4. ~Reserve(s) /\ (Release(s) => slot[s] # "held")
      BY <2>1, <2>3 DEF Reserve, Release, SlotTypes
    <2> QED BY <2>1, <2>2, <2>3, <2>4
  <1>4. CASE UNCHANGED slots
    BY <1>4 DEF slots, SlotTypes, OneOwner, Reserve, Release, Lose
  <1> QED BY <1>1, <1>2, <1>3, <1>4

LEMMA SubmitFacts ==
  ASSUME WorkTypes, NEW s \in Sessions, NEW call \in Calls, Submit(call, s),
         UNCHANGED <<known, healthy>>
  PROVE  /\ WorkTypes' /\ open' = open /\ ready'[s] = <<>>
         /\ \A r \in Sessions : r # s => ready'[r] = ready[r]
  <1>1. queue' \in Seq(Calls \X Sessions)
    BY AppendProperties DEF Submit, WorkTypes
  <1> QED BY <1>1 DEF Submit, WorkTypes

-----------------------------------------------------------------------------
(* The generation task.                                                     *)

\* The places of the task that are outside the lock.
LEMMA RunPlacesFacts ==
  /\ \A p \in Working \cup {"none", "done"} :
        p \in RunPlaces /\ ~TakesPart(p) /\ p \notin {"waiting", "closing"}
  /\ Working \cap {"none", "done"} = {}
  /\ Working = {"new", "idle", "assembling", "activating", "starting", "running",
                "stepping", "cleanup"}
  /\ Using = {"activating", "starting", "running", "stepping", "cleanup"}
  /\ {"waiting", "done"} \subseteq RunPlaces \ {"none", "closing"}
  /\ ~TakesPart("done")
  BY DEF Working, Using, RunPlaces, Places, TakesPart, InSection

\* What a step of a session's generation task has to keep to: it leaves the
\* other sessions alone, and finds at its next place p what it counts on there.
OthersKeep(s) ==
    \A r \in Sessions : r # s => /\ slot'[r] = slot[r] /\ known'[r] = known[r]
                                 /\ open'[r] = open[r] /\ ready'[r] = ready[r]
CountsOn(s, p) ==
    /\ p \in Using \cup {"assembling"} => slot'[s] = "held"
    /\ p = "waiting" => slot'[s] # "held"
    /\ p = "new" => slot'[s] = "held" \/ ~reserved'
    /\ p = "idle" => ~reserved'
    /\ p \in Using \/ known'[s] = {} \/ ~healthy'
    /\ p = "cleanup" => ready'[s] # <<"close", TRUE>> \/ known'[s] \cap open'[s] = {}

LEMMA RunMoves ==
  ASSUME ManagerInv, NEW s \in Sessions, NEW p \in Working \cup {"waiting", "done"},
         life[s] \in {"open", "draining"},
         pc' = [pc EXCEPT ![<<"run", s>>] = p], UNCHANGED closing,
         \/ /\ pc[<<"run", s>>] \in Working /\ p = "waiting"
            /\ lock' = Append(lock, <<"run", s>>)
         \/ At("run", s, "waiting") /\ p = "done" /\ lock' = RemoveFirst(lock, <<"run", s>>)
         \/ /\ pc[<<"run", s>>] \in Working \cup {"none", "done"}
            /\ p \in Working \cup {"done"} /\ lock' = lock,
         cancelled' \in {cancelled, [cancelled EXCEPT ![s] = FALSE]}, ~cancelled'[s],
         SlotTypes', OneOwner', WorkTypes', FreeTypes', healthy' => healthy,
         OthersKeep(s), CountsOn(s, p)
  PROVE  ManagerInv'
  <1> DEFINE t == <<"run", s>>
  <1>0. /\ p \in RunPlaces \ {"none", "closing"}
        /\ \/ ~TakesPart(pc[t]) /\ p = "waiting" /\ lock' = Append(lock, t)
           \/ pc[t] = "waiting" /\ p = "done" /\ lock' = RemoveFirst(lock, t)
           \/ ~TakesPart(pc[t]) /\ ~TakesPart(p) /\ lock' = lock
    BY RunPlacesFacts DEF At
  <1>1. t \in Tasks /\ t[1] = "run" /\ p \in PlacesOf(t[1])
    BY <1>0, TasksArePairs DEF PlacesOf, Closers
  <1>2. PcTypes' /\ pc'[t] = p /\ \A u \in Tasks : u # t => pc'[u] = pc[u]
    BY <1>1, PcMoves DEF ManagerInv, Types
  <1>3. LockTypes' /\ LockOK'
    <2>1. p \notin InSection /\ "waiting" \notin InSection /\ TakesPart("waiting")
      BY <1>0 DEF InSection, TakesPart, RunPlaces, Places
    <2>2. ~TakesPart("done")
      BY DEF InSection, TakesPart
    <2>3. \A u \in Tasks : u # t => Besides(u)
      BY <1>2 DEF Besides
    <2> QED BY <1>0, <1>1, <1>2, <2>1, <2>2, <2>3, LockMoves DEF ManagerInv, Types, TakesPart
  <1>4. CloseTypes'
    BY DEF ManagerInv, Types, CloseTypes, closing
  <1>5. OffersOK'
    <2>1. \A r \in Sessions : pc'[<<"offer", r>>] = pc[<<"offer", r>>]
      BY <1>2, TasksArePairs
    <2>2. ~At("offer", s, "resetting")
      BY DEF ManagerInv, OffersOK, At
    <2>3. ASSUME NEW r \in Sessions, At("offer", r, "resetting")'
          PROVE  slot'[r] = "held" /\ \A q \in Sessions : life'[q] \in {"none", "closed"}
      <3>1. At("offer", r, "resetting") /\ r # s
        BY <2>1, <2>2, <2>3 DEF At
      <3> QED BY <3>1 DEF ManagerInv, OffersOK, OthersKeep, closing
    <2>4. life' = life /\ active' = active /\ by' = by
      BY DEF closing
    <2>5. ASSUME NEW r \in Sessions
          PROVE  /\ pc'[<<"offer", r>>] \in {"none", "waiting", "resetting", "refused"} =>
                       life'[r] = "none"
                 /\ At("offer", r, "negotiating")' => life'[r] = "open"
                 /\ At("offer", r, "failing")' =>
                       /\ active' = r /\ life'[r] \in {"draining", "peer"}
                       /\ by'[r] = <<"offer", r>>
      BY <2>1, <2>4 DEF ManagerInv, OffersOK, At
    <2> QED BY <2>3, <2>5 DEF OffersOK
  <1>6. LivesOK'
    <2>1. pc[t] \notin {"failing", "closing"}
      BY <1>0 DEF TakesPart, InSection
    <2>2. \A r \in Sessions : life[r] \in {"draining", "peer"} => by[r] # t
      BY <2>1 DEF ManagerInv, LivesOK
    <2>3. \A r \in Sessions : /\ pc'[<<"closed", r>>] = pc[<<"closed", r>>]
                              /\ r # s => pc'[<<"run", r>>] = pc[<<"run", r>>]
                              /\ r # s => cancelled'[r] = cancelled[r]
      BY <1>2, TasksArePairs DEF ManagerInv, Types, CloseTypes
    <2>4. \A r \in Sessions : r # s => \A kind \in Closers : pc'[<<kind, r>>] = pc[<<kind, r>>]
      BY <1>2, TasksArePairs
    <2>5. OpenPeerIsActive'
      BY DEF ManagerInv, LivesOK, OpenPeerIsActive, closing
    <2>6. \A r \in Sessions : life[r] \in {"draining", "peer"} =>
             by[r] \in Tasks /\ pc'[by[r]] = pc[by[r]]
      BY <1>2, <2>2 DEF ManagerInv, LivesOK
    <2>7. life' = life /\ by' = by
      BY DEF closing
    <2>8. ASSUME NEW r \in Sessions
          PROVE  /\ life'[r] = "none" => \A kind \in Closers : At(kind, r, "none")'
                 /\ life'[r] # "closed" => At("closed", r, "none")'
                 /\ cancelled'[r] => /\ life'[r] = "draining" /\ by'[r] # <<"run", r>>
                                     /\ pc'[<<"run", r>>] \notin {"none", "done"}
      <3>1. CASE r = s
        BY <2>3, <2>7, <3>1 DEF ManagerInv, LivesOK, At
      <3>2. CASE r # s
        BY <2>3, <2>4, <2>7, <3>2 DEF ManagerInv, LivesOK, At
      <3> QED BY <3>1, <3>2
    <2> QED BY <2>5, <2>6, <2>7, <2>8 DEF ManagerInv, LivesOK
  <1>7. SlotsOK'
    <2>1. \A r \in Sessions : /\ pc'[<<"offer", r>>] = pc[<<"offer", r>>]
                              /\ r # s => pc'[<<"run", r>>] = pc[<<"run", r>>]
      BY <1>2, TasksArePairs
    <2>2. p # "none" /\ life' = life
      BY RunPlacesFacts DEF closing
    <2>3. ASSUME NEW r \in Sessions
          PROVE  /\ slot'[r] = "held" => At("offer", r, "resetting")' \/ life'[r] \in {"open", "draining"}
                 /\ life'[r] = "open" /\ At("run", r, "none")' => slot'[r] = "held"
      <3>1. CASE r = s
        BY <1>2, <2>2, <3>1 DEF At
      <3>2. CASE r # s
        BY <2>1, <2>2, <3>2 DEF ManagerInv, SlotsOK, OthersKeep, At
      <3> QED BY <3>1, <3>2
    <2> QED BY <2>3 DEF SlotsOK
  <1>8. RunsOK'
    <2>1. \A r \in Sessions : r # s => pc'[<<"run", r>>] = pc[<<"run", r>>]
      BY <1>2, TasksArePairs
    <2>2. \A r \in Sessions : r # s => pc[<<"run", r>>] \notin Working
      <3>1. \A r \in Sessions : r # s => life[r] \notin {"open", "draining"}
        BY DEF ManagerInv, LivesOK, Living
      <3> QED BY <3>1 DEF ManagerInv, RunsOK
    <2>3. "new" \in Working /\ "idle" \in Working /\ Using \subseteq Working
          /\ "assembling" \in Working /\ "cleanup" \in Working
      BY DEF Working, Using
    <2>4. ASSUME NEW r \in Sessions, r # s
          PROVE  /\ pc'[<<"run", r>>] \notin Working
                 /\ pc'[<<"run", r>>] \in {"waiting", "closing"} => slot'[r] # "held"
                 /\ known'[r] = {} \/ ~healthy'
      BY <2>1, <2>2, <2>3, <2>4 DEF ManagerInv, RunsOK, OthersKeep
    <2>5. p # "closing" /\ life'[s] = life[s] /\ pc'[<<"run", s>>] = p
      BY <1>0, <1>2 DEF closing
    <2>6. ASSUME NEW r \in Sessions
          PROVE  /\ pc'[<<"run", r>>] \in Working => life'[r] \in {"open", "draining"}
                 /\ pc'[<<"run", r>>] \in Using \cup {"assembling"} => slot'[r] = "held"
                 /\ pc'[<<"run", r>>] \in {"waiting", "closing"} => slot'[r] # "held"
                 /\ pc'[<<"run", r>>] = "new" => slot'[r] = "held" \/ ~reserved'
                 /\ pc'[<<"run", r>>] = "idle" => ~reserved'
                 /\ pc'[<<"run", r>>] \in Using \/ known'[r] = {} \/ ~healthy'
                 /\ pc'[<<"run", r>>] = "cleanup" /\ ready'[r] = <<"close", TRUE>> =>
                       known'[r] \cap open'[r] = {}
      <3>1. CASE r = s
        BY <2>5, <3>1 DEF CountsOn
      <3>2. CASE r # s
        BY <2>3, <2>4, <3>2
      <3> QED BY <3>1, <3>2
    <2> QED BY <2>6 DEF RunsOK, At, Finished
  <1> QED BY <1>2, <1>3, <1>4, <1>5, <1>6, <1>7, <1>8 DEF ManagerInv, Types

\* The invariant, read at one session.
LEMMA RunFacts ==
  ASSUME ManagerInv, NEW s \in Sessions
  PROVE  /\ SlotTypes /\ OneOwner /\ WorkTypes /\ FreeTypes /\ pc[<<"run", s>>] \in RunPlaces
         /\ life[s] \in {"none", "open", "draining", "peer", "closed"}
         /\ cancelled[s] \in BOOLEAN /\ cancelled \in [Sessions -> BOOLEAN]
         /\ cancelled[s] => life[s] = "draining" /\ pc[<<"run", s>>] \notin {"none", "done"}
         /\ pc[<<"run", s>>] \in Working => life[s] \in {"open", "draining"}
         /\ pc[<<"run", s>>] \in Using \cup {"assembling"} => slot[s] = "held"
         /\ pc[<<"run", s>>] = "waiting" => slot[s] # "held"
         /\ pc[<<"run", s>>] = "new" => slot[s] = "held" \/ ~reserved
         /\ pc[<<"run", s>>] = "idle" => ~reserved
         /\ slot[s] = "held" => reserved
         /\ pc[<<"run", s>>] \in Using \/ known[s] = {} \/ ~healthy
         /\ pc[<<"run", s>>] = "cleanup" /\ ready[s] = <<"close", TRUE>> =>
               known[s] \cap open[s] = {}
         /\ life[s] = "open" /\ pc[<<"run", s>>] = "none" => slot[s] = "held"
  <1>1. pc[<<"run", s>>] \in RunPlaces
    BY TasksArePairs DEF ManagerInv, Types, PcTypes, PlacesOf, Closers
  <1>2. /\ life[s] \in {"none", "open", "draining", "peer", "closed"}
        /\ cancelled[s] \in BOOLEAN /\ cancelled \in [Sessions -> BOOLEAN]
    BY DEF ManagerInv, Types, CloseTypes
  <1>3. cancelled[s] => life[s] = "draining" /\ pc[<<"run", s>>] \notin {"none", "done"}
    BY DEF ManagerInv, LivesOK
  <1>4. /\ slot[s] = "held" => reserved
        /\ life[s] = "open" /\ pc[<<"run", s>>] = "none" => slot[s] = "held"
    BY DEF ManagerInv, SlotsOK, OneOwner, At
  <1> QED BY <1>1, <1>2, <1>3, <1>4 DEF ManagerInv, Types, SlotsOK, RunsOK, At, Finished

\* Leave and Cleanup, as RunMoves has it.
LEMMA WaysOut ==
  ASSUME ManagerInv, NEW s \in Sessions
  PROVE  /\ Leave(s) => \E p \in {"waiting", "done"} :
               /\ pc' = [pc EXCEPT ![<<"run", s>>] = p]
               /\ \/ p = "waiting" /\ lock' = Append(lock, <<"run", s>>)
                  \/ p = "done" /\ lock' = lock
         /\ Cleanup(s) /\ UNCHANGED <<known, healthy>> =>
               /\ pc' = [pc EXCEPT ![<<"run", s>>] = "cleanup"] /\ lock' = lock
               /\ WorkTypes' /\ open' = open /\ ready'[s] = <<>>
               /\ \A r \in Sessions : r # s => ready'[r] = ready[r]
  <1>1. ASSUME Cleanup(s), UNCHANGED <<known, healthy>>
        PROVE  /\ pc' = [pc EXCEPT ![<<"run", s>>] = "cleanup"] /\ lock' = lock
               /\ WorkTypes' /\ open' = open /\ ready'[s] = <<>>
               /\ \A r \in Sessions : r # s => ready'[r] = ready[r]
    <2>1. "close" \in Calls /\ WorkTypes
      BY DEF Calls, ManagerInv, Types
    <2> QED BY <1>1, <2>1, SubmitFacts DEF Cleanup, Goto
  <1>2. ASSUME Leave(s)
        PROVE  \E p \in {"waiting", "done"} :
               /\ pc' = [pc EXCEPT ![<<"run", s>>] = p]
               /\ \/ p = "waiting" /\ lock' = Append(lock, <<"run", s>>)
                  \/ p = "done" /\ lock' = lock
    BY <1>2 DEF Leave, Goto, Queue
  <1> QED BY <1>1, <1>2

LEMMA ChannelStays ==
  ASSUME ManagerInv, NEW s \in Sessions, Channel(s) \/ LateChannel(s)
  PROVE  ManagerInv'
  <1>1. CASE Channel(s)
    <2>1. /\ life[s] = "open" /\ pc[<<"run", s>>] = "none"
          /\ pc' = [pc EXCEPT ![<<"run", s>>] = "new"] /\ lock' = lock
          /\ UNCHANGED <<closing, slots, worker, known, healthy, keep, completed, inputs>>
          /\ cancelled' = cancelled
      BY <1>1 DEF Channel, At, Goto
    <2>2. SlotTypes' /\ OneOwner' /\ WorkTypes' /\ FreeTypes' /\ OthersKeep(s)
      BY <2>1, RunFacts DEF slots, SlotTypes, OneOwner, worker, inputs, WorkTypes,
                            FreeTypes, OthersKeep
    <2>3. ~cancelled'[s] /\ CountsOn(s, "new")
      BY <2>1, RunFacts DEF CountsOn, slots, worker, Using
    <2> QED BY <2>1, <2>2, <2>3, RunMoves DEF Working
  <1>2. CASE LateChannel(s)
    <2>1. /\ life[s] = "draining" /\ pc[<<"run", s>>] = "none"
          /\ pc' = [pc EXCEPT ![<<"run", s>>] = "done"] /\ lock' = lock
          /\ UNCHANGED <<closing, worker, known, healthy, keep, completed, inputs>>
          /\ cancelled' = cancelled /\ Lose(s)
      BY <1>2 DEF LateChannel, At, Goto
    <2>2. SlotTypes' /\ OneOwner' /\ \A r \in Sessions : r # s => slot'[r] = slot[r]
      BY <2>1, RunFacts, SlotFacts
    <2>3. WorkTypes' /\ FreeTypes' /\ OthersKeep(s)
      BY <2>1, <2>2, RunFacts DEF worker, inputs, WorkTypes, FreeTypes, OthersKeep
    <2>4. ~cancelled'[s] /\ CountsOn(s, "done")
      BY <2>1, RunFacts DEF CountsOn, worker, Using
    <2> QED BY <2>1, <2>2, <2>3, <2>4, RunMoves DEF Working
  <1> QED BY <1>1, <1>2

LEMMA BeginRunStays ==
  ASSUME ManagerInv, NEW s \in Sessions, BeginRun(s)
  PROVE  ManagerInv'
  <1>1. /\ pc[<<"run", s>>] = "new" /\ ~cancelled[s]
        /\ UNCHANGED <<closing, known, healthy, keep, completed, inputs>>
        /\ cancelled' = cancelled
    BY DEF BeginRun, At
  <1>2. life[s] \in {"open", "draining"} /\ FreeTypes' /\ (known[s] = {} \/ ~healthy)
    BY <1>1, RunFacts DEF Working, Using, FreeTypes, inputs
  <1>3. CASE /\ slot[s] = "held" \/ Reservable
             /\ Reserve(s)
             /\ Submit("provider", s) /\ Goto("run", s, "assembling")
             /\ UNCHANGED lock
    <2>1. /\ SlotTypes' /\ OneOwner' /\ slot'[s] = "held"
          /\ \A r \in Sessions : r # s => slot'[r] = slot[r]
      BY <1>3, RunFacts, SlotFacts DEF Reservable
    <2>2. /\ WorkTypes' /\ open' = open
          /\ \A r \in Sessions : r # s => ready'[r] = ready[r]
      BY <1>1, <1>3, RunFacts, SubmitFacts DEF Calls
    <2>3. OthersKeep(s) /\ CountsOn(s, "assembling")
      BY <1>1, <1>2, <2>1, <2>2 DEF OthersKeep, CountsOn, Using
    <2>4. pc' = [pc EXCEPT ![<<"run", s>>] = "assembling"] /\ lock' = lock
      BY <1>3 DEF Goto
    <2> QED BY <1>1, <1>2, <2>1, <2>2, <2>3, <2>4, RunMoves DEF Working
  <1>4. CASE slot[s] # "held" /\ ~Reservable /\ Leave(s) /\ UNCHANGED <<slots, worker>>
    <2>1. PICK p \in {"waiting", "done"} :
             /\ pc' = [pc EXCEPT ![<<"run", s>>] = p]
             /\ \/ p = "waiting" /\ lock' = Append(lock, <<"run", s>>)
                \/ p = "done" /\ lock' = lock
      BY <1>4, WaysOut
    <2>2. SlotTypes' /\ OneOwner' /\ WorkTypes' /\ OthersKeep(s)
      BY <1>1, <1>4, RunFacts DEF slots, SlotTypes, OneOwner, worker, WorkTypes, OthersKeep
    <2>3. CountsOn(s, p)
      BY <1>1, <1>2, <1>4, <2>1 DEF CountsOn, slots, worker, Using
    <2> QED BY <1>1, <1>2, <2>1, <2>2, <2>3, RunMoves DEF Working
  <1> QED BY <1>3, <1>4 DEF BeginRun

LEMMA PrepareFailsStays ==
  ASSUME ManagerInv, NEW s \in Sessions, PrepareFails(s)
  PROVE  ManagerInv'
  <1>1. /\ pc[<<"run", s>>] = "new" /\ ~cancelled[s] /\ Lose(s) /\ Leave(s)
        /\ UNCHANGED <<closing, worker, known, healthy, keep, completed, inputs>>
        /\ cancelled' = cancelled
    BY DEF PrepareFails, At
  <1>2. life[s] \in {"open", "draining"} /\ (known[s] = {} \/ ~healthy)
    BY <1>1, RunFacts DEF Working, Using
  <1>3. PICK p \in {"waiting", "done"} :
           /\ pc' = [pc EXCEPT ![<<"run", s>>] = p]
           /\ \/ p = "waiting" /\ lock' = Append(lock, <<"run", s>>)
              \/ p = "done" /\ lock' = lock
    BY <1>1, WaysOut
  <1>4. /\ SlotTypes' /\ OneOwner' /\ slot'[s] # "held"
        /\ \A r \in Sessions : r # s => slot'[r] = slot[r]
    BY <1>1, RunFacts, SlotFacts
  <1>5. FreeTypes' /\ WorkTypes' /\ OthersKeep(s)
    BY <1>1, <1>4, RunFacts DEF worker, WorkTypes, OthersKeep, FreeTypes, inputs
  <1>6. CountsOn(s, p)
    BY <1>1, <1>2, <1>3, <1>4 DEF CountsOn, worker, Using
  <1> QED BY <1>1, <1>2, <1>3, <1>4, <1>5, <1>6, RunMoves DEF Working

LEMMA ProvidedStays ==
  ASSUME ManagerInv, NEW s \in Sessions, Provided(s)
  PROVE  ManagerInv'
  <1>1. /\ pc[<<"run", s>>] = "assembling" /\ ~cancelled[s]
        /\ UNCHANGED <<closing, healthy, keep, inputs>> /\ cancelled' = cancelled
        /\ completed' = [completed EXCEPT ![s] = FALSE]
    BY DEF Provided, At
  <1>2. /\ life[s] \in {"open", "draining"} /\ slot[s] = "held" /\ FreeTypes'
        /\ known[s] = {} \/ ~healthy
    BY <1>1, RunFacts DEF Working, Using, FreeTypes, inputs
  <1>3. CASE Release(s) /\ Leave(s) /\ UNCHANGED <<known, worker>>
    <2>1. PICK p \in {"waiting", "done"} :
             /\ pc' = [pc EXCEPT ![<<"run", s>>] = p]
             /\ \/ p = "waiting" /\ lock' = Append(lock, <<"run", s>>)
                \/ p = "done" /\ lock' = lock
      BY <1>3, WaysOut
    <2>2. /\ SlotTypes' /\ OneOwner' /\ slot'[s] # "held"
          /\ \A r \in Sessions : r # s => slot'[r] = slot[r]
      BY <1>3, RunFacts, SlotFacts
    <2>3. WorkTypes' /\ OthersKeep(s)
      BY <1>1, <1>3, <2>2, RunFacts DEF worker, WorkTypes, OthersKeep
    <2>4. CountsOn(s, p)
      BY <1>1, <1>2, <1>3, <2>1, <2>2 DEF CountsOn, worker, Using
    <2> QED BY <1>1, <1>2, <2>1, <2>2, <2>3, <2>4, RunMoves DEF Working
  <1>4. ASSUME known' = [known EXCEPT ![s] = @ \cup {"provider"}], UNCHANGED slots,
               \/ Goto("run", s, "activating") /\ UNCHANGED <<lock, worker>>
               \/ Cleanup(s)
        PROVE  ManagerInv'
    <2>1. /\ known' \in [Sessions -> SUBSET {"provider", "session"}]
          /\ \A r \in Sessions : r # s => known'[r] = known[r]
      BY <1>4, RunFacts DEF WorkTypes
    <2>2. SlotTypes' /\ OneOwner' /\ slot' = slot /\ reserved' = reserved
      BY <1>4, RunFacts DEF slots, SlotTypes, OneOwner
    <2>3. CASE Goto("run", s, "activating") /\ UNCHANGED <<lock, worker>>
      <3>1. /\ pc' = [pc EXCEPT ![<<"run", s>>] = "activating"] /\ lock' = lock
            /\ WorkTypes' /\ OthersKeep(s)
        BY <1>1, <2>1, <2>2, <2>3, RunFacts DEF Goto, worker, WorkTypes, OthersKeep
      <3>2. CountsOn(s, "activating")
        BY <1>2, <2>2 DEF CountsOn, Using
      <3> QED BY <1>1, <1>2, <2>2, <3>1, <3>2, RunMoves DEF Working, Using
    <2>4. CASE Cleanup(s)
      <3>1. /\ pc' = [pc EXCEPT ![<<"run", s>>] = "cleanup"] /\ lock' = lock
            /\ queue' \in Seq(Calls \X Sessions) /\ open' = open
            /\ ready' = [ready EXCEPT ![s] = <<>>]
        <4>1. queue \in Seq(Calls \X Sessions) /\ <<"close", s>> \in Calls \X Sessions
          BY RunFacts DEF WorkTypes, Calls
        <4>2. queue' = Append(queue, <<"close", s>>)
          BY <2>4 DEF Cleanup, Submit
        <4>3. queue' \in Seq(Calls \X Sessions)
          BY <4>1, <4>2, AppendProperties
        <4> QED BY <2>4, <4>3 DEF Cleanup, Submit, Goto
      <3>2. WorkTypes' /\ OthersKeep(s) /\ ready'[s] = <<>>
        BY <1>1, <2>1, <2>2, <3>1, RunFacts DEF WorkTypes, OthersKeep
      <3>3. CountsOn(s, "cleanup")
        BY <1>2, <2>2, <3>2 DEF CountsOn, Using
      <3> QED BY <1>1, <1>2, <2>2, <3>1, <3>2, <3>3, RunMoves DEF Working, Using
    <2> QED BY <1>4, <2>3, <2>4
  <1> QED BY <1>3, <1>4 DEF Provided

\* Activate, Step, Started: the session goes on with its run.
LEMMA GoesOnStays ==
  ASSUME ManagerInv, NEW s \in Sessions, Activate(s) \/ Step(s) \/ Started(s)
  PROVE  ManagerInv'
  <1>1. /\ pc[<<"run", s>>] \in {"activating", "starting", "running", "stepping"}
        /\ ~cancelled[s] /\ UNCHANGED <<closing, slots, healthy, keep, completed, inputs>>
        /\ cancelled' = cancelled /\ lock' = lock
    BY DEF Activate, Step, Started, At
  <1>2. /\ life[s] \in {"open", "draining"} /\ slot'[s] = "held" /\ FreeTypes'
        /\ SlotTypes' /\ OneOwner' /\ slot' = slot
    BY <1>1, RunFacts DEF Working, Using, FreeTypes, inputs, slots, SlotTypes, OneOwner
  <1>3. CASE Activate(s) \/ Step(s)
    <2>1. PICK p \in {"starting", "stepping"}, call \in Calls :
             Submit(call, s) /\ Goto("run", s, p) /\ UNCHANGED known
      BY <1>3 DEF Activate, Step, Calls
    <2>2. /\ WorkTypes' /\ open' = open
          /\ \A r \in Sessions : r # s => ready'[r] = ready[r]
      BY <1>1, <2>1, RunFacts, SubmitFacts
    <2>3. OthersKeep(s) /\ CountsOn(s, p)
      BY <1>1, <1>2, <2>1, <2>2 DEF OthersKeep, CountsOn, Using
    <2>4. pc' = [pc EXCEPT ![<<"run", s>>] = p] /\ p \in Working /\ pc[<<"run", s>>] \in Working
      BY <1>1, <2>1 DEF Goto, Working, Using
    <2> QED BY <1>1, <1>2, <2>2, <2>3, <2>4, RunMoves
  <1>4. CASE Started(s)
    <2>1. /\ UNCHANGED worker /\ pc' = [pc EXCEPT ![<<"run", s>>] = "running"]
          /\ \/ known' = [known EXCEPT ![s] = @ \cup {"session"}]
             \/ known' = known
      BY <1>4 DEF Started, Goto
    <2>2. WorkTypes' /\ OthersKeep(s)
      <3>1. known \in [Sessions -> SUBSET {"provider", "session"}] /\ WorkTypes
        BY RunFacts DEF WorkTypes
      <3>2. /\ known' \in [Sessions -> SUBSET {"provider", "session"}]
            /\ \A r \in Sessions : r # s => known'[r] = known[r]
        <4>1. CASE known' = known
          BY <3>1, <4>1
        <4>2. CASE known' = [known EXCEPT ![s] = @ \cup {"session"}]
          BY <3>1, <4>2
        <4> QED BY <2>1, <4>1, <4>2
      <3> QED BY <1>1, <1>2, <2>1, <3>1, <3>2 DEF worker, WorkTypes, OthersKeep
    <2>3. CountsOn(s, "running") /\ "running" \in Working /\ pc[<<"run", s>>] \in Working
      BY <1>1, <1>2 DEF CountsOn, Using, Working
    <2> QED BY <1>1, <1>2, <2>1, <2>2, <2>3, RunMoves
  <1> QED BY <1>3, <1>4

LEMMA EndRunStays ==
  ASSUME ManagerInv, NEW s \in Sessions, EndRun(s)
  PROVE  ManagerInv'
  <1>1. /\ pc[<<"run", s>>] \in {"activating", "starting", "running", "stepping"}
        /\ ~cancelled[s] /\ Cleanup(s)
        /\ UNCHANGED <<closing, slots, known, healthy, keep, inputs>>
        /\ cancelled' = cancelled /\ completed' \in [Sessions -> BOOLEAN]
    BY RunFacts DEF EndRun, Ends, At, FreeTypes
  <1>2. /\ life[s] \in {"open", "draining"} /\ slot'[s] = "held" /\ FreeTypes'
        /\ SlotTypes' /\ OneOwner' /\ slot' = slot
    BY <1>1, RunFacts DEF Working, Using, FreeTypes, inputs, slots, SlotTypes, OneOwner
  <1>3. /\ pc' = [pc EXCEPT ![<<"run", s>>] = "cleanup"] /\ lock' = lock
        /\ WorkTypes' /\ open' = open /\ ready'[s] = <<>>
        /\ \A r \in Sessions : r # s => ready'[r] = ready[r]
    BY <1>1, WaysOut
  <1>4. OthersKeep(s) /\ CountsOn(s, "cleanup")
    BY <1>1, <1>2, <1>3 DEF OthersKeep, CountsOn, Using
  <1>5. "cleanup" \in Working /\ pc[<<"run", s>>] \in Working
    BY <1>1 DEF Using, Working
  <1> QED BY <1>1, <1>2, <1>3, <1>4, <1>5, RunMoves

LEMMA CleanedStays ==
  ASSUME ManagerInv, NEW s \in Sessions, Cleaned(s)
  PROVE  ManagerInv'
  <1>1. /\ pc[<<"run", s>>] = "cleanup" /\ Release(s)
        /\ cancelled' = [cancelled EXCEPT ![s] = FALSE]
        /\ UNCHANGED <<closing, worker, keep, completed, inputs>>
        /\ \/ known' = [known EXCEPT ![s] = {}] /\ UNCHANGED healthy
           \/ healthy' = FALSE /\ UNCHANGED known
    BY DEF Cleaned, At
  <1>2. life[s] \in {"open", "draining"} /\ slot[s] = "held" /\ FreeTypes' /\ ~cancelled'[s]
    BY <1>1, RunFacts DEF Working, Using, FreeTypes, inputs
  <1>3. /\ SlotTypes' /\ OneOwner' /\ slot'[s] # "held" /\ ~reserved'
        /\ \A r \in Sessions : r # s => slot'[r] = slot[r]
    BY <1>1, <1>2, RunFacts, SlotFacts
  <1>4. WorkTypes' /\ OthersKeep(s) /\ (known'[s] = {} \/ ~healthy') /\ (healthy' => healthy)
    <2>1. /\ known \in [Sessions -> SUBSET {"provider", "session"}] /\ WorkTypes
          /\ healthy \in BOOLEAN
      BY RunFacts DEF WorkTypes
    <2>2. /\ known' \in [Sessions -> SUBSET {"provider", "session"}]
          /\ \A r \in Sessions : r # s => known'[r] = known[r]
          /\ known'[s] = {} \/ ~healthy'
          /\ healthy' \in BOOLEAN /\ (healthy' => healthy)
      <3>1. CASE known' = [known EXCEPT ![s] = {}] /\ UNCHANGED healthy
        BY <2>1, <3>1
      <3>2. CASE healthy' = FALSE /\ UNCHANGED known
        BY <2>1, <3>2
      <3> QED BY <1>1, <3>1, <3>2
    <2> QED BY <1>1, <1>3, <2>1, <2>2 DEF worker, WorkTypes, OthersKeep
  <1>5. PICK p \in {"idle", "waiting", "done"} :
           /\ pc' = [pc EXCEPT ![<<"run", s>>] = p]
           /\ \/ p = "waiting" /\ lock' = Append(lock, <<"run", s>>)
              \/ p \in {"idle", "done"} /\ lock' = lock
    <2>1. CASE Goto("run", s, "idle") /\ UNCHANGED lock
      BY <2>1 DEF Goto
    <2>2. CASE Leave(s)
      BY <2>2, WaysOut
    <2> QED BY <2>1, <2>2 DEF Cleaned
  <1>6. CountsOn(s, p) /\ p \in Working \cup {"waiting", "done"}
    BY <1>3, <1>4, <1>5 DEF CountsOn, Using, Working
  <1> QED BY <1>1, <1>2, <1>3, <1>4, <1>5, <1>6, RunMoves DEF Working, Using

LEMMA IdleStays ==
  ASSUME ManagerInv, NEW s \in Sessions, Ask(s) \/ LeaveIdle(s)
  PROVE  ManagerInv'
  <1>1. /\ pc[<<"run", s>>] = "idle" /\ ~cancelled[s]
        /\ UNCHANGED <<closing, slots, worker, known, healthy, keep, completed, inputs>>
        /\ cancelled' = cancelled
    BY DEF Ask, LeaveIdle, At
  <1>2. /\ life[s] \in {"open", "draining"} /\ ~reserved /\ slot[s] # "held"
        /\ known[s] = {} \/ ~healthy
    BY <1>1, RunFacts DEF Working, Using
  <1>3. SlotTypes' /\ OneOwner' /\ WorkTypes' /\ FreeTypes' /\ OthersKeep(s)
    BY <1>1, RunFacts DEF slots, SlotTypes, OneOwner, worker, WorkTypes, OthersKeep,
                          FreeTypes, inputs
  <1>4. PICK p \in {"new", "waiting", "done"} :
           /\ pc' = [pc EXCEPT ![<<"run", s>>] = p]
           /\ \/ p = "waiting" /\ lock' = Append(lock, <<"run", s>>)
              \/ p \in {"new", "done"} /\ lock' = lock
    <2>1. CASE Ask(s)
      BY <2>1 DEF Ask, Goto
    <2>2. CASE LeaveIdle(s)
      BY <2>2, WaysOut DEF LeaveIdle
    <2> QED BY <2>1, <2>2
  <1>5. CountsOn(s, p)
    BY <1>1, <1>2, <1>4 DEF CountsOn, Using, slots, worker
  <1> QED BY <1>1, <1>2, <1>3, <1>4, <1>5, RunMoves DEF Working

LEMMA CancelStays ==
  ASSUME ManagerInv, NEW s \in Sessions, Cancel(s)
  PROVE  ManagerInv'
  <1>1. /\ cancelled[s] /\ cancelled' = [cancelled EXCEPT ![s] = FALSE]
        /\ completed' = [completed EXCEPT ![s] = @ /\ At("run", s, "cleanup")]
        /\ UNCHANGED <<closing, known, healthy, keep, inputs>>
    BY DEF Cancel
  <1>2. /\ life[s] \in {"open", "draining"} /\ ~cancelled'[s] /\ FreeTypes'
        /\ pc[<<"run", s>>] \in RunPlaces
    BY <1>1, RunFacts DEF FreeTypes, inputs
  <1>3. CASE At("run", s, "cleanup") /\ UNCHANGED <<lock, pc, slots, worker>>
    <2>1. pc' = [pc EXCEPT ![<<"run", s>>] = "cleanup"] /\ lock' = lock
      BY <1>3 DEF At, ManagerInv, Types, PcTypes
    <2>2. SlotTypes' /\ OneOwner' /\ WorkTypes' /\ OthersKeep(s)
      BY <1>1, <1>3, RunFacts DEF slots, SlotTypes, OneOwner, worker, WorkTypes, OthersKeep
    <2>3. CountsOn(s, "cleanup")
      BY <1>1, <1>3, RunFacts DEF CountsOn, Using, slots, worker, At
    <2> QED BY <1>1, <1>2, <1>3, <2>1, <2>2, <2>3, RunMoves DEF Working, Using, At
  <1>4. CASE /\ pc[<<"run", s>>] \in {"activating", "starting", "running", "stepping"}
             /\ Cleanup(s) /\ UNCHANGED slots
    <2>1. SlotTypes' /\ OneOwner' /\ slot'[s] = "held" /\ slot' = slot
      BY <1>4, RunFacts DEF Using, slots, SlotTypes, OneOwner
    <2>2. /\ pc' = [pc EXCEPT ![<<"run", s>>] = "cleanup"] /\ lock' = lock
          /\ WorkTypes' /\ open' = open /\ ready'[s] = <<>>
          /\ \A r \in Sessions : r # s => ready'[r] = ready[r]
      BY <1>1, <1>4, WaysOut
    <2>3. OthersKeep(s) /\ CountsOn(s, "cleanup")
      BY <1>1, <2>1, <2>2 DEF OthersKeep, CountsOn, Using
    <2>4. "cleanup" \in Working /\ pc[<<"run", s>>] \in Working
      BY <1>4 DEF Using, Working
    <2> QED BY <1>1, <1>2, <2>1, <2>2, <2>3, <2>4, RunMoves
  <1>5. CASE At("run", s, "assembling") /\ Release(s) /\ Leave(s) /\ UNCHANGED worker
    <2>1. PICK p \in {"waiting", "done"} :
             /\ pc' = [pc EXCEPT ![<<"run", s>>] = p]
             /\ \/ p = "waiting" /\ lock' = Append(lock, <<"run", s>>)
                \/ p = "done" /\ lock' = lock
      BY <1>5, WaysOut
    <2>2. /\ SlotTypes' /\ OneOwner' /\ slot'[s] # "held"
          /\ \A r \in Sessions : r # s => slot'[r] = slot[r]
      BY <1>5, RunFacts, SlotFacts
    <2>3. WorkTypes' /\ OthersKeep(s)
      BY <1>1, <1>5, <2>2, RunFacts DEF worker, WorkTypes, OthersKeep
    <2>4. CountsOn(s, p)
      BY <1>1, <1>5, <2>1, <2>2, RunFacts DEF CountsOn, worker, Using, At
    <2> QED BY <1>1, <1>2, <1>5, <2>1, <2>2, <2>3, <2>4, RunMoves DEF Working, At
  <1>6. CASE /\ pc[<<"run", s>>] \in {"new", "idle", "waiting", "done"}
             /\ Goto("run", s, "done") /\ lock' = RemoveFirst(lock, <<"run", s>>)
             /\ UNCHANGED <<slots, worker>>
    <2>1. pc' = [pc EXCEPT ![<<"run", s>>] = "done"]
      BY <1>6 DEF Goto
    <2>2. SlotTypes' /\ OneOwner' /\ WorkTypes' /\ OthersKeep(s)
      BY <1>1, <1>6, RunFacts DEF slots, SlotTypes, OneOwner, worker, WorkTypes, OthersKeep
    <2>3. CountsOn(s, "done")
      BY <1>1, <1>6, RunFacts DEF CountsOn, Using, worker
    <2>4. pc[<<"run", s>>] # "waiting" => lock' = lock
      <3>1. <<"run", s>> \in Tasks /\ (pc[<<"run", s>>] # "waiting" => ~InLock(<<"run", s>>))
        BY <1>6, TasksArePairs DEF ManagerInv, LockOK, InSection
      <3> QED BY <1>6, <3>1 DEF RemoveFirst, InLock, Contains
    <2> QED BY <1>1, <1>2, <1>6, <2>1, <2>2, <2>3, <2>4, RunMoves DEF Working, At
  <1> QED BY <1>3, <1>4, <1>5, <1>6 DEF Cancel

-----------------------------------------------------------------------------
(* Offers, and what other tasks leave of a generation task.                 *)

\* Nobody else closes while t has the lock.
LEMMA NobodyCloses ==
  ASSUME ManagerInv, NEW t \in Tasks, Holds(t), pc[t] \notin {"failing", "closing"}
  PROVE  \A r \in Sessions : life[r] \notin {"draining", "peer"}
  <1> SUFFICES ASSUME NEW r \in Sessions, life[r] \in {"draining", "peer"} PROVE FALSE
    OBVIOUS
  <1>1. by[r] \in Tasks /\ pc[by[r]] \in {"failing", "closing"}
    BY DEF ManagerInv, LivesOK
  <1>2. by[r] = t
    BY <1>1, OneInSection DEF ManagerInv, InSection
  <1> QED BY <1>1, <1>2

\* A step of another task keeps what generation tasks count on.
LEMMA RunsKept ==
  ASSUME ManagerInv, UNCHANGED <<known, healthy, open>>,
         \A r \in Sessions :
            /\ \/ pc'[<<"run", r>>] = pc[<<"run", r>>]
               \/ /\ pc[<<"run", r>>] \in {"waiting", "closing"}
                  /\ pc'[<<"run", r>>] \in {"closing", "done"}
            /\ pc[<<"run", r>>] \in Working =>
                  /\ life'[r] \in {"open", "draining"} /\ UNCHANGED slots
                  /\ ready'[r] = ready[r]
            /\ slot'[r] = "held" => slot[r] = "held" \/ pc[<<"run", r>>] = "none"
  PROVE  RunsOK'
  <1> SUFFICES
        ASSUME NEW r \in Sessions
        PROVE  /\ pc'[<<"run", r>>] \in Working => life'[r] \in {"open", "draining"}
               /\ pc'[<<"run", r>>] \in Using \cup {"assembling"} => slot'[r] = "held"
               /\ pc'[<<"run", r>>] \in {"waiting", "closing"} => slot'[r] # "held"
               /\ pc'[<<"run", r>>] = "new" => slot'[r] = "held" \/ ~reserved'
               /\ pc'[<<"run", r>>] = "idle" => ~reserved'
               /\ pc'[<<"run", r>>] \in Using \/ known'[r] = {} \/ ~healthy'
               /\ pc'[<<"run", r>>] = "cleanup" /\ ready'[r] = <<"close", TRUE>> =>
                     known'[r] \cap open'[r] = {}
    BY DEF RunsOK, At, Finished
  <1>1. CASE pc[<<"run", r>>] \in Working
    BY <1>1, RunFacts DEF slots, Working, Using
  <1>2. CASE pc[<<"run", r>>] \notin Working
    <2>1. pc'[<<"run", r>>] \notin Working
      BY <1>2 DEF Working, Using
    <2>2. known'[r] = {} \/ ~healthy'
      BY <1>2, RunFacts, RunPlacesFacts
    <2>3. pc'[<<"run", r>>] \in {"waiting", "closing"} => slot'[r] # "held"
      BY DEF ManagerInv, RunsOK
    <2> QED BY <2>1, <2>2, <2>3, RunPlacesFacts
  <1> QED BY <1>1, <1>2

\* An offer that neither makes a session nor closes it.
LEMMA OfferMoves ==
  ASSUME ManagerInv, NEW s \in Sessions, NEW p \in PlacesOf("offer"),
         pc' = [pc EXCEPT ![<<"offer", s>>] = p],
         ~At("offer", s, "failing"), p \notin {"negotiating", "failing"},
         UNCHANGED <<closing, cancelled>>, LockTypes', LockOK',
         SlotTypes', WorkTypes', FreeTypes', SlotsOK', RunsOK',
         \A r \in Sessions : r # s => slot'[r] = slot[r],
         p \in {"none", "waiting", "resetting", "refused"} => life[s] = "none",
         p = "resetting" => /\ slot'[s] = "held"
                            /\ \A r \in Sessions : life[r] \in {"none", "closed"}
  PROVE  ManagerInv'
  <1> DEFINE t == <<"offer", s>>
  <1>1. PcTypes' /\ pc'[t] = p /\ \A u \in Tasks : u # t => pc'[u] = pc[u]
    <2>1. t \in Tasks /\ t[1] = "offer"
      BY TasksArePairs
    <2> QED BY <2>1, PcMoves DEF ManagerInv, Types
  <1>2. /\ life' = life /\ active' = active /\ by' = by /\ cancelled' = cancelled
        /\ CloseTypes'
    BY DEF closing, ManagerInv, Types, CloseTypes
  <1>3. /\ \A r \in Sessions : r # s => pc'[<<"offer", r>>] = pc[<<"offer", r>>]
        /\ \A r \in Sessions, kind \in Closers : pc'[<<kind, r>>] = pc[<<kind, r>>]
        /\ \A r \in Sessions : pc'[<<"closed", r>>] = pc[<<"closed", r>>]
        /\ \A r \in Sessions : pc'[<<"run", r>>] = pc[<<"run", r>>]
    BY <1>1, TasksArePairs DEF Closers
  <1>4. OffersOK'
    <2>1. ASSUME NEW r \in Sessions
          PROVE  /\ pc'[<<"offer", r>>] \in {"none", "waiting", "resetting", "refused"} =>
                       life'[r] = "none"
                 /\ pc'[<<"offer", r>>] = "resetting" =>
                       /\ slot'[r] = "held"
                       /\ \A q \in Sessions : life'[q] \in {"none", "closed"}
                 /\ pc'[<<"offer", r>>] = "negotiating" => life'[r] = "open"
                 /\ pc'[<<"offer", r>>] = "failing" =>
                       /\ active' = r /\ life'[r] \in {"draining", "peer"}
                       /\ by'[r] = <<"offer", r>>
      <3>1. CASE r = s
        BY <1>1, <1>2, <3>1
      <3>2. CASE r # s
        BY <1>2, <1>3, <3>2 DEF ManagerInv, OffersOK, At
      <3> QED BY <3>1, <3>2
    <2> QED BY <2>1 DEF OffersOK, At
  <1>5. LivesOK'
    <2>1. OpenPeerIsActive'
      BY <1>2 DEF ManagerInv, LivesOK, OpenPeerIsActive
    <2>2. pc[t] # "failing" /\ pc[t] # "closing"
      BY TasksArePairs, ZenonT(30) DEF At, ManagerInv, Types, PcTypes, PlacesOf
    <2>3. \A r \in Sessions : life'[r] \in {"draining", "peer"} =>
             /\ by'[r] \in Tasks /\ pc'[by'[r]] \in {"failing", "closing"}
             /\ by'[r][1] = "offer" => by'[r] = <<"offer", r>>
      <3>1. \A r \in Sessions : life[r] \in {"draining", "peer"} =>
               /\ by[r] \in Tasks /\ pc[by[r]] \in {"failing", "closing"}
               /\ by[r][1] = "offer" => by[r] = <<"offer", r>>
        BY DEF ManagerInv, LivesOK
      <3>2. \A r \in Sessions : life[r] \in {"draining", "peer"} => by[r] # t
        BY <2>2, <3>1
      <3> QED BY <1>1, <1>2, <3>1, <3>2
    <2>4. \A r \in Sessions :
             /\ life'[r] = "none" => \A kind \in Closers : pc'[<<kind, r>>] = "none"
             /\ life'[r] # "closed" => pc'[<<"closed", r>>] = "none"
             /\ cancelled'[r] => /\ life'[r] = "draining" /\ by'[r] # <<"run", r>>
                                 /\ pc'[<<"run", r>>] \notin {"none", "done"}
      <3>1. \A r \in Sessions :
               /\ life[r] = "none" => \A kind \in Closers : pc[<<kind, r>>] = "none"
               /\ life[r] # "closed" => pc[<<"closed", r>>] = "none"
               /\ cancelled[r] => /\ life[r] = "draining" /\ by[r] # <<"run", r>>
                                  /\ pc[<<"run", r>>] \notin {"none", "done"}
        BY DEF ManagerInv, LivesOK, At
      <3>2. life' = life /\ by' = by /\ cancelled' = cancelled
        BY <1>2
      <3>3. /\ \A r \in Sessions, kind \in Closers : pc'[<<kind, r>>] = pc[<<kind, r>>]
            /\ "closed" \in Closers /\ "run" \in Closers
        BY <1>3 DEF Closers
      <3> HIDE DEF t
      <3> QED BY ONLY <3>1, <3>2, <3>3
    <2>5. \A q, r \in Sessions : life'[q] \in Living /\ life'[r] \in Living => q = r
      BY <1>2 DEF ManagerInv, LivesOK
    <2> QED BY <2>1, <2>3, <2>4, <2>5 DEF LivesOK, At
  <1> QED BY <1>1, <1>2, <1>4, <1>5 DEF ManagerInv, Types

LEMMA OfferStays ==
  ASSUME ManagerInv, NEW s \in Sessions, Offer(s) \/ Answer(s)
  PROVE  ManagerInv'
  <1> DEFINE t == <<"offer", s>>
  <1>1. t \in Tasks /\ UNCHANGED <<closing, cancelled, slots, worker, known, healthy>>
        /\ completed' = completed /\ keep' = keep
    BY TasksArePairs DEF Offer, Answer
  <1>2. PICK p \in {"waiting", "answered"} :
           /\ pc' = [pc EXCEPT ![t] = p] /\ p \in PlacesOf("offer")
           /\ p = "waiting" => pc[t] = "none" /\ lock' = Append(lock, t)
           /\ p = "answered" => pc[t] = "negotiating" /\ lock' = Tail(lock)
    BY DEF Offer, Answer, Goto, Queue, Unlock, At, PlacesOf
  <1>3. pc'[t] = p /\ \A u \in Tasks : u # t => pc'[u] = pc[u]
    BY <1>1, <1>2 DEF ManagerInv, Types, PcTypes
  <1>4. LockTypes' /\ LockOK'
    <2>1. /\ \A u \in Tasks : u # t => Besides(u)
          /\ ~TakesPart("none") /\ ~TakesPart("answered")
      BY <1>3 DEF Besides, TakesPart, InSection
    <2>2. pc[t] = "negotiating" => Holds(t)
      BY <1>1 DEF ManagerInv, LockOK, InSection
    <2> QED BY <1>1, <1>2, <1>3, <2>1, <2>2, LockMoves DEF ManagerInv, Types
  <1>5. /\ SlotTypes' /\ WorkTypes' /\ FreeTypes' /\ slot' = slot
        /\ life' = life /\ known' = known /\ healthy' = healthy /\ open' = open
        /\ ready' = ready /\ UNCHANGED slots
    <2>1. {pending', input'} \subseteq Inputs \cup {None}
      BY DEF Offer, Answer, inputs, ManagerInv, Types, FreeTypes
    <2> QED BY <1>1, <2>1, RunFacts DEF slots, worker, closing, SlotTypes, WorkTypes, FreeTypes
  <1>6. \A r \in Sessions : /\ pc'[<<"run", r>>] = pc[<<"run", r>>]
                            /\ r # s => pc'[<<"offer", r>>] = pc[<<"offer", r>>]
    BY <1>3, TasksArePairs
  <1>7. RunsOK'
    <2>1. \A r \in Sessions : pc[<<"run", r>>] \in Working => life[r] \in {"open", "draining"}
      BY RunFacts
    <2> QED BY <1>5, <1>6, <2>1, RunsKept
  <1>8. SlotsOK'
    <2>1. OneOwner'
      BY <1>5, RunFacts, SlotFacts
    <2>2. pc[t] # "resetting"
      BY <1>2
    <2> QED BY <1>5, <1>6, <2>1, <2>2 DEF ManagerInv, SlotsOK, At
  <1>9. p = "waiting" => life[s] = "none"
    BY <1>2 DEF ManagerInv, OffersOK
  <1> QED BY <1>1, <1>2, <1>4, <1>5, <1>7, <1>8, <1>9, OfferMoves DEF At

\* An offer is refused, or admitted when nobody is left.
LEMMA AdmitStays ==
  ASSUME ManagerInv, NEW s \in Sessions, Admit(s)
  PROVE  ManagerInv'
  <1> DEFINE t == <<"offer", s>>
  <1>1. /\ t \in Tasks /\ Holds(t) /\ pc[t] = "waiting"
        /\ UNCHANGED <<closing, cancelled, known, healthy>>
        /\ completed' = completed /\ keep' = keep /\ pending' = pending
    BY TasksArePairs DEF Admit, At
  <1>2. \A r \in Sessions : life[r] \notin {"draining", "peer"}
    BY <1>1, NobodyCloses
  <1>3. life[s] = "none" /\ \A kind \in Closers : pc[<<kind, s>>] = "none"
    BY <1>1 DEF ManagerInv, OffersOK, LivesOK, At
  <1>4. CASE /\ Goto("offer", s, "refused") /\ Unlock
             /\ UNCHANGED <<slots, worker, input>>
    <2>1. /\ pc' = [pc EXCEPT ![t] = "refused"] /\ lock' = Tail(lock)
          /\ pc'[t] = "refused" /\ \A u \in Tasks : u # t => pc'[u] = pc[u]
      BY <1>1, <1>4 DEF Goto, Unlock, ManagerInv, Types, PcTypes
    <2>2. LockTypes' /\ LockOK'
      <3>1. /\ \A u \in Tasks : u # t => Besides(u)
            /\ ~TakesPart("refused")
        BY <2>1 DEF Besides, TakesPart, InSection
      <3> QED BY <1>1, <2>1, <3>1, LockMoves DEF ManagerInv, Types
    <2>3. /\ SlotTypes' /\ WorkTypes' /\ FreeTypes' /\ slot' = slot
          /\ life' = life /\ known' = known /\ healthy' = healthy /\ open' = open
          /\ ready' = ready /\ UNCHANGED slots
      BY <1>1, <1>4, RunFacts DEF slots, worker, closing, SlotTypes, WorkTypes, FreeTypes
    <2>4. \A r \in Sessions : /\ pc'[<<"run", r>>] = pc[<<"run", r>>]
                              /\ r # s => pc'[<<"offer", r>>] = pc[<<"offer", r>>]
      BY <2>1, TasksArePairs
    <2>5. RunsOK'
      <3>1. \A r \in Sessions : pc[<<"run", r>>] \in Working => life[r] \in {"open", "draining"}
        BY RunFacts
      <3> QED BY <2>3, <2>4, <3>1, RunsKept
    <2>6. SlotsOK'
      <3>1. OneOwner'
        BY <1>4, RunFacts, SlotFacts
      <3> QED BY <1>1, <2>3, <2>4, <3>1 DEF ManagerInv, SlotsOK, At
    <2>7. "refused" \in PlacesOf("offer")
      BY DEF PlacesOf
    <2> QED BY <1>1, <1>3, <2>1, <2>2, <2>3, <2>5, <2>6, <2>7, OfferMoves DEF At
  <1>5. CASE /\ ~Busy /\ Reservable
             /\ Reserve(s)
             /\ input' = pending
             /\ Submit("reset", s) /\ Goto("offer", s, "resetting")
             /\ UNCHANGED lock
    <2>1. /\ pc' = [pc EXCEPT ![t] = "resetting"] /\ lock' = lock
          /\ pc'[t] = "resetting" /\ \A u \in Tasks : u # t => pc'[u] = pc[u]
      BY <1>1, <1>5 DEF Goto, ManagerInv, Types, PcTypes
    <2>2. LockTypes' /\ LockOK'
      <3>1. /\ \A u \in Tasks : u # t => Besides(u)
            /\ TakesPart("resetting") /\ TakesPart("waiting")
        BY <2>1 DEF Besides, TakesPart, InSection
      <3> QED BY <1>1, <2>1, <3>1, LockMoves DEF ManagerInv, Types
    <2>3. \A r \in Sessions : life[r] \in {"none", "closed"}
      <3>1. \A r \in Sessions : life[r] # "open"
        <4>1. \A r \in Sessions : life[r] = "open" => active = r
          BY DEF ManagerInv, LivesOK, OpenPeerIsActive
        <4>2. \A r \in Sessions : r # None
          BY NoneIsApart
        <4> QED BY <1>5, <4>1, <4>2 DEF Busy
      <3> QED BY <1>2, <3>1, RunFacts
    <2>4. /\ SlotTypes' /\ OneOwner' /\ slot'[s] = "held"
          /\ \A r \in Sessions : r # s => slot'[r] = slot[r]
      BY <1>5, RunFacts, SlotFacts DEF Reservable
    <2>5. WorkTypes' /\ open' = open
      BY <1>1, <1>5, RunFacts, SubmitFacts DEF Calls
    <2>6. FreeTypes' /\ life' = life /\ known' = known /\ healthy' = healthy
      BY <1>1, <1>5, RunFacts DEF FreeTypes, closing
    <2>7. \A r \in Sessions : /\ pc'[<<"run", r>>] = pc[<<"run", r>>]
                              /\ r # s => pc'[<<"offer", r>>] = pc[<<"offer", r>>]
      BY <2>1, TasksArePairs
    <2>8. RunsOK'
      <3>1. \A r \in Sessions : pc[<<"run", r>>] \notin Working
        BY <2>3, RunFacts
      <3>2. pc[<<"run", s>>] = "none"
        BY <1>3 DEF Closers
      <3> QED BY <2>4, <2>5, <2>6, <2>7, <3>1, <3>2, RunsKept
    <2>9. SlotsOK'
      <3>1. \A r \in Sessions : r # s => slot'[r] = "none"
        BY <2>4 DEF OneOwner
      <3> QED BY <2>1, <2>3, <2>4, <2>6, <3>1 DEF SlotsOK, At
    <2>10. "resetting" \in PlacesOf("offer")
      BY DEF PlacesOf
    <2> QED BY <1>1, <1>3, <2>1, <2>2, <2>3, <2>4, <2>5, <2>6, <2>8, <2>9, <2>10,
               OfferMoves DEF At
  <1> QED BY <1>4, <1>5 DEF Admit

\* Two tasks move in one step.
LEMMA PcMovesTwice ==
  ASSUME PcTypes, NEW t \in Tasks, NEW u \in Tasks,
         pc' = [v \in Tasks |-> pc'[v]],
         pc'[t] \in PlacesOf(t[1]), pc'[u] \in PlacesOf(u[1]),
         \A v \in Tasks : v # t /\ v # u => pc'[v] = pc[v]
  PROVE  PcTypes'
  <1>1. \A v \in Tasks : v[1] \in Closers \cup {"offer"}
    BY DEF Tasks
  <1>2. ASSUME NEW v \in Tasks PROVE pc'[v] \in PlacesOf(v[1])
    BY DEF PcTypes
  <1>3. \A v \in Tasks : pc'[v] \in UNION {PlacesOf(kind) : kind \in Closers \cup {"offer"}}
    BY <1>1, <1>2
  <1>4. pc' \in [Tasks -> UNION {PlacesOf(kind) : kind \in Closers \cup {"offer"}}]
    BY <1>3
  <1> QED BY <1>2, <1>4 DEF PcTypes

\* The reset has run: the offer gives up, or makes its session the active one.
LEMMA BuildStays ==
  ASSUME ManagerInv, NEW s \in Sessions, Build(s)
  PROVE  ManagerInv'
  <1> DEFINE t == <<"offer", s>>
             w == <<"watch", s>>
  <1>1. /\ t \in Tasks /\ w \in Tasks /\ t # w /\ pc[t] = "resetting" /\ Holds(t)
        /\ t[1] = "offer" /\ w[1] = "watch"
        /\ UNCHANGED <<cancelled, worker, known, healthy, keep, completed, pending>>
    BY TasksArePairs DEF Build, At, ManagerInv, LockOK, InSection
  <1>2. /\ slot[s] = "held" /\ life[s] = "none"
        /\ \A r \in Sessions : life[r] \in {"none", "closed"}
    BY <1>1 DEF ManagerInv, OffersOK, At
  <1>3. /\ \A kind \in Closers : pc[<<kind, s>>] = "none"
        /\ pc[w] = "none" /\ pc[<<"closed", s>>] = "none" /\ pc[<<"run", s>>] = "none"
    BY <1>2 DEF ManagerInv, LivesOK, At, Closers
  <1>4. /\ \A r \in Sessions : pc[<<"run", r>>] \notin Working
        /\ \A r \in Sessions : r # s => slot[r] = "none"
        /\ \A r \in Sessions : r # s => pc[<<"offer", r>>] \notin InSection
        /\ \A r \in Sessions : ~cancelled[r]
    <2>1. \A r \in Sessions : <<"offer", r>> \in Tasks /\ (r # s => <<"offer", r>> # t)
      BY TasksArePairs
    <2>2. \A r \in Sessions : r # s => pc[<<"offer", r>>] \notin InSection
      BY <1>1, <2>1, OneInSection DEF ManagerInv
    <2> QED BY <1>2, <2>2, RunFacts DEF OneOwner
  <1>5. WorkTypes' /\ known' = known /\ healthy' = healthy /\ open' = open /\ ready' = ready
    BY <1>1, RunFacts DEF worker, WorkTypes
  <1>6. CASE /\ Release(s)
             /\ Goto("offer", s, "failed") /\ Unlock /\ input' = None
             /\ UNCHANGED closing
    <2>1. /\ pc' = [pc EXCEPT ![t] = "failed"] /\ lock' = Tail(lock)
          /\ pc'[t] = "failed" /\ \A u \in Tasks : u # t => pc'[u] = pc[u]
      BY <1>1, <1>6 DEF Goto, Unlock, ManagerInv, Types, PcTypes
    <2>2. LockTypes' /\ LockOK'
      <3>1. (\A u \in Tasks : u # t => Besides(u)) /\ ~TakesPart("failed")
        BY <2>1 DEF Besides, TakesPart, InSection
      <3> QED BY <1>1, <2>1, <3>1, LockMoves DEF ManagerInv, Types
    <2>3. /\ SlotTypes' /\ OneOwner' /\ slot'[s] # "held"
          /\ \A r \in Sessions : r # s => slot'[r] = slot[r]
      BY <1>6, RunFacts, SlotFacts
    <2>4. FreeTypes' /\ life' = life
      BY <1>1, <1>6, RunFacts DEF FreeTypes, closing
    <2>5. \A r \in Sessions : pc'[<<"run", r>>] = pc[<<"run", r>>]
      BY <2>1, TasksArePairs
    <2>6. RunsOK'
      BY <1>4, <1>5, <2>3, <2>4, <2>5, RunsKept
    <2>7. SlotsOK'
      <3>1. \A r \in Sessions : slot'[r] # "held" /\ life'[r] # "open"
        BY <1>2, <1>4, <2>3, <2>4
      <3> QED BY <2>3, <3>1 DEF SlotsOK
    <2>8. "failed" \in PlacesOf("offer") /\ ~At("offer", s, "failing")
      BY <1>1 DEF PlacesOf, At
    <2> QED BY <1>1, <1>5, <1>6, <2>1, <2>2, <2>3, <2>4, <2>6, <2>7, <2>8, OfferMoves
  <1>7. CASE /\ active' = s
             /\ life' = [life EXCEPT ![s] = "open"]
             /\ transport' = [transport EXCEPT ![s] = TRUE]
             /\ pc' = [pc EXCEPT ![t] = "negotiating", ![w] = "alive"]
             /\ UNCHANGED <<lock, by, slots, input>>
    <2>1. PcTypes' /\ pc'[t] = "negotiating" /\ pc'[w] = "alive"
          /\ \A u \in Tasks : u # t /\ u # w => pc'[u] = pc[u]
      <3>1. "negotiating" \in PlacesOf(t[1]) /\ "alive" \in PlacesOf(w[1])
        BY <1>1 DEF PlacesOf
      <3>2. /\ pc'[t] = "negotiating" /\ pc'[w] = "alive"
            /\ \A u \in Tasks : u # t /\ u # w => pc'[u] = pc[u]
            /\ pc' = [v \in Tasks |-> pc'[v]]
        BY <1>1, <1>7 DEF ManagerInv, Types, PcTypes
      <3> HIDE DEF t, w
      <3> QED BY <1>1, <3>1, <3>2, PcMovesTwice DEF ManagerInv, Types
    <2>2. LockTypes' /\ LockOK'
      <3>1. /\ ~TakesPart("none") /\ ~TakesPart("alive")
            /\ TakesPart("resetting") /\ TakesPart("negotiating")
        BY DEF TakesPart, InSection
      <3>2. \A u \in Tasks : u # t => Besides(u)
        BY <1>3, <2>1, <3>1 DEF Besides
      <3> QED BY <1>1, <1>7, <2>1, <3>1, <3>2, LockMoves DEF ManagerInv, Types
    <2>3. CloseTypes' /\ SlotTypes' /\ OneOwner' /\ FreeTypes'
      <3>1. CloseTypes'
        BY <1>1, <1>7 DEF ManagerInv, Types, CloseTypes
      <3>2. SlotTypes' /\ OneOwner' /\ FreeTypes'
        BY <1>1, <1>7, RunFacts DEF FreeTypes, SlotTypes, OneOwner, slots
      <3> QED BY <3>1, <3>2
    <2>4. /\ life'[s] = "open" /\ \A r \in Sessions : r # s => life'[r] = life[r]
          /\ slot' = slot /\ by' = by /\ cancelled' = cancelled
          /\ UNCHANGED slots
      BY <1>1, <1>7 DEF ManagerInv, Types, CloseTypes, slots
    <2>5. /\ \A r \in Sessions : r # s => pc'[<<"offer", r>>] = pc[<<"offer", r>>]
          /\ \A r \in Sessions, kind \in Closers : r # s => pc'[<<kind, r>>] = pc[<<kind, r>>]
          /\ \A r \in Sessions : pc'[<<"run", r>>] = pc[<<"run", r>>]
          /\ \A r \in Sessions : pc'[<<"closed", r>>] = pc[<<"closed", r>>]
      BY <2>1, TasksArePairs DEF Closers
    <2>6. OffersOK'
      <3>1. ASSUME NEW r \in Sessions
            PROVE  /\ pc'[<<"offer", r>>] \in {"none", "waiting", "resetting", "refused"} =>
                         life'[r] = "none"
                   /\ pc'[<<"offer", r>>] # "resetting"
                   /\ pc'[<<"offer", r>>] = "negotiating" => life'[r] = "open"
                   /\ pc'[<<"offer", r>>] # "failing"
        <4>1. CASE r = s
          BY <2>1, <2>4, <4>1
        <4>2. CASE r # s
          BY <1>4, <2>4, <2>5, <4>2 DEF ManagerInv, OffersOK, InSection
        <4> QED BY <4>1, <4>2
      <3> QED BY <3>1 DEF OffersOK, At
    <2>7. LivesOK'
      <3>1. OpenPeerIsActive'
        BY <1>2, <1>7, <2>4 DEF OpenPeerIsActive
      <3>2. \A r \in Sessions : r # s => life'[r] \notin Living
        BY <1>2, <2>4 DEF Living
      <3>3. ASSUME NEW r \in Sessions
            PROVE  /\ life'[r] = "none" => \A kind \in Closers : pc'[<<kind, r>>] = "none"
                   /\ life'[r] # "closed" => pc'[<<"closed", r>>] = "none"
                   /\ life'[r] \notin {"draining", "peer"} /\ ~cancelled'[r]
        <4>1. CASE r = s
          BY <1>3, <1>4, <2>4, <2>5, <4>1
        <4>2. CASE r # s
          <5>1. /\ life[r] = "none" => \A kind \in Closers : pc[<<kind, r>>] = "none"
                /\ life[r] # "closed" => pc[<<"closed", r>>] = "none"
            BY DEF ManagerInv, LivesOK, At
          <5> HIDE DEF t, w
          <5> QED BY <1>2, <1>4, <2>4, <2>5, <4>2, <5>1
        <4> QED BY <4>1, <4>2
      <3> QED BY <3>1, <3>2, <3>3 DEF LivesOK, At
    <2>8. SlotsOK'
      <3>1. \A r \in Sessions : r # s => slot'[r] = "none" /\ life'[r] # "open"
        BY <1>2, <1>4, <2>4
      <3> QED BY <1>2, <2>3, <2>4, <3>1 DEF SlotsOK
    <2>9. RunsOK'
      BY <1>4, <1>5, <2>4, <2>5, RunsKept
    <2> QED BY <1>5, <2>1, <2>2, <2>3, <2>6, <2>7, <2>8, <2>9 DEF ManagerInv, Types
  <1> QED BY <1>6, <1>7 DEF Build

-----------------------------------------------------------------------------
(* Closing a session.                                                       *)

\* A closing task that comes to the lock, or leaves it with nothing to close.
LEMMA CloserMoves ==
  ASSUME ManagerInv, NEW s \in Sessions, NEW kind \in Closers, NEW p \in PlacesOf(kind),
         pc' = [pc EXCEPT ![<<kind, s>>] = p], p # "none", life[s] # "none",
         pc[<<kind, s>>] # "closing", kind = "closed" => life[s] = "closed",
         kind = "run" => At("run", s, "waiting") /\ p = "done" /\ ~cancelled[s],
         UNCHANGED <<life, by, cancelled, slots, worker, known, healthy, keep,
                     completed, inputs>>,
         CloseTypes', LockTypes', LockOK', OpenPeerIsActive',
         active' = active \/ \A r \in Sessions : ~At("offer", r, "failing")
  PROVE  ManagerInv'
  <1> DEFINE t == <<kind, s>>
  <1>1. t \in Tasks /\ t[1] = kind /\ pc[t] # "failing"
    BY TasksArePairs DEF ManagerInv, Types, PcTypes, PlacesOf, RunPlaces, Places, Closers
  <1>2. PcTypes' /\ pc'[t] = p /\ \A u \in Tasks : u # t => pc'[u] = pc[u]
    BY <1>1, PcMoves DEF ManagerInv, Types
  <1>3. /\ SlotTypes' /\ OneOwner' /\ WorkTypes' /\ FreeTypes'
        /\ life' = life /\ by' = by /\ cancelled' = cancelled /\ slot' = slot
        /\ UNCHANGED slots /\ known' = known /\ healthy' = healthy /\ open' = open
        /\ ready' = ready
    BY RunFacts DEF slots, worker, inputs, SlotTypes, OneOwner, WorkTypes, FreeTypes
  <1>4. /\ \A r \in Sessions : pc'[<<"offer", r>>] = pc[<<"offer", r>>]
        /\ \A r \in Sessions, k \in Closers : r # s => pc'[<<k, r>>] = pc[<<k, r>>]
        /\ \A r \in Sessions : /\ kind # "run" => pc'[<<"run", r>>] = pc[<<"run", r>>]
                               /\ kind # "closed" => pc'[<<"closed", r>>] = pc[<<"closed", r>>]
                               /\ r # s => pc'[<<"run", r>>] = pc[<<"run", r>>]
                               /\ r # s => pc'[<<"closed", r>>] = pc[<<"closed", r>>]
    BY <1>2, TasksArePairs DEF Closers
  <1>5. OffersOK'
    <2>1. /\ life' = life /\ by' = by /\ slot' = slot
          /\ active' = active \/ \A r \in Sessions : pc[<<"offer", r>>] # "failing"
      BY <1>3 DEF At
    <2>2. ASSUME NEW r \in Sessions
          PROVE  /\ pc'[<<"offer", r>>] \in {"none", "waiting", "resetting", "refused"} =>
                       life'[r] = "none"
                 /\ pc'[<<"offer", r>>] = "resetting" =>
                       /\ slot'[r] = "held"
                       /\ \A q \in Sessions : life'[q] \in {"none", "closed"}
                 /\ pc'[<<"offer", r>>] = "negotiating" => life'[r] = "open"
                 /\ pc'[<<"offer", r>>] = "failing" =>
                       /\ active' = r /\ life'[r] \in {"draining", "peer"}
                       /\ by'[r] = <<"offer", r>>
      BY <1>4, <2>1 DEF ManagerInv, OffersOK, At
    <2> QED BY <2>2 DEF OffersOK, At
  <1>6. LivesOK'
    <2>1. \A r \in Sessions : life[r] \in {"draining", "peer"} =>
             /\ by[r] \in Tasks /\ pc[by[r]] \in {"failing", "closing"}
             /\ by[r][1] = "offer" => by[r] = <<"offer", r>>
      BY DEF ManagerInv, LivesOK
    <2>2. \A r \in Sessions : life[r] \in {"draining", "peer"} => by[r] # t
      BY <1>1, <2>1
    <2>3. /\ \A r \in Sessions :
                /\ life[r] = "none" => \A k \in Closers : pc[<<k, r>>] = "none"
                /\ life[r] # "closed" => pc[<<"closed", r>>] = "none"
                /\ cancelled[r] => /\ life[r] = "draining" /\ by[r] # <<"run", r>>
                                   /\ pc[<<"run", r>>] \notin {"none", "done"}
          /\ \A q, r \in Sessions : life[q] \in Living /\ life[r] \in Living => q = r
      BY DEF ManagerInv, LivesOK, At
    <2>4. \A r \in Sessions : life'[r] \in {"draining", "peer"} =>
             /\ by'[r] \in Tasks /\ pc'[by'[r]] \in {"failing", "closing"}
             /\ by'[r][1] = "offer" => by'[r] = <<"offer", r>>
      <3>1. life' = life /\ by' = by /\ \A u \in Tasks : u # t => pc'[u] = pc[u]
        BY <1>2, <1>3
      <3> HIDE DEF t
      <3> QED BY ONLY <2>1, <2>2, <3>1
    <2>5. ASSUME NEW r \in Sessions
          PROVE  /\ life'[r] = "none" => \A k \in Closers : pc'[<<k, r>>] = "none"
                 /\ life'[r] # "closed" => pc'[<<"closed", r>>] = "none"
                 /\ cancelled'[r] => /\ life'[r] = "draining" /\ by'[r] # <<"run", r>>
                                     /\ pc'[<<"run", r>>] \notin {"none", "done"}
      <3>1. CASE r = s
        BY <1>3, <1>4, <2>3, <3>1
      <3>2. CASE r # s
        <4> HIDE DEF t
        <4> QED BY <1>3, <1>4, <2>3, <3>2
      <3> QED BY <3>1, <3>2
    <2>6. \A q, r \in Sessions : life'[q] \in Living /\ life'[r] \in Living => q = r
      BY <1>3, <2>3
    <2> QED BY <2>4, <2>5, <2>6 DEF LivesOK, At
  <1>7. SlotsOK'
    <2>1. \A r \in Sessions : pc'[<<"run", r>>] = "none" => pc[<<"run", r>>] = "none"
      BY <1>2, <1>4 DEF Closers
    <2> QED BY <1>3, <1>4, <2>1 DEF ManagerInv, SlotsOK, At
  <1>8. RunsOK'
    <2>1. ASSUME NEW r \in Sessions
          PROVE  /\ \/ pc'[<<"run", r>>] = pc[<<"run", r>>]
                    \/ /\ pc[<<"run", r>>] \in {"waiting", "closing"}
                       /\ pc'[<<"run", r>>] \in {"closing", "done"}
                 /\ pc[<<"run", r>>] \in Working => life'[r] \in {"open", "draining"}
      <3>1. CASE kind = "run" /\ r = s
        BY <1>2, <1>3, <3>1, RunFacts DEF At
      <3>2. CASE ~(kind = "run" /\ r = s)
        BY <1>3, <1>4, <3>2, RunFacts
      <3> QED BY <3>1, <3>2
    <2> QED BY <1>3, <2>1, RunsKept
  <1> QED BY <1>2, <1>3, <1>5, <1>6, <1>7, <1>8 DEF ManagerInv, Types

\* Something asks for a close.
LEMMA WakeStays ==
  ASSUME ManagerInv, NEW s \in Sessions, NEW kind \in Closers, Wake(kind, s)
  PROVE  ManagerInv'
  <1> DEFINE t == <<kind, s>>
  <1>1. /\ t \in Tasks /\ t[1] = kind /\ life[s] = "open"
        /\ kind \in {"event", "overload", "watch"} /\ pc[t] \in {"none", "alive"}
        /\ pc' = [pc EXCEPT ![t] = "waiting"] /\ lock' = Append(lock, t)
        /\ UNCHANGED <<keep, active, life, by, cancelled, completed, slots, worker, known,
                       healthy, inputs>>
    BY TasksArePairs DEF Wake, At, Goto, Queue
  <1>2. pc'[t] = "waiting" /\ \A u \in Tasks : u # t => pc'[u] = pc[u]
    BY <1>1 DEF ManagerInv, Types, PcTypes
  <1>3. LockTypes' /\ LockOK'
    <2>1. (\A u \in Tasks : u # t => Besides(u)) /\ ~TakesPart(pc[t])
      BY <1>1, <1>2 DEF Besides, TakesPart, InSection
    <2> QED BY <1>1, <1>2, <2>1, LockMoves DEF ManagerInv, Types
  <1>4. CloseTypes'
    <2>1. transport' \in [Sessions -> BOOLEAN]
      BY DEF Wake, ManagerInv, Types, CloseTypes
    <2> QED BY <1>1, <2>1 DEF ManagerInv, Types, CloseTypes
  <1>5. OpenPeerIsActive' /\ active' = active
    BY <1>1 DEF ManagerInv, LivesOK, OpenPeerIsActive
  <1>6. "waiting" \in PlacesOf(kind)
    BY <1>1 DEF PlacesOf, Places
  <1> QED BY <1>1, <1>3, <1>4, <1>5, <1>6, CloserMoves

\* Whoever has the lock to close a session begins to.
LEMMA StartClosingStays ==
  ASSUME ManagerInv, NEW s \in Sessions, NEW t \in Tasks, NEW place, StartClosing(s, t, place),
         Holds(t), life[s] = "open",
         \/ t[1] \in Closers /\ pc[t] = "waiting" /\ place = "closing" /\ active' = None
         \/ /\ t = <<"offer", s>> /\ pc[t] = "negotiating" /\ place = "failing"
            /\ active' = active,
         UNCHANGED <<slots, worker, known, healthy, keep, completed, pending>>,
         input' \in Inputs \cup {None}
  PROVE  ManagerInv'
  <1> DEFINE w == <<"watch", s>>
  <1>1. /\ w \in Tasks /\ w[1] = "watch" /\ place \in PlacesOf(t[1])
        /\ TakesPart(pc[t]) /\ place \in {"failing", "closing"}
        /\ TakesPart(place) /\ place \in InSection /\ ~TakesPart("done")
    BY TasksArePairs DEF TakesPart, InSection, PlacesOf, RunPlaces, Closers
  <1>2. /\ pc'[t] = place
        /\ w # t => pc'[w] = "done"
        /\ \A u \in Tasks : u # t /\ u # w => pc'[u] = pc[u]
        /\ pc' = [v \in Tasks |-> pc'[v]]
    BY <1>1 DEF StartClosing, ManagerInv, Types, PcTypes
  <1>3. PcTypes'
    <2>1. "done" \in PlacesOf("watch")
      BY DEF PlacesOf, Places
    <2>2. pc'[t] \in PlacesOf(t[1]) /\ pc'[w] \in PlacesOf(w[1])
      BY <1>1, <1>2, <2>1
    <2> HIDE DEF w
    <2> QED BY <1>1, <1>2, <2>2, PcMovesTwice DEF ManagerInv, Types
  <1>4. \A u \in Tasks : pc[u] \in InSection => u = t
    BY OneInSection DEF ManagerInv
  <1>5. LockTypes' /\ LockOK'
    <2>1. CASE w = t
      <3>1. lock' = lock /\ (\A u \in Tasks : u # t => Besides(u))
        BY <1>2, <2>1 DEF StartClosing, Besides
      <3> QED BY <1>1, <1>2, <3>1, LockMoves DEF ManagerInv, Types
    <2>2. CASE w # t
      <3>1. lock' = RemoveFirst(lock, w)
        BY <2>2 DEF StartClosing
      <3>2. /\ LockTypes' /\ \A u \in Tasks : InLock(u)' <=> InLock(u) /\ u # w
            /\ \A u \in Tasks : Holds(u) /\ u # w => Holds(u)'
        BY <1>1, <3>1, QueueRemove, LockIsQueue DEF ManagerInv, Types
      <3>3. \A u \in Tasks : TakesPart(pc'[u]) <=> TakesPart(pc[u]) /\ u # w
        BY <1>1, <1>2, <2>2
      <3>4. \A u \in Tasks : InLock(u)' <=> TakesPart(pc'[u])
        BY <3>2, <3>3 DEF ManagerInv, LockOK, TakesPart
      <3>5. \A u \in Tasks : pc'[u] \in InSection => u = t
        BY <1>1, <1>2, <1>4, <2>2 DEF TakesPart
      <3> QED BY <2>2, <3>2, <3>4, <3>5 DEF LockOK, TakesPart
    <2> QED BY <2>1, <2>2

  <1>6. /\ life'[s] = "draining" /\ \A r \in Sessions : r # s => life'[r] = life[r]
        /\ by'[s] = t /\ \A r \in Sessions : r # s => by'[r] = by[r]
        /\ cancelled'[s] = (<<"run", s>> # t /\ pc[<<"run", s>>] \notin {"none", "done"})
        /\ \A r \in Sessions : r # s => cancelled'[r] = cancelled[r]
        /\ active = s
    BY DEF StartClosing, ManagerInv, Types, CloseTypes, LivesOK, OpenPeerIsActive
  <1>7. CloseTypes'
    <2>1. life' \in [Sessions -> {"none", "open", "draining", "peer", "closed"}]
      BY DEF StartClosing, ManagerInv, Types, CloseTypes
    <2>2. by' \in [Sessions -> Tasks \cup {<<>>}]
      BY DEF StartClosing, ManagerInv, Types, CloseTypes
    <2>3. {transport', cancelled'} \subseteq [Sessions -> BOOLEAN]
      BY DEF StartClosing, ManagerInv, Types, CloseTypes
    <2>4. active' \in Sessions \cup {None}
      BY <1>6
    <2> QED BY <2>1, <2>2, <2>3, <2>4 DEF CloseTypes
  <1>8. /\ SlotTypes' /\ OneOwner' /\ WorkTypes' /\ FreeTypes' /\ slot' = slot
        /\ UNCHANGED slots /\ known' = known /\ healthy' = healthy /\ open' = open
        /\ ready' = ready
    BY RunFacts DEF slots, worker, SlotTypes, OneOwner, WorkTypes, FreeTypes
  <1>9. \A r \in Sessions : r # s => life[r] \notin Living /\ life'[r] \notin Living
    BY <1>6 DEF ManagerInv, LivesOK, Living
  <1>10. /\ \A r \in Sessions : <<"offer", r>> # w /\ <<"run", r>> # w /\ <<"closed", r>> # w
         /\ \A r \in Sessions, kind \in Closers : r # s => <<kind, r>> # w
         /\ \A r \in Sessions : /\ <<"offer", r>> \in Tasks /\ <<"run", r>> \in Tasks
                                /\ <<"closed", r>> \in Tasks
                                /\ \A kind \in Closers : <<kind, r>> \in Tasks
    BY TasksArePairs
  <1>11. OffersOK'
    <2>1. ASSUME NEW r \in Sessions, <<"offer", r>> # t
          PROVE  /\ pc'[<<"offer", r>>] = pc[<<"offer", r>>]
                 /\ pc[<<"offer", r>>] \notin InSection
      BY <1>2, <1>4, <1>10, <2>1
    <2>2. ASSUME NEW r \in Sessions
          PROVE  /\ pc'[<<"offer", r>>] \in {"none", "waiting", "resetting", "refused"} =>
                       life'[r] = "none"
                 /\ pc'[<<"offer", r>>] \notin {"resetting", "negotiating"}
                 /\ pc'[<<"offer", r>>] = "failing" =>
                       /\ active' = r /\ life'[r] \in {"draining", "peer"}
                       /\ by'[r] = <<"offer", r>>
      <3>1. CASE <<"offer", r>> = t
        <4>1. t[1] = "offer" /\ "offer" \notin Closers
          BY <3>1 DEF Closers
        <4>2. t = <<"offer", s>> /\ place = "failing" /\ active' = active
          BY <4>1
        <4>3. r = s
          BY <3>1, <4>2
        <4> QED BY <1>2, <1>6, <3>1, <4>2, <4>3
      <3>2. CASE <<"offer", r>> # t
        <4>1. pc'[<<"offer", r>>] = pc[<<"offer", r>>] /\ pc[<<"offer", r>>] \notin InSection
          BY <2>1, <3>2
        <4>2. pc[<<"offer", r>>] \in {"none", "waiting", "resetting", "refused"} =>
                 life[r] = "none"
          BY DEF ManagerInv, OffersOK
        <4> QED BY <1>6, <4>1, <4>2 DEF InSection
      <3> QED BY <3>1, <3>2
    <2> QED BY <2>2 DEF OffersOK, At
  <1>12. LivesOK'
    <2>1. OpenPeerIsActive'
      BY <1>6, <1>9 DEF OpenPeerIsActive, Living
    <2>2. /\ \A r \in Sessions :
                /\ life[r] = "none" => \A k \in Closers : pc[<<k, r>>] = "none"
                /\ life[r] # "closed" => pc[<<"closed", r>>] = "none"
                /\ cancelled[r] => life[r] = "draining"
      BY DEF ManagerInv, LivesOK, At
    <2>3. pc[t] # "none"
      BY <1>1 DEF TakesPart, InSection
    <2>4. ASSUME NEW r \in Sessions, life'[r] = "none", NEW k \in Closers
          PROVE  pc'[<<k, r>>] = "none"
      <3>1. r # s /\ pc[<<k, r>>] = "none"
        BY <1>6, <2>2, <2>4, ZenonT(30)
      <3>2. <<k, r>> # t /\ <<k, r>> # w /\ <<k, r>> \in Tasks
        BY <1>10, <2>3, <3>1
      <3> HIDE DEF w
      <3> QED BY <1>2, <3>1, <3>2
    <2>5. ASSUME NEW r \in Sessions, life'[r] # "closed" PROVE pc'[<<"closed", r>>] = "none"
      <3>1. pc[<<"closed", r>>] = "none"
        BY <1>6, <2>2, <2>5
      <3> HIDE DEF w
      <3> QED BY <1>2, <1>10, <2>3, <3>1
    <2>6. ASSUME NEW r \in Sessions, life'[r] \in {"draining", "peer"}
          PROVE  /\ by'[r] \in Tasks /\ pc'[by'[r]] \in {"failing", "closing"}
                 /\ by'[r][1] = "offer" => by'[r] = <<"offer", r>>
      <3>1. r = s
        BY <1>9, <2>6 DEF Living
      <3>2. t[1] = "offer" => t = <<"offer", s>>
        BY DEF Closers
      <3> QED BY <1>1, <1>2, <1>6, <3>1, <3>2
    <2>7. ASSUME NEW r \in Sessions, cancelled'[r]
          PROVE  /\ life'[r] = "draining" /\ by'[r] # <<"run", r>>
                 /\ pc'[<<"run", r>>] \notin {"none", "done"}
      <3>1. r = s
        <4>1. r # s => life[r] = "draining" /\ life[r] \notin Living
          BY <1>6, <1>9, <2>2, <2>7
        <4> QED BY <4>1 DEF Living
      <3>2. <<"run", s>> # t /\ pc[<<"run", s>>] \notin {"none", "done"}
        BY <1>6, <2>7, <3>1
      <3>3. pc'[<<"run", s>>] = pc[<<"run", s>>]
        BY <1>2, <1>10, <3>2
      <3> QED BY <1>6, <3>1, <3>2, <3>3
    <2>8. \A q, r \in Sessions : life'[q] \in Living /\ life'[r] \in Living => q = r
      BY <1>9
    <2> QED BY <2>1, <2>4, <2>5, <2>6, <2>7, <2>8 DEF LivesOK, At
  <1>13. SlotsOK'
    <2>1. ASSUME NEW r \in Sessions, r # s PROVE slot[r] # "held"
      <3>1. pc[<<"offer", r>>] # "resetting"
        <4>1. pc[<<"offer", r>>] = "resetting" => <<"offer", r>> = t
          BY <1>4, <1>10 DEF InSection
        <4> QED BY <2>1, <4>1 DEF Closers
      <3>2. life[r] \notin {"open", "draining"}
        BY <1>9, <2>1 DEF Living
      <3> QED BY <3>1, <3>2 DEF ManagerInv, SlotsOK, At
    <2>2. \A r \in Sessions : life'[r] # "open"
      BY <1>6, <1>9 DEF Living
    <2> QED BY <1>6, <1>8, <2>1, <2>2 DEF SlotsOK
  <1>14. RunsOK'
    <2>1. ASSUME NEW r \in Sessions
          PROVE  /\ \/ pc'[<<"run", r>>] = pc[<<"run", r>>]
                    \/ /\ pc[<<"run", r>>] \in {"waiting", "closing"}
                       /\ pc'[<<"run", r>>] \in {"closing", "done"}
                 /\ pc[<<"run", r>>] \in Working => life'[r] \in {"open", "draining"}
      <3>1. pc[<<"run", r>>] \in Working => life'[r] \in {"open", "draining"}
        <4>1. pc[<<"run", r>>] \in Working => life[r] \in {"open", "draining"}
          BY RunFacts
        <4> QED BY <1>6, <4>1
      <3>2. CASE <<"run", r>> = t
        BY <1>2, <3>1, <3>2
      <3>3. CASE <<"run", r>> # t
        BY <1>2, <1>10, <3>1, <3>3
      <3> QED BY <3>2, <3>3
    <2> QED BY <1>8, <2>1, RunsKept
  <1> QED BY <1>3, <1>5, <1>7, <1>8, <1>11, <1>12, <1>13, <1>14 DEF ManagerInv, Types

LEMMA FailNegotiationStays ==
  ASSUME ManagerInv, NEW s \in Sessions, FailNegotiation(s)
  PROVE  ManagerInv'
  <1>1. /\ <<"offer", s>> \in Tasks /\ pc[<<"offer", s>>] = "negotiating"
        /\ StartClosing(s, <<"offer", s>>, "failing") /\ active' = active
        /\ UNCHANGED <<slots, worker, known, healthy, keep, completed, pending>>
        /\ input' \in Inputs \cup {None}
    BY TasksArePairs DEF FailNegotiation, At
  <1>2. life[s] = "open" /\ Holds(<<"offer", s>>)
    BY <1>1 DEF ManagerInv, OffersOK, LockOK, InSection, At
  <1> QED BY <1>1, <1>2, StartClosingStays

LEMMA CloseStays ==
  ASSUME ManagerInv, NEW s \in Sessions, NEW kind \in Closers, Close(<<kind, s>>)
  PROVE  ManagerInv'
  <1> DEFINE t == <<kind, s>>
             target == IF kind = "overload" THEN s ELSE active
  <1>1. /\ t \in Tasks /\ t[1] = kind /\ Holds(t) /\ pc[t] = "waiting"
        /\ active' = IF active = target THEN None ELSE active
        /\ IF target # None /\ life[target] = "open"
           THEN StartClosing(target, t, "closing")
           ELSE /\ pc' = [pc EXCEPT ![t] = "done"] /\ Unlock
                /\ UNCHANGED <<life, by, transport, cancelled>>
        /\ UNCHANGED <<keep, completed, slots, worker, known, healthy, inputs>>
    BY TasksArePairs DEF Close
  <1>2. /\ \A r \in Sessions : life[r] = "open" => active = r
        /\ active \in Sessions \cup {None} /\ \A r \in Sessions : r # None
    BY NoneIsApart DEF ManagerInv, Types, CloseTypes, LivesOK, OpenPeerIsActive
  <1>3. CASE target # None /\ life[target] = "open"
    <2>1. target \in Sessions /\ active = target /\ active' = None
      BY <1>1, <1>2, <1>3
    <2>2. input' \in Inputs \cup {None} /\ pending' = pending
      BY <1>1, RunFacts DEF inputs, FreeTypes
    <2>3. StartClosing(target, t, "closing")
      BY <1>1, <1>3
    <2> HIDE DEF target
    <2> QED BY <1>1, <1>3, <2>1, <2>2, <2>3, StartClosingStays
  <1>4. CASE ~(target # None /\ life[target] = "open")
    <2>1. /\ pc' = [pc EXCEPT ![t] = "done"] /\ lock' = Tail(lock)
          /\ UNCHANGED <<life, by, transport, cancelled>>
      BY <1>1, <1>4 DEF Unlock
    <2>2. pc'[t] = "done" /\ \A u \in Tasks : u # t => pc'[u] = pc[u]
      BY <1>1, <2>1 DEF ManagerInv, Types, PcTypes
    <2>3. LockTypes' /\ LockOK'
      <3>1. (\A u \in Tasks : u # t => Besides(u)) /\ ~TakesPart("done")
        BY <2>2 DEF Besides, TakesPart, InSection
      <3> QED BY <1>1, <2>1, <2>2, <3>1, LockMoves DEF ManagerInv, Types
    <2>4. CloseTypes'
      BY <1>1, <2>1 DEF ManagerInv, Types, CloseTypes
    <2>5. OpenPeerIsActive'
      <3>1. ASSUME NEW r \in Sessions, life[r] = "open" PROVE active' = r
        <4>1. active = r /\ active # None
          BY <1>2, <3>1
        <4>2. active # target
          BY <1>4, <3>1, <4>1
        <4> QED BY <1>1, <4>1, <4>2
      <3> QED BY <2>1, <3>1 DEF OpenPeerIsActive
    <2>6. /\ \A r \in Sessions : ~At("offer", r, "failing")
          /\ \A r \in Sessions : ~cancelled[r]
      <3>1. \A r \in Sessions : life[r] \notin {"draining", "peer"}
        BY <1>1, NobodyCloses
      <3> QED BY <3>1, RunFacts DEF ManagerInv, OffersOK
    <2>7. life[s] # "none" /\ (kind = "closed" => life[s] = "closed")
      BY <1>1 DEF ManagerInv, LivesOK, At
    <2>8. "done" \in PlacesOf(kind) /\ pc[t] # "closing"
      BY <1>1 DEF PlacesOf, Places, RunPlaces, Closers
    <2>9. kind = "run" => At("run", s, "waiting")
      BY <1>1 DEF At
    <2> HIDE DEF target
    <2> QED BY <1>1, <2>1, <2>3, <2>4, <2>5, <2>6, <2>7, <2>8, <2>9, CloserMoves
  <1> QED BY <1>3, <1>4

\* The generation task is over or closes itself; the peer connection is next.
LEMMA DrainedStays ==
  ASSUME ManagerInv, NEW s \in Sessions, Drained(s)
  PROVE  ManagerInv'
  <1>1. /\ life[s] = "draining"
        /\ pc[<<"run", s>>] \in {"none", "done"} \/ by[s] = <<"run", s>>
        /\ life' = [life EXCEPT ![s] = "peer"]
        /\ IF pc[<<"run", s>>] \in {"none", "done"} THEN Release(s) ELSE UNCHANGED slots
        /\ UNCHANGED <<keep, lock, pc, active, by, transport, cancelled, completed,
                       worker, known, healthy, inputs>>
    BY DEF Drained
  <1>2. /\ life'[s] = "peer" /\ \A r \in Sessions : r # s => life'[r] = life[r]
        /\ CloseTypes'
    BY <1>1 DEF ManagerInv, Types, CloseTypes
  <1>3. \A r \in Sessions : r # s => life[r] \notin Living
    BY <1>1 DEF ManagerInv, LivesOK, Living
  <1>4. /\ by[s] \in Tasks /\ pc[by[s]] \in {"failing", "closing"}
        /\ by[s][1] = "offer" => by[s] = <<"offer", s>>
    BY <1>1 DEF ManagerInv, LivesOK
  <1>5. pc[<<"run", s>>] \in {"none", "done", "closing"}
    BY <1>1, <1>4, RunFacts DEF RunPlaces, Places
  <1>6. ~cancelled[s]
    BY <1>1 DEF ManagerInv, LivesOK
  <1>7. /\ SlotTypes' /\ OneOwner' /\ slot'[s] # "held"
        /\ \A r \in Sessions : r # s => slot'[r] = slot[r]
    <2>1. Release(s) \/ UNCHANGED slots
      BY <1>1
    <2>2. ~(pc[<<"run", s>>] \in {"none", "done"}) => slot'[s] # "held"
      BY <1>1, <1>5 DEF ManagerInv, RunsOK, slots
    <2> QED BY <1>1, <2>1, <2>2, RunFacts, SlotFacts
  <1>8. /\ LockTypes' /\ LockOK' /\ PcTypes' /\ WorkTypes' /\ FreeTypes'
        /\ known' = known /\ healthy' = healthy /\ open' = open /\ ready' = ready
    BY <1>1 DEF ManagerInv, Types, LockTypes, LockOK, InLock, Holds, PcTypes, WorkTypes,
                FreeTypes, worker, inputs
  <1>9. \A r \in Sessions : pc[<<"offer", r>>] # "resetting"
    BY <1>1 DEF ManagerInv, OffersOK, At
  <1>10. OffersOK'
    <2>1. ASSUME NEW r \in Sessions
          PROVE  /\ pc[<<"offer", r>>] \in {"none", "waiting", "resetting", "refused"} =>
                       life'[r] = "none"
                 /\ pc[<<"offer", r>>] = "negotiating" => life'[r] = "open"
                 /\ pc[<<"offer", r>>] = "failing" =>
                       /\ active = r /\ life'[r] \in {"draining", "peer"}
                       /\ by[r] = <<"offer", r>>
      <3>1. CASE r = s
        BY <1>1, <1>2, <3>1 DEF ManagerInv, OffersOK, At
      <3>2. CASE r # s
        BY <1>2, <3>2 DEF ManagerInv, OffersOK, At
      <3> QED BY <3>1, <3>2
    <2> QED BY <1>1, <1>9, <2>1 DEF OffersOK, At
  <1>11. LivesOK'
    <2>1. ASSUME NEW r \in Sessions
          PROVE  /\ life'[r] # "open"
                 /\ life'[r] = "none" => \A kind \in Closers : pc[<<kind, r>>] = "none"
                 /\ life'[r] # "closed" => pc[<<"closed", r>>] = "none"
                 /\ life'[r] \in {"draining", "peer"} =>
                       /\ by[r] \in Tasks /\ pc[by[r]] \in {"failing", "closing"}
                       /\ by[r][1] = "offer" => by[r] = <<"offer", r>>
                 /\ ~cancelled[r]
      <3>1. CASE r = s
        BY <1>1, <1>2, <1>4, <1>6, <3>1 DEF ManagerInv, LivesOK, At
      <3>2. CASE r # s
        <4>1. /\ life[r] = "none" => \A kind \in Closers : pc[<<kind, r>>] = "none"
              /\ life[r] # "closed" => pc[<<"closed", r>>] = "none"
              /\ cancelled[r] => life[r] = "draining"
          BY DEF ManagerInv, LivesOK, At
        <4> QED BY <1>2, <1>3, <3>2, <4>1 DEF Living
      <3> QED BY <3>1, <3>2
    <2>2. \A q, r \in Sessions : life'[q] \in Living /\ life'[r] \in Living => q = r
      BY <1>2, <1>3
    <2> QED BY <1>1, <2>1, <2>2 DEF LivesOK, At, OpenPeerIsActive
  <1>12. SlotsOK'
    <2>1. \A r \in Sessions : slot'[r] # "held" /\ life'[r] # "open"
      BY <1>2, <1>3, <1>7, <1>9 DEF ManagerInv, SlotsOK, At, Living
    <2> QED BY <1>7, <2>1 DEF SlotsOK
  <1>13. RunsOK'
    <2>1. \A r \in Sessions : pc[<<"run", r>>] \notin Working
      BY <1>3, <1>5, RunFacts, RunPlacesFacts DEF Living
    <2>2. \A r \in Sessions : slot'[r] # "held"
      BY <1>2, <1>3, <1>7, <1>9 DEF ManagerInv, SlotsOK, At, Living
    <2> QED BY <1>1, <1>8, <2>1, <2>2, RunsKept
  <1> QED BY <1>2, <1>7, <1>8, <1>10, <1>11, <1>12, <1>13 DEF ManagerInv, Types

\* peer_connection.close() has ended.
LEMMA PeerClosedStays ==
  ASSUME ManagerInv, NEW s \in Sessions, PeerClosed(s)
  PROVE  ManagerInv'
  <1> DEFINE t == by[s]
             c == <<"closed", s>>
             place == IF t[1] = "offer" THEN "failed" ELSE "done"
  <1>1. /\ life[s] = "peer"
        /\ life' = [life EXCEPT ![s] = "closed"]
        /\ active' = IF t[1] = "offer" THEN None ELSE active
        /\ UNCHANGED <<keep, by, transport, cancelled, completed, slots, worker, known,
                       healthy, inputs>>
    BY DEF PeerClosed
  <1>2. /\ t \in Tasks /\ pc[t] \in {"failing", "closing"} /\ Holds(t)
        /\ t[1] = "offer" => t = <<"offer", s>>
        /\ t[1] \in Closers \cup {"offer"}
    <2>1. /\ t \in Tasks /\ pc[t] \in {"failing", "closing"}
          /\ t[1] = "offer" => t = <<"offer", s>>
      BY <1>1 DEF ManagerInv, LivesOK
    <2> QED BY <2>1 DEF ManagerInv, LockOK, InSection, Tasks
  <1>3. c \in Tasks /\ c[1] = "closed" /\ pc[c] = "none" /\ c # t
    <2>1. pc[c] = "none"
      BY <1>1 DEF ManagerInv, LivesOK, At
    <2> QED BY <1>2, <2>1, TasksArePairs
  <1>4. PICK report \in BOOLEAN :
           /\ pc' = [pc EXCEPT ![t] = place, ![c] = IF report THEN "waiting" ELSE @]
           /\ lock' = IF report THEN Append(Tail(lock), c) ELSE Tail(lock)
    BY DEF PeerClosed
  <1> DEFINE report_place == IF report THEN "waiting" ELSE "none"
  <1>5. /\ pc'[t] = place /\ pc'[c] = report_place
        /\ \A u \in Tasks : u # t /\ u # c => pc'[u] = pc[u]
        /\ pc' = [v \in Tasks |-> pc'[v]]
    <2> HIDE DEF t, c, place
    <2> QED BY <1>2, <1>3, <1>4 DEF ManagerInv, Types, PcTypes
  <1>6. PcTypes'
    <2>1. place \in PlacesOf(t[1])
      BY <1>2 DEF PlacesOf, RunPlaces, Places, Closers
    <2>2. report_place \in PlacesOf(c[1])
      BY <1>3 DEF PlacesOf, Places
    <2> HIDE DEF t, c, place, report_place
    <2> QED BY <1>2, <1>3, <1>5, <2>1, <2>2, PcMovesTwice DEF ManagerInv, Types
  <1>7. \A u \in Tasks : pc[u] \in InSection => u = t
    BY <1>2, OneInSection DEF ManagerInv
  <1>8. LockTypes' /\ LockOK'
    <2>1. /\ IsQueue(Tail(lock))
          /\ \A u \in Tasks : Contains(Tail(lock), u) <=> InLock(u) /\ u # t
      BY <1>2, QueueLeave, LockIsQueue DEF ManagerInv, Types
    <2>2. /\ ~TakesPart(pc[c]) /\ ~TakesPart(place) /\ TakesPart("waiting") /\ ~TakesPart("none")
          /\ \A p \in InSection : TakesPart(p)
          /\ place \notin InSection /\ report_place \notin InSection
      BY <1>3 DEF TakesPart, InSection
    <2>3. \A u \in Tasks : InLock(u) <=> TakesPart(pc[u])
      BY DEF ManagerInv, LockOK, TakesPart
    <2>4. \A u \in Tasks : pc'[u] \notin InSection
      <3> HIDE DEF t, c, place, report_place
      <3> QED BY <1>5, <1>7, <2>2
    <2>5. LockTypes' /\ \A u \in Tasks : InLock(u)' <=> TakesPart(pc'[u])
      <3>1. CASE report
        <4>1. lock' = Append(Tail(lock), c) /\ ~Contains(Tail(lock), c)
          BY <1>3, <1>4, <2>1, <2>2, <2>3, <3>1
        <4>2. /\ IsQueue(lock')
              /\ \A u \in Tasks : Contains(lock', u) <=> Contains(Tail(lock), u) \/ u = c
          <5> HIDE DEF c
          <5> QED BY <1>3, <2>1, <4>1, QueueEnter
        <4>3. report_place = "waiting"
          BY <3>1
        <4> HIDE DEF t, c, place, report_place
        <4> QED BY <1>5, <2>1, <2>2, <2>3, <4>2, <4>3, LockIsQueue
      <3>2. CASE ~report
        <4>1. lock' = Tail(lock) /\ report_place = "none"
          BY <1>4, <3>2
        <4> HIDE DEF t, c, place, report_place
        <4> QED BY <1>5, <2>1, <2>2, <2>3, <4>1, LockIsQueue
      <3> QED BY <3>1, <3>2
    <2> QED BY <2>4, <2>5 DEF LockOK, TakesPart
  <1>9. /\ life'[s] = "closed" /\ \A r \in Sessions : r # s => life'[r] = life[r]
        /\ CloseTypes'
    BY <1>1 DEF ManagerInv, Types, CloseTypes
  <1>10. \A r \in Sessions : r # s => life[r] \notin Living
    BY <1>1 DEF ManagerInv, LivesOK, Living
  <1>11. /\ SlotTypes' /\ OneOwner' /\ WorkTypes' /\ FreeTypes' /\ slot' = slot
         /\ UNCHANGED slots /\ known' = known /\ healthy' = healthy /\ open' = open
         /\ ready' = ready /\ by' = by /\ cancelled' = cancelled
    BY <1>1, RunFacts DEF slots, worker, inputs, SlotTypes, OneOwner, WorkTypes, FreeTypes
  <1>12. OffersOK'
    <2>1. ASSUME NEW r \in Sessions
          PROVE  /\ pc'[<<"offer", r>>] \in {"none", "waiting", "resetting", "refused"} =>
                       life'[r] = "none"
                 /\ pc'[<<"offer", r>>] \notin InSection
      <3>1. <<"offer", r>> \in Tasks /\ <<"offer", r>> # c
        BY TasksArePairs
      <3>2. CASE <<"offer", r>> = t
        BY <1>5, <3>2 DEF InSection
      <3>3. CASE <<"offer", r>> # t
        <4>1. pc'[<<"offer", r>>] = pc[<<"offer", r>>] /\ pc[<<"offer", r>>] \notin InSection
          <5> HIDE DEF t, c
          <5> QED BY <1>5, <1>7, <3>1, <3>3
        <4>2. pc[<<"offer", r>>] \in {"none", "waiting", "resetting", "refused"} =>
                 life[r] = "none"
          BY DEF ManagerInv, OffersOK
        <4> QED BY <1>1, <1>9, <4>1, <4>2
      <3> QED BY <3>2, <3>3
    <2> QED BY <2>1 DEF OffersOK, At, InSection
  <1>13. LivesOK'
    <2>1. \A r \in Sessions : life'[r] \notin Living
      BY <1>9, <1>10 DEF Living
    <2>2. ASSUME NEW r \in Sessions, life'[r] # "closed"
          PROVE  /\ pc'[<<"closed", r>>] = "none"
                 /\ life'[r] = "none" => \A kind \in Closers : pc'[<<kind, r>>] = "none"
      <3>1. r # s /\ life[r] = life'[r]
        BY <1>9, <2>2
      <3>2. /\ pc[<<"closed", r>>] = "none"
            /\ life[r] = "none" => \A kind \in Closers : pc[<<kind, r>>] = "none"
        BY <2>2, <3>1 DEF ManagerInv, LivesOK, At
      <3>3. /\ <<"closed", r>> \in Tasks /\ <<"closed", r>> # c
            /\ \A kind \in Closers : <<kind, r>> \in Tasks /\ <<kind, r>> # c
        BY <3>1, TasksArePairs
      <3> HIDE DEF t, c
      <3> QED BY <1>2, <1>5, <3>1, <3>2, <3>3
    <2>3. \A r \in Sessions : ~cancelled[r]
      <3>1. \A r \in Sessions : cancelled[r] => life[r] = "draining"
        BY DEF ManagerInv, LivesOK
      <3> QED BY <1>1, <1>10, <3>1 DEF Living
    <2> QED BY <1>11, <2>1, <2>2, <2>3 DEF LivesOK, Living, At, OpenPeerIsActive
  <1>14. \A r \in Sessions : /\ slot[r] # "held" /\ life[r] \notin {"open", "draining"}
                             /\ life'[r] # "open"
    <2>1. \A r \in Sessions : pc[<<"offer", r>>] # "resetting"
      BY <1>1 DEF ManagerInv, OffersOK, At
    <2>2. \A r \in Sessions : life[r] \notin {"open", "draining"} /\ life'[r] # "open"
      BY <1>1, <1>9, <1>10 DEF Living
    <2> QED BY <2>1, <2>2 DEF ManagerInv, SlotsOK, At
  <1>15. SlotsOK'
    BY <1>11, <1>14 DEF SlotsOK
  <1>16. RunsOK'
    <2>1. ASSUME NEW r \in Sessions
          PROVE  /\ \/ pc'[<<"run", r>>] = pc[<<"run", r>>]
                    \/ /\ pc[<<"run", r>>] \in {"waiting", "closing"}
                       /\ pc'[<<"run", r>>] \in {"closing", "done"}
                 /\ pc[<<"run", r>>] \notin Working
      <3>1. <<"run", r>> \in Tasks /\ <<"run", r>> # c /\ pc[<<"run", r>>] # "failing"
        BY TasksArePairs, RunFacts DEF RunPlaces, Places
      <3>2. pc[<<"run", r>>] \notin Working
        BY <1>14, RunFacts
      <3>3. CASE <<"run", r>> = t
        BY <1>2, <1>5, <3>1, <3>2, <3>3
      <3>4. CASE <<"run", r>> # t
        <4> HIDE DEF t, c
        <4> QED BY <1>5, <3>1, <3>2, <3>4
      <3> QED BY <3>3, <3>4
    <2> QED BY <1>11, <2>1, RunsKept
  <1> QED BY <1>6, <1>8, <1>9, <1>11, <1>12, <1>13, <1>15, <1>16 DEF ManagerInv, Types

-----------------------------------------------------------------------------
(* The other thread, the other request, and the steps together.             *)

LEMMA WorkerRunsStays ==
  ASSUME ManagerInv, WorkerRuns
  PROVE  ManagerInv'
  <1> DEFINE call == Head(queue)[1]
             s == Head(queue)[2]
  <1>1. queue \in Seq(Calls \X Sessions) /\ queue # <<>>
    BY DEF WorkerRuns, ManagerInv, Types, WorkTypes
  <1>2. call \in Calls /\ s \in Sessions /\ Tail(queue) \in Seq(Calls \X Sessions)
    <2>1. Head(queue) \in Calls \X Sessions /\ Tail(queue) \in Seq(Calls \X Sessions)
      BY <1>1, HeadTailProperties
    <2> QED BY <2>1
  <1>3. PICK ok \in BOOLEAN :
           /\ ready' = [ready EXCEPT ![s] = <<call, ok>>]
           /\ open' = [open EXCEPT ![s] =
                         CASE call \in {"provider", "session"} /\ ok -> open[s] \cup {call}
                           [] call = "close" /\ ok -> open[s] \ known[s]
                           [] OTHER -> open[s]]
    BY DEF WorkerRuns
  <1>4. UNCHANGED <<keep, lock, pc, active, life, by, transport, cancelled, completed,
                    reserved, slot, known, healthy, pending, input>>
        /\ queue' = Tail(queue)
    BY DEF WorkerRuns, closing, slots, inputs
  <1> HIDE DEF call, s
  <1>5. WorkTypes'
    <2>1. ready' \in [Sessions -> {<<>>} \cup (Calls \X BOOLEAN)]
      BY <1>2, <1>3 DEF ManagerInv, Types, WorkTypes
    <2>2. open' \in [Sessions -> SUBSET {"provider", "session"}]
      <3>1. open \in [Sessions -> SUBSET {"provider", "session"}]
        BY DEF ManagerInv, Types, WorkTypes
      <3>2. (CASE call \in {"provider", "session"} /\ ok -> open[s] \cup {call}
               [] call = "close" /\ ok -> open[s] \ known[s]
               [] OTHER -> open[s]) \in SUBSET {"provider", "session"}
        BY <1>2, <3>1
      <3> QED BY <1>2, <1>3, <3>1, <3>2
    <2> QED BY <1>2, <1>4, <2>1, <2>2 DEF ManagerInv, Types, WorkTypes
  <1>6. /\ LockTypes' /\ PcTypes' /\ CloseTypes' /\ SlotTypes' /\ FreeTypes'
    BY <1>4 DEF ManagerInv, Types, LockTypes, PcTypes, CloseTypes, SlotTypes, FreeTypes
  <1>7. LockOK' /\ OffersOK'
    BY <1>4 DEF ManagerInv, LockOK, InLock, Holds, OffersOK, At
  <1>8. LivesOK' /\ SlotsOK'
    BY <1>4 DEF ManagerInv, LivesOK, SlotsOK, OneOwner, OpenPeerIsActive, At
  <1>9. RunsOK'
    <2>1. ASSUME NEW r \in Sessions, pc[<<"run", r>>] = "cleanup", ready'[r] = <<"close", TRUE>>
          PROVE  known[r] \cap open'[r] = {}
      <3>1. CASE r = s
        <4>1. <<call, ok>> = <<"close", TRUE>>
          BY <1>3, <2>1, <3>1 DEF ManagerInv, Types, WorkTypes
        <4>2. open'[s] = open[s] \ known[s]
          BY <1>2, <1>3, <4>1 DEF ManagerInv, Types, WorkTypes
        <4> QED BY <3>1, <4>2
      <3>2. CASE r # s
        BY <1>3, <2>1, <3>2, RunFacts DEF ManagerInv, Types, WorkTypes
      <3> QED BY <3>1, <3>2
    <2>2. \A r \in Sessions :
             /\ pc[<<"run", r>>] \in Working => life[r] \in {"open", "draining"}
             /\ pc[<<"run", r>>] \in Using \cup {"assembling"} => slot[r] = "held"
             /\ pc[<<"run", r>>] \in {"waiting", "closing"} => slot[r] # "held"
             /\ pc[<<"run", r>>] = "new" => slot[r] = "held" \/ ~reserved
             /\ pc[<<"run", r>>] = "idle" => ~reserved
             /\ pc[<<"run", r>>] \in Using \/ known[r] = {} \/ ~healthy
      BY DEF ManagerInv, RunsOK, At
    <2> QED BY <1>4, <2>1, <2>2 DEF RunsOK, At, Finished
  <1> QED BY <1>5, <1>6, <1>7, <1>8, <1>9 DEF ManagerInv, Types

\* Only the inputs change, or nothing.
LEMMA RestStays ==
  ASSUME ManagerInv,
         UNCHANGED <<keep, lock, pc, closing, cancelled, completed, slots, worker, known,
                     healthy>>,
         {pending', input'} \subseteq Inputs \cup {None}
  PROVE  ManagerInv'
  <1>1. UNCHANGED <<keep, lock, pc, active, life, by, transport, cancelled, completed,
                    reserved, slot, queue, ready, open, known, healthy>>
    BY DEF closing, slots, worker
  <1>2. Types'
    BY <1>1 DEF ManagerInv, Types, LockTypes, PcTypes, CloseTypes, SlotTypes, WorkTypes,
                FreeTypes
  <1>3. LockOK' /\ OffersOK'
    BY <1>1 DEF ManagerInv, LockOK, InLock, Holds, OffersOK, At
  <1>4. LivesOK' /\ SlotsOK'
    BY <1>1 DEF ManagerInv, LivesOK, SlotsOK, OneOwner, OpenPeerIsActive, At
  <1>5. RunsOK'
    BY <1>1, RunsKept, RunFacts DEF slots
  <1> QED BY <1>2, <1>3, <1>4, <1>5 DEF ManagerInv

LEMMA InitManager == Init => ManagerInv
  <1> SUFFICES ASSUME Init PROVE ManagerInv
    OBVIOUS
  <1>1. LockTypes
    BY EmptySeq DEF Init, LockTypes, IsQueue, IsInjective
  <1>2. PcTypes
    <2>1. \A kind \in Closers \cup {"offer"} : "none" \in PlacesOf(kind)
      BY DEF PlacesOf, RunPlaces, Places
    <2>2. \A t \in Tasks : t[1] \in Closers \cup {"offer"}
      BY DEF Tasks
    <2> QED BY <2>1, <2>2 DEF Init, PcTypes
  <1>3. CloseTypes /\ SlotTypes /\ FreeTypes
    BY DEF Init, CloseTypes, SlotTypes, FreeTypes
  <1>4. WorkTypes
    BY EmptySeq DEF Init, WorkTypes
  <1>5. LockOK
    <2>1. \A t \in Tasks : ~InLock(t)
      BY EmptySeq DEF Init, InLock, Contains
    <2> QED BY <2>1 DEF Init, LockOK, InSection
  <1>6. \A s \in Sessions, kind \in Closers \cup {"offer"} : pc[<<kind, s>>] = "none"
    BY DEF Init, Tasks
  <1>7. \A s \in Sessions : /\ life[s] = "none" /\ slot[s] = "none" /\ known[s] = {}
                            /\ ~cancelled[s] /\ ready[s] = <<>> /\ pc[<<"offer", s>>] = "none"
                            /\ pc[<<"run", s>>] = "none" /\ pc[<<"closed", s>>] = "none"
    BY <1>6 DEF Init, Closers
  <1>8. OffersOK /\ SlotsOK
    BY <1>7 DEF Init, OffersOK, SlotsOK, OneOwner, At
  <1>9. LivesOK
    BY <1>6, <1>7 DEF LivesOK, OpenPeerIsActive, At, Living
  <1>10. RunsOK
    BY <1>7 DEF RunsOK, Working, Using, At
  <1> QED BY <1>1, <1>2, <1>3, <1>4, <1>5, <1>8, <1>9, <1>10 DEF ManagerInv, Types

LEMMA NextManager == ManagerInv /\ [Next]_vars => ManagerInv'
  <1> SUFFICES ASSUME ManagerInv, [Next]_vars PROVE ManagerInv'
    OBVIOUS
  <1>1. CASE WorkerRuns
    BY <1>1, WorkerRunsStays
  <1>2. CASE SetInput
    <2>1. {pending', input'} \subseteq Inputs \cup {None}
      BY <1>2 DEF SetInput, ManagerInv, Types, FreeTypes
    <2> QED BY <1>2, <2>1, RestStays DEF SetInput
  <1>3. CASE Quiet \/ UNCHANGED vars
    <2>1. {pending', input'} \subseteq Inputs \cup {None}
      BY <1>3 DEF Quiet, vars, inputs, ManagerInv, Types, FreeTypes
    <2> QED BY <1>3, <2>1, RestStays DEF Quiet, vars
  <1>4. ASSUME NEW s \in Sessions, Handle(s) PROVE ManagerInv'
    BY <1>4, AdmitStays, BuildStays, OfferStays, FailNegotiationStays DEF Handle
  <1>5. ASSUME NEW s \in Sessions, CloseSteps(s) PROVE ManagerInv'
    BY <1>5, CloseStays, DrainedStays, PeerClosedStays DEF CloseSteps
  <1>6. ASSUME NEW s \in Sessions, Run(s) PROVE ManagerInv'
    BY <1>6, BeginRunStays, PrepareFailsStays, ProvidedStays, EndRunStays, GoesOnStays,
       CleanedStays, IdleStays, CancelStays DEF Run
  <1>7. ASSUME NEW s \in Sessions, Browser(s) PROVE ManagerInv'
    BY <1>7, OfferStays, ChannelStays, GoesOnStays, IdleStays, WakeStays DEF Browser
  <1> QED BY <1>1, <1>2, <1>3, <1>4, <1>5, <1>6, <1>7 DEF Next

LEMMA TypesOK == ManagerInv => TypeOK
  <1> SUFFICES ASSUME ManagerInv PROVE TypeOK
    OBVIOUS
  <1>1. \A s \in Sessions :
           /\ pc[<<"offer", s>>] \in {"none", "waiting", "resetting", "negotiating",
                                     "failing", "refused", "failed", "answered"}
           /\ pc[<<"run", s>>] \in RunPlaces
           /\ \A kind \in {"watch", "event", "closed", "overload"} :
                 pc[<<kind, s>>] \in Places \cup {"alive", "closing"}
    BY TasksArePairs DEF ManagerInv, Types, PcTypes, PlacesOf, Closers
  <1>2. lock \in Seq(Tasks) /\ IsInjective(lock)
    BY DEF ManagerInv, Types, LockTypes, IsQueue
  <1>3. /\ active \in Sessions \cup {None}
        /\ life \in [Sessions -> {"none", "open", "draining", "peer", "closed"}]
        /\ by \in [Sessions -> Tasks \cup {<<>>}]
        /\ {transport, cancelled, completed} \subseteq [Sessions -> BOOLEAN]
        /\ slot \in [Sessions -> {"none", "held", "lost"}]
        /\ keep \in KeepConnection /\ {reserved, healthy} \subseteq BOOLEAN
        /\ {known, open} \subseteq [Sessions -> SUBSET {"provider", "session"}]
        /\ {pending, input} \subseteq Inputs \cup {None}
    BY DEF ManagerInv, Types, CloseTypes, SlotTypes, WorkTypes, FreeTypes
  <1>4. queue \in Seq({"reset", "provider", "session", "step", "close"} \X Sessions)
    BY DEF ManagerInv, Types, WorkTypes, Calls
  <1> QED BY <1>1, <1>2, <1>3, <1>4 DEF TypeOK

LEMMA AccountedFor == ManagerInv => SlotAccounted
  <1> SUFFICES ASSUME ManagerInv PROVE SlotAccounted
    OBVIOUS
  <1> DEFINE holders == {s \in Sessions : slot[s] # "none"}
  <1>1. OneOwner /\ reserved \in BOOLEAN
    BY DEF ManagerInv, SlotsOK, Types, SlotTypes
  <1>2. Cardinality(holders) = IF reserved THEN 1 ELSE 0
    <2>1. CASE reserved
      <3>1. PICK s \in Sessions : slot[s] # "none"
        BY <1>1, <2>1 DEF OneOwner
      <3>2. holders = {s}
        BY <1>1, <3>1 DEF OneOwner
      <3> QED BY <2>1, <3>2, FS_Singleton
    <2>2. CASE ~reserved
      <3>1. holders = {}
        BY <1>1, <2>2 DEF OneOwner
      <3> QED BY <2>2, <3>1, FS_EmptySet
    <2> QED BY <2>1, <2>2
  <1>3. ASSUME NEW s \in Sessions, slot[s] = "held" PROVE HasReleaser(s)
    BY <1>3 DEF ManagerInv, SlotsOK, HasReleaser, At
  <1>4. \A s \in Sessions :
           pc[<<"run", s>>] \in {"idle", "new"} => slot[s] = "held" \/ ~reserved
    BY RunFacts
  <1> HIDE DEF holders
  <1>5. \A s \in holders : s \in Sessions
    BY DEF holders
  <1> QED BY <1>2, <1>3, <1>4, <1>5, TypesOK DEF SlotAccounted, holders

-----------------------------------------------------------------------------
\* The invariant above, of the tasks, the lock, the slot and the run of every
\* session, holds whatever browsers, timeouts and the worker thread do.
THEOREM ManagerInvHolds == Spec => []ManagerInv
  <1> QED BY InitManager, NextManager, PTL DEF Spec

\* For every set of sessions: a peer that nobody has begun to close is the
\* active session, so whoever closes or refuses next finds it
\* (create_answer, close_active_session).
THEOREM OpenPeerAlwaysActive == Spec => []OpenPeerIsActive
  <1>1. ManagerInv => OpenPeerIsActive
    BY DEF ManagerInv, LivesOK
  <1> QED BY <1>1, ManagerInvHolds, PTL

\* For every set of sessions: the admission policy is reserved exactly while
\* one session has a reservation, which some task of it will still release
\* (SessionReservation, ManagedWebRTCSession.close, the finally of the driver).
THEOREM SlotAlwaysAccounted == Spec => []SlotAccounted
  <1> QED BY AccountedFor, ManagerInvHolds, PTL

\* For every set of sessions: on a healthy host a session without a
\* reservation has left none of the model resources its driver knew of open
\* (shielded_session_cleanup, RuntimeHost.mark_unhealthy).
THEOREM AlwaysReleasedAfterCleanup == Spec => []ReleasedAfterCleanup
  <1>1. ManagerInv => ReleasedAfterCleanup
    <2> SUFFICES ASSUME ManagerInv, NEW s \in Sessions,
                        \/ healthy /\ slot[s] # "held"
                        \/ At("run", s, "cleanup") /\ Finished("close", s, TRUE)
                 PROVE  known[s] \cap open[s] = {}
      BY DEF ReleasedAfterCleanup
    <2> QED BY RunFacts DEF At, Finished
  <1> QED BY <1>1, ManagerInvHolds, PTL
=============================================================================
