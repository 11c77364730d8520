------------------------- MODULE WebRTCServerProofs -------------------------
(***************************************************************************)
(* Proofs about WebRTCServer, for any browsers, sessions and events: one   *)
(* invariant with a part about the peers and the offer lock, one about the *)
(* frames in the tracks and one about the buffered input, and the three    *)
(* safety properties that follow from them.                                *)
(***************************************************************************)
EXTENDS WebRTCServer, SequenceTheorems, FiniteSetTheorems, TLAPS

\* An offer that has come to the lock and has not given it back.
InLock(p) ==
    \/ place[p] \in {"waiting", "negotiating", "replacing"}
    \/ place[p] = "closing" /\ waiter[p] = p

(***************************************************************************)
(* Each offer is in the queue once, and only the first has gone on.        *)
(***************************************************************************)
LockOK ==
    /\ \A i, j \in 1 .. Len(lock) : lock[i] = lock[j] => i = j
    /\ \A i \in 1 .. Len(lock) : IF i = 1 THEN InLock(lock[i]) ELSE place[lock[i]] = "waiting"

HandsOver(a) == place[a] = "closing" /\ waiter[a] \in Peers

(***************************************************************************)
(* An offer that waits for a peer to close has the lock, and waits for one *)
(* peer only; when that is the old peer, the server has no peer meanwhile. *)
(***************************************************************************)
HandOverOK ==
    /\ \A a \in Peers : HandsOver(a) =>
         /\ Holds(waiter[a])
         /\ waiter[a] # a => place[waiter[a]] = "replacing" /\ active = None
    /\ \A a, b \in Peers : HandsOver(a) /\ HandsOver(b) => a = b

PeersOK ==
    /\ \A p \in Peers : place[p] = "up" <=> active = p
    /\ LockOK /\ HandOverOK

(***************************************************************************)
(* The server's track is its peer's, until _shutdown has taken it.         *)
(***************************************************************************)
Finishing == main \in {"cleaning", "stopped"}
TrackOK == track # active => track = None /\ Finishing

(***************************************************************************)
(* Frames are in the track of a connected peer only.  While open discards  *)
(* them, a track that is no longer the one it read is new.                 *)
(***************************************************************************)
BoxOK ==
    /\ \A p \in Peers : box[p] # {} => place[p] = "up"
    /\ main = "starting" /\ track # target /\ track # None => box[track] = {}
    /\ main = "opened" /\ track # None => box[track] = {}
    /\ main \in {"described", "clearing", "idle", "resizing", "writing"} /\ track # None
         => box[track] \subseteq {session}

MainOK ==
    /\ main \in {"starting", "opened"} => session < MaxSessions
    /\ main \in {"starting", "resizing", "writing"} => target \in Peers
    /\ main \in {"resizing", "writing"} => session > 0
    /\ epoch <= session

(***************************************************************************)
(* Of the events stamped before the session's clock was read there is one  *)
(* at most, in the buffer or in the loop's hands.                          *)
(***************************************************************************)
InputOK ==
    /\ Len(message) <= 1
    /\ main # "clearing" =>
         /\ \A i, j \in 1 .. Len(events) : events[i] # epoch /\ events[j] # epoch => i = j
         /\ message # <<>> /\ message[1] # epoch =>
              \A i \in 1 .. Len(events) : events[i] = epoch

(***************************************************************************)
(* close waits for the peer that _shutdown releases, and for no other.     *)
(***************************************************************************)
LeavesServer(a) == place[a] = "closing" /\ waiter[a] = Server
ReleaseOK ==
    /\ \A a \in Peers : LeavesServer(a) => main = "releasing"
    /\ \A a, b \in Peers : LeavesServer(a) /\ LeavesServer(b) => a = b

ServerInv == TypeOK /\ PeersOK /\ TrackOK /\ BoxOK /\ MainOK /\ ReleaseOK /\ InputOK

-----------------------------------------------------------------------------
(* The offer lock.                                                          *)

LEMMA LockFacts ==
  ASSUME TypeOK, lock # <<>>
  PROVE  /\ Len(lock) \in Nat \ {0} /\ Head(lock) = lock[1] /\ lock[1] \in Peers
         /\ Tail(lock) \in Seq(Peers) /\ Len(Tail(lock)) = Len(lock) - 1
         /\ \A i \in 1 .. Len(lock) - 1 : Tail(lock)[i] = lock[i + 1]
         /\ \A i \in 1 .. Len(lock) : lock[i] \in Peers
  BY EmptySeq, HeadTailProperties, ElementOfSeq DEF TypeOK

LEMMA HolderInLock ==
  ASSUME TypeOK, LockOK, NEW p \in Peers, Holds(p)
  PROVE  lock # <<>> /\ lock[1] = p /\ InLock(p)
  BY LockFacts DEF LockOK, Holds

(***************************************************************************)
(* The holder goes, and the offers behind it wait as before.               *)
(***************************************************************************)
LEMMA LockPasses ==
  ASSUME TypeOK, LockOK, lock # <<>>, lock' = Tail(lock),
         \A q \in Peers : place[q] = "waiting" /\ q # lock[1] => place'[q] = "waiting"
  PROVE  LockOK'
  <1>1. /\ Len(lock) \in Nat \ {0} /\ Len(lock') = Len(lock) - 1
        /\ \A i \in 1 .. Len(lock) - 1 : lock'[i] = lock[i + 1]
        /\ \A i \in 1 .. Len(lock) : lock[i] \in Peers
    BY LockFacts
  <1>2. ASSUME NEW i \in 1 .. Len(lock')
        PROVE  i + 1 \in 1 .. Len(lock) /\ lock'[i] = lock[i + 1] /\ place'[lock'[i]] = "waiting"
    <2>1. i + 1 \in 1 .. Len(lock) /\ i + 1 # 1 /\ 1 \in 1 .. Len(lock)
      BY <1>1
    <2>2. place[lock[i + 1]] = "waiting" /\ lock[i + 1] # lock[1]
      BY <2>1 DEF LockOK
    <2> QED
      BY <1>1, <2>1, <2>2
  <1>3. ASSUME NEW i \in 1 .. Len(lock'), NEW j \in 1 .. Len(lock'), lock'[i] = lock'[j]
        PROVE  i = j
    <2>1. i + 1 = j + 1
      BY <1>2, <1>3 DEF LockOK
    <2> QED
      BY <2>1
  <1> QED
    BY <1>2, <1>3 DEF LockOK, InLock

(***************************************************************************)
(* The holder keeps the lock.                                              *)
(***************************************************************************)
LEMMA LockStays ==
  ASSUME TypeOK, LockOK, lock' = lock, lock # <<>> => InLock(lock[1])',
         \A q \in Peers : place[q] = "waiting" /\ ~Holds(q) => place'[q] = "waiting"
  PROVE  LockOK'
  <1>1. CASE lock = <<>>
    BY <1>1 DEF LockOK
  <1>2. CASE lock # <<>>
    <2>1. /\ Len(lock) \in Nat \ {0} /\ Head(lock) = lock[1]
          /\ \A i \in 1 .. Len(lock) : lock[i] \in Peers
      BY <1>2, LockFacts
    <2>2. ASSUME NEW i \in 1 .. Len(lock), i # 1
          PROVE  place'[lock[i]] = "waiting"
      <3>1. place[lock[i]] = "waiting" /\ lock[i] # lock[1]
        BY <2>1, <2>2 DEF LockOK
      <3> QED
        BY <2>1, <3>1 DEF Holds
    <2>3. InLock(lock[1])'
      BY <1>2
    <2> QED
      BY <2>2, <2>3 DEF LockOK
  <1> QED
    BY <1>1, <1>2

(***************************************************************************)
(* An offer comes to the lock.                                             *)
(***************************************************************************)
LEMMA LockGrows ==
  ASSUME TypeOK, LockOK, NEW p \in Peers, place[p] = "none", lock' = Append(lock, p),
         place' = [place EXCEPT ![p] = "waiting"], waiter' = waiter
  PROVE  LockOK' /\ \A q \in Peers : Holds(q) => Holds(q)'
  <1>0. PICK n \in Nat : n = Len(lock)
    BY LenProperties DEF TypeOK
  <1>1. /\ n \in Nat /\ Len(lock') = n + 1 /\ lock'[n + 1] = p
        /\ \A i \in 1 .. n : lock'[i] = lock[i] /\ lock[i] \in Peers
    BY <1>0, AppendProperties, ElementOfSeq DEF TypeOK
  <1>2. \A i \in 1 .. n : lock[i] # p
    BY <1>0, <1>1 DEF LockOK, InLock
  <1>3. ASSUME NEW q \in Peers
        PROVE  q # p => place'[q] = place[q] /\ place'[p] = "waiting"
    BY DEF TypeOK
  <1>4. ASSUME NEW i \in 1 .. n + 1, NEW j \in 1 .. n + 1, lock'[i] = lock'[j]
        PROVE  i = j
    <2>1. CASE i = n + 1
      BY <1>1, <1>2, <1>4, <2>1
    <2>2. CASE j = n + 1
      BY <1>1, <1>2, <1>4, <2>2
    <2>3. CASE i \in 1 .. n /\ j \in 1 .. n
      BY <1>0, <1>1, <1>4, <2>3 DEF LockOK
    <2> QED
      BY <1>1, <2>1, <2>2, <2>3
  <1>5. ASSUME NEW i \in 1 .. n + 1
        PROVE  IF i = 1 THEN InLock(lock[i])' ELSE place'[lock'[i]] = "waiting"
    <2>1. CASE i = n + 1
      BY <1>1, <2>1 DEF InLock, TypeOK
    <2>2. CASE i \in 1 .. n
      <3>1. IF i = 1 THEN InLock(lock[i]) ELSE place[lock[i]] = "waiting"
        BY <1>0, <2>2 DEF LockOK
      <3>2. lock'[i] = lock[i] /\ lock[i] \in Peers /\ place'[lock[i]] = place[lock[i]]
        BY <1>1, <1>2, <1>3, <2>2
      <3> QED
        BY <3>1, <3>2 DEF InLock
    <2> QED
      BY <1>1, <2>1, <2>2
  <1>6. LockOK'
    BY <1>1, <1>4, <1>5 DEF LockOK
  <1>7. ASSUME NEW q \in Peers, Holds(q)
        PROVE  Holds(q)'
    <2>1. lock # <<>> /\ lock[1] = q
      BY <1>7, LockFacts DEF Holds
    <2>2. 1 \in 1 .. n /\ lock'[1] = q
      BY <1>0, <1>1, <2>1, LockFacts
    <2>3. lock' \in Seq(Peers) /\ lock' # <<>>
      BY <1>1, AppendProperties DEF TypeOK
    <2> QED
      BY <2>2, <2>3, HeadTailProperties DEF Holds
  <1> QED
    BY <1>6, <1>7

(***************************************************************************)
(* While the holder negotiates, no peer closes for an offer.               *)
(***************************************************************************)
LEMMA NobodyHandsOver ==
  ASSUME TypeOK, PeersOK, NEW p \in Peers, Holds(p), place[p] \in {"waiting", "negotiating"}
  PROVE  \A a \in Peers : ~HandsOver(a)
  <1> SUFFICES ASSUME NEW a \in Peers, HandsOver(a) PROVE FALSE
    OBVIOUS
  <1>1. waiter[a] = p
    BY DEF PeersOK, HandOverOK, Holds
  <1> QED
    BY <1>1 DEF PeersOK, HandOverOK, HandsOver

\* What the peers are made of.
PeerTypes ==
    /\ {active, track} \subseteq Peers \cup {None}
    /\ waiter \in [Peers -> Peers \cup {None, Server}]
    /\ lock \in Seq(Peers)
    /\ place \in [Peers -> {"none", "waiting", "refused", "negotiating", "replacing",
                         "up", "closing", "closed"}]

-----------------------------------------------------------------------------
(* The peers.                                                               *)

(***************************************************************************)
(* A connected peer goes, and no offer waits for it: it disconnected, or   *)
(* the server shuts down.                                                  *)
(***************************************************************************)
LEMMA ActiveReleased ==
  ASSUME TypeOK, PeersOK, active # None, NEW w \in {None, Server}, Release(active, w), Detach,
         lock' = lock
  PROVE  PeersOK' /\ PeerTypes'
  <1>1. active \in Peers /\ place[active] = "up" /\ None \notin Peers /\ Server \notin Peers
    BY NamesAreApart DEF TypeOK, PeersOK
  <1>2. PeerTypes'
    BY <1>1 DEF TypeOK, PeerTypes, Release, Detach
  <1>3. /\ active' = None /\ track' = None
        /\ place'[active] = "closing" /\ waiter'[active] = w
        /\ \A q \in Peers \ {active} : place'[q] = place[q] /\ waiter'[q] = waiter[q]
    BY <1>1 DEF TypeOK, Release, Detach
  <1>4. \A q \in Peers : place'[q] = "up" <=> active' = q
    BY <1>1, <1>3 DEF PeersOK
  <1>5. LockOK'
    <2>1. lock # <<>> => InLock(lock[1])'
      <3>1. ASSUME lock # <<>>
            PROVE  lock[1] \in Peers /\ InLock(lock[1]) /\ lock[1] # active
        BY <1>1, <3>1, LockFacts DEF PeersOK, LockOK, InLock
      <3> QED
        BY <1>3, <3>1 DEF InLock
    <2> QED
      BY <1>1, <1>3, <2>1, LockStays DEF PeersOK
  <1>6. HandOverOK'
    <2>1. ASSUME NEW a \in Peers, HandsOver(a)'
          PROVE  a # active /\ HandsOver(a) /\ waiter'[a] = waiter[a]
      BY <1>1, <1>3, <2>1 DEF HandsOver
    <2>2. ASSUME NEW a \in Peers, HandsOver(a)'
          PROVE  Holds(waiter[a])' /\ waiter[a] = a
      <3>1. HandsOver(a) /\ waiter[a] \in Peers
        BY <2>1, <2>2 DEF HandsOver
      <3> QED
        BY <1>1, <2>1, <2>2, <3>1 DEF PeersOK, HandOverOK, Holds
    <2> QED
      BY <2>1, <2>2 DEF PeersOK, HandOverOK, Holds
  <1> QED
    BY <1>2, <1>3, <1>4, <1>5, <1>6 DEF PeersOK

LEMMA OfferKeepsPeers ==
  ASSUME TypeOK, PeersOK, NEW p \in Peers, Offer(p)
  PROVE  PeersOK' /\ PeerTypes'
  <1>1. /\ place[p] = "none" /\ active' = active /\ track' = track /\ waiter' = waiter
    BY DEF Offer
  <1>2. CASE place' = [place EXCEPT ![p] = "refused"] /\ UNCHANGED lock
    <2>1. PeerTypes'
      BY <1>1, <1>2 DEF TypeOK, PeerTypes
    <2>2. place'[p] = "refused" /\ \A q \in Peers \ {p} : place'[q] = place[q]
      BY <1>2 DEF TypeOK
    <2>3. LockOK'
      <3>1. lock # <<>> => lock[1] \in Peers /\ InLock(lock[1]) /\ lock[1] # p
        BY <1>1, LockFacts DEF PeersOK, LockOK, InLock
      <3>2. lock # <<>> => InLock(lock[1])'
        BY <1>1, <1>2, <2>2, <3>1 DEF InLock
      <3> QED
        BY <1>1, <1>2, <2>2, <3>2, LockStays DEF PeersOK
    <2>4. HandOverOK'
      BY <1>1, <1>2, <2>2 DEF PeersOK, HandOverOK, HandsOver, Holds
    <2> QED
      BY <1>1, <2>1, <2>2, <2>3, <2>4 DEF PeersOK
  <1>3. CASE place' = [place EXCEPT ![p] = "waiting"] /\ lock' = Append(lock, p)
    <2>1. PeerTypes'
      BY <1>1, <1>3, AppendProperties DEF TypeOK, PeerTypes
    <2>2. place'[p] = "waiting" /\ \A q \in Peers \ {p} : place'[q] = place[q]
      BY <1>3 DEF TypeOK
    <2>3. LockOK' /\ \A q \in Peers : Holds(q) => Holds(q)'
      BY <1>1, <1>3, LockGrows DEF PeersOK
    <2>4. HandOverOK'
      <3>1. ASSUME NEW a \in Peers, HandsOver(a)'
            PROVE  /\ HandsOver(a) /\ waiter'[a] \in Peers
                   /\ waiter[a] # a => place'[waiter[a]] = "replacing" /\ active' = None
        BY <1>1, <2>2, <3>1 DEF HandsOver, PeersOK, HandOverOK
      <3> QED
        BY <1>1, <2>3, <3>1 DEF HandsOver, PeersOK, HandOverOK
    <2> QED
      BY <1>1, <2>1, <2>2, <2>3, <2>4 DEF PeersOK
  <1> QED
    BY <1>2, <1>3 DEF Offer

LEMMA NegotiateKeepsPeers ==
  ASSUME TypeOK, PeersOK, NEW p \in Peers, Negotiate(p)
  PROVE  PeersOK' /\ PeerTypes'
  <1>1. /\ Holds(p) /\ place[p] = "waiting"
        /\ active' = active /\ track' = track /\ waiter' = waiter
    BY DEF Negotiate
  <1>2. lock # <<>> /\ lock[1] = p /\ \A a \in Peers : ~HandsOver(a)
    BY <1>1, NobodyHandsOver, HolderInLock DEF PeersOK
  <1>3. PICK new \in {"refused", "negotiating"} :
          /\ place' = [place EXCEPT ![p] = new]
          /\ new = "refused" => lock' = Tail(lock)
          /\ new = "negotiating" => lock' = lock
    BY DEF Negotiate
  <1>4. place'[p] = new /\ \A q \in Peers \ {p} : place'[q] = place[q]
    BY <1>3 DEF TypeOK
  <1>5. PeerTypes'
    BY <1>1, <1>2, <1>3, LockFacts DEF TypeOK, PeerTypes
  <1>6. LockOK'
    <2>1. CASE new = "refused"
      BY <1>2, <1>3, <1>4, <2>1, LockPasses DEF PeersOK
    <2>2. CASE new = "negotiating"
      <3>1. InLock(lock[1])'
        BY <1>2, <1>4, <2>2, <1>3 DEF InLock
      <3> QED
        BY <1>1, <1>3, <1>4, <2>2, <3>1, LockStays DEF PeersOK
    <2> QED
      BY <2>1, <2>2
  <1>7. HandOverOK'
    BY <1>1, <1>2, <1>4 DEF HandOverOK, HandsOver
  <1> QED
    BY <1>1, <1>4, <1>5, <1>6, <1>7 DEF PeersOK

LEMMA NegotiatedKeepsPeers ==
  ASSUME TypeOK, PeersOK, NEW p \in Peers, Negotiated(p)
  PROVE  PeersOK' /\ PeerTypes'
  <1>1. Holds(p) /\ place[p] = "negotiating" /\ None \notin Peers
    BY NamesAreApart DEF Negotiated
  <1>2. lock # <<>> /\ lock[1] = p /\ \A a \in Peers : ~HandsOver(a)
    BY <1>1, NobodyHandsOver, HolderInLock DEF PeersOK
  <1>3. CASE Release(p, p) /\ UNCHANGED <<lock, active, track>>
    <2>1. PeerTypes'
      BY <1>3 DEF TypeOK, PeerTypes, Release
    <2>2. /\ place'[p] = "closing" /\ waiter'[p] = p
          /\ \A q \in Peers \ {p} : place'[q] = place[q] /\ waiter'[q] = waiter[q]
      BY <1>3 DEF TypeOK, Release
    <2>3. LockOK'
      <3>1. InLock(lock[1])'
        BY <1>2, <1>3, <2>2 DEF InLock
      <3> QED
        BY <1>1, <1>3, <2>2, <3>1, LockStays DEF PeersOK
    <2>4. \A a \in Peers : HandsOver(a)' => a = p
      BY <1>2, <2>2 DEF HandsOver
    <2>5. HandOverOK'
      BY <1>1, <1>3, <2>2, <2>4 DEF HandOverOK, Holds
    <2> QED
      BY <1>1, <1>3, <2>1, <2>2, <2>3, <2>5 DEF PeersOK
  <1>4. CASE /\ active = None /\ Install(p)
             /\ place' = [place EXCEPT ![p] = "up"] /\ UNCHANGED <<waiter, box>>
    <2>1. PeerTypes'
      BY <1>2, <1>4, LockFacts DEF TypeOK, PeerTypes, Install
    <2>2. place'[p] = "up" /\ \A q \in Peers \ {p} : place'[q] = place[q]
      BY <1>4 DEF TypeOK
    <2>3. LockOK'
      BY <1>2, <1>4, <2>2, LockPasses DEF PeersOK, Install
    <2>4. HandOverOK'
      BY <1>2, <1>4, <2>2 DEF HandOverOK, HandsOver
    <2> QED
      BY <1>1, <1>4, <2>1, <2>2, <2>3, <2>4 DEF PeersOK, Install
  <1>5. CASE /\ active # None
             /\ place' = [place EXCEPT ![active] = "closing", ![p] = "replacing"]
             /\ waiter' = [waiter EXCEPT ![active] = p]
             /\ box' = [box EXCEPT ![active] = {}]
             /\ Detach /\ UNCHANGED lock
    <2>0. active \in Peers /\ active # p /\ place[active] = "up"
      BY <1>1, <1>5 DEF TypeOK, PeersOK
    <2>1. PeerTypes'
      BY <1>5, <2>0 DEF TypeOK, PeerTypes, Detach
    <2>2. /\ place'[p] = "replacing" /\ place'[active] = "closing" /\ waiter'[active] = p
          /\ \A q \in Peers \ {p, active} : place'[q] = place[q]
          /\ \A q \in Peers \ {active} : waiter'[q] = waiter[q]
          /\ active' = None /\ track' = None
      BY <1>5, <2>0 DEF TypeOK, Detach
    <2>3. LockOK'
      <3>1. InLock(lock[1])'
        BY <1>2, <1>5, <2>2 DEF InLock
      <3>2. \A q \in Peers : place[q] = "waiting" /\ ~Holds(q) => place'[q] = "waiting"
        BY <1>1, <2>0, <2>2
      <3> QED
        BY <1>5, <3>1, <3>2, LockStays DEF PeersOK
    <2>4. \A a \in Peers : HandsOver(a)' => a = active
      BY <1>2, <2>2 DEF HandsOver
    <2>5. HandOverOK'
      BY <1>1, <1>5, <2>0, <2>2, <2>4 DEF HandOverOK, Holds
    <2>6. \A q \in Peers : place'[q] = "up" <=> active' = q
      BY <1>1, <2>0, <2>2 DEF PeersOK
    <2> QED
      BY <2>1, <2>2, <2>3, <2>5, <2>6 DEF PeersOK
  <1> QED
    BY <1>3, <1>4, <1>5 DEF Negotiated

LEMMA PeerClosesKeepsPeers ==
  ASSUME TypeOK, PeersOK, NEW p \in Peers, PeerCloses(p)
  PROVE  PeersOK' /\ PeerTypes'
  <1>1. PICK w \in Peers \cup {None, Server} : w = waiter[p]
    BY DEF TypeOK
  <1>2. place[p] = "closing" /\ None \notin Peers /\ Server \notin Peers /\ active # p
    BY NamesAreApart DEF PeerCloses, PeersOK
  <1>3. ASSUME w \in Peers
        PROVE  /\ Holds(w) /\ lock # <<>> /\ lock[1] = w
               /\ \A a \in Peers : HandsOver(a) => a = p
               /\ w # p => place[w] = "replacing" /\ active = None
    <2>1. HandsOver(p)
      BY <1>1, <1>2, <1>3 DEF HandsOver
    <2>2. Holds(w) /\ w # p => place[w] = "replacing" /\ active = None
      BY <1>1, <2>1 DEF PeersOK, HandOverOK
    <2>3. \A a \in Peers : HandsOver(a) => a = p
      BY <2>1 DEF PeersOK, HandOverOK
    <2>4. Holds(w)
      BY <1>1, <2>1 DEF PeersOK, HandOverOK
    <2> QED
      BY <1>3, <2>2, <2>3, <2>4, HolderInLock DEF PeersOK
  <1>4. CASE /\ w \in {None, Server, p}
             /\ place' = [place EXCEPT ![p] = "closed"]
             /\ lock' = IF w = p THEN Tail(lock) ELSE lock
             /\ track' \in {track, None} /\ UNCHANGED <<active, waiter>>
    <2>1. place'[p] = "closed" /\ \A q \in Peers \ {p} : place'[q] = place[q]
      BY <1>4 DEF TypeOK
    <2>2. PeerTypes'
      BY <1>3, <1>4, LockFacts DEF TypeOK, PeerTypes
    <2>3. LockOK'
      <3>1. CASE w = p
        BY <1>3, <1>4, <2>1, <3>1, LockPasses, <1>2 DEF PeersOK
      <3>2. CASE w # p
        <4>1. lock # <<>> => lock[1] \in Peers /\ InLock(lock[1]) /\ lock[1] # p
          BY <1>1, <1>2, <3>2, LockFacts DEF PeersOK, LockOK, InLock
        <4>2. lock # <<>> => InLock(lock[1])'
          BY <1>4, <2>1, <3>2, <4>1 DEF InLock
        <4> QED
          BY <1>2, <1>4, <2>1, <3>2, <4>2, LockStays DEF PeersOK
      <3> QED
        BY <3>1, <3>2
    <2>4. HandOverOK'
      <3>1. CASE w = p
        <4>1. \A a \in Peers : ~HandsOver(a)'
          BY <1>3, <1>4, <2>1, <3>1 DEF HandsOver
        <4> QED
          BY <4>1 DEF HandOverOK
      <3>2. CASE w # p
        BY <1>2, <1>4, <2>1, <3>2 DEF PeersOK, HandOverOK, HandsOver, Holds
      <3> QED
        BY <3>1, <3>2
    <2> QED
      BY <1>2, <1>4, <2>1, <2>2, <2>3, <2>4 DEF PeersOK
  <1>5. CASE /\ w \in Peers \ {p} /\ Install(w)
             /\ place' = [place EXCEPT ![p] = "closed", ![w] = "up"]
             /\ UNCHANGED waiter
    <2>1. /\ place'[p] = "closed" /\ place'[w] = "up"
          /\ \A q \in Peers \ {p, w} : place'[q] = place[q]
      BY <1>5 DEF TypeOK
    <2>2. PeerTypes'
      BY <1>3, <1>5, LockFacts DEF TypeOK, PeerTypes, Install
    <2>3. LockOK'
      BY <1>2, <1>3, <1>5, <2>1, LockPasses DEF PeersOK, Install
    <2>4. \A a \in Peers : ~HandsOver(a)'
      BY <1>3, <1>5, <2>1 DEF HandsOver
    <2>5. HandOverOK'
      BY <2>4 DEF HandOverOK
    <2>6. \A q \in Peers : place'[q] = "up" <=> active' = q
      BY <1>2, <1>3, <1>5, <2>1 DEF PeersOK, Install
    <2> QED
      BY <1>5, <2>2, <2>3, <2>5, <2>6 DEF PeersOK, Install
  <1>6. CASE /\ w \in Peers \ {p}
             /\ place' = [place EXCEPT ![p] = "closed", ![w] = "closing"]
             /\ waiter' = [waiter EXCEPT ![w] = w]
             /\ UNCHANGED <<lock, active, track>>
    <2>1. /\ place'[p] = "closed" /\ place'[w] = "closing" /\ waiter'[w] = w
          /\ \A q \in Peers \ {p, w} : place'[q] = place[q]
          /\ \A q \in Peers \ {w} : waiter'[q] = waiter[q]
      BY <1>6 DEF TypeOK
    <2>2. PeerTypes'
      BY <1>6 DEF TypeOK, PeerTypes
    <2>3. LockOK'
      <3>1. InLock(lock[1])'
        BY <1>3, <1>6, <2>1 DEF InLock
      <3>2. \A q \in Peers : place[q] = "waiting" /\ ~Holds(q) => place'[q] = "waiting"
        BY <1>2, <1>3, <1>6, <2>1
      <3> QED
        BY <1>6, <3>1, <3>2, LockStays DEF PeersOK
    <2>4. \A a \in Peers : HandsOver(a)' => a = w
      BY <1>3, <1>6, <2>1 DEF HandsOver
    <2>5. HandOverOK'
      BY <1>3, <1>6, <2>1, <2>4 DEF HandOverOK, Holds
    <2>6. \A q \in Peers : place'[q] = "up" <=> active' = q
      BY <1>2, <1>3, <1>6, <2>1 DEF PeersOK
    <2> QED
      BY <1>6, <2>2, <2>3, <2>5, <2>6 DEF PeersOK
  <1> QED
    BY <1>1, <1>4, <1>5, <1>6 DEF PeerCloses, TakeTrack

LEMMA PeersStep ==
  ASSUME TypeOK, PeersOK, [Next]_vars PROVE PeersOK' /\ PeerTypes'
  <1>1. CASE UNCHANGED peers
    BY <1>1 DEF peers, TypeOK, PeerTypes, PeersOK, LockOK, HandOverOK, HandsOver, Holds, InLock
  <1>2. CASE Disconnect
    BY <1>2, ActiveReleased DEF Disconnect
  <1>3. CASE Shutdown
    <2>1. CASE active = None
      <3>1. UNCHANGED <<lock, place, active, waiter>> /\ track' = None
        BY <1>3, <2>1 DEF Shutdown, TakeTrack
      <3> QED
        BY <3>1 DEF TypeOK, PeerTypes, PeersOK, LockOK, HandOverOK, HandsOver, Holds, InLock
    <2>2. CASE active # None
      BY <1>3, <2>2, ActiveReleased DEF Shutdown
    <2> QED
      BY <2>1, <2>2
  <1>4. ASSUME NEW p \in Peers, Offer(p) \/ Negotiate(p) \/ Negotiated(p) \/ PeerCloses(p)
        PROVE  PeersOK' /\ PeerTypes'
    BY <1>4, OfferKeepsPeers, NegotiateKeepsPeers, NegotiatedKeepsPeers, PeerClosesKeepsPeers
  <1>5. CASE UNCHANGED vars
    BY <1>1, <1>5 DEF vars, peers
  <1>6. CASE \/ Describe \/ ReadClock \/ ClearInput \/ Enqueue \/ Drained \/ StartSession
             \/ AppendEvent \/ Stop \/ Open \/ Resize \/ TimesOut \/ Poll \/ Write \/ Send
             \/ Message \/ Close
    <2>1. UNCHANGED peers
      BY <1>6 DEF Describe, ReadClock, ClearInput, Enqueue, Drained, StartSession, AppendEvent,
                  Stop, Open, Resize, TimesOut, Poll, Write, Send, Message, Close
    <2> QED
      BY <1>1, <2>1
  <1> QED
    BY <1>2, <1>3, <1>4, <1>5, <1>6 DEF Next, Main, Loop

LEMMA TrackStep ==
  ASSUME TrackOK, [Next]_vars PROVE TrackOK'
  <1> USE DEF TrackOK, Finishing
  <1>1. CASE UNCHANGED <<active, track>> /\ (Finishing => Finishing')
    BY <1>1
  <1>2. CASE track' = active' \/ (track' = None /\ Finishing')
    BY <1>2
  <1>3. CASE \/ Describe \/ ReadClock \/ ClearInput \/ Enqueue \/ Drained \/ StartSession
             \/ AppendEvent \/ Stop \/ Open \/ Resize \/ TimesOut \/ Poll \/ Write \/ Send
             \/ Message \/ Close \/ UNCHANGED vars
    BY <1>1, <1>3
       DEF Describe, ReadClock, ClearInput, Enqueue, Drained, StartSession, AppendEvent,
           Stop, Open, Resize, TimesOut, Poll, Write, Send, Message, Close, UseTrack,
           peers, vars
  <1>4. ASSUME NEW p \in Peers, Offer(p) \/ Negotiate(p)
        PROVE  TrackOK'
    BY <1>1, <1>4 DEF Offer, Negotiate
  <1>5. ASSUME NEW p \in Peers, Negotiated(p)
        PROVE  TrackOK'
    BY <1>1, <1>2, <1>5 DEF Negotiated, Install, Detach
  <1>6. ASSUME NEW p \in Peers, PeerCloses(p)
        PROVE  TrackOK'
    BY <1>1, <1>2, <1>6 DEF PeerCloses, Install, TakeTrack
  <1>7. CASE Disconnect
    BY <1>2, <1>7 DEF Disconnect, Detach
  <1>8. CASE Shutdown
    BY <1>2, <1>8 DEF Shutdown, Detach, TakeTrack
  <1> QED
    BY <1>3, <1>4, <1>5, <1>6, <1>7, <1>8 DEF Next, Main, Loop

-----------------------------------------------------------------------------
(* The run's thread and the types.                                          *)

LEMMA MainStep ==
  ASSUME ServerInv, [Next]_vars
  PROVE  /\ MainOK' /\ closed' \in BOOLEAN
         /\ session' \in 0 .. MaxSessions /\ epoch' \in 0 .. MaxSessions
         /\ main' \in {"idle", "starting", "resizing", "writing", "failed", "opened",
                       "described", "clearing", "draining", "shutting", "releasing",
                       "cleaning", "stopped"}
         /\ target' \in Peers \cup {None}
  <1> USE BoundsAreNat DEF ServerInv, TypeOK, MainOK, input, peers
  <1>1. CASE Open \/ Resize \/ Write
    BY <1>1 DEF Open, Resize, Write, UseTrack
  <1>2. CASE StartSession \/ TimesOut \/ Enqueue
    BY <1>2 DEF StartSession, TimesOut, Enqueue
  <1>3. CASE Describe
    BY <1>3 DEF Describe
  <1>4. CASE ReadClock
    BY <1>4 DEF ReadClock
  <1>5. CASE ClearInput \/ Poll \/ Send \/ Message \/ AppendEvent
    BY <1>5 DEF ClearInput, Poll, Send, Message, AppendEvent
  <1>6. CASE Disconnect
    BY <1>6 DEF Disconnect
  <1>7. ASSUME NEW p \in Peers, Offer(p) \/ Negotiate(p) \/ Negotiated(p)
        PROVE  UNCHANGED <<closed, session, main, target, epoch>>
    BY <1>7 DEF Offer, Negotiate, Negotiated
  <1>8. ASSUME NEW p \in Peers, PeerCloses(p)
        PROVE  /\ UNCHANGED <<closed, session, target, epoch>>
               /\ main' \in {main, "cleaning"}
    BY <1>8 DEF PeerCloses
  <1>9. CASE Close \/ Drained \/ Stop
    BY <1>9 DEF Close, Drained, Stop
  <1>10. CASE Shutdown
    BY <1>10 DEF Shutdown
  <1>11. CASE UNCHANGED vars
    BY <1>11 DEF vars
  <1> QED
    BY <1>1, <1>2, <1>3, <1>4, <1>5, <1>6, <1>7, <1>8, <1>9, <1>10, <1>11
       DEF Next, Main, Loop

LEMMA ConcatOne ==
  ASSUME NEW S, NEW s \in Seq(S), NEW e \in S
  PROVE  /\ s \o <<e>> \in Seq(S) /\ Len(s \o <<e>>) = Len(s) + 1
         /\ (s \o <<e>>)[Len(s) + 1] = e
         /\ \A i \in 1 .. Len(s) : (s \o <<e>>)[i] = s[i]
  <1>1. <<e>> \in Seq(S) /\ Len(<<e>>) = 1 /\ <<e>>[1] = e
    OBVIOUS
  <1>2. Len(s) \in Nat
    BY LenProperties
  <1> QED
    BY <1>1, <1>2, ConcatProperties

(***************************************************************************)
(* What the loop has in hand is one event.                                 *)
(***************************************************************************)
LEMMA OneMessage ==
  ASSUME TypeOK, InputOK, message # <<>>
  PROVE  message[1] \in 0 .. epoch /\ message = <<message[1]>>
  <1>1. message \in Seq(0 .. epoch) /\ Len(message) = 1
    <2>1. message \in Seq(0 .. epoch)
      BY DEF TypeOK
    <2>2. Len(message) \in Nat \ {0}
      <3>1. \A s \in Seq(0 .. epoch) : s # <<>> => Len(s) \in Nat \ {0}
        BY EmptySeq, Zenon
      <3> QED
        BY <2>1, <3>1
    <2>3. Len(message) <= 1
      BY DEF InputOK
    <2>4. \A n : n \in Nat \ {0} /\ n <= 1 => n = 1
      OBVIOUS
    <2> QED
      BY <2>1, <2>2, <2>3, <2>4, Zenon
  <1>2. message[1] \in 0 .. epoch
    <2>1. 1 \in 1 .. Len(message)
      BY <1>1
    <2> QED
      BY <1>1, <2>1, ElementOfSeq
  <1>3. <<message[1]>> \in Seq(0 .. epoch) /\ Len(<<message[1]>>) = 1
    BY <1>2
  <1> QED
    BY <1>1, <1>2, <1>3, SeqEqual

-----------------------------------------------------------------------------
(* The input.                                                               *)

\* The steps that leave what is buffered and the clock alone.
Silent == UNCHANGED input /\ (main' = "clearing" <=> main = "clearing")

LEMMA InputStep ==
  ASSUME ServerInv, [Next]_vars
  PROVE  InputOK' /\ {message', events'} \subseteq Seq(0 .. epoch')
  <1> USE DEF ServerInv
  <1>1. CASE Silent
    BY <1>1 DEF Silent, input, InputOK, TypeOK
  <1>2. CASE ReadClock
    <2>1. epoch' = session /\ main' = "clearing" /\ message' = message /\ events' = events
      BY <1>2 DEF ReadClock
    <2>2. 0 .. epoch \subseteq 0 .. epoch'
      BY <2>1, BoundsAreNat DEF TypeOK, MainOK
    <2>3. {message, events} \subseteq Seq(0 .. epoch')
      BY <2>2, SeqMonotonic DEF TypeOK
    <2> QED
      BY <2>1, <2>3 DEF InputOK
  <1>3. CASE ClearInput \/ Poll
    <2>1. epoch' = epoch /\ events' = <<>> /\ message' = message /\ Len(events') = 0
      BY <1>3 DEF ClearInput, Poll
    <2> QED
      BY <2>1, EmptySeq DEF InputOK, TypeOK
  <1>4. CASE Message
    <2>1. /\ epoch' = epoch /\ events' = events /\ main' = main
          /\ message' = <<epoch>> /\ Len(message') = 1 /\ message'[1] = epoch
      BY <1>4 DEF Message
    <2>2. message' \in Seq(0 .. epoch)
      <3>1. epoch \in 0 .. epoch
        BY DEF TypeOK
      <3> QED
        BY <2>1, <3>1
    <2> QED
      BY <2>1, <2>2 DEF InputOK, TypeOK
  <1>5. CASE AppendEvent
    <2>1. /\ epoch' = epoch /\ main' = main /\ message # <<>>
          /\ events' = events \o message /\ message' = <<>> /\ Len(message') = 0
      BY <1>5 DEF AppendEvent
    <2>2. PICK e \in 0 .. epoch : e = message[1] /\ message = <<e>>
      BY <2>1, OneMessage
    <2>3. PICK n \in Nat : n = Len(events)
      BY LenProperties DEF TypeOK
    <2>4. /\ events' \in Seq(0 .. epoch) /\ Len(events') = n + 1
          /\ events'[n + 1] = e /\ \A i \in 1 .. n : events'[i] = events[i]
      BY <2>1, <2>2, <2>3, ConcatOne DEF TypeOK
    <2>5. ASSUME main # "clearing", NEW i \in 1 .. n + 1, NEW j \in 1 .. n + 1,
                 events'[i] # epoch, events'[j] # epoch
          PROVE  i = j
      <3>1. \A k \in 1 .. n : events[k] # epoch => e = epoch
        BY <2>1, <2>2, <2>3, <2>5 DEF InputOK
      <3>2. CASE i = n + 1
        BY <2>4, <2>5, <3>1, <3>2
      <3>3. CASE j = n + 1
        BY <2>4, <2>5, <3>1, <3>3
      <3>4. CASE i \in 1 .. n /\ j \in 1 .. n
        BY <2>3, <2>4, <2>5, <3>4 DEF InputOK
      <3> QED
        BY <2>3, <3>2, <3>3, <3>4
    <2> QED
      BY <2>1, <2>4, <2>5, EmptySeq DEF InputOK
  <1>6. CASE \/ Describe \/ Enqueue \/ Drained \/ StartSession \/ Stop \/ Open \/ Resize
             \/ TimesOut \/ Write \/ Send \/ Close \/ Disconnect \/ Shutdown
    <2>1. Silent
      BY <1>6 DEF Silent, Describe, Enqueue, Drained, StartSession, Stop, Open, Resize,
                  TimesOut, Write, Send, Close, Disconnect, Shutdown, UseTrack
    <2> QED
      BY <1>1, <2>1
  <1>7. ASSUME NEW p \in Peers, Offer(p) \/ Negotiate(p) \/ Negotiated(p) \/ PeerCloses(p)
        PROVE  Silent
    <2>1. CASE Offer(p) \/ Negotiate(p) \/ Negotiated(p)
      BY <2>1 DEF Silent, Offer, Negotiate, Negotiated
    <2>2. CASE PeerCloses(p)
      <3>1. waiter[p] = Server => main = "releasing"
        BY <2>2 DEF PeerCloses, ReleaseOK, LeavesServer
      <3>2. UNCHANGED input /\ (main' = main \/ (waiter[p] = Server /\ main' = "cleaning"))
        BY <2>2 DEF PeerCloses
      <3> QED
        BY <3>1, <3>2 DEF Silent
    <2> QED
      BY <1>7, <2>1, <2>2
  <1>8. CASE UNCHANGED vars
    BY <1>1, <1>8 DEF vars, Silent
  <1> QED
    BY <1>1, <1>2, <1>3, <1>4, <1>5, <1>6, <1>7, <1>8 DEF Next, Main, Loop
-----------------------------------------------------------------------------
(* The frames.                                                              *)

BoxType == box \in [Peers -> SUBSET (1 .. MaxSessions)]

(***************************************************************************)
(* A step of the loop that empties the track of every peer it takes down,  *)
(* and gives the server no track but a new one.                            *)
(***************************************************************************)
LEMMA BoxFollowsPeers ==
  ASSUME ServerInv, BoxType', UNCHANGED <<session, target>>,
         main' \in {main, "draining", "shutting", "releasing", "cleaning", "stopped"},
         \A q \in Peers : box'[q] \in {box[q], {}},
         \A q \in Peers : place[q] = "up" /\ place'[q] # "up" => box'[q] = {},
         track' \in {None, track} \/ (track' \in Peers /\ place[track'] # "up")
  PROVE  BoxOK' /\ BoxType'
  <1> USE DEF ServerInv
  <1>1. \A q \in Peers : box'[q] # {} => place'[q] = "up"
    BY DEF BoxOK
  <1>2. ASSUME track' # None, track' # track
        PROVE  box'[track'] = {}
    BY <1>2 DEF BoxOK
  <1>3. ASSUME track' # None, track' = track
        PROVE  track \in Peers /\ box'[track] \in {box[track], {}}
    BY <1>3 DEF TypeOK
  <1>4. CASE track' = None
    BY <1>1, <1>4 DEF BoxOK
  <1>5. CASE track' # None /\ track' # track
    BY <1>1, <1>2, <1>5 DEF BoxOK
  <1>6. CASE track' # None /\ track' = track
    BY <1>1, <1>3, <1>6 DEF BoxOK
  <1> QED
    BY <1>4, <1>5, <1>6

LEMMA BoxStep ==
  ASSUME ServerInv, [Next]_vars PROVE BoxOK' /\ BoxType'
  <1> USE DEF ServerInv, TypeOK, BoxType
  <1>1. CASE UNCHANGED <<box, place, track, session, target>>
             /\ main' \in {main, "draining", "shutting", "releasing", "cleaning", "stopped"}
    BY <1>1 DEF BoxOK
  <1>2. CASE Open
    BY <1>2 DEF Open, UseTrack, BoxOK, peers
  <1>3. CASE Resize \/ Write
    BY <1>3 DEF Resize, Write, UseTrack, BoxOK, peers
  <1>4. CASE StartSession
    <2>1. /\ target \in Peers /\ main \in {"starting", "resizing"}
          /\ main' = IF main = "starting" THEN "opened" ELSE "idle"
          /\ UNCHANGED <<place, track, session>>
      BY <1>4 DEF StartSession, MainOK, peers
    <2>2. /\ BoxType'
          /\ \A q \in Peers : box'[q] = IF q = target /\ track = target THEN {} ELSE box[q]
      BY <1>4, <2>1 DEF StartSession
    <2>3. CASE track = None
      BY <2>1, <2>2, <2>3 DEF BoxOK
    <2>4. CASE track \in Peers /\ track = target
      BY <2>1, <2>2, <2>4 DEF BoxOK
    <2>5. CASE track \in Peers /\ track # target
      BY <2>1, <2>2, <2>5 DEF BoxOK
    <2> QED
      BY <2>3, <2>4, <2>5
  <1>5. CASE TimesOut
    BY <1>5 DEF TimesOut, BoxOK, peers
  <1>6. CASE Describe
    BY <1>6 DEF Describe, BoxOK, peers
  <1>7. CASE ReadClock \/ ClearInput
    BY <1>7 DEF ReadClock, ClearInput, BoxOK, peers
  <1>8. CASE Enqueue
    <2>1. /\ target \in Peers /\ main = "writing" /\ main' = "idle"
          /\ session \in 1 .. MaxSessions /\ UNCHANGED <<place, track, session>>
      BY <1>8, BoundsAreNat DEF Enqueue, MainOK, peers
    <2>2. /\ BoxType'
          /\ \A q \in Peers : box'[q] = IF q = target /\ place[q] = "up"
                                          THEN box[q] \cup {session} ELSE box[q]
      BY <1>8, <2>1 DEF Enqueue
    <2>3. \A q \in Peers : box'[q] # {} => place'[q] = "up"
      BY <2>1, <2>2 DEF BoxOK
    <2>4. track # None => track \in Peers /\ box[track] \subseteq {session}
      BY <2>1 DEF BoxOK
    <2> QED
      BY <2>1, <2>2, <2>3, <2>4 DEF BoxOK
  <1>9. CASE Send
    <2>1. track \in Peers /\ UNCHANGED <<place, track, session, target, main>>
      BY <1>9 DEF Send, peers
    <2>2. /\ BoxType'
          /\ \A q \in Peers : box'[q] \subseteq box[q]
      <3>1. box' = [box EXCEPT ![track] = {s \in box[track] : \E r \in box[track] : r < s}]
        BY <1>9 DEF Send
      <3>2. {s \in box[track] : \E r \in box[track] : r < s} \subseteq box[track]
        OBVIOUS
      <3>3. PICK sent \in SUBSET box[track] : box' = [box EXCEPT ![track] = sent]
        BY <3>1, <3>2
      <3> QED
        BY <2>1, <3>3
    <2>3. box'[track] = {} \/ box[track] # {}
      BY <2>1, <2>2
    <2>4. \A q \in Peers : box'[q] # {} => place'[q] = "up"
      BY <2>1, <2>2 DEF BoxOK
    <2> QED
      BY <2>1, <2>2, <2>3, <2>4 DEF BoxOK
  <1>10. ASSUME NEW p \in Peers, Offer(p) \/ Negotiate(p)
         PROVE  BoxOK' /\ BoxType'
    <2>1. /\ UNCHANGED <<box, track, session, target, main>> /\ place[p] # "up"
          /\ \A q \in Peers \ {p} : place'[q] = place[q]
      BY <1>10 DEF Offer, Negotiate
    <2> QED
      BY <2>1, BoxFollowsPeers
  <1>11. ASSUME NEW p \in Peers, Negotiated(p)
         PROVE  BoxOK' /\ BoxType'
    <2>1. UNCHANGED <<session, target, main>> /\ place[p] = "negotiating"
      BY <1>11 DEF Negotiated
    <2>2. CASE Release(p, p) /\ UNCHANGED <<lock, active, track>>
      BY <2>1, <2>2, BoxFollowsPeers DEF Release
    <2>3. CASE /\ active = None /\ Install(p)
               /\ place' = [place EXCEPT ![p] = "up"] /\ UNCHANGED <<waiter, box>>
      BY <2>1, <2>3, BoxFollowsPeers DEF Install
    <2>4. CASE /\ active # None
               /\ place' = [place EXCEPT ![active] = "closing", ![p] = "replacing"]
               /\ waiter' = [waiter EXCEPT ![active] = p]
               /\ box' = [box EXCEPT ![active] = {}]
               /\ Detach /\ UNCHANGED lock
      BY <2>1, <2>4, BoxFollowsPeers DEF Detach
    <2> QED
      BY <1>11, <2>2, <2>3, <2>4 DEF Negotiated
  <1>12. ASSUME NEW p \in Peers, PeerCloses(p)
         PROVE  BoxOK' /\ BoxType'
    <2>1. /\ UNCHANGED <<session, target>> /\ place[p] = "closing"
          /\ main' \in {main, "cleaning"}
      BY <1>12 DEF PeerCloses
    <2>2. BoxType' /\ \A q \in Peers : box'[q] \in {box[q], {}}
      BY <1>12 DEF PeerCloses, TakeTrack
    <2>3. ASSUME waiter[p] \in Peers \ {p}
          PROVE  place[waiter[p]] = "replacing"
      BY <2>1, <2>3 DEF PeersOK, HandOverOK, HandsOver
    <2>4. /\ \A q \in Peers : place[q] = "up" => place'[q] = "up"
          /\ track' \in {track, None} \/ (track' \in Peers /\ place[track'] # "up")
      BY <1>12, <2>1, <2>3 DEF PeerCloses, Install, TakeTrack
    <2> QED
      BY <2>1, <2>4, <2>2, BoxFollowsPeers
  <1>13. CASE Disconnect
    BY <1>13, BoxFollowsPeers DEF Disconnect, Release, Detach
  <1>14. CASE Shutdown
    <2>1. CASE active = None
      BY <1>14, <2>1, BoxFollowsPeers DEF Shutdown, TakeTrack
    <2>2. CASE active # None
      BY <1>14, <2>2, BoxFollowsPeers DEF Shutdown, Release, Detach
    <2> QED
      BY <2>1, <2>2
  <1>15. CASE Poll \/ Message \/ AppendEvent \/ Close \/ Drained \/ Stop
    BY <1>1, <1>15 DEF Poll, Message, AppendEvent, Close, Drained, Stop, peers
  <1>16. CASE UNCHANGED vars
    BY <1>1, <1>16 DEF vars, peers
  <1> QED
    BY <1>2, <1>3, <1>4, <1>5, <1>6, <1>7, <1>8, <1>9, <1>10, <1>11, <1>12, <1>13, <1>14,
       <1>15, <1>16 DEF Next, Main, Loop

-----------------------------------------------------------------------------
(* The end.                                                                 *)

LEMMA ReleaseStep ==
  ASSUME ServerInv, [Next]_vars PROVE ReleaseOK'
  <1> USE DEF ServerInv, TypeOK
  <1>0. Server \notin Peers /\ None # Server
    BY NamesAreApart
  <1>1. ASSUME \A q \in Peers : LeavesServer(q)' => LeavesServer(q),
               main = "releasing" => main' = "releasing"
        PROVE  ReleaseOK'
    BY <1>1 DEF ReleaseOK
  <1>2. CASE UNCHANGED <<place, waiter>> /\ (main = "releasing" => main' = "releasing")
    BY <1>1, <1>2 DEF LeavesServer
  <1>3. CASE \/ Describe \/ ReadClock \/ ClearInput \/ Enqueue \/ Drained \/ StartSession
             \/ AppendEvent \/ Stop \/ Open \/ Resize \/ TimesOut \/ Poll \/ Write \/ Send
             \/ Message \/ Close \/ UNCHANGED vars
    BY <1>2, <1>3
       DEF Describe, ReadClock, ClearInput, Enqueue, Drained, StartSession, AppendEvent,
           Stop, Open, Resize, TimesOut, Poll, Write, Send, Message, Close, UseTrack,
           peers, vars
  <1>4. ASSUME NEW p \in Peers, Offer(p) \/ Negotiate(p)
        PROVE  ReleaseOK'
    <2>1. /\ UNCHANGED <<waiter, main>> /\ place'[p] # "closing"
          /\ \A q \in Peers \ {p} : place'[q] = place[q]
      BY <1>4 DEF Offer, Negotiate
    <2> QED
      BY <1>1, <2>1 DEF LeavesServer
  <1>5. ASSUME NEW p \in Peers, Negotiated(p)
        PROVE  ReleaseOK'
    <2>1. \A q \in Peers : LeavesServer(q)' => LeavesServer(q)
      BY <1>0, <1>5 DEF Negotiated, Release, LeavesServer
    <2> QED
      BY <1>1, <1>5, <2>1 DEF Negotiated
  <1>6. ASSUME NEW p \in Peers, PeerCloses(p)
        PROVE  ReleaseOK'
    <2>1. \A q \in Peers : LeavesServer(q)' => LeavesServer(q) /\ q # p
      BY <1>0, <1>6 DEF PeerCloses, LeavesServer
    <2>2. CASE waiter[p] = Server
      <3>1. LeavesServer(p)
        BY <1>6, <2>2 DEF PeerCloses, LeavesServer
      <3>2. \A q \in Peers : ~LeavesServer(q)'
        BY <2>1, <3>1 DEF ReleaseOK
      <3> QED
        BY <3>2 DEF ReleaseOK
    <2>3. CASE waiter[p] # Server
      <3>1. main' = main
        BY <1>6, <2>3 DEF PeerCloses
      <3> QED
        BY <1>1, <2>1, <3>1
    <2> QED
      BY <2>2, <2>3
  <1>7. CASE Disconnect
    <2>1. active \in Peers /\ main' = main
      BY <1>7 DEF Disconnect
    <2>2. \A q \in Peers : LeavesServer(q)' => LeavesServer(q)
      BY <1>0, <1>7, <2>1 DEF Disconnect, Release, LeavesServer
    <2> QED
      BY <1>1, <2>1, <2>2
  <1>8. CASE Shutdown
    <2>1. main = "shutting" /\ \A q \in Peers : ~LeavesServer(q)
      BY <1>8 DEF Shutdown, ReleaseOK
    <2>2. CASE active = None
      BY <1>2, <1>8, <2>1, <2>2 DEF Shutdown, TakeTrack
    <2>3. CASE active # None
      <3>1. active \in Peers /\ main' = "releasing"
        BY <1>8, <2>3 DEF Shutdown
      <3>2. \A q \in Peers : LeavesServer(q)' => q = active
        BY <1>8, <2>1, <2>3, <3>1 DEF Shutdown, Release, LeavesServer
      <3> QED
        BY <3>1, <3>2 DEF ReleaseOK
    <2> QED
      BY <2>2, <2>3
  <1> QED
    BY <1>3, <1>4, <1>5, <1>6, <1>7, <1>8 DEF Next, Main, Loop

-----------------------------------------------------------------------------
LEMMA InitServer == Init => ServerInv
  <1> SUFFICES ASSUME Init PROVE ServerInv
    OBVIOUS
  <1>1. /\ lock \in Seq(Peers) /\ Len(lock) = 0
        /\ {message, events} \subseteq Seq(0 .. epoch)
        /\ Len(message) = 0 /\ Len(events) = 0
    <2>1. lock = <<>> /\ message = <<>> /\ events = <<>>
      BY DEF Init
    <2> QED
      BY <2>1, EmptySeq
  <1>2. TypeOK
    <2>0. 0 \in 0 .. MaxSessions
      BY BoundsAreNat
    <2>1. /\ session \in 0 .. MaxSessions /\ epoch \in 0 .. MaxSessions
          /\ main = "idle" /\ {target, active, track} \subseteq Peers \cup {None}
      BY <2>0 DEF Init
    <2>3. closed \in BOOLEAN
      BY DEF Init
    <2>2. /\ waiter \in [Peers -> Peers \cup {None, Server}]
          /\ place \in [Peers -> {"none", "waiting", "refused", "negotiating", "replacing",
                               "up", "closing", "closed"}]
          /\ box \in [Peers -> SUBSET (1 .. MaxSessions)]
      BY DEF Init
    <2> QED
      BY <1>1, <2>1, <2>2, <2>3 DEF TypeOK
  <1>3. PeersOK
    BY <1>1, NamesAreApart DEF Init, PeersOK, LockOK, HandOverOK, HandsOver
  <1>4. BoxOK /\ MainOK /\ ReleaseOK /\ TrackOK
    BY <1>2 DEF Init, BoxOK, MainOK, ReleaseOK, LeavesServer, TrackOK
  <1>5. InputOK
    BY <1>1 DEF InputOK, Init
  <1> QED
    BY <1>2, <1>3, <1>4, <1>5 DEF ServerInv

LEMMA NextServer == ServerInv /\ [Next]_vars => ServerInv'
  <1> SUFFICES ASSUME ServerInv, [Next]_vars PROVE ServerInv'
    OBVIOUS
  <1>1. PeersOK' /\ PeerTypes'
    BY PeersStep DEF ServerInv
  <1>2. /\ MainOK' /\ closed' \in BOOLEAN
        /\ session' \in 0 .. MaxSessions /\ epoch' \in 0 .. MaxSessions
        /\ main' \in {"idle", "starting", "resizing", "writing", "failed", "opened",
                      "described", "clearing", "draining", "shutting", "releasing",
                      "cleaning", "stopped"}
        /\ target' \in Peers \cup {None}
    BY MainStep
  <1>3. InputOK' /\ {message', events'} \subseteq Seq(0 .. epoch')
    BY InputStep
  <1>4. BoxOK' /\ BoxType' /\ ReleaseOK' /\ TrackOK'
    BY BoxStep, ReleaseStep, TrackStep DEF ServerInv
  <1>5. TypeOK'
    BY <1>1, <1>2, <1>3, <1>4 DEF TypeOK, PeerTypes, BoxType
  <1> QED
    BY <1>1, <1>2, <1>3, <1>4, <1>5 DEF ServerInv

(***************************************************************************)
(* In every reachable state the server's slot, the peers' places, the frame*)
(* in the mailbox and the input on its way to the session fit together.    *)
(***************************************************************************)
THEOREM ServerInvHolds == Spec => []ServerInv
  BY InitServer, NextServer, PTL DEF Spec

(***************************************************************************)
(* In whatever order browsers connect, replace each other, fail and leave, *)
(* the connected peer is the server's, and its track is the one the run    *)
(* writes to until _shutdown, at the end of its wait for another peer,     *)
(* takes it.                                                               *)
(***************************************************************************)
THEOREM UpPeerAlwaysActive == Spec => []UpPeerIsActive
  <1>1. ServerInv => UpPeerIsActive
    BY DEF ServerInv, PeersOK, TrackOK, Finishing, UpPeerIsActive
  <1> QED
    BY <1>1, ServerInvHolds, PTL

(***************************************************************************)
(* When open has returned, the track the browser watches has no frame of   *)
(* an earlier session, whoever the browser is by then.                     *)
(***************************************************************************)
THEOREM NewSessionAlwaysClean == Spec => []NewSessionStartsClean
  <1>1. ServerInv => NewSessionStartsClean
    BY DEF ServerInv, BoxOK, NewSessionStartsClean
  <1> QED
    BY <1>1, ServerInvHolds, PTL

(***************************************************************************)
(* Of the input stamped before a session's clock was read, at most the one *)
(* message that the loop was in the middle of can reach the session.       *)
(***************************************************************************)
THEOREM HandoffAlwaysKeepsOneEvent == Spec => []HandoffKeepsOneEvent
  <1>1. ServerInv => HandoffKeepsOneEvent
    <2> SUFFICES ASSUME ServerInv, main = "idle"
                 PROVE  Cardinality({i \in 1 .. Len(events) : events[i] # epoch}) <= 1
      BY DEF HandoffKeepsOneEvent
    <2> DEFINE S == {i \in 1 .. Len(events) : events[i] # epoch}
    <2>1. \A i, j \in S : i = j
      BY DEF ServerInv, InputOK
    <2> HIDE DEF S
    <2>2. CASE S = {}
      BY <2>2, FS_EmptySet DEF S
    <2>3. CASE S # {}
      <3>1. PICK i : S = {i}
        BY <2>1, <2>3
      <3>2. Cardinality(S) = 1
        BY <3>1, FS_Singleton
      <3> QED
        BY <3>2 DEF S
    <2> QED
      BY <2>2, <2>3
  <1> QED
    BY <1>1, ServerInvHolds, PTL
=============================================================================
