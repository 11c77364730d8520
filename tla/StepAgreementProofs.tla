------------------------ MODULE StepAgreementProofs ------------------------
(***************************************************************************)
(* Proofs about StepAgreement, for any number of ranks, steps, polls and   *)
(* failures.                                                               *)
(*                                                                         *)
(* A rank's calls are first those of its model thread, three a step, then  *)
(* the results its main thread asks for.  Where the first part ends is     *)
(* each rank's own affair; the argument is that it ends for every rank at  *)
(* the same agreement, because a rank that asks for a result has seen that *)
(* agreement refuse, and one that goes on has seen it accept, and both saw *)
(* the votes of everybody.                                                 *)
(***************************************************************************)
EXTENDS StepAgreement, SequenceTheorems, TLAPS

ReadyCall(k) == k % 3 # 2 \* the model's k-th call is an agreement
ModelKind(k) == IF ReadyCall(k) THEN "ready" ELSE "inputs"

Came(q, k) == k <= Len(calls[q])
Agreed(k) == \A q \in Ranks : Came(q, k) /\ calls[q][k].value = "go"
Vetoed(k) == \E q \in Ranks : Came(q, k) /\ calls[q][k].value # "go"
Refused(k) == (\A q \in Ranks : Came(q, k)) /\ Vetoed(k)
Broken(k) == \E q \in Ranks : ~Came(q, k) /\ main[q] = "ended"

(***************************************************************************)
(* Rank r has made m calls on its model thread, each after an agreement to *)
(* go on, and the others are results, which it asked for because the last  *)
(* agreement refused and, after the first, because rank 0 said to go on.   *)
(***************************************************************************)
CallsOK(r, m) ==
    /\ m \in 0 .. Len(calls[r])
    /\ \A k \in 1 .. m : calls[r][k].kind = ModelKind(k)
    /\ \A k \in 1 .. m - 1 : ReadyCall(k) => Agreed(k)
    /\ \A k \in m + 1 .. Len(calls[r]) : calls[r][k].kind = "result"
    /\ \A k \in m + 1 .. Len(calls[r]) - 1 : Came(0, k) /\ calls[0][k].value = "continue"
    /\ m < Len(calls[r]) => m > 0 /\ ReadyCall(m) /\ Refused(m)

(***************************************************************************)
(* Each step that the rank has begun stands for three of its calls, was    *)
(* agreed on by all ranks and has the input that rank 0 had for it.        *)
(***************************************************************************)
RoundsOK(r, m) ==
    /\ m \in 3 * Len(steps[r]) .. 3 * Len(steps[r]) + 3
    /\ \A i \in 1 .. Len(steps[r]) :
         Agreed(3 * i) /\ Came(0, 3 * i - 1) /\ steps[r][i] = calls[0][3 * i - 1].value

HasRead(r) ==
    LET k == 3 * Len(steps[r]) + 2 IN Came(0, k) /\ read[r] = calls[0][k].value

(***************************************************************************)
(* The place of the model thread says which call of which step was its     *)
(* last, and a thread that is dead without having taken the step of an     *)
(* agreement has seen why.                                                 *)
(***************************************************************************)
ModelOK(r, m) ==
    LET done == 3 * Len(steps[r]) IN
    /\ model[r] # "dead" => m = Len(calls[r])
    /\ model[r] = "off" => m = 0
    /\ model[r] = "check" => m = done
    /\ model[r] = "ready" => m = done + 1
    /\ model[r] \in {"inputs", "prepare"} => m = done + 2
    /\ model[r] \in {"admit", "giveUp", "step"} => m = done + 3
    /\ model[r] \in {"prepare", "admit", "step"} => HasRead(r)
    /\ model[r] = "giveUp" => calls[r][m].value = "failed"
    /\ model[r] = "step" => Agreed(m)
    /\ model[r] = "dead" /\ m = done + 3 => Vetoed(m) \/ Broken(m)
    /\ model[r] = "dead" /\ failed[r] = "no" => m \in {done + 1, done + 3} /\ Refused(m)

(***************************************************************************)
(* The main thread asks for results only after the model thread's end, and *)
(* leaves without a failure only with rank 0's last word.                  *)
(***************************************************************************)
MainOK(r, m) ==
    LET last == Len(calls[r]) IN
    /\ main[r] = "setup" => model[r] = "off"
    /\ model[r] = "off" => main[r] \in {"setup", "join", "ended"}
    /\ main[r] = "ended" => model[r] \in {"off", "dead"}
    /\ main[r] = "poll" => model[r] = "dead" /\ failed[r] = "no" /\ m < last
    /\ main[r] = "tick" /\ model[r] = "dead" /\ failed[r] = "no" /\ m < last
         => Came(0, last) /\ calls[0][last].value = "continue"
    /\ main[r] \in {"join", "ended"} /\ failed[r] = "no"
         => /\ model[r] = "dead" /\ m < last /\ Came(0, last)
            /\ calls[0][last].value # "continue"
            /\ nextSession[r] = calls[0][last].value

RankOK(r, m) == CallsOK(r, m) /\ RoundsOK(r, m) /\ ModelOK(r, m) /\ MainOK(r, m)

(***************************************************************************)
(* What rank 0 sends fits the call it sends it in.                         *)
(***************************************************************************)
ValuesOK == \A k \in 1 .. Len(calls[0]) :
    /\ calls[0][k].kind = "inputs" => calls[0][k].value \in Inputs
    /\ calls[0][k].kind = "result"
         => calls[0][k].value \in {"continue", Nothing, Replacement}

AgreeInv == /\ TypeOK /\ ValuesOK
            /\ \A r \in Ranks : \E m \in 0 .. Len(calls[r]) : RankOK(r, m)

-----------------------------------------------------------------------------
(* Calls only grow, and what was said stays said.                           *)

Grows ==
    /\ \A q \in Ranks : Len(calls[q]) <= Len(calls'[q])
    /\ \A q \in Ranks : \A k \in 1 .. Len(calls[q]) : calls'[q][k] = calls[q][k]
    /\ \A q \in Ranks : main[q] = "ended" => main'[q] = "ended" /\ calls'[q] = calls[q]

(***************************************************************************)
(* A step that leaves everything of rank p alone.                          *)
(***************************************************************************)
Spares(p) ==
    /\ calls'[p] = calls[p] /\ steps'[p] = steps[p] /\ read'[p] = read[p]
    /\ model'[p] = model[p] /\ main'[p] = main[p] /\ failed'[p] = failed[p]
    /\ nextSession'[p] = nextSession[p]

LEMMA ReadyCallFacts ==
  ASSUME NEW n \in Nat
  PROVE  /\ ReadyCall(3 * n) /\ ReadyCall(3 * n + 1) /\ ~ReadyCall(3 * n + 2)
         /\ ReadyCall(3 * n + 3)
  BY DEF ReadyCall

LEMMA LenIsNat ==
  ASSUME TypeOK, NEW r \in Ranks
  PROVE  /\ calls[r] \in Seq(Calls) /\ Len(calls[r]) \in Nat
         /\ DOMAIN calls[r] = 1 .. Len(calls[r])
         /\ steps[r] \in Seq(Inputs) /\ Len(steps[r]) \in Nat
         /\ DOMAIN steps[r] = 1 .. Len(steps[r])
  BY DEF TypeOK

LEMMA EnterFacts ==
  ASSUME TypeOK, NEW r \in Ranks, NEW kind, NEW value, Enter(r, kind, value),
         [kind |-> kind, value |-> value] \in Calls
  PROVE  /\ calls' \in [Ranks -> Seq(Calls)]
         /\ Len(calls'[r]) = Len(calls[r]) + 1
         /\ calls'[r][Len(calls[r]) + 1].kind = kind
         /\ calls'[r][Len(calls[r]) + 1].value = value
         /\ \A k \in 1 .. Len(calls[r]) : calls'[r][k] = calls[r][k]
         /\ \A q \in Ranks \ {r} : calls'[q] = calls[q]
  <1> DEFINE c == [kind |-> kind, value |-> value]
  <1>1. calls \in [Ranks -> Seq(Calls)] /\ calls[r] \in Seq(Calls)
    BY DEF TypeOK
  <1>2. calls' = [calls EXCEPT ![r] = Append(calls[r], c)]
    BY DEF Enter
  <1>3. c.kind = kind /\ c.value = value /\ c \in Calls
    OBVIOUS
  <1> HIDE DEF c
  <1>4. /\ Append(calls[r], c) \in Seq(Calls)
        /\ Len(Append(calls[r], c)) = Len(calls[r]) + 1
        /\ Append(calls[r], c)[Len(calls[r]) + 1] = c
        /\ \A k \in 1 .. Len(calls[r]) : Append(calls[r], c)[k] = calls[r][k]
    BY <1>1, <1>3, AppendProperties
  <1>5. calls'[r] = Append(calls[r], c) /\ \A q \in Ranks \ {r} : calls'[q] = calls[q]
    BY <1>1, <1>2
  <1>6. calls' \in [Ranks -> Seq(Calls)]
    BY <1>1, <1>2, <1>4
  <1> QED
    BY <1>3, <1>4, <1>5, <1>6

LEMMA GrowsKeeps ==
  ASSUME TypeOK, Grows, NEW k \in Nat \ {0}
  PROVE  /\ \A q \in Ranks : Came(q, k) => Came(q, k)' /\ calls'[q][k] = calls[q][k]
         /\ Agreed(k) => Agreed(k)'
         /\ Vetoed(k) => Vetoed(k)'
         /\ Refused(k) => Refused(k)'
         /\ Broken(k) => Broken(k)'
  <1>1. ASSUME NEW q \in Ranks, Came(q, k)
        PROVE  Came(q, k)' /\ calls'[q][k] = calls[q][k]
    BY <1>1, LenIsNat DEF Grows, Came
  <1>2. Agreed(k) => Agreed(k)'
    BY <1>1 DEF Agreed
  <1>3. Vetoed(k) => Vetoed(k)'
    BY <1>1 DEF Vetoed
  <1>4. Refused(k) => Refused(k)'
    BY <1>1, <1>3 DEF Refused
  <1>5. Broken(k) => Broken(k)'
    BY DEF Broken, Grows, Came
  <1> QED
    BY <1>1, <1>2, <1>3, <1>4, <1>5

-----------------------------------------------------------------------------
(* What a step does to a rank's part of the invariant.                      *)

LEMMA CallsStay ==
  ASSUME TypeOK, Grows, NEW r \in Ranks, NEW m \in Nat,
         calls'[r] = calls[r], CallsOK(r, m)
  PROVE  CallsOK(r, m)'
  <1> USE LenIsNat
  <1>1. 0 \in Ranks
    BY DEF Ranks
  <1>2. Len(calls[r]) \in Nat /\ m <= Len(calls[r])
    BY DEF CallsOK
  <1>3. ASSUME NEW k \in 1 .. m - 1, ReadyCall(k)
        PROVE  Agreed(k)'
    BY <1>2, <1>3, GrowsKeeps DEF CallsOK
  <1>4. ASSUME NEW k \in m + 1 .. Len(calls[r]) - 1
        PROVE  Came(0, k)' /\ calls'[0][k].value = "continue"
    <2>1. k \in Nat \ {0} /\ Came(0, k) /\ calls[0][k].value = "continue"
      BY <1>2 DEF CallsOK
    <2> QED
      BY <1>1, <2>1, GrowsKeeps
  <1>5. ASSUME m < Len(calls[r])
        PROVE  m > 0 /\ ReadyCall(m) /\ Refused(m)'
    BY <1>5, GrowsKeeps DEF CallsOK
  <1>6. /\ \A k \in 1 .. m : calls[r][k].kind = ModelKind(k)
        /\ \A k \in m + 1 .. Len(calls[r]) : calls[r][k].kind = "result"
    BY DEF CallsOK
  <1> QED
    BY <1>2, <1>3, <1>4, <1>5, <1>6 DEF CallsOK

LEMMA RoundsStay ==
  ASSUME TypeOK, Grows, NEW r \in Ranks, NEW m \in Nat,
         steps'[r] = steps[r], RoundsOK(r, m)
  PROVE  RoundsOK(r, m)'
  <1>1. 0 \in Ranks
    BY DEF Ranks
  <1>2. ASSUME NEW i \in 1 .. Len(steps[r])
        PROVE  /\ Agreed(3 * i)' /\ Came(0, 3 * i - 1)'
               /\ steps[r][i] = calls'[0][3 * i - 1].value
    <2>1. 3 * i \in Nat \ {0} /\ 3 * i - 1 \in Nat \ {0}
      BY LenIsNat
    <2>2. Agreed(3 * i) /\ Came(0, 3 * i - 1) /\ steps[r][i] = calls[0][3 * i - 1].value
      BY DEF RoundsOK
    <2> QED
      BY <1>1, <2>1, <2>2, GrowsKeeps
  <1> QED
    BY <1>2 DEF RoundsOK

LEMMA ReadStays ==
  ASSUME TypeOK, Grows, NEW r \in Ranks,
         steps'[r] = steps[r], read'[r] = read[r], HasRead(r)
  PROVE  HasRead(r)'
  <1>1. 0 \in Ranks /\ 3 * Len(steps[r]) + 2 \in Nat \ {0}
    BY LenIsNat DEF Ranks
  <1> QED
    BY <1>1, GrowsKeeps DEF HasRead

LEMMA ModelStays ==
  ASSUME TypeOK, Grows, NEW p \in Ranks, NEW m \in Nat, CallsOK(p, m), ModelOK(p, m),
         calls'[p] = calls[p], steps'[p] = steps[p], read'[p] = read[p],
         model'[p] = model[p], failed'[p] = "no" => failed[p] = "no"
  PROVE  ModelOK(p, m)'
  <1> DEFINE done == 3 * Len(steps[p])
  <1>1. done \in Nat
    BY LenIsNat
  <1>2. m > 0 => /\ Agreed(m) => Agreed(m)'
                 /\ Vetoed(m) => Vetoed(m)'
                 /\ Refused(m) => Refused(m)'
                 /\ Broken(m) => Broken(m)'
    BY GrowsKeeps
  <1>3. HasRead(p) => HasRead(p)'
    BY ReadStays
  <1> HIDE DEF done
  <1>4. /\ model[p] = "step" => Agreed(m)'
        /\ model[p] = "dead" /\ m = done + 3 => Vetoed(m)' \/ Broken(m)'
        /\ model[p] = "dead" /\ failed[p] = "no" => m \in {done + 1, done + 3} /\ Refused(m)'
    <2>1. /\ model[p] = "step" => m = done + 3 /\ Agreed(m)
          /\ model[p] = "dead" /\ m = done + 3 => Vetoed(m) \/ Broken(m)
          /\ model[p] = "dead" /\ failed[p] = "no"
               => m \in {done + 1, done + 3} /\ Refused(m)
      BY DEF ModelOK, done
    <2> QED
      BY <1>1, <1>2, <2>1
  <1>5. model'[p] = "giveUp" => calls'[p][m].value = "failed"
    BY DEF ModelOK
  <1> QED
    BY <1>3, <1>4, <1>5 DEF ModelOK, done

(***************************************************************************)
(* Another rank's step leaves what is known of a rank as it is.            *)
(***************************************************************************)
LEMMA SparedStays ==
  ASSUME TypeOK, Grows, NEW p \in Ranks, NEW m \in Nat, Spares(p), RankOK(p, m)
  PROVE  RankOK(p, m)'
  <1> DEFINE last == Len(calls[p])
  <1>1. 0 \in Ranks /\ last \in Nat /\ m <= last
    BY LenIsNat DEF Ranks, RankOK, CallsOK
  <1>2. CallsOK(p, m)' /\ RoundsOK(p, m)'
    BY CallsStay, RoundsStay DEF Spares, RankOK
  <1>3. ModelOK(p, m)'
    BY ModelStays DEF Spares, RankOK
  <1>4. MainOK(p, m)'
    <2>1. MainOK(p, m)
      BY DEF RankOK
    <2>2. m < last => last \in Nat \ {0}
      BY <1>1
    <2>3. ASSUME m < last, Came(0, last)
          PROVE  last <= Len(calls'[0]) /\ calls'[0][last] = calls[0][last]
      <3>1. last \in 1 .. Len(calls[0])
        BY <1>1, <2>2, <2>3 DEF Came
      <3> QED
        BY <1>1, <3>1, LenIsNat DEF Grows
    <2>4. last' = last
      BY DEF Spares
    <2> HIDE DEF last
    <2>5. /\ calls'[p] = calls[p] /\ model'[p] = model[p] /\ main'[p] = main[p]
          /\ failed'[p] = failed[p] /\ nextSession'[p] = nextSession[p]
      BY DEF Spares
    <2> QED
      BY <2>1, <2>3, <2>4, <2>5 DEF MainOK, Came, last
  <1> QED
    BY <1>2, <1>3, <1>4 DEF RankOK

(***************************************************************************)
(* The model thread may make its next call when the last agreement, if it  *)
(* was one, let it go on.                                                  *)
(***************************************************************************)
LEMMA ModelCalls ==
  ASSUME TypeOK, Grows, NEW r \in Ranks, NEW m \in Nat, CallsOK(r, m), m = Len(calls[r]),
         NEW value, Enter(r, ModelKind(m + 1), value),
         [kind |-> ModelKind(m + 1), value |-> value] \in Calls,
         m > 0 /\ ReadyCall(m) => Agreed(m)
  PROVE  /\ CallsOK(r, m + 1)' /\ Len(calls'[r]) = m + 1
         /\ calls'[r][m + 1].value = value
  <1>1. /\ Len(calls'[r]) = m + 1
        /\ calls'[r][m + 1].kind = ModelKind(m + 1) /\ calls'[r][m + 1].value = value
        /\ \A k \in 1 .. m : calls'[r][k] = calls[r][k]
    BY EnterFacts
  <1>2. \A k \in 1 .. m + 1 : calls'[r][k].kind = ModelKind(k)
    BY <1>1, SMTT(20) DEF CallsOK
  <1>3. ASSUME NEW k \in 1 .. m, ReadyCall(k)
        PROVE  Agreed(k)'
    <2>1. Agreed(k)
      BY <1>3 DEF CallsOK
    <2> QED
      BY <2>1, GrowsKeeps
  <1> QED
    BY <1>1, <1>2, <1>3 DEF CallsOK

(***************************************************************************)
(* The main thread may ask for a result when the model's last agreement    *)
(* refused, and again when rank 0's last result was to go on.              *)
(***************************************************************************)
LEMMA ResultCalls ==
  ASSUME TypeOK, Grows, NEW r \in Ranks, NEW m \in Nat, CallsOK(r, m),
         NEW value, Enter(r, "result", value),
         [kind |-> "result", value |-> value] \in Calls,
         m = Len(calls[r]) => m > 0 /\ ReadyCall(m) /\ Refused(m),
         m < Len(calls[r]) => /\ Came(0, Len(calls[r]))
                              /\ calls[0][Len(calls[r])].value = "continue"
  PROVE  /\ CallsOK(r, m)' /\ Len(calls'[r]) = Len(calls[r]) + 1
         /\ calls'[r][Len(calls[r]) + 1].kind = "result"
  <1> DEFINE n == Len(calls[r])
  <1>1. n \in Nat /\ m <= n /\ 0 \in Ranks
    BY LenIsNat DEF CallsOK, Ranks
  <1>2. /\ Len(calls'[r]) = n + 1
        /\ calls'[r][n + 1].kind = "result"
        /\ \A k \in 1 .. n : calls'[r][k] = calls[r][k]
    BY EnterFacts
  <1>3. \A k \in 1 .. m : calls'[r][k].kind = ModelKind(k)
    BY <1>1, <1>2 DEF CallsOK
  <1>4. ASSUME NEW k \in 1 .. m - 1, ReadyCall(k)
        PROVE  Agreed(k)'
    <2>1. Agreed(k)
      BY <1>4 DEF CallsOK
    <2> QED
      BY <2>1, GrowsKeeps
  <1>5. \A k \in m + 1 .. n + 1 : calls'[r][k].kind = "result"
    BY <1>1, <1>2 DEF CallsOK
  <1>6. ASSUME NEW k \in m + 1 .. n
        PROVE  Came(0, k)' /\ calls'[0][k].value = "continue"
    <2>1. k \in Nat \ {0} /\ Came(0, k) /\ calls[0][k].value = "continue"
      BY <1>1 DEF CallsOK
    <2> QED
      BY <1>1, <2>1, GrowsKeeps
  <1>7. m > 0 /\ ReadyCall(m) /\ Refused(m)'
    <2>1. m > 0 /\ ReadyCall(m) /\ Refused(m)
      BY <1>1 DEF CallsOK
    <2> QED
      BY <2>1, GrowsKeeps
  <1> QED
    BY <1>1, <1>2, <1>3, <1>4, <1>5, <1>6, <1>7 DEF CallsOK

-----------------------------------------------------------------------------
(***************************************************************************)
(* No rank makes a model call after an agreement that another has left at: *)
(* so the calls of two ranks are of one kind wherever both have made one.  *)
(***************************************************************************)
LEMMA Matching ==
  ASSUME TypeOK, NEW q \in Ranks, NEW r \in Ranks, NEW mq \in Nat, NEW mr \in Nat,
         CallsOK(q, mq), CallsOK(r, mr),
         NEW k \in 1 .. Len(calls[q]), k <= Len(calls[r])
  PROVE  calls[q][k].kind = calls[r][k].kind
  <1>1. Len(calls[q]) \in Nat /\ Len(calls[r]) \in Nat /\ k \in Nat
    BY LenIsNat
  <1>2. ASSUME NEW a \in Ranks, NEW b \in Ranks, NEW ma \in Nat, NEW mb \in Nat,
               CallsOK(a, ma), CallsOK(b, mb), k <= Len(calls[b]), k <= ma, mb < k
        PROVE  FALSE
    <2>1. Len(calls[b]) \in Nat
      BY LenIsNat
    <2>2. mb > 0 /\ ReadyCall(mb) /\ Vetoed(mb)
      BY <1>1, <1>2, <2>1 DEF CallsOK, Refused
    <2>3. Agreed(mb)
      BY <1>1, <1>2, <2>2 DEF CallsOK
    <2> QED
      BY <2>2, <2>3 DEF Agreed, Vetoed
  <1>3. (k <= mq /\ k <= mr) \/ (mq < k /\ mr < k)
    BY <1>1, <1>2
  <1> QED
    BY <1>1, <1>3 DEF CallsOK

LEMMA InvMatches ==
  ASSUME AgreeInv, NEW q \in Ranks, NEW r \in Ranks,
         NEW k \in 1 .. Len(calls[q]), k <= Len(calls[r])
  PROVE  calls[q][k].kind = calls[r][k].kind
  <1>1. PICK mq \in 0 .. Len(calls[q]) : CallsOK(q, mq)
    BY DEF AgreeInv, RankOK
  <1>2. PICK mr \in 0 .. Len(calls[r]) : CallsOK(r, mr)
    BY DEF AgreeInv, RankOK
  <1> QED
    BY <1>1, <1>2, Matching DEF AgreeInv

LEMMA Assemble ==
  ASSUME AgreeInv, NEW r \in Ranks, TypeOK', ValuesOK', Grows,
         \A p \in Ranks \ {r} : Spares(p),
         \E m \in 0 .. Len(calls'[r]) : RankOK(r, m)'
  PROVE  AgreeInv'
  <1>1. ASSUME NEW p \in Ranks \ {r}
        PROVE  \E m \in 0 .. Len(calls'[p]) : RankOK(p, m)'
    <2>1. PICK m \in 0 .. Len(calls[p]) : RankOK(p, m)
      BY DEF AgreeInv
    <2>2. m \in 0 .. Len(calls'[p]) /\ m \in Nat
      BY DEF Spares
    <2> QED
      BY <2>1, <2>2, SparedStays DEF AgreeInv
  <1> QED
    BY <1>1 DEF AgreeInv

(***************************************************************************)
(* What an agreement says, in the words of the invariant.                  *)
(***************************************************************************)
LEMMA AgreementFacts ==
  ASSUME TypeOK, NEW r \in Ranks
  PROVE  LET n == Len(calls[r]) IN
         /\ Reduced(r) /\ Admitted(r) <=> Agreed(n)
         /\ Reduced(r) /\ ~Admitted(r) => Refused(n)
         /\ Reduced(r) /\ PeerFailed(r) => Refused(n)
         /\ Deserted(r) => Broken(n)
  BY LenIsNat DEF Reduced, Admitted, PeerFailed, Deserted, Arrived, Position, ValueOf,
                  Came, Agreed, Refused, Vetoed, Broken
-----------------------------------------------------------------------------
(* The model thread's steps.                                                *)

(***************************************************************************)
(* A running model thread finds the main thread in a tick, or waiting for  *)
(* it after a failure, and leaves it there.                                *)
(***************************************************************************)
LEMMA MainUnmoved ==
  ASSUME NEW r \in Ranks, NEW m \in Nat, NEW mm \in Nat, MainOK(r, m),
         model[r] \notin {"off", "dead"}, main'[r] = main[r], model'[r] # "off",
         failed'[r] = "no" => failed[r] = "no",
         model'[r] = "dead" => mm = Len(calls'[r])
  PROVE  MainOK(r, mm)'
  BY DEF MainOK

LEMMA ModelSteps ==
  ASSUME TypeOK, NEW r \in Ranks, NEW m \in Nat, MainOK(r, m), ModelThread(r)
  PROVE  /\ main' = main /\ main[r] # "ended" /\ nextSession' = nextSession
         /\ model[r] \notin {"off", "dead"}
         /\ \A p \in Ranks \ {r} :
              /\ model'[p] = model[p] /\ failed'[p] = failed[p]
              /\ steps'[p] = steps[p] /\ read'[p] = read[p]
         /\ failed'[r] = "no" => failed[r] = "no"
  <1> USE DEF MainOK, ModelAt, TypeOK
  <1>1. CASE ModelCheck(r)
    BY <1>1 DEF ModelCheck
  <1>2. CASE ModelReady(r)
    BY <1>2 DEF ModelReady, ModelFails
  <1>3. CASE ModelInputs(r)
    BY <1>3 DEF ModelInputs, ModelFails
  <1>4. CASE ModelPrepare(r)
    BY <1>4 DEF ModelPrepare
  <1>5. CASE ModelAdmit(r)
    BY <1>5 DEF ModelAdmit, ModelFails
  <1>6. CASE ModelGiveUp(r)
    BY <1>6 DEF ModelGiveUp, ModelFails
  <1>7. CASE ModelStep(r)
    BY <1>7 DEF ModelStep, ModelFails
  <1> QED
    BY <1>1, <1>2, <1>3, <1>4, <1>5, <1>6, <1>7 DEF ModelThread

LEMMA CallGrows ==
  ASSUME TypeOK, NEW r \in Ranks, main[r] # "ended", NEW kind, NEW value,
         Enter(r, kind, value), [kind |-> kind, value |-> value] \in Calls,
         \A p \in Ranks \ {r} : main'[p] = main[p]
  PROVE  Grows
  <1>1. ASSUME NEW q \in Ranks
        PROVE  /\ Len(calls[q]) <= Len(calls'[q])
               /\ \A k \in 1 .. Len(calls[q]) : calls'[q][k] = calls[q][k]
               /\ main[q] = "ended" => main'[q] = "ended" /\ calls'[q] = calls[q]
    <2>1. CASE q = r
      BY <2>1, EnterFacts, LenIsNat
    <2>2. CASE q # r
      BY <2>2, EnterFacts, LenIsNat
    <2> QED
      BY <2>1, <2>2
  <1> QED
    BY <1>1 DEF Grows

LEMMA SilentGrows ==
  ASSUME TypeOK, NEW r \in Ranks, main[r] # "ended", calls' = calls,
         \A p \in Ranks \ {r} : main'[p] = main[p]
  PROVE  Grows
  BY LenIsNat DEF Grows

LEMMA ValuesKeep ==
  ASSUME TypeOK, ValuesOK, NEW r \in Ranks, NEW kind, NEW value,
         Enter(r, kind, value), [kind |-> kind, value |-> value] \in Calls,
         r = 0 /\ kind = "inputs" => value \in Inputs,
         r = 0 /\ kind = "result" => value \in {"continue", Nothing, Replacement}
  PROVE  ValuesOK'
  <1> DEFINE n == Len(calls[0])
  <1>1. CASE r = 0
    <2>1. /\ Len(calls'[0]) = n + 1 /\ n \in Nat
          /\ calls'[0][n + 1].kind = kind
          /\ calls'[0][n + 1].value = value
          /\ \A k \in 1 .. n : calls'[0][k] = calls[0][k]
      BY <1>1, EnterFacts, LenIsNat
    <2>2. ASSUME NEW k \in 1 .. n + 1
          PROVE  /\ calls'[0][k].kind = "inputs" => calls'[0][k].value \in Inputs
                 /\ calls'[0][k].kind = "result"
                      => calls'[0][k].value \in {"continue", Nothing, Replacement}
      <3>1. CASE k = n + 1
        BY <1>1, <2>1, <3>1
      <3>2. CASE k # n + 1
        <4>1. k \in 1 .. n
          BY <2>1, <3>2
        <4> QED
          BY <2>1, <4>1 DEF ValuesOK
      <3> QED
        BY <3>1, <3>2
    <2> HIDE DEF n
    <2> QED
      BY <2>1, <2>2 DEF ValuesOK
  <1>2. CASE r # 0
    <2>1. calls'[0] = calls[0]
      BY <1>2, EnterFacts DEF Ranks
    <2> QED
      BY <2>1 DEF ValuesOK
  <1> QED
    BY <1>1, <1>2

(***************************************************************************)
(* A call of the model thread is the next one of its step.                 *)
(***************************************************************************)
LEMMA ModelCallKeeps ==
  ASSUME AgreeInv, NEW r \in Ranks, NEW m \in Nat, RankOK(r, m), ModelThread(r),
         NEW value, Enter(r, ModelKind(m + 1), value),
         [kind |-> ModelKind(m + 1), value |-> value] \in Calls,
         r = 0 /\ ModelKind(m + 1) = "inputs" => value \in Inputs,
         m > 0 /\ ReadyCall(m) => Agreed(m),
         m < 3 * Len(steps[r]) + 3, steps' = steps, model'[r] # "dead",
         TypeOK', CallsOK(r, m + 1)' /\ calls'[r][m + 1].value = value
                  => ModelOK(r, m + 1)'
  PROVE  AgreeInv'
  <1>1. TypeOK /\ MainOK(r, m) /\ CallsOK(r, m) /\ RoundsOK(r, m)
    BY DEF AgreeInv, RankOK
  <1>2. /\ main' = main /\ main[r] # "ended" /\ nextSession' = nextSession
        /\ model[r] \notin {"off", "dead"}
        /\ \A p \in Ranks \ {r} :
              /\ model'[p] = model[p] /\ failed'[p] = failed[p]
              /\ steps'[p] = steps[p] /\ read'[p] = read[p]
        /\ failed'[r] = "no" => failed[r] = "no"
    BY <1>1, ModelSteps
  <1>3. m = Len(calls[r])
    BY <1>2 DEF RankOK, ModelOK
  <1>4. Grows
    BY <1>1, <1>2, CallGrows
  <1>5. CallsOK(r, m + 1)' /\ Len(calls'[r]) = m + 1 /\ calls'[r][m + 1].value = value
    BY <1>1, <1>3, <1>4, ModelCalls
  <1>6. RoundsOK(r, m + 1)'
    <2>1. RoundsOK(r, m)'
      BY <1>1, <1>4, RoundsStay
    <2>2. m + 1 \in 3 * Len(steps'[r]) .. 3 * Len(steps'[r]) + 3
      BY <1>1, LenIsNat DEF RoundsOK
    <2> QED
      BY <2>1, <2>2 DEF RoundsOK
  <1>7. ModelOK(r, m + 1)'
    BY <1>5
  <1>8. MainOK(r, m + 1)'
    <2>1. model'[r] # "off"
      BY <1>5, <1>7 DEF ModelOK
    <2> QED
      BY <1>1, <1>2, <2>1, MainUnmoved
  <1>9. \A p \in Ranks \ {r} : Spares(p)
    BY <1>1, <1>2, EnterFacts DEF Spares
  <1>10. ValuesOK'
    <2>1. ModelKind(m + 1) # "result"
      BY DEF ModelKind
    <2> QED
      BY <1>1, <2>1, ValuesKeep DEF AgreeInv
  <1>11. RankOK(r, m + 1)' /\ m + 1 \in 0 .. Len(calls'[r])
    BY <1>5, <1>6, <1>7, <1>8 DEF RankOK
  <1> QED
    BY <1>4, <1>9, <1>10, <1>11, Assemble

(***************************************************************************)
(* A step of the model thread that calls nobody.                           *)
(***************************************************************************)
LEMMA ModelSilentKeeps ==
  ASSUME AgreeInv, NEW r \in Ranks, NEW m \in Nat, RankOK(r, m), ModelThread(r),
         calls' = calls, TypeOK', model'[r] # "off", RoundsOK(r, m)', ModelOK(r, m)'
  PROVE  AgreeInv'
  <1>1. TypeOK /\ MainOK(r, m) /\ CallsOK(r, m)
    BY DEF AgreeInv, RankOK
  <1>2. /\ main' = main /\ main[r] # "ended" /\ nextSession' = nextSession
        /\ model[r] \notin {"off", "dead"}
        /\ \A p \in Ranks \ {r} :
              /\ model'[p] = model[p] /\ failed'[p] = failed[p]
              /\ steps'[p] = steps[p] /\ read'[p] = read[p]
        /\ failed'[r] = "no" => failed[r] = "no"
    BY <1>1, ModelSteps
  <1>3. m = Len(calls[r])
    BY <1>2 DEF RankOK, ModelOK
  <1>4. Grows
    BY <1>1, <1>2, SilentGrows
  <1>5. CallsOK(r, m)'
    BY <1>1, <1>4, CallsStay
  <1>6. MainOK(r, m)'
    BY <1>1, <1>2, <1>3, MainUnmoved
  <1>7. \A p \in Ranks \ {r} : Spares(p)
    BY <1>2 DEF Spares
  <1>8. ValuesOK'
    BY DEF ValuesOK, AgreeInv
  <1>9. RankOK(r, m)' /\ m \in 0 .. Len(calls'[r])
    BY <1>3, <1>5, <1>6 DEF RankOK, CallsOK
  <1> QED
    BY <1>4, <1>7, <1>8, <1>9, Assemble

LEMMA CheckKeeps ==
  ASSUME AgreeInv, NEW r \in Ranks, ModelCheck(r) PROVE AgreeInv'
  <1> DEFINE status == IF stop[r] \/ Len(steps[r]) >= StepLimit THEN "stopping" ELSE "go"
  <1>1. PICK m \in 0 .. Len(calls[r]) : RankOK(r, m)
    BY DEF AgreeInv
  <1>2. TypeOK /\ Len(steps[r]) \in Nat /\ Len(calls[r]) \in Nat
    BY LenIsNat DEF AgreeInv
  <1>3. m = 3 * Len(steps[r]) /\ m \in Nat
    BY <1>1, <1>2 DEF ModelCheck, RankOK, ModelOK
  <1>4. ModelKind(m + 1) = "ready"
    BY <1>2, <1>3, ReadyCallFacts DEF ModelKind
  <1>5. Enter(r, "ready", status) /\ [kind |-> "ready", value |-> status] \in Calls
    BY DEF ModelCheck, Calls
  <1> HIDE DEF status
  <1>6. m > 0 /\ ReadyCall(m) => Agreed(m)
    BY <1>1, <1>2, <1>3 DEF RankOK, RoundsOK
  <1>7. TypeOK'
    BY <1>2, <1>5, EnterFacts DEF TypeOK, ModelCheck, ModelAt, ModelPlaces
  <1>8. steps' = steps /\ model'[r] = "ready"
    BY <1>2 DEF ModelCheck, ModelAt, TypeOK
  <1>9. CallsOK(r, m + 1)' /\ calls'[r][m + 1].value = status => ModelOK(r, m + 1)'
    <2>1. m = Len(calls[r])
      BY <1>1 DEF RankOK, ModelOK, ModelCheck
    <2>2. Len(calls'[r]) = m + 1
      BY <1>2, <1>5, <2>1, EnterFacts
    <2> QED
      BY <1>3, <1>8, <2>2 DEF ModelOK
  <1> QED
    BY <1>1, <1>3, <1>4, <1>5, <1>6, <1>7, <1>8, <1>9, ModelCallKeeps DEF ModelThread

LEMMA ReadyKeeps ==
  ASSUME AgreeInv, NEW r \in Ranks, ModelReady(r) PROVE AgreeInv'
  <1>1. PICK m \in 0 .. Len(calls[r]) : RankOK(r, m)
    BY DEF AgreeInv
  <1>2. TypeOK /\ Len(steps[r]) \in Nat /\ Len(calls[r]) \in Nat /\ m \in Nat
    BY LenIsNat DEF AgreeInv
  <1>3. m = 3 * Len(steps[r]) + 1 /\ m = Len(calls[r]) /\ RoundsOK(r, m)
    BY <1>1, <1>2 DEF ModelReady, RankOK, ModelOK
  <1>4. steps' = steps /\ ModelThread(r)
    BY DEF ModelReady, ModelThread
  <1>5. ASSUME Reduced(r), Admitted(r), NEW batch \in Inputs,
               Enter(r, "inputs", IF r = 0 THEN batch ELSE Nothing),
               ModelAt(r, "inputs"), UNCHANGED failed
        PROVE  AgreeInv'
    <2> DEFINE value == IF r = 0 THEN batch ELSE Nothing
    <2>1. ModelKind(m + 1) = "inputs"
      BY <1>2, <1>3, ReadyCallFacts DEF ModelKind
    <2>2. /\ Enter(r, "inputs", value) /\ [kind |-> "inputs", value |-> value] \in Calls
          /\ r = 0 => value \in Inputs
      BY <1>5 DEF Calls
    <2> HIDE DEF value
    <2>3. Agreed(m)
      BY <1>2, <1>3, <1>5, AgreementFacts
    <2>4. model'[r] = "inputs"
      BY <1>2, <1>5 DEF ModelAt, TypeOK
    <2>5. TypeOK'
      BY <1>2, <1>5, <2>2, EnterFacts DEF TypeOK, ModelReady, ModelAt, ModelPlaces
    <2>6. Len(calls'[r]) = m + 1
      BY <1>2, <1>3, <2>2, EnterFacts
    <2>7. ModelOK(r, m + 1)'
      BY <1>2, <1>3, <1>4, <2>4, <2>6 DEF ModelOK
    <2> QED
      BY <1>1, <1>2, <1>3, <1>4, <2>1, <2>2, <2>3, <2>4, <2>5, <2>7, ModelCallKeeps
  <1>6. ASSUME UNCHANGED calls, model'[r] = "dead", TypeOK',
               failed'[r] = "no" => Refused(m)
        PROVE  AgreeInv'
    <2>1. RoundsOK(r, m)'
      BY <1>3, <1>4, <1>6 DEF RoundsOK, Agreed, Came
    <2>2. ModelOK(r, m)'
      BY <1>2, <1>3, <1>4, <1>6 DEF ModelOK, Refused, Vetoed, Came
    <2> QED
      BY <1>1, <1>2, <1>4, <1>6, <2>1, <2>2, ModelSilentKeeps
  <1>7. ASSUME UNCHANGED calls, Reduced(r), ~Admitted(r), ModelAt(r, "dead"), UNCHANGED failed
        PROVE  AgreeInv'
    <2>1. TypeOK' /\ model'[r] = "dead"
      BY <1>2, <1>7 DEF TypeOK, ModelReady, ModelAt, ModelPlaces
    <2>2. Refused(m)
      BY <1>2, <1>3, <1>7, AgreementFacts
    <2> QED
      BY <1>6, <1>7, <2>1, <2>2
  <1>8. ASSUME UNCHANGED calls, ModelFails(r)
        PROVE  AgreeInv'
    <2>1. TypeOK' /\ model'[r] = "dead" /\ failed'[r] # "no"
      BY <1>2, <1>8 DEF TypeOK, ModelReady, ModelFails, ModelAt, ModelPlaces
    <2> QED
      BY <1>6, <1>8, <2>1
  <1> QED
    BY <1>5, <1>7, <1>8 DEF ModelReady

LEMMA InputsKeeps ==
  ASSUME AgreeInv, NEW r \in Ranks, ModelInputs(r) PROVE AgreeInv'
  <1>1. PICK m \in 0 .. Len(calls[r]) : RankOK(r, m)
    BY DEF AgreeInv
  <1>2. TypeOK /\ Len(steps[r]) \in Nat /\ Len(calls[r]) \in Nat /\ m \in Nat
    BY LenIsNat DEF AgreeInv
  <1>3. m = 3 * Len(steps[r]) + 2 /\ m = Len(calls[r]) /\ RoundsOK(r, m)
    BY <1>1, <1>2 DEF ModelInputs, RankOK, ModelOK
  <1>4. steps' = steps /\ calls' = calls /\ ModelThread(r)
    BY DEF ModelInputs, ModelThread
  <1>5. RoundsOK(r, m)'
    BY <1>3, <1>4 DEF RoundsOK, Agreed, Came
  <1>6. CASE /\ Broadcast(r) /\ read' = [read EXCEPT ![r] = ValueOf(0, r)]
             /\ ModelAt(r, "prepare") /\ UNCHANGED failed
    <2>1. 0 \in Ranks /\ m \in 1 .. Len(calls[r]) /\ m <= Len(calls[0])
      BY <1>2, <1>3, <1>6 DEF Ranks, Broadcast, Arrived, Position
    <2>2. calls[0][m].kind = "inputs"
      <3>1. calls[r][m].kind = "inputs"
        BY <1>1, <1>2, <1>3, <2>1, ReadyCallFacts DEF RankOK, CallsOK, ModelKind
      <3> QED
        BY <2>1, <3>1, InvMatches
    <2>3. m \in 1 .. Len(calls[0])
      BY <1>2, <2>1, LenIsNat
    <2>4. ValueOf(0, r) = calls[0][m].value /\ ValueOf(0, r) \in Inputs
      BY <1>3, <2>2, <2>3 DEF ValueOf, Position, AgreeInv, ValuesOK
    <2>5. TypeOK' /\ model'[r] = "prepare" /\ read'[r] = calls[0][m].value
      BY <1>2, <1>6, <2>4 DEF TypeOK, ModelInputs, ModelAt, ModelPlaces
    <2>6. HasRead(r)'
      BY <1>3, <1>4, <2>1, <2>5 DEF HasRead, Came
    <2>7. ModelOK(r, m)'
      BY <1>2, <1>3, <1>4, <2>5, <2>6 DEF ModelOK
    <2> QED
      BY <1>1, <1>2, <1>4, <1>5, <2>5, <2>7, ModelSilentKeeps
  <1>7. CASE ModelFails(r) /\ UNCHANGED read
    <2>1. TypeOK' /\ model'[r] = "dead" /\ failed'[r] # "no"
      BY <1>2, <1>7 DEF TypeOK, ModelInputs, ModelFails, ModelAt, ModelPlaces
    <2>2. ModelOK(r, m)'
      BY <1>2, <1>3, <1>4, <2>1 DEF ModelOK
    <2> QED
      BY <1>1, <1>2, <1>4, <1>5, <2>1, <2>2, ModelSilentKeeps
  <1> QED
    BY <1>6, <1>7 DEF ModelInputs

LEMMA PrepareKeeps ==
  ASSUME AgreeInv, NEW r \in Ranks, ModelPrepare(r) PROVE AgreeInv'
  <1>1. PICK m \in 0 .. Len(calls[r]) : RankOK(r, m)
    BY DEF AgreeInv
  <1>2. TypeOK /\ Len(steps[r]) \in Nat /\ Len(calls[r]) \in Nat /\ m \in Nat
    BY LenIsNat DEF AgreeInv
  <1>3. m = 3 * Len(steps[r]) + 2 /\ m = Len(calls[r]) /\ HasRead(r)
    BY <1>1, <1>2 DEF ModelPrepare, RankOK, ModelOK
  <1>4. steps' = steps /\ read' = read /\ ModelThread(r)
    BY DEF ModelPrepare, ModelThread
  <1>5. ASSUME NEW value \in {"failed", "go", "stopping"}, Enter(r, "ready", value),
               NEW place \in {"giveUp", "admit"}, ModelAt(r, place),
               place = "giveUp" => value = "failed", raised' \subseteq Ranks
        PROVE  AgreeInv'
    <2>1. ModelKind(m + 1) = "ready" /\ ~ReadyCall(m)
      BY <1>2, <1>3, ReadyCallFacts DEF ModelKind
    <2>2. [kind |-> "ready", value |-> value] \in Calls
      BY DEF Calls
    <2>3. model'[r] = place
      BY <1>2, <1>5 DEF ModelAt, TypeOK
    <2>4. TypeOK'
      BY <1>2, <1>5, <2>2, EnterFacts DEF TypeOK, ModelPrepare, ModelAt, ModelPlaces
    <2>5. Len(calls'[r]) = m + 1 /\ Grows
      <3>1. main[r] # "ended" /\ main' = main
        BY <1>1, <1>4, ModelSteps, <1>2 DEF RankOK
      <3> QED
        BY <1>2, <1>3, <1>5, <2>2, <3>1, EnterFacts, CallGrows
    <2>6. HasRead(r)'
      BY <1>2, <1>3, <1>4, <2>5, ReadStays
    <2>7. ASSUME calls'[r][m + 1].value = value PROVE ModelOK(r, m + 1)'
      <3>1. m + 1 = 3 * Len(steps'[r]) + 3
        BY <1>2, <1>3, <1>4
      <3>2. CASE place = "giveUp"
        BY <1>5, <2>3, <2>5, <2>7, <3>1, <3>2 DEF ModelOK
      <3>3. CASE place = "admit"
        BY <2>3, <2>5, <2>6, <3>1, <3>3 DEF ModelOK
      <3> QED
        BY <3>2, <3>3
    <2> QED
      BY <1>1, <1>2, <1>3, <1>4, <1>5, <2>1, <2>2, <2>3, <2>4, <2>7, ModelCallKeeps
  <1>6. CASE Raises(r) /\ Enter(r, "ready", "failed") /\ ModelAt(r, "giveUp")
    <2>1. raised' \subseteq Ranks
      BY <1>2, <1>6 DEF Raises, TypeOK
    <2> QED
      BY <1>5, <1>6, <2>1
  <1>7. ASSUME UNCHANGED raised, NEW status \in {"go", "stopping"}, Enter(r, "ready", status),
               ModelAt(r, "admit")
        PROVE  AgreeInv'
    <2>1. raised' \subseteq Ranks
      BY <1>2, <1>7 DEF TypeOK
    <2> QED
      BY <1>5, <1>7, <2>1
  <1> QED
    BY <1>6, <1>7 DEF ModelPrepare

LEMMA AdmitKeeps ==
  ASSUME AgreeInv, NEW r \in Ranks, ModelAdmit(r) \/ ModelGiveUp(r) PROVE AgreeInv'
  <1>1. PICK m \in 0 .. Len(calls[r]) : RankOK(r, m)
    BY DEF AgreeInv
  <1>2. TypeOK /\ Len(steps[r]) \in Nat /\ Len(calls[r]) \in Nat /\ m \in Nat
    BY LenIsNat DEF AgreeInv
  <1>3. /\ m = 3 * Len(steps[r]) + 3 /\ m = Len(calls[r]) /\ RoundsOK(r, m)
        /\ model[r] = "admit" => HasRead(r)
        /\ model[r] = "giveUp" => Vetoed(m)
    BY <1>1, <1>2 DEF ModelAdmit, ModelGiveUp, RankOK, ModelOK, Vetoed, Came
  <1>4. steps' = steps /\ calls' = calls /\ main' = main /\ read' = read /\ ModelThread(r)
    BY DEF ModelAdmit, ModelGiveUp, ModelThread
  <1>5. RoundsOK(r, m)'
    BY <1>3, <1>4 DEF RoundsOK, Agreed, Came
  <1>6. CASE /\ model[r] = "admit" /\ Reduced(r) /\ Admitted(r)
             /\ ModelAt(r, "step") /\ UNCHANGED failed
    <2>1. TypeOK' /\ model'[r] = "step"
      BY <1>2, <1>6 DEF TypeOK, ModelAdmit, ModelGiveUp, ModelAt, ModelPlaces
    <2>2. Agreed(m) /\ HasRead(r)
      BY <1>2, <1>3, <1>6, AgreementFacts
    <2>3. Agreed(m)' /\ HasRead(r)'
      BY <1>4, <2>2 DEF Agreed, HasRead, Came
    <2>4. ModelOK(r, m)'
      BY <1>2, <1>3, <1>4, <2>1, <2>3 DEF ModelOK
    <2> QED
      BY <1>1, <1>2, <1>4, <1>5, <2>1, <2>4, ModelSilentKeeps
  <1>7. ASSUME model'[r] = "dead", TypeOK', Vetoed(m) \/ Broken(m),
               failed'[r] = "no" => Refused(m)
        PROVE  AgreeInv'
    <2>1. (Vetoed(m) \/ Broken(m))' /\ (failed'[r] = "no" => Refused(m)')
      BY <1>4, <1>7 DEF Vetoed, Broken, Refused, Came
    <2>2. ModelOK(r, m)'
      BY <1>2, <1>3, <1>4, <1>7, <2>1 DEF ModelOK
    <2> QED
      BY <1>1, <1>2, <1>4, <1>5, <1>7, <2>2, ModelSilentKeeps
  <1>8. CASE Reduced(r) /\ ~Admitted(r) /\ ModelAt(r, "dead") /\ UNCHANGED failed
    <2>1. TypeOK' /\ model'[r] = "dead"
      BY <1>2, <1>8 DEF TypeOK, ModelAdmit, ModelGiveUp, ModelAt, ModelPlaces
    <2>2. Refused(m)
      BY <1>2, <1>3, <1>8, AgreementFacts
    <2> QED
      BY <1>7, <2>1, <2>2 DEF Refused
  <1>9. CASE ModelFails(r) /\ (model[r] = "giveUp" \/ (Reduced(r) /\ PeerFailed(r)) \/ Deserted(r))
    <2>1. TypeOK' /\ model'[r] = "dead" /\ failed'[r] # "no"
      BY <1>2, <1>9 DEF TypeOK, ModelAdmit, ModelGiveUp, ModelFails, ModelAt, ModelPlaces
    <2>2. Vetoed(m) \/ Broken(m)
      BY <1>2, <1>3, <1>9, AgreementFacts DEF Refused
    <2> QED
      BY <1>7, <2>1, <2>2
  <1> QED
    BY <1>6, <1>8, <1>9 DEF ModelAdmit, ModelGiveUp

LEMMA StepKeeps ==
  ASSUME AgreeInv, NEW r \in Ranks, ModelStep(r) PROVE AgreeInv'
  <1>0. PICK n \in Nat : n = Len(steps[r])
    BY LenIsNat DEF AgreeInv
  <1>1. PICK m \in 0 .. Len(calls[r]) : RankOK(r, m)
    BY DEF AgreeInv
  <1>2. TypeOK /\ n \in Nat /\ Len(calls[r]) \in Nat /\ m \in Nat
    BY LenIsNat DEF AgreeInv
  <1>3. /\ m = 3 * n + 3 /\ m = Len(calls[r]) /\ RoundsOK(r, m)
        /\ Came(0, 3 * n + 2) /\ read[r] = calls[0][3 * n + 2].value /\ Agreed(m)
    BY <1>0, <1>1, <1>2 DEF ModelStep, RankOK, ModelOK, HasRead
  <1>4. calls' = calls /\ ModelThread(r)
    BY DEF ModelStep, ModelThread
  <1>5. /\ steps'[r] = Append(steps[r], read[r]) /\ read[r] \in Inputs
        /\ steps' \in [Ranks -> Seq(Inputs)]
    <2>1. read[r] \in Inputs
      <3>1. 0 \in Ranks /\ 3 * n + 2 \in 1 .. Len(calls[r]) /\ 3 * n + 2 <= Len(calls[0])
        BY <1>2, <1>3 DEF Came, Ranks
      <3>2. calls[r][3 * n + 2].kind = "inputs"
        BY <1>1, <1>2, <1>3, <3>1, ReadyCallFacts DEF RankOK, CallsOK, ModelKind
      <3>3. calls[0][3 * n + 2].kind = "inputs"
        BY <3>1, <3>2, InvMatches
      <3>4. 3 * n + 2 \in 1 .. Len(calls[0])
        BY <1>2, <3>1, LenIsNat
      <3> QED
        BY <1>3, <3>3, <3>4 DEF AgreeInv, ValuesOK
    <2> QED
      BY <1>2, <2>1 DEF ModelStep, TypeOK
  <1>6. /\ Len(steps'[r]) = n + 1 /\ steps'[r][n + 1] = read[r]
        /\ \A i \in 1 .. n : steps'[r][i] = steps[r][i]
    BY <1>0, <1>2, <1>5, LenIsNat, AppendProperties
  <1>7. TypeOK' /\ model'[r] \in {"check", "dead"}
                /\ (model'[r] = "dead" => failed'[r] # "no")
    <2>1. CASE ModelAt(r, "check") /\ UNCHANGED <<failed, raised>>
      BY <1>2, <1>5, <2>1 DEF ModelStep, TypeOK, ModelAt, ModelPlaces
    <2>2. CASE Raises(r) /\ ModelFails(r)
      BY <1>2, <1>5, <2>2 DEF ModelStep, TypeOK, ModelFails, ModelAt, ModelPlaces, Raises
    <2> QED
      BY <2>1, <2>2 DEF ModelStep
  <1>8. RoundsOK(r, m)'
    <2>1. m \in 3 * (n + 1) .. 3 * (n + 1) + 3
      BY <1>2, <1>3
    <2>2. ASSUME NEW i \in 1 .. n + 1
          PROVE  /\ Agreed(3 * i)' /\ Came(0, 3 * i - 1)'
                 /\ steps'[r][i] = calls'[0][3 * i - 1].value
      <3>1. CASE i = n + 1
        <4>1. 3 * i = m /\ 3 * i - 1 = 3 * n + 2
          BY <1>2, <1>3, <3>1
        <4>2. Agreed(m)' /\ Came(0, 3 * n + 2)'
          BY <1>3, <1>4 DEF Agreed, Came
        <4> QED
          BY <1>3, <1>4, <1>6, <3>1, <4>1, <4>2
      <3>2. CASE i # n + 1
        <4>1. i \in 1 .. n
          BY <1>2, <3>2
        <4>2. Agreed(3 * i) /\ Came(0, 3 * i - 1) /\ steps[r][i] = calls[0][3 * i - 1].value
          BY <1>0, <1>3, <4>1 DEF RoundsOK
        <4>3. Agreed(3 * i)' /\ Came(0, 3 * i - 1)'
          BY <1>4, <4>2 DEF Agreed, Came
        <4> QED
          BY <1>4, <1>6, <4>1, <4>2, <4>3
      <3> QED
        BY <3>1, <3>2
    <2> QED
      BY <1>6, <2>1, <2>2 DEF RoundsOK
  <1>9. ModelOK(r, m)'
    BY <1>2, <1>3, <1>4, <1>6, <1>7, SMTT(20) DEF ModelOK
  <1> QED
    BY <1>1, <1>2, <1>4, <1>7, <1>8, <1>9, ModelSilentKeeps

-----------------------------------------------------------------------------
(* The main thread's steps.                                                 *)

(***************************************************************************)
(* A step of the main thread that calls nobody and leaves the model thread *)
(* where it is.                                                            *)
(***************************************************************************)
LEMMA MainSilentKeeps ==
  ASSUME AgreeInv, NEW r \in Ranks, NEW m \in Nat, RankOK(r, m), main[r] # "ended",
         calls' = calls, steps' = steps, read' = read, TypeOK',
         \A p \in Ranks \ {r} : /\ model'[p] = model[p] /\ main'[p] = main[p]
                                /\ failed'[p] = failed[p]
                                /\ nextSession'[p] = nextSession[p],
         ModelOK(r, m)' \/ (model' = model /\ (failed'[r] = "no" => failed[r] = "no")),
         MainOK(r, m)'
  PROVE  AgreeInv'
  <1>1. TypeOK /\ CallsOK(r, m) /\ RoundsOK(r, m) /\ ModelOK(r, m)
    BY DEF AgreeInv, RankOK
  <1>2. Grows
    BY <1>1, SilentGrows
  <1>3. CallsOK(r, m)' /\ RoundsOK(r, m)'
    BY <1>1, <1>2, CallsStay, RoundsStay
  <1>4. ModelOK(r, m)'
    BY <1>1, <1>2, ModelStays
  <1>5. \A p \in Ranks \ {r} : Spares(p)
    BY DEF Spares
  <1>6. ValuesOK'
    BY DEF ValuesOK, AgreeInv
  <1>7. RankOK(r, m)' /\ m \in 0 .. Len(calls'[r])
    BY <1>3, <1>4 DEF RankOK, CallsOK
  <1> QED
    BY <1>2, <1>5, <1>6, <1>7, Assemble

LEMMA SetupKeeps ==
  ASSUME AgreeInv, NEW r \in Ranks, Setup(r) PROVE AgreeInv'
  <1>1. PICK m \in 0 .. Len(calls[r]) : RankOK(r, m)
    BY DEF AgreeInv
  <1>2. TypeOK /\ Len(steps[r]) \in Nat /\ Len(calls[r]) \in Nat /\ m \in Nat
    BY LenIsNat DEF AgreeInv
  <1>3. /\ model[r] = "off" /\ main[r] = "setup" /\ m = 0 /\ m = Len(calls[r])
        /\ m = 3 * Len(steps[r])
    BY <1>1, <1>2 DEF Setup, RankOK, ModelOK, MainOK, RoundsOK
  <1>4. calls' = calls /\ steps' = steps /\ read' = read /\ nextSession' = nextSession
    BY DEF Setup
  <1>5. CASE /\ \E over \in BOOLEAN : stop' = [stop EXCEPT ![r] = over]
             /\ ModelAt(r, "check") /\ MainAt(r, "tick") /\ UNCHANGED <<failed, raised>>
    <2>1. TypeOK' /\ model'[r] = "check" /\ main'[r] = "tick"
      BY <1>2, <1>4, <1>5 DEF TypeOK, ModelAt, MainAt, ModelPlaces, MainPlaces
    <2>2. \A p \in Ranks \ {r} : /\ model'[p] = model[p] /\ main'[p] = main[p]
                                 /\ failed'[p] = failed[p]
                                 /\ nextSession'[p] = nextSession[p]
      BY <1>2, <1>4, <1>5 DEF TypeOK, ModelAt, MainAt
    <2>3. ModelOK(r, m)' /\ MainOK(r, m)'
      BY <1>3, <1>4, <2>1 DEF ModelOK, MainOK
    <2> QED
      BY <1>1, <1>2, <1>3, <1>4, <2>1, <2>2, <2>3, MainSilentKeeps
  <1>6. CASE /\ Raises(r) /\ failed' = [failed EXCEPT ![r] = "main"]
             /\ stop' = [stop EXCEPT ![r] = TRUE] /\ MainAt(r, "join") /\ UNCHANGED model
    <2>1. TypeOK' /\ failed'[r] = "main" /\ main'[r] = "join" /\ model' = model
      BY <1>2, <1>4, <1>6 DEF TypeOK, Raises, MainAt, MainPlaces
    <2>2. \A p \in Ranks \ {r} : /\ model'[p] = model[p] /\ main'[p] = main[p]
                                 /\ failed'[p] = failed[p]
                                 /\ nextSession'[p] = nextSession[p]
      BY <1>2, <1>4, <1>6 DEF TypeOK, MainAt
    <2>3. MainOK(r, m)'
      BY <1>3, <2>1 DEF MainOK
    <2> QED
      BY <1>1, <1>2, <1>3, <1>4, <2>1, <2>2, <2>3, MainSilentKeeps
  <1> QED
    BY <1>5, <1>6 DEF Setup

LEMMA StopKeeps ==
  ASSUME AgreeInv, NEW r \in Ranks, StopRequested(r) PROVE AgreeInv'
  <1>1. PICK m \in 0 .. Len(calls[r]) : RankOK(r, m)
    BY DEF AgreeInv
  <1>2. TypeOK /\ m \in Nat
    BY LenIsNat DEF AgreeInv
  <1>3. /\ main[r] = "tick"
        /\ UNCHANGED <<calls, model, main, failed, read, steps, raised>>
    BY DEF StopRequested
  <1>4. PICK d \in {Nothing, Replacement} : nextSession' = [nextSession EXCEPT ![r] = d]
    BY DEF StopRequested
  <1>5. TypeOK' /\ \A p \in Ranks \ {r} : nextSession'[p] = nextSession[p]
    BY <1>2, <1>3, <1>4 DEF TypeOK, StopRequested
  <1>6. MainOK(r, m)'
    BY <1>1, <1>3 DEF RankOK, MainOK, Came
  <1> QED
    BY <1>1, <1>2, <1>3, <1>5, <1>6, MainSilentKeeps

(***************************************************************************)
(* A main thread that leaves its loop with a failure, whose model thread   *)
(* has been started.                                                       *)
(***************************************************************************)
LEMMA FailsKeeps ==
  ASSUME AgreeInv, NEW r \in Ranks, main[r] \in {"tick", "poll"}, MainAt(r, "join"),
         NEW how \in {"model", "main"}, failed' = [failed EXCEPT ![r] = how],
         stop' = [stop EXCEPT ![r] = TRUE], raised' \subseteq Ranks,
         UNCHANGED <<calls, model, nextSession, read, steps>>
  PROVE  AgreeInv'
  <1>1. PICK m \in 0 .. Len(calls[r]) : RankOK(r, m)
    BY DEF AgreeInv
  <1>2. TypeOK /\ m \in Nat
    BY LenIsNat DEF AgreeInv
  <1>3. TypeOK' /\ failed'[r] # "no" /\ main'[r] = "join" /\ model' = model
    BY <1>2 DEF TypeOK, MainAt, MainPlaces
  <1>4. \A p \in Ranks \ {r} : main'[p] = main[p] /\ failed'[p] = failed[p]
    BY <1>2 DEF TypeOK, MainAt
  <1>5. model[r] # "off"
    BY <1>1, <1>2 DEF RankOK, MainOK
  <1>6. MainOK(r, m)'
    BY <1>3, <1>5 DEF MainOK
  <1> QED
    BY <1>1, <1>2, <1>3, <1>4, <1>6, MainSilentKeeps

LEMMA TickFailsKeeps ==
  ASSUME AgreeInv, NEW r \in Ranks, TickFails(r) PROVE AgreeInv'
  <1>1. raised' \subseteq Ranks
    BY DEF TickFails, Raises, AgreeInv, TypeOK
  <1> QED
    BY <1>1, FailsKeeps DEF TickFails

LEMMA LeaveKeeps ==
  ASSUME AgreeInv, NEW r \in Ranks, Leave(r) PROVE AgreeInv'
  <1>1. PICK m \in 0 .. Len(calls[r]) : RankOK(r, m)
    BY DEF AgreeInv
  <1>2. TypeOK /\ m \in Nat
    BY LenIsNat DEF AgreeInv
  <1>3. TypeOK' /\ main'[r] = "ended" /\ \A p \in Ranks \ {r} : main'[p] = main[p]
    BY <1>2 DEF TypeOK, Leave, MainAt, MainPlaces
  <1>4. MainOK(r, m)'
    BY <1>1, <1>3 DEF RankOK, MainOK, Leave, Came
  <1> QED
    BY <1>1, <1>2, <1>3, <1>4, MainSilentKeeps DEF Leave

LEMMA PollKeeps ==
  ASSUME AgreeInv, NEW r \in Ranks, Poll(r) PROVE AgreeInv'
  <1>1. PICK m \in 0 .. Len(calls[r]) : RankOK(r, m)
    BY DEF AgreeInv
  <1>2. TypeOK /\ Len(steps[r]) \in Nat /\ m \in Nat
    BY LenIsNat DEF AgreeInv
  <1>3. PICK last \in Nat : last = Len(calls[r])
    BY <1>2, LenIsNat
  <1>4. m <= last
    BY <1>2, <1>3
  <1>5. CASE failed[r] # "no" /\ stop' = [stop EXCEPT ![r] = TRUE] /\ MainAt(r, "join")
             /\ UNCHANGED calls
    <2>1. failed' = [failed EXCEPT ![r] = failed[r]] /\ failed[r] \in {"model", "main"}
      BY <1>2, <1>5 DEF Poll, TypeOK
    <2> QED
      BY <1>2, <1>5, <2>1, FailsKeeps DEF Poll, TypeOK
  <1>6. ASSUME failed[r] = "no", NEW stopping \in BOOLEAN,
               Enter(r, "result", Result(r, stopping)), MainAt(r, "poll"), UNCHANGED stop
        PROVE  AgreeInv'
    <2>1. /\ model[r] = "dead" /\ main[r] = "tick"
          /\ UNCHANGED <<model, failed, nextSession, read, steps, raised>>
      BY DEF Poll
    <2>2. PICK value \in {"continue", Nothing, Replacement} : value = Result(r, stopping)
      BY <1>2 DEF Result, TypeOK
    <2>3. [kind |-> "result", value |-> value] \in Calls
      BY DEF Calls
    <2>4. main'[r] = "poll" /\ \A p \in Ranks \ {r} : main'[p] = main[p]
      BY <1>2, <1>6 DEF MainAt, TypeOK
    <2>5. Grows /\ ValuesOK'
      BY <1>2, <1>6, <2>1, <2>2, <2>3, <2>4, CallGrows, ValuesKeep DEF AgreeInv
    <2>6. TypeOK'
      BY <1>2, <1>6, <2>1, <2>2, <2>3, EnterFacts DEF TypeOK, MainAt, MainPlaces
    <2>7. m \in {3 * Len(steps[r]) + 1, 3 * Len(steps[r]) + 3} /\ Refused(m)
      BY <1>1, <1>6, <2>1 DEF RankOK, ModelOK
    <2>8. m > 0 /\ ReadyCall(m)
      BY <1>2, <2>7, ReadyCallFacts
    <2>9. m < last => Came(0, last) /\ calls[0][last].value = "continue"
      BY <1>1, <1>3, <1>6, <2>1 DEF RankOK, MainOK
    <2>10. CallsOK(r, m)' /\ Len(calls'[r]) = last + 1
      BY <1>1, <1>2, <1>3, <1>6, <2>2, <2>3, <2>5, <2>7, <2>8, <2>9, ResultCalls DEF RankOK
    <2>11. RoundsOK(r, m)'
      BY <1>1, <1>2, <2>1, <2>5, RoundsStay DEF RankOK
    <2>12. ModelOK(r, m)'
      <3>1. Refused(m)'
        BY <1>2, <2>5, <2>7, <2>8, GrowsKeeps
      <3>2. model'[r] = "dead"
        BY <2>1
      <3> QED
        BY <2>1, <2>7, <3>1, <3>2 DEF ModelOK, Refused
    <2>13. MainOK(r, m)'
      BY <1>4, <1>6, <2>1, <2>4, <2>10 DEF MainOK
    <2>14. \A p \in Ranks \ {r} : Spares(p)
      BY <1>2, <1>6, <2>1, <2>2, <2>3, <2>4, EnterFacts DEF Spares
    <2>15. RankOK(r, m)' /\ m \in 0 .. Len(calls'[r])
      BY <1>4, <2>10, <2>11, <2>12, <2>13 DEF RankOK
    <2> QED
      BY <2>5, <2>6, <2>14, <2>15, Assemble
  <1> QED
    BY <1>5, <1>6 DEF Poll

LEMMA PolledKeeps ==
  ASSUME AgreeInv, NEW r \in Ranks, Polled(r) PROVE AgreeInv'
  <1>1. PICK m \in 0 .. Len(calls[r]) : RankOK(r, m)
    BY DEF AgreeInv
  <1>2. TypeOK /\ Len(steps[r]) \in Nat /\ m \in Nat
    BY LenIsNat DEF AgreeInv
  <1>3. PICK last \in Nat : last = Len(calls[r])
    BY <1>2, LenIsNat
  <1>4. /\ model[r] = "dead" /\ failed[r] = "no" /\ m < last /\ main[r] = "poll"
        /\ UNCHANGED <<calls, model, read, steps, raised>>
    BY <1>1, <1>3 DEF RankOK, MainOK, Polled
  <1>5. CASE Deserted(r) /\ failed' = [failed EXCEPT ![r] = "main"]
             /\ stop' = [stop EXCEPT ![r] = TRUE] /\ MainAt(r, "join") /\ UNCHANGED nextSession
    BY <1>2, <1>4, <1>5, FailsKeeps DEF TypeOK
  <1>6. ASSUME Broadcast(r)
        PROVE  /\ Came(0, last) /\ ValueOf(0, r) = calls[0][last].value
               /\ ValueOf(0, r) \in {"continue", Nothing, Replacement}
    <2>1. 0 \in Ranks /\ last \in 1 .. Len(calls[r]) /\ last <= Len(calls[0])
      BY <1>2, <1>3, <1>4, <1>6 DEF Ranks, Broadcast, Arrived, Position
    <2>2. calls[r][last].kind = "result"
      BY <1>1, <1>2, <1>3, <1>4 DEF RankOK, CallsOK
    <2>3. calls[0][last].kind = "result"
      BY <2>1, <2>2, InvMatches
    <2>4. last \in 1 .. Len(calls[0])
      BY <1>2, <2>1, LenIsNat
    <2> QED
      BY <1>3, <2>3, <2>4 DEF AgreeInv, ValuesOK, ValueOf, Position, Came
  <1>7. CASE /\ Broadcast(r) /\ ValueOf(0, r) = "continue"
             /\ MainAt(r, "tick") /\ UNCHANGED <<stop, failed, nextSession>>
    <2>1. TypeOK' /\ main'[r] = "tick" /\ \A p \in Ranks \ {r} : main'[p] = main[p]
      BY <1>2, <1>4, <1>7 DEF TypeOK, MainAt, MainPlaces
    <2>2. Came(0, last)' /\ calls'[0][last].value = "continue"
      BY <1>4, <1>6, <1>7 DEF Came
    <2>3. MainOK(r, m)'
      BY <1>3, <1>4, <1>7, <2>1, <2>2 DEF MainOK
    <2> QED
      BY <1>1, <1>2, <1>4, <1>7, <2>1, <2>3, MainSilentKeeps
  <1>8. CASE /\ Broadcast(r) /\ ValueOf(0, r) # "continue"
             /\ nextSession' = [nextSession EXCEPT ![r] = ValueOf(0, r)]
             /\ stop' = [stop EXCEPT ![r] = TRUE]
             /\ MainAt(r, "join") /\ UNCHANGED failed
    <2>1. ValueOf(0, r) \in {Nothing, Replacement} /\ Came(0, last)
          /\ ValueOf(0, r) = calls[0][last].value
      BY <1>6, <1>8
    <2>2. /\ TypeOK' /\ main'[r] = "join" /\ nextSession'[r] = ValueOf(0, r)
          /\ \A p \in Ranks \ {r} : main'[p] = main[p] /\ nextSession'[p] = nextSession[p]
      BY <1>2, <1>4, <1>8, <2>1 DEF TypeOK, MainAt, MainPlaces
    <2>3. /\ Came(0, last)' /\ calls'[0][last].value # "continue"
          /\ nextSession'[r] = calls'[0][last].value
      BY <1>4, <1>8, <2>1, <2>2 DEF Came
    <2>4. MainOK(r, m)'
      BY <1>3, <1>4, <1>8, <2>2, <2>3 DEF MainOK
    <2> QED
      BY <1>1, <1>2, <1>4, <1>8, <2>2, <2>4, MainSilentKeeps
  <1> QED
    BY <1>5, <1>7, <1>8 DEF Polled

-----------------------------------------------------------------------------
LEMMA InitAgree == Init => AgreeInv
  <1> SUFFICES ASSUME Init PROVE AgreeInv
    OBVIOUS
  <1>1. 0 \in Ranks /\ TypeOK
    BY DEF Init, TypeOK, Ranks, ModelPlaces, MainPlaces
  <1>2. ASSUME NEW r \in Ranks
        PROVE  Len(calls[r]) = 0 /\ Len(steps[r]) = 0
    BY DEF Init
  <1>3. ValuesOK
    BY <1>1, <1>2 DEF ValuesOK
  <1>4. ASSUME NEW r \in Ranks
        PROVE  RankOK(r, 0)
    <2>1. CallsOK(r, 0)
      BY <1>2 DEF CallsOK
    <2>2. RoundsOK(r, 0)
      BY <1>2 DEF RoundsOK
    <2>3. ModelOK(r, 0) /\ MainOK(r, 0)
      BY <1>2 DEF ModelOK, MainOK, Init
    <2> QED
      BY <2>1, <2>2, <2>3 DEF RankOK
  <1> QED
    BY <1>1, <1>2, <1>3, <1>4 DEF AgreeInv

LEMMA StutterKeeps ==
  ASSUME AgreeInv, UNCHANGED vars PROVE AgreeInv'
  <1>1. TypeOK' /\ ValuesOK'
    BY DEF AgreeInv, TypeOK, ValuesOK, vars
  <1>2. ASSUME NEW r \in Ranks
        PROVE  \E m \in 0 .. Len(calls'[r]) : RankOK(r, m)'
    <2>1. PICK m \in 0 .. Len(calls[r]) : RankOK(r, m)
      BY DEF AgreeInv
    <2>2. Grows /\ Spares(r)
      BY LenIsNat DEF AgreeInv, Grows, Spares, vars
    <2>3. m \in 0 .. Len(calls'[r]) /\ m \in Nat
      BY DEF vars
    <2> QED
      BY <2>1, <2>2, <2>3, SparedStays DEF AgreeInv
  <1> QED
    BY <1>1, <1>2 DEF AgreeInv

LEMMA NextKeeps == AgreeInv /\ [Next]_vars => AgreeInv'
  <1> SUFFICES ASSUME AgreeInv, [Next]_vars PROVE AgreeInv'
    OBVIOUS
  <1>1. ASSUME NEW r \in Ranks, ModelThread(r)
        PROVE  AgreeInv'
    BY <1>1, CheckKeeps, ReadyKeeps, InputsKeeps, PrepareKeeps, AdmitKeeps, StepKeeps
       DEF ModelThread
  <1>2. ASSUME NEW r \in Ranks, MainThread(r)
        PROVE  AgreeInv'
    BY <1>2, SetupKeeps, StopKeeps, TickFailsKeeps, PollKeeps, PolledKeeps, LeaveKeeps
       DEF MainThread
  <1> QED
    BY <1>1, <1>2, StutterKeeps DEF Next, Finished

(***************************************************************************)
(* In every reachable state each rank's calls are a prefix of one sequence of*)
(* rounds, and where its two threads are follows from the last of them.    *)
(***************************************************************************)
THEOREM AgreeInvHolds == Spec => []AgreeInv
  BY InitAgree, NextKeeps, PTL DEF Spec

-----------------------------------------------------------------------------
(***************************************************************************)
(* The ranks make the same collectives in the same order, on whichever of  *)
(* their threads: the k-th calls of two ranks are of one kind.             *)
(***************************************************************************)
THEOREM CollectivesAlwaysMatch == Spec => []CollectivesMatch
  <1>1. AgreeInv => CollectivesMatch
    <2> SUFFICES ASSUME AgreeInv, NEW q \in Ranks, NEW r \in Ranks,
                        NEW k \in DOMAIN calls[q] \cap DOMAIN calls[r]
                 PROVE  calls[q][k].kind = calls[r][k].kind
      BY DEF AgreeInv, CollectivesMatch
    <2>1. k \in 1 .. Len(calls[q]) /\ k <= Len(calls[r])
      BY LenIsNat DEF AgreeInv
    <2> QED
      BY <2>1, InvMatches
  <1> QED
    BY <1>1, AgreeInvHolds, PTL

(***************************************************************************)
(* A rank q that has come to a call of rank r's model thread made it on    *)
(* its own model thread.                                                   *)
(***************************************************************************)
LEMMA ModelCallsMeet ==
  ASSUME AgreeInv, NEW q \in Ranks, NEW r \in Ranks, NEW mq \in Nat, NEW mr \in Nat,
         CallsOK(q, mq), CallsOK(r, mr), mr > 0, mr <= Len(calls[q])
  PROVE  mr <= mq
  <1> SUFFICES ASSUME mq < mr PROVE FALSE
    OBVIOUS
  <1>1. Len(calls[q]) \in Nat /\ Len(calls[r]) \in Nat
    BY LenIsNat DEF AgreeInv
  <1>2. calls[q][mr].kind = "result"
    BY <1>1 DEF CallsOK
  <1>3. calls[r][mr].kind = ModelKind(mr) /\ mr <= Len(calls[r])
    BY <1>1 DEF CallsOK
  <1>4. calls[q][mr].kind = calls[r][mr].kind
    BY <1>1, <1>3, InvMatches
  <1> QED
    BY <1>2, <1>3, <1>4 DEF ModelKind

(***************************************************************************)
(* A rank is in a step only when every rank is committed to it: it has run *)
(* it, is in it, or has only to see the agreement.                         *)
(***************************************************************************)
THEOREM AdmissionAlwaysCommitsAll == Spec => []AdmissionCommitsAll
  <1>1. AgreeInv => AdmissionCommitsAll
    <2> SUFFICES ASSUME AgreeInv, NEW r \in Ranks, model[r] = "step", NEW q \in Ranks
                 PROVE  \/ Len(steps[q]) > Len(steps[r])
                        \/ /\ Len(steps[q]) = Len(steps[r])
                           /\ \/ model[q] = "step"
                              \/ model[q] = "admit" /\ Reduced(q) /\ Admitted(q)
      BY DEF AdmissionCommitsAll
    <2>1. PICK mr \in 0 .. Len(calls[r]) : RankOK(r, mr)
      BY DEF AgreeInv
    <2>2. PICK mq \in 0 .. Len(calls[q]) : RankOK(q, mq)
      BY DEF AgreeInv
    <2>3. /\ TypeOK /\ mr \in Nat /\ mq \in Nat
          /\ Len(calls[q]) \in Nat /\ Len(steps[q]) \in Nat /\ Len(steps[r]) \in Nat
      BY LenIsNat DEF AgreeInv
    <2>4. mr = 3 * Len(steps[r]) + 3 /\ Agreed(mr)
      BY <2>1 DEF RankOK, ModelOK
    <2>5. mr <= Len(calls[q]) /\ calls[q][mr].value = "go"
      BY <2>4 DEF Agreed, Came
    <2>6. mr <= mq
      BY <2>1, <2>2, <2>3, <2>4, <2>5, ModelCallsMeet DEF RankOK
    <2>7. mq <= 3 * Len(steps[q]) + 3
      BY <2>2, <2>3 DEF RankOK, RoundsOK
    <2>8. CASE Len(steps[q]) # Len(steps[r])
      BY <2>3, <2>4, <2>6, <2>7, <2>8
    <2>9. CASE Len(steps[q]) = Len(steps[r])
      <3>1. mq = mr /\ mq = 3 * Len(steps[q]) + 3
        BY <2>3, <2>4, <2>6, <2>7, <2>9
      <3>2. ~Vetoed(mq) /\ ~Broken(mq)
        BY <2>4, <3>1 DEF Agreed, Vetoed, Broken
      <3>3. model[q] \notin {"off", "check", "ready", "inputs", "prepare"}
        BY <2>2, <2>3, <3>1 DEF RankOK, ModelOK
      <3>4. model[q] \notin {"giveUp", "dead"}
        BY <2>2, <2>5, <3>1, <3>2 DEF RankOK, ModelOK
      <3>5. model[q] \in {"admit", "step"}
        BY <2>3, <3>3, <3>4 DEF TypeOK, ModelPlaces
      <3>6. ASSUME model[q] = "admit"
            PROVE  Reduced(q) /\ Admitted(q)
        <4>1. mq = Len(calls[q])
          BY <2>2, <3>6 DEF RankOK, ModelOK
        <4> QED
          BY <2>3, <2>4, <3>1, <4>1, AgreementFacts
      <3> QED
        BY <2>9, <3>5, <3>6
    <2> QED
      BY <2>8, <2>9
  <1> QED
    BY <1>1, AgreeInvHolds, PTL

(***************************************************************************)
(* Where the calls of a rank that has ended in order end.                  *)
(***************************************************************************)
EndsAt(r, m, last) ==
    /\ last = Len(calls[r]) /\ last \in Nat /\ m < last
    /\ m \in {3 * Len(steps[r]) + 1, 3 * Len(steps[r]) + 3}
    /\ calls[0][last].value # "continue"
    /\ nextSession[r] = calls[0][last].value

LEMMA EndOfRank ==
  ASSUME AgreeInv, NEW r \in Ranks, main[r] = "ended", failed[r] = "no",
         NEW m \in Nat, RankOK(r, m)
  PROVE  EndsAt(r, m, Len(calls[r])) /\ CallsOK(r, m)
  <1>1. /\ model[r] = "dead" /\ m < Len(calls[r])
        /\ calls[0][Len(calls[r])].value # "continue"
        /\ nextSession[r] = calls[0][Len(calls[r])].value
    BY DEF RankOK, MainOK
  <1>2. m \in {3 * Len(steps[r]) + 1, 3 * Len(steps[r]) + 3}
    BY <1>1 DEF RankOK, ModelOK
  <1>3. Len(calls[r]) \in Nat
    BY LenIsNat DEF AgreeInv
  <1> QED
    BY <1>1, <1>2, <1>3 DEF EndsAt, RankOK

LEMMA EndsTogether ==
  ASSUME AgreeInv, NEW q \in Ranks, NEW r \in Ranks, NEW mq \in Nat, NEW mr \in Nat,
         NEW lq, NEW lr, EndsAt(q, mq, lq), EndsAt(r, mr, lr), CallsOK(q, mq), CallsOK(r, mr)
  PROVE  lq >= lr
  <1> SUFFICES ASSUME lq < lr PROVE FALSE
    BY DEF EndsAt
  <1>1. lq \in Nat /\ lr \in Nat /\ mq < lq /\ lq = Len(calls[q]) /\ lr = Len(calls[r])
    BY DEF EndsAt
  <1>2. lq <= mr
    BY <1>1 DEF CallsOK, EndsAt
  <1>3. calls[q][lq].kind = "result"
    BY <1>1 DEF CallsOK
  <1>4. calls[r][lq].kind = ModelKind(lq)
    BY <1>1, <1>2 DEF CallsOK
  <1>5. calls[q][lq].kind = calls[r][lq].kind
    BY <1>1, InvMatches
  <1> QED
    BY <1>3, <1>4, <1>5 DEF ModelKind

(***************************************************************************)
(* Ranks that end without a failure have run the same steps on the same    *)
(* input, and agree on what session follows.                               *)
(***************************************************************************)
THEOREM OutcomeAlwaysSame == Spec => []SameOutcome
  <1>1. AgreeInv => SameOutcome
    <2> SUFFICES ASSUME AgreeInv, NEW q \in Ranks, NEW r \in Ranks,
                        \A p \in {q, r} : main[p] = "ended" /\ failed[p] = "no"
                 PROVE  nextSession[q] = nextSession[r] /\ steps[q] = steps[r]
      BY DEF SameOutcome
    <2>1. PICK mr \in 0 .. Len(calls[r]) : RankOK(r, mr)
      BY DEF AgreeInv
    <2>2. PICK mq \in 0 .. Len(calls[q]) : RankOK(q, mq)
      BY DEF AgreeInv
    <2>3. TypeOK /\ mr \in Nat /\ mq \in Nat
      BY LenIsNat DEF AgreeInv
    <2>4. /\ EndsAt(q, mq, Len(calls[q])) /\ CallsOK(q, mq)
          /\ EndsAt(r, mr, Len(calls[r])) /\ CallsOK(r, mr)
      BY <2>1, <2>2, <2>3, EndOfRank
    <2>5. Len(calls[q]) = Len(calls[r])
      <3>1. Len(calls[q]) >= Len(calls[r]) /\ Len(calls[r]) >= Len(calls[q])
        BY <2>3, <2>4, EndsTogether
      <3> QED
        BY <2>3, <3>1, LenIsNat
    <2>6. nextSession[q] = nextSession[r]
      BY <2>4, <2>5 DEF EndsAt
    <2>7. mq = mr
      <3>1. /\ mr > 0 /\ mq > 0 /\ mr <= Len(calls[q]) /\ mq <= Len(calls[r])
        BY <2>3, <2>4, <2>5, LenIsNat DEF EndsAt
      <3>2. mr <= mq /\ mq <= mr
        BY <2>3, <2>4, <3>1, ModelCallsMeet
      <3> QED
        BY <2>3, <3>2
    <2>8. Len(steps[q]) = Len(steps[r])
      BY <2>3, <2>4, <2>7, LenIsNat DEF EndsAt
    <2>9. ASSUME NEW i \in 1 .. Len(steps[r])
          PROVE  steps[q][i] = steps[r][i]
      BY <2>1, <2>2, <2>8 DEF RankOK, RoundsOK
    <2>10. steps[q] = steps[r]
      BY <2>3, <2>8, <2>9, LenIsNat, SeqEqual
    <2> QED
      BY <2>6, <2>10
  <1> QED
    BY <1>1, AgreeInvHolds, PTL
=============================================================================
