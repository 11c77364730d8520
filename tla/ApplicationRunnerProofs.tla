---------------------- MODULE ApplicationRunnerProofs ----------------------
(***************************************************************************)
(* Proofs about ApplicationRunner, for any number of ranks, any step       *)
(* budget and any bounds.  An invariant of the budget needs what each      *)
(* place of `run' implies: how much of the budget is spent, counted or not *)
(* yet subtracted there, and that only a rank with steps left goes on.     *)
(* On top of it come three more: who owns the window, what a session that  *)
(* begins after the deadline leads to, and how far apart ranks that no     *)
(* exception has disturbed can be.                                         *)
(***************************************************************************)
EXTENDS ApplicationRunner, FiniteSetTheorems, TLAPS

USE DEF Ranks, Flags, Places, Causes, Steps, Locals

(***************************************************************************)
(* Where a rank that has run a session goes on to another one, there are   *)
(* steps left for it.                                                      *)
(***************************************************************************)
GoesOnWithSteps ==
    \A r \in Ranks :
        /\ run[r].pc = "init" => run[r].sessions = 0
        /\ run[r].pc = "check" /\ run[r].next /\ run[r].sessions > 0
            => run[r].remaining # 0
        /\ run[r].pc = "create" /\ run[r].sessions > 0 => run[r].remaining # 0
        /\ run[r].pc = "session" /\ run[r].sessions > 1 => run[r].remaining # 0

(***************************************************************************)
(* A limited run has a number left on every rank.                          *)
(***************************************************************************)
LimitStays ==
    steps # Unbound => \A r \in Ranks : run[r].remaining # Unbound

(***************************************************************************)
(* On rank 0 what is left and what is taken add up to the budget, except   *)
(* that the steps of a session just decided are still to be subtracted.    *)
(***************************************************************************)
Account ==
    /\ decision.session <= run[0].sessions
    /\ steps # Unbound /\ flags # "preload" =>
        /\ taken <= steps
        /\ run[0].pc \in {"init", "check", "create"}
            => run[0].remaining + taken = steps
        /\ run[0].pc = "session" /\ ~Decided(0)
            => run[0].remaining + taken = steps
        /\ run[0].pc = "session" /\ Decided(0)
            => /\ run[0].remaining + taken = steps + decision.used
               /\ decision.used <= run[0].remaining

BudgetInv == TypeOK /\ GoesOnWithSteps /\ LimitStays /\ Account

-----------------------------------------------------------------------------
(***************************************************************************)
(* max(0, remaining - used) is a number or no limit, as remaining is.      *)
(***************************************************************************)
LEMMA LeftIsSteps ==
    ASSUME TypeOK, NEW r \in Ranks, NEW used \in Nat
    PROVE  /\ Left(r, used) \in Steps
           /\ run[r].remaining # Unbound => Left(r, used) # Unbound
           /\ run[r].remaining # Unbound /\ used <= run[r].remaining
                => Left(r, used) = run[r].remaining - used
  BY BudgetsAreNat DEF TypeOK, Left

(***************************************************************************)
(* The counters of close() stay counters.                                  *)
(***************************************************************************)
LEMMA CloseCounts ==
    ASSUME TypeOK, NEW r \in Ranks, NEW what, Close(r, what)
    PROVE  closes' \in [window : Nat, sink : Nat]
  BY DEF TypeOK, Close

(***************************************************************************)
(* The failures that ranks raise by themselves are counted.                *)
(***************************************************************************)
LEMMA RaisesType ==
    ASSUME TypeOK, NEW cause \in Causes, Raises(cause)
    PROVE  failures' \in Nat
  BY DEF TypeOK, Raises

(***************************************************************************)
(* The initial states satisfy the invariant.                               *)
(***************************************************************************)
LEMMA InitBudget == Init => BudgetInv
  <1> SUFFICES ASSUME Init PROVE BudgetInv
    OBVIOUS
  <1>1. steps \in Steps
    BY BudgetsAreNat DEF Init
  <1>2. TypeOK
    BY <1>1 DEF Init, TypeOK
  <1>3. GoesOnWithSteps
    BY DEF Init, GoesOnWithSteps
  <1>4. LimitStays
    BY DEF Init, LimitStays
  <1>5. Account
    BY <1>1, WorkersAreNotTheMain DEF Init, Account, Decided
  <1> QED
    BY <1>2, <1>3, <1>4, <1>5 DEF BudgetInv

-----------------------------------------------------------------------------
(***************************************************************************)
(* A step that changes nothing keeps the invariant.                        *)
(***************************************************************************)
LEMMA StutterKeeps == BudgetInv /\ UNCHANGED vars => BudgetInv'
  BY DEF BudgetInv, TypeOK, GoesOnWithSteps, LimitStays, Account, Decided,
         vars, given

(***************************************************************************)
(* A rank that goes to its finally clause, or past it, is past its budget. *)
(***************************************************************************)
LEMMA LeavingKeeps ==
    ASSUME BudgetInv, NEW r \in Ranks,
           NEW place \in {"finally", "ended"}, NEW cause \in Causes \cup {"none"},
           NEW owns \in BOOLEAN,
           run' = [run EXCEPT ![r] = [@ EXCEPT !.pc = place, !.failure = cause,
                                               !.windowNeedsClose = owns]],
           closes' \in [window : Nat, sink : Nat],
           failures' \in Nat,
           UNCHANGED <<world, flags, steps, expired, decision, taken, late>>
    PROVE  BudgetInv'
  <1>1. TypeOK /\ run[r] \in Locals
    BY DEF BudgetInv, TypeOK
  <1> DEFINE after == [run[r] EXCEPT !.pc = place, !.failure = cause,
                                     !.windowNeedsClose = owns]
  <1>2. after \in Locals /\ run' = [run EXCEPT ![r] = after]
    BY <1>1
  <1>3. run' \in [Ranks -> Locals]
    <2> HIDE DEF after
    <2> QED
      BY <1>1, <1>2 DEF TypeOK
  <1>4. TypeOK'
    BY <1>1, <1>3 DEF TypeOK
  <1>5. GoesOnWithSteps'
    BY <1>1 DEF BudgetInv, GoesOnWithSteps, TypeOK
  <1>6. LimitStays'
    BY <1>1 DEF BudgetInv, LimitStays, TypeOK
  <1>7. Account'
    BY <1>1 DEF BudgetInv, Account, Decided, TypeOK
  <1> QED
    BY <1>4, <1>5, <1>6, <1>7 DEF BudgetInv

(***************************************************************************)
(* Initialising the application begins no session.                         *)
(***************************************************************************)
LEMMA InitApplicationKeeps ==
    ASSUME BudgetInv, NEW r \in Ranks, InitApplication(r)
    PROVE  BudgetInv'
  <1>1. TypeOK /\ run[r] \in Locals /\ run[r].pc = "init"
    BY DEF BudgetInv, TypeOK, InitApplication
  <1>2. failures' \in Nat
    BY <1>1, RaisesType DEF InitApplication, TypeOK
  <1>3. UNCHANGED <<world, flags, steps, expired, decision, closes, taken, late>>
    BY DEF InitApplication, given
  <1>4. CASE run' = [run EXCEPT ![r].pc = "check"]
    <2>1. TypeOK'
      BY <1>1, <1>2, <1>3, <1>4 DEF TypeOK
    <2>2. GoesOnWithSteps'
      BY <1>1, <1>4 DEF BudgetInv, GoesOnWithSteps, TypeOK
    <2>3. LimitStays'
      BY <1>1, <1>3, <1>4 DEF BudgetInv, LimitStays, TypeOK
    <2>4. Account'
      BY <1>1, <1>3, <1>4 DEF BudgetInv, Account, Decided, TypeOK
    <2> QED
      BY <2>1, <2>2, <2>3, <2>4 DEF BudgetInv
  <1>5. CASE run' = [run EXCEPT ![r].pc = "finally"]
    <2>1. run' = [run EXCEPT ![r] = [@ EXCEPT !.pc = "finally",
                    !.failure = run[r].failure,
                    !.windowNeedsClose = run[r].windowNeedsClose]]
      BY <1>1, <1>5 DEF TypeOK
    <2> QED
      BY <1>1, <1>2, <1>3, <2>1, LeavingKeeps DEF TypeOK
  <1>6. CASE run' = [run EXCEPT ![r].pc = "finally", ![r].failure = "init"]
    <2>1. run' = [run EXCEPT ![r] = [@ EXCEPT !.pc = "finally", !.failure = "init",
                    !.windowNeedsClose = run[r].windowNeedsClose]]
      BY <1>1, <1>6 DEF TypeOK
    <2> QED
      BY <1>1, <1>2, <1>3, <2>1, LeavingKeeps DEF TypeOK
  <1> QED
    BY <1>4, <1>5, <1>6 DEF InitApplication, Goto

(***************************************************************************)
(* The head of the loop goes on to a session only if there is a next one.  *)
(***************************************************************************)
LEMMA CheckNextKeeps ==
    ASSUME BudgetInv, NEW r \in Ranks, CheckNext(r)
    PROVE  BudgetInv'
  <1>1. TypeOK /\ run[r] \in Locals
    BY DEF BudgetInv, TypeOK
  <1>2. PICK place \in {"create", "finally"} :
            /\ run' = [run EXCEPT ![r].pc = place]
            /\ place = "create" => run[r].next
    BY <1>1 DEF CheckNext, Goto
  <1>3. UNCHANGED <<world, flags, steps, expired, decision, closes, taken, late,
                    failures>>
    BY DEF CheckNext, given
  <1>4. TypeOK'
    BY <1>1, <1>2, <1>3 DEF TypeOK
  <1>5. GoesOnWithSteps'
    BY <1>1, <1>2 DEF BudgetInv, GoesOnWithSteps, TypeOK, CheckNext
  <1>6. LimitStays'
    BY <1>1, <1>2, <1>3 DEF BudgetInv, LimitStays, TypeOK
  <1>7. Account'
    BY <1>1, <1>2, <1>3 DEF BudgetInv, Account, Decided, TypeOK, CheckNext
  <1> QED
    BY <1>4, <1>5, <1>6, <1>7 DEF BudgetInv

(***************************************************************************)
(* A new session has a number that no decision has yet.                    *)
(***************************************************************************)
LEMMA CreateSessionKeeps ==
    ASSUME BudgetInv, NEW r \in Ranks, CreateSession(r)
    PROVE  BudgetInv'
  <1>1. TypeOK /\ run[r] \in Locals /\ run[r].pc = "create"
    BY DEF BudgetInv, TypeOK, CreateSession
  <1>2. UNCHANGED <<world, flags, steps, expired, decision, closes, taken>>
    BY DEF CreateSession, given
  <1>3. CASE /\ Raises("create") /\ UNCHANGED late
             /\ run' = [run EXCEPT ![r].pc = "finally", ![r].failure = "create"]
    <2>1. TypeOK'
      BY <1>1, <1>2, <1>3, RaisesType DEF TypeOK
    <2>2. GoesOnWithSteps'
      BY <1>1, <1>3 DEF BudgetInv, GoesOnWithSteps, TypeOK
    <2>3. LimitStays'
      BY <1>1, <1>2, <1>3 DEF BudgetInv, LimitStays, TypeOK
    <2>4. Account'
      BY <1>1, <1>2, <1>3 DEF BudgetInv, Account, Decided, TypeOK
    <2> QED
      BY <2>1, <2>2, <2>3, <2>4 DEF BudgetInv
  <1>4. CASE /\ run' = [run EXCEPT ![r].pc = "session", ![r].parallel = TRUE,
                                    ![r].sessionRunStarted = TRUE,
                                    ![r].timeLeft = TimeLeft(r),
                                    ![r].sessions = @ + 1]
             /\ late' = late + IF r = 0 /\ expired[r] THEN 1 ELSE 0
             /\ UNCHANGED failures
    <2>1. TypeOK'
      BY <1>1, <1>2, <1>4 DEF TypeOK, TimeLeft
    <2>2. GoesOnWithSteps'
      BY <1>1, <1>4 DEF BudgetInv, GoesOnWithSteps, TypeOK
    <2>3. LimitStays'
      BY <1>1, <1>2, <1>4 DEF BudgetInv, LimitStays, TypeOK
    <2>4. Account'
      BY <1>1, <1>2, <1>4 DEF BudgetInv, Account, Decided, TypeOK
    <2> QED
      BY <2>1, <2>2, <2>3, <2>4 DEF BudgetInv
  <1> QED
    BY <1>3, <1>4 DEF CreateSession

(***************************************************************************)
(* A session takes no more than its rank was given.                        *)
(***************************************************************************)
LEMMA SessionEndsKeeps ==
    ASSUME BudgetInv, NEW used \in Nat, NEW replacement \in BOOLEAN,
           SessionEnds(used, replacement)
    PROVE  BudgetInv'
  <1>1. TypeOK /\ run[0] \in Locals /\ run[0].pc = "session" /\ ~Decided(0)
    BY DEF BudgetInv, TypeOK, SessionEnds
  <1>2. UNCHANGED <<world, flags, steps, run, expired, closes, late, failures>>
    BY DEF SessionEnds, given
  <1>3. /\ decision' = [session |-> run[0].sessions,
                        replacement |-> replacement, used |-> used]
        /\ taken' = taken + used
    BY DEF SessionEnds
  <1>4. run[0].remaining # Unbound /\ flags # "preload" => used <= run[0].remaining
    BY <1>1 DEF SessionEnds, SessionSteps, TypeOK
  <1>5. TypeOK'
    BY <1>1, <1>2, <1>3 DEF TypeOK
  <1>6. GoesOnWithSteps' /\ LimitStays'
    BY <1>2 DEF BudgetInv, GoesOnWithSteps, LimitStays
  <1>7. decision'.session = run'[0].sessions /\ decision'.used = used /\ Decided(0)'
    BY <1>2, <1>3 DEF Decided
  <1>8. ASSUME steps # Unbound, flags # "preload"
        PROVE  /\ taken' <= steps
               /\ run[0].remaining + taken' = steps + used
               /\ used <= run[0].remaining
    <2>1. steps \in Nat /\ run[0].remaining \in Nat /\ taken \in Nat
      BY <1>1, <1>8 DEF BudgetInv, LimitStays, TypeOK
    <2>2. run[0].remaining + taken = steps
      BY <1>1, <1>8 DEF BudgetInv, Account
    <2>3. used <= run[0].remaining
      BY <1>4, <1>8, <2>1, BudgetsAreNat
    <2> QED
      BY <1>3, <2>1, <2>2, <2>3
  <1>9. Account'
    BY <1>1, <1>2, <1>7, <1>8 DEF Account, TypeOK
  <1> QED
    BY <1>5, <1>6, <1>9 DEF BudgetInv

(***************************************************************************)
(* A session's steps are subtracted once, and its rank goes on to another  *)
(* one only with steps left.                                               *)
(***************************************************************************)
LEMMA SessionReturnsKeeps ==
    ASSUME BudgetInv, NEW r \in Ranks, SessionReturns(r)
    PROVE  BudgetInv'
  <1> DEFINE left == Left(r, decision.used)
  <1>1. /\ TypeOK /\ run[r] \in Locals /\ decision.used \in Nat
        /\ decision.replacement \in BOOLEAN
        /\ run[r].pc = "session" /\ Decided(r)
    BY DEF BudgetInv, TypeOK, SessionReturns
  <1>2. UNCHANGED <<world, flags, steps, expired, decision, taken, late, failures>>
    BY DEF SessionReturns, given
  <1>3. PICK next \in BOOLEAN, owns \in BOOLEAN :
            /\ run' = [run EXCEPT ![r].pc = "check", ![r].remaining = left,
                                  ![r].next = next, ![r].windowNeedsClose = owns]
            /\ next => left # 0
    BY <1>1 DEF SessionReturns, AfterSession
  <1>4. /\ left \in Steps
        /\ run[r].remaining # Unbound => left # Unbound
        /\ run[r].remaining # Unbound /\ decision.used <= run[r].remaining
             => left = run[r].remaining - decision.used
    BY <1>1, LeftIsSteps
  <1>5. closes' \in [window : Nat, sink : Nat]
    BY <1>1, CloseCounts DEF SessionReturns
  <1> HIDE DEF left
  <1>6. TypeOK'
    BY <1>1, <1>2, <1>3, <1>4, <1>5 DEF TypeOK
  <1>7. GoesOnWithSteps'
    BY <1>1, <1>3 DEF BudgetInv, GoesOnWithSteps, TypeOK
  <1>8. LimitStays'
    BY <1>1, <1>2, <1>3, <1>4 DEF BudgetInv, LimitStays, TypeOK
  <1>9. Account'
    <2>1. CASE r # 0
      BY <1>1, <1>2, <1>3, <2>1 DEF BudgetInv, Account, Decided, TypeOK
    <2>2. CASE r = 0
      <3>1. run'[0].pc = "check" /\ run'[0].remaining = left
            /\ run'[0].sessions = run[0].sessions
        BY <1>1, <1>3, <2>2 DEF TypeOK
      <3>2. ASSUME steps # Unbound, flags # "preload"
            PROVE  taken <= steps /\ left + taken = steps
        <4>1. /\ taken <= steps
              /\ run[0].remaining + taken = steps + decision.used
              /\ decision.used <= run[0].remaining
          BY <1>1, <2>2, <3>2 DEF BudgetInv, Account
        <4>2. run[0].remaining # Unbound
          BY <3>2 DEF BudgetInv, LimitStays
        <4>3. steps \in Nat /\ run[0].remaining \in Nat /\ taken \in Nat
          BY <1>1, <2>2, <3>2, <4>2 DEF TypeOK
        <4>4. left = run[0].remaining - decision.used
          BY <1>4, <2>2, <4>1, <4>2
        <4> QED
          BY <1>1, <4>1, <4>3, <4>4
      <3> QED
        BY <1>2, <3>1, <3>2 DEF BudgetInv, Account
    <2> QED
      BY <2>1, <2>2
  <1> QED
    BY <1>6, <1>7, <1>8, <1>9 DEF BudgetInv

(***************************************************************************)
(* A session that fails, by itself or for a peer, ends the run.            *)
(***************************************************************************)
LEMMA SessionFailsKeeps ==
    ASSUME BudgetInv, NEW r \in Ranks, NEW cause \in Causes, SessionFails(r, cause)
    PROVE  BudgetInv'
  <1>1. TypeOK /\ run[r] \in Locals
    BY DEF BudgetInv, TypeOK
  <1>2. run' = [run EXCEPT ![r] = [@ EXCEPT !.pc = "finally", !.failure = cause,
                                            !.windowNeedsClose = FALSE]]
    BY <1>1 DEF SessionFails, TypeOK
  <1>3. closes' \in [window : Nat, sink : Nat]
    BY <1>1, CloseCounts DEF SessionFails
  <1>4. failures' \in Nat
    BY <1>1, RaisesType DEF SessionFails
  <1>5. UNCHANGED <<world, flags, steps, expired, decision, taken, late>>
    BY DEF SessionFails, given
  <1> QED
    BY <1>2, <1>3, <1>4, <1>5, LeavingKeeps

(***************************************************************************)
(* The finally clause only closes.                                         *)
(***************************************************************************)
LEMMA FinallyKeeps ==
    ASSUME BudgetInv, NEW r \in Ranks, Finally(r)
    PROVE  BudgetInv'
  <1>1. TypeOK /\ run[r] \in Locals
    BY DEF BudgetInv, TypeOK
  <1> DEFINE Ended(cause) ==
        run' = [run EXCEPT ![r] = [@ EXCEPT !.pc = "ended", !.failure = cause,
                                !.windowNeedsClose = run[r].windowNeedsClose]]
  <1>2. \E cause \in Causes \cup {"none"} : Ended(cause)
    <2>1. CASE Goto(r, "ended")
      <3>1. Ended(run[r].failure)
        BY <1>1, <2>1 DEF Goto, TypeOK
      <3> QED
        BY <1>1, <3>1
    <2>2. CASE run' = [run EXCEPT ![r].pc = "ended", ![r].failure = CloseFails(r)]
      <3>1. Ended(CloseFails(r))
        BY <1>1, <2>2 DEF TypeOK
      <3>2. CloseFails(r) \in Causes \cup {"none"}
        BY <1>1 DEF CloseFails
      <3> QED
        BY <3>1, <3>2
    <2> QED
      BY <2>1, <2>2 DEF Finally
  <1>3. closes' \in [window : Nat, sink : Nat]
    BY <1>1, CloseCounts DEF Finally
  <1>4. failures' \in Nat
    BY <1>1, RaisesType DEF Finally, TypeOK
  <1>5. UNCHANGED <<world, flags, steps, expired, decision, taken, late>>
    BY DEF Finally, given
  <1>6. PICK cause \in Causes \cup {"none"} : Ended(cause)
    BY <1>2
  <1> QED
    BY <1>1, <1>3, <1>4, <1>5, <1>6, LeavingKeeps

(***************************************************************************)
(* A deadline changes no count.                                            *)
(***************************************************************************)
LEMMA ExpireKeeps ==
    ASSUME BudgetInv, NEW r \in Ranks, Expire(r)
    PROVE  BudgetInv'
  BY DEF BudgetInv, TypeOK, GoesOnWithSteps, LimitStays, Account, Decided,
         Expire, given

-----------------------------------------------------------------------------
(***************************************************************************)
(* Every step of the specification keeps the invariant.                    *)
(***************************************************************************)
LEMMA NextKeeps == BudgetInv /\ [Next]_vars => BudgetInv'
  <1> SUFFICES ASSUME BudgetInv, [Next]_vars PROVE BudgetInv'
    OBVIOUS
  <1>1. ASSUME NEW r \in Ranks, Rank(r) PROVE BudgetInv'
    BY <1>1, InitApplicationKeeps, CheckNextKeeps, CreateSessionKeeps,
       SessionReturnsKeeps, SessionFailsKeeps, FinallyKeeps
       DEF Rank, SessionRaises, PeerIsGone
  <1>2. ASSUME NEW r \in Ranks, Expire(r) PROVE BudgetInv'
    BY <1>2, ExpireKeeps
  <1>3. ASSUME Session PROVE BudgetInv'
    BY <1>3, SessionEndsKeeps, BoundsAreNat DEF Session
  <1>4. CASE Finished \/ UNCHANGED vars
    BY <1>4, StutterKeeps DEF Finished
  <1> QED
    BY <1>1, <1>2, <1>3, <1>4 DEF Next

(***************************************************************************)
(* All sessions of a run together stay within its budget of model steps,   *)
(* and a replacement begins only with steps left: for any number of ranks, *)
(* any budget, any failures and any deadlines (ApplicationRunner.run).     *)
(***************************************************************************)
THEOREM RunStaysInBudget == Spec => [](TypeOK /\ BudgetKept)
  <1>1. BudgetInv => TypeOK /\ BudgetKept
    <2> SUFFICES ASSUME BudgetInv PROVE BudgetKept
      BY DEF BudgetInv
    <2> SUFFICES ASSUME steps # Unbound
                 PROVE  /\ flags # "preload" => taken <= steps
                        /\ \A r \in Ranks :
                             run[r].pc = "session" /\ run[r].sessions > 1
                                 => run[r].remaining > 0
      BY DEF BudgetKept
    <2>1. flags # "preload" => taken <= steps
      BY DEF BudgetInv, Account
    <2>2. ASSUME NEW r \in Ranks, run[r].pc = "session", run[r].sessions > 1
          PROVE  run[r].remaining > 0
      <3>1. run[r].remaining \in Nat
        BY DEF BudgetInv, LimitStays, TypeOK
      <3>2. run[r].remaining # 0
        BY <2>2 DEF BudgetInv, GoesOnWithSteps
      <3> QED
        BY <3>1, <3>2
    <2> QED
      BY <2>1, <2>2
  <1> QED
    BY <1>1, InitBudget, NextKeeps, PTL DEF Spec

-----------------------------------------------------------------------------
(* The window, the deadline and the agreement of the ranks.                 *)

(***************************************************************************)
(* Until rank 0 has ended, windowNeedsClose says whether the window is     *)
(* still open; a session is only begun with the window open, and each      *)
(* session but the one that runs has closed the sink.                      *)
(***************************************************************************)
OwnerOK ==
    LET R == run[0] IN
    /\ R.sessionRunStarted <=> R.sessions > 0
    /\ R.pc # "ended" => closes.window = IF R.windowNeedsClose THEN 0 ELSE 1
    /\ R.pc = "init" => R.sessions = 0
    /\ R.pc \in {"init", "check", "create", "session"} /\ R.next => R.windowNeedsClose
    /\ R.pc \in {"create", "session"} => R.next
    /\ R.pc \in {"init", "check", "create", "finally"} => closes.sink = R.sessions
    /\ R.pc = "session" => closes.sink = R.sessions - 1 /\ R.sessions > 0
    /\ R.pc = "ended" =>
         /\ closes.window = 1
         /\ closes.sink = IF R.sessions = 0 THEN 1 ELSE R.sessions

(***************************************************************************)
(* A session that rank 0 begins after its deadline has no successor.       *)
(***************************************************************************)
LateOK ==
    /\ late <= 1
    /\ late > 0 =>
         /\ run[0].pc \in {"check", "session", "finally", "ended"}
         /\ run[0].pc = "check" => ~run[0].next
         /\ run[0].pc = "session" => /\ ~run[0].timeLeft
                                     /\ Decided(0) => ~decision.replacement

Gone(r) == run[r].pc \in {"finally", "ended"}

\* What the rank has left when the decided sessions are subtracted.
Rest(r) == IF run[r].pc = "session" /\ Decided(r) THEN Left(r, decision.used)
                                                 ELSE run[r].remaining
GoesOn(r) == decision.replacement /\ Rest(r) # 0
Alone == \A q, r \in world : q = r

(***************************************************************************)
(* A rank is in the latest decided session, or past it, or in the one that *)
(* follows; it follows, or has left, as the decision and the budget say.   *)
(* Who finds a peer gone from the session that follows finds it gone after *)
(* the decided one.                                                        *)
(***************************************************************************)
InStep(r) ==
    LET R == run[r]
        D == decision.session
    IN  /\ R.sessions \in {D, D + 1}
        /\ R.sessions = D + 1 => R.pc \in {"session", "finally", "ended"}
        /\ R.pc = "session" => R.sessions > 0
        /\ R.sessions > 0 => R.parallel
        /\ D > 0 /\ R.sessions = D /\ R.pc = "check" => (R.next <=> GoesOn(r))
        /\ D > 0 /\ R.sessions = D /\ R.pc = "create" => GoesOn(r)
        /\ D > 0 /\ R.sessions = D + 1 => GoesOn(r)
        /\ D > 0 /\ R.sessions = D /\ Gone(r) => ~GoesOn(r)
        /\ R.sessions = D + 1 /\ Gone(r) => \E q \in world : run[q].sessions = D /\ Gone(q)
        /\ R.failure = "peer" => R.sessions <= 1 /\ Gone(r)

AllInStep == /\ \A r \in world : InStep(r)
             /\ \A q, r \in world : Rest(q) = Rest(r)

(***************************************************************************)
(* Ranks that nothing but each other disturbs stay in step.                *)
(***************************************************************************)
PeersOK ==
    /\ \A r \in Ranks \ world : run[r].pc = "ended" /\ run[r].failure # "peer"
    /\ Alone => \A r \in Ranks : run[r].failure # "peer"
    /\ failures = 0 /\ ~Alone => AllInStep

-----------------------------------------------------------------------------
(***************************************************************************)
(* What the steps of rank r leave alone.                                   *)
(***************************************************************************)
LEMMA RankSteps ==
    ASSUME BudgetInv, NEW r \in Ranks, Rank(r)
    PROVE  /\ UNCHANGED <<world, flags, steps, expired, decision>>
           /\ \A q \in Ranks \ {r} : run'[q] = run[q]
           /\ r # 0 => closes' = closes /\ late' = late
           /\ failures \in Nat /\ failures' \in {failures, failures + 1}
  <1> USE DEF BudgetInv, TypeOK, given, Raises, Goto, Close
  <1>1. CASE InitApplication(r)
    BY <1>1 DEF InitApplication
  <1>2. CASE CheckNext(r)
    BY <1>2 DEF CheckNext
  <1>3. CASE CreateSession(r)
    BY <1>3 DEF CreateSession
  <1>4. CASE SessionReturns(r)
    BY <1>4 DEF SessionReturns
  <1>5. ASSUME NEW cause, SessionFails(r, cause)
        PROVE  /\ UNCHANGED <<world, flags, steps, expired, decision>>
               /\ \A q \in Ranks \ {r} : run'[q] = run[q]
               /\ r # 0 => closes' = closes /\ late' = late
               /\ failures \in Nat /\ failures' \in {failures, failures + 1}
    BY <1>5 DEF SessionFails
  <1>6. CASE Finally(r)
    BY <1>6 DEF Finally
  <1> QED
    BY <1>1, <1>2, <1>3, <1>4, <1>5, <1>6 DEF Rank, SessionRaises, PeerIsGone

(***************************************************************************)
(* Who owns the window is kept by every step.                              *)
(***************************************************************************)
LEMMA OwnerStep ==
    ASSUME BudgetInv, OwnerOK, [Next]_vars
    PROVE  OwnerOK'
  <1>0. TypeOK /\ 0 \in Ranks
    BY DEF BudgetInv
  <1>1. CASE UNCHANGED <<run, closes>>
    BY <1>1 DEF OwnerOK
  <1>2. ASSUME NEW r \in Ranks \ {0}, Rank(r)
        PROVE  OwnerOK'
    <2>1. run'[0] = run[0] /\ closes' = closes
      BY <1>2, RankSteps
    <2> QED
      BY <2>1 DEF OwnerOK
  <1>3. CASE InitApplication(0)
    BY <1>0, <1>3 DEF InitApplication, Goto, OwnerOK, TypeOK
  <1>4. CASE CheckNext(0)
    BY <1>0, <1>4 DEF CheckNext, Goto, OwnerOK, TypeOK
  <1>5. CASE CreateSession(0)
    BY <1>0, <1>5 DEF CreateSession, OwnerOK, TypeOK
  <1>6. CASE SessionReturns(0)
    BY <1>0, <1>6 DEF SessionReturns, AfterSession, Close, OwnerOK, TypeOK
  <1>7. ASSUME NEW cause \in Causes, SessionFails(0, cause)
        PROVE  OwnerOK'
    BY <1>0, <1>7 DEF SessionFails, Close, OwnerOK, TypeOK
  <1>8. CASE Finally(0)
    BY <1>0, <1>8 DEF Finally, Goto, Close, OwnerOK, TypeOK
  <1>9. CASE Session \/ Finished \/ UNCHANGED vars
    BY <1>1, <1>9 DEF Session, SessionEnds, Finished, vars
  <1>10. ASSUME NEW r \in Ranks, Expire(r)
         PROVE  OwnerOK'
    BY <1>1, <1>10 DEF Expire
  <1> QED
    BY <1>2, <1>3, <1>4, <1>5, <1>6, <1>7, <1>8, <1>9, <1>10
       DEF Next, Rank, SessionRaises, PeerIsGone

LEMMA LateStep ==
    ASSUME BudgetInv, LateOK, [Next]_vars
    PROVE  LateOK'
  <1>0. TypeOK /\ 0 \in Ranks /\ decision.session <= run[0].sessions
    BY DEF BudgetInv, Account
  <1> USE <1>0 DEF LateOK, Decided, TypeOK, Goto, given
  <1>1. CASE UNCHANGED <<run, decision, late>>
    BY <1>1
  <1>2. ASSUME NEW r \in Ranks \ {0}, Rank(r)
        PROVE  LateOK'
    <2>1. run'[0] = run[0] /\ late' = late /\ decision' = decision
      BY <1>2, RankSteps
    <2> QED
      BY <2>1
  <1>3. CASE InitApplication(0)
    BY <1>3 DEF InitApplication
  <1>4. CASE CheckNext(0)
    BY <1>4 DEF CheckNext
  <1>5. CASE CreateSession(0)
    BY <1>5 DEF CreateSession, TimeLeft
  <1>6. CASE SessionReturns(0)
    BY <1>6 DEF SessionReturns, AfterSession
  <1>7. ASSUME NEW cause \in Causes, SessionFails(0, cause)
        PROVE  LateOK'
    BY <1>7 DEF SessionFails
  <1>8. CASE Finally(0)
    BY <1>8 DEF Finally
  <1>9. ASSUME NEW used, NEW replacement \in BOOLEAN, SessionEnds(used, replacement)
        PROVE  LateOK'
    BY <1>9 DEF SessionEnds
  <1>10. ASSUME NEW r \in Ranks, Expire(r)
         PROVE  LateOK'
    BY <1>1, <1>10 DEF Expire
  <1>11. CASE Finished \/ UNCHANGED vars
    BY <1>1, <1>11 DEF Finished, vars
  <1> QED
    BY <1>2, <1>3, <1>4, <1>5, <1>6, <1>7, <1>8, <1>9, <1>10, <1>11
       DEF Next, Rank, Session, SessionRaises, PeerIsGone

-----------------------------------------------------------------------------
(* The ranks in step.                                                       *)

LEMMA WorldFacts ==
    ASSUME TypeOK
    PROVE  /\ world \subseteq Ranks /\ 0 \in world /\ IsFiniteSet(world)
           /\ Cardinality(world) <= 1 => Alone
  <1>1. world \subseteq Ranks /\ 0 \in world /\ (world = {0} \/ world = Workers \cup {0})
    BY DEF TypeOK
  <1>2. IsFiniteSet(world)
    <2>1. IsFiniteSet({0})
      BY FS_Singleton
    <2>2. IsFiniteSet(Workers \cup {0})
      BY WorkersAreNotTheMain, FS_AddElement
    <2> QED
      BY <1>1, <2>1, <2>2
  <1>3. ASSUME Cardinality(world) <= 1, NEW q \in world, NEW r \in world, q # r
        PROVE  FALSE
    <2>1. IsFiniteSet({q}) /\ Cardinality({q}) = 1
      BY FS_Singleton
    <2>2. Cardinality({q} \cup {r}) = 2
      BY <1>3, <2>1, FS_AddElement
    <2>3. {q} \cup {r} \in SUBSET world
      OBVIOUS
    <2>4. Cardinality({q} \cup {r}) <= Cardinality(world)
      BY <1>2, <2>3, FS_Subset
    <2>5. Cardinality(world) \in Nat
      BY <1>2, FS_CardinalityType
    <2> QED
      BY <1>3, <2>2, <2>4, <2>5
  <1> QED
    BY <1>1, <1>2, <1>3 DEF Alone

(***************************************************************************)
(* A step of rank r leaves the others in step with it, when it leaves what *)
(* r has left for the next session, and does not bring r back.             *)
(***************************************************************************)
LEMMA OthersInStep ==
    ASSUME TypeOK, AllInStep, NEW r \in world, UNCHANGED <<world, decision>>,
           \A q \in Ranks \ {r} : run'[q] = run[q],
           Gone(r) => Gone(r)' /\ run'[r].sessions = run[r].sessions,
           Rest(r)' = Rest(r), InStep(r)'
    PROVE  AllInStep'
  <1>1. \A q \in world : q \in Ranks
    BY WorldFacts
  <1>2. \A q \in world : Rest(q)' = Rest(q)
    BY <1>1 DEF Rest, Decided, Left
  <1>3. ASSUME NEW q \in world \ {r}
        PROVE  InStep(q)'
    <2>1. run'[q] = run[q] /\ (GoesOn(q)' <=> GoesOn(q)) /\ (Gone(q)' <=> Gone(q))
      BY <1>1, <1>2 DEF GoesOn, Gone
    <2>2. ASSUME NEW p \in world, run[p].sessions = decision.session, Gone(p)
          PROVE  run'[p].sessions = decision.session /\ Gone(p)'
      BY <1>1, <2>2 DEF Gone
    <2>3. InStep(q)
      BY DEF AllInStep
    <2> QED
      BY <2>1, <2>2, <2>3 DEF InStep
  <1> QED
    BY <1>2, <1>3 DEF AllInStep

LEMMA RankInStep ==
    ASSUME BudgetInv, AllInStep, ~Alone, failures' = 0, NEW r \in world, Rank(r)
    PROVE  AllInStep'
  <1>1. /\ TypeOK /\ r \in Ranks /\ run[r] \in Locals /\ decision.session \in Nat
        /\ decision.used \in Nat /\ decision.replacement \in BOOLEAN /\ InStep(r)
    BY WorldFacts DEF BudgetInv, TypeOK, AllInStep
  <1>2. /\ UNCHANGED <<world, decision>> /\ failures = 0
        /\ \A q \in Ranks \ {r} : run'[q] = run[q]
    BY <1>1, RankSteps
  <1>3. \A cause : Raises(cause) => cause = "peer"
    BY <1>2 DEF Raises
  <1> SUFFICES /\ Gone(r) => Gone(r)' /\ run'[r].sessions = run[r].sessions
               /\ Rest(r)' = Rest(r) /\ InStep(r)'
    BY <1>1, <1>2, OthersInStep
  <1> USE <1>1, <1>2
  <1>4. CASE InitApplication(r)
    <2>1. PICK place \in {"check", "finally"} : run' = [run EXCEPT ![r].pc = place]
      BY <1>3, <1>4 DEF InitApplication, Goto
    <2>2. run[r].pc = "init" /\ run[r].sessions = 0 /\ decision.session = 0
      BY <1>4 DEF InitApplication, BudgetInv, GoesOnWithSteps, InStep
    <2>3. run'[r] = [run[r] EXCEPT !.pc = place]
      BY <2>1 DEF TypeOK
    <2> QED
      BY <2>2, <2>3 DEF InStep, Gone, Rest
  <1>5. CASE CheckNext(r)
    <2>1. PICK place \in {"create", "finally"} : run'[r] = [run[r] EXCEPT !.pc = place]
      BY <1>5 DEF CheckNext, Goto, TypeOK
    <2>2. run[r].pc = "check" /\ run[r].sessions = decision.session
      BY <1>5 DEF CheckNext, InStep
    <2>3. place = "create" => run[r].next
      BY <1>5, <2>1 DEF CheckNext, Goto, TypeOK
    <2>4. decision.session > 0 /\ place = "finally" => ~run[r].next
      <3>1. ~(Cardinality(world) <= 1)
        BY WorldFacts
      <3>2. decision.session > 0 => ~DeadlineEndsRun(r)
        BY <2>2, <3>1 DEF DeadlineEndsRun, InStep
      <3> QED
        BY <1>5, <2>1, <3>2 DEF CheckNext, Goto, TypeOK
    <2>5. Rest(r)' = Rest(r) /\ (GoesOn(r)' <=> GoesOn(r))
      BY <2>1, <2>2 DEF Rest, GoesOn
    <2> QED
      BY <2>1, <2>2, <2>3, <2>4, <2>5 DEF InStep, Gone
  <1>6. CASE CreateSession(r)
    <2>1. run' = [run EXCEPT ![r].pc = "session", ![r].parallel = TRUE,
                             ![r].sessionRunStarted = TRUE,
                             ![r].timeLeft = TimeLeft(r), ![r].sessions = @ + 1]
      BY <1>3, <1>6 DEF CreateSession
    <2>2. run[r].pc = "create" /\ run[r].sessions = decision.session
      BY <1>6 DEF CreateSession, InStep
    <2>3. /\ run'[r].pc = "session" /\ run'[r].parallel = TRUE
          /\ run'[r].sessions = decision.session + 1
          /\ run'[r].remaining = run[r].remaining /\ run'[r].failure = run[r].failure
      BY <2>1, <2>2 DEF TypeOK
    <2>4. Rest(r)' = Rest(r) /\ (GoesOn(r)' <=> GoesOn(r)) /\ ~Gone(r) /\ ~Gone(r)'
      BY <2>2, <2>3 DEF Rest, GoesOn, Decided, Gone
    <2>5. run[r].failure # "peer"
      BY <2>4 DEF InStep
    <2> QED
      BY <2>2, <2>3, <2>4, <2>5 DEF InStep
  <1>7. CASE SessionReturns(r)
    <2>1. run' = [run EXCEPT ![r].pc = "check",
                             ![r].remaining = Left(r, decision.used),
                             ![r].next = AfterSession(r).next,
                             ![r].windowNeedsClose = AfterSession(r).windowNeedsClose]
      BY <1>7 DEF SessionReturns
    <2>2. run[r].pc = "session" /\ Decided(r) /\ run[r].sessions = decision.session
      BY <1>7 DEF SessionReturns, Decided
    <2>3. /\ run'[r].pc = "check" /\ run'[r].remaining = Left(r, decision.used)
          /\ run'[r].next = (decision.replacement /\ Left(r, decision.used) # 0)
          /\ run'[r].sessions = run[r].sessions /\ run'[r].parallel = run[r].parallel
          /\ run'[r].failure = run[r].failure
      BY <2>1 DEF TypeOK, AfterSession
    <2>4. Rest(r)' = Rest(r) /\ Rest(r) = Left(r, decision.used) /\ ~Gone(r) /\ ~Gone(r)'
      BY <2>2, <2>3 DEF Rest, Gone
    <2>5. run'[r].next <=> GoesOn(r)'
      BY <2>3, <2>4, ZenonT(30) DEF GoesOn
    <2> QED
      BY <2>2, <2>3, <2>4, <2>5 DEF InStep
  <1>8. CASE PeerIsGone(r)
    <2>1. /\ run[r].pc = "session" /\ ~Decided(r)
          /\ run[r].sessions = decision.session + 1
      BY <1>8 DEF PeerIsGone, SessionFails, Deserted, Decided, InStep
    <2>2. /\ run'[r].pc = "finally" /\ run'[r].failure = "peer"
          /\ run'[r].sessions = run[r].sessions /\ run'[r].parallel = run[r].parallel
          /\ run'[r].remaining = run[r].remaining
      BY <1>8 DEF PeerIsGone, SessionFails, TypeOK
    <2>3. PICK p \in world : run[p].sessions = decision.session /\ Gone(p)
      <3>1. PICK q \in world : Gone(q)
        BY <1>8 DEF PeerIsGone, Deserted, Gone
      <3>2. InStep(q)
        BY DEF AllInStep
      <3> QED
        BY <3>1, <3>2 DEF InStep
    <2>4. p # r /\ run'[p] = run[p] /\ p \in Ranks
      BY <2>1, <2>3, WorldFacts DEF Gone
    <2>5. Rest(r)' = Rest(r) /\ (GoesOn(r)' <=> GoesOn(r)) /\ ~Gone(r) /\ Gone(r)'
      BY <2>1, <2>2 DEF Rest, GoesOn, Decided, Gone
    <2>6. ~(decision.session > 0)
      <3>1. decision.session > 0 => ~GoesOn(p)
        BY <2>3 DEF AllInStep, InStep
      <3>2. GoesOn(p) <=> GoesOn(r)
        BY DEF AllInStep, GoesOn
      <3>3. decision.session > 0 => GoesOn(r)
        BY <2>1 DEF InStep
      <3> QED
        BY <3>1, <3>2, <3>3
    <2>7. \E q \in world' : run'[q].sessions = decision'.session /\ Gone(q)'
      BY <2>3, <2>4 DEF Gone
    <2> QED
      BY <2>1, <2>2, <2>5, <2>6, <2>7 DEF InStep
  <1>9. CASE Finally(r)
    <2>1. run' = [run EXCEPT ![r].pc = "ended"] /\ run[r].pc = "finally"
      BY <1>3, <1>9 DEF Finally, Goto
    <2>2. run'[r] = [run[r] EXCEPT !.pc = "ended"]
      BY <2>1 DEF TypeOK
    <2>3. /\ Rest(r)' = Rest(r) /\ (GoesOn(r)' <=> GoesOn(r)) /\ Gone(r) /\ Gone(r)'
          /\ run'[r].sessions = run[r].sessions
      BY <2>1, <2>2 DEF Rest, GoesOn, Gone
    <2>4. \A q \in world : Gone(q) => Gone(q)' /\ run'[q].sessions = run[q].sessions
      BY <2>3, WorldFacts DEF Gone
    <2>5. run[r].sessions = decision.session + 1 =>
            \E q \in world' : run'[q].sessions = decision'.session /\ Gone(q)'
      BY <2>3, <2>4 DEF InStep
    <2> QED
      BY <2>1, <2>2, <2>3, <2>5 DEF InStep
  <1> QED
    BY <1>3, <1>4, <1>5, <1>6, <1>7, <1>8, <1>9 DEF Rank, SessionRaises, SessionFails

LEMMA SessionInStep ==
    ASSUME BudgetInv, AllInStep, ~Alone, NEW used \in Nat, NEW replacement \in BOOLEAN,
           SessionEnds(used, replacement)
    PROVE  AllInStep'
  <1>1. PICK d \in Nat : d = decision.session
    BY DEF BudgetInv, TypeOK
  <1>2. /\ TypeOK /\ 0 \in world /\ world \subseteq Ranks /\ run' = run /\ world' = world
    BY WorldFacts DEF BudgetInv, SessionEnds, given
  <1>3. \A r \in world : InStep(r) /\ run[r] \in Locals
    BY <1>2 DEF AllInStep, TypeOK
  <1>4. run[0].sessions = d + 1
    BY <1>1, <1>2, <1>3 DEF InStep, SessionEnds, Decided
  <1>5. \A r \in world : run[r].sessions = d + 1
    BY <1>4 DEF SessionEnds
  <1>6. decision' = [session |-> d + 1, replacement |-> replacement, used |-> used]
    BY <1>4 DEF SessionEnds
  <1>7. \A r \in world : ~Gone(r)
    BY <1>1, <1>3, <1>5 DEF InStep
  <1>8. \A r \in world : run[r].pc = "session"
    BY <1>1, <1>3, <1>5, <1>7 DEF InStep, Gone
  <1>9. \A r \in world : Rest(r) = run[r].remaining /\ Rest(r)' = Left(r, used)
    BY <1>1, <1>2, <1>5, <1>6, <1>8 DEF Rest, Decided, Left
  <1>10. \A q, r \in world : Rest(q)' = Rest(r)'
    BY <1>9 DEF AllInStep, Left
  <1>11. ASSUME NEW r \in world
         PROVE  InStep(r)'
    <2>1. /\ run'[r] = run[r] /\ run[r].sessions = d + 1 /\ run[r].pc = "session"
          /\ decision'.session = d + 1
      BY <1>2, <1>5, <1>6, <1>8
    <2>2. run[r].sessions > 0 /\ run[r].parallel
      BY <1>1, <1>3, <2>1 DEF InStep
    <2>3. run[r].failure # "peer"
      BY <1>3, <1>7 DEF InStep
    <2> QED
      BY <1>1, <2>1, <2>2, <2>3 DEF InStep, Gone
  <1> QED
    BY <1>2, <1>10, <1>11 DEF AllInStep

LEMMA PeersStep ==
    ASSUME BudgetInv, PeersOK, [Next]_vars
    PROVE  PeersOK'
  <1>0. TypeOK /\ world \subseteq Ranks /\ 0 \in world
    BY WorldFacts DEF BudgetInv
  <1>1. CASE UNCHANGED <<world, run, decision, failures>>
    BY <1>1 DEF PeersOK, AllInStep, InStep, Rest, GoesOn, Gone, Alone, Decided, Left
  <1>2. ASSUME NEW r \in Ranks, Rank(r)
        PROVE  PeersOK'
    <2>1. /\ world' = world /\ \A q \in Ranks \ {r} : run'[q] = run[q]
          /\ failures \in Nat /\ failures' \in {failures, failures + 1}
      BY <1>2, RankSteps
    <2>2. run[r].pc # "ended"
      BY <1>2 DEF Rank, InitApplication, CheckNext, CreateSession, SessionReturns,
                  SessionRaises, PeerIsGone, SessionFails, Finally
    <2>3. r \in world
      BY <2>2 DEF PeersOK
    <2>4. \A q \in Ranks \ world : run'[q].pc = "ended" /\ run'[q].failure # "peer"
      BY <2>1, <2>3 DEF PeersOK
    <2>5. ASSUME Alone, NEW q \in Ranks
          PROVE  run'[q].failure # "peer"
      <3>1. run[q].failure # "peer" /\ run[r].failure # "peer"
        BY <2>5 DEF PeersOK
      <3>2. ~PeerIsGone(r)
        BY <2>3, <2>5 DEF PeerIsGone, Deserted, SessionFails, Alone
      <3>3. run'[r].failure # "peer"
        BY <1>0, <1>2, <3>1, <3>2
           DEF Rank, InitApplication, CheckNext, CreateSession, SessionReturns,
               SessionRaises, SessionFails, Finally, Goto, CloseFails, TypeOK
      <3> QED
        BY <2>1, <3>1, <3>3
    <2>6. failures' = 0 /\ ~Alone' => AllInStep'
      <3>1. SUFFICES ASSUME failures' = 0, ~Alone PROVE AllInStep'
        BY <2>1 DEF Alone
      <3>2. AllInStep
        BY <2>1, <3>1 DEF PeersOK
      <3> QED
        BY <1>2, <2>3, <3>1, <3>2, RankInStep
    <2> QED
      BY <2>1, <2>4, <2>5, <2>6 DEF PeersOK, Alone
  <1>3. ASSUME NEW used \in Nat, NEW replacement \in BOOLEAN, SessionEnds(used, replacement)
        PROVE  PeersOK'
    <2>1. UNCHANGED <<world, run, failures>>
      BY <1>3 DEF SessionEnds, given
    <2>2. failures' = 0 /\ ~Alone' => AllInStep'
      BY <1>3, <2>1, SessionInStep DEF PeersOK, Alone
    <2> QED
      BY <2>1, <2>2 DEF PeersOK, Alone
  <1>4. CASE Finished \/ UNCHANGED vars
    BY <1>1, <1>4 DEF Finished, vars, given
  <1>5. ASSUME NEW r \in Ranks, Expire(r)
        PROVE  PeersOK'
    BY <1>1, <1>5 DEF Expire, given
  <1> QED
    BY <1>2, <1>3, <1>4, <1>5, BoundsAreNat DEF Next, Session

-----------------------------------------------------------------------------
RunInv == BudgetInv /\ OwnerOK /\ LateOK /\ PeersOK

LEMMA InitRun == Init => RunInv
  <1> SUFFICES ASSUME Init PROVE RunInv
    OBVIOUS
  <1>1. BudgetInv
    BY InitBudget
  <1>2. 0 \in world /\ world \subseteq Ranks
    BY DEF Init
  <1>3. OwnerOK /\ LateOK
    BY <1>2 DEF Init, OwnerOK, LateOK
  <1>4. PeersOK
    BY <1>2 DEF Init, PeersOK, AllInStep, InStep, Rest, Gone
  <1> QED
    BY <1>1, <1>3, <1>4 DEF RunInv

(***************************************************************************)
(* In every reachable state the window and the sink are where their owner by*)
(* the program's order would have them, and the ranks are in step.         *)
(***************************************************************************)
THEOREM RunInvHolds == Spec => []RunInv
  <1>1. RunInv /\ [Next]_vars => RunInv'
    BY NextKeeps, OwnerStep, LateStep, PeersStep DEF RunInv
  <1> QED
    BY <1>1, InitRun, PTL DEF Spec

(***************************************************************************)
(* The window that runner and sessions hand to each other is closed once,  *)
(* and the sink once for each session, however the run goes.               *)
(***************************************************************************)
THEOREM WindowAndSinkClosedOnce == Spec => []ClosedOnce
  <1>1. RunInv => ClosedOnce
    BY DEF RunInv, OwnerOK, ClosedOnce
  <1> QED
    BY <1>1, RunInvHolds, PTL

(***************************************************************************)
(* At most one session begins after rank 0's deadline.                     *)
(***************************************************************************)
THEOREM DeadlineAlwaysKept == Spec => []DeadlineKept
  <1>1. RunInv => DeadlineKept
    BY DEF RunInv, LateOK, DeadlineKept
  <1> QED
    BY <1>1, RunInvHolds, PTL

(***************************************************************************)
(* A replacement the ranks have agreed on is begun by all of them: where   *)
(* nothing raised by itself, no rank is deserted after the first session.  *)
(***************************************************************************)
THEOREM AgreedReplacementAlwaysBegins == Spec => []AgreedReplacementBegins
  <1>1. RunInv => AgreedReplacementBegins
    <2> SUFFICES ASSUME RunInv, NEW r \in Ranks, run[r].failure = "peer",
                        run[r].sessions > 1, ~(failures > 0)
                 PROVE  FALSE
      BY DEF AgreedReplacementBegins
    <2>1. failures = 0 /\ run[r].sessions \in Nat
      BY DEF RunInv, BudgetInv, TypeOK
    <2>2. r \in world /\ ~Alone
      BY DEF RunInv, PeersOK
    <2>3. run[r].sessions <= 1
      BY <2>1, <2>2 DEF RunInv, PeersOK, AllInStep, InStep
    <2> QED
      BY <2>1, <2>3
  <1> QED
    BY <1>1, RunInvHolds, PTL
=============================================================================
