------------------------- MODULE ApplicationRunner -------------------------
(***************************************************************************)
(* runtime_v2/application_runner.py: one run of an application on one or   *)
(* several ranks.  ApplicationRunner.run initialises the application and   *)
(* runs a session, then a replacement for as long as sessions ask for one, *)
(* within a budget of model steps and a deadline.  Between two sessions    *)
(* the runner owns the client window.                                      *)
(*                                                                         *)
(* run_session is here what its caller sees of it.  SessionRunner and      *)
(* StepAgreement show the same on one process and between ranks: it ends   *)
(* with one result for all ranks, it closes the sink, and it closes the    *)
(* window unless it returns a replacement.                                 *)
(***************************************************************************)
EXTENDS Integers, Sequences, FiniteSets

CONSTANTS Workers,         \* the ranks other than rank 0
          Unbound,         \* no limit to the model steps
          Budgets,         \* the values of `steps', numbers or Unbound
          MaxSessionSteps, \* bound: model steps of one session
          MaxSessions,     \* bound: sessions that ask for a replacement
          MaxFailures      \* bound: exceptions on any rank

ASSUME WorkersAreNotTheMain == 0 \notin Workers /\ IsFiniteSet(Workers)
ASSUME BudgetsAreNat == Unbound \notin Nat /\ Budgets \subseteq Nat \cup {Unbound}
ASSUME BoundsAreNat == {MaxSessionSteps, MaxSessions, MaxFailures} \subseteq Nat

Ranks == Workers \cup {0}
Flags == {"none", "preload", "skipValidation"}

VARIABLES world,    \* the ranks of this run
          flags,    \* application_flags
          steps,    \* the argument `steps'
          run,      \* per rank: the local variables of `run'
          expired,  \* per rank: the deadline has passed
          decision, \* what the latest session to be decided ends with
          closes,   \* history: calls of close() on the window and on the sink
          taken,    \* history: model steps of all decided sessions
          late,     \* history: sessions rank 0 began after its deadline
          failures  \* history: exceptions that no other rank has caused

given == <<world, flags, steps>>
vars == <<given, run, expired, decision, closes, taken, late, failures>>

Places == {"init", "check", "create", "session", "finally", "ended"}
Causes == {"init", "create", "session", "peer", "close"}

\* `next' and `parallel' say whether next_session_desc and parallel are set.
Init ==
    /\ world \in {{0}, Ranks}
    /\ flags \in Flags /\ steps \in Budgets
    /\ run = [r \in Ranks |->
                [pc |-> IF r \in world THEN "init" ELSE "ended",
                 next |-> TRUE, parallel |-> FALSE, remaining |-> steps,
                 sessionRunStarted |-> FALSE, windowNeedsClose |-> TRUE,
                 timeLeft |-> TRUE, sessions |-> 0, failure |-> "none"]]
    /\ expired = [r \in Ranks |-> FALSE]
    /\ decision = [session |-> 0, replacement |-> FALSE, used |-> 0]
    /\ closes = [window |-> 0, sink |-> 0]
    /\ taken = 0 /\ late = 0
    /\ failures = 0

-----------------------------------------------------------------------------
Goto(r, place) == run' = [run EXCEPT ![r].pc = place]

\* Something that rank r has called raises, its peer being gone or by itself.
Raises(cause) ==
    \/ cause = "peer" /\ UNCHANGED failures
    \/ cause # "peer" /\ failures < MaxFailures /\ failures' = failures + 1

Close(r, what) ==
    closes' = IF r = 0 THEN [x \in DOMAIN closes |->
                                closes[x] + IF x \in what THEN 1 ELSE 0]
                       ELSE closes

-----------------------------------------------------------------------------
(* The run of rank r, up to and between its sessions.                       *)

\* application.init.  A preload without validation returns here.
InitApplication(r) ==
    /\ run[r].pc = "init"
    /\ \/ /\ Goto(r, IF flags = "skipValidation" THEN "finally" ELSE "check")
          /\ UNCHANGED failures
       \/ /\ Raises("init")
          /\ run' = [run EXCEPT ![r].pc = "finally", ![r].failure = "init"]
    /\ UNCHANGED <<given, expired, decision, closes, taken, late>>

\* Mutation: the deadline is looked at before every session.
DeadlineAlwaysEndsRun(r) == expired[r]

\* Ranks that have agreed on a replacement start it, deadline or not.
DeadlineEndsRun(r) ==
    (~run[r].parallel \/ Cardinality(world) <= 1) /\ expired[r]

\* The head of the loop.
CheckNext(r) ==
    /\ run[r].pc = "check"
    /\ Goto(r, IF run[r].next /\ ~DeadlineEndsRun(r) THEN "create" ELSE "finally")
    /\ UNCHANGED <<given, expired, decision, closes, taken, late, failures>>

\* Mutation: every session is given the whole time of the run.
WholeTime(r) == TRUE

\* remaining_seconds is positive.
TimeLeft(r) == ~expired[r]

\* create_session returns, and run_session is called; or it raises.
CreateSession(r) ==
    /\ run[r].pc = "create"
    /\ \/ /\ run' = [run EXCEPT ![r].pc = "session", ![r].parallel = TRUE,
                                ![r].sessionRunStarted = TRUE,
                                ![r].timeLeft = TimeLeft(r),
                                ![r].sessions = @ + 1]
          /\ late' = late + IF r = 0 /\ expired[r] THEN 1 ELSE 0
          /\ UNCHANGED failures
       \/ /\ Raises("create")
          /\ run' = [run EXCEPT ![r].pc = "finally", ![r].failure = "create"]
          /\ UNCHANGED late
    /\ UNCHANGED <<given, expired, decision, closes, taken>>

-----------------------------------------------------------------------------
(* run_session, called by every rank of the run.                            *)

\* Mutation: every session is given the whole budget.
WholeBudget(r) == IF flags = "preload" THEN 1 ELSE steps

\* session_steps.
SessionSteps(r) == IF flags = "preload" THEN 1 ELSE run[r].remaining

Decided(r) == decision.session = run[r].sessions

\* The session of all ranks comes to its end: no rank exceeds its steps, one
\* whose time is up at the start stops before the first step, and rank 0 says
\* whether there is a replacement, none if its own time was up.
SessionEnds(used, replacement) ==
    /\ run[0].pc = "session" /\ ~Decided(0)
    /\ \A r \in world :
        /\ run[r].sessions = run[0].sessions
        /\ SessionSteps(r) # Unbound => used <= SessionSteps(r)
        /\ run[r].timeLeft \/ used = 0
    /\ replacement => run[0].timeLeft /\ run[0].sessions < MaxSessions
    /\ decision' = [session |-> run[0].sessions,
                    replacement |-> replacement, used |-> used]
    /\ taken' = taken + used
    /\ UNCHANGED <<given, run, expired, closes, late, failures>>

\* max(0, remaining_steps - used), or no limit.
Left(r, used) ==
    IF run[r].remaining = Unbound THEN Unbound
    ELSE IF used > run[r].remaining THEN 0 ELSE run[r].remaining - used

\* Mutation: the budget cancels the replacement before the owner is decided.
NextThenOwner(r) ==
    LET next == decision.replacement /\ Left(r, decision.used) # 0
    IN  [next |-> next, windowNeedsClose |-> next]

\* A replacement leaves the window to the runner, which has still to close it
\* when no step is left for the replacement.
AfterSession(r) ==
    [next |-> decision.replacement /\ Left(r, decision.used) # 0,
     windowNeedsClose |-> decision.replacement]

SessionReturns(r) ==
    /\ run[r].pc = "session" /\ Decided(r)
    /\ run' = [run EXCEPT ![r].pc = "check",
                          ![r].remaining = Left(r, decision.used),
                          ![r].next = AfterSession(r).next,
                          ![r].windowNeedsClose = AfterSession(r).windowNeedsClose]
    /\ Close(r, IF decision.replacement THEN {"sink"} ELSE {"sink", "window"})
    /\ UNCHANGED <<given, expired, decision, taken, late, failures>>

\* run_session has closed what the session used.
SessionFails(r, cause) ==
    /\ run[r].pc = "session"
    /\ Raises(cause)
    /\ run' = [run EXCEPT ![r].pc = "finally", ![r].failure = cause,
                          ![r].windowNeedsClose = FALSE]
    /\ Close(r, {"sink", "window"})
    /\ UNCHANGED <<given, expired, decision, taken, late>>

SessionRaises(r) == SessionFails(r, "session")

\* Mutation: the process group waits without a timeout.
NeverDeserted(r) == FALSE

\* A peer has left and takes no part in the agreements of the session.
Deserted(r) ==
    ~Decided(r) /\ \E q \in world : run[q].pc \in {"finally", "ended"}

PeerIsGone(r) == Deserted(r) /\ SessionFails(r, "peer")

-----------------------------------------------------------------------------
\* _close_application: run_failed keeps what failed first.
CloseFails(r) == IF run[r].failure = "none" THEN "close" ELSE run[r].failure

\* The finally clause: the window, the sink of a run without a session, the
\* application.  Failures of the first two are only logged.
Finally(r) ==
    /\ run[r].pc = "finally"
    /\ Close(r, (IF run[r].windowNeedsClose THEN {"window"} ELSE {}) \cup
                (IF run[r].sessionRunStarted THEN {} ELSE {"sink"}))
    /\ \/ Goto(r, "ended") /\ UNCHANGED failures
       \/ /\ Raises("close")
          /\ run' = [run EXCEPT ![r].pc = "ended", ![r].failure = CloseFails(r)]
    /\ UNCHANGED <<given, expired, decision, taken, late>>

-----------------------------------------------------------------------------
\* The ranks' clocks reach the deadline each at a moment of its own.
Expire(r) ==
    /\ ~expired[r] /\ run[r].pc # "ended"
    /\ expired' = [expired EXCEPT ![r] = TRUE]
    /\ UNCHANGED <<given, run, decision, closes, taken, late, failures>>

Rank(r) ==
    \/ InitApplication(r) \/ CheckNext(r) \/ CreateSession(r)
    \/ SessionReturns(r) \/ SessionRaises(r) \/ PeerIsGone(r) \/ Finally(r)

Session == \E used \in 0..MaxSessionSteps, replacement \in BOOLEAN :
                SessionEnds(used, replacement)

Finished == (\A r \in Ranks : run[r].pc = "ended") /\ UNCHANGED vars

Next == (\E r \in Ranks : Rank(r) \/ Expire(r)) \/ Session \/ Finished

\* Every process is scheduled, and a session that all ranks are in ends (what
\* SessionRunner and StepAgreement show under their own assumptions).
Spec == Init /\ [][Next]_vars /\ WF_vars(Session) /\ \A r \in Ranks : WF_vars(Rank(r))

-----------------------------------------------------------------------------
Steps == Nat \cup {Unbound}

Locals == [pc : Places, next : BOOLEAN, parallel : BOOLEAN, remaining : Steps,
           sessionRunStarted : BOOLEAN, windowNeedsClose : BOOLEAN,
           timeLeft : BOOLEAN, sessions : Nat, failure : Causes \cup {"none"}]

TypeOK ==
    /\ world \in {{0}, Ranks} /\ flags \in Flags /\ steps \in Steps
    /\ run \in [Ranks -> Locals]
    /\ expired \in [Ranks -> BOOLEAN]
    /\ decision \in [session : Nat, replacement : BOOLEAN, used : Nat]
    /\ closes \in [window : Nat, sink : Nat]
    /\ taken \in Nat /\ late \in Nat
    /\ failures \in Nat

(***************************************************************************)
(* The window, which runner and sessions hand to each other, is closed     *)
(* once: not before the last session is over and not later than the run.   *)
(* The sink is closed once for each session, and once if there was none.   *)
(***************************************************************************)
ClosedOnce ==
    /\ run[0].pc \in {"init", "check", "create", "session"} /\ run[0].next
        => closes.window = 0
    /\ run[0].pc = "ended" =>
        /\ closes.window = 1
        /\ closes.sink = IF run[0].sessions = 0 THEN 1 ELSE run[0].sessions

(***************************************************************************)
(* All sessions of a run together take no more model steps than `steps'    *)
(* allows, and a replacement is begun only while some are left.  A preload *)
(* gives each session one step instead.                                    *)
(***************************************************************************)
BudgetKept ==
    steps # Unbound =>
        /\ flags # "preload" => taken <= steps
        /\ \A r \in Ranks :
            run[r].pc = "session" /\ run[r].sessions > 1 => run[r].remaining > 0

(***************************************************************************)
(* A replacement that the ranks have agreed on is begun by all of them,    *)
(* also when the deadline of some passes in between: unless something      *)
(* raised, no rank is deserted in any session after the first.             *)
(***************************************************************************)
AgreedReplacementBegins ==
    \A r \in Ranks : run[r].failure = "peer" /\ run[r].sessions > 1 =>
        failures > 0

(***************************************************************************)
(* The deadline holds for the whole run: at most one session, created      *)
(* while the deadline passed or agreed on before, begins after it.         *)
(***************************************************************************)
DeadlineKept == late <= 1

(***************************************************************************)
(* Every rank's run ends, also when a peer never comes to a session.       *)
(***************************************************************************)
RunEnds == <>[](\A r \in Ranks : run[r].pc = "ended")

=============================================================================
