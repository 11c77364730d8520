--------------------------- MODULE StepAgreement ----------------------------
(***************************************************************************)
(* runtime_v2/coordination.py and the code that calls it: one session run  *)
(* by several ranks, each with a main thread (run_session) and a model     *)
(* thread (_run_model_loop).  Rank 0 owns the window.  The ranks talk      *)
(* through the collectives of one process group, matched by their order    *)
(* alone: the k-th call of a rank meets the k-th call of every other rank, *)
(* whatever the calls are.                                                 *)
(*                                                                         *)
(* The process group is the environment: an all_reduce returns when every  *)
(* rank has made the call, a broadcast when rank 0 has.  A call that waits *)
(* for a rank that has left raises (AGREEMENT_TIMEOUT is far longer than a *)
(* tick, so a rank that is only slow is waited for).  Presentation and the *)
(* event buffer are in SessionRunner; here a rank's step either runs or    *)
(* raises.                                                                 *)
(***************************************************************************)
EXTENDS Integers, Sequences, FiniteSets

CONSTANTS Workers,      \* the ranks other than rank 0
          StepLimit,    \* `steps', the same on every rank
          MaxPolls,     \* bound: session results that say "go on"
          MaxFailures   \* bound: exceptions on any rank

ASSUME WorkersAreNotRankZero == 0 \notin Workers
ASSUME BoundsAreNat == {StepLimit, MaxPolls, MaxFailures} \subseteq Nat

Ranks == Workers \cup {0}

\* What rank 0 may have read for a step: its reset generation, or a close.
Inputs == {"generation0", "generation1", "close"}
Nothing == "nothing"      \* None, in a payload or as a replacement
Replacement == "replacement"

VARIABLES calls,     \* per rank: the collectives it has entered, in order
          model,     \* per rank: where the model thread is
          main,      \* per rank: where the main thread is
          stop,      \* per rank: _shutdown_event
          failed,    \* per rank: "no", "model" (the failure queue) or "main"
          nextSession, \* per rank: next_session_desc
          read,      \* per rank: the inputs of the step being prepared
          steps,     \* per rank: the inputs of each step it has begun
          raised     \* history: ranks that raised by themselves

vars == <<calls, model, main, stop, failed, nextSession, read, steps, raised>>

ModelPlaces == {"off", "check", "ready", "inputs", "prepare", "admit", "giveUp",
                "step", "dead"}
MainPlaces == {"setup", "tick", "poll", "join", "ended"}

Init ==
    /\ calls = [r \in Ranks |-> <<>>]
    /\ model = [r \in Ranks |-> "off"]
    /\ main = [r \in Ranks |-> "setup"]
    /\ stop = [r \in Ranks |-> FALSE]
    /\ failed = [r \in Ranks |-> "no"]
    /\ nextSession = [r \in Ranks |-> Nothing]
    /\ read = [r \in Ranks |-> Nothing]
    /\ steps = [r \in Ranks |-> <<>>]
    /\ raised = {}

-----------------------------------------------------------------------------
(* The process group.                                                       *)

Enter(r, kind, value) ==
    calls' = [calls EXCEPT ![r] = Append(@, [kind |-> kind, value |-> value])]

\* The call that rank r is in, and who has come to it.
Position(r) == Len(calls[r])
Arrived(q, r) == Len(calls[q]) >= Position(r)
ValueOf(q, r) == calls[q][Position(r)].value

Reduced(r) == \A q \in Ranks : Arrived(q, r)
Broadcast(r) == Arrived(0, r)

\* Mutation: the group is made without a timeout.
WaitsForEver(r) == r \notin Ranks

\* A rank that has left will not come.
Deserted(r) == \E q \in Ranks : ~Arrived(q, r) /\ main[q] = "ended"

\* Something of rank r's own raises: a hook, the window, the step.
Raises(r) ==
    /\ r \notin raised /\ Cardinality(raised) < MaxFailures
    /\ raised' = raised \cup {r}

ModelAt(r, place) == model' = [model EXCEPT ![r] = place]
MainAt(r, place) == main' = [main EXCEPT ![r] = place]

\* The exception goes to the failure queue and the thread ends.
ModelFails(r) ==
    /\ ModelAt(r, "dead")
    /\ failed' = [failed EXCEPT ![r] = IF @ = "no" THEN "model" ELSE @]

-----------------------------------------------------------------------------
(* The model thread of rank r.                                              *)

\* Mutation: a rank that is stopping leaves without asking the others.
ModelCheckAlone(r) ==
    LET stopping == stop[r] \/ Len(steps[r]) >= StepLimit
    IN  /\ model[r] = "check"
        /\ \/ stopping /\ ModelAt(r, "dead") /\ UNCHANGED calls
           \/ ~stopping /\ Enter(r, "ready", "go") /\ ModelAt(r, "ready")
        /\ UNCHANGED <<main, stop, failed, nextSession, read, steps, raised>>

\* ready(stopping=...): the first agreement of an iteration.
ModelCheck(r) ==
    LET stopping == stop[r] \/ Len(steps[r]) >= StepLimit
    IN  /\ model[r] = "check"
        /\ Enter(r, "ready", IF stopping THEN "stopping" ELSE "go")
        /\ ModelAt(r, "ready")
        /\ UNCHANGED <<main, stop, failed, nextSession, read, steps, raised>>

\* Mutation: a rank looks at its own status only.
AdmittedByItself(r) == ValueOf(r, r) = "go"

\* The maximum of the statuses, of which "go" is 0, "stopping" 1 and "failed" 2.
Admitted(r) == \A q \in Ranks : ValueOf(q, r) = "go"
PeerFailed(r) == \E q \in Ranks : ValueOf(q, r) = "failed"

\* ready() returns: read the input and enter inputs(), or leave, or raise.
ModelReady(r) ==
    /\ model[r] = "ready"
    /\ \/ /\ Reduced(r) /\ Admitted(r)
          /\ \E batch \in Inputs :
                Enter(r, "inputs", IF r = 0 THEN batch ELSE Nothing)
          /\ ModelAt(r, "inputs") /\ UNCHANGED failed
       \/ /\ Reduced(r) /\ ~Admitted(r) /\ ~PeerFailed(r)
          /\ ModelAt(r, "dead") /\ UNCHANGED <<calls, failed>>
       \/ /\ (Reduced(r) /\ PeerFailed(r)) \/ Deserted(r)
          /\ ModelFails(r) /\ UNCHANGED calls
    /\ UNCHANGED <<main, stop, nextSession, read, steps, raised>>

\* inputs() returns what rank 0 read.
ModelInputs(r) ==
    /\ model[r] = "inputs"
    /\ \/ /\ Broadcast(r)
          /\ read' = [read EXCEPT ![r] = ValueOf(0, r)]
          /\ ModelAt(r, "prepare") /\ UNCHANGED failed
       \/ Deserted(r) /\ ModelFails(r) /\ UNCHANGED read
    /\ UNCHANGED <<calls, main, stop, nextSession, steps, raised>>

\* _begin_run and the pace.  A close event, the shutdown event or is_finished
\* makes the rank vote against the step; an exception makes it say so.
ModelPrepare(r) ==
    /\ model[r] = "prepare"
    /\ \/ /\ Raises(r)
          /\ Enter(r, "ready", "failed") /\ ModelAt(r, "giveUp")
       \/ /\ UNCHANGED raised
          /\ \E status \in IF stop[r] \/ read[r] = "close" THEN {"stopping"}
                                                       ELSE {"go", "stopping"} :
                Enter(r, "ready", status)
          /\ ModelAt(r, "admit")
    /\ UNCHANGED <<main, stop, failed, nextSession, read, steps>>

\* The second ready() returns.
ModelAdmit(r) ==
    /\ model[r] = "admit"
    /\ \/ /\ Reduced(r) /\ Admitted(r)
          /\ ModelAt(r, "step") /\ UNCHANGED failed
       \/ /\ Reduced(r) /\ ~Admitted(r) /\ ~PeerFailed(r)
          /\ ModelAt(r, "dead") /\ UNCHANGED failed
       \/ /\ (Reduced(r) /\ PeerFailed(r)) \/ Deserted(r)
          /\ ModelFails(r)
    /\ UNCHANGED <<calls, main, stop, nextSession, read, steps, raised>>

\* ready(stopping=True, failed=True) raises, and the first exception with it.
ModelGiveUp(r) ==
    /\ model[r] = "giveUp"
    /\ Reduced(r) \/ Deserted(r)
    /\ ModelFails(r)
    /\ UNCHANGED <<calls, main, stop, nextSession, read, steps, raised>>

\* step() and publish().
ModelStep(r) ==
    /\ model[r] = "step"
    /\ steps' = [steps EXCEPT ![r] = Append(@, read[r])]
    /\ read' = [read EXCEPT ![r] = Nothing]
    /\ \/ ModelAt(r, "check") /\ UNCHANGED <<failed, raised>>
       \/ Raises(r) /\ ModelFails(r)
    /\ UNCHANGED <<calls, main, stop, nextSession>>

ModelThread(r) ==
    \/ ModelCheck(r) \/ ModelReady(r) \/ ModelInputs(r) \/ ModelPrepare(r)
    \/ ModelAdmit(r) \/ ModelGiveUp(r) \/ ModelStep(r)

-----------------------------------------------------------------------------
(* The main thread of rank r.                                               *)

\* The model thread is started even when the run is over already.
Setup(r) ==
    /\ main[r] = "setup"
    /\ \/ /\ \E over \in BOOLEAN : stop' = [stop EXCEPT ![r] = over]
          /\ ModelAt(r, "check") /\ MainAt(r, "tick")
          /\ UNCHANGED <<failed, raised>>
       \/ /\ Raises(r)
          /\ failed' = [failed EXCEPT ![r] = "main"]
          /\ stop' = [stop EXCEPT ![r] = TRUE]
          /\ MainAt(r, "join") /\ UNCHANGED model
    /\ UNCHANGED <<calls, nextSession, read, steps>>

\* A tick that ends the run: the deadline passes on any rank; on rank 0 the UI
\* sees a close event or asks for another session.
StopRequested(r) ==
    /\ main[r] = "tick"
    /\ stop' = [stop EXCEPT ![r] = TRUE]
    /\ \/ nextSession' = [nextSession EXCEPT ![r] = Nothing]
       \/ /\ r = 0 /\ ~stop[r]
          /\ nextSession' = [nextSession EXCEPT ![r] = Replacement]
    /\ UNCHANGED <<calls, model, main, failed, read, steps, raised>>

\* A tick that raises.
TickFails(r) ==
    /\ main[r] = "tick" /\ failed[r] = "no" /\ Raises(r)
    /\ failed' = [failed EXCEPT ![r] = "main"]
    /\ stop' = [stop EXCEPT ![r] = TRUE]
    /\ MainAt(r, "join")
    /\ UNCHANGED <<calls, model, nextSession, read, steps>>

\* What a rank puts into session_result; a worker's own view is not looked at.
Result(r, stopping) ==
    IF r # 0 THEN Nothing ELSE IF stopping THEN nextSession[r] ELSE "continue"

PollsSaid(r) == Cardinality({k \in DOMAIN calls[r] : calls[r][k].kind = "result"})

\* should_end_ui once the model thread is dead: a failure ends the session, and
\* otherwise rank 0's result is asked for.  Rank 0 may go on while frames are
\* still to be shown or the UI is not finished.
Poll(r) ==
    /\ main[r] = "tick" /\ model[r] = "dead"
    /\ \/ /\ failed[r] # "no"
          /\ stop' = [stop EXCEPT ![r] = TRUE]
          /\ MainAt(r, "join") /\ UNCHANGED calls
       \/ /\ failed[r] = "no"
          /\ \E stopping \in IF stop[r] \/ PollsSaid(r) >= MaxPolls THEN {TRUE}
                                                                    ELSE BOOLEAN :
                Enter(r, "result", Result(r, stopping))
          /\ MainAt(r, "poll") /\ UNCHANGED stop
    /\ UNCHANGED <<model, failed, nextSession, read, steps, raised>>

\* Mutation: a rank keeps the replacement it knows of.
PolledOwn(r) ==
    /\ main[r] = "poll" /\ Broadcast(r)
    /\ MainAt(r, IF ValueOf(0, r) = "continue" THEN "tick" ELSE "join")
    /\ stop' = [stop EXCEPT ![r] = @ \/ ValueOf(0, r) # "continue"]
    /\ UNCHANGED <<calls, model, failed, nextSession, read, steps, raised>>

\* session_result() returns: all go on, or all end with rank 0's replacement.
Polled(r) ==
    /\ main[r] = "poll"
    /\ \/ /\ Broadcast(r) /\ ValueOf(0, r) = "continue"
          /\ MainAt(r, "tick") /\ UNCHANGED <<stop, failed, nextSession>>
       \/ /\ Broadcast(r) /\ ValueOf(0, r) # "continue"
          /\ nextSession' = [nextSession EXCEPT ![r] = ValueOf(0, r)]
          /\ stop' = [stop EXCEPT ![r] = TRUE]
          /\ MainAt(r, "join") /\ UNCHANGED failed
       \/ /\ Deserted(r)
          /\ failed' = [failed EXCEPT ![r] = "main"]
          /\ stop' = [stop EXCEPT ![r] = TRUE]
          /\ MainAt(r, "join") /\ UNCHANGED nextSession
    /\ UNCHANGED <<calls, model, read, steps, raised>>

\* The finally clause: join the model thread, release the group without a
\* collective, return or raise.
Leave(r) ==
    /\ main[r] = "join" /\ model[r] \in {"off", "dead"}
    /\ MainAt(r, "ended")
    /\ UNCHANGED <<calls, model, stop, failed, nextSession, read, steps, raised>>

MainThread(r) ==
    Setup(r) \/ StopRequested(r) \/ TickFails(r) \/ Poll(r) \/ Polled(r) \/ Leave(r)

Finished == (\A r \in Ranks : main[r] = "ended") /\ UNCHANGED vars

Next == (\E r \in Ranks : ModelThread(r) \/ MainThread(r)) \/ Finished

\* Both threads of every rank are scheduled.  Nothing obliges a rank to stop
\* or to fail.
Fairness ==
    \A r \in Ranks : /\ WF_vars(ModelThread(r))
                     /\ WF_vars(Setup(r)) /\ WF_vars(Poll(r))
                     /\ WF_vars(Polled(r)) /\ WF_vars(Leave(r))

Spec == Init /\ [][Next]_vars /\ Fairness

-----------------------------------------------------------------------------
Calls == [kind : {"ready", "inputs", "result"},
          value : {"go", "stopping", "failed", "continue", Nothing, Replacement}
                  \cup Inputs]

TypeOK ==
    /\ calls \in [Ranks -> Seq(Calls)]
    /\ model \in [Ranks -> ModelPlaces] /\ main \in [Ranks -> MainPlaces]
    /\ stop \in [Ranks -> BOOLEAN]
    /\ failed \in [Ranks -> {"no", "model", "main"}]
    /\ nextSession \in [Ranks -> {Nothing, Replacement}]
    /\ read \in [Ranks -> Inputs \cup {Nothing}]
    /\ steps \in [Ranks -> Seq(Inputs)]
    /\ raised \subseteq Ranks

(***************************************************************************)
(* The ranks make the same collectives in the same order, whichever of     *)
(* their two threads makes them and however they end, so an all_reduce     *)
(* never meets a broadcast.                                                *)
(***************************************************************************)
CollectivesMatch ==
    /\ TypeOK
    /\ \A q, r \in Ranks : \A k \in DOMAIN calls[q] \cap DOMAIN calls[r] :
         calls[q][k].kind = calls[r][k].kind

(***************************************************************************)
(* A rank is in a step only when every rank is committed to it: it has run *)
(* it, is running it or has only to see the agreement, so that the model's *)
(* own collectives inside the step find all their peers.                   *)
(***************************************************************************)
AdmissionCommitsAll ==
    \A r \in Ranks : model[r] = "step" =>
        \A q \in Ranks :
            \/ Len(steps[q]) > Len(steps[r])
            \/ /\ Len(steps[q]) = Len(steps[r])
               /\ \/ model[q] = "step"
                  \/ model[q] = "admit" /\ Reduced(q) /\ Admitted(q)

(***************************************************************************)
(* Ranks that end without a failure agree on whether a replacement session *)
(* follows and have run the same steps, wherever deadlines passed.         *)
(***************************************************************************)
SameOutcome ==
    \A q, r \in Ranks :
        (\A p \in {q, r} : main[p] = "ended" /\ failed[p] = "no")
            => nextSession[q] = nextSession[r] /\ steps[q] = steps[r]

(***************************************************************************)
(* A stop on rank 0, or a failure anywhere, ends the session on every      *)
(* rank: nobody waits for ever in a collective.                            *)
(***************************************************************************)
AllRanksEnd ==
    (stop[0] \/ \E r \in Ranks : failed[r] # "no")
        ~> \A r \in Ranks : main[r] = "ended"
=============================================================================
