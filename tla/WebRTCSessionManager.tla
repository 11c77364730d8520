----------------------- MODULE WebRTCSessionManager -----------------------
(***************************************************************************)
(* serving/webrtc/manager.py with what it runs on: the admission policy of *)
(* runtime/demo/run_modes.py, the realtime driver and its cleanup of       *)
(* runtime/demo/drivers.py, the RuntimeHost and its one-thread worker.     *)
(*                                                                         *)
(* One browser at a time owns the model.  An offer reserves the slot,      *)
(* builds a peer and makes it the active session; a data channel starts    *)
(* the task that drives the model; any of several tasks closes the         *)
(* session.  All tasks share one event loop: an action is the code between *)
(* two awaits.  The worker thread is the only other thread.                *)
(*                                                                         *)
(* A task is <<kind, s>>, with s the session that created it:              *)
(*   offer     the HTTP handler in create_answer                           *)
(*   run       generation_task, _run_realtime_driver_session               *)
(*   watch     liveness_task, _client_liveness_watchdog                    *)
(*   event     close_active_session for a closed channel, a disconnect     *)
(*             message or a failed connection                              *)
(*   closed    close_active_session for the state change to "closed" that  *)
(*             peer_connection.close() itself reports                      *)
(*   overload  _close_overloaded_input_session                             *)
(* Bound: every session has each task at most once.                        *)
(***************************************************************************)
EXTENDS Integers, Sequences, SequencesExt, FiniteSets

CONSTANTS Sessions,       \* peers a browser may offer
          None,           \* no session, no input
          KeepConnection, \* the values of keep_connection_after_completed
          Inputs,         \* what set_pending_session_input may be given
          Asks            \* bound: the closing tasks that may wake

ASSUME NoneIsApart == None \notin Sessions \cup Inputs
ASSUME KeepConnection \subseteq BOOLEAN
ASSUME Asks \subseteq {"event", "overload", "watch"} \X Sessions

Closers == {"run", "watch", "event", "closed", "overload"}
Tasks == (Closers \cup {"offer"}) \X Sessions

VARIABLES
    keep,      \* keep_connection_after_completed
    lock,      \* _session_lock: the task that holds it, then those that wait
    pc,        \* per task: where it is
    active,    \* _active_session
    life,      \* per session: how far ManagedWebRTCSession.close has come
    by,        \* per session: the task that closes it
    transport, \* per session: transport.is_active()
    cancelled, \* per session: generation_task.cancel() not yet delivered
    completed, \* per session: the latest generation ended as "completed"
    reserved,  \* _reserved of the admission policy
    slot,      \* per session: its reservation
    queue,     \* submitted to the worker thread, in order
    ready,     \* per session: the latest finished call and its success
    known,     \* per session: model resources the driver has a reference to
    open,      \* per session: model resources open on the worker
    healthy,   \* host.is_healthy
    pending,   \* _pending_session_input
    input      \* session_input of the offer that has the session lock

closing == <<active, life, by, transport>>
slots == <<reserved, slot>>
worker == <<queue, ready, open>>
inputs == <<pending, input>>
vars == <<keep, lock, pc, closing, cancelled, completed, slots, worker, known,
          healthy, inputs>>

Init ==
    /\ keep \in KeepConnection
    /\ lock = <<>> /\ active = None /\ reserved = FALSE /\ healthy = TRUE
    /\ pc = [t \in Tasks |-> "none"]
    /\ life = [s \in Sessions |-> "none"]
    /\ by = [s \in Sessions |-> <<>>]
    /\ transport = [s \in Sessions |-> FALSE]
    /\ cancelled = [s \in Sessions |-> FALSE]
    /\ completed = [s \in Sessions |-> FALSE]
    /\ slot = [s \in Sessions |-> "none"]
    /\ queue = <<>>
    /\ ready = [s \in Sessions |-> <<>>]
    /\ known = [s \in Sessions |-> {}]
    /\ open = [s \in Sessions |-> {}]
    /\ pending = None
    /\ input = None

At(kind, s, place) == pc[<<kind, s>>] = place
Goto(kind, s, place) == pc' = [pc EXCEPT ![<<kind, s>>] = place]
Queue(kind, s) == lock' = Append(lock, <<kind, s>>)
Holds(t) == lock # <<>> /\ Head(lock) = t
Unlock == lock' = Tail(lock)

Reserve(s) == reserved' = TRUE /\ slot' = [slot EXCEPT ![s] = "held"]
\* Releasing twice does nothing: a reservation remembers that it was released.
Release(s) == IF slot[s] = "held"
              THEN reserved' = FALSE /\ slot' = [slot EXCEPT ![s] = "none"]
              ELSE UNCHANGED slots
\* The last reference to a reservation is dropped without a release.
Lose(s) == /\ slot' = [slot EXCEPT ![s] = IF @ = "held" THEN "lost" ELSE @]
           /\ UNCHANGED reserved
Reservable == ~reserved /\ healthy

Submit(call, s) == /\ queue' = Append(queue, <<call, s>>)
                   /\ ready' = [ready EXCEPT ![s] = <<>>]
                   /\ UNCHANGED open
Finished(call, s, ok) == ready[s] = <<call, ok>>

-----------------------------------------------------------------------------
\* The worker thread runs one call at a time, cancelled callers or not.
WorkerRuns ==
    /\ queue # <<>>
    /\ \E ok \in BOOLEAN:
         LET call == Head(queue)[1]
             s == Head(queue)[2]
         IN  /\ ready' = [ready EXCEPT ![s] = <<call, ok>>]
             /\ open' = [open EXCEPT ![s] =
                           CASE call \in {"provider", "session"} /\ ok -> @ \cup {call}
                             [] call = "close" /\ ok -> @ \ known[s]
                             [] OTHER -> @]
    /\ queue' = Tail(queue)
    /\ UNCHANGED <<keep, lock, pc, closing, cancelled, completed, slots, known,
                   healthy, inputs>>

-----------------------------------------------------------------------------
\* create_answer, up to the session lock.
Offer(s) ==
    /\ At("offer", s, "none")
    /\ Goto("offer", s, "waiting") /\ Queue("offer", s)
    /\ UNCHANGED <<keep, closing, cancelled, completed, slots, worker, known,
                   healthy, inputs>>

Busy == active # None /\ life[active] = "open"

\* Granted the lock: refuse the browser, or reserve and reset the runtime.
Admit(s) ==
    /\ Holds(<<"offer", s>>) /\ At("offer", s, "waiting")
    /\ \/ /\ Busy \/ ~Reservable
          /\ Goto("offer", s, "refused") /\ Unlock
          /\ UNCHANGED <<slots, worker, input>>
       \/ /\ ~Busy /\ Reservable
          /\ Reserve(s)
          /\ input' = pending
          /\ Submit("reset", s) /\ Goto("offer", s, "resetting")
          /\ UNCHANGED lock
    /\ UNCHANGED <<keep, closing, cancelled, completed, known, healthy, pending>>

\* The reset has run: give up, or build the session and start its watchdog.
Build(s) ==
    /\ At("offer", s, "resetting")
    /\ \/ /\ \E ok \in BOOLEAN: Finished("reset", s, ok)
          /\ Release(s)
          /\ Goto("offer", s, "failed") /\ Unlock /\ input' = None
          /\ UNCHANGED closing
       \/ /\ Finished("reset", s, TRUE)
          /\ active' = s
          /\ life' = [life EXCEPT ![s] = "open"]
          /\ transport' = [transport EXCEPT ![s] = TRUE]
          /\ pc' = [pc EXCEPT ![<<"offer", s>>] = "negotiating",
                              ![<<"watch", s>>] = "alive"]
          /\ UNCHANGED <<lock, by, slots, input>>
    /\ UNCHANGED <<keep, cancelled, completed, worker, known, healthy, pending>>

Answer(s) ==
    /\ At("offer", s, "negotiating")
    /\ Goto("offer", s, "answered") /\ Unlock
    /\ pending' = None /\ input' = None
    /\ UNCHANGED <<keep, closing, cancelled, completed, slots, worker, known,
                   healthy>>

\* set_pending_session_input, from another request.
SetInput ==
    /\ ~Busy
    /\ \E i \in Inputs: i # pending /\ pending' = i
    /\ UNCHANGED <<keep, lock, pc, closing, cancelled, completed, slots, worker,
                   known, healthy, input>>

-----------------------------------------------------------------------------
\* The first part of ManagedWebRTCSession.close, run by task t: the watchdog
\* and the generation task are cancelled unless one of them is t.
StartClosing(s, t, place) ==
    LET others == {<<"watch", s>>, <<"run", s>>} \ {t} IN
    /\ life' = [life EXCEPT ![s] = "draining"]
    /\ by' = [by EXCEPT ![s] = t]
    /\ transport' = [transport EXCEPT ![s] = FALSE]
    /\ pc' = [pc EXCEPT ![t] = place,
                        ![<<"watch", s>>] = IF <<"watch", s>> = t THEN place ELSE "done"]
    /\ cancelled' = [cancelled EXCEPT ![s] = /\ <<"run", s>> # t
                                             /\ pc[<<"run", s>>] \notin {"none", "done"}]
    /\ lock' = IF <<"watch", s>> = t THEN lock ELSE RemoveFirst(lock, <<"watch", s>>)

\* Mutation: a failed negotiation forgets the session without closing it.
FailWithoutClose(s) ==
    /\ At("offer", s, "negotiating")
    /\ Goto("offer", s, "failed") /\ Unlock
    /\ active' = None /\ input' = None
    /\ UNCHANGED <<keep, life, by, transport, cancelled, completed, slots, worker,
                   known, healthy, pending>>

FailNegotiation(s) ==
    /\ At("offer", s, "negotiating")
    /\ StartClosing(s, <<"offer", s>>, "failing")
    /\ input' = None
    /\ UNCHANGED <<keep, active, completed, slots, worker, known, healthy, pending>>

\* Something asks for a close: the task waits for the session lock.
Wake(kind, s) ==
    /\ life[s] = "open"
    /\ \/ kind = "event" /\ At("event", s, "none")
       \/ kind = "overload" /\ At("overload", s, "none") /\ ~At("run", s, "none")
       \/ kind = "watch" /\ At("watch", s, "alive")
    /\ Goto(kind, s, "waiting") /\ Queue(kind, s)
    /\ \/ kind # "watch" /\ transport' = [transport EXCEPT ![s] = FALSE]
       \/ kind # "overload" /\ UNCHANGED transport
    /\ UNCHANGED <<keep, active, life, by, cancelled, completed, slots, worker,
                   known, healthy, inputs>>

\* close_active_session closes whatever session is active when it gets the
\* lock; the overload path closes the session it was created for.
Close(t) ==
    LET target == IF t[1] = "overload" THEN t[2] ELSE active IN
    /\ Holds(t) /\ t[1] \in Closers /\ pc[t] = "waiting"
    /\ active' = IF active = target THEN None ELSE active
    /\ IF target # None /\ life[target] = "open"
       THEN StartClosing(target, t, "closing")
       ELSE /\ pc' = [pc EXCEPT ![t] = "done"] /\ Unlock
            /\ UNCHANGED <<life, by, transport, cancelled>>
    /\ UNCHANGED <<keep, completed, slots, worker, known, healthy, inputs>>

\* Mutation: close forgets the reservation of a session that never ran.
DrainedWithoutRelease(s) ==
    LET over == pc[<<"run", s>>] \in {"none", "done"} IN
    /\ life[s] = "draining" /\ (over \/ by[s] = <<"run", s>>)
    /\ life' = [life EXCEPT ![s] = "peer"]
    /\ UNCHANGED <<keep, lock, pc, active, by, transport, cancelled, completed,
                   slots, worker, known, healthy, inputs>>

\* Mutation: close gathers the generation task even when that is the closer.
DrainedWhenOver(s) ==
    /\ life[s] = "draining" /\ pc[<<"run", s>>] \in {"none", "done"}
    /\ life' = [life EXCEPT ![s] = "peer"]
    /\ Release(s)
    /\ UNCHANGED <<keep, lock, pc, active, by, transport, cancelled, completed,
                   worker, known, healthy, inputs>>

\* The generation task is over, or is the closer: release and close the peer.
Drained(s) ==
    LET over == pc[<<"run", s>>] \in {"none", "done"} IN
    /\ life[s] = "draining" /\ (over \/ by[s] = <<"run", s>>)
    /\ life' = [life EXCEPT ![s] = "peer"]
    /\ IF over THEN Release(s) ELSE UNCHANGED slots
    /\ UNCHANGED <<keep, lock, pc, active, by, transport, cancelled, completed,
                   worker, known, healthy, inputs>>

\* peer_connection.close() ends; it may report the state "closed".
PeerClosed(s) ==
    LET t == by[s] IN
    /\ life[s] = "peer"
    /\ life' = [life EXCEPT ![s] = "closed"]
    /\ active' = IF t[1] = "offer" THEN None ELSE active
    /\ \E report \in BOOLEAN:
         /\ pc' = [pc EXCEPT ![t] = IF t[1] = "offer" THEN "failed" ELSE "done",
                             ![<<"closed", s>>] = IF report THEN "waiting" ELSE @]
         /\ lock' = IF report THEN Append(Tail(lock), <<"closed", s>>) ELSE Tail(lock)
    /\ UNCHANGED <<keep, by, transport, cancelled, completed, slots, worker, known,
                   healthy, inputs>>

-----------------------------------------------------------------------------
\* on_datachannel creates the generation task.
Channel(s) ==
    /\ life[s] = "open" /\ At("offer", s, "answered") /\ At("run", s, "none")
    /\ Goto("run", s, "new")
    /\ UNCHANGED <<keep, lock, closing, cancelled, completed, slots, worker, known,
                   healthy, inputs>>

\* ... or while close awaits the cancelled watchdog: the task sees `closed'
\* and drops the session's reservation before close can release it.
LateChannel(s) ==
    /\ life[s] = "draining" /\ by[s] # <<"watch", s>>
    /\ At("offer", s, "answered") /\ At("run", s, "none")
    /\ Goto("run", s, "done") /\ Lose(s)
    /\ UNCHANGED <<keep, lock, closing, cancelled, completed, worker, known,
                   healthy, inputs>>

\* The `finally' of the generation task: close the session if it is active.
Leave(s) == IF active = s THEN Goto("run", s, "waiting") /\ Queue("run", s)
                          ELSE Goto("run", s, "done") /\ UNCHANGED lock

\* A generation begins with the session's reservation, or makes one.
BeginRun(s) ==
    /\ At("run", s, "new") /\ ~cancelled[s]
    /\ \/ /\ slot[s] = "held" \/ Reservable
          /\ Reserve(s)
          /\ Submit("provider", s) /\ Goto("run", s, "assembling")
          /\ UNCHANGED lock
       \/ slot[s] # "held" /\ ~Reservable /\ Leave(s) /\ UNCHANGED <<slots, worker>>
    /\ UNCHANGED <<keep, closing, cancelled, completed, known, healthy, inputs>>

\* The scenario or the pipeline of the generation cannot be made.
PrepareFails(s) ==
    /\ At("run", s, "new") /\ ~cancelled[s]
    /\ Lose(s) /\ Leave(s)
    /\ UNCHANGED <<keep, closing, cancelled, completed, worker, known, healthy, inputs>>

\* shielded_session_cleanup submits one call that closes what is known.
Cleanup(s) == Submit("close", s) /\ Goto("run", s, "cleanup") /\ UNCHANGED lock

Provided(s) ==
    /\ At("run", s, "assembling") /\ ~cancelled[s]
    /\ \/ /\ Finished("provider", s, FALSE)
          /\ Release(s) /\ Leave(s)
          /\ UNCHANGED <<known, worker>>
       \/ /\ Finished("provider", s, TRUE)
          /\ known' = [known EXCEPT ![s] = @ \cup {"provider"}]
          /\ UNCHANGED slots
          /\ \/ Goto("run", s, "activating") /\ UNCHANGED <<lock, worker>>
             \/ Cleanup(s)
    /\ completed' = [completed EXCEPT ![s] = FALSE]
    /\ UNCHANGED <<keep, closing, cancelled, healthy, inputs>>

\* The browser's first input, if the peer is still there.
Activate(s) ==
    /\ At("run", s, "activating") /\ ~cancelled[s] /\ transport[s]
    /\ Submit("session", s) /\ Goto("run", s, "starting")
    /\ UNCHANGED <<keep, lock, closing, cancelled, completed, slots, known, healthy,
                   inputs>>

\* The run is over: no peer, no more steps, or a call that failed.
Ends(s) ==
    \/ At("run", s, "activating") /\ ~transport[s]
    \/ At("run", s, "starting") /\ Finished("session", s, FALSE)
    \/ At("run", s, "stepping") /\ Finished("step", s, FALSE)
    \/ At("run", s, "running")

EndRun(s) ==
    /\ Ends(s) /\ ~cancelled[s]
    /\ Cleanup(s)
    /\ completed' \in {completed, [completed EXCEPT ![s] = At("run", s, "running")]}
    /\ UNCHANGED <<keep, closing, cancelled, slots, known, healthy, inputs>>

\* The model session has started, or a step is done; then the next step.
Started(s) ==
    /\ ~cancelled[s]
    /\ \/ /\ At("run", s, "starting") /\ Finished("session", s, TRUE)
          /\ known' = [known EXCEPT ![s] = @ \cup {"session"}]
       \/ At("run", s, "stepping") /\ Finished("step", s, TRUE) /\ UNCHANGED known
    /\ Goto("run", s, "running")
    /\ UNCHANGED <<keep, lock, closing, cancelled, completed, slots, worker, healthy,
                   inputs>>

Step(s) ==
    /\ At("run", s, "running") /\ ~cancelled[s] /\ transport[s]
    /\ Submit("step", s) /\ Goto("run", s, "stepping")
    /\ UNCHANGED <<keep, lock, closing, cancelled, completed, slots, known, healthy,
                   inputs>>

\* Mutation: a cleanup that fails or times out does not quarantine the host.
CleanedAnyway(s) ==
    /\ At("run", s, "cleanup")
    /\ known' = [known EXCEPT ![s] = IF Finished("close", s, TRUE) THEN {} ELSE @]
    /\ Release(s)
    /\ cancelled' = [cancelled EXCEPT ![s] = FALSE]
    /\ IF keep /\ completed[s]
       THEN Goto("run", s, "idle") /\ UNCHANGED lock
       ELSE Leave(s)
    /\ UNCHANGED <<keep, closing, completed, worker, healthy, inputs>>

\* Cleanup has run, has failed, or has timed out: quarantine the host unless
\* it succeeded, release, and leave or wait for the next generation.
Cleaned(s) ==
    /\ At("run", s, "cleanup")
    /\ \/ /\ Finished("close", s, TRUE)
          /\ known' = [known EXCEPT ![s] = {}] /\ UNCHANGED healthy
       \/ /\ ~Finished("close", s, TRUE)
          /\ healthy' = FALSE /\ UNCHANGED known
    /\ Release(s)
    /\ cancelled' = [cancelled EXCEPT ![s] = FALSE]
    /\ IF keep /\ completed[s]
       THEN Goto("run", s, "idle") /\ UNCHANGED lock
       ELSE Leave(s)
    /\ UNCHANGED <<keep, closing, completed, worker, inputs>>

\* Between two generations the browser asks for the next, or goes away.
Ask(s) ==
    /\ At("run", s, "idle") /\ transport[s] /\ ~cancelled[s]
    /\ Goto("run", s, "new")
    /\ UNCHANGED <<keep, lock, closing, cancelled, completed, slots, worker, known,
                   healthy, inputs>>

LeaveIdle(s) ==
    /\ At("run", s, "idle") /\ ~transport[s] /\ ~cancelled[s]
    /\ Leave(s)
    /\ UNCHANGED <<keep, closing, cancelled, completed, slots, worker, known,
                   healthy, inputs>>

\* CancelledError reaches the generation task where it awaits.  The cleanup
\* is shielded; a call that is already submitted still runs.
Cancel(s) ==
    /\ cancelled[s]
    /\ cancelled' = [cancelled EXCEPT ![s] = FALSE]
    /\ \/ /\ At("run", s, "cleanup")
          /\ UNCHANGED <<lock, pc, slots, worker>>
       \/ /\ pc[<<"run", s>>] \in {"activating", "starting", "running", "stepping"}
          /\ Cleanup(s) /\ UNCHANGED slots
       \/ /\ At("run", s, "assembling")
          /\ Release(s) /\ Leave(s) /\ UNCHANGED worker
       \/ /\ pc[<<"run", s>>] \in {"new", "idle", "waiting", "done"}
          /\ Goto("run", s, "done")
          /\ lock' = RemoveFirst(lock, <<"run", s>>)
          /\ UNCHANGED <<slots, worker>>
    /\ completed' = [completed EXCEPT ![s] = @ /\ At("run", s, "cleanup")]
    /\ UNCHANGED <<keep, closing, known, healthy, inputs>>

-----------------------------------------------------------------------------
\* Nothing is left to do but what a browser may still ask for.
Quiet == lock = <<>> /\ queue = <<>> /\ active = None /\ UNCHANGED vars

Handle(s) == Admit(s) \/ Build(s) \/ Answer(s) \/ FailNegotiation(s)

CloseSteps(s) ==
    \/ \E kind \in Closers: Close(<<kind, s>>)
    \/ Drained(s) \/ PeerClosed(s)

Run(s) ==
    \/ BeginRun(s) \/ PrepareFails(s) \/ Provided(s) \/ EndRun(s) \/ Started(s)
    \/ Step(s) \/ Cleaned(s) \/ LeaveIdle(s) \/ Cancel(s)

Browser(s) ==
    \/ Offer(s) \/ Channel(s) \/ LateChannel(s) \/ Activate(s) \/ Ask(s)
    \/ \E kind \in Closers: <<kind, s>> \in Asks /\ Wake(kind, s)

Next ==
    \/ WorkerRuns \/ SetInput \/ Quiet
    \/ \E s \in Sessions: Handle(s) \/ CloseSteps(s) \/ Run(s) \/ Browser(s)

\* The event loop runs every task that can go on, and the worker thread its
\* calls.  What the browser does, and its silence, may never happen.
Fairness ==
    /\ WF_vars(WorkerRuns)
    /\ WF_vars(\E s \in Sessions: Handle(s) \/ CloseSteps(s))
    /\ \A s \in Sessions: WF_vars(Run(s))

Spec == Init /\ [][Next]_vars /\ Fairness

-----------------------------------------------------------------------------
Places == {"none", "waiting", "done"}
RunPlaces == {"new", "assembling", "activating", "starting", "running", "stepping",
              "cleanup", "idle", "closing"} \cup Places

TypeOK ==
    /\ keep \in KeepConnection /\ {reserved, healthy} \subseteq BOOLEAN
    /\ lock \in Seq(Tasks) /\ IsInjective(lock)
    /\ \A s \in Sessions:
         /\ pc[<<"offer", s>>] \in {"none", "waiting", "resetting", "negotiating",
                                   "failing", "refused", "failed", "answered"}
         /\ pc[<<"run", s>>] \in RunPlaces
         /\ \A kind \in {"watch", "event", "closed", "overload"}:
              pc[<<kind, s>>] \in Places \cup {"alive", "closing"}
    /\ active \in Sessions \cup {None}
    /\ life \in [Sessions -> {"none", "open", "draining", "peer", "closed"}]
    /\ by \in [Sessions -> Tasks \cup {<<>>}]
    /\ {transport, cancelled, completed} \subseteq [Sessions -> BOOLEAN]
    /\ slot \in [Sessions -> {"none", "held", "lost"}]
    /\ queue \in Seq({"reset", "provider", "session", "step", "close"} \X Sessions)
    /\ {known, open} \subseteq [Sessions -> SUBSET {"provider", "session"}]
    /\ {pending, input} \subseteq Inputs \cup {None}

\* A peer that nobody has begun to close is the active session: whoever comes
\* to close or to refuse a browser finds it, so no peer stays behind unseen
\* (_active_session, managed_session.closed).
OpenPeerIsActive == \A s \in Sessions: life[s] = "open" => active = s

\* The admission policy is reserved exactly while one session has a
\* reservation, and that session still has a task that will release it: the
\* slot is neither shared nor forgotten on any path through the offer, the
\* run, the cancellations and the closes.  (A "lost" reservation is that of
\* Lose: nobody has it and it stays reserved.)  A peer that is kept between two
\* generations has none, and still nobody else takes the slot it needs.
HasReleaser(s) ==
    \/ pc[<<"offer", s>>] \in {"resetting", "negotiating", "failing"}
    \/ life[s] \in {"open", "draining"}
    \/ pc[<<"run", s>>] \notin {"none", "done"}
SlotAccounted ==
    LET holders == {s \in Sessions: slot[s] # "none"} IN
    /\ TypeOK
    /\ Cardinality(holders) = IF reserved THEN 1 ELSE 0
    /\ \A s \in holders: slot[s] = "held" => HasReleaser(s)
    /\ \A s \in Sessions:
         pc[<<"run", s>>] \in {"idle", "new"} => slot[s] = "held" \/ ~reserved

\* When a session has no reservation any more, whatever model resources its
\* driver knew of are closed on the worker, or the host admits nobody; and the
\* driver forgets only what is closed (shielded_session_cleanup, mark_unhealthy).
ReleasedAfterCleanup ==
    \A s \in Sessions:
        \/ healthy /\ slot[s] # "held"
        \/ At("run", s, "cleanup") /\ Finished("close", s, TRUE)
        => known[s] \cap open[s] = {}

\* The session lock is always given back and, being first come first served,
\* reaches everybody who waits: offers are answered, refused or failed, and
\* closes return.  No close waits for a task that waits for the lock, not even
\* when a session closes itself.
LockDrains == []<>(lock = <<>>)

\* Code, against the test of tests/test_webrtc_manager.py that an expired old
\* peer cannot close a replacement session: a session is closed only by a
\* task that was created for it.
ClosedByItsOwnTasks ==
    [][\A s \in Sessions: by'[s] # by[s] => by'[s][2] = s]_vars

=============================================================================
