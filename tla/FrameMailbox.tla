---------------------------- MODULE FrameMailbox ----------------------------
(***************************************************************************)
(* What the sender of an interactive stream is promised: a mailbox that    *)
(* never blocks the one who puts a frame, keeps the newest `Capacity', and *)
(* hands a frame to whoever asks as soon as there is one.  No threads, no  *)
(* events, no wake-ups: VideoTrack is shown to implement it.               *)
(***************************************************************************)
EXTENDS Integers, Sequences

CONSTANTS Capacity, Frames

VARIABLES box,   \* the frames, oldest first
          asked, \* the sender waits for one
          shut

vars == <<box, asked, shut>>

Init == box = <<>> /\ asked = FALSE /\ shut = FALSE

Newest(seq) == IF Len(seq) > Capacity THEN Tail(seq) ELSE seq

Put(f) == ~shut /\ box' = Newest(Append(box, f)) /\ UNCHANGED <<asked, shut>>
Ask == ~asked /\ asked' = TRUE /\ UNCHANGED <<box, shut>>
Give == asked /\ box # <<>> /\ box' = Tail(box) /\ asked' = FALSE /\ UNCHANGED shut
Refuse == asked /\ shut /\ asked' = FALSE /\ UNCHANGED <<box, shut>>
\* A new session, or a new size: nothing older is handed out.
Clear == box' = <<>> /\ UNCHANGED <<asked, shut>>
Shut == ~shut /\ shut' = TRUE /\ box' = <<>> /\ UNCHANGED asked

Next == (\E f \in Frames : Put(f)) \/ Ask \/ Give \/ Refuse \/ Clear \/ Shut

Spec == Init /\ [][Next]_vars /\ WF_vars(Give) /\ WF_vars(Refuse)
=============================================================================
