-------------------------- MODULE MCSessionRunner ---------------------------
(* SessionRunner for TLC: what one poll of the window may return, and which *)
(* of the settings that the constants allow are explored together.          *)
EXTENDS SessionRunner

MCTimestamp == [event \in Events |-> IF event = ResetEvent THEN 0 ELSE 1]

MCCloseBatches == {<<>>, <<CloseEvent>>}

MCBatches == {<<>>, <<CloseEvent>>, <<ResetEvent>>, <<ResetEvent, CloseEvent>>}

\* Two families of sessions in one run, each with one reset at most.  Without a
\* deadline nothing fails, and the default UI shows chunks of one and two frames
\* in every mode.  With one, anything may fail, with both UIs, and the model
\* makes one step of one frame.
TwoFamilies ==
    /\ current <= 1
    /\ IF deadline = "none"
       THEN errors.raised = {} /\ config.ui = "blit"
       ELSE /\ mode = "BLOCK" /\ config.presentation = "ON_DEMAND"
            /\ config.steps = NoLimit
            /\ model.frames <= 1 /\ (model.pc = "admit" => model.steps = 0)
=============================================================================
