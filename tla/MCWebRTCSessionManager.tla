----------------------- MODULE MCWebRTCSessionManager -----------------------
(* WebRTCSessionManager for TLC: two peers, and what may close each.         *)
EXTENDS WebRTCSessionManager

CONSTANTS s1, s2

MCAsks == {<<"event", s1>>, <<"watch", s1>>, <<"overload", s2>>}

MCEvents == {"event"} \X Sessions
=============================================================================
