--------------------------- MODULE MCEventBuffer ----------------------------
(* EventBuffer for TLC: two readers, a plain event and a reset event, which *)
(* is the older one by its timestamp even when it arrives later.            *)
EXTENDS EventBuffer

CONSTANTS ui, model, key, reset

MCReaders == {ui, model}
MCEvents == {key, reset}
MCResetEvents == {reset}
MCTimestamp == [event \in MCEvents |-> IF event = key THEN 1 ELSE 0]
MCBatches == {<<key>>, <<reset>>, <<reset, reset>>}
=============================================================================
