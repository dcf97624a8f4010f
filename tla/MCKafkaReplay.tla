--------------------------- MODULE MCKafkaReplay ---------------------------
(***************************************************************************)
(* Small instances of KafkaReplay.                                         *)
(***************************************************************************)
EXTENDS KafkaReplay

CONSTANTS e1, e2, e3

\* Two lineages, on a partition each.
TwoLineages == [k \in {1, 2} |-> k]

Msg(e, n, k) == [id |-> e, seq |-> n, key |-> k]

\* A sound replay, one that repeats an event, one that leaves out a sequence
\* number, and a file without events.
Sound  == <<Msg(e1, 0, 1), Msg(e2, 1, 2), Msg(e3, 2, 1)>>
Repeat == <<Msg(e1, 0, 1), Msg(e1, 1, 1)>>
Gap    == <<Msg(e1, 0, 2), Msg(e2, 2, 1)>>
ReplayArtifacts == {Sound, Repeat, Gap, <<>>}
=============================================================================
