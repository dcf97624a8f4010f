---------------------------- MODULE MCBatchLake ----------------------------
(***************************************************************************)
(* A small instance of BatchLake.                                          *)
(***************************************************************************)
EXTENDS BatchLake

\* Rows: the detections 1 and 2, each valid or with one flaw.
Row(d) ==
  [det |-> d, shape |-> "whole", place |-> "inside", time |-> "before",
   text |-> "given", instrument |-> "VIIRS", day_night |-> "D",
   bright |-> "above", frp |-> ""]

Dim == [Row(1) EXCEPT !.bright = ""]

Flawed ==
  <<[Row(1) EXCEPT !.place = "outside"], [Row(1) EXCEPT !.time = "junk"],
   [Row(1) EXCEPT !.instrument = "MODIS"], [Row(1) EXCEPT !.bright = "zero", !.frp = "zero"],
   [Row(1) EXCEPT !.day_night = ""], [Row(1) EXCEPT !.frp = "below"],
   [Row(1) EXCEPT !.place = "tiny"]>>

Body(rows) == [readable |-> TRUE, rows |-> rows]

\* A clean file; a detection many times, flawed and valid; an event from the future;
\* a row cut short; a row too long; no CSV.
RawBodies ==
  {Body(<<Row(2), Dim>>),
   Body(Flawed \o <<Dim, Row(1)>>),
   Body(<<Row(2), [Row(1) EXCEPT !.time = "after"]>>),
   Body(<<Row(2), [Row(1) EXCEPT !.shape = "short"]>>),
   Body(<<[Row(1) EXCEPT !.shape = "long"]>>),
   [readable |-> FALSE, rows |-> <<>>]}

\* Lines of hand-made files: events of all three kinds, alone and two of an id,
\* in either order of their row numbers, with one flaw; and then one of another id.
Original == CanonicalEvent(Row(1), 2)
Other    == CanonicalEvent(Row(2), 5)
Replay   == ReplayEvent(Original, 1, 0)
Scale    == [Original EXCEPT !.source_type = "SYNTHETIC_SCALE_TEST",
                             !.is_synthetic = TRUE, !.origin_run = "generation"]

OneFlaw(e) ==
  {e, [e EXCEPT !.corrupt = TRUE], [e EXCEPT !.detection_id = BLANK],
   [e EXCEPT !.lineage_root_id = <<2, 0>>], [e EXCEPT !.is_synthetic = NULL],
   [e EXCEPT !.is_synthetic = ~ @], [e EXCEPT !.source_type = "OTHER"],
   [e EXCEPT !.source_type = NULL], [e EXCEPT !.schema_version = NULL],
   [e EXCEPT !.schema_version = "2.0.0"], [e EXCEPT !.day_night = NULL],
   [e EXCEPT !.day_night = "X"], [e EXCEPT !.event_timestamp = NULL],
   [e EXCEPT !.event_timestamp = 2], [e EXCEPT !.parent = NULL],
   [e EXCEPT !.origin_run = IF @ = NULL THEN "plan" ELSE NULL],
   [e EXCEPT !.replay_iteration = 0], [e EXCEPT !.replay_sequence_number = NULL],
   [e EXCEPT !.scheduled = NULL], [e EXCEPT !.event_id = NULL],
   [e EXCEPT !.bright = "zero"], [e EXCEPT !.frp = "zero"], [e EXCEPT !.place = NULL]}

FlawedLines == UNION {OneFlaw(e) : e \in {Original, Replay, Scale}}

HandMadeFiles ==
  {<<e>> : e \in FlawedLines}
  \union {<<Original, [e EXCEPT !.raw_row_number = n], Original, Other>> :
            e \in FlawedLines, n \in {1, 3, NULL}}
=============================================================================
