---------------------------- MODULE Canonicalizer ----------------------------
(***************************************************************************)
(* events/canonicalization.py and events/identity.py: the rows of a raw    *)
(* object become accepted events, rejected rows and duplicates.            *)
(* events/scale_gate_selection.py: a fixed number of events, smallest ids  *)
(* first.                                                                  *)
(***************************************************************************)
EXTENDS Lake

CONSTANT Target \* target_count of the scale gate

ASSUME TargetAssumption == Target \in Nat \ {0}

\* canonicalize_row: the error codes, without the name of the field.
FieldErrors(row) ==
  UNION {
    IF row.place = ""        THEN {"MISSING"} ELSE {},
    IF row.place = "junk"    THEN {"INVALID"} ELSE {},
    IF row.place = "outside" THEN {"OUT_OF_RANGE"} ELSE {},
    IF row.time = "junk"     THEN {"INVALID_EVENT_TIMESTAMP"} ELSE {},
    IF "" \in {row.text, row.instrument, row.day_night} THEN {"MISSING"} ELSE {},
    IF row.instrument \notin {"", "VIIRS"}  THEN {"UNEXPECTED_INSTRUMENT"} ELSE {},
    IF row.day_night \notin {"", "D", "N"}  THEN {"INVALID_DAY_NIGHT"} ELSE {},
    IF "junk" \in {row.bright, row.frp}     THEN {"INVALID"} ELSE {},
    IF row.bright \in {"below", "zero"}     THEN {"NON_POSITIVE"} ELSE {},
    IF row.frp = "below"     THEN {"NEGATIVE"} ELSE {}}

\* The identity is built last, and takes coordinates as decimals.
RowErrors(row) ==
  IF FieldErrors(row) = {} /\ row.place = "tiny"
  THEN {"IDENTITY_CONSTRUCTION_FAILED"} ELSE FieldErrors(row)

\* build_source_record_id: the hash of the identity fields. The second element
\* tells it from the ids of replay events.
SourceRecordId(row) == <<row.det, 0>>

OrNull(field) == IF field = "" THEN NULL ELSE field

CanonicalEvent(row, raw_row_number) ==
  LET id == SourceRecordId(row) IN
  [corrupt |-> FALSE, event_id |-> id, detection_id |-> id, lineage_root_id |-> id,
   context |-> "given", source_type |-> "NASA_ORIGINAL", is_synthetic |-> FALSE,
   origin_run |-> NULL, parent |-> NULL, replay_iteration |-> NULL,
   replay_sequence_number |-> NULL, scheduled |-> NULL,
   event_timestamp |-> IF row.time = "before" THEN 0 ELSE 2,
   ingestion_timestamp |-> 1, place |-> row.place, schema_version |-> "1.0.0",
   day_night |-> row.day_night, bright |-> OrNull(row.bright),
   frp |-> OrNull(row.frp), raw_row_number |-> raw_row_number]

\* Mutant: an accepted identity is not remembered.
CanonicalizeRowForgetful(rows, acc, k) ==
  IF RowErrors(rows[k]) # {}
  THEN [acc EXCEPT !.rejected = Append(@,
          [row |-> rows[k], codes |-> RowErrors(rows[k]), raw_row_number |-> k + 1])]
  ELSE [acc EXCEPT !.events = Append(@, CanonicalEvent(rows[k], k + 1))]

\* One turn of the loop over the CSV, where the header is row 1. A rejection keeps
\* the row and its codes, a duplicate its identity and row number.
CanonicalizeRow(rows, acc, k) ==
  LET row == rows[k]
      id  == SourceRecordId(row)
  IN  IF RowErrors(row) # {}
      THEN [acc EXCEPT !.rejected = Append(@,
              [row |-> row, codes |-> RowErrors(row), raw_row_number |-> k + 1])]
      ELSE IF id \in acc.seen
      THEN [acc EXCEPT !.duplicates = Append(@, [event_id |-> id, raw_row_number |-> k + 1])]
      ELSE [acc EXCEPT !.events = Append(@, CanonicalEvent(row, k + 1)),
                       !.seen = @ \union {id}]

Canonicalized(rows) ==
  LET after[k \in 0..Len(rows)] ==
        IF k = 0
        THEN [events |-> <<>>, rejected |-> <<>>, duplicates |-> <<>>, seen |-> {}]
        ELSE CanonicalizeRow(rows, after[k - 1], k)
  IN  after[Len(rows)]

\* canonicalize. Any source manifest may be handed to it; what is wrong with it
\* becomes the failure manifest of the run.
Canonicalize(src) ==
  /\ runs[src].stage = "extraction"
  /\ runs[src].status # "NONE"
  /\ Begin(NewRun("canonicalization", src, "check"))

CanonicalizationFailed == End("FAILED")

\* Mutant: the raw object is not compared with its checksum.
RawIsIntactAlways == TRUE
RawIsIntact == Source = runs[job.src].recorded["raw"]

\* load_and_validate_source_manifest, validate_raw_checksum.
CheckSource ==
  /\ At("canonicalization", "check")
  /\ Step(IF runs[job.src].status = "SUCCEEDED" /\ RawIsIntact
          THEN [job EXCEPT !.pc = "read", !.from = runs[job.src].recorded["raw"]]
          ELSE CanonicalizationFailed)

\* The file is opened again and read. The value None of a short row has no
\* strip(): the exception ends the run. The count is that of the manifest.
ReadRows ==
  /\ At("canonicalization", "read")
  /\ LET rows == Source
         c    == Canonicalized(rows)
     IN  Step(IF /\ \A k \in DOMAIN rows : rows[k].shape = "whole"
                 /\ Len(rows) = Len(job.from)
              THEN Computed(rows, [p \in {"events", "rejected", "duplicates"} |-> c[p]])
              ELSE CanonicalizationFailed)

\* The checksums are those of the files, read back.
PublishCanonical ==
  /\ At("canonicalization", "publish")
  /\ Step(Published(job.from,
            [p \in DOMAIN job.parts |-> Content(Len(runs), p)]))

-----------------------------------------------------------------------------
\* select_scale_gate_events. What it refuses it refuses without a manifest.
Select(src) ==
  /\ runs[src].stage = "canonicalization"
  /\ runs[src].status = "SUCCEEDED"
  /\ Begin([NewRun("selection", src, "check") EXCEPT
              !.from = runs[src].recorded["events"]])

SelectionFailed == End("NONE")

\* Nothing is sorted before its ids are known to be different.
SortedById(events) ==
  LET ids == Ascending({events[k].event_id[1] : k \in DOMAIN events})
  IN  [k \in DOMAIN ids |->
         events[CHOOSE l \in DOMAIN events : events[l].event_id[1] = ids[k]]]

DistinctIds(events) ==
  Cardinality({events[k].event_id : k \in DOMAIN events}) = Len(events)

\* The file is read once: the bytes that are hashed are the bytes selected from.
CheckSelection ==
  /\ At("selection", "check")
  /\ LET events == Source IN
     Step(IF /\ events = job.from
             /\ DistinctIds(events)
             /\ Len(events) >= Target
          THEN Computed(events, [events |-> SubSeq(SortedById(events), 1, Target)])
          ELSE SelectionFailed)

PublishSelection ==
  /\ At("selection", "publish")
  /\ Step(Published(job.from, job.out))
=============================================================================
