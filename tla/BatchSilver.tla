----------------------------- MODULE BatchSilver -----------------------------
(***************************************************************************)
(* spark/batch/bronze_to_silver.py and spark/batch/verify_silver.py: a     *)
(* file of events becomes accepted, rejected and duplicate rows.           *)
(* gold/build.py: the accepted rows become the serving artifact.           *)
(***************************************************************************)
EXTENDS ReplayGenerator

CONSTANTS
  HandMade, \* event files that no run of this lake has produced
  GateSize  \* expected_rows of the Gold build

\* A line of an event file, as the schema of the job reads it: what is absent or
\* does not parse is NULL. The fields are those of CanonicalEvent and ReplayEvent.
Lines ==
  LET text(S) == S \union {NULL, BLANK}
      id      == (Nat \X Nat) \union {NULL, BLANK}
      number  == Int \union {NULL}
      measure == {"below", "zero", "above", NULL}
  IN  [corrupt : BOOLEAN, event_id : id, detection_id : id, lineage_root_id : id,
       parent : id, context : text({"given"}),
       source_type : text({"NASA_ORIGINAL", "NASA_REPLAY", "SYNTHETIC_SCALE_TEST", "OTHER"}),
       is_synthetic : BOOLEAN \union {NULL}, origin_run : text({"plan", "generation"}),
       replay_iteration : number, replay_sequence_number : number, scheduled : number,
       event_timestamp : number, ingestion_timestamp : number,
       place : {"inside", "outside", NULL}, schema_version : text({"1.0.0", "2.0.0"}),
       day_night : text({"D", "N", "X"}), bright : measure, frp : measure,
       raw_row_number : number]

ASSUME SilverAssumption == HandMade \subseteq Seq(Lines) /\ GateSize \in Nat \ {0}

\* SQL conditions are TRUE, FALSE or NULL; when() takes TRUE only.
Or3(S)  == IF TRUE \in S THEN TRUE ELSE IF NULL \in S THEN NULL ELSE FALSE
Not3(a) == IF a = NULL THEN NULL ELSE ~ a
And3(a, b) == Not3(Or3({Not3(a), Not3(b)}))
Neq(a, b)  == IF NULL \in {a, b} THEN NULL ELSE a # b
Eq(a, b)   == Not3(Neq(a, b))
NotIn(a, S) == IF a = NULL THEN NULL ELSE a \notin S
Less(a, b)  == IF NULL \in {a, b} THEN NULL ELSE a < b

\* _missing_text.
Missing(a) == a \in {NULL, BLANK}

\* A field of the event the classification of which depends on its source type.
Claims(e, type, wrong) == And3(Eq(e.source_type, type), wrong)

\* validation_error_array: code and condition.
Checks(e) == {
  <<"CORRUPT_JSON",                  e.corrupt>>,
  <<"MISSING_EVENT_ID",              Missing(e.event_id)>>,
  <<"MISSING_DETECTION_ID",          Missing(e.detection_id)>>,
  <<"MISSING_LINEAGE_ROOT_ID",       Missing(e.lineage_root_id)>>,
  <<"MISSING_SOURCE_TYPE",           Missing(e.source_type)>>,
  <<"MISSING_CONTEXT",               Missing(e.context)>>,
  <<"MISSING_IS_SYNTHETIC",          e.is_synthetic = NULL>>,
  <<"MISSING_EVENT_TIMESTAMP",       e.event_timestamp = NULL>>,
  <<"MISSING_INGESTION_TIMESTAMP",   e.ingestion_timestamp = NULL>>,
  <<"INVALID_PLACE",                 Or3({e.place = NULL, Neq(e.place, "inside")})>>,
  <<"INVALID_SOURCE_TYPE",           NotIn(e.source_type, {"NASA_ORIGINAL",
                                       "NASA_REPLAY", "SYNTHETIC_SCALE_TEST"})>>,
  <<"INVALID_SCHEMA_VERSION",        Neq(e.schema_version, "1.0.0")>>,
  <<"ORIGINAL_MARKED_SYNTHETIC",     Claims(e, "NASA_ORIGINAL", e.is_synthetic)>>,
  <<"ORIGINAL_IDENTITY_MISMATCH",    Claims(e, "NASA_ORIGINAL",
                                       Or3({Neq(e.event_id, e.detection_id),
                                            Neq(e.event_id, e.lineage_root_id)}))>>,
  <<"INVALID_REPLAY_CLASSIFICATION", Claims(e, "NASA_REPLAY",
                                       Or3({e.is_synthetic, Missing(e.origin_run)}))>>,
  <<"MISSING_SCHEDULED",             Claims(e, "NASA_REPLAY", e.scheduled = NULL)>>,
  <<"INVALID_REPLAY_ITERATION",      Claims(e, "NASA_REPLAY",
                                       Or3({e.replay_iteration = NULL,
                                            Less(e.replay_iteration, 1)}))>>,
  <<"INVALID_REPLAY_SEQUENCE",       Claims(e, "NASA_REPLAY",
                                       Or3({e.replay_sequence_number = NULL,
                                            Less(e.replay_sequence_number, 0)}))>>,
  <<"INVALID_SYNTHETIC",             Claims(e, "SYNTHETIC_SCALE_TEST",
                                       Or3({Not3(e.is_synthetic), Missing(e.origin_run)}))>>,
  <<"EVENT_AFTER_INGESTION",         Less(e.ingestion_timestamp, e.event_timestamp)>>,
  <<"INVALID_DAY_NIGHT",             NotIn(e.day_night, {"D", "N"})>>,
  <<"NON_POSITIVE_MEASURE",          e.bright \in {"below", "zero"}>>,
  <<"NEGATIVE_FIRE_RADIATIVE_POWER", e.frp = "below">> }

SparkErrors(e) == {c[1] : c \in {x \in Checks(e) : x[2] = TRUE}}

-----------------------------------------------------------------------------
\* classify_events. row_number() goes over all rows of an event id, by row number
\* with nulls last; what the payload hash decides after that is left open.
NotAfter(a, b) ==
  b.raw_row_number = NULL \/ (a.raw_row_number # NULL /\ a.raw_row_number <= b.raw_row_number)

SameId(lines, k) == {l \in DOMAIN lines : lines[l].event_id = lines[k].event_id}

FirstsOf(lines, k) ==
  {f \in SameId(lines, k) : \A l \in SameId(lines, k) : NotAfter(lines[f], lines[l])}

\* Sets of lines that may get number 1, one for each event id.
Numberings(lines) ==
  {F \in SUBSET UNION {FirstsOf(lines, k) : k \in DOMAIN lines} :
     \A k \in DOMAIN lines : Cardinality(F \intersect SameId(lines, k)) = 1}

Outcome(lines, first, k) ==
  IF SparkErrors(lines[k]) # {} THEN "rejected"
  ELSE IF k \notin first THEN "duplicates" ELSE "silver"

\* silver_events, quarantine_events, duplicate_events.
Classified(lines, first) ==
  [p \in {"silver", "rejected", "duplicates"} |->
     LET ks == Ascending({k \in DOMAIN lines : Outcome(lines, first, k) = p})
     IN  [i \in DOMAIN ks |-> lines[ks[i]]]]

\* run_batch takes a path: the file of any run, or one made by hand. It asks for
\* no manifest.
ProcessBatch(src) ==
  /\ "events" \in DOMAIN runs[src].parts
  /\ Begin(NewRun("silver", src, "read"))

ProcessHandMade(file) ==
  /\ runs = <<>>
  /\ Begin([NewRun("silver", 0, "read") EXCEPT !.from = file])

InputFile == IF job.src = 0 THEN job.from ELSE Source

SilverFailed == End("NONE")

\* The classified rows are cached and counted before anything is written.
Classify ==
  /\ At("silver", "read")
  /\ \E first \in Numberings(InputFile) :
       Step(Computed(InputFile, Classified(InputFile, first)))

\* Rows are read back and counted, and the input is hashed, last. A write that is
\* partitioned by date leaves no file when there is no row, and reading a dataset
\* without files raises.
PublishSilver ==
  /\ At("silver", "publish")
  /\ Step(IF /\ job.out["silver"] # <<>>
             /\ \A p \in DOMAIN job.parts :
                  Len(Content(Len(runs), p)) = Len(job.out[p])
          THEN Published(InputFile, [p \in {} |-> <<>>])
          ELSE SilverFailed)

-----------------------------------------------------------------------------
\* verify_silver.verify with the truth of a replay plan: counts, distinct values
\* and ranges.
SilverVerified(r, originals) ==
  LET rows      == Content(r, "silver")
      n         == Len(originals)
      column(f(_)) == {f(rows[k]) : k \in DOMAIN rows}
      sequences == column(LAMBDA e : e.replay_sequence_number)
      detections == column(LAMBDA e : e.detection_id)
  IN  /\ Len(rows) = n * Factor
      /\ Cardinality(column(LAMBDA e : e.event_id)) = n * Factor
      /\ Cardinality(detections) = n
      /\ Cardinality(sequences) = n * Factor
      /\ {Cardinality({k \in DOMAIN rows : rows[k].detection_id = d}) : d \in detections}
           = {Factor}
      /\ column(LAMBDA e : e.replay_iteration) = 1..Factor
      /\ column(LAMBDA e : e.source_type) = {"NASA_REPLAY"}
      /\ column(LAMBDA e : e.is_synthetic) = {FALSE}
      /\ {0, n * Factor - 1} \subseteq sequences
      /\ \A s \in sequences : s \in 0..(n * Factor - 1)
      /\ {0, n * Factor - 1} \subseteq column(LAMBDA e : e.scheduled)
      /\ NULL \notin column(LAMBDA e : e.parent)

-----------------------------------------------------------------------------
\* gold.build.run takes the path of a Silver dataset and the expected rows; a
\* run that died may have left that dataset.
BuildGold(src) ==
  /\ "silver" \in DOMAIN runs[src].parts
  /\ Begin(NewRun("gold", src, "check"))

GoldFailed == End("NONE")

CheckSilver ==
  /\ At("gold", "check")
  /\ Step(IF Len(Source) = GateSize /\ DistinctIds(Source)
          THEN [job EXCEPT !.input = Source, !.pc = "write"]
          ELSE GoldFailed)

\* Nothing is cached: each of the two outputs reads Silver again.
WriteGold ==
  /\ At("gold", "write")
  /\ Step(Put(Source))

PublishGold ==
  /\ At("gold", "publish")
  /\ LET files == [p \in DOMAIN job.parts |-> Content(Len(runs), p)] IN
     Step(IF \A p \in DOMAIN files : Len(files[p]) = Len(job.input)
          THEN Published(job.input, files)
          ELSE GoldFailed)
=============================================================================
