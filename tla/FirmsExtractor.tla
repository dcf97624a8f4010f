--------------------------- MODULE FirmsExtractor ---------------------------
(***************************************************************************)
(* ingestion/nasa_firms/extractor.py: one bounded request to NASA FIRMS,   *)
(* with retries, into an immutable raw object.                             *)
(***************************************************************************)
EXTENDS Lake

CONSTANT Bodies \* what NASA FIRMS may send: [readable, rows]

\* A row is a detection (its identity fields, normalized) and the state of its
\* other fields, text by text: "" is empty and "junk" does not parse or is not
\* finite; a measurement is "below", "zero" or "above". Fields that are treated
\* alike share an entry: place stands for latitude and longitude ("tiny" is one that
\* float() reads as zero and Decimal() refuses), text for
\* satellite, confidence and version, bright for bright_ti4, bright_ti5, scan
\* and track. time is the acquisition time, before or after the extraction. The
\* shape is "short" when DictReader fills the row up with None, "long" when None
\* becomes a key.
Measures == {"", "junk", "below", "zero", "above"}
Rows ==
  [det : Nat, shape : {"whole", "short", "long"},
   place : {"", "junk", "inside", "outside", "tiny"}, time : {"junk", "before", "after"},
   text : {"", "given"}, instrument : {"", "VIIRS", "MODIS"}, day_night : {"", "D", "N", "X"},
   bright : Measures, frp : Measures]

\* readable: UTF-8 with the required columns.
ASSUME BodiesAssumption ==
  \A body \in Bodies : body.readable \in BOOLEAN /\ body.rows \in Seq(Rows)

\* extract: parameters are validated before there is a run to record.
Extract == Begin(NewRun("extraction", 0, "request"))

\* The handler writes the manifest dictionary as it stands. It says SUCCEEDED as
\* soon as the raw object is in place.
ExtractionFailed ==
  IF job.pc = "publish"
  THEN [End("SUCCEEDED") EXCEPT !.from = job.input, !.recorded = job.out]
  ELSE End("FAILED")

\* validate_firms_csv. Only a row that is too long counts as malformed.
ValidFirmsCsv(body) ==
  body.readable /\ \A k \in DOMAIN body.rows : body.rows[k].shape # "long"

\* A 200 with a body ends the loop, whether or not the body is valid.
Receive(body) ==
  /\ At("extraction", "request")
  /\ Step(IF ValidFirmsCsv(body)
          THEN Computed(body.rows, [raw |-> body.rows])
          ELSE ExtractionFailed)

\* Mutant: the last attempt is retried too.
RetryableErrorUnbounded ==
  /\ At("extraction", "request")
  /\ Step([job EXCEPT !.pc = "wait"])

\* A status of RETRYABLE_HTTP_CODES, an unreachable host or a timeout: wait and
\* try again, but not after the last attempt.
RetryableError ==
  /\ At("extraction", "request")
  /\ Step(IF job.attempt = MaxAttempts THEN ExtractionFailed
          ELSE [job EXCEPT !.pc = "wait"])

\* Mutant: the attempts are not counted.
RetryUncounted ==
  /\ At("extraction", "wait")
  /\ Step([job EXCEPT !.pc = "request"])

Retry ==
  /\ At("extraction", "wait")
  /\ Step([job EXCEPT !.pc = "request", !.attempt = @ + 1])

\* Another HTTP error, an unexpected status, or an empty body.
FinalError ==
  /\ At("extraction", "request")
  /\ Step(ExtractionFailed)

RequestCsv ==
  RetryableError \/ Retry \/ FinalError \/ \E body \in Bodies : Receive(body)

PublishExtraction ==
  /\ At("extraction", "publish")
  /\ Step(Published(job.input, job.out))
=============================================================================
