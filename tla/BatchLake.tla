------------------------------ MODULE BatchLake ------------------------------
(***************************************************************************)
(* The batch half of the platform: extraction, canonicalization, scale     *)
(* gate, replay, Silver and Gold on one lake, with exceptions, crashes and *)
(* a file replaced on disk at any time.                                    *)
(***************************************************************************)
EXTENDS FirmsExtractor, BatchSilver

MoreTrouble == faults + Cardinality(damage) < MaxTrouble

\* What a run leaves when an exception ends it: each stage has its own handler.
Failed ==
  CASE job.stage = "extraction"       -> ExtractionFailed
    [] job.stage = "canonicalization" -> CanonicalizationFailed
    [] job.stage = "selection"        -> SelectionFailed
    [] job.stage = "replay"           -> ReplayFailed
    [] job.stage = "silver"           -> SilverFailed
    [] job.stage = "gold"             -> GoldFailed

\* Spark moves the files of a dataset into place one by one.
Leftovers ==
  {job.parts} \union
  IF job.pc = "write" /\ job.stage \in {"silver", "gold"}
  THEN LET content == IF job.stage = "silver" THEN job.out[NextPart] ELSE Source
       IN  {WithPart(job.parts, NextPart, SubSeq(content, 1, n)) : n \in 1..(Len(content) - 1)}
  ELSE {}

Exception ==
  /\ ~ Idle /\ MoreTrouble
  /\ faults' = faults + 1
  /\ \E left \in Leftovers :
       runs' = [runs EXCEPT ![Len(runs)] = [Failed EXCEPT !.parts = left]]
  /\ UNCHANGED damage

\* The process dies, or the failure manifest cannot be written either.
Crash ==
  /\ ~ Idle /\ MoreTrouble
  /\ faults' = faults + 1
  /\ \E left \in Leftovers :
       runs' = [runs EXCEPT ![Len(runs)] = [job EXCEPT !.pc = "crashed", !.parts = left]]
  /\ UNCHANGED damage

-----------------------------------------------------------------------------
\* A file may be cut short, hold a row twice, or hold a row with another value
\* or another sequence number.
Replacements(content) ==
  LET n == Len(content)
      first == content[1]
  IN  {Front(content), ReplaceAt(content, n, first),
       ReplaceAt(content, 1, [first EXCEPT !.bright = "above"])}
      \union
      IF "replay_sequence_number" \in DOMAIN first /\ first.replay_sequence_number # NULL
      THEN {ReplaceAt(content, 1, [first EXCEPT !.replay_sequence_number = 1])}
      ELSE {}

\* The files a run is going to read again after it has checked or read them.
InUse(r, p) ==
  /\ ~ Idle
  /\ \/ /\ r = job.src /\ p = ReadsPart[job.stage]
        /\ \/ job.stage \in {"canonicalization", "replay"} /\ job.pc = "read"
           \/ job.stage \in {"silver", "gold"} /\ job.pc \in {"write", "publish"}
     \/ r = Len(runs) /\ job.stage \in {"canonicalization", "gold"}

Damage(r, p) ==
  /\ MoreTrouble
  /\ \A d \in damage : d.run # r \/ d.part # p
  /\ p \in DOMAIN runs[r].parts \intersect {"raw", "events", "silver", "event_detail"}
  /\ runs[r].parts[p] # <<>>
  /\ \E content \in Replacements(runs[r].parts[p]) \ {runs[r].parts[p]} :
       damage' = damage \union {[run |-> r, part |-> p, content |-> content]}
  /\ runs' = IF InUse(r, p) THEN [runs EXCEPT ![Len(runs)].raced = TRUE] ELSE runs
  /\ UNCHANGED faults

-----------------------------------------------------------------------------
\* The DAG and the operators decide what runs next, and on what.
Start ==
  \/ Extract
  \/ \E src \in DOMAIN runs :
       \/ Canonicalize(src) \/ Select(src) \/ Generate(src)
       \/ ProcessBatch(src) \/ BuildGold(src)
  \/ \E file \in HandMade : ProcessHandMade(file)

Work ==
  \/ RequestCsv \/ PublishExtraction
  \/ CheckSource \/ ReadRows \/ PublishCanonical
  \/ CheckSelection \/ PublishSelection
  \/ CheckReplaySource \/ GenerateReplay \/ PublishReplay
  \/ Classify \/ PublishSilver
  \/ CheckSilver \/ WriteGold \/ PublishGold
  \/ WritePart

\* Nobody has to start anything. A run that could not go on would be a deadlock.
Rest == Idle /\ UNCHANGED vars

Next ==
  \/ Start \/ Work \/ Exception \/ Crash \/ Rest
  \/ \E r \in DOMAIN runs : \E p \in DOMAIN runs[r].parts : Damage(r, p)

Spec == Init /\ [][Next]_vars

-----------------------------------------------------------------------------
(* Properties.                                                             *)

\* Every run has a stage, a place in its code, a source that came before it, the
\* parts of its artifact in the order of the code, and at most a manifest.
TypeOK ==
  /\ faults \in Nat /\ faults + Cardinality(damage) <= MaxTrouble
  /\ \A d \in damage : d.run \in DOMAIN runs /\ d.part \in DOMAIN runs[d.run].parts
  /\ \A r \in DOMAIN runs :
       /\ runs[r].stage \in DOMAIN PartsOf
       /\ runs[r].pc \in {"request", "wait", "check", "read", "write", "publish",
                          "ended", "crashed"}
       /\ runs[r].attempt \in 1..MaxAttempts
       /\ runs[r].src \in 0..(r - 1)
       /\ runs[r].status \in {"NONE", "SUCCEEDED", "FAILED"}
       /\ LET order == PartsOf[runs[r].stage] IN
            \E n \in 0..Len(order) : DOMAIN runs[r].parts = {order[k] : k \in 1..n}
       /\ runs[r].status = "SUCCEEDED" =>
            DOMAIN runs[r].parts = ToSet(PartsOf[runs[r].stage])

\* The contracts: what a row must be to be canonicalized, and an event to enter
\* Silver. Measurements, of which day_night is one, are checked "when present"
\* (SILVER_DATA_CONTRACT.md:15).
Valid(row) ==
  /\ row.place = "inside" /\ row.time # "junk"
  /\ row.text = "given" /\ row.instrument = "VIIRS" /\ row.day_night \in {"D", "N"}
  /\ row.bright \in {"", "above"} /\ row.frp \in {"", "zero", "above"}

Admissible(e) ==
  /\ ~ e.corrupt
  /\ {e.event_id, e.detection_id, e.lineage_root_id, e.context,
      e.source_type, e.is_synthetic} \intersect {NULL, BLANK} = {}
  /\ NULL \notin {e.event_timestamp, e.ingestion_timestamp}
  /\ e.event_timestamp <= e.ingestion_timestamp
  /\ e.place = "inside"
  /\ e.schema_version = "1.0.0" /\ e.day_night \in {NULL, "D", "N"}
  /\ e.bright \in {NULL, "above"} /\ e.frp \in {NULL, "zero", "above"}
  /\ \/ /\ e.source_type = "NASA_ORIGINAL" /\ ~ e.is_synthetic
        /\ e.detection_id = e.event_id /\ e.lineage_root_id = e.event_id
        /\ e.origin_run \in {NULL, BLANK}
     \/ /\ e.source_type = "NASA_REPLAY" /\ ~ e.is_synthetic
        /\ {e.parent, e.origin_run, e.scheduled, e.replay_iteration,
            e.replay_sequence_number} \intersect {NULL, BLANK} = {}
        /\ e.replay_iteration > 0 /\ e.replay_sequence_number >= 0
     \/ /\ e.source_type = "SYNTHETIC_SCALE_TEST" /\ e.is_synthetic
        /\ e.origin_run \notin {NULL, BLANK}

Invalid(row)    == ~ Valid(row)
Inadmissible(e) == ~ Admissible(e)

Results ==
  {[stage |-> runs[r].stage, input |-> runs[r].input, output |-> runs[r].parts] :
     r \in {x \in DOMAIN runs : runs[x].status = "SUCCEEDED" /\ ~ runs[x].raced}}

Contract == INSTANCE LakeContract WITH
  ledger <- Results, IdOf <- SourceRecordId

\* Every successful manifest describes an artifact that is what the contracts say
\* of its input, and that input is the output of a successful run before it,
\* through crashes and failed writes, and although a file was replaced: it is
\* found out unless it happens between the check of a file and its use. Excepted
\* are the lines that Silver overlooks (an admission rule without a condition) or
\* preempts (a duplicate of an event that only a rejected line came before).
KeepsLedger == Contract!Spec

\* What makes a stage refuse its input: a manifest that says FAILED, a row that has
\* not the fields of the header (for which canonicalization.py:236 promises a rejection,
\* and the strip() of None in line 360 ends the run), too few events for the scale gate,
\* no line that Silver may accept, another number of rows than Gold expects.
Cause(r) ==
  LET run == runs[r]
      src == runs[run.src]
  IN  CASE run.stage = "extraction"       -> TRUE
        [] run.stage = "canonicalization" ->
             src.status = "FAILED" \/ \E k \in DOMAIN src.parts["raw"] :
                                         src.parts["raw"][k].shape # "whole"
        [] run.stage = "selection"        -> Len(src.parts["events"]) < Target
        [] run.stage = "replay"           -> FALSE
        [] run.stage = "silver"           ->
             LET lines == IF run.src = 0 THEN run.from ELSE src.parts["events"]
                 bad   == {k \in DOMAIN lines : Inadmissible(lines[k])}
             IN  \A k \in DOMAIN lines \ bad : \E l \in bad :
                   lines[l].event_id = lines[k].event_id /\ NotAfter(lines[l], lines[k])
        [] run.stage = "gold"             -> Len(src.parts["silver"]) # GateSize

\* Without exceptions, crashes and replaced files no stage fails on what the stage
\* before it has put in place, unless it has a cause to: checks, counts and read-backs
\* agree from one stage to the next.
FailuresHaveCauses ==
  \A r \in DOMAIN runs :
    /\ runs[r].pc = "ended" /\ runs[r].status # "SUCCEEDED"
    /\ faults + Cardinality(damage) = 0
    => Cause(r)

PlanIds(r) == {runs[r].parts["events"][k].event_id : k \in DOMAIN runs[r].parts["events"]}

\* The verifiers tell sound artifacts from others. That of the replay passes
\* exactly when neither the artifact nor its source has been touched; that of
\* Silver passes when all replay events are there, and only when each is there
\* once.
VerifiersAreExact ==
  \A r \in DOMAIN runs :
    /\ runs[r].stage = "replay" /\ runs[r].status = "SUCCEEDED" =>
         (ReplayVerified(r) <=>
            /\ Content(r, "events") = runs[r].parts["events"]
            /\ Content(runs[r].src, "events") = runs[r].from)
    /\ /\ runs[r].stage = "silver" /\ "silver" \in DOMAIN runs[r].parts
       /\ runs[r].src # 0 /\ runs[runs[r].src].stage = "replay"
       => LET replay == runs[r].src
              rows   == Content(r, "silver")
          IN  /\ rows = runs[replay].parts["events"] => SilverVerified(r, runs[replay].from)
              /\ SilverVerified(r, runs[replay].from) =>
                   /\ DistinctIds(rows)
                   /\ {rows[k].event_id : k \in DOMAIN rows} = PlanIds(replay)

\* What lies ahead of a run: attempts, then checks, then parts, then the manifest.
Ahead(run) ==
  CASE run.pc = "request" -> 9 + 2 * (MaxAttempts - run.attempt)
    [] run.pc = "wait"    -> 8 + 2 * (MaxAttempts - run.attempt)
    [] run.pc = "check"   -> 7
    [] run.pc = "read"    -> 6
    [] run.pc = "write"   -> 5 - Cardinality(DOMAIN run.parts)
    [] run.pc = "publish" -> 1
    [] OTHER              -> 0

\* No step of a run leads back, so that it ends: attempts are bounded, nothing is
\* checked or written twice, and what has ended is not touched again.
RunsAdvance ==
  [][\A r \in DOMAIN runs :
       [runs'[r] EXCEPT !.raced = runs[r].raced] # runs[r] => Ahead(runs'[r]) < Ahead(runs[r])]_vars
=============================================================================
