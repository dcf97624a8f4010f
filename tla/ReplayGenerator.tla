--------------------------- MODULE ReplayGenerator ---------------------------
(***************************************************************************)
(* replay/generator.py, replay/identity.py and replay/verify.py: a number  *)
(* of numbered copies of every original event, and the independent check   *)
(* of the result.                                                          *)
(***************************************************************************)
EXTENDS Canonicalizer

CONSTANT Factor \* replay_factor of the plan

ASSUME FactorAssumption == Factor \in Nat \ {0}

\* The plan is identified by the checksum of its input, which the operator takes
\* from a manifest; every run of it has the same replay_run_id.

\* build_replay_event_id: the hash of plan, parent and iteration.
ReplayEventId(parent, iteration) == <<parent[1], iteration>>

ReplayEvent(original, iteration, sequence) ==
  [original EXCEPT
     !.event_id = ReplayEventId(original.event_id, iteration),
     !.parent = original.event_id,
     !.source_type = "NASA_REPLAY", !.origin_run = "plan",
     !.replay_iteration = iteration, !.replay_sequence_number = sequence,
     !.scheduled = sequence]

\* load_original_events, after the checksum.
AreOriginals(events, count) ==
  /\ DistinctIds(events)
  /\ \A k \in DOMAIN events :
       /\ events[k].source_type = "NASA_ORIGINAL"
       /\ events[k].is_synthetic = FALSE
       /\ events[k].event_id = events[k].detection_id
       /\ events[k].event_id = events[k].lineage_root_id
  /\ Len(events) = count

\* Mutant: sequence numbers start again with every iteration.
SequenceNumberInIteration(iteration, count, index) == index
SequenceNumber(iteration, count, index) == (iteration - 1) * count + index

\* The two loops of generate_replay.
Replayed(originals, count) ==
  FlattenSeq([i \in 1..Factor |->
    [j \in DOMAIN originals |->
       ReplayEvent(originals[j], i, SequenceNumber(i, count, j - 1))]])

\* ReplayPlan.validate refuses an empty input before there is a run to record.
Generate(src) ==
  /\ runs[src].stage \in {"canonicalization", "selection"}
  /\ runs[src].status = "SUCCEEDED"
  /\ runs[src].recorded["events"] # <<>>
  /\ Begin([NewRun("replay", src, "check") EXCEPT
              !.from = runs[src].recorded["events"]])

\* The .part file goes, whatever was renamed stays.
ReplayFailed == End("FAILED")

\* The source is hashed, and then opened again.
CheckReplaySource ==
  /\ At("replay", "check")
  /\ Step(IF Source = job.from THEN [job EXCEPT !.pc = "read"] ELSE ReplayFailed)

GenerateReplay ==
  /\ At("replay", "read")
  /\ LET count  == Len(job.from)
         events == Replayed(SortedById(Source), count)
     IN  Step(IF /\ AreOriginals(Source, count)
                 /\ Len(events) = count * Factor
                 /\ DistinctIds(events)
              THEN Computed(Source, [events |-> events])
              ELSE ReplayFailed)

PublishReplay ==
  /\ At("replay", "publish")
  /\ Step(Published(job.from, job.out))

-----------------------------------------------------------------------------
\* verify_manifest: every line is recomputed from its position, and the file is
\* compared with the manifest.
ExpectedReplayEvent(originals, k) ==
  LET sequence == k - 1
      count    == Len(originals)
  IN  ReplayEvent(originals[(sequence % count) + 1], sequence \div count + 1, sequence)

ReplayVerified(r) ==
  LET run       == runs[r]
      source    == Content(run.src, "events")
      originals == SortedById(source)
      events    == Content(r, "events")
  IN  /\ run.status = "SUCCEEDED"
      /\ source = run.from
      /\ AreOriginals(source, Len(run.from))
      /\ \A k \in DOMAIN events : events[k] = ExpectedReplayEvent(originals, k)
      /\ Len(events) = Len(run.from) * Factor
      /\ {Cardinality({k \in DOMAIN events : events[k].detection_id = d}) :
            d \in {events[k].detection_id : k \in DOMAIN events}} = {Factor}
      /\ events = run.recorded["events"]
=============================================================================
