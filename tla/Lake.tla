-------------------------------- MODULE Lake --------------------------------
(***************************************************************************)
(* The local data lake that the batch stages share: runs with a directory  *)
(* of files each, and their manifests.                                     *)
(*                                                                         *)
(* A stage runs as one process. It checks what it is given, computes its   *)
(* outputs in memory, renames them into place one after the other, and     *)
(* writes its manifest last. Every run has a fresh id and so a directory   *)
(* of its own; what can come in between is an exception, the death of the  *)
(* process, and a file replaced on disk. A checksum is represented by what *)
(* it was computed from.                                                   *)
(***************************************************************************)
EXTENDS Integers, Sequences, FiniteSets, SequencesExt, TLC

CONSTANTS
  MaxFailures,  \* bound: unsuccessful runs
  MaxTrouble,   \* bound: exceptions, crashes and replaced files
  MaxAttempts,  \* max_attempts of the extractor
  NULL, BLANK   \* a missing value, an empty text

\* The texts that the code tells apart; others stand for all those treated alike.
Texts ==
  {"given", "inside", "outside", "below", "zero", "above", "D", "N", "X",
   "1.0.0", "2.0.0", "plan", "generation",
   "NASA_ORIGINAL", "NASA_REPLAY", "SYNTHETIC_SCALE_TEST", "OTHER"}

ASSUME LakeAssumption ==
  /\ MaxFailures \in Nat /\ MaxTrouble \in Nat /\ MaxAttempts \in Nat \ {0}
  /\ \A none \in {NULL, BLANK} :
       none \notin Int /\ none \notin Texts /\ none \notin BOOLEAN /\ none \notin Nat \X Nat

VARIABLES
  runs,   \* runs[r]: the r-th run of a stage
  damage, \* the files that have been replaced, and what they hold now
  faults  \* exceptions and crashes so far

vars == <<runs, damage, faults>>

\* The parts of an artifact, in the order in which they are put in place.
PartsOf ==
  [extraction       |-> <<"raw">>,
   canonicalization |-> <<"events", "rejected", "duplicates">>,
   selection        |-> <<"events">>,
   replay           |-> <<"events">>,
   silver           |-> <<"silver", "rejected", "duplicates">>,
   gold             |-> <<"event_detail", "load_artifact">>]

\* The part of another run that a stage reads.
ReadsPart ==
  [canonicalization |-> "raw", selection |-> "events", replay |-> "events",
   silver |-> "events", gold |-> "silver"]

\* src: the run it reads from, 0 for none; attempt: HTTP attempts so far; from:
\* the checksum it knows its input by; input: what it has read; out: what it has
\* computed; parts: what is in place; status and recorded: its manifest; raced:
\* a file was replaced while this run, or the one it reads from, was using it.
NewRun(stage, src, pc) ==
  [stage |-> stage, src |-> src, pc |-> pc, attempt |-> 1, from |-> <<>>,
   input |-> <<>>, out |-> <<>>, parts |-> <<>>, status |-> "NONE",
   recorded |-> <<>>,
   raced |-> stage \in {"canonicalization", "selection", "replay"} /\ runs[src].raced]

Init ==
  /\ runs = <<>>
  /\ damage = {}
  /\ faults = 0

-----------------------------------------------------------------------------
\* The elements of a set of numbers, the smallest first.
Ascending(S) ==
  [k \in 1..Cardinality(S) |-> CHOOSE x \in S : Cardinality({y \in S : y < x}) = k - 1]

Ended(r) == runs[r].pc \in {"ended", "crashed"}
Idle     == \A r \in DOMAIN runs : Ended(r)
job      == Last(runs)
At(stage, pc) == ~ Idle /\ job.stage = stage /\ job.pc = pc

\* What a file holds now.
Content(r, p) ==
  LET replaced == {d \in damage : d.run = r /\ d.part = p}
  IN  IF replaced = {} THEN runs[r].parts[p] ELSE (CHOOSE d \in replaced : TRUE).content

Source == Content(job.src, ReadsPart[job.stage])

\* A stage starts once the one before has ended, in the order of the pipeline.
\* Bound: it is tried again only while it has not succeeded, and nothing starts
\* after too many failures; a later run would have a directory of its own.
Order == <<"extraction", "canonicalization", "selection", "replay", "silver", "gold">>

Begin(new) ==
  LET place(stage) == CHOOSE k \in DOMAIN Order : Order[k] = stage
      successes == {r \in DOMAIN runs : runs[r].status = "SUCCEEDED"}
  IN
  /\ Idle
  /\ \A r \in DOMAIN runs : place(runs[r].stage) <= place(new.stage)
  /\ \A r \in successes : runs[r].stage # new.stage
  /\ Cardinality(DOMAIN runs \ successes) <= MaxFailures
  /\ runs' = Append(runs, new)
  /\ UNCHANGED <<damage, faults>>

Step(new) ==
  /\ runs' = [runs EXCEPT ![Len(runs)] = new]
  /\ UNCHANGED <<damage, faults>>

\* The run is over, with the manifest it leaves.
End(status) == [job EXCEPT !.pc = "ended", !.status = status]

\* The outputs are computed from the input as read.
Computed(input, out) ==
  [job EXCEPT !.input = input, !.out = out, !.pc = "write"]

NextPart == PartsOf[job.stage][Cardinality(DOMAIN job.parts) + 1]

\* The parts in place, with one more or with another content of it.
WithPart(parts, part, content) ==
  [p \in DOMAIN parts \union {part} |-> IF p = part THEN content ELSE parts[p]]

Put(content) ==
  [job EXCEPT !.parts = WithPart(@, NextPart, content),
              !.pc = IF Cardinality(DOMAIN job.parts) + 1 = Len(PartsOf[job.stage])
                     THEN "publish" ELSE "write"]

\* A file appears by the rename of a finished one; a Parquet dataset by the
\* commit of its Spark job.
WritePart ==
  /\ ~ Idle /\ job.pc = "write" /\ job.stage # "gold"
  /\ Step(Put(job.out[NextPart]))

Published(from, recorded) ==
  [End("SUCCEEDED") EXCEPT !.from = from, !.recorded = recorded]
=============================================================================
