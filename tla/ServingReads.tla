---------------------------- MODULE ServingReads ----------------------------
(***************************************************************************)
(* Readers of the serving tables while loads commit: a client of the API   *)
(* that follows the cursors of a lineage or a bounding box                 *)
(* (api/repository.py), and the verification of serving/verify.py.         *)
(*                                                                         *)
(* Both use connections in autocommit mode: every query is a snapshot of   *)
(* its own, and between two of them PostgresLoader takes any steps. A      *)
(* reader changes nothing, so one reader stands for all.                   *)
(***************************************************************************)
EXTENDS PostgresLoader, Sequences, SequencesExt

CONSTANTS
  Position,   \* Position[e]: the place of e by activity timestamp and event_id
  Selected,   \* the events a lineage or a filter selects
  PageLimit,  \* limit
  Detection,  \* Detection[e]: detection_id, one for each lineage root
  Iteration,  \* Iteration[e]: replay_iteration, 0 for NASA_ORIGINAL
  Sequence    \* Sequence[e]: replay_sequence_number

ASSUME ReadsAssumption ==
  /\ Position \in [Events -> Nat \ {0}] /\ IsInjective(Position)
  /\ Selected \subseteq Events /\ PageLimit \in Nat \ {0}
  /\ Iteration \in [Events -> Nat] /\ Sequence \in [Events -> Nat]

VARIABLES
  succeeded, \* the SUCCEEDED loads by completed_at
  reader     \* the reader

readVars == <<vars, succeeded, reader>>

\* For the client: the selected events its first summary counted, the pages so
\* far, and the position in the cursor. For the verification: the manifest whose
\* numbers it expects, the query it has come to, and the loads when it began.
Idle == [doing |-> "nothing", first |-> {}, pages |-> <<>>, cursor |-> 0,
         expects |-> NoManifest, query |-> 1, began |-> <<>>]

ReadInit == Init /\ succeeded = <<>> /\ reader = Idle

\* A step of a loader. completed_at is set when the load is published.
Write ==
  /\ Next
  /\ succeeded' = succeeded \o
       SetToSeq({m \in Manifests : Status(m) # "SUCCEEDED" /\ load_run'[m].status = "SUCCEEDED"})
  /\ UNCHANGED reader

Read(new) == reader' = new /\ UNCHANGED <<vars, succeeded>>

AtRest == reader.doing \in {"nothing", "unknown", "complete", "passed", "failed"}

-----------------------------------------------------------------------------
\* The client of the API.

Matching == Selected \intersect Served

StartReading == AtRest /\ Read([Idle EXCEPT !.doing = "summary"])

\* The summary of a request. A lineage without events is not found.
ReadSummary ==
  /\ reader.doing = "summary"
  /\ Read(IF Matching = {} THEN [Idle EXCEPT !.doing = "unknown"]
          ELSE [reader EXCEPT !.doing = "page",
                              !.first = IF reader.pages = <<>> THEN Matching ELSE @])

\* ORDER BY activity, event_id LIMIT n, behind the cursor.
Behind(cursor) == {e \in Matching : Position[e] > cursor}
Leading(n) ==
  LET rest == Behind(reader.cursor)
  IN  {e \in rest : Cardinality({f \in rest : Position[f] < Position[e]}) < n}

\* Mutant: the boundary is the row that shows there is more.
BoundaryBehindPage(rows) ==
  Position[CHOOSE e \in rows :
             Cardinality({f \in rows : Position[f] < Position[e]}) = PageLimit]

\* The cursor is the last row of the page.
Boundary(rows) ==
  Position[CHOOSE e \in rows :
             Cardinality({f \in rows : Position[f] < Position[e]}) = PageLimit - 1]

\* One row more than the page tells whether there is a next cursor.
ReadPage ==
  /\ reader.doing = "page"
  /\ LET rows == Leading(PageLimit + 1)
         more == Cardinality(rows) > PageLimit
     IN  Read([reader EXCEPT !.pages  = Append(@, Leading(PageLimit)),
                             !.cursor = IF more THEN Boundary(rows) ELSE @,
                             !.doing  = IF more THEN "summary" ELSE "complete"])

-----------------------------------------------------------------------------
\* verify, with the numbers of a manifest.

Replays(S)      == {e \in S : Iteration[e] > 0}
DetectionsOf(S) == {Detection[e] : e \in S}
Factor(m)       == Max({1} \union {Iteration[e] : e \in Rows[m]})

\* The rows of the summary tables.
Summarised == UNION {{m} \X summary[m] : m \in Manifests}
Lineages   == {<<row[1], Detection[row[2]]>> : row \in Summarised}

\* The numbers expected by source type have to add up to the rows expected.
TruthCounts(m) ==
  /\ Cardinality(Rows[m]) = Declared[m]
  /\ Cardinality(Served) = Declared[m]
  /\ Cardinality(DetectionsOf(Served)) = Cardinality(DetectionsOf(Rows[m]))
  /\ Cardinality(Replays(Served)) = Cardinality(Replays(Rows[m]))

\* Distinct values, least and greatest say that the numbers have no holes.
ReplayValues(m) ==
  LET replays == Cardinality(Replays(Rows[m])) IN
  /\ {Sequence[e] : e \in Replays(Served)} = 0..(replays - 1)
  /\ {Iteration[e] : e \in Replays(Served)} = IF replays > 0 THEN 1..Factor(m) ELSE {}

Frequencies(m) ==
  /\ Replays(Served) = {} <=> Replays(Rows[m]) = {}
  /\ \A d \in DetectionsOf(Replays(Served)) :
       Cardinality({e \in Replays(Served) : Detection[e] = d}) = Factor(m)

DailySums(m) ==
  /\ Cardinality(Summarised) = Declared[m]
  /\ Cardinality({row \in Summarised : Iteration[row[2]] > 0}) = Cardinality(Replays(Rows[m]))

LineageSums(m) ==
  /\ Cardinality(Lineages) = Cardinality(DetectionsOf(Rows[m]))
  /\ Cardinality(Summarised) = Declared[m]
  /\ \A l \in Lineages :
       Cardinality({row \in Summarised : <<row[1], Detection[row[2]]>> = l}) = Factor(m)

\* The latest successful load has to have inserted every row itself.
LatestLoad(m) ==
  /\ succeeded # <<>>
  /\ Declared[Last(succeeded)] = Declared[m]
  /\ Cardinality(load_run[Last(succeeded)].inserted) = Declared[m]

LoadedArtifacts(m) == succeeded # <<>> /\ Declared[Last(succeeded)] = Declared[m]

\* A row is copied with another hash, and the conflict is found.
ConflictProbe == Served # {}

\* Mutant: the probe is not followed by a count.
NoRecount(m) == Served # {}

PostProbeRows(m) == Cardinality(Served) = Declared[m]

Queries == 9

\* What is compared after query q.
Compared(q, m) ==
  \/ q = 1 /\ TruthCounts(m)
  \/ q = 2 /\ ReplayValues(m)
  \/ q = 3 /\ Frequencies(m)
  \/ q = 4 /\ DailySums(m)
  \/ q = 5 /\ LineageSums(m)
  \/ q = 6 /\ LatestLoad(m)
  \/ q = 7 /\ LoadedArtifacts(m)
  \/ q = 8 /\ ConflictProbe
  \/ q = 9 /\ PostProbeRows(m)

StartVerifying(m) ==
  AtRest /\ Read([Idle EXCEPT !.doing = "verify", !.expects = m, !.began = succeeded])

Verify ==
  /\ reader.doing = "verify"
  /\ Read([reader EXCEPT
       !.query = IF @ < Queries THEN @ + 1 ELSE @,
       !.doing = IF ~ Compared(reader.query, reader.expects) THEN "failed"
                 ELSE IF reader.query = Queries THEN "passed" ELSE @])

-----------------------------------------------------------------------------
ReadNext ==
  \/ Write
  \/ StartReading \/ ReadSummary \/ ReadPage
  \/ \E m \in Manifests : StartVerifying(m)
  \/ Verify

ReadSpec == ReadInit /\ [][ReadNext]_readVars

-----------------------------------------------------------------------------
(* Properties.                                                             *)

\* A client that has followed all cursors has got every event that was there when
\* it began, in order and none twice, whatever was loaded between the pages and
\* between a summary and its page (repository.py:132-161).
PagesAreComplete ==
  reader.doing = "complete" =>
    /\ reader.first \subseteq UNION ToSet(reader.pages)
    /\ UNION ToSet(reader.pages) \subseteq Matching
    /\ \A i, j \in DOMAIN reader.pages : i < j =>
         \A e \in reader.pages[i], f \in reader.pages[j] : Position[e] < Position[f]

\* A manifest of a complete replay: no detection twice in an iteration, every
\* detection in every iteration, and numbers without a hole.
IsReplay(m) ==
  /\ Rows[m] # {} /\ Cardinality(Rows[m]) = Declared[m]
  /\ \A e, f \in Rows[m] :
       Detection[e] = Detection[f] /\ Iteration[e] = Iteration[f] => e = f
  /\ {Sequence[e] : e \in Replays(Rows[m])} = 0..(Cardinality(Replays(Rows[m])) - 1)
  /\ \A d \in DetectionsOf(Rows[m]) :
       {Iteration[e] : e \in {x \in Rows[m] : Detection[x] = d}} = 1..Factor(m)

\* Nine queries without a common snapshot give a verdict about one state: when it
\* is good, all that is served is one load's, as many rows as expected, and nobody
\* has added to it since; and it is good if the load of the complete replay
\* expected is the only one before and during the verification
\* (verify.py:57-215).
VerdictsAreExact ==
  [][reader.doing = "verify" =>
       /\ reader'.doing = "passed" =>
            \E m \in Manifests :
              /\ Status(m) = "SUCCEEDED"
              /\ GoldRows(m) = Served /\ Rows[m] = Served
              /\ Cardinality(Served) = Declared[reader.expects]
              /\ {Sequence[e] : e \in Replays(Served)} = 0..(Cardinality(Replays(Served)) - 1)
       /\ reader'.doing = "failed" /\ IsReplay(reader.expects) =>
            ~ (reader.began = <<reader.expects>> /\ succeeded = <<reader.expects>>)]_readVars
=============================================================================
