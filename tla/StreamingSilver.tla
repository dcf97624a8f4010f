--------------------------- MODULE StreamingSilver ---------------------------
(***************************************************************************)
(* spark/streaming/kafka_to_silver.py: three bounded queries, one after    *)
(* the other, copy the recorded range of a producer run from Kafka to      *)
(* Bronze, Silver and quarantine, and the counts are compared at the end.  *)
(*                                                                         *)
(* An execution may die anywhere and be repeated under the same            *)
(* streaming_run_id: each query has its checkpoint. Spark is external: it  *)
(* plans a batch in the offset log, writes its rows and enters it in the   *)
(* log of the sink, and commits it; a planned batch is done again, and the *)
(* sink passes over a batch it has. Each query starts where the manifest   *)
(* does and ends at the latest offsets of its own start, so that what      *)
(* other producers write in between reaches some of them.                  *)
(***************************************************************************)
EXTENDS Integers, Sequences, FiniteSets, FiniteSetsExt

CONSTANTS
  P,             \* partitions of the topic
  Ids, TimeOf,   \* event ids and their scheduled_replay_timestamp
  Ranges,        \* topics with a reconciled producer run: [log, starts, ends]
  Delay,         \* WATERMARK_DELAY
  MaxOffsets,    \* max_offsets_per_trigger
  MaxExecutions, \* bound: executions
  MaxOthers      \* bound: messages of other producers

\* A message is valid or not (validation_error_array, and the key is the lineage).
Message == [id : Ids, ok : BOOLEAN]

ASSUME StreamingAssumption ==
  /\ P \in Nat \ {0} /\ Delay \in Nat /\ MaxOffsets \in Nat \ {0}
  /\ MaxExecutions \in Nat /\ MaxOthers \in Nat
  /\ TimeOf \in [Ids -> Nat \ {0}]
  /\ \A r \in Ranges :
       /\ r.log \in [1..P -> Seq(Message)]
       /\ r.starts \in [1..P -> Nat] /\ r.ends \in [1..P -> Nat]
       /\ \A p \in 1..P : r.starts[p] <= r.ends[p] /\ r.ends[p] <= Len(r.log[p])

Queries == {"landing", "accepted", "rejected"}

VARIABLES
  log,      \* log[p]: the messages of partition p
  manifest, \* the recorded offsets: [starts, ends]
  ck,       \* ck[q]: the checkpoint of query q
  sink,     \* sink[q]: the rows of query q, batch by batch, as sets of <<p, offset>>
  exec      \* the latest execution, and the numbers of those that succeeded

vars == <<log, manifest, ck, sink, exec>>

\* done: batches committed; at: offsets they reach; plan: offsets the batch in the
\* offset log will reach, <<>> for none. For deduplication, memory: the ids kept;
\* late and evict: the watermarks for dropping rows and for forgetting ids.
NewCheckpoint ==
  [done |-> 0, at |-> manifest.starts, plan |-> <<>>, memory |-> {}, late |-> 0, evict |-> 0]

Init ==
  \E r \in Ranges :
    /\ log = r.log
    /\ manifest = [starts |-> r.starts, ends |-> r.ends]
    /\ ck = [q \in Queries |-> NewCheckpoint]
    /\ sink = [q \in Queries |-> <<>>]
    /\ exec = [phase |-> "idle", limit |-> r.starts, number |-> 0, succeeded |-> {}]

-----------------------------------------------------------------------------
Latest == [p \in 1..P |-> Len(log[p])]

\* The messages from one vector of offsets to another.
Between(from, to) == UNION {{p} \X (from[p]..(to[p] - 1)) : p \in 1..P}

At(row)   == log[row[1]][row[2] + 1]
IdOf(row) == At(row).id
Time(row) == TimeOf[IdOf(row)]
RecordedRange     == Between(manifest.starts, manifest.ends)
Rows(q)   == UNION {sink[q][k] : k \in DOMAIN sink[q]}

\* The query that runs, and its batch.
Query == exec.phase
Batch == Between(ck[Query].at, ck[Query].plan)

Running == Query \in Queries
Planned == Running /\ ck[Query].plan # <<>>

-----------------------------------------------------------------------------
\* run_streaming, and with it the landing query. An availableNow query stops at
\* the offsets it finds when it starts.
StartQuery(q) == [exec EXCEPT !.phase = q, !.limit = Latest]

\* Mutant: every execution has checkpoints of its own.
ExecuteAfresh ==
  /\ exec.phase \in {"idle", "ended"} /\ exec.number < MaxExecutions
  /\ exec' = [StartQuery("landing") EXCEPT !.number = @ + 1]
  /\ ck' = [q \in Queries |-> NewCheckpoint]
  /\ UNCHANGED <<log, manifest, sink>>

Execute ==
  /\ exec.phase \in {"idle", "ended"} /\ exec.number < MaxExecutions
  /\ exec' = [StartQuery("landing") EXCEPT !.number = @ + 1]
  /\ UNCHANGED <<log, manifest, ck, sink>>

CaughtUp == ck[Query].at = exec.limit

\* The batch takes its share of max_offsets_per_trigger from each partition, and a
\* message at least. When the watermark has moved, and nothing is left to read, a
\* batch without messages makes the state catch up.
Share(p) ==
  LET left(q) == exec.limit[q] - ck[Query].at[q]
      share   == (MaxOffsets * left(p)) \div Cardinality(Between(ck[Query].at, exec.limit))
  IN  Min({left(p), Max({1, share})})

PlanBatch ==
  /\ Running /\ ck[Query].plan = <<>>
  /\ ~ CaughtUp \/ ck[Query].late # ck[Query].evict
  /\ ck' = [ck EXCEPT ![Query].plan =
       [p \in 1..P |-> ck[Query].at[p] + IF CaughtUp THEN 0 ELSE Share(p)]]
  /\ UNCHANGED <<log, manifest, sink, exec>>

\* Valid rows that are not older than the watermark.
InTime == {row \in Batch : At(row).ok /\ Time(row) > ck[Query].late}

\* What a batch writes. Of the new rows with one id in a batch it may be any.
Outputs ==
  CASE Query = "landing"  -> {Batch}
    [] Query = "accepted" ->
         LET new == {row \in InTime : IdOf(row) \notin ck[Query].memory}
         IN  {S \in SUBSET new :
                /\ {IdOf(row) : row \in S} = {IdOf(row) : row \in new}
                /\ \A x, y \in S : IdOf(x) = IdOf(y) => x = y}
    [] Query = "rejected" -> {{row \in Batch : ~ At(row).ok}}

WriteBatch ==
  /\ Planned /\ Len(sink[Query]) = ck[Query].done
  /\ \E rows \in Outputs : sink' = [sink EXCEPT ![Query] = Append(@, rows)]
  /\ UNCHANGED <<log, manifest, ck, exec>>

\* dropDuplicatesWithinWatermark remembers an id for the delay after its time, and
\* drops late rows by the watermark it forgot by in the batch before.
Remembers(id, evict) == TimeOf[id] + Delay > evict

CommitBatch ==
  /\ Planned /\ Len(sink[Query]) > ck[Query].done
  /\ LET c    == ck[Query]
         seen == c.memory \union {IdOf(row) : row \in InTime}
         times == {Time(row) - Delay : row \in {x \in Batch : At(x).ok}}
     IN  ck' = [ck EXCEPT ![Query] =
           [done |-> c.done + 1, at |-> c.plan, plan |-> <<>>,
            memory |-> {id \in seen : Query = "accepted" /\ Remembers(id, c.evict)},
            late   |-> IF Query = "accepted" THEN c.evict ELSE 0,
            evict  |-> IF Query = "accepted" THEN Max(times \union {c.evict}) ELSE 0]]
  /\ UNCHANGED <<log, manifest, sink, exec>>

\* awaitTermination returns, and the next query starts, or the checks.
FinishQuery ==
  /\ Running /\ ck[Query].plan = <<>> /\ CaughtUp /\ ck[Query].late = ck[Query].evict
  /\ exec' = CASE Query = "landing"  -> StartQuery("accepted")
               [] Query = "accepted" -> StartQuery("rejected")
               [] Query = "rejected" -> [exec EXCEPT !.phase = "check"]
  /\ UNCHANGED <<log, manifest, ck, sink>>

\* The observed offsets of a partition: least and greatest, not each.
OffsetsOf(p) == {row[2] : row \in {x \in Rows("landing") : x[1] = p}}

OffsetsReconciled ==
  \A p \in 1..P :
    IF manifest.ends[p] > manifest.starts[p]
    THEN /\ OffsetsOf(p) # {}
         /\ Min(OffsetsOf(p)) = manifest.starts[p] /\ Max(OffsetsOf(p)) = manifest.ends[p] - 1
    ELSE OffsetsOf(p) = {}

\* Mutant: the number of duplicates may be negative.
InputReconciles == Cardinality(Rows("landing")) = Cardinality(RecordedRange)

\* Duplicates are what the other counts leave over.
CountsReconcile ==
  /\ Cardinality(Rows("landing")) >=
       Cardinality(Rows("accepted")) + Cardinality(Rows("rejected"))
  /\ Cardinality(Rows("landing")) = Cardinality(RecordedRange)

\* The source types are not those expected if no row is accepted.
SilverVerified ==
  /\ Rows("accepted") # {}
  /\ Cardinality({IdOf(row) : row \in Rows("accepted")}) = Cardinality(Rows("accepted"))

ChecksPass == CountsReconcile /\ SilverVerified /\ OffsetsReconciled

\* The manifest of the execution is written only if all checks pass.
Check ==
  /\ exec.phase = "check"
  /\ exec' = [exec EXCEPT !.phase = "ended",
                        !.succeeded = @ \union {n \in {exec.number} : ChecksPass}]
  /\ UNCHANGED <<log, manifest, ck, sink>>

\* The process dies, a query fails, or failOnDataLoss stops it.
Crash ==
  /\ Running \/ exec.phase = "check"
  /\ exec' = [exec EXCEPT !.phase = "ended"]
  /\ UNCHANGED <<log, manifest, ck, sink>>

-----------------------------------------------------------------------------
\* Another producer appends a message behind the recorded ranges.
Others == Cardinality(Between(manifest.ends, Latest))

WriteOther(p, m) ==
  /\ Others < MaxOthers
  /\ log' = [log EXCEPT ![p] = Append(@, m)]
  /\ UNCHANGED <<manifest, ck, sink, exec>>

\* Nobody has to execute anything again. An execution that could not go on would
\* be a deadlock.
Rest == exec.phase \in {"idle", "ended"} /\ UNCHANGED vars

Next ==
  \/ Execute \/ PlanBatch \/ WriteBatch \/ CommitBatch \/ FinishQuery
  \/ Check \/ Crash \/ Rest
  \/ \E p \in 1..P, m \in Message : WriteOther(p, m)

Spec == Init /\ [][Next]_vars

-----------------------------------------------------------------------------
(* Properties.                                                             *)

Offsets == {o \in [1..P -> Nat] : \A p \in 1..P : o[p] <= Len(log[p])}

\* Checkpoints lie within the topic, are ahead of the sink by no batch and behind
\* it by at most the one that is planned, and hold all that the sink holds.
TypeOK ==
  /\ log \in [1..P -> Seq(Message)]
  /\ exec.phase \in {"idle", "check", "ended"} \union Queries
  /\ exec.number \in 0..MaxExecutions /\ exec.succeeded \subseteq 1..exec.number
  /\ exec.limit \in Offsets
  /\ \A q \in Queries :
       /\ ck[q].at \in Offsets
       /\ ck[q].plan = <<>> \/ ck[q].plan \in Offsets
       /\ ck[q].memory \subseteq Ids
       /\ ck[q].late <= ck[q].evict
       /\ Len(sink[q]) - ck[q].done \in (IF ck[q].plan = <<>> THEN {0} ELSE {0, 1})
       /\ Rows(q) \subseteq Between(manifest.starts,
                              IF ck[q].plan = <<>> THEN ck[q].at ELSE ck[q].plan)

InRange(ok) == {row \in RecordedRange : At(row).ok = ok}

\* Messages so far apart that one of them may come too late.
Spread ==
  \E x, y \in Between(manifest.starts, Latest) :
    At(x).ok /\ At(y).ok /\ Time(x) + Delay <= Time(y)

\* Silver never holds an event twice, although deduplication forgets. When an
\* execution has succeeded, Bronze is the recorded range, and Silver and quarantine
\* are its outcomes if no message could be late and, since the number of duplicates
\* is what is left over, the range has none or nobody else was writing.
OutcomesAreExact ==
  /\ \A x, y \in Rows("accepted") : IdOf(x) = IdOf(y) => x = y
  /\ exec.phase = "ended" /\ exec.number \in exec.succeeded =>
       /\ Rows("landing") = RecordedRange
       /\ \/ Spread
          \/ Others > 0 /\ \E x, y \in InRange(TRUE) : x # y /\ IdOf(x) = IdOf(y)
          \/ /\ {IdOf(row) : row \in Rows("accepted")} = {IdOf(row) : row \in InRange(TRUE)}
             /\ Rows("rejected") = InRange(FALSE)

\* Once a run has succeeded, another execution reads and writes nothing while
\* nobody else has written to the topic.
RestartAddsNothing ==
  [][exec.succeeded # {} /\ Others = 0 => ck' = ck /\ sink' = sink]_vars
=============================================================================
