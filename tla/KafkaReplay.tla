---------------------------- MODULE KafkaReplay ----------------------------
(***************************************************************************)
(* The replay topic, a producer run on it (streaming/kafka/producer.py)    *)
(* and the diagnostic runs (streaming/kafka/consumer.py).                  *)
(*                                                                         *)
(* A producer run proves by counting that the offset ranges it records     *)
(* hold its own messages: watermarks before and after, and one delivery    *)
(* report per message. Nothing keeps other runs from writing to the topic  *)
(* meanwhile, and reports can be late or lost. A diagnostic run reads the  *)
(* ranges of a successful manifest back and judges the messages. The other *)
(* runs are what they are to this one: records it did not write.           *)
(***************************************************************************)
EXTENDS Integers, Sequences, FiniteSets

CONSTANTS
  P,           \* number of partitions
  Artifacts,   \* replay artifacts, as sequences of messages
  Ids,         \* event ids
  PartitionOf, \* PartitionOf[key]: the partition Kafka maps a message key to
  QueueMax,    \* messages librdkafka buffers before produce() raises BufferError
  MaxExpired,  \* bound: records that retention deletes from a partition
  MaxOthers    \* bound: records that other runs write

Partitions == 1..P
Keys       == DOMAIN PartitionOf

\* A message has an event id, a replay sequence number, and its lineage as key.
Message == [id : Ids, seq : Nat, key : Keys]

ASSUME KafkaAssumption ==
  /\ P \in Nat \ {0}
  /\ QueueMax \in Nat \ {0}
  /\ MaxExpired \in Nat
  /\ MaxOthers \in Nat
  /\ PartitionOf \in [Keys -> Partitions]
  /\ \A a \in Artifacts : a \in Seq(Message)

VARIABLES
  log,      \* log[p]: what was ever appended to partition p; offsets start at 0
  expired,  \* expired[p]: how many of its records retention has deleted
  prod,     \* the producer run
  diag      \* the latest diagnostic run

vars == <<log, expired, prod, diag>>

Offsets   == [Partitions -> Nat]
NoOffsets == [p \in Partitions |-> 0]

\* A record holds a message of the artifact, or it is another run's.
Other == 0

\* at: the partition whose watermark is read next; sent: messages handed to
\* librdkafka; appended: messages the broker holds; delivered, failed: messages
\* reported so; lost: flush(30) came back with a remainder.
ProducerRun ==
  [phase : {"idle", "starts", "produce", "ends", "reconcile", "ended"},
   status : {"NONE", "SUCCEEDED", "FAILED"}, artifact : Artifacts \union {<<>>},
   at : Partitions, sent : Nat, appended : SUBSET (Nat \ {0}),
   delivered : SUBSET (Nat \ {0}), failed : SUBSET (Nat \ {0}), lost : BOOLEAN,
   starts : Offsets, ends : Offsets]

NotStarted ==
  [phase |-> "idle", status |-> "NONE", artifact |-> <<>>, at |-> 1, sent |-> 0,
   appended |-> {}, delivered |-> {}, failed |-> {}, lost |-> FALSE,
   starts |-> NoOffsets, ends |-> NoOffsets]

\* next: the consumer's position; seen: the offsets it has counted.
DiagnosticRun ==
  [phase : {"idle", "reading", "SUCCEEDED", "FAILED", "raised"},
   next : Offsets, seen : SUBSET (Partitions \X Nat)]

Init ==
  /\ log = [p \in Partitions |-> <<>>]
  /\ expired = NoOffsets
  /\ prod = NotStarted
  /\ diag = [phase |-> "idle", next |-> NoOffsets, seen |-> {}]

-----------------------------------------------------------------------------
Messages      == 1..Len(prod.artifact)
Target(i)     == PartitionOf[prod.artifact[i].key]
Outstanding   == (1..prod.sent) \ (prod.delivered \union prod.failed)

\* Mutant: the other element of the pair get_watermark_offsets returns.
LowWatermark(p)  == expired[p]
HighWatermark(p) == Len(log[p])

\* The recorded ranges, as the set of offsets in them.
RangeOf ==
  UNION {{p} \X (prod.starts[p] .. (prod.ends[p] - 1)) : p \in Partitions}

RecordAt(po) == log[po[1]][po[2] + 1]

\* The records of other runs.
Others ==
  {po \in UNION {{p} \X (0..(Len(log[p]) - 1)) : p \in Partitions} :
     RecordAt(po) = Other}

-----------------------------------------------------------------------------
\* publish_jsonl.
Start ==
  /\ prod.phase = "idle"
  /\ \E a \in Artifacts :
       prod' = [prod EXCEPT !.phase = "starts", !.artifact = a]
  /\ UNCHANGED <<log, expired, diag>>

\* partition_watermarks asks for one partition after the other.
NextWatermark(then) ==
  IF prod.at = P THEN [prod EXCEPT !.at = 1, !.phase = then]
                 ELSE [prod EXCEPT !.at = @ + 1]

ReadStart ==
  /\ prod.phase = "starts"
  /\ prod' = [NextWatermark("produce") EXCEPT
                !.starts[prod.at] = HighWatermark(prod.at)]
  /\ UNCHANGED <<log, expired, diag>>

\* While the queue is full, BufferError makes the loop poll and try again.
Produce ==
  /\ prod.phase = "produce"
  /\ prod.sent < Len(prod.artifact)
  /\ Cardinality(Outstanding) < QueueMax
  /\ prod' = [prod EXCEPT !.sent = @ + 1]
  /\ UNCHANGED <<log, expired, diag>>

\* The idempotent producer keeps the order within a partition. The broker may
\* append a message whose report has failed, and after the run has ended.
Store(i) ==
  /\ i \in (1..prod.sent) \ prod.appended
  /\ \A j \in 1..(i - 1) :
       Target(j) = Target(i) => j \in prod.appended \union prod.failed
  /\ log' = [log EXCEPT ![Target(i)] = Append(@, i)]
  /\ prod' = [prod EXCEPT !.appended = @ \union {i}]
  /\ UNCHANGED <<expired, diag>>

\* Delivery reports are served by poll() after every message and by flush().
\* Mutant: only by flush().
PollingInFlush == prod.phase = "produce" /\ prod.sent = Len(prod.artifact)
Polling == prod.phase = "produce"

Deliver(i) ==
  /\ Polling
  /\ i \in Outstanding \intersect prod.appended
  /\ prod' = [prod EXCEPT !.delivered = @ \union {i}]
  /\ UNCHANGED <<log, expired, diag>>

\* delivery.timeout.ms passes, whether or not the broker has the message.
Expire(i) ==
  /\ Polling
  /\ i \in Outstanding
  /\ prod' = [prod EXCEPT !.failed = @ \union {i}]
  /\ UNCHANGED <<log, expired, diag>>

\* flush(30) returns with everything reported, or with a remainder.
Flush ==
  /\ prod.phase = "produce"
  /\ prod.sent = Len(prod.artifact)
  /\ prod' = [prod EXCEPT !.phase = "ends", !.lost = Outstanding # {}]
  /\ UNCHANGED <<log, expired, diag>>

ReadEnd ==
  /\ prod.phase = "ends"
  /\ prod' = [NextWatermark("reconcile") EXCEPT
                !.ends[prod.at] = HighWatermark(prod.at)]
  /\ UNCHANGED <<log, expired, diag>>

\* Mutant: the offsets are not compared with the reports.
ReconciledByReports ==
  /\ prod.sent = Cardinality(prod.delivered)
  /\ prod.failed = {}
  /\ ~ prod.lost

\* offset_delta, the sum of the lengths of the ranges, is the number of offsets
\* in them.
Reconciled ==
  /\ prod.sent = Cardinality(prod.delivered)
  /\ prod.failed = {}
  /\ ~ prod.lost
  /\ Cardinality(RangeOf) = Cardinality(prod.delivered)

\* The manifest is written whatever the outcome; a failure then raises.
Reconcile ==
  /\ prod.phase = "reconcile"
  /\ prod' = [prod EXCEPT !.phase = "ended",
                        !.status = IF Reconciled THEN "SUCCEEDED" ELSE "FAILED"]
  /\ UNCHANGED <<log, expired, diag>>

\* The process dies, or an exception ends it: there is no manifest.
Crash ==
  /\ prod.phase \notin {"idle", "ended"}
  /\ prod' = [prod EXCEPT !.phase = "ended"]
  /\ UNCHANGED <<log, expired, diag>>

-----------------------------------------------------------------------------
\* consume_producer_run.
Expected == Cardinality(prod.delivered)
Consumed == Cardinality(diag.seen)

\* Mutant: the consumer seeks to the message before the first.
DiagnoseFromBefore ==
  /\ diag.phase # "reading"
  /\ prod.status = "SUCCEEDED"
  /\ diag' = [phase |-> "reading", seen |-> {},
              next |-> [p \in Partitions |-> prod.starts[p] - 1]]
  /\ UNCHANGED <<log, expired, prod>>

Diagnose ==
  /\ diag.phase # "reading"
  /\ prod.status = "SUCCEEDED"
  /\ diag' = [phase |-> "reading", seen |-> {}, next |-> prod.starts]
  /\ UNCHANGED <<log, expired, prod>>

Refuse ==
  /\ diag.phase # "reading"
  /\ prod.status = "FAILED"
  /\ diag' = [diag EXCEPT !.phase = "raised"]
  /\ UNCHANGED <<log, expired, prod>>

\* A message outside the recorded range is passed over.
\* Mutant: every message counts.
InRangeAlways(p) == TRUE
\* Mutant: the end of the range is taken for the last offset.
InRangeExclusive(p) ==
  diag.next[p] >= prod.starts[p] /\ diag.next[p] < prod.ends[p] - 1

InRange(p) ==
  diag.next[p] >= prod.starts[p] /\ diag.next[p] < prod.ends[p]

\* poll() serves the partitions in any order. A record that retention has deleted
\* was either fetched before, or is an error: auto.offset.reset is "error".
Poll(p) ==
  /\ diag.phase = "reading"
  /\ Consumed < Expected
  /\ diag.next[p] < HighWatermark(p)
  /\ \/ diag' = [diag EXCEPT !.next[p] = @ + 1,
                    !.seen = IF InRange(p) THEN @ \union {<<p, diag.next[p]>>} ELSE @]
     \/ /\ diag.next[p] < expired[p]
        /\ diag' = [diag EXCEPT !.phase = "raised"]
  /\ UNCHANGED <<log, expired, prod>>

\* No message for idle_timeout_seconds, or a consumer error.
GiveUp ==
  /\ diag.phase = "reading"
  /\ Consumed < Expected
  /\ diag' = [diag EXCEPT !.phase = "raised"]
  /\ UNCHANGED <<log, expired, prod>>

\* The events counted, of which another run's is no event of the artifact, and
\* the quality checks: as many distinct ids as messages expected, and the
\* sequence numbers 0 .. expected - 1.
SeenMessages == {prod.artifact[RecordAt(po)] : po \in diag.seen \ Others}

ChecksPass ==
  /\ Consumed = Expected
  /\ Expected > 0
  /\ Cardinality({m.id : m \in SeenMessages}) = Expected
  /\ {m.seq : m \in SeenMessages} = 0..(Expected - 1)

Judge ==
  /\ diag.phase = "reading"
  /\ Consumed >= Expected
  /\ diag' = [diag EXCEPT !.phase = IF ChecksPass THEN "SUCCEEDED" ELSE "FAILED"]
  /\ UNCHANGED <<log, expired, prod>>

-----------------------------------------------------------------------------
\* Another run writes a record.
WriteOther(p) ==
  /\ Cardinality(Others) < MaxOthers
  /\ log' = [log EXCEPT ![p] = Append(@, Other)]
  /\ UNCHANGED <<expired, prod, diag>>

\* Retention deletes the oldest record of a partition.
Retain(p) ==
  /\ expired[p] < MaxExpired
  /\ expired[p] < Len(log[p])
  /\ expired' = [expired EXCEPT ![p] = @ + 1]
  /\ UNCHANGED <<log, prod, diag>>

Publish == ReadStart \/ Produce \/ Flush \/ ReadEnd \/ Reconcile

Reports == \E i \in 1..prod.sent : Deliver(i) \/ Expire(i)

Next ==
  \/ Start \/ Publish \/ Reports \/ Crash
  \/ \E i \in 1..prod.sent : Store(i)
  \/ Diagnose \/ Refuse \/ Judge \/ GiveUp
  \/ \E p \in Partitions : Poll(p) \/ WriteOther(p) \/ Retain(p)

Spec == Init /\ [][Next]_vars

\* The run goes on, librdkafka reports every message within its delivery
\* timeout, and the consumer gets to every partition it is assigned. Nobody has
\* to wait for a timeout.
FairSpec ==
  /\ Spec
  /\ WF_vars(Publish) /\ WF_vars(Reports)
  /\ \A p \in Partitions : WF_vars(Poll(p))
  /\ WF_vars(Judge)

-----------------------------------------------------------------------------
(* Properties.                                                             *)

\* Every variable has the shape the code gives it.
TypeOK ==
  /\ log \in [Partitions -> Seq(Nat)]
  /\ expired \in Offsets
  /\ prod \in ProducerRun
  /\ diag \in DiagnosticRun

\* The places of partition p in the recorded ranges.
Places(p) == (prod.starts[p] + 1) .. prod.ends[p]

\* The ranges of a successful manifest hold the artifact: in each partition its
\* messages in their order, once each, and nothing of any other run, although
\* only counts are compared and the watermarks are read one at a time.
RangeIsArtifact ==
  prod.status = "SUCCEEDED" =>
    /\ \A i \in Messages : \E k \in Places(Target(i)) : log[Target(i)][k] = i
    /\ \A p \in Partitions : \A k \in Places(p) :
         /\ log[p][k] \in Messages
         /\ Target(log[p][k]) = p
         /\ \A l \in Places(p) : l < k => log[p][l] < log[p][k]

\* A run fails for a reason: a report failed or is missing, or another run wrote
\* into its ranges.
FailureHasCause ==
  prod.status = "FAILED" =>
    \/ prod.lost \/ prod.failed # {}
    \/ \E po \in RangeOf : RecordAt(po) = Other

\* A complete replay: distinct events, numbered from 0.
SoundReplay(a) ==
  /\ Len(a) > 0
  /\ \A i, j \in 1..Len(a) : a[i].id = a[j].id => i = j
  /\ {a[i].seq : i \in 1..Len(a)} = 0..(Len(a) - 1)

\* A verdict of the diagnostic run is about the artifact and nothing else,
\* whatever was written to the topic around the ranges it reads.
DiagnosisIsExact ==
  diag.phase \in {"SUCCEEDED", "FAILED"} =>
    (diag.phase = "SUCCEEDED" <=> SoundReplay(prod.artifact))

\* A producer run ends: a full queue drains while the run waits for it.
ProducerEnds == prod.phase = "starts" ~> prod.phase = "ended"

\* A diagnostic run ends without its idle timeout: every message it counts on
\* is there, or its deletion is noticed.
DiagnosisEnds == diag.phase = "reading" ~> diag.phase # "reading"
=============================================================================
