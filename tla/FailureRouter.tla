---------------------------- MODULE FailureRouter ----------------------------
(***************************************************************************)
(* streaming/kafka/failure_router.py: one run routes the messages of a     *)
(* producer run that break the contract, or that cannot be processed, to   *)
(* two topics, and proves by counting that it did.                         *)
(*                                                                         *)
(* What a producer run has reconciled are JSON objects keyed by their      *)
(* lineage. Of a message the model keeps its class. Other router runs      *)
(* write to the same topics, perhaps about the same messages.              *)
(***************************************************************************)
EXTENDS Integers, Sequences, FiniteSets

CONSTANTS
  P,           \* partitions of the source topic
  Q,           \* partitions of each output topic
  Sources,     \* recorded ranges of reconciled producer manifests
  MaxAttempts, \* max_processing_attempts
  QueueMax,    \* messages librdkafka buffers before produce() raises BufferError
  MaxOthers    \* bound: envelopes of other router runs

\* output_topics, in the order of the dictionary.
Topics == <<"REJECTED", "DLQ">>
Cells  == {"REJECTED", "DLQ"} \X (1..Q)

\* A message passes validation_errors or not, or carries the fault marker of the
\* fixture; part is the output partition its key is mapped to.
Message     == [class : {"valid", "invalid", "fault"}, part : 1..Q]
Coordinates == (1..P) \X Nat

ASSUME RouterAssumption ==
  /\ P \in Nat \ {0} /\ Q \in Nat \ {0}
  /\ MaxAttempts \in Nat \ {0} /\ QueueMax \in Nat \ {0} /\ MaxOthers \in Nat
  /\ Sources \subseteq [1..P -> Seq(Message)]

VARIABLES
  out,   \* out[c]: the envelopes ever appended to partition c of a topic
  router \* the run

vars == <<out, router>>

Envelope == [src : Coordinates, attempts : Nat, own : BOOLEAN]

\* at: the partition whose watermark is read next, or the topic verified; next:
\* how far each partition of the source is read; work: the message in hand, with
\* the attempts made and whether it waits to be produced; sent: envelopes handed
\* to librdkafka, by number, of which the broker holds the appended ones and has
\* reported the delivered and the failed ones; lost: flush(30) left a remainder;
\* seen: offsets of an output topic counted by its verification.
NotStarted ==
  [phase |-> "idle", status |-> "NONE", source |-> [p \in 1..P |-> <<>>],
   at |-> 1, next |-> [p \in 1..P |-> 0], work |-> <<>>, passed |-> {},
   sent |-> <<>>, appended |-> {}, delivered |-> {}, failed |-> {}, lost |-> FALSE,
   starts |-> [c \in Cells |-> 0], ends |-> [c \in Cells |-> 0],
   seen |-> {}, verified |-> {}]

Init ==
  /\ out = [c \in Cells |-> <<>>]
  /\ router = NotStarted

-----------------------------------------------------------------------------
MessageAt(src) == router.source[src[1]][src[2] + 1]
SourceRange    == UNION {{p} \X (0..(Len(router.source[p]) - 1)) : p \in 1..P}
Consumed       == UNION {{p} \X (0..(router.next[p] - 1)) : p \in 1..P}

TopicOf(src) == IF MessageAt(src).class = "invalid" THEN "REJECTED" ELSE "DLQ"
CellOf(i)    == <<TopicOf(router.sent[i].src), MessageAt(router.sent[i].src).part>>

Outstanding  == DOMAIN router.sent \ (router.delivered \union router.failed)
Delivered(t) == {i \in router.delivered : CellOf(i)[1] = t}

\* The offsets of a topic between its watermarks.
RangeOf(t) ==
  UNION {{c} \X (router.starts[c]..(router.ends[c] - 1)) : c \in {t} \X (1..Q)}

EnvelopeAt(co) == out[co[1]][co[2] + 1]

Become(new) == router' = new /\ UNCHANGED out

-----------------------------------------------------------------------------
\* route_failures, on a manifest that is successful and reconciled.
Start ==
  /\ router.phase = "idle"
  /\ \E s \in Sources : Become([router EXCEPT !.phase = "starts", !.source = s])

\* partition_watermarks, one partition after the other, topic by topic.
AtCell == IF router.at <= Q THEN <<"REJECTED", router.at>>
                           ELSE <<"DLQ", router.at - Q>>

NextCell(then) ==
  IF router.at = 2 * Q THEN [router EXCEPT !.at = 1, !.phase = then]
                       ELSE [router EXCEPT !.at = @ + 1]

ReadStart ==
  /\ router.phase = "starts"
  /\ Become([NextCell("route") EXCEPT !.starts[AtCell] = Len(out[AtCell])])

\* poll() serves the partitions of the source in any order; a message outside the
\* recorded range changes nothing. A message with errors is not processed.
Consume(p) ==
  /\ router.phase = "route" /\ router.work = <<>>
  /\ router.next[p] < Len(router.source[p])
  /\ LET src == <<p, router.next[p]>>
     IN  Become([router EXCEPT !.next[p] = @ + 1,
                   !.work = <<[src |-> src, attempts |-> 0,
                               routed |-> MessageAt(src).class = "invalid"]>>])

\* process_with_bounded_attempts: one attempt.
\* Mutant: one attempt more.
ProcessOnceMore ==
  /\ router.phase = "route" /\ router.work # <<>> /\ ~ router.work[1].routed
  /\ LET w == router.work[1] IN
     Become(
       IF MessageAt(w.src).class = "fault"
       THEN [router EXCEPT !.work[1].attempts = @ + 1,
                           !.work[1].routed = (w.attempts = MaxAttempts)]
       ELSE [router EXCEPT !.work = <<>>, !.passed = @ \union {w.src}])

Process ==
  /\ router.phase = "route" /\ router.work # <<>> /\ ~ router.work[1].routed
  /\ LET w == router.work[1] IN
     Become(
       IF MessageAt(w.src).class = "fault"
       THEN [router EXCEPT !.work[1].attempts = @ + 1,
                           !.work[1].routed = (w.attempts + 1 = MaxAttempts)]
       ELSE [router EXCEPT !.work = <<>>, !.passed = @ \union {w.src}])

\* While the queue is full, BufferError makes the loop poll and try again.
Produce ==
  /\ router.phase = "route" /\ router.work # <<>> /\ router.work[1].routed
  /\ Cardinality(Outstanding) < QueueMax
  /\ Become([router EXCEPT !.work = <<>>,
               !.sent = Append(@, [src |-> router.work[1].src,
                                   attempts |-> router.work[1].attempts])])

\* The idempotent producer keeps the order within a partition. The broker may
\* append an envelope whose report has failed, and after the run has ended.
Store(i) ==
  /\ i \in DOMAIN router.sent \ router.appended
  /\ \A j \in 1..(i - 1) :
       CellOf(j) = CellOf(i) => j \in router.appended \union router.failed
  /\ out' = [out EXCEPT ![CellOf(i)] =
       Append(@, [src |-> router.sent[i].src, attempts |-> router.sent[i].attempts,
                  own |-> TRUE])]
  /\ router' = [router EXCEPT !.appended = @ \union {i}]

\* Delivery reports are served by poll() after every message, while the queue is
\* full, and by flush().
\* Mutant: only by flush().
PollingInFlush == router.phase = "route" /\ Consumed = SourceRange /\ router.work = <<>>
Polling == router.phase = "route"

Deliver(i) ==
  /\ Polling
  /\ i \in Outstanding \intersect router.appended
  /\ Become([router EXCEPT !.delivered = @ \union {i}])

\* delivery.timeout.ms passes, whether or not the broker has the message.
Expire(i) ==
  /\ Polling
  /\ i \in Outstanding
  /\ Become([router EXCEPT !.failed = @ \union {i}])

\* flush(30) returns with everything reported, or with a remainder.
Flush ==
  /\ router.phase = "route" /\ Consumed = SourceRange /\ router.work = <<>>
  /\ Become([router EXCEPT !.phase = "ends", !.lost = Outstanding # {}])

ReadEnd ==
  /\ router.phase = "ends"
  /\ Become([NextCell("verify") EXCEPT !.ends[AtCell] = Len(out[AtCell])])

-----------------------------------------------------------------------------
\* verify_routed_range of the topic at hand: as many envelopes as were delivered,
\* each about another message. The type and the key of an envelope are those of
\* its topic and its event.
Verifying == Topics[router.at]
SeenIn(c) == {co \in router.seen : co[1] = c}
Missing   == Cardinality(Delivered(Verifying)) - Cardinality(router.seen)

Count(p) ==
  LET c == <<Verifying, p>>
      offset == router.starts[c] + Cardinality(SeenIn(c))
  IN  /\ router.phase = "verify" /\ Missing > 0
      /\ offset < router.ends[c]
      /\ Become([router EXCEPT !.seen = @ \union {<<c, offset>>}])

DistinctSources == Cardinality({EnvelopeAt(co).src : co \in router.seen})

\* The next topic, or the reconciliation of both.
VerifyNext ==
  /\ router.phase = "verify" /\ Missing <= 0
  /\ Become([router EXCEPT !.seen = {},
       !.verified = IF DistinctSources = Cardinality(router.seen)
                    THEN @ \union {Verifying} ELSE @,
       !.phase = IF router.at = 2 THEN "reconcile" ELSE "verify",
       !.at = IF router.at = 2 THEN 1 ELSE 2])

\* Mutant: the offsets are not compared with the reports.
ReconciledByReports ==
  /\ Cardinality(Consumed) = Cardinality(router.passed) + Cardinality(router.delivered)
  /\ router.failed = {}
  /\ ~ router.lost
  /\ router.verified = {"REJECTED", "DLQ"}

\* offset_deltas, the sums of the lengths of the ranges, are the numbers of
\* offsets in them.
Reconciled ==
  /\ Cardinality(Consumed) = Cardinality(router.passed) + Cardinality(router.delivered)
  /\ router.failed = {}
  /\ ~ router.lost
  /\ \A t \in {"REJECTED", "DLQ"} : Cardinality(RangeOf(t)) = Cardinality(Delivered(t))
  /\ router.verified = {"REJECTED", "DLQ"}

\* The manifest is written whatever the outcome; a failure then raises.
Reconcile ==
  /\ router.phase = "reconcile"
  /\ Become([router EXCEPT !.phase = "ended",
               !.status = IF Reconciled THEN "SUCCEEDED" ELSE "FAILED"])

\* Fifteen seconds without a message of the range, a consumer error, a watermark
\* that cannot be read, or the death of the process: there is no manifest,
\* whatever has been sent.
Raise ==
  /\ router.phase \notin {"idle", "ended"}
  /\ Become([router EXCEPT !.phase = "ended"])

-----------------------------------------------------------------------------
\* Another router run appends an envelope.
Others == UNION {{<<c, k>> : k \in {x \in DOMAIN out[c] : ~ out[c][x].own}} : c \in Cells}

WriteOther(c, src) ==
  /\ Cardinality(Others) < MaxOthers
  /\ out' = [out EXCEPT ![c] = Append(@, [src |-> src, attempts |-> 0, own |-> FALSE])]
  /\ UNCHANGED router

Route ==
  \/ ReadStart \/ Process \/ Produce \/ Flush \/ ReadEnd \/ VerifyNext \/ Reconcile
  \/ \E p \in 1..P : Consume(p)

Reports == \E i \in DOMAIN router.sent : Deliver(i) \/ Expire(i)

Next ==
  \/ Start \/ Route \/ Reports \/ Raise
  \/ \E p \in 1..Q : Count(p)
  \/ \E i \in DOMAIN router.sent : Store(i)
  \/ \E c \in Cells, src \in SourceRange : WriteOther(c, src)

Spec == Init /\ [][Next]_vars

\* The run goes on, librdkafka reports every message within its delivery timeout,
\* and poll() gets to every partition it is assigned. Nobody has to wait for one
\* of the timeouts of the run.
FairSpec ==
  /\ Spec
  /\ WF_vars(Route) /\ WF_vars(Reports)
  /\ \A p \in 1..Q : WF_vars(Count(p))

-----------------------------------------------------------------------------
(* Properties.                                                             *)

\* Every variable has the shape the code gives it.
TypeOK ==
  /\ out \in [Cells -> Seq(Envelope)]
  /\ router.phase \in {"idle", "starts", "route", "ends", "verify", "reconcile", "ended"}
  /\ router.status \in {"NONE", "SUCCEEDED", "FAILED"}
  /\ router.source \in [1..P -> Seq(Message)]
  /\ router.at \in 1..(2 * Q)
  /\ router.next \in [1..P -> Nat]
  /\ router.work = <<>> \/ /\ Len(router.work) = 1
                           /\ router.work[1].src \in Consumed
                           /\ router.work[1].attempts \in 0..MaxAttempts
  /\ router.passed \subseteq Consumed
  /\ \A i \in DOMAIN router.sent : router.sent[i].src \in Consumed
  /\ router.appended \subseteq DOMAIN router.sent
  /\ router.delivered \subseteq router.appended
  /\ router.failed \subseteq DOMAIN router.sent \ router.delivered
  /\ router.starts \in [Cells -> Nat] /\ router.ends \in [Cells -> Nat]
  /\ router.verified \subseteq {"REJECTED", "DLQ"}

\* After a successful manifest every message of the source has one outcome: a
\* valid one has passed, and any other has exactly one envelope, of this run, in
\* the recorded range of the right topic, after no attempt or after all of them.
\* Only counts are compared, the watermarks are read one at a time, reports come
\* late or not at all, and other runs route the same messages.
RoutedExactly ==
  router.status = "SUCCEEDED" =>
    /\ router.passed = {s \in SourceRange : MessageAt(s).class = "valid"}
    /\ \A s \in SourceRange \ router.passed :
         \E co \in RangeOf(TopicOf(s)) :
           /\ co[1][2] = MessageAt(s).part
           /\ EnvelopeAt(co) =
                [src |-> s, own |-> TRUE,
                 attempts |-> IF TopicOf(s) = "DLQ" THEN MaxAttempts ELSE 0]
    /\ Cardinality(RangeOf("REJECTED")) + Cardinality(RangeOf("DLQ"))
         = Cardinality(SourceRange \ router.passed)

\* A run ends without its idle timeouts: every envelope a verification waits for
\* is in the range it reads, even when reports failed or other runs wrote.
RouterEnds == router.phase = "starts" ~> router.phase = "ended"
=============================================================================
