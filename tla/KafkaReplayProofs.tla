------------------------ MODULE KafkaReplayProofs ------------------------
(***************************************************************************)
(* Theorems about KafkaReplay, for every number of partitions, every set   *)
(* of artifacts, every queue, and any number of foreign and deleted        *)
(* records.                                                                *)
(***************************************************************************)
EXTENDS KafkaReplay, TLAPS, FiniteSetTheorems

-----------------------------------------------------------------------------
(* The inductive invariant.                                                *)

\* Who is reported is in the log, and who is in the log was handed over.
Handed ==
  /\ prod.delivered \subseteq prod.appended
  /\ prod.appended \subseteq 1..prod.sent
  /\ prod.sent <= Len(prod.artifact)
  /\ prod.phase \in {"idle", "starts"} => prod.sent = 0
  /\ prod.phase \in {"ends", "reconcile"} => prod.sent = Len(prod.artifact)
  /\ prod.phase = "produce" => prod.at = 1

\* Watermarks do not overtake the log.
Bounded ==
  \A p \in Partitions : prod.starts[p] <= Len(log[p]) /\ prod.ends[p] <= Len(log[p])

\* The log of partition p holds records of other runs and messages of its own.
Content ==
  \A p \in Partitions : \A k \in 1..Len(log[p]) :
    log[p][k] # Other => log[p][k] \in prod.appended /\ Target(log[p][k]) = p

\* Message i is in its partition, after place a and up to place b.
HeldIn(i, a, b) == \E k \in (a + 1)..b : log[Target(i)][k] = i

\* What the broker has of the run is behind the start watermarks ...
Behind ==
  \A i \in prod.appended :
    HeldIn(i, prod.starts[Target(i)], Len(log[Target(i)]))

\* ... and what was reported delivered, before the end watermarks.
EndRead(p) ==
  \/ prod.phase = "ends" /\ p < prod.at
  \/ prod.phase = "reconcile" \/ prod.status = "SUCCEEDED"

Enclosed ==
  \A i \in prod.delivered : EndRead(Target(i)) =>
    HeldIn(i, prod.starts[Target(i)], prod.ends[Target(i)])

\* As long as no message has failed, a partition gets its messages in order.
InOrder ==
  prod.failed = {} =>
    /\ \A i \in prod.appended : \A j \in 1..(i - 1) :
         Target(j) = Target(i) => j \in prod.appended
    /\ \A p \in Partitions : \A k \in 1..Len(log[p]), l \in 1..Len(log[p]) :
         l < k /\ log[p][l] # Other /\ log[p][k] # Other => log[p][l] < log[p][k]

\* What a manifest with status SUCCEEDED was written for.
Success ==
  /\ prod.status # "NONE" => prod.phase = "ended"
  /\ prod.status = "SUCCEEDED" =>
       /\ prod.sent = Len(prod.artifact)
       /\ Reconciled

KafkaInv ==
  /\ TypeOK /\ Handed /\ Bounded /\ Content
  /\ Behind /\ Enclosed /\ InOrder /\ Success

-----------------------------------------------------------------------------
(* Types.                                                                  *)

\* The artifact is a sequence of messages, each with a partition.
LEMMA MessageTypes ==
  ASSUME TypeOK
  PROVE  /\ prod.artifact \in Seq(Message)
         /\ Len(prod.artifact) \in Nat
         /\ Messages \subseteq Nat
         /\ \A i \in Messages : Target(i) \in Partitions
         /\ P \in Partitions
         /\ \A p \in Partitions : Len(log[p]) \in Nat /\ log[p] \in Seq(Nat)
  <1>1. prod.artifact \in Seq(Message)
    <2>1. prod.artifact \in Artifacts \union {<<>>}
      BY DEF TypeOK, ProducerRun
    <2>2. CASE prod.artifact \in Artifacts
      BY <2>2, KafkaAssumption
    <2>3. CASE prod.artifact = <<>>
      BY <2>3
    <2>4. QED
      BY <2>1, <2>2, <2>3
  <1>2. Len(prod.artifact) \in Nat /\ Messages \subseteq Nat
    BY <1>1 DEF Messages
  <1>3. ASSUME NEW i \in Messages
        PROVE  Target(i) \in Partitions
    <2>1. prod.artifact[i] \in Message
      BY <1>1 DEF Messages
    <2>2. prod.artifact[i].key \in Keys
      BY <2>1 DEF Message
    <2>3. QED
      BY <2>2, KafkaAssumption DEF Target
  <1>4. P \in Partitions
    BY KafkaAssumption DEF Partitions
  <1>5. \A p \in Partitions : Len(log[p]) \in Nat /\ log[p] \in Seq(Nat)
    BY DEF TypeOK
  <1>6. QED
    BY <1>1, <1>2, <1>3, <1>4, <1>5

\* Reading the next watermark leaves a producer run.
LEMMA WatermarkTypes ==
  ASSUME TypeOK, NEW then \in {"produce", "reconcile"}
  PROVE  /\ HighWatermark(prod.at) \in Nat
         /\ [NextWatermark(then) EXCEPT !.starts[prod.at] = HighWatermark(prod.at)]
              \in ProducerRun
         /\ [NextWatermark(then) EXCEPT !.ends[prod.at] = HighWatermark(prod.at)]
              \in ProducerRun
  <1>1. prod \in ProducerRun /\ prod.at \in Partitions
    BY DEF TypeOK, ProducerRun
  <1>2. HighWatermark(prod.at) \in Nat
    BY <1>1, MessageTypes DEF HighWatermark
  <1>3. NextWatermark(then) \in ProducerRun
    <2>1. CASE prod.at = P
      <3>1. 1 \in Partitions
        BY KafkaAssumption DEF Partitions
      <3>2. NextWatermark(then) = [prod EXCEPT !.at = 1, !.phase = then]
        BY <2>1 DEF NextWatermark
      <3>3. QED
        BY <1>1, <3>1, <3>2 DEF ProducerRun
    <2>2. CASE prod.at # P
      <3>1. prod.at + 1 \in Partitions
        BY <1>1, <2>2, KafkaAssumption DEF Partitions
      <3>2. QED
        BY <1>1, <2>2, <3>1 DEF NextWatermark, ProducerRun
    <2>3. QED
      BY <2>1, <2>2
  <1>4. QED
    BY <1>1, <1>2, <1>3 DEF ProducerRun, Offsets

\* Appending keeps the log a log.
LEMMA LogTypes ==
  ASSUME TypeOK, NEW p \in Partitions, NEW n \in Nat
  PROVE  [log EXCEPT ![p] = Append(@, n)] \in [Partitions -> Seq(Nat)]
  <1>1. Append(log[p], n) \in Seq(Nat)
    BY MessageTypes
  <1>2. QED
    BY <1>1 DEF TypeOK

LEMMA TypesStep ==
  ASSUME TypeOK, Handed, [Next]_vars
  PROVE  TypeOK'
  <1> USE DEF TypeOK
  <1>1. CASE Start
    BY <1>1 DEF Start, ProducerRun
  <1>2. CASE ReadStart
    BY <1>2, WatermarkTypes DEF ReadStart
  <1>3. CASE Produce
    <2>1. prod.sent + 1 \in Nat
      BY DEF ProducerRun
    <2>2. prod' \in ProducerRun
      BY <1>3, <2>1 DEF Produce, ProducerRun
    <2>3. QED
      BY <1>3, <2>2 DEF Produce
  <1>4. ASSUME NEW i \in 1..prod.sent, Store(i)
        PROVE  TypeOK'
    <2>1. prod.sent \in Nat /\ i \in Messages /\ i \in Nat \ {0}
      BY MessageTypes DEF Handed, Messages, ProducerRun
    <2>2. Target(i) \in Partitions
      BY <2>1, MessageTypes
    <2>3. log' \in [Partitions -> Seq(Nat)]
      BY <1>4, <2>1, <2>2, LogTypes DEF Store
    <2>4. prod' \in ProducerRun
      BY <1>4, <2>1 DEF Store, ProducerRun
    <2>5. QED
      BY <1>4, <2>3, <2>4 DEF Store
  <1>5. ASSUME NEW i \in 1..prod.sent, Deliver(i) \/ Expire(i)
        PROVE  TypeOK'
    <2>1. i \in Nat \ {0}
      BY DEF ProducerRun
    <2>2. /\ prod.delivered \union {i} \in SUBSET (Nat \ {0})
          /\ prod.failed \union {i} \in SUBSET (Nat \ {0})
      BY <2>1 DEF ProducerRun
    <2>3. CASE Deliver(i)
      BY <2>2, <2>3 DEF Deliver, ProducerRun
    <2>4. CASE Expire(i)
      BY <2>2, <2>4 DEF Expire, ProducerRun
    <2>5. QED
      BY <1>5, <2>3, <2>4
  <1>6. CASE Flush
    BY <1>6 DEF Flush, ProducerRun
  <1>7. CASE ReadEnd
    BY <1>7, WatermarkTypes DEF ReadEnd
  <1>8. CASE Reconcile
    BY <1>8 DEF Reconcile, ProducerRun
  <1>9. CASE Crash
    BY <1>9 DEF Crash, ProducerRun
  <1>10. CASE Diagnose
    BY <1>10 DEF Diagnose, DiagnosticRun, ProducerRun
  <1>11. CASE Refuse \/ Judge \/ GiveUp
    BY <1>11 DEF Refuse, Judge, GiveUp, DiagnosticRun
  <1>12. ASSUME NEW p \in Partitions, Poll(p)
         PROVE  TypeOK'
    <2>1. diag.next[p] \in Nat /\ <<p, diag.next[p]>> \in Partitions \X Nat
      BY DEF DiagnosticRun, Offsets
    <2> DEFINE next == [diag.next EXCEPT ![p] = @ + 1]
               seen == IF InRange(p) THEN diag.seen \union {<<p, diag.next[p]>>}
                                     ELSE diag.seen
    <2>2. next \in Offsets /\ seen \in SUBSET (Partitions \X Nat)
      BY <2>1 DEF DiagnosticRun, Offsets
    <2>3. CASE diag' = [diag EXCEPT !.next = next, !.seen = seen]
      <3> HIDE DEF next, seen
      <3>1. diag' \in DiagnosticRun
        BY <2>2, <2>3 DEF DiagnosticRun
      <3>2. QED
        BY <1>12, <3>1 DEF Poll
    <2>4. CASE diag' = [diag EXCEPT !.phase = "raised"]
      BY <1>12, <2>4 DEF Poll, DiagnosticRun
    <2>5. diag' = [diag EXCEPT !.next = next, !.seen = seen]
            \/ diag' = [diag EXCEPT !.phase = "raised"]
      BY <1>12 DEF Poll
    <2>6. QED
      BY <2>3, <2>4, <2>5
  <1>13. ASSUME NEW p \in Partitions, WriteOther(p)
         PROVE  TypeOK'
    BY <1>13, LogTypes DEF WriteOther, Other
  <1>14. ASSUME NEW p \in Partitions, Retain(p)
         PROVE  TypeOK'
    BY <1>14 DEF Retain, Offsets
  <1>15. CASE UNCHANGED vars
    BY <1>15 DEF vars
  <1>16. QED
    BY <1>1, <1>2, <1>3, <1>4, <1>5, <1>6, <1>7, <1>8, <1>9, <1>10, <1>11, <1>12,
       <1>13, <1>14, <1>15 DEF Next, Publish, Reports

-----------------------------------------------------------------------------
(* Steps.                                                                  *)

\* The fields that tell what was sent and what became of it.
Sent  == <<prod.artifact, prod.sent, prod.appended, prod.delivered, prod.failed>>
Marks == <<prod.starts, prod.ends>>

\* What depends on log and messages only is kept while they are.
LEMMA LogFrame ==
  ASSUME Content, InOrder, log' = log, prod'.artifact = prod.artifact,
         prod'.appended = prod.appended, prod.failed \subseteq prod'.failed
  PROVE  Content' /\ InOrder'
  <1>1. \A i : Target(i)' = Target(i)
    BY DEF Target
  <1>2. Content'
    BY <1>1 DEF Content
  <1>3. InOrder'
    BY <1>1 DEF InOrder
  <1>4. QED
    BY <1>2, <1>3

\* The same for what depends on the watermarks as well.
LEMMA MarksFrame ==
  ASSUME Bounded, Behind, log' = log, prod'.artifact = prod.artifact,
         prod'.appended = prod.appended, Marks' = Marks
  PROVE  Bounded' /\ Behind'
  <1>1. \A i, a, b : HeldIn(i, a, b)' <=> HeldIn(i, a, b)
    BY DEF HeldIn, Target
  <1>2. \A i : Target(i)' = Target(i)
    BY DEF Target
  <1>3. prod'.starts = prod.starts /\ prod'.ends = prod.ends
    BY DEF Marks
  <1>4. Bounded'
    BY <1>3 DEF Bounded
  <1>5. Behind'
    BY <1>1, <1>2, <1>3 DEF Behind, HeldIn
  <1>6. QED
    BY <1>4, <1>5

LEMMA EnclosedFrame ==
  ASSUME Enclosed, log' = log, prod'.artifact = prod.artifact,
         prod'.delivered = prod.delivered, Marks' = Marks,
         \A p \in Partitions : EndRead(p)' => EndRead(p),
         \A i \in prod.delivered : Target(i) \in Partitions
  PROVE  Enclosed'
  <1>2. \A i : Target(i)' = Target(i)
    BY DEF Target
  <1>3. prod'.starts = prod.starts /\ prod'.ends = prod.ends
    BY DEF Marks
  <1>4. QED
    BY <1>2, <1>3 DEF Enclosed, HeldIn

\* Delivered messages have a partition.
LEMMA DeliveredTargets ==
  ASSUME TypeOK, Handed
  PROVE  /\ prod.delivered \subseteq Messages
         /\ prod.appended \subseteq Messages
         /\ \A i \in prod.appended : Target(i) \in Partitions
  <1>1. prod.sent \in Nat /\ Len(prod.artifact) \in Nat
    BY MessageTypes DEF TypeOK, ProducerRun
  <1>2. prod.appended \subseteq Messages
    BY <1>1 DEF Handed, Messages
  <1>3. QED
    BY <1>2, MessageTypes DEF Handed

\* Steps of consumers, and deletions.
LEMMA QuietStep ==
  ASSUME KafkaInv, log' = log, prod' = prod
  PROVE  /\ Handed' /\ Bounded' /\ Content'
         /\ Behind' /\ Enclosed' /\ InOrder' /\ Success'
  <1> USE DEF KafkaInv
  <1>1. Content' /\ InOrder'
    BY LogFrame
  <1>2. Bounded' /\ Behind'
    BY MarksFrame DEF Marks
  <1>3. Enclosed'
    BY DeliveredTargets, EnclosedFrame DEF Marks, EndRead, Handed
  <1>4. Handed'
    BY DEF Handed
  <1>5. Success'
    BY DEF Success, Reconciled, RangeOf
  <1>6. QED
    BY <1>1, <1>2, <1>3, <1>4, <1>5

\* The invariant without the types.
Rest == Handed /\ Bounded /\ Content /\ Behind /\ Enclosed /\ InOrder /\ Success

\* Before anything is sent, the invariant says little.
LEMMA StartStep ==
  ASSUME KafkaInv, Start
  PROVE  Rest'
  <1> USE DEF KafkaInv
  <1>1. /\ prod'.sent = prod.sent /\ prod'.appended = prod.appended
        /\ prod'.delivered = prod.delivered /\ prod'.failed = prod.failed
        /\ prod'.starts = prod.starts /\ prod'.ends = prod.ends
        /\ prod'.status = prod.status /\ prod'.phase = "starts" /\ log' = log
        /\ prod.phase = "idle"
    BY DEF Start, TypeOK, ProducerRun
  <1>2. prod.sent = 0 /\ prod.appended = {} /\ prod.delivered = {}
    BY <1>1 DEF Handed
  <1>3. prod'.sent <= Len(prod'.artifact)
    <2>1. PICK a \in Artifacts : prod'.artifact = a
      BY DEF Start, TypeOK, ProducerRun
    <2>2. Len(a) \in Nat
      BY KafkaAssumption
    <2>3. QED
      BY <1>1, <1>2, <2>1, <2>2
  <1>4. Handed'
    BY <1>1, <1>2, <1>3 DEF Handed
  <1>5. Bounded'
    BY <1>1 DEF Bounded
  <1>6. Content'
    BY <1>1, <1>2 DEF Content
  <1>7. Behind' /\ Enclosed'
    BY <1>1, <1>2 DEF Behind, Enclosed
  <1>8. InOrder'
    <2>1. \A p \in Partitions : \A k \in 1..Len(log[p]) : log[p][k] = Other
      BY <1>2 DEF Content
    <2>2. QED
      BY <1>1, <1>2, <2>1 DEF InOrder
  <1>9. Success'
    BY <1>1 DEF Success
  <1>10. QED
    BY <1>4, <1>5, <1>6, <1>7, <1>8, <1>9 DEF Rest

\* While the start watermarks are read, nothing has been sent either.
LEMMA ReadStartStep ==
  ASSUME KafkaInv, ReadStart
  PROVE  Rest'
  <1> USE DEF KafkaInv
  <1>1. /\ prod'.artifact = prod.artifact /\ prod'.sent = prod.sent
        /\ prod'.appended = prod.appended /\ prod'.delivered = prod.delivered
        /\ prod'.failed = prod.failed /\ prod'.ends = prod.ends
        /\ prod'.status = prod.status /\ prod'.phase \in {"starts", "produce"}
        /\ prod'.phase = "produce" => prod'.at = 1
        /\ log' = log /\ prod.phase = "starts"
        /\ prod'.starts = [prod.starts EXCEPT ![prod.at] = Len(log[prod.at])]
    BY DEF ReadStart, NextWatermark, HighWatermark, TypeOK, ProducerRun
  <1>2. prod.sent = 0 /\ prod.appended = {} /\ prod.delivered = {}
    BY <1>1 DEF Handed
  <1>3. Handed'
    BY <1>1 DEF Handed
  <1>4. Bounded'
    <2>1. prod.starts \in Offsets
      BY DEF TypeOK, ProducerRun
    <2>2. \A p \in Partitions : prod'.starts[p] = prod.starts[p] \/ prod'.starts[p] = Len(log[p])
      BY <1>1, <2>1 DEF Offsets
    <2>3. QED
      BY <1>1, <2>2, MessageTypes DEF Bounded
  <1>5. Content' /\ InOrder'
    BY <1>1, LogFrame
  <1>6. Behind' /\ Enclosed'
    BY <1>1, <1>2 DEF Behind, Enclosed
  <1>7. Success'
    BY <1>1 DEF Success
  <1>8. QED
    BY <1>3, <1>4, <1>5, <1>6, <1>7 DEF Rest

\* Sending and reporting.
LEMMA ProduceStep ==
  ASSUME KafkaInv, Produce
  PROVE  Rest'
  <1> USE DEF KafkaInv
  <1>1. /\ prod'.artifact = prod.artifact /\ prod'.sent = prod.sent + 1
        /\ prod'.appended = prod.appended /\ prod'.delivered = prod.delivered
        /\ prod'.failed = prod.failed /\ Marks' = Marks /\ prod'.at = prod.at
        /\ prod'.status = prod.status /\ prod'.phase = "produce"
        /\ log' = log /\ prod.phase = "produce" /\ prod.sent < Len(prod.artifact)
    BY DEF Produce, TypeOK, ProducerRun, Marks
  <1>2. Handed'
    <2>1. prod.sent \in Nat /\ Len(prod.artifact) \in Nat
      BY MessageTypes DEF TypeOK, ProducerRun
    <2>2. 1..prod.sent \subseteq 1..(prod.sent + 1)
      BY <2>1
    <2>3. QED
      BY <1>1, <2>1, <2>2 DEF Handed
  <1>3. Content' /\ InOrder'
    BY <1>1, LogFrame
  <1>4. Bounded' /\ Behind'
    BY <1>1, MarksFrame
  <1>5. Enclosed'
    BY <1>1, DeliveredTargets, EnclosedFrame DEF EndRead, Handed
  <1>6. Success'
    BY <1>1 DEF Success
  <1>7. QED
    BY <1>2, <1>3, <1>4, <1>5, <1>6 DEF Rest

LEMMA ReportStep ==
  ASSUME KafkaInv, NEW i \in 1..prod.sent, Deliver(i) \/ Expire(i)
  PROVE  Rest'
  <1> USE DEF KafkaInv
  <1>1. /\ prod'.artifact = prod.artifact /\ prod'.sent = prod.sent
        /\ prod'.appended = prod.appended /\ Marks' = Marks /\ prod'.at = prod.at
        /\ prod'.delivered \subseteq prod.delivered \union prod.appended
        /\ prod.failed \subseteq prod'.failed
        /\ prod'.status = prod.status /\ prod'.phase = "produce"
        /\ log' = log /\ prod.phase = "produce"
    <2>1. CASE Deliver(i)
      BY <2>1 DEF Deliver, Polling, TypeOK, ProducerRun, Marks
    <2>2. CASE Expire(i)
      BY <2>2 DEF Expire, Polling, TypeOK, ProducerRun, Marks
    <2>3. QED
      BY <2>1, <2>2
  <1>2. Handed'
    BY <1>1 DEF Handed
  <1>3. Content' /\ InOrder'
    BY <1>1, LogFrame
  <1>4. Bounded' /\ Behind'
    BY <1>1, MarksFrame
  <1>5. prod'.status = "NONE"
    BY <1>1 DEF Success, TypeOK, ProducerRun
  <1>6. Enclosed'
    BY <1>1, <1>5 DEF EndRead, Enclosed
  <1>7. Success'
    BY <1>5 DEF Success
  <1>8. QED
    BY <1>2, <1>3, <1>4, <1>6, <1>7 DEF Rest

LEMMA FlushStep ==
  ASSUME KafkaInv, Flush
  PROVE  Rest'
  <1> USE DEF KafkaInv
  <1>1. /\ Sent' = Sent /\ Marks' = Marks /\ prod'.at = prod.at
        /\ prod'.status = prod.status /\ prod'.phase = "ends"
        /\ log' = log /\ prod.phase = "produce" /\ prod.sent = Len(prod.artifact)
    BY DEF Flush, TypeOK, ProducerRun, Marks, Sent
  <1>2. Handed'
    BY <1>1 DEF Handed, Sent
  <1>3. Content' /\ InOrder'
    BY <1>1, LogFrame DEF Sent
  <1>4. Bounded' /\ Behind'
    BY <1>1, MarksFrame DEF Sent
  <1>5. prod'.status = "NONE"
    BY <1>1 DEF Success, TypeOK, ProducerRun
  <1>6. \A p \in Partitions : ~ EndRead(p)'
    BY <1>1, <1>5 DEF EndRead, Handed, Partitions
  <1>7. Enclosed'
    BY <1>1, <1>6, DeliveredTargets, EnclosedFrame DEF Sent, Handed
  <1>8. Success'
    BY <1>5 DEF Success
  <1>9. QED
    BY <1>2, <1>3, <1>4, <1>7, <1>8 DEF Rest

\* An end watermark is read after every report: it is past what was delivered.
LEMMA ReadEndStep ==
  ASSUME KafkaInv, ReadEnd
  PROVE  Rest'
  <1> USE DEF KafkaInv
  <1>1. /\ Sent' = Sent /\ prod'.starts = prod.starts
        /\ prod'.status = prod.status /\ log' = log /\ prod.phase = "ends"
        /\ prod'.ends = [prod.ends EXCEPT ![prod.at] = Len(log[prod.at])]
        /\ \/ prod.at = P /\ prod'.phase = "reconcile"
           \/ prod.at # P /\ prod'.at = prod.at + 1 /\ prod'.phase = "ends"
    BY DEF ReadEnd, NextWatermark, HighWatermark, TypeOK, ProducerRun, Sent
  <1>2. prod.at \in Partitions /\ prod.ends \in Offsets /\ prod.starts \in Offsets
    BY DEF TypeOK, ProducerRun
  <1>3. /\ prod'.ends[prod.at] = Len(log[prod.at])
        /\ \A p \in Partitions : p # prod.at => prod'.ends[p] = prod.ends[p]
    BY <1>1, <1>2 DEF Offsets
  <1>4. Handed'
    BY <1>1 DEF Handed, Sent
  <1>5. Content' /\ InOrder'
    BY <1>1, LogFrame DEF Sent
  <1>6. Bounded'
    BY <1>1, <1>3, MessageTypes DEF Bounded
  <1>7. \A i : Target(i)' = Target(i)
    BY <1>1 DEF Target, Sent
  <1>8. Behind'
    BY <1>1, <1>7 DEF Behind, HeldIn, Sent
  <1>9. prod'.status = "NONE"
    BY <1>1 DEF Success, TypeOK, ProducerRun
  <1>10. \A p \in Partitions : EndRead(p)' => p = prod.at \/ EndRead(p)
    BY <1>1, <1>2, <1>9 DEF EndRead, Partitions
  <1>11. ASSUME NEW i \in prod.delivered, EndRead(Target(i))'
         PROVE  HeldIn(i, prod.starts[Target(i)], prod'.ends[Target(i)])
    <2>1. Target(i) \in Partitions /\ i \in prod.appended
      BY DeliveredTargets DEF Handed
    <2>2. CASE Target(i) = prod.at
      BY <1>3, <2>1, <2>2 DEF Behind
    <2>3. CASE Target(i) # prod.at
      <3>1. EndRead(Target(i))
        BY <1>7, <1>10, <1>11, <2>1, <2>3 DEF EndRead
      <3>2. QED
        BY <1>3, <2>1, <2>3, <3>1 DEF Enclosed
    <2>4. QED
      BY <2>2, <2>3
  <1>12. Enclosed'
    BY <1>1, <1>7, <1>11 DEF Enclosed, HeldIn, Sent, EndRead
  <1>13. Success'
    BY <1>9 DEF Success
  <1>14. QED
    BY <1>4, <1>5, <1>6, <1>8, <1>12, <1>13 DEF Rest

\* The end of the run, whatever its kind.
LEMMA EndStep ==
  ASSUME KafkaInv, Reconcile \/ Crash
  PROVE  Rest'
  <1> USE DEF KafkaInv
  <1>1. /\ Sent' = Sent /\ Marks' = Marks
        /\ prod'.lost = prod.lost /\ prod'.phase = "ended" /\ log' = log
        /\ prod.phase # "ended"
        /\ \/ prod'.status = prod.status
           \/ prod.phase = "reconcile" /\ prod'.status = "FAILED"
           \/ prod.phase = "reconcile" /\ prod'.status = "SUCCEEDED" /\ Reconciled
    BY DEF Reconcile, Crash, TypeOK, ProducerRun, Marks, Sent
  <1>2. prod.status = "NONE"
    BY <1>1 DEF Success, TypeOK, ProducerRun
  <1>3. Handed'
    BY <1>1 DEF Handed, Sent
  <1>4. Content' /\ InOrder'
    BY <1>1, LogFrame DEF Sent
  <1>5. Bounded' /\ Behind'
    BY <1>1, MarksFrame DEF Sent
  <1>6. \A p \in Partitions : EndRead(p)' => EndRead(p)
    BY <1>1, <1>2 DEF EndRead
  <1>7. Enclosed'
    BY <1>1, <1>6, DeliveredTargets, EnclosedFrame DEF Sent, Handed
  <1>8. Reconciled' <=> Reconciled
    BY <1>1 DEF Reconciled, RangeOf, Sent, Marks
  <1>9. Success'
    BY <1>1, <1>2, <1>8 DEF Success, Sent, Handed
  <1>10. QED
    BY <1>3, <1>4, <1>5, <1>7, <1>9 DEF Rest

\* A log that grows by a record keeps the others where they are.
LEMMA Growth ==
  ASSUME TypeOK, NEW p \in Partitions, NEW n \in Nat,
         log' = [log EXCEPT ![p] = Append(@, n)]
  PROVE  /\ \A q \in Partitions :
              /\ Len(log'[q]) \in Nat
              /\ Len(log'[q]) = IF q = p THEN Len(log[q]) + 1 ELSE Len(log[q])
              /\ \A k \in 1..Len(log[q]) : log'[q][k] = log[q][k]
         /\ log'[p][Len(log[p]) + 1] = n
  <1>1. log'[p] = Append(log[p], n) /\ \A q \in Partitions \ {p} : log'[q] = log[q]
    BY DEF TypeOK
  <1>2. \A q \in Partitions : log[q] \in Seq(Nat) /\ Len(log[q]) \in Nat
    BY MessageTypes
  <1>3. /\ Len(log'[p]) = Len(log[p]) + 1
        /\ \A k \in 1..Len(log[p]) : log'[p][k] = log[p][k]
        /\ log'[p][Len(log[p]) + 1] = n
    BY <1>1, <1>2
  <1>4. ASSUME NEW q \in Partitions
        PROVE  /\ Len(log'[q]) \in Nat
               /\ Len(log'[q]) = IF q = p THEN Len(log[q]) + 1 ELSE Len(log[q])
               /\ \A k \in 1..Len(log[q]) : log'[q][k] = log[q][k]
    <2>1. CASE q = p
      BY <1>2, <1>3, <2>1
    <2>2. CASE q # p
      BY <1>1, <1>2, <2>2
    <2>3. QED
      BY <2>1, <2>2
  <1>5. QED
    BY <1>3, <1>4

\* What is in a range of the log stays there when the log grows.
LEMMA GrowthFrame ==
  ASSUME KafkaInv, NEW p \in Partitions, NEW n \in Nat,
         log' = [log EXCEPT ![p] = Append(@, n)],
         prod'.artifact = prod.artifact, prod'.delivered = prod.delivered,
         Marks' = Marks, prod'.phase = prod.phase, prod'.at = prod.at,
         prod'.status = prod.status
  PROVE  /\ Bounded' /\ Enclosed'
         /\ \A i \in prod.appended :
              HeldIn(i, prod.starts[Target(i)], Len(log[Target(i)]))'
  <1> USE DEF KafkaInv
  <1>1. \A i : Target(i)' = Target(i)
    BY DEF Target
  <1>2. prod'.starts = prod.starts /\ prod'.ends = prod.ends
    BY DEF Marks
  <1>3. \A q \in Partitions : prod.starts[q] \in Nat /\ prod.ends[q] \in Nat
    BY DEF TypeOK, ProducerRun, Offsets
  <1>4. \A q \in Partitions : Len(log[q]) \in Nat
    BY MessageTypes
  <1>5. Bounded'
    BY <1>2, <1>3, <1>4, Growth DEF Bounded
  <1>6. ASSUME NEW i \in prod.appended, NEW b \in Nat, b <= Len(log[Target(i)]),
               HeldIn(i, prod.starts[Target(i)], b)
        PROVE  \E k \in (prod.starts[Target(i)] + 1)..b : log'[Target(i)][k] = i
    <2>1. Target(i) \in Partitions
      BY DeliveredTargets
    <2>2. PICK k \in (prod.starts[Target(i)] + 1)..b : log[Target(i)][k] = i
      BY <1>6 DEF HeldIn
    <2>3. k \in 1..Len(log[Target(i)])
      BY <1>3, <1>4, <1>6, <2>1
    <2>4. log'[Target(i)][k] = i
      BY <2>1, <2>2, <2>3, Growth
    <2>5. QED
      BY <2>4
  <1>7. Enclosed'
    <2>1. \A q : EndRead(q)' <=> EndRead(q)
      BY DEF EndRead
    <2>2. ASSUME NEW i \in prod.delivered, EndRead(Target(i))
          PROVE  \E k \in (prod.starts[Target(i)] + 1)..prod.ends[Target(i)] :
                   log'[Target(i)][k] = i
      <3>1. i \in prod.appended /\ Target(i) \in Partitions
        BY DeliveredTargets DEF Handed
      <3>2. HeldIn(i, prod.starts[Target(i)], prod.ends[Target(i)])
        BY <2>2 DEF Enclosed
      <3>3. QED
        BY <1>3, <1>6, <3>1, <3>2 DEF Bounded
    <2>3. ASSUME NEW i \in prod.delivered, EndRead(Target(i))'
          PROVE  HeldIn(i, prod.starts[Target(i)], prod.ends[Target(i)])'
      <3>1. EndRead(Target(i))
        BY <1>1, <2>3 DEF EndRead
      <3>2. QED
        BY <1>1, <1>2, <2>2, <3>1 DEF HeldIn
    <2>4. QED
      BY <2>3 DEF Enclosed
  <1>8. ASSUME NEW i \in prod.appended
        PROVE  HeldIn(i, prod.starts[Target(i)], Len(log[Target(i)]))'
    <2>1. Target(i) \in Partitions
      BY DeliveredTargets
    <2> DEFINE len == Len(log[Target(i)])
    <2>2. len \in Nat /\ len <= len /\ HeldIn(i, prod.starts[Target(i)], len)
      BY <1>4, <2>1 DEF Behind
    <2>3. PICK k \in (prod.starts[Target(i)] + 1)..len : log'[Target(i)][k] = i
      BY <1>6, <2>2
    <2>4. k \in (prod.starts[Target(i)] + 1)..Len(log'[Target(i)])
      BY <1>3, <1>4, <2>1, Growth
    <2>5. QED
      BY <1>1, <1>2, <2>3, <2>4 DEF HeldIn
  <1>9. QED
    BY <1>5, <1>7, <1>8

\* Another run's record.
LEMMA WriteOtherStep ==
  ASSUME KafkaInv, NEW p \in Partitions, WriteOther(p)
  PROVE  Rest'
  <1> USE DEF KafkaInv
  <1>1. prod' = prod /\ log' = [log EXCEPT ![p] = Append(@, 0)]
    BY DEF WriteOther, Other
  <1>2. \A i : Target(i)' = Target(i)
    BY <1>1 DEF Target
  <1>3. Bounded' /\ Enclosed' /\ Behind'
    BY <1>1, GrowthFrame DEF Behind, Marks
  <1>4. ASSUME NEW q \in Partitions, NEW k \in 1..Len(log'[q]), log'[q][k] # Other
        PROVE  k \in 1..Len(log[q]) /\ log'[q][k] = log[q][k]
    <2>1. Len(log[q]) \in Nat
      BY MessageTypes
    <2>2. QED
      BY <1>1, <1>4, <2>1, Growth DEF Other
  <1>5. Content'
    BY <1>1, <1>2, <1>4 DEF Content
  <1>6. InOrder'
    BY <1>1, <1>2, <1>4 DEF InOrder
  <1>7. Handed' /\ Success'
    BY <1>1 DEF Handed, Success, Reconciled, RangeOf
  <1>8. QED
    BY <1>3, <1>5, <1>6, <1>7 DEF Rest

\* The broker appends a message: behind the start watermarks, and after the
\* messages of its partition that came before it.
LEMMA StoreStep ==
  ASSUME KafkaInv, NEW i \in 1..prod.sent, Store(i)
  PROVE  Rest'
  <1> USE DEF KafkaInv
  <1>1. i \in Messages /\ i \in Nat \ {0} /\ Target(i) \in Partitions
    <2>1. prod.sent \in Nat /\ Len(prod.artifact) \in Nat
      BY MessageTypes DEF TypeOK, ProducerRun
    <2>2. i \in Messages /\ i \in Nat \ {0}
      BY <2>1 DEF Handed, Messages
    <2>3. QED
      BY <2>2, MessageTypes
  <1>2. /\ prod'.artifact = prod.artifact /\ prod'.sent = prod.sent
        /\ prod'.appended = prod.appended \union {i} /\ prod'.at = prod.at
        /\ prod'.delivered = prod.delivered /\ prod'.failed = prod.failed
        /\ prod'.lost = prod.lost /\ Marks' = Marks
        /\ prod'.status = prod.status /\ prod'.phase = prod.phase
        /\ log' = [log EXCEPT ![Target(i)] = Append(@, i)]
        /\ i \notin prod.appended
        /\ \A j \in 1..(i - 1) :
             Target(j) = Target(i) => j \in prod.appended \union prod.failed
    BY DEF Store, TypeOK, ProducerRun, Marks
  <1>3. \A j : Target(j)' = Target(j)
    BY <1>2 DEF Target
  <1>4. /\ Bounded' /\ Enclosed'
        /\ \A j \in prod.appended :
             HeldIn(j, prod.starts[Target(j)], Len(log[Target(j)]))'
    BY <1>1, <1>2, GrowthFrame
  <1>5. Behind'
    <2>1. prod.starts[Target(i)] \in Nat /\ Len(log[Target(i)]) \in Nat
      BY <1>1, MessageTypes DEF TypeOK, ProducerRun, Offsets
    <2>2. prod.starts[Target(i)] <= Len(log[Target(i)])
      BY <1>1 DEF Bounded
    <2>3. prod'.starts = prod.starts
      BY <1>2 DEF Marks
    <2>4. /\ log'[Target(i)][Len(log[Target(i)]) + 1] = i
          /\ Len(log'[Target(i)]) = Len(log[Target(i)]) + 1
      <3>1. PICK p \in Partitions : p = Target(i)
        BY <1>1
      <3>2. log' = [log EXCEPT ![p] = Append(@, i)]
        BY <1>2, <3>1
      <3>3. QED
        BY <1>1, <3>1, <3>2, Growth
    <2>5. HeldIn(i, prod.starts[Target(i)], Len(log[Target(i)]))'
      BY <1>3, <2>1, <2>2, <2>3, <2>4 DEF HeldIn
    <2>6. QED
      BY <1>2, <1>4, <2>5 DEF Behind
  <1>6. ASSUME NEW q \in Partitions, NEW k \in 1..Len(log'[q])
        PROVE  \/ k \in 1..Len(log[q]) /\ log'[q][k] = log[q][k]
               \/ q = Target(i) /\ k = Len(log[q]) + 1 /\ log'[q][k] = i
    <2>1. Len(log[q]) \in Nat
      BY MessageTypes
    <2>2. QED
      BY <1>1, <1>2, <2>1, Growth
  <1>7. Content'
    BY <1>2, <1>3, <1>6 DEF Content
  <1>8. ASSUME prod.failed = {}
        PROVE  InOrder'
    <2>1. ASSUME NEW j \in prod.appended, Target(j) = Target(i)
          PROVE  j < i
      <3>1. j \in Nat
        BY DEF TypeOK, ProducerRun
      <3>2. j # i
        BY <1>2
      <3>3. ~ (i \in 1..(j - 1))
        BY <1>2, <1>8, <2>1 DEF InOrder
      <3>4. QED
        BY <1>1, <3>1, <3>2, <3>3
    <2>2. \A j \in prod'.appended : \A l \in 1..(j - 1) :
            Target(l) = Target(j) => l \in prod'.appended
      BY <1>2, <1>8 DEF InOrder
    <2>3. ASSUME NEW q \in Partitions, NEW k \in 1..Len(log'[q]), NEW l \in 1..Len(log'[q]),
                 l < k, log'[q][l] # Other, log'[q][k] # Other
          PROVE  log'[q][l] < log'[q][k]
      <3>1. Len(log[q]) \in Nat
        BY MessageTypes
      <3>2. k \in Nat /\ l \in Nat
        BY <1>1, <1>2, Growth
      <3>3. l \in 1..Len(log[q]) /\ log'[q][l] = log[q][l]
        BY <1>6, <2>3, <3>1, <3>2
      <3>4. CASE k \in 1..Len(log[q]) /\ log'[q][k] = log[q][k]
        BY <1>8, <2>3, <3>3, <3>4 DEF InOrder
      <3>5. CASE q = Target(i) /\ log'[q][k] = i
        BY <2>1, <2>3, <3>3, <3>5 DEF Content
      <3>6. QED
        BY <1>6, <3>4, <3>5
    <2>4. QED
      BY <1>3, <2>2, <2>3 DEF InOrder
  <1>9. InOrder'
    BY <1>2, <1>8 DEF InOrder
  <1>10. Handed'
    BY <1>2 DEF Handed
  <1>11. Success'
    BY <1>2 DEF Success, Reconciled, RangeOf, Marks
  <1>12. QED
    BY <1>4, <1>5, <1>7, <1>9, <1>10, <1>11 DEF Rest

-----------------------------------------------------------------------------
(* Theorems.                                                               *)

\* Every step keeps the invariant.
LEMMA InvariantStep ==
  ASSUME KafkaInv, [Next]_vars
  PROVE  KafkaInv'
  <1>1. TypeOK'
    BY TypesStep DEF KafkaInv
  <1>. SUFFICES Rest'
    BY <1>1 DEF KafkaInv, Rest
  <1>2. CASE Publish \/ Start \/ Crash
    BY <1>2, StartStep, ReadStartStep, ProduceStep, FlushStep, ReadEndStep, EndStep
       DEF Publish
  <1>3. CASE Reports
    BY <1>3, ReportStep DEF Reports
  <1>4. CASE \E i \in 1..prod.sent : Store(i)
    BY <1>4, StoreStep
  <1>5. CASE \E p \in Partitions : WriteOther(p)
    BY <1>5, WriteOtherStep
  <1>6. CASE \/ Diagnose \/ Refuse \/ Judge \/ GiveUp \/ UNCHANGED vars
             \/ \E p \in Partitions : Poll(p) \/ Retain(p)
    <2>1. log' = log /\ prod' = prod
      BY <1>6 DEF Diagnose, Refuse, Judge, GiveUp, Poll, Retain, vars
    <2>2. QED
      BY <2>1, QuietStep DEF Rest
  <1>7. QED
    BY <1>2, <1>3, <1>4, <1>5, <1>6 DEF Next

LEMMA InvariantInit ==
  ASSUME Init
  PROVE  KafkaInv
  <1> USE DEF Init, NotStarted
  <1>1. 1 \in Partitions /\ NoOffsets \in Offsets
    BY KafkaAssumption DEF Partitions, NoOffsets, Offsets
  <1>2. log \in [Partitions -> Seq(Nat)] /\ \A p \in Partitions : Len(log[p]) = 0
    OBVIOUS
  <1>3. TypeOK
    BY <1>1, <1>2 DEF TypeOK, ProducerRun, DiagnosticRun
  <1>4. Handed
    BY DEF Handed
  <1>5. Bounded /\ Content /\ InOrder
    BY <1>2 DEF Bounded, Content, InOrder, NoOffsets
  <1>6. Behind /\ Enclosed /\ Success
    BY DEF Behind, Enclosed, Success
  <1>7. QED
    BY <1>3, <1>4, <1>5, <1>6 DEF KafkaInv

\* The inductive invariant holds: what is reported is in the log, behind the
\* start watermarks and before the end watermarks.
THEOREM KafkaInvariant == Spec => []KafkaInv
  BY InvariantInit, InvariantStep, PTL DEF Spec

\* The topic, the producer run and the diagnostic run keep their types.
THEOREM TypesAreKept == Spec => []TypeOK
  <1>1. KafkaInv => TypeOK
    BY DEF KafkaInv
  <1>2. QED
    BY <1>1, KafkaInvariant, PTL

\* There are finitely many offsets in the recorded ranges.
LEMMA RangesAreFinite ==
  ASSUME TypeOK
  PROVE  IsFiniteSet(RangeOf)
  <1> DEFINE range == [p \in Partitions |-> {p} \X (prod.starts[p] .. (prod.ends[p] - 1))]
             ranges == {range[p] : p \in Partitions}
  <1>1. IsFiniteSet(Partitions)
    BY FS_Interval, KafkaAssumption DEF Partitions
  <1>2. range \in Surjection(Partitions, ranges)
    BY DEF Surjection
  <1>3. IsFiniteSet(ranges)
    <2> HIDE DEF range, ranges
    <2>1. QED
      BY <1>1, <1>2, FS_Surjection
  <1>4. ASSUME NEW p \in Partitions
        PROVE  IsFiniteSet(range[p])
    <2>1. prod.starts[p] \in Int /\ prod.ends[p] - 1 \in Int
      BY DEF TypeOK, ProducerRun, Offsets
    <2>2. IsFiniteSet({p}) /\ IsFiniteSet(prod.starts[p] .. (prod.ends[p] - 1))
      BY <2>1, FS_Singleton, FS_Interval
    <2>3. QED
      BY <2>2, FS_Product
  <1>5. IsFiniteSet(UNION ranges)
    <2> HIDE DEF range
    <2>1. QED
      BY <1>3, <1>4, FS_UNION
  <1>6. RangeOf = UNION ranges
    BY DEF RangeOf
  <1>7. QED
    BY <1>5, <1>6

\* A reconciled run has been delivered completely.
LEMMA AllDelivered ==
  ASSUME KafkaInv, prod.status = "SUCCEEDED"
  PROVE  prod.delivered = Messages /\ prod.failed = {}
         /\ Cardinality(RangeOf) = Cardinality(Messages)
  <1>1. prod.sent = Len(prod.artifact) /\ Reconciled
    BY DEF KafkaInv, Success
  <1>2. prod.delivered \subseteq Messages
    BY DeliveredTargets DEF KafkaInv
  <1>3. IsFiniteSet(Messages) /\ Cardinality(Messages) = Len(prod.artifact)
    BY MessageTypes, FS_Interval DEF KafkaInv, Messages
  <1>4. Cardinality(Messages) = Cardinality(prod.delivered)
    BY <1>1, <1>3 DEF Reconciled
  <1>5. prod.delivered = Messages
    BY <1>2, <1>3, <1>4, FS_Subset
  <1>6. QED
    BY <1>1, <1>5 DEF Reconciled

\* Each message has a place in the range, and there are as many messages as
\* places: nothing else is there.
LEMMA RangesHoldArtifact ==
  ASSUME KafkaInv, prod.status = "SUCCEEDED"
  PROVE  /\ \A i \in Messages : \E k \in Places(Target(i)) : log[Target(i)][k] = i
         /\ \A p \in Partitions : \A k \in Places(p) :
              log[p][k] \in Messages /\ Target(log[p][k]) = p
  <1> USE DEF KafkaInv
  <1>1. \A p \in Partitions : prod.starts[p] \in Nat /\ prod.ends[p] \in Nat
    BY DEF TypeOK, ProducerRun, Offsets
  <1>2. \A i \in Messages : \E k \in Places(Target(i)) : log[Target(i)][k] = i
    BY AllDelivered DEF Enclosed, EndRead, HeldIn, Places
  <1>3. \A po : po \in RangeOf <=>
          \E p \in Partitions : \E n \in prod.starts[p] .. (prod.ends[p] - 1) : po = <<p, n>>
    BY DEF RangeOf
  <1>4. ASSUME NEW i \in Messages
        PROVE  \E po \in RangeOf : po[1] = Target(i) /\ RecordAt(po) = i
    <2>1. Target(i) \in Partitions
      BY MessageTypes
    <2>2. PICK k \in Places(Target(i)) : log[Target(i)][k] = i
      BY <1>2
    <2>3. k - 1 \in prod.starts[Target(i)] .. (prod.ends[Target(i)] - 1) /\ (k - 1) + 1 = k
      BY <1>1, <2>1 DEF Places
    <2>4. <<Target(i), k - 1>> \in RangeOf
      BY <1>3, <2>1, <2>3
    <2>5. RecordAt(<<Target(i), k - 1>>) = i
      BY <2>2, <2>3 DEF RecordAt
    <2>6. QED
      BY <2>4, <2>5
  <1> DEFINE place == [i \in Messages |->
               CHOOSE po \in RangeOf : po[1] = Target(i) /\ RecordAt(po) = i]
  <1>5. \A i \in Messages : /\ place[i] \in RangeOf /\ RecordAt(place[i]) = i
                           /\ place[i][1] = Target(i)
    BY <1>4
  <1>6. place \in Injection(Messages, RangeOf)
    <2>1. place \in [Messages -> RangeOf]
      BY <1>5
    <2>2. \A i, j \in Messages : place[i] = place[j] => i = j
      BY <1>5
    <2> HIDE DEF place
    <2>3. QED
      BY <2>1, <2>2 DEF Injection, IsInjective
  <1>7. place \in Surjection(Messages, RangeOf)
    <2> HIDE DEF place
    <2>1. QED
      BY <1>6, RangesAreFinite, AllDelivered, FS_Injection
  <1>8. ASSUME NEW p \in Partitions, NEW k \in Places(p)
        PROVE  log[p][k] \in Messages /\ Target(log[p][k]) = p
    <2> HIDE DEF place
    <2>1. k - 1 \in prod.starts[p] .. (prod.ends[p] - 1) /\ (k - 1) + 1 = k
      BY <1>1 DEF Places
    <2>2. <<p, k - 1>> \in RangeOf
      BY <1>3, <2>1
    <2>3. PICK i \in Messages : place[i] = <<p, k - 1>>
      BY <1>7, <2>2 DEF Surjection
    <2>4. RecordAt(<<p, k - 1>>) = log[p][k]
      BY <2>1 DEF RecordAt
    <2>5. QED
      BY <1>5, <2>3, <2>4
  <1>9. QED
    BY <1>2, <1>8

\* The ranges of a successful manifest hold the artifact, in order and alone.
THEOREM RangesAreArtifacts == Spec => []RangeIsArtifact
  <1>1. ASSUME KafkaInv
        PROVE  RangeIsArtifact
    <2>1. SUFFICES ASSUME prod.status = "SUCCEEDED",
                          NEW p \in Partitions, NEW k \in Places(p), NEW l \in Places(p), l < k
                   PROVE  log[p][l] < log[p][k]
      BY <1>1, RangesHoldArtifact DEF RangeIsArtifact
    <2>2. k \in 1..Len(log[p]) /\ l \in 1..Len(log[p])
      <3>1. prod.starts[p] \in Nat /\ prod.ends[p] \in Nat
        BY <1>1 DEF KafkaInv, TypeOK, ProducerRun, Offsets
      <3>2. Len(log[p]) \in Nat
        BY <1>1, MessageTypes DEF KafkaInv
      <3>3. QED
        BY <1>1, <3>1, <3>2 DEF Places, KafkaInv, Bounded
    <2>3. log[p][k] # Other /\ log[p][l] # Other
      BY <1>1, <2>1, RangesHoldArtifact DEF Messages, Other
    <2>4. QED
      BY <1>1, <2>1, <2>2, <2>3, AllDelivered DEF KafkaInv, InOrder
  <1>2. QED
    BY <1>1, KafkaInvariant, PTL

-----------------------------------------------------------------------------
(* Failures.                                                               *)

\* The broker has a message at most once.
Single ==
  \A p \in Partitions : \A k, l \in 1..Len(log[p]) :
    log[p][k] # Other /\ log[p][k] = log[p][l] => k = l

\* After a flush without a remainder every message has its report.
Decided ==
  prod.phase \in {"ends", "reconcile"} /\ ~ prod.lost => Outstanding = {}

CauseInv == Single /\ Decided /\ FailureHasCause

\* What is in the recorded ranges is in the log.
LEMMA RangeInLog ==
  ASSUME KafkaInv, NEW po \in RangeOf
  PROVE  /\ po[1] \in Partitions /\ po[2] \in Nat /\ po = <<po[1], po[2]>>
         /\ po[2] + 1 \in 1..Len(log[po[1]])
         /\ po[2] \in prod.starts[po[1]] .. (prod.ends[po[1]] - 1)
  <1>1. PICK p \in Partitions : po \in {p} \X (prod.starts[p] .. (prod.ends[p] - 1))
    BY DEF RangeOf
  <1>2. po[1] = p /\ po[2] \in prod.starts[p] .. (prod.ends[p] - 1) /\ po = <<po[1], po[2]>>
    BY <1>1
  <1>3. prod.starts[p] \in Nat /\ prod.ends[p] \in Nat /\ Len(log[p]) \in Nat
    BY MessageTypes DEF KafkaInv, TypeOK, ProducerRun, Offsets
  <1>4. prod.ends[p] <= Len(log[p])
    BY DEF KafkaInv, Bounded
  <1>5. QED
    BY <1>1, <1>2, <1>3, <1>4

\* A run without lost and failed messages, and without foreign records in its
\* ranges, reconciles: places and messages are one to one.
LEMMA OwnRangesReconcile ==
  ASSUME KafkaInv, Single, Decided, prod.phase = "reconcile",
         ~ prod.lost, prod.failed = {}, \A po \in RangeOf : RecordAt(po) # Other
  PROVE  Reconciled
  <1> USE DEF KafkaInv
  <1>1. prod.delivered = Messages /\ prod.sent = Len(prod.artifact)
    <2>1. prod.sent = Len(prod.artifact) /\ prod.delivered \subseteq 1..prod.sent
      BY DEF Handed
    <2>2. Outstanding = {}
      BY DEF Decided
    <2>3. QED
      BY <2>1, <2>2 DEF Outstanding, Messages
  <1> DEFINE record == [po \in RangeOf |-> RecordAt(po)]
  <1>2. ASSUME NEW po \in RangeOf
        PROVE  RecordAt(po) \in Messages /\ Target(RecordAt(po)) = po[1]
    <2>1. RecordAt(po) \in prod.appended /\ Target(RecordAt(po)) = po[1]
      BY RangeInLog DEF RecordAt, Content
    <2>2. QED
      BY <2>1, DeliveredTargets
  <1>3. ASSUME NEW po \in RangeOf, NEW qo \in RangeOf, RecordAt(po) = RecordAt(qo)
        PROVE  po = qo
    <2>1. po[1] = qo[1]
      BY <1>2, <1>3
    <2>2. po[2] + 1 = qo[2] + 1
      BY <1>3, <2>1, RangeInLog DEF RecordAt, Single
    <2>3. QED
      BY <2>1, <2>2, RangeInLog
  <1>4. ASSUME NEW i \in Messages
        PROVE  \E po \in RangeOf : RecordAt(po) = i
    <2>1. Target(i) \in Partitions
      BY MessageTypes
    <2>2. PICK k \in (prod.starts[Target(i)] + 1)..prod.ends[Target(i)] : log[Target(i)][k] = i
      BY <1>1 DEF Enclosed, EndRead, HeldIn
    <2>3. prod.starts[Target(i)] \in Nat /\ prod.ends[Target(i)] \in Nat
      BY <2>1 DEF TypeOK, ProducerRun, Offsets
    <2>4. k - 1 \in prod.starts[Target(i)] .. (prod.ends[Target(i)] - 1) /\ (k - 1) + 1 = k
      BY <2>3
    <2>5. <<Target(i), k - 1>> \in RangeOf
      BY <2>1, <2>4 DEF RangeOf
    <2>6. RecordAt(<<Target(i), k - 1>>) = i
      BY <2>2, <2>4 DEF RecordAt
    <2>7. QED
      BY <2>5, <2>6
  <1>5. record \in Surjection(RangeOf, Messages) /\ record \in Injection(RangeOf, Messages)
    <2>1. record \in [RangeOf -> Messages] /\ \A po \in RangeOf : record[po] = RecordAt(po)
      BY <1>2
    <2> HIDE DEF record
    <2>2. QED
      BY <1>3, <1>4, <2>1 DEF Injection, IsInjective, Surjection
  <1>6. Cardinality(Messages) = Cardinality(RangeOf)
    <2> HIDE DEF record
    <2>1. QED
      BY <1>5, RangesAreFinite, FS_Surjection
  <1>7. Cardinality(Messages) = Len(prod.artifact)
    BY MessageTypes, FS_Interval DEF Messages
  <1>8. QED
    BY <1>1, <1>6, <1>7 DEF Reconciled

\* Only another run's record or a message that is not there yet is appended.
LEMMA SingleStep ==
  ASSUME KafkaInv, Single, [Next]_vars
  PROVE  Single'
  <1> USE DEF KafkaInv
  <1>1. CASE log' = log
    BY <1>1 DEF Single
  <1>2. ASSUME NEW p \in Partitions, NEW n \in Nat,
               log' = [log EXCEPT ![p] = Append(@, n)],
               n = Other \/ n \notin prod.appended
        PROVE  Single'
    <2> SUFFICES ASSUME NEW q \in Partitions,
                        NEW k \in 1..Len(log'[q]), NEW l \in 1..Len(log'[q]),
                        log'[q][k] # Other, log'[q][k] = log'[q][l]
                 PROVE  k = l
      BY DEF Single
    <2>1. Len(log[q]) \in Nat
      BY MessageTypes
    <2>2. \A m \in 1..Len(log'[q]) :
            \/ m \in 1..Len(log[q]) /\ log'[q][m] = log[q][m]
            \/ q = p /\ m = Len(log[q]) + 1 /\ log'[q][m] = n
      BY <1>2, <2>1, Growth
    <2>3. \A m \in 1..Len(log[q]) : log[q][m] # Other => log[q][m] \in prod.appended
      BY DEF Content
    <2>4. QED
      BY <1>2, <2>2, <2>3 DEF Single
  <1>3. ASSUME NEW i \in 1..prod.sent, Store(i)
        PROVE  Single'
    <2>1. prod.sent \in Nat /\ Len(prod.artifact) \in Nat
      BY MessageTypes DEF TypeOK, ProducerRun
    <2>2. i \in Messages /\ i \in Nat
      BY <2>1 DEF Handed, Messages
    <2>3. PICK p \in Partitions : p = Target(i)
      BY <2>2, MessageTypes
    <2>4. log' = [log EXCEPT ![p] = Append(@, i)] /\ i \notin prod.appended
      BY <1>3, <2>3 DEF Store
    <2>5. QED
      BY <1>2, <2>2, <2>4
  <1>4. ASSUME NEW p \in Partitions, WriteOther(p)
        PROVE  Single'
    BY <1>2, <1>4 DEF WriteOther, Other
  <1>5. \/ log' = log
        \/ \E i \in 1..prod.sent : Store(i)
        \/ \E p \in Partitions : WriteOther(p)
    BY DEF Next, vars, Start, Publish, ReadStart, Produce, Flush, ReadEnd, Reconcile,
           Reports, Deliver, Expire, Crash, Diagnose, Refuse, Judge, GiveUp, Poll, Retain
  <1>6. QED
    BY <1>1, <1>3, <1>4, <1>5

\* flush() counts what has no report; nothing is sent or reported after it.
LEMMA DecidedStep ==
  ASSUME KafkaInv, Decided, [Next]_vars
  PROVE  Decided'
  <1> USE DEF KafkaInv, Decided
  <1>1. CASE Flush
    <2>1. prod'.lost = (Outstanding # {}) /\ Sent' = Sent
      BY <1>1 DEF Flush, TypeOK, ProducerRun, Sent
    <2>2. Outstanding' = Outstanding
      BY <2>1 DEF Outstanding, Sent
    <2>3. QED
      BY <2>1, <2>2
  <1>2. CASE ReadEnd \/ \E i \in 1..prod.sent : Store(i)
    <2>1. /\ prod'.sent = prod.sent /\ prod'.delivered = prod.delivered
          /\ prod'.failed = prod.failed /\ prod'.lost = prod.lost
          /\ prod'.phase \in {"ends", "reconcile"} => prod.phase \in {"ends", "reconcile"}
      BY <1>2 DEF ReadEnd, NextWatermark, Store, TypeOK, ProducerRun
    <2>2. Outstanding' = Outstanding
      BY <2>1 DEF Outstanding
    <2>3. QED
      BY <2>1, <2>2
  <1>3. CASE Start \/ ReadStart \/ Produce \/ Reconcile \/ Reports \/ Crash
    <2>1. prod'.phase \notin {"ends", "reconcile"}
      BY <1>3 DEF Start, ReadStart, NextWatermark, Produce, Reconcile, Reports, Deliver,
                  Expire, Polling, Crash, TypeOK, ProducerRun
    <2>2. QED
      BY <2>1
  <1>4. CASE prod' = prod
    BY <1>4 DEF Outstanding
  <1>5. QED
    BY <1>1, <1>2, <1>3, <1>4
       DEF Next, Publish, Diagnose, Refuse, Judge, GiveUp, Poll, WriteOther, Retain, vars

\* After the run has ended only the broker still changes it.
LEMMA EndedStep ==
  ASSUME KafkaInv, prod.status # "NONE", [Next]_vars
  PROVE  /\ prod'.status = prod.status /\ prod'.artifact = prod.artifact
         /\ prod'.starts = prod.starts /\ prod'.ends = prod.ends
         /\ prod'.lost = prod.lost /\ prod'.failed = prod.failed
         /\ prod'.delivered = prod.delivered
         /\ RangeOf' = RangeOf
         /\ \A po \in RangeOf : RecordAt(po)' = RecordAt(po)
  <1> USE DEF KafkaInv
  <1>1. prod.phase = "ended"
    BY DEF Success
  <1>2. prod' = prod \/ \E i \in 1..prod.sent : Store(i)
    BY <1>1 DEF Next, vars, Start, Publish, ReadStart, Produce, Flush, ReadEnd, Reconcile,
                Reports, Deliver, Expire, Polling, Crash, Diagnose, Refuse, Judge, GiveUp,
                Poll, WriteOther, Retain
  <1>3. /\ prod'.status = prod.status /\ prod'.artifact = prod.artifact
        /\ prod'.starts = prod.starts /\ prod'.ends = prod.ends
        /\ prod'.lost = prod.lost /\ prod'.failed = prod.failed
        /\ prod'.delivered = prod.delivered
    BY <1>2 DEF Store, TypeOK, ProducerRun
  <1>4. RangeOf' = RangeOf
    BY <1>3 DEF RangeOf
  <1>5. ASSUME NEW po \in RangeOf
        PROVE  RecordAt(po)' = RecordAt(po)
    <2>1. po[1] \in Partitions /\ po[2] + 1 \in 1..Len(log[po[1]])
      BY RangeInLog
    <2>2. CASE log' = log
      BY <2>2 DEF RecordAt
    <2>3. ASSUME NEW p \in Partitions, NEW n \in Nat, log' = [log EXCEPT ![p] = Append(@, n)]
          PROVE  log'[po[1]][po[2] + 1] = log[po[1]][po[2] + 1]
      BY <2>1, <2>3, Growth
    <2>4. log' = log \/ \E p \in Partitions, n \in Nat : log' = [log EXCEPT ![p] = Append(@, n)]
      <3>1. CASE \E i \in 1..prod.sent : Store(i)
        <4>1. PICK i \in 1..prod.sent : Store(i)
          BY <3>1
        <4>2. prod.sent \in Nat /\ Len(prod.artifact) \in Nat
          BY MessageTypes DEF TypeOK, ProducerRun
        <4>3. i \in Messages /\ i \in Nat /\ Target(i) \in Partitions
          BY <4>2, MessageTypes DEF Handed, Messages
        <4>4. QED
          BY <4>1, <4>3 DEF Store
      <3>2. CASE \E p \in Partitions : WriteOther(p)
        BY <3>2 DEF WriteOther, Other
      <3>3. QED
        BY <3>1, <3>2
           DEF Next, vars, Start, Publish, ReadStart, Produce, Flush, ReadEnd, Reconcile,
               Reports, Deliver, Expire, Crash, Diagnose, Refuse, Judge, GiveUp, Poll, Retain
    <2>5. QED
      BY <2>2, <2>3, <2>4 DEF RecordAt
  <1>6. QED
    BY <1>3, <1>4, <1>5

LEMMA CauseStep ==
  ASSUME KafkaInv, CauseInv, [Next]_vars
  PROVE  CauseInv'
  <1> USE DEF KafkaInv, CauseInv
  <1>1. CASE prod.status # "NONE"
    BY <1>1, EndedStep, SingleStep, DecidedStep DEF FailureHasCause
  <1>2. CASE Reconcile /\ prod.status = "NONE"
    <2>1. /\ prod'.lost = prod.lost /\ prod'.failed = prod.failed /\ Marks' = Marks
          /\ prod.phase = "reconcile" /\ log' = log
          /\ prod'.status = "FAILED" => ~ Reconciled
      BY <1>2 DEF Reconcile, TypeOK, ProducerRun, Marks
    <2>2. RangeOf' = RangeOf /\ \A po : RecordAt(po)' = RecordAt(po)
      BY <2>1 DEF RangeOf, RecordAt, Marks
    <2>3. FailureHasCause'
      BY <2>1, <2>2, OwnRangesReconcile DEF FailureHasCause
    <2>4. QED
      BY <2>3, SingleStep, DecidedStep
  <1>3. CASE ~ Reconcile /\ prod.status = "NONE"
    <2>1. prod'.status = "NONE"
      BY <1>3 DEF Next, vars, Start, Publish, ReadStart, NextWatermark, Produce, Flush, ReadEnd,
                  Reports, Deliver, Expire, Crash, Store, Diagnose, Refuse, Judge, GiveUp,
                  Poll, WriteOther, Retain, TypeOK, ProducerRun
    <2>2. QED
      BY <2>1, SingleStep, DecidedStep DEF FailureHasCause
  <1>4. QED
    BY <1>1, <1>2, <1>3

\* A run fails for a reason: a report failed or is missing, or another run wrote
\* into its ranges (producer.py:125-169).
THEOREM FailuresHaveCauses == Spec => []FailureHasCause
  <1>1. ASSUME Init
        PROVE  CauseInv
    <2>1. \A p \in Partitions : Len(log[p]) = 0
      BY <1>1 DEF Init
    <2>2. QED
      BY <1>1, <2>1 DEF Init, NotStarted, CauseInv, Single, Decided, FailureHasCause
  <1>2. CauseInv => FailureHasCause
    BY DEF CauseInv
  <1>3. QED
    BY <1>1, <1>2, CauseStep, KafkaInvariant, PTL DEF Spec

-----------------------------------------------------------------------------
(* Diagnoses.                                                              *)

\* A diagnostic run is about a successful run, counts offsets of its ranges, and
\* has judged the artifact.
DiagnosisInv ==
  /\ diag.phase \in {"reading", "SUCCEEDED", "FAILED"} => prod.status = "SUCCEEDED"
  /\ diag.phase = "reading" => diag.seen \subseteq RangeOf
  /\ DiagnosisIsExact

\* Whoever has counted as many offsets of the ranges as there are messages has
\* seen the artifact.
LEMMA SeesArtifact ==
  ASSUME KafkaInv, prod.status = "SUCCEEDED", diag.seen \subseteq RangeOf,
         Consumed >= Expected
  PROVE  /\ Consumed = Len(prod.artifact) /\ Expected = Len(prod.artifact)
         /\ SeenMessages = {prod.artifact[i] : i \in Messages}
  <1> USE DEF KafkaInv
  <1>1. Cardinality(Messages) = Len(prod.artifact) /\ Len(prod.artifact) \in Nat
    BY MessageTypes, FS_Interval DEF Messages
  <1>2. Expected = Len(prod.artifact) /\ Cardinality(RangeOf) = Len(prod.artifact)
    BY <1>1, AllDelivered DEF Expected
  <1>3. diag.seen = RangeOf /\ Consumed = Len(prod.artifact)
    <2>1. Consumed \in Nat /\ Consumed <= Cardinality(RangeOf)
      BY RangesAreFinite, FS_Subset, FS_CardinalityType DEF Consumed
    <2>2. Consumed = Cardinality(RangeOf)
      BY <1>1, <1>2, <2>1
    <2>3. QED
      BY <1>2, <2>2, RangesAreFinite, FS_Subset DEF Consumed
  <1>4. ASSUME NEW po \in RangeOf
        PROVE  RecordAt(po) \in Messages /\ po \notin Others
    <2>1. po[2] + 1 \in Places(po[1]) /\ po[1] \in Partitions
      <3>1. prod.starts[po[1]] \in Nat /\ prod.ends[po[1]] \in Nat
        BY RangeInLog DEF TypeOK, ProducerRun, Offsets
      <3>2. QED
        BY <3>1, RangeInLog DEF Places
    <2>2. RecordAt(po) \in Messages
      BY <2>1, RangesHoldArtifact DEF RecordAt
    <2>3. QED
      BY <2>2 DEF Others, Other, Messages
  <1>5. ASSUME NEW i \in Messages
        PROVE  \E po \in RangeOf : RecordAt(po) = i
    <2>1. Target(i) \in Partitions
      BY MessageTypes
    <2>2. PICK k \in Places(Target(i)) : log[Target(i)][k] = i
      BY RangesHoldArtifact
    <2>3. prod.starts[Target(i)] \in Nat /\ prod.ends[Target(i)] \in Nat
      BY <2>1 DEF TypeOK, ProducerRun, Offsets
    <2>4. k - 1 \in prod.starts[Target(i)] .. (prod.ends[Target(i)] - 1) /\ (k - 1) + 1 = k
      BY <2>3 DEF Places
    <2>5. <<Target(i), k - 1>> \in RangeOf /\ RecordAt(<<Target(i), k - 1>>) = i
      BY <2>1, <2>2, <2>4 DEF RangeOf, RecordAt
    <2>6. QED
      BY <2>5
  <1>6. SeenMessages = {prod.artifact[RecordAt(po)] : po \in RangeOf}
    BY <1>3, <1>4 DEF SeenMessages
  <1>7. {prod.artifact[RecordAt(po)] : po \in RangeOf} = {prod.artifact[i] : i \in Messages}
    BY <1>4, <1>5
  <1>8. QED
    BY <1>2, <1>3, <1>6, <1>7

\* Counting distinct ids tells whether the ids are distinct.
LEMMA IdsCount ==
  ASSUME TypeOK
  PROVE  Cardinality({prod.artifact[i].id : i \in Messages}) = Len(prod.artifact)
           <=> \A i, j \in Messages : prod.artifact[i].id = prod.artifact[j].id => i = j
  <1> DEFINE ids == {prod.artifact[i].id : i \in Messages}
             id  == [i \in Messages |-> prod.artifact[i].id]
  <1>1. IsFiniteSet(Messages) /\ Cardinality(Messages) = Len(prod.artifact)
    BY MessageTypes, FS_Interval DEF Messages
  <1>2. id \in Surjection(Messages, ids)
    BY DEF Surjection
  <1>3. Cardinality(ids) = Cardinality(Messages) <=> id \in Injection(Messages, ids)
    <2> HIDE DEF ids, id
    <2>1. QED
      BY <1>1, <1>2, FS_Surjection
  <1>4. id \in Injection(Messages, ids)
          <=> \A i, j \in Messages : prod.artifact[i].id = prod.artifact[j].id => i = j
    <2>1. id \in [Messages -> ids] /\ \A i \in Messages : id[i] = prod.artifact[i].id
      OBVIOUS
    <2> HIDE DEF ids, id
    <2>2. QED
      BY <2>1 DEF Injection, IsInjective
  <1>5. QED
    BY <1>1, <1>3, <1>4

\* The checks pass for a sound replay and for no other artifact.
LEMMA ChecksAreExact ==
  ASSUME KafkaInv, prod.status = "SUCCEEDED", diag.seen \subseteq RangeOf,
         Consumed >= Expected
  PROVE  ChecksPass <=> SoundReplay(prod.artifact)
  <1> DEFINE a == prod.artifact
  <1>1. Len(a) \in Nat
    BY MessageTypes DEF KafkaInv
  <1>2. /\ {m.id : m \in SeenMessages} = {a[i].id : i \in Messages}
        /\ {m.seq : m \in SeenMessages} = {a[i].seq : i \in Messages}
    <2>1. SeenMessages = {a[i] : i \in Messages}
      BY SeesArtifact
    <2>2. QED
      BY <2>1
  <1>3. Consumed = Len(a) /\ Expected = Len(a)
    BY SeesArtifact
  <1>4. Cardinality({a[i].id : i \in Messages}) = Len(a)
          <=> \A i, j \in Messages : a[i].id = a[j].id => i = j
    BY IdsCount DEF KafkaInv
  <1>5. QED
    BY <1>1, <1>2, <1>3, <1>4 DEF ChecksPass, SoundReplay, Messages

LEMMA DiagnosisStep ==
  ASSUME KafkaInv, DiagnosisInv, [Next]_vars
  PROVE  DiagnosisInv'
  <1> USE DEF DiagnosisInv, DiagnosisIsExact
  <1>1. CASE Diagnose
    BY <1>1 DEF Diagnose
  <1>2. CASE Refuse
    <2>1. diag'.phase = "raised"
      BY <1>2 DEF Refuse, KafkaInv, TypeOK, DiagnosticRun
    <2>2. QED
      BY <2>1
  <1>3. CASE Judge
    <2>1. /\ prod' = prod /\ prod.status = "SUCCEEDED" /\ diag.phase = "reading"
          /\ diag'.phase = IF ChecksPass THEN "SUCCEEDED" ELSE "FAILED"
      BY <1>3 DEF Judge, KafkaInv, TypeOK, DiagnosticRun
    <2>2. ChecksPass <=> SoundReplay(prod.artifact)
      BY <1>3, <2>1, ChecksAreExact DEF Judge
    <2>3. QED
      BY <2>1, <2>2
  <1>4. CASE GiveUp
    <2>1. diag'.phase = "raised"
      BY <1>4 DEF GiveUp, KafkaInv, TypeOK, DiagnosticRun
    <2>2. QED
      BY <2>1
  <1>5. ASSUME NEW p \in Partitions, Poll(p)
        PROVE  DiagnosisInv'
    <2>1. diag.next[p] \in Nat /\ diag.phase = "reading" /\ prod' = prod
      BY <1>5 DEF Poll, KafkaInv, TypeOK, DiagnosticRun, Offsets
    <2>2. CASE diag'.phase = "raised"
      BY <2>2
    <2>3. CASE /\ diag'.phase = "reading"
               /\ diag'.seen = IF InRange(p) THEN diag.seen \union {<<p, diag.next[p]>>}
                                             ELSE diag.seen
      <3>1. RangeOf' = RangeOf
        BY <2>1 DEF RangeOf
      <3>2. InRange(p) => <<p, diag.next[p]>> \in RangeOf
        <4>1. prod.starts[p] \in Nat /\ prod.ends[p] \in Nat
          BY DEF KafkaInv, TypeOK, ProducerRun, Offsets
        <4>2. InRange(p) => diag.next[p] \in prod.starts[p] .. (prod.ends[p] - 1)
          BY <2>1, <4>1 DEF InRange
        <4>3. QED
          BY <4>2 DEF RangeOf
      <3>3. QED
        BY <2>1, <2>3, <3>1, <3>2
    <2>4. QED
      BY <1>5, <2>1, <2>2, <2>3 DEF Poll, KafkaInv, TypeOK, DiagnosticRun
  <1>6. CASE diag' = diag
    <2>1. CASE prod.status = "SUCCEEDED"
      BY <1>6, <2>1, EndedStep
    <2>2. CASE prod.status # "SUCCEEDED"
      BY <1>6, <2>2
    <2>3. QED
      BY <2>1, <2>2
  <1>7. QED
    BY <1>1, <1>2, <1>3, <1>4, <1>5, <1>6
       DEF Next, vars, Start, Publish, ReadStart, Produce, Flush, ReadEnd, Reconcile,
           Reports, Deliver, Expire, Crash, Store, WriteOther, Retain

\* A verdict is about the artifact of the run diagnosed, and nothing else
\* (consumer.py:33-163).
THEOREM DiagnosesAreExact == Spec => []DiagnosisIsExact
  <1>1. Init => DiagnosisInv
    BY DEF Init, DiagnosisInv, DiagnosisIsExact
  <1>2. DiagnosisInv => DiagnosisIsExact
    BY DEF DiagnosisInv
  <1>3. QED
    BY <1>1, <1>2, DiagnosisStep, KafkaInvariant, PTL DEF Spec
=============================================================================
