------------------------ MODULE FailureRouterProofs ------------------------
(***************************************************************************)
(* Theorems about FailureRouter, for every number of partitions, every set *)
(* of sources, every queue, any number of attempts and of foreign          *)
(* envelopes.                                                              *)
(***************************************************************************)
EXTENDS FailureRouter, TLAPS, FiniteSetTheorems

-----------------------------------------------------------------------------
(* The inductive invariant.                                                *)

\* The sets the fields of a run are from.
Phases    == {"idle", "starts", "route", "ends", "verify", "reconcile", "ended"}
Statuses  == {"NONE", "SUCCEEDED", "FAILED"}
Ranges    == [1..P -> Seq(Message)]
Progress  == [1..P -> Nat]
Work      == [src : Coordinates, attempts : Nat, routed : BOOLEAN]
Works     == Seq(Work)
Handover   == [src : Coordinates, attempts : Nat]
Sent      == Seq(Handover)
Numbers   == SUBSET Nat
Offsets   == [Cells -> Nat]
Places    == 1..(2 * Q)
Seen      == SUBSET (Cells \X Nat)
Passed    == SUBSET Coordinates
Verified  == SUBSET {"REJECTED", "DLQ"}

\* The fields of a run.
Run ==
  [phase : Phases, status : Statuses, source : Ranges, at : Places, next : Progress,
   work : Works, passed : Passed, sent : Sent, appended : Numbers,
   delivered : Numbers, failed : Numbers, lost : BOOLEAN, starts : Offsets,
   ends : Offsets, seen : Seen, verified : Verified]

\* The state has the shape the actions rely on.
RunType ==
  /\ out \in [Cells -> Seq(Envelope)]
  /\ router \in Run
  /\ IsFiniteSet(router.seen)
  /\ router.phase = "verify" => router.at <= 2

\* Why a message is routed, after how many attempts.
Outcome(src, attempts) ==
  \/ MessageAt(src).class = "invalid" /\ attempts = 0
  \/ MessageAt(src).class = "fault" /\ attempts = MaxAttempts

InHand == {router.work[k].src : k \in DOMAIN router.work}
Routed == {router.sent[i].src : i \in DOMAIN router.sent}
\* A consumed message has passed, is in hand, or has been handed over: one of the three,
\* and handed over once.
Worked ==
  /\ \A p \in 1..P : router.next[p] <= Len(router.source[p])
  /\ Len(router.work) <= 1
  /\ Consumed = router.passed \union InHand \union Routed
  /\ router.passed \intersect InHand = {}
  /\ Routed \intersect (router.passed \union InHand) = {}
  /\ \A k \in DOMAIN router.work :
       IF router.work[k].routed
       THEN Outcome(router.work[k].src, router.work[k].attempts)
       ELSE /\ MessageAt(router.work[k].src).class # "invalid"
            /\ router.work[k].attempts < MaxAttempts
  /\ \A s \in router.passed : MessageAt(s).class = "valid"
  /\ \A i \in DOMAIN router.sent : Outcome(router.sent[i].src, router.sent[i].attempts)
  /\ \A i, j \in DOMAIN router.sent : router.sent[i].src = router.sent[j].src => i = j

\* The broker holds only what was handed over, and reports only what it holds.
Handed ==
  /\ router.appended \subseteq DOMAIN router.sent
  /\ router.delivered \subseteq router.appended
  /\ router.failed \subseteq DOMAIN router.sent \ router.delivered

\* A run whose delivery is judged, or has been.
Judged == router.phase \in {"verify", "reconcile"} \/ router.status = "SUCCEEDED"

\* What a run has behind it in each phase: nothing is handed over before the start
\* watermarks are read, and all is consumed and reported, or lost, when the routing ends.
PhaseInv ==
  /\ router.phase \in {"idle", "starts"} => router.sent = <<>>
  /\ router.phase \in {"idle", "starts"} => router.next = [p \in 1..P |-> 0]
  /\ router.phase = "idle" => router.at = 1
  /\ router.phase = "route" => router.at = 1
  /\ router.phase = "ends" \/ Judged =>
       /\ router.work = <<>> /\ Consumed = SourceRange
       /\ ~ router.lost => Outstanding = {}
  /\ router.status # "NONE" => router.phase = "ended"
  /\ router.status = "SUCCEEDED" => Reconciled

\* The envelope of message i.
Written(i) ==
  [src |-> router.sent[i].src, attempts |-> router.sent[i].attempts, own |-> TRUE]

\* The place of a cell in the order in which watermarks are read.
Number(c) == IF c[1] = "REJECTED" THEN c[2] ELSE Q + c[2]

\* The end watermark of cell c is read.
EndRead(c) == Judged \/ (router.phase = "ends" /\ Number(c) < router.at)

\* The envelope of message i is in its cell, after place a and up to place b.
HeldIn(i, a, b) ==
  \E k \in (a + 1)..b : k <= Len(out[CellOf(i)]) /\ out[CellOf(i)][k] = Written(i)

\* What the broker holds of the run is behind the start watermarks, and what was reported
\* delivered is before the end watermarks.
Placed ==
  /\ \A c \in Cells : router.starts[c] <= Len(out[c])
  /\ \A i \in router.appended :
       HeldIn(i, router.starts[CellOf(i)], Len(out[CellOf(i)]))
  /\ \A i \in router.delivered : EndRead(CellOf(i)) =>
       HeldIn(i, router.starts[CellOf(i)], router.ends[CellOf(i)])

\* The inductive invariant.
RouterInv == RunType /\ Worked /\ PhaseInv /\ Handed /\ Placed

-----------------------------------------------------------------------------
(* Sequences.                                                              *)

\* A sequence is a function on the numbers up to its length.
LEMMA LenOfSeq ==
  ASSUME NEW S, NEW s \in Seq(S)
  PROVE  Len(s) \in Nat /\ DOMAIN s = 1..Len(s)
  OBVIOUS

\* An interval of one number.
LEMMA SingleInterval ==
  ASSUME NEW n \in Nat, 1..n = {1}
  PROVE  n = 1
  <1>1. 1 \in 1..n /\ 2 \notin 1..n
    OBVIOUS
  <1>2. QED
    BY <1>1

\* A sequence with one index.
LEMMA SingleLen ==
  ASSUME NEW S, NEW s \in Seq(S), DOMAIN s = {1}
  PROVE  Len(s) = 1
  <1> DEFINE n == Len(s)
  <1>1. n \in Nat /\ 1..n = DOMAIN s
    BY LenOfSeq
  <1> HIDE DEF n
  <1>2. n = 1
    BY <1>1, SingleInterval
  <1>3. QED
    BY <1>2 DEF n

\* A sequence of at most one element that is not empty.
LEMMA ShortSeq ==
  ASSUME NEW S, NEW s \in Seq(S), Len(s) <= 1, s # <<>>
  PROVE  Len(s) = 1 /\ 1 \in DOMAIN s /\ s[1] \in S
  <1> DEFINE n == Len(s)
  <1>1. n \in Nat /\ 1..n = DOMAIN s
    BY LenOfSeq
  <1>2. n <= 1 /\ n # 0
    OBVIOUS
  <1> HIDE DEF n
  <1>3. n = 1
    BY <1>1, <1>2
  <1>4. 1 \in DOMAIN s
    BY <1>1, <1>3
  <1>5. s[1] \in S
    BY <1>4
  <1>6. QED
    BY <1>3, <1>4, <1>5 DEF n

\* The indices of a sequence are as many as its length.
LEMMA IndicesOfSeq ==
  ASSUME NEW S, NEW s \in Seq(S)
  PROVE  IsFiniteSet(DOMAIN s) /\ Cardinality(DOMAIN s) = Len(s)
  <1>1. DOMAIN s = 1..Len(s) /\ Len(s) \in Nat
    BY LenOfSeq
  <1>2. IsFiniteSet(1..Len(s)) /\ Cardinality(1..Len(s)) = Len(s)
    <2> DEFINE n == Len(s)
    <2>1. n \in Nat
      BY <1>1
    <2> HIDE DEF n
    <2>2. IsFiniteSet(1..n) /\ Cardinality(1..n) = n
      BY <2>1, FS_Interval
    <2>3. QED
      BY <2>2 DEF n
  <1>3. QED
    BY <1>1, <1>2

-----------------------------------------------------------------------------
(* Types.                                                                  *)

\* The sequences of a run.
LEMMA SequenceTypes ==
  ASSUME RunType
  PROVE  /\ router.work \in Seq(Work)
         /\ router.sent \in Seq(Handover)
  BY DEF RunType, Run, Works, Sent

\* The source and how far it is read.
LEMMA SourceTypes ==
  ASSUME RunType
  PROVE  /\ router.next \in [1..P -> Nat]
         /\ router.source \in [1..P -> Seq(Message)]
  BY DEF RunType, Run, Progress, Ranges

\* The watermarks of a run.
LEMMA OffsetTypes ==
  ASSUME RunType
  PROVE  /\ router.starts \in [Cells -> Nat] /\ router.ends \in [Cells -> Nat]
         /\ router.at \in 1..(2 * Q)
  BY DEF RunType, Run, Places, Offsets

\* The sets of a run.
LEMMA SetTypes ==
  ASSUME RunType
  PROVE  /\ router.passed \subseteq Coordinates
         /\ router.seen \subseteq Cells \X Nat
         /\ router.verified \subseteq {"REJECTED", "DLQ"}
         /\ router.appended \subseteq Nat /\ router.delivered \subseteq Nat
         /\ router.failed \subseteq Nat /\ router.lost \in BOOLEAN
  BY DEF RunType, Run, Passed, Seen, Verified, Numbers

\* There is a cell to read.
LEMMA AtCellType ==
  ASSUME RunType
  PROVE  AtCell \in Cells
  BY RouterAssumption, OffsetTypes DEF AtCell, Cells

\* A consumed coordinate holds a message of the source.
LEMMA ConsumedType ==
  ASSUME RunType, \A p \in 1..P : router.next[p] <= Len(router.source[p]),
         NEW s \in Consumed
  PROVE  s \in SourceRange /\ s \in Coordinates /\ MessageAt(s) \in Message
  <1>1. PICK p \in 1..P : s \in {p} \X (0..(router.next[p] - 1))
    BY DEF Consumed
  <1>2. router.next[p] \in Nat /\ router.source[p] \in Seq(Message)
    BY SourceTypes
  <1>3. s[1] = p /\ s[2] \in 0..(Len(router.source[p]) - 1) /\ s = <<s[1], s[2]>>
    BY <1>1, <1>2
  <1>4. s[2] + 1 \in 1..Len(router.source[p])
    BY <1>2, <1>3
  <1>5. MessageAt(s) \in Message
    BY <1>2, <1>3, <1>4 DEF MessageAt
  <1>6. QED
    BY <1>1, <1>3, <1>5 DEF SourceRange, Coordinates

\* What was handed over came from the source, and has a cell.
LEMMA CellsOfSent ==
  ASSUME RunType, Worked, NEW i \in DOMAIN router.sent
  PROVE  /\ router.sent[i].src \in Consumed
         /\ router.sent[i].src \in Coordinates
         /\ router.sent[i].attempts \in Nat
         /\ MessageAt(router.sent[i].src) \in Message
         /\ CellOf(i) \in Cells
  <1>1. router.sent[i].src \in Consumed
    BY DEF Worked, Routed
  <1>2. MessageAt(router.sent[i].src) \in Message
    BY <1>1, ConsumedType DEF Worked
  <1>3. router.sent[i] \in Handover
    BY SequenceTypes
  <1>4. QED
    BY <1>1, <1>2, <1>3, ConsumedType DEF CellOf, TopicOf, Cells, Message, Handover, Worked

\* The coordinates of the source.
LEMMA SourcesType ==
  ASSUME RunType, NEW s \in SourceRange
  PROVE  s \in Coordinates
  <1>1. PICK p \in 1..P : s \in {p} \X (0..(Len(router.source[p]) - 1))
    BY DEF SourceRange
  <1>2. Len(router.source[p]) \in Nat
    BY SourceTypes
  <1>3. QED
    BY <1>1, <1>2 DEF Coordinates

\* Going on to the next watermark leaves a run.
LEMMA NextCellType ==
  ASSUME RunType, NEW then \in {"route", "verify"}
  PROVE  /\ NextCell(then) \in Run
         /\ NextCell(then).starts = router.starts /\ NextCell(then).ends = router.ends
         /\ NextCell(then).seen = router.seen
         /\ NextCell(then).at = 1 \/ NextCell(then).phase = router.phase
         /\ NextCell(then).phase \in {router.phase, then}
  <1>1. router \in Run
    BY DEF RunType
  <1>2. 1 \in Places /\ (router.at # 2 * Q => router.at + 1 \in Places)
    BY OffsetTypes, RouterAssumption DEF Places
  <1>3. then \in Phases
    BY DEF Phases
  <1>4. QED
    BY <1>1, <1>2, <1>3 DEF NextCell, Run

\* Every step keeps the shape of the state.
LEMMA RunTypeStep ==
  ASSUME RunType, Worked, [Next]_vars
  PROVE  RunType'
  <1>0. /\ router \in Run /\ IsFiniteSet(router.seen)
        /\ out \in [Cells -> Seq(Envelope)]
    BY DEF RunType
  <1> USE <1>0
  <1>1. CASE Start
    BY <1>1, RouterAssumption DEF Start, Become, RunType, Run, Phases, Ranges
  <1>2. CASE ReadStart
    <2>1. [router.starts EXCEPT ![AtCell] = Len(out[AtCell])] \in Offsets
      BY AtCellType, OffsetTypes DEF Offsets
    <2>2. QED
      <3> DEFINE N == NextCell("route")
      <3>1. /\ N \in Run /\ N.seen = router.seen
            /\ N.at = 1 \/ N.phase = router.phase
            /\ N.starts = router.starts /\ router.phase # "verify"
        BY <1>2, NextCellType DEF ReadStart
      <3>2. router' = [N EXCEPT !.starts = [router.starts EXCEPT ![AtCell] = Len(out[AtCell])]]
            /\ out' = out
        BY <1>2, <3>1 DEF ReadStart, Become
      <3> HIDE DEF N
      <3>3. router' \in Run /\ router'.seen = N.seen /\ router'.at = N.at
            /\ router'.phase = N.phase
        BY <2>1, <3>1, <3>2 DEF Run
      <3>4. router'.phase = "verify" => router'.at <= 2
        BY <3>1, <3>3
      <3>5. QED
        BY <3>1, <3>2, <3>3, <3>4 DEF RunType
  <1>3. CASE Process
    <2>1. router.work[1] \in Work /\ 1 \in DOMAIN router.work
      BY <1>3, SequenceTypes DEF Process
    <2>2. CASE MessageAt(router.work[1].src).class = "fault"
      <3>1. /\ router' = [router EXCEPT !.work = router'.work] /\ out' = out
            /\ router'.work = [router.work EXCEPT ![1] =
                 [router.work[1] EXCEPT !.attempts = router.work[1].attempts + 1,
                   !.routed = (router.work[1].attempts + 1 = MaxAttempts)]]
        BY <1>3, <2>1, <2>2 DEF Process, Become, Run
      <3>2. [router.work[1] EXCEPT !.attempts = router.work[1].attempts + 1,
              !.routed = (router.work[1].attempts + 1 = MaxAttempts)] \in Work
        <4>0. \A w \in Work : [w EXCEPT !.attempts = w.attempts + 1] \in Work
          BY DEF Work
        <4>1. \A w \in Work : \A b \in BOOLEAN : [w EXCEPT !.routed = b] \in Work
          BY DEF Work
        <4>2. (router.work[1].attempts + 1 = MaxAttempts) \in BOOLEAN
          OBVIOUS
        <4>3. QED
          BY <2>1, <4>0, <4>1, <4>2
      <3>3. router'.work \in Works
        BY <2>1, <3>1, <3>2, SequenceTypes DEF Works
      <3>4. QED
        BY <3>1, <3>3 DEF RunType, Run
    <2>3. CASE MessageAt(router.work[1].src).class # "fault"
      <3>1. router' = [router EXCEPT !.work = <<>>,
                         !.passed = router.passed \union {router.work[1].src}]
            /\ out' = out
        BY <1>3, <2>3 DEF Process, Become
      <3>2. <<>> \in Works /\ router.passed \union {router.work[1].src} \in Passed
        BY <2>1, SetTypes DEF Works, Work, Passed
      <3>3. QED
        BY <3>1, <3>2 DEF RunType, Run
    <2>4. QED
      BY <2>2, <2>3
  <1>4. CASE Produce
    <2>1. router.work[1] \in Work
      BY <1>4, SequenceTypes DEF Produce
    <2>2. Append(router.sent, [src |-> router.work[1].src,
                               attempts |-> router.work[1].attempts]) \in Sent
      BY <2>1, SequenceTypes DEF Sent, Handover, Work
    <2>3. <<>> \in Works
      BY DEF Works
    <2>4. QED
      BY <1>4, <2>2, <2>3 DEF Produce, Become, RunType, Run
  <1>5. CASE Flush
    <2>1. "ends" \in Phases /\ (Outstanding # {}) \in BOOLEAN
      BY DEF Phases
    <2>2. QED
      BY <1>5, <2>1 DEF Flush, Become, RunType, Run
  <1>6. CASE ReadEnd
    <2>1. [router.ends EXCEPT ![AtCell] = Len(out[AtCell])] \in Offsets
      BY AtCellType, OffsetTypes DEF Offsets
    <2>2. QED
      <3> DEFINE N == NextCell("verify")
      <3>1. /\ N \in Run /\ N.seen = router.seen
            /\ N.at = 1 \/ N.phase = router.phase
            /\ N.ends = router.ends /\ router.phase # "verify"
        BY <1>6, NextCellType DEF ReadEnd
      <3>2. router' = [N EXCEPT !.ends = [router.ends EXCEPT ![AtCell] = Len(out[AtCell])]]
            /\ out' = out
        BY <1>6, <3>1 DEF ReadEnd, Become
      <3> HIDE DEF N
      <3>3. router' \in Run /\ router'.seen = N.seen /\ router'.at = N.at
            /\ router'.phase = N.phase
        BY <2>1, <3>1, <3>2 DEF Run
      <3>4. router'.phase = "verify" => router'.at <= 2
        BY <3>1, <3>3
      <3>5. QED
        BY <3>1, <3>2, <3>3, <3>4 DEF RunType
  <1>7. CASE VerifyNext
    <2>1. router.phase = "verify" /\ router.at \in {1, 2}
      BY <1>7, OffsetTypes, RouterAssumption DEF VerifyNext, RunType
    <2>2. /\ 1 \in Places /\ 2 \in Places /\ {} \in Seen /\ "reconcile" \in Phases
          /\ "verify" \in Phases
      BY RouterAssumption DEF Places, Phases, Seen
    <2>3. /\ router.verified \in Verified
          /\ router.verified \union {Verifying} \in Verified
      BY <2>1, SetTypes DEF Verifying, Topics, Verified
    <2>4. router' = [router EXCEPT !.seen = {}, !.verified = router'.verified,
                       !.phase = router'.phase, !.at = router'.at]
          /\ router'.verified \in Verified /\ router'.phase \in Phases /\ router'.at \in {1, 2}
      BY <1>7, <2>2, <2>3 DEF VerifyNext, Become, Run
    <2>5. IsFiniteSet({})
      BY FS_EmptySet
    <2>6. QED
      <3>1. router' \in Run
        BY <2>2, <2>4 DEF Run
      <3>2. router'.seen = {} /\ out' = out
        BY <1>7 DEF VerifyNext, Become, Run
      <3>3. router'.at <= 2
        BY <2>4
      <3>4. QED
        BY <2>5, <3>1, <3>2, <3>3 DEF RunType
  <1>8. CASE Reconcile
    BY <1>8 DEF Reconcile, Become, RunType, Run, Phases, Statuses
  <1>9. ASSUME NEW p \in 1..P, Consume(p)
        PROVE  RunType'
    <2>0. router.next[p] \in Nat
      BY SourceTypes
    <2>1. [router.next EXCEPT ![p] = @ + 1] \in Progress
      BY <2>0, SourceTypes DEF Progress
    <2>2. <<[src |-> <<p, router.next[p]>>, attempts |-> 0,
             routed |-> MessageAt(<<p, router.next[p]>>).class = "invalid"]>> \in Works
      BY <2>0 DEF Works, Work, Coordinates
    <2>3. QED
      BY <1>9, <2>1, <2>2 DEF Consume, Become, RunType, Run
  <1>10. CASE Raise
    BY <1>10 DEF Raise, Become, RunType, Run, Phases
  <1>11. ASSUME NEW i \in DOMAIN router.sent, Deliver(i) \/ Expire(i)
         PROVE  RunType'
    <2>1. i \in Nat
      BY <1>11, SequenceTypes
    <2>2. QED
      BY <1>11, <2>1 DEF Deliver, Expire, Become, RunType, Run, Numbers
  <1>12. ASSUME NEW i \in DOMAIN router.sent, Store(i)
         PROVE  RunType'
    <2>1. i \in Nat
      BY <1>12, SequenceTypes
    <2>2. [src |-> router.sent[i].src, attempts |-> router.sent[i].attempts,
           own |-> TRUE] \in Envelope
      BY CellsOfSent DEF Envelope
    <2>3. out' \in [Cells -> Seq(Envelope)]
      BY <1>12, <2>2, CellsOfSent DEF Store
    <2>4. QED
      BY <1>12, <2>1, <2>3 DEF Store, RunType, Run, Numbers
  <1>13. ASSUME NEW p \in 1..Q, Count(p)
         PROVE  RunType'
    <2>1. DEFINE c == <<Verifying, p>>
                 offset == router.starts[c] + Cardinality(SeenIn(c))
    <2>2. router.phase = "verify" /\ router.at \in {1, 2}
      <3>1. router.phase = "verify"
        BY <1>13 DEF Count
      <3>2. QED
        BY <3>1, OffsetTypes, RouterAssumption DEF RunType
    <2>3. c \in Cells
      BY <2>2 DEF Verifying, Topics, Cells
    <2>4. Cardinality(SeenIn(c)) \in Nat
      BY FS_Subset, FS_CardinalityType DEF SeenIn
    <2>5. offset \in Nat
      BY <2>3, <2>4, OffsetTypes
    <2>6. router.seen \union {<<c, offset>>} \in Seen
      <3> HIDE DEF c, offset
      <3>1. QED
        BY <2>3, <2>5, SetTypes DEF Seen
    <2>7. IsFiniteSet(router.seen \union {<<c, offset>>})
      BY FS_AddElement
    <2>8. router' = [router EXCEPT !.seen = router.seen \union {<<c, offset>>}]
          /\ UNCHANGED out
      BY <1>13 DEF Count, Become
    <2>9. QED
      BY <2>6, <2>7, <2>8 DEF RunType, Run
  <1>14. ASSUME NEW c \in Cells, NEW src \in SourceRange, WriteOther(c, src)
         PROVE  RunType'
    <2>1. [src |-> src, attempts |-> 0, own |-> FALSE] \in Envelope
      BY SourcesType DEF Envelope
    <2>2. QED
      BY <1>14, <2>1 DEF WriteOther, RunType
  <1>15. CASE UNCHANGED vars
    BY <1>15 DEF vars, RunType
  <1>16. QED
    BY <1>1, <1>2, <1>3, <1>4, <1>5, <1>6, <1>7, <1>8, <1>9, <1>10, <1>11, <1>12, <1>13, <1>14, <1>15
       DEF Next, Route, Reports

-----------------------------------------------------------------------------
(* What the actions do and leave alone.                                    *)

\* What going on to the next watermark leaves alone.
LEMMA NextCellFrame ==
  ASSUME RunType, NEW then \in {"route", "verify"}
  PROVE  /\ NextCell(then).source = router.source /\ NextCell(then).next = router.next
         /\ NextCell(then).work = router.work /\ NextCell(then).passed = router.passed
         /\ NextCell(then).sent = router.sent /\ NextCell(then).status = router.status
         /\ NextCell(then).appended = router.appended
         /\ NextCell(then).delivered = router.delivered
         /\ NextCell(then).failed = router.failed /\ NextCell(then).lost = router.lost
         /\ NextCell(then).verified = router.verified
         /\ IF router.at = 2 * Q
            THEN NextCell(then).at = 1 /\ NextCell(then).phase = then
            ELSE NextCell(then).at = router.at + 1 /\ NextCell(then).phase = router.phase
  BY DEF RunType, Run, NextCell

\* What reading a start watermark does, and leaves alone.
LEMMA ReadStartFrame ==
  ASSUME RunType, ReadStart
  PROVE  /\ router'.source = router.source /\ router'.next = router.next
         /\ router'.work = router.work /\ router'.passed = router.passed
         /\ router'.sent = router.sent /\ router'.status = router.status
         /\ router'.appended = router.appended /\ router'.delivered = router.delivered
         /\ router'.failed = router.failed /\ router'.lost = router.lost
         /\ router'.verified = router.verified /\ router'.ends = router.ends
         /\ router'.starts = [router.starts EXCEPT ![AtCell] = Len(out[AtCell])]
         /\ IF router.at = 2 * Q
            THEN router'.at = 1 /\ router'.phase = "route"
            ELSE router'.at = router.at + 1 /\ router'.phase = "starts"
         /\ out' = out /\ router.phase = "starts"
  <1> DEFINE N == NextCell("route")
  <1>1. N \in Run
    BY NextCellType
  <1>2. router' = [N EXCEPT !.starts = [N.starts EXCEPT ![AtCell] = Len(out[AtCell])]]
        /\ out' = out /\ router.phase = "starts"
    BY DEF ReadStart, Become
  <1>3. /\ N.source = router.source /\ N.next = router.next
        /\ N.work = router.work /\ N.passed = router.passed
        /\ N.sent = router.sent /\ N.status = router.status
        /\ N.appended = router.appended /\ N.delivered = router.delivered
        /\ N.failed = router.failed /\ N.lost = router.lost
        /\ N.verified = router.verified /\ N.ends = router.ends /\ N.starts = router.starts
        /\ IF router.at = 2 * Q
            THEN N.at = 1 /\ N.phase = "route"
            ELSE N.at = router.at + 1 /\ N.phase = router.phase
    BY NextCellFrame, NextCellType
  <1> HIDE DEF N
  <1>4. QED
    BY <1>1, <1>2, <1>3 DEF Run

\* What reading an end watermark does, and leaves alone.
LEMMA ReadEndFrame ==
  ASSUME RunType, ReadEnd
  PROVE  /\ router'.source = router.source /\ router'.next = router.next
         /\ router'.work = router.work /\ router'.passed = router.passed
         /\ router'.sent = router.sent /\ router'.status = router.status
         /\ router'.appended = router.appended /\ router'.delivered = router.delivered
         /\ router'.failed = router.failed /\ router'.lost = router.lost
         /\ router'.verified = router.verified /\ router'.starts = router.starts
         /\ router'.ends = [router.ends EXCEPT ![AtCell] = Len(out[AtCell])]
         /\ IF router.at = 2 * Q
            THEN router'.at = 1 /\ router'.phase = "verify"
            ELSE router'.at = router.at + 1 /\ router'.phase = "ends"
         /\ out' = out /\ router.phase = "ends"
  <1> DEFINE N == NextCell("verify")
  <1>1. N \in Run
    BY NextCellType
  <1>2. router' = [N EXCEPT !.ends = [N.ends EXCEPT ![AtCell] = Len(out[AtCell])]]
        /\ out' = out /\ router.phase = "ends"
    BY DEF ReadEnd, Become
  <1>3. /\ N.source = router.source /\ N.next = router.next
        /\ N.work = router.work /\ N.passed = router.passed
        /\ N.sent = router.sent /\ N.status = router.status
        /\ N.appended = router.appended /\ N.delivered = router.delivered
        /\ N.failed = router.failed /\ N.lost = router.lost
        /\ N.verified = router.verified /\ N.ends = router.ends /\ N.starts = router.starts
        /\ IF router.at = 2 * Q
            THEN N.at = 1 /\ N.phase = "verify"
            ELSE N.at = router.at + 1 /\ N.phase = router.phase
    BY NextCellFrame, NextCellType
  <1> HIDE DEF N
  <1>4. QED
    BY <1>1, <1>2, <1>3 DEF Run

\* What the start of a run does.
LEMMA StartFrame ==
  ASSUME RunType, Start
  PROVE  /\ router'.next = router.next /\ router'.work = router.work
         /\ router'.sent = router.sent /\ router'.delivered = router.delivered
         /\ router'.appended = router.appended /\ router'.failed = router.failed
         /\ router'.starts = router.starts /\ router'.ends = router.ends
         /\ router.phase = "idle" /\ router'.phase = "starts"
         /\ router'.status = router.status /\ router'.at = router.at
         /\ out' = out
  BY DEF RunType, Run, Start, Become

\* What the handling of one message leaves alone.
LEMMA HandlingFrame ==
  ASSUME RunType, Process \/ Produce \/ \E p \in 1..P : Consume(p)
  PROVE  /\ router'.phase = "route" /\ router.phase = "route"
         /\ router'.at = router.at /\ router'.status = router.status
         /\ router'.source = router.source
         /\ router'.appended = router.appended /\ router'.delivered = router.delivered
         /\ router'.failed = router.failed
         /\ router'.starts = router.starts /\ router'.ends = router.ends
         /\ out' = out
  <1>0. router \in Run
    BY DEF RunType
  <1>1. CASE Process
    BY <1>0, <1>1 DEF Process, Become, Run
  <1>2. CASE Produce
    BY <1>0, <1>2 DEF Produce, Become, Run
  <1>3. ASSUME NEW p \in 1..P, Consume(p)
        PROVE  /\ router'.phase = "route" /\ router.phase = "route"
               /\ router'.at = router.at /\ router'.status = router.status
               /\ router'.source = router.source
               /\ router'.appended = router.appended
               /\ router'.delivered = router.delivered
               /\ router'.failed = router.failed
               /\ router'.starts = router.starts /\ router'.ends = router.ends
               /\ out' = out
    BY <1>0, <1>3 DEF Consume, Become, Run
  <1>4. QED
    BY <1>1, <1>2, <1>3

\* A report moves one envelope out of the outstanding ones.
LEMMA ReportFrame ==
  ASSUME RunType, NEW i \in DOMAIN router.sent, Deliver(i) \/ Expire(i)
  PROVE  /\ router' = [router EXCEPT !.delivered = router'.delivered,
                                     !.failed = router'.failed]
         /\ router'.phase = "route" /\ router.phase = "route"
         /\ router'.at = router.at /\ router'.status = router.status
         /\ router'.appended = router.appended
         /\ router'.starts = router.starts /\ router'.ends = router.ends
         /\ \/ /\ i \in Outstanding \intersect router.appended
               /\ router'.delivered = router.delivered \union {i}
               /\ router'.failed = router.failed
            \/ /\ i \in Outstanding
               /\ router'.delivered = router.delivered
               /\ router'.failed = router.failed \union {i}
         /\ out' = out
  BY DEF RunType, Run, Deliver, Expire, Polling, Become

\* What the broker's append does.
LEMMA StoreFrame ==
  ASSUME RunType, NEW i \in DOMAIN router.sent, Store(i)
  PROVE  /\ router'.source = router.source /\ router'.next = router.next
         /\ router'.work = router.work /\ router'.passed = router.passed
         /\ router'.sent = router.sent /\ router'.delivered = router.delivered
         /\ router'.failed = router.failed /\ router'.lost = router.lost
         /\ router'.starts = router.starts /\ router'.ends = router.ends
         /\ router'.phase = router.phase /\ router'.status = router.status
         /\ router'.at = router.at /\ router'.verified = router.verified
         /\ router'.appended = router.appended \union {i}
         /\ out' = [out EXCEPT ![CellOf(i)] = Append(@, Written(i))]
  BY DEF RunType, Run, Store, Written

\* What the steps that end the run or one of its phases do.
LEMMA EndingFrame ==
  ASSUME RunType, Flush \/ VerifyNext \/ Reconcile \/ Raise \/ \E p \in 1..Q : Count(p)
  PROVE  /\ router'.source = router.source /\ router'.next = router.next
         /\ router'.work = router.work /\ router'.passed = router.passed
         /\ router'.sent = router.sent
         /\ router'.appended = router.appended /\ router'.delivered = router.delivered
         /\ router'.failed = router.failed
         /\ router'.starts = router.starts /\ router'.ends = router.ends
         /\ Flush => /\ router.phase = "route" /\ router'.phase = "ends"
                     /\ router'.status = router.status /\ router'.at = router.at
                     /\ router.work = <<>> /\ Consumed = SourceRange
                     /\ router'.lost = (Outstanding # {})
         /\ ~ Flush => router'.lost = router.lost
         /\ VerifyNext \/ (\E p \in 1..Q : Count(p)) =>
              /\ router.phase = "verify" /\ router'.phase \in {"verify", "reconcile"}
              /\ router'.status = router.status
         /\ Reconcile => /\ router.phase = "reconcile" /\ router'.phase = "ended"
                         /\ router'.verified = router.verified
                         /\ router'.status = IF Reconciled THEN "SUCCEEDED" ELSE "FAILED"
         /\ Raise => /\ router.phase # "ended" /\ router'.phase = "ended"
                     /\ router'.status = router.status
         /\ out' = out
  <1>0. router \in Run
    BY DEF RunType
  <1>1. Flush => /\ router.phase = "route" /\ router'.phase = "ends"
                 /\ router'.status = router.status /\ router'.at = router.at
                 /\ router.work = <<>> /\ Consumed = SourceRange
                 /\ router'.lost = (Outstanding # {})
    BY <1>0 DEF Flush, Become, Run
  <1>2. VerifyNext \/ (\E p \in 1..Q : Count(p)) =>
          /\ router.phase = "verify" /\ router'.phase \in {"verify", "reconcile"}
          /\ router'.status = router.status
    BY <1>0 DEF VerifyNext, Count, Become, Run
  <1>3. Reconcile => /\ router.phase = "reconcile" /\ router'.phase = "ended"
                     /\ router'.verified = router.verified
                     /\ router'.status = IF Reconciled THEN "SUCCEEDED" ELSE "FAILED"
    BY <1>0 DEF Reconcile, Become, Run
  <1>4. Raise => /\ router.phase # "ended" /\ router'.phase = "ended"
                 /\ router'.status = router.status
    BY <1>0 DEF Raise, Become, Run
  <1>5. /\ router'.source = router.source /\ router'.next = router.next
        /\ router'.work = router.work /\ router'.passed = router.passed
        /\ router'.sent = router.sent
        /\ router'.appended = router.appended /\ router'.delivered = router.delivered
        /\ router'.failed = router.failed
        /\ router'.starts = router.starts /\ router'.ends = router.ends
        /\ out' = out
    <2>1. CASE Flush
      BY <1>0, <2>1 DEF Flush, Become, Run
    <2>2. CASE VerifyNext
      BY <1>0, <2>2 DEF VerifyNext, Become, Run
    <2>3. CASE Reconcile
      BY <1>0, <2>3 DEF Reconcile, Become, Run
    <2>4. CASE Raise
      BY <1>0, <2>4 DEF Raise, Become, Run
    <2>5. CASE \E p \in 1..Q : Count(p)
      BY <1>0, <2>5 DEF Count, Become, Run
    <2>6. QED
      BY <2>1, <2>2, <2>3, <2>4, <2>5
  <1>6. ~ Flush => router'.lost = router.lost
    BY <1>0 DEF VerifyNext, Reconcile, Raise, Count, Become, Run
  <1>7. QED
    BY <1>1, <1>2, <1>3, <1>4, <1>5, <1>6

\* So do the consumed and the outstanding messages.
LEMMA ScopeFrame ==
  ASSUME router'.source = router.source, router'.next = router.next,
         router'.sent = router.sent, router'.delivered = router.delivered,
         router'.failed = router.failed
  PROVE  Consumed' = Consumed /\ SourceRange' = SourceRange /\ Outstanding' = Outstanding
  BY DEF Consumed, SourceRange, Outstanding

\* The verdict of the reconciliation depends on these fields alone.
LEMMA ReconciledFrame ==
  ASSUME router'.source = router.source, router'.next = router.next,
         router'.passed = router.passed, router'.sent = router.sent,
         router'.delivered = router.delivered, router'.failed = router.failed,
         router'.lost = router.lost, router'.verified = router.verified,
         router'.starts = router.starts, router'.ends = router.ends
  PROVE  /\ Reconciled' <=> Reconciled
         /\ Consumed' = Consumed /\ SourceRange' = SourceRange
         /\ Outstanding' = Outstanding
  <1>1. Consumed' = Consumed /\ SourceRange' = SourceRange /\ Outstanding' = Outstanding
    BY DEF Consumed, SourceRange, Outstanding
  <1>2. \A i : CellOf(i)' = CellOf(i)
    BY DEF CellOf, TopicOf, MessageAt
  <1>3. \A t : Delivered(t)' = Delivered(t) /\ RangeOf(t)' = RangeOf(t)
    BY <1>2 DEF Delivered, RangeOf
  <1>4. QED
    BY <1>1, <1>3 DEF Reconciled

-----------------------------------------------------------------------------
(* The messages and their reports.                                         *)

\* Worked is about the source, the progress, and where the messages are.
LEMMA WorkedFrame ==
  ASSUME Worked, router'.source = router.source, router'.next = router.next,
         router'.work = router.work, router'.passed = router.passed,
         router'.sent = router.sent
  PROVE  Worked'
  <1>1. InHand' = InHand /\ Routed' = Routed /\ Consumed' = Consumed
    BY DEF InHand, Routed, Consumed
  <1>2. \A s : MessageAt(s)' = MessageAt(s)
    BY DEF MessageAt
  <1>3. \A s, n : Outcome(s, n)' <=> Outcome(s, n)
    BY <1>2 DEF Outcome
  <1>4. QED
    BY <1>1, <1>2, <1>3 DEF Worked

\* Only four actions move a message.
LEMMA WorkedOther ==
  ASSUME RunType, Worked, [Next]_vars,
         ~ Start, ~ Process, ~ Produce, \A p \in 1..P : ~ Consume(p)
  PROVE  /\ router'.source = router.source /\ router'.next = router.next
         /\ router'.work = router.work /\ router'.passed = router.passed
         /\ router'.sent = router.sent
  <1>0. router \in Run
    BY DEF RunType
  <1>1. CASE ReadStart
    BY <1>1, ReadStartFrame
  <1>2. CASE ReadEnd
    BY <1>2, ReadEndFrame
  <1>3. CASE Flush
    BY <1>0, <1>3 DEF Flush, Become, Run
  <1>4. CASE VerifyNext
    BY <1>0, <1>4 DEF VerifyNext, Become, Run
  <1>5. CASE Reconcile
    BY <1>0, <1>5 DEF Reconcile, Become, Run
  <1>6. CASE Raise
    BY <1>0, <1>6 DEF Raise, Become, Run
  <1>7. ASSUME NEW i \in DOMAIN router.sent, Deliver(i) \/ Expire(i) \/ Store(i)
        PROVE  /\ router'.source = router.source /\ router'.next = router.next
               /\ router'.work = router.work /\ router'.passed = router.passed
               /\ router'.sent = router.sent
    BY <1>0, <1>7 DEF Deliver, Expire, Store, Become, Run
  <1>8. ASSUME NEW p \in 1..Q, Count(p)
        PROVE  /\ router'.source = router.source /\ router'.next = router.next
               /\ router'.work = router.work /\ router'.passed = router.passed
               /\ router'.sent = router.sent
    BY <1>0, <1>8 DEF Count, Become, Run
  <1>9. CASE UNCHANGED vars \/ \E c \in Cells, src \in SourceRange : WriteOther(c, src)
    BY <1>9 DEF vars, WriteOther
  <1>10. QED
    BY <1>1, <1>2, <1>3, <1>4, <1>5, <1>6, <1>7, <1>8, <1>9 DEF Next, Route, Reports

\* No step loses a message or hands one over twice.
LEMMA WorkedStep ==
  ASSUME RunType, Worked, PhaseInv, [Next]_vars
  PROVE  Worked'
  <1>0. router \in Run
    BY DEF RunType
  <1>1. CASE Start
    <2>1. /\ router'.next = router.next /\ router'.work = router.work
          /\ router'.passed = router.passed /\ router'.sent = router.sent
          /\ router'.source \in [1..P -> Seq(Message)]
      BY <1>0, <1>1, RouterAssumption DEF Start, Become, Run
    <2>2. router.next = [p \in 1..P |-> 0] /\ Consumed = {} /\ Consumed' = {}
      <3>1. router.next = [p \in 1..P |-> 0]
        BY <1>1 DEF PhaseInv, Start
      <3>2. \A p \in 1..P : router.next[p] = 0 /\ 0..(router.next[p] - 1) = {}
        BY <3>1
      <3>3. QED
        BY <2>1, <3>1, <3>2 DEF Consumed
    <2>3. InHand = {} /\ router.passed = {} /\ Routed = {}
      BY <2>2 DEF Worked
    <2>4. DOMAIN router.work = {} /\ DOMAIN router.sent = {}
      BY <2>3 DEF InHand, Routed
    <2>5. \A p \in 1..P : router'.next[p] <= Len(router'.source[p])
      <3>1. \A p \in 1..P : Len(router'.source[p]) \in Nat /\ router'.next[p] = 0
        BY <2>1, <2>2
      <3>2. QED
        BY <3>1
    <2>6. QED
      BY <2>1, <2>2, <2>3, <2>4, <2>5 DEF Worked, InHand, Routed
  <1>2. CASE Process
    <2>1. /\ router.work[1] \in Work /\ DOMAIN router.work = {1}
          /\ ~ router.work[1].routed
      BY <1>2, SequenceTypes DEF Process, Worked
    <2>2. /\ InHand = {router.work[1].src} /\ router.work[1].src \in Consumed
          /\ MessageAt(router.work[1].src) \in Message
          /\ MessageAt(router.work[1].src).class # "invalid"
          /\ router.work[1].attempts \in Nat /\ router.work[1].attempts < MaxAttempts
      <3>1. InHand = {router.work[1].src}
        BY <2>1 DEF InHand
      <3>2. router.work[1].src \in Consumed
        BY <3>1 DEF Worked
      <3>3. QED
        BY <2>1, <3>1, <3>2, ConsumedType DEF Worked, Work
    <2>3. CASE MessageAt(router.work[1].src).class = "fault"
      <3>1. /\ router' = [router EXCEPT !.work = router'.work]
            /\ router'.work = [router.work EXCEPT ![1] =
                 [router.work[1] EXCEPT !.attempts = router.work[1].attempts + 1,
                   !.routed = (router.work[1].attempts + 1 = MaxAttempts)]]
        BY <1>0, <1>2, <2>1, <2>3 DEF Process, Become, Run
      <3>2. /\ router'.source = router.source /\ router'.next = router.next
            /\ router'.passed = router.passed /\ router'.sent = router.sent
        BY <1>0, <3>1 DEF Run
      <3>3. /\ DOMAIN router'.work = {1} /\ Len(router'.work) = 1
            /\ router'.work[1].src = router.work[1].src
            /\ router'.work[1].attempts = router.work[1].attempts + 1
            /\ router'.work[1].routed <=> (router.work[1].attempts + 1 = MaxAttempts)
        <4>1. /\ router'.work[1] =
                  [router.work[1] EXCEPT !.attempts = router.work[1].attempts + 1,
                    !.routed = (router.work[1].attempts + 1 = MaxAttempts)]
              /\ DOMAIN router'.work = {1} /\ Len(router'.work) = 1
          <5>1. router'.work \in Seq(Work)
            BY RunTypeStep DEF RunType, Run, Works
          <5>2. DOMAIN router'.work = {1}
            BY <2>1, <3>1
          <5>3. Len(router'.work) = 1
            BY <5>1, <5>2, SingleLen
          <5>4. QED
            BY <2>1, <3>1, <5>2, <5>3
        <4>2. QED
          BY <2>1, <4>1 DEF Work
      <3>4. InHand' = InHand /\ Routed' = Routed /\ Consumed' = Consumed
            /\ \A s : MessageAt(s)' = MessageAt(s)
        BY <2>1, <3>2, <3>3 DEF InHand, Routed, Consumed, MessageAt
      <3>5. IF router'.work[1].routed
            THEN Outcome(router'.work[1].src, router'.work[1].attempts)
            ELSE router'.work[1].attempts < MaxAttempts
        <4>1. CASE router.work[1].attempts + 1 = MaxAttempts
          BY <2>3, <3>3, <4>1 DEF Outcome
        <4>2. CASE router.work[1].attempts + 1 # MaxAttempts
          BY <2>2, <3>3, <4>2, RouterAssumption
        <4>3. QED
          BY <4>1, <4>2
      <3>6. \A s, n : Outcome(s, n)' <=> Outcome(s, n)
        BY <3>4 DEF Outcome
      <3>7. QED
        BY <2>2, <3>2, <3>3, <3>4, <3>5, <3>6 DEF Worked
    <2>4. CASE MessageAt(router.work[1].src).class # "fault"
      <3>1. /\ router'.source = router.source /\ router'.next = router.next
            /\ router'.work = <<>> /\ router'.sent = router.sent
            /\ router'.passed = router.passed \union {router.work[1].src}
        BY <1>0, <1>2, <2>4 DEF Process, Become, Run
      <3>2. MessageAt(router.work[1].src).class = "valid"
        BY <2>2, <2>4 DEF Message
      <3>3. /\ InHand' = {} /\ Routed' = Routed /\ Consumed' = Consumed
            /\ \A s : MessageAt(s)' = MessageAt(s)
        BY <3>1 DEF InHand, Routed, Consumed, MessageAt
      <3>4. \A s, n : Outcome(s, n)' = Outcome(s, n)
        BY <3>3 DEF Outcome
      <3>5. QED
        BY <2>2, <3>1, <3>2, <3>3, <3>4 DEF Worked
    <2>5. QED
      BY <2>3, <2>4
  <1>3. CASE Produce
    <2>1. /\ router.work[1] \in Work /\ DOMAIN router.work = {1}
          /\ router.work[1].routed
      BY <1>3, SequenceTypes DEF Produce, Worked
    <2> DEFINE new == [src |-> router.work[1].src, attempts |-> router.work[1].attempts]
    <2>2. /\ router'.source = router.source /\ router'.next = router.next
          /\ router'.passed = router.passed /\ router'.work = <<>>
          /\ router'.sent = Append(router.sent, new)
      BY <1>0, <1>3 DEF Produce, Become, Run
    <2>3. /\ DOMAIN router'.sent = DOMAIN router.sent \union {Len(router.sent) + 1}
          /\ Len(router.sent) + 1 \notin DOMAIN router.sent
          /\ \A i \in DOMAIN router.sent : router'.sent[i] = router.sent[i]
          /\ router'.sent[Len(router.sent) + 1] = new
      <3>1. new \in Handover
        BY <2>1 DEF Work, Handover
      <3>2. QED
        BY <2>2, <3>1, SequenceTypes
    <2>4. InHand = {router.work[1].src} /\ InHand' = {}
      BY <2>1, <2>2 DEF InHand
    <2>5. Routed' = Routed \union {router.work[1].src}
      BY <2>3 DEF Routed
    <2>6. Consumed' = Consumed /\ \A s : MessageAt(s)' = MessageAt(s)
      BY <2>2 DEF Consumed, MessageAt
    <2>7. \A s, n : Outcome(s, n)' <=> Outcome(s, n)
      BY <2>6 DEF Outcome
    <2>8. Outcome(new.src, new.attempts)
      BY <2>1 DEF Worked
    <2>9. \A i \in DOMAIN router'.sent :
            Outcome(router'.sent[i].src, router'.sent[i].attempts)
      BY <2>3, <2>8 DEF Worked
    <2>10. \A i, j \in DOMAIN router'.sent :
             router'.sent[i].src = router'.sent[j].src => i = j
      <3>1. \A i \in DOMAIN router.sent : router.sent[i].src # router.work[1].src
        BY <2>4 DEF Worked, Routed
      <3>2. QED
        BY <2>3, <3>1 DEF Worked
    <2>11. QED
      BY <2>2, <2>4, <2>5, <2>6, <2>7, <2>9, <2>10 DEF Worked
  <1>4. ASSUME NEW p \in 1..P, Consume(p)
        PROVE  Worked'
    <2> DEFINE src == <<p, router.next[p]>>
               w == [src |-> src, attempts |-> 0,
                     routed |-> MessageAt(src).class = "invalid"]
    <2>0. router.source[p] \in Seq(Message) /\ router.next \in [1..P -> Nat]
      BY SourceTypes
    <2>1. /\ router.work = <<>> /\ router.next[p] < Len(router.source[p])
          /\ router.next[p] \in Nat /\ Len(router.source[p]) \in Nat
      <3>1. router.work = <<>> /\ router.next[p] < Len(router.source[p])
        BY <1>4 DEF Consume
      <3>2. QED
        <4>1. router.next[p] \in Nat
          BY <2>0
        <4>2. Len(router.source[p]) \in Nat
          BY <2>0
        <4>3. QED
          BY <3>1, <4>1, <4>2
    <2>2. /\ router'.source = router.source /\ router'.sent = router.sent
          /\ router'.passed = router.passed
          /\ router'.next = [router.next EXCEPT ![p] = @ + 1]
          /\ router'.work = <<w>>
      BY <1>0, <1>4 DEF Consume, Become, Run
    <2>3. src \notin Consumed
      BY <2>1 DEF Consumed
    <2>4. Consumed' = Consumed \union {src}
      <3>1. router'.next[p] = router.next[p] + 1
            /\ \A q \in 1..P : q # p => router'.next[q] = router.next[q]
        BY <2>0, <2>2
      <3>2. 0..(router'.next[p] - 1) = (0..(router.next[p] - 1)) \union {router.next[p]}
        BY <2>1, <3>1
      <3>3. \A q \in 1..P : \A n :
              n \in 0..(router'.next[q] - 1) <=>
                n \in 0..(router.next[q] - 1) \/ (q = p /\ n = router.next[p])
        BY <3>1, <3>2
      <3>4. \A s : s \in Consumed' <=>
              \E q \in 1..P : \E n \in 0..(router'.next[q] - 1) : s = <<q, n>>
        BY DEF Consumed
      <3>5. \A s : s \in Consumed <=>
              \E q \in 1..P : \E n \in 0..(router.next[q] - 1) : s = <<q, n>>
        BY DEF Consumed
      <3>6. QED
        BY <3>3, <3>4, <3>5
    <2>5. /\ Len(router'.work) = 1 /\ DOMAIN router'.work = {1}
          /\ router'.work[1].src = src /\ router'.work[1].attempts = 0
          /\ router'.work[1].routed <=> MessageAt(src).class = "invalid"
      <3>1. /\ w.src = src /\ w.attempts = 0
            /\ w.routed <=> MessageAt(src).class = "invalid"
        OBVIOUS
      <3> HIDE DEF w
      <3>2. Len(router'.work) = 1 /\ DOMAIN router'.work = {1} /\ router'.work[1] = w
        BY <2>2
      <3>3. QED
        BY <3>1, <3>2
    <2>6. InHand = {} /\ InHand' = {src} /\ Routed' = Routed
      BY <2>1, <2>2, <2>5 DEF InHand, Routed
    <2>7. \A s : MessageAt(s)' = MessageAt(s)
      BY <2>2 DEF MessageAt
    <2>8. \A s, n : Outcome(s, n)' <=> Outcome(s, n)
      BY <2>7 DEF Outcome
    <2>9. IF router'.work[1].routed
          THEN Outcome(router'.work[1].src, router'.work[1].attempts)
          ELSE /\ MessageAt(router'.work[1].src).class # "invalid"
               /\ router'.work[1].attempts < MaxAttempts
      BY <2>5, RouterAssumption DEF Outcome
    <2>10. \A q \in 1..P : router'.next[q] <= Len(router'.source[q])
      BY <2>1, <2>2 DEF Worked
    <2>11. QED
      BY <2>2, <2>3, <2>4, <2>5, <2>6, <2>7, <2>8, <2>9, <2>10 DEF Worked
  <1>5. CASE ~ Start /\ ~ Process /\ ~ Produce /\ \A p \in 1..P : ~ Consume(p)
    BY <1>5, WorkedOther, WorkedFrame
  <1>6. QED
    BY <1>1, <1>2, <1>3, <1>4, <1>5

\* No step reports what the broker has not been handed.
LEMMA HandedStep ==
  ASSUME RunType, Worked, PhaseInv, Handed, [Next]_vars
  PROVE  Handed'
  <1>1. CASE Start
    BY <1>1, StartFrame DEF Handed
  <1>2. CASE ReadStart \/ ReadEnd
    BY <1>2, ReadStartFrame, ReadEndFrame DEF Handed
  <1>3. CASE Process \/ \E p \in 1..P : Consume(p)
    <2>1. router'.sent = router.sent
      BY <1>3 DEF RunType, Run, Process, Consume, Become
    <2>2. QED
      BY <1>3, <2>1, HandlingFrame DEF Handed
  <1>4. CASE Produce
    <2>1. router.sent \in Seq(Handover)
      BY SequenceTypes
    <2>2. router'.sent = Append(router.sent, [src |-> router.work[1].src,
                                              attempts |-> router.work[1].attempts])
      BY <1>4 DEF RunType, Run, Produce, Become
    <2>3. DOMAIN router.sent \subseteq DOMAIN router'.sent
      BY <2>1, <2>2
    <2>4. QED
      BY <1>4, <2>3, HandlingFrame DEF Handed
  <1>5. CASE Flush \/ VerifyNext \/ Reconcile \/ Raise \/ \E p \in 1..Q : Count(p)
    BY <1>5, EndingFrame DEF Handed
  <1>6. ASSUME NEW i \in DOMAIN router.sent, Deliver(i) \/ Expire(i)
        PROVE  Handed'
    <2>1. router'.sent = router.sent
      BY <1>6 DEF RunType, Run, Deliver, Expire, Become
    <2>2. QED
      BY <1>6, <2>1, ReportFrame DEF Handed, Outstanding
  <1>7. ASSUME NEW i \in DOMAIN router.sent, Store(i)
        PROVE  Handed'
    BY <1>7, StoreFrame DEF Handed
  <1>8. CASE UNCHANGED vars \/ \E c \in Cells, src \in SourceRange : WriteOther(c, src)
    BY <1>8 DEF vars, WriteOther, Handed
  <1>9. QED
    BY <1>1, <1>2, <1>3, <1>4, <1>5, <1>6, <1>7, <1>8 DEF Next, Route, Reports

\* No step goes on to a phase before its time.
LEMMA PhaseStep ==
  ASSUME RunType, Worked, PhaseInv, Handed, [Next]_vars
  PROVE  PhaseInv'
  <1>1. CASE Start
    BY <1>1, StartFrame DEF PhaseInv, Judged
  <1>2. CASE ReadStart
    BY <1>2, ReadStartFrame DEF PhaseInv, Judged
  <1>3. CASE ReadEnd
    <2>1. Consumed' = Consumed /\ SourceRange' = SourceRange /\ Outstanding' = Outstanding
      BY <1>3, ReadEndFrame, ScopeFrame
    <2>2. QED
      BY <1>3, <2>1, ReadEndFrame DEF PhaseInv, Judged
  <1>4. CASE Process \/ Produce \/ \E p \in 1..P : Consume(p)
    BY <1>4, HandlingFrame DEF PhaseInv, Judged
  <1>5. CASE Flush \/ VerifyNext \/ Reconcile \/ Raise \/ \E p \in 1..Q : Count(p)
    <2>1. Consumed' = Consumed /\ SourceRange' = SourceRange /\ Outstanding' = Outstanding
      BY <1>5, EndingFrame, ScopeFrame
    <2>2. CASE Flush
      BY <2>1, <2>2, EndingFrame DEF PhaseInv, Judged
    <2>3. CASE VerifyNext \/ \E p \in 1..Q : Count(p)
      BY <2>1, <2>3, EndingFrame DEF PhaseInv, Judged, Flush
    <2>4. CASE Reconcile
      <3>1. Reconciled' <=> Reconciled
        BY <2>4, EndingFrame, ReconciledFrame DEF Flush, Reconcile
      <3>2. ~ Flush
        BY <2>4 DEF Flush, Reconcile
      <3>3. QED
        BY <2>1, <2>4, <3>1, <3>2, EndingFrame DEF PhaseInv, Judged
    <2>5. CASE Raise
      BY <2>5, EndingFrame DEF PhaseInv, Judged
    <2>6. QED
      BY <1>5, <2>2, <2>3, <2>4, <2>5
  <1>6. ASSUME NEW i \in DOMAIN router.sent, Deliver(i) \/ Expire(i)
        PROVE  PhaseInv'
    BY <1>6, ReportFrame DEF PhaseInv, Judged
  <1>7. ASSUME NEW i \in DOMAIN router.sent, Store(i)
        PROVE  PhaseInv'
    BY <1>7, StoreFrame, ReconciledFrame DEF PhaseInv, Judged
  <1>8. CASE UNCHANGED vars \/ \E c \in Cells, src \in SourceRange : WriteOther(c, src)
    <2>1. router' = router
      BY <1>8 DEF vars, WriteOther
    <2>2. QED
      BY <2>1, ReconciledFrame DEF PhaseInv, Judged
  <1>9. QED
    BY <1>1, <1>2, <1>3, <1>4, <1>5, <1>6, <1>7, <1>8 DEF Next, Route, Reports

-----------------------------------------------------------------------------
(* The logs.                                                               *)

\* Cells are numbered without repetition, and the numbered cell is read.
LEMMA CellNumbers ==
  ASSUME RunType
  PROVE  /\ Number(AtCell) = router.at
         /\ \A c \in Cells : /\ Number(c) \in 1..(2 * Q)
                             /\ Number(c) = router.at => c = AtCell
  <1>1. router.at \in 1..(2 * Q)
    BY OffsetTypes
  <1>2. Number(AtCell) = router.at
    BY <1>1, RouterAssumption DEF Number, AtCell
  <1>3. ASSUME NEW c \in Cells
        PROVE  Number(c) \in 1..(2 * Q) /\ (Number(c) = router.at => c = AtCell)
    <2>1. PICK t \in {"REJECTED", "DLQ"}, q \in 1..Q : c = <<t, q>>
      BY DEF Cells
    <2>2. CASE t = "REJECTED"
      BY <1>1, <2>1, <2>2, RouterAssumption DEF Number, AtCell
    <2>3. CASE t = "DLQ"
      BY <1>1, <2>1, <2>3, RouterAssumption DEF Number, AtCell
    <2>4. QED
      BY <2>2, <2>3
  <1>4. QED
    BY <1>2, <1>3

\* Every cell has a log.
LEMMA LogTypes ==
  ASSUME RunType, NEW c \in Cells
  PROVE  out[c] \in Seq(Envelope) /\ Len(out[c]) \in Nat
         /\ router.starts[c] \in Nat /\ router.ends[c] \in Nat
  <1>1. out[c] \in Seq(Envelope)
    BY DEF RunType
  <1>2. router.starts[c] \in Nat /\ router.ends[c] \in Nat
    BY OffsetTypes
  <1>3. QED
    BY <1>1, <1>2, LenOfSeq

\* An append to a log keeps what the logs hold.
LEMMA PlacedAppend ==
  ASSUME RunType, Worked, Handed, Placed, NEW c \in Cells, NEW e,
         out' = [out EXCEPT ![c] = Append(@, e)],
         router'.source = router.source, router'.sent = router.sent,
         router'.starts = router.starts, router'.ends = router.ends,
         router'.delivered = router.delivered,
         \A d : EndRead(d)' <=> EndRead(d),
         \A i \in router'.appended :
           \/ i \in router.appended
           \/ i \in DOMAIN router.sent /\ c = CellOf(i) /\ e = Written(i)
  PROVE  Placed'
  <1>1. \A i : CellOf(i)' = CellOf(i) /\ Written(i)' = Written(i)
    BY DEF CellOf, TopicOf, MessageAt, Written
  <1>2. /\ Len(out'[c]) = Len(out[c]) + 1 /\ out'[c][Len(out[c]) + 1] = e
        /\ \A k \in 1..Len(out[c]) : out'[c][k] = out[c][k]
        /\ \A d \in Cells : d # c => out'[d] = out[d]
    <2>1. out \in [Cells -> Seq(Envelope)] /\ out'[c] = Append(out[c], e)
      BY DEF RunType
    <2>2. out[c] \in Seq(Envelope)
      BY <2>1
    <2>3. QED
      BY <2>1, <2>2
  <1>3. \A d \in Cells : Len(out[d]) <= Len(out'[d])
          /\ \A k \in 1..Len(out[d]) : out'[d][k] = out[d][k]
    BY <1>2, LogTypes
  <1>4. \A d \in Cells : router'.starts[d] <= Len(out'[d])
    BY <1>3, LogTypes DEF Placed
  <1>5. ASSUME NEW i \in DOMAIN router.sent, NEW a \in Nat, NEW b \in Nat, HeldIn(i, a, b)
        PROVE  \E k \in (a + 1)..b : k <= Len(out'[CellOf(i)]) /\ out'[CellOf(i)][k] = Written(i)
    <2>1. CellOf(i) \in Cells
      BY CellsOfSent
    <2>2. PICK k \in (a + 1)..b : k <= Len(out[CellOf(i)]) /\ out[CellOf(i)][k] = Written(i)
      BY <1>5 DEF HeldIn
    <2>3. k \in 1..Len(out[CellOf(i)]) /\ Len(out'[CellOf(i)]) \in Nat
      BY <1>2, <2>1, <2>2, LogTypes
    <2>4. k <= Len(out'[CellOf(i)])
      BY <1>3, <2>1, <2>2, <2>3, LogTypes
    <2>5. QED
      BY <1>3, <2>1, <2>2, <2>3, <2>4
  <1>6. ASSUME NEW i \in router'.appended
        PROVE  HeldIn(i, router.starts[CellOf(i)], Len(out[CellOf(i)]))'
    <2>1. CASE i \in router.appended
      <3>1. i \in DOMAIN router.sent /\ CellOf(i) \in Cells
        BY <2>1, CellsOfSent DEF Handed
      <3>2. HeldIn(i, router.starts[CellOf(i)], Len(out[CellOf(i)]))
        BY <2>1 DEF Placed
      <3>3. PICK k \in (router.starts[CellOf(i)] + 1)..Len(out[CellOf(i)]) :
              k <= Len(out'[CellOf(i)]) /\ out'[CellOf(i)][k] = Written(i)
        BY <1>5, <3>1, <3>2, LogTypes
      <3>4. k \in (router.starts[CellOf(i)] + 1)..Len(out'[CellOf(i)])
        BY <1>2, <3>1, <3>3, LogTypes
      <3>5. QED
        BY <1>1, <3>3, <3>4 DEF HeldIn
    <2>2. CASE i \in DOMAIN router.sent /\ c = CellOf(i) /\ e = Written(i)
      <3>1. router.starts[c] <= Len(out[c])
        BY DEF Placed
      <3>2. Len(out[c]) + 1 \in (router.starts[c] + 1)..Len(out'[c])
        BY <1>2, <3>1, LogTypes
      <3>3. QED
        BY <1>1, <1>2, <2>2, <3>2 DEF HeldIn
    <2>3. QED
      BY <2>1, <2>2
  <1>7. ASSUME NEW i \in router'.delivered, EndRead(CellOf(i))'
        PROVE  HeldIn(i, router.starts[CellOf(i)], router.ends[CellOf(i)])'
    <2>1. i \in DOMAIN router.sent /\ CellOf(i) \in Cells
      BY CellsOfSent DEF Handed
    <2>2. EndRead(CellOf(i))
      BY <1>1, <1>7
    <2>3. HeldIn(i, router.starts[CellOf(i)], router.ends[CellOf(i)])
      BY <2>2 DEF Placed
    <2>4. QED
      BY <1>1, <1>5, <2>1, <2>3, LogTypes DEF HeldIn
  <1>8. QED
    BY <1>4, <1>6, <1>7 DEF Placed

\* Placed is about the logs, the watermarks, and what was handed over.
LEMMA PlacedFrame ==
  ASSUME Placed, Handed, out' = out,
         router'.source = router.source, router'.sent = router.sent,
         router'.starts = router.starts, router'.ends = router.ends,
         router'.appended = router.appended, router'.delivered = router.delivered,
         \A d : EndRead(d)' => EndRead(d)
  PROVE  Placed'
  <1>1. \A i : CellOf(i)' = CellOf(i) /\ Written(i)' = Written(i)
    BY DEF CellOf, TopicOf, MessageAt, Written
  <1>2. \A i, a, b : HeldIn(i, a, b)' <=> HeldIn(i, a, b)
    BY <1>1 DEF HeldIn
  <1>3. QED
    BY <1>1, <1>2 DEF Placed

\* No step puts an envelope of the run outside its watermarks.
LEMMA PlacedStep ==
  ASSUME RouterInv, [Next]_vars
  PROVE  Placed'
  <1>0. RunType /\ Worked /\ PhaseInv /\ Handed /\ Placed
    BY DEF RouterInv
  <1> USE <1>0
  <1>b. PhaseInv' /\ RunType' /\ Handed'
    BY RunTypeStep, PhaseStep, HandedStep
  <1>a. router'.phase \in {"idle", "starts", "route"} => \A d : ~ EndRead(d)'
    BY <1>b DEF PhaseInv, EndRead, Judged
  <1>1. CASE Start
    <2>1. router.appended = {} /\ router.delivered = {}
      <3>1. router.sent = <<>>
        BY <1>1, StartFrame DEF PhaseInv
      <3>2. QED
        BY <3>1 DEF Handed
    <2>2. QED
      BY <1>1, <2>1, StartFrame DEF Placed
  <1>2. CASE ReadStart
    <2>1. router.appended = {} /\ router.delivered = {}
      <3>1. router.sent = <<>>
        BY <1>2, ReadStartFrame DEF PhaseInv
      <3>2. QED
        BY <3>1 DEF Handed
    <2>2. \A c \in Cells : router'.starts[c] <= Len(out'[c])
      <3>1. ASSUME NEW c \in Cells
            PROVE  router'.starts[c] <= Len(out'[c])
        <4>1. CASE c = AtCell
          <5>1. router'.starts[c] = Len(out[c]) /\ out' = out
            BY <1>2, <4>1, ReadStartFrame, OffsetTypes
          <5>2. QED
            BY <5>1, LogTypes
        <4>2. CASE c # AtCell
          BY <1>2, <4>2, ReadStartFrame, OffsetTypes DEF Placed
        <4>3. QED
          BY <4>1, <4>2
      <3>2. QED
        BY <3>1
    <2>3. QED
      BY <1>2, <2>1, <2>2, ReadStartFrame DEF Placed
  <1>3. CASE ReadEnd
    <2>1. \A i : CellOf(i)' = CellOf(i) /\ Written(i)' = Written(i)
      BY <1>3, ReadEndFrame DEF CellOf, TopicOf, MessageAt, Written
    <2>2. \A i, a, b : HeldIn(i, a, b)' <=> HeldIn(i, a, b)
      BY <1>3, <2>1, ReadEndFrame DEF HeldIn
    <2>3. ASSUME NEW i \in router'.delivered, EndRead(CellOf(i))'
          PROVE  HeldIn(i, router'.starts[CellOf(i)], router'.ends[CellOf(i)])
      <3>1. i \in router.delivered /\ i \in router.appended
        BY <1>3, <2>3, ReadEndFrame DEF Handed
      <3>2. CellOf(i) \in Cells
        BY <3>1, CellsOfSent DEF Handed
      <3>3. CASE CellOf(i) = AtCell
        <4>1. router'.ends[CellOf(i)] = Len(out[CellOf(i)])
          BY <1>3, <3>2, <3>3, ReadEndFrame, OffsetTypes
        <4>2. QED
          BY <1>3, <3>1, <4>1, ReadEndFrame DEF Placed
      <3>4. CASE CellOf(i) # AtCell
        <4>1. router'.ends[CellOf(i)] = router.ends[CellOf(i)]
          BY <1>3, <3>2, <3>4, ReadEndFrame, OffsetTypes
        <4>2. Number(CellOf(i)) < router.at
          <5>1. /\ Number(CellOf(i)) \in 1..(2 * Q) /\ Number(CellOf(i)) # router.at
                /\ router.at \in 1..(2 * Q)
            BY <3>2, <3>4, CellNumbers, OffsetTypes
          <5>2. CASE router.at = 2 * Q
            BY <5>1, <5>2, RouterAssumption
          <5>3. CASE router.at # 2 * Q
            <6>1. router'.phase = "ends" /\ router'.at = router.at + 1
                  /\ router'.status = router.status /\ router.phase = "ends"
              BY <1>3, <5>3, ReadEndFrame
            <6>2. ~ Judged'
              BY <6>1 DEF Judged, PhaseInv
            <6>3. Number(CellOf(i)) < router'.at
              BY <2>1, <2>3, <6>2 DEF EndRead, Number
            <6>4. QED
              BY <5>1, <6>1, <6>3, RouterAssumption
          <5>4. QED
            BY <5>2, <5>3
        <4>3. EndRead(CellOf(i))
          BY <1>3, <4>2, ReadEndFrame DEF EndRead
        <4>4. QED
          BY <1>3, <3>1, <4>1, <4>3, ReadEndFrame DEF Placed
      <3>5. QED
        BY <3>3, <3>4
    <2>4. QED
      BY <1>3, <2>1, <2>2, <2>3, ReadEndFrame DEF Placed
  <1>4. CASE Process \/ \E p \in 1..P : Consume(p)
    <2>1. router'.sent = router.sent
      BY <1>4 DEF RunType, Run, Process, Consume, Become
    <2>2. QED
      BY <1>4, <1>a, <2>1, HandlingFrame, PlacedFrame
  <1>5. CASE Produce
    <2>1. router.sent \in Seq(Handover)
      BY SequenceTypes
    <2>2. router'.sent = Append(router.sent, [src |-> router.work[1].src,
                                              attempts |-> router.work[1].attempts])
      BY <1>5 DEF RunType, Run, Produce, Become
    <2>3. \A i \in DOMAIN router.sent : router'.sent[i] = router.sent[i]
      BY <2>1, <2>2
    <2>4. \A i \in router.appended : CellOf(i)' = CellOf(i) /\ Written(i)' = Written(i)
      BY <1>5, <2>3, HandlingFrame DEF CellOf, TopicOf, MessageAt, Written, Handed
    <2>5. \A i \in router.appended : \A a, b : HeldIn(i, a, b)' <=> HeldIn(i, a, b)
      BY <1>5, <2>4, HandlingFrame DEF HeldIn
    <2>6. QED
      BY <1>5, <1>a, <2>4, <2>5, HandlingFrame DEF Placed
  <1>6. CASE Flush \/ VerifyNext \/ Reconcile \/ Raise \/ \E p \in 1..Q : Count(p)
    <2>1. CASE Flush
      <3>1. router'.phase = "ends" /\ router'.status = router.status /\ router'.at = 1
            /\ router.phase = "route"
        BY <2>1, EndingFrame DEF PhaseInv
      <3>2. \A d \in Cells : ~ EndRead(d)'
        <4>1. ~ Judged'
          BY <3>1 DEF Judged, PhaseInv
        <4>2. \A d \in Cells : Number(d) \in 1..(2 * Q)
          BY CellNumbers
        <4>3. \A d \in Cells : ~ (Number(d) < 1)
          BY <4>2, RouterAssumption
        <4>4. QED
          BY <3>1, <4>1, <4>3 DEF EndRead, Number
      <3>3. \A i : CellOf(i)' = CellOf(i) /\ Written(i)' = Written(i)
        BY <2>1, EndingFrame DEF CellOf, TopicOf, MessageAt, Written
      <3>4. \A i, a, b : HeldIn(i, a, b)' <=> HeldIn(i, a, b)
        BY <2>1, <3>3, EndingFrame DEF HeldIn
      <3>5. \A i \in router.delivered : CellOf(i) \in Cells
        BY CellsOfSent DEF Handed
      <3>6. QED
        BY <2>1, <3>2, <3>3, <3>4, <3>5, EndingFrame DEF Placed
    <2>2. CASE VerifyNext \/ \E p \in 1..Q : Count(p)
      <3>1. \A d : EndRead(d)' => EndRead(d)
        BY <2>2, EndingFrame DEF EndRead, Judged
      <3>2. QED
        BY <2>2, <3>1, EndingFrame, PlacedFrame
    <2>3. CASE Reconcile
      <3>1. \A d : EndRead(d)' => EndRead(d)
        BY <2>3, EndingFrame DEF EndRead, Judged
      <3>2. QED
        BY <2>3, <3>1, EndingFrame, PlacedFrame
    <2>4. CASE Raise
      <3>1. \A d : EndRead(d)' => EndRead(d)
        BY <2>4, EndingFrame DEF EndRead, Judged
      <3>2. QED
        BY <2>4, <3>1, EndingFrame, PlacedFrame
    <2>5. QED
      BY <1>6, <2>1, <2>2, <2>3, <2>4
  <1>7. ASSUME NEW i \in DOMAIN router.sent, Deliver(i) \/ Expire(i)
        PROVE  Placed'
    <2>1. /\ router'.sent = router.sent /\ router'.source = router.source
          /\ router'.appended = router.appended /\ router'.starts = router.starts
          /\ router'.phase = "route" /\ out' = out
      <3>1. router' = [router EXCEPT !.delivered = router'.delivered,
                                     !.failed = router'.failed]
            /\ router'.phase = "route" /\ out' = out
        BY <1>7, ReportFrame
      <3>2. QED
        BY <3>1 DEF RunType, Run
    <2>2. \A j : CellOf(j)' = CellOf(j) /\ Written(j)' = Written(j)
      BY <2>1 DEF CellOf, TopicOf, MessageAt, Written
    <2>3. \A j, a, b : HeldIn(j, a, b)' <=> HeldIn(j, a, b)
      BY <2>1, <2>2 DEF HeldIn
    <2>4. QED
      BY <1>a, <2>1, <2>2, <2>3 DEF Placed
  <1>8. ASSUME NEW i \in DOMAIN router.sent, Store(i)
        PROVE  Placed'
    <2>1. \A d : EndRead(d)' <=> EndRead(d)
      BY <1>8, StoreFrame DEF EndRead, Judged
    <2>2. QED
      <3>1. CellOf(i) \in Cells
        BY CellsOfSent
      <3>2. /\ out' = [out EXCEPT ![CellOf(i)] = Append(@, Written(i))]
            /\ router'.source = router.source /\ router'.sent = router.sent
            /\ router'.starts = router.starts /\ router'.ends = router.ends
            /\ router'.delivered = router.delivered
            /\ router'.appended = router.appended \union {i}
        BY <1>8, StoreFrame
      <3>3. \A j \in router'.appended :
              \/ j \in router.appended
              \/ j \in DOMAIN router.sent /\ CellOf(i) = CellOf(j) /\ Written(i) = Written(j)
        BY <3>2
      <3> DEFINE c == CellOf(i)
                 e == Written(i)
      <3>4. c \in Cells /\ out' = [out EXCEPT ![c] = Append(@, e)]
            /\ \A j \in router'.appended :
                 \/ j \in router.appended
                 \/ j \in DOMAIN router.sent /\ c = CellOf(j) /\ e = Written(j)
        BY <3>1, <3>2, <3>3
      <3> HIDE DEF c, e
      <3>5. QED
        BY <2>1, <3>2, <3>4, PlacedAppend
  <1>9. ASSUME NEW c \in Cells, NEW src \in SourceRange, WriteOther(c, src)
        PROVE  Placed'
    <2>1. \A d : EndRead(d)' <=> EndRead(d)
      BY <1>9 DEF WriteOther, EndRead, Judged
    <2>2. QED
      BY <1>9, <2>1, PlacedAppend DEF WriteOther
  <1>10. CASE UNCHANGED vars
    <2>1. \A d : EndRead(d)' => EndRead(d)
      BY <1>10 DEF vars, EndRead, Judged
    <2>2. QED
      BY <1>10, <2>1, PlacedFrame DEF vars
  <1>11. QED
    BY <1>1, <1>2, <1>3, <1>4, <1>5, <1>6, <1>7, <1>8, <1>9, <1>10
       DEF Next, Route, Reports

-----------------------------------------------------------------------------
(* Theorems.                                                               *)

\* Every reachable state satisfies the invariant (failure_router.py:159-325).
THEOREM RouterInvariant == Spec => []RouterInv
  <1>1. Init => RouterInv
    <2> SUFFICES ASSUME Init
                 PROVE  RouterInv
      OBVIOUS
    <2>1. router = NotStarted /\ out = [c \in Cells |-> <<>>]
      BY DEF Init
    <2>2. RunType
      <3>1. router \in Run
        <4>1. /\ [p \in 1..P |-> <<>>] \in Ranges /\ [p \in 1..P |-> 0] \in Progress
              /\ <<>> \in Works /\ {} \in Passed /\ <<>> \in Sent /\ {} \in Numbers
              /\ [c \in Cells |-> 0] \in Offsets /\ {} \in Seen /\ {} \in Verified
              /\ 1 \in Places /\ "idle" \in Phases /\ "NONE" \in Statuses
          BY RouterAssumption DEF Ranges, Progress, Works, Passed, Sent, Numbers,
             Offsets, Seen, Verified, Places, Phases, Statuses
        <4>2. QED
          BY <2>1, <4>1 DEF NotStarted, Run
      <3>2. IsFiniteSet({})
        BY FS_EmptySet
      <3>3. router.seen = {} /\ router.phase = "idle"
        BY <2>1 DEF NotStarted
      <3>4. out \in [Cells -> Seq(Envelope)]
        BY <2>1
      <3>5. QED
        BY <3>1, <3>2, <3>3, <3>4 DEF RunType
    <2>3. /\ router.phase = "idle" /\ router.status = "NONE" /\ router.at = 1
          /\ router.next = [p \in 1..P |-> 0] /\ router.source = [p \in 1..P |-> <<>>]
          /\ router.work = <<>> /\ router.passed = {} /\ router.sent = <<>>
          /\ router.appended = {} /\ router.delivered = {} /\ router.failed = {}
          /\ router.starts = [c \in Cells |-> 0]
      BY <2>1 DEF NotStarted
    <2>4. Consumed = {} /\ InHand = {} /\ Routed = {}
      <3>1. \A p \in 1..P : 0..(router.next[p] - 1) = {}
        BY <2>3
      <3>2. QED
        BY <2>3, <3>1 DEF Consumed, InHand, Routed
    <2>5. Worked
      BY <2>3, <2>4 DEF Worked
    <2>6. PhaseInv /\ Handed
      BY <2>3 DEF PhaseInv, Judged, Handed
    <2>7. Placed
      BY <2>1, <2>3 DEF Placed
    <2>8. QED
      BY <2>2, <2>5, <2>6, <2>7 DEF RouterInv
  <1>2. RouterInv /\ [Next]_vars => RouterInv'
    BY RunTypeStep, WorkedStep, PhaseStep, HandedStep, PlacedStep DEF RouterInv
  <1>3. QED
    BY <1>1, <1>2, PTL DEF Spec

\* Every variable has the shape the code gives it, whatever the source, the outcomes of
\* delivery and the other runs (failure_router.py:159-325).
THEOREM TypeCorrect == Spec => []TypeOK
  <1>1. RouterInv => TypeOK
    <2> SUFFICES ASSUME RouterInv
                 PROVE  TypeOK
      OBVIOUS
    <2>0. RunType /\ Worked /\ Handed
      BY DEF RouterInv
    <2>1. router.work = <<>> \/ /\ Len(router.work) = 1
                                /\ router.work[1].src \in Consumed
                                /\ router.work[1].attempts \in 0..MaxAttempts
      <3>1. CASE router.work = <<>>
        BY <3>1
      <3>2. CASE router.work # <<>>
        <4>1. Len(router.work) = 1 /\ 1 \in DOMAIN router.work /\ router.work[1] \in Work
          <5>1. router.work \in Seq(Work) /\ Len(router.work) <= 1
            BY <2>0, SequenceTypes DEF Worked
          <5>2. QED
            BY <3>2, <5>1, ShortSeq
        <4>2. router.work[1].src \in Consumed
          BY <2>0, <4>1 DEF Worked, InHand
        <4>3. router.work[1].attempts \in Nat
          BY <4>1 DEF Work
        <4>4. router.work[1].attempts <= MaxAttempts
          BY <2>0, <4>1, <4>3, RouterAssumption DEF Worked, Outcome
        <4>5. QED
          BY <4>1, <4>2, <4>3, <4>4, RouterAssumption
      <3>3. QED
        BY <3>1, <3>2
    <2>2. router.passed \subseteq Consumed
      BY <2>0 DEF Worked
    <2>3. \A i \in DOMAIN router.sent : router.sent[i].src \in Consumed
      BY <2>0, CellsOfSent
    <2>4. router.phase \in Phases /\ router.status \in Statuses
      BY <2>0 DEF RunType, Run
    <2>5. out \in [Cells -> Seq(Envelope)]
      BY <2>0 DEF RunType
    <2>6. QED
      BY <2>0, <2>1, <2>2, <2>3, <2>4, <2>5, SourceTypes, OffsetTypes, SetTypes
         DEF TypeOK, Handed, Phases, Statuses
  <1>2. QED
    BY <1>1, RouterInvariant, PTL

\* After a successful manifest every message of the source has exactly one outcome
\* (failure_router.py:196-325).
THEOREM RoutesExactly == Spec => []RoutedExactly
  <1>1. RouterInv => RoutedExactly
    <2> SUFFICES ASSUME RouterInv, router.status = "SUCCEEDED"
                 PROVE  /\ router.passed = {s \in SourceRange : MessageAt(s).class = "valid"}
                        /\ \A s \in SourceRange \ router.passed :
                             \E co \in RangeOf(TopicOf(s)) :
                               /\ co[1][2] = MessageAt(s).part
                               /\ EnvelopeAt(co) =
                                    [src |-> s, own |-> TRUE,
                                     attempts |-> IF TopicOf(s) = "DLQ" THEN MaxAttempts ELSE 0]
                        /\ Cardinality(RangeOf("REJECTED")) + Cardinality(RangeOf("DLQ"))
                             = Cardinality(SourceRange \ router.passed)
      BY DEF RoutedExactly
    <2>0. RunType /\ Worked /\ PhaseInv /\ Handed /\ Placed
      BY DEF RouterInv
    <2>1. /\ router.work = <<>> /\ Consumed = SourceRange /\ Reconciled
          /\ Outstanding = {} /\ router.failed = {}
      BY <2>0 DEF PhaseInv, Judged, Reconciled
    <2>2. router.delivered = DOMAIN router.sent
      BY <2>0, <2>1 DEF Outstanding, Handed
    <2>3. InHand = {} /\ SourceRange = router.passed \union Routed
          /\ Routed \intersect router.passed = {}
      BY <2>0, <2>1 DEF InHand, Worked
    <2>4. \A s \in Routed : MessageAt(s).class \in {"invalid", "fault"}
      BY <2>0 DEF Routed, Worked, Outcome
    <2>5. router.passed = {s \in SourceRange : MessageAt(s).class = "valid"}
      BY <2>0, <2>3, <2>4 DEF Worked
    <2>6. ASSUME NEW s \in SourceRange \ router.passed
          PROVE  \E co \in RangeOf(TopicOf(s)) :
                   /\ co[1][2] = MessageAt(s).part
                   /\ EnvelopeAt(co) =
                        [src |-> s, own |-> TRUE,
                         attempts |-> IF TopicOf(s) = "DLQ" THEN MaxAttempts ELSE 0]
      <3>1. PICK i \in DOMAIN router.sent : router.sent[i].src = s
        BY <2>3 DEF Routed
      <3> DEFINE c == CellOf(i)
      <3>2. c \in Cells /\ c = <<TopicOf(s), MessageAt(s).part>>
            /\ TopicOf(s) \in {"REJECTED", "DLQ"} /\ MessageAt(s).part \in 1..Q
        <4>1. CellOf(i) \in Cells
          BY <2>0, CellsOfSent
        <4>2. MessageAt(s) \in Message
          BY <2>0, <3>1, CellsOfSent
        <4>3. QED
          BY <3>1, <4>1, <4>2 DEF CellOf, TopicOf, Message
      <3>3. HeldIn(i, router.starts[c], router.ends[c])
        BY <2>0, <2>2 DEF Placed, EndRead, Judged
      <3>4. PICK k \in (router.starts[c] + 1)..router.ends[c] : out[c][k] = Written(i)
        BY <3>3 DEF HeldIn
      <3> HIDE DEF c
      <3>5. router.starts[c] \in Nat /\ router.ends[c] \in Nat
        BY <2>0, <3>2, LogTypes
      <3> DEFINE co == <<c, k - 1>>
      <3>6. co \in RangeOf(TopicOf(s))
        <4>1. k - 1 \in router.starts[c]..(router.ends[c] - 1)
          BY <3>4, <3>5
        <4>2. c \in {TopicOf(s)} \X (1..Q)
          BY <3>2
        <4>3. QED
          BY <4>1, <4>2 DEF RangeOf
      <3>7. EnvelopeAt(co) = Written(i)
        <4>1. (k - 1) + 1 = k
          BY <3>5
        <4>2. QED
          BY <3>4, <4>1 DEF EnvelopeAt
      <3>8. Written(i) = [src |-> s, own |-> TRUE,
                          attempts |-> IF TopicOf(s) = "DLQ" THEN MaxAttempts ELSE 0]
        <4>1. Outcome(s, router.sent[i].attempts)
          BY <2>0, <3>1 DEF Worked
        <4>2. router.sent[i].attempts = IF TopicOf(s) = "DLQ" THEN MaxAttempts ELSE 0
          BY <4>1 DEF Outcome, TopicOf
        <4>3. QED
          BY <3>1, <4>2 DEF Written
      <3>9. co[1][2] = MessageAt(s).part
        BY <3>2
      <3>10. QED
        BY <3>6, <3>7, <3>8, <3>9
    <2>7. Cardinality(RangeOf("REJECTED")) + Cardinality(RangeOf("DLQ"))
            = Cardinality(SourceRange \ router.passed)
      <3>1. Cardinality(RangeOf("REJECTED")) + Cardinality(RangeOf("DLQ"))
              = Cardinality(Delivered("REJECTED")) + Cardinality(Delivered("DLQ"))
        BY <2>1 DEF Reconciled
      <3>2. IsFiniteSet(DOMAIN router.sent)
        BY <2>0, SequenceTypes, IndicesOfSeq
      <3>3. /\ Delivered("REJECTED") \union Delivered("DLQ") = DOMAIN router.sent
            /\ Delivered("REJECTED") \intersect Delivered("DLQ") = {}
        <4>1. \A i \in DOMAIN router.sent : CellOf(i)[1] \in {"REJECTED", "DLQ"}
          BY <2>0, CellsOfSent DEF Cells
        <4>2. QED
          BY <2>2, <4>1 DEF Delivered
      <3>4. Cardinality(DOMAIN router.sent) =
              Cardinality(Delivered("REJECTED")) + Cardinality(Delivered("DLQ"))
        <4>1. /\ IsFiniteSet(Delivered("REJECTED")) /\ IsFiniteSet(Delivered("DLQ"))
          BY <2>2, <3>2, FS_Subset DEF Delivered
        <4>2. /\ Cardinality(Delivered("REJECTED")) \in Nat
              /\ Cardinality(Delivered("DLQ")) \in Nat
          BY <4>1, FS_CardinalityType
        <4>3. Cardinality(Delivered("REJECTED") \union Delivered("DLQ")) =
                Cardinality(Delivered("REJECTED")) + Cardinality(Delivered("DLQ"))
                - Cardinality(Delivered("REJECTED") \intersect Delivered("DLQ"))
          BY <4>1, FS_Union
        <4>4. Cardinality({}) = 0
          BY FS_EmptySet
        <4>5. QED
          <5>1. Cardinality(DOMAIN router.sent) =
                  Cardinality(Delivered("REJECTED")) + Cardinality(Delivered("DLQ"))
                  - Cardinality({})
            BY <3>3, <4>3
          <5>2. QED
            BY <4>2, <4>4, <5>1
      <3>5. Cardinality(Routed) = Cardinality(DOMAIN router.sent)
        <4> DEFINE f == [i \in DOMAIN router.sent |-> router.sent[i].src]
        <4>1. f \in Bijection(DOMAIN router.sent, Routed)
          <5>1. f \in [DOMAIN router.sent -> Routed]
            BY DEF Routed
          <5>2. \A i, j \in DOMAIN router.sent : f[i] = f[j] => i = j
            BY <2>0 DEF Worked
          <5>3. \A s \in Routed : \E i \in DOMAIN router.sent : f[i] = s
            BY DEF Routed
          <5> HIDE DEF f
          <5>4. QED
            BY <5>1, <5>2, <5>3 DEF Bijection, Injection, Surjection, IsInjective
        <4>2. ExistsBijection(DOMAIN router.sent, Routed)
          BY <4>1 DEF ExistsBijection
        <4>3. QED
          BY <3>2, <4>2, FS_Bijection
      <3>6. SourceRange \ router.passed = Routed
        BY <2>3
      <3>7. QED
        BY <3>1, <3>4, <3>5, <3>6
    <2>8. QED
      BY <2>5, <2>6, <2>7
  <1>2. QED
    BY <1>1, RouterInvariant, PTL
=============================================================================
