------------------------ MODULE StreamingSilverProofs ------------------------
(***************************************************************************)
(* Theorems about StreamingSilver, for every number of partitions, every   *)
(* set of ids and times, every recorded range in any log, any delay of the *)
(* watermark, any limit of offsets, and any number of executions and of    *)
(* messages of other producers.                                            *)
(***************************************************************************)
EXTENDS StreamingSilver, TLAPS, FiniteSetTheorems, WellFoundedInduction

-----------------------------------------------------------------------------
(* The inductive invariant.                                                *)

\* The sets the parts of the state are from.
Phases     == {"idle", "check", "ended"} \union Queries
Vector     == [1..P -> Nat]
Places     == (1..P) \X Nat
Checkpoint == [done : Nat, at : Vector, plan : Vector \union {<<>>},
               memory : SUBSET Ids, late : Int, evict : Int]
Sinks      == Seq(SUBSET Places)
Logs       == [1..P -> Seq(Message)]

\* The state has the shape the actions rely on.
Shape ==
  /\ log \in Logs
  /\ manifest \in [starts : Vector, ends : Vector]
  /\ ck \in [Queries -> Checkpoint]
  /\ sink \in [Queries -> Sinks]
  /\ exec \in [phase : Phases, limit : Vector, number : 0..MaxExecutions,
               succeeded : SUBSET Nat]
  /\ exec.succeeded \subseteq 1..exec.number
  /\ exec.phase # "idle" => exec.number >= 1

\* The topic holds the recorded range.
LogInv ==
  \A p \in 1..P : /\ manifest.starts[p] <= manifest.ends[p]
                  /\ manifest.ends[p] <= Len(log[p])

\* A query that has nothing planned, and whose state has caught up with its watermark.
Finished(q) == ck[q].plan = <<>> /\ ck[q].late = ck[q].evict

\* A checkpoint lies within the topic, what is planned is ahead of it, and the sink is
\* ahead of it by the planned batch at most.
CheckpointInv ==
  \A q \in Queries :
    /\ \A p \in 1..P : manifest.starts[p] <= ck[q].at[p] /\ ck[q].at[p] <= Len(log[p])
    /\ ck[q].plan # <<>> =>
         \A p \in 1..P : ck[q].at[p] <= ck[q].plan[p] /\ ck[q].plan[p] <= Len(log[p])
    /\ \/ Len(sink[q]) = ck[q].done
       \/ Len(sink[q]) = ck[q].done + 1 /\ ck[q].plan # <<>>

\* No query goes beyond its limit, a query starts when the ones before have finished,
\* and those that follow the landing query reach as far as it at least.
PhaseInv ==
  /\ Running => \A p \in 1..P : /\ ck[Query].at[p] <= exec.limit[p]
                                /\ ck[Query].plan # <<>> => ck[Query].plan[p] <= exec.limit[p]
  /\ \A p \in 1..P : exec.limit[p] <= Len(log[p])
  /\ exec.phase \in {"accepted", "rejected", "check"} => Finished("landing")
  /\ exec.phase \in {"rejected", "check"} => Finished("accepted")
  /\ exec.phase = "check" => Finished("rejected")
  /\ \A p \in 1..P :
       /\ exec.phase \in {"accepted", "rejected"} => ck["landing"].at[p] <= exec.limit[p]
       /\ exec.phase \in {"rejected", "check"} => ck["landing"].at[p] <= ck["accepted"].at[p]
       /\ exec.phase = "check" => ck["landing"].at[p] <= ck["rejected"].at[p]

\* Where the queries are.
QueriesInv == Shape /\ LogInv /\ CheckpointInv /\ PhaseInv

\* The offsets that the rows in the sink of a query reach.
Reached(q) == IF Len(sink[q]) = ck[q].done THEN ck[q].at ELSE ck[q].plan

\* The valid messages from one vector of offsets to another.
Valid(from, to)  == {row \in Between(from, to) : At(row).ok}

\* The invalid ones.
Invalid(from, to) == {row \in Between(from, to) : ~ At(row).ok}

IdsIn(rows) == {IdOf(row) : row \in rows}
\* Bronze and quarantine are, at every step, what their query has read so far, although
\* a batch may be done twice; Silver has valid messages only.
RowsInv ==
  /\ Rows("landing") = Between(manifest.starts, Reached("landing"))
  /\ Rows("rejected") = {row \in Between(manifest.starts, Reached("rejected")) : ~ At(row).ok}
  /\ Rows("accepted") \subseteq Valid(manifest.starts, Reached("accepted"))

\* Only deduplication has watermarks. They come from valid messages it has read, and so
\* do the ids it remembers.
WatermarkInv ==
  /\ \A q \in Queries \ {"accepted"} : ck[q].late = 0 /\ ck[q].evict = 0
  /\ ck["accepted"].late <= ck["accepted"].evict
  /\ \A w \in {ck["accepted"].late, ck["accepted"].evict} :
       \/ w = 0
       \/ \E row \in Valid(manifest.starts, ck["accepted"].at) : w = Time(row) - Delay
  /\ ck["accepted"].memory \subseteq IdsIn(Valid(manifest.starts, ck["accepted"].at))

\* An id that is not written again: it is remembered, or what bears it would be late.
Kept(id) == id \in ck["accepted"].memory \/ TimeOf[id] + Delay <= ck["accepted"].late

\* No two rows of Silver have one id, since the ids of committed batches are kept, and a
\* batch that is not committed has only rows that were in time.
SilverInv ==
  /\ \A x, y \in Rows("accepted") : IdOf(x) = IdOf(y) => x = y
  /\ \A k \in 1..ck["accepted"].done : \A x \in sink["accepted"][k] : Kept(IdOf(x))
  /\ Len(sink["accepted"]) > ck["accepted"].done =>
       \A x \in sink["accepted"][ck["accepted"].done + 1] :
         /\ x \in Between(ck["accepted"].at, ck["accepted"].plan)
         /\ At(x).ok /\ Time(x) > ck["accepted"].late

\* If no message could be late, Silver has the id of every valid message read.
Complete ==
  ~ Spread =>
    IdsIn(Rows("accepted")) = IdsIn(Valid(manifest.starts, Reached("accepted")))

\* What an execution that succeeded has shown.
Exact ==
  /\ Rows("landing") = RecordedRange
  /\ \/ Spread
     \/ Others > 0 /\ \E x, y \in InRange(TRUE) : x # y /\ IdOf(x) = IdOf(y)
     \/ /\ IdsIn(Rows("accepted")) = IdsIn(InRange(TRUE))
        /\ Rows("rejected") = InRange(FALSE)

\* An execution succeeds only in its check, and what it has shown stays so.
OutcomeInv ==
  /\ exec.phase \in Queries \union {"check"} => exec.number \notin exec.succeeded
  /\ exec.phase = "ended" /\ exec.number \in exec.succeeded => Exact

\* After a success no query is behind the recorded range, and while nobody else has
\* written to the topic all have finished.
Settled ==
  exec.succeeded # {} =>
    \A q \in Queries : /\ \A p \in 1..P : manifest.ends[p] <= ck[q].at[p]
                       /\ Others = 0 => Finished(q)

\* The inductive invariant.
StreamingInv ==
  /\ QueriesInv /\ RowsInv /\ WatermarkInv /\ SilverInv /\ Complete
  /\ OutcomeInv /\ Settled

-----------------------------------------------------------------------------
(* Sequences, numbers and finite sets.                                     *)

\* A sequence is a function on the numbers up to its length.
LEMMA LenOfSeq ==
  ASSUME NEW S, NEW s \in Seq(S)
  PROVE  Len(s) \in Nat /\ DOMAIN s = 1..Len(s)
  OBVIOUS

\* The greater of two numbers.
LEMMA MaxOfTwo ==
  ASSUME NEW a \in Int, NEW b \in Int
  PROVE  Max({a, b}) = IF a >= b THEN a ELSE b
  <1>1. \E x \in {a, b} : \A y \in {a, b} : x >= y
    OBVIOUS
  <1>2. Max({a, b}) \in {a, b} /\ Max({a, b}) >= a /\ Max({a, b}) >= b
    BY <1>1 DEF Max
  <1>3. QED
    BY <1>2

\* The lesser of two numbers.
LEMMA MinOfTwo ==
  ASSUME NEW a \in Int, NEW b \in Int
  PROVE  Min({a, b}) = IF a <= b THEN a ELSE b
  <1>1. \E x \in {a, b} : \A y \in {a, b} : x <= y
    OBVIOUS
  <1>2. Min({a, b}) \in {a, b} /\ Min({a, b}) <= a /\ Min({a, b}) <= b
    BY <1>1 DEF Min
  <1>3. QED
    BY <1>2

\* A finite set of numbers that is not empty has a greatest one.
LEMMA MaxOfFinite ==
  ASSUME NEW S \in SUBSET Int, IsFiniteSet(S), S # {}
  PROVE  Max(S) \in S /\ \A y \in S : Max(S) >= y
  <1> DEFINE Unbounded == {R \in SUBSET S : R # {} /\ ~ \E x \in R : \A y \in R : x >= y}
  <1>1. Unbounded = {}
    <2> SUFFICES ASSUME Unbounded # {}
                 PROVE  FALSE
      OBVIOUS
    <2>1. IsWellFoundedOn(StrictSubsetOrdering(S), SUBSET S)
      BY FS_StrictSubsetOrderingWellFounded, FS_FiniteSubsetsOfFinite
    <2>2. Unbounded \subseteq SUBSET S
      OBVIOUS
    <2> HIDE DEF Unbounded
    <2>3. PICK R \in Unbounded : \A T \in Unbounded : <<T, R>> \notin StrictSubsetOrdering(S)
      BY <2>1, <2>2, WFMin
    <2> USE DEF Unbounded
    <2>4. PICK a \in R : TRUE
      OBVIOUS
    <2>5. R \ {a} \notin Unbounded
      BY <2>3, <2>4 DEF StrictSubsetOrdering
    <2>6. CASE R \ {a} = {}
      BY <2>4, <2>6
    <2>7. CASE R \ {a} # {}
      <3>1. PICK m \in R \ {a} : \A y \in R \ {a} : m >= y
        BY <2>5, <2>7
      <3>2. a \in Int /\ m \in Int /\ R \subseteq Int
        BY <2>4, <3>1
      <3>3. CASE m >= a
        BY <3>1, <3>2, <3>3
      <3>4. CASE a >= m
        BY <2>4, <3>1, <3>2, <3>4
      <3>5. QED
        BY <3>2, <3>3, <3>4
    <2>8. QED
      BY <2>6, <2>7
  <1>2. \E x \in S : \A y \in S : x >= y
    BY <1>1
  <1>3. QED
    BY <1>2 DEF Max

\* The least and the greatest number of an interval.
LEMMA EndsOfInterval ==
  ASSUME NEW a \in Int, NEW b \in Int, a <= b
  PROVE  Min(a..b) = a /\ Max(a..b) = b
  <1>1. /\ a \in a..b /\ \A y \in a..b : a <= y
        /\ b \in a..b /\ \A y \in a..b : b >= y
    OBVIOUS
  <1>2. Min(a..b) \in a..b /\ \A y \in a..b : Min(a..b) <= y
    BY <1>1 DEF Min
  <1>3. Max(a..b) \in a..b /\ \A y \in a..b : Max(a..b) >= y
    BY <1>1 DEF Max
  <1>4. QED
    BY <1>1, <1>2, <1>3

\* The image of a finite set is finite.
LEMMA ImageIsFinite ==
  ASSUME NEW f, IsFiniteSet(DOMAIN f)
  PROVE  IsFiniteSet({f[x] : x \in DOMAIN f})
  <1> DEFINE T == {f[x] : x \in DOMAIN f}
             g == [x \in DOMAIN f |-> f[x]]
  <1>1. g \in Surjection(DOMAIN f, T)
    BY DEF Surjection
  <1> HIDE DEF g, T
  <1>2. IsFiniteSet(T)
    BY <1>1, FS_Surjection
  <1>3. QED
    BY <1>2 DEF T

\* Appending a batch adds its rows.
LEMMA UnionOfAppend ==
  ASSUME NEW S, NEW s \in Seq(SUBSET S), NEW x \in SUBSET S
  PROVE  LET t == Append(s, x)
         IN  /\ t \in Seq(SUBSET S) /\ Len(t) = Len(s) + 1 /\ t[Len(s) + 1] = x
             /\ \A k \in 1..Len(s) : t[k] = s[k]
             /\ UNION {t[k] : k \in DOMAIN t} = (UNION {s[k] : k \in DOMAIN s}) \union x
  <1> DEFINE t == Append(s, x)
             n == Len(s)
  <1>1. n \in Nat /\ DOMAIN s = 1..n
    BY LenOfSeq
  <1>2. t \in Seq(SUBSET S) /\ Len(t) = n + 1 /\ DOMAIN t = 1..(n + 1)
    OBVIOUS
  <1>3. t[n + 1] = x /\ \A k \in 1..n : t[k] = s[k]
    BY <1>1
  <1> HIDE DEF t, n
  <1>4. DOMAIN t = DOMAIN s \union {n + 1}
    BY <1>1, <1>2
  <1>5. UNION {t[k] : k \in DOMAIN t} = (UNION {s[k] : k \in DOMAIN s}) \union x
    BY <1>1, <1>3, <1>4
  <1>6. QED
    BY <1>1, <1>2, <1>3, <1>5 DEF t, n

\* Counts that fit make subsets whole.
LEMMA CountsClose ==
  ASSUME NEW A, NEW B, NEW G, NEW N, IsFiniteSet(A), IsFiniteSet(B),
         IsFiniteSet(G), IsFiniteSet(N), G \subseteq A, N \subseteq B,
         Cardinality(A) + Cardinality(B) <= Cardinality(G) + Cardinality(N)
  PROVE  A = G /\ B = N
  <1>1. /\ Cardinality(A) \in Nat /\ Cardinality(B) \in Nat
        /\ Cardinality(G) \in Nat /\ Cardinality(N) \in Nat
    BY FS_CardinalityType
  <1>2. Cardinality(G) <= Cardinality(A) /\ Cardinality(N) <= Cardinality(B)
    BY FS_Subset
  <1>3. Cardinality(G) = Cardinality(A) /\ Cardinality(N) = Cardinality(B)
    BY <1>1, <1>2
  <1>4. QED
    BY <1>3, FS_Subset

-----------------------------------------------------------------------------
(* Ranges of messages.                                                     *)

\* Vectors of offsets are equal if their offsets are.
LEMMA SameVectors ==
  ASSUME NEW a \in Vector, NEW b \in Vector, \A p \in 1..P : a[p] = b[p]
  PROVE  a = b
  <1>1. a = [p \in 1..P |-> a[p]] /\ b = [p \in 1..P |-> b[p]]
    BY DEF Vector
  <1>2. [p \in 1..P |-> a[p]] = [p \in 1..P |-> b[p]]
    OBVIOUS
  <1>3. QED
    BY <1>1, <1>2

\* The messages between two vectors, one by one.
LEMMA InBetween ==
  ASSUME NEW from, NEW to
  PROVE  \A row : row \in Between(from, to) <=>
           \E p \in 1..P : \E n \in from[p]..(to[p] - 1) : row = <<p, n>>
  BY DEF Between

\* A message between two vectors lies between their offsets.
LEMMA BetweenRows ==
  ASSUME NEW from \in Vector, NEW to \in Vector, NEW row \in Between(from, to)
  PROVE  /\ row \in Places /\ row[1] \in 1..P /\ row[2] \in Nat
         /\ from[row[1]] <= row[2] /\ row[2] < to[row[1]]
  <1>0. PICK p \in 1..P : \E n \in from[p]..(to[p] - 1) : row = <<p, n>>
    BY InBetween
  <1>1. PICK n \in from[p]..(to[p] - 1) : row = <<p, n>>
    BY <1>0
  <1>2. from[p] \in Nat /\ to[p] \in Nat
    BY DEF Vector
  <1>3. n \in Nat /\ from[p] <= n /\ n < to[p]
    BY <1>2
  <1>4. QED
    BY <1>1, <1>3 DEF Places

\* What lies between the offsets is between the vectors.
LEMMA RowsBetween ==
  ASSUME NEW from \in Vector, NEW to \in Vector, NEW row \in Places,
         from[row[1]] <= row[2], row[2] < to[row[1]]
  PROVE  row \in Between(from, to)
  <1>1. row = <<row[1], row[2]>> /\ row[1] \in 1..P /\ row[2] \in Nat
    BY DEF Places
  <1>2. from[row[1]] \in Nat /\ to[row[1]] \in Nat
    BY <1>1 DEF Vector
  <1>3. row[2] \in from[row[1]]..(to[row[1]] - 1)
    BY <1>1, <1>2
  <1>4. QED
    BY <1>1, <1>3, InBetween

\* There are finitely many messages between two vectors.
LEMMA BetweenIsFinite ==
  ASSUME NEW from \in Vector, NEW to \in Vector
  PROVE  IsFiniteSet(Between(from, to))
  <1> DEFINE f == [p \in 1..P |-> {p} \X (from[p]..(to[p] - 1))]
  <1>1. IsFiniteSet(1..P)
    BY StreamingAssumption, FS_Interval
  <1>2. \A p \in 1..P : IsFiniteSet(f[p])
    <2> TAKE p \in 1..P
    <2>1. from[p] \in Int /\ to[p] - 1 \in Int
      BY DEF Vector
    <2>2. IsFiniteSet(from[p]..(to[p] - 1)) /\ IsFiniteSet({p})
      BY <2>1, FS_Interval, FS_Singleton
    <2>3. QED
      BY <2>2, FS_Product
  <1>3. DOMAIN f = 1..P /\ Between(from, to) = UNION {f[p] : p \in DOMAIN f}
    BY DEF Between
  <1> HIDE DEF f
  <1>4. IsFiniteSet({f[p] : p \in DOMAIN f})
    BY <1>1, <1>3, ImageIsFinite
  <1>5. IsFiniteSet(UNION {f[p] : p \in DOMAIN f})
    BY <1>2, <1>3, <1>4, FS_UNION
  <1>6. QED
    BY <1>3, <1>5

\* A range is joined from two that meet.
LEMMA BetweenJoins ==
  ASSUME NEW a \in Vector, NEW b \in Vector, NEW c \in Vector,
         \A p \in 1..P : a[p] <= b[p] /\ b[p] <= c[p]
  PROVE  Between(a, c) = Between(a, b) \union Between(b, c)
  <1>1. ASSUME NEW row \in Between(a, c)
        PROVE  row \in Between(a, b) \union Between(b, c)
    <2>1. row \in Places /\ row[1] \in 1..P /\ row[2] \in Nat
          /\ a[row[1]] <= row[2] /\ row[2] < c[row[1]]
      BY BetweenRows
    <2>2. b[row[1]] \in Nat
      BY <2>1 DEF Vector
    <2>3. CASE row[2] < b[row[1]]
      BY <2>1, <2>3, RowsBetween
    <2>4. CASE b[row[1]] <= row[2]
      BY <2>1, <2>4, RowsBetween
    <2>5. QED
      BY <2>1, <2>2, <2>3, <2>4
  <1>2. ASSUME NEW row \in Between(a, b) \union Between(b, c)
        PROVE  row \in Between(a, c)
    <2>1. row \in Places /\ row[1] \in 1..P /\ row[2] \in Nat
      BY BetweenRows
    <2>2. a[row[1]] \in Nat /\ b[row[1]] \in Nat /\ c[row[1]] \in Nat
          /\ a[row[1]] <= b[row[1]] /\ b[row[1]] <= c[row[1]]
      BY <2>1 DEF Vector
    <2>3. \/ a[row[1]] <= row[2] /\ row[2] < b[row[1]]
          \/ b[row[1]] <= row[2] /\ row[2] < c[row[1]]
      BY BetweenRows
    <2>4. a[row[1]] <= row[2] /\ row[2] < c[row[1]]
      BY <2>1, <2>2, <2>3
    <2>5. QED
      BY <2>1, <2>4, RowsBetween
  <1>3. QED
    BY <1>1, <1>2

\* Nothing is between a vector and itself.
LEMMA BetweenSame ==
  ASSUME NEW a \in Vector
  PROVE  Between(a, a) = {}
  <1>1. ASSUME NEW row \in Between(a, a)
        PROVE  FALSE
    <2>1. row[1] \in 1..P /\ row[2] \in Nat /\ a[row[1]] <= row[2] /\ row[2] < a[row[1]]
      BY BetweenRows
    <2>2. a[row[1]] \in Nat
      BY <2>1 DEF Vector
    <2>3. QED
      BY <2>1, <2>2
  <1>2. QED
    BY <1>1

\* A wider range has the messages of a narrower one.
LEMMA BetweenGrows ==
  ASSUME NEW a \in Vector, NEW b \in Vector, NEW c \in Vector, NEW d \in Vector,
         \A p \in 1..P : c[p] <= a[p] /\ b[p] <= d[p]
  PROVE  Between(a, b) \subseteq Between(c, d)
  <1>1. ASSUME NEW row \in Between(a, b)
        PROVE  row \in Between(c, d)
    <2>1. row \in Places /\ row[1] \in 1..P /\ row[2] \in Nat
          /\ a[row[1]] <= row[2] /\ row[2] < b[row[1]]
      BY BetweenRows
    <2>2. /\ a[row[1]] \in Nat /\ b[row[1]] \in Nat /\ c[row[1]] \in Nat /\ d[row[1]] \in Nat
          /\ c[row[1]] <= a[row[1]] /\ b[row[1]] <= d[row[1]]
      BY <2>1 DEF Vector
    <2>3. c[row[1]] <= row[2] /\ row[2] < d[row[1]]
      BY <2>1, <2>2
    <2>4. QED
      BY <2>1, <2>3, RowsBetween
  <1>2. QED
    BY <1>1

-----------------------------------------------------------------------------
(* Types.                                                                  *)

\* The fields of the records of the state.
LEMMA Fields ==
  ASSUME Shape
  PROVE  /\ manifest.starts \in Vector /\ manifest.ends \in Vector
         /\ exec.limit \in Vector /\ exec.phase \in Phases
         /\ exec.number \in 0..MaxExecutions
         /\ \A q \in Queries : /\ ck[q] \in Checkpoint
                               /\ ck[q].at \in Vector /\ ck[q].done \in Nat
                               /\ ck[q].plan # <<>> => ck[q].plan \in Vector
                               /\ ck[q].memory \subseteq Ids
                               /\ ck[q].late \in Int /\ ck[q].evict \in Int
                               /\ sink[q] \in Sinks
  BY DEF Shape, Checkpoint

\* The latest offsets are the lengths of the logs.
LEMMA LatestType ==
  ASSUME Shape
  PROVE  /\ Latest \in Vector
         /\ \A p \in 1..P : Latest[p] = Len(log[p]) /\ Len(log[p]) \in Nat
  <1>1. \A p \in 1..P : log[p] \in Seq(Message)
    BY DEF Shape, Logs
  <1>2. \A p \in 1..P : Len(log[p]) \in Nat
    BY <1>1, LenOfSeq
  <1>3. QED
    BY <1>2 DEF Latest, Vector

\* The offsets the state holds are numbers.
LEMMA VectorsAreNat ==
  ASSUME Shape, NEW p \in 1..P
  PROVE  /\ manifest.starts[p] \in Nat /\ manifest.ends[p] \in Nat
         /\ exec.limit[p] \in Nat /\ Len(log[p]) \in Nat
         /\ \A q \in Queries : /\ ck[q].at[p] \in Nat
                               /\ ck[q].plan # <<>> => ck[q].plan[p] \in Nat
  BY Fields, LatestType DEF Vector

\* A place within the log has a message.
LEMMA MessagesInLog ==
  ASSUME Shape, NEW row \in Places, row[2] < Len(log[row[1]])
  PROVE  /\ At(row) \in Message /\ IdOf(row) \in Ids /\ At(row).ok \in BOOLEAN
         /\ Time(row) \in Nat /\ Time(row) > 0
  <1>1. row[1] \in 1..P /\ row[2] \in Nat
    BY DEF Places
  <1>2. log[row[1]] \in Seq(Message)
    BY <1>1 DEF Shape, Logs
  <1>3. Len(log[row[1]]) \in Nat
    BY <1>2, LenOfSeq
  <1>4. row[2] + 1 \in 1..Len(log[row[1]])
    BY <1>1, <1>3
  <1>5. At(row) \in Message
    BY <1>2, <1>4 DEF At
  <1>6. IdOf(row) \in Ids /\ At(row).ok \in BOOLEAN
    BY <1>5 DEF IdOf, Message
  <1>7. QED
    BY <1>5, <1>6, StreamingAssumption DEF Time

\* The share of a partition is within what is left to read of it.
LEMMA ShareBounds ==
  ASSUME Shape, PhaseInv, Running, ~ CaughtUp, NEW p \in 1..P
  PROVE  Share(p) \in Nat /\ ck[Query].at[p] + Share(p) <= exec.limit[p]
  <1> DEFINE at == ck[Query].at
             limit == exec.limit
  <1>1. Query \in Queries /\ at \in Vector /\ limit \in Vector
    BY Fields DEF Running
  <1>2. \A q \in 1..P : at[q] \in Nat /\ limit[q] \in Nat /\ at[q] <= limit[q]
    BY <1>1 DEF PhaseInv, Vector
  <1>3. Between(at, limit) # {}
    <2>1. PICK q \in 1..P : at[q] # limit[q]
      BY <1>1, SameVectors DEF CaughtUp
    <2>2. at[q] < limit[q]
      BY <1>2, <2>1
    <2>3. <<q, at[q]>> \in Places
      BY <1>2 DEF Places
    <2>4. <<q, at[q]>> \in Between(at, limit)
      BY <1>1, <1>2, <2>2, <2>3, RowsBetween
    <2>5. QED
      BY <2>4
  <1>4. Cardinality(Between(at, limit)) \in Nat \ {0}
    BY <1>1, <1>3, BetweenIsFinite, FS_CardinalityType, FS_EmptySet
  <1> DEFINE n == Cardinality(Between(at, limit))
             left == limit[p] - at[p]
             share == (MaxOffsets * left) \div n
  <1>5. left \in Nat
    BY <1>2
  <1>6. MaxOffsets * left \in Nat
    <2> HIDE DEF left
    <2>1. QED
      BY <1>5, StreamingAssumption
  <1>7. share \in Int
    <2> DEFINE m == MaxOffsets * left
    <2>1. m \in Nat /\ n \in Nat \ {0}
      BY <1>4, <1>6
    <2> HIDE DEF m, n
    <2>2. m \div n \in Int
      BY <2>1
    <2>3. QED
      BY <2>2 DEF m
  <1>8. Share(p) = Min({left, Max({1, share})})
    BY DEF Share
  <1> HIDE DEF share, left, n
  <1>9. Max({1, share}) \in Nat /\ Max({1, share}) >= 1
    BY <1>7, MaxOfTwo
  <1>10. Share(p) \in Nat /\ Share(p) <= left
    BY <1>5, <1>8, <1>9, MinOfTwo
  <1>11. QED
    BY <1>2, <1>10 DEF left

\* The messages of the batch.
LEMMA BatchTypes ==
  ASSUME Shape, CheckpointInv, Planned
  PROVE  /\ Query \in Queries /\ ck[Query].at \in Vector /\ ck[Query].plan \in Vector
         /\ IsFiniteSet(Batch) /\ Batch \subseteq Places
         /\ \A row \in Batch : /\ row[2] < Len(log[row[1]])
                               /\ IdOf(row) \in Ids /\ At(row).ok \in BOOLEAN
                               /\ Time(row) \in Nat /\ Time(row) > 0
  <1>1. Query \in Queries /\ ck[Query].plan # <<>>
    BY DEF Planned, Running
  <1>2. ck[Query].at \in Vector /\ ck[Query].plan \in Vector
    BY <1>1, Fields
  <1>3. IsFiniteSet(Batch)
    BY <1>2, BetweenIsFinite DEF Batch
  <1>4. ASSUME NEW row \in Batch
        PROVE  row \in Places /\ row[2] < Len(log[row[1]])
    <2>1. row \in Places /\ row[1] \in 1..P /\ row[2] \in Nat
          /\ row[2] < ck[Query].plan[row[1]]
      BY <1>2, BetweenRows DEF Batch
    <2>2. ck[Query].plan[row[1]] <= Len(log[row[1]])
      BY <1>1, <2>1 DEF CheckpointInv
    <2>3. ck[Query].plan[row[1]] \in Nat /\ Len(log[row[1]]) \in Nat
      BY <1>2, <2>1, LatestType DEF Vector
    <2>4. QED
      BY <2>1, <2>2, <2>3
  <1>5. QED
    BY <1>1, <1>2, <1>3, <1>4, MessagesInLog

\* The new watermark is the old one, or that of a message in the batch.
LEMMA EvictTypes ==
  ASSUME Shape, CheckpointInv, Planned
  PROVE  LET times == {Time(row) - Delay : row \in {x \in Batch : At(x).ok}}
             e == Max(times \union {ck[Query].evict})
         IN  /\ e \in Int /\ e >= ck[Query].evict
             /\ e \in times \union {ck[Query].evict}
  <1> DEFINE good == {x \in Batch : At(x).ok}
             times == {Time(row) - Delay : row \in good}
             f == [row \in good |-> Time(row) - Delay]
  <1>1. IsFiniteSet(good)
    BY BatchTypes, FS_Subset
  <1>2. times \subseteq Int
    BY BatchTypes, StreamingAssumption
  <1>3. IsFiniteSet(times)
    <2>1. DOMAIN f = good /\ times = {f[x] : x \in DOMAIN f}
      OBVIOUS
    <2> HIDE DEF f, times, good
    <2>2. QED
      BY <1>1, <2>1, ImageIsFinite
  <1>4. ck[Query].evict \in Int
    BY BatchTypes, Fields
  <1> HIDE DEF times
  <1>5. IsFiniteSet(times \union {ck[Query].evict})
    BY <1>3, FS_AddElement
  <1> DEFINE S == times \union {ck[Query].evict}
  <1>6. S \in SUBSET Int /\ S # {} /\ ck[Query].evict \in S /\ IsFiniteSet(S)
    BY <1>2, <1>4, <1>5
  <1> HIDE DEF S
  <1>7. Max(S) \in S /\ \A y \in S : Max(S) >= y
    BY <1>6, MaxOfFinite
  <1>8. QED
    BY <1>6, <1>7 DEF S, times

\* The rows of a query, and the batches they come in.
LEMMA RowsOf ==
  ASSUME Shape, NEW q \in Queries
  PROVE  /\ sink[q] \in Seq(SUBSET Places) /\ DOMAIN sink[q] = 1..Len(sink[q])
         /\ Len(sink[q]) \in Nat /\ Rows(q) \subseteq Places
  <1>1. sink[q] \in Seq(SUBSET Places)
    BY Fields DEF Sinks
  <1>2. Len(sink[q]) \in Nat /\ DOMAIN sink[q] = 1..Len(sink[q])
    BY <1>1, LenOfSeq
  <1>3. \A k \in DOMAIN sink[q] : sink[q][k] \subseteq Places
    BY <1>1
  <1>4. QED
    BY <1>1, <1>2, <1>3 DEF Rows

\* Every row came in a batch.
LEMMA RowOfBatch ==
  ASSUME Shape, NEW q \in Queries, NEW x
  PROVE  x \in Rows(q) <=> \E k \in 1..Len(sink[q]) : x \in sink[q][k]
  BY RowsOf DEF Rows

\* A query starts at its limit.
LEMMA StartQueryType ==
  ASSUME Shape, NEW q \in Queries
  PROVE  /\ StartQuery(q).phase = q /\ StartQuery(q).limit = Latest
         /\ StartQuery(q).number = exec.number /\ StartQuery(q).succeeded = exec.succeeded
         /\ StartQuery(q) \in [phase : Phases, limit : Vector, number : 0..MaxExecutions,
                               succeeded : SUBSET Nat]
  <1>1. exec \in [phase : Phases, limit : Vector, number : 0..MaxExecutions,
                  succeeded : SUBSET Nat]
    BY DEF Shape
  <1>2. q \in Phases /\ Latest \in Vector
    BY LatestType DEF Phases
  <1>3. QED
    BY <1>1, <1>2 DEF StartQuery

-----------------------------------------------------------------------------
(* What the actions do and leave alone.                                    *)

\* What planning a batch does, and leaves alone.
LEMMA PlanFrame ==
  ASSUME Shape, PhaseInv, PlanBatch
  PROVE  /\ Query \in Queries /\ ck[Query].plan = <<>>
         /\ log' = log /\ manifest' = manifest /\ sink' = sink /\ exec' = exec
         /\ ck' \in [Queries -> Checkpoint]
         /\ \A q \in Queries \ {Query} : ck'[q] = ck[q]
         /\ ck'[Query].done = ck[Query].done /\ ck'[Query].at = ck[Query].at
         /\ ck'[Query].memory = ck[Query].memory /\ ck'[Query].late = ck[Query].late
         /\ ck'[Query].evict = ck[Query].evict
         /\ ck'[Query].plan \in Vector
         /\ \A p \in 1..P : /\ ck[Query].at[p] <= ck'[Query].plan[p]
                            /\ ck'[Query].plan[p] <= exec.limit[p]
         /\ ~ CaughtUp \/ ck[Query].late # ck[Query].evict
  <1> DEFINE v == [p \in 1..P |-> ck[Query].at[p] + IF CaughtUp THEN 0 ELSE Share(p)]
  <1>1. /\ Query \in Queries /\ ck[Query].plan = <<>> /\ Running
        /\ log' = log /\ manifest' = manifest /\ sink' = sink /\ exec' = exec
        /\ ck' = [ck EXCEPT ![Query].plan = v]
        /\ ~ CaughtUp \/ ck[Query].late # ck[Query].evict
    BY DEF PlanBatch, Running
  <1>2. ck[Query].at \in Vector /\ exec.limit \in Vector /\ ck[Query] \in Checkpoint
        /\ ck \in [Queries -> Checkpoint]
    BY <1>1, Fields DEF Shape
  <1>3. ASSUME NEW p \in 1..P
        PROVE  v[p] \in Nat /\ ck[Query].at[p] <= v[p] /\ v[p] <= exec.limit[p]
    <2>1. ck[Query].at[p] \in Nat /\ exec.limit[p] \in Nat
          /\ ck[Query].at[p] <= exec.limit[p]
      BY <1>1, <1>2 DEF PhaseInv, Vector
    <2>2. CASE CaughtUp
      BY <2>1, <2>2
    <2>3. CASE ~ CaughtUp
      <3>1. Share(p) \in Nat /\ ck[Query].at[p] + Share(p) <= exec.limit[p]
        BY <1>1, <2>3, ShareBounds
      <3>2. v[p] = ck[Query].at[p] + Share(p)
        BY <2>3
      <3> HIDE DEF v
      <3>3. QED
        BY <2>1, <3>1, <3>2
    <2>4. QED
      BY <2>2, <2>3
  <1>4. v \in Vector
    BY <1>3 DEF Vector
  <1> HIDE DEF v
  <1>5. /\ ck'[Query] = [ck[Query] EXCEPT !.plan = v]
        /\ \A q \in Queries \ {Query} : ck'[q] = ck[q]
    BY <1>1, <1>2
  <1>6. [ck[Query] EXCEPT !.plan = v] \in Checkpoint
    BY <1>2, <1>4 DEF Checkpoint
  <1>7. ck' \in [Queries -> Checkpoint]
    BY <1>1, <1>2, <1>6
  <1>8. /\ ck'[Query].done = ck[Query].done /\ ck'[Query].at = ck[Query].at
        /\ ck'[Query].memory = ck[Query].memory /\ ck'[Query].late = ck[Query].late
        /\ ck'[Query].evict = ck[Query].evict /\ ck'[Query].plan = v
    BY <1>2, <1>5 DEF Checkpoint
  <1>9. QED
    BY <1>1, <1>3, <1>4, <1>5, <1>7, <1>8

\* What writing a batch does, and leaves alone.
LEMMA WriteFrame ==
  ASSUME Shape, CheckpointInv, WriteBatch
  PROVE  /\ Query \in Queries /\ Planned /\ ck[Query].plan # <<>> /\ ck[Query].plan \in Vector
         /\ Len(sink[Query]) = ck[Query].done
         /\ log' = log /\ manifest' = manifest /\ ck' = ck /\ exec' = exec
         /\ sink' \in [Queries -> Sinks]
         /\ \A q \in Queries \ {Query} : sink'[q] = sink[q] /\ Rows(q)' = Rows(q)
         /\ Len(sink'[Query]) = ck[Query].done + 1
         /\ \A k \in 1..ck[Query].done : sink'[Query][k] = sink[Query][k]
         /\ sink'[Query][ck[Query].done + 1] \in Outputs
         /\ Rows(Query)' = Rows(Query) \union sink'[Query][ck[Query].done + 1]
  <1>1. /\ Query \in Queries /\ Planned /\ ck[Query].plan # <<>>
        /\ Len(sink[Query]) = ck[Query].done
        /\ log' = log /\ manifest' = manifest /\ ck' = ck /\ exec' = exec
    BY DEF WriteBatch, Planned, Running
  <1>2. PICK rows \in Outputs : sink' = [sink EXCEPT ![Query] = Append(@, rows)]
    BY DEF WriteBatch
  <1>3. rows \subseteq Batch
    BY <1>1, <1>2 DEF Outputs, InTime, Queries
  <1>4. rows \in SUBSET Places
    BY <1>1, <1>3, BatchTypes
  <1>5. sink[Query] \in Seq(SUBSET Places) /\ DOMAIN sink[Query] = 1..Len(sink[Query])
        /\ Len(sink[Query]) \in Nat /\ sink \in [Queries -> Sinks]
    BY <1>1, RowsOf DEF Shape
  <1>6. /\ sink'[Query] = Append(sink[Query], rows)
        /\ \A q \in Queries \ {Query} : sink'[q] = sink[q]
    BY <1>1, <1>2, <1>5
  <1>7. /\ sink'[Query] \in Seq(SUBSET Places)
        /\ Len(sink'[Query]) = Len(sink[Query]) + 1
        /\ \A k \in 1..Len(sink[Query]) : sink'[Query][k] = sink[Query][k]
        /\ sink'[Query][Len(sink[Query]) + 1] = rows
        /\ Rows(Query)' = Rows(Query) \union rows
    <2> DEFINE s == sink[Query]
               t == Append(s, rows)
    <2>1. /\ t \in Seq(SUBSET Places) /\ Len(t) = Len(s) + 1 /\ t[Len(s) + 1] = rows
          /\ \A k \in 1..Len(s) : t[k] = s[k]
          /\ UNION {t[k] : k \in DOMAIN t} = (UNION {s[k] : k \in DOMAIN s}) \union rows
      BY <1>4, <1>5, UnionOfAppend
    <2>2. sink'[Query] = t
      BY <1>6
    <2> HIDE DEF t
    <2>3. Rows(Query)' = UNION {t[k] : k \in DOMAIN t}
      <3>1. Query' = Query
        BY <1>1 DEF Query
      <3>2. QED
        BY <2>2, <3>1 DEF Rows
    <2>4. QED
      BY <2>1, <2>2, <2>3 DEF Rows
  <1>8. sink' \in [Queries -> Sinks]
    BY <1>1, <1>2, <1>5, <1>7 DEF Sinks
  <1>10. \A q \in Queries \ {Query} : Rows(q)' = Rows(q)
    BY <1>1, <1>6 DEF Rows
  <1>11. ck[Query].plan \in Vector
    BY <1>1, Fields
  <1>12. QED
    BY <1>1, <1>2, <1>6, <1>7, <1>8, <1>10, <1>11

\* What committing a batch does, and leaves alone.
LEMMA CommitFrame ==
  ASSUME Shape, CheckpointInv, CommitBatch
  PROVE  /\ Query \in Queries /\ Planned /\ ck[Query].plan # <<>> /\ ck[Query].plan \in Vector
         /\ Len(sink[Query]) = ck[Query].done + 1
         /\ log' = log /\ manifest' = manifest /\ sink' = sink /\ exec' = exec
         /\ ck' \in [Queries -> Checkpoint]
         /\ \A q \in Queries \ {Query} : ck'[q] = ck[q]
         /\ ck'[Query].done = ck[Query].done + 1 /\ ck'[Query].at = ck[Query].plan
         /\ ck'[Query].plan = <<>>
         /\ Query # "accepted" => ck'[Query].late = 0 /\ ck'[Query].evict = 0
         /\ Query = "accepted" =>
              /\ ck'[Query].late = ck[Query].evict /\ ck'[Query].evict >= ck[Query].evict
              /\ \/ ck'[Query].evict = ck[Query].evict
                 \/ \E row \in Batch : At(row).ok /\ ck'[Query].evict = Time(row) - Delay
              /\ ck'[Query].memory =
                   {id \in ck[Query].memory \union {IdOf(row) : row \in InTime} :
                      Remembers(id, ck[Query].evict)}
  <1> DEFINE c == ck[Query]
             seen == c.memory \union {IdOf(row) : row \in InTime}
             times == {Time(row) - Delay : row \in {x \in Batch : At(x).ok}}
             new == [done |-> c.done + 1, at |-> c.plan, plan |-> <<>>,
                     memory |-> {id \in seen : Query = "accepted" /\ Remembers(id, c.evict)},
                     late   |-> IF Query = "accepted" THEN c.evict ELSE 0,
                     evict  |-> IF Query = "accepted" THEN Max(times \union {c.evict}) ELSE 0]
  <1>1. /\ Planned /\ Query \in Queries /\ c.plan # <<>> /\ Len(sink[Query]) > c.done
        /\ log' = log /\ manifest' = manifest /\ sink' = sink /\ exec' = exec
        /\ ck' = [ck EXCEPT ![Query] = new]
    BY DEF CommitBatch, Planned, Running
  <1>2. c \in Checkpoint /\ c.done \in Nat /\ c.plan \in Vector /\ c.memory \subseteq Ids
        /\ c.evict \in Int /\ ck \in [Queries -> Checkpoint]
    BY <1>1, Fields DEF Shape
  <1>3. seen \subseteq Ids
    BY <1>1, <1>2, BatchTypes DEF InTime
  <1>4. /\ Max(times \union {c.evict}) \in Int /\ Max(times \union {c.evict}) >= c.evict
        /\ Max(times \union {c.evict}) \in times \union {c.evict}
    BY <1>1, EvictTypes
  <1>5. new \in Checkpoint
    BY <1>2, <1>3, <1>4 DEF Checkpoint
  <1>6. Len(sink[Query]) = c.done + 1
    BY <1>1 DEF CheckpointInv
  <1>7. /\ ck'[Query] = new /\ ck' \in [Queries -> Checkpoint]
        /\ \A q \in Queries \ {Query} : ck'[q] = ck[q]
    BY <1>1, <1>2, <1>5
  <1>8. QED
    BY <1>1, <1>2, <1>4, <1>6, <1>7

\* What the start of an execution does, and leaves alone.
LEMMA ExecuteFrame ==
  ASSUME Shape, Execute
  PROVE  /\ log' = log /\ manifest' = manifest /\ ck' = ck /\ sink' = sink
         /\ exec' \in [phase : Phases, limit : Vector, number : 0..MaxExecutions,
                       succeeded : SUBSET Nat]
         /\ exec'.phase = "landing" /\ exec'.limit = Latest
         /\ exec'.number = exec.number + 1 /\ exec'.succeeded = exec.succeeded
         /\ exec.phase \in {"idle", "ended"}
  <1> DEFINE new == StartQuery("landing")
  <1>1. /\ new.phase = "landing" /\ new.limit = Latest
        /\ new.number = exec.number /\ new.succeeded = exec.succeeded
        /\ new \in [phase : Phases, limit : Vector, number : 0..MaxExecutions,
                    succeeded : SUBSET Nat]
    BY StartQueryType DEF Queries
  <1>2. /\ log' = log /\ manifest' = manifest /\ ck' = ck /\ sink' = sink
        /\ exec' = [new EXCEPT !.number = @ + 1] /\ exec.number < MaxExecutions
        /\ exec.phase \in {"idle", "ended"}
    BY DEF Execute
  <1> HIDE DEF new
  <1>3. exec.number \in 0..MaxExecutions
    BY Fields
  <1>4. exec.number + 1 \in 0..MaxExecutions
    BY <1>2, <1>3, StreamingAssumption
  <1>5. QED
    BY <1>1, <1>2, <1>4

\* What the end of a query does, and leaves alone.
LEMMA FinishFrame ==
  ASSUME Shape, FinishQuery
  PROVE  /\ log' = log /\ manifest' = manifest /\ ck' = ck /\ sink' = sink
         /\ Query \in Queries /\ Finished(Query) /\ ck[Query].at = exec.limit
         /\ exec' \in [phase : Phases, limit : Vector, number : 0..MaxExecutions,
                       succeeded : SUBSET Nat]
         /\ exec'.number = exec.number /\ exec'.succeeded = exec.succeeded
         /\ Query = "landing"  => exec'.phase = "accepted" /\ exec'.limit = Latest
         /\ Query = "accepted" => exec'.phase = "rejected" /\ exec'.limit = Latest
         /\ Query = "rejected" => exec'.phase = "check" /\ exec'.limit = exec.limit
  <1>1. /\ log' = log /\ manifest' = manifest /\ ck' = ck /\ sink' = sink
        /\ Query \in Queries /\ Finished(Query) /\ ck[Query].at = exec.limit
    BY DEF FinishQuery, Running, Finished, CaughtUp
  <1>2. exec \in [phase : Phases, limit : Vector, number : 0..MaxExecutions,
                  succeeded : SUBSET Nat]
    BY DEF Shape
  <1>3. CASE Query = "landing"
    <2>1. exec' = StartQuery("accepted")
      BY <1>3 DEF FinishQuery
    <2>2. QED
      BY <1>1, <1>3, <2>1, StartQueryType DEF Queries
  <1>4. CASE Query = "accepted"
    <2>1. exec' = StartQuery("rejected")
      BY <1>4 DEF FinishQuery
    <2>2. QED
      BY <1>1, <1>4, <2>1, StartQueryType DEF Queries
  <1>5. CASE Query = "rejected"
    <2>1. exec' = [exec EXCEPT !.phase = "check"]
      BY <1>5 DEF FinishQuery
    <2>2. "check" \in Phases
      BY DEF Phases
    <2>3. QED
      BY <1>1, <1>2, <1>5, <2>1, <2>2
  <1>6. QED
    BY <1>1, <1>3, <1>4, <1>5 DEF Queries

\* What the end of an execution does, and leaves alone.
LEMMA EndFrame ==
  ASSUME Shape, Check \/ Crash
  PROVE  /\ log' = log /\ manifest' = manifest /\ ck' = ck /\ sink' = sink
         /\ exec' \in [phase : Phases, limit : Vector, number : 0..MaxExecutions,
                       succeeded : SUBSET Nat]
         /\ exec'.phase = "ended" /\ exec'.limit = exec.limit /\ exec'.number = exec.number
         /\ exec'.succeeded = exec.succeeded
              \/ /\ exec.phase = "check" /\ ChecksPass
                 /\ exec'.succeeded = exec.succeeded \union {exec.number}
  <1>1. exec \in [phase : Phases, limit : Vector, number : 0..MaxExecutions,
                  succeeded : SUBSET Nat]
    BY DEF Shape
  <1>2. "ended" \in Phases
    BY DEF Phases
  <1>3. CASE Crash
    BY <1>1, <1>2, <1>3 DEF Crash
  <1>4. CASE Check
    <2> DEFINE S == exec.succeeded \union {n \in {exec.number} : ChecksPass}
    <2>1. S \in SUBSET Nat
      BY <1>1, StreamingAssumption
    <2>2. S = exec.succeeded \/ (ChecksPass /\ S = exec.succeeded \union {exec.number})
      OBVIOUS
    <2>3. exec' = [exec EXCEPT !.phase = "ended", !.succeeded = S] /\ exec.phase = "check"
          /\ log' = log /\ manifest' = manifest /\ ck' = ck /\ sink' = sink
      BY <1>4 DEF Check
    <2> HIDE DEF S
    <2>4. QED
      BY <1>1, <1>2, <2>1, <2>2, <2>3
  <1>5. QED
    BY <1>3, <1>4

\* Another producer appends, and changes nothing else.
LEMMA OtherFrame ==
  ASSUME Shape, NEW p \in 1..P, NEW m \in Message, WriteOther(p, m)
  PROVE  /\ manifest' = manifest /\ ck' = ck /\ sink' = sink /\ exec' = exec
         /\ log' \in Logs
         /\ Len(log'[p]) = Len(log[p]) + 1
         /\ \A q \in (1..P) \ {p} : log'[q] = log[q]
         /\ \A q \in 1..P : /\ Len(log'[q]) \in Nat /\ Len(log[q]) <= Len(log'[q])
                            /\ \A k \in 1..Len(log[q]) : log'[q][k] = log[q][k]
  <1>1. /\ manifest' = manifest /\ ck' = ck /\ sink' = sink /\ exec' = exec
        /\ log' = [log EXCEPT ![p] = Append(@, m)] /\ log \in Logs
    BY DEF WriteOther, Shape
  <1>2. log[p] \in Seq(Message) /\ log'[p] = Append(log[p], m)
        /\ \A q \in (1..P) \ {p} : log'[q] = log[q]
    BY <1>1 DEF Logs
  <1>3. /\ log'[p] \in Seq(Message) /\ Len(log'[p]) = Len(log[p]) + 1
        /\ \A k \in 1..Len(log[p]) : log'[p][k] = log[p][k]
    BY <1>2
  <1>4. log' \in Logs
    BY <1>1, <1>2, <1>3 DEF Logs
  <1>5. \A q \in 1..P : Len(log[q]) \in Nat /\ Len(log'[q]) \in Nat
    <2>1. \A q \in 1..P : log[q] \in Seq(Message) /\ log'[q] \in Seq(Message)
      BY <1>1, <1>4 DEF Logs
    <2>2. QED
      BY <2>1, LenOfSeq
  <1>6. QED
    BY <1>1, <1>2, <1>3, <1>4, <1>5

-----------------------------------------------------------------------------
(* Checkpoints and phases.                                                 *)

\* Every step keeps the shape of the state and the recorded range.
LEMMA ShapeStep ==
  ASSUME QueriesInv, [Next]_vars
  PROVE  Shape' /\ LogInv'
  <1>0. Shape /\ LogInv /\ CheckpointInv /\ PhaseInv
    BY DEF QueriesInv
  <1> USE <1>0
  <1>1. CASE Execute
    <2>1. exec.number \in Nat /\ exec.succeeded \subseteq 1..exec.number
      BY Fields, StreamingAssumption DEF Shape
    <2>2. exec'.succeeded \subseteq 1..exec'.number /\ exec'.number >= 1
      BY <1>1, <2>1, ExecuteFrame
    <2>3. QED
      BY <1>1, <2>2, ExecuteFrame DEF Shape, LogInv
  <1>2. CASE PlanBatch
    BY <1>2, PlanFrame DEF Shape, LogInv
  <1>3. CASE WriteBatch
    BY <1>3, WriteFrame DEF Shape, LogInv
  <1>4. CASE CommitBatch
    BY <1>4, CommitFrame DEF Shape, LogInv
  <1>5. CASE FinishQuery
    <2>1. exec.number >= 1
      BY <1>5, FinishFrame DEF Shape, Query, Queries
    <2>2. QED
      BY <1>5, <2>1, FinishFrame DEF Shape, LogInv
  <1>6. CASE Check \/ Crash
    <2>1. exec.number \in Nat /\ exec.succeeded \subseteq 1..exec.number
          /\ exec.number >= 1
      <3>1. exec.phase # "idle"
        BY <1>6 DEF Check, Crash, Running, Query, Queries
      <3>2. QED
        BY <3>1, Fields, StreamingAssumption DEF Shape
    <2>2. exec'.succeeded \subseteq 1..exec'.number
      BY <1>6, <2>1, EndFrame
    <2>3. QED
      BY <1>6, <2>1, <2>2, EndFrame DEF Shape, LogInv
  <1>7. ASSUME NEW p \in 1..P, NEW m \in Message, WriteOther(p, m)
        PROVE  Shape' /\ LogInv'
    <2>1. \A q \in 1..P : manifest.ends[q] \in Nat /\ Len(log[q]) \in Nat
      BY Fields, LatestType DEF Vector
    <2>2. QED
      BY <1>7, <2>1, OtherFrame DEF Shape, LogInv
  <1>8. CASE UNCHANGED vars \/ Rest
    BY <1>8 DEF vars, Rest, Shape, LogInv
  <1>9. QED
    BY <1>1, <1>2, <1>3, <1>4, <1>5, <1>6, <1>7, <1>8 DEF Next

\* Every step keeps checkpoints within the topic and sinks within a batch of them.
LEMMA CheckpointStep ==
  ASSUME QueriesInv, [Next]_vars
  PROVE  CheckpointInv'
  <1>0. Shape /\ LogInv /\ CheckpointInv /\ PhaseInv
    BY DEF QueriesInv
  <1> USE <1>0
  <1>1. CASE Execute \/ FinishQuery \/ Check \/ Crash
    BY <1>1, ExecuteFrame, FinishFrame, EndFrame DEF CheckpointInv
  <1>2. CASE PlanBatch
    <2>1. \A p \in 1..P : /\ ck[Query].at[p] <= ck'[Query].plan[p]
                          /\ ck'[Query].plan[p] <= Len(log[p])
      <3> TAKE p \in 1..P
      <3>1. ck'[Query].plan[p] <= exec.limit[p] /\ exec.limit[p] <= Len(log[p])
            /\ ck'[Query].plan[p] \in Nat /\ ck[Query].at[p] <= ck'[Query].plan[p]
        BY <1>2, PlanFrame DEF PhaseInv, Vector
      <3>2. QED
        BY <3>1, VectorsAreNat
    <2>2. ASSUME NEW q \in Queries
          PROVE  /\ \A p \in 1..P : /\ manifest'.starts[p] <= ck'[q].at[p]
                                    /\ ck'[q].at[p] <= Len(log'[p])
                 /\ ck'[q].plan # <<>> =>
                      \A p \in 1..P : /\ ck'[q].at[p] <= ck'[q].plan[p]
                                      /\ ck'[q].plan[p] <= Len(log'[p])
                 /\ Len(sink'[q]) = ck'[q].done
                    \/ (Len(sink'[q]) = ck'[q].done + 1 /\ ck'[q].plan # <<>>)
      <3>1. CASE q = Query
        BY <1>2, <2>1, <3>1, PlanFrame DEF CheckpointInv
      <3>2. CASE q # Query
        BY <1>2, <3>2, PlanFrame DEF CheckpointInv
      <3>3. QED
        BY <3>1, <3>2
    <2>3. QED
      BY <2>2 DEF CheckpointInv
  <1>3. CASE WriteBatch
    BY <1>3, WriteFrame DEF CheckpointInv
  <1>4. CASE CommitBatch
    <2>1. ASSUME NEW q \in Queries
          PROVE  /\ \A p \in 1..P : /\ manifest'.starts[p] <= ck'[q].at[p]
                                    /\ ck'[q].at[p] <= Len(log'[p])
                 /\ ck'[q].plan # <<>> =>
                      \A p \in 1..P : /\ ck'[q].at[p] <= ck'[q].plan[p]
                                      /\ ck'[q].plan[p] <= Len(log'[p])
                 /\ Len(sink'[q]) = ck'[q].done
                    \/ (Len(sink'[q]) = ck'[q].done + 1 /\ ck'[q].plan # <<>>)
      <3>1. CASE q = Query
        <4>1. \A p \in 1..P : manifest.starts[p] <= ck[q].plan[p]
          <5> TAKE p \in 1..P
          <5>1. manifest.starts[p] <= ck[q].at[p] /\ ck[q].at[p] <= ck[q].plan[p]
                /\ ck[q].plan # <<>>
            BY <1>4, <3>1, CommitFrame DEF CheckpointInv
          <5>2. QED
            BY <5>1, VectorsAreNat
        <4>2. QED
          BY <1>4, <3>1, <4>1, CommitFrame DEF CheckpointInv
      <3>2. CASE q # Query
        BY <1>4, <3>2, CommitFrame DEF CheckpointInv
      <3>3. QED
        BY <3>1, <3>2
    <2>2. QED
      BY <2>1 DEF CheckpointInv
  <1>5. ASSUME NEW r \in 1..P, NEW m \in Message, WriteOther(r, m)
        PROVE  CheckpointInv'
    <2>1. ASSUME NEW q \in Queries
          PROVE  /\ \A p \in 1..P : /\ manifest'.starts[p] <= ck'[q].at[p]
                                    /\ ck'[q].at[p] <= Len(log'[p])
                 /\ ck'[q].plan # <<>> =>
                      \A p \in 1..P : /\ ck'[q].at[p] <= ck'[q].plan[p]
                                      /\ ck'[q].plan[p] <= Len(log'[p])
                 /\ Len(sink'[q]) = ck'[q].done
                    \/ (Len(sink'[q]) = ck'[q].done + 1 /\ ck'[q].plan # <<>>)
      <3>1. \A p \in 1..P : /\ manifest.starts[p] <= ck[q].at[p]
                            /\ ck[q].at[p] <= Len(log'[p])
                            /\ ck[q].plan # <<>> => /\ ck[q].at[p] <= ck[q].plan[p]
                                                    /\ ck[q].plan[p] <= Len(log'[p])
        <4> TAKE p \in 1..P
        <4>1. Len(log[p]) <= Len(log'[p]) /\ Len(log'[p]) \in Nat
          BY <1>5, OtherFrame
        <4>2. QED
          BY <4>1, VectorsAreNat DEF CheckpointInv
      <3>2. QED
        BY <1>5, <3>1, OtherFrame DEF CheckpointInv
    <2>2. QED
      BY <2>1 DEF CheckpointInv
  <1>6. CASE UNCHANGED vars \/ Rest
    BY <1>6 DEF vars, Rest, CheckpointInv
  <1>7. QED
    BY <1>1, <1>2, <1>3, <1>4, <1>5, <1>6 DEF Next

\* Every step keeps the queries within their limits and in their order.
LEMMA PhaseStep ==
  ASSUME QueriesInv, [Next]_vars
  PROVE  PhaseInv'
  <1>0. Shape /\ LogInv /\ CheckpointInv /\ PhaseInv
    BY DEF QueriesInv
  <1> USE <1>0
  <1>1. CASE Execute
    <2>1. \A q \in Queries : \A p \in 1..P :
            /\ ck[q].at[p] <= Latest[p]
            /\ ck[q].plan # <<>> => ck[q].plan[p] <= Latest[p]
      BY LatestType DEF CheckpointInv
    <2>2. \A p \in 1..P : Latest[p] <= Len(log[p])
      BY LatestType
    <2>3. Query' = "landing" /\ exec'.limit = Latest /\ ck' = ck /\ log' = log
          /\ exec'.phase = "landing"
      BY <1>1, ExecuteFrame DEF Query
    <2>4. QED
      BY <2>1, <2>2, <2>3 DEF PhaseInv, Queries
  <1>2. CASE PlanBatch
    <2>1. Query' = Query /\ exec' = exec /\ Query = exec.phase /\ Query \in Queries
          /\ (Running' <=> Running) /\ log' = log
      BY <1>2, PlanFrame DEF Query, Running
    <2>2. \A q \in Queries \ {Query} : (Finished(q)' <=> Finished(q)) /\ ck'[q] = ck[q]
      BY <1>2, PlanFrame DEF Finished
    <2>3. \A p \in 1..P : /\ ck'[Query].at[p] <= exec.limit[p]
                          /\ ck'[Query].plan[p] <= exec.limit[p]
                          /\ ck'[Query].at[p] = ck[Query].at[p]
      BY <1>2, <2>1, PlanFrame DEF PhaseInv, Running
    <2>4. QED
      BY <2>1, <2>2, <2>3 DEF PhaseInv, Queries
  <1>3. CASE WriteBatch
    BY <1>3, WriteFrame DEF PhaseInv, Query, Running, Finished
  <1>4. CASE CommitBatch
    <2>1. Query' = Query /\ exec' = exec /\ Query = exec.phase /\ Query \in Queries
          /\ (Running' <=> Running) /\ log' = log
      BY <1>4, CommitFrame DEF Query, Running
    <2>2. \A q \in Queries \ {Query} : (Finished(q)' <=> Finished(q)) /\ ck'[q] = ck[q]
      BY <1>4, CommitFrame DEF Finished
    <2>3. ck'[Query].plan = <<>> /\ \A p \in 1..P : ck'[Query].at[p] <= exec.limit[p]
      BY <1>4, <2>1, CommitFrame DEF PhaseInv, Running
    <2>4. QED
      BY <2>1, <2>2, <2>3 DEF PhaseInv, Queries
  <1>5. CASE FinishQuery
    <2>1. /\ log' = log /\ ck' = ck /\ Query = exec.phase /\ Query' = exec'.phase
          /\ Finished(Query) /\ ck[Query].at = exec.limit /\ Query \in Queries
      BY <1>5, FinishFrame DEF Query
    <2>2. \A q \in Queries : Finished(q)' <=> Finished(q)
      BY <2>1 DEF Finished
    <2>3. \A p \in 1..P : /\ Latest[p] = Len(log[p]) /\ exec.limit[p] <= Latest[p]
                          /\ exec.limit[p] \in Nat /\ Latest[p] \in Nat
                          /\ ck["landing"].at[p] \in Nat
                          /\ \A q \in Queries :
                               /\ ck[q].at[p] <= Latest[p]
                               /\ ck[q].plan # <<>> => ck[q].plan[p] <= Latest[p]
      BY VectorsAreNat, LatestType DEF CheckpointInv, PhaseInv, Queries
    <2>4. CASE Query = "landing"
      <3>1. exec'.phase = "accepted" /\ exec'.limit = Latest
        BY <1>5, <2>4, FinishFrame
      <3>2. QED
        BY <2>1, <2>2, <2>3, <2>4, <3>1 DEF PhaseInv, Queries
    <2>5. CASE Query = "accepted"
      <3>1. exec'.phase = "rejected" /\ exec'.limit = Latest
        BY <1>5, <2>5, FinishFrame
      <3>2. \A p \in 1..P : /\ ck["landing"].at[p] <= ck["accepted"].at[p]
                            /\ ck["landing"].at[p] <= Latest[p]
        BY <2>1, <2>3, <2>5 DEF PhaseInv
      <3>3. QED
        BY <2>1, <2>2, <2>3, <2>5, <3>1, <3>2 DEF PhaseInv, Queries
    <2>6. CASE Query = "rejected"
      <3>1. exec'.phase = "check" /\ exec'.limit = exec.limit
        BY <1>5, <2>6, FinishFrame
      <3>2. QED
        BY <2>1, <2>2, <2>3, <2>6, <3>1 DEF PhaseInv, Queries, Running
    <2>7. QED
      BY <2>1, <2>4, <2>5, <2>6 DEF Queries
  <1>6. CASE Check \/ Crash
    BY <1>6, EndFrame DEF PhaseInv, Running, Query, Queries
  <1>7. ASSUME NEW r \in 1..P, NEW m \in Message, WriteOther(r, m)
        PROVE  PhaseInv'
    <2>1. \A p \in 1..P : exec.limit[p] <= Len(log'[p])
      <3> TAKE p \in 1..P
      <3>1. Len(log[p]) <= Len(log'[p]) /\ Len(log'[p]) \in Nat
        BY <1>7, OtherFrame
      <3>2. QED
        BY <3>1, VectorsAreNat DEF PhaseInv
    <2>2. ck' = ck /\ exec' = exec
      BY <1>7, OtherFrame
    <2>3. QED
      BY <2>1, <2>2 DEF PhaseInv, Query, Running, Finished
  <1>8. CASE UNCHANGED vars \/ Rest
    BY <1>8 DEF vars, Rest, PhaseInv, Query, Running, Finished
  <1>9. QED
    BY <1>1, <1>2, <1>3, <1>4, <1>5, <1>6, <1>7, <1>8 DEF Next

\* A step plans, writes or commits a batch, or leaves checkpoints and sinks alone; no
\* message is taken away.
LEMMA Steps ==
  ASSUME QueriesInv, [Next]_vars
  PROVE  /\ manifest' = manifest
         /\ PlanBatch \/ WriteBatch \/ CommitBatch \/ (ck' = ck /\ sink' = sink)
         /\ \A p \in 1..P : /\ Len(log'[p]) \in Nat /\ Len(log[p]) <= Len(log'[p])
                            /\ \A k \in 1..Len(log[p]) : log'[p][k] = log[p][k]
  <1>0. Shape /\ CheckpointInv /\ PhaseInv /\ \A p \in 1..P : Len(log[p]) \in Nat
    BY LatestType DEF QueriesInv
  <1>1. CASE Execute
    BY <1>0, <1>1 DEF Execute
  <1>2. CASE PlanBatch
    BY <1>0, <1>2 DEF PlanBatch
  <1>3. CASE WriteBatch
    BY <1>0, <1>3, WriteFrame
  <1>4. CASE CommitBatch
    BY <1>0, <1>4, CommitFrame
  <1>5. CASE FinishQuery
    BY <1>0, <1>5 DEF FinishQuery
  <1>6. CASE Check \/ Crash
    BY <1>0, <1>6 DEF Check, Crash
  <1>7. ASSUME NEW r \in 1..P, NEW m \in Message, WriteOther(r, m)
        PROVE  /\ manifest' = manifest /\ ck' = ck /\ sink' = sink
               /\ \A p \in 1..P : /\ Len(log'[p]) \in Nat /\ Len(log[p]) <= Len(log'[p])
                                  /\ \A k \in 1..Len(log[p]) : log'[p][k] = log[p][k]
    BY <1>0, <1>7, OtherFrame
  <1>8. CASE UNCHANGED vars \/ Rest
    BY <1>0, <1>8 DEF vars, Rest
  <1>9. QED
    BY <1>1, <1>2, <1>3, <1>4, <1>5, <1>6, <1>7, <1>8 DEF Next

-----------------------------------------------------------------------------
(* Messages and rows.                                                      *)

\* Messages do not change.
LEMMA SameMessage ==
  ASSUME QueriesInv, [Next]_vars, NEW row \in Places, row[2] < Len(log[row[1]])
  PROVE  /\ At(row)' = At(row) /\ IdOf(row)' = IdOf(row) /\ Time(row)' = Time(row)
         /\ row[2] < Len(log'[row[1]])
  <1>1. row[1] \in 1..P /\ row[2] \in Nat
    BY DEF Places
  <1>2. Len(log[row[1]]) \in Nat
    BY <1>1, LatestType DEF QueriesInv
  <1>3. row[2] + 1 \in 1..Len(log[row[1]])
    BY <1>1, <1>2
  <1>4. log'[row[1]][row[2] + 1] = log[row[1]][row[2] + 1]
    BY <1>1, <1>3, Steps
  <1>5. row[2] < Len(log'[row[1]])
    BY <1>1, <1>2, Steps
  <1>6. At(row)' = At(row)
    BY <1>4 DEF At
  <1>7. QED
    BY <1>5, <1>6 DEF IdOf, Time

\* What a sink reaches lies within the topic.
LEMMA ReachedBounds ==
  ASSUME QueriesInv, NEW q \in Queries
  PROVE  /\ Reached(q) \in Vector
         /\ \A p \in 1..P : /\ manifest.starts[p] <= Reached(q)[p]
                            /\ ck[q].at[p] <= Reached(q)[p]
                            /\ Reached(q)[p] <= Len(log[p])
  <1>0. Shape /\ LogInv /\ CheckpointInv /\ PhaseInv
    BY DEF QueriesInv
  <1>1. CASE Len(sink[q]) = ck[q].done
    BY <1>0, <1>1, Fields, VectorsAreNat DEF Reached, CheckpointInv
  <1>2. CASE Len(sink[q]) # ck[q].done
    <2>1. ck[q].plan # <<>> /\ Reached(q) = ck[q].plan
      BY <1>0, <1>2 DEF CheckpointInv, Reached
    <2>2. Reached(q) \in Vector
      BY <1>0, <2>1, Fields
    <2>3. ASSUME NEW p \in 1..P
          PROVE  /\ manifest.starts[p] <= Reached(q)[p]
                 /\ ck[q].at[p] <= Reached(q)[p]
                 /\ Reached(q)[p] <= Len(log[p])
      <3>1. /\ manifest.starts[p] <= ck[q].at[p] /\ ck[q].at[p] <= ck[q].plan[p]
            /\ ck[q].plan[p] <= Len(log[p])
        BY <1>0, <2>1 DEF CheckpointInv
      <3>2. QED
        BY <1>0, <2>1, <3>1, VectorsAreNat
    <2>4. QED
      BY <2>2, <2>3
  <1>3. QED
    BY <1>1, <1>2

\* Rows read are messages of the topic.
LEMMA ReadRows ==
  ASSUME QueriesInv, NEW to \in Vector, \A p \in 1..P : to[p] <= Len(log[p]),
         NEW row \in Between(manifest.starts, to)
  PROVE  /\ row \in Places /\ row[2] < Len(log[row[1]])
         /\ At(row) \in Message /\ IdOf(row) \in Ids /\ At(row).ok \in BOOLEAN
         /\ Time(row) \in Nat /\ Time(row) > 0
         /\ row \in Between(manifest.starts, Latest)
  <1>0. Shape
    BY DEF QueriesInv
  <1>1. manifest.starts \in Vector /\ Latest \in Vector
    BY <1>0, Fields, LatestType
  <1>2. row \in Places /\ row[1] \in 1..P /\ row[2] \in Nat /\ row[2] < to[row[1]]
        /\ manifest.starts[row[1]] <= row[2]
    BY <1>1, BetweenRows
  <1>3. to[row[1]] \in Nat /\ Len(log[row[1]]) \in Nat /\ to[row[1]] <= Len(log[row[1]])
        /\ Latest[row[1]] = Len(log[row[1]])
    BY <1>0, <1>2, LatestType DEF Vector
  <1>4. row[2] < Len(log[row[1]])
    BY <1>2, <1>3
  <1>5. row \in Between(manifest.starts, Latest)
    BY <1>1, <1>2, <1>3, <1>4, RowsBetween
  <1>6. QED
    BY <1>0, <1>2, <1>4, <1>5, MessagesInLog

\* What was read stays what it was.
LEMMA SameRows ==
  ASSUME QueriesInv, [Next]_vars, NEW from \in Vector, NEW to \in Vector,
         \A p \in 1..P : to[p] <= Len(log[p])
  PROVE  /\ Between(from, to)' = Between(from, to)
         /\ \A row \in Between(from, to) :
              At(row)' = At(row) /\ IdOf(row)' = IdOf(row) /\ Time(row)' = Time(row)
         /\ Valid(from, to)' = Valid(from, to) /\ Invalid(from, to)' = Invalid(from, to)
         /\ IdsIn(Valid(from, to))' = IdsIn(Valid(from, to))
  <1>1. Between(from, to)' = Between(from, to)
    BY DEF Between
  <1>2. ASSUME NEW row \in Between(from, to)
        PROVE  At(row)' = At(row) /\ IdOf(row)' = IdOf(row) /\ Time(row)' = Time(row)
    <2>1. row \in Places /\ row[1] \in 1..P /\ row[2] \in Nat /\ row[2] < to[row[1]]
      BY BetweenRows
    <2>2. to[row[1]] \in Nat /\ Len(log[row[1]]) \in Nat /\ to[row[1]] <= Len(log[row[1]])
      BY <2>1, LatestType DEF Vector, QueriesInv
    <2>3. row[2] < Len(log[row[1]])
      BY <2>1, <2>2
    <2>4. QED
      BY <2>1, <2>3, SameMessage
  <1>3. Valid(from, to)' = Valid(from, to) /\ Invalid(from, to)' = Invalid(from, to)
    BY <1>1, <1>2 DEF Valid, Invalid
  <1>4. Valid(from, to) \subseteq Between(from, to)
    BY DEF Valid
  <1>5. IdsIn(Valid(from, to))' = IdsIn(Valid(from, to))
    <2>1. IdsIn(Valid(from, to))' = {IdOf(row)' : row \in Valid(from, to)'}
      BY DEF IdsIn
    <2>2. QED
      BY <1>2, <1>3, <1>4, <2>1 DEF IdsIn
  <1>6. QED
    BY <1>1, <1>2, <1>3, <1>5

\* Only writing a batch makes the sink of a query reach further.
LEMMA ReachedStep ==
  ASSUME QueriesInv, [Next]_vars, NEW q \in Queries
  PROVE  \/ /\ Reached(q)' = Reached(q) /\ sink'[q] = sink[q] /\ Rows(q)' = Rows(q)
         \/ /\ WriteBatch /\ q = Query
            /\ Reached(q) = ck[q].at /\ Reached(q)' = ck[q].plan
  <1>0. Shape /\ CheckpointInv /\ PhaseInv
    BY DEF QueriesInv
  <1>1. CASE PlanBatch
    <2>1. sink' = sink /\ ck'[q].done = ck[q].done /\ ck'[q].at = ck[q].at
      BY <1>0, <1>1, PlanFrame
    <2>2. Rows(q)' = Rows(q)
      BY <2>1 DEF Rows
    <2>3. CASE q = Query
      <3>1. ck[q].plan = <<>> /\ Len(sink[q]) = ck[q].done
        BY <1>0, <1>1, <2>3, PlanFrame DEF CheckpointInv
      <3>2. QED
        BY <2>1, <2>2, <3>1 DEF Reached
    <2>4. CASE q # Query
      <3>1. ck'[q] = ck[q]
        BY <1>0, <1>1, <2>4, PlanFrame
      <3>2. QED
        BY <2>1, <2>2, <3>1 DEF Reached
    <2>5. QED
      BY <2>3, <2>4
  <1>2. CASE WriteBatch
    <2>1. CASE q = Query
      <3>1. Reached(q) = ck[q].at
        BY <1>0, <1>2, <2>1, WriteFrame DEF Reached
      <3>2. Len(sink'[q]) # ck'[q].done
        <4>1. Len(sink'[q]) = ck[q].done + 1 /\ ck' = ck
          BY <1>0, <1>2, <2>1, WriteFrame
        <4>2. QED
          BY <1>0, <4>1, Fields
      <3>3. Reached(q)' = ck'[q].plan /\ ck' = ck
        BY <1>0, <1>2, <3>2, WriteFrame DEF Reached
      <3>4. QED
        BY <1>2, <2>1, <3>1, <3>3
    <2>2. CASE q # Query
      BY <1>0, <1>2, <2>2, WriteFrame DEF Reached
    <2>3. QED
      BY <2>1, <2>2
  <1>3. CASE CommitBatch
    <2>1. sink' = sink
      BY <1>0, <1>3, CommitFrame
    <2>2. Rows(q)' = Rows(q)
      BY <2>1 DEF Rows
    <2>3. CASE q = Query
      <3>1. /\ Len(sink[q]) = ck[q].done + 1 /\ ck'[q].done = ck[q].done + 1
            /\ ck'[q].at = ck[q].plan
        BY <1>0, <1>3, <2>3, CommitFrame
      <3>2. ck[q].done \in Nat
        BY <1>0, Fields
      <3>3. Len(sink'[q]) = ck'[q].done /\ Len(sink[q]) # ck[q].done
        BY <2>1, <3>1, <3>2
      <3>4. QED
        BY <2>1, <2>2, <3>1, <3>3 DEF Reached
    <2>4. CASE q # Query
      <3>1. ck'[q] = ck[q]
        BY <1>0, <1>3, <2>4, CommitFrame
      <3>2. QED
        BY <2>1, <2>2, <3>1 DEF Reached
    <2>5. QED
      BY <2>3, <2>4
  <1>4. CASE ck' = ck /\ sink' = sink
    BY <1>4 DEF Reached, Rows
  <1>5. QED
    BY <1>1, <1>2, <1>3, <1>4, Steps

\* A batch joins what the sink reached.
LEMMA BatchJoins ==
  ASSUME QueriesInv, Planned
  PROVE  LET from == manifest.starts
         IN  /\ Between(from, ck[Query].plan) = Between(from, ck[Query].at) \union Batch
             /\ Valid(from, ck[Query].plan) =
                  Valid(from, ck[Query].at) \union {row \in Batch : At(row).ok}
             /\ Invalid(from, ck[Query].plan) =
                  Invalid(from, ck[Query].at) \union {row \in Batch : ~ At(row).ok}
  <1>0. Shape /\ CheckpointInv
    BY DEF QueriesInv
  <1>1. /\ Query \in Queries /\ ck[Query].plan # <<>> /\ ck[Query].plan \in Vector
        /\ ck[Query].at \in Vector /\ manifest.starts \in Vector
    BY <1>0, BatchTypes, Fields DEF Planned
  <1>2. \A p \in 1..P : /\ manifest.starts[p] <= ck[Query].at[p]
                        /\ ck[Query].at[p] <= ck[Query].plan[p]
    BY <1>0, <1>1 DEF CheckpointInv
  <1>3. Between(manifest.starts, ck[Query].plan) =
          Between(manifest.starts, ck[Query].at) \union Batch
    <2> DEFINE a == manifest.starts
               b == ck[Query].at
               c == ck[Query].plan
    <2>1. /\ a \in Vector /\ b \in Vector /\ c \in Vector
          /\ \A p \in 1..P : a[p] <= b[p] /\ b[p] <= c[p]
      BY <1>1, <1>2
    <2>2. Batch = Between(b, c)
      BY DEF Batch
    <2> HIDE DEF a, b, c
    <2>3. Between(a, c) = Between(a, b) \union Between(b, c)
      BY <2>1, BetweenJoins
    <2>4. QED
      BY <2>2, <2>3 DEF a, b, c
  <1>4. QED
    BY <1>3 DEF Valid, Invalid

\* Every step keeps Bronze and quarantine what has been read: a batch is written in one
\* piece, and not again once the sink has it.
LEMMA RowsStep ==
  ASSUME QueriesInv, RowsInv, [Next]_vars
  PROVE  RowsInv'
  <1>0. Shape /\ CheckpointInv /\ manifest' = manifest /\ manifest.starts \in Vector
    BY Steps, Fields DEF QueriesInv
  <1>1. ASSUME NEW q \in Queries
        PROVE  /\ Between(manifest.starts, Reached(q))' =
                    Between(manifest'.starts, Reached(q)')
               /\ Valid(manifest.starts, Reached(q))' =
                    {row \in Between(manifest'.starts, Reached(q)') : At(row)'.ok}
               /\ Invalid(manifest.starts, Reached(q))' =
                    {row \in Between(manifest'.starts, Reached(q)') : ~ At(row)'.ok}
    BY DEF Between, Valid, Invalid
  <1>2. ASSUME NEW q \in Queries, Reached(q)' = Reached(q)
        PROVE  /\ Between(manifest.starts, Reached(q))' = Between(manifest.starts, Reached(q))
               /\ Valid(manifest.starts, Reached(q))' = Valid(manifest.starts, Reached(q))
               /\ Invalid(manifest.starts, Reached(q))' = Invalid(manifest.starts, Reached(q))
    <2>1. Reached(q) \in Vector /\ \A p \in 1..P : Reached(q)[p] <= Len(log[p])
      BY <1>2, ReachedBounds
    <2> DEFINE to == Reached(q)
               from == manifest.starts
    <2>2. /\ Between(from, to) = {row \in Between(from, to) : TRUE}
          /\ Valid(from, to) = {row \in Between(from, to) : At(row)'.ok}
          /\ Invalid(from, to) = {row \in Between(from, to) : ~ At(row)'.ok}
      <3>1. \A row \in Between(from, to) : At(row)' = At(row)
        BY <1>0, <2>1, SameRows
      <3>2. QED
        BY <3>1 DEF Valid, Invalid
    <2>3. QED
      BY <1>0, <1>1, <1>2, <2>2
  <1>3. ASSUME NEW q \in Queries, WriteBatch, q = Query
        PROVE  /\ Between(manifest.starts, Reached(q))' = Between(manifest.starts, ck[q].plan)
               /\ Valid(manifest.starts, Reached(q))' = Valid(manifest.starts, ck[q].plan)
               /\ Invalid(manifest.starts, Reached(q))' = Invalid(manifest.starts, ck[q].plan)
    <2>1. log' = log
      BY <1>0, <1>3, WriteFrame
    <2>2. Reached(q)' = ck[q].plan
      <3>1. Reached(q)' = ck[q].plan \/ (Reached(q)' = Reached(q) /\ sink'[q] = sink[q])
        BY ReachedStep
      <3>2. sink'[q] # sink[q]
        <4>1. Len(sink'[q]) = ck[q].done + 1 /\ Len(sink[q]) = ck[q].done
          BY <1>0, <1>3, WriteFrame
        <4>2. ck[q].done \in Nat
          BY <1>0, Fields
        <4>3. QED
          BY <4>1, <4>2
      <3>3. QED
        BY <3>1, <3>2
    <2>3. \A row : At(row)' = At(row)
      BY <2>1 DEF At
    <2>4. QED
      BY <1>0, <1>1, <2>2, <2>3 DEF Valid, Invalid
  <1>4. ASSUME NEW q \in Queries, WriteBatch, q = Query
        PROVE  /\ Reached(q) = ck[q].at
               /\ \E rows \in Outputs : Rows(q)' = Rows(q) \union rows
    <2>1. Reached(q) = ck[q].at
      BY <1>0, <1>4, WriteFrame DEF Reached
    <2>2. Query' = Query
      BY <1>0, <1>4, WriteFrame DEF Query
    <2>3. Rows(Query)' = Rows(q)'
      BY <1>4, <2>2 DEF Rows
    <2>4. QED
      BY <1>0, <1>4, <2>1, <2>3, WriteFrame
  <1>5. \A q \in Queries : \/ Reached(q)' = Reached(q) /\ Rows(q)' = Rows(q)
                           \/ WriteBatch /\ q = Query
    BY ReachedStep
  <1>6. Rows("landing")' = Between(manifest.starts, Reached("landing"))'
    <2>1. CASE WriteBatch /\ Query = "landing"
      <3>1. Outputs = {Batch}
        BY <2>1 DEF Outputs
      <3>2. Rows("landing")' = Rows("landing") \union Batch
            /\ Reached("landing") = ck["landing"].at
        BY <1>4, <2>1, <3>1 DEF Queries
      <3>3. Between(manifest.starts, ck["landing"].plan) =
              Between(manifest.starts, ck["landing"].at) \union Batch
        BY <1>0, <2>1, WriteFrame, BatchJoins
      <3>4. QED
        BY <1>3, <2>1, <3>2, <3>3 DEF RowsInv, Queries
    <2>2. CASE ~ (WriteBatch /\ Query = "landing")
      BY <1>2, <1>5, <2>2 DEF RowsInv, Queries
    <2>3. QED
      BY <2>1, <2>2
  <1>7. Rows("rejected")' = Invalid(manifest.starts, Reached("rejected"))'
    <2>0. Rows("rejected") = Invalid(manifest.starts, Reached("rejected"))
      BY DEF RowsInv, Invalid
    <2>1. CASE WriteBatch /\ Query = "rejected"
      <3>1. Outputs = {{row \in Batch : ~ At(row).ok}}
        BY <2>1 DEF Outputs
      <3>2. Rows("rejected")' = Rows("rejected") \union {row \in Batch : ~ At(row).ok}
            /\ Reached("rejected") = ck["rejected"].at
        BY <1>4, <2>1, <3>1 DEF Queries
      <3>3. Invalid(manifest.starts, ck["rejected"].plan) =
              Invalid(manifest.starts, ck["rejected"].at) \union {row \in Batch : ~ At(row).ok}
        BY <1>0, <2>1, WriteFrame, BatchJoins
      <3>4. QED
        BY <1>3, <2>0, <2>1, <3>2, <3>3 DEF Queries
    <2>2. CASE ~ (WriteBatch /\ Query = "rejected")
      BY <1>2, <1>5, <2>0, <2>2 DEF Queries
    <2>3. QED
      BY <2>1, <2>2
  <1>8. Rows("accepted")' \subseteq Valid(manifest.starts, Reached("accepted"))'
    <2>1. CASE WriteBatch /\ Query = "accepted"
      <3>1. \A rows \in Outputs : rows \subseteq {row \in Batch : At(row).ok}
        BY <2>1 DEF Outputs, InTime
      <3>2. Rows("accepted")' \subseteq Rows("accepted") \union {row \in Batch : At(row).ok}
            /\ Reached("accepted") = ck["accepted"].at
        BY <1>4, <2>1, <3>1 DEF Queries
      <3>3. Valid(manifest.starts, ck["accepted"].plan) =
              Valid(manifest.starts, ck["accepted"].at) \union {row \in Batch : At(row).ok}
        BY <1>0, <2>1, WriteFrame, BatchJoins
      <3>4. QED
        BY <1>3, <2>1, <3>2, <3>3 DEF RowsInv, Queries
    <2>2. CASE ~ (WriteBatch /\ Query = "accepted")
      BY <1>2, <1>5, <2>2 DEF RowsInv, Queries
    <2>3. QED
      BY <2>1, <2>2
  <1>9. QED
    BY <1>6, <1>7, <1>8 DEF RowsInv, Invalid

-----------------------------------------------------------------------------
(* Deduplication.                                                          *)

\* Watermarks and ids stay explained by the messages that explained them.
LEMMA SameWatermark ==
  ASSUME QueriesInv, WatermarkInv, [Next]_vars,
         ck'["accepted"].at = ck["accepted"].at,
         ck'["accepted"].late = ck["accepted"].late,
         ck'["accepted"].evict = ck["accepted"].evict,
         ck'["accepted"].memory = ck["accepted"].memory,
         \A q \in Queries \ {"accepted"} : ck'[q].late = 0 /\ ck'[q].evict = 0
  PROVE  WatermarkInv'
  <1> DEFINE at == ck["accepted"].at
             from == manifest.starts
  <1>1. /\ from \in Vector /\ at \in Vector /\ manifest' = manifest
        /\ \A p \in 1..P : at[p] <= Len(log[p])
    <2>1. "accepted" \in Queries
      BY DEF Queries
    <2>2. QED
      BY <2>1, Fields, Steps DEF QueriesInv, CheckpointInv
  <1>2. /\ Valid(from, at)' = Valid(from, at)
        /\ IdsIn(Valid(from, at))' = IdsIn(Valid(from, at))
    <2>1. /\ \A row \in Between(from, at) : At(row)' = At(row) /\ IdOf(row)' = IdOf(row)
          /\ Valid(from, at) \subseteq Between(from, at)
      <3> HIDE DEF at, from
      <3>1. QED
        BY <1>1, SameRows DEF Valid
    <2>2. Valid(from, at)' = {row \in Between(manifest'.starts, ck'["accepted"].at) : At(row)'.ok}
      BY DEF Valid, Between
    <2>3. IdsIn(Valid(from, at))' = {IdOf(row)' : row \in Valid(from, at)'}
      BY DEF IdsIn
    <2>4. Valid(from, at)' = Valid(from, at)
      BY <1>1, <2>1, <2>2 DEF Valid
    <2>5. {IdOf(row)' : row \in Valid(from, at)'} = {IdOf(row) : row \in Valid(from, at)}
      BY <2>1, <2>4
    <2>6. QED
      BY <2>3, <2>4, <2>5 DEF IdsIn
  <1>3. \A row \in Valid(from, at) : Time(row)' = Time(row)
    <2>1. Valid(from, at) \subseteq Between(from, at)
      BY DEF Valid
    <2> HIDE DEF at, from
    <2>2. QED
      BY <1>1, <2>1, SameRows
  <1>4. \A w : (\E row \in Valid(from, at) : w = Time(row) - Delay)
                 => \E row \in Valid(from, at)' : w = Time(row)' - Delay
    BY <1>2, <1>3
  <1>5. QED
    BY <1>2, <1>4 DEF WatermarkInv

\* Every step keeps watermarks and remembered ids explained.
LEMMA WatermarkStep ==
  ASSUME QueriesInv, WatermarkInv, [Next]_vars
  PROVE  WatermarkInv'
  <1>0. Shape /\ CheckpointInv /\ PhaseInv /\ "accepted" \in Queries
    BY DEF QueriesInv, Queries
  <1>1. CASE ck' = ck
    BY <1>1, SameWatermark DEF WatermarkInv
  <1>2. CASE PlanBatch
    <2>1. \A q \in Queries : /\ ck'[q].at = ck[q].at /\ ck'[q].late = ck[q].late
                             /\ ck'[q].evict = ck[q].evict /\ ck'[q].memory = ck[q].memory
      BY <1>0, <1>2, PlanFrame
    <2>2. \A q \in Queries \ {"accepted"} : ck'[q].late = 0 /\ ck'[q].evict = 0
      BY <2>1 DEF WatermarkInv
    <2>3. QED
      BY <1>0, <2>1, <2>2, SameWatermark
  <1>3. CASE CommitBatch /\ Query # "accepted"
    <2>1. ck'["accepted"] = ck["accepted"]
      BY <1>0, <1>3, CommitFrame
    <2>2. \A q \in Queries \ {"accepted"} : ck'[q].late = 0 /\ ck'[q].evict = 0
      BY <1>0, <1>3, CommitFrame DEF WatermarkInv
    <2>3. QED
      BY <2>1, <2>2, SameWatermark
  <1>4. CASE CommitBatch /\ Query = "accepted"
    <2> DEFINE at == ck["accepted"].at
               plan == ck["accepted"].plan
               from == manifest.starts
    <2>1. /\ log' = log /\ manifest' = manifest /\ Planned
          /\ ck'["accepted"].at = plan
          /\ ck'["accepted"].late = ck["accepted"].evict
          /\ ck'["accepted"].evict >= ck["accepted"].evict
          /\ \/ ck'["accepted"].evict = ck["accepted"].evict
             \/ \E row \in Batch : /\ At(row).ok
                                   /\ ck'["accepted"].evict = Time(row) - Delay
          /\ ck'["accepted"].memory \subseteq
               ck["accepted"].memory \union {IdOf(row) : row \in InTime}
          /\ \A q \in Queries \ {"accepted"} : ck'[q] = ck[q]
      BY <1>0, <1>4, CommitFrame
    <2>2. Valid(from, plan) = Valid(from, at) \union {row \in Batch : At(row).ok}
      BY <1>4, <2>1, BatchJoins
    <2>3. Valid(manifest.starts, ck["accepted"].at)' = Valid(from, plan)
      BY <2>1 DEF Valid, Between, At
    <2>4. IdsIn(Valid(manifest.starts, ck["accepted"].at))' = IdsIn(Valid(from, plan))
      <3>1. \A row : IdOf(row)' = IdOf(row)
        BY <2>1 DEF IdOf, At
      <3>2. QED
        BY <2>3, <3>1 DEF IdsIn
    <2>5. \A row : Time(row)' = Time(row)
      BY <2>1 DEF Time, IdOf, At
    <2>6. IdsIn(Valid(from, at)) \union {IdOf(row) : row \in InTime} \subseteq
            IdsIn(Valid(from, plan))
      BY <2>2 DEF IdsIn, InTime
    <2>7. ck'["accepted"].memory \subseteq IdsIn(Valid(manifest.starts, ck["accepted"].at))'
      BY <2>1, <2>4, <2>6 DEF WatermarkInv
    <2>8. ASSUME NEW w \in {ck'["accepted"].late, ck'["accepted"].evict}
          PROVE  w = 0 \/ \E row \in Valid(from, plan) : w = Time(row) - Delay
      BY <2>1, <2>2 DEF WatermarkInv
    <2>9. QED
      BY <2>1, <2>3, <2>5, <2>7, <2>8 DEF WatermarkInv
  <1>5. CASE WriteBatch
    BY <1>0, <1>1, <1>5, WriteFrame
  <1>6. QED
    BY <1>1, <1>2, <1>3, <1>4, <1>5, Steps

\* Rows of Silver are messages of the topic, and stay what they are.
LEMMA SilverRows ==
  ASSUME QueriesInv, RowsInv, NEW x \in Rows("accepted")
  PROVE  /\ x \in Places /\ x[2] < Len(log[x[1]])
         /\ IdOf(x) \in Ids /\ Time(x) \in Nat /\ TimeOf[IdOf(x)] = Time(x)
         /\ [Next]_vars => At(x)' = At(x) /\ IdOf(x)' = IdOf(x) /\ Time(x)' = Time(x)
  <1>1. x \in Between(manifest.starts, Reached("accepted"))
    BY DEF RowsInv, Valid
  <1>2. Reached("accepted") \in Vector /\ \A p \in 1..P : Reached("accepted")[p] <= Len(log[p])
    BY ReachedBounds DEF Queries
  <1>3. x \in Places /\ x[2] < Len(log[x[1]]) /\ IdOf(x) \in Ids /\ Time(x) \in Nat
    BY <1>1, <1>2, ReadRows
  <1>4. QED
    BY <1>3, SameMessage DEF Time

\* A step that leaves the deduplication alone leaves Silver free of duplicates.
LEMMA SameSilver ==
  ASSUME QueriesInv, RowsInv, SilverInv, [Next]_vars,
         sink'["accepted"] = sink["accepted"],
         ck'["accepted"].done = ck["accepted"].done,
         ck'["accepted"].at = ck["accepted"].at,
         ck'["accepted"].late = ck["accepted"].late,
         ck'["accepted"].memory = ck["accepted"].memory,
         \/ ck'["accepted"].plan = ck["accepted"].plan
         \/ Len(sink["accepted"]) = ck["accepted"].done
  PROVE  SilverInv'
  <1>0. Shape /\ "accepted" \in Queries /\ ck["accepted"].done \in Nat
    BY Fields DEF QueriesInv, Queries
  <1>1. Rows("accepted")' = Rows("accepted")
    BY DEF Rows
  <1>2. \A x \in Rows("accepted") :
          At(x)' = At(x) /\ IdOf(x)' = IdOf(x) /\ Time(x)' = Time(x)
    BY SilverRows
  <1>3. \A id : Kept(id)' <=> Kept(id)
    BY DEF Kept
  <1>4. \A k \in 1..Len(sink["accepted"]) : sink["accepted"][k] \subseteq Rows("accepted")
    BY <1>0, RowOfBatch
  <1>5. \A k \in 1..ck["accepted"].done : k \in 1..Len(sink["accepted"])
    <2>1. Len(sink["accepted"]) \in Nat /\ Len(sink["accepted"]) >= ck["accepted"].done
      BY <1>0, RowsOf DEF QueriesInv, CheckpointInv
    <2>2. QED
      BY <1>0, <2>1
  <1>6. \A k \in 1..ck'["accepted"].done : \A x \in sink'["accepted"][k] : Kept(IdOf(x))'
    <2> TAKE k \in 1..ck'["accepted"].done
    <2> TAKE x \in sink'["accepted"][k]
    <2>1. x \in Rows("accepted") /\ Kept(IdOf(x)) /\ IdOf(x)' = IdOf(x)
      BY <1>2, <1>4, <1>5 DEF SilverInv
    <2>2. QED
      BY <2>1 DEF Kept
  <1>7. Len(sink'["accepted"]) > ck'["accepted"].done =>
          \A x \in sink'["accepted"][ck'["accepted"].done + 1] :
            /\ x \in Between(ck["accepted"].at, ck["accepted"].plan)'
            /\ At(x)'.ok /\ Time(x)' > ck'["accepted"].late
    <2> SUFFICES ASSUME Len(sink["accepted"]) > ck["accepted"].done,
                        NEW x \in sink["accepted"][ck["accepted"].done + 1]
                 PROVE  /\ x \in Between(ck["accepted"].at, ck["accepted"].plan)'
                        /\ At(x)'.ok /\ Time(x)' > ck'["accepted"].late
      OBVIOUS
    <2>1. Len(sink["accepted"]) \in Nat
      BY <1>0, RowsOf
    <2>2. ck["accepted"].done + 1 \in 1..Len(sink["accepted"])
      BY <1>0, <2>1
    <2>3. x \in Rows("accepted")
      BY <1>4, <2>2
    <2>4. ck'["accepted"].plan = ck["accepted"].plan
      BY <1>0, <2>1
    <2>5. Between(ck["accepted"].at, ck["accepted"].plan)' =
            Between(ck["accepted"].at, ck["accepted"].plan)
      BY <2>4 DEF Between
    <2>6. QED
      BY <1>2, <2>3, <2>5 DEF SilverInv
  <1>8. \A x, y \in Rows("accepted")' : IdOf(x)' = IdOf(y)' => x = y
    BY <1>1, <1>2 DEF SilverInv
  <1>9. QED
    BY <1>6, <1>7, <1>8 DEF SilverInv

\* No step brings an event into Silver twice.
LEMMA SilverStep ==
  ASSUME QueriesInv, RowsInv, WatermarkInv, SilverInv, [Next]_vars
  PROVE  SilverInv'
  <1>0. Shape /\ CheckpointInv /\ PhaseInv /\ "accepted" \in Queries
    BY DEF QueriesInv, Queries
  <1> DEFINE c == ck["accepted"]
             s == sink["accepted"]
  <1>00. /\ c.done \in Nat /\ c.late \in Int /\ c.evict \in Int /\ Len(s) \in Nat
        /\ Len(s) >= c.done /\ c.at \in Vector
    BY <1>0, Fields, RowsOf DEF CheckpointInv
  <1>01. \A k \in 1..Len(s) : s[k] \subseteq Rows("accepted")
    BY <1>0, RowOfBatch
  <1>1. CASE ck' = ck /\ sink' = sink
    BY <1>1, SameSilver
  <1>2. CASE PlanBatch
    <2>1. /\ sink' = sink /\ ck'["accepted"].done = c.done /\ ck'["accepted"].at = c.at
          /\ ck'["accepted"].late = c.late /\ ck'["accepted"].memory = c.memory
      BY <1>0, <1>2, PlanFrame
    <2>2. ck'["accepted"].plan = c.plan \/ Len(s) = c.done
      <3>1. CASE Query = "accepted"
        BY <1>0, <1>2, <3>1, PlanFrame DEF CheckpointInv
      <3>2. CASE Query # "accepted"
        BY <1>0, <1>2, <3>2, PlanFrame
      <3>3. QED
        BY <3>1, <3>2
    <2>3. QED
      BY <2>1, <2>2, SameSilver
  <1>3. CASE (WriteBatch \/ CommitBatch) /\ Query # "accepted"
    <2>1. ck'["accepted"] = c /\ sink'["accepted"] = s
      BY <1>0, <1>3, WriteFrame, CommitFrame
    <2>2. QED
      BY <2>1, SameSilver
  <1>4. CASE WriteBatch /\ Query = "accepted"
    <2> DEFINE rows == sink'["accepted"][c.done + 1]
    <2>1. /\ log' = log /\ ck' = ck /\ Len(s) = c.done /\ Planned
          /\ \A k \in 1..c.done : sink'["accepted"][k] = s[k]
          /\ rows \in Outputs
      BY <1>0, <1>4, WriteFrame
    <2>2. Rows("accepted")' = Rows("accepted") \union rows
      <3>1. Query' = Query
        BY <1>0, <1>4, WriteFrame DEF Query
      <3>2. Rows(Query)' = Rows("accepted")'
        BY <1>4, <3>1 DEF Rows
      <3>3. QED
        BY <1>0, <1>4, <3>2, WriteFrame
    <2>3. /\ \A x \in rows : /\ x \in Batch /\ At(x).ok /\ Time(x) > c.late
                             /\ IdOf(x) \notin c.memory
          /\ \A x, y \in rows : IdOf(x) = IdOf(y) => x = y
      BY <1>4, <2>1 DEF Outputs, InTime
    <2> HIDE DEF rows
    <2>4. \A x \in Rows("accepted") : Kept(IdOf(x))
      BY <1>0, <2>1, RowOfBatch DEF SilverInv
    <2>5. ASSUME NEW y \in rows, Kept(IdOf(y))
          PROVE  FALSE
      <3>1. TimeOf[IdOf(y)] + Delay <= c.late /\ Time(y) = TimeOf[IdOf(y)]
        BY <2>3, <2>5 DEF Kept, Time
      <3>2. Time(y) \in Nat /\ Time(y) > c.late /\ Delay \in Nat
        BY <1>0, <2>1, <2>3, BatchTypes, StreamingAssumption
      <3>3. QED
        BY <1>00, <3>1, <3>2
    <2>6. \A x, y \in Rows("accepted") \union rows : IdOf(x) = IdOf(y) => x = y
      BY <2>3, <2>4, <2>5 DEF SilverInv
    <2>7. \A x : At(x)' = At(x) /\ IdOf(x)' = IdOf(x) /\ Time(x)' = Time(x)
      BY <2>1 DEF At, IdOf, Time
    <2>8. \A x, y \in Rows("accepted")' : IdOf(x)' = IdOf(y)' => x = y
      BY <2>2, <2>6, <2>7
    <2>9. \A k \in 1..c.done : \A x \in sink'["accepted"][k] : Kept(IdOf(x))'
      BY <2>1, <2>7 DEF SilverInv, Kept
    <2>10. \A x \in rows : /\ x \in Between(c.at, c.plan)'
                           /\ At(x)'.ok /\ Time(x)' > c.late
      <3>1. Between(c.at, c.plan)' = Batch
        BY <1>4, <2>1 DEF Between, Batch
      <3>2. QED
        BY <2>3, <2>7, <3>1
    <2>11. QED
      BY <2>1, <2>8, <2>9, <2>10 DEF SilverInv, rows
  <1>5. CASE CommitBatch /\ Query = "accepted"
    <2>1. /\ log' = log /\ sink' = sink /\ Len(s) = c.done + 1 /\ Planned
          /\ ck'["accepted"].done = c.done + 1 /\ ck'["accepted"].late = c.evict
          /\ ck'["accepted"].memory =
               {id \in c.memory \union {IdOf(row) : row \in InTime} : Remembers(id, c.evict)}
      BY <1>0, <1>5, CommitFrame
    <2>2. \A x : At(x)' = At(x) /\ IdOf(x)' = IdOf(x) /\ Time(x)' = Time(x)
      BY <2>1 DEF At, IdOf, Time
    <2>3. \A x, y \in Rows("accepted")' : IdOf(x)' = IdOf(y)' => x = y
      <3>1. Rows("accepted")' = Rows("accepted")
        BY <2>1 DEF Rows
      <3>2. QED
        BY <2>2, <3>1 DEF SilverInv
    <2>4. ASSUME NEW k \in 1..(c.done + 1),
                 NEW x \in s[k]
          PROVE  \/ IdOf(x) \in c.memory \union {IdOf(row) : row \in InTime}
                 \/ TimeOf[IdOf(x)] + Delay <= c.late
      <3>1. CASE k \in 1..c.done
        BY <2>4, <3>1 DEF SilverInv, Kept
      <3>2. CASE k = c.done + 1
        <4>1. x \in Batch /\ At(x).ok /\ Time(x) > c.late
          BY <1>00, <1>5, <2>1, <2>4, <3>2 DEF SilverInv, Batch
        <4>2. x \in InTime
          BY <1>5, <4>1 DEF InTime
        <4>3. QED
          BY <4>2
      <3>3. QED
        BY <1>00, <3>1, <3>2
    <2>5. ASSUME NEW k \in 1..(c.done + 1), NEW x \in s[k]
          PROVE  Kept(IdOf(x))'
      <3>1. TimeOf[IdOf(x)] \in Nat /\ Delay \in Nat
        <4>1. x \in Rows("accepted")
          BY <1>01, <2>1
        <4>2. QED
          BY <4>1, SilverRows, StreamingAssumption
      <3>2. c.late <= c.evict
        BY DEF WatermarkInv
      <3>3. IdOf(x) \in ck'["accepted"].memory \/ TimeOf[IdOf(x)] + Delay <= c.evict
        <4>1. CASE TimeOf[IdOf(x)] + Delay <= c.late
          BY <1>00, <3>1, <3>2, <4>1
        <4>2. CASE IdOf(x) \in c.memory \union {IdOf(row) : row \in InTime}
          BY <1>00, <2>1, <3>1, <4>2 DEF Remembers
        <4>3. QED
          BY <2>4, <4>1, <4>2
      <3>4. QED
        BY <2>1, <2>2, <3>3 DEF Kept
    <2>6. ~ Len(sink'["accepted"]) > ck'["accepted"].done
      BY <1>00, <2>1
    <2>7. QED
      BY <2>1, <2>3, <2>5, <2>6 DEF SilverInv
  <1>6. QED
    BY <1>1, <1>2, <1>3, <1>4, <1>5, Steps

\* Messages that were too far apart stay so.
LEMMA SpreadStays ==
  ASSUME QueriesInv, [Next]_vars, Spread
  PROVE  Spread'
  <1>0. Shape
    BY DEF QueriesInv
  <1> DEFINE from == manifest.starts
  <1>1. /\ from \in Vector /\ Latest \in Vector
        /\ \A p \in 1..P : Latest[p] = Len(log[p]) /\ Len(log[p]) \in Nat
    BY <1>0, Fields, LatestType
  <1>2. Shape' /\ manifest' = manifest
    BY ShapeStep, Steps
  <1>3. Latest' \in Vector /\ \A p \in 1..P : Latest'[p] = Len(log'[p])
    <2>1. \A p \in 1..P : Len(log'[p]) \in Nat
      BY Steps
    <2>2. QED
      BY <2>1 DEF Latest, Vector
  <1>4. Between(from, Latest) \subseteq Between(from, Latest')
    <2>1. \A p \in 1..P : from[p] <= from[p] /\ Latest[p] <= Latest'[p]
      <3> TAKE p \in 1..P
      <3>1. from[p] \in Nat
        BY <1>1 DEF Vector
      <3>2. QED
        BY <1>1, <1>3, <3>1, Steps
    <2> HIDE DEF from
    <2>2. QED
      BY <1>1, <1>3, <2>1, BetweenGrows
  <1>5. \A x \in Between(from, Latest) :
          At(x)' = At(x) /\ IdOf(x)' = IdOf(x) /\ Time(x)' = Time(x)
    <2>1. \A p \in 1..P : Latest[p] <= Len(log[p])
      BY <1>1
    <2> HIDE DEF from
    <2>2. QED
      BY <1>1, <2>1, SameRows
  <1>6. Between(manifest.starts, Latest)' = Between(from, Latest')
    BY <1>2 DEF Between
  <1>7. PICK x \in Between(from, Latest), y \in Between(from, Latest) :
          At(x).ok /\ At(y).ok /\ Time(x) + Delay <= Time(y)
    BY DEF Spread
  <1>8. QED
    BY <1>4, <1>5, <1>6, <1>7 DEF Spread

\* If no message is too far behind another, no message of a batch is late.
LEMMA NoneIsLate ==
  ASSUME QueriesInv, WatermarkInv, Planned, Query = "accepted", ~ Spread
  PROVE  InTime = {row \in Batch : At(row).ok}
  <1>0. Shape /\ CheckpointInv /\ "accepted" \in Queries
    BY DEF QueriesInv, Queries
  <1> DEFINE c == ck["accepted"]
             from == manifest.starts
  <1>1. /\ c.at \in Vector /\ c.plan \in Vector /\ c.late \in Int /\ Delay \in Nat
        /\ c.plan # <<>>
    BY <1>0, BatchTypes, Fields, StreamingAssumption DEF Planned
  <1>2. /\ \A p \in 1..P : c.at[p] <= Len(log[p]) /\ c.plan[p] <= Len(log[p])
    BY <1>0, <1>1 DEF CheckpointInv
  <1>3. Between(from, c.plan) = Between(from, c.at) \union Batch
    BY BatchJoins
  <1>4. \A row \in Between(from, c.plan) :
          Time(row) \in Nat /\ Time(row) > 0 /\ row \in Between(from, Latest)
    BY <1>1, <1>2, ReadRows
  <1>5. ASSUME NEW row \in Batch, At(row).ok
        PROVE  Time(row) > c.late
    <2>1. Time(row) \in Nat /\ Time(row) > 0 /\ row \in Between(from, Latest)
      BY <1>3, <1>4
    <2>2. CASE c.late = 0
      BY <2>1, <2>2
    <2>3. CASE c.late # 0
      <3>1. PICK y \in Valid(from, c.at) : c.late = Time(y) - Delay
        BY <2>3 DEF WatermarkInv
      <3>2. y \in Between(from, Latest) /\ At(y).ok /\ Time(y) \in Nat
        BY <1>3, <1>4, <3>1 DEF Valid
      <3>3. ~ (Time(row) + Delay <= Time(y))
        BY <1>5, <2>1, <3>2 DEF Spread
      <3>4. QED
        BY <1>1, <2>1, <3>1, <3>2, <3>3
    <2>4. QED
      BY <2>2, <2>3
  <1>6. QED
    BY <1>5 DEF InTime

\* Every step keeps Silver complete while no message could be late.
LEMMA CompleteStep ==
  ASSUME QueriesInv, RowsInv, WatermarkInv, Complete, [Next]_vars
  PROVE  Complete'
  <1>0. Shape /\ CheckpointInv /\ "accepted" \in Queries /\ manifest' = manifest
    BY Steps DEF QueriesInv, Queries
  <1> DEFINE from == manifest.starts
             to == Reached("accepted")
  <1>1. SUFFICES ASSUME ~ Spread
                 PROVE  IdsIn(Rows("accepted"))' = IdsIn(Valid(from, to))'
    BY SpreadStays DEF Complete
  <1>2. IdsIn(Rows("accepted")) = IdsIn(Valid(from, to))
    BY <1>1 DEF Complete
  <1>3. /\ IdsIn(Rows("accepted"))' = {IdOf(x)' : x \in Rows("accepted")'}
        /\ IdsIn(Valid(from, to))' = {IdOf(x)' : x \in Valid(from, to)'}
    BY DEF IdsIn
  <1>4. CASE Reached("accepted")' = Reached("accepted") /\ Rows("accepted")' = Rows("accepted")
    <2>1. /\ from \in Vector /\ to \in Vector /\ \A p \in 1..P : to[p] <= Len(log[p])
      BY <1>0, Fields, ReachedBounds
    <2>2. \A x \in Between(from, to) : At(x)' = At(x) /\ IdOf(x)' = IdOf(x)
      <3> HIDE DEF from, to
      <3>1. QED
        BY <2>1, SameRows
    <2>3. Valid(from, to)' = Valid(from, to)
      <3>1. Valid(from, to)' = {row \in Between(manifest'.starts, Reached("accepted")') :
                                 At(row)'.ok}
        BY DEF Valid, Between
      <3>2. QED
        BY <1>0, <1>4, <2>2, <3>1 DEF Valid
    <2>4. \A x \in Valid(from, to) : IdOf(x)' = IdOf(x)
      BY <2>2 DEF Valid
    <2>5. \A x \in Rows("accepted") : IdOf(x)' = IdOf(x)
      BY <2>4 DEF RowsInv
    <2> HIDE DEF from, to
    <2>6. {IdOf(x)' : x \in Rows("accepted")'} = {IdOf(x) : x \in Rows("accepted")}
      BY <1>4, <2>5
    <2>7. {IdOf(x)' : x \in Valid(from, to)'} = {IdOf(x) : x \in Valid(from, to)}
      BY <2>3, <2>4
    <2>8. QED
      BY <1>2, <1>3, <2>6, <2>7 DEF IdsIn
  <1>5. CASE WriteBatch /\ Query = "accepted"
    <2> DEFINE c == ck["accepted"]
               good == {row \in Batch : At(row).ok}
               new == {row \in good : IdOf(row) \notin c.memory}
    <2>1. /\ log' = log /\ Planned /\ to = c.at /\ to' = c.plan
          /\ Query' = "accepted"
      <3>1. Reached("accepted")' = c.plan
        <4>1. /\ Len(sink'["accepted"]) = c.done + 1 /\ ck' = ck
              /\ c.done \in Nat
          BY <1>0, <1>5, WriteFrame, Fields
        <4>2. Len(sink'["accepted"]) # c.done
          BY <4>1
        <4>3. QED
          BY <4>1, <4>2 DEF Reached
      <3>2. QED
        BY <1>0, <1>5, <3>1, WriteFrame DEF Reached, Query
    <2>2. PICK rows \in Outputs : Rows("accepted")' = Rows("accepted") \union rows
      <3>1. Rows(Query)' = Rows("accepted")'
        BY <2>1 DEF Rows
      <3>2. QED
        BY <1>0, <1>5, <3>1, WriteFrame
    <2>3. InTime = good
      BY <1>1, <1>5, <2>1, NoneIsLate
    <2>4. IdsIn(rows) = IdsIn(new)
      <3>1. IdsIn(rows) = IdsIn({row \in InTime : IdOf(row) \notin c.memory})
        BY <1>5, <2>2 DEF Outputs, IdsIn
      <3>2. QED
        BY <2>3, <3>1
    <2>5. Valid(from, c.plan) = Valid(from, c.at) \union good
      BY <1>5, <2>1, BatchJoins
    <2>6. c.memory \subseteq IdsIn(Valid(from, c.at))
      BY DEF WatermarkInv
    <2>7. \A x : IdOf(x)' = IdOf(x) /\ At(x)' = At(x)
      BY <2>1 DEF IdOf, At
    <2>8. Valid(from, to)' = Valid(from, c.plan)
      BY <1>0, <2>1, <2>7 DEF Valid, Between
    <2>9. IdsIn(Rows("accepted") \union rows) = IdsIn(Rows("accepted")) \union IdsIn(rows)
      BY DEF IdsIn
    <2>10. IdsIn(Valid(from, c.at) \union good) = IdsIn(Valid(from, c.at)) \union IdsIn(new)
      <3>1. \A x \in good : x \in new \/ IdOf(x) \in IdsIn(Valid(from, c.at))
        BY <2>6
      <3> HIDE DEF good, from, c
      <3>2. new \subseteq good
        OBVIOUS
      <3> HIDE DEF new
      <3>3. QED
        BY <3>1, <3>2 DEF IdsIn
    <2>11. IdsIn(Rows("accepted") \union rows) = IdsIn(Valid(from, c.plan))
      BY <1>2, <2>1, <2>4, <2>5, <2>9, <2>10
    <2> HIDE DEF from, to, good, new, c
    <2>12. {IdOf(x)' : x \in Rows("accepted")'} = IdsIn(Rows("accepted") \union rows)
      BY <2>2, <2>7 DEF IdsIn
    <2>13. {IdOf(x)' : x \in Valid(from, to)'} = IdsIn(Valid(from, c.plan))
      BY <2>7, <2>8 DEF IdsIn
    <2>14. QED
      BY <1>3, <2>11, <2>12, <2>13
  <1>6. QED
    BY <1>0, <1>4, <1>5, ReachedStep

-----------------------------------------------------------------------------
(* Checks.                                                                 *)

\* Rows with different ids are as many as their ids.
LEMMA IdsCount ==
  ASSUME NEW S, IsFiniteSet(S), \A x, y \in S : IdOf(x) = IdOf(y) => x = y
  PROVE  IsFiniteSet(IdsIn(S)) /\ Cardinality(IdsIn(S)) = Cardinality(S)
  <1> DEFINE f == [x \in S |-> IdOf(x)]
  <1>1. f \in Surjection(S, IdsIn(S)) /\ f \in Injection(S, IdsIn(S))
    BY DEF Surjection, Injection, IsInjective, IdsIn
  <1> HIDE DEF f
  <1>2. QED
    BY <1>1, FS_Surjection

\* Messages of other producers can be counted.
LEMMA OthersType ==
  ASSUME Shape
  PROVE  /\ Others \in Nat /\ IsFiniteSet(Between(manifest.ends, Latest))
         /\ Others = 0 <=> Between(manifest.ends, Latest) = {}
  <1>1. IsFiniteSet(Between(manifest.ends, Latest))
    BY Fields, LatestType, BetweenIsFinite
  <1>2. QED
    BY <1>1, FS_CardinalityType, FS_EmptySet DEF Others

\* If nobody else wrote, the topic ends where the recorded range does.
LEMMA NoOthers ==
  ASSUME Shape, LogInv, Others = 0
  PROVE  Latest = manifest.ends
  <1>1. Between(manifest.ends, Latest) = {}
    BY OthersType
  <1>2. manifest.ends \in Vector /\ Latest \in Vector
    BY Fields, LatestType
  <1>3. ASSUME NEW p \in 1..P
        PROVE  Latest[p] = manifest.ends[p]
    <2>1. /\ manifest.ends[p] \in Nat /\ Latest[p] \in Nat /\ Latest[p] = Len(log[p])
          /\ manifest.ends[p] <= Latest[p]
      BY VectorsAreNat, LatestType DEF LogInv
    <2>2. SUFFICES ASSUME manifest.ends[p] < Latest[p]
                   PROVE  FALSE
      BY <2>1
    <2> DEFINE row == <<p, manifest.ends[p]>>
    <2>3. row \in Places /\ manifest.ends[row[1]] <= row[2] /\ row[2] < Latest[row[1]]
      BY <2>1, <2>2 DEF Places
    <2> HIDE DEF row
    <2>4. row \in Between(manifest.ends, Latest)
      BY <1>2, <2>3, RowsBetween
    <2>5. QED
      BY <1>1, <2>4
  <1>4. QED
    BY <1>2, <1>3, SameVectors

\* Messages of other producers do not become fewer.
LEMMA OthersGrow ==
  ASSUME QueriesInv, [Next]_vars
  PROVE  Others \in Nat /\ Others' \in Nat /\ Others <= Others'
  <1> DEFINE ends == manifest.ends
  <1>0. Shape /\ Shape' /\ manifest' = manifest
    BY ShapeStep, Steps DEF QueriesInv
  <1>1. /\ ends \in Vector /\ Latest \in Vector
        /\ \A p \in 1..P : Latest[p] = Len(log[p]) /\ Len(log[p]) \in Nat
    BY <1>0, Fields, LatestType
  <1>2. Latest' \in Vector /\ \A p \in 1..P : Latest'[p] = Len(log'[p])
    <2>1. \A p \in 1..P : Len(log'[p]) \in Nat
      BY Steps
    <2>2. QED
      BY <2>1 DEF Latest, Vector
  <1>3. \A p \in 1..P : ends[p] <= ends[p] /\ Latest[p] <= Latest'[p]
    <2> TAKE p \in 1..P
    <2>1. ends[p] \in Nat
      BY <1>1 DEF Vector
    <2>2. QED
      BY <1>1, <1>2, <2>1, Steps
  <1>4. Others' = Cardinality(Between(ends, Latest'))
    BY <1>0 DEF Others, Between
  <1>5. Others = Cardinality(Between(ends, Latest))
    BY DEF Others
  <1> HIDE DEF ends
  <1>6. Between(ends, Latest) \subseteq Between(ends, Latest')
    BY <1>1, <1>2, <1>3, BetweenGrows
  <1>7. IsFiniteSet(Between(ends, Latest'))
    BY <1>1, <1>2, BetweenIsFinite
  <1>8. QED
    BY <1>4, <1>5, <1>6, <1>7, FS_Subset, FS_CardinalityType

\* The offsets in Bronze are an interval in every partition.
LEMMA OffsetsRead ==
  ASSUME QueriesInv, RowsInv, Reached("landing") = ck["landing"].at, NEW p \in 1..P
  PROVE  OffsetsOf(p) = manifest.starts[p]..(ck["landing"].at[p] - 1)
  <1> DEFINE from == manifest.starts
             to == ck["landing"].at
  <1>1. from \in Vector /\ to \in Vector
    BY Fields DEF QueriesInv, Queries
  <1>2. from[p] \in Nat /\ to[p] \in Nat
    BY <1>1 DEF Vector
  <1>3. Rows("landing") = Between(from, to)
    BY DEF RowsInv
  <1> HIDE DEF from, to
  <1>4. ASSUME NEW n \in OffsetsOf(p)
        PROVE  n \in from[p]..(to[p] - 1)
    <2>1. PICK row \in Between(from, to) : row[1] = p /\ n = row[2]
      BY <1>3 DEF OffsetsOf
    <2>2. row[2] \in Nat /\ from[p] <= row[2] /\ row[2] < to[p]
      BY <1>1, <2>1, BetweenRows
    <2>3. QED
      BY <1>2, <2>1, <2>2
  <1>5. ASSUME NEW n \in from[p]..(to[p] - 1)
        PROVE  n \in OffsetsOf(p)
    <2> DEFINE row == <<p, n>>
    <2>1. row \in Places /\ row[1] = p /\ row[2] = n /\ from[p] <= n /\ n < to[p]
      BY <1>2 DEF Places
    <2> HIDE DEF row
    <2>2. row \in Between(from, to)
      BY <1>1, <2>1, RowsBetween
    <2>3. QED
      BY <1>3, <2>1, <2>2 DEF OffsetsOf
  <1>6. QED
    BY <1>4, <1>5 DEF from, to

\* When the checks pass Bronze reaches the recorded ends, and the others no less.
LEMMA CheckedOffsets ==
  ASSUME QueriesInv, RowsInv, exec.phase = "check", ChecksPass
  PROVE  /\ \A q \in Queries : Finished(q) /\ Reached(q) = ck[q].at
         /\ \A q \in Queries : \A p \in 1..P : manifest.ends[p] <= ck[q].at[p]
         /\ ck["landing"].at = manifest.ends
  <1>0. Shape /\ LogInv /\ CheckpointInv /\ PhaseInv
    BY DEF QueriesInv
  <1>1. \A q \in Queries : Finished(q)
    BY <1>0 DEF PhaseInv, Queries
  <1>2. \A q \in Queries : Reached(q) = ck[q].at
    BY <1>0, <1>1 DEF Finished, CheckpointInv, Reached
  <1> DEFINE at == ck["landing"].at
  <1>3. ASSUME NEW p \in 1..P
        PROVE  at[p] = manifest.ends[p]
    <2>1. /\ at[p] \in Nat /\ manifest.starts[p] \in Nat /\ manifest.ends[p] \in Nat
          /\ manifest.starts[p] <= at[p] /\ manifest.starts[p] <= manifest.ends[p]
      BY <1>0, VectorsAreNat DEF Queries, CheckpointInv, LogInv
    <2>2. OffsetsOf(p) = manifest.starts[p]..(at[p] - 1)
      BY <1>2, OffsetsRead DEF Queries
    <2>3. CASE manifest.ends[p] > manifest.starts[p]
      <3>1. OffsetsOf(p) # {} /\ Max(OffsetsOf(p)) = manifest.ends[p] - 1
        BY <2>3 DEF ChecksPass, OffsetsReconciled
      <3>2. manifest.starts[p] <= at[p] - 1
        BY <2>1, <2>2, <3>1
      <3>3. Max(OffsetsOf(p)) = at[p] - 1
        BY <2>1, <2>2, <3>2, EndsOfInterval
      <3>4. QED
        BY <2>1, <3>1, <3>3
    <2>4. CASE ~ (manifest.ends[p] > manifest.starts[p])
      <3>1. OffsetsOf(p) = {}
        BY <2>4 DEF ChecksPass, OffsetsReconciled
      <3>2. manifest.starts[p] \notin manifest.starts[p]..(at[p] - 1)
        BY <2>2, <3>1
      <3>3. QED
        BY <2>1, <2>4, <3>2
    <2>5. QED
      BY <2>3, <2>4
  <1>4. at \in Vector /\ manifest.ends \in Vector
    BY <1>0, Fields DEF Queries
  <1>5. at = manifest.ends
    <2> HIDE DEF at
    <2>1. QED
      BY <1>3, <1>4, SameVectors
  <1>6. \A q \in Queries : \A p \in 1..P : manifest.ends[p] <= ck[q].at[p]
    <2>1. \A p \in 1..P : /\ at[p] <= ck["accepted"].at[p] /\ at[p] <= ck["rejected"].at[p]
                          /\ at[p] <= at[p]
      BY <1>0, VectorsAreNat DEF PhaseInv, Queries
    <2>2. QED
      BY <1>5, <2>1 DEF Queries
  <1>7. QED
    BY <1>1, <1>2, <1>5, <1>6

\* The recorded range has valid messages and invalid ones.
LEMMA RangeOutcomes ==
  ASSUME QueriesInv
  PROVE  /\ InRange(TRUE) = Valid(manifest.starts, manifest.ends)
         /\ InRange(FALSE) = Invalid(manifest.starts, manifest.ends)
         /\ RecordedRange = InRange(TRUE) \union InRange(FALSE)
         /\ InRange(TRUE) \intersect InRange(FALSE) = {}
         /\ IsFiniteSet(RecordedRange)
  <1>1. manifest.ends \in Vector /\ manifest.starts \in Vector
        /\ \A p \in 1..P : manifest.ends[p] <= Len(log[p])
    BY Fields DEF QueriesInv, LogInv
  <1>2. \A row \in RecordedRange : At(row).ok \in BOOLEAN
    BY <1>1, ReadRows DEF RecordedRange
  <1>3. IsFiniteSet(RecordedRange)
    BY <1>1, BetweenIsFinite DEF RecordedRange
  <1>4. QED
    BY <1>2, <1>3 DEF InRange, Valid, Invalid, RecordedRange

\* When the checks pass the outcomes are exact: the counts leave no room for rows from
\* beyond the recorded range.
LEMMA CheckedCounts ==
  ASSUME QueriesInv, RowsInv, SilverInv, Complete, exec.phase = "check", ChecksPass
  PROVE  Exact
  <1> DEFINE from == manifest.starts
             ends == manifest.ends
             a == ck["accepted"].at
             r == ck["rejected"].at
  <1>1. /\ Reached("landing") = ends /\ Reached("accepted") = a /\ Reached("rejected") = r
        /\ \A p \in 1..P : ends[p] <= a[p] /\ ends[p] <= r[p]
    BY CheckedOffsets DEF Queries
  <1>2. /\ from \in Vector /\ ends \in Vector /\ a \in Vector /\ r \in Vector
        /\ \A p \in 1..P : /\ from[p] <= ends[p] /\ a[p] <= Len(log[p]) /\ r[p] <= Len(log[p])
                           /\ from[p] \in Nat /\ ends[p] \in Nat
    BY Fields, VectorsAreNat DEF QueriesInv, LogInv, CheckpointInv, Queries
  <1>3. Rows("landing") = RecordedRange
    BY <1>1 DEF RowsInv, RecordedRange
  <1>4. Rows("rejected") = Invalid(from, r) /\ Rows("accepted") \subseteq Valid(from, a)
    BY <1>1 DEF RowsInv, Invalid
  <1>5. SUFFICES ASSUME ~ Spread,
                        ~ (Others > 0 /\ \E x, y \in InRange(TRUE) : x # y /\ IdOf(x) = IdOf(y))
                 PROVE  /\ IdsIn(Rows("accepted")) = IdsIn(InRange(TRUE))
                        /\ Rows("rejected") = InRange(FALSE)
    BY <1>3 DEF Exact
  <1>6. IdsIn(Rows("accepted")) = IdsIn(Valid(from, a))
    BY <1>1, <1>5 DEF Complete
  <1>7. /\ InRange(TRUE) = Valid(from, ends) /\ InRange(FALSE) = Invalid(from, ends)
        /\ RecordedRange = InRange(TRUE) \union InRange(FALSE)
        /\ InRange(TRUE) \intersect InRange(FALSE) = {}
        /\ IsFiniteSet(RecordedRange)
    BY RangeOutcomes
  <1>8. CASE Others = 0
    <2>1. Latest = ends
      BY <1>8, NoOthers DEF QueriesInv
    <2>2. \A p \in 1..P : a[p] = ends[p] /\ r[p] = ends[p]
      <3> TAKE p \in 1..P
      <3>1. ends[p] = Len(log[p])
        BY <2>1, LatestType DEF QueriesInv
      <3>2. a[p] \in Nat /\ r[p] \in Nat
        BY <1>2 DEF Vector
      <3>3. QED
        BY <1>1, <1>2, <3>1, <3>2
    <2>3. a = ends /\ r = ends
      <3> HIDE DEF a, r, ends
      <3>1. QED
        BY <1>2, <2>2, SameVectors
    <2> HIDE DEF a, r, ends, from
    <2>4. QED
      BY <1>4, <1>6, <1>7, <2>3
  <1>9. CASE Others # 0
    <2>1. \A x, y \in InRange(TRUE) : IdOf(x) = IdOf(y) => x = y
      <3>1. Others > 0
        BY <1>9, OthersType DEF QueriesInv
      <3>2. QED
        BY <1>5, <3>1
    <2>2. /\ IsFiniteSet(Rows("accepted")) /\ IsFiniteSet(Rows("rejected"))
      <3>1. IsFiniteSet(Between(from, a)) /\ IsFiniteSet(Between(from, r))
        <4> HIDE DEF a, r, from
        <4>1. QED
          BY <1>2, BetweenIsFinite
      <3>2. QED
        BY <1>4, <3>1, FS_Subset DEF Valid, Invalid
    <2>3. /\ IsFiniteSet(IdsIn(Rows("accepted")))
          /\ Cardinality(IdsIn(Rows("accepted"))) = Cardinality(Rows("accepted"))
      BY <2>2, IdsCount DEF SilverInv
    <2>4. IsFiniteSet(InRange(TRUE)) /\ IsFiniteSet(InRange(FALSE))
      <3>1. InRange(TRUE) \in SUBSET RecordedRange /\ InRange(FALSE) \in SUBSET RecordedRange
        BY DEF InRange
      <3>2. \A T \in SUBSET RecordedRange : IsFiniteSet(T)
        BY <1>7, FS_Subset
      <3>3. QED
        BY <3>1, <3>2
    <2>5. /\ IsFiniteSet(IdsIn(InRange(TRUE)))
          /\ Cardinality(IdsIn(InRange(TRUE))) = Cardinality(InRange(TRUE))
      BY <2>1, <2>4, IdsCount
    <2>6. Cardinality(RecordedRange) =
            Cardinality(InRange(TRUE)) + Cardinality(InRange(FALSE))
      <3> DEFINE t == InRange(TRUE)
                 f == InRange(FALSE)
      <3>1. IsFiniteSet(t) /\ IsFiniteSet(f) /\ t \intersect f = {} /\ RecordedRange = t \union f
        BY <1>7, <2>4
      <3> HIDE DEF t, f
      <3>2. Cardinality(t) \in Nat /\ Cardinality(f) \in Nat /\ Cardinality({}) = 0
        BY <3>1, FS_CardinalityType, FS_EmptySet
      <3>3. Cardinality(RecordedRange) = Cardinality(t) + Cardinality(f) - Cardinality({})
        BY <3>1, FS_Union
      <3>4. Cardinality(RecordedRange) = Cardinality(t) + Cardinality(f)
        BY <3>2, <3>3
      <3>5. QED
        BY <3>4 DEF t, f
    <2>7. Cardinality(Rows("accepted")) + Cardinality(Rows("rejected")) <=
            Cardinality(InRange(TRUE)) + Cardinality(InRange(FALSE))
      <3>1. Cardinality(Rows("landing")) >=
              Cardinality(Rows("accepted")) + Cardinality(Rows("rejected"))
        BY DEF ChecksPass, CountsReconcile
      <3>2. /\ Cardinality(Rows("accepted")) \in Nat /\ Cardinality(Rows("rejected")) \in Nat
            /\ Cardinality(RecordedRange) \in Nat
        BY <1>7, <2>2, FS_CardinalityType
      <3>3. QED
        BY <1>3, <2>6, <3>1, <3>2
    <2>8. /\ Between(from, ends) \subseteq Between(from, a)
          /\ Between(from, ends) \subseteq Between(from, r)
      <3>1. \A p \in 1..P : from[p] <= from[p]
        BY <1>2
      <3> HIDE DEF a, r, from, ends
      <3>2. QED
        BY <1>1, <1>2, <3>1, BetweenGrows
    <2>9. IdsIn(InRange(TRUE)) \subseteq IdsIn(Rows("accepted"))
          /\ InRange(FALSE) \subseteq Rows("rejected")
      <3> HIDE DEF a, r, from, ends
      <3>1. Valid(from, ends) \subseteq Valid(from, a) /\ Invalid(from, ends) \subseteq Invalid(from, r)
        BY <2>8 DEF Valid, Invalid
      <3>2. IdsIn(Valid(from, ends)) \subseteq IdsIn(Valid(from, a))
        BY <3>1 DEF IdsIn
      <3>3. QED
        BY <1>4, <1>6, <1>7, <3>1, <3>2
    <2>10. QED
      BY <2>2, <2>3, <2>4, <2>5, <2>7, <2>9, CountsClose
  <1>10. QED
    BY <1>8, <1>9

\* What an execution has shown stays so while the sinks stay what they are.
LEMMA ExactStays ==
  ASSUME QueriesInv, RowsInv, Exact, [Next]_vars, sink' = sink
  PROVE  Exact'
  <1> DEFINE from == manifest.starts
             ends == manifest.ends
  <1>1. /\ from \in Vector /\ ends \in Vector /\ manifest' = manifest
        /\ \A p \in 1..P : ends[p] <= Len(log[p])
    BY Fields, Steps DEF QueriesInv, LogInv
  <1>2. \A row \in RecordedRange : At(row)' = At(row) /\ IdOf(row)' = IdOf(row)
    <2>1. RecordedRange = Between(from, ends)
      BY DEF RecordedRange
    <2> HIDE DEF from, ends
    <2>2. QED
      BY <1>1, <2>1, SameRows
  <1>3. RecordedRange' = RecordedRange
    BY <1>1 DEF RecordedRange, Between
  <1>4. InRange(TRUE)' = InRange(TRUE) /\ InRange(FALSE)' = InRange(FALSE)
    BY <1>2, <1>3 DEF InRange
  <1>5. \A q \in Queries : Rows(q)' = Rows(q)
    BY DEF Rows
  <1>6. IdsIn(Rows("accepted"))' = IdsIn(Rows("accepted"))
    <2>1. IdsIn(Rows("accepted"))' = {IdOf(x)' : x \in Rows("accepted")'}
      BY DEF IdsIn
    <2>2. \A x \in Rows("accepted") : IdOf(x)' = IdOf(x)
      BY SilverRows
    <2>3. Rows("accepted")' = Rows("accepted")
      BY <1>5 DEF Queries
    <2>4. QED
      BY <2>1, <2>2, <2>3 DEF IdsIn
  <1>7. \A row \in InRange(TRUE) : IdOf(row)' = IdOf(row) /\ row \in RecordedRange
    BY <1>2 DEF InRange
  <1>8. IdsIn(InRange(TRUE))' = IdsIn(InRange(TRUE))
    <2>1. IdsIn(InRange(TRUE))' = {IdOf(x)' : x \in InRange(TRUE)'}
      BY DEF IdsIn
    <2>2. QED
      BY <1>4, <1>7, <2>1 DEF IdsIn
  <1>9. Rows("landing")' = RecordedRange'
    BY <1>3, <1>5 DEF Exact, Queries
  <1>10. CASE Spread
    BY <1>9, <1>10, SpreadStays DEF Exact
  <1>11. CASE Others > 0 /\ \E x, y \in InRange(TRUE) : x # y /\ IdOf(x) = IdOf(y)
    <2>1. Others' > 0
      BY <1>11, OthersGrow
    <2>2. \E x, y \in InRange(TRUE)' : x # y /\ IdOf(x)' = IdOf(y)'
      BY <1>4, <1>7, <1>11
    <2>3. QED
      BY <1>9, <2>1, <2>2 DEF Exact
  <1>12. CASE /\ IdsIn(Rows("accepted")) = IdsIn(InRange(TRUE))
              /\ Rows("rejected") = InRange(FALSE)
    BY <1>4, <1>5, <1>6, <1>8, <1>9, <1>12 DEF Exact, Queries
  <1>13. QED
    BY <1>10, <1>11, <1>12 DEF Exact

\* No step lets an execution succeed that has not shown it.
LEMMA OutcomeStep ==
  ASSUME QueriesInv, RowsInv, SilverInv, Complete, OutcomeInv, [Next]_vars
  PROVE  OutcomeInv'
  <1>0. Shape /\ CheckpointInv /\ PhaseInv /\ exec.number \in Nat
        /\ exec.succeeded \subseteq 1..exec.number
    BY Fields, StreamingAssumption DEF QueriesInv, Shape
  <1>1. CASE Execute
    <2>1. exec'.number \notin exec'.succeeded /\ exec'.phase = "landing"
      <3>1. exec'.number = exec.number + 1 /\ exec'.succeeded = exec.succeeded
            /\ exec'.phase = "landing"
        BY <1>0, <1>1, ExecuteFrame
      <3>2. QED
        BY <1>0, <3>1
    <2>2. QED
      BY <2>1 DEF OutcomeInv
  <1>2. CASE PlanBatch \/ WriteBatch \/ CommitBatch
    <2>1. exec' = exec /\ exec.phase \in Queries
      BY <1>0, <1>2, PlanFrame, WriteFrame, CommitFrame DEF Query
    <2>2. QED
      BY <2>1 DEF OutcomeInv, Queries
  <1>3. CASE FinishQuery
    <2>1. /\ exec'.number = exec.number /\ exec'.succeeded = exec.succeeded
          /\ exec.phase \in Queries /\ exec'.phase # "ended"
      BY <1>0, <1>3, FinishFrame DEF Query, Queries
    <2>2. QED
      BY <2>1 DEF OutcomeInv
  <1>4. CASE Check \/ Crash
    <2>1. /\ exec'.phase = "ended" /\ exec'.number = exec.number /\ sink' = sink
          /\ exec.phase \in Queries \union {"check"}
      BY <1>0, <1>4, EndFrame DEF Check, Crash, Running, Query
    <2>2. SUFFICES ASSUME exec'.number \in exec'.succeeded
                   PROVE  Exact'
      BY <2>1 DEF OutcomeInv, Queries
    <2>3. exec.phase = "check" /\ ChecksPass
      BY <1>0, <1>4, <2>1, <2>2, EndFrame DEF OutcomeInv
    <2>4. QED
      BY <2>1, <2>3, CheckedCounts, ExactStays
  <1>5. ASSUME NEW r \in 1..P, NEW m \in Message, WriteOther(r, m)
        PROVE  OutcomeInv'
    <2>1. exec' = exec /\ sink' = sink
      BY <1>0, <1>5, OtherFrame
    <2>2. QED
      BY <2>1, ExactStays DEF OutcomeInv
  <1>6. CASE UNCHANGED vars \/ Rest
    <2>1. exec' = exec /\ sink' = sink
      BY <1>6 DEF vars, Rest
    <2>2. QED
      BY <2>1, ExactStays DEF OutcomeInv
  <1>7. QED
    BY <1>1, <1>2, <1>3, <1>4, <1>5, <1>6 DEF Next

\* After a success nothing is planned while nobody else has written to the topic.
LEMMA SettledIdles ==
  ASSUME QueriesInv, Settled, exec.succeeded # {}, Others = 0
  PROVE  ~ PlanBatch /\ ~ WriteBatch /\ ~ CommitBatch
  <1>0. Shape /\ LogInv /\ CheckpointInv /\ PhaseInv
    BY DEF QueriesInv
  <1>1. \A q \in Queries : Finished(q)
    BY DEF Settled
  <1>2. ~ Planned
    BY <1>1 DEF Planned, Running, Finished
  <1>3. ASSUME PlanBatch
        PROVE  FALSE
    <2>1. Query \in Queries /\ Running /\ ~ CaughtUp
      BY <1>1, <1>3 DEF PlanBatch, Running, Finished
    <2>2. Latest = manifest.ends
      BY <1>0, NoOthers
    <2>3. ASSUME NEW p \in 1..P
          PROVE  ck[Query].at[p] = exec.limit[p]
      <3>1. /\ ck[Query].at[p] <= exec.limit[p] /\ exec.limit[p] <= Len(log[p])
            /\ manifest.ends[p] <= ck[Query].at[p] /\ manifest.ends[p] = Len(log[p])
        BY <1>0, <2>1, <2>2, LatestType DEF PhaseInv, Settled
      <3>2. QED
        BY <1>0, <2>1, <3>1, VectorsAreNat
    <2>4. ck[Query].at = exec.limit
      <3>1. ck[Query].at \in Vector /\ exec.limit \in Vector
        BY <1>0, <2>1, Fields
      <3>2. QED
        BY <2>3, <3>1, SameVectors
    <2>5. QED
      BY <2>1, <2>4 DEF CaughtUp
  <1>4. QED
    BY <1>2, <1>3 DEF WriteBatch, CommitBatch

\* No step takes back what a success has settled.
LEMMA SettledStep ==
  ASSUME QueriesInv, RowsInv, Settled, [Next]_vars
  PROVE  Settled'
  <1>0. Shape /\ LogInv /\ CheckpointInv /\ PhaseInv /\ manifest' = manifest
    BY Steps DEF QueriesInv
  <1>1. ASSUME exec.succeeded # {}
        PROVE  \A q \in Queries : /\ \A p \in 1..P : manifest'.ends[p] <= ck'[q].at[p]
                                  /\ Others' = 0 => Finished(q)'
    <2>1. ASSUME NEW q \in Queries, NEW p \in 1..P
          PROVE  ck[q].at[p] <= ck'[q].at[p] /\ ck[q].at[p] \in Nat /\ ck'[q].at[p] \in Nat
      <3>1. /\ ck[q].at[p] \in Nat
            /\ ck[q].plan # <<>> => ck[q].plan[p] \in Nat /\ ck[q].at[p] <= ck[q].plan[p]
        BY <1>0, VectorsAreNat DEF CheckpointInv
      <3>2. CASE PlanBatch
        BY <1>0, <3>1, <3>2, PlanFrame
      <3>3. CASE WriteBatch
        BY <1>0, <3>1, <3>3, WriteFrame
      <3>4. CASE CommitBatch
        <4>1. CASE q = Query
          BY <1>0, <3>1, <3>4, <4>1, CommitFrame
        <4>2. CASE q # Query
          BY <1>0, <3>1, <3>4, <4>2, CommitFrame
        <4>3. QED
          BY <4>1, <4>2
      <3>5. QED
        BY <3>1, <3>2, <3>3, <3>4, Steps
    <2>2. \A q \in Queries : \A p \in 1..P : manifest'.ends[p] <= ck'[q].at[p]
      <3> TAKE q \in Queries
      <3> TAKE p \in 1..P
      <3>1. manifest.ends[p] <= ck[q].at[p] /\ manifest.ends[p] \in Nat
        BY <1>0, <1>1, VectorsAreNat DEF Settled
      <3>2. QED
        BY <1>0, <2>1, <3>1
    <2>3. ASSUME Others' = 0
          PROVE  \A q \in Queries : Finished(q)'
      <3>1. Others = 0
        BY <2>3, OthersGrow
      <3>2. ck' = ck
        BY <1>1, <3>1, SettledIdles, Steps
      <3>3. QED
        BY <1>1, <3>1, <3>2 DEF Settled, Finished
    <2>4. QED
      BY <2>2, <2>3
  <1>2. ASSUME exec.succeeded = {}, exec'.succeeded # {}
        PROVE  \A q \in Queries : /\ \A p \in 1..P : manifest'.ends[p] <= ck'[q].at[p]
                                  /\ Finished(q)'
    <2>1. exec.phase = "check" /\ ChecksPass /\ ck' = ck
      <3>1. CASE Execute
        BY <1>0, <1>2, <3>1, ExecuteFrame
      <3>2. CASE PlanBatch
        BY <1>0, <1>2, <3>2, PlanFrame
      <3>3. CASE WriteBatch
        BY <1>0, <1>2, <3>3, WriteFrame
      <3>4. CASE CommitBatch
        BY <1>0, <1>2, <3>4, CommitFrame
      <3>5. CASE FinishQuery
        BY <1>0, <1>2, <3>5, FinishFrame
      <3>6. CASE Check \/ Crash
        BY <1>0, <1>2, <3>6, EndFrame
      <3>7. CASE \E r \in 1..P, m \in Message : WriteOther(r, m)
        BY <1>2, <3>7 DEF WriteOther
      <3>8. CASE UNCHANGED vars \/ Rest
        BY <1>2, <3>8 DEF vars, Rest
      <3>9. QED
        BY <3>1, <3>2, <3>3, <3>4, <3>5, <3>6, <3>7, <3>8 DEF Next
    <2>2. QED
      BY <1>0, <2>1, CheckedOffsets DEF Finished
  <1>3. QED
    BY <1>1, <1>2 DEF Settled

-----------------------------------------------------------------------------
(* Theorems.                                                               *)

\* The invariant holds at the start.
LEMMA InitHolds ==
  ASSUME Init
  PROVE  StreamingInv
  <1>1. PICK r \in Ranges :
          /\ log = r.log
          /\ manifest = [starts |-> r.starts, ends |-> r.ends]
          /\ ck = [q \in Queries |-> NewCheckpoint]
          /\ sink = [q \in Queries |-> <<>>]
          /\ exec = [phase |-> "idle", limit |-> r.starts, number |-> 0, succeeded |-> {}]
    BY DEF Init
  <1>2. /\ r.log \in Logs /\ r.starts \in Vector /\ r.ends \in Vector
        /\ \A p \in 1..P : r.starts[p] <= r.ends[p] /\ r.ends[p] <= Len(r.log[p])
    BY StreamingAssumption DEF Logs, Vector
  <1>3. \A q \in Queries :
          /\ ck[q] = [done |-> 0, at |-> r.starts, plan |-> <<>>, memory |-> {},
                      late |-> 0, evict |-> 0]
          /\ sink[q] = <<>>
    BY <1>1 DEF NewCheckpoint
  <1>4. NewCheckpoint \in Checkpoint
    BY <1>1, <1>2 DEF NewCheckpoint, Checkpoint
  <1>5. /\ log \in Logs /\ manifest \in [starts : Vector, ends : Vector]
        /\ ck \in [Queries -> Checkpoint] /\ sink \in [Queries -> Sinks]
    BY <1>1, <1>2, <1>4 DEF Sinks
  <1>6. /\ exec \in [phase : Phases, limit : Vector, number : 0..MaxExecutions,
                     succeeded : SUBSET Nat]
        /\ exec.succeeded = {} /\ exec.phase = "idle" /\ exec.limit = r.starts
    BY <1>1, <1>2, StreamingAssumption DEF Phases
  <1>7. Shape
    BY <1>5, <1>6 DEF Shape
  <1>8. LogInv
    BY <1>1, <1>2 DEF LogInv
  <1>9. \A p \in 1..P : r.starts[p] <= r.starts[p] /\ r.starts[p] <= Len(log[p])
    <2> TAKE p \in 1..P
    <2>1. r.starts[p] \in Nat /\ r.ends[p] \in Nat /\ Len(log[p]) \in Nat
      BY <1>2, <1>7, LatestType DEF Vector
    <2>2. r.starts[p] <= r.ends[p] /\ r.ends[p] <= Len(log[p])
      BY <1>1, <1>2
    <2>3. QED
      BY <2>1, <2>2
  <1>10. CheckpointInv
    BY <1>1, <1>3, <1>9 DEF CheckpointInv
  <1>11. PhaseInv
    BY <1>6, <1>9 DEF PhaseInv, Running, Query, Queries
  <1>12. \A q \in Queries : Reached(q) = r.starts /\ Rows(q) = {}
    BY <1>3 DEF Reached, Rows
  <1>13. Between(manifest.starts, r.starts) = {}
    BY <1>1, <1>2, BetweenSame
  <1>14. RowsInv /\ Complete
    BY <1>12, <1>13 DEF RowsInv, Complete, Valid, IdsIn, Queries
  <1>15. WatermarkInv
    BY <1>3 DEF WatermarkInv, Queries
  <1>16. SilverInv
    BY <1>3, <1>12 DEF SilverInv, Queries
  <1>17. OutcomeInv /\ Settled
    BY <1>6 DEF OutcomeInv, Settled, Queries
  <1>18. QED
    BY <1>7, <1>8, <1>10, <1>11, <1>14, <1>15, <1>16, <1>17 DEF StreamingInv, QueriesInv

\* Every reachable state satisfies the invariant (kafka_to_silver.py:125-200).
THEOREM StreamingInvariant == Spec => []StreamingInv
  <1>1. Init => StreamingInv
    BY InitHolds
  <1>2. StreamingInv /\ [Next]_vars => StreamingInv'
    <2> SUFFICES ASSUME StreamingInv, [Next]_vars
                 PROVE  StreamingInv'
      OBVIOUS
    <2>1. QueriesInv'
      BY ShapeStep, CheckpointStep, PhaseStep DEF StreamingInv, QueriesInv
    <2>2. RowsInv' /\ WatermarkInv' /\ SilverInv' /\ Complete'
      BY RowsStep, WatermarkStep, SilverStep, CompleteStep DEF StreamingInv
    <2>3. OutcomeInv' /\ Settled'
      BY OutcomeStep, SettledStep DEF StreamingInv
    <2>4. QED
      BY <2>1, <2>2, <2>3 DEF StreamingInv
  <1>3. QED
    BY <1>1, <1>2, PTL DEF Spec

\* Checkpoints, sinks and the execution have the shape the code gives them, and no query
\* is ahead of the topic or behind its sink by more than a batch, whatever is written to
\* the topic and wherever executions die (kafka_to_silver.py:136-173).
THEOREM TypeCorrect == Spec => []TypeOK
  <1>1. StreamingInv => TypeOK
    <2> SUFFICES ASSUME StreamingInv
                 PROVE  TypeOK
      OBVIOUS
    <2>1. Shape /\ LogInv /\ CheckpointInv /\ PhaseInv
      BY DEF StreamingInv, QueriesInv
    <2>2. /\ log \in [1..P -> Seq(Message)]
          /\ exec.phase \in {"idle", "check", "ended"} \union Queries
          /\ exec.number \in 0..MaxExecutions /\ exec.succeeded \subseteq 1..exec.number
      BY <2>1, Fields DEF Shape, Logs, Phases
    <2>3. exec.limit \in Offsets
      BY <2>1, Fields DEF Offsets, Vector, PhaseInv
    <2>4. ASSUME NEW q \in Queries
          PROVE  /\ ck[q].at \in Offsets
                 /\ ck[q].plan = <<>> \/ ck[q].plan \in Offsets
                 /\ ck[q].memory \subseteq Ids
      BY <2>1, Fields DEF Offsets, Vector, CheckpointInv
    <2>5. ASSUME NEW q \in Queries
          PROVE  ck[q].late <= ck[q].evict
      BY DEF StreamingInv, WatermarkInv
    <2>6. ASSUME NEW q \in Queries
          PROVE  Len(sink[q]) - ck[q].done \in (IF ck[q].plan = <<>> THEN {0} ELSE {0, 1})
      <3>1. ck[q].done \in Nat
        BY <2>1, Fields
      <3>2. QED
        BY <2>1, <3>1 DEF CheckpointInv
    <2>7. ASSUME NEW q \in Queries
          PROVE  Rows(q) \subseteq Between(manifest.starts,
                                 IF ck[q].plan = <<>> THEN ck[q].at ELSE ck[q].plan)
      <3>1. Rows(q) \subseteq Between(manifest.starts, Reached(q))
        BY DEF StreamingInv, RowsInv, Valid, Queries
      <3>2. CASE ck[q].plan = <<>>
        BY <2>1, <3>1, <3>2 DEF Reached, CheckpointInv
      <3>3. CASE ck[q].plan # <<>>
        <4>1. /\ manifest.starts \in Vector /\ Reached(q) \in Vector /\ ck[q].plan \in Vector
          BY <2>1, <3>3, Fields, ReachedBounds DEF StreamingInv
        <4>2. \A p \in 1..P : /\ manifest.starts[p] <= manifest.starts[p]
                              /\ Reached(q)[p] <= ck[q].plan[p]
          <5> TAKE p \in 1..P
          <5>1. /\ ck[q].at[p] <= ck[q].plan[p] /\ ck[q].plan[p] \in Nat
                /\ manifest.starts[p] \in Nat
            BY <2>1, <3>3, VectorsAreNat DEF CheckpointInv
          <5>2. QED
            BY <5>1 DEF Reached
        <4>3. Between(manifest.starts, Reached(q)) \subseteq
                Between(manifest.starts, ck[q].plan)
          <5> DEFINE a == manifest.starts
                     b == Reached(q)
                     d == ck[q].plan
          <5>1. /\ a \in Vector /\ b \in Vector /\ d \in Vector
                /\ \A p \in 1..P : a[p] <= a[p] /\ b[p] <= d[p]
            BY <4>1, <4>2
          <5> HIDE DEF a, b, d
          <5>2. Between(a, b) \subseteq Between(a, d)
            BY <5>1, BetweenGrows
          <5>3. QED
            BY <5>2 DEF a, b, d
        <4>4. QED
          BY <3>1, <3>3, <4>3
      <3>4. QED
        BY <3>2, <3>3
    <2>8. QED
      BY <2>2, <2>3, <2>4, <2>5, <2>6, <2>7 DEF TypeOK
  <1>2. QED
    BY <1>1, StreamingInvariant, PTL

\* Silver never holds an event twice, and after a success Bronze, Silver and quarantine
\* are the outcomes of the recorded range unless a message could be late, or the range has
\* duplicates and others were writing (kafka_to_silver.py:148-187).
THEOREM OutcomesExact == Spec => []OutcomesAreExact
  <1>1. StreamingInv => OutcomesAreExact
    BY DEF StreamingInv, SilverInv, OutcomeInv, Exact, IdsIn, OutcomesAreExact
  <1>2. QED
    BY <1>1, StreamingInvariant, PTL

\* After a success another execution reads and writes nothing, while nobody else has
\* written to the topic (kafka_to_silver.py:136-173).
THEOREM RestartsAddNothing == Spec => RestartAddsNothing
  <1>1. StreamingInv /\ [Next]_vars =>
          [exec.succeeded # {} /\ Others = 0 => ck' = ck /\ sink' = sink]_vars
    <2> SUFFICES ASSUME StreamingInv, [Next]_vars, exec.succeeded # {}, Others = 0
                 PROVE  ck' = ck /\ sink' = sink
      OBVIOUS
    <2>1. QED
      BY Steps, SettledIdles DEF StreamingInv
  <1>2. QED
    BY <1>1, StreamingInvariant, PTL DEF Spec, RestartAddsNothing
=============================================================================
