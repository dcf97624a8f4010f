------------------------- MODULE ServingReadsProofs -------------------------
(***************************************************************************)
(* Theorems about ServingReads, for any number of loaders, manifests and   *)
(* events: the pages that a client puts together while loads commit, and   *)
(* the verdict of the verification.                                        *)
(***************************************************************************)
EXTENDS ServingReads, PostgresLoaderProofs, WellFoundedInduction

\* The events of R before e, how many they are, and the first n of R.
Before(R, e) == {f \in R : Position[f] < Position[e]}
Rank(R, e)   == Cardinality(Before(R, e))
Lead(R, n)   == {e \in R : Rank(R, e) < n}

\* An event has a place of its own.
LEMMA Positions ==
  ASSUME NEW e \in Events
  PROVE  /\ Position[e] \in Nat /\ Position[e] > 0
         /\ \A f \in Events : Position[f] = Position[e] => f = e
  BY ReadsAssumption DEF IsInjective

\* Fewer events of a finite set are before an event than are in the set, and the more
\* the later it is.
LEMMA Ranks ==
  ASSUME NEW R \in SUBSET Events, NEW e \in R
  PROVE  /\ Rank(R, e) \in Nat /\ Cardinality(R) \in Nat /\ Rank(R, e) < Cardinality(R)
         /\ \A f \in R : Position[e] < Position[f] => Rank(R, e) < Rank(R, f)
  <1>1. IsFiniteSet(R) /\ Cardinality(R) \in Nat
    BY CountsAreNumbers
  <1>2. \A f \in R : Before(R, f) \in SUBSET Events
    BY DEF Before
  <1>3. \A f \in R : IsFiniteSet(Before(R, f)) /\ Rank(R, f) \in Nat
    BY <1>2, CountsAreNumbers DEF Rank
  <1>4. \A f \in R : Position[f] \in Nat
    BY Positions
  <1>5. Rank(R, e) < Cardinality(R)
    <2>1. Before(R, e) \in SUBSET R /\ e \notin Before(R, e)
      BY <1>4 DEF Before
    <2>2. Before(R, e) # R
      BY <2>1
    <2>3. Cardinality(Before(R, e)) <= Cardinality(R)
          /\ Cardinality(Before(R, e)) # Cardinality(R)
      BY <1>1, <2>1, <2>2, FS_Subset
    <2>4. QED
      BY <1>1, <1>3, <2>3 DEF Rank
  <1>6. ASSUME NEW f \in R, Position[e] < Position[f]
        PROVE  Rank(R, e) < Rank(R, f)
    <2>1. Before(R, e) \in SUBSET Before(R, f)
      BY <1>4, <1>6 DEF Before
    <2>2. e \in Before(R, f) /\ e \notin Before(R, e)
      BY <1>4, <1>6 DEF Before
    <2>3. Cardinality(Before(R, e)) <= Cardinality(Before(R, f))
          /\ Cardinality(Before(R, e)) # Cardinality(Before(R, f))
      BY <1>3, <2>1, <2>2, FS_Subset
    <2>4. QED
      BY <1>3, <2>3 DEF Rank
  <1>7. QED
    BY <1>1, <1>3, <1>5, <1>6

\* Ranks order events as their places do.
LEMMA RanksOrder ==
  ASSUME NEW R \in SUBSET Events, NEW e \in R, NEW f \in R
  PROVE  /\ Position[e] < Position[f] <=> Rank(R, e) < Rank(R, f)
         /\ Rank(R, e) = Rank(R, f) => e = f
  <1>1. /\ Position[e] \in Nat /\ Position[f] \in Nat
        /\ Position[e] = Position[f] => e = f
    BY Positions
  <1>2. Rank(R, e) \in Nat /\ Rank(R, f) \in Nat
    BY Ranks
  <1>3. CASE Position[e] < Position[f]
    BY <1>2, <1>3, Ranks
  <1>4. CASE Position[f] < Position[e]
    <2>1. Rank(R, f) < Rank(R, e)
      BY <1>4, Ranks
    <2>2. QED
      BY <1>1, <1>2, <1>4, <2>1
  <1>5. CASE e = f
    BY <1>1, <1>2, <1>5
  <1>6. QED
    BY <1>1, <1>3, <1>4, <1>5

\* There is an event of every rank that the size of the set admits.
LEMMA RanksFill ==
  ASSUME NEW R \in SUBSET Events, NEW n \in Nat, n < Cardinality(R)
  PROVE  \E e \in R : Rank(R, e) = n
  <1> DEFINE k == Cardinality(R)
             T == 0..(k - 1)
             f == [e \in R |-> Rank(R, e)]
  <1>1. IsFiniteSet(R) /\ k \in Nat
    BY CountsAreNumbers
  <1>2. \A e \in R : Rank(R, e) \in Nat /\ Rank(R, e) < k
    BY Ranks
  <1>3. IsFiniteSet(T) /\ Cardinality(T) = k
    <2>1. k - 1 \in Int
      BY <1>1
    <2> HIDE DEF k
    <2>2. QED
      BY <1>1, <2>1, FS_Interval
  <1>4. f \in Injection(R, T)
    <2>1. f \in [R -> T]
      <3> HIDE DEF k
      <3>1. QED
        BY <1>1, <1>2
    <2>2. \A a, b \in R : f[a] = f[b] => a = b
      BY RanksOrder
    <2>3. QED
      BY <2>1, <2>2 DEF Injection, IsInjective
  <1>5. f \in Surjection(R, T)
    <2> HIDE DEF f, T
    <2>1. QED
      BY <1>3, <1>4, FS_Injection
  <1>6. n \in T
    BY <1>1
  <1>7. QED
    BY <1>5, <1>6 DEF Surjection

\* If there is more than a page, the row of rank n - 1 among the n + 1 rows read closes
\* the page: the page is what lies up to it.
LEMMA PageBoundary ==
  ASSUME NEW R \in SUBSET Events, NEW n \in Nat \ {0}, Cardinality(Lead(R, n + 1)) > n
  PROVE  LET rows == Lead(R, n + 1)
             b == CHOOSE e \in rows :
                    Cardinality({f \in rows : Position[f] < Position[e]}) = n - 1
         IN  b \in Lead(R, n) /\ Lead(R, n) = {e \in R : Position[e] <= Position[b]}
  <1> DEFINE rows == Lead(R, n + 1)
             First(e) == Cardinality({f \in rows : Position[f] < Position[e]}) = n - 1
             b == CHOOSE e \in rows : First(e)
  <1>1. rows \in SUBSET R /\ rows \in SUBSET Events
    BY DEF Lead
  <1>2. Cardinality(R) > n
    <2>1. IsFiniteSet(R) /\ Cardinality(R) \in Nat
      BY CountsAreNumbers
    <2>2. Cardinality(rows) \in Nat
      BY <1>1, CountsAreNumbers
    <2>3. Cardinality(rows) <= Cardinality(R)
      BY <1>1, <2>1, FS_Subset
    <2>4. QED
      BY <2>1, <2>2, <2>3
  <1>3. \A e \in rows : {f \in rows : Position[f] < Position[e]} = Before(R, e)
    <2>1. ASSUME NEW e \in rows, NEW f \in R, Position[f] < Position[e]
          PROVE  f \in rows
      <3>1. Rank(R, f) < Rank(R, e) /\ Rank(R, e) < n + 1
            /\ Rank(R, f) \in Nat /\ Rank(R, e) \in Nat
        BY <1>1, <2>1, Ranks, RanksOrder DEF Lead
      <3>2. QED
        BY <3>1 DEF Lead
    <2>2. QED
      BY <1>1, <2>1 DEF Before
  <1>4. \A e \in rows : First(e) <=> Rank(R, e) = n - 1
    BY <1>3 DEF Rank
  <1>5. \E e \in rows : First(e)
    <2>1. PICK e \in R : Rank(R, e) = n - 1
      <3>1. n - 1 \in Nat /\ n - 1 < Cardinality(R)
        <4>1. Cardinality(R) \in Nat
          BY CountsAreNumbers
        <4>2. QED
          BY <1>2, <4>1
      <3>2. QED
        BY <3>1, RanksFill
    <2>2. e \in rows
      BY <2>1 DEF Lead
    <2>3. QED
      BY <1>4, <2>1, <2>2
  <1>6. b \in rows /\ Rank(R, b) = n - 1
    <2> HIDE DEF First, rows
    <2>1. b \in rows /\ First(b)
      BY <1>5
    <2>2. QED
      BY <1>4, <2>1
  <1> HIDE DEF b
  <1>7. b \in R /\ b \in Lead(R, n)
    BY <1>1, <1>6 DEF Lead
  <1>8. \A e \in R : Rank(R, e) < n <=> Position[e] <= Position[b]
    <2> TAKE e \in R
    <2>1. /\ Position[b] < Position[e] <=> Rank(R, b) < Rank(R, e)
          /\ Rank(R, e) \in Nat /\ Position[e] \in Nat /\ Position[b] \in Nat
      BY <1>7, Ranks, RanksOrder, Positions
    <2>2. QED
      BY <1>6, <2>1
  <1>9. QED
    BY <1>7, <1>8 DEF Lead, b

\* If the n + 1 rows asked for are not there, the page is all that is left.
LEMMA LastPage ==
  ASSUME NEW R \in SUBSET Events, NEW n \in Nat, ~ (Cardinality(Lead(R, n + 1)) > n)
  PROVE  Lead(R, n) = R
  <1> DEFINE rows == Lead(R, n + 1)
             T == 0..n
             f == [e \in rows |-> Rank(R, e)]
  <1>1. SUFFICES ASSUME NEW x \in R, ~ (Rank(R, x) < n)
                 PROVE  FALSE
    BY DEF Lead
  <1>2. rows \in SUBSET R /\ rows \in SUBSET Events
    BY DEF Lead
  <1>3. n < Cardinality(R) /\ Cardinality(R) \in Nat
    BY <1>1, Ranks
  <1>4. \A k \in T : \E e \in R : Rank(R, e) = k
    BY <1>3, RanksFill
  <1>5. \A k \in T : \E e \in rows : Rank(R, e) = k
    BY <1>4 DEF Lead
  <1>6. \A e \in rows : Rank(R, e) \in T
    BY <1>2, Ranks DEF Lead
  <1>7. f \in Surjection(rows, T)
    <2> HIDE DEF rows, T
    <2>1. QED
      BY <1>5, <1>6 DEF Surjection
  <1>8. IsFiniteSet(rows) /\ Cardinality(rows) \in Nat
    BY <1>2, CountsAreNumbers
  <1>9. Cardinality(T) = n + 1
    BY FS_Interval
  <1>10. Cardinality(T) <= Cardinality(rows)
    <2> HIDE DEF f, T, rows
    <2>1. QED
      BY <1>7, <1>8, FS_Surjection
  <1>11. QED
    BY <1>8, <1>9, <1>10

-----------------------------------------------------------------------------
\* The types of the fields of the reader.
Doings      == {"nothing", "summary", "page", "unknown", "complete",
                "verify", "passed", "failed"}
EventSets   == SUBSET Events
Pages       == Seq(EventSets)
Expectation == Manifests \union {NoManifest}
QueryNumber == 1..Queries
Loads       == Seq(Manifests)

\* The type of the reader.
Reader ==
  [doing : Doings, first : EventSets, pages : Pages, cursor : Nat,
   expects : Expectation, query : QueryNumber, began : Loads]

ReaderType == reader \in Reader

\* What the client has got.
Got == UNION ToSet(reader.pages)

\* Pages follow each other in the order of the events.
Ordered ==
  \A i, j \in DOMAIN reader.pages : i < j =>
    \A e \in reader.pages[i], f \in reader.pages[j] : Position[e] < Position[f]

\* The client has started and not given up.
Reading == reader.doing \in {"summary", "page", "complete"}

\* The inductive invariant of the client: what was there when it began and lies up to
\* the cursor, it has got; and what it has got lies up to the cursor.
PagesInv ==
  /\ Reading => reader.first \subseteq Matching /\ Got \subseteq Matching /\ Ordered
  /\ reader.doing \in {"summary", "page"} =>
       /\ reader.pages = <<>> => reader.cursor = 0
       /\ \A e \in reader.first : Position[e] <= reader.cursor => e \in Got
       /\ \A e \in Got : Position[e] <= reader.cursor
  /\ reader.doing = "complete" => reader.first \subseteq Got

\* The fields of a reader at rest.
LEMMA IdleType ==
  /\ Idle \in Reader /\ Idle.doing = "nothing" /\ Idle.first = {} /\ Idle.pages = <<>>
  /\ Idle.cursor = 0 /\ Idle.query = 1 /\ Idle.began = <<>> /\ Idle.expects = NoManifest
  <1>1. "nothing" \in Doings /\ {} \in EventSets /\ <<>> \in Pages /\ <<>> \in Loads
        /\ NoManifest \in Expectation /\ 1 \in QueryNumber
    BY DEF Doings, EventSets, Pages, Loads, Expectation, QueryNumber, Queries
  <1>2. QED
    BY <1>1 DEF Idle, Reader

\* Reading leaves the tables alone.
LEMMA ReadFrame ==
  ASSUME UNCHANGED <<vars, succeeded>>
  PROVE  /\ event_detail' = event_detail /\ load_run' = load_run /\ summary' = summary
         /\ succeeded' = succeeded
         /\ Served' = Served /\ Matching' = Matching
         /\ \A m : Status(m)' = Status(m) /\ GoldRows(m)' = GoldRows(m)
  BY DEF vars, database, Served, IsServed, Matching, Status, GoldRows, RowsUnder

\* What is served stays served.
LEMMA ServedGrows ==
  ASSUME LoaderInv, [Next]_vars
  PROVE  Served \subseteq Served' /\ Matching \subseteq Matching'
  <1>1. Served \subseteq Served'
    <2>1. CASE UNCHANGED event_detail
      BY <2>1 DEF Served, IsServed
    <2>2. ASSUME NEW l \in Loaders, Publish(l)
          PROVE  Served \subseteq Served'
      BY <2>2, PublishEffect DEF LoaderInv
    <2>3. QED
      BY <2>1, <2>2, DatabaseStep
  <1>2. QED
    BY <1>1 DEF Matching

\* What is read are events.
LEMMA MatchingType ==
  /\ Matching \in SUBSET Events
  /\ \A c : Behind(c) \in SUBSET Events /\ Behind(c) \subseteq Matching
  BY DEF Matching, Behind, Served

\* The first n events behind the cursor.
LEMMA LeadingIsLead ==
  ASSUME NEW n
  PROVE  Leading(n) = Lead(Behind(reader.cursor), n) /\ Leading(n) \subseteq Matching
  <1>1. Leading(n) = Lead(Behind(reader.cursor), n)
    BY DEF Leading, Lead, Rank, Before
  <1>2. QED
    BY <1>1, MatchingType DEF Lead

\* The elements of a sequence to which one is appended.
LEMMA AppendPage ==
  ASSUME NEW S, NEW s \in Seq(S), NEW x \in S
  PROVE  Append(s, x) \in Seq(S) /\ ToSet(Append(s, x)) = ToSet(s) \union {x}
  <1> DEFINE t == Append(s, x)
             n == Len(s)
  <1>1. n \in Nat /\ DOMAIN s = 1..n
    OBVIOUS
  <1>2. t \in Seq(S) /\ Len(t) = n + 1 /\ DOMAIN t = 1..(n + 1)
    OBVIOUS
  <1>3. t[n + 1] = x /\ \A k \in 1..n : t[k] = s[k]
    BY <1>1
  <1> HIDE DEF t, n
  <1>4. DOMAIN t = DOMAIN s \union {n + 1}
    BY <1>1, <1>2
  <1>5. ToSet(t) = ToSet(s) \union {x}
    BY <1>1, <1>3, <1>4 DEF ToSet
  <1>6. QED
    BY <1>2, <1>5 DEF t

\* What a page does to the reader.
LEMMA PageFrame ==
  ASSUME ReaderType, ReadPage
  PROVE  LET rows == Leading(PageLimit + 1)
             more == Cardinality(rows) > PageLimit
         IN  /\ (more => Boundary(rows) \in Nat) => reader' \in Reader
             /\ reader.doing = "page" /\ UNCHANGED <<vars, succeeded>>
             /\ reader'.first = reader.first
             /\ reader'.pages = Append(reader.pages, Leading(PageLimit))
             /\ more   => reader'.cursor = Boundary(rows) /\ reader'.doing = "summary"
             /\ ~ more => reader'.cursor = reader.cursor /\ reader'.doing = "complete"
  <1> DEFINE rows == Leading(PageLimit + 1)
             more == Cardinality(rows) > PageLimit
             page == Leading(PageLimit)
             cursor == IF more THEN Boundary(rows) ELSE reader.cursor
             doing == IF more THEN "summary" ELSE "complete"
  <1>1. /\ reader.doing = "page" /\ UNCHANGED <<vars, succeeded>>
        /\ reader' = [reader EXCEPT !.pages = Append(@, page), !.cursor = cursor,
                                    !.doing = doing]
    BY DEF ReadPage, Read
  <1>2. doing \in Doings
    BY DEF Doings
  <1>3. page \in EventSets
    BY LeadingIsLead, MatchingType DEF EventSets
  <1>4. reader \in Reader /\ reader.pages \in Pages
    BY DEF ReaderType, Reader
  <1>5. Append(reader.pages, page) \in Pages
    BY <1>3, <1>4 DEF Pages
  <1>6. (more => Boundary(rows) \in Nat) => cursor \in Nat
    BY <1>4 DEF Reader
  <1> DEFINE pages == Append(reader.pages, page)
  <1>7. reader' = [reader EXCEPT !.pages = pages, !.cursor = cursor, !.doing = doing]
    BY <1>1, <1>4 DEF Reader
  <1> HIDE DEF pages, cursor, doing
  <1>8. /\ reader'.first = reader.first /\ reader'.pages = pages
        /\ reader'.cursor = cursor /\ reader'.doing = doing
        /\ cursor \in Nat => reader' \in Reader
    BY <1>2, <1>4, <1>5, <1>7 DEF Reader, pages
  <1>9. QED
    BY <1>1, <1>6, <1>8 DEF pages, cursor, doing

\* What a summary does to the reader.
LEMMA SummaryFrame ==
  ASSUME ReaderType, ReadSummary
  PROVE  /\ reader' \in Reader
         /\ reader.doing = "summary" /\ UNCHANGED <<vars, succeeded>>
         /\ reader'.doing # "unknown" =>
              /\ reader'.doing = "page" /\ reader'.pages = reader.pages
              /\ reader'.cursor = reader.cursor
              /\ reader'.first = IF reader.pages = <<>> THEN Matching ELSE reader.first
  <1> DEFINE first == IF reader.pages = <<>> THEN Matching ELSE reader.first
  <1>1. /\ reader.doing = "summary" /\ UNCHANGED <<vars, succeeded>>
        /\ \/ reader' = [Idle EXCEPT !.doing = "unknown"]
           \/ reader' = [reader EXCEPT !.doing = "page", !.first = first]
    BY DEF ReadSummary, Read, ReaderType, Reader
  <1>2. "unknown" \in Doings /\ "page" \in Doings
    BY DEF Doings
  <1>3. first \in EventSets
    BY MatchingType DEF EventSets, ReaderType, Reader
  <1> HIDE DEF first
  <1>4. CASE reader' = [Idle EXCEPT !.doing = "unknown"]
    BY <1>1, <1>2, <1>4, IdleType DEF Reader
  <1>5. CASE reader' = [reader EXCEPT !.doing = "page", !.first = first]
    BY <1>1, <1>2, <1>3, <1>5 DEF Reader, ReaderType, first
  <1>6. QED
    BY <1>1, <1>4, <1>5

-----------------------------------------------------------------------------
\* load control keeps the order of the loads that succeeded.
SucceededInv == succeeded \in Loads /\ ToSet(succeeded) = Admitted

\* The sequence of no element.
LEMMA SequenceOfNone == SetToSeq({}) = <<>>
  <1>1. Cardinality({}) = 0
    BY FS_EmptySet
  <1>2. 1..0 = {}
    OBVIOUS
  <1>3. \A f : f \in [1..0 -> {}] <=> f = <<>>
    <2>1. <<>> \in Seq({}) /\ Len(<<>>) = 0
      OBVIOUS
    <2>2. <<>> \in [1..0 -> {}]
      BY <2>1
    <2>3. \A f, g \in [1..0 -> {}] : f = g
      BY <1>2
    <2>4. QED
      BY <2>2, <2>3
  <1>4. IsInjective(<<>>)
    BY DEF IsInjective
  <1>5. QED
    BY <1>1, <1>2, <1>3, <1>4 DEF SetToSeq

\* The sequence of one element.
LEMMA SequenceOfOne ==
  ASSUME NEW x
  PROVE  SetToSeq({x}) = <<x>>
  <1>1. Cardinality({x}) = 1
    BY FS_Singleton
  <1>2. 1..1 = {1}
    OBVIOUS
  <1>3. \A f : f \in [{1} -> {x}] <=> f = <<x>>
    OBVIOUS
  <1>4. IsInjective(<<x>>)
    BY DEF IsInjective
  <1>5. QED
    BY <1>1, <1>2, <1>3, <1>4 DEF SetToSeq

\* A loader's step publishes one load or none.
LEMMA WriteEffect ==
  ASSUME ReloadInv, SucceededInv, Write
  PROVE  /\ [Next]_vars /\ UNCHANGED reader
         /\ \/ succeeded' = succeeded /\ Admitted' = Admitted
            \/ \E m \in Manifests : succeeded' = Append(succeeded, m)
                                    /\ Admitted' = Admitted \union {m}
  <1> DEFINE new == {m \in Manifests : Status(m) # "SUCCEEDED"
                                       /\ load_run'[m].status = "SUCCEEDED"}
  <1>1. Next /\ UNCHANGED reader /\ succeeded' = succeeded \o SetToSeq(new)
    BY DEF Write
  <1>2. LoaderInv /\ [Next]_vars /\ succeeded \in Seq(Manifests)
    BY <1>1 DEF ReloadInv, SucceededInv, Loads
  <1>3. Admitted' = {m \in Manifests : load_run'[m].status = "SUCCEEDED"}
    BY DEF Admitted, Status
  <1>4. CASE Admitted' = Admitted
    <2>1. new = {}
      BY <1>3, <1>4 DEF Admitted
    <2>2. succeeded' = succeeded
      <3>1. succeeded' = succeeded \o <<>>
        BY <1>1, <2>1, SequenceOfNone
      <3>2. QED
        BY <1>2, <3>1
    <2>3. QED
      BY <1>1, <1>2, <1>4, <2>2
  <1>5. ASSUME NEW l \in Loaders, Publish(l)
        PROVE  \E m \in Manifests : succeeded' = Append(succeeded, m)
                                    /\ Admitted' = Admitted \union {m}
    <2>1. /\ job[l] \in Manifests /\ Status(job[l]) = "RUNNING"
          /\ load_run \in [Manifests -> LoadRun]
      BY <1>2, <1>5 DEF LoaderInv, TypedJobs, TypeOK, JobKnown, Ownership, OwnsRun, Working,
                        Transaction, Publish
    <2>2. load_run' = [load_run EXCEPT ![job[l]] =
                         [status |-> "SUCCEEDED", inserted |-> pending[l]]]
      BY <1>5 DEF Publish
    <2>3. \A m \in Manifests :
            load_run'[m].status = IF m = job[l] THEN "SUCCEEDED" ELSE Status(m)
      BY <2>1, <2>2 DEF Status
    <2>4. new = {job[l]}
      BY <2>1, <2>3
    <2>5. Admitted' = Admitted \union {job[l]}
      BY <1>3, <2>1, <2>3 DEF Admitted
    <2>6. succeeded' = Append(succeeded, job[l])
      <3>1. succeeded' = succeeded \o <<job[l]>>
        BY <1>1, <2>4, SequenceOfOne
      <3>2. QED
        BY <1>2, <2>1, <3>1
    <2>7. QED
      BY <2>1, <2>5, <2>6
  <1>6. QED
    BY <1>1, <1>2, <1>4, <1>5, DatabaseStep

\* load control keeps the order at every step.
LEMMA SucceededStep ==
  ASSUME ReloadInv, SucceededInv, [ReadNext]_readVars
  PROVE  SucceededInv'
  <1>1. CASE Write
    <2>1. CASE succeeded' = succeeded /\ Admitted' = Admitted
      BY <2>1 DEF SucceededInv
    <2>2. ASSUME NEW m \in Manifests, succeeded' = Append(succeeded, m),
                 Admitted' = Admitted \union {m}
          PROVE  SucceededInv'
      BY <2>2, AppendPage DEF SucceededInv, Loads
    <2>3. QED
      BY <1>1, <2>1, <2>2, WriteEffect
  <1>2. CASE UNCHANGED <<vars, succeeded>>
    <2>1. Admitted' = Admitted
      BY <1>2, ReadFrame DEF Admitted
    <2>2. QED
      BY <1>2, <2>1 DEF SucceededInv
  <1>3. QED
    BY <1>1, <1>2 DEF ReadNext, readVars, StartReading, ReadSummary, ReadPage,
                      StartVerifying, Verify, Read

\* What the steps of the verification do to the reader.
LEMMA StartFrame ==
  ASSUME SucceededInv,
         StartReading \/ \E m \in Manifests : StartVerifying(m)
  PROVE  /\ reader' \in Reader /\ UNCHANGED <<vars, succeeded>>
         /\ reader'.pages = <<>> /\ reader'.first = {} /\ reader'.cursor = 0
         /\ reader'.doing \in {"summary", "verify"} /\ reader'.query = 1
         /\ reader'.doing = "verify" => reader'.expects \in Manifests
  <1>1. "summary" \in Doings /\ "verify" \in Doings /\ succeeded \in Loads
    BY DEF Doings, SucceededInv
  <1>2. CASE StartReading
    BY <1>1, <1>2, IdleType DEF StartReading, Read, Reader
  <1>3. ASSUME NEW m \in Manifests, StartVerifying(m)
        PROVE  /\ reader' \in Reader /\ UNCHANGED <<vars, succeeded>>
               /\ reader'.pages = <<>> /\ reader'.first = {} /\ reader'.cursor = 0
               /\ reader'.doing = "verify" /\ reader'.expects = m /\ reader'.query = 1
    <2>1. m \in Expectation
      BY DEF Expectation
    <2>2. /\ UNCHANGED <<vars, succeeded>>
          /\ reader' = [Idle EXCEPT !.doing = "verify", !.expects = m, !.began = succeeded]
      BY <1>3 DEF StartVerifying, Read
    <2>3. QED
      BY <1>1, <2>1, <2>2, IdleType DEF Reader
  <1>4. QED
    BY <1>2, <1>3

\* What a query of the verification does to the reader.
LEMMA VerifyFrame ==
  ASSUME ReaderType, Verify
  PROVE  /\ reader' \in Reader /\ UNCHANGED <<vars, succeeded>>
         /\ reader.doing = "verify"
         /\ reader'.expects = reader.expects /\ reader'.began = reader.began
         /\ reader.query \in QueryNumber
         /\ reader'.query = IF reader.query < 9 THEN reader.query + 1 ELSE reader.query
         /\ reader'.doing \in {"verify", "passed", "failed"}
         /\ reader'.doing = "failed" <=> ~ Compared(reader.query, reader.expects)
         /\ reader'.doing = "passed" <=>
              Compared(reader.query, reader.expects) /\ reader.query = 9
  <1> DEFINE query == IF reader.query < Queries THEN reader.query + 1 ELSE reader.query
             good == Compared(reader.query, reader.expects)
             doing == IF ~ good THEN "failed"
                      ELSE IF reader.query = Queries THEN "passed" ELSE reader.doing
  <1>1. /\ reader.doing = "verify" /\ UNCHANGED <<vars, succeeded>>
        /\ reader' = [reader EXCEPT !.query = query, !.doing = doing]
    BY DEF Verify, Read, ReaderType, Reader
  <1>2. reader.query \in QueryNumber
    BY DEF ReaderType, Reader
  <1>3. query \in QueryNumber /\ doing \in Doings
    BY <1>1, <1>2 DEF QueryNumber, Queries, Doings
  <1> HIDE DEF query, doing, good
  <1>4. /\ reader' \in Reader /\ reader'.query = query /\ reader'.doing = doing
        /\ reader'.expects = reader.expects /\ reader'.began = reader.began
    BY <1>1, <1>3 DEF ReaderType, Reader
  <1>5. /\ doing \in {"verify", "passed", "failed"}
        /\ doing = "failed" <=> ~ good
        /\ doing = "passed" <=> good /\ reader.query = 9
    BY <1>1 DEF doing, Queries
  <1>6. QED
    BY <1>1, <1>2, <1>4, <1>5 DEF query, good, Queries

\* A page ends at its boundary, or it is the last one.
LEMMA PageBounds ==
  LET rows == Leading(PageLimit + 1)
      page == Leading(PageLimit)
      rest == Behind(reader.cursor)
  IN  /\ page \subseteq rest
      /\ Cardinality(rows) > PageLimit =>
           /\ \E b \in page : Boundary(rows) = Position[b]
           /\ page = {e \in rest : Position[e] <= Boundary(rows)}
      /\ ~ (Cardinality(rows) > PageLimit) => page = rest
  <1> DEFINE rest == Behind(reader.cursor)
             rows == Leading(PageLimit + 1)
             page == Leading(PageLimit)
             b == CHOOSE e \in rows :
                    Cardinality({f \in rows : Position[f] < Position[e]}) = PageLimit - 1
  <1>1. PageLimit \in Nat \ {0}
    BY ReadsAssumption
  <1>2. rest \in SUBSET Events
    BY MatchingType
  <1>3. rows = Lead(rest, PageLimit + 1) /\ page = Lead(rest, PageLimit)
    BY LeadingIsLead
  <1>4. Boundary(rows) = Position[b]
    BY DEF Boundary
  <1>5. page \subseteq rest
    BY <1>3 DEF Lead
  <1>6. ASSUME Cardinality(rows) > PageLimit
        PROVE  b \in page /\ page = {e \in rest : Position[e] <= Position[b]}
    <2> HIDE DEF rest
    <2>1. Cardinality(Lead(rest, PageLimit + 1)) > PageLimit
      BY <1>3, <1>6
    <2>2. LET r == Lead(rest, PageLimit + 1)
              c == CHOOSE e \in r :
                     Cardinality({f \in r : Position[f] < Position[e]}) = PageLimit - 1
          IN  c \in Lead(rest, PageLimit)
              /\ Lead(rest, PageLimit) = {e \in rest : Position[e] <= Position[c]}
      BY <1>1, <1>2, <2>1, PageBoundary
    <2> HIDE DEF page, rows
    <2>3. QED
      BY <1>3, <2>2
  <1>7. ~ (Cardinality(rows) > PageLimit) => page = rest
    <2> HIDE DEF rest
    <2>1. ~ (Cardinality(Lead(rest, PageLimit + 1)) > PageLimit)
          => Lead(rest, PageLimit) = rest
      BY <1>1, <1>2, LastPage
    <2>2. QED
      BY <1>3, <2>1
  <1> HIDE DEF rest, rows, page, b
  <1>8. QED
    BY <1>4, <1>5, <1>6, <1>7 DEF rest, rows, page

\* A boundary is a number.
LEMMA BoundaryIsNumber ==
  Cardinality(Leading(PageLimit + 1)) > PageLimit => Boundary(Leading(PageLimit + 1)) \in Nat
  <1> DEFINE c == Boundary(Leading(PageLimit + 1))
  <1>1. SUFFICES ASSUME Cardinality(Leading(PageLimit + 1)) > PageLimit
                 PROVE  c \in Nat
    OBVIOUS
  <1>2. PICK b \in Leading(PageLimit) : c = Position[b]
    BY <1>1, PageBounds
  <1>3. b \in Events
    BY <1>2, LeadingIsLead, MatchingType
  <1> HIDE DEF c
  <1>4. QED
    BY <1>2, <1>3, Positions

\* Every step keeps the type of the reader.
LEMMA ReaderTypeStep ==
  ASSUME SucceededInv, ReaderType, [ReadNext]_readVars
  PROVE  ReaderType'
  <1>1. CASE UNCHANGED reader
    BY <1>1 DEF ReaderType
  <1>2. CASE ReadPage
    BY <1>2, PageFrame, BoundaryIsNumber DEF ReaderType
  <1>3. CASE ReadSummary
    BY <1>3, SummaryFrame DEF ReaderType
  <1>4. CASE StartReading \/ \E m \in Manifests : StartVerifying(m)
    BY <1>4, StartFrame DEF ReaderType
  <1>5. CASE Verify
    BY <1>5, VerifyFrame DEF ReaderType
  <1>6. QED
    BY <1>1, <1>2, <1>3, <1>4, <1>5 DEF ReadNext, readVars, Write

\* Loads leave what the client has read where it is.
LEMMA PagesInvWrite ==
  ASSUME ReloadInv, SucceededInv, PagesInv, Write
  PROVE  PagesInv'
  <1>1. reader' = reader /\ [Next]_vars
    BY WriteEffect
  <1>2. Matching \subseteq Matching'
    BY <1>1, ServedGrows DEF ReloadInv
  <1>3. Got' = Got /\ (Reading <=> Reading') /\ (Ordered <=> Ordered')
    BY <1>1 DEF Got, Reading, Ordered
  <1>4. QED
    BY <1>1, <1>2, <1>3 DEF PagesInv

-----------------------------------------------------------------------------
\* A page keeps the client's account: it brings what lies between the cursor and the
\* next one.
LEMMA PagesInvPage ==
  ASSUME ReaderType, PagesInv, ReadPage
  PROVE  PagesInv'
  <1> DEFINE c == reader.cursor
             rows == Leading(PageLimit + 1)
             page == Leading(PageLimit)
             more == Cardinality(rows) > PageLimit
             last == Boundary(rows)
             n == Len(reader.pages)
             first == reader.first
  <1>1. /\ reader.doing = "page" /\ UNCHANGED <<vars, succeeded>>
        /\ reader'.first = first
        /\ reader'.pages = Append(reader.pages, page)
        /\ more   => reader'.cursor = last /\ reader'.doing = "summary"
        /\ ~ more => reader'.cursor = c /\ reader'.doing = "complete"
    BY PageFrame
  <1>2. Matching' = Matching
    BY <1>1, ReadFrame
  <1>3. /\ page \subseteq Behind(c)
        /\ more => (\E b \in page : last = Position[b])
                   /\ page = {e \in Behind(c) : Position[e] <= last}
        /\ ~ more => page = Behind(c)
    BY PageBounds
  <1>4. page \in EventSets /\ reader.pages \in Seq(EventSets) /\ c \in Nat
    BY LeadingIsLead, MatchingType DEF EventSets, ReaderType, Reader, Pages
  <1>5. /\ reader'.pages # <<>>
        /\ DOMAIN reader.pages = 1..n /\ n \in Nat
        /\ DOMAIN reader'.pages = 1..(n + 1) /\ reader'.pages[n + 1] = page
        /\ \A k \in 1..n : reader'.pages[k] = reader.pages[k]
        /\ Got' = Got \union page
    <2> DEFINE s == reader.pages
               t == reader'.pages
    <2>1. s \in Seq(EventSets) /\ page \in EventSets /\ t = Append(s, page)
      BY <1>1, <1>4
    <2> HIDE DEF page, s, t
    <2>2. Len(s) \in Nat /\ DOMAIN s = 1..Len(s)
      BY <2>1
    <2>3. t \in Seq(EventSets) /\ Len(t) = Len(s) + 1 /\ DOMAIN t = 1..(Len(s) + 1)
      BY <2>1
    <2>4. t # <<>> /\ t[Len(s) + 1] = page /\ \A k \in 1..Len(s) : t[k] = s[k]
      BY <2>1, <2>2
    <2>5. ToSet(t) = ToSet(s) \union {page}
      BY <2>1, AppendPage
    <2>6. UNION ToSet(t) = (UNION ToSet(s)) \union page
      BY <2>5
    <2>7. QED
      BY <2>2, <2>3, <2>4, <2>6 DEF Got, s, t
  <1>6. /\ first \subseteq Matching /\ Got \subseteq Matching /\ Ordered
        /\ \A e \in first : Position[e] <= c => e \in Got
        /\ \A e \in Got : Position[e] <= c
    BY <1>1 DEF PagesInv, Reading
  <1>7. \A e \in Matching : Position[e] \in Nat
    BY MatchingType, Positions
  <1>8. \A e \in Behind(c) : e \in Matching /\ Position[e] > c
    BY DEF Behind
  <1>9. \A e \in Matching : Position[e] > c => e \in Behind(c)
    BY DEF Behind
  <1> HIDE DEF c, page, more, last, n, first
  <1>10. Ordered'
    <2> SUFFICES ASSUME NEW i \in 1..(n + 1), NEW j \in 1..(n + 1), i < j,
                        NEW e \in reader'.pages[i], NEW f \in reader'.pages[j]
                 PROVE  Position[e] < Position[f]
      BY <1>5 DEF Ordered
    <2>1. i \in 1..n
      BY <1>5
    <2>2. reader'.pages[i] = reader.pages[i]
      BY <1>5, <2>1
    <2>3. CASE j = n + 1
      <3>1. f \in page
        BY <1>5, <2>3
      <3>2. e \in Got
        BY <1>5, <2>1, <2>2 DEF Got, ToSet
      <3>3. Position[e] <= c /\ Position[f] > c /\ Position[e] \in Nat /\ Position[f] \in Nat
        BY <1>3, <1>6, <1>7, <1>8, <3>1, <3>2
      <3>4. QED
        BY <1>4, <3>3
    <2>4. CASE j # n + 1
      <3>1. j \in 1..n
        BY <1>5, <2>4
      <3>2. reader'.pages[j] = reader.pages[j]
        BY <1>5, <3>1
      <3>3. QED
        BY <1>5, <1>6, <2>1, <2>2, <3>1, <3>2 DEF Ordered
    <2>5. QED
      BY <2>3, <2>4
  <1>11. first \subseteq Matching' /\ Got' \subseteq Matching'
    BY <1>2, <1>3, <1>5, <1>6, <1>8
  <1>12. CASE more
    <2>1. reader'.doing = "summary" /\ reader'.cursor = last
      BY <1>1, <1>12
    <2>2. PICK b \in page : last = Position[b]
      BY <1>3, <1>12
    <2>3. last \in Nat /\ c < last
      BY <1>3, <1>4, <1>7, <1>8, <2>2
    <2>4. ASSUME NEW e \in first, Position[e] <= last
          PROVE  e \in Got'
      <3>1. e \in Matching /\ Position[e] \in Nat
        BY <1>6, <1>7
      <3>2. CASE Position[e] <= c
        BY <1>5, <1>6, <3>2
      <3>3. CASE Position[e] > c
        BY <1>3, <1>5, <1>9, <1>12, <2>4, <3>1, <3>3
      <3>4. QED
        BY <1>4, <3>1, <3>2, <3>3
    <2>5. ASSUME NEW e \in Got'
          PROVE  Position[e] <= last
      <3>1. CASE e \in page
        BY <1>3, <1>12, <3>1
      <3>2. CASE e \in Got
        BY <1>4, <1>6, <1>7, <2>3, <3>2
      <3>3. QED
        BY <1>5, <2>5, <3>1, <3>2
    <2>6. QED
      BY <1>1, <1>5, <1>10, <1>11, <2>1, <2>4, <2>5 DEF PagesInv
  <1>13. CASE ~ more
    <2>1. reader'.doing = "complete"
      BY <1>1, <1>13
    <2>2. ASSUME NEW e \in first
          PROVE  e \in Got'
      <3>1. e \in Matching /\ Position[e] \in Nat
        BY <1>6, <1>7
      <3>2. CASE Position[e] <= c
        BY <1>5, <1>6, <3>2
      <3>3. CASE Position[e] > c
        BY <1>3, <1>5, <1>9, <1>13, <3>1, <3>3
      <3>4. QED
        BY <1>4, <3>1, <3>2, <3>3
    <2>3. QED
      BY <1>1, <1>10, <1>11, <2>1, <2>2 DEF PagesInv
  <1>14. QED
    BY <1>12, <1>13

\* Nothing has been read from no pages.
LEMMA NothingRead == UNION ToSet(<<>>) = {} /\ DOMAIN <<>> = {}
  <1>1. DOMAIN <<>> = {}
    OBVIOUS
  <1>2. QED
    BY <1>1 DEF ToSet

\* A summary keeps the client's account, and the first one opens it.
LEMMA PagesInvSummary ==
  ASSUME ReaderType, PagesInv, ReadSummary
  PROVE  PagesInv'
  <1>1. /\ reader.doing = "summary" /\ UNCHANGED <<vars, succeeded>>
        /\ reader'.doing # "unknown" =>
             /\ reader'.doing = "page" /\ reader'.pages = reader.pages
             /\ reader'.cursor = reader.cursor
             /\ reader'.first = IF reader.pages = <<>> THEN Matching ELSE reader.first
    BY SummaryFrame
  <1>2. Matching' = Matching
    BY <1>1, ReadFrame
  <1>3. /\ reader.first \subseteq Matching /\ Got \subseteq Matching /\ Ordered
        /\ reader.pages = <<>> => reader.cursor = 0
        /\ \A e \in reader.first : Position[e] <= reader.cursor => e \in Got
        /\ \A e \in Got : Position[e] <= reader.cursor
    BY <1>1 DEF PagesInv, Reading
  <1>4. CASE reader'.doing = "unknown"
    BY <1>4 DEF PagesInv, Reading
  <1>5. CASE reader'.doing # "unknown"
    <2>1. Got' = Got /\ (Ordered' <=> Ordered)
      BY <1>1, <1>5 DEF Got, Ordered
    <2>2. CASE reader.pages = <<>>
      <3>1. \A e \in Matching : Position[e] \in Nat /\ Position[e] > 0
        BY MatchingType, Positions
      <3>2. \A e \in Matching : ~ (Position[e] <= 0)
        BY <3>1
      <3>3. QED
        BY <1>1, <1>2, <1>3, <1>5, <2>1, <2>2, <3>2 DEF PagesInv
    <2>3. CASE reader.pages # <<>>
      BY <1>1, <1>2, <1>3, <1>5, <2>1, <2>3 DEF PagesInv
    <2>4. QED
      BY <2>2, <2>3
  <1>6. QED
    BY <1>4, <1>5

\* A new request has nothing to account for.
LEMMA PagesInvStart ==
  ASSUME reader'.pages = <<>>, reader'.first = {}, reader'.cursor = 0,
         reader'.doing # "complete"
  PROVE  PagesInv'
  <1>1. Got' = {} /\ Ordered'
    BY NothingRead DEF Got, Ordered
  <1>2. QED
    BY <1>1 DEF PagesInv

\* Every step keeps the client's account.
LEMMA PagesInvStep ==
  ASSUME ReloadInv, SucceededInv, ReaderType, PagesInv, [ReadNext]_readVars
  PROVE  PagesInv'
  <1>1. CASE Write
    BY <1>1, PagesInvWrite
  <1>2. CASE ReadPage
    BY <1>2, PagesInvPage
  <1>3. CASE ReadSummary
    BY <1>3, PagesInvSummary
  <1>4. CASE StartReading \/ \E m \in Manifests : StartVerifying(m)
    BY <1>4, StartFrame, PagesInvStart
  <1>5. CASE Verify
    <2>1. reader'.doing \in {"verify", "passed", "failed"}
      BY <1>5, VerifyFrame
    <2>2. QED
      BY <2>1 DEF PagesInv, Reading
  <1>6. CASE UNCHANGED readVars
    <2>1. reader' = reader /\ Matching' = Matching
      BY <1>6, ReadFrame DEF readVars
    <2>2. Got' = Got /\ (Reading <=> Reading') /\ (Ordered <=> Ordered')
      BY <2>1 DEF Got, Reading, Ordered
    <2>3. QED
      BY <2>1, <2>2 DEF PagesInv
  <1>7. QED
    BY <1>1, <1>2, <1>3, <1>4, <1>5, <1>6 DEF ReadNext

\* What readers know is true of the tables they read.
ReadInv == ReloadInv /\ SucceededInv /\ ReaderType /\ PagesInv

\* Readers take no step of their own in the tables.
LEMMA ReaderStep == [ReadNext]_readVars => [Next]_vars
  BY DEF ReadNext, Write, readVars, StartReading, ReadSummary, ReadPage, StartVerifying,
         Verify, Read

\* What readers know is true in every reachable state (repository.py:132-161).
THEOREM ReadsInvariant == ReadSpec => []ReadInv
<1>1. ReadInit => Init /\ Provenance /\ StagedInFull /\ SucceededInv /\ ReaderType /\ PagesInv
  <2> SUFFICES ASSUME ReadInit
               PROVE  Init /\ Provenance /\ StagedInFull /\ SucceededInv /\ ReaderType /\ PagesInv
    OBVIOUS
  <2>1. Init /\ succeeded = <<>> /\ reader = Idle
    BY DEF ReadInit
  <2>2. Provenance /\ StagedInFull
    BY <2>1 DEF Init, Provenance, StagedInFull, IsServed, Status, NotLoaded
  <2>3. SucceededInv
    <3>1. Admitted = {}
      BY <2>1 DEF Init, Admitted, Status, NotLoaded
    <3>2. <<>> \in Loads /\ ToSet(<<>>) = {}
      BY NothingRead DEF Loads, ToSet
    <3>3. QED
      BY <2>1, <3>1, <3>2 DEF SucceededInv
  <2>4. ReaderType
    BY <2>1, IdleType DEF ReaderType
  <2>5. PagesInv
    BY <2>1, IdleType DEF PagesInv, Reading
  <2>6. QED
    BY <2>1, <2>2, <2>3, <2>4, <2>5
<1>2. [ReadNext]_readVars => [Next]_vars
  BY ReaderStep
<1>3. ReadInv /\ LoaderInv' /\ [ReadNext]_readVars => ReadInv'
  <2> SUFFICES ASSUME ReadInv, LoaderInv', [ReadNext]_readVars
               PROVE  ReadInv'
    OBVIOUS
  <2>1. [Next]_vars
    BY ReaderStep
  <2>2. ReloadInv'
    BY <2>1, ProvenanceStep, StagedInFullStep DEF ReadInv, ReloadInv
  <2>3. SucceededInv' /\ ReaderType' /\ PagesInv'
    BY SucceededStep, ReaderTypeStep, PagesInvStep DEF ReadInv
  <2>4. QED
    BY <2>2, <2>3 DEF ReadInv
<1>4. ReadSpec => Spec
  BY <1>1, <1>2, PTL DEF ReadSpec, Spec
<1>5. QED
  BY <1>1, <1>3, <1>4, LoaderInvariant, PTL DEF ReadSpec, ReadInv, ReloadInv

\* Whatever is loaded meanwhile, a client that follows the cursors gets every event that
\* was there when it began, in order and none twice (repository.py:132-161).
THEOREM PagesAreAlwaysComplete == ReadSpec => []PagesAreComplete
<1>1. ReadInv => PagesAreComplete
  BY DEF ReadInv, PagesInv, Reading, Got, Ordered, PagesAreComplete
<1>2. QED
  BY <1>1, ReadsInvariant, PTL

-----------------------------------------------------------------------------
\* A finite set of numbers that is not empty has a greatest one.
LEMMA MaxOfFinite ==
  ASSUME NEW S \in SUBSET Int, IsFiniteSet(S), S # {}
  PROVE  Max(S) \in S /\ \A y \in S : Max(S) >= y
  <1> DEFINE Unbounded == {R \in SUBSET S : R # {} /\ ~ \E x \in R : \A y \in R : x >= y}
  <1>1. Unbounded = {}
    <2> SUFFICES ASSUME Unbounded # {}
                 PROVE  FALSE
      OBVIOUS
    <2>1. IsWellFoundedOn(StrictSubsetOrdering(S), SUBSET S)
      BY FS_StrictSubsetOrderingWellFounded, FS_FiniteSubsetsOfFinite
    <2>2. Unbounded \subseteq SUBSET S
      OBVIOUS
    <2> HIDE DEF Unbounded
    <2>3. PICK R \in Unbounded : \A T \in Unbounded : <<T, R>> \notin StrictSubsetOrdering(S)
      BY <2>1, <2>2, WFMin
    <2> USE DEF Unbounded
    <2>4. PICK a \in R : TRUE
      OBVIOUS
    <2>5. R \ {a} \notin Unbounded
      BY <2>3, <2>4 DEF StrictSubsetOrdering
    <2>6. CASE R \ {a} = {}
      BY <2>4, <2>6
    <2>7. CASE R \ {a} # {}
      <3>1. PICK m \in R \ {a} : \A y \in R \ {a} : m >= y
        BY <2>5, <2>7
      <3>2. a \in Int /\ m \in Int /\ R \subseteq Int
        BY <2>4, <3>1
      <3>3. CASE m >= a
        BY <3>1, <3>2, <3>3
      <3>4. CASE a >= m
        BY <2>4, <3>1, <3>2, <3>4
      <3>5. QED
        BY <3>2, <3>3, <3>4
    <2>8. QED
      BY <2>6, <2>7
  <1>2. \E x \in S : \A y \in S : x >= y
    BY <1>1
  <1>3. QED
    BY <1>2 DEF Max

\* The factor of a manifest bounds the iterations of its events.
LEMMA FactorBounds ==
  ASSUME NEW m \in Manifests
  PROVE  /\ Factor(m) \in Nat /\ Factor(m) >= 1
         /\ \A e \in Rows[m] : Iteration[e] <= Factor(m)
  <1> DEFINE Its == {Iteration[e] : e \in Rows[m]}
             S == {1} \union Its
             it == [e \in Rows[m] |-> Iteration[e]]
  <1>1. Rows[m] \in SUBSET Events
    BY LoaderAssumption
  <1>2. IsFiniteSet(Rows[m]) /\ \A e \in Rows[m] : Iteration[e] \in Nat
    BY <1>1, CountsAreNumbers, ReadsAssumption
  <1>3. it \in Surjection(Rows[m], Its)
    BY DEF Surjection
  <1>4. IsFiniteSet(Its)
    <2> HIDE DEF Its, it
    <2>1. QED
      BY <1>2, <1>3, FS_Surjection
  <1>5. IsFiniteSet(S)
    <2> HIDE DEF Its
    <2>1. IsFiniteSet({1})
      BY FS_Singleton
    <2>2. QED
      BY <1>4, <2>1, FS_Union
  <1>6. S \in SUBSET Int /\ S # {} /\ 1 \in S /\ \A e \in Rows[m] : Iteration[e] \in S
    BY <1>2
  <1>7. Factor(m) = Max(S)
    BY DEF Factor
  <1> HIDE DEF S
  <1>8. Max(S) \in S /\ \A y \in S : Max(S) >= y
    BY <1>5, <1>6, MaxOfFinite
  <1>9. Max(S) \in Int /\ Max(S) >= 1
    BY <1>6, <1>8
  <1>10. QED
    BY <1>2, <1>6, <1>7, <1>8, <1>9

\* A complete replay has every detection once in every iteration.
LEMMA ReplayFacts ==
  ASSUME NEW x \in Manifests, IsReplay(x)
  PROVE  /\ \A e \in Rows[x] : Iteration[e] \in 1..Factor(x)
         /\ Replays(Rows[x]) = Rows[x]
         /\ {Iteration[e] : e \in Rows[x]} = 1..Factor(x)
         /\ \A d \in DetectionsOf(Rows[x]) :
              Cardinality({e \in Rows[x] : Detection[e] = d}) = Factor(x)
  <1> DEFINE F == Factor(x)
             R == Rows[x]
             Of(d) == {e \in R : Detection[e] = d}
  <1>1. F \in Nat /\ F >= 1
    BY FactorBounds
  <1>2. R \in SUBSET Events /\ R # {}
    BY LoaderAssumption DEF IsReplay
  <1>3. \A d \in DetectionsOf(R) : {Iteration[e] : e \in Of(d)} = 1..F
    BY DEF IsReplay
  <1>4. \A e, f \in R : Detection[e] = Detection[f] /\ Iteration[e] = Iteration[f] => e = f
    BY DEF IsReplay
  <1> HIDE DEF F, R
  <1>5. \A e \in R : Detection[e] \in DetectionsOf(R) /\ e \in Of(Detection[e])
    BY DEF DetectionsOf
  <1>6. ASSUME NEW e \in R
        PROVE  Iteration[e] \in 1..F
    BY <1>3, <1>5
  <1>7. \A e \in R : Iteration[e] > 0
    BY <1>1, <1>6
  <1>8. Replays(R) = R
    BY <1>7 DEF Replays
  <1>9. {Iteration[e] : e \in R} = 1..F
    <2>1. PICK e \in R : TRUE
      BY <1>2
    <2>2. {Iteration[f] : f \in Of(Detection[e])} = 1..F
      BY <1>3, <1>5
    <2>3. \A i \in 1..F : \E f \in R : i = Iteration[f]
      BY <2>2
    <2>4. QED
      BY <1>6, <2>3
  <1>10. ASSUME NEW d \in DetectionsOf(R)
         PROVE  Cardinality(Of(d)) = F
    <2> DEFINE T == Of(d)
               it == [e \in T |-> Iteration[e]]
    <2>1. IsFiniteSet(T)
      BY <1>2, CountsAreNumbers
    <2>2. T \subseteq R /\ \A e \in T : Detection[e] = d
      OBVIOUS
    <2>3. {Iteration[e] : e \in T} = 1..F
      BY <1>3
    <2> HIDE DEF T
    <2>4. it \in Surjection(T, 1..F)
      BY <2>3 DEF Surjection
    <2>5. it \in Injection(T, 1..F)
      <3>1. it \in [T -> 1..F]
        BY <2>3
      <3>2. \A e, f \in T : it[e] = it[f] => e = f
        BY <1>4, <2>2
      <3> HIDE DEF it
      <3>3. QED
        BY <3>1, <3>2 DEF Injection, IsInjective
    <2>6. Cardinality(1..F) = F
      BY <1>1, FS_Interval
    <2> HIDE DEF it
    <2>7. Cardinality(1..F) = Cardinality(T)
      BY <2>1, <2>4, <2>5, FS_Surjection
    <2>8. QED
      BY <2>6, <2>7 DEF T
  <1>11. QED
    BY <1>6, <1>8, <1>9, <1>10 DEF F, R

\* As many pairs with one manifest as events.
LEMMA PairsCount ==
  ASSUME NEW x, NEW S, IsFiniteSet(S)
  PROVE  IsFiniteSet({x} \X S) /\ Cardinality({x} \X S) = Cardinality(S)
  <1>1. IsFiniteSet({x}) /\ Cardinality({x}) = 1
    BY FS_Singleton
  <1>2. IsFiniteSet({x} \X S) /\ Cardinality({x} \X S) = Cardinality({x}) * Cardinality(S)
    BY <1>1, FS_Product
  <1>3. Cardinality(S) \in Nat
    BY FS_CardinalityType
  <1>4. QED
    BY <1>1, <1>2, <1>3

\* When one load has succeeded, the tables hold its manifest and nothing else.
LEMMA SoleLoad ==
  ASSUME ReloadInv, SucceededInv, NEW x \in Manifests, succeeded = <<x>>
  PROVE  /\ Served = Rows[x] /\ load_run[x].inserted = Rows[x]
         /\ Summarised = {x} \X Rows[x]
  <1>1. Admitted = {x}
    <2>1. DOMAIN <<x>> = {1} /\ <<x>>[1] = x
      OBVIOUS
    <2>2. ToSet(<<x>>) = {x}
      BY <2>1 DEF ToSet
    <2>3. QED
      BY <2>2 DEF SucceededInv
  <1>2. Status(x) = "SUCCEEDED" /\ \A m \in Manifests : m # x => Status(m) # "SUCCEEDED"
    BY <1>1 DEF Admitted
  <1>3. /\ Rows[x] \subseteq Served
        /\ \A m \in Manifests : /\ summary[m] = GoldRows(m)
                                /\ load_run[m].inserted = GoldRows(m)
                                /\ m # x => GoldRows(m) = {}
    BY <1>2 DEF ReloadInv, LoaderInv, TablesAgree
  <1>4. \A e \in Served : event_detail[e].gold \in Manifests /\ e \in Rows[event_detail[e].gold]
    BY DEF ReloadInv, LoaderInv, TypedJobs, TypeOK, Row, Provenance, Served, IsServed
  <1>5. \A e \in Served : e \in GoldRows(event_detail[e].gold)
    BY DEF GoldRows, RowsUnder, Served, IsServed
  <1>6. \A e \in Served : event_detail[e].gold = x
    BY <1>3, <1>4, <1>5
  <1>7. Served = Rows[x] /\ GoldRows(x) = Rows[x]
    BY <1>3, <1>4, <1>6 DEF GoldRows, RowsUnder, Served, IsServed
  <1>8. Summarised = {x} \X Rows[x]
    <2>1. \A m \in Manifests : summary[m] = IF m = x THEN Rows[x] ELSE {}
      BY <1>3, <1>7
    <2>2. \A p : p \in Summarised <=> \E m \in Manifests : p \in {m} \X summary[m]
      BY DEF Summarised
    <2>3. ASSUME NEW p, NEW m \in Manifests, p \in {m} \X summary[m]
          PROVE  p \in {x} \X Rows[x]
      <3>1. CASE m = x
        BY <2>1, <2>3, <3>1
      <3>2. CASE m # x
        <4>1. summary[m] = {}
          BY <2>1, <3>2
        <4>2. QED
          BY <2>3, <4>1
      <3>3. QED
        BY <3>1, <3>2
    <2>4. \A p \in {x} \X Rows[x] : p \in {x} \X summary[x]
      BY <2>1
    <2>5. QED
      BY <2>2, <2>3, <2>4
  <1>9. QED
    BY <1>3, <1>7, <1>8

\* Every comparison of the verification agrees with a complete replay that is the
\* only load.
LEMMA ReplayPasses ==
  ASSUME ReloadInv, SucceededInv, NEW x \in Manifests, succeeded = <<x>>, IsReplay(x),
         NEW q \in QueryNumber
  PROVE  Compared(q, x)
  <1> DEFINE R == Rows[x]
             F == Factor(x)
  <1>1. Served = R /\ load_run[x].inserted = R /\ Summarised = {x} \X R
    BY SoleLoad
  <1>2. R \in SUBSET Events /\ R # {} /\ Cardinality(R) = Declared[x]
        /\ {Sequence[e] : e \in Replays(R)} = 0..(Cardinality(Replays(R)) - 1)
    BY LoaderAssumption DEF IsReplay
  <1>3. IsFiniteSet(R) /\ Cardinality(R) \in Nat /\ F \in Nat /\ F >= 1
    BY <1>2, CountsAreNumbers, FactorBounds
  <1>4. /\ \A e \in R : Iteration[e] \in 1..F
        /\ Replays(R) = R
        /\ {Iteration[e] : e \in R} = 1..F
        /\ \A d \in DetectionsOf(R) : Cardinality({e \in R : Detection[e] = d}) = F
    BY ReplayFacts
  <1>5. Last(succeeded) = x /\ succeeded # <<>>
    <2>1. Len(<<x>>) = 1 /\ <<x>>[1] = x /\ <<x>> # <<>>
      OBVIOUS
    <2>2. QED
      BY <2>1 DEF Last
  <1> HIDE DEF R, F
  <1>6. TruthCounts(x)
    BY <1>1, <1>2 DEF TruthCounts, R
  <1>7. ReplayValues(x)
    <2>1. Cardinality(R) > 0
      BY <1>2, <1>3, FS_EmptySet
    <2>2. {Sequence[e] : e \in Replays(Served)} = 0..(Cardinality(Replays(R)) - 1)
      BY <1>1, <1>2
    <2>3. {Iteration[e] : e \in Replays(Served)}
            = IF Cardinality(Replays(R)) > 0 THEN 1..F ELSE {}
      BY <1>1, <1>4, <2>1
    <2>4. QED
      BY <2>2, <2>3 DEF ReplayValues, R, F
  <1>8. Frequencies(x)
    BY <1>1, <1>4 DEF Frequencies, R, F
  <1>9. Cardinality(Summarised) = Declared[x]
    BY <1>1, <1>2, <1>3, PairsCount
  <1>10. DailySums(x)
    <2>1. {row \in Summarised : Iteration[row[2]] > 0} = Summarised
      BY <1>1, <1>3, <1>4
    <2>2. QED
      BY <1>2, <1>4, <1>9, <2>1 DEF DailySums, R
  <1>11. LineageSums(x)
    <2>1. Lineages = {x} \X DetectionsOf(R)
      <3>1. ASSUME NEW d \in DetectionsOf(R)
            PROVE  <<x, d>> \in Lineages
        <4>1. PICK e \in R : d = Detection[e]
          BY DEF DetectionsOf
        <4>2. <<x, e>> \in Summarised
          BY <1>1
        <4>3. QED
          BY <4>1, <4>2 DEF Lineages
      <3>2. \A l \in Lineages : \E d \in DetectionsOf(R) : l = <<x, d>>
        BY <1>1 DEF Lineages, DetectionsOf
      <3>3. QED
        BY <3>1, <3>2
    <2>2. IsFiniteSet(DetectionsOf(R))
      <3> DEFINE det == [e \in R |-> Detection[e]]
      <3>1. det \in Surjection(R, DetectionsOf(R))
        BY DEF Surjection, DetectionsOf
      <3> HIDE DEF det
      <3>2. QED
        BY <1>3, <3>1, FS_Surjection
    <2>3. Cardinality(Lineages) = Cardinality(DetectionsOf(R))
      BY <2>1, <2>2, PairsCount
    <2>4. ASSUME NEW l \in Lineages
          PROVE  Cardinality({row \in Summarised : <<row[1], Detection[row[2]]>> = l}) = F
      <3>1. PICK d \in DetectionsOf(R) : l = <<x, d>>
        BY <2>1
      <3> DEFINE T == {e \in R : Detection[e] = d}
      <3>2. {row \in Summarised : <<row[1], Detection[row[2]]>> = l} = {x} \X T
        BY <1>1, <3>1
      <3>3. IsFiniteSet(T)
        BY <1>2, CountsAreNumbers
      <3>4. Cardinality(T) = F
        BY <1>4
      <3> HIDE DEF T
      <3>5. QED
        BY <3>2, <3>3, <3>4, PairsCount
    <2>5. QED
      BY <1>9, <2>3, <2>4 DEF LineageSums, R, F
  <1>12. LatestLoad(x)
    BY <1>1, <1>2, <1>5 DEF LatestLoad
  <1>13. LoadedArtifacts(x)
    BY <1>5 DEF LoadedArtifacts
  <1>14. ConflictProbe
    BY <1>1, <1>2 DEF ConflictProbe
  <1>15. PostProbeRows(x)
    BY <1>1, <1>2 DEF PostProbeRows
  <1>16. q \in 1..9
    BY DEF QueryNumber, Queries
  <1>17. q = 1 \/ q = 2 \/ q = 3 \/ q = 4 \/ q = 5 \/ q = 6 \/ q = 7 \/ q = 8 \/ q = 9
    BY <1>16
  <1>18. QED
    BY <1>6, <1>7, <1>8, <1>10, <1>11, <1>12, <1>13, <1>14, <1>15, <1>17 DEF Compared

-----------------------------------------------------------------------------
\* The sequence numbers of the replays in a set.
Numbers(S) == {Sequence[e] : e \in Replays(S)}

\* Rows that were all that was served when the first query counted them.
Counted(S, x) ==
  Cardinality(S) = Declared[x] /\ Cardinality(Replays(S)) = Cardinality(Replays(Rows[x]))

\* What the queries answered so far have seen of the tables.
VerifyInv ==
  reader.doing = "verify" =>
    /\ reader.expects \in Manifests
    /\ reader.query > 1 =>
         \E S \in SUBSET Served : \E T \in SUBSET Served :
           /\ Counted(S, reader.expects) /\ S \subseteq T
           /\ reader.query > 2 =>
                Numbers(T) = 0..(Cardinality(Replays(Rows[reader.expects])) - 1)
    /\ reader.query > 6 =>
         \E m \in Admitted : Cardinality(load_run[m].inserted) = Declared[reader.expects]

\* A load that has succeeded stays as it is.
LEMMA AdmittedStays ==
  ASSUME LoaderInv, [Next]_vars, NEW m \in Admitted
  PROVE  m \in Admitted' /\ load_run'[m] = load_run[m]
  <1>1. load_run'[m] = load_run[m]
    <2>1. ASSUME NEW l \in Loaders, Publish(l)
          PROVE  load_run'[m] = load_run[m]
      <3>1. m # job[l] /\ m \in Manifests
        BY <2>1 DEF LoaderInv, Ownership, OwnsRun, Working, Transaction, Publish, Admitted
      <3>2. QED
        BY <2>1, <3>1 DEF Publish, LoaderInv, TypedJobs, TypeOK
    <2>2. QED
      BY <2>1, DatabaseStep
  <1>2. QED
    BY <1>1 DEF Admitted, Status

\* Loads leave standing what the verification has seen.
LEMMA VerifyInvWrite ==
  ASSUME ReloadInv, SucceededInv, VerifyInv, Write
  PROVE  VerifyInv'
  <1>1. reader' = reader /\ [Next]_vars
    BY WriteEffect
  <1>2. Served \subseteq Served'
    BY <1>1, ServedGrows DEF ReloadInv
  <1>3. \A m \in Admitted : m \in Admitted' /\ load_run'[m] = load_run[m]
    BY <1>1, AdmittedStays DEF ReloadInv
  <1>4. SUFFICES ASSUME reader.doing = "verify"
                 PROVE  VerifyInv'
    BY <1>1 DEF VerifyInv
  <1>5. ASSUME reader.query > 1
        PROVE  \E S \in SUBSET Served' : \E T \in SUBSET Served' :
                 /\ Counted(S, reader.expects) /\ S \subseteq T
                 /\ reader.query > 2 =>
                      Numbers(T) = 0..(Cardinality(Replays(Rows[reader.expects])) - 1)
    BY <1>2, <1>4, <1>5 DEF VerifyInv
  <1>6. ASSUME reader.query > 6
        PROVE  \E m \in Admitted' : Cardinality(load_run'[m].inserted) = Declared[reader.expects]
    BY <1>3, <1>4, <1>6 DEF VerifyInv
  <1>7. QED
    BY <1>1, <1>4, <1>5, <1>6 DEF VerifyInv, Counted, Numbers, Replays

\* A query adds what it has compared.
LEMMA VerifyInvQuery ==
  ASSUME SucceededInv, ReaderType, VerifyInv, Verify
  PROVE  VerifyInv'
  <1> DEFINE x == reader.expects
             q == reader.query
             good(T) == Numbers(T) = 0..(Cardinality(Replays(Rows[x])) - 1)
  <1>1. /\ UNCHANGED <<vars, succeeded>> /\ reader.doing = "verify"
        /\ reader'.expects = x /\ q \in 1..9
        /\ reader'.query = IF q < 9 THEN q + 1 ELSE q
        /\ reader'.doing = "verify" => Compared(q, x) /\ q # 9
    BY VerifyFrame DEF QueryNumber, Queries
  <1>2. Served' = Served /\ Admitted' = Admitted /\ load_run' = load_run
    BY <1>1, ReadFrame DEF Admitted
  <1>3. /\ x \in Manifests
        /\ q > 1 => \E S \in SUBSET Served : \E T \in SUBSET Served :
                      Counted(S, x) /\ S \subseteq T /\ (q > 2 => good(T))
        /\ q > 6 => \E m \in Admitted : Cardinality(load_run[m].inserted) = Declared[x]
    BY <1>1 DEF VerifyInv
  <1>4. SUFFICES ASSUME reader'.doing = "verify"
                 PROVE  VerifyInv'
    BY DEF VerifyInv
  <1>5. Compared(q, x) /\ q < 9 /\ reader'.query = q + 1
    BY <1>1, <1>4
  <1> HIDE DEF good
  <1>6. \E S \in SUBSET Served : \E T \in SUBSET Served :
          Counted(S, x) /\ S \subseteq T /\ (q + 1 > 2 => good(T))
    <2>1. CASE q = 1
      <3>1. Counted(Served, x)
        BY <1>5, <2>1 DEF Compared, TruthCounts, Counted
      <3>2. QED
        BY <2>1, <3>1
    <2>2. CASE q = 2
      <3>1. good(Served)
        BY <1>5, <2>2 DEF Compared, ReplayValues, Numbers, good
      <3>2. QED
        BY <1>3, <2>2, <3>1
    <2>3. CASE q > 2
      <3>1. q > 1
        BY <1>1, <2>3
      <3>2. QED
        BY <1>3, <2>3, <3>1
    <2>4. QED
      BY <1>1, <2>1, <2>2, <2>3
  <1>7. ASSUME q + 1 > 6
        PROVE  \E m \in Admitted : Cardinality(load_run[m].inserted) = Declared[x]
    <2>1. CASE q = 6
      <3>1. succeeded # <<>> /\ Cardinality(load_run[Last(succeeded)].inserted) = Declared[x]
        BY <1>5, <2>1 DEF Compared, LatestLoad
      <3>2. Last(succeeded) \in ToSet(succeeded)
        <4>1. succeeded \in Seq(Manifests)
          BY DEF SucceededInv, Loads
        <4>2. Len(succeeded) \in DOMAIN succeeded
          BY <3>1, <4>1
        <4>3. QED
          BY <4>2 DEF Last, ToSet
      <3>3. QED
        BY <3>1, <3>2 DEF SucceededInv
    <2>2. CASE q > 6
      BY <1>3, <2>2
    <2>3. QED
      BY <1>1, <1>7, <2>1, <2>2
  <1>8. QED
    BY <1>1, <1>2, <1>3, <1>5, <1>6, <1>7 DEF VerifyInv, good, Counted, Numbers, Replays

\* Every step keeps what the verification has seen.
LEMMA VerifyInvStep ==
  ASSUME ReadInv, VerifyInv, [ReadNext]_readVars
  PROVE  VerifyInv'
  <1>1. CASE Write
    BY <1>1, VerifyInvWrite DEF ReadInv
  <1>2. CASE ReadPage
    <2>1. reader'.doing # "verify"
      BY <1>2, PageFrame DEF ReadInv
    <2>2. QED
      BY <2>1 DEF VerifyInv
  <1>3. CASE ReadSummary
    <2>1. reader'.doing # "verify"
      BY <1>3, SummaryFrame DEF ReadInv
    <2>2. QED
      BY <2>1 DEF VerifyInv
  <1>4. CASE StartReading \/ \E m \in Manifests : StartVerifying(m)
    <2>1. reader'.query = 1 /\ (reader'.doing = "verify" => reader'.expects \in Manifests)
      BY <1>4, StartFrame DEF ReadInv
    <2>2. QED
      BY <2>1 DEF VerifyInv
  <1>5. CASE Verify
    BY <1>5, VerifyInvQuery DEF ReadInv
  <1>6. CASE UNCHANGED readVars
    <2>1. reader' = reader /\ Served' = Served /\ load_run' = load_run /\ Admitted' = Admitted
      BY <1>6, ReadFrame DEF readVars, Admitted
    <2>2. QED
      BY <2>1 DEF VerifyInv, Counted, Numbers, Replays
  <1>7. QED
    BY <1>1, <1>2, <1>3, <1>4, <1>5, <1>6 DEF ReadNext

\* Counts that agree at the first and at the last query leave no room for a change.
LEMMA PassedIsExact ==
  ASSUME ReadInv, VerifyInv, Verify, reader'.doing = "passed"
  PROVE  \E m \in Manifests :
           /\ Status(m) = "SUCCEEDED"
           /\ GoldRows(m) = Served /\ Rows[m] = Served
           /\ Cardinality(Served) = Declared[reader.expects]
           /\ {Sequence[e] : e \in Replays(Served)} = 0..(Cardinality(Replays(Served)) - 1)
  <1> DEFINE x == reader.expects
  <1>1. reader.doing = "verify" /\ Compared(reader.query, x) /\ reader.query = 9
    BY VerifyFrame DEF ReadInv
  <1>2. Cardinality(Served) = Declared[x]
    BY <1>1 DEF Compared, PostProbeRows
  <1>3. PICK S \in SUBSET Served, T \in SUBSET Served :
          Counted(S, x) /\ S \subseteq T
          /\ Numbers(T) = 0..(Cardinality(Replays(Rows[x])) - 1)
    BY <1>1 DEF VerifyInv
  <1>4. PICK m \in Admitted : Cardinality(load_run[m].inserted) = Declared[x]
    BY <1>1 DEF VerifyInv
  <1>5. IsFiniteSet(Served)
    <2>1. Served \in SUBSET Events
      BY DEF Served
    <2>2. QED
      BY <2>1, CountsAreNumbers
  <1> HIDE DEF x
  <1>6. S = Served
    BY <1>2, <1>3, <1>5, FS_Subset DEF Counted
  <1>7. T = Served
    BY <1>3, <1>6
  <1>8. Numbers(Served) = 0..(Cardinality(Replays(Served)) - 1)
    BY <1>3, <1>6, <1>7 DEF Counted
  <1>9. m \in Manifests /\ Status(m) = "SUCCEEDED"
    BY <1>4 DEF Admitted
  <1>10. load_run[m].inserted = GoldRows(m) /\ Rows[m] \subseteq Served
    BY <1>9 DEF ReadInv, ReloadInv, LoaderInv, TablesAgree
  <1>11. GoldRows(m) \in SUBSET Served
    BY DEF GoldRows, RowsUnder, Served, IsServed
  <1>12. GoldRows(m) = Served
    BY <1>2, <1>4, <1>5, <1>10, <1>11, FS_Subset
  <1>13. Served \subseteq Rows[m]
    BY <1>12 DEF ReadInv, ReloadInv, Provenance, GoldRows, RowsUnder, IsServed
  <1>14. Rows[m] = Served
    BY <1>10, <1>13
  <1>15. {Sequence[e] : e \in Replays(Served)} = 0..(Cardinality(Replays(Served)) - 1)
    BY <1>8 DEF Numbers
  <1>16. Cardinality(Served) = Declared[reader.expects]
    BY <1>2 DEF x
  <1>17. QED
    BY <1>9, <1>12, <1>14, <1>15, <1>16

\* Nine queries without a common snapshot give a verdict about one state, and a complete
\* replay that is the only load is never failed (verify.py:57-215).
THEOREM VerdictsAreAlwaysExact == ReadSpec => VerdictsAreExact
<1> DEFINE Exact ==
      reader.doing = "verify" =>
        /\ reader'.doing = "passed" =>
             \E m \in Manifests :
               /\ Status(m) = "SUCCEEDED"
               /\ GoldRows(m) = Served /\ Rows[m] = Served
               /\ Cardinality(Served) = Declared[reader.expects]
               /\ {Sequence[e] : e \in Replays(Served)} = 0..(Cardinality(Replays(Served)) - 1)
        /\ reader'.doing = "failed" /\ IsReplay(reader.expects) =>
             ~ (reader.began = <<reader.expects>> /\ succeeded = <<reader.expects>>)
<1>1. ReadInit => VerifyInv
  <2>1. ReadInit => reader.doing # "verify"
    BY IdleType DEF ReadInit
  <2>2. QED
    BY <2>1 DEF VerifyInv
<1>2. ReadInv /\ VerifyInv /\ [ReadNext]_readVars => VerifyInv'
  BY VerifyInvStep
<1>3. ReadInv /\ VerifyInv /\ [ReadNext]_readVars => [Exact]_readVars
  <2> SUFFICES ASSUME ReadInv, VerifyInv, ReadNext, reader.doing = "verify",
                      reader'.doing \in {"passed", "failed"}
               PROVE  Exact
    OBVIOUS
  <2>1. Verify
    <3>1. ~ AtRest
      BY DEF AtRest
    <3>2. ~ Write
      BY DEF Write
    <3>3. QED
      BY <3>1, <3>2 DEF ReadNext, StartReading, ReadSummary, ReadPage, StartVerifying
  <2>2. CASE reader'.doing = "passed"
    BY <2>1, <2>2, PassedIsExact
  <2>3. ASSUME reader'.doing = "failed", IsReplay(reader.expects),
               succeeded = <<reader.expects>>
        PROVE  FALSE
    <3>1. ~ Compared(reader.query, reader.expects) /\ reader.query \in QueryNumber
      BY <2>1, <2>3, VerifyFrame DEF ReadInv
    <3>2. reader.expects \in Manifests
      BY DEF VerifyInv
    <3>3. QED
      BY <2>3, <3>1, <3>2, ReplayPasses DEF ReadInv
  <2>4. QED
    BY <2>2, <2>3
<1>4. QED
  BY <1>1, <1>2, <1>3, ReadsInvariant, PTL DEF ReadSpec, VerdictsAreExact
=============================================================================
