--------------------------- MODULE BatchLakeProofs ---------------------------
(***************************************************************************)
(* Proofs about BatchLake, for any number of runs, attempts, exceptions,   *)
(* crashes and replaced files, any bodies, rows and hand-made files: its   *)
(* types, that no run steps back, that the lake keeps the ledger of        *)
(* LakeContract, and that the verifiers of replay and Silver are exact.    *)
(*                                                                         *)
(*   1  the form of the runs, one lemma for each kind of step              *)
(*   2  what the operators of the stages compute: each output is what the  *)
(*      contract of its stage says of its input                            *)
(*   3  the contents: what a run has read, computed and put in place, and  *)
(*      what its source has                                                *)
(*   4  the ledger: every new result holds and comes from another          *)
(*   5  the verifiers: what they compute of a replay, what is known of a   *)
(*      run through the one that it reads from, and that they are exact    *)
(***************************************************************************)
EXTENDS BatchLake, TLAPS, FiniteSetTheorems, WellFoundedInduction

(* 1. The form of the runs.                                                *)

\* The stages, each with the artifact of a run.
Stages == {"extraction", "canonicalization", "selection", "replay", "silver", "gold"}

\* The places in the code of the stages.
Pcs == {"request", "wait", "check", "read", "write", "publish", "ended", "crashed"}
\* What is known of a run.
Fields ==
  {"stage", "src", "pc", "attempt", "from", "input", "out", "parts", "status", "recorded",
   "raced"}

\* A run is a record with these fields.
IsRun(x) == x = [f \in Fields |-> x[f]]

\* The first n parts of the artifact of a stage.
InPlace(stage, n) == {PartsOf[stage][k] : k \in 1..n}

\* What is in place of a run, by the place in its code.
Written(x) ==
  \E n \in 0..Len(PartsOf[x.stage]) :
    /\ DOMAIN x.parts = InPlace(x.stage, n)
    /\ x.pc \in {"request", "wait", "check", "read"} => n = 0
    /\ x.pc = "write" => n < Len(PartsOf[x.stage])
    /\ x.pc = "publish" \/ x.status = "SUCCEEDED" => n = Len(PartsOf[x.stage])

\* A run is somewhere in the code of a stage, with attempts left while it waits, no
\* manifest before its end, and the parts in place that belong there.
WellFormed(x) ==
  /\ IsRun(x)
  /\ x.stage \in Stages /\ x.pc \in Pcs /\ x.src \in Nat
  /\ x.attempt \in 1..MaxAttempts
  /\ x.pc = "wait" => x.attempt < MaxAttempts
  /\ x.status \in {"NONE", "SUCCEEDED", "FAILED"}
  /\ x.status # "NONE" => x.pc = "ended"
  /\ Written(x)

\* One run at a time, each after its source.
RunsFormed ==
  /\ \E S : runs \in Seq(S)
  /\ \A r \in 1..Len(runs) :
       /\ WellFormed(runs[r])
       /\ runs[r].src < r
       /\ r < Len(runs) => Ended(r)

\* Trouble is counted, and files are replaced where there are files.
TroubleFormed ==
  /\ faults \in Nat /\ IsFiniteSet(damage)
  /\ faults + Cardinality(damage) <= MaxTrouble
  /\ \A d \in damage : d.run \in 1..Len(runs) /\ d.part \in DOMAIN runs[d.run].parts

\* The inductive invariant of the lake.
LakeInv == RunsFormed /\ TroubleFormed

-----------------------------------------------------------------------------

\* A stage has up to three parts, each of them once.
LEMMA PartsAreFew ==
  \A stage \in Stages :
    /\ Len(PartsOf[stage]) \in 1..3
    /\ \A k, l \in 1..Len(PartsOf[stage]) : PartsOf[stage][k] = PartsOf[stage][l] => k = l
  <1>1. \A stage \in Stages : Len(PartsOf[stage]) \in 1..3
    BY DEF PartsOf, Stages
  <1>2. \A stage \in Stages : \A k, l \in 1..Len(PartsOf[stage]) :
          PartsOf[stage][k] = PartsOf[stage][l] => k = l
    <2> SUFFICES ASSUME NEW stage \in Stages,
                        NEW k \in 1..Len(PartsOf[stage]), NEW l \in 1..Len(PartsOf[stage]),
                        PartsOf[stage][k] = PartsOf[stage][l]
                 PROVE  k = l
      OBVIOUS
    <2>1. CASE stage \in {"extraction", "selection", "replay"}
      <3>1. Len(PartsOf[stage]) = 1
        BY <2>1 DEF PartsOf
      <3>2. QED
        BY <3>1
    <2>2. CASE stage = "canonicalization"
      BY <2>2 DEF PartsOf
    <2>3. CASE stage = "silver"
      BY <2>3 DEF PartsOf
    <2>4. CASE stage = "gold"
      BY <2>4 DEF PartsOf
    <2>5. QED
      BY <2>1, <2>2, <2>3, <2>4 DEF Stages
  <1>3. QED
    BY <1>1, <1>2

\* The number of parts in place tells which they are.
LEMMA InPlaceCount ==
  ASSUME NEW stage \in Stages, NEW n \in 0..Len(PartsOf[stage])
  PROVE  IsFiniteSet(InPlace(stage, n)) /\ Cardinality(InPlace(stage, n)) = n
  <1> DEFINE f == [k \in 1..n |-> PartsOf[stage][k]]
  <1>1. f \in Bijection(1..n, InPlace(stage, n))
    <2>1. f \in [1..n -> InPlace(stage, n)]
      BY DEF InPlace
    <2>2. \A k, l \in 1..n : f[k] = f[l] => k = l
      BY PartsAreFew
    <2>3. \A p \in InPlace(stage, n) : \E k \in 1..n : f[k] = p
      BY DEF InPlace
    <2> HIDE DEF f
    <2>4. QED
      BY <2>1, <2>2, <2>3 DEF Bijection, Injection, Surjection, IsInjective
  <1>2. n \in Nat /\ ExistsBijection(1..n, InPlace(stage, n))
    BY <1>1, PartsAreFew DEF ExistsBijection
  <1>3. QED
    BY <1>2, FS_NatBijection, FS_CountingElements

\* When a run is added, those before it stay where they are.
LEMMA AppendRun ==
  ASSUME \E S : runs \in Seq(S), NEW y
  PROVE  /\ \E S : Append(runs, y) \in Seq(S)
         /\ Len(Append(runs, y)) = Len(runs) + 1
         /\ Append(runs, y)[Len(runs) + 1] = y
         /\ \A r \in 1..Len(runs) : Append(runs, y)[r] = runs[r]
  <1>1. PICK S : runs \in Seq(S)
    OBVIOUS
  <1>2. runs \in Seq(S \union {y}) /\ y \in S \union {y}
    BY <1>1
  <1>3. QED
    BY <1>2

\* When a run is replaced, the others stay as they are.
LEMMA ReplaceRun ==
  ASSUME \E S : runs \in Seq(S), NEW y, NEW n \in 1..Len(runs)
  PROVE  /\ \E S : [runs EXCEPT ![n] = y] \in Seq(S)
         /\ Len([runs EXCEPT ![n] = y]) = Len(runs)
         /\ \A r \in 1..Len(runs) : [runs EXCEPT ![n] = y][r] = IF r = n THEN y ELSE runs[r]
  <1>1. PICK S : runs \in Seq(S)
    OBVIOUS
  <1>2. runs \in Seq(S \union {y}) /\ y \in S \union {y}
    BY <1>1
  <1>3. [runs EXCEPT ![n] = y] \in Seq(S \union {y})
    BY <1>2
  <1>4. QED
    BY <1>2, <1>3

\* While a run is going on it is the last one, and well formed.
LEMMA JobIsLast ==
  ASSUME RunsFormed, ~ Idle
  PROVE  /\ Len(runs) \in 1..Len(runs) /\ DOMAIN runs = 1..Len(runs)
         /\ job = runs[Len(runs)] /\ WellFormed(job)
         /\ job.pc \notin {"ended", "crashed"}
  <1>1. DOMAIN runs = 1..Len(runs) /\ Len(runs) \in Nat
    BY DEF RunsFormed
  <1>2. PICK r \in 1..Len(runs) : ~ Ended(r)
    BY <1>1 DEF Idle
  <1>3. r = Len(runs)
    <2>1. r < Len(runs) => Ended(r)
      BY <1>2 DEF RunsFormed
    <2>2. ~ (r < Len(runs))
      BY <1>2, <2>1
    <2>3. r \in Int /\ Len(runs) \in Int /\ r <= Len(runs)
      BY <1>1
    <2>4. QED
      BY <2>2, <2>3
  <1>4. job = runs[Len(runs)]
    BY DEF job, Last
  <1>5. QED
    BY <1>1, <1>2, <1>3, <1>4 DEF RunsFormed, Ended

-----------------------------------------------------------------------------
(* How a run moves on.                                                    *)

\* The part that comes next.
NextOf(x) == PartsOf[x.stage][Cardinality(DOMAIN x.parts) + 1]

\* A step of a run keeps what it is, and what it has put in place.
SameRun(x, y) ==
  /\ IsRun(y) /\ y.stage = x.stage /\ y.src = x.src /\ y.raced = x.raced
  /\ \A p \in DOMAIN x.parts : y.parts[p] = x.parts[p]

\* It is over, with or without a last part that is more or less complete; it has
\* succeeded only when everything is in place.
Ends(x, y) ==
  /\ y.attempt = x.attempt
  /\ \/ y.pc = "ended" /\ y.status \in {"NONE", "FAILED"}
     \/ y.pc = "ended" /\ y.status = "SUCCEEDED" /\ x.pc = "publish"
     \/ y.pc = "crashed" /\ y.status = x.status
  /\ \/ DOMAIN y.parts = DOMAIN x.parts
     \/ x.pc = "write" /\ DOMAIN y.parts = DOMAIN x.parts \union {NextOf(x)}

\* It waits for another attempt, or makes it.
Retries(x, y) ==
  /\ y.parts = x.parts /\ y.status = x.status
  /\ \/ x.pc = "request" /\ y.pc = "wait" /\ x.attempt # MaxAttempts /\ y.attempt = x.attempt
     \/ x.pc = "wait" /\ y.pc = "request" /\ y.attempt = x.attempt + 1

\* It goes on to read or to write.
Proceeds(x, y) ==
  /\ y.parts = x.parts /\ y.status = x.status /\ y.attempt = x.attempt
  /\ <<x.pc, y.pc>> \in {<<"request", "write">>, <<"check", "read">>,
                         <<"check", "write">>, <<"read", "write">>}

\* It puts its next part in place.
Puts(x, y) ==
  /\ y.status = x.status /\ y.attempt = x.attempt
  /\ x.pc = "write" /\ DOMAIN y.parts = DOMAIN x.parts \union {NextOf(x)}
  /\ y.pc = IF Cardinality(DOMAIN x.parts) + 1 = Len(PartsOf[x.stage]) THEN "publish" ELSE "write"

\* The steps of a run.
Moves(x, y) ==
  SameRun(x, y) /\ (Ends(x, y) \/ Retries(x, y) \/ Proceeds(x, y) \/ Puts(x, y))

\* With the next part in place, one part more of the artifact is in place.
LEMMA OnePartMore ==
  ASSUME NEW x, WellFormed(x), x.pc = "write"
  PROVE  \E n \in 0..(Len(PartsOf[x.stage]) - 1) :
           /\ DOMAIN x.parts = InPlace(x.stage, n) /\ Cardinality(DOMAIN x.parts) = n
           /\ DOMAIN x.parts \union {NextOf(x)} = InPlace(x.stage, n + 1)
           /\ Cardinality(InPlace(x.stage, n + 1)) = n + 1
  <1>1. x.stage \in Stages /\ Len(PartsOf[x.stage]) \in 1..3
    BY PartsAreFew DEF WellFormed
  <1>2. PICK n \in 0..(Len(PartsOf[x.stage]) - 1) : DOMAIN x.parts = InPlace(x.stage, n)
    BY <1>1 DEF WellFormed, Written
  <1>3. n \in 0..Len(PartsOf[x.stage]) /\ n + 1 \in 0..Len(PartsOf[x.stage])
    BY <1>1
  <1>4. Cardinality(DOMAIN x.parts) = n /\ Cardinality(InPlace(x.stage, n + 1)) = n + 1
    BY <1>1, <1>2, <1>3, InPlaceCount
  <1>5. InPlace(x.stage, n) \union {PartsOf[x.stage][n + 1]} = InPlace(x.stage, n + 1)
    <2>1. 1..(n + 1) = 1..n \union {n + 1}
      BY <1>3
    <2>2. QED
      BY <2>1 DEF InPlace
  <1>6. QED
    BY <1>2, <1>4, <1>5 DEF NextOf

\* The next part is not in place yet.
LEMMA NextIsMissing ==
  ASSUME NEW x, WellFormed(x), x.pc = "write"
  PROVE  NextOf(x) \notin DOMAIN x.parts
  <1>1. PICK n \in Nat :
          /\ Cardinality(DOMAIN x.parts) = n
          /\ Cardinality(DOMAIN x.parts \union {NextOf(x)}) = n + 1
    <2>1. Len(PartsOf[x.stage]) \in 1..3
      BY PartsAreFew DEF WellFormed
    <2>2. PICK n \in 0..(Len(PartsOf[x.stage]) - 1) :
            /\ DOMAIN x.parts = InPlace(x.stage, n) /\ Cardinality(DOMAIN x.parts) = n
            /\ DOMAIN x.parts \union {NextOf(x)} = InPlace(x.stage, n + 1)
            /\ Cardinality(InPlace(x.stage, n + 1)) = n + 1
      BY OnePartMore
    <2>3. n \in Nat
      BY <2>1, <2>2
    <2>4. QED
      BY <2>2, <2>3
  <1>2. SUFFICES ASSUME NextOf(x) \in DOMAIN x.parts PROVE FALSE
    OBVIOUS
  <1>3. DOMAIN x.parts \union {NextOf(x)} = DOMAIN x.parts
    BY <1>2
  <1>4. QED
    BY <1>1, <1>3

\* What has begun stays well formed, loses nothing that is in place, and has less
\* ahead of it.
LEMMA MovesKeepForm ==
  ASSUME NEW x, NEW y, WellFormed(x), Moves(x, y), x.pc \notin {"ended", "crashed"}
  PROVE  /\ WellFormed(y)
         /\ DOMAIN x.parts \subseteq DOMAIN y.parts
         /\ Ahead(y) < Ahead(x)
  <1> DEFINE L == Len(PartsOf[x.stage])
  <1>1. x.stage \in Stages /\ L \in 1..3 /\ x.attempt \in 1..MaxAttempts /\ MaxAttempts \in Nat
    BY PartsAreFew, LakeAssumption DEF WellFormed
  <1>2. /\ IsRun(y) /\ y.stage = x.stage /\ y.src = x.src
        /\ x.status = "NONE"
    BY DEF Moves, SameRun, WellFormed
  <1>3. PICK n \in 0..L :
          /\ DOMAIN x.parts = InPlace(x.stage, n)
          /\ x.pc \in {"request", "wait", "check", "read"} => n = 0
          /\ x.pc = "write" => n < L
          /\ x.pc = "publish" => n = L
    BY DEF WellFormed, Written
  <1>4. Cardinality(DOMAIN x.parts) = n /\ n \in 0..3
    <2>1. n \in 0..Len(PartsOf[x.stage])
      BY <1>3
    <2>2. Cardinality(InPlace(x.stage, n)) = n
      BY <1>1, <2>1, InPlaceCount
    <2> HIDE DEF L
    <2>3. QED
      BY <1>1, <1>3, <2>2
  <1>5. /\ x.pc = "request" => Ahead(x) = 9 + 2 * (MaxAttempts - x.attempt)
        /\ x.pc = "wait" => Ahead(x) = 8 + 2 * (MaxAttempts - x.attempt)
        /\ x.pc = "check" => Ahead(x) = 7
        /\ x.pc = "read" => Ahead(x) = 6
        /\ x.pc = "write" => Ahead(x) = 5 - n
        /\ x.pc = "publish" => Ahead(x) = 1
    BY <1>4 DEF Ahead
  <1>6. /\ y.pc = "request" => Ahead(y) = 9 + 2 * (MaxAttempts - y.attempt)
        /\ y.pc = "wait" => Ahead(y) = 8 + 2 * (MaxAttempts - y.attempt)
        /\ y.pc = "check" => Ahead(y) = 7
        /\ y.pc = "read" => Ahead(y) = 6
        /\ y.pc = "write" => Ahead(y) = 5 - Cardinality(DOMAIN y.parts)
        /\ y.pc = "publish" => Ahead(y) = 1
        /\ y.pc \in {"ended", "crashed"} => Ahead(y) = 0
    BY DEF Ahead
  <1>7. x.pc \in Pcs /\ (x.pc = "wait" => x.attempt < MaxAttempts)
    BY DEF WellFormed
  <1>8. ASSUME x.pc = "write"
        PROVE  /\ DOMAIN x.parts \union {NextOf(x)} = InPlace(x.stage, n + 1)
               /\ Cardinality(InPlace(x.stage, n + 1)) = n + 1
    BY <1>4, <1>8, OnePartMore
  <1>9. CASE Ends(x, y)
    <2>1. Ahead(x) > 0
      BY <1>1, <1>3, <1>4, <1>5, <1>7 DEF Pcs
    <2>2. y.pc \in {"ended", "crashed"} /\ Ahead(y) = 0
      BY <1>6, <1>9 DEF Ends
    <2>3. \E m \in 0..L : /\ DOMAIN y.parts = InPlace(x.stage, m)
                          /\ y.status = "SUCCEEDED" => m = L
      <3>1. CASE DOMAIN y.parts = DOMAIN x.parts
        BY <1>2, <1>3, <1>9, <3>1 DEF Ends
      <3>2. CASE x.pc = "write" /\ DOMAIN y.parts = DOMAIN x.parts \union {NextOf(x)}
        <4>1. n + 1 \in 0..L /\ DOMAIN y.parts = InPlace(x.stage, n + 1)
          BY <1>1, <1>3, <1>8, <3>2
        <4>2. y.status # "SUCCEEDED"
          BY <1>2, <1>9, <3>2 DEF Ends
        <4>3. QED
          BY <4>1, <4>2
      <3>3. QED
        BY <1>9, <3>1, <3>2 DEF Ends
    <2>4. DOMAIN x.parts \subseteq DOMAIN y.parts
      BY <1>9 DEF Ends
    <2>5. Written(y)
      BY <1>2, <2>2, <2>3 DEF Written
    <2>6. WellFormed(y)
      BY <1>2, <1>9, <2>2, <2>5 DEF WellFormed, Ends, Pcs
    <2>7. QED
      BY <2>1, <2>2, <2>4, <2>6, <1>1, <1>5, <1>7
  <1>10. CASE Retries(x, y)
    <2>1. n = 0 /\ y.parts = x.parts /\ y.status = "NONE" /\ y.attempt \in 1..MaxAttempts
          /\ (y.pc = "wait" => y.attempt < MaxAttempts) /\ y.pc \in {"wait", "request"}
      BY <1>1, <1>2, <1>3, <1>7, <1>10 DEF Retries
    <2>2. Written(y)
      BY <1>1, <1>2, <1>3, <2>1 DEF Written
    <2>3. WellFormed(y)
      BY <1>2, <2>1, <2>2 DEF WellFormed, Pcs
    <2>4. Ahead(y) < Ahead(x)
      <3>1. CASE x.pc = "request" /\ y.pc = "wait" /\ y.attempt = x.attempt
        <4>1. /\ Ahead(x) = 9 + 2 * (MaxAttempts - x.attempt)
              /\ Ahead(y) = 8 + 2 * (MaxAttempts - x.attempt)
          BY <1>5, <1>6, <3>1
        <4>2. QED
          BY <1>1, <4>1
      <3>2. CASE x.pc = "wait" /\ y.pc = "request" /\ y.attempt = x.attempt + 1
        <4>1. /\ Ahead(x) = 8 + 2 * (MaxAttempts - x.attempt)
              /\ Ahead(y) = 9 + 2 * (MaxAttempts - y.attempt)
          BY <1>5, <1>6, <3>2
        <4>2. QED
          BY <1>1, <3>2, <4>1
      <3>3. QED
        BY <1>10, <3>1, <3>2 DEF Retries
    <2>5. QED
      BY <2>1, <2>3, <2>4
  <1>11. CASE Proceeds(x, y)
    <2>1. n = 0 /\ y.parts = x.parts /\ y.status = "NONE" /\ y.attempt = x.attempt
          /\ y.pc \in {"read", "write"}
      BY <1>2, <1>3, <1>11 DEF Proceeds
    <2>2. Written(y)
      <3>1. 0 \in 0..L /\ 0 < L
        <4>1. L \in 1..3
          BY <1>1
        <4> HIDE DEF L
        <4>2. QED
          BY <4>1
      <3>4. DOMAIN y.parts = InPlace(x.stage, 0)
        BY <1>3, <2>1
      <3>2. y.pc # "publish" /\ y.status # "SUCCEEDED"
        BY <2>1
      <3>3. QED
        BY <1>2, <3>1, <3>2, <3>4 DEF Written
    <2>3. WellFormed(y)
      BY <1>1, <1>2, <2>1, <2>2 DEF WellFormed, Pcs
    <2>4. Ahead(y) < Ahead(x)
      BY <1>1, <1>4, <1>5, <1>6, <1>7, <1>11, <2>1 DEF Proceeds
    <2>5. QED
      BY <2>1, <2>3, <2>4
  <1>12. CASE Puts(x, y)
    <2>1. /\ y.status = "NONE" /\ y.attempt = x.attempt /\ x.pc = "write" /\ n < L
          /\ y.pc = IF n + 1 = L THEN "publish" ELSE "write"
          /\ DOMAIN y.parts = InPlace(x.stage, n + 1)
          /\ Cardinality(DOMAIN y.parts) = n + 1
          /\ DOMAIN x.parts \subseteq DOMAIN y.parts
      BY <1>2, <1>3, <1>4, <1>8, <1>12 DEF Puts
    <2>2. Written(y)
      <3>1. n + 1 \in 0..L
        BY <1>1, <2>1
      <3>2. y.pc \notin {"request", "wait", "check", "read"} /\ y.status # "SUCCEEDED"
        BY <2>1
      <3>3. (y.pc = "write" => n + 1 < L) /\ (y.pc = "publish" => n + 1 = L)
        BY <1>1, <2>1
      <3>4. QED
        BY <1>2, <2>1, <3>1, <3>2, <3>3 DEF Written
    <2>3. WellFormed(y)
      BY <1>1, <1>2, <2>1, <2>2 DEF WellFormed, Pcs
    <2>4. Ahead(y) < Ahead(x)
      BY <1>1, <1>4, <1>5, <1>6, <2>1
    <2>5. QED
      BY <2>1, <2>3, <2>4
  <1>13. QED
    BY <1>9, <1>10, <1>11, <1>12 DEF Moves

\* A run may end without success anywhere in its code.
LEMMA EndMoves ==
  ASSUME NEW status \in {"NONE", "FAILED"}, WellFormed(job)
  PROVE  Moves(job, End(status))
  <1> DEFINE x == job
             y == [x EXCEPT !.pc = "ended", !.status = status]
  <1>1. x = [f \in Fields |-> x[f]]
    BY DEF WellFormed, IsRun
  <1>2. End(status) = y
    BY DEF End
  <1> HIDE DEF x
  <1>3. Moves(x, y)
    BY <1>1 DEF Moves, SameRun, Ends, IsRun, Fields
  <1>4. QED
    BY <1>2, <1>3 DEF x

\* A run succeeds once it has nothing left to write.
LEMMA PublishedMoves ==
  ASSUME NEW from, NEW recorded, WellFormed(job), job.pc = "publish"
  PROVE  Moves(job, Published(from, recorded))
  <1> DEFINE x == job
             y == [x EXCEPT !.pc = "ended", !.status = "SUCCEEDED", !.from = from,
                         !.recorded = recorded]
  <1>1. x = [f \in Fields |-> x[f]] /\ x.pc = "publish"
    BY DEF WellFormed, IsRun
  <1>2. Published(from, recorded) = [[x EXCEPT !.pc = "ended", !.status = "SUCCEEDED"]
           EXCEPT !.from = from, !.recorded = recorded]
    BY DEF Published, End
  <1> HIDE DEF x
  <1>3. Published(from, recorded) = y
    BY <1>1, <1>2 DEF Fields
  <1>4. Moves(x, y)
    BY <1>1 DEF Moves, SameRun, Ends, IsRun, Fields
  <1>5. QED
    BY <1>3, <1>4 DEF x

\* A run that has read its input goes on to write.
LEMMA ComputedMoves ==
  ASSUME NEW input, NEW out, WellFormed(job), job.pc \in {"request", "check", "read"}
  PROVE  Moves(job, Computed(input, out))
  <1> DEFINE x == job
             y == [x EXCEPT !.input = input, !.out = out, !.pc = "write"]
  <1>1. x = [f \in Fields |-> x[f]] /\ x.pc \in {"request", "check", "read"}
    BY DEF WellFormed, IsRun
  <1>2. Computed(input, out) = y
    BY DEF Computed
  <1> HIDE DEF x
  <1>4. Moves(x, y)
    BY <1>1 DEF Moves, SameRun, Proceeds, IsRun, Fields
  <1>5. QED
    BY <1>2, <1>4 DEF x

\* A run that writes puts its next part in place.
LEMMA PutMoves ==
  ASSUME NEW content, WellFormed(job), job.pc = "write"
  PROVE  Moves(job, Put(content))
  <1> DEFINE x == job
             y == [x EXCEPT !.parts = WithPart(x.parts, NextOf(x), content),
                            !.pc = IF Cardinality(DOMAIN x.parts) + 1 = Len(PartsOf[x.stage])
                                   THEN "publish" ELSE "write"]
  <1>0. NextOf(x) \notin DOMAIN x.parts
    BY NextIsMissing
  <1>1. x = [f \in Fields |-> x[f]] /\ x.pc = "write"
    BY DEF WellFormed, IsRun
  <1>2. Put(content) = y
    <2>1. Put(content) = [x EXCEPT !.parts = WithPart(@, NextPart, content),
                            !.pc = IF Cardinality(DOMAIN x.parts) + 1 = Len(PartsOf[x.stage])
                                   THEN "publish" ELSE "write"]
      BY DEF Put
    <2>2. NextPart = NextOf(x)
      BY DEF NextPart, NextOf
    <2> HIDE DEF x
    <2>3. QED
      BY <2>1, <2>2, <1>1 DEF Fields
  <1> HIDE DEF x
  <1>3. DOMAIN y.parts = DOMAIN x.parts \union {NextOf(x)}
    BY <1>1 DEF Fields, WithPart
  <1>4. Moves(x, y)
    <2>1. SameRun(x, y)
      <3>1. IsRun(y) /\ y.stage = x.stage /\ y.src = x.src /\ y.raced = x.raced
            /\ y.parts = WithPart(x.parts, NextOf(x), content)
        BY <1>1 DEF IsRun, Fields
      <3> HIDE DEF y
      <3>2. \A p \in DOMAIN x.parts : y.parts[p] = x.parts[p]
        BY <1>0, <3>1 DEF WithPart
      <3>3. QED
        BY <3>1, <3>2 DEF SameRun
    <2>2. y.status = x.status /\ y.attempt = x.attempt
          /\ y.pc = IF Cardinality(DOMAIN x.parts) + 1 = Len(PartsOf[x.stage]) THEN "publish"
               ELSE "write"
      BY <1>1 DEF Fields
    <2> HIDE DEF y
    <2>3. QED
      BY <2>1, <2>2, <1>1, <1>3 DEF Moves, Puts
  <1>5. QED
    BY <1>2, <1>4 DEF x

\* A request is repeated until the attempts are used up.
LEMMA RetryMoves ==
  ASSUME WellFormed(job)
  PROVE  /\ job.pc = "request" /\ job.attempt # MaxAttempts
              => Moves(job, [job EXCEPT !.pc = "wait"])
         /\ job.pc = "wait" => Moves(job, [job EXCEPT !.pc = "request", !.attempt = @ + 1])
  <1> DEFINE x == job
  <1>1. x = [f \in Fields |-> x[f]]
    BY DEF WellFormed, IsRun
  <1> HIDE DEF x
  <1>2. x.pc = "request" /\ x.attempt # MaxAttempts => Moves(x, [x EXCEPT !.pc = "wait"])
    BY <1>1 DEF Moves, SameRun, Retries, IsRun, Fields
  <1>3. x.pc = "wait" => Moves(x, [x EXCEPT !.pc = "request", !.attempt = @ + 1])
    BY <1>1 DEF Moves, SameRun, Retries, IsRun, Fields
  <1>5. QED
    BY <1>2, <1>3 DEF x

\* A run that has checked its source goes on to read it, or Gold to write.
LEMMA ReadMoves ==
  ASSUME NEW from, NEW input, WellFormed(job), job.pc = "check"
  PROVE  /\ Moves(job, [job EXCEPT !.pc = "read", !.from = from])
         /\ Moves(job, [job EXCEPT !.pc = "read"])
         /\ Moves(job, [job EXCEPT !.input = input, !.pc = "write"])
  <1> DEFINE x == job
  <1>1. x = [f \in Fields |-> x[f]] /\ x.pc = "check"
    BY DEF WellFormed, IsRun
  <1> HIDE DEF x
  <1>2. Moves(x, [x EXCEPT !.pc = "read", !.from = from])
    BY <1>1 DEF Moves, SameRun, Proceeds, IsRun, Fields
  <1>3. Moves(x, [x EXCEPT !.pc = "read"])
    BY <1>1 DEF Moves, SameRun, Proceeds, IsRun, Fields
  <1>4. Moves(x, [x EXCEPT !.input = input, !.pc = "write"])
    BY <1>1 DEF Moves, SameRun, Proceeds, IsRun, Fields
  <1>5. QED
    BY <1>2, <1>3, <1>4 DEF x

\* The failure handlers of the stages end a run. The manifest of a failed extraction
\* may say SUCCEEDED, but only when its part is in place.
LEMMA FailureMoves ==
  ASSUME WellFormed(job)
  PROVE  /\ Moves(job, ExtractionFailed)
         /\ Moves(job, CanonicalizationFailed) /\ Moves(job, SelectionFailed)
         /\ Moves(job, ReplayFailed) /\ Moves(job, SilverFailed) /\ Moves(job, GoldFailed)
  <1>1. Moves(job, End("NONE")) /\ Moves(job, End("FAILED"))
    BY EndMoves
  <1>2. job.pc = "publish" => Moves(job, Published(job.input, job.out))
    BY PublishedMoves
  <1>3. ExtractionFailed = IF job.pc = "publish" THEN Published(job.input, job.out)
          ELSE End("FAILED")
    BY DEF ExtractionFailed, Published
  <1>4. QED
    BY <1>1, <1>2, <1>3
       DEF CanonicalizationFailed, SelectionFailed, ReplayFailed, SilverFailed, GoldFailed

\* The run in work moves on.
LastMoves ==
  /\ ~ Idle
  /\ \E y : Moves(job, y) /\ runs' = [runs EXCEPT ![Len(runs)] = y]

\* Step replaces the run in work and nothing else.
LEMMA StepMoves ==
  ASSUME NEW y, Moves(job, y), ~ Idle, Step(y)
  PROVE  LastMoves /\ UNCHANGED <<damage, faults>>
  BY DEF Step, LastMoves

\* Every action of a stage moves the run in work on.
LEMMA WorkMoves ==
  ASSUME RunsFormed, Work
  PROVE  LastMoves /\ UNCHANGED <<damage, faults>>
  <1>1. CASE RetryableError
    <2>1. ~ Idle /\ job.pc = "request"
      BY <1>1 DEF RetryableError, At
    <2>2. WellFormed(job)
      BY <2>1, JobIsLast
    <2> DEFINE y == IF job.attempt = MaxAttempts THEN ExtractionFailed
                      ELSE [job EXCEPT !.pc = "wait"]
    <2>3. Moves(job, y)
      BY <2>1, <2>2, FailureMoves, RetryMoves
    <2>4. Step(y)
      BY <1>1 DEF RetryableError
    <2> HIDE DEF y
    <2>5. QED
      BY <2>1, <2>3, <2>4, StepMoves
  <1>2. CASE Retry
    <2>1. ~ Idle /\ job.pc = "wait"
      BY <1>2 DEF Retry, At
    <2>2. WellFormed(job)
      BY <2>1, JobIsLast
    <2> DEFINE y == [job EXCEPT !.pc = "request", !.attempt = @ + 1]
    <2>3. Moves(job, y)
      BY <2>1, <2>2, RetryMoves
    <2>4. Step(y)
      BY <1>2 DEF Retry
    <2> HIDE DEF y
    <2>5. QED
      BY <2>1, <2>3, <2>4, StepMoves
  <1>3. CASE FinalError
    <2>1. ~ Idle /\ Step(ExtractionFailed)
      BY <1>3 DEF FinalError, At
    <2>2. Moves(job, ExtractionFailed)
      BY <2>1, JobIsLast, FailureMoves
    <2>3. QED
      BY <2>1, <2>2, StepMoves
  <1>4. ASSUME NEW body \in Bodies, Receive(body)
        PROVE  LastMoves /\ UNCHANGED <<damage, faults>>
    <2>1. ~ Idle /\ job.pc = "request"
      BY <1>4 DEF Receive, At
    <2>2. WellFormed(job)
      BY <2>1, JobIsLast
    <2> DEFINE z == Computed(body.rows, [raw |-> body.rows])
               y == IF ValidFirmsCsv(body) THEN z ELSE ExtractionFailed
    <2>3. Moves(job, z) /\ Moves(job, ExtractionFailed)
      BY <2>1, <2>2, FailureMoves, ComputedMoves
    <2>4. Step(y)
      BY <1>4 DEF Receive
    <2>5. Moves(job, y)
      <3> HIDE DEF z
      <3>1. QED
        BY <2>3
    <2> HIDE DEF y
    <2>6. QED
      BY <2>1, <2>4, <2>5, StepMoves
  <1>5. CASE PublishExtraction
    <2>1. ~ Idle /\ job.pc = "publish" /\ Step(Published(job.input, job.out))
      BY <1>5 DEF PublishExtraction, At
    <2>2. Moves(job, Published(job.input, job.out))
      BY <2>1, JobIsLast, PublishedMoves
    <2>3. QED
      BY <2>1, <2>2, StepMoves
  <1>6. CASE CheckSource
    <2>1. ~ Idle /\ job.pc = "check"
      BY <1>6 DEF CheckSource, At
    <2>2. WellFormed(job)
      BY <2>1, JobIsLast
    <2> DEFINE c == runs[job.src].status = "SUCCEEDED" /\ RawIsIntact
               z == [job EXCEPT !.pc = "read", !.from = runs[job.src].recorded["raw"]]
               y == IF c THEN z ELSE CanonicalizationFailed
    <2>3. Moves(job, z) /\ Moves(job, CanonicalizationFailed)
      BY <2>1, <2>2, FailureMoves, ReadMoves
    <2>4. Step(y)
      BY <1>6 DEF CheckSource
    <2>5. Moves(job, y)
      <3> HIDE DEF z, c
      <3>1. QED
        BY <2>3
    <2> HIDE DEF y
    <2>6. QED
      BY <2>1, <2>4, <2>5, StepMoves
  <1>7. CASE ReadRows
    <2>1. ~ Idle /\ job.pc = "read"
      BY <1>7 DEF ReadRows, At
    <2>2. WellFormed(job)
      BY <2>1, JobIsLast
    <2> DEFINE c == /\ \A k \in DOMAIN Source : Source[k].shape = "whole"
                    /\ Len(Source) = Len(job.from)
               o == [p \in {"events", "rejected", "duplicates"} |-> Canonicalized(Source)[p]]
               z == Computed(Source, o)
               y == IF c THEN z ELSE CanonicalizationFailed
    <2>3. Moves(job, z) /\ Moves(job, CanonicalizationFailed)
      <3> HIDE DEF o
      <3>1. QED
        BY <2>1, <2>2, FailureMoves, ComputedMoves
    <2>4. Step(y)
      BY <1>7 DEF ReadRows
    <2>5. Moves(job, y)
      <3> HIDE DEF z, c
      <3>1. QED
        BY <2>3
    <2> HIDE DEF y
    <2>6. QED
      BY <2>1, <2>4, <2>5, StepMoves
  <1>8. CASE PublishCanonical
    <2> DEFINE f == [p \in DOMAIN job.parts |-> Content(Len(runs), p)]
    <2>1. ~ Idle /\ job.pc = "publish" /\ Step(Published(job.from, f))
      BY <1>8 DEF PublishCanonical, At
    <2> HIDE DEF f
    <2>2. Moves(job, Published(job.from, f))
      BY <2>1, JobIsLast, PublishedMoves
    <2>3. QED
      BY <2>1, <2>2, StepMoves
  <1>9. CASE CheckSelection
    <2>1. ~ Idle /\ job.pc = "check"
      BY <1>9 DEF CheckSelection, At
    <2>2. WellFormed(job)
      BY <2>1, JobIsLast
    <2> DEFINE c == /\ Source = job.from
                    /\ DistinctIds(Source)
                    /\ Len(Source) >= Target
               o == [events |-> SubSeq(SortedById(Source), 1, Target)]
               z == Computed(Source, o)
               y == IF c THEN z ELSE SelectionFailed
    <2>3. Moves(job, z) /\ Moves(job, SelectionFailed)
      <3> HIDE DEF o
      <3>1. QED
        BY <2>1, <2>2, FailureMoves, ComputedMoves
    <2>4. Step(y)
      BY <1>9 DEF CheckSelection
    <2>5. Moves(job, y)
      <3> HIDE DEF z, c
      <3>1. QED
        BY <2>3
    <2> HIDE DEF y
    <2>6. QED
      BY <2>1, <2>4, <2>5, StepMoves
  <1>10. CASE PublishSelection
    <2>1. ~ Idle /\ job.pc = "publish" /\ Step(Published(job.from, job.out))
      BY <1>10 DEF PublishSelection, At
    <2>2. Moves(job, Published(job.from, job.out))
      BY <2>1, JobIsLast, PublishedMoves
    <2>3. QED
      BY <2>1, <2>2, StepMoves
  <1>11. CASE CheckReplaySource
    <2>1. ~ Idle /\ job.pc = "check"
      BY <1>11 DEF CheckReplaySource, At
    <2>2. WellFormed(job)
      BY <2>1, JobIsLast
    <2> DEFINE y == IF Source = job.from THEN [job EXCEPT !.pc = "read"] ELSE ReplayFailed
    <2>3. Moves(job, [job EXCEPT !.pc = "read"]) /\ Moves(job, ReplayFailed)
      BY <2>1, <2>2, FailureMoves, ReadMoves
    <2>4. Step(y) /\ Moves(job, y)
      BY <1>11, <2>3 DEF CheckReplaySource
    <2> HIDE DEF y
    <2>5. QED
      BY <2>1, <2>4, StepMoves
  <1>12. CASE GenerateReplay
    <2>1. ~ Idle /\ job.pc = "read"
      BY <1>12 DEF GenerateReplay, At
    <2>2. WellFormed(job)
      BY <2>1, JobIsLast
    <2> DEFINE n == Len(job.from)
               e == Replayed(SortedById(Source), n)
               c == AreOriginals(Source, n) /\ Len(e) = n * Factor /\ DistinctIds(e)
               o == [events |-> e]
               z == Computed(Source, o)
               y == IF c THEN z ELSE ReplayFailed
    <2>3. Moves(job, z) /\ Moves(job, ReplayFailed)
      <3> HIDE DEF o
      <3>1. QED
        BY <2>1, <2>2, FailureMoves, ComputedMoves
    <2>4. Step(y)
      BY <1>12 DEF GenerateReplay
    <2>5. Moves(job, y)
      <3> HIDE DEF z, c
      <3>1. QED
        BY <2>3
    <2> HIDE DEF y
    <2>6. QED
      BY <2>1, <2>4, <2>5, StepMoves
  <1>13. CASE PublishReplay
    <2>1. ~ Idle /\ job.pc = "publish" /\ Step(Published(job.from, job.out))
      BY <1>13 DEF PublishReplay, At
    <2>2. Moves(job, Published(job.from, job.out))
      BY <2>1, JobIsLast, PublishedMoves
    <2>3. QED
      BY <2>1, <2>2, StepMoves
  <1>14. CASE Classify
    <2>1. ~ Idle /\ job.pc = "read"
      BY <1>14 DEF Classify, At
    <2>2. PICK first \in Numberings(InputFile) :
                 Step(Computed(InputFile, Classified(InputFile, first)))
      BY <1>14 DEF Classify
    <2> DEFINE y == Computed(InputFile, Classified(InputFile, first))
    <2>3. Moves(job, y)
      BY <2>1, JobIsLast, ComputedMoves
    <2>4. Step(y)
      BY <2>2
    <2> HIDE DEF y
    <2>5. QED
      BY <2>1, <2>3, <2>4, StepMoves
  <1>15. CASE PublishSilver
    <2>1. ~ Idle /\ job.pc = "publish"
      BY <1>15 DEF PublishSilver, At
    <2>2. WellFormed(job)
      BY <2>1, JobIsLast
    <2> DEFINE c == /\ job.out["silver"] # <<>>
                    /\ \A p \in DOMAIN job.parts : Len(Content(Len(runs), p)) = Len(job.out[p])
               o == [p \in {} |-> <<>>]
               z == Published(InputFile, o)
               y == IF c THEN z ELSE SilverFailed
    <2>3. Moves(job, z) /\ Moves(job, SilverFailed)
      <3> HIDE DEF o
      <3>1. QED
        BY <2>1, <2>2, FailureMoves, PublishedMoves
    <2>4. Step(y)
      BY <1>15 DEF PublishSilver
    <2>5. Moves(job, y)
      <3> HIDE DEF z, c
      <3>1. QED
        BY <2>3
    <2> HIDE DEF y
    <2>6. QED
      BY <2>1, <2>4, <2>5, StepMoves
  <1>16. CASE CheckSilver
    <2>1. ~ Idle /\ job.pc = "check"
      BY <1>16 DEF CheckSilver, At
    <2>2. WellFormed(job)
      BY <2>1, JobIsLast
    <2> DEFINE c == Len(Source) = GateSize /\ DistinctIds(Source)
               z == [job EXCEPT !.input = Source, !.pc = "write"]
               y == IF c THEN z ELSE GoldFailed
    <2>3. Moves(job, z) /\ Moves(job, GoldFailed)
      BY <2>1, <2>2, FailureMoves, ReadMoves
    <2>4. Step(y)
      BY <1>16 DEF CheckSilver
    <2>5. Moves(job, y)
      <3> HIDE DEF z, c
      <3>1. QED
        BY <2>3
    <2> HIDE DEF y
    <2>6. QED
      BY <2>1, <2>4, <2>5, StepMoves
  <1>17. CASE WriteGold
    <2>1. ~ Idle /\ job.pc = "write" /\ Step(Put(Source))
      BY <1>17 DEF WriteGold, At
    <2>2. Moves(job, Put(Source))
      BY <2>1, JobIsLast, PutMoves
    <2>3. QED
      BY <2>1, <2>2, StepMoves
  <1>18. CASE PublishGold
    <2>1. ~ Idle /\ job.pc = "publish"
      BY <1>18 DEF PublishGold, At
    <2>2. WellFormed(job)
      BY <2>1, JobIsLast
    <2> DEFINE o == [p \in DOMAIN job.parts |-> Content(Len(runs), p)]
               c == \A p \in DOMAIN o : Len(o[p]) = Len(job.input)
               z == Published(job.input, o)
               y == IF c THEN z ELSE GoldFailed
    <2>3. Moves(job, z) /\ Moves(job, GoldFailed)
      <3> HIDE DEF o
      <3>1. QED
        BY <2>1, <2>2, FailureMoves, PublishedMoves
    <2>4. Step(y)
      BY <1>18 DEF PublishGold
    <2>5. Moves(job, y)
      <3> HIDE DEF z, c
      <3>1. QED
        BY <2>3
    <2> HIDE DEF y
    <2>6. QED
      BY <2>1, <2>4, <2>5, StepMoves
  <1>19. CASE WritePart
    <2>1. ~ Idle /\ job.pc = "write" /\ Step(Put(job.out[NextPart]))
      BY <1>19 DEF WritePart
    <2>2. Moves(job, Put(job.out[NextPart]))
      BY <2>1, JobIsLast, PutMoves
    <2>3. QED
      BY <2>1, <2>2, StepMoves
  <1>20. QED
    BY <1>1, <1>2, <1>3, <1>4, <1>5, <1>6, <1>7, <1>8, <1>9, <1>10, <1>11, <1>12, <1>13,
       <1>14, <1>15, <1>16, <1>17, <1>18, <1>19 DEF Work, RequestCsv

\* Where the parts in place stand after an exception or a crash.
LEMMA LeftoverParts ==
  ASSUME WellFormed(job), NEW left \in Leftovers
  PROVE  /\ \/ DOMAIN left = DOMAIN job.parts
            \/ job.pc = "write" /\ DOMAIN left = DOMAIN job.parts \union {NextOf(job)}
         /\ \A p \in DOMAIN job.parts : left[p] = job.parts[p]
  <1>1. CASE left = job.parts
    BY <1>1
  <1>2. CASE left # job.parts
    <2>1. job.pc = "write" /\ \E c : left = WithPart(job.parts, NextPart, c)
      BY <1>2 DEF Leftovers
    <2>2. PICK c : left = WithPart(job.parts, NextPart, c)
      BY <2>1
    <2>3. NextPart = NextOf(job)
      BY DEF NextPart, NextOf
    <2>4. NextOf(job) \notin DOMAIN job.parts
      BY <2>1, NextIsMissing
    <2>5. DOMAIN left = DOMAIN job.parts \union {NextOf(job)}
      BY <2>2, <2>3 DEF WithPart
    <2>6. \A p \in DOMAIN job.parts : left[p] = job.parts[p]
      BY <2>2, <2>3, <2>4 DEF WithPart
    <2>7. QED
      BY <2>1, <2>5, <2>6
  <1>3. QED
    BY <1>1, <1>2

\* A run that fails ends; only one that has everything in place may say SUCCEEDED.
LEMMA FailedIs ==
  ASSUME WellFormed(job)
  PROVE  \/ \E status \in {"NONE", "FAILED"} : Failed = End(status)
         \/ job.pc = "publish" /\ Failed = Published(job.input, job.out)
  <1>1. job.stage \in Stages
    BY DEF WellFormed
  <1>2. QED
    BY <1>1 DEF Failed, Stages, Published, ExtractionFailed,
       CanonicalizationFailed, SelectionFailed, ReplayFailed, SilverFailed, GoldFailed

\* An exception and a crash move the run in work on too.
LEMMA TroubleMoves ==
  ASSUME WellFormed(job), NEW left \in Leftovers
  PROVE  /\ Moves(job, [Failed EXCEPT !.parts = left])
         /\ Moves(job, [job EXCEPT !.pc = "crashed", !.parts = left])
  <1> DEFINE x == job
  <1>1. x = [f \in Fields |-> x[f]]
    BY DEF WellFormed, IsRun
  <1>2. /\ \/ DOMAIN left = DOMAIN x.parts
           \/ x.pc = "write" /\ DOMAIN left = DOMAIN x.parts \union {NextOf(x)}
        /\ \A p \in DOMAIN x.parts : left[p] = x.parts[p]
    BY LeftoverParts
  <1>3. Moves(job, [job EXCEPT !.pc = "crashed", !.parts = left])
    <2> DEFINE z == [x EXCEPT !.pc = "crashed", !.parts = left]
    <2> HIDE DEF x
    <2>1. SameRun(x, z)
      BY <1>1, <1>2 DEF SameRun, IsRun, Fields
    <2>2. z.attempt = x.attempt /\ z.pc = "crashed" /\ z.status = x.status /\ z.parts = left
      BY <1>1 DEF Fields
    <2> HIDE DEF z
    <2>3. Moves(x, z)
      BY <2>1, <2>2, <1>2 DEF Moves, Ends
    <2>4. QED
      BY <2>3 DEF x, z
  <1>4. ASSUME NEW status \in {"NONE", "FAILED"}
        PROVE  Moves(job, [End(status) EXCEPT !.parts = left])
    <2> DEFINE w == [x EXCEPT !.pc = "ended", !.status = status]
               z == [w EXCEPT !.parts = left]
    <2>0. End(status) = w
      BY DEF End
    <2> HIDE DEF x
    <2>1. SameRun(x, z)
      BY <1>1, <1>2 DEF SameRun, IsRun, Fields
    <2>2. z.attempt = x.attempt /\ z.pc = "ended" /\ z.status = status /\ z.parts = left
      BY <1>1 DEF Fields
    <2> HIDE DEF z
    <2>3. Moves(x, z)
      BY <2>1, <2>2, <1>2 DEF Moves, Ends
    <2>4. QED
      BY <2>0, <2>3 DEF x, z
  <1>5. ASSUME job.pc = "publish"
        PROVE  Moves(job, [Published(job.input, job.out) EXCEPT !.parts = left])
    <2> DEFINE w == [[x EXCEPT !.pc = "ended", !.status = "SUCCEEDED"]
                        EXCEPT !.from = x.input, !.recorded = x.out]
               z == [w EXCEPT !.parts = left]
    <2>0. Published(job.input, job.out) = w /\ x.pc = "publish"
      BY <1>5 DEF Published, End
    <2> HIDE DEF x
    <2>1. SameRun(x, z)
      BY <1>1, <1>2 DEF SameRun, IsRun, Fields
    <2>2. z.attempt = x.attempt /\ z.pc = "ended" /\ z.status = "SUCCEEDED" /\ z.parts = left
      BY <1>1 DEF Fields
    <2> HIDE DEF z
    <2>3. Moves(x, z)
      BY <2>0, <2>1, <2>2, <1>2 DEF Moves, Ends
    <2>4. QED
      BY <2>0, <2>3 DEF x, z
  <1>6. QED
    BY <1>3, <1>4, <1>5, FailedIs

\* They count as trouble and replace no file.
LEMMA ExceptionMoves ==
  ASSUME RunsFormed, Exception \/ Crash
  PROVE  LastMoves /\ MoreTrouble /\ faults' = faults + 1 /\ UNCHANGED damage
  <1>1. CASE Exception
    <2>1. ~ Idle /\ MoreTrouble /\ faults' = faults + 1 /\ UNCHANGED damage
      BY <1>1 DEF Exception
    <2>2. PICK left \in Leftovers :
                 runs' = [runs EXCEPT ![Len(runs)] = [Failed EXCEPT !.parts = left]]
      BY <1>1 DEF Exception
    <2>3. Moves(job, [Failed EXCEPT !.parts = left])
      BY <2>1, JobIsLast, TroubleMoves
    <2>4. QED
      BY <2>1, <2>2, <2>3 DEF LastMoves
  <1>2. CASE Crash
    <2>1. ~ Idle /\ MoreTrouble /\ faults' = faults + 1 /\ UNCHANGED damage
      BY <1>2 DEF Crash
    <2>2. PICK left \in Leftovers :
            runs' = [runs EXCEPT ![Len(runs)] = [job EXCEPT !.pc = "crashed", !.parts = left]]
      BY <1>2 DEF Crash
    <2>3. Moves(job, [job EXCEPT !.pc = "crashed", !.parts = left])
      BY <2>1, JobIsLast, TroubleMoves
    <2>4. QED
      BY <2>1, <2>2, <2>3 DEF LastMoves
  <1>3. QED
    BY <1>1, <1>2

-----------------------------------------------------------------------------
\* A run begins.
Fresh(y, r) ==
  /\ IsRun(y) /\ y.stage \in Stages /\ y.src \in 0..(r - 1)
  /\ y.pc \in {"request", "check", "read"} /\ y.attempt = 1
  /\ y.parts = <<>> /\ y.status = "NONE"

\* A run begins at the first attempt, with nothing in place.
LEMMA NewRunIsFresh ==
  ASSUME NEW stage \in Stages, NEW src \in Nat, NEW pc \in {"request", "check", "read"},
         NEW from, NEW r \in Nat, src < r
  PROVE  /\ Fresh(NewRun(stage, src, pc), r)
         /\ Fresh([NewRun(stage, src, pc) EXCEPT !.from = from], r)
  <1> DEFINE y == NewRun(stage, src, pc)
             z == [y EXCEPT !.from = from]
  <1>1. IsRun(y)
    BY DEF NewRun, IsRun, Fields
  <1>2. y.stage = stage /\ y.src = src /\ y.pc = pc /\ y.attempt = 1 /\ y.parts = <<>>
          /\ y.status = "NONE"
    BY DEF NewRun
  <1> HIDE DEF y
  <1>3. IsRun(z) /\ z.stage = stage /\ z.src = src /\ z.pc = pc /\ z.attempt = 1
          /\ z.parts = <<>> /\ z.status = "NONE"
    BY <1>1, <1>2 DEF IsRun, Fields
  <1> HIDE DEF z
  <1>4. Fresh(y, r) /\ Fresh(z, r)
    BY <1>1, <1>2, <1>3 DEF Fresh
  <1>5. QED
    BY <1>4 DEF y, z

\* Whatever the operator or the DAG starts begins so, and only when nothing is in work.
LEMMA StartBegins ==
  ASSUME RunsFormed, Start
  PROVE  /\ Idle /\ UNCHANGED <<damage, faults>>
         /\ \E y : Fresh(y, Len(runs) + 1) /\ runs' = Append(runs, y)
  <1>1. DOMAIN runs = 1..Len(runs) /\ Len(runs) \in Nat
    BY DEF RunsFormed
  <1>2. ASSUME NEW y, Begin(y), Fresh(y, Len(runs) + 1)
        PROVE  /\ Idle /\ UNCHANGED <<damage, faults>>
               /\ \E z : Fresh(z, Len(runs) + 1) /\ runs' = Append(runs, z)
    BY <1>2 DEF Begin
  <1>3. ASSUME NEW from
        PROVE  /\ Fresh(NewRun("extraction", 0, "request"), Len(runs) + 1)
               /\ Fresh([NewRun("silver", 0, "read") EXCEPT !.from = from], Len(runs) + 1)
    <2>1. Len(runs) + 1 \in Nat /\ 0 \in Nat /\ 0 < Len(runs) + 1
      BY <1>1
    <2>2. "extraction" \in Stages /\ "silver" \in Stages
      BY DEF Stages
    <2>3. "request" \in {"request", "check", "read"} /\ "read" \in {"request", "check", "read"}
      OBVIOUS
    <2>4. QED
      BY <2>1, <2>2, <2>3, NewRunIsFresh
  <1>4. ASSUME NEW src \in DOMAIN runs, Canonicalize(src) \/ ProcessBatch(src) \/ BuildGold(src)
        PROVE  \E stage \in Stages, pc \in {"request", "check", "read"} :
                 Begin(NewRun(stage, src, pc))
    BY <1>4 DEF Canonicalize, ProcessBatch, BuildGold, Stages
  <1>5. ASSUME NEW src \in DOMAIN runs, Select(src) \/ Generate(src)
        PROVE  \E stage \in Stages, pc \in {"request", "check", "read"} :
                 Begin([NewRun(stage, src, pc) EXCEPT !.from = runs[src].recorded["events"]])
    BY <1>5 DEF Select, Generate, Stages
  <1>6. ASSUME NEW src \in DOMAIN runs, NEW stage \in Stages,
                 NEW pc \in {"request", "check", "read"}
        PROVE  /\ Fresh(NewRun(stage, src, pc), Len(runs) + 1)
               /\ Fresh([NewRun(stage, src, pc) EXCEPT !.from = runs[src].recorded["events"]],
                    Len(runs) + 1)
    <2>1. src \in Nat /\ src < Len(runs) + 1 /\ Len(runs) + 1 \in Nat
      BY <1>1
    <2>2. QED
      BY <2>1, NewRunIsFresh
  <1>7. ASSUME NEW file \in HandMade, ProcessHandMade(file)
        PROVE  \E y : Begin(y) /\ Fresh(y, Len(runs) + 1)
    <2> DEFINE y == [NewRun("silver", 0, "read") EXCEPT !.from = file]
    <2>1. Begin(y)
      BY <1>7 DEF ProcessHandMade
    <2>2. Fresh(y, Len(runs) + 1)
      BY <1>3
    <2> HIDE DEF y
    <2>3. QED
      BY <2>1, <2>2
  <1>8. \E y : Begin(y) /\ Fresh(y, Len(runs) + 1)
    <2>1. ASSUME NEW src \in DOMAIN runs, Canonicalize(src) \/ ProcessBatch(src) \/ BuildGold(src)
          PROVE  \E y : Begin(y) /\ Fresh(y, Len(runs) + 1)
      BY <1>4, <1>6, <2>1
    <2>2. ASSUME NEW src \in DOMAIN runs, Select(src) \/ Generate(src)
          PROVE  \E y : Begin(y) /\ Fresh(y, Len(runs) + 1)
      BY <1>5, <1>6, <2>2
    <2>3. CASE Extract
      <3> DEFINE y == NewRun("extraction", 0, "request")
      <3>1. Begin(y)
        BY <2>3 DEF Extract
      <3>2. Fresh(y, Len(runs) + 1)
        BY <1>3
      <3> HIDE DEF y
      <3>3. QED
        BY <3>1, <3>2
    <2>4. QED
      BY <1>7, <2>1, <2>2, <2>3 DEF Start
  <1>9. QED
    BY <1>2, <1>8

\* A run that begins is well formed.
LEMMA FreshIsFormed ==
  ASSUME NEW y, NEW r \in Nat \ {0}, Fresh(y, r)
  PROVE  WellFormed(y) /\ y.src < r
  <1>1. Len(PartsOf[y.stage]) \in 1..3
    BY PartsAreFew DEF Fresh
  <1>2. InPlace(y.stage, 0) = {} /\ DOMAIN y.parts = {}
    BY DEF InPlace, Fresh
  <1>3. Written(y)
    BY <1>1, <1>2 DEF Written, Fresh
  <1>4. QED
    BY <1>3, LakeAssumption DEF Fresh, WellFormed, Pcs

\* A file is replaced; the last run may have been using it.
Raced(x) == [x EXCEPT !.raced = TRUE]

\* When a file is replaced, nothing of a run changes but what it is said to have met.
LEMMA DamageChanges ==
  ASSUME RunsFormed, NEW r \in DOMAIN runs, NEW p \in DOMAIN runs[r].parts, Damage(r, p)
  PROVE  /\ UNCHANGED faults /\ MoreTrouble
         /\ \E d : d.run = r /\ d.part = p /\ damage' = damage \union {d}
         /\ \/ UNCHANGED runs
            \/ Len(runs) # 0 /\ runs' = [runs EXCEPT ![Len(runs)] = Raced(runs[Len(runs)])]
  <1>1. UNCHANGED faults /\ MoreTrouble
    BY DEF Damage
  <1>2. \E d : d.run = r /\ d.part = p /\ damage' = damage \union {d}
    <2>1. PICK c : damage' = damage \union {[run |-> r, part |-> p, content |-> c]}
      BY DEF Damage
    <2>2. QED
      BY <2>1
  <1>3. DOMAIN runs = 1..Len(runs) /\ Len(runs) \in Nat
    BY DEF RunsFormed
  <1>4. Len(runs) # 0
    BY <1>3
  <1>5. runs' = runs \/ runs' = [runs EXCEPT ![Len(runs)].raced = TRUE]
    BY DEF Damage
  <1>6. QED
    BY <1>1, <1>2, <1>4, <1>5 DEF Raced

\* A run that a replacement has met is otherwise as it was.
LEMMA RacedKeepsForm ==
  ASSUME NEW x, WellFormed(x)
  PROVE  /\ WellFormed(Raced(x))
         /\ Raced(x).parts = x.parts /\ Raced(x).pc = x.pc /\ Raced(x).src = x.src
         /\ [Raced(x) EXCEPT !.raced = x.raced] = x
  <1>1. x = [f \in Fields |-> x[f]]
    BY DEF WellFormed, IsRun
  <1>2. Raced(x) = [f \in Fields |-> IF f = "raced" THEN TRUE ELSE x[f]]
    BY <1>1 DEF Raced
  <1>3. \A f \in Fields \ {"raced"} : Raced(x)[f] = x[f]
    BY <1>2
  <1>4. /\ Raced(x).stage = x.stage /\ Raced(x).src = x.src /\ Raced(x).pc = x.pc
        /\ Raced(x).attempt = x.attempt /\ Raced(x).parts = x.parts /\ Raced(x).status = x.status
    BY <1>3 DEF Fields
  <1>5. IsRun(Raced(x))
    BY <1>2 DEF IsRun
  <1>6. [Raced(x) EXCEPT !.raced = x.raced] = x
    <2>1. [Raced(x) EXCEPT !.raced = x.raced] = [f \in Fields |-> x[f]]
      BY <1>2
    <2>2. QED
      BY <1>1, <2>1
  <1>7. WellFormed(Raced(x))
    BY <1>4, <1>5 DEF WellFormed, Written
  <1>8. QED
    BY <1>4, <1>6, <1>7

-----------------------------------------------------------------------------
\* The four ways in which a step changes the runs: not at all,
NothingElse == UNCHANGED runs

\* by one run more, while none is at work,
Begins == Idle /\ \E y : Fresh(y, Len(runs) + 1) /\ runs' = Append(runs, y)

\* by a replaced file that the last one has met, or by a move of the last one.
Races == Len(runs) # 0 /\ runs' = [runs EXCEPT ![Len(runs)] = Raced(runs[Len(runs)])]

\* One of the four.
Changes == NothingElse \/ Begins \/ LastMoves \/ Races

\* Each of the four keeps the runs well formed, takes nothing away that is in place,
\* and leaves less ahead of a run that it changes.
LEMMA ChangesKeepRuns ==
  ASSUME RunsFormed, Changes
  PROVE  /\ RunsFormed'
         /\ \A r \in 1..Len(runs) :
              /\ r \in 1..Len(runs')
              /\ DOMAIN runs[r].parts \subseteq DOMAIN runs'[r].parts
              /\ [runs'[r] EXCEPT !.raced = runs[r].raced] # runs[r]
                   => Ahead(runs'[r]) < Ahead(runs[r])
  <1> DEFINE Same(r) == /\ DOMAIN runs[r].parts \subseteq DOMAIN runs'[r].parts
                        /\ [runs'[r] EXCEPT !.raced = runs[r].raced] # runs[r]
                              => Ahead(runs'[r]) < Ahead(runs[r])
  <1>1. /\ \E S : runs \in Seq(S)
        /\ DOMAIN runs = 1..Len(runs) /\ Len(runs) \in Nat
    BY DEF RunsFormed
  <1>2. ASSUME NEW r \in 1..Len(runs)
        PROVE  WellFormed(runs[r]) /\ runs[r].src < r
                 /\ (r < Len(runs) => runs[r].pc \in {"ended", "crashed"})
    BY <1>2 DEF RunsFormed, Ended
  <1>3. ASSUME NEW r \in 1..Len(runs), runs'[r] = runs[r]
        PROVE  Same(r)
    <2>1. runs[r] = [f \in Fields |-> runs[r][f]]
      BY <1>2 DEF WellFormed, IsRun
    <2>2. [runs[r] EXCEPT !.raced = runs[r].raced] = runs[r]
      BY <2>1
    <2>3. QED
      BY <1>3, <2>2
  <1>4. SUFFICES /\ \E S : runs' \in Seq(S)
                 /\ Len(runs') \in {Len(runs), Len(runs) + 1}
                 /\ \A r \in 1..Len(runs') :
                      /\ WellFormed(runs'[r]) /\ runs'[r].src < r
                      /\ r < Len(runs') => runs'[r].pc \in {"ended", "crashed"}
                      /\ r \in 1..Len(runs) => Same(r)
    <2>1. (\E S : runs \in Seq(S))' <=> \E S : runs' \in Seq(S)
      OBVIOUS
    <2>2. \A r : Ended(r)' <=> runs'[r].pc \in {"ended", "crashed"}
      BY DEF Ended
    <2>3. \A r : WellFormed(runs[r])' <=> WellFormed(runs'[r])
      BY DEF WellFormed, IsRun, Written
    <2>4. RunsFormed'
      BY <1>4, <2>1, <2>2, <2>3 DEF RunsFormed
    <2>5. \A r \in 1..Len(runs) : r \in 1..Len(runs')
      BY <1>1, <1>4
    <2>6. QED
      BY <1>4, <2>4, <2>5
  <1>5. CASE NothingElse
    <2>1. runs' = runs
      BY <1>5 DEF NothingElse
    <2>2. QED
      BY <1>1, <1>2, <1>3, <2>1
  <1>6. CASE Begins
    <2>1. PICK y : Fresh(y, Len(runs) + 1) /\ runs' = Append(runs, y)
      BY <1>6 DEF Begins
    <2>2. /\ \E S : runs' \in Seq(S)
          /\ Len(runs') = Len(runs) + 1
          /\ runs'[Len(runs) + 1] = y
          /\ \A r \in 1..Len(runs) : runs'[r] = runs[r]
      BY <1>1, <2>1, AppendRun
    <2>3. WellFormed(y) /\ y.src < Len(runs) + 1
      BY <1>1, <2>1, FreshIsFormed
    <2>4. \A r \in 1..Len(runs) : runs[r].pc \in {"ended", "crashed"}
      BY <1>1, <1>6 DEF Begins, Idle, Ended
    <2>5. ASSUME NEW r \in 1..Len(runs')
          PROVE  /\ WellFormed(runs'[r]) /\ runs'[r].src < r
                 /\ r < Len(runs') => runs'[r].pc \in {"ended", "crashed"}
                 /\ r \in 1..Len(runs) => Same(r)
      <3>1. CASE r \in 1..Len(runs)
        BY <1>2, <1>3, <2>2, <2>4, <3>1
      <3>2. CASE r = Len(runs) + 1
        <4>1. r \notin 1..Len(runs) /\ ~ (r < Len(runs'))
          BY <1>1, <2>2, <3>2
        <4>2. QED
          BY <2>2, <2>3, <3>2, <4>1
      <3>3. QED
        BY <1>1, <2>2, <3>1, <3>2
    <2>6. QED
      BY <2>2, <2>5
  <1>7. ASSUME NEW y, Len(runs) # 0, runs' = [runs EXCEPT ![Len(runs)] = y],
               WellFormed(y), y.src = runs[Len(runs)].src,
               DOMAIN runs[Len(runs)].parts \subseteq DOMAIN y.parts,
               [y EXCEPT !.raced = runs[Len(runs)].raced] # runs[Len(runs)]
                  => Ahead(y) < Ahead(runs[Len(runs)])
        PROVE  /\ \E S : runs' \in Seq(S)
               /\ Len(runs') = Len(runs)
               /\ \A r \in 1..Len(runs') :
                    /\ WellFormed(runs'[r]) /\ runs'[r].src < r
                    /\ r < Len(runs') => runs'[r].pc \in {"ended", "crashed"}
                    /\ Same(r)
    <2>1. Len(runs) \in 1..Len(runs)
      BY <1>1, <1>7
    <2>2. /\ \E S : runs' \in Seq(S)
          /\ Len(runs') = Len(runs)
          /\ \A r \in 1..Len(runs) : runs'[r] = IF r = Len(runs) THEN y ELSE runs[r]
      BY <1>1, <1>7, <2>1, ReplaceRun
    <2>3. ASSUME NEW r \in 1..Len(runs')
          PROVE  /\ WellFormed(runs'[r]) /\ runs'[r].src < r
                 /\ r < Len(runs') => runs'[r].pc \in {"ended", "crashed"}
                 /\ Same(r)
      <3>1. CASE r # Len(runs)
        BY <1>2, <1>3, <2>2, <3>1
      <3>2. CASE r = Len(runs)
        <4>3. Len(runs') = Len(runs)
          BY <2>2
        <4>4. r \in 1..Len(runs)
          BY <4>3
        <4>5. ~ (Len(runs) < Len(runs))
          BY <4>4
        <4>0. r \in 1..Len(runs) /\ Len(runs') = Len(runs) /\ ~ (Len(runs) < Len(runs))
          BY <4>3, <4>4, <4>5
        <4>1. runs'[r] = y /\ ~ (r < Len(runs'))
          BY <2>2, <3>2, <4>0
        <4>2. Same(r)
          BY <1>7, <3>2, <4>1
        <4>6. runs[r].src < r
          BY <1>2, <4>4
        <4>7. QED
          BY <1>7, <3>2, <4>1, <4>2, <4>6
      <3>3. QED
        BY <3>1, <3>2
    <2>4. QED
      BY <2>2, <2>3
  <1>8. CASE LastMoves
    <2>1. PICK y : Moves(job, y) /\ runs' = [runs EXCEPT ![Len(runs)] = y]
      BY <1>8 DEF LastMoves
    <2>2. Len(runs) # 0 /\ job = runs[Len(runs)] /\ WellFormed(job)
            /\ job.pc \notin {"ended", "crashed"}
      BY <1>1, <1>8, JobIsLast DEF LastMoves
    <2>3. WellFormed(y) /\ DOMAIN job.parts \subseteq DOMAIN y.parts /\ Ahead(y) < Ahead(job)
      BY <2>1, <2>2, MovesKeepForm
    <2>4. y.src = job.src
      BY <2>1 DEF Moves, SameRun
    <2>5. QED
      BY <1>7, <2>1, <2>2, <2>3, <2>4
  <1>9. CASE Races
    <2> DEFINE y == Raced(runs[Len(runs)])
    <2>1. Len(runs) # 0 /\ runs' = [runs EXCEPT ![Len(runs)] = y]
      BY <1>9 DEF Races
    <2>2. WellFormed(runs[Len(runs)])
      BY <1>1, <1>2, <2>1
    <2>3. /\ WellFormed(y) /\ y.src = runs[Len(runs)].src /\ y.parts = runs[Len(runs)].parts
          /\ [y EXCEPT !.raced = runs[Len(runs)].raced] = runs[Len(runs)]
      BY <2>2, RacedKeepsForm
    <2> HIDE DEF y
    <2>4. QED
      BY <1>7, <2>1, <2>3
  <1>10. QED
    BY <1>5, <1>6, <1>8, <1>9 DEF Changes

\* What a step of the lake does to the runs and to the trouble.
Steps ==
  /\ Changes
  /\ \/ UNCHANGED <<damage, faults>>
     \/ MoreTrouble /\ faults' = faults + 1 /\ UNCHANGED damage
     \/ /\ MoreTrouble /\ UNCHANGED faults
        /\ \E r \in 1..Len(runs) : \E p \in DOMAIN runs[r].parts : \E d :
             d.run = r /\ d.part = p /\ damage' = damage \union {d}

\* Every step is one of those.
LEMMA NextSteps ==
  ASSUME RunsFormed, [Next]_vars
  PROVE  Steps
  <1>1. DOMAIN runs = 1..Len(runs)
    BY DEF RunsFormed
  <1>2. CASE Start
    <2>1. Begins /\ UNCHANGED <<damage, faults>>
      BY <1>2, StartBegins DEF Begins
    <2>2. QED
      BY <2>1 DEF Steps, Changes
  <1>3. CASE Work
    <2>1. LastMoves /\ UNCHANGED <<damage, faults>>
      BY <1>3, WorkMoves
    <2>2. QED
      BY <2>1 DEF Steps, Changes
  <1>4. CASE Exception \/ Crash
    <2>1. LastMoves /\ MoreTrouble /\ faults' = faults + 1 /\ UNCHANGED damage
      BY <1>4, ExceptionMoves
    <2>2. QED
      BY <2>1 DEF Steps, Changes
  <1>5. CASE UNCHANGED vars
    BY <1>5 DEF Steps, Changes, NothingElse, vars
  <1>6. CASE \E r \in DOMAIN runs : \E p \in DOMAIN runs[r].parts : Damage(r, p)
    <2>0. PICK r \in DOMAIN runs : \E p \in DOMAIN runs[r].parts : Damage(r, p)
      BY <1>6
    <2>1. PICK p \in DOMAIN runs[r].parts : Damage(r, p)
      BY <2>0
    <2>2. /\ UNCHANGED faults /\ MoreTrouble
          /\ \E d : d.run = r /\ d.part = p /\ damage' = damage \union {d}
          /\ \/ UNCHANGED runs
             \/ Len(runs) # 0 /\ runs' = [runs EXCEPT ![Len(runs)] = Raced(runs[Len(runs)])]
      BY <2>1, DamageChanges
    <2>3. Changes
      BY <2>2 DEF Changes, NothingElse, Races
    <2>4. QED
      BY <1>1, <2>1, <2>2, <2>3 DEF Steps
  <1>7. QED
    BY <1>2, <1>3, <1>4, <1>5, <1>6 DEF Next, Rest

\* An empty lake.
LEMMA LakeInitially == Init => LakeInv
  <1> SUFFICES ASSUME Init PROVE LakeInv
    OBVIOUS
  <1>1. runs = <<>> /\ damage = {} /\ faults = 0
    BY DEF Init
  <1>2. runs \in Seq({})
    BY <1>1
  <1>3. RunsFormed
    BY <1>1, <1>2 DEF RunsFormed
  <1>4. IsFiniteSet(damage) /\ Cardinality(damage) = 0
    BY <1>1, FS_EmptySet
  <1>5. TroubleFormed
    BY <1>1, <1>4, LakeAssumption DEF TroubleFormed
  <1>6. QED
    BY <1>3, <1>5 DEF LakeInv

\* Every step keeps the invariant.
LEMMA LakeStep == LakeInv /\ [Next]_vars => LakeInv'
  <1> SUFFICES ASSUME LakeInv, [Next]_vars PROVE LakeInv'
    OBVIOUS
  <1>1. RunsFormed /\ TroubleFormed
    BY DEF LakeInv
  <1>2. Steps
    BY <1>1, NextSteps
  <1>3. /\ RunsFormed'
        /\ \A r \in 1..Len(runs) :
             r \in 1..Len(runs') /\ DOMAIN runs[r].parts \subseteq DOMAIN runs'[r].parts
    BY <1>1, <1>2, ChangesKeepRuns DEF Steps
  <1>4. /\ faults \in Nat /\ IsFiniteSet(damage) /\ Cardinality(damage) \in Nat
        /\ faults + Cardinality(damage) <= MaxTrouble
        /\ \A d \in damage : d.run \in 1..Len(runs) /\ d.part \in DOMAIN runs[d.run].parts
    BY <1>1, FS_CardinalityType DEF TroubleFormed
  <1>5. /\ faults' \in Nat /\ IsFiniteSet(damage')
        /\ faults' + Cardinality(damage') <= MaxTrouble
        /\ \A d \in damage' : d.run \in 1..Len(runs) /\ d.part \in DOMAIN runs[d.run].parts
    <2>1. CASE UNCHANGED <<damage, faults>>
      BY <1>4, <2>1
    <2>2. CASE MoreTrouble /\ faults' = faults + 1 /\ UNCHANGED damage
      <3>1. damage' = damage /\ faults' = faults + 1 /\ faults + Cardinality(damage) < MaxTrouble
        BY <2>2 DEF MoreTrouble
      <3>2. QED
        BY <1>4, <3>1, LakeAssumption
    <2>3. ASSUME MoreTrouble /\ UNCHANGED faults,
                 NEW r \in 1..Len(runs), NEW p \in DOMAIN runs[r].parts, NEW d,
                 d.run = r /\ d.part = p /\ damage' = damage \union {d}
          PROVE  /\ faults' \in Nat /\ IsFiniteSet(damage')
                 /\ faults' + Cardinality(damage') <= MaxTrouble
                 /\ \A e \in damage' : e.run \in 1..Len(runs) /\ e.part \in DOMAIN runs[e.run].parts
      <3>1. faults' = faults /\ faults + Cardinality(damage) < MaxTrouble
        BY <2>3 DEF MoreTrouble
      <3>2. IsFiniteSet(damage')
              /\ Cardinality(damage') \in {Cardinality(damage), Cardinality(damage) + 1}
        BY <1>4, <2>3, FS_AddElement
      <3>3. faults' + Cardinality(damage') <= MaxTrouble
        BY <1>4, <3>1, <3>2, LakeAssumption
      <3>4. \A e \in damage' : e.run \in 1..Len(runs) /\ e.part \in DOMAIN runs[e.run].parts
        BY <1>4, <2>3
      <3>5. QED
        BY <1>4, <3>1, <3>2, <3>3, <3>4
    <2>4. QED
      BY <1>2, <2>1, <2>2, <2>3 DEF Steps
  <1>6. \A d \in damage' : d.run \in 1..Len(runs') /\ d.part \in DOMAIN runs'[d.run].parts
    BY <1>3, <1>5
  <1>7. TroubleFormed'
    BY <1>5, <1>6 DEF TroubleFormed
  <1>8. QED
    BY <1>3, <1>7 DEF LakeInv

\* At any time each run is somewhere in the code of its stage, with the parts in place
\* that it has put there; only the last one may be at work; and trouble is counted
\* (Lake, Init; BatchLake, Next).
THEOREM LakeInvariant == Spec => []LakeInv
  <1>1. QED
    BY LakeInitially, LakeStep, PTL DEF Spec

\* The invariant gives the types.
LEMMA LakeInvTypes == LakeInv => TypeOK
  <1> SUFFICES ASSUME LakeInv PROVE TypeOK
    OBVIOUS
  <1>1. RunsFormed /\ TroubleFormed
    BY DEF LakeInv
  <1>2. DOMAIN runs = 1..Len(runs)
    BY <1>1 DEF RunsFormed
  <1>3. ASSUME NEW r \in DOMAIN runs
        PROVE  /\ runs[r].stage \in DOMAIN PartsOf
               /\ runs[r].pc \in {"request", "wait", "check", "read", "write", "publish",
                                  "ended", "crashed"}
               /\ runs[r].attempt \in 1..MaxAttempts
               /\ runs[r].src \in 0..(r - 1)
               /\ runs[r].status \in {"NONE", "SUCCEEDED", "FAILED"}
               /\ LET order == PartsOf[runs[r].stage] IN
                    \E n \in 0..Len(order) : DOMAIN runs[r].parts = {order[k] : k \in 1..n}
               /\ runs[r].status = "SUCCEEDED" =>
                    DOMAIN runs[r].parts = ToSet(PartsOf[runs[r].stage])
    <2> DEFINE x == runs[r]
    <2>1. WellFormed(x) /\ x.src < r /\ r \in Nat
      BY <1>1, <1>2, <1>3 DEF RunsFormed
    <2> HIDE DEF x
    <2>2. x.stage \in DOMAIN PartsOf
      BY <2>1 DEF WellFormed, Stages, PartsOf
    <2>3. x.src \in 0..(r - 1)
      BY <2>1 DEF WellFormed
    <2>4. \E n \in 0..Len(PartsOf[x.stage]) : DOMAIN x.parts = {PartsOf[x.stage][k] : k \in 1..n}
      BY <2>1 DEF WellFormed, Written, InPlace
    <2>5. ASSUME x.status = "SUCCEEDED"
          PROVE  DOMAIN x.parts = ToSet(PartsOf[x.stage])
      <3>1. DOMAIN x.parts = InPlace(x.stage, Len(PartsOf[x.stage]))
        BY <2>1, <2>5 DEF WellFormed, Written
      <3>2. DOMAIN PartsOf[x.stage] = 1..Len(PartsOf[x.stage])
        BY <2>1 DEF WellFormed, Stages, PartsOf
      <3>3. QED
        BY <3>1, <3>2 DEF InPlace, ToSet
    <2>6. /\ x.pc \in {"request", "wait", "check", "read", "write", "publish",
                       "ended", "crashed"}
          /\ x.attempt \in 1..MaxAttempts
          /\ x.status \in {"NONE", "SUCCEEDED", "FAILED"}
      BY <2>1 DEF WellFormed, Pcs
    <2>7. QED
      BY <2>2, <2>3, <2>4, <2>5, <2>6 DEF x
  <1>4. /\ faults \in Nat /\ faults + Cardinality(damage) <= MaxTrouble
        /\ \A d \in damage : d.run \in DOMAIN runs /\ d.part \in DOMAIN runs[d.run].parts
    BY <1>1, <1>2 DEF TroubleFormed
  <1>5. QED
    BY <1>3, <1>4 DEF TypeOK

\* Every variable has its type: among other things, the parts of an artifact appear
\* in the order of the code, and a manifest that says SUCCEEDED has all of them
\* (write_bytes_atomically and the manifest last, in extractor.py,
\* canonicalization.py, scale_gate_selection.py, generator.py; run_batch; build.run).
THEOREM TypeCorrect == Spec => []TypeOK
  <1>1. QED
    BY LakeInvariant, LakeInvTypes, PTL

\* No step of a run leads back, with any number of attempts: the retry loop of the
\* extractor is bounded, no stage checks or writes anything twice, and a run that has
\* ended is not touched again.
THEOREM RunsAlwaysAdvance == Spec => RunsAdvance
  <1>1. ASSUME LakeInv, [Next]_vars
        PROVE  [\A r \in DOMAIN runs :
                  [runs'[r] EXCEPT !.raced = runs[r].raced] # runs[r]
                     => Ahead(runs'[r]) < Ahead(runs[r])]_vars
    <2>1. RunsFormed /\ Changes
      BY <1>1, NextSteps DEF LakeInv, Steps
    <2>2. DOMAIN runs = 1..Len(runs)
      BY <2>1 DEF RunsFormed
    <2>3. QED
      BY <2>1, <2>2, ChangesKeepRuns
  <1>2. QED
    BY <1>1, LakeInvariant, PTL DEF Spec, RunsAdvance

-----------------------------------------------------------------------------
(* 2. What the stages compute. The scale gate: the smallest ids, in order. *)

\* The elements of a set of numbers that are smaller than one of them.
Below(S, x) == {y \in S : y < x}

\* The elements in order: each of them once, the smallest first.
LEMMA AscendingLists ==
  ASSUME NEW S \in SUBSET Int, IsFiniteSet(S)
  PROVE  LET a == Ascending(S) n == Cardinality(S) IN
         /\ n \in Nat /\ a \in [1..n -> S] /\ a \in Seq(S) /\ Len(a) = n
         /\ \A k, l \in 1..n : k < l => a[k] < a[l]
         /\ \A x \in S : \E k \in 1..n : a[k] = x
  <1> DEFINE n == Cardinality(S)
             rank == [x \in S |-> Cardinality(Below(S, x))]
  <1>1. n \in Nat
    BY FS_CardinalityType
  <1>2. \A x \in S : /\ IsFiniteSet(Below(S, x)) /\ rank[x] \in Nat /\ rank[x] < n
    <2> SUFFICES ASSUME NEW x \in S
                 PROVE  IsFiniteSet(Below(S, x)) /\ rank[x] \in Nat /\ rank[x] < n
      OBVIOUS
    <2>1. Below(S, x) \in SUBSET S /\ x \notin Below(S, x)
      BY DEF Below
    <2>2. /\ IsFiniteSet(Below(S, x)) /\ Cardinality(Below(S, x)) <= Cardinality(S)
          /\ Cardinality(S) = Cardinality(Below(S, x)) => S = Below(S, x)
      BY <2>1, FS_Subset
    <2>3. Cardinality(Below(S, x)) \in Nat /\ rank[x] = Cardinality(Below(S, x))
      BY <2>2, FS_CardinalityType
    <2>4. Cardinality(Below(S, x)) # Cardinality(S)
      BY <2>1, <2>2
    <2> HIDE DEF rank
    <2>5. QED
      BY <1>1, <2>2, <2>3, <2>4
  <1>3. \A x, y \in S : x < y => rank[x] < rank[y]
    <2> SUFFICES ASSUME NEW x \in S, NEW y \in S, x < y
                 PROVE  rank[x] < rank[y]
      OBVIOUS
    <2>1. Below(S, x) \in SUBSET Below(S, y) /\ x \in Below(S, y) /\ x \notin Below(S, x)
      <3>1. x \in Int /\ y \in Int /\ \A z \in S : z \in Int
        OBVIOUS
      <3>2. \A z \in S : z < x => z < y
        BY <3>1
      <3>3. ~ (x < x)
        BY <3>1
      <3>4. QED
        BY <3>2, <3>3 DEF Below
    <2>2. /\ Cardinality(Below(S, x)) <= Cardinality(Below(S, y))
          /\ Cardinality(Below(S, y)) = Cardinality(Below(S, x)) => Below(S, y) = Below(S, x)
      BY <1>2, <2>1, FS_Subset
    <2>3. rank[x] = Cardinality(Below(S, x)) /\ rank[y] = Cardinality(Below(S, y))
          /\ rank[x] \in Nat /\ rank[y] \in Nat
      BY <1>2
    <2> HIDE DEF rank
    <2>4. QED
      BY <2>1, <2>2, <2>3
  <1>4. rank \in Injection(S, 0..(n - 1))
    <2>1. rank \in [S -> 0..(n - 1)]
      <3>1. \A x \in S : rank[x] \in 0..(n - 1)
        <4> HIDE DEF rank, n
        <4>1. QED
          BY <1>1, <1>2
      <3>2. QED
        BY <3>1
    <2>2. \A x, y \in S : rank[x] = rank[y] => x = y
      <3> HIDE DEF rank
      <3>1. SUFFICES ASSUME NEW x \in S, NEW y \in S, rank[x] = rank[y], x # y
                     PROVE  FALSE
        OBVIOUS
      <3>2. x < y \/ y < x
        BY <3>1
      <3>3. rank[x] \in Nat /\ rank[y] \in Nat
        BY <1>2
      <3>4. QED
        BY <1>3, <3>1, <3>2, <3>3
    <2> HIDE DEF rank, n
    <2>3. QED
      BY <2>1, <2>2 DEF Injection, IsInjective
  <1>5. rank \in Surjection(S, 0..(n - 1))
    <2>1. IsFiniteSet(0..(n - 1)) /\ Cardinality(0..(n - 1)) = n
      <3>1. 0 \in Int /\ n - 1 \in Int
        BY <1>1
      <3>2. IsFiniteSet(0..(n - 1)) /\ Cardinality(0..(n - 1)) = IF 0 > n - 1 THEN 0
              ELSE n - 1 - 0 + 1
        BY <3>1, FS_Interval
      <3> HIDE DEF n
      <3>3. QED
        BY <1>1, <3>2
    <2> HIDE DEF rank
    <2>2. QED
      BY <1>4, <2>1, FS_Injection
  <1> DEFINE a == Ascending(S)
  <1>6. \A k \in 1..n : a[k] \in S /\ rank[a[k]] = k - 1
    <2> SUFFICES ASSUME NEW k \in 1..n PROVE a[k] \in S /\ rank[a[k]] = k - 1
      OBVIOUS
    <2>1. a[k] = CHOOSE x \in S : Cardinality({y \in S : y < x}) = k - 1
      BY DEF Ascending
    <2>2. \E x \in S : rank[x] = k - 1
      <3>1. k - 1 \in 0..(n - 1)
        <4> HIDE DEF n
        <4>1. QED
          BY <1>1
      <3> HIDE DEF rank, n
      <3>2. QED
        BY <1>5, <3>1 DEF Surjection
    <2>3. \E x \in S : Cardinality({y \in S : y < x}) = k - 1
      BY <2>2 DEF Below
    <2>4. a[k] \in S /\ Cardinality({y \in S : y < a[k]}) = k - 1
      <3> HIDE DEF a
      <3>1. QED
        BY <2>1, <2>3
    <2>5. QED
      BY <2>4 DEF Below
  <1> DEFINE E(k) == CHOOSE x \in S : Cardinality({y \in S : y < x}) = k - 1
  <1>7. a = [k \in 1..n |-> E(k)]
    BY DEF Ascending
  <1>8. a \in [1..n -> S]
    <2> HIDE DEF a, rank, E, n
    <2>1. \A k \in 1..n : E(k) \in S
      BY <1>6, <1>7
    <2>2. QED
      BY <1>7, <2>1
  <1>9. a \in Seq(S) /\ Len(a) = n
    <2> HIDE DEF a, n
    <2>1. QED
      BY <1>1, <1>8
  <1>10. \A k, l \in 1..n : k < l => a[k] < a[l]
    <2> HIDE DEF a, rank, n
    <2> SUFFICES ASSUME NEW k \in 1..n, NEW l \in 1..n, k < l
                 PROVE  a[k] < a[l]
      OBVIOUS
    <2>1. a[k] \in S /\ a[l] \in S /\ rank[a[k]] < rank[a[l]] /\ rank[a[k]] \in Nat
            /\ rank[a[l]] \in Nat
      BY <1>1, <1>2, <1>6
    <2>2. a[k] \in Int /\ a[l] \in Int
      BY <2>1
    <2>3. a[l] < a[k] => rank[a[l]] < rank[a[k]]
      BY <1>3, <2>1
    <2>4. a[k] # a[l]
      <3> DEFINE u == rank[a[k]]
                 v == rank[a[l]]
      <3>1. u \in Nat /\ u < v
        BY <2>1
      <3>2. u # v
        <4> HIDE DEF u, v
        <4>1. QED
          BY <3>1
      <3>3. QED
        BY <3>2
    <2>5. ~ (a[l] < a[k])
      BY <2>1, <2>3
    <2>6. QED
      BY <2>2, <2>4, <2>5
  <1>11. \A x \in S : \E k \in 1..n : a[k] = x
    <2> SUFFICES ASSUME NEW x \in S PROVE \E k \in 1..n : a[k] = x
      OBVIOUS
    <2> HIDE DEF a, rank, n
    <2> DEFINE k == rank[x] + 1
    <2>1. k \in 1..n
      BY <1>1, <1>2
    <2>2. a[k] \in S /\ rank[a[k]] = rank[x]
      BY <1>2, <1>6, <2>1
    <2>3. a[k] = x
      BY <1>4, <2>2 DEF Injection, IsInjective
    <2>4. QED
      BY <2>1, <2>3
  <1>12. QED
    BY <1>1, <1>8, <1>9, <1>10, <1>11

\* Ids are different as long as there are as many of them as events.
LEMMA DistinctMeansInjective ==
  ASSUME NEW T, NEW events \in Seq(T)
  PROVE  /\ IsFiniteSet({events[k].event_id : k \in DOMAIN events})
         /\ DistinctIds(events) <=>
              \A k, l \in 1..Len(events) : events[k].event_id = events[l].event_id => k = l
  <1> DEFINE n == Len(events)
             I == {events[k].event_id : k \in 1..n}
             f == [k \in 1..n |-> events[k].event_id]
  <1>1. n \in Nat /\ DOMAIN events = 1..n
    OBVIOUS
  <1>2. IsFiniteSet(1..n) /\ Cardinality(1..n) = n
    <2>1. 1 \in Int /\ n \in Int
      OBVIOUS
    <2>2. IsFiniteSet(1..n) /\ Cardinality(1..n) = IF 1 > n THEN 0 ELSE n - 1 + 1
      BY <2>1, FS_Interval
    <2> HIDE DEF n
    <2>3. QED
      BY <1>1, <2>2
  <1>3. f \in Surjection(1..n, I)
    BY DEF Surjection
  <1>4. IsFiniteSet(I) /\ (Cardinality(I) = Cardinality(1..n) <=> f \in Injection(1..n, I))
    <2> HIDE DEF f, I, n
    <2>1. QED
      BY <1>2, <1>3, FS_Surjection
  <1>5. f \in Injection(1..n, I)
          <=> \A k, l \in 1..n : events[k].event_id = events[l].event_id => k = l
    <2>1. f \in [1..n -> I]
      OBVIOUS
    <2>2. \A k \in 1..n : f[k] = events[k].event_id
      OBVIOUS
    <2> HIDE DEF f, I, n
    <2>3. QED
      BY <2>1, <2>2 DEF Injection, IsInjective
  <1>6. DistinctIds(events) <=> Cardinality(I) = n
    BY <1>1 DEF DistinctIds
  <1>7. {events[k].event_id : k \in DOMAIN events} = I
    BY <1>1
  <1> HIDE DEF I, f, n
  <1>8. IsFiniteSet(I) /\ (DistinctIds(events) <=>
           \A k, l \in 1..n : events[k].event_id = events[l].event_id => k = l)
    BY <1>2, <1>4, <1>5, <1>6
  <1>9. QED
    BY <1>7, <1>8 DEF n

\* A function on 1..n is a sequence of length n.
LEMMA FunctionIsSeq ==
  ASSUME NEW T, NEW n \in Nat, NEW s \in [1..n -> T]
  PROVE  s \in Seq(T) /\ Len(s) = n
  OBVIOUS

\* The ids of original events are told apart by the detection.
LEMMA OriginalIds ==
  ASSUME NEW a \in Nat \X {0}, NEW b \in Nat \X {0}
  PROVE  a[1] \in Nat /\ (a[1] = b[1] => a = b)
  OBVIOUS

\* Sorting different ids lists each event once, the smallest id first.
LEMMA SortedEvents ==
  ASSUME NEW T, NEW events \in Seq(T), DistinctIds(events),
         \A k \in 1..Len(events) : events[k].event_id \in Nat \X {0}
  PROVE  LET s == SortedById(events) n == Len(events) IN
         /\ s \in [1..n -> T] /\ s \in Seq(T) /\ Len(s) = n
         /\ \A k \in 1..n : \E l \in 1..n : s[k] = events[l]
         /\ \A l \in 1..n : \E k \in 1..n : s[k] = events[l]
         /\ \A k, l \in 1..n : k < l => s[k].event_id[1] < s[l].event_id[1]
  <1> DEFINE n == Len(events)
             key(l) == events[l].event_id[1]
             K == {key(l) : l \in 1..n}
             f == [l \in 1..n |-> key(l)]
  <1>1. n \in Nat /\ DOMAIN events = 1..n /\ \A l \in 1..n : events[l] \in T
    OBVIOUS
  <1>2. \A l \in 1..n : key(l) \in Nat
    BY OriginalIds
  <1>3. ASSUME NEW k \in 1..n, NEW l \in 1..n, key(k) = key(l)
        PROVE  k = l
    <2>1. events[k].event_id = events[l].event_id
      BY <1>3, OriginalIds
    <2>2. QED
      BY <2>1, DistinctMeansInjective
  <1>4. f \in Bijection(1..n, K)
    <2>1. f \in [1..n -> K] /\ (\A x \in K : \E l \in 1..n : f[l] = x)
          /\ \A k, l \in 1..n : f[k] = f[l] => k = l
      BY <1>3
    <2> HIDE DEF f, K, n
    <2>2. QED
      BY <2>1 DEF Bijection, Injection, Surjection, IsInjective
  <1>5. IsFiniteSet(K) /\ Cardinality(K) = n /\ K \in SUBSET Int
    <2>1. ExistsBijection(1..n, K)
      BY <1>4 DEF ExistsBijection
    <2>2. K \in SUBSET Int
      BY <1>2
    <2> HIDE DEF K, n
    <2>3. QED
      BY <1>1, <2>1, <2>2, FS_NatBijection, FS_CountingElements
  <1> DEFINE a == Ascending(K)
             s == SortedById(events)
             at == [k \in 1..n |-> CHOOSE l \in 1..n : key(l) = a[k]]
  <1>6. /\ a \in [1..n -> K]
        /\ \A k, l \in 1..n : k < l => a[k] < a[l]
        /\ \A x \in K : \E k \in 1..n : a[k] = x
    <2> HIDE DEF K, n
    <2>1. QED
      BY <1>5, AscendingLists
  <1>7. \A k \in 1..n : at[k] \in 1..n /\ key(at[k]) = a[k]
    <2> SUFFICES ASSUME NEW k \in 1..n PROVE at[k] \in 1..n /\ key(at[k]) = a[k]
      OBVIOUS
    <2>1. \E l \in 1..n : key(l) = a[k]
      <3>1. a[k] \in K
        <4> HIDE DEF a, K
        <4>1. QED
          BY <1>6
      <3>2. QED
        BY <3>1
    <2>2. at[k] = CHOOSE l \in 1..n : key(l) = a[k]
      OBVIOUS
    <2> HIDE DEF at, a, key
    <2>3. QED
      BY <2>1, <2>2
  <1>8. s = [k \in 1..n |-> events[at[k]]]
    <2>1. DOMAIN a = 1..n
      <3> HIDE DEF a, K
      <3>1. QED
        BY <1>6
    <2>2. s = [k \in DOMAIN a |-> events[CHOOSE l \in 1..n : key(l) = a[k]]]
      BY <1>1 DEF SortedById
    <2> HIDE DEF s, a
    <2>3. QED
      BY <2>1, <2>2
  <1> HIDE DEF a, at, f
  <1>9. \A k \in 1..n : s[k] = events[at[k]] /\ s[k].event_id[1] = a[k]
    <2> HIDE DEF s
    <2>1. QED
      BY <1>7, <1>8
  <1>10. s \in [1..n -> T] /\ s \in Seq(T) /\ Len(s) = n
    <2>1. \A k \in 1..n : events[at[k]] \in T
      BY <1>1, <1>7
    <2> HIDE DEF s, n
    <2>2. s \in [1..n -> T]
      BY <1>8, <2>1
    <2>3. QED
      BY <1>1, <2>2, FunctionIsSeq
  <1>11. \A k \in 1..n : \E l \in 1..n : s[k] = events[l]
    BY <1>7, <1>9
  <1>12. \A l \in 1..n : \E k \in 1..n : s[k] = events[l]
    <2> SUFFICES ASSUME NEW l \in 1..n PROVE \E k \in 1..n : s[k] = events[l]
      OBVIOUS
    <2>1. PICK k \in 1..n : a[k] = key(l)
      BY <1>6
    <2>2. at[k] = l
      BY <1>3, <1>7, <2>1
    <2>3. QED
      BY <1>9, <2>2
  <1>13. \A k, l \in 1..n : k < l => s[k].event_id[1] < s[l].event_id[1]
    BY <1>6, <1>9
  <1>14. QED
    BY <1>10, <1>11, <1>12, <1>13

\* The first m elements of a sequence.
LEMMA FirstElements ==
  ASSUME NEW T, NEW s \in Seq(T), NEW m \in Nat, m <= Len(s)
  PROVE  LET f == SubSeq(s, 1, m) IN
         /\ f \in Seq(T) /\ Len(f) = m /\ DOMAIN f = 1..m
         /\ \A k \in 1..m : f[k] = s[k]
  <1>1. SubSeq(s, 1, m) = [k \in 1..m |-> s[k]]
    OBVIOUS
  <1>2. \A k \in 1..m : s[k] \in T
    OBVIOUS
  <1>3. [k \in 1..m |-> s[k]] \in [1..m -> T]
    BY <1>2
  <1>4. QED
    BY <1>1, <1>3, FunctionIsSeq

\* Whatever the canonical events, the first Target of them by id are the selection that
\* the contract asks for (select_scale_gate_events in
\* scale_gate_selection.py).
THEOREM SelectionHolds ==
  ASSUME NEW T, NEW events \in Seq(T), DistinctIds(events), Len(events) >= Target,
         \A k \in 1..Len(events) : events[k].event_id \in Nat \X {0}
  PROVE  LET selected == SubSeq(SortedById(events), 1, Target) IN
         /\ selected \in Seq(T) /\ Len(selected) = Target
         /\ \A k \in 1..Target : \E l \in 1..Len(events) : selected[k] = events[l]
         /\ Contract!IsSelection(events, selected)
  <1> DEFINE s == SortedById(events)
             n == Len(events)
             selected == SubSeq(s, 1, Target)
  <1>1. /\ s \in Seq(T) /\ Len(s) = n
        /\ \A k \in 1..n : \E l \in 1..n : s[k] = events[l]
        /\ \A l \in 1..n : \E k \in 1..n : s[k] = events[l]
        /\ \A k, l \in 1..n : k < l => s[k].event_id[1] < s[l].event_id[1]
    BY SortedEvents
  <1>2. n \in Nat /\ Target \in Nat \ {0} /\ Target <= n /\ DOMAIN events = 1..n
    BY TargetAssumption
  <1> HIDE DEF s, n
  <1>3. /\ selected \in Seq(T) /\ Len(selected) = Target /\ DOMAIN selected = 1..Target
        /\ \A k \in 1..Target : selected[k] = s[k]
    <2>1. s \in Seq(T) /\ Target \in Nat /\ Target <= Len(s)
      BY <1>1, <1>2
    <2>2. QED
      BY <2>1, FirstElements
  <1> HIDE DEF selected
  <1>4. \A k \in 1..Target : k \in 1..n
    BY <1>2
  <1>5. \A k \in 1..Target : \E l \in 1..n : selected[k] = events[l]
    <2> SUFFICES ASSUME NEW k \in 1..Target PROVE \E l \in 1..n : selected[k] = events[l]
      OBVIOUS
    <2>1. k \in 1..n /\ selected[k] = s[k]
      BY <1>3, <1>4
    <2>2. PICK l \in 1..n : s[k] = events[l]
      BY <1>1, <2>1
    <2>3. QED
      BY <2>1, <2>2
  <1>6. Contract!Ids(selected) \subseteq Contract!Ids(events)
    <2> SUFFICES ASSUME NEW id \in Contract!Ids(selected) PROVE id \in Contract!Ids(events)
      OBVIOUS
    <2>1. PICK k \in 1..Target : id = selected[k].event_id
      BY <1>3 DEF Contract!Ids
    <2>2. PICK l \in 1..n : selected[k] = events[l]
      BY <1>5
    <2>3. QED
      BY <1>2, <2>1, <2>2 DEF Contract!Ids
  <1>7. \A k \in 2..Target : selected[k - 1].event_id[1] < selected[k].event_id[1]
    <2> SUFFICES ASSUME NEW k \in 2..Target
                 PROVE  selected[k - 1].event_id[1] < selected[k].event_id[1]
      OBVIOUS
    <2>1. k - 1 \in 1..Target /\ k \in 1..Target /\ k - 1 < k
      BY <1>2
    <2>2. QED
      BY <1>1, <1>3, <1>4, <2>1
  <1>8. \A id \in Contract!Ids(events) \ Contract!Ids(selected) :
          selected[Target].event_id[1] < id[1]
    <2> SUFFICES ASSUME NEW id \in Contract!Ids(events), id \notin Contract!Ids(selected)
                 PROVE  selected[Target].event_id[1] < id[1]
      OBVIOUS
    <2>1. PICK l \in 1..n : id = events[l].event_id
      BY <1>2 DEF Contract!Ids
    <2>2. PICK k \in 1..n : s[k] = events[l]
      BY <1>1
    <2>3. k \notin 1..Target
      BY <1>3, <2>1, <2>2 DEF Contract!Ids
    <2>4. Target \in 1..Target /\ Target \in 1..n /\ Target < k
      BY <1>2, <2>3
    <2>5. QED
      BY <1>1, <1>3, <2>1, <2>2, <2>4
  <1>9. Contract!IsSelection(events, selected)
    BY <1>3, <1>6, <1>7, <1>8 DEF Contract!IsSelection
  <1>10. QED
    BY <1>3, <1>5, <1>9 DEF n, selected, s

-----------------------------------------------------------------------------
\* Two lists of the same rows.
LEMMA GoldHolds ==
  ASSUME NEW rows, NEW out, Len(rows) = GateSize, DistinctIds(rows),
         out["event_detail"] = rows, out["load_artifact"] = rows
  PROVE  Contract!IsGold(rows, out)
  <1>1. Contract!Cardinality(Contract!Ids(rows)) = GateSize
    BY DEF Contract!Cardinality, Cardinality, Contract!Ids, DistinctIds
  <1>2. QED
    BY <1>1 DEF Contract!IsGold

-----------------------------------------------------------------------------
(* The replay: one copy of the originals after the other.                  *)

\* A set of subsets of a finite set that is not empty has a least one.
LEMMA LeastSubset ==
  ASSUME NEW S, IsFiniteSet(S), NEW T \in SUBSET (SUBSET S), T # {}
  PROVE  \E s \in T : \A t \in T : t \subseteq s => t = s
  <1>1. IsWellFoundedOn(StrictSubsetOrdering(S), SUBSET S)
    BY FS_StrictSubsetOrderingWellFounded, FS_FiniteSubsetsOfFinite
  <1>2. PICK s \in T : \A t \in T : <<t, s>> \notin StrictSubsetOrdering(S)
    BY <1>1, WFMin
  <1>3. \A t \in T : t \subseteq s => t = s
    BY <1>2 DEF StrictSubsetOrdering
  <1>4. QED
    BY <1>3

\* What holds of 0 and is handed on up to m holds up to m: the least number of which
\* it does not hold would have one before it.
LEMMA UpTo ==
  ASSUME NEW m \in Nat, NEW G, 0 \in G, \A n \in 0..(m - 1) : n \in G => n + 1 \in G
  PROVE  \A n \in 0..m : n \in G
  <1> DEFINE Bad == {n \in 0..m : n \notin G}
             T == {0..n : n \in Bad}
  <1>1. SUFFICES ASSUME Bad # {}
                 PROVE  FALSE
    OBVIOUS
  <1>2. IsFiniteSet(0..m)
    BY FS_Interval
  <1>3. T \in SUBSET (SUBSET (0..m)) /\ T # {}
    <2> DEFINE S == 0..m
    <2>1. \A n \in Bad : 0..n \in SUBSET S
      OBVIOUS
    <2>2. Bad # {}
      BY <1>1
    <2> HIDE DEF Bad, S
    <2>3. T \in SUBSET (SUBSET S) /\ T # {}
      BY <2>1, <2>2
    <2>4. QED
      BY <2>3 DEF S
  <1>4. PICK s \in T : \A t \in T : t \subseteq s => t = s
    <2> DEFINE S == 0..m
    <2>1. IsFiniteSet(S) /\ T \in SUBSET (SUBSET S) /\ T # {}
      BY <1>2, <1>3
    <2> HIDE DEF T, S
    <2>2. QED
      BY <2>1, LeastSubset
  <1>5. PICK b \in Bad : s = 0..b
    BY <1>4
  <1>6. b \in 0..m /\ b \notin G
    BY <1>5
  <1>7. b # 0
    BY <1>6
  <1>8. b - 1 \in 0..(m - 1) /\ b - 1 \in 0..m /\ (b - 1) + 1 = b
    BY <1>6, <1>7
  <1>9. b - 1 \notin G
    BY <1>6, <1>8
  <1>10. 0..(b - 1) \in T
    BY <1>8, <1>9
  <1>11. 0..(b - 1) \subseteq 0..b /\ b \in 0..b /\ b \notin 0..(b - 1)
    BY <1>6
  <1>12. QED
    BY <1>4, <1>5, <1>10, <1>11

-----------------------------------------------------------------------------
\* The iterations one after the other: the equation that FlattenSeq solves,
Flattens(seqs, n, g) ==
  g = [i \in 1..n |-> IF i = 1 THEN seqs[i] ELSE g[i - 1] \o seqs[i]]

\* and that it has a solution.
LEMMA FlattenUnfolds ==
  ASSUME NEW seqs, NEW n \in Nat
  PROVE  \E g : Flattens(seqs, n, g)
  <1> DEFINE G == {k \in Nat : \E g : Flattens(seqs, k, g)}
  <1>1. 0 \in G
    <2> DEFINE g == [i \in 1..0 |-> seqs]
    <2>1. g = [i \in 1..0 |-> IF i = 1 THEN seqs[i] ELSE g[i - 1] \o seqs[i]]
      OBVIOUS
    <2> HIDE DEF g
    <2>2. QED
      BY <2>1 DEF Flattens
  <1>2. ASSUME NEW k \in 0..(n - 1), k \in G
        PROVE  k + 1 \in G
    <2>1. PICK g : Flattens(seqs, k, g)
      BY <1>2
    <2> DEFINE h == [i \in 1..(k + 1) |->
                       IF i = k + 1 THEN IF i = 1 THEN seqs[i] ELSE g[k] \o seqs[i] ELSE g[i]]
    <2>2. \A i \in 1..k : g[i] = IF i = 1 THEN seqs[i] ELSE g[i - 1] \o seqs[i]
      BY <2>1 DEF Flattens
    <2>3. \A i \in 1..(k + 1) : i # k + 1 => i \in 1..k
      OBVIOUS
    <2>4. \A i \in 1..k : h[i] = g[i]
      OBVIOUS
    <2>5. h[k + 1] = IF k + 1 = 1 THEN seqs[k + 1] ELSE g[k] \o seqs[k + 1]
      OBVIOUS
    <2>6. h = [i \in 1..(k + 1) |-> h[i]]
      OBVIOUS
    <2> HIDE DEF h
    <2>7. \A i \in 1..(k + 1) : h[i] = IF i = 1 THEN seqs[i] ELSE h[i - 1] \o seqs[i]
      <3> SUFFICES ASSUME NEW i \in 1..(k + 1)
                   PROVE  h[i] = IF i = 1 THEN seqs[i] ELSE h[i - 1] \o seqs[i]
        OBVIOUS
      <3>1. CASE i = 1
        BY <2>2, <2>3, <2>4, <2>5, <3>1
      <3>2. CASE i # 1
        <4>1. i - 1 \in 1..k /\ h[i - 1] = g[i - 1]
          BY <2>4, <3>2
        <4>2. CASE i = k + 1
          <5>1. i - 1 = k
            BY <4>2
          <5>2. QED
            BY <2>5, <3>2, <4>1, <4>2, <5>1
        <4>3. CASE i # k + 1
          BY <2>2, <2>3, <2>4, <3>2, <4>1, <4>3
        <4>4. QED
          BY <4>2, <4>3
      <3>3. QED
        BY <3>1, <3>2
    <2>8. Flattens(seqs, k + 1, h)
      BY <2>6, <2>7 DEF Flattens
    <2>9. QED
      BY <2>8
  <1> HIDE DEF G
  <1>3. \A k \in 0..n : k \in G
    BY <1>1, <1>2, UpTo
  <1>4. QED
    BY <1>3 DEF G

\* A sequence of i copies of c originals, numbered.
Copies(s, i, c, originals) ==
  /\ \E U : s \in Seq(U)
  /\ Len(s) = i * c
  /\ \A k \in 1..(i * c) : \E a \in 1..i, b \in 1..c :
       k = (a - 1) * c + b /\ s[k] = ReplayEvent(originals[b], a, k - 1)

\* The i-th copy.
IsCopy(t, i, c, originals) ==
  /\ \E U : t \in Seq(U)
  /\ Len(t) = c
  /\ \A j \in 1..c : t[j] = ReplayEvent(originals[j], i, (i - 1) * c + (j - 1))

\* One copy is copies up to the first.
LEMMA OneCopy ==
  ASSUME NEW c \in Nat, NEW originals, NEW t, IsCopy(t, 1, c, originals)
  PROVE  Copies(t, 1, c, originals)
  <1>1. 1 * c = c /\ Len(t) = c /\ \E U : t \in Seq(U)
    BY DEF IsCopy
  <1>2. ASSUME NEW k \in 1..c
        PROVE  k = (1 - 1) * c + k /\ t[k] = ReplayEvent(originals[k], 1, k - 1)
    <2>1. (1 - 1) * c + (k - 1) = k - 1 /\ (1 - 1) * c + k = k
      OBVIOUS
    <2>2. t[k] = ReplayEvent(originals[k], 1, (1 - 1) * c + (k - 1))
      BY DEF IsCopy
    <2>3. QED
      BY <2>1, <2>2
  <1>3. QED
    BY <1>1, <1>2 DEF Copies

\* One copy more.
LEMMA MoreCopies ==
  ASSUME NEW c \in Nat, NEW originals, NEW i \in Nat, NEW s, NEW t,
         Copies(s, i, c, originals), IsCopy(t, i + 1, c, originals)
  PROVE  Copies(s \o t, i + 1, c, originals)
  <1> DEFINE m == i * c
  <1>1. m \in Nat /\ (i + 1) * c = m + c /\ ((i + 1) - 1) * c = m
    OBVIOUS
  <1>2. PICK U : s \in Seq(U)
    BY DEF Copies
  <1>3. PICK V : t \in Seq(V)
    BY DEF IsCopy
  <1>4. Len(s) = m /\ Len(t) = c
    BY DEF Copies, IsCopy
  <1>5. \A k \in 1..m : \E a \in 1..i, b \in 1..c :
          k = (a - 1) * c + b /\ s[k] = ReplayEvent(originals[b], a, k - 1)
    BY DEF Copies
  <1>6. \A j \in 1..c : t[j] = ReplayEvent(originals[j], i + 1, m + (j - 1))
    BY <1>1 DEF IsCopy
  <1> HIDE DEF m
  <1>7. /\ s \o t \in Seq(U \union V) /\ Len(s \o t) = m + c
        /\ \A k \in 1..m : (s \o t)[k] = s[k]
        /\ \A k \in (m + 1)..(m + c) : (s \o t)[k] = t[k - m]
    <2>1. s \in Seq(U \union V) /\ t \in Seq(U \union V)
      BY <1>2, <1>3
    <2>2. QED
      BY <1>1, <1>4, <2>1
  <1>8. ASSUME NEW k \in 1..(m + c)
        PROVE  \E a \in 1..(i + 1), b \in 1..c :
                 k = (a - 1) * c + b /\ (s \o t)[k] = ReplayEvent(originals[b], a, k - 1)
    <2>1. CASE k \in 1..m
      <3>1. PICK a \in 1..i, b \in 1..c :
                   k = (a - 1) * c + b /\ s[k] = ReplayEvent(originals[b], a, k - 1)
        BY <1>5, <2>1
      <3>2. a \in 1..(i + 1) /\ (s \o t)[k] = s[k]
        BY <1>7, <2>1
      <3>3. QED
        BY <3>1, <3>2
    <2>2. CASE k \in (m + 1)..(m + c)
      <3> DEFINE b == k - m
      <3>1. b \in 1..c /\ m + (b - 1) = k - 1 /\ m + b = k
        BY <1>1, <2>2
      <3>2. (s \o t)[k] = t[b]
        BY <1>7, <2>2
      <3> HIDE DEF b
      <3>3. (s \o t)[k] = ReplayEvent(originals[b], i + 1, k - 1)
        BY <1>6, <3>1, <3>2
      <3>4. i + 1 \in 1..(i + 1) /\ k = ((i + 1) - 1) * c + b
        BY <1>1, <3>1
      <3>5. QED
        BY <3>1, <3>3, <3>4
    <2>3. k \in 1..m \/ k \in (m + 1)..(m + c)
      BY <1>1
    <2>4. QED
      BY <2>1, <2>2, <2>3
  <1>9. QED
    BY <1>1, <1>7, <1>8 DEF Copies

\* What generate_replay writes: iteration a of original b at position (a - 1) * c + b.
LEMMA ReplayedShape ==
  ASSUME NEW T, NEW c \in Nat, NEW originals \in [1..c -> T],
         NEW events, events = Replayed(originals, c)
  PROVE  Copies(events, Factor, c, originals)
  <1> DEFINE seqs == [i \in 1..Factor |->
                [j \in 1..c |-> ReplayEvent(originals[j], i, SequenceNumber(i, c, j - 1))]]
             g == CHOOSE h : Flattens(seqs, Factor, h)
  <1>1. Factor \in Nat \ {0}
    BY FactorAssumption
  <1>2. seqs \in Seq({seqs[i] : i \in 1..Factor}) /\ Len(seqs) = Factor
    <2> HIDE DEF seqs
    <2>1. seqs = [i \in 1..Factor |-> seqs[i]]
      BY DEF seqs
    <2>2. seqs \in [1..Factor -> {seqs[i] : i \in 1..Factor}]
      BY <2>1
    <2>3. QED
      BY <1>1, <2>2, FunctionIsSeq
  <1>3. events = g[Factor]
    <2>1. events = FlattenSeq(seqs)
      BY DEF Replayed
    <2>2. FlattenSeq(seqs) = (CHOOSE h : Flattens(seqs, Len(seqs), h))[Len(seqs)]
      <3> HIDE DEF seqs
      <3>1. Len(seqs) # 0
        BY <1>1, <1>2
      <3>2. QED
        BY <3>1 DEF FlattenSeq, Flattens
    <2> HIDE DEF seqs
    <2>3. QED
      BY <1>2, <2>1, <2>2
  <1>4. \A i \in 1..Factor : g[i] = IF i = 1 THEN seqs[i] ELSE g[i - 1] \o seqs[i]
    <2> HIDE DEF seqs
    <2>1. \E h : Flattens(seqs, Factor, h)
      BY <1>1, FlattenUnfolds
    <2>2. Flattens(seqs, Factor, g)
      BY <2>1
    <2> HIDE DEF g
    <2>3. QED
      BY <2>2 DEF Flattens
  <1>5. ASSUME NEW i \in 1..Factor
        PROVE  IsCopy(seqs[i], i, c, originals)
    <2> DEFINE U == {ReplayEvent(originals[j], i, SequenceNumber(i, c, j - 1)) : j \in 1..c}
               s == seqs[i]
    <2>1. s = [j \in 1..c |-> ReplayEvent(originals[j], i, SequenceNumber(i, c, j - 1))]
      OBVIOUS
    <2>2. s \in [1..c -> U]
      BY <2>1
    <2>3. \A j \in 1..c : s[j] = ReplayEvent(originals[j], i, SequenceNumber(i, c, j - 1))
      BY <2>1
    <2>4. \A j \in 1..c : SequenceNumber(i, c, j - 1) = (i - 1) * c + (j - 1)
      BY DEF SequenceNumber
    <2> HIDE DEF U, s
    <2>5. s \in Seq(U) /\ Len(s) = c
      BY <2>2, FunctionIsSeq
    <2>6. \A j \in 1..c : s[j] = ReplayEvent(originals[j], i, (i - 1) * c + (j - 1))
      BY <2>3, <2>4
    <2>7. QED
      BY <2>5, <2>6 DEF s, IsCopy
  <1> HIDE DEF g, seqs
  <1> DEFINE G == {i \in Nat : i + 1 \in 1..Factor => Copies(g[i + 1], i + 1, c, originals)}
  <1>6. 0 \in G
    <2>1. g[1] = seqs[1] /\ 1 \in 1..Factor /\ 0 + 1 = 1
      BY <1>1, <1>4
    <2>2. Copies(g[1], 1, c, originals)
      BY <1>5, <2>1, OneCopy
    <2>3. QED
      BY <2>1, <2>2
  <1>7. ASSUME NEW i \in Nat, i \in G PROVE i + 1 \in G
    <2> SUFFICES ASSUME (i + 1) + 1 \in 1..Factor
                 PROVE  Copies(g[(i + 1) + 1], (i + 1) + 1, c, originals)
      OBVIOUS
    <2>1. i + 1 \in 1..Factor /\ (i + 1) + 1 # 1 /\ ((i + 1) + 1) - 1 = i + 1 /\ i + 1 \in Nat
      BY <1>1
    <2>2. Copies(g[i + 1], i + 1, c, originals)
      BY <1>7, <2>1
    <2>3. g[(i + 1) + 1] = g[i + 1] \o seqs[(i + 1) + 1]
      BY <1>4, <2>1
    <2>4. IsCopy(seqs[(i + 1) + 1], (i + 1) + 1, c, originals)
      BY <1>5
    <2>5. QED
      BY <2>1, <2>2, <2>3, <2>4, MoreCopies
  <1>8. Copies(g[Factor], Factor, c, originals)
    <2>1. Factor - 1 \in Nat /\ (Factor - 1) + 1 = Factor /\ Factor \in 1..Factor
          /\ Factor - 1 \in 0..(Factor - 1)
      BY <1>1
    <2>2. \A n \in 0..((Factor - 1) - 1) : n \in G => n + 1 \in G
      <3> HIDE DEF G
      <3>1. QED
        BY <1>7
    <2> DEFINE m == Factor - 1
    <2>3. m \in G
      <3>1. m \in Nat /\ m \in 0..m /\ \A n \in 0..(m - 1) : n \in G => n + 1 \in G
        BY <2>1, <2>2
      <3> HIDE DEF m, G
      <3>2. QED
        BY <1>6, <3>1, UpTo
    <2>4. QED
      BY <2>1, <2>3
  <1>9. QED
    BY <1>3, <1>8

\* A copy is an event with the identity of its original as its parent.
LEMMA CopyOfOriginal ==
  ASSUME NEW o \in Lines, o.event_id \in Nat \X {0}, NEW a \in Nat, NEW n \in Int
  PROVE  LET e == ReplayEvent(o, a, n) IN
         /\ e \in Lines
         /\ e.event_id = <<o.event_id[1], a>> /\ e.parent = o.event_id
         /\ e.detection_id = o.detection_id
         /\ e.replay_iteration = a /\ e.replay_sequence_number = n
  <1> DEFINE e == ReplayEvent(o, a, n)
  <1>1. o.event_id[1] \in Nat /\ o.event_id \in Nat \X Nat
    OBVIOUS
  <1>2. ReplayEventId(o.event_id, a) = <<o.event_id[1], a>>
    BY DEF ReplayEventId
  <1>3. <<o.event_id[1], a>> \in Nat \X Nat
    BY <1>1
  <1>4. /\ e.event_id = <<o.event_id[1], a>> /\ e.parent = o.event_id
        /\ e.detection_id = o.detection_id
        /\ e.replay_iteration = a /\ e.replay_sequence_number = n
    BY <1>2 DEF ReplayEvent, Lines
  <1>5. e \in Lines
    <2> DEFINE i  == <<o.event_id[1], a>>
               p  == o.event_id
               e1 == [o EXCEPT !.event_id = i]
               e2 == [e1 EXCEPT !.parent = p]
               e3 == [e2 EXCEPT !.source_type = "NASA_REPLAY"]
               e4 == [e3 EXCEPT !.origin_run = "plan"]
               e5 == [e4 EXCEPT !.replay_iteration = a]
               e6 == [e5 EXCEPT !.replay_sequence_number = n]
               e7 == [e6 EXCEPT !.scheduled = n]
    <2>1. e = e7
      BY <1>2 DEF ReplayEvent
    <2>2. i \in Nat \X Nat /\ p \in Nat \X Nat /\ a \in Int
      BY <1>1, <1>3
    <2> HIDE DEF i, p, e
    <2>3. e1 \in Lines
      BY <2>2 DEF Lines
    <2> HIDE DEF e1
    <2>4. e2 \in Lines
      BY <2>2, <2>3 DEF Lines
    <2> HIDE DEF e2
    <2>5. e3 \in Lines
      BY <2>2, <2>4 DEF Lines
    <2> HIDE DEF e3
    <2>6. e4 \in Lines
      BY <2>2, <2>5 DEF Lines
    <2> HIDE DEF e4
    <2>7. e5 \in Lines
      BY <2>2, <2>6 DEF Lines
    <2> HIDE DEF e5
    <2>8. e6 \in Lines
      BY <2>2, <2>7 DEF Lines
    <2> HIDE DEF e6
    <2>9. e7 \in Lines
      BY <2>2, <2>8 DEF Lines
    <2> HIDE DEF e7
    <2>10. QED
      BY <2>1, <2>9
  <1>6. QED
    BY <1>4, <1>5

\* A position tells the iteration and the original, and larger ones come later.
LEMMA PositionsAreOrdered ==
  ASSUME NEW c \in Nat, NEW a \in Nat, NEW x \in Nat, NEW b \in 1..c, NEW y \in 1..c,
         (x - 1) * c + y < (a - 1) * c + b
  PROVE  x < a \/ (x = a /\ y < b)
  <1>1. CASE x = a
    <2> DEFINE m == (a - 1) * c
    <2>1. m \in Int /\ m + y < m + b
      BY <1>1
    <2> HIDE DEF m
    <2>2. QED
      BY <1>1, <2>1
  <1>2. CASE x > a
    <2> DEFINE d == (x - a) - 1
               m == (a - 1) * c
               u == d * c
    <2>1. d \in Nat /\ x - 1 = (a - 1) + (1 + d)
      BY <1>2
    <2>2. m \in Int /\ u \in Nat
      BY <2>1
    <2>3. (x - 1) * c = m + (c + u)
      <3>1. ((a - 1) + (1 + d)) * c = (a - 1) * c + (1 + d) * c
        BY <2>1
      <3>2. (1 + d) * c = c + d * c
        BY <2>1
      <3>3. QED
        BY <2>1, <3>1, <3>2
    <2>4. (m + (c + u)) + y < m + b
      BY <2>3
    <2> HIDE DEF m, u
    <2>5. QED
      BY <2>2, <2>4
  <1>3. QED
    BY <1>1, <1>2

\* Whatever the originals that the generator has accepted, its events are the replay that
\* the contract asks for: Factor of each, numbered by iteration and then by id, without
\* a repetition (generate_replay in generator.py).
THEOREM ReplayHolds ==
  ASSUME NEW originals \in Seq(Lines), AreOriginals(originals, Len(originals)),
         \A k \in 1..Len(originals) : originals[k].event_id \in Nat \X {0},
         NEW events, events = Replayed(SortedById(originals), Len(originals)),
         DistinctIds(events)
  PROVE  events \in Seq(Lines) /\ Contract!IsReplay(originals, events)
  <1> DEFINE c == Len(originals)
             s == SortedById(originals)
  <1>1. c \in Nat /\ DOMAIN originals = 1..c /\ Factor \in Nat
    BY FactorAssumption
  <1>2. DistinctIds(originals)
        /\ \A k \in 1..c : originals[k].event_id = originals[k].detection_id
    BY <1>1 DEF AreOriginals
  <1>3. /\ s \in [1..c -> Lines]
        /\ \A k \in 1..c : \E l \in 1..c : s[k] = originals[l]
        /\ \A k, l \in 1..c : k < l => s[k].event_id[1] < s[l].event_id[1]
    BY <1>2, SortedEvents
  <1>4. events = Replayed(s, c)
    OBVIOUS
  <1>5. \A k \in 1..c : s[k] \in Lines /\ s[k].event_id \in Nat \X {0}
          /\ s[k].detection_id = s[k].event_id /\ s[k].event_id \in Contract!Ids(originals)
    BY <1>1, <1>2, <1>3 DEF Contract!Ids
  <1> HIDE DEF c, s
  <1>6. /\ \E U : events \in Seq(U)
        /\ Len(events) = Factor * c
        /\ \A k \in 1..Len(events) : \E a \in 1..Factor, b \in 1..c :
             k = (a - 1) * c + b /\ events[k] = ReplayEvent(s[b], a, k - 1)
    <2>1. Copies(events, Factor, c, s)
      BY <1>1, <1>3, <1>4, ReplayedShape
    <2>2. QED
      BY <2>1 DEF Copies
  <1>7. Len(events) \in Nat /\ Len(events) = c * Factor
    BY <1>1, <1>6
  <1>8. ASSUME NEW k \in 1..Len(events), NEW a \in 1..Factor, NEW b \in 1..c,
               events[k] = ReplayEvent(s[b], a, k - 1)
        PROVE  /\ events[k] \in Lines
               /\ events[k].replay_sequence_number = k - 1
               /\ events[k].parent = s[b].event_id /\ events[k].detection_id = events[k].parent
               /\ events[k].replay_iteration = a
    <2>1. s[b] \in Lines /\ s[b].event_id \in Nat \X {0} /\ s[b].detection_id = s[b].event_id
      BY <1>5
    <2>2. PICK o \in Lines, i \in Int : o = s[b] /\ i = k - 1
      BY <2>1
    <2> DEFINE e == ReplayEvent(o, a, i)
    <2>3. /\ e \in Lines /\ e.parent = o.event_id /\ e.detection_id = o.detection_id
          /\ e.replay_iteration = a /\ e.replay_sequence_number = i
      BY <2>1, <2>2, CopyOfOriginal
    <2>4. events[k] = e
      BY <1>8, <2>2
    <2> HIDE DEF e
    <2>5. QED
      BY <2>1, <2>2, <2>3, <2>4
  <1>9. ASSUME NEW k \in 1..Len(events)
        PROVE  /\ events[k] \in Lines
               /\ events[k].replay_sequence_number = k - 1
               /\ events[k].parent \in Contract!Ids(originals)
               /\ events[k].detection_id = events[k].parent
               /\ events[k].replay_iteration \in 1..Factor
               /\ \A l \in 1..(k - 1) :
                    \/ events[l].replay_iteration < events[k].replay_iteration
                    \/ /\ events[l].replay_iteration = events[k].replay_iteration
                       /\ events[l].parent[1] < events[k].parent[1]
    <2>1. PICK a \in 1..Factor, b \in 1..c :
            k = (a - 1) * c + b /\ events[k] = ReplayEvent(s[b], a, k - 1)
      BY <1>6
    <2>2. /\ events[k] \in Lines
          /\ events[k].replay_sequence_number = k - 1
          /\ events[k].parent = s[b].event_id /\ events[k].detection_id = events[k].parent
          /\ events[k].replay_iteration = a
      BY <1>8, <2>1
    <2>3. ASSUME NEW l \in 1..(k - 1)
          PROVE  \/ events[l].replay_iteration < events[k].replay_iteration
                 \/ /\ events[l].replay_iteration = events[k].replay_iteration
                    /\ events[l].parent[1] < events[k].parent[1]
      <3>1. l \in 1..Len(events) /\ l < k
        BY <1>7
      <3>2. PICK x \in 1..Factor, y \in 1..c :
              l = (x - 1) * c + y /\ events[l] = ReplayEvent(s[y], x, l - 1)
        BY <1>6, <3>1
      <3>3. events[l].parent = s[y].event_id /\ events[l].replay_iteration = x
        BY <1>8, <3>1, <3>2
      <3>4. x \in Nat /\ a \in Nat /\ (x - 1) * c + y < (a - 1) * c + b
        BY <2>1, <3>1, <3>2
      <3>5. x < a \/ (x = a /\ y < b)
        BY <1>1, <3>4, PositionsAreOrdered
      <3>6. QED
        BY <1>3, <2>2, <3>3, <3>5
    <2>4. QED
      BY <1>5, <2>2, <2>3
  <1>10. PICK U : events \in Seq(U)
    BY <1>6
  <1>11. events \in Seq(Lines) /\ DOMAIN events = 1..Len(events)
    BY <1>9, <1>10
  <1>12. Contract!Cardinality(Contract!Ids(events)) = Len(events)
    <2>1. Contract!Cardinality(Contract!Ids(events)) = Cardinality(Contract!Ids(events))
      BY DEF Contract!Cardinality, Cardinality, Contract!IsFiniteSet, IsFiniteSet
    <2>2. QED
      BY <2>1 DEF DistinctIds, Contract!Ids
  <1>13. QED
    BY <1>7, <1>9, <1>11, <1>12 DEF Contract!IsReplay, c

-----------------------------------------------------------------------------
(* The canonicalizer: one row after the other.                             *)

\* The error codes are empty exactly for the rows that keep the contract
\* (canonicalize_row in canonicalization.py).
THEOREM RowErrorsAreExact ==
  ASSUME NEW row \in Rows
  PROVE  RowErrors(row) = {} <=> Valid(row)
  <1>1. ASSUME Valid(row) PROVE RowErrors(row) = {}
    BY <1>1 DEF RowErrors, FieldErrors, Valid
  <1>2. ASSUME RowErrors(row) = {} PROVE Valid(row)
    <2>0. FieldErrors(row) = {} /\ row.place # "tiny"
      BY <1>2 DEF RowErrors
    <2>1. row.place = "inside" /\ row.time # "junk" /\ row.text = "given"
      BY <2>0 DEF FieldErrors, Rows
    <2>2. row.instrument = "VIIRS" /\ row.day_night \in {"D", "N"}
      BY <2>0 DEF FieldErrors, Rows
    <2>3. row.bright \in {"", "above"} /\ row.frp \in {"", "zero", "above"}
      BY <2>0 DEF FieldErrors, Rows, Measures
    <2>4. QED
      BY <2>1, <2>2, <2>3 DEF Valid
  <1>3. QED
    BY <1>1, <1>2

\* A row that keeps the contract becomes an original event.
LEMMA CanonicalEventIs ==
  ASSUME NEW row \in Rows, Valid(row), NEW n \in Nat
  PROVE  LET e == CanonicalEvent(row, n) IN
         /\ e \in Lines
         /\ e.event_id = <<row.det, 0>> /\ e.event_id \in Nat \X {0} /\ e.raw_row_number = n
  <1> DEFINE e == CanonicalEvent(row, n)
             b == OrNull(row.bright)
             f == OrNull(row.frp)
             t == IF row.time = "before" THEN 0 ELSE 2
             i == <<row.det, 0>>
  <1>1. /\ row.place = "inside" /\ row.day_night \in {"D", "N"}
        /\ b \in {"above", NULL} /\ f \in {"zero", "above", NULL} /\ t \in Int
    <2>1. row.place = "inside" /\ row.day_night \in {"D", "N"}
          /\ row.bright \in {"", "above"} /\ row.frp \in {"", "zero", "above"}
      BY DEF Valid
    <2>2. b \in {"above", NULL}
      BY <2>1 DEF OrNull
    <2>3. f \in {"zero", "above", NULL}
      BY <2>1 DEF OrNull
    <2>4. t \in Int
      OBVIOUS
    <2>5. QED
      BY <2>1, <2>2, <2>3, <2>4
  <1>2. row.det \in Nat
    BY DEF Rows
  <1>3. i \in Nat \X {0} /\ i \in Nat \X Nat
    BY <1>2
  <1> DEFINE place == row.place
             day_night == row.day_night
             no == FALSE
             one == 1
  <1>4. e = [corrupt |-> no, event_id |-> i, detection_id |-> i, lineage_root_id |-> i,
             context |-> "given", source_type |-> "NASA_ORIGINAL", is_synthetic |-> no,
             origin_run |-> NULL, parent |-> NULL, replay_iteration |-> NULL,
             replay_sequence_number |-> NULL, scheduled |-> NULL,
             event_timestamp |-> t, ingestion_timestamp |-> one, place |-> place,
             schema_version |-> "1.0.0", day_night |-> day_night, bright |-> b,
             frp |-> f, raw_row_number |-> n]
    BY DEF CanonicalEvent, SourceRecordId
  <1>5. no \in BOOLEAN /\ one \in Int /\ n \in Int
    OBVIOUS
  <1> HIDE DEF b, f, t, i, place, day_night, no, one, e
  <1>6. e \in Lines
    <2>1. place = "inside" /\ day_night \in {"D", "N"} /\ i \in Nat \X Nat
          /\ b \in {"above", NULL} /\ f \in {"zero", "above", NULL} /\ t \in Int
      BY <1>1, <1>3 DEF place, day_night
    <2>2. QED
      BY <1>4, <1>5, <2>1, Zenon DEF Lines
  <1>7. e.event_id = i /\ e.raw_row_number = n
    BY <1>4
  <1>8. QED
    BY <1>3, <1>6, <1>7 DEF e, i

\* A sequence of anything.
IsList(s) == \E U : s \in Seq(U)

\* A sequence with one element more.
Longer(s, e, t) ==
  /\ IsList(t) /\ Len(s) \in Nat /\ Len(t) = Len(s) + 1 /\ DOMAIN t = 1..(Len(s) + 1)
  /\ \A k \in DOMAIN s : t[k] = s[k]
  /\ t[Len(s) + 1] = e
  /\ Contract!RowNumbers(t) = Contract!RowNumbers(s) \union {e.raw_row_number}

\* It has one row number more.
LEMMA AppendedList ==
  ASSUME NEW s, IsList(s), NEW e
  PROVE  Longer(s, e, Append(s, e))
  <1> DEFINE t == Append(s, e)
  <1>1. PICK U : s \in Seq(U)
    BY DEF IsList
  <1>2. t \in Seq(U \union {e})
    BY <1>1
  <1>3. /\ Len(s) \in Nat /\ Len(t) = Len(s) + 1
        /\ DOMAIN t = DOMAIN s \union {Len(s) + 1} /\ DOMAIN t = 1..(Len(s) + 1)
        /\ \A k \in DOMAIN s : t[k] = s[k]
        /\ t[Len(s) + 1] = e
    BY <1>1
  <1> HIDE DEF t
  <1>4. Contract!RowNumbers(t) = Contract!RowNumbers(s) \union {e.raw_row_number}
    BY <1>3 DEF Contract!RowNumbers
  <1>5. Longer(s, e, t)
    BY <1>2, <1>3, <1>4 DEF IsList, Longer
  <1>6. QED
    BY <1>5 DEF t

-----------------------------------------------------------------------------
\* The loop of _canonicalize as an equation.
Loops(rows, n, f) ==
  f = [k \in 0..n |->
         IF k = 0
         THEN [events |-> <<>>, rejected |-> <<>>, duplicates |-> <<>>, seen |-> {}]
         ELSE CanonicalizeRow(rows, f[k - 1], k)]

\* It has a solution for any number of rows.
LEMMA LoopUnfolds ==
  ASSUME NEW rows, NEW n \in Nat
  PROVE  \E f : Loops(rows, n, f)
  <1> DEFINE base == [events |-> <<>>, rejected |-> <<>>, duplicates |-> <<>>, seen |-> {}]
             G == {k \in Nat : \E f : Loops(rows, k, f)}
  <1>1. 0 \in G
    <2> DEFINE f == [k \in 0..0 |-> base]
    <2>1. f = [k \in 0..0 |-> IF k = 0 THEN base ELSE CanonicalizeRow(rows, f[k - 1], k)]
      OBVIOUS
    <2> HIDE DEF f
    <2>2. QED
      BY <2>1 DEF Loops
  <1> HIDE DEF base
  <1>2. ASSUME NEW k \in 0..(n - 1), k \in G
        PROVE  k + 1 \in G
    <2>1. PICK f : Loops(rows, k, f)
      BY <1>2
    <2>2. f = [i \in 0..k |-> IF i = 0 THEN base ELSE CanonicalizeRow(rows, f[i - 1], i)]
      BY <2>1 DEF Loops, base
    <2>3. \A i \in 0..k : f[i] = IF i = 0 THEN base ELSE CanonicalizeRow(rows, f[i - 1], i)
      BY <2>2
    <2> DEFINE h == [i \in 0..(k + 1) |->
                       IF i = k + 1 THEN CanonicalizeRow(rows, f[k], i) ELSE f[i]]
    <2>4. /\ \A i \in 0..k : h[i] = f[i]
          /\ h[k + 1] = CanonicalizeRow(rows, f[k], k + 1)
          /\ h = [i \in 0..(k + 1) |-> h[i]]
      OBVIOUS
    <2> HIDE DEF h
    <2>5. \A i \in 0..(k + 1) : h[i] = IF i = 0 THEN base ELSE CanonicalizeRow(rows, h[i - 1], i)
      <3> SUFFICES ASSUME NEW i \in 0..(k + 1)
                   PROVE  h[i] = IF i = 0 THEN base ELSE CanonicalizeRow(rows, h[i - 1], i)
        OBVIOUS
      <3>1. CASE i = k + 1
        <4>1. i - 1 = k /\ i # 0 /\ k \in 0..k
          BY <3>1
        <4>2. h[i - 1] = f[k]
          BY <2>4, <4>1
        <4>3. QED
          BY <2>4, <3>1, <4>1, <4>2
      <3>2. CASE i # k + 1
        <4>1. i \in 0..k /\ (i # 0 => i - 1 \in 0..k)
          BY <3>2
        <4>2. h[i] = f[i] /\ (i # 0 => h[i - 1] = f[i - 1])
          BY <2>4, <4>1
        <4>3. QED
          BY <2>3, <4>1, <4>2
      <3>3. QED
        BY <3>1, <3>2
    <2>6. Loops(rows, k + 1, h)
      BY <2>4, <2>5 DEF Loops, base
    <2>7. QED
      BY <2>6
  <1> HIDE DEF G
  <1>3. \A k \in 0..n : k \in G
    BY <1>1, <1>2, UpTo
  <1>4. QED
    BY <1>3 DEF G

-----------------------------------------------------------------------------
\* A row is the first valid one of its detection.
IsFirst(rows, k) ==
  Valid(rows[k]) /\ \A l \in 1..(k - 1) :
                      Valid(rows[l]) => SourceRecordId(rows[l]) # SourceRecordId(rows[k])

\* Of the first k rows: those,
FirstRows(rows, k) == {i \in 1..k : IsFirst(rows, i)}

\* those that break the contract,
BadRows(rows, k) == {i \in 1..k : ~ Valid(rows[i])}

\* those that repeat a detection,
Repeats(rows, k) == {i \in 1..k : Valid(rows[i]) /\ ~ IsFirst(rows, i)}

\* and the detections of the valid ones.
SeenIds(rows, k) == {SourceRecordId(rows[i]) : i \in {j \in 1..k : Valid(rows[j])}}

\* The numbers that rows have in the raw object.
NumbersOf(S) == {i + 1 : i \in S}

\* An event of one of the first k rows.
EventOf(rows, k, e) ==
  /\ e.raw_row_number - 1 \in 1..k
  /\ e.event_id = SourceRecordId(rows[e.raw_row_number - 1])
  /\ e.event_id \in Nat \X {0}

\* What the loop holds after k rows.
Accounted(rows, k, acc) ==
  /\ acc = [events |-> acc.events, rejected |-> acc.rejected,
            duplicates |-> acc.duplicates, seen |-> acc.seen]
  /\ acc.events \in Seq(Lines) /\ IsList(acc.rejected) /\ IsList(acc.duplicates)
  /\ Len(acc.events) + Len(acc.rejected) + Len(acc.duplicates) = k
  /\ acc.seen = SeenIds(rows, k)
  /\ Contract!RowNumbers(acc.events) = NumbersOf(FirstRows(rows, k))
  /\ Contract!RowNumbers(acc.rejected) = NumbersOf(BadRows(rows, k))
  /\ Contract!RowNumbers(acc.duplicates) = NumbersOf(Repeats(rows, k))
  /\ \A i \in DOMAIN acc.events : EventOf(rows, k, acc.events[i])

\* What row n adds to the first k, where m is its number in the file.
TakesIn(rows, k, n, m) ==
  /\ IsFirst(rows, n) <=> Valid(rows[n]) /\ SourceRecordId(rows[n]) \notin SeenIds(rows, k)
  /\ IsFirst(rows, n) =>
       NumbersOf(FirstRows(rows, n)) = NumbersOf(FirstRows(rows, k)) \union {m}
  /\ ~ IsFirst(rows, n) => FirstRows(rows, n) = FirstRows(rows, k)
  /\ Valid(rows[n]) =>
       /\ BadRows(rows, n) = BadRows(rows, k)
       /\ SeenIds(rows, n) = SeenIds(rows, k) \union {SourceRecordId(rows[n])}
  /\ ~ Valid(rows[n]) =>
       /\ NumbersOf(BadRows(rows, n)) = NumbersOf(BadRows(rows, k)) \union {m}
       /\ SeenIds(rows, n) = SeenIds(rows, k)
  /\ Valid(rows[n]) /\ ~ IsFirst(rows, n) =>
       NumbersOf(Repeats(rows, n)) = NumbersOf(Repeats(rows, k)) \union {m}
  /\ ~ Valid(rows[n]) \/ IsFirst(rows, n) => Repeats(rows, n) = Repeats(rows, k)

\* One row more.
LEMMA OneRowMore ==
  ASSUME NEW rows, NEW k \in Nat, NEW n, n = k + 1, NEW m, m = n + 1
  PROVE  TakesIn(rows, k, n, m)
  <1>1. n \in 1..n /\ 1..n = 1..k \union {n} /\ n - 1 = k
    OBVIOUS
  <1>2. IsFirst(rows, n) <=> Valid(rows[n]) /\ SourceRecordId(rows[n]) \notin SeenIds(rows, k)
    BY <1>1 DEF IsFirst, SeenIds
  <1>3. /\ IsFirst(rows, n) => FirstRows(rows, n) = FirstRows(rows, k) \union {n}
        /\ ~ IsFirst(rows, n) => FirstRows(rows, n) = FirstRows(rows, k)
    BY <1>1 DEF FirstRows
  <1>4. /\ Valid(rows[n]) => BadRows(rows, n) = BadRows(rows, k)
        /\ ~ Valid(rows[n]) => BadRows(rows, n) = BadRows(rows, k) \union {n}
    BY <1>1 DEF BadRows
  <1>5. /\ Valid(rows[n]) /\ ~ IsFirst(rows, n) => Repeats(rows, n) = Repeats(rows, k) \union {n}
        /\ ~ Valid(rows[n]) \/ IsFirst(rows, n) => Repeats(rows, n) = Repeats(rows, k)
    BY <1>1 DEF Repeats
  <1>6. \A S : NumbersOf(S \union {n}) = NumbersOf(S) \union {m}
    BY DEF NumbersOf
  <1>7. /\ Valid(rows[n]) => SeenIds(rows, n) = SeenIds(rows, k) \union {SourceRecordId(rows[n])}
        /\ ~ Valid(rows[n]) => SeenIds(rows, n) = SeenIds(rows, k)
    BY <1>1 DEF SeenIds
  <1>8. QED
    BY <1>2, <1>3, <1>4, <1>5, <1>6, <1>7, Zenon DEF TakesIn

\* Every turn of the loop accounts for its row.
LEMMA RowAccounted ==
  ASSUME NEW rows, NEW k \in Nat, NEW n, n = k + 1, rows[n] \in Rows,
         NEW acc, Accounted(rows, k, acc)
  PROVE  Accounted(rows, n, CanonicalizeRow(rows, acc, n))
  <1> DEFINE m   == n + 1
             row == rows[n]
             id  == SourceRecordId(row)
             new == CanonicalizeRow(rows, acc, n)
             rej == [row |-> row, codes |-> RowErrors(row), raw_row_number |-> m]
             dup == [event_id |-> id, raw_row_number |-> m]
             ev  == CanonicalEvent(row, m)
  <1>1. /\ acc = [events |-> acc.events, rejected |-> acc.rejected,
                  duplicates |-> acc.duplicates, seen |-> acc.seen]
        /\ acc.events \in Seq(Lines) /\ IsList(acc.rejected) /\ IsList(acc.duplicates)
        /\ Len(acc.events) + Len(acc.rejected) + Len(acc.duplicates) = k
        /\ acc.seen = SeenIds(rows, k)
        /\ Contract!RowNumbers(acc.events) = NumbersOf(FirstRows(rows, k))
        /\ Contract!RowNumbers(acc.rejected) = NumbersOf(BadRows(rows, k))
        /\ Contract!RowNumbers(acc.duplicates) = NumbersOf(Repeats(rows, k))
        /\ \A i \in DOMAIN acc.events : EventOf(rows, k, acc.events[i])
    BY DEF Accounted
  <1>2. \A i \in DOMAIN acc.events : EventOf(rows, n, acc.events[i])
    <2>1. \A i : i \in 1..k => i \in 1..n
      OBVIOUS
    <2>2. QED
      BY <1>1, <2>1 DEF EventOf
  <1>3. IsList(acc.events) /\ Len(acc.events) \in Nat /\ Len(acc.rejected) \in Nat
        /\ Len(acc.duplicates) \in Nat
    BY <1>1 DEF IsList
  <1>4. m \in Nat /\ m - 1 = n /\ n \in 1..n /\ m = n + 1
    OBVIOUS
  <1>5. RowErrors(row) = {} <=> Valid(row)
    BY RowErrorsAreExact
  <1> HIDE DEF row, id, m
  <1>6. new = IF RowErrors(row) # {}
              THEN [acc EXCEPT !.rejected = Append(@, rej)]
              ELSE IF id \in acc.seen
              THEN [acc EXCEPT !.duplicates = Append(@, dup)]
              ELSE [acc EXCEPT !.events = Append(@, ev), !.seen = @ \union {id}]
    BY DEF CanonicalizeRow, row, id, m
  <1>7. rej.raw_row_number = m /\ dup.raw_row_number = m
    OBVIOUS
  <1> HIDE DEF rej, dup, ev, new
  <1>8. TakesIn(rows, k, n, m)
    BY <1>4, OneRowMore
  <1>9. CASE ~ Valid(row)
    <2>1. new = [events |-> acc.events, rejected |-> Append(acc.rejected, rej),
                 duplicates |-> acc.duplicates, seen |-> acc.seen]
      BY <1>1, <1>5, <1>6, <1>9
    <2>2. new.events = acc.events /\ new.rejected = Append(acc.rejected, rej)
          /\ new.duplicates = acc.duplicates /\ new.seen = acc.seen
      BY <2>1
    <2>3. /\ IsList(new.rejected) /\ Len(new.rejected) = Len(acc.rejected) + 1
          /\ Contract!RowNumbers(new.rejected) = Contract!RowNumbers(acc.rejected) \union {m}
      <3>1. Longer(acc.rejected, rej, Append(acc.rejected, rej))
        BY <1>1, AppendedList
      <3>2. QED
        BY <1>7, <2>2, <3>1 DEF Longer
    <2>4. ~ Valid(rows[n]) /\ ~ IsFirst(rows, n)
      BY <1>9, <1>8 DEF row, TakesIn
    <2>5. /\ NumbersOf(FirstRows(rows, n)) = NumbersOf(FirstRows(rows, k))
          /\ NumbersOf(BadRows(rows, n)) = NumbersOf(BadRows(rows, k)) \union {m}
          /\ NumbersOf(Repeats(rows, n)) = NumbersOf(Repeats(rows, k))
          /\ SeenIds(rows, n) = SeenIds(rows, k)
      BY <2>4, <1>8 DEF TakesIn
    <2>6. Len(new.events) + Len(new.rejected) + Len(new.duplicates) = n
      BY <1>1, <1>3, <2>2, <2>3
    <2>7. new = [events |-> new.events, rejected |-> new.rejected,
                 duplicates |-> new.duplicates, seen |-> new.seen]
      BY <2>1, <2>2
    <2>8. QED
      BY <1>1, <1>2, <2>2, <2>3, <2>5, <2>6, <2>7 DEF Accounted, new
  <1>10. CASE Valid(row) /\ id \in acc.seen
    <2>1. new = [events |-> acc.events, rejected |-> acc.rejected,
                 duplicates |-> Append(acc.duplicates, dup), seen |-> acc.seen]
      BY <1>1, <1>5, <1>6, <1>10
    <2>2. new.events = acc.events /\ new.rejected = acc.rejected
          /\ new.duplicates = Append(acc.duplicates, dup) /\ new.seen = acc.seen
      BY <2>1
    <2>3. /\ IsList(new.duplicates) /\ Len(new.duplicates) = Len(acc.duplicates) + 1
          /\ Contract!RowNumbers(new.duplicates) = Contract!RowNumbers(acc.duplicates) \union {m}
      <3>1. Longer(acc.duplicates, dup, Append(acc.duplicates, dup))
        BY <1>1, AppendedList
      <3>2. QED
        BY <1>7, <2>2, <3>1 DEF Longer
    <2>4. Valid(rows[n]) /\ ~ IsFirst(rows, n) /\ SourceRecordId(rows[n]) \in SeenIds(rows, k)
      BY <1>1, <1>10, <1>8 DEF row, id, TakesIn
    <2>5. /\ NumbersOf(FirstRows(rows, n)) = NumbersOf(FirstRows(rows, k))
          /\ NumbersOf(BadRows(rows, n)) = NumbersOf(BadRows(rows, k))
          /\ NumbersOf(Repeats(rows, n)) = NumbersOf(Repeats(rows, k)) \union {m}
          /\ SeenIds(rows, n) = SeenIds(rows, k)
      <3>1. /\ FirstRows(rows, n) = FirstRows(rows, k) /\ BadRows(rows, n) = BadRows(rows, k)
            /\ NumbersOf(Repeats(rows, n)) = NumbersOf(Repeats(rows, k)) \union {m}
            /\ SeenIds(rows, n) = SeenIds(rows, k) \union {SourceRecordId(rows[n])}
        BY <2>4, <1>8 DEF TakesIn
      <3>2. SeenIds(rows, k) \union {SourceRecordId(rows[n])} = SeenIds(rows, k)
        BY <2>4
      <3>3. QED
        BY <3>1, <3>2
    <2>6. Len(new.events) + Len(new.rejected) + Len(new.duplicates) = n
      BY <1>1, <1>3, <2>2, <2>3
    <2>7. new = [events |-> new.events, rejected |-> new.rejected,
                 duplicates |-> new.duplicates, seen |-> new.seen]
      BY <2>1, <2>2
    <2>8. QED
      BY <1>1, <1>2, <2>2, <2>3, <2>5, <2>6, <2>7 DEF Accounted, new
  <1>11. CASE Valid(row) /\ id \notin acc.seen
    <2>1. new = [events |-> Append(acc.events, ev), rejected |-> acc.rejected,
                 duplicates |-> acc.duplicates, seen |-> acc.seen \union {id}]
      BY <1>1, <1>5, <1>6, <1>11
    <2>2. new.events = Append(acc.events, ev) /\ new.rejected = acc.rejected
          /\ new.duplicates = acc.duplicates /\ new.seen = acc.seen \union {id}
      BY <2>1
    <2>3. /\ ev \in Lines /\ ev.event_id = <<row.det, 0>> /\ ev.event_id \in Nat \X {0}
          /\ ev.raw_row_number = m
      <3>1. row \in Rows /\ Valid(row)
        BY <1>11 DEF row
      <3>2. QED
        BY <1>4, <3>1, CanonicalEventIs DEF ev
    <2>4. /\ Len(new.events) = Len(acc.events) + 1 /\ DOMAIN new.events = 1..(Len(acc.events) + 1)
          /\ \A i \in DOMAIN acc.events : new.events[i] = acc.events[i]
          /\ new.events[Len(acc.events) + 1] = ev
          /\ Contract!RowNumbers(new.events) = Contract!RowNumbers(acc.events) \union {m}
      <3>1. Longer(acc.events, ev, Append(acc.events, ev))
        BY <1>3, AppendedList
      <3>2. QED
        BY <2>2, <2>3, <3>1 DEF Longer
    <2>5. new.events \in Seq(Lines)
      BY <1>1, <2>2, <2>3
    <2>6. Valid(rows[n]) /\ IsFirst(rows, n)
      BY <1>1, <1>11, <1>8 DEF row, id, TakesIn
    <2>7. /\ NumbersOf(FirstRows(rows, n)) = NumbersOf(FirstRows(rows, k)) \union {m}
          /\ NumbersOf(BadRows(rows, n)) = NumbersOf(BadRows(rows, k))
          /\ NumbersOf(Repeats(rows, n)) = NumbersOf(Repeats(rows, k))
          /\ SeenIds(rows, n) = SeenIds(rows, k) \union {id}
      <3>1. /\ NumbersOf(FirstRows(rows, n)) = NumbersOf(FirstRows(rows, k)) \union {m}
            /\ BadRows(rows, n) = BadRows(rows, k) /\ Repeats(rows, n) = Repeats(rows, k)
            /\ SeenIds(rows, n) = SeenIds(rows, k) \union {SourceRecordId(rows[n])}
        BY <1>8, <2>6 DEF TakesIn
      <3>2. SourceRecordId(rows[n]) = id
        BY DEF row, id
      <3>3. QED
        BY <3>1, <3>2
    <2>8. EventOf(rows, n, ev)
      <3>1. SourceRecordId(rows[n]) = <<row.det, 0>>
        BY DEF SourceRecordId, row
      <3>2. QED
        BY <1>4, <2>3, <3>1 DEF EventOf
    <2>9. \A i \in DOMAIN new.events : EventOf(rows, n, new.events[i])
      <3>1. DOMAIN acc.events = 1..Len(acc.events)
        BY <1>1
      <3>2. \A i \in DOMAIN new.events : i \in DOMAIN acc.events \/ i = Len(acc.events) + 1
        BY <1>3, <2>4, <3>1
      <3>3. QED
        BY <1>2, <2>4, <2>8, <3>2
    <2>10. Len(new.events) + Len(new.rejected) + Len(new.duplicates) = n
      BY <1>1, <1>3, <2>2, <2>4
    <2>11. new = [events |-> new.events, rejected |-> new.rejected,
                 duplicates |-> new.duplicates, seen |-> new.seen]
      BY <2>1, <2>2
    <2>12. QED
      BY <1>1, <2>2, <2>4, <2>5, <2>7, <2>9, <2>10, <2>11 DEF Accounted, new
  <1>13. QED
    BY <1>9, <1>10, <1>11

\* So that at the end all rows are accounted for.
LEMMA RowsAccounted ==
  ASSUME NEW rows \in Seq(Rows)
  PROVE  Accounted(rows, Len(rows), Canonicalized(rows))
  <1> DEFINE n == Len(rows)
             f == CHOOSE h : Loops(rows, n, h)
             base == [events |-> <<>>, rejected |-> <<>>, duplicates |-> <<>>, seen |-> {}]
  <1>1. n \in Nat /\ \A k \in 1..n : rows[k] \in Rows
    OBVIOUS
  <1>2. Canonicalized(rows) = f[n]
    BY DEF Canonicalized, Loops
  <1> HIDE DEF n
  <1>3. Loops(rows, n, f)
    BY <1>1, LoopUnfolds
  <1> HIDE DEF f
  <1>4. \A k \in 0..n : f[k] = IF k = 0 THEN base ELSE CanonicalizeRow(rows, f[k - 1], k)
    <2>1. f = [k \in 0..n |-> IF k = 0 THEN base ELSE CanonicalizeRow(rows, f[k - 1], k)]
      BY <1>3 DEF Loops
    <2> HIDE DEF base
    <2>2. QED
      BY <2>1
  <1>5. Accounted(rows, 0, base)
    <2>1. base.events = <<>> /\ base.rejected = <<>> /\ base.duplicates = <<>> /\ base.seen = {}
      OBVIOUS
    <2>2. <<>> \in Seq(Lines) /\ IsList(<<>>) /\ Len(<<>>) = 0 /\ DOMAIN <<>> = {}
      BY DEF IsList
    <2>3. Contract!RowNumbers(<<>>) = {}
      BY <2>2 DEF Contract!RowNumbers
    <2>4. SeenIds(rows, 0) = {} /\ NumbersOf(FirstRows(rows, 0)) = {}
          /\ NumbersOf(BadRows(rows, 0)) = {} /\ NumbersOf(Repeats(rows, 0)) = {}
      BY DEF SeenIds, NumbersOf, FirstRows, BadRows, Repeats
    <2>5. 0 + 0 + 0 = 0
      OBVIOUS
    <2>6. base = [events |-> base.events, rejected |-> base.rejected,
                  duplicates |-> base.duplicates, seen |-> base.seen]
      OBVIOUS
    <2> HIDE DEF base
    <2>7. QED
      BY <2>1, <2>2, <2>3, <2>4, <2>5, <2>6 DEF Accounted
  <1> HIDE DEF base
  <1> DEFINE G == {k \in Nat : k <= n => Accounted(rows, k, f[k])}
  <1>6. 0 \in G
    BY <1>1, <1>4, <1>5
  <1>7. ASSUME NEW k \in 0..(n - 1), k \in G PROVE k + 1 \in G
    <2>1. k \in Nat /\ k <= n /\ k + 1 \in 0..n /\ k + 1 # 0 /\ (k + 1) - 1 = k /\ k + 1 \in 1..n
      BY <1>1
    <2>2. Accounted(rows, k, f[k])
      BY <1>7, <2>1
    <2>3. f[k + 1] = CanonicalizeRow(rows, f[k], k + 1)
      BY <1>4, <2>1
    <2>4. Accounted(rows, k + 1, f[k + 1])
      BY <1>1, <2>1, <2>2, <2>3, RowAccounted
    <2>5. QED
      BY <2>1, <2>4
  <1>8. n \in 0..n /\ n <= n
    BY <1>1
  <1>9. n \in G
    <2> HIDE DEF G
    <2>1. QED
      BY <1>1, <1>6, <1>7, <1>8, UpTo
  <1>10. QED
    BY <1>2, <1>8, <1>9 DEF n

\* Whatever the rows of the raw object, the three files of the canonicalization are what
\* the canonical contract says: each row has one outcome, and a detection is accepted at
\* its first valid row (_canonicalize in canonicalization.py).
THEOREM CanonicalHolds ==
  ASSUME NEW rows \in Seq(Rows), NEW out,
         \A p \in {"events", "rejected", "duplicates"} : out[p] = Canonicalized(rows)[p]
  PROVE  /\ out["events"] \in Seq(Lines)
         /\ \A k \in 1..Len(out["events"]) : out["events"][k].event_id \in Nat \X {0}
         /\ Contract!IsCanonical(rows, out)
  <1> DEFINE c == Canonicalized(rows)
             n == Len(rows)
             events == out["events"]
  <1>1. Accounted(rows, n, c)
    BY RowsAccounted
  <1>2. n \in Nat /\ DOMAIN rows = 1..n
    OBVIOUS
  <1>3. events = c.events /\ out["rejected"] = c.rejected /\ out["duplicates"] = c.duplicates
    OBVIOUS
  <1> HIDE DEF c, n, events
  <1>4. /\ events \in Seq(Lines)
        /\ Len(events) + Len(out["rejected"]) + Len(out["duplicates"]) = n
        /\ Contract!RowNumbers(events) = NumbersOf(FirstRows(rows, n))
        /\ Contract!RowNumbers(out["rejected"]) = NumbersOf(BadRows(rows, n))
        /\ Contract!RowNumbers(out["duplicates"]) = NumbersOf(Repeats(rows, n))
        /\ \A i \in DOMAIN events : EventOf(rows, n, events[i])
    BY <1>1, <1>3 DEF Accounted
  <1>5. DOMAIN events = 1..Len(events)
    BY <1>4
  <1> DEFINE firsts == {k \in DOMAIN rows : ~ Invalid(rows[k]) /\ \A l \in 1..(k - 1) :
                          ~ Invalid(rows[l]) => SourceRecordId(rows[l]) # SourceRecordId(rows[k])}
             bad == {k \in DOMAIN rows : Invalid(rows[k])}
  <1>6. FirstRows(rows, n) = firsts
    BY <1>2 DEF FirstRows, IsFirst, Invalid
  <1>7. BadRows(rows, n) = bad
    BY <1>2 DEF BadRows, Invalid
  <1>8. Repeats(rows, n) = DOMAIN rows \ (firsts \union bad)
    <2>1. Repeats(rows, n) = DOMAIN rows \ (FirstRows(rows, n) \union BadRows(rows, n))
      BY <1>2 DEF Repeats, FirstRows, BadRows, IsFirst
    <2> HIDE DEF firsts, bad
    <2>2. QED
      BY <1>6, <1>7, <2>1
  <1>9. Contract!IsCanonical(rows, out) <=>
          /\ Contract!RowNumbers(out["events"]) = {k + 1 : k \in firsts}
          /\ Contract!RowNumbers(out["rejected"]) = {k + 1 : k \in bad}
          /\ Contract!RowNumbers(out["duplicates"]) =
               {k + 1 : k \in DOMAIN rows \ (firsts \union bad)}
          /\ Len(out["events"]) + Len(out["rejected"]) + Len(out["duplicates"]) = Len(rows)
          /\ \A k \in DOMAIN out["events"] :
               out["events"][k].event_id = SourceRecordId(rows[out["events"][k].raw_row_number - 1])
    BY DEF Contract!IsCanonical, Contract!Firsts
  <1> HIDE DEF firsts, bad
  <1>10. Contract!IsCanonical(rows, out)
    BY <1>4, <1>6, <1>7, <1>8, <1>9 DEF NumbersOf, EventOf, events, n
  <1>11. QED
    BY <1>4, <1>5, <1>10 DEF EventOf, events

-----------------------------------------------------------------------------
(* The classification of Batch Silver: each rule of the SQL, and all of them. *)

\* The values of a SQL condition,
Truth == {TRUE, FALSE, NULL}

\* which differ from each other,
LEMMA NullIsNoTruth == NULL # TRUE /\ NULL # FALSE /\ TRUE # FALSE
  <1>1. TRUE \in BOOLEAN /\ FALSE \in BOOLEAN /\ NULL \notin BOOLEAN
    BY LakeAssumption
  <1>2. QED
    BY <1>1

\* When a condition is true, and that it has a value.
LEMMA OrIsTrue ==
  ASSUME NEW S
  PROVE  Or3(S) \in Truth /\ (Or3(S) = TRUE <=> TRUE \in S)
  BY NullIsNoTruth, Zenon DEF Or3, Truth

\* and when each connective and comparison of the rules is TRUE: NOT,
LEMMA NotIsTrue ==
  ASSUME NEW a \in Truth
  PROVE  Not3(a) \in Truth /\ (Not3(a) = TRUE <=> a = FALSE) /\ (Not3(a) = NULL <=> a = NULL)
  <1>1. CASE a = NULL
    BY <1>1, NullIsNoTruth DEF Not3, Truth
  <1>2. CASE a = TRUE
    BY <1>2, NullIsNoTruth DEF Not3, Truth
  <1>3. CASE a = FALSE
    BY <1>3, NullIsNoTruth DEF Not3, Truth
  <1>4. QED
    BY <1>1, <1>2, <1>3 DEF Truth

\* AND,
LEMMA AndIsTrue ==
  ASSUME NEW a \in Truth, NEW b \in Truth
  PROVE  And3(a, b) = TRUE <=> a = TRUE /\ b = TRUE
  <1> DEFINE x == Not3(a)
             y == Not3(b)
             o == Or3({x, y})
  <1>1. x \in Truth /\ y \in Truth /\ (x = TRUE <=> a = FALSE) /\ (y = TRUE <=> b = FALSE)
        /\ (x = NULL <=> a = NULL) /\ (y = NULL <=> b = NULL)
    BY NotIsTrue
  <1>2. And3(a, b) = Not3(o)
    BY DEF And3
  <1> HIDE DEF x, y
  <1>3. o = FALSE <=> x = FALSE /\ y = FALSE
    BY <1>1, NullIsNoTruth, Zenon DEF Or3, Truth
  <1>4. o \in Truth
    BY OrIsTrue
  <1> HIDE DEF o
  <1>5. And3(a, b) = TRUE <=> o = FALSE
    BY <1>2, <1>4, NotIsTrue
  <1>6. x = FALSE <=> a = TRUE
    BY <1>1, NullIsNoTruth, Zenon DEF Truth
  <1>7. y = FALSE <=> b = TRUE
    BY <1>1, NullIsNoTruth, Zenon DEF Truth
  <1>8. QED
    BY <1>3, <1>5, <1>6, <1>7

\* <>,
LEMMA NeqIsTrue ==
  ASSUME NEW a, NEW b
  PROVE  Neq(a, b) \in Truth /\ (Neq(a, b) = TRUE <=> a # NULL /\ b # NULL /\ a # b)
         /\ (Neq(a, b) = FALSE <=> a # NULL /\ b # NULL /\ a = b)
  <1>1. CASE NULL \in {a, b}
    <2>1. Neq(a, b) = NULL
      BY <1>1 DEF Neq
    <2>2. QED
      BY <1>1, <2>1, NullIsNoTruth DEF Truth
  <1>2. CASE NULL \notin {a, b} /\ a = b
    <2>1. Neq(a, b) = FALSE
      BY <1>2 DEF Neq
    <2>2. QED
      BY <1>2, <2>1, NullIsNoTruth DEF Truth
  <1>3. CASE NULL \notin {a, b} /\ a # b
    <2>1. Neq(a, b) = TRUE
      BY <1>3 DEF Neq
    <2>2. QED
      BY <1>3, <2>1, NullIsNoTruth DEF Truth
  <1>4. QED
    BY <1>1, <1>2, <1>3

\* =,
LEMMA EqIsTrue ==
  ASSUME NEW a, NEW b
  PROVE  Eq(a, b) \in Truth /\ (Eq(a, b) = TRUE <=> a # NULL /\ b # NULL /\ a = b)
  BY NeqIsTrue, NotIsTrue DEF Eq

\* NOT IN,
LEMMA NotInIsTrue ==
  ASSUME NEW a, NEW S
  PROVE  NotIn(a, S) = TRUE <=> a # NULL /\ a \notin S
  BY NullIsNoTruth, Zenon DEF NotIn

\* <,
LEMMA LessIsTrue ==
  ASSUME NEW a \in Int \union {NULL}, NEW b \in Int \union {NULL}
  PROVE  Less(a, b) \in Truth /\ (Less(a, b) = TRUE <=> a # NULL /\ b # NULL /\ a < b)
  <1>1. CASE NULL \in {a, b}
    <2>1. Less(a, b) = NULL
      BY <1>1 DEF Less
    <2>2. QED
      BY <1>1, <2>1, NullIsNoTruth DEF Truth
  <1>2. CASE NULL \notin {a, b} /\ a < b
    <2>1. Less(a, b) = TRUE
      BY <1>2 DEF Less
    <2>2. QED
      BY <1>2, <2>1, NullIsNoTruth DEF Truth
  <1>3. CASE NULL \notin {a, b} /\ ~ (a < b)
    <2>1. Less(a, b) = FALSE
      BY <1>3 DEF Less
    <2>2. QED
      BY <1>3, <2>1, NullIsNoTruth DEF Truth
  <1>4. QED
    BY <1>1, <1>2, <1>3

\* and IS NULL OR trim = ''.
LEMMA MissingIsTrue ==
  ASSUME NEW a
  PROVE  Missing(a) \in Truth /\ (Missing(a) = TRUE <=> a \in {NULL, BLANK})
  <1>1. CASE a \in {NULL, BLANK}
    <2>1. Missing(a) = TRUE
      BY <1>1 DEF Missing
    <2>2. QED
      BY <1>1, <2>1 DEF Truth
  <1>2. CASE a \notin {NULL, BLANK}
    <2>1. Missing(a) = FALSE
      BY <1>2 DEF Missing
    <2>2. QED
      BY <1>2, <2>1, NullIsNoTruth DEF Truth
  <1>3. QED
    BY <1>1, <1>2

\* A condition on events of one source type.
LEMMA ClaimsIsTrue ==
  ASSUME NEW e, NEW type, type # NULL, NEW wrong \in Truth
  PROVE  Claims(e, type, wrong) = TRUE <=> e.source_type = type /\ wrong = TRUE
  <1> DEFINE q == Eq(e.source_type, type)
  <1>1. q \in Truth /\ (q = TRUE <=> e.source_type # NULL /\ type # NULL /\ e.source_type = type)
    BY EqIsTrue
  <1>2. Claims(e, type, wrong) = And3(q, wrong)
    BY DEF Claims
  <1> HIDE DEF q
  <1>3. And3(q, wrong) = TRUE <=> q = TRUE /\ wrong = TRUE
    BY <1>1, AndIsTrue
  <1>4. QED
    BY <1>1, <1>2, <1>3, Zenon

\* The fields of a line.
LEMMA LineFields ==
  ASSUME NEW e \in Lines
  PROVE  /\ e.corrupt \in BOOLEAN /\ e.is_synthetic \in Truth
         /\ e.event_timestamp \in Int \union {NULL} /\ e.ingestion_timestamp \in Int \union {NULL}
         /\ e.replay_iteration \in Int \union {NULL}
         /\ e.replay_sequence_number \in Int \union {NULL} /\ e.scheduled \in Int \union {NULL}
         /\ e.place \in {"inside", "outside", NULL}
         /\ e.source_type \in {"NASA_ORIGINAL", "NASA_REPLAY", "SYNTHETIC_SCALE_TEST", "OTHER",
                               NULL, BLANK}
         /\ e.schema_version \in {"1.0.0", "2.0.0", NULL, BLANK}
         /\ e.day_night \in {"D", "N", "X", NULL, BLANK}
         /\ e.bright \in {"below", "zero", "above", NULL}
         /\ e.frp \in {"below", "zero", "above", NULL}
  <1>1. e.is_synthetic \in BOOLEAN \union {NULL}
    BY DEF Lines
  <1>2. e.is_synthetic \in Truth
    BY <1>1 DEF Truth
  <1>3. QED
    BY <1>2 DEF Lines

\* NULL and BLANK are no texts.
LEMMA NullIsNoText ==
  \A t \in Texts : t # NULL /\ t # BLANK
  BY LakeAssumption

\* An event has no error code when none of the conditions is true.
LEMMA NoErrors ==
  ASSUME NEW e
  PROVE  SparkErrors(e) = {} <=> \A x \in Checks(e) : x[2] # TRUE
  BY DEF SparkErrors

\* Condition by condition.
LEMMA SparkErrorsAre ==
  ASSUME NEW e \in Lines
  PROVE  SparkErrors(e) = {} <=>
           /\ ~ e.corrupt
           /\ e.event_id \notin {NULL, BLANK}
           /\ e.detection_id \notin {NULL, BLANK}
           /\ e.lineage_root_id \notin {NULL, BLANK}
           /\ e.source_type \notin {NULL, BLANK}
           /\ e.context \notin {NULL, BLANK}
           /\ e.is_synthetic # NULL
           /\ e.event_timestamp # NULL
           /\ e.ingestion_timestamp # NULL
           /\ e.place = "inside"
           /\ e.source_type = NULL
                \/ e.source_type \in {"NASA_ORIGINAL", "NASA_REPLAY", "SYNTHETIC_SCALE_TEST"}
           /\ e.schema_version \in {NULL, "1.0.0"}
           /\ ~ (e.source_type = "NASA_ORIGINAL" /\ e.is_synthetic = TRUE)
           /\ ~ (e.source_type = "NASA_ORIGINAL" /\ e.event_id # NULL
                /\ ((e.detection_id # NULL /\ e.event_id # e.detection_id)
                     \/ (e.lineage_root_id # NULL /\ e.event_id # e.lineage_root_id)))
           /\ ~ (e.source_type = "NASA_REPLAY"
                /\ (e.is_synthetic = TRUE \/ e.origin_run \in {NULL, BLANK}))
           /\ ~ (e.source_type = "NASA_REPLAY" /\ e.scheduled = NULL)
           /\ ~ (e.source_type = "NASA_REPLAY"
                /\ (e.replay_iteration = NULL \/ e.replay_iteration < 1))
           /\ ~ (e.source_type = "NASA_REPLAY"
                /\ (e.replay_sequence_number = NULL \/ e.replay_sequence_number < 0))
           /\ ~ (e.source_type = "SYNTHETIC_SCALE_TEST"
                /\ (e.is_synthetic = FALSE \/ e.origin_run \in {NULL, BLANK}))
           /\ ~ (e.ingestion_timestamp # NULL /\ e.event_timestamp # NULL
                /\ e.ingestion_timestamp < e.event_timestamp)
           /\ e.day_night \in {NULL, "D", "N"}
           /\ e.bright \in {NULL, "above"}
           /\ e.frp \in {NULL, "zero", "above"}
  <1> DEFINE c1 == e.corrupt
             c2 == Missing(e.event_id)
             c3 == Missing(e.detection_id)
             c4 == Missing(e.lineage_root_id)
             c5 == Missing(e.source_type)
             c6 == Missing(e.context)
             c7 == e.is_synthetic = NULL
             c8 == e.event_timestamp = NULL
             c9 == e.ingestion_timestamp = NULL
             c10 == Or3({e.place = NULL, Neq(e.place, "inside")})
             c11 == NotIn(e.source_type, {"NASA_ORIGINAL", "NASA_REPLAY", "SYNTHETIC_SCALE_TEST"})
             c12 == Neq(e.schema_version, "1.0.0")
             c13 == Claims(e, "NASA_ORIGINAL", e.is_synthetic)
             c14 == Claims(e, "NASA_ORIGINAL",
                      Or3({Neq(e.event_id, e.detection_id), Neq(e.event_id, e.lineage_root_id)}))
             c15 == Claims(e, "NASA_REPLAY", Or3({e.is_synthetic, Missing(e.origin_run)}))
             c16 == Claims(e, "NASA_REPLAY", e.scheduled = NULL)
             c17 == Claims(e, "NASA_REPLAY",
                      Or3({e.replay_iteration = NULL, Less(e.replay_iteration, 1)}))
             c18 == Claims(e, "NASA_REPLAY",
                      Or3({e.replay_sequence_number = NULL, Less(e.replay_sequence_number, 0)}))
             c19 == Claims(e, "SYNTHETIC_SCALE_TEST",
                      Or3({Not3(e.is_synthetic), Missing(e.origin_run)}))
             c20 == Less(e.ingestion_timestamp, e.event_timestamp)
             c21 == NotIn(e.day_night, {"D", "N"})
             c22 == e.bright \in {"below", "zero"}
             c23 == e.frp = "below"
  <1>1. Checks(e) =
          {<<"CORRUPT_JSON", c1>>,
           <<"MISSING_EVENT_ID", c2>>,
           <<"MISSING_DETECTION_ID", c3>>,
           <<"MISSING_LINEAGE_ROOT_ID", c4>>,
           <<"MISSING_SOURCE_TYPE", c5>>,
           <<"MISSING_CONTEXT", c6>>,
           <<"MISSING_IS_SYNTHETIC", c7>>,
           <<"MISSING_EVENT_TIMESTAMP", c8>>,
           <<"MISSING_INGESTION_TIMESTAMP", c9>>,
           <<"INVALID_PLACE", c10>>,
           <<"INVALID_SOURCE_TYPE", c11>>,
           <<"INVALID_SCHEMA_VERSION", c12>>,
           <<"ORIGINAL_MARKED_SYNTHETIC", c13>>,
           <<"ORIGINAL_IDENTITY_MISMATCH", c14>>,
           <<"INVALID_REPLAY_CLASSIFICATION", c15>>,
           <<"MISSING_SCHEDULED", c16>>,
           <<"INVALID_REPLAY_ITERATION", c17>>,
           <<"INVALID_REPLAY_SEQUENCE", c18>>,
           <<"INVALID_SYNTHETIC", c19>>,
           <<"EVENT_AFTER_INGESTION", c20>>,
           <<"INVALID_DAY_NIGHT", c21>>,
           <<"NON_POSITIVE_MEASURE", c22>>,
           <<"NEGATIVE_FIRE_RADIATIVE_POWER", c23>>}
    BY DEF Checks
  <1>2. c1 # TRUE <=> ~ e.corrupt
    BY LineFields
  <1>3. c2 # TRUE <=> e.event_id \notin {NULL, BLANK}
    BY MissingIsTrue
  <1>4. c3 # TRUE <=> e.detection_id \notin {NULL, BLANK}
    BY MissingIsTrue
  <1>5. c4 # TRUE <=> e.lineage_root_id \notin {NULL, BLANK}
    BY MissingIsTrue
  <1>6. c5 # TRUE <=> e.source_type \notin {NULL, BLANK}
    BY MissingIsTrue
  <1>7. c6 # TRUE <=> e.context \notin {NULL, BLANK}
    BY MissingIsTrue
  <1>8. c7 # TRUE <=> e.is_synthetic # NULL
    BY NullIsNoTruth, Zenon
  <1>9. c8 # TRUE <=> e.event_timestamp # NULL
    BY NullIsNoTruth, Zenon
  <1>10. c9 # TRUE <=> e.ingestion_timestamp # NULL
    BY NullIsNoTruth, Zenon
  <1>11. c10 # TRUE <=> e.place = "inside"
    <2>1. Neq(e.place, "inside") = TRUE <=> e.place # NULL /\ "inside" # NULL /\ e.place # "inside"
      BY NeqIsTrue
    <2>2. (e.place = NULL) = TRUE <=> e.place = NULL
      OBVIOUS
    <2>3. "inside" # NULL
      BY NullIsNoText DEF Texts
    <2>4. c10 = TRUE <=> TRUE \in {e.place = NULL, Neq(e.place, "inside")}
      BY OrIsTrue
    <2>5. QED
      BY <2>1, <2>2, <2>3, <2>4, Zenon
  <1>12. c11 # TRUE
           <=> e.source_type = NULL
             \/ e.source_type \in {"NASA_ORIGINAL", "NASA_REPLAY", "SYNTHETIC_SCALE_TEST"}
    <2>1. c11 = TRUE
            <=> e.source_type # NULL
              /\ e.source_type \notin {"NASA_ORIGINAL", "NASA_REPLAY", "SYNTHETIC_SCALE_TEST"}
      BY NotInIsTrue
    <2>2. QED
      BY <2>1
  <1>13. c12 # TRUE <=> e.schema_version \in {NULL, "1.0.0"}
    <2>1. "1.0.0" # NULL
      BY NullIsNoText DEF Texts
    <2>2. c12 = TRUE <=> e.schema_version # NULL /\ "1.0.0" # NULL /\ e.schema_version # "1.0.0"
      BY NeqIsTrue
    <2>3. QED
      BY <2>1, <2>2
  <1>14. c13 # TRUE <=> ~ (e.source_type = "NASA_ORIGINAL" /\ e.is_synthetic = TRUE)
    <2> DEFINE wrong == e.is_synthetic
    <2>1. "NASA_ORIGINAL" # NULL
      BY NullIsNoText DEF Texts
    <2>2. wrong \in Truth
      BY LineFields
    <2>3. wrong = TRUE <=> e.is_synthetic = TRUE
      OBVIOUS
    <2> HIDE DEF wrong
    <2>4. c13 = TRUE <=> e.source_type = "NASA_ORIGINAL" /\ wrong = TRUE
      BY <2>1, <2>2, ClaimsIsTrue DEF wrong
    <2>5. QED
      BY <2>3, <2>4
  <1>15. c14 # TRUE
           <=> ~ (e.source_type = "NASA_ORIGINAL" /\ e.event_id # NULL
             /\ ((e.detection_id # NULL /\ e.event_id # e.detection_id)
                  \/ (e.lineage_root_id # NULL /\ e.event_id # e.lineage_root_id)))
    <2> DEFINE wrong == Or3({Neq(e.event_id, e.detection_id), Neq(e.event_id, e.lineage_root_id)})
    <2>1. "NASA_ORIGINAL" # NULL
      BY NullIsNoText DEF Texts
    <2>2. wrong \in Truth
      BY OrIsTrue
    <2>3. wrong = TRUE
            <=> e.event_id # NULL
              /\ ((e.detection_id # NULL /\ e.event_id # e.detection_id)
                   \/ (e.lineage_root_id # NULL /\ e.event_id # e.lineage_root_id))
      <3>1. wrong = TRUE
              <=> TRUE \in {Neq(e.event_id, e.detection_id), Neq(e.event_id, e.lineage_root_id)}
        BY OrIsTrue
      <3>2. QED
        BY <3>1, NeqIsTrue
    <2> HIDE DEF wrong
    <2>4. c14 = TRUE <=> e.source_type = "NASA_ORIGINAL" /\ wrong = TRUE
      BY <2>1, <2>2, ClaimsIsTrue DEF wrong
    <2>5. QED
      BY <2>3, <2>4
  <1>16. c15 # TRUE
           <=> ~ (e.source_type = "NASA_REPLAY"
             /\ (e.is_synthetic = TRUE \/ e.origin_run \in {NULL, BLANK}))
    <2> DEFINE wrong == Or3({e.is_synthetic, Missing(e.origin_run)})
    <2>1. "NASA_REPLAY" # NULL
      BY NullIsNoText DEF Texts
    <2>2. wrong \in Truth
      BY OrIsTrue
    <2>3. wrong = TRUE <=> e.is_synthetic = TRUE \/ e.origin_run \in {NULL, BLANK}
      <3>1. wrong = TRUE <=> TRUE \in {e.is_synthetic, Missing(e.origin_run)}
        BY OrIsTrue
      <3>2. Missing(e.origin_run) = TRUE <=> e.origin_run \in {NULL, BLANK}
        BY MissingIsTrue
      <3>3. QED
        BY <3>1, <3>2
    <2> HIDE DEF wrong
    <2>4. c15 = TRUE <=> e.source_type = "NASA_REPLAY" /\ wrong = TRUE
      BY <2>1, <2>2, ClaimsIsTrue DEF wrong
    <2>5. QED
      BY <2>3, <2>4
  <1>17. c16 # TRUE <=> ~ (e.source_type = "NASA_REPLAY" /\ e.scheduled = NULL)
    <2> DEFINE wrong == e.scheduled = NULL
    <2>1. "NASA_REPLAY" # NULL
      BY NullIsNoText DEF Texts
    <2>2. wrong \in Truth
      BY DEF Truth
    <2>3. wrong = TRUE <=> e.scheduled = NULL
      OBVIOUS
    <2> HIDE DEF wrong
    <2>4. c16 = TRUE <=> e.source_type = "NASA_REPLAY" /\ wrong = TRUE
      BY <2>1, <2>2, ClaimsIsTrue DEF wrong
    <2>5. QED
      BY <2>3, <2>4
  <1>18. c17 # TRUE
           <=> ~ (e.source_type = "NASA_REPLAY"
             /\ (e.replay_iteration = NULL \/ e.replay_iteration < 1))
    <2> DEFINE wrong == Or3({e.replay_iteration = NULL, Less(e.replay_iteration, 1)})
    <2>1. "NASA_REPLAY" # NULL
      BY NullIsNoText DEF Texts
    <2>2. wrong \in Truth
      BY OrIsTrue
    <2>3. wrong = TRUE <=> e.replay_iteration = NULL \/ e.replay_iteration < 1
      <3>0. 1 \in Int /\ 1 # NULL
        BY LakeAssumption
      <3>1. wrong = TRUE <=> TRUE \in {e.replay_iteration = NULL, Less(e.replay_iteration, 1)}
        BY OrIsTrue
      <3>2. Less(e.replay_iteration, 1) = TRUE
              <=> e.replay_iteration # NULL /\ 1 # NULL /\ e.replay_iteration < 1
        BY <3>0, LineFields, LessIsTrue
      <3>3. (e.replay_iteration = NULL) = TRUE <=> e.replay_iteration = NULL
        OBVIOUS
      <3> DEFINE low == e.replay_iteration < 1
      <3> HIDE DEF low
      <3>4. Less(e.replay_iteration, 1) = TRUE <=> e.replay_iteration # NULL /\ 1 # NULL /\ low
        BY <3>2 DEF low
      <3>5. wrong = TRUE <=> e.replay_iteration = NULL \/ low
        BY <3>0, <3>1, <3>3, <3>4, Zenon
      <3>6. QED
        BY <3>5 DEF low
    <2> HIDE DEF wrong
    <2>4. c17 = TRUE <=> e.source_type = "NASA_REPLAY" /\ wrong = TRUE
      BY <2>1, <2>2, ClaimsIsTrue DEF wrong
    <2>5. QED
      BY <2>3, <2>4
  <1>19. c18 # TRUE
           <=> ~ (e.source_type = "NASA_REPLAY"
             /\ (e.replay_sequence_number = NULL \/ e.replay_sequence_number < 0))
    <2> DEFINE wrong == Or3({e.replay_sequence_number = NULL, Less(e.replay_sequence_number, 0)})
    <2>1. "NASA_REPLAY" # NULL
      BY NullIsNoText DEF Texts
    <2>2. wrong \in Truth
      BY OrIsTrue
    <2>3. wrong = TRUE <=> e.replay_sequence_number = NULL \/ e.replay_sequence_number < 0
      <3>0. 0 \in Int /\ 0 # NULL
        BY LakeAssumption
      <3>1. wrong = TRUE
              <=> TRUE \in {e.replay_sequence_number = NULL, Less(e.replay_sequence_number, 0)}
        BY OrIsTrue
      <3>2. Less(e.replay_sequence_number, 0) = TRUE
              <=> e.replay_sequence_number # NULL /\ 0 # NULL /\ e.replay_sequence_number < 0
        BY <3>0, LineFields, LessIsTrue
      <3>3. (e.replay_sequence_number = NULL) = TRUE <=> e.replay_sequence_number = NULL
        OBVIOUS
      <3> DEFINE low == e.replay_sequence_number < 0
      <3> HIDE DEF low
      <3>4. Less(e.replay_sequence_number, 0) = TRUE
              <=> e.replay_sequence_number # NULL /\ 0 # NULL /\ low
        BY <3>2 DEF low
      <3>5. wrong = TRUE <=> e.replay_sequence_number = NULL \/ low
        BY <3>0, <3>1, <3>3, <3>4, Zenon
      <3>6. QED
        BY <3>5 DEF low
    <2> HIDE DEF wrong
    <2>4. c18 = TRUE <=> e.source_type = "NASA_REPLAY" /\ wrong = TRUE
      BY <2>1, <2>2, ClaimsIsTrue DEF wrong
    <2>5. QED
      BY <2>3, <2>4
  <1>20. c19 # TRUE
           <=> ~ (e.source_type = "SYNTHETIC_SCALE_TEST"
             /\ (e.is_synthetic = FALSE \/ e.origin_run \in {NULL, BLANK}))
    <2> DEFINE wrong == Or3({Not3(e.is_synthetic), Missing(e.origin_run)})
    <2>1. "SYNTHETIC_SCALE_TEST" # NULL
      BY NullIsNoText DEF Texts
    <2>2. wrong \in Truth
      BY OrIsTrue
    <2>3. wrong = TRUE <=> e.is_synthetic = FALSE \/ e.origin_run \in {NULL, BLANK}
      <3>1. wrong = TRUE <=> TRUE \in {Not3(e.is_synthetic), Missing(e.origin_run)}
        BY OrIsTrue
      <3>2. Missing(e.origin_run) = TRUE <=> e.origin_run \in {NULL, BLANK}
        BY MissingIsTrue
      <3>3. Not3(e.is_synthetic) = TRUE <=> e.is_synthetic = FALSE
        BY LineFields, NotIsTrue
      <3>4. QED
        BY <3>1, <3>2, <3>3
    <2> HIDE DEF wrong
    <2>4. c19 = TRUE <=> e.source_type = "SYNTHETIC_SCALE_TEST" /\ wrong = TRUE
      BY <2>1, <2>2, ClaimsIsTrue DEF wrong
    <2>5. QED
      BY <2>3, <2>4
  <1>21. c20 # TRUE
           <=> ~ (e.ingestion_timestamp # NULL /\ e.event_timestamp # NULL
             /\ e.ingestion_timestamp < e.event_timestamp)
    <2>1. c20 = TRUE
            <=> e.ingestion_timestamp # NULL /\ e.event_timestamp # NULL
              /\ e.ingestion_timestamp < e.event_timestamp
      BY LineFields, LessIsTrue
    <2>2. QED
      BY <2>1
  <1>22. c21 # TRUE <=> e.day_night \in {NULL, "D", "N"}
    <2>1. c21 = TRUE <=> e.day_night # NULL /\ e.day_night \notin {"D", "N"}
      BY NotInIsTrue
    <2>2. QED
      BY <2>1
  <1>23. c22 # TRUE <=> e.bright \in {NULL, "above"}
    BY LineFields, NullIsNoText DEF Texts
  <1>24. c23 # TRUE <=> e.frp \in {NULL, "zero", "above"}
    BY LineFields, NullIsNoText DEF Texts
  <1> HIDE DEF c1, c2, c3, c4, c5, c6, c7, c8, c9, c10, c11, c12, c13, c14, c15, c16, c17, c18,
        c19, c20, c21, c22, c23
  <1>25. (\A x \in Checks(e) : x[2] # TRUE) <=>
          /\ c1 # TRUE /\ c2 # TRUE /\ c3 # TRUE /\ c4 # TRUE /\ c5 # TRUE /\ c6 # TRUE
          /\ c7 # TRUE /\ c8 # TRUE /\ c9 # TRUE /\ c10 # TRUE /\ c11 # TRUE
          /\ c12 # TRUE /\ c13 # TRUE /\ c14 # TRUE /\ c15 # TRUE /\ c16 # TRUE
          /\ c17 # TRUE /\ c18 # TRUE /\ c19 # TRUE /\ c20 # TRUE /\ c21 # TRUE
          /\ c22 # TRUE /\ c23 # TRUE
    BY <1>1
  <1>26. QED
    BY NoErrors, <1>25, <1>2, <1>3, <1>4, <1>5, <1>6, <1>7, <1>8, <1>9, <1>10, <1>11, <1>12,
      <1>13, <1>14, <1>15, <1>16, <1>17, <1>18, <1>19, <1>20, <1>21, <1>22, <1>23, <1>24

\* What the conditions let through: an event with its identity, classification, times
\* and measures in order, whatever its parent and, in an original, the id of a run are.
LetThrough(e) ==
  /\ ~ e.corrupt
  /\ {e.event_id, e.detection_id, e.lineage_root_id, e.context,
      e.source_type, e.is_synthetic} \intersect {NULL, BLANK} = {}
  /\ NULL \notin {e.event_timestamp, e.ingestion_timestamp}
  /\ e.event_timestamp <= e.ingestion_timestamp
  /\ e.place = "inside"
  /\ e.schema_version \in {NULL, "1.0.0"} /\ e.day_night \in {NULL, "D", "N"}
  /\ e.bright \in {NULL, "above"} /\ e.frp \in {NULL, "zero", "above"}
  /\ \/ /\ e.source_type = "NASA_ORIGINAL" /\ ~ e.is_synthetic
        /\ e.detection_id = e.event_id /\ e.lineage_root_id = e.event_id
     \/ /\ e.source_type = "NASA_REPLAY" /\ ~ e.is_synthetic
        /\ {e.origin_run, e.scheduled, e.replay_iteration, e.replay_sequence_number}
             \intersect {NULL, BLANK} = {}
        /\ e.replay_iteration > 0 /\ e.replay_sequence_number >= 0
     \/ /\ e.source_type = "SYNTHETIC_SCALE_TEST" /\ e.is_synthetic
        /\ e.origin_run \notin {NULL, BLANK}

\* The error codes are empty exactly for those, a value missing in any column included.
LEMMA EmptyCodes ==
  ASSUME NEW e \in Lines
  PROVE  SparkErrors(e) = {} <=> LetThrough(e)
  <1> DEFINE original == /\ e.source_type = "NASA_ORIGINAL" /\ ~ e.is_synthetic
                         /\ e.detection_id = e.event_id /\ e.lineage_root_id = e.event_id
             replay == /\ e.source_type = "NASA_REPLAY" /\ ~ e.is_synthetic
                       /\ {e.origin_run, e.scheduled, e.replay_iteration, e.replay_sequence_number}
                            \intersect {NULL, BLANK} = {}
                       /\ e.replay_iteration > 0 /\ e.replay_sequence_number >= 0
             synthetic == /\ e.source_type = "SYNTHETIC_SCALE_TEST" /\ e.is_synthetic
                          /\ e.origin_run \notin {NULL, BLANK}
             present == {e.event_id, e.detection_id, e.lineage_root_id, e.context,
                         e.source_type, e.is_synthetic} \intersect {NULL, BLANK} = {}
             inOrder == NULL \notin {e.event_timestamp, e.ingestion_timestamp}
                        /\ e.event_timestamp <= e.ingestion_timestamp
             fields == /\ e.place = "inside"
                       /\ e.schema_version \in {NULL, "1.0.0"} /\ e.day_night \in {NULL, "D", "N"}
                       /\ e.bright \in {NULL, "above"} /\ e.frp \in {NULL, "zero", "above"}
             given == /\ e.event_id \notin {NULL, BLANK} /\ e.detection_id \notin {NULL, BLANK}
                      /\ e.lineage_root_id \notin {NULL, BLANK}
                      /\ e.source_type \notin {NULL, BLANK}
                      /\ e.context \notin {NULL, BLANK} /\ e.is_synthetic # NULL
             timed == /\ e.event_timestamp # NULL /\ e.ingestion_timestamp # NULL
                      /\ ~ (/\ e.ingestion_timestamp # NULL /\ e.event_timestamp # NULL
                            /\ e.ingestion_timestamp < e.event_timestamp)
             type == e.source_type = NULL \/
                     e.source_type \in {"NASA_ORIGINAL", "NASA_REPLAY", "SYNTHETIC_SCALE_TEST"}
             asOriginal ==
               /\ ~ (e.source_type = "NASA_ORIGINAL" /\ e.is_synthetic = TRUE)
               /\ ~ (/\ e.source_type = "NASA_ORIGINAL" /\ e.event_id # NULL
                     /\ \/ e.detection_id # NULL /\ e.event_id # e.detection_id
                        \/ e.lineage_root_id # NULL /\ e.event_id # e.lineage_root_id)
             asReplay ==
               /\ ~ (e.source_type = "NASA_REPLAY" /\
                     (e.is_synthetic = TRUE \/ e.origin_run \in {NULL, BLANK}))
               /\ ~ (e.source_type = "NASA_REPLAY" /\ e.scheduled = NULL)
               /\ ~ (e.source_type = "NASA_REPLAY" /\
                     (e.replay_iteration = NULL \/ e.replay_iteration < 1))
               /\ ~ (e.source_type = "NASA_REPLAY" /\
                     (e.replay_sequence_number = NULL \/ e.replay_sequence_number < 0))
             asSynthetic ==
               ~ (e.source_type = "SYNTHETIC_SCALE_TEST" /\
                  (e.is_synthetic = FALSE \/ e.origin_run \in {NULL, BLANK}))
  <1>1. SparkErrors(e) = {} <=> /\ ~ e.corrupt /\ given /\ timed /\ fields /\ type
                                /\ asOriginal /\ asReplay /\ asSynthetic
    BY SparkErrorsAre, Zenon
  <1>2. LetThrough(e) <=> /\ ~ e.corrupt /\ present /\ inOrder /\ fields
                          /\ (original \/ replay \/ synthetic)
    BY Zenon DEF LetThrough
  <1>3. present <=> given
    <2>1. e.is_synthetic # NULL => e.is_synthetic # BLANK
      <3>1. BLANK \notin BOOLEAN
        BY LakeAssumption
      <3>2. TRUE # BLANK /\ FALSE # BLANK
        BY <3>1
      <3>3. QED
        BY <3>2, LineFields DEF Truth
    <2>2. QED
      BY <2>1
  <1>4. timed <=> inOrder
    <2>1. e.event_timestamp \in Int \union {NULL} /\ e.ingestion_timestamp \in Int \union {NULL}
      BY LineFields
    <2>2. QED
      BY <2>1
  <1>5. ASSUME given
        PROVE  /\ e.is_synthetic \in {TRUE, FALSE} /\ (~ e.is_synthetic <=> e.is_synthetic = FALSE)
               /\ (e.is_synthetic <=> e.is_synthetic = TRUE)
    <2>1. e.is_synthetic = TRUE \/ e.is_synthetic = FALSE
      BY <1>5, LineFields DEF Truth
    <2>2. CASE e.is_synthetic = TRUE
      BY <2>2
    <2>3. CASE e.is_synthetic = FALSE
      BY <2>3
    <2>4. QED
      BY <2>1, <2>2, <2>3
  <1>6. ASSUME given, e.source_type = "NASA_ORIGINAL"
        PROVE  asOriginal /\ asReplay /\ asSynthetic <=> original \/ replay \/ synthetic
    <2>1. ~ replay /\ ~ synthetic /\ asReplay /\ asSynthetic
      BY <1>6
    <2>2. asOriginal <=> original
      BY <1>5, <1>6
    <2>3. QED
      BY <2>1, <2>2
  <1>7. ASSUME given, e.source_type = "NASA_REPLAY"
        PROVE  asOriginal /\ asReplay /\ asSynthetic <=> original \/ replay \/ synthetic
    <2>1. ~ original /\ ~ synthetic /\ asOriginal /\ asSynthetic
      BY <1>7
    <2>2. /\ e.scheduled \in Int \union {NULL} /\ e.replay_iteration \in Int \union {NULL}
          /\ e.replay_sequence_number \in Int \union {NULL} /\ BLANK \notin Int
      BY LineFields, LakeAssumption
    <2>3. asReplay <=>
            /\ ~ (e.is_synthetic = TRUE) /\ e.origin_run \notin {NULL, BLANK} /\ e.scheduled # NULL
            /\ e.replay_iteration # NULL /\ ~ (e.replay_iteration < 1)
            /\ e.replay_sequence_number # NULL /\ ~ (e.replay_sequence_number < 0)
      BY <1>7
    <2>4. replay <=>
            /\ ~ e.is_synthetic /\ e.origin_run \notin {NULL, BLANK} /\ e.scheduled # NULL
            /\ e.replay_iteration # NULL /\ e.replay_iteration > 0
            /\ e.replay_sequence_number # NULL /\ e.replay_sequence_number >= 0
      BY <1>7, <2>2
    <2>5. e.replay_iteration # NULL => (e.replay_iteration > 0 <=> ~ (e.replay_iteration < 1))
      BY <2>2
    <2>6. e.replay_sequence_number # NULL =>
            (e.replay_sequence_number >= 0 <=> ~ (e.replay_sequence_number < 0))
      BY <2>2
    <2>7. ~ (e.is_synthetic = TRUE) <=> ~ e.is_synthetic
      BY <1>5, <1>7
    <2> HIDE DEF asReplay, replay
    <2>8. asReplay <=> replay
      BY <2>3, <2>4, <2>5, <2>6, <2>7
    <2> HIDE DEF original, synthetic, asOriginal, asSynthetic
    <2>9. QED
      BY <2>1, <2>8
  <1>8. ASSUME given, e.source_type = "SYNTHETIC_SCALE_TEST"
        PROVE  asOriginal /\ asReplay /\ asSynthetic <=> original \/ replay \/ synthetic
    <2>1. ~ original /\ ~ replay /\ asOriginal /\ asReplay
      BY <1>8
    <2>2. asSynthetic <=> synthetic
      BY <1>5, <1>8
    <2>3. QED
      BY <2>1, <2>2
  <1>9. ASSUME original \/ replay \/ synthetic
        PROVE  type
    BY <1>9
  <1>10. ASSUME given, type
         PROVE  e.source_type \in {"NASA_ORIGINAL", "NASA_REPLAY", "SYNTHETIC_SCALE_TEST"}
    BY <1>10
  <1> HIDE DEF original, replay, synthetic, present, inOrder, fields, given, timed, type,
               asOriginal, asReplay, asSynthetic
  <1>11. QED
    BY <1>1, <1>2, <1>3, <1>4, <1>6, <1>7, <1>8, <1>9, <1>10

\* Mending an event changes three of its columns.
LEMMA MendedIs ==
  ASSUME NEW e \in Lines
  PROVE  LET m == Contract!Mended(e) IN
         /\ m.schema_version = IF e.schema_version = NULL THEN "1.0.0" ELSE e.schema_version
         /\ m.parent = IF e.source_type = "NASA_REPLAY" THEN e.event_id ELSE e.parent
         /\ m.origin_run = IF e.source_type = "NASA_ORIGINAL" THEN NULL ELSE e.origin_run
         /\ m.corrupt = e.corrupt /\ m.event_id = e.event_id
         /\ m.detection_id = e.detection_id /\ m.lineage_root_id = e.lineage_root_id
         /\ m.context = e.context /\ m.source_type = e.source_type
         /\ m.is_synthetic = e.is_synthetic /\ m.scheduled = e.scheduled
         /\ m.replay_iteration = e.replay_iteration
         /\ m.replay_sequence_number = e.replay_sequence_number
         /\ m.event_timestamp = e.event_timestamp
         /\ m.ingestion_timestamp = e.ingestion_timestamp /\ m.place = e.place
         /\ m.day_night = e.day_night /\ m.bright = e.bright /\ m.frp = e.frp
  BY DEF Contract!Mended, Lines

\* An event passes exactly when its mended form may be admitted.
LEMMA MendedIsAdmissible ==
  ASSUME NEW e \in Lines
  PROVE  LetThrough(e) <=> Admissible(Contract!Mended(e))
  <1> DEFINE m == Contract!Mended(e)
  <1>1. "1.0.0" # NULL
    BY NullIsNoText DEF Texts
  <1>2. m.schema_version = "1.0.0" <=> e.schema_version \in {NULL, "1.0.0"}
    BY <1>1, MendedIs
  <1>3. ASSUME e.source_type = "NASA_ORIGINAL" PROVE m.origin_run \in {NULL, BLANK}
    BY <1>3, MendedIs
  <1>4. QED
    BY <1>2, <1>3, MendedIs DEF LetThrough, Admissible

\* Silver rejects no event that may be admitted, and of the others lets through only
\* those that break nothing but the rules it has no condition for. In particular no
\* other rule lets an event through because its SQL condition is NULL, whatever values
\* are missing (validation_error_array in bronze_to_silver.py).
THEOREM SparkErrorsAreExact ==
  ASSUME NEW e \in Lines
  PROVE  SparkErrors(e) = {} <=> Admissible(e) \/ Contract!Overlooked(e)
  <1>1. SparkErrors(e) = {} <=> Admissible(Contract!Mended(e))
    BY EmptyCodes, MendedIsAdmissible
  <1>2. Admissible(e) => Admissible(Contract!Mended(e))
    <2>1. Admissible(e) => LetThrough(e)
      BY DEF Admissible, LetThrough
    <2>2. QED
      BY <2>1, MendedIsAdmissible
  <1>3. Contract!Overlooked(e) <=> ~ Admissible(e) /\ Admissible(Contract!Mended(e))
    BY Zenon DEF Contract!Overlooked, Inadmissible
  <1>4. QED
    BY <1>1, <1>2, <1>3

-----------------------------------------------------------------------------
(* The files of Batch Silver: each line in one of them.                    *)

\* The outcomes of a line.
OutcomesOf == {"silver", "rejected", "duplicates"}

\* The lines of one outcome.
Group(lines, first, p) == {k \in DOMAIN lines : Outcome(lines, first, k) = p}

\* The file o holds the lines of group g, each once.
IsListing(o, lines, g) ==
  /\ o \in Seq(Lines)
  /\ \E ks \in Bijection(1..Len(o), g) : \A i \in 1..Len(o) : o[i] = lines[ks[i]]

\* Each outcome is written as a file that lists its lines.
LEMMA GroupsAreListed ==
  ASSUME NEW lines \in Seq(Lines), NEW first, NEW p \in OutcomesOf
  PROVE  IsListing(Classified(lines, first)[p], lines, Group(lines, first, p))
  <1> DEFINE n  == Len(lines)
             G  == Group(lines, first, p)
             ks == Ascending(G)
             m  == Cardinality(G)
             o  == Classified(lines, first)[p]
  <1>1. n \in Nat /\ DOMAIN lines = 1..n /\ \A k \in 1..n : lines[k] \in Lines
    OBVIOUS
  <1>2. G \in SUBSET (1..n)
    BY <1>1 DEF Group
  <1>3. IsFiniteSet(1..n)
    BY <1>1, FS_Interval
  <1>4. G \in SUBSET Int /\ IsFiniteSet(G)
    <2>1. IsFiniteSet(G)
      BY <1>2, <1>3, FS_Subset
    <2>2. QED
      BY <1>2, <2>1
  <1>5. o = [i \in DOMAIN ks |-> lines[ks[i]]]
    BY DEF Classified, Group, OutcomesOf
  <1> HIDE DEF o, n, G
  <1>6. /\ m \in Nat /\ ks \in [1..m -> G]
        /\ \A k, l \in 1..m : k < l => ks[k] < ks[l]
        /\ \A x \in G : \E k \in 1..m : ks[k] = x
    BY <1>4, AscendingLists
  <1> HIDE DEF ks, m
  <1>7. o = [i \in 1..m |-> lines[ks[i]]]
    BY <1>5, <1>6
  <1>8. \A i \in 1..m : lines[ks[i]] \in Lines
    BY <1>1, <1>2, <1>6
  <1>9. o \in [1..m -> Lines]
    BY <1>7, <1>8
  <1>10. o \in Seq(Lines) /\ Len(o) = m
    BY <1>6, <1>9, FunctionIsSeq
  <1>11. ASSUME NEW i \in 1..m, NEW j \in 1..m, ks[i] = ks[j] PROVE i = j
    <2>1. ks[i] \in Int /\ ks[j] \in Int
      BY <1>4, <1>6
    <2>2. ~ (i < j) /\ ~ (j < i)
      BY <1>6, <1>11, <2>1
    <2>3. QED
      BY <1>6, <2>2
  <1>12. ks \in Bijection(1..m, G)
    BY <1>6, <1>11 DEF Bijection, Injection, Surjection, IsInjective
  <1>13. \A i \in 1..m : o[i] = lines[ks[i]]
    BY <1>7
  <1>14. QED
    BY <1>10, <1>12, <1>13 DEF IsListing, o, G

\* Where an event stands in a file,
Places(e, s) == {k \in DOMAIN s : s[k] = e}

\* and in a group of the lines.
InGroup(e, lines, g) == {k \in g : lines[k] = e}

\* A file that lists a group holds an event as often as the group does.
LEMMA ListingCounts ==
  ASSUME NEW lines \in Seq(Lines), NEW g \in SUBSET (1..Len(lines)), NEW o,
         IsListing(o, lines, g), NEW e
  PROVE  /\ IsFiniteSet(InGroup(e, lines, g)) /\ IsFiniteSet(Places(e, o))
         /\ Cardinality(Places(e, o)) = Cardinality(InGroup(e, lines, g))
         /\ Cardinality(Places(e, o)) \in Nat
  <1>1. PICK ks \in Bijection(1..Len(o), g) : \A i \in 1..Len(o) : o[i] = lines[ks[i]]
    BY DEF IsListing
  <1>2. o \in Seq(Lines) /\ Len(o) \in Nat /\ DOMAIN o = 1..Len(o)
    BY DEF IsListing
  <1> DEFINE I == Places(e, o)
             J == InGroup(e, lines, g)
             f == [i \in I |-> ks[i]]
  <1>3. ks \in [1..Len(o) -> g] /\ (\A x \in g : \E i \in 1..Len(o) : ks[i] = x)
        /\ \A i, j \in 1..Len(o) : ks[i] = ks[j] => i = j
    BY <1>1 DEF Bijection, Injection, Surjection, IsInjective
  <1>4. I \in SUBSET (1..Len(o)) /\ J \in SUBSET (1..Len(lines))
    BY <1>2 DEF Places, InGroup
  <1>5. IsFiniteSet(I) /\ IsFiniteSet(J) /\ Cardinality(I) \in Nat
    <2>1. IsFiniteSet(1..Len(o)) /\ IsFiniteSet(1..Len(lines))
      <3>1. Len(o) \in Int /\ Len(lines) \in Int /\ 1 \in Int
        BY <1>2
      <3>2. QED
        BY <3>1, FS_Interval
    <2> HIDE DEF I, J
    <2>2. QED
      BY <1>4, <2>1, FS_Subset, FS_CardinalityType
  <1>6. f \in [I -> J]
    BY <1>1, <1>2, <1>3, <1>4 DEF Places, InGroup
  <1>7. \A i, j \in I : f[i] = f[j] => i = j
    BY <1>3, <1>4
  <1>8. \A x \in J : \E i \in I : f[i] = x
    <2> SUFFICES ASSUME NEW x \in J PROVE \E i \in I : f[i] = x
      OBVIOUS
    <2>1. x \in g /\ lines[x] = e
      BY DEF InGroup
    <2>2. PICK i \in 1..Len(o) : ks[i] = x
      BY <1>3, <2>1
    <2>3. i \in I
      BY <1>1, <1>2, <2>1, <2>2 DEF Places
    <2>4. QED
      BY <2>2, <2>3
  <1>9. f \in Bijection(I, J)
    <2> HIDE DEF f, I, J
    <2>1. QED
      BY <1>6, <1>7, <1>8 DEF Bijection, Injection, Surjection, IsInjective
  <1> HIDE DEF f, I, J
  <1>10. Cardinality(J) = Cardinality(I)
    BY <1>5, <1>9, FS_Bijection DEF ExistsBijection
  <1>11. QED
    BY <1>5, <1>10 DEF I, J

\* An event is as often in the input as in the three files together.
LEMMA LinesAreConserved ==
  ASSUME NEW lines \in Seq(Lines), NEW first, NEW out, out = Classified(lines, first), NEW e
  PROVE  Cardinality(Places(e, lines)) = Cardinality(Places(e, out["silver"]))
           + Cardinality(Places(e, out["rejected"])) + Cardinality(Places(e, out["duplicates"]))
  <1> DEFINE G(p) == Group(lines, first, p)
             S == InGroup(e, lines, G("silver"))
             R == InGroup(e, lines, G("rejected"))
             D == InGroup(e, lines, G("duplicates"))
  <1>1. \A p \in OutcomesOf : IsListing(out[p], lines, G(p)) /\ G(p) \in SUBSET (1..Len(lines))
    <2> SUFFICES ASSUME NEW p \in OutcomesOf
                 PROVE  IsListing(out[p], lines, G(p)) /\ G(p) \in SUBSET (1..Len(lines))
      OBVIOUS
    <2>1. G(p) \in SUBSET (1..Len(lines))
      BY DEF Group
    <2>2. IsListing(out[p], lines, G(p))
      BY GroupsAreListed
    <2>3. QED
      BY <2>1, <2>2
  <1>2. /\ "silver" \in OutcomesOf /\ "rejected" \in OutcomesOf /\ "duplicates" \in OutcomesOf
    BY DEF OutcomesOf
  <1>3. /\ IsFiniteSet(S) /\ Cardinality(Places(e, out["silver"])) = Cardinality(S)
        /\ IsFiniteSet(R) /\ Cardinality(Places(e, out["rejected"])) = Cardinality(R)
        /\ IsFiniteSet(D) /\ Cardinality(Places(e, out["duplicates"])) = Cardinality(D)
    <2> HIDE DEF G
    <2>1. QED
      BY <1>1, <1>2, ListingCounts
  <1>4. Places(e, lines) = (S \union R) \union D
    <2>1. \A k \in DOMAIN lines : Outcome(lines, first, k) \in OutcomesOf
      BY DEF Outcome, OutcomesOf
    <2>2. QED
      BY <2>1 DEF Places, InGroup, Group, OutcomesOf
  <1>5. S \intersect R = {} /\ (S \union R) \intersect D = {}
    BY DEF InGroup, Group
  <1> HIDE DEF S, R, D
  <1>6. /\ IsFiniteSet(S \union R)
        /\ Cardinality(S \union R) = Cardinality(S) + Cardinality(R) - Cardinality({})
    <2>1. IsFiniteSet(S) /\ IsFiniteSet(R) /\ S \intersect R = {}
      BY <1>3, <1>5
    <2>2. QED
      BY <2>1, FS_Union
  <1>7. Cardinality((S \union R) \union D)
          = Cardinality(S \union R) + Cardinality(D) - Cardinality({})
    <2>1. IsFiniteSet(S \union R) /\ IsFiniteSet(D) /\ (S \union R) \intersect D = {}
      BY <1>3, <1>5, <1>6
    <2>2. QED
      BY <2>1, FS_Union
  <1>8. /\ Cardinality(S) \in Nat /\ Cardinality(R) \in Nat /\ Cardinality(D) \in Nat
        /\ Cardinality({}) = 0
    BY <1>3, FS_CardinalityType, FS_EmptySet
  <1>9. Cardinality(S \union R) = Cardinality(S) + Cardinality(R)
    BY <1>6, <1>8
  <1>10. Cardinality((S \union R) \union D) = Cardinality(S) + Cardinality(R) + Cardinality(D)
    BY <1>7, <1>8, <1>9
  <1>11. QED
    BY <1>3, <1>4, <1>10

\* A numbering gives number 1 to exactly one line of each id.
LEMMA OneFirst ==
  ASSUME NEW lines \in Seq(Lines), NEW first \in Numberings(lines), NEW k \in DOMAIN lines
  PROVE  \E f \in DOMAIN lines : first \intersect SameId(lines, k) = {f}
  <1> DEFINE F == first \intersect SameId(lines, k)
  <1>1. Cardinality(F) = 1
    BY DEF Numberings
  <1>2. F \in SUBSET (1..Len(lines)) /\ DOMAIN lines = 1..Len(lines)
    BY DEF SameId
  <1>3. IsFiniteSet(1..Len(lines))
    <2>1. Len(lines) \in Int /\ 1 \in Int
      OBVIOUS
    <2>2. QED
      BY <2>1, FS_Interval
  <1> HIDE DEF F
  <1>4. IsFiniteSet(F)
    BY <1>2, <1>3, FS_Subset
  <1>5. PICK f : F = {f}
    BY <1>1, <1>4, FS_Singleton
  <1>6. QED
    BY <1>2, <1>5 DEF F

\* The line with number 1 is not later than the others of its id.
LEMMA FirstIsNotLater ==
  ASSUME NEW lines \in Seq(Lines), NEW first \in Numberings(lines), NEW f \in first,
         NEW k \in DOMAIN lines, lines[f].event_id = lines[k].event_id
  PROVE  Contract!NotLater(lines[f], lines[k])
  <1>1. PICK l \in DOMAIN lines : f \in FirstsOf(lines, l)
    BY DEF Numberings
  <1>2. lines[f].event_id = lines[l].event_id
    BY <1>1 DEF FirstsOf, SameId
  <1>3. k \in SameId(lines, l)
    BY <1>2 DEF SameId
  <1>4. NotAfter(lines[f], lines[k])
    BY <1>1, <1>3 DEF FirstsOf
  <1>5. QED
    BY <1>4 DEF NotAfter, Contract!NotLater

\* Whatever the lines and whichever of several equal ones Spark numbers first, the three
\* files of Batch Silver are what its contract says, but for the lines it overlooks and
\* preempts: no line is lost or admitted twice, invalid ones are rejected, and a duplicate
\* comes behind an accepted line of its event (run_batch in bronze_to_silver.py).
THEOREM SilverHolds ==
  ASSUME NEW lines \in Seq(Lines), NEW first \in Numberings(lines),
         NEW out, out = Classified(lines, first)
  PROVE  /\ DOMAIN out = OutcomesOf
         /\ \A p \in OutcomesOf : out[p] \in Seq(Lines)
         /\ Contract!IsSilver(lines, out)
  <1> DEFINE G(p) == Group(lines, first, p)
  <1>1. DOMAIN out = OutcomesOf
    BY DEF Classified, OutcomesOf
  <1>2. \A p \in OutcomesOf : IsListing(out[p], lines, G(p))
    BY GroupsAreListed
  <1>3. \A p \in OutcomesOf : out[p] \in Seq(Lines)
    BY <1>2 DEF IsListing
  <1>4. ASSUME NEW p \in OutcomesOf, NEW i \in DOMAIN out[p]
        PROVE  \E k \in DOMAIN lines : out[p][i] = lines[k] /\ Outcome(lines, first, k) = p
    <2>1. PICK ks \in Bijection(1..Len(out[p]), G(p)) :
            \A j \in 1..Len(out[p]) : out[p][j] = lines[ks[j]]
      BY <1>2 DEF IsListing
    <2>2. i \in 1..Len(out[p])
      BY <1>3, <1>4
    <2>3. ks[i] \in G(p)
      BY <2>1, <2>2 DEF Bijection, Injection
    <2>4. QED
      BY <2>1, <2>2, <2>3 DEF Group
  <1>5. ASSUME NEW k \in DOMAIN lines, NEW p \in OutcomesOf, Outcome(lines, first, k) = p
        PROVE  \E j \in DOMAIN out[p] : out[p][j] = lines[k]
    <2>1. PICK ks \in Bijection(1..Len(out[p]), G(p)) :
            \A j \in 1..Len(out[p]) : out[p][j] = lines[ks[j]]
      BY <1>2 DEF IsListing
    <2>2. k \in G(p)
      BY <1>5 DEF Group
    <2>3. PICK j \in 1..Len(out[p]) : ks[j] = k
      BY <2>1, <2>2 DEF Bijection, Surjection
    <2>4. j \in DOMAIN out[p] /\ out[p][j] = lines[k]
      BY <1>3, <2>1, <2>3
    <2>5. QED
      BY <2>4
  <1>6. \A k \in DOMAIN lines : lines[k] \in Lines
    OBVIOUS
  <1>7. \A i \in DOMAIN out["rejected"] : Inadmissible(out["rejected"][i])
    <2> SUFFICES ASSUME NEW i \in DOMAIN out["rejected"]
                 PROVE  Inadmissible(out["rejected"][i])
      OBVIOUS
    <2>1. PICK k \in DOMAIN lines :
            out["rejected"][i] = lines[k] /\ Outcome(lines, first, k) = "rejected"
      BY <1>4 DEF OutcomesOf
    <2>2. SparkErrors(lines[k]) # {}
      BY <2>1 DEF Outcome
    <2>3. QED
      BY <1>6, <2>1, <2>2, SparkErrorsAreExact DEF Inadmissible
  <1>8. \A p \in {"silver", "duplicates"} : \A i \in DOMAIN out[p] :
          ~ Inadmissible(out[p][i]) \/ Contract!Overlooked(out[p][i])
    <2> SUFFICES ASSUME NEW p \in {"silver", "duplicates"}, NEW i \in DOMAIN out[p]
                 PROVE  Admissible(out[p][i]) \/ Contract!Overlooked(out[p][i])
      BY DEF Inadmissible
    <2>1. p \in OutcomesOf /\ p # "rejected"
      BY DEF OutcomesOf
    <2>2. PICK k \in DOMAIN lines : out[p][i] = lines[k] /\ Outcome(lines, first, k) = p
      BY <1>4, <2>1
    <2>3. SparkErrors(lines[k]) = {}
      BY <2>1, <2>2 DEF Outcome
    <2>4. QED
      BY <1>6, <2>2, <2>3, SparkErrorsAreExact
  <1>9. DistinctIds(out["silver"])
    <2> DEFINE o == out["silver"]
               g == G("silver")
    <2>1. "silver" \in OutcomesOf /\ o \in Seq(Lines)
      BY <1>3 DEF OutcomesOf
    <2>2. PICK ks \in Bijection(1..Len(o), g) : \A i \in 1..Len(o) : o[i] = lines[ks[i]]
      BY <1>2, <2>1 DEF IsListing
    <2>3. ASSUME NEW i \in 1..Len(o), NEW j \in 1..Len(o), o[i].event_id = o[j].event_id
          PROVE  i = j
      <3>1. ks[i] \in g /\ ks[j] \in g
        BY <2>2 DEF Bijection, Injection
      <3>2. ks[i] \in DOMAIN lines /\ ks[j] \in DOMAIN lines /\ ks[i] \in first /\ ks[j] \in first
        BY <3>1 DEF Group, Outcome
      <3>3. lines[ks[i]].event_id = lines[ks[j]].event_id
        BY <2>2, <2>3
      <3>4. PICK f \in DOMAIN lines : first \intersect SameId(lines, ks[i]) = {f}
        BY <3>2, OneFirst
      <3>5. ks[i] \in SameId(lines, ks[i]) /\ ks[j] \in SameId(lines, ks[i])
        BY <3>2, <3>3 DEF SameId
      <3>6. ks[i] = ks[j]
        BY <3>2, <3>4, <3>5
      <3>7. QED
        BY <2>2, <3>6 DEF Bijection, Injection, IsInjective
    <2> HIDE DEF o
    <2>4. QED
      BY <2>1, <2>3, DistinctMeansInjective DEF o
  <1>10. Contract!Cardinality(Contract!Ids(out["silver"])) = Len(out["silver"])
    <2>1. Contract!Cardinality(Contract!Ids(out["silver"])) =
            Cardinality(Contract!Ids(out["silver"]))
      BY DEF Contract!Cardinality, Cardinality, Contract!IsFiniteSet, IsFiniteSet
    <2>2. QED
      BY <1>9, <2>1 DEF DistinctIds, Contract!Ids
  <1>11. ASSUME NEW i \in DOMAIN out["duplicates"]
         PROVE  \/ Contract!Repeats(out["duplicates"][i], out["silver"])
                \/ Contract!Preempted(out["duplicates"][i], out)
    <2> DEFINE e == out["duplicates"][i]
    <2>1. PICK k \in DOMAIN lines :
            e = lines[k] /\ Outcome(lines, first, k) = "duplicates"
      BY <1>4 DEF OutcomesOf
    <2>2. PICK f \in DOMAIN lines : first \intersect SameId(lines, k) = {f}
      BY OneFirst
    <2>3. f \in first /\ lines[f].event_id = e.event_id
      BY <2>1, <2>2 DEF SameId
    <2>4. Outcome(lines, first, f) \in {"silver", "rejected"}
      BY <2>3 DEF Outcome
    <2>5. Contract!NotLater(lines[f], e)
      BY <2>1, <2>3, FirstIsNotLater
    <2> HIDE DEF e
    <2>6. ASSUME NEW p \in OutcomesOf, Outcome(lines, first, f) = p
          PROVE  Contract!Repeats(e, out[p])
      <3>1. PICK j \in DOMAIN out[p] : out[p][j] = lines[f]
        BY <1>5, <2>6
      <3>2. QED
        BY <2>3, <2>5, <3>1 DEF Contract!Repeats
    <2>7. CASE Outcome(lines, first, f) = "silver"
      BY <2>6, <2>7 DEF OutcomesOf, e
    <2>8. CASE Outcome(lines, first, f) = "rejected"
      <3>1. e.event_id \notin Contract!Ids(out["silver"])
        <4> SUFFICES ASSUME e.event_id \in Contract!Ids(out["silver"])
                     PROVE  FALSE
          OBVIOUS
        <4>1. PICK j \in DOMAIN out["silver"] : out["silver"][j].event_id = e.event_id
          BY DEF Contract!Ids
        <4>2. PICK l \in DOMAIN lines :
                out["silver"][j] = lines[l] /\ Outcome(lines, first, l) = "silver"
          BY <1>4 DEF OutcomesOf
        <4>3. l \in first
          BY <4>2 DEF Outcome
        <4>4. l \in SameId(lines, k)
          BY <2>1, <4>1, <4>2 DEF SameId, e
        <4>5. l = f
          BY <2>2, <4>3, <4>4
        <4>6. QED
          BY <2>8, <4>2, <4>5
      <3>2. Contract!Repeats(e, out["rejected"])
        BY <2>6, <2>8 DEF OutcomesOf
      <3>3. QED
        BY <3>1, <3>2 DEF Contract!Preempted, e
    <2>9. QED
      BY <2>4, <2>7, <2>8
  <1>12. \A k \in DOMAIN lines :
           Contract!Cardinality(Places(lines[k], lines))
             = Contract!Cardinality(Places(lines[k], out["silver"]))
               + Contract!Cardinality(Places(lines[k], out["rejected"]))
               + Contract!Cardinality(Places(lines[k], out["duplicates"]))
    <2>1. \A s : Contract!Cardinality(s) = Cardinality(s)
      BY DEF Contract!Cardinality, Cardinality, Contract!IsFiniteSet, IsFiniteSet
    <2>2. QED
      BY <2>1, LinesAreConserved
  <1>13. Contract!IsSilver(lines, out)
    BY <1>7, <1>8, <1>10, <1>11, <1>12 DEF Contract!IsSilver, Places
  <1>14. QED
    BY <1>1, <1>3, <1>13

-----------------------------------------------------------------------------
(* 3. The contents of the lake.                                            *)

\* The stages with a file that a later stage may read as events or rows.
FileStages == {"extraction", "canonicalization", "selection", "replay"}

\* The part of such a stage that it reads.
FilePart(stage) == IF stage = "extraction" THEN "raw" ELSE "events"

\* A line with the identity of a detection.
OriginalLines == {e \in Lines : e.event_id \in Nat \X {0}}

\* The elements of the file of a stage.
Elements(stage) ==
  IF stage = "extraction" THEN Rows ELSE IF stage = "replay" THEN Lines ELSE OriginalLines

\* A run has computed its outputs and has not failed since.
Worked(x) == x.pc \in {"write", "publish"} \/ x.status = "SUCCEEDED"

\* What it computes and writes has the type of its stage.
Typed(x) ==
  x.stage \in FileStages =>
    /\ FilePart(x.stage) \in DOMAIN x.parts =>
         x.parts[FilePart(x.stage)] \in Seq(Elements(x.stage))
    /\ Worked(x) => x.out[FilePart(x.stage)] \in Seq(Elements(x.stage))

\* What a run has computed, as an entry of the ledger.
OutputOf(x) == [stage |-> x.stage, input |-> x.input, output |-> x.out]

\* What it computes is what the contract says of its input, and what is in place is
\* what it has computed. Gold computes nothing.
Right(x) ==
  Worked(x) =>
    IF x.stage = "gold"
    THEN /\ Len(x.input) = GateSize /\ DistinctIds(x.input)
         /\ ~ x.raced => \A p \in DOMAIN x.parts : x.parts[p] = x.input
    ELSE /\ Contract!Holds(OutputOf(x))
         /\ \A p \in DOMAIN x.parts : x.parts[p] = x.out[p]

\* The checksums of a manifest are those of the parts.
Recorded(x) ==
  x.status = "SUCCEEDED" =>
    /\ x.stage \in {"extraction", "selection"} => x.recorded = x.out
    /\ x.stage = "canonicalization" /\ ~ x.raced => x.recorded["events"] = x.parts["events"]

\* A run x knows its source s by the manifest of s.
Sourced(x, s) ==
  /\ x.stage \in {"canonicalization", "selection", "replay"} =>
       x.src # 0 /\ (~ x.raced => ~ s.raced)
  /\ x.stage = "canonicalization" =>
       /\ s.stage = "extraction"
       /\ x.pc = "read" \/ Worked(x) => s.status = "SUCCEEDED"
       /\ x.pc = "read" => x.from = s.recorded["raw"]
       /\ Worked(x) /\ ~ x.raced => x.input = s.recorded["raw"]
  /\ x.stage \in {"selection", "replay"} =>
       /\ s.stage \in IF x.stage = "selection" THEN {"canonicalization"}
                      ELSE {"canonicalization", "selection"}
       /\ s.status = "SUCCEEDED" /\ x.from = s.recorded["events"]
       /\ Worked(x) /\ ~ x.raced => x.input = x.from
  /\ x.stage = "silver" =>
       IF x.src = 0 THEN x.pc = "read" => x.from \in Seq(Lines)
       ELSE "events" \in DOMAIN s.parts
  /\ x.stage = "gold" => x.src # 0

\* What is known of a run x with the source s for good.
Lasting(x, s) == Typed(x) /\ Right(x) /\ Recorded(x) /\ Sourced(x, s)

\* What a run in work relies on: that the file it has checked, or read and will read
\* again, holds c now as it did then, and that its own files are untouched.
Steady(x, c, touched) ==
  ~ x.raced /\ x.pc \notin {"ended", "crashed"} =>
    /\ x.stage \in {"canonicalization", "replay"} /\ x.pc = "read" => c = x.from
    /\ x.stage = "gold" /\ x.pc \in {"write", "publish"} => c = x.input
    /\ x.stage = "canonicalization" => ~ touched

\* The invariant of the contents: it holds for every run, for the last one at work,
\* and for what has been put in the place of a file.
ContentInv ==
  /\ \A r \in 1..Len(runs) : Lasting(runs[r], runs[runs[r].src])
  /\ Len(runs) # 0 =>
       LET x == runs[Len(runs)] IN
         Steady(x, Content(x.src, ReadsPart[x.stage]), \E d \in damage : d.run = Len(runs))
  /\ \A d \in damage :
       runs[d.run].stage \in FileStages /\ d.part = FilePart(runs[d.run].stage)
         => d.content \in Seq(Elements(runs[d.run].stage))

-----------------------------------------------------------------------------
\* The fields of a run after a step of its own; the others stay.
Becomes(x, y, pc, from, input, out, parts, status, recorded) ==
  /\ IsRun(y) /\ y.stage = x.stage /\ y.src = x.src /\ y.raced = x.raced
  /\ y.pc = pc /\ y.from = from /\ y.input = input /\ y.out = out
  /\ y.parts = parts /\ y.status = status /\ y.recorded = recorded

\* The steps of a run, field by field: it ends, with or without success,
LEMMA EndIs ==
  ASSUME WellFormed(job), NEW status, NEW from, NEW recorded, NEW left
  PROVE  /\ Becomes(job, End(status), "ended", job.from, job.input, job.out, job.parts,
                    status, job.recorded)
         /\ Becomes(job, [End(status) EXCEPT !.parts = left], "ended", job.from, job.input,
                    job.out, left, status, job.recorded)
         /\ Becomes(job, [job EXCEPT !.pc = "crashed", !.parts = left], "crashed", job.from,
                    job.input, job.out, left, job.status, job.recorded)
         /\ Becomes(job, Published(from, recorded), "ended", from, job.input, job.out, job.parts,
                    "SUCCEEDED", recorded)
  <1> DEFINE x == job
             y == [x EXCEPT !.pc = "ended", !.status = status]
             z == [x EXCEPT !.pc = "ended", !.status = "SUCCEEDED"]
             c == [x EXCEPT !.pc = "crashed", !.parts = left]
  <1>1. x = [f \in Fields |-> x[f]]
    BY DEF WellFormed, IsRun
  <1>2. /\ End(status) = y /\ [End(status) EXCEPT !.parts = left] = [y EXCEPT !.parts = left]
        /\ Published(from, recorded) = [z EXCEPT !.from = from, !.recorded = recorded]
    BY DEF End, Published
  <1> HIDE DEF x
  <1>3. Becomes(x, y, "ended", x.from, x.input, x.out, x.parts, status, x.recorded)
    BY <1>1 DEF Becomes, IsRun, Fields
  <1>4. Becomes(x, [y EXCEPT !.parts = left], "ended", x.from, x.input, x.out, left, status,
                x.recorded)
    BY <1>1 DEF Becomes, IsRun, Fields
  <1>5. Becomes(x, c, "crashed", x.from, x.input, x.out, left, x.status, x.recorded)
    BY <1>1 DEF Becomes, IsRun, Fields
  <1>6. Becomes(x, [z EXCEPT !.from = from, !.recorded = recorded], "ended", from, x.input, x.out,
                x.parts, "SUCCEEDED", recorded)
    BY <1>1 DEF Becomes, IsRun, Fields
  <1>7. QED
    BY <1>2, <1>3, <1>4, <1>5, <1>6 DEF x

\* it asks again or goes on to read,
LEMMA TurnIs ==
  ASSUME WellFormed(job), NEW from
  PROVE  /\ Becomes(job, [job EXCEPT !.pc = "wait"], "wait", job.from, job.input, job.out,
                    job.parts, job.status, job.recorded)
         /\ Becomes(job, [job EXCEPT !.pc = "request", !.attempt = @ + 1], "request", job.from,
                    job.input, job.out, job.parts, job.status, job.recorded)
         /\ Becomes(job, [job EXCEPT !.pc = "read"], "read", job.from, job.input, job.out,
                    job.parts, job.status, job.recorded)
         /\ Becomes(job, [job EXCEPT !.pc = "read", !.from = from], "read", from, job.input,
                    job.out, job.parts, job.status, job.recorded)
  <1> DEFINE x == job
  <1>1. x = [f \in Fields |-> x[f]]
    BY DEF WellFormed, IsRun
  <1> HIDE DEF x
  <1>2. Becomes(x, [x EXCEPT !.pc = "wait"], "wait", x.from, x.input, x.out, x.parts, x.status,
                x.recorded)
    BY <1>1 DEF Becomes, IsRun, Fields
  <1>3. Becomes(x, [x EXCEPT !.pc = "request", !.attempt = @ + 1], "request", x.from, x.input,
                x.out, x.parts, x.status, x.recorded)
    BY <1>1 DEF Becomes, IsRun, Fields
  <1>4. Becomes(x, [x EXCEPT !.pc = "read"], "read", x.from, x.input, x.out, x.parts, x.status,
                x.recorded)
    BY <1>1 DEF Becomes, IsRun, Fields
  <1>5. Becomes(x, [x EXCEPT !.pc = "read", !.from = from], "read", from, x.input, x.out, x.parts,
                x.status, x.recorded)
    BY <1>1 DEF Becomes, IsRun, Fields
  <1>6. QED
    BY <1>2, <1>3, <1>4, <1>5 DEF x

\* it has read its input, or puts a part in place.
LEMMA WriteIs ==
  ASSUME WellFormed(job), NEW input, NEW out, NEW content
  PROVE  /\ Becomes(job, Computed(input, out), "write", job.from, input, out, job.parts,
                    job.status, job.recorded)
         /\ Becomes(job, [job EXCEPT !.input = input, !.pc = "write"], "write", job.from, input,
                    job.out, job.parts, job.status, job.recorded)
         /\ \E pc \in {"write", "publish"} :
              Becomes(job, Put(content), pc, job.from, job.input, job.out,
                      WithPart(job.parts, NextPart, content), job.status, job.recorded)
  <1> DEFINE x == job
             q == IF Cardinality(DOMAIN x.parts) + 1 = Len(PartsOf[x.stage])
                  THEN "publish" ELSE "write"
             w == WithPart(x.parts, NextPart, content)
  <1>1. x = [f \in Fields |-> x[f]]
    BY DEF WellFormed, IsRun
  <1>2. /\ Computed(input, out) = [x EXCEPT !.input = input, !.out = out, !.pc = "write"]
        /\ Put(content) = [x EXCEPT !.parts = WithPart(@, NextPart, content), !.pc = q]
    BY DEF Computed, Put
  <1>3. q \in {"write", "publish"}
    OBVIOUS
  <1> DEFINE np == NextPart
  <1> HIDE DEF x, q, np
  <1>4. Becomes(x, [x EXCEPT !.input = input, !.out = out, !.pc = "write"], "write", x.from,
                input, out, x.parts, x.status, x.recorded)
    BY <1>1 DEF Becomes, IsRun, Fields
  <1>5. Becomes(x, [x EXCEPT !.input = input, !.pc = "write"], "write", x.from, input, x.out,
                x.parts, x.status, x.recorded)
    BY <1>1 DEF Becomes, IsRun, Fields
  <1>6. Becomes(x, [x EXCEPT !.parts = WithPart(@, np, content), !.pc = q], q, x.from, x.input,
                x.out, WithPart(x.parts, np, content), x.status, x.recorded)
    BY <1>1 DEF Becomes, IsRun, Fields
  <1>7. QED
    BY <1>2, <1>3, <1>4, <1>5, <1>6 DEF x, np

\* A row, a line or an original with another measurement is still one; so is a line
\* with another sequence number, and no row has such a number.
LEMMA FieldsMayChange ==
  ASSUME NEW T \in {Rows, Lines, OriginalLines}, NEW e \in T
  PROVE  /\ [e EXCEPT !.bright = "above"] \in T
         /\ "replay_sequence_number" \in DOMAIN e =>
              [e EXCEPT !.replay_sequence_number = 1] \in T
  <1>1. ASSUME NEW x \in Rows
        PROVE  [x EXCEPT !.bright = "above"] \in Rows /\ "replay_sequence_number" \notin DOMAIN x
    <2> DEFINE v == "above"
    <2>1. v \in Measures
      BY DEF Measures
    <2> HIDE DEF v
    <2>2. [x EXCEPT !.bright = v] \in Rows
      BY <2>1 DEF Rows
    <2>3. DOMAIN x = {"det", "shape", "place", "time", "text", "instrument", "day_night",
                      "bright", "frp"}
      BY DEF Rows
    <2>4. QED
      BY <2>2, <2>3 DEF v
  <1>2. ASSUME NEW x \in Lines
        PROVE  /\ [x EXCEPT !.bright = "above"] \in Lines
               /\ [x EXCEPT !.replay_sequence_number = 1] \in Lines
               /\ [x EXCEPT !.bright = "above"].event_id = x.event_id
               /\ [x EXCEPT !.replay_sequence_number = 1].event_id = x.event_id
    <2> DEFINE v == "above"
               one == 1
    <2>1. v \in {"below", "zero", "above", NULL} /\ one \in Int \union {NULL}
      OBVIOUS
    <2> HIDE DEF v, one
    <2>2. [x EXCEPT !.bright = v] \in Lines /\ [x EXCEPT !.bright = v].event_id = x.event_id
      BY <2>1 DEF Lines
    <2>3. /\ [x EXCEPT !.replay_sequence_number = one] \in Lines
          /\ [x EXCEPT !.replay_sequence_number = one].event_id = x.event_id
      BY <2>1 DEF Lines
    <2>4. QED
      BY <2>2, <2>3 DEF v, one
  <1>3. CASE T = Rows
    BY <1>1, <1>3
  <1>4. CASE T = Lines
    BY <1>2, <1>4
  <1>5. CASE T = OriginalLines
    <2>1. e \in Lines /\ e.event_id \in Nat \X {0}
      BY <1>5 DEF OriginalLines
    <2> DEFINE a == [e EXCEPT !.bright = "above"]
               b == [e EXCEPT !.replay_sequence_number = 1]
    <2>2. a \in Lines /\ b \in Lines /\ a.event_id = e.event_id /\ b.event_id = e.event_id
      BY <1>2, <2>1
    <2> HIDE DEF a, b
    <2>3. a \in OriginalLines /\ b \in OriginalLines
      BY <2>1, <2>2 DEF OriginalLines
    <2>4. QED
      BY <1>5, <2>3 DEF a, b
  <1>6. QED
    BY <1>3, <1>4, <1>5

\* A file cut short, or with another element in one place.
LEMMA ShorterOrReplaced ==
  ASSUME NEW T, NEW s \in Seq(T), s # <<>>, NEW e \in T, NEW i \in {1, Len(s)}
  PROVE  Front(s) \in Seq(T) /\ ReplaceAt(s, i, e) \in Seq(T) /\ s[1] \in T
  <1> DEFINE n == Len(s)
             m == n - 1
  <1>1. n \in Nat \ {0} /\ \A k \in 1..n : s[k] \in T
    OBVIOUS
  <1>2. m \in Nat /\ m <= n
    BY <1>1
  <1>3. Front(s) = SubSeq(s, 1, m)
    BY DEF Front
  <1> HIDE DEF m, n
  <1>4. Front(s) \in Seq(T)
    BY <1>2, <1>3, FirstElements DEF n
  <1>5. ReplaceAt(s, i, e) \in Seq(T)
    <2>1. ReplaceAt(s, i, e) = [s EXCEPT ![i] = e]
      BY DEF ReplaceAt
    <2>2. QED
      BY <2>1
  <1>6. QED
    BY <1>1, <1>4, <1>5

\* What comes in the place of a file has elements of the same type.
LEMMA ReplacementsTyped ==
  ASSUME NEW T \in {Rows, Lines, OriginalLines}, NEW content \in Seq(T), content # <<>>,
         NEW c \in Replacements(content)
  PROVE  c \in Seq(T)
  <1> DEFINE first == content[1]
             a == [first EXCEPT !.bright = "above"]
             b == [first EXCEPT !.replay_sequence_number = 1]
             n == Len(content)
  <1>1. first \in T /\ 1 \in {1, n} /\ n \in {1, n}
    OBVIOUS
  <1>2. a \in T /\ ("replay_sequence_number" \in DOMAIN first => b \in T)
    BY <1>1, FieldsMayChange
  <1>3. \/ c = Front(content) \/ c = ReplaceAt(content, n, first) \/ c = ReplaceAt(content, 1, a)
        \/ "replay_sequence_number" \in DOMAIN first /\ c = ReplaceAt(content, 1, b)
    BY DEF Replacements
  <1> HIDE DEF first, a, b, n
  <1>4. Front(content) \in Seq(T) /\ ReplaceAt(content, n, first) \in Seq(T)
    BY <1>1, ShorterOrReplaced DEF n
  <1>5. ReplaceAt(content, 1, a) \in Seq(T)
    BY <1>1, <1>2, ShorterOrReplaced
  <1>6. ASSUME b \in T PROVE ReplaceAt(content, 1, b) \in Seq(T)
    BY <1>1, <1>6, ShorterOrReplaced
  <1>7. QED
    BY <1>2, <1>3, <1>4, <1>5, <1>6

-----------------------------------------------------------------------------
\* A stage that has succeeded has its file; only three stages have events.
LEMMA FilesInPlace ==
  ASSUME NEW s, WellFormed(s)
  PROVE  /\ s.stage \in FileStages /\ s.status = "SUCCEEDED" => FilePart(s.stage) \in DOMAIN s.parts
         /\ "events" \in DOMAIN s.parts => s.stage \in FileStages /\ FilePart(s.stage) = "events"
  <1>1. PICK n \in 0..Len(PartsOf[s.stage]) :
          /\ DOMAIN s.parts = InPlace(s.stage, n)
          /\ s.status = "SUCCEEDED" => n = Len(PartsOf[s.stage])
    BY DEF WellFormed, Written
  <1>2. s.stage \in Stages
    BY DEF WellFormed
  <1>3. ASSUME s.stage \in FileStages, s.status = "SUCCEEDED"
        PROVE  FilePart(s.stage) \in DOMAIN s.parts
    <2>1. n = Len(PartsOf[s.stage]) /\ DOMAIN s.parts = InPlace(s.stage, n)
      BY <1>1, <1>3
    <2>2. FilePart(s.stage) = PartsOf[s.stage][1] /\ Len(PartsOf[s.stage]) \in 1..3
      BY <1>3, <1>2, PartsAreFew DEF FileStages, FilePart, PartsOf
    <2>3. 1 \in 1..n
      BY <2>1, <2>2
    <2>4. QED
      BY <2>1, <2>2, <2>3 DEF InPlace
  <1>4. ASSUME "events" \in DOMAIN s.parts
        PROVE  s.stage \in FileStages /\ FilePart(s.stage) = "events"
    <2>1. PICK k \in 1..Len(PartsOf[s.stage]) : PartsOf[s.stage][k] = "events"
      <3>1. Len(PartsOf[s.stage]) \in 1..3
        BY <1>2, PartsAreFew
      <3>2. PICK k \in 1..n : "events" = PartsOf[s.stage][k]
        BY <1>1, <1>4 DEF InPlace
      <3>3. k \in 1..Len(PartsOf[s.stage])
        BY <3>1, <3>2
      <3>4. QED
        BY <3>2, <3>3
    <2>2. s.stage \in {"canonicalization", "selection", "replay"}
      <3>1. PartsOf["extraction"] = <<"raw">>
        BY DEF PartsOf
      <3>2. PartsOf["silver"] = <<"silver", "rejected", "duplicates">>
        BY DEF PartsOf
      <3>3. PartsOf["gold"] = <<"event_detail", "load_artifact">>
        BY DEF PartsOf
      <3>4. s.stage # "extraction"
        BY <2>1, <3>1
      <3>5. s.stage # "silver"
        BY <2>1, <3>2
      <3>6. s.stage # "gold"
        BY <2>1, <3>3
      <3>7. QED
        BY <1>2, <3>4, <3>5, <3>6 DEF Stages
    <2>3. QED
      BY <2>2 DEF FileStages, FilePart
  <1>5. QED
    BY <1>3, <1>4

\* What a file holds, replaced or not, has the type of its stage.
LEMMA ContentTyped ==
  ASSUME ContentInv, NEW r \in 1..Len(runs), runs[r].stage \in FileStages,
         FilePart(runs[r].stage) \in DOMAIN runs[r].parts
  PROVE  Content(r, FilePart(runs[r].stage)) \in Seq(Elements(runs[r].stage))
  <1> DEFINE p == FilePart(runs[r].stage)
             replaced == {d \in damage : d.run = r /\ d.part = p}
             S == Seq(Elements(runs[r].stage))
  <1>1. runs[r].parts[p] \in S
    BY DEF ContentInv, Lasting, Typed
  <1>2. \A d \in replaced : d.content \in S
    BY DEF ContentInv
  <1>3. Content(r, p) = IF replaced = {} THEN runs[r].parts[p]
          ELSE (CHOOSE d \in replaced : TRUE).content
    BY DEF Content
  <1> HIDE DEF replaced, p, S
  <1>4. ASSUME replaced = {} PROVE Content(r, p) \in S
    BY <1>1, <1>3, <1>4
  <1>5. ASSUME replaced # {} PROVE Content(r, p) \in S
    <2>1. (CHOOSE d \in replaced : TRUE) \in replaced
      BY <1>5
    <2>2. QED
      BY <1>2, <1>3, <1>5, <2>1
  <1>6. Content(r, p) \in S
    BY <1>4, <1>5
  <1>7. QED
    BY <1>6 DEF p, S

\* The contract of a result speaks of the parts of its stage only.
LEMMA HoldsOfParts ==
  ASSUME NEW stage \in Stages \ {"gold"}, NEW input, NEW out, NEW parts,
         DOMAIN parts = InPlace(stage, Len(PartsOf[stage])),
         \A p \in DOMAIN parts : parts[p] = out[p],
         Contract!Holds([stage |-> stage, input |-> input, output |-> out])
  PROVE  Contract!Holds([stage |-> stage, input |-> input, output |-> parts])
  <1> DEFINE e == [stage |-> stage, input |-> input, output |-> out]
             f == [stage |-> stage, input |-> input, output |-> parts]
  <1>1. e.stage = stage /\ e.input = input /\ e.output = out
    OBVIOUS
  <1>2. f.stage = stage /\ f.input = input /\ f.output = parts
    OBVIOUS
  <1>3. \A k \in 1..Len(PartsOf[stage]) : parts[PartsOf[stage][k]] = out[PartsOf[stage][k]]
    BY DEF InPlace
  <1> HIDE DEF e, f
  <1>4. CASE stage = "extraction"
    <2>1. parts["raw"] = out["raw"]
      BY <1>3, <1>4 DEF PartsOf
    <2>2. QED
      BY <1>1, <1>2, <1>4, <2>1 DEF Contract!Holds, e, f
  <1>5. CASE stage = "canonicalization"
    <2>1. parts["events"] = out["events"] /\ parts["rejected"] = out["rejected"]
          /\ parts["duplicates"] = out["duplicates"]
      BY <1>3, <1>5 DEF PartsOf
    <2>2. Contract!IsCanonical(input, out)
      BY <1>1, <1>5 DEF Contract!Holds, e
    <2>3. Contract!IsCanonical(input, parts)
      BY <2>1, <2>2 DEF Contract!IsCanonical
    <2>4. QED
      BY <1>2, <1>5, <2>3 DEF Contract!Holds, f
  <1>6. CASE stage = "selection"
    <2>1. parts["events"] = out["events"]
      BY <1>3, <1>6 DEF PartsOf
    <2>2. Contract!IsSelection(input, out["events"])
      BY <1>1, <1>6 DEF Contract!Holds, e
    <2>3. QED
      BY <1>2, <1>6, <2>1, <2>2 DEF Contract!Holds, f
  <1>7. CASE stage = "replay"
    <2>1. parts["events"] = out["events"]
      BY <1>3, <1>7 DEF PartsOf
    <2>2. Contract!IsReplay(input, out["events"])
      BY <1>1, <1>7 DEF Contract!Holds, e
    <2>3. QED
      BY <1>2, <1>7, <2>1, <2>2 DEF Contract!Holds, f
  <1>8. CASE stage = "silver"
    <2>1. parts["silver"] = out["silver"] /\ parts["rejected"] = out["rejected"]
          /\ parts["duplicates"] = out["duplicates"]
      BY <1>3, <1>8 DEF PartsOf
    <2>2. Contract!IsSilver(input, out)
      BY <1>1, <1>8 DEF Contract!Holds, e
    <2>3. Contract!IsSilver(input, parts)
      BY <2>1, <2>2 DEF Contract!IsSilver, Contract!Preempted
    <2>4. QED
      BY <1>2, <1>8, <2>3 DEF Contract!Holds, f
  <1>9. QED
    BY <1>4, <1>5, <1>6, <1>7, <1>8 DEF Stages

-----------------------------------------------------------------------------
(* What is known of a run stays true when it moves on.                     *)

\* When it gives up, or asks again.
LEMMA GivesUpLasts ==
  ASSUME NEW x, NEW y, NEW s, Lasting(x, s),
         NEW pc, NEW from, NEW input, NEW out, NEW parts, NEW status, NEW recorded,
         Becomes(x, y, pc, from, input, out, parts, status, recorded),
         pc \notin {"read", "write", "publish"}, status # "SUCCEEDED", from = x.from,
         x.stage \in FileStages => parts = x.parts
  PROVE  Lasting(y, s)
  <1>1. /\ y.stage = x.stage /\ y.src = x.src /\ y.raced = x.raced /\ y.from = x.from
        /\ ~ Worked(y) /\ y.pc # "read" /\ y.status # "SUCCEEDED"
        /\ x.stage \in FileStages => y.parts = x.parts
    BY DEF Becomes, Worked
  <1>2. Typed(y)
    BY <1>1 DEF Lasting, Typed
  <1>3. Right(y) /\ Recorded(y)
    BY <1>1 DEF Right, Recorded
  <1>4. Sourced(y, s)
    BY <1>1 DEF Lasting, Sourced
  <1>5. QED
    BY <1>2, <1>3, <1>4 DEF Lasting

\* When it goes on to read what it has checked.
LEMMA GoesToReadLasts ==
  ASSUME NEW x, NEW y, NEW s, Lasting(x, s),
         NEW from, NEW input, NEW out, NEW status, NEW recorded,
         Becomes(x, y, "read", from, input, out, x.parts, status, recorded),
         status # "SUCCEEDED",
         \/ /\ x.stage = "canonicalization" /\ s.status = "SUCCEEDED"
            /\ from = s.recorded["raw"]
         \/ x.stage = "replay" /\ from = x.from
  PROVE  Lasting(y, s)
  <1>1. /\ y.stage = x.stage /\ y.src = x.src /\ y.raced = x.raced /\ y.parts = x.parts
        /\ ~ Worked(y) /\ y.status # "SUCCEEDED" /\ y.from = from
    BY DEF Becomes, Worked
  <1>2. Typed(y)
    BY <1>1 DEF Lasting, Typed
  <1>3. Right(y) /\ Recorded(y)
    BY <1>1 DEF Right, Recorded
  <1>4. Sourced(x, s)
    BY DEF Lasting
  <1>5. CASE x.stage = "canonicalization"
    <2>1. s.status = "SUCCEEDED" /\ from = s.recorded["raw"]
      BY <1>5
    <2>2. Sourced(y, s)
      BY <1>1, <1>4, <1>5, <2>1 DEF Sourced
    <2>3. QED
      BY <1>2, <1>3, <2>2 DEF Lasting
  <1>6. CASE x.stage = "replay"
    <2>1. y.from = x.from
      BY <1>1, <1>6
    <2>2. Sourced(y, s)
      BY <1>1, <1>4, <1>6, <2>1 DEF Sourced
    <2>3. QED
      BY <1>2, <1>3, <2>2 DEF Lasting
  <1>7. QED
    BY <1>5, <1>6

\* When it has computed, with nothing in place yet.
LEMMA ComputesLasts ==
  ASSUME NEW x, NEW y, NEW s, Lasting(x, s),
         NEW input, NEW out, NEW status, NEW recorded,
         Becomes(x, y, "write", x.from, input, out, x.parts, status, recorded),
         DOMAIN x.parts = {}, status # "SUCCEEDED",
         x.stage \in FileStages => out[FilePart(x.stage)] \in Seq(Elements(x.stage)),
         x.stage = "gold" => Len(input) = GateSize /\ DistinctIds(input),
         x.stage # "gold" =>
           Contract!Holds([stage |-> x.stage, input |-> input, output |-> out]),
         x.stage = "canonicalization" =>
           s.status = "SUCCEEDED" /\ (~ x.raced => input = s.recorded["raw"]),
         x.stage \in {"selection", "replay"} /\ ~ x.raced => input = x.from
  PROVE  Lasting(y, s)
  <1>1. /\ y.stage = x.stage /\ y.src = x.src /\ y.raced = x.raced /\ y.parts = x.parts
        /\ Worked(y) /\ y.status # "SUCCEEDED" /\ y.from = x.from /\ y.pc = "write"
        /\ y.input = input /\ y.out = out
    BY DEF Becomes, Worked
  <1>2. Typed(y)
    BY <1>1 DEF Typed
  <1>3. OutputOf(y) = [stage |-> x.stage, input |-> input, output |-> out]
    BY <1>1 DEF OutputOf
  <1>4. Right(y)
    BY <1>1, <1>3 DEF Right
  <1>5. Recorded(y)
    BY <1>1 DEF Recorded
  <1>6. Sourced(y, s)
    BY <1>1 DEF Lasting, Sourced
  <1>7. QED
    BY <1>2, <1>4, <1>5, <1>6 DEF Lasting

\* When it puts a part in place: what it has computed, or, in Gold, what it has read.
LEMMA PutsLasts ==
  ASSUME NEW x, NEW y, NEW s, Lasting(x, s), x.pc = "write",
         NEW pc \in {"write", "publish"}, NEW p, NEW content, NEW status, NEW recorded,
         Becomes(x, y, pc, x.from, x.input, x.out, WithPart(x.parts, p, content), status, recorded),
         status # "SUCCEEDED",
         x.stage # "gold" => content = x.out[p],
         x.stage = "gold" /\ ~ x.raced => content = x.input
  PROVE  Lasting(y, s)
  <1>1. /\ y.stage = x.stage /\ y.src = x.src /\ y.raced = x.raced
        /\ Worked(x) /\ Worked(y) /\ y.status # "SUCCEEDED" /\ y.from = x.from /\ y.pc # "read"
        /\ y.input = x.input /\ y.out = x.out
    BY DEF Becomes, Worked
  <1>2. y.parts = WithPart(x.parts, p, content)
    BY DEF Becomes
  <1>3. /\ DOMAIN y.parts = DOMAIN x.parts \union {p}
        /\ \A q \in DOMAIN y.parts : y.parts[q] = IF q = p THEN content ELSE x.parts[q]
    BY <1>2 DEF WithPart
  <1>4. Typed(x) /\ Right(x) /\ Sourced(x, s)
    BY DEF Lasting
  <1>5. Typed(y)
    <2>1. x.stage \in FileStages => x.stage # "gold"
      BY DEF FileStages
    <2>2. ASSUME x.stage \in FileStages, FilePart(x.stage) \in DOMAIN y.parts
          PROVE  y.parts[FilePart(x.stage)] \in Seq(Elements(x.stage))
      <3>1. CASE FilePart(x.stage) = p
        BY <1>1, <1>3, <1>4, <2>1, <2>2, <3>1 DEF Typed
      <3>2. CASE FilePart(x.stage) # p
        BY <1>3, <1>4, <2>2, <3>2 DEF Typed
      <3>3. QED
        BY <3>1, <3>2
    <2>3. QED
      BY <1>1, <1>4, <2>2 DEF Typed
  <1>6. Right(y)
    <2>1. OutputOf(y) = OutputOf(x)
      BY <1>1 DEF OutputOf
    <2>2. CASE x.stage = "gold"
      <3>1. Len(x.input) = GateSize /\ DistinctIds(x.input)
            /\ (~ x.raced => \A q \in DOMAIN x.parts : x.parts[q] = x.input)
        BY <1>1, <1>4, <2>2 DEF Right
      <3>2. ~ x.raced => \A q \in DOMAIN y.parts : y.parts[q] = x.input
        BY <1>3, <2>2, <3>1
      <3>3. QED
        BY <1>1, <2>2, <3>1, <3>2 DEF Right
    <2>3. CASE x.stage # "gold"
      <3>1. Contract!Holds(OutputOf(x)) /\ \A q \in DOMAIN x.parts : x.parts[q] = x.out[q]
        BY <1>1, <1>4, <2>3 DEF Right
      <3>2. \A q \in DOMAIN y.parts : y.parts[q] = x.out[q]
        BY <1>3, <2>3, <3>1
      <3>3. QED
        BY <1>1, <2>1, <2>3, <3>1, <3>2 DEF Right
    <2>4. QED
      BY <2>2, <2>3
  <1>7. Recorded(y)
    BY <1>1 DEF Recorded
  <1>8. Sourced(y, s)
    BY <1>1, <1>4 DEF Sourced
  <1>9. QED
    BY <1>5, <1>6, <1>7, <1>8 DEF Lasting

\* When it writes its manifest.
LEMMA SucceedsLasts ==
  ASSUME NEW x, NEW y, NEW s, Lasting(x, s), x.pc = "publish",
         NEW from, NEW recorded,
         Becomes(x, y, "ended", from, x.input, x.out, x.parts, "SUCCEEDED", recorded),
         x.stage \in {"selection", "replay"} => from = x.from,
         x.stage \in {"extraction", "selection"} => recorded = x.out,
         x.stage = "canonicalization" /\ ~ x.raced => recorded["events"] = x.parts["events"]
  PROVE  Lasting(y, s)
  <1>1. /\ y.stage = x.stage /\ y.src = x.src /\ y.raced = x.raced
        /\ Worked(x) /\ Worked(y) /\ y.from = from /\ y.pc # "read"
        /\ y.input = x.input /\ y.out = x.out /\ y.parts = x.parts /\ y.recorded = recorded
    BY DEF Becomes, Worked
  <1>2. Typed(x) /\ Right(x) /\ Sourced(x, s)
    BY DEF Lasting
  <1>3. Typed(y)
    BY <1>1, <1>2 DEF Typed
  <1>4. OutputOf(y) = OutputOf(x)
    BY <1>1 DEF OutputOf
  <1>5. Right(y)
    BY <1>1, <1>2, <1>4 DEF Right
  <1>6. Recorded(y)
    BY <1>1 DEF Recorded
  <1>7. Sourced(y, s)
    BY <1>1, <1>2 DEF Sourced
  <1>8. QED
    BY <1>3, <1>5, <1>6, <1>7 DEF Lasting

\* When a file it uses is replaced, less is known of it.
LEMMA RacedLasts ==
  ASSUME NEW x, NEW s, WellFormed(x), Lasting(x, s)
  PROVE  Lasting(Raced(x), s)
  <1> DEFINE y == Raced(x)
  <1>1. x = [f \in Fields |-> x[f]]
    BY DEF WellFormed, IsRun
  <1>2. y = [f \in Fields |-> IF f = "raced" THEN TRUE ELSE x[f]]
    BY <1>1 DEF Raced
  <1>3. y.raced /\ \A f \in Fields \ {"raced"} : y[f] = x[f]
    BY <1>2 DEF Fields
  <1>4. /\ y.stage = x.stage /\ y.src = x.src /\ y.pc = x.pc /\ y.from = x.from
        /\ y.input = x.input /\ y.out = x.out /\ y.parts = x.parts
        /\ y.status = x.status /\ y.recorded = x.recorded
    BY <1>3 DEF Fields
  <1> HIDE DEF y
  <1>5. Worked(y) <=> Worked(x)
    BY <1>4 DEF Worked
  <1>6. Typed(x) /\ Right(x) /\ Recorded(x) /\ Sourced(x, s)
    BY DEF Lasting
  <1>7. Typed(y)
    BY <1>4, <1>5, <1>6 DEF Typed
  <1>8. OutputOf(y) = OutputOf(x)
    BY <1>4 DEF OutputOf
  <1>9. Right(y)
    BY <1>3, <1>4, <1>5, <1>6, <1>8 DEF Right
  <1>10. Recorded(y)
    BY <1>3, <1>4, <1>6 DEF Recorded
  <1>11. Sourced(y, s)
    BY <1>3, <1>4, <1>5, <1>6 DEF Sourced
  <1>12. QED
    BY <1>7, <1>9, <1>10, <1>11 DEF Lasting, y

\* Some file of the run in work has been replaced.
Touched == \E d \in damage : d.run = Len(runs)

\* The run in work goes on as y, and what is known of it stays true.
KeptAs(y) ==
  /\ y.stage = job.stage /\ y.src = job.src /\ y.raced = job.raced
  /\ Lasting(y, runs[job.src])
  /\ Steady(y, Source, Touched)

\* What is known of the run in work and of its source.
LEMMA JobFacts ==
  ASSUME RunsFormed, ContentInv, ~ Idle
  PROVE  /\ job = runs[Len(runs)] /\ WellFormed(job) /\ job.status = "NONE"
         /\ job.pc \notin {"ended", "crashed"}
         /\ Lasting(job, runs[job.src]) /\ Steady(job, Source, Touched)
         /\ job.src # 0 => /\ job.src \in 1..Len(runs) /\ job.src < Len(runs)
                           /\ WellFormed(runs[job.src])
                           /\ Lasting(runs[job.src], runs[runs[job.src].src])
         /\ job.pc \in {"request", "wait", "check", "read"} => DOMAIN job.parts = {}
  <1>1. /\ Len(runs) \in 1..Len(runs) /\ job = runs[Len(runs)] /\ WellFormed(job)
        /\ job.pc \notin {"ended", "crashed"}
    BY JobIsLast
  <1>2. job.status = "NONE"
    BY <1>1 DEF WellFormed
  <1>3. Lasting(job, runs[job.src])
    BY <1>1 DEF ContentInv
  <1>4. Steady(job, Source, Touched)
    <2>1. Len(runs) # 0
      BY <1>1
    <2>2. Steady(runs[Len(runs)], Content(runs[Len(runs)].src, ReadsPart[runs[Len(runs)].stage]),
                 \E d \in damage : d.run = Len(runs))
      BY <2>1 DEF ContentInv
    <2>3. Source = Content(job.src, ReadsPart[job.stage])
      BY DEF Source
    <2>4. QED
      BY <1>1, <2>2, <2>3 DEF Touched
  <1>5. job.src \in Nat /\ job.src < Len(runs)
    BY <1>1 DEF RunsFormed, WellFormed
  <1>6. job.src # 0 => job.src \in 1..Len(runs)
    BY <1>1, <1>5
  <1>7. job.src # 0 => WellFormed(runs[job.src]) /\ Lasting(runs[job.src], runs[runs[job.src].src])
    BY <1>6 DEF RunsFormed, ContentInv
  <1>8. ASSUME job.pc \in {"request", "wait", "check", "read"}
        PROVE  DOMAIN job.parts = {}
    <2>1. DOMAIN job.parts = InPlace(job.stage, 0)
      BY <1>1, <1>8 DEF WellFormed, Written
    <2>2. QED
      BY <2>1 DEF InPlace
  <1>9. QED
    BY <1>1, <1>2, <1>3, <1>4, <1>5, <1>6, <1>7, <1>8

\* What the run in work relies on, when it has moved on.
LEMMA SteadyFollows ==
  ASSUME NEW x, NEW y, NEW c, NEW t, Steady(x, c, t), x.pc \notin {"ended", "crashed"},
         y.stage = x.stage, y.raced = x.raced,
         y.pc = "read" => c = y.from,
         y.stage = "gold" /\ y.pc \in {"write", "publish"} /\ ~ y.raced => c = y.input
  PROVE  Steady(y, c, t)
  BY DEF Steady

\* A line is a line, original or not.
LEMMA OriginalsAreLines ==
  Seq(OriginalLines) \subseteq Seq(Lines)
  <1>1. OriginalLines \subseteq Lines
    BY DEF OriginalLines
  <1> SUFFICES ASSUME NEW s \in Seq(OriginalLines) PROVE s \in Seq(Lines)
    OBVIOUS
  <1>2. \A k \in 1..Len(s) : s[k] \in Lines
    BY <1>1
  <1>3. QED
    BY <1>2

\* Lines with the identity of a detection.
LEMMA TheyAreOriginals ==
  ASSUME NEW s \in Seq(Lines), \A k \in 1..Len(s) : s[k].event_id \in Nat \X {0}
  PROVE  s \in Seq(OriginalLines)
  <1>1. \A k \in 1..Len(s) : s[k] \in OriginalLines
    BY DEF OriginalLines
  <1>2. QED
    BY <1>1

\* The files that the stages read have the types that they expect.
LEMMA SourceTyped ==
  ASSUME RunsFormed, ContentInv, ~ Idle
  PROVE  /\ job.stage = "canonicalization" /\ runs[job.src].status = "SUCCEEDED"
              => Source \in Seq(Rows)
         /\ job.stage \in {"selection", "replay"} => Source \in Seq(OriginalLines)
         /\ job.stage = "silver" /\ job.pc = "read" => InputFile \in Seq(Lines)
  <1> DEFINE s == runs[job.src]
  <1>1. /\ Sourced(job, s)
        /\ job.src # 0 => job.src \in 1..Len(runs) /\ WellFormed(s)
    BY JobFacts DEF Lasting
  <1>2. Source = Content(job.src, ReadsPart[job.stage])
    BY DEF Source
  <1>3. ASSUME job.src # 0, s.stage \in FileStages, FilePart(s.stage) \in DOMAIN s.parts,
               ReadsPart[job.stage] = FilePart(s.stage)
        PROVE  Source \in Seq(Elements(s.stage))
    BY <1>1, <1>2, <1>3, ContentTyped
  <1>4. ASSUME job.stage = "canonicalization", s.status = "SUCCEEDED"
        PROVE  Source \in Seq(Rows)
    <2>1. job.src # 0 /\ s.stage = "extraction"
      BY <1>1, <1>4 DEF Sourced
    <2>2. s.stage \in FileStages /\ ReadsPart[job.stage] = FilePart(s.stage)
      BY <1>4, <2>1 DEF FileStages, FilePart, ReadsPart
    <2>3. FilePart(s.stage) \in DOMAIN s.parts
      BY <1>1, <1>4, <2>1, <2>2, FilesInPlace
    <2>4. QED
      BY <1>3, <2>1, <2>2, <2>3 DEF Elements
  <1>5. ASSUME job.stage \in {"selection", "replay"}
        PROVE  Source \in Seq(OriginalLines)
    <2>1. job.src # 0 /\ s.stage \in {"canonicalization", "selection"} /\ s.status = "SUCCEEDED"
      <3>1. CASE job.stage = "selection"
        BY <1>1, <3>1 DEF Sourced
      <3>2. CASE job.stage = "replay"
        BY <1>1, <3>2 DEF Sourced
      <3>3. QED
        BY <1>5, <3>1, <3>2
    <2>2. s.stage \in FileStages /\ ReadsPart[job.stage] = FilePart(s.stage)
      BY <1>5, <2>1 DEF FileStages, FilePart, ReadsPart
    <2>3. FilePart(s.stage) \in DOMAIN s.parts
      BY <1>1, <2>1, <2>2, FilesInPlace
    <2>4. QED
      BY <1>3, <2>1, <2>2, <2>3 DEF Elements
  <1>6. ASSUME job.stage = "silver", job.pc = "read"
        PROVE  InputFile \in Seq(Lines)
    <2>1. CASE job.src = 0
      BY <1>1, <1>6, <2>1 DEF Sourced, InputFile
    <2>2. CASE job.src # 0
      <3>1. "events" \in DOMAIN s.parts
        BY <1>1, <1>6, <2>2 DEF Sourced
      <3>2. s.stage \in FileStages /\ FilePart(s.stage) = "events"
        BY <1>1, <2>2, <3>1, FilesInPlace
      <3>3. ReadsPart[job.stage] = "events"
        BY <1>6 DEF ReadsPart
      <3>4. Source \in Seq(Elements(s.stage))
        BY <1>3, <2>2, <3>1, <3>2, <3>3
      <3>5. Elements(s.stage) \in {OriginalLines, Lines}
        BY <3>2 DEF FilePart, Elements
      <3>6. QED
        BY <2>2, <3>4, <3>5, OriginalsAreLines DEF InputFile
    <2>3. QED
      BY <2>1, <2>2
  <1>7. QED
    BY <1>4, <1>5, <1>6

\* What is known stays true when the run in work ends without success, or asks again.
LEMMA KeptWhenOver ==
  ASSUME RunsFormed, ContentInv, ~ Idle, NEW y,
         NEW pc \in {"ended", "crashed", "wait", "request"}, NEW input, NEW out, NEW parts,
         NEW status, NEW recorded,
         Becomes(job, y, pc, job.from, input, out, parts, status, recorded),
         status # "SUCCEEDED", job.stage \in FileStages => parts = job.parts
  PROVE  KeptAs(y)
  <1>1. Lasting(job, runs[job.src]) /\ Steady(job, Source, Touched)
        /\ job.pc \notin {"ended", "crashed"}
    BY JobFacts
  <1>2. pc \notin {"read", "write", "publish"}
    OBVIOUS
  <1>3. Lasting(y, runs[job.src])
    BY <1>1, <1>2, GivesUpLasts
  <1>4. y.stage = job.stage /\ y.src = job.src /\ y.raced = job.raced /\ y.pc = pc
    BY DEF Becomes
  <1>5. Steady(y, Source, Touched)
    BY <1>1, <1>2, <1>4, SteadyFollows
  <1>6. QED
    BY <1>3, <1>4, <1>5 DEF KeptAs

\* It stays true when the run ends by End.
LEMMA KeptAtEnd ==
  ASSUME RunsFormed, ContentInv, ~ Idle, NEW status \in {"NONE", "FAILED"}
  PROVE  KeptAs(End(status))
  <1>1. Becomes(job, End(status), "ended", job.from, job.input, job.out, job.parts, status,
          job.recorded)
    BY JobFacts, EndIs
  <1>2. status # "SUCCEEDED"
    OBVIOUS
  <1>3. QED
    BY <1>1, <1>2, KeptWhenOver

\* It stays true when the run writes its manifest.
LEMMA KeptAtSuccess ==
  ASSUME RunsFormed, ContentInv, ~ Idle, job.pc = "publish", NEW from, NEW recorded,
         job.stage \in {"selection", "replay"} => from = job.from,
         job.stage \in {"extraction", "selection"} => recorded = job.out,
         job.stage = "canonicalization" /\ ~ job.raced =>
           recorded["events"] = job.parts["events"]
  PROVE  KeptAs(Published(from, recorded))
  <1> DEFINE y == Published(from, recorded)
  <1>1. Lasting(job, runs[job.src]) /\ WellFormed(job)
    BY JobFacts
  <1>2. Becomes(job, y, "ended", from, job.input, job.out, job.parts, "SUCCEEDED", recorded)
    BY <1>1, EndIs
  <1> HIDE DEF y
  <1>3. Lasting(y, runs[job.src])
    BY <1>1, <1>2, SucceedsLasts
  <1>4. y.stage = job.stage /\ y.src = job.src /\ y.raced = job.raced /\ y.pc = "ended"
    BY <1>2 DEF Becomes
  <1>5. Steady(y, Source, Touched)
    BY <1>4 DEF Steady
  <1>6. QED
    BY <1>3, <1>4, <1>5 DEF KeptAs, y

\* It stays true when the run has computed.
LEMMA KeptWhenComputed ==
  ASSUME RunsFormed, ContentInv, ~ Idle, job.pc \in {"request", "check", "read"},
         NEW input, NEW out, job.stage # "gold",
         job.stage \in FileStages => out[FilePart(job.stage)] \in Seq(Elements(job.stage)),
         Contract!Holds([stage |-> job.stage, input |-> input, output |-> out]),
         job.stage = "canonicalization" =>
           /\ runs[job.src].status = "SUCCEEDED"
           /\ ~ job.raced => input = runs[job.src].recorded["raw"],
         job.stage \in {"selection", "replay"} /\ ~ job.raced => input = job.from
  PROVE  KeptAs(Computed(input, out))
  <1> DEFINE y == Computed(input, out)
             s == runs[job.src]
  <1>1. /\ Lasting(job, s) /\ WellFormed(job) /\ job.status # "SUCCEEDED"
        /\ Steady(job, Source, Touched) /\ job.pc \notin {"ended", "crashed"}
        /\ DOMAIN job.parts = {}
    BY JobFacts
  <1>2. Becomes(job, y, "write", job.from, input, out, job.parts, job.status, job.recorded)
    BY <1>1, WriteIs
  <1>3. /\ job.stage = "canonicalization" =>
             s.status = "SUCCEEDED" /\ (~ job.raced => input = s.recorded["raw"])
    OBVIOUS
  <1> HIDE DEF y, s
  <1>4. Lasting(y, s)
    BY <1>1, <1>2, <1>3, ComputesLasts
  <1>5. y.stage = job.stage /\ y.src = job.src /\ y.raced = job.raced /\ y.pc = "write"
    BY <1>2 DEF Becomes
  <1>6. Steady(y, Source, Touched)
    BY <1>1, <1>5, SteadyFollows
  <1>7. QED
    BY <1>4, <1>5, <1>6 DEF KeptAs, y, s

\* It stays true when a part is put in place.
LEMMA KeptWhenPut ==
  ASSUME RunsFormed, ContentInv, ~ Idle, job.pc = "write", NEW content,
         job.stage # "gold" => content = job.out[NextPart],
         job.stage = "gold" => content = Source
  PROVE  KeptAs(Put(content))
  <1> DEFINE y == Put(content)
             s == runs[job.src]
             p == NextPart
  <1>1. /\ Lasting(job, s) /\ WellFormed(job) /\ job.status # "SUCCEEDED"
        /\ Steady(job, Source, Touched) /\ job.pc \notin {"ended", "crashed"}
    BY JobFacts
  <1>2. PICK pc \in {"write", "publish"} :
          Becomes(job, y, pc, job.from, job.input, job.out, WithPart(job.parts, p, content),
                  job.status, job.recorded)
    BY <1>1, WriteIs
  <1>3. job.stage # "gold" => content = job.out[p]
    OBVIOUS
  <1>4. job.stage = "gold" /\ ~ job.raced => content = job.input
    BY <1>1 DEF Steady
  <1> HIDE DEF y, s, p
  <1>5. Lasting(y, s)
    BY <1>1, <1>2, <1>3, <1>4, PutsLasts
  <1>6. y.stage = job.stage /\ y.src = job.src /\ y.raced = job.raced /\ y.pc = pc
        /\ y.input = job.input
    BY <1>2 DEF Becomes
  <1>7. y.stage = "gold" /\ y.pc \in {"write", "publish"} /\ ~ y.raced => Source = y.input
    BY <1>1, <1>6 DEF Steady
  <1>8. y.pc # "read"
    BY <1>6
  <1>9. Steady(y, Source, Touched)
    BY <1>1, <1>6, <1>7, <1>8, SteadyFollows
  <1>10. QED
    BY <1>5, <1>6, <1>9 DEF KeptAs, y, s

\* It stays true when the run goes on to read what it has checked.
LEMMA KeptWhenChecked ==
  ASSUME RunsFormed, ContentInv, ~ Idle, job.pc = "check", NEW y, NEW from,
         Becomes(job, y, "read", from, job.input, job.out, job.parts, job.status, job.recorded),
         Source = from,
         \/ /\ job.stage = "canonicalization" /\ runs[job.src].status = "SUCCEEDED"
            /\ from = runs[job.src].recorded["raw"]
         \/ job.stage = "replay" /\ from = job.from
  PROVE  KeptAs(y)
  <1> DEFINE s == runs[job.src]
  <1>1. /\ Lasting(job, s) /\ job.status # "SUCCEEDED"
        /\ Steady(job, Source, Touched) /\ job.pc \notin {"ended", "crashed"}
    BY JobFacts
  <1>2. \/ job.stage = "canonicalization" /\ s.status = "SUCCEEDED" /\ from = s.recorded["raw"]
        \/ job.stage = "replay" /\ from = job.from
    OBVIOUS
  <1> HIDE DEF s
  <1>3. Lasting(y, s)
    BY <1>1, <1>2, GoesToReadLasts
  <1>4. y.stage = job.stage /\ y.src = job.src /\ y.raced = job.raced /\ y.pc = "read"
          /\ y.from = from
    BY DEF Becomes
  <1>5. Steady(y, Source, Touched)
    BY <1>1, <1>4, SteadyFollows
  <1>6. QED
    BY <1>3, <1>4, <1>5 DEF KeptAs, s

-----------------------------------------------------------------------------
(* What each stage does keeps what is known of its run.                    *)

\* The run in work goes on, and what is known of it stays true.
GoesOn == ~ Idle /\ \E y : Step(y) /\ KeptAs(y)

\* The extractor: a body is stored as it was received.
LEMMA ExtractionKeeps ==
  ASSUME RunsFormed, ContentInv, RequestCsv \/ PublishExtraction
  PROVE  GoesOn
  <1>1. CASE RetryableError
    <2> DEFINE w == [job EXCEPT !.pc = "wait"]
               y == IF job.attempt = MaxAttempts THEN ExtractionFailed ELSE w
    <2>1. ~ Idle /\ job.stage = "extraction" /\ job.pc = "request" /\ Step(y)
      BY <1>1 DEF RetryableError, At
    <2>2. WellFormed(job) /\ job.status # "SUCCEEDED"
      BY <2>1, JobFacts
    <2>3. Becomes(job, w, "wait", job.from, job.input, job.out, job.parts, job.status, job.recorded)
      BY <2>2, TurnIs
    <2> HIDE DEF w
    <2>4. KeptAs(w)
      BY <2>1, <2>2, <2>3, KeptWhenOver
    <2>5. KeptAs(ExtractionFailed)
      <3>1. ExtractionFailed = End("FAILED")
        BY <2>1 DEF ExtractionFailed
      <3>2. QED
        BY <2>1, <3>1, KeptAtEnd
    <2>6. KeptAs(y)
      BY <2>4, <2>5
    <2> HIDE DEF y
    <2>7. QED
      BY <2>1, <2>6 DEF GoesOn
  <1>2. CASE Retry
    <2> DEFINE y == [job EXCEPT !.pc = "request", !.attempt = @ + 1]
    <2>1. ~ Idle /\ Step(y)
      BY <1>2 DEF Retry, At
    <2>2. WellFormed(job) /\ job.status # "SUCCEEDED"
      BY <2>1, JobFacts
    <2>3. Becomes(job, y, "request", job.from, job.input, job.out, job.parts, job.status,
            job.recorded)
      BY <2>2, TurnIs
    <2> HIDE DEF y
    <2>4. KeptAs(y)
      BY <2>1, <2>2, <2>3, KeptWhenOver
    <2>5. QED
      BY <2>1, <2>4 DEF GoesOn
  <1>3. CASE FinalError
    <2>1. ~ Idle /\ job.pc = "request" /\ Step(ExtractionFailed)
      BY <1>3 DEF FinalError, At
    <2>2. ExtractionFailed = End("FAILED")
      BY <2>1 DEF ExtractionFailed
    <2>3. KeptAs(ExtractionFailed)
      BY <2>1, <2>2, KeptAtEnd
    <2>4. QED
      BY <2>1, <2>3 DEF GoesOn
  <1>4. ASSUME NEW body \in Bodies, Receive(body)
        PROVE  GoesOn
    <2> DEFINE o == [raw |-> body.rows]
               z == Computed(body.rows, o)
               y == IF ValidFirmsCsv(body) THEN z ELSE ExtractionFailed
               e == [stage |-> "extraction", input |-> body.rows, output |-> o]
    <2>1. ~ Idle /\ job.stage = "extraction" /\ job.pc = "request" /\ Step(y)
      BY <1>4 DEF Receive, At
    <2>2. body.rows \in Seq(Rows)
      BY BodiesAssumption
    <2>3. FilePart("extraction") = "raw" /\ Elements("extraction") = Rows
      BY DEF FilePart, Elements
    <2>4. o["raw"] = body.rows
      OBVIOUS
    <2>5. Contract!Holds(e)
      <3>1. e.stage = "extraction" /\ e.output["raw"] = e.input
        BY <2>4
      <3> HIDE DEF e
      <3>2. QED
        BY <3>1 DEF Contract!Holds
    <2>6. KeptAs(z)
      <3> HIDE DEF o
      <3>1. QED
        BY <2>1, <2>2, <2>3, <2>4, <2>5, KeptWhenComputed
    <2>7. KeptAs(ExtractionFailed)
      <3>1. ExtractionFailed = End("FAILED")
        BY <2>1 DEF ExtractionFailed
      <3>2. QED
        BY <2>1, <3>1, KeptAtEnd
    <2>8. KeptAs(y)
      <3> HIDE DEF z
      <3>1. QED
        BY <2>6, <2>7
    <2> HIDE DEF y
    <2>9. QED
      BY <2>1, <2>8 DEF GoesOn
  <1>5. CASE PublishExtraction
    <2>1. ~ Idle /\ job.stage = "extraction" /\ job.pc = "publish"
            /\ Step(Published(job.input, job.out))
      BY <1>5 DEF PublishExtraction, At
    <2>2. KeptAs(Published(job.input, job.out))
      BY <2>1, KeptAtSuccess
    <2>3. QED
      BY <2>1, <2>2 DEF GoesOn
  <1>6. QED
    BY <1>1, <1>2, <1>3, <1>4, <1>5 DEF RequestCsv

\* The canonicalizer: between the check of the checksum and the second opening of
\* the file it may be replaced, which is why a run may have been raced.
LEMMA CanonicalizationKeeps ==
  ASSUME RunsFormed, ContentInv, CheckSource \/ ReadRows \/ PublishCanonical
  PROVE  GoesOn
  <1>1. CASE CheckSource
    <2> DEFINE s == runs[job.src]
               c == s.status = "SUCCEEDED" /\ RawIsIntact
               z == [job EXCEPT !.pc = "read", !.from = s.recorded["raw"]]
               y == IF c THEN z ELSE CanonicalizationFailed
    <2>1. ~ Idle /\ job.stage = "canonicalization" /\ job.pc = "check" /\ Step(y)
      BY <1>1 DEF CheckSource, At
    <2>2. WellFormed(job)
      BY <2>1, JobFacts
    <2>3. Becomes(job, z, "read", s.recorded["raw"], job.input, job.out, job.parts, job.status,
            job.recorded)
      BY <2>2, TurnIs
    <2>4. ASSUME c PROVE KeptAs(z)
      <3>1. Source = s.recorded["raw"] /\ s.status = "SUCCEEDED"
        BY <2>4 DEF RawIsIntact
      <3> HIDE DEF z
      <3>2. QED
        BY <2>1, <2>3, <3>1, KeptWhenChecked
    <2>5. KeptAs(CanonicalizationFailed)
      BY <2>1, KeptAtEnd DEF CanonicalizationFailed
    <2>6. KeptAs(y)
      <3> HIDE DEF z, c
      <3>1. QED
        BY <2>4, <2>5
    <2> HIDE DEF y
    <2>7. QED
      BY <2>1, <2>6 DEF GoesOn
  <1>2. CASE ReadRows
    <2> DEFINE s == runs[job.src]
               rows == Source
               can == Canonicalized(rows)
               c == /\ \A k \in DOMAIN rows : rows[k].shape = "whole"
                    /\ Len(rows) = Len(job.from)
               o == [p \in {"events", "rejected", "duplicates"} |-> can[p]]
               z == Computed(rows, o)
               y == IF c THEN z ELSE CanonicalizationFailed
               e == [stage |-> "canonicalization", input |-> rows, output |-> o]
    <2>1. ~ Idle /\ job.stage = "canonicalization" /\ job.pc = "read" /\ Step(y)
      BY <1>2 DEF ReadRows, At
    <2>2. Sourced(job, s) /\ Steady(job, Source, Touched)
      BY <2>1, JobFacts DEF Lasting
    <2>3. s.status = "SUCCEEDED" /\ (~ job.raced => rows = s.recorded["raw"])
      BY <2>1, <2>2 DEF Sourced, Steady
    <2>4. rows \in Seq(Rows)
      BY <2>1, <2>3, SourceTyped
    <2>5. \A p \in {"events", "rejected", "duplicates"} : o[p] = can[p]
      OBVIOUS
    <2> HIDE DEF o
    <2>6. /\ o["events"] \in Seq(Lines) /\ Contract!IsCanonical(rows, o)
          /\ \A k \in 1..Len(o["events"]) : o["events"][k].event_id \in Nat \X {0}
      <3> HIDE DEF rows
      <3>1. QED
        BY <2>4, <2>5, CanonicalHolds
    <2>7. o["events"] \in Seq(OriginalLines)
      BY <2>6, TheyAreOriginals
    <2>8. FilePart("canonicalization") = "events" /\ Elements("canonicalization") = OriginalLines
      BY DEF FilePart, Elements
    <2>9. Contract!Holds(e)
      <3>1. e.stage = "canonicalization" /\ e.output = o /\ e.input = rows
        OBVIOUS
      <3> HIDE DEF e
      <3>2. QED
        BY <2>6, <3>1 DEF Contract!Holds
    <2>10. KeptAs(z)
      <3> HIDE DEF rows
      <3>1. QED
        BY <2>1, <2>3, <2>7, <2>8, <2>9, KeptWhenComputed
    <2>11. KeptAs(CanonicalizationFailed)
      BY <2>1, KeptAtEnd DEF CanonicalizationFailed
    <2>12. KeptAs(y)
      <3> HIDE DEF z, c
      <3>1. QED
        BY <2>10, <2>11
    <2> HIDE DEF y
    <2>13. QED
      BY <2>1, <2>12 DEF GoesOn
  <1>3. CASE PublishCanonical
    <2> DEFINE f == [p \in DOMAIN job.parts |-> Content(Len(runs), p)]
    <2>1. ~ Idle /\ job.stage = "canonicalization" /\ job.pc = "publish"
            /\ Step(Published(job.from, f))
      BY <1>3 DEF PublishCanonical, At
    <2>2. /\ job = runs[Len(runs)] /\ WellFormed(job) /\ Steady(job, Source, Touched)
          /\ job.pc \notin {"ended", "crashed"}
      BY <2>1, JobFacts
    <2>3. "events" \in DOMAIN job.parts
      <3>1. DOMAIN job.parts = InPlace("canonicalization", Len(PartsOf["canonicalization"]))
        BY <2>1, <2>2 DEF WellFormed, Written
      <3>2. PartsOf["canonicalization"] = <<"events", "rejected", "duplicates">>
        BY DEF PartsOf
      <3>3. QED
        BY <3>1, <3>2 DEF InPlace
    <2>4. ~ job.raced => f["events"] = job.parts["events"]
      <3> SUFFICES ASSUME ~ job.raced PROVE f["events"] = job.parts["events"]
        OBVIOUS
      <3>1. ~ Touched
        BY <2>1, <2>2 DEF Steady
      <3>2. {d \in damage : d.run = Len(runs) /\ d.part = "events"} = {}
        BY <3>1 DEF Touched
      <3>3. Content(Len(runs), "events") = runs[Len(runs)].parts["events"]
        BY <3>2 DEF Content
      <3>4. QED
        BY <2>2, <2>3, <3>3
    <2> HIDE DEF f
    <2>5. KeptAs(Published(job.from, f))
      BY <2>1, <2>4, KeptAtSuccess
    <2>6. QED
      BY <2>1, <2>5 DEF GoesOn
  <1>4. QED
    BY <1>1, <1>2, <1>3

\* The scale gate.
LEMMA SelectionKeeps ==
  ASSUME RunsFormed, ContentInv, CheckSelection \/ PublishSelection
  PROVE  GoesOn
  <1>1. CASE CheckSelection
    <2> DEFINE events == Source
               c == events = job.from /\ DistinctIds(events) /\ Len(events) >= Target
               chosen == SubSeq(SortedById(events), 1, Target)
               o == [events |-> chosen]
               z == Computed(events, o)
               y == IF c THEN z ELSE SelectionFailed
               e == [stage |-> "selection", input |-> events, output |-> o]
    <2>1. ~ Idle /\ job.stage = "selection" /\ job.pc = "check" /\ Step(y)
      BY <1>1 DEF CheckSelection, At
    <2>2. events \in Seq(OriginalLines)
      BY <2>1, SourceTyped
    <2>3. FilePart("selection") = "events" /\ Elements("selection") = OriginalLines
      BY DEF FilePart, Elements
    <2>4. o["events"] = chosen
      OBVIOUS
    <2>5. ASSUME c PROVE KeptAs(z)
      <3>1. events = job.from /\ DistinctIds(events) /\ Len(events) >= Target
        BY <2>5
      <3>2. \A k \in 1..Len(events) : events[k].event_id \in Nat \X {0}
        BY <2>2 DEF OriginalLines
      <3>3. chosen \in Seq(OriginalLines) /\ Contract!IsSelection(events, chosen)
        <4> HIDE DEF events
        <4>1. QED
          BY <2>2, <3>1, <3>2, SelectionHolds
      <3>4. Contract!Holds(e)
        <4>1. e.stage = "selection" /\ e.output = o /\ e.input = events
          OBVIOUS
        <4> HIDE DEF e, o, chosen, events
        <4>2. QED
          BY <2>4, <3>3, <4>1 DEF Contract!Holds
      <3> HIDE DEF events, chosen, o
      <3>5. QED
        BY <2>1, <2>3, <2>4, <3>1, <3>3, <3>4, KeptWhenComputed
    <2>6. KeptAs(SelectionFailed)
      BY <2>1, KeptAtEnd DEF SelectionFailed
    <2>7. KeptAs(y)
      <3> HIDE DEF z, c
      <3>1. QED
        BY <2>5, <2>6
    <2> HIDE DEF y
    <2>8. QED
      BY <2>1, <2>7 DEF GoesOn
  <1>2. CASE PublishSelection
    <2>1. ~ Idle /\ job.stage = "selection" /\ job.pc = "publish"
            /\ Step(Published(job.from, job.out))
      BY <1>2 DEF PublishSelection, At
    <2>2. KeptAs(Published(job.from, job.out))
      BY <2>1, KeptAtSuccess
    <2>3. QED
      BY <2>1, <2>2 DEF GoesOn
  <1>3. QED
    BY <1>1, <1>2

\* The replay generator.
LEMMA ReplayKeeps ==
  ASSUME RunsFormed, ContentInv, CheckReplaySource \/ GenerateReplay \/ PublishReplay
  PROVE  GoesOn
  <1>1. CASE CheckReplaySource
    <2> DEFINE z == [job EXCEPT !.pc = "read"]
               y == IF Source = job.from THEN z ELSE ReplayFailed
    <2>1. ~ Idle /\ job.stage = "replay" /\ job.pc = "check" /\ Step(y)
      BY <1>1 DEF CheckReplaySource, At
    <2>2. WellFormed(job)
      BY <2>1, JobFacts
    <2>3. Becomes(job, z, "read", job.from, job.input, job.out, job.parts, job.status, job.recorded)
      BY <2>2, TurnIs
    <2> HIDE DEF z
    <2>4. ASSUME Source = job.from PROVE KeptAs(z)
      BY <2>1, <2>3, <2>4, KeptWhenChecked
    <2>5. KeptAs(ReplayFailed)
      BY <2>1, KeptAtEnd DEF ReplayFailed
    <2>6. KeptAs(y)
      BY <2>4, <2>5
    <2> HIDE DEF y
    <2>7. QED
      BY <2>1, <2>6 DEF GoesOn
  <1>2. CASE GenerateReplay
    <2> DEFINE originals == Source
               n == Len(job.from)
               events == Replayed(SortedById(originals), n)
               c == AreOriginals(originals, n) /\ Len(events) = n * Factor /\ DistinctIds(events)
               o == [events |-> events]
               z == Computed(originals, o)
               y == IF c THEN z ELSE ReplayFailed
               e == [stage |-> "replay", input |-> originals, output |-> o]
    <2>1. ~ Idle /\ job.stage = "replay" /\ job.pc = "read" /\ Step(y)
      BY <1>2 DEF GenerateReplay, At
    <2>2. originals \in Seq(OriginalLines)
      BY <2>1, SourceTyped
    <2>3. ~ job.raced => originals = job.from
      <3>1. Steady(job, Source, Touched)
        BY <2>1, JobFacts
      <3>2. QED
        BY <2>1, <3>1 DEF Steady
    <2>4. FilePart("replay") = "events" /\ Elements("replay") = Lines
      BY DEF FilePart, Elements
    <2>5. o["events"] = events
      OBVIOUS
    <2>6. ASSUME c PROVE KeptAs(z)
      <3>1. AreOriginals(originals, n) /\ DistinctIds(events)
        BY <2>6
      <3>2. n = Len(originals)
        BY <3>1 DEF AreOriginals
      <3>3. originals \in Seq(Lines)
        BY <2>2, OriginalsAreLines
      <3>4. \A k \in 1..Len(originals) : originals[k].event_id \in Nat \X {0}
        BY <2>2 DEF OriginalLines
      <3>5. events = Replayed(SortedById(originals), Len(originals))
            /\ AreOriginals(originals, Len(originals))
        BY <3>1, <3>2
      <3>6. events \in Seq(Lines) /\ Contract!IsReplay(originals, events)
        <4> HIDE DEF originals, events, n
        <4>1. QED
          BY <3>1, <3>3, <3>4, <3>5, ReplayHolds
      <3>7. Contract!Holds(e)
        <4>1. e.stage = "replay" /\ e.output = o /\ e.input = originals
          OBVIOUS
        <4> HIDE DEF e, o, events, originals
        <4>2. QED
          BY <2>5, <3>6, <4>1 DEF Contract!Holds
      <3> HIDE DEF originals, events, o
      <3>8. QED
        BY <2>1, <2>3, <2>4, <2>5, <3>6, <3>7, KeptWhenComputed
    <2>7. KeptAs(ReplayFailed)
      BY <2>1, KeptAtEnd DEF ReplayFailed
    <2>8. KeptAs(y)
      <3> HIDE DEF z, c
      <3>1. QED
        BY <2>6, <2>7
    <2> HIDE DEF y
    <2>9. QED
      BY <2>1, <2>8 DEF GoesOn
  <1>3. CASE PublishReplay
    <2>1. ~ Idle /\ job.stage = "replay" /\ job.pc = "publish" /\ Step(Published(job.from, job.out))
      BY <1>3 DEF PublishReplay, At
    <2>2. KeptAs(Published(job.from, job.out))
      BY <2>1, KeptAtSuccess
    <2>3. QED
      BY <2>1, <2>2 DEF GoesOn
  <1>4. QED
    BY <1>1, <1>2, <1>3

\* Batch Silver.
LEMMA SilverKeeps ==
  ASSUME RunsFormed, ContentInv, Classify \/ PublishSilver
  PROVE  GoesOn
  <1>1. CASE Classify
    <2>1. ~ Idle /\ job.stage = "silver" /\ job.pc = "read"
      BY <1>1 DEF Classify, At
    <2>2. PICK first \in Numberings(InputFile) :
                 Step(Computed(InputFile, Classified(InputFile, first)))
      BY <1>1 DEF Classify
    <2> DEFINE o == Classified(InputFile, first)
               e == [stage |-> "silver", input |-> InputFile, output |-> o]
    <2>3. InputFile \in Seq(Lines)
      BY <2>1, SourceTyped
    <2>4. Contract!IsSilver(InputFile, o)
      BY <2>3, SilverHolds
    <2>5. Contract!Holds(e)
      <3>1. e.stage = "silver" /\ e.output = o /\ e.input = InputFile
        OBVIOUS
      <3> HIDE DEF e, o
      <3>2. QED
        BY <2>4, <3>1 DEF Contract!Holds
    <2>6. job.stage \notin FileStages
      BY <2>1 DEF FileStages
    <2> HIDE DEF o
    <2>7. KeptAs(Computed(InputFile, o))
      BY <2>1, <2>5, <2>6, KeptWhenComputed
    <2>8. QED
      BY <2>1, <2>2, <2>7 DEF GoesOn, o
  <1>2. CASE PublishSilver
    <2> DEFINE none == [p \in {} |-> <<>>]
               z == Published(InputFile, none)
               c == /\ job.out["silver"] # <<>>
                    /\ \A p \in DOMAIN job.parts : Len(Content(Len(runs), p)) = Len(job.out[p])
               y == IF c THEN z ELSE SilverFailed
    <2>1. ~ Idle /\ job.stage = "silver" /\ job.pc = "publish" /\ Step(y)
      BY <1>2 DEF PublishSilver, At
    <2>2. KeptAs(z)
      <3> HIDE DEF none
      <3>1. QED
        BY <2>1, KeptAtSuccess
    <2>3. KeptAs(SilverFailed)
      BY <2>1, KeptAtEnd DEF SilverFailed
    <2>4. KeptAs(y)
      <3> HIDE DEF z, c
      <3>1. QED
        BY <2>2, <2>3
    <2> HIDE DEF y
    <2>5. QED
      BY <2>1, <2>4 DEF GoesOn
  <1>3. QED
    BY <1>1, <1>2

\* The Gold build, which reads Silver once to check it and once for each artifact.
LEMMA GoldKeeps ==
  ASSUME RunsFormed, ContentInv, CheckSilver \/ WriteGold \/ PublishGold
  PROVE  GoesOn
  <1>1. CASE CheckSilver
    <2> DEFINE z == [job EXCEPT !.input = Source, !.pc = "write"]
               c == Len(Source) = GateSize /\ DistinctIds(Source)
               y == IF c THEN z ELSE GoldFailed
               s == runs[job.src]
    <2>1. ~ Idle /\ job.stage = "gold" /\ job.pc = "check" /\ Step(y)
      BY <1>1 DEF CheckSilver, At
    <2>2. /\ WellFormed(job) /\ Lasting(job, s) /\ job.status # "SUCCEEDED"
          /\ Steady(job, Source, Touched) /\ job.pc \notin {"ended", "crashed"}
          /\ DOMAIN job.parts = {}
      BY <2>1, JobFacts
    <2>3. Becomes(job, z, "write", job.from, Source, job.out, job.parts, job.status, job.recorded)
      BY <2>2, WriteIs
    <2>4. job.stage \notin FileStages
      BY <2>1 DEF FileStages
    <2> HIDE DEF z, s
    <2>5. ASSUME c PROVE KeptAs(z)
      <3>1. Lasting(z, s)
        BY <2>1, <2>2, <2>3, <2>4, <2>5, ComputesLasts
      <3>2. z.stage = job.stage /\ z.src = job.src /\ z.raced = job.raced /\ z.pc = "write"
            /\ z.input = Source
        BY <2>3 DEF Becomes
      <3>3. Steady(z, Source, Touched)
        BY <2>2, <3>2, SteadyFollows
      <3>4. QED
        BY <3>1, <3>2, <3>3 DEF KeptAs, s
    <2>6. KeptAs(GoldFailed)
      BY <2>1, KeptAtEnd DEF GoldFailed
    <2>7. KeptAs(y)
      <3> HIDE DEF c
      <3>1. QED
        BY <2>5, <2>6
    <2> HIDE DEF y
    <2>8. QED
      BY <2>1, <2>7 DEF GoesOn
  <1>2. CASE WriteGold
    <2>1. ~ Idle /\ job.stage = "gold" /\ job.pc = "write" /\ Step(Put(Source))
      BY <1>2 DEF WriteGold, At
    <2>2. KeptAs(Put(Source))
      BY <2>1, KeptWhenPut
    <2>3. QED
      BY <2>1, <2>2 DEF GoesOn
  <1>3. CASE PublishGold
    <2> DEFINE files == [p \in DOMAIN job.parts |-> Content(Len(runs), p)]
               z == Published(job.input, files)
               c == \A p \in DOMAIN files : Len(files[p]) = Len(job.input)
               y == IF c THEN z ELSE GoldFailed
    <2>1. ~ Idle /\ job.stage = "gold" /\ job.pc = "publish" /\ Step(y)
      BY <1>3 DEF PublishGold, At
    <2>2. KeptAs(z)
      <3> HIDE DEF files
      <3>1. QED
        BY <2>1, KeptAtSuccess
    <2>3. KeptAs(GoldFailed)
      BY <2>1, KeptAtEnd DEF GoldFailed
    <2>4. KeptAs(y)
      <3> HIDE DEF z, c
      <3>1. QED
        BY <2>2, <2>3
    <2> HIDE DEF y
    <2>5. QED
      BY <2>1, <2>4 DEF GoesOn
  <1>4. QED
    BY <1>1, <1>2, <1>3

\* Whatever a stage does, what is known of its run stays true.
LEMMA WorkKeeps ==
  ASSUME RunsFormed, ContentInv, Work
  PROVE  GoesOn
  <1>1. CASE WritePart
    <2>1. ~ Idle /\ job.pc = "write" /\ job.stage # "gold" /\ Step(Put(job.out[NextPart]))
      BY <1>1 DEF WritePart
    <2>2. KeptAs(Put(job.out[NextPart]))
      BY <2>1, KeptWhenPut
    <2>3. QED
      BY <2>1, <2>2 DEF GoesOn
  <1>2. QED
    BY <1>1, ExtractionKeeps, CanonicalizationKeeps, SelectionKeeps, ReplayKeeps, SilverKeeps,
       GoldKeeps DEF Work

-----------------------------------------------------------------------------
(* Exceptions and crashes, and what begins.                                *)

\* Only Spark leaves a part that is not complete.
LEMMA FilesAreWhole ==
  ASSUME NEW left \in Leftovers
  PROVE  (job.stage \in FileStages \/ job.pc # "write") => left = job.parts
  BY DEF Leftovers, FileStages

\* An exception and a crash keep what is known.
LEMMA TroubleKeeps ==
  ASSUME RunsFormed, ContentInv, Exception \/ Crash
  PROVE  /\ ~ Idle /\ UNCHANGED damage
         /\ \E y : runs' = [runs EXCEPT ![Len(runs)] = y] /\ KeptAs(y)
  <1>1. ~ Idle /\ UNCHANGED damage
    BY DEF Exception, Crash
  <1>2. WellFormed(job) /\ job.status # "SUCCEEDED"
    BY <1>1, JobFacts
  <1>3. CASE Exception
    <2>1. PICK left \in Leftovers :
                 runs' = [runs EXCEPT ![Len(runs)] = [Failed EXCEPT !.parts = left]]
      BY <1>3 DEF Exception
    <2>2. ASSUME NEW status \in {"NONE", "FAILED"}
          PROVE  KeptAs([End(status) EXCEPT !.parts = left])
      <3> DEFINE y == [End(status) EXCEPT !.parts = left]
      <3>1. Becomes(job, y, "ended", job.from, job.input, job.out, left, status, job.recorded)
        BY <1>2, EndIs
      <3>2. status # "SUCCEEDED" /\ (job.stage \in FileStages => left = job.parts)
        BY FilesAreWhole
      <3> HIDE DEF y
      <3>3. QED
        BY <1>1, <3>1, <3>2, KeptWhenOver DEF y
    <2>3. ASSUME job.pc = "publish", Failed = Published(job.input, job.out)
          PROVE  KeptAs([Failed EXCEPT !.parts = left])
      <3> DEFINE w == Published(job.input, job.out)
      <3>1. left = job.parts
        BY <2>3, FilesAreWhole
      <3>2. Becomes(job, w, "ended", job.input, job.input, job.out, job.parts, "SUCCEEDED", job.out)
        BY <1>2, EndIs
      <3>3. job.stage = "extraction"
        <4>1. job.stage \in Stages
          BY <1>2 DEF WellFormed
        <4>2. w.status = "SUCCEEDED" /\ Failed = w
          BY <2>3, <3>2 DEF Becomes
        <4>3. \A status \in {"NONE", "FAILED"} : End(status).status = status
          <5> SUFFICES ASSUME NEW status \in {"NONE", "FAILED"} PROVE End(status).status = status
            OBVIOUS
          <5>1. Becomes(job, End(status), "ended", job.from, job.input, job.out, job.parts,
                  status, job.recorded)
            BY <1>2, EndIs
          <5>2. QED
            BY <5>1 DEF Becomes
        <4>4. End("NONE").status = "NONE" /\ End("FAILED").status = "FAILED"
          BY <4>3
        <4>5. Failed.status = "SUCCEEDED"
          BY <4>2
        <4> HIDE DEF w
        <4>6. job.stage # "extraction" => Failed \in {End("NONE"), End("FAILED")}
          BY <4>1 DEF Stages, Failed, CanonicalizationFailed, SelectionFailed, ReplayFailed,
                      SilverFailed, GoldFailed
        <4>7. QED
          BY <4>4, <4>5, <4>6
      <3>4. KeptAs(w)
        BY <1>1, <2>3, <3>3, KeptAtSuccess
      <3> HIDE DEF w
      <3>5. [w EXCEPT !.parts = left] = w
        <4>1. w = [f \in Fields |-> w[f]] /\ w.parts = left
          BY <3>1, <3>2 DEF Becomes, IsRun
        <4>2. QED
          BY <4>1 DEF Fields
      <3>6. QED
        BY <2>3, <3>4, <3>5 DEF w
    <2>4. KeptAs([Failed EXCEPT !.parts = left])
      <3>1. \/ \E status \in {"NONE", "FAILED"} : Failed = End(status)
            \/ job.pc = "publish" /\ Failed = Published(job.input, job.out)
        BY <1>2, FailedIs
      <3>2. CASE \E status \in {"NONE", "FAILED"} : Failed = End(status)
        <4>1. PICK status \in {"NONE", "FAILED"} : Failed = End(status)
          BY <3>2
        <4>2. QED
          BY <2>2, <4>1
      <3>3. QED
        BY <2>3, <3>1, <3>2
    <2>5. QED
      BY <1>1, <2>1, <2>4
  <1>4. CASE Crash
    <2>1. PICK left \in Leftovers :
            runs' = [runs EXCEPT ![Len(runs)] = [job EXCEPT !.pc = "crashed", !.parts = left]]
      BY <1>4 DEF Crash
    <2> DEFINE y == [job EXCEPT !.pc = "crashed", !.parts = left]
    <2>2. Becomes(job, y, "crashed", job.from, job.input, job.out, left, job.status, job.recorded)
      BY <1>2, EndIs
    <2>3. job.stage \in FileStages => left = job.parts
      BY FilesAreWhole
    <2> HIDE DEF y
    <2>4. KeptAs(y)
      BY <1>1, <1>2, <2>2, <2>3, KeptWhenOver
    <2>5. QED
      BY <1>1, <2>1, <2>4 DEF y
  <1>5. QED
    BY <1>3, <1>4

-----------------------------------------------------------------------------
\* A run knows its source from the start.
Knows(y) == Sourced(y, runs[y.src]) /\ (y.pc = "read" => y.stage = "silver")

\* The fields of a run that begins.
LEMMA NewRunIs ==
  ASSUME NEW stage, NEW src, NEW pc, NEW from
  PROVE  LET y == NewRun(stage, src, pc)
             z == [NewRun(stage, src, pc) EXCEPT !.from = from]
         IN  /\ y.stage = stage /\ y.src = src /\ y.pc = pc /\ y.status = "NONE"
             /\ z.stage = stage /\ z.src = src /\ z.pc = pc /\ z.status = "NONE" /\ z.from = from
             /\ stage \in {"canonicalization", "selection", "replay"} /\ runs[src].raced
                  => y.raced /\ z.raced
  BY DEF NewRun

\* What begins is fresh and knows its source.
LEMMA StartKnows ==
  ASSUME RunsFormed, Start
  PROVE  /\ Idle /\ UNCHANGED damage
         /\ \E y : Fresh(y, Len(runs) + 1) /\ Knows(y) /\ runs' = Append(runs, y)
  <1>1. DOMAIN runs = 1..Len(runs) /\ Len(runs) \in Nat
    BY DEF RunsFormed
  <1>2. ASSUME NEW y, Begin(y), Fresh(y, Len(runs) + 1), Knows(y)
        PROVE  /\ Idle /\ UNCHANGED damage
               /\ \E z : Fresh(z, Len(runs) + 1) /\ Knows(z) /\ runs' = Append(runs, z)
    BY <1>2 DEF Begin
  <1>3. ASSUME NEW stage \in Stages, NEW src \in 0..Len(runs),
                 NEW pc \in {"request", "check", "read"},
               NEW from
        PROVE  /\ Fresh(NewRun(stage, src, pc), Len(runs) + 1)
               /\ Fresh([NewRun(stage, src, pc) EXCEPT !.from = from], Len(runs) + 1)
    <2>1. src \in Nat /\ src < Len(runs) + 1 /\ Len(runs) + 1 \in Nat
      BY <1>1
    <2>2. QED
      BY <2>1, NewRunIsFresh
  <1>4. /\ "request" \in {"request", "check", "read"} /\ "check" \in {"request", "check", "read"}
        /\ "read" \in {"request", "check", "read"}
    OBVIOUS
  <1>5. /\ 0 \in 0..Len(runs)
        /\ \A src \in DOMAIN runs : src \in 0..Len(runs) /\ src # 0
    BY <1>1
  <1>6. CASE Extract
    <2> DEFINE y == NewRun("extraction", 0, "request")
    <2>1. y.stage = "extraction" /\ y.pc = "request"
      BY NewRunIs
    <2>2. Fresh(y, Len(runs) + 1)
      BY <1>3, <1>4, <1>5 DEF Stages
    <2>3. Begin(y)
      BY <1>6 DEF Extract
    <2> HIDE DEF y
    <2>4. Knows(y)
      BY <2>1 DEF Knows, Sourced
    <2>5. QED
      BY <1>2, <2>2, <2>3, <2>4
  <1>7. ASSUME NEW src \in DOMAIN runs, Canonicalize(src)
        PROVE  \E y : Begin(y) /\ Fresh(y, Len(runs) + 1) /\ Knows(y)
    <2> DEFINE y == NewRun("canonicalization", src, "check")
               s == runs[src]
    <2>1. /\ y.stage = "canonicalization" /\ y.pc = "check" /\ y.src = src /\ y.status = "NONE"
          /\ s.raced => y.raced
      BY NewRunIs
    <2>2. Fresh(y, Len(runs) + 1)
      BY <1>3, <1>4, <1>5 DEF Stages
    <2>3. Begin(y) /\ s.stage = "extraction"
      BY <1>7 DEF Canonicalize
    <2>4. src # 0
      BY <1>5
    <2> HIDE DEF y, s
    <2>5. Sourced(y, s) /\ y.pc # "read"
      BY <2>1, <2>3, <2>4 DEF Sourced, Worked
    <2>6. Knows(y)
      BY <2>1, <2>5 DEF Knows, s
    <2>7. QED
      BY <2>2, <2>3, <2>6
  <1>8. ASSUME NEW src \in DOMAIN runs, NEW stage \in {"selection", "replay"},
               \/ stage = "selection" /\ Select(src)
               \/ stage = "replay" /\ Generate(src)
        PROVE  \E y : Begin(y) /\ Fresh(y, Len(runs) + 1) /\ Knows(y)
    <2> DEFINE s == runs[src]
               from == s.recorded["events"]
               y == [NewRun(stage, src, "check") EXCEPT !.from = from]
    <2>1. /\ y.stage = stage /\ y.pc = "check" /\ y.src = src /\ y.status = "NONE"
          /\ y.from = s.recorded["events"] /\ (s.raced => y.raced)
      BY NewRunIs
    <2>2. Fresh(y, Len(runs) + 1)
      <3> HIDE DEF from
      <3>1. QED
        BY <1>3, <1>4, <1>5 DEF Stages
    <2>3. /\ Begin(y) /\ s.status = "SUCCEEDED"
          /\ s.stage \in IF stage = "selection" THEN {"canonicalization"}
                         ELSE {"canonicalization", "selection"}
      BY <1>8 DEF Select, Generate
    <2>4. src # 0
      BY <1>5
    <2> HIDE DEF y, s
    <2>5. Sourced(y, s) /\ y.pc # "read"
      BY <2>1, <2>3, <2>4 DEF Sourced, Worked
    <2>6. Knows(y)
      BY <2>1, <2>5 DEF Knows, s
    <2>7. QED
      BY <2>2, <2>3, <2>6
  <1>9. ASSUME NEW src \in DOMAIN runs, ProcessBatch(src)
        PROVE  \E y : Begin(y) /\ Fresh(y, Len(runs) + 1) /\ Knows(y)
    <2> DEFINE y == NewRun("silver", src, "read")
               s == runs[src]
    <2>1. y.stage = "silver" /\ y.src = src
      BY NewRunIs
    <2>2. Fresh(y, Len(runs) + 1)
      BY <1>3, <1>4, <1>5 DEF Stages
    <2>3. Begin(y) /\ "events" \in DOMAIN s.parts
      BY <1>9 DEF ProcessBatch
    <2>4. src # 0
      BY <1>5
    <2> HIDE DEF y, s
    <2>5. Sourced(y, s)
      BY <2>1, <2>3, <2>4 DEF Sourced
    <2>6. Knows(y)
      BY <2>1, <2>5 DEF Knows, s
    <2>7. QED
      BY <2>2, <2>3, <2>6
  <1>10. ASSUME NEW src \in DOMAIN runs, BuildGold(src)
         PROVE  \E y : Begin(y) /\ Fresh(y, Len(runs) + 1) /\ Knows(y)
    <2> DEFINE y == NewRun("gold", src, "check")
    <2>1. y.stage = "gold" /\ y.pc = "check" /\ y.src # 0
      BY <1>5, NewRunIs
    <2>2. Fresh(y, Len(runs) + 1)
      BY <1>3, <1>4, <1>5 DEF Stages
    <2>3. Begin(y)
      BY <1>10 DEF BuildGold
    <2> HIDE DEF y
    <2>4. Knows(y)
      BY <2>1 DEF Knows, Sourced
    <2>5. QED
      BY <2>2, <2>3, <2>4
  <1>11. ASSUME NEW file \in HandMade, ProcessHandMade(file)
         PROVE  \E y : Begin(y) /\ Fresh(y, Len(runs) + 1) /\ Knows(y)
    <2> DEFINE y == [NewRun("silver", 0, "read") EXCEPT !.from = file]
    <2>1. y.stage = "silver" /\ y.src = 0 /\ y.from = file
      BY NewRunIs
    <2>2. Fresh(y, Len(runs) + 1)
      BY <1>3, <1>4, <1>5 DEF Stages
    <2>3. Begin(y)
      BY <1>11 DEF ProcessHandMade
    <2>4. file \in Seq(Lines)
      BY SilverAssumption
    <2> HIDE DEF y
    <2>5. Knows(y)
      BY <2>1, <2>4 DEF Knows, Sourced
    <2>6. QED
      BY <2>2, <2>3, <2>5
  <1>12. \A src \in DOMAIN runs :
           Select(src) \/ Generate(src) => \E y : Begin(y) /\ Fresh(y, Len(runs) + 1) /\ Knows(y)
    BY <1>8
  <1>13. ASSUME \E y : Begin(y) /\ Fresh(y, Len(runs) + 1) /\ Knows(y)
         PROVE  /\ Idle /\ UNCHANGED damage
                /\ \E z : Fresh(z, Len(runs) + 1) /\ Knows(z) /\ runs' = Append(runs, z)
    BY <1>2, <1>13
  <1>14. CASE ~ Extract
    BY <1>7, <1>9, <1>10, <1>11, <1>12, <1>13, <1>14 DEF Start
  <1>15. QED
    BY <1>6, <1>14

-----------------------------------------------------------------------------
(* The invariant of the contents, step by step.                            *)

\* What is known of a run without a source does not depend on one.
LEMMA NoSourceNeeded ==
  ASSUME NEW x, NEW s, NEW t, x.src = 0
  PROVE  /\ Lasting(x, s) => Lasting(x, t)
         /\ Sourced(x, s) => \A c, d, u : Steady(x, c, u) => Steady(x, d, u)
  BY DEF Lasting, Sourced, Steady

\* The invariant of the contents in the next state, part by part.
LEMMA ContentInvNext ==
  ASSUME \A r \in 1..Len(runs') : Lasting(runs'[r], runs'[runs'[r].src]),
         NEW x, NEW c, NEW t,
         Len(runs') # 0 => /\ x = runs'[Len(runs')]
                           /\ c = Content(x.src, ReadsPart[x.stage])'
                           /\ t <=> \E d \in damage' : d.run = Len(runs')
                           /\ Steady(x, c, t),
         \A d \in damage' :
           runs'[d.run].stage \in FileStages /\ d.part = FilePart(runs'[d.run].stage)
                              => d.content \in Seq(Elements(runs'[d.run].stage))
  PROVE  ContentInv'
  BY DEF ContentInv, Steady

\* A file that has not been replaced holds what it held.
LEMMA ContentStays ==
  ASSUME NEW r, NEW p, runs'[r] = runs[r], damage' = damage
  PROVE  Content(r, p)' = Content(r, p)
  BY DEF Content

\* Neither does the replacement of one file change what another holds.
LEMMA OtherContentStays ==
  ASSUME NEW r, NEW p, runs'[r].parts = runs[r].parts, NEW d, d.run # r \/ d.part # p,
         damage' = damage \union {d}
  PROVE  Content(r, p)' = Content(r, p)
  <1> DEFINE A == {e \in damage : e.run = r /\ e.part = p}
             B == {e \in damage' : e.run = r /\ e.part = p}
  <1>1. B = A
    OBVIOUS
  <1>2. Content(r, p) = IF A = {} THEN runs[r].parts[p] ELSE (CHOOSE e \in A : TRUE).content
    BY DEF Content
  <1>3. Content(r, p)' = IF B = {} THEN runs'[r].parts[p] ELSE (CHOOSE e \in B : TRUE).content
    BY DEF Content
  <1> HIDE DEF A, B
  <1>4. QED
    BY <1>1, <1>2, <1>3

\* When one run changes and keeps its source, what is known of the others stays known.
LEMMA OneRunChanges ==
  ASSUME RunsFormed, ContentInv, NEW n, n = Len(runs), n # 0,
         NEW y, runs' = [runs EXCEPT ![n] = y], y.src = runs[n].src, Lasting(y, runs[y.src])
  PROVE  /\ Len(runs') = n /\ \A r \in 1..n : runs'[r] = IF r = n THEN y ELSE runs[r]
         /\ \A r \in 1..Len(runs') : Lasting(runs'[r], runs'[runs'[r].src])
  <1>1. n \in 1..n /\ (\E S : runs \in Seq(S)) /\ n \in 1..Len(runs)
    BY DEF RunsFormed
  <1>2. Len(runs') = n /\ \A r \in 1..n : runs'[r] = IF r = n THEN y ELSE runs[r]
    BY <1>1, ReplaceRun
  <1>3. \A r \in 1..n : runs[r].src \in Nat /\ runs[r].src < r
    BY DEF RunsFormed, WellFormed
  <1> SUFFICES ASSUME NEW r \in 1..n PROVE Lasting(runs'[r], runs'[runs'[r].src])
    BY <1>2
  <1> DEFINE x == runs'[r]
  <1>4. Lasting(x, runs[x.src]) /\ x.src = runs[r].src
    BY <1>1, <1>2 DEF ContentInv
  <1>5. CASE x.src = 0
    BY <1>4, <1>5, NoSourceNeeded
  <1>6. CASE x.src # 0
    <2>1. x.src \in 1..n /\ x.src # n
      BY <1>1, <1>3, <1>4, <1>6
    <2>2. runs'[x.src] = runs[x.src]
      BY <1>2, <2>1
    <2>3. QED
      BY <1>4, <2>2
  <1>7. QED
    BY <1>5, <1>6

\* The invariant is kept when the run in work goes on.
LEMMA GoingOnKeeps ==
  ASSUME RunsFormed, TroubleFormed, ContentInv, ~ Idle, UNCHANGED damage,
         NEW y, KeptAs(y), runs' = [runs EXCEPT ![Len(runs)] = y]
  PROVE  ContentInv'
  <1> DEFINE n == Len(runs)
             s == runs[job.src]
  <1>1. /\ n \in 1..n /\ n # 0 /\ DOMAIN runs = 1..n /\ job = runs[n]
        /\ job.src # 0 => job.src \in 1..n /\ job.src # n
        /\ job.src \in Nat
    BY JobIsLast, JobFacts DEF RunsFormed, WellFormed
  <1>3. /\ y.stage = job.stage /\ y.src = job.src
        /\ Lasting(y, s) /\ Steady(y, Source, Touched)
    BY DEF KeptAs
  <1>2. Len(runs') = n /\ \A r \in 1..n : runs'[r] = IF r = n THEN y ELSE runs[r]
    BY <1>1, <1>3, OneRunChanges
  <1>4. \A r \in 1..Len(runs') : Lasting(runs'[r], runs'[runs'[r].src])
    BY <1>1, <1>3, OneRunChanges
  <1>5. runs'[n] = y
    BY <1>1, <1>2
  <1>6. Steady(y, Content(y.src, ReadsPart[y.stage])', Touched)
    <2>1. Source = Content(y.src, ReadsPart[y.stage])
      BY <1>3 DEF Source
    <2>2. CASE job.src = 0
      <3>1. Sourced(y, s)
        BY <1>3 DEF Lasting
      <3>2. y.src = 0
        BY <1>3, <2>2
      <3>3. QED
        BY <1>3, <3>1, <3>2, NoSourceNeeded
    <2>3. CASE job.src # 0
      <3>1. runs'[y.src] = runs[y.src]
        BY <1>1, <1>2, <1>3, <2>3
      <3>2. Content(y.src, ReadsPart[y.stage])' = Content(y.src, ReadsPart[y.stage])
        BY <3>1, ContentStays DEF ReadsPart
      <3>3. QED
        BY <1>3, <2>1, <3>2
    <2>4. QED
      BY <2>2, <2>3
  <1>7. Touched <=> \E d \in damage' : d.run = Len(runs')
    BY <1>2 DEF Touched
  <1>8. \A d \in damage' :
          runs'[d.run].stage \in FileStages /\ d.part = FilePart(runs'[d.run].stage)
                             => d.content \in Seq(Elements(runs'[d.run].stage))
    <2> SUFFICES ASSUME NEW d \in damage
                 PROVE  runs'[d.run].stage \in FileStages /\ d.part = FilePart(runs'[d.run].stage)
                             => d.content \in Seq(Elements(runs'[d.run].stage))
      OBVIOUS
    <2>1. d.run \in 1..n
      BY DEF TroubleFormed
    <2>2. runs'[d.run].stage = runs[d.run].stage
      BY <1>1, <1>2, <1>3, <2>1
    <2>3. QED
      BY <2>2 DEF ContentInv
  <1> HIDE DEF n, s
  <1>9. Len(runs') # 0 /\ Len(runs') = n
    BY <1>1, <1>2
  <1>10. QED
    BY <1>4, <1>5, <1>6, <1>7, <1>8, <1>9, ContentInvNext

\* It is kept when a run begins.
LEMMA BeginningKeeps ==
  ASSUME RunsFormed, TroubleFormed, ContentInv, UNCHANGED damage,
         NEW y, Fresh(y, Len(runs) + 1), Knows(y), runs' = Append(runs, y)
  PROVE  ContentInv'
  <1> DEFINE n == Len(runs)
             m == n + 1
             s == runs[y.src]
  <1>1. n \in Nat /\ m \in Nat /\ m # 0 /\ m \notin 1..n /\ DOMAIN runs = 1..n
    BY DEF RunsFormed
  <1>2. /\ Len(runs') = m /\ runs'[m] = y
        /\ \A r \in 1..n : runs'[r] = runs[r]
    BY AppendRun DEF RunsFormed
  <1>3. y.src \in 0..n
    BY <1>1 DEF Fresh
  <1>4. ~ Worked(y) /\ y.status # "SUCCEEDED" /\ DOMAIN y.parts = {}
    BY DEF Fresh, Worked
  <1>5. Lasting(y, s)
    <2>1. Sourced(y, s)
      BY DEF Knows
    <2>2. Typed(y) /\ Right(y) /\ Recorded(y)
      BY <1>4 DEF Typed, Right, Recorded
    <2>3. QED
      BY <2>1, <2>2 DEF Lasting
  <1>6. \A r \in 1..m : Lasting(runs'[r], runs'[runs'[r].src])
    <2> SUFFICES ASSUME NEW r \in 1..m PROVE Lasting(runs'[r], runs'[runs'[r].src])
      OBVIOUS
    <2>1. CASE r = m
      <3>1. CASE y.src = 0
        BY <1>2, <1>5, <2>1, <3>1, NoSourceNeeded
      <3>2. CASE y.src # 0
        <4>1. y.src \in 1..n
          BY <1>1, <1>3, <3>2
        <4>2. runs'[y.src] = s
          BY <1>2, <4>1
        <4>3. QED
          BY <1>2, <1>5, <2>1, <4>2
      <3>3. QED
        BY <3>1, <3>2
    <2>2. CASE r # m
      <3>0. r \in 1..n
        BY <1>1, <2>2
      <3>1. runs'[r] = runs[r]
        BY <1>2, <3>0
      <3>2. Lasting(runs[r], runs[runs[r].src])
        BY <3>0 DEF ContentInv
      <3>3. runs[r].src \in Nat /\ runs[r].src < r
        BY <3>0 DEF RunsFormed, WellFormed
      <3>4. CASE runs[r].src = 0
        BY <3>1, <3>2, <3>4, NoSourceNeeded
      <3>5. CASE runs[r].src # 0
        <4>1. runs[r].src \in 1..n
          BY <1>1, <3>0, <3>3, <3>5
        <4>2. runs'[runs[r].src] = runs[runs[r].src]
          BY <1>2, <4>1
        <4>3. QED
          BY <3>1, <3>2, <4>2
      <3>6. QED
        BY <3>4, <3>5
    <2>3. QED
      BY <2>1, <2>2
  <1>7. ~ \E d \in damage' : d.run = m
    BY <1>1 DEF TroubleFormed
  <1>8. \A c : Steady(y, c, FALSE)
    <2>1. y.pc = "read" => y.stage = "silver"
      BY DEF Knows
    <2>2. y.pc \in {"request", "check", "read"}
      BY DEF Fresh
    <2>3. QED
      BY <2>1, <2>2 DEF Steady
  <1>9. \A d \in damage' :
          runs'[d.run].stage \in FileStages /\ d.part = FilePart(runs'[d.run].stage)
                             => d.content \in Seq(Elements(runs'[d.run].stage))
    <2> SUFFICES ASSUME NEW d \in damage
                 PROVE  runs'[d.run].stage \in FileStages /\ d.part = FilePart(runs'[d.run].stage)
                             => d.content \in Seq(Elements(runs'[d.run].stage))
      OBVIOUS
    <2>1. d.run \in 1..n
      BY DEF TroubleFormed
    <2>2. runs'[d.run] = runs[d.run]
      BY <1>2, <2>1
    <2>3. QED
      BY <2>2 DEF ContentInv
  <1> HIDE DEF m, s
  <1>10. FALSE <=> \E d \in damage' : d.run = Len(runs')
    BY <1>2, <1>7
  <1> DEFINE c == Content(y.src, ReadsPart[y.stage])'
  <1>11. Steady(y, c, FALSE)
    BY <1>8
  <1>12. Len(runs') # 0 /\ y = runs'[Len(runs')] /\ 1..m = 1..Len(runs')
    BY <1>1, <1>2
  <1>13. c = Content(y.src, ReadsPart[y.stage])'
    OBVIOUS
  <1> HIDE DEF c
  <1>14. \A r \in 1..Len(runs') : Lasting(runs'[r], runs'[runs'[r].src])
    BY <1>6, <1>12
  <1>15. QED
    BY <1>9, <1>10, <1>11, <1>12, <1>13, <1>14, ContentInvNext

\* What a replacement is: another content of the same type, of a file that no run is
\* using, or else the run that uses it is said to have met it.
LEMMA ReplacementIs ==
  ASSUME RunsFormed, ContentInv, NEW r \in DOMAIN runs, NEW p \in DOMAIN runs[r].parts,
         Damage(r, p)
  PROVE  /\ \E d : /\ d.run = r /\ d.part = p /\ damage' = damage \union {d}
                   /\ runs[r].stage \in FileStages /\ p = FilePart(runs[r].stage)
                        => d.content \in Seq(Elements(runs[r].stage))
         /\ \/ ~ Idle /\ runs' = [runs EXCEPT ![Len(runs)] = Raced(runs[Len(runs)])]
            \/ ~ InUse(r, p) /\ runs' = runs
  <1> DEFINE content == runs[r].parts[p]
  <1>1. PICK c \in Replacements(content) :
          damage' = damage \union {[run |-> r, part |-> p, content |-> c]}
    BY DEF Damage
  <1>2. content # <<>>
    BY DEF Damage
  <1>3. ASSUME runs[r].stage \in FileStages, p = FilePart(runs[r].stage)
        PROVE  c \in Seq(Elements(runs[r].stage))
    <2> DEFINE T == Elements(runs[r].stage)
    <2>1. r \in 1..Len(runs)
      BY DEF RunsFormed
    <2>2. content \in Seq(T)
      BY <1>3, <2>1 DEF ContentInv, Lasting, Typed
    <2>3. T \in {Rows, Lines, OriginalLines}
      BY DEF Elements
    <2> HIDE DEF T, content
    <2>4. QED
      BY <1>1, <1>2, <2>2, <2>3, ReplacementsTyped DEF T
  <1>4. \E d : /\ d.run = r /\ d.part = p /\ damage' = damage \union {d}
               /\ runs[r].stage \in FileStages /\ p = FilePart(runs[r].stage)
                    => d.content \in Seq(Elements(runs[r].stage))
    <2> DEFINE d == [run |-> r, part |-> p, content |-> c]
    <2>1. d.run = r /\ d.part = p /\ d.content = c
      OBVIOUS
    <2> HIDE DEF d
    <2>2. damage' = damage \union {d}
      BY <1>1 DEF d
    <2>3. QED
      BY <1>3, <2>1, <2>2
  <1>5. \/ ~ Idle /\ runs' = [runs EXCEPT ![Len(runs)] = Raced(runs[Len(runs)])]
        \/ ~ InUse(r, p) /\ runs' = runs
    <2>1. runs' = IF InUse(r, p) THEN [runs EXCEPT ![Len(runs)].raced = TRUE] ELSE runs
      BY DEF Damage
    <2>2. InUse(r, p) => ~ Idle
      BY DEF InUse
    <2>3. QED
      BY <2>1, <2>2 DEF Raced
  <1>6. QED
    BY <1>4, <1>5

\* What has been put in the place of a file has the type of the file.
LEMMA ReplacedTyped ==
  ASSUME RunsFormed, TroubleFormed, ContentInv, NEW r \in 1..Len(runs), NEW d, d.run = r,
         runs[r].stage \in FileStages /\ d.part = FilePart(runs[r].stage)
           => d.content \in Seq(Elements(runs[r].stage)),
         damage' = damage \union {d},
         \A q \in 1..Len(runs) : runs'[q].stage = runs[q].stage
  PROVE  \A e \in damage' :
           runs'[e.run].stage \in FileStages /\ e.part = FilePart(runs'[e.run].stage)
             => e.content \in Seq(Elements(runs'[e.run].stage))
  <1> SUFFICES ASSUME NEW e \in damage'
               PROVE  runs'[e.run].stage \in FileStages /\ e.part = FilePart(runs'[e.run].stage)
                        => e.content \in Seq(Elements(runs'[e.run].stage))
    OBVIOUS
  <1>1. CASE e = d
    <2>1. runs'[e.run].stage = runs[r].stage
      BY <1>1
    <2>2. QED
      BY <1>1, <2>1
  <1>2. CASE e \in damage
    <2>1. e.run \in 1..Len(runs)
      BY <1>2 DEF TroubleFormed
    <2>2. runs'[e.run].stage = runs[e.run].stage
      BY <2>1
    <2>3. QED
      BY <1>2, <2>2 DEF ContentInv
  <1>3. QED
    BY <1>1, <1>2

\* What the run in work relies on is not replaced unless it is said to have met it.
LEMMA StillSteady ==
  ASSUME RunsFormed, ContentInv, NEW r, NEW p, ~ InUse(r, p), runs' = runs,
         NEW d, d.run = r, d.part = p, damage' = damage \union {d},
         Len(runs) # 0, NEW x, x = runs[Len(runs)]
  PROVE  Steady(x, Content(x.src, ReadsPart[x.stage])', \E e \in damage' : e.run = Len(runs'))
  <1> DEFINE q == ReadsPart[x.stage]
             c == Content(x.src, q)
             cc == c'
             t == \E e \in damage' : e.run = Len(runs')
  <1>1. CASE x.raced \/ x.pc \in {"ended", "crashed"}
    BY <1>1 DEF Steady
  <1>2. CASE ~ x.raced /\ x.pc \notin {"ended", "crashed"}
    <2>1. DOMAIN runs = 1..Len(runs) /\ Len(runs) \in 1..Len(runs)
      BY DEF RunsFormed
    <2>2. ~ Idle
      BY <1>2, <2>1 DEF Idle, Ended
    <2>3. /\ job = x /\ Source = c
          /\ Steady(x, c, Touched)
      BY <2>2, JobFacts DEF Source
    <2>4. /\ \/ r # x.src \/ p # q
             \/ x.stage \notin {"canonicalization", "replay"} \/ x.pc # "read"
          /\ \/ r # x.src \/ p # q
             \/ x.stage \notin {"silver", "gold"} \/ x.pc \notin {"write", "publish"}
          /\ r # Len(runs) \/ x.stage \notin {"canonicalization", "gold"}
      BY <2>2, <2>3 DEF InUse
    <2>5. r # x.src \/ p # q => cc = c
      <3>1. ASSUME d.run # x.src \/ d.part # q PROVE cc = c
        BY <3>1, OtherContentStays DEF ReadsPart
      <3>2. QED
        BY <3>1
    <2>6. r # Len(runs) => (t <=> Touched)
      BY DEF Touched
    <2> HIDE DEF c, cc, t, q
    <2>7. Steady(x, cc, t)
      BY <1>2, <2>3, <2>4, <2>5, <2>6 DEF Steady
    <2>8. QED
      BY <2>7 DEF c, cc, t, q
  <1>3. QED
    BY <1>1, <1>2

\* The replacement of a file keeps the invariant.
LEMMA ReplacementKeeps ==
  ASSUME RunsFormed, TroubleFormed, ContentInv,
         NEW r \in DOMAIN runs, NEW p \in DOMAIN runs[r].parts, Damage(r, p)
  PROVE  ContentInv'
  <1>1. PICK d : /\ d.run = r /\ d.part = p /\ damage' = damage \union {d}
                 /\ runs[r].stage \in FileStages /\ p = FilePart(runs[r].stage)
                      => d.content \in Seq(Elements(runs[r].stage))
    BY ReplacementIs
  <1>2. DOMAIN runs = 1..Len(runs) /\ r \in 1..Len(runs) /\ Len(runs) \in Nat
    BY DEF RunsFormed
  <1>3. CASE ~ Idle /\ runs' = [runs EXCEPT ![Len(runs)] = Raced(runs[Len(runs)])]
    <2> DEFINE n == Len(runs)
               x == runs[n]
    <2>0. PICK y : y = Raced(x)
      OBVIOUS
    <2>1. /\ job = x /\ WellFormed(x) /\ Lasting(x, runs[x.src])
      BY <1>3, JobFacts
    <2>2. /\ y.src = x.src /\ y.stage = x.stage /\ y.raced
      <3>1. x = [f \in Fields |-> x[f]]
        BY <2>1 DEF WellFormed, IsRun
      <3>2. y = [x EXCEPT !.raced = TRUE]
        BY <2>0 DEF Raced
      <3> HIDE DEF x
      <3>3. QED
        BY <3>1, <3>2 DEF Fields
    <2>3. Lasting(y, runs[y.src])
      BY <2>0, <2>1, <2>2, RacedLasts
    <2>4. n # 0
      BY <1>2
    <2>5. runs' = [runs EXCEPT ![n] = y]
      BY <1>3, <2>0
    <2> HIDE DEF n
    <2>6. /\ Len(runs') = n /\ \A q \in 1..n : runs'[q] = IF q = n THEN y ELSE runs[q]
          /\ \A q \in 1..Len(runs') : Lasting(runs'[q], runs'[runs'[q].src])
      BY <2>2, <2>3, <2>4, <2>5, OneRunChanges DEF n
    <2>7. y = runs'[Len(runs')]
      <3>1. n \in 1..n
        BY <1>2, <2>4 DEF n
      <3>2. QED
        BY <2>6, <3>1
    <2>8. \A e \in damage' :
            runs'[e.run].stage \in FileStages /\ e.part = FilePart(runs'[e.run].stage)
              => e.content \in Seq(Elements(runs'[e.run].stage))
      <3>1. \A q \in 1..Len(runs) : runs'[q].stage = runs[q].stage
        BY <2>2, <2>6 DEF n
      <3>2. QED
        BY <1>1, <1>2, <3>1, ReplacedTyped
    <2> DEFINE c == Content(y.src, ReadsPart[y.stage])'
               t == \E e \in damage' : e.run = Len(runs')
    <2>9. Steady(y, c, t)
      BY <2>2 DEF Steady
    <2>10. c = Content(y.src, ReadsPart[y.stage])' /\ (t <=> \E e \in damage' : e.run = Len(runs'))
      OBVIOUS
    <2> HIDE DEF c, t
    <2>11. QED
      BY <2>4, <2>6, <2>7, <2>8, <2>9, <2>10, ContentInvNext
  <1>4. CASE ~ InUse(r, p) /\ runs' = runs
    <2>1. \A q \in 1..Len(runs') : Lasting(runs'[q], runs'[runs'[q].src])
      BY <1>4 DEF ContentInv
    <2>2. \A e \in damage' :
            runs'[e.run].stage \in FileStages /\ e.part = FilePart(runs'[e.run].stage)
              => e.content \in Seq(Elements(runs'[e.run].stage))
      <3>1. \A q \in 1..Len(runs) : runs'[q].stage = runs[q].stage
        BY <1>4
      <3>2. QED
        BY <1>1, <1>2, <3>1, ReplacedTyped
    <2>3. PICK x : x = runs[Len(runs)]
      OBVIOUS
    <2> DEFINE c == Content(x.src, ReadsPart[x.stage])'
               t == \E e \in damage' : e.run = Len(runs')
    <2>4. Len(runs) # 0 /\ runs' = runs /\ ~ InUse(r, p)
      BY <1>2, <1>4
    <2>5. Steady(x, c, t)
      BY <1>1, <2>3, <2>4, StillSteady
    <2>6. c = Content(x.src, ReadsPart[x.stage])' /\ (t <=> \E e \in damage' : e.run = Len(runs'))
      OBVIOUS
    <2> HIDE DEF c, t
    <2>7. x = runs'[Len(runs')]
      BY <1>4, <2>3
    <2>8. QED
      BY <2>1, <2>2, <2>5, <2>6, <2>7, ContentInvNext
  <1>5. QED
    BY <1>3, <1>4, ReplacementIs

\* Every step keeps the invariant of the contents.
LEMMA ContentStep == LakeInv /\ ContentInv /\ [Next]_vars => ContentInv'
  <1> SUFFICES ASSUME LakeInv, ContentInv, [Next]_vars PROVE ContentInv'
    OBVIOUS
  <1>1. RunsFormed /\ TroubleFormed
    BY DEF LakeInv
  <1>2. CASE Start
    <2>1. /\ UNCHANGED damage
          /\ \E y : Fresh(y, Len(runs) + 1) /\ Knows(y) /\ runs' = Append(runs, y)
      BY <1>1, <1>2, StartKnows
    <2>2. PICK y : Fresh(y, Len(runs) + 1) /\ Knows(y) /\ runs' = Append(runs, y)
      BY <2>1
    <2>3. QED
      BY <1>1, <2>1, <2>2, BeginningKeeps
  <1>3. ASSUME ~ Idle, UNCHANGED damage,
               NEW y, runs' = [runs EXCEPT ![Len(runs)] = y], KeptAs(y)
        PROVE  ContentInv'
    BY <1>1, <1>3, GoingOnKeeps
  <1>4. CASE Work
    <2>1. GoesOn
      BY <1>1, <1>4, WorkKeeps
    <2>2. ~ Idle /\ \E y : Step(y) /\ KeptAs(y)
      BY <2>1 DEF GoesOn
    <2>3. PICK y : Step(y) /\ KeptAs(y)
      BY <2>2
    <2>4. runs' = [runs EXCEPT ![Len(runs)] = y] /\ UNCHANGED damage
      BY <2>3 DEF Step
    <2>5. QED
      BY <1>3, <2>2, <2>3, <2>4
  <1>5. CASE Exception \/ Crash
    <2>1. /\ ~ Idle /\ UNCHANGED damage
          /\ \E y : runs' = [runs EXCEPT ![Len(runs)] = y] /\ KeptAs(y)
      BY <1>1, <1>5, TroubleKeeps
    <2>2. QED
      BY <1>3, <2>1
  <1>6. CASE \E r \in DOMAIN runs : \E p \in DOMAIN runs[r].parts : Damage(r, p)
    BY <1>1, <1>6, ReplacementKeeps
  <1>7. CASE UNCHANGED vars
    <2>1. runs' = runs /\ damage' = damage
      BY <1>7 DEF vars
    <2>2. \A r \in 1..Len(runs') : Lasting(runs'[r], runs'[runs'[r].src])
      BY <2>1 DEF ContentInv
    <2>3. PICK x : x = runs[Len(runs)]
      OBVIOUS
    <2> DEFINE c == Content(x.src, ReadsPart[x.stage])'
               t == \E d \in damage' : d.run = Len(runs')
    <2>4. c = Content(x.src, ReadsPart[x.stage])
      BY <2>1, ContentStays DEF ReadsPart
    <2>5. t <=> \E d \in damage : d.run = Len(runs)
      BY <2>1
    <2>6. c = Content(x.src, ReadsPart[x.stage])' /\ (t <=> \E d \in damage' : d.run = Len(runs'))
      OBVIOUS
    <2> HIDE DEF c, t
    <2>7. Len(runs) # 0 => Steady(x, c, t)
      BY <2>3, <2>4, <2>5 DEF ContentInv, Steady
    <2>8. Len(runs') # 0 => x = runs'[Len(runs')] /\ Steady(x, c, t)
      BY <2>1, <2>3, <2>7
    <2>9. \A d \in damage' :
            runs'[d.run].stage \in FileStages /\ d.part = FilePart(runs'[d.run].stage)
                               => d.content \in Seq(Elements(runs'[d.run].stage))
      BY <2>1 DEF ContentInv
    <2>10. QED
      BY <2>2, <2>6, <2>8, <2>9, ContentInvNext
  <1>8. QED
    BY <1>2, <1>4, <1>5, <1>6, <1>7 DEF Next, Rest

\* The empty lake holds nothing wrong.
LEMMA ContentInitially == Init => ContentInv
  <1> SUFFICES ASSUME Init PROVE ContentInv
    OBVIOUS
  <1>1. Len(runs) = 0 /\ damage = {}
    BY DEF Init
  <1>2. QED
    BY <1>1 DEF ContentInv

\* At any time what a run of a stage has computed is what the contract says of what it
\* has read, what is in place is what it has computed, a manifest that says SUCCEEDED
\* has the checksums of what is in place, and what a run has read is what the manifest
\* of its source says, unless a file was replaced while it was in use
\* (canonicalization.py, scale_gate_selection.py, generator.py, bronze_to_silver.py,
\* build.py: check, compute, rename, manifest last).
THEOREM ContentsAreRight == Spec => []ContentInv
  <1>1. QED
    BY ContentInitially, ContentStep, LakeInvariant, PTL DEF Spec

-----------------------------------------------------------------------------
(* 4. The ledger.                                                          *)

\* The result of a run.
EntryOf(x) == [stage |-> x.stage, input |-> x.input, output |-> x.parts]

\* It is entered when the run succeeds, unless a file was replaced while in use.
Enters(x) == x.status = "SUCCEEDED" /\ ~ x.raced

\* The ledger, run by run.
LEMMA ResultsAre ==
  Results = {EntryOf(runs[r]) : r \in {q \in DOMAIN runs : Enters(runs[q])}}
  BY DEF Results, EntryOf, Enters

\* What is entered is what the contract says.
LEMMA EntriesHold ==
  ASSUME NEW x, WellFormed(x), Right(x), Enters(x)
  PROVE  Contract!Holds(EntryOf(x))
  <1>1. /\ x.status = "SUCCEEDED" /\ ~ x.raced /\ Worked(x) /\ x.stage \in Stages
        /\ DOMAIN x.parts = InPlace(x.stage, Len(PartsOf[x.stage]))
    BY DEF Enters, Worked, WellFormed, Written
  <1>2. CASE x.stage = "gold"
    <2>1. /\ Len(x.input) = GateSize /\ DistinctIds(x.input)
          /\ \A p \in DOMAIN x.parts : x.parts[p] = x.input
      BY <1>1, <1>2 DEF Right
    <2>2. "event_detail" \in DOMAIN x.parts /\ "load_artifact" \in DOMAIN x.parts
      <3>1. /\ Len(PartsOf["gold"]) = 2
            /\ PartsOf["gold"][1] = "event_detail" /\ PartsOf["gold"][2] = "load_artifact"
        BY DEF PartsOf
      <3>2. 1 \in 1..Len(PartsOf["gold"]) /\ 2 \in 1..Len(PartsOf["gold"])
        BY <3>1
      <3>3. QED
        BY <1>1, <1>2, <3>1, <3>2 DEF InPlace
    <2>3. Contract!IsGold(x.input, x.parts)
      BY <2>1, <2>2, GoldHolds
    <2> DEFINE e == EntryOf(x)
    <2>4. e.stage = "gold" /\ e.input = x.input /\ e.output = x.parts
      BY <1>2 DEF EntryOf
    <2> HIDE DEF e
    <2>5. Contract!Holds(e)
      BY <2>3, <2>4 DEF Contract!Holds
    <2>6. QED
      BY <2>5 DEF e
  <1>3. CASE x.stage # "gold"
    <2>1. /\ Contract!Holds(OutputOf(x))
          /\ \A p \in DOMAIN x.parts : x.parts[p] = x.out[p]
      BY <1>1, <1>3 DEF Right
    <2>2. x.stage \in Stages \ {"gold"}
      BY <1>1, <1>3
    <2>3. Contract!Holds([stage |-> x.stage, input |-> x.input, output |-> x.out])
      BY <2>1 DEF OutputOf
    <2>4. QED
      BY <1>1, <2>1, <2>2, <2>3, HoldsOfParts DEF EntryOf
  <1>4. QED
    BY <1>2, <1>3

\* What is entered has read what its source has entered.
LEMMA EntriesTraceable ==
  ASSUME NEW x, NEW s, x.stage \in Stages, Sourced(x, s), Enters(x),
         x.src # 0 => /\ WellFormed(s) /\ Right(s) /\ Recorded(s)
                      /\ Enters(s) => EntryOf(s) \in Results
  PROVE  Contract!Traceable(EntryOf(x))
  <1> DEFINE e == EntryOf(x)
             f == EntryOf(s)
  <1>1. e.stage = x.stage /\ e.input = x.input /\ f.stage = s.stage /\ f.output = s.parts
    BY DEF EntryOf
  <1>2. x.status = "SUCCEEDED" /\ ~ x.raced /\ Worked(x)
    BY DEF Enters, Worked
  <1> HIDE DEF e, f
  <1>3. ASSUME x.src # 0, s.status = "SUCCEEDED", ~ s.raced, s.stage \in FileStages \ {"replay"},
               x.input = s.recorded[FilePart(s.stage)],
               <<s.stage, FilePart(s.stage)>> \in Contract!Upstream(x.stage)
        PROVE  Contract!Traceable(e)
    <2> DEFINE p == FilePart(s.stage)
    <2>1. WellFormed(s) /\ Right(s) /\ Recorded(s) /\ f \in Results
      BY <1>3 DEF Enters, f
    <2>2. p \in DOMAIN s.parts
      BY <1>3, <2>1, FilesInPlace
    <2>3. s.recorded[p] = s.parts[p]
      <3>1. CASE s.stage \in {"extraction", "selection"}
        <4>1. s.recorded = s.out
          BY <1>3, <2>1, <3>1 DEF Recorded
        <4>2. s.parts[p] = s.out[p]
          BY <1>3, <2>1, <2>2, <3>1 DEF Right, Worked
        <4>3. QED
          BY <4>1, <4>2
      <3>2. CASE s.stage = "canonicalization"
        <4>1. p = "events"
          BY <3>2 DEF FilePart
        <4>2. QED
          BY <1>3, <2>1, <3>2, <4>1 DEF Recorded
      <3>3. QED
        BY <1>3, <3>1, <3>2 DEF FileStages
    <2>4. f.output[p] = e.input /\ p \in DOMAIN f.output
      BY <1>1, <1>3, <2>2, <2>3
    <2>5. <<f.stage, p>> \in Contract!Upstream(e.stage)
      BY <1>1, <1>3
    <2> HIDE DEF p
    <2>6. QED
      BY <2>1, <2>4, <2>5 DEF Contract!Traceable
  <1>4. CASE x.stage = "canonicalization"
    <2>1. /\ x.src # 0 /\ ~ s.raced /\ s.stage = "extraction" /\ s.status = "SUCCEEDED"
          /\ x.input = s.recorded["raw"]
      BY <1>2, <1>4 DEF Sourced
    <2>2. FilePart(s.stage) = "raw" /\ s.stage \in FileStages \ {"replay"}
      BY <2>1 DEF FilePart, FileStages
    <2>3. <<s.stage, "raw">> \in Contract!Upstream(x.stage)
      BY <1>4, <2>1 DEF Contract!Upstream
    <2>4. QED
      BY <1>3, <2>1, <2>2, <2>3 DEF e
  <1>5. CASE x.stage \in {"selection", "replay"}
    <2>1. /\ x.src # 0 /\ ~ s.raced /\ s.status = "SUCCEEDED" /\ x.input = s.recorded["events"]
          /\ s.stage \in IF x.stage = "selection" THEN {"canonicalization"}
                         ELSE {"canonicalization", "selection"}
      BY <1>2, <1>5 DEF Sourced
    <2>2. s.stage \in {"canonicalization", "selection"}
      BY <2>1
    <2>3. FilePart(s.stage) = "events" /\ s.stage \in FileStages \ {"replay"}
      BY <2>2 DEF FilePart, FileStages
    <2>4. <<s.stage, "events">> \in Contract!Upstream(x.stage)
      BY <1>5, <2>1 DEF Contract!Upstream
    <2>5. QED
      BY <1>3, <2>1, <2>3, <2>4 DEF e
  <1>6. CASE x.stage \in {"extraction", "silver", "gold"}
    <2>1. Contract!Upstream(e.stage) = {}
      BY <1>1, <1>6 DEF Contract!Upstream
    <2>2. QED
      BY <2>1 DEF Contract!Traceable, e
  <1>7. QED
    BY <1>4, <1>5, <1>6 DEF Stages

\* When a run without a manifest changes, the ledger has at most one entry more.
LEMMA ResultsGrow ==
  ASSUME RunsFormed, NEW n, n = Len(runs), n # 0, runs[n].status = "NONE",
         NEW y, runs' = [runs EXCEPT ![n] = y]
  PROVE  IF Enters(y) THEN Results' = Results \union {EntryOf(y)} ELSE Results' = Results
  <1>1. DOMAIN runs = 1..n /\ n \in 1..n /\ DOMAIN runs' = 1..n
    BY DEF RunsFormed
  <1>2. runs'[n] = y /\ \A r \in 1..n : r # n => runs'[r] = runs[r]
    BY <1>1
  <1>3. ~ Enters(runs[n])
    BY DEF Enters
  <1> DEFINE A == {r \in 1..n : r # n /\ Enters(runs[r])}
  <1>4. {r \in 1..n : Enters(runs[r])} = A
    BY <1>3
  <1>5. {r \in 1..n : Enters(runs'[r])} = IF Enters(y) THEN A \union {n} ELSE A
    BY <1>1, <1>2
  <1>6. Results = {EntryOf(runs[r]) : r \in A}
    BY <1>1, <1>4, ResultsAre
  <1>7. Results' = {EntryOf(runs'[r]) : r \in {q \in DOMAIN runs' : Enters(runs'[q])}}
    BY DEF Results, EntryOf, Enters
  <1>8. Results' = {EntryOf(runs'[r]) : r \in IF Enters(y) THEN A \union {n} ELSE A}
    BY <1>1, <1>5, <1>7
  <1>9. \A r \in A : EntryOf(runs'[r]) = EntryOf(runs[r])
    BY <1>2
  <1> HIDE DEF A
  <1>10. QED
    BY <1>2, <1>6, <1>8, <1>9

\* The entry of the run in work, once it has succeeded.
LEMMA NewEntry ==
  ASSUME RunsFormed, ContentInv, RunsFormed', ContentInv', NEW n, n = Len(runs), n # 0,
         runs[n].status = "NONE",
         NEW y, runs' = [runs EXCEPT ![n] = y], y.src = runs[n].src
  PROVE  [Contract!Next]_Results
  <1>1. /\ DOMAIN runs = 1..n /\ n \in 1..n /\ Len(runs') = n
        /\ runs'[n] = y /\ \A r \in 1..n : r # n => runs'[r] = runs[r]
    BY DEF RunsFormed
  <1>2. IF Enters(y) THEN Results' = Results \union {EntryOf(y)} ELSE Results' = Results
    BY ResultsGrow
  <1>3. ASSUME Enters(y), EntryOf(y) \notin Results
        PROVE  Contract!Next
    <2> DEFINE s == runs[y.src]
               e == EntryOf(y)
    <2>1. /\ WellFormed(y) /\ y.src \in Nat /\ y.src < n /\ y.stage \in Stages
      <3>1. /\ WellFormed(runs'[n])
            /\ runs'[n].src < n
        <4>1. \A r : WellFormed(runs[r])' <=> WellFormed(runs'[r])
          BY DEF WellFormed, IsRun, Written
        <4>2. \A r \in 1..Len(runs') : WellFormed(runs[r])' /\ runs'[r].src < r
          BY DEF RunsFormed
        <4>3. QED
          BY <1>1, <4>1, <4>2
      <3>2. QED
        BY <1>1, <3>1 DEF WellFormed
    <2>2. Lasting(y, runs'[y.src])
      BY <1>1 DEF ContentInv
    <2>3. y.src # 0 => y.src \in 1..n /\ y.src # n /\ runs'[y.src] = s
      BY <1>1, <2>1
    <2>4. Right(y) /\ Sourced(y, runs'[y.src])
      BY <2>2 DEF Lasting
    <2>5. Contract!Holds(e)
      BY <1>3, <2>1, <2>4, EntriesHold
    <2>6. y.src # 0 => /\ WellFormed(s) /\ Right(s) /\ Recorded(s)
                       /\ Enters(s) => EntryOf(s) \in Results
      <3> SUFFICES ASSUME y.src # 0
                   PROVE  /\ WellFormed(s) /\ Right(s) /\ Recorded(s)
                          /\ Enters(s) => EntryOf(s) \in Results
        OBVIOUS
      <3>1. y.src \in 1..Len(runs)
        BY <2>3
      <3>2. WellFormed(s) /\ Right(s) /\ Recorded(s)
        BY <3>1 DEF RunsFormed, ContentInv, Lasting
      <3>3. Enters(s) => EntryOf(s) \in Results
        BY <1>1, <2>3, ResultsAre
      <3>4. QED
        BY <3>2, <3>3
    <2> DEFINE z == runs'[y.src]
    <2>7. y.src # 0 => z = s
      BY <2>3
    <2> HIDE DEF e, s, z
    <2>8. y.src # 0 => /\ WellFormed(z) /\ Right(z) /\ Recorded(z)
                       /\ Enters(z) => EntryOf(z) \in Results
      BY <2>6, <2>7
    <2>9. Sourced(y, z)
      BY <2>4 DEF z
    <2>10. Contract!Traceable(e)
      BY <1>3, <2>1, <2>8, <2>9, EntriesTraceable DEF e
    <2>11. Results' = Results \union {e} /\ e \notin Results
      BY <1>2, <1>3 DEF e
    <2>12. Contract!Enter(e)
      BY <2>5, <2>10, <2>11 DEF Contract!Enter
    <2>13. e \in Results' \ Results
      BY <2>11
    <2>14. QED
      BY <2>12, <2>13 DEF Contract!Next
  <1>4. QED
    BY <1>2, <1>3

\* A step of the lake makes an entry in the ledger, or leaves it alone.
LEMMA LedgerStep ==
  ASSUME LakeInv, ContentInv, LakeInv', ContentInv', [Next]_vars
  PROVE  [Contract!Next]_Results
  <1>1. RunsFormed /\ TroubleFormed /\ RunsFormed'
    BY DEF LakeInv
  <1>2. CASE UNCHANGED runs
    BY <1>2 DEF Results
  <1>3. CASE Start
    <2>1. Begins
      BY <1>1, <1>3, StartBegins DEF Begins
    <2>2. PICK y : Fresh(y, Len(runs) + 1) /\ runs' = Append(runs, y)
      BY <2>1 DEF Begins
    <2> DEFINE n == Len(runs)
               m == n + 1
    <2>3. DOMAIN runs = 1..n /\ n \in Nat /\ m \in Nat /\ 1..m = 1..n \union {m} /\ m \notin 1..n
      BY <1>1 DEF RunsFormed
    <2>4. /\ Len(runs') = m /\ runs'[m] = y /\ \A r \in 1..n : runs'[r] = runs[r]
          /\ DOMAIN runs' = 1..Len(runs')
      BY <1>1, <2>2, AppendRun DEF RunsFormed
    <2>5. ~ Enters(y)
      BY <2>2 DEF Fresh, Enters
    <2> HIDE DEF n, m
    <2>6. {r \in 1..m : Enters(runs'[r])} = {r \in 1..n : Enters(runs[r])}
      BY <2>3, <2>4, <2>5
    <2> DEFINE A == {r \in 1..n : Enters(runs[r])}
    <2>7. Results = {EntryOf(runs[r]) : r \in A}
      BY <2>3, ResultsAre
    <2>8. Results' = {EntryOf(runs'[r]) : r \in {q \in DOMAIN runs' : Enters(runs'[q])}}
      BY DEF Results, EntryOf, Enters
    <2>9. Results' = {EntryOf(runs'[r]) : r \in A}
      BY <2>4, <2>6, <2>8
    <2>10. \A r \in A : EntryOf(runs'[r]) = EntryOf(runs[r])
      BY <2>4
    <2>11. QED
      BY <2>7, <2>9, <2>10
  <1>4. ASSUME ~ Idle, NEW y, runs' = [runs EXCEPT ![Len(runs)] = y], y.src = job.src
        PROVE  [Contract!Next]_Results
    <2>1. PICK n : n = Len(runs)
      OBVIOUS
    <2>2. n # 0 /\ job = runs[n] /\ runs[n].status = "NONE"
      <3>1. Len(runs) \in 1..Len(runs) /\ job = runs[Len(runs)] /\ job.status = "NONE"
        BY <1>1, <1>4, JobFacts, JobIsLast
      <3>2. QED
        BY <2>1, <3>1
    <2>3. runs' = [runs EXCEPT ![n] = y] /\ y.src = runs[n].src
      BY <1>4, <2>1, <2>2
    <2>4. QED
      BY <1>1, <2>1, <2>2, <2>3, NewEntry
  <1>5. CASE Work \/ Exception \/ Crash
    <2>1. LastMoves
      BY <1>1, <1>5, WorkMoves, ExceptionMoves
    <2>2. ~ Idle /\ \E y : Moves(job, y) /\ runs' = [runs EXCEPT ![Len(runs)] = y]
      BY <2>1 DEF LastMoves
    <2>3. PICK y : Moves(job, y) /\ runs' = [runs EXCEPT ![Len(runs)] = y]
      BY <2>2
    <2>4. y.src = job.src
      BY <2>3 DEF Moves, SameRun
    <2>5. QED
      BY <1>4, <2>2, <2>3, <2>4
  <1>6. CASE \E r \in DOMAIN runs : \E p \in DOMAIN runs[r].parts : Damage(r, p)
    <2>1. \/ ~ Idle /\ runs' = [runs EXCEPT ![Len(runs)] = Raced(runs[Len(runs)])]
          \/ runs' = runs
      BY <1>1, <1>6, ReplacementIs
    <2>2. ASSUME ~ Idle, runs' = [runs EXCEPT ![Len(runs)] = Raced(runs[Len(runs)])]
          PROVE  [Contract!Next]_Results
      <3>1. PICK y : y = Raced(runs[Len(runs)])
        OBVIOUS
      <3>2. job = runs[Len(runs)] /\ WellFormed(job)
        BY <1>1, <2>2, JobIsLast
      <3>3. y.src = job.src
        BY <3>1, <3>2, RacedKeepsForm
      <3>4. QED
        BY <1>4, <2>2, <3>1, <3>3
    <2>3. QED
      BY <1>2, <2>1, <2>2
  <1>7. QED
    BY <1>2, <1>3, <1>5, <1>6 DEF Next, Rest, vars

\* No result in an empty lake.
LEMMA LedgerInitially == Init => Contract!Init
  BY DEF Init, Contract!Init, Results

\* Whatever the numbers of runs, exceptions, crashes and replaced files, and whatever
\* the rows: every successful manifest describes an artifact that is what the contract
\* of its stage says of what the run has read, but for lines that Silver overlooks or
\* preempts, and what it has read is the output of a successful run of the stage before
\* (canonicalize, select_scale_gate_events, generate_replay, run_batch, run of
\* gold/build.py, and the checks they start with).
THEOREM LakeKeepsLedger == Spec => KeepsLedger
  <1>1. LakeInv /\ LakeInv' /\ ContentInv /\ ContentInv' /\ [Next]_vars => [Contract!Next]_Results
    BY LedgerStep
  <1>2. QED
    BY <1>1, LedgerInitially, LakeInvariant, ContentsAreRight, PTL
       DEF Spec, KeepsLedger, Contract!Spec

-----------------------------------------------------------------------------
(* 5. The verifiers. What they compute of a replay.                        *)

\* What can be numbered from 1 to n has n elements.
LEMMA CountedBy ==
  ASSUME NEW n \in Nat, NEW T, NEW f \in [1..n -> T],
         \A k, l \in 1..n : f[k] = f[l] => k = l,
         \A t \in T : \E k \in 1..n : f[k] = t
  PROVE  IsFiniteSet(T) /\ Cardinality(T) = n
  <1>1. f \in Bijection(1..n, T)
    BY DEF Bijection, Injection, Surjection, IsInjective
  <1>2. ExistsBijection(1..n, T)
    BY <1>1 DEF ExistsBijection
  <1>3. IsFiniteSet(1..n) /\ Cardinality(1..n) = n
    BY FS_Interval
  <1>4. QED
    BY <1>2, <1>3, FS_Bijection

\* A position tells the iteration and the original.
LEMMA PositionsAreUnique ==
  ASSUME NEW c \in Nat, NEW a \in Nat, NEW x \in Nat, NEW b \in 1..c, NEW y \in 1..c,
         (x - 1) * c + y = (a - 1) * c + b
  PROVE  x = a /\ y = b
  <1>1. ASSUME NEW i \in Nat, NEW j \in Nat, NEW u \in 1..c, NEW v \in 1..c,
               i > j, (i - 1) * c + u = (j - 1) * c + v
        PROVE  FALSE
    <2> DEFINE d == (i - j) - 1
               m == (j - 1) * c
               w == d * c
    <2>1. d \in Nat /\ i - 1 = (j - 1) + (1 + d)
      BY <1>1
    <2>2. m \in Int /\ w \in Nat
      BY <2>1
    <2>3. (i - 1) * c = m + (c + w)
      <3>1. ((j - 1) + (1 + d)) * c = (j - 1) * c + (1 + d) * c
        BY <2>1
      <3>2. (1 + d) * c = c + d * c
        BY <2>1
      <3>3. QED
        BY <2>1, <3>1, <3>2
    <2>4. (m + (c + w)) + u = m + v
      BY <1>1, <2>3
    <2> HIDE DEF m, w
    <2>5. QED
      BY <2>2, <2>4
  <1>2. ~ (x > a)
    BY <1>1
  <1>3. ~ (a > x)
    BY <1>1
  <1>4. x = a
    BY <1>2, <1>3
  <1>5. QED
    <2> DEFINE m == (a - 1) * c
    <2>1. m \in Int /\ m + y = m + b
      BY <1>4
    <2> HIDE DEF m
    <2>2. QED
      BY <1>4, <2>1

\* The verifier computes the iteration and the original from the position.
LEMMA PositionTells ==
  ASSUME NEW c \in Nat
  PROVE  \A a \in Nat \ {0}, b \in 1..c, k \in Int : k = (a - 1) * c + b =>
           ((k - 1) % c) + 1 = b /\ (k - 1) \div c + 1 = a
  <1> SUFFICES ASSUME NEW a \in Nat \ {0}, NEW b \in 1..c, NEW k \in Int, k = (a - 1) * c + b
               PROVE  ((k - 1) % c) + 1 = b /\ (k - 1) \div c + 1 = a
    OBVIOUS
  <1> DEFINE m == (a - 1) * c
             n == k - 1
             q == n \div c
             r == n % c
  <1>1. a - 1 \in Nat /\ c \in Nat \ {0}
    OBVIOUS
  <1>2. m \in Nat
    BY <1>1
  <1>3. n \in Nat
    <2> HIDE DEF m
    <2>1. k = m + b
      BY DEF m
    <2>2. QED
      BY <1>2, <2>1
  <1> HIDE DEF m
  <1>4. q \in Nat /\ r \in 0..(c - 1) /\ n = c * q + r
    BY <1>1, <1>3
  <1> HIDE DEF q, r
  <1>5. r + 1 \in 1..c /\ q + 1 \in Nat /\ (q + 1) - 1 = q /\ c * q = q * c
    BY <1>1, <1>4
  <1>6. ((q + 1) - 1) * c + (r + 1) = (a - 1) * c + b
    <2> DEFINE t == q * c
    <2>1. t \in Int /\ n = t + r
      BY <1>4, <1>5
    <2> HIDE DEF t
    <2>2. t + (r + 1) = k
      <3>1. n = k - 1 /\ k \in Int
        BY <1>2 DEF m
      <3>2. QED
        BY <1>4, <2>1, <3>1
    <2>3. QED
      BY <1>5, <2>2 DEF t
  <1>7. q + 1 = a /\ r + 1 = b
    BY <1>5, <1>6, PositionsAreUnique
  <1>8. QED
    BY <1>7 DEF q, r

\* The rest of the fields of a copy that the verifiers look at.
LEMMA CopyIsMarked ==
  ASSUME NEW o \in Lines, NEW a, NEW n
  PROVE  LET e == ReplayEvent(o, a, n) IN
         e.source_type = "NASA_REPLAY" /\ e.is_synthetic = o.is_synthetic /\ e.scheduled = n
  BY DEF ReplayEvent, Lines

\* The ids of events, and of their detections.
IdsOf(events)        == {events[k].event_id : k \in DOMAIN events}
DetectionsOf(events) == {events[k].detection_id : k \in DOMAIN events}

\* Each of the c originals once, in order.
SortedOriginals(s, c) ==
  /\ Len(s) = c /\ DOMAIN s = 1..c
  /\ \A b \in 1..c :
       /\ s[b] \in Lines /\ s[b].event_id \in Nat \X {0}
       /\ s[b].detection_id = s[b].event_id /\ s[b].is_synthetic = FALSE
  /\ \A b, y \in 1..c : s[b].event_id = s[y].event_id => b = y

\* Iteration a of original b, at its position.
NumberedCopies(s, c, events) ==
  /\ DOMAIN events = 1..(c * Factor) /\ Len(events) = c * Factor
  /\ \A a \in 1..Factor, b \in 1..c :
       LET k == (a - 1) * c + b IN
       k \in 1..(c * Factor) /\ events[k] = ReplayEvent(s[b], a, k - 1)
  /\ \A k \in DOMAIN events : \E a \in 1..Factor, b \in 1..c :
       k \in Int /\ k = (a - 1) * c + b

\* The positions are those of the copies.
LEMMA PositionsAreInside ==
  ASSUME NEW c \in Nat, NEW n \in Nat, NEW a \in 1..n, NEW b \in 1..c
  PROVE  (a - 1) * c + b \in 1..(c * n)
  <1> DEFINE m == (a - 1) * c
             d == n - a
             w == d * c
  <1>1. d \in Nat /\ a - 1 \in Nat /\ n = (a - 1) + (1 + d)
    OBVIOUS
  <1>2. m \in Nat /\ w \in Nat
    BY <1>1
  <1>3. c * n = m + (c + w)
    <2>1. c * n = n * c
      OBVIOUS
    <2>2. ((a - 1) + (1 + d)) * c = (a - 1) * c + (1 + d) * c
      BY <1>1
    <2>3. (1 + d) * c = c + d * c
      BY <1>1
    <2>4. QED
      BY <1>1, <2>1, <2>2, <2>3
  <1> HIDE DEF w, m
  <1>4. m + b \in 1..(m + (c + w))
    BY <1>2
  <1>5. QED
    BY <1>3, <1>4 DEF m

\* The generator has sorted the originals,
LEMMA OriginalsAreSorted ==
  ASSUME NEW input \in Seq(Lines), NEW c \in Nat, AreOriginals(input, c),
         \A k \in 1..Len(input) : input[k].event_id \in Nat \X {0}
  PROVE  /\ SortedOriginals(SortedById(input), c)
         /\ SortedById(input) \in [1..c -> Lines]
  <1> DEFINE s == SortedById(input)
  <1>1. /\ DistinctIds(input) /\ Len(input) = c /\ DOMAIN input = 1..c
        /\ \A k \in 1..c : /\ input[k] \in Lines /\ input[k].event_id \in Nat \X {0}
                           /\ input[k].detection_id = input[k].event_id
                           /\ input[k].is_synthetic = FALSE
    BY DEF AreOriginals
  <1>2. /\ s \in [1..c -> Lines] /\ Len(s) = c
        /\ \A k \in 1..c : \E l \in 1..c : s[k] = input[l]
        /\ \A k, l \in 1..c : k < l => s[k].event_id[1] < s[l].event_id[1]
    BY <1>1, SortedEvents
  <1> HIDE DEF s
  <1>3. ASSUME NEW b \in 1..c
        PROVE  /\ s[b] \in Lines /\ s[b].event_id \in Nat \X {0}
               /\ s[b].detection_id = s[b].event_id /\ s[b].is_synthetic = FALSE
    <2>1. PICK l \in 1..c : s[b] = input[l]
      BY <1>2
    <2>2. QED
      BY <1>1, <2>1
  <1>4. ASSUME NEW b \in 1..c, NEW y \in 1..c, s[b].event_id = s[y].event_id
        PROVE  b = y
    <2>1. s[b].event_id[1] \in Nat /\ s[y].event_id[1] = s[b].event_id[1]
      BY <1>3, <1>4
    <2>2. /\ b < y => s[b].event_id[1] < s[y].event_id[1]
          /\ y < b => s[y].event_id[1] < s[b].event_id[1]
      BY <1>2
    <2>3. ~ (b < y) /\ ~ (y < b)
      BY <2>1, <2>2
    <2>4. QED
      BY <2>3
  <1>7. DOMAIN s = 1..c
    BY <1>2
  <1>5. SortedOriginals(s, c)
    BY <1>2, <1>7, <1>3, <1>4 DEF SortedOriginals
  <1>6. QED
    BY <1>2, <1>5 DEF s

\* and copied them.
LEMMA CopiesAreNumbered ==
  ASSUME NEW c \in Nat, NEW s \in [1..c -> Lines], NEW events, events = Replayed(s, c)
  PROVE  NumberedCopies(s, c, events)
  <1>0. Factor \in Nat
    BY FactorAssumption
  <1> DEFINE N == c * Factor
  <1>1. /\ DOMAIN events = 1..N /\ Len(events) = N /\ N \in Nat
        /\ \A k \in 1..N : \E a \in 1..Factor, b \in 1..c :
             k = (a - 1) * c + b /\ events[k] = ReplayEvent(s[b], a, k - 1)
    <2>1. Copies(events, Factor, c, s)
      BY ReplayedShape
    <2>2. Factor * c = N /\ N \in Nat
      BY <1>0
    <2>3. PICK U : events \in Seq(U)
      BY <2>1 DEF Copies
    <2>4. Len(events) = N
      BY <2>1, <2>2 DEF Copies
    <2>5. DOMAIN events = 1..N
      BY <2>3, <2>4
    <2>6. QED
      BY <2>1, <2>2, <2>4, <2>5 DEF Copies
  <1>2. ASSUME NEW a \in 1..Factor, NEW b \in 1..c, NEW k, k = (a - 1) * c + b
        PROVE  k \in 1..N /\ events[k] = ReplayEvent(s[b], a, k - 1)
    <2>1. k \in 1..N
      BY <1>0, <1>2, PositionsAreInside
    <2>2. PICK x \in 1..Factor, y \in 1..c :
            k = (x - 1) * c + y /\ events[k] = ReplayEvent(s[y], x, k - 1)
      BY <1>1, <2>1
    <2>3. a \in Nat /\ x \in Nat /\ (x - 1) * c + y = (a - 1) * c + b
      BY <1>0, <1>2, <2>2
    <2>4. x = a /\ y = b
      BY <2>3, PositionsAreUnique
    <2>5. QED
      BY <2>1, <2>2, <2>4
  <1>3. \A k \in DOMAIN events : \E a \in 1..Factor, b \in 1..c :
          k \in Int /\ k = (a - 1) * c + b
    <2> SUFFICES ASSUME NEW k \in 1..N
                 PROVE  \E a \in 1..Factor, b \in 1..c : k \in Int /\ k = (a - 1) * c + b
      BY <1>1
    <2> HIDE DEF N
    <2>1. k \in Int
      BY <1>1
    <2>2. QED
      BY <1>1, <2>1
  <1> HIDE DEF N
  <1>4. QED
    BY <1>1, <1>2, <1>3 DEF NumberedCopies, N

\* Every line is what the verifier computes from its position.
LEMMA LinesAreExpected ==
  ASSUME NEW c \in Nat, NEW s, SortedOriginals(s, c), NEW events, NumberedCopies(s, c, events)
  PROVE  \A k \in DOMAIN events : events[k] = ExpectedReplayEvent(s, k)
  <1> SUFFICES ASSUME NEW k \in DOMAIN events
               PROVE  events[k] = ExpectedReplayEvent(s, k)
    OBVIOUS
  <1>1. PICK a \in 1..Factor, b \in 1..c : k \in Int /\ k = (a - 1) * c + b
    BY DEF NumberedCopies
  <1>2. events[k] = ReplayEvent(s[b], a, k - 1)
    BY <1>1 DEF NumberedCopies
  <1>3. a \in Nat \ {0} /\ Len(s) = c
    BY FactorAssumption DEF SortedOriginals
  <1>4. ((k - 1) % c) + 1 = b /\ (k - 1) \div c + 1 = a
    <2> DEFINE Position(x, y) == (x - 1) * c + y
               Tells(i, x, y) == ((i - 1) % c) + 1 = y /\ (i - 1) \div c + 1 = x
    <2>1. \A x \in Nat \ {0}, y \in 1..c, i \in Int : i = Position(x, y) => Tells(i, x, y)
      BY PositionTells
    <2>2. a \in Nat \ {0} /\ b \in 1..c /\ k \in Int /\ k = Position(a, b)
      BY <1>1, <1>3
    <2>3. Tells(k, a, b)
      <3> HIDE DEF Position, Tells
      <3>1. QED
        BY <2>1, <2>2
    <2>4. QED
      BY <2>3
  <1>5. ExpectedReplayEvent(s, k) =
          ReplayEvent(s[((k - 1) % c) + 1], (k - 1) \div c + 1, k - 1)
    BY <1>3 DEF ExpectedReplayEvent
  <1>6. QED
    BY <1>2, <1>4, <1>5

\* What a line has in each field.
IsLine(e, original, a, n) ==
  /\ e.detection_id = original.event_id /\ e.parent = original.event_id
  /\ e.replay_iteration = a /\ e.replay_sequence_number = n /\ e.scheduled = n
  /\ e.source_type = "NASA_REPLAY" /\ e.is_synthetic = FALSE

\* The lines are where they belong.
LEMMA LinesInPlace ==
  ASSUME NEW c \in Nat, NEW s, SortedOriginals(s, c), NEW events, NumberedCopies(s, c, events)
  PROVE  \A a \in 1..Factor, b \in 1..c, k \in Int : k = (a - 1) * c + b =>
           k \in DOMAIN events /\ IsLine(events[k], s[b], a, k - 1)
  <1> SUFFICES ASSUME NEW a \in 1..Factor, NEW b \in 1..c, NEW k \in Int, k = (a - 1) * c + b
               PROVE  k \in DOMAIN events /\ IsLine(events[k], s[b], a, k - 1)
    OBVIOUS
  <1>1. k \in DOMAIN events /\ events[k] = ReplayEvent(s[b], a, k - 1)
    BY DEF NumberedCopies
  <1>2. /\ s[b] \in Lines /\ s[b].event_id \in Nat \X {0}
        /\ s[b].detection_id = s[b].event_id /\ s[b].is_synthetic = FALSE
    BY DEF SortedOriginals
  <1>3. a \in Nat /\ k - 1 \in Int
    BY FactorAssumption
  <1>4. LET e == ReplayEvent(s[b], a, k - 1) IN
          /\ e.detection_id = s[b].detection_id /\ e.parent = s[b].event_id
          /\ e.replay_iteration = a /\ e.replay_sequence_number = k - 1
    BY <1>2, <1>3, CopyOfOriginal
  <1>5. LET e == ReplayEvent(s[b], a, k - 1) IN
          /\ e.source_type = "NASA_REPLAY" /\ e.is_synthetic = s[b].is_synthetic
          /\ e.scheduled = k - 1
    BY <1>2, CopyIsMarked
  <1>6. QED
    BY <1>1, <1>2, <1>4, <1>5 DEF IsLine

\* The detections are those of the originals.
LEMMA DetectionsAreOriginals ==
  ASSUME NEW c \in Nat, NEW s, SortedOriginals(s, c), NEW events, NumberedCopies(s, c, events)
  PROVE  DetectionsOf(events) = IdsOf(s) /\ Cardinality(DetectionsOf(events)) = c
  <1>7. \A a \in 1..Factor, b \in 1..c, k \in Int : k = (a - 1) * c + b =>
          k \in DOMAIN events /\ IsLine(events[k], s[b], a, k - 1)
    BY Zenon, LinesInPlace
  <1>8. \A a \in 1..Factor, b \in 1..c, k \in Int : k = (a - 1) * c + b =>
          k \in DOMAIN events /\ events[k].detection_id = s[b].event_id
    BY <1>7 DEF IsLine
  <1>9. \A k \in DOMAIN events : \E a \in 1..Factor, b \in 1..c :
          k \in Int /\ k = (a - 1) * c + b
    BY DEF NumberedCopies
  <1> DEFINE D == DetectionsOf(events)
             E == {s[b].event_id : b \in 1..c}
  <1>0. Factor \in Nat \ {0}
    BY FactorAssumption
  <1>1. D \subseteq E
    <2> SUFFICES ASSUME NEW k \in DOMAIN events PROVE events[k].detection_id \in E
      BY DEF DetectionsOf
    <2>1. PICK a \in 1..Factor, b \in 1..c : k \in Int /\ k = (a - 1) * c + b
      BY <1>8, <1>9
    <2>2. events[k].detection_id = s[b].event_id
      BY <1>8, <1>9, <2>1
    <2>3. QED
      BY <2>2
  <1>2. E \subseteq D
    <2> SUFFICES ASSUME NEW b \in 1..c PROVE s[b].event_id \in D
      OBVIOUS
    <2> DEFINE k == (1 - 1) * c + b
    <2>1. 1 \in 1..Factor /\ k \in Int
      BY <1>0
    <2>2. k \in DOMAIN events /\ events[k].detection_id = s[b].event_id
      BY <1>8, <1>9, <2>1
    <2> HIDE DEF k
    <2>3. QED
      BY <2>2 DEF DetectionsOf
  <1>3. Cardinality(E) = c
    <2> DEFINE f == [b \in 1..c |-> s[b].event_id]
    <2>1. f \in [1..c -> E] /\ \A t \in E : \E b \in 1..c : f[b] = t
      OBVIOUS
    <2>2. \A b, y \in 1..c : f[b] = f[y] => b = y
      BY DEF SortedOriginals
    <2> HIDE DEF f, E
    <2>3. QED
      BY <2>1, <2>2, CountedBy
  <1>6. IdsOf(s) = E
    BY DEF SortedOriginals, IdsOf
  <1> HIDE DEF D, E
  <1>4. D = E
    BY <1>1, <1>2
  <1>5. QED
    BY <1>3, <1>4, <1>6 DEF D

\* Each of them is there once in every iteration.
LEMMA CopiesOfEach ==
  ASSUME NEW c \in Nat, NEW s, SortedOriginals(s, c), NEW events, NumberedCopies(s, c, events),
         NEW b \in 1..c
  PROVE  Cardinality({k \in DOMAIN events : events[k].detection_id = s[b].event_id}) = Factor
  <1>7. \A a \in 1..Factor, y \in 1..c, k \in Int : k = (a - 1) * c + y =>
          k \in DOMAIN events /\ IsLine(events[k], s[y], a, k - 1)
    BY Zenon, LinesInPlace
  <1>8. \A a \in 1..Factor, y \in 1..c, k \in Int : k = (a - 1) * c + y =>
          k \in DOMAIN events /\ events[k].detection_id = s[y].event_id
    BY <1>7 DEF IsLine
  <1>9. \A k \in DOMAIN events : \E a \in 1..Factor, y \in 1..c :
          k \in Int /\ k = (a - 1) * c + y
    BY DEF NumberedCopies
  <1> DEFINE K == {k \in DOMAIN events : events[k].detection_id = s[b].event_id}
             f == [a \in 1..Factor |-> (a - 1) * c + b]
  <1>0. Factor \in Nat \ {0}
    BY FactorAssumption
  <1>1. \A a \in 1..Factor : f[a] = (a - 1) * c + b
    OBVIOUS
  <1>2. f \in [1..Factor -> K]
    <2>1. ASSUME NEW a \in 1..Factor
          PROVE  f[a] \in K
      <3>1. /\ (a - 1) * c + b \in DOMAIN events
            /\ events[(a - 1) * c + b].detection_id = s[b].event_id
        BY <1>8, <1>9
      <3>2. QED
        BY <3>1, <1>1
    <2>2. f = [a \in 1..Factor |-> f[a]]
      OBVIOUS
    <2> HIDE DEF f, K
    <2>3. QED
      BY <2>1, <2>2
  <1>3. ASSUME NEW a \in 1..Factor, NEW x \in 1..Factor, f[a] = f[x]
        PROVE  a = x
    <2>1. (a - 1) * c + b = (x - 1) * c + b /\ a \in Nat /\ x \in Nat
      BY <1>0, <1>1, <1>3
    <2>2. QED
      BY <2>1, PositionsAreUnique
  <1>4. ASSUME NEW k \in K
        PROVE  \E a \in 1..Factor : f[a] = k
    <2>1. k \in DOMAIN events /\ events[k].detection_id = s[b].event_id
      OBVIOUS
    <2>2. PICK a \in 1..Factor, y \in 1..c : k \in Int /\ k = (a - 1) * c + y
      BY <1>8, <1>9, <2>1
    <2>3. events[k].detection_id = s[y].event_id
      BY <1>8, <1>9, <2>1, <2>2
    <2>4. y = b
      BY <2>1, <2>3 DEF SortedOriginals
    <2>5. QED
      BY <1>1, <2>2, <2>4
  <1> HIDE DEF f, K
  <1>5. Cardinality(K) = Factor
    BY <1>0, <1>2, <1>3, <1>4, CountedBy
  <1>6. QED
    BY <1>5 DEF K

\* As the verifiers count them.
Multiplicities(events) ==
  {Cardinality({k \in DOMAIN events : events[k].detection_id = d}) : d \in DetectionsOf(events)}

\* So every count of the verifiers is the factor.
LEMMA AllAreCopied ==
  ASSUME NEW c \in Nat \ {0}, NEW s, SortedOriginals(s, c),
         NEW events, NumberedCopies(s, c, events)
  PROVE  Multiplicities(events) = {Factor}
  <1> DEFINE M(d) == Cardinality({k \in DOMAIN events : events[k].detection_id = d})
  <1>1. DetectionsOf(events) = IdsOf(s)
    BY DetectionsAreOriginals
  <1>2. \A b \in 1..c : M(s[b].event_id) = Factor
    BY CopiesOfEach
  <1>6. DOMAIN s = 1..c /\ Multiplicities(events) = {M(d) : d \in DetectionsOf(events)}
    BY DEF SortedOriginals, Multiplicities
  <1> HIDE DEF M
  <1>3. \A d \in IdsOf(s) : M(d) = Factor
    BY <1>2, <1>6 DEF IdsOf
  <1>4. s[1].event_id \in IdsOf(s)
    BY <1>6 DEF IdsOf
  <1>5. {M(d) : d \in IdsOf(s)} = {Factor}
    BY <1>3, <1>4
  <1>7. QED
    BY <1>1, <1>5, <1>6

\* The sequence numbers, and the times that go with them, are those from zero on.
Dense(events, n) ==
  /\ {events[k].replay_sequence_number : k \in DOMAIN events} = 0..(n - 1)
  /\ {events[k].scheduled : k \in DOMAIN events} = 0..(n - 1)
  /\ Cardinality({events[k].replay_sequence_number : k \in DOMAIN events}) = n
  /\ {0, n - 1} \subseteq 0..(n - 1)

\* That is so in a replay,
LEMMA SequencesAreDense ==
  ASSUME NEW c \in Nat \ {0}, NEW s, SortedOriginals(s, c),
         NEW events, NumberedCopies(s, c, events)
  PROVE  Dense(events, c * Factor)
  <1> DEFINE N == c * Factor
  <1>1. c \in Nat /\ Factor \in Nat \ {0}
    BY FactorAssumption
  <1>2. N \in Nat \ {0}
    <2>1. N = (c - 1) * Factor + Factor /\ c - 1 \in Nat
      BY <1>1
    <2> DEFINE m == (c - 1) * Factor
    <2>2. m \in Nat
      BY <1>1, <2>1
    <2>3. N = m + Factor
      BY <2>1
    <2> HIDE DEF m, N
    <2>4. QED
      BY <1>1, <2>2, <2>3
  <1>3. DOMAIN events = 1..N
    BY DEF NumberedCopies
  <1>4. ASSUME NEW k \in DOMAIN events
        PROVE  events[k].replay_sequence_number = k - 1 /\ events[k].scheduled = k - 1
    <2>1. PICK a \in 1..Factor, b \in 1..c : k \in Int /\ k = (a - 1) * c + b
      BY DEF NumberedCopies
    <2>2. \A x \in 1..Factor, y \in 1..c, i \in Int : i = (x - 1) * c + y =>
            i \in DOMAIN events /\ IsLine(events[i], s[y], x, i - 1)
      BY <1>1, Zenon, LinesInPlace
    <2>3. IsLine(events[k], s[b], a, k - 1)
      BY <2>1, <2>2
    <2>4. QED
      BY <2>3 DEF IsLine
  <1> HIDE DEF N
  <1>5. {k - 1 : k \in 1..N} = 0..(N - 1)
    <2>1. \A n \in 0..(N - 1) : n + 1 \in 1..N /\ (n + 1) - 1 = n
      BY <1>2
    <2>2. \A k \in 1..N : k - 1 \in 0..(N - 1)
      BY <1>2
    <2>3. QED
      BY <2>1, <2>2
  <1>6. Cardinality(0..(N - 1)) = N
    BY <1>2, FS_Interval
  <1>7. {0, N - 1} \subseteq 0..(N - 1)
    BY <1>2
  <1>8. /\ {events[k].replay_sequence_number : k \in DOMAIN events} = {k - 1 : k \in 1..N}
        /\ {events[k].scheduled : k \in DOMAIN events} = {k - 1 : k \in 1..N}
    BY <1>3, <1>4
  <1>9. QED
    BY <1>5, <1>6, <1>7, <1>8 DEF N, Dense

\* The iterations are those of the plan, and the rest is the same in each line.
Uniform(events) ==
  /\ {events[k].replay_iteration : k \in DOMAIN events} = 1..Factor
  /\ {events[k].source_type : k \in DOMAIN events} = {"NASA_REPLAY"}
  /\ {events[k].is_synthetic : k \in DOMAIN events} = {FALSE}
  /\ NULL \notin {events[k].parent : k \in DOMAIN events}

\* So it is in a replay.
LEMMA ColumnsAreRight ==
  ASSUME NEW c \in Nat \ {0}, NEW s, SortedOriginals(s, c),
         NEW events, NumberedCopies(s, c, events)
  PROVE  Uniform(events)
  <1>1. c \in Nat /\ Factor \in Nat \ {0} /\ 1 \in 1..c /\ 1 \in 1..Factor
    BY FactorAssumption
  <1>2. \A a \in 1..Factor, b \in 1..c, k \in Int : k = (a - 1) * c + b =>
          k \in DOMAIN events /\ IsLine(events[k], s[b], a, k - 1)
    BY <1>1, Zenon, LinesInPlace
  <1>3. \A b \in 1..c : s[b].event_id # NULL
    <2> SUFFICES ASSUME NEW b \in 1..c PROVE s[b].event_id # NULL
      OBVIOUS
    <2>1. s[b].event_id \in Nat \X Nat
      BY DEF SortedOriginals
    <2>2. NULL \notin Nat \X Nat
      BY LakeAssumption
    <2>3. QED
      BY <2>1, <2>2
  <1>4. ASSUME NEW k \in DOMAIN events
        PROVE  /\ events[k].replay_iteration \in 1..Factor
               /\ events[k].source_type = "NASA_REPLAY" /\ events[k].is_synthetic = FALSE
               /\ events[k].parent # NULL
    <2>1. PICK a \in 1..Factor, b \in 1..c : k \in Int /\ k = (a - 1) * c + b
      BY DEF NumberedCopies
    <2>2. IsLine(events[k], s[b], a, k - 1)
      BY <1>2, <2>1
    <2>3. QED
      BY <1>3, <2>2 DEF IsLine
  <1>5. ASSUME NEW a \in 1..Factor
        PROVE  \E k \in DOMAIN events : events[k].replay_iteration = a
    <2> DEFINE k == (a - 1) * c + 1
    <2>1. k \in Int
      BY <1>1
    <2>2. k \in DOMAIN events /\ IsLine(events[k], s[1], a, k - 1)
      BY <1>1, <1>2, <2>1
    <2> HIDE DEF k
    <2>3. QED
      BY <2>2 DEF IsLine
  <1>6. \E k : k \in DOMAIN events
    BY <1>1, <1>5
  <1>7. {events[k].replay_iteration : k \in DOMAIN events} = 1..Factor
    <2> DEFINE I == 1..Factor
    <2>1. \A k \in DOMAIN events : events[k].replay_iteration \in I
      BY <1>4
    <2>2. \A a \in I : \E k \in DOMAIN events : events[k].replay_iteration = a
      BY <1>5
    <2> HIDE DEF I
    <2>3. {events[k].replay_iteration : k \in DOMAIN events} = I
      BY <2>1, <2>2
    <2>4. QED
      BY <2>3 DEF I
  <1>8. /\ {events[k].source_type : k \in DOMAIN events} = {"NASA_REPLAY"}
        /\ {events[k].is_synthetic : k \in DOMAIN events} = {FALSE}
    <2>1. PICK i : i \in DOMAIN events
      BY <1>6
    <2>2. {events[k].source_type : k \in DOMAIN events} = {"NASA_REPLAY"}
      BY <1>4, <2>1
    <2>3. {events[k].is_synthetic : k \in DOMAIN events} = {FALSE}
      BY <1>4, <2>1, Zenon
    <2>4. QED
      BY <2>2, <2>3
  <1>9. NULL \notin {events[k].parent : k \in DOMAIN events}
    BY <1>4
  <1>10. QED
    BY <1>7, <1>8, <1>9 DEF Uniform

\* What the verifier of Silver asks of the rows of n originals.
Passes(rows, n) ==
  /\ Len(rows) = n * Factor
  /\ Cardinality({rows[k].event_id : k \in DOMAIN rows}) = n * Factor
  /\ Cardinality({rows[k].detection_id : k \in DOMAIN rows}) = n
  /\ Cardinality({rows[k].replay_sequence_number : k \in DOMAIN rows}) = n * Factor
  /\ {Cardinality({k \in DOMAIN rows : rows[k].detection_id = d}) :
        d \in {rows[k].detection_id : k \in DOMAIN rows}} = {Factor}
  /\ {rows[k].replay_iteration : k \in DOMAIN rows} = 1..Factor
  /\ {rows[k].source_type : k \in DOMAIN rows} = {"NASA_REPLAY"}
  /\ {rows[k].is_synthetic : k \in DOMAIN rows} = {FALSE}
  /\ {0, n * Factor - 1} \subseteq {rows[k].replay_sequence_number : k \in DOMAIN rows}
  /\ \A s \in {rows[k].replay_sequence_number : k \in DOMAIN rows} : s \in 0..(n * Factor - 1)
  /\ {0, n * Factor - 1} \subseteq {rows[k].scheduled : k \in DOMAIN rows}
  /\ NULL \notin {rows[k].parent : k \in DOMAIN rows}

\* The verifier asks this, and nothing else.
LEMMA SilverVerifiedIs ==
  ASSUME NEW r, NEW originals
  PROVE  SilverVerified(r, originals) <=> Passes(Content(r, "silver"), Len(originals))
  BY DEF SilverVerified, Passes

\* Silver rows that are the events of the replay, one by one, pass its verifier.
LEMMA WholeReplayPasses ==
  ASSUME NEW r, NEW originals, NEW c \in Nat \ {0}, c = Len(originals),
         NEW s, SortedOriginals(s, c), NEW events, NumberedCopies(s, c, events),
         DistinctIds(events), Content(r, "silver") = events
  PROVE  SilverVerified(r, originals)
  <1>1. c \in Nat
    OBVIOUS
  <1>2. Cardinality(DetectionsOf(events)) = c /\ Multiplicities(events) = {Factor}
    BY <1>1, DetectionsAreOriginals, AllAreCopied
  <1>3. Len(events) = c * Factor
    BY DEF NumberedCopies
  <1>4. Cardinality({events[k].event_id : k \in DOMAIN events}) = c * Factor
    BY <1>3 DEF DistinctIds
  <1>5. Dense(events, c * Factor) /\ Uniform(events)
    BY SequencesAreDense, ColumnsAreRight
  <1> DEFINE N == c * Factor
  <1>6. Dense(events, N) /\ Len(events) = N
        /\ Cardinality({events[k].event_id : k \in DOMAIN events}) = N
    BY <1>3, <1>4, <1>5
  <1> HIDE DEF N
  <1>7. /\ Cardinality({events[k].detection_id : k \in DOMAIN events}) = c
        /\ {Cardinality({k \in DOMAIN events : events[k].detection_id = d}) :
              d \in {events[k].detection_id : k \in DOMAIN events}} = {Factor}
    BY <1>2 DEF DetectionsOf, Multiplicities
  <1>8. /\ Cardinality({events[k].replay_sequence_number : k \in DOMAIN events}) = N
        /\ {events[k].replay_iteration : k \in DOMAIN events} = 1..Factor
        /\ {events[k].source_type : k \in DOMAIN events} = {"NASA_REPLAY"}
        /\ {events[k].is_synthetic : k \in DOMAIN events} = {FALSE}
        /\ {0, N - 1} \subseteq {events[k].replay_sequence_number : k \in DOMAIN events}
        /\ \A q \in {events[k].replay_sequence_number : k \in DOMAIN events} : q \in 0..(N - 1)
        /\ {0, N - 1} \subseteq {events[k].scheduled : k \in DOMAIN events}
        /\ NULL \notin {events[k].parent : k \in DOMAIN events}
    BY <1>5, <1>6 DEF Dense, Uniform
  <1>9. Passes(events, c)
    BY <1>6, <1>7, <1>8 DEF Passes, N
  <1>10. QED
    BY <1>9, SilverVerifiedIs

-----------------------------------------------------------------------------
(* What is known of a run through the run that it reads from.              *)

\* A replay has computed its events, and has not failed since or has put them in place.
HasCopies(x) == Worked(x) \/ "events" \in DOMAIN x.parts

\* What a replay has computed.
CopiedFrom(x) ==
  /\ x.from \in Seq(OriginalLines) /\ x.input \in Seq(OriginalLines)
  /\ AreOriginals(x.input, Len(x.from))
  /\ x.out["events"] = Replayed(SortedById(x.input), Len(x.from))
  /\ DistinctIds(x.out["events"])

\* A replay is of something; what it computes, puts in place and records are copies of
\* what it has read.
Copied(x) ==
  x.stage = "replay" =>
    /\ x.from # <<>>
    /\ x.pc = "read" => x.from \in Seq(OriginalLines)
    /\ HasCopies(x) => CopiedFrom(x)
    /\ "events" \in DOMAIN x.parts => x.parts["events"] = x.out["events"]
    /\ x.status = "SUCCEEDED" => x.recorded = x.out

\* Its source holds c now. Unless it has been replaced, this is what the replay knows it
\* by; and if it is, then it is also what the replay has read.
Found(x, c, replaced) ==
  x.stage = "replay" /\ (x.pc = "read" \/ Worked(x)) =>
    /\ ~ replaced => c = x.from
    /\ Worked(x) /\ c = x.from => x.input = x.from

\* Rows of Silver are lines with the ids of the events of the run s that x reads from.
Within(rows, x, s) ==
  rows \in Seq(Lines) /\ (x.src # 0 => IdsOf(rows) \subseteq IdsOf(s.parts["events"]))

\* Silver computes and puts in place such rows.
Admitted(x, s) ==
  x.stage = "silver" =>
    /\ Worked(x) => Within(x.out["silver"], x, s)
    /\ "silver" \in DOMAIN x.parts => Within(x.parts["silver"], x, s)

\* What is known of a run x that reads the events of s, which hold c now.
Traced(x, s, c, replaced) == Copied(x) /\ Found(x, c, replaced) /\ Admitted(x, s)

\* The events of a run have been replaced.
Replaced(r) == \E d \in damage : d.run = r /\ d.part = "events"

\* The invariant of the verifiers: all runs are traced, and what has been put in the place
\* of a file has no other ids.
TraceInv ==
  /\ \A r \in 1..Len(runs) :
       Traced(runs[r], runs[runs[r].src], Content(runs[r].src, "events"), Replaced(runs[r].src))
  /\ \A d \in damage : d.part \in {"events", "silver"} =>
       IdsOf(d.content) \subseteq IdsOf(runs[d.run].parts[d.part])

-----------------------------------------------------------------------------
\* A run of another stage needs no trace.
LEMMA OthersNeedNoTrace ==
  ASSUME NEW x, x.stage \notin {"replay", "silver"}, NEW s, NEW c, NEW p
  PROVE  Traced(x, s, c, p)
  BY DEF Traced, Copied, Found, Admitted

\* A run without a source that is no replay is traced whatever becomes of the others.
LEMMA NoSourceToTrace ==
  ASSUME NEW x, NEW s, NEW c, NEW p, Traced(x, s, c, p), x.src = 0, x.stage # "replay",
         NEW s2, NEW c2, NEW p2
  PROVE  Traced(x, s2, c2, p2)
  BY DEF Traced, Copied, Found, Admitted, Within

\* That a file was replaced meanwhile is not part of it.
LEMMA RacedIsTraced ==
  ASSUME NEW x, WellFormed(x), NEW s, NEW c, NEW p, Traced(x, s, c, p)
  PROVE  Traced(Raced(x), s, c, p)
  <1> DEFINE y == Raced(x)
  <1>1. x = [f \in Fields |-> x[f]]
    BY DEF WellFormed, IsRun
  <1>2. /\ y.stage = x.stage /\ y.pc = x.pc /\ y.src = x.src /\ y.from = x.from
        /\ y.input = x.input /\ y.out = x.out /\ y.parts = x.parts
        /\ y.status = x.status /\ y.recorded = x.recorded
    BY <1>1 DEF Raced, Fields
  <1> HIDE DEF y
  <1>3. Copied(y)
    BY <1>2 DEF Traced, Copied, HasCopies, CopiedFrom, Worked
  <1>4. Found(y, c, p)
    BY <1>2 DEF Traced, Found, Worked
  <1>5. Admitted(y, s)
    BY <1>2 DEF Traced, Admitted, Within, Worked
  <1>6. QED
    BY <1>3, <1>4, <1>5 DEF Traced, y

\* A run that gives up, or dies, keeps its trace.
LEMMA GivesUpTraced ==
  ASSUME NEW x, NEW s, NEW c, NEW p, Traced(x, s, c, p), NEW y,
         NEW pc \in {"ended", "crashed"}, NEW parts, NEW status, status # "SUCCEEDED",
         Becomes(x, y, pc, x.from, x.input, x.out, parts, status, x.recorded),
         x.stage = "replay" => parts = x.parts,
         x.stage = "silver" /\ "silver" \in DOMAIN parts => Within(parts["silver"], x, s)
  PROVE  Traced(y, s, c, p)
  <1>1. /\ y.stage = x.stage /\ y.src = x.src /\ y.pc = pc /\ y.from = x.from
        /\ y.input = x.input /\ y.out = x.out /\ y.parts = parts /\ y.status = status
    BY DEF Becomes
  <1>2. ~ Worked(y) /\ pc # "read"
    BY <1>1 DEF Worked
  <1>3. Copied(y)
    BY <1>1, <1>2 DEF Traced, Copied, HasCopies, CopiedFrom
  <1>4. Found(y, c, p)
    BY <1>1, <1>2 DEF Found
  <1>5. Admitted(y, s)
    BY <1>1, <1>2 DEF Admitted, Within
  <1>6. QED
    BY <1>3, <1>4, <1>5 DEF Traced

\* The replay finds its source as it knows it,
LEMMA ChecksTraced ==
  ASSUME NEW x, NEW s, NEW c, NEW p, Traced(x, s, c, p), NEW y, x.stage = "replay",
         Becomes(x, y, "read", x.from, x.input, x.out, x.parts, x.status, x.recorded),
         x.status = "NONE", DOMAIN x.parts = {}, c = x.from, c \in Seq(OriginalLines)
  PROVE  Traced(y, s, c, p)
  <1>1. /\ y.stage = "replay" /\ y.pc = "read" /\ y.from = x.from
        /\ y.parts = x.parts /\ y.status = "NONE"
    BY DEF Becomes
  <1>2. ~ Worked(y) /\ ~ HasCopies(y)
    BY <1>1 DEF Worked, HasCopies
  <1>3. Copied(y)
    BY <1>1, <1>2 DEF Traced, Copied
  <1>4. Found(y, c, p) /\ Admitted(y, s)
    BY <1>1, <1>2 DEF Found, Admitted
  <1>5. QED
    BY <1>3, <1>4 DEF Traced

\* reads it and computes the copies,
LEMMA GeneratesTraced ==
  ASSUME NEW x, NEW s, NEW c, NEW p, Traced(x, s, c, p), NEW y, x.stage = "replay",
         NEW out, Becomes(x, y, "write", x.from, c, out, x.parts, x.status, x.recorded),
         x.pc = "read", x.status = "NONE", DOMAIN x.parts = {}, c \in Seq(OriginalLines),
         AreOriginals(c, Len(x.from)),
         out["events"] = Replayed(SortedById(c), Len(x.from)), DistinctIds(out["events"])
  PROVE  Traced(y, s, c, p)
  <1>1. /\ y.stage = "replay" /\ y.pc = "write" /\ y.from = x.from /\ y.input = c
        /\ y.out = out /\ y.parts = x.parts /\ y.status = "NONE"
    BY DEF Becomes
  <1>2. x.from # <<>> /\ x.from \in Seq(OriginalLines)
    BY DEF Traced, Copied
  <1>3. CopiedFrom(y)
    BY <1>1, <1>2 DEF CopiedFrom
  <1>4. Copied(y)
    BY <1>1, <1>2, <1>3 DEF Copied
  <1>5. Found(y, c, p)
    BY <1>1 DEF Traced, Found
  <1>6. Admitted(y, s)
    BY <1>1 DEF Admitted
  <1>7. QED
    BY <1>4, <1>5, <1>6 DEF Traced

\* puts them in place,
LEMMA ReplayPutsTraced ==
  ASSUME NEW x, NEW s, NEW c, NEW p, Traced(x, s, c, p), NEW y, x.stage = "replay",
         NEW pc \in {"write", "publish"}, NEW parts, x.pc = "write", x.status = "NONE",
         Becomes(x, y, pc, x.from, x.input, x.out, parts, x.status, x.recorded),
         parts["events"] = x.out["events"]
  PROVE  Traced(y, s, c, p)
  <1>1. /\ y.stage = "replay" /\ y.pc = pc /\ y.from = x.from /\ y.input = x.input
        /\ y.out = x.out /\ y.parts = parts /\ y.status = "NONE"
    BY DEF Becomes
  <1>2. Worked(x) /\ Worked(y) /\ HasCopies(x)
    BY <1>1 DEF Worked, HasCopies
  <1>3. CopiedFrom(y)
    BY <1>1, <1>2 DEF Traced, Copied, CopiedFrom
  <1>4. Copied(y)
    BY <1>1, <1>3 DEF Traced, Copied
  <1>5. Found(y, c, p)
    BY <1>1, <1>2 DEF Traced, Found
  <1>6. Admitted(y, s)
    BY <1>1 DEF Admitted
  <1>7. QED
    BY <1>4, <1>5, <1>6 DEF Traced

\* and records them.
LEMMA PublishesTraced ==
  ASSUME NEW x, NEW s, NEW c, NEW p, Traced(x, s, c, p), NEW y, x.stage = "replay",
         x.pc = "publish",
         Becomes(x, y, "ended", x.from, x.input, x.out, x.parts, "SUCCEEDED", x.out)
  PROVE  Traced(y, s, c, p)
  <1>1. /\ y.stage = "replay" /\ y.pc = "ended" /\ y.from = x.from /\ y.input = x.input
        /\ y.out = x.out /\ y.parts = x.parts /\ y.recorded = x.out
    BY DEF Becomes
  <1>2. Worked(x) /\ HasCopies(x)
    BY DEF Worked, HasCopies
  <1>3. CopiedFrom(y)
    BY <1>1, <1>2 DEF Traced, Copied, CopiedFrom
  <1>4. Copied(y)
    BY <1>1, <1>3 DEF Traced, Copied
  <1>5. Found(y, c, p)
    BY <1>1, <1>2 DEF Traced, Found
  <1>6. Admitted(y, s)
    BY <1>1 DEF Admitted
  <1>7. QED
    BY <1>4, <1>5, <1>6 DEF Traced

\* Silver computes its rows, puts parts in place, and ends.
LEMMA SilverTraced ==
  ASSUME NEW x, NEW s, NEW c, NEW p, Traced(x, s, c, p), NEW y, x.stage = "silver",
         NEW pc, NEW from, NEW input, NEW out, NEW parts, NEW status, NEW recorded,
         Becomes(x, y, pc, from, input, out, parts, status, recorded),
         Within(out["silver"], x, s),
         "silver" \in DOMAIN parts => Within(parts["silver"], x, s)
  PROVE  Traced(y, s, c, p)
  <1>1. /\ y.stage = "silver" /\ y.src = x.src /\ y.out = out /\ y.parts = parts
    BY DEF Becomes
  <1>2. Copied(y) /\ Found(y, c, p)
    BY <1>1 DEF Copied, Found
  <1>3. Admitted(y, s)
    BY <1>1 DEF Admitted, Within
  <1>4. QED
    BY <1>2, <1>3 DEF Traced

\* The invariant in the next state, part by part.
LEMMA TraceInvNext ==
  ASSUME \A r \in 1..Len(runs') : \E i :
           /\ i = runs'[r].src
           /\ Traced(runs'[r], runs'[i], Content(i, "events")', Replaced(i)'),
         \A d \in damage' : d.part \in {"events", "silver"} =>
           IdsOf(d.content) \subseteq IdsOf(runs'[d.run].parts[d.part])
  PROVE  TraceInv'
  BY DEF TraceInv

\* When no file is replaced and the runs that were there stay, so do their traces.
LEMMA StaysTraced ==
  ASSUME RunsFormed, ContentInv, TraceInv, UNCHANGED damage,
         NEW r \in 1..Len(runs), runs'[r] = runs[r],
         \A q \in 1..Len(runs) : q < r => runs'[q] = runs[q]
  PROVE  \E i : /\ i = runs'[r].src
                /\ Traced(runs'[r], runs'[i], Content(i, "events")', Replaced(i)')
  <1>1. PICK i : i = runs[r].src
    OBVIOUS
  <1>2. i \in Nat /\ i < r /\ r \in Nat /\ Len(runs) \in Nat
    BY <1>1 DEF RunsFormed, WellFormed
  <1>3. Traced(runs[r], runs[i], Content(i, "events"), Replaced(i))
    BY <1>1 DEF TraceInv
  <1>4. CASE i = 0
    <2>1. runs[r].stage # "replay"
      BY <1>1, <1>4 DEF ContentInv, Lasting, Sourced
    <2>2. Traced(runs[r], runs'[i], Content(i, "events")', Replaced(i)')
      BY <1>1, <1>3, <1>4, <2>1, NoSourceToTrace
    <2>3. QED
      BY <1>1, <2>2
  <1>5. CASE i # 0
    <2>1. i \in 1..Len(runs) /\ runs'[i] = runs[i]
      BY <1>2, <1>5
    <2>2. Content(i, "events")' = Content(i, "events")
      BY <2>1, ContentStays
    <2>3. Replaced(i)' <=> Replaced(i)
      BY DEF Replaced
    <2>4. Traced(runs[r], runs'[i], Content(i, "events")', Replaced(i)')
      BY <1>3, <2>1, <2>2, <2>3 DEF Traced, Found
    <2>5. QED
      BY <1>1, <2>4
  <1>6. QED
    BY <1>4, <1>5

\* The invariant is kept when the run in work goes on with its trace.
LEMMA GoingOnTraced ==
  ASSUME RunsFormed, TroubleFormed, ContentInv, TraceInv, ~ Idle, UNCHANGED damage,
         NEW y, Moves(job, y), runs' = [runs EXCEPT ![Len(runs)] = y],
         Traced(y, runs[job.src], Content(job.src, "events"), Replaced(job.src))
  PROVE  TraceInv'
  <1>0. PICK n, i : n = Len(runs) /\ i = job.src
    OBVIOUS
  <1>1. /\ n \in 1..n /\ n \in Nat /\ job = runs[n]
        /\ i \in Nat /\ i < n
        /\ y.stage = job.stage /\ y.src = i
        /\ \A p \in DOMAIN job.parts : y.parts[p] = job.parts[p]
    <2>1. /\ n \in 1..n /\ job = runs[n] /\ WellFormed(job) /\ n \in Nat
      BY <1>0, JobIsLast DEF RunsFormed
    <2>2. i \in Nat /\ i < n
      BY <1>0, <2>1 DEF RunsFormed, WellFormed
    <2>3. QED
      BY <1>0, <2>1, <2>2 DEF Moves, SameRun
  <1>2. Len(runs') = n /\ \A r \in 1..n : runs'[r] = IF r = n THEN y ELSE runs[r]
    BY <1>0, <1>1, ReplaceRun DEF RunsFormed
  <1>3. runs'[n] = y
    BY <1>1, <1>2
  <1>4. Traced(y, runs[i], Content(i, "events"), Replaced(i))
    BY <1>0
  <1>5. Traced(y, runs'[i], Content(i, "events")', Replaced(i)')
    <2>1. CASE i = 0
      <3>1. job.stage # "replay"
        BY <1>0, <1>1, <2>1 DEF ContentInv, Lasting, Sourced
      <3>2. QED
        BY <1>1, <1>4, <2>1, <3>1, NoSourceToTrace
    <2>2. CASE i # 0
      <3>1. runs'[i] = runs[i]
        BY <1>1, <1>2, <2>2
      <3>2. Content(i, "events")' = Content(i, "events")
        BY <3>1, ContentStays
      <3>3. Replaced(i)' <=> Replaced(i)
        BY DEF Replaced
      <3>4. QED
        BY <1>4, <3>1, <3>2, <3>3 DEF Traced, Found
    <2>3. QED
      BY <2>1, <2>2
  <1>6. ASSUME NEW r \in 1..Len(runs')
        PROVE  \E j : /\ j = runs'[r].src
                      /\ Traced(runs'[r], runs'[j], Content(j, "events")', Replaced(j)')
    <2>1. CASE r = n
      <3>1. i = runs'[r].src /\ runs'[r] = y
        BY <1>1, <1>3, <2>1
      <3>2. QED
        BY <1>5, <3>1
    <2>2. CASE r # n
      <3>1. r \in 1..Len(runs) /\ runs'[r] = runs[r]
        BY <1>0, <1>2, <2>2
      <3>2. \A q \in 1..Len(runs) : q < r => runs'[q] = runs[q]
        BY <1>0, <1>1, <1>2, <3>1
      <3>3. QED
        BY <3>1, <3>2, StaysTraced
    <2>3. QED
      BY <2>1, <2>2
  <1>7. \A d \in damage' : d.part \in {"events", "silver"} =>
          IdsOf(d.content) \subseteq IdsOf(runs'[d.run].parts[d.part])
    <2> SUFFICES ASSUME NEW d \in damage, d.part \in {"events", "silver"}
                 PROVE  IdsOf(d.content) \subseteq IdsOf(runs'[d.run].parts[d.part])
      OBVIOUS
    <2>1. d.run \in 1..n /\ d.part \in DOMAIN runs[d.run].parts
      BY <1>0 DEF TroubleFormed
    <2>2. runs'[d.run].parts[d.part] = runs[d.run].parts[d.part]
      BY <1>1, <1>2, <2>1
    <2>3. QED
      BY <2>2 DEF TraceInv
  <1>8. QED
    BY <1>6, <1>7, TraceInvNext

\* It is kept when a run begins.
LEMMA BeginningTraced ==
  ASSUME RunsFormed, TroubleFormed, ContentInv, TraceInv, UNCHANGED damage,
         NEW y, Fresh(y, Len(runs) + 1), Knows(y), runs' = Append(runs, y),
         y.stage = "replay" => y.from # <<>>
  PROVE  TraceInv'
  <1>0. PICK n : n = Len(runs)
    OBVIOUS
  <1>1. /\ n \in Nat /\ Len(runs') = n + 1 /\ runs'[n + 1] = y
        /\ \A r \in 1..n : runs'[r] = runs[r]
    BY <1>0, AppendRun DEF RunsFormed
  <1>2. ~ Worked(y) /\ ~ HasCopies(y) /\ y.status # "SUCCEEDED" /\ DOMAIN y.parts = {}
    BY DEF Fresh, Worked, HasCopies
  <1>3. y.pc = "read" => y.stage = "silver"
    BY DEF Knows
  <1>4. \A s, c, p : Traced(y, s, c, p)
    BY <1>2, <1>3 DEF Traced, Copied, Found, Admitted
  <1>5. ASSUME NEW r \in 1..Len(runs')
        PROVE  \E j : /\ j = runs'[r].src
                      /\ Traced(runs'[r], runs'[j], Content(j, "events")', Replaced(j)')
    <2>1. CASE r = n + 1
      <3>1. PICK j : j = runs'[r].src
        OBVIOUS
      <3>2. Traced(runs'[r], runs'[j], Content(j, "events")', Replaced(j)')
        BY <1>1, <1>4, <2>1
      <3>3. QED
        BY <3>1, <3>2
    <2>2. CASE r # n + 1
      <3>1. r \in 1..Len(runs) /\ runs'[r] = runs[r]
        BY <1>0, <1>1, <2>2
      <3>2. \A q \in 1..Len(runs) : q < r => runs'[q] = runs[q]
        BY <1>0, <1>1
      <3>3. QED
        BY <3>1, <3>2, StaysTraced
    <2>3. QED
      BY <2>1, <2>2
  <1>6. \A d \in damage' : d.part \in {"events", "silver"} =>
          IdsOf(d.content) \subseteq IdsOf(runs'[d.run].parts[d.part])
    <2> SUFFICES ASSUME NEW d \in damage, d.part \in {"events", "silver"}
                 PROVE  IdsOf(d.content) \subseteq IdsOf(runs'[d.run].parts[d.part])
      OBVIOUS
    <2>1. d.run \in 1..n
      BY <1>0 DEF TroubleFormed
    <2>2. runs'[d.run] = runs[d.run]
      BY <1>1, <2>1
    <2>3. QED
      BY <2>2 DEF TraceInv
  <1>7. QED
    BY <1>5, <1>6, TraceInvNext

-----------------------------------------------------------------------------
(* Files that are replaced.                                                *)

\* What comes in the place of events or rows has no other ids than they.
LEMMA ReplacementsKeepIds ==
  ASSUME NEW content \in Seq(Lines), content # <<>>, NEW c \in Replacements(content)
  PROVE  IdsOf(c) \subseteq IdsOf(content)
  <1> DEFINE first == content[1]
             a == [first EXCEPT !.bright = "above"]
             b == [first EXCEPT !.replay_sequence_number = 1]
             n == Len(content)
  <1>1. n \in Nat \ {0} /\ DOMAIN content = 1..n /\ first \in Lines
    OBVIOUS
  <1>2. a.event_id = first.event_id /\ b.event_id = first.event_id
    BY <1>1 DEF Lines
  <1>3. \/ c = Front(content) \/ c = ReplaceAt(content, n, first) \/ c = ReplaceAt(content, 1, a)
        \/ c = ReplaceAt(content, 1, b)
    BY DEF Replacements
  <1> HIDE DEF a, b, n
  <1>4. ASSUME NEW e, e.event_id = content[1].event_id, NEW i, c = ReplaceAt(content, i, e)
        PROVE  IdsOf(c) \subseteq IdsOf(content)
    <2>1. c = [content EXCEPT ![i] = e]
      BY <1>4 DEF ReplaceAt
    <2>2. DOMAIN c = DOMAIN content
      BY <2>1
    <2>3. ASSUME NEW k \in DOMAIN c
          PROVE  \E l \in DOMAIN content : c[k].event_id = content[l].event_id
      <3>1. CASE k = i
        BY <1>1, <1>4, <2>1, <2>2, <3>1
      <3>2. CASE k # i
        BY <2>1, <2>2, <3>2
      <3>3. QED
        BY <3>1, <3>2
    <2>4. QED
      BY <2>3 DEF IdsOf
  <1>5. ASSUME c = Front(content)
        PROVE  IdsOf(c) \subseteq IdsOf(content)
    <2> DEFINE m == n - 1
    <2>1. m \in Nat /\ m <= n /\ 1..m \subseteq 1..n
      BY <1>1
    <2>2. c = SubSeq(content, 1, m)
      BY <1>5 DEF Front, n
    <2> HIDE DEF m
    <2>3. DOMAIN c = 1..m /\ \A k \in 1..m : c[k] = content[k]
      BY <2>1, <2>2, FirstElements DEF n
    <2>4. QED
      BY <1>1, <2>1, <2>3 DEF IdsOf
  <1>6. QED
    BY <1>2, <1>3, <1>4, <1>5

\* Only Silver has rows.
LEMMA RowsAreOfSilver ==
  ASSUME NEW x, WellFormed(x), "silver" \in DOMAIN x.parts
  PROVE  x.stage = "silver"
  <1>1. PICK n \in 0..Len(PartsOf[x.stage]) : DOMAIN x.parts = InPlace(x.stage, n)
    BY DEF WellFormed, Written
  <1>2. x.stage \in Stages
    BY DEF WellFormed
  <1>3. PICK k \in 1..n : PartsOf[x.stage][k] = "silver"
    BY <1>1 DEF InPlace
  <1>4. k \in 1..Len(PartsOf[x.stage])
    BY <1>2, PartsAreFew
  <1>5. \A stage \in {"extraction", "selection", "replay"} : x.stage # stage
    <2>1. \A stage \in {"extraction", "selection", "replay"} :
            Len(PartsOf[stage]) = 1 /\ PartsOf[stage][1] # "silver"
      BY DEF PartsOf
    <2>2. QED
      BY <1>3, <1>4, <2>1
  <1>6. x.stage # "canonicalization"
    <2>1. PartsOf["canonicalization"] = <<"events", "rejected", "duplicates">>
      BY DEF PartsOf
    <2>2. QED
      BY <1>3, <1>4, <2>1
  <1>7. x.stage # "gold"
    <2>1. PartsOf["gold"] = <<"event_detail", "load_artifact">>
      BY DEF PartsOf
    <2>2. QED
      BY <1>3, <1>4, <2>1
  <1>8. QED
    BY <1>2, <1>5, <1>6, <1>7 DEF Stages

\* Events and rows are lines.
LEMMA TracedLines ==
  ASSUME RunsFormed, ContentInv, TraceInv, NEW r \in 1..Len(runs), NEW p \in {"events", "silver"},
         p \in DOMAIN runs[r].parts
  PROVE  runs[r].parts[p] \in Seq(Lines)
  <1>1. WellFormed(runs[r])
    BY DEF RunsFormed
  <1>2. CASE p = "events"
    <2>1. runs[r].stage \in FileStages /\ FilePart(runs[r].stage) = "events"
      BY <1>1, <1>2, FilesInPlace
    <2>2. runs[r].parts["events"] \in Seq(Elements(runs[r].stage))
      BY <1>2, <2>1 DEF ContentInv, Lasting, Typed
    <2>3. Elements(runs[r].stage) \in {Lines, OriginalLines}
      BY <2>1 DEF Elements, FilePart
    <2>4. QED
      BY <1>2, <2>2, <2>3, OriginalsAreLines
  <1>3. CASE p = "silver"
    <2>1. runs[r].stage = "silver"
      BY <1>1, <1>3, RowsAreOfSilver
    <2>2. Admitted(runs[r], runs[runs[r].src])
      BY DEF TraceInv, Traced
    <2>3. QED
      BY <1>3, <2>1, <2>2 DEF Admitted, Within
  <1>4. QED
    BY <1>2, <1>3

\* A file that has not been replaced holds what was put in place; one that has, the other
\* content.
LEMMA ContentIs ==
  ASSUME NEW r, NEW p
  PROVE  /\ (\A d \in damage : d.run # r \/ d.part # p) => Content(r, p) = runs[r].parts[p]
         /\ Content(r, p) = runs[r].parts[p]
              \/ \E d \in damage : d.run = r /\ d.part = p /\ Content(r, p) = d.content
  <1> DEFINE A == {d \in damage : d.run = r /\ d.part = p}
  <1>1. Content(r, p) = IF A = {} THEN runs[r].parts[p] ELSE (CHOOSE d \in A : TRUE).content
    BY DEF Content
  <1>2. ASSUME A # {} PROVE (CHOOSE d \in A : TRUE) \in A
    BY <1>2
  <1>3. QED
    BY <1>1, <1>2

\* When a file is replaced that had not been, it holds the other content.
LEMMA ReplacedContentIs ==
  ASSUME NEW r, NEW p, \A d \in damage : d.run # r \/ d.part # p,
         NEW d, d.run = r, d.part = p, damage' = damage \union {d}
  PROVE  Content(r, p)' = d.content
  <1> DEFINE B == {e \in damage' : e.run = r /\ e.part = p}
  <1>1. B = {d}
    OBVIOUS
  <1>2. Content(r, p)' = IF B = {} THEN runs'[r].parts[p] ELSE (CHOOSE e \in B : TRUE).content
    BY DEF Content
  <1> HIDE DEF B
  <1>3. QED
    BY <1>1, <1>2

\* The ids of what a file holds are among those of what was put in place.
LEMMA ContentKeepsIds ==
  ASSUME TraceInv, NEW r, NEW p \in {"events", "silver"}
  PROVE  IdsOf(Content(r, p)) \subseteq IdsOf(runs[r].parts[p])
  <1>1. CASE Content(r, p) = runs[r].parts[p]
    BY <1>1
  <1>2. ASSUME NEW d \in damage, d.run = r, d.part = p, Content(r, p) = d.content
        PROVE  IdsOf(Content(r, p)) \subseteq IdsOf(runs[r].parts[p])
    BY <1>2 DEF TraceInv
  <1>3. QED
    BY <1>1, <1>2, ContentIs

\* A run that reads the events of another does not mistake a replacement for them.
LEMMA ReplacementIsFound ==
  ASSUME NEW x, NEW s, NEW c, Traced(x, s, c, FALSE),
         NEW t, t.parts["events"] = s.parts["events"], c = s.parts["events"],
         NEW d, d # s.parts["events"]
  PROVE  Traced(x, t, d, TRUE)
  <1>1. Copied(x) /\ Admitted(x, t)
    BY DEF Traced, Admitted, Within
  <1>2. Found(x, d, TRUE)
    BY DEF Traced, Found
  <1>3. QED
    BY <1>1, <1>2 DEF Traced

\* The replacement of a file keeps the invariant.
LEMMA ReplacementTraced ==
  ASSUME RunsFormed, TroubleFormed, ContentInv, TraceInv,
         NEW r \in DOMAIN runs, NEW p \in DOMAIN runs[r].parts, Damage(r, p)
  PROVE  TraceInv'
  <1>0. DOMAIN runs = 1..Len(runs) /\ r \in 1..Len(runs) /\ Len(runs) \in Nat
    BY DEF RunsFormed
  <1>1. PICK content \in Replacements(runs[r].parts[p]) \ {runs[r].parts[p]} :
          damage' = damage \union {[run |-> r, part |-> p, content |-> content]}
    BY DEF Damage
  <1>2. PICK d : d = [run |-> r, part |-> p, content |-> content]
    OBVIOUS
  <1>3. /\ d.run = r /\ d.part = p /\ d.content = content
        /\ damage' = damage \union {d}
        /\ \A e \in damage : e.run # r \/ e.part # p
        /\ runs[r].parts[p] # <<>>
    BY <1>1, <1>2 DEF Damage
  <1>4. /\ Len(runs') = Len(runs)
        /\ \A q \in 1..Len(runs) : runs'[q] \in {runs[q], Raced(runs[q])}
    <2>1. CASE runs' = runs
      BY <2>1
    <2>2. CASE ~ Idle /\ runs' = [runs EXCEPT ![Len(runs)] = Raced(runs[Len(runs)])]
      <3>1. Len(runs) \in 1..Len(runs) /\ \E S : runs \in Seq(S)
        BY <2>2, JobIsLast DEF RunsFormed
      <3>2. QED
        BY <2>2, <3>1, ReplaceRun
    <2>3. QED
      BY <2>1, <2>2, ReplacementIs
  <1>5. ASSUME NEW q \in 1..Len(runs)
        PROVE  /\ runs'[q].parts = runs[q].parts /\ runs'[q].src = runs[q].src
               /\ \A s, c, u : Traced(runs[q], s, c, u) => Traced(runs'[q], s, c, u)
    <2>1. WellFormed(runs[q])
      BY DEF RunsFormed
    <2>2. CASE runs'[q] = runs[q]
      BY <2>2
    <2>3. CASE runs'[q] = Raced(runs[q])
      BY <2>1, <2>3, RacedKeepsForm, RacedIsTraced
    <2>4. QED
      BY <1>4, <2>2, <2>3
  <1>6. ASSUME NEW q \in 1..Len(runs')
        PROVE  \E j : /\ j = runs'[q].src
                      /\ Traced(runs'[q], runs'[j], Content(j, "events")', Replaced(j)')
    <2>0. q \in 1..Len(runs)
      BY <1>4
    <2>1. PICK j : j = runs[q].src
      OBVIOUS
    <2>2. j \in Nat /\ j < q /\ (runs[q].stage = "replay" => j # 0)
      BY <2>0, <2>1 DEF RunsFormed, WellFormed, ContentInv, Lasting, Sourced
    <2>3. Traced(runs[q], runs[j], Content(j, "events"), Replaced(j))
      BY <2>0, <2>1 DEF TraceInv
    <2>4. j = runs'[q].src
      BY <1>5, <2>0, <2>1
    <2>5. CASE j = 0
      <3>1. Traced(runs[q], runs'[j], Content(j, "events")', Replaced(j)')
        BY <2>1, <2>2, <2>3, <2>5, NoSourceToTrace
      <3>2. Traced(runs'[q], runs'[j], Content(j, "events")', Replaced(j)')
        BY <1>5, <2>0, <3>1
      <3>3. QED
        BY <2>4, <3>2
    <2>6. CASE j # 0 /\ j = r /\ p = "events"
      <3>1. j \in 1..Len(runs) /\ runs'[j].parts = runs[j].parts
        BY <1>0, <1>5, <2>6
      <3>2. Content(j, "events")' = content /\ content # runs[j].parts["events"]
        BY <1>1, <1>3, <2>6, ReplacedContentIs
      <3>3. Content(j, "events") = runs[j].parts["events"]
        BY <1>3, <2>6, ContentIs
      <3>4. (Replaced(j) <=> FALSE) /\ (Replaced(j)' <=> TRUE)
        BY <1>3, <2>6 DEF Replaced
      <3>5. Traced(runs[q], runs[j], Content(j, "events"), FALSE)
        BY <2>3, <3>4 DEF Traced, Found
      <3>6. Traced(runs[q], runs'[j], content, TRUE)
        BY <3>1, <3>2, <3>3, <3>5, ReplacementIsFound
      <3>7. Traced(runs'[q], runs'[j], content, TRUE)
        BY <1>5, <2>0, <3>6
      <3>8. Traced(runs'[q], runs'[j], Content(j, "events")', Replaced(j)')
        BY <3>2, <3>4, <3>7 DEF Traced, Found
      <3>9. QED
        BY <2>4, <3>8
    <2>7. CASE j # 0 /\ (j # r \/ p # "events")
      <3>1. j \in 1..Len(runs) /\ runs'[j].parts = runs[j].parts
        BY <1>0, <1>5, <2>0, <2>2, <2>7
      <3>2. Content(j, "events")' = Content(j, "events")
        BY <1>3, <2>7, <3>1, OtherContentStays
      <3>3. Replaced(j)' <=> Replaced(j)
        BY <1>3, <2>7 DEF Replaced
      <3>4. Traced(runs[q], runs'[j], Content(j, "events"), Replaced(j))
        BY <2>3, <3>1 DEF Traced, Admitted, Within
      <3>5. Traced(runs'[q], runs'[j], Content(j, "events"), Replaced(j))
        BY <1>5, <2>0, <3>4
      <3>6. Traced(runs'[q], runs'[j], Content(j, "events")', Replaced(j)')
        BY <3>2, <3>3, <3>5 DEF Traced, Found
      <3>7. QED
        BY <2>4, <3>6
    <2>8. QED
      BY <2>5, <2>6, <2>7
  <1>7. \A e \in damage' : e.part \in {"events", "silver"} =>
          IdsOf(e.content) \subseteq IdsOf(runs'[e.run].parts[e.part])
    <2> SUFFICES ASSUME NEW e \in damage', e.part \in {"events", "silver"}
                 PROVE  IdsOf(e.content) \subseteq IdsOf(runs'[e.run].parts[e.part])
      OBVIOUS
    <2>1. CASE e = d
      <3>1. p \in {"events", "silver"} /\ runs'[r].parts = runs[r].parts
        BY <1>0, <1>3, <1>5, <2>1
      <3>2. runs[r].parts[p] \in Seq(Lines)
        BY <1>0, <3>1, TracedLines
      <3>3. IdsOf(content) \subseteq IdsOf(runs[r].parts[p])
        BY <1>1, <1>3, <3>2, ReplacementsKeepIds
      <3>4. QED
        BY <1>3, <2>1, <3>1, <3>3
    <2>2. CASE e \in damage
      <3>1. e.run \in 1..Len(runs)
        BY <2>2 DEF TroubleFormed
      <3>2. runs'[e.run].parts = runs[e.run].parts
        BY <1>5, <3>1
      <3>3. QED
        BY <2>2, <3>2 DEF TraceInv
    <2>3. QED
      BY <1>3, <2>1, <2>2
  <1>8. QED
    BY <1>6, <1>7, TraceInvNext

-----------------------------------------------------------------------------
(* What each stage does leaves its run traced.                             *)

\* The run in work goes on as y, and with its trace.
TracedAs(y) ==
  /\ Moves(job, y)
  /\ Traced(y, runs[job.src], Content(job.src, "events"), Replaced(job.src))

\* A step of the run in work leaves it traced.
GoesOnTraced == ~ Idle /\ \E y : runs' = [runs EXCEPT ![Len(runs)] = y] /\ TracedAs(y)

\* What the invariants say of the run in work.
LEMMA JobIsTraced ==
  ASSUME RunsFormed, ContentInv, TraceInv, ~ Idle
  PROVE  /\ WellFormed(job) /\ job.status = "NONE"
         /\ Traced(job, runs[job.src], Content(job.src, "events"), Replaced(job.src))
         /\ job.pc \in {"check", "read"} => DOMAIN job.parts = {}
         /\ job.stage = "replay" /\ job.pc = "read" => job.from \in Seq(OriginalLines)
  <1>1. /\ job = runs[Len(runs)] /\ WellFormed(job) /\ job.status = "NONE"
        /\ job.pc \in {"check", "read"} => DOMAIN job.parts = {}
    BY JobFacts
  <1>2. Len(runs) \in 1..Len(runs)
    BY JobIsLast
  <1>3. Traced(job, runs[job.src], Content(job.src, "events"), Replaced(job.src))
    BY <1>1, <1>2 DEF TraceInv
  <1>4. QED
    BY <1>1, <1>3 DEF Traced, Copied

\* Ending without success leaves a run traced.
LEMMA TracedAtEnd ==
  ASSUME RunsFormed, ContentInv, TraceInv, ~ Idle, NEW status \in {"NONE", "FAILED"}
  PROVE  TracedAs(End(status))
  <1> DEFINE y == End(status)
             s == runs[job.src]
             c == Content(job.src, "events")
             p == Replaced(job.src)
  <1>1. WellFormed(job) /\ Traced(job, s, c, p)
    BY JobIsTraced
  <1>2. Becomes(job, y, "ended", job.from, job.input, job.out, job.parts, status, job.recorded)
    BY <1>1, EndIs
  <1>3. Moves(job, y)
    BY <1>1, EndMoves
  <1> HIDE DEF y, s, c, p
  <1>4. job.stage = "silver" /\ "silver" \in DOMAIN job.parts => Within(job.parts["silver"], job, s)
    BY <1>1 DEF Traced, Admitted
  <1>5. status # "SUCCEEDED" /\ "ended" \in {"ended", "crashed"}
    OBVIOUS
  <1>6. Traced(y, s, c, p)
    BY <1>1, <1>2, <1>4, <1>5, GivesUpTraced
  <1>7. QED
    BY <1>3, <1>6 DEF TracedAs, y, s, c, p

\* The steps of a replay leave it traced.
LEMMA ReplayTraced ==
  ASSUME RunsFormed, ContentInv, TraceInv, CheckReplaySource \/ GenerateReplay \/ PublishReplay
  PROVE  GoesOnTraced
  <1> DEFINE s == runs[job.src]
             c == Content(job.src, "events")
             p == Replaced(job.src)
  <1>0. ~ Idle /\ job.stage = "replay"
    BY DEF CheckReplaySource, GenerateReplay, PublishReplay, At
  <1>1. /\ WellFormed(job) /\ job.status = "NONE" /\ Traced(job, s, c, p)
        /\ job.pc \in {"check", "read"} => DOMAIN job.parts = {}
    BY <1>0, JobIsTraced
  <1>2. Source = c /\ c \in Seq(OriginalLines)
    <2>1. ReadsPart["replay"] = "events"
      BY DEF ReadsPart
    <2>2. Source = c
      BY <1>0, <2>1 DEF Source
    <2>3. Source \in Seq(OriginalLines)
      BY <1>0, SourceTyped
    <2>4. QED
      BY <2>2, <2>3
  <1>3. TracedAs(ReplayFailed)
    BY <1>0, TracedAtEnd DEF ReplayFailed
  <1>4. CASE CheckReplaySource
    <2> DEFINE z == [job EXCEPT !.pc = "read"]
               y == IF Source = job.from THEN z ELSE ReplayFailed
    <2>1. job.pc = "check" /\ Step(y)
      BY <1>4 DEF CheckReplaySource, At
    <2>2. Becomes(job, z, "read", job.from, job.input, job.out, job.parts, job.status, job.recorded)
      BY <1>1, TurnIs
    <2>3. Moves(job, z)
      BY <1>1, <2>1, ReadMoves
    <2> HIDE DEF z
    <2>4. ASSUME Source = job.from PROVE TracedAs(z)
      <3> HIDE DEF s, c, p
      <3>1. Traced(z, s, c, p)
        BY <1>0, <1>1, <1>2, <2>1, <2>2, <2>4, ChecksTraced
      <3>2. QED
        BY <2>3, <3>1 DEF TracedAs, s, c, p
    <2>5. TracedAs(y)
      BY <1>3, <2>4
    <2> HIDE DEF y
    <2>6. QED
      BY <1>0, <2>1, <2>5 DEF GoesOnTraced, Step
  <1>5. CASE GenerateReplay
    <2> DEFINE n == Len(job.from)
               events == Replayed(SortedById(Source), n)
               b == AreOriginals(Source, n) /\ Len(events) = n * Factor /\ DistinctIds(events)
               o == [events |-> events]
               z == Computed(Source, o)
               y == IF b THEN z ELSE ReplayFailed
    <2>1. job.pc = "read" /\ Step(y)
      BY <1>5 DEF GenerateReplay, At
    <2>2. Becomes(job, z, "write", job.from, Source, o, job.parts, job.status, job.recorded)
      BY <1>1, WriteIs
    <2>3. Moves(job, z)
      BY <1>1, <2>1, ComputedMoves
    <2>4. o["events"] = Replayed(SortedById(c), Len(job.from))
      BY <1>2
    <2>5. ASSUME b PROVE TracedAs(z)
      <3>1. AreOriginals(c, Len(job.from)) /\ DistinctIds(o["events"])
        BY <1>2, <2>5
      <3>2. Becomes(job, z, "write", job.from, c, o, job.parts, job.status, job.recorded)
        BY <1>2, <2>2
      <3> HIDE DEF s, c, p, z, o
      <3>3. Traced(z, s, c, p)
        BY <1>0, <1>1, <1>2, <2>1, <2>4, <3>1, <3>2, GeneratesTraced
      <3>4. QED
        BY <2>3, <3>3 DEF TracedAs, s, c, p
    <2>6. TracedAs(y)
      <3> HIDE DEF z, b
      <3>1. QED
        BY <1>3, <2>5
    <2> HIDE DEF y
    <2>7. QED
      BY <1>0, <2>1, <2>6 DEF GoesOnTraced, Step
  <1>6. CASE PublishReplay
    <2> DEFINE z == Published(job.from, job.out)
    <2>1. job.pc = "publish" /\ Step(z)
      BY <1>6 DEF PublishReplay, At
    <2>2. Becomes(job, z, "ended", job.from, job.input, job.out, job.parts, "SUCCEEDED", job.out)
      BY <1>1, EndIs
    <2>3. Moves(job, z)
      BY <1>1, <2>1, PublishedMoves
    <2> HIDE DEF z, s, c, p
    <2>4. Traced(z, s, c, p)
      BY <1>0, <1>1, <2>1, <2>2, PublishesTraced
    <2>5. TracedAs(z)
      BY <2>3, <2>4 DEF TracedAs, s, c, p
    <2>6. QED
      BY <1>0, <2>1, <2>5 DEF GoesOnTraced, Step
  <1>7. QED
    BY <1>4, <1>5, <1>6

\* A file that lists lines has no ids but theirs.
LEMMA ListedIds ==
  ASSUME NEW o, NEW lines \in Seq(Lines), NEW first, NEW q,
         IsListing(o, lines, Group(lines, first, q))
  PROVE  o \in Seq(Lines) /\ IdsOf(o) \subseteq IdsOf(lines)
  <1>1. o \in Seq(Lines)
    BY DEF IsListing
  <1>2. PICK ks \in Bijection(1..Len(o), Group(lines, first, q)) :
          \A i \in 1..Len(o) : o[i] = lines[ks[i]]
    BY DEF IsListing
  <1>3. \A i \in 1..Len(o) : ks[i] \in DOMAIN lines
    BY <1>2 DEF Bijection, Injection, Surjection, IsInjective, Group
  <1>4. DOMAIN o = 1..Len(o)
    BY <1>1
  <1>5. QED
    BY <1>1, <1>2, <1>3, <1>4 DEF IdsOf

\* The accepted rows are within what was read.
LEMMA ClassifiedWithin ==
  ASSUME RunsFormed, ContentInv, TraceInv, ~ Idle, job.stage = "silver", job.pc = "read",
         NEW first
  PROVE  Within(Classified(InputFile, first)["silver"], job, runs[job.src])
  <1>1. InputFile \in Seq(Lines)
    BY SourceTyped
  <1>2. IsListing(Classified(InputFile, first)["silver"], InputFile,
          Group(InputFile, first, "silver"))
    BY <1>1, GroupsAreListed DEF OutcomesOf
  <1> DEFINE o == Classified(InputFile, first)["silver"]
  <1>3. o \in Seq(Lines) /\ IdsOf(o) \subseteq IdsOf(InputFile)
    BY <1>1, <1>2, ListedIds
  <1> HIDE DEF o
  <1>4. ASSUME job.src # 0
        PROVE  IdsOf(InputFile) \subseteq IdsOf(runs[job.src].parts["events"])
    <2>1. ReadsPart["silver"] = "events"
      BY DEF ReadsPart
    <2>2. InputFile = Content(job.src, "events")
      BY <1>4, <2>1 DEF InputFile, Source
    <2>3. QED
      BY <2>2, ContentKeepsIds
  <1>5. QED
    BY <1>3, <1>4 DEF Within, o

\* Rows that are put in place are within, if those computed are.
LEMMA PutWithin ==
  ASSUME NEW x, NEW s, Admitted(x, s), x.stage = "silver", x.pc = "write", NEW part, NEW content,
         part = "silver" => Within(content, x, s),
         NEW parts, parts = WithPart(x.parts, part, content), "silver" \in DOMAIN parts
  PROVE  Within(parts["silver"], x, s)
  <1>1. CASE part = "silver"
    BY <1>1 DEF WithPart
  <1>2. CASE part # "silver"
    <2>1. "silver" \in DOMAIN x.parts /\ parts["silver"] = x.parts["silver"]
      BY <1>2 DEF WithPart
    <2>2. QED
      BY <2>1 DEF Admitted
  <1>3. QED
    BY <1>1, <1>2

\* The steps of Silver leave it traced.
LEMMA SilverWorkTraced ==
  ASSUME RunsFormed, ContentInv, TraceInv, Classify \/ PublishSilver
  PROVE  GoesOnTraced
  <1> DEFINE s == runs[job.src]
             c == Content(job.src, "events")
             p == Replaced(job.src)
  <1>0. ~ Idle /\ job.stage = "silver"
    BY DEF Classify, PublishSilver, At
  <1>1. /\ WellFormed(job) /\ Traced(job, s, c, p)
        /\ job.pc \in {"check", "read"} => DOMAIN job.parts = {}
    BY <1>0, JobIsTraced
  <1>2. CASE Classify
    <2>1. PICK first \in Numberings(InputFile) :
                 Step(Computed(InputFile, Classified(InputFile, first)))
      BY <1>2 DEF Classify
    <2>2. job.pc = "read"
      BY <1>2 DEF Classify, At
    <2> DEFINE o == Classified(InputFile, first)
               z == Computed(InputFile, o)
    <2>3. Within(o["silver"], job, s)
      BY <1>0, <2>2, ClassifiedWithin
    <2>4. Becomes(job, z, "write", job.from, InputFile, o, job.parts, job.status, job.recorded)
      BY <1>1, WriteIs
    <2>5. Moves(job, z)
      BY <1>1, <2>2, ComputedMoves
    <2>6. Step(z)
      BY <2>1
    <2>7. "silver" \notin DOMAIN job.parts
      BY <1>1, <2>2
    <2> HIDE DEF z, o, s, c, p
    <2>8. Traced(z, s, c, p)
      BY <1>0, <1>1, <2>3, <2>4, <2>7, SilverTraced
    <2>9. TracedAs(z)
      BY <2>5, <2>8 DEF TracedAs, s, c, p
    <2>10. QED
      BY <1>0, <2>6, <2>9 DEF GoesOnTraced, Step
  <1>3. CASE PublishSilver
    <2> DEFINE none == [q \in {} |-> <<>>]
               z == Published(InputFile, none)
               b == /\ job.out["silver"] # <<>>
                    /\ \A q \in DOMAIN job.parts : Len(Content(Len(runs), q)) = Len(job.out[q])
               y == IF b THEN z ELSE SilverFailed
    <2>1. job.pc = "publish" /\ Step(y)
      BY <1>3 DEF PublishSilver, At
    <2>2. TracedAs(SilverFailed)
      BY <1>0, TracedAtEnd DEF SilverFailed
    <2>3. TracedAs(z)
      <3> HIDE DEF none
      <3>1. Becomes(job, z, "ended", InputFile, job.input, job.out, job.parts, "SUCCEEDED", none)
        BY <1>1, EndIs
      <3>2. Moves(job, z)
        BY <1>1, <2>1, PublishedMoves
      <3> HIDE DEF z, s, c, p
      <3>3. /\ Within(job.out["silver"], job, s)
            /\ "silver" \in DOMAIN job.parts => Within(job.parts["silver"], job, s)
        BY <1>0, <1>1, <2>1 DEF Traced, Admitted, Worked
      <3>4. Traced(z, s, c, p)
        BY <1>0, <1>1, <3>1, <3>3, SilverTraced
      <3>5. QED
        BY <3>2, <3>4 DEF TracedAs, s, c, p
    <2>4. TracedAs(y)
      <3> HIDE DEF z, b
      <3>1. QED
        BY <2>2, <2>3
    <2> HIDE DEF y
    <2>5. QED
      BY <1>0, <2>1, <2>4 DEF GoesOnTraced, Step
  <1>4. QED
    BY <1>2, <1>3

\* So does putting a part in place.
LEMMA PuttingTraced ==
  ASSUME RunsFormed, ContentInv, TraceInv, WritePart, job.stage \in {"replay", "silver"}
  PROVE  GoesOnTraced
  <1> DEFINE s == runs[job.src]
             c == Content(job.src, "events")
             p == Replaced(job.src)
             content == job.out[NextPart]
             z == Put(content)
             parts == WithPart(job.parts, NextPart, content)
  <1>0. ~ Idle /\ job.pc = "write" /\ Step(z)
    BY DEF WritePart
  <1>1. WellFormed(job) /\ job.status = "NONE" /\ Traced(job, s, c, p)
    BY <1>0, JobIsTraced
  <1>2. Moves(job, z)
    BY <1>0, <1>1, PutMoves
  <1>3. PICK pc \in {"write", "publish"} :
          Becomes(job, z, pc, job.from, job.input, job.out, parts, job.status, job.recorded)
    BY <1>1, WriteIs
  <1>4. CASE job.stage = "replay"
    <2>1. NextPart = "events"
      <3>1. PartsOf["replay"] = <<"events">>
        BY DEF PartsOf
      <3>2. PICK n \in 0..(Len(PartsOf[job.stage]) - 1) : Cardinality(DOMAIN job.parts) = n
        BY <1>0, <1>1, OnePartMore
      <3>3. n = 0
        BY <1>4, <3>1, <3>2
      <3>4. QED
        BY <1>4, <3>1, <3>2, <3>3 DEF NextPart
    <2>2. parts["events"] = job.out["events"]
      BY <2>1 DEF WithPart
    <2> HIDE DEF z, s, c, p, parts
    <2>3. Traced(z, s, c, p)
      BY <1>0, <1>1, <1>3, <1>4, <2>2, ReplayPutsTraced
    <2>4. TracedAs(z)
      BY <1>2, <2>3 DEF TracedAs, s, c, p
    <2>5. QED
      BY <1>0, <2>4 DEF GoesOnTraced, Step
  <1>5. CASE job.stage = "silver"
    <2>1. Within(job.out["silver"], job, s) /\ Admitted(job, s)
      BY <1>0, <1>1, <1>5 DEF Traced, Admitted, Worked
    <2>2. NextPart = "silver" => Within(content, job, s)
      BY <2>1
    <2> HIDE DEF z, s, c, p, content
    <2>3. "silver" \in DOMAIN parts => Within(parts["silver"], job, s)
      BY <1>0, <1>5, <2>1, <2>2, PutWithin
    <2> HIDE DEF parts
    <2>4. Traced(z, s, c, p)
      BY <1>1, <1>3, <1>5, <2>1, <2>3, SilverTraced
    <2>5. TracedAs(z)
      BY <1>2, <2>4 DEF TracedAs, s, c, p
    <2>6. QED
      BY <1>0, <2>5 DEF GoesOnTraced, Step
  <1>6. QED
    BY <1>4, <1>5

-----------------------------------------------------------------------------
(* Every step, and every run.                                              *)

\* Whatever a stage does, its run stays traced.
LEMMA WorkTraced ==
  ASSUME RunsFormed, ContentInv, TraceInv, Work
  PROVE  GoesOnTraced /\ UNCHANGED damage
  <1>0. LastMoves /\ UNCHANGED damage
    BY WorkMoves
  <1>1. CASE job.stage \notin {"replay", "silver"}
    <2>1. PICK y : Moves(job, y) /\ runs' = [runs EXCEPT ![Len(runs)] = y]
      BY <1>0 DEF LastMoves
    <2>2. y.stage = job.stage /\ ~ Idle
      BY <1>0, <2>1 DEF Moves, SameRun, LastMoves
    <2>3. TracedAs(y)
      BY <1>1, <2>1, <2>2, OthersNeedNoTrace DEF TracedAs
    <2>4. QED
      BY <1>0, <2>1, <2>2, <2>3 DEF GoesOnTraced
  <1>2. CASE job.stage \in {"replay", "silver"}
    <2>1. \/ WritePart \/ CheckReplaySource \/ GenerateReplay \/ PublishReplay
          \/ Classify \/ PublishSilver
      BY <1>2 DEF Work, RequestCsv, RetryableError, Retry, FinalError, Receive,
                  PublishExtraction, CheckSource, ReadRows, PublishCanonical,
                  CheckSelection, PublishSelection, CheckSilver, WriteGold, PublishGold, At
    <2>2. QED
      BY <1>0, <1>2, <2>1, PuttingTraced, ReplayTraced, SilverWorkTraced
  <1>3. QED
    BY <1>1, <1>2

\* What an exception or a crash leaves of the rows is within.
LEMMA LeftoversWithin ==
  ASSUME RunsFormed, ContentInv, TraceInv, ~ Idle, job.stage = "silver", NEW left \in Leftovers,
         "silver" \in DOMAIN left
  PROVE  Within(left["silver"], job, runs[job.src])
  <1> DEFINE s == runs[job.src]
  <1>1. Admitted(job, s)
    BY JobIsTraced DEF Traced
  <1> HIDE DEF s
  <1>2. CASE left = job.parts
    BY <1>1, <1>2 DEF Admitted, s
  <1>3. CASE left # job.parts
    <2>1. job.pc = "write"
      BY <1>3, FilesAreWhole
    <2> DEFINE out == job.out[NextPart]
    <2>2. PICK n \in 1..(Len(out) - 1) : left = WithPart(job.parts, NextPart, SubSeq(out, 1, n))
      BY <1>3 DEF Leftovers
    <2> DEFINE content == SubSeq(out, 1, n)
    <2>3. ASSUME NextPart = "silver" PROVE Within(content, job, s)
      <3>1. Within(out, job, s)
        BY <1>1, <2>1, <2>3 DEF Admitted, Worked
      <3>2. out \in Seq(Lines)
        BY <3>1 DEF Within
      <3> HIDE DEF out
      <3>3. n \in Nat /\ n <= Len(out)
        BY <3>2
      <3>4. content \in Seq(Lines) /\ DOMAIN content = 1..n /\ \A k \in 1..n : content[k] = out[k]
        BY <3>2, <3>3, FirstElements
      <3>5. DOMAIN out = 1..Len(out) /\ Len(out) \in Nat
        BY <3>2
      <3> HIDE DEF content
      <3>6. IdsOf(content) \subseteq IdsOf(out)
        BY <3>3, <3>4, <3>5 DEF IdsOf
      <3>7. QED
        BY <3>1, <3>4, <3>6 DEF Within
    <2>4. left = WithPart(job.parts, NextPart, content)
      BY <2>2
    <2> HIDE DEF content
    <2>5. QED
      BY <1>1, <2>1, <2>3, <2>4, PutWithin DEF s
  <1>4. QED
    BY <1>2, <1>3

\* An exception or a crash leaves the run traced.
LEMMA TroubleTraced ==
  ASSUME RunsFormed, ContentInv, TraceInv, Exception \/ Crash
  PROVE  GoesOnTraced /\ UNCHANGED damage
  <1> DEFINE s == runs[job.src]
             c == Content(job.src, "events")
             p == Replaced(job.src)
  <1>0. ~ Idle /\ UNCHANGED damage
    BY DEF Exception, Crash
  <1>1. WellFormed(job) /\ job.status = "NONE" /\ Traced(job, s, c, p)
    BY <1>0, JobIsTraced
  <1>2. PICK left \in Leftovers :
          \/ runs' = [runs EXCEPT ![Len(runs)] = [Failed EXCEPT !.parts = left]]
          \/ runs' = [runs EXCEPT ![Len(runs)] = [job EXCEPT !.pc = "crashed", !.parts = left]]
    BY DEF Exception, Crash
  <1>3. ASSUME NEW y, Moves(job, y), NEW pc \in {"ended", "crashed"}, NEW status,
               status # "SUCCEEDED", job.stage \in {"replay", "silver"} =>
               Becomes(job, y, pc, job.from, job.input, job.out, left, status, job.recorded)
        PROVE  TracedAs(y)
    <2>1. CASE job.stage \notin {"replay", "silver"}
      <3>1. y.stage = job.stage
        BY <1>3 DEF Moves, SameRun
      <3>2. QED
        BY <1>3, <2>1, <3>1, OthersNeedNoTrace DEF TracedAs
    <2>2. CASE job.stage \in {"replay", "silver"}
      <3>1. job.stage = "replay" => left = job.parts
        BY FilesAreWhole DEF FileStages
      <3>2. job.stage = "silver" /\ "silver" \in DOMAIN left => Within(left["silver"], job, s)
        BY <1>0, LeftoversWithin
      <3> HIDE DEF s, c, p
      <3>3. Traced(y, s, c, p)
        BY <1>1, <1>3, <2>2, <3>1, <3>2, GivesUpTraced
      <3>4. QED
        BY <1>3, <3>3 DEF TracedAs, s, c, p
    <2>3. QED
      BY <2>1, <2>2
  <1>4. TracedAs([Failed EXCEPT !.parts = left])
    <2> DEFINE y == [Failed EXCEPT !.parts = left]
               status == IF job.stage = "replay" THEN "FAILED" ELSE "NONE"
    <2>1. Moves(job, y)
      BY <1>1, TroubleMoves
    <2>2. ASSUME job.stage \in {"replay", "silver"} PROVE Failed = End(status)
      <3>1. CASE job.stage = "replay"
        BY <3>1 DEF Failed, ReplayFailed
      <3>2. CASE job.stage = "silver"
        BY <3>2 DEF Failed, SilverFailed
      <3>3. QED
        BY <2>2, <3>1, <3>2
    <2>3. status # "SUCCEEDED"
      OBVIOUS
    <2> HIDE DEF status
    <2>4. Becomes(job, [End(status) EXCEPT !.parts = left], "ended", job.from, job.input,
            job.out, left, status, job.recorded)
      BY <1>1, EndIs
    <2>5. job.stage \in {"replay", "silver"} =>
            Becomes(job, y, "ended", job.from, job.input, job.out, left, status, job.recorded)
      BY <2>2, <2>4
    <2> HIDE DEF y
    <2>6. QED
      BY <1>3, <2>1, <2>3, <2>5 DEF y
  <1>5. TracedAs([job EXCEPT !.pc = "crashed", !.parts = left])
    <2> DEFINE y == [job EXCEPT !.pc = "crashed", !.parts = left]
    <2>1. Moves(job, y)
      BY <1>1, TroubleMoves
    <2>2. Becomes(job, y, "crashed", job.from, job.input, job.out, left, job.status, job.recorded)
      BY <1>1, EndIs
    <2> HIDE DEF y
    <2>3. job.status # "SUCCEEDED"
      BY <1>1
    <2>4. QED
      BY <1>3, <2>1, <2>2, <2>3 DEF y
  <1>6. QED
    BY <1>0, <1>2, <1>4, <1>5 DEF GoesOnTraced

\* A replay begins with a checksum of something.
LEMMA StartTraced ==
  ASSUME RunsFormed, TroubleFormed, ContentInv, TraceInv, Start
  PROVE  TraceInv'
  <1>1. /\ UNCHANGED damage
        /\ \E y : Fresh(y, Len(runs) + 1) /\ Knows(y) /\ runs' = Append(runs, y)
    BY StartKnows
  <1>2. PICK y : Fresh(y, Len(runs) + 1) /\ Knows(y) /\ runs' = Append(runs, y)
    BY <1>1
  <1>3. PICK n : n = Len(runs) + 1
    OBVIOUS
  <1>4. runs'[n] = y
    BY <1>2, <1>3, AppendRun DEF RunsFormed
  <1>5. ASSUME NEW z, Begin(z) PROVE y = z
    <2>1. runs' = Append(runs, z)
      BY <1>5 DEF Begin
    <2>2. runs'[n] = z
      BY <1>3, <2>1, AppendRun DEF RunsFormed
    <2>3. QED
      BY <1>4, <2>2
  <1>6. ASSUME y.stage = "replay" PROVE y.from # <<>>
    <2>1. ASSUME NEW src, Generate(src) PROVE y.from # <<>>
      <3> DEFINE from == runs[src].recorded["events"]
                 z == [NewRun("replay", src, "check") EXCEPT !.from = from]
      <3>1. z.from = from
        BY NewRunIs
      <3>2. Begin(z) /\ from # <<>>
        BY <2>1 DEF Generate
      <3> HIDE DEF z, from
      <3>3. QED
        BY <1>5, <3>1, <3>2
    <2>2. ASSUME NEW stage, stage # "replay", NEW src, NEW pc, NEW from,
                 \/ Begin(NewRun(stage, src, pc))
                 \/ Begin([NewRun(stage, src, pc) EXCEPT !.from = from])
          PROVE  FALSE
      <3> DEFINE w == NewRun(stage, src, pc)
                 z == [NewRun(stage, src, pc) EXCEPT !.from = from]
      <3>1. w.stage = stage /\ z.stage = stage
        BY NewRunIs
      <3> HIDE DEF w, z
      <3>2. QED
        BY <1>5, <1>6, <2>2, <3>1 DEF w, z
    <2>3. ~ Extract
      BY <2>2 DEF Extract
    <2>4. ASSUME NEW src \in DOMAIN runs
          PROVE  ~ (Canonicalize(src) \/ Select(src) \/ ProcessBatch(src) \/ BuildGold(src))
      <3>1. ~ Canonicalize(src)
        BY <2>2 DEF Canonicalize
      <3>2. ~ Select(src)
        BY <2>2 DEF Select
      <3>3. ~ ProcessBatch(src) /\ ~ BuildGold(src)
        BY <2>2 DEF ProcessBatch, BuildGold
      <3>4. QED
        BY <3>1, <3>2, <3>3
    <2>5. \A file \in HandMade : ~ ProcessHandMade(file)
      BY <2>2 DEF ProcessHandMade
    <2>6. \E src \in DOMAIN runs : Generate(src)
      BY <2>3, <2>4, <2>5 DEF Start
    <2>7. QED
      BY <2>1, <2>6
  <1>7. QED
    BY <1>1, <1>2, <1>6, BeginningTraced

\* Every step keeps the invariant of the verifiers.
LEMMA TraceStep == LakeInv /\ ContentInv /\ TraceInv /\ [Next]_vars => TraceInv'
  <1> SUFFICES ASSUME LakeInv, ContentInv, TraceInv, [Next]_vars PROVE TraceInv'
    OBVIOUS
  <1>1. RunsFormed /\ TroubleFormed
    BY DEF LakeInv
  <1>2. CASE Start
    BY <1>1, <1>2, StartTraced
  <1>3. ASSUME GoesOnTraced, UNCHANGED damage PROVE TraceInv'
    <2>1. PICK y : runs' = [runs EXCEPT ![Len(runs)] = y] /\ TracedAs(y)
      BY <1>3 DEF GoesOnTraced
    <2>2. ~ Idle /\ UNCHANGED damage
      BY <1>3 DEF GoesOnTraced
    <2>3. /\ Moves(job, y)
          /\ Traced(y, runs[job.src], Content(job.src, "events"), Replaced(job.src))
      BY <2>1 DEF TracedAs
    <2>4. QED
      BY <1>1, <2>1, <2>2, <2>3, GoingOnTraced
  <1>4. CASE Work
    BY <1>1, <1>3, <1>4, WorkTraced
  <1>5. CASE Exception \/ Crash
    BY <1>1, <1>3, <1>5, TroubleTraced
  <1>6. CASE \E r \in DOMAIN runs : \E p \in DOMAIN runs[r].parts : Damage(r, p)
    BY <1>1, <1>6, ReplacementTraced
  <1>7. CASE UNCHANGED vars
    <2>1. runs' = runs /\ damage' = damage
      BY <1>7 DEF vars
    <2>2. ASSUME NEW r \in 1..Len(runs')
          PROVE  \E i : /\ i = runs'[r].src
                        /\ Traced(runs'[r], runs'[i], Content(i, "events")', Replaced(i)')
      BY <1>1, <2>1, StaysTraced
    <2>3. \A d \in damage' : d.part \in {"events", "silver"} =>
            IdsOf(d.content) \subseteq IdsOf(runs'[d.run].parts[d.part])
      BY <2>1 DEF TraceInv
    <2>4. QED
      BY <2>2, <2>3, TraceInvNext
  <1>8. QED
    BY <1>2, <1>4, <1>5, <1>6, <1>7 DEF Next, Rest

\* There is nothing to trace in the empty lake.
LEMMA TraceInitially == Init => TraceInv
  <1> SUFFICES ASSUME Init PROVE TraceInv
    OBVIOUS
  <1>1. Len(runs) = 0 /\ damage = {}
    BY DEF Init
  <1>2. QED
    BY <1>1 DEF TraceInv

\* At any time a replay holds, and has recorded, the copies of what it has read; what it
\* has read is what it knows its source by, if that is what the source holds; and Silver
\* has rows of the events that it was given, even after a crash or when a file was cut
\* short (generator.py: hash, open again, compute, rename, manifest; bronze_to_silver.py).
THEOREM RunsAreTraced == Spec => []TraceInv
  <1>1. QED
    BY TraceInitially, TraceStep, ContentsAreRight, LakeInvariant, PTL DEF Spec

-----------------------------------------------------------------------------
(* The verifiers are exact.                                                *)

\* What is known of a replay that has its events in place.
LEMMA ReplayIsKnown ==
  ASSUME RunsFormed, ContentInv, TraceInv, NEW r \in 1..Len(runs), runs[r].stage = "replay",
         "events" \in DOMAIN runs[r].parts,
         NEW s, s = SortedById(runs[r].input), NEW c, c = Len(runs[r].from),
         NEW events, events = runs[r].parts["events"]
  PROVE  /\ c \in Nat \ {0} /\ AreOriginals(runs[r].input, c)
         /\ SortedOriginals(s, c) /\ NumberedCopies(s, c, events) /\ DistinctIds(events)
         /\ events = runs[r].out["events"]
  <1>1. PICK x : x = runs[r]
    OBVIOUS
  <1>2. Copied(x)
    BY <1>1 DEF TraceInv, Traced
  <1>3. /\ CopiedFrom(x) /\ x.from # <<>>
        /\ events = x.out["events"]
    BY <1>1, <1>2 DEF Copied, HasCopies
  <1>4. /\ x.from \in Seq(OriginalLines) /\ x.input \in Seq(OriginalLines)
        /\ AreOriginals(x.input, c) /\ events = Replayed(s, c) /\ DistinctIds(events)
    BY <1>1, <1>3 DEF CopiedFrom
  <1>5. c \in Nat \ {0}
    BY <1>1, <1>3, <1>4
  <1>6. x.input \in Seq(Lines)
    BY <1>4, OriginalsAreLines
  <1>7. \A k \in 1..Len(x.input) : x.input[k].event_id \in Nat \X {0}
    BY <1>4 DEF OriginalLines
  <1>8. SortedOriginals(s, c) /\ s \in [1..c -> Lines]
    BY <1>1, <1>4, <1>5, <1>6, <1>7, OriginalsAreSorted
  <1>9. NumberedCopies(s, c, events)
    BY <1>4, <1>5, <1>8, CopiesAreNumbered
  <1>10. QED
    BY <1>1, <1>3, <1>4, <1>5, <1>8, <1>9

\* The verifier of the replay is exact.
LEMMA ReplayVerifierIsExact ==
  ASSUME RunsFormed, ContentInv, TraceInv, NEW r \in 1..Len(runs), runs[r].stage = "replay",
         runs[r].status = "SUCCEEDED"
  PROVE  ReplayVerified(r) <=>
            /\ Content(r, "events") = runs[r].parts["events"]
            /\ Content(runs[r].src, "events") = runs[r].from
  <1> DEFINE source == Content(runs[r].src, "events")
             content == Content(r, "events")
             s == SortedById(source)
             c == Len(runs[r].from)
  <1>1. WellFormed(runs[r]) /\ "events" \in DOMAIN runs[r].parts
    BY FilesInPlace DEF RunsFormed, FileStages, FilePart
  <1>2. /\ runs[r].parts["events"] = runs[r].out["events"]
        /\ runs[r].recorded = runs[r].out
        /\ source = runs[r].from => runs[r].input = source
    BY <1>1 DEF TraceInv, Traced, Copied, Found, Worked
  <1>3. ReplayVerified(r) <=>
          /\ source = runs[r].from
          /\ AreOriginals(source, c)
          /\ \A k \in DOMAIN content : content[k] = ExpectedReplayEvent(s, k)
          /\ Len(content) = c * Factor
          /\ Multiplicities(content) = {Factor}
          /\ content = runs[r].recorded["events"]
    BY DEF ReplayVerified, Multiplicities, DetectionsOf
  <1>4. ASSUME content = runs[r].parts["events"], source = runs[r].from
        PROVE  /\ AreOriginals(source, c)
               /\ \A k \in DOMAIN content : content[k] = ExpectedReplayEvent(s, k)
               /\ Len(content) = c * Factor
               /\ Multiplicities(content) = {Factor}
    <2>1. s = SortedById(runs[r].input)
      BY <1>2, <1>4
    <2>2. runs[r].input = source
      BY <1>2, <1>4
    <2>3. c = Len(runs[r].from)
      OBVIOUS
    <2> HIDE DEF s, c, content, source
    <2>4. /\ c \in Nat \ {0} /\ AreOriginals(runs[r].input, c)
          /\ SortedOriginals(s, c) /\ NumberedCopies(s, c, content)
      BY <1>1, <1>4, <2>1, <2>3, ReplayIsKnown
    <2>5. \A k \in DOMAIN content : content[k] = ExpectedReplayEvent(s, k)
      BY <2>4, LinesAreExpected
    <2>6. Multiplicities(content) = {Factor}
      BY <2>4, AllAreCopied
    <2>7. Len(content) = c * Factor
      BY <2>4 DEF NumberedCopies
    <2>8. QED
      BY <2>2, <2>4, <2>5, <2>6, <2>7
  <1> HIDE DEF s, c, content, source
  <1>5. QED
    BY <1>2, <1>3, <1>4 DEF content, source

\* Rows that pass have all ids of the plan, each of them once.
LEMMA PassingRowsAreAll ==
  ASSUME NEW n \in Nat, NEW s, NEW events \in Seq(Lines), NumberedCopies(s, n, events),
         DistinctIds(events),
         NEW rows, Passes(rows, n), IdsOf(rows) \subseteq IdsOf(events)
  PROVE  DistinctIds(rows) /\ IdsOf(rows) = IdsOf(events)
  <1> DEFINE m == n * Factor
  <1>1. Len(rows) = m /\ Cardinality(IdsOf(rows)) = m
    BY DEF Passes, IdsOf
  <1>2. Cardinality(IdsOf(events)) = m /\ IsFiniteSet(IdsOf(events))
    <2>1. IsFiniteSet(IdsOf(events))
      BY DistinctMeansInjective DEF IdsOf
    <2>2. QED
      BY <2>1 DEF DistinctIds, IdsOf, NumberedCopies
  <1>3. DistinctIds(rows)
    BY <1>1 DEF DistinctIds, IdsOf
  <1> HIDE DEF m
  <1>4. IdsOf(rows) = IdsOf(events)
    BY <1>1, <1>2, FS_Subset
  <1>5. QED
    BY <1>3, <1>4

\* The verifier of Silver is exact.
LEMMA SilverVerifierIsExact ==
  ASSUME RunsFormed, ContentInv, TraceInv, NEW r \in 1..Len(runs), runs[r].stage = "silver",
         "silver" \in DOMAIN runs[r].parts, NEW i, i = runs[r].src, i # 0,
         runs[i].stage = "replay",
         NEW rows, rows = Content(r, "silver")
  PROVE  /\ rows = runs[i].parts["events"] => SilverVerified(r, runs[i].from)
         /\ SilverVerified(r, runs[i].from) =>
              DistinctIds(rows) /\ IdsOf(rows) = PlanIds(i)
  <1> DEFINE events == runs[i].parts["events"]
             s == SortedById(runs[i].input)
             c == Len(runs[i].from)
  <1>1. i \in 1..Len(runs) /\ "events" \in DOMAIN runs[i].parts
    BY DEF RunsFormed, WellFormed, ContentInv, Lasting, Sourced
  <1>2. s = SortedById(runs[i].input) /\ c = Len(runs[i].from) /\ events = runs[i].parts["events"]
    OBVIOUS
  <1>3. events \in Seq(Lines)
    BY <1>1, TracedLines
  <1> HIDE DEF events, s, c
  <1>4. c \in Nat \ {0} /\ SortedOriginals(s, c) /\ NumberedCopies(s, c, events)
          /\ DistinctIds(events)
    BY <1>1, <1>2, ReplayIsKnown
  <1>5. ASSUME rows = events PROVE SilverVerified(r, runs[i].from)
    BY <1>2, <1>4, <1>5, WholeReplayPasses
  <1>6. IdsOf(rows) \subseteq IdsOf(events)
    <2>1. IdsOf(rows) \subseteq IdsOf(runs[r].parts["silver"])
      BY ContentKeepsIds
    <2>2. Admitted(runs[r], runs[i])
      BY DEF TraceInv, Traced
    <2>3. QED
      BY <1>2, <2>1, <2>2 DEF Admitted, Within
  <1>7. ASSUME SilverVerified(r, runs[i].from)
        PROVE  DistinctIds(rows) /\ IdsOf(rows) = IdsOf(events)
    <2>1. Passes(rows, c)
      BY <1>2, <1>7, SilverVerifiedIs
    <2>2. QED
      BY <1>3, <1>4, <1>6, <2>1, PassingRowsAreAll
  <1>8. IdsOf(events) = PlanIds(i)
    BY <1>2 DEF IdsOf, PlanIds
  <1>9. QED
    BY <1>2, <1>5, <1>7, <1>8

\* Runs that are traced are told apart by the verifiers.
LEMMA TracedRunsAreVerified == LakeInv /\ ContentInv /\ TraceInv => VerifiersAreExact
  <1> SUFFICES ASSUME LakeInv, ContentInv, TraceInv PROVE VerifiersAreExact
    OBVIOUS
  <1>1. RunsFormed /\ DOMAIN runs = 1..Len(runs)
    BY DEF LakeInv, RunsFormed
  <1>2. ASSUME NEW r \in DOMAIN runs, runs[r].stage = "replay", runs[r].status = "SUCCEEDED"
        PROVE  ReplayVerified(r) <=>
                 /\ Content(r, "events") = runs[r].parts["events"]
                 /\ Content(runs[r].src, "events") = runs[r].from
    BY <1>1, <1>2, ReplayVerifierIsExact
  <1>3. ASSUME NEW r \in DOMAIN runs, runs[r].stage = "silver",
               "silver" \in DOMAIN runs[r].parts,
               runs[r].src # 0, runs[runs[r].src].stage = "replay"
        PROVE  LET replay == runs[r].src
                   rows   == Content(r, "silver")
               IN  /\ rows = runs[replay].parts["events"] => SilverVerified(r, runs[replay].from)
                   /\ SilverVerified(r, runs[replay].from) =>
                        /\ DistinctIds(rows)
                        /\ {rows[k].event_id : k \in DOMAIN rows} = PlanIds(replay)
    <2>1. PICK i, rows : i = runs[r].src /\ rows = Content(r, "silver")
      OBVIOUS
    <2>2. /\ rows = runs[i].parts["events"] => SilverVerified(r, runs[i].from)
          /\ SilverVerified(r, runs[i].from) =>
               DistinctIds(rows) /\ IdsOf(rows) = PlanIds(i)
      BY <1>1, <1>3, <2>1, SilverVerifierIsExact
    <2>3. QED
      BY <2>1, <2>2 DEF IdsOf
  <1>4. QED
    BY <1>2, <1>3 DEF VerifiersAreExact

\* The verifiers tell sound artifacts from others at any time: that of the replay passes
\* exactly when neither the artifact nor its source has been touched (replay/verify.py),
\* that of Silver passes a whole replay, and nothing in which an event is missing or
\* twice, whatever became of the runs and the files (spark/batch/verify_silver.py).
THEOREM VerifiersAlwaysExact == Spec => []VerifiersAreExact
  <1>1. QED
    BY TracedRunsAreVerified, RunsAreTraced, ContentsAreRight, LakeInvariant, PTL DEF Spec
=============================================================================
