------------------------ MODULE PostgresLoaderProofs ------------------------
(***************************************************************************)
(* Theorems about PostgresLoader, for every number of loaders, manifests   *)
(* and events.                                                             *)
(***************************************************************************)
EXTENDS PostgresLoader, FiniteSetTheorems, TLAPS

\* Set sizes that the loader compares are numbers.
LEMMA CountsAreNumbers ==
  ASSUME NEW S \in SUBSET Events
  PROVE  IsFiniteSet(S) /\ Cardinality(S) \in Nat
  BY LoaderAssumption, FS_Subset, FS_CardinalityType

\* The constants have the types the assumption names.
LEMMA ConstantTypes ==
  ASSUME NEW m \in Manifests, NEW e \in Events
  PROVE  /\ Rows[m] \subseteq Events
         /\ Hash[m][e] \in Hashes
         /\ RowOf(m, e) \in Row
         /\ RowOf(m, e) # NoRow
         /\ RowOf(m, e).gold = m
         /\ RowOf(m, e).hash = Hash[m][e]
  <1>1. Rows[m] \subseteq Events /\ Hash[m][e] \in Hashes
    BY LoaderAssumption
  <1>2. RowOf(m, e) \in Row
    BY <1>1 DEF RowOf, Row
  <1>3. QED
    BY <1>1, <1>2, LoaderAssumption DEF RowOf, Row

-----------------------------------------------------------------------------
\* Loaders between registration and the recorded end of their load.
Working == Transaction \union {"rollback"}

\* A running invocation, and a reported success, names a manifest.
JobKnown ==
  \A l \in Loaders :
    pc[l] # "idle" \/ result[l] \in {"loaded", "noop"} => job[l] \in Manifests

\* Type correctness of the tables, the sessions and the results
\* (postgres_loader.py:146-279).
TypedJobs == TypeOK /\ JobKnown

\* Every table, session and result keeps its type, and a busy or reported loader
\* has a manifest (postgres_loader.py:146-279).
THEOREM Typing == Spec => []TypedJobs
<1>1. Init => TypedJobs
  BY LoaderAssumption
     DEF Init, TypedJobs, TypeOK, JobKnown, NotLoaded, LoadRun, Statements, Results
<1>2. TypedJobs /\ [Next]_vars => TypedJobs'
  <2> SUFFICES ASSUME TypedJobs, [Next]_vars PROVE TypedJobs'
    OBVIOUS
  <2> USE DEF TypedJobs, TypeOK, JobKnown, database, session, Goto, Branch, Return
  <2>1. ASSUME NEW l \in Loaders, NEW m \in Manifests, Invoke(l, m) PROVE TypedJobs'
    BY <2>1 DEF Invoke, Statements, Results
  <2>2. ASSUME NEW l \in Loaders, Lookup(l) PROVE TypedJobs'
    BY <2>2 DEF Lookup, Statements, Results
  <2>3. ASSUME NEW l \in Loaders, Reconcile(l) PROVE TypedJobs'
    BY <2>3 DEF Reconcile, Statements, Results
  <2>4. ASSUME NEW l \in Loaders, Register(l) PROVE TypedJobs'
    BY <2>4 DEF Register, Statements, Transaction, LoadRun
  <2>5. ASSUME NEW l \in Loaders, RegisterRejected(l) PROVE TypedJobs'
    BY <2>5 DEF RegisterRejected, Statements, Results
  <2>6. ASSUME NEW l \in Loaders, Stage(l) PROVE TypedJobs'
    BY <2>6 DEF Stage, Abort, EndTransaction, Statements, Transaction
  <2>7. ASSUME NEW l \in Loaders, CheckConflicts(l) PROVE TypedJobs'
    BY <2>7 DEF CheckConflicts, Abort, EndTransaction, Statements, Transaction
  <2>8. ASSUME NEW l \in Loaders, CountBefore(l) PROVE TypedJobs'
    <3>1. Cardinality(Served) \in Nat /\ Staged(l) \in SUBSET Events
      BY <2>8, CountsAreNumbers, LoaderAssumption DEF CountBefore, Served, Staged
    <3>2. QED
      BY <2>8, <3>1 DEF CountBefore, Statements, Transaction
  <2>9. ASSUME NEW l \in Loaders, NEW e \in Events, InsertRow(l, e) PROVE TypedJobs'
    BY <2>9 DEF InsertRow, Reaches
  <2>10. ASSUME NEW l \in Loaders, NEW e \in Events, WaitForRow(l, e) PROVE TypedJobs'
    BY <2>10 DEF WaitForRow, Reaches
  <2>11. ASSUME NEW l \in Loaders, DeadlockVictim(l) PROVE TypedJobs'
    BY <2>11 DEF DeadlockVictim, Abort, EndTransaction, Statements
  <2>12. ASSUME NEW l \in Loaders, Recount(l) PROVE TypedJobs'
    BY <2>12 DEF Recount, Abort, EndTransaction, Statements, Transaction
  <2>13. ASSUME NEW l \in Loaders, Publish(l) PROVE TypedJobs'
    <3>1. job[l] \in Manifests
      BY <2>13 DEF Publish
    <3>2. event_detail' \in [Events -> Row \union {NoRow}]
      BY <2>13, <3>1, ConstantTypes DEF Publish, Committed
    <3>3. /\ load_run' \in [Manifests -> LoadRun]
          /\ summary' \in [Manifests -> SUBSET Events]
      BY <2>13, <3>1 DEF Publish, LoadRun, RowsUnder
    <3>4. QED
      BY <2>13, <3>2, <3>3 DEF Publish, EndTransaction, Statements
  <2>14. ASSUME NEW l \in Loaders, Report(l) PROVE TypedJobs'
    BY <2>14 DEF Report, Statements, Results
  <2>15. ASSUME NEW l \in Loaders, Error(l) PROVE TypedJobs'
    BY <2>15 DEF Error, Abort, EndTransaction, Statements, Transaction
  <2>16. ASSUME NEW l \in Loaders, RecordFailure(l) PROVE TypedJobs'
    BY <2>16 DEF RecordFailure, Statements, Results, LoadRun
  <2>17. ASSUME NEW l \in Loaders, Crash(l) PROVE TypedJobs'
    BY <2>17 DEF Crash, EndTransaction, Statements, Results
  <2>18. CASE UNCHANGED vars
    BY <2>18 DEF vars
  <2>19. QED
    BY <2>1, <2>2, <2>3, <2>4, <2>5, <2>6, <2>7, <2>8, <2>9, <2>10, <2>11, <2>12,
       <2>13, <2>14, <2>15, <2>16, <2>17, <2>18 DEF Next, Step
<1>3. QED
  BY <1>1, <1>2, PTL DEF Spec
\* Type correctness as the runs check it (postgres_loader.py:146-279).
THEOREM TypesAreKept == Spec => []TypeOK
  BY Typing, PTL DEF TypedJobs

-----------------------------------------------------------------------------
\* A loader that works on a load owns its RUNNING row, nobody else works on
\* that load, and success is known only where it was recorded.
OwnsRun == \A l \in Loaders : pc[l] \in Working => Status(job[l]) = "RUNNING"

SoleOwner ==
  \A k, l \in Loaders :
    pc[k] \in Working /\ pc[l] \in Working /\ job[k] = job[l] => k = l

SuccessKnown ==
  \A l \in Loaders :
    pc[l] \in {"reconcile", "committed"} \/ result[l] \in {"loaded", "noop"} =>
      Status(job[l]) = "SUCCEEDED"

Ownership == OwnsRun /\ SoleOwner /\ SuccessKnown

\* Every step keeps a registered load in the hands of the loader that registered it.
LEMMA OwnershipStep ==
  ASSUME TypedJobs, Ownership, [Next]_vars PROVE Ownership'
  <1> USE DEF TypedJobs, TypeOK, JobKnown, Ownership, OwnsRun, SoleOwner, SuccessKnown,
              Working, Transaction, Status, database, session, Goto, Branch, Return
  <1>1. ASSUME NEW l \in Loaders, NEW m \in Manifests, Invoke(l, m) PROVE Ownership'
    BY <1>1 DEF Invoke
  <1>2. ASSUME NEW l \in Loaders, Lookup(l) PROVE Ownership'
    BY <1>2 DEF Lookup
  <1>3. ASSUME NEW l \in Loaders, Reconcile(l) PROVE Ownership'
    BY <1>3 DEF Reconcile
  <1>4. ASSUME NEW l \in Loaders, Register(l) PROVE Ownership'
    BY <1>4 DEF Register
  <1>5. ASSUME NEW l \in Loaders, RegisterRejected(l) PROVE Ownership'
    BY <1>5 DEF RegisterRejected
  <1>6. ASSUME NEW l \in Loaders, Stage(l) PROVE Ownership'
    BY <1>6 DEF Stage, Abort, EndTransaction
  <1>7. ASSUME NEW l \in Loaders, CheckConflicts(l) PROVE Ownership'
    BY <1>7 DEF CheckConflicts, Abort, EndTransaction
  <1>8. ASSUME NEW l \in Loaders, CountBefore(l) PROVE Ownership'
    BY <1>8 DEF CountBefore
  <1>9. ASSUME NEW l \in Loaders, NEW e \in Events, InsertRow(l, e) PROVE Ownership'
    BY <1>9 DEF InsertRow, Reaches
  <1>10. ASSUME NEW l \in Loaders, NEW e \in Events, WaitForRow(l, e) PROVE Ownership'
    BY <1>10 DEF WaitForRow, Reaches
  <1>11. ASSUME NEW l \in Loaders, DeadlockVictim(l) PROVE Ownership'
    BY <1>11 DEF DeadlockVictim, Abort, EndTransaction
  <1>12. ASSUME NEW l \in Loaders, Recount(l) PROVE Ownership'
    BY <1>12 DEF Recount, Abort, EndTransaction
  <1>13. ASSUME NEW l \in Loaders, Publish(l) PROVE Ownership'
    BY <1>13 DEF Publish, EndTransaction
  <1>14. ASSUME NEW l \in Loaders, Report(l) PROVE Ownership'
    BY <1>14 DEF Report
  <1>15. ASSUME NEW l \in Loaders, Error(l) PROVE Ownership'
    BY <1>15 DEF Error, Abort, EndTransaction
  <1>16. ASSUME NEW l \in Loaders, RecordFailure(l) PROVE Ownership'
    BY <1>16 DEF RecordFailure
  <1>17. ASSUME NEW l \in Loaders, Crash(l) PROVE Ownership'
    BY <1>17 DEF Crash, EndTransaction
  <1>18. CASE UNCHANGED vars
    BY <1>18 DEF vars
  <1>19. QED
    BY <1>1, <1>2, <1>3, <1>4, <1>5, <1>6, <1>7, <1>8, <1>9, <1>10, <1>11, <1>12,
       <1>13, <1>14, <1>15, <1>16, <1>17, <1>18 DEF Next, Step

-----------------------------------------------------------------------------
\* The rows of an open transaction are rows of its manifest, new to the table
\* and inserted by nobody else; no row of the manifest is forgotten on the way
\* from staged to inserted or found present.
PendingRows ==
  \A l \in Loaders :
    /\ pending[l] \subseteq Rows[job[l]]
    /\ pending[l] \intersect Served = {}
    /\ pc[l] \notin {"insert", "publish"} => pending[l] = {}

PendingDisjoint ==
  \A k, l \in Loaders : k # l => pending[k] \intersect pending[l] = {}

InsertCovers ==
  \A l \in Loaders :
    /\ pc[l] = "insert" => todo[l] \subseteq Rows[job[l]]
    /\ pc[l] = "insert" => Rows[job[l]] \subseteq Served \union pending[l] \union todo[l]
    /\ pc[l] = "publish" => Rows[job[l]] \subseteq Served \union pending[l]

Coverage == PendingRows /\ PendingDisjoint /\ InsertCovers

\* Committing serves exactly the rows of the transaction, under its Gold run.
LEMMA PublishEffect ==
  ASSUME TypedJobs, Coverage, NEW l \in Loaders, Publish(l)
  PROVE  /\ job[l] \in Manifests
         /\ Served' = Served \union pending[l]
         /\ \A m \in Manifests :
              GoldRows(m)' = IF m = job[l] THEN GoldRows(m) \union pending[l]
                                           ELSE GoldRows(m)
         /\ \A e \in Served : event_detail'[e] = event_detail[e]
         /\ \A e \in pending[l] : event_detail'[e] = RowOf(job[l], e)
  <1> USE DEF TypedJobs, TypeOK, JobKnown
  <1>1. job[l] \in Manifests
    BY DEF Publish
  <1>2. pending[l] \subseteq Events /\ pending[l] \intersect Served = {}
    BY DEF Coverage, PendingRows
  <1>3. event_detail' = Committed(l)
    BY DEF Publish
  <1>4. \A e \in Events : event_detail'[e] = IF e \in pending[l] THEN RowOf(job[l], e)
                                             ELSE event_detail[e]
    BY <1>3 DEF Committed
  <1>5. \A e \in pending[l] : RowOf(job[l], e) # NoRow /\ RowOf(job[l], e).gold = job[l]
    BY <1>1, <1>2, ConstantTypes
  <1>6. Served' = Served \union pending[l]
    BY <1>2, <1>4, <1>5 DEF Served, IsServed
  <1>7. ASSUME NEW m \in Manifests
        PROVE  GoldRows(m)' = IF m = job[l] THEN GoldRows(m) \union pending[l]
                                            ELSE GoldRows(m)
    BY <1>2, <1>4, <1>5 DEF GoldRows, RowsUnder, Served, IsServed
  <1>8. QED
    BY <1>1, <1>2, <1>4, <1>6, <1>7 DEF Served

\* Every step keeps account of the staged rows: served, pending or still to insert.
LEMMA CoverageStep ==
  ASSUME TypedJobs, Coverage, [Next]_vars PROVE Coverage'
  <1> USE DEF TypedJobs, TypeOK, JobKnown, Coverage, PendingRows, PendingDisjoint,
              InsertCovers, Transaction, Served, IsServed, Staged, database, session,
              Goto, Branch, Return
  <1>1. ASSUME NEW l \in Loaders, NEW m \in Manifests, Invoke(l, m) PROVE Coverage'
    BY <1>1 DEF Invoke
  <1>2. ASSUME NEW l \in Loaders, Lookup(l) PROVE Coverage'
    BY <1>2 DEF Lookup
  <1>3. ASSUME NEW l \in Loaders, Reconcile(l) PROVE Coverage'
    BY <1>3 DEF Reconcile
  <1>4. ASSUME NEW l \in Loaders, Register(l) PROVE Coverage'
    BY <1>4 DEF Register
  <1>5. ASSUME NEW l \in Loaders, RegisterRejected(l) PROVE Coverage'
    BY <1>5 DEF RegisterRejected
  <1>6. ASSUME NEW l \in Loaders, Stage(l) PROVE Coverage'
    BY <1>6 DEF Stage, Abort, EndTransaction
  <1>7. ASSUME NEW l \in Loaders, CheckConflicts(l) PROVE Coverage'
    BY <1>7 DEF CheckConflicts, Abort, EndTransaction
  <1>8. ASSUME NEW l \in Loaders, CountBefore(l) PROVE Coverage'
    BY <1>8 DEF CountBefore
  <1>9. ASSUME NEW l \in Loaders, NEW e \in Events, InsertRow(l, e) PROVE Coverage'
    BY <1>9 DEF InsertRow, Reaches, Locked
  <1>10. ASSUME NEW l \in Loaders, NEW e \in Events, WaitForRow(l, e) PROVE Coverage'
    BY <1>10 DEF WaitForRow, Reaches
  <1>11. ASSUME NEW l \in Loaders, DeadlockVictim(l) PROVE Coverage'
    BY <1>11 DEF DeadlockVictim, Abort, EndTransaction
  <1>12. ASSUME NEW l \in Loaders, Recount(l) PROVE Coverage'
    BY <1>12 DEF Recount, Abort, EndTransaction
  <1>13. ASSUME NEW l \in Loaders, Publish(l) PROVE Coverage'
    <2>1. Served' = Served \union pending[l]
      BY <1>13, PublishEffect DEF Served, IsServed
    <2>2. QED
      BY <1>13, <2>1 DEF Publish, EndTransaction
  <1>14. ASSUME NEW l \in Loaders, Report(l) PROVE Coverage'
    BY <1>14 DEF Report
  <1>15. ASSUME NEW l \in Loaders, Error(l) PROVE Coverage'
    BY <1>15 DEF Error, Abort, EndTransaction
  <1>16. ASSUME NEW l \in Loaders, RecordFailure(l) PROVE Coverage'
    BY <1>16 DEF RecordFailure
  <1>17. ASSUME NEW l \in Loaders, Crash(l) PROVE Coverage'
    BY <1>17 DEF Crash, EndTransaction
  <1>18. CASE UNCHANGED vars
    BY <1>18 DEF vars
  <1>19. QED
    BY <1>1, <1>2, <1>3, <1>4, <1>5, <1>6, <1>7, <1>8, <1>9, <1>10, <1>11, <1>12,
       <1>13, <1>14, <1>15, <1>16, <1>17, <1>18 DEF Next, Step

-----------------------------------------------------------------------------
\* The inductive invariant.  TablesAgree alone is not inductive: that Publish
\* serves the whole manifest follows from Coverage, and that a failure handler
\* cannot demote a success follows from Ownership.
LoaderInv == TypedJobs /\ Ownership /\ Coverage /\ TablesAgree

\* Every step keeps load control, detail rows and summaries in agreement.
LEMMA TablesAgreeStep ==
  ASSUME LoaderInv, [Next]_vars PROVE TablesAgree'
  <1> USE DEF LoaderInv, TypedJobs, TypeOK, JobKnown, TablesAgree, Transaction, Served,
              IsServed, GoldRows, RowsUnder, Status, database, session, Goto, Branch,
              Return
  <1>1. ASSUME NEW l \in Loaders, NEW m \in Manifests, Invoke(l, m) PROVE TablesAgree'
    BY <1>1 DEF Invoke
  <1>2. ASSUME NEW l \in Loaders, Lookup(l) PROVE TablesAgree'
    BY <1>2 DEF Lookup
  <1>3. ASSUME NEW l \in Loaders, Reconcile(l) PROVE TablesAgree'
    BY <1>3 DEF Reconcile
  <1>4. ASSUME NEW l \in Loaders, Register(l) PROVE TablesAgree'
    BY <1>4 DEF Register
  <1>5. ASSUME NEW l \in Loaders, RegisterRejected(l) PROVE TablesAgree'
    BY <1>5 DEF RegisterRejected
  <1>6. ASSUME NEW l \in Loaders, Stage(l) PROVE TablesAgree'
    BY <1>6 DEF Stage, Abort, EndTransaction
  <1>7. ASSUME NEW l \in Loaders, CheckConflicts(l) PROVE TablesAgree'
    BY <1>7 DEF CheckConflicts, Abort, EndTransaction
  <1>8. ASSUME NEW l \in Loaders, CountBefore(l) PROVE TablesAgree'
    BY <1>8 DEF CountBefore
  <1>9. ASSUME NEW l \in Loaders, NEW e \in Events, InsertRow(l, e) PROVE TablesAgree'
    BY <1>9 DEF InsertRow, Reaches
  <1>10. ASSUME NEW l \in Loaders, NEW e \in Events, WaitForRow(l, e) PROVE TablesAgree'
    BY <1>10 DEF WaitForRow, Reaches
  <1>11. ASSUME NEW l \in Loaders, DeadlockVictim(l) PROVE TablesAgree'
    BY <1>11 DEF DeadlockVictim, Abort, EndTransaction
  <1>12. ASSUME NEW l \in Loaders, Recount(l) PROVE TablesAgree'
    BY <1>12 DEF Recount, Abort, EndTransaction
  <1>13. ASSUME NEW l \in Loaders, Publish(l) PROVE TablesAgree'
    <2>1. /\ job[l] \in Manifests
          /\ Served' = Served \union pending[l]
          /\ \A m \in Manifests :
               GoldRows(m)' = IF m = job[l] THEN GoldRows(m) \union pending[l]
                                            ELSE GoldRows(m)
      BY <1>13, PublishEffect DEF Served, IsServed, GoldRows, RowsUnder
    <2>2. Status(job[l]) = "RUNNING" /\ Rows[job[l]] \subseteq Served \union pending[l]
      BY <1>13 DEF Publish, Ownership, OwnsRun, Working, Coverage, InsertCovers
    <2>3. job' = job /\ GoldRows(job[l])' = pending[l]
      BY <1>13, <2>1, <2>2 DEF Publish
    <2>4. ASSUME NEW m \in Manifests, m # job[l]
          PROVE  load_run'[m] = load_run[m] /\ summary'[m] = summary[m]
      BY <1>13, <2>4 DEF Publish
    <2>5. /\ load_run'[job[l]] = [status |-> "SUCCEEDED", inserted |-> pending[l]]
          /\ summary'[job[l]] = GoldRows(job[l])'
      BY <1>13, <2>1 DEF Publish, Goto
    <2>6. QED
      BY <2>1, <2>2, <2>3, <2>4, <2>5
  <1>14. ASSUME NEW l \in Loaders, Report(l) PROVE TablesAgree'
    BY <1>14 DEF Report
  <1>15. ASSUME NEW l \in Loaders, Error(l) PROVE TablesAgree'
    BY <1>15 DEF Error, Abort, EndTransaction
  <1>16. ASSUME NEW l \in Loaders, RecordFailure(l) PROVE TablesAgree'
    <2>1. job[l] \in Manifests /\ Status(job[l]) = "RUNNING"
      BY <1>16 DEF RecordFailure, Ownership, OwnsRun, Working
    <2>2. QED
      BY <1>16, <2>1 DEF RecordFailure
  <1>17. ASSUME NEW l \in Loaders, Crash(l) PROVE TablesAgree'
    BY <1>17 DEF Crash, EndTransaction
  <1>18. CASE UNCHANGED vars
    BY <1>18 DEF vars
  <1>19. QED
    BY <1>1, <1>2, <1>3, <1>4, <1>5, <1>6, <1>7, <1>8, <1>9, <1>10, <1>11, <1>12,
       <1>13, <1>14, <1>15, <1>16, <1>17, <1>18 DEF Next, Step

\* The inductive invariant holds of every reachable state: the theorems below are
\* its consequences (postgres_loader.py:135-279).
THEOREM LoaderInvariant == Spec => []LoaderInv
<1>1. Init => LoaderInv
  <2> SUFFICES ASSUME Init PROVE LoaderInv
    OBVIOUS
  <2>1. TypedJobs
    BY LoaderAssumption
       DEF Init, TypedJobs, TypeOK, JobKnown, NotLoaded, LoadRun, Statements, Results
  <2>2. Served = {} /\ \A m \in Manifests : GoldRows(m) = {}
    BY DEF Init, Served, IsServed, GoldRows, RowsUnder
  <2>3. Ownership
    BY DEF Init, Ownership, OwnsRun, SoleOwner, SuccessKnown, Working, Transaction
  <2>4. Coverage
    BY DEF Init, Coverage, PendingRows, PendingDisjoint, InsertCovers
  <2>5. TablesAgree
    BY <2>2 DEF Init, TablesAgree, NotLoaded, Status
  <2>6. QED
    BY <2>1, <2>3, <2>4, <2>5 DEF LoaderInv
<1>2. LoaderInv /\ TypedJobs' /\ [Next]_vars => LoaderInv'
  BY OwnershipStep, CoverageStep, TablesAgreeStep DEF LoaderInv
<1>3. QED
  BY <1>1, <1>2, Typing, PTL DEF Spec

\* A SUCCEEDED load serves its whole manifest, and load control, detail rows and
\* summaries agree (postgres_loader.py:195-271).
THEOREM TablesAlwaysAgree == Spec => []TablesAgree
<1>1. LoaderInv => TablesAgree
  BY DEF LoaderInv
<1>2. QED
  BY <1>1, LoaderInvariant, PTL

\* A reported success is recorded and served (postgres_loader.py:148-160, 271).
THEOREM ReportsAreDurable == Spec => []ReportIsDurable
<1>1. LoaderInv => ReportIsDurable
  BY DEF LoaderInv, TypedJobs, JobKnown, Ownership, SuccessKnown, TablesAgree,
         ReportIsDurable, Staged
<1>2. QED
  BY <1>1, LoaderInvariant, PTL

-----------------------------------------------------------------------------
\* Action properties: what a step does to the committed tables.
LEMMA DatabaseStep ==
  ASSUME LoaderInv, [Next]_vars
  PROVE  \/ UNCHANGED <<event_detail, summary>> /\ Admitted' = Admitted
            /\ \A m \in Admitted : load_run'[m] = load_run[m]
         \/ \E l \in Loaders : Publish(l)
  <1> USE DEF LoaderInv, TypedJobs, TypeOK, JobKnown, Status, Admitted, database
  <1>1. CASE UNCHANGED database
    BY <1>1
  <1>2. ASSUME NEW l \in Loaders, Register(l)
        PROVE  /\ UNCHANGED <<event_detail, summary>> /\ Admitted' = Admitted
               /\ \A m \in Admitted : load_run'[m] = load_run[m]
    <2>1. job[l] \in Manifests /\ load_run[job[l]].status = "ABSENT"
      BY <1>2 DEF Register
    <2>2. /\ load_run' \in [Manifests -> LoadRun]
          /\ load_run'[job[l]].status = "RUNNING"
          /\ \A m \in Manifests : m # job[l] => load_run'[m] = load_run[m]
      BY <1>2, <2>1 DEF Register, LoadRun
    <2>3. QED
      BY <1>2, <2>1, <2>2 DEF Register
  <1>3. ASSUME NEW l \in Loaders, RecordFailure(l)
        PROVE  /\ UNCHANGED <<event_detail, summary>> /\ Admitted' = Admitted
               /\ \A m \in Admitted : load_run'[m] = load_run[m]
    <2>1. job[l] \in Manifests /\ load_run[job[l]].status = "RUNNING"
      BY <1>3 DEF RecordFailure, Ownership, OwnsRun, Working
    <2>2. /\ load_run' \in [Manifests -> LoadRun]
          /\ load_run'[job[l]].status = "FAILED"
          /\ \A m \in Manifests : m # job[l] => load_run'[m] = load_run[m]
      BY <1>3, <2>1 DEF RecordFailure, LoadRun
    <2>3. QED
      BY <1>3, <2>1, <2>2 DEF RecordFailure
  <1>4. \/ UNCHANGED database
        \/ \E l \in Loaders : Register(l) \/ RecordFailure(l) \/ Publish(l)
    BY DEF Next, Step, vars, Invoke, Lookup, Reconcile, RegisterRejected, Stage,
           CheckConflicts, CountBefore, InsertRow, WaitForRow, DeadlockVictim, Recount,
           Report, Error, Crash, Abort, Branch
  <1>5. QED
    BY <1>1, <1>2, <1>3, <1>4

\* A served row is never rewritten or removed: INSERT ... ON CONFLICT DO NOTHING
\* (postgres_loader.py:68).
THEOREM RowsAreNeverRewritten == Spec => RowsNeverRewritten
<1>1. ASSUME LoaderInv, [Next]_vars
      PROVE  \A e \in Events : IsServed(e) => event_detail'[e] = event_detail[e]
  <2>1. CASE UNCHANGED event_detail
    BY <2>1
  <2>2. ASSUME NEW l \in Loaders, Publish(l), NEW e \in Events, IsServed(e)
        PROVE  event_detail'[e] = event_detail[e]
    BY <1>1, <2>2, PublishEffect DEF LoaderInv, Served
  <2>3. QED
    BY <1>1, <2>1, <2>2, DatabaseStep
<1>2. LoaderInv /\ [Next]_vars =>
        [\A e \in Events : IsServed(e) => event_detail'[e] = event_detail[e]]_vars
  BY <1>1
<1>3. QED
  BY <1>2, LoaderInvariant, PTL DEF Spec, RowsNeverRewritten

\* Success is final (postgres_loader.py:263-278).
THEOREM SuccessStaysFinal == Spec => SuccessIsFinal
<1>1. ASSUME LoaderInv, [Next]_vars
      PROVE  \A m \in Manifests : Status(m) = "SUCCEEDED" =>
               load_run'[m] = load_run[m] /\ summary'[m] = summary[m]
  <2>1. ASSUME NEW l \in Loaders, Publish(l), NEW m \in Manifests, Status(m) = "SUCCEEDED"
        PROVE  load_run'[m] = load_run[m] /\ summary'[m] = summary[m]
    <3>1. m # job[l]
      BY <1>1, <2>1 DEF LoaderInv, Ownership, OwnsRun, Working, Transaction, Publish
    <3>2. QED
      BY <1>1, <2>1, <3>1 DEF Publish, LoaderInv, TypedJobs, TypeOK
  <2>2. QED
    BY <1>1, <2>1, DatabaseStep DEF Admitted
<1>2. LoaderInv /\ [Next]_vars =>
        [\A m \in Manifests : Status(m) = "SUCCEEDED" =>
           load_run'[m] = load_run[m] /\ summary'[m] = summary[m]]_vars
  BY <1>1
<1>3. QED
  BY <1>2, LoaderInvariant, PTL DEF Spec, SuccessIsFinal

-----------------------------------------------------------------------------
\* Refinement: readers see manifests admitted whole.
LEMMA InitProjection == Init => Projection!ProjectionInit
  BY DEF Init, Projection!ProjectionInit, ReaderContent, Admitted, IsServed, Status,
         NotLoaded

\* A commit of the serving transaction is one admission; every other step leaves
\* readers where they were.
LEMMA PublishAdmits ==
  ASSUME LoaderInv, NEW l \in Loaders, Publish(l)
  PROVE  job[l] \in Manifests /\ Projection!Admit(job[l])
  <1> USE DEF LoaderInv
  <1>1. /\ job[l] \in Manifests
        /\ Served' = Served \union pending[l]
        /\ \A e \in Served : event_detail'[e] = event_detail[e]
        /\ \A e \in pending[l] : event_detail'[e] = RowOf(job[l], e)
    BY PublishEffect
  <1>2. /\ Rows[job[l]] \subseteq Served \union pending[l]
        /\ pending[l] \subseteq Rows[job[l]]
        /\ pending[l] \intersect Served = {}
        /\ Status(job[l]) = "RUNNING"
    BY DEF Publish, Coverage, InsertCovers, PendingRows, Ownership, OwnsRun, Working,
           Transaction
  <1>3. Admitted' = Admitted \union {job[l]} /\ job[l] \notin Admitted
    <2>1. load_run' = [load_run EXCEPT ![job[l]] =
                         [status |-> "SUCCEEDED", inserted |-> pending[l]]]
      BY DEF Publish
    <2>2. QED
      BY <1>1, <1>2, <2>1 DEF Admitted, Status, TypedJobs, TypeOK
  <1>4. \A e \in pending[l] : RowOf(job[l], e).hash = Hash[job[l]][e]
    BY DEF RowOf
  <1>5. ASSUME NEW e \in Events
        PROVE  ReaderContent'[e] = IF e \in Rows[job[l]] /\ ReaderContent[e] = NoContent
                                     THEN Hash[job[l]][e] ELSE ReaderContent[e]
    <2>1. CASE e \in Served
      <3>1. event_detail[e] \in Row
        BY <2>1 DEF TypedJobs, TypeOK, Served, IsServed
      <3>2. ReaderContent[e] = event_detail[e].hash /\ ReaderContent[e] # NoContent
        BY <2>1, <3>1, LoaderAssumption DEF Row, ReaderContent, Served, IsServed
      <3>3. ReaderContent'[e] = event_detail[e].hash
        BY <1>1, <2>1 DEF ReaderContent, Served, IsServed
      <3>4. QED
        BY <3>2, <3>3
    <2>2. CASE e \in pending[l]
      <3>1. ReaderContent[e] = NoContent
        BY <1>2, <2>2 DEF ReaderContent, Served
      <3>2. ReaderContent'[e] = Hash[job[l]][e]
        BY <1>1, <1>4, <2>2 DEF ReaderContent, Served
      <3>3. QED
        BY <1>2, <2>2, <3>1, <3>2
    <2>3. CASE e \notin Served /\ e \notin pending[l]
      BY <1>1, <1>2, <2>3 DEF ReaderContent, Served
    <2>4. QED
      BY <2>1, <2>2, <2>3
  <1>6. ReaderContent' = [e \in Events |->
                            IF e \in Rows[job[l]] /\ ReaderContent[e] = NoContent
                              THEN Hash[job[l]][e] ELSE ReaderContent[e]]
    BY <1>5 DEF ReaderContent
  <1>7. QED
    BY <1>1, <1>3, <1>6 DEF Projection!Admit

\* Readers never see part of a load, however many loaders run
\* (GOLD_SERVING_CONTRACT.md:85; postgres_loader.py:195-270).
THEOREM LoaderAdmitsAtomically == Spec => AdmitsAtomically
<1>1. ASSUME LoaderInv, [Next]_vars
      PROVE  [Projection!AtomicNext]_(Projection!projectionVars)
  <2>1. CASE UNCHANGED event_detail /\ Admitted' = Admitted
    BY <2>1 DEF Projection!projectionVars, ReaderContent, IsServed
  <2>2. ASSUME NEW l \in Loaders, Publish(l)
        PROVE  Projection!AtomicNext
    BY <1>1, <2>2, PublishAdmits DEF Projection!AtomicNext
  <2>3. QED
    BY <1>1, <2>1, <2>2, DatabaseStep
<1>2. QED
  BY <1>1, InitProjection, LoaderInvariant, PTL
     DEF Spec, AdmitsAtomically, Projection!AtomicSpec

-----------------------------------------------------------------------------
\* A single loader process, as one Airflow run at a time gives.
SoleLoader == \A k, l \in Loaders : k = l

\* What the conflict check and the first count have read still holds when the
\* rows are committed.
StillTrue ==
  \A l \in Loaders :
    /\ pc[l] \in {"count", "insert", "publish"} => Conflicts(job[l]) = {}
    /\ pc[l] = "insert" => before[l] = Cardinality(Served)

SerialInv == LoaderInv /\ StillTrue

\* With a single loader, what was counted and checked stays true until it is used.
LEMMA StillTrueStep ==
  ASSUME SoleLoader, SerialInv, [Next]_vars PROVE StillTrue'
  <1> USE DEF SoleLoader, SerialInv, LoaderInv, TypedJobs, TypeOK, StillTrue, Conflicts,
              Served, IsServed, Transaction, database, session, Goto, Branch, Return
  <1>1. ASSUME NEW l \in Loaders, NEW m \in Manifests, Invoke(l, m) PROVE StillTrue'
    BY <1>1 DEF Invoke
  <1>2. ASSUME NEW l \in Loaders, Lookup(l) PROVE StillTrue'
    BY <1>2 DEF Lookup
  <1>3. ASSUME NEW l \in Loaders, Reconcile(l) PROVE StillTrue'
    BY <1>3 DEF Reconcile
  <1>4. ASSUME NEW l \in Loaders, Register(l) PROVE StillTrue'
    BY <1>4 DEF Register
  <1>5. ASSUME NEW l \in Loaders, RegisterRejected(l) PROVE StillTrue'
    BY <1>5 DEF RegisterRejected
  <1>6. ASSUME NEW l \in Loaders, Stage(l) PROVE StillTrue'
    BY <1>6 DEF Stage, Abort, EndTransaction
  <1>7. ASSUME NEW l \in Loaders, CheckConflicts(l) PROVE StillTrue'
    BY <1>7 DEF CheckConflicts, Abort, EndTransaction
  <1>8. ASSUME NEW l \in Loaders, CountBefore(l) PROVE StillTrue'
    BY <1>8 DEF CountBefore
  <1>9. ASSUME NEW l \in Loaders, NEW e \in Events, InsertRow(l, e) PROVE StillTrue'
    BY <1>9 DEF InsertRow, Reaches
  <1>10. ASSUME NEW l \in Loaders, NEW e \in Events, WaitForRow(l, e) PROVE StillTrue'
    BY <1>10 DEF WaitForRow, Reaches
  <1>11. ASSUME NEW l \in Loaders, DeadlockVictim(l) PROVE StillTrue'
    BY <1>11 DEF DeadlockVictim, Abort, EndTransaction
  <1>12. ASSUME NEW l \in Loaders, Recount(l) PROVE StillTrue'
    <2>1. CASE Branch(l, "publish")
      BY <1>12, <2>1 DEF Recount
    <2>2. CASE Abort(l)
      BY <2>2 DEF Abort, EndTransaction
    <2>3. QED
      BY <1>12, <2>1, <2>2 DEF Recount
  <1>13. ASSUME NEW l \in Loaders, Publish(l) PROVE StillTrue'
    BY <1>13 DEF Publish, EndTransaction
  <1>14. ASSUME NEW l \in Loaders, Report(l) PROVE StillTrue'
    BY <1>14 DEF Report
  <1>15. ASSUME NEW l \in Loaders, Error(l) PROVE StillTrue'
    BY <1>15 DEF Error, Abort, EndTransaction
  <1>16. ASSUME NEW l \in Loaders, RecordFailure(l) PROVE StillTrue'
    BY <1>16 DEF RecordFailure
  <1>17. ASSUME NEW l \in Loaders, Crash(l) PROVE StillTrue'
    BY <1>17 DEF Crash, EndTransaction
  <1>18. CASE UNCHANGED vars
    BY <1>18 DEF vars
  <1>19. QED
    BY <1>1, <1>2, <1>3, <1>4, <1>5, <1>6, <1>7, <1>8, <1>9, <1>10, <1>11, <1>12,
       <1>13, <1>14, <1>15, <1>16, <1>17, <1>18 DEF Next, Step

\* The inductive invariant of a single loader.
LEMMA SerialInvariant == ASSUME SoleLoader PROVE Spec => []SerialInv
<1>1. Init => StillTrue
  BY DEF Init, StillTrue
<1>2. SerialInv /\ LoaderInv' /\ [Next]_vars => SerialInv'
  BY SoleLoader, StillTrueStep DEF SerialInv
<1>3. QED
  BY <1>1, <1>2, LoaderInvariant, PTL DEF Spec, SerialInv

\* A single loader keeps the whole contract: a manifest that contradicts served
\* content is not admitted (postgres_loader.py:204-212).
THEOREM SoleLoaderKeepsContract == ASSUME SoleLoader PROVE Spec => KeepsContract
<1>1. ASSUME SerialInv, NEW l \in Loaders, Publish(l)
      PROVE  job[l] \in Manifests /\ Projection!Agrees(job[l])
  <2>1. job[l] \in Manifests /\ Conflicts(job[l]) = {}
    BY <1>1 DEF SerialInv, StillTrue, LoaderInv, TypedJobs, JobKnown, Publish
  <2>2. ASSUME NEW e \in Rows[job[l]]
        PROVE  ReaderContent[e] \in {NoContent, Hash[job[l]][e]}
    BY <2>1, <2>2, LoaderAssumption DEF Conflicts, ReaderContent, Served
  <2>3. QED
    BY <2>1, <2>2 DEF Projection!Agrees
<1>2. ASSUME SerialInv, [Next]_vars
      PROVE  [Projection!ContractNext]_(Projection!projectionVars)
  <2>1. CASE UNCHANGED event_detail /\ Admitted' = Admitted
    BY <2>1 DEF Projection!projectionVars, ReaderContent, IsServed
  <2>2. ASSUME NEW l \in Loaders, Publish(l)
        PROVE  Projection!ContractNext
    BY <1>1, <1>2, <2>2, PublishAdmits DEF SerialInv, Projection!ContractNext
  <2>3. QED
    BY <1>2, <2>1, <2>2, DatabaseStep DEF SerialInv
<1>3. QED
  BY <1>2, InitProjection, SerialInvariant, SoleLoader, PTL
     DEF Spec, KeepsContract, Projection!ContractSpec

\* Without a rival the recount never refuses a load (postgres_loader.py:211-215).
THEOREM SoleLoaderReconciles == ASSUME SoleLoader PROVE Spec => []RecountReconciles
<1>1. ASSUME SerialInv PROVE RecountReconciles
  <2> SUFFICES ASSUME NEW l \in Loaders, pc[l] = "insert"
               PROVE  Reconciles(l)
    BY DEF RecountReconciles
  <2>1. /\ pending[l] \in SUBSET Events
        /\ Served \in SUBSET Events
        /\ Served \intersect pending[l] = {}
        /\ before[l] = Cardinality(Served)
    BY <1>1 DEF SerialInv, StillTrue, LoaderInv, TypedJobs, TypeOK, Coverage,
                PendingRows, Served
  <2>2. /\ IsFiniteSet(Served) /\ Cardinality(Served) \in Nat
        /\ IsFiniteSet(pending[l]) /\ Cardinality(pending[l]) \in Nat
    BY <2>1, CountsAreNumbers
  <2>3. Cardinality(Served \intersect pending[l]) = 0
    BY <2>1, FS_EmptySet
  <2>4. Cardinality(Served \union pending[l]) =
          Cardinality(Served) + Cardinality(pending[l])
            - Cardinality(Served \intersect pending[l])
    BY <2>2, FS_Union
  <2>5. QED
    BY <2>1, <2>2, <2>3, <2>4 DEF Reconciles
<1>2. QED
  BY <1>1, SerialInvariant, SoleLoader, PTL

-----------------------------------------------------------------------------
\* Rows carry the Gold run of a manifest that contains them, and only manifests
\* that staged as many rows as they declare get past the staging check.
Provenance == \A e \in Events : IsServed(e) => e \in Rows[event_detail[e].gold]

StagedInFull ==
  /\ \A l \in Loaders : pc[l] \in {"check", "count", "insert", "publish"} =>
       Cardinality(Rows[job[l]]) = Declared[job[l]]
  /\ \A m \in Manifests : Status(m) = "SUCCEEDED" => Cardinality(Rows[m]) = Declared[m]

ReloadInv == LoaderInv /\ Provenance /\ StagedInFull

\* Every step keeps unshared events with the manifest they came from.
LEMMA ProvenanceStep ==
  ASSUME LoaderInv, Provenance, [Next]_vars PROVE Provenance'
  <1>1. CASE UNCHANGED event_detail
    BY <1>1 DEF Provenance, IsServed
  <1>2. ASSUME NEW l \in Loaders, Publish(l) PROVE Provenance'
    <2>1. /\ job[l] \in Manifests
          /\ Served' = Served \union pending[l]
          /\ \A e \in Served : event_detail'[e] = event_detail[e]
          /\ \A e \in pending[l] : event_detail'[e] = RowOf(job[l], e)
      BY <1>2, PublishEffect DEF LoaderInv
    <2>2. pending[l] \subseteq Rows[job[l]] /\ pending[l] \subseteq Events
      BY DEF LoaderInv, Coverage, PendingRows, TypedJobs, TypeOK
    <2>3. \A e \in pending[l] : RowOf(job[l], e).gold = job[l]
      BY DEF RowOf
    <2>4. QED
      BY <2>1, <2>2, <2>3 DEF Provenance, Served, IsServed
  <1>3. QED
    BY <1>1, <1>2, DatabaseStep

\* Every step keeps admitted manifests fully staged.
LEMMA StagedInFullStep ==
  ASSUME LoaderInv, StagedInFull, [Next]_vars PROVE StagedInFull'
  <1> USE DEF LoaderInv, TypedJobs, TypeOK, JobKnown, StagedInFull, Transaction, Status,
              StageComplete, Staged, database, session, Goto, Branch, Return
  <1>1. ASSUME NEW l \in Loaders, NEW m \in Manifests, Invoke(l, m) PROVE StagedInFull'
    BY <1>1 DEF Invoke
  <1>2. ASSUME NEW l \in Loaders, Lookup(l) PROVE StagedInFull'
    BY <1>2 DEF Lookup
  <1>3. ASSUME NEW l \in Loaders, Reconcile(l) PROVE StagedInFull'
    BY <1>3 DEF Reconcile
  <1>4. ASSUME NEW l \in Loaders, Register(l) PROVE StagedInFull'
    BY <1>4 DEF Register
  <1>5. ASSUME NEW l \in Loaders, RegisterRejected(l) PROVE StagedInFull'
    BY <1>5 DEF RegisterRejected
  <1>6. ASSUME NEW l \in Loaders, Stage(l) PROVE StagedInFull'
    BY <1>6 DEF Stage, Abort, EndTransaction
  <1>7. ASSUME NEW l \in Loaders, CheckConflicts(l) PROVE StagedInFull'
    BY <1>7 DEF CheckConflicts, Abort, EndTransaction
  <1>8. ASSUME NEW l \in Loaders, CountBefore(l) PROVE StagedInFull'
    BY <1>8 DEF CountBefore
  <1>9. ASSUME NEW l \in Loaders, NEW e \in Events, InsertRow(l, e) PROVE StagedInFull'
    BY <1>9 DEF InsertRow, Reaches
  <1>10. ASSUME NEW l \in Loaders, NEW e \in Events, WaitForRow(l, e) PROVE StagedInFull'
    BY <1>10 DEF WaitForRow, Reaches
  <1>11. ASSUME NEW l \in Loaders, DeadlockVictim(l) PROVE StagedInFull'
    BY <1>11 DEF DeadlockVictim, Abort, EndTransaction
  <1>12. ASSUME NEW l \in Loaders, Recount(l) PROVE StagedInFull'
    BY <1>12 DEF Recount, Abort, EndTransaction
  <1>13. ASSUME NEW l \in Loaders, Publish(l) PROVE StagedInFull'
    BY <1>13 DEF Publish, EndTransaction
  <1>14. ASSUME NEW l \in Loaders, Report(l) PROVE StagedInFull'
    BY <1>14 DEF Report
  <1>15. ASSUME NEW l \in Loaders, Error(l) PROVE StagedInFull'
    BY <1>15 DEF Error, Abort, EndTransaction
  <1>16. ASSUME NEW l \in Loaders, RecordFailure(l) PROVE StagedInFull'
    BY <1>16 DEF RecordFailure
  <1>17. ASSUME NEW l \in Loaders, Crash(l) PROVE StagedInFull'
    BY <1>17 DEF Crash, EndTransaction
  <1>18. CASE UNCHANGED vars
    BY <1>18 DEF vars
  <1>19. QED
    BY <1>1, <1>2, <1>3, <1>4, <1>5, <1>6, <1>7, <1>8, <1>9, <1>10, <1>11, <1>12,
       <1>13, <1>14, <1>15, <1>16, <1>17, <1>18 DEF Next, Step

\* Repeating a SUCCEEDED load that shares no event with another is a no-op
\* (postgres_loader.py:154-160).
THEOREM UnsharedReloadsAreNoops == Spec => []UnsharedReloadIsNoop
<1>1. Init => Provenance /\ StagedInFull
  BY DEF Init, Provenance, StagedInFull, IsServed, Status, NotLoaded
<1>2. ReloadInv /\ LoaderInv' /\ [Next]_vars => ReloadInv'
  BY ProvenanceStep, StagedInFullStep DEF ReloadInv
<1>3. ReloadInv => UnsharedReloadIsNoop
  <2> SUFFICES ASSUME ReloadInv, NEW l \in Loaders, pc[l] = "reconcile", Unshared(job[l])
               PROVE  Cardinality(GoldRows(job[l])) = Declared[job[l]]
    BY DEF UnsharedReloadIsNoop
  <2>1. /\ job[l] \in Manifests
        /\ Status(job[l]) = "SUCCEEDED"
        /\ Rows[job[l]] \subseteq Served
    BY DEF ReloadInv, LoaderInv, TypedJobs, JobKnown, Ownership, SuccessKnown, TablesAgree
  <2>2. \A e \in Served : event_detail[e].gold \in Manifests /\ e \in Rows[event_detail[e].gold]
    BY DEF ReloadInv, LoaderInv, TypedJobs, TypeOK, Row, Provenance, Served, IsServed
  <2>3. GoldRows(job[l]) = Rows[job[l]]
    BY <2>1, <2>2 DEF Unshared, GoldRows, RowsUnder, Served, IsServed
  <2>4. QED
    BY <2>1, <2>3 DEF ReloadInv, StagedInFull
<1>4. QED
  BY <1>1, <1>2, <1>3, LoaderInvariant, PTL DEF Spec, ReloadInv
=============================================================================
