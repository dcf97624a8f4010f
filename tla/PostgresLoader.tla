--------------------------- MODULE PostgresLoader ---------------------------
(***************************************************************************)
(* The bulk loader of serving/postgres_loader.py, run by any number of     *)
(* loader processes against one PostgreSQL database at READ COMMITTED.     *)
(*                                                                         *)
(* One invocation registers the load (a first transaction, committed at    *)
(* line 192) and then stages, checks, counts, inserts, recounts and        *)
(* publishes in a second transaction.  A step of the model is one SQL      *)
(* statement, or one row of the INSERT, because at READ COMMITTED every    *)
(* statement sees what other transactions have committed by then, and a    *)
(* row that another open transaction inserted makes the INSERT wait.       *)
(***************************************************************************)
EXTENDS Naturals, FiniteSets

CONSTANTS
  Loaders,    \* loader processes
  Events,     \* event identities (event_id, the primary key)
  Hashes,     \* governed content hashes
  Manifests,  \* Gold manifests: idempotency_key and gold_run_id in one
  Rows,       \* Rows[m]: the events in the load artifacts of m
  Hash,       \* Hash[m][e]: the governed content hash of e in m
  Declared,   \* Declared[m]: the expected_rows admitted by load_manifest
  NoManifest, NoEvent, NoRow, NoContent

ASSUME LoaderAssumption ==
  /\ IsFiniteSet(Events)
  /\ Rows \in [Manifests -> SUBSET Events]
  /\ Hash \in [Manifests -> [Events -> Hashes]]
  /\ Declared \in [Manifests -> Nat]
  /\ NoManifest \notin Manifests
  /\ NoEvent \notin Events
  /\ NoRow \notin [gold : Manifests, hash : Hashes]
  /\ NoContent \notin Hashes

VARIABLES
  \* the database, as committed
  event_detail,  \* event_detail[e]: the row of serving.event_detail, or NoRow
  load_run,      \* load_run[m]: the row of load_control.database_load_run
  summary,       \* summary[m]: the detail rows the summary tables aggregate
  \* the loader processes and their open transactions
  pc,            \* pc[l]: the statement loader l executes next
  job,           \* job[l]: the manifest of l's current or last invocation
  before,        \* before[l]: the row count read before the INSERT
  todo,          \* todo[l]: staged rows the INSERT has not reached yet
  waiting,       \* waiting[l]: the row another transaction makes l wait for
  pending,       \* pending[l]: rows l inserted in its open transaction
  result         \* result[l]: how l's last invocation ended

database == <<event_detail, load_run, summary>>
session  == <<before, todo, waiting, pending>>
vars     == <<database, pc, job, session, result>>

Row     == [gold : Manifests, hash : Hashes]
LoadRun == [status : {"ABSENT", "RUNNING", "SUCCEEDED", "FAILED"},
            inserted : SUBSET Events]

NotLoaded == [status |-> "ABSENT", inserted |-> {}]

\* The statements of the serving transaction, inside the try block.
Transaction == {"stage", "check", "count", "insert", "publish"}
Statements  == Transaction \union
               {"idle", "lookup", "reconcile", "register", "rollback", "committed"}
Results     == {"none", "loaded", "noop", "raised", "rejected", "crashed"}

Status(m)     == load_run[m].status
IsServed(e)   == event_detail[e] # NoRow
Served        == {e \in Events : IsServed(e)}
RowsUnder(detail, m) == {e \in Events : detail[e] # NoRow /\ detail[e].gold = m}
GoldRows(m)   == RowsUnder(event_detail, m)
Staged(l)     == Rows[job[l]]
RowOf(m, e)   == [gold |-> m, hash |-> Hash[m][e]]
Conflicts(m)  == {e \in Rows[m] \intersect Served : event_detail[e].hash # Hash[m][e]}
Locked(l, e)  == \E k \in Loaders \ {l} : e \in pending[k]

Init ==
  /\ event_detail = [e \in Events |-> NoRow]
  /\ load_run = [m \in Manifests |-> NotLoaded]
  /\ summary = [m \in Manifests |-> {}]
  /\ pc = [l \in Loaders |-> "idle"]
  /\ job = [l \in Loaders |-> NoManifest]
  /\ before = [l \in Loaders |-> 0]
  /\ todo = [l \in Loaders |-> {}]
  /\ waiting = [l \in Loaders |-> NoEvent]
  /\ pending = [l \in Loaders |-> {}]
  /\ result = [l \in Loaders |-> "none"]

-----------------------------------------------------------------------------
\* Control flow shared by the statements.
Goto(l, s) == pc' = [pc EXCEPT ![l] = s]

\* Mutant: the rollback is forgotten and the rows stay locked.
EndTransactionKeepsRows(l) ==
  /\ before' = [before EXCEPT ![l] = 0]
  /\ todo' = [todo EXCEPT ![l] = {}]
  /\ waiting' = [waiting EXCEPT ![l] = NoEvent]
  /\ UNCHANGED pending

\* The transaction context manager rolls back: the rows go, the waiters are
\* released and the connection forgets what the transaction had read.
EndTransaction(l) ==
  /\ before' = [before EXCEPT ![l] = 0]
  /\ todo' = [todo EXCEPT ![l] = {}]
  /\ waiting' = [waiting EXCEPT ![l] = NoEvent]
  /\ pending' = [pending EXCEPT ![l] = {}]

Abort(l) ==
  /\ Goto(l, "rollback")
  /\ EndTransaction(l)
  /\ UNCHANGED <<database, job, result>>

Return(l, r) ==
  /\ Goto(l, "idle")
  /\ result' = [result EXCEPT ![l] = r]

\* A statement that only decides where to go.
Branch(l, s) == Goto(l, s) /\ UNCHANGED <<database, job, session, result>>

-----------------------------------------------------------------------------
\* The first transaction: look the manifest up, register the load.

\* A scheduler or an operator runs the loader on an admitted manifest.
Invoke(l, m) ==
  /\ pc[l] = "idle"
  /\ Goto(l, "lookup")
  /\ job' = [job EXCEPT ![l] = m]
  /\ result' = [result EXCEPT ![l] = "none"]
  /\ UNCHANGED <<database, session>>

\* Only a SUCCEEDED run counts as existing.
Lookup(l) ==
  /\ pc[l] = "lookup"
  /\ Branch(l, IF Status(job[l]) = "SUCCEEDED" THEN "reconcile" ELSE "register")

\* The no-op path: the rows of that Gold run must still be all there.
Reconcile(l) ==
  /\ pc[l] = "reconcile"
  /\ Return(l, IF Cardinality(GoldRows(job[l])) = Declared[job[l]]
                 THEN "noop" ELSE "raised")
  /\ UNCHANGED <<database, job, session>>

\* gold_run, database_load_run and loaded_artifact rows, committed together.
Register(l) ==
  /\ pc[l] = "register"
  /\ Status(job[l]) = "ABSENT"
  /\ load_run' = [load_run EXCEPT ![job[l]].status = "RUNNING"]
  /\ Goto(l, "stage")
  /\ UNCHANGED <<event_detail, summary, job, session, result>>

\* Mutant: a duplicate key is taken for a completed load.
RegisterRejectedAsNoop(l) ==
  /\ pc[l] = "register"
  /\ Status(job[l]) # "ABSENT"
  /\ Return(l, "noop")
  /\ UNCHANGED <<database, job, session>>

\* idempotency_key is UNIQUE whatever the status of the row that holds it, and
\* the INSERT stands before the try block: the error leaves load().
RegisterRejected(l) ==
  /\ pc[l] = "register"
  /\ Status(job[l]) # "ABSENT"
  /\ Return(l, "rejected")
  /\ UNCHANGED <<database, job, session>>

-----------------------------------------------------------------------------
\* The second transaction: serve the rows and record success together.

\* COPY into the temporary table, then compare the number of rows.
StageComplete(l) == Cardinality(Staged(l)) = Declared[job[l]]

Stage(l) ==
  /\ pc[l] = "stage"
  /\ IF StageComplete(l) THEN Branch(l, "check") ELSE Abort(l)

\* Mutant: no content check.
CheckNothing(l) ==
  /\ pc[l] = "check"
  /\ Branch(l, "count")

\* Staged rows against the rows committed when the SELECT starts.
CheckConflicts(l) ==
  /\ pc[l] = "check"
  /\ IF Conflicts(job[l]) = {} THEN Branch(l, "count") ELSE Abort(l)

\* Mutant: the first count reads this Gold run only.
CountBeforeOfRun(l) ==
  /\ pc[l] = "count"
  /\ Goto(l, "insert")
  /\ before' = [before EXCEPT ![l] = Cardinality(GoldRows(job[l]))]
  /\ todo' = [todo EXCEPT ![l] = Staged(l)]
  /\ UNCHANGED <<database, job, waiting, pending, result>>

CountBefore(l) ==
  /\ pc[l] = "count"
  /\ Goto(l, "insert")
  /\ before' = [before EXCEPT ![l] = Cardinality(Served)]
  /\ todo' = [todo EXCEPT ![l] = Staged(l)]
  /\ UNCHANGED <<database, job, waiting, pending, result>>

\* One row of INSERT ... ON CONFLICT (event_id) DO NOTHING: a committed row
\* wins, a row of an open transaction has to be waited for.
Reaches(l, e) ==
  /\ pc[l] = "insert"
  /\ e \in todo[l]
  /\ waiting[l] \in {NoEvent, e}

\* Mutant: a row another transaction is inserting passes for present.
InsertRowNoWait(l, e) ==
  /\ Reaches(l, e)
  /\ todo' = [todo EXCEPT ![l] = @ \ {e}]
  /\ waiting' = [waiting EXCEPT ![l] = NoEvent]
  /\ pending' = [pending EXCEPT ![l] =
                   IF IsServed(e) \/ Locked(l, e) THEN @ ELSE @ \union {e}]
  /\ UNCHANGED <<database, pc, job, before, result>>

\* Mutant: the connection is in autocommit mode.
InsertRowAutocommit(l, e) ==
  /\ Reaches(l, e)
  /\ ~ Locked(l, e)
  /\ todo' = [todo EXCEPT ![l] = @ \ {e}]
  /\ waiting' = [waiting EXCEPT ![l] = NoEvent]
  /\ event_detail' = [event_detail EXCEPT ![e] =
                        IF IsServed(e) THEN @ ELSE RowOf(job[l], e)]
  /\ UNCHANGED <<load_run, summary, pc, job, before, pending, result>>

InsertRow(l, e) ==
  /\ Reaches(l, e)
  /\ ~ Locked(l, e)
  /\ todo' = [todo EXCEPT ![l] = @ \ {e}]
  /\ waiting' = [waiting EXCEPT ![l] = NoEvent]
  /\ pending' = [pending EXCEPT ![l] = IF IsServed(e) THEN @ ELSE @ \union {e}]
  /\ UNCHANGED <<database, pc, job, before, result>>

WaitForRow(l, e) ==
  /\ Reaches(l, e)
  /\ Locked(l, e)
  /\ waiting[l] = NoEvent
  /\ waiting' = [waiting EXCEPT ![l] = e]
  /\ UNCHANGED <<database, pc, job, before, todo, pending, result>>

\* The waits-for graph is a partial function, so a set of loaders that wait
\* for exactly each other is a union of cycles; PostgreSQL ends one of them
\* with an error.
InCycle(l) ==
  \E S \in SUBSET Loaders :
    /\ l \in S
    /\ \A k \in S : waiting[k] # NoEvent
    /\ S = {h \in Loaders : \E k \in S : h # k /\ waiting[k] \in pending[h]}

DeadlockVictim(l) ==
  /\ pc[l] = "insert"
  /\ InCycle(l)
  /\ Abort(l)

\* The row count after the INSERT sees what others committed meanwhile.
Reconciles(l) ==
  Cardinality(Served \union pending[l]) = before[l] + Cardinality(pending[l])

Recount(l) ==
  /\ pc[l] = "insert"
  /\ todo[l] = {}
  /\ IF Reconciles(l) THEN Branch(l, "publish") ELSE Abort(l)

\* Mutant: ON CONFLICT DO UPDATE.
CommittedUpsert(l) ==
  [e \in Events |-> IF e \in Staged(l) THEN RowOf(job[l], e) ELSE event_detail[e]]

\* event_detail once the open transaction of l commits.
Committed(l) ==
  [e \in Events |-> IF e \in pending[l] THEN RowOf(job[l], e) ELSE event_detail[e]]

\* Rebuild the three summaries of this Gold run from its detail rows, mark the
\* run SUCCEEDED with its counts, and commit all of it with the rows.
Publish(l) ==
  /\ pc[l] = "publish"
  /\ event_detail' = Committed(l)
  /\ summary' = [summary EXCEPT ![job[l]] = RowsUnder(Committed(l), job[l])]
  /\ load_run' = [load_run EXCEPT ![job[l]] =
                    [status |-> "SUCCEEDED", inserted |-> pending[l]]]
  /\ Goto(l, "committed")
  /\ EndTransaction(l)
  /\ UNCHANGED <<job, result>>

Report(l) ==
  /\ pc[l] = "committed"
  /\ Return(l, "loaded")
  /\ UNCHANGED <<database, job, session>>

-----------------------------------------------------------------------------
\* Failures.

\* Mutant: the handler also catches what happens after the commit.
ErrorAfterCommit(l) ==
  /\ pc[l] \in Transaction \union {"committed"}
  /\ Abort(l)

\* Any statement of the second transaction may fail: a constraint, a lock or
\* statement timeout, a full disk, a COPY that cannot be parsed.
Error(l) ==
  /\ pc[l] \in Transaction
  /\ Abort(l)

\* Mutant: the failure is recorded under a status of its own.
RecordFailureAsAborted(l) ==
  /\ pc[l] = "rollback"
  /\ load_run' = [load_run EXCEPT ![job[l]].status = "ABORTED"]
  /\ Return(l, "raised")
  /\ UNCHANGED <<event_detail, summary, job, session>>

\* The handler's own transaction marks this load run FAILED and re-raises.
RecordFailure(l) ==
  /\ pc[l] = "rollback"
  /\ load_run' = [load_run EXCEPT ![job[l]].status = "FAILED"]
  /\ Return(l, "raised")
  /\ UNCHANGED <<event_detail, summary, job, session>>

\* The process dies or loses its connection: the server rolls back, nothing
\* is recorded.  After the commit this is a lost reply: the load stands and
\* the caller sees an error.  It also stands for errors outside the try.
Crash(l) ==
  /\ pc[l] # "idle"
  /\ Return(l, "crashed")
  /\ EndTransaction(l)
  /\ UNCHANGED <<database, job>>

-----------------------------------------------------------------------------
\* The statements of an invocation that is running.
Step(l) ==
  \/ Lookup(l) \/ Reconcile(l) \/ Register(l) \/ RegisterRejected(l)
  \/ Stage(l) \/ CheckConflicts(l) \/ CountBefore(l)
  \/ \E e \in Events : InsertRow(l, e) \/ WaitForRow(l, e)
  \/ DeadlockVictim(l) \/ Recount(l) \/ Publish(l) \/ Report(l) \/ RecordFailure(l)

Next ==
  \E l \in Loaders :
    \/ \E m \in Manifests : Invoke(l, m)
    \/ Step(l)
    \/ Error(l)
    \/ Crash(l)

Spec == Init /\ [][Next]_vars

\* A live process and server execute the next statement; nothing obliges anyone
\* to invoke the loader, and errors and crashes are never obliged to happen.
FairSpec == Spec /\ \A l \in Loaders : WF_vars(Step(l))

-----------------------------------------------------------------------------
\* Properties.

\* The type of the tables, of the transactions and of the results.
TypeOK ==
  /\ event_detail \in [Events -> Row \union {NoRow}]
  /\ load_run \in [Manifests -> LoadRun]
  /\ summary \in [Manifests -> SUBSET Events]
  /\ pc \in [Loaders -> Statements]
  /\ job \in [Loaders -> Manifests \union {NoManifest}]
  /\ before \in [Loaders -> Nat]
  /\ todo \in [Loaders -> SUBSET Events]
  /\ waiting \in [Loaders -> Events \union {NoEvent}]
  /\ pending \in [Loaders -> SUBSET Events]
  /\ result \in [Loaders -> Results]

\* A SUCCEEDED load serves every row of its manifest, and load control, the
\* detail table and the summaries tell the same story about the Gold run; a
\* load that has not succeeded has left nothing behind
\* (postgres_loader.py:195-271).
TablesAgree ==
  \A m \in Manifests :
    /\ Status(m) = "SUCCEEDED" => Rows[m] \subseteq Served
    /\ summary[m] = GoldRows(m)
    /\ load_run[m].inserted = GoldRows(m)
    /\ Status(m) # "SUCCEEDED" => GoldRows(m) = {}

\* A caller told that its load succeeded, or that it was a no-op, can rely on
\* it: the run is recorded and every row is served (postgres_loader.py:148-160
\* and 271), whatever other loaders, errors and crashes did in between.
ReportIsDurable ==
  \A l \in Loaders :
    result[l] \in {"loaded", "noop"} =>
      Status(job[l]) = "SUCCEEDED" /\ Staged(l) \subseteq Served

\* No step rewrites or removes a served row: identity, lineage and content of
\* an event are those of the load that served it first
\* (INSERT ... ON CONFLICT DO NOTHING, postgres_loader.py:68).
RowsNeverRewritten ==
  [][\A e \in Events : IsServed(e) => event_detail'[e] = event_detail[e]]_vars

\* Success is final: no late failure handler, retry or rival loader demotes a
\* SUCCEEDED run or touches its summaries (postgres_loader.py:263-278).
SuccessIsFinal ==
  [][\A m \in Manifests : Status(m) = "SUCCEEDED" =>
       load_run'[m] = load_run[m] /\ summary'[m] = summary[m]]_vars

\* What readers of the projection see, and what load control has admitted.
ReaderContent ==
  [e \in Events |-> IF IsServed(e) THEN event_detail[e].hash ELSE NoContent]
Admitted == {m \in Manifests : Status(m) = "SUCCEEDED"}

Projection == INSTANCE ServingProjection
                WITH served <- ReaderContent, admitted <- Admitted

\* Serving changes and load-control success are committed atomically, in full
\* or not at all, for any number of concurrent loaders
\* (GOLD_SERVING_CONTRACT.md:85; postgres_loader.py:195-270).
AdmitsAtomically == Projection!AtomicSpec

\* One loader at a time keeps the whole contract: a manifest that contradicts
\* served content is not admitted (postgres_loader.py:204-210).
KeepsContract == Projection!ContractSpec

\* Without a rival the recount never fails: a load is not refused for rows that
\* nobody else committed (postgres_loader.py:211-215).
RecountReconciles ==
  \A l \in Loaders : pc[l] = "insert" /\ todo[l] = {} => Reconciles(l)

\* A repeated load of a SUCCEEDED manifest whose events are in no other manifest
\* finds its rows and is a no-op (postgres_loader.py:154-160).
Unshared(m) == \A n \in Manifests \ {m} : Rows[m] \intersect Rows[n] = {}

UnsharedReloadIsNoop ==
  \A l \in Loaders : pc[l] = "reconcile" /\ Unshared(job[l]) =>
    Cardinality(GoldRows(job[l])) = Declared[job[l]]

\* Every invocation ends: loaders that wait for each other's rows are released
\* by a commit, a rollback or the deadlock detector.
InvocationEnds == \A l \in Loaders : pc[l] # "idle" ~> pc[l] = "idle"

-----------------------------------------------------------------------------
\* Claims of the repository that the code does not keep.

\* GOLD_SERVING_CONTRACT.md:87, "Treat a differing content hash for an existing
\* event ID as a hard failure.": a SUCCEEDED load served its own content.
SucceededContentMatches ==
  \A m \in Manifests : Status(m) = "SUCCEEDED" => Conflicts(m) = {}

\* GOLD_SERVING_CONTRACT.md:86, "Treat a matching existing event as an
\* idempotent no-op.": repeating a SUCCEEDED load is one, whoever served the
\* rows first.
ReloadIsNoop ==
  \A l \in Loaders : pc[l] = "reconcile" =>
    Cardinality(GoldRows(job[l])) = Declared[job[l]]

\* DATA_DICTIONARY.md:98, the idempotency key is "unique per admitted database
\* load": a load is refused for its key only when that key was admitted.
KeyNamesAdmittedLoad ==
  \A l \in Loaders : result[l] = "rejected" => Status(job[l]) = "SUCCEEDED"
=============================================================================
