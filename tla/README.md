# A formal model of the NASA Earth observation event platform

TLA+ modules for the parts of the platform in which processes, transactions,
retries or crashes meet, the TLC configurations that check them, and TLAPS
proofs of the results that matter most. Paths below are relative to the
repository; `…/` stands for `src/eo_event_platform/`.

    tlc -workers 2 -config LoaderConcurrent.cfg MCPostgresLoader.tla   # a check
    tlapm PostgresLoaderProofs.tla                                     # the proofs

`PROJECT.json` maps every definition to the source lines it stands for, lists
the runs, the mutants that show that each property can fail, the findings, the
hazards and the theorems.

## 1. The system

Satellite fire detections are extracted (NASA FIRMS), canonicalized into events,
multiplied by a deterministic replay, published to Kafka, turned into Silver
tables by batch and by streaming Spark jobs, built into Gold artifacts, loaded
into PostgreSQL and served by a read-only API. An Airflow DAG runs the batch
half. Components talk through files with manifests (a manifest is written last
and names checksums and counts), through Kafka offset ranges recorded in
manifests, through two PostgreSQL schemas, and through XCom checksums.

| Component | Source | State | Operations | What makes it correct | Status |
|---|---|---|---|---|---|
| Batch orchestration | `…/orchestration/runtime.py`, `dags/` | run manifest with a receipt per stage, DAG run, attempts | initialize, execute a stage, finalize; retries, timeouts, reruns | receipts form a chain, success is complete, final and reused; every run ends | `Orchestration` |
| PostgreSQL loader | `…/serving/postgres_loader.py`, migration 001 | load-control rows, event rows, summaries, open transactions | look up, register, stage, check, insert, recount, publish, record failure | a manifest is served whole or not at all, rows are never rewritten, reports are true | `PostgresLoader` |
| Kafka producer and diagnostic consumer | `…/streaming/kafka/{producer,consumer,contracts}.py` | topic log, watermarks, delivery reports, consumer positions | produce, flush, reconcile, seek, poll, judge | recorded ranges hold the run's messages and nothing else; verdicts are about the artifact | `KafkaReplay` |
| Kafka failure router | `…/streaming/kafka/failure_router.py` | two output topics, attempt counts | attempt, route, verify, reconcile | every source record passes or is routed once | `FailureRouter` |
| Streaming Silver | `…/spark/streaming/kafka_to_silver.py` | three outputs, three checkpoints, watermark state | three `availableNow` queries, verification | outcomes partition the input; a restart repeats nothing | `StreamingSilver` |
| Batch Silver | `…/spark/batch/` | classified rows | validate, deduplicate, write, verify | one accepted occurrence per event; every row has one outcome | `BatchSilver` |
| Gold build | `…/gold/build.py` | artifacts and manifest | check inputs, write, describe | the manifest describes what is there | `BatchSilver` |
| FIRMS extractor | `…/ingestion/nasa_firms/extractor.py` | raw object, manifest | request with retries, validate, write atomically | SUCCEEDED only with the raw object in place | `FirmsExtractor` |
| Canonicalization, scale gate | `…/events/` | accepted and rejected events | validate, deduplicate, select | deterministic, one event per detection | `Canonicalizer` |
| Replay generator, verifier | `…/replay/` | events file, manifest | generate, reconcile, rename, describe, verify | sequence numbers complete, ids unique | `ReplayGenerator` |
| API cache | `…/api/cache.py`, `…/api/app.py` | entries in LRU order, byte total, counters | get, set, evict, load | bounds hold, the oldest go first, staleness is bounded | `ApiCache` |
| API queries, status | `…/api/{repository,status}.py` | none (reads) | summary, daily, lineage, bbox pages | pages neither skip nor repeat | `ServingReads` (lineage, bbox) |
| Serving verification | `…/serving/verify.py` | none (reads) | compare tables with the manifest | accepts exactly sound tables | `ServingReads` |
| Topic administration | `…/streaming/kafka/admin.py` | topics | create, compare | topics match their contract | not modelled |
| Dashboard, benchmarks, models, CLI | `…/dashboard/`, `…/api/benchmark.py`, `…/serving/compact_benchmark.py`, … | none | reads, parsing | — | not modelled |

What is hard here, and where each hazard bites, is the `hazards` list of
`PROJECT.json`: manifests read before and written back after hours of work,
two loaders at READ COMMITTED, counts used as proof of content, delivery
reports that come late or never, retention, files that are hashed and then
opened again, checkpoints that outlive their process, and crashes between two
writes.

## 2. The modules

### PostgresLoader, ServingProjection

`PostgresLoader` runs any number of loader processes on one database. One action
is one SQL statement of `load()`, or one row of the `INSERT … ON CONFLICT DO
NOTHING`, because at READ COMMITTED every statement sees what is committed when
it starts and a row of another open transaction makes the insert wait.

| Code | Model |
|---|---|
| `serving.event_detail`, `load_control.database_load_run`, summaries | `event_detail`, `load_run`, `summary` (committed contents) |
| an open serving transaction | `pending` (its rows), `todo`, `before`, `waiting` |
| `load()` lines 146–160: lookup, no-op reconciliation | `Lookup`, `Reconcile` |
| lines 162–192: registration, unique key | `Register`, `RegisterRejected` |
| lines 195–216: stage, conflict check, counts, insert | `Stage`, `CheckConflicts`, `CountBefore`, `InsertRow`, `WaitForRow`, `Recount` |
| lines 217–271: summaries, SUCCEEDED, commit, return | `Publish`, `Report` |
| lines 272–279: rollback, then FAILED in a transaction of its own | `Error`, `RecordFailure` |
| PostgreSQL and the process (external) | `Locked`, `DeadlockVictim`, `Crash` |

`ServingProjection` is the abstract specification: `AtomicSpec` admits a whole
manifest in one step and lets served events keep their content; `ContractSpec`
also refuses a manifest that contradicts served content, as
`contracts/gold/GOLD_SERVING_CONTRACT.md` demands. `PostgresLoader` maps the
rows readers see to `served` and the SUCCEEDED runs to `admitted`.

Row contents are reduced to the governed hash, manifests to their identity.
Columns, indexes, roles and the exact time of locks on the load-control rows are
left out. The order in which a transaction reaches its rows is free, as it is
for a hash or sequential scan of the staging table.

### Orchestration

The DAG runs of one logical run share one manifest file. An attempt reads the
whole manifest (`Begin`), works, and writes the whole manifest back from what it
had read (`CommandSucceeds`, `CommandFails`); this gap is the point of the
model. `initialize_run` is `InitializeNew`, `InitializeAgain` and
`InitializeConflict`; the early returns and raises of `execute_stage` are
`RefuseUpstream`, `Reuse` and `RefuseConflict`; `finalize_run` is `Finalize` and
`FinalizeRefused`. `Trigger`, `TaskSucceeded`, `TaskFailed` and `DagRunTimeout`
are the DAG with its retries, `max_active_runs=1` and timeouts. Workers die
(`Crash`), attempts are given up although they live on (`GiveUp`, Airflow's
zombie detection), and the deployed revision changes (`Deploy`).

Writing a manifest is one step: `_atomic_json` (runtime.py:94) writes a temporary
file and renames it. The temporary has one name for all attempts; two live ones that
write within the same moment could move each other's content, or miss the file they
rename. That collision is left out: the model has either write whole, in either order.
Stage commands are external; an attempt ends with a checksum, an error, or not
at all. Two successful executions of a stage may produce different checksums.

### KafkaReplay

One producer run in full, on a topic that other runs write to: what they are to
this run is records it did not write, so their steps are `WriteOther`. The run
reads the start watermarks partition by partition (`ReadStart`), produces
through a bounded queue (`Produce`), gets delivery reports while it polls
(`Deliver`, `Expire`), flushes, possibly with a remainder (`Flush`), reads the
end watermarks (`ReadEnd`) and reconciles counts (`Reconcile`). `Store` is the
broker: it keeps the order within a partition, may append a message whose
report has failed, and may do so after the run has ended. A diagnostic run seeks
to the recorded starts (`Diagnose`, or `Refuse` for a failed manifest), polls
partitions in any order (`Poll`), gives up (`GiveUp`) or judges (`Judge`).
`Retain` is log retention.

Of the thirteen quality checks the model keeps those on counts, event ids and
sequence numbers. A message is an id, a sequence number and a key. Checksum and
JSON errors before a message is sent end the run as `Crash` does.

### ApiCache

The aggregate cache of one API process, and the path of a request through it.
`get` and `set` hold the cache's lock, so each is one action; the query runs
between them without the lock, and other requests, time and loads come in
between. The backend can be replaced, so its calls may fail; the request then
goes on without it.

| Code | Model |
|---|---|
| `_entries` (an `OrderedDict`), `_total_bytes`, the counters | `order` and `entries`, `total`, `stats` |
| a request in `cached_aggregate` | `work[w]`: what it asks, when it came, what it has read |
| `cache.get`: lines 75–88 | `Hit`, `Expire`, `Miss`; `ReadFails` |
| `loader()`, the exception handlers | `Query`, `QueryFails` |
| `cache.set`: lines 95–111 | `Reject`, `Store` with the eviction loop in `Evictions`; `WriteFails` |
| `Cache-Control: no-cache`, `no-store` | `bypass`, `AnswerUncached` |
| the monotonic clock, the tables (external) | `Tick`, `LoadCommits` |

A payload is the version of the tables it was computed from, and its size; every
aggregate is one SQL statement and so sees one version. Keys stand for what is
hashed into them. `ended` and `log` are history that no guard reads: when a
version was superseded, in what order keys were used, and how long the slowest
request took. That a stored payload could fail its own response model is left
out: what is stored was produced by that model.

### Lake, FirmsExtractor, Canonicalizer, ReplayGenerator, BatchSilver, BatchLake

The six batch stages meet on disk, so they share one model. `Lake` holds what
they have in common: `runs`, a sequence of stage runs with the files each has put
in place (`parts`) and its manifest (`status`, `recorded`); `damage`, the files
replaced since; and the steps every stage takes, `Begin`, `WritePart` (one rename)
and `End`. Every run has a fresh id, hence a directory of its own, and the batch
half runs one stage at a time: the last run is the one that may be under way.

| Code | Model |
|---|---|
| `extract`, lines 168–328: requests, retries, raw object, manifest, handler | `Extract`, `RequestCsv`, `Retry`, `WritePart`, `PublishExtraction`, `ExtractionFailed` |
| `canonicalize`: manifest and checksum, then a second read, the row loop, three files, manifest | `Canonicalize`, `CheckSource`, `ReadRows`, `WritePart`, `PublishCanonical`, `CanonicalizationFailed` |
| `select_scale_gate_events` | `Select`, `CheckSelection`, `WritePart`, `PublishSelection` |
| `generate_replay`, `verify_manifest` | `Generate`, `CheckReplaySource`, `GenerateReplay`, `WritePart`, `PublishReplay`; `ReplayVerified` |
| the Silver job: conditions, numbering, three datasets, manifest; the truth verification | `ProcessBatch`, `ProcessHandMade`, `Classify`, `WritePart`, `PublishSilver`; `SilverVerified` |
| the Gold build | `BuildGold`, `CheckSilver`, `WriteGold`, `PublishGold` |
| exceptions and their handlers, death of the process, half a Spark dataset | `Exception`, `Crash`, `Leftovers` |
| anybody who replaces a file on disk (external) | `Damage` |

The rows are records of tokens. A field of the raw row stands for all the fields
that the code treats alike (`place` for the two coordinates, `text` for the
required texts), with one value for each branch; `Checks` in `BatchSilver` keeps
all conditions of the Silver job, in SQL's three-valued logic, in which a missing
value makes a condition neither true nor false. A checksum is the content it was
computed from, an id is its ingredients.

`LakeContract` is the abstract specification: a ledger of successful results to
which entries are added one at a time, each of them what the contracts of the
repository say its input leads to, from an input that a successful run entered
before. It is written from the contracts and takes from the stages only the
identity of a detection. Where the Silver job departs from its contract, an
exception has a name: a line is `Overlooked` if it breaks no admission rule
(`Admissible`) but one of the three the job has no condition for (a missing schema
version, a replay without a parent, an original with the id of another run);
a valid line is `Preempted` if it became a duplicate behind a rejected line of its
id, with none accepted. Both occur in the hand-made files of `LakeRuns` (section 5).
`BatchLake` composes the stages and implements the ledger. A
result is left out of the ledger if a file its run used was replaced between the
check and the use (`raced`): that gap is real, and what is claimed is what holds
outside it.

### FailureRouter

One router run in full, on two output topics that other runs write to. It reads
the start watermarks (`ReadStart`), takes the messages of the recorded range from
any partition (`Consume`), makes its attempts (`Process`), hands envelopes to a
bounded queue (`Produce`), gets reports while it polls (`Deliver`, `Expire`),
flushes, reads the end watermarks, counts one topic after the other (`Count`,
`VerifyNext`) and reconciles. `Store` is the broker as in `KafkaReplay`, with
message order per partition, appends whose report failed, and appends after the
end. `Raise` is every way to end without a manifest, the fifteen-second timeouts
included. A message is its class (valid, invalid, or carrying the fault marker)
and its output partition; the fifteen conditions of `validation_errors` are one bit.

### StreamingSilver

One streaming run and its repeated executions. A query has a checkpoint (`ck`)
and a sink; Spark's part in it is external and modelled by its documented
protocol: a batch is entered in the offset log (`PlanBatch`), its rows are
written and entered in the log of the file sink (`WriteBatch`), the batch is
committed (`CommitBatch`). An execution that dies anywhere (`Crash`) leaves all
that, and the next one (`Execute`) goes on from it. The three queries run one
after the other, each to the latest offsets of its own start (`StartQuery`), then
the counts and offsets are compared (`Check`). Deduplication keeps an id for the
delay behind its time and drops rows behind the watermark; the watermark that
drops rows is that of the batch before (`late`, `evict`), and a batch without
messages lets the first catch up with the second. `Share` is Spark's division of
`maxOffsetsPerTrigger`. `WriteOther` is another producer.

### ServingReads

Extends `PostgresLoader` by a reader of the serving tables, which takes its steps
between any two of a loader. Readers change nothing and do not see each other, so
one stands for all. As a client of the API it asks for a summary and a page
(`ReadSummary`, `ReadPage`) and follows the cursor until there is none. As
`serving/verify.py` it makes nine comparisons (`Compared`), each on a snapshot of
its own, for both connections are in autocommit mode. `succeeded` is the order by
`completed_at`, which "the latest successful load" is found by.

## 3. The runs

| Run | Instance | What it shows |
|---|---|---|
| `LoaderConcurrent` | 2 loaders, 3 manifests, two of which share two events and contradict each other on one | `TablesAgree`, `ReportIsDurable`, `RowsNeverRewritten`, `SuccessIsFinal`, refinement `AdmitsAtomically`, and `InvocationEnds` under fairness |
| `LoaderSerial` | 1 loader and a reader, 4 manifests over 3 events of one detection: two that contradict each other, one disjoint, and that one declared a row short | with no rival the recount never fails (`RecountReconciles`) and the stronger contract `KeepsContract` is implemented; `PagesAreComplete` and `VerdictsAreExact` for what is read meanwhile |
| `LoaderLostConflict` | as `LoaderConcurrent` | violation: two contradicting loads both succeed |
| `LoaderReloadOverlap` | 1 loader, 2 agreeing manifests | violation: repeating a successful load raises |
| `LoaderKeyBurnt` | 1 loader, 2 manifests | violation: a failed load blocks its retries |
| `OrchestrationReruns` | 3 stages, 2 workers, 2 checksums, 2 revisions, 3 DAG runs, 2 faults | `NoHoles`, `CompleteWhenSucceeded`, `ReceiptChain`, `FinishedIsQuiet`, `SuccessIsReused`, and the liveness properties `RunEnds`, `RerunsSucceed` |
| `OrchestrationOverlap` | 2 stages, 1 DAG run | violation: an attempt given up too early erases a receipt |
| `KafkaRuns` | 2 partitions, artifacts of 0 to 3 messages, queue of 2, 2 foreign records, 1 deleted record per partition | `RangeIsArtifact`, `FailureHasCause`, `DiagnosisIsExact`, and the liveness properties `ProducerEnds`, `DiagnosisEnds` |
| `ApiCacheThreads` | 3 keys, 2 threads, room for 2 entries and 3 bytes, a TTL of 2, 4 requests, 1 load, 1 fault | `BooksAgree`, `AnswersAreRecent`, `EvictsForRoom` |
| `LakeRuns` | 6 raw objects, 252 hand-made event files, a target of 1, a factor of 2, a gate of 2, 2 HTTP attempts, 2 unsuccessful runs at most, 1 exception, crash or replaced file | the refinement `KeepsLedger` of `LakeContract`, `VerifiersAreExact`, `FailuresHaveCauses`, `RunsAdvance` |
| `RouterRuns` | 2 source and 2 output partitions per topic, ranges of 1 to 3 messages, 2 attempts, queue of 2, 1 foreign envelope | `RoutedExactly`, and the liveness property `RouterEnds` |
| `StreamingRuns` | 2 partitions, 3 event ids, one of them behind the delay of the others, 1 offset per trigger, 2 executions, 2 foreign messages | `OutcomesAreExact`, `RestartAddsNothing` |

`AnswersAreRecent` is worth reading closely. The TTL counts from the store, not
from the query, and a slow request may store an old result over a newer one: an
answer is less than the TTL *plus the time of the slowest request* old, and no
smaller bound holds. `BooksAgree` joins the two bounds, the byte total, the
recency order and the counters, which have to stay true together; with
`EvictsForRoom` it says that eviction makes room and makes no more than it must.
With payloads of different sizes the two bounds, entries and bytes, take turns
in forcing it.

`OutcomesAreExact` names what a successful streaming run does *not* show. Silver
holds no event twice, and Bronze is the recorded range, always. Silver and
quarantine are its outcomes unless a message could be late (`Spread`), or another
producer wrote between the queries while the range has duplicates, whose number is
what the other counts leave over. Both exceptions happen (section 5).

`KeepsLedger` speaks of successful runs only; `FailuresHaveCauses` is about the
others. As long as nothing raises, dies or is replaced, a stage refuses what the stage
before it has put in place for one of the reasons in `Cause` and for no other: the
ids that the canonicalization keeps apart pass the checks for unique ids downstream,
counts taken from manifests fit the files, and every read-back agrees. A replay of
successful results has no reason to fail at all.

`VerdictsAreExact` is one-sided in each direction. A passed verification is about
one load, although its queries share no snapshot: it asks for the latest
successful load in the middle and counts the rows again at the end. A failed one
is never about a database in which the expected load, of a complete replay, is
the only one.

**Why the bounds are enough.** The loader's hazards need two transactions that
share two rows (a deadlock needs two rows in opposite orders) and a third,
disjoint manifest to tell "shared" from "unshared"; a second invocation of the
same manifest is not bounded. In the orchestration three stages are the least
with a middle one, two workers the least for an attempt and its retry, and
`MaxRuns > MaxFaults` is what "reruns succeed" is about; both bounds appear in
the guards of `Trigger` and `Fault` only. In `KafkaReplay`, `Sound` has two
messages on one partition and one on the other, so that order, interleaved
watermarks and a full queue all occur; `Repeat`, `Gap` and the empty artifact are
what the verdict must tell from it. `MaxOthers` and `MaxExpired` bound the
environment: two foreign records allow one inside and one outside a range, or
both in it. In `ApiCache` two threads are the least that overlap; with room for
two of three keys an eviction has a choice to make; sizes grow with the load, so
that two entries fit by count and not by bytes, one payload becomes too large,
and a replacement changes the byte count; a clock of 2 with a TTL of 2 reaches
the second of expiry, and one load is what makes a result old. `MaxRequests`
bounds `Request`, the other bounds their environment.

In `LakeRuns` the raw objects hold two detections, so that a selection leaves
one out, a replay of both has an order to get wrong, and a replay of one meets
the gate of Gold; one of them has seven flawed rows before two valid rows of one
detection. The hand-made files are every event without a flaw or with one out of
22, for each of the three source types, alone and between two sound ones of the
same id, in three orders of row numbers, and then one of another id: 63 lines and,
with three files of four lines for each, 252 files. A run reads one source at most, so that
one fault at every step of every chain of stages shows what it can do to that
stage and to those behind it. A stage is tried again only while it has not
succeeded, and nothing starts after `MaxFailures + 1` unsuccessful runs: a stage
that failed once and is repeated, or one fed with what the failed run left, is
in. In `RouterRuns` the ranges have all three classes; one has more envelopes
than the queue holds, on one partition, and one has none. A foreign envelope
about the same message is the case that counts alone cannot tell. In
`StreamingRuns` a batch takes one message per partition, so that duplicates fall
into one batch and into two, and events 1 and 3 are further apart than the
delay; the second execution repeats whatever the first left at any step, and two
foreign messages can hide each other, or one of them a duplicate.

The theorems of section 4 do not depend on these bounds.

`CHECK_DEADLOCK FALSE` is set where the system may stop: when the allowed DAG
runs are used up; when the producer run has ended and nobody diagnoses it; when
the router run has ended; and when the API has answered all requests of the
instance. `LakeRuns` and `StreamingRuns` check for deadlock: there `Rest` is a
step of the operator who starts nothing, and is possible only while no run is
under way. In `LakeRuns`, with `RunsAdvance` (no step of a run leads back), the
absence of deadlock says that every run ends, which is cheaper to check there
than a liveness property and needs no fairness beyond that a live process goes
on.

**Fairness.** A live process executes its next statement (`Step`, `Publish`,
`Work`); the scheduler dispatches the task a run is at; a command that runs ends
somehow, because `execution_timeout` bounds it, but is never obliged to succeed;
librdkafka reports every message within `delivery.timeout.ms`; the consumer gets
to every assigned partition. The router has the same three assumptions
(`FairSpec`: `Route`, `Reports`, and `Count` for each partition); `RouterEnds`
then says that no run has to wait for an idle timeout of its verification.
`RerunsSucceed` also assumes that somebody triggers a rerun while runs are left.
Errors, crashes, timeouts, retention, foreign writes and invocations of the
loader are never obliged to happen.

## 4. What is proved

The proofs hold for every value of the constants that satisfies the `ASSUME` of
the module: any number of loaders, events, manifests, stages, retries, workers,
partitions, messages and faults. No theorem of this project is assumed.

**PostgresLoaderProofs.** `TablesAgree` is not inductive: publishing needs to
know what the open transaction holds. `LoaderInv` adds three facts: types, and
a job while a loader is busy; *ownership*, that a load registered as RUNNING and
in progress belongs to one loader, so that nobody else changes its row; and
*coverage*, that what the insert has passed is served or pending and that no two
transactions hold the same row. From it follow `TablesAlwaysAgree`,
`ReportsAreDurable`, `RowsAreNeverRewritten`, `SuccessStaysFinal` and the
refinement `LoaderAdmitsAtomically` (each step is `Admit` of one manifest, or a
stutter). With one loader (`SerialInv`) what was counted and checked stays true
until it is used, hence `SoleLoaderKeepsContract` and `SoleLoaderReconciles`.
`ReloadInv` adds where a row comes from, hence `UnsharedReloadsAreNoops`, for
manifests that share no event; for others `LoaderReloadOverlap` shows the opposite.

**OrchestrationProofs.** `Typed` adds to the types that the scheduler listens to
at most one attempt. `Sound` adds to `NoHoles` and `CompleteWhenSucceeded` that
the manifest an attempt *read* had no holes, was not complete, and that the
stage could start on it: writing it back is then safe however stale it is.
`Solo` describes the time in which no live attempt has been given up: the copy
of the only attempt is the manifest, and the checksum XCom hands on is that of
the last receipt. From it follow `ReceiptsFormAChain`, `FinishedRunsAreQuiet` and
`SuccessesAreReused`.

**KafkaReplayProofs.** `RangeIsArtifact` is about contents, the code compares
counts. `KafkaInv` says that what is reported delivered is in the log, behind the
start watermarks (they were read before anything was sent) and before the end
watermarks (they were read after everything was reported), and that the broker
keeps the order while nothing has failed. A reconciled run has as many offsets
in its ranges as messages, and each message has one: the map from messages to
offsets is injective, therefore surjective, and nothing else is in the ranges.
`CauseInv` is the same argument backwards: no message of the run is in the log
twice (`Single`), and after a flush without a remainder each has its report
(`Decided`), so a run that fails its counts has a failed or lost report or a
record of somebody else in its ranges (`FailuresHaveCauses`). With `DiagnosisInv`
(what a diagnostic run has seen lies in the recorded ranges) follows
`DiagnosesAreExact`, through retention and foreign records.

**ApiCacheProofs.** `CacheInv` joins types and `Listed` (the order lists the
cached keys once, within the entry bound) to two facts about age: what a request
has read was the truth at some time since it came in (`ReadRecent`), and what is
cached was the truth no earlier than a TTL and the slowest request before its
expiry (`CachedRecent`). The slowest request belongs in it, for the time between
a query and its store is all that separates the two. From it follow
`CacheIsListed` and `AnswersStayRecent`, for any number of threads and keys, any
TTL and any sizes. `BooksAgree` is inductive on top of `CacheInv`. Its byte total
is a sum over a finite set; that a sum grows by what is added to the set is shown
of a least subset for which it would not. The eviction loop keeps the longest end
of the order that fits, hence `EvictionsMakeRoom`.

**FailureRouterProofs.** `RouterInv` follows each message of the source range:
not yet read, in work with fewer attempts than allowed, passed, or handed over,
and only one of them (`Worked`); what the broker holds of the run was handed
over (`Handed`) and lies in its cell behind the start watermark, and before the
end watermark once that is read (`Placed`). `EndRead` makes the counting loop,
one topic and partition after the other, part of the invariant. Equal counts then
mean equal contents as in `KafkaReplayProofs`: `RoutesExactly`, for any number
of attempts and partitions.

**StreamingSilverProofs.** `StreamingInv` says where the queries are
(`CheckpointInv`, `PhaseInv`: a sink is one planned batch ahead of its checkpoint
at most), what their sinks hold (`RowsInv`: exactly what has been read up to
there, although a batch may be done twice), that an id is remembered as long as
a message with it would be in time (`SilverInv`), and that without late messages
Silver has every id read (`Complete`). From it follow `OutcomesExact`, for any
topic, delay and number of executions, and `RestartsAddNothing`, where `Settled`
keeps that a successful execution has left every query at the end of the topic.

**ServingReadsProofs.** The readers rest on the invariants of the loaders:
`ReadInv` adds to `ReloadInv` that load control lists the successful loads once
(`SucceededInv`) and that a client has got everything that was served when it
began up to its cursor, and nothing beyond (`PagesInv`); `RowsNeverRewritten`
carries it over the loads in between. `VerifyInv` describes the nine snapshots of
the verification: the served rows only grow, so two equal counts at two times
are counts of the same rows. Hence `PagesAreAlwaysComplete`, for any page size,
and `VerdictsAreAlwaysExact`.

**BatchLakeProofs.** Five sections.

1. The form of the runs. `LakeInv`: every run is somewhere in the code of its
   stage with the parts in place that it has put there, and only the last one is
   at work. From it `TypeCorrect` and `RunsAlwaysAdvance`: bounded attempts,
   exceptions and deaths included, no step leads back.
2. What the stages compute, for inputs of any length: `CanonicalHolds` (the loop
   over the rows is a recursive function, unfolded by a least counterexample),
   `RowErrorsAreExact` (the error codes of a row are the rules of the contract),
   `SparkErrorsAreExact` (the conditions of Silver, in three-valued logic and
   whatever is missing, let through what the contract admits and what it is
   `Overlooked` in, nothing else), `SelectionHolds`, `ReplayHolds` and `SilverHolds`
   (no line lost, none admitted twice, duplicates behind an accepted line of their
   id or `Preempted`).
3. The contents of the lake. `ContentInv`: what a run has computed is what the
   contract says of what it has read, what is in place is what it has computed,
   and what a manifest records is that (`Right`, `Recorded`); a run knows its
   source by the manifest of a successful run (`Sourced`); and the file a run has
   checked and will read again is as it was, unless it was replaced meanwhile
   (`Steady`). `ContentsAreRight` holds through exceptions, crashes, half-written
   datasets and replaced files.
4. The ledger. Each step enters one result or none, its output is right and its
   input was entered before (`LedgerStep`): `LakeKeepsLedger` is the refinement of
   `LakeContract`, with the two exceptions of Silver that it names.
5. The verifiers. What they recompute is what the generator computes: each line
   from its position, every detection `Factor` times, sequence numbers without a
   gap (`LinesAreExpected`, `AllAreCopied`, `WholeReplayPasses`). `TraceInv` says
   what a run has of its source: a replay whose source has not been replaced knows
   what it holds, and one that finds there what it knows it by has also read that,
   although it opened the file twice (`Found`); the rows of Silver have ids of its
   source, and a replaced file has no others than the file in its place, so that
   distinct ids need only be counted. Hence `VerifiersAlwaysExact`.

**Assumptions.** Beside the types of the constants: `Factor`, `Target`, `GateSize`,
`MaxAttempts`, page and cache limits are positive, since the code refuses other
values (replay/identity.py:35, events/scale_gate_selection.py:42, gold/build.py:160,
api/cache.py:58); a manifest's ranges lie within its topic
(`StreamingAssumption`); a missing or empty text is none of the values a field can
have (`LakeAssumption`); and one cached entry fits into the cache
(api/cache.py:60). `Texts`, `Rows` and `Lines` are the types of the fields in
the raw object and in event files; every model value of the runs is one of them.

**Only model-checked**: the liveness properties (`InvocationEnds`, `RunEnds`,
`RerunsSucceed`, `ProducerEnds`, `DiagnosisEnds`, `RouterEnds`), which the prover
cannot express with fairness, and `FailuresHaveCauses`. Every other safety and
action property of a run that passes is a theorem.

## 5. Findings

* `LoaderLostConflict`: the conflict check (postgres_loader.py:204) does not see
  a rival's uncommitted rows and `ON CONFLICT DO NOTHING` keeps them once they
  are committed. Two loads that disagree on an event can both be SUCCEEDED.
* `LoaderReloadOverlap`: the no-op path (line 155) demands all rows under its own
  Gold run, although rows first served by another run stay under that one.
* `LoaderKeyBurnt`: the registration commits the unique idempotency key before
  anything is loaded; a load that failed or died can never be repeated.
* `OrchestrationOverlap`: an attempt that outlives its heartbeat writes its old
  copy of the manifest over the receipt of its own retry (runtime.py:275).
* `StageFailure` is documented as raised after a failure was recorded
  (runtime.py:31) and is also raised where nothing is.

Met while modelling, without a run of their own:

* A missing `schema_version` makes its condition null, and so passes
  (bronze_to_silver.py:63), against
  `contracts/events/v1/CANONICAL_EVENT_CONTRACT.md:33`. A replay event without
  `parent_event_id` and an original with a run id pass too, for no condition looks
  at them (bronze_to_silver.py:64-89), against lines 42 and 133 of the same contract.
  `Overlooked` names all three, and `SparkErrorsAreExact` says that there are no
  others.
* Silver numbers the occurrences of an event over all rows, rejected ones
  included (bronze_to_silver.py:154). The only admissible row of an event is a
  duplicate if a rejected one precedes it, and the event is not in Silver, against
  `contracts/silver/SILVER_DATA_CONTRACT.md:18`. `Preempted` names the case.
* A raw row with fewer fields than the header has `None` values, on which
  `.strip()` raises (canonicalization.py:360): the whole run fails, where the
  docstring (canonicalization.py:236) promises rejected rows. The extractor
  refuses longer rows only (extractor.py:286). `Cause` names it among the reasons
  for which a stage may fail.
* A Batch Silver run that accepts nothing cannot succeed: a write partitioned by
  date leaves no file when there is no row, and the read-back
  (bronze_to_silver.py:283) raises on a dataset without files, after all counts
  agreed. `PublishSilver` takes it so.
* A valid row that comes behind the watermark is in no output of the streaming
  run and is counted as a duplicate; and foreign messages that only some of the
  three queries saw can be made up for by the number of duplicates
  (kafka_to_silver.py:179), against `docs/ENGINEERING_DECISIONS.md:29` and
  `:39`.
* The unfiltered summary adds up the detections of each Gold run
  (repository.py:87), the filtered one counts distinct ones: a detection in two
  Gold runs counts twice in the first.
* `serving/verify.py` expects that the latest load inserted every row: it fails
  on any database with more than one load that inserted rows.
* Checksums are compared and the file is then opened again
  (canonicalization.py:110, generator.py:62): a replacement in between goes
  unnoticed. Silver and Gold take any path, without a manifest. The extractor
  can raise while its manifest says SUCCEEDED next to a `failure_category`
  (extractor.py:205); the raw object is then in place.
* A router run that raises has sent envelopes that no manifest records
  (failure_router.py:201, :126), and the next run of the same range routes them
  again.

## 6. Plan

Done: all components with state of their own that meet others, and proofs of the
safety and action properties but one. What is left is a proof of
`FailuresHaveCauses`, for which `ContentInv` has to say that what the canonicalization
accepts are originals with ids of their own; the part of the serving API that is one
statement each (section 7); and the liveness properties, for a prover that has rules
for fairness.

## 7. Not modelled

Of the API queries, `summary`, `daily` and the platform status: each is one
statement, or a read of files, and nothing later uses what it read. Of the
serving verification, the checks of geometry and roles, which repeat what table
constraints and grants guarantee, and the timings. Of Silver and Gold,
partitions, file sizes and the governed hash, a function of the row. Two batch
stages at once on one source: they share no file that either writes.

Inside what is modelled, these simplifications remain:

* Two orchestration attempts that collide on the temporary file of the manifest
  (runtime.py:96), see `Orchestration` in section 2.
* A Gold artifact that holds an `event_id` twice (postgres_loader.py:119, :202):
  the manifests of `PostgresLoader` are sets of events. Gold refuses to build one.
* `ServingReads` orders loads by their commit, though `completed_at` is taken a
  moment earlier (postgres_loader.py:261). With the one loader of its run and
  theorems the orders agree.
* The count of rows without a parent in the verification of a replay
  (serving/verify.py:91, :117): rows of that model have no parent.
* Streaming Silver checks source types, the synthetic flag and lineage of its rows
  (kafka_to_silver.py:199); all its messages are valid replay events or rejected, so
  that what is left of the check is that some row was accepted.
* Spark runs a batch without messages to advance the watermark. `PlanBatch` always
  does, after a restart Spark may do without it. Then fewer ids are evicted, and
  `OutcomesExact` excepts whatever could be late in either case.

The dashboard and the benchmarks read and measure. Models and schemas are data.
The command line wrappers parse and print. Topic administration runs once, by
hand; its outcome is a constant of `KafkaReplay`. AWS templates, Docker files
and CI are not part of the program's logic. Hash functions and JSON are
represented by what they are used for: equal tokens for equal contents.
