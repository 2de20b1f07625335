# Testamur: models, checks and proofs

Testamur keeps evidence about sources: exact bytes and revisions, what a work
session saw of them, what a project explicitly relies on, and what happened to
them later. Nearly all state is in SQLite files that any number of processes
open: CLI calls, hook processes of coding agents, MCP servers, web threads and
a monitor scheduler. There is no server that serialises them. The correctness
of the program is therefore a question about short transactions, unlocked reads
between them, files next to the database, and processes that die anywhere,
which is what the modules here model.

Line references are to `src/testamur/` unless they say otherwise.

## 1. Inventory

| Component | State | Operations | What is hard, what makes it correct |
|---|---|---|---|
| Blob store, retention (`blob_store`, `blob_retention`) | blob files; retention events, ingest claims | put, claim, release_claim, retain_source, purge_source | files and rows are not one transaction; bytes are shared by sources. Purging for one source never takes bytes from another or from a capture in flight |
| Private uploads, access policy (`user_file_ingest`, `source_access`, `private_source_metadata`) | policy revisions, private metadata | ingest_bytes, record_policy | five transactions and a file per upload, with a clean-up that may itself fail |
| Source store, gateway (`source_store`, `source_gateway`, `source_fetch`) | sources, revisions, snapshots | fetch, revalidate, refresh_watch | put, revision and snapshot are separate; captures of one source overlap |
| Source CLI (`source_cli`, `source_gateway_cli`) | none | upload, retention, purge | orders the calls of the stores: policy first, then retain events |
| Work session store (`work_session`, `_work_session_*`) | lifecycle events, candidates, observations, run, decisions, exports | transition, create_candidate, record_observation, record_decision, ... | status is read outside of the write's transaction; a conflict raises inside an implicit transaction |
| Reconciliation, recovery (`reconciliation`, `reconciliation_recovery`) | none of its own | reconcile_session, resume_reconciliation_exports | a chain of writes to three stores that crashes, repeats and runs twice at a time; every yes gets one receipt, no other input gets any |
| Reliance receipts, sinks (`reliance`, `reliance_bridge`, `agent_protocol`) | receipts | issue, commit_reliance, register_watch | idempotency keys, sources that move between two reads |
| Watches (`watch_store`, monitor half of `product_actions`) | watches, configuration revisions, evaluations, alerts | create_watch, append_watch_revision, evaluate_snapshot | evaluations overlap; the order of time stamps is not the order of inserts; one alert per event |
| Monitor sweep, scheduler (`product_actions`, `monitor_scheduler`) | thread, stop event | run_due_monitors, refresh_project_monitors, start, stop | isolation of failures, starvation, two loops |
| Projects and repository bindings (`project_store`, `repository_binding_*`) | projects, links, bindings and their revisions, enabled state | create, bind, set enabled, link | reads come before sqlite3's transaction begins; a binding has one chain of revisions |
| Records, relations, execution receipts (`record_store`, `record_source`, `receipt_store`, `relations`) | record revisions, relations, receipts, artifact observations | create_record, append_revision, relate, capture, store a receipt | records are shared by scanners; a worktree is shared by commands: an observation belongs to the command that made it |
| Revision store (`revision_store*`, `revision_*`, `store`, `historical_store`, `versioned_store`) | revision DAG, heads, CAS snapshots | revise_object, merge | concurrent writers of one object |
| Runtime ledger (`runtime_*`, `command_execution`) | runs, events, idempotency keys | begin_run, append, terminal operations; the captured command | lost answers and retries; a command runs once, a retry gets the same answer |
| Temporal model (`temporal_*`) | assertions, derived query index | open with backfill, project, append, query, events_for | a derived index, check and selection in two transactions, three meanings of time |
| Policies, verification (`policy*`, `verification_*`, `assessment`) | policy versions, verification records | register with retries, evaluate, verify a target | an evaluation reads its evidence piece by piece; cycles and limits never admit anything |
| Assessment, reliance projections (`assessment*`, `reliance_status`, `reliance_*`, `object_projection`) | none | derive a state | precedence of states, stale bases |
| Lineage, affectedness, graph queries (`lineage*`, `affectedness*`, `evidence_graph`, `query`, `graph_query`, `vendor_lineage`) | lineage edges, advisory revisions, assessments | walk, assess, refresh candidates, supersede, trace, impact | bounded walks must say that they stopped; conflicting heads settle nothing |
| Supply chain, advisories (`supply_chain*`, `component_identity`, `advisory*`, `project_advisory_*`) | records of manifests, dependencies and scans | scan a bound or imported repository, diff, match, review | scanners share records while bindings and manifests move |
| Product service, web, CLI (`product_*`, `web_app`, `cli`, `front_router`, `entrypoint`) | none | dispatch | calls the stores above |
| Agent wrappers, MCP, hooks (`agent_wrapper`, `codex_gateway_hook`, `command_execution`, `source_gateway_*mcp`, `artifacts`) | processes | launch, forward events | their events are the captures of a work session |
| Environment, gates, manifests (`environment*`, `convergence`, `namespace_gate`, `release_gate`, ...) | files | scan, check | one-shot programs |

How they interact. An upload or a fetch writes blobs, sources, revisions and
snapshots; retention reads the revisions and the access policy and removes
blobs. A capture inside a session also writes observations into the session
store. Reconciliation turns observed inputs into decisions and, through two
sinks, into receipts (`reliance`) and watches (`watch_store`). Monitors refresh
a watch: a fetch through the gateway, then an evaluation of the new snapshot.
A captured command goes through the runtime ledger; its artifact observations
feed trace, impact and revalidation. Reliance receipts rest on evaluations of
policies over records, relations and assurances. A project's bindings say which
repositories are scanned into records; lineage edges and advisory revisions
make candidates for affectedness assessments.

## 2. Modules

| Module | Models |
|---|---|
| `ByteCustody` | abstract: for every source and digest, whether the bytes are held, released or lost |
| `BlobRetention` | uploads, fetches, retention changes and purges over one blob directory and database; implements `ByteCustody` |
| `RelianceExport` | abstract: the stages an observed input goes through from decision to acknowledged watch |
| `WorkSession` | one session, its capture, reconciliation, recovery and both sinks; implements `RelianceExport` |
| `WatchStore` | one watch: configuration revisions, evaluations, alerts |
| `MonitorSweep` | due monitors of several workspaces, sweeps by callers and by the scheduler's threads |
| `RunHistory` | abstract: runs that only grow and end with a terminal event |
| `RuntimeLedger` | the runtime protocol, its idempotency keys and owners; implements `RunHistory` |
| `AgentCommand` | extends the ledger by the captured command: lock, intent, execution, recovery, receipt |
| `Lineage` | the bounded walk over lineage edges and the explanation of a path, as operators |
| `Affectedness` | extends `Lineage` by advisory revisions, evidence, assessments, refreshes and their chains |
| `PolicyEngine` | a policy evaluation as the stack of its visits, one read at a time |
| `Reliance` | extends `PolicyEngine` by records, relations, policies, assurances, and receipts issued, verified and traced |
| `Stores` | what the three store models below share: nothing at all, and nobody at work |
| `Temporal` | temporal assertions, their derived index, queries and events |
| `Evidence` | commands and checks in one worktree, their observations, trace, impact, revalidation |
| `ProjectStore` | projects, repository bindings and their revisions |
| `SupplyChain` | extends `ProjectStore` by scans into shared records and the diff of two scans |
| `..._proof` | inductive invariants and theorems: `BlobRetention_proof`, `WorkSession_proof`, `WatchStore_proof`, `AgentCommand_proof` (with the ledger), `Affectedness_proof` (with `Lineage`), `Reliance_proof` (with `PolicyEngine`), `TemporalEvidence_proof`, `SupplyChain_proof` (with `ProjectStore`) |
| `MC...` | constants, bounds and symmetry of the runs; `MCStores` extends `Temporal`, `Evidence` and `SupplyChain` and checks each in lanes of its own |

### BlobRetention

| Variable | Code |
|---|---|
| `sources`, `revisions`, `snapshots` | `testamur_sources`, `testamur_source_revisions`, captured `testamur_source_snapshots` |
| `policy`, `event` | latest row per source / per source and digest; the tables are append-only and only the latest row is ever read |
| `claims` | `testamur_blob_ingest_claims`; one upload has one claim on one digest, so the pair stands for the claim id |
| `file` | the blob file: absent, intact, or corrupt. A put writes a temporary file and renames it, so no state shows half of it |
| `lock` | SQLite's write lock while a purge is inside BEGIN IMMEDIATE |
| `pc`, `job` | what each process is doing and its locals |

Every short write transaction is one action that needs `lock = None`. The purge
holds its transaction open over a file operation and is three actions:
`PurgeDecide`, `PurgeUnlink`, `PurgeCommit` (408-434). The release event it has
inserted but not committed is `WithRelease`, which its own count of references
sees. Crashes roll open transactions back and leave files and claims;
`Crash` also stands for exceptions that run no clean-up. `UploadRaises` is any
exception after the claim, which runs the finally block. `LockTimeout` is
sqlite3's 15 s busy timeout: without it a waiting writer would wait for ever.

Simplifications, each harmless for what is checked:
- Requests are those of the owner. Anybody else is refused before a change, the
  CLI copies the owner from policy to policy, and so the branch of
  `_purge_digest` for a changed owner (418-419) cannot be taken.
- The first policy check of `purge_source` and its list of digests are one step:
  the policy is read again under the lock for every digest.
- `private_metadata.set` writes a table that nothing else here reads. If it
  raises, that is `UploadRaises`.
- An upload source has one digest. A gateway source can have several, but it
  never gets a policy, so neither purge nor retain ever runs for it. The runs
  use one shared digest, the only way in which sources interact.

### WorkSession

| Variable | Code |
|---|---|
| `status` | `to_status` of the last lifecycle event |
| `discovered`, `observed` | candidates; exact revisions observed of them |
| `late` | history variable: inputs written after the session had closed |
| `actor` | the reconciliation run (one per session, bound to its actor) |
| `decided`, `exported`, `proposed`, `acked` | decisions, reliance exports, watch candidates, external watch exports |
| `receipts`, `watches` | rows the two sinks write in the reliance and watch stores |
| `current` | revision that the evidence view reports for a source; `None` is one the session never saw |
| `lock` | the worker whose connection is in a write transaction |

Reads run outside of transactions and are steps of their own wherever another
process can interfere with what follows: status then insert (`TransitionStart`,
`Append`), status then observation, the sink's check, the two readings of the
basis inside `issue` (`SinkCheck`, `IssueBasis`, `IssueConfirm`, `IssueInsert`),
look-up and creation of a watch. A conflict found after `INSERT OR IGNORE`
raises with Python's implicit transaction still open; `RaiseInTransaction`
keeps the lock with the worker until its connection commits something else, is
closed (`Close`) or dies.

`no` and `uncertain` have the same effect and are one answer. Two declarations of
one input are equal or conflict; the decision id covers all of their fields. The
observation "relied on" is inserted in the transaction of the export row.

### WatchStore

Every call of the store opens its own connection, so `evaluate_snapshot` is:
configuration, duplicate, previous evaluation, time stamp, evaluation row,
alert row. Time stamps have microseconds and come from one clock; equal stamps
(ordered by a hash in the code) are left out. The watch exists from the start
with its first configuration and `Creator` is still inside `create_monitor`,
which evaluates the latest snapshot if there is one while others may already
refresh the watch. `append_watch_revision` is part of the store's interface;
inside the repository only tests call it.

### MonitorSweep

`cadence`, `elapsed` and `health` are what a sweep finds out about each watch:
whether its latest configuration has an interval, whether it has passed, and
what a refresh does (evaluate; raise KeyError or ValueError, which is caught;
raise something else, which ends the sweep). Time is only the fact that an
interval has passed. `stopping` is the scheduler's event, `thread` the thread it
knows, `joining` the owner inside `stop`. A sweep reads the list of watches
(`SweepNext`), then each one's cadence and age (`Inspect`), then refreshes what
it found due (`RefreshMonitor`); others run in between. `StopReturns` is both
ways out of the join: the thread has ended, or the timeout has.

### RuntimeLedger and AgentCommand

A protocol call is one BEGIN IMMEDIATE transaction and so one action, `Call(q)`,
for a request `q` that any client may send any number of times: that is the
fault model of a client whose answers get lost or come late. `answers` is a
history variable. Digests of records are the records. `AgentCommand` adds the
callers of `run_agent_command`: each probe, capture, protocol call and read is
a step, the RLock orders only the callers of one process (`lock`), processes
die with all their callers, and a call may be interrupted. `ran` counts how
often a process really ran the command.

### Lineage and Affectedness

Both breadth-first walks are over paths, so they build the paths of k edges from
those of k - 1 by recursive functions. Edges, advisory revisions and assessments
are append-only sets and rows. `RefreshStart` walks from all roots in one step, though
the code reads each node through a connection of its own (`lineage.py:313`) and edges
may be recorded in the middle of a walk: they are only added, so every path it
returns exists afterwards, and the properties of a refresh are about the paths it
pinned. `CompleteWalkIsExhaustive` speaks of a walk over edges that stand still.
`FindPredecessor` and
`RecordCandidate` then read the heads and write one subject at a time, each in
its own transaction. A walk that spends exactly its last expansion is called
incomplete here; in the code it depends on what is left in the queue. An analyst
hands in any path and any basis (`Analyses`), which `Assess` records without
comparing either with what is stored; such a row may fail the audit, which is
promised of candidates only. Who
produces edges (imports, vendored components) makes no difference to them.

### PolicyEngine and Reliance

Every read of `PolicyEngine.evaluate` is a transaction of its own, and an evaluation
in progress is a value: the stack of its visits, which are the activations of the
recursive function `visit` (`assessment.py:236`), each with what it has read and what it reads
`next`. `Evaluate` starts one, `After` takes it past one read, entering a
dependency or returning to the visit that asked as the code does, and
`ReadNext` reads the world as it is now. A caller holds an evaluation in `eval` and
every read is a step of the caller, between which anything may happen. A visit that
is cut (cycle, depth, number of nodes) reads its object's revision and nothing else.
`issue` of an exact receipt observes the reliant record, makes one observation of the
whole basis, checks the pins, makes the second, compares, checks again, and inserts;
`verify` checks the pins and evaluates once. `seen` is a history variable: the worlds a
caller has lived through. The state RETRACTED cannot occur with the record view of
the evidence and has no value here. Relations are read newest first up to a limit
(`RelationLimit`, `policy_evidence.py:65`): the instance stays below it, and
above it a blocking relation is not seen. `IsWorld` says which evidence there can be,
`Grounded` what admission should mean: the least set of objects that are
sound themselves and whose dependencies are in it.

### Temporal

An assertion is its contents. Opening a store creates the index and fills it
for assertions of older versions in two steps, which two processes may take at
once. Making an assertion and appending it are two steps. When it was recorded is any
instant the caller states (`Dates`), or for a bare projection the subject's: no code
of the component reads a clock or compares dates (observation 12). So the properties
are about the index and the perspectives, and none about what a past cut may show.
`query` and `events_for` check perspectives in one read and select in another.

### Evidence

Workers run commands and checks in one worktree and a user edits in between.
`observed` is the table of artifact observations, `recorded` of receipts,
`checks` of verification records. `origin`, and the fields `from`, `quiet` and
`still` of a run, are history: what really wrote and read the files. Undeclared
outputs are the difference of two captures of the worktree. Trace, impact,
`revalidation_status` and `for_target` are operators over the tables; a query
reads one state, which is enough as rows are only added. The loops of trace and
impact are recursive functions of the number of rows looked at, and of the number of
turns of their queue: `TraceFrom` takes one turn per run and `Impact` one per
row, and that this is enough is part of the proofs. All products of a run enter
the queue of `impact` together and leave it one after the other, so the model
queues the run and expands its products in one turn. Resolved paths name files
(aliases are resolved before); counters of a query's result are left out.

### ProjectStore and SupplyChain

sqlite3 begins a transaction at the first INSERT, so what `bind_repository` reads
may be another writer's past by the time it writes: `BindRead` and `BindWrite`
are two steps, and `BindRaises` is the constraint that stops the loser. A scan is:
which binding revision, which repository, then per manifest its text and its
digest (two readings of the file), then project and heads, then one append per
manifest and dependency record, then the scan's own. Appends check the head
they read, `AppendRaises` is that check failing, and the scan ends half done, as
it does when the scanner dies. What a scanner saw is kept in `saw`, a history
field of the scan. `Diff` and `ImplicitDiff` compare two scans.

## 3. Runs

| Run | Result | Shows |
|---|---|---|
| RetentionSafety | holds | uploads in flight find their bytes; an upload that only ever had its retain policy keeps them; bytes are removed only when at that step every reference is released under its current policy and nothing claims them; a release of an older policy never counts again; the store implements `ByteCustody` for uploads, whatever the gateway does beside them |
| RetentionLiveness | holds | every operation ends |
| RetentionGateway | violated | finding 1 |
| SessionSafety | holds | a reconciled, pushed or attested session has a decision for all inputs captured before it closed, and receipt and watch candidate for every yes |
| SessionRecovery | holds | `WorkSession` implements `RelianceExport`; recovery completes the exports after any crash |
| WatchSafety | holds | one chain of configurations, evaluations with older predecessors, alerts with a reason and only one each, one announcement per outage if evaluations do not overlap |
| MonitorSweep | holds | stop ends every loop, given-up threads included; a due monitor is served unless one before it raises |
| CommandRecovery | holds | one answer per idempotency key, answers are history, the ledger implements `RunHistory`; no process runs its command again or attributes another's artifacts to itself |
| CommandTwice | violated | finding 2 |
| Affectedness | holds | a bounded walk that calls itself complete is; explanations keep the paths; chains stay with one subject and event; more evidence never flips a verdict |
| Reliance | holds | the basis of an exact receipt held all at once; a verification without reasons is right; what is admitted is grounded; the receipts a revision affects are found |
| Stores | holds | in six lanes: the index answers as the assertions do, one perspective per answer; traces find the real producers, revalidation is complete or says it is not, a current pass is for these bytes; bindings have one history each, scans are of their binding and hang together, diffs are exact |

Bounds and why they suffice.
- Retention: two processes (an operation only ever races with another one over
  one lock and one file), two uploads and one gateway source on one digest: the
  purging source, another holder that may purge, and one that may not.
  purge_on_request, retain, purge_on_request is the shortest way to an outdated
  release, so one upload may have three policy revisions while the other keeps its
  first, or both have two; beside the gateway a lone upload has two or both keep
  their first (`GatewayOrEpochs`, a CONSTRAINT). Liveness uses one upload and one
  gateway source.
- Session: two workers; safety uses two candidates (a partial set of decisions
  needs two inputs) with both answers, two actors and both or no sink; with two candidates,
  calls that overlap are given the same sinks (`OneModeOrCandidate`). Recovery
  uses one candidate whose source moves, one worker that may die and one that does
  not, both sinks or the reliance sink alone.
- Watch: three snapshots are the shortest history with an event before and after
  another one, and two callers of one configuration race for its successor, before the
  third snapshot (`SnapshotsOrConfigs`); two revisions of the source, two values of
  `alert_on`.
- Monitors: two workspaces, of which one is served twice; two watches in one of
  them, of which the first is broken and raises either kind of exception; two loops, the least that a start after a
  stop that gave up leaves behind, and one caller.
- Commands: two processes, two callers, one command, two outcomes; other requests
  that use keys twice, cancel the run, or belong to another client, and a run of
  an old database.
- Affectedness: four artifacts and any subset of five edges, among them two ways to the
  application and two scopes of equivalence; two revisions of one event; three rows,
  the least that a supersession of a supersession needs; an analysis that pins an edge
  which may not be recorded, and one whose basis is about another edge and maybe
  another revision. `Focus` allows either long
  histories over one edge, or any graph with one row and one refresh.
- Reliance: 1 134 shapes of relations, policies and assurances without changes, for the
  evaluation; one shape with two changes anywhere around an issue and a verification;
  a quiet one with two callers, for the idempotency key (`Focus`). One receipt. No
  evaluation here needs the 40 reads of `MaxReads`, nor finds more relations than
  `RelationLimit` at one object, so neither bound cuts anything short.
- Stores: the three parts share nothing, so the initial state chooses a lane and
  the others stay as they are; their sum, not their product, is explored. Two
  processes, two assertions and two instants for the index. Commands: two overlapping ones of two
  workers, or four in turn of one and an edit after them (a chain of three steps
  needs three commands, a stale one a fourth). Bindings: two workers, two keys, two repositories,
  three revisions. Scans: two overlapping ones with an edit and a revised binding;
  or three in turn over two bindings and two manifests, with the first binding fixed
  (`InLane` gives these bounds).

Symmetry is used in runs without a liveness property only. `CHECK_DEADLOCK FALSE`
is given where the bounds themselves stop the system (policy revisions,
snapshots, runs, rows, receipts, scans) or where a session really ends
(aborted or attested with no request left), and in the runs that look for a
violation of something else.

Fairness. `WF(Work(p))`: the operating system lets a process go on with what it
has begun; requests, crashes and moving sources have no fairness. Waiting for
the lock is bounded by the busy timeout, which is part of `Work`.
`SF(ResumeStart)` in SessionRecovery: a worker that does not die calls recovery
again and again; recovery is a command the caller repeats, and its fairness is
strong since the worker may be busy with other calls in between. `Recoverable`
names what the property assumes besides: from some point on the decisions cover the
inputs, the source stays at the decided revision, no receipt pins another one
(observation 2) and no failed connection keeps the database. In MonitorSweep
`WF(LoopStep)` and `WF(Sweep)`: threads run and a wait with a timeout ends;
`WF(StopReturns)`: so does a join with one. Calls, changes of health and time
have no fairness.

Type invariants are stated beside the other properties of most modules; only the
one of `BlobRetention` is in a run. Those of `BlobRetention`, `WorkSession`,
`WatchStore`, `AgentCommand`, `Affectedness`, `Reliance` and `Temporal` are proved.

## 4. Findings

1. RetentionGateway, `source_gateway.py:103`: the gateway takes no claim around
   put and revision, so the window that `blob_retention.py:44` calls closed is
   open for it.
2. CommandTwice, `command_execution.py:160`: two processes with one idempotency
   key both find the run empty, `execute` ignores that its intent was a replay, and
   the command runs twice, although line 159 refuses to run one again.

### Observations

Things the models led to that no run demonstrates: the properties of the runs
are stated so as to say what holds all the same.

1. `blob_retention.py:433`: unlink comes before commit. After a crash in between
   the reference reads as retained and has no bytes, while
   `docs/TESTAMUR_BLOB_RETENTION.md:60` takes a missing event for retained
   (`NoEventMeansRetained`). It is never somebody else's bytes.
2. `reliance_bridge.py:324`: the source moves between the sink's check and `issue`.
   The receipt for the other revision is refused after it is durable, and holds the
   idempotency key from then on (`ReceiptPinsDecision`). It is never exported.
3. `work_session.py:186`: two processes that both read OPEN both append their
   event, so a session can be completed and then aborted (`LifecycleOrdered`).
4. `watch_store.py:181`: overlapping evaluations announce one outage twice, or with a
   recovery in between not at all (`docs/TESTAMUR_WATCH_ALERT.md:88`). The property
   is stated for evaluations that do not overlap.
5. `product_actions.py:404` says best effort per monitor; a monitor whose refresh
   raises something else than KeyError and ValueError keeps all later ones of its
   workspace from being served (`BestEffortPerMonitor`).
6. `affectedness.py:688-725`: two refreshes of one advisory both find no
   predecessor and record the same candidate twice (`CandidatesAreIdempotent`).
7. `temporal_store.py:439`: `events_for` does not look again after its selection and
   can mix perspectives that its docstring (376-380) keeps apart; `query_temporal`
   does look again.
8. `receipt_store.py:217-232`: when the receipt of a replay is stored first, the
   observations of the wrapper that ran the command are left out; `Clean` in
   `TraceFindsProducers` asks for the run's own.
9. `supply_chain.py:155` and `176`: a manifest is parsed from one reading and hashed
   from another, so an edit in between pairs a digest with other bytes' pins.
   `ScanIsOfItsBinding` compares each half with its own reading.
10. `supply_chain.py:965`: asked for the diff of an older scan without a second one,
    it compares with the newest scan of the binding, which is a later one.
11. `project_store.py:294-398`: the loser of two binders gets sqlite3's
    IntegrityError and not an answer. A pause during a scan does not stop the scan.
12. `temporal_projection.py:102`, `173` and `219`, `temporal_model.py:337`: when an
    assertion was recorded is what the caller passes as `asserted_at` or `recorded_at`,
    and `append_projection` (`temporal_store.py:205`) does not check it. An assertion
    dated when it was made but committed later, dated back, or projected without
    `asserted_at` long after its subject, enters a `KNOWN_AT` cut that was already answered,
    while `docs/TESTAMUR_TEMPORAL_MODEL.md:211` says that `KNOWN_AT` "must never leak
    later observations backward" and the docstring at `temporal_projection.py:72` that
    `recorded_at` is when the assertion "became durable". What the code does see to is
    that publication or validity added to an existing snapshot, record or relation
    comes with a date (`Projectable`); it is not checked for being true.

## 5. Proofs

Each proof module has the same plan: an inductive invariant `IInv`, a lemma per
action that preserves it, `Invariance: Spec => []IInv`, and the properties as
consequences of `IInv`, or of it and one step. They hold for every value of the
constants; the bounds on counters are constants, too.

| Module | Theorems | Property of a run |
|---|---|---|
| `BlobRetention_proof` | `ClaimProtectsWriter`, `SharedBytesSurvive` | `ClaimedWriterHasBytes`, `NeverPurgeableKept` |
| | `DeletionSafe`, `ReleasesStayDead` | action properties `DeletionIsUnreferenced`, `ReleaseNeverRevives` |
| | `RetentionImplementsCustody` | the refinement `CustodySpec` |
| `WorkSession_proof` | `ClosedSessionsAreExported` | `ClosedMeansExported` |
| | `SessionImplementsExport` | the refinement `ExportSpec` |
| `WatchStore_proof` | `ConfigurationsAreOneChain`, `HistoryIsWellFounded`, `AlertsAreJustified`, `OutagesAreAnnouncedOnce` | `ConfigChain`, `PreviousIsOlder`, `AlertJustified`, `AnnouncedOnceInOrder` |
| `AgentCommand_proof` | `RetriesGetOneAnswer`, `AnswersStayTrue` | `RetriesAgree`, `AnswersAreHistory` |
| | `LedgerImplementsHistory` | the refinement `HistorySpec` |
| | `CommandsRunOncePerProcess`, `ReceiptsAgree`, `ArtifactsAreOwn` | `OncePerProcess`, `ReceiptsReportTheRecord`, `AttributedToOwnRun` |
| `Affectedness_proof` | `CompleteWalksAreExhaustive`, `ExplanationsKeepPaths`, `ChainsAreOneEvent`, `VerdictsNeverFlip` | `CompleteWalkIsExhaustive`, `ExplanationKeepsPaths`, `ChainIsOneEvent`, `MoreEvidenceNeverFlips` |
| | `WalkFindsPaths`, `ExplanationFindsPaths` | (of `Lineage`, for any finite graph) |
| `Reliance_proof` | `RevisionsReachReceipts` | action property `RevisionReachesReceipts` |
| | `AdmissionsAreGrounded`, `ReceiptBasesHeldAtOnce`, `FreshVerdictsWereTrue` | `AdmissibleIsGrounded`, `ReceiptBasisHeldAtOnce`, `FreshVerdictWasTrue` |
| `TemporalEvidence_proof` | `TheIndexIsExact`, `AnswersAreOfOnePerspective` | `IndexAnswersForAssertions`, `AnswersHaveOnePerspective` |
| | `PassesAreForTheseBytes` | `PassIsForTheseBytes` |
| | `TracesFindProducers`, `RevalidationsAreComplete` | `TraceFindsProducers`, `RevalidationIsComplete` |
| `SupplyChain_proof` | `HistoryIsAChain`, `ScansAreOfTheirBinding`, `ScansHangTogether`, `TheDiffIsExact` | `BindingHistoryIsAChain`, `ScanIsOfItsBinding`, `ScanHangsTogether`, `DiffIsExact` |

`TypeCorrect` (`Spec => []TypeOK`) is in seven of them.

### Why the invariants are needed

**BlobRetention.** That a purge may unlink follows from what it found two steps
earlier. `DecisionHolds` says that the finding still stands: the process in its
critical section holds the lock, no source needs the bytes and no claim is on
them. It is preserved since every action that could disturb it (a claim, a
revision, a policy, an event) needs the lock. Then an upload that is past put has
a claim (`UploadHoldsClaim`), so no purge of its digest is past its decision and
its file stays; and the claim is there until the revision is, since no two
operations are on one upload (`UploadsApart`), its source exists (`JobFits`,
`RevisionsHaveSources`) and its policy comes first (`PolicyFirst`). From then on
the revision itself blocks, while its policy is the initial one.
`ReleaseNeverRevives` needs `EpochInv`: besides, no event is of an epoch of its
policy that has not begun (`EpochsPast`). For `ByteCustody` every action is shown
to be one of its steps or a stutter; what a purge does to the other sources of a
digest is where `DecisionHolds` comes in again.

**WorkSession.** Rows are only added, so what a worker has read stays true
(`JobFits`) whoever else reconciles or resumes. An input has at most
one receipt, after an explicit yes (`ReceiptsApart`); its rows stand on each other,
acknowledgement on watch, watch on candidate, candidate on export, export on the receipt for the
decided revision (`RowsStack`), and a worker that is about to close
has found all inputs settled (`ClosingSettled`). Inputs written later are in
`late`, which the property leaves out. `RowsStack` is also what maps every row to
the next stage of `RelianceExport`.

**WatchStore.** A stamp is handed out once (`StampsApart`), and rows are in time
order (`RowsInTime`): an evaluation was stamped after it had read its
predecessor, so the predecessor is older (`PreviousIsOlder`) although inserts come in any order. The
UNIQUE ordinals count configurations without a gap (`ConfigsCounted`): the
loser of two callers with the same head cannot insert. While evaluations do not
overlap, `EventsFit` and `NewestExists` give the alternation of outage and
recovery that `AnnouncedOnceInOrder` speaks of.

**AgentCommand.** `LedgerInv` relates every answer to the binding that replays it
and to the run it names, and has terminal events last; a protocol call preserves
it and lets runs only grow, which is the step of `RunHistory`. `CallFits` says for each
step of a caller what it has established: of the ledger only what growing runs
leave true; and before the intent and the run that its process has not run the
command, because it holds the process's lock. `RanFits` and `ReceiptsFit` carry that to the command and
to the receipt. What happens between two processes is finding 2, and the
theorems do not say otherwise.

**Lineage and Affectedness.** The walks are recursive functions of the number of
edges. A theorem about them needs induction, which is done here without the
library's rule: the numbers for which the statement fails have no least one
(`LeastNatural`, from `NatLessThanWellFounded`). `WalkFindsPaths` and
`ExplanationFindsPaths` hold for any finite set of edges and any limits, and
the invariant uses them as black boxes: edges only get more, so a candidate that
was connected stays so (`OpsFit`, `RowsFit`). `ChainIsOneEvent` is the same
induction over the row numbers, as a row continues the one it supersedes
(`RowLinks`), which is earlier.

**PolicyEngine and Reliance.** An evaluation is a run of reads, and what is true of
its end is shown by induction over them. The stack keeps its shape (`Shape`,
`Movement`): each visit but the top waits for the one above. Every visit is to an
object (`Located`) that the result will pin (`Touched`), so a revision of any
other object changes no read, and the run ends as before:
`RevisionsReachReceipts`. For `AdmissionsAreGrounded`, a visit knows of its object what it has
read (`Knows`), its blockers come from that (`Owns`), and so each returned
assessment is `Right`: what it admits is in the least closed set, what it calls unruled has no
policy, what it refuses has a cause. Conversely the visits to a grounded object are
to grounded objects and held back by limits alone (`Bears`), since what is grounded does
not depend on itself (`NoCycle`).

The other two theorems compare evaluations that read while the evidence changes
with one that nothing disturbs. The assessment determines each read that led to it
(`Reveals`, from the end of a run backwards, with `LeadsOneWay`). Evidence
only grows: revisions and relations count up, policy versions and assurance ids are
never used twice (`WorldGrows`, `Older`); so what a read finds the same in an older and in a
newer world it finds in every world between (`SameRead`, `Between`). Two
observations with one assessment, the first of which read only worlds up to
some moment and the second only worlds from it on, therefore agree read by read with the
undisturbed evaluation at that moment (`Sandwich`). For a verification the older
observation is the one that the receipt was issued on (`Backed`), the newer one its own.
`SureInv` carries for each caller that its observations are such runs and its
worlds are in order. Both need `WithinLimit`, as does `AdmissionsAreGrounded`: no
object has more relations in one direction than a read returns
(`limit=100` in `record_store.py:206`). Beyond the limit a relation that pushes
another out makes reads that are equal without being unchanged, and a blocking
relation goes unseen. TLC evaluates what follows from `SureInv` and not `SureInv` itself,
which quantifies over all runs of reads.

**Temporal.** `IndexFits`: index rows are those of assertions, and all of them
once anybody has opened the store, as nothing is appended before that and every append writes both.
`CallsFit`: what an opening has still to fill in are assertions, and what is appended late is well typed, whatever its date. The
perspectives that an answer was checked for are in the invariant, as check and
selection are two steps.

**Evidence.** A target nobody disturbed since it was pinned still has the bytes
that were pinned (`Undisturbed`, preserved by other workers and by the user as they
mark whom they disturb). So a checker reads what its record will say
(`PinRead`), and recorded runs never change what they read (`RunsKept`).

The other two theorems are about walks over the observations, and have two halves.
What the rows say is `TableIInv`, invariant next to `EvidenceIInv`: a row of a file that
nobody else wrote while its run was at work holds what the run read of it, or what every
run read that found the file as this one left it (`RowsTell`). A worker that has not recorded yet
knows as much of the files that are still undisturbed (`JobsTell`; `StillAsLeft` is
what it knows of its products). So rows of two runs, one of which really read
what the other wrote, never differ in their hash, and no walk passes them by.

What the walks do holds of any table. A turn takes a run from the queue and
sees everything next to it, and what is seen first is queued then, once, unless the walk says that
it was cut short (`Climbs` and `Reports` upstream, `Furthers` and `Accounts`
downstream). Turns taken and runs waiting are together at most as many as were
seen; so after as many turns as there are runs, or rows, the queue is empty
and the neighbours of all that was seen have been seen (`TraceCloses`,
`ImpactCloses`). In `trace` it matters that a run whose revision does not match is not
marked as seen, in `impact` that revisions are expanded and not paths: these are the
mutants of the two properties. For `impact` an input that shows its file as it is leads
nowhere (`Leads`), and of a run that the queue has let go every product is expanded
(`Spent`). The walks are functions of numbers, and the induction over these is done as for
`Lineage`, once for all of them (`WalkFits`, `WalkStays`).

**SupplyChain.** What a binder has read stays (`BinderFits`), so the one that
passes both UNIQUE constraints appends the next ordinal to one chain
(`StoreFits`). Versions and records are only appended to: what a scanner named keeps
saying what the scanner read (`NamedFits`), and its scan inherits
that (`RecordedFits`). For `DiffIsExact` the newest scans are found by the
greatest of a nonempty bounded set of row numbers (`GreatestNatural`).

### Assumptions

Those of the modules, each a property of any deployment: values that mean
nothing (`None`) are none of the others (`NoneIsFresh`, `NoneIsNone`), bounds are
positive (`MaxPolicyRevIsPos`, `BoundsPos`, `MaxRunsIsPos`, `LimitIsPos`), uploads
are not gateway sources (`DisjointKinds`), the creator of a watch is a worker
(`CreatorWorks`), `alert_on` has known events (`AlertSetsFit`), requests have the
fields of the protocol (`RequestsFit`), calls may be given both sinks
(`SinksMayBeGiven`), workers that die and sources that move are among them all (`Parts`), edges go between artifacts as the lineage store demands
(`EdgesLegal`), an advisory revision names its event and is identified by its
contents (`AdvisoriesNamed`, `RevisionsIdentified`). TLC evaluates them on every
run. In `Reliance`, `ConstantsFit` says what kind of values the constants are, the starting
worlds among them, and `NoneIsNothing` that nothing found is none of the
things to be found. `Temporal`, `Evidence` and `SupplyChain` are checked by one module; what
they assume of their constants are the operators `OffersFit`, `WorktreeFits` and `RepositoriesFit`,
hypotheses of the theorems which `MCStores` assumes: in `WorktreeFits`, that the files, and the
inputs and outputs of a command, are sequences, that limits are natural numbers, and that `None`
is no worker and the user no run. `WithinLimit` is the one hypothesis about
behaviours, explained above.

Before they were proved, the inductive invariants were checked by TLC on the
bounds of the runs: WatchSafety (177 309 states), CommandRecovery (257 766),
SessionSafety (667 546), RetentionSafety and RetentionLiveness (`EpochInv`,
360 591 and 392 812), Affectedness (100 906), and SupplyChain's and `TableIInv` in their
lanes of Stores.

### Only model-checked

Liveness (operations end, exports complete, stop and service of monitors): it
needs fairness and ENABLED, which the provers do not treat. Every other property
of a passing run is the subject of a theorem.

No module declares a RECURSIVE operator.

## 6. What is not modelled, and why

- The revision store (DAG and CAS): the one component with state of its own that is
  left; its writers are those of `record_store`, whose head check is in `SupplyChain`.
- The access policy's visibility and external processing, and with it the lost update
  of `source_cli.py:183`: only raw-bytes policies matter to retention.
- Links between projects and monitors, relations that restate what scans name:
  single inserts of fresh ids.
- Advisory matching and reviews, parsers of manifests: sequential functions of
  stored rows or of file contents (`PinsOf`).
- Rows that are only read (projections, listings, the query language), rendering, HTTP,
  MCP framing, argument parsing. Limits on the length of such listings (500 rows in
  `temporal_store` and in the history behind a diff) are left out: no instance gets there.
- The network behind a fetch: any observation may come back.
- Upgrades of old databases beyond what opening the temporal store and legacy runs
  of the ledger do; integrity reports.
- Stale ingest claims: they keep bytes and nothing promises to remove them.
- Loss of power between file system and database (fsync order).

## 7. Plan

What is left, in order:

1. The revision store, with an append-only log that it implements.
2. The access policy's other two columns, for the lost update of `source_cli.py:183`.
