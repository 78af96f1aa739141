# A formal model of IncidentSeal

IncidentSeal runs an operator-approved workflow of container steps on one host,
records what happened in append-only archives and in a PostgreSQL event journal,
recovers interrupted runs, and hands out receipts that bind a run to its
artifacts.  Its documents promise exactness: one authority per run, one terminal
event, one holder of a recovery, nothing approved that a human did not confirm,
nothing reported as success that was not checked.  This directory states those
promises as properties of the code, checks them with TLC, and proves with TLAPS,
for every value of the constants, all of the safety ones; some of them for one process
at a time, without which they are not so.

Source paths below are relative to `src/incidentseal/` in the repository unless
they start with `containers/` or `docs/`.

## 1. The system

| Component | State it keeps | Operations | Talks to |
|---|---|---|---|
| Event journal: `containers/migration/001-schema.sql`, `journal.py`, `journal_surface.py` | table `incidentseal_run_events`; per-run advisory locks | `incidentseal_append_event`, `append_record`, `query_journal` | callers: recovery executor, probes |
| Recovery fence: `001-schema.sql`, called from `recovery_probe.py` | one row per run: workflow lease, holder, token, expiry | `incidentseal_acquire_recovery_fence`, `incidentseal_release_recovery_fence` | recovery executor |
| Recovery classifier: `recovery.py` | none (pure) | `validate_observation`, `decide_recovery` | recovery executor |
| Recovery executor: `recovery_surface.py` over `recovery_probe.py` | the active pending file, the history files; changes journal, fence, container, effects | `reconcile`, `_execute_pending`, `PendingStore.save/load/archive`, `replay_step`, `stop_runtime` | all of the above, Docker |
| Workflow execution: `workflow.py` | run archives, the active pointer, labelled containers | `execute_workflow`, `_run_step`, `_recover_exact_container`, `RunArchive.append` | approval inspection, Docker, file system |
| Operator approval: `operator.py`, `approval.py` | the approval file of a workflow, `superseded/` | `approve_interactive`, `write_approval`, `_restore_after_failed_verification`, `ApprovalStore.inspect` | the human, the manifest file, workflow execution |
| Receipts: `receipt.py` | a directory per content address | `materialize_bundle`, `verify_bundle` | file system |
| Backup and restore: `backup_restore.py`, `backup_restore_surface.py` | a disposable database, an archive of it | dump under a write fence, restore, negative tests, teardown | Docker, PostgreSQL |
| Integrated recovery: `integrated_recovery*.py` | custody boundaries of two cycles | five stages in a fixed order, run twice and compared | the probes below, as child processes |
| Platform probes: `runtime.py`, `database.py`, `python_surface.py`, `node_surface.py`, `reliability_surface.py`, the probes of journal, recovery and backup; the runners in `containers/` | networks, volumes and containers under fixed names; a protected volume and disposable ones | look for leftovers, start, run a plan, compare, tear down, report | Docker, PostgreSQL, one another |
| Topology: `topology.py`, `runtime.py` | lock files, contract, Compose file, frozen render | `validate_topology`, binding of images | probes, the working tree |
| Manifest: `manifest.py`, `workflow_contract.py` | none | parsing, canonical form, dependency and claim rules | approval, workflow |
| Dashboard: `dashboard_surface.py`, `dashboard_evaluation.py`, `dashboard_contract.py` | one frozen view per server | load, serve, close; the repeated evaluation | browsers, the working tree |
| Command line: `cli.py` | none | every command, its envelope and exit status | all components |
| Release contract, repository scripts | none | validators of fixed documents | |

How they interact.  The approval file is the authority everything else refers
to: `execute_workflow` inspects it before it starts and before every step.  The
workflow keeps its own archive; the journal is what recovery reads and writes.
An interrupted run is reconciled by an executor that observes journal, lease,
container and effects, asks the classifier for a decision, takes the fence,
persists the decision in the pending file, and then carries it out so that a
later call with the same files can go on.  Receipts bind the outcome.

What is hard.  Most of this is sequential Python, and the difficulty is what
comes between two of its calls: another process, a death, a lost answer, an
edited file, an expired lease.  The probes share the names of one host without any
lock.  The journal and the fence serialize with
advisory locks, but a transaction judges time by its start and a caller judges
the run by an older read.  The executor reads its pending file before it is
fenced.  The workflow has no lock; its archive, pointer and containers are
changed one after the other.  `PROJECT.json` lists each of these hazards at the
line where it bites with the property that would notice.

What makes each component correct:

- journal: an intact chain per run, closed by its terminal event, one authority,
  unique event ids, and retries that are recognized as such;
- fence: one live holder, a grant that stays good until it expires, a token that
  only grows, the owner of the workflow lease undisturbed;
- classifier: fail-closed, in the contract's precedence, settled after one stop;
- executor: evidence before closing, no closing of a running container, a
  history that is true, decisions finished and not replaced;
- workflow: PASS earned step by step, approval before each start, an archive in
  order, no container left behind by a run that passed, attempts that settle;
- approval: only a confirmed manifest is approved, and what is replaced is kept;
- receipts: success reported only of an intact bundle, published bundles fixed;
- backup: what is restored is what was measured, and a pass leaves nothing behind;
- probes: a verdict leaves no container, what was passed for stays stored, what was
  found is not cleared away; the composite passes only for what every stage passed;
- topology: images are bound only by one consistent release of the files;
- dashboard: what was accepted is answered, an evaluation passes only for what it
  heard, servers with a limit end;
- manifest and command line: exit status zero is earned.

## 2. The modules

| Module | What it is | Source |
|---|---|---|
| `RunEvents` | lifecycles and the movements between them | `journal.py:30-32`, `001-schema.sql:202,267-271` |
| `Journal` | writers, transactions and the event table | `001-schema.sql:34-63,101-288`, `journal_surface.py:59-118,225-255`, `journal.py:129-218` |
| `RunLog` | abstract: one growing log per run; the journal implements it, and the executor's steps are steps of it | what `docs/event-journal-contract.md` promises |
| `JournalProofs` | theorems about `Journal`, and that it implements `RunLog` | |
| `RecoveryFence` | the fence row, its two functions, callers and the clock | `001-schema.sql:65-74,290-378`, `recovery_surface.py:334-338` |
| `RecoveryFenceProofs` | theorems about `RecoveryFence`, and about `DashboardEvaluation` with its server | |
| `RecoveryDecision` | the rules of `decide_recovery` in their order | `recovery.py:158-462` |
| `RecoveryExecutor` | extends `RecoveryDecision`: `reconcile` over journal, fence, container, files | `recovery_surface.py:138-468`, `recovery_probe.py:126-324` |
| `RecoveryExecutorProofs` | theorems about `RecoveryExecutor`, its log as a `RunLog`, and the classifier against its contract | |
| `Workflow` | `execute_workflow` with its archive, pointer and containers | `workflow.py:341-906` |
| `WorkflowProofs` | theorems about `Workflow` | |
| `ApprovalStore` | the approval command | `operator.py:151-395`, `approval.py:317-495` |
| `ReceiptBundle` | materialize and verify | `receipt.py:180-408` |
| `ReceiptBundleProofs` | theorems about `ReceiptBundle` | |
| `Surfaces` | eight probes on one host: their plans, the runner, the finally block, the look at what is left | `runtime.py`, `database.py`, `python_surface.py`, `node_surface.py`, `reliability_surface.py`, the probes of `journal_surface.py`, `recovery_probe.py`, `backup_restore_surface.py`, `containers/` |
| `IntegratedRecovery` | extends `Surfaces`: the composite of five stages and its boundaries | `integrated_recovery_surface.py`, `integrated_recovery.py` |
| `IntegratedRecoveryProofs` | theorems about `IntegratedRecovery` and the probes of `Surfaces` | |
| `BackupRestore` | the backup probe in detail: two databases, fence, archive | `backup_restore_surface.py`, `backup_restore.py` |
| `BackupRestoreProofs` | theorems about `BackupRestore` | |
| `Dashboard` | the server: load, freeze, accept, answer, close | `dashboard_surface.py`, `dashboard_contract.py` |
| `DashboardEvaluation` | extends `Dashboard`: the trials and their verdict | `dashboard_evaluation.py` |
| `ManifestRules` | the rules that relate steps, dependencies and claim, the search for a cycle call by call, and a reference for them | `manifest.py` |
| `TopologyValidation` | the files in the order they are read, and what is compared | `topology.py`, `runtime.py` |
| `CommandLine` | extends `ApprovalStore`, `ManifestRules`, `TopologyValidation`: every command and its envelope | `cli.py` |
| `CommandLineProofs` | theorems about the three parts of `CommandLine`, and about their composition | |
| `MC*` | instances for TLC, with what only the model checker needs | |

`RecoveryExecutor` composes: it evaluates `DecideRecovery` on what it observes,
carries the append rules of the journal as the operator `Appends` (the same
conditions as `Journal!Verdict` and `Journal!ReplayAnswer`, for one run), and
uses the fence as `RecoveryFence` shows it to be: one live holder, which may
stop being live before any step.  `IntegratedRecovery` runs the probes of
`Surfaces` as its children while other probes run on the same host.  `CommandLine`
puts a policy command beside the operators of `ApprovalStore`, a lint beside the
rules of the manifest, and a probe's binding of images beside a working tree that
changes; the other components enter it as the set of answers they may give.
`DashboardEvaluation` is one of the clients of the `Dashboard`.

**Granularity.** A step is one call another process can see the effect of: a
committed transaction (or, in `Journal` and `RecoveryFence`, its two halves,
since other transactions come between them), a docker command, the replacement
or removal of a file.  A death may come before any step.

**State and actions.**

- `Journal`: `rows` is the table; `lock[r]` the advisory lock; `held[w]` the exact
  record a writer keeps and resends.  `Compose` is the host building a record on
  some link it saw; `Replay`, `Refuse`, `Admit` are the three outcomes of the
  function's checks under the lock; `Insert` is the insert with the unique
  indexes and the commit; `Abort` a lost connection; `Retry` and `Finish` what
  the host does with its answer.  A digest is the tuple that is hashed.
- `RecoveryFence`: `fence` is the row; `call[h]` a transaction that has started
  (`CURRENT_TIMESTAMP` is fixed) and not yet executed; `grant[h]` what the host
  believes.  `Forget` is a host that dies, with or without a call in flight.
- `RecoveryDecision`: `Rules` is the code's list of conditions, the first of which
  decides; `Plan` carries what the executor acts on.
- `RecoveryExecutor`: `host[h].pc` is the place in `reconcile`; `Persist` is the
  pattern "change the record, save the active file, go on", whose save is the
  step `Save`.  The stages of `_execute_pending` follow its order: replay,
  evidence, stop, terminal, complete, archive.
- `Workflow`: `archive[r]` are the lines of the events file of attempt `r`;
  `host[h].sequence` the sequence the process counts for itself; `pointer` the
  active pointer.  Exception handlers are the program counters `error`, `failed`,
  `stale`, `cancelled`; `handling` says that an exception is being handled.
  `InterruptUncounted` is an interrupt between the write of an event and its count.
- `ApprovalStore`: `active` is the approval file; `Compare`, `Retain`, `Replace`,
  `Verify`, `Restore` are the system calls of `write_approval`.  `confirmed` and
  `approved` are history variables that no action reads.
- `ReceiptBundle`: `Scan` and `Copy` go through the artifacts one by one, so that
  the source may be edited in between; `Publish` is the rename.

- `Surfaces`: `Plan(j)` is the sequence of commands of a probe, `at[p]` its place in
  it, `mind[p]` whether a check failed or an exception is on its way.  A volume holds
  facts: the rows and tables that plans write and read back.  `Sweep`, `Down` and
  `List` are the finally block; `SweepFails` and `DownFails` are its commands that
  fail or, where the code gives them a timeout, raise out of it.  `StartRunner` to
  `JudgeRunner` are a runner in its container and the probe that waits for it.
  `Replace` is somebody who replaces a protected volume.
- `IntegratedRecovery`: `root` and `bound` are the protected volumes at the first and
  at the last boundary; `heard`, a history, what the stages ended with.
- `BackupRestore`: `rows[s]` is what the database of a side holds; `fenced` the lock,
  which lapses by itself; everything that exists is recorded with its maker, which no
  action reads.  A removal takes what has the name, whoever made it.
- `Dashboard`: `disk` gives the version of snapshot, records and assets, `view` what the
  server froze; a connection is `queued`, `open`, `asked`, and may be used again.
  `heard` in `DashboardEvaluation` is a history.
- `ManifestRules`: `path` are the open calls of the recursive `visit` of
  `validate_manifest`, each with the prerequisites it has still to come to; `Visit` is the
  head of such a call, `LeaveStep` its end; `upto` is the loop that makes the outermost
  ones.  The prerequisites come in any order.  `Runnable` is the reference: there is a
  sequence of the steps in which each follows its prerequisites (`Orders`).
- `TopologyValidation`: `read` is the release each file was of when it was read; a
  file names the content it depends on, so two releases agree on it only when they
  agree on that too.
- `CommandLine`: `told` is the envelope and the exit status, `loaded` the digest of the
  manifest as a policy command read it, before it reads the approval file.

**Abstractions.**  Payload, redaction, formatting and canonical JSON are data.
SHA-256 has no collisions.  The workflow dispatches any ready step, where the
code takes them in manifest order: a superset.  Preflight, repository
inspection, policy and staging of `execute_workflow` are one step that lets the
call begin or not.  Failures of `docker inspect` are not told from an absent
container.  Temporary and staging files have unique names and are never read.
Permission and path checks of the approval command are a failure that may come
at any step.  What makes a receipt valid is one value, `broken` or not; the
content address and its bundles are those of one receipt.  In `Surfaces` isolation
checks of a container are one verdict, `Fault`; a container name belongs to a project
as the substring filter of the code has it; `BackupRestore` and `Surfaces` split the
backup probe: the first has its databases and its archive, the second its custody of
the protected volume and its place beside the other probes.  In `Dashboard` a page is
the version of what it is rendered from.

## 3. What TLC checks

Deadlock is checked in `journal`, `fence`, `workflow` and `receipt`.  The other
systems really stop: a decision is classified once; the calls of the recovery
executor, of the probes, of the composite and of the operators are bounded; a command
and a dashboard end.

| Run | Bounds | What it shows |
|---|---|---|
| `journal` | 2 runs, 2 writers, 3 event ids, sequences 0..2, one authority | `ChainIntact`, `TerminalIsLast`, `RetryNeverMisjudged`; `ImplementsRunLog`: the table read in sequence order implements `RunLog` |
| `fence` | 2 holders, leases up to 2, time 0..3, tokens to 3, two workflow tokens | `AtMostOneLive`, `WorkflowOwnerUndisturbed` |
| `decision` | every consistent observation (effects varied where the rules look at them) | `OneStopSettles`; `FollowsContract`: the code's rules against the contract's ten numbered ones, written independently, with the one place where the code overrules them named (`Overruled`, section 5) |
| `recovery` | 2 recoverers, 2 decisions, a death anywhere, fences expiring to token 2, containers that exit by themselves | `TerminalFollowsItsEvidence`, `ClosedMeansStopped`, `HistoryIsTrue`, `StopIsRecorded`, `ArchivedActsNoMore` |
| `recovery_resumes` | 1 recoverer, 5 plans, 2 decisions, 2 deaths outside the windows of section 5, tokens to 3 | `PendingResolved` (liveness), `PendingNotReplaced` |
| `workflow` | 1 process at a time, 2 dependent steps, 3 mishaps (deaths, or interrupts also between the write of an event and its count), torn events, docker commands that fail, approval withdrawn, steps that end well, badly or flood their output | `PassIsEarned`, `StepsInOrder` (dependencies first, nothing done twice), `CheckedBeforeStep`, `NothingLeftBehind`, `EventsInPlace`, `AttemptSettles` (liveness) |
| `command_line` | 2 operators, 2 manifests, 3 records, time 0..1, failures anywhere; documents of up to 3 steps with any dependencies and claim, visited in any order, while there is no approval file; a tree of two releases or any mixture, one file of which changes | `ActiveWasConfirmed`, `ReplacedIsRetained` of the operators; `ZeroIsEarned` of the commands, with the lint against its reference; `MixNeverBinds` |
| `receipt` | 2 processes, 2 artifacts (one required), any bundle there already, failures anywhere | `SuccessIsExact`, `BundleImmutable` |
| `integrated` | two cycles of the composite, or two other calls, beside one another: runtime, database and node probes in one process, python, journal and backup probes in the other; one mishap anywhere | `VerdictMeansClean`, `PassIsStored`, `FoundIsKept` of the probes; `CompositePassIsEarned`, `AllSettle` (liveness) |
| `backup` | 2 probes, 2 calls, 2 mishaps, stray writes whenever no lock holds | `RestoredIsMeasured`, `PassLeavesNothing` |
| `dashboard` | 2 clients, one of them the evaluation; no limit or 2 turns; 2 requests of others, 2 edits or failures; 2 scenarios, 2 repetitions, 2 routes | `NothingCutOff`, `EvaluationIsEarned`, `EverythingEnds` (liveness) |
| `recovery_terminal_crash` | as small as the violation allows | `PendingResolved` is violated: section 5 |

Every module has a `TypeOK` where its variables are more than program counters; those
of most modules with proofs are theorems, the others are parts of their inductive
invariants, and the runs spend their time on the other properties.

Why the bounds are enough.  Races in this code are between two actors: a third
adds no new relation to a lock, a row, a name or a file that holds one owner.  Two runs
are needed for what no lock covers; three sequences for a chain with a middle; two
deaths for a recovery that is itself interrupted; two decisions for a stop and the
one that follows; a third mishap in `workflow` lets an interrupt meet an attempt that two
deaths have torn and resumed; two steps for a dependency, three for a cycle that is not between
neighbours.  Three event ids let a run be closed and tried again.  Time 0..3 with leases
of 1 and 2 has every order of start, expiry and execution of two calls.  Writers of one
run offer one authority in `journal` because a second one multiplies the states by five;
that the authority never changes is proved instead (`AuthorityFixed`).  In `integrated`
one mishap is enough to leave something behind at any step, and two calls let a probe
meet what another left; two cycles are what the code runs.  In `backup` two mishaps let
one probe fail while the other's removal fails too.  Two turns, two repetitions and two
scenarios are the least that let a turn be the last but one, a scenario be compared with
itself and be told from another.

**Fairness.**  `RecoveryExecutor!FairSpec` has weak fairness of the step of each
recoverer (a process that lives goes on, and an operator or a probe calls
`reconcile` again) and of the two expiries, which are by the clock.  Deaths are
bounded and not fair.  `Workflow!FairSpec` has weak fairness of the step of the
process only, calls of `verify` included: a container is never assumed to exit by
itself, since the deadline of each step (`workflow.py:643-648`) is enough.
`AttemptSettles` excuses an attempt whose approval is withdrawn, because nothing
obliges the operator to approve again.  `IntegratedRecovery!CompositeSpec` asks only that
some process goes on while one can: databases may never become healthy, and the waits of
the code are bounded, so everything settles still.  `BackupRestore!Spec` has no fairness:
its waits are bounded by timeouts of the code (`journal_surface.py:52`, the lock's own
`pg_sleep`), each of them one step, so that it ends would show nothing.
`DashboardEvaluation!EvaluationSpec` has weak fairness of the
evaluation, of the server, and of each connection: its handler answers, and a client that
is connected leaves at last, without which `server_close` would wait for ever.  Edits,
requests, deaths and failures are never fair.

## 4. What is proved

All proofs are for any number of processes, runs, manifests, artifacts, and any
value of the bounds, from the named assumptions of each module: bounds are naturals
(the counts of leases, artifacts, cycles, scenarios, repetitions and routes positive
ones), null values are not among the values they stand for, a parameter that lists
kinds of things lists kinds the code has, and the evaluation and the composite's child
are among the clients and the probes.  Where a theorem has a hypothesis of its own, it
is named below with what becomes of the property without it.  Every safety
property that a passing run checks is a theorem.

- `JournalProofs`: `TypeCorrect`, `JournalChain`, `TerminalCloses`,
  `AuthorityFixed`, `RetrySafe`, `RunLogImplemented`.  The chain is not
  inductive as it stands, because an admitted record is inserted one step after its
  checks.  The invariant `IInv` adds that an admitted writer holds the lock of its run
  (`AdmittedHoldsLock`), that its record still extends the last row there
  (`AdmittedExtends`), and that a run with rows has a last one (`RootExists`).  A record
  admitted under the lock can be overtaken only by another run, and then only in its
  event id, which the insert checks again.  For the last theorem the rows are counted:
  a run of n rows has the sequences 0 to n - 1 (`Dense`).  So the rows read in that order
  are a log, an insert appends to it one event the log admits, and every other step is a
  stutter.
- `RecoveryFenceProofs`, the fence: `TypeCorrect`, `RecoverersExcluded`, `LiveGrantGood`,
  `WorkflowOwnerExcluded`, `TokensUnique`, `TokenGrows`.  Mutual exclusion is not
  inductive as it stands.  The invariant adds that no call in flight started in the
  future, that a caller believes nothing while its call is in flight, that a grant is of
  the row's token or of an older one, and that a live grant pins the row: holder, token
  and expiry (`LivePinsRow`).  A call that would take the row from a live grant then sees
  it held, however long the call waited.
- `RecoveryFenceProofs`, the dashboard: `NoneCutOff`, `EvaluationEarned`.  While it runs and
  found no flaw, the evaluation has heard every route of the trials before this one, and
  of this one all that it has not still to ask for, all of the view the server froze
  (`AllHeard`); a page is heard of the view it was asked for, because the server does not
  close before its connections are answered.
- `CommandLineProofs`, the operators: `TypeCorrect`, `ConfirmedOnly`, `Retained`.  What a
  command carries on its way to the file (the manifest shown, the record built, the record
  it would restore) was confirmed.  A record that waits to be written is none of those
  reported and none of another command's (`OwnRecord`), and what a command is about to
  replace it has retained (`KeptPrior`).
- `CommandLineProofs`, the topology: `NoMixBinds`, about the validation by itself, one call
  after another (`TopologySpec`).  A file changes at most once in a call, so its reads show
  one release up to some moment and the other from then on (`OneChange`).  Two reads of the
  contract agree with the runtime lock: the last one before it, and, through the topology
  lock, one of the first; for another to differ, both files would have to change.
- `CommandLineProofs`, the documents: `LintIsRight`, that a document is accepted just when
  it can be run.  It is accepted rightly because the steps leave in an order that is one
  (`visited` is closed under prerequisites and has an order, `Ordered`); it is refused
  rightly because every step on the path comes, in any order of the document, before the
  step that called for it (`Before`), so that meeting a step of the path again would put
  it before itself.  That an order has every name of the document in it is counted.  No
  induction over the recursion is needed: the stack of calls makes it one over steps.
- `CommandLineProofs`, the whole: `CommandImplementsParts`, `CommandKeepsApprovals`,
  `ZeroEarned`.  Every step of the command line is a step or a stutter of each of its parts,
  so it inherits their invariants; with them only `CommandOwns` is needed, that a part is at
  work for one command alone and for none once it has answered.
- `ReceiptBundleProofs`: `TypeCorrect`, `SuccessSound`, `OneCreator`, `BundleFixed`.
  A report outlives the step that made it, so it stays true because a published bundle
  never changes; a process between publishing and checking has its own receipt before it.
- `RecoveryExecutorProofs`, any number of recoverers: `TypeCorrect`, `EvidencePrecedes`,
  `ClosedStopped`, `HistoryTrue`, `StopRecorded`.  The world only moves onward: the log
  grows, effects stay, a container ends and does not run again.  So what a pending record
  may be trusted for when it is written (`Sound`: it closes nothing that was observed
  running, a replay it marks was done, a stop it marks has happened) stays true in every
  hand it passes through, stale or not; a recoverer adds what has been done when it reaches
  its stage (`Reached`).  No exclusion of recoverers is needed.  The lemma `DecisionGood` is
  about the classifier, for every observation in which process and container agree: its
  first rule that applies exists, a terminal plan carries its evidence, never stops
  anything, and is never made of a running container.
- `RecoveryExecutorProofs`, the log of any number of recoverers: `LogStaysChained` and
  `LogIsRunLog`.  The executor and the journal are modelled apart; `RunLog` is where they
  meet: `RunLogImplemented` says the journal takes nothing but steps of `RunLog`,
  `LogIsRunLog` that the executor adds nothing but such steps to a log that starts with the
  root event of its run (the authority of a run is one, and an event's identifier is its
  decision and kind, as in the code).  An event is new by its identifier only if its
  decision means one thing, so the invariant `Decisive` follows the numbers: all records of
  one decision, in hands, file and history, write the same events, and the log has them
  from these (`OneMeaning`); a decision being made has a number of its own (`OwnNumber`);
  and the one that follows a stop, which reuses its predecessor's number, is the only one,
  since a container is removed once (`OneRemoval`).
- `RecoveryExecutorProofs`, the archived decisions of any number of recoverers:
  `ArchivedActs`.  A decision that is in the history has been carried out (`ArchivedIsDone`:
  its events are in the log, its effects there, its container gone), and records of one
  decision mean one thing.  So whoever brings it back from a file it read too early, or
  resumes a file that was archived and not removed, finds its work done: an append is a
  replay or refused, and a stop is refused.  Nothing is assumed of deaths.
- `RecoveryExecutorProofs`, one recoverer that dies and restarts (`OneRecoverer`):
  `NeverReplaced`, wherever it dies.  The record in hand is the one in the file (`AtHand`).
  The hypothesis is needed: TLC violates `PendingNotReplaced` with two recoverers.
- `RecoveryExecutorProofs`, the classifier: `ContractIsFollowed`, `StopSettles`.  The lemma
  `ContractFollowed` compares, clause by clause, the first rule of the code that applies with
  the contract's order of precedence, and `OverruledFails` is about the observations in
  which the code overrules it; together they are about every observation.
- `WorkflowProofs`: `PassEarned`, `DependenciesKept`, for any number of processes at once.
  A process is good of an archive: what it believes done is recorded there, and what it is
  about to write is covered by what it believes.  An archive only grows (but for a torn
  last event, which no one has read), so a process stays good of it whoever appends.
- `WorkflowProofs`, one process at a time (`OneProcess`): `InOrderOnce`, `EachStartChecked`,
  `NoneLeftBehind`, `PlacesKept`.  The invariant `SInv` says what the process at work knows
  exactly: its attempt is open and whole, it counts its events, the steps it holds for
  done are all that are (`Knows`), between two steps the attempt has no container and
  during one only the step's own (`Holds`), and every container there is belongs to an
  attempt that has not passed (`OnlyOpen`).  TLC violates each of the four properties with
  two processes on one attempt.
- `BackupRestoreProofs`: `TypeCorrect`, `RestoredExact`, `NothingLeft`.  A probe carries
  what it measured; the comparison tells apart every set of rows that the source could have
  been measured to hold, so nothing needs to be known of the archive, the fence or of
  other probes.  What a probe made is gone when the look at the end finds nothing, and it
  makes nothing between its end and its next call.
- `IntegratedRecoveryProofs`, the composite: `PassEarned`, for any number of cycles and
  probes.  As many stages were heard to pass as are counted done, and the last boundary
  looks again at everything the verdict says.
- `IntegratedRecoveryProofs`, the probes: `VerdictClean`, `PassStored`, `FoundStays`.  As
  long as nothing went wrong, the steps a probe on the protected volume has behind it have
  stored their rows (`Behind`, and `RunnerTrue` for the runner it waits for), and
  no step takes one out of that volume; all that a probe can
  have found and gone on is the protected volume, which no sweep removes (`SeenKept`).

What stays with TLC, and why.  The liveness properties: `PendingResolved`,
`AttemptSettles`, `AllSettle` and `EverythingEnds` hold under fairness, which
is, with `ENABLED`, out of the prover's reach.

## 5. Where code and documents disagree

TLC finds this one violated in a run of its own.

1. **A recovery that cannot be finished** (`recovery_terminal_crash`).  A host dies
   after it appended the terminal event and before the decision is archived.  The
   resumed decision appends its evidence again, which `append_record` refuses
   since the run has grown.  `docs/recovery-implementation.md:34` says a later
   holder replays those bytes as a no-op.

Others were met while modelling.  They are behaviours of the models, some of them
with larger constants; the passing runs state what holds beside them.

- A death between the terminal event and the removal of the pointer: the next call
  resumes the attempt, rejects it, and appends the rejection to it (`workflow.py:839`).
  `docs/workflow-verification-implementation.md:21`: "a terminal attempt is never
  rewritten".
- Two operators compare with the same prior file; the first one's approval is replaced by
  the second and retained nowhere (`operator.py:276`).  `docs/manifest-authority.md:65`: it
  "compare-and-swaps against the exact prior approval-file digest".
- A required artifact missing after a corrupt one overwrites FAIL with INCONCLUSIVE
  (`receipt.py:307`).  `docs/receipt-implementation.md:7`: "present corrupt artifact bytes
  are `FAIL`/10".
- `append_record` refuses the exact replay of a record that has a successor
  (`journal_surface.py:116`), which `docs/event-journal-contract.md:23` and ADR-0006
  (`docs/decisions/`, line 18) call replayed.  No property says that it should be refused;
  `RetryNeverMisjudged` lets the retry end in `IS_JOURNAL_DATABASE` too.
- With one effect conflicting and another unknown the classifier fails the run
  (`recovery.py:412`); the contract's rules 7 and 8 have the other order.
  `FollowsContract` says for this case (`Overruled`) what the code does.
- A death between `docker stop` and the save that records it, or a container that
  exits after it was observed running, leaves a stop that is refused for ever
  (`recovery_probe.py:257`).  `recovery_resumes` has `MayExit = FALSE` and its
  `CrashPoints` are `Recoverable`.
- A death after the stop was saved and before the run was observed again: the resumed
  decision is completed, archived and released without a new observation
  (`recovery_surface.py:364`).  `docs/recovery-implementation.md:31`: "stop and remove only
  that exact runtime, then build and classify a new observation".  The death is within the
  bounds of `recovery_resumes`; the decision is resolved, and only a later call observes.
- Two recoverers: the pending file is read before the fence is held
  (`recovery_surface.py:394`), so an archived decision can be brought back and an
  unfinished one replaced.  `ArchivedActsNoMore` says that an archived decision that comes
  back changes nothing; `recovery_resumes` and `NeverReplaced` have one recoverer.
- A death between the archive of a decision and the removal of the active file
  (`recovery_surface.py:177-180`): the resumed record carries another fence token than the
  archived one, and the two are in conflict ever after.  Excluded from `recovery_resumes` by
  `Recoverable`; `ArchivedActsNoMore` covers it.
- An interrupt before docker is found appends `run.cancelled` under the sequence the process
  knows (`workflow.py:859`).  Right after an attempt was taken up again and before its file
  is counted (`:749-750`) that is 0, at the end of an archive of any length; between the
  write of an event and its count (`:388-390`) it is the sequence of the event before.
  Either archive is refused by its own reader ever after (`:933`);
  `docs/workflow-verification-implementation.md:21` has the interrupt record `cancelled`
  and says nothing of an archive that cannot be read.  `EventsInPlace` names the two and says that there are no others.
- An interrupt in the closing windows appends `run.cancelled` to a terminal attempt
  (`workflow.py:859`); a failed step is run again after a death before
  `run.completed` (`:808`); a leftover container that matches exactly is removed and
  its step run again (`:543`), which the implementation document calls
  INCONCLUSIVE; a death before the pointer is written (`:761`) leaves an attempt
  nobody finds; two calls of `verify` at once append under the same sequences
  (`:744`).  The `workflow` run has one process, as four of the theorems do; its
  properties are the ones that hold through the rest.
- A restore after a failed inspection writes the older prior record over another
  operator's newer approval (`operator.py:294`); `ReplacedIsRetained` names it.
- Materializing fails on an optional artifact that is missing, although it passes
  the check of the source (`receipt.py:396`); a source edited between check and copy
  leaves a rejected bundle at its address, which every later call finds in conflict
  (`receipt.py:400-407`).
- A failed `docker inspect` of a running container is taken for an absent one
  (`recovery_probe.py:165`); a history file written in place may be left half written by a
  death and is in conflict ever after (`recovery_surface.py:177`).  Neither is in a model.
- An evaluation of the dashboard that fails is never reported: the validation of the
  result rejects it (`Publish`).  The working tree is compared by the names of the files
  that differ, so a file edited twice does not show (`dashboard_evaluation.py:418`).
- `handle_request` may return by its timeout, and a connection that is kept open carries
  more than one request: `--max-requests` counts turns, neither more nor fewer
  (`dashboard_surface.py:413`).
- Two probes that both found nothing to be left over run on the same names, and the one
  that fails removes the other's containers (`backup_restore_surface.py:495`,
  `journal_surface.py:340`).  The properties of `integrated` and `backup` hold still: the
  other fails, and no verdict is given for what was not seen.

## 6. Not modelled

- The release contract (`release_contract.py`), the validator of the fixed execution
  contract (`workflow_contract.py`) and those of the dashboard's fixed source bundles
  (`dashboard_implementation.py`): field by field comparisons of one document, without
  state, order or another actor.
- The repository's evidence scripts, run by hand.
- The shape of single fields of manifests, events, receipts and requests; canonical JSON,
  digests, redaction, rendering, and the arithmetic of the evaluation's metrics.
- Isolation settings of Compose and Docker, which are compared with fixed values.
- Preflight, repository inspection, policy and staging of `execute_workflow`, and platform
  permission checks of the approval command: one step that lets the call go on or not.
- A docker command that fails while an interrupt unwinds `_run_step`, and an interrupt during
  an exception handler.  The `TimeoutExpired` of `process.wait(timeout=10)`
  (`workflow.py:647`), which no handler catches, is the death of a process that has removed
  its container.  An interrupt between `archive.create()` and the first event, whose
  `run.cancelled` is then the first line.
- A docker command whose client timed out and which the daemon still carries out later, in
  `Surfaces` and in `BackupRestore`: what it makes would appear after the look at what is left.
- In `BackupRestore` the volumes before the probe are read with the look for leftovers, in
  the code before the images are built (`backup_restore_surface.py:458`).
- In `Dashboard` a connection is accepted and its thread started in one step; a port that
  cannot be bound, an asset that is missing, and an operator who interrupts the server while
  it joins its handlers (`dashboard_surface.py:411-413`), which may cut a request off.
- In `TopologyValidation` a file is there whenever it is read; only the runtime lock may be
  absent, and then nothing is said of the images (`BindUnlocked`, `runtime.py:84`).
