# Quantum Log in TLA+

Quantum Log (`qlog`) keeps a local, append-only SQLite ledger of what coding
agents consumed: hooks, importers and an OTLP collector deliver evidence, the
ledger chains and counts it, users allocate it to projects, and verification
tells whether anybody touched it. This directory holds TLA+ modules that model
the parts of the program that carry those promises, TLC configurations that
model-check them on small instances, and TLAPS proofs of the theorems that hold
for every instance.

To run: `tlc -config MCLedger.cfg MCLedger` (and likewise for each `.cfg` in the
table of runs), `tlapm LedgerProofs.tla` (and likewise for each `*Proofs` module).
`PROJECT.json` lists components, runs, mutants, findings, hazards and theorems,
and maps every definition to the source lines it stands for. Paths below are
relative to `src/`; `store.go` is `internal/storage/sqlite/store.go`.

## 1. The system

### Processes and how they interact

Nothing in the program is a long-lived server except the collector. Every hook,
import, allocation command or report is a short process that opens the ledger
file in the data directory, does its work and exits. The processes share nothing
but files:

- **the ledger** `qlog.db` with its write-ahead log, through SQLite transactions;
- **two lock files**, taken with `flock` and never waited for: the quiescence
  lock (shared by everybody who has the ledger open, exclusive for diagnostics
  and maintenance) and the writer lock (exclusive);
- **a purge marker** that release RC.9 may have left;
- **boundary files and configuration** in the data directory.

Inside a process, `sql.DB` has one connection, so its transactions run one after
the other; the collector handles one ingestion request at a time
(`collectorIngestMu`). The hard behaviours therefore lie *between* transactions:
a handler is a sequence of transactions, and a crash, a cancelled request, another
process or a redelivery can fall between any two of them.

### Components

For each component: the state it keeps, its operations, what is hard about it and
what makes it correct. Every component is in `PROJECT.json` with its status.

| Component | State | Operations | Hard about it | Correct means |
|---|---|---|---|---|
| Raw event ledger (`store.go`) | `raw_events`, `raw_event_dedup` | `AppendRawEvent`, `AppendAcceptanceBoundaryMarker` | two writers, redelivery, crash before normalisation, clock that is not monotone | one row per identity, rows never change, the chain verifies |
| Verification and anchors (`store.go`, `audit/chain.go`) | none | `VerifyLedger`, `LedgerAnchors`, `VerifyAnchors` | must accept all that the program writes and reject all else | no false alarm, damage and truncation reported |
| Model calls and aggregate (`store.go`, `usage_limits.go`) | `model_calls`, cached total in the `Store` | `RecordModelCall`, `nextUsageTotal` | cache across rolled-back transactions, overflow of int64 | each event counted once, the cache is the sum |
| NDJSON and qlog events (`ingest/jsonl`, `ingest/qlogevent`) | none | import line by line, respond | abort in the middle of a batch, duplicates that still need normalising | acknowledged only when stored and counted |
| Codex session import (`ingest/codexsession`) | checkpoint derived from `model_calls` | import of a growing log | cumulative counters that reset, inherited history, partial copies, overlaps, crash between event and call | never counts a token twice, exact for regular sessions, repeatable |
| OTLP receiver and reconciliation (`ingest/otlp`, `store.go`) | span graph in `raw_events`, `usage_reconciled` | ingest spans, `ReconcileOTLPUsage` | spans out of order over several requests, retries, cycles, crash before reconciliation | of equal usage along a path the lowest is counted, nothing is lost |
| Allocations (`store.go`) | `allocation_revisions`, heads, `usage_allocations` | assign, split, repair, revert, rebuild | retried keys, decisions between the two transactions of a revert, upgrade that dies half way | history verifies, projection is what the history says, shares add up |
| Store locks, purge, checkpoint (`storage/lock`, `purge.go`, `store.go`, `app/service.go`) | lock files, marker, write-ahead log | `Initialize`, `Open`, `OpenReadOnly`, `OpenSnapshotReadOnly`, `Checkpoint`, `Close` | handing over from guard to store lock, crash of a writer, reader during a checkpoint | one writer, diagnostics read everything, a purge is respected |
| Migrations and backfills (`store.go`) | `schema_migrations` and columns | `migrate` | dies between a migration and its backfill; legacy identities | upgraded ledgers verify |
| Sessions, interactions, tool calls (`store.go`, `ingest/otlp`, `ingest/qlogevent`) | their tables, links from model and tool calls | lookups and inserts, late linking, adoption of calls of an old version | evidence in any order, from several processes, statement by statement | a link names the right session and identity, and nothing linkable stays alone |
| Acceptance boundaries and gate (`cli/acceptance*.go`) | boundary files, marker rows | reserve, record, commit, evaluate | another process commits in between; several commits, one fails | events after a boundary are exactly those appended after it; a boundary is used once |
| Collector lifecycle, setup, bootstrap, uninstall (`cli/collector*.go`, `cli/setup.go`, `cli/uninstall.go`) | service definition, settings, directories, a legacy collector | install, start, stop, restart, uninstall, setup | each is up to a dozen calls, any of which fails, is denied or is the last before a kill | what ran before runs again, an uninstall can be repeated to its end |
| Hooks (`cli/hook.go`), capture wrapper (`capture/wrapper`) | none | deliver one event; two events around a command | timeouts, a locked ledger, a capture mode that changes on the way | best effort delivery; no prompt text leaves the process |
| Agent adapters (`adapters`) | settings, profiles and state files of other programs | install, uninstall, status | several files written one after the other, cut off, edited by the user, installed again for another home | originals can be given back, a finished uninstall leaves nothing |
| Configuration, TLS, privacy (`config`, `privacy`) | `config.yaml`, keys, certificates | edit, create, restrict | half-written files, operating system calls | a mode that cannot be read never widens what is kept |
| Project attribution (`attribution/resolver`) | none | `Resolve` | precedence of evidence | deterministic, explained choice |
| Reports, capability, pricing, TUI, CSV export, MCP server, simple CLI | none of their own | queries and rendering; MCP writes through allocations | rounding of shares | sums agree with the ledger |
| Packaging and installers | — | download and verify | outside the Go program | — |

## 2. The modules

| Module | What it models | Source |
|---|---|---|
| `UsageLog` | what the ledger promises, without chain, transactions or processes | abstract specification |
| `Audit` | hash chain verification and anchors, as functions of the rows | `store.go` 1334–1380, 1580–1640, `audit/chain.go` |
| `Ledger` | writers that open the ledger, ingest batches, record boundaries, crash | `store.go`, `usage_limits.go`, `ingest/jsonl/importer.go`, `cli/acceptance_boundary.go` |
| `LedgerProperties`, `LedgerProofs` | its properties, the refinement of `UsageLog`; proofs | |
| `CodexImport`, `CodexImportProperties`, `CodexImportProofs` | an agent writing a session log and imports of it or of copies; proofs | `ingest/codexsession/import.go`, `import_checkpoint.go`, `simplecli/cli.go` |
| `Allocation`, `AllocationProperties`, `AllocationProofs` | revision histories, projection, upgrade, verification; proofs | `store.go`, migrations 014–017 |
| `OTLPUsage`, `OTLPUsageProperties`, `OTLPUsageProofs` | the spans of a trace and the exclusion of repeated usage; proofs | `store.go`, `ingest/otlp/receiver.go`, `ingest/jsonl/importer.go` |
| `StoreLocks`, `StoreLocksProperties`, `FilesProofs` | the processes, locks, marker and write-ahead log; proofs | `store.go`, `purge.go`, `lock/*.go`, `app/service.go` |
| `Correlation`, `CorrelationProperties`, `CorrelationProofs` | from a span, a hook or an imported line to linked rows, the holder of the writer lock statement by statement, and what is kept of a prompt; proofs | `store.go`, `ingest/otlp/receiver.go`, `ingest/qlogevent/handler.go`, `ingest/jsonl/importer.go`, `cli/hook.go`, `config/paths.go` |
| `Acceptance`, `AcceptanceProperties`, `AcceptanceProofs` | boundaries, runs that read a ledger that grows, reservations, the package and its inspection; proofs | `cli/acceptance*.go`, `acceptance/real_agent.go`, `store.go` |
| `Collector`, `CollectorProperties`, `CollectorProofs` | the lifecycle commands of three platforms and setup, call by call; proofs | `cli/collector*.go`, `cli/setup.go`, `cli/uninstall.go` |
| `Adapters`, `AdaptersProperties`, `FilesProofs` | the files six adapters write, write by write; proofs | `adapters/*.go`, `cli/adapters.go` |
| `MC*` | constants of the instances that TLC checks | |

How they fit together: `StoreLocks` shows that two processes never write at once;
`Ledger` uses that as its guard (`WriterLockFree`) and models what one writer does
transaction by transaction. `CodexImport` and `OTLPUsage` refine what happens
*above* one append: which intervals and which spans become model calls. In them an
append is one step, because `Ledger` has shown what an append does. `Allocation`
starts where a model call is recorded. `Correlation` looks inside what `Ledger` calls one
normalisation: a sequence of statements under the writer lock, that can be cut between any
two. `Acceptance` is what reads while others write: its runs take a snapshot store, which
needs no writer lock. `Collector` and `Adapters` stand apart from the ledger; they are about
the service manager and about files of other programs. `Audit` is shared by everything that is
chained the way raw events are; allocation histories have a hash chain of their own
with its verification in `Allocation`.

### State and actions against the code

**One action is one transaction**, or one attempt to take a lock, or, where there is no
database, one call to the file system or the service manager: SQLite makes a transaction
visible whole or not at all, a rename a file. Files that are written in place
(`os.WriteFile` truncates, then writes) are taken as written whole too (section 5). What a handler remembers between two of them
is in variables of its own (`raw`, `recordedTokens`, `position` in `Ledger`; `reverting` in
`Allocation`; `previous`, `delta` in `CodexImport`; `current` in `OTLPUsage`; `run` in
`Correlation`, `Acceptance` and `Adapters`; `cmd` and `todo` in `Collector`), so that other
processes, users or crashes can act in between. `Crash` also stands for a request context
that is cancelled between two statements: both leave the same database behind.

- `Ledger`: `AppendRawEvent` is the transaction of `store.go` 960–1030 (reserve the
  identity, read the head of the chain, number, hash, insert); `SuppressDuplicate`
  its early return, after which the caller normalises the existing event again;
  `RecordModelCall`, `RejectModelCall`, `RejectOverflow` the outcomes of the second
  transaction; `Respond` the importer's answer. The hash is injective and kept as
  the tuple that is hashed. The wall clock is kept only as the order of readings.
- `CodexImport`: every early `continue` and `return` of the line loop of `Import`
  is an action (`SkipInherited`, `SkipChildBaseline`, `FailChildOverlap`,
  `SkipUnusable`, `SkipDuplicate`, `FailOverlap`), the two transactions of `persist`
  are `AppendRawEvent` and `RecordModelCall`. `used` is what the session really
  consumed, visible to the properties only.
- `Allocation`: one action per Store operation; `ReadRevertedParent` and `AppendRevert` are
  the two transactions of a revert; each migration and backfill is one step, and a
  process that dies in between forgets `hashPending` and `headPending`.
- `OTLPUsage`: append, normalise and reconcile are the three transactions of a span.
  `Descendants` is the recursive common table expression as a least fixed point.
- `StoreLocks`: a process is in one of twelve states; `flock` is two sets of holders
  and a guard. Looking at marker and write-ahead log is one step with taking the
  lock, because nobody who respects the lock can change them afterwards.
- `Correlation`: `spanEvents` turns a telemetry record into the events of the receiver, by
  service; `Receive` and `ReceiveForwarded` open the store (`WriterLockFree`), and from there
  each statement is an action: the two readings of the capture mode (`Attach`, `Enforce`),
  `AppendRawEvent`, `CheckCall`, the two lookups of a parent (`FindExact`, `FindUnique`),
  `LinkMatchingLegacyModelCall`, `RecordModelCall`, `RecordToolCall`, `RecordInteraction`, and
  the two updates of `backfillInteractionChildren` (`AdoptCalls`, `AdoptTools`). `Abandon` cuts
  anywhere. `whole` and `inForce` are for the properties.
- `Acceptance`: a run is `Gather`, then per boundary `ReadPosition` and `ReadEvidence`, then
  `Assemble`, `CheckUsed`, `Reserve`, `CheckOutput`, `Publish`, `Commit`, `Finish`, one step for
  each moment at which it looks at the ledger or at a file. `Package` and
  `inspectAcceptancePackage` are the two sides of a package: what `run` writes and what `inspect`
  derives again. `settled` and `published` are for the properties.
- `Collector`: a command is planned as the list of calls it makes (`Plan`, built from one
  definition per operation and platform); `Succeed`, `Refuse`, `Fail` and `Deny` are the
  outcomes of the next call, and `Abort` what the code does after an error: nothing, or, in a
  setup that had stopped the collector, a restart, whose calls are made the same way.
- `Adapters`: a command is planned as the disks its writes lead through, in the order of the
  writes; `WriteNext` makes the next one true and `CutOff` stops between two of them; an install or
  uninstall that the code refuses (an edited launcher, Claude Code's state without its settings,
  Codex's without its config) is a plan that stops. A setting, a profile
  block and a launcher are whose they are (`absent`, `mine`, a home), not their text. `loose`
  names the places at which an install was cut off before it wrote a record.

## 3. What is checked

### Runs

Between them the passing runs take every action and every disjunct of the next-state
relations. Deadlock is checked in the runs of ledgers, imports, allocations, spans and
locks, whose programs can always be called again; the last four runs set `CHECK_DEADLOCK FALSE`,
since deliveries, commands and runs are bounded there and users may simply stop.

| Run | Asks | Instance | States |
|---|---|---|---|
| `MCLedger` | do all properties of the ledger hold, and does it implement `UsageLog`? | 2 writers, 3 events in 2 chains (2 calls, 1 malformed), 1 boundary, totals 1–2 with `MaxTotal` 2, 2 crashes; writers symmetric | 90 444 |
| `MCLedgerLive` | is every event eventually reported as ingested? | the same without boundary and malformed call, `MaxTotal` 3, fair | 41 082 |
| `MCCodexImport` | is usage never counted twice, and exactly for regular sessions? | 3 counters, contradicting and incomplete snapshots, 3 snapshots, root / fork / spawn, partial copies, 1 crash | 1 801 933 |
| `MCCodexWhole` | can the whole log be imported again and again? | up to 4 snapshots with totals, 1 crash, fair | 79 185 |
| `MCAllocation` | do histories, heads, projection and shares stay right? | 1 call, 2 projects, 3 keys, up to 4 revisions, upgrade from 13, interrupted at 13 or 14 | 21 262 |
| `AllocationOrder` | *finding*: also if a split is not written in slug order? | splits in both orders | violated |
| `MCOTLPUsage` | is excluded usage always counted elsewhere, and decided by the spans alone? | every graph of 3 spans, 2 usages, 1 crash; spans and usages symmetric | 343 361 |
| `MCStoreLocks` | do the locks keep processes apart? | 3 processes, 2 transactions, 2 crashes; processes symmetric | 15 034 |
| `MCCorrelation` | are links right and complete, is nothing counted twice, do prompts stay private? | 4 deliveries out of 8 events (Copilot root and child span, Claude span, Codex log, hook prompt, plugin tool, two imported lines), 1 old call, 1 mode change or 1 cut | 1 869 889 |
| `MCAcceptance` | does a package claim only what happened, is it accepted as written only, and is a boundary spent once? | 3 agents, 2 pieces of evidence, 2 boundaries, 2 runs, 2 outputs, clock up to 4 with a window of 2; runs, outputs and boundaries symmetric | 817 654 |
| `MCCollector` | does setup restore and redirect nothing, can an uninstall always be finished? | 3 platforms, 2 homes, 3 commands, 2 failures or denials, 1 kill or reboot, with and without a legacy collector | 386 302 |
| `MCAdapters` | can originals always be given back, does an uninstall leave nothing, is an agent set up for the home asked for? | 6 adapters, 2 homes, 2 profiles, 4 commands, 2 edits, 2 cuts | 234 717 |

### Why the bounds are enough

- *Ledger.* A wrong previous hash needs two rows of a chain and one of another to
  confuse; overflow needs two calls; a stale position needs a second writer. Three
  events, two writers and a total of 2 give all of these. Each crash loses the
  memory of one writer, and after the second both have been lost once. Completeness
  in the number of writers and events is what the proofs add.
- *CodexImport.* An interval has two ends and the checkpoint is a third position:
  three snapshots are the fewest with an overlap that is neither before nor after.
  `MCCodexWhole` uses four, since a child has an inherited end as well. Larger
  instances (four snapshots, steps 1 and 2, 10.9 million states) were run once and
  showed nothing new.
- *Allocation.* Calls do not interact (each history, head and projection row belongs
  to one call), so one is enough. A revert needs a parent, a decision in between and
  itself: four revisions and three keys cover a revert of an inner revision, a
  reused key and a decision between the revert's two transactions. 3333 / 6667 of 1,
  3 and 10 tokens does not divide.
- *OTLPUsage.* All graphs of three spans contain chains, siblings, cycles with a
  tail, and a span without usage between two that report. Four spans with one usage
  (9.2 million states) were run once.
- *StoreLocks.* Every property relates at most two processes, and the third is the
  one that changes the files between the two (a purge, a writer, a crash). The proofs
  hold for any number.
- *Correlation.* A link relates a prompt and a child, an ambiguity a second prompt, an adoption
  an old call: three deliveries, and the fourth redelivers one that was cut. `MCBound` allows a
  change of the mode or a cut in a behaviour, not both: the mode decides what is kept of a prompt,
  a cut decides which rows are linked, and no step reads both. Proofs cover any number.
- *Acceptance.* A double use needs two runs and one boundary; a partial commit two boundaries.
  `MCBound` combines evidence and the passing of the window with one run and one boundary, and two
  of each with neither, because a run's findings depend on the ledger and its own boundary only,
  and what runs do to each other on the boundary files only.
- *Collector.* One command to get into a state, one that fails half-way, one that is run again or
  for another home: three. Two failures are a failing step and a failing restoration.
- *Adapters.* Install, install for another home, uninstall, uninstall again: four commands; two
  cuts leave two halves of different homes, and two edits are one before and one after an install.
  Adapters touch disjoint files, so each is followed alone.

### Properties

Type invariants (`TypeOK`) carry a relation each: a link names an existing row, a run that
publishes holds its reservations, a listener has one owner. Those of the ledger, spans and locks
are the first conjuncts of the proved invariants and have no run of their own.

- **Ledger.** `LedgerVerifies`: verification accepts what the program wrote.
  `DamageIsDetected`, `TruncationIsDetected`: it rejects changed, removed and
  exchanged rows, anchors report missing ends. `CachedTotalIsExact`: the cached aggregate
  survives rollbacks. `BoundaryIsExact`: the events after a boundary are those appended
  after it. `ImplementsUsageLog`: the refinement, by which redelivery stores and counts
  nothing twice and nothing is rewritten. `EventuallyIngested`: liveness.
- **CodexImport.** `NeverOvercounts`, `ExactForRegular` compare the ledger with what
  the session really consumed. `WholeLogImports`, `ReimportIsIdempotent`,
  `EventuallyRecorded` say what importing again may and must do.
- **Allocation.** `AllocationsVerify`, `TamperingIsDetected`, `SharesAddUp`,
  `ProjectionIsRebuildable`, `RevertRestores`.
- **OTLPUsage.** `ExclusionsAreCovered`: no usage is lost. `ReconciledInAnyOrder`:
  after a reconciliation the result depends on the stored spans only; stated with a
  walk from child to root, where the code walks from parent to leaves.
- **StoreLocks.** `OneWriter`; `DiagnosticsAreComplete`: a database opened as immutable holds
  everything; `PendingPurgeIsRespected`.
- **Correlation.** `ParentsMatch`: no link crosses sessions or identities. `ChildrenFindParents`:
  once all is quiet, nothing that names the only interaction of its session stays without it, in
  whatever order, from whatever source, after whatever cut and redelivery.
  `LegacyIsNotCountedTwice`: the event of a call that an old version counted takes the old row
  over. `PromptsStayPrivate`: no text leaves its process; redacted text needs the consent that was
  in force at some time, and never travels.
- **Acceptance.** `EvidenceFollowsBoundary`: what a package claims was appended after the boundary,
  is counted, and is dated inside the window, with lifecycle evidence of the same session where the
  contract asks for it. `PublishedBoundaryIsSpent`. `PackagesAreInspectable`: `inspect` accepts what
  `run` wrote and no package whose files or statuses were changed, even with new checksums.
- **Collector.** `SetupKeepsCollectorRunning`: after a setup, failed or not, what should run runs.
  `SetupNeverRedirects`: it never changes the home of an installed collector.
  `SettingsOutliveFiles` and `UninstallLeavesNothing`: an uninstall can be repeated until it is done.
- **Adapters.** `OriginalsOnRecord`: every setting that is not the user's has its original on
  record, between whichever two writes a command was cut off. `UninstallIsComplete`: a finished
  uninstall leaves no value and no text of qlog's. `InstallIsVisible`: after a finished install Status
  says installed, the settings, hooks, blocks and lists of the adapter are those of the home it was
  run for (`SetUpFor`, stated adapter by adapter from what is to be on the disk; Status looks at no
  home), and nothing names another home. The exception is in the formula: a PowerShell profile
  that this install did not find keeps the block of an earlier one. `UserEditsSurvive`: no command
  takes a text of the user's, no uninstall a setting.

For every property of a passing run, `PROJECT.json` names a mutant: a definition of
the code with a plausible bug, under which the run finds the property violated.

### Fairness

`Spec` has none; only two runs use `FairSpec`.

- `MCLedgerLive`: weak fairness of `Handle(w)`: the steps of a handler are
  sequential code that waits for nobody (locks are not waited for), so one that is
  running goes on or crashes. Strong fairness of `Redeliver(i)` is an assumption about
  the *source*, not about this code: it delivers again until it is told that its
  event was ingested, and is not always unlucky with the lock. It holds for an OTLP
  exporter, which retries a 503, and for a log that the user imports again; it does
  **not** hold for hooks, which drop an event for good (listed as a hazard).
- `MCCodexWhole`: weak fairness of `Step` for the same reason, and of
  `BeginImport(1)`: the user imports again after a crash.

Liveness of diagnostics is not claimed: their exclusive lock is not waited for, and
overlapping clients can keep it from them for ever.

### Finding

One run is expected to be violated; `PROJECT.json` quotes the promise. **`AllocationOrder`**,
`store.go:2553`: a split that is not written in slug order is stored in the written order and
verified in slug order, so that `qlog verify` fails on an untouched ledger. `MCAllocation`
excludes it with `Requests <- MCOrdered`.

### Known divergences

Met while modelling and without a run of their own. Where a constant of a module excludes the
case from the passing runs it is named; changing it in the `.cfg` brings the counterexample back.

*Ledger and verification.*
- `store.go:985`: the row a new event is chained to is picked by `created_at DESC, id DESC`,
  verification walks by `event_sequence`. With a clock that stands still or is set back, the
  program writes a chain it then rejects (`ClockAdvances`).
- `store.go:1011`: the stored source version is trimmed, the hashed one is not: a version with
  outer blanks breaks verification (`Padded`).

*Imports and usage.*
- `codexsession/import.go:228`: the log of a forked session without inherited history can be
  imported once; the second import fails and takes the files after it along (`Unseen`).
- `jsonl/importer.go:276`: a span without usage that arrives last and connects two calls triggers
  no reconciliation, and the usage is counted twice. No property of `MCOTLPUsage` claims otherwise.
- `store.go:1191`: interactions adopt model calls even when a second interaction of the session has
  the same identity, although lookups in the other order refuse to guess (comment at
  `store.go:1230`). `ChildrenFindParents` speaks of unambiguous identities only.
- `cli/hook.go:218` says that "the next native event will retry ingestion"; nothing keeps the event
  that failed. `Lose` drops it.

*Acceptance.*
- `cli/acceptance.go:87` calls a boundary one-use. Two runs that overlap can both publish it: the
  second looks for used files before the first commits and reserves after it. The property is
  therefore about runs that are over (`settled`).
- A run on a broken ledger without boundaries writes a package that `inspect` refuses.
- `qlog adapter verify copilot` can never succeed: the contract (`cli/adapters.go:323`) expects calls
  of the agent "GitHub Copilot CLI", but `hasAdapterEvidence` drops these names when it asks for
  correlated evidence, and the store then compares with "copilot".

*Collector.*
- `collector install --home B` over a running collector for A rewrites definition and settings; a
  setup that fails later restarts B, against the comment at `cli/setup.go:179`. `settled` in
  `SetupKeepsCollectorRunning` excludes a definition that does not agree with what runs.
- A Windows install that dies between `/Create` and the rename, and any install that dies between
  definition and settings, leaves the two in disagreement.
- A setup that is killed after it stopped the collector leaves it stopped.

*Adapters.*
- `adapter uninstall opencode` never removes the plugin (`adapters/command.go:94` looks for a marker
  that the plugin does not have).
- An install cut off between a launcher or a profile block and the record of it, or for Codex between
  state and config while it moves to another home, leaves text that no uninstall finds (`loose`).
- On a POSIX shell the state names one profile: an install from a second shell forgets the first.
- Claude Code: an uninstall that finds nothing to remove leaves the state file; without a state
  it deletes a value of the user's that equals the one an older qlog wrote (`Theirs`).
- Codex: without `config.toml` but with a state, every uninstall fails.
- Claude Code: without `settings.json` but with a state, every install fails before it writes anything
  (`claude_code.go:145` parses the missing file), until the state is removed by hand. The user
  deleting the file leads there, and so does a first install without the file that is cut off between state and
  settings. The docs call install idempotent
  (`docs-int/specs/2026-07-20-agent-auto-capture-design.md:47`); `InstallIsVisible` speaks of
  installs that return without an error only.
- A reinstall overwrites a managed setting that the user has changed since.

## 4. What is proved

TLAPS checks the following for *every* value of the constants that satisfies the
`ASSUME` of the module (checked by TLC on each instance).

**`LedgerProofs`.** `TypeCorrect`, `StoredOnce`, `UsageCountedOnce`,
`BoundariesAreExact`, `NothingIsRewritten`. None of the invariants is inductive alone;
their conjunction with two more is:

    Inv == TypeOK /\ OneWriter /\ DedupMatchesLedger /\ CountedOnce /\ BoundaryPositions

`OneWriter` (at most one writer has the store open) is needed because a second
one could append between reading and writing; `BoundaryPositions` says that every stored
boundary names the row below its own and a position that was read is still the length of
the ledger. Almost every action either inserts one row or none (`InsertOrNot`), which
reduces twelve actions to two cases. `WrittenLedgerVerifies` proves `LedgerVerifies`
under two named hypotheses, `ClockAdvances` and `Padded = {}`: the ones whose absence
the first two known divergences exploit. Its invariant, `ChainInv`, says that creation times follow the
sequence, so that the head by time is the head by number.

`DamageIsSeen` and `TruncationIsSeen` are about rows that are *not* reachable: what verification
says of a ledger that was tampered with. `StampInv` says that each row carries its number and the
hash of what it holds; hashes are injective, so the least row that differs is reported, and this
needs neither hypothesis. An anchor is of the last row of a chain; that the row with the latest
time is the last needs `ClockAdvances` (`TimedInv`).

`AggregateIsExact` is about a sum over the calls, and facts about a recursive sum seem to
need induction. They are proved by a *least counterexample* instead: among the sets over which a sum is not
determined there would be one with no smaller such set inside (`LeastSet`, from the finiteness of
sets), and taking one element out of it gives a smaller one. From there on, one more call adds its own tokens
(`TotalGrows`), and a writer that has cached a total is the only one that can add a call.

`LedgerImplementsLog` is the refinement. Every step of a writer maps to a step of
`UsageLog` or to a stutter: an insertion of an event to `Store`, `RecordModelCall` to `Count`,
`Respond` to `Acknowledge`. `IngestedInv` says what a writer that responds has seen to: each
line of its batch is stored and, if it is a call, counted; a crash forgets the batch, not the rows.
`TotalInv` says that the abstract total, a sum over identities, is the sum over the calls.

**`AllocationProofs`.** `HistoriesAreWellFormed` is the inductive invariant `HistoryInv`:
revisions are numbered from 1, each on top of the one before, under distinct keys, and
a running revert holds the allocations of the revision it read. From it `KeysAreUsedOnce`,
`RevertsRestore` (an action property: histories only grow, so what was read in the first
transaction is still true in the second) and, if users cannot give the key that the Store
makes up (`KeysReserved`), `AssignmentsNeverOverride`. `WrittenHistoriesVerify` adds
`VerifyInv` (links, hashes, heads) through all migrations, if no upgrade dies between a
migration and its backfill (`SafeUpgrades`); `ProjectionIsAlwaysRebuildable` needs splits
in slug order (`InSlugOrder`, the finding); `WrittenAllocationsVerify` needs both. What
sorting returns is not looked into: the hypotheses say what is needed of it, and the
constants of `MCAllocation` satisfy them.

`TamperingShows` (`TamperingIsDetected`) is about histories that are *not* reachable: the ones left
when a revision is taken out or changed, or a row of the projection is. Hashes are injective, so a
changed revision differs from its hash, and a missing one breaks a link. Nobody would miss a history that
loses its only revision if it had no head: `HeadsPresent` says that it has one. The hypotheses are
those under which verification accepts what was written.

`AllTokensAreShared` (`SharesAddUp`) is about two folds, the order of the rows and their cumulative
points. `apportionShare` rounds both ends of a row's share, and the end of one row is where the
next begins (`ShareUpTo`), so that the rounding cancels. That the shares of the *reported* rows meet in
this way follows from their ordinals: the rows that a report reads in the order of its index are the
rows of the split (`RowsInOrder`). `Divided` says that every revision ever written is a split.
Facts about folds are proved with the least number at which they would fail (`LeastNumber`).
`LegacyIsDivided` is what the old version made sure of when it stored its allocations.

**`OTLPUsageProofs`.** `TypeCorrect` and `NoUsageIsLost` (`ExclusionsAreCovered`) for any
finite set of spans and any graph. The argument: descendants are transitive and only grow;
among the calls that report the same as an excluded call and are below it there is one
whose set of descendants is minimal; it is no duplicate itself, since whatever duplicates
it would be below it with a smaller set or in a cycle with it. This is why the code excludes
cycles, and it is a proof over the well-founded order of strict subsets, not over data.
`OrderDoesNotMatter` (`ReconciledInAnyOrder`) has no hypothesis of its own; the property itself is about traces
without cycles. The code walks from a span to its parents, the reference definition asks who can be reached:
`AncestorsAreWalked` and `WalkersAreDescendants` relate the two, and a walk that is longer than there are spans
would meet one twice (`DescendantsAreWalkers`).

**`FilesProofs`** holds the proofs of two components that share nothing: the ledger's files and the
files of the agents.

*Locks and log.* The three properties of `MCStoreLocks` and three more, for any number of
processes: type correctness, that no step changes what a diagnostic reads
(`DiagnosticsAreUndisturbed`), and that a log left behind is explained (`LeftoverLogIsExplained`).
`Inv` adds two facts to them: whoever holds the quiescence lock alone is the only one in it
(`Alone`), and an empty log hides nothing, with diagnostics only on an empty log
(`EmptyLogHidesNothing`). `TypeOK` ties each lock to the states in which it is held; then
"cannot happen at the same time" is "would need a lock that is taken".

*Adapters.* All four properties of `MCAdapters`, for any homes and any number of commands, cuts and
edits. The only assumption is `AdapterAssumption`: the adapters are the six that are modelled, and a home
is none of the other values. A command is planned when it begins, as the disks its writes lead
through, so the invariant `AdapterInv` is about the plan (`RunInv`): every disk in it is one on which the command may be
cut off (`Good`), every write spares what is the user's (`Spares`), and if it is to succeed its last disk is what it is
for (`Outcome`: for an install that Status sees it and that the agent is set up for its home).
That no other home is left then follows from `Good` (`OneHomeIsLeft`). `OriginalsOnRecord` says too little to be inductive. `Good` adds what the next command needs: a
record exists whole or not at all and names values of qlog's (`RecordFits`), a settings file that is gone
took with it what stood in it (`FileFits`), each place holds a text that may be there (`TextsOf`), and no place
holds a text of qlog's that no record names (`Unnamed`), which is what lets an uninstall look at the listed
places only. Then there are two lemmas for each adapter, one for its install and one for its uninstall, that follow
the plan write by write (`StartIs`, `WriteIs`, `StopIs`); the last part takes the plan's promise from the
run to the disk (`WriteNextKeepsInv`), and what an unfinished install leaves into `loose` (`LooseIsCounted`). The
uninstalls of Copilot are folds over the profiles; there are two of them, so the folds are written out
(`PosixUninstallIs`, `PowerShellUninstallIs`). TLC checked `AdapterInv` on the instance of `MCAdapters` first.

**`CodexImportProofs`.** `NothingIsOvercounted` (`NeverOvercounts`), for logs of any length, any
counters and shapes of snapshots, any copies and crashes. `NeverOvercounts` alone is not inductive:
it says nothing of a running import. `LogOK` is a fact about the agent: from its first own
snapshot on the counter rises by no more than the session uses, because a reset only makes it
smaller; `FromNothing` adds that a root's counter starts at zero. `ImportOK` is about the import: its
baseline is the snapshot it read last, and what it is about to record fits between the
checkpoint and the snapshot it records (`StoredInterval`), since the interval is measured from the
later of the two. The hypothesis `InheritedTotalKnown` is part of the property: without it TLC
finds an overcount.

`RegularUsageIsExact` (`ExactForRegular`) adds `ExactInv`: in a regular session every snapshot
that reports a total shows the whole meter, so what is counted plus the interval about to be
recorded is what was used up to the snapshot read. `ReimportsRecordNothing`
(`ReimportIsIdempotent`) has no hypothesis: children, resets and snapshots without a total are all
covered. Its invariant `WholeInv` says which snapshots count by looking at the log only
(`Counts`), that the recorded calls are the first of those, and that a running import has passed
none of them by (`CountedTo`); `ImportOK` alone could not exclude that a second import judges a
snapshot differently because the ledger has changed in between. `WholeLogsImport`
(`WholeLogImports`) needs `TurnsAreShown`: each snapshot reports the total and the turn, and a
session that inherits nothing starts from nothing, as in the run `MCCodexWhole`. Without it the
property is false: an import ends in an error at a first snapshot it cannot measure
(`codexsession/import.go:228`, section 3).

**`AcceptanceProofs`.** `ReservationsAreExclusive`, `TypeCorrect`, `PublishedBoundariesAreSpent`, for
any number of boundaries, runs and outputs. The invariant follows the reservation files: the
ones a run holds (`HeldBy`) are disjoint, and every boundary of a publication that is over is either
used or *left behind*, reserved and held by nobody (`LeftBehind`). Nobody removes a file that is left
behind; a run that has seen no used file can therefore not reserve it (`Respects`).
`EvidenceIsNew` (`EvidenceFollowsBoundary`) needs `~FutureDated`, the assumption on sources that the run
makes too: then the marker of a boundary divides the ledger into rows dated before it and rows
appended after it (`Divides`), and what backs a claim is never removed (`Backed`).
`PublishedPackagesAreInspectable` follows what a run has gathered (`GatheredInv`): derived statuses and
one item for an agent and a boundary are what `inspect` asks for, and determine the package. It
assumes that there is an agent (`Agents # {}`), as the fixed registry of the program has; a package of
no agents has no status that a change could contradict.

**`CorrelationProofs`.** `LookupsStayRight`, `TypeCorrect`, `LinksNameParents` (`ParentsMatch`), for any
events and any number of deliveries, mode changes and cuts. A link is written by a later statement
than the one that looked it up; the invariant says, for each position in the handler, what the
link it holds names (`HoldsOK`). Tables only grow (`Grows`), so that it stays true. The writer lock is
not needed for it, nor for the next two. `PromptsAreKeptPrivate`: from the moment the import has
applied the mode, what a worker holds fits the label it carries, and a redacted text an agreement that was once
given (`Enforced`). `NothingIsCountedTwice`: the rows of the old version stay first in the table, and a row
for the same usage is added only when the old one has been taken over (`OldRowsFirst`).
`NobodyStaysAlone` (`ChildrenFindParents`) does need the lock: a worker that found no unique prompt
must still find none when it adds the call (`Settled`), and a worker that adopts children must
miss none that is added meanwhile; `Found` is what holds of a prompt that was ingested to its end.

**`CollectorProofs`.** All five properties of `MCCollector`, for any homes and any number of commands,
failures, denials, kills and reboots. A command is the list of calls it has still to
make, so an invariant of what holds *between* two calls is a relation of the state to that list: a call comes
only after another (`Preceded`), is followed by one (`Followed`), or what the other does is already so.
The plans are looked at once (`PlanScripts`); each step then takes the first call away, which
keeps such relations (`OrderKept`). `UninstallIsThorough` and `SettingsAreKept` rest on `Removal`: what starts
the collector is on record (`ServiceSound`), the order of the removal (`UnixOrder`,
`WindowsOrder`), and what is still there is still to be removed (`NothingForgotten`). `SetupsStayHome` rests on
`Aim`: a setup that found known settings works for that home, or has not looked yet. `SetupsKeepRunning`
rests on `Course`, the phases of a setup: `Pending`, `Replacing`, `Declined`, `Restoring`, `Over`. TLC
checked `Removal`, `Aim` and `Course` on the instance of `MCCollector` before they were proved.

**Only model-checked.** Liveness (`EventuallyIngested`, `EventuallyRecorded`) and anything
about ENABLED: the prover has no rules for them. Every invariant and every action property that a
passing run checks is the conclusion of a theorem.

No module with a proof declares a RECURSIVE operator.

## 5. What the models leave out

- **Ledger.** Suppression counters and received-at columns (never read by ingestion), sessions,
  interactions and tool calls written by the same line, ledgers from before event numbers.
  Hashes are injective: collisions are out of scope.
- **CodexImport.** One session; times are positions in the log, so two snapshots with the same
  time do not occur (a hazard without a property); copies are contiguous pieces. Malformed JSON
  ends an import like a cancellation. `NeverOvercounts` has the hypothesis
  `InheritedTotalKnown`, without which TLC finds an overcount.
- **Allocation.** Projects are numbered in slug order and never renamed; one revert is in flight
  at a time, and decisions come between its transactions as they can between goroutines that share
  a `Store` (the shipped commands hold the writer lock throughout); one method per revision, confidence left out; legacy rows without a project left
  out. Upgrades interrupted at schema 15 or 16 violate `AllocationsVerify` (a hazard names the
  line), as do legacy splits in an order that is not that of the slugs.
- **OTLPUsage.** One trace whose spans have distinct ids; the ledger has no calls from before
  raw events were linked to calls; a crash is counted, a re-export is not bounded.
- **StoreLocks.** `EnsureConfig` only creates the data directory; an initialization that found
  no home is unguarded, and `PendingPurgeIsRespected` says so by leaving it out (a hazard quotes
  the comment that claims more). SQLite, `flock` and the purge of RC.9 are external. The
  `MaxCommits` and `MaxCrashes` bounds cut counters only.
- **Correlation.** Timing, metrics and resolution of projects; names of attributes and the decoding of
  requests; the parsing of each agent's hook input. A lookup that fails with an error is a cut, though the
  tool path ignores the error and goes on without a link. Reconciliation of usage is in `OTLPUsage`.
  A call without an interaction is linked by prompts only: `LinkModelCallInteraction` has no caller.
- **Acceptance.** Verification is one step (a hazard says what that hides); sizes, names and redaction
  of files; the sentinel command. Sources do not date evidence into the future (`FutureDated`).
- **Collector.** One command at a time; service managers do not restart what fails
  (restart-on-failure, KeepAlive); the definition and its settings are two calls on every platform,
  each of them whole: a kill inside `os.WriteFile` (`collector_linux.go:69`, `:203`,
  `collector_darwin.go:73`, `:200`, `collector_windows.go:278`), which leaves a truncated file, is left out (a hazard notes it).
- **Adapters.** Edits during a command; the marker adapters (Pi, OpenClaw, Hermes); texts and backups;
  kills inside a write. VS Code's settings are renamed into place; every other file is written
  with `os.WriteFile`, which truncates it first (`collector_auth.go:55`, `opencode.go:95`). "Cut off"
  means between two writes in all that is checked and proved: a kill inside one may leave an
  empty or partial state, settings file or profile, and nothing is claimed of what follows (a hazard notes it).

### Not modelled

Project attribution (a decision table over paths and remotes), pricing (a rounded product), TUI and reports
(queries that are rendered), CSV safety and domain types, the capture wrapper (two appends around an
external program, each of which `Ledger` models), certificates and file permissions (operating system
calls), installers and packaging (outside the Go program). None of them keeps a state that another
part of the program reads, beyond the writes that the modules above contain.

## 6. Plan

Done in this order, the most important behaviour first: the ledger and its verification, Codex
imports, allocations, OTLP reconciliation, the locks; then the acceptance gate, the collector with
setup, the adapters, correlation and prompt capture, the proofs for imports, reservations and
links; then the refinement of `UsageLog`, damage and truncation, completeness and privacy of
correlation, and the collector; last the proofs about the adapters. What would come next:

1. Verification through a snapshot while the collector writes, one step per statement of
   `VerifyLedger`, on top of `Allocation` and `Acceptance`.
2. The backfill of ingestion identities for legacy rows, and the unguarded initialization of an
   absent home against a purge of RC.9, on top of `StoreLocks`.
3. Attribution as a pure operator against a reference definition.
