# A TLA+ verification of skuld

skuld is a Rust test harness. It runs `#[skuld::test]` functions on libtest-mimic,
injects fixtures, and keeps *serial* tests from overlapping, across threads and
across test processes, by means of a small SQLite database. This directory holds
TLA+ models of the parts of skuld that are hard to test, the TLC configurations
that check them on small instances, and TLAPS proofs of the central results.

Source paths below are relative to the repository root.

## 1. Inventory

| Component | State it keeps | Operations | Talks to |
| --- | --- | --- | --- |
| Serial rules (`src/coordination.rs`, `src/label.rs`, `src/fixture.rs`, `cargo-skuld/src/graph.rs`) | none | `to_storage`, `can_start`, `merge_serial_filters`, `conflicts` | used by coordination and by cargo-skuld |
| Cross-process coordination (`src/coordination.rs`) | the `running` and `labels` tables, one connection and one row id per registered test | `coordinate`, `clean_stale_entries`, `register`, `TestRegistration::drop` | SQLite; the OS (is a PID alive?); the runner |
| Violations list (`src/coordination/violations.rs`) | failures that could not be raised during an unwind | `record`, `take` | `Drop` writes, `fail_on_violations` reads |
| Opening the database (`src/coordination.rs`, `coordination/lock.rs`, `coordination/moved_db.rs`) | the init lock; the identity of the main file and its `-wal`/`-shm` companions | `with_init_lock`, `connect_locked`, `open_db`, `ensure_schema_locked`, `has_moved` | file system, SQLite |
| Database directory (`coordination/db_dir.rs`) | directories | `resolve`, `layout_dir`, `create_dir_all_open`, `check_usable` | file system, environment |
| Publishing (`coordination/publish.rs`) | a temp file, then the database file | `ensure_published`, `create_publish_temp`, `rename_publish_temp` | file system |
| Schema migration (`src/coordination.rs`) | `user_version`, legacy rows | `migrate_schema`, `scrub_serial_filters_v1` | SQLite |
| Fixtures (`src/fixture.rs`) | the process store behind a mutex; a thread-local list per test; owning handles | `fixture_get`, `TestScope::drop`, `cleanup_process_fixtures`, `warm_up` | user code (setup, Drop), macro-generated closures |
| Test body closure (`macros/src/lib.rs`) | locals of one closure | scope, handles, body, `should_panic` | fixtures, runner |
| Runner (`src/runner.rs`) | the trials, the conclusion | `run_tests`, `run_with_observability`, filters, metadata dump | all of the above, libtest-mimic |
| Built-in fixtures (`src/fixtures/`) | the process's working directory, environment, temp directories | `CwdGuard`, `EnvGuard`, `TempDir` and their `Drop`s | OS |
| Output capture (`src/capture.rs`) | redirected descriptors, a drain thread | `begin`, `end`, `drop` | OS |
| Label expressions (`src/label.rs`, `src/label.pest`, `parse_serial_expr` in `macros/src/lib.rs`) | canonical (BDD) expressions, serial texts | parse, evaluate, combine, print, compile to SQL, merge | serial rules, runner, the macro |
| Nextest groups (`cargo-skuld/src/graph.rs`, `metadata.rs`) | the collected metadata, a union-find over tests | `collect_metadata`, `build_groups` | test binaries (`--list`), nextest |
| cargo-skuld's front end, the rest of the macro, Windows support, xtask | — | — | — |

What is hard here: several processes share one database and die whenever they
like, leaving rows; the database may be deleted or replaced under them; a waiting
test polls, so nothing queues; the last action of a test is a `Drop` that may run
during an unwind, when it must neither panic nor lie; fixture setups run outside
the lock that protects their cache; drops of user values may panic anywhere;
capture swaps the process's descriptors under a running thread, a child process
and a buffer; what a test excludes is collected through a graph of fixtures and
told twice, to the database and to nextest; the same database is created by
whoever comes first, of any user, in directories that may be missing, and brought
up to date under tests of an older version that are running; a filter is parsed by
two parsers, printed, stored, merged as text and applied as SQL.
`PROJECT.json` lists these as hazards, each at its line, with the properties that
would catch them.

What makes each part correct:

* serial rules: the rule a waiting test applies to the table and the rule
  cargo-skuld applies to a pair of tests are the same rule;
* coordination: no two conflicting tests overlap; a living test's row is never
  deleted by others; a run that reports success has left no row; every test gets
  its turn;
* opening: an overlap caused by a moved database is never silent; nobody deletes
  somebody else's row; a split init lock is noticed;
* directory and publishing: all binaries of a profile find one database; entries
  appear at once, open to all users; races, deaths and failures turn nobody else
  away and leave nothing lying about;
* migration: it is one step for everybody else, happens once, and never changes
  what a running test excludes;
* label expressions: parsing, operators, printing, storing and SQL keep the
  meaning, and the macro's parser and the grammar agree;
* fixtures: what a test uses is alive; process fixtures are shared, the others are
  fresh; teardown follows dependencies; a leak fails its test; the verdict is the
  body's;
* runner: a test is selected, made serial and made unavailable by everything it
  reaches through its fixtures, and the dump says the same as the database;
* nextest groups: they are the components of the conflict graph, so tests that
  nextest runs side by side never wait for one another inside skuld;
* output capture: a trial's output is captured whole and in order, shown exactly
  when the trial failed, and nothing is left redirected or open after it;
* built-in fixtures: a guard whose `Drop` runs to its end leaves directory and
  environment as the test found them, a `Drop` that does not has a cause in the same
  test, and no temporary directory is left or removed by mistake.

## 2. Modules

```
SerialRules ──EXTENDS── Coordination ──INSTANCE── SerialExec
SerialRules ──EXTENDS── Migration, Nextest, Collect
Requirements ──EXTENDS── Collect, Nextest
SerialRules ──INSTANCE── LabelFilter
Publish ──INSTANCE── AtomicPublish
MovedDb, Fixtures, Capture, Guards
```

Every component `M` has a module `MCM` that gives its constants values for TLC, and
all but LabelFilter a module `MProofs` with the theorems TLAPS checks; those of Collect
are in NextestProofs, because its dump is what Nextest reads. That module extends both,
so Collect's specification is called `CollectSpec` and so on. Requirements is the
environment the two share: what a requirement function looks at.

Operators whose comment begins with "Mutant:" are altered copies of the operator
that follows them. They are used by no specification; replacing the original by
one of them must break the property named in `PROJECT.json`, which shows that the
property depends on the line of code concerned.

**SerialRules** — a label filter is represented by its meaning, the set of label
sets it accepts. That is what the canonical form of `LabelFilter` provides (equal
meaning, equal value), and the module LabelFilter checks it. The sentinels `""` and `"*"` are separate kinds because the
code compares them by name; `a | !a` is an expression until `to_storage` turns it
into `"*"`. A string that does not parse is a kind too: `can_start` skips it in
step (b). `CanStart` has `can_start`'s four steps; `Conflicts` is `graph.rs`'s
pairwise test, written from that file.

**SerialExec** — the abstract specification: tests ask, start when nothing they
exclude is running, end; one or several may end at once when a process dies. It is
a safety specification; that tests get their turn is stated of Coordination.

**Coordination** — any number of processes with trial threads. `pc` follows a
trial thread through `coordinate`:

| `pc` | the thread is |
| --- | --- |
| `idle` | not started |
| `begin` | before `BEGIN EXCLUSIVE`, or asleep between two rounds |
| `txn` | inside the transaction, probing other instances (`unprobed`), then deciding |
| `running` | between `COMMIT` and the end of the body |
| `unregister` | in `TestRegistration::drop` |
| `done`, `killed` | reported, or gone with its process |

`db` is the committed table, `view` the open transaction's version of it and
`writer` the holder of SQLite's write lock. Rows are identified with the tests
that inserted them. `clean_stale_entries` is one step per instance probed, so
processes may die or start between probes. `SQLITE_BUSY` at `BEGIN` or at the
`DELETE` is waiting, not a step; inside the transaction it is `TxnBusy`. Other
errors are `TxnError` and `UnregisterError`, enabled by `DbFaults`. `Crash` may
happen to any living process at any time. `PidOf` may give two processes the same
PID as long as they do not live at the same time.

**Publish** — how the database comes to be. A path is a sequence of names.
`Home` is the directory a process's files belong to, given by its override or by
how cargo lays out what it builds (`HomeAssumption`); `LayoutDir`, which has to find
it again from the executable's path, is the table of layout rules over such paths; what is said by names and
marker files is given (`Hashed`, `Marked`). Directories (`create_dir_all_open`) and
the file (`ensure_published`) take the same way, temp entry, `chmod`, no-replace
rename, and share its actions; they differ where the code does: only the file's
mode is verified, only a directory's failed clean-up is an error, and a failed
directory is looked at before it is reported. `Target(p)` is what `p` is making.
Processes belong to users, and an entry is open to all or to its owner. Any system
call may fail (`MaxFaults` processes of them), any process may die anywhere. `split`
removes the init lock's exclusion, as happens when its directory is replaced: an
interleaving the lock normally hides. `keeps` says whether the file system keeps
modes.

**AtomicPublish** — what Publish promises: one step, only where nothing was, in a
directory that is there, open to all from the start, for good; a specification of
its own, over what is published and nothing else. Its step is the one that MovedDb
takes as `EnsurePublished`.

**Migration** — `migrate_schema` by several processes beside running tests, one
action per statement, with SQLite as in Coordination (`writer`, `view`). A stored
filter is its meaning and whether it is spelled canonically; tests of an older skuld
(external) register what they declared. The init lock is left out on purpose: the
migration claims that its own transaction suffices. `current` is the version read
before the transaction, on which the scrub depends.

**LabelFilter** — the text level under SerialRules. Texts are sequences of tokens,
trees are those of `boolean_expression`. There are two independent accounts of what
a text means: the code's (the recursive descent of `label.pest`, `build_expr`,
`evaluate_with`) and the reference (`Denotes`: split at a lowest-precedence operator
outside all parentheses). A state holds one filter or one serial text and takes it
through operators, printing, parsing, merging and storing; `sem` remembers what it
must mean. The macro's parser is a third recursive descent, over Rust tokens, which
writes text. The BDD belongs to an external crate; what the code needs of it is a
function of the meaning alone, represented by the sum of all prime cubes.

**MovedDb** — the same protocol seen from the file system. Files and directories
are inode numbers; a table belongs to a pair of main file and companion, since two
connections with different `-wal` files do not see each other. Each thread goes
through `with_init_lock`, the open/publish loop, the identity checks around
`INIT_SQL` and migration, `with_companions`, and the checks before and after the
transaction and the `DELETE`. The environment deletes the database, its
companions, moves the directory aside, or puts it back, between any two steps;
`restored` remembers the last, which the checks cannot notice. Transactions are one step here and
processes do not die: both belong to Coordination. `-wal` and `-shm` are one file;
checks with no write between them are one step; an inode number in use is not
reused.

**Fixtures** — one process. A value is the number of the setup call that made it.
Each test's thread has a stack of frames, one per `fixture_get` in progress
(`lookup`, `setup`, `return`). `store` and `poisoned` are the process store and
its mutex's state, `cache` a thread's test-scoped list, `handles` the owning
handles. A setup may return `Err` or panic (`SetupFails`), a `Drop` may panic
(`DropPanics`); a second panic in a thread that unwinds aborts the process. An
unwind leaves the setups in progress from the innermost, dropping one value of a
frame at a time (`DropInFrame`, `LeaveFrame`), while other threads go on. When
the drop of a setup's own dependency panics, the value it was returning is dropped
or leaked: both are allowed, as Rust promises neither. `EndTest` is the verdict of
the closure the macro generates. Before the tests, `main` may warm up process
fixtures in any order their dependencies allow. `Thread` is the thread whose
`TEST_FIXTURES` a trial uses; that every trial has a fresh one is what keeps
leftovers of one test from the next.

**Collect** — `run_tests` up to the hand-over to libtest-mimic. A registry is a
function from fixture names to definitions; names and module paths are sequences
of segments. The recursion of `walk_fixture_deps` is a loop: `StartWalk` puts the
test's fixtures on a stack, each `Walk` is one call of `walk` (skip, or visit and put
the dependencies in front), and `visited` and `found` are its set of names and its
visitors' accumulators; the three collectors make the same visits, so one walk serves
all. The properties define the inherited labels, filters and requirements again, by the
least set of fixtures closed under dependency. Each iteration of the two collecting
loops is a step, because requirements are evaluated one test at a time and may change
in between.
The trial's filter and labels are what Coordination takes as `SerialOf` and
`LabelsOf`.

**Nextest** — `cargo skuld nextest run` from the probes to the end of the run. A
binary's probe lists the tests available at that moment, or is skipped (spawn
failure, timeout, bad exit, no usable dump: one action). `build_groups` is
`StartGrouping`, a `ComparePair` per pair of the two nested loops, with `Union` on a
partition for the union-find, and `WriteConfig`. nextest is external: it lists the
binaries again, starts tests in any order, at most `Slots` at once and one per
group. A test process evaluates its requirements once more and then goes through
`coordinate`, here one atomic step as `SerialExec` justifies; skuld's own waiting
keeps the slot. A failure to create a temp directory ends the whole command before
nextest starts and is left out.

**Capture** — `run_with_observability` with capture on, which forces one test
thread. Descriptors 1 and 2 are the terminal or a trial's pipe; a chunk is what one
`write` carries. Rust's stdout buffer (`obuf`) is explicit, since the flushes before
and after the swap are there for it. Every system call of `begin` and `end` may
fail when `Faults` says so. The drain thread, the body and a child process that
inherits the pipe interleave freely. A pipe whose read end is closed breaks:
`println!` then panics, and so does `eprintln!`, in the runner too. Locks on stdout
and stderr, held only around the swaps by the single dispatching thread, add
nothing here. `coordinate`, which runs in the trial's thread, is not repeated.

**Guards** — `CwdGuard`, `EnvGuard` and `TempDir` for a series of tests in one
process, with bodies that may also change directory themselves, remove directories
and panic. Temporary directories share the working directory with `CwdGuard`: a
relative parent depends on it, and it may lie inside one that is removed. Others'
directories with names tempfile may draw are there from the start. A body may
catch the panic of a call it makes and go on. `EnvSet` panics for a key or a value the
system does not take (`Refused`: empty, or with `=` or NUL; `BadValue`: with NUL),
after the entry is recorded, as in the code.

When the body and its locals are gone, `scope` is what `TestScope`'s loop has yet to
pop, in one of the `Orders` in which a test may get its guards and another test-scoped
fixture. `DropEnv` undoes one entry a step. A `Drop` panics (`ScopePanics`) when
EnvGuard meets a refused key again, when CwdGuard's mutex is poisoned, or when the other
fixture's does: while unwinding that aborts, otherwise the loop ends, and the fixtures
below are not dropped. The next test then starts from what is left: `found` is what a
test found when it began, `skipped` the guards whose `Drop` did not run to its end, and
`faults` the causes there were in this test: `"back"` (the directory `CwdGuard::new`
stored was popped), `"key"` (a refused key was recorded), `"drop"` (another fixture's
`Drop` panicked). These three are history variables, as are `others` and `stray`, what
was there before and the removals that failed.

## 3. Runs

| Run | Instance | Shows |
| --- | --- | --- |
| `coordination` | 4 tests, 2 processes, 2 threads each, faults on, fairness | `IInv`, `MutualExclusion`, `SuccessLeavesNoRow`, `LiveRowsStay`, `ImplementsSerialExec`, `EveryTestEnds` |
| `coordination_pid_reuse` | 3 tests, 2 processes with one PID | **violated**: `DeadRowsDoNotBlock` |
| `moved_db` | 3 tests, 2 moves | `OverlapIsReported`, `SplitLockIsReported`, `OwnRowOnly` |
| `fixtures` | 2 tests, 6 fixtures of all scopes, any of the process fixtures warmed up | `GivenIsLive`, `ScopeDecidesSharing`, `VerdictIsTheBodys`, `DependenciesOutlive` |
| `capture` | 2 trials, the first with up to 2 writes to stdout, 1 to stderr and 1 by a child, pipe of 1 chunk, all faults | `CaptureIsComplete`, `TerminalShowsTheRun`, `NothingLeftOpen`, `RunEnds` under fairness |
| `capture_setup_fails` | 1 trial, only the drain thread's spawn may fail | **violated**: `SetupFailureAborts` |
| `collect` | 60 registries of 3 fixtures, 51 pairs of tests, 0 or 1 dynamic test, 3 filters, both name styles | `InheritanceIsTheClosure`, `DumpPredictsCoordination`, `RunnableWasAvailable` |
| `nextest` | 6 tests in 2 binaries, 1 ignored, with and without `--run-ignored`, 2 slots, failing probes, fairness | `GroupsAreComponents`, `ListedNeverWait`, `RunEnds` |
| `guards` | 2 tests of up to 3 calls, 3 directories, 1 variable, 1 refused key and 1 refused value, 4 orders of the fixtures, 1 temporary directory at a time, 2 names | `ProcessRestored`, `TeardownNeedsFault`, `TempDirsRemoved`, `OthersStay` |
| `labels` | every text of up to 4 tokens and every grouping of 3 words, 9 serial texts of up to 12 tokens when merged, strict and lax runner | `FilterKeepsMeaning`, `SqlMeansTheFilter`, `SelectionIsChecked`, `MacroAgreesWithGrammar`, `StoredFollowsTheRules` |
| `publish` | casts of 2 processes out of 6 (2 users, an override, the layouts), 2 temp names, 1 process with failing calls, deaths, with and without lock and modes, fairness | `OneDatabase`, `NobodyIsTurnedAway`, `NoLitter`, `ImplementsAtomicPublish`, `EveryOpenerEnds` |
| `migration` | 2 openers, 2 legacy tests, failing statements, deaths, fairness | `ExclusionSurvives`, `MigrationIsOneStep`, `EveryOpenerEnds` |

A module's type invariant `TypeOK` is the first conjunct of one of the invariants its
run checks (`IInv`, `GivenIsLive`, `NoLitter` and so on), each of which says which.

Why the bounds are enough. The four tests of the coordination runs are one of each
kind the rule tells apart: labelled without a filter, neither, serial with one
label, serial with everything (by a tautology that arises when a fixture's filter
is merged in). Two conflict across processes by a label, one conflicts with all,
its neighbour in the same process included, and two pairs may overlap, one inside a
process and one across, so rows of living and of dead tests are in the table
together. The proofs carry the safety results to all sizes. In `moved_db` two moves are needed for a path to
name a second file and then a third; the third test conflicts with the middle one
only. `TripleSymmetry` exchanges the two tests that play the same part and is used
with safety properties only. In the fixture runs both tests need the same process
fixtures, one of which depends on the other, so both race; a test fixture depends
on a test fixture and on a process fixture; a variable fixture depends on a
variable and a test fixture. A pipe of one chunk makes every second write block; two writes to stdout are one
that stays in the buffer and one that pushes it out; the second trial meets what the
first left. Three fixtures give every chain and the diamond f1-f2-f3, f1-f3, in both
orders. In `nextest` two tests are grouped only through a third, which may be
unavailable when it is listed, and the ignored one excludes everybody. Three calls suffice for a set and
the two `back`s that poison the mutex, for a set, the removal of where it came from and
a `back`, for a variable changed twice around a refused key, or for a relative temporary
directory, a change of directory and a `close`; the second test starts from what the
first has left, also when its guards were skipped. The other fixture is the newest, or
stands between the guards, so its panic skips both guards or the older one. Four tokens are the shortest texts in
which a parenthesis or a second operator matters, and the groupings of three words
add every nesting of two operators. Two openers and two temp names make every race
of the publishing and of the migration happen; the one name may be taken by the
other process. Two legacy tests, one of which may exclude the other, are needed for
one to start after, or during, a migration that the other's row went through.

Deadlock is checked in every run: a state without a next step is one in which
everything has ended (`Finished`).

### Fairness

Trial threads are scheduled, bodies end, processes are started and exit when their
tests have: weak fairness. The requests for the write lock (`BeginExclusive`,
`Unregister`) are polled with a backoff of at most 200 ms by `coordinate`'s loop
and `retry_busy`, both without a limit, while every holder releases the lock after
a bounded number of steps. The lock is then free again and again, and strong
fairness says that a poller does not miss it every time. SQLite gives no such
guarantee in the worst case; without it a single test may starve, which the code
accepts (it only warns after 60 s). Nothing is assumed about crashes
and errors, except that `SQLITE_BUSY` inside a transaction that already has the
lock does not come back for ever. With failing statements a test may still wait for
good, behind a row whose `DELETE` failed in a process that lives on
(`LeakInTheWay`); `EveryTestEnds` says that nothing else can hold it up.

`capture` assumes that the runner and the drain threads are scheduled, that a
body ends, and that a child exits: the module comment of `capture.rs` makes the
last a contract ("No long-lived child processes"). Bodies and children need not
write, and a drain thread that could go on for ever waiting is not rescued by a
read error: its fairness covers reads and end-of-file only. `nextest` assumes that a probe ends (it has a timeout), that nextest starts
what it may, and that a test process goes on; all of it weak, since a started
test that may register stays in that position until a neighbour starts, and
neighbours are finitely many. `publish` needs only that a process goes on, since
`flock` is free when its holder has ended or died. `migration` has strong fairness
for the three requests for the write lock, for the reason above; older tests need
not start.

### Findings

Disagreements between the code and what the repository says of it, each with a
run that shows it:

1. *PID reuse* (`coordination_pid_reuse`). `clean_stale_entries` looks at the PID
   of a row's `instance_id` and never at its timestamp. If a new process gets the
   PID of a dead one, the dead row looks alive and conflicting tests wait for ever.
   The comment on `instance_id` says that it handles PID reuse; the note in
   `win32_open_process_error_means_dead` admits one case, a process that cannot be
   queried. Safety is not affected (proved with reuse allowed).
2. *Capture that cannot start* (`capture_setup_fails`). If the drain thread cannot
   be spawned, `begin` returns with the descriptors still redirected and the read
   end closed. The runner's message then panics instead of reaching the terminal,
   `abort()` is not reached, and the process dies in libtest-mimic's printer.

Noticed while modelling, part of the models and visible as the exceptions the
properties make, without a run of their own:

* `has_moved` compares the present: a directory moved aside and put back between
  two checks goes unnoticed (`restored` in MovedDb);
* a process fixture's setup runs outside the mutex, so two values may exist at
  once and one is dropped while tests run; what tests are given is still one
  (`ScopeDecidesSharing`);
* the bytes read before a read error of the drain thread are dropped, though a
  comment in `drain_pipe` says they are surfaced (`Join`);
* labels are collected depth first, while `docs/src/labels.md` describes an order
  by levels; only the order differs (`Walk`);
* ignored tests are in no nextest group, so under `--run-ignored` they do wait
  inside `coordinate`, in a slot (`ListedNeverWait` speaks of listed tests only);
* the stack of `CwdGuard` starts with the original directory, so a `back` without a
  `set` returns and takes it off, where its doc promises a panic
  (`fixtures/cwd.rs:50`); after that `Drop` restores nothing (`"back"` among the
  `faults` in `ProcessRestored`);
* a further `back`, on the empty stack, panics with its mutex locked and poisons it;
  `Drop` unwraps the mutex during the unwind, and the process aborts; if the test has
  caught the panic, `Drop` panics by itself (`TeardownNeedsFault`);
* `EnvGuard::set` and `remove` record a key before the system refuses it (empty, or
  with `=` or NUL), and `Drop` gives the same key to the system again
  (`fixtures/env.rs:41`, `:63`): it panics, which aborts while the test unwinds from the
  first panic, and leaves the older entries unrestored if the test has caught it, though
  the comment says "All changes made through this guard are reverted"
  (`TeardownNeedsFault`, `skipped` in `ProcessRestored`);
* a `Drop` that panics ends `TestScope`'s loop, and the older fixtures of that test
  are never dropped, though `docs/src/fixtures.md:56` says "Dropped when the test
  ends"; the test is reported as failed then (`VerdictIsTheBodys`), and nobody
  inherits the values that are left (`ScopeDecidesSharing`); but if a guard is among
  them, the next test inherits the directory and the environment (`skipped` in
  `ProcessRestored`);
* on a file system that ignores modes the database file is refused, while the
  directories made for it are not looked at (`Shown` in Publish);
* under a split init lock a file that appears between the failed open and the second
  look is a panic (`split` in `NobodyIsTurnedAway`);
* the boolean literals of the grammar cannot be written in a macro attribute, where
  `true` and `false` are Rust keywords (`MacroAgreesWithGrammar`).

## 4. Proofs

Each `…Proofs` module proves its theorems for every value of the constants that the
component's named `ASSUME`s admit, and from nothing else. The assumptions give the
constants their types and the facts the code relies on: the metadata lists finitely
many tests in some order (Nextest); the fixture graph is one `validate_fixture_graph`
accepts (Fixtures); cargo lays out executables as it does, an executable's directory
is there, some level of an override is, and none lies below a database file (Publish).
TLC evaluates all of them on the instances of section 3, and has
checked every inductive invariant there before it was proved.

| Theorem | Establishes |
| --- | --- |
| **CoordinationProofs** | |
| `CanStartIffNoConflict` | on stored rows `can_start` is exactly "no row conflicts", with `Conflicts` from cargo-skuld |
| `MergingAddsUp` | a filter merged with a fixture's and stored (`MergeSerialFilters`, `ToStorage`) conflicts with a row exactly when one of the two would, also where their union becomes "*" |
| `TypeCorrect`, `Inductive` | `TypeOK`, `IInv` |
| `SerialHolds`, `SuccessIsClean` | `MutualExclusion`, `SuccessLeavesNoRow` |
| `LiveRowsAreSafe` | the action property `LiveRowsStay` |
| `Refinement` | Coordination implements `SerialExec!SafeSpec` |
| **MigrationProofs** | |
| `RulesAreKept` | `IInv` |
| `ExclusionSurvivesMigration`, `MigrationIsAtomic` | `ExclusionSurvives`, the action property `MigrationIsOneStep` |
| **MovedDbProofs** | |
| `TablesStayApart` | `IInv` |
| `OverlapNeverPasses`, `SplitLockNeverOpens` | `OverlapIsReported`, `SplitLockIsReported` |
| `NoOtherRowIsLost` | the action property `OwnRowOnly` |
| `ChecksRaiseNoFalseAlarm` | `NoFalseAlarm`: while the files are not moved no trial fails, no conflicting tests overlap, and one thread at a time is inside the init lock |
| **PublishProofs** | |
| `PublishingKeepsItsInvariant` | `IInv` |
| `NobodyIsEverTurnedAway`, `NoTempIsForgotten`, `OneHomeOneDatabase` | `NobodyIsTurnedAway`, `NoLitter`, `OneDatabase` |
| `PublishingIsAtomic` | Publish implements AtomicPublish |
| **FixturesProofs** | |
| `FixturesKeepTheirInvariant` | `IInv` |
| `NoDanglingFixture`, `SharingIsByScope`, `VerdictsAreEarned` | `GivenIsLive`, `ScopeDecidesSharing`, `VerdictIsTheBodys` |
| `TeardownIsInOrder` | the action property `DependenciesOutlive` |
| **CaptureProofs** | |
| `CaptureKeepsControl`, `NoOutputIsLost` | the two inductive invariants `Control`, `Data` |
| `NothingIsLeftOpen`, `TheCaptureIsComplete`, `TheTerminalShowsTheRun` | `NothingLeftOpen`, `CaptureIsComplete`, `TerminalShowsTheRun` |
| **NextestProofs** | |
| `CollectKeepsItsInvariant` | `CollectInv` |
| `TrialsInheritTheClosure`, `DumpPredictsTheTable` | `InheritanceIsTheClosure`, `DumpPredictsCoordination` (Collect) |
| `DeclarationsDecide` | `can_start` on the rows of two trials answers what the declarations of their tests and fixtures say |
| `RunnableTrialsWereAvailable` | the action property `RunnableWasAvailable` (Collect) |
| `GroupingKeepsItsInvariant` | `IInv` |
| `GroupsAreTheComponents`, `ListedTestsNeverWait` | `GroupsAreComponents`, `ListedNeverWait` |
| **GuardsProofs** | |
| `GuardsKeepTheOriginals` | `IInv` |
| `ProcessIsRestored`, `TeardownFailsForCause`, `NoTempDirStays` | `ProcessRestored`, `TeardownNeedsFault`, `TempDirsRemoved` |
| `OthersAreSafe` | the action property `OthersStay` |

The arguments.

*Coordination.* `MutualExclusion` speaks of program counters, `can_start` of rows, so
the invariant must tie them: a registered test has a committed row and a living
process (`RegisteredHasRow`). A decision is made on the transaction's cleaned
copy, so the copy must miss nothing but the dead: the lock holder is the thread
inside its transaction (`WriterInTxn`), and rows missing from its copy belong to
dead processes (`ViewIsCleanedDb`), which stay dead. Then a test that registers
saw every registered test, and `CanStartIffNoConflict` excludes a conflict.
`RowsExplained` and `OkExplained` account for every row left over and give
`SuccessLeavesNoRow`. A probe says "alive" of a dead process under PID reuse, but
never "dead" of a living one; only the second would hurt, which is why reuse costs
liveness and not safety.

*Migration.* A row may change its spelling while its test runs, so rows are tied to
declarations by what they exclude and not by what they say (`SameRule`); the lemmas
about the rule show that it sees no spelling. While somebody migrates, the
transaction's copy has the committed rows' owners and rules (`ViewExplained`). The
version that decides the scrub was read before the transaction; that it still is the
committed one when the scrub begins, because the version inside the transaction was
compared with the target, is `Progress`.

*MovedDb.* An overlap needs two tests registered in different tables, and then the path
names the table of one of them at most. "One of the two has lost the path" stays true
until that one looks (`OneHasLost`), since a path that was lost comes back only by
putting the directory back, which `restored` records. For this a registered test's row
has to be where its connection looks, whatever is created, deleted or checkpointed
meanwhile (`Thread`, `TablesGrow`), and the files in the directory set aside must not
be mixed up with new ones (`Files`). The converse, that the checks accuse nobody wrongly,
needs a second invariant for the time before the first move (`Still`): every thread's
files are those at the path, which holds because the companions are deleted only with the
last connection and the main file is made only under the lock, with nobody connected.

*Publish.* `Way` says where a process is on its way down: what it has still to make is a
run of levels of its directory, the deepest first, and the next one's parent is there.
`HasTemp` and `TempsOwned` give each temp entry one owner, at the step its mode says.
Then the rename is AtomicPublish's step and every other action leaves the published
entries alone. `OneDatabase` needs that `LayoutDir` finds the same directory from every
executable of a home, which is proved from the layout rules and `HomeAssumption`.

*Fixtures.* The invariant is about ownership. A value that may be dropped while tests
run is private to its thread (`Private`): it is in no store, and no reference to it was
given out. What a setup was given is in the process store, or in the cache of its own
thread, before the value it is used for; both are emptied from the end, which gives
`DependenciesOutlive`. The loser of a race for the process store drops its own value,
which is private, and returns the stored one. The value being returned (`MineInv`) and
the setups that wait for it (`StackInv`) are private until they are stored.

*Capture.* `Control` says, for each place of the runner, where the descriptors point,
which pipe ends are open and how far the drain thread is; a drain that is done has left
nothing in its pipe, and no child holds it (`Closed`). `Data` adds the output: what was
read followed by what is in the pipe is what has left the stdout buffer, and the buffer
holds the rest of stdout in order (`Intact`, `Held`). At the verdict pipe and buffer are
empty. For the terminal, `Screen` says what is shown so far: complete reports of the
earlier trials, each in one piece, and at the end the part of the current trial's
report that its place implies (`SoFar`). A failed drain ends this promise for good
(`Clean`), as it does in the property.

*Collect.* The walk computes a least fixed point. While it runs, everything visited or on
the stack is in the closure, and the fixtures named, and the dependencies of everything
visited, are visited or on the stack (`OnTheWay`). With the stack empty the visited set
is closed, so it is the closure: no induction over paths, and no use of what
`validate_fixture_graph` checks. `FoundIsVisited` says that the accumulators hold what
the visited fixtures bring: their labels once each, and a filter that excludes exactly
what one of theirs excludes, since `MergeSerialFilters` and `ToStorage` preserve it
(`MergeBlocksBoth`, `StorageBlocksTheSame`). That a test has one trial, and an entry of
the dump one trial, needs the order of the names (`InOrder`) that `validate_trial_names`
made distinct. `PushUnique` is recursive over its argument; what it returns for every
input (`PushUniqueElements`) is proved by `SetInduction`, which is stated over sets of
numbers because the provers cannot instantiate the library's induction theorems, which
take the property as an operator. `DeclarationsDecide` joins the pieces: the row that
a trial registers excludes another exactly when a declaration of the test, or of a fixture
it reaches, does.

*Nextest.* While `build_groups` runs, two conflicting tests are in one class or their
pair has yet to be compared (`Compared`); every class is connected by conflicts
(`Linked`) and classes are disjoint (`Covering`). "Connected" is stated as "every cut is
crossed by a conflict", which survives a union without an induction over paths. That
listed tests never wait then follows because nextest has one active test per group.

*Guards.* The directory the test found is at the bottom of the stack, and the mutex
whole, until a `back` takes it off; a guard that the loop has popped has restored it
(`CwdInv`). Of the entries of a variable the earliest holds what the test found, `Drop`
restores in reverse order, a popped guard has no entries left, and an entry for a refused
key is a fault of this test (`EnvInv`). A temporary directory belongs to a test, is
reported as not removed, or was there before (`TempInv`). The loop runs with the locals
gone, and where it ended early the cause is known (`ScopeInv`). Steps fall into those of
the body and its locals (`Local`) and those of the loop (`Popping`), for any order of the
fixtures in which both guards occur, any number of other fixtures among them.

Only model-checked:

* liveness and fairness, which are outside the prover's reach: `EveryTestEnds`,
  `EveryOpenerEnds` (Publish, Migration), `RunEnds` (Capture, Nextest);
* LabelFilter: its parsers, printer and merging of texts are `RECURSIVE` operators over
  trees and token sequences, which the prover does not take. `SetInduction` would do for
  the tree-shaped ones after a rewriting as recursive functions over trees of bounded
  depth; the two parsers also need an argument about ambiguity in the grammar.

## 5. Not modelled

Windows (lock file, sharing modes, `OpenProcess`, stdio handles); the BDD of the
`boolean_expression` crate and pest itself (represented by what they are used for);
the rules for a label's spelling, and which constant an identifier in a `serial`
attribute names, which the compiler decides; the async runtime; casts between
fixture types; a fixture's `Drop` that asks for another fixture (for test fixtures
it is one of the panicking drops; for process fixtures it would lock the store's
mutex twice on one thread, which std leaves unspecified); `FdCapture`'s `Drop`, a
safety net the runner does not reach; text and I/O: `file_name_safe`,
`canonical_exe`, TOML and filter escapes, `gen --check`, xtask.

## 6. Plan

Modelled: SerialRules, SerialExec, Coordination, MovedDb, Publish, AtomicPublish,
Migration, LabelFilter, Fixtures, Requirements, Collect, Nextest, Capture, Guards. Proved: every
safety property of the runs except those of LabelFilter. What is left:

1. LabelFilter, by recursive functions and `SetInduction` as in `PushUniqueElements`.
2. The stuttering refinement of MovedDb into Coordination's table, for a database that
   is never moved; `ChecksRaiseNoFalseAlarm` has the invariant it needs.
