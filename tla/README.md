# Rustleaks in TLA+

Rustleaks scans files, directories, archives and Git history for leaked secrets.
This directory models the part of it where the order of events matters: how
sources, worker threads, limits and cancellation together decide which findings a
caller is given and what the caller is told about what is missing; how each source
cuts its input into fragments; what one scan makes of a fragment; and what the
command line makes of a run. The models are checked with TLC on small instances; the
central results are proved with TLAPS for every number of workers, every channel
capacity, every budget and every reader.

Paths below are relative to `src/crates/`.

## 1. The system

### Components and how they interact

| Component | State it keeps | Operations | Talks to |
| --- | --- | --- | --- |
| Source runner (`rustleaks-sources/src/runner.rs`) | channel, worker handles, batches, statistics, source result | `run`, `run_with_worker`, `worker_loop`, `merge_complete_scan`, `finish_run` | calls the source with a callback, the engine from its workers, the session at the end; polls the token |
| Source budgets (`runner/budget.rs`) | one `Operation`: an atomic `stopped`, a mutex over usage, reservations, active scans, first exceeded limit | `admit`, `retain_issue`, `reserve`, `settle`, drop of a reservation or a worker guard, `schedule`, `run_with_scan` | producer and all workers share it; the source polls it as its cancellation |
| Cancellation token (`cancellation.rs`) | one atomic flag | `cancel`, `is_cancelled` | raised by the caller or the CLI's timer, polled by everything |
| Source protocol (`source.rs`) | none | `Source::visit`, events, control values, errors | the contract between sources and the runner |
| File source (`file.rs`) | buffered reader, line total | `visit`, boundary read-ahead | emits one fragment per chunk |
| Directory source (`directory.rs`, `path.rs`) | traversal stack | `walk`, link resolution | opens files, nests file and archive sources |
| Archive source (`archive.rs`, `rar.rs`, `snappy.rs`, `mime.rs`) | entry count, expanded bytes, depth | `process`, `member`, `account`, `bump_entry` | recursion into nested archives, file source for plain members |
| Git source (`git.rs`, `scm.rs`) | child process, two reader threads, parsed patch | `collect_command`, `stop_and_reap`, `parse_patch`, `visit` | runs Git, nests an archive source for blobs |
| Engine (`rustleaks-core/src/engine.rs`) | per scan: usage, decoded segments | `scan_fragment_controlled`: passes, rules, allowlists, required findings | polls its control, charges its budget |
| Decoder (`decoder/mod.rs`) | per scan: cache, segments | `decode`, offset mapping | used by the engine between passes |
| Session (`session.rs`) | immutable policy; batches; merged findings | `classify`, `add_finding`, `merge` | one batch per worker, merged by the runner |
| Configuration (`config/`, `regex/`) | immutable after loading | parse, extend, compile, select | built once by the caller |
| Command line (`rustleaks-cli/src/`) | timer thread, report plan | `run_scan`, `Timer`, exit code | raises the token on timeout, maps the outcome to an exit code |
| Reports (`rustleaks-report`) | none | format findings | after the run |
| Archive codecs (`rustleaks-bzip2`, `-rar-codec`, `-sevenz`) | decoder state | bytes to bytes | used by the archive source |
| Tooling (`rustleaks-compat`, `xtask`) | - | tests and release checks | not part of the scanner |

One run: the caller's thread spawns the workers, drops its own receiver, and calls
`source.visit` with a callback. The callback checks the token, admits the fragment
(with a budget), counts it, and puts it into the bounded channel with `try_send` in a
loop. A worker takes a fragment while it holds the receiver's mutex, reserves an
allowance (with a budget), scans, settles, and merges the findings of a complete scan
into its own batch. When the visit ends the sender is dropped, all workers are
joined, and `finish_run` merges the batches and chooses the termination.

### What is hard, and what makes each component correct

* **Threads and a bounded channel.** A fragment is delivered once; a full channel with
  dead workers disconnects; the producer cannot run ahead; every run ends.
* **Shared limits.** Limits do not multiply with the number of workers, no allowance is
  handed out twice, a panic keeps its charge, totals do not wrap. An archive in an
  archive shares the limits of the outer one.
* **Three ways to stop** (the token, the internal stop of a budget, the end of the
  source) that may overlap. The caller must be told the truth: nothing that was
  admitted may be missing under a normal termination, an internal stop is neither
  a cancellation nor a source error, and the first limit decides what is reported.
* **Partial failure.** A panic, a failed spawn or a failed callback must leave the run
  able to end, with complete batches kept and partial scans discarded. A scan that is cut
  short returns no half of a composite finding.
* **Processes and pipes** (Git): the child, two readers and the token race.
* **A world that changes** (directories): a path is examined, resolved and opened in
  three calls, and may be something else each time.
* **Boundaries** (files, patches): chunks without overlap or loss, hunks that end where
  their header says although an added line may look like a header.
* **Offsets through several texts** (decoder): a finding in text that was decoded twice
  must be reported where it stands in the fragment.

The full list, at source lines, is `hazards` in `PROJECT.json`.

## 2. Modules

| Module | Models |
| --- | --- |
| `BudgetAccounting` | the ledger: `Operation`, `Accounting`, `Reservation` of `budget.rs`, and what a controlled scan may return |
| `BudgetRunner` | the threads around it: `run_with_scan`, `schedule`, the worker closure, `finish_run`; extends `BudgetAccounting` |
| `SourceRunner` | the run without a budget: `run_with_worker`, `worker_loop`, `finish_run` |
| `ScanRun` | what a run promises its caller, without threads: the abstract specification |
| `GitChild` | a Git process, the pipes of its output and a helper that inherits them: what both collectors talk to |
| `GitCommand` | `collect_command`, `stop_and_reap`, the reader threads and the verdict of `visit` in `git.rs`; extends `GitChild` |
| `RemoteDiscovery` | `discover` and `run_git_remote` in `scm.rs`; extends `GitChild` |
| `PatchParser` | `parse_patch`, the emission of its files and their limits in `git.rs` |
| `FileChunks` | `FileSource::visit`, its buffered reader and `read_until_safe_boundary` in `file.rs` |
| `DirectoryWalk` | `walk`, `walk_directory`, `resolve_symlink` in `directory.rs`, the cleaning of paths in `path.rs` |
| `ArchiveTraversal` | `ArchiveSource::visit` and `ArchiveState` in `archive.rs`, with what `rar.rs` returns |
| `RuleConfig` | `compile_level`, `merge_extension` and the checks in `config/loader.rs`, `select_rules` in `config/compiled.rs` |
| `DecodedText` | `decoder/mod.rs`, and the location of a match in `engine.rs` |
| `FragmentScan` | `scan_fragment_with_context` and everything it calls in `engine.rs`; extends `RuleConfig` and `DecodedText` |
| `Session` | fingerprints, ignore files, baselines and the classification of a finding in `session.rs` and `config.rs` of the CLI |
| `CliRun` | `run_scan` and its `Timer` in `run.rs`, the exclusions of `BuiltSource`; extends `Session`, uses `ScanRun` |
| `MC*` | constants and symmetry for TLC |
| `*_proofs` | theorems; `ScanAndCommand_proofs` speaks of `FragmentScan` and `CliRun`, and extends `DecodedText_proofs`, which is about texts and passes; `GitSource_proofs` speaks of `GitCommand` and `PatchParser`, `DirectorySource_proofs` of `DirectoryWalk` and `FileChunks`, the others of the module they are named after |

### BudgetAccounting

Variables are the fields of the code: `stopped`, `exceeded`, `reserved`, `active`, the
fields of `SourceUsage` (`originalBytes`, `fragments`, `completedFragments`, `engine`,
`inexact`), the length of the issue list, and `held`, the `Reservation.reserved` array of
each worker. Every action is one critical section of the accounting mutex or one
atomic store: `Admit` and `RefuseFragment` are the two outcomes of `Operation::admit`,
`RetainIssue` and `RefuseIssue` of `retain_issue`, `Reserve` (with its guard `~MustWait`)
the section of `reserve` that takes a reservation, `Settle` is `Reservation::settle`,
`Abandon` the drop of an unsettled reservation, `StopInternally` the store of a worker guard or of
a failed spawn. The three resources of a scan are one function over `Dim`. `MaxUsize` stands for
`usize::MAX`, so overflow is reachable in a small instance.

`ScanCompletes`, `ScanIsCancelled` and `ScanExceeds` are the contract of
`Engine::scan_fragment_controlled`: no counter passes its ceiling (`charge_counter`), a scan is
cut short only after its signal was raised, and a refusal reports the ceiling, the units
consumed and a request that does not fit. That the engine keeps it is proved of `FragmentScan`
(`ScanContractHolds`).

### BudgetRunner

Program counters for the producer (`producer`) and for each worker (`worker`). A step is what a
thread does between two accesses to state that others change, so each read of the token or of `stopped` is a
step of its own: `SourceEmits` (the callback's `ensure_active`), `CallbackPolls`, then
`CallbackTakesIssue`, `CallbackRefusesFragment` or `CallbackAdmitsFragment`; `ScheduleEnsuresActive`,
`SchedulePolls`, `TrySend` or `SendFails`; `JoinWorkers`, `FinishRun` (first read of the token) and `ReportBudget` (second
read). A worker goes through `WorkerPolls`, `LockReceiver`, `Receive`, `ReservePolls`,
`AcquireReservation`, `ScanReturns` or `ScanPanics`, `MergeCompleteScan` or `MergePanics`. A fragment is
named by its place in the order of admission, so findings are sets of such names.

The source is the environment: between events it may poll the operation, and it may return
`Continue`, `Stop`, a terminal error or, once it has seen a cancellation, `Cancelled`. When the callback
stops or fails, it returns at once, as the contract of `Source::visit` asks.

### SourceRunner and ScanRun

The same threads with only the token. Two consecutive reads of the token at the end and the top of
`worker_loop` are one step, since nothing happens between them. `ScanRun` has four facts
about a run - the token, how many fragments were observed, which findings are merged and
whether a worker panicked - and says when each termination may be returned. The refinement maps
`merged` to the union of the batches of workers that can be joined.

### GitChild, GitCommand and RemoteDiscovery

`GitChild` is the environment of both collectors: the direct child (`none`, `running`, `exited` but
not waited for, `reaped`), its exit status, the pipes of standard output and standard error, and one helper
process that Git may start and that keeps the pipes open after Git is gone, as a text conversion filter of
`git log -p` does. Output is counted in units, since a pipe is first in first out with one reader: `written`, what
is in `pipe`, and what a reader `kept`.

`GitCommand` has a program counter for the collector and one for each reader thread. Each of the
three things the loop looks at is a step (`PollToken`, `PollLimits`, `TryWaitDone` and its alternatives), `stop_and_reap` is
two (kill, wait), each with its failure, and the two joins follow in order. An early return inside the
thread scope goes through `unwind`, where the scope waits for the readers. `Read` takes any number of
units from the pipe and keeps what fits; storing the limit flag is a step of its own (`MarkExceeded`).

`RemoteDiscovery` differs where the code does: a limit is judged only after the child has ended, on cancellation both
readers are joined before any error is looked at, and a reader that runs out of memory (`ReadWithoutMemory`) drains on.

The collectors address only the direct child. That a helper ends by itself is an assumption of the liveness
properties, not something the code enforces: after Git is killed the readers are joined without another poll,
so a helper that never ends would keep the collection from ending.

### PatchParser

The collected output is a sequence of lines; a line has what it looks like (`is`), the first byte that counts inside a hunk (`op`: added, removed, context or marker)
and what it names; `PatchAssumption` says which first bytes go with which headers. `history` is what a user committed, and the operators that write a history as lines are the model of
`git log -p`; the parser and the emitter are translated from `git.rs`, and never look at the history. `HistoryAssumption` says what Git writes at most: a marker (`\ No newline at end of file`) is about a line, a change of
content has hunks and one of mode or of binary content has none, and a diff is a history of one commit without a name. Inside a
hunk only the announced numbers of old and new lines end it. With a user's own context lines, the added lines of a hunk are concatenated and
numbered from the start of the hunk; the model does the same. Quoted paths, dates and the joining of a
commit message are not modelled.

### FileChunks

A byte is named by its position, so a fragment is a sequence of positions and a lost, repeated or moved byte is visible; `file` says what
stands at each position (line feed, other white space, the first byte of an application, anything else).
`buffered` and `pending` are the fields of `BufferedSourceReader`. `NominalRead` is what `visit` makes of an answer, whichever of
`ReadBuffered`, `ReadPending`, `ReadDirect` and `ReadThroughBuffer` it came from; the boundary search takes one byte per step.
The inner reader is any `SourceReader`: short counts, an end or an error with or without bytes, no progress, and a count
larger than the buffer. `CancelVisit` may happen between any two steps.

`result` keeps apart what the caller cannot: the end of the file, a reader without progress and a skipped application are
all `Ok(Continue)`. That an application is looked for until the first line feed, also after fragments were delivered, is intended: the
test `mime_check_repeats_until_a_lf_is_seen` in `file.rs` says so.

### DirectoryWalk

`tree` maps a path to a file with a size, a directory or a link; a link's text is a path from the root or from where the link is, which is cleaned
lexically, as `path.rs` does. Each call of the file system (metadata, the text of a link, opening, listing) is a step, and between
any two of them another program may replace a node, so the properties speak of the paths that nobody touched: the path itself,
where its links lead, and what is above those. `MaxHops` is `maximum_hops`: the loop `for _ in 0..maximum_hops` looks at a
link and the next one, so a chain must have fewer links than that. The size limit is applied to what `symlink_metadata` says of the
link and not to its target.

### ArchiveTraversal

The recursion is an explicit `stack` of extractions. What a container holds is found entry by entry (`ReadEntry`) for TAR and
ZIP, and all at once (`OpenRar`, `OpenSevenZip`) for the formats that are decoded before the first member is processed. An entry has the shape
and the flaw that its bytes have. `Member` is `ArchiveState::member` with `account`; `Report` stands for every emitted issue, whose answer the caller returns;
`Resume` is the propagation of an answer through all levels. `abandoned` records the place from which on an issue covers a whole archive.

### RuleConfig, DecodedText and FragmentScan

`FragmentScan` is one controlled scan. Given the fragment's bytes and the rules it is a fixed sequence of indivisible units - a poll, a charge to
one of the three budgets, the commit of a finished top-level rule, a verdict of the final filter - which `ScanUnits` and
`FilterUnits` build in the order of the code; the actions execute the units against a signal that may be raised between any two and against a budget.
The rules come from `LoadConfig`, the candidates from the texts. Loops that append to a vector are `Concat` of what each turn appends, and
`Passes` is the loop over decoded texts as a function of the number of turns.

In `RuleConfig` a file is a record of rules, allowlists, the files it extends and the rules it disables. `CompileLevel` is the recursion with its depth limit, as a function of
the levels that are left; `MergeExtension` the merge of a base into the file that extends it, innermost first. Two things are as the pinned upstream has
them and may surprise: a base's allowlists for particular rules are dropped by a merge, and what an extending rule says about
`required` or `skipReport` is ignored. The reference for `RulesAreAsConfigured` reads the same chain of files from the top, without merging.

In `DecodedText` a text is a sequence of bytes, of which plain ones carry a mark and the others belong to an encoded run that knows what it decodes to. Overlaps count ranges that touch;
a run next to one of higher precedence waits for the next pass. `ToOriginal` maps a range back through the segments of each pass. A rule's expression matches the longest runs of its marks. In the
last line of a fragment `upstream_location` takes the whole text up to the next line feed for the line; tests of the code
pin this. A match in a decoded text that no segment touches is dropped, because an earlier pass had it; where a rule is gated
by a keyword that only a decoded text contains, that earlier pass did not try the rule, and the match is not reported at all.

### Session and CliRun

`CliRun` is one command: the banner, the configuration, the discovery of a remote, the run, the timer, the report and the exit code, in
the order of `run_scan`, with a failure at each step that can fail. The run in it is `ScanRun`, that is, any run
that keeps its promise, so what `SourceRunner` is proved to implement is what the command relies on. The timer's thread waits, fires or is told; a disconnected
channel counts as a timeout. `Session` hides what an ignore file or a baseline names: an overlong line ends the reading of its file, and
a baseline that cannot be loaded hides nothing. File names with `:` in them make fingerprints ambiguous in the code as they do upstream; places in the model have no such names.

## 3. Runs

| Run | Instance | What it shows |
| --- | --- | --- |
| `budget_work` | 2 workers, a channel of 1, up to 5 events, work limits of 2 per fragment and 3 in total | where every fragment of a budgeted run is, what the report says of it, and that the run ends |
| `budget_limits` | 2 workers, 3 events, all producer limits, one bounded scan dimension beside one with a fragment limit and one without any, `MaxUsize` 3 | every limit holds, the first one is final and reaches the caller, sums that overflow stop the run; the run implements the ledger |
| `budget_completed` | as `budget_work`, 2 events | expected violation, section 4 |
| `runner` | 2 workers, a channel of 1, up to 5 events | refinement of `ScanRun`; every run ends |
| `git_command` | limits of 2 and 0, pipes of 2 units, 3 units per stream | whole output, true verdicts, no orphan, an end |
| `remote_discovery` | limit of 2, pipes of 2 units, 3 units per stream | the same for remote discovery |
| `git_patch` | all histories of two changes of ten kinds, in one commit or two; every patch of one change with one line lost, doubled, swapped or cut off, or a bad hunk header | a patch is read as it was written; a damaged one is complete or refused |
| `file_chunks` | all files of up to 5 bytes, chunks of 1 and 2, a buffer of 2, read-ahead 3 | the fragments are the file; every visit ends |
| `directory` | 5 trees, 6 changes of a node of which one may happen, 6 settings of the options | every path is answered truthfully, in lexical order |
| `archive` | up to 4 entries in all archives together, sizes of 1 and 2, 4 sets of limits | limits across nested archives, nothing hidden, stops are final |
| `fragment_scan` | 10 requests of configurations from 13 files, 5 fragments, 11 texts, 6 budgets | findings of complete and of partial scans, their places, the charges, the merged configuration |
| `cli_run` | 2 fragments, 2 commits, 2 secrets, 3 sets of ignore files, 2 baselines, exit codes 0, 1 and 3 | what the exit code says is so; nothing is left behind; a timeout ends the command |

The properties, in words:

* `EveryFragmentOnce`: an admitted fragment is in one place at a time - the producer's hand, the channel,
  a worker, a batch - and in some place until something stops the run.
* `NoSilentTruncation`, `LimitIsReported`, `TerminationHasCause`: what the termination says is what happened.
* `BacklogIsBounded`: at most one fragment per worker, a full channel and one in the producer's hand
  are admitted and not completed.
* `UsageAgreesWithFindings`: the completed scans in the usage are the merged ones, unless a panic discarded a batch.
* `LimitsAreNeverPassed`: what scans consume together and what the producer admits stay within every limit, at every moment.
  `ExceededIsTruthful`: the limit that is reported was really broken. `FirstLimitIsFinal`: it is the first one, and nothing is admitted after it.
* `AccountingSpec`: the threaded run implements the ledger. `KeepsPromise`: `SourceRunner` implements `ScanRun`.
* `OutputIsWhole`, `ConclusionFromAll`: what is parsed is everything that Git wrote, and Git succeeded.
* `VerdictIsTrue`: an error names its cause; the status after a kill is never blamed on Git.
* `NoOrphan`: Git has been waited for, unless the error says that the cleanup failed, or a reader thread could not be created:
  `scope.spawn` panics while Git is running, and nothing on that path kills it.
* `NoGapNoOverlap`: fragments, the fragment being built and the reader's buffer are consecutive pieces of the
  file, and each fragment's start line is the line its first byte is in.
* `SplitIsSafe`: a file is split after a blank line, at the ceiling of the read-ahead, or not at all.
* `NothingSilentlyMissing`: a visit that reached the end of the file and reported nothing has delivered all of it.
* `ReadAsWritten`: the fragments of a history are what its commits added, whatever the lines look like. `AcceptedIsComplete`: whatever
  the input was, each hunk of an accepted patch has the lines its header announces, and no added line is lost.
* `EveryPathAnswered`: a path that nobody changes is scanned, reported or passed over as its node, its links and the options call for, whatever changes
  around it. `LexicalUntilStopped`: events come in lexical order and end when the callback says so.
* `LimitsHold`: whatever is nested in what, members and streams stay within the ceilings, one by one and together. `NothingHidden`: a traversal that ends
  normally has scanned every file of every archive, or an issue tells of it, or the user asked for silence. `StopIsFinal`: no level of the recursion
  goes on after an answer that ends the visit.
* `OnlyFinalizedFindings`: a scan that is cut short returns whole findings of finished rules only, and a cancelled filter a prefix of what the complete scan returns.
  `ScanContract`: the contract that `BudgetAccounting` assumes of a scan.
* `FindingsAreLocated`: a finding in decoded text is reported where its bytes stand in the fragment, and a match is only dropped when an earlier pass had it.
* `RulesAreAsConfigured`: files that extend each other give the rules that reading them from the top gives, and a mistake in any of them gives no engine.
* `ExitCodeIsTruthful`: any exit code but that of an incomplete run means that everything observed was scanned and every secret not reviewed is reported.
  `NothingLeftBehind`: no helper thread outlives the command, and a commit is counted once.
* `Terminates`, `CollectionEnds`, `DiscoveryEnds`, `TimeoutEnds`: the liveness properties. `CollectionEnds` and `DiscoveryEnds` say that a raised token, a limit (for
  `git_command`) and the exit of Git each lead to the end, except for a Git that cannot be killed and the panic of `NoOrphan`.

A type invariant is run in `budget_limits`, where it also says that no counter leaves `usize`; in the other
modules with proofs it is part of the proved invariant and not run again.

**Bounds.** `MaxEvents` bounds how many events a source emits; it is larger than the channel
and the workers together where the question is about a full channel (5 events against 2 workers and
one place). Capacity 1 makes full and empty adjacent. The work limits are chosen so that one scan
gets a full share and a second one has to wait or gets a remainder. Two workers suffice for a race between
workers; for more, the ledger's bounds are proved. `ScanRequest = {1}` in `budget_work`: the engine charges one work unit at
a time. Symmetry over workers and commits is used only in `budget_limits`, which has no liveness.

For the collectors, `MaxOutput` is larger than every limit, so each stream can stay below, reach and pass its limit; a pipe smaller than the
output can be full, and a limit of 0 is the boundary case.

For files, chunks of 1 and 2 bytes and a buffer of 2 exercise both ways to read (through the buffer and directly); 5 bytes are enough for a chunk
extended to the ceiling (1 and 3) with a byte left for a second one, for a search that ends before it, and for a third chunk after two short ones.

For directories, `MaxHops` 3 and `OsHops` 4 (the operating system's own ceiling) lie around the longest chain of the trees, so chains below, at and above
the limit occur, with a link into itself, a circle of two and a link through a linked directory; one change of one node between any two calls is enough to be between the calls about one path.

For archives, `MaxEntries` 4 is enough for an archive of archives of files with a sibling behind; among the four limits are
one where bytes run out first, one where entries do, one without nesting and one without archives. Each stream may expand to 1 or 2 bytes.

For a scan, `MaxDecodeDepth` 2 allows a run in a run and one that is too deep; `MaxExtendDepth` 2 is exceeded by one file; the texts are one for
each relation two encoded runs can have (nested, adjacent, overlapping with either precedence, put together, empty). The budgets are without limit, zero, and such that each
dimension is exhausted in the middle of a scan. `MaxTargetBytes` 9 is longer than some of the texts and shorter than others.

For the command, two fragments suffice for one that is merged and one that is missing, and the ignore files hold an
entry before and one after a line that is too long. A patch of two changes meets every state in which one change can leave the parser to the next.

**Fairness.** Weak fairness of the producer and of each worker: the operating system runs a thread
that can run, the source's `visit` returns after finitely many events, and a scan ends. The
caller is never required to cancel. Spinning (a full channel, a waiting reservation)
is modelled as spinning, so termination really depends on someone else's progress.

For the collectors: the polling loop and the readers run, a signalled process dies, and a helper ends. Git itself is never required to
exit, and no failure is required to happen (failures are disjuncts outside the fair ones), so a property cannot hold because an error
comes to the rescue.

For files: the visiting thread runs and a read returns. For the command: the timer's thread and the caller's run, and a scan is only required to return once the token is
raised; a source that never ends is thus allowed, and `TimeoutEnds` shows that the timer suffices. The remaining runs have no liveness property, and their specifications state no fairness.

**Deadlock** is checked everywhere: the only state without a successor but a self-loop
(`Returned`, `Done`) is that of a run, a visit, a scan or a command whose outcome has been given to the caller.

## 4. A disagreement between code and comment

`run_with_scan` reads the caller's token at `budget.rs:780` for `finish_run` and again at line 784 before
it installs `BudgetExceeded`. If the token is raised between the two reads, a run that a
limit truncated is returned as `Completed` or `Stopped`, although `runner.rs:26` documents `Completed` as "The source
and all workers completed normally." `budget_completed` shows the trace. `NoSilentTruncation` states what does hold:
the exception needs both a hit limit and a raised token.

## 5. Proofs

Assumptions: only the ones named in the modules. `None` is not a value of the types it is added to, the set of workers is finite,
limits are in `usize` or absent, and a finite aggregate limit comes with a finite fragment limit
(`SourceBudget::validate`); for the collectors, limits and bounds are natural numbers and a
pipe holds something; for files, chunks and the buffer hold something; for archives, ceilings are positive (`ArchiveLimits`) and an entry has one of the shapes of the
module; for the command, exit codes are integers and the set of commits is finite. For a scan, `usize` has a positive maximum, budgets are in `usize` or absent, a rule has the
fields of a rule and an id up to `MaxRuleId`, a text and what a run decodes to are sequences over `Byte`, a run is longer than what it decodes to (true of
all four encodings: three bytes of percent, two of hex, four of Base64, six of an escape become at most one, one, three and three), and `Absent` is no integer and no
termination. For a directory, `TreeAssumption`: the root
is in the tree and the path to it leads through directories and not through links, and a link's text consists of names and `..`.

* `BudgetRunner_proofs`, the ledger of `BudgetAccounting`. That scans together never pass an aggregate limit is not inductive: it does not say how much a
  waiting worker may be given. The strengthening `ReservationInv` says what `reserve`'s rule makes of
  simultaneous reservations: in a bounded dimension the running scans all hold full fragment
  shares, or exactly one scan holds a smaller remainder and nothing is left beside it. From it follow
  `LimitsBound` and `TruthfulReports` (a scan refused below the fragment ceiling holds the sole remainder, so
  its refusal exhausts the aggregate limit). What the producer admits needs the check-then-add of `admit`, and `FirstLimitWins`
  that `exceeded` implies `stopped`.
* `BudgetRunner_proofs`, the refinement. Every step of the threaded run is a step of the ledger or leaves it
  alone (`RunnerImplementsAccounting`); what each thread holds at each program counter (`ProducerHolds`, `WorkerHolds`) is
  what makes `Settle` and `Abandon` applicable. The ledger's theorems then hold of the run.
* `BudgetRunner_proofs`, the fragments. `FragmentsInv` has seven parts. `Known` and `Unique` locate fragments. `Whole` says that
  until something stops the run no fragment is lost and no worker leaves before the channel is closed and empty. `Causes` follows each
  reason to stop (a limit, a panic, a failed spawn, the token) from where it arises to the source's result. `Counts` relates the
  admitted and completed numbers to the channel and the program counters; `Usage` the completed number to the batches; `Reported` says what
  `finish_run` and the budget's report may have made of it all. None of the properties is inductive alone: that a normal termination is whole needs all of `Whole`,
  `Causes` and `Reported`.
* `SourceRunner_proofs`. `RunnerKeepsPromise` proves the refinement of `ScanRun`. The invariant locates
  every observed fragment: in the producer's hand, in the channel, with a worker, or in one batch, exactly one of
  them; and as long as the token is down and no worker panicked or failed, nothing is anywhere else. At the end
  the channel is empty and no worker holds anything, so what is merged is everything observed.
* `GitSource_proofs`, the command, and `RemoteDiscovery_proofs`. `OutputIsWhole` needs an account of each stream (`StreamInv`): until
  a reader drops something, what it kept and what is in the pipe are what was written, and a reader that has ended saw an empty pipe that nobody can write to
  any more. `PhaseInv` and `OutcomeInv` say what each program counter knows of the child and what each result stands for; the
  theorems of each module follow for all limits, capacities and amounts of output.
* `GitSource_proofs`, the parser. `AcceptedPatchIsComplete` holds of every sequence of lines, written by Git or not. `HandInv` is the invariant of the hunk
  in hand: what its header announces is what it still lacks and the lines read since. `HunkInv` keeps complete hunks apart from each other and behind the one
  in hand, `RecordInv` knows the record that the last line belongs to, and `LinesInv` that every added line read so far is in a stored hunk, in the one in hand, or in a
  record without a path. `HistoryIsReadAsWritten` is about what Git writes, for every history that `HistoryAssumption` allows. Written as lines, a history is a concatenation of concatenations,
  so the proof first says where the lines of a commit, a change and a hunk begin (`CommitAt`, `ChangeAt`, `HunkAt`) and what the events of a beginning of the history are (`UpTo`, proved by induction over a set of
  numbers). `WrittenInv` is then the parser's place: at a commit, at a change, behind `n` headers of it (`FileIs`: what they make of the file in hand), at a hunk, or behind `b` lines of a hunk
  (`BodyIs`: the lines in hand are those that the first `b` add, each with its newline); and the events of the stored files are those of the changes before it. `HunkInv` is what makes a hunk end exactly where Git ended it, whatever its lines look like.
  While files are emitted, `EmitPlace` counts the files and fragments that are out. (`PatchParser` names its specification `PatchSpec` and its variables apart from those of `GitCommand`, so that one module can speak of both; `FileChunks` does so for `DirectoryWalk`.)
* `DirectorySource_proofs`, the files. `InHand` says that what was delivered, the chunk being built and the buffer are together what has been taken from the
  reader; `EofInv` that an end is only known when everything has been taken; `SearchInv` what the boundary search has seen when it counted one line
  feed, from which `SplitIsSafe` follows; `LinesInv` that the running line total counts the line feeds of what was delivered. The
  theorems hold for all files, chunk sizes, buffers, read-aheads and answers of a reader.
* `ArchiveTraversal_proofs`. `AnswerIsFinal` needs only that an answer which ends the visit is on its way back. `MembersFit` needs to know what the counter of
  entries counts, which differs by format: TAR, ZIP and RAR count an entry when they meet it, 7z all of them before the first is handed out. `CountInv` therefore counts what was handed out, the file
  in hand, and the members of 7z archives still to come (`ToCome`); `StackInv` says that every extraction in progress is of another archive and that an entry read
  one by one comes after all that were found, so nothing is counted twice. `SpentInv` does the same for the bytes, which are sums over the answers and the extractions
  in progress, and with it `LimitsAlwaysHold` covers entries, bytes and depth. `NothingIsHidden` rests on `SeenInv`: in each extraction in
  progress, whatever lies before the next entry has been answered for, by the visit or by an issue about the whole archive.
* `DirectorySource_proofs`, the walk. `WalkInv` says where each call is in the tree: each directory on the stack is a child of the one below it, and the path in hand
  is a child of the last. `OrderInv` says that all paths still to come lie behind everything answered and everything in hand, whichever order a listing had;
  `AlwaysLexical` follows. `PathsAreAnswered` needs two more. `RightInv` says what each call knows of a path that nobody has touched (`Located`,
  `Resolves`), and therefore that every answer is the one the path calls for; `CoverInv` that each path that calls for an answer has one or is still waited
  for, in a list of children or under one. The definitions speak of the tree as it is now, which other programs change, so the proof first shows that what
  holds of an untouched path after a step held of it before (`UntouchedKept`, `ClearKept`, `DueKept`); where a chain of links leads is a recursive function of the hops, and
  the facts about it are proved by taking the least number of hops for which they would fail.
* `ScanAndCommand_proofs`, the scan. The units of a scan are not a history but a plan, made before the first step, so the proof has two halves. The first is about
  the plan, whatever the rules, texts and decodings are. A sequence of units is `Balanced` when, wherever it is cut, the records charged in the first
  part are at least the findings committed in it together with the required findings attached to them; it is shown of `RuleUnits`, then of `PassUnits` and
  `ScanUnits`, from the lemma that balanced sequences put together are balanced. Within a rule, `Charged` says that what comes before the commit charges at least what is found
  (`OwnUnits` the rule's own findings, `ProjectUnits` the required ones, once for each finding they are attached to). The same induction
  gives that every finding committed is whole, and that the commits of the whole plan are `TopLevel`. The second half, `ScanInv`, says that what is
  executed and what is left are together the plan (`Progress`), and in the final filter that the verdicts given and those to come are the verdicts on what
  was committed (`Filtered`), while usage stays within the budget. `ScanContractHolds` needs from the filter that it only drops findings, and drops what is attached
  with them; `OnlyFinalizedAreReturned` that the commits of a prefix of the plan are a prefix of `TopLevel`, and that the verdicts on the findings before
  a place decide the result up to there. The recursive functions of the module (`Concat`, `Passes`, `CompileLevel`) are unfolded by taking the least argument for which a claim would fail.
* `DecodedText_proofs`, the places of findings. `FindingsAreLocatedHolds` (stated in `ScanAndCommand_proofs`) is about what is decoded, again and again, and mapped back. The passes are fixed before the first step
  (`PassesLocated`), so the induction is over the texts. `Spaced` says that segments are in order and apart, each moved by the shift of those before it; `Traced` where in the fragment each
  byte of a text comes from; `DecodesTo` how one text is made of the one before. `LocatingAt` is the induction hypothesis: a range of a text that is near to a segment, taken back by as many steps as there are
  texts before it (`BackSteps`), arrives at a range of the fragment with every byte it came from and besides only encoded ones. Its step shows that this survives another
  decoding: a range may lie within what one run decodes to (`EnclosedIsLocated`), or reach over several segments, and then goes back to their hull (`HullIsLocated`). Two more lemmas are about ranges that are near to no segment:
  such a match only moves by a shift, so the pass before had it (`FarMoves`); and no run is far from what was decoded last, or it would have been decoded before (`RunsAreNear`). `RowIs` is about
  `upstream_location`: the line a range begins in, with the line feeds that are trimmed from both of its ends.
* `ScanAndCommand_proofs`, the configuration. `RulesAreAsConfiguredHolds` speaks of every set of files, every maximum depth and every request. The engine is loaded before the first step and
  never changes (`Loaded`), so what has to be shown is that the loader, which merges from the innermost file outwards, agrees with a reading of the same files from the top. `IsChain`
  says what the chain of a request is, by induction on the depth; `IsCompiled` says of each place in it that what the loader makes of the file there is what the files from
  there on say (`StatedFrom`), or nothing exactly if one of them has a mistake, by induction from the end of the chain. Its step is `MergeIsStated`: one more file above is
  asked first, unless it disables a rule. `TargetedIsConfigured` and `LoadedIsConfigured` add the allowlists that the top file aims at rules, the checks of the result and the
  selection. It rests on two assumptions about values: a file extends finitely many others, and `Absent` (Rust's `None`) is no configuration.
* `ScanAndCommand_proofs`, the command. `CliInv` follows the caller's thread: what it knows of the timer (`TimerInv`), of the result of the scan (`ResultInv`, from the promise of `ScanRun`), of the
  policy that the user's files make (`PolicyInv`) and of the summary (`EndInv`) at each step.

Model-checked only:

* The liveness properties; liveness is outside what these proofs reach.
* The expected violation.

## 6. Not modelled

* **Codecs** (`rustleaks-bzip2`, `-rar-codec`, `-sevenz`, and the container parsers of `archive.rs`): sequential functions from bytes to bytes. What a container yields
  is data of `ArchiveTraversal`. These files are by far the largest part of the repository; a finite model of a decompressor would be a transliteration over inputs too small to
  meet its cases, so the share of all lines that the models cover stays small.
* **Patterns**: `regex/` translates the syntax of patterns and matches through a library; a rule's expression is a set of marks in the model. Entropy is a number of different marks.
* **Reading of configuration**: TOML, numbers, descriptions, tags, origins, the size limits of a selection. In a decoded text, the encodings themselves, the expressions that find them and the decode tags.
* **Sessions**: the parsing of fingerprints and of a JSON baseline, the canonical order of a report, the reason of a suppression (which the runner does not keep), and a batch of another policy, which the
  runner never merges.
* **Layers around the engine that the command line does not use**: native packs, triage records, explanations, validation. They are pure functions of a finished scan.
* **Reports, redaction, tooling** (`rustleaks-report`, `rustleaks-compat`, `xtask`): formatting, tests, release checks.
* **Details of sources**: the arguments of Git, quoted paths, dates, the text of a commit message, URLs of remotes; the mapping of physical to logical paths; the texts of issues.
* In `BudgetRunner` an allocation failure in `SourceStatistics::observe` is not distinguished from its commit limit; in `SourceRunner` both, and the byte
  count overflow, are one nondeterministic refusal.

`PROJECT.json` lists every component with what is left out of it.

## 7. What could follow

1. A composition of `DirectoryWalk`, `FileChunks` and `ArchiveTraversal` as the source of `SourceRunner`, with one callback.
2. The parsers of fingerprints and of quoted Git paths, as pure operators against their grammars.
