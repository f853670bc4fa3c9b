# The job-based matrix runner, specified and verified

This directory keeps a TLA+ development beside the test-matrix runner of the
ML-coupling library (`matrix_*.py`, `run.sh`, the solvers). It says what the
runner does when submitters, wrappers, SLURM and the user act in any order, from
the selection of the cases to the reanalysis of their logs, what it guarantees
then, and where it does not keep what its comments say.

## 1. Inventory

The repository is a runner for a matrix of test cases. A *case* is one
configuration of the coupling library (provider, device, model, API, language);
a *run* is a selection of cases, executed by a *scheduler* in *jobs*, at most `k`
at a time, with a SQLite *ledger* as the only shared state.

| part | state | operations | properties that make it correct |
|---|---|---|---|
| ledger, `matrix_db.py` | tables `runs` (status, analysis_status), `jobs` (status, slurm_job_id, scheduled_at, pids, results), `events`, `analysis` | guarded transitions `_transition`, `set_*`, `finalize_run`, `claim_analysis`, `cancel_pending` | a row moves along the edges only, a terminal row never moves; the verdict is true |
| SLURM chain, `matrix_jobs.py` | `missing_counts` of a watch; everything else in the ledger and in SLURM | `seed_slurm`, `repair_chain`, `recover_scheduling`, `reconcile_slurm`, `watch_loop`, `cmd_resume`, `cmd_cancel` | a case is submitted once, the window is kept, every run comes to its verdict |
| SLURM commands, `matrix_slurm.py` | none (SLURM's queue) | `submit_job`, `squeue_ids`, `sacct_states`, `scancel`, `classify_state` | an answer that was not obtained is not taken for one |
| job wrapper, `matrix_job.py` | its own row, the child process | `main`, `schedule_successor`, `run_case`, `maybe_analyze`, `cleanup_successful_job` | one wrapper executes a case; its result is the row's result |
| local scheduler, `matrix_jobs.py` | `procs`, the pids in the ledger | `run_local_scheduler`, `launch_local`, the local half of `cmd_resume` and `cmd_cancel` | a case is launched once; at most `k` run |
| run record, `matrix_db.py`, `matrix_jobs.py` | tables `runs` and `analysis`, the rows inserted under a run | `create_run_and_jobs`, `preflight`, `mark_run_started`, `finalize_run`, `cmd_rerun`, `claim_analysis`, `finish_analysis` | the rows are those of one submission; a run is analysed once, after its last case |
| analysis, `matrix_analyze.py` | table `analysis`, a report | `analyze_run`, `_group_results`, `_modal_result` | the outliers of a group are found whatever the order of its results |
| reanalysis, `matrix_reanalyze.py` | a new directory with a report | `reanalyze`, `final_attempt` | the report is of one state of the ledger and of the final attempts only |
| cases, `matrix_common.py` | none | `iter_cases`, `select_cases`, `apply_selection` | ids are positions in the full enumeration; a selection is what its filters say |
| results, `matrix_common.py` | none | `parse_summary`, `compare_results` | no result is put together from two outputs |
| compaction, `matrix_jobs.py` | the directory of a run | `compact_run_directory` | no profile is removed that is not archived |
| one case, `matrix_job.py`, `run.sh` | the child processes of a case, its log, the endpoint and done files | `run_case`, `kill_process_group`, `cleanup_successful_job`; start, poll, run, stop | what was started is stopped; a success is one of all; the case ends |
| solvers, `test_matrix.py`, `matrix_status.py`, build and helper scripts | none that is shared | | |

How they interact: submitter, watch, resume, cancel and every wrapper are
processes on different machines. They share the ledger (each statement is a
transaction, `BEGIN IMMEDIATE`, retried while the database is locked) and SLURM
(through its commands). Nothing is held across two statements, so everything a
process has read may be old when it acts on it. A wrapper submits the case `k`
places after its own, dependent on its own SLURM job; watch and resume repair a
chain that broke.

Inside a case four processes share a pipe, a process group, the log and the state
directory, and the latter two outlive an attempt.

What is hard: the order of `sbatch`'s answer and the start of the job it created;
a submitter or a wrapper dying between two statements; reads used after the row
has moved; squeue and sacct not answering; cancel against everything; bounds that
are counted in one transaction and used in another; several processes finding the
run finished; files an attempt has left for the next; processes that do not stop
when they are told to; and whether a run ever comes to its end and a case to its
result. `PROJECT.json` lists these hazards line by line.

## 2. Modules

| module | what it is | state |
|---|---|---|
| `Ledger` | the statements of `matrix_db.py` on the rows of a run, as operators from rows to rows | none |
| `JobLife` | what the ledger promises: the edges of a row and the verdict of the run | `status`, `run` |
| `SlurmChain` | a run under `--executor slurm`: coordinators, wrappers, SLURM, time | `row`, `run`, `slurm`, `wrap`, `coord`, `budget` |
| `LocalPool` | a run under `--executor local`: scheduler, wrappers and their children, resume, cancel | `row`, `run`, `proc`, `coord`, `budget` |
| `Cases` | the universe of cases and the selection of a run, as operators | none |
| `RunRecord` | one run from its selection to its analysis and compaction; EXTENDS `Cases`, `Ledger` | `run`, `rows`, `analysis`, `profiles`, `archive`, `proc`, `claims`, `budget` |
| `Results` | the parser of a log, the comparison of results, the mode of a group, as operators | none |
| `Reanalysis` | reanalyses beside a run that goes on; EXTENDS `Results` | `logs`, `done`, `ledger`, `report`, `owner`, `written`, `proc` |
| `CaseRun` | the attempts at one case: wrapper, `run.sh`, controller, solver; EXTENDS `Results` | `attempt`, `wrapper`, `sh`, `controller`, `solver`, `stubborn`, `pipe`, `endpoint`, `done`, `log`, `row`, `budget` |
| `MCSlurmChain`, `MCLocalPool` | what TLC runs of these; every value is in the `.cfg` files | |
| `MCRunRecord`, `MCReanalysis`, `MCCaseRun` | the same, with the command lines, logs and outputs of the instance | |
| `SlurmChain_proofs` | proofs: the types of `SlurmChain`, that it implements `JobLife`, that verdicts are true | |
| `SlurmCases_proofs` | proofs: ids, successes and losses of single cases; EXTENDS `SlurmChain_proofs` | |
| `SlurmWindow_proofs` | proofs: one submission per case, the window; EXTENDS `SlurmCases_proofs` | |
| `LocalPool_proofs` | proofs: the types of `LocalPool`, that it implements `JobLife`, verdicts, single cases, the window | |
| `Loops` | lemmas: induction over the turns of a loop, concatenations, increasing sequences | |
| `RunRecord_proofs` | proofs: rows, claim, summary and profiles of a run, and its selection; EXTENDS `Loops` | |
| `Reanalysis_proofs` | proofs: the parser, the grouping and the reports, for every log; EXTENDS `Loops` | |
| `CaseRun_proofs` | proofs: all safety properties of `CaseRun` | |

`RunRecord` stands on top of the two schedulers: it does not launch cases but lets a
pool move the rows along the edges of `JobLife`, which is what `LifeSpec` shows of
`SlurmChain` and of `LocalPool`. `CaseRun` is what `RunCase` and `Finish` of these
two leave out, and the log it leaves is what `Reanalysis` reads.

### SlurmChain and the code

* `row[j]` is the row of the case with `seq = j`: `status`, `slurm_job_id`
  (`NoId` for NULL), and `stale`, which says that `scheduled_at` is more than
  `stale_after = 300` seconds old. `run` is `runs.status`.
* `slurm[i]` is SLURM's job with the i-th id it hands out: its state, the case it
  was submitted for, the id it depends on. `Start` lets a job begin once its
  dependency has ended (`afterany`); `Kill` ends it on SLURM's side. sbatch hands
  out ids in order and refuses when it has no more, as it does at a QOS limit.
* `wrap[i]` is the process `matrix_job.py` inside job `i`. One action per
  statement: `ReadRow`, `MissingTemplate`, `BadConfig`, `ClaimRun`
  (`mark_running`), `ClaimSuccessor`, `SubmitSuccessor`, `MarkSuccessor`
  (`schedule_successor`), `RunCase`, `Finish` (`mark_terminal`), `Conclude` and
  `WriteVerdict` (`maybe_analyze`, `finalize_run`).
  `left` counts the calls of `schedule_successor` still to come: one before the
  case and `Retries` after it, none if the case raised an exception.
* `coord[c]` is a command of `matrix_jobs.py`: `submit` (`Begin`, `Seed`, then
  `Pick`, `Sbatch`, `Mark` for each row), `watch` (`Begin`, then the loop `Top`,
  `Recover`/`Reset`, `Repair`/`List`/`Pick`/`Sbatch`/`Mark`,
  `Snapshot`/`Query`/`Apply`/`Settle`, `Finalize`/`RecordVerdict`, `Check`),
  `resume` (the same parts once, in its own order), `cancel` (`CancelRows`,
  `CancelScan`, `Scancel`, `CancelMark`, `CancelEnd`). The exit status of scancel
  is not looked at, so `Scancel` may reach any of the jobs it names, or none.
  `todo`, `seen`, `info` are the lists it has read, `missing` is the dictionary `missing_counts`.
* `Crash` ends a command anywhere. `ClaimAges` lets the 300 seconds of a claim
  pass: for free when its claimer is gone, as an unusual event (`"slow"`) when the
  claimer is alive.
* Every unusual event takes one from `budget`, and `Faults` says which kinds may
  happen: `kill`, `crash`, `sbatch` (refused), `config` (missing template or
  unusable configuration), `slow`, `outage` (squeue or sacct fails, which the
  program reads as an empty answer), `resume`, `cancel`. Watch may be started at
  any time and is not an unusual event.

Each action is one transaction, one read, or one SLURM command with what the
program does with its answer before it looks at shared state again. Two
consecutive reads of rows that nothing can make wrong in between are one action:
`schedule_successor` reads its successor and claims it (the claim repeats the
test), `repair_chain` reads the predecessor and claims (a terminal row stays
terminal), and `finalize_run` reads the run and the rows (terminal rows stay
terminal; a cancel in between is one in between `Conclude` and `WriteVerdict`).
Refusal of a submission and its release are one action, since nobody acts on a row
that is a claim but for its age. `reconcile_slurm`'s own `finalize_run`, which
runs just before the loop's, is left to the loop's.

### LocalPool and the code

* `row[j]` has `status`, `wrapper_pid` and `pid`; `run` is `runs.status`.
* `proc[p]` is the p-th wrapper process with its case, its place in
  `matrix_job.py`, the result it has, and its child `run.sh`. The child is in a
  session of its own: it outlives a wrapper that is killed, which is what `Kill`,
  `Abandon` and `Terminate` are careful about. A child is known by the id of its
  wrapper, which is enough, as a wrapper starts one at most.
* `coord[c]` is a command: the scheduler (`Begin`, then the loop `List`,
  `Launch`/`Launched`, `Poll`, `Reap`, `Turn`, then `Finalize`/`RecordVerdict`),
  `resume` in front of it (`Scan`, `Probe`, `Evict`/`Requeue`), or `cancel`
  (`CancelRows`, `CancelScan`, `CancelKill`, `CancelMark`, `CancelEnd`). `procs` is
  the dictionary of the scheduler; the rows it has read are in `todo`, the ids read
  with them in `wrapper_pid` and `pid`.
* `WrapperSeen` and `ChildSeen` are what `os.kill(pid, 0)` answers: a process that
  has ended is still seen until its parent has asked for its exit.
* The unusual events: `slow` (a wrapper has not marked its row by the next poll,
  half a second later; `List` needs it to read such a row as pending), `kill`,
  `crash`, `interrupt` (Ctrl-C; a second one while the scheduler waits is
  `Abandon`), `fork` (the wrapper cannot be started), `locked` (the ledger refuses
  `set_wrapper_pid` or `set_pid`), `config`, `cancel`, `force` (`resume --force`) and
  `resume` while another command is up. A resume of a run nobody works on is not
  unusual.

One action is one transaction, one read or one system call, as in `SlurmChain`.
Merged are `Turn`, which asks for terminal rows and then for pending ones (no
wrapper runs when the second answer counts), and `Reap`, which reads the row it
ends (`mark_terminal` repeats the test). `CancelKill` sends its signals in one step:
a process that acts between two of them acts before the first or after the last,
as each signal concerns one process only.

### JobLife

The abstract specification: an open case moves along `Edges`, a case that has
ended stays, the verdict is written only when all have ended and tells whether
one ended badly; restart, cancel and a failed preflight (`Fail`) write their status at any
time (which is what the code does). `LifeSpec` says that `SlurmChain` and `LocalPool` implement
it, with `status[j] = row[j].status` and the same `run`.

### RunRecord and the code

* `run` is the row of `runs` (`status`, `analysis_status`) with the submission it
  records (`filters_json`, `n_jobs`); `rows[i]` is the row with `seq = i`: its job id,
  status and `result_valid`; `analysis` is the row of the table `analysis`: its status and the
  cases it covers. `profiles` and `archive` are `scorep/` and `scorep.tar`.
* `proc[a]` is an agent: a command of the user or the wrapper of a row. Its `role` is
  where it goes after a statement that several commands share: `"slurm"` and `"local"`
  are the commands that loop over the run (submit, rerun, watch, resume), `"resume"` is
  a SLURM resume without `--watch`, then `"wrapper"`, `"cancel"`, `"force"`, `"compact"`.
* submit and rerun: `StartSubmit` (with a selection of `Cases` for one of `Args`),
  `CopyTemplates`, `LookUp`, `CreateRun`, `InsertJobs`, `Preflight`, `MarkStarted`. Two of
  them under one run id may be at any of these. `MarkStarted` is taken twice by a submit
  that goes on to loop over its run: once in `cmd_submit` and once at the head of
  `run_local_scheduler` or `watch_loop`.
* the loops: `StartWatch` and `StartResume`, `MarkStarted`, `Loop`, `Finalize` and
  `RecordVerdict` (`finalize_run` reads in one transaction and writes in another),
  `Check`, `ReadAgain`, then `Claim`, `Collect`, `FinishAnalysis` (`analyze_run`). A wrapper
  comes to `Finalize` through `MaybeAnalyze`.
* `StartForce` is `analyze_run` with `--force`, which looks at nothing but that the run is
  there; `StartCancel`, `CancelRows`, `CancelScan`, `CancelMark` (row by row), `CancelRun` are
  `cmd_cancel`; `StartCompact`, `Tar`, `RemoveProfiles` are `cmd_compact --archive-scorep`, where
  a tar or a removal that has begun is a state others can find.
* The pool: `CaseStarts`, `CaseEnds`, `CaseIsLost`.
* The unusual events: `submit` (a second one under the same id), `template` (missing),
  `preflight`, `second` (a command for a run another one serves already), `cancel`, `kill`
  (a wrapper), `crash` (any agent), `broken` (an exception in the analysis), `force`
  (`--force` when all cases have ended), `tar`, and two that the run leaves out:
  `early` (a command for a run that is being created, `--force` among them) and
  `premature` (`--force` while cases go on); see "What the code does not keep".

`claims` counts how often `claim_analysis` was granted; it is the only history
variable. `all_terminal` and the claim are two transactions in the code and one step
here, as a case that has ended stays ended.

### Cases

A case is a record with a value per axis. `IterCases` is the ten nested loops: a
recursive function that adds the values of one axis of `AXIS_ORDER` at a time (`Nested`),
with the applicability rules in `Applicable`. `Wanted` is what a filter leaves of an axis:
`Pick` (`_pick`) keeps the order of the axis, but workloads and batch sizes are taken as
given. `Universe` is the enumeration without filters and the job id of a case its place
there. `SelectCases`, `Narrow` (all, `--job-ids`, `--sample`, `--max-cases`) and `Again`
(rerun) give the selections a command line may lead to. `Filtered` is the reference: the
cases of the universe that match the filters one by one. The loops are recursive functions
(`Keep` is a list comprehension with a condition) so that they can be proved about.

### CaseRun and the code

* `wrapper` is `run_case` and the end of `main`: `Start` (`mark_running`, `build_env`,
  `choose_port`, the header in the log), `Spawn`, `Communicate` or `TimesOut`, `Grace`
  (`kill_process_group`: SIGTERM, ten seconds, SIGKILL), `Drain` (the second
  `communicate`), `AppendOutput`, `Record` (status, profile check, `parse_summary`), `Clean`;
  `Except` is the `except` clause of `main`.
* `sh` is `run.sh`: `ShBegin` (rm of the files of an earlier attempt), `ShStart` (the
  controller, then the trap), `ShPoll` (for the endpoint), `ShSolve`, `ShSolved`,
  `ShCleanup` and `ShAwait` (the function `cleanup`, called at the end or by the trap).
  `sh.ssdb` is the attempt whose endpoint it has read.
* `controller` and `solver` are the programs `run.sh` starts, modelled from the way it
  relies on them. `stubborn` names those that only SIGKILL ends.
* `pipe` is what was printed; it stays open while any of the three lives (`PipeOpen`).
  `endpoint`, `done` and `log` are files and survive an attempt.
* The unusual events: `ports` (none is free), `fork`, `setup` (`run.sh` fails before it
  starts anything), `profile` (missing), `controller` and `solver` (end badly, the
  controller also when its port was taken meanwhile), `stubborn`, `node` (every process
  is gone and a coordinator has the case run again). A timeout may come at any moment and
  is not an unusual event.

### Results and Reanalysis

A log is a sequence of lines of the kinds the parsers know. `Parse` is `parse_summary`
as a recursive function over the lines read so far, `FinalAttempt` is `final_attempt`, `Close`
is `compare_results` with one number per matrix, `Bases` is the loop of `_modal_result`, a
recursive function over the results seen so far. `Judge` is
what both `analyze_run` and `reanalyze` make of a group.

In `Reanalysis` the ledger, its WAL and the original report are numbers that grow with
every change (`Commit`, `WriteOriginal`) and stand for their hashes. A reader takes
`MakeDir`, `HashBefore`, `ReadLedger`, `ReadLogs`, `HashAfter`, `WriteReport`, each file
hashed in a step of its own. The report it writes has the results, the errors and the
groups.

## 3. What TLC checks

Runs named `slurm_` use `MCSlurmChain`, those named `local_` use `MCLocalPool`. In the
former, `KillStates` is `{"NODE_FAIL"}` (`"TIMEOUT"` differs
only in the name of the bad verdict) and `LostAfter` is 2 instead of 3.

| run | instance | shows |
|---|---|---|
| `slurm_faults` | N=2, K=1, all kinds, two events | types; `LedgerIds`, `NoIdBeforeSubmission`, `SuccessIsEarned`, `SuccessIsKept`, `LostNeedsOutages`, `VerdictIsTrue`; implements `JobLife` |
| `slurm_submissions` | N=5, K=1, two coordinators, sbatch, outage or config, one event | `OneSubmission`, `Window` (≤ k run), `TwoWindows` (≤ 2k scheduled) |
| `slurm_liveness` | N=3, K=1, all kinds but cancel, one event, fair | `ConcludesUnlessStranded` |
| `slurm_stranded` | N=3, K=1, one kill, fair | `Concludes` is violated |
| `slurm_duplicates` | N=2, K=1, one crash | `DuplicatesAreHarmless` is violated |
| `slurm_scheduled` | N=2, K=1, no event | `ScheduledWithinK` is violated |
| `local_faults` | N=2, K=1, one command at a time, all kinds, two events, fair | types; implements `JobLife`; `Concludes` |
| `local_window` | N=3, K=2, two commands, all outcomes, slow, kill, fork, config, interrupt, cancel, one event | `OneChild`, `SuccessIsKept`, `Window`, `FinishedIsQuiet`, `CancelEndsEveryCase`, `VerdictIsTrue` |
| `local_duplicates` | N=2, K=2, one slow wrapper | `DuplicatesAreHarmless` is violated |
| `run_record` | seven command lines over a universe of eighteen cases, two cases per run, two commands, all kinds but `early` and `premature`, one event, fair | types; `RowsAreOfTheRun`, `RowsAreTheSelection`, `AnalysedOnce`, `SummaryIsFinal`, `ProfilesKept`; `Analysed` |
| `reanalysis` | four cases, three in a group; two readers, one change | types; `ReportIsOfOneLedger`, `FinalAttemptOnly`, `MajorityIsNoAnomaly`, `TransitiveIsClasses` |
| `case_run` | with and without a controller, three attempts, all kinds, three events, fair | types; `SolverHasDatabase`, `ControllerStopped`, `SuccessIsWhole`, `ReanalysisAgrees`, `NothingRunsOn`; `CaseEnds` |

The properties:

* `NoIdBeforeSubmission`: a row that is pending or a claim has no SLURM id.
  `recover_scheduling` skips claims with an id and `reconcile_slurm` skips claims,
  so such a row would be out of every repair's sight. It holds with one
  coordinator, and with several as long as no claim is taken away; a command that resets a
  row while another one polls it has the id it removed written back (`set_slurm_state` has no
  guard).
* `LedgerIds`: the id in a row is of a job submitted for that case.
* `SuccessIsEarned`: a row of success stands for an execution that succeeded, if
  the case was submitted once. `DuplicatesAreHarmless` drops the condition.
* `SuccessIsKept`: a single successful execution is not overwritten by a reader
  with an older view.
* `LostNeedsOutages`: polls that got an answer never add up to "lost"; a resume needs one poll
  without an answer, and is an unusual event itself. The events that are counted are those of
  every kind, which makes it a little weaker than its name.
* `OneSubmission`, `Window`, `TwoWindows`: the race of seed, predecessor and
  repair for a row, and what it leaves of the sliding window. They hold while no
  process dies and nobody cancels; `TwoWindows` holds with cancels, too.
* `ScheduledWithinK`: what the help of `--max-jobs` says, a window of `k` for what is
  scheduled. It fails at the first successor.
* `VerdictIsTrue`: the verdict of the run fits the rows, although it is read and
  written in different transactions.
* `ConcludesUnlessStranded`: the run comes to its verdict.

And those of `LocalPool`:

* `OneChild`: no case has two children at a time, however often it is launched. It
  does not hold when a resume finds a running row without ids (a scheduler that died
  before `set_wrapper_pid`, a wrapper before `set_pid`) and requeues it; so crashes and
  resumes are not in `local_window`.
* `Window`: at most `k` cases run, as long as no case was launched again: a case
  launched again has one wrapper that the scheduler no longer counts.
* `FinishedIsQuiet`: no case runs once the run has its verdict, but for orphans of killed
  wrappers, cases that were cancelled and cases launched again. A ledger that refuses an id
  ends a row whose wrapper goes on; `locked` is not in `local_window`.
* `SuccessIsKept`: a success that a wrapper has reported is in the ledger, unless the
  case was cancelled, if the case was launched once. `DuplicatesAreHarmless` drops
  the condition.
* `CancelEndsEveryCase`: once cancel has come to its end every case has, although it ends
  the pending rows in one statement and reads the active ones in another, while the
  scheduler launches and wrappers start. It rests on the order of the two.
* `Concludes`: the run comes to its verdict, unless it is cancelled, with the user resuming
  it when nothing works on it any more. A resume gives up while a child of a dead wrapper lives, and
  is tried again.

Those of `RunRecord`:

* `RowsAreOfTheRun`: the record of a run and its rows are of one submission, although two
  commands may be creating it, each in two transactions. (`insert_jobs` may not
  have come: then there are no rows.)
* `RowsAreTheSelection`: the rows are what the filters, the mode and the source of a
  rerun say, against `Filtered`, a definition of its own that looks at each case by
  itself; each case is there once, and in the order of the universe whatever the order of the
  arguments, so that `--max-cases` takes the first of it, unless workloads or batch
  sizes are given in an order of their own (`InAxisOrder`).
* `AnalysedOnce`: wrappers, watches, resumes and schedulers may all find the run finished;
  the claim is granted once.
* `SummaryIsFinal`: an analysis that is recorded was made after the last case, and covers
  the successes with a result, then and ever after, if nobody dealt with the run while it was
  being created (`early`) or forced an analysis while its cases went on (`premature`). This is
  where the edges of `JobLife` (a terminal row stays) and the claim have to fit.
* `ProfilesKept`: the profiles are in full either in `scorep/` or in the archive,
  wherever tar fails or a compaction dies, and whatever is tried again after it.
* `Analysed`: a run with cases is analysed in the end, unless it was cancelled, failed its
  preflight or lost its analyst between claim and `finish_analysis` (`Abandoned`), or, with
  `early`, was found without its rows and analysed as empty.

Those of `Reanalysis`:

* `ReportIsOfOneLedger`: the data of a report come from the ledger whose hash it gives. The
  hash, the read and the second hash are three steps, and commits come in between.
* `FinalAttemptOnly`: each success is in the report once, with the result of its final
  attempt or as an error, against `Reference`, which says what a section is without a
  state machine.
* `MajorityIsNoAnomaly`: what more than half of a group agree on is not an anomaly, whatever
  the order of the results, although closeness is not transitive.
* `TransitiveIsClasses`: where closeness is transitive, the mode is a largest class and
  the anomalies are the rest.

Those of `CaseRun`:

* `SolverHasDatabase`: the solver is given the database of its own attempt, not the
  endpoint left behind by an attempt whose node failed.
* `ControllerStopped`: on every way out of `run.sh` (end, failure, SIGTERM at any point) the
  controller has ended, but for a stubborn one started just before the trap was set, or
  a script ended by SIGKILL, which ends the group.
* `SuccessIsWhole`: a recorded success is a solver and a controller that ended well in
  this attempt, whatever had to be done to stop the controller.
* `ReanalysisAgrees`: the result in the ledger is the one a reanalysis reads from the log,
  however many attempts have written to it and wherever they broke off. It relates the
  wrapper's view of the pipe to `FinalAttempt`.
* `NothingRunsOn`: when a case is recorded, nothing of it runs on that stops when it is told
  to: script, controller and solver. The database the controller starts is not modelled; its
  end is the controller's business, and `run.sh` itself warns of one that needs manual cleanup
  when its controller ended badly (`run.sh:321`, `344`, `370`).
* `CaseEnds`: a case that runs is recorded, with `run.sh`, controller and solver free to hang
  for ever, and to keep the pipe open.

### Bounds and why they are enough

`N` and `K` are the length and width of the chain: 2 cases in a window of one have a
seed and a successor, and leave room for two unusual events; 3 also have a case
whose predecessor was itself submitted by a wrapper; with 5 two coordinators and the wrappers
compete for the slots of `repair_chain`. `MaxSubmits` leaves room for as many
resubmissions as the budget can cause in most runs; where it does not, sbatch
refuses, which the program has to survive anyway. `MaxFaults` of 1 or 2 is what
TLC finishes in minutes: each single failure, at every point, with every
interleaving. `Retries` is 1 (0 in `slurm_submissions`) instead of 3: all calls after the
case are alike. A window of two with two coordinators is out of TLC's reach; the theorems of
section 4 are about any window.

In `LocalPool` two cases in a window of two have their wrappers race each other and the
scheduler; `local_window` adds a third that waits for a place, each with
all outcomes. `MaxLaunches` bounds the process ids: when none is
left nothing is launched, and there are as many as the events
allowed can use up. `local_faults` has a window of one, so that two
events fit; a wrapper killed while no scheduler is up takes two. It has one command at a time,
with what an earlier one has left running; a cancel beside a scheduler is in
`local_window`, which therefore asks for `VerdictIsTrue` (`local_faults` does so with `LifeSpec`:
`JobLife` writes no other verdict, and no row moves after it). A resume beside a scheduler that lives (`resume`) is in no run: the theorems
`LocalTypes`, `LocalVerdict` and `LocalRefinement`, which have no condition, cover it.

In `RunRecord` two cases are enough for the last wrapper to race an earlier one, and two
commands for each to come between any two statements of the other. The universe has
each applicability rule at work (only PHYDLL has modes of its client, the transformer has
only the APIs for several models), and the command lines each mode of selection:
filters out of order, workloads in an order of their own, a filter that matches one case, a
repeated job id, a provider that is not there, a sample, a rerun. In `CaseRun` three attempts and three
events let a node fail in two of them, or in one with a stubborn process before; an output is
whole, half or empty. In `Reanalysis` one group takes every combination of three results out
of four (three of which are close in a chain and one of another type), and one log every
sequence of up to four lines of seven kinds behind a good output; one change at every
point is enough, as any change makes the hashes differ.

`CHECK_DEADLOCK` is off in these because a run that has its verdict, a case that has its
result and a report that is written have nothing more to do.

### Fairness

`FairSpec` is weakly fair to SLURM starting a job that may start, to each wrapper
and to each command going on (they are processes, and a death is an explicit
event), to the passing of time, and to the user starting `watch` whenever no
command runs: the documentation tells the user to do so to repair a run. A
cancelled run has no verdict, so `cancel` is not among the events of
`slurm_liveness`. A statement that fails because the database stays locked
(`_retry` gives up after twelve attempts) ends its process there, which is a kill
or a crash. `FairSpec` of `LocalPool` is weakly fair to each wrapper, its child included
(cases end, if only by their timeout, which is `CaseEnds`), to each command, and to a resume
whenever the run is unfinished and no command is up: that is what `resume` is for.
`FairSpec` of `RunRecord` is weakly fair to each agent, to the cases, and to a resume of a run
nothing works on. A command for a run that another one serves is an
unusual event there: a user who goes on starting them without end can keep the run from its
verdict, as each writes `running` again (`mark_run_started`).
`FairSpec` of `CaseRun` is weakly fair to the wrapper only, whose own timeouts are the only
thing the code can count on.

### What the code does not keep

1. *Stranded cases.* "watch/resume repair a chain if a job dies before it can
   submit its successor" does not hold when the job starts before its submitter
   has written its id: `mark_scheduled` is refused, the row is running without an
   id, and if the node dies no repair ever looks at it (`slurm_stranded`).
2. *Duplicates.* "duplicate launches are harmless" does not hold for
   `reconcile_slurm`: the wrapper that loses the race exits with 0, SLURM says
   COMPLETED, and the row becomes a success while the winner still runs
   (`slurm_duplicates`).
3. *Duplicates of a local case.* The local scheduler lists pending rows at every poll
   and launches again a case whose wrapper has not come to `mark_running`. The second
   wrapper loses the race and exits, which the scheduler takes for the end of the case:
   the row becomes an error and the success of the first wrapper is refused
   (`local_duplicates`). The first wrapper is not counted any more, so that more than
   `k` cases may run.
4. *Scheduled jobs.* "Maximum simultaneously scheduled jobs", the help of `-k/--max-jobs`
   (`matrix_jobs.py:200-201`), does not hold for the SLURM executor. `repair_chain`
   submits only while fewer than `k` rows are active, but `schedule_successor` counts nothing:
   every wrapper submits its successor when its own case starts, so that with `k = 1` two
   cases are scheduled in an undisturbed run (`slurm_scheduled`). What holds is that `k`
   execute (`Window`) and `2k` are scheduled (`TwoWindows`).

The following is seen in the code too and stated by no run of its own: no comment says
otherwise, or the comment is one that another finding is about already, or about something that
is not modelled.

* `recover_scheduling` resets by what it has read, so that a case whose job has started
  meanwhile may be executed twice. The chain is then no longer "exactly a sliding window" (the
  heading of `matrix_jobs.py`): the successor of the first job starts while the second one
  executes. TLC finds it when `Faults` is `{"crash"}`, with N=2, K=1, one command and one event: the
  submitter dies after sbatch, and the watch reads its claim before the job starts and resets
  the row after.
* A cancel with the SLURM executor does not empty the window. What scancel refuses to end goes on,
  as nobody looks at its answer. A case whose job started before its
  id was written is not told to `scancel`; a successor whose submission is refused after the
  pending rows have been ended is pending again (`release_submission`); the watch that goes on
  finds the predecessor ended in the ledger and submits the successor with no dependency. The two execute
  at the same time: TLC finds it with N=2, K=1, two commands, a cancel and one refused sbatch.
* A cancelled run is running again when a watch or a submit after its preflight calls
  `mark_run_started`, and gets a verdict when `finalize_run` has read it before the cancel.
  It is then concluded and analysed like any other (`Analysed`, `SummaryIsFinal`).
* A watch, a resume or an analysis that comes between `create_run` and `insert_jobs` finds a
  run without cases, which is vacuously complete, and its analysis is `empty` for good.
  `SummaryIsFinal` and `Analysed` do not hold then; it takes a user who knows the id before it
  is printed, and is the event `early` that `run_record` leaves out. The same run is
  left when a submit dies there, or when duplicate values of `--workloads` make
  `insert_jobs` fail.
* `matrix_analyze.py --force` is accepted while cases go on (`matrix_analyze.py:138-143` looks
  at no row). It records `success` over the cases that have ended by then
  (`matrix_analyze.py:191-193`), and `claim_analysis` refuses the analysis that the last
  wrapper asks for, so that the record stays incomplete until somebody forces another.
  `SummaryIsFinal` does not hold then; this is the event `premature` that `run_record`
  leaves out, as the user has asked for it.
* `--max-cases` takes the first cases in canonical order, but workloads and batch sizes in
  the order the user gave.
* A second submission under an existing id has replaced the template snapshot before it is
  refused; a rerun killed before its copy of the templates runs with the current ones.
* An analyst that dies leaves `analysis_status = running`, which only `--force` gets past.
* A tar that failed leaves part of an archive, which blocks every later archiving until
  the user removes it; two compactions at the same time may lose profiles.
* A success may have no result (`N/A`); it is not analysed. `1` and `1.0` are different
  results.
* Controllers and solvers that ignore SIGTERM survive if `run.sh` itself ends in time, as
  `kill_process_group` looks at the script only.
* Two attempts at a time, which `resume --force` allows, share log and state directory: the
  done file of one stops the controller of the other.

## 4. What is proved

Every safety property the passing runs check is a theorem about every value of the constants:
any number of cases, any window, any number of commands, submissions, attempts and unusual
events, any log, any axes and command lines. The invariants named below were first checked by TLC on the
instances of section 3, then proved to hold initially and to be kept by every step.

### Assumptions on the constants

* `SizesAssumption`, `KindsAssumption` (`SlurmChain`, `LocalPool`): at least one case and a
  window of at least one, as the argument parser and the selection demand; the other bounds are
  numbers, and the sets of kinds contain no others than those the modules define.
* `AxisAssumption` (`Cases`): each of the ten axes has a list of values without repetition, as
  the constants of `matrix_common.py` are.
* `BoundsAssumption`, `SelectionAssumption`, `ResultsAssumption` (`RunRecord`): a command inserts
  at most `MostRows` job ids of the universe, and a wrapper records one of its four outcomes.
* `ArgsAssumption`, `SourceAssumption` (`RunRecord`): filters are lists of values for some of the
  axes, the numbers on the command line are integers, as the argument parser leaves them, and
  the source of a rerun is a list of rows.
* `OutputsAssumption`, `AttemptsAssumption` (`CaseRun`): the solver does not print the header
  line of an attempt, which is the wrapper's.
* `CasesAssumption`, `LogsAssumption`, `ToleranceAssumption` (`Reanalysis`, `Results`): cases are
  numbered, logs are sequences of lines, the tolerance is not negative.

A theorem that holds only without some of the unusual events says so itself, as a condition
on `Faults`. None of these conditions is there for the sake of the proof: TLC has a counterexample for
each event that is excluded, unless said otherwise.

### SlurmChain

| theorem | property | needs |
|---|---|---|
| `Typing` | `TypeOK /\ Structure` | |
| `TrueVerdict` | `VerdictIsTrue` | |
| `Refinement` | `LifeSpec` | |
| `IdsOfTheCase` | `LedgerIds` | |
| `EarnedSuccess`, `KeptSuccess` | `SuccessIsEarned`, `SuccessIsKept` | |
| `NoIdAlone` | `NoIdBeforeSubmission` | one command at a time |
| `NoIdCalmly` | `NoIdBeforeSubmission` | `Calm` |
| `LostAfterOutages` | `LostNeedsOutages` | |
| `SubmittedOnce` | `OneSubmission` | `Calm` |
| `WidthOfWindow` | `Window` | `Calm` |
| `TwoWindowsAtMost` | `TwoWindows` | `Untroubled` |

* *Types.* `TypeOK` is not inductive: the case of a SLURM job, the calls left to a
  wrapper and the row a coordinator works on keep their types only because of where
  the process is. `Structure` says where: a wrapper that has not ended is in a running
  SLURM job, which is of a case; a coordinator that asks SLURM about a row has an id
  for it. The other theorems stand on `TypeInv == TypeOK /\ Structure`.
* *Verdict and refinement.* Every step applies at most one statement of the ledger
  (`Statements`), and each statement moves a row along an edge of `JobLife` or not at
  all (`LedgerEdges`, `RowsAlong`). So rows that have all ended stay (`Frozen`). A
  verdict is read at one step and written at a later one, so `VerdictInv` says that a
  verdict in the column, in a wrapper or in a coordinator is the one on the rows as
  they are.
* *Ids.* An id reaches the row late, from `sbatch`'s answer or from an older read of the
  row, so `IdsInv` follows it through the local data of the processes that hold it. It
  is kept because SLURM gives no id twice (`OwnerKept`).
* *Success.* A poller ends a row by what SLURM said of a job some steps ago. `SoleInv` is
  about a case submitted once. Before its wrapper has come to `mark_running` the row is not
  running and the wrapper has no result (`NotBegun`, `Unspoken`); while it executes only
  a cancel or a poll without an answer can have ended the row (`Working`); once it has reported a
  success the row is that or one of these two (`Spoken`); and a job that ended with exit code 0
  without a success left a row that had ended (`GoneWell`), so that `reconcile_slurm` can do no
  harm by trusting the exit code. An answer of SLURM that a poller carries with it is still true
  when it is used (`Answered`, `Settling`), because a job that has ended does not change.
* *Rows without an id.* With one command at a time the rows it polls stay submitted
  (`Fixed`), so no id it writes back is late. With two, one may remove an id while the
  other polls: TLC finds it with a resume or a slow claimer, together with an outage or a kill.
* *Losses.* `CountInv`: the count of an id, with the poll under way, never exceeds the
  number of unusual events so far. Each poll that misses an id has cost an outage of its own,
  and an id belongs to one row, so that no poll is counted twice; a command begins with no
  counts. The event a resume stands for is counted as one of its own.
* *Submissions and window.* `Untroubled` says that no command crashes, no job is killed, no
  claim of a living process ages, and nobody resumes; `Calm` adds that nobody cancels. Refused
  submissions, outages and configurations that fail are allowed, and any number of watches at any
  time. Each of the five kinds alone gives some case a second job. `Window` fails under crash,
  kill, slow and resume, each alone, and under a cancel with a refused submission; `TwoWindows`
  fails under kill, and its other conditions come from the invariant. The proof goes in four steps.
  `ClaimInv`: a claimed row has one holder, who has submitted nothing for it or just the id it is
  about to record (`OneClaim`, `WrapperSubmits`, `CommandSubmits`), and a pending row
  has no holder and no job (`Free`).
  `StartInv`, on top of `SoleInv`: a job waits for the job of the case `K` places before
  (`Queued`), also when a repair asks for it (`Asked`), which names no dependency only when that
  job is known to be over (`Named`); so once a job has started all jobs of the earlier cases
  `j - K`, `j - 2K`, … are over (`Started`).
  `RowInv`: of these cases a later one leaves `pending` only when the earlier ones are running
  or have ended (`Behind`). So of each class modulo `K` at most one case executes and at most
  one is claimed or waits, and there are `K` classes (`Spread` counts them with an injection into
  `0..K-1`).
  `OpenInv`: all of this is kept by every step but the first statement of a cancel
  (`ChainedStep`), after which the open rows are those that were active, at most `2 K`
  (`CancelLeavesFew`); and no row is ever opened again (`FewStay`). So `TwoWindows` needs no
  condition on cancels.

### LocalPool

| theorem | property | needs |
|---|---|---|
| `LocalTypes`, `LocalVerdict`, `LocalRefinement` | `TypeOK`, `VerdictIsTrue`, `LifeSpec` | |
| `LocalSuccess`, `LocalQuiet` | `SuccessIsKept`, `FinishedIsQuiet` | no `fork`, no `locked` |
| `LocalOneChild`, `LocalCancel`, `LocalWindow` | `OneChild`, `CancelEndsEveryCase`, `Window` | no `crash`, `interrupt`, `resume`, `force` |

* `OneStatement` and `Moves` say once for all actions what a step may do to the rows and to
  one process, and on what grounds. The invariants rest on these two; only the state of the commands
  is gone through action by action. `VerdictInv` is that of `SlurmChain`.
* `SoleInv` is about a case launched once: its row is pending or cancelled until it is launched
  (`UntouchedRows`), nothing but a cancel ends it while its wrapper has not reported (`OwnRow`), and
  a child that runs has a wrapper that waits for it or is gone (`ChildWatched`). A scheduler that could
  not start a process or write its id ends the row although the case may run:
  `locked` alone costs a success, and so does `fork` when the case was launched before and its
  wrapper was slow or its scheduler crashed.
* `AloneInv` is about a run that one process schedules from submission to end: the
  scheduler ends when all rows have (`OneScheduler`, `EndsWhenDone`), it has a handle of
  every case that is open and was launched (`Watched`), a running row has a process
  (`RowsSeen`), the claim of a case goes to one wrapper, for no row goes back to `pending` (`OneClaim`),
  and a cancel that reads the active rows has left no pending one (`CancelSeen`, the order of
  `cmd_cancel`'s two statements). Each of the excluded events breaks `OneChild`; `Window` falls to
  crash, resume and force, `CancelEndsEveryCase` to a crash and to an interruption.
* `WindowInv` adds that every process that lives has a handle, as long as no case was launched
  twice, and that there are at most `K` handles.

### RunRecord

| theorem | property | needs |
|---|---|---|
| `RecordTypes` | `TypeOK` | |
| `RecordRows` | `RowsAreOfTheRun` | |
| `RecordClaim` | `AnalysedOnce` | |
| `RecordProfiles` | `ProfilesKept` | |
| `RecordSummary` | `SummaryIsFinal` | no `early`, no `premature` |
| `RecordSelection` | `RowsAreTheSelection` | |
| `UniverseCounts`, `SelectionMatches` | (of `Universe` and `SelectCases`) | |

* `TypeInv` adds to `TypeOK` that only a run has rows and agents (`Recorded`), and how far the archive
  is at each place of the one agent that compacts (`CompactInv`), of which `ProfilesKept` is a part:
  while the archive is not whole the directory is.
* `PlanInv`: who is about to insert holds the plan the record holds, as `create_run` refuses an
  id that exists.
* `ClaimInv`: an analysis that is pending has not been granted, and one that was granted is
  never pending again.
* `SoloInv`: until the rows are in, nobody but a cancel deals with the run. `FinalInv`: who
  collects or writes an analysis finds the run settled, with all its rows in and ended, so what was
  collected stays the truth until it is written and after. With `early` the analysis of
  a run without rows is on record before the rows come; with `premature` one of the cases that
  have ended so far is.
* *The selection.* `KeepIs` and `UniqueIs` say what the loops over one list return, and
  `FlattenIs` from which place of which list an element of a concatenation is. The loop
  invariant of `iter_cases` has two parts (`CasesAre`). After `n` loops there are just
  the cases with an applicable value on each of the first `n` axes (`Chosen`, `ChosenStep`): a
  later loop does not change what applies to an earlier axis, as the rules ask for the provider and
  the model only, which come first (`ApplicableSame`). And of two of them the one
  that comes first is before the other on the first axis where they differ (`Less`, `LessStep`),
  because every list of values is in the order of its axis (`WantedIs`, `ApplicableIs`). `Less` goes
  one way only, hence each case is in the universe once (`UniverseCounts`), a case that the
  loops reach is one that matches (`MatchIs`), and the ids of a selection increase; two
  increasing sequences with the same elements are equal (`IncreasingUnique`), so
  the ids are `Filtered` (`SelectionMatches`). `PlansAre` adds what `apply_selection` and rerun make of
  them, `OnceEach` that the rows have each of them once (the unique keys of table `jobs`), and
  `RecordRows` that they are of the run's plan.

### Reanalysis and Results

`ReportTypes`, `ReportLedger`, `ReportAttempts`, `ReportMajority` and `ReportClasses` prove the four
properties of `Reanalysis` and its types, without conditions.

* `ReaderInv` orders the versions a reader has seen: the first hash is not younger than the data,
  nor the data than the second, so equal hashes are those of the data. It also says that the results
  in hand are those of the final attempts. `ReportsInv` says of every report on disk what
  `FinalAttemptOnly` and the two properties of the grouping need (`IsReport`).
* What the parser and the grouping compute is proved for every log and every group, by
  induction over the turns of their loops (`Loops`). The library's induction theorems take an
  operator as a parameter; here a set has a least number instead (`Least`, from the well-foundedness
  of `<` on the naturals), which gives `Induct` for sets of numbers, and `Trace` shows that a
  recursive function is the sequence of states of its loop. `ReadInv` is the loop invariant of
  `parse_summary` (a section has the matrix that comes right after its last header),
  `GroupsInv` that of `_modal_result` (every result joined the first group whose base is close
  to it, a group counts who joined it, and no base is close to an earlier one).

### CaseRun

`CaseTypes`, `OwnDatabase`, `NoControllerLeft`, `WholeSuccess`, `ReanalysisMatches` and `NothingLeft` prove
the six safety properties of `CaseRun`, without conditions. `CaseInv` is the conjunction of
`Stages` (a case is taken up only when nothing of an earlier attempt is left), `Script` (what the
script has started by which place, and whether its trap is set), `Database` (from the removal of
the old files on an endpoint is of this attempt, and so is the one the solver is given),
`StatusMeans` (a script that exits with 0 had a solver, and a controller if there is one, that
ended well), `Ending` (once the wrapper has stopped waiting nothing runs that a signal ends) and
`LogEnds` (the log ends with the header of the attempt under way until its output is
appended). `FinalOutput` says what `final_attempt` makes of such a log.

### What stays model-checked

* Liveness: `ConcludesUnlessStranded`, `Concludes`, `Analysed`, `CaseEnds`. It rests on fairness and on
  ENABLED, which the provers do not handle.
* The four runs that expect a violation.

## 5. Not modelled, and the plan

Parts without a module, and why:

* the status viewer opens the ledger read-only and formats counts; the timing
  report reads logs and prints medians;
* `test_matrix.py` is one process running all cases in turn; its parser, comparison and
  enumeration are those of `Results` and `Cases`;
* per-job configurations (`make_job_config`) are text substituted by regular expressions:
  only its failure reaches the ledger (`BadConfig`);
* the solvers call a coupling library that is not in the repository; `SolverEnds` is what is
  seen of them from outside;
* build recipes, converters, configurations and stored results have no state.

Left out of the modules: the columns nobody acts on (times, paths, resource figures,
`attempts`, events), the requeueing SLURM may do by itself, `reset_orphans` (no caller),
process ids being used again, the resource monitor, `resolve_cores` (read once), the choice of
libraries and clients in `run.sh`, the parts of a compaction that remove what nothing reads
again, and the layout of reports.

Two attempts at one case at the same time are in `SlurmChain` and `LocalPool`
as far as the ledger goes, and not in `CaseRun`.
