----------------------------- MODULE RunRecord ------------------------------
(***************************************************************************)
(* One run from its selection to its analysis and its compaction: the row  *)
(* of table "runs", the cases inserted under it, the row of table          *)
(* "analysis" and what the run's directory keeps (matrix_jobs.py,          *)
(* matrix_db.py, matrix_analyze.py).                                       *)
(*                                                                         *)
(* Agents are the commands of the user (Commands) and the wrappers, one    *)
(* per row; every transaction, and every file operation another agent can  *)
(* observe, is a step of its own.  How the cases are launched is the       *)
(* subject of SlurmChain and LocalPool; here the pool moves rows along the *)
(* edges of JobLife, and the wrapper of a case that ends on its own goes   *)
(* on to maybe_analyze.                                                    *)
(***************************************************************************)
EXTENDS Cases, Ledger

CONSTANTS Commands,    \* commands of matrix_jobs.py the user may have running at once
          Args,        \* the command lines of submit and rerun under this run id
          Source,      \* the finished run that rerun reads: its rows, by seq
          MostRows,    \* no selection of Args has more cases
          Results,     \* what a wrapper may record: a status, and whether it parsed a result
          Faults, MaxFaults

VARIABLES run,         \* the row of table runs, or NoRun
          rows,        \* the rows of table jobs by seq: job id, status, result_valid
          analysis,    \* the row of table analysis, or NoAnalysis
          profiles,    \* the directory scorep: "full", "partial" or "gone"
          archive,     \* scorep.tar: "none", "partial" or "full"
          proc,        \* what each agent is doing
          claims,      \* history: how often claim_analysis was granted
          budget       \* unusual events left
vars == <<run, rows, analysis, profiles, archive, proc, claims, budget>>
files == <<profiles, archive>>

Life == INSTANCE JobLife WITH Jobs <- {}, status <- rows, run <- run

Agents == Commands \union (1..MostRows)
ANALYSED == {"success", "empty", "error"}
VERDICTS == {"complete", "complete_with_failures"}

Selections(arg) ==
  IF arg.kind = "rerun" THEN {Again(Source, arg.statuses)}
  ELSE IF Known(arg.filter) THEN Narrow(SelectCases(arg.filter), arg.how) ELSE {}

Plans == UNION {{[arg |-> arg, ids |-> ids] : ids \in Selections(arg) \ {<<>>}} : arg \in Args}

ASSUME BoundsAssumption == MostRows \in Nat /\ MaxFaults \in Nat
(* What a command may insert are job ids of the universe. *)
ASSUME SelectionAssumption ==
  \A plan \in Plans : plan.ids \in Seq(DOMAIN Universe) /\ Len(plan.ids) <= MostRows
(* What the command line of submit or rerun may say, once it is parsed.     *)
ASSUME ArgsAssumption ==
  \A arg \in Args :
    arg.kind # "rerun" =>
      /\ DOMAIN arg.filter \subseteq DOMAIN Axis
      /\ \A field \in DOMAIN arg.filter : arg.filter[field] \in Seq(ToSet(arg.filter[field]))
      /\ arg.how.mode \in {"all", "job_ids", "sample", "max_cases"}
      /\ arg.how.mode = "job_ids" => arg.how.ids \in Seq(Int)
      /\ arg.how.mode \in {"sample", "max_cases"} => arg.how.n \in Int
ASSUME SourceAssumption == Source \in Seq(ToSet(Source))
ASSUME ResultsAssumption ==
  Results \subseteq [status : {"success", "failed", "timeout", "error"}, result_valid : BOOLEAN]

NoRun == [status |-> "none", analysis |-> "none"]
NoPlan == [ids |-> <<>>]
NoAnalysis == [status |-> "none", covers |-> {}]
Idle == [pc |-> "off", role |-> "none", plan |-> NoPlan, verdict |-> "none", found |-> NoAnalysis,
         todo |-> {}]

Init == /\ run = NoRun /\ rows = <<>> /\ analysis = NoAnalysis
        /\ profiles = "full" /\ archive = "none"
        /\ proc = [a \in Agents |-> Idle]
        /\ claims = 0 /\ budget = MaxFaults

At(a, pc) == proc[a].pc = pc
Goto(a, pc) == proc' = [proc EXCEPT ![a] = IF pc = "off" THEN Idle ELSE [@ EXCEPT !.pc = pc, !.verdict = "none"]]
Quit(a) == proc' = [proc EXCEPT ![a] = Idle]
Become(a, role, pc) ==
  At(a, "off") /\ proc' = [proc EXCEPT ![a].role = role, ![a].pc = pc]
Spend(fault) == fault \in Faults /\ budget > 0 /\ budget' = budget - 1
Free == UNCHANGED budget
First(S) == {i \in S : \A k \in S : i <= k}
Creating == \E a \in Agents : proc[a].pc \in {"insert", "preflight"}
(* A success whose log had no result, "N/A", is not analysed. *)
Successes == {i \in DOMAIN rows : rows[i].status = "success" /\ rows[i].result_valid}

-----------------------------------------------------------------------------
(* submit and rerun *)

(* A second submission under the same run id is an unusual event; one that  *)
(* comes after the creation is refused by its look-up and left out.         *)
StartSubmit(a) ==
  \E plan \in Plans :
    /\ a \in Commands /\ At(a, "off")
    /\ proc' = [proc EXCEPT ![a] = [Idle EXCEPT !.pc = "templates", !.plan = plan,
                                      !.role = plan.arg.executor]]
    /\ \/ run = NoRun /\ proc = [b \in Agents |-> Idle] /\ Free
       \/ /\ Creating \/ (run = NoRun /\ proc # [b \in Agents |-> Idle])
          /\ Spend("submit")
    /\ UNCHANGED <<run, rows, analysis, files, claims>>

(* A template that is missing fails the command before there is a run.     *)
CopyTemplates(a) ==
  /\ At(a, "templates")
  /\ \/ Goto(a, "lookup") /\ Free
     \/ Spend("template") /\ Quit(a)
  /\ UNCHANGED <<run, rows, analysis, files, claims>>

LookUp(a) ==
  /\ At(a, "lookup")
  /\ IF run = NoRun THEN Goto(a, "create") ELSE Quit(a)
  /\ UNCHANGED <<run, rows, analysis, files, claims, budget>>

NewRun(a) == [status |-> "pending", analysis |-> "pending", plan |-> proc[a].plan]

(* Mutant: INSERT OR REPLACE. *)
CreateRunAgain(a) ==
  /\ At(a, "create")
  /\ run' = NewRun(a) /\ Goto(a, "insert")
  /\ UNCHANGED <<rows, analysis, files, claims, budget>>

(* run_id is the primary key: the slower of two creators fails.             *)
CreateRun(a) ==
  /\ At(a, "create")
  /\ \/ run = NoRun /\ run' = NewRun(a) /\ Goto(a, "insert")
     \/ run # NoRun /\ Quit(a) /\ UNCHANGED run
  /\ UNCHANGED <<rows, analysis, files, claims, budget>>

(* One transaction; (run_id, job_id) and (run_id, seq) are unique.          *)
InsertJobs(a) ==
  LET ids == proc[a].plan.ids
  IN  /\ At(a, "insert")
      /\ \/ /\ rows = <<>> /\ IsInjective(ids)
            /\ rows' = [i \in DOMAIN ids |-> [job |-> ids[i], status |-> "pending", result_valid |-> FALSE]]
            /\ Goto(a, "preflight")
         \/ /\ rows # <<>> \/ ~IsInjective(ids)
            /\ Quit(a) /\ UNCHANGED rows
      /\ UNCHANGED <<run, analysis, files, claims, budget>>

(* Mutant: the failure is recorded in a word no reader of the run knows. *)
PreflightFailed(a) ==
  /\ At(a, "preflight")
  /\ \/ Goto(a, "start") /\ Free /\ UNCHANGED run
     \/ Spend("preflight") /\ run' = [run EXCEPT !.status = "failed"] /\ Quit(a)
  /\ UNCHANGED <<rows, analysis, files, claims>>

Preflight(a) ==
  /\ At(a, "preflight")
  /\ \/ Goto(a, "start") /\ Free /\ UNCHANGED run
     \/ Spend("preflight") /\ run' = [run EXCEPT !.status = "error"] /\ Quit(a)
  /\ UNCHANGED <<rows, analysis, files, claims>>

-----------------------------------------------------------------------------
(* mark_run_started, and the loops that wait for the cases *)

(* A watch or resume while the run is being created is an unusual event, as *)
(* its user has not been told the run id yet; so is one for a run that      *)
(* another command serves already.                                          *)
Unserved == IF Creating THEN Spend("early")
            ELSE IF \A a \in Commands : At(a, "off") THEN Free ELSE Spend("second")

StartWatch(a) ==
  /\ a \in Commands /\ run # NoRun /\ run.plan.arg.executor = "slurm" /\ Unserved
  /\ Become(a, "slurm", "start")
  /\ UNCHANGED <<run, rows, analysis, files, claims>>

(* Mutant: a run with a verdict has nothing to resume. *)
StartResumeUnfinished(a) ==
  /\ a \in Commands /\ run # NoRun /\ run.status \notin {"cancelled"} \union VERDICTS /\ Unserved
  /\ Become(a, IF run.plan.arg.executor = "slurm" THEN "resume" ELSE "local", "start")
  /\ run.plan.arg.executor = "local" => WithStatus(rows, ACTIVE_STATUSES) = {}
  /\ UNCHANGED <<run, rows, analysis, files, claims>>

(* cmd_resume; with --watch, a watch follows.  A local run with live cases  *)
(* is left alone.                                                           *)
StartResume(a) ==
  /\ a \in Commands /\ run # NoRun /\ run.status # "cancelled" /\ Unserved
  /\ \/ run.status \in VERDICTS /\ Become(a, "resume", "claim")
     \/ /\ run.status \notin VERDICTS /\ run.plan.arg.executor = "slurm"
        /\ Become(a, "resume", "start")
     \/ /\ run.status \notin VERDICTS /\ run.plan.arg.executor = "local"
        /\ WithStatus(rows, ACTIVE_STATUSES) = {}
        /\ Become(a, "local", "start")
  /\ UNCHANGED <<run, rows, analysis, files, claims>>

(* submit and rerun mark the run and so does the loop they go on to; of a   *)
(* SLURM run they end here unless they are told to watch.                   *)
MarkStarted(a) ==
  /\ At(a, "start")
  /\ run' = [run EXCEPT !.status = "running"]
  /\ \/ proc[a].role = "resume" /\ Goto(a, "finalize")
     \/ proc[a].role # "resume" /\ proc[a].plan = NoPlan /\ Goto(a, "loop")
     \/ proc[a].plan # NoPlan /\ proc' = [proc EXCEPT ![a].plan = NoPlan]
     \/ proc[a].role = "slurm" /\ proc[a].plan # NoPlan /\ Quit(a)
  /\ UNCHANGED <<rows, analysis, files, claims, budget>>

(* The local loop also ends when it has no process and no row is pending:   *)
(* the rows that are still running belong to another scheduler.             *)
Loop(a) ==
  /\ At(a, "loop")
  /\ \/ /\ proc[a].role = "slurm"
        /\ Goto(a, IF run.status = "cancelled" THEN "again" ELSE "finalize")
     \/ /\ proc[a].role = "local"
        /\ \/ AllTerminal(rows)
           \/ /\ WithStatus(rows, {"pending"}) = {}
              /\ \E b \in Commands \ {a} : proc[b].role = "local"
        /\ Goto(a, "finalize")
  /\ UNCHANGED <<run, rows, analysis, files, claims, budget>>

AfterFinalize(a) == CASE proc[a].role \in {"slurm", "wrapper"} -> "check"
                      [] proc[a].role = "local" -> "again"
                      [] proc[a].role = "resume" -> "off"

(* finalize_run reads the run and the rows, *)
Finalize(a) ==
  /\ At(a, "finalize")
  /\ IF run.status = "cancelled" \/ ~AllTerminal(rows) THEN Goto(a, AfterFinalize(a))
     ELSE proc' = [proc EXCEPT ![a].pc = "verdict", ![a].verdict = Verdict(rows)]
  /\ UNCHANGED <<run, rows, analysis, files, claims, budget>>

(* and update_run_status writes what follows from them. *)
RecordVerdict(a) ==
  /\ At(a, "verdict")
  /\ run' = [run EXCEPT !.status = proc[a].verdict]
  /\ Goto(a, AfterFinalize(a))
  /\ UNCHANGED <<rows, analysis, files, claims, budget>>

Check(a) ==
  /\ At(a, "check")
  /\ \/ AllTerminal(rows) /\ Goto(a, IF proc[a].role = "wrapper" THEN "claim" ELSE "again")
     \/ ~AllTerminal(rows) /\ Goto(a, IF proc[a].role = "wrapper" THEN "off" ELSE "loop")
  /\ UNCHANGED <<run, rows, analysis, files, claims, budget>>

ReadAgain(a) ==
  /\ At(a, "again")
  /\ Goto(a, IF run.status = "cancelled" THEN "off" ELSE "claim")
  /\ UNCHANGED <<run, rows, analysis, files, claims, budget>>

(* maybe_analyze, at the end of a wrapper. *)
MaybeAnalyze(a) ==
  /\ At(a, "maybe")
  /\ Goto(a, IF run.status = "cancelled" THEN "off" ELSE "finalize")
  /\ UNCHANGED <<run, rows, analysis, files, claims, budget>>

-----------------------------------------------------------------------------
(* analyze_run *)

(* Mutant: the claim does not ask whether the cases have ended. *)
ClaimEarly(a) ==
  /\ At(a, "claim")
  /\ IF run.analysis = "pending"
     THEN /\ run' = [run EXCEPT !.analysis = "running"]
          /\ claims' = claims + 1 /\ Goto(a, "collect")
     ELSE Goto(a, "off") /\ UNCHANGED <<run, claims>>
  /\ UNCHANGED <<rows, analysis, files, budget>>

(* Mutant: the claim is granted unless an analysis has finished. *)
ClaimUnfinished(a) ==
  /\ At(a, "claim")
  /\ IF AllTerminal(rows) /\ run.analysis \notin ANALYSED
     THEN /\ run' = [run EXCEPT !.analysis = "running"]
          /\ claims' = claims + 1 /\ Goto(a, "collect")
     ELSE Goto(a, "off") /\ UNCHANGED <<run, claims>>
  /\ UNCHANGED <<rows, analysis, files, budget>>

(* all_terminal is asked in a transaction before; as a case that has ended   *)
(* stays ended, nothing can come between the answer and the claim.          *)
Claim(a) ==
  /\ At(a, "claim")
  /\ IF AllTerminal(rows) /\ run.analysis = "pending"
     THEN /\ run' = [run EXCEPT !.analysis = "running"]
          /\ claims' = claims + 1 /\ Goto(a, "collect")
     ELSE Goto(a, "off") /\ UNCHANGED <<run, claims>>
  /\ UNCHANGED <<rows, analysis, files, budget>>

(* --force asks for nothing; it may come while the run is being created, or *)
(* while its cases go on.                                                   *)
StartForce(a) ==
  /\ a \in Commands /\ run # NoRun
  /\ Spend(IF Creating THEN "early" ELSE IF AllTerminal(rows) THEN "force" ELSE "premature")
  /\ run' = [run EXCEPT !.analysis = "running"]
  /\ Become(a, "force", "collect")
  /\ UNCHANGED <<rows, analysis, files, claims>>

(* An exception between here and the report ends in the error path. *)
Collect(a) ==
  /\ At(a, "collect")
  /\ \/ /\ Free
        /\ proc' = [proc EXCEPT ![a].pc = "finish", ![a].found =
                      [status |-> IF Successes = {} THEN "empty" ELSE "success",
                       covers |-> Successes]]
     \/ /\ Spend("broken")
        /\ proc' = [proc EXCEPT ![a].pc = "finish",
                                ![a].found = [status |-> "error", covers |-> {}]]
  /\ UNCHANGED <<run, rows, analysis, files, claims>>

(* The report is written, then both tables in one transaction. *)
FinishAnalysis(a) ==
  /\ At(a, "finish")
  /\ run' = [run EXCEPT !.analysis = proc[a].found.status]
  /\ analysis' = proc[a].found /\ Quit(a)
  /\ UNCHANGED <<rows, files, claims, budget>>

-----------------------------------------------------------------------------
(* cancel; which processes it ends is in SlurmChain and LocalPool *)

StartCancel(a) ==
  /\ a \in Commands /\ run # NoRun /\ run.status \notin VERDICTS /\ Spend("cancel")
  /\ Become(a, "cancel", "cancel")
  /\ UNCHANGED <<run, rows, analysis, files, claims>>

(* Pending rows are ended in one statement, the active ones are read, then  *)
(* each is ended, unless it has ended by then, and the run.                 *)
CancelRows(a) ==
  /\ At(a, "cancel")
  /\ rows' = CancelPending(rows) /\ Goto(a, "cancel scan")
  /\ UNCHANGED <<run, analysis, files, claims, budget>>

CancelScan(a) ==
  /\ At(a, "cancel scan")
  /\ proc' = [proc EXCEPT ![a].pc = "cancel mark", ![a].todo = WithStatus(rows, ACTIVE_STATUSES)]
  /\ UNCHANGED <<run, rows, analysis, files, claims, budget>>

CancelMark(a) ==
  \E i \in First(proc[a].todo) :
    /\ At(a, "cancel mark")
    /\ rows' = Transition(rows, i, OPEN_STATUSES, [rows[i] EXCEPT !.status = "cancelled"])
    /\ proc' = [proc EXCEPT ![a].todo = @ \ {i}]
    /\ UNCHANGED <<run, analysis, files, claims, budget>>

CancelRun(a) ==
  /\ At(a, "cancel mark") /\ proc[a].todo = {}
  /\ run' = [run EXCEPT !.status = "cancelled"] /\ Quit(a)
  /\ UNCHANGED <<rows, analysis, files, claims, budget>>

-----------------------------------------------------------------------------
(* compact --archive-scorep; one at a time, as its user has no reason for   *)
(* two                                                                      *)

Compactable == /\ run # NoRun /\ run.status \in VERDICTS /\ AllTerminal(rows)
               /\ \A a \in Agents : proc[a].role # "compact"

(* Mutant: an archive that is there already is written again. *)
StartCompactAgain(a) ==
  /\ a \in Commands /\ Compactable /\ profiles # "gone"
  /\ Become(a, "compact", "tar")
  /\ UNCHANGED <<run, rows, analysis, files, claims, budget>>

StartCompact(a) ==
  /\ a \in Commands /\ Compactable /\ profiles # "gone" /\ archive = "none"
  /\ Become(a, "compact", "tar")
  /\ UNCHANGED <<run, rows, analysis, files, claims, budget>>

(* A tar that fails, or whose process dies, leaves what it has written. *)
Tar(a) ==
  /\ \/ At(a, "tar") /\ archive' = "partial" /\ Goto(a, "tarring") /\ Free
     \/ At(a, "tarring") /\ archive' = profiles /\ Goto(a, "rm") /\ Free
     \/ At(a, "tarring") /\ Spend("tar") /\ Quit(a) /\ UNCHANGED archive
  /\ UNCHANGED <<run, rows, analysis, profiles, claims>>

(* rmtree with ignore_errors *)
RemoveProfiles(a) ==
  /\ \/ At(a, "rm") /\ profiles' = "partial" /\ Goto(a, "removing")
     \/ At(a, "removing") /\ profiles' = "gone" /\ Quit(a)
  /\ UNCHANGED <<run, rows, analysis, archive, claims, budget>>

-----------------------------------------------------------------------------
(* The cases, and what may end an agent *)

CaseStarts(i) ==
  /\ i \in DOMAIN rows /\ rows[i].status = "pending" /\ run.status = "running"
  /\ "running" \in Life!Edges(rows[i].status)
  /\ rows' = [rows EXCEPT ![i].status = "running"]
  /\ UNCHANGED <<run, analysis, files, proc, claims, budget>>

(* The wrapper records its result. *)
CaseEnds(i) ==
  \E result \in Results :
    /\ i \in DOMAIN rows /\ rows[i].status = "running"
    /\ result.status \in Life!Edges(rows[i].status)
    /\ rows' = [rows EXCEPT ![i].status = result.status, ![i].result_valid = result.result_valid]
    /\ Become(i, "wrapper", "maybe")
    /\ UNCHANGED <<run, analysis, files, claims, budget>>

(* The wrapper died; a loop gives the case up or has it run again. *)
CaseIsLost(i) ==
  \E result \in {"lost", "pending"} :
    /\ i \in DOMAIN rows /\ rows[i].status = "running"
    /\ \E a \in Agents : At(a, "loop")
    /\ result \in Life!Edges(rows[i].status) /\ Spend("kill")
    /\ rows' = [rows EXCEPT ![i].status = result]
    /\ UNCHANGED <<run, analysis, files, proc, claims>>

Crash(a) ==
  /\ ~At(a, "off") /\ Spend("crash") /\ Quit(a)
  /\ UNCHANGED <<run, rows, analysis, files, claims>>

Step(a) ==
  \/ CopyTemplates(a) \/ LookUp(a) \/ CreateRun(a) \/ InsertJobs(a) \/ Preflight(a)
  \/ MarkStarted(a) \/ Loop(a) \/ Finalize(a) \/ RecordVerdict(a) \/ Check(a)
  \/ ReadAgain(a) \/ MaybeAnalyze(a)
  \/ Claim(a) \/ Collect(a) \/ FinishAnalysis(a)
  \/ CancelRows(a) \/ CancelScan(a) \/ CancelMark(a) \/ CancelRun(a) \/ Tar(a) \/ RemoveProfiles(a)

Next ==
  \/ \E a \in Agents :
       \/ Step(a) \/ Crash(a) \/ StartSubmit(a) \/ StartWatch(a) \/ StartResume(a)
       \/ StartForce(a) \/ StartCancel(a) \/ StartCompact(a)
  \/ \E i \in 1..MostRows : CaseStarts(i) \/ CaseEnds(i) \/ CaseIsLost(i)

Spec == Init /\ [][Next]_vars

(* Agents go on, cases end, and a user who finds the run idle resumes it.   *)
AllIdle == proc = [a \in Agents |-> Idle]
Fairness ==
  /\ \A a \in Agents : WF_vars(Step(a))
  /\ \A i \in 1..MostRows : WF_vars(CaseStarts(i)) /\ WF_vars(CaseEnds(i))
  /\ WF_vars(AllIdle /\ \E a \in Commands : StartResume(a))
FairSpec == Spec /\ Fairness

-----------------------------------------------------------------------------
(* Properties *)

RowIds == [i \in DOMAIN rows |-> rows[i].job]
Outcome == [status : ANALYSED \union {"none"}, covers : SUBSET (1..MostRows)]

TypeOK ==
  /\ run \in {NoRun} \union
        [status : Life!RunStatuses,
         analysis : ANALYSED \union {"pending", "running"}, plan : Plans]
  /\ DOMAIN rows \in {1..n : n \in 0..MostRows}
  /\ \A i \in DOMAIN rows : /\ rows[i].job \in DOMAIN Universe
                            /\ rows[i].status \in Statuses /\ rows[i].result_valid \in BOOLEAN
  /\ analysis \in Outcome
  /\ profiles \in {"full", "partial", "gone"} /\ archive \in {"none", "partial", "full"}
  /\ claims \in Nat /\ budget \in 0..MaxFaults

(* The run's record (n_jobs, filters_json) and its rows are of one          *)
(* submission, all of it or its record alone, although two commands may be  *)
(* creating the run and each inserts in two transactions (create_run,       *)
(* insert_jobs).                                                            *)
RowsAreOfTheRun == rows = <<>> \/ (run # NoRun /\ RowIds = run.plan.ids)

(* What the rows are is what the filters say of each case by itself: all of *)
(* them, the first of them, those asked for, or some; once each, and in the *)
(* order the universe counts them, whatever the order of the arguments, but *)
(* for workloads and batch sizes, which are taken as given.  What a rerun   *)
(* repeats is every case of its source that ended that way.                 *)
(* (iter_cases, select_cases, apply_selection, cmd_rerun)                   *)
RowsAreTheSelection ==
  rows # <<>> =>
    LET arg == run.plan.arg
    IN  IF arg.kind = "rerun"
        THEN ToSet(RowIds) = {row.job : row \in {r \in ToSet(Source) : r.status \in arg.statuses}}
        ELSE LET filtered == Filtered(arg.filter)
             IN  /\ ToSet(RowIds) \subseteq ToSet(filtered) /\ IsInjective(RowIds)
                 /\ arg.how.mode = "all" => ToSet(RowIds) = ToSet(filtered)
                 /\ arg.how.mode = "job_ids" => ToSet(RowIds) = ToSet(arg.how.ids)
                 /\ InAxisOrder(arg.filter) =>
                      /\ arg.how.mode = "all" => RowIds = filtered
                      /\ arg.how.mode = "max_cases" => IsPrefix(RowIds, filtered)

(* However many wrappers, watches, resumes and schedulers find the run      *)
(* finished, one of them is granted its analysis (claim_analysis).          *)
AnalysedOnce == claims <= 1

(* Once an analysis has been recorded the run's cases have ended, and it    *)
(* covers exactly those that succeeded with a result, then and ever after   *)
(* (claim_analysis, analyze_run), unless a command came while the run was   *)
(* being created ("early") or --force while its cases went on ("premature").*)
(* Faults has neither: in both the analysis recorded is of rows to come or  *)
(* to change, and claim_analysis refuses the one that would be final.       *)
SummaryIsFinal ==
  analysis.status \in {"success", "empty"} =>
    AllTerminal(rows) /\ analysis.covers = Successes

(* The profiles of a run are in its directory or in a whole archive,        *)
(* whichever step of a compaction fails or is repeated                      *)
(* (compact_run_directory).                                                 *)
ProfilesKept == profiles = "full" \/ archive = "full"

(* A run that has its cases is analysed in the end, unless it is cancelled, *)
(* fails its preflight, or its analyst dies on the way.                     *)
Abandoned == run.analysis = "running" /\ \A a \in Agents : proc[a].pc \notin {"collect", "finish"}
Analysed ==
  rows # <<>> ~> \/ run.status \in {"cancelled", "error"}
                \/ run.analysis \in ANALYSED
                \/ Abandoned
=============================================================================
