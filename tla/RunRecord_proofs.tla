-------------------------- MODULE RunRecord_proofs --------------------------
(***************************************************************************)
(* What the ledger of a run guarantees for every number of cases and of    *)
(* commands: its types, that rows and record are of one submission, that   *)
(* one claimant is granted the analysis, that the recorded analysis is of  *)
(* the final rows, and that a compaction loses no profiles; and, for any   *)
(* axes and any command line, that the rows are the cases it selects.      *)
(*                                                                         *)
(* Turn, RowsMove and RunMoves say what a step may do to the process of    *)
(* one agent, to the rows and to the row of table runs, and on what        *)
(* grounds.  OneTurn proves them for every action; the invariants follow   *)
(* from them.  What is selected is computed by loops over sequences, whose *)
(* results are proved by induction over their turns (Induct and Trace of   *)
(* Loops).                                                                 *)
(***************************************************************************)
EXTENDS RunRecord, Loops

-----------------------------------------------------------------------------
(* Types *)

Submitting == {"templates", "lookup", "create"}
Serving == {"start", "loop", "finalize", "verdict", "check", "again", "maybe", "claim"}
Cancelling == {"cancel", "cancel scan", "cancel mark"}
Compacting == {"tar", "tarring", "rm", "removing"}
Pcs == {"off", "insert", "preflight", "collect", "finish"}
         \union Submitting \union Serving \union Cancelling \union Compacting
Roles == {"none", "local", "slurm", "resume", "wrapper", "force", "cancel", "compact"}
           \union {plan.arg.executor : plan \in Plans}

RowRec == [job : DOMAIN Universe, status : Statuses, result_valid : BOOLEAN]
RunRec == [status : Life!RunStatuses, analysis : ANALYSED \union {"pending", "running"},
           plan : Plans]
ProcRec == [pc : Pcs, role : Roles, plan : Plans \union {NoPlan},
            verdict : VERDICTS \union {"none"}, found : Outcome, todo : SUBSET (1..MostRows)]

(* What an agent holds that it is about to write is fit to be written.      *)
ProcGood(p) ==
  /\ p.pc \in Submitting \union {"insert", "preflight"} => p.plan \in Plans
  /\ p.pc \in {"finalize", "verdict", "maybe"} => p.role \in {"slurm", "local", "resume", "wrapper"}
  /\ p.pc = "verdict" => p.verdict \in VERDICTS
  /\ p.pc = "finish" => p.found.status \in ANALYSED

RunTyped == run \in {NoRun} \union RunRec
RowsTyped == \E n \in 0..MostRows : rows \in [1..n -> RowRec]
ProcsTyped == proc \in [Agents -> ProcRec] /\ \A a \in Agents : ProcGood(proc[a])
RestTyped == /\ analysis \in Outcome
             /\ profiles \in {"full", "partial", "gone"} /\ archive \in {"none", "partial", "full"}
             /\ claims \in Nat /\ budget \in 0..MaxFaults

(* Only a submission goes on without a run, and only a run has rows. *)
Recorded ==
  /\ rows # <<>> => run # NoRun
  /\ \A a \in Agents : proc[a].pc \notin Submitting \union {"off"} => run # NoRun

(* One agent compacts, and where it is says how far the archive is: the     *)
(* archive is of the type of what was packed.                               *)
CompactInv ==
  /\ \A a \in Agents : proc[a].pc \in Compacting => proc[a].role = "compact"
  /\ \A a, b \in Agents : proc[a].pc \in Compacting /\ proc[b].pc \in Compacting => a = b
  /\ \A a \in Agents : /\ At(a, "tar") => archive = "none"
                       /\ At(a, "tarring") => archive = "partial"
                       /\ proc[a].pc \in {"rm", "removing"} => archive = "full"
  /\ archive # "full" => profiles = "full"

TypeInv == RunTyped /\ RowsTyped /\ ProcsTyped /\ RestTyped /\ Recorded /\ CompactInv

-----------------------------------------------------------------------------
(* What the operators of a process do to it *)

Only(a) == \A b \in Agents \ {a} : proc'[b] = proc[b]

LEMMA IdleTyped == Idle \in ProcRec /\ ProcGood(Idle) /\ Idle.pc = "off" /\ NoAnalysis \in Outcome
  BY DEF Idle, ProcRec, Pcs, Roles, Outcome, NoAnalysis, ProcGood, Submitting

LEMMA GotoDoes ==
  ASSUME proc \in [Agents -> ProcRec], NEW a \in Agents, NEW pc \in Pcs, Goto(a, pc)
  PROVE  /\ proc' \in [Agents -> ProcRec] /\ Only(a)
         /\ proc'[a].pc = pc
         /\ pc = "off" => proc'[a] = Idle
         /\ pc # "off" => /\ proc'[a].role = proc[a].role /\ proc'[a].plan = proc[a].plan
                          /\ proc'[a].found = proc[a].found
  <1>1. CASE pc = "off"
    <2>1. proc' = [proc EXCEPT ![a] = Idle]
      BY <1>1 DEF Goto
    <2> QED
      BY <1>1, <2>1, IdleTyped DEF Only
  <1>2. CASE pc # "off"
    <2>1. proc' = [proc EXCEPT ![a] = [proc[a] EXCEPT !.pc = pc, !.verdict = "none"]]
      BY <1>2 DEF Goto
    <2> QED
      BY <1>2, <2>1 DEF Only, ProcRec
  <1> QED
    BY <1>1, <1>2

LEMMA QuitDoes ==
  ASSUME proc \in [Agents -> ProcRec], NEW a \in Agents, Quit(a)
  PROVE  proc' \in [Agents -> ProcRec] /\ Only(a) /\ proc'[a] = Idle
  BY IdleTyped DEF Quit, Only

LEMMA BecomeDoes ==
  ASSUME proc \in [Agents -> ProcRec], NEW a \in Agents, NEW role \in Roles, NEW pc \in Pcs,
         Become(a, role, pc)
  PROVE  /\ proc' \in [Agents -> ProcRec] /\ Only(a) /\ proc[a].pc = "off"
         /\ proc'[a].pc = pc /\ proc'[a].role = role
  BY DEF Become, At, Only, ProcRec

-----------------------------------------------------------------------------
(* What a step may do *)

Ends(a) == proc'[a] = Idle
Submits(a) == At(a, "off") /\ proc'[a].pc = "templates" /\ proc'[a].plan \in Plans
Looks(a) == /\ proc[a].pc \in {"templates", "lookup"} /\ proc'[a].pc \in {"lookup", "create"}
            /\ proc'[a].plan = proc[a].plan
Creates(a) == /\ At(a, "create") /\ run = NoRun /\ run' = NewRun(a)
              /\ proc'[a].pc = "insert" /\ proc'[a].plan = proc[a].plan
Inserts(a) == /\ At(a, "insert") /\ rows = <<>>
              /\ proc'[a].pc = "preflight" /\ proc'[a].plan = proc[a].plan

(* A run that is being created is served by nobody else, unless somebody is *)
(* early; the wrapper of a case comes when there are cases.  An analysis is *)
(* forced on cases that go on only if it is premature.                      *)
Serves(a) ==
  /\ proc'[a].pc \in Serving /\ ProcGood(proc'[a])
  /\ \/ proc[a].pc \in Serving \union {"preflight"}
     \/ At(a, "off") /\ run # NoRun /\ ("early" \in Faults \/ ~Creating \/ rows # <<>>)

Claims(a) == At(a, "claim") /\ AllTerminal(rows) /\ proc'[a].pc = "collect"
Forces(a) == /\ At(a, "off") /\ run # NoRun /\ proc'[a].pc = "collect"
             /\ Creating => "early" \in Faults
             /\ AllTerminal(rows) \/ Creating \/ "premature" \in Faults
Collects(a) ==
  /\ At(a, "collect") /\ proc'[a].pc = "finish" /\ proc'[a].found.status \in ANALYSED
  /\ proc'[a].found.status \in {"success", "empty"} => proc'[a].found.covers = Successes
Cancels(a) == /\ (At(a, "off") /\ run # NoRun) \/ proc[a].pc \in Cancelling
              /\ proc'[a].pc \in Cancelling

Compacts(a) ==
  /\ proc'[a].role = "compact" \/ proc'[a].role = proc[a].role
  /\ \/ /\ At(a, "off") /\ proc'[a].pc = "tar" /\ proc'[a].role = "compact"
        /\ Compactable /\ archive = "none" /\ UNCHANGED files
     \/ At(a, "tar") /\ proc'[a].pc = "tarring" /\ archive' = "partial" /\ UNCHANGED profiles
     \/ At(a, "tarring") /\ proc'[a].pc = "rm" /\ archive' = profiles /\ UNCHANGED profiles
     \/ At(a, "rm") /\ proc'[a].pc = "removing" /\ profiles' = "partial" /\ UNCHANGED archive

Turn(a) ==
  /\ Only(a)
  /\ \/ Compacts(a)
     \/ At(a, "removing") /\ Ends(a) /\ profiles' = "gone" /\ UNCHANGED archive
     \/ /\ UNCHANGED files
        /\ \/ Ends(a) \/ Submits(a) \/ Looks(a) \/ Creates(a) \/ Inserts(a) \/ Serves(a)
           \/ Claims(a) \/ Forces(a) \/ Collects(a) \/ Cancels(a)

OneTurn == \/ UNCHANGED <<proc, files>>
           \/ proc' \in [Agents -> ProcRec] /\ \E a \in Agents : Turn(a)

NewRows(ids) ==
  [i \in DOMAIN ids |-> [job |-> ids[i], status |-> "pending", result_valid |-> FALSE]]

RowsMove ==
  \/ UNCHANGED rows
  \/ \E a \in Agents : /\ At(a, "insert") /\ proc'[a].pc = "preflight"
                       /\ rows = <<>> /\ rows' = NewRows(proc[a].plan.ids)
                       /\ IsInjective(proc[a].plan.ids)
  \/ /\ rows' \in [DOMAIN rows -> RowRec] /\ rows # <<>>
     /\ \A i \in DOMAIN rows : /\ rows'[i].job = rows[i].job
                               /\ rows'[i] = rows[i] \/ rows[i].status \in OPEN_STATUSES

RunMoves ==
  \/ UNCHANGED <<run, claims>>
  \/ \E a \in Agents : At(a, "create") /\ run = NoRun /\ run' = NewRun(a) /\ UNCHANGED claims
  \/ /\ run # NoRun /\ run' \in RunRec /\ run'.plan = run.plan
     /\ \/ run'.status \in {run.status, "cancelled"}
        \/ \E a \in Agents : proc[a].pc \in {"preflight", "start", "verdict"}
     /\ \/ UNCHANGED claims /\ run'.analysis = run.analysis
        \/ UNCHANGED claims /\ run'.analysis # "pending"
        \/ run.analysis = "pending" /\ run'.analysis # "pending" /\ claims' = claims + 1

AnalysisMoves ==
  \/ UNCHANGED analysis
  \/ \E a \in Agents : At(a, "finish") /\ analysis' = proc[a].found

-----------------------------------------------------------------------------
(* The invariants *)

(* The creator inserts what it recorded. *)
PlanInv == /\ \A a \in Agents : At(a, "insert") => proc[a].plan = run.plan
           /\ RowsAreOfTheRun

(* A granted claim is never to be had again. *)
ClaimInv == claims <= 1 /\ (run = NoRun \/ run.analysis = "pending" => claims = 0)

(* Until the rows are in, nobody else but a cancel deals with the run. *)
SoloInv ==
  \A a \in Agents :
    At(a, "insert") =>
      /\ rows = <<>> /\ run.status \in {"pending", "cancelled"}
      /\ \A b \in Agents \ {a} : proc[b].pc \in {"off"} \union Submitting \union Cancelling

(* Nothing of a settled run changes but its own record, its analysis and    *)
(* its files; whoever analyses it finds it settled.                         *)
Settled == run # NoRun /\ AllTerminal(rows) /\ \A a \in Agents : ~At(a, "insert")
Final(found) == found.status \in {"success", "empty"} => found.covers = Successes

FinalInv ==
  /\ \A a \in Agents : proc[a].pc \in {"collect", "finish"} => Settled
  /\ \A a \in Agents : At(a, "finish") => Final(proc[a].found)
  /\ analysis.status \in {"success", "empty"} => Settled /\ Final(analysis)

-----------------------------------------------------------------------------
(* Every action makes such a step. *)

LEMMA Fields ==
  ASSUME TypeInv
  PROVE  /\ \A a \in Agents : proc[a] \in ProcRec /\ ProcGood(proc[a])
         /\ \A a \in Agents : proc[a].pc \notin Submitting \union {"off"} => run # NoRun
         /\ run # NoRun => run \in RunRec
         /\ rows \in [DOMAIN rows -> RowRec] /\ DOMAIN rows \subseteq 1..MostRows
  <1>1. PICK n \in 0..MostRows : rows \in [1..n -> RowRec]
    BY DEF TypeInv, RowsTyped
  <1>2. rows \in [DOMAIN rows -> RowRec] /\ DOMAIN rows \subseteq 1..MostRows
    BY <1>1, BoundsAssumption
  <1> QED
    BY <1>2 DEF TypeInv, ProcsTyped, RunTyped, Recorded

LEMMA NoRows ==
  ASSUME NEW f \in [{} -> RowRec]
  PROVE  f = <<>>
  <1>1. f \in [1..0 -> RowRec]
    <2>1. 1..0 = {}
      OBVIOUS
    <2> QED
      BY <2>1
  <1>2. f \in Seq(RowRec)
    BY <1>1
  <1> QED
    BY <1>1, <1>2, EmptySeq

LEMMA NewRunTyped ==
  ASSUME NEW a, proc[a].plan \in Plans
  PROVE  NewRun(a) \in RunRec /\ NewRun(a) # NoRun /\ NewRun(a).plan = proc[a].plan
         /\ NewRun(a).status = "pending" /\ NewRun(a).analysis = "pending"
  BY DEF NewRun, RunRec, Life!RunStatuses, NoRun

(* No row goes without its type, changes its job, or leaves its end. *)
LEMMA RowsStep ==
  ASSUME TypeInv, [Next]_vars
  PROVE  RowsMove
  <1> USE DEF RowsMove, OPEN_STATUSES, ACTIVE_STATUSES
  <1>0. rows \in [DOMAIN rows -> RowRec] /\ DOMAIN rows \subseteq 1..MostRows
    BY Fields
  <1>1. ASSUME NEW a \in Agents, InsertJobs(a)
        PROVE  RowsMove
    <2>1. ASSUME Goto(a, "preflight")
          PROVE  proc'[a].pc = "preflight"
      BY <2>1, GotoDoes DEF TypeInv, ProcsTyped, Pcs
    <2> QED
      BY <1>1, <2>1 DEF InsertJobs, At, NewRows
  <1>2. ASSUME NEW a \in Agents, CancelRows(a)
        PROVE  RowsMove
    <2>1. CASE rows = <<>>
      <3>0. DOMAIN rows = {}
        BY <2>1
      <3>1. rows' \in [{} -> RowRec]
        BY <1>2, <3>0 DEF CancelRows, CancelPending
      <3> QED
        BY <2>1, <3>1, NoRows
    <2>2. CASE rows # <<>>
      BY <1>0, <1>2, <2>2 DEF CancelRows, CancelPending, RowRec, Statuses, TERMINAL_STATUSES
    <2> QED
      BY <2>1, <2>2
  <1>6. ASSUME NEW a \in Agents, CancelMark(a)
        PROVE  RowsMove
    <2>1. PICK i \in proc[a].todo :
            rows' = IF rows[i].status \in OPEN_STATUSES
                    THEN [rows EXCEPT ![i] = [rows[i] EXCEPT !.status = "cancelled"]] ELSE rows
      BY <1>6 DEF CancelMark, First, Transition
    <2>2. CASE i \in DOMAIN rows
      BY <1>0, <2>1, <2>2 DEF RowRec, Statuses, TERMINAL_STATUSES
    <2>3. CASE i \notin DOMAIN rows
      BY <1>0, <2>1, <2>3
    <2> QED
      BY <2>2, <2>3
  <1>3. ASSUME NEW i \in 1..MostRows, CaseStarts(i)
        PROVE  RowsMove
    BY <1>0, <1>3 DEF CaseStarts, RowRec, Statuses
  <1>4. ASSUME NEW i \in 1..MostRows, CaseEnds(i)
        PROVE  RowsMove
    <2>1. PICK result \in Results :
            /\ i \in DOMAIN rows /\ rows[i].status = "running"
            /\ rows' = [rows EXCEPT ![i].status = result.status, ![i].result_valid = result.result_valid]
      BY <1>4 DEF CaseEnds
    <2> QED
      BY <1>0, <2>1, ResultsAssumption DEF RowRec, Statuses, TERMINAL_STATUSES
  <1>5. ASSUME NEW i \in 1..MostRows, CaseIsLost(i)
        PROVE  RowsMove
    <2>1. PICK result \in {"lost", "pending"} :
            /\ i \in DOMAIN rows /\ rows[i].status = "running"
            /\ rows' = [rows EXCEPT ![i].status = result]
      BY <1>5 DEF CaseIsLost
    <2> QED
      BY <1>0, <2>1 DEF RowRec, Statuses, TERMINAL_STATUSES
  <1> QED
    BY <1>1, <1>2, <1>3, <1>4, <1>5, <1>6
    DEF Next, Step, vars, StartSubmit, StartWatch, StartResume, StartForce, StartCancel,
        StartCompact, Crash, CopyTemplates, LookUp, CreateRun, Preflight, MarkStarted, Loop,
        Finalize, RecordVerdict, Check, ReadAgain, MaybeAnalyze, Claim, Collect,
        FinishAnalysis, CancelScan, CancelRun, Tar, RemoveProfiles

(* The record of a run is made once, keeps its plan, and its analysis is    *)
(* never to be claimed again.                                               *)
LEMMA RunStep ==
  ASSUME TypeInv, [Next]_vars
  PROVE  RunMoves
  <1>0. /\ \A a \in Agents : proc[a] \in ProcRec /\ ProcGood(proc[a])
        /\ \A a \in Agents : proc[a].pc \notin Submitting \union {"off"} => run # NoRun
        /\ run # NoRun => run \in RunRec
    BY Fields
  <1> USE DEF RunMoves, RunRec, Life!RunStatuses, VERDICTS, ANALYSED, At, ProcGood, Submitting
  <1>1. ASSUME NEW a \in Agents, CreateRun(a)
        PROVE  RunMoves
    BY <1>1 DEF CreateRun
  <1>2. ASSUME NEW a \in Agents, Preflight(a)
        PROVE  RunMoves
    BY <1>0, <1>2 DEF Preflight
  <1>3. ASSUME NEW a \in Agents, MarkStarted(a)
        PROVE  RunMoves
    BY <1>0, <1>3 DEF MarkStarted
  <1>4. ASSUME NEW a \in Agents, RecordVerdict(a)
        PROVE  RunMoves
    BY <1>0, <1>4 DEF RecordVerdict
  <1>5. ASSUME NEW a \in Agents, Claim(a)
        PROVE  RunMoves
    BY <1>0, <1>5 DEF Claim
  <1>6. ASSUME NEW a \in Agents, StartForce(a)
        PROVE  RunMoves
    BY <1>0, <1>6 DEF StartForce
  <1>7. ASSUME NEW a \in Agents, FinishAnalysis(a)
        PROVE  RunMoves
    BY <1>0, <1>7 DEF FinishAnalysis
  <1>8. ASSUME NEW a \in Agents, CancelRun(a)
        PROVE  RunMoves
    BY <1>0, <1>8 DEF CancelRun
  <1>9. ASSUME UNCHANGED <<run, claims>>
        PROVE  RunMoves
    BY <1>9
  <1> HIDE DEF RunMoves
  <1> QED
    BY <1>1, <1>2, <1>3, <1>4, <1>5, <1>6, <1>7, <1>8, <1>9
    DEF Next, Step, vars, StartSubmit, StartWatch, StartResume, StartCancel,
        StartCompact, Crash, CopyTemplates, LookUp, InsertJobs, Loop,
        Finalize, Check, ReadAgain, MaybeAnalyze, Collect,
        CancelRows, CancelScan, CancelMark, Tar, RemoveProfiles, CaseStarts, CaseEnds, CaseIsLost

LEMMA AnalysisStep ==
  ASSUME TypeInv, [Next]_vars
  PROVE  AnalysisMoves /\ budget' \in 0..MaxFaults
  <1>1. AnalysisMoves
    BY DEF AnalysisMoves, At,
        Next, Step, vars, StartSubmit, StartWatch, StartResume, StartForce, StartCancel,
        StartCompact, Crash, CopyTemplates, LookUp, CreateRun, InsertJobs, Preflight,
        MarkStarted, Loop, Finalize, RecordVerdict, Check, ReadAgain, MaybeAnalyze, Claim,
        Collect, FinishAnalysis, CancelRows, CancelScan, CancelMark, CancelRun, Tar,
        RemoveProfiles, CaseStarts, CaseEnds, CaseIsLost
  <1>2. UNCHANGED budget \/ \E fault \in Faults : Spend(fault)
    BY DEF Free, Spend, Unserved,
        Next, Step, vars, StartSubmit, StartWatch, StartResume, StartForce, StartCancel,
        StartCompact, Crash, CopyTemplates, LookUp, CreateRun, InsertJobs, Preflight,
        MarkStarted, Loop, Finalize, RecordVerdict, Check, ReadAgain, MaybeAnalyze, Claim,
        Collect, FinishAnalysis, CancelRows, CancelScan, CancelMark, CancelRun, Tar,
        RemoveProfiles, CaseStarts, CaseEnds, CaseIsLost
  <1>3. budget' \in 0..MaxFaults
    BY <1>2, BoundsAssumption DEF Spend, TypeInv, RestTyped
  <1> QED
    BY <1>1, <1>3

(* The process of one agent takes a turn. *)
LEMMA TurnStep ==
  ASSUME TypeInv, [Next]_vars
  PROVE  OneTurn
  <1>0. /\ proc \in [Agents -> ProcRec]
        /\ \A a \in Agents : proc[a] \in ProcRec /\ ProcGood(proc[a])
        /\ \A a \in Agents : proc[a].pc \notin Submitting \union {"off"} => run # NoRun
    BY Fields DEF TypeInv, ProcsTyped
  <1>a. Submitting \union Serving \union Cancelling \union Compacting
          \union {"off", "insert", "preflight", "collect", "finish"} \subseteq Pcs
    BY DEF Pcs
  <1>b. {"none", "local", "slurm", "resume", "wrapper", "force", "cancel", "compact"} \subseteq Roles
    BY DEF Roles
  <1>quit. ASSUME NEW a \in Agents, Quit(a), UNCHANGED files
           PROVE  OneTurn
    BY <1>0, <1>quit, QuitDoes DEF OneTurn, Turn, Ends
  <1>off. ASSUME NEW a \in Agents, Goto(a, "off"), UNCHANGED files
          PROVE  OneTurn
    BY <1>0, <1>a, <1>off, GotoDoes DEF OneTurn, Turn, Ends
  <1>serve. ASSUME NEW a \in Agents, NEW pc \in Serving \ {"verdict"}, Goto(a, pc), UNCHANGED files,
                   proc[a].pc \in Serving \union {"preflight"},
                   pc \in {"finalize", "maybe"}
                     => proc[a].role \in {"slurm", "local", "resume", "wrapper"}
            PROVE  OneTurn
    <2>1. /\ proc' \in [Agents -> ProcRec] /\ Only(a) /\ proc'[a].pc = pc
          /\ proc'[a].role = proc[a].role
      BY <1>0, <1>a, <1>serve, GotoDoes DEF Serving
    <2>2. ProcGood(proc'[a])
      BY <2>1, <1>serve DEF ProcGood, Serving, Submitting
    <2> QED
      BY <1>serve, <2>1, <2>2 DEF OneTurn, Turn, Serves
  <1>come. ASSUME NEW a \in Agents, NEW role \in Roles, NEW pc \in {"start", "claim", "maybe"},
                  Become(a, role, pc), UNCHANGED files, run # NoRun,
                  "early" \in Faults \/ ~Creating \/ rows # <<>>,
                  pc = "maybe" => role = "wrapper"
           PROVE  OneTurn
    <2>1. /\ proc' \in [Agents -> ProcRec] /\ Only(a) /\ At(a, "off")
          /\ proc'[a].pc = pc /\ proc'[a].role = role
      BY <1>0, <1>a, <1>come, BecomeDoes DEF Serving, At
    <2>2. ProcGood(proc'[a]) /\ pc \in Serving
      BY <2>1, <1>come DEF ProcGood, Serving, Submitting
    <2> QED
      BY <1>come, <2>1, <2>2 DEF OneTurn, Turn, Serves
  <1>same. ASSUME UNCHANGED <<proc, files>>
           PROVE  OneTurn
    BY <1>same DEF OneTurn
  <1>u. Unserved => "early" \in Faults \/ ~Creating
    BY DEF Unserved, Spend
  <1>1. ASSUME NEW a \in Agents, StartSubmit(a)
        PROVE  OneTurn
    <2>1. PICK plan \in Plans :
            proc' = [proc EXCEPT ![a] = [Idle EXCEPT !.pc = "templates", !.plan = plan,
                                                     !.role = plan.arg.executor]]
      BY <1>1 DEF StartSubmit
    <2> DEFINE new == [Idle EXCEPT !.pc = "templates", !.plan = plan, !.role = plan.arg.executor]
    <2>2. new \in ProcRec /\ new.pc = "templates" /\ new.plan = plan
      BY IdleTyped, <1>a DEF ProcRec, Roles, Submitting
    <2>3. proc' = [proc EXCEPT ![a] = new]
      BY <2>1
    <2> HIDE DEF new
    <2>4. proc' \in [Agents -> ProcRec] /\ Only(a) /\ proc'[a] = new
      BY <1>0, <2>2, <2>3 DEF Only
    <2> QED
      BY <1>1, <2>2, <2>4 DEF OneTurn, Turn, Submits, StartSubmit
  <1>2. ASSUME NEW a \in Agents, CopyTemplates(a)
        PROVE  OneTurn
    <2>1. CASE Goto(a, "lookup")
      <3>1. "lookup" \in Pcs
        BY <1>a DEF Submitting
      <3>2. /\ proc' \in [Agents -> ProcRec] /\ Only(a) /\ proc'[a].pc = "lookup"
            /\ proc'[a].plan = proc[a].plan
        BY <1>0, <2>1, <3>1, GotoDoes
      <3> QED
        BY <1>2, <3>2 DEF OneTurn, Turn, Looks, CopyTemplates, At
    <2> QED
      BY <1>2, <2>1, <1>quit DEF CopyTemplates
  <1>3. ASSUME NEW a \in Agents, LookUp(a)
        PROVE  OneTurn
    <2>1. CASE Goto(a, "create")
      <3>1. "create" \in Pcs
        BY <1>a DEF Submitting
      <3>2. /\ proc' \in [Agents -> ProcRec] /\ Only(a) /\ proc'[a].pc = "create"
            /\ proc'[a].plan = proc[a].plan
        BY <1>0, <2>1, <3>1, GotoDoes
      <3> QED
        BY <1>3, <3>2 DEF OneTurn, Turn, Looks, LookUp, At
    <2> QED
      BY <1>3, <2>1, <1>quit DEF LookUp
  <1>4. ASSUME NEW a \in Agents, CreateRun(a)
        PROVE  OneTurn
    <2>1. CASE run = NoRun /\ run' = NewRun(a) /\ Goto(a, "insert")
      <3>1. /\ proc' \in [Agents -> ProcRec] /\ Only(a) /\ proc'[a].pc = "insert"
            /\ proc'[a].plan = proc[a].plan
        BY <1>0, <1>a, <2>1, GotoDoes
      <3> QED
        BY <1>4, <2>1, <3>1 DEF OneTurn, Turn, Creates, CreateRun
    <2> QED
      BY <1>4, <2>1, <1>quit DEF CreateRun
  <1>5. ASSUME NEW a \in Agents, InsertJobs(a)
        PROVE  OneTurn
    <2>1. CASE rows = <<>> /\ Goto(a, "preflight")
      <3>1. /\ proc' \in [Agents -> ProcRec] /\ Only(a) /\ proc'[a].pc = "preflight"
            /\ proc'[a].plan = proc[a].plan
        BY <1>0, <1>a, <2>1, GotoDoes
      <3> QED
        BY <1>5, <2>1, <3>1 DEF OneTurn, Turn, Inserts, InsertJobs
    <2> QED
      BY <1>5, <2>1, <1>quit DEF InsertJobs
  <1>6. ASSUME NEW a \in Agents, Preflight(a)
        PROVE  OneTurn
    BY <1>6, <1>quit, <1>serve DEF Preflight, At, Serving
  <1>7. ASSUME NEW a \in Agents, MarkStarted(a)
        PROVE  OneTurn
    <2>1. CASE proc[a].role = "resume" /\ Goto(a, "finalize")
      BY <1>7, <2>1, <1>serve DEF MarkStarted, At, Serving
    <2>2. CASE Goto(a, "loop")
      BY <1>7, <2>2, <1>serve DEF MarkStarted, At, Serving
    <2>3. CASE proc' = [proc EXCEPT ![a].plan = NoPlan]
      <3>1. proc[a] \in ProcRec /\ proc[a].pc = "start"
        BY <1>0, <1>7 DEF MarkStarted, At
      <3>2. /\ proc' \in [Agents -> ProcRec] /\ Only(a) /\ proc'[a].pc = "start"
        BY <1>0, <2>3, <3>1 DEF Only, ProcRec
      <3>3. ProcGood(proc'[a])
        BY <3>2 DEF ProcGood, Submitting
      <3> QED
        BY <1>7, <3>2, <3>3 DEF OneTurn, Turn, Serves, MarkStarted, At, Serving
    <2> QED
      BY <1>7, <2>1, <2>2, <2>3, <1>quit DEF MarkStarted
  <1>8. ASSUME NEW a \in Agents, Loop(a)
        PROVE  OneTurn
    <2>1. /\ proc[a].pc = "loop" /\ proc[a].role \in {"slurm", "local"} /\ UNCHANGED files
          /\ Goto(a, "again") \/ Goto(a, "finalize")
      BY <1>8 DEF Loop, At
    <2> QED
      BY <2>1, <1>serve DEF Serving
  <1>9. ASSUME NEW a \in Agents, Finalize(a)
        PROVE  OneTurn
    <2>0. /\ proc[a].pc = "finalize" /\ UNCHANGED files
          /\ proc[a].role \in {"slurm", "local", "resume", "wrapper"}
          /\ proc[a] \in ProcRec
      BY <1>0, <1>9 DEF Finalize, At, ProcGood
    <2>1. CASE Goto(a, AfterFinalize(a))
      <3>1. Goto(a, "check") \/ Goto(a, "again") \/ Goto(a, "off")
        BY <2>0, <2>1 DEF AfterFinalize
      <3> QED
        BY <2>0, <3>1, <1>serve, <1>off DEF Serving
    <2>2. CASE proc' = [proc EXCEPT ![a].pc = "verdict", ![a].verdict = Verdict(rows)]
      <3>1. Verdict(rows) \in VERDICTS /\ "verdict" \in Pcs
        BY <1>a DEF Verdict, VERDICTS, Serving
      <3>2. /\ proc' \in [Agents -> ProcRec] /\ Only(a) /\ proc'[a].pc = "verdict"
            /\ proc'[a].verdict = Verdict(rows) /\ proc'[a].role = proc[a].role
        BY <1>0, <2>0, <2>2, <3>1 DEF Only, ProcRec
      <3>3. ProcGood(proc'[a])
        BY <2>0, <3>1, <3>2 DEF ProcGood, Submitting
      <3> QED
        BY <2>0, <3>2, <3>3 DEF OneTurn, Turn, Serves, Serving
    <2> QED
      BY <1>9, <2>1, <2>2 DEF Finalize
  <1>10. ASSUME NEW a \in Agents, RecordVerdict(a)
         PROVE  OneTurn
    <2>0. /\ proc[a].pc = "verdict" /\ UNCHANGED files /\ Goto(a, AfterFinalize(a))
          /\ proc[a].role \in {"slurm", "local", "resume", "wrapper"}
      BY <1>0, <1>10 DEF RecordVerdict, At, ProcGood
    <2>1. Goto(a, "check") \/ Goto(a, "again") \/ Goto(a, "off")
      BY <2>0 DEF AfterFinalize
    <2> QED
      BY <2>0, <2>1, <1>serve, <1>off DEF Serving
  <1>11. ASSUME NEW a \in Agents, Check(a)
         PROVE  OneTurn
    <2>1. /\ proc[a].pc = "check" /\ UNCHANGED files
          /\ Goto(a, "claim") \/ Goto(a, "again") \/ Goto(a, "off") \/ Goto(a, "loop")
      BY <1>11 DEF Check, At
    <2> QED
      BY <2>1, <1>serve, <1>off DEF Serving
  <1>12. ASSUME NEW a \in Agents, ReadAgain(a)
         PROVE  OneTurn
    <2>1. /\ proc[a].pc = "again" /\ UNCHANGED files
          /\ Goto(a, "claim") \/ Goto(a, "off")
      BY <1>12 DEF ReadAgain, At
    <2> QED
      BY <2>1, <1>serve, <1>off DEF Serving
  <1>13. ASSUME NEW a \in Agents, MaybeAnalyze(a)
         PROVE  OneTurn
    <2>1. /\ proc[a].pc = "maybe" /\ UNCHANGED files
          /\ Goto(a, "finalize") \/ Goto(a, "off")
          /\ proc[a].role \in {"slurm", "local", "resume", "wrapper"}
      BY <1>0, <1>13 DEF MaybeAnalyze, At, ProcGood
    <2> QED
      BY <2>1, <1>serve, <1>off DEF Serving

  <1>14. ASSUME NEW a \in Agents, Claim(a)
         PROVE  OneTurn
    <2>1. CASE AllTerminal(rows) /\ Goto(a, "collect")
      <3>1. proc' \in [Agents -> ProcRec] /\ Only(a) /\ proc'[a].pc = "collect"
        BY <1>0, <1>a, <2>1, GotoDoes
      <3> QED
        BY <1>14, <2>1, <3>1 DEF OneTurn, Turn, Claims, Claim
    <2> QED
      BY <1>14, <2>1, <1>off DEF Claim
  <1>15. ASSUME NEW a \in Agents, StartForce(a)
         PROVE  OneTurn
    <2>1. /\ proc' \in [Agents -> ProcRec] /\ Only(a) /\ At(a, "off") /\ proc'[a].pc = "collect"
      BY <1>0, <1>a, <1>b, <1>15, BecomeDoes DEF StartForce, At
    <2> QED
      BY <1>15, <2>1 DEF OneTurn, Turn, Forces, StartForce, Spend
  <1>16. ASSUME NEW a \in Agents, Collect(a)
         PROVE  OneTurn
    <2>0. proc[a] \in ProcRec /\ "finish" \in Pcs
      BY <1>0, <1>a
    <2>1. PICK found :
            /\ proc' = [proc EXCEPT ![a].pc = "finish", ![a].found = found]
            /\ \/ found = [status |-> IF Successes = {} THEN "empty" ELSE "success",
                           covers |-> Successes]
               \/ found = [status |-> "error", covers |-> {}]
      BY <1>16 DEF Collect
    <2>2. Successes \in SUBSET (1..MostRows)
      BY Fields DEF Successes
    <2>3. /\ found \in Outcome /\ found.status \in ANALYSED
          /\ found.status \in {"success", "empty"} => found.covers = Successes
      <3>1. CASE found = [status |-> IF Successes = {} THEN "empty" ELSE "success",
                          covers |-> Successes]
        BY <2>2, <3>1 DEF Outcome, ANALYSED
      <3>2. CASE found = [status |-> "error", covers |-> {}]
        BY <3>2 DEF Outcome, ANALYSED
      <3> QED
        BY <2>1, <3>1, <3>2
    <2>4. /\ proc' \in [Agents -> ProcRec] /\ Only(a)
          /\ proc'[a].pc = "finish" /\ proc'[a].found = found
      BY <1>0, <2>0, <2>1, <2>3 DEF Only, ProcRec
    <2> QED
      BY <1>16, <2>3, <2>4 DEF OneTurn, Turn, Collects, Collect
  <1>17. ASSUME NEW a \in Agents, StartCancel(a)
         PROVE  OneTurn
    <2>0. "cancel" \in Pcs
      BY <1>a DEF Cancelling
    <2>1. /\ proc' \in [Agents -> ProcRec] /\ Only(a) /\ At(a, "off") /\ proc'[a].pc = "cancel"
      BY <1>0, <1>b, <1>17, <2>0, BecomeDoes DEF StartCancel, At
    <2> QED
      BY <1>17, <2>1 DEF OneTurn, Turn, Cancels, StartCancel, Cancelling
  <1>18. ASSUME NEW a \in Agents, CancelRows(a)
         PROVE  OneTurn
    <2>1. "cancel scan" \in Pcs
      BY <1>a DEF Cancelling
    <2>2. /\ proc' \in [Agents -> ProcRec] /\ Only(a) /\ proc'[a].pc = "cancel scan"
      BY <1>0, <1>18, <2>1, GotoDoes DEF CancelRows
    <2> QED
      BY <1>18, <2>2 DEF OneTurn, Turn, Cancels, CancelRows, Cancelling, At
  <1>28. ASSUME NEW a \in Agents, CancelScan(a) \/ CancelMark(a)
         PROVE  OneTurn
    <2>1. PICK todo \in SUBSET (1..MostRows) :
            proc' = [proc EXCEPT ![a].pc = "cancel mark", ![a].todo = todo]
      <3>1. CASE CancelScan(a)
        BY <3>1, Fields DEF CancelScan, WithStatus
      <3>2. CASE CancelMark(a)
        <4>1. PICK i : At(a, "cancel mark") /\ proc' = [proc EXCEPT ![a].todo = @ \ {i}]
          BY <3>2 DEF CancelMark
        <4>2. proc' = [proc EXCEPT ![a].pc = "cancel mark", ![a].todo = proc[a].todo \ {i}]
          BY <1>0, <4>1 DEF At, ProcRec
        <4> QED
          BY <1>0, <4>2 DEF ProcRec
      <3> QED
        BY <1>28, <3>1, <3>2
    <2>2. "cancel mark" \in Pcs
      BY <1>a DEF Cancelling
    <2>3. /\ proc' \in [Agents -> ProcRec] /\ Only(a) /\ proc'[a].pc = "cancel mark"
      BY <1>0, <2>1, <2>2 DEF Only, ProcRec
    <2> QED
      BY <1>28, <2>3 DEF OneTurn, Turn, Cancels, CancelScan, CancelMark, Cancelling, At
  <1>19. ASSUME NEW a \in Agents, StartCompact(a)
         PROVE  OneTurn
    <2>0. "tar" \in Pcs
      BY <1>a DEF Compacting
    <2>1. /\ proc' \in [Agents -> ProcRec] /\ Only(a) /\ At(a, "off")
          /\ proc'[a].pc = "tar" /\ proc'[a].role = "compact"
      BY <1>0, <1>b, <1>19, <2>0, BecomeDoes DEF StartCompact, At
    <2> QED
      BY <1>19, <2>1 DEF OneTurn, Turn, Compacts, StartCompact
  <1>20. ASSUME NEW a \in Agents, Tar(a)
         PROVE  OneTurn
    <2>0. {"tarring", "rm"} \subseteq Pcs
      BY <1>a DEF Compacting
    <2>1. ASSUME NEW pc \in {"tarring", "rm"}, Goto(a, pc)
          PROVE  /\ proc' \in [Agents -> ProcRec] /\ Only(a)
                 /\ proc'[a].pc = pc /\ proc'[a].role = proc[a].role
      BY <1>0, <2>0, <2>1, GotoDoes
    <2>2. CASE At(a, "tar") /\ archive' = "partial" /\ Goto(a, "tarring")
      BY <1>20, <2>1, <2>2 DEF OneTurn, Turn, Compacts, Tar
    <2>3. CASE At(a, "tarring") /\ archive' = profiles /\ Goto(a, "rm")
      BY <1>20, <2>1, <2>3 DEF OneTurn, Turn, Compacts, Tar
    <2>4. CASE Quit(a) /\ UNCHANGED archive
      BY <1>20, <2>4, <1>quit DEF Tar, files
    <2> QED
      BY <1>20, <2>2, <2>3, <2>4 DEF Tar
  <1>21. ASSUME NEW a \in Agents, RemoveProfiles(a)
         PROVE  OneTurn
    <2>1. CASE At(a, "rm") /\ profiles' = "partial" /\ Goto(a, "removing")
      <3>0. "removing" \in Pcs
        BY <1>a DEF Compacting
      <3>1. /\ proc' \in [Agents -> ProcRec] /\ Only(a)
            /\ proc'[a].pc = "removing" /\ proc'[a].role = proc[a].role
        BY <1>0, <2>1, <3>0, GotoDoes
      <3> QED
        BY <1>21, <2>1, <3>1 DEF OneTurn, Turn, Compacts, RemoveProfiles
    <2>2. CASE At(a, "removing") /\ profiles' = "gone" /\ Quit(a)
      BY <1>0, <1>21, <2>2, QuitDoes DEF OneTurn, Turn, Ends, RemoveProfiles
    <2> QED
      BY <1>21, <2>1, <2>2 DEF RemoveProfiles
  <1>22. ASSUME NEW a \in Agents, StartWatch(a)
         PROVE  OneTurn
    BY <1>22, <1>b, <1>u, <1>come DEF StartWatch
  <1>23. ASSUME NEW a \in Agents, StartResume(a)
         PROVE  OneTurn
    BY <1>23, <1>b, <1>u, <1>come DEF StartResume
  <1>24. ASSUME NEW i \in 1..MostRows, CaseEnds(i)
         PROVE  OneTurn
    <2>1. /\ i \in Agents /\ rows # <<>> /\ run # NoRun /\ Become(i, "wrapper", "maybe")
          /\ UNCHANGED files
      BY <1>24 DEF CaseEnds, Agents, TypeInv, Recorded
    <2> QED
      BY <2>1, <1>b, <1>come
  <1> HIDE DEF OneTurn
  <1>25. ASSUME NEW a \in Agents, FinishAnalysis(a) \/ CancelRun(a) \/ Crash(a)
         PROVE  OneTurn
    BY <1>25, <1>quit DEF FinishAnalysis, CancelRun, Crash
  <1>26. ASSUME NEW i \in 1..MostRows, CaseStarts(i) \/ CaseIsLost(i)
         PROVE  OneTurn
    BY <1>26, <1>same DEF CaseStarts, CaseIsLost
  <1>27. ASSUME UNCHANGED vars
         PROVE  OneTurn
    BY <1>27, <1>same DEF vars, files
  <1> QED
    BY <1>1, <1>2, <1>3, <1>4, <1>5, <1>6, <1>7, <1>8, <1>9, <1>10, <1>11, <1>12, <1>13, <1>14,
       <1>15, <1>16, <1>17, <1>18, <1>19, <1>20, <1>21, <1>22, <1>23, <1>24, <1>25, <1>26, <1>27,
       <1>28
    DEF Next, Step

-----------------------------------------------------------------------------
(* Type correctness *)

LEMMA InitTypes == Init => TypeInv
  <1> SUFFICES ASSUME Init PROVE TypeInv
    OBVIOUS
  <1>1. RunTyped /\ Recorded
    BY DEF Init, RunTyped, Recorded, Idle, Submitting
  <1>2. RowsTyped
    <2>1. rows \in [1..0 -> RowRec]
      BY DEF Init
    <2> QED
      BY <2>1, BoundsAssumption DEF RowsTyped
  <1>3. ProcsTyped
    BY IdleTyped DEF Init, ProcsTyped
  <1>4. RestTyped
    BY IdleTyped, BoundsAssumption DEF Init, RestTyped
  <1>5. CompactInv
    BY IdleTyped DEF Init, CompactInv, Compacting, At
  <1> QED
    BY <1>1, <1>2, <1>3, <1>4, <1>5 DEF TypeInv

LEMMA NewRowsTyped ==
  ASSUME NEW a \in Agents, TypeInv, At(a, "insert")
  PROVE  /\ \E n \in 0..MostRows : NewRows(proc[a].plan.ids) \in [1..n -> RowRec]
         /\ DOMAIN NewRows(proc[a].plan.ids) = DOMAIN proc[a].plan.ids
         /\ \A i \in DOMAIN proc[a].plan.ids :
              /\ NewRows(proc[a].plan.ids)[i].job = proc[a].plan.ids[i]
              /\ NewRows(proc[a].plan.ids)[i].status = "pending"
  <1> DEFINE ids == proc[a].plan.ids
  <1>1. ids \in Seq(DOMAIN Universe) /\ Len(ids) \in 0..MostRows
    BY SelectionAssumption, BoundsAssumption DEF At, TypeInv, ProcsTyped, ProcGood
  <1>2. DOMAIN ids = 1..Len(ids) /\ \A i \in DOMAIN ids : ids[i] \in DOMAIN Universe
    BY <1>1
  <1> HIDE DEF ids
  <1>3. NewRows(ids) \in [1..Len(ids) -> RowRec]
    BY <1>2 DEF NewRows, RowRec, Statuses
  <1>4. /\ DOMAIN NewRows(ids) = DOMAIN ids
        /\ \A i \in DOMAIN ids : /\ NewRows(ids)[i].job = ids[i]
                                 /\ NewRows(ids)[i].status = "pending"
    BY DEF NewRows
  <1> QED
    BY <1>1, <1>3, <1>4 DEF ids

(* A compaction packs profiles that are whole, and removes what is packed.  *)
LEMMA StepCompacts ==
  ASSUME TypeInv, OneTurn
  PROVE  CompactInv' /\ archive' \in {"none", "partial", "full"}
                     /\ profiles' \in {"full", "partial", "gone"}
  <1>0. CompactInv /\ archive \in {"none", "partial", "full"}
                   /\ profiles \in {"full", "partial", "gone"}
    BY DEF TypeInv, RestTyped
  <1>1. CASE UNCHANGED <<proc, files>>
    BY <1>0, <1>1 DEF CompactInv, files, At
  <1>2. ASSUME NEW a \in Agents, Turn(a)
        PROVE  CompactInv' /\ archive' \in {"none", "partial", "full"}
                           /\ profiles' \in {"full", "partial", "gone"}
    <2>0. \A b \in Agents \ {a} : proc'[b] = proc[b]
      BY <1>2 DEF Turn, Only
    <2>1. CASE Compacts(a)
      <3>1. CASE At(a, "off")
        <4>1. \A b \in Agents \ {a} : proc[b].pc \notin Compacting
          BY <1>0, <2>1, <3>1 DEF Compacts, Compactable, CompactInv, At
        <4> QED
          BY <1>0, <2>0, <2>1, <3>1, <4>1 DEF Compacts, CompactInv, files, At, Compacting
      <3>2. CASE proc[a].pc \in Compacting
        <4>1. \A b \in Agents \ {a} : proc[b].pc \notin Compacting
          BY <1>0, <3>2 DEF CompactInv
        <4> QED
          BY <1>0, <2>0, <2>1, <3>2, <4>1 DEF Compacts, CompactInv, At, Compacting
      <3> QED
        BY <2>1, <3>1, <3>2 DEF Compacts, At, Compacting
    <2>2. CASE At(a, "removing") /\ Ends(a) /\ profiles' = "gone" /\ UNCHANGED archive
      BY <1>0, <2>0, <2>2, IdleTyped DEF CompactInv, At, Compacting, Ends
    <2>3. CASE UNCHANGED files /\ proc'[a].pc \notin Compacting
      BY <1>0, <2>0, <2>3 DEF CompactInv, At, Compacting, files
    <2>4. \/ Ends(a) \/ Submits(a) \/ Looks(a) \/ Creates(a) \/ Inserts(a) \/ Serves(a)
          \/ Claims(a) \/ Forces(a) \/ Collects(a) \/ Cancels(a)
          => proc'[a].pc \notin Compacting
      BY IdleTyped
      DEF Ends, Submits, Looks, Creates, Inserts, Serves, Claims, Forces, Collects, Cancels,
          Compacting, Serving, Cancelling
    <2> QED
      BY <1>2, <2>1, <2>2, <2>3, <2>4 DEF Turn
  <1> QED
    BY <1>1, <1>2 DEF OneTurn

LEMMA StepTypes ==
  ASSUME TypeInv, [Next]_vars
  PROVE  TypeInv'
  <1>1. OneTurn /\ RowsMove /\ RunMoves /\ AnalysisMoves /\ budget' \in 0..MaxFaults
    BY TurnStep, RowsStep, RunStep, AnalysisStep
  <1>2. /\ proc \in [Agents -> ProcRec]
        /\ \A a \in Agents : proc[a] \in ProcRec /\ ProcGood(proc[a])
        /\ \A a \in Agents : proc[a].pc \notin Submitting \union {"off"} => run # NoRun
        /\ rows \in [DOMAIN rows -> RowRec]
    BY Fields DEF TypeInv, ProcsTyped
  <1>3. RunTyped'
    <2>1. ASSUME NEW a \in Agents, At(a, "create"), run' = NewRun(a)
          PROVE  RunTyped'
      BY <1>2, <2>1, NewRunTyped DEF RunTyped, At, ProcGood, Submitting
    <2> QED
      BY <1>1, <2>1 DEF RunMoves, RunTyped, TypeInv
  <1>4. RowsTyped'
    <2>1. CASE UNCHANGED rows
      BY <2>1 DEF TypeInv, RowsTyped
    <2>2. ASSUME NEW a \in Agents, At(a, "insert"), rows' = NewRows(proc[a].plan.ids)
          PROVE  RowsTyped'
      BY <2>2, NewRowsTyped DEF RowsTyped
    <2>3. CASE rows' \in [DOMAIN rows -> RowRec]
      <3>1. PICK n \in 0..MostRows : rows \in [1..n -> RowRec]
        BY DEF TypeInv, RowsTyped
      <3>2. rows' \in [1..n -> RowRec]
        BY <2>3, <3>1
      <3> QED
        BY <3>2 DEF RowsTyped
    <2> QED
      BY <1>1, <2>1, <2>2, <2>3 DEF RowsMove
  <1>5. ProcsTyped'
    <2>1. CASE UNCHANGED proc
      BY <1>2, <2>1 DEF ProcsTyped
    <2>2. ASSUME NEW a \in Agents, Turn(a), proc' \in [Agents -> ProcRec]
          PROVE  ProcsTyped'
      <3>1. ProcGood(proc'[a])
        <4>1. CASE Ends(a)
          BY <4>1, IdleTyped DEF Ends
        <4>2. CASE Submits(a) \/ Looks(a) \/ Creates(a) \/ Inserts(a)
          BY <1>2, <4>2 DEF Submits, Looks, Creates, Inserts, At, ProcGood, Submitting
        <4>3. CASE Serves(a)
          BY <4>3 DEF Serves
        <4>4. CASE Claims(a) \/ Forces(a) \/ Collects(a) \/ Cancels(a) \/ Compacts(a)
          BY <4>4 DEF Claims, Forces, Collects, Cancels, Compacts, ProcGood, Submitting, Cancelling
        <4> QED
          BY <2>2, <4>1, <4>2, <4>3, <4>4 DEF Turn
      <3> QED
        BY <1>2, <2>2, <3>1 DEF ProcsTyped, Turn, Only
    <2> QED
      BY <1>1, <2>1, <2>2 DEF OneTurn
  <1>6. RestTyped'
    <2>1. analysis' \in Outcome
      BY <1>1, <1>2 DEF AnalysisMoves, ProcRec, TypeInv, RestTyped
    <2>2. claims' \in Nat
      BY <1>1 DEF RunMoves, TypeInv, RestTyped
    <2>3. profiles' \in {"full", "partial", "gone"} /\ archive' \in {"none", "partial", "full"}
      BY <1>1, StepCompacts
    <2> QED
      BY <1>1, <2>1, <2>2, <2>3 DEF RestTyped
  <1>7. Recorded'
    <2>1. run # NoRun => run' # NoRun
      BY <1>1, <1>2, NewRunTyped DEF RunMoves, RunRec, NoRun, Life!RunStatuses
    <2>2. rows' # <<>> => run' # NoRun
      <3>1. CASE rows # <<>>
        BY <2>1, <3>1 DEF TypeInv, Recorded
      <3>2. CASE \E a \in Agents : At(a, "insert")
        BY <1>2, <2>1, <3>2 DEF At, Submitting
      <3>3. CASE rows = <<>> /\ rows' \in [DOMAIN rows -> RowRec]
        <4>1. DOMAIN rows = {}
          BY <3>3
        <4> QED
          BY <3>3, <4>1, NoRows
      <3> QED
        BY <1>1, <3>1, <3>2, <3>3 DEF RowsMove
    <2>3. ASSUME NEW b \in Agents, proc'[b].pc \notin Submitting \union {"off"}
          PROVE  run' # NoRun
      <3>1. CASE proc'[b] = proc[b]
        BY <1>2, <2>1, <2>3, <3>1
      <3>2. CASE Turn(b)
        <4>1. CASE Creates(b)
          BY <1>2, <4>1, NewRunTyped DEF Creates, At, ProcGood, Submitting
        <4>2. CASE Ends(b) \/ Submits(b) \/ Looks(b)
          BY <2>3, <4>2, IdleTyped DEF Ends, Submits, Looks, Submitting
        <4>3. CASE \/ Inserts(b) \/ Serves(b) \/ Claims(b) \/ Forces(b) \/ Collects(b)
                   \/ Cancels(b) \/ Compacts(b)
          BY <1>2, <2>1, <4>3
          DEF Inserts, Serves, Claims, Forces, Collects, Cancels, Compacts, Compactable, At,
              Submitting, Serving, Cancelling
        <4> QED
          BY <3>2, <4>1, <4>2, <4>3 DEF Turn
      <3> QED
        BY <1>1, <3>1, <3>2 DEF OneTurn, Turn, Only
    <2> QED
      BY <2>2, <2>3 DEF Recorded
  <1> QED
    BY <1>1, <1>3, <1>4, <1>5, <1>6, <1>7, StepCompacts DEF TypeInv

(* The record of the run, its rows, the analysis and the run's directory    *)
(* are at all times what the columns and the files may hold, for every      *)
(* number of cases and of commands (matrix_db.py, compact_run_directory).   *)
THEOREM RecordTypes == Spec => []TypeOK
  <1>1. Init => TypeInv
    BY InitTypes
  <1>2. TypeInv /\ [Next]_vars => TypeInv'
    BY StepTypes
  <1>3. TypeInv => TypeOK
    <2> SUFFICES ASSUME TypeInv PROVE TypeOK
      OBVIOUS
    <2>1. PICK n \in 0..MostRows : rows \in [1..n -> RowRec]
      BY DEF TypeInv, RowsTyped
    <2>2. /\ DOMAIN rows \in {1..m : m \in 0..MostRows}
          /\ \A i \in DOMAIN rows : rows[i] \in RowRec
      BY <2>1
    <2> QED
      BY <2>2 DEF TypeInv, RunTyped, RunRec, RestTyped, TypeOK, RowRec
  <1> QED
    BY <1>1, <1>2, <1>3, PTL DEF Spec

LEMMA TypesHold == Spec => []TypeInv
  BY InitTypes, StepTypes, PTL DEF Spec

(* However a compaction fails, dies or is repeated, the profiles of the run *)
(* are whole in its directory or whole in its archive                       *)
(* (compact_run_directory): ProfilesKept.                                   *)
THEOREM RecordProfiles == Spec => []ProfilesKept
  <1>1. TypeInv => ProfilesKept
    BY DEF TypeInv, CompactInv, ProfilesKept
  <1> QED
    BY <1>1, TypesHold, PTL

-----------------------------------------------------------------------------
(* One submission, one claim *)

LEMMA StepPlan ==
  ASSUME TypeInv, PlanInv, [Next]_vars
  PROVE  PlanInv'
  <1>1. OneTurn /\ RowsMove /\ RunMoves /\ TypeInv'
    BY TurnStep, RowsStep, RunStep, StepTypes
  <1>2. /\ \A a \in Agents : proc[a] \in ProcRec /\ ProcGood(proc[a])
        /\ \A a \in Agents : proc[a].pc \notin Submitting \union {"off"} => run # NoRun
        /\ run # NoRun => run \in RunRec
    BY Fields
  <1>3. run # NoRun => run' # NoRun /\ run'.plan = run.plan
    BY <1>1, <1>2, NewRunTyped DEF RunMoves, RunRec, NoRun, Life!RunStatuses
  <1>4. \A a \in Agents : At(a, "insert")' => proc'[a].plan = run'.plan
    <2> SUFFICES ASSUME NEW a \in Agents, proc'[a].pc = "insert"
                 PROVE  proc'[a].plan = run'.plan
      BY DEF At
    <2>1. CASE proc'[a] = proc[a]
      BY <1>2, <1>3, <2>1 DEF PlanInv, At, Submitting
    <2>2. CASE Turn(a)
      <3>1. Creates(a)
        BY <2>2, IdleTyped
        DEF Turn, Ends, Submits, Looks, Inserts, Serves, Claims, Forces, Collects, Cancels, Compacts,
            Serving, Cancelling
      <3> QED
        BY <1>2, <3>1, NewRunTyped DEF Creates, At, ProcGood, Submitting
    <2> QED
      BY <1>1, <2>1, <2>2 DEF OneTurn, Turn, Only
  <1>5. RowsAreOfTheRun'
    <2>1. CASE rows' = rows \/ (rows # <<>> /\ rows' \in [DOMAIN rows -> RowRec])
      <3>1. rows # <<>> =>
              [i \in DOMAIN rows' |-> rows'[i].job] = [i \in DOMAIN rows |-> rows[i].job]
        BY <1>1, <2>1 DEF RowsMove
      <3> QED
        BY <1>3, <2>1, <3>1 DEF PlanInv, RowsAreOfTheRun, RowIds
    <2>2. ASSUME NEW a \in Agents, At(a, "insert"), rows' = NewRows(proc[a].plan.ids)
          PROVE  RowsAreOfTheRun'
      <3> DEFINE ids == proc[a].plan.ids
      <3>1. /\ run # NoRun /\ run.plan.ids = ids
            /\ ids \in Seq(DOMAIN Universe)
        BY <1>2, <2>2, SelectionAssumption DEF PlanInv, At, ProcGood, Submitting
      <3>2. RowIds' = [i \in DOMAIN ids |-> ids[i]]
        BY <2>2, NewRowsTyped DEF RowIds
      <3>3. [i \in DOMAIN ids |-> ids[i]] = ids
        BY <3>1
      <3> QED
        BY <1>3, <3>1, <3>2, <3>3 DEF RowsAreOfTheRun
    <2>3. CASE rows = <<>> /\ rows' \in [DOMAIN rows -> RowRec]
      <3>1. DOMAIN rows = {}
        BY <2>3
      <3> QED
        BY <2>3, <3>1, NoRows DEF RowsAreOfTheRun
    <2> QED
      BY <1>1, <2>1, <2>2, <2>3 DEF RowsMove
  <1> QED
    BY <1>4, <1>5 DEF PlanInv

(* Whoever else submits under the same run id at the same time, and         *)
(* wherever one of them fails, the rows of the run are those its record     *)
(* announces, all of them or none (create_run, insert_jobs):                *)
(* RowsAreOfTheRun.                                                         *)
THEOREM RecordRows == Spec => []RowsAreOfTheRun
  <1>1. Init => PlanInv
    BY IdleTyped DEF Init, PlanInv, RowsAreOfTheRun, At
  <1>2. TypeInv /\ PlanInv /\ [Next]_vars => PlanInv'
    BY StepPlan
  <1>3. PlanInv => RowsAreOfTheRun
    BY DEF PlanInv
  <1> QED
    BY <1>1, <1>2, <1>3, TypesHold, PTL DEF Spec

(* However many wrappers, watches, resumes and schedulers find the run      *)
(* finished, and whatever kills them, one of them at most is granted its    *)
(* analysis (claim_analysis): AnalysedOnce.                                 *)
THEOREM RecordClaim == Spec => []AnalysedOnce
  <1>1. Init => ClaimInv
    BY DEF Init, ClaimInv
  <1>2. ASSUME TypeInv, ClaimInv, [Next]_vars
        PROVE  ClaimInv'
    <2>1. RunMoves /\ claims \in Nat
      BY <1>2, RunStep DEF TypeInv, RestTyped
    <2>2. CASE UNCHANGED <<run, claims>>
      BY <1>2, <2>2 DEF ClaimInv
    <2>3. CASE run = NoRun /\ UNCHANGED claims
      BY <1>2, <2>1, <2>3 DEF ClaimInv
    <2>4. ASSUME run # NoRun, run' \in RunRec,
                 \/ UNCHANGED claims /\ run'.analysis = run.analysis
                 \/ UNCHANGED claims /\ run'.analysis # "pending"
                 \/ run.analysis = "pending" /\ run'.analysis # "pending" /\ claims' = claims + 1
          PROVE  ClaimInv'
      <3>1. run' # NoRun
        BY <2>4 DEF RunRec, NoRun, Life!RunStatuses
      <3> QED
        BY <1>2, <2>1, <2>4, <3>1 DEF ClaimInv
    <2> QED
      BY <2>1, <2>2, <2>3, <2>4 DEF RunMoves
  <1>3. ClaimInv => AnalysedOnce
    BY DEF ClaimInv, AnalysedOnce
  <1> QED
    BY <1>1, <1>2, <1>3, TypesHold, PTL DEF Spec

-----------------------------------------------------------------------------
(* The recorded analysis is of the final rows *)

LEMMA StepSolo ==
  ASSUME "early" \notin Faults, TypeInv, SoloInv, [Next]_vars
  PROVE  SoloInv'
  <1>1. OneTurn /\ RowsMove /\ RunMoves
    BY TurnStep, RowsStep, RunStep
  <1>2. /\ \A a \in Agents : proc[a] \in ProcRec /\ ProcGood(proc[a])
        /\ \A a \in Agents : proc[a].pc \notin Submitting \union {"off"} => run # NoRun
        /\ run # NoRun => run \in RunRec
    BY Fields
  <1> SUFFICES ASSUME NEW a \in Agents, proc'[a].pc = "insert"
               PROVE  /\ rows' = <<>> /\ run'.status \in {"pending", "cancelled"}
                      /\ \A b \in Agents \ {a} :
                           proc'[b].pc \in {"off"} \union Submitting \union Cancelling
    BY DEF SoloInv, At
  <1>3. CASE Turn(a)
    <2>1. Creates(a)
      BY <1>3, IdleTyped
      DEF Turn, Ends, Submits, Looks, Inserts, Serves, Claims, Forces, Collects, Cancels, Compacts,
          Serving, Cancelling
    <2>2. run = NoRun /\ run'.status = "pending" /\ rows = <<>>
      BY <1>2, <2>1, NewRunTyped DEF Creates, At, ProcGood, Submitting, TypeInv, Recorded
    <2>3. rows' = <<>>
      <3>1. \A b \in Agents : ~At(b, "insert")
        BY <1>2, <2>2 DEF At, Submitting
      <3>2. DOMAIN rows = {}
        BY <2>2
      <3> QED
        BY <1>1, <2>2, <3>1, <3>2, NoRows DEF RowsMove
    <2> QED
      BY <1>2, <1>3, <2>2, <2>3 DEF Turn, Only
  <1>4. CASE proc'[a] = proc[a]
    <2>1. /\ rows = <<>> /\ run.status \in {"pending", "cancelled"} /\ run # NoRun
          /\ \A b \in Agents \ {a} : proc[b].pc \in {"off"} \union Submitting \union Cancelling
          /\ At(a, "insert") /\ Creating
      BY <1>2, <1>4 DEF SoloInv, At, Submitting, Creating
    <2>2. ASSUME NEW b \in Agents \ {a}, Turn(b)
          PROVE  proc'[b].pc \in {"off"} \union Submitting \union Cancelling
      BY <2>1, <2>2, IdleTyped
      DEF Turn, Ends, Submits, Looks, Creates, Inserts, Serves, Claims, Forces, Collects, Cancels,
          Compacts, Compactable, VERDICTS, At, Submitting, Serving, Cancelling
    <2>3. \A b \in Agents \ {a} : proc'[b].pc \in {"off"} \union Submitting \union Cancelling
      BY <1>1, <2>1, <2>2 DEF OneTurn, Turn, Only
    <2>4. run'.status \in {"pending", "cancelled"}
      <3>1. \A b \in Agents : proc[b].pc \notin {"preflight", "start", "verdict"}
        BY <2>1 DEF At, Submitting, Cancelling
      <3> QED
        BY <1>1, <2>1, <3>1 DEF RunMoves
    <2>5. rows' = <<>>
      <3>1. DOMAIN rows = {}
        BY <2>1
      <3>2. \A b \in Agents : At(b, "insert") => proc'[b].pc # "preflight"
        BY <1>4, <2>1 DEF At, Submitting, Cancelling
      <3> QED
        BY <1>1, <2>1, <3>1, <3>2, NoRows DEF RowsMove
    <2> QED
      BY <2>3, <2>4, <2>5
  <1> QED
    BY <1>1, <1>3, <1>4 DEF OneTurn, Turn, Only

(* A settled run stays so, with the same rows. *)
LEMMA SettledStays ==
  ASSUME TypeInv, Settled, [Next]_vars
  PROVE  Settled' /\ rows' = rows
  <1>1. OneTurn /\ RowsMove /\ RunMoves
    BY TurnStep, RowsStep, RunStep
  <1>2. /\ run # NoRun => run \in RunRec
        /\ rows \in [DOMAIN rows -> RowRec]
    BY Fields
  <1>3. run' # NoRun
    BY <1>1, <1>2 DEF Settled, RunMoves, RunRec, NoRun, Life!RunStatuses
  <1>4. rows' = rows
    <2>1. \A i \in DOMAIN rows : rows[i].status \notin OPEN_STATUSES
      BY DEF Settled, AllTerminal, Terminal, TERMINAL_STATUSES, OPEN_STATUSES, ACTIVE_STATUSES
    <2>2. CASE rows' \in [DOMAIN rows -> RowRec] /\ \A i \in DOMAIN rows : rows'[i] = rows[i]
      BY <1>2, <2>2
    <2> QED
      BY <1>1, <2>1, <2>2 DEF RowsMove, Settled
  <1>5. ASSUME NEW b \in Agents
        PROVE  proc'[b].pc # "insert"
    <2>1. Turn(b) => proc'[b].pc # "insert"
      BY IdleTyped
      DEF Settled, Turn, Ends, Submits, Looks, Creates, Inserts, Serves, Claims, Forces, Collects,
          Cancels, Compacts, Serving, Cancelling
    <2> QED
      BY <1>1, <2>1 DEF OneTurn, Turn, Only, Settled, At
  <1> QED
    BY <1>3, <1>4, <1>5 DEF Settled, AllTerminal, Terminal, At

LEMMA StepFinal ==
  ASSUME "early" \notin Faults, "premature" \notin Faults, TypeInv, SoloInv, FinalInv, [Next]_vars
  PROVE  FinalInv'
  <1>1. OneTurn /\ AnalysisMoves
    BY TurnStep, AnalysisStep
  <1>2. \A a \in Agents : proc[a].pc \notin Submitting \union {"off"} => run # NoRun
    BY Fields
  <1>3. Settled => Settled' /\ Successes' = Successes
    BY SettledStays DEF Successes
  <1>4. ASSUME NEW a \in Agents, proc'[a].pc \in {"collect", "finish"}
        PROVE  Settled /\ (proc'[a].pc = "finish" => Final(proc'[a].found))
    <2>1. CASE proc'[a] = proc[a]
      BY <1>4, <2>1 DEF FinalInv, At
    <2>2. CASE Turn(a)
      <3>1. Claims(a) \/ Forces(a) \/ Collects(a)
        BY <1>4, <2>2, IdleTyped
        DEF Turn, Ends, Submits, Looks, Creates, Inserts, Serves, Cancels, Compacts,
            Serving, Cancelling
      <3>2. CASE Claims(a)
        BY <1>2, <3>2 DEF Claims, SoloInv, Settled, At, Submitting, Cancelling
      <3>3. CASE Forces(a)
        BY <3>3 DEF Forces, Creating, Settled, At
      <3>4. CASE Collects(a)
        BY <3>4 DEF Collects, FinalInv, Final, At
      <3> QED
        BY <3>1, <3>2, <3>3, <3>4 DEF Claims, Forces
    <2> QED
      BY <1>1, <2>1, <2>2 DEF OneTurn, Turn, Only
  <1>5. analysis'.status \in {"success", "empty"} => Settled /\ Final(analysis')
    BY <1>1 DEF AnalysisMoves, FinalInv, At
  <1> QED
    BY <1>3, <1>4, <1>5 DEF FinalInv, Final, At

(* If nobody deals with a run while it is being created, and nobody forces  *)
(* an analysis while its cases go on, the analysis on record covers exactly *)
(* the cases that succeeded with a result, all cases have ended, and this   *)
(* stays so, whoever is killed and however often the analysis is forced     *)
(* once they have (claim_analysis, analyze_run): SummaryIsFinal.  It fails  *)
(* under either of the two.                                                 *)
THEOREM RecordSummary ==
  ASSUME "early" \notin Faults, "premature" \notin Faults
  PROVE  Spec => []SummaryIsFinal
  <1>1. Init => SoloInv /\ FinalInv
    BY IdleTyped DEF Init, SoloInv, FinalInv, NoAnalysis, At
  <1>2. TypeInv /\ SoloInv /\ FinalInv /\ [Next]_vars => SoloInv' /\ FinalInv'
    BY StepSolo, StepFinal
  <1>3. FinalInv => SummaryIsFinal
    BY DEF FinalInv, Settled, Final, SummaryIsFinal
  <1> QED
    BY <1>1, <1>2, <1>3, TypesHold, PTL DEF Spec

-----------------------------------------------------------------------------
(* Keep and Unique *)

(* The elements of Keep(items, wanted) and their places in items, after n   *)
(* turns of the loop.                                                       *)
IsKept(s, at, items, n, wanted) ==
  /\ at \in [DOMAIN s -> 1..n] /\ Increasing(at)
  /\ \A p \in DOMAIN s : s[p] = items[at[p]] /\ s[p] \in wanted
  /\ \A i \in 1..n : items[i] \in wanted => \E p \in DOMAIN s : at[p] = i

KeepLoop(f, A, items, wanted) ==
  /\ f \in [0..Len(items) -> Seq(A)] /\ f[0] = <<>>
  /\ \A i \in 1..Len(items) :
       f[i] = IF items[i] \in wanted THEN Append(f[i - 1], items[i]) ELSE f[i - 1]
  /\ Keep(items, wanted) = f[Len(items)]

LEMMA KeepTrace ==
  ASSUME NEW A, NEW items \in Seq(A), NEW wanted
  PROVE  \E f : KeepLoop(f, A, items, wanted)
  <1> DEFINE n == Len(items)
             step == [i \in 1..n |-> [s \in Seq(A) |->
                        IF items[i] \in wanted THEN Append(s, items[i]) ELSE s]]
             kept == CHOOSE f : f = [k \in 0..Len(items) |->
                        IF k = 0 THEN <<>>
                        ELSE IF items[k] \in wanted THEN Append(f[k - 1], items[k])
                        ELSE f[k - 1]]
  <1>1. /\ n \in Nat /\ step \in [1..n -> [Seq(A) -> Seq(A)]] /\ <<>> \in Seq(A)
        /\ \A i \in 1..n, s \in Seq(A) :
             step[i][s] = IF items[i] \in wanted THEN Append(s, items[i]) ELSE s
    OBVIOUS
  <1>2. Keep(items, wanted) = kept[n]
    BY DEF Keep
  <1> HIDE DEF step
  <1>3. PICK f : IsTrace(f, n, Seq(A), <<>>, step)
    <2> DEFINE S == Seq(A)
    <2>1. n \in Nat /\ <<>> \in S /\ step \in [1..n -> [S -> S]]
      BY <1>1
    <2> HIDE DEF S, n
    <2>2. \E f : IsTrace(f, n, S, <<>>, step)
      BY <2>1, Trace
    <2> QED
      BY <2>2 DEF S, n
  <1>4. f \in [0..n -> Seq(A)] /\ f[0] = <<>>
    BY <1>3 DEF IsTrace
  <1>5. ASSUME NEW i \in 1..n
        PROVE  f[i] = IF items[i] \in wanted THEN Append(f[i - 1], items[i]) ELSE f[i - 1]
    <2>1. i - 1 \in 0..n /\ f[i] = step[i][f[i - 1]]
      BY <1>1, <1>3 DEF IsTrace
    <2>2. f[i - 1] \in Seq(A)
      BY <1>4, <2>1
    <2> QED
      BY <1>1, <2>1, <2>2
  <1>6. f = [k \in 0..n |-> IF k = 0 THEN <<>>
                            ELSE IF items[k] \in wanted THEN Append(f[k - 1], items[k])
                            ELSE f[k - 1]]
    <2>1. ASSUME NEW k \in 0..n
          PROVE  f[k] = IF k = 0 THEN <<>>
                        ELSE IF items[k] \in wanted THEN Append(f[k - 1], items[k]) ELSE f[k - 1]
      <3>1. CASE k = 0
        BY <1>4, <3>1
      <3>2. CASE k # 0
        <4>1. k \in 1..n
          BY <1>1, <3>2
        <4> QED
          BY <1>5, <3>2, <4>1
      <3> QED
        BY <3>1, <3>2
    <2> QED
      BY <1>4, <2>1
  <1>7. kept = [k \in 0..n |-> IF k = 0 THEN <<>>
                            ELSE IF items[k] \in wanted THEN Append(kept[k - 1], items[k])
                            ELSE kept[k - 1]]
    BY <1>6
  <1> HIDE DEF kept
  <1> DEFINE T == {k \in 0..n : kept[k] = f[k]}
  <1>8. 0 \in T
    BY <1>1, <1>4, <1>7
  <1>9. ASSUME NEW m \in 0..n, m < n, m \in T
        PROVE  m + 1 \in T
    <2>1. m + 1 \in 1..n /\ m + 1 \in 0..n /\ (m + 1) - 1 = m /\ m + 1 # 0
      BY <1>1, <1>9
    <2> QED
      BY <1>5, <1>7, <1>9, <2>1
  <1> HIDE DEF T
  <1>10. 0..n \subseteq T
    <2> HIDE DEF n
    <2> QED BY <1>1, <1>8, <1>9, Induct
  <1>11. n \in T
    <2> HIDE DEF n
    <2> QED BY <1>1, <1>10
  <1> QED
    BY <1>2, <1>4, <1>5, <1>11 DEF T, KeepLoop

LEMMA KeepOne ==
  ASSUME NEW A, NEW items \in Seq(A), NEW wanted, NEW n \in Nat, n < Len(items),
         NEW s \in Seq(A), NEW at, IsKept(s, at, items, n, wanted)
  PROVE  \E new : IsKept(IF items[n + 1] \in wanted THEN Append(s, items[n + 1]) ELSE s,
                         new, items, n + 1, wanted)
  <1>0. /\ n + 1 \in 1..(n + 1) /\ 1..(n + 1) = 1..n \union {n + 1} /\ n + 1 \in 1..Len(items)
        /\ Len(s) \in Nat /\ DOMAIN s = 1..Len(s)
    OBVIOUS
  <1>1. CASE items[n + 1] \notin wanted
    <2>1. IsKept(s, at, items, n + 1, wanted)
      BY <1>0, <1>1 DEF IsKept
    <2> QED
      BY <1>1, <2>1
  <1>2. CASE items[n + 1] \in wanted
    <2> DEFINE m == Len(s)
               t == Append(s, items[n + 1])
               new == [p \in 1..(m + 1) |-> IF p = m + 1 THEN n + 1 ELSE at[p]]
    <2>1. /\ DOMAIN t = 1..(m + 1) /\ t[m + 1] = items[n + 1] /\ m \in Nat
          /\ \A p \in 1..m : p # m + 1 /\ p \in 1..(m + 1) /\ t[p] = s[p]
          /\ \A p \in 1..(m + 1) : p # m + 1 => p \in DOMAIN s
      BY <1>0
    <2>2. \A p \in DOMAIN s : at[p] \in 1..n
      BY DEF IsKept
    <2> HIDE DEF t, m
    <2>3. new \in [DOMAIN t -> 1..(n + 1)]
      BY <1>0, <2>1, <2>2
    <2>4. Increasing(new)
      <3> SUFFICES ASSUME NEW p \in 1..(m + 1), NEW q \in 1..(m + 1), p < q
                   PROVE  new[p] < new[q]
        BY DEF Increasing
      <3>1. CASE q = m + 1
        <4>1. p \in DOMAIN s /\ p # m + 1
          BY <2>1, <3>1
        <4>2. at[p] \in 1..n /\ new[p] = at[p] /\ new[q] = n + 1
          BY <2>2, <3>1, <4>1
        <4> QED
          BY <4>2
      <3>2. CASE q # m + 1
        <4>1. p \in DOMAIN s /\ q \in DOMAIN s /\ p # m + 1
          BY <2>1, <3>2
        <4>2. at[p] < at[q]
          <5>1. Increasing(at) /\ DOMAIN at = DOMAIN s
            BY DEF IsKept
          <5> QED
            BY <4>1, <5>1 DEF Increasing
        <4> QED
          BY <3>2, <4>1, <4>2
      <3> QED
        BY <3>1, <3>2
    <2>5. ASSUME NEW p \in DOMAIN t
          PROVE  t[p] = items[new[p]] /\ t[p] \in wanted
      <3>1. CASE p = m + 1
        BY <1>2, <2>1, <3>1
      <3>2. CASE p # m + 1
        BY <1>0, <2>1, <3>2 DEF IsKept, m
      <3> QED
        BY <3>1, <3>2
    <2>6. ASSUME NEW i \in 1..(n + 1), items[i] \in wanted
          PROVE  \E p \in DOMAIN t : new[p] = i
      <3>1. CASE i = n + 1
        <4>1. m + 1 \in DOMAIN t /\ new[m + 1] = i
          BY <2>1, <3>1
        <4> QED
          BY <4>1
      <3>2. CASE i \in 1..n
        <4>1. PICK p \in DOMAIN s : at[p] = i
          BY <2>6, <3>2 DEF IsKept
        <4>2. p \in DOMAIN t /\ p # m + 1 /\ p \in 1..(m + 1)
          BY <1>0, <2>1 DEF m
        <4> QED
          BY <4>1, <4>2
      <3> QED
        BY <1>0, <3>1, <3>2
    <2> HIDE DEF new
    <2>7. IsKept(t, new, items, n + 1, wanted)
      BY <2>3, <2>4, <2>5, <2>6 DEF IsKept
    <2> QED
      BY <1>2, <2>7 DEF t
  <1> QED
    BY <1>1, <1>2

LEMMA KeepIs ==
  ASSUME NEW A, NEW items \in Seq(A), NEW wanted
  PROVE  /\ Keep(items, wanted) \in Seq(A)
         /\ \E at : IsKept(Keep(items, wanted), at, items, Len(items), wanted)
         /\ ToSet(Keep(items, wanted)) = ToSet(items) \cap wanted
  <1>1. PICK f : KeepLoop(f, A, items, wanted)
    BY KeepTrace
  <1> DEFINE n == Len(items)
             T == {k \in 0..n : \E at : IsKept(f[k], at, items, k, wanted)}
  <1>2. n \in Nat /\ DOMAIN items = 1..n
    OBVIOUS
  <1>21. /\ f \in [0..n -> Seq(A)] /\ f[0] = <<>> /\ Keep(items, wanted) = f[n]
         /\ \A i \in 1..n :
              f[i] = IF items[i] \in wanted THEN Append(f[i - 1], items[i]) ELSE f[i - 1]
    BY <1>1 DEF KeepLoop
  <1>3. 0 \in T
    <2>1. IsKept(<<>>, <<>>, items, 0, wanted)
      BY DEF IsKept, Increasing
    <2> QED
      BY <1>21, <1>2, <2>1
  <1>4. ASSUME NEW m \in 0..n, m < n, m \in T
        PROVE  m + 1 \in T
    <2>1. PICK at : IsKept(f[m], at, items, m, wanted)
      BY <1>4
    <2>2. m \in Nat /\ m < Len(items) /\ m + 1 \in 0..n
      BY <1>2, <1>4
    <2>3. f[m] \in Seq(A)
      BY <1>21, <2>2
    <2>4. \E new : IsKept(IF items[m + 1] \in wanted THEN Append(f[m], items[m + 1]) ELSE f[m],
                          new, items, m + 1, wanted)
      BY <2>1, <2>2, <2>3, KeepOne
    <2>5. m + 1 \in 1..Len(items) /\ (m + 1) - 1 = m
      BY <1>2, <2>2
    <2>6. f[m + 1] = IF items[m + 1] \in wanted THEN Append(f[m], items[m + 1]) ELSE f[m]
      BY <1>21, <2>5
    <2> QED
      BY <2>2, <2>4, <2>6
  <1> HIDE DEF T
  <1>5. 0..n \subseteq T
    <2> HIDE DEF n
    <2> QED BY <1>2, <1>3, <1>4, Induct
  <1>6. n \in T
    <2> HIDE DEF n
    <2> QED BY <1>2, <1>5
  <1> DEFINE s == Keep(items, wanted)
  <1>7. s \in Seq(A) /\ \E at : IsKept(s, at, items, n, wanted)
    BY <1>21, <1>2, <1>6 DEF T
  <1> HIDE DEF s
  <1>8. PICK at : IsKept(s, at, items, n, wanted)
    BY <1>7
  <1>9. ToSet(s) \subseteq ToSet(items) \cap wanted
    BY <1>2, <1>8 DEF IsKept, ToSet
  <1>10. ToSet(items) \cap wanted \subseteq ToSet(s)
    <2> SUFFICES ASSUME NEW i \in 1..n, items[i] \in wanted PROVE items[i] \in ToSet(s)
      BY <1>2 DEF ToSet
    <2>1. PICK p \in DOMAIN s : at[p] = i
      BY <1>8 DEF IsKept
    <2>2. s[p] = items[i]
      BY <1>8, <2>1 DEF IsKept
    <2> QED
      BY <2>2 DEF ToSet
  <1> QED
    BY <1>7, <1>9, <1>10 DEF s

UniqueLoop(f, ids) ==
  /\ f \in [0..Len(ids) -> Seq(Int)] /\ f[0] = <<>>
  /\ \A i \in 1..Len(ids) :
       f[i] = IF Contains(f[i - 1], ids[i]) THEN f[i - 1] ELSE Append(f[i - 1], ids[i])
  /\ Unique(ids) = f[Len(ids)]

LEMMA UniqueTrace ==
  ASSUME NEW ids \in Seq(Int)
  PROVE  \E f : UniqueLoop(f, ids)
  <1> DEFINE n == Len(ids)
             S == Seq(Int)
             step == [i \in 1..n |-> [s \in S |->
                        IF Contains(s, ids[i]) THEN s ELSE Append(s, ids[i])]]
             ordered == CHOOSE f : f = [k \in 0..Len(ids) |->
                        IF k = 0 THEN <<>>
                        ELSE IF Contains(f[k - 1], ids[k]) THEN f[k - 1]
                        ELSE Append(f[k - 1], ids[k])]
  <1>1. /\ n \in Nat /\ step \in [1..n -> [S -> S]] /\ <<>> \in S
        /\ \A i \in 1..n, s \in S :
             step[i][s] = IF Contains(s, ids[i]) THEN s ELSE Append(s, ids[i])
    OBVIOUS
  <1>2. Unique(ids) = ordered[n]
    BY DEF Unique
  <1> HIDE DEF step, S
  <1>3. PICK f : IsTrace(f, n, S, <<>>, step)
    <2> HIDE DEF n
    <2> QED
      BY <1>1, Trace
  <1>4. f \in [0..n -> S] /\ f[0] = <<>>
    BY <1>3 DEF IsTrace
  <1>5. ASSUME NEW i \in 1..n
        PROVE  f[i] = IF Contains(f[i - 1], ids[i]) THEN f[i - 1] ELSE Append(f[i - 1], ids[i])
    <2>1. i - 1 \in 0..n /\ f[i] = step[i][f[i - 1]]
      BY <1>1, <1>3 DEF IsTrace
    <2>2. f[i - 1] \in S
      BY <1>4, <2>1
    <2> QED
      BY <1>1, <2>1, <2>2
  <1>6. f = [k \in 0..n |-> IF k = 0 THEN <<>>
                            ELSE IF Contains(f[k - 1], ids[k]) THEN f[k - 1]
                            ELSE Append(f[k - 1], ids[k])]
    <2>1. ASSUME NEW k \in 0..n
          PROVE  f[k] = IF k = 0 THEN <<>>
                        ELSE IF Contains(f[k - 1], ids[k]) THEN f[k - 1]
                        ELSE Append(f[k - 1], ids[k])
      <3>1. CASE k = 0
        BY <1>4, <3>1
      <3>2. CASE k # 0
        <4>1. k \in 1..n
          BY <1>1, <3>2
        <4> QED
          BY <1>5, <3>2, <4>1
      <3> QED
        BY <3>1, <3>2
    <2> QED
      BY <1>4, <2>1
  <1>7. ordered = [k \in 0..n |-> IF k = 0 THEN <<>>
                            ELSE IF Contains(ordered[k - 1], ids[k]) THEN ordered[k - 1]
                            ELSE Append(ordered[k - 1], ids[k])]
    BY <1>6
  <1> HIDE DEF ordered
  <1> DEFINE T == {k \in 0..n : ordered[k] = f[k]}
  <1>8. 0 \in T
    BY <1>1, <1>4, <1>7
  <1>9. ASSUME NEW m \in 0..n, m < n, m \in T
        PROVE  m + 1 \in T
    <2>1. m + 1 \in 1..n /\ m + 1 \in 0..n /\ (m + 1) - 1 = m /\ m + 1 # 0
      BY <1>1, <1>9
    <2> QED
      BY <1>5, <1>7, <1>9, <2>1
  <1> HIDE DEF T
  <1>10. 0..n \subseteq T
    <2> HIDE DEF n
    <2> QED BY <1>1, <1>8, <1>9, Induct
  <1>11. n \in T
    <2> HIDE DEF n
    <2> QED BY <1>1, <1>10
  <1> QED
    BY <1>2, <1>4, <1>5, <1>11 DEF T, UniqueLoop, S

LEMMA UniqueIs ==
  ASSUME NEW ids \in Seq(Int)
  PROVE  ToSet(Unique(ids)) = ToSet(ids)
  <1>1. PICK f : UniqueLoop(f, ids)
    BY UniqueTrace
  <1> DEFINE n == Len(ids)
             T == {k \in 0..n : ToSet(f[k]) = {ids[i] : i \in 1..k}}
  <1>2. /\ n \in Nat /\ DOMAIN ids = 1..n /\ f \in [0..n -> Seq(Int)] /\ f[0] = <<>>
        /\ Unique(ids) = f[n] /\ \A i \in 1..n : ids[i] \in Int
        /\ \A i \in 1..n :
             f[i] = IF Contains(f[i - 1], ids[i]) THEN f[i - 1] ELSE Append(f[i - 1], ids[i])
    BY <1>1 DEF UniqueLoop
  <1>3. 0 \in T
    <2>1. ToSet(<<>>) = {} /\ {ids[i] : i \in 1..0} = {}
      BY DEF ToSet
    <2> QED
      BY <1>2, <2>1
  <1>4. ASSUME NEW m \in 0..n, m < n, m \in T
        PROVE  m + 1 \in T
    <2>1. /\ m + 1 \in 1..n /\ m + 1 \in 0..n /\ (m + 1) - 1 = m
          /\ 1..(m + 1) = 1..m \union {m + 1}
      BY <1>2, <1>4
    <2> DEFINE s == f[m]
               v == ids[m + 1]
    <2>2. s \in Seq(Int) /\ v \in Int /\ ToSet(s) = {ids[i] : i \in 1..m}
      BY <1>2, <1>4, <2>1
    <2>3. {ids[i] : i \in 1..(m + 1)} = ToSet(s) \union {v}
      BY <2>1, <2>2
    <2>4. f[m + 1] = IF Contains(s, v) THEN s ELSE Append(s, v)
      BY <1>2, <2>1
    <2> HIDE DEF s, v
    <2>5. Contains(s, v) => v \in ToSet(s)
      BY <2>2 DEF Contains, ToSet
    <2>6. ToSet(Append(s, v)) = ToSet(s) \union {v}
      <3>1. /\ DOMAIN Append(s, v) = DOMAIN s \union {Len(s) + 1}
            /\ \A i \in DOMAIN s : Append(s, v)[i] = s[i]
            /\ Append(s, v)[Len(s) + 1] = v
        BY <2>2
      <3> QED
        BY <3>1 DEF ToSet
    <2>7. ToSet(f[m + 1]) = ToSet(s) \union {v}
      BY <2>4, <2>5, <2>6
    <2> QED
      BY <2>1, <2>3, <2>7
  <1> HIDE DEF T
  <1>5. 0..n \subseteq T
    <2> HIDE DEF n
    <2> QED BY <1>2, <1>3, <1>4, Induct
  <1>6. n \in T
    <2> HIDE DEF n
    <2> QED BY <1>2, <1>5
  <1>7. ToSet(ids) = {ids[i] : i \in 1..n}
    BY <1>2 DEF ToSet
  <1> QED
    BY <1>2, <1>6, <1>7 DEF T

-----------------------------------------------------------------------------
(* What the loops go over *)

FieldsTo(n) == {AXIS_ORDER[k] : k \in 1..n}

LEMMA OrderIs ==
  /\ Len(AXIS_ORDER) = 10 /\ DOMAIN AXIS_ORDER = 1..10 /\ DOMAIN Axis = FieldsTo(10)
  /\ \A j, k \in 1..10 : AXIS_ORDER[j] = AXIS_ORDER[k] => j = k
  /\ AXIS_ORDER[1] = "provider" /\ AXIS_ORDER[3] = "model"
  /\ \A k \in 1..10 : AXIS_ORDER[k] \in {"dl_mode", "layout", "api_mode"} => k > 3
  <1>1. /\ AXIS_ORDER[1] = "provider" /\ AXIS_ORDER[2] = "device" /\ AXIS_ORDER[3] = "model"
        /\ AXIS_ORDER[4] = "dl_mode" /\ AXIS_ORDER[5] = "layout" /\ AXIS_ORDER[6] = "scorep"
        /\ AXIS_ORDER[7] = "api_mode" /\ AXIS_ORDER[8] = "api_lang"
        /\ AXIS_ORDER[9] = "workload" /\ AXIS_ORDER[10] = "batch_size"
        /\ Len(AXIS_ORDER) = 10 /\ DOMAIN AXIS_ORDER = 1..10
    BY DEF AXIS_ORDER
  <1>2. DOMAIN Axis = FieldsTo(10)
    BY <1>1, AxisAssumption DEF ToSet, FieldsTo
  <1>3. \A k \in 1..10 : k \in {1, 2, 3, 4, 5, 6, 7, 8, 9, 10}
    OBVIOUS
  <1>4. ASSUME NEW j \in 1..10, NEW k \in 1..10, AXIS_ORDER[j] = AXIS_ORDER[k]
        PROVE  j = k
    BY <1>1, <1>3, <1>4
  <1>5. ASSUME NEW k \in 1..10, AXIS_ORDER[k] \in {"dl_mode", "layout", "api_mode"}
        PROVE  k > 3
    BY <1>1, <1>3, <1>5
  <1> QED
    BY <1>1, <1>2, <1>4, <1>5

LEMMA FieldIs ==
  /\ \A n \in 1..10 : AXIS_ORDER[n] \in DOMAIN Axis /\ AXIS_ORDER[n] \in FieldsTo(n)
  /\ \A n \in 0..9 : AXIS_ORDER[n + 1] \notin FieldsTo(n)
  /\ \A n \in 0..9 : FieldsTo(n + 1) = FieldsTo(n) \union {AXIS_ORDER[n + 1]}
  /\ FieldsTo(0) = {}
  <1>1. \A n \in 0..9 : /\ 1..(n + 1) = 1..n \union {n + 1} /\ n + 1 \in 1..10
                        /\ 1..n \subseteq 1..10 /\ n + 1 \notin 1..n
    OBVIOUS
  <1>2. \A n \in 1..10 : n \in 1..n
    OBVIOUS
  <1>3. \A n \in 1..10 : AXIS_ORDER[n] \in DOMAIN Axis /\ AXIS_ORDER[n] \in FieldsTo(n)
    BY <1>2, OrderIs DEF FieldsTo
  <1>4. \A n \in 0..9 : AXIS_ORDER[n + 1] \notin FieldsTo(n)
    BY <1>1, OrderIs DEF FieldsTo
  <1>5. \A n \in 0..9 : FieldsTo(n + 1) = FieldsTo(n) \union {AXIS_ORDER[n + 1]}
    BY <1>1 DEF FieldsTo
  <1>6. FieldsTo(0) = {}
    BY DEF FieldsTo
  <1> QED
    BY <1>3, <1>4, <1>5, <1>6

(* What a command line may ask for. *)
IsFilter(f) ==
  DOMAIN f \subseteq DOMAIN Axis /\ \A field \in DOMAIN f : f[field] \in Seq(ToSet(f[field]))

(* v is before w on an axis, and all the values of a sequence are in the    *)
(* order of the axis.                                                       *)
Before(field, v, w) ==
  \E p, q \in DOMAIN Axis[field] : p < q /\ Axis[field][p] = v /\ Axis[field][q] = w
Ordered(field, s) == \A p, q \in DOMAIN s : p < q => Before(field, s[p], s[q])

LEMMA BeforeIs ==
  ASSUME NEW field \in DOMAIN Axis, NEW v, NEW w
  PROVE  /\ ~Before(field, v, v)
         /\ Before(field, v, w) => ~Before(field, w, v)
         /\ Ordered(field, Axis[field])
  <1>1. /\ \A p, q \in DOMAIN Axis[field] : Axis[field][p] = Axis[field][q] => p = q
        /\ \A p \in DOMAIN Axis[field] : p \in Int
    BY AxisAssumption DEF IsInjective
  <1>2. ~Before(field, v, v)
    BY <1>1 DEF Before
  <1>3. ASSUME Before(field, v, w), Before(field, w, v)
        PROVE  FALSE
    <2>1. PICK p, q \in DOMAIN Axis[field] : p < q /\ Axis[field][p] = v /\ Axis[field][q] = w
      BY <1>3 DEF Before
    <2>2. PICK r, s \in DOMAIN Axis[field] : r < s /\ Axis[field][r] = w /\ Axis[field][s] = v
      BY <1>3 DEF Before
    <2>3. r = q /\ s = p
      BY <1>1, <2>1, <2>2
    <2> QED
      BY <1>1, <2>1, <2>2, <2>3
  <1>4. Ordered(field, Axis[field])
    BY DEF Ordered, Before
  <1> QED
    BY <1>2, <1>3, <1>4

LEMMA KeepOrdered ==
  ASSUME NEW A, NEW field, NEW s \in Seq(A), Ordered(field, s), NEW wanted
  PROVE  Ordered(field, Keep(s, wanted))
  <1> DEFINE t == Keep(s, wanted)
  <1>1. PICK at : IsKept(t, at, s, Len(s), wanted)
    BY KeepIs
  <1> HIDE DEF t
  <1> SUFFICES ASSUME NEW p \in DOMAIN t, NEW q \in DOMAIN t, p < q
               PROVE  Before(field, t[p], t[q])
    BY DEF Ordered, t
  <1>2. at[p] \in DOMAIN s /\ at[q] \in DOMAIN s /\ at[p] < at[q]
    BY <1>1 DEF IsKept, Increasing
  <1>3. t[p] = s[at[p]] /\ t[q] = s[at[q]]
    BY <1>1 DEF IsKept
  <1> QED
    BY <1>2, <1>3 DEF Ordered

(* The values a filter leaves of an axis. *)
LEMMA WantedIs ==
  ASSUME NEW f, IsFilter(f), NEW field \in DOMAIN Axis
  PROVE  /\ Wanted(f, field) \in Seq(ToSet(Wanted(f, field)))
         /\ field \notin DOMAIN f => Wanted(f, field) = Axis[field]
         /\ field \in DOMAIN f /\ field \notin AsGiven =>
              ToSet(Wanted(f, field)) = ToSet(Axis[field]) \cap ToSet(f[field])
         /\ field \in DOMAIN f /\ field \in AsGiven => Wanted(f, field) = f[field]
         /\ InAxisOrder(f) => Ordered(field, Wanted(f, field))
  <1> DEFINE A == ToSet(Axis[field])
  <1>1. Axis[field] \in Seq(A) /\ Ordered(field, Axis[field])
    BY AxisAssumption, BeforeIs
  <1>2. CASE field \notin DOMAIN f
    BY <1>1, <1>2 DEF Wanted
  <1>3. CASE field \in DOMAIN f
    <2> DEFINE s == Pick(f[field], Axis[field])
    <2>1. /\ s \in Seq(A) /\ ToSet(s) = ToSet(Axis[field]) \cap ToSet(f[field])
          /\ Ordered(field, s)
      BY <1>1, KeepIs, KeepOrdered DEF Pick
    <2>2. s \in Seq(ToSet(s))
      <3> HIDE DEF s
      <3> QED BY <2>1 DEF ToSet
    <2>3. CASE field \notin AsGiven
      BY <1>3, <2>1, <2>2, <2>3 DEF Wanted
    <2>4. CASE field \in AsGiven
      <3>1. Wanted(f, field) = f[field] /\ f[field] \in Seq(ToSet(f[field]))
        BY <1>3, <2>4 DEF Wanted, IsFilter
      <3>2. InAxisOrder(f) => f[field] = s
        BY <1>3, <2>4 DEF InAxisOrder
      <3> HIDE DEF s
      <3> QED
        BY <1>3, <2>1, <2>4, <3>1, <3>2
    <2> QED
      BY <2>3, <2>4
  <1> QED
    BY <1>2, <1>3

Plain(c, field) == field \in {"dl_mode", "layout"} /\ c.provider # "PHYDLL"
Multi(c, field) == field = "api_mode" /\ c.model = "mmcp_transformer"

LEMMA ApplicableIs ==
  ASSUME NEW f, IsFilter(f), NEW c, NEW field \in DOMAIN Axis
  PROVE  /\ Applicable(f, c, field) \in Seq({"-"} \union ToSet(Wanted(f, field)))
         /\ Plain(c, field) => Applicable(f, c, field) = <<"-">>
         /\ Multi(c, field) =>
              ToSet(Applicable(f, c, field)) = ToSet(Wanted(f, field)) \cap MultiModes
         /\ ~Plain(c, field) /\ ~Multi(c, field) => Applicable(f, c, field) = Wanted(f, field)
         /\ InAxisOrder(f) => Ordered(field, Applicable(f, c, field))
  <1> DEFINE s == Applicable(f, c, field)
             w == Wanted(f, field)
             W == {"-"} \union ToSet(w)
  <1>1. w \in Seq(ToSet(w)) /\ (InAxisOrder(f) => Ordered(field, w))
    BY WantedIs
  <1>2. /\ Plain(c, field) => s = <<"-">> /\ ~Multi(c, field)
        /\ Multi(c, field) => s = Keep(w, MultiModes)
        /\ ~Plain(c, field) /\ ~Multi(c, field) => s = w
    BY DEF Applicable, Plain, Multi
  <1>3. ToSet(w) \subseteq W /\ Seq(ToSet(w)) \subseteq Seq(W)
    OBVIOUS
  <1> HIDE DEF s, w
  <1>4. CASE Plain(c, field)
    <2>1. s = <<"-">> /\ "-" \in W
      BY <1>2, <1>4
    <2>2. s \in Seq(W) /\ DOMAIN s = {1}
      <3> HIDE DEF W
      <3> QED BY <2>1
    <2>3. Ordered(field, s)
      BY <2>2 DEF Ordered
    <2> QED
      BY <1>2, <1>4, <2>1, <2>2, <2>3 DEF s, w
  <1>5. CASE Multi(c, field)
    <2>1. /\ s \in Seq(ToSet(w)) /\ ToSet(s) = ToSet(w) \cap MultiModes
          /\ InAxisOrder(f) => Ordered(field, s)
      BY <1>1, <1>2, <1>5, KeepIs, KeepOrdered
    <2> QED
      BY <1>2, <1>3, <1>5, <2>1 DEF s, w
  <1>6. CASE ~Plain(c, field) /\ ~Multi(c, field)
    BY <1>1, <1>2, <1>3, <1>6 DEF s, w
  <1> QED
    BY <1>4, <1>5, <1>6

(* Which values apply does not depend on what the later loops choose. *)
LEMMA ApplicableSame ==
  ASSUME NEW f, NEW c, NEW d, NEW k \in 1..10,
         \A j \in 1..(k - 1) : c[AXIS_ORDER[j]] = d[AXIS_ORDER[j]]
  PROVE  Applicable(f, c, AXIS_ORDER[k]) = Applicable(f, d, AXIS_ORDER[k])
  <1>1. CASE AXIS_ORDER[k] \in {"dl_mode", "layout", "api_mode"}
    <2>1. 1 \in 1..(k - 1) /\ 3 \in 1..(k - 1)
      BY <1>1, OrderIs
    <2>2. c.provider = d.provider /\ c.model = d.model
      BY <2>1, OrderIs
    <2> QED
      BY <2>2 DEF Applicable
  <1>2. CASE AXIS_ORDER[k] \notin {"dl_mode", "layout", "api_mode"}
    BY <1>2 DEF Applicable
  <1> QED
    BY <1>1, <1>2

-----------------------------------------------------------------------------
(* The ten loops *)

Values(f) == {"-"} \union UNION {ToSet(Wanted(f, field)) : field \in DOMAIN Axis}
CaseSet(f) == UNION {[fields -> Values(f)] : fields \in SUBSET DOMAIN Axis}

IsNested(new, g, h, f, cases, field) ==
  /\ \A x \in DOMAIN new :
       /\ g[x] \in DOMAIN cases /\ h[x] \in DOMAIN Applicable(f, cases[g[x]], field)
       /\ new[x] = With(cases[g[x]], field, Applicable(f, cases[g[x]], field)[h[x]])
  /\ \A x, y \in DOMAIN new : x < y => g[x] < g[y] \/ (g[x] = g[y] /\ h[x] < h[y])
  /\ \A i \in DOMAIN cases : \A j \in DOMAIN Applicable(f, cases[i], field) :
       \E x \in DOMAIN new : g[x] = i /\ h[x] = j

LEMMA NestedIs ==
  ASSUME NEW f, IsFilter(f), NEW cases \in Seq(CaseSet(f)), NEW field \in DOMAIN Axis
  PROVE  /\ Nested(f, cases, field) \in Seq(CaseSet(f))
         /\ \E g, h : IsNested(Nested(f, cases, field), g, h, f, cases, field)
  <1> DEFINE C == CaseSet(f)
             n == Len(cases)
             branches == [i \in DOMAIN cases |-> Branches(f, cases[i], field)]
             values(i) == Applicable(f, cases[i], field)
  <1>1. DOMAIN cases = 1..n /\ n \in Nat /\ \A i \in 1..n : cases[i] \in C
    OBVIOUS
  <1>2. ASSUME NEW i \in 1..n
        PROVE  /\ values(i) \in Seq(Values(f))
               /\ branches[i] = [v \in DOMAIN values(i) |-> With(cases[i], field, values(i)[v])]
    <2>1. /\ values(i) \in Seq({"-"} \union ToSet(Wanted(f, field)))
          /\ {"-"} \union ToSet(Wanted(f, field)) \subseteq Values(f)
      BY ApplicableIs DEF Values
    <2> DEFINE W == {"-"} \union ToSet(Wanted(f, field))
               V == Values(f)
    <2>2. W \subseteq V /\ values(i) \in Seq(W)
      BY <2>1
    <2> HIDE DEF W, V, values
    <2>3. values(i) \in Seq(V)
      BY <2>2
    <2>4. branches[i] = [v \in DOMAIN values(i) |-> With(cases[i], field, values(i)[v])]
      BY <1>1 DEF Branches, values
    <2> QED
      BY <2>3, <2>4 DEF V
  <1>3. ASSUME NEW c \in C, NEW v \in Values(f)
        PROVE  With(c, field, v) \in C
    <2>1. PICK fields \in SUBSET DOMAIN Axis : c \in [fields -> Values(f)]
      BY DEF CaseSet
    <2>2. With(c, field, v) \in [fields \union {field} -> Values(f)]
      BY <2>1 DEF With
    <2> QED
      BY <2>2 DEF CaseSet
  <1> HIDE DEF C
  <1>4. \A i \in 1..n : branches[i] \in Seq(C) /\ DOMAIN branches[i] = DOMAIN values(i)
    <2> SUFFICES ASSUME NEW i \in 1..n
                 PROVE  branches[i] \in Seq(C) /\ DOMAIN branches[i] = DOMAIN values(i)
      OBVIOUS
    <2> DEFINE u == values(i)
               t == branches[i]
               c == cases[i]
    <2>1. c \in C /\ u \in Seq(Values(f)) /\ t = [v \in DOMAIN u |-> With(c, field, u[v])]
      BY <1>1, <1>2
    <2> HIDE DEF u, t, c, values, branches
    <2>2. \A v \in DOMAIN u : With(c, field, u[v]) \in C
      BY <1>3, <2>1
    <2>3. DOMAIN u = 1..Len(u) /\ Len(u) \in Nat
      BY <2>1
    <2>4. t \in [1..Len(u) -> C] /\ DOMAIN t = DOMAIN u
      BY <2>1, <2>2, <2>3
    <2>5. t \in Seq(C)
      BY <2>3, <2>4
    <2> QED
      BY <2>4, <2>5 DEF t, u
  <1>5. branches \in Seq(Seq(C)) /\ Len(branches) = n
    <2>1. branches \in [1..n -> Seq(C)]
      BY <1>1, <1>4
    <2> HIDE DEF branches, n
    <2> QED
      BY <1>1, <2>1
  <1>6. Nested(f, cases, field) = FlattenSeq(branches)
    BY DEF Nested
  <1> DEFINE new == FlattenSeq(branches)
  <1>7. new \in Seq(C) /\ \E g, h : IsFlat(new, g, h, branches, n)
    <2> HIDE DEF branches, n
    <2> QED
      BY <1>5, FlattenIs
  <1>8. PICK g, h : IsFlat(new, g, h, branches, n)
    BY <1>7
  <1> HIDE DEF branches, new, values, n
  <1>9. ASSUME NEW x \in DOMAIN new
        PROVE  /\ g[x] \in DOMAIN cases /\ h[x] \in DOMAIN values(g[x])
               /\ new[x] = With(cases[g[x]], field, values(g[x])[h[x]])
    <2>1. g[x] \in 1..n /\ h[x] \in DOMAIN branches[g[x]] /\ new[x] = branches[g[x]][h[x]]
      BY <1>8 DEF IsFlat
    <2>2. h[x] \in DOMAIN values(g[x])
      BY <1>4, <2>1
    <2>3. branches[g[x]] = [v \in DOMAIN values(g[x]) |->
                              With(cases[g[x]], field, values(g[x])[v])]
      BY <1>2, <2>1
    <2> QED
      BY <1>1, <2>1, <2>2, <2>3
  <1>10. \A x, y \in DOMAIN new : x < y => g[x] < g[y] \/ (g[x] = g[y] /\ h[x] < h[y])
    BY <1>8 DEF IsFlat
  <1>11. \A i \in DOMAIN cases : \A j \in DOMAIN values(i) :
            \E x \in DOMAIN new : g[x] = i /\ h[x] = j
    BY <1>1, <1>4, <1>8 DEF IsFlat
  <1>12. IsNested(new, g, h, f, cases, field)
    BY <1>9, <1>10, <1>11 DEF IsNested, values
  <1> QED
    BY <1>6, <1>7, <1>12 DEF new, C

IterLoop(loop, f) ==
  /\ loop \in [0..10 -> Seq(CaseSet(f))] /\ loop[0] = << <<>> >>
  /\ \A n \in 1..10 : loop[n] = Nested(f, loop[n - 1], AXIS_ORDER[n])
  /\ IterCases(f) = loop[10]

LEMMA IterTrace ==
  ASSUME NEW f, IsFilter(f)
  PROVE  \E loop : IterLoop(loop, f)
  <1> DEFINE S == Seq(CaseSet(f))
             first == << <<>> >>
             step == [n \in 1..10 |-> [cases \in S |-> Nested(f, cases, AXIS_ORDER[n])]]
             loop == CHOOSE r : r = [n \in 0..Len(AXIS_ORDER) |->
                       IF n = 0 THEN << <<>> >> ELSE Nested(f, r[n - 1], AXIS_ORDER[n])]
  <1>1. first \in S
    <2>1. <<>> \in [{} -> Values(f)]
      OBVIOUS
    <2>2. <<>> \in CaseSet(f)
      BY <2>1 DEF CaseSet
    <2> QED
      BY <2>2
  <1>2. step \in [1..10 -> [S -> S]]
    BY FieldIs, NestedIs
  <1>3. \A n \in 1..10, cases \in S : step[n][cases] = Nested(f, cases, AXIS_ORDER[n])
    OBVIOUS
  <1>4. IterCases(f) = loop[10]
    BY OrderIs DEF IterCases
  <1> HIDE DEF step, S, first
  <1>5. PICK r : IsTrace(r, 10, S, first, step)
    BY <1>1, <1>2, Trace
  <1>6. r \in [0..10 -> S] /\ r[0] = first
    BY <1>5 DEF IsTrace
  <1>7. ASSUME NEW n \in 1..10
        PROVE  r[n] = Nested(f, r[n - 1], AXIS_ORDER[n])
    <2>1. n - 1 \in 0..10 /\ r[n] = step[n][r[n - 1]]
      BY <1>5 DEF IsTrace
    <2>2. r[n - 1] \in S
      BY <1>6, <2>1
    <2> QED
      BY <1>3, <2>1, <2>2
  <1>8. ASSUME NEW n \in 0..10
        PROVE  r[n] = IF n = 0 THEN << <<>> >> ELSE Nested(f, r[n - 1], AXIS_ORDER[n])
    <2>1. CASE n = 0
      BY <1>6, <2>1 DEF first
    <2>2. CASE n # 0
      <3>1. n \in 1..10
        BY <2>2
      <3> QED
        BY <1>7, <2>2, <3>1
    <2> QED
      BY <2>1, <2>2
  <1>9. r = [n \in 0..10 |->
               IF n = 0 THEN << <<>> >> ELSE Nested(f, r[n - 1], AXIS_ORDER[n])]
    BY <1>6, <1>8
  <1>10. loop = [n \in 0..10 |->
               IF n = 0 THEN << <<>> >> ELSE Nested(f, loop[n - 1], AXIS_ORDER[n])]
    BY <1>9, OrderIs
  <1> HIDE DEF loop
  <1> DEFINE T == {n \in 0..10 : loop[n] = r[n]}
  <1>11. 0 \in T
    BY <1>6, <1>10 DEF first
  <1>12. ASSUME NEW m \in 0..10, m < 10, m \in T
         PROVE  m + 1 \in T
    <2>1. m + 1 \in 1..10 /\ m + 1 \in 0..10 /\ (m + 1) - 1 = m /\ m + 1 # 0
      BY <1>12
    <2> QED
      BY <1>7, <1>10, <1>12, <2>1
  <1> HIDE DEF T
  <1>13. 0..10 \subseteq T
    BY <1>11, <1>12, Induct
  <1>14. loop[10] = r[10]
    BY <1>13 DEF T
  <1> QED
    BY <1>4, <1>6, <1>7, <1>14 DEF IterLoop, S, first

(* A case after n loops, by itself: on each axis so far it has a value that *)
(* applies.                                                                 *)
Chosen(f, c, n) ==
  DOMAIN c = FieldsTo(n) /\
  \A k \in 1..n : c[AXIS_ORDER[k]] \in ToSet(Applicable(f, c, AXIS_ORDER[k]))

(* Of two cases, the first differs first on an axis where it is before.     *)
Less(c, d, n) ==
  \E k \in 1..n : /\ \A j \in 1..(k - 1) : c[AXIS_ORDER[j]] = d[AXIS_ORDER[j]]
                  /\ Before(AXIS_ORDER[k], c[AXIS_ORDER[k]], d[AXIS_ORDER[k]])

(* What a case chose in the loops before is left alone. *)
OneMore(d, c, n, v) ==
  /\ DOMAIN d = FieldsTo(n + 1) /\ d[AXIS_ORDER[n + 1]] = v
  /\ \A j \in 1..n : d[AXIS_ORDER[j]] = c[AXIS_ORDER[j]]

LEMMA WithIs ==
  ASSUME NEW n \in 0..9, NEW c, DOMAIN c = FieldsTo(n), NEW v,
         NEW d, d = With(c, AXIS_ORDER[n + 1], v)
  PROVE  OneMore(d, c, n, v)
  <1>1. DOMAIN d = FieldsTo(n + 1) /\ d[AXIS_ORDER[n + 1]] = v
    BY FieldIs DEF With
  <1>2. ASSUME NEW j \in 1..n
        PROVE  d[AXIS_ORDER[j]] = c[AXIS_ORDER[j]]
    <2>1. AXIS_ORDER[j] \in FieldsTo(n) /\ AXIS_ORDER[j] # AXIS_ORDER[n + 1]
      BY FieldIs DEF FieldsTo
    <2> QED
      BY <2>1 DEF With
  <1> QED
    BY <1>1, <1>2 DEF OneMore

(* One more loop adds the cases that have one more value, all of them. *)
LEMMA ChosenStep ==
  ASSUME NEW f, IsFilter(f), NEW n \in 0..9, NEW cases \in Seq(CaseSet(f)),
         ToSet(cases) = {c \in CaseSet(f) : Chosen(f, c, n)},
         NEW new, new = Nested(f, cases, AXIS_ORDER[n + 1])
  PROVE  ToSet(new) = {c \in CaseSet(f) : Chosen(f, c, n + 1)}
  <1> DEFINE F == AXIS_ORDER[n + 1]
  <1>0. /\ n + 1 \in 1..10 /\ F \in DOMAIN Axis /\ 1..(n + 1) = 1..n \union {n + 1}
        /\ (n + 1) - 1 = n /\ \A k \in 1..n : k \in 1..10 /\ 1..(k - 1) \subseteq 1..n
    BY FieldIs
  <1>1. PICK g, h : IsNested(new, g, h, f, cases, F)
    BY <1>0, NestedIs
  <1>2. new \in Seq(CaseSet(f))
    BY <1>0, NestedIs
  <1>3. ASSUME NEW x \in DOMAIN new
        PROVE  Chosen(f, new[x], n + 1)
    <2> DEFINE c == cases[g[x]]
               v == Applicable(f, c, F)[h[x]]
               d == With(c, F, v)
    <2>1. new[x] = d /\ c \in ToSet(cases) /\ v \in ToSet(Applicable(f, c, F))
      BY <1>1 DEF IsNested, ToSet
    <2>2. Chosen(f, c, n)
      BY <2>1
    <2> HIDE DEF c, v, d
    <2>3. /\ DOMAIN d = FieldsTo(n + 1) /\ d[F] = v
          /\ \A j \in 1..n : d[AXIS_ORDER[j]] = c[AXIS_ORDER[j]]
      <3>1. DOMAIN c = FieldsTo(n) /\ d = With(c, F, v)
        BY <2>2 DEF Chosen, d
      <3>2. OneMore(d, c, n, v)
        BY <3>1, WithIs
      <3> QED
        BY <3>2 DEF OneMore
    <2>4. ASSUME NEW k \in 1..n
          PROVE  d[AXIS_ORDER[k]] \in ToSet(Applicable(f, d, AXIS_ORDER[k]))
      <3>1. Applicable(f, d, AXIS_ORDER[k]) = Applicable(f, c, AXIS_ORDER[k])
        BY <1>0, <2>3, ApplicableSame
      <3> QED
        BY <2>2, <2>3, <3>1 DEF Chosen
    <2>5. Applicable(f, d, F) = Applicable(f, c, F)
      <3>1. n + 1 \in 1..10 /\ \A j \in 1..((n + 1) - 1) : d[AXIS_ORDER[j]] = c[AXIS_ORDER[j]]
        BY <1>0, <2>3
      <3> QED
        BY <3>1, ApplicableSame
    <2> QED
      BY <1>0, <2>1, <2>3, <2>4, <2>5 DEF Chosen
  <1>4. ASSUME NEW d \in CaseSet(f), Chosen(f, d, n + 1)
        PROVE  d \in ToSet(new)
    <2> DEFINE c == [field \in FieldsTo(n) |-> d[field]]
    <2>0. DOMAIN d = FieldsTo(n) \union {F} /\ F \notin FieldsTo(n) /\ F \in FieldsTo(n + 1)
      BY <1>4, FieldIs DEF Chosen
    <2>1. \A j \in 1..n : c[AXIS_ORDER[j]] = d[AXIS_ORDER[j]]
      BY DEF FieldsTo
    <2>2. c \in CaseSet(f)
      <3>1. PICK fields \in SUBSET DOMAIN Axis : d \in [fields -> Values(f)]
        BY DEF CaseSet
      <3>2. c \in [FieldsTo(n) -> Values(f)] /\ FieldsTo(n) \in SUBSET DOMAIN Axis
        BY <2>0, <3>1
      <3> QED
        BY <3>2 DEF CaseSet
    <2>3. DOMAIN c = FieldsTo(n)
      OBVIOUS
    <2> HIDE DEF c
    <2>4. ASSUME NEW k \in 1..n
          PROVE  c[AXIS_ORDER[k]] \in ToSet(Applicable(f, c, AXIS_ORDER[k]))
      <3>1. Applicable(f, d, AXIS_ORDER[k]) = Applicable(f, c, AXIS_ORDER[k])
        BY <1>0, <2>1, ApplicableSame
      <3> QED
        BY <1>0, <1>4, <2>1, <3>1 DEF Chosen
    <2>5. c \in ToSet(cases)
      BY <2>2, <2>3, <2>4 DEF Chosen
    <2>6. PICK i \in DOMAIN cases : cases[i] = c
      BY <2>5 DEF ToSet
    <2>7. d[F] \in ToSet(Applicable(f, c, F))
      <3>1. Applicable(f, d, F) = Applicable(f, c, F)
        BY <1>0, <2>1, ApplicableSame
      <3> QED
        BY <1>0, <1>4, <3>1 DEF Chosen
    <2>8. PICK j \in DOMAIN Applicable(f, c, F) : Applicable(f, c, F)[j] = d[F]
      BY <2>7 DEF ToSet
    <2>9. PICK x \in DOMAIN new : g[x] = i /\ h[x] = j
      BY <1>1, <2>6, <2>8 DEF IsNested
    <2>10. new[x] = With(c, F, d[F])
      BY <1>1, <2>6, <2>8, <2>9 DEF IsNested
    <2>11. With(c, F, d[F]) = d
      <3>1. d = [field \in DOMAIN d |-> d[field]]
        BY DEF CaseSet
      <3>2. With(c, F, d[F]) = [field \in FieldsTo(n) \union {F} |->
                                  IF field = F THEN d[F] ELSE c[field]]
        BY <2>3 DEF With
      <3>3. \A field \in FieldsTo(n) : c[field] = d[field]
        BY <2>1 DEF FieldsTo
      <3> QED
        BY <2>0, <3>1, <3>2, <3>3
    <2> QED
      BY <2>10, <2>11 DEF ToSet
  <1>5. ToSet(new) \subseteq {c \in CaseSet(f) : Chosen(f, c, n + 1)}
    BY <1>2, <1>3 DEF ToSet
  <1> QED
    BY <1>4, <1>5

(* The loops go over the cases in the order of the axes. *)
LEMMA LessStep ==
  ASSUME NEW f, IsFilter(f), InAxisOrder(f), NEW n \in 0..9, NEW cases \in Seq(CaseSet(f)),
         \A i \in DOMAIN cases : DOMAIN cases[i] = FieldsTo(n),
         \A i, j \in DOMAIN cases : i < j => Less(cases[i], cases[j], n),
         NEW new, new = Nested(f, cases, AXIS_ORDER[n + 1])
  PROVE  \A x, y \in DOMAIN new : x < y => Less(new[x], new[y], n + 1)
  <1> DEFINE F == AXIS_ORDER[n + 1]
  <1>0. /\ n + 1 \in 1..10 /\ F \in DOMAIN Axis /\ n + 1 \in 1..(n + 1) /\ (n + 1) - 1 = n
        /\ \A k \in 1..n : k \in 1..(n + 1) /\ 1..(k - 1) \subseteq 1..n
    BY FieldIs
  <1>1. PICK g, h : IsNested(new, g, h, f, cases, F)
    BY <1>0, NestedIs
  <1> SUFFICES ASSUME NEW x \in DOMAIN new, NEW y \in DOMAIN new, x < y
               PROVE  Less(new[x], new[y], n + 1)
    OBVIOUS
  <1> DEFINE c == cases[g[x]]
             d == cases[g[y]]
             u == Applicable(f, c, F)
             v == Applicable(f, d, F)
  <1>2. /\ g[x] \in DOMAIN cases /\ g[y] \in DOMAIN cases /\ h[x] \in DOMAIN u /\ h[y] \in DOMAIN v
        /\ new[x] = With(c, F, u[h[x]]) /\ new[y] = With(d, F, v[h[y]])
        /\ g[x] < g[y] \/ (g[x] = g[y] /\ h[x] < h[y])
    BY <1>1 DEF IsNested
  <1>3. /\ new[x][F] = u[h[x]] /\ new[y][F] = v[h[y]]
        /\ \A j \in 1..n : /\ new[x][AXIS_ORDER[j]] = c[AXIS_ORDER[j]]
                           /\ new[y][AXIS_ORDER[j]] = d[AXIS_ORDER[j]]
    <2> HIDE DEF u, v
    <2>1. DOMAIN c = FieldsTo(n) /\ DOMAIN d = FieldsTo(n)
      BY <1>2
    <2> HIDE DEF c, d
    <2>2. new[x][F] = u[h[x]] /\ \A j \in 1..n : new[x][AXIS_ORDER[j]] = c[AXIS_ORDER[j]]
      <3>1. new[x] = With(c, AXIS_ORDER[n + 1], u[h[x]])
        BY <1>2
      <3>2. OneMore(new[x], c, n, u[h[x]])
        BY <2>1, <3>1, WithIs
      <3> QED
        BY <3>2 DEF OneMore
    <2>3. new[y][F] = v[h[y]] /\ \A j \in 1..n : new[y][AXIS_ORDER[j]] = d[AXIS_ORDER[j]]
      <3>1. new[y] = With(d, AXIS_ORDER[n + 1], v[h[y]])
        BY <1>2
      <3>2. OneMore(new[y], d, n, v[h[y]])
        BY <2>1, <3>1, WithIs
      <3> QED
        BY <3>2 DEF OneMore
    <2> QED
      BY <2>2, <2>3
  <1>4. CASE g[x] < g[y]
    <2>1. Less(c, d, n)
      BY <1>2, <1>4
    <2>2. PICK k \in 1..n : /\ \A j \in 1..(k - 1) : c[AXIS_ORDER[j]] = d[AXIS_ORDER[j]]
                            /\ Before(AXIS_ORDER[k], c[AXIS_ORDER[k]], d[AXIS_ORDER[k]])
      BY <2>1 DEF Less
    <2> HIDE DEF c, d
    <2>3. /\ k \in 1..(n + 1)
          /\ \A j \in 1..(k - 1) : new[x][AXIS_ORDER[j]] = new[y][AXIS_ORDER[j]]
          /\ Before(AXIS_ORDER[k], new[x][AXIS_ORDER[k]], new[y][AXIS_ORDER[k]])
      BY <1>0, <1>3, <2>2
    <2> QED
      BY <2>3 DEF Less
  <1>5. CASE g[x] = g[y] /\ h[x] < h[y]
    <2>1. c = d /\ u = v
      BY <1>5
    <2>2. Ordered(F, u)
      BY <1>0, ApplicableIs
    <2>3. Before(F, u[h[x]], v[h[y]])
      BY <1>2, <1>5, <2>1, <2>2 DEF Ordered
    <2> HIDE DEF c, d, u, v
    <2>4. \A j \in 1..n : new[x][AXIS_ORDER[j]] = new[y][AXIS_ORDER[j]]
      BY <1>3, <2>1
    <2> QED
      BY <1>0, <1>3, <2>3, <2>4 DEF Less
  <1> QED
    BY <1>2, <1>4, <1>5

LEMMA CasesAre ==
  ASSUME NEW f, IsFilter(f)
  PROVE  /\ IterCases(f) \in Seq(CaseSet(f))
         /\ ToSet(IterCases(f)) = {c \in CaseSet(f) : Chosen(f, c, 10)}
         /\ InAxisOrder(f) =>
              \A i, j \in DOMAIN IterCases(f) :
                 i < j => Less(IterCases(f)[i], IterCases(f)[j], 10)
  <1>1. PICK loop : IterLoop(loop, f)
    BY IterTrace
  <1> DEFINE Sorted(n) == \A i, j \in DOMAIN loop[n] : i < j => Less(loop[n][i], loop[n][j], n)
             T == {n \in 0..10 : /\ ToSet(loop[n]) = {c \in CaseSet(f) : Chosen(f, c, n)}
                                 /\ InAxisOrder(f) => Sorted(n)}
  <1>2. 0 \in T
    <2>1. loop[0] = << <<>> >> /\ loop[0] \in Seq(CaseSet(f)) /\ DOMAIN loop[0] = {1}
      <3> DEFINE e == <<>>
      <3>1. loop[0] = <<e>> /\ loop[0] \in Seq(CaseSet(f))
        <4>1. 0 \in 0..10
          OBVIOUS
        <4> QED
          BY <1>1, <4>1 DEF IterLoop
      <3>2. DOMAIN <<e>> = {1}
        <4> HIDE DEF e
        <4> QED OBVIOUS
      <3> QED
        BY <3>1, <3>2
    <2>2. ToSet(loop[0]) = {<<>>}
      BY <2>1 DEF ToSet
    <2>3. <<>> \in CaseSet(f)
      BY <2>1
    <2>4. Chosen(f, <<>>, 0)
      BY FieldIs DEF Chosen
    <2>5. ASSUME NEW c \in CaseSet(f), Chosen(f, c, 0)
          PROVE  c = <<>>
      <3>1. DOMAIN c = {}
        BY <2>5, FieldIs DEF Chosen
      <3>2. c = [field \in DOMAIN c |-> c[field]]
        BY DEF CaseSet
      <3>3. c \in [1..0 -> {}]
        BY <3>1, <3>2
      <3> QED
        BY <3>3
    <2>6. Sorted(0)
      BY <2>1
    <2> HIDE DEF Sorted
    <2> QED
      BY <2>2, <2>3, <2>4, <2>5, <2>6
  <1>3. ASSUME NEW m \in 0..10, m < 10, m \in T
        PROVE  m + 1 \in T
    <2>1. m \in 0..9 /\ m + 1 \in 1..10 /\ m + 1 \in 0..10 /\ (m + 1) - 1 = m
      BY <1>3
    <2>2. loop[m] \in Seq(CaseSet(f)) /\ loop[m + 1] = Nested(f, loop[m], AXIS_ORDER[m + 1])
      BY <1>1, <2>1 DEF IterLoop
    <2>3. ToSet(loop[m]) = {c \in CaseSet(f) : Chosen(f, c, m)} /\ (InAxisOrder(f) => Sorted(m))
      BY <1>3
    <2>4. ToSet(loop[m + 1]) = {c \in CaseSet(f) : Chosen(f, c, m + 1)}
      BY <2>1, <2>2, <2>3, ChosenStep
    <2>5. ASSUME InAxisOrder(f)
          PROVE  Sorted(m + 1)
      <3>1. \A i \in DOMAIN loop[m] : DOMAIN loop[m][i] = FieldsTo(m)
        BY <2>3 DEF ToSet, Chosen
      <3>2. \A i, j \in DOMAIN loop[m] : i < j => Less(loop[m][i], loop[m][j], m)
        BY <2>3, <2>5
      <3> QED
        BY <2>1, <2>2, <2>5, <3>1, <3>2, LessStep
    <2> QED
      BY <2>1, <2>4, <2>5
  <1> HIDE DEF T
  <1>4. 0..10 \subseteq T
    BY <1>2, <1>3, Induct
  <1>5. 10 \in T
    BY <1>4
  <1> QED
    BY <1>1, <1>5 DEF T, IterLoop

-----------------------------------------------------------------------------
(* The universe and the selection *)

LEMMA NoFilterIs == IsFilter(NoFilter) /\ InAxisOrder(NoFilter) /\ DOMAIN NoFilter = {}
  BY DEF NoFilter, IsFilter, InAxisOrder

LEMMA LessIs ==
  ASSUME NEW c, NEW d
  PROVE  ~Less(c, c, 10) /\ (Less(c, d, 10) => ~Less(d, c, 10))
  <1>1. ~Less(c, c, 10)
    BY BeforeIs, FieldIs DEF Less
  <1>2. ASSUME Less(c, d, 10), Less(d, c, 10)
        PROVE  FALSE
    <2>1. PICK k \in 1..10 : /\ \A j \in 1..(k - 1) : c[AXIS_ORDER[j]] = d[AXIS_ORDER[j]]
                             /\ Before(AXIS_ORDER[k], c[AXIS_ORDER[k]], d[AXIS_ORDER[k]])
      BY <1>2 DEF Less
    <2>2. PICK l \in 1..10 : /\ \A j \in 1..(l - 1) : d[AXIS_ORDER[j]] = c[AXIS_ORDER[j]]
                             /\ Before(AXIS_ORDER[l], d[AXIS_ORDER[l]], c[AXIS_ORDER[l]])
      BY <1>2 DEF Less
    <2>3. CASE k < l
      <3>1. k \in 1..(l - 1)
        BY <2>3
      <3> QED
        BY <2>1, <2>2, <3>1, BeforeIs, FieldIs
    <2>4. CASE l < k
      <3>1. l \in 1..(k - 1)
        BY <2>4
      <3> QED
        BY <2>1, <2>2, <3>1, BeforeIs, FieldIs
    <2>5. CASE k = l
      BY <2>1, <2>2, <2>5, BeforeIs, FieldIs
    <2> QED
      BY <2>3, <2>4, <2>5
  <1> QED
    BY <1>1, <1>2

(* The universe (case_index) is every case whose values apply to it, each   *)
(* once, in the order of the axes: the job id of a case, its place in the   *)
(* universe, stands for this case only.                                     *)
THEOREM UniverseCounts ==
  /\ Universe \in Seq(CaseSet(NoFilter)) /\ IsInjective(Universe)
  /\ ToSet(Universe) = {c \in CaseSet(NoFilter) : Chosen(NoFilter, c, 10)}
  /\ \A i, j \in DOMAIN Universe : i < j => Less(Universe[i], Universe[j], 10)
  <1>1. /\ Universe \in Seq(CaseSet(NoFilter))
        /\ ToSet(Universe) = {c \in CaseSet(NoFilter) : Chosen(NoFilter, c, 10)}
        /\ \A i, j \in DOMAIN Universe : i < j => Less(Universe[i], Universe[j], 10)
    BY NoFilterIs, CasesAre DEF Universe
  <1>2. ASSUME NEW i \in DOMAIN Universe, NEW j \in DOMAIN Universe, Universe[i] = Universe[j]
        PROVE  i = j
    <2>1. i \in Nat /\ j \in Nat
      BY <1>1
    <2>2. ~(i < j) /\ ~(j < i)
      BY <1>1, <1>2, LessIs
    <2> QED
      BY <2>1, <2>2
  <1> QED
    BY <1>1, <1>2 DEF IsInjective

LEMMA JobIdIs ==
  /\ \A c \in ToSet(Universe) : JobId(c) \in DOMAIN Universe /\ Universe[JobId(c)] = c
  /\ \A id \in DOMAIN Universe : JobId(Universe[id]) = id
  <1>1. \A c \in ToSet(Universe) : JobId(c) \in DOMAIN Universe /\ Universe[JobId(c)] = c
    BY DEF JobId, ToSet
  <1>2. \A id \in DOMAIN Universe : Universe[id] \in ToSet(Universe)
    BY DEF ToSet
  <1> QED
    BY <1>1, <1>2, UniverseCounts DEF IsInjective

(* A case of the universe is in the loops of a filter if it matches it. *)
LEMMA MatchIs ==
  ASSUME NEW f, IsFilter(f), NEW c \in ToSet(Universe)
  PROVE  Chosen(f, c, 10) <=> Matches(c, f)
  <1>1. DOMAIN c = DOMAIN Axis /\ Chosen(NoFilter, c, 10)
    BY UniverseCounts, OrderIs DEF Chosen
  <1>2. ASSUME NEW field \in DOMAIN Axis
        PROVE  c[field] \in ToSet(Applicable(f, c, field)) <=>
                 (field \in DOMAIN f =>
                    c[field] \in ToSet(f[field]) \/ Plain(c, field))
    <2>0. c[field] \in ToSet(Applicable(NoFilter, c, field))
      BY <1>1, <1>2, OrderIs DEF Chosen, FieldsTo
    <2>1. CASE field \notin DOMAIN f
      <3>1. Wanted(f, field) = Axis[field] /\ Wanted(NoFilter, field) = Axis[field]
        BY <2>1, NoFilterIs, WantedIs
      <3>2. Applicable(f, c, field) = Applicable(NoFilter, c, field)
        BY <3>1 DEF Applicable
      <3> QED
        BY <2>0, <2>1, <3>2
    <2>2. CASE field \in DOMAIN f /\ Plain(c, field)
      <3>1. Applicable(f, c, field) = <<"-">> /\ Applicable(NoFilter, c, field) = <<"-">>
        BY <2>2, NoFilterIs, ApplicableIs
      <3> QED
        BY <2>0, <2>2, <3>1
    <2>3. CASE field \in DOMAIN f /\ ~Plain(c, field)
      <3>1. /\ Wanted(NoFilter, field) = Axis[field]
            /\ c[field] \in ToSet(Axis[field]) =>
                 (c[field] \in ToSet(Wanted(f, field)) <=> c[field] \in ToSet(f[field]))
        BY <2>3, NoFilterIs, WantedIs
      <3>2. CASE Multi(c, field)
        <4>1. ToSet(Applicable(f, c, field)) = ToSet(Wanted(f, field)) \cap MultiModes
          BY <3>2, ApplicableIs
        <4>2. ToSet(Applicable(NoFilter, c, field)) = ToSet(Axis[field]) \cap MultiModes
          BY <3>1, <3>2, NoFilterIs, ApplicableIs
        <4> QED
          BY <2>0, <2>3, <3>1, <4>1, <4>2
      <3>3. CASE ~Multi(c, field)
        <4>1. Applicable(f, c, field) = Wanted(f, field)
          BY <2>3, <3>3, ApplicableIs
        <4>2. Applicable(NoFilter, c, field) = Axis[field]
          BY <2>3, <3>1, <3>3, NoFilterIs, ApplicableIs
        <4> QED
          BY <2>0, <2>3, <3>1, <4>1, <4>2
      <3> QED
        BY <3>2, <3>3
    <2> QED
      BY <2>1, <2>2, <2>3
  <1>3. Chosen(f, c, 10) <=> \A field \in DOMAIN Axis : c[field] \in ToSet(Applicable(f, c, field))
    BY <1>1, OrderIs DEF Chosen, FieldsTo
  <1>4. Matches(c, f) <=> \A field \in DOMAIN f : c[field] \in ToSet(f[field]) \/ Plain(c, field)
    BY DEF Matches, Plain
  <1>5. DOMAIN f \subseteq DOMAIN Axis
    BY DEF IsFilter
  <1> QED
    BY <1>2, <1>3, <1>4, <1>5

LEMMA FilteredIs ==
  ASSUME NEW f
  PROVE  /\ Filtered(f) \in Seq(Nat) /\ Increasing(Filtered(f))
         /\ ToSet(Filtered(f)) = {id \in DOMAIN Universe : Matches(Universe[id], f)}
  <1> DEFINE n == Len(Universe)
             all == [id \in DOMAIN Universe |-> id]
             wanted == {id \in DOMAIN Universe : Matches(Universe[id], f)}
             s == Keep(all, wanted)
  <1>1. DOMAIN Universe = 1..n /\ n \in Nat
    BY UniverseCounts
  <1>2. /\ all \in Seq(Nat) /\ ToSet(all) = DOMAIN Universe /\ Len(all) = n
        /\ \A id \in 1..n : all[id] = id
    <2>1. all \in [1..n -> Nat]
      BY <1>1
    <2> HIDE DEF n
    <2> QED
      BY <1>1, <2>1 DEF ToSet
  <1>3. Filtered(f) = s
    BY DEF Filtered
  <1> HIDE DEF all, n
  <1>4. /\ s \in Seq(Nat) /\ ToSet(s) = ToSet(all) \cap wanted
        /\ \E at : IsKept(s, at, all, n, wanted)
    <2> HIDE DEF wanted
    <2> QED
      BY <1>2, KeepIs
  <1>5. PICK at : IsKept(s, at, all, n, wanted)
    BY <1>4
  <1> HIDE DEF s
  <1>6. at \in [DOMAIN s -> 1..n] /\ Increasing(at) /\ \A p \in DOMAIN s : s[p] = at[p]
    BY <1>2, <1>5 DEF IsKept
  <1>7. Increasing(s)
    BY <1>6 DEF Increasing
  <1>8. ToSet(s) = wanted
    BY <1>2, <1>4
  <1> QED
    BY <1>3, <1>4, <1>7, <1>8

(* For any axes and any filter, what the ten loops of select_cases come to  *)
(* are the ids of the cases that match the filter, each looked at by        *)
(* itself; and unless workloads or batch sizes are given in an order of     *)
(* their own, the same ids in the order of the universe.                    *)
THEOREM SelectionMatches ==
  ASSUME NEW f, IsFilter(f), Known(f)
  PROVE  /\ SelectCases(f) \in Seq(Nat)
         /\ ToSet(SelectCases(f)) = ToSet(Filtered(f))
         /\ InAxisOrder(f) => SelectCases(f) = Filtered(f)
  <1> DEFINE cases == IterCases(f)
             ids == SelectCases(f)
  <1>1. /\ cases \in Seq(CaseSet(f)) /\ ToSet(cases) \subseteq ToSet(Universe)
        /\ ToSet(cases) = {c \in CaseSet(f) : Chosen(f, c, 10)}
        /\ InAxisOrder(f) =>
             \A i, j \in DOMAIN cases : i < j => Less(cases[i], cases[j], 10)
        /\ ids = [i \in DOMAIN cases |-> JobId(cases[i])]
    BY CasesAre DEF Known, SelectCases
  <1> HIDE DEF cases, ids
  <1>2. \A i \in DOMAIN cases : cases[i] \in ToSet(cases)
    BY DEF ToSet
  <1>3. \A i \in DOMAIN cases : /\ ids[i] \in DOMAIN Universe /\ Universe[ids[i]] = cases[i]
                                /\ ids[i] \in Nat
    <2>1. \A i \in DOMAIN cases : ids[i] \in DOMAIN Universe /\ Universe[ids[i]] = cases[i]
      BY <1>1, <1>2, JobIdIs
    <2> QED
      BY <2>1, UniverseCounts
  <1>4. ids \in Seq(Nat) /\ DOMAIN ids = DOMAIN cases
    <2>1. DOMAIN cases = 1..Len(cases) /\ Len(cases) \in Nat
      BY <1>1
    <2>2. ids \in [1..Len(cases) -> Nat]
      BY <1>1, <1>3, <2>1
    <2> QED
      BY <2>1, <2>2
  <1>5. ToSet(ids) = ToSet(Filtered(f))
    <2>1. ASSUME NEW i \in DOMAIN cases
          PROVE  Matches(Universe[ids[i]], f)
      <3>1. Chosen(f, cases[i], 10) /\ cases[i] \in ToSet(Universe)
        BY <1>1, <1>2
      <3> QED
        BY <1>3, <3>1, MatchIs
    <2>2. ASSUME NEW id \in DOMAIN Universe, Matches(Universe[id], f)
          PROVE  id \in ToSet(ids)
      <3> DEFINE c == Universe[id]
      <3>1. c \in ToSet(Universe)
        BY DEF ToSet
      <3>2. Chosen(f, c, 10)
        BY <2>2, <3>1, MatchIs
      <3>3. c \in CaseSet(f)
        <4>1. PICK fields \in SUBSET DOMAIN Axis : c \in [fields -> Values(NoFilter)]
          BY <3>1, UniverseCounts DEF CaseSet
        <4>2. DOMAIN c = DOMAIN Axis /\ c = [field \in DOMAIN c |-> c[field]]
          BY <3>2, <4>1, OrderIs DEF Chosen
        <4>3. ASSUME NEW field \in DOMAIN Axis
              PROVE  c[field] \in Values(f)
          <5>1. PICK k \in 1..10 : field = AXIS_ORDER[k]
            BY OrderIs DEF FieldsTo
          <5>2. c[field] \in ToSet(Applicable(f, c, field))
            BY <3>2, <5>1 DEF Chosen
          <5>3. Applicable(f, c, field) \in Seq({"-"} \union ToSet(Wanted(f, field)))
            BY ApplicableIs
          <5>4. c[field] \in {"-"} \union ToSet(Wanted(f, field))
            BY <5>2, <5>3 DEF ToSet
          <5> QED
            BY <5>4 DEF Values
        <4>4. c \in [DOMAIN Axis -> Values(f)]
          BY <4>2, <4>3
        <4> QED
          BY <4>4 DEF CaseSet
      <3>4. PICK i \in DOMAIN cases : cases[i] = c
        BY <1>1, <3>2, <3>3 DEF ToSet
      <3>5. ids[i] = id
        BY <1>1, <3>4, JobIdIs
      <3> QED
        BY <1>4, <3>5 DEF ToSet
    <2>3. ToSet(ids) = {id \in DOMAIN Universe : Matches(Universe[id], f)}
      BY <1>3, <1>4, <2>1, <2>2 DEF ToSet
    <2> QED
      BY <2>3, FilteredIs
  <1>6. ASSUME InAxisOrder(f)
        PROVE  ids = Filtered(f)
    <2>1. ASSUME NEW i \in DOMAIN ids, NEW j \in DOMAIN ids, i < j
          PROVE  ids[i] < ids[j]
      <3>1. Less(Universe[ids[i]], Universe[ids[j]], 10)
        BY <1>1, <1>3, <1>4, <1>6, <2>1
      <3>2. ids[i] # ids[j]
        BY <3>1, LessIs
      <3>3. ~(ids[j] < ids[i])
        BY <1>3, <1>4, <3>1, UniverseCounts, LessIs
      <3>4. ids[i] \in Nat /\ ids[j] \in Nat
        BY <1>3, <1>4
      <3> QED
        BY <3>2, <3>3, <3>4
    <2>2. Increasing(ids)
      BY <2>1 DEF Increasing
    <2> QED
      BY <1>4, <1>5, <2>2, FilteredIs, IncreasingUnique
  <1> QED
    BY <1>4, <1>5, <1>6 DEF ids

(* RowsAreTheSelection says this of the rows. *)
Selected(ids, arg) ==
  IF arg.kind = "rerun"
  THEN ToSet(ids) = {row.job : row \in {r \in ToSet(Source) : r.status \in arg.statuses}}
  ELSE LET filtered == Filtered(arg.filter)
       IN  /\ ToSet(ids) \subseteq ToSet(filtered)
           /\ arg.how.mode = "all" => ToSet(ids) = ToSet(filtered)
           /\ arg.how.mode = "job_ids" => ToSet(ids) = ToSet(arg.how.ids)
           /\ InAxisOrder(arg.filter) =>
                /\ arg.how.mode = "all" => ids = filtered
                /\ arg.how.mode = "max_cases" => IsPrefix(ids, filtered)

LEMMA FirstAre ==
  ASSUME NEW s \in Seq(Nat), NEW m \in Int, m > 0
  PROVE  LET t == SubSeq(s, 1, Min({m, Len(s)}))
         IN  ToSet(t) \subseteq ToSet(s) /\ IsPrefix(t, s)
  <1> DEFINE k == Min({m, Len(s)})
             t == SubSeq(s, 1, k)
  <1>1. k \in {m, Len(s)} /\ k <= m /\ k <= Len(s)
    <2>1. \E x \in {m, Len(s)} : \A y \in {m, Len(s)} : x <= y
      <3>1. m <= Len(s) \/ Len(s) <= m
        OBVIOUS
      <3> QED
        BY <3>1
    <2> QED
      BY <2>1 DEF Min
  <1>2. k \in Nat /\ k <= Len(s)
    BY <1>1
  <1> HIDE DEF k
  <1>3. t \in Seq(Nat) /\ Len(t) = k /\ \A i \in 1..k : t[i] = s[i]
    BY <1>2
  <1>4. ToSet(t) \subseteq ToSet(s)
    BY <1>2, <1>3 DEF ToSet
  <1>5. IsPrefix(t, s)
    BY <1>2, <1>3 DEF IsPrefix
  <1> QED
    BY <1>4, <1>5 DEF k

LEMMA NarrowIs ==
  ASSUME NEW arg \in Args, arg.kind # "rerun", Known(arg.filter),
         NEW ids \in Narrow(SelectCases(arg.filter), arg.how)
  PROVE  Selected(ids, arg)
  <1> DEFINE f == arg.filter
             s == SelectCases(f)
             how == arg.how
  <1>1. /\ IsFilter(f) /\ how.mode \in {"all", "job_ids", "sample", "max_cases"}
        /\ how.mode = "job_ids" => how.ids \in Seq(Int)
        /\ how.mode = "max_cases" => how.n \in Int
    BY ArgsAssumption DEF IsFilter
  <1>2. /\ s \in Seq(Nat) /\ ToSet(s) = ToSet(Filtered(f))
        /\ InAxisOrder(f) => s = Filtered(f)
    BY <1>1, SelectionMatches
  <1>3. ids \in Narrow(s, how)
    OBVIOUS
  <1>4. arg.kind # "rerun"
    OBVIOUS
  <1> HIDE DEF f, s, how
  <1>5. CASE how.mode = "all"
    <2>1. ids = s
      BY <1>3, <1>5 DEF Narrow
    <2> QED
      BY <1>2, <1>4, <1>5, <2>1 DEF Selected, f, how
  <1>6. CASE how.mode = "job_ids"
    <2>1. ids = Unique(how.ids) /\ ToSet(ids) \subseteq ToSet(s)
      BY <1>3, <1>6 DEF Narrow
    <2>2. ToSet(ids) = ToSet(how.ids)
      BY <1>1, <1>6, <2>1, UniqueIs
    <2> QED
      BY <1>2, <1>4, <1>6, <2>1, <2>2 DEF Selected, f, how
  <1>7. CASE how.mode = "sample"
    <2> DEFINE m == Min({how.n, Len(s)})
    <2>1. ids \in {[i \in 1..m |-> s[at[i]]] :
                     at \in {g \in [1..m -> DOMAIN s] : how.n > 0 /\ IsInjective(g)}}
      BY <1>3, <1>7 DEF Narrow
    <2> HIDE DEF m
    <2>2. PICK at \in [1..m -> DOMAIN s] : ids = [i \in 1..m |-> s[at[i]]]
      BY <2>1
    <2>3. ToSet(ids) \subseteq ToSet(s)
      BY <2>2 DEF ToSet
    <2> QED
      BY <1>2, <1>4, <1>7, <2>3 DEF Selected, f, how
  <1>8. CASE how.mode = "max_cases"
    <2> DEFINE first(n) == SubSeq(s, 1, Min({n, Len(s)}))
    <2>1. ids \in {first(n) : n \in {how.n} \cap (Nat \ {0})}
      BY <1>3, <1>8 DEF Narrow
    <2> HIDE DEF first
    <2>2. how.n \in Int /\ how.n > 0 /\ ids = first(how.n)
      BY <1>1, <1>8, <2>1
    <2>3. ToSet(ids) \subseteq ToSet(s) /\ IsPrefix(ids, s)
      BY <1>2, <2>2, FirstAre DEF first
    <2> QED
      BY <1>2, <1>4, <1>8, <2>3 DEF Selected, f, how
  <1> QED
    BY <1>1, <1>5, <1>6, <1>7, <1>8

LEMMA AgainIs ==
  ASSUME NEW arg \in Args, arg.kind = "rerun"
  PROVE  Selected(Again(Source, arg.statuses), arg)
  <1> DEFINE wanted == {row \in ToSet(Source) : row.status \in arg.statuses}
             chosen == Keep(Source, wanted)
             ids == Again(Source, arg.statuses)
  <1>1. ids = [i \in DOMAIN chosen |-> chosen[i].job]
    BY DEF Again
  <1>2. ToSet(chosen) = wanted
    <2>1. ToSet(chosen) = ToSet(Source) \cap wanted
      <3> HIDE DEF wanted
      <3> QED BY SourceAssumption, KeepIs
    <2> QED
      BY <2>1
  <1> HIDE DEF chosen, ids, wanted
  <1>3. ToSet(ids) = {row.job : row \in ToSet(chosen)}
    BY <1>1 DEF ToSet
  <1> QED
    BY <1>2, <1>3 DEF Selected, wanted, ids

LEMMA PlansAre ==
  ASSUME NEW plan \in Plans
  PROVE  Selected(plan.ids, plan.arg)
  <1>1. PICK arg \in Args : plan \in {[arg |-> arg, ids |-> ids] : ids \in Selections(arg) \ {<<>>}}
    BY DEF Plans
  <1>2. plan.arg = arg /\ plan.ids \in Selections(arg)
    BY <1>1
  <1>3. CASE arg.kind = "rerun"
    <2>1. plan.ids = Again(Source, arg.statuses)
      BY <1>2, <1>3 DEF Selections
    <2> QED
      BY <1>2, <1>3, <2>1, AgainIs
  <1>4. CASE arg.kind # "rerun"
    <2>1. Known(arg.filter) /\ plan.ids \in Narrow(SelectCases(arg.filter), arg.how)
      BY <1>2, <1>4 DEF Selections
    <2> QED
      BY <1>2, <1>4, <2>1, NarrowIs
  <1> QED
    BY <1>3, <1>4

-----------------------------------------------------------------------------
(* The rows are the selection *)

(* A run has every case of its selection once. *)
OnceEach == \A i, j \in DOMAIN rows : rows[i].job = rows[j].job => i = j

LEMMA StepOnce ==
  ASSUME TypeInv, OnceEach, [Next]_vars
  PROVE  OnceEach'
  <1>1. RowsMove
    BY RowsStep
  <1>2. CASE UNCHANGED rows
    BY <1>2 DEF OnceEach
  <1>3. ASSUME NEW a \in Agents, At(a, "insert"), IsInjective(proc[a].plan.ids),
               rows' = NewRows(proc[a].plan.ids)
        PROVE  OnceEach'
    BY <1>3, NewRowsTyped DEF OnceEach, IsInjective
  <1>4. ASSUME rows' \in [DOMAIN rows -> RowRec],
               \A i \in DOMAIN rows : rows'[i].job = rows[i].job
        PROVE  OnceEach'
    <2>1. DOMAIN rows' = DOMAIN rows
      BY <1>4
    <2> QED
      BY <1>4, <2>1 DEF OnceEach
  <1> QED
    BY <1>1, <1>2, <1>3, <1>4 DEF RowsMove

LEMMA SelectionFollows ==
  ASSUME TypeInv, RowsAreOfTheRun, OnceEach
  PROVE  RowsAreTheSelection
  <1> SUFFICES ASSUME rows # <<>> PROVE RowsAreTheSelection
    BY DEF RowsAreTheSelection
  <1>1. run \in RunRec /\ RowIds = run.plan.ids
    BY Fields DEF RowsAreOfTheRun
  <1>2. Selected(RowIds, run.plan.arg)
    BY <1>1, PlansAre DEF RunRec
  <1>3. IsInjective(RowIds)
    BY DEF OnceEach, RowIds, IsInjective
  <1> QED
    BY <1>2, <1>3 DEF RowsAreTheSelection, Selected

(* Whatever the axes and the command line, the rows of a run are the cases  *)
(* that match the filters, each once; all, those asked for or some of them, *)
(* and in the order of the universe but for workloads and batch sizes;      *)
(* those of a rerun are the cases of its source that ended that way         *)
(* (iter_cases, select_cases, apply_selection, cmd_rerun):                  *)
(* RowsAreTheSelection.                                                     *)
THEOREM RecordSelection == Spec => []RowsAreTheSelection
  <1>1. Init => OnceEach
    BY DEF Init, OnceEach
  <1>2. TypeInv /\ OnceEach /\ [Next]_vars => OnceEach'
    BY StepOnce
  <1>3. TypeInv /\ RowsAreOfTheRun /\ OnceEach => RowsAreTheSelection
    BY SelectionFollows
  <1> QED
    BY <1>1, <1>2, <1>3, TypesHold, RecordRows, PTL DEF Spec
=============================================================================
