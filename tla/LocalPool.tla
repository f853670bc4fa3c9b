------------------------------ MODULE LocalPool ------------------------------
(***************************************************************************)
(* A run of the matrix under --executor local.  run_local_scheduler        *)
(* (matrix_jobs.py) keeps up to K wrapper processes (matrix_job.py) alive, *)
(* each of which starts run.sh for one case, in a session of its own.  The *)
(* scheduler finds the cases to start in the ledger, and learns from the   *)
(* exit of a wrapper that its case is over; "resume" starts a scheduler    *)
(* again after an interruption and "cancel" ends the run, both on the      *)
(* strength of the process ids the ledger has.                             *)
(*                                                                         *)
(* One step is one ledger transaction, one read of it, or one system call  *)
(* on a process, as in SlurmChain.                                         *)
(***************************************************************************)
EXTENDS Ledger, FiniteSets

CONSTANTS
  N,            \* n_jobs: cases of the run, numbered by seq 1..N
  K,            \* k: wrappers kept alive
  Coords,       \* processes of the user that can be up at the same time
  Submitter,    \* the one that runs "submit" first
  Outcomes,     \* outcomes of run_case that occur
  Faults,       \* unusual events that occur, out of FaultKinds
  MaxLaunches,  \* bound: process ids handed out
  MaxFaults     \* bound: number of unusual events in a behaviour

FaultKinds == {"slow", "kill", "crash", "interrupt", "fork", "locked", "config",
               "resume", "force", "cancel"}
CaseVerdicts == {"success", "failed", "timeout", "error"}
RunVerdicts == {"complete", "complete_with_failures"}

ASSUME SizesAssumption ==
  /\ N \in Nat \ {0} /\ K \in Nat \ {0}
  /\ MaxLaunches \in Nat /\ MaxFaults \in Nat
ASSUME KindsAssumption ==
  /\ Submitter \in Coords
  /\ Outcomes \subseteq CaseVerdicts
  /\ Faults \subseteq FaultKinds

Jobs == 1..N
Pids == 1..MaxLaunches
NoPid == 0      \* NULL in the columns wrapper_pid and pid

VARIABLES
  row,     \* the ledger's rows
  run,     \* the column "status" of the run
  proc,    \* wrappers, by process id, each with the child it starts
  coord,   \* the state of each command of the user
  budget   \* unusual events still allowed

vars == <<row, run, proc, coord, budget>>

(* A child is known by the id of its wrapper. *)
LocalRow == [status |-> "pending", wrapper_pid |-> NoPid, pid |-> NoPid]
NoProc == [job |-> 0, pc |-> "free", verdict |-> "none", child |-> "none"]

(* procs: the dictionary of the scheduler; todo: rows still to be handled  *)
(* of those read, job: the one at hand; wrapper_pid and pid: as they were  *)
(* when the rows were read.                                                *)
NoPids == [j \in Jobs |-> NoPid]
NoCoord == [op |-> "none", pc |-> "idle", procs |-> NoPids, todo |-> {}, job |-> 0,
            wrapper_pid |-> NoPids, pid |-> NoPids]

Init ==
  /\ row = [j \in Jobs |-> LocalRow]
  /\ run = "pending"
  /\ proc = [p \in Pids |-> NoProc]
  /\ coord = [c \in Coords |->
                IF c = Submitter THEN [NoCoord EXCEPT !.op = "submit", !.pc = "begin"]
                                 ELSE NoCoord]
  /\ budget = MaxFaults

First(S) == {j \in S : \A m \in S : j <= m}
Fault(kind) == kind \in Faults /\ budget > 0 /\ budget' = budget - 1

(* The statements of Ledger on rows with process ids. *)
Running(rows, j) ==
  Transition(rows, j, RunnableStatuses, [rows[j] EXCEPT !.status = "running", !.pid = NoPid])
EndedTwice(rows, j, status) ==   \* Mutant: no condition on the status.
  Transition(rows, j, Statuses, [LocalRow EXCEPT !.status = status])
Ended(rows, j, status) ==
  Transition(rows, j, OPEN_STATUSES, [LocalRow EXCEPT !.status = status])
Requeued(rows, j) == Transition(rows, j, OPEN_STATUSES, LocalRow)

(* set_wrapper_pid, set_pid: no guard on the status. *)
SetWrapperPid(rows, j, p) == [rows EXCEPT ![j].wrapper_pid = p]
SetPid(rows, j, p) == [rows EXCEPT ![j].pid = p]

-----------------------------------------------------------------------------
(* The wrapper: matrix_job.py *)

Case(p) == proc[p].job
Alive(p) == proc[p].pc \notin {"free", "exited"}
Awaited(p) == proc[p].pc \in {"on_start", "communicate"}   \* its wrapper looks at the child
Goto(p, pc) == proc' = [proc EXCEPT ![p].pc = pc]

(* main reads its row and leaves if it is terminal. *)
ReadRow(p) ==
  /\ proc[p].pc = "read"
  /\ Goto(p, IF Terminal(row, Case(p)) THEN "exited" ELSE "claim")
  /\ UNCHANGED <<row, run, coord, budget>>

(* No template: exit 2 with the row untouched. *)
MissingTemplate(p) ==
  /\ proc[p].pc = "claim"
  /\ Fault("config")
  /\ Goto(p, "exited")
  /\ UNCHANGED <<row, run, coord>>

(* The configuration cannot be prepared: the row is ended, whoever runs it. *)
BadConfig(p) ==
  /\ proc[p].pc = "claim"
  /\ Fault("config")
  /\ row' = Ended(row, Case(p), "error")
  /\ Goto(p, "finalize")
  /\ UNCHANGED <<run, coord>>

ClaimUnasked(p) ==   \* Mutant: the answer of mark_running is not looked at.
  /\ proc[p].pc = "claim"
  /\ row' = Running(row, Case(p))
  /\ Goto(p, "spawn")
  /\ UNCHANGED <<run, coord, budget>>

ClaimRun(p) ==
  /\ proc[p].pc = "claim"
  /\ row' = Running(row, Case(p))
  /\ Goto(p, IF row[Case(p)].status \in RunnableStatuses THEN "spawn" ELSE "exited")
  /\ UNCHANGED <<run, coord, budget>>

(* run_case: the child is started, or an exception ends the case ... *)
Spawn(p) ==
  /\ proc[p].pc = "spawn"
  /\ \/ proc' = [proc EXCEPT ![p].pc = "on_start", ![p].child = "running"]
     \/ /\ "error" \in Outcomes
        /\ proc' = [proc EXCEPT ![p].pc = "finish", ![p].verdict = "error"]
  /\ UNCHANGED <<row, run, coord, budget>>

(* ... its id is written to the row; if that fails, so does the case, and  *)
(* the child goes on ...                                                    *)
OnStart(p) ==
  /\ proc[p].pc = "on_start"
  /\ \/ /\ row' = SetPid(row, Case(p), p)
        /\ Goto(p, "communicate")
        /\ UNCHANGED budget
     \/ /\ Fault("locked")
        /\ proc' = [proc EXCEPT ![p].pc = "finish", ![p].verdict = "error"]
        /\ UNCHANGED row
  /\ UNCHANGED <<run, coord>>

(* ... it ends by itself or by the timeout of its wrapper ... *)
ChildEnds(p) ==
  /\ proc[p].child = "running"
  /\ \E v \in Outcomes \ {"error"} :
       /\ v = "timeout" => proc[p].pc = "communicate"
       /\ proc' = [proc EXCEPT ![p].child = "ended",
                               ![p].verdict = IF Awaited(p) THEN v ELSE @]
  /\ UNCHANGED <<row, run, coord, budget>>

(* ... and its id is written once more. *)
Communicate(p) ==
  /\ proc[p].pc = "communicate"
  /\ proc[p].child = "ended"
  /\ row' = SetPid(row, Case(p), p)
  /\ Goto(p, "finish")
  /\ UNCHANGED <<run, coord, budget>>

Finish(p) ==
  /\ proc[p].pc = "finish"
  /\ row' = Ended(row, Case(p), proc[p].verdict)
  /\ Goto(p, "finalize")
  /\ UNCHANGED <<run, coord, budget>>

(* Mutant: the verdict is given without asking whether every row has ended. *)
ConcludeEarly(p) ==
  /\ proc[p].pc = "finalize"
  /\ Goto(p, IF run # "cancelled" THEN Verdict(row) ELSE "exited")
  /\ UNCHANGED <<row, run, coord, budget>>

(* maybe_analyze and finalize_run: the reads, then the write of what was read. *)
Conclude(p) ==
  /\ proc[p].pc = "finalize"
  /\ Goto(p, IF run # "cancelled" /\ AllTerminal(row) THEN Verdict(row) ELSE "exited")
  /\ UNCHANGED <<row, run, coord, budget>>

WriteVerdict(p) ==
  /\ proc[p].pc \in RunVerdicts
  /\ run' = proc[p].pc
  /\ Goto(p, "exited")
  /\ UNCHANGED <<row, coord, budget>>

Wrapper(p) ==
  \/ ReadRow(p) \/ MissingTemplate(p) \/ BadConfig(p) \/ ClaimRun(p) \/ Spawn(p)
  \/ OnStart(p) \/ ChildEnds(p) \/ Communicate(p) \/ Finish(p) \/ Conclude(p)
  \/ WriteVerdict(p)

(* Out of memory, or a signal: the child is in a session of its own and     *)
(* outlives its wrapper.                                                    *)
Kill(p) ==
  /\ Alive(p)
  /\ Fault("kill")
  /\ Goto(p, "exited")
  /\ UNCHANGED <<row, run, coord>>

-----------------------------------------------------------------------------
(* The scheduler: run_local_scheduler *)

Set(c, state) == coord' = [coord EXCEPT ![c] = state]
Move(c, pc) == Set(c, [coord[c] EXCEPT !.pc = pc])
Quit(c) == Set(c, NoCoord)
At(c, pc) == coord[c].pc = pc

Tracked(c) == {j \in Jobs : coord[c].procs[j] # NoPid}

(* cmd_submit and run_local_scheduler each write that the run has started, *)
(* without a condition on its status.                                      *)
Begin(c) ==
  /\ coord[c].pc \in {"begin", "start"}
  /\ run' = "running"
  /\ Move(c, IF At(c, "begin") THEN "start" ELSE "list")
  /\ UNCHANGED <<row, proc, budget>>

(* The top of the loop, half a second after the last turn.  A wrapper that *)
(* has not marked its row by now is slow, and the row is read as pending.  *)
List(c) ==
  /\ At(c, "list")
  /\ LET pending == WithStatus(row, {"pending"})
     IN  /\ IF \E j \in pending : j \in Tracked(c) /\ Alive(coord[c].procs[j])
            THEN Fault("slow") ELSE UNCHANGED budget
         /\ Set(c, [coord[c] EXCEPT !.pc = "launch", !.todo = pending])
  /\ UNCHANGED <<row, run, proc>>

FreshPid == {p \in Pids : proc[p].pc = "free" /\ \A m \in Pids : m < p => proc[m].pc # "free"}

(* Mutant: one wrapper too many. *)
LaunchOneMore(c) ==
  /\ At(c, "launch")
  /\ Cardinality(Tracked(c)) <= K
  /\ \E j \in First(coord[c].todo) :
       \E p \in FreshPid :
         /\ proc' = [proc EXCEPT ![p].job = j, ![p].pc = "read"]
         /\ Set(c, [coord[c] EXCEPT !.pc = "launched", !.job = j, !.procs[j] = p,
                                    !.todo = @ \ {j}])
  /\ UNCHANGED <<row, run, budget>>

(* Popen; the handle replaces one the dictionary may already have.  If no  *)
(* process can be started, the row is ended.                               *)
Launch(c) ==
  /\ At(c, "launch")
  /\ Cardinality(Tracked(c)) < K
  /\ \E j \in First(coord[c].todo) :
       \/ \E p \in FreshPid :
            /\ proc' = [proc EXCEPT ![p].job = j, ![p].pc = "read"]
            /\ Set(c, [coord[c] EXCEPT !.pc = "launched", !.job = j, !.procs[j] = p,
                                       !.todo = @ \ {j}])
            /\ UNCHANGED <<row, budget>>
       \/ /\ Fault("fork")
          /\ row' = Ended(row, j, "error")
          /\ Set(c, [coord[c] EXCEPT !.todo = @ \ {j}])
          /\ UNCHANGED proc
  /\ UNCHANGED run

(* The id of the wrapper is written; if that fails, the row is ended all   *)
(* the same, and the wrapper goes on.                                      *)
Launched(c) ==
  /\ At(c, "launched")
  /\ LET j == coord[c].job
     IN  \/ row' = SetWrapperPid(row, j, coord[c].procs[j]) /\ UNCHANGED budget
         \/ row' = Ended(row, j, "error") /\ Fault("locked")
  /\ Set(c, [coord[c] EXCEPT !.pc = "launch", !.job = 0])
  /\ UNCHANGED <<run, proc>>

(* The window is full or nothing is left to start. *)
Poll(c) ==
  /\ At(c, "launch")
  /\ Cardinality(Tracked(c)) >= K \/ coord[c].todo = {}
  /\ Set(c, [coord[c] EXCEPT !.pc = "reap", !.todo = Tracked(c)])
  /\ UNCHANGED <<row, run, proc, budget>>

(* Mutant: the kind of the error is written as the status. *)
ReapByKind(c) ==
  /\ At(c, "reap")
  /\ \E j \in First(coord[c].todo) :
       IF Alive(coord[c].procs[j])
       THEN Set(c, [coord[c] EXCEPT !.todo = @ \ {j}]) /\ UNCHANGED row
       ELSE /\ row' = Ended(row, j, "wrapper_exit")
            /\ Set(c, [coord[c] EXCEPT !.procs[j] = NoPid, !.todo = @ \ {j}])
  /\ UNCHANGED <<run, proc, budget>>

(* Mutant: the end of the case is taken for the end of its wrapper. *)
ReapCase(c) ==
  /\ At(c, "reap")
  /\ \E j \in First(coord[c].todo) :
       IF Alive(coord[c].procs[j]) /\ proc[coord[c].procs[j]].child # "ended"
       THEN Set(c, [coord[c] EXCEPT !.todo = @ \ {j}]) /\ UNCHANGED row
       ELSE /\ row' = Ended(row, j, "error")
            /\ Set(c, [coord[c] EXCEPT !.procs[j] = NoPid, !.todo = @ \ {j}])
  /\ UNCHANGED <<run, proc, budget>>

(* A wrapper that has exited is dropped; if its row has not ended, it ends. *)
Reap(c) ==
  /\ At(c, "reap")
  /\ \E j \in First(coord[c].todo) :
       IF Alive(coord[c].procs[j])
       THEN Set(c, [coord[c] EXCEPT !.todo = @ \ {j}]) /\ UNCHANGED row
       ELSE /\ row' = Ended(row, j, "error")
            /\ Set(c, [coord[c] EXCEPT !.procs[j] = NoPid, !.todo = @ \ {j}])
  /\ UNCHANGED <<run, proc, budget>>

(* The loop ends when every row has, or when it has nothing to wait for. *)
Turn(c) ==
  /\ At(c, "reap")
  /\ coord[c].todo = {}
  /\ Move(c, IF \/ AllTerminal(row)
                \/ Tracked(c) = {} /\ WithStatus(row, {"pending"}) = {}
             THEN "finalize" ELSE "list")
  /\ UNCHANGED <<row, run, proc, budget>>

(* Mutant: the end of the loop is taken for the end of the run. *)
FinalizeEarly(c) ==
  /\ At(c, "finalize")
  /\ IF run # "cancelled" THEN Move(c, Verdict(row)) ELSE Quit(c)
  /\ UNCHANGED <<row, run, proc, budget>>

Finalize(c) ==
  /\ At(c, "finalize")
  /\ IF run # "cancelled" /\ AllTerminal(row) THEN Move(c, Verdict(row)) ELSE Quit(c)
  /\ UNCHANGED <<row, run, proc, budget>>

RecordVerdict(c) ==
  /\ coord[c].pc \in RunVerdicts
  /\ run' = coord[c].pc
  /\ Quit(c)
  /\ UNCHANGED <<row, proc, budget>>

(* Ctrl-C: the scheduler waits for the wrappers it knows of ... *)
Interrupt(c) ==
  /\ coord[c].pc \in {"list", "launch", "launched", "reap"}
  /\ Fault("interrupt")
  /\ Set(c, [coord[c] EXCEPT !.pc = "wait", !.todo = {}, !.job = 0])
  /\ UNCHANGED <<row, run, proc>>

Wait(c) ==
  /\ At(c, "wait")
  /\ \A j \in Tracked(c) : ~Alive(coord[c].procs[j])
  /\ Move(c, "finalize")
  /\ UNCHANGED <<row, run, proc, budget>>

(* ... and a second Ctrl-C ends them, but not their children. *)
Abandon(c) ==
  /\ At(c, "wait")
  /\ Fault("interrupt")
  /\ proc' = [p \in Pids |-> IF \E j \in Tracked(c) : coord[c].procs[j] = p
                             THEN [proc[p] EXCEPT !.pc = "exited"] ELSE proc[p]]
  /\ Move(c, "finalize")
  /\ UNCHANGED <<row, run>>

-----------------------------------------------------------------------------
(* resume and cancel *)

(* What os.kill(id, 0) finds: a wrapper is there until its scheduler has    *)
(* asked for its exit, a child until its wrapper has.                       *)
WrapperSeen(p) == Alive(p) \/ \E c \in Coords : \E j \in Jobs : coord[c].procs[j] = p
ChildSeen(p) == \/ proc[p].child = "running"
                \/ proc[p].child = "ended" /\ Awaited(p)

(* SIGTERM to the process groups of these wrappers and of these children.   *)
Terminate(wrappers, children) ==
  proc' = [p \in Pids |->
             LET child == p \in children /\ proc[p].child = "running"
             IN  [proc[p] EXCEPT
                    !.pc = IF p \in wrappers /\ Alive(p) THEN "exited" ELSE @,
                    !.child = IF child THEN "ended" ELSE @,
                    !.verdict = IF child /\ Awaited(p) THEN "failed" ELSE @]]

(* The active rows are read with their process ids. *)
ScanTo(c, pc) ==
  LET active == WithStatus(row, ACTIVE_STATUSES)
  IN  Set(c, [coord[c] EXCEPT
                !.pc = pc, !.todo = active,
                !.wrapper_pid = [j \in Jobs |-> IF j \in active THEN row[j].wrapper_pid
                                                                ELSE NoPid],
                !.pid = [j \in Jobs |-> IF j \in active THEN row[j].pid ELSE NoPid]])

Idle == \A c \in Coords : At(c, "idle")

(* The user resumes an interrupted run; doing so while another command is   *)
(* at work, or with --force, is unusual.                                    *)
StartResume(c) ==
  /\ At(c, "idle")
  /\ run \notin RunVerdicts \union {"cancelled"}
  /\ \E op \in {"resume", "force"} :
       /\ IF op = "resume" /\ Idle THEN UNCHANGED budget ELSE Fault(op)
       /\ Set(c, [NoCoord EXCEPT !.op = op, !.pc = "scan"])
  /\ UNCHANGED <<row, run, proc>>

Scan(c) ==
  /\ At(c, "scan")
  /\ ScanTo(c, "probe")
  /\ UNCHANGED <<row, run, proc, budget>>

(* Mutant: an id in the ledger is taken for a process that is alive. *)
ProbeRecorded(c) ==
  /\ At(c, "probe")
  /\ LET live == {j \in coord[c].todo : \/ coord[c].wrapper_pid[j] # NoPid
                                        \/ coord[c].pid[j] # NoPid}
     IN  IF live # {} /\ coord[c].op # "force" THEN Quit(c)
         ELSE Move(c, IF coord[c].todo = {} THEN "start" ELSE "evict")
  /\ UNCHANGED <<row, run, proc, budget>>

(* With a process of the run alive, resume gives up unless it is forced. *)
Probe(c) ==
  /\ At(c, "probe")
  /\ LET live == {j \in coord[c].todo :
                    \/ \E p \in Pids : p = coord[c].wrapper_pid[j] /\ WrapperSeen(p)
                    \/ \E p \in Pids : p = coord[c].pid[j] /\ ChildSeen(p)}
     IN  IF live # {} /\ coord[c].op # "force" THEN Quit(c)
         ELSE Move(c, IF coord[c].todo = {} THEN "start" ELSE "evict")
  /\ UNCHANGED <<row, run, proc, budget>>

(* What the row had of processes is ended, and the row goes back. *)
Evict(c) ==
  /\ At(c, "evict")
  /\ \E j \in First(coord[c].todo) :
       /\ Terminate({coord[c].wrapper_pid[j]}, {coord[c].pid[j]})
       /\ Set(c, [coord[c] EXCEPT !.pc = "requeue", !.job = j])
  /\ UNCHANGED <<row, run, budget>>

Requeue(c) ==
  /\ At(c, "requeue")
  /\ row' = Requeued(row, coord[c].job)
  /\ LET rest == coord[c].todo \ {coord[c].job}
     IN  Set(c, IF rest = {} THEN [NoCoord EXCEPT !.op = coord[c].op, !.pc = "start"]
                ELSE [coord[c] EXCEPT !.pc = "evict", !.todo = rest, !.job = 0])
  /\ UNCHANGED <<run, proc, budget>>

StartCancel(c) ==
  /\ At(c, "idle")
  /\ run \notin RunVerdicts
  /\ Fault("cancel")
  /\ Set(c, [NoCoord EXCEPT !.op = "cancel", !.pc = "cancel_pending"])
  /\ UNCHANGED <<row, run, proc>>

(* cmd_cancel: pending rows are ended in one statement, the active rows are *)
(* read, their processes are ended, then each row, and the run.             *)
CancelRows(c) ==
  /\ At(c, "cancel_pending")
  /\ row' = CancelPending(row)
  /\ Move(c, "cancel_scan")
  /\ UNCHANGED <<run, proc, budget>>

(* Mutant: only the rows with a process id are cancelled. *)
CancelKnown(c) ==
  /\ At(c, "cancel_scan")
  /\ Set(c, [coord[c] EXCEPT
                !.pc = "cancel_kill",
                !.todo = {j \in WithStatus(row, ACTIVE_STATUSES) : row[j].wrapper_pid # NoPid}])
  /\ UNCHANGED <<row, run, proc, budget>>

CancelScan(c) ==
  /\ At(c, "cancel_scan")
  /\ ScanTo(c, "cancel_kill")
  /\ UNCHANGED <<row, run, proc, budget>>

CancelKill(c) ==
  /\ At(c, "cancel_kill")
  /\ Terminate({coord[c].wrapper_pid[j] : j \in coord[c].todo},
               {coord[c].pid[j] : j \in coord[c].todo})
  /\ Move(c, "cancel_mark")
  /\ UNCHANGED <<row, run, budget>>

CancelMark(c) ==
  /\ At(c, "cancel_mark")
  /\ \E j \in First(coord[c].todo) :
       /\ row' = Ended(row, j, "cancelled")
       /\ Set(c, [coord[c] EXCEPT !.todo = @ \ {j}])
  /\ UNCHANGED <<run, proc, budget>>

CancelEnd(c) ==
  /\ At(c, "cancel_mark")
  /\ coord[c].todo = {}
  /\ run' = "cancelled"
  /\ Quit(c)
  /\ UNCHANGED <<row, proc, budget>>

Coordinator(c) ==
  \/ Begin(c) \/ List(c) \/ Launch(c) \/ Launched(c) \/ Poll(c) \/ Reap(c) \/ Turn(c)
  \/ Finalize(c) \/ RecordVerdict(c) \/ Wait(c)
  \/ Scan(c) \/ Probe(c) \/ Evict(c) \/ Requeue(c)
  \/ CancelRows(c) \/ CancelScan(c) \/ CancelKill(c) \/ CancelMark(c) \/ CancelEnd(c)

(* The command is killed; what it has started goes on. *)
Crash(c) ==
  /\ ~At(c, "idle")
  /\ Fault("crash")
  /\ Quit(c)
  /\ UNCHANGED <<row, run, proc>>

Next ==
  \/ \E p \in Pids : Wrapper(p) \/ Kill(p)
  \/ \E c \in Coords : \/ Coordinator(c) \/ Interrupt(c) \/ Abandon(c) \/ Crash(c)
                       \/ StartResume(c) \/ StartCancel(c)

Spec == Init /\ [][Next]_vars

(* Processes go on unless they are killed, cases end, and the user resumes  *)
(* a run that was interrupted.                                              *)
Fairness ==
  /\ \A p \in Pids : WF_vars(Wrapper(p))
  /\ \A c \in Coords : WF_vars(Coordinator(c)) /\ WF_vars(Idle /\ StartResume(c))

FairSpec == Spec /\ Fairness

-----------------------------------------------------------------------------
(* Types *)

WrapPcs == {"free", "read", "claim", "spawn", "on_start", "communicate", "finish", "finalize",
            "exited"} \union RunVerdicts
CoordPcs == {"idle", "begin", "start", "list", "launch", "launched", "reap", "finalize", "wait",
             "scan", "probe", "evict", "requeue", "cancel_pending", "cancel_scan",
             "cancel_kill", "cancel_mark"} \union RunVerdicts
PidsOrNone == Pids \union {NoPid}

LocalRowSet == [status : Statuses, wrapper_pid : PidsOrNone, pid : PidsOrNone]
ProcSet == [job : Jobs \union {0}, pc : WrapPcs, verdict : CaseVerdicts \union {"none"},
            child : {"none", "running", "ended"}]
CoordSet == [op : {"none", "submit", "resume", "force", "cancel"}, pc : CoordPcs,
             procs : [Jobs -> PidsOrNone], todo : SUBSET Jobs, job : Jobs \union {0},
             wrapper_pid : [Jobs -> PidsOrNone], pid : [Jobs -> PidsOrNone]]

(* Every variable stays in the set its component is written for. *)
TypeOK ==
  /\ row \in [Jobs -> LocalRowSet]
  /\ run \in {"pending", "running", "cancelled"} \union RunVerdicts
  /\ proc \in [Pids -> ProcSet]
  /\ coord \in [Coords -> CoordSet]
  /\ budget \in 0..MaxFaults

-----------------------------------------------------------------------------
(* Safety *)

Launches(j) == {p \in Pids : proc[p].job = j}
Children(j) == {p \in Launches(j) : proc[p].child = "running"}

(* No case is run twice at the same time, whichever wrappers were started   *)
(* for it: mark_running lets one of them through, and a row that has been   *)
(* ended behind its back is not started again.                              *)
OneChild == \A j \in Jobs : Cardinality(Children(j)) <= 1

(* A child its wrapper waits for.  One that is left behind by a killed      *)
(* wrapper is an orphan.                                                    *)
Attended(j) == {p \in Children(j) : Alive(p)}
LaunchedOnce == \A j \in Jobs : Cardinality(Launches(j)) <= 1

(* No more than K cases run at the same time ("keeps k wrapper processes    *)
(* alive", "launching up to k concurrent job(s)"), orphans aside, as long   *)
(* as no case was launched again.                                           *)
Window == LaunchedOnce => Cardinality({j \in Jobs : Attended(j) # {}}) <= K

(* A run with a verdict has no case running but orphans, cases that were    *)
(* cancelled and cases launched again.                                      *)
FinishedIsQuiet ==
  run \in RunVerdicts =>
    \A j \in Jobs : \/ Attended(j) = {}
                    \/ row[j].status = "cancelled"
                    \/ Cardinality(Launches(j)) > 1

(* Once cancel has come to its end every case has ended: a case that was    *)
(* pending is ended before the active ones are read, so that none starts    *)
(* in between and is missed.                                                *)
CancelEndsEveryCase == run = "cancelled" => AllTerminal(row)

(* A case that succeeded is a success in the ledger once its wrapper has    *)
(* reported it, unless it was cancelled: nothing that watches the wrapper   *)
(* from outside overwrites its report or comes before it, if the case was   *)
(* launched once.                                                           *)
Reported(p) == proc[p].verdict = "success" /\ proc[p].pc \in {"finalize"} \union RunVerdicts
SuccessIsKept ==
  \A p \in Pids : Reported(p) /\ Launches(Case(p)) = {p}
                 => row[Case(p)].status \in {"success", "cancelled"}

(* The same without the condition: "duplicate launches are harmless".       *)
DuplicatesAreHarmless ==
  \A p \in Pids : Reported(p) => row[Case(p)].status \in {"success", "cancelled"}

(* A run that says it is complete is complete, and says truly whether a     *)
(* case ended badly: wrappers and scheduler both read the rows in one       *)
(* transaction and write the verdict in another.                            *)
VerdictIsTrue == run \in RunVerdicts => AllTerminal(row) /\ run = Verdict(row)

(* The rows and the run behave as JobLife allows. *)
Life == INSTANCE JobLife WITH status <- [j \in Jobs |-> row[j].status]
LifeSpec == Life!Spec

-----------------------------------------------------------------------------
(* Liveness *)

(* With the user resuming an interrupted run, it is brought to its verdict, *)
(* unless it is cancelled.                                                  *)
Concludes == <>(run \in RunVerdicts \union {"cancelled"})
=============================================================================
