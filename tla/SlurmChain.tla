----------------------------- MODULE SlurmChain -----------------------------
(***************************************************************************)
(* A run of the matrix under --executor slurm.  Three kinds of process     *)
(* share the ledger:                                                       *)
(*                                                                         *)
(*   - coordinators: "submit" seeds the first K cases; "watch" loops over  *)
(*     recover_scheduling, repair_chain and reconcile_slurm; "resume" does *)
(*     the three once; "cancel" ends the run (matrix_jobs.py);             *)
(*   - wrappers: one per SLURM job, executing one case and submitting the  *)
(*     case K places later with --dependency=afterany (matrix_job.py);     *)
(*   - SLURM itself, modelled from the way matrix_slurm.py uses it: sbatch *)
(*     hands out the next id, a job starts when the job it depends on has  *)
(*     ended, and it may be killed at any moment.                          *)
(*                                                                         *)
(* Every step of a process is one ledger transaction, one read of it, or   *)
(* one call to SLURM; between any two steps another process may act, and   *)
(* what was read before is used as it was read.                            *)
(***************************************************************************)
EXTENDS Ledger, FiniteSets

CONSTANTS
  N,           \* n_jobs: cases of the run, numbered by seq 1..N
  K,           \* k: width of the window
  Coords,      \* processes of the user that can be up at the same time
  Submitter,   \* the one that runs "submit" first
  Retries,     \* delayed calls of schedule_successor after the case (3)
  LostAfter,   \* polls without an answer before a job is "lost" (3)
  Verdicts,    \* outcomes of run_case that occur
  KillStates,  \* states SLURM may end a running job in on its own
  Faults,      \* unusual events that occur, out of FaultKinds
  MaxSubmits,  \* bound: ids SLURM hands out before it refuses submissions
  MaxFaults    \* bound: number of unusual events in a behaviour

FaultKinds == {"kill", "crash", "sbatch", "config", "slow", "outage", "resume", "cancel"}
CaseVerdicts == {"success", "failed", "timeout", "error"}
RunVerdicts == {"complete", "complete_with_failures"}

ASSUME SizesAssumption ==
  /\ N \in Nat \ {0} /\ K \in Nat \ {0}
  /\ Retries \in Nat /\ LostAfter \in Nat \ {0}
  /\ MaxSubmits \in Nat /\ MaxFaults \in Nat
ASSUME KindsAssumption ==
  /\ Submitter \in Coords
  /\ Verdicts \subseteq CaseVerdicts
  /\ KillStates \subseteq {"NODE_FAIL", "TIMEOUT"}
  /\ Faults \subseteq FaultKinds

Jobs == 1..N
SlurmIds == 1..MaxSubmits

VARIABLES
  row,     \* the ledger's rows
  run,     \* the column "status" of the run
  slurm,   \* SLURM's jobs, by id
  wrap,    \* the wrapper process inside each SLURM job
  coord,   \* the state of each coordinator
  budget   \* unusual events still allowed

ledger == <<row, run>>
vars == <<row, run, slurm, wrap, coord, budget>>

SlurmLive == {"PENDING", "RUNNING"}
SlurmEnded == {"COMPLETED", "FAILED", "CANCELLED", "NODE_FAIL", "TIMEOUT"}
SlurmStates == {"FREE"} \union SlurmLive \union SlurmEnded

NoSlurm == [state |-> "FREE", job |-> 0, dep |-> NoId]

(* left: calls of schedule_successor still to be made; child: the id sbatch *)
(* returned for the successor; verdict: how the case ended.                 *)
NoWrap == [pc |-> "off", verdict |-> "none", left |-> 0, child |-> NoId]

(* todo: rows still to be handled of those read; seen and info: SLURM id of *)
(* each row when it was read, and what SLURM said of it; missing: the       *)
(* dictionary missing_counts.                                               *)
NoCoord == [op |-> "none", pc |-> "idle", todo |-> {}, job |-> 0, dep |-> NoId,
            child |-> NoId, slots |-> 0, seen |-> [j \in Jobs |-> NoId],
            info |-> [j \in Jobs |-> "absent"], missing |-> [i \in SlurmIds |-> 0]]

Init ==
  /\ row = [j \in Jobs |-> NewRow]
  /\ run = "pending"
  /\ slurm = [i \in SlurmIds |-> NoSlurm]
  /\ wrap = [i \in SlurmIds |-> NoWrap]
  /\ coord = [c \in Coords |->
                IF c = Submitter THEN [NoCoord EXCEPT !.op = "submit", !.pc = "begin"]
                                 ELSE NoCoord]
  /\ budget = MaxFaults

(* The next of the rows read, which come in the order of seq. *)
First(S) == {j \in S : \A m \in S : j <= m}

Fault(kind) == kind \in Faults /\ budget > 0 /\ budget' = budget - 1

-----------------------------------------------------------------------------
(* SLURM, as the program uses it *)

(* Ids are handed out in increasing order; sbatch refuses when none is left. *)
Fresh == {i \in SlurmIds : /\ slurm[i].state = "FREE"
                           /\ \A m \in SlurmIds : m < i => slurm[m].state # "FREE"}

Enqueue(i, j, dep) ==
  slurm' = [slurm EXCEPT ![i] = [state |-> "PENDING", job |-> j, dep |-> dep]]

Refused == \/ Fault("sbatch")
           \/ Fresh = {} /\ UNCHANGED budget

DependencyMet(i) ==
  slurm[i].dep # NoId => slurm[slurm[i].dep].state \in SlurmEnded

Start(i) ==
  /\ slurm[i].state = "PENDING"
  /\ DependencyMet(i)
  /\ slurm' = [slurm EXCEPT ![i].state = "RUNNING"]
  /\ wrap' = [wrap EXCEPT ![i].pc = "read"]
  /\ UNCHANGED <<row, run, coord, budget>>

(* Node failure, or the time limit of the SLURM job. *)
Kill(i) ==
  /\ slurm[i].state = "RUNNING"
  /\ Fault("kill")
  /\ \E state \in KillStates : slurm' = [slurm EXCEPT ![i].state = state]
  /\ wrap' = [wrap EXCEPT ![i].pc = "off", ![i].left = 0, ![i].child = NoId]
  /\ UNCHANGED <<row, run, coord>>

-----------------------------------------------------------------------------
(* The wrapper: matrix_job.py *)

Case(i) == slurm[i].job
Goto(i, pc) == wrap' = [wrap EXCEPT ![i].pc = pc]

Exit(i, state) ==
  /\ slurm' = [slurm EXCEPT ![i].state = state]
  /\ wrap' = [wrap EXCEPT ![i].pc = "off", ![i].left = 0, ![i].child = NoId]

ExitState(i) == IF wrap[i].verdict = "success" THEN "COMPLETED" ELSE "FAILED"

(* main reads its row and leaves if it is terminal. *)
ReadRow(i) ==
  /\ wrap[i].pc = "read"
  /\ IF Terminal(row, Case(i)) THEN Exit(i, "COMPLETED")
                               ELSE Goto(i, "claim") /\ UNCHANGED slurm
  /\ UNCHANGED <<row, run, coord, budget>>

(* Mutant: a missing template ends the wrapper with exit code 0. *)
MissingTemplateExitsZero(i) ==
  /\ wrap[i].pc = "claim"
  /\ Fault("config")
  /\ Exit(i, "COMPLETED")
  /\ UNCHANGED <<row, run, coord>>

(* No template: exit 2 with the row untouched. *)
MissingTemplate(i) ==
  /\ wrap[i].pc = "claim"
  /\ Fault("config")
  /\ Exit(i, "FAILED")
  /\ UNCHANGED <<row, run, coord>>

(* The configuration cannot be prepared: the row is ended, whoever runs it. *)
BadConfig(i) ==
  /\ wrap[i].pc = "claim"
  /\ Fault("config")
  /\ row' = MarkTerminal(row, Case(i), "error")
  /\ wrap' = [wrap EXCEPT ![i].pc = "finalize", ![i].verdict = "error"]
  /\ UNCHANGED <<run, slurm, coord>>

ClaimRun(i) ==
  /\ wrap[i].pc = "claim"
  /\ row' = MarkRunning(row, Case(i))
  /\ IF row[Case(i)].status \in RunnableStatuses
     THEN /\ wrap' = [wrap EXCEPT ![i].pc = "succ", ![i].left = 1 + Retries]
          /\ UNCHANGED slurm
     ELSE Exit(i, "COMPLETED")
  /\ UNCHANGED <<run, coord, budget>>

(* After a call of schedule_successor that returned "done": to run_case the *)
(* first time, to the next delayed call or to the end afterwards.           *)
Return(i, done) ==
  LET left == IF done THEN 0 ELSE wrap[i].left - 1
      pc == IF wrap[i].verdict = "none" THEN "run"
            ELSE IF left = 0 THEN "finish" ELSE "succ"
  IN  wrap' = [wrap EXCEPT ![i].pc = pc, ![i].left = left, ![i].child = NoId]

Successor(i) == Case(i) + K

ClaimSuccessor(i) ==
  /\ wrap[i].pc = "succ"
  /\ IF Successor(i) \in WithStatus(row, {"pending"})
     THEN row' = ClaimForSubmission(row, Successor(i)) /\ Goto(i, "sbatch")
     ELSE Return(i, TRUE) /\ UNCHANGED row
  /\ UNCHANGED <<run, slurm, coord, budget>>

(* Mutant: the successor is submitted without its dependency. *)
SubmitSuccessorAtOnce(i) ==
  /\ wrap[i].pc = "sbatch"
  /\ \/ \E id \in Fresh :
          /\ Enqueue(id, Successor(i), NoId)
          /\ wrap' = [wrap EXCEPT ![i].pc = "mark", ![i].child = id]
          /\ UNCHANGED <<row, budget>>
     \/ /\ Refused
        /\ row' = ReleaseSubmission(row, Successor(i))
        /\ Return(i, FALSE)
        /\ UNCHANGED slurm
  /\ UNCHANGED <<run, coord>>

SubmitSuccessor(i) ==
  /\ wrap[i].pc = "sbatch"
  /\ \/ \E id \in Fresh :
          /\ Enqueue(id, Successor(i), i)
          /\ wrap' = [wrap EXCEPT ![i].pc = "mark", ![i].child = id]
          /\ UNCHANGED <<row, budget>>
     \/ /\ Refused
        /\ row' = ReleaseSubmission(row, Successor(i))
        /\ Return(i, FALSE)
        /\ UNCHANGED slurm
  /\ UNCHANGED <<run, coord>>

MarkSuccessor(i) ==
  /\ wrap[i].pc = "mark"
  /\ row' = MarkScheduled(row, Successor(i), wrap[i].child)
  /\ Return(i, TRUE)
  /\ UNCHANGED <<run, slurm, coord, budget>>

(* run_case; an exception skips the delayed calls. *)
RunCase(i) ==
  /\ wrap[i].pc = "run"
  /\ \E v \in Verdicts :
       LET left == IF v = "error" THEN 0 ELSE wrap[i].left
       IN  wrap' = [wrap EXCEPT ![i].verdict = v, ![i].left = left,
                                ![i].pc = IF left = 0 THEN "finish" ELSE "succ"]
  /\ UNCHANGED <<row, run, slurm, coord, budget>>

Finish(i) ==
  /\ wrap[i].pc = "finish"
  /\ row' = MarkTerminal(row, Case(i), wrap[i].verdict)
  /\ Goto(i, "finalize")
  /\ UNCHANGED <<run, slurm, coord, budget>>

(* Mutant: the verdict is given without asking whether every row has ended. *)
ConcludeEarly(i) ==
  /\ wrap[i].pc = "finalize"
  /\ IF run # "cancelled" THEN Goto(i, Verdict(row)) /\ UNCHANGED slurm
     ELSE Exit(i, ExitState(i))
  /\ UNCHANGED <<row, run, coord, budget>>

(* maybe_analyze and finalize_run: the reads, then the write of what was read. *)
Conclude(i) ==
  /\ wrap[i].pc = "finalize"
  /\ IF run # "cancelled" /\ AllTerminal(row)
     THEN Goto(i, Verdict(row)) /\ UNCHANGED slurm
     ELSE Exit(i, ExitState(i))
  /\ UNCHANGED <<row, run, coord, budget>>

WriteVerdict(i) ==
  /\ wrap[i].pc \in RunVerdicts
  /\ run' = wrap[i].pc
  /\ Exit(i, ExitState(i))
  /\ UNCHANGED <<row, coord, budget>>

Wrapper(i) ==
  \/ ReadRow(i) \/ MissingTemplate(i) \/ BadConfig(i) \/ ClaimRun(i)
  \/ ClaimSuccessor(i) \/ SubmitSuccessor(i) \/ MarkSuccessor(i)
  \/ RunCase(i) \/ Finish(i) \/ Conclude(i) \/ WriteVerdict(i)

-----------------------------------------------------------------------------
(* The coordinators: matrix_jobs.py *)

Set(c, state) == coord' = [coord EXCEPT ![c] = state]
Move(c, pc) == Set(c, [coord[c] EXCEPT !.pc = pc])
Quit(c) == Set(c, NoCoord)
At(c, pc) == coord[c].pc = pc

(* watch_loop calls recover, repair, reconcile, finalize; cmd_resume calls *)
(* recover, reconcile, repair, finalize; cmd_submit only seeds.            *)
AfterRecover(op) == IF op = "watch" THEN "repair" ELSE "snapshot"
AfterRepair(op) == IF op = "watch" THEN "snapshot"
                   ELSE IF op = "resume" THEN "finalize" ELSE "idle"
AfterReconcile(op) == IF op = "watch" THEN "finalize" ELSE "repair"

(* The state of c when rows are left to handle at pc, or it goes on to next. *)
Continue(c, todo, pc, next) ==
  LET here == [coord[c] EXCEPT !.todo = todo, !.job = 0, !.dep = NoId, !.child = NoId]
  IN  IF todo # {} THEN [here EXCEPT !.pc = pc]
      ELSE IF next = "idle" THEN NoCoord
      ELSE [NoCoord EXCEPT !.op = here.op, !.pc = next, !.missing = here.missing]

StartWatch(c) ==
  /\ At(c, "idle")
  /\ Set(c, [NoCoord EXCEPT !.op = "watch", !.pc = "begin"])
  /\ UNCHANGED <<row, run, slurm, wrap, budget>>

StartResume(c) ==
  /\ At(c, "idle")
  /\ run \notin RunVerdicts \union {"cancelled"}
  /\ Fault("resume")
  /\ Set(c, [NoCoord EXCEPT !.op = "resume", !.pc = "begin"])
  /\ UNCHANGED <<row, run, slurm, wrap>>

StartCancel(c) ==
  /\ At(c, "idle")
  /\ run \notin RunVerdicts
  /\ Fault("cancel")
  /\ Set(c, [NoCoord EXCEPT !.op = "cancel", !.pc = "cancel_pending"])
  /\ UNCHANGED <<row, run, slurm, wrap>>

(* mark_run_started: no guard on the status of the run. *)
Begin(c) ==
  /\ At(c, "begin")
  /\ run' = "running"
  /\ Move(c, CASE coord[c].op = "submit" -> "seed"
               [] coord[c].op = "watch"  -> "top"
               [] OTHER                  -> "recover")
  /\ UNCHANGED <<row, slurm, wrap, budget>>

Top(c) ==
  /\ At(c, "top")
  /\ IF run = "cancelled" THEN Quit(c) ELSE Move(c, "recover")
  /\ UNCHANGED <<row, run, slurm, wrap, budget>>

(* recover_scheduling: the claims that look abandoned are read ... *)
Recover(c) ==
  /\ At(c, "recover")
  /\ LET old == {j \in WithStatus(row, {"scheduling"}) :
                   /\ row[j].slurm_job_id = NoId
                   /\ coord[c].op = "resume" \/ row[j].stale}
     IN  Set(c, Continue(c, old, "reset", AfterRecover(coord[c].op)))
  /\ UNCHANGED <<row, run, slurm, wrap, budget>>

(* ... then each is reset, from whatever open status it has by then. *)
Reset(c) ==
  /\ At(c, "reset")
  /\ \E j \in First(coord[c].todo) :
         /\ row' = ResetToPending(row, j)
         /\ Set(c, Continue(c, coord[c].todo \ {j}, "reset", AfterRecover(coord[c].op)))
  /\ UNCHANGED <<run, slurm, wrap, budget>>

(* seed_slurm: the pending rows of the first window. *)
Seed(c) ==
  /\ At(c, "seed")
  /\ LET seeds == {j \in WithStatus(row, {"pending"}) : j <= K}
     IN  coord' = [coord EXCEPT
                     ![c] = [Continue(c, seeds, "pick", "idle") EXCEPT
                               !.slots = IF seeds = {} THEN 0 ELSE K]]
  /\ UNCHANGED <<row, run, slurm, wrap, budget>>

(* Mutant: no early return when the window is full. *)
RepairUnguarded(c) ==
  /\ At(c, "repair")
  /\ LET active == Cardinality(WithStatus(row, ACTIVE_STATUSES))
     IN  Set(c, [coord[c] EXCEPT !.pc = "list", !.slots = K - active])
  /\ UNCHANGED <<row, run, slurm, wrap, budget>>

(* repair_chain: the free slots are counted ... *)
Repair(c) ==
  /\ At(c, "repair")
  /\ LET active == Cardinality(WithStatus(row, ACTIVE_STATUSES))
     IN  Set(c, IF active >= K
                THEN Continue(c, {}, "list", AfterRepair(coord[c].op))
                ELSE [coord[c] EXCEPT !.pc = "list", !.slots = K - active])
  /\ UNCHANGED <<row, run, slurm, wrap, budget>>

(* ... then the pending rows are read. *)
List(c) ==
  /\ At(c, "list")
  /\ Set(c, Continue(c, WithStatus(row, {"pending"}), "pick", AfterRepair(coord[c].op)))
  /\ UNCHANGED <<row, run, slurm, wrap, budget>>

(* Mutant: a row somebody else has claimed is submitted, too. *)
PickClaimed(c) ==
  /\ At(c, "pick")
  /\ \E j \in First(coord[c].todo) :
         IF j \in WithStatus(row, {"pending", "scheduling"}) /\ (j > K => Terminal(row, j - K))
         THEN /\ row' = ClaimForSubmission(row, j)
              /\ Set(c, [coord[c] EXCEPT !.pc = "sbatch", !.job = j,
                           !.dep = IF j > K THEN row[j - K].slurm_job_id ELSE NoId])
         ELSE /\ Set(c, Continue(c, coord[c].todo \ {j}, "pick", AfterRepair(coord[c].op)))
              /\ UNCHANGED row
  /\ UNCHANGED <<run, slurm, wrap, budget>>

(* Mutant: a case waits for the success of its predecessor, not for its end. *)
PickAfterSuccess(c) ==
  /\ At(c, "pick")
  /\ \E j \in First(coord[c].todo) :
         IF j \in WithStatus(row, {"pending"}) /\ (j > K => row[j - K].status = "success")
         THEN /\ row' = ClaimForSubmission(row, j)
              /\ Set(c, [coord[c] EXCEPT !.pc = "sbatch", !.job = j,
                           !.dep = IF j > K THEN row[j - K].slurm_job_id ELSE NoId])
         ELSE /\ Set(c, Continue(c, coord[c].todo \ {j}, "pick", AfterRepair(coord[c].op)))
              /\ UNCHANGED row
  /\ UNCHANGED <<run, slurm, wrap, budget>>

(* The next row of the list: submitted if it is of the first window or its *)
(* predecessor is terminal (submit lists the first window only).           *)
Pick(c) ==
  /\ At(c, "pick")
  /\ \E j \in First(coord[c].todo) :
         IF j \in WithStatus(row, {"pending"}) /\ (j > K => Terminal(row, j - K))
         THEN /\ row' = ClaimForSubmission(row, j)
              /\ Set(c, [coord[c] EXCEPT !.pc = "sbatch", !.job = j,
                           !.dep = IF j > K THEN row[j - K].slurm_job_id ELSE NoId])
         ELSE /\ Set(c, Continue(c, coord[c].todo \ {j}, "pick", AfterRepair(coord[c].op)))
              /\ UNCHANGED row
  /\ UNCHANGED <<run, slurm, wrap, budget>>

Sbatch(c) ==
  /\ At(c, "sbatch")
  /\ \/ \E id \in Fresh :
          /\ Enqueue(id, coord[c].job, coord[c].dep)
          /\ Set(c, [coord[c] EXCEPT !.pc = "mark", !.child = id])
          /\ UNCHANGED <<row, budget>>
     \/ /\ Refused
        /\ row' = ReleaseSubmission(row, coord[c].job)
        /\ Set(c, Continue(c, coord[c].todo \ {coord[c].job}, "pick",
                           AfterRepair(coord[c].op)))
        /\ UNCHANGED slurm
  /\ UNCHANGED <<run, wrap>>

Mark(c) ==
  /\ At(c, "mark")
  /\ row' = MarkScheduled(row, coord[c].job, coord[c].child)
  /\ LET slots == coord[c].slots - 1
         rest == IF slots <= 0 THEN {} ELSE coord[c].todo \ {coord[c].job}
         state == Continue(c, rest, "pick", AfterRepair(coord[c].op))
     IN  Set(c, IF rest = {} THEN state ELSE [state EXCEPT !.slots = slots])
  /\ UNCHANGED <<run, slurm, wrap, budget>>

(* reconcile_slurm: the active rows are read with their SLURM ids ... *)
Snapshot(c) ==
  /\ At(c, "snapshot")
  /\ LET old == StaleActive(row)
         state == Continue(c, old, "query", AfterReconcile(coord[c].op))
     IN  Set(c, [state EXCEPT !.seen = [j \in Jobs |-> IF j \in old THEN row[j].slurm_job_id
                                                                    ELSE NoId]])
  /\ UNCHANGED <<row, run, slurm, wrap, budget>>

(* ... squeue is asked for them and sacct for those squeue does not list;  *)
(* either may fail, which reads as an empty answer ...                     *)
Query(c) ==
  /\ At(c, "query")
  /\ \E squeue, sacct \in BOOLEAN :
       LET todo == coord[c].todo
           seen == coord[c].seen
           listed == {j \in todo : squeue /\ slurm[seen[j]].state \in SlurmLive}
           answer == [j \in Jobs |-> IF sacct /\ j \in todo \ listed
                                     THEN slurm[seen[j]].state ELSE "absent"]
           popped == [i \in SlurmIds |-> IF \E j \in listed : seen[j] = i
                                         THEN 0 ELSE coord[c].missing[i]]
           state == [Continue(c, todo \ listed, "apply", AfterReconcile(coord[c].op))
                       EXCEPT !.missing = popped]
       IN  /\ IF squeue /\ sacct THEN UNCHANGED budget ELSE Fault("outage")
           /\ Set(c, IF todo = listed THEN state ELSE [state EXCEPT !.info = answer])
  /\ UNCHANGED <<row, run, slurm, wrap>>

(* Mutant: the state of a job that is still alive ends the row, too. *)
ApplyAnyState(c) ==
  /\ At(c, "apply")
  /\ \E j \in First(coord[c].todo) :
         LET id == coord[c].seen[j]
             polls == coord[c].missing[id] + 1
             lost == polls >= (IF coord[c].op = "resume" THEN 1 ELSE LostAfter)
             absent == coord[c].info[j] = "absent"
             next == [Continue(c, coord[c].todo \ {j}, "apply", AfterReconcile(coord[c].op))
                        EXCEPT !.missing[id] = IF absent /\ ~lost THEN polls ELSE 0]
         IN  /\ row' = IF ~absent THEN SetSlurmId(row, j, id)
                       ELSE IF lost THEN MarkTerminal(row, j, "lost")
                       ELSE row
             /\ Set(c, IF ~absent
                       THEN [coord[c] EXCEPT !.pc = "settle", !.job = j, !.missing[id] = 0]
                       ELSE next)
  /\ UNCHANGED <<run, slurm, wrap, budget>>

(* Mutant: one poll too few before a job is given up. *)
ApplyEarly(c) ==
  /\ At(c, "apply")
  /\ \E j \in First(coord[c].todo) :
         LET id == coord[c].seen[j]
             polls == coord[c].missing[id] + 1
             lost == polls >= (IF coord[c].op = "resume" THEN 1 ELSE LostAfter - 1)
             absent == coord[c].info[j] = "absent"
             next == [Continue(c, coord[c].todo \ {j}, "apply", AfterReconcile(coord[c].op))
                        EXCEPT !.missing[id] = IF absent /\ ~lost THEN polls ELSE 0]
         IN  /\ row' = IF ~absent THEN SetSlurmId(row, j, id)
                       ELSE IF lost THEN MarkTerminal(row, j, "lost")
                       ELSE row
             /\ Set(c, IF coord[c].info[j] \in SlurmEnded
                       THEN [coord[c] EXCEPT !.pc = "settle", !.job = j, !.missing[id] = 0]
                       ELSE next)
  /\ UNCHANGED <<run, slurm, wrap, budget>>

(* ... and the answers are applied, row by row: a job unknown to both is   *)
(* lost after LostAfter polls (one for resume), any other has its state    *)
(* recorded, with the id it had when it was read ...                       *)
Apply(c) ==
  /\ At(c, "apply")
  /\ \E j \in First(coord[c].todo) :
         LET id == coord[c].seen[j]
             polls == coord[c].missing[id] + 1
             lost == polls >= (IF coord[c].op = "resume" THEN 1 ELSE LostAfter)
             absent == coord[c].info[j] = "absent"
             next == [Continue(c, coord[c].todo \ {j}, "apply", AfterReconcile(coord[c].op))
                        EXCEPT !.missing[id] = IF absent /\ ~lost THEN polls ELSE 0]
         IN  /\ row' = IF ~absent THEN SetSlurmId(row, j, id)
                       ELSE IF lost THEN MarkTerminal(row, j, "lost")
                       ELSE row
             /\ Set(c, IF coord[c].info[j] \in SlurmEnded
                       THEN [coord[c] EXCEPT !.pc = "settle", !.job = j, !.missing[id] = 0]
                       ELSE next)
  /\ UNCHANGED <<run, slurm, wrap, budget>>

ClassifyState(state) ==
  CASE state = "COMPLETED" -> "success"
    [] state = "TIMEOUT"   -> "timeout"
    [] state = "CANCELLED" -> "cancelled"
    [] OTHER               -> "failed"

(* ... then, in a transaction of its own, a row whose job ended is ended. *)
Settle(c) ==
  /\ At(c, "settle")
  /\ LET j == coord[c].job
     IN  /\ row' = MarkTerminal(row, j, ClassifyState(coord[c].info[j]))
         /\ Set(c, Continue(c, coord[c].todo \ {j}, "apply", AfterReconcile(coord[c].op)))
  /\ UNCHANGED <<run, slurm, wrap, budget>>

(* finalize_run, as in Conclude; watch then looks at the rows once more. *)
Finalize(c) ==
  /\ At(c, "finalize")
  /\ IF run # "cancelled" /\ AllTerminal(row) THEN Move(c, Verdict(row))
     ELSE IF coord[c].op = "watch" THEN Move(c, "check") ELSE Quit(c)
  /\ UNCHANGED <<row, run, slurm, wrap, budget>>

RecordVerdict(c) ==
  /\ coord[c].pc \in RunVerdicts
  /\ run' = coord[c].pc
  /\ IF coord[c].op = "watch" THEN Move(c, "check") ELSE Quit(c)
  /\ UNCHANGED <<row, slurm, wrap, budget>>

Check(c) ==
  /\ At(c, "check")
  /\ IF AllTerminal(row) THEN Quit(c) ELSE Move(c, "top")
  /\ UNCHANGED <<row, run, slurm, wrap, budget>>

(* cmd_cancel: pending rows are ended in one statement, the active rows and *)
(* their SLURM ids are read, SLURM is told, each row is ended, and the run. *)
CancelRows(c) ==
  /\ At(c, "cancel_pending")
  /\ row' = CancelPending(row)
  /\ Move(c, "cancel_scan")
  /\ UNCHANGED <<run, slurm, wrap, budget>>

CancelScan(c) ==
  /\ At(c, "cancel_scan")
  /\ LET active == WithStatus(row, ACTIVE_STATUSES)
         ids == [j \in Jobs |-> IF j \in active THEN row[j].slurm_job_id ELSE NoId]
     IN  Set(c, [coord[c] EXCEPT !.pc = "scancel", !.todo = active, !.seen = ids])
  /\ UNCHANGED <<row, run, slurm, wrap, budget>>

(* scancel's exit status is ignored: some of the jobs may go on. *)
Scancel(c) ==
  /\ At(c, "scancel")
  /\ LET asked == {i \in SlurmIds : /\ slurm[i].state \in SlurmLive
                                    /\ \E j \in coord[c].todo : coord[c].seen[j] = i}
     IN  \E hit \in SUBSET asked :
         /\ slurm' = [i \in SlurmIds |-> IF i \in hit THEN [slurm[i] EXCEPT !.state = "CANCELLED"]
                                                      ELSE slurm[i]]
         /\ wrap' = [i \in SlurmIds |-> IF i \in hit THEN [NoWrap EXCEPT !.verdict = wrap[i].verdict]
                                                     ELSE wrap[i]]
  /\ Set(c, Continue(c, coord[c].todo, "cancel_mark", "cancel_end"))
  /\ UNCHANGED <<row, run, budget>>

CancelMark(c) ==
  /\ At(c, "cancel_mark")
  /\ \E j \in First(coord[c].todo) :
         /\ row' = MarkTerminal(row, j, "cancelled")
         /\ Set(c, Continue(c, coord[c].todo \ {j}, "cancel_mark", "cancel_end"))
  /\ UNCHANGED <<run, slurm, wrap, budget>>

CancelEnd(c) ==
  /\ At(c, "cancel_end")
  /\ run' = "cancelled"
  /\ Quit(c)
  /\ UNCHANGED <<row, slurm, wrap, budget>>

Coordinator(c) ==
  \/ Begin(c) \/ Top(c) \/ Recover(c) \/ Reset(c) \/ Seed(c) \/ Repair(c) \/ List(c)
  \/ Pick(c) \/ Sbatch(c) \/ Mark(c) \/ Snapshot(c) \/ Query(c) \/ Apply(c) \/ Settle(c)
  \/ Finalize(c) \/ RecordVerdict(c) \/ Check(c)
  \/ CancelRows(c) \/ CancelScan(c) \/ Scancel(c) \/ CancelMark(c) \/ CancelEnd(c)

(* The login node reboots, or the user interrupts the command. *)
Crash(c) ==
  /\ ~At(c, "idle")
  /\ Fault("crash")
  /\ Quit(c)
  /\ UNCHANGED <<row, run, slurm, wrap>>

-----------------------------------------------------------------------------
(* Time *)

(* A process that has claimed j has not yet reported its submission. *)
Submitting(j) ==
  \/ \E i \in SlurmIds : wrap[i].pc \in {"sbatch", "mark"} /\ Successor(i) = j
  \/ \E c \in Coords : coord[c].pc \in {"sbatch", "mark"} /\ coord[c].job = j

(* stale_after seconds pass since the claim of j.  With the claimer dead    *)
(* this only takes time; with the claimer alive its sbatch is slow.         *)
ClaimAges(j) ==
  /\ row[j].status = "scheduling" /\ ~row[j].stale
  /\ IF Submitting(j) THEN Fault("slow") ELSE UNCHANGED budget
  /\ row' = [row EXCEPT ![j].stale = TRUE]
  /\ UNCHANGED <<run, slurm, wrap, coord>>

Next ==
  \/ \E i \in SlurmIds : Wrapper(i) \/ Start(i) \/ Kill(i)
  \/ \E c \in Coords : \/ Coordinator(c) \/ Crash(c)
                       \/ StartWatch(c) \/ StartResume(c) \/ StartCancel(c)
  \/ \E j \in Jobs : ClaimAges(j)

Spec == Init /\ [][Next]_vars

(* SLURM starts what it can, processes go on unless they are killed, time   *)
(* passes, and the user keeps a watch running.                              *)
Fairness ==
  /\ \A i \in SlurmIds : WF_vars(Start(i)) /\ WF_vars(Wrapper(i))
  /\ \A c \in Coords : WF_vars(Coordinator(c)) /\ WF_vars(StartWatch(c))
  /\ \A j \in Jobs : WF_vars(ClaimAges(j))

FairSpec == Spec /\ Fairness

-----------------------------------------------------------------------------
(* Types *)

WrapPcs == {"off", "read", "claim", "succ", "sbatch", "mark", "run", "finish", "finalize"}
             \union RunVerdicts
CoordPcs == {"idle", "begin", "top", "recover", "reset", "seed", "repair", "list", "pick",
             "sbatch", "mark", "snapshot", "query", "apply", "settle", "finalize", "check",
             "cancel_pending", "cancel_scan", "scancel", "cancel_mark", "cancel_end"}
              \union RunVerdicts
Ids == SlurmIds \union {NoId}
CallsLeft == 0..(1 + Retries)
Slots == 0..K
Polls == 0..LostAfter
Infos == SlurmStates \union {"absent"}

SlurmSet == [state : SlurmStates, job : Jobs \union {0}, dep : Ids]
WrapSet == [pc : WrapPcs, verdict : CaseVerdicts \union {"none"},
            left : CallsLeft, child : Ids]
CoordSet == [op : {"none", "submit", "watch", "resume", "cancel"}, pc : CoordPcs,
             todo : SUBSET Jobs, job : Jobs \union {0}, dep : Ids, child : Ids,
             slots : Slots, seen : [Jobs -> Ids],
             info : [Jobs -> Infos],
             missing : [SlurmIds -> Polls]]

(* Every variable stays in the set its component is written for. *)
TypeOK ==
  /\ row \in [Jobs -> RowSet(SlurmIds)]
  /\ run \in {"pending", "running", "cancelled"} \union RunVerdicts
  /\ slurm \in [SlurmIds -> SlurmSet]
  /\ wrap \in [SlurmIds -> WrapSet]
  /\ coord \in [Coords -> CoordSet]
  /\ budget \in 0..MaxFaults

-----------------------------------------------------------------------------
(* Safety *)

Submissions(j) == {i \in SlurmIds : slurm[i].job = j}

(* The wrappers that have won the row of j and not yet reported its end. *)
Executors(j) == {i \in Submissions(j) :
                   wrap[i].pc \in {"succ", "sbatch", "mark", "run", "finish"}}

(* The SLURM id in a row is the id of a job that was submitted for that     *)
(* very case: no chain of reads, claims and late writes (mark_scheduled,    *)
(* set_slurm_state) ever records the job of another case, which a later     *)
(* reconcile or cancel would then act on.                                   *)
LedgerIds ==
  \A j \in Jobs : row[j].slurm_job_id # NoId => row[j].slurm_job_id \in Submissions(j)

(* A row nobody has submitted has no SLURM id.  recover_scheduling skips    *)
(* rows with an id and reconcile_slurm skips claims, so a claim with an id  *)
(* would never be looked at again.  It takes one command at a time, or      *)
(* claims that are never taken away: one that resets a row while another    *)
(* polls it has the id it removed written back (set_slurm_state).           *)
NoIdBeforeSubmission ==
  \A j \in Jobs : row[j].status \in {"pending", "scheduling"} => row[j].slurm_job_id = NoId

Earned(j) == \E i \in Submissions(j) : wrap[i].verdict = "success"

(* A row of "success" stands for a case that ran and succeeded, by whatever *)
(* path the row got there (its wrapper, or reconcile_slurm trusting the     *)
(* state of its SLURM job), if the case was submitted once.                 *)
SuccessIsEarned ==
  \A j \in Jobs : row[j].status = "success" /\ Cardinality(Submissions(j)) <= 1 => Earned(j)

(* The same without the condition: "duplicate launches are harmless".       *)
DuplicatesAreHarmless == \A j \in Jobs : row[j].status = "success" => Earned(j)

(* A case that ran once, succeeded, and whose SLURM job ended cleanly, is a *)
(* success in the ledger, unless polling gave the job up or the run was     *)
(* cancelled: no reader that acts on an older state of the row or of the    *)
(* SLURM job overwrites the success of a case.                              *)
SuccessIsKept ==
  \A i \in SlurmIds :
    slurm[i].state = "COMPLETED" /\ wrap[i].verdict = "success" /\ Submissions(Case(i)) = {i}
      => row[Case(i)].status \in {"success", "lost", "cancelled"}

(* watch gives a job up only after LostAfter polls that neither squeue nor  *)
(* sacct answered (each of them an unusual event here), whatever rows were  *)
(* listed, reset or submitted again between two polls.  A resume does so    *)
(* after a single such poll, and is an unusual event itself.  Unusual       *)
(* events of any kind are counted, so that this is a lower bound: fewer     *)
(* than LostAfter of them never lose a job.                                 *)
LostNeedsOutages ==
  (\E j \in Jobs : row[j].status = "lost") =>
    \/ MaxFaults - budget >= LostAfter
    \/ "resume" \in Faults /\ MaxFaults - budget >= 2

(* No more than K cases are "simultaneously scheduled", as the help of      *)
(* -k/--max-jobs says.  repair_chain keeps to it (it even counts claims),   *)
(* but schedule_successor does not count: it submits the successor of a     *)
(* case while that case is running.                                         *)
ScheduledWithinK == Cardinality(WithStatus(row, {"scheduled", "running"})) <= K

(* A case is handed to SLURM once: the seed, the predecessor's wrapper and  *)
(* repair_chain race for its row, and one claim wins.                       *)
OneSubmission == \A j \in Jobs : Cardinality(Submissions(j)) <= 1

(* No more than K cases are executed at the same time: "exactly a sliding   *)
(* window of size k", which holds while no claim outlives its claimer.      *)
Window == Cardinality({j \in Jobs : Executors(j) # {}}) <= K

(* No more than two windows of cases are scheduling, scheduled or running:  *)
(* each case that runs has at most its successor scheduled behind it, and   *)
(* repair_chain adds nothing to that.  A cancel leaves no row open that was *)
(* not active when it began.  K itself, which the help of --max-jobs names, *)
(* is not the bound: see ScheduledWithinK.                                  *)
TwoWindows == Cardinality(WithStatus(row, ACTIVE_STATUSES)) <= 2 * K

(* A run that says it is complete is complete, and says truly whether a     *)
(* case ended badly, although finalize_run reads the rows in one            *)
(* transaction and writes the verdict in another.                           *)
VerdictIsTrue == run \in RunVerdicts => AllTerminal(row) /\ run = Verdict(row)

(* The rows and the run behave as JobLife allows. *)
Life == INSTANCE JobLife WITH status <- [j \in Jobs |-> row[j].status]
LifeSpec == Life!Spec

-----------------------------------------------------------------------------
(* Liveness *)

(* A case whose executor died before the ledger had its SLURM id. *)
Stranded(j) ==
  row[j].status = "running" /\ row[j].slurm_job_id = NoId /\ Executors(j) = {}

Concluded == run \in RunVerdicts

(* With a watch running, the run is brought to its verdict. *)
Concludes == <>Concluded

(* The same, unless a case is stranded. *)
ConcludesUnlessStranded == <>(Concluded \/ \E j \in Jobs : Stranded(j))
=============================================================================
