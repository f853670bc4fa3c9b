------------------------------- MODULE Ledger -------------------------------
(***************************************************************************)
(* The ledger of the matrix runner (matrix_db.py): the rows of the table   *)
(* "jobs" of one run, and the statements that move a row from one status   *)
(* to another.  Every such statement is                                    *)
(*                                                                         *)
(*     UPDATE jobs SET status = new, ... WHERE job_id = j                  *)
(*                                     AND status IN (from)                *)
(*                                                                         *)
(* in a transaction of its own, so here each one is an operator from the   *)
(* rows before to the rows after, and one step of a process applies one.   *)
(*                                                                         *)
(* A row keeps the columns some process reads again: its status, its SLURM *)
(* job id, and whether the claim of its submitter is older than            *)
(* stale_after seconds (scheduled_at, read by recover_scheduling only).    *)
(* The times, paths, results and resource figures are left out.            *)
(***************************************************************************)
EXTENDS Integers

NoId == 0      \* NULL in the column slurm_job_id

TERMINAL_STATUSES ==
  {"success", "failed", "timeout", "error", "cancelled", "lost", "skipped"}
ACTIVE_STATUSES == {"scheduling", "scheduled", "running"}
BAD_STATUSES == {"failed", "timeout", "error", "cancelled", "lost"}
Statuses == {"pending"} \union ACTIVE_STATUSES \union TERMINAL_STATUSES
OPEN_STATUSES == {"pending"} \union ACTIVE_STATUSES

RowSet(ids) ==
  [status : Statuses, slurm_job_id : ids \union {NoId}, stale : BOOLEAN]

NewRow == [status |-> "pending", slurm_job_id |-> NoId, stale |-> FALSE]

-----------------------------------------------------------------------------
(* Reads *)

Terminal(rows, j) == rows[j].status \in TERMINAL_STATUSES
WithStatus(rows, from) == {j \in DOMAIN rows : rows[j].status \in from}
AllTerminal(rows) == \A j \in DOMAIN rows : Terminal(rows, j)

(* The rows reconcile_slurm asks SLURM about. *)
StaleActive(rows) ==
  {j \in WithStatus(rows, {"scheduled", "running"}) : rows[j].slurm_job_id # NoId}

(* The status finalize_run writes once every row is terminal. *)
Verdict(rows) ==
  IF WithStatus(rows, BAD_STATUSES) = {} THEN "complete" ELSE "complete_with_failures"

-----------------------------------------------------------------------------
(* Guarded updates *)

Transition(rows, j, from, new) ==
  IF rows[j].status \in from THEN [rows EXCEPT ![j] = new] ELSE rows

ClaimForSubmission(rows, j) ==
  Transition(rows, j, {"pending"},
             [rows[j] EXCEPT !.status = "scheduling", !.stale = FALSE])

ReleaseSubmission(rows, j) ==
  Transition(rows, j, {"scheduling"},
             [rows[j] EXCEPT !.status = "pending", !.stale = FALSE])

(* Every caller passes from_statuses=("scheduling",). *)
MarkScheduled(rows, j, id) ==
  Transition(rows, j, {"scheduling"},
             [rows[j] EXCEPT !.status = "scheduled", !.slurm_job_id = id,
                             !.stale = FALSE])

RunnableStatuses == {"pending", "scheduling", "scheduled"}

MarkRunning(rows, j) ==
  Transition(rows, j, RunnableStatuses,
             [rows[j] EXCEPT !.status = "running", !.stale = FALSE])

(* Mutant: the update forgets its condition on the status. *)
MarkTerminalUnguarded(rows, j, status) ==
  Transition(rows, j, Statuses, [rows[j] EXCEPT !.status = status, !.stale = FALSE])

MarkTerminal(rows, j, status) ==
  Transition(rows, j, OPEN_STATUSES,
             [rows[j] EXCEPT !.status = status, !.stale = FALSE])

(* Mutant: slurm_job_id is missing from the columns that are cleared. *)
ResetKeepingId(rows, j) ==
  Transition(rows, j, OPEN_STATUSES, [NewRow EXCEPT !.slurm_job_id = rows[j].slurm_job_id])

ResetToPending(rows, j) == Transition(rows, j, OPEN_STATUSES, NewRow)

(* Mutant: job_id is missing from the WHERE clause. *)
SetSlurmIdOfRun(rows, j, id) == [m \in DOMAIN rows |-> [rows[m] EXCEPT !.slurm_job_id = id]]

(* set_slurm_state(..., slurm_job_id): no guard on the status. *)
SetSlurmId(rows, j, id) == [rows EXCEPT ![j].slurm_job_id = id]

CancelPending(rows) ==
  [j \in DOMAIN rows |->
     IF rows[j].status = "pending" THEN [rows[j] EXCEPT !.status = "cancelled"]
                                   ELSE rows[j]]
=============================================================================
