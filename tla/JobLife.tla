------------------------------ MODULE JobLife -------------------------------
(***************************************************************************)
(* What the ledger promises of a run, whatever executes it: every case     *)
(* moves along the edges below, and a case that has ended never changes    *)
(* again.  The run's verdict is written only once every case has ended,    *)
(* and says truly whether one of them ended badly.                         *)
(*                                                                         *)
(* A case may go back to "pending" from any open status (a lost claim is   *)
(* released, a dead submission is reset), but it is never handed to SLURM  *)
(* without a claim, and a case that runs is never put back in the queue's  *)
(* hands ("running" to "scheduled" or "scheduling").                       *)
(***************************************************************************)
EXTENDS Ledger

CONSTANT Jobs

VARIABLES status, run
vars == <<status, run>>

RunStatuses ==
  {"pending", "running", "complete", "complete_with_failures", "cancelled", "error"}

(* The statuses an open case may take next. *)
Edges(from) ==
  TERMINAL_STATUSES \union
  CASE from = "pending"    -> {"scheduling", "running"}
    [] from = "scheduling" -> {"pending", "scheduled", "running"}
    [] from = "scheduled"  -> {"pending", "running"}
    [] OTHER               -> {"pending"}

Init == /\ status = [j \in Jobs |-> "pending"]
        /\ run = "pending"

(* One or more open cases take an edge (cancel_pending moves many). *)
Move == /\ status' \in [Jobs -> Statuses]
        /\ \A j \in Jobs : \/ status'[j] = status[j]
                           \/ /\ status[j] \in OPEN_STATUSES
                              /\ status'[j] \in Edges(status[j])
        /\ UNCHANGED run

Restart == run' = "running" /\ UNCHANGED status
Cancel == run' = "cancelled" /\ UNCHANGED status

(* preflight finds that the cases cannot run. *)
Fail == run' = "error" /\ UNCHANGED status

Conclude ==
  /\ \A j \in Jobs : status[j] \in TERMINAL_STATUSES
  /\ run' = IF \E j \in Jobs : status[j] \in BAD_STATUSES
            THEN "complete_with_failures" ELSE "complete"
  /\ UNCHANGED status

Next == Move \/ Restart \/ Cancel \/ Fail \/ Conclude

Spec == Init /\ [][Next]_vars
=============================================================================
