------------------------------ MODULE CaseRun -------------------------------
(***************************************************************************)
(* One case from its claim to its recorded result: the wrapper             *)
(* (matrix_job.py: run_case and the end of main), the script run.sh it     *)
(* starts in a process group of its own, and, under that script, the       *)
(* SmartSim controller and the solver.                                     *)
(*                                                                         *)
(* The attempts of a case follow one another.  What they share is on the   *)
(* file system: the log, and the directory in which the controller writes  *)
(* its endpoint file and looks for the done file.  All four processes hold *)
(* the pipe the wrapper reads; SIGTERM ends all but a stubborn process and *)
(* a script that has set its trap, SIGKILL ends any.                       *)
(***************************************************************************)
EXTENDS Results

CONSTANTS Providers,    \* SMARTSIM and the providers without a controller
          Outputs,      \* what a solver may have printed when it ends
          MaxAttempts, Faults, MaxFaults

(* A solver prints no line that reads as the header of a wrapper. *)
SolverLines == UNION {ToSet(printed) : printed \in Outputs}
ASSUME OutputsAssumption ==
  Outputs \subseteq Seq(SolverLines) /\ \A line \in SolverLines : line.kind # "attempt"
ASSUME AttemptsAssumption == MaxAttempts \in Nat

VARIABLES provider,
          attempt,      \* the latest attempt
          wrapper,      \* its wrapper: pc, what it knows of the child
          sh,           \* run.sh: pc, exit status to be, trap set, endpoint read
          controller,   \* "off", "starting", "up", "ok", "failed"
          solver,       \* "off", "runs", "ok", "failed"
          stubborn,     \* those of "controller", "solver" that nothing but KILL ends
          pipe,         \* what has been printed in this attempt
          endpoint,     \* the attempt whose controller wrote the file, or 0
          done,         \* the done file is there
          log,          \* the log of the case
          row,          \* status and result of the case in the ledger
          budget
vars == <<provider, attempt, wrapper, sh, controller, solver, stubborn, pipe, endpoint, done,
          log, row, budget>>
children == <<sh, controller, solver, stubborn>>
files == <<endpoint, done, log>>

Off == [pc |-> "off", status |-> 0, timed_out |-> FALSE, output |-> <<>>]
ShOff == [pc |-> "off", status |-> 0, trap |-> FALSE, ssdb |-> 0]
CASE_ID == 1

Init == /\ provider \in Providers /\ attempt = 0 /\ wrapper = Off /\ sh = ShOff
        /\ controller = "off" /\ solver = "off" /\ stubborn = {} /\ pipe = <<>>
        /\ endpoint = 0 /\ done = FALSE /\ log = <<>>
        /\ row = [status |-> "pending", result |-> Nothing] /\ budget = MaxFaults

Spend(fault) == fault \in Faults /\ budget > 0 /\ budget' = budget - 1
Free == UNCHANGED budget
ControllerLives == controller \in {"starting", "up"}
SolverLives == solver = "runs"
ShLives == sh.pc \notin {"off", "exited"}
PipeOpen == ShLives \/ ControllerLives \/ SolverLives

-----------------------------------------------------------------------------
(* The wrapper *)

(* Mutant: the header is written when the log is new. *)
StartNamingTheLog ==
  /\ row.status = "pending" /\ wrapper.pc = "off" /\ attempt < MaxAttempts
  /\ attempt' = attempt + 1 /\ row' = [row EXCEPT !.status = "running"]
  /\ wrapper' = [Off EXCEPT !.pc = "spawn"]
  /\ log' = IF log = <<>> THEN <<[kind |-> "attempt", value |-> CASE_ID]>> ELSE log
  /\ Free /\ UNCHANGED <<provider, children, pipe, endpoint, done>>

NoPort == provider = "SMARTSIM" /\ Spend("ports")   \* choose_port finds none

(* mark_running, build_env with the choice of a port, and the header of the *)
(* attempt.  Without a free port there is no header, only the exception.    *)
Start ==
  /\ row.status = "pending" /\ wrapper.pc = "off" /\ attempt < MaxAttempts
  /\ attempt' = attempt + 1 /\ row' = [row EXCEPT !.status = "running"]
  /\ \/ /\ wrapper' = [Off EXCEPT !.pc = "spawn"]
        /\ log' = Append(log, [kind |-> "attempt", value |-> CASE_ID]) /\ Free
     \/ /\ NoPort /\ wrapper' = [Off EXCEPT !.pc = "exception"] /\ UNCHANGED log
  /\ UNCHANGED <<provider, children, pipe, endpoint, done>>

Spawn ==
  /\ wrapper.pc = "spawn"
  /\ \/ /\ wrapper' = [wrapper EXCEPT !.pc = "communicate"] /\ Free
        /\ sh' = [ShOff EXCEPT !.pc = "begin"]
        /\ controller' = "off" /\ solver' = "off" /\ stubborn' = {} /\ pipe' = <<>>
     \/ /\ Spend("fork") /\ wrapper' = [wrapper EXCEPT !.pc = "exception"]
        /\ UNCHANGED <<children, pipe>>
  /\ UNCHANGED <<provider, attempt, files, row>>

(* communicate returns at the end of the pipe. *)
Communicate ==
  /\ wrapper.pc = "communicate" /\ ~PipeOpen
  /\ wrapper' = [wrapper EXCEPT !.pc = "append", !.status = sh.status, !.output = pipe]
  /\ UNCHANGED <<provider, attempt, children, pipe, files, row, budget>>

(* killpg with SIGTERM.  A script that has set its trap goes to cleanup,    *)
(* one that is in its cleanup stays there.                                  *)
Terminated == [sh EXCEPT !.status = 143, !.pc = IF ~ShLives THEN @ ELSE
                 IF ~sh.trap THEN "exited" ELSE IF @ = "await" THEN @ ELSE "cleanup"]
Ended(lives, name, state) == IF lives /\ name \notin stubborn THEN "failed" ELSE state

TimesOut ==
  /\ wrapper.pc = "communicate"
  /\ wrapper' = [wrapper EXCEPT !.pc = "grace", !.timed_out = TRUE]
  /\ sh' = Terminated
  /\ controller' = Ended(ControllerLives, "controller", controller)
  /\ solver' = Ended(SolverLives, "solver", solver)
  /\ UNCHANGED <<provider, attempt, stubborn, pipe, files, row, budget>>

(* Mutant: SIGTERM is all. *)
GraceWithoutKill ==
  /\ wrapper.pc = "grace" /\ wrapper' = [wrapper EXCEPT !.pc = "drain"]
  /\ UNCHANGED <<provider, attempt, children, pipe, files, row, budget>>

(* kill_process_group looks at the script only: if it has not ended after   *)
(* ten seconds, SIGKILL ends the whole group.                               *)
Grace ==
  /\ wrapper.pc = "grace"
  /\ wrapper' = [wrapper EXCEPT !.pc = "drain"]
  /\ \/ ~ShLives /\ UNCHANGED children
     \/ /\ ShLives /\ sh' = [sh EXCEPT !.pc = "exited", !.status = 137]
        /\ controller' = IF ControllerLives THEN "failed" ELSE controller
        /\ solver' = IF SolverLives THEN "failed" ELSE solver
        /\ UNCHANGED stubborn
  /\ UNCHANGED <<provider, attempt, pipe, files, row, budget>>

(* Mutant: the second communicate has no timeout. *)
DrainAll ==
  /\ wrapper.pc = "drain" /\ ~PipeOpen
  /\ wrapper' = [wrapper EXCEPT !.pc = "append", !.status = 124, !.output = pipe]
  /\ UNCHANGED <<provider, attempt, children, pipe, files, row, budget>>

(* The second communicate gives up the output while the pipe stays open.    *)
Drain ==
  /\ wrapper.pc = "drain"
  /\ wrapper' = [wrapper EXCEPT !.pc = "append", !.status = 124,
                                !.output = IF PipeOpen THEN <<>> ELSE pipe]
  /\ UNCHANGED <<provider, attempt, children, pipe, files, row, budget>>

AppendOutput ==
  /\ wrapper.pc = "append"
  /\ log' = log \o wrapper.output /\ wrapper' = [wrapper EXCEPT !.pc = "record"]
  /\ UNCHANGED <<provider, attempt, children, pipe, endpoint, done, row, budget>>

(* The status of the case; a missing profile fails one that went well. *)
Record ==
  /\ wrapper.pc = "record"
  /\ \E profiled \in BOOLEAN :
       /\ IF profiled THEN Free
          ELSE ~wrapper.timed_out /\ wrapper.status = 0 /\ Spend("profile")
       /\ row' = [status |-> IF wrapper.timed_out THEN "timeout"
                             ELSE IF wrapper.status = 0 /\ profiled THEN "success" ELSE "failed",
                  result |-> Parse(wrapper.output)]
  /\ wrapper' = [wrapper EXCEPT !.pc = "clean"]
  /\ UNCHANGED <<provider, attempt, children, pipe, files>>

Except ==
  /\ wrapper.pc = "exception" /\ wrapper' = Off
  /\ row' = [status |-> "error", result |-> Nothing]
  /\ UNCHANGED <<provider, attempt, children, pipe, files, budget>>

(* cleanup_successful_job removes the state directory. *)
Clean ==
  /\ wrapper.pc = "clean" /\ wrapper' = Off
  /\ IF row.status = "success" THEN endpoint' = 0 /\ done' = FALSE
     ELSE UNCHANGED <<endpoint, done>>
  /\ UNCHANGED <<provider, attempt, children, pipe, log, row, budget>>

-----------------------------------------------------------------------------
(* run.sh *)

ShGoto(pc) == sh' = [sh EXCEPT !.pc = pc]
ShExit(status) == sh' = [sh EXCEPT !.pc = IF sh.trap THEN "cleanup" ELSE "exited", !.status = status]
ShKeeps == UNCHANGED <<provider, attempt, wrapper, stubborn, pipe, log, row>>
ShOnly == ShKeeps /\ Free

(* Mutant: files of an earlier attempt are left where they are. *)
ShBeginOnTop ==
  /\ sh.pc = "begin"
  /\ ShGoto(IF provider = "SMARTSIM" THEN "start" ELSE "solve")
  /\ ShOnly /\ UNCHANGED <<controller, solver, endpoint, done>>

(* rm -f of the endpoint and done files, unless a check before it fails.    *)
ShBegin ==
  /\ sh.pc = "begin"
  /\ \/ /\ Free
        /\ IF provider = "SMARTSIM" THEN ShGoto("start") /\ endpoint' = 0 /\ done' = FALSE
           ELSE ShGoto("solve") /\ UNCHANGED <<endpoint, done>>
     \/ Spend("setup") /\ ShExit(1) /\ UNCHANGED <<endpoint, done>>
  /\ ShKeeps /\ UNCHANGED <<controller, solver>>

ShStart ==
  /\ \/ sh.pc = "start" /\ controller' = "starting" /\ ShGoto("trap")
     \/ sh.pc = "trap" /\ sh' = [sh EXCEPT !.pc = "poll", !.trap = TRUE] /\ UNCHANGED controller
  /\ ShOnly /\ UNCHANGED <<solver, endpoint, done>>

(* The poll ends with the controller, with an endpoint, or with patience.   *)
ShPoll ==
  /\ sh.pc = "poll"
  /\ \/ ~ControllerLives /\ ShExit(1)
     \/ ControllerLives /\ endpoint # 0 /\ sh' = [sh EXCEPT !.pc = "solve", !.ssdb = endpoint]
     \/ endpoint = 0 /\ ShExit(1)
  /\ ShOnly /\ UNCHANGED <<controller, solver, endpoint, done>>

ShSolve ==
  /\ sh.pc = "solve" /\ solver' = "runs" /\ ShGoto("mpirun")
  /\ ShOnly /\ UNCHANGED <<controller, endpoint, done>>

(* Mutant: no set -e. *)
ShSolvedAnyhow ==
  /\ sh.pc = "mpirun" /\ ~SolverLives
  /\ IF sh.trap THEN ShGoto("stop") ELSE ShExit(0)
  /\ ShOnly /\ UNCHANGED <<controller, solver, endpoint, done>>

(* set -e: a solver that fails ends the script, through the trap if set.    *)
ShSolved ==
  /\ sh.pc = "mpirun" /\ ~SolverLives
  /\ \/ solver = "failed" /\ ShExit(1)
     \/ solver = "ok" /\ (IF sh.trap THEN ShGoto("stop") ELSE ShExit(0))
  /\ ShOnly /\ UNCHANGED <<controller, solver, endpoint, done>>

(* cleanup, called at the end ("stop") or by the trap ("cleanup"): it asks  *)
(* with the done file; its pc is then "await", its status that of the       *)
(* script if the trap has called it and -1 if the controller's decides.     *)
ShCleanup ==
  /\ sh.pc \in {"stop", "cleanup"}
  /\ done' = (done \/ ControllerLives \/ sh.pc = "stop")
  /\ sh' = [sh EXCEPT !.pc = "await", !.status = IF sh.pc = "stop" THEN -1 ELSE @]
  /\ ShOnly /\ UNCHANGED <<controller, solver, endpoint>>

ControllerStatus == IF controller = "ok" THEN 0 ELSE 1

(* Mutant: cleanup leaves controller_status as it was. *)
ShAwaitUnset ==
  /\ sh.pc = "await"
  /\ IF ControllerLives THEN controller' = "failed" /\ UNCHANGED sh
     ELSE UNCHANGED controller /\ ShGoto("exited")
  /\ ShOnly /\ UNCHANGED <<solver, endpoint, done>>

(* Mutant: the script does not go on to SIGTERM and SIGKILL. *)
ShAwaitAsking ==
  /\ sh.pc = "await" /\ UNCHANGED controller
  /\ sh' = [sh EXCEPT !.pc = "exited", !.status = IF @ = -1 THEN ControllerStatus ELSE @]
  /\ ShOnly /\ UNCHANGED <<solver, endpoint, done>>

(* The controller has ended, or is ended with SIGTERM or else SIGKILL.      *)
ShAwait ==
  /\ sh.pc = "await"
  /\ IF ControllerLives THEN controller' = "failed" /\ UNCHANGED sh
     ELSE UNCHANGED controller /\
          sh' = [sh EXCEPT !.pc = "exited", !.status = IF @ = -1 THEN ControllerStatus ELSE @]
  /\ ShOnly /\ UNCHANGED <<solver, endpoint, done>>

-----------------------------------------------------------------------------
(* The controller and the solver, as run.sh relies on them *)

(* It fails when another process has taken the port tested by choose_port,  *)
(* or for reasons of its own.                                               *)
ControllerSteps ==
  /\ \/ controller = "starting" /\ controller' = "up" /\ endpoint' = attempt /\ Free
     \/ controller = "up" /\ done /\ "controller" \notin stubborn /\ controller' = "ok"
        /\ Free /\ UNCHANGED endpoint
     \/ ControllerLives /\ Spend("controller") /\ controller' = "failed" /\ UNCHANGED endpoint
  /\ UNCHANGED <<provider, attempt, wrapper, sh, solver, stubborn, pipe, done, log, row>>

(* It may end well without having printed what the parser looks for, and    *)
(* its database going away makes it fail.                                   *)
SolverEnds ==
  /\ SolverLives /\ "solver" \notin stubborn
  /\ \E printed \in Outputs, result \in {"ok", "failed"} :
       /\ IF result = "ok" THEN controller \notin {"ok", "failed"} \/ controller = "off"
          ELSE TRUE
       /\ IF result = "failed" /\ controller # "failed" THEN Spend("solver") ELSE Free
       /\ pipe' = printed /\ solver' = result
  /\ UNCHANGED <<provider, attempt, wrapper, sh, controller, stubborn, files, row>>

TurnsStubborn ==
  /\ \E name \in {"controller", "solver"} :
       /\ IF name = "controller" THEN ControllerLives ELSE SolverLives
       /\ stubborn' = stubborn \union {name}
  /\ Spend("stubborn")
  /\ UNCHANGED <<provider, attempt, wrapper, sh, controller, solver, pipe, files, row>>

(* The node fails, or SLURM ends the job: every process is gone, the files  *)
(* stay, and a coordinator has the case run again.                          *)
NodeFails ==
  /\ wrapper.pc # "off" /\ row.status = "running" /\ Spend("node")
  /\ wrapper' = Off /\ sh' = ShOff /\ controller' = "off" /\ solver' = "off"
  /\ stubborn' = {} /\ pipe' = <<>> /\ row' = [row EXCEPT !.status = "pending"]
  /\ UNCHANGED <<provider, attempt, files>>

WrapperSteps == \/ Start \/ Spawn \/ Communicate \/ TimesOut \/ Grace \/ Drain \/ AppendOutput
                \/ Record \/ Except \/ Clean
ShSteps == \/ ShBegin \/ ShStart \/ ShPoll \/ ShSolve \/ ShSolved \/ ShCleanup \/ ShAwait

Next == WrapperSteps \/ ShSteps \/ ControllerSteps \/ SolverEnds \/ TurnsStubborn \/ NodeFails

Spec == Init /\ [][Next]_vars
(* The wrapper goes on, and its timers run out; the script, the controller  *)
(* and the solver may hang for ever.                                        *)
FairSpec == Spec /\ WF_vars(WrapperSteps)

-----------------------------------------------------------------------------
(* Properties *)

TypeOK ==
  /\ provider \in Providers /\ attempt \in 0..MaxAttempts /\ endpoint \in 0..attempt
  /\ row.status \in {"pending", "running", "success", "failed", "timeout", "error"}
  /\ sh.status \in {-1, 0, 1, 137, 143} /\ wrapper.status \in {0, 1, 124, 137, 143}
  /\ controller \in {"off", "starting", "up", "ok", "failed"}
  /\ solver \in {"off", "runs", "ok", "failed"}
  /\ done \in BOOLEAN /\ stubborn \subseteq {"controller", "solver"}

(* The solver is given the database of its own attempt, not the endpoint    *)
(* that an attempt on a failed node has left behind (rm -f, the poll).      *)
SolverHasDatabase == SolverLives /\ provider = "SMARTSIM" => sh.ssdb = attempt

(* On every way out of the script the controller has ended before it; the   *)
(* one exception is a signal before the trap is set that a stubborn         *)
(* controller outlives (cleanup, trap).                                     *)
ControllerStopped ==
  sh.pc = "exited" /\ ControllerLives => ~sh.trap /\ "controller" \in stubborn

(* A success is one of all: solver and controller ended well in this        *)
(* attempt, whatever was done to stop them (set -e, controller_status).     *)
SuccessIsWhole ==
  row.status = "success" =>
    solver = "ok" /\ (provider = "SMARTSIM" => controller = "ok")

(* What the ledger has as the result of the case is what a reanalysis reads *)
(* from its log, however many attempts there were and wherever they broke   *)
(* off (run_case, parse_summary, final_attempt).                            *)
ReanalysisAgrees ==
  row.status \in {"success", "failed", "timeout"} =>
    row.result = Parse(FinalAttempt(log, CASE_ID))

(* When the case is recorded, script, controller and solver have ended, but *)
(* for one that does not stop when it is told to (kill_process_group).  The *)
(* database a controller starts is not modelled: run.sh warns of one that   *)
(* needs manual cleanup when its controller ended badly.                    *)
NothingRunsOn ==
  row.status \in {"success", "failed", "timeout"} /\ wrapper.pc \in {"clean", "off"} =>
    /\ ~ShLives
    /\ ControllerLives => "controller" \in stubborn
    /\ SolverLives => "solver" \in stubborn

(* A case that runs is recorded, though everything below its wrapper may    *)
(* hang, unless its node fails.                                             *)
CaseEnds == row.status = "running" ~> row.status # "running"
=============================================================================
