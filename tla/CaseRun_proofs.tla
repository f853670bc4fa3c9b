--------------------------- MODULE CaseRun_proofs ---------------------------
(***************************************************************************)
(* The safety properties of CaseRun, for every number of attempts, every   *)
(* set of faults and every number of them.                                 *)
(*                                                                         *)
(* The inductive invariant, CaseInv, is a conjunction of named parts: the  *)
(* types, who may be running given how far wrapper and case are, what the  *)
(* script has started by which point, whose database the solver is given,  *)
(* what an exit status of the script stands for, what is over when the     *)
(* script has ended, and what the log ends with.                           *)
(***************************************************************************)
EXTENDS CaseRun, SequenceTheorems, TLAPS

AttemptHeader == [kind |-> "attempt", value |-> CASE_ID]
LogLines == SolverLines \union {AttemptHeader}
Recorded == {"success", "failed", "timeout"}

WrapperSet ==
  [pc : {"off", "spawn", "communicate", "grace", "drain", "append", "record", "clean",
         "exception"},
   status : {0, 1, 124, 137, 143}, timed_out : BOOLEAN, output : Outputs \union {<<>>}]
ShPcs == {"off", "begin", "start", "trap", "poll", "solve", "mpirun", "stop", "cleanup",
          "await", "exited"}
ShStatuses == {-1, 0, 1, 137, 143}
ShSet == [pc : ShPcs, status : ShStatuses, trap : BOOLEAN, ssdb : 0..MaxAttempts]

TypeInv ==
  /\ TypeOK
  /\ wrapper \in WrapperSet /\ sh \in ShSet
  /\ pipe \in Outputs \union {<<>>} /\ log \in Seq(LogLines)
  /\ row = [status |-> row.status, result |-> row.result]

(* A case is taken up only when nothing of an earlier attempt is left: it   *)
(* is pending before the first attempt and when its node has failed.        *)
NothingBegun == sh = ShOff /\ controller = "off" /\ solver = "off"
Stages ==
  /\ row.status = "pending" => wrapper.pc = "off" /\ NothingBegun
  /\ row.status = "running" <=> wrapper.pc \notin {"off", "clean"}
  /\ wrapper.pc \in {"spawn", "exception"} => NothingBegun
  /\ wrapper.pc \in {"communicate", "grace", "drain", "append", "record", "clean"}
       => sh.pc # "off"
  /\ wrapper.pc = "clean" => row.status \in Recorded

(* What the script has set up at each of its points. *)
Script ==
  /\ sh.pc \in {"off", "begin", "start"} => controller = "off"
  /\ sh.pc \in {"off", "begin", "start", "trap", "poll", "solve"} => solver = "off"
  /\ sh.pc \in {"off", "begin", "start", "trap"} => ~sh.trap
  /\ sh.pc \in {"poll", "stop", "cleanup", "await"} => sh.trap
  /\ provider = "SMARTSIM" /\ sh.pc \in {"solve", "mpirun"} => sh.trap
  /\ provider # "SMARTSIM" =>
       controller = "off" /\ ~sh.trap /\ sh.pc \notin {"start", "trap", "poll"}

(* From the removal of the old files on, an endpoint is one of this attempt. *)
Database ==
  /\ sh.pc \in {"start", "trap", "poll"} => endpoint \in {0, attempt}
  /\ provider = "SMARTSIM" /\ (sh.pc = "solve" \/ SolverLives) => sh.ssdb = attempt

(* Only a script whose solver, and whose controller if there is one, ended  *)
(* well exits with 0.  Status -1 is one that the controller still decides.  *)
StatusMeans ==
  /\ sh.pc = "stop" => solver = "ok"
  /\ sh.pc \in {"cleanup", "await"} => sh.status # 0
  /\ sh.status = -1 => sh.pc = "await" /\ solver = "ok"
  /\ sh.pc = "exited" /\ sh.status = 0 =>
       solver = "ok" /\ (provider = "SMARTSIM" => controller = "ok")
  /\ wrapper.pc \in {"append", "record"} /\ ~wrapper.timed_out => wrapper.status = sh.status

(* Once the wrapper has stopped waiting, nothing runs that a signal ends. *)
Signalled == /\ ControllerLives => "controller" \in stubborn
             /\ SolverLives => "solver" \in stubborn
Ending ==
  /\ wrapper.pc \in {"spawn", "communicate"} => ~wrapper.timed_out
  /\ wrapper.pc \in {"grace", "drain"} => wrapper.timed_out
  /\ wrapper.pc = "grace" => sh.pc \in {"cleanup", "await", "exited"} /\ Signalled
  /\ wrapper.pc \in {"drain", "append", "record", "clean"} \/ row.status \in Recorded
       => sh.pc = "exited" /\ Signalled

(* Before the output is appended the log ends with the header of this       *)
(* attempt; the result is that of the output which follows it.              *)
LogEnds ==
  /\ wrapper.pc \in {"spawn", "communicate", "grace", "drain", "append"}
       => Len(log) > 0 /\ log[Len(log)] = AttemptHeader
  /\ wrapper.pc = "record" => FinalAttempt(log, CASE_ID) = wrapper.output
  /\ ReanalysisAgrees

CaseInv ==
  /\ TypeInv /\ Stages /\ Script /\ ControllerStopped /\ Database /\ StatusMeans
  /\ Ending /\ SuccessIsWhole /\ LogEnds

-----------------------------------------------------------------------------
(* Types *)

LEMMA OutputLines == \A printed \in Outputs \union {<<>>} : printed \in Seq(SolverLines)
  <1>1. \A printed \in Outputs : printed \in Seq(SolverLines)
    BY OutputsAssumption
  <1>2. <<>> \in Seq(SolverLines)
    OBVIOUS
  <1> QED
    BY <1>1, <1>2

(* What a step changes, in three parts. *)
Processes == wrapper \in WrapperSet /\ sh \in ShSet
Files ==
  /\ pipe \in Outputs \union {<<>>} /\ log \in Seq(LogLines)
  /\ row = [status |-> row.status, result |-> row.result]

LEMMA StatesTyped ==
  /\ Off \in WrapperSet
  /\ \A pc \in {"spawn", "exception"} : [Off EXCEPT !.pc = pc] \in WrapperSet
  /\ ShOff \in ShSet /\ [ShOff EXCEPT !.pc = "begin"] \in ShSet
  <1>1. <<>> \in Outputs \union {<<>>}
    OBVIOUS
  <1>2. 0 \in 0..MaxAttempts
    BY AttemptsAssumption
  <1>3. /\ Off \in WrapperSet
        /\ \A pc \in {"spawn", "exception"} : [Off EXCEPT !.pc = pc] \in WrapperSet
    BY <1>1 DEF Off, WrapperSet
  <1>4. ShOff \in ShSet /\ [ShOff EXCEPT !.pc = "begin"] \in ShSet
    BY <1>2 DEF ShOff, ShSet, ShPcs, ShStatuses
  <1> QED
    BY <1>3, <1>4

LEMMA ShMoves ==
  ASSUME NEW s \in ShSet, NEW pc \in {"cleanup", "exited"}, NEW status \in {-1, 0, 1, 137, 143}
  PROVE  /\ [s EXCEPT !.pc = pc, !.status = status] \in ShSet
         /\ [s EXCEPT !.status = status, !.pc = pc] \in ShSet
         /\ [s EXCEPT !.status = status, !.pc = s.pc] \in ShSet
  BY DEF ShSet, ShPcs, ShStatuses

LEMMA WrapperTypes ==
  ASSUME TypeInv, StatusMeans, WrapperSteps
  PROVE  TypeInv'
  <1>t. TypeOK /\ Processes /\ Files
    BY DEF TypeInv, Processes, Files
  <1>1. CASE Start
    <2>1. Processes'
      BY <1>1, <1>t, StatesTyped DEF Processes, children, Start
    <2>2. TypeOK'
      BY <1>1, <1>t, <2>1, AttemptsAssumption DEF TypeOK, Processes, WrapperSet, ShSet, ShPcs,
             ShStatuses, Recorded, files, children, Start, NoPort, Spend, Free, Off, LogLines,
             AttemptHeader
    <2>3. Files'
      <3>1. row' = [status |-> row'.status, result |-> row'.result]
        BY <1>1, <1>t DEF Files, Start
      <3>2. AttemptHeader \in LogLines
        BY DEF LogLines
      <3>3. log' \in Seq(LogLines)
        BY <1>1, <1>t, <3>2 DEF Files, Start, AttemptHeader
      <3> QED
        BY <1>1, <1>t, <3>1, <3>3 DEF Files, Start
    <2> QED
      BY <2>1, <2>2, <2>3 DEF TypeInv, Processes, Files
  <1>2. CASE Spawn
    <2>1. Processes'
      <3>1. wrapper' \in WrapperSet
        BY <1>2, <1>t DEF Processes, WrapperSet, Spawn
      <3> QED
        BY <1>2, <1>t, <3>1, StatesTyped DEF Processes, children, Spawn
    <2>2. TypeOK'
      BY <1>2, <1>t, <2>1, AttemptsAssumption DEF TypeOK, Processes, WrapperSet, ShSet, ShPcs,
             ShStatuses, Recorded, files, children, Spawn, Spend, Free, ShOff
    <2>3. Files'
      BY <1>2, <1>t, AttemptsAssumption DEF Files, Processes, WrapperSet, files, children,
             Spawn, Spend, Free, ShOff
    <2> QED
      BY <2>1, <2>2, <2>3 DEF TypeInv, Processes, Files
  <1>3. CASE Communicate
    <2>1. Processes'
      BY <1>3, <1>t, AttemptsAssumption DEF Processes, WrapperSet, ShSet, ShPcs, ShStatuses,
             Files, files, children, Communicate, StatusMeans, PipeOpen, ShLives
    <2>2. TypeOK'
      BY <1>3, <1>t, <2>1, AttemptsAssumption DEF TypeOK, Processes, WrapperSet, ShSet, ShPcs,
             ShStatuses, Recorded, files, children, Communicate, StatusMeans, PipeOpen, ShLives
    <2>3. Files'
      BY <1>3, <1>t, AttemptsAssumption DEF Files, Processes, WrapperSet, files, children,
             Communicate, StatusMeans, PipeOpen, ShLives
    <2> QED
      BY <2>1, <2>2, <2>3 DEF TypeInv, Processes, Files
  <1>4. CASE TimesOut
    <2>1. Processes'
      <3>1. wrapper' \in WrapperSet
        BY <1>4, <1>t DEF Processes, WrapperSet, TimesOut
      <3> DEFINE pc == IF ~ShLives THEN sh.pc ELSE IF ~sh.trap THEN "exited"
                       ELSE IF sh.pc = "await" THEN sh.pc ELSE "cleanup"
      <3>2. sh' = [sh EXCEPT !.status = 143, !.pc = pc] /\ pc \in {"cleanup", "exited", sh.pc}
        BY <1>4 DEF TimesOut, Terminated
      <3> HIDE DEF pc
      <3>3. sh' \in ShSet
        <4>1. CASE pc = sh.pc
          BY <1>t, <3>2, <4>1, ShMoves DEF Processes
        <4>2. CASE pc \in {"cleanup", "exited"}
          <5>1. \A x \in {"cleanup", "exited"} : [sh EXCEPT !.status = 143, !.pc = x] \in ShSet
            BY <1>t, ShMoves DEF Processes
          <5> QED
            BY <3>2, <4>2, <5>1
        <4> QED
          BY <3>2, <4>1, <4>2
      <3> QED
        BY <3>1, <3>3 DEF Processes
    <2>2. TypeOK'
      BY <1>4, <1>t, <2>1, AttemptsAssumption DEF TypeOK, Processes, WrapperSet, ShSet, ShPcs,
             ShStatuses, Recorded, files, children, TimesOut, Terminated, Ended
    <2>3. Files'
      BY <1>4, <1>t, AttemptsAssumption DEF Files, Processes, WrapperSet, files, children,
             TimesOut, Terminated, Ended
    <2> QED
      BY <2>1, <2>2, <2>3 DEF TypeInv, Processes, Files
  <1>5. CASE Grace
    <2>1. Processes'
      <3>1. wrapper' \in WrapperSet
        BY <1>5, <1>t DEF Processes, WrapperSet, Grace
      <3> QED
        BY <1>5, <1>t, <3>1, ShMoves DEF Processes, children, Grace
    <2>2. TypeOK'
      BY <1>5, <1>t, <2>1, AttemptsAssumption DEF TypeOK, Processes, WrapperSet, ShSet, ShPcs,
             ShStatuses, Recorded, files, children, Grace
    <2>3. Files'
      BY <1>5, <1>t, AttemptsAssumption DEF Files, Processes, WrapperSet, files, children, Grace
    <2> QED
      BY <2>1, <2>2, <2>3 DEF TypeInv, Processes, Files
  <1>6. CASE Drain
    <2>1. Processes'
      <3> DEFINE out == IF PipeOpen THEN <<>> ELSE pipe
      <3>1. out \in Outputs \union {<<>>}
        BY <1>t DEF Files
      <3>2. wrapper' = [wrapper EXCEPT !.pc = "append", !.status = 124, !.output = out]
        BY <1>6 DEF Drain
      <3> HIDE DEF out
      <3>3. wrapper' \in WrapperSet
        BY <1>t, <3>1, <3>2 DEF Processes, WrapperSet
      <3> QED
        BY <1>6, <1>t, <3>3 DEF Processes, children, Drain
    <2>2. TypeOK'
      BY <1>6, <1>t, <2>1, AttemptsAssumption DEF TypeOK, Processes, WrapperSet, ShSet, ShPcs,
             ShStatuses, Recorded, files, children, Drain
    <2>3. Files'
      BY <1>6, <1>t, AttemptsAssumption DEF Files, Processes, WrapperSet, files, children, Drain
    <2> QED
      BY <2>1, <2>2, <2>3 DEF TypeInv, Processes, Files
  <1>7. CASE AppendOutput
    <2>1. Processes'
      BY <1>7, <1>t, AttemptsAssumption, OutputLines DEF Processes, WrapperSet, ShSet, ShPcs,
             ShStatuses, Files, files, children, AppendOutput, LogLines
    <2>2. TypeOK'
      BY <1>7, <1>t, <2>1, AttemptsAssumption, OutputLines DEF TypeOK, Processes, WrapperSet,
             ShSet, ShPcs, ShStatuses, Recorded, files, children, AppendOutput, LogLines
    <2>3. Files'
      BY <1>7, <1>t, AttemptsAssumption, OutputLines DEF Files, Processes, WrapperSet, files,
             children, AppendOutput, LogLines
    <2> QED
      BY <2>1, <2>2, <2>3 DEF TypeInv, Processes, Files
  <1>8. CASE Record
    <2>1. Processes'
      BY <1>8, <1>t, AttemptsAssumption DEF Processes, WrapperSet, ShSet, ShPcs, ShStatuses,
             Files, files, children, Record, Spend, Free
    <2>2. TypeOK'
      BY <1>8, <1>t, <2>1, AttemptsAssumption DEF TypeOK, Processes, WrapperSet, ShSet, ShPcs,
             ShStatuses, Recorded, files, children, Record, Spend, Free
    <2>3. Files'
      BY <1>8, <1>t, AttemptsAssumption DEF Files, Processes, WrapperSet, files, children,
             Record, Spend, Free
    <2> QED
      BY <2>1, <2>2, <2>3 DEF TypeInv, Processes, Files
  <1>9. CASE Except
    <2>1. Processes'
      BY <1>9, <1>t, AttemptsAssumption DEF Processes, WrapperSet, ShSet, ShPcs, ShStatuses,
             Files, files, children, Except, Off
    <2>2. TypeOK'
      BY <1>9, <1>t, <2>1, AttemptsAssumption DEF TypeOK, Processes, WrapperSet, ShSet, ShPcs,
             ShStatuses, Recorded, files, children, Except, Off
    <2>3. Files'
      BY <1>9, <1>t, AttemptsAssumption DEF Files, Processes, WrapperSet, files, children,
             Except, Off
    <2> QED
      BY <2>1, <2>2, <2>3 DEF TypeInv, Processes, Files
  <1>10. CASE Clean
    <2>1. Processes'
      BY <1>10, <1>t, AttemptsAssumption DEF Processes, WrapperSet, ShSet, ShPcs, ShStatuses,
             Files, files, children, Clean, Off
    <2>2. TypeOK'
      <3>1. endpoint' \in 0..attempt' /\ done' \in BOOLEAN
        <4>1. attempt' = attempt /\ attempt \in Nat
          BY <1>10, <1>t, AttemptsAssumption DEF TypeOK, Clean
        <4>2. done' \in BOOLEAN
          BY <1>10, <1>t DEF Clean, TypeOK
        <4>3. endpoint' = 0 \/ endpoint' = endpoint
          BY <1>10 DEF Clean
        <4>4. 0 \in 0..attempt /\ endpoint \in 0..attempt
          BY <1>t, <4>1 DEF TypeOK
        <4> QED
          BY <4>1, <4>2, <4>3, <4>4
      <3>2. UNCHANGED <<provider, attempt, sh, controller, solver, stubborn, row>>
        BY <1>10 DEF Clean, children
      <3>3. wrapper'.status \in {0, 1, 124, 137, 143}
        BY <2>1 DEF Processes, WrapperSet
      <3> QED
        BY <1>t, <3>1, <3>2, <3>3 DEF TypeOK
    <2>3. Files'
      BY <1>10, <1>t, AttemptsAssumption DEF Files, Processes, WrapperSet, files, children,
             Clean, Off
    <2> QED
      BY <2>1, <2>2, <2>3 DEF TypeInv, Processes, Files
  <1> QED
    BY <1>1, <1>2, <1>3, <1>4, <1>5, <1>6, <1>7, <1>8, <1>9, <1>10 DEF WrapperSteps

(* The moves of the script, field by field. *)
ShBecomes(pc, status, trap, ssdb) ==
  sh'.pc = pc /\ sh'.status = status /\ sh'.trap = trap /\ sh'.ssdb = ssdb

LEMMA ShFields ==
  ASSUME sh \in ShSet, NEW pc \in ShPcs, NEW status \in ShStatuses
  PROVE  /\ ShGoto(pc) => ShBecomes(pc, sh.status, sh.trap, sh.ssdb)
         /\ sh' = [sh EXCEPT !.pc = pc, !.status = status]
              => ShBecomes(pc, status, sh.trap, sh.ssdb)
         /\ ShExit(status)
              => ShBecomes(IF sh.trap THEN "cleanup" ELSE "exited", status, sh.trap, sh.ssdb)
  <1>1. ASSUME ShGoto(pc)
        PROVE  ShBecomes(pc, sh.status, sh.trap, sh.ssdb)
    BY <1>1 DEF ShSet, ShGoto, ShBecomes
  <1>2. ASSUME sh' = [sh EXCEPT !.pc = pc, !.status = status]
        PROVE  ShBecomes(pc, status, sh.trap, sh.ssdb)
    BY <1>2 DEF ShSet, ShBecomes
  <1>3. ASSUME ShExit(status)
        PROVE  ShBecomes(IF sh.trap THEN "cleanup" ELSE "exited", status, sh.trap, sh.ssdb)
    BY <1>3 DEF ShSet, ShExit, ShBecomes
  <1> QED
    BY <1>1, <1>2, <1>3

(* What each step of the script makes of it. *)
Failing == ShBecomes(IF sh.trap THEN "cleanup" ELSE "exited", 1, sh.trap, sh.ssdb)
BeginsTo ==
  \/ /\ provider = "SMARTSIM" /\ endpoint' = 0
     /\ ShBecomes("start", sh.status, sh.trap, sh.ssdb)
  \/ provider # "SMARTSIM" /\ ShBecomes("solve", sh.status, sh.trap, sh.ssdb)
  \/ Failing
StartsTo ==
  \/ sh.pc = "start" /\ ShBecomes("trap", sh.status, sh.trap, sh.ssdb)
  \/ sh.pc = "trap" /\ ShBecomes("poll", sh.status, TRUE, sh.ssdb)
PollsTo == Failing \/ (endpoint # 0 /\ ShBecomes("solve", sh.status, sh.trap, endpoint))
SolvesTo == ShBecomes("mpirun", sh.status, sh.trap, sh.ssdb)
SolvedTo ==
  \/ Failing
  \/ solver = "ok" /\ sh.trap /\ ShBecomes("stop", sh.status, sh.trap, sh.ssdb)
  \/ solver = "ok" /\ ~sh.trap /\ ShBecomes("exited", 0, sh.trap, sh.ssdb)
CleansTo == ShBecomes("await", IF sh.pc = "stop" THEN -1 ELSE sh.status, sh.trap, sh.ssdb)
AwaitsTo ==
  \/ ControllerLives /\ ShBecomes(sh.pc, sh.status, sh.trap, sh.ssdb)
  \/ /\ ~ControllerLives
     /\ ShBecomes("exited", IF sh.status = -1 THEN ControllerStatus ELSE sh.status,
                  sh.trap, sh.ssdb)

LEMMA ShStepFields ==
  ASSUME sh \in ShSet
  PROVE  /\ ShBegin => BeginsTo
         /\ ShStart => StartsTo
         /\ ShPoll => PollsTo
         /\ ShSolve => SolvesTo
         /\ ShSolved => SolvedTo
         /\ ShCleanup => CleansTo
         /\ ShAwait => AwaitsTo
  <1>1. ShBegin => BeginsTo
    BY ShFields DEF ShBegin, BeginsTo, Failing, ShPcs, ShStatuses
  <1>2. ShStart => StartsTo
    <2>1. ASSUME sh' = [sh EXCEPT !.pc = "poll", !.trap = TRUE]
          PROVE  ShBecomes("poll", sh.status, TRUE, sh.ssdb)
      BY <2>1 DEF ShSet, ShBecomes
    <2> QED
      BY <2>1, ShFields DEF ShStart, StartsTo, ShPcs, ShStatuses
  <1>3. ShPoll => PollsTo
    <2>1. ASSUME sh' = [sh EXCEPT !.pc = "solve", !.ssdb = endpoint]
          PROVE  ShBecomes("solve", sh.status, sh.trap, endpoint)
      BY <2>1 DEF ShSet, ShBecomes
    <2> QED
      BY <2>1, ShFields DEF ShPoll, PollsTo, Failing, ShPcs, ShStatuses
  <1>4. ShSolve => SolvesTo
    BY ShFields DEF ShSolve, SolvesTo, ShPcs, ShStatuses
  <1>5. ShSolved => SolvedTo
    BY ShFields DEF ShSolved, SolvedTo, Failing, ShPcs, ShStatuses
  <1>6. ShCleanup => CleansTo
    BY DEF ShCleanup, CleansTo, ShSet, ShBecomes
  <1>7. ShAwait => AwaitsTo
    BY DEF ShAwait, AwaitsTo, ShSet, ShBecomes
  <1> QED
    BY <1>1, <1>2, <1>3, <1>4, <1>5, <1>6, <1>7

LEMMA ShTypes ==
  ASSUME TypeInv, StatusMeans, ShSteps
  PROVE  TypeInv'
  <1>t. TypeOK /\ Processes /\ Files
    BY DEF TypeInv, Processes, Files
  <1>k. UNCHANGED <<provider, attempt, wrapper, stubborn, pipe, log, row>>
    BY DEF ShSteps, ShBegin, ShStart, ShPoll, ShSolve, ShSolved, ShCleanup, ShAwait, ShKeeps,
           ShOnly
  <1>f. Files'
    BY <1>t, <1>k DEF Files
  <1>n. attempt \in Nat /\ 0 \in 0..attempt /\ endpoint \in 0..MaxAttempts
    BY <1>t, AttemptsAssumption DEF TypeOK
  <1>g. ASSUME NEW pc \in {"begin", "start", "trap", "poll", "solve", "mpirun", "stop", "cleanup",
                           "await", "exited"}
        PROVE  /\ [sh EXCEPT !.pc = pc] \in ShSet
               /\ [sh EXCEPT !.pc = pc, !.trap = TRUE] \in ShSet
               /\ [sh EXCEPT !.pc = pc, !.ssdb = endpoint] \in ShSet
               /\ \A status \in {-1, 0, 1, 137, 143} :
                    [sh EXCEPT !.pc = pc, !.status = status] \in ShSet
    BY <1>t, <1>n DEF Processes, ShSet, ShPcs, ShStatuses
  <1>e. ASSUME NEW status \in {0, 1}, ShExit(status)
        PROVE  sh' \in ShSet
    <2>1. CASE sh.trap
      BY <1>e, <1>g, <2>1 DEF ShExit
    <2>2. CASE ~sh.trap
      BY <1>e, <1>g, <2>2 DEF ShExit
    <2> QED
      BY <2>1, <2>2
  <1>1. sh' \in ShSet
    <2>1. CASE ShBegin
      BY <2>1, <1>g, <1>e DEF ShBegin, ShGoto
    <2>2. CASE ShStart \/ ShSolve
      BY <2>2, <1>g DEF ShStart, ShSolve, ShGoto
    <2>3. CASE ShPoll
      BY <2>3, <1>g, <1>e DEF ShPoll
    <2>4. CASE ShSolved
      BY <2>4, <1>g, <1>e DEF ShSolved, ShGoto
    <2>5. CASE ShCleanup
      <3> DEFINE status == IF sh.pc = "stop" THEN -1 ELSE sh.status
      <3>1. status \in {-1, 0, 1, 137, 143}
        BY <1>t DEF Processes, ShSet, ShPcs, ShStatuses
      <3>2. sh' = [sh EXCEPT !.pc = "await", !.status = status]
        BY <2>5 DEF ShCleanup
      <3> HIDE DEF status
      <3> QED
        BY <1>g, <3>1, <3>2
    <2>6. CASE ShAwait
      <3> DEFINE status == IF sh.status = -1 THEN ControllerStatus ELSE sh.status
      <3>1. status \in {-1, 0, 1, 137, 143}
        BY <1>t DEF Processes, ShSet, ShPcs, ShStatuses, ControllerStatus
      <3>2. sh' = sh \/ sh' = [sh EXCEPT !.pc = "exited", !.status = status]
        BY <2>6 DEF ShAwait
      <3> HIDE DEF status
      <3>3. [sh EXCEPT !.pc = "exited", !.status = status] \in ShSet
        BY <1>g, <3>1
      <3> QED
        BY <1>t, <3>2, <3>3 DEF Processes
    <2> QED
      BY <2>1, <2>2, <2>3, <2>4, <2>5, <2>6 DEF ShSteps
  <1>2. Processes'
    BY <1>t, <1>k, <1>1 DEF Processes
  <1>3. /\ controller' \in {"off", "starting", "up", "ok", "failed"}
        /\ solver' \in {"off", "runs", "ok", "failed"}
    BY <1>t DEF TypeOK, ShSteps, ShBegin, ShStart, ShPoll, ShSolve, ShSolved, ShCleanup, ShAwait
  <1>4. endpoint' = 0 \/ endpoint' = endpoint
    BY DEF ShSteps, ShBegin, ShStart, ShPoll, ShSolve, ShSolved, ShCleanup, ShAwait
  <1>5. done' \in BOOLEAN
    BY <1>t DEF TypeOK, ShSteps, ShBegin, ShStart, ShPoll, ShSolve, ShSolved, ShCleanup, ShAwait
  <1>6. sh'.status \in {-1, 0, 1, 137, 143}
    BY <1>1 DEF ShSet, ShPcs, ShStatuses
  <1>7. endpoint' \in 0..attempt'
    BY <1>t, <1>k, <1>n, <1>4 DEF TypeOK
  <1>8. TypeOK'
    BY <1>t, <1>k, <1>3, <1>5, <1>6, <1>7 DEF TypeOK
  <1> QED
    BY <1>2, <1>8, <1>f DEF TypeInv, Processes, Files

LEMMA OtherTypes ==
  ASSUME TypeInv, StatusMeans, ControllerSteps \/ SolverEnds \/ TurnsStubborn \/ NodeFails
  PROVE  TypeInv'
  <1>t. TypeOK /\ Processes /\ Files
    BY DEF TypeInv, Processes, Files
  <1>n. attempt \in Nat
    BY <1>t, AttemptsAssumption DEF TypeOK
  <1>1. CASE ControllerSteps
    BY <1>1, <1>t, <1>n DEF ControllerSteps, TypeInv, TypeOK
  <1>2. CASE SolverEnds
    BY <1>2, <1>t, <1>n DEF SolverEnds, TypeInv, TypeOK, files
  <1>3. CASE TurnsStubborn
    BY <1>3, <1>t, <1>n DEF TurnsStubborn, TypeInv, TypeOK, files
  <1>4. CASE NodeFails
    <2>1. Processes'
      BY <1>4, StatesTyped DEF NodeFails, Processes
    <2>2. Off.status = 0 /\ ShOff.status = 0
      BY DEF Off, ShOff
    <2>3. row' = [status |-> row'.status, result |-> row'.result] /\ row'.status = "pending"
      BY <1>4, <1>t DEF NodeFails, Files
    <2>4. TypeOK'
      BY <1>4, <1>t, <2>2, <2>3 DEF NodeFails, TypeOK, files
    <2>5. Files'
      BY <1>4, <1>t, <2>3 DEF NodeFails, Files, files
    <2> QED
      BY <2>1, <2>4, <2>5 DEF TypeInv, Processes, Files
  <1> QED
    BY <1>1, <1>2, <1>3, <1>4

-----------------------------------------------------------------------------
(* Who runs, and what the script has set up *)

LEMMA WrapperStages ==
  ASSUME TypeInv, Stages, WrapperSteps
  PROVE  Stages'
  <1> USE DEF TypeInv, TypeOK, WrapperSet, ShSet, ShPcs, ShStatuses, Stages, NothingBegun, Recorded
  <1>1. CASE Start
    BY <1>1 DEF Start, Off, children
  <1>2. CASE Spawn
    BY <1>2 DEF Spawn, ShOff, children
  <1>3. CASE Communicate
    BY <1>3 DEF Communicate, children
  <1>4. CASE TimesOut
    BY <1>4 DEF TimesOut, Terminated
  <1>5. CASE Grace
    BY <1>5 DEF Grace, children
  <1>6. CASE Drain
    BY <1>6 DEF Drain, children
  <1>7. CASE AppendOutput
    BY <1>7 DEF AppendOutput, children
  <1>8. CASE Record
    BY <1>8 DEF Record, children
  <1>9. CASE Except
    BY <1>9 DEF Except, Off, children
  <1>10. CASE Clean
    BY <1>10 DEF Clean, Off, children
  <1> QED
    BY <1>1, <1>2, <1>3, <1>4, <1>5, <1>6, <1>7, <1>8, <1>9, <1>10 DEF WrapperSteps

(* Below the wrapper, only a script that is running does anything, unless *)
(* the node fails. *)
LEMMA OtherStages ==
  ASSUME TypeInv, Stages,
         ShSteps \/ ControllerSteps \/ SolverEnds \/ TurnsStubborn \/ NodeFails
  PROVE  Stages'
  <1> USE DEF TypeInv, TypeOK, ShSet, ShPcs, ShStatuses, Stages, NothingBegun, Recorded
  <1>1. CASE ShSteps
    <2>1. UNCHANGED <<wrapper, row>>
      BY <1>1 DEF ShSteps, ShBegin, ShStart, ShPoll, ShSolve, ShSolved, ShCleanup, ShAwait,
                  ShKeeps, ShOnly
    <2>2. sh.pc # "off" /\ sh'.pc # "off"
      BY <1>1, ShStepFields DEF ShSteps, BeginsTo, StartsTo, PollsTo, SolvesTo, SolvedTo,
             CleansTo,
                  AwaitsTo, Failing, ShBecomes, ShBegin, ShStart, ShPoll, ShSolve, ShSolved,
                                ShCleanup, ShAwait
    <2>3. ~NothingBegun
      BY <2>2 DEF ShOff
    <2> QED
      BY <2>1, <2>2, <2>3
  <1>2. CASE ControllerSteps
    <2>1. UNCHANGED <<wrapper, row, sh>> /\ ~NothingBegun
      BY <1>2 DEF ControllerSteps, ControllerLives
    <2> QED
      BY <2>1
  <1>3. CASE SolverEnds
    <2>1. UNCHANGED <<wrapper, row, sh>> /\ ~NothingBegun
      BY <1>3 DEF SolverEnds, SolverLives
    <2> QED
      BY <2>1
  <1>4. CASE TurnsStubborn
    BY <1>4 DEF TurnsStubborn
  <1>5. CASE NodeFails
    BY <1>5 DEF NodeFails, Off, ShOff
  <1> QED
    BY <1>1, <1>2, <1>3, <1>4, <1>5

LEMMA WrapperScript ==
  ASSUME TypeInv, Stages, Script, ControllerStopped, WrapperSteps
  PROVE  Script' /\ ControllerStopped'
  <1> USE DEF TypeInv, TypeOK, WrapperSet, ShSet, ShPcs, ShStatuses, Script, ControllerStopped,
              ControllerLives
  <1>1. CASE Start
    BY <1>1 DEF Start, children
  <1>2. CASE Spawn
    BY <1>2 DEF Spawn, ShOff, children, Stages, NothingBegun
  <1>3. CASE Communicate
    BY <1>3 DEF Communicate, children
  <1>4. CASE TimesOut
    BY <1>4 DEF TimesOut, Terminated, Ended, ShLives, SolverLives, Stages
  <1>5. CASE Grace
    BY <1>5, ShFields DEF ShBecomes, Grace, children, Stages, SolverLives, ShLives
  <1>6. CASE Drain
    BY <1>6 DEF Drain, children
  <1>7. CASE AppendOutput
    BY <1>7 DEF AppendOutput, children
  <1>8. CASE Record
    BY <1>8 DEF Record, children
  <1>9. CASE Except
    BY <1>9 DEF Except, children
  <1>10. CASE Clean
    BY <1>10 DEF Clean, children
  <1> QED
    BY <1>1, <1>2, <1>3, <1>4, <1>5, <1>6, <1>7, <1>8, <1>9, <1>10 DEF WrapperSteps

LEMMA OtherScript ==
  ASSUME TypeInv, Stages, Script, ControllerStopped,
         ShSteps \/ ControllerSteps \/ SolverEnds \/ TurnsStubborn \/ NodeFails
  PROVE  Script' /\ ControllerStopped'
  <1> USE DEF TypeInv, TypeOK, ShSet, ShPcs, ShStatuses, Script, ControllerStopped, ControllerLives
  <1>1. CASE ShBegin
    BY <1>1, ShStepFields DEF BeginsTo, Failing, ShBecomes, ShBegin, ShKeeps
  <1>2. CASE ShStart
    BY <1>2, ShStepFields DEF StartsTo, ShBecomes, ShStart, ShOnly, ShKeeps
  <1>3. CASE ShPoll
    BY <1>3, ShStepFields DEF PollsTo, Failing, ShBecomes, ShPoll, ShOnly, ShKeeps
  <1>4. CASE ShSolve
    BY <1>4, ShStepFields DEF SolvesTo, ShBecomes, ShSolve, ShOnly, ShKeeps
  <1>5. CASE ShSolved
    BY <1>5, ShStepFields DEF SolvedTo, Failing, ShBecomes, ShSolved, ShOnly, ShKeeps
  <1>6. CASE ShCleanup
    BY <1>6, ShStepFields DEF CleansTo, ShBecomes, ShCleanup, ShOnly, ShKeeps
  <1>7. CASE ShAwait
    BY <1>7, ShStepFields DEF AwaitsTo, ShBecomes, ShAwait, ShOnly, ShKeeps
  <1>8. CASE ControllerSteps
    BY <1>8 DEF ControllerSteps
  <1>9. CASE SolverEnds
    BY <1>9 DEF SolverEnds, SolverLives, files
  <1>10. CASE TurnsStubborn
    BY <1>10 DEF TurnsStubborn, files
  <1>11. CASE NodeFails
    BY <1>11 DEF NodeFails, ShOff, files
  <1> QED
    BY <1>1, <1>2, <1>3, <1>4, <1>5, <1>6, <1>7, <1>8, <1>9, <1>10, <1>11 DEF ShSteps

-----------------------------------------------------------------------------
(* The database of the solver *)

LEMMA WrapperDatabase ==
  ASSUME TypeInv, Stages, Script, Database, WrapperSteps
  PROVE  Database'
  <1> USE DEF TypeInv, TypeOK, Database, SolverLives
  <1>1. CASE Start
    BY <1>1 DEF Start, children, files, Stages, NothingBegun, ShOff
  <1>2. CASE Spawn
    BY <1>2 DEF Spawn, ShOff, children, files
  <1>3. CASE Communicate
    BY <1>3 DEF Communicate, children, files
  <1>4. CASE TimesOut
    BY <1>4 DEF TimesOut, Terminated, Ended, files, ShSet, ShPcs, ShStatuses
  <1>5. CASE Grace
    <2>1. CASE UNCHANGED children
      BY <1>5, <2>1 DEF Grace, children, files
    <2>2. CASE sh' = [sh EXCEPT !.pc = "exited", !.status = 137]
      <3>1. ShBecomes("exited", 137, sh.trap, sh.ssdb)
        BY <2>2, ShFields DEF ShPcs, ShStatuses
      <3>2. solver' # "runs" \/ UNCHANGED children
        BY <1>5 DEF Grace
      <3>3. UNCHANGED <<provider, attempt, endpoint>>
        BY <1>5 DEF Grace, files
      <3> QED
        BY <2>1, <3>1, <3>2, <3>3 DEF ShBecomes
    <2> QED
      BY <1>5, <2>1, <2>2 DEF Grace
  <1>6. CASE Drain
    BY <1>6 DEF Drain, children, files
  <1>7. CASE AppendOutput
    BY <1>7 DEF AppendOutput, children
  <1>8. CASE Record
    BY <1>8 DEF Record, children, files
  <1>9. CASE Except
    BY <1>9 DEF Except, children, files
  <1>10. CASE Clean
    BY <1>10 DEF Clean, children
  <1> QED
    BY <1>1, <1>2, <1>3, <1>4, <1>5, <1>6, <1>7, <1>8, <1>9, <1>10 DEF WrapperSteps

LEMMA OtherDatabase ==
  ASSUME TypeInv, Stages, Script, Database,
         ShSteps \/ ControllerSteps \/ SolverEnds \/ TurnsStubborn \/ NodeFails
  PROVE  Database'
  <1> USE DEF TypeInv, TypeOK, Database, SolverLives
  <1>1. CASE ShBegin
    BY <1>1, ShStepFields DEF BeginsTo, Failing, ShBecomes, ShBegin, ShKeeps, Script
  <1>2. CASE ShStart
    BY <1>2, ShStepFields DEF StartsTo, ShBecomes, ShStart, ShOnly, ShKeeps, Script
  <1>3. CASE ShPoll
    BY <1>3, ShStepFields DEF PollsTo, Failing, ShBecomes, ShPoll, ShOnly, ShKeeps, Script
  <1>4. CASE ShSolve
    BY <1>4, ShStepFields DEF SolvesTo, ShBecomes, ShSolve, ShOnly, ShKeeps, Script
  <1>5. CASE ShSolved
    BY <1>5, ShStepFields DEF SolvedTo, Failing, ShBecomes, ShSolved, ShOnly, ShKeeps, Script
  <1>6. CASE ShCleanup
    BY <1>6, ShStepFields DEF CleansTo, ShBecomes, ShCleanup, ShOnly, ShKeeps, Script
  <1>7. CASE ShAwait
    BY <1>7, ShStepFields DEF AwaitsTo, ShBecomes, ShAwait, ShOnly, ShKeeps, Script
  <1>8. CASE ControllerSteps
    BY <1>8 DEF ControllerSteps
  <1>9. CASE SolverEnds
    BY <1>9 DEF SolverEnds, files
  <1>10. CASE TurnsStubborn
    BY <1>10 DEF TurnsStubborn, files
  <1>11. CASE NodeFails
    BY <1>11 DEF NodeFails, ShOff, files
  <1> QED
    BY <1>1, <1>2, <1>3, <1>4, <1>5, <1>6, <1>7, <1>8, <1>9, <1>10, <1>11 DEF ShSteps

-----------------------------------------------------------------------------
(* Exit statuses *)

LEMMA WrapperStatus ==
  ASSUME TypeInv, Stages, Script, Ending, StatusMeans, WrapperSteps
  PROVE  StatusMeans'
  <1> USE DEF TypeInv, TypeOK, StatusMeans, WrapperSet, ShSet, ShPcs, ShStatuses
  <1>1. CASE Start
    BY <1>1 DEF Start, Off, children, files
  <1>2. CASE Spawn
    BY <1>2 DEF Spawn, ShOff, children, Stages, NothingBegun
  <1>3. CASE Communicate
    BY <1>3 DEF Communicate, children, files
  <1>4. CASE TimesOut
    BY <1>4 DEF TimesOut, Terminated, Ended, ControllerLives, SolverLives, ShLives
  <1>5. CASE Grace
    <2>1. CASE UNCHANGED children
      BY <1>5, <2>1 DEF Grace, children
    <2>2. CASE sh' = [sh EXCEPT !.pc = "exited", !.status = 137]
      BY <1>5, <2>2, ShFields DEF Grace, ShBecomes
    <2> QED
      BY <1>5, <2>1, <2>2 DEF Grace
  <1>6. CASE Drain
    BY <1>6 DEF Drain, children, files, Ending
  <1>7. CASE AppendOutput
    BY <1>7 DEF AppendOutput, children
  <1>8. CASE Record
    BY <1>8 DEF Record, children, files
  <1>9. CASE Except
    BY <1>9 DEF Except, Off, children, files
  <1>10. CASE Clean
    BY <1>10 DEF Clean, Off, children
  <1> QED
    BY <1>1, <1>2, <1>3, <1>4, <1>5, <1>6, <1>7, <1>8, <1>9, <1>10 DEF WrapperSteps

LEMMA OtherStatus ==
  ASSUME TypeInv, Stages, Script, Ending, StatusMeans,
         ShSteps \/ ControllerSteps \/ SolverEnds \/ TurnsStubborn \/ NodeFails
  PROVE  StatusMeans'
  <1> USE DEF TypeInv, TypeOK, StatusMeans, ControllerLives, SolverLives
  <1>1. CASE ShBegin
    <2>1. sh.pc = "begin" /\ UNCHANGED <<provider, wrapper, controller, solver>>
      BY <1>1 DEF ShBegin, ShKeeps
    <2>2. sh.status # -1 /\ wrapper.pc \notin {"append", "record"}
      BY <2>1 DEF Ending
    <2>3. BeginsTo
      BY <1>1, ShStepFields
    <2>4. /\ sh'.status # -1 /\ sh'.pc # "stop"
          /\ sh'.pc \in {"cleanup", "await", "exited"} => sh'.status # 0
      BY <2>2, <2>3 DEF BeginsTo, Failing, ShBecomes
    <2> QED
      BY <2>1, <2>2, <2>4
  <1>2. CASE ShStart
    BY <1>2, ShStepFields DEF StartsTo, ShBecomes, ShStart, ShOnly, ShKeeps, Script, Ending
  <1>3. CASE ShPoll
    BY <1>3, ShStepFields DEF PollsTo, Failing, ShBecomes, ShPoll, ShOnly, ShKeeps, Script,
           Ending
  <1>4. CASE ShSolve
    BY <1>4, ShStepFields DEF SolvesTo, ShBecomes, ShSolve, ShOnly, ShKeeps, Script, Ending
  <1>5. CASE ShSolved
    BY <1>5, ShStepFields DEF SolvedTo, Failing, ShBecomes, ShSolved, ShOnly, ShKeeps, Script,
           Ending
  <1>6. CASE ShCleanup
    BY <1>6, ShStepFields DEF CleansTo, ShBecomes, ShCleanup, ShOnly, ShKeeps, Script, Ending
  <1>7. CASE ShAwait
    BY <1>7, ShStepFields DEF AwaitsTo, ShBecomes, ShAwait, ShOnly, ShKeeps, Script,
           ControllerStatus, Ending
  <1>8. CASE ControllerSteps
    BY <1>8 DEF ControllerSteps
  <1>9. CASE SolverEnds
    BY <1>9 DEF SolverEnds, files
  <1>10. CASE TurnsStubborn
    BY <1>10 DEF TurnsStubborn, files
  <1>11. CASE NodeFails
    BY <1>11 DEF NodeFails, ShOff, files, Off
  <1> QED
    BY <1>1, <1>2, <1>3, <1>4, <1>5, <1>6, <1>7, <1>8, <1>9, <1>10, <1>11 DEF ShSteps

-----------------------------------------------------------------------------
(* What is left running, and what a success stands for *)

LEMMA WrapperEnding ==
  ASSUME TypeInv, Stages, Script, Ending, WrapperSteps
  PROVE  Ending'
  <1> USE DEF TypeInv, TypeOK, Ending, Signalled, ControllerLives, SolverLives
  <1>1. CASE Start
    BY <1>1 DEF Start, Off, WrapperSet, children, files, Stages, NothingBegun, Recorded
  <1>2. CASE Spawn
    BY <1>2 DEF Spawn, WrapperSet, children, files, Stages, Recorded
  <1>3. CASE Communicate
    BY <1>3 DEF Communicate, WrapperSet, children, files, PipeOpen, ShLives, Stages,
           ControllerLives, SolverLives
  <1>4. CASE TimesOut
    BY <1>4 DEF TimesOut, WrapperSet, files, Terminated, Ended, ShSet, ShPcs, ShStatuses,
           ShLives, Stages, Script, Recorded
  <1>5. CASE Grace
    <2>1. CASE ~ShLives /\ UNCHANGED children
      BY <1>5, <2>1 DEF Grace, children, files, ShLives, WrapperSet, Recorded, Stages
    <2>2. CASE sh' = [sh EXCEPT !.pc = "exited", !.status = 137]
      <3>1. ShBecomes("exited", 137, sh.trap, sh.ssdb)
        BY <2>2, ShFields DEF ShPcs, ShStatuses
      <3>2. \/ UNCHANGED <<controller, solver>> /\ ~ShLives
            \/ controller' \notin {"starting", "up"} /\ solver' # "runs"
        BY <1>5 DEF Grace, children
      <3>3. wrapper'.pc = "drain" /\ wrapper'.timed_out /\ UNCHANGED <<row, stubborn>>
        BY <1>5 DEF Grace, children, WrapperSet
      <3>4. wrapper.pc = "grace"
        BY <1>5 DEF Grace
      <3> QED
        BY <3>1, <3>2, <3>3, <3>4 DEF ShBecomes
    <2> QED
      BY <1>5, <2>1, <2>2 DEF Grace
  <1>6. CASE Drain
    BY <1>6 DEF Drain, WrapperSet, children, files
  <1>7. CASE AppendOutput
    BY <1>7 DEF AppendOutput, WrapperSet, children
  <1>8. CASE Record
    BY <1>8 DEF Record, WrapperSet, children, files, Recorded
  <1>9. CASE Except
    BY <1>9 DEF Except, Off, children, files, Recorded
  <1>10. CASE Clean
    BY <1>10 DEF Clean, Off, children, Recorded
  <1> QED
    BY <1>1, <1>2, <1>3, <1>4, <1>5, <1>6, <1>7, <1>8, <1>9, <1>10 DEF WrapperSteps

LEMMA OtherEnding ==
  ASSUME TypeInv, Stages, Script, Ending,
         ShSteps \/ ControllerSteps \/ SolverEnds \/ TurnsStubborn \/ NodeFails
  PROVE  Ending'
  <1> USE DEF TypeInv, TypeOK, Ending, Signalled, ControllerLives, SolverLives
  <1>1. CASE ShBegin
    BY <1>1, ShStepFields DEF BeginsTo, Failing, ShBecomes, ShBegin, ShKeeps, Script
  <1>2. CASE ShStart
    BY <1>2, ShStepFields DEF StartsTo, ShBecomes, ShStart, ShOnly, ShKeeps, Script
  <1>3. CASE ShPoll
    BY <1>3, ShStepFields DEF PollsTo, Failing, ShBecomes, ShPoll, ShOnly, ShKeeps, Script
  <1>4. CASE ShSolve
    BY <1>4, ShStepFields DEF SolvesTo, ShBecomes, ShSolve, ShOnly, ShKeeps, Script
  <1>5. CASE ShSolved
    BY <1>5, ShStepFields DEF SolvedTo, Failing, ShBecomes, ShSolved, ShOnly, ShKeeps, Script
  <1>6. CASE ShCleanup
    BY <1>6, ShStepFields DEF CleansTo, ShBecomes, ShCleanup, ShOnly, ShKeeps, Script
  <1>7. CASE ShAwait
    BY <1>7, ShStepFields DEF AwaitsTo, ShBecomes, ShAwait, ShOnly, ShKeeps, Script
  <1>8. CASE ControllerSteps
    BY <1>8 DEF ControllerSteps
  <1>9. CASE SolverEnds
    BY <1>9 DEF SolverEnds, files
  <1>10. CASE TurnsStubborn
    BY <1>10 DEF TurnsStubborn, files
  <1>11. CASE NodeFails
    BY <1>11 DEF NodeFails, Off, ShOff, files, Recorded
  <1> QED
    BY <1>1, <1>2, <1>3, <1>4, <1>5, <1>6, <1>7, <1>8, <1>9, <1>10, <1>11 DEF ShSteps

LEMMA SuccessStep ==
  ASSUME TypeInv, Stages, Script, StatusMeans, Ending, SuccessIsWhole, [Next]_vars
  PROVE  SuccessIsWhole'
  <1> USE DEF TypeInv, TypeOK, SuccessIsWhole
  <1>1. CASE Record
    <2>1. SUFFICES ASSUME row'.status = "success"
                   PROVE  solver = "ok" /\ (provider = "SMARTSIM" => controller = "ok")
      BY <1>1 DEF Record, children
    <2>2. ~wrapper.timed_out /\ wrapper.status = 0
      BY <1>1, <2>1 DEF Record
    <2>3. sh.pc = "exited" /\ sh.status = 0
      BY <1>1, <2>2 DEF Record, Ending, StatusMeans
    <2> QED
      BY <2>3 DEF StatusMeans
  <1>2. ASSUME ~Record
        PROVE  row'.status = "success" => row.status = "success"
    BY <1>2 DEF Next, vars, WrapperSteps, Start, Spawn, Communicate, TimesOut, Grace, Drain,
       AppendOutput, Except, Clean, ShSteps, ShBegin, ShStart, ShPoll, ShSolve, ShSolved,
       ShCleanup, ShAwait, ShOnly, ShKeeps, ControllerSteps, SolverEnds, TurnsStubborn, NodeFails
  <1>3. ASSUME row.status = "success", row'.status = "success"
        PROVE  UNCHANGED <<provider, controller, solver>>
    <2>1. /\ solver = "ok" /\ (provider = "SMARTSIM" => controller = "ok")
          /\ sh.pc = "exited" /\ wrapper.pc \in {"off", "clean"}
      BY <1>3 DEF Ending, Recorded, Stages
    <2>2. ~ControllerLives /\ ~SolverLives
      BY <2>1 DEF Script, ControllerLives, SolverLives
    <2>3. CASE WrapperSteps
      BY <1>3, <2>1, <2>3 DEF WrapperSteps, Start, Spawn, Communicate, TimesOut, Grace, Drain,
         AppendOutput, Record, Except, Clean, children
    <2>4. CASE ShSteps
      BY <2>1, <2>4 DEF ShSteps, ShBegin, ShStart, ShPoll, ShSolve, ShSolved, ShCleanup, ShAwait
    <2> QED
      BY <1>3, <2>1, <2>2, <2>3, <2>4
         DEF Next, vars, ControllerSteps, SolverEnds, TurnsStubborn, NodeFails, ControllerLives
  <1> QED
    BY <1>1, <1>2, <1>3

-----------------------------------------------------------------------------
(* The log *)

(* What follows the last header of a wrapper is its final attempt. *)
LEMMA FinalOutput ==
  ASSUME NEW s \in Seq(LogLines), Len(s) > 0, s[Len(s)] = AttemptHeader,
         NEW out \in Seq(SolverLines)
  PROVE  FinalAttempt(s \o out, CASE_ID) = out
  <1> DEFINE t == s \o out
  <1>1. /\ t \in Seq(LogLines) /\ Len(t) = Len(s) + Len(out) /\ Len(s) \in Nat /\ Len(out) \in Nat
        /\ \A i \in 1..Len(s) : t[i] = s[i]
        /\ \A i \in Len(s) + 1..Len(t) : t[i] = out[i - Len(s)]
    <2>1. out \in Seq(LogLines)
      BY SeqMonotonic DEF LogLines
    <2> QED
      BY <2>1, ConcatProperties, LenProperties
  <1>2. DOMAIN t = 1..Len(t)
    BY <1>1, LenProperties
  <1>3. t[Len(s)] = AttemptHeader
    BY <1>1
  <1>4. Len(s) \in Attempts(t)
    BY <1>1, <1>2, <1>3 DEF Attempts, AttemptHeader
  <1>5. \A i \in Attempts(t) : i <= Len(s)
    <2>1. ASSUME NEW i \in Attempts(t), i > Len(s)
          PROVE  FALSE
      <3>1. i \in 1..Len(t) /\ t[i].kind = "attempt"
        BY <1>2 DEF Attempts
      <3>2. i - Len(s) \in 1..Len(out) /\ t[i] = out[i - Len(s)]
        BY <1>1, <2>1, <3>1
      <3>3. t[i] \in SolverLines
        BY <3>2, ElementOfSeq
      <3> QED
        BY <3>1, <3>3, OutputsAssumption
    <2> QED
      BY <1>1, <1>2, <2>1 DEF Attempts
  <1>6. LastOf(Attempts(t)) = Len(s)
    <2>1. \A i \in Attempts(t) : i \in Int
      BY <1>1, <1>2 DEF Attempts
    <2>2. \A i \in Attempts(t) : (\A k \in Attempts(t) : k <= i) <=> i = Len(s)
      BY <1>1, <1>4, <1>5, <2>1
    <2> QED
      BY <1>4, <2>2 DEF LastOf
  <1>7. SubSeq(t, Len(s) + 1, Len(t)) = out
    BY <1>1 DEF LogLines
  <1> QED
    BY <1>3, <1>4, <1>6, <1>7 DEF FinalAttempt, AttemptHeader

LEMMA WrapperLog ==
  ASSUME TypeInv, Stages, LogEnds, WrapperSteps
  PROVE  LogEnds'
  <1> USE DEF LogEnds, ReanalysisAgrees
  <1>w. wrapper \in WrapperSet /\ log \in Seq(LogLines) /\ wrapper.output \in Seq(SolverLines)
    BY OutputLines DEF TypeInv, WrapperSet
  <1>1. CASE Start
    <2>1. wrapper'.pc \in {"spawn", "exception"} /\ row'.status = "running"
      BY <1>1 DEF Start, Off, TypeInv
    <2>2. ASSUME wrapper'.pc = "spawn"
          PROVE  Len(log') > 0 /\ log'[Len(log')] = AttemptHeader
      <3>1. log' = Append(log, AttemptHeader)
        BY <1>1, <2>2 DEF Start, Off, AttemptHeader
      <3>2. AttemptHeader \in LogLines
        BY DEF LogLines
      <3> QED
        BY <1>w, <3>1, <3>2, AppendProperties, LenProperties
    <2> QED
      BY <2>1, <2>2
  <1>2. CASE Spawn
    BY <1>2, <1>w DEF Spawn, WrapperSet, files
  <1>3. CASE Communicate
    BY <1>3, <1>w DEF Communicate, WrapperSet, files
  <1>4. CASE TimesOut
    BY <1>4, <1>w DEF TimesOut, WrapperSet, files
  <1>5. CASE Grace
    BY <1>5, <1>w DEF Grace, WrapperSet, files
  <1>6. CASE Drain
    BY <1>6, <1>w DEF Drain, WrapperSet, files
  <1>7. CASE AppendOutput
    <2>1. /\ wrapper'.pc = "record" /\ wrapper'.output = wrapper.output
          /\ log' = log \o wrapper.output /\ row' = row
      BY <1>7, <1>w DEF AppendOutput, WrapperSet
    <2>2. FinalAttempt(log', CASE_ID) = wrapper'.output
      BY <1>7, <1>w, <2>1, FinalOutput DEF AppendOutput
    <2>3. row.status = "running"
      BY <1>7 DEF Stages, AppendOutput
    <2> QED
      BY <2>1, <2>2, <2>3
  <1>8. CASE Record
    <2>1. /\ wrapper'.pc = "clean" /\ UNCHANGED log
          /\ row'.result = Parse(wrapper.output)
      BY <1>8, <1>w DEF Record, WrapperSet, files
    <2>2. FinalAttempt(log, CASE_ID) = wrapper.output
      BY <1>8 DEF Record
    <2> QED
      BY <2>1, <2>2
  <1>9. CASE Except
    BY <1>9 DEF Except, Off, files
  <1>10. CASE Clean
    BY <1>10 DEF Clean, Off
  <1> QED
    BY <1>1, <1>2, <1>3, <1>4, <1>5, <1>6, <1>7, <1>8, <1>9, <1>10 DEF WrapperSteps

LEMMA OtherLog ==
  ASSUME TypeInv, LogEnds, ShSteps \/ ControllerSteps \/ SolverEnds \/ TurnsStubborn \/ NodeFails
  PROVE  LogEnds'
  <1>1. CASE NodeFails
    BY <1>1 DEF NodeFails, Off, files, LogEnds, ReanalysisAgrees, TypeInv
  <1>2. CASE UNCHANGED <<wrapper, log, row>>
    BY <1>2 DEF LogEnds, ReanalysisAgrees
  <1> QED
    BY <1>1, <1>2 DEF ShSteps, ShBegin, ShStart, ShPoll, ShSolve, ShSolved, ShCleanup, ShAwait,
       ShOnly, ShKeeps, ControllerSteps, SolverEnds, TurnsStubborn, files

-----------------------------------------------------------------------------
(* Theorems *)

LEMMA CaseInit == Init => CaseInv
  <1> SUFFICES ASSUME Init
               PROVE  CaseInv
    OBVIOUS
  <1>1. TypeInv
    <2>1. Processes
      BY StatesTyped DEF Init, Processes
    <2>2. Files
      BY DEF Init, Files
    <2>3. TypeOK
      <3>1. row.status = "pending" /\ sh.status = 0 /\ wrapper.status = 0
        BY DEF Init, Off, ShOff
      <3>2. done \in BOOLEAN /\ stubborn \subseteq {"controller", "solver"}
        BY DEF Init
      <3>3. attempt \in 0..MaxAttempts /\ endpoint \in 0..attempt
        BY AttemptsAssumption DEF Init
      <3>4. provider \in Providers /\ controller = "off" /\ solver = "off"
        BY DEF Init
      <3> QED
        BY <3>1, <3>2, <3>3, <3>4 DEF TypeOK
    <2> QED
      BY <2>1, <2>2, <2>3 DEF TypeInv, Processes, Files
  <1>2. wrapper.pc = "off" /\ row.status = "pending" /\ sh.pc = "off" /\ sh.status = 0 /\ ~sh.trap
    BY DEF Init, Off, ShOff
  <1>3. Stages /\ Script /\ ControllerStopped /\ Database
    BY <1>2 DEF Init, Stages, NothingBegun, Script, ControllerStopped, Database, SolverLives,
                ControllerLives
  <1>4. StatusMeans /\ Ending /\ SuccessIsWhole /\ LogEnds
    BY <1>2 DEF StatusMeans, Ending, Recorded, SuccessIsWhole, LogEnds, ReanalysisAgrees
  <1> QED
    BY <1>1, <1>3, <1>4 DEF CaseInv

LEMMA CaseStep == CaseInv /\ [Next]_vars => CaseInv'
  <1> SUFFICES ASSUME CaseInv, [Next]_vars
               PROVE  CaseInv'
    OBVIOUS
  <1> USE DEF CaseInv
  <1>1. CASE WrapperSteps
    BY <1>1, WrapperTypes, WrapperStages, WrapperScript, WrapperDatabase, WrapperStatus,
       WrapperEnding, WrapperLog, SuccessStep
  <1>2. CASE ShSteps \/ ControllerSteps \/ SolverEnds \/ TurnsStubborn \/ NodeFails
    BY <1>2, ShTypes, OtherTypes, OtherStages, OtherScript, OtherDatabase, OtherStatus,
       OtherEnding, OtherLog, SuccessStep
  <1>3. CASE UNCHANGED vars
    BY <1>3 DEF vars, TypeInv, TypeOK, Stages, NothingBegun, Script, ControllerStopped,
           Database,
       StatusMeans, Ending, Signalled, SuccessIsWhole, LogEnds, ReanalysisAgrees,
       ControllerLives, SolverLives
  <1> QED
    BY <1>1, <1>2, <1>3 DEF Next

LEMMA CaseInvariant == Spec => []CaseInv
  BY CaseInit, CaseStep, PTL DEF Spec

(* Every variable stays in the set it is written for. *)
THEOREM CaseTypes == Spec => []TypeOK
  <1>1. CaseInv => TypeOK
    BY DEF CaseInv, TypeInv
  <1> QED
    BY <1>1, CaseInvariant, PTL

(* The solver is given the database of its own attempt, whatever an attempt *)
(* on a failed node has left behind: the script removes the old files       *)
(* before it starts the controller, and waits for a new endpoint.           *)
THEOREM OwnDatabase == Spec => []SolverHasDatabase
  <1>1. CaseInv => SolverHasDatabase
    BY DEF CaseInv, Database, SolverHasDatabase
  <1> QED
    BY <1>1, CaseInvariant, PTL

(* No way out of run.sh leaves its controller running, except a signal      *)
(* before the trap is set that a stubborn controller outlives.              *)
THEOREM NoControllerLeft == Spec => []ControllerStopped
  <1>1. CaseInv => ControllerStopped
    BY DEF CaseInv
  <1> QED
    BY <1>1, CaseInvariant, PTL

(* A case is a success only if its solver, and its controller if it has     *)
(* one, ended well in this attempt: exit status 0 stands for both.          *)
THEOREM WholeSuccess == Spec => []SuccessIsWhole
  <1>1. CaseInv => SuccessIsWhole
    BY DEF CaseInv
  <1> QED
    BY <1>1, CaseInvariant, PTL

(* The ledger's result of a case is what a reanalysis reads from its log,   *)
(* however many attempts there were: an attempt's header is followed by its *)
(* own output and nothing else before the case is recorded.                 *)
THEOREM ReanalysisMatches == Spec => []ReanalysisAgrees
  <1>1. CaseInv => ReanalysisAgrees
    BY DEF CaseInv, LogEnds
  <1> QED
    BY <1>1, CaseInvariant, PTL

(* When a case is recorded nothing of it runs on but what ignores SIGTERM   *)
(* and was left by a script that had ended by then (kill_process_group).    *)
THEOREM NothingLeft == Spec => []NothingRunsOn
  <1>1. CaseInv => NothingRunsOn
    BY DEF CaseInv, Ending, Signalled, Recorded, NothingRunsOn, ShLives
  <1> QED
    BY <1>1, CaseInvariant, PTL
=============================================================================
