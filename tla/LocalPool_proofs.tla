-------------------------- MODULE LocalPool_proofs --------------------------
(***************************************************************************)
(* What the local executor guarantees for every number of cases, of        *)
(* wrappers and of commands of the user, whatever goes wrong: its types,   *)
(* that the verdict of a run is true, and that it implements JobLife; and, *)
(* with some of the unusual events ruled out by name, how often a case     *)
(* runs, that its success is kept, and what a verdict or a cancelled run   *)
(* says of it.                                                             *)
(*                                                                         *)
(* The argument has two layers.  OneStatement and Moves say, once for all  *)
(* actions, what a step may do to the rows and to one process, and on what *)
(* grounds; the invariants are proved from these two, and only the state   *)
(* of the commands is looked at action by action.                          *)
(*                                                                         *)
(* Two invariants carry what is said of a single case.  SoleInv is about a *)
(* case that was launched once: only its own wrapper, a cancel or the      *)
(* scheduler that finds the wrapper gone can end its row.  AloneInv is     *)
(* about a run that is scheduled by one process from its submission to its *)
(* end: no row goes back to "pending", so that a claim is given once for   *)
(* every case.                                                             *)
(***************************************************************************)
EXTENDS LocalPool, FiniteSetTheorems, TLAPS

-----------------------------------------------------------------------------
(* The statements of the ledger keep rows well-formed. *)

RowsTyped == row \in [Jobs -> LocalRowSet]

LEMMA LedgerTypes ==
  ASSUME NEW rows \in [Jobs -> LocalRowSet], NEW j \in Jobs
  PROVE  /\ Running(rows, j) \in [Jobs -> LocalRowSet]
         /\ Requeued(rows, j) \in [Jobs -> LocalRowSet]
         /\ CancelPending(rows) \in [Jobs -> LocalRowSet]
         /\ \A status \in TERMINAL_STATUSES : Ended(rows, j, status) \in [Jobs -> LocalRowSet]
         /\ \A p \in PidsOrNone : /\ SetPid(rows, j, p) \in [Jobs -> LocalRowSet]
                                  /\ SetWrapperPid(rows, j, p) \in [Jobs -> LocalRowSet]
  <1> USE DEF LocalRowSet, PidsOrNone, LocalRow, Statuses, ACTIVE_STATUSES, TERMINAL_STATUSES
  <1>1. Running(rows, j) \in [Jobs -> LocalRowSet]
    BY DEF Transition, Running
  <1>2. Requeued(rows, j) \in [Jobs -> LocalRowSet]
    BY DEF Transition, Requeued
  <1>3. CancelPending(rows) \in [Jobs -> LocalRowSet]
    BY DEF CancelPending
  <1>4. ASSUME NEW status \in TERMINAL_STATUSES
        PROVE  Ended(rows, j, status) \in [Jobs -> LocalRowSet]
    BY DEF Transition, Ended
  <1>5. ASSUME NEW p \in PidsOrNone
        PROVE  /\ SetPid(rows, j, p) \in [Jobs -> LocalRowSet]
               /\ SetWrapperPid(rows, j, p) \in [Jobs -> LocalRowSet]
    BY DEF SetPid, SetWrapperPid
  <1> QED
    BY <1>1, <1>2, <1>3, <1>4, <1>5

(* What each statement does to the status of a row. *)
LEMMA LedgerStatus ==
  ASSUME NEW rows \in [Jobs -> LocalRowSet], NEW j \in Jobs, NEW m \in Jobs
  PROVE  /\ Running(rows, j)[m].status
              = IF m = j /\ rows[j].status \in RunnableStatuses THEN "running"
                                                                ELSE rows[m].status
         /\ Requeued(rows, j)[m].status
              = IF m = j /\ rows[j].status \in OPEN_STATUSES THEN "pending"
                                                             ELSE rows[m].status
         /\ CancelPending(rows)[m].status
              = IF rows[m].status = "pending" THEN "cancelled" ELSE rows[m].status
         /\ \A status : Ended(rows, j, status)[m].status
                          = IF m = j /\ rows[j].status \in OPEN_STATUSES THEN status
                                                                         ELSE rows[m].status
         /\ \A p : /\ SetPid(rows, j, p)[m].status = rows[m].status
                   /\ SetWrapperPid(rows, j, p)[m].status = rows[m].status
  BY DEF LocalRowSet, LocalRow, Transition, Running, Requeued, CancelPending, Ended, SetPid,
         SetWrapperPid

-----------------------------------------------------------------------------
(* Type correctness.  TypeOK is not inductive: the case of a process, the   *)
(* verdict of its wrapper and the row a command works on keep their types   *)
(* only because of where the process is.                                    *)

ProcGood(w) ==
  /\ IF w.pc = "free" THEN w.job = 0 ELSE w.job \in Jobs
  /\ w.pc \in {"free", "read", "claim", "spawn"} => w.verdict = "none" /\ w.child = "none"
  /\ w.pc \in {"on_start", "communicate"} =>
       /\ w.child \in {"running", "ended"}
       /\ w.child = "ended" => w.verdict \in CaseVerdicts
  /\ w.pc = "finish" => w.verdict \in CaseVerdicts

CoordGood(r) ==
  /\ r.pc \in {"launched", "requeue"} => r.job \in Jobs
  /\ r.pc = "reap" => \A j \in r.todo : r.procs[j] \in Pids

ProcsTyped == /\ proc \in [Pids -> ProcSet]
              /\ \A p \in Pids : ProcGood(proc[p])
CoordsTyped == /\ coord \in [Coords -> CoordSet]
               /\ \A c \in Coords : CoordGood(coord[c])
RunTyped == run \in {"pending", "running", "cancelled"} \union RunVerdicts
BudgetTyped == budget \in 0..MaxFaults

(* A scheduler keeps the handle of a process under the case it runs. *)
Handles == \A c \in Coords, j \in Jobs :
             coord[c].procs[j] \in Pids => proc[coord[c].procs[j]].job = j

TypeInv == RowsTyped /\ RunTyped /\ ProcsTyped /\ CoordsTyped /\ BudgetTyped /\ Handles

LEMMA Fields ==
  ASSUME TypeInv
  PROVE  /\ \A c \in Coords :
              /\ coord[c] \in CoordSet /\ CoordGood(coord[c]) /\ coord[c].pc \in CoordPcs
              /\ coord[c].procs \in [Jobs -> PidsOrNone]
              /\ coord[c].todo \in SUBSET Jobs
              /\ coord[c].job \in Jobs \union {0}
              /\ First(coord[c].todo) \subseteq coord[c].todo
         /\ \A p \in Pids : proc[p] \in ProcSet /\ ProcGood(proc[p])
  BY DEF TypeInv, CoordsTyped, CoordSet, ProcsTyped, First

-----------------------------------------------------------------------------
(* What a step may do to the rows *)

OneStatement ==
  \/ row' = row
  \/ row' = CancelPending(row)
  \/ \E p \in Pids :
       \/ proc[p].pc = "claim" /\ row' = Running(row, Case(p))
       \/ proc[p].pc = "claim" /\ Goto(p, "finalize") /\ row' = Ended(row, Case(p), "error")
       \/ /\ proc[p].pc = "finish" /\ Goto(p, "finalize")
          /\ row' = Ended(row, Case(p), proc[p].verdict)
       \/ proc[p].pc \in {"on_start", "communicate"} /\ row' = SetPid(row, Case(p), p)
  \/ \E c \in Coords, j \in Jobs :
       \/ Faults \cap {"fork", "locked"} # {} /\ row' = Ended(row, j, "error")
       \/ row' = SetWrapperPid(row, j, coord[c].procs[j])
       \/ /\ coord[c].procs[j] \in Pids /\ ~Alive(coord[c].procs[j])
          /\ row' = Ended(row, j, "error")
       \/ coord[c].pc = "requeue" /\ row' = Requeued(row, j)
       \/ row' = Ended(row, j, "cancelled")

LEMMA WrapperStatements ==
  ASSUME TypeInv, NEW p \in Pids, Wrapper(p)
  PROVE  OneStatement
  <1>1. CASE BadConfig(p)
    BY <1>1 DEF BadConfig, OneStatement
  <1>2. CASE ClaimRun(p)
    BY <1>2 DEF ClaimRun, OneStatement
  <1>3. CASE OnStart(p)
    BY <1>3 DEF OnStart, OneStatement
  <1>4. CASE Communicate(p)
    BY <1>4 DEF Communicate, OneStatement
  <1>5. CASE Finish(p)
    BY <1>5 DEF Finish, OneStatement
  <1>6. CASE UNCHANGED row
    BY <1>6 DEF OneStatement
  <1> QED
    BY <1>1, <1>2, <1>3, <1>4, <1>5, <1>6
       DEF Wrapper, ReadRow, MissingTemplate, Spawn, ChildEnds, Conclude, WriteVerdict

LEMMA CoordinatorStatements ==
  ASSUME TypeInv, NEW c \in Coords, Coordinator(c)
  PROVE  OneStatement
  <1>g. /\ First(coord[c].todo) \subseteq Jobs /\ First(coord[c].todo) \subseteq coord[c].todo
        /\ CoordGood(coord[c])
    BY Fields
  <1>1. CASE Launch(c)
    <2>1. PICK j \in First(coord[c].todo) :
            \/ UNCHANGED row
            \/ Fault("fork") /\ row' = Ended(row, j, "error")
      BY <1>1 DEF Launch
    <2> QED
      BY <2>1, <1>g DEF OneStatement, Fault
  <1>2. CASE Launched(c)
    BY <1>2, <1>g DEF Launched, At, CoordGood, OneStatement, Fault
  <1>3. CASE Reap(c)
    <2>1. PICK j \in First(coord[c].todo) :
            \/ UNCHANGED row
            \/ ~Alive(coord[c].procs[j]) /\ row' = Ended(row, j, "error")
      BY <1>3 DEF Reap
    <2>2. coord[c].procs[j] \in Pids
      BY <1>3, <1>g DEF Reap, At, CoordGood
    <2> QED
      BY <2>1, <2>2, <1>g DEF OneStatement
  <1>4. CASE Requeue(c)
    BY <1>4, <1>g DEF Requeue, At, CoordGood, OneStatement
  <1>5. CASE CancelRows(c)
    BY <1>5 DEF CancelRows, OneStatement
  <1>6. CASE CancelMark(c)
    BY <1>6, <1>g DEF CancelMark, OneStatement
  <1>7. CASE UNCHANGED row
    BY <1>7 DEF OneStatement
  <1> QED
    BY <1>1, <1>2, <1>3, <1>4, <1>5, <1>6, <1>7
       DEF Coordinator, Begin, List, Poll, Turn, Finalize, RecordVerdict, Wait, Scan, Probe,
           Evict, CancelScan, CancelKill, CancelEnd

LEMMA Statements ==
  ASSUME TypeInv, [Next]_vars
  PROVE  OneStatement
  <1>1. CASE UNCHANGED row
    BY <1>1 DEF OneStatement
  <1> QED
    BY <1>1, WrapperStatements, CoordinatorStatements
       DEF Next, vars, Kill, Interrupt, Abandon, Crash, StartResume, StartCancel

-----------------------------------------------------------------------------
(* What a step may do to one process *)

(* Its child ends, or it leaves, or both: all that a signal can do to it.   *)
Signalled(w, v) ==
  /\ v.job = w.job
  /\ v.pc = w.pc \/ (v.pc = "exited" /\ w.pc # "free")
  /\ \/ v.child = w.child /\ v.verdict = w.verdict
     \/ /\ w.child = "running" /\ v.child = "ended"
        /\ IF w.pc \in {"on_start", "communicate"} THEN v.verdict \in CaseVerdicts
                                                   ELSE v.verdict = w.verdict

Launching(q) ==
  /\ proc[q].pc = "free"
  /\ UNCHANGED row
  /\ \E c \in Coords, j \in Jobs :
       /\ coord[c].pc = "launch"
       /\ Cardinality(Tracked(c)) < K
       /\ proc' = [proc EXCEPT ![q].job = j, ![q].pc = "read"]
       /\ coord' = [coord EXCEPT ![c] =
                      [coord[c] EXCEPT !.pc = "launched", !.job = j, !.procs[j] = q,
                                       !.todo = coord[c].todo \ {j}]]

(* Its own next step, with what it has written to the ledger. *)
Working(w, v) ==
  \/ w.pc = "read" /\ v = [w EXCEPT !.pc = "claim"]
  \/ /\ w.pc = "claim" /\ v = [w EXCEPT !.pc = "spawn"]
     /\ row[w.job].status \in RunnableStatuses /\ row' = Running(row, w.job)
  \/ /\ w.pc = "claim" /\ v = [w EXCEPT !.pc = "finalize"]
     /\ row' = Ended(row, w.job, "error")
  \/ w.pc = "spawn" /\ v = [w EXCEPT !.pc = "on_start", !.child = "running"]
  \/ w.pc = "spawn" /\ v = [w EXCEPT !.pc = "finish", !.verdict = "error"]
  \/ w.pc = "on_start" /\ v = [w EXCEPT !.pc = "communicate"]
  \/ /\ w.pc = "on_start" /\ v = [w EXCEPT !.pc = "finish", !.verdict = "error"]
     /\ "locked" \in Faults
  \/ w.pc = "communicate" /\ w.child = "ended" /\ v = [w EXCEPT !.pc = "finish"]
  \/ /\ w.pc = "finish" /\ v = [w EXCEPT !.pc = "finalize"]
     /\ row' = Ended(row, w.job, w.verdict)
  \/ /\ w.pc = "finalize" /\ v = [w EXCEPT !.pc = Verdict(row)]
     /\ AllTerminal(row) /\ UNCHANGED row

Moves(q) == \/ Launching(q)
            \/ Signalled(proc[q], proc'[q])
            \/ Working(proc[q], proc'[q]) /\ UNCHANGED coord

(* Only signals move several processes at once. *)
OneMoves == \/ \A q \in Pids : Signalled(proc[q], proc'[q])
            \/ \E p \in Pids : \A q \in Pids \ {p} : proc'[q] = proc[q]

LEMMA WrapperMoves ==
  ASSUME TypeInv, NEW p \in Pids, Wrapper(p)
  PROVE  /\ proc' \in [Pids -> ProcSet]
         /\ \A q \in Pids : Moves(q)
         /\ OneMoves
  <1> DEFINE w == proc[p]
             v == proc'[p]
  <1>w. proc \in [Pids -> ProcSet] /\ w \in ProcSet /\ ProcGood(w)
    BY DEF TypeInv, ProcsTyped
  <1>c. UNCHANGED coord
    BY DEF Wrapper, ReadRow, MissingTemplate, BadConfig, ClaimRun, Spawn, OnStart, ChildEnds,
           Communicate, Finish, Conclude, WriteVerdict
  <1>s. ASSUME NEW r \in ProcSet
        PROVE  Signalled(r, r)
    BY <1>s DEF Signalled
  <1>o. ASSUME NEW r \in ProcSet, proc' = [proc EXCEPT ![p] = r],
               Signalled(w, r) \/ Working(w, r)
        PROVE  proc' \in [Pids -> ProcSet] /\ (\A q \in Pids : Moves(q)) /\ OneMoves
    <2>1. proc' \in [Pids -> ProcSet] /\ v = r
      BY <1>o, <1>w
    <2>2. Moves(p)
      BY <1>o, <2>1, <1>c DEF Moves
    <2>3. ASSUME NEW q \in Pids, q # p PROVE Moves(q)
      BY <1>o, <2>3, <1>w, <1>s DEF Moves
    <2>4. OneMoves
      BY <1>o, <1>w DEF OneMoves
    <2> QED
      BY <2>1, <2>2, <2>3, <2>4
  <1>pc. ASSUME NEW pc \in WrapPcs, Goto(p, pc)
         PROVE  /\ [w EXCEPT !.pc = pc] \in ProcSet
                /\ proc' = [proc EXCEPT ![p] = [w EXCEPT !.pc = pc]]
    BY <1>pc, <1>w DEF Goto, ProcSet
  <1>x. w.pc # "free" => Signalled(w, [w EXCEPT !.pc = "exited"])
    BY <1>w DEF Signalled, ProcSet
  <1>1. CASE ReadRow(p)
    BY <1>1, <1>pc, <1>o, <1>x DEF ReadRow, Working, WrapPcs
  <1>2. CASE MissingTemplate(p)
    BY <1>2, <1>pc, <1>o, <1>x DEF MissingTemplate, WrapPcs
  <1>3. CASE BadConfig(p)
    BY <1>3, <1>pc, <1>o DEF BadConfig, Working, WrapPcs, Case
  <1>4. CASE ClaimRun(p)
    BY <1>4, <1>pc, <1>o, <1>x DEF ClaimRun, Working, WrapPcs, Case
  <1>5. CASE Spawn(p)
    <2>1. PICK r \in {[w EXCEPT !.pc = "on_start", !.child = "running"],
                      [w EXCEPT !.pc = "finish", !.verdict = "error"]} :
            proc' = [proc EXCEPT ![p] = r]
      BY <1>5, <1>w DEF Spawn
    <2>2. r \in ProcSet
      BY <1>w DEF ProcSet, WrapPcs, CaseVerdicts
    <2> QED
      BY <1>5, <2>1, <2>2, <1>o DEF Spawn, Working
  <1>6. CASE OnStart(p)
    <2>1. CASE Goto(p, "communicate")
      BY <1>6, <2>1, <1>pc, <1>o DEF OnStart, Working, WrapPcs
    <2>2. CASE /\ Fault("locked")
               /\ proc' = [proc EXCEPT ![p].pc = "finish", ![p].verdict = "error"]
      <3>1. [w EXCEPT !.pc = "finish", !.verdict = "error"] \in ProcSet
        BY <1>w DEF ProcSet, WrapPcs, CaseVerdicts
      <3>2. proc' = [proc EXCEPT ![p] = [w EXCEPT !.pc = "finish", !.verdict = "error"]]
        BY <2>2, <1>w
      <3> QED
        BY <1>6, <2>2, <3>1, <3>2, <1>o DEF OnStart, Working, Fault
    <2> QED
      BY <1>6, <2>1, <2>2 DEF OnStart
  <1>7. CASE ChildEnds(p)
    <2>1. PICK verdict \in Outcomes :
            proc' = [proc EXCEPT ![p].child = "ended",
                                 ![p].verdict = IF Awaited(p) THEN verdict ELSE @]
      BY <1>7 DEF ChildEnds
    <2> DEFINE said == IF Awaited(p) THEN verdict ELSE w.verdict
    <2>2. said \in CaseVerdicts \union {"none"}
      BY <2>1, <1>w, KindsAssumption DEF ProcSet
    <2>3. proc' = [proc EXCEPT ![p] = [w EXCEPT !.child = "ended", !.verdict = said]]
      BY <2>1, <1>w
    <2>4. Signalled(w, [w EXCEPT !.child = "ended", !.verdict = said])
      BY <1>7, <2>1, <1>w, KindsAssumption DEF ChildEnds, Signalled, Awaited, ProcSet
    <2>5. [w EXCEPT !.child = "ended", !.verdict = said] \in ProcSet
      <3> HIDE DEF said
      <3> QED
        BY <2>2, <1>w DEF ProcSet
    <2> QED
      BY <2>3, <2>4, <2>5, <1>o
  <1>8. CASE Communicate(p)
    BY <1>8, <1>pc, <1>o DEF Communicate, Working, WrapPcs
  <1>9. CASE Finish(p)
    BY <1>9, <1>pc, <1>o DEF Finish, Working, WrapPcs, Case
  <1>10. CASE Conclude(p)
    <2>1. CASE AllTerminal(row) /\ Goto(p, Verdict(row))
      <3>1. Verdict(row) \in WrapPcs
        BY DEF Verdict, WrapPcs, RunVerdicts
      <3> QED
        BY <1>10, <2>1, <3>1, <1>pc, <1>o DEF Conclude, Working
    <2>2. CASE Goto(p, "exited")
      BY <1>10, <2>2, <1>pc, <1>o, <1>x DEF Conclude, WrapPcs
    <2> QED
      BY <1>10, <2>1, <2>2 DEF Conclude
  <1>11. CASE WriteVerdict(p)
    BY <1>11, <1>pc, <1>o, <1>x DEF WriteVerdict, WrapPcs, RunVerdicts
  <1> QED
    BY <1>1, <1>2, <1>3, <1>4, <1>5, <1>6, <1>7, <1>8, <1>9, <1>10, <1>11 DEF Wrapper

LEMMA TerminateMoves ==
  ASSUME TypeInv, NEW wrappers, NEW children, Terminate(wrappers, children)
  PROVE  /\ proc' \in [Pids -> ProcSet]
         /\ \A q \in Pids : Signalled(proc[q], proc'[q])
  <1> DEFINE child(p) == p \in children /\ proc[p].child = "running"
             pc(p) == IF p \in wrappers /\ Alive(p) THEN "exited" ELSE proc[p].pc
             ends(p) == IF child(p) THEN "ended" ELSE proc[p].child
             said(p) == IF child(p) /\ Awaited(p) THEN "failed" ELSE proc[p].verdict
  <1>1. ASSUME NEW p \in Pids
        PROVE  /\ proc[p] \in ProcSet
               /\ pc(p) \in WrapPcs /\ ends(p) \in {"none", "running", "ended"}
               /\ said(p) \in CaseVerdicts \union {"none"}
    BY DEF TypeInv, ProcsTyped, ProcSet, WrapPcs, CaseVerdicts
  <1>2. proc' = [p \in Pids |-> [proc[p] EXCEPT !.pc = pc(p), !.child = ends(p),
                                                !.verdict = said(p)]]
    BY DEF Terminate
  <1>3. proc' \in [Pids -> ProcSet]
    <2> HIDE DEF pc, ends, said
    <2> QED
      BY <1>1, <1>2 DEF ProcSet
  <1>4. ASSUME NEW q \in Pids
        PROVE  Signalled(proc[q], proc'[q])
    <2>1. /\ proc'[q].job = proc[q].job /\ proc'[q].pc = pc(q)
          /\ proc'[q].child = ends(q) /\ proc'[q].verdict = said(q)
      <3> HIDE DEF pc, ends, said
      <3> QED
        BY <1>1, <1>2 DEF ProcSet
    <2> QED
      BY <2>1 DEF Signalled, Alive, Awaited, CaseVerdicts
  <1> QED
    BY <1>3, <1>4

LEMMA AllMoves ==
  ASSUME TypeInv, [Next]_vars
  PROVE  /\ proc' \in [Pids -> ProcSet]
         /\ \A q \in Pids : Moves(q)
         /\ OneMoves
  <1>w. proc \in [Pids -> ProcSet] /\ CoordsTyped
    BY DEF TypeInv, ProcsTyped
  <1>s. ASSUME proc' \in [Pids -> ProcSet], \A q \in Pids : Signalled(proc[q], proc'[q])
        PROVE  proc' \in [Pids -> ProcSet] /\ (\A q \in Pids : Moves(q)) /\ OneMoves
    BY <1>s DEF Moves, OneMoves
  <1>1. CASE UNCHANGED proc
    BY <1>1, <1>w, <1>s DEF Signalled
  <1>2. ASSUME NEW p \in Pids, Kill(p)
        PROVE  proc' \in [Pids -> ProcSet] /\ (\A q \in Pids : Moves(q)) /\ OneMoves
    BY <1>2, <1>w, <1>s DEF Kill, Goto, Alive, Signalled, ProcSet, WrapPcs
  <1>3. ASSUME NEW c \in Coords, Launch(c)
        PROVE  proc' \in [Pids -> ProcSet] /\ (\A q \in Pids : Moves(q)) /\ OneMoves
    <2>1. ASSUME NEW j \in First(coord[c].todo), NEW p \in FreshPid,
                 proc' = [proc EXCEPT ![p].job = j, ![p].pc = "read"],
                 Set(c, [coord[c] EXCEPT !.pc = "launched", !.job = j, !.procs[j] = p,
                                         !.todo = @ \ {j}]),
                 UNCHANGED <<row, budget>>
          PROVE  proc' \in [Pids -> ProcSet] /\ (\A q \in Pids : Moves(q)) /\ OneMoves
      <3>1. j \in Jobs /\ p \in Pids /\ proc[p].pc = "free" /\ coord[c] \in CoordSet
        BY <1>w DEF CoordsTyped, CoordSet, First, FreshPid
      <3>2. proc' \in [Pids -> ProcSet]
        BY <2>1, <3>1, <1>w DEF ProcSet, WrapPcs
      <3>3. Moves(p)
        <4>1. coord' = [coord EXCEPT ![c] =
                          [coord[c] EXCEPT !.pc = "launched", !.job = j, !.procs[j] = p,
                                           !.todo = coord[c].todo \ {j}]]
          BY <2>1, <3>1 DEF Set, CoordSet
        <4>2. coord[c].pc = "launch" /\ Cardinality(Tracked(c)) < K
          BY <1>3 DEF Launch, At
        <4> QED
          BY <2>1, <3>1, <4>1, <4>2 DEF Moves, Launching
      <3>4. ASSUME NEW q \in Pids, q # p PROVE Moves(q)
        BY <2>1, <3>1, <3>4, <1>w DEF Moves, Signalled
      <3>5. OneMoves
        BY <2>1, <3>1, <1>w DEF OneMoves
      <3> QED
        BY <3>2, <3>3, <3>4, <3>5
    <2> QED
      BY <1>1, <1>3, <2>1 DEF Launch
  <1>4. ASSUME NEW c \in Coords, Evict(c) \/ CancelKill(c)
        PROVE  proc' \in [Pids -> ProcSet] /\ (\A q \in Pids : Moves(q)) /\ OneMoves
    BY <1>4, <1>s, TerminateMoves DEF Evict, CancelKill
  <1>5. ASSUME NEW c \in Coords, Abandon(c)
        PROVE  proc' \in [Pids -> ProcSet] /\ (\A q \in Pids : Moves(q)) /\ OneMoves
    <2>1. ASSUME NEW q \in Pids
          PROVE  \/ proc'[q] = proc[q]
                 \/ /\ proc'[q] = [proc[q] EXCEPT !.pc = "exited"]
                    /\ \E j \in Jobs : coord[c].procs[j] = q
      BY <1>5 DEF Abandon, Tracked
    <2>2. ASSUME NEW q \in Pids
          PROVE  Signalled(proc[q], proc'[q]) /\ proc'[q] \in ProcSet
      <3>1. proc[q] \in ProcSet /\ ProcGood(proc[q])
        BY DEF TypeInv, ProcsTyped
      <3>2. \A j \in Jobs : j # 0
        BY DEF Jobs
      <3>3. (\E j \in Jobs : coord[c].procs[j] = q) => proc[q].pc # "free"
        BY <3>1, <3>2 DEF TypeInv, Handles, ProcGood
      <3> QED
        BY <2>1, <3>1, <3>3 DEF Signalled, ProcSet, WrapPcs
    <2>3. proc' = [q \in Pids |-> proc'[q]]
      BY <1>5 DEF Abandon
    <2>4. proc' \in [Pids -> ProcSet]
      BY <2>2, <2>3
    <2> QED
      BY <2>2, <2>4, <1>s
  <1> QED
    BY <1>1, <1>2, <1>3, <1>4, <1>5, WrapperMoves
       DEF Next, vars, Coordinator, Begin, List, Launched, Poll, Reap, Turn, Finalize,
           RecordVerdict, Wait, Scan, Probe, Requeue, CancelRows, CancelScan, CancelMark,
           CancelEnd, Interrupt, Crash, StartResume, StartCancel

-----------------------------------------------------------------------------
(* What a step may do to one command: its state stays in its type, it gets  *)
(* no new handle unless it launches, and it holds a verdict only if that is *)
(* the verdict of the rows.                                                 *)

Fine(c, r) ==
  /\ r \in CoordSet /\ CoordGood(r)
  /\ \A j \in Jobs : r.procs[j] \in Pids => r.procs[j] = coord[c].procs[j]
  /\ r.pc \in RunVerdicts => \/ r.pc = coord[c].pc
                             \/ AllTerminal(row) /\ r.pc = Verdict(row)

CommandsFine == /\ coord' \in [Coords -> CoordSet]
                /\ \A c \in Coords : Fine(c, coord'[c])

LEMMA SetFine ==
  ASSUME TypeInv, NEW c \in Coords, NEW r, Fine(c, r), Set(c, r)
  PROVE  CommandsFine
  <1>1. coord' \in [Coords -> CoordSet] /\ coord'[c] = r
    BY DEF Set, Fine, TypeInv, CoordsTyped
  <1>2. ASSUME NEW d \in Coords, d # c PROVE Fine(d, coord'[d])
    BY <1>2 DEF Set, TypeInv, CoordsTyped, Fine
  <1> QED
    BY <1>1, <1>2 DEF CommandsFine

LEMMA NoHandles ==
  /\ NoPid \in PidsOrNone /\ NoPid \notin Pids /\ Pids \subseteq PidsOrNone
  /\ NoPids \in [Jobs -> PidsOrNone] /\ \A j \in Jobs : NoPids[j] \notin Pids
  BY SizesAssumption DEF NoPid, Pids, PidsOrNone, NoPids

(* Places of a command that rely on nothing it has read. *)
Quiet == CoordPcs \ ({"launched", "requeue", "reap"} \union RunVerdicts)

LEMMA NewCommand ==
  ASSUME TypeInv, NEW c \in Coords,
         NEW op \in {"none", "submit", "resume", "force", "cancel"}, NEW pc \in Quiet
  PROVE  Fine(c, [NoCoord EXCEPT !.op = op, !.pc = pc])
  BY NoHandles DEF Fine, NoCoord, CoordSet, CoordGood, Quiet, CoordPcs, RunVerdicts

LEMMA QuitFine ==
  ASSUME TypeInv, NEW c \in Coords, Quit(c)
  PROVE  CommandsFine
  <1>1. Fine(c, NoCoord)
    BY NoHandles DEF Fine, NoCoord, CoordSet, CoordGood, CoordPcs, RunVerdicts
  <1> QED
    BY <1>1, SetFine DEF Quit

LEMMA MoveFine ==
  ASSUME TypeInv, NEW c \in Coords, NEW pc, Move(c, pc),
         pc \in Quiet \/ (AllTerminal(row) /\ pc = Verdict(row))
  PROVE  CommandsFine
  <1>1. coord[c] \in CoordSet
    BY Fields
  <1>2. pc \in CoordPcs \ {"launched", "requeue", "reap"}
    BY DEF Quiet, Verdict, CoordPcs, RunVerdicts
  <1>3. [coord[c] EXCEPT !.pc = pc] \in CoordSet
    BY <1>1, <1>2 DEF CoordSet
  <1>4. pc \in RunVerdicts => AllTerminal(row) /\ pc = Verdict(row)
    BY DEF Quiet
  <1>5. Fine(c, [coord[c] EXCEPT !.pc = pc])
    BY <1>1, <1>2, <1>3, <1>4 DEF Fine, CoordGood, CoordSet
  <1> QED
    BY <1>5, SetFine DEF Move

(* The rows still to be handled, and where the command is. *)
LEMMA TodoFine ==
  ASSUME TypeInv, NEW c \in Coords, NEW pc \in Quiet, NEW todo \in SUBSET Jobs,
         NEW job \in Jobs \union {0},
         Set(c, [coord[c] EXCEPT !.pc = pc, !.todo = todo, !.job = job])
  PROVE  CommandsFine
  <1>1. coord[c] \in CoordSet
    BY Fields
  <1>2. [coord[c] EXCEPT !.pc = pc, !.todo = todo, !.job = job] \in CoordSet
    BY <1>1 DEF CoordSet, Quiet
  <1>3. Fine(c, [coord[c] EXCEPT !.pc = pc, !.todo = todo, !.job = job])
    BY <1>1, <1>2 DEF Fine, CoordGood, CoordSet, Quiet
  <1> QED
    BY <1>3, SetFine

LEMMA ScanFine ==
  ASSUME TypeInv, NEW c \in Coords, NEW pc \in Quiet, ScanTo(c, pc)
  PROVE  CommandsFine
  <1> DEFINE active == WithStatus(row, ACTIVE_STATUSES)
             wrappers == [j \in Jobs |-> IF j \in active THEN row[j].wrapper_pid ELSE NoPid]
             children == [j \in Jobs |-> IF j \in active THEN row[j].pid ELSE NoPid]
             state == [coord[c] EXCEPT !.pc = pc, !.todo = active,
                                       !.wrapper_pid = wrappers, !.pid = children]
  <1>1. coord[c] \in CoordSet /\ row \in [Jobs -> LocalRowSet]
    BY Fields DEF TypeInv, RowsTyped
  <1>2. /\ active \in SUBSET Jobs
        /\ wrappers \in [Jobs -> PidsOrNone] /\ children \in [Jobs -> PidsOrNone]
    BY <1>1, NoHandles DEF WithStatus, LocalRowSet
  <1>3. Set(c, state)
    BY DEF ScanTo
  <1> HIDE DEF active, wrappers, children
  <1>4. state \in CoordSet
    BY <1>1, <1>2 DEF CoordSet, Quiet
  <1>5. Fine(c, state)
    BY <1>1, <1>2, <1>4 DEF Fine, CoordGood, CoordSet, Quiet
  <1> HIDE DEF state
  <1> QED
    BY <1>3, <1>5, SetFine

LEMMA LaunchFine ==
  ASSUME TypeInv, NEW c \in Coords, Launch(c)
  PROVE  CommandsFine \/ \E p \in Pids : Launching(p)
  <1>r. coord[c] \in CoordSet /\ coord[c].pc = "launch"
    BY Fields DEF Launch, At
  <1>1. ASSUME NEW j \in First(coord[c].todo), NEW p \in FreshPid,
               proc' = [proc EXCEPT ![p].job = j, ![p].pc = "read"],
               Set(c, [coord[c] EXCEPT !.pc = "launched", !.job = j, !.procs[j] = p,
                                       !.todo = @ \ {j}]),
               UNCHANGED <<row, budget>>
        PROVE  Launching(p) /\ p \in Pids
    <2>1. coord' = [coord EXCEPT ![c] =
                      [coord[c] EXCEPT !.pc = "launched", !.job = j, !.procs[j] = p,
                                       !.todo = coord[c].todo \ {j}]]
      BY <1>1, <1>r DEF Set, CoordSet
    <2>2. j \in Jobs /\ p \in Pids /\ proc[p].pc = "free"
      BY <1>r DEF CoordSet, First, FreshPid
    <2>3. Cardinality(Tracked(c)) < K
      BY DEF Launch
    <2> QED
      BY <1>1, <1>r, <2>1, <2>2, <2>3 DEF Launching
  <1>2. ASSUME NEW j, Set(c, [coord[c] EXCEPT !.todo = @ \ {j}])
        PROVE  CommandsFine
    <2>1. coord[c] \in CoordSet /\ CoordGood(coord[c])
      BY Fields
    <2>2. Fine(c, [coord[c] EXCEPT !.todo = @ \ {j}])
      BY <1>r, <2>1 DEF Fine, CoordGood, CoordSet
    <2> QED
      BY <1>2, <2>2, SetFine
  <1> QED
    BY <1>1, <1>2 DEF Launch

LEMMA ReapFine ==
  ASSUME TypeInv, NEW c \in Coords, Reap(c)
  PROVE  CommandsFine
  <1>r. coord[c] \in CoordSet /\ CoordGood(coord[c]) /\ coord[c].pc = "reap"
    BY Fields DEF Reap, At
  <1>1. PICK j \in First(coord[c].todo) :
          \/ Set(c, [coord[c] EXCEPT !.todo = @ \ {j}])
          \/ Set(c, [coord[c] EXCEPT !.procs[j] = NoPid, !.todo = @ \ {j}])
    BY DEF Reap
  <1>2. Fine(c, [coord[c] EXCEPT !.todo = @ \ {j}])
    BY <1>r DEF Fine, CoordGood, CoordSet
  <1>3. [coord[c] EXCEPT !.procs[j] = NoPid, !.todo = @ \ {j}] \in CoordSet
    BY <1>r, NoHandles DEF CoordSet
  <1>4. Fine(c, [coord[c] EXCEPT !.procs[j] = NoPid, !.todo = @ \ {j}])
    BY <1>r, <1>3, NoHandles DEF Fine, CoordGood, CoordSet, RunVerdicts
  <1> QED
    BY <1>1, <1>2, <1>4, SetFine

LEMMA CoordinatorFine ==
  ASSUME TypeInv, NEW c \in Coords, Coordinator(c), ~Launch(c)
  PROVE  CommandsFine
  <1>r. /\ coord[c] \in CoordSet /\ row \in [Jobs -> LocalRowSet]
        /\ First(coord[c].todo) \subseteq coord[c].todo
    BY Fields DEF TypeInv, RowsTyped
  <1>w. ASSUME NEW from PROVE WithStatus(row, from) \in SUBSET Jobs
    BY <1>r DEF WithStatus
  <1>j. ASSUME NEW pc \in Quiet, NEW todo \in SUBSET Jobs,
               Set(c, [coord[c] EXCEPT !.pc = pc, !.todo = todo])
        PROVE  CommandsFine
    <2>1. [coord[c] EXCEPT !.pc = pc, !.todo = todo]
            = [coord[c] EXCEPT !.pc = pc, !.todo = todo, !.job = coord[c].job]
      BY <1>r DEF CoordSet
    <2>2. coord[c].job \in Jobs \union {0}
      BY <1>r DEF CoordSet
    <2>3. Set(c, [coord[c] EXCEPT !.pc = pc, !.todo = todo, !.job = coord[c].job])
      BY <1>j, <2>1 DEF Set
    <2> QED
      BY <2>2, <2>3, TodoFine
  <1>t. ASSUME NEW todo \in SUBSET Jobs, coord[c].pc \in Quiet,
               Set(c, [coord[c] EXCEPT !.todo = todo])
        PROVE  CommandsFine
    <2>1. [coord[c] EXCEPT !.todo = todo] = [coord[c] EXCEPT !.pc = coord[c].pc, !.todo = todo]
      BY <1>r DEF CoordSet
    <2> QED
      BY <1>t, <2>1, <1>j
  <1>n. ASSUME NEW pc, Move(c, pc), pc \in {"start", "list", "finalize", "evict", "cancel_scan",
                                            "cancel_mark"}
        PROVE  CommandsFine
    BY <1>n, MoveFine DEF Quiet, CoordPcs, RunVerdicts
  <1>1. CASE Begin(c)
    BY <1>1, <1>n DEF Begin
  <1>2. CASE List(c)
    BY <1>2, <1>w, <1>j DEF List, Quiet, CoordPcs, RunVerdicts
  <1>3. CASE Launched(c)
    <2>1. Set(c, [coord[c] EXCEPT !.pc = "launch", !.todo = coord[c].todo, !.job = 0])
      BY <1>3, <1>r DEF Launched, CoordSet, Set
    <2> QED
      BY <2>1, <1>r, TodoFine DEF CoordSet, Quiet, CoordPcs, RunVerdicts
  <1>4. CASE Poll(c)
    <2>1. [coord[c] EXCEPT !.pc = "reap", !.todo = Tracked(c)] \in CoordSet
      BY <1>r DEF CoordSet, CoordPcs, Tracked
    <2>2. Fine(c, [coord[c] EXCEPT !.pc = "reap", !.todo = Tracked(c)])
      BY <1>r, <2>1, NoHandles DEF Fine, CoordGood, CoordSet, Tracked, PidsOrNone, RunVerdicts
    <2> QED
      BY <1>4, <2>2, SetFine DEF Poll
  <1>5. CASE Reap(c)
    BY <1>5, ReapFine
  <1>6. CASE Turn(c)
    BY <1>6, <1>n DEF Turn
  <1>7. CASE Finalize(c)
    BY <1>7, MoveFine, QuitFine DEF Finalize
  <1>8. CASE RecordVerdict(c)
    BY <1>8, QuitFine DEF RecordVerdict
  <1>9. CASE Wait(c)
    BY <1>9, <1>n DEF Wait
  <1>10. CASE Scan(c)
    BY <1>10, ScanFine DEF Scan, Quiet, CoordPcs, RunVerdicts
  <1>11. CASE Probe(c)
    BY <1>11, <1>n, QuitFine DEF Probe
  <1>12. CASE Evict(c)
    <2>1. PICK j \in First(coord[c].todo) :
            Set(c, [coord[c] EXCEPT !.pc = "requeue", !.job = j])
      BY <1>12 DEF Evict
    <2>2. [coord[c] EXCEPT !.pc = "requeue", !.job = j] \in CoordSet
      BY <1>r DEF CoordSet, CoordPcs
    <2>3. Fine(c, [coord[c] EXCEPT !.pc = "requeue", !.job = j])
      BY <1>r, <2>2 DEF Fine, CoordGood, CoordSet, RunVerdicts
    <2> QED
      BY <2>1, <2>3, SetFine
  <1>13. CASE Requeue(c)
    <2>1. CASE Set(c, [NoCoord EXCEPT !.op = coord[c].op, !.pc = "start"])
      <3>1. /\ coord[c].op \in {"none", "submit", "resume", "force", "cancel"}
            /\ "start" \in Quiet
        BY <1>r DEF CoordSet, Quiet, CoordPcs, RunVerdicts
      <3> QED
        BY <2>1, <3>1, NewCommand, SetFine
    <2>2. CASE Set(c, [coord[c] EXCEPT !.pc = "evict", !.todo = coord[c].todo \ {coord[c].job},
                                       !.job = 0])
      BY <2>2, <1>r, TodoFine DEF CoordSet, Quiet, CoordPcs, RunVerdicts
    <2> QED
      BY <1>13, <2>1, <2>2 DEF Requeue
  <1>14. CASE CancelRows(c)
    BY <1>14, <1>n DEF CancelRows
  <1>15. CASE CancelScan(c)
    BY <1>15, ScanFine DEF CancelScan, Quiet, CoordPcs, RunVerdicts
  <1>16. CASE CancelKill(c)
    BY <1>16, <1>n DEF CancelKill
  <1>17. CASE CancelMark(c)
    <2>1. PICK j \in First(coord[c].todo) : Set(c, [coord[c] EXCEPT !.todo = @ \ {j}])
      BY <1>17 DEF CancelMark
    <2>2. Set(c, [coord[c] EXCEPT !.todo = coord[c].todo \ {j}])
      BY <2>1, <1>r DEF CoordSet
    <2>3. coord[c].pc \in Quiet /\ coord[c].todo \ {j} \in SUBSET Jobs
      BY <1>17, <1>r DEF CancelMark, At, CoordSet, Quiet, CoordPcs, RunVerdicts
    <2> QED
      BY <2>2, <2>3, <1>t
  <1>18. CASE CancelEnd(c)
    BY <1>18, QuitFine DEF CancelEnd
  <1> QED
    BY <1>1, <1>2, <1>3, <1>4, <1>5, <1>6, <1>7, <1>8, <1>9, <1>10, <1>11, <1>12, <1>13,
       <1>14, <1>15, <1>16, <1>17, <1>18 DEF Coordinator

LEMMA AllCommandsFine ==
  ASSUME TypeInv, [Next]_vars
  PROVE  CommandsFine \/ \E p \in Pids : Launching(p)
  <1>0. coord \in [Coords -> CoordSet] /\ \A c \in Coords : CoordGood(coord[c])
    BY DEF TypeInv, CoordsTyped
  <1>1. CASE UNCHANGED coord
    BY <1>0, <1>1 DEF CommandsFine, Fine
  <1>2. ASSUME NEW c \in Coords, Interrupt(c)
        PROVE  CommandsFine
    <2>1. Set(c, [coord[c] EXCEPT !.pc = "wait", !.todo = {}, !.job = 0])
      BY <1>2 DEF Interrupt
    <2>2. "wait" \in Quiet
      BY DEF Quiet, CoordPcs, RunVerdicts
    <2> QED
      BY <2>1, <2>2, TodoFine
  <1>3. ASSUME NEW c \in Coords, Abandon(c)
        PROVE  CommandsFine
    BY <1>3, MoveFine DEF Abandon, Quiet, CoordPcs, RunVerdicts
  <1>4. ASSUME NEW c \in Coords, Crash(c)
        PROVE  CommandsFine
    BY <1>4, QuitFine DEF Crash
  <1>5. ASSUME NEW c \in Coords, StartResume(c)
        PROVE  CommandsFine
    <2>1. PICK op \in {"resume", "force"} : Set(c, [NoCoord EXCEPT !.op = op, !.pc = "scan"])
      BY <1>5 DEF StartResume
    <2>2. "scan" \in Quiet
      BY DEF Quiet, CoordPcs, RunVerdicts
    <2> QED
      BY <2>1, <2>2, NewCommand, SetFine
  <1>6. ASSUME NEW c \in Coords, StartCancel(c)
        PROVE  CommandsFine
    <2>1. "cancel_pending" \in Quiet
      BY DEF Quiet, CoordPcs, RunVerdicts
    <2>2. Fine(c, [NoCoord EXCEPT !.op = "cancel", !.pc = "cancel_pending"])
      BY <2>1, NewCommand
    <2> QED
      BY <1>6, <2>2, SetFine DEF StartCancel
  <1>7. ASSUME NEW p \in Pids, Wrapper(p) \/ Kill(p)
        PROVE  UNCHANGED coord
    BY <1>7 DEF Wrapper, ReadRow, MissingTemplate, BadConfig, ClaimRun, Spawn, OnStart,
       ChildEnds, Communicate, Finish, Conclude, WriteVerdict, Kill
  <1> QED
    BY <1>1, <1>2, <1>3, <1>4, <1>5, <1>6, <1>7, CoordinatorFine, LaunchFine DEF Next, vars

-----------------------------------------------------------------------------
(* The types are kept. *)

LEMMA RowTypes ==
  ASSUME TypeInv, [Next]_vars
  PROVE  RowsTyped'
  <1>r. /\ row \in [Jobs -> LocalRowSet]
        /\ \A p \in Pids : proc[p] \in ProcSet /\ ProcGood(proc[p])
        /\ \A c \in Coords, j \in Jobs : coord[c].procs[j] \in PidsOrNone
    BY Fields DEF TypeInv, RowsTyped
  <1>v. CaseVerdicts \subseteq TERMINAL_STATUSES /\ "cancelled" \in TERMINAL_STATUSES
    BY DEF CaseVerdicts, TERMINAL_STATUSES
  <1>1. CASE row' = row
    BY <1>1, <1>r DEF RowsTyped
  <1>2. CASE row' = CancelPending(row)
    <2>1. 1 \in Jobs
      BY SizesAssumption DEF Jobs
    <2> QED
      BY <1>2, <1>r, <2>1, LedgerTypes DEF RowsTyped
  <1>3. ASSUME NEW p \in Pids,
               \/ proc[p].pc = "claim" /\ row' = Running(row, Case(p))
               \/ proc[p].pc = "claim" /\ row' = Ended(row, Case(p), "error")
               \/ proc[p].pc = "finish" /\ row' = Ended(row, Case(p), proc[p].verdict)
               \/ /\ proc[p].pc \in {"on_start", "communicate"}
                  /\ row' = SetPid(row, Case(p), p)
        PROVE  RowsTyped'
    <2>1. Case(p) \in Jobs
      BY <1>3, <1>r DEF ProcGood, Case
    <2>2. proc[p].pc = "finish" => proc[p].verdict \in TERMINAL_STATUSES
      BY <1>r, <1>v DEF ProcGood
    <2>3. "error" \in TERMINAL_STATUSES /\ p \in PidsOrNone
      BY DEF TERMINAL_STATUSES, PidsOrNone
    <2> QED
      BY <1>3, <2>1, <2>2, <2>3, <1>r, LedgerTypes DEF RowsTyped
  <1>4. ASSUME NEW c \in Coords, NEW j \in Jobs,
               \/ row' = Ended(row, j, "error")
               \/ row' = SetWrapperPid(row, j, coord[c].procs[j])
               \/ row' = Requeued(row, j)
               \/ row' = Ended(row, j, "cancelled")
        PROVE  RowsTyped'
    BY <1>4, <1>r, LedgerTypes DEF RowsTyped, TERMINAL_STATUSES
  <1> QED
    BY <1>1, <1>2, <1>3, <1>4, Statements DEF OneStatement

LEMMA ProcTypes ==
  ASSUME TypeInv, [Next]_vars
  PROVE  ProcsTyped'
  <1>1. ASSUME NEW q \in Pids
        PROVE  ProcGood(proc'[q])
    <2>g. proc[q] \in ProcSet /\ ProcGood(proc[q]) /\ Moves(q)
      BY AllMoves, Fields
    <2>1. CASE Launching(q)
      BY <2>1, <2>g DEF Launching, ProcGood, TypeInv, ProcsTyped, ProcSet
    <2>2. CASE Signalled(proc[q], proc'[q])
      BY <2>2, <2>g DEF Signalled, ProcGood
    <2>3. CASE Working(proc[q], proc'[q])
      BY <2>3, <2>g DEF Working, ProcGood, ProcSet, CaseVerdicts, Verdict
    <2> QED
      BY <2>1, <2>2, <2>3, <2>g DEF Moves
  <1> QED
    BY <1>1, AllMoves DEF ProcsTyped

(* The case of a process never changes. *)
LEMMA JobKept ==
  ASSUME TypeInv, [Next]_vars, NEW q \in Pids, proc[q].pc # "free"
  PROVE  proc'[q].job = proc[q].job
  BY AllMoves, Fields DEF Moves, Launching, Signalled, Working, ProcSet

LEMMA CoordTypes ==
  ASSUME TypeInv, [Next]_vars
  PROVE  CoordsTyped' /\ Handles'
  <1>c. /\ coord \in [Coords -> CoordSet] /\ \A c \in Coords : CoordGood(coord[c])
        /\ proc \in [Pids -> ProcSet] /\ \A p \in Pids : ProcGood(proc[p])
        /\ Handles
    BY DEF TypeInv, CoordsTyped, ProcsTyped
  <1>0. ASSUME NEW q \in Pids, NEW j \in Jobs, proc[q].job = j
        PROVE  proc'[q].job = j
    <2>1. j # 0
      BY DEF Jobs
    <2> QED
      BY <1>0, <2>1, <1>c, JobKept DEF ProcGood
  <1>1. CASE CommandsFine
    <2>1. CoordsTyped'
      BY <1>1 DEF CommandsFine, CoordsTyped, Fine
    <2>2. ASSUME NEW c \in Coords, NEW j \in Jobs, coord'[c].procs[j] \in Pids
          PROVE  proc'[coord'[c].procs[j]].job = j
      BY <1>0, <1>1, <2>2, <1>c DEF CommandsFine, Fine, Handles
    <2> QED
      BY <2>1, <2>2 DEF Handles
  <1>2. ASSUME NEW q \in Pids, Launching(q)
        PROVE  CoordsTyped' /\ Handles'
    <2>1. PICK c \in Coords, j \in Jobs :
            /\ proc' = [proc EXCEPT ![q].job = j, ![q].pc = "read"]
            /\ coord' = [coord EXCEPT ![c] =
                           [coord[c] EXCEPT !.pc = "launched", !.job = j, !.procs[j] = q,
                                            !.todo = coord[c].todo \ {j}]]
      BY <1>2 DEF Launching
    <2> DEFINE state == [coord[c] EXCEPT !.pc = "launched", !.job = j, !.procs[j] = q,
                                         !.todo = coord[c].todo \ {j}]
    <2>2. /\ state \in CoordSet /\ CoordGood(state)
          /\ \A m \in Jobs : state.procs[m] = IF m = j THEN q ELSE coord[c].procs[m]
      BY <1>c DEF CoordSet, CoordGood, CoordPcs, PidsOrNone
    <2>3. coord' = [coord EXCEPT ![c] = state]
      BY <2>1
    <2>4. proc'[q].job = j
      BY <2>1, <1>c DEF ProcSet
    <2> HIDE DEF state
    <2>5. CoordsTyped'
      BY <2>2, <2>3, <1>c DEF CoordsTyped
    <2>6. ASSUME NEW d \in Coords, NEW m \in Jobs, coord'[d].procs[m] \in Pids
          PROVE  proc'[coord'[d].procs[m]].job = m
      <3>1. CASE d = c /\ m = j
        BY <3>1, <2>2, <2>3, <2>4, <1>c
      <3>2. CASE ~(d = c /\ m = j)
        <4>1. coord'[d].procs[m] = coord[d].procs[m]
          BY <3>2, <2>2, <2>3, <1>c
        <4> QED
          BY <4>1, <2>6, <1>0, <1>c DEF Handles
      <3> QED
        BY <3>1, <3>2
    <2> QED
      BY <2>5, <2>6 DEF Handles
  <1> QED
    BY <1>1, <1>2, AllCommandsFine

(* The status of the run is written without a condition on the rows by      *)
(* mark_run_started and cmd_cancel, and otherwise by one who has read it.   *)
LEMMA RunMoves ==
  ASSUME [Next]_vars
  PROVE  \/ run' = run
         \/ /\ UNCHANGED row /\ run' = "running"
            /\ \E c \in Coords : coord[c].pc \in {"begin", "start"}
         \/ /\ UNCHANGED row /\ run' = "cancelled"
            /\ \E c \in Coords : coord[c].pc = "cancel_mark" /\ coord[c].todo = {}
         \/ /\ UNCHANGED row /\ run' \in RunVerdicts
            /\ \/ \E p \in Pids : run' = proc[p].pc
               \/ \E c \in Coords : run' = coord[c].pc
  <1>1. ASSUME NEW p \in Pids, Wrapper(p)
        PROVE  run' = run \/ (UNCHANGED row /\ run' \in RunVerdicts /\ run' = proc[p].pc)
    BY <1>1 DEF Wrapper, ReadRow, MissingTemplate, BadConfig, ClaimRun, Spawn, OnStart,
       ChildEnds, Communicate, Finish, Conclude, WriteVerdict
  <1>2. ASSUME NEW c \in Coords, Coordinator(c)
        PROVE  \/ run' = run
               \/ UNCHANGED row /\ run' = "running" /\ coord[c].pc \in {"begin", "start"}
               \/ /\ UNCHANGED row /\ run' = "cancelled"
                  /\ coord[c].pc = "cancel_mark" /\ coord[c].todo = {}
               \/ UNCHANGED row /\ run' \in RunVerdicts /\ run' = coord[c].pc
    BY <1>2 DEF Coordinator, Begin, List, Launch, Launched, Poll, Reap, Turn, Finalize,
       RecordVerdict, Wait, Scan, Probe, Evict, Requeue, CancelRows, CancelScan, CancelKill,
       CancelMark, CancelEnd, At
  <1> QED
    BY <1>1, <1>2 DEF Next, vars, Kill, Interrupt, Abandon, Crash, StartResume, StartCancel

LEMMA BudgetTypes ==
  ASSUME TypeInv, [Next]_vars
  PROVE  BudgetTyped'
  <1>0. \A kind : Fault(kind) => BudgetTyped'
    BY SizesAssumption DEF TypeInv, BudgetTyped, Fault
  <1>1. UNCHANGED budget => BudgetTyped'
    BY DEF TypeInv, BudgetTyped
  <1>2. ASSUME NEW p \in Pids, Wrapper(p)
        PROVE  UNCHANGED budget \/ \E kind : Fault(kind)
    BY <1>2 DEF Wrapper, ReadRow, MissingTemplate, BadConfig, ClaimRun, Spawn, OnStart,
       ChildEnds, Communicate, Finish, Conclude, WriteVerdict
  <1>3. ASSUME NEW c \in Coords, Coordinator(c)
        PROVE  UNCHANGED budget \/ \E kind : Fault(kind)
    BY <1>3 DEF Coordinator, Begin, List, Launch, Launched, Poll, Reap, Turn, Finalize,
       RecordVerdict, Wait, Scan, Probe, Evict, Requeue, CancelRows, CancelScan, CancelKill,
       CancelMark, CancelEnd
  <1>4. ASSUME NEW c \in Coords, StartResume(c)
        PROVE  UNCHANGED budget \/ \E kind : Fault(kind)
    BY <1>4 DEF StartResume
  <1> QED
    BY <1>0, <1>1, <1>2, <1>3, <1>4 DEF Next, vars, Kill, Interrupt, Abandon, Crash, StartCancel

LEMMA InitialTypes == Init => TypeInv
  <1> SUFFICES ASSUME Init PROVE TypeInv
    OBVIOUS
  <1>1. RowsTyped
    BY DEF Init, LocalRow, LocalRowSet, RowsTyped, Statuses, PidsOrNone
  <1>2. ProcsTyped
    BY DEF Init, NoProc, ProcsTyped, ProcSet, ProcGood, WrapPcs
  <1>3. /\ NoCoord \in CoordSet /\ CoordGood(NoCoord)
        /\ [NoCoord EXCEPT !.op = "submit", !.pc = "begin"] \in CoordSet
        /\ CoordGood([NoCoord EXCEPT !.op = "submit", !.pc = "begin"])
    BY NoHandles DEF NoCoord, CoordSet, CoordGood, CoordPcs
  <1>4. CoordsTyped
    BY <1>3 DEF Init, CoordsTyped
  <1>5. RunTyped /\ BudgetTyped
    BY SizesAssumption DEF Init, RunTyped, BudgetTyped
  <1>6. Handles
    BY NoHandles DEF Init, NoCoord, Handles
  <1> QED
    BY <1>1, <1>2, <1>4, <1>5, <1>6 DEF TypeInv

LEMMA NextTypes ==
  ASSUME TypeInv, [Next]_vars
  PROVE  TypeInv'
  <1>1. RunTyped'
    BY RunMoves DEF TypeInv, RunTyped
  <1> QED
    BY <1>1, RowTypes, ProcTypes, CoordTypes, BudgetTypes DEF TypeInv

(* Every variable stays in its set: no step of a wrapper, of the scheduler  *)
(* or of a command works on a row or a process it does not have.            *)
THEOREM LocalTypes == Spec => []TypeOK
  <1>1. TypeInv => TypeOK
    BY DEF TypeInv, TypeOK, RowsTyped, RunTyped, ProcsTyped, CoordsTyped, BudgetTyped
  <1> QED
    BY <1>1, InitialTypes, NextTypes, PTL DEF Spec

-----------------------------------------------------------------------------
(* The rows move along the edges of JobLife. *)

Along(old, new) ==
  \A j \in Jobs : \/ new[j].status = old[j].status
                  \/ /\ old[j].status \in OPEN_STATUSES
                     /\ new[j].status \in Life!Edges(old[j].status)

LEMMA LedgerEdges ==
  ASSUME NEW rows \in [Jobs -> LocalRowSet], NEW j \in Jobs
  PROVE  /\ Along(rows, Running(rows, j))
         /\ Along(rows, Requeued(rows, j))
         /\ Along(rows, CancelPending(rows))
         /\ \A status \in TERMINAL_STATUSES : Along(rows, Ended(rows, j, status))
         /\ \A p : Along(rows, SetPid(rows, j, p)) /\ Along(rows, SetWrapperPid(rows, j, p))
  <1>t. \A from : TERMINAL_STATUSES \subseteq Life!Edges(from)
    BY DEF Life!Edges, Life!TERMINAL_STATUSES, TERMINAL_STATUSES
  <1>e. /\ \A from \in RunnableStatuses : "running" \in Life!Edges(from)
        /\ \A from \in OPEN_STATUSES \ {"pending"} : "pending" \in Life!Edges(from)
        /\ RunnableStatuses \subseteq OPEN_STATUSES
        /\ "pending" \in OPEN_STATUSES /\ "cancelled" \in TERMINAL_STATUSES
    BY DEF Life!Edges, RunnableStatuses, OPEN_STATUSES, ACTIVE_STATUSES, TERMINAL_STATUSES
  <1>1. Along(rows, Running(rows, j)) /\ Along(rows, Requeued(rows, j))
    BY LedgerStatus, <1>e DEF Along
  <1>2. Along(rows, CancelPending(rows))
    BY LedgerStatus, <1>t, <1>e DEF Along
  <1>3. ASSUME NEW status \in TERMINAL_STATUSES
        PROVE  Along(rows, Ended(rows, j, status))
    BY LedgerStatus, <1>t DEF Along
  <1>4. ASSUME NEW p
        PROVE  Along(rows, SetPid(rows, j, p)) /\ Along(rows, SetWrapperPid(rows, j, p))
    BY LedgerStatus DEF Along
  <1> QED
    BY <1>1, <1>2, <1>3, <1>4

LEMMA RowsAlong ==
  ASSUME TypeInv, [Next]_vars
  PROVE  Along(row, row')
  <1>r. /\ row \in [Jobs -> LocalRowSet]
        /\ \A p \in Pids : proc[p] \in ProcSet /\ ProcGood(proc[p])
    BY Fields DEF TypeInv, RowsTyped
  <1>v. CaseVerdicts \subseteq TERMINAL_STATUSES /\ {"error", "cancelled"} \subseteq TERMINAL_STATUSES
    BY DEF CaseVerdicts, TERMINAL_STATUSES
  <1>1. CASE row' = row
    BY <1>1 DEF Along
  <1>2. CASE row' = CancelPending(row)
    <2>1. 1 \in Jobs
      BY SizesAssumption DEF Jobs
    <2> QED
      BY <1>2, <1>r, <2>1, LedgerEdges
  <1>3. ASSUME NEW p \in Pids,
               \/ proc[p].pc = "claim" /\ row' = Running(row, Case(p))
               \/ proc[p].pc = "claim" /\ row' = Ended(row, Case(p), "error")
               \/ proc[p].pc = "finish" /\ row' = Ended(row, Case(p), proc[p].verdict)
               \/ /\ proc[p].pc \in {"on_start", "communicate"}
                  /\ row' = SetPid(row, Case(p), p)
        PROVE  Along(row, row')
    <2>1. Case(p) \in Jobs
      BY <1>3, <1>r DEF ProcGood, Case
    <2>2. proc[p].pc = "finish" => proc[p].verdict \in TERMINAL_STATUSES
      BY <1>r, <1>v DEF ProcGood
    <2> QED
      BY <1>3, <2>1, <2>2, <1>r, <1>v, LedgerEdges
  <1>4. ASSUME NEW c \in Coords, NEW j \in Jobs,
               \/ row' = Ended(row, j, "error")
               \/ row' = SetWrapperPid(row, j, coord[c].procs[j])
               \/ row' = Requeued(row, j)
               \/ row' = Ended(row, j, "cancelled")
        PROVE  Along(row, row')
    BY <1>4, <1>r, <1>v, LedgerEdges
  <1> QED
    BY <1>1, <1>2, <1>3, <1>4, Statements DEF OneStatement

(* A row that has ended keeps its status. *)
LEMMA EndedForGood ==
  ASSUME TypeInv, [Next]_vars, NEW j \in Jobs, row[j].status \in TERMINAL_STATUSES
  PROVE  row'[j].status = row[j].status
  BY RowsAlong DEF Along, OPEN_STATUSES, ACTIVE_STATUSES, TERMINAL_STATUSES

(* Once every row is terminal, a verdict that was read stays the right one. *)
LEMMA VerdictStays ==
  ASSUME TypeInv, TypeInv', [Next]_vars, AllTerminal(row)
  PROVE  AllTerminal(row') /\ Verdict(row') = Verdict(row)
  <1>1. row \in [Jobs -> LocalRowSet] /\ row' \in [Jobs -> LocalRowSet]
    BY DEF TypeInv, RowsTyped
  <1>2. \A j \in Jobs : row'[j].status = row[j].status /\ Terminal(row, j)
    BY <1>1, EndedForGood DEF AllTerminal, Terminal
  <1>3. WithStatus(row', BAD_STATUSES) = WithStatus(row, BAD_STATUSES)
    BY <1>1, <1>2 DEF WithStatus
  <1> QED
    BY <1>1, <1>2, <1>3 DEF AllTerminal, Terminal, Verdict

-----------------------------------------------------------------------------
(* The verdict of a run is true.  The invariant speaks of the verdict that  *)
(* was written and of those that were read and are yet to be written.       *)

True(pc) == pc \in RunVerdicts => AllTerminal(row) /\ pc = Verdict(row)

VerdictInv ==
  /\ True(run)
  /\ \A p \in Pids : True(proc[p].pc)
  /\ \A c \in Coords : True(coord[c].pc)

LEMMA VerdictStep ==
  ASSUME TypeInv, TypeInv', VerdictInv, [Next]_vars
  PROVE  VerdictInv'
  <1>n. ASSUME NEW pc, pc \in RunVerdicts => AllTerminal(row) /\ pc = Verdict(row)
        PROVE  pc \in RunVerdicts => AllTerminal(row') /\ pc = Verdict(row')
    BY <1>n, VerdictStays
  <1>1. True(run)'
    <2>1. run' \in RunVerdicts => AllTerminal(row) /\ run' = Verdict(row)
      BY RunMoves DEF VerdictInv, True, RunVerdicts
    <2> QED
      BY <1>n, <2>1 DEF True
  <1>2. ASSUME NEW q \in Pids
        PROVE  True(proc[q].pc)'
    <2>1. proc'[q].pc \in RunVerdicts => AllTerminal(row) /\ proc'[q].pc = Verdict(row)
      <3>g. /\ proc[q] \in ProcSet /\ Moves(q) /\ proc \in [Pids -> ProcSet]
            /\ proc[q].pc \in RunVerdicts => AllTerminal(row) /\ proc[q].pc = Verdict(row)
        BY AllMoves, Fields DEF VerdictInv, True, TypeInv, ProcsTyped
      <3>1. CASE Launching(q)
        BY <3>1, <3>g DEF Launching, ProcSet, RunVerdicts
      <3>2. CASE Signalled(proc[q], proc'[q])
        BY <3>2, <3>g DEF Signalled, RunVerdicts
      <3>3. CASE Working(proc[q], proc'[q])
        BY <3>3, <3>g DEF Working, ProcSet, RunVerdicts
      <3> QED
        BY <3>1, <3>2, <3>3, <3>g DEF Moves
    <2> QED
      BY <1>n, <2>1 DEF True
  <1>3. ASSUME NEW d \in Coords
        PROVE  True(coord[d].pc)'
    <2>1. coord'[d].pc \in RunVerdicts => AllTerminal(row) /\ coord'[d].pc = Verdict(row)
      <3>1. CASE CommandsFine
        BY <3>1 DEF CommandsFine, Fine, VerdictInv, True
      <3>2. ASSUME NEW q \in Pids, Launching(q)
            PROVE  coord'[d].pc \in RunVerdicts => coord'[d].pc = coord[d].pc
        BY <3>2 DEF Launching, TypeInv, CoordsTyped, CoordSet, RunVerdicts
      <3> QED
        BY <3>1, <3>2, AllCommandsFine DEF VerdictInv, True
    <2> QED
      BY <1>n, <2>1 DEF True
  <1> QED
    BY <1>1, <1>2, <1>3 DEF VerdictInv

LEMMA InitialVerdicts == Init => VerdictInv
  <1>1. ASSUME Init
        PROVE  /\ run \notin RunVerdicts
               /\ \A p \in Pids : proc[p].pc \notin RunVerdicts
               /\ \A c \in Coords : coord[c].pc \notin RunVerdicts
    BY <1>1 DEF Init, NoProc, NoCoord, RunVerdicts
  <1> QED
    BY <1>1 DEF VerdictInv, True

(* A run that says it is complete is complete, and says truly whether a     *)
(* case ended badly: the wrappers and the scheduler read the rows in one    *)
(* transaction and write the verdict in another, and any of them may be     *)
(* killed, resumed or cancelled in between.                                 *)
THEOREM LocalVerdict == Spec => []VerdictIsTrue
  <1>1. Init => TypeInv /\ VerdictInv
    BY InitialTypes, InitialVerdicts
  <1>2. TypeInv /\ VerdictInv /\ [Next]_vars => TypeInv' /\ VerdictInv'
    BY NextTypes, VerdictStep
  <1>3. VerdictInv => VerdictIsTrue
    BY DEF VerdictInv, True, VerdictIsTrue
  <1> QED
    BY <1>1, <1>2, <1>3, PTL DEF Spec

-----------------------------------------------------------------------------
(* Refinement *)

LEMMA SameWords ==
  /\ Life!TERMINAL_STATUSES = TERMINAL_STATUSES /\ Life!BAD_STATUSES = BAD_STATUSES
  /\ Life!OPEN_STATUSES = OPEN_STATUSES /\ Life!Statuses = Statuses
  BY DEF Life!TERMINAL_STATUSES, TERMINAL_STATUSES, Life!BAD_STATUSES, BAD_STATUSES,
         Life!OPEN_STATUSES, OPEN_STATUSES, Life!Statuses, Statuses,
         Life!ACTIVE_STATUSES, ACTIVE_STATUSES

LEMMA LifeStep ==
  ASSUME TypeInv, TypeInv', VerdictInv, [Next]_vars
  PROVE  [Life!Next]_Life!vars
  <1> DEFINE status == [j \in Jobs |-> row[j].status]
  <1>r. row \in [Jobs -> LocalRowSet] /\ row' \in [Jobs -> LocalRowSet]
    BY DEF TypeInv, RowsTyped
  <1>1. CASE run' = run
    <2>1. status' \in [Jobs -> Statuses]
      BY <1>r DEF LocalRowSet
    <2>2. Life!Move
      BY <1>1, <2>1, RowsAlong, SameWords DEF Along, Life!Move
    <2> QED
      BY <2>2 DEF Life!Next
  <1>2. CASE UNCHANGED row /\ run' \in {"running", "cancelled"}
    BY <1>2 DEF Life!Next, Life!Restart, Life!Cancel
  <1>3. CASE /\ UNCHANGED row /\ run' \in RunVerdicts
             /\ \/ \E p \in Pids : run' = proc[p].pc
                \/ \E c \in Coords : run' = coord[c].pc
    <2>1. AllTerminal(row) /\ run' = Verdict(row)
      BY <1>3 DEF VerdictInv, True
    <2>2. \A j \in Jobs : row[j].status \in TERMINAL_STATUSES
      BY <2>1, <1>r DEF AllTerminal, Terminal
    <2>3. WithStatus(row, BAD_STATUSES) = {} <=> ~\E j \in Jobs : row[j].status \in BAD_STATUSES
      BY <1>r DEF WithStatus
    <2>4. Life!Conclude
      BY <1>3, <2>1, <2>2, <2>3, SameWords DEF Life!Conclude, Verdict
    <2> QED
      BY <2>4 DEF Life!Next
  <1> QED
    BY <1>1, <1>2, <1>3, RunMoves

(* The rows and the run of LocalPool behave as JobLife allows, as those of  *)
(* SlurmChain do: a case moves along its edges only, one that has ended     *)
(* never changes again, and the verdict comes when all have ended.          *)
THEOREM LocalRefinement == Spec => LifeSpec
  <1>1. Init => TypeInv /\ VerdictInv
    BY InitialTypes, InitialVerdicts
  <1>2. TypeInv /\ VerdictInv /\ [Next]_vars => TypeInv' /\ VerdictInv'
    BY NextTypes, VerdictStep
  <1>3. Init => Life!Init
    BY DEF Init, LocalRow, Life!Init
  <1>4. TypeInv /\ TypeInv' /\ VerdictInv /\ [Next]_vars => [Life!Next]_Life!vars
    BY LifeStep
  <1> QED
    BY <1>1, <1>2, <1>3, <1>4, PTL DEF Spec, LifeSpec, Life!Spec

-----------------------------------------------------------------------------
(* A case that was launched once *)

Sole(p) == Launches(Case(p)) = {p}

(* Where a wrapper has not said yet how its case ended. *)
BusyPcs == {"read", "claim", "spawn", "on_start", "communicate", "finish"}

UntouchedRows ==
  \A j \in Jobs : Launches(j) = {} => row[j].status \in {"pending", "cancelled"}
OwnRow ==
  \A p \in Pids : proc[p].pc \in BusyPcs /\ Sole(p)
                    => row[Case(p)].status \in OPEN_STATUSES \union {"cancelled"}
ChildWatched ==
  \A p \in Pids : proc[p].child = "running"
                    => proc[p].pc \in {"on_start", "communicate", "exited"}

SoleInv == UntouchedRows /\ OwnRow /\ ChildWatched /\ SuccessIsKept

-----------------------------------------------------------------------------
(* A run scheduled by one process *)

SubmitPcs == {"begin", "start", "list", "launch", "launched", "reap", "finalize"}
               \union RunVerdicts
CancelPcs == {"cancel_pending", "cancel_scan", "cancel_kill", "cancel_mark"}

AtWork == coord[Submitter].pc \in SubmitPcs
Handle(j) == coord[Submitter].procs[j]

OneScheduler ==
  \A c \in Coords : \/ coord[c].pc \in {"idle"} \union CancelPcs
                    \/ c = Submitter /\ AtWork
EndsWhenDone ==
  /\ ~AtWork => AllTerminal(row) /\ run \in RunVerdicts \union {"cancelled"}
  /\ coord[Submitter].pc \in {"finalize"} \union RunVerdicts => AllTerminal(row)
Watched ==
  \A p \in Pids : proc[p].pc # "free" /\ row[Case(p)].status \in OPEN_STATUSES
                    => Handle(Case(p)) \in Pids
RowsSeen ==
  \A j \in Jobs : /\ row[j].status \in {"pending", "running"} \union TERMINAL_STATUSES
                  /\ row[j].status = "running" => \E p \in Pids : proc[p].job = j

(* The wrapper has the claim of its case, or its child still runs. *)
Claimed(p) == \/ proc[p].pc \in {"spawn", "on_start", "communicate", "finish"}
              \/ proc[p].child = "running"
OneClaim ==
  \A p \in Pids : Claimed(p) =>
    /\ row[Case(p)].status \notin RunnableStatuses
    /\ \A q \in Pids : Claimed(q) /\ Case(q) = Case(p) => p = q

CancelSeen ==
  \A c \in Coords :
    /\ coord[c].pc = "cancel_scan" => \A j \in Jobs : row[j].status # "pending"
    /\ coord[c].pc \in {"cancel_kill", "cancel_mark"}
         => \A j \in Jobs : row[j].status \in OPEN_STATUSES => j \in coord[c].todo

AloneInv ==
  OneScheduler /\ EndsWhenDone /\ Watched /\ RowsSeen /\ OneClaim /\ CancelSeen
    /\ CancelEndsEveryCase

(* The window *)
Busy == {j \in Jobs : \E p \in Pids : proc[p].job = j /\ Alive(p)}
WindowInv ==
  /\ Cardinality(Tracked(Submitter)) <= K
  /\ LaunchedOnce =>
       /\ AtWork => \A p \in Pids : Alive(p) => Handle(Case(p)) = p
       /\ Cardinality(Busy) <= K

-----------------------------------------------------------------------------
(* What a step may do to the status of a row, and who does it *)

StatusMoves(j) ==
  \/ row'[j].status = row[j].status
  \/ /\ row[j].status \in RunnableStatuses /\ row'[j].status = "running"
     /\ \E p \in Pids : Case(p) = j /\ proc[p].pc = "claim"
  \/ /\ row[j].status \in OPEN_STATUSES
     /\ \/ row'[j].status = "cancelled"
        \/ row'[j].status = "pending" /\ \E c \in Coords : coord[c].pc = "requeue"
        \/ /\ row'[j].status \in TERMINAL_STATUSES
           /\ \/ Faults \cap {"fork", "locked"} # {}
              \/ \E p \in Pids : /\ Case(p) = j
                                 /\ proc[p].pc \in {"claim", "finish"} /\ Goto(p, "finalize")
              \/ \E c \in Coords : coord[c].procs[j] \in Pids /\ ~Alive(coord[c].procs[j])

LEMMA AllStatusMoves ==
  ASSUME TypeInv, [Next]_vars, NEW m \in Jobs
  PROVE  StatusMoves(m)
  <1>r. /\ row \in [Jobs -> LocalRowSet]
        /\ \A p \in Pids : proc[p] \in ProcSet /\ ProcGood(proc[p])
    BY Fields DEF TypeInv, RowsTyped
  <1>1. CASE row' = row
    BY <1>1 DEF StatusMoves
  <1>2. CASE row' = CancelPending(row)
    BY <1>2, <1>r, LedgerStatus DEF StatusMoves, OPEN_STATUSES
  <1>3. ASSUME NEW p \in Pids,
               \/ proc[p].pc = "claim" /\ row' = Running(row, Case(p))
               \/ /\ proc[p].pc = "claim" /\ Goto(p, "finalize")
                  /\ row' = Ended(row, Case(p), "error")
               \/ /\ proc[p].pc = "finish" /\ Goto(p, "finalize")
                  /\ row' = Ended(row, Case(p), proc[p].verdict)
               \/ /\ proc[p].pc \in {"on_start", "communicate"}
                  /\ row' = SetPid(row, Case(p), p)
        PROVE  StatusMoves(m)
    <2>1. Case(p) \in Jobs
      BY <1>3, <1>r DEF ProcGood, Case
    <2>2. proc[p].pc = "finish" => proc[p].verdict \in TERMINAL_STATUSES
      BY <1>r DEF ProcGood, CaseVerdicts, TERMINAL_STATUSES
    <2>3. "error" \in TERMINAL_STATUSES
      BY DEF TERMINAL_STATUSES
    <2> QED
      BY <1>3, <2>1, <2>2, <2>3, <1>r, LedgerStatus DEF StatusMoves
  <1>4. ASSUME NEW c \in Coords, NEW j \in Jobs,
               \/ Faults \cap {"fork", "locked"} # {} /\ row' = Ended(row, j, "error")
               \/ row' = SetWrapperPid(row, j, coord[c].procs[j])
               \/ /\ coord[c].procs[j] \in Pids /\ ~Alive(coord[c].procs[j])
                  /\ row' = Ended(row, j, "error")
               \/ coord[c].pc = "requeue" /\ row' = Requeued(row, j)
               \/ row' = Ended(row, j, "cancelled")
        PROVE  StatusMoves(m)
    BY <1>4, <1>r, LedgerStatus DEF StatusMoves, TERMINAL_STATUSES
  <1> QED
    BY <1>1, <1>2, <1>3, <1>4, Statements DEF OneStatement

(* A process that was just started is new, and so is all it knows. *)
LEMMA LaunchingNew ==
  ASSUME TypeInv, NEW p \in Pids, Launching(p)
  PROVE  /\ proc[p].pc = "free" /\ proc[p].job = 0 /\ proc[p].verdict = "none"
         /\ proc'[p].pc = "read" /\ proc'[p].verdict = "none" /\ proc'[p].child = "none"
  <1>1. proc[p] \in ProcSet /\ ProcGood(proc[p]) /\ proc \in [Pids -> ProcSet]
    BY Fields DEF TypeInv, ProcsTyped
  <1>2. PICK j \in Jobs : proc' = [proc EXCEPT ![p].job = j, ![p].pc = "read"]
    BY DEF Launching
  <1>3. proc[p].pc = "free"
    BY DEF Launching
  <1>4. proc[p].job = 0 /\ proc[p].verdict = "none" /\ proc[p].child = "none"
    BY <1>1, <1>3 DEF ProcGood
  <1> QED
    BY <1>1, <1>2, <1>3, <1>4 DEF ProcSet

(* A case gets no launch but by Popen, and loses none. *)
LEMMA LaunchesMove ==
  ASSUME TypeInv, [Next]_vars, NEW p \in Pids, NEW j \in Jobs
  PROVE  /\ proc[p].job = j => proc'[p].job = j /\ ~Launching(p)
         /\ proc'[p].job = j => proc[p].job = j \/ Launching(p)
         /\ Launching(p) => proc'[p].pc = "read" /\ proc[p].verdict = "none"
                            /\ proc'[p].verdict = "none" /\ proc'[p].child = "none"
  <1>1. proc[p] \in ProcSet /\ ProcGood(proc[p]) /\ Moves(p) /\ proc \in [Pids -> ProcSet]
    BY Fields, AllMoves DEF TypeInv, ProcsTyped
  <1>2. j # 0
    BY DEF Jobs
  <1>3. CASE Launching(p)
    BY <1>2, <1>3, LaunchingNew
  <1>4. CASE ~Launching(p)
    BY <1>1, <1>2, <1>4 DEF Moves, Signalled, Working, ProcSet
  <1> QED
    BY <1>3, <1>4

-----------------------------------------------------------------------------
(* SoleInv is kept. *)

LEMMA InitialSole == Init => SoleInv
  BY DEF Init, LocalRow, NoProc, SoleInv, UntouchedRows, OwnRow, ChildWatched, SuccessIsKept,
         Reported, BusyPcs, RunVerdicts

(* A case with one launch, which is not the one just made, had it before.   *)
LEMMA SoleBefore ==
  ASSUME TypeInv, [Next]_vars, NEW p \in Pids, NEW j \in Jobs, ~Launching(p),
         proc'[p].job = j, Launches(j)' = {p}
  PROVE  proc[p].job = j /\ Launches(j) = {p}
  BY LaunchesMove DEF Launches

LEMMA SoleStep ==
  ASSUME Faults \cap {"fork", "locked"} = {}, TypeInv, TypeInv', SoleInv, [Next]_vars
  PROVE  SoleInv'
  <1>t. /\ \A p \in Pids : /\ proc[p] \in ProcSet /\ ProcGood(proc[p]) /\ Moves(p)
                           /\ proc'[p] \in ProcSet /\ ProcGood(proc'[p])
        /\ proc \in [Pids -> ProcSet]
    BY Fields, AllMoves DEF TypeInv, ProcsTyped
  <1>j. ASSUME NEW p \in Pids, proc'[p].pc # "free"
        PROVE  proc'[p].job \in Jobs
    BY <1>t, <1>j DEF ProcGood
  <1>h. \A c \in Coords, j \in Jobs :
          coord[c].procs[j] \in Pids => coord[c].procs[j] \in Launches(j)
    BY DEF TypeInv, Handles, Launches
  <1>1. UntouchedRows'
    <2> SUFFICES ASSUME NEW j \in Jobs, Launches(j)' = {}
                 PROVE  row'[j].status \in {"pending", "cancelled"}
      BY DEF UntouchedRows
    <2>1. Launches(j) = {}
      BY LaunchesMove DEF Launches
    <2>2. row[j].status \in {"pending", "cancelled"}
      BY <2>1 DEF SoleInv, UntouchedRows
    <2>3. /\ \A p \in Pids : Case(p) # j
          /\ \A c \in Coords : coord[c].procs[j] \notin Pids
      BY <2>1, <1>h DEF Launches, Case
    <2> QED
      BY <2>2, <2>3, AllStatusMoves DEF StatusMoves
  <1>2. OwnRow'
    <2> SUFFICES ASSUME NEW p \in Pids, NEW j \in Jobs, proc'[p].job = j,
                        proc'[p].pc \in BusyPcs, Launches(j)' = {p}
                 PROVE  row'[j].status \in OPEN_STATUSES \union {"cancelled"}
      BY <1>j DEF OwnRow, Sole, Case, BusyPcs
    <2>1. CASE Launching(p)
      <3>1. Launches(j) = {}
        BY <2>1, LaunchesMove DEF Launches
      <3>2. row[j].status \in {"pending", "cancelled"}
        BY <3>1 DEF SoleInv, UntouchedRows
      <3> QED
        BY <2>1, <3>2 DEF Launching, OPEN_STATUSES
    <2>2. CASE ~Launching(p)
      <3>1. proc[p].job = j /\ Launches(j) = {p}
        BY <2>2, SoleBefore
      <3>2. proc[p].pc \in BusyPcs
        BY <2>2, <1>t DEF Moves, Signalled, Working, BusyPcs, ProcSet, Verdict
      <3>3. row[j].status \in OPEN_STATUSES \union {"cancelled"}
        BY <3>1, <3>2 DEF SoleInv, OwnRow, Sole, Case
      <3>4. /\ \A q \in Pids : Case(q) = j => q = p
            /\ \A c \in Coords : coord[c].procs[j] \in Pids => coord[c].procs[j] = p
        BY <3>1, <1>h DEF Launches, Case
      <3>5. Alive(p) /\ ~Goto(p, "finalize")
        BY <3>2, <1>t DEF Alive, BusyPcs, Goto, ProcSet
      <3>6. {"pending", "running"} \subseteq OPEN_STATUSES
        BY DEF OPEN_STATUSES, ACTIVE_STATUSES
      <3> QED
        BY <3>3, <3>4, <3>5, <3>6, AllStatusMoves DEF StatusMoves
    <2> QED
      BY <2>1, <2>2
  <1>3. ChildWatched'
    <2> SUFFICES ASSUME NEW p \in Pids, proc'[p].child = "running"
                 PROVE  proc'[p].pc \in {"on_start", "communicate", "exited"}
      BY DEF ChildWatched
    <2>1. ~Launching(p)
      BY LaunchingNew
    <2>2. CASE Signalled(proc[p], proc'[p])
      BY <2>2 DEF Signalled, SoleInv, ChildWatched
    <2>3. CASE Working(proc[p], proc'[p])
      BY <2>3, <1>t DEF Working, SoleInv, ChildWatched, ProcSet, ProcGood
    <2> QED
      BY <2>1, <2>2, <2>3, <1>t DEF Moves
  <1>4. SuccessIsKept'
    <2> SUFFICES ASSUME NEW p \in Pids, NEW j \in Jobs, proc'[p].job = j,
                        Reported(p)', Launches(j)' = {p}
                 PROVE  row'[j].status \in {"success", "cancelled"}
      BY <1>j DEF SuccessIsKept, Case, Reported, RunVerdicts
    <2>1. ~Launching(p)
      BY LaunchesMove DEF Reported
    <2>2. proc[p].job = j /\ Launches(j) = {p}
      BY <2>1, SoleBefore
    <2>3. CASE Reported(p)
      <3>1. row[j].status \in {"success", "cancelled"}
        BY <2>2, <2>3 DEF SoleInv, SuccessIsKept, Case
      <3> QED
        BY <3>1, EndedForGood DEF TERMINAL_STATUSES
    <2>4. CASE ~Reported(p)
      <3>1. /\ proc[p].pc = "finish" /\ proc[p].verdict = "success"
            /\ row' = Ended(row, j, "success")
        <4>1. CASE Signalled(proc[p], proc'[p])
          BY <4>1, <2>4 DEF Signalled, Reported, RunVerdicts
        <4>2. CASE Working(proc[p], proc'[p])
          <5>1. proc'[p].pc \in {"finalize"} \union RunVerdicts
            BY DEF Reported
          <5>2. proc[p].pc \in {"claim", "finish", "finalize"}
            BY <4>2, <5>1, <1>t DEF Working, ProcSet, RunVerdicts
          <5>3. proc'[p].verdict = proc[p].verdict /\ proc'[p].verdict = "success"
            BY <4>2, <5>2, <1>t DEF Working, ProcSet, Reported
          <5>4. proc[p].pc = "finish"
            BY <5>2, <5>3, <2>4, <1>t DEF Reported, ProcGood
          <5> QED
            BY <5>3, <5>4, <4>2, <2>2 DEF Working
        <4> QED
          BY <4>1, <4>2, <2>1, <1>t DEF Moves
      <3>2. row[j].status \in OPEN_STATUSES \union {"cancelled"}
        BY <2>2, <3>1 DEF SoleInv, OwnRow, Sole, Case, BusyPcs
      <3> QED
        BY <3>1, <3>2, LedgerStatus DEF TypeInv, RowsTyped
    <2> QED
      BY <2>3, <2>4
  <1> QED
    BY <1>1, <1>2, <1>3, <1>4 DEF SoleInv

(* A success that a wrapper has reported stays a success in the ledger,     *)
(* unless the case was cancelled, whatever is killed, crashes, is resumed   *)
(* by force or started again late: provided the case was launched once, a   *)
(* process could be started and the id of it written.  When one of the two  *)
(* fails, the scheduler ends a row whose wrapper may be at work.            *)
THEOREM LocalSuccess ==
  ASSUME Faults \cap {"fork", "locked"} = {}
  PROVE  Spec => []SuccessIsKept
  <1>1. Init => TypeInv /\ SoleInv
    BY InitialTypes, InitialSole
  <1>2. TypeInv /\ SoleInv /\ [Next]_vars => TypeInv' /\ SoleInv'
    BY NextTypes, SoleStep
  <1>3. SoleInv => SuccessIsKept
    BY DEF SoleInv
  <1> QED
    BY <1>1, <1>2, <1>3, PTL DEF Spec

LEMMA FinitePids == IsFiniteSet(Pids)
  BY SizesAssumption, FS_Interval DEF Pids

LEMMA AtMostOne ==
  ASSUME NEW S, IsFiniteSet(S), NEW p \in S, NEW q \in S, Cardinality(S) <= 1
  PROVE  p = q
  <1> SUFFICES ASSUME p # q PROVE FALSE
    OBVIOUS
  <1>1. {p} \subseteq S /\ {p} # S
    OBVIOUS
  <1>2. Cardinality({p}) = 1 /\ Cardinality(S) \in Nat
    BY FS_Singleton, FS_CardinalityType
  <1>3. /\ Cardinality({p}) <= Cardinality(S)
        /\ Cardinality({p}) = Cardinality(S) => {p} = S
    BY <1>1, FS_Subset
  <1> QED
    BY <1>1, <1>2, <1>3

LEMMA Several ==
  ASSUME NEW j \in Jobs, NEW p \in Launches(j), Launches(j) # {p}
  PROVE  Cardinality(Launches(j)) > 1
  <1>1. IsFiniteSet(Launches(j)) /\ Cardinality(Launches(j)) \in Nat
    BY FinitePids, FS_Subset, FS_CardinalityType DEF Launches
  <1>2. PICK q \in Launches(j) : q # p
    OBVIOUS
  <1> QED
    BY <1>1, <1>2, AtMostOne

LEMMA QuietWhenFinished == TypeInv /\ VerdictInv /\ SoleInv => FinishedIsQuiet
  <1> SUFFICES ASSUME TypeInv, VerdictInv, SoleInv, run \in RunVerdicts,
                      NEW j \in Jobs, NEW p \in Attended(j), Launches(j) = {p}
               PROVE  row[j].status = "cancelled"
    BY Several DEF FinishedIsQuiet, Attended, Children
  <1>1. p \in Pids /\ proc[p].job = j /\ proc[p].pc \in {"on_start", "communicate"}
    BY DEF Attended, Children, Launches, Alive, SoleInv, ChildWatched
  <1>2. row[j].status \in OPEN_STATUSES \union {"cancelled"}
    BY <1>1 DEF SoleInv, OwnRow, Sole, Case, BusyPcs
  <1>3. row[j].status \in TERMINAL_STATUSES
    BY DEF VerdictInv, True, AllTerminal, Terminal, TypeInv, RowsTyped
  <1> QED
    BY <1>2, <1>3 DEF OPEN_STATUSES, ACTIVE_STATUSES, TERMINAL_STATUSES

(* A run with a verdict has no case running but orphans, cases that were    *)
(* cancelled and cases launched again: the wrapper of a case launched once  *)
(* ends its row after its child.  Ruled out as before: a process that       *)
(* cannot be started, an id that cannot be written.                         *)
THEOREM LocalQuiet ==
  ASSUME Faults \cap {"fork", "locked"} = {}
  PROVE  Spec => []FinishedIsQuiet
  <1>1. Init => TypeInv /\ VerdictInv /\ SoleInv
    BY InitialTypes, InitialVerdicts, InitialSole
  <1>2. TypeInv /\ VerdictInv /\ SoleInv /\ [Next]_vars => TypeInv' /\ VerdictInv' /\ SoleInv'
    BY NextTypes, VerdictStep, SoleStep
  <1> QED
    BY <1>1, <1>2, QuietWhenFinished, PTL DEF Spec

-----------------------------------------------------------------------------
(* AloneInv is kept as long as nothing can start a second scheduler.        *)

Alone == Faults \cap {"crash", "interrupt", "resume", "force"} = {}

EndPcs == {"finalize"} \union RunVerdicts

(* What the scheduler may do ... *)
SubmitStep ==
  LET s == coord[Submitter]
      r == coord'[Submitter]
  IN  /\ AtWork
      /\ \A d \in Coords \ {Submitter} : coord'[d] = coord[d]
      /\ \/ /\ s.pc \notin EndPcs /\ r.pc \in SubmitPcs \ EndPcs
            /\ \/ r.procs = s.procs
               \/ \E p \in Pids : Launching(p)
               \/ \E j \in Jobs : /\ s.procs[j] \in Pids /\ ~Alive(s.procs[j])
                                  /\ r.procs = [s.procs EXCEPT ![j] = NoPid]
                                  /\ row' = Ended(row, j, "error") /\ UNCHANGED proc
         \/ /\ r.pc = "finalize" /\ r.procs = s.procs /\ UNCHANGED row
            /\ AllTerminal(row) \/ (Tracked(Submitter) = {} /\ WithStatus(row, {"pending"}) = {})
         \/ s.pc = "finalize" /\ r.pc \in RunVerdicts /\ r.procs = s.procs
         \/ /\ s.pc = "finalize" /\ r = NoCoord /\ UNCHANGED run
            /\ run = "cancelled" \/ ~AllTerminal(row)
         \/ s.pc \in RunVerdicts /\ r = NoCoord /\ run' = s.pc

(* ... and a cancel. *)
CancelStep(c) ==
  LET s == coord[c]
      r == coord'[c]
  IN  /\ s.pc \in {"idle"} \union CancelPcs
      /\ \A d \in Coords \ {c} : coord'[d] = coord[d]
      /\ r.procs = s.procs \/ r.procs = NoPids
      /\ \/ r.pc \in {"idle", "cancel_pending"}
         \/ r.pc = "cancel_scan" /\ row' = CancelPending(row)
         \/ /\ s.pc = "cancel_scan" /\ r.pc = "cancel_kill" /\ UNCHANGED row
            /\ r.todo = WithStatus(row, ACTIVE_STATUSES)
         \/ s.pc = "cancel_kill" /\ r.pc = "cancel_mark" /\ r.todo = s.todo /\ UNCHANGED row
         \/ /\ s.pc = "cancel_mark" /\ r.pc = "cancel_mark"
            /\ \E j \in Jobs : r.todo = s.todo \ {j} /\ row' = Ended(row, j, "cancelled")

LEMMA SetEffect ==
  ASSUME TypeInv, NEW c \in Coords, NEW r, Set(c, r)
  PROVE  coord'[c] = r /\ \A d \in Coords \ {c} : coord'[d] = coord[d]
  BY DEF Set, TypeInv, CoordsTyped

LEMMA SubmitSteps ==
  ASSUME TypeInv, AloneInv, NEW c \in Coords,
         \/ Begin(c) \/ List(c) \/ Launch(c) \/ Launched(c) \/ Poll(c) \/ Reap(c) \/ Turn(c)
         \/ Finalize(c) \/ RecordVerdict(c)
  PROVE  SubmitStep
  <1>c. coord[c] \in CoordSet /\ CoordGood(coord[c]) /\ First(coord[c].todo) \subseteq coord[c].todo
    BY Fields
  <1>s. c = Submitter /\ AtWork
    <2>1. coord[c].pc \notin {"idle"} \union CancelPcs
      BY DEF Begin, List, Launch, Launched, Poll, Reap, Turn, Finalize, RecordVerdict, At,
             CancelPcs, RunVerdicts
    <2> QED
      BY <2>1 DEF AloneInv, OneScheduler
  <1>p. ASSUME NEW r, Set(c, r), r.procs = coord[c].procs, r.pc \in SubmitPcs \ EndPcs,
               coord[c].pc \notin EndPcs
        PROVE  SubmitStep
    BY <1>p, <1>s, SetEffect DEF SubmitStep
  <1>m. ASSUME NEW pc, Move(c, pc)
        PROVE  /\ coord'[c].pc = pc /\ coord'[c].procs = coord[c].procs
               /\ \A d \in Coords \ {c} : coord'[d] = coord[d]
    BY <1>m, <1>c, SetEffect DEF Move, CoordSet
  <1>1. CASE Begin(c)
    <2>1. \E pc \in {"start", "list"} : Move(c, pc)
      BY <1>1 DEF Begin
    <2>2. coord[c].pc \in {"begin", "start"}
      BY <1>1 DEF Begin
    <2> QED
      BY <2>1, <2>2, <1>m, <1>s DEF SubmitStep, SubmitPcs, EndPcs, RunVerdicts
  <1>2. CASE List(c)
    <2> DEFINE r == [coord[c] EXCEPT !.pc = "launch",
                                     !.todo = WithStatus(row, {"pending"})]
    <2>1. Set(c, r)
      BY <1>2 DEF List
    <2>2. coord[c].pc = "list"
      BY <1>2 DEF List, At
    <2>3. r.pc = "launch" /\ r.procs = coord[c].procs
      BY <1>c DEF CoordSet
    <2> HIDE DEF r
    <2> QED
      BY <2>1, <2>2, <2>3, <1>p DEF SubmitPcs, EndPcs, RunVerdicts
  <1>3. CASE Launch(c)
    <2>1. coord[c].pc = "launch"
      BY <1>3 DEF Launch, At
    <2>2. CASE \E p \in Pids : Launching(p)
      <3>1. PICK p \in Pids : Launching(p)
        BY <2>2
      <3>2. PICK d \in Coords, j \in Jobs :
              /\ coord[d].pc = "launch"
              /\ coord' = [coord EXCEPT ![d] =
                      [coord[d] EXCEPT !.pc = "launched", !.job = j, !.procs[j] = p,
                                       !.todo = coord[d].todo \ {j}]]
        BY <3>1 DEF Launching
      <3>3. d = Submitter
        BY <3>2 DEF AloneInv, OneScheduler, CancelPcs
      <3>4. coord'[Submitter].pc = "launched"
        BY <3>2, <3>3, <1>c, <1>s DEF TypeInv, CoordsTyped, CoordSet
      <3>5. \A x \in Coords \ {Submitter} : coord'[x] = coord[x]
        BY <3>2, <3>3 DEF TypeInv, CoordsTyped
      <3> QED
        BY <3>1, <3>4, <3>5, <2>1, <1>s DEF SubmitStep, SubmitPcs, EndPcs, RunVerdicts
    <2>3. CASE \E j : Set(c, [coord[c] EXCEPT !.todo = @ \ {j}])
      <3>1. PICK j : Set(c, [coord[c] EXCEPT !.todo = coord[c].todo \ {j}])
        BY <2>3, <1>c DEF CoordSet
      <3> DEFINE r == [coord[c] EXCEPT !.todo = coord[c].todo \ {j}]
      <3>2. r.pc = coord[c].pc /\ r.procs = coord[c].procs /\ Set(c, r)
        BY <3>1, <1>c DEF CoordSet
      <3> HIDE DEF r
      <3> QED
        BY <3>2, <2>1, <1>p DEF SubmitPcs, EndPcs, RunVerdicts
    <2>4. ASSUME NEW j \in First(coord[c].todo), NEW p \in FreshPid,
                 proc' = [proc EXCEPT ![p].job = j, ![p].pc = "read"],
                 Set(c, [coord[c] EXCEPT !.pc = "launched", !.job = j, !.procs[j] = p,
                                         !.todo = @ \ {j}]),
                 UNCHANGED <<row, budget>>
          PROVE  \E q \in Pids : Launching(q)
      <3>1. coord' = [coord EXCEPT ![c] =
                        [coord[c] EXCEPT !.pc = "launched", !.job = j, !.procs[j] = p,
                                         !.todo = coord[c].todo \ {j}]]
        BY <2>4, <1>c DEF Set, CoordSet
      <3>2. j \in Jobs /\ p \in Pids /\ proc[p].pc = "free"
        BY <1>c DEF CoordSet, First, FreshPid
      <3>3. Cardinality(Tracked(c)) < K
        BY <1>3 DEF Launch
      <3> QED
        BY <2>1, <2>4, <3>1, <3>2, <3>3 DEF Launching
    <2> QED
      BY <1>3, <2>2, <2>3, <2>4 DEF Launch
  <1>4. CASE Launched(c)
    <2> DEFINE r == [coord[c] EXCEPT !.pc = "launch", !.job = 0]
    <2>1. Set(c, r) /\ coord[c].pc = "launched"
      BY <1>4 DEF Launched, At
    <2>2. r.pc = "launch" /\ r.procs = coord[c].procs
      BY <1>c DEF CoordSet
    <2> HIDE DEF r
    <2> QED
      BY <2>1, <2>2, <1>p DEF SubmitPcs, EndPcs, RunVerdicts
  <1>5. CASE Poll(c)
    <2> DEFINE r == [coord[c] EXCEPT !.pc = "reap", !.todo = Tracked(c)]
    <2>1. Set(c, r) /\ coord[c].pc = "launch"
      BY <1>5 DEF Poll, At
    <2>2. r.pc = "reap" /\ r.procs = coord[c].procs
      BY <1>c DEF CoordSet
    <2> HIDE DEF r
    <2> QED
      BY <2>1, <2>2, <1>p DEF SubmitPcs, EndPcs, RunVerdicts
  <1>6. CASE Reap(c)
    <2>1. coord[c].pc = "reap"
      BY <1>6 DEF Reap, At
    <2>2. PICK j \in First(coord[c].todo) :
            \/ Set(c, [coord[c] EXCEPT !.todo = @ \ {j}])
            \/ /\ ~Alive(coord[c].procs[j]) /\ row' = Ended(row, j, "error")
               /\ Set(c, [coord[c] EXCEPT !.procs[j] = NoPid, !.todo = @ \ {j}])
      BY <1>6 DEF Reap
    <2>3. CASE Set(c, [coord[c] EXCEPT !.todo = @ \ {j}])
      <3>1. Set(c, [coord[c] EXCEPT !.todo = coord[c].todo \ {j}])
        BY <2>3, <1>c DEF CoordSet
      <3> DEFINE r == [coord[c] EXCEPT !.todo = coord[c].todo \ {j}]
      <3>2. r.pc = coord[c].pc /\ r.procs = coord[c].procs /\ Set(c, r)
        BY <3>1, <1>c DEF CoordSet
      <3> HIDE DEF r
      <3> QED
        BY <3>2, <2>1, <1>p DEF SubmitPcs, EndPcs, RunVerdicts
    <2>4. CASE /\ ~Alive(coord[c].procs[j]) /\ row' = Ended(row, j, "error")
               /\ Set(c, [coord[c] EXCEPT !.procs[j] = NoPid, !.todo = @ \ {j}])
      <3> DEFINE r == [coord[c] EXCEPT !.procs[j] = NoPid, !.todo = @ \ {j}]
      <3>0. /\ r.pc = "reap" /\ r.procs = [coord[c].procs EXCEPT ![j] = NoPid]
            /\ Set(c, r)
        BY <2>1, <2>4, <1>c DEF CoordSet
      <3> HIDE DEF r
      <3>1. /\ coord'[c].pc = "reap"
            /\ coord'[c].procs = [coord[c].procs EXCEPT ![j] = NoPid]
            /\ \A d \in Coords \ {c} : coord'[d] = coord[d]
        BY <3>0, SetEffect
      <3>2. j \in Jobs /\ coord[c].procs[j] \in Pids
        BY <2>1, <1>c DEF CoordGood, CoordSet
      <3>3. UNCHANGED proc
        BY <1>6 DEF Reap
      <3> QED
        BY <2>1, <2>4, <3>1, <3>2, <3>3, <1>s
           DEF SubmitStep, SubmitPcs, EndPcs, RunVerdicts
    <2> QED
      BY <2>2, <2>3, <2>4
  <1>7. CASE Turn(c)
    <2>1. /\ coord[c].pc = "reap" /\ UNCHANGED row
          /\ \/ Move(c, "list")
             \/ /\ Move(c, "finalize")
                /\ \/ AllTerminal(row)
                   \/ Tracked(c) = {} /\ WithStatus(row, {"pending"}) = {}
      BY <1>7 DEF Turn, At
    <2> QED
      BY <2>1, <1>m, <1>s DEF SubmitStep, SubmitPcs, EndPcs, RunVerdicts
  <1>8. CASE Finalize(c)
    <2>1. Verdict(row) \in RunVerdicts
      BY DEF Verdict, RunVerdicts
    <2>2. CASE Move(c, Verdict(row))
      BY <1>8, <2>1, <2>2, <1>m, <1>s DEF Finalize, At, SubmitStep
    <2>3. CASE Quit(c) /\ ~(run # "cancelled" /\ AllTerminal(row))
      BY <1>8, <2>3, <1>s, SetEffect DEF Finalize, At, SubmitStep, Quit
    <2> QED
      BY <1>8, <2>2, <2>3 DEF Finalize
  <1>9. CASE RecordVerdict(c)
    BY <1>9, <1>s, SetEffect DEF RecordVerdict, SubmitStep, Quit
  <1> QED
    BY <1>1, <1>2, <1>3, <1>4, <1>5, <1>6, <1>7, <1>8, <1>9

LEMMA CancelSteps ==
  ASSUME TypeInv, NEW c \in Coords,
         \/ CancelRows(c) \/ CancelScan(c) \/ CancelKill(c) \/ CancelMark(c) \/ CancelEnd(c)
         \/ StartCancel(c)
  PROVE  CancelStep(c)
  <1>c. coord[c] \in CoordSet /\ First(coord[c].todo) \subseteq Jobs
    BY Fields
  <1>m. ASSUME NEW pc, Move(c, pc)
        PROVE  /\ coord'[c].pc = pc /\ coord'[c].procs = coord[c].procs
               /\ coord'[c].todo = coord[c].todo
               /\ \A d \in Coords \ {c} : coord'[d] = coord[d]
    BY <1>m, <1>c, SetEffect DEF Move, CoordSet
  <1>1. CASE CancelRows(c)
    BY <1>1, <1>m DEF CancelRows, At, CancelStep, CancelPcs
  <1>2. CASE CancelScan(c)
    <2>1. /\ coord'[c].pc = "cancel_kill" /\ coord'[c].procs = coord[c].procs
          /\ coord'[c].todo = WithStatus(row, ACTIVE_STATUSES)
      <3>1. PICK wrappers, children :
              Set(c, [coord[c] EXCEPT !.pc = "cancel_kill",
                                      !.todo = WithStatus(row, ACTIVE_STATUSES),
                                      !.wrapper_pid = wrappers, !.pid = children])
        BY <1>2 DEF CancelScan, ScanTo
      <3> DEFINE r == [coord[c] EXCEPT !.pc = "cancel_kill",
                                       !.todo = WithStatus(row, ACTIVE_STATUSES),
                                       !.wrapper_pid = wrappers, !.pid = children]
      <3>2. /\ r.pc = "cancel_kill" /\ r.procs = coord[c].procs
            /\ r.todo = WithStatus(row, ACTIVE_STATUSES) /\ Set(c, r)
        BY <3>1, <1>c DEF CoordSet
      <3> HIDE DEF r
      <3> QED
        BY <3>2, SetEffect
    <2>2. \A d \in Coords \ {c} : coord'[d] = coord[d]
      BY <1>2, SetEffect DEF CancelScan, ScanTo
    <2> QED
      BY <1>2, <2>1, <2>2 DEF CancelScan, At, CancelStep, CancelPcs
  <1>3. CASE CancelKill(c)
    BY <1>3, <1>m DEF CancelKill, At, CancelStep, CancelPcs
  <1>4. CASE CancelMark(c)
    <2>1. PICK j \in First(coord[c].todo) :
            row' = Ended(row, j, "cancelled") /\ Set(c, [coord[c] EXCEPT !.todo = @ \ {j}])
      BY <1>4 DEF CancelMark
    <2>2. /\ coord'[c].pc = coord[c].pc /\ coord'[c].procs = coord[c].procs
          /\ coord'[c].todo = coord[c].todo \ {j}
          /\ \A d \in Coords \ {c} : coord'[d] = coord[d]
      BY <2>1, <1>c, SetEffect DEF CoordSet
    <2> QED
      BY <1>4, <1>c, <2>1, <2>2 DEF CancelMark, At, CancelStep, CancelPcs
  <1>5. CASE CancelEnd(c)
    <2>1. NoCoord.pc = "idle" /\ NoCoord.procs = NoPids
      BY DEF NoCoord
    <2> QED
      BY <1>5, <2>1, SetEffect DEF CancelEnd, Quit, At, CancelStep, CancelPcs
  <1>6. CASE StartCancel(c)
    <2>1. /\ [NoCoord EXCEPT !.op = "cancel", !.pc = "cancel_pending"].pc = "cancel_pending"
          /\ [NoCoord EXCEPT !.op = "cancel", !.pc = "cancel_pending"].procs = NoPids
      BY DEF NoCoord
    <2> QED
      BY <1>6, <2>1, SetEffect DEF StartCancel, At, CancelStep, CancelPcs
  <1> QED
    BY <1>1, <1>2, <1>3, <1>4, <1>5, <1>6

(* Nothing else moves a command: a run is not resumed once the scheduler    *)
(* is gone, for it has its verdict or was cancelled.                        *)
LEMMA AloneSteps ==
  ASSUME Alone, TypeInv, AloneInv, [Next]_vars
  PROVE  UNCHANGED coord \/ SubmitStep \/ \E c \in Coords : CancelStep(c)
  <1>p. \A c \in Coords : coord[c].pc \in SubmitPcs \union {"idle"} \union CancelPcs
    BY DEF AloneInv, OneScheduler, AtWork
  <1>1. ASSUME NEW c \in Coords, Coordinator(c)
        PROVE  SubmitStep \/ CancelStep(c)
    <2>1. ~(Wait(c) \/ Scan(c) \/ Probe(c) \/ Evict(c) \/ Requeue(c))
      BY <1>p DEF Wait, Scan, Probe, Evict, Requeue, At, SubmitPcs, CancelPcs, RunVerdicts
    <2> QED
      BY <1>1, <2>1, SubmitSteps, CancelSteps DEF Coordinator
  <1>2. ASSUME NEW c \in Coords, Interrupt(c) \/ Abandon(c) \/ Crash(c)
        PROVE  FALSE
    BY <1>2 DEF Interrupt, Abandon, Crash, Fault, Alone
  <1>3. ASSUME NEW c \in Coords, StartResume(c)
        PROVE  FALSE
    <2>1. Idle
      BY <1>3 DEF StartResume, Fault, Alone
    <2>2. ~AtWork
      BY <2>1, KindsAssumption DEF Idle, At, AtWork, SubmitPcs, RunVerdicts
    <2> QED
      BY <1>3, <2>2 DEF StartResume, AloneInv, EndsWhenDone
  <1>4. ASSUME NEW p \in Pids, Wrapper(p) \/ Kill(p)
        PROVE  UNCHANGED coord
    BY <1>4 DEF Wrapper, ReadRow, MissingTemplate, BadConfig, ClaimRun, Spawn, OnStart,
       ChildEnds, Communicate, Finish, Conclude, WriteVerdict, Kill
  <1> QED
    BY <1>1, <1>2, <1>3, <1>4, CancelSteps DEF Next, vars

LEMMA InitialAlone == Init => AloneInv
  <1> SUFFICES ASSUME Init PROVE AloneInv
    OBVIOUS
  <1>1. /\ \A c \in Coords : coord[c].pc = IF c = Submitter THEN "begin" ELSE "idle"
        /\ \A p \in Pids : proc[p].pc = "free" /\ proc[p].child = "none"
        /\ \A j \in Jobs : row[j].status = "pending"
        /\ run = "pending"
    BY DEF Init, NoCoord, NoProc, LocalRow
  <1>2. OneScheduler /\ EndsWhenDone
    BY <1>1, KindsAssumption DEF OneScheduler, EndsWhenDone, AtWork, SubmitPcs, RunVerdicts
  <1>3. Watched /\ RowsSeen /\ OneClaim
    BY <1>1 DEF Watched, RowsSeen, OneClaim, Claimed
  <1>4. CancelSeen /\ CancelEndsEveryCase
    BY <1>1 DEF CancelSeen, CancelEndsEveryCase
  <1> QED
    BY <1>2, <1>3, <1>4 DEF AloneInv

(* No row goes back to "pending". *)
LEMMA NoReturn ==
  ASSUME TypeInv, AloneInv, [Next]_vars, NEW j \in Jobs
  PROVE  /\ row'[j].status = row[j].status \/ row'[j].status \in TERMINAL_STATUSES
              \/ (/\ row[j].status \in RunnableStatuses /\ row'[j].status = "running"
                  /\ \E p \in Pids : Case(p) = j /\ proc[p].pc = "claim")
         /\ row'[j].status \in RunnableStatuses => row'[j].status = row[j].status
         /\ row'[j].status \in OPEN_STATUSES => row[j].status \in OPEN_STATUSES
  <1>1. \A c \in Coords : coord[c].pc # "requeue"
    BY DEF AloneInv, OneScheduler, AtWork, SubmitPcs, CancelPcs, RunVerdicts
  <1>2. /\ row'[j].status = row[j].status \/ row'[j].status \in TERMINAL_STATUSES
             \/ (/\ row[j].status \in RunnableStatuses /\ row'[j].status = "running"
                 /\ \E p \in Pids : Case(p) = j /\ proc[p].pc = "claim")
    BY <1>1, AllStatusMoves DEF StatusMoves, TERMINAL_STATUSES
  <1> QED
    BY <1>2 DEF RunnableStatuses, OPEN_STATUSES, ACTIVE_STATUSES, TERMINAL_STATUSES

LEMMA Words ==
  /\ RunnableStatuses \subseteq OPEN_STATUSES /\ OPEN_STATUSES \cap TERMINAL_STATUSES = {}
  /\ Statuses = OPEN_STATUSES \union TERMINAL_STATUSES
  /\ OPEN_STATUSES = {"pending"} \union ACTIVE_STATUSES
  /\ "pending" \in RunnableStatuses /\ "running" \in OPEN_STATUSES \ RunnableStatuses
  /\ "running" \in ACTIVE_STATUSES /\ "cancelled" \in TERMINAL_STATUSES
  BY DEF RunnableStatuses, OPEN_STATUSES, ACTIVE_STATUSES, TERMINAL_STATUSES, Statuses

(* Nothing is left to do for a scheduler that has nobody to wait for.       *)
LEMMA NobodyLeft ==
  ASSUME TypeInv, AloneInv, Tracked(Submitter) = {}, WithStatus(row, {"pending"}) = {}
  PROVE  AllTerminal(row)
  <1>1. row \in [Jobs -> LocalRowSet]
    BY DEF TypeInv, RowsTyped
  <1>2. ASSUME NEW j \in Jobs, row[j].status = "running"
        PROVE  FALSE
    <2>1. PICK p \in Pids : proc[p].job = j
      BY <1>2 DEF AloneInv, RowsSeen
    <2>2. proc[p].pc # "free"
      <3>1. ProcGood(proc[p]) /\ j # 0
        BY Fields DEF Jobs
      <3> QED
        BY <2>1, <3>1 DEF ProcGood
    <2>3. Handle(j) \in Pids
      BY <1>2, <2>1, <2>2, Words DEF AloneInv, Watched, Case
    <2> QED
      BY <2>3, NoHandles DEF Handle, Tracked
  <1>3. \A j \in Jobs : row[j].status # "pending"
    BY <1>1 DEF WithStatus
  <1> QED
    BY <1>1, <1>2, <1>3 DEF AllTerminal, Terminal, AloneInv, RowsSeen

LEMMA SchedulerKept ==
  ASSUME Alone, TypeInv, TypeInv', AloneInv, [Next]_vars
  PROVE  OneScheduler' /\ EndsWhenDone'
  <1>o. \A c \in Coords : \/ coord[c].pc \in {"idle"} \union CancelPcs
                          \/ c = Submitter /\ AtWork
    BY DEF AloneInv, OneScheduler
  <1>d. EndPcs \subseteq SubmitPcs /\ SubmitPcs \cap ({"idle"} \union CancelPcs) = {}
    BY DEF EndPcs, SubmitPcs, CancelPcs, RunVerdicts
  <1>n. NoCoord.pc = "idle"
    BY DEF NoCoord
  <1>e. /\ ~AtWork => AllTerminal(row) /\ run \in RunVerdicts \union {"cancelled"}
        /\ coord[Submitter].pc \in EndPcs => AllTerminal(row)
    BY DEF AloneInv, EndsWhenDone, EndPcs
  <1>a. AllTerminal(row) => AllTerminal(row')
    BY VerdictStays
  <1>r. ~AtWork => run' \in RunVerdicts \union {"cancelled"}
    <2>1. ASSUME ~AtWork, NEW c \in Coords PROVE coord[c].pc \notin {"begin", "start"}
      BY <2>1, <1>o DEF CancelPcs
    <2> QED
      BY <2>1, <1>e, RunMoves
  <1>q. EndsWhenDone' <=> /\ AtWork' \/ (AllTerminal(row') /\ run' \in RunVerdicts \union {"cancelled"})
                          /\ coord'[Submitter].pc \in EndPcs => AllTerminal(row')
    BY DEF EndsWhenDone, EndPcs
  <1>1. CASE UNCHANGED coord
    BY <1>1, <1>o, <1>e, <1>a, <1>r, <1>q DEF OneScheduler, AtWork
  <1>2. CASE SubmitStep
    <2>1. /\ AtWork
          /\ \A d \in Coords \ {Submitter} : coord'[d] = coord[d]
          /\ \/ coord'[Submitter].pc \in SubmitPcs \ EndPcs
             \/ coord'[Submitter].pc \in EndPcs /\ AllTerminal(row)
             \/ /\ coord'[Submitter].pc = "idle" /\ AllTerminal(row)
                /\ run' \in RunVerdicts \union {"cancelled"}
      BY <1>2, <1>e, <1>n, NobodyLeft DEF SubmitStep, EndPcs
    <2> QED
      BY <2>1, <1>o, <1>d, <1>a, <1>q DEF OneScheduler, AtWork
  <1>3. ASSUME NEW c \in Coords, CancelStep(c)
        PROVE  OneScheduler' /\ EndsWhenDone'
    <2>1. /\ coord'[c].pc \in {"idle"} \union CancelPcs
          /\ \A d \in Coords \ {c} : coord'[d] = coord[d]
          /\ coord[c].pc \in {"idle"} \union CancelPcs
      BY <1>3 DEF CancelStep, CancelPcs
    <2> QED
      BY <2>1, <1>o, <1>d, <1>e, <1>a, <1>r, <1>q, KindsAssumption DEF OneScheduler, AtWork
  <1> QED
    BY <1>1, <1>2, <1>3, AloneSteps

LEMMA WatchedKept ==
  ASSUME Alone, TypeInv, TypeInv', AloneInv, [Next]_vars
  PROVE  Watched' /\ RowsSeen'
  <1>t. \A p \in Pids : ProcGood(proc[p]) /\ ProcGood(proc'[p])
    BY Fields DEF TypeInv, ProcsTyped
  <1>j. ASSUME NEW p \in Pids, proc'[p].pc # "free"
        PROVE  proc'[p].job \in Jobs
    BY <1>t, <1>j DEF ProcGood
  <1>0. \A m \in Jobs : m # 0
    BY DEF Jobs
  <1>1. ASSUME NEW p \in Pids, NEW j \in Jobs, proc'[p].job = j, proc'[p].pc # "free",
               row'[j].status \in OPEN_STATUSES
        PROVE  coord'[Submitter].procs[j] \in Pids
    <2>1. row[j].status \in OPEN_STATUSES
      BY <1>1, NoReturn
    <2>2. ~AllTerminal(row)
      BY <2>1, Words DEF AllTerminal, Terminal, TypeInv, RowsTyped
    <2>3. AtWork /\ coord[Submitter].pc \notin EndPcs
      BY <2>2 DEF AloneInv, EndsWhenDone, EndPcs
    <2>4. ASSUME NEW q \in Pids, Launching(q)
          PROVE  /\ coord'[Submitter].procs[proc'[q].job] = q
                 /\ \A m \in Jobs : \/ coord'[Submitter].procs[m] = coord[Submitter].procs[m]
                                    \/ coord'[Submitter].procs[m] = q
      <3>1. PICK c \in Coords, m \in Jobs :
              /\ coord[c].pc = "launch"
              /\ proc' = [proc EXCEPT ![q].job = m, ![q].pc = "read"]
              /\ coord' = [coord EXCEPT ![c] =
                             [coord[c] EXCEPT !.pc = "launched", !.job = m, !.procs[m] = q,
                                              !.todo = coord[c].todo \ {m}]]
        BY <2>4 DEF Launching
      <3>2. c = Submitter
        BY <3>1 DEF AloneInv, OneScheduler, CancelPcs
      <3>3. coord[c] \in CoordSet /\ proc \in [Pids -> ProcSet] /\ coord \in [Coords -> CoordSet]
        BY DEF TypeInv, CoordsTyped, ProcsTyped
      <3>4. coord'[c].procs = [coord[c].procs EXCEPT ![m] = q] /\ proc'[q].job = m
        BY <3>1, <3>3 DEF CoordSet, ProcSet
      <3> QED
        BY <3>2, <3>3, <3>4 DEF CoordSet
    <2>5. CASE Launching(p)
      BY <2>4, <2>5, <1>1
    <2>6. CASE ~Launching(p)
      <3>1. proc[p].job = j /\ proc[p].pc # "free"
        BY <2>6, <1>1, <1>t, <1>0, LaunchesMove DEF ProcGood
      <3>2. Handle(j) \in Pids
        BY <3>1, <2>1 DEF AloneInv, Watched, Case
      <3>3. CASE \/ UNCHANGED coord
                 \/ coord'[Submitter].procs = coord[Submitter].procs
        BY <3>2, <3>3 DEF Handle
      <3>4. CASE \E q \in Pids : Launching(q)
        BY <3>2, <3>4, <2>4 DEF Handle
      <3>5. ASSUME NEW m \in Jobs, row' = Ended(row, m, "error"),
                   coord'[Submitter].procs = [coord[Submitter].procs EXCEPT ![m] = NoPid]
            PROVE  coord'[Submitter].procs[j] \in Pids
        <4>1. m # j
          BY <3>5, <1>1, <2>1, LedgerStatus DEF TypeInv, RowsTyped, OPEN_STATUSES, ACTIVE_STATUSES
        <4> QED
          BY <4>1, <3>2, <3>5 DEF Handle, TypeInv, CoordsTyped, CoordSet
      <3>6. CASE SubmitStep
        BY <3>6, <2>3, <2>2, NobodyLeft, <3>3, <3>4, <3>5 DEF SubmitStep, EndPcs
      <3>7. ASSUME NEW c \in Coords, CancelStep(c)
            PROVE  coord'[Submitter].procs[j] \in Pids
        <4>1. coord'[Submitter] = coord[Submitter]
          BY <3>7, <2>3, KindsAssumption DEF CancelStep, AtWork, SubmitPcs, CancelPcs, RunVerdicts
        <4> QED
          BY <4>1, <3>3
      <3> QED
        BY <3>3, <3>6, <3>7, AloneSteps
    <2> QED
      BY <2>5, <2>6
  <1>2. ASSUME NEW j \in Jobs
        PROVE  /\ row'[j].status \in {"pending", "running"} \union TERMINAL_STATUSES
               /\ row'[j].status = "running" => \E p \in Pids : proc'[p].job = j
    <2>1. /\ row[j].status \in {"pending", "running"} \union TERMINAL_STATUSES
          /\ row[j].status = "running" => \E p \in Pids : proc[p].job = j
      BY DEF AloneInv, RowsSeen
    <2>2. (\E p \in Pids : proc[p].job = j) => \E p \in Pids : proc'[p].job = j
      BY LaunchesMove
    <2>3. (\E p \in Pids : Case(p) = j) => \E p \in Pids : proc[p].job = j
      BY DEF Case
    <2> QED
      BY <2>1, <2>2, <2>3, NoReturn DEF TERMINAL_STATUSES
  <1> QED
    BY <1>1, <1>2, <1>j DEF Watched, RowsSeen, Handle, Case

LEMMA ClaimKept ==
  ASSUME TypeInv, TypeInv', AloneInv, [Next]_vars
  PROVE  OneClaim'
  <1>t. \A p \in Pids : /\ proc[p] \in ProcSet /\ ProcGood(proc[p]) /\ Moves(p)
                        /\ proc'[p] \in ProcSet /\ ProcGood(proc'[p])
    BY Fields, AllMoves DEF TypeInv, ProcsTyped
  <1>1. ASSUME NEW p \in Pids, Claimed(p)'
        PROVE  /\ proc[p].job = proc'[p].job /\ proc'[p].job \in Jobs
               /\ \/ Claimed(p)
                  \/ /\ row[proc[p].job].status \in RunnableStatuses
                     /\ row' = Running(row, proc[p].job)
                     /\ ~Signalled(proc[p], proc'[p])
    <2>1. ~Launching(p)
      BY <1>1, LaunchingNew DEF Claimed
    <2>2. CASE Signalled(proc[p], proc'[p])
      BY <1>1, <2>2, <1>t DEF Claimed, Signalled, ProcGood
    <2>3. CASE Working(proc[p], proc'[p])
      BY <1>1, <2>3, <1>t DEF Claimed, Signalled, Working, ProcGood, ProcSet, Verdict
    <2> QED
      BY <2>1, <2>2, <2>3, <1>t DEF Moves
  <1>2. ASSUME NEW p \in Pids, Claimed(p)'
        PROVE  row'[proc'[p].job].status \notin RunnableStatuses
    <2> DEFINE j == proc'[p].job
    <2>0. j \in Jobs /\ j = proc[p].job
      BY <1>1, <1>2
    <2>1. CASE Claimed(p)
      BY <2>0, <2>1, NoReturn DEF AloneInv, OneClaim, Case
    <2>2. CASE row[j].status \in RunnableStatuses /\ row' = Running(row, j)
      <3>1. row'[j].status = "running"
        BY <2>0, <2>2, LedgerStatus DEF TypeInv, RowsTyped
      <3> QED
        BY <3>1, Words
    <2> HIDE DEF j
    <2> QED
      BY <2>0, <2>1, <2>2, <1>1, <1>2
  <1>3. ASSUME NEW p \in Pids, NEW q \in Pids, Claimed(p)', Claimed(q)',
               proc'[p].job = proc'[q].job, p # q
        PROVE  FALSE
    <2>1. \A x \in Pids : Claimed(x) => row[proc[x].job].status \notin RunnableStatuses
      BY DEF AloneInv, OneClaim, Case
    <2>2. ~(Claimed(p) /\ Claimed(q))
      BY <1>1, <1>3 DEF AloneInv, OneClaim, Case
    <2>3. ~Claimed(p) /\ ~Claimed(q)
      BY <1>1, <1>3, <2>1, <2>2
    <2>4. ~Signalled(proc[p], proc'[p]) /\ ~Signalled(proc[q], proc'[q])
      BY <1>1, <1>3, <2>3
    <2>5. \A x \in Pids : Signalled(proc[x], proc[x])
      BY <1>t DEF Signalled
    <2> QED
      BY <1>3, <2>4, <2>5, AllMoves DEF OneMoves
  <1> QED
    BY <1>2, <1>3 DEF OneClaim, Case

LEMMA CancelKept ==
  ASSUME Alone, TypeInv, TypeInv', AloneInv, [Next]_vars
  PROVE  CancelSeen' /\ CancelEndsEveryCase'
  <1>r. row \in [Jobs -> LocalRowSet] /\ row' \in [Jobs -> LocalRowSet]
    BY DEF TypeInv, RowsTyped
  <1>k. ASSUME NEW c \in Coords
        PROVE  /\ coord[c].pc = "cancel_scan" => \A j \in Jobs : row[j].status # "pending"
               /\ coord[c].pc \in {"cancel_kill", "cancel_mark"}
                    => \A j \in Jobs : row[j].status \in OPEN_STATUSES => j \in coord[c].todo
    BY DEF AloneInv, CancelSeen
  <1>1. ASSUME NEW c \in Coords, coord'[c] = coord[c]
        PROVE  /\ coord'[c].pc = "cancel_scan" => \A j \in Jobs : row'[j].status # "pending"
               /\ coord'[c].pc \in {"cancel_kill", "cancel_mark"}
                    => \A j \in Jobs : row'[j].status \in OPEN_STATUSES => j \in coord'[c].todo
    BY <1>1, <1>k, NoReturn, Words
  <1>2. ASSUME NEW c \in Coords, CancelStep(c)
        PROVE  /\ coord'[c].pc = "cancel_scan" => \A j \in Jobs : row'[j].status # "pending"
               /\ coord'[c].pc \in {"cancel_kill", "cancel_mark"}
                    => \A j \in Jobs : row'[j].status \in OPEN_STATUSES => j \in coord'[c].todo
    <2>1. CASE coord'[c].pc \in {"idle", "cancel_pending"}
      BY <2>1
    <2>2. CASE coord'[c].pc = "cancel_scan" /\ row' = CancelPending(row)
      BY <2>2, <1>r, LedgerStatus
    <2>3. CASE /\ coord[c].pc = "cancel_scan" /\ coord'[c].pc = "cancel_kill" /\ UNCHANGED row
               /\ coord'[c].todo = WithStatus(row, ACTIVE_STATUSES)
      BY <2>3, <1>r, <1>k, Words DEF WithStatus
    <2>4. CASE /\ coord[c].pc = "cancel_kill" /\ coord'[c].pc = "cancel_mark"
               /\ coord'[c].todo = coord[c].todo /\ UNCHANGED row
      BY <2>4, <1>k
    <2>5. ASSUME NEW j \in Jobs, coord[c].pc = "cancel_mark", coord'[c].pc = "cancel_mark",
                 coord'[c].todo = coord[c].todo \ {j}, row' = Ended(row, j, "cancelled")
          PROVE  \A m \in Jobs : row'[m].status \in OPEN_STATUSES => m \in coord'[c].todo
      BY <2>5, <1>r, <1>k, LedgerStatus, Words
    <2> QED
      BY <1>2, <2>1, <2>2, <2>3, <2>4, <2>5 DEF CancelStep
  <1>3. ASSUME NEW c \in Coords
        PROVE  /\ coord'[c].pc = "cancel_scan" => \A j \in Jobs : row'[j].status # "pending"
               /\ coord'[c].pc \in {"cancel_kill", "cancel_mark"}
                    => \A j \in Jobs : row'[j].status \in OPEN_STATUSES => j \in coord'[c].todo
    <2>1. CASE c = Submitter /\ SubmitStep
      <3>1. coord'[c].pc \in SubmitPcs \union {"idle"}
        BY <2>1 DEF SubmitStep, NoCoord, EndPcs, SubmitPcs
      <3> QED
        BY <3>1 DEF SubmitPcs, RunVerdicts
    <2>2. CASE ~(c = Submitter /\ SubmitStep) /\ ~CancelStep(c)
      <3>1. coord'[c] = coord[c]
        BY <2>2, AloneSteps DEF SubmitStep, CancelStep
      <3> QED
        BY <3>1, <1>1
    <2> QED
      BY <2>1, <2>2, <1>2
  <1>4. CancelEndsEveryCase'
    <2>1. CASE run' = run
      BY <2>1, VerdictStays DEF AloneInv, CancelEndsEveryCase
    <2>2. ASSUME UNCHANGED row, run' = "cancelled", NEW c \in Coords,
                 coord[c].pc = "cancel_mark", coord[c].todo = {}
          PROVE  AllTerminal(row')
      <3>1. \A j \in Jobs : row[j].status \notin OPEN_STATUSES
        BY <2>2, <1>k
      <3> QED
        BY <2>2, <3>1, <1>r, Words DEF AllTerminal, Terminal, LocalRowSet
    <2> QED
      BY <2>1, <2>2, RunMoves DEF CancelEndsEveryCase, RunVerdicts
  <1> QED
    BY <1>3, <1>4 DEF CancelSeen

LEMMA AloneStep ==
  ASSUME Alone, TypeInv, TypeInv', AloneInv, [Next]_vars
  PROVE  AloneInv'
  BY SchedulerKept, WatchedKept, ClaimKept, CancelKept DEF AloneInv

LEMMA OneOfEach == TypeInv /\ AloneInv => OneChild
  <1> SUFFICES ASSUME TypeInv, AloneInv, NEW j \in Jobs
               PROVE  Cardinality(Children(j)) <= 1
    BY DEF OneChild
  <1>1. \A p, q \in Children(j) : p = q
    BY DEF Children, Launches, AloneInv, OneClaim, Claimed, Case
  <1>2. CASE Children(j) = {}
    BY <1>2, FS_EmptySet
  <1>3. ASSUME NEW p \in Children(j)
        PROVE  Cardinality(Children(j)) <= 1
    <2>1. Children(j) = {p}
      BY <1>1, <1>3
    <2>2. Cardinality({p}) = 1
      BY FS_Singleton
    <2> QED
      BY <2>1, <2>2
  <1> QED
    BY <1>2, <1>3

(* No case is run twice at the same time, however slowly a wrapper marks    *)
(* its row and however often its case is launched meanwhile, whichever      *)
(* wrapper is killed, and whatever fails to start or to be written: the     *)
(* claim goes to one wrapper, as long as no second scheduler, started after *)
(* a crash, an interruption or by force, puts the row back.                 *)
THEOREM LocalOneChild ==
  ASSUME Faults \cap {"crash", "interrupt", "resume", "force"} = {}
  PROVE  Spec => []OneChild
  <1>0. Alone
    BY DEF Alone
  <1>1. Init => TypeInv /\ AloneInv
    BY InitialTypes, InitialAlone
  <1>2. TypeInv /\ AloneInv /\ [Next]_vars => TypeInv' /\ AloneInv'
    BY <1>0, NextTypes, AloneStep
  <1> QED
    BY <1>1, <1>2, OneOfEach, PTL DEF Spec

(* When cancel has come to its end every case has ended, though wrappers    *)
(* go on claiming and ending rows between its four transactions and the     *)
(* scheduler goes on launching: cancel ends the pending rows before it      *)
(* reads the active ones.  Ruled out: a resume, which could put a row back  *)
(* behind it.                                                               *)
THEOREM LocalCancel ==
  ASSUME Faults \cap {"crash", "interrupt", "resume", "force"} = {}
  PROVE  Spec => []CancelEndsEveryCase
  <1>0. Alone
    BY DEF Alone
  <1>1. Init => TypeInv /\ AloneInv
    BY InitialTypes, InitialAlone
  <1>2. TypeInv /\ AloneInv /\ [Next]_vars => TypeInv' /\ AloneInv'
    BY <1>0, NextTypes, AloneStep
  <1>3. AloneInv => CancelEndsEveryCase
    BY DEF AloneInv
  <1> QED
    BY <1>1, <1>2, <1>3, PTL DEF Spec

-----------------------------------------------------------------------------
(* The window *)

LEMMA FiniteJobs ==
  ASSUME NEW S \in SUBSET Jobs
  PROVE  IsFiniteSet(S) /\ Cardinality(S) \in Nat
  <1>1. IsFiniteSet(Jobs)
    BY SizesAssumption, FS_Interval DEF Jobs
  <1> QED
    BY <1>1, FS_Subset, FS_CardinalityType

LEMMA InitialWindow == Init => WindowInv
  <1> SUFFICES ASSUME Init PROVE WindowInv
    OBVIOUS
  <1>1. Tracked(Submitter) = {} /\ \A p \in Pids : ~Alive(p)
    BY NoHandles, KindsAssumption DEF Init, NoCoord, NoProc, NoPids, Tracked, Alive
  <1>2. Busy = {}
    BY <1>1 DEF Busy
  <1> QED
    BY <1>1, <1>2, FS_EmptySet, SizesAssumption DEF WindowInv

(* What the scheduler tracks: launching adds one case, and only when there  *)
(* is room.                                                                 *)
LEMMA LaunchTracks ==
  ASSUME TypeInv, AloneInv, NEW q \in Pids, Launching(q)
  PROVE  \E j \in Jobs : /\ proc'[q].job = j
                         /\ coord'[Submitter].procs = [coord[Submitter].procs EXCEPT ![j] = q]
                         /\ Cardinality(Tracked(Submitter)) < K
                         /\ Tracked(Submitter)' = Tracked(Submitter) \union {j}
                         /\ AtWork /\ AtWork'
  <1>1. PICK c \in Coords, j \in Jobs :
          /\ coord[c].pc = "launch"
          /\ Cardinality(Tracked(c)) < K
          /\ proc' = [proc EXCEPT ![q].job = j, ![q].pc = "read"]
          /\ coord' = [coord EXCEPT ![c] =
                         [coord[c] EXCEPT !.pc = "launched", !.job = j, !.procs[j] = q,
                                          !.todo = coord[c].todo \ {j}]]
    BY DEF Launching
  <1>2. c = Submitter
    BY <1>1 DEF AloneInv, OneScheduler, CancelPcs
  <1>3. coord[c] \in CoordSet /\ proc \in [Pids -> ProcSet] /\ coord \in [Coords -> CoordSet]
    BY DEF TypeInv, CoordsTyped, ProcsTyped
  <1>4. /\ coord'[c].procs = [coord[c].procs EXCEPT ![j] = q] /\ proc'[q].job = j
        /\ coord'[c].pc = "launched"
    BY <1>1, <1>3 DEF CoordSet, ProcSet
  <1>5. Tracked(Submitter)' = Tracked(Submitter) \union {j}
    BY <1>2, <1>3, <1>4, NoHandles DEF Tracked, CoordSet
  <1> QED
    BY <1>1, <1>2, <1>4, <1>5 DEF AtWork, SubmitPcs

LEMMA WindowStep ==
  ASSUME Alone, TypeInv, TypeInv', AloneInv, WindowInv, [Next]_vars
  PROVE  WindowInv'
  <1>t. /\ \A p \in Pids : ProcGood(proc[p]) /\ ProcGood(proc'[p]) /\ Moves(p)
        /\ coord[Submitter] \in CoordSet /\ coord'[Submitter] \in CoordSet
        /\ \A p \in Pids : proc[p] \in ProcSet
    BY Fields, AllMoves, KindsAssumption DEF TypeInv, ProcsTyped, CoordsTyped
  <1>f. /\ Tracked(Submitter) \subseteq Jobs /\ Tracked(Submitter)' \subseteq Jobs
        /\ Busy \subseteq Jobs /\ Busy' \subseteq Jobs
    BY DEF Tracked, Busy
  <1>w. K \in Nat /\ Cardinality(Tracked(Submitter)) <= K
    BY SizesAssumption DEF WindowInv
  (* Handles are dropped of processes that have left, or all at the end.    *)
  <1>1. \/ \E q \in Pids : Launching(q)
        \/ /\ \A q \in Pids : ~Launching(q)
           /\ \/ coord'[Submitter].procs = coord[Submitter].procs /\ (AtWork' => AtWork)
              \/ coord'[Submitter].procs = NoPids /\ ~AtWork'
              \/ \E j \in Jobs : /\ AtWork /\ AtWork'
                                 /\ coord[Submitter].procs[j] \in Pids
                                 /\ ~Alive(coord[Submitter].procs[j])
                                 /\ coord'[Submitter].procs
                                      = [coord[Submitter].procs EXCEPT ![j] = NoPid]
    <2>1. CASE UNCHANGED coord
      BY <2>1 DEF AtWork
    <2>2. CASE SubmitStep
      <3>1. NoCoord.procs = NoPids /\ NoCoord.pc = "idle" /\ "idle" \notin SubmitPcs
        BY DEF NoCoord, SubmitPcs, RunVerdicts
      <3> QED
        BY <2>2, <3>1 DEF SubmitStep, AtWork
    <2>3. ASSUME NEW c \in Coords, CancelStep(c), c = Submitter
          PROVE  /\ \/ coord'[Submitter].procs = coord[Submitter].procs
                    \/ coord'[Submitter].procs = NoPids
                 /\ ~AtWork'
      <3>1. coord'[c].pc \in {"idle"} \union CancelPcs
        BY <2>3 DEF CancelStep, CancelPcs
      <3> QED
        BY <2>3, <3>1 DEF CancelStep, AtWork, SubmitPcs, CancelPcs, RunVerdicts
    <2>4. ASSUME NEW c \in Coords, CancelStep(c), c # Submitter
          PROVE  coord'[Submitter] = coord[Submitter]
      BY <2>4, KindsAssumption DEF CancelStep
    <2> QED
      BY <2>1, <2>2, <2>3, <2>4, AloneSteps DEF AtWork
  <1>2. Cardinality(Tracked(Submitter)') <= K
    <2>1. ASSUME NEW q \in Pids, Launching(q)
          PROVE  Cardinality(Tracked(Submitter)') <= K
      <3>1. PICK j \in Jobs : /\ Tracked(Submitter)' = Tracked(Submitter) \union {j}
                              /\ Cardinality(Tracked(Submitter)) < K
        BY <2>1, LaunchTracks
      <3>2. Cardinality(Tracked(Submitter) \union {j}) <= Cardinality(Tracked(Submitter)) + 1
        BY <1>f, FiniteJobs, FS_AddElement
      <3>3. /\ Cardinality(Tracked(Submitter)) \in Nat
            /\ Cardinality(Tracked(Submitter) \union {j}) \in Nat
        BY <1>f, <3>1, FiniteJobs
      <3> QED
        BY <3>1, <3>2, <3>3, <1>w
    <2>2. CASE Tracked(Submitter)' \subseteq Tracked(Submitter)
      <3>1. Cardinality(Tracked(Submitter)') <= Cardinality(Tracked(Submitter))
        BY <2>2, <1>f, FiniteJobs, FS_Subset
      <3> QED
        BY <3>1, <1>f, <1>w, FiniteJobs
    <2>3. CASE ~\E q \in Pids : Launching(q)
      BY <2>2, <2>3, <1>1, <1>t, NoHandles DEF Tracked, NoPids, CoordSet
    <2> QED
      BY <2>1, <2>3
  <1>3. LaunchedOnce' => LaunchedOnce
    <2> SUFFICES ASSUME LaunchedOnce', NEW j \in Jobs
                 PROVE  Cardinality(Launches(j)) <= 1
      BY DEF LaunchedOnce
    <2>1. Launches(j) \subseteq Launches(j)'
      BY LaunchesMove DEF Launches
    <2>2. IsFiniteSet(Launches(j)')
      BY FinitePids, FS_Subset DEF Launches
    <2>3. /\ Cardinality(Launches(j)) <= Cardinality(Launches(j)')
          /\ Cardinality(Launches(j)) \in Nat /\ Cardinality(Launches(j)') \in Nat
      BY <2>1, <2>2, FS_Subset, FS_CardinalityType
    <2> QED
      BY <2>3 DEF LaunchedOnce
  <1>4. ASSUME NEW p \in Pids, ~Launching(p), Alive(p)'
        PROVE  Alive(p) /\ proc'[p].job = proc[p].job /\ proc[p].job \in Jobs
    BY <1>4, <1>t DEF Moves, Signalled, Working, Alive, ProcSet, ProcGood
  <1>5. ASSUME LaunchedOnce', AtWork', NEW p \in Pids, Alive(p)'
        PROVE  coord'[Submitter].procs[proc'[p].job] = p
    <2>1. ASSUME NEW q \in Pids, NEW j \in Jobs, proc'[q].job = j, proc'[p].job = j
          PROVE  p = q
      <3>1. p \in Launches(j)' /\ q \in Launches(j)' /\ IsFiniteSet(Launches(j)')
        BY <2>1, FinitePids, FS_Subset DEF Launches
      <3>2. Cardinality(Launches(j)') <= 1
        BY <1>5 DEF LaunchedOnce
      <3> QED
        BY <3>1, <3>2, AtMostOne
    <2>2. CASE Launching(p)
      <3>1. PICK j \in Jobs :
              /\ proc'[p].job = j
              /\ coord'[Submitter].procs = [coord[Submitter].procs EXCEPT ![j] = p]
        BY <2>2, LaunchTracks
      <3>2. coord[Submitter].procs \in [Jobs -> PidsOrNone]
        BY Fields, KindsAssumption
      <3> QED
        BY <3>1, <3>2
    <2>3. CASE ~Launching(p)
      <3> DEFINE j == proc[p].job
      <3>1. Alive(p) /\ proc'[p].job = j /\ j \in Jobs
        BY <2>3, <1>4, <1>5
      <3>2. AtWork => coord[Submitter].procs[j] = p
        BY <3>1, <1>3, <1>5 DEF WindowInv, Handle, Case
      <3>3. ASSUME NEW q \in Pids, Launching(q)
            PROVE  coord'[Submitter].procs[j] = p
        <4>1. PICK m \in Jobs :
                /\ proc'[q].job = m /\ AtWork
                /\ coord'[Submitter].procs = [coord[Submitter].procs EXCEPT ![m] = q]
          BY <3>3, LaunchTracks
        <4> QED
          BY <4>1, <3>1, <3>2, <2>1, <1>t DEF CoordSet
      <3> HIDE DEF j
      <3>4. CASE ~\E q \in Pids : Launching(q)
        BY <3>1, <3>2, <3>4, <1>1, <1>5, <1>t DEF CoordSet
      <3> QED
        BY <3>1, <3>3, <3>4
    <2> QED
      BY <2>2, <2>3
  <1>6. ASSUME LaunchedOnce'
        PROVE  Cardinality(Busy') <= K
    <2>1. CASE AtWork'
      <3>1. Busy' \subseteq Tracked(Submitter)'
        <4> SUFFICES ASSUME NEW j \in Jobs, NEW p \in Pids, proc'[p].job = j, Alive(p)'
                     PROVE  coord'[Submitter].procs[j] # NoPid
          BY DEF Busy, Tracked
        <4> QED
          BY <1>5, <1>6, <2>1, NoHandles
      <3>2. Cardinality(Busy') <= Cardinality(Tracked(Submitter)')
        BY <3>1, <1>f, FiniteJobs, FS_Subset
      <3> QED
        BY <3>2, <1>2, <1>f, <1>w, FiniteJobs
    <2>2. CASE ~AtWork'
      <3>1. \A q \in Pids : ~Launching(q)
        BY <2>2, LaunchTracks
      <3>2. Busy' \subseteq Busy
        BY <3>1, <1>4 DEF Busy
      <3>3. Cardinality(Busy') <= Cardinality(Busy) /\ Cardinality(Busy) <= K
        BY <3>2, <1>3, <1>6, <1>f, FiniteJobs, FS_Subset DEF WindowInv
      <3> QED
        BY <3>3, <1>f, <1>w, FiniteJobs
    <2> QED
      BY <2>1, <2>2
  <1> QED
    BY <1>2, <1>5, <1>6 DEF WindowInv, Handle, Case

(* No more than K cases run at the same time, orphans aside, as long as no  *)
(* case was launched again: every wrapper alive is one of those the         *)
(* scheduler counts before it starts another.  The scheduler that finds all *)
(* rows ended leaves wrappers behind, but starts nothing any more.          *)
THEOREM LocalWindow ==
  ASSUME Faults \cap {"crash", "interrupt", "resume", "force"} = {}
  PROVE  Spec => []Window
  <1>0. Alone
    BY DEF Alone
  <1>1. Init => TypeInv /\ AloneInv /\ WindowInv
    BY InitialTypes, InitialAlone, InitialWindow
  <1>2. TypeInv /\ AloneInv /\ WindowInv /\ [Next]_vars => TypeInv' /\ AloneInv' /\ WindowInv'
    BY <1>0, NextTypes, AloneStep, WindowStep
  <1>3. WindowInv => Window
    <2> SUFFICES ASSUME WindowInv, LaunchedOnce
                 PROVE  Cardinality({j \in Jobs : Attended(j) # {}}) <= K
      BY DEF Window
    <2>1. {j \in Jobs : Attended(j) # {}} \subseteq Busy
      BY DEF Attended, Children, Launches, Busy
    <2>2. Busy \subseteq Jobs
      BY DEF Busy
    <2>3. /\ Cardinality({j \in Jobs : Attended(j) # {}}) <= Cardinality(Busy)
          /\ Cardinality(Busy) \in Nat /\ Cardinality({j \in Jobs : Attended(j) # {}}) \in Nat
      BY <2>1, <2>2, FiniteJobs, FS_Subset
    <2> QED
      BY <2>3, SizesAssumption DEF WindowInv
  <1> QED
    BY <1>1, <1>2, <1>3, PTL DEF Spec
=============================================================================
