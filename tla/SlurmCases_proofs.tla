-------------------------- MODULE SlurmCases_proofs -------------------------
(***************************************************************************)
(* What a row of the ledger says of the SLURM jobs of its case: whose id   *)
(* it has and when it has none, what a success stands for, and what it     *)
(* takes for a job to be given up.                                         *)
(*                                                                         *)
(* IdsInv: ids are written late.  A submitter writes the one sbatch gave   *)
(* it, and reconcile_slurm writes back the one it read, whatever became of *)
(* the row in between.  The invariant follows an id from where it comes    *)
(* from to where it is written, through the local data of the processes;   *)
(* it is kept since SLURM never gives an id a second time.                 *)
(*                                                                         *)
(* SoleInv: a case that was submitted once.  How far its one job has come  *)
(* says what its row may be, and what SLURM's answers about it may lead a  *)
(* poller to do later.                                                     *)
(*                                                                         *)
(* CountInv: each poll that misses an id has cost an event of its own, and *)
(* a command that counts has seen all of its counts itself.                *)
(***************************************************************************)
EXTENDS SlurmChain_proofs

(* id is the id of a job submitted for case j. *)
Owns(id, j) == id \in SlurmIds /\ slurm[id].job = j

(* A wrapper about to record a submission holds the id of its successor. *)
ChildIsSuccessor(i) == wrap[i].pc = "mark" => Owns(wrap[i].child, Successor(i))

(* What a coordinator holds: the id of the case it has just submitted, and *)
(* the ids of the rows it has read.                                        *)
Submitted(r) == r.pc = "mark" => Owns(r.child, r.job)
Polled(r) == r.pc \in {"query", "apply", "settle"} => \A j \in r.todo : Owns(r.seen[j], j)

IdsInv ==
  /\ LedgerIds
  /\ \A i \in SlurmIds : ChildIsSuccessor(i)
  /\ \A c \in Coords : Submitted(coord[c]) /\ Polled(coord[c])

-----------------------------------------------------------------------------
(* SLURM never gives an id to a second case. *)
LEMMA OwnerKept ==
  ASSUME TypeInv, [Next]_vars, NEW id, NEW j \in Jobs, Owns(id, j)
  PROVE  id \in SlurmIds /\ slurm'[id].job = j
  <1>s. slurm \in [SlurmIds -> SlurmSet] /\ WrapGood(wrap[id], slurm[id]) /\ id \in SlurmIds
    BY DEF TypeInv, TypeOK, Structure, Owns
  <1>f. id \notin Fresh
    BY <1>s DEF Fresh, Owns, WrapGood, Jobs
  <1>1. ASSUME NEW i \in SlurmIds, Wrapper(i)
        PROVE  slurm'[id].job = slurm[id].job
    <2>1. CASE SubmitSuccessor(i)
      BY <2>1, <1>s, <1>f DEF SubmitSuccessor, Enqueue, SlurmSet
    <2>2. ASSUME NEW state, Exit(i, state)
          PROVE  slurm'[id].job = slurm[id].job
      BY <2>2, <1>s DEF Exit, SlurmSet
    <2>3. CASE UNCHANGED slurm
      BY <2>3
    <2> QED
      BY <1>1, <2>1, <2>2, <2>3 DEF Wrapper, ReadRow, MissingTemplate, BadConfig, ClaimRun,
         ClaimSuccessor, MarkSuccessor, RunCase, Finish, Conclude, WriteVerdict
  <1>2. ASSUME NEW i \in SlurmIds, Start(i) \/ Kill(i)
        PROVE  slurm'[id].job = slurm[id].job
    BY <1>2, <1>s DEF Start, Kill, SlurmSet
  <1>3. ASSUME NEW c \in Coords, Sbatch(c) \/ Scancel(c)
        PROVE  slurm'[id].job = slurm[id].job
    BY <1>3, <1>s, <1>f DEF Sbatch, Enqueue, Scancel, SlurmSet
  <1>4. CASE UNCHANGED slurm
    BY <1>4, <1>s DEF Owns
  <1> QED
    BY <1>1, <1>2, <1>3, <1>4, <1>s DEF Owns, Next, vars, ClaimAges, Crash, StartWatch,
       StartResume, StartCancel, Coordinator, Begin, Top, Recover, Reset, Seed, Repair, List,
       Pick, Mark, Snapshot, Query, Apply, Settle, Finalize, RecordVerdict, Check, CancelRows,
       CancelScan, CancelMark, CancelEnd

-----------------------------------------------------------------------------
(* The rows *)

(* No row gets an id it did not have. *)
NoNewIds(old, new) ==
  \A j \in Jobs : new[j].slurm_job_id \in {NoId, old[j].slurm_job_id}

LEMMA NoNewIdsFrom ==
  ASSUME NEW rows \in [Jobs -> RowSet(SlurmIds)], NEW j
  PROVE  /\ NoNewIds(rows, ClaimForSubmission(rows, j))
         /\ NoNewIds(rows, ReleaseSubmission(rows, j))
         /\ NoNewIds(rows, MarkRunning(rows, j))
         /\ NoNewIds(rows, ResetToPending(rows, j))
         /\ NoNewIds(rows, CancelPending(rows))
         /\ NoNewIds(rows, [rows EXCEPT ![j].stale = TRUE])
         /\ \A status : NoNewIds(rows, MarkTerminal(rows, j, status))
  BY DEF NoNewIds, RowSet, Transition, ClaimForSubmission, ReleaseSubmission, MarkRunning,
         ResetToPending, NewRow, CancelPending, MarkTerminal

(* Ids are written by mark_scheduled and by reconcile_slurm only. *)
LEMMA Writers ==
  ASSUME TypeInv, [Next]_vars
  PROVE  \/ NoNewIds(row, row')
         \/ \E i \in SlurmIds : MarkSuccessor(i)
         \/ \E c \in Coords : Mark(c) \/ Apply(c)
  <1>r. row \in [Jobs -> RowSet(SlurmIds)]
    BY DEF TypeInv, TypeOK
  <1>1. ASSUME UNCHANGED row
        PROVE  NoNewIds(row, row')
    BY <1>1 DEF NoNewIds
  <1>2. ASSUME NEW i \in SlurmIds, Wrapper(i), ~MarkSuccessor(i)
        PROVE  NoNewIds(row, row')
    <2>1. CASE BadConfig(i)
      BY <2>1, <1>r, NoNewIdsFrom DEF BadConfig
    <2>3. CASE ClaimRun(i)
      BY <2>3, <1>r, NoNewIdsFrom DEF ClaimRun
    <2>4. CASE Finish(i)
      BY <2>4, <1>r, NoNewIdsFrom DEF Finish
    <2>2. CASE ClaimSuccessor(i) \/ SubmitSuccessor(i)
      BY <2>2, <1>1, <1>r, NoNewIdsFrom DEF ClaimSuccessor, SubmitSuccessor
    <2> QED
      BY <1>1, <1>2, <2>1, <2>2, <2>3, <2>4 DEF Wrapper, ReadRow, MissingTemplate, RunCase, Conclude,
         WriteVerdict
  <1>3. ASSUME NEW c \in Coords, Coordinator(c), ~Mark(c), ~Apply(c)
        PROVE  NoNewIds(row, row')
    <2>1. CASE Reset(c) \/ CancelRows(c) \/ CancelMark(c) \/ Settle(c)
      BY <2>1, <1>r, NoNewIdsFrom DEF Reset, CancelRows, CancelMark, Settle
    <2>2. CASE Pick(c) \/ Sbatch(c)
      BY <2>2, <1>1, <1>r, NoNewIdsFrom DEF Pick, Sbatch
    <2> QED
      BY <1>1, <1>3, <2>1, <2>2 DEF Coordinator, Begin, Top, Recover, Seed, Repair, List,
         Snapshot, Query, Finalize, RecordVerdict, Check, CancelScan, Scancel, CancelEnd
  <1>4. ASSUME NEW j \in Jobs, ClaimAges(j)
        PROVE  NoNewIds(row, row')
    BY <1>4, <1>r, NoNewIdsFrom DEF ClaimAges
  <1> QED
    BY <1>1, <1>2, <1>3, <1>4
       DEF Next, vars, Start, Kill, Crash, StartWatch, StartResume, StartCancel

LEMMA RowsOwn ==
  ASSUME TypeInv, IdsInv, [Next]_vars
  PROVE  LedgerIds'
  <1>r. row \in [Jobs -> RowSet(SlurmIds)]
    BY DEF TypeInv, TypeOK
  <1>1. ASSUME NEW m \in Jobs, row'[m].slurm_job_id # NoId
        PROVE  Owns(row'[m].slurm_job_id, m)
    <2>0. row[m].slurm_job_id # NoId => Owns(row[m].slurm_job_id, m)
      BY DEF IdsInv, LedgerIds, Submissions, Owns
    <2>1. CASE NoNewIds(row, row')
      BY <1>1, <2>0, <2>1 DEF NoNewIds
    <2>2. ASSUME NEW id, NEW j \in Jobs, Owns(id, j),
                 row' = MarkScheduled(row, j, id) \/ row' = SetSlurmId(row, j, id)
          PROVE  Owns(row'[m].slurm_job_id, m)
      <3>1. row'[m].slurm_job_id \in {row[m].slurm_job_id} \union (IF m = j THEN {id} ELSE {})
        BY <2>2, <1>r DEF MarkScheduled, SetSlurmId, Transition, RowSet
      <3> QED
        BY <1>1, <2>0, <2>2, <3>1
    <2>3. ASSUME NEW i \in SlurmIds, MarkSuccessor(i)
          PROVE  Owns(row'[m].slurm_job_id, m)
      <3>1. Successor(i) \in Jobs /\ Owns(wrap[i].child, Successor(i))
        BY <2>3 DEF MarkSuccessor, IdsInv, ChildIsSuccessor, TypeInv, Structure, WrapGood,
                    Successor, Case
      <3> QED
        BY <2>2, <2>3, <3>1 DEF MarkSuccessor
    <2>4. ASSUME NEW c \in Coords, Mark(c)
          PROVE  Owns(row'[m].slurm_job_id, m)
      <3>1. coord[c].job \in Jobs /\ Owns(coord[c].child, coord[c].job)
        BY <2>4 DEF Mark, At, IdsInv, Submitted, TypeInv, Structure, CoordGood
      <3> QED
        BY <2>2, <2>4, <3>1 DEF Mark
    <2>5. ASSUME NEW c \in Coords, Apply(c)
          PROVE  Owns(row'[m].slurm_job_id, m)
      <3>1. PICK j \in First(coord[c].todo) :
              row' \in {SetSlurmId(row, j, coord[c].seen[j]), MarkTerminal(row, j, "lost"), row}
        BY <2>5 DEF Apply
      <3>2. coord[c] \in CoordSet
        BY DEF TypeInv, TypeOK
      <3>3. j \in Jobs /\ Owns(coord[c].seen[j], j)
        BY <2>5, <3>2, CoordFields DEF Apply, At, IdsInv, Polled, First
      <3>4. CASE row' = SetSlurmId(row, j, coord[c].seen[j])
        BY <2>2, <3>3, <3>4
      <3>5. CASE row' = MarkTerminal(row, j, "lost")
        BY <2>1, <3>5, <1>r, NoNewIdsFrom
      <3>6. CASE row' = row
        BY <1>1, <2>0, <3>6
      <3> QED
        BY <3>1, <3>4, <3>5, <3>6
    <2> QED
      BY <2>1, <2>3, <2>4, <2>5, Writers
  <1> QED
    BY <1>1, OwnerKept DEF LedgerIds, Submissions, Owns

-----------------------------------------------------------------------------
(* The wrappers *)

(* A wrapper reaches the place where it records a submission only from the *)
(* submission itself.                                                      *)
LEMMA Recorders ==
  ASSUME TypeInv, [Next]_vars, NEW m \in SlurmIds, wrap'[m].pc = "mark",
         ~SubmitSuccessor(m)
  PROVE  wrap[m].pc = "mark" /\ wrap'[m].child = wrap[m].child
  <1>w. wrap \in [SlurmIds -> WrapSet]
    BY DEF TypeInv, TypeOK
  <1>1. ASSUME NEW i \in SlurmIds, Wrapper(i), i = m => ~SubmitSuccessor(i)
        PROVE  wrap'[m] = wrap[m]
    <2>1. CASE ReadRow(i) \/ MissingTemplate(i) \/ BadConfig(i) \/ ClaimRun(i)
      BY <2>1, <1>w DEF ReadRow, MissingTemplate, BadConfig, ClaimRun, Goto, Exit, WrapSet
    <2>2. CASE ClaimSuccessor(i) \/ MarkSuccessor(i)
      BY <2>2, <1>w DEF ClaimSuccessor, MarkSuccessor, Return, Goto, WrapSet
    <2>3. CASE SubmitSuccessor(i)
      BY <1>1, <2>3, <1>w DEF SubmitSuccessor, Return, WrapSet
    <2>4. CASE Finish(i) \/ WriteVerdict(i)
      BY <2>4, <1>w DEF Finish, WriteVerdict, Goto, Exit, WrapSet
    <2>5. CASE Conclude(i)
      BY <2>5, <1>w DEF Conclude, Verdict, Goto, Exit, WrapSet
    <2>6. CASE RunCase(i)
      <3>1. PICK v \in Verdicts :
              LET left == IF v = "error" THEN 0 ELSE wrap[i].left
              IN  wrap' = [wrap EXCEPT ![i].verdict = v, ![i].left = left,
                                       ![i].pc = IF left = 0 THEN "finish" ELSE "succ"]
        BY <2>6 DEF RunCase
      <3> QED
        BY <3>1, <1>w DEF WrapSet
    <2> QED
      BY <1>1, <2>1, <2>2, <2>3, <2>4, <2>5, <2>6 DEF Wrapper
  <1>2. ASSUME NEW i \in SlurmIds, Start(i) \/ Kill(i)
        PROVE  wrap'[m] = wrap[m]
    BY <1>2, <1>w DEF Start, Kill, WrapSet
  <1>3. ASSUME NEW c \in Coords, Scancel(c)
        PROVE  wrap'[m] = wrap[m]
    BY <1>3 DEF Scancel, NoWrap
  <1>4. CASE wrap' = wrap
    BY <1>4
  <1>5. ASSUME NEW c \in Coords, Coordinator(c), ~Scancel(c)
        PROVE  wrap' = wrap
    BY <1>5 DEF Coordinator, Begin, Top, Recover, Reset, Seed, Repair, List, Pick, Sbatch,
       Mark, Snapshot, Query, Apply, Settle, Finalize, RecordVerdict, Check, CancelRows,
       CancelScan, CancelMark, CancelEnd
  <1> QED
    BY <1>1, <1>2, <1>3, <1>4, <1>5 DEF Next, vars, ClaimAges, Crash, StartWatch, StartResume,
       StartCancel

LEMMA WrappersOwn ==
  ASSUME TypeInv, IdsInv, [Next]_vars, NEW m \in SlurmIds
  PROVE  ChildIsSuccessor(m)'
  <1> SUFFICES ASSUME wrap'[m].pc = "mark"
               PROVE  Owns(wrap[m].child, Successor(m))'
    BY DEF ChildIsSuccessor
  <1>t. /\ wrap \in [SlurmIds -> WrapSet] /\ slurm \in [SlurmIds -> SlurmSet]
        /\ WrapGood(wrap[m], slurm[m])
    BY DEF TypeInv, TypeOK, Structure
  <1>1. CASE SubmitSuccessor(m)
    <2>1. PICK id \in Fresh :
            /\ Enqueue(id, Successor(m), m)
            /\ wrap' = [wrap EXCEPT ![m].pc = "mark", ![m].child = id]
      BY <1>1, <1>t DEF SubmitSuccessor, Return, WrapSet
    <2>2. slurm[m].state = "RUNNING" /\ slurm[id].state = "FREE" /\ id \in SlurmIds
      BY <1>1, <1>t, <2>1 DEF SubmitSuccessor, WrapGood, Fresh
    <2>3. slurm'[id].job = Successor(m) /\ slurm'[m] = slurm[m]
      BY <2>1, <2>2, <1>t DEF Enqueue
    <2> QED
      BY <2>1, <2>2, <2>3, <1>t DEF Owns, Successor, Case, WrapSet
  <1>2. CASE ~SubmitSuccessor(m)
    <2>1. wrap[m].pc = "mark" /\ wrap'[m].child = wrap[m].child
      BY <1>2, Recorders
    <2>2. Owns(wrap[m].child, Successor(m)) /\ Successor(m) \in Jobs
      BY <2>1, <1>t DEF IdsInv, ChildIsSuccessor, WrapGood, Successor, Case
    <2>3. slurm[m].job \in Jobs
      BY <2>1, <1>t DEF WrapGood
    <2>4. slurm'[m].job = slurm[m].job
      BY <2>3, OwnerKept DEF Owns
    <2>5. wrap[m].child \in SlurmIds /\ slurm'[wrap[m].child].job = Successor(m)
      BY <2>2, OwnerKept
    <2> QED
      BY <2>1, <2>4, <2>5 DEF Owns, Successor, Case
  <1> QED
    BY <1>1, <1>2

-----------------------------------------------------------------------------
(* The coordinators *)

(* A coordinator that is put anywhere else than where it holds ids. *)
Harmless(r) == r.pc \notin {"mark", "query", "apply", "settle"}

LEMMA HarmlessHolds ==
  ASSUME NEW r, Harmless(r)
  PROVE  Submitted(r) /\ Polled(r)
  BY DEF Harmless, Submitted, Polled

LEMMA ContinuePlace ==
  ASSUME NEW c \in Coords, coord[c] \in CoordSet, NEW todo, NEW pc, NEW next \in Quiet
  PROVE  /\ Continue(c, todo, pc, next).pc \in {pc} \union Quiet
         /\ "pc" \in DOMAIN Continue(c, todo, pc, next)
  <1>1. "idle" \in Quiet
    BY DEF Quiet, CoordPcs
  <1> QED
    BY <1>1 DEF Continue, CoordSet, NoCoord

(* Where a command begins. *)
LEMMA FreshHolds ==
  /\ Harmless(NoCoord)
  /\ Harmless([NoCoord EXCEPT !.op = "watch", !.pc = "begin"])
  /\ Harmless([NoCoord EXCEPT !.op = "resume", !.pc = "begin"])
  /\ Harmless([NoCoord EXCEPT !.op = "cancel", !.pc = "cancel_pending"])
  BY DEF NoCoord, Harmless

LEMMA ContinueHolds ==
  ASSUME NEW c \in Coords, coord[c] \in CoordSet, NEW todo, NEW pc, NEW next \in Quiet,
         pc # "mark",
         pc \in {"query", "apply", "settle"} => \A j \in todo : Owns(coord[c].seen[j], j)
  PROVE  /\ Submitted(Continue(c, todo, pc, next))
         /\ Polled(Continue(c, todo, pc, next))
  <1>1. CASE todo # {}
    BY <1>1 DEF Continue, CoordSet, Submitted, Polled
  <1>2. CASE todo = {} /\ next = "idle"
    BY <1>2, HarmlessHolds DEF Continue, NoCoord, Harmless
  <1>3. CASE todo = {} /\ next # "idle"
    <2>1. Continue(c, todo, pc, next).pc = next
      BY <1>3 DEF Continue, NoCoord
    <2> QED
      BY <2>1, HarmlessHolds DEF Harmless, Quiet
  <1> QED
    BY <1>1, <1>2, <1>3

(* Counts and answers do not matter. *)
LEMMA Alike ==
  ASSUME NEW r \in CoordSet, Submitted(r), Polled(r), NEW x, NEW y, NEW id
  PROVE  /\ Submitted([r EXCEPT !.missing = x]) /\ Polled([r EXCEPT !.missing = x])
         /\ Submitted([[r EXCEPT !.missing = x] EXCEPT !.info = y])
         /\ Polled([[r EXCEPT !.missing = x] EXCEPT !.info = y])
         /\ Submitted([r EXCEPT !.missing[id] = x]) /\ Polled([r EXCEPT !.missing[id] = x])
  BY DEF CoordSet, Submitted, Polled

(* What one step of a coordinator leaves it with, in terms of the jobs of   *)
(* SLURM before the step; a submission is the one step that adds a job.     *)
LEMMA CoordinatorHolds ==
  ASSUME TypeInv, IdsInv, NEW c \in Coords, Coordinator(c), ~Sbatch(c)
  PROVE  Submitted(coord'[c]) /\ Polled(coord'[c])
  <1> DEFINE t == coord[c].todo
  <1>w. coord \in [Coords -> CoordSet] /\ coord[c] \in CoordSet /\ CoordGood(coord[c])
    BY DEF TypeInv, TypeOK, Structure
  <1>r. row \in [Jobs -> RowSet(SlurmIds)] /\ LedgerIds
    BY DEF TypeInv, TypeOK, IdsInv
  <1>h. Submitted(coord[c]) /\ Polled(coord[c])
    BY DEF IdsInv
  <1>1. ASSUME NEW state, Set(c, state), Submitted(state), Polled(state)
        PROVE  Submitted(coord'[c]) /\ Polled(coord'[c])
    BY <1>1, <1>w DEF Set
  <1>2. ASSUME NEW state, Set(c, state), Harmless(state)
        PROVE  Submitted(coord'[c]) /\ Polled(coord'[c])
    BY <1>1, <1>2, HarmlessHolds
  <1>q. ASSUME Quit(c)
        PROVE  Submitted(coord'[c]) /\ Polled(coord'[c])
    BY <1>q, <1>2 DEF Quit, NoCoord, Harmless
  <1>m. ASSUME NEW pc, pc \notin {"mark", "query", "apply", "settle"}, Move(c, pc)
        PROVE  Submitted(coord'[c]) /\ Polled(coord'[c])
    <2>1. [coord[c] EXCEPT !.pc = pc].pc = pc
      BY <1>w DEF CoordSet
    <2> QED
      BY <1>m, <2>1, <1>2 DEF Move, Harmless
  <1>c. ASSUME NEW todo, NEW pc \in {"reset", "pick", "list", "cancel_mark"},
               NEW next \in Quiet, Set(c, Continue(c, todo, pc, next))
        PROVE  Submitted(coord'[c]) /\ Polled(coord'[c])
    BY <1>c, <1>1, <1>w, ContinueHolds
  <1>3. CASE Begin(c) \/ Top(c) \/ CancelRows(c) \/ CancelEnd(c)
    BY <1>3, <1>m, <1>q DEF Begin, Top, CancelRows, CancelEnd
  <1>4. CASE Finalize(c) \/ RecordVerdict(c) \/ Check(c)
    BY <1>4, <1>m, <1>q DEF Finalize, RecordVerdict, Check, Verdict
  <1>5. CASE Recover(c)
    BY <1>5, <1>c, AfterPcs DEF Recover
  <1>6. CASE Reset(c)
    BY <1>6, <1>c, AfterPcs DEF Reset
  <1>7. CASE List(c)
    BY <1>7, <1>c, AfterPcs DEF List
  <1>8. CASE CancelMark(c)
    BY <1>8, <1>c DEF CancelMark, Quiet, CoordPcs
  <1>9. CASE Scancel(c)
    BY <1>9, <1>c DEF Scancel, Quiet, CoordPcs
  <1>10. CASE Seed(c)
    <2>1. PICK seeds, slots :
            coord' = [coord EXCEPT ![c] = [Continue(c, seeds, "pick", "idle")
                                             EXCEPT !.slots = slots]]
      BY <1>10 DEF Seed
    <2> DEFINE state == Continue(c, seeds, "pick", "idle")
    <2>2. state.pc \in {"pick"} \union Quiet /\ "pc" \in DOMAIN state
      BY <1>w, ContinuePlace DEF Quiet, CoordPcs
    <2>3. Set(c, [state EXCEPT !.slots = slots])
      BY <2>1 DEF Set
    <2> HIDE DEF state
    <2>4. Harmless([state EXCEPT !.slots = slots])
      BY <2>2 DEF Harmless, Quiet
    <2> QED
      BY <2>3, <2>4, <1>2
  <1>11. CASE Repair(c)
    <2>1. \/ Set(c, Continue(c, {}, "list", AfterRepair(coord[c].op)))
          \/ \E slots : Set(c, [coord[c] EXCEPT !.pc = "list", !.slots = slots])
      BY <1>11 DEF Repair
    <2>2. ASSUME NEW slots, Set(c, [coord[c] EXCEPT !.pc = "list", !.slots = slots])
          PROVE  Submitted(coord'[c]) /\ Polled(coord'[c])
      <3>1. [coord[c] EXCEPT !.pc = "list", !.slots = slots].pc = "list"
        BY <1>w DEF CoordSet
      <3> QED
        BY <2>2, <3>1, <1>2 DEF Harmless
    <2> QED
      BY <2>1, <2>2, <1>c, AfterPcs
  <1>12. CASE Pick(c)
    <2>1. PICK j \in First(t) :
            \/ \E dep : Set(c, [coord[c] EXCEPT !.pc = "sbatch", !.job = j, !.dep = dep])
            \/ Set(c, Continue(c, t \ {j}, "pick", AfterRepair(coord[c].op)))
      BY <1>12 DEF Pick
    <2>2. ASSUME NEW dep, Set(c, [coord[c] EXCEPT !.pc = "sbatch", !.job = j, !.dep = dep])
          PROVE  Submitted(coord'[c]) /\ Polled(coord'[c])
      <3>1. [coord[c] EXCEPT !.pc = "sbatch", !.job = j, !.dep = dep].pc = "sbatch"
        BY <1>w DEF CoordSet
      <3> QED
        BY <2>2, <3>1, <1>2 DEF Harmless
    <2> QED
      BY <2>1, <2>2, <1>c, AfterPcs
  <1>13. CASE Mark(c)
    <2>1. PICK rest, slots, state :
            /\ state = Continue(c, rest, "pick", AfterRepair(coord[c].op))
            /\ Set(c, state) \/ Set(c, [state EXCEPT !.slots = slots])
      BY <1>13 DEF Mark
    <2>2. state.pc \in Quiet /\ "pc" \in DOMAIN state
      BY <2>1, <1>w, AfterPcs DEF Continue, NoCoord, CoordSet, Quiet, CoordPcs
    <2>3. Harmless(state) /\ Harmless([state EXCEPT !.slots = slots])
      BY <2>2 DEF Harmless, Quiet
    <2> QED
      BY <2>1, <2>3, <1>2
  <1>14. CASE CancelScan(c)
    <2>1. PICK active, ids :
            Set(c, [coord[c] EXCEPT !.pc = "scancel", !.todo = active, !.seen = ids])
      BY <1>14 DEF CancelScan
    <2>2. [coord[c] EXCEPT !.pc = "scancel", !.todo = active, !.seen = ids].pc = "scancel"
      BY <1>w DEF CoordSet
    <2> QED
      BY <2>1, <2>2, <1>2 DEF Harmless
  <1>15. CASE Snapshot(c)
    <2> DEFINE old == StaleActive(row)
               state == Continue(c, old, "query", AfterReconcile(coord[c].op))
               seen == [j \in Jobs |-> IF j \in old THEN row[j].slurm_job_id ELSE NoId]
               next == [state EXCEPT !.seen = seen]
    <2>1. old \in SUBSET Jobs /\ \A j \in old : Owns(seen[j], j)
      BY <1>r DEF StaleActive, WithStatus, LedgerIds, Submissions, Owns
    <2>2. state \in CoordSet
      <3> HIDE DEF old
      <3> QED
        BY <1>w, <2>1, ContinueType, AfterPcs DEF CoordPcs
    <2>3. Harmless(state) \/ (state.pc = "query" /\ state.todo = old)
      <3> HIDE DEF old
      <3>1. AfterReconcile(coord[c].op) \in Quiet
        BY AfterPcs
      <3> QED
        BY <1>w, <3>1 DEF Continue, CoordSet, NoCoord, Quiet, CoordPcs, Harmless
    <2>4. Submitted(next) /\ Polled(next)
      <3> HIDE DEF old, state, seen
      <3> QED
        BY <2>1, <2>2, <2>3 DEF CoordSet, Submitted, Polled, Harmless
    <2>5. Set(c, next)
      BY <1>15 DEF Snapshot
    <2> HIDE DEF next
    <2> QED
      BY <2>4, <2>5, <1>1
  <1>16. CASE Query(c)
    <2>1. PICK rest, answer, popped :
            LET state == Continue(c, rest, "apply", AfterReconcile(coord[c].op))
            IN  /\ rest \subseteq t
                /\ \/ Set(c, [state EXCEPT !.missing = popped])
                   \/ Set(c, [[state EXCEPT !.missing = popped] EXCEPT !.info = answer])
      BY <1>16 DEF Query
    <2> DEFINE state == Continue(c, rest, "apply", AfterReconcile(coord[c].op))
    <2>2. rest \subseteq t /\ t \subseteq Jobs /\ \A j \in t : Owns(coord[c].seen[j], j)
      BY <2>1, <1>16, <1>w, <1>h, CoordFields DEF Query, At, Polled
    <2>3. state \in CoordSet
      BY <1>w, <2>2, ContinueType, AfterPcs DEF CoordPcs
    <2>4. Submitted(state) /\ Polled(state)
      BY <1>w, <2>2, ContinueHolds, AfterPcs
    <2> HIDE DEF state
    <2>5. \/ Set(c, [state EXCEPT !.missing = popped])
          \/ Set(c, [[state EXCEPT !.missing = popped] EXCEPT !.info = answer])
      BY <2>1 DEF state
    <2> QED
      BY <2>3, <2>4, <2>5, Alike, <1>1
  <1>17. CASE Apply(c)
    <2>1. PICK j, id, count :
            \/ Set(c, [Continue(c, t \ {j}, "apply", AfterReconcile(coord[c].op))
                         EXCEPT !.missing[id] = count])
            \/ Set(c, [coord[c] EXCEPT !.pc = "settle", !.job = j, !.missing[id] = 0])
      BY <1>17 DEF Apply
    <2> DEFINE state == Continue(c, t \ {j}, "apply", AfterReconcile(coord[c].op))
               ended == [coord[c] EXCEPT !.pc = "settle", !.job = j, !.missing[id] = 0]
    <2>2. t \subseteq Jobs /\ \A m \in t : Owns(coord[c].seen[m], m)
      BY <1>17, <1>w, <1>h, CoordFields DEF Apply, At, Polled
    <2>3. state \in CoordSet
      <3>1. t \ {j} \in SUBSET Jobs
        BY <2>2
      <3> QED
        BY <1>w, <3>1, ContinueType, AfterPcs DEF CoordPcs
    <2>4. Submitted(state) /\ Polled(state)
      BY <1>w, <2>2, ContinueHolds, AfterPcs
    <2>5. Submitted(ended) /\ Polled(ended)
      BY <1>w, <2>2 DEF CoordSet, Submitted, Polled
    <2> HIDE DEF state, ended
    <2>6. Set(c, [state EXCEPT !.missing[id] = count]) \/ Set(c, ended)
      BY <2>1 DEF state, ended
    <2> QED
      BY <2>3, <2>4, <2>5, <2>6, Alike, <1>1
  <1>18. CASE Settle(c)
    <2>1. \A m \in t : Owns(coord[c].seen[m], m)
      BY <1>18, <1>h DEF Settle, At, Polled
    <2>2. Set(c, Continue(c, t \ {coord[c].job}, "apply", AfterReconcile(coord[c].op)))
      BY <1>18 DEF Settle
    <2> QED
      BY <1>w, <2>1, <2>2, ContinueHolds, AfterPcs, <1>1
  <1> QED
    BY <1>3, <1>4, <1>5, <1>6, <1>7, <1>8, <1>9, <1>10, <1>11, <1>12, <1>13, <1>14, <1>15,
       <1>16, <1>17, <1>18 DEF Coordinator

LEMMA CoordinatorsOwn ==
  ASSUME TypeInv, TypeInv', IdsInv, [Next]_vars, NEW d \in Coords
  PROVE  Submitted(coord[d])' /\ Polled(coord[d])'
  <1>w. coord \in [Coords -> CoordSet]
    BY DEF TypeInv, TypeOK
  <1>n. coord'[d] \in CoordSet /\ CoordGood(coord'[d])
    BY DEF TypeInv, TypeOK, Structure
  <1>p. ASSUME NEW todo, Set(d, Continue(d, todo, "pick", AfterRepair(coord[d].op)))
        PROVE  coord'[d].pc \notin {"mark", "query", "apply", "settle"}
    <2>1. coord'[d].pc \in {"pick"} \union Quiet
      BY <1>p, <1>w, ContinuePlace, AfterPcs DEF Set
    <2> QED
      BY <2>1 DEF Quiet
  <1>i. ASSUME NEW id, Set(d, [coord[d] EXCEPT !.pc = "mark", !.child = id])
        PROVE  coord'[d].pc = "mark"
    BY <1>i, <1>w DEF Set, CoordSet
  <1>1. CASE Sbatch(d)
    <2>1. CASE coord'[d].pc = "mark"
      <3>1. PICK id \in Fresh :
              /\ Enqueue(id, coord[d].job, coord[d].dep)
              /\ Set(d, [coord[d] EXCEPT !.pc = "mark", !.child = id])
        BY <1>1, <2>1, <1>p DEF Sbatch
      <3>2. id \in SlurmIds /\ slurm'[id].job = coord[d].job
        BY <3>1 DEF Fresh, Enqueue, TypeInv, TypeOK
      <3>3. coord'[d].child = id /\ coord'[d].job = coord[d].job
        BY <3>1, <1>w DEF Set, CoordSet
      <3> QED
        BY <2>1, <3>2, <3>3 DEF Submitted, Polled, Owns
    <2>2. CASE coord'[d].pc # "mark"
      <3>1. \/ \E id : Set(d, [coord[d] EXCEPT !.pc = "mark", !.child = id])
            \/ \E todo : Set(d, Continue(d, todo, "pick", AfterRepair(coord[d].op)))
        BY <1>1 DEF Sbatch
      <3>2. coord'[d].pc \notin {"query", "apply", "settle"}
        BY <1>p, <1>i, <3>1
      <3> QED
        BY <2>2, <3>2 DEF Submitted, Polled
    <2> QED
      BY <2>1, <2>2
  <1>2. CASE ~Sbatch(d)
    <2>1. Submitted(coord'[d]) /\ Polled(coord'[d])
      <3>0. Submitted(coord[d]) /\ Polled(coord[d])
        BY DEF IdsInv
      <3>1. ASSUME coord'[d] = coord[d]
            PROVE  Submitted(coord'[d]) /\ Polled(coord'[d])
        BY <3>0, <3>1
      <3>2. CASE Coordinator(d)
        BY <1>2, <3>2, CoordinatorHolds
      <3>3. ASSUME Crash(d) \/ StartWatch(d) \/ StartResume(d) \/ StartCancel(d)
            PROVE  Submitted(coord'[d]) /\ Polled(coord'[d])
        <4>1. Harmless(coord'[d])
          <5>1. ASSUME NEW state, Set(d, state)
                PROVE  coord'[d] = state
            BY <5>1, <1>w DEF Set
          <5> QED
            BY <3>3, <5>1, FreshHolds DEF Crash, StartWatch, StartResume, StartCancel, Quit
        <4> QED
          BY <4>1, HarmlessHolds
      <3>4. ASSUME NEW c \in Coords, c # d,
                   Coordinator(c) \/ Crash(c) \/ StartWatch(c) \/ StartResume(c) \/ StartCancel(c)
            PROVE  coord'[d] = coord[d]
        <4>1. ASSUME NEW state, Set(c, state)
              PROVE  coord'[d] = coord[d]
          BY <3>4, <4>1, <1>w DEF Set
        <4>2. CASE Crash(c) \/ StartWatch(c) \/ StartResume(c) \/ StartCancel(c)
          BY <4>1, <4>2 DEF Crash, StartWatch, StartResume, StartCancel, Quit
        <4>3. CASE Coordinator(c)
          BY <3>4, <4>3, <1>w DEF Coordinator, Begin, Top, Recover, Reset, Seed, Repair, List,
             Pick, Sbatch, Mark, Snapshot, Query, Apply, Settle, Finalize, RecordVerdict, Check,
             CancelRows, CancelScan, Scancel, CancelMark, CancelEnd, Set, Move, Quit
        <4> QED
          BY <3>4, <4>2, <4>3
      <3>5. ASSUME NEW i \in SlurmIds, Wrapper(i)
            PROVE  coord' = coord
        BY <3>5 DEF Wrapper, ReadRow, MissingTemplate, BadConfig, ClaimRun, ClaimSuccessor,
           SubmitSuccessor, MarkSuccessor, RunCase, Finish, Conclude, WriteVerdict
      <3> QED
        BY <3>1, <3>2, <3>3, <3>4, <3>5 DEF Next, vars, ClaimAges, Start, Kill
    <2>2. coord'[d].pc \in {"query", "apply", "settle"} => coord'[d].todo \subseteq Jobs
      BY <1>n, CoordFields
    <2>3. coord'[d].pc = "mark" => coord'[d].job \in Jobs
      BY <1>n DEF CoordGood
    <2>4. Submitted(coord[d])'
      <3>1. ASSUME coord'[d].pc = "mark"
            PROVE  coord'[d].child \in SlurmIds /\ slurm'[coord'[d].child].job = coord'[d].job
        BY <3>1, <2>1, <2>3, OwnerKept DEF Submitted
      <3> QED
        BY <3>1 DEF Submitted, Owns
    <2>5. Polled(coord[d])'
      <3>1. ASSUME coord'[d].pc \in {"query", "apply", "settle"}, NEW j \in coord'[d].todo
            PROVE  coord'[d].seen[j] \in SlurmIds /\ slurm'[coord'[d].seen[j]].job = j
        BY <3>1, <2>1, <2>2, OwnerKept DEF Polled
      <3> QED
        BY <3>1 DEF Polled, Owns
    <2> QED
      BY <2>4, <2>5
  <1> QED
    BY <1>1, <1>2

-----------------------------------------------------------------------------
LEMMA InitialIds == Init => IdsInv
  <1> SUFFICES ASSUME Init PROVE IdsInv
    OBVIOUS
  <1>1. LedgerIds
    BY DEF Init, LedgerIds, NewRow
  <1>2. \A i \in SlurmIds : ChildIsSuccessor(i)
    BY DEF Init, NoWrap, ChildIsSuccessor
  <1>3. \A c \in Coords : Harmless(coord[c])
    BY DEF Init, NoCoord, Harmless
  <1> QED
    BY <1>1, <1>2, <1>3, HarmlessHolds DEF IdsInv

LEMMA IdsStep == TypeInv /\ IdsInv /\ [Next]_vars => TypeInv' /\ IdsInv'
  <1> SUFFICES ASSUME TypeInv, IdsInv, [Next]_vars
               PROVE  TypeInv' /\ IdsInv'
    OBVIOUS
  <1>1. TypeInv'
    BY NextTypes
  <1> QED
    BY <1>1, RowsOwn, WrappersOwn, CoordinatorsOwn DEF IdsInv

(* The SLURM id in a row is the id of a job that was submitted for that     *)
(* case, with any number of submitters, wrappers and pollers, whichever die *)
(* and however late they write the ids they hold: reconcile_slurm and       *)
(* cmd_cancel never act on the job of another case.                         *)
THEOREM IdsOfTheCase == Spec => []LedgerIds
  <1>1. Init => TypeInv /\ IdsInv
    BY InitialTypes, InitialIds
  <1>2. TypeInv /\ IdsInv /\ [Next]_vars => TypeInv' /\ IdsInv'
    BY IdsStep
  <1>3. IdsInv => LedgerIds
    BY DEF IdsInv
  <1> QED
    BY <1>1, <1>2, <1>3, PTL DEF Spec

-----------------------------------------------------------------------------
(* What one step may do to job i of SLURM and to the wrapper inside it, and *)
(* on what grounds                                                          *)

Begun == {"succ", "sbatch", "mark", "run", "finish"}
Ending == {"finalize"} \union RunVerdicts

Becomes(i, state, pc, verdict) ==
  /\ slurm'[i] = [slurm[i] EXCEPT !.state = state]
  /\ wrap'[i].pc = pc /\ wrap'[i].verdict = verdict
Goes(i, pc, verdict) == Becomes(i, slurm[i].state, pc, verdict)

Stays(i) == slurm'[i] = slurm[i] /\ wrap'[i] = wrap[i]
Handed(i) ==
  slurm[i].state = "FREE" /\ slurm'[i].state = "PENDING" /\ wrap'[i] = wrap[i]
Begins(i) ==
  /\ slurm[i].state = "PENDING" /\ DependencyMet(i)
  /\ Becomes(i, "RUNNING", "read", wrap[i].verdict)
Stopped(i) ==
  /\ slurm[i].state \in SlurmLive /\ row' = row
  /\ \E state \in SlurmEnded \ {"COMPLETED"} : Becomes(i, state, "off", wrap[i].verdict)
  /\ "kill" \in Faults \/ \E c \in Coords : coord[c].pc = "scancel"
Reads(i) == wrap[i].pc = "read" /\ Goes(i, "claim", wrap[i].verdict)
Leaves(i) ==
  /\ wrap[i].pc \in {"read", "claim"} /\ row[Case(i)].status \notin RunnableStatuses
  /\ Becomes(i, "COMPLETED", "off", wrap[i].verdict) /\ row' = row
Unfit(i) ==
  /\ wrap[i].pc = "claim"
  /\ Becomes(i, "FAILED", "off", wrap[i].verdict) /\ row' = row
Spoils(i) ==
  /\ wrap[i].pc = "claim" /\ Goes(i, "finalize", "error")
  /\ row' = MarkTerminal(row, Case(i), "error")
Claims(i) ==
  /\ wrap[i].pc = "claim" /\ Goes(i, "succ", wrap[i].verdict)
  /\ row[Case(i)].status \in RunnableStatuses /\ row' = MarkRunning(row, Case(i))
Works(i) ==
  /\ wrap[i].pc \in {"succ", "sbatch", "mark"}
  /\ \E pc \in Begun : /\ Goes(i, pc, wrap[i].verdict)
                       /\ pc = "run" => wrap[i].verdict = "none"
Runs(i) ==
  /\ wrap[i].pc = "run" /\ row' = row
  /\ \E v \in Verdicts, pc \in {"succ", "finish"} : Goes(i, pc, v)
Finishes(i) ==
  /\ wrap[i].pc = "finish" /\ Goes(i, "finalize", wrap[i].verdict)
  /\ row' = MarkTerminal(row, Case(i), wrap[i].verdict)
Judges(i) ==
  /\ wrap[i].pc = "finalize" /\ row' = row
  /\ \E pc \in RunVerdicts : Goes(i, pc, wrap[i].verdict)
Ends(i) ==
  /\ wrap[i].pc \in Ending
  /\ Becomes(i, ExitState(i), "off", wrap[i].verdict) /\ row' = row

Turn(i) ==
  \/ Stays(i) \/ Handed(i) \/ Begins(i) \/ Stopped(i)
  \/ Reads(i) \/ Leaves(i) \/ Unfit(i) \/ Spoils(i) \/ Claims(i)
  \/ Works(i) \/ Runs(i) \/ Finishes(i) \/ Judges(i) \/ Ends(i)

LEMMA WrapperTurn ==
  ASSUME TypeInv, NEW i \in SlurmIds, Wrapper(i)
  PROVE  Turn(i)
  <1>w. wrap \in [SlurmIds -> WrapSet] /\ wrap[i] \in WrapSet
    BY DEF TypeInv, TypeOK
  <1>s. slurm \in [SlurmIds -> SlurmSet] /\ slurm[i] \in SlurmSet
    BY DEF TypeInv, TypeOK
  <1>g. WrapGood(wrap[i], slurm[i])
    BY DEF TypeInv, Structure
  <1>e. ASSUME NEW state, Exit(i, state)
        PROVE  Becomes(i, state, "off", wrap[i].verdict)
    BY <1>e, <1>w, <1>s DEF Exit, Becomes, WrapSet
  <1>p. ASSUME NEW pc, Goto(i, pc), UNCHANGED slurm
        PROVE  Goes(i, pc, wrap[i].verdict)
    BY <1>p, <1>w, <1>s DEF Goto, Goes, Becomes, WrapSet, SlurmSet
  <1>1. CASE ReadRow(i)
    <2>1. CASE Terminal(row, Case(i))
      BY <1>1, <2>1, <1>e DEF ReadRow, Leaves, Turn, Terminal, TERMINAL_STATUSES, RunnableStatuses
    <2>2. CASE ~Terminal(row, Case(i))
      BY <1>1, <2>2, <1>p DEF ReadRow, Reads, Turn
    <2> QED
      BY <2>1, <2>2
  <1>2. CASE MissingTemplate(i)
    BY <1>2, <1>e DEF MissingTemplate, Unfit, Turn
  <1>3. CASE BadConfig(i)
    BY <1>3, <1>w, <1>s DEF BadConfig, Spoils, Goes, Becomes, Turn, WrapSet, SlurmSet
  <1>4. CASE ClaimRun(i)
    <2>1. CASE row[Case(i)].status \in RunnableStatuses
      <3>1. Goes(i, "succ", wrap[i].verdict)
        BY <1>4, <2>1, <1>w, <1>s DEF ClaimRun, Goes, Becomes, WrapSet, SlurmSet
      <3> QED
        BY <1>4, <2>1, <3>1 DEF ClaimRun, Claims, Turn
    <2>2. CASE row[Case(i)].status \notin RunnableStatuses
      <3>1. row' = row
        BY <1>4, <2>2 DEF ClaimRun, MarkRunning, Transition
      <3> QED
        BY <1>4, <2>2, <3>1, <1>e DEF ClaimRun, Leaves, Turn
    <2> QED
      BY <2>1, <2>2
  <1>r. ASSUME NEW done \in BOOLEAN, Return(i, done), UNCHANGED slurm,
               wrap[i].pc \in {"succ", "sbatch", "mark"}
        PROVE  Works(i)
    <2>1. PICK pc \in {"run", "finish", "succ"} :
            /\ wrap'[i].pc = pc /\ wrap'[i].verdict = wrap[i].verdict
            /\ pc = "run" => wrap[i].verdict = "none"
      BY <1>r, <1>w DEF Return, WrapSet
    <2> QED
      BY <1>r, <2>1, <1>s DEF Works, Goes, Becomes, Begun, SlurmSet
  <1>5. CASE ClaimSuccessor(i)
    <2>1. CASE Goto(i, "sbatch")
      BY <1>5, <2>1, <1>p DEF ClaimSuccessor, Works, Begun, Turn
    <2>2. CASE Return(i, TRUE)
      BY <1>5, <2>2, <1>r DEF ClaimSuccessor, Turn
    <2> QED
      BY <1>5, <2>1, <2>2 DEF ClaimSuccessor
  <1>6. CASE SubmitSuccessor(i)
    <2>1. ASSUME NEW id \in Fresh, Enqueue(id, Successor(i), i),
                 wrap' = [wrap EXCEPT ![i].pc = "mark", ![i].child = id]
          PROVE  Works(i)
      <3>1. id # i
        BY <1>6, <1>g DEF Fresh, WrapGood, SubmitSuccessor
      <3>2. slurm'[i] = slurm[i] /\ wrap'[i].pc = "mark" /\ wrap'[i].verdict = wrap[i].verdict
        BY <2>1, <3>1, <1>w, <1>s DEF Enqueue, WrapSet
      <3> QED
        BY <1>6, <3>2, <1>s DEF SubmitSuccessor, Works, Goes, Becomes, Begun, SlurmSet
    <2>2. CASE Return(i, FALSE) /\ UNCHANGED slurm
      <3>1. wrap[i].pc = "sbatch" /\ FALSE \in BOOLEAN
        BY <1>6 DEF SubmitSuccessor
      <3> QED
        BY <2>2, <3>1, <1>r DEF Turn
    <2> QED
      BY <1>6, <2>1, <2>2 DEF SubmitSuccessor, Turn
  <1>7. CASE MarkSuccessor(i)
    BY <1>7, <1>r DEF MarkSuccessor, Turn
  <1>8. CASE RunCase(i)
    <2>1. PICK v \in Verdicts, pc \in {"succ", "finish"} :
            wrap'[i].pc = pc /\ wrap'[i].verdict = v
      <3>1. PICK v \in Verdicts :
              LET left == IF v = "error" THEN 0 ELSE wrap[i].left
              IN  wrap' = [wrap EXCEPT ![i].verdict = v, ![i].left = left,
                                       ![i].pc = IF left = 0 THEN "finish" ELSE "succ"]
        BY <1>8 DEF RunCase
      <3> QED
        BY <3>1, <1>w DEF WrapSet
    <2> QED
      BY <1>8, <2>1, <1>s DEF RunCase, Runs, Goes, Becomes, Turn, SlurmSet
  <1>9. CASE Finish(i)
    BY <1>9, <1>p DEF Finish, Finishes, Turn
  <1>10. CASE Conclude(i)
    <2>1. CASE Goto(i, Verdict(row)) /\ UNCHANGED slurm
      <3>1. Verdict(row) \in RunVerdicts
        BY DEF Verdict, RunVerdicts
      <3> QED
        BY <1>10, <2>1, <3>1, <1>p DEF Conclude, Judges, Turn
    <2>2. CASE Exit(i, ExitState(i))
      BY <1>10, <2>2, <1>e DEF Conclude, Ends, Ending, Turn
    <2> QED
      BY <1>10, <2>1, <2>2 DEF Conclude
  <1>11. CASE WriteVerdict(i)
    BY <1>11, <1>e DEF WriteVerdict, Ends, Ending, Turn
  <1> QED
    BY <1>1, <1>2, <1>3, <1>4, <1>5, <1>6, <1>7, <1>8, <1>9, <1>10, <1>11 DEF Wrapper

LEMMA JobTurn ==
  ASSUME TypeInv, [Next]_vars, NEW i \in SlurmIds
  PROVE  Turn(i)
  <1>w. wrap \in [SlurmIds -> WrapSet] /\ wrap[i] \in WrapSet
    BY DEF TypeInv, TypeOK
  <1>s. slurm \in [SlurmIds -> SlurmSet] /\ slurm[i] \in SlurmSet
    BY DEF TypeInv, TypeOK
  <1>g. WrapGood(wrap[i], slurm[i])
    BY DEF TypeInv, Structure
  <1>n. ASSUME NEW id \in Fresh, NEW j, NEW dep, Enqueue(id, j, dep), wrap'[i] = wrap[i]
        PROVE  Stays(i) \/ Handed(i)
    <2>1. slurm[id].state = "FREE"
      BY <1>n DEF Fresh
    <2>2. CASE id = i
      BY <1>n, <2>1, <2>2, <1>s DEF Enqueue, Handed
    <2>3. CASE id # i
      BY <1>n, <2>3, <1>s DEF Enqueue, Stays
    <2> QED
      BY <2>2, <2>3
  <1>1. ASSUME NEW m \in SlurmIds, Wrapper(m), m # i
        PROVE  Stays(i) \/ Handed(i)
    <2>1. wrap'[i] = wrap[i]
      BY <1>1, <1>w DEF Wrapper, ReadRow, MissingTemplate, BadConfig, ClaimRun, ClaimSuccessor,
         SubmitSuccessor, MarkSuccessor, RunCase, Finish, Conclude, WriteVerdict, Goto, Exit, Return
    <2>2. CASE SubmitSuccessor(m)
      BY <2>1, <2>2, <1>n DEF SubmitSuccessor, Stays
    <2>3. ASSUME NEW state, Exit(m, state)
          PROVE  slurm'[i] = slurm[i]
      BY <1>1, <2>3, <1>s DEF Exit
    <2> QED
      BY <1>1, <2>1, <2>2, <2>3 DEF Stays, Wrapper, ReadRow, MissingTemplate, BadConfig, ClaimRun,
         ClaimSuccessor, MarkSuccessor, RunCase, Finish, Conclude, WriteVerdict
  <1>2. ASSUME NEW m \in SlurmIds, Start(m)
        PROVE  Stays(i) \/ Begins(i)
    BY <1>2, <1>w, <1>s DEF Start, Stays, Begins, Becomes, WrapSet, SlurmSet
  <1>3. ASSUME NEW m \in SlurmIds, Kill(m)
        PROVE  Stays(i) \/ Stopped(i)
    <2>1. CASE m # i
      BY <1>3, <2>1, <1>w, <1>s DEF Kill, Stays
    <2>2. CASE m = i
      <3>1. PICK state \in KillStates : slurm' = [slurm EXCEPT ![i].state = state]
        BY <1>3, <2>2 DEF Kill
      <3>2. state \in SlurmEnded \ {"COMPLETED"}
        BY KindsAssumption DEF SlurmEnded
      <3>3. Becomes(i, state, "off", wrap[i].verdict)
        BY <1>3, <2>2, <3>1, <1>w, <1>s DEF Kill, Becomes, WrapSet
      <3> QED
        BY <1>3, <2>2, <3>2, <3>3 DEF Kill, Stopped, SlurmLive, Fault
    <2> QED
      BY <2>1, <2>2
  <1>4. ASSUME NEW c \in Coords, Coordinator(c)
        PROVE  Stays(i) \/ Handed(i) \/ Stopped(i)
    <2>1. CASE Sbatch(c)
      BY <2>1, <1>n DEF Sbatch, Stays
    <2>2. CASE Scancel(c)
      <3>1. CASE slurm'[i] = slurm[i] /\ wrap'[i] = wrap[i]
        BY <3>1 DEF Stays
      <3>2. CASE /\ slurm[i].state \in SlurmLive
                 /\ slurm'[i] = [slurm[i] EXCEPT !.state = "CANCELLED"]
                 /\ wrap'[i] = [NoWrap EXCEPT !.verdict = wrap[i].verdict]
        <4>1. Becomes(i, "CANCELLED", "off", wrap[i].verdict)
          BY <3>2 DEF Becomes, NoWrap
        <4> QED
          BY <2>2, <3>2, <4>1 DEF Scancel, At, Stopped, SlurmEnded
      <3> QED
        BY <2>2, <3>1, <3>2 DEF Scancel
    <2> QED
      BY <1>4, <2>1, <2>2 DEF Stays, Coordinator, Begin, Top, Recover, Reset, Seed, Repair, List,
         Pick, Mark, Snapshot, Query, Apply, Settle, Finalize, RecordVerdict, Check, CancelRows,
         CancelScan, CancelMark, CancelEnd
  <1> QED
    BY <1>1, <1>2, <1>3, <1>4, WrapperTurn DEF Turn, Stays, Next, vars, ClaimAges, Crash,
       StartWatch, StartResume, StartCancel

-----------------------------------------------------------------------------
(* What one step may do to coordinator c, and on what grounds               *)

(* Where a coordinator relies on what it has read or done before.           *)
Attentive == {"reset", "sbatch", "mark", "query", "apply", "settle"}
Polling == {"apply", "settle"}
(* A cancel that has ended the pending rows, and a cancel anywhere.         *)
Cancelling == {"cancel_scan", "scancel", "cancel_mark", "cancel_end"}
CancelPcs == {"cancel_pending"} \union Cancelling

Walks(c) ==
  /\ coord'[c].pc \notin Attentive
  /\ coord'[c].pc = "cancel_pending" => "cancel" \in Faults
  /\ coord'[c].pc \in Cancelling => coord[c].pc \in Cancelling \/ CancelRows(c)
  /\ coord[c].pc = "sbatch" =>
       "crash" \in Faults \/ (slurm' = slurm /\ row' = ReleaseSubmission(row, coord[c].job))
  /\ coord[c].pc = "mark" =>
       \/ "crash" \in Faults
       \/ slurm' = slurm /\ row' = MarkScheduled(row, coord[c].job, coord[c].child)
Resets(c) ==
  /\ coord'[c].pc = "reset"
  /\ \/ coord[c].pc = "reset"
     \/ /\ coord[c].pc = "recover"
        /\ coord[c].op = "resume" \/ \E j \in Jobs : row[j].stale
Picks(c) ==
  /\ coord[c].pc = "pick" /\ coord'[c].pc = "sbatch"
  /\ \E j \in Jobs :
       /\ coord'[c].job = j /\ row[j].status = "pending"
       /\ row' = ClaimForSubmission(row, j) /\ slurm' = slurm
       /\ j > K => Terminal(row, j - K)
       /\ coord'[c].dep = IF j > K THEN row[j - K].slurm_job_id ELSE NoId
Submits(c) ==
  /\ coord[c].pc = "sbatch" /\ coord'[c].pc = "mark" /\ coord'[c].job = coord[c].job
  /\ coord'[c].child \in Fresh
  /\ Enqueue(coord'[c].child, coord[c].job, coord[c].dep) /\ row' = row
Snaps(c) ==
  /\ coord[c].pc = "snapshot" /\ coord'[c].pc = "query" /\ row' = row
  /\ \A j \in coord'[c].todo : /\ j \in StaleActive(row)
                               /\ coord'[c].seen[j] = row[j].slurm_job_id
Asks(c) ==
  /\ coord[c].pc = "query" /\ coord'[c].pc = "apply" /\ row' = row /\ slurm' = slurm
  /\ coord'[c].todo \subseteq coord[c].todo /\ coord'[c].seen = coord[c].seen
  /\ \A j \in coord'[c].todo :
       \/ coord'[c].info[j] = slurm[coord[c].seen[j]].state
       \/ coord'[c].info[j] = "absent" /\ Fault("outage")
Takes(c) ==
  /\ coord[c].pc \in Polling /\ coord'[c].pc \in Polling /\ slurm' = slurm
  /\ coord'[c].todo \subseteq coord[c].todo
  /\ coord'[c].seen = coord[c].seen /\ coord'[c].info = coord[c].info
  /\ coord'[c].pc = "settle" => /\ coord'[c].job \in coord'[c].todo
                                /\ coord[c].info[coord'[c].job] \in SlurmEnded

CoordTurn(c) ==
  \/ coord'[c] = coord[c]
  \/ Walks(c) \/ Resets(c) \/ Picks(c) \/ Submits(c) \/ Snaps(c) \/ Asks(c) \/ Takes(c)

(* Where a loop over rows leads when no row is left.                        *)
Resting == {"repair", "snapshot", "finalize", "idle", "cancel_end"}

LEMMA AfterRests ==
  ASSUME NEW op
  PROVE  /\ AfterRecover(op) \in Resting \ CancelPcs /\ AfterRepair(op) \in Resting \ CancelPcs
         /\ AfterReconcile(op) \in Resting \ CancelPcs
  BY DEF AfterRecover, AfterRepair, AfterReconcile, Resting, CancelPcs, Cancelling

LEMMA ContinueIs ==
  ASSUME NEW c \in Coords, coord[c] \in CoordSet, NEW todo \in SUBSET Jobs,
         NEW pc \in CoordPcs, NEW next \in Resting
  PROVE  /\ Continue(c, todo, pc, next) \in CoordSet
         /\ Continue(c, todo, pc, next).pc = IF todo = {} THEN next ELSE pc
         /\ todo # {} => /\ Continue(c, todo, pc, next).todo = todo
                         /\ Continue(c, todo, pc, next).seen = coord[c].seen
                         /\ Continue(c, todo, pc, next).info = coord[c].info
  <1>1. Continue(c, todo, pc, next) \in CoordSet
    BY ContinueType DEF Resting, CoordPcs
  <1> QED
    BY <1>1 DEF Continue, CoordSet, NoCoord

LEMMA CoordinatorTurn ==
  ASSUME TypeInv, NEW c \in Coords, Coordinator(c)
  PROVE  CoordTurn(c)
  <1> DEFINE r == coord[c]
             t == coord[c].todo
  <1>w. coord \in [Coords -> CoordSet] /\ r \in CoordSet /\ CoordGood(r)
    BY DEF TypeInv, TypeOK, Structure
  <1>t. t \subseteq Jobs /\ First(t) \subseteq t
    BY <1>w, CoordFields DEF First
  <1>s. ASSUME NEW state, Set(c, state)
        PROVE  coord'[c] = state
    BY <1>s, <1>w DEF Set
  <1>a. \A op : /\ AfterRecover(op) \in Resting \ CancelPcs
                /\ AfterRepair(op) \in Resting \ CancelPcs
                /\ AfterReconcile(op) \in Resting \ CancelPcs
    BY AfterRests
  <1>x. /\ Resting \intersect Attentive = {}
        /\ \A pc \in {"pick", "list", "cancel_mark"} : pc \in CoordPcs /\ pc \notin Attentive
    BY DEF Resting, Attentive, CoordPcs
  <1>k. \A pc \in {"pick", "list", "repair", "snapshot", "finalize", "idle", "seed", "top",
                   "recover", "check"} \union RunVerdicts : pc \notin CancelPcs
    BY DEF CancelPcs, Cancelling, RunVerdicts
  (* Moves of pc alone. *)
  <1>m. ASSUME NEW pc, Move(c, pc)
        PROVE  coord'[c].pc = pc
    BY <1>m, <1>w, <1>s DEF Move, CoordSet
  <1>q. ASSUME Quit(c)
        PROVE  coord'[c].pc = "idle"
    BY <1>q, <1>s DEF Quit, NoCoord
  <1>v. \A pc \in RunVerdicts : pc \notin Attentive /\ pc \notin {"sbatch", "mark"}
    BY DEF RunVerdicts, Attentive
  <1>1. CASE Begin(c) \/ Top(c) \/ Check(c)
    <2>1. coord'[c].pc \in {"seed", "top", "recover", "idle"} /\ coord[c].pc \notin {"sbatch", "mark"}
      BY <1>1, <1>m, <1>q DEF Begin, Top, Check, At
    <2> QED
      BY <2>1, <1>k DEF CoordTurn, Walks, CancelPcs, Attentive
  <1>2. CASE Finalize(c) \/ RecordVerdict(c)
    <2>1. coord'[c].pc \in {"check", "idle"} \union RunVerdicts
      BY <1>2, <1>m, <1>q DEF Finalize, RecordVerdict, Verdict, RunVerdicts
    <2>2. coord[c].pc \notin {"sbatch", "mark"}
      BY <1>2 DEF Finalize, RecordVerdict, At, RunVerdicts
    <2> QED
      BY <2>1, <2>2, <1>k, <1>v DEF CoordTurn, Walks, CancelPcs, Attentive
  <1>3. CASE CancelRows(c) \/ CancelEnd(c)
    <2>1. /\ coord[c].pc \in {"cancel_pending", "cancel_end"}
          /\ coord'[c].pc = IF coord[c].pc = "cancel_end" THEN "idle" ELSE "cancel_scan"
      BY <1>3, <1>m, <1>q DEF CancelRows, CancelEnd, At
    <2>2. coord[c].pc # "cancel_end" => CancelRows(c)
      BY <1>3 DEF CancelEnd, At
    <2> QED
      BY <2>1, <2>2 DEF CoordTurn, Walks, Attentive, Cancelling
  <1>4. CASE CancelScan(c)
    <2>1. PICK active, ids :
            Set(c, [r EXCEPT !.pc = "scancel", !.todo = active, !.seen = ids])
      BY <1>4 DEF CancelScan
    <2>2. coord'[c].pc = "scancel" /\ coord[c].pc = "cancel_scan"
      BY <2>1, <1>4, <1>s, <1>w DEF CoordSet, CancelScan, At
    <2> QED
      BY <2>2 DEF CoordTurn, Walks, Attentive, CancelPcs, Cancelling
  <1>5. CASE CancelMark(c) \/ Scancel(c)
    <2>1. PICK todo \in SUBSET Jobs :
            Set(c, Continue(c, todo, "cancel_mark", "cancel_end"))
      BY <1>5, <1>t DEF CancelMark, Scancel
    <2>2. coord'[c].pc \in {"cancel_mark", "cancel_end"}
      BY <2>1, <1>s, <1>w, <1>x, ContinueIs DEF Resting
    <2>3. coord[c].pc \in Cancelling
      BY <1>5 DEF CancelMark, Scancel, At, Cancelling
    <2> QED
      BY <2>2, <2>3 DEF CoordTurn, Walks, Attentive, Cancelling
  (* Loops over rows. *)
  <1>n. ASSUME NEW todo \in SUBSET Jobs, NEW pc \in {"pick", "list"},
               Set(c, Continue(c, todo, pc, AfterRepair(r.op)))
        PROVE  coord'[c].pc \notin Attentive /\ coord'[c].pc \notin CancelPcs
    BY <1>n, <1>s, <1>w, <1>x, <1>a, <1>k, ContinueIs
  <1>6. CASE Recover(c)
    <2> DEFINE old == {j \in WithStatus(row, {"scheduling"}) :
                         /\ row[j].slurm_job_id = NoId
                         /\ r.op = "resume" \/ row[j].stale}
    <2>1. old \in SUBSET Jobs
      BY DEF WithStatus, TypeInv, TypeOK
    <2>2. r.pc = "recover" /\ Set(c, Continue(c, old, "reset", AfterRecover(r.op)))
      BY <1>6 DEF Recover, At
    <2>3. CASE old = {}
      <3>1. coord'[c].pc = AfterRecover(r.op)
        BY <2>1, <2>2, <2>3, <1>s, <1>w, <1>a, ContinueIs DEF CoordPcs
      <3> QED
        BY <3>1, <2>2, <1>a, <1>x DEF CoordTurn, Walks, CancelPcs
    <2>4. CASE old # {}
      <3>1. coord'[c].pc = "reset"
        <4> HIDE DEF old
        <4> QED
          BY <2>1, <2>2, <2>4, <1>s, <1>w, <1>a, ContinueIs DEF CoordPcs
      <3>2. r.op = "resume" \/ \E j \in Jobs : row[j].stale
        BY <2>1, <2>4
      <3> QED
        BY <3>1, <3>2, <2>2 DEF CoordTurn, Resets
    <2> QED
      BY <2>3, <2>4
  <1>7. CASE Reset(c)
    <2>1. PICK todo \in SUBSET Jobs : Set(c, Continue(c, todo, "reset", AfterRecover(r.op)))
      BY <1>7, <1>t DEF Reset
    <2>2. coord'[c].pc \in {"reset"} \union (Resting \ CancelPcs) /\ r.pc = "reset"
      BY <1>7, <2>1, <1>s, <1>w, <1>a, ContinueIs DEF Reset, At, CoordPcs
    <2> QED
      BY <2>2, <1>x DEF CoordTurn, Walks, CancelPcs, Resets
  <1>8. CASE Seed(c)
    <2>1. PICK seeds, slots :
            /\ seeds \in SUBSET Jobs
            /\ coord' = [coord EXCEPT ![c] = [Continue(c, seeds, "pick", "idle")
                                                EXCEPT !.slots = slots]]
      BY <1>8 DEF Seed, WithStatus, TypeInv, TypeOK
    <2> DEFINE state == Continue(c, seeds, "pick", "idle")
    <2>2. state \in CoordSet /\ state.pc \in {"pick", "idle"}
      <3>1. "pick" \in CoordPcs /\ "idle" \in Resting
        BY DEF CoordPcs, Resting
      <3> QED
        BY <2>1, <1>w, <3>1, ContinueIs
    <2> HIDE DEF state
    <2>3. coord'[c] = [state EXCEPT !.slots = slots]
      BY <2>1, <1>w DEF state
    <2>4. coord'[c].pc \in {"pick", "idle"}
      BY <2>2, <2>3 DEF CoordSet
    <2> QED
      BY <1>8, <2>4, <1>k DEF Seed, At, CoordTurn, Walks, CancelPcs, Attentive
  <1>9. CASE Repair(c)
    <2>1. \/ Set(c, Continue(c, {}, "list", AfterRepair(r.op)))
          \/ \E slots : Set(c, [r EXCEPT !.pc = "list", !.slots = slots])
      BY <1>9 DEF Repair
    <2>2. ASSUME NEW slots, Set(c, [r EXCEPT !.pc = "list", !.slots = slots])
          PROVE  coord'[c].pc = "list"
      BY <2>2, <1>s, <1>w DEF CoordSet
    <2>3. coord'[c].pc \notin Attentive /\ coord'[c].pc \notin CancelPcs
      BY <2>1, <2>2, <1>n, <1>x, <1>k
    <2> QED
      BY <1>9, <2>3 DEF Repair, At, CoordTurn, Walks, CancelPcs
  <1>10. CASE List(c)
    <2>1. WithStatus(row, {"pending"}) \in SUBSET Jobs
      BY DEF WithStatus, TypeInv, TypeOK
    <2>2. coord'[c].pc \notin Attentive /\ coord'[c].pc \notin CancelPcs
      BY <1>10, <2>1, <1>n DEF List
    <2> QED
      BY <1>10, <2>2 DEF List, At, CoordTurn, Walks, CancelPcs
  <1>11. CASE Pick(c)
    <2>1. PICK j \in First(t) :
            \/ /\ j \in WithStatus(row, {"pending"}) /\ (j > K => Terminal(row, j - K))
               /\ row' = ClaimForSubmission(row, j)
               /\ Set(c, [r EXCEPT !.pc = "sbatch", !.job = j,
                            !.dep = IF j > K THEN row[j - K].slurm_job_id ELSE NoId])
            \/ Set(c, Continue(c, t \ {j}, "pick", AfterRepair(r.op)))
      BY <1>11 DEF Pick
    <2>j. j \in Jobs /\ r.pc = "pick" /\ slurm' = slurm
      BY <1>t, <1>11 DEF Pick, At
    <2>2. CASE /\ j \in WithStatus(row, {"pending"}) /\ (j > K => Terminal(row, j - K))
               /\ row' = ClaimForSubmission(row, j)
               /\ Set(c, [r EXCEPT !.pc = "sbatch", !.job = j,
                            !.dep = IF j > K THEN row[j - K].slurm_job_id ELSE NoId])
      <3>1. /\ coord'[c].pc = "sbatch" /\ coord'[c].job = j
            /\ coord'[c].dep = IF j > K THEN row[j - K].slurm_job_id ELSE NoId
        BY <2>2, <1>s, <1>w DEF CoordSet
      <3> QED
        BY <2>2, <2>j, <3>1 DEF WithStatus, CoordTurn, Picks
    <2>3. CASE Set(c, Continue(c, t \ {j}, "pick", AfterRepair(r.op)))
      <3>1. t \ {j} \in SUBSET Jobs
        BY <1>t
      <3>2. coord'[c].pc \notin Attentive /\ coord'[c].pc \notin CancelPcs
        BY <2>3, <3>1, <1>n
      <3> QED
        BY <2>j, <3>2 DEF CoordTurn, Walks, CancelPcs
    <2> QED
      BY <2>1, <2>2, <2>3
  <1>12. CASE Sbatch(c)
    <2>1. ASSUME NEW id \in Fresh, Enqueue(id, r.job, r.dep),
                 Set(c, [r EXCEPT !.pc = "mark", !.child = id]), row' = row
          PROVE  CoordTurn(c)
      <3>1. coord'[c].pc = "mark" /\ coord'[c].child = id /\ coord'[c].job = r.job
        BY <2>1, <1>s, <1>w DEF CoordSet
      <3> QED
        BY <1>12, <2>1, <3>1 DEF Sbatch, At, CoordTurn, Submits
    <2>2. ASSUME row' = ReleaseSubmission(row, r.job), slurm' = slurm,
                 Set(c, Continue(c, t \ {r.job}, "pick", AfterRepair(r.op)))
          PROVE  CoordTurn(c)
      <3>1. t \ {r.job} \in SUBSET Jobs
        BY <1>t
      <3>2. coord'[c].pc \notin Attentive /\ coord'[c].pc \notin CancelPcs
        BY <2>2, <3>1, <1>n
      <3> QED
        BY <1>12, <2>2, <3>2 DEF Sbatch, At, CoordTurn, Walks, CancelPcs
    <2> QED
      BY <1>12, <2>1, <2>2 DEF Sbatch
  <1>13. CASE Mark(c)
    <2>0. PICK rest \in SUBSET Jobs :
            \E slots :
              LET state == Continue(c, rest, "pick", AfterRepair(r.op))
              IN  Set(c, state) \/ Set(c, [state EXCEPT !.slots = slots])
      <3>1. {} \in SUBSET Jobs /\ t \ {r.job} \in SUBSET Jobs
        BY <1>t
      <3> QED
        BY <1>13, <3>1 DEF Mark
    <2>1. PICK slots :
            LET state == Continue(c, rest, "pick", AfterRepair(r.op))
            IN  Set(c, state) \/ Set(c, [state EXCEPT !.slots = slots])
      BY <2>0
    <2> DEFINE state == Continue(c, rest, "pick", AfterRepair(r.op))
    <2>2. state \in CoordSet /\ state.pc \notin Attentive /\ state.pc \notin CancelPcs
      BY <1>w, <1>x, <1>a, <1>k, ContinueIs
    <2>3. coord'[c] = state \/ coord'[c] = [state EXCEPT !.slots = slots]
      BY <2>1, <1>s
    <2> HIDE DEF state
    <2>4. coord'[c].pc \notin Attentive /\ coord'[c].pc \notin CancelPcs
      BY <2>2, <2>3 DEF CoordSet
    <2> QED
      BY <1>13, <2>4 DEF Mark, At, CoordTurn, Walks, CancelPcs
  <1>14. CASE Snapshot(c)
    <2> DEFINE old == StaleActive(row)
               state == Continue(c, old, "query", AfterReconcile(r.op))
               seen == [j \in Jobs |-> IF j \in old THEN row[j].slurm_job_id ELSE NoId]
    <2>1. old \in SUBSET Jobs /\ \A j \in old : seen[j] = row[j].slurm_job_id
      BY DEF StaleActive, WithStatus, TypeInv, TypeOK
    <2>2. coord'[c] = [state EXCEPT !.seen = seen] /\ r.pc = "snapshot" /\ row' = row
      BY <1>14, <1>s DEF Snapshot, At
    <2>3. /\ state \in CoordSet /\ state.pc = IF old = {} THEN AfterReconcile(r.op) ELSE "query"
          /\ old # {} => state.todo = old
      <3>1. "query" \in CoordPcs /\ old \in SUBSET Jobs /\ AfterReconcile(r.op) \in Resting
        BY <1>a, <2>1 DEF CoordPcs
      <3> HIDE DEF old
      <3> QED
        BY <1>w, <3>1, ContinueIs
    <2> HIDE DEF state, seen, old
    <2>4. /\ coord'[c].pc = state.pc /\ coord'[c].todo = state.todo /\ coord'[c].seen = seen
      BY <2>2, <2>3 DEF CoordSet
    <2>5. CASE old = {}
      BY <2>2, <2>3, <2>4, <2>5, <1>a, <1>x DEF CoordTurn, Walks, CancelPcs
    <2>6. CASE old # {}
      BY <2>1, <2>2, <2>3, <2>4, <2>6 DEF CoordTurn, Snaps, old
    <2> QED
      BY <2>5, <2>6
  <1>15. CASE Query(c)
    <2>1. PICK squeue \in BOOLEAN, sacct \in BOOLEAN :
       LET todo == coord[c].todo
           seen == coord[c].seen
           listed == {j \in todo : squeue /\ slurm[seen[j]].state \in SlurmLive}
           answer == [j \in Jobs |-> IF sacct /\ j \in todo \ listed
                                     THEN slurm[seen[j]].state ELSE "absent"]
           popped == [i \in SlurmIds |-> IF \E j \in listed : seen[j] = i
                                         THEN 0 ELSE coord[c].missing[i]]
           state == [Continue(c, todo \ listed, "apply", AfterReconcile(coord[c].op))
                       EXCEPT !.missing = popped]
       IN  /\ IF squeue /\ sacct THEN UNCHANGED budget ELSE Fault("outage")
           /\ Set(c, IF todo = listed THEN state ELSE [state EXCEPT !.info = answer])
      BY <1>15 DEF Query
    <2> DEFINE seen == coord[c].seen
               listed == {j \in t : squeue /\ slurm[seen[j]].state \in SlurmLive}
               rest == t \ listed
               answer == [j \in Jobs |-> IF sacct /\ j \in rest
                                         THEN slurm[seen[j]].state ELSE "absent"]
               popped == [i \in SlurmIds |-> IF \E j \in listed : seen[j] = i
                                             THEN 0 ELSE coord[c].missing[i]]
               state == Continue(c, rest, "apply", AfterReconcile(r.op))
    <2>2. /\ r.pc = "query" /\ row' = row /\ slurm' = slurm
          /\ ~sacct => Fault("outage")
          /\ coord'[c] = IF t = listed THEN [state EXCEPT !.missing = popped]
                         ELSE [[state EXCEPT !.missing = popped] EXCEPT !.info = answer]
      BY <1>15, <2>1, <1>s DEF Query, At
    <2>3. rest \in SUBSET Jobs /\ rest \subseteq t /\ (t = listed <=> rest = {})
      BY <1>t
    <2>4. \A j \in rest : answer[j] = IF sacct THEN slurm[seen[j]].state ELSE "absent"
      BY <2>3
    <2> HIDE DEF listed, answer, popped
    <2>5. /\ state \in CoordSet /\ state.pc = IF rest = {} THEN AfterReconcile(r.op) ELSE "apply"
          /\ rest # {} => state.todo = rest /\ state.seen = seen
      <3> HIDE DEF rest
      <3> QED
        BY <1>w, <1>a, <2>3, ContinueIs DEF CoordPcs
    <2> HIDE DEF state, rest
    <2>6. CASE rest = {}
      <3>1. coord'[c].pc = AfterReconcile(r.op)
        BY <2>2, <2>3, <2>5, <2>6 DEF CoordSet
      <3> QED
        BY <2>2, <3>1, <1>a, <1>x DEF CoordTurn, Walks, CancelPcs
    <2>7. CASE rest # {}
      <3>1. /\ coord'[c].pc = "apply" /\ coord'[c].todo = rest /\ coord'[c].seen = seen
            /\ coord'[c].info = answer
        BY <2>2, <2>3, <2>5, <2>7 DEF CoordSet
      <3> QED
        BY <2>2, <2>3, <2>4, <3>1 DEF CoordTurn, Asks
    <2> QED
      BY <2>6, <2>7
  <1>16. CASE Apply(c)
    <2>0. PICK j \in First(t) :
            \E id, count :
              \/ Set(c, [Continue(c, t \ {j}, "apply", AfterReconcile(r.op))
                           EXCEPT !.missing[id] = count])
              \/ /\ r.info[j] \in SlurmEnded
                 /\ Set(c, [r EXCEPT !.pc = "settle", !.job = j, !.missing[id] = 0])
      BY <1>16 DEF Apply
    <2>1. PICK id, count :
            \/ Set(c, [Continue(c, t \ {j}, "apply", AfterReconcile(r.op))
                         EXCEPT !.missing[id] = count])
            \/ /\ r.info[j] \in SlurmEnded
               /\ Set(c, [r EXCEPT !.pc = "settle", !.job = j, !.missing[id] = 0])
      BY <2>0
    <2> DEFINE state == Continue(c, t \ {j}, "apply", AfterReconcile(r.op))
    <2>2. j \in t /\ t \ {j} \in SUBSET Jobs /\ r.pc = "apply" /\ slurm' = slurm
      BY <1>t, <1>16 DEF Apply, At
    <2>3. /\ state \in CoordSet
          /\ state.pc = IF t \ {j} = {} THEN AfterReconcile(r.op) ELSE "apply"
          /\ t \ {j} # {} => state.todo = t \ {j} /\ state.seen = r.seen /\ state.info = r.info
      BY <1>w, <1>a, <2>2, ContinueIs DEF CoordPcs
    <2> HIDE DEF state
    <2>4. CASE Set(c, [state EXCEPT !.missing[id] = count])
      <3>1. /\ coord'[c].pc = state.pc /\ coord'[c].todo = state.todo
            /\ coord'[c].seen = state.seen /\ coord'[c].info = state.info
        BY <2>3, <2>4, <1>s DEF CoordSet
      <3>2. CASE t \ {j} = {}
        BY <2>2, <2>3, <3>1, <3>2, <1>a, <1>x DEF CoordTurn, Walks, CancelPcs
      <3>3. CASE t \ {j} # {}
        BY <2>2, <2>3, <3>1, <3>3 DEF CoordTurn, Takes, Polling
      <3> QED
        BY <3>2, <3>3
    <2>5. CASE /\ r.info[j] \in SlurmEnded
               /\ Set(c, [r EXCEPT !.pc = "settle", !.job = j, !.missing[id] = 0])
      <3>1. /\ coord'[c].pc = "settle" /\ coord'[c].todo = t /\ coord'[c].job = j
            /\ coord'[c].seen = r.seen /\ coord'[c].info = r.info
        BY <2>5, <1>w, <1>s DEF CoordSet
      <3> QED
        BY <2>2, <2>5, <3>1 DEF CoordTurn, Takes, Polling
    <2> QED
      BY <2>1, <2>4, <2>5 DEF state
  <1>17. CASE Settle(c)
    <2>1. coord'[c] = Continue(c, t \ {r.job}, "apply", AfterReconcile(r.op))
      BY <1>17, <1>s DEF Settle
    <2>2. t \ {r.job} \in SUBSET Jobs /\ r.pc = "settle" /\ slurm' = slurm
      BY <1>t, <1>17 DEF Settle, At
    <2>3. /\ coord'[c].pc = IF t \ {r.job} = {} THEN AfterReconcile(r.op) ELSE "apply"
          /\ t \ {r.job} # {} => /\ coord'[c].todo = t \ {r.job} /\ coord'[c].seen = r.seen
                                 /\ coord'[c].info = r.info
      BY <1>w, <1>a, <2>1, <2>2, ContinueIs DEF CoordPcs
    <2>4. CASE t \ {r.job} = {}
      BY <2>2, <2>3, <2>4, <1>a, <1>x DEF CoordTurn, Walks, CancelPcs
    <2>5. CASE t \ {r.job} # {}
      BY <2>2, <2>3, <2>5 DEF CoordTurn, Takes, Polling
    <2> QED
      BY <2>4, <2>5
  <1> QED
    BY <1>1, <1>2, <1>3, <1>4, <1>5, <1>6, <1>7, <1>8, <1>9, <1>10, <1>11, <1>12, <1>13, <1>14,
       <1>15, <1>16, <1>17 DEF Coordinator

(* At most one process moves in a step, but for the wrappers a cancel ends. *)
LEMMA OneMoves ==
  ASSUME TypeInv, [Next]_vars, NEW c \in Coords, coord'[c] # coord[c]
  PROVE  /\ \A d \in Coords \ {c} : coord'[d] = coord[d]
         /\ \A i \in SlurmIds : wrap'[i] = wrap[i] \/ wrap'[i].pc = "off"
         /\ Coordinator(c) \/ Crash(c) \/ StartWatch(c) \/ StartResume(c) \/ StartCancel(c)
  <1>w. coord \in [Coords -> CoordSet] /\ wrap \in [SlurmIds -> WrapSet]
    BY DEF TypeInv, TypeOK
  <1>1. ASSUME NEW i \in SlurmIds, Wrapper(i)
        PROVE  FALSE
    BY <1>1 DEF Wrapper, ReadRow, MissingTemplate, BadConfig, ClaimRun, ClaimSuccessor,
       SubmitSuccessor, MarkSuccessor, RunCase, Finish, Conclude, WriteVerdict
  <1>2. ASSUME NEW d \in Coords,
               Coordinator(d) \/ Crash(d) \/ StartWatch(d) \/ StartResume(d) \/ StartCancel(d)
        PROVE  /\ \A e \in Coords \ {d} : coord'[e] = coord[e]
               /\ \A i \in SlurmIds : wrap'[i] = wrap[i] \/ wrap'[i].pc = "off"
    <2>1. ASSUME NEW e \in Coords \ {d}
          PROVE  coord'[e] = coord[e]
      <3>1. ASSUME NEW state, Set(d, state)
            PROVE  coord'[e] = coord[e]
        BY <3>1, <1>w DEF Set
      <3>2. CASE Crash(d) \/ StartWatch(d) \/ StartResume(d) \/ StartCancel(d)
        BY <3>1, <3>2 DEF Crash, StartWatch, StartResume, StartCancel, Quit
      <3>3. CASE Coordinator(d)
        BY <3>3, <1>w DEF Coordinator, Begin, Top, Recover, Reset, Seed, Repair, List,
           Pick, Sbatch, Mark, Snapshot, Query, Apply, Settle, Finalize, RecordVerdict, Check,
           CancelRows, CancelScan, Scancel, CancelMark, CancelEnd, Set, Move, Quit
      <3> QED
        BY <1>2, <3>2, <3>3
    <2>2. CASE Scancel(d)
      BY <2>1, <2>2 DEF Scancel, NoWrap
    <2>3. CASE ~Scancel(d)
      <3>1. wrap' = wrap
        BY <1>2, <2>3 DEF Crash, StartWatch, StartResume, StartCancel, Coordinator, Begin, Top,
           Recover, Reset, Seed, Repair, List, Pick, Sbatch, Mark, Snapshot, Query, Apply, Settle,
           Finalize, RecordVerdict, Check, CancelRows, CancelScan, CancelMark, CancelEnd
      <3> QED
        BY <2>1, <3>1
    <2> QED
      BY <2>2, <2>3
  <1>3. PICK d \in Coords :
          Coordinator(d) \/ Crash(d) \/ StartWatch(d) \/ StartResume(d) \/ StartCancel(d)
    BY <1>1 DEF Next, vars, ClaimAges, Start, Kill
  <1>4. c = d
    BY <1>2, <1>3
  <1> QED
    BY <1>2, <1>3, <1>4

LEMMA CommandTurn ==
  ASSUME TypeInv, [Next]_vars, NEW c \in Coords
  PROVE  CoordTurn(c)
  <1>w. coord \in [Coords -> CoordSet]
    BY DEF TypeInv, TypeOK
  <1>1. CASE coord'[c] = coord[c]
    BY <1>1 DEF CoordTurn
  <1>s. ASSUME NEW state, Set(c, state)
        PROVE  coord'[c] = state
    BY <1>s, <1>w DEF Set
  <1>2. CASE Crash(c)
    <2>1. coord'[c].pc = "idle" /\ "crash" \in Faults
      BY <1>2, <1>s DEF Crash, Fault, Quit, NoCoord
    <2> QED
      BY <2>1 DEF CoordTurn, Walks, Attentive, CancelPcs, Cancelling
  <1>3. CASE StartWatch(c) \/ StartResume(c)
    <2>1. coord'[c].pc = "begin" /\ coord[c].pc = "idle"
      BY <1>3, <1>s DEF StartWatch, StartResume, At, NoCoord
    <2> QED
      BY <2>1 DEF CoordTurn, Walks, Attentive, CancelPcs, Cancelling
  <1>4. CASE StartCancel(c)
    <2>1. coord'[c].pc = "cancel_pending" /\ coord[c].pc = "idle" /\ "cancel" \in Faults
      BY <1>4, <1>s DEF StartCancel, Fault, At, NoCoord
    <2> QED
      BY <2>1 DEF CoordTurn, Walks, CancelPcs, Cancelling, Attentive
  <1> QED
    BY <1>1, <1>2, <1>3, <1>4, OneMoves, CoordinatorTurn

-----------------------------------------------------------------------------
(* What one step may do to the row of case j, and on what grounds           *)

Moves(j, from, to) ==
  /\ row[j].status \in from /\ row'[j].status = to
  /\ row'[j].slurm_job_id = row[j].slurm_job_id

RowStays(j) ==
  row'[j].status = row[j].status /\ row'[j].slurm_job_id = row[j].slurm_job_id
Taken(j) ==
  /\ Moves(j, {"pending"}, "scheduling") /\ slurm' = slurm
  /\ \/ \E i \in SlurmIds : /\ wrap[i].pc = "succ" /\ Successor(i) = j /\ wrap'[i].pc = "sbatch"
                            /\ coord' = coord
                            /\ \A m \in SlurmIds \ {i} : wrap'[m] = wrap[m]
     \/ \E c \in Coords : Picks(c) /\ coord'[c].job = j /\ wrap' = wrap
Released(j) ==
  /\ Moves(j, {"scheduling"}, "pending") /\ slurm' = slurm
  /\ \/ \E i \in SlurmIds : /\ wrap[i].pc = "sbatch" /\ Successor(i) = j
                            /\ wrap'[i].pc \notin {"sbatch", "mark"} /\ coord' = coord
                            /\ \A m \in SlurmIds \ {i} : wrap'[m] = wrap[m]
     \/ \E c \in Coords : /\ coord[c].pc = "sbatch" /\ coord[c].job = j
                          /\ coord'[c].pc \notin Attentive /\ wrap' = wrap
Recorded(j) ==
  /\ row[j].status = "scheduling" /\ row'[j].status = "scheduled"
  /\ \/ \E i \in SlurmIds : /\ wrap[i].pc = "mark" /\ Successor(i) = j
                            /\ row'[j].slurm_job_id = wrap[i].child
     \/ \E c \in Coords : /\ coord[c].pc = "mark" /\ coord[c].job = j
                          /\ row'[j].slurm_job_id = coord[c].child
Executed(j) ==
  Moves(j, RunnableStatuses, "running") /\ \E i \in SlurmIds : Claims(i) /\ Case(i) = j
Over(j) ==
  \E status \in TERMINAL_STATUSES :
    /\ Moves(j, OPEN_STATUSES, status)
    /\ \/ \E i \in SlurmIds : Spoils(i) /\ Case(i) = j /\ status = "error"
       \/ \E i \in SlurmIds : Finishes(i) /\ Case(i) = j /\ status = wrap[i].verdict
       \/ \E c \in Coords : /\ coord[c].pc = "settle" /\ coord[c].job = j
                            /\ status = ClassifyState(coord[c].info[j])
       \/ \E c \in Coords : /\ coord[c].pc = "apply" /\ j \in coord[c].todo
                            /\ coord[c].info[j] = "absent" /\ status = "lost"
                            /\ coord[c].missing[coord[c].seen[j]] + 1
                                 >= (IF coord[c].op = "resume" THEN 1 ELSE LostAfter)
       \/ \E c \in Coords : (CancelRows(c) \/ CancelMark(c)) /\ status = "cancelled"
Undone(j) ==
  /\ row[j].status \in OPEN_STATUSES /\ row'[j] = NewRow
  /\ \E c \in Coords : coord[c].pc = "reset"
Written(j) ==
  /\ row'[j].status = row[j].status
  /\ \E c \in Coords : /\ coord[c].pc = "apply" /\ j \in coord[c].todo
                       /\ row'[j].slurm_job_id = coord[c].seen[j]

RowTurn(j) ==
  \/ RowStays(j) \/ Taken(j) \/ Released(j) \/ Recorded(j) \/ Executed(j)
  \/ Over(j) \/ Undone(j) \/ Written(j)

(* What a statement makes of row j.                                         *)
LEMMA StatementIs ==
  ASSUME NEW rows \in [Jobs -> RowSet(SlurmIds)], NEW m \in Jobs, NEW j \in Jobs
  PROVE  LET Moved(new, from, to) ==
               \/ new[j] = rows[j]
               \/ /\ j = m /\ rows[j].status \in from /\ new[j].status = to
                  /\ new[j].slurm_job_id = rows[j].slurm_job_id
         IN  /\ Moved(ClaimForSubmission(rows, m), {"pending"}, "scheduling")
             /\ Moved(ReleaseSubmission(rows, m), {"scheduling"}, "pending")
             /\ Moved(MarkRunning(rows, m), RunnableStatuses, "running")
             /\ \A status : Moved(MarkTerminal(rows, m, status), OPEN_STATUSES, status)
             /\ \A id : \/ MarkScheduled(rows, m, id)[j] = rows[j]
                        \/ /\ j = m /\ rows[j].status = "scheduling"
                           /\ MarkScheduled(rows, m, id)[j].status = "scheduled"
                           /\ MarkScheduled(rows, m, id)[j].slurm_job_id = id
             /\ \/ ResetToPending(rows, m)[j] = rows[j]
                \/ j = m /\ rows[j].status \in OPEN_STATUSES /\ ResetToPending(rows, m)[j] = NewRow
             /\ \A id : \/ SetSlurmId(rows, m, id)[j] = rows[j]
                        \/ /\ j = m /\ SetSlurmId(rows, m, id)[j].status = rows[j].status
                           /\ SetSlurmId(rows, m, id)[j].slurm_job_id = id
  BY DEF RowSet, Transition, ClaimForSubmission, ReleaseSubmission, MarkRunning, MarkTerminal,
         MarkScheduled, ResetToPending, SetSlurmId

LEMMA WrapperRows ==
  ASSUME TypeInv, NEW i \in SlurmIds, Wrapper(i), Turn(i), NEW j \in Jobs
  PROVE  RowTurn(j)
  <1>w. wrap \in [SlurmIds -> WrapSet] /\ wrap[i] \in WrapSet /\ WrapGood(wrap[i], slurm[i])
    BY DEF TypeInv, TypeOK, Structure
  <1>r. row \in [Jobs -> RowSet(SlurmIds)] /\ row[j] \in RowSet(SlurmIds)
    BY DEF TypeInv, TypeOK
  <1>c. wrap[i].pc # "off" => Case(i) \in Jobs
    BY <1>w DEF WrapGood, Case
  <1>n. wrap[i].pc \in {"sbatch", "mark"} => Successor(i) \in Jobs
    BY <1>w DEF WrapGood, Successor, Case
  <1>0. ASSUME row'[j] = row[j]
        PROVE  RowTurn(j)
    BY <1>0 DEF RowTurn, RowStays
  <1>o. \A m \in SlurmIds \ {i} : wrap'[m] = wrap[m]
    BY <1>w DEF Wrapper, ReadRow, MissingTemplate, BadConfig, ClaimRun, ClaimSuccessor,
       SubmitSuccessor, MarkSuccessor, RunCase, Finish, Conclude, WriteVerdict, Goto, Exit, Return
  <1>1. CASE BadConfig(i)
    <2>1. Spoils(i)
      <3>1. Goes(i, "finalize", "error")
        BY <1>1, <1>w DEF BadConfig, Goes, Becomes, WrapSet, TypeInv, TypeOK, SlurmSet
      <3> QED
        BY <1>1, <3>1 DEF BadConfig, Spoils
    <2>2. row'[j] = row[j] \/ (j = Case(i) /\ Moves(j, OPEN_STATUSES, "error"))
      BY <1>1, <1>r, <1>c, StatementIs DEF BadConfig, Moves
    <2> QED
      BY <2>1, <2>2, <1>0 DEF RowTurn, Over, TERMINAL_STATUSES
  <1>2. CASE ClaimRun(i)
    <2>1. CASE row[Case(i)].status \in RunnableStatuses
      <3>1. Claims(i)
        <4>1. Goes(i, "succ", wrap[i].verdict)
          BY <1>2, <2>1, <1>w DEF ClaimRun, Goes, Becomes, WrapSet, TypeInv, TypeOK, SlurmSet
        <4> QED
          BY <1>2, <2>1, <4>1 DEF ClaimRun, Claims
      <3>2. row'[j] = row[j] \/ (j = Case(i) /\ Moves(j, RunnableStatuses, "running"))
        BY <1>2, <1>r, <1>c, StatementIs DEF ClaimRun, Moves
      <3> QED
        BY <3>1, <3>2, <1>0 DEF RowTurn, Executed
    <2>2. CASE row[Case(i)].status \notin RunnableStatuses
      BY <1>2, <2>2, <1>0 DEF ClaimRun, MarkRunning, Transition
    <2> QED
      BY <2>1, <2>2
  <1>3. CASE ClaimSuccessor(i)
    <2>1. CASE /\ Successor(i) \in WithStatus(row, {"pending"})
               /\ row' = ClaimForSubmission(row, Successor(i)) /\ Goto(i, "sbatch")
      <3>1. Successor(i) \in Jobs /\ wrap'[i].pc = "sbatch"
        BY <2>1, <1>r, <1>w DEF WithStatus, Goto, WrapSet
      <3>2. row'[j] = row[j] \/ (j = Successor(i) /\ Moves(j, {"pending"}, "scheduling"))
        BY <2>1, <3>1, <1>r, StatementIs DEF Moves
      <3> QED
        BY <1>3, <3>1, <3>2, <1>0, <1>o DEF ClaimSuccessor, RowTurn, Taken
    <2> QED
      BY <1>3, <2>1, <1>0 DEF ClaimSuccessor
  <1>4. CASE SubmitSuccessor(i)
    <2>1. CASE /\ row' = ReleaseSubmission(row, Successor(i)) /\ Return(i, FALSE)
               /\ UNCHANGED slurm
      <3>1. wrap'[i].pc \notin {"sbatch", "mark"}
        BY <2>1, <1>w DEF Return, WrapSet
      <3>2. Successor(i) \in Jobs
        BY <1>4, <1>n DEF SubmitSuccessor
      <3>3. row'[j] = row[j] \/ (j = Successor(i) /\ Moves(j, {"scheduling"}, "pending"))
        BY <2>1, <3>2, <1>r, StatementIs DEF Moves
      <3> QED
        BY <1>4, <2>1, <3>1, <3>3, <1>0, <1>o DEF SubmitSuccessor, RowTurn, Released
    <2> QED
      BY <1>4, <2>1, <1>0 DEF SubmitSuccessor
  <1>5. CASE MarkSuccessor(i)
    <2>1. \/ row'[j] = row[j]
          \/ /\ j = Successor(i) /\ row[j].status = "scheduling"
             /\ row'[j].status = "scheduled" /\ row'[j].slurm_job_id = wrap[i].child
      BY <1>5, <1>r, <1>n, StatementIs DEF MarkSuccessor
    <2> QED
      BY <1>5, <2>1, <1>0 DEF MarkSuccessor, RowTurn, Recorded
  <1>6. CASE Finish(i)
    <2>1. Finishes(i)
      <3>1. Goes(i, "finalize", wrap[i].verdict)
        BY <1>6, <1>w DEF Finish, Goto, Goes, Becomes, WrapSet, TypeInv, TypeOK, SlurmSet
      <3> QED
        BY <1>6, <3>1 DEF Finish, Finishes
    <2>2. row'[j] = row[j] \/ (j = Case(i) /\ Moves(j, OPEN_STATUSES, wrap[i].verdict))
      BY <1>6, <1>r, <1>c, StatementIs DEF Finish, Moves
    <2>3. wrap[i].verdict \in TERMINAL_STATUSES
      BY <1>6, <1>w DEF Finish, WrapGood, CaseVerdicts, TERMINAL_STATUSES
    <2> QED
      BY <2>1, <2>2, <2>3, <1>0 DEF RowTurn, Over
  <1> QED
    BY <1>0, <1>1, <1>2, <1>3, <1>4, <1>5, <1>6
       DEF Wrapper, ReadRow, MissingTemplate, RunCase, Conclude, WriteVerdict

LEMMA CoordinatorRows ==
  ASSUME TypeInv, NEW c \in Coords, Coordinator(c), CoordTurn(c), NEW j \in Jobs
  PROVE  RowTurn(j)
  <1>w. coord \in [Coords -> CoordSet] /\ coord[c] \in CoordSet /\ CoordGood(coord[c])
    BY DEF TypeInv, TypeOK, Structure
  <1>r. row \in [Jobs -> RowSet(SlurmIds)] /\ row[j] \in RowSet(SlurmIds)
    BY DEF TypeInv, TypeOK
  <1>t. First(coord[c].todo) \subseteq coord[c].todo /\ First(coord[c].todo) \subseteq Jobs
    BY <1>w, CoordFields DEF First
  <1>0. ASSUME row'[j] = row[j]
        PROVE  RowTurn(j)
    BY <1>0 DEF RowTurn, RowStays
  <1>d. ASSUME NEW m \in Jobs, NEW status, row' = MarkTerminal(row, m, status)
        PROVE  row'[j] = row[j] \/ (j = m /\ Moves(j, OPEN_STATUSES, status))
    BY <1>d, <1>r, StatementIs DEF Moves
  <1>1. CASE Reset(c)
    <2>1. PICK m \in First(coord[c].todo) : row' = ResetToPending(row, m)
      BY <1>1 DEF Reset
    <2>2. \/ row'[j] = row[j]
          \/ row[j].status \in OPEN_STATUSES /\ row'[j] = NewRow
      BY <2>1, <1>t, <1>r, StatementIs
    <2> QED
      BY <1>1, <2>2, <1>0 DEF Reset, At, RowTurn, Undone
  <1>2. CASE Pick(c)
    <2>1. CASE row' = row
      BY <2>1, <1>0
    <2>2. CASE row' # row
      <3>1. coord'[c].pc = "sbatch"
        BY <1>2, <2>2, <1>w DEF Pick, Set, CoordSet
      <3>2. Picks(c)
        BY <1>2, <3>1, <2>2 DEF CoordTurn, Walks, Resets, Picks, Submits, Snaps, Asks, Takes,
           Pick, At, Attentive, Polling
      <3>3. PICK m \in Jobs : coord'[c].job = m /\ row' = ClaimForSubmission(row, m)
        BY <3>2 DEF Picks
      <3>4. row'[j] = row[j] \/ (j = m /\ Moves(j, {"pending"}, "scheduling"))
        BY <3>3, <1>r, StatementIs DEF Moves
      <3> QED
        BY <1>2, <3>2, <3>3, <3>4, <1>0 DEF Pick, RowTurn, Taken
    <2> QED
      BY <2>1, <2>2
  <1>3. CASE Sbatch(c)
    <2>1. CASE row' = row
      BY <2>1, <1>0
    <2>2. CASE row' # row
      <3>1. /\ row' = ReleaseSubmission(row, coord[c].job) /\ slurm' = slurm /\ wrap' = wrap
            /\ Set(c, Continue(c, coord[c].todo \ {coord[c].job}, "pick",
                               AfterRepair(coord[c].op)))
        BY <1>3, <2>2 DEF Sbatch
      <3>2. coord'[c].pc \notin Attentive
        <4>1. coord[c].todo \ {coord[c].job} \in SUBSET Jobs /\ "pick" \in CoordPcs
          BY <1>w, CoordFields DEF CoordPcs
        <4>2. AfterRepair(coord[c].op) \in Resting
          BY AfterRests
        <4>3. coord'[c].pc \in {"pick"} \union Resting
          BY <3>1, <4>1, <4>2, <1>w, ContinueIs DEF Set
        <4> QED
          BY <4>3 DEF Resting, Attentive
      <3>3. coord[c].pc = "sbatch" /\ coord[c].job \in Jobs
        BY <1>3, <1>w DEF Sbatch, At, CoordGood
      <3>4. row'[j] = row[j] \/ (j = coord[c].job /\ Moves(j, {"scheduling"}, "pending"))
        BY <3>1, <3>3, <1>r, StatementIs DEF Moves
      <3> QED
        BY <3>1, <3>2, <3>3, <3>4, <1>0 DEF RowTurn, Released
    <2> QED
      BY <2>1, <2>2
  <1>4. CASE Mark(c)
    <2>1. coord[c].pc = "mark" /\ coord[c].job \in Jobs
      BY <1>4, <1>w DEF Mark, At, CoordGood
    <2>2. \/ row'[j] = row[j]
          \/ /\ j = coord[c].job /\ row[j].status = "scheduling"
             /\ row'[j].status = "scheduled" /\ row'[j].slurm_job_id = coord[c].child
      BY <1>4, <2>1, <1>r, StatementIs DEF Mark
    <2> QED
      BY <2>1, <2>2, <1>0 DEF RowTurn, Recorded
  <1>5. CASE Apply(c)
    <2>1. PICK m \in First(coord[c].todo) :
            \/ row' = SetSlurmId(row, m, coord[c].seen[m])
            \/ /\ row' = MarkTerminal(row, m, "lost") /\ coord[c].info[m] = "absent"
               /\ coord[c].missing[coord[c].seen[m]] + 1
                    >= (IF coord[c].op = "resume" THEN 1 ELSE LostAfter)
            \/ row' = row
      BY <1>5 DEF Apply
    <2>2. m \in Jobs /\ m \in coord[c].todo /\ coord[c].pc = "apply"
      BY <1>5, <1>t DEF Apply, At
    <2>3. CASE row' = SetSlurmId(row, m, coord[c].seen[m])
      <3>1. \/ row'[j] = row[j]
            \/ /\ j = m /\ row'[j].status = row[j].status
               /\ row'[j].slurm_job_id = coord[c].seen[m]
        BY <2>2, <2>3, <1>r, StatementIs
      <3> QED
        BY <2>2, <3>1, <1>0 DEF RowTurn, Written
    <2>4. CASE /\ row' = MarkTerminal(row, m, "lost") /\ coord[c].info[m] = "absent"
               /\ coord[c].missing[coord[c].seen[m]] + 1
                    >= (IF coord[c].op = "resume" THEN 1 ELSE LostAfter)
      <3>1. row'[j] = row[j] \/ (j = m /\ Moves(j, OPEN_STATUSES, "lost"))
        BY <2>2, <2>4, <1>d
      <3> QED
        BY <2>2, <2>4, <3>1, <1>0 DEF RowTurn, Over, TERMINAL_STATUSES
    <2> QED
      BY <2>1, <2>3, <2>4, <1>0
  <1>6. CASE Settle(c)
    <2>1. coord[c].pc = "settle" /\ coord[c].job \in Jobs
      BY <1>6, <1>w DEF Settle, At, CoordGood
    <2>2. \/ row'[j] = row[j]
          \/ j = coord[c].job
             /\ Moves(j, OPEN_STATUSES, ClassifyState(coord[c].info[coord[c].job]))
      BY <1>6, <2>1, <1>d DEF Settle
    <2> QED
      BY <2>1, <2>2, <1>0, ClassifyType DEF RowTurn, Over
  <1>7. CASE CancelRows(c)
    <2>1. row'[j] = row[j] \/ Moves(j, OPEN_STATUSES, "cancelled")
      BY <1>7, <1>r DEF CancelRows, CancelPending, RowSet, Moves, OPEN_STATUSES
    <2> QED
      BY <1>7, <2>1, <1>0 DEF RowTurn, Over, TERMINAL_STATUSES
  <1>8. CASE CancelMark(c)
    <2>1. row'[j] = row[j] \/ Moves(j, OPEN_STATUSES, "cancelled")
      BY <1>8, <1>t, <1>d DEF CancelMark
    <2> QED
      BY <1>8, <2>1, <1>0 DEF RowTurn, Over, TERMINAL_STATUSES
  <1> QED
    BY <1>0, <1>1, <1>2, <1>3, <1>4, <1>5, <1>6, <1>7, <1>8
       DEF Coordinator, Begin, Top, Recover, Seed, Repair, List, Snapshot, Query, Finalize,
           RecordVerdict, Check, CancelScan, Scancel, CancelEnd

LEMMA CaseTurn ==
  ASSUME TypeInv, [Next]_vars, NEW j \in Jobs
  PROVE  RowTurn(j)
  <1>1. ASSUME NEW m \in Jobs, ClaimAges(m)
        PROVE  RowTurn(j)
    BY <1>1 DEF ClaimAges, RowTurn, RowStays, TypeInv, TypeOK, RowSet
  <1>2. ASSUME row' = row
        PROVE  RowTurn(j)
    BY <1>2 DEF RowTurn, RowStays
  <1> QED
    BY <1>1, <1>2, WrapperRows, WrapperTurn, CoordinatorRows, CoordinatorTurn
       DEF Next, vars, Start, Kill, Crash, StartWatch, StartResume, StartCancel

-----------------------------------------------------------------------------
(* A case that was submitted once                                           *)

Sole(i) == Submissions(Case(i)) = {i}

(* Job i has not come to mark_running yet. *)
Waiting(i) == slurm[i].state = "PENDING" \/ wrap[i].pc \in {"read", "claim"}

Untouched ==
  \A j \in Jobs : Submissions(j) = {} => row[j].status \in {"pending", "scheduling", "cancelled"}
NotBegun ==
  \A i \in SlurmIds : Sole(i) /\ Waiting(i) => row[Case(i)].status # "running"
Unspoken ==
  \A i \in SlurmIds :
    slurm[i].state \in {"FREE", "PENDING"} \/ wrap[i].pc \in {"read", "claim", "run"}
      => wrap[i].verdict = "none"
Working ==
  \A i \in SlurmIds : Sole(i) /\ wrap[i].pc \in Begun
                        => row[Case(i)].status \in OPEN_STATUSES \union {"lost", "cancelled"}
Spoken ==
  \A i \in SlurmIds : Sole(i) /\ wrap[i].verdict = "success" /\ wrap[i].pc \in Ending
                        => row[Case(i)].status \in {"success", "lost", "cancelled"}
GoneWell ==
  \A i \in SlurmIds : Sole(i) /\ slurm[i].state = "COMPLETED" /\ wrap[i].verdict # "success"
                        => Terminal(row, Case(i))

(* What a coordinator knows of jobs that have ended. *)
Answered(c) ==
  coord[c].pc \in Polling =>
    \A j \in coord[c].todo :
      coord[c].info[j] \in SlurmEnded => slurm[coord[c].seen[j]].state = coord[c].info[j]
Settling(c) ==
  coord[c].pc = "settle" =>
    coord[c].job \in coord[c].todo /\ coord[c].info[coord[c].job] \in SlurmEnded

SoleInv ==
  /\ Untouched /\ NotBegun /\ Unspoken /\ Working /\ Spoken /\ GoneWell
  /\ SuccessIsEarned /\ SuccessIsKept
  /\ \A c \in Coords : Answered(c) /\ Settling(c)

LEMMA EndedStays ==
  ASSUME TypeInv, [Next]_vars, NEW i \in SlurmIds, slurm[i].state \in SlurmEnded
  PROVE  Stays(i)
  <1>1. wrap[i].pc = "off" /\ slurm[i].state \notin {"FREE", "PENDING", "RUNNING"}
    BY DEF TypeInv, Structure, WrapGood, SlurmEnded
  <1> QED
    BY <1>1, JobTurn DEF Turn, Handed, Begins, Stopped, Reads, Leaves, Unfit, Spoils, Claims,
       Works, Runs, Finishes, Judges, Ends, Ending, RunVerdicts, SlurmLive

LEMMA TerminalStays ==
  ASSUME TypeInv, [Next]_vars, NEW j \in Jobs, Terminal(row, j)
  PROVE  row'[j].status = row[j].status
  BY RowsAlong DEF Along, Terminal, TERMINAL_STATUSES, OPEN_STATUSES, ACTIVE_STATUSES

LEMMA SubmissionsGrow ==
  ASSUME TypeInv, [Next]_vars, NEW j \in Jobs
  PROVE  Submissions(j) \subseteq Submissions(j)'
  BY OwnerKept DEF Submissions, Owns

(* Job i keeps its case once it has one. *)
LEMMA CaseStays ==
  ASSUME TypeInv, [Next]_vars, NEW i \in SlurmIds, slurm[i].state # "FREE"
  PROVE  /\ Case(i) \in Jobs /\ Case(i)' = Case(i) /\ i \in Submissions(Case(i))
         /\ Sole(i)' => Sole(i)
  <1>1. Case(i) \in Jobs /\ i \in Submissions(Case(i))
    BY DEF TypeInv, Structure, WrapGood, Case, Submissions
  <1>2. Case(i)' = Case(i)
    BY <1>1, OwnerKept DEF Owns, Case
  <1>3. Submissions(Case(i)) \subseteq Submissions(Case(i))'
    BY <1>1, <1>2, SubmissionsGrow DEF Submissions
  <1> QED
    BY <1>1, <1>2, <1>3 DEF Sole

(* A job that has just been handed out is the first of a case it is alone with. *)
LEMMA FirstJob ==
  ASSUME TypeInv, TypeInv', [Next]_vars, NEW i \in SlurmIds, Handed(i), Sole(i)'
  PROVE  Case(i)' \in Jobs /\ Submissions(Case(i)') = {}
  <1>1. Case(i)' \in Jobs /\ slurm[i].job = 0
    BY DEF TypeInv, Structure, WrapGood, Case, Handed
  <1>2. Submissions(Case(i)') \subseteq {i}
    <2>1. \A j \in Jobs : Submissions(j) \subseteq Submissions(j)'
      BY SubmissionsGrow
    <2>2. ASSUME NEW m \in Submissions(Case(i)')
          PROVE  m = i
      <3>1. m \in SlurmIds /\ slurm[m].job = Case(i)'
        BY <2>2 DEF Submissions
      <3>2. slurm'[m].job = Case(i)'
        BY <3>1, <1>1, OwnerKept DEF Owns
      <3> QED
        BY <3>1, <3>2 DEF Sole, Submissions
    <2> QED
      BY <2>2
  <1>3. i \notin Submissions(Case(i)')
    BY <1>1 DEF Submissions, Jobs
  <1> QED
    BY <1>1, <1>2, <1>3

(* What coordinators act on is a submission of the case. *)
LEMMA PolledIs ==
  ASSUME TypeInv, IdsInv, NEW c \in Coords, NEW j \in Jobs,
         \/ coord[c].pc = "apply" /\ j \in coord[c].todo
         \/ coord[c].pc = "settle" /\ coord[c].job = j /\ Settling(c)
  PROVE  coord[c].seen[j] \in Submissions(j)
  BY DEF IdsInv, Polled, Owns, Submissions, Settling

LEMMA UntouchedStep ==
  ASSUME TypeInv, TypeInv', IdsInv, SoleInv, [Next]_vars
  PROVE  Untouched'
  <1> SUFFICES ASSUME NEW j \in Jobs, Submissions(j)' = {}
               PROVE  row'[j].status \in {"pending", "scheduling", "cancelled"}
    BY DEF Untouched
  <1>1. Submissions(j) = {}
    BY SubmissionsGrow
  <1>2. row[j].status \in {"pending", "scheduling", "cancelled"}
    BY <1>1 DEF SoleInv, Untouched
  <1>3. \A i \in SlurmIds : Case(i) # j
    BY <1>1 DEF Submissions, Case
  <1>4. \A c \in Coords : /\ coord[c].pc = "apply" => j \notin coord[c].todo
                          /\ coord[c].pc = "settle" => coord[c].job # j
    BY <1>1, PolledIs DEF SoleInv
  <1>5. ~Recorded(j)
    <2>1. ASSUME NEW id, Owns(id, j)
          PROVE  FALSE
      BY <1>1, <2>1 DEF Owns, Submissions
    <2> QED
      BY <2>1 DEF Recorded, IdsInv, ChildIsSuccessor, Submitted
  <1>6. Over(j) => row'[j].status = "cancelled"
    BY <1>3, <1>4 DEF Over, Moves
  <1> QED
    BY <1>2, <1>3, <1>5, <1>6, CaseTurn DEF RowTurn, RowStays, Taken, Released, Executed,
       Undone, Written, Moves, NewRow

LEMMA UnspokenStep ==
  ASSUME TypeInv, SoleInv, [Next]_vars
  PROVE  Unspoken'
  <1> SUFFICES ASSUME NEW i \in SlurmIds,
                      \/ slurm'[i].state \in {"FREE", "PENDING"}
                      \/ wrap'[i].pc \in {"read", "claim", "run"}
               PROVE  wrap'[i].verdict = "none"
    BY DEF Unspoken
  <1>s. slurm[i] \in SlurmSet
    BY DEF TypeInv, TypeOK
  <1>g. WrapGood(wrap[i], slurm[i])
    BY DEF TypeInv, Structure
  <1>u. slurm[i].state \in {"FREE", "PENDING"} \/ wrap[i].pc \in {"read", "claim", "run"}
          => wrap[i].verdict = "none"
    BY DEF SoleInv, Unspoken
  <1>1. CASE Stays(i) \/ Handed(i)
    BY <1>1, <1>u DEF Stays, Handed
  <1>2. CASE Begins(i) \/ Reads(i)
    BY <1>2, <1>u DEF Begins, Reads, Goes, Becomes
  <1>3. CASE Stopped(i) \/ Leaves(i) \/ Unfit(i) \/ Ends(i)
    BY <1>3, <1>s DEF Stopped, Leaves, Unfit, Ends, ExitState, Becomes, SlurmSet, SlurmEnded
  <1>4. CASE Spoils(i) \/ Claims(i) \/ Runs(i) \/ Finishes(i) \/ Judges(i)
    BY <1>4, <1>s, <1>g DEF Spoils, Claims, Runs, Finishes, Judges, Goes, Becomes, SlurmSet,
       WrapGood, RunVerdicts
  <1>5. CASE Works(i)
    BY <1>5, <1>s, <1>g DEF Works, Begun, Goes, Becomes, SlurmSet, WrapGood
  <1> QED
    BY <1>1, <1>2, <1>3, <1>4, <1>5, JobTurn DEF Turn

LEMMA NotBegunStep ==
  ASSUME TypeInv, TypeInv', IdsInv, SoleInv, [Next]_vars
  PROVE  NotBegun'
  <1> SUFFICES ASSUME NEW i \in SlurmIds, Sole(i)', Waiting(i)', row'[Case(i)'].status = "running"
               PROVE  FALSE
    BY DEF NotBegun
  <1>s. slurm[i] \in SlurmSet /\ WrapGood(wrap[i], slurm[i])
    BY DEF TypeInv, TypeOK, Structure
  <1>r. ASSUME NEW j \in Jobs, row'[j].status = "running"
        PROVE  row[j].status = "running" \/ \E m \in SlurmIds : Claims(m) /\ Case(m) = j
    BY <1>r, CaseTurn DEF RowTurn, RowStays, Taken, Released, Recorded, Executed, Over, Undone,
       Written, Moves, NewRow, TERMINAL_STATUSES
  <1>1. CASE Handed(i)
    <2>1. Case(i)' \in Jobs /\ Submissions(Case(i)') = {}
      BY <1>1, FirstJob
    <2>2. row[Case(i)'].status # "running"
      BY <2>1 DEF SoleInv, Untouched
    <2>3. \A m \in SlurmIds : Case(m) # Case(i)'
      BY <2>1 DEF Submissions, Case
    <2> QED
      BY <2>1, <2>2, <2>3, <1>r
  <1>2. CASE ~Handed(i)
    <2>1. Waiting(i) /\ ~Claims(i)
      BY <1>2, <1>s, JobTurn DEF Waiting, Turn, Stays, Begins, Stopped, Reads, Leaves, Unfit,
         Spoils, Claims, Works, Runs, Finishes, Judges, Ends, ExitState, Begun, Goes, Becomes,
         SlurmSet, SlurmEnded, WrapGood, RunVerdicts
    <2>2. slurm[i].state # "FREE"
      BY <2>1, <1>s DEF Waiting, WrapGood
    <2>3. Case(i) \in Jobs /\ Case(i)' = Case(i) /\ Sole(i)
      BY <2>2, CaseStays
    <2>4. row[Case(i)].status # "running"
      BY <2>1, <2>3 DEF SoleInv, NotBegun
    <2>5. PICK m \in SlurmIds : Claims(m) /\ Case(m) = Case(i)
      BY <2>3, <2>4, <1>r
    <2>6. m = i
      BY <2>3, <2>5 DEF Sole, Submissions, Case
    <2> QED
      BY <2>1, <2>5, <2>6
  <1> QED
    BY <1>1, <1>2

(* A wrapper that executes a case it is alone with has its row end only by  *)
(* cancel, or by polling that gives it up.                                  *)
LEMMA WorkingStep ==
  ASSUME TypeInv, TypeInv', IdsInv, SoleInv, [Next]_vars
  PROVE  Working'
  <1> SUFFICES ASSUME NEW i \in SlurmIds, Sole(i)', wrap'[i].pc \in Begun
               PROVE  row'[Case(i)'].status \in OPEN_STATUSES \union {"lost", "cancelled"}
    BY DEF Working
  <1>s. slurm[i] \in SlurmSet /\ WrapGood(wrap[i], slurm[i]) /\ row \in [Jobs -> RowSet(SlurmIds)]
    BY DEF TypeInv, TypeOK, Structure
  <1>1. Claims(i) \/ (wrap[i].pc \in Begun /\ ~Finishes(i) /\ ~Spoils(i))
    BY <1>s, JobTurn DEF Turn, Stays, Handed, Begins, Stopped, Reads, Leaves, Unfit,
       Spoils, Claims, Works, Runs, Finishes, Judges, Ends, Begun, Goes, Becomes, RunVerdicts
  <1>2. slurm[i].state = "RUNNING"
    BY <1>1, <1>s DEF Claims, Begun, WrapGood
  <1>3. Case(i) \in Jobs /\ Case(i)' = Case(i) /\ Sole(i)
    BY <1>2, CaseStays
  <1>4. CASE Claims(i)
    <2>1. row'[Case(i)].status = "running"
      BY <1>3, <1>4, <1>s DEF Claims, MarkRunning, Transition, RowSet
    <2> QED
      BY <2>1, <1>3 DEF OPEN_STATUSES, ACTIVE_STATUSES
  <1>5. CASE wrap[i].pc \in Begun /\ ~Finishes(i) /\ ~Spoils(i)
    <2>1. row[Case(i)].status \in OPEN_STATUSES \union {"lost", "cancelled"}
      BY <1>3, <1>5 DEF SoleInv, Working
    <2>2. \A m \in SlurmIds : Case(m) = Case(i) => m = i
      BY <1>3 DEF Sole, Submissions, Case
    <2>3. ASSUME NEW c \in Coords, coord[c].pc = "settle", coord[c].job = Case(i)
          PROVE  FALSE
      <3>1. coord[c].seen[Case(i)] = i
        BY <2>3, <1>3, PolledIs DEF SoleInv, Sole
      <3>2. slurm[i].state \in SlurmEnded
        BY <2>3, <3>1 DEF SoleInv, Answered, Settling, Polling
      <3> QED
        BY <1>2, <3>2 DEF SlurmEnded
    <2>4. Over(Case(i)) => row'[Case(i)].status \in {"lost", "cancelled"}
      BY <1>5, <2>2, <2>3 DEF Over, Moves
    <2> QED
      BY <1>3, <2>1, <2>4, CaseTurn DEF RowTurn, RowStays, Taken, Released, Recorded, Executed,
         Undone, Written, Moves, NewRow, OPEN_STATUSES, ACTIVE_STATUSES
  <1> QED
    BY <1>1, <1>4, <1>5

LEMMA SpokenStep ==
  ASSUME TypeInv, TypeInv', IdsInv, SoleInv, [Next]_vars
  PROVE  Spoken'
  <1> SUFFICES ASSUME NEW i \in SlurmIds, Sole(i)', wrap'[i].verdict = "success",
                      wrap'[i].pc \in Ending
               PROVE  row'[Case(i)'].status \in {"success", "lost", "cancelled"}
    BY DEF Spoken
  <1>s. slurm[i] \in SlurmSet /\ WrapGood(wrap[i], slurm[i]) /\ row \in [Jobs -> RowSet(SlurmIds)]
    BY DEF TypeInv, TypeOK, Structure
  <1>1. /\ Finishes(i) \/ wrap[i].pc \in Ending
        /\ wrap[i].verdict = "success"
    BY <1>s, JobTurn DEF Turn, Stays, Handed, Begins, Stopped, Reads, Leaves, Unfit,
       Spoils, Claims, Works, Runs, Finishes, Judges, Ends, Begun, Ending, Goes, Becomes,
       RunVerdicts
  <1>2. slurm[i].state = "RUNNING"
    BY <1>1, <1>s DEF Finishes, Ending, RunVerdicts, WrapGood
  <1>3. Case(i) \in Jobs /\ Case(i)' = Case(i) /\ Sole(i)
    BY <1>2, CaseStays
  <1>4. CASE Finishes(i)
    <2>1. row[Case(i)].status \in OPEN_STATUSES \union {"lost", "cancelled"}
      BY <1>3, <1>4 DEF Finishes, Begun, SoleInv, Working
    <2> QED
      BY <1>1, <1>3, <1>4, <2>1, <1>s DEF Finishes, MarkTerminal, Transition, RowSet
  <1>5. CASE wrap[i].pc \in Ending
    <2>1. row[Case(i)].status \in {"success", "lost", "cancelled"}
      BY <1>1, <1>3, <1>5 DEF SoleInv, Spoken
    <2> QED
      BY <1>3, <2>1, TerminalStays DEF Terminal, TERMINAL_STATUSES
  <1> QED
    BY <1>1, <1>4, <1>5

LEMMA GoneWellStep ==
  ASSUME TypeInv, TypeInv', IdsInv, SoleInv, [Next]_vars
  PROVE  GoneWell' /\ SuccessIsKept'
  <1> SUFFICES ASSUME NEW i \in SlurmIds, Sole(i)', slurm'[i].state = "COMPLETED"
               PROVE  IF wrap'[i].verdict = "success"
                      THEN row'[Case(i)'].status \in {"success", "lost", "cancelled"}
                      ELSE Terminal(row', Case(i)')
    BY DEF GoneWell, SuccessIsKept, Sole
  <1>s. slurm[i] \in SlurmSet /\ WrapGood(wrap[i], slurm[i]) /\ row \in [Jobs -> RowSet(SlurmIds)]
    BY DEF TypeInv, TypeOK, Structure
  <1>1. \/ Stays(i) /\ slurm[i].state = "COMPLETED"
        \/ Leaves(i)
        \/ Ends(i) /\ wrap[i].verdict = "success" /\ wrap'[i].verdict = "success"
    BY <1>s, JobTurn DEF Turn, Stays, Handed, Begins, Stopped, Reads, Unfit,
       Spoils, Claims, Works, Runs, Finishes, Judges, Ends, ExitState, Begun, Ending, Goes, Becomes,
       RunVerdicts, SlurmSet, WrapGood
  <1>2. slurm[i].state # "FREE"
    BY <1>1, <1>s DEF Leaves, Ends, Ending, RunVerdicts, WrapGood
  <1>3. Case(i) \in Jobs /\ Case(i)' = Case(i) /\ Sole(i)
    BY <1>2, CaseStays
  <1>4. CASE Stays(i) /\ slurm[i].state = "COMPLETED"
    <2>1. wrap'[i].verdict = wrap[i].verdict
      BY <1>4 DEF Stays
    <2>2. IF wrap[i].verdict = "success"
          THEN row[Case(i)].status \in {"success", "lost", "cancelled"}
          ELSE Terminal(row, Case(i))
      BY <1>3, <1>4 DEF SoleInv, GoneWell, SuccessIsKept, Sole
    <2>3. Terminal(row, Case(i))
      BY <2>2 DEF Terminal, TERMINAL_STATUSES
    <2> QED
      BY <1>3, <2>1, <2>2, <2>3, TerminalStays DEF Terminal
  <1>5. CASE Leaves(i)
    <2>1. wrap'[i].verdict = "none"
      BY <1>5 DEF Leaves, Becomes, SoleInv, Unspoken
    <2>2. row[Case(i)].status # "running" /\ row[Case(i)].status \notin RunnableStatuses
      BY <1>3, <1>5 DEF Leaves, SoleInv, NotBegun, Waiting
    <2>3. Terminal(row, Case(i))
      BY <1>3, <2>2, <1>s DEF Terminal, RowSet, Statuses, ACTIVE_STATUSES, RunnableStatuses
    <2> QED
      BY <1>3, <1>5, <2>1, <2>3 DEF Leaves, Terminal
  <1>6. CASE Ends(i) /\ wrap[i].verdict = "success" /\ wrap'[i].verdict = "success"
    <2>1. row[Case(i)].status \in {"success", "lost", "cancelled"}
      BY <1>3, <1>6 DEF Ends, SoleInv, Spoken
    <2> QED
      BY <1>3, <1>6, <2>1 DEF Ends
  <1> QED
    BY <1>1, <1>4, <1>5, <1>6

LEMMA OnlyMember ==
  ASSUME NEW S, IsFiniteSet(S), Cardinality(S) <= 1, NEW x \in S
  PROVE  S = {x}
  <1>1. Cardinality(S) \in Nat /\ Cardinality(S) # 0
    BY FS_CardinalityType, FS_EmptySet
  <1>2. Cardinality(S) = 1
    BY <1>1
  <1> QED
    BY <1>2, FS_Singleton

LEMMA EarnedStep ==
  ASSUME TypeInv, TypeInv', IdsInv, SoleInv, [Next]_vars
  PROVE  SuccessIsEarned'
  <1> SUFFICES ASSUME NEW j \in Jobs, row'[j].status = "success",
                      Cardinality(Submissions(j)') <= 1
               PROVE  Earned(j)'
    BY DEF SuccessIsEarned
  <1>f. IsFiniteSet(Submissions(j)')
    <2>1. IsFiniteSet(SlurmIds) /\ Submissions(j)' \subseteq SlurmIds
      BY FS_Interval, SizesAssumption DEF SlurmIds, Submissions
    <2> QED
      BY <2>1, FS_Subset
  <1>g. Submissions(j) \subseteq Submissions(j)'
    BY SubmissionsGrow
  <1>c. IsFiniteSet(Submissions(j)) /\ Cardinality(Submissions(j)) <= 1
    <2>1. /\ IsFiniteSet(Submissions(j))
          /\ Cardinality(Submissions(j)) <= Cardinality(Submissions(j)')
      BY <1>f, <1>g, FS_Subset
    <2> QED
      BY <2>1, <1>f, FS_CardinalityType
  <1>e. ASSUME Earned(j)
        PROVE  Earned(j)'
    <2>1. PICK i \in Submissions(j) : wrap[i].verdict = "success"
      BY <1>e DEF Earned
    <2>2. i \in SlurmIds /\ i \in Submissions(j)'
      BY <2>1, <1>g DEF Submissions
    <2>3. wrap[i].pc \notin {"claim", "run"}
      BY <2>1, <2>2 DEF SoleInv, Unspoken
    <2>4. wrap'[i].verdict = wrap[i].verdict
      BY <2>2, <2>3, JobTurn DEF Turn, Stays, Handed, Begins, Stopped, Reads, Leaves, Unfit,
         Spoils, Claims, Works, Runs, Finishes, Judges, Ends, Goes, Becomes
    <2> QED
      BY <2>1, <2>2, <2>4 DEF Earned
  <1>1. CASE row[j].status = "success"
    BY <1>1, <1>c, <1>e DEF SoleInv, SuccessIsEarned
  <1>2. CASE row[j].status # "success"
    <2>1. Over(j)
      BY <1>2, CaseTurn DEF RowTurn, RowStays, Taken, Released, Recorded, Executed, Undone,
         Written, Moves, NewRow
    <2>2. row[j].status \in OPEN_STATUSES
      BY <2>1 DEF Over, Moves
    <2>3. CASE \E i \in SlurmIds : /\ wrap[i].verdict = "success" /\ Case(i) = j
      BY <2>3, <1>e DEF Earned, Submissions, Case
    <2>4. ASSUME NEW c \in Coords, coord[c].pc = "settle", coord[c].job = j,
                 ClassifyState(coord[c].info[j]) = "success"
          PROVE  Earned(j)
      <3> DEFINE i == coord[c].seen[j]
      <3>1. i \in Submissions(j)
        BY <2>4, PolledIs DEF SoleInv
      <3>2. coord[c].info[j] = "COMPLETED"
        BY <2>4 DEF ClassifyState
      <3>3. slurm[i].state = "COMPLETED" /\ i \in SlurmIds /\ Case(i) = j
        BY <2>4, <3>1, <3>2 DEF SoleInv, Answered, Settling, Polling, SlurmEnded, Submissions, Case
      <3>4. Submissions(j) = {i}
        <4> HIDE DEF i
        <4> QED
          BY <3>1, <1>c, OnlyMember
      <3>5. CASE wrap[i].verdict = "success"
        BY <3>1, <3>5 DEF Earned
      <3>6. CASE wrap[i].verdict # "success"
        <4>1. Terminal(row, j)
          BY <3>3, <3>4, <3>6 DEF SoleInv, GoneWell, Sole
        <4> QED
          BY <2>2, <4>1 DEF Terminal, OPEN_STATUSES, ACTIVE_STATUSES, TERMINAL_STATUSES
      <3> QED
        BY <3>5, <3>6
    <2> QED
      BY <2>1, <2>3, <2>4, <1>e DEF Over, Moves, Finishes
  <1> QED
    BY <1>1, <1>2

LEMMA AnswersStep ==
  ASSUME TypeInv, TypeInv', SoleInv, [Next]_vars, NEW c \in Coords
  PROVE  Answered(c)' /\ Settling(c)'
  <1>1. CASE coord'[c] = coord[c]
    <2>1. Settling(c)'
      BY <1>1 DEF SoleInv, Settling
    <2>2. ASSUME coord[c].pc \in Polling, NEW j \in coord[c].todo, coord[c].info[j] \in SlurmEnded
          PROVE  slurm'[coord[c].seen[j]].state = coord[c].info[j]
      <3>1. slurm[coord[c].seen[j]].state = coord[c].info[j]
        BY <2>2 DEF SoleInv, Answered
      <3>2. coord[c].seen[j] \in SlurmIds
        BY <2>2 DEF TypeInv, Structure, CoordGood, Polling
      <3> QED
        BY <2>2, <3>1, <3>2, EndedStays DEF Stays
    <2> QED
      BY <1>1, <2>1, <2>2 DEF Answered
  <1>2. CASE Takes(c)
    BY <1>2 DEF Takes, SoleInv, Answered, Settling
  <1>3. CASE Asks(c)
    BY <1>3 DEF Asks, Answered, Settling, SlurmEnded
  <1>4. CASE coord'[c].pc \notin Polling
    BY <1>4 DEF Answered, Settling, Polling
  <1> QED
    BY <1>1, <1>2, <1>3, <1>4, CommandTurn DEF CoordTurn, Walks, Resets, Picks, Submits, Snaps,
       Attentive, Polling

LEMMA SoleStep ==
  ASSUME TypeInv, IdsInv, SoleInv, [Next]_vars
  PROVE  SoleInv'
  <1>1. TypeInv'
    BY NextTypes
  <1> QED
    BY <1>1, UntouchedStep, NotBegunStep, UnspokenStep, WorkingStep, SpokenStep, GoneWellStep,
       EarnedStep, AnswersStep DEF SoleInv

LEMMA InitialSole == Init => SoleInv
  <1> SUFFICES ASSUME Init PROVE SoleInv
    OBVIOUS
  <1>1. \A j \in Jobs : row[j].status = "pending"
    BY DEF Init, NewRow
  <1>2. \A i \in SlurmIds : /\ slurm[i].state = "FREE" /\ slurm[i].job = 0
                            /\ wrap[i].pc = "off" /\ wrap[i].verdict = "none"
    BY DEF Init, NoSlurm, NoWrap
  <1>3. \A c \in Coords : coord[c].pc \in {"begin", "idle"}
    BY DEF Init, NoCoord
  <1>4. \A c \in Coords : Answered(c) /\ Settling(c)
    BY <1>3 DEF Answered, Settling, Polling
  <1>5. Untouched /\ SuccessIsEarned
    BY <1>1 DEF Untouched, SuccessIsEarned
  <1>6. Unspoken /\ NotBegun /\ Working /\ Spoken /\ GoneWell /\ SuccessIsKept
    BY <1>2 DEF Unspoken, NotBegun, Waiting, Working, Spoken, GoneWell, SuccessIsKept, Begun,
       Ending, RunVerdicts
  <1> QED
    BY <1>4, <1>5, <1>6 DEF SoleInv

LEMMA SoleHolds == Spec => [](TypeInv /\ IdsInv /\ SoleInv)
  <1>1. Init => TypeInv /\ IdsInv /\ SoleInv
    BY InitialTypes, InitialIds, InitialSole
  <1>2. TypeInv /\ IdsInv /\ SoleInv /\ [Next]_vars => (TypeInv /\ IdsInv /\ SoleInv)'
    BY IdsStep, SoleStep
  <1> QED
    BY <1>1, <1>2, PTL DEF Spec

(* A row of success stands for a case that ran and succeeded, if the case   *)
(* was submitted once, whatever is killed, crashes, is resumed or cancelled:*)
(* a wrapper that leaves with exit code 0 and without a run has found the   *)
(* row ended, so that reconcile_slurm, which takes COMPLETED for a success, *)
(* has nothing to end.                                                      *)
THEOREM EarnedSuccess == Spec => []SuccessIsEarned
  <1>1. SoleInv => SuccessIsEarned
    BY DEF SoleInv
  <1> QED
    BY <1>1, SoleHolds, PTL

(* The success of a case that was submitted once is not overwritten by a    *)
(* reader that acts on an older state of its row or of its SLURM job: only  *)
(* a cancel and polls without an answer end a row before its wrapper does.  *)
THEOREM KeptSuccess == Spec => []SuccessIsKept
  <1>1. SoleInv => SuccessIsKept
    BY DEF SoleInv
  <1> QED
    BY <1>1, SoleHolds, PTL

-----------------------------------------------------------------------------
(* Ids of rows nobody has submitted                                         *)

(* The rows a coordinator polls have been submitted, and stay so.           *)
Fixed(c) ==
  coord[c].pc \in {"query", "apply", "settle"} =>
    \A j \in coord[c].todo : row[j].status \notin {"pending", "scheduling"}

OneCommand == \A c, d \in Coords : c = d

IdsAreLateInv == NoIdBeforeSubmission /\ \A c \in Coords : Fixed(c)

(* The rows c polls stay submitted, unless another command resets one. *)
LEMMA FixedStep ==
  ASSUME TypeInv, IdsAreLateInv, [Next]_vars, NEW c \in Coords,
         \A d \in Coords : d # c => coord[d].pc # "reset"
  PROVE  Fixed(c)'
  <1>t. /\ coord \in [Coords -> CoordSet] /\ coord' \in [Coords -> CoordSet]
        /\ coord[c].todo \subseteq Jobs /\ coord'[c].todo \subseteq Jobs
    <2>1. coord \in [Coords -> CoordSet] /\ coord' \in [Coords -> CoordSet]
      BY NextTypes DEF TypeInv, TypeOK
    <2> QED
      BY <2>1 DEF CoordSet
  <1>1. ASSUME coord[c].pc # "reset", NEW j \in Jobs,
               row[j].status \notin {"pending", "scheduling"}
        PROVE  row'[j].status \notin {"pending", "scheduling"}
    <2>1. \A d \in Coords : coord[d].pc # "reset"
      BY <1>1
    <2> QED
      BY <1>1, <2>1, CaseTurn DEF RowTurn, RowStays, Taken, Released, Recorded, Executed, Over,
         Undone, Written, Moves, TERMINAL_STATUSES
  <1>2. CASE Snaps(c)
    BY <1>2, <1>t DEF Snaps, Fixed, StaleActive, WithStatus
  <1>3. CASE \/ coord'[c] = coord[c] \/ Asks(c) \/ Takes(c)
    <2>1. coord'[c].pc \in {"query", "apply", "settle"} =>
            /\ coord[c].pc \in {"query", "apply", "settle"}
            /\ coord'[c].todo \subseteq coord[c].todo
      BY <1>3 DEF Asks, Takes, Polling
    <2>2. ASSUME coord[c].pc \in {"query", "apply", "settle"}, NEW j \in coord[c].todo
          PROVE  row'[j].status \notin {"pending", "scheduling"}
      <3>1. j \in Jobs /\ row[j].status \notin {"pending", "scheduling"}
        BY <2>2, <1>t DEF IdsAreLateInv, Fixed
      <3> QED
        BY <2>2, <3>1, <1>1
    <2> QED
      BY <2>1, <2>2 DEF Fixed
  <1>4. CASE coord'[c].pc \notin {"query", "apply", "settle"}
    BY <1>4 DEF Fixed
  <1> QED
    BY <1>2, <1>3, <1>4, CommandTurn DEF CoordTurn, Walks, Resets, Picks, Submits, Attentive

LEMMA NoIdStep ==
  ASSUME TypeInv, IdsAreLateInv, [Next]_vars
  PROVE  NoIdBeforeSubmission'
  <1> SUFFICES ASSUME NEW j \in Jobs, row'[j].status \in {"pending", "scheduling"}
               PROVE  row'[j].slurm_job_id = NoId
    BY DEF NoIdBeforeSubmission
  <1>1. row[j].status \in {"pending", "scheduling"} => row[j].slurm_job_id = NoId
    BY DEF IdsAreLateInv, NoIdBeforeSubmission
  <1>2. ~Written(j)
    BY DEF Written, IdsAreLateInv, Fixed
  <1>3. ~Recorded(j) /\ ~Executed(j) /\ ~Over(j)
    BY DEF Recorded, Executed, Over, Moves, TERMINAL_STATUSES
  <1> QED
    BY <1>1, <1>2, <1>3, CaseTurn DEF RowTurn, RowStays, Taken, Released, Undone, Moves, NewRow

LEMMA InitialLate == Init => IdsAreLateInv
  BY DEF Init, IdsAreLateInv, NoIdBeforeSubmission, Fixed, NewRow, NoCoord

(* With one command running at a time, whatever crashes and is started      *)
(* again, a row that is pending or claimed has no SLURM id: reconcile_slurm *)
(* polls rows that were submitted, and only the command itself could reset  *)
(* one before it writes back the id it read.  (Two commands at a time can:  *)
(* one resets the row while the other waits for squeue.)                    *)
THEOREM NoIdAlone ==
  ASSUME OneCommand
  PROVE  Spec => []NoIdBeforeSubmission
  <1>1. Init => TypeInv /\ IdsAreLateInv
    BY InitialTypes, InitialLate
  <1>2. TypeInv /\ IdsAreLateInv /\ [Next]_vars => (TypeInv /\ IdsAreLateInv)'
    BY NextTypes, FixedStep, NoIdStep DEF OneCommand, IdsAreLateInv
  <1>3. IdsAreLateInv => NoIdBeforeSubmission
    BY DEF IdsAreLateInv
  <1> QED
    BY <1>1, <1>2, <1>3, PTL DEF Spec

-----------------------------------------------------------------------------
(* Jobs polling gives up                                                    *)

Used == MaxFaults - budget

(* A resume is itself an unusual event, and gives a job up after one poll.  *)
Base(c) == IF coord[c].op = "resume" THEN 1 ELSE 0

Counted(c) == \A id \in SlurmIds : coord[c].missing[id] + Base(c) <= Used
Missed(c) ==
  coord[c].pc \in Polling =>
    \A j \in coord[c].todo :
      coord[c].info[j] = "absent" => coord[c].missing[coord[c].seen[j]] + 1 + Base(c) <= Used

CountInv ==
  /\ LostNeedsOutages
  /\ \A c \in Coords : /\ Counted(c) /\ Missed(c)
                       /\ coord[c].op = "resume" => "resume" \in Faults

LEMMA BudgetShrinks ==
  ASSUME TypeInv, [Next]_vars
  PROVE  budget \in Int /\ budget' \in Int /\ budget' <= budget
  <1>1. budget \in Int
    BY SizesAssumption DEF TypeInv, TypeOK
  <1>2. budget' = budget \/ \E kind : Fault(kind)
    <2>1. ASSUME NEW i \in SlurmIds, Wrapper(i) \/ Start(i) \/ Kill(i)
          PROVE  budget' = budget \/ \E kind : Fault(kind)
      BY <2>1 DEF Wrapper, ReadRow, MissingTemplate, BadConfig, ClaimRun, ClaimSuccessor,
         SubmitSuccessor, MarkSuccessor, RunCase, Finish, Conclude, WriteVerdict, Start, Kill,
         Refused
    <2>2. ASSUME NEW c \in Coords, Coordinator(c)
          PROVE  budget' = budget \/ \E kind : Fault(kind)
      <3>1. CASE Query(c)
        BY <3>1 DEF Query
      <3> QED
        BY <2>2, <3>1 DEF Coordinator, Begin, Top, Recover, Reset, Seed, Repair, List, Pick,
           Sbatch, Mark, Snapshot, Apply, Settle, Finalize, RecordVerdict, Check, CancelRows,
           CancelScan, Scancel, CancelMark, CancelEnd, Refused
    <2> QED
      BY <2>1, <2>2 DEF Next, vars, Crash, StartWatch, StartResume, StartCancel, ClaimAges
  <1> QED
    BY <1>1, <1>2 DEF Fault

(* What c remembers of its polls: nothing new, except that one more poll    *)
(* did not find the job of a row, which c then leaves.                      *)
Forgets(c) ==
  /\ \A id \in SlurmIds : coord'[c].missing[id] \in {0, coord[c].missing[id]}
  /\ coord'[c].op = "resume" =>
       \/ coord[c].op = "resume"
       \/ /\ Fault("resume") /\ coord'[c].pc = "begin"
          /\ \A id \in SlurmIds : coord'[c].missing[id] = 0
Counts(c) ==
  /\ coord[c].pc = "apply"
  /\ \E j \in coord[c].todo :
       /\ coord[c].info[j] = "absent"
       /\ \A id \in SlurmIds : \/ coord'[c].missing[id] \in {0, coord[c].missing[id]}
                               \/ /\ id = coord[c].seen[j]
                                  /\ coord'[c].missing[id] = coord[c].missing[id] + 1
       /\ coord'[c].pc \in Polling => j \notin coord'[c].todo
  /\ coord'[c].op \in {coord[c].op, "none"}

LEMMA ContinueKeeps ==
  ASSUME NEW c \in Coords, coord[c] \in CoordSet, NEW todo, NEW pc, NEW next
  PROVE  /\ Continue(c, todo, pc, next).op \in {coord[c].op, "none"}
         /\ \A id \in SlurmIds :
              Continue(c, todo, pc, next).missing[id] \in {0, coord[c].missing[id]}
  BY DEF Continue, CoordSet, NoCoord

LEMMA PollsCounted ==
  ASSUME TypeInv, [Next]_vars, NEW c \in Coords
  PROVE  Forgets(c) \/ Counts(c)
  <1> DEFINE r == coord[c]
             t == coord[c].todo
             Same(s) == /\ s.op \in {r.op, "none"}
                        /\ \A id \in SlurmIds : s.missing[id] \in {0, r.missing[id]}
  <1>w. coord \in [Coords -> CoordSet] /\ r \in CoordSet /\ CoordGood(r)
    BY DEF TypeInv, TypeOK, Structure
  <1>t. t \subseteq Jobs /\ First(t) \subseteq t
    BY <1>w, CoordFields DEF First
  <1>s. ASSUME NEW state, Set(c, state)
        PROVE  coord'[c] = state
    BY <1>s, <1>w DEF Set
  <1>f. ASSUME Same(coord'[c])
        PROVE  Forgets(c)
    BY <1>f DEF Forgets
  <1>r. Same(r)
    OBVIOUS
  <1>n. Same(NoCoord)
    BY DEF NoCoord
  <1>z. \A id \in SlurmIds : NoCoord.missing[id] = 0
    BY DEF NoCoord
  <1>k. \A todo \in SUBSET Jobs, pc \in CoordPcs, next \in Resting :
          Continue(c, todo, pc, next) \in CoordSet /\ Same(Continue(c, todo, pc, next))
    BY <1>w, ContinueIs, ContinueKeeps
  <1>a. \A op : AfterRecover(op) \in Resting /\ AfterRepair(op) \in Resting
                /\ AfterReconcile(op) \in Resting
    BY AfterRests
  <1>p. /\ {"reset", "pick", "list", "query", "apply", "cancel_mark"} \subseteq CoordPcs
        /\ {"idle", "cancel_end"} \subseteq Resting
    BY DEF CoordPcs, Resting
  <1>e. ASSUME NEW state \in CoordSet, Same(state)
        PROVE  /\ \A pc : Same([state EXCEPT !.pc = pc])
               /\ \A slots : Same([state EXCEPT !.slots = slots])
               /\ \A pc, slots : Same([state EXCEPT !.pc = pc, !.slots = slots])
               /\ \A seen : Same([state EXCEPT !.seen = seen])
               /\ \A pc, job, dep : Same([state EXCEPT !.pc = pc, !.job = job, !.dep = dep])
               /\ \A pc, child : Same([state EXCEPT !.pc = pc, !.child = child])
               /\ \A pc, todo, seen : Same([state EXCEPT !.pc = pc, !.todo = todo, !.seen = seen])
               /\ \A pc, job, i : Same([state EXCEPT !.pc = pc, !.job = job, !.missing[i] = 0])
    BY <1>e DEF CoordSet
  <1> HIDE DEF Same
  <1>1. CASE coord'[c] = coord[c]
    BY <1>1, <1>r, <1>f
  <1>2. CASE Crash(c) \/ StartCancel(c) \/ StartWatch(c)
    <2>1. \/ coord'[c] = NoCoord
          \/ \E op \in {"watch", "cancel"} :
               \E pc : coord'[c] = [NoCoord EXCEPT !.op = op, !.pc = pc]
      BY <1>2, <1>s DEF Crash, StartCancel, StartWatch, Quit
    <2>2. ASSUME NEW op \in {"watch", "cancel"}, NEW pc,
                 coord'[c] = [NoCoord EXCEPT !.op = op, !.pc = pc]
          PROVE  Forgets(c)
      BY <2>2, <1>z, NoCoordType DEF Forgets, CoordSet
    <2> QED
      BY <2>1, <2>2, <1>n, <1>f
  <1>3. CASE StartResume(c)
    <2>1. coord'[c] = [NoCoord EXCEPT !.op = "resume", !.pc = "begin"] /\ Fault("resume")
      BY <1>3, <1>s DEF StartResume
    <2> QED
      BY <2>1, <1>z, NoCoordType DEF Forgets, CoordSet
  <1>4. CASE \/ Begin(c) \/ Top(c) \/ Finalize(c) \/ RecordVerdict(c) \/ Check(c)
             \/ CancelRows(c) \/ CancelEnd(c)
    <2>1. Quit(c) \/ \E pc : Move(c, pc)
      BY <1>4 DEF Begin, Top, Finalize, RecordVerdict, Check, CancelRows, CancelEnd
    <2>2. coord'[c] = NoCoord \/ \E pc : coord'[c] = [r EXCEPT !.pc = pc]
      BY <2>1, <1>s DEF Quit, Move
    <2> QED
      BY <2>2, <1>n, <1>r, <1>e, <1>w, <1>f
  <1>5. CASE Recover(c) \/ Reset(c) \/ List(c) \/ Settle(c) \/ Scancel(c) \/ CancelMark(c)
    <2>1. PICK todo \in SUBSET Jobs, pc \in CoordPcs, next \in Resting :
            Set(c, Continue(c, todo, pc, next))
      <3>1. \A from : WithStatus(row, from) \subseteq Jobs
        BY DEF WithStatus, TypeInv, TypeOK
      <3> QED
        BY <1>5, <3>1, <1>a, <1>p, <1>t DEF Recover, Reset, List, Settle, Scancel, CancelMark
    <2> QED
      BY <2>1, <1>s, <1>k, <1>f
  <1>6. CASE Seed(c) \/ Snapshot(c) \/ Mark(c)
    <2>0. PICK todo \in SUBSET Jobs, pc \in CoordPcs, next \in Resting :
            \E slots, seen :
              LET state == Continue(c, todo, pc, next)
              IN  Set(c, state) \/ Set(c, [state EXCEPT !.slots = slots])
                  \/ Set(c, [state EXCEPT !.seen = seen])
      <3>1. StaleActive(row) \subseteq Jobs /\ \A from : WithStatus(row, from) \subseteq Jobs
        BY DEF WithStatus, StaleActive, TypeInv, TypeOK
      <3>2. CASE Seed(c)
        BY <3>1, <3>2, <1>p DEF Seed, Set
      <3>3. CASE Snapshot(c)
        BY <3>1, <3>3, <1>p, <1>a DEF Snapshot
      <3>4. CASE Mark(c)
        <4>1. {} \in SUBSET Jobs /\ t \ {r.job} \in SUBSET Jobs
          BY <1>t
        <4> QED
          BY <4>1, <3>4, <1>p, <1>a DEF Mark
      <3> QED
        BY <1>6, <3>2, <3>3, <3>4
    <2>1. PICK slots, seen :
            LET state == Continue(c, todo, pc, next)
            IN  Set(c, state) \/ Set(c, [state EXCEPT !.slots = slots])
                \/ Set(c, [state EXCEPT !.seen = seen])
      BY <2>0
    <2> DEFINE state == Continue(c, todo, pc, next)
    <2>2. state \in CoordSet /\ Same(state)
      BY <1>k
    <2>3. \/ coord'[c] = state \/ coord'[c] = [state EXCEPT !.slots = slots]
          \/ coord'[c] = [state EXCEPT !.seen = seen]
      BY <2>1, <1>s
    <2> HIDE DEF state
    <2>4. Same([state EXCEPT !.slots = slots]) /\ Same([state EXCEPT !.seen = seen])
      BY <2>2, <1>e
    <2> QED
      BY <2>2, <2>3, <2>4, <1>f
  <1>7. CASE Repair(c) \/ Pick(c) \/ Sbatch(c) \/ CancelScan(c)
    <2>1. \/ \E todo \in SUBSET Jobs, pc \in CoordPcs, next \in Resting :
               Set(c, Continue(c, todo, pc, next))
          \/ \E pc, slots : Set(c, [r EXCEPT !.pc = pc, !.slots = slots])
          \/ \E pc, job, dep : Set(c, [r EXCEPT !.pc = pc, !.job = job, !.dep = dep])
          \/ \E pc, child : Set(c, [r EXCEPT !.pc = pc, !.child = child])
          \/ \E pc, todo, seen : Set(c, [r EXCEPT !.pc = pc, !.todo = todo, !.seen = seen])
      <3>1. {} \in SUBSET Jobs /\ \A j : t \ {j} \in SUBSET Jobs
        BY <1>t
      <3>2. CASE Repair(c)
        BY <3>1, <3>2, <1>p, <1>a DEF Repair
      <3>3. CASE Pick(c)
        BY <3>1, <3>3, <1>p, <1>a DEF Pick
      <3>4. CASE Sbatch(c)
        BY <3>1, <3>4, <1>p, <1>a DEF Sbatch
      <3>5. CASE CancelScan(c)
        BY <3>5 DEF CancelScan
      <3> QED
        BY <1>7, <3>2, <3>3, <3>4, <3>5
    <2>2. ASSUME NEW todo \in SUBSET Jobs, NEW pc \in CoordPcs, NEW next \in Resting,
                 Set(c, Continue(c, todo, pc, next))
          PROVE  Same(coord'[c])
      BY <2>2, <1>s, <1>k
    <2>3. ASSUME NEW pc, NEW slots, NEW job, NEW dep, NEW child, NEW todo, NEW seen,
                 \/ Set(c, [r EXCEPT !.pc = pc, !.slots = slots])
                 \/ Set(c, [r EXCEPT !.pc = pc, !.job = job, !.dep = dep])
                 \/ Set(c, [r EXCEPT !.pc = pc, !.child = child])
                 \/ Set(c, [r EXCEPT !.pc = pc, !.todo = todo, !.seen = seen])
          PROVE  Same(coord'[c])
      <3> HIDE DEF r
      <3>1. r \in CoordSet /\ Same(r)
        BY <1>w, <1>r
      <3>2. /\ Same([r EXCEPT !.pc = pc, !.slots = slots])
            /\ Same([r EXCEPT !.pc = pc, !.job = job, !.dep = dep])
            /\ Same([r EXCEPT !.pc = pc, !.child = child])
            /\ Same([r EXCEPT !.pc = pc, !.todo = todo, !.seen = seen])
        BY <3>1, <1>e
      <3> QED
        BY <2>3, <3>2, <1>s
    <2> QED
      BY <2>1, <2>2, <2>3, <1>f
  <1>8. CASE Query(c)
    <2>0. PICK todo \in SUBSET t, popped \in [SlurmIds -> Int] :
            \E info :
              LET state == [Continue(c, todo, "apply", AfterReconcile(r.op))
                              EXCEPT !.missing = popped]
              IN  /\ \A id \in SlurmIds : popped[id] \in {0, r.missing[id]}
                  /\ Set(c, state) \/ Set(c, [state EXCEPT !.info = info])
      <3>1. PICK squeue \in BOOLEAN, sacct \in BOOLEAN :
              LET todo == coord[c].todo
                  seen == coord[c].seen
                  listed == {j \in todo : squeue /\ slurm[seen[j]].state \in SlurmLive}
                  answer == [j \in Jobs |-> IF sacct /\ j \in todo \ listed
                                            THEN slurm[seen[j]].state ELSE "absent"]
                  popped == [i \in SlurmIds |-> IF \E j \in listed : seen[j] = i
                                                THEN 0 ELSE coord[c].missing[i]]
                  state == [Continue(c, todo \ listed, "apply", AfterReconcile(coord[c].op))
                              EXCEPT !.missing = popped]
              IN  Set(c, IF todo = listed THEN state ELSE [state EXCEPT !.info = answer])
        BY <1>8 DEF Query
      <3> DEFINE listed == {j \in t : squeue /\ slurm[r.seen[j]].state \in SlurmLive}
                 popped == [i \in SlurmIds |-> IF \E j \in listed : r.seen[j] = i
                                               THEN 0 ELSE r.missing[i]]
      <3>2. popped \in [SlurmIds -> Int] /\ \A id \in SlurmIds : popped[id] \in {0, r.missing[id]}
        <4>1. \A id \in SlurmIds : r.missing[id] \in Int
          BY <1>w, SizesAssumption DEF CoordSet, Polls
        <4> QED
          BY <4>1
      <3>3. t \ listed \in SUBSET t
        OBVIOUS
      <3> QED
        BY <3>1, <3>2, <3>3
    <2>1. PICK info :
            LET state == [Continue(c, todo, "apply", AfterReconcile(r.op))
                            EXCEPT !.missing = popped]
            IN  /\ \A id \in SlurmIds : popped[id] \in {0, r.missing[id]}
                /\ Set(c, state) \/ Set(c, [state EXCEPT !.info = info])
      BY <2>0
    <2> DEFINE state == Continue(c, todo, "apply", AfterReconcile(r.op))
    <2>2. state \in CoordSet /\ Same(state)
      BY <1>k, <1>p, <1>a, <1>t
    <2>3. \/ coord'[c] = [state EXCEPT !.missing = popped]
          \/ coord'[c] = [[state EXCEPT !.missing = popped] EXCEPT !.info = info]
      BY <2>1, <1>s
    <2> HIDE DEF state
    <2>4. coord'[c].op = state.op /\ coord'[c].missing = popped
      BY <2>2, <2>3 DEF CoordSet
    <2>5. Same(coord'[c])
      BY <2>1, <2>2, <2>4 DEF Same
    <2> QED
      BY <2>5, <1>f
  <1>9. CASE Apply(c)
    <2>0. PICK j \in First(t) :
            \E count :
              \/ /\ Set(c, [Continue(c, t \ {j}, "apply", AfterReconcile(r.op))
                              EXCEPT !.missing[r.seen[j]] = count])
                 /\ count = 0 \/ (count = r.missing[r.seen[j]] + 1 /\ r.info[j] = "absent")
              \/ Set(c, [r EXCEPT !.pc = "settle", !.job = j, !.missing[r.seen[j]] = 0])
      BY <1>9 DEF Apply
    <2>1. PICK count :
            \/ /\ Set(c, [Continue(c, t \ {j}, "apply", AfterReconcile(r.op))
                            EXCEPT !.missing[r.seen[j]] = count])
               /\ count = 0 \/ (count = r.missing[r.seen[j]] + 1 /\ r.info[j] = "absent")
            \/ Set(c, [r EXCEPT !.pc = "settle", !.job = j, !.missing[r.seen[j]] = 0])
      BY <2>0
    <2> DEFINE state == Continue(c, t \ {j}, "apply", AfterReconcile(r.op))
    <2>2. j \in t /\ t \ {j} \in SUBSET Jobs /\ r.pc = "apply" /\ r.seen[j] \in SlurmIds
      BY <1>t, <1>9, <1>w DEF Apply, At, CoordGood
    <2>3. state \in CoordSet /\ Same(state)
      BY <1>k, <1>p, <1>a, <2>2
    <2>4. state.pc \in Polling => state.todo = t \ {j}
      <3>1. "apply" \in CoordPcs /\ AfterReconcile(r.op) \in Resting
        BY <1>p, <1>a
      <3> QED
        <4>1. state.pc \in {"apply", AfterReconcile(r.op)} /\ (t \ {j} # {} => state.todo = t \ {j})
          BY <2>2, <3>1, <1>w, ContinueIs
        <4>2. t \ {j} = {} => state.pc = AfterReconcile(r.op)
          BY <2>2, <3>1, <1>w, ContinueIs
        <4> QED
          BY <4>1, <4>2, <3>1 DEF Polling, Resting
    <2> HIDE DEF state
    <2>5. CASE /\ coord'[c] = [state EXCEPT !.missing[r.seen[j]] = count]
               /\ count = 0 \/ (count = r.missing[r.seen[j]] + 1 /\ r.info[j] = "absent")
      <3>1. /\ coord'[c].pc = state.pc /\ coord'[c].todo = state.todo /\ coord'[c].op = state.op
            /\ \A id \in SlurmIds : coord'[c].missing[id] = IF id = r.seen[j] THEN count
                                                            ELSE state.missing[id]
        BY <2>2, <2>3, <2>5 DEF CoordSet
      <3>2. CASE count = 0
        BY <3>1, <3>2, <2>3, <1>f DEF Same
      <3>3. CASE count # 0
        <4>1. count = r.missing[r.seen[j]] + 1 /\ r.info[j] = "absent"
          BY <2>5, <3>3
        <4> QED
          BY <3>1, <4>1, <2>2, <2>3, <2>4 DEF Same, Counts
      <3> QED
        BY <3>2, <3>3
    <2>6. CASE coord'[c] = [r EXCEPT !.pc = "settle", !.job = j, !.missing[r.seen[j]] = 0]
      <3>1. Same([r EXCEPT !.pc = "settle", !.job = j, !.missing[r.seen[j]] = 0])
        BY <1>e, <1>r, <1>w
      <3> QED
        BY <2>6, <3>1, <1>f
    <2> QED
      BY <2>1, <2>5, <2>6, <1>s DEF state
  <1> QED
    BY <1>1, <1>2, <1>3, <1>4, <1>5, <1>6, <1>7, <1>8, <1>9, OneMoves DEF Coordinator

(* The jobs polled for different rows are different.                        *)
LEMMA SeenApart ==
  ASSUME IdsInv, NEW c \in Coords, coord[c].pc \in {"query", "apply", "settle"},
         NEW j \in coord[c].todo, NEW m \in coord[c].todo, coord[c].seen[j] = coord[c].seen[m]
  PROVE  j = m
  BY DEF IdsInv, Polled, Owns


LEMMA CountStep ==
  ASSUME TypeInv, IdsInv, CountInv, [Next]_vars, NEW c \in Coords
  PROVE  /\ Counted(c)' /\ Missed(c)'
         /\ coord'[c].op = "resume" => "resume" \in Faults
  <1> DEFINE old(id) == coord[c].missing[id]
             new(id) == coord'[c].missing[id]
             seen(j) == coord[c].seen[j]
  <1>u. /\ Used \in Nat /\ Used' \in Nat /\ Used <= Used'
        /\ \A kind : Fault(kind) => Used' = Used + 1
    BY BudgetShrinks, NextTypes, SizesAssumption DEF Used, Fault, TypeInv, TypeOK
  <1>m. /\ \A id \in SlurmIds : old(id) \in Nat /\ new(id) \in Nat
        /\ coord[c].todo \subseteq Jobs
    BY NextTypes, SizesAssumption DEF TypeInv, TypeOK, CoordSet, Polls
  <1>g. coord[c].pc \in {"query", "apply", "settle"} =>
          \A j \in coord[c].todo : seen(j) \in SlurmIds
    BY DEF TypeInv, Structure, CoordGood
  <1>b. Base(c) \in {0, 1} /\ Base(c)' \in {0, 1}
    BY DEF Base
  <1>i. /\ \A id \in SlurmIds : old(id) + Base(c) <= Used
        /\ coord[c].pc \in Polling =>
             \A j \in coord[c].todo :
               coord[c].info[j] = "absent" => old(seen(j)) + 1 + Base(c) <= Used
        /\ coord[c].op = "resume" => "resume" \in Faults
    BY DEF CountInv, Counted, Missed
  <1>r. /\ coord'[c].op = "resume" => "resume" \in Faults
        /\ \/ Base(c)' <= Base(c)
           \/ /\ Fault("resume") /\ coord'[c].pc = "begin"
              /\ \A id \in SlurmIds : new(id) = 0
    BY <1>i, PollsCounted DEF Forgets, Counts, Base, Fault
  <1>f. ASSUME NEW id \in SlurmIds
        PROVE  \/ new(id) \in {0, old(id)}
               \/ \E j \in coord[c].todo :
                    /\ id = seen(j) /\ new(id) = old(id) + 1 /\ coord[c].pc = "apply"
                    /\ coord[c].info[j] = "absent"
                    /\ coord'[c].pc \in Polling => j \notin coord'[c].todo
    BY PollsCounted DEF Forgets, Counts
  <1> HIDE DEF old, new, seen
  <1>1. ASSUME NEW id \in SlurmIds
        PROVE  new(id) + Base(c)' <= Used'
    <2>1. CASE /\ Fault("resume") /\ new(id) = 0
      BY <2>1, <1>u, <1>b
    <2>2. CASE Base(c)' <= Base(c) /\ new(id) \in {0, old(id)}
      <3>1. old(id) + Base(c) <= Used /\ old(id) \in Nat /\ new(id) \in Nat
        BY <1>i, <1>m
      <3>2. new(id) <= old(id)
        BY <2>2, <3>1
      <3> QED
        BY <2>2, <3>1, <3>2, <1>u, <1>b
    <2>3. CASE /\ Base(c)' <= Base(c)
               /\ \E j \in coord[c].todo :
                    /\ id = seen(j) /\ new(id) = old(id) + 1 /\ coord[c].pc = "apply"
                    /\ coord[c].info[j] = "absent"
      <3>1. old(id) + 1 + Base(c) <= Used /\ old(id) \in Nat
        BY <2>3, <1>i, <1>m DEF Polling
      <3> QED
        BY <2>3, <3>1, <1>u, <1>b
    <2> QED
      BY <2>1, <2>2, <2>3, <1>r, <1>f
  <1>2. ASSUME coord'[c].pc \in Polling, NEW j \in coord'[c].todo, coord'[c].info[j] = "absent"
        PROVE  coord'[c].missing[coord'[c].seen[j]] + 1 + Base(c)' <= Used'
    <2>0. Base(c)' <= Base(c)
      BY <1>2, <1>r DEF Polling
    <2>p. "absent" \notin SlurmStates /\ \A i \in SlurmIds : slurm[i].state \in SlurmStates
      <3>1. \A i \in SlurmIds : slurm[i].state \in SlurmStates
        BY DEF TypeInv, TypeOK, SlurmSet
      <3> QED
        BY <3>1 DEF SlurmStates, SlurmLive, SlurmEnded
    <2>1. CASE Asks(c)
      <3>1. /\ j \in coord[c].todo /\ coord'[c].seen[j] = seen(j) /\ seen(j) \in SlurmIds
            /\ coord[c].pc = "query"
        BY <2>1, <1>2, <1>g DEF Asks, seen
      <3>2. Fault("outage")
        BY <2>1, <3>1, <1>2, <2>p DEF Asks, seen
      <3>3. new(seen(j)) \in {0, old(seen(j))}
        BY <3>1, <1>f
      <3>4. /\ old(seen(j)) + Base(c) <= Used /\ old(seen(j)) \in Nat /\ new(seen(j)) \in Nat
        BY <3>1, <1>i, <1>m
      <3>5. new(seen(j)) <= old(seen(j))
        BY <3>3, <3>4
      <3>6. new(seen(j)) + 1 + Base(c)' <= Used'
        BY <3>2, <3>4, <3>5, <2>0, <1>u, <1>b
      <3> QED
        BY <3>1, <3>6 DEF new
    <2>2. CASE coord'[c] = coord[c] \/ Takes(c)
      <3>1. /\ j \in coord[c].todo /\ coord'[c].seen[j] = seen(j) /\ seen(j) \in SlurmIds
            /\ coord[c].info[j] = "absent" /\ coord[c].pc \in Polling
        BY <2>2, <1>2, <1>g DEF Takes, seen, Polling
      <3>2. old(seen(j)) + 1 + Base(c) <= Used /\ old(seen(j)) \in Nat /\ new(seen(j)) \in Nat
        BY <3>1, <1>i, <1>m
      <3>3. new(seen(j)) \in {0, old(seen(j))}
        <4>1. ASSUME NEW m \in coord[c].todo, seen(j) = seen(m)
              PROVE  m = j
          BY <4>1, <3>1, SeenApart DEF Polling, seen
        <4> QED
          BY <4>1, <3>1, <1>2, <1>f
      <3>4. new(seen(j)) <= old(seen(j))
        BY <3>2, <3>3
      <3>5. new(seen(j)) + 1 + Base(c)' <= Used'
        BY <3>2, <3>4, <2>0, <1>u, <1>b
      <3> QED
        BY <3>1, <3>5 DEF new
    <2> QED
      BY <1>2, <2>1, <2>2, CommandTurn DEF CoordTurn, Walks, Resets, Picks, Submits, Snaps,
         Attentive, Polling
  <1> QED
    BY <1>1, <1>2, <1>r DEF Counted, Missed, new

LEMMA LostStep ==
  ASSUME TypeInv, CountInv, [Next]_vars
  PROVE  LostNeedsOutages'
  <1> SUFFICES ASSUME NEW j \in Jobs, row'[j].status = "lost"
               PROVE  Used' >= LostAfter \/ ("resume" \in Faults /\ Used' >= 2)
    BY DEF LostNeedsOutages, Used
  <1>u. Used \in Nat /\ Used' \in Nat /\ Used <= Used' /\ LostAfter \in Nat
    BY BudgetShrinks, NextTypes, SizesAssumption DEF Used, TypeInv, TypeOK
  <1>1. CASE row[j].status = "lost"
    BY <1>1, <1>u DEF CountInv, LostNeedsOutages, Used
  <1>2. CASE row[j].status # "lost"
    <2>1. Over(j)
      BY <1>2, CaseTurn DEF RowTurn, RowStays, Taken, Released, Recorded, Executed, Undone,
         Written, Moves, NewRow
    <2>2. \A i \in SlurmIds : wrap[i].verdict # "lost"
      BY DEF TypeInv, TypeOK, WrapSet, CaseVerdicts
    <2>3. PICK c \in Coords :
            /\ coord[c].pc = "apply" /\ j \in coord[c].todo /\ coord[c].info[j] = "absent"
            /\ coord[c].missing[coord[c].seen[j]] + 1
                 >= (IF coord[c].op = "resume" THEN 1 ELSE LostAfter)
      BY <2>1, <2>2 DEF Over, Moves, ClassifyState
    <2>4. coord[c].missing[coord[c].seen[j]] + 1 + Base(c) <= Used
      BY <2>3 DEF CountInv, Missed, Polling
    <2>5. coord[c].missing[coord[c].seen[j]] \in Nat
      <3>1. coord[c].seen[j] \in SlurmIds
        BY <2>3 DEF TypeInv, Structure, CoordGood
      <3> QED
        BY <3>1, SizesAssumption DEF TypeInv, TypeOK, CoordSet, Polls
    <2>6. CASE coord[c].op = "resume"
      BY <2>4, <2>5, <2>6, <1>u DEF Base, CountInv
    <2>7. CASE coord[c].op # "resume"
      BY <2>3, <2>4, <2>5, <2>7, <1>u DEF Base
    <2> QED
      BY <2>6, <2>7
  <1> QED
    BY <1>1, <1>2

LEMMA InitialCount == Init => CountInv
  <1> SUFFICES ASSUME Init PROVE CountInv
    OBVIOUS
  <1>1. LostNeedsOutages
    BY DEF Init, LostNeedsOutages, NewRow
  <1>2. ASSUME NEW c \in Coords
        PROVE  /\ coord[c].pc \in {"idle", "begin"} /\ coord[c].op \in {"none", "submit"}
               /\ \A id \in SlurmIds : coord[c].missing[id] = 0
    BY DEF Init, NoCoord
  <1>3. Used = 0
    BY SizesAssumption DEF Init, Used
  <1> QED
    BY <1>1, <1>2, <1>3 DEF CountInv, Counted, Missed, Base, Polling

(* A job is given up as lost only after LostAfter polls without an answer,  *)
(* each of them an unusual event, whatever happened to the rows between two *)
(* polls; or by a resume, unusual itself, after one such poll.  The counts  *)
(* of missing polls belong to a SLURM id, and an id to one row, so none is  *)
(* counted twice.                                                           *)
THEOREM LostAfterOutages == Spec => []LostNeedsOutages
  <1>1. Init => TypeInv /\ IdsInv /\ CountInv
    BY InitialTypes, InitialIds, InitialCount
  <1>2. TypeInv /\ IdsInv /\ CountInv /\ [Next]_vars => (TypeInv /\ IdsInv /\ CountInv)'
    <2> SUFFICES ASSUME TypeInv, IdsInv, CountInv, [Next]_vars
                 PROVE  (TypeInv /\ IdsInv /\ CountInv)'
      OBVIOUS
    <2>1. LostNeedsOutages'
      BY LostStep
    <2>2. \A c \in Coords : /\ Counted(c)' /\ Missed(c)'
                            /\ coord'[c].op = "resume" => "resume" \in Faults
      BY CountStep
    <2> QED
      BY <2>1, <2>2, NextTypes, IdsStep DEF CountInv
  <1>3. CountInv => LostNeedsOutages
    BY DEF CountInv
  <1> QED
    BY <1>1, <1>2, <1>3, PTL DEF Spec
=============================================================================
