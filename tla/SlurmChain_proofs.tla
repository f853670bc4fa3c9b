-------------------------- MODULE SlurmChain_proofs -------------------------
(***************************************************************************)
(* What SlurmChain guarantees for every number of cases, width of the      *)
(* window, set of coordinators and budget of unusual events: its types,    *)
(* that it implements JobLife, and that the verdict of a run is true.      *)
(*                                                                         *)
(* The argument for the last two: every step applies at most one statement *)
(* of the ledger to the rows, and each statement moves a row along an edge *)
(* of JobLife or not at all; so once all rows are terminal they stay as    *)
(* they are, and a verdict somebody has read and not yet written is still  *)
(* the right one.                                                          *)
(***************************************************************************)
EXTENDS SlurmChain, FiniteSetTheorems, TLAPS

-----------------------------------------------------------------------------
(* The statements of the ledger keep rows well-formed. *)

LEMMA LedgerTypes ==
  ASSUME NEW ids, NEW rows \in [Jobs -> RowSet(ids)], NEW j \in Jobs
  PROVE  /\ ClaimForSubmission(rows, j) \in [Jobs -> RowSet(ids)]
         /\ ReleaseSubmission(rows, j) \in [Jobs -> RowSet(ids)]
         /\ MarkRunning(rows, j) \in [Jobs -> RowSet(ids)]
         /\ ResetToPending(rows, j) \in [Jobs -> RowSet(ids)]
         /\ CancelPending(rows) \in [Jobs -> RowSet(ids)]
         /\ \A status \in TERMINAL_STATUSES :
              MarkTerminal(rows, j, status) \in [Jobs -> RowSet(ids)]
         /\ \A id \in ids \union {NoId} :
              /\ MarkScheduled(rows, j, id) \in [Jobs -> RowSet(ids)]
              /\ SetSlurmId(rows, j, id) \in [Jobs -> RowSet(ids)]
  <1> USE DEF RowSet, Statuses, ACTIVE_STATUSES, TERMINAL_STATUSES
  <1>1. ClaimForSubmission(rows, j) \in [Jobs -> RowSet(ids)]
    BY DEF Transition, ClaimForSubmission
  <1>2. ReleaseSubmission(rows, j) \in [Jobs -> RowSet(ids)]
    BY DEF Transition, ReleaseSubmission
  <1>3. MarkRunning(rows, j) \in [Jobs -> RowSet(ids)]
    BY DEF Transition, MarkRunning, RunnableStatuses
  <1>4. ResetToPending(rows, j) \in [Jobs -> RowSet(ids)]
    BY DEF Transition, ResetToPending, NewRow, OPEN_STATUSES
  <1>5. CancelPending(rows) \in [Jobs -> RowSet(ids)]
    BY DEF CancelPending
  <1>6. ASSUME NEW status \in TERMINAL_STATUSES
        PROVE  MarkTerminal(rows, j, status) \in [Jobs -> RowSet(ids)]
    BY DEF Transition, MarkTerminal, OPEN_STATUSES
  <1>7. ASSUME NEW id \in ids \union {NoId}
        PROVE  /\ MarkScheduled(rows, j, id) \in [Jobs -> RowSet(ids)]
               /\ SetSlurmId(rows, j, id) \in [Jobs -> RowSet(ids)]
    BY DEF Transition, MarkScheduled, SetSlurmId
  <1> QED
    BY <1>1, <1>2, <1>3, <1>4, <1>5, <1>6, <1>7

LEMMA NoCoordType == NoCoord \in CoordSet
  BY SizesAssumption DEF NoCoord, CoordSet, CoordPcs, Ids, Slots, Polls, Infos

LEMMA ContinueType ==
  ASSUME NEW c \in Coords, coord[c] \in CoordSet, NEW todo \in SUBSET Jobs,
         NEW pc \in CoordPcs, NEW next \in CoordPcs
  PROVE  Continue(c, todo, pc, next) \in CoordSet
  BY NoCoordType DEF Continue, CoordSet, NoCoord, Ids

-----------------------------------------------------------------------------
(* Type correctness.  TypeOK is not inductive: the case of a SLURM job, the *)
(* calls left to a wrapper and the row a coordinator works on keep their    *)
(* types only because of where the process is.                              *)

WrapGood(w, s) ==
  /\ w.pc # "off" => s.state = "RUNNING"
  /\ IF s.state = "FREE" THEN s.job = 0 ELSE s.job \in Jobs
  /\ w.pc \in {"succ", "sbatch", "mark"} => w.left >= 1
  /\ w.pc \in {"sbatch", "mark"} => s.job + K \in Jobs
  /\ w.pc = "finish" => w.verdict \in CaseVerdicts

CoordGood(r) ==
  /\ r.pc \in {"sbatch", "mark", "settle"} => r.job \in Jobs
  /\ r.pc \in {"query", "apply", "settle"} => \A j \in r.todo : r.seen[j] \in SlurmIds

Structure ==
  /\ \A i \in SlurmIds : WrapGood(wrap[i], slurm[i])
  /\ \A c \in Coords : CoordGood(coord[c])

TypeInv == TypeOK /\ Structure

LEMMA FaultType ==
  ASSUME budget \in 0..MaxFaults, NEW kind, Fault(kind)
  PROVE  budget' \in 0..MaxFaults
  BY SizesAssumption DEF Fault

LEMMA RefusedType ==
  ASSUME budget \in 0..MaxFaults, Refused
  PROVE  budget' \in 0..MaxFaults
  BY FaultType DEF Refused

LEMMA Bounds ==
  /\ 0 \in CallsLeft /\ 1 + Retries \in CallsLeft /\ 1 + Retries >= 1
  /\ NoId \in Ids /\ SlurmIds \subseteq Ids
  BY SizesAssumption DEF CallsLeft, Ids

(* One call of schedule_successor less, or none left. *)
LEMMA ReturnType ==
  ASSUME NEW i \in SlurmIds, wrap[i].left \in CallsLeft, wrap[i].left >= 1,
         NEW done \in BOOLEAN
  PROVE  /\ (IF done THEN 0 ELSE wrap[i].left - 1) \in CallsLeft
         /\ (IF done THEN 0 ELSE wrap[i].left - 1) # 0
              => (IF done THEN 0 ELSE wrap[i].left - 1) >= 1
  BY SizesAssumption DEF CallsLeft

LEMMA WrapperTypes ==
  ASSUME TypeInv, NEW i \in SlurmIds, Wrapper(i)
  PROVE  TypeInv'
  <1> DEFINE W == wrap' \in [SlurmIds -> WrapSet]
             S == slurm' \in [SlurmIds -> SlurmSet]
             R == row' \in [Jobs -> RowSet(SlurmIds)]
             U == run' \in {"pending", "running", "cancelled"} \union RunVerdicts
             B == budget' \in 0..MaxFaults
             G == \A m \in SlurmIds : WrapGood(wrap'[m], slurm'[m])
  <1>w. wrap \in [SlurmIds -> WrapSet] /\ wrap[i] \in WrapSet
    BY DEF TypeInv, TypeOK
  <1>s. slurm \in [SlurmIds -> SlurmSet]
    BY DEF TypeInv, TypeOK
  <1>g. /\ \A m \in SlurmIds : WrapGood(wrap[m], slurm[m])
        /\ wrap \in [SlurmIds -> WrapSet] /\ slurm \in [SlurmIds -> SlurmSet]
    BY DEF TypeInv, TypeOK, Structure
  <1>r. row \in [Jobs -> RowSet(SlurmIds)]
    BY DEF TypeInv, TypeOK
  <1>u. run \in {"pending", "running", "cancelled"} \union RunVerdicts
    BY DEF TypeInv, TypeOK
  <1>b. budget \in 0..MaxFaults
    BY DEF TypeInv, TypeOK
  <1> SUFFICES W /\ S /\ R /\ U /\ B /\ G
    <2>1. UNCHANGED coord
      BY DEF Wrapper, ReadRow, MissingTemplate, BadConfig, ClaimRun, ClaimSuccessor,
             SubmitSuccessor, MarkSuccessor, RunCase, Finish, Conclude, WriteVerdict
    <2>2. ASSUME W, S, R, U, B, G PROVE TypeOK'
      BY <2>1, <2>2 DEF TypeInv, TypeOK
    <2>3. ASSUME G PROVE Structure'
      BY <2>1, <2>3 DEF TypeInv, Structure
    <2> QED
      BY <2>2, <2>3 DEF TypeInv
  <1>1. CASE ReadRow(i)
    <2>1. W
      BY <1>1, <1>w, Bounds DEF ReadRow, Goto, Exit, WrapSet, WrapPcs
    <2>2. S
      BY <1>1, <1>s DEF ReadRow, Goto, Exit, SlurmSet, SlurmStates, SlurmEnded
    <2>3. G
      BY <1>1, <1>g DEF ReadRow, Goto, Exit, WrapGood, WrapSet, SlurmSet
    <2> QED
      BY <1>1, <2>1, <2>2, <2>3, <1>r, <1>b, <1>u DEF ReadRow
  <1>2. CASE MissingTemplate(i)
    <2>1. W
      BY <1>2, <1>w, Bounds DEF MissingTemplate, Exit, WrapSet, WrapPcs
    <2>2. S
      BY <1>2, <1>s DEF MissingTemplate, Exit, SlurmSet, SlurmStates, SlurmEnded
    <2>3. G
      BY <1>2, <1>g DEF MissingTemplate, Exit, WrapGood, WrapSet, SlurmSet
    <2>5. B
      BY <1>2, <1>b, FaultType DEF MissingTemplate
    <2> QED
      BY <1>2, <2>1, <2>2, <2>3, <1>r, <2>5, <1>u DEF MissingTemplate
  <1>3. CASE BadConfig(i)
    <2>0. Case(i) \in Jobs
      BY <1>3, <1>g DEF BadConfig, WrapGood, Case
    <2>1. W
      BY <1>3, <1>w, Bounds DEF BadConfig, CaseVerdicts, WrapSet, WrapPcs
    <2>2. S
      BY <1>3, <1>s DEF BadConfig, CaseVerdicts, SlurmSet, SlurmStates, SlurmEnded
    <2>3. G
      BY <1>3, <1>g, <2>0 DEF BadConfig, CaseVerdicts, WrapGood, WrapSet, SlurmSet
    <2>4. R
      BY <1>3, <1>r, <2>0, LedgerTypes DEF BadConfig, TERMINAL_STATUSES
    <2>5. B
      BY <1>3, <1>b, FaultType DEF BadConfig
    <2> QED
      BY <1>3, <2>1, <2>2, <2>3, <2>4, <2>5, <1>u DEF BadConfig
  <1>4. CASE ClaimRun(i)
    <2>0. Case(i) \in Jobs
      BY <1>4, <1>g DEF ClaimRun, WrapGood, Case
    <2>1. W
      BY <1>4, <1>w, Bounds DEF ClaimRun, Exit, WrapSet, WrapPcs
    <2>2. S
      BY <1>4, <1>s DEF ClaimRun, Exit, SlurmSet, SlurmStates, SlurmEnded
    <2>3. G
      BY <1>4, <1>g, <2>0, Bounds DEF ClaimRun, Exit, WrapGood, WrapSet, SlurmSet
    <2>4. R
      BY <1>4, <1>r, <2>0, LedgerTypes DEF ClaimRun 
    <2> QED
      BY <1>4, <2>1, <2>2, <2>3, <2>4, <1>b, <1>u DEF ClaimRun
  <1>5. CASE ClaimSuccessor(i)
    <2>0. /\ WithStatus(row, {"pending"}) \subseteq Jobs
          /\ wrap[i].left \in CallsLeft /\ wrap[i].left >= 1
      BY <1>5, <1>r, <1>g DEF ClaimSuccessor, WithStatus, WrapSet, WrapGood
    <2>1. W
      BY <1>5, <1>w, Bounds DEF ClaimSuccessor, Goto, Return, WrapSet, WrapPcs
    <2>2. S
      BY <1>5, <1>s DEF ClaimSuccessor
    <2>3. G
      BY <1>5, <1>g, <2>0 DEF ClaimSuccessor, Goto, Return, WrapGood, Successor, Case, WrapSet
    <2>4. R
      <3>1. CASE Successor(i) \in Jobs /\ row' = ClaimForSubmission(row, Successor(i))
        BY <3>1, <1>r, LedgerTypes
      <3>2. CASE row' = row
        BY <3>2, <1>r
      <3> QED
        BY <3>1, <3>2, <1>5, <2>0 DEF ClaimSuccessor
    <2> QED
      BY <1>5, <2>1, <2>2, <2>3, <2>4, <1>u, <1>b DEF ClaimSuccessor
  <1>6. CASE SubmitSuccessor(i)
    <2>0. /\ wrap[i].pc = "sbatch" /\ slurm[i].state = "RUNNING" /\ Successor(i) \in Jobs
          /\ wrap[i].left \in CallsLeft /\ wrap[i].left >= 1
      BY <1>6, <1>g DEF SubmitSuccessor, WrapSet, WrapGood, Successor, Case
    <2>1. ASSUME NEW id \in Fresh, Enqueue(id, Successor(i), i),
                 wrap' = [wrap EXCEPT ![i].pc = "mark", ![i].child = id],
                 UNCHANGED <<row, run, budget>>
          PROVE  W /\ S /\ R /\ U /\ B /\ G
      <3>0. id \in SlurmIds /\ slurm[id].state = "FREE" /\ id # i
        BY <2>0 DEF Fresh
      <3>1. W
        BY <2>1, <3>0, <1>w, Bounds DEF WrapSet, WrapPcs
      <3>2. S
        BY <2>1, <2>0, <3>0, <1>s, Bounds DEF Enqueue, SlurmSet, SlurmStates, SlurmLive
      <3>3. G
        BY <2>1, <2>0, <3>0, <1>g DEF Enqueue, WrapGood, Successor, Case
      <3> QED
        BY <2>1, <3>1, <3>2, <3>3, <1>r, <1>u, <1>b
    <2>2. ASSUME Refused, row' = ReleaseSubmission(row, Successor(i)), Return(i, FALSE),
                 UNCHANGED <<slurm, run>>
          PROVE  W /\ S /\ R /\ U /\ B /\ G
      <3>1. W
        BY <2>2, <2>0, <1>w, Bounds, ReturnType DEF Return, WrapSet, WrapPcs
      <3>3. G
        BY <2>2, <2>0, <1>g, ReturnType DEF Return, WrapGood, WrapSet
      <3>4. R /\ B
        BY <2>2, <2>0, <1>r, <1>b, LedgerTypes, RefusedType
      <3> QED
        BY <2>2, <3>1, <3>3, <3>4, <1>s, <1>u
    <2> QED
      BY <1>6, <2>1, <2>2 DEF SubmitSuccessor
  <1>7. CASE MarkSuccessor(i)
    <2>0. Successor(i) \in Jobs /\ wrap[i].child \in Ids
      BY <1>7, <1>g DEF MarkSuccessor, WrapSet, WrapGood, Successor, Case
    <2>1. W
      BY <1>7, <1>w, Bounds DEF MarkSuccessor, Return, WrapSet, WrapPcs
    <2>3. G
      BY <1>7, <1>g DEF MarkSuccessor, Return, WrapGood, WrapSet
    <2>4. R
      BY <1>7, <1>r, <2>0, LedgerTypes DEF MarkSuccessor, Ids
    <2> QED
      BY <1>7, <2>1, <2>3, <2>4, <1>s, <1>u, <1>b DEF MarkSuccessor
  <1>8. CASE RunCase(i)
    <2>0. wrap[i].left \in CallsLeft
      BY <1>w DEF WrapSet
    <2>1. PICK v \in CaseVerdicts, left \in CallsLeft :
            /\ v # "error" => left = wrap[i].left
            /\ v = "error" => left = 0
            /\ wrap' = [wrap EXCEPT ![i].verdict = v, ![i].left = left,
                                    ![i].pc = IF left = 0 THEN "finish" ELSE "succ"]
      BY <1>8, <2>0, Bounds, KindsAssumption DEF RunCase
    <2>2. W
      BY <2>1, <1>w DEF WrapSet, WrapPcs
    <2>3. G
      <3>1. left # 0 => left >= 1
        BY SizesAssumption DEF CallsLeft
      <3> QED
        BY <1>8, <2>1, <3>1, <1>g DEF RunCase, WrapGood, WrapSet, SlurmSet
    <2> QED
      BY <1>8, <2>2, <2>3, <1>s, <1>r, <1>u, <1>b DEF RunCase
  <1>9. CASE Finish(i)
    <2>0. Case(i) \in Jobs /\ wrap[i].verdict \in TERMINAL_STATUSES
      BY <1>9, <1>g DEF Finish, WrapGood, Case, CaseVerdicts, TERMINAL_STATUSES
    <2>1. W
      BY <1>9, <1>w DEF Finish, Goto, WrapSet, WrapPcs
    <2>3. G
      BY <1>9, <1>g DEF Finish, Goto, WrapGood
    <2>4. R
      BY <1>9, <1>r, <2>0, LedgerTypes DEF Finish
    <2> QED
      BY <1>9, <2>1, <2>3, <2>4, <1>s, <1>u, <1>b DEF Finish
  <1>10. CASE Conclude(i)
    <2>1. W
      BY <1>10, <1>w, Bounds DEF Conclude, Goto, Exit, ExitState, Verdict, RunVerdicts, WrapSet, WrapPcs
    <2>2. S
      BY <1>10, <1>s DEF Conclude, Goto, Exit, ExitState, Verdict, RunVerdicts, SlurmSet, SlurmStates, SlurmEnded
    <2>3. G
      BY <1>10, <1>g DEF Conclude, Goto, Exit, ExitState, Verdict, RunVerdicts, WrapGood, WrapSet, SlurmSet
    <2> QED
      BY <1>10, <2>1, <2>2, <2>3, <1>r, <1>b, <1>u DEF Conclude
  <1>11. CASE WriteVerdict(i)
    <2>1. W
      BY <1>11, <1>w, Bounds DEF WriteVerdict, Exit, WrapSet, WrapPcs
    <2>2. S
      BY <1>11, <1>s DEF WriteVerdict, Exit, ExitState, SlurmSet, SlurmStates, SlurmEnded
    <2>3. G
      BY <1>11, <1>g DEF WriteVerdict, Exit, ExitState, WrapGood, RunVerdicts
    <2> QED
      BY <1>11, <2>1, <2>2, <2>3, <1>r, <1>b DEF WriteVerdict
  <1> QED
    BY <1>1, <1>2, <1>3, <1>4, <1>5, <1>6, <1>7, <1>8, <1>9, <1>10, <1>11 DEF Wrapper

LEMMA CoordFields ==
  ASSUME NEW r \in CoordSet
  PROVE  /\ r.todo \in SUBSET Jobs /\ r.job \in Jobs \union {0} /\ r.dep \in Ids
         /\ r.child \in Ids /\ r.slots \in Slots /\ r.seen \in [Jobs -> Ids]
         /\ r.info \in [Jobs -> Infos] /\ r.missing \in [SlurmIds -> Polls]
  BY DEF CoordSet

(* Places of a coordinator that do not rely on what it has read. *)
Quiet == CoordPcs \ {"sbatch", "mark", "settle", "query", "apply"}

CoordTyped == coord \in [Coords -> CoordSet] /\ \A c \in Coords : CoordGood(coord[c])

LEMMA AfterPcs ==
  ASSUME NEW op
  PROVE  /\ AfterRecover(op) \in Quiet /\ AfterRepair(op) \in Quiet
         /\ AfterReconcile(op) \in Quiet /\ Quiet \subseteq CoordPcs
  BY DEF AfterRecover, AfterRepair, AfterReconcile, Quiet, CoordPcs

LEMMA SetTyped ==
  ASSUME CoordTyped, NEW c \in Coords, NEW r \in CoordSet, CoordGood(r), Set(c, r)
  PROVE  CoordTyped'
  BY DEF CoordTyped, Set

LEMMA NoCoordGood == NoCoord \in CoordSet /\ CoordGood(NoCoord)
  BY NoCoordType DEF NoCoord, CoordGood

LEMMA MoveTyped ==
  ASSUME CoordTyped, NEW c \in Coords, NEW pc \in Quiet, Move(c, pc)
  PROVE  CoordTyped'
  <1>1. coord[c] \in CoordSet
    BY DEF CoordTyped
  <1>2. [coord[c] EXCEPT !.pc = pc] \in CoordSet
    BY <1>1, AfterPcs DEF CoordSet
  <1>3. CoordGood([coord[c] EXCEPT !.pc = pc])
    BY <1>1 DEF CoordGood, Quiet, CoordSet
  <1> QED
    BY <1>2, <1>3, SetTyped DEF Move

LEMMA QuitTyped ==
  ASSUME CoordTyped, NEW c \in Coords, Quit(c)
  PROVE  CoordTyped'
  BY NoCoordGood, SetTyped DEF Quit

LEMMA ContinueGood ==
  ASSUME NEW c \in Coords, coord[c] \in CoordSet, NEW todo \in SUBSET Jobs,
         NEW pc \in CoordPcs, pc \notin {"sbatch", "mark", "settle"}, NEW next \in Quiet,
         pc \in {"query", "apply"} => \A j \in todo : coord[c].seen[j] \in SlurmIds
  PROVE  CoordGood(Continue(c, todo, pc, next))
  <1>1. CASE todo # {}
    BY <1>1 DEF CoordGood, Continue, CoordSet
  <1>2. CASE todo = {} /\ next = "idle"
    BY <1>2, NoCoordGood DEF Continue
  <1>3. CASE todo = {} /\ next # "idle"
    BY <1>3 DEF Continue, CoordGood, NoCoord, Quiet
  <1> QED
    BY <1>1, <1>2, <1>3

LEMMA ContinueTyped ==
  ASSUME CoordTyped, NEW c \in Coords, NEW todo \in SUBSET Jobs,
         NEW pc \in CoordPcs, pc \notin {"sbatch", "mark", "settle"}, NEW next \in Quiet,
         pc \in {"query", "apply"} => \A j \in todo : coord[c].seen[j] \in SlurmIds,
         Set(c, Continue(c, todo, pc, next))
  PROVE  CoordTyped'
  <1>1. coord[c] \in CoordSet
    BY DEF CoordTyped
  <1>2. Continue(c, todo, pc, next) \in CoordSet
    BY <1>1, AfterPcs, ContinueType
  <1>3. CoordGood(Continue(c, todo, pc, next))
    BY <1>1, ContinueGood
  <1> QED
    BY <1>2, <1>3, SetTyped

(* A step of a coordinator that leaves SLURM and the wrappers alone. *)
LEMMA LedgerStep ==
  ASSUME TypeInv, CoordTyped', UNCHANGED <<slurm, wrap>>,
         row' \in [Jobs -> RowSet(SlurmIds)],
         run' \in {"pending", "running", "cancelled"} \union RunVerdicts,
         budget' \in 0..MaxFaults
  PROVE  TypeInv'
  <1>1. TypeOK'
    BY DEF TypeInv, TypeOK, CoordTyped
  <1>2. Structure'
    BY DEF TypeInv, Structure, CoordTyped
  <1> QED
    BY <1>1, <1>2 DEF TypeInv

LEMMA ActiveType ==
  ASSUME row \in [Jobs -> RowSet(SlurmIds)]
  PROVE  Cardinality(WithStatus(row, ACTIVE_STATUSES)) \in Nat
  <1>1. WithStatus(row, ACTIVE_STATUSES) \subseteq 1..N
    BY DEF WithStatus, Jobs
  <1>2. IsFiniteSet(1..N)
    BY FS_Interval, SizesAssumption
  <1> QED
    BY <1>1, <1>2, FS_Subset, FS_CardinalityType

LEMMA ClassifyType ==
  ASSUME NEW state
  PROVE  ClassifyState(state) \in TERMINAL_STATUSES
  BY DEF ClassifyState, TERMINAL_STATUSES

LEMMA CoordinatorTypes ==
  ASSUME TypeInv, NEW c \in Coords,
         Coordinator(c) \/ Crash(c) \/ StartWatch(c) \/ StartResume(c) \/ StartCancel(c)
  PROVE  TypeInv'
  <1> DEFINE R == row' \in [Jobs -> RowSet(SlurmIds)]
             U == run' \in {"pending", "running", "cancelled"} \union RunVerdicts
             B == budget' \in 0..MaxFaults
             t == coord[c].todo
  <1>t. CoordTyped /\ coord[c] \in CoordSet /\ CoordGood(coord[c])
    BY DEF TypeInv, TypeOK, Structure, CoordTyped
  <1>f. /\ t \in SUBSET Jobs /\ coord[c].child \in Ids /\ coord[c].slots \in Slots
        /\ First(t) \subseteq Jobs
    BY <1>t, CoordFields DEF First
  <1>r. row \in [Jobs -> RowSet(SlurmIds)]
    BY DEF TypeInv, TypeOK
  <1>u. run \in {"pending", "running", "cancelled"} \union RunVerdicts
    BY DEF TypeInv, TypeOK
  <1>b. budget \in 0..MaxFaults
    BY DEF TypeInv, TypeOK
  <1>p. \A from : WithStatus(row, from) \in SUBSET Jobs
    BY <1>r DEF WithStatus
  <1>1. CASE StartWatch(c)
    <2>0. /\ [NoCoord EXCEPT !.op = "watch", !.pc = "begin"] \in CoordSet
          /\ CoordGood([NoCoord EXCEPT !.op = "watch", !.pc = "begin"])
      BY NoCoordType DEF CoordSet, CoordPcs, NoCoord, CoordGood
    <2>1. CoordTyped'
      BY <1>1, <1>t, <2>0, SetTyped DEF StartWatch
    <2> QED
      BY LedgerStep, <1>1, <2>1, <1>r, <1>u, <1>b DEF StartWatch
  <1>2. CASE StartResume(c)
    <2>0. /\ [NoCoord EXCEPT !.op = "resume", !.pc = "begin"] \in CoordSet
          /\ CoordGood([NoCoord EXCEPT !.op = "resume", !.pc = "begin"])
      BY NoCoordType DEF CoordSet, CoordPcs, NoCoord, CoordGood
    <2>1. CoordTyped'
      BY <1>2, <1>t, <2>0, SetTyped DEF StartResume
    <2>2. B
      BY <1>2, <1>b, FaultType DEF StartResume
    <2> QED
      BY LedgerStep, <1>2, <2>1, <2>2, <1>r, <1>u DEF StartResume
  <1>3. CASE StartCancel(c)
    <2>0. /\ [NoCoord EXCEPT !.op = "cancel", !.pc = "cancel_pending"] \in CoordSet
          /\ CoordGood([NoCoord EXCEPT !.op = "cancel", !.pc = "cancel_pending"])
      BY NoCoordType DEF CoordSet, CoordPcs, NoCoord, CoordGood
    <2>1. CoordTyped'
      BY <1>3, <1>t, <2>0, SetTyped DEF StartCancel
    <2>2. B
      BY <1>3, <1>b, FaultType DEF StartCancel
    <2> QED
      BY LedgerStep, <1>3, <2>1, <2>2, <1>r, <1>u DEF StartCancel
  <1>4. CASE Crash(c)
    <2>1. CoordTyped'
      BY <1>4, <1>t, QuitTyped DEF Crash
    <2>2. B
      BY <1>4, <1>b, FaultType DEF Crash
    <2> QED
      BY LedgerStep, <1>4, <2>1, <2>2, <1>r, <1>u DEF Crash
  <1>5. CASE Begin(c)
    <2>0. PICK pc \in {"seed", "top", "recover"} : Move(c, pc)
      BY <1>5 DEF Begin
    <2>1. CoordTyped'
      BY <1>t, <2>0, MoveTyped DEF Quiet, CoordPcs
    <2> QED
      BY LedgerStep, <1>5, <2>1, <1>r, <1>b DEF Begin
  <1>6. CASE Top(c)
    <2>1. CoordTyped'
      BY <1>6, <1>t, MoveTyped, QuitTyped DEF Top, Quiet, CoordPcs
    <2> QED
      BY LedgerStep, <1>6, <2>1, <1>r, <1>u, <1>b DEF Top
  <1>7. CASE Recover(c)
    <2>0. PICK old \in SUBSET Jobs :
            Set(c, Continue(c, old, "reset", AfterRecover(coord[c].op)))
      <3> DEFINE old == {j \in WithStatus(row, {"scheduling"}) :
                           /\ row[j].slurm_job_id = NoId
                           /\ coord[c].op = "resume" \/ row[j].stale}
      <3>1. old \in SUBSET Jobs
        BY <1>p
      <3> QED
        BY <1>7, <3>1 DEF Recover
    <2>1. CoordTyped'
      BY <1>t, <2>0, ContinueTyped, AfterPcs DEF CoordPcs
    <2> QED
      BY LedgerStep, <1>7, <2>1, <1>r, <1>u, <1>b DEF Recover
  <1>8. CASE Reset(c)
    <2>0. PICK j \in First(t) :
            /\ row' = ResetToPending(row, j)
            /\ Set(c, Continue(c, t \ {j}, "reset", AfterRecover(coord[c].op)))
      BY <1>8 DEF Reset
    <2>1. CoordTyped'
      BY <1>t, <1>f, <2>0, ContinueTyped, AfterPcs DEF CoordPcs
    <2>2. R
      BY <1>f, <1>r, <2>0, LedgerTypes
    <2> QED
      BY LedgerStep, <1>8, <2>1, <2>2, <1>u, <1>b DEF Reset
  <1>9. CASE Seed(c)
    <2>0. PICK seeds \in SUBSET Jobs, slots \in Slots :
            Set(c, [Continue(c, seeds, "pick", "idle") EXCEPT !.slots = slots])
      <3>1. 0 \in Slots /\ K \in Slots
        BY SizesAssumption DEF Slots
      <3> QED
        <4> DEFINE seeds == {j \in WithStatus(row, {"pending"}) : j <= K}
        <4>1. seeds \in SUBSET Jobs
          BY <1>p
        <4> QED
          BY <1>9, <4>1, <3>1 DEF Seed, Set
    <2> DEFINE state == Continue(c, seeds, "pick", "idle")
    <2>2. state \in CoordSet /\ CoordGood(state)
      BY <1>t, ContinueType, ContinueGood DEF CoordPcs, Quiet
    <2>3. [state EXCEPT !.slots = slots] \in CoordSet /\ CoordGood([state EXCEPT !.slots = slots])
      BY <2>2 DEF CoordSet, CoordGood
    <2>1. CoordTyped'
      BY <1>t, <2>0, <2>3, SetTyped
    <2> QED
      BY LedgerStep, <1>9, <2>1, <1>r, <1>u, <1>b DEF Seed
  <1>10. CASE Repair(c)
    <2> DEFINE active == Cardinality(WithStatus(row, ACTIVE_STATUSES))
    <2>2. ASSUME active >= K PROVE CoordTyped'
      <3>1. Set(c, Continue(c, {}, "list", AfterRepair(coord[c].op)))
        BY <1>10, <2>2 DEF Repair
      <3> QED
        BY <1>t, <3>1, ContinueTyped, AfterPcs DEF CoordPcs
    <2>3. ASSUME ~(active >= K) PROVE CoordTyped'
      <3>1. K - active \in Slots
        BY <2>3, <1>r, ActiveType, SizesAssumption DEF Slots
      <3> DEFINE state == [coord[c] EXCEPT !.pc = "list", !.slots = K - active]
      <3>2. state \in CoordSet /\ CoordGood(state)
        BY <1>t, <3>1 DEF CoordSet, CoordPcs, CoordGood
      <3>3. Set(c, state)
        BY <1>10, <2>3 DEF Repair
      <3> QED
        BY <1>t, <3>2, <3>3, SetTyped
    <2>1. CoordTyped'
      BY <2>2, <2>3
    <2> QED
      BY LedgerStep, <1>10, <2>1, <1>r, <1>u, <1>b DEF Repair
  <1>11. CASE List(c)
    <2>1. CoordTyped'
      <3>1. WithStatus(row, {"pending"}) \in SUBSET Jobs
        BY <1>p
      <3>2. Set(c, Continue(c, WithStatus(row, {"pending"}), "pick", AfterRepair(coord[c].op)))
        BY <1>11 DEF List
      <3> QED
        BY <1>t, <3>1, <3>2, ContinueTyped, AfterPcs DEF CoordPcs
    <2> QED
      BY LedgerStep, <1>11, <2>1, <1>r, <1>u, <1>b DEF List
  <1>12. CASE Pick(c)
    <2>0. PICK j \in First(t) :
            \/ /\ row' = ClaimForSubmission(row, j)
               /\ \E dep \in Ids :
                    Set(c, [coord[c] EXCEPT !.pc = "sbatch", !.job = j, !.dep = dep])
            \/ /\ row' = row
               /\ Set(c, Continue(c, t \ {j}, "pick", AfterRepair(coord[c].op)))
      <3>1. \A j \in Jobs : j > K => row[j - K].slurm_job_id \in Ids
        BY <1>r, SizesAssumption DEF RowSet, Jobs, Ids
      <3>2. NoId \in Ids
        BY DEF Ids
      <3> QED
        BY <1>12, <3>1, <3>2, <1>f DEF Pick
    <2>4. ASSUME NEW dep \in Ids,
                 Set(c, [coord[c] EXCEPT !.pc = "sbatch", !.job = j, !.dep = dep])
          PROVE  CoordTyped'
      <3> DEFINE state == [coord[c] EXCEPT !.pc = "sbatch", !.job = j, !.dep = dep]
      <3>1. state \in CoordSet
        BY <1>t, <1>f DEF CoordSet, CoordPcs
      <3>2. CoordGood(state)
        BY <1>t, <1>f DEF CoordSet, CoordGood
      <3> QED
        BY <1>t, <2>4, <3>1, <3>2, SetTyped
    <2>5. ASSUME Set(c, Continue(c, t \ {j}, "pick", AfterRepair(coord[c].op)))
          PROVE  CoordTyped'
      BY <1>t, <1>f, <2>5, ContinueTyped, AfterPcs DEF CoordPcs
    <2>1. CoordTyped'
      BY <2>0, <2>4, <2>5
    <2>2. R
      <3>0. j \in Jobs
        BY <1>f
      <3>1. ClaimForSubmission(row, j) \in [Jobs -> RowSet(SlurmIds)]
        BY <3>0, <1>r, LedgerTypes
      <3> QED
        BY <2>0, <3>1, <1>r
    <2> QED
      BY LedgerStep, <1>12, <2>1, <2>2, <1>u, <1>b DEF Pick
  <1>13. CASE Sbatch(c)
    <2>0. coord[c].job \in Jobs /\ coord[c].dep \in Ids
      BY <1>13, <1>t, CoordFields DEF Sbatch, At, CoordGood
    <2>1. ASSUME NEW id \in Fresh, Enqueue(id, coord[c].job, coord[c].dep),
                 Set(c, [coord[c] EXCEPT !.pc = "mark", !.child = id]),
                 UNCHANGED <<row, run, wrap, budget>>
          PROVE  TypeInv'
      <3> DEFINE state == [coord[c] EXCEPT !.pc = "mark", !.child = id]
      <3>0. id \in SlurmIds /\ slurm[id].state = "FREE"
        BY DEF Fresh
      <3>1. state \in CoordSet /\ CoordGood(state)
        BY <1>t, <2>0, <3>0 DEF CoordSet, CoordPcs, CoordGood, Ids
      <3>2. CoordTyped'
        BY <1>t, <2>1, <3>1, SetTyped
      <3>3. slurm' \in [SlurmIds -> SlurmSet]
        BY <2>1, <2>0 DEF Enqueue, SlurmSet, SlurmStates, SlurmLive, TypeInv, TypeOK
      <3>4. \A m \in SlurmIds : WrapGood(wrap'[m], slurm'[m])
        BY <2>1, <2>0, <3>0 DEF Enqueue, WrapGood, TypeInv, TypeOK, Structure
      <3>5. TypeOK'
        BY <2>1, <3>2, <3>3 DEF CoordTyped, TypeInv, TypeOK
      <3>6. Structure'
        BY <3>2, <3>4 DEF Structure, CoordTyped
      <3> QED
        BY <3>5, <3>6 DEF TypeInv
    <2>2. ASSUME Refused, row' = ReleaseSubmission(row, coord[c].job),
                 Set(c, Continue(c, t \ {coord[c].job}, "pick", AfterRepair(coord[c].op))),
                 UNCHANGED <<run, slurm, wrap>>
          PROVE  TypeInv'
      <3>1. CoordTyped'
        BY <1>t, <1>f, <2>2, ContinueTyped, AfterPcs DEF CoordPcs
      <3>2. R /\ B
        BY <2>2, <2>0, <1>r, <1>b, LedgerTypes, RefusedType
      <3> QED
        BY LedgerStep, <2>2, <3>1, <3>2, <1>u
    <2> QED
      BY <1>13, <2>1, <2>2 DEF Sbatch
  <1>14. CASE Mark(c)
    <2>0. coord[c].job \in Jobs
      BY <1>14, <1>t DEF Mark, At, CoordGood
    <2> DEFINE slots == coord[c].slots - 1
               rest == IF slots <= 0 THEN {} ELSE t \ {coord[c].job}
               state == Continue(c, rest, "pick", AfterRepair(coord[c].op))
               next == IF rest = {} THEN state ELSE [state EXCEPT !.slots = slots]
    <2>3. rest \in SUBSET Jobs /\ (rest # {} => slots \in Slots)
      BY <1>f, SizesAssumption DEF Slots
    <2>4. state \in CoordSet /\ CoordGood(state)
      <3> HIDE DEF rest
      <3> QED
        BY <1>t, <2>3, ContinueType, ContinueGood, AfterPcs DEF CoordPcs
    <2>5. next \in CoordSet /\ CoordGood(next)
      <3> HIDE DEF rest, state, slots
      <3> QED
        BY <2>3, <2>4 DEF CoordSet, CoordGood
    <2>6. Set(c, next)
      BY <1>14 DEF Mark
    <2>1. CoordTyped'
      <3> HIDE DEF next
      <3> QED
        BY <1>t, <2>5, <2>6, SetTyped
    <2>2. R
      BY <1>14, <2>0, <1>f, <1>r, LedgerTypes DEF Mark, Ids
    <2> QED
      BY LedgerStep, <1>14, <2>1, <2>2, <1>u, <1>b DEF Mark
  <1>15. CASE Snapshot(c)
    <2> DEFINE old == StaleActive(row)
               state == Continue(c, old, "query", AfterReconcile(coord[c].op))
               seen == [j \in Jobs |-> IF j \in old THEN row[j].slurm_job_id ELSE NoId]
               next == [state EXCEPT !.seen = seen]
    <2>3. old \in SUBSET Jobs /\ seen \in [Jobs -> Ids]
          /\ \A j \in old : seen[j] \in SlurmIds
      BY <1>r DEF StaleActive, WithStatus, RowSet, Ids
    <2>4. state \in CoordSet
      <3> HIDE DEF old
      <3> QED
        BY <1>t, <2>3, ContinueType, AfterPcs DEF CoordPcs
    <2>5. state.pc \in Quiet \/ (state.pc = "query" /\ state.todo = old)
      <3> HIDE DEF old
      <3>1. AfterReconcile(coord[c].op) \in Quiet
        BY AfterPcs
      <3> QED
        BY <1>t, <3>1 DEF Continue, CoordSet, NoCoord, Quiet, CoordPcs
    <2>6. next \in CoordSet /\ CoordGood(next)
      <3> HIDE DEF old, state, seen
      <3> QED
        BY <2>3, <2>4, <2>5 DEF CoordSet, CoordGood, Quiet
    <2>7. Set(c, next)
      BY <1>15 DEF Snapshot
    <2>1. CoordTyped'
      <3> HIDE DEF next
      <3> QED
        BY <1>t, <2>6, <2>7, SetTyped
    <2> QED
      BY LedgerStep, <1>15, <2>1, <1>r, <1>u, <1>b DEF Snapshot
  <1>16. CASE Query(c)
    <2>0. PICK squeue \in BOOLEAN, sacct \in BOOLEAN :
       LET todo == coord[c].todo
           seen == coord[c].seen
           listed == {j \in todo : squeue /\ slurm[seen[j]].state \in SlurmLive}
           answer == [j \in Jobs |-> IF sacct /\ j \in todo \ listed
                                     THEN slurm[seen[j]].state ELSE "absent"]
           popped == [i \in SlurmIds |-> IF \E j \in listed : seen[j] = i
                                         THEN 0 ELSE coord[c].missing[i]]
           state == [Continue(c, todo \ listed, "apply", AfterReconcile(coord[c].op))
                       EXCEPT !.missing = popped]
       IN  /\ IF squeue /\ sacct THEN UNCHANGED budget ELSE Fault("outage")
           /\ Set(c, IF todo = listed THEN state ELSE [state EXCEPT !.info = answer])
      BY <1>16 DEF Query
    <2> DEFINE seen == coord[c].seen
               listed == {j \in t : squeue /\ slurm[seen[j]].state \in SlurmLive}
               rest == t \ listed
               answer == [j \in Jobs |-> IF sacct /\ j \in rest
                                         THEN slurm[seen[j]].state ELSE "absent"]
               popped == [i \in SlurmIds |-> IF \E j \in listed : seen[j] = i
                                             THEN 0 ELSE coord[c].missing[i]]
               state == Continue(c, rest, "apply", AfterReconcile(coord[c].op))
               next == IF t = listed THEN [state EXCEPT !.missing = popped]
                       ELSE [[state EXCEPT !.missing = popped] EXCEPT !.info = answer]
    <2>3. rest \in SUBSET Jobs /\ \A j \in t : seen[j] \in SlurmIds
      BY <1>16, <1>f, <1>t DEF Query, At, CoordGood
    <2>4. answer \in [Jobs -> Infos]
      BY <2>3 DEF TypeInv, TypeOK, SlurmSet, Infos
    <2>5. popped \in [SlurmIds -> Polls]
      <3>1. 0 \in Polls /\ coord[c].missing \in [SlurmIds -> Polls]
        BY <1>t, CoordFields, SizesAssumption DEF Polls
      <3> QED
        BY <3>1
    <2>6. state \in CoordSet /\ CoordGood(state)
      <3> HIDE DEF rest
      <3>1. \A j \in rest : seen[j] \in SlurmIds
        BY <2>3 DEF rest
      <3> QED
        BY <1>t, <2>3, <3>1, ContinueType, ContinueGood, AfterPcs DEF CoordPcs
    <2>7. next \in CoordSet /\ CoordGood(next)
      <3> HIDE DEF listed, rest, answer, popped, state
      <3> QED
        BY <2>4, <2>5, <2>6 DEF CoordSet, CoordGood
    <2>8. Set(c, next)
      BY <2>0
    <2>1. CoordTyped'
      <3> HIDE DEF next
      <3> QED
        BY <1>t, <2>7, <2>8, SetTyped
    <2>2. B
      BY <2>0, <1>b, FaultType
    <2> QED
      BY LedgerStep, <1>16, <2>1, <2>2, <1>r, <1>u DEF Query
  <1>17. CASE Apply(c)
    <2>0. PICK j \in First(t) :
         LET id == coord[c].seen[j]
             polls == coord[c].missing[id] + 1
             lost == polls >= (IF coord[c].op = "resume" THEN 1 ELSE LostAfter)
             absent == coord[c].info[j] = "absent"
             next == [Continue(c, coord[c].todo \ {j}, "apply", AfterReconcile(coord[c].op))
                        EXCEPT !.missing[id] = IF absent /\ ~lost THEN polls ELSE 0]
         IN  /\ row' = IF ~absent THEN SetSlurmId(row, j, id)
                       ELSE IF lost THEN MarkTerminal(row, j, "lost")
                       ELSE row
             /\ Set(c, IF coord[c].info[j] \in SlurmEnded
                       THEN [coord[c] EXCEPT !.pc = "settle", !.job = j, !.missing[id] = 0]
                       ELSE next)
      BY <1>17 DEF Apply
    <2> DEFINE id == coord[c].seen[j]
               polls == coord[c].missing[id] + 1
               lost == polls >= (IF coord[c].op = "resume" THEN 1 ELSE LostAfter)
               absent == coord[c].info[j] = "absent"
               count == IF absent /\ ~lost THEN polls ELSE 0
               state == Continue(c, t \ {j}, "apply", AfterReconcile(coord[c].op))
               next == [state EXCEPT !.missing[id] = count]
               ended == [coord[c] EXCEPT !.pc = "settle", !.job = j, !.missing[id] = 0]
    <2>3. j \in Jobs /\ j \in t /\ id \in SlurmIds /\ \A m \in t : coord[c].seen[m] \in SlurmIds
      BY <1>17, <1>f, <1>t DEF Apply, At, CoordGood, First
    <2>4. count \in Polls /\ 0 \in Polls
      <3>1. coord[c].missing[id] \in Polls
        BY <2>3, <1>t, CoordFields
      <3> QED
        BY <3>1, SizesAssumption DEF Polls
    <2>5. state \in CoordSet /\ CoordGood(state)
      <3>1. t \ {j} \in SUBSET Jobs /\ \A m \in t \ {j} : coord[c].seen[m] \in SlurmIds
        BY <2>3, <1>f
      <3> QED
        BY <1>t, <3>1, ContinueType, ContinueGood, AfterPcs DEF CoordPcs
    <2>6. next \in CoordSet /\ CoordGood(next)
      <3> HIDE DEF state, count, id
      <3> QED
        BY <2>3, <2>4, <2>5 DEF CoordSet, CoordGood
    <2>7. ended \in CoordSet /\ CoordGood(ended)
      <3> HIDE DEF id
      <3> QED
        BY <2>3, <2>4, <1>t DEF CoordSet, CoordPcs, CoordGood
    <2>8. Set(c, IF coord[c].info[j] \in SlurmEnded THEN ended ELSE next)
      BY <2>0
    <2>1. CoordTyped'
      <3> HIDE DEF next, ended
      <3> QED
        BY <1>t, <2>6, <2>7, <2>8, SetTyped
    <2>2. R
      <3>1. SetSlurmId(row, j, id) \in [Jobs -> RowSet(SlurmIds)]
        BY <2>3, <1>r, LedgerTypes
      <3>2. MarkTerminal(row, j, "lost") \in [Jobs -> RowSet(SlurmIds)]
        BY <2>3, <1>r, LedgerTypes DEF TERMINAL_STATUSES
      <3>3. row' \in {SetSlurmId(row, j, id), MarkTerminal(row, j, "lost"), row}
        BY <2>0
      <3> QED
        BY <3>1, <3>2, <3>3, <1>r
    <2> QED
      BY LedgerStep, <1>17, <2>1, <2>2, <1>u, <1>b DEF Apply
  <1>18. CASE Settle(c)
    <2> DEFINE j == coord[c].job
    <2>0. j \in Jobs /\ \A m \in t \ {j} : coord[c].seen[m] \in SlurmIds
      BY <1>18, <1>t DEF Settle, At, CoordGood
    <2>3. Set(c, Continue(c, t \ {j}, "apply", AfterReconcile(coord[c].op)))
      BY <1>18 DEF Settle
    <2>4. t \ {j} \in SUBSET Jobs
      BY <1>f
    <2>1. CoordTyped'
      BY <1>t, <2>0, <2>3, <2>4, ContinueTyped, AfterPcs DEF CoordPcs
    <2>2. R
      BY <1>18, <2>0, <1>r, LedgerTypes, ClassifyType DEF Settle
    <2> QED
      BY LedgerStep, <1>18, <2>1, <2>2, <1>u, <1>b DEF Settle
  <1>19. CASE Finalize(c)
    <2>1. CoordTyped'
      BY <1>19, <1>t, MoveTyped, QuitTyped DEF Finalize, Verdict, Quiet, CoordPcs, RunVerdicts
    <2> QED
      BY LedgerStep, <1>19, <2>1, <1>r, <1>u, <1>b DEF Finalize
  <1>20. CASE RecordVerdict(c)
    <2>1. CoordTyped'
      BY <1>20, <1>t, MoveTyped, QuitTyped DEF RecordVerdict, Quiet, CoordPcs
    <2> QED
      BY LedgerStep, <1>20, <2>1, <1>r, <1>b DEF RecordVerdict
  <1>21. CASE Check(c)
    <2>1. CoordTyped'
      BY <1>21, <1>t, MoveTyped, QuitTyped DEF Check, Quiet, CoordPcs
    <2> QED
      BY LedgerStep, <1>21, <2>1, <1>r, <1>u, <1>b DEF Check
  <1>22. CASE CancelRows(c)
    <2>1. CoordTyped'
      BY <1>22, <1>t, MoveTyped DEF CancelRows, Quiet, CoordPcs
    <2>2. R
      BY <1>22, <1>r DEF CancelRows, CancelPending, RowSet, Statuses, TERMINAL_STATUSES
    <2> QED
      BY LedgerStep, <1>22, <2>1, <2>2, <1>u, <1>b DEF CancelRows
  <1>23. CASE CancelScan(c)
    <2> DEFINE active == WithStatus(row, ACTIVE_STATUSES)
               ids == [j \in Jobs |-> IF j \in active THEN row[j].slurm_job_id ELSE NoId]
               state == [coord[c] EXCEPT !.pc = "scancel", !.todo = active, !.seen = ids]
    <2>3. active \in SUBSET Jobs /\ ids \in [Jobs -> Ids]
      BY <1>p, <1>r DEF RowSet, Ids
    <2>4. state \in CoordSet /\ CoordGood(state)
      <3> HIDE DEF active, ids
      <3> QED
        BY <2>3, <1>t DEF CoordSet, CoordPcs, CoordGood
    <2>5. Set(c, state)
      BY <1>23 DEF CancelScan
    <2>1. CoordTyped'
      <3> HIDE DEF state
      <3> QED
        BY <1>t, <2>4, <2>5, SetTyped
    <2> QED
      BY LedgerStep, <1>23, <2>1, <1>r, <1>u, <1>b DEF CancelScan
  <1>24. CASE Scancel(c)
    <2>1. CoordTyped'
      <3>1. Set(c, Continue(c, t, "cancel_mark", "cancel_end"))
        BY <1>24 DEF Scancel
      <3>2. "cancel_end" \in Quiet /\ "cancel_mark" \in CoordPcs
        BY DEF Quiet, CoordPcs
      <3> QED
        BY <1>t, <1>f, <3>1, <3>2, ContinueTyped
    <2>2. PICK hit \in SUBSET SlurmIds :
            /\ slurm' = [i \in SlurmIds |-> IF i \in hit
                           THEN [slurm[i] EXCEPT !.state = "CANCELLED"] ELSE slurm[i]]
            /\ wrap' = [i \in SlurmIds |-> IF i \in hit
                           THEN [NoWrap EXCEPT !.verdict = wrap[i].verdict] ELSE wrap[i]]
            /\ \A i \in hit : slurm[i].state # "FREE"
      <3> DEFINE asked == {i \in SlurmIds : /\ slurm[i].state \in SlurmLive
                                            /\ \E j \in coord[c].todo : coord[c].seen[j] = i}
      <3>1. asked \in SUBSET SlurmIds /\ \A i \in asked : slurm[i].state # "FREE"
        BY DEF SlurmLive
      <3> QED
        BY <1>24, <3>1 DEF Scancel
    <2>3. slurm' \in [SlurmIds -> SlurmSet]
      BY <2>2 DEF TypeInv, TypeOK, SlurmSet, SlurmStates, SlurmEnded
    <2>4. wrap' \in [SlurmIds -> WrapSet]
      BY <2>2, Bounds DEF TypeInv, TypeOK, WrapSet, WrapPcs, NoWrap
    <2>5. \A m \in SlurmIds : WrapGood(wrap'[m], slurm'[m])
      BY <2>2 DEF TypeInv, TypeOK, Structure, WrapGood, NoWrap, SlurmSet
    <2>6. TypeOK'
      BY <1>24, <2>1, <2>3, <2>4 DEF Scancel, CoordTyped, TypeInv, TypeOK
    <2>7. Structure'
      BY <2>1, <2>5 DEF Structure, CoordTyped
    <2> QED
      BY <2>6, <2>7 DEF TypeInv
  <1>25. CASE CancelMark(c)
    <2>0. PICK j \in First(t) :
            /\ row' = MarkTerminal(row, j, "cancelled")
            /\ Set(c, Continue(c, t \ {j}, "cancel_mark", "cancel_end"))
      BY <1>25 DEF CancelMark
    <2>1. CoordTyped'
      <3>1. "cancel_end" \in Quiet /\ "cancel_mark" \in CoordPcs /\ t \ {j} \in SUBSET Jobs
        BY <1>f DEF Quiet, CoordPcs
      <3> QED
        BY <1>t, <2>0, <3>1, ContinueTyped
    <2>2. R
      BY <1>f, <1>r, <2>0, LedgerTypes DEF TERMINAL_STATUSES
    <2> QED
      BY LedgerStep, <1>25, <2>1, <2>2, <1>u, <1>b DEF CancelMark
  <1>26. CASE CancelEnd(c)
    <2>1. CoordTyped'
      BY <1>26, <1>t, QuitTyped DEF CancelEnd
    <2> QED
      BY LedgerStep, <1>26, <2>1, <1>r, <1>b DEF CancelEnd
  <1> QED
    BY <1>1, <1>2, <1>3, <1>4, <1>5, <1>6, <1>7, <1>8, <1>9, <1>10, <1>11, <1>12, <1>13,
       <1>14, <1>15, <1>16, <1>17, <1>18, <1>19, <1>20, <1>21, <1>22, <1>23, <1>24, <1>25,
       <1>26 DEF Coordinator

(* SLURM starting and killing jobs, and time. *)
LEMMA EnvironmentTypes ==
  ASSUME TypeInv,
         \/ \E i \in SlurmIds : Start(i) \/ Kill(i)
         \/ \E j \in Jobs : ClaimAges(j)
  PROVE  TypeInv'
  <1>1. ASSUME NEW i \in SlurmIds, Start(i)
        PROVE  TypeInv'
    <2>1. wrap' \in [SlurmIds -> WrapSet] /\ slurm' \in [SlurmIds -> SlurmSet]
      BY <1>1 DEF Start, TypeInv, TypeOK, WrapSet, WrapPcs, SlurmSet, SlurmStates, SlurmLive
    <2>2. \A m \in SlurmIds : WrapGood(wrap'[m], slurm'[m])
      BY <1>1 DEF Start, TypeInv, TypeOK, Structure, WrapGood, WrapSet, SlurmSet
    <2> QED
      BY <1>1, <2>1, <2>2 DEF Start, TypeInv, TypeOK, Structure
  <1>2. ASSUME NEW i \in SlurmIds, Kill(i)
        PROVE  TypeInv'
    <2>0. PICK state \in SlurmEnded : slurm' = [slurm EXCEPT ![i].state = state]
      BY <1>2, KindsAssumption DEF Kill, SlurmEnded
    <2>w. wrap' = [wrap EXCEPT ![i].pc = "off", ![i].left = 0, ![i].child = NoId]
      BY <1>2 DEF Kill
    <2>1. wrap' \in [SlurmIds -> WrapSet] /\ slurm' \in [SlurmIds -> SlurmSet]
      BY <2>0, <2>w, Bounds DEF TypeInv, TypeOK, WrapSet, WrapPcs, SlurmSet, SlurmStates
    <2>2. \A m \in SlurmIds : WrapGood(wrap'[m], slurm'[m])
      <3>0. state # "FREE" /\ slurm[i].state = "RUNNING"
        BY <1>2 DEF Kill, SlurmEnded
      <3>1. slurm'[i].state = state /\ slurm'[i].job = slurm[i].job /\ wrap'[i].pc = "off"
        BY <2>0, <2>w DEF TypeInv, TypeOK, WrapSet, SlurmSet
      <3>2. WrapGood(wrap'[i], slurm'[i])
        BY <3>0, <3>1 DEF TypeInv, Structure, WrapGood
      <3>3. ASSUME NEW m \in SlurmIds, m # i
            PROVE  WrapGood(wrap'[m], slurm'[m])
        BY <2>0, <2>w, <3>3 DEF TypeInv, TypeOK, Structure
      <3> QED
        BY <3>2, <3>3
    <2>3. budget' \in 0..MaxFaults
      BY <1>2, FaultType DEF Kill, TypeInv, TypeOK
    <2> QED
      BY <1>2, <2>1, <2>2, <2>3 DEF Kill, TypeInv, TypeOK, Structure
  <1>3. ASSUME NEW j \in Jobs, ClaimAges(j)
        PROVE  TypeInv'
    <2>1. row' \in [Jobs -> RowSet(SlurmIds)]
      BY <1>3 DEF ClaimAges, TypeInv, TypeOK, RowSet
    <2>2. budget' \in 0..MaxFaults
      BY <1>3, FaultType DEF ClaimAges, TypeInv, TypeOK
    <2> QED
      BY <1>3, <2>1, <2>2 DEF ClaimAges, TypeInv, TypeOK, Structure
  <1> QED
    BY <1>1, <1>2, <1>3

LEMMA InitialTypes == Init => TypeInv
  <1> SUFFICES ASSUME Init PROVE TypeInv
    OBVIOUS
  <1>1. row \in [Jobs -> RowSet(SlurmIds)]
    BY DEF Init, NewRow, RowSet, Statuses
  <1>2. slurm \in [SlurmIds -> SlurmSet] /\ wrap \in [SlurmIds -> WrapSet]
    BY Bounds DEF Init, NoSlurm, NoWrap, SlurmSet, SlurmStates, WrapSet, WrapPcs
  <1>3. [NoCoord EXCEPT !.op = "submit", !.pc = "begin"] \in CoordSet
        /\ CoordGood([NoCoord EXCEPT !.op = "submit", !.pc = "begin"])
    BY NoCoordType DEF CoordSet, CoordPcs, NoCoord, CoordGood
  <1>4. coord \in [Coords -> CoordSet] /\ \A c \in Coords : CoordGood(coord[c])
    BY <1>3, NoCoordGood DEF Init
  <1>5. run = "pending" /\ budget \in 0..MaxFaults
    BY SizesAssumption DEF Init
  <1>6. \A i \in SlurmIds : WrapGood(wrap[i], slurm[i])
    BY DEF Init, NoSlurm, NoWrap, WrapGood
  <1> QED
    BY <1>1, <1>2, <1>4, <1>5, <1>6 DEF TypeInv, TypeOK, Structure

LEMMA NextTypes == TypeInv /\ [Next]_vars => TypeInv'
  <1>1. ASSUME TypeInv, UNCHANGED vars
        PROVE  TypeInv'
    BY <1>1 DEF vars, TypeInv, TypeOK, Structure
  <1> QED
    BY <1>1, WrapperTypes, CoordinatorTypes, EnvironmentTypes DEF Next

(* Every variable keeps its type, and every process is where its local data *)
(* mean something: a wrapper that runs is inside a running SLURM job of a   *)
(* case of the run, and a coordinator that asks SLURM about a row asks with *)
(* an id.                                                                   *)
THEOREM Typing == Spec => [](TypeOK /\ Structure)
  <1>1. Init => TypeInv
    BY InitialTypes
  <1>2. TypeInv /\ [Next]_vars => TypeInv'
    BY NextTypes
  <1>3. TypeInv => TypeOK /\ Structure
    BY DEF TypeInv
  <1> QED
    BY <1>1, <1>2, <1>3, PTL DEF Spec

-----------------------------------------------------------------------------
(* What one statement may do to a row *)

(* The rows move along the edges of JobLife. *)
Along(old, new) ==
  \A j \in Jobs : \/ new[j].status = old[j].status
                  \/ /\ old[j].status \in OPEN_STATUSES
                     /\ new[j].status \in Life!Edges(old[j].status)

LEMMA LedgerEdges ==
  ASSUME NEW ids, NEW rows \in [Jobs -> RowSet(ids)], NEW j \in Jobs
  PROVE  /\ Along(rows, ClaimForSubmission(rows, j))
         /\ Along(rows, ReleaseSubmission(rows, j))
         /\ Along(rows, MarkRunning(rows, j))
         /\ Along(rows, ResetToPending(rows, j))
         /\ Along(rows, CancelPending(rows))
         /\ \A status \in TERMINAL_STATUSES : Along(rows, MarkTerminal(rows, j, status))
         /\ \A id : /\ Along(rows, MarkScheduled(rows, j, id))
                    /\ Along(rows, SetSlurmId(rows, j, id))
  <1> USE DEF RowSet, Along, Transition, OPEN_STATUSES
  <1>t. \A from : TERMINAL_STATUSES \subseteq Life!Edges(from)
    BY DEF Life!Edges, Life!TERMINAL_STATUSES, TERMINAL_STATUSES
  <1>1. Along(rows, ClaimForSubmission(rows, j))
    BY DEF ClaimForSubmission, Life!Edges
  <1>2. Along(rows, ReleaseSubmission(rows, j))
    BY DEF ReleaseSubmission, Life!Edges, ACTIVE_STATUSES
  <1>3. Along(rows, MarkRunning(rows, j))
    BY DEF MarkRunning, Life!Edges, RunnableStatuses, ACTIVE_STATUSES
  <1>4. Along(rows, ResetToPending(rows, j))
    BY DEF ResetToPending, NewRow, Life!Edges, ACTIVE_STATUSES
  <1>5. Along(rows, CancelPending(rows))
    <2>1. "cancelled" \in TERMINAL_STATUSES
      BY DEF TERMINAL_STATUSES
    <2>2. ASSUME NEW m \in Jobs
          PROVE  CancelPending(rows)[m].status = IF rows[m].status = "pending" THEN "cancelled"
                                                 ELSE rows[m].status
      BY DEF CancelPending
    <2> QED
      BY <1>t, <2>1, <2>2
  <1>7. ASSUME NEW status \in TERMINAL_STATUSES
        PROVE  Along(rows, MarkTerminal(rows, j, status))
    <2>1. ASSUME NEW m \in Jobs
          PROVE  MarkTerminal(rows, j, status)[m].status
                   = IF m = j /\ rows[j].status \in OPEN_STATUSES THEN status ELSE rows[m].status
      BY DEF MarkTerminal
    <2> QED
      BY <1>t, <2>1
  <1>8. ASSUME NEW id
        PROVE  Along(rows, MarkScheduled(rows, j, id)) /\ Along(rows, SetSlurmId(rows, j, id))
    BY DEF MarkScheduled, SetSlurmId, Life!Edges, ACTIVE_STATUSES
  <1> QED
    BY <1>1, <1>2, <1>3, <1>4, <1>5, <1>7, <1>8

(* Every step of a process applies one statement to one row, or             *)
(* cancel_pending, or none.                                                 *)
OneUpdate ==
  \/ row' = row
  \/ row' = CancelPending(row)
  \/ \E j \in Jobs :
       \/ row' = ClaimForSubmission(row, j)
       \/ row' = ReleaseSubmission(row, j)
       \/ row' = MarkRunning(row, j)
       \/ row' = ResetToPending(row, j)
       \/ \E status \in TERMINAL_STATUSES : row' = MarkTerminal(row, j, status)
       \/ \E id \in Ids : row' = MarkScheduled(row, j, id) \/ row' = SetSlurmId(row, j, id)

OneStatement == OneUpdate \/ \E j \in Jobs : ClaimAges(j)

LEMMA WrapperStatements ==
  ASSUME TypeInv, NEW i \in SlurmIds, Wrapper(i)
  PROVE  OneUpdate
  <1>g. /\ wrap[i] \in WrapSet /\ WrapGood(wrap[i], slurm[i])
        /\ row \in [Jobs -> RowSet(SlurmIds)]
    BY DEF TypeInv, TypeOK, Structure
  <1>c. wrap[i].pc # "off" => Case(i) \in Jobs
    BY <1>g DEF WrapGood, Case
  <1>s. wrap[i].pc \in {"sbatch", "mark"} => Successor(i) \in Jobs
    BY <1>g DEF WrapGood, Successor, Case
  <1>1. CASE BadConfig(i)
    BY <1>1, <1>c DEF BadConfig, OneUpdate, TERMINAL_STATUSES
  <1>2. CASE ClaimRun(i)
    BY <1>2, <1>c DEF ClaimRun, OneUpdate
  <1>3. CASE ClaimSuccessor(i)
    <2>1. WithStatus(row, {"pending"}) \subseteq Jobs
      BY <1>g DEF WithStatus
    <2> QED
      BY <1>3, <2>1 DEF ClaimSuccessor, OneUpdate
  <1>4. CASE SubmitSuccessor(i)
    BY <1>4, <1>s DEF SubmitSuccessor, OneUpdate
  <1>5. CASE MarkSuccessor(i)
    BY <1>5, <1>s, <1>g DEF MarkSuccessor, OneUpdate, WrapSet
  <1>6. CASE Finish(i)
    <2>1. wrap[i].verdict \in TERMINAL_STATUSES
      BY <1>6, <1>g DEF Finish, WrapGood, CaseVerdicts, TERMINAL_STATUSES
    <2> QED
      BY <1>6, <2>1, <1>c DEF Finish, OneUpdate
  <1>7. CASE UNCHANGED row
    BY <1>7 DEF OneUpdate
  <1> QED
    BY <1>1, <1>2, <1>3, <1>4, <1>5, <1>6, <1>7
       DEF Wrapper, ReadRow, MissingTemplate, RunCase, Conclude, WriteVerdict

LEMMA CoordinatorStatements ==
  ASSUME TypeInv, NEW c \in Coords, Coordinator(c)
  PROVE  OneUpdate
  <1>g. /\ coord[c] \in CoordSet /\ CoordGood(coord[c])
        /\ row \in [Jobs -> RowSet(SlurmIds)]
    BY DEF TypeInv, TypeOK, Structure
  <1>t. /\ First(coord[c].todo) \subseteq Jobs /\ First(coord[c].todo) \subseteq coord[c].todo
        /\ coord[c].child \in Ids
    BY <1>g, CoordFields DEF First
  <1>j. coord[c].pc \in {"sbatch", "mark", "settle"} => coord[c].job \in Jobs
    BY <1>g DEF CoordGood
  <1>1. CASE Reset(c)
    BY <1>1, <1>t DEF Reset, OneUpdate
  <1>2. CASE Pick(c)
    BY <1>2, <1>t DEF Pick, OneUpdate
  <1>3. CASE Sbatch(c)
    BY <1>3, <1>j DEF Sbatch, At, OneUpdate
  <1>4. CASE Mark(c)
    BY <1>4, <1>j, <1>t DEF Mark, At, OneUpdate
  <1>5. CASE Apply(c)
    <2>1. PICK j \in First(coord[c].todo) :
            row' \in {SetSlurmId(row, j, coord[c].seen[j]), MarkTerminal(row, j, "lost"), row}
      BY <1>5 DEF Apply
    <2>2. j \in Jobs /\ coord[c].seen[j] \in Ids
      BY <1>t, <1>g, CoordFields
    <2> QED
      BY <2>1, <2>2 DEF OneUpdate, TERMINAL_STATUSES
  <1>6. CASE Settle(c)
    BY <1>6, <1>j, ClassifyType DEF Settle, At, OneUpdate
  <1>7. CASE CancelRows(c)
    BY <1>7 DEF CancelRows, OneUpdate
  <1>8. CASE CancelMark(c)
    BY <1>8, <1>t DEF CancelMark, OneUpdate, TERMINAL_STATUSES
  <1>9. CASE UNCHANGED row
    BY <1>9 DEF OneUpdate
  <1> QED
    BY <1>1, <1>2, <1>3, <1>4, <1>5, <1>6, <1>7, <1>8, <1>9
       DEF Coordinator, Begin, Top, Recover, Seed, Repair, List, Snapshot, Query,
           Finalize, RecordVerdict, Check, CancelScan, Scancel, CancelEnd

LEMMA Statements ==
  ASSUME TypeInv, [Next]_vars
  PROVE  OneStatement
  <1>1. CASE UNCHANGED row
    BY <1>1 DEF OneStatement, OneUpdate
  <1> QED
    BY <1>1, WrapperStatements, CoordinatorStatements
       DEF OneStatement, Next, vars, Start, Kill, Crash, StartWatch, StartResume, StartCancel

LEMMA RowsAlong ==
  ASSUME TypeInv, [Next]_vars
  PROVE  Along(row, row')
  <1>r. row \in [Jobs -> RowSet(SlurmIds)]
    BY DEF TypeInv, TypeOK
  <1>1. ASSUME row' = row
        PROVE  Along(row, row')
    BY <1>1 DEF Along
  <1>2. 1 \in Jobs
    BY SizesAssumption DEF Jobs
  <1>3. ASSUME row' = CancelPending(row)
        PROVE  Along(row, row')
    BY <1>2, <1>3, <1>r, LedgerEdges
  <1>4. ASSUME NEW j \in Jobs,
               \/ row' = ClaimForSubmission(row, j) \/ row' = ReleaseSubmission(row, j)
               \/ row' = MarkRunning(row, j) \/ row' = ResetToPending(row, j)
        PROVE  Along(row, row')
    BY <1>4, <1>r, LedgerEdges
  <1>7. ASSUME NEW j \in Jobs, row' = [row EXCEPT ![j].stale = TRUE]
        PROVE  Along(row, row')
    BY <1>7, <1>r DEF Along, RowSet
  <1>5. ASSUME NEW j \in Jobs, NEW status \in TERMINAL_STATUSES,
               row' = MarkTerminal(row, j, status)
        PROVE  Along(row, row')
    BY <1>5, <1>r, LedgerEdges
  <1>6. ASSUME NEW j \in Jobs, NEW id \in Ids,
               row' = MarkScheduled(row, j, id) \/ row' = SetSlurmId(row, j, id)
        PROVE  Along(row, row')
    BY <1>6, <1>r, LedgerEdges
  <1> QED
    BY <1>1, <1>3, <1>4, <1>5, <1>6, <1>7, Statements DEF OneStatement, OneUpdate, ClaimAges

(* Only time makes a claim stale. *)
LEMMA Ageing ==
  ASSUME TypeInv, [Next]_vars, NEW j \in Jobs, row'[j].stale
  PROVE  row[j].stale \/ ClaimAges(j)
  <1>r. row \in [Jobs -> RowSet(SlurmIds)]
    BY DEF TypeInv, TypeOK
  <1>1. CASE OneUpdate
    <2>1. \A m \in Jobs : /\ \A to \in {ClaimForSubmission(row, m), ReleaseSubmission(row, m),
                                        MarkRunning(row, m), ResetToPending(row, m),
                                        CancelPending(row)} : to[j].stale => row[j].stale
                          /\ \A status : MarkTerminal(row, m, status)[j].stale => row[j].stale
                          /\ \A id : /\ MarkScheduled(row, m, id)[j].stale => row[j].stale
                                     /\ SetSlurmId(row, m, id)[j].stale => row[j].stale
      BY <1>r DEF RowSet, Transition, ClaimForSubmission, ReleaseSubmission, MarkRunning,
         ResetToPending, NewRow, CancelPending, MarkTerminal, MarkScheduled, SetSlurmId
    <2> QED
      BY <1>1, <2>1 DEF OneUpdate
  <1>2. ASSUME NEW m \in Jobs, ClaimAges(m)
        PROVE  row[j].stale \/ ClaimAges(j)
    BY <1>2, <1>r DEF ClaimAges, RowSet
  <1> QED
    BY <1>1, <1>2, Statements DEF OneStatement

-----------------------------------------------------------------------------
(* Verdicts *)

(* Rows that have all ended stay, and so does the verdict on them. *)
LEMMA Frozen ==
  ASSUME row \in [Jobs -> RowSet(SlurmIds)], row' \in [Jobs -> RowSet(SlurmIds)],
         Along(row, row'), AllTerminal(row)
  PROVE  AllTerminal(row') /\ Verdict(row') = Verdict(row)
  <1>1. \A j \in Jobs : row'[j].status = row[j].status
    BY DEF AllTerminal, Terminal, Along, OPEN_STATUSES, ACTIVE_STATUSES, TERMINAL_STATUSES
  <1>2. AllTerminal(row')
    BY <1>1 DEF AllTerminal, Terminal
  <1>3. WithStatus(row', BAD_STATUSES) = WithStatus(row, BAD_STATUSES)
    BY <1>1 DEF WithStatus
  <1> QED
    BY <1>2, <1>3 DEF Verdict

(* pc is not a verdict, or it is the verdict on the rows as they are. *)
True(pc) == pc \in RunVerdicts => AllTerminal(row) /\ pc = Verdict(row)

(* A verdict that is written, or read and about to be written, is true. *)
VerdictInv ==
  /\ True(run)
  /\ \A i \in SlurmIds : True(wrap[i].pc)
  /\ \A c \in Coords : True(coord[c].pc)

LEMMA Plain ==
  \A op : /\ AfterRecover(op) \notin RunVerdicts /\ AfterRepair(op) \notin RunVerdicts
          /\ AfterReconcile(op) \notin RunVerdicts
  BY DEF RunVerdicts, AfterRecover, AfterRepair, AfterReconcile

(* A wrapper comes to a verdict only by reading it off the rows. *)
LEMMA WrapperVerdicts ==
  ASSUME TypeInv, NEW i \in SlurmIds, Wrapper(i), NEW m \in SlurmIds,
         wrap'[m].pc \in RunVerdicts
  PROVE  wrap'[m].pc = wrap[m].pc \/ (AllTerminal(row) /\ wrap'[m].pc = Verdict(row))
  <1>w. wrap \in [SlurmIds -> WrapSet]
    BY DEF TypeInv, TypeOK
  <1>1. CASE Conclude(i)
    BY <1>1, <1>w DEF Conclude, Goto, Exit, RunVerdicts, WrapSet
  <1>2. CASE ReadRow(i) \/ MissingTemplate(i) \/ BadConfig(i) \/ ClaimRun(i)
    BY <1>2, <1>w DEF ReadRow, MissingTemplate, BadConfig, ClaimRun, Goto, Exit, RunVerdicts,
                      WrapSet
  <1>3. CASE ClaimSuccessor(i) \/ SubmitSuccessor(i) \/ MarkSuccessor(i)
    BY <1>3, <1>w DEF ClaimSuccessor, SubmitSuccessor, MarkSuccessor, Return, Goto, RunVerdicts,
                      WrapSet
  <1>4. CASE Finish(i) \/ WriteVerdict(i)
    BY <1>4, <1>w DEF Finish, WriteVerdict, Goto, Exit, RunVerdicts, WrapSet
  <1>5. CASE RunCase(i)
    <2>1. PICK v \in Verdicts :
            LET left == IF v = "error" THEN 0 ELSE wrap[i].left
            IN  wrap' = [wrap EXCEPT ![i].verdict = v, ![i].left = left,
                                     ![i].pc = IF left = 0 THEN "finish" ELSE "succ"]
      BY <1>5 DEF RunCase
    <2> QED
      BY <2>1, <1>w DEF RunVerdicts, WrapSet
  <1> QED
    BY <1>1, <1>2, <1>3, <1>4, <1>5 DEF Wrapper

LEMMA ContinuePc ==
  ASSUME NEW c \in Coords, coord[c] \in CoordSet, NEW todo, NEW pc, NEW next,
         pc \notin RunVerdicts, next \notin RunVerdicts
  PROVE  /\ Continue(c, todo, pc, next).pc \notin RunVerdicts
         /\ "pc" \in DOMAIN Continue(c, todo, pc, next)
  BY DEF Continue, CoordSet, NoCoord, RunVerdicts

(* Updates of other fields leave pc alone. *)
LEMMA PcKept ==
  ASSUME NEW state, "pc" \in DOMAIN state, NEW x, NEW y
  PROVE  /\ [state EXCEPT !.slots = x].pc = state.pc
         /\ [state EXCEPT !.seen = x].pc = state.pc
         /\ [state EXCEPT !.missing = x].pc = state.pc
         /\ [[state EXCEPT !.missing = x] EXCEPT !.info = y].pc = state.pc
         /\ [state EXCEPT !.missing[y] = x].pc = state.pc
  OBVIOUS

(* So does a coordinator. *)
LEMMA CoordinatorVerdicts ==
  ASSUME TypeInv, NEW c \in Coords, Coordinator(c), NEW d \in Coords,
         coord'[d].pc \in RunVerdicts
  PROVE  coord'[d].pc = coord[d].pc \/ (AllTerminal(row) /\ coord'[d].pc = Verdict(row))
  <1>w. coord \in [Coords -> CoordSet] /\ coord[c] \in CoordSet
    BY DEF TypeInv, TypeOK
  <1>o. ASSUME d # c
        PROVE  coord'[d].pc = coord[d].pc
    BY <1>o, <1>w DEF Coordinator, Begin, Top, Recover, Reset, Seed, Repair, List, Pick, Sbatch,
       Mark, Snapshot, Query, Apply, Settle, Finalize, RecordVerdict, Check, CancelRows,
       CancelScan, Scancel, CancelMark, CancelEnd, Set, Move, Quit
  <1> SUFFICES ASSUME d = c
               PROVE  coord'[c].pc = coord[c].pc
                      \/ (AllTerminal(row) /\ coord'[c].pc = Verdict(row))
    BY <1>o
  <1>1. CASE Finalize(c)
    BY <1>1, <1>w DEF Finalize, Move, Quit, Set, NoCoord, RunVerdicts, CoordSet
  <1>2. CASE Begin(c) \/ Top(c) \/ RecordVerdict(c) \/ Check(c)
    BY <1>2, <1>w DEF Begin, Top, RecordVerdict, Check, Move, Quit, Set, NoCoord, RunVerdicts,
                      CoordSet
  <1>3. CASE CancelRows(c) \/ CancelEnd(c)
    BY <1>3, <1>w DEF CancelRows, CancelEnd, Move, Quit, Set, NoCoord, RunVerdicts, CoordSet
  <1>10. CASE CancelScan(c)
    <2>1. PICK active, ids :
            Set(c, [coord[c] EXCEPT !.pc = "scancel", !.todo = active, !.seen = ids])
      BY <1>10 DEF CancelScan
    <2> QED
      BY <2>1, <1>w DEF Set, RunVerdicts, CoordSet
  <1>4. ASSUME NEW todo, NEW pc, NEW next, pc \notin RunVerdicts, next \notin RunVerdicts,
               coord'[c].pc = Continue(c, todo, pc, next).pc
        PROVE  FALSE
    BY <1>4, <1>w, ContinuePc
  <1>v. \A pc \in {"reset", "pick", "list", "query", "apply", "idle", "sbatch", "mark",
                   "settle", "cancel_mark", "cancel_end"} : pc \notin RunVerdicts
    BY DEF RunVerdicts
  <1>5. CASE Recover(c) \/ Reset(c)
    <2>1. \E todo : Set(c, Continue(c, todo, "reset", AfterRecover(coord[c].op)))
      BY <1>5 DEF Recover, Reset
    <2> QED
      BY <2>1, <1>4, <1>v, <1>w, Plain DEF Set
  <1>6. ASSUME NEW todo, NEW pc \in {"pick", "list"},
               Set(c, Continue(c, todo, pc, AfterRepair(coord[c].op)))
        PROVE  FALSE
    BY <1>6, <1>4, <1>v, <1>w, Plain DEF Set
  <1>16. ASSUME NEW job, NEW dep, NEW id, NEW slots,
                \/ Set(c, [coord[c] EXCEPT !.pc = "sbatch", !.job = job, !.dep = dep])
                \/ Set(c, [coord[c] EXCEPT !.pc = "mark", !.child = id])
                \/ Set(c, [coord[c] EXCEPT !.pc = "list", !.slots = slots])
         PROVE  FALSE
    BY <1>16, <1>w DEF Set, CoordSet, RunVerdicts
  <1>17. CASE List(c)
    BY <1>17, <1>6 DEF List
  <1>18. CASE Pick(c)
    BY <1>18, <1>6, <1>16 DEF Pick
  <1>19. CASE Sbatch(c)
    BY <1>19, <1>6, <1>16 DEF Sbatch
  <1>20. CASE Repair(c)
    <2> DEFINE active == Cardinality(WithStatus(row, ACTIVE_STATUSES))
    <2>1. CASE active >= K
      BY <1>20, <2>1, <1>6 DEF Repair
    <2>2. CASE ~(active >= K)
      BY <1>20, <2>2, <1>16 DEF Repair
    <2> QED
      BY <2>1, <2>2
  <1>7. CASE CancelMark(c) \/ Scancel(c)
    <2>1. \E todo : Set(c, Continue(c, todo, "cancel_mark", "cancel_end"))
      BY <1>7 DEF CancelMark, Scancel
    <2> QED
      BY <2>1, <1>4, <1>v, <1>w DEF Set
  <1>8. CASE Settle(c)
    <2>1. \E todo : Set(c, Continue(c, todo, "apply", AfterReconcile(coord[c].op)))
      BY <1>8 DEF Settle
    <2> QED
      BY <2>1, <1>4, <1>v, <1>w, Plain DEF Set
  <1>9. ASSUME NEW todo, NEW pc, NEW next, pc \notin RunVerdicts, next \notin RunVerdicts,
               NEW x, NEW y,
               \/ Set(c, [Continue(c, todo, pc, next) EXCEPT !.slots = x])
               \/ Set(c, [Continue(c, todo, pc, next) EXCEPT !.seen = x])
               \/ Set(c, [Continue(c, todo, pc, next) EXCEPT !.missing = x])
               \/ Set(c, [[Continue(c, todo, pc, next) EXCEPT !.missing = x] EXCEPT !.info = y])
               \/ Set(c, [Continue(c, todo, pc, next) EXCEPT !.missing[y] = x])
        PROVE  FALSE
    <2> DEFINE state == Continue(c, todo, pc, next)
    <2>1. state.pc \notin RunVerdicts /\ "pc" \in DOMAIN state
      BY <1>9, <1>w, ContinuePc
    <2>2. coord'[c].pc = state.pc
      <3>1. \/ coord'[c] = [state EXCEPT !.slots = x]
            \/ coord'[c] = [state EXCEPT !.seen = x]
            \/ coord'[c] = [state EXCEPT !.missing = x]
            \/ coord'[c] = [[state EXCEPT !.missing = x] EXCEPT !.info = y]
            \/ coord'[c] = [state EXCEPT !.missing[y] = x]
        BY <1>9, <1>w DEF Set
      <3> HIDE DEF state
      <3> QED
        BY <2>1, <3>1, PcKept
    <2> QED
      BY <2>1, <2>2
  <1>11. CASE Seed(c)
    <2>1. PICK todo, slots : Set(c, [Continue(c, todo, "pick", "idle") EXCEPT !.slots = slots])
      BY <1>11 DEF Seed, Set
    <2> QED
      BY <2>1, <1>9, <1>v
  <1>12. CASE Mark(c)
    <2> DEFINE slots == coord[c].slots - 1
               rest == IF slots <= 0 THEN {} ELSE coord[c].todo \ {coord[c].job}
               state == Continue(c, rest, "pick", AfterRepair(coord[c].op))
    <2>1. Set(c, IF rest = {} THEN state ELSE [state EXCEPT !.slots = slots])
      BY <1>12 DEF Mark
    <2>2. CASE rest = {}
      BY <2>1, <2>2, <1>6
    <2>3. CASE rest # {}
      <3>1. Set(c, [state EXCEPT !.slots = slots])
        BY <2>1, <2>3
      <3> HIDE DEF rest, slots
      <3> QED
        BY <3>1, <1>9, <1>v, Plain
    <2> QED
      BY <2>2, <2>3
  <1>13. CASE Snapshot(c)
    <2>1. PICK todo, seen :
            Set(c, [Continue(c, todo, "query", AfterReconcile(coord[c].op)) EXCEPT !.seen = seen])
      BY <1>13 DEF Snapshot
    <2> QED
      BY <2>1, <1>9, <1>v, <1>w, Plain DEF Set
  <1>14. CASE Query(c)
    <2>1. PICK todo, missing, info :
            LET state == [Continue(c, todo, "apply", AfterReconcile(coord[c].op))
                            EXCEPT !.missing = missing]
            IN  Set(c, state) \/ Set(c, [state EXCEPT !.info = info])
      BY <1>14 DEF Query
    <2> QED
      BY <2>1, <1>9, <1>v, Plain
  <1>15. CASE Apply(c)
    <2>1. PICK todo, id, polls, j :
            \/ Set(c, [Continue(c, todo, "apply", AfterReconcile(coord[c].op))
                          EXCEPT !.missing[id] = polls])
            \/ Set(c, [coord[c] EXCEPT !.pc = "settle", !.job = j, !.missing[id] = 0])
      BY <1>15 DEF Apply
    <2>2. CASE Set(c, [coord[c] EXCEPT !.pc = "settle", !.job = j, !.missing[id] = 0])
      BY <2>2, <1>w DEF Set, CoordSet, RunVerdicts
    <2>3. CASE Set(c, [Continue(c, todo, "apply", AfterReconcile(coord[c].op))
                         EXCEPT !.missing[id] = polls])
      BY <2>3, <1>9, <1>v, <1>w, Plain DEF Set
    <2> QED
      BY <2>1, <2>2, <2>3
  <1> QED
    BY <1>1, <1>2, <1>3, <1>5, <1>7, <1>8, <1>10, <1>11, <1>12, <1>13, <1>14, <1>15, <1>17,
       <1>18, <1>19, <1>20 DEF Coordinator

(* The status of the run is written without a condition on the rows by     *)
(* mark_run_started and cmd_cancel, and otherwise by one who has read it.   *)
LEMMA RunMoves ==
  ASSUME [Next]_vars
  PROVE  \/ run' = run
         \/ UNCHANGED row /\ run' \in {"running", "cancelled"}
         \/ /\ UNCHANGED row /\ run' \in RunVerdicts
            /\ \/ \E i \in SlurmIds : run' = wrap[i].pc
               \/ \E c \in Coords : run' = coord[c].pc
  <1>1. ASSUME NEW i \in SlurmIds, Wrapper(i)
        PROVE  run' = run \/ (UNCHANGED row /\ run' \in RunVerdicts /\ run' = wrap[i].pc)
    BY <1>1 DEF Wrapper, ReadRow, MissingTemplate, BadConfig, ClaimRun, ClaimSuccessor,
       SubmitSuccessor, MarkSuccessor, RunCase, Finish, Conclude, WriteVerdict
  <1>2. ASSUME NEW c \in Coords, Coordinator(c)
        PROVE  \/ run' = run
               \/ UNCHANGED row /\ run' \in {"running", "cancelled"}
               \/ UNCHANGED row /\ run' \in RunVerdicts /\ run' = coord[c].pc
    BY <1>2 DEF Coordinator, Begin, Top, Recover, Reset, Seed, Repair, List, Pick, Sbatch,
       Mark, Snapshot, Query, Apply, Settle, Finalize, RecordVerdict, Check, CancelRows,
       CancelScan, Scancel, CancelMark, CancelEnd
  <1> QED
    BY <1>1, <1>2 DEF Next, vars, Start, Kill, ClaimAges, Crash, StartWatch, StartResume,
       StartCancel

LEMMA OtherWrappers ==
  ASSUME TypeInv, [Next]_vars, ~\E i \in SlurmIds : Wrapper(i), NEW m \in SlurmIds,
         wrap'[m].pc \in RunVerdicts
  PROVE  wrap'[m].pc = wrap[m].pc
  <1>w. wrap \in [SlurmIds -> WrapSet]
    BY DEF TypeInv, TypeOK
  <1>1. ASSUME NEW i \in SlurmIds, Start(i) \/ Kill(i)
        PROVE  wrap'[m].pc = wrap[m].pc
    BY <1>1, <1>w DEF Start, Kill, RunVerdicts, WrapSet
  <1>2. ASSUME NEW c \in Coords, Scancel(c)
        PROVE  wrap'[m].pc = wrap[m].pc
    BY <1>2 DEF Scancel, NoWrap, RunVerdicts
  <1>3. ASSUME NEW c \in Coords, Coordinator(c), ~Scancel(c)
        PROVE  wrap' = wrap
    BY <1>3 DEF Coordinator, Begin, Top, Recover, Reset, Seed, Repair, List, Pick, Sbatch,
       Mark, Snapshot, Query, Apply, Settle, Finalize, RecordVerdict, Check, CancelRows,
       CancelScan, CancelMark, CancelEnd
  <1> QED
    BY <1>1, <1>2, <1>3 DEF Next, vars, ClaimAges, Crash, StartWatch, StartResume, StartCancel

LEMMA OtherCoordinators ==
  ASSUME TypeInv, [Next]_vars, ~\E c \in Coords : Coordinator(c), NEW d \in Coords,
         coord'[d].pc \in RunVerdicts
  PROVE  coord'[d].pc = coord[d].pc
  <1>w. coord \in [Coords -> CoordSet]
    BY DEF TypeInv, TypeOK
  <1>1. ASSUME NEW c \in Coords, Crash(c) \/ StartWatch(c) \/ StartResume(c) \/ StartCancel(c)
        PROVE  coord'[d].pc = coord[d].pc
    <2>1. ASSUME NEW state \in {NoCoord, [NoCoord EXCEPT !.op = "watch", !.pc = "begin"],
                                [NoCoord EXCEPT !.op = "resume", !.pc = "begin"],
                                [NoCoord EXCEPT !.op = "cancel", !.pc = "cancel_pending"]},
                 Set(c, state)
          PROVE  coord'[d].pc = coord[d].pc
      <3>1. /\ NoCoord.pc = "idle"
            /\ [NoCoord EXCEPT !.op = "watch", !.pc = "begin"].pc = "begin"
            /\ [NoCoord EXCEPT !.op = "resume", !.pc = "begin"].pc = "begin"
            /\ [NoCoord EXCEPT !.op = "cancel", !.pc = "cancel_pending"].pc
                 = "cancel_pending"
        BY DEF NoCoord
      <3>2. state.pc \in {"idle", "begin", "cancel_pending"}
        <4>1. CASE state = NoCoord
          BY <4>1, <3>1
        <4>2. CASE state = [NoCoord EXCEPT !.op = "watch", !.pc = "begin"]
          BY <4>2, <3>1
        <4>3. CASE state = [NoCoord EXCEPT !.op = "resume", !.pc = "begin"]
          BY <4>3, <3>1
        <4>4. CASE state = [NoCoord EXCEPT !.op = "cancel", !.pc = "cancel_pending"]
          BY <4>4, <3>1
        <4> QED
          BY <4>1, <4>2, <4>3, <4>4
      <3>3. state.pc \notin RunVerdicts
        BY <3>2 DEF RunVerdicts
      <3> QED
        BY <2>1, <3>3, <1>w DEF Set
    <2> QED
      BY <1>1, <2>1 DEF Crash, StartWatch, StartResume, StartCancel, Quit
  <1>2. ASSUME NEW i \in SlurmIds, Wrapper(i)
        PROVE  coord' = coord
    BY <1>2 DEF Wrapper, ReadRow, MissingTemplate, BadConfig, ClaimRun, ClaimSuccessor,
       SubmitSuccessor, MarkSuccessor, RunCase, Finish, Conclude, WriteVerdict
  <1> QED
    BY <1>1, <1>2 DEF Next, vars, ClaimAges, Start, Kill

LEMMA VerdictStep ==
  ASSUME TypeInv, TypeInv', VerdictInv, [Next]_vars
  PROVE  VerdictInv'
  <1>r. row \in [Jobs -> RowSet(SlurmIds)] /\ row' \in [Jobs -> RowSet(SlurmIds)]
    BY DEF TypeInv, TypeOK
  <1>n. ASSUME NEW pc, pc \in RunVerdicts => AllTerminal(row) /\ pc = Verdict(row)
        PROVE  pc \in RunVerdicts => AllTerminal(row') /\ pc = Verdict(row')
    BY <1>n, <1>r, RowsAlong, Frozen
  <1>1. True(run)'
    BY <1>n, RunMoves DEF VerdictInv, True, RunVerdicts
  <1>2. ASSUME NEW m \in SlurmIds
        PROVE  True(wrap[m].pc)'
    <2>1. wrap'[m].pc \in RunVerdicts
            => \/ wrap'[m].pc = wrap[m].pc
               \/ AllTerminal(row) /\ wrap'[m].pc = Verdict(row)
      BY WrapperVerdicts, OtherWrappers DEF Next
    <2> QED
      BY <1>n, <2>1 DEF VerdictInv, True
  <1>3. ASSUME NEW d \in Coords
        PROVE  True(coord[d].pc)'
    <2>1. coord'[d].pc \in RunVerdicts
            => \/ coord'[d].pc = coord[d].pc
               \/ AllTerminal(row) /\ coord'[d].pc = Verdict(row)
      BY CoordinatorVerdicts, OtherCoordinators
    <2> QED
      BY <1>n, <2>1 DEF VerdictInv, True
  <1> QED
    BY <1>1, <1>2, <1>3 DEF VerdictInv

LEMMA InitialVerdicts == Init => VerdictInv
  <1>1. ASSUME Init
        PROVE  /\ run \notin RunVerdicts
               /\ \A i \in SlurmIds : wrap[i].pc \notin RunVerdicts
               /\ \A c \in Coords : coord[c].pc \notin RunVerdicts
    BY <1>1 DEF Init, NoWrap, NoCoord, RunVerdicts
  <1> QED
    BY <1>1 DEF VerdictInv, True

(* A run that says it is complete is complete, and says truly whether a     *)
(* case ended badly, though finalize_run reads the rows and writes the      *)
(* verdict in different transactions and any process may act in between.    *)
THEOREM TrueVerdict == Spec => []VerdictIsTrue
  <1>1. Init => TypeInv /\ VerdictInv
    BY InitialTypes, InitialVerdicts
  <1>2. TypeInv /\ VerdictInv /\ [Next]_vars => TypeInv' /\ VerdictInv'
    BY NextTypes, VerdictStep
  <1>3. VerdictInv => VerdictIsTrue
    BY DEF VerdictInv, True, VerdictIsTrue
  <1> QED
    BY <1>1, <1>2, <1>3, PTL DEF Spec

-----------------------------------------------------------------------------
(* Refinement *)

(* The words of the ledger mean the same in JobLife. *)
LEMMA SameWords ==
  /\ Life!TERMINAL_STATUSES = TERMINAL_STATUSES /\ Life!BAD_STATUSES = BAD_STATUSES
  /\ Life!OPEN_STATUSES = OPEN_STATUSES /\ Life!Statuses = Statuses
  BY DEF Life!TERMINAL_STATUSES, TERMINAL_STATUSES, Life!BAD_STATUSES, BAD_STATUSES,
         Life!OPEN_STATUSES, OPEN_STATUSES, Life!Statuses, Statuses,
         Life!ACTIVE_STATUSES, ACTIVE_STATUSES

LEMMA InitialLife == Init => Life!Init
  BY DEF Init, NewRow, Life!Init

LEMMA LifeStep ==
  ASSUME TypeInv, TypeInv', VerdictInv, [Next]_vars
  PROVE  [Life!Next]_Life!vars
  <1> DEFINE status == [j \in Jobs |-> row[j].status]
  <1>r. row \in [Jobs -> RowSet(SlurmIds)] /\ row' \in [Jobs -> RowSet(SlurmIds)]
    BY DEF TypeInv, TypeOK
  <1>1. CASE run' = run
    <2>1. status' \in [Jobs -> Statuses]
      BY <1>r DEF RowSet
    <2>2. Life!Move
      BY <1>1, <2>1, RowsAlong, SameWords DEF Along, Life!Move
    <2> QED
      BY <2>2 DEF Life!Next
  <1>2. CASE UNCHANGED row /\ run' \in {"running", "cancelled"}
    BY <1>2 DEF Life!Next, Life!Restart, Life!Cancel
  <1>3. CASE /\ UNCHANGED row /\ run' \in RunVerdicts
             /\ \/ \E i \in SlurmIds : run' = wrap[i].pc
                \/ \E c \in Coords : run' = coord[c].pc
    <2>1. AllTerminal(row) /\ run' = Verdict(row)
      BY <1>3 DEF VerdictInv, True
    <2>2. \A j \in Jobs : row[j].status \in TERMINAL_STATUSES
      BY <2>1, <1>r DEF AllTerminal, Terminal
    <2>3. WithStatus(row, BAD_STATUSES) = {} <=> ~\E j \in Jobs : row[j].status \in BAD_STATUSES
      BY <1>r DEF WithStatus
    <2>4. Life!Conclude
      BY <1>3, <2>1, <2>2, <2>3, SameWords DEF Life!Conclude, Verdict
    <2> QED
      BY <2>4 DEF Life!Next
  <1> QED
    BY <1>1, <1>2, <1>3, RunMoves

(* The rows and the run of SlurmChain behave as JobLife allows: every case  *)
(* moves along its edges, one that has ended never changes again, and the   *)
(* verdict is written when all have ended.                                  *)
THEOREM Refinement == Spec => LifeSpec
  <1>1. Init => TypeInv /\ VerdictInv
    BY InitialTypes, InitialVerdicts
  <1>2. TypeInv /\ VerdictInv /\ [Next]_vars => TypeInv' /\ VerdictInv'
    BY NextTypes, VerdictStep
  <1>3. Init => Life!Init
    BY InitialLife
  <1>4. TypeInv /\ TypeInv' /\ VerdictInv /\ [Next]_vars => [Life!Next]_Life!vars
    BY LifeStep
  <1> QED
    BY <1>1, <1>2, <1>3, <1>4, PTL DEF Spec, LifeSpec, Life!Spec
=============================================================================
