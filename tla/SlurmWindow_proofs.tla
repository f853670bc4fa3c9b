------------------------- MODULE SlurmWindow_proofs -------------------------
(***************************************************************************)
(* How many SLURM jobs a run has: one for each case, and no more than K of *)
(* them at work at a time.  This needs that nobody who has claimed a row   *)
(* dies, is taken for dead or has its claim taken away, which is what Calm *)
(* says; every one of the events it excludes gives a case two jobs.  That  *)
(* no more than 2 K rows are active also holds where runs are cancelled:   *)
(* everything below holds up to the first cancel, which leaves no more     *)
(* than 2 K rows open, and no row is opened again.                         *)
(*                                                                         *)
(* The argument goes in three steps: a claim belongs to one process, which *)
(* submits the case once (ClaimInv); a job starts only when the job of the *)
(* case K places before has come to its end (StartInv); and of the cases   *)
(* K, 2K, 3K ... places apart only one is scheduling or scheduled (RowInv).*)
(***************************************************************************)
EXTENDS SlurmCases_proofs

Untroubled == Faults \cap {"crash", "kill", "slow", "resume"} = {}
Calm == Untroubled /\ "cancel" \notin Faults

(* Nobody resumes or takes a claim away, and no cancel has touched a row. *)
Steady ==
  /\ \A c \in Coords : /\ coord[c].op # "resume"
                       /\ coord[c].pc \notin Cancelling \union {"reset"}
  /\ \A j \in Jobs : ~row[j].stale

-----------------------------------------------------------------------------
(* Claims.  Who holds one has not yet reported the submission of case j.    *)

Holding == {"sbatch", "mark"}
WrapperHolds(i, j) == wrap[i].pc \in Holding /\ Successor(i) = j
CommandHolds(c, j) == coord[c].pc \in Holding /\ coord[c].job = j

Claimed == \A j \in Jobs : row[j].status = "scheduling" => Submitting(j)
Free ==
  \A j \in Jobs : row[j].status = "pending" => Submissions(j) = {} /\ ~Submitting(j)
Once == \A j \in Jobs : \A i, m \in Submissions(j) : i = m
OneClaim ==
  \A j \in Jobs, c \in Coords :
    CommandHolds(c, j) => /\ \A d \in Coords : CommandHolds(d, j) => c = d
                          /\ \A i \in SlurmIds : ~WrapperHolds(i, j)
WrapperSubmits ==
  \A i \in SlurmIds :
    /\ wrap[i].pc = "sbatch" => Submissions(Successor(i)) = {}
    /\ wrap[i].pc = "mark" => Submissions(Successor(i)) = {wrap[i].child}
CommandSubmits ==
  \A c \in Coords :
    /\ coord[c].pc = "sbatch" => Submissions(coord[c].job) = {}
    /\ coord[c].pc = "mark" => Submissions(coord[c].job) = {coord[c].child}

ClaimInv ==
  Claimed /\ Free /\ Once /\ OneClaim /\ WrapperSubmits /\ CommandSubmits

Claiming == TypeInv /\ IdsInv /\ Steady /\ ClaimInv

LEMMA SubmittingIs ==
  ASSUME NEW j
  PROVE  Submitting(j) <=> \/ \E i \in SlurmIds : WrapperHolds(i, j)
                           \/ \E c \in Coords : CommandHolds(c, j)
  BY DEF Submitting, WrapperHolds, CommandHolds, Holding

(* The case of a wrapper that holds a claim. *)
LEMMA HolderIs ==
  ASSUME TypeInv, NEW i \in SlurmIds
  PROVE  /\ wrap[i].pc # "off" => /\ slurm[i].state = "RUNNING" /\ Case(i) \in Jobs
                                  /\ i \in Submissions(Case(i))
         /\ wrap[i].pc \in Holding => Successor(i) \in Jobs
  <1>1. WrapGood(wrap[i], slurm[i])
    BY DEF TypeInv, Structure
  <1> QED
    BY <1>1 DEF WrapGood, Case, Successor, Submissions, Holding

LEMMA OneWrapper ==
  ASSUME TypeInv, Once, NEW i \in SlurmIds, NEW m \in SlurmIds, NEW j,
         WrapperHolds(i, j), WrapperHolds(m, j)
  PROVE  i = m
  <1>1. /\ Case(i) \in Jobs /\ i \in Submissions(Case(i))
        /\ Case(m) \in Jobs /\ m \in Submissions(Case(m))
    BY HolderIs DEF WrapperHolds, Holding
  <1>2. Case(i) + K = Case(m) + K
    BY DEF WrapperHolds, Successor
  <1>3. Case(i) = Case(m)
    BY <1>1, <1>2, SizesAssumption DEF Jobs
  <1> QED
    BY <1>1, <1>3 DEF Once

(* The successor of a wrapper that runs does not change. *)
LEMMA SuccessorStays ==
  ASSUME TypeInv, [Next]_vars, NEW i \in SlurmIds, wrap[i].pc # "off"
  PROVE  Successor(i)' = Successor(i)
  <1>1. slurm[i].state # "FREE"
    BY HolderIs
  <1> QED
    BY <1>1, CaseStays DEF Successor

(* What one step may do to the claim of wrapper i. *)
Alone(i) == coord' = coord /\ \A m \in SlurmIds \ {i} : wrap'[m] = wrap[m]
Elsewhere(i) == wrap[i].pc \notin Holding /\ wrap'[i].pc \notin Holding
Wins(i) ==
  /\ wrap[i].pc = "succ" /\ wrap'[i].pc = "sbatch" /\ Alone(i)
  /\ Successor(i) \in Jobs /\ row[Successor(i)].status = "pending"
  /\ row' = ClaimForSubmission(row, Successor(i)) /\ slurm' = slurm
Hands(i) ==
  /\ wrap[i].pc = "sbatch" /\ wrap'[i].pc = "mark" /\ Alone(i)
  /\ wrap'[i].child \in Fresh /\ Enqueue(wrap'[i].child, Successor(i), i)
Drops(i) ==
  /\ wrap[i].pc = "sbatch" /\ wrap'[i].pc \notin Holding /\ Alone(i)
  /\ row' = ReleaseSubmission(row, Successor(i)) /\ slurm' = slurm
Reports(i) ==
  /\ wrap[i].pc = "mark" /\ wrap'[i].pc \notin Holding /\ Alone(i)
  /\ row' = MarkScheduled(row, Successor(i), wrap[i].child) /\ slurm' = slurm

LEMMA WrapperHolding ==
  ASSUME Untroubled, TypeInv, Steady, [Next]_vars, NEW i \in SlurmIds
  PROVE  \/ wrap'[i] = wrap[i] \/ Elsewhere(i) \/ Wins(i) \/ Hands(i) \/ Drops(i) \/ Reports(i)
  <1>w. wrap \in [SlurmIds -> WrapSet] /\ wrap[i] \in WrapSet
    BY DEF TypeInv, TypeOK
  <1>1. ASSUME Wrapper(i)
        PROVE  Elsewhere(i) \/ Wins(i) \/ Hands(i) \/ Drops(i) \/ Reports(i)
    <2>0. Alone(i)
      BY <1>1, <1>w DEF Alone, Wrapper, ReadRow, MissingTemplate, BadConfig, ClaimRun,
         ClaimSuccessor, SubmitSuccessor, MarkSuccessor, RunCase, Finish, Conclude, WriteVerdict,
         Goto, Exit, Return
    <2>e. ASSUME NEW state, Exit(i, state)
          PROVE  wrap'[i].pc \notin Holding
      BY <2>e, <1>w DEF Exit, WrapSet, Holding
    <2>g. ASSUME NEW pc, Goto(i, pc)
          PROVE  wrap'[i].pc = pc
      BY <2>g, <1>w DEF Goto, WrapSet
    <2>r. ASSUME NEW done, Return(i, done)
          PROVE  wrap'[i].pc \notin Holding
      BY <2>r, <1>w DEF Return, WrapSet, Holding
    <2>1. CASE ReadRow(i) \/ MissingTemplate(i)
      BY <2>1, <2>e, <2>g DEF ReadRow, MissingTemplate, Elsewhere, Holding
    <2>2. CASE BadConfig(i) \/ ClaimRun(i) \/ RunCase(i)
      <3>1. CASE BadConfig(i)
        BY <3>1, <1>w DEF BadConfig, Elsewhere, Holding, WrapSet
      <3>2. CASE ClaimRun(i)
        BY <3>2, <2>e, <1>w DEF ClaimRun, Elsewhere, Holding, WrapSet
      <3>3. CASE RunCase(i)
        BY <3>3, <1>w DEF RunCase, Elsewhere, Holding, WrapSet
      <3> QED
        BY <2>2, <3>1, <3>2, <3>3
    <2>3. CASE Finish(i) \/ Conclude(i) \/ WriteVerdict(i)
      BY <2>3, <2>e, <2>g DEF Finish, Conclude, WriteVerdict, Elsewhere, Holding, Verdict, RunVerdicts
    <2>4. CASE ClaimSuccessor(i)
      <3>1. CASE Successor(i) \in WithStatus(row, {"pending"})
        <4>1. Successor(i) \in Jobs /\ row[Successor(i)].status = "pending"
          BY <3>1 DEF WithStatus, TypeInv, TypeOK
        <4> QED
          BY <2>4, <3>1, <4>1, <2>0, <2>g DEF ClaimSuccessor, Wins
      <3>2. CASE Successor(i) \notin WithStatus(row, {"pending"})
        BY <2>4, <3>2, <2>r DEF ClaimSuccessor, Elsewhere, Holding
      <3> QED
        BY <3>1, <3>2
    <2>5. CASE SubmitSuccessor(i)
      <3>1. ASSUME NEW id \in Fresh, Enqueue(id, Successor(i), i),
                   wrap' = [wrap EXCEPT ![i].pc = "mark", ![i].child = id]
            PROVE  Hands(i)
        <4>1. wrap'[i].pc = "mark" /\ wrap'[i].child = id
          BY <3>1, <1>w DEF WrapSet
        <4> QED
          BY <2>5, <3>1, <4>1, <2>0 DEF SubmitSuccessor, Hands
      <3> QED
        BY <2>5, <3>1, <2>0, <2>r DEF SubmitSuccessor, Drops
    <2>6. CASE MarkSuccessor(i)
      BY <2>6, <2>0, <2>r DEF MarkSuccessor, Reports
    <2> QED
      BY <1>1, <2>1, <2>2, <2>3, <2>4, <2>5, <2>6 DEF Wrapper
  <1>2. ASSUME NEW m \in SlurmIds, Wrapper(m), m # i
        PROVE  wrap'[i] = wrap[i]
    BY <1>2, <1>w DEF Wrapper, ReadRow, MissingTemplate, BadConfig, ClaimRun, ClaimSuccessor,
       SubmitSuccessor, MarkSuccessor, RunCase, Finish, Conclude, WriteVerdict, Goto, Exit, Return
  <1>3. ASSUME NEW m \in SlurmIds, Start(m)
        PROVE  wrap'[i] = wrap[i] \/ Elsewhere(i)
    <2>1. CASE m = i
      <3>1. wrap[i].pc = "off"
        BY <1>3, <2>1, HolderIs DEF Start
      <3> QED
        BY <1>3, <2>1, <3>1, <1>w DEF Start, Elsewhere, Holding, WrapSet
    <2> QED
      BY <1>3, <2>1, <1>w DEF Start
  <1>4. \A m \in SlurmIds : ~Kill(m)
    BY DEF Untroubled, Kill, Fault
  <1>5. \A c \in Coords : ~Scancel(c)
    BY DEF Steady, Scancel, At, Cancelling
  <1> QED
    BY <1>1, <1>2, <1>3, <1>4, <1>5 DEF Next, vars, ClaimAges, Crash,
       StartWatch, StartResume, StartCancel, Coordinator, Begin, Top, Recover, Reset, Seed, Repair,
       List, Pick, Sbatch, Mark, Snapshot, Query, Apply, Settle, Finalize, RecordVerdict, Check,
       CancelRows, CancelScan, CancelMark, CancelEnd

(* What one step may do to the claim of coordinator c. *)
Parted(c) ==
  /\ coord[c].pc = "sbatch" => slurm' = slurm /\ row' = ReleaseSubmission(row, coord[c].job)
  /\ coord[c].pc = "mark" =>
       slurm' = slurm /\ row' = MarkScheduled(row, coord[c].job, coord[c].child)
  /\ coord'[c].pc \notin Holding

LEMMA CommandHolding ==
  ASSUME Untroubled, TypeInv, [Next]_vars, NEW c \in Coords
  PROVE  coord'[c] = coord[c] \/ Parted(c) \/ Picks(c) \/ Submits(c)
  <1>1. "crash" \notin Faults
    BY DEF Untroubled
  <1> QED
    BY <1>1, CommandTurn DEF CoordTurn, Walks, Resets, Snaps, Asks, Takes, Parted, Holding,
       Attentive, Polling

(* Wrappers keep their claims while a coordinator moves. *)
LEMMA CommandAlone ==
  ASSUME Untroubled, TypeInv, Steady, [Next]_vars, NEW c \in Coords, coord'[c] # coord[c]
  PROVE  /\ \A d \in Coords \ {c} : coord'[d] = coord[d]
         /\ \A i \in SlurmIds : wrap'[i] = wrap[i] \/ Elsewhere(i)
  BY OneMoves, WrapperHolding DEF Wins, Hands, Drops, Reports, Alone

(* A case gets a job from the one that holds its claim, and from nobody     *)
(* else.                                                                    *)
LEMMA HandedBy ==
  ASSUME Untroubled, TypeInv, Steady, [Next]_vars, NEW i \in SlurmIds, Handed(i)
  PROVE  \/ \E m \in SlurmIds : Hands(m) /\ wrap'[m].child = i
         \/ \E c \in Coords : Submits(c) /\ coord'[c].child = i
  <1>s. slurm \in [SlurmIds -> SlurmSet] /\ wrap \in [SlurmIds -> WrapSet]
        /\ coord \in [Coords -> CoordSet]
    BY DEF TypeInv, TypeOK
  <1>e. ASSUME NEW id \in Fresh, NEW j, NEW dep, Enqueue(id, j, dep)
        PROVE  id = i
    BY <1>e, <1>s DEF Enqueue, Handed
  <1>1. ASSUME NEW m \in SlurmIds, Wrapper(m)
        PROVE  Hands(m) /\ wrap'[m].child = i
    <2>1. ASSUME NEW state, Exit(m, state)
          PROVE  FALSE
      <3>1. m = i
        BY <2>1, <1>s DEF Exit, Handed
      <3>2. wrap[i].pc = "off"
        BY HolderIs DEF Handed
      <3> QED
        BY <1>1, <3>1, <3>2 DEF Wrapper, ReadRow, MissingTemplate, BadConfig, ClaimRun,
           ClaimSuccessor, SubmitSuccessor, MarkSuccessor, RunCase, Finish, Conclude,
           WriteVerdict, RunVerdicts
    <2>2. SubmitSuccessor(m) /\ slurm' # slurm
      BY <1>1, <2>1 DEF Wrapper, ReadRow, MissingTemplate, BadConfig, ClaimRun, ClaimSuccessor,
         MarkSuccessor, RunCase, Finish, Conclude, WriteVerdict, Handed
    <2>3. PICK id \in Fresh : /\ Enqueue(id, Successor(m), m)
                              /\ wrap' = [wrap EXCEPT ![m].pc = "mark", ![m].child = id]
      BY <2>2 DEF SubmitSuccessor
    <2>4. wrap[m].pc = "sbatch" /\ wrap'[m].pc = "mark" /\ wrap'[m].child = id
      <3>1. wrap[m] \in WrapSet /\ wrap'[m] = [wrap[m] EXCEPT !.pc = "mark", !.child = id]
        BY <2>3, <1>s
      <3> QED
        BY <2>2, <3>1 DEF SubmitSuccessor, WrapSet
    <2>5. id = i
      BY <2>3, <1>e
    <2>6. Hands(m)
      BY <2>4, WrapperHolding DEF Elsewhere, Wins, Drops, Reports, Holding
    <2> QED
      BY <2>4, <2>5, <2>6
  <1>2. ASSUME NEW c \in Coords, Coordinator(c)
        PROVE  Submits(c) /\ coord'[c].child = i
    <2>1. Sbatch(c) /\ slurm' # slurm
      BY <1>2 DEF Steady, Cancelling, Coordinator, Begin, Top, Recover, Reset, Seed, Repair,
         List, Pick, Mark, Snapshot, Query, Apply, Settle, Finalize, RecordVerdict, Check,
         CancelRows, CancelScan, Scancel, CancelMark, CancelEnd, At, Handed
    <2>2. PICK id \in Fresh : /\ Enqueue(id, coord[c].job, coord[c].dep) /\ row' = row
                              /\ Set(c, [coord[c] EXCEPT !.pc = "mark", !.child = id])
      BY <2>1 DEF Sbatch
    <2>3. coord[c].pc = "sbatch" /\ coord'[c] = [coord[c] EXCEPT !.pc = "mark", !.child = id]
      BY <2>1, <2>2, <1>s DEF Sbatch, At, Set
    <2>4. coord'[c].pc = "mark" /\ coord'[c].child = id /\ coord'[c].job = coord[c].job
      BY <2>3, <1>s DEF CoordSet
    <2> QED
      BY <2>2, <2>3, <2>4, <1>e DEF Submits
  <1>3. ASSUME NEW m \in SlurmIds, Start(m) \/ Kill(m)
        PROVE  FALSE
    BY <1>3, <1>s DEF Start, Kill, Handed, Untroubled, Fault
  <1> QED
    BY <1>1, <1>2, <1>3 DEF Next, vars, ClaimAges, Crash, StartWatch, StartResume, StartCancel,
       Handed

(* A job keeps its case, unless it is handed out. *)
LEMMA JobKept ==
  ASSUME TypeInv, [Next]_vars, NEW i \in SlurmIds, ~Handed(i)
  PROVE  slurm'[i].job = slurm[i].job /\ slurm'[i].dep = slurm[i].dep
  <1>1. slurm[i] \in SlurmSet
    BY DEF TypeInv, TypeOK
  <1> QED
    BY <1>1, JobTurn DEF Turn, Stays, Begins, Stopped, Reads, Leaves, Unfit, Spoils, Claims,
       Works, Runs, Finishes, Judges, Ends, Goes, Becomes, SlurmSet

(* What a submission adds. *)
LEMMA Enqueued ==
  ASSUME TypeInv, NEW id \in Fresh, NEW m \in Jobs, NEW dep, Enqueue(id, m, dep), NEW j \in Jobs
  PROVE  Submissions(j)' = Submissions(j) \union (IF j = m THEN {id} ELSE {})
  <1>1. slurm \in [SlurmIds -> SlurmSet] /\ id \in SlurmIds /\ slurm[id].job = 0
    BY DEF TypeInv, TypeOK, Structure, WrapGood, Fresh
  <1>2. \A i \in SlurmIds : slurm'[i].job = IF i = id THEN m ELSE slurm[i].job
    BY <1>1 DEF Enqueue, SlurmSet
  <1> QED
    BY <1>1, <1>2 DEF Submissions, Jobs

LEMMA Growth ==
  ASSUME Untroubled, TypeInv, Steady, [Next]_vars, NEW j \in Jobs
  PROVE  \/ Submissions(j)' = Submissions(j)
         \/ \E i \in SlurmIds : /\ Hands(i) /\ Successor(i) = j
                                /\ Submissions(j)' = Submissions(j) \union {wrap'[i].child}
         \/ \E c \in Coords : /\ Submits(c) /\ coord[c].job = j
                              /\ Submissions(j)' = Submissions(j) \union {coord'[c].child}
  <1>1. CASE \A i \in SlurmIds : ~Handed(i)
    BY <1>1, JobKept DEF Submissions
  <1>2. ASSUME NEW m \in SlurmIds, Hands(m)
        PROVE  \/ Submissions(j)' = Submissions(j)
               \/ /\ Successor(m) = j
                  /\ Submissions(j)' = Submissions(j) \union {wrap'[m].child}
    <2>1. Successor(m) \in Jobs
      BY <1>2, HolderIs DEF Hands, Holding
    <2> QED
      BY <1>2, <2>1, Enqueued DEF Hands
  <1>3. ASSUME NEW c \in Coords, Submits(c)
        PROVE  \/ Submissions(j)' = Submissions(j)
               \/ /\ coord[c].job = j
                  /\ Submissions(j)' = Submissions(j) \union {coord'[c].child}
    <2>1. coord[c].job \in Jobs
      BY <1>3 DEF Submits, TypeInv, Structure, CoordGood
    <2> QED
      BY <1>3, <2>1, Enqueued DEF Submits
  <1> QED
    BY <1>1, <1>2, <1>3, HandedBy

(* A row somebody has claimed or submitted is not claimed again. *)
LEMMA HoldersOf ==
  ASSUME Untroubled, Claiming, [Next]_vars, NEW j \in Jobs, row[j].status # "pending"
  PROVE  /\ \A i \in SlurmIds : WrapperHolds(i, j)' => WrapperHolds(i, j)
         /\ \A c \in Coords : CommandHolds(c, j)' => CommandHolds(c, j)
  <1>1. ASSUME NEW i \in SlurmIds, WrapperHolds(i, j)'
        PROVE  WrapperHolds(i, j)
    <2>1. wrap'[i].pc \in Holding /\ Successor(i)' = j
      BY <1>1 DEF WrapperHolds, Holding
    <2>2. wrap'[i] = wrap[i] \/ Wins(i) \/ Hands(i)
      BY <2>1, WrapperHolding DEF Claiming, Elsewhere, Drops, Reports
    <2>3. wrap[i].pc # "off"
      BY <2>1, <2>2 DEF Wins, Hands, Holding
    <2>4. Successor(i) = j
      BY <2>1, <2>3, SuccessorStays DEF Claiming
    <2> QED
      BY <2>1, <2>2, <2>4 DEF WrapperHolds, Wins, Hands, Holding
  <1>2. ASSUME NEW c \in Coords, CommandHolds(c, j)'
        PROVE  CommandHolds(c, j)
    <2>1. coord'[c].pc \in Holding /\ coord'[c].job = j
      BY <1>2 DEF CommandHolds, Holding
    <2> QED
      BY <2>1, CommandHolding DEF Claiming, CommandHolds, Parted, Picks, Submits, Holding
  <1> QED
    BY <1>1, <1>2

(* A pending row is claimed by one process at most. *)
LEMMA HoldersOfPending ==
  ASSUME Untroubled, Claiming, [Next]_vars, NEW j \in Jobs, row[j].status = "pending"
  PROVE  \/ ~Submitting(j)'
         \/ \E i \in SlurmIds : /\ Wins(i) /\ Successor(i) = j
                                /\ \A m \in SlurmIds : WrapperHolds(m, j)' => m = i
                                /\ \A c \in Coords : ~CommandHolds(c, j)'
         \/ \E c \in Coords : /\ Picks(c) /\ coord'[c].job = j
                              /\ \A d \in Coords : CommandHolds(d, j)' => d = c
                              /\ \A i \in SlurmIds : ~WrapperHolds(i, j)'
  <1>0. /\ \A i \in SlurmIds : ~WrapperHolds(i, j)
        /\ \A c \in Coords : ~CommandHolds(c, j)
    BY SubmittingIs DEF Claiming, ClaimInv, Free
  <1>1. ASSUME NEW i \in SlurmIds, WrapperHolds(i, j)'
        PROVE  Wins(i) /\ Successor(i) = j
    <2>1. wrap'[i].pc \in Holding /\ Successor(i)' = j
      BY <1>1 DEF WrapperHolds, Holding
    <2>2. wrap'[i] = wrap[i] \/ Wins(i) \/ Hands(i)
      BY <2>1, WrapperHolding DEF Claiming, Elsewhere, Drops, Reports
    <2>3. wrap[i].pc # "off"
      BY <2>1, <2>2 DEF Wins, Hands, Holding
    <2>4. Successor(i) = j
      BY <2>1, <2>3, SuccessorStays DEF Claiming
    <2> QED
      BY <1>0, <2>1, <2>2, <2>4 DEF WrapperHolds, Hands, Holding
  <1>2. ASSUME NEW c \in Coords, CommandHolds(c, j)'
        PROVE  Picks(c) /\ coord'[c].job = j /\ coord'[c] # coord[c]
    <2>1. coord'[c].pc \in Holding /\ coord'[c].job = j
      BY <1>2 DEF CommandHolds, Holding
    <2> QED
      BY <1>0, <2>1, CommandHolding DEF Claiming, CommandHolds, Parted, Picks, Submits, Holding
  <1>3. ASSUME NEW i \in SlurmIds, WrapperHolds(i, j)'
        PROVE  /\ \A m \in SlurmIds : WrapperHolds(m, j)' => m = i
               /\ \A c \in Coords : ~CommandHolds(c, j)'
    <2>1. Alone(i)
      BY <1>3, <1>1 DEF Wins
    <2>2. ASSUME NEW m \in SlurmIds, WrapperHolds(m, j)', m # i
          PROVE  FALSE
      BY <2>1, <2>2, <1>1 DEF Alone, Wins
    <2> QED
      BY <2>1, <2>2, <1>2 DEF Alone
  <1>4. ASSUME NEW c \in Coords, CommandHolds(c, j)'
        PROVE  \A d \in Coords : CommandHolds(d, j)' => d = c
    BY <1>4, <1>2, CommandAlone DEF Claiming
  <1>5. Submitting(j)' <=> \/ \E i \in SlurmIds : WrapperHolds(i, j)'
                           \/ \E c \in Coords : CommandHolds(c, j)'
    BY DEF Submitting, WrapperHolds, CommandHolds, Holding
  <1> QED
    BY <1>1, <1>2, <1>3, <1>4, <1>5

LEMMA ClaimedStep ==
  ASSUME Untroubled, Claiming, [Next]_vars
  PROVE  Claimed'
  <1> SUFFICES ASSUME NEW j \in Jobs, row'[j].status = "scheduling"
               PROVE  Submitting(j)'
    BY DEF Claimed
  <1>t. TypeInv /\ Steady /\ row \in [Jobs -> RowSet(SlurmIds)]
    BY DEF Claiming, TypeInv, TypeOK
  <1>1. row[j].status = "scheduling" \/ Taken(j)
    BY <1>t, CaseTurn DEF RowTurn, RowStays, Released, Recorded, Executed, Over, Undone,
       Written, Moves, NewRow, TERMINAL_STATUSES
  <1>s. Submitting(j)' <=> \/ \E i \in SlurmIds : wrap'[i].pc \in Holding /\ Successor(i)' = j
                           \/ \E c \in Coords : coord'[c].pc \in Holding /\ coord'[c].job = j
    BY DEF Submitting, Holding
  <1>2. CASE Taken(j)
    <2>1. ASSUME NEW i \in SlurmIds, wrap[i].pc = "succ", Successor(i) = j, wrap'[i].pc = "sbatch"
          PROVE  Submitting(j)'
      BY <2>1, <1>t, <1>s, SuccessorStays DEF Holding
    <2>2. ASSUME NEW c \in Coords, Picks(c), coord'[c].job = j
          PROVE  Submitting(j)'
      BY <2>2, <1>s DEF Picks, Holding
    <2> QED
      BY <1>2, <2>1, <2>2 DEF Taken
  <1>3. CASE row[j].status = "scheduling"
    <2>0. Submitting(j)
      BY <1>3 DEF Claiming, ClaimInv, Claimed
    <2>r. /\ row' # ReleaseSubmission(row, j)
          /\ \A id : row' # MarkScheduled(row, j, id)
      BY <1>3, <1>t DEF ReleaseSubmission, MarkScheduled, Transition, RowSet
    <2>1. ASSUME NEW i \in SlurmIds, WrapperHolds(i, j)
          PROVE  Submitting(j)'
      <3>1. wrap'[i].pc \in Holding
        BY <2>1, <2>r, <1>t, WrapperHolding
           DEF WrapperHolds, Elsewhere, Wins, Hands, Drops, Reports, Holding
      <3>2. Successor(i)' = j
        BY <2>1, <1>t, SuccessorStays DEF WrapperHolds, Holding
      <3> QED
        BY <3>1, <3>2, <1>s
    <2>2. ASSUME NEW c \in Coords, CommandHolds(c, j)
          PROVE  Submitting(j)'
      <3>1. coord'[c].pc \in Holding /\ coord'[c].job = j
        BY <2>2, <2>r, <1>t, CommandHolding DEF CommandHolds, Parted, Picks, Submits, Holding
      <3> QED
        BY <3>1, <1>s
    <2> QED
      BY <2>0, <2>1, <2>2, SubmittingIs
  <1> QED
    BY <1>1, <1>2, <1>3

LEMMA FreeStep ==
  ASSUME Untroubled, Claiming, [Next]_vars
  PROVE  Free'
  <1> SUFFICES ASSUME NEW j \in Jobs, row'[j].status = "pending"
               PROVE  Submissions(j)' = {} /\ ~Submitting(j)'
    BY DEF Free
  <1>t. TypeInv /\ Steady /\ row \in [Jobs -> RowSet(SlurmIds)]
    BY DEF Claiming, TypeInv, TypeOK
  <1>1. row[j].status = "pending" \/ Released(j)
    BY <1>t, CaseTurn DEF RowTurn, RowStays, Taken, Recorded, Executed, Over, Undone, Written,
       Moves, TERMINAL_STATUSES, Steady
  <1>s. ASSUME \A i \in SlurmIds : ~WrapperHolds(i, j)', \A c \in Coords : ~CommandHolds(c, j)'
        PROVE  ~Submitting(j)'
    BY <1>s DEF Submitting, WrapperHolds, CommandHolds, Holding
  <1>2. CASE row[j].status = "pending"
    <2>1. /\ Submissions(j) = {}
          /\ \A i \in SlurmIds : ~WrapperHolds(i, j)
          /\ \A c \in Coords : ~CommandHolds(c, j)
      BY <1>2, SubmittingIs DEF Claiming, ClaimInv, Free
    <2>2. Submissions(j)' = {}
      BY <2>1, <1>t, Growth DEF Hands, Submits, WrapperHolds, CommandHolds, Holding
    <2>3. row' # ClaimForSubmission(row, j)
      BY <1>2, <1>t DEF ClaimForSubmission, Transition, RowSet
    <2>4. ~Submitting(j)'
      BY <1>2, <2>3, HoldersOfPending DEF Wins, Picks
    <2> QED
      BY <2>2, <2>4
  <1>3. CASE Released(j)
    <2>0. row[j].status # "pending" /\ slurm' = slurm
      BY <1>3 DEF Released, Moves
    <2>h. /\ \A i \in SlurmIds : WrapperHolds(i, j)' => WrapperHolds(i, j)
          /\ \A c \in Coords : CommandHolds(c, j)' => CommandHolds(c, j)
      BY <2>0, HoldersOf
    <2>1. ASSUME NEW i \in SlurmIds, wrap[i].pc = "sbatch", Successor(i) = j,
                 wrap'[i].pc \notin Holding
          PROVE  Submissions(j) = {} /\ ~Submitting(j)'
      <3>1. Submissions(j) = {} /\ WrapperHolds(i, j)
        BY <2>1 DEF Claiming, ClaimInv, WrapperSubmits, WrapperHolds, Holding
      <3>2. \A m \in SlurmIds : WrapperHolds(m, j) => m = i
        BY <3>1, OneWrapper DEF Claiming, ClaimInv
      <3>3. \A c \in Coords : ~CommandHolds(c, j)
        BY <3>1 DEF Claiming, ClaimInv, OneClaim
      <3>4. ~WrapperHolds(i, j)'
        BY <2>1 DEF WrapperHolds, Holding
      <3> QED
        BY <3>1, <3>2, <3>3, <3>4, <2>h, <1>s
    <2>2. ASSUME NEW c \in Coords, coord[c].pc = "sbatch", coord[c].job = j,
                 coord'[c].pc \notin Holding
          PROVE  Submissions(j) = {} /\ ~Submitting(j)'
      <3>1. Submissions(j) = {} /\ CommandHolds(c, j)
        BY <2>2 DEF Claiming, ClaimInv, CommandSubmits, CommandHolds, Holding
      <3>2. /\ \A d \in Coords : CommandHolds(d, j) => d = c
            /\ \A i \in SlurmIds : ~WrapperHolds(i, j)
        BY <3>1 DEF Claiming, ClaimInv, OneClaim
      <3>3. ~CommandHolds(c, j)'
        BY <2>2 DEF CommandHolds, Holding
      <3> QED
        BY <3>1, <3>2, <3>3, <2>h, <1>s
    <2>3. Submissions(j) = {} /\ ~Submitting(j)'
      BY <1>3, <2>1, <2>2 DEF Released, Holding, Attentive
    <2> QED
      BY <2>0, <2>3 DEF Submissions
  <1> QED
    BY <1>1, <1>2, <1>3

LEMMA OnceStep ==
  ASSUME Untroubled, Claiming, [Next]_vars
  PROVE  Once'
  <1> SUFFICES ASSUME NEW j \in Jobs
               PROVE  \A i, m \in Submissions(j)' : i = m
    BY DEF Once
  <1>1. CASE Submissions(j)' = Submissions(j)
    BY <1>1 DEF Claiming, ClaimInv, Once
  <1>2. ASSUME Submissions(j) = {}, NEW id, Submissions(j)' = Submissions(j) \union {id}
        PROVE  \A i, m \in Submissions(j)' : i = m
    BY <1>2
  <1>3. ASSUME NEW i \in SlurmIds, Hands(i), Successor(i) = j
        PROVE  Submissions(j) = {}
    BY <1>3 DEF Claiming, ClaimInv, WrapperSubmits, Hands
  <1>4. ASSUME NEW c \in Coords, Submits(c), coord[c].job = j
        PROVE  Submissions(j) = {}
    BY <1>4 DEF Claiming, ClaimInv, CommandSubmits, Submits
  <1> QED
    BY <1>1, <1>2, <1>3, <1>4, Growth DEF Claiming

LEMMA OneClaimStep ==
  ASSUME Untroubled, Claiming, [Next]_vars
  PROVE  OneClaim'
  <1> SUFFICES ASSUME NEW j \in Jobs, NEW c \in Coords, CommandHolds(c, j)'
               PROVE  /\ \A d \in Coords : CommandHolds(d, j)' => c = d
                      /\ \A i \in SlurmIds : ~WrapperHolds(i, j)'
    BY DEF OneClaim
  <1>1. CASE row[j].status # "pending"
    BY <1>1, HoldersOf DEF Claiming, ClaimInv, OneClaim
  <1>2. CASE row[j].status = "pending"
    <2>1. Submitting(j)'
      BY DEF Submitting, CommandHolds, Holding
    <2> QED
      BY <1>2, <2>1, HoldersOfPending
  <1> QED
    BY <1>1, <1>2

(* While a claim is held, nobody else submits the case. *)
LEMMA HeldByWrapper ==
  ASSUME Untroubled, Claiming, [Next]_vars, NEW i \in SlurmIds, NEW j, WrapperHolds(i, j), ~Hands(i)
  PROVE  Submissions(j)' = Submissions(j)
  <1>1. j \in Jobs
    BY HolderIs DEF Claiming, WrapperHolds
  <1>2. ASSUME NEW m \in SlurmIds, Hands(m), Successor(m) = j
        PROVE  FALSE
    <2>1. WrapperHolds(m, j)
      BY <1>2 DEF Hands, WrapperHolds, Holding
    <2> QED
      BY <1>2, <2>1, OneWrapper DEF Claiming, ClaimInv
  <1>3. ASSUME NEW c \in Coords, Submits(c), coord[c].job = j
        PROVE  FALSE
    BY <1>1, <1>3 DEF Claiming, ClaimInv, OneClaim, CommandHolds, Submits, Holding
  <1> QED
    BY <1>1, <1>2, <1>3, Growth DEF Claiming

LEMMA HeldByCommand ==
  ASSUME Untroubled, Claiming, [Next]_vars, NEW c \in Coords, NEW j, CommandHolds(c, j), ~Submits(c)
  PROVE  Submissions(j)' = Submissions(j)
  <1>1. j \in Jobs
    BY DEF Claiming, TypeInv, Structure, CoordGood, CommandHolds, Holding
  <1>2. ASSUME NEW m \in SlurmIds, Hands(m), Successor(m) = j
        PROVE  FALSE
    BY <1>1, <1>2 DEF Claiming, ClaimInv, OneClaim, WrapperHolds, Hands, Holding
  <1>3. ASSUME NEW d \in Coords, Submits(d), coord[d].job = j
        PROVE  FALSE
    <2>1. CommandHolds(d, j)
      BY <1>3 DEF CommandHolds, Submits, Holding
    <2> QED
      BY <1>1, <1>3, <2>1 DEF Claiming, ClaimInv, OneClaim
  <1> QED
    BY <1>1, <1>2, <1>3, Growth DEF Claiming

LEMMA WrapperSubmitsStep ==
  ASSUME Untroubled, Claiming, [Next]_vars
  PROVE  WrapperSubmits'
  <1> SUFFICES ASSUME NEW i \in SlurmIds, NEW j, wrap'[i].pc \in Holding, Successor(i)' = j
               PROVE  /\ wrap'[i].pc = "sbatch" => Submissions(j)' = {}
                      /\ wrap'[i].pc = "mark" => Submissions(j)' = {wrap'[i].child}
    BY DEF WrapperSubmits, Submissions, Holding
  <1>1. wrap'[i] = wrap[i] \/ Wins(i) \/ Hands(i)
    BY WrapperHolding DEF Claiming, Elsewhere, Drops, Reports
  <1>2. wrap[i].pc # "off"
    BY <1>1 DEF Wins, Hands, Holding
  <1>3. Successor(i) = j
    BY <1>2, SuccessorStays DEF Claiming
  <1>4. CASE wrap'[i] = wrap[i]
    <2>1. WrapperHolds(i, j) /\ ~Hands(i)
      BY <1>3, <1>4 DEF WrapperHolds, Hands
    <2>2. Submissions(j)' = Submissions(j)
      BY <2>1, HeldByWrapper
    <2> QED
      BY <1>3, <1>4, <2>2 DEF Claiming, ClaimInv, WrapperSubmits
  <1>5. CASE Wins(i)
    <2>1. Submissions(j) = {} /\ slurm' = slurm /\ wrap'[i].pc = "sbatch"
      BY <1>3, <1>5 DEF Wins, Claiming, ClaimInv, Free
    <2> QED
      BY <2>1 DEF Submissions
  <1>6. CASE Hands(i)
    <2>1. Submissions(j) = {} /\ wrap'[i].pc = "mark" /\ j \in Jobs
      BY <1>3, <1>6, HolderIs DEF Hands, Claiming, ClaimInv, WrapperSubmits, Holding
    <2>2. Submissions(j)' = Submissions(j) \union {wrap'[i].child}
      BY <1>3, <1>6, <2>1, Enqueued DEF Hands, Claiming
    <2> QED
      BY <2>1, <2>2
  <1> QED
    BY <1>1, <1>4, <1>5, <1>6

LEMMA CommandSubmitsStep ==
  ASSUME Untroubled, Claiming, [Next]_vars
  PROVE  CommandSubmits'
  <1> SUFFICES ASSUME NEW c \in Coords, NEW j, coord'[c].pc \in Holding, coord'[c].job = j
               PROVE  /\ coord'[c].pc = "sbatch" => Submissions(j)' = {}
                      /\ coord'[c].pc = "mark" => Submissions(j)' = {coord'[c].child}
    BY DEF CommandSubmits, Submissions, Holding
  <1>1. coord'[c] = coord[c] \/ Picks(c) \/ Submits(c)
    BY CommandHolding DEF Claiming, Parted
  <1>2. CASE coord'[c] = coord[c]
    <2>1. CommandHolds(c, j) /\ ~Submits(c)
      BY <1>2 DEF CommandHolds, Submits
    <2>2. Submissions(j)' = Submissions(j)
      BY <2>1, HeldByCommand
    <2> QED
      BY <1>2, <2>2 DEF Claiming, ClaimInv, CommandSubmits
  <1>3. CASE Picks(c)
    <2>1. Submissions(j) = {} /\ slurm' = slurm /\ coord'[c].pc = "sbatch"
      BY <1>3 DEF Picks, Claiming, ClaimInv, Free
    <2> QED
      BY <2>1 DEF Submissions
  <1>4. CASE Submits(c)
    <2>1. Submissions(j) = {} /\ coord'[c].pc = "mark" /\ coord[c].job = j /\ j \in Jobs
      BY <1>4 DEF Submits, Claiming, ClaimInv, CommandSubmits, TypeInv, Structure, CoordGood
    <2>2. Submissions(j)' = Submissions(j) \union {coord'[c].child}
      BY <1>4, <2>1, Enqueued DEF Submits, Claiming
    <2> QED
      BY <2>1, <2>2
  <1> QED
    BY <1>1, <1>2, <1>3, <1>4

LEMMA SteadyStep ==
  ASSUME Untroubled, Claiming, [Next]_vars
  PROVE  Steady' \/ \E c \in Coords : CancelRows(c)
  <1> SUFFICES ASSUME \A c \in Coords : ~CancelRows(c)
               PROVE  Steady'
    OBVIOUS
  <1>1. ~Fault("resume") /\ ~Fault("slow")
    BY DEF Untroubled, Fault
  <1>2. ASSUME NEW c \in Coords
        PROVE  coord'[c].op # "resume"
    <2>1. Forgets(c) \/ Counts(c)
      BY PollsCounted DEF Claiming
    <2> QED
      BY <1>1, <2>1 DEF Forgets, Counts, Claiming, Steady
  <1>3. ASSUME NEW c \in Coords
        PROVE  coord'[c].pc \notin Cancelling \union {"reset"}
    <2>1. CoordTurn(c)
      BY CommandTurn DEF Claiming
    <2> QED
      BY <1>1, <2>1 DEF CoordTurn, Walks, Resets, Picks, Submits, Snaps, Asks, Takes, Claiming,
         Steady, Attentive, Polling, Cancelling
  <1>4. ASSUME NEW j \in Jobs, row'[j].stale
        PROVE  FALSE
    <2>1. row[j].stale \/ ClaimAges(j)
      BY <1>4, Ageing DEF Claiming
    <2> QED
      BY <1>1, <2>1 DEF Claiming, Steady, ClaimInv, Claimed, ClaimAges
  <1> QED
    BY <1>2, <1>3, <1>4 DEF Steady

LEMMA InitialClaims == Init => Steady /\ ClaimInv
  <1> SUFFICES ASSUME Init
               PROVE  Steady /\ ClaimInv
    OBVIOUS
  <1>1. /\ \A j \in Jobs : row[j] = NewRow
        /\ \A i \in SlurmIds : slurm[i] = NoSlurm /\ wrap[i] = NoWrap
    BY DEF Init
  <1>2. \A c \in Coords : /\ coord[c].op \in {"submit", "none"}
                          /\ coord[c].pc \in {"begin", "idle"}
    BY DEF Init, NoCoord
  <1>3. \A j \in Jobs : Submissions(j) = {} /\ ~Submitting(j)
    BY <1>1, <1>2, SizesAssumption DEF Submissions, Submitting, NoSlurm, NoWrap, Jobs
  <1> QED
    BY <1>1, <1>2, <1>3 DEF Steady, Cancelling, ClaimInv, Claimed, Free, Once, OneClaim,
       CommandHolds, Holding, WrapperSubmits, CommandSubmits, NewRow, NoWrap

LEMMA ClaimingStep ==
  ASSUME Untroubled, Claiming, [Next]_vars, \A c \in Coords : ~CancelRows(c)
  PROVE  Claiming'
  BY ClaimedStep, FreeStep, OnceStep, OneClaimStep, WrapperSubmitsStep, CommandSubmitsStep,
     SteadyStep, IdsStep DEF Claiming, ClaimInv

(* Without a cancel no command comes to cancel rows.                        *)
NoCancel == \A c \in Coords : coord[c].pc # "cancel_pending"

LEMMA NoCancelHolds ==
  ASSUME Calm
  PROVE  Spec => [](TypeInv /\ NoCancel)
  <1>1. Init => NoCancel
    BY DEF Init, NoCancel, NoCoord
  <1>2. TypeInv /\ NoCancel /\ [Next]_vars => NoCancel'
    BY CommandTurn DEF NoCancel, Calm, CoordTurn, Walks, Resets, Picks, Submits, Snaps, Asks,
       Takes, Polling
  <1> QED
    BY <1>1, <1>2, InitialTypes, NextTypes, PTL DEF Spec

LEMMA NoRowsCancelled ==
  ASSUME NoCancel
  PROVE  \A c \in Coords : ~CancelRows(c)
  BY DEF NoCancel, CancelRows, At

LEMMA ClaimingHolds ==
  ASSUME Calm
  PROVE  Spec => []Claiming
  <1>1. Init => Claiming
    BY InitialTypes, InitialIds, InitialClaims DEF Claiming
  <1>2. NoCancel /\ Claiming /\ [Next]_vars => Claiming'
    BY ClaimingStep, NoRowsCancelled DEF Calm
  <1> QED
    BY <1>1, <1>2, NoCancelHolds, PTL DEF Spec

(* Where nobody who has claimed a row dies, is taken for dead, or has the   *)
(* claim taken away by a resume or a cancel, every case is handed to SLURM  *)
(* at most once: the seed, the wrapper of the case K places before and      *)
(* repair_chain all claim the row first, in one guarded statement, and one  *)
(* of them wins (claim_for_submission).                                     *)
THEOREM SubmittedOnce ==
  ASSUME Calm
  PROVE  Spec => []OneSubmission
  <1>1. Claiming => OneSubmission
    <2> SUFFICES ASSUME Claiming, NEW j \in Jobs
                 PROVE  Cardinality(Submissions(j)) <= 1
      BY DEF OneSubmission
    <2>1. Submissions(j) = {} \/ \E i : Submissions(j) = {i}
      BY DEF Claiming, ClaimInv, Once
    <2>2. CASE Submissions(j) = {}
      BY <2>2, FS_EmptySet
    <2>3. ASSUME NEW i, Submissions(j) = {i}
          PROVE  Cardinality(Submissions(j)) <= 1
      BY <2>3, FS_Singleton
    <2> QED
      BY <2>1, <2>2, <2>3
  <1> QED
    BY <1>1, ClaimingHolds, PTL

(* Ids are undisturbed, too, whatever number of commands is up: none of     *)
(* them resets a row that another one polls.                                *)
THEOREM NoIdCalmly ==
  ASSUME Calm
  PROVE  Spec => []NoIdBeforeSubmission
  <1>1. IdsAreLateInv /\ Claiming /\ [Next]_vars => IdsAreLateInv'
    BY FixedStep, NoIdStep DEF Claiming, Steady, IdsAreLateInv
  <1>2. IdsAreLateInv => NoIdBeforeSubmission
    BY DEF IdsAreLateInv
  <1> QED
    BY <1>1, <1>2, InitialLate, ClaimingHolds, PTL DEF Spec

-----------------------------------------------------------------------------
(* Starts.  A job is over for its successor when it has ended or its        *)
(* wrapper has written the end of its row.                                  *)

Before(e, j) == \E n \in Nat \ {0} : j = e + n * K
GoneJob(i) == slurm[i].state \in SlurmEnded \/ wrap[i].pc \in Ending
Gone(j) == \E i \in Submissions(j) : GoneJob(i)
Idle == {"FREE", "PENDING"}

(* What a job of case j with dependency dep waits for. *)
WaitsFor(j, dep) ==
  j > K => IF dep = NoId THEN Gone(j - K) ELSE dep \in Submissions(j - K)

Started ==
  \A i \in SlurmIds : slurm[i].state \notin Idle =>
    \A e \in Jobs : Before(e, Case(i)) => Gone(e)
Queued == \A i \in SlurmIds : slurm[i].state # "FREE" => WaitsFor(Case(i), slurm[i].dep)
Asked == \A c \in Coords : coord[c].pc = "sbatch" => WaitsFor(coord[c].job, coord[c].dep)
Named == \A j \in Jobs : Terminal(row, j) /\ row[j].slurm_job_id = NoId => Gone(j)
Watched ==
  \A c \in Coords : coord[c].pc \in {"query", "apply", "settle"} =>
    \A j \in coord[c].todo : row[j].slurm_job_id # NoId

StartInv == Started /\ Queued /\ Asked /\ Named /\ Watched

Starting == Claiming /\ SoleInv /\ StartInv

LEMMA GoneStays ==
  ASSUME TypeInv, [Next]_vars, NEW j \in Jobs, Gone(j)
  PROVE  Gone(j)'
  <1>1. PICK i \in Submissions(j) : GoneJob(i)
    BY DEF Gone
  <1>2. i \in SlurmIds /\ i \in Submissions(j)'
    BY SubmissionsGrow DEF Submissions
  <1>3. CASE slurm[i].state \in SlurmEnded
    BY <1>2, <1>3, EndedStays DEF Stays, Gone, GoneJob
  <1>4. CASE wrap[i].pc \in Ending
    <2>1. slurm[i].state = "RUNNING" /\ slurm[i] \in SlurmSet
      BY <1>2, <1>4, HolderIs DEF Ending, RunVerdicts, TypeInv, TypeOK
    <2>2. GoneJob(i)'
      BY <1>2, <1>4, <2>1, JobTurn DEF Turn, Stays, Handed, Begins, Stopped, Reads, Leaves, Unfit,
         Spoils, Claims, Works, Runs, Finishes, Judges, Ends, Goes, Becomes, GoneJob, Ending,
         RunVerdicts, ExitState, SlurmEnded, SlurmSet
    <2> QED
      BY <1>2, <2>2 DEF Gone
  <1> QED
    BY <1>1, <1>3, <1>4 DEF GoneJob

(* The case before. *)
LEMMA Earlier ==
  ASSUME NEW j \in Jobs
  PROVE  /\ j > K => j - K \in Jobs
         /\ \A e \in Jobs : Before(e, j) => j > K /\ (e = j - K \/ Before(e, j - K))
  <1>k. K \in Nat \ {0} /\ N \in Nat \ {0} /\ j \in Int
    BY SizesAssumption DEF Jobs
  <1>1. j > K => j - K \in Jobs
    BY <1>k DEF Jobs
  <1>2. ASSUME NEW e \in Jobs, NEW n \in Nat \ {0}, j = e + n * K
        PROVE  j > K /\ (e = j - K \/ Before(e, j - K))
    <2>1. e \in Nat \ {0}
      BY DEF Jobs
    <2>2. CASE n = 1
      BY <1>k, <1>2, <2>1, <2>2
    <2>3. CASE n # 1
      <3> DEFINE m == n - 1
      <3>1. m \in Nat \ {0} /\ n = m + 1
        BY <1>2, <2>3
      <3> HIDE DEF m
      <3>2. n * K = m * K + K /\ m * K \in Nat
        BY <1>k, <3>1
      <3>3. j > K /\ j - K = e + m * K
        BY <1>k, <1>2, <2>1, <3>2
      <3> QED
        BY <3>1, <3>3 DEF Before
    <2> QED
      BY <2>2, <2>3
  <1> QED
    BY <1>1, <1>2 DEF Before

LEMMA WaitsStays ==
  ASSUME TypeInv, [Next]_vars, NEW j \in Jobs, NEW dep, WaitsFor(j, dep)
  PROVE  WaitsFor(j, dep)'
  <1>1. CASE j > K
    <2>1. j - K \in Jobs
      BY <1>1, Earlier
    <2>2. Gone(j - K) => Gone(j - K)'
      BY <2>1, GoneStays
    <2>3. Submissions(j - K) \subseteq Submissions(j - K)'
      BY <2>1, SubmissionsGrow
    <2> QED
      BY <1>1, <2>2, <2>3 DEF WaitsFor
  <1> QED
    BY <1>1 DEF WaitsFor

(* A row that has an id keeps one. *)
LEMMA IdsStay ==
  ASSUME Untroubled, Claiming, [Next]_vars, NEW j \in Jobs, row[j].slurm_job_id # NoId
  PROVE  row'[j].slurm_job_id # NoId
  <1>1. ~Undone(j)
    BY DEF Undone, Claiming, Steady
  <1>2. NoId \notin SlurmIds
    BY SizesAssumption DEF NoId, SlurmIds
  <1>3. Recorded(j) => row'[j].slurm_job_id \in SlurmIds
    BY DEF Recorded, Claiming, IdsInv, ChildIsSuccessor, Submitted, Owns
  <1>4. Written(j) => row'[j].slurm_job_id \in SlurmIds
    BY DEF Written, Claiming, IdsInv, Polled, Owns
  <1> QED
    BY <1>1, <1>2, <1>3, <1>4, CaseTurn DEF Claiming, RowTurn, RowStays, Taken, Released, Executed,
       Over, Moves

LEMMA WatchedStep ==
  ASSUME Untroubled, Starting, [Next]_vars
  PROVE  Watched'
  <1> SUFFICES ASSUME NEW c \in Coords, coord'[c].pc \in {"query", "apply", "settle"},
                      NEW j \in coord'[c].todo
               PROVE  row'[j].slurm_job_id # NoId
    BY DEF Watched
  <1>t. TypeInv /\ coord \in [Coords -> CoordSet] /\ coord' \in [Coords -> CoordSet]
    BY NextTypes DEF Starting, Claiming, TypeInv, TypeOK
  <1>j. j \in Jobs
    BY <1>t DEF CoordSet
  <1>1. CASE Snaps(c)
    BY <1>1 DEF Snaps, StaleActive
  <1>2. CASE coord'[c] = coord[c] \/ Asks(c) \/ Takes(c)
    <2>1. coord[c].pc \in {"query", "apply", "settle"} /\ j \in coord[c].todo
      BY <1>2 DEF Asks, Takes, Polling
    <2>2. row[j].slurm_job_id # NoId
      BY <2>1 DEF Starting, StartInv, Watched
    <2> QED
      BY <1>j, <2>2, IdsStay DEF Starting
  <1> QED
    BY <1>1, <1>2, <1>t, CommandTurn DEF CoordTurn, Walks, Resets, Picks, Submits, Attentive

LEMMA NamedStep ==
  ASSUME Untroubled, Starting, [Next]_vars, \A c \in Coords : ~CancelRows(c)
  PROVE  Named'
  <1> SUFFICES ASSUME NEW j \in Jobs, Terminal(row, j)', row'[j].slurm_job_id = NoId
               PROVE  Gone(j)'
    BY DEF Named
  <1>t. TypeInv /\ Steady
    BY DEF Starting, Claiming
  <1>0. row[j].slurm_job_id = NoId
    BY IdsStay DEF Starting
  <1>1. CASE Terminal(row, j)
    BY <1>0, <1>1, <1>t, GoneStays DEF Starting, StartInv, Named
  <1>2. CASE Over(j)
    <2>1. ASSUME NEW i \in SlurmIds, Spoils(i) \/ Finishes(i), Case(i) = j
          PROVE  Gone(j)'
      <3>1. i \in Submissions(j)
        BY <2>1, <1>t, HolderIs DEF Spoils, Finishes
      <3>2. i \in Submissions(j)'
        BY <3>1, <1>t, SubmissionsGrow
      <3>3. wrap'[i].pc \in Ending
        BY <2>1 DEF Spoils, Finishes, Goes, Becomes, Ending
      <3> QED
        BY <3>2, <3>3 DEF Gone, GoneJob
    <2>2. ASSUME NEW c \in Coords,
                 \/ coord[c].pc = "settle" /\ coord[c].job = j
                 \/ coord[c].pc = "apply" /\ j \in coord[c].todo
          PROVE  FALSE
      BY <1>0, <2>2 DEF Starting, StartInv, Watched, SoleInv, Settling
    <2>3. \A c \in Coords : ~CancelMark(c)
      BY <1>t DEF Steady, Cancelling, CancelMark, At
    <2> QED
      BY <1>2, <2>1, <2>2, <2>3 DEF Over
  <1>3. CASE ~Terminal(row, j) /\ ~Over(j)
    BY <1>3, <1>t, CaseTurn DEF RowTurn, RowStays, Taken, Released, Recorded, Executed, Undone,
       Written, Moves, Terminal, TERMINAL_STATUSES, NewRow
  <1> QED
    BY <1>1, <1>2, <1>3

LEMMA AskedStep ==
  ASSUME Untroubled, Starting, [Next]_vars
  PROVE  Asked'
  <1> SUFFICES ASSUME NEW c \in Coords, NEW j, NEW dep, coord'[c].pc = "sbatch",
                      coord'[c].job = j, coord'[c].dep = dep
               PROVE  WaitsFor(j, dep)'
    BY DEF Asked, WaitsFor, Gone, GoneJob, Submissions
  <1>t. TypeInv /\ TypeInv'
    BY NextTypes DEF Starting, Claiming
  <1>j. j \in Jobs
    BY <1>t DEF TypeInv, Structure, CoordGood
  <1>1. coord'[c] = coord[c] \/ Picks(c)
    BY <1>t, CommandHolding DEF Parted, Submits, Holding
  <1>2. CASE coord'[c] = coord[c]
    <2>1. WaitsFor(j, dep)
      BY <1>2 DEF Starting, StartInv, Asked
    <2> QED
      BY <2>1, <1>t, <1>j, WaitsStays
  <1>3. CASE Picks(c)
    <2>1. /\ j > K => Terminal(row, j - K)
          /\ dep = IF j > K THEN row[j - K].slurm_job_id ELSE NoId
      BY <1>3 DEF Picks
    <2>2. ASSUME j > K
          PROVE  IF dep = NoId THEN Gone(j - K) ELSE dep \in Submissions(j - K)
      <3>1. j - K \in Jobs
        BY <2>2, <1>j, Earlier
      <3> QED
        BY <2>1, <2>2, <3>1 DEF Starting, StartInv, Named, Claiming, IdsInv, LedgerIds
    <2>3. WaitsFor(j, dep)
      BY <2>2 DEF WaitsFor
    <2> QED
      BY <2>3, <1>t, <1>j, WaitsStays
  <1> QED
    BY <1>1, <1>2, <1>3

LEMMA QueuedStep ==
  ASSUME Untroubled, Starting, [Next]_vars
  PROVE  Queued'
  <1> SUFFICES ASSUME NEW i \in SlurmIds, NEW j, NEW dep, slurm'[i].state # "FREE",
                      slurm'[i].job = j, slurm'[i].dep = dep
               PROVE  WaitsFor(j, dep)'
    BY DEF Queued, Case, WaitsFor, Gone, GoneJob, Submissions
  <1>t. /\ TypeInv /\ Steady
        /\ slurm \in [SlurmIds -> SlurmSet] /\ slurm[i] \in SlurmSet
    BY DEF Starting, Claiming, TypeInv, TypeOK
  <1>1. CASE ~Handed(i)
    <2>1. slurm[i].job = j /\ slurm[i].dep = dep
      BY <1>1, <1>t, JobKept
    <2>2. slurm[i].state # "FREE"
      <3>1. slurm[i].state = "FREE" => wrap[i].pc = "off"
        BY <1>t, HolderIs
      <3> QED
        BY <1>1, <1>t, <3>1, JobTurn DEF Turn, Stays, Begins, Stopped, Reads, Leaves, Unfit,
           Spoils, Claims, Works, Runs, Finishes, Judges, Ends, SlurmLive, Ending, RunVerdicts
    <2>3. WaitsFor(j, dep)
      BY <2>1, <2>2 DEF Starting, StartInv, Queued, Case
    <2>4. j \in Jobs
      BY <1>t, <2>1, <2>2, CaseStays DEF Case
    <2> QED
      BY <1>t, <2>3, <2>4, WaitsStays
  <1>2. ASSUME NEW m \in SlurmIds, Hands(m), wrap'[m].child = i
        PROVE  WaitsFor(j, dep)'
    <2>1. slurm'[i] = [state |-> "PENDING", job |-> Successor(m), dep |-> m]
      BY <1>2, <1>t DEF Hands, Enqueue
    <2>2. Case(m) \in Jobs /\ m \in Submissions(Case(m))
      BY <1>2, <1>t, HolderIs DEF Hands
    <2>3. dep = m /\ j = Case(m) + K /\ m # NoId
      BY <2>1, SizesAssumption DEF Successor, SlurmIds, NoId
    <2>4. j - K = Case(m)
      BY <2>2, <2>3, SizesAssumption DEF Jobs
    <2>5. Submissions(Case(m)) \subseteq Submissions(j - K)'
      <3>1. j - K \in Jobs /\ Submissions(j - K) \subseteq Submissions(j - K)'
        BY <1>t, <2>2, <2>4, SubmissionsGrow
      <3> QED
        BY <2>4, <3>1
    <2> QED
      BY <2>2, <2>3, <2>5 DEF WaitsFor
  <1>3. ASSUME NEW c \in Coords, Submits(c), coord'[c].child = i
        PROVE  WaitsFor(j, dep)'
    <2>1. slurm'[i] = [state |-> "PENDING", job |-> coord[c].job, dep |-> coord[c].dep]
      BY <1>3, <1>t DEF Submits, Enqueue
    <2>2. j = coord[c].job /\ dep = coord[c].dep /\ j \in Jobs
      BY <1>3, <1>t, <2>1 DEF Submits, TypeInv, Structure, CoordGood
    <2>3. WaitsFor(j, dep)
      BY <1>3, <2>2 DEF Submits, Starting, StartInv, Asked
    <2> QED
      BY <1>t, <2>2, <2>3, WaitsStays
  <1> QED
    BY <1>1, <1>2, <1>3, <1>t, HandedBy

(* When a job may start, the case before is over. *)
LEMMA MayStart ==
  ASSUME Starting, NEW i \in SlurmIds, slurm[i].state # "FREE", DependencyMet(i),
         NEW e \in Jobs, Before(e, Case(i))
  PROVE  Gone(e)
  <1>t. TypeInv
    BY DEF Starting, Claiming
  <1> DEFINE p == Case(i) - K
  <1>1. Case(i) \in Jobs
    BY <1>t DEF TypeInv, Structure, WrapGood, Case
  <1>2. Case(i) > K /\ p \in Jobs /\ (e = p \/ Before(e, p))
    BY <1>1, Earlier
  <1>3. WaitsFor(Case(i), slurm[i].dep)
    BY DEF Starting, StartInv, Queued
  <1>4. PICK m \in Submissions(p) : GoneJob(m)
    BY <1>2, <1>3 DEF WaitsFor, DependencyMet, Gone, GoneJob
  <1> HIDE DEF p
  <1>5. m \in SlurmIds /\ Case(m) = p
    BY <1>4 DEF Submissions, Case
  <1>6. slurm[m].state \notin Idle
    BY <1>4, <1>5, <1>t, HolderIs DEF GoneJob, Ending, RunVerdicts, SlurmEnded, Idle
  <1>7. Before(e, p) => Gone(e)
    BY <1>5, <1>6 DEF Starting, StartInv, Started
  <1> QED
    BY <1>2, <1>4, <1>7 DEF Gone

LEMMA StartedStep ==
  ASSUME Untroubled, Starting, [Next]_vars
  PROVE  Started'
  <1> SUFFICES ASSUME NEW i \in SlurmIds, NEW j, NEW e \in Jobs, slurm'[i].state \notin Idle,
                      slurm'[i].job = j, Before(e, j)
               PROVE  Gone(e)'
    BY DEF Started, Case, Before
  <1>t. TypeInv /\ Steady /\ slurm[i] \in SlurmSet
    BY DEF Starting, Claiming, TypeInv, TypeOK
  <1>1. CASE slurm[i].state \notin Idle
    <2>1. Case(i) = j
      BY <1>1, <1>t, CaseStays DEF Case, Idle
    <2>2. Gone(e)
      BY <1>1, <2>1 DEF Starting, StartInv, Started
    <2> QED
      BY <1>t, <2>2, GoneStays
  <1>2. CASE slurm[i].state \in Idle
    <2>0. wrap[i].pc = "off"
      BY <1>2, <1>t, HolderIs DEF Idle
    <2>1. "kill" \notin Faults /\ \A c \in Coords : coord[c].pc # "scancel"
      BY <1>t DEF Untroubled, Steady, Cancelling
    <2>2. Begins(i)
      BY <1>2, <1>t, <2>0, <2>1, JobTurn DEF Turn, Stays, Handed, Stopped, Reads, Leaves, Unfit,
         Spoils, Claims, Works, Runs, Finishes, Judges, Ends, Ending, RunVerdicts, Idle
    <2>3. slurm[i].state # "FREE" /\ DependencyMet(i) /\ Case(i) = j
      BY <2>2, <1>t DEF Begins, Becomes, Case, SlurmSet
    <2>4. Gone(e)
      BY <2>3, MayStart
    <2> QED
      BY <1>t, <2>4, GoneStays
  <1> QED
    BY <1>1, <1>2

LEMMA InitialStarts == Init => StartInv
  <1> SUFFICES ASSUME Init
               PROVE  StartInv
    OBVIOUS
  <1>1. /\ \A j \in Jobs : row[j].status = "pending"
        /\ \A i \in SlurmIds : slurm[i].state = "FREE"
    BY DEF Init, NewRow, NoSlurm
  <1>2. \A c \in Coords : coord[c].pc \in {"begin", "idle"}
    BY DEF Init, NoCoord
  <1> QED
    BY <1>1, <1>2 DEF StartInv, Started, Queued, Asked, Named, Watched, Idle, Terminal,
       TERMINAL_STATUSES

LEMMA InitiallyStarting == Init => Starting
  BY InitialTypes, InitialIds, InitialClaims, InitialSole, InitialStarts DEF Starting, Claiming

LEMMA StartingStep ==
  ASSUME Untroubled, Starting, [Next]_vars, \A c \in Coords : ~CancelRows(c)
  PROVE  Starting'
  BY ClaimingStep, SoleStep, StartedStep, QueuedStep, AskedStep, NamedStep, WatchedStep
     DEF Starting, StartInv, Claiming

LEMMA StartingHolds ==
  ASSUME Calm
  PROVE  Spec => []Starting
  <1>1. NoCancel /\ Starting /\ [Next]_vars => Starting'
    BY StartingStep, NoRowsCancelled DEF Calm
  <1> QED
    BY <1>1, InitiallyStarting, NoCancelHolds, PTL DEF Spec

-----------------------------------------------------------------------------
(* Counting.  Cases of which none comes before another in its chain lie in  *)
(* different classes modulo K.                                              *)

LEMMA Division ==
  ASSUME NEW j \in Nat
  PROVE  j = K * (j \div K) + (j % K) /\ j % K \in 0..K-1 /\ j \div K \in Nat
  BY SizesAssumption

LEMMA SameClass ==
  ASSUME NEW e \in Jobs, NEW j \in Jobs, e < j, e % K = j % K
  PROVE  Before(e, j)
  <1>1. e \in Nat /\ j \in Nat /\ K \in Nat \ {0}
    BY SizesAssumption DEF Jobs
  <1>2. j = K * (j \div K) + (j % K) /\ j % K \in 0..K-1 /\ j \div K \in Nat
    BY <1>1, Division
  <1>3. e = K * (e \div K) + (e % K) /\ e % K \in 0..K-1 /\ e \div K \in Nat
    BY <1>1, Division
  <1> DEFINE n == (j \div K) - (e \div K)
  <1>4. n \in Int /\ j = e + n * K
    BY <1>1, <1>2, <1>3
  <1> HIDE DEF n
  <1>5. n > 0
    BY <1>1, <1>4
  <1> QED
    BY <1>4, <1>5 DEF Before

LEMMA Spread ==
  ASSUME NEW S \in SUBSET Jobs, \A e, j \in S : ~Before(e, j)
  PROVE  IsFiniteSet(S) /\ Cardinality(S) <= K
  <1> DEFINE class == [j \in S |-> j % K]
  <1>1. K \in Nat \ {0} /\ \A j \in S : j \in Nat /\ j % K \in 0..K-1
    BY Division, SizesAssumption DEF Jobs
  <1>2. ASSUME NEW e \in S, NEW j \in S, e % K = j % K
        PROVE  e = j
    BY <1>1, <1>2, SameClass
  <1>3. class \in Injection(S, 0..K-1)
    <2>1. class \in [S -> 0..K-1]
      BY <1>1
    <2>2. \A e, j \in S : class[e] = class[j] => e = j
      BY <1>2
    <2> QED
      BY <2>1, <2>2 DEF Injection, IsInjective
  <1>4. IsFiniteSet(0..K-1) /\ Cardinality(0..K-1) = K
    <2>1. 0 \in Int /\ K - 1 \in Int /\ ~(0 > K - 1) /\ (K - 1) - 0 + 1 = K
      BY <1>1
    <2> QED
      BY <2>1, FS_Interval
  <1> HIDE DEF class
  <1> QED
    BY <1>3, <1>4, FS_Injection

(* At most one case of a class executes: when the next one of its class     *)
(* started, its only job was over.                                          *)
LEMMA OneExecutor ==
  ASSUME Starting, NEW e \in Jobs, NEW j \in Jobs, Before(e, j), Executors(e) # {}
  PROVE  Executors(j) = {}
  <1> SUFFICES ASSUME NEW m \in Executors(j)
               PROVE  FALSE
    OBVIOUS
  <1>t. TypeInv
    BY DEF Starting, Claiming
  <1>1. PICK i \in Submissions(e) : i \in SlurmIds /\ wrap[i].pc \in Begun
    BY DEF Executors, Submissions, Begun
  <1>2. m \in SlurmIds /\ Case(m) = j /\ wrap[m].pc \in Begun
    BY DEF Executors, Submissions, Case, Begun
  <1>3. slurm[m].state = "RUNNING" /\ slurm[i].state = "RUNNING"
    BY <1>1, <1>2, <1>t, HolderIs DEF Begun
  <1>4. Gone(e)
    BY <1>2, <1>3 DEF Starting, StartInv, Started, Idle
  <1>5. PICK n \in Submissions(e) : GoneJob(n)
    BY <1>4 DEF Gone
  <1>6. n = i
    BY <1>1, <1>5 DEF Starting, Claiming, ClaimInv, Once
  <1> QED
    BY <1>1, <1>3, <1>5, <1>6 DEF GoneJob, Begun, Ending, RunVerdicts, SlurmEnded

LEMMA WindowHolds == Starting => Window
  <1> SUFFICES ASSUME Starting
               PROVE  Window
    OBVIOUS
  <1> DEFINE S == {j \in Jobs : Executors(j) # {}}
  <1>1. \A e, j \in S : ~Before(e, j)
    BY OneExecutor
  <1>2. Cardinality(S) <= K
    <2>1. S \in SUBSET Jobs
      OBVIOUS
    <2> HIDE DEF S
    <2> QED
      BY <1>1, <2>1, Spread
  <1> QED
    BY <1>2 DEF Window

(* No more than K cases execute at a time.  The seed submits K cases, and   *)
(* every other one waits for the end of the job of the case K places before *)
(* (--dependency=afterany), or is submitted when the row of that case has   *)
(* ended; in the latter case, too, it depends on the job the row names, so  *)
(* that a row ended while its job still runs lets nothing start early.      *)
THEOREM WidthOfWindow ==
  ASSUME Calm
  PROVE  Spec => []Window
  BY WindowHolds, StartingHolds, PTL

-----------------------------------------------------------------------------
(* Rows.  Every case before one that has been claimed is running or over.   *)

Underway(j) == row[j].status \in {"running"} \union TERMINAL_STATUSES

Behind == \A e, m \in Jobs : Before(e, m) /\ row[m].status # "pending" => Underway(e)
Executing == \A i \in SlurmIds : wrap[i].pc \in Begun => Underway(Case(i))
Attended == \A j \in Jobs : row[j].status = "running" => Executors(j) # {}

RowInv == Behind /\ Executing /\ Attended

Chained == Starting /\ RowInv

LEMMA UnderwayStays ==
  ASSUME TypeInv, Steady, [Next]_vars, NEW j \in Jobs, Underway(j)
  PROVE  Underway(j)'
  <1>1. ~Undone(j)
    BY DEF Undone, Steady
  <1> QED
    BY <1>1, CaseTurn DEF Underway, RowTurn, RowStays, Taken, Released, Recorded, Executed, Over,
       Written, Moves, TERMINAL_STATUSES

(* The first claim of a case. *)
LEMMA FirstClaim ==
  ASSUME Untroubled, Chained, [Next]_vars, NEW j \in Jobs, row[j].status = "pending",
         row'[j].status # "pending", \A c \in Coords : ~CancelRows(c)
  PROVE  j > K => Underway(j - K)
  <1>t. TypeInv /\ IdsInv /\ Steady /\ SoleInv
    BY DEF Chained, Starting, Claiming
  <1>1. Submissions(j) = {}
    BY DEF Chained, Starting, Claiming, ClaimInv, Free
  <1>2. ASSUME NEW i \in SlurmIds, wrap[i].pc # "off", Case(i) = j
        PROVE  FALSE
    BY <1>1, <1>2, <1>t, HolderIs
  <1>3. ASSUME NEW c \in Coords,
               \/ coord[c].pc = "settle" /\ coord[c].job = j
               \/ coord[c].pc = "apply" /\ j \in coord[c].todo
        PROVE  FALSE
    BY <1>1, <1>3, <1>t, PolledIs DEF SoleInv
  <1>4. \A c \in Coords : ~CancelMark(c)
    BY <1>t DEF Steady, Cancelling, CancelMark, At
  <1>5. ~Executed(j) /\ ~Over(j) /\ ~Undone(j)
    <2>1. ~Executed(j)
      BY <1>2 DEF Executed, Claims
    <2>2. ~Over(j)
      BY <1>2, <1>3, <1>4 DEF Over, Spoils, Finishes
    <2>3. ~Undone(j)
      BY <1>t DEF Undone, Steady
    <2> QED
      BY <2>1, <2>2, <2>3
  <1>6. Taken(j)
    BY <1>5, <1>t, CaseTurn DEF RowTurn, RowStays, Released, Recorded, Written, Moves
  <1>7. ASSUME NEW i \in SlurmIds, wrap[i].pc = "succ", Successor(i) = j
        PROVE  j > K => Underway(j - K)
    <2>1. Case(i) \in Jobs /\ Underway(Case(i))
      BY <1>7, <1>t, HolderIs DEF Chained, RowInv, Executing, Begun
    <2>2. j - K = Case(i)
      BY <1>7, <2>1, SizesAssumption DEF Successor, Jobs
    <2> QED
      BY <2>1, <2>2
  <1>8. ASSUME NEW c \in Coords, Picks(c), coord'[c].job = j
        PROVE  j > K => Underway(j - K)
    BY <1>8 DEF Picks, Terminal, Underway
  <1> QED
    BY <1>6, <1>7, <1>8 DEF Taken

LEMMA BehindStep ==
  ASSUME Untroubled, Chained, [Next]_vars, \A c \in Coords : ~CancelRows(c)
  PROVE  Behind'
  <1> SUFFICES ASSUME NEW e \in Jobs, NEW m \in Jobs, Before(e, m), row'[m].status # "pending"
               PROVE  Underway(e)'
    BY DEF Behind, Before
  <1>t. TypeInv /\ Steady
    BY DEF Chained, Starting, Claiming
  <1>1. Underway(e)
    <2>1. CASE row[m].status # "pending"
      BY <2>1 DEF Chained, RowInv, Behind
    <2>2. CASE row[m].status = "pending"
      <3>1. m > K /\ m - K \in Jobs /\ (e = m - K \/ Before(e, m - K))
        BY Earlier
      <3>2. Underway(m - K)
        BY <2>2, <3>1, FirstClaim
      <3>3. row[m - K].status # "pending"
        BY <3>2 DEF Underway, TERMINAL_STATUSES
      <3> QED
        BY <3>1, <3>2, <3>3 DEF Chained, RowInv, Behind
    <2> QED
      BY <2>1, <2>2
  <1> QED
    BY <1>1, <1>t, UnderwayStays

LEMMA ExecutingStep ==
  ASSUME Untroubled, Chained, [Next]_vars
  PROVE  Executing'
  <1> SUFFICES ASSUME NEW i \in SlurmIds, NEW j, wrap'[i].pc \in Begun, slurm'[i].job = j
               PROVE  Underway(j)'
    BY DEF Executing, Case, Underway
  <1>t. /\ TypeInv /\ Steady /\ slurm[i] \in SlurmSet
        /\ row \in [Jobs -> RowSet(SlurmIds)]
    BY DEF Chained, Starting, Claiming, TypeInv, TypeOK
  <1>1. wrap[i].pc \in Begun \/ Claims(i)
    BY <1>t, HolderIs, JobTurn DEF Turn, Stays, Handed, Begins, Stopped, Reads, Leaves, Unfit,
       Spoils, Works, Runs, Finishes, Judges, Ends, Goes, Becomes, Begun, RunVerdicts
  <1>2. Case(i) \in Jobs /\ Case(i) = j
    <2>1. slurm[i].state # "FREE"
      BY <1>1, <1>t, HolderIs DEF Begun, Claims
    <2> QED
      BY <2>1, <1>t, CaseStays DEF Case
  <1>3. CASE wrap[i].pc \in Begun
    BY <1>2, <1>3, <1>t, UnderwayStays DEF Chained, RowInv, Executing
  <1>4. CASE Claims(i)
    BY <1>2, <1>4, <1>t DEF Claims, MarkRunning, Transition, RowSet, Underway
  <1> QED
    BY <1>1, <1>3, <1>4

LEMMA AttendedStep ==
  ASSUME Untroubled, Chained, [Next]_vars
  PROVE  Attended'
  <1> SUFFICES ASSUME NEW j \in Jobs, row'[j].status = "running"
               PROVE  Executors(j)' # {}
    BY DEF Attended
  <1>t. /\ TypeInv /\ Steady /\ row \in [Jobs -> RowSet(SlurmIds)]
        /\ wrap \in [SlurmIds -> WrapSet]
    BY DEF Chained, Starting, Claiming, TypeInv, TypeOK
  <1>1. ASSUME NEW i \in Submissions(j), wrap'[i].pc \in Begun
        PROVE  Executors(j)' # {}
    <2>1. i \in Submissions(j)'
      BY <1>t, SubmissionsGrow
    <2> QED
      BY <1>1, <2>1 DEF Executors, Begun
  <1>2. row[j].status = "running" \/ Executed(j)
    BY <1>t, CaseTurn DEF RowTurn, RowStays, Taken, Released, Recorded, Over, Undone, Written,
       Moves, TERMINAL_STATUSES, NewRow
  <1>3. CASE Executed(j)
    <2>1. PICK i \in SlurmIds : Claims(i) /\ Case(i) = j
      BY <1>3 DEF Executed
    <2>2. wrap'[i].pc = "succ" /\ i \in Submissions(j)
      BY <2>1, <1>t, HolderIs DEF Claims, Goes, Becomes
    <2> QED
      BY <2>2, <1>1 DEF Begun
  <1>4. CASE row[j].status = "running"
    <2>1. PICK i \in SlurmIds : i \in Submissions(j) /\ wrap[i].pc \in Begun
      BY <1>4 DEF Chained, RowInv, Attended, Executors, Submissions, Begun
    <2>2. Case(i) = j /\ slurm[i].state = "RUNNING"
      BY <2>1, <1>t, HolderIs DEF Submissions, Case, Begun
    <2>3. ~Stopped(i)
      BY <1>t DEF Stopped, Untroubled, Steady, Cancelling
    <2>4. ~Finishes(i)
      <3>1. wrap[i].pc = "finish" => wrap[i].verdict \in TERMINAL_STATUSES
        BY <2>1, <1>t DEF TypeInv, Structure, WrapGood, CaseVerdicts, TERMINAL_STATUSES
      <3> QED
        BY <1>4, <1>t, <2>2, <3>1 DEF Finishes, MarkTerminal, Transition, RowSet, OPEN_STATUSES,
           ACTIVE_STATUSES, TERMINAL_STATUSES
    <2>5. wrap'[i].pc \in Begun
      BY <2>1, <2>2, <2>3, <2>4, <1>t, JobTurn DEF Turn, Stays, Handed, Begins, Reads, Leaves,
         Unfit, Spoils, Claims, Works, Runs, Judges, Ends, Goes, Becomes, Begun, Ending,
         RunVerdicts
    <2> QED
      BY <2>1, <2>5, <1>1
  <1> QED
    BY <1>2, <1>3, <1>4

LEMMA InitialRows == Init => RowInv
  <1> SUFFICES ASSUME Init
               PROVE  RowInv
    OBVIOUS
  <1>1. /\ \A j \in Jobs : row[j].status = "pending"
        /\ \A i \in SlurmIds : wrap[i].pc = "off"
    BY DEF Init, NewRow, NoWrap
  <1> QED
    BY <1>1 DEF RowInv, Behind, Executing, Attended, Begun

LEMMA ChainedStep ==
  ASSUME Untroubled, Chained, [Next]_vars, \A c \in Coords : ~CancelRows(c)
  PROVE  Chained'
  BY StartingStep, BehindStep, ExecutingStep, AttendedStep DEF Chained, RowInv

LEMMA TwoWindowsHold ==
  ASSUME Chained
  PROVE  IsFiniteSet(WithStatus(row, ACTIVE_STATUSES)) /\ TwoWindows
  <1> DEFINE claimed == {j \in Jobs : row[j].status \in {"scheduling", "scheduled"}}
             running == {j \in Jobs : row[j].status = "running"}
  <1>1. \A e, j \in claimed : ~Before(e, j)
    BY DEF Chained, RowInv, Behind, Underway, TERMINAL_STATUSES
  <1>2. \A e, j \in running : ~Before(e, j)
    BY OneExecutor DEF Chained, RowInv, Attended
  <1>3. WithStatus(row, ACTIVE_STATUSES) = claimed \union running
    BY DEF WithStatus, ACTIVE_STATUSES, Chained, Starting, Claiming, TypeInv, TypeOK
  <1>4. claimed \in SUBSET Jobs /\ running \in SUBSET Jobs
    OBVIOUS
  <1> HIDE DEF claimed, running
  <1>5. /\ IsFiniteSet(claimed) /\ Cardinality(claimed) <= K
        /\ IsFiniteSet(running) /\ Cardinality(running) <= K
    BY <1>1, <1>2, <1>4, Spread
  <1>6. /\ Cardinality(claimed \union running)
             = Cardinality(claimed) + Cardinality(running) - Cardinality(claimed \cap running)
        /\ Cardinality(claimed) \in Nat /\ Cardinality(running) \in Nat
        /\ Cardinality(claimed \cap running) \in Nat
        /\ IsFiniteSet(claimed \union running)
    BY <1>5, FS_Union, FS_Intersection, FS_CardinalityType
  <1> QED
    BY <1>3, <1>5, <1>6, SizesAssumption DEF TwoWindows

(* A cancel has come, and the rows that are still open are those that were  *)
(* active then, at most.                                                    *)
FewOpen ==
  /\ IsFiniteSet(WithStatus(row, OPEN_STATUSES))
  /\ Cardinality(WithStatus(row, OPEN_STATUSES)) <= 2 * K

OpenInv == Chained \/ (TypeInv /\ FewOpen)

(* The first cancel: no pending row is left.                                *)
LEMMA CancelLeavesFew ==
  ASSUME Chained, NEW c \in Coords, CancelRows(c)
  PROVE  FewOpen'
  <1>1. row \in [Jobs -> RowSet(SlurmIds)]
    BY DEF Chained, Starting, Claiming, TypeInv, TypeOK
  <1>2. \A j \in Jobs : row'[j].status = IF row[j].status = "pending" THEN "cancelled"
                                         ELSE row[j].status
    BY <1>1 DEF CancelRows, CancelPending, RowSet
  <1>3. DOMAIN row = Jobs /\ DOMAIN row' = Jobs
    BY <1>1 DEF CancelRows, CancelPending
  <1>4. WithStatus(row, OPEN_STATUSES)' = WithStatus(row, ACTIVE_STATUSES)
    BY <1>2, <1>3 DEF WithStatus, OPEN_STATUSES, ACTIVE_STATUSES
  <1> QED
    BY <1>4, TwoWindowsHold DEF FewOpen, TwoWindows

(* No row is opened again.                                                  *)
LEMMA FewStay ==
  ASSUME TypeInv, FewOpen, [Next]_vars
  PROVE  FewOpen'
  <1>1. DOMAIN row = Jobs /\ DOMAIN row' = Jobs
    BY NextTypes DEF TypeInv, TypeOK
  <1>2. ASSUME NEW j \in Jobs, row'[j].status \in OPEN_STATUSES
        PROVE  row[j].status \in OPEN_STATUSES
    BY <1>2, CaseTurn DEF RowTurn, RowStays, Taken, Released, Recorded, Executed, Over, Undone,
       Written, Moves, OPEN_STATUSES, ACTIVE_STATUSES, TERMINAL_STATUSES, RunnableStatuses
  <1>3. WithStatus(row, OPEN_STATUSES)' \subseteq WithStatus(row, OPEN_STATUSES)
    BY <1>1, <1>2 DEF WithStatus
  <1> DEFINE before == WithStatus(row, OPEN_STATUSES)
             after == WithStatus(row, OPEN_STATUSES)'
  <1>4. IsFiniteSet(before) /\ Cardinality(before) <= 2 * K /\ after \subseteq before
    BY <1>3 DEF FewOpen
  <1> HIDE DEF before, after
  <1>5. /\ IsFiniteSet(after) /\ Cardinality(after) <= Cardinality(before)
        /\ Cardinality(after) \in Nat /\ Cardinality(before) \in Nat
    BY <1>4, FS_Subset, FS_CardinalityType
  <1>6. IsFiniteSet(after) /\ Cardinality(after) <= 2 * K
    BY <1>4, <1>5, SizesAssumption
  <1> QED
    BY <1>6 DEF FewOpen, after

LEMMA FewActive ==
  ASSUME TypeInv, FewOpen
  PROVE  TwoWindows
  <1> DEFINE open == WithStatus(row, OPEN_STATUSES)
             active == WithStatus(row, ACTIVE_STATUSES)
  <1>1. IsFiniteSet(open) /\ Cardinality(open) <= 2 * K /\ active \subseteq open
    BY DEF FewOpen, WithStatus, OPEN_STATUSES
  <1> HIDE DEF open, active
  <1>2. /\ Cardinality(active) <= Cardinality(open)
        /\ Cardinality(active) \in Nat /\ Cardinality(open) \in Nat
    BY <1>1, FS_Subset, FS_CardinalityType
  <1>3. Cardinality(active) <= 2 * K
    BY <1>1, <1>2, SizesAssumption
  <1> QED
    BY <1>3 DEF TwoWindows, active

LEMMA OpenStep ==
  ASSUME Untroubled, OpenInv, [Next]_vars
  PROVE  OpenInv'
  <1>1. TypeInv /\ TypeInv'
    BY NextTypes DEF OpenInv, Chained, Starting, Claiming
  <1>2. CASE FewOpen
    BY <1>1, <1>2, FewStay DEF OpenInv
  <1>3. CASE Chained /\ \A c \in Coords : ~CancelRows(c)
    BY <1>3, ChainedStep DEF OpenInv
  <1>4. ASSUME NEW c \in Coords, Chained, CancelRows(c)
        PROVE  OpenInv'
    BY <1>1, <1>4, CancelLeavesFew DEF OpenInv
  <1> QED
    BY <1>2, <1>3, <1>4 DEF OpenInv

(* No more than two windows of cases are scheduling, scheduled or running,  *)
(* cancels or no cancels:                                                   *)
(* a case is claimed only when the one K places before it is running or has *)
(* ended, by the wrapper that runs that case (schedule_successor) or by     *)
(* repair_chain, which looks at its row; so no class has two claimed rows,  *)
(* and a running row has an executor, of which there are K at most.  After  *)
(* a cancel cases are submitted twice and more than K may execute, but they *)
(* are among the rows it found active: cmd_cancel ends the pending ones     *)
(* first.                                                                   *)
THEOREM TwoWindowsAtMost ==
  ASSUME Untroubled
  PROVE  Spec => []TwoWindows
  <1>1. Init => OpenInv
    BY InitiallyStarting, InitialRows DEF OpenInv, Chained
  <1>2. OpenInv /\ [Next]_vars => OpenInv'
    BY OpenStep
  <1>3. OpenInv => TwoWindows
    BY TwoWindowsHold, FewActive DEF OpenInv
  <1> QED
    BY <1>1, <1>2, <1>3, PTL DEF Spec
=============================================================================
