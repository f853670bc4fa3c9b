----------------------------- MODULE Reanalysis -----------------------------
(***************************************************************************)
(* matrix_reanalyze.py: commands that read the stored logs of a run again  *)
(* and report on them in a new directory, while the run may go on and      *)
(* commit to its ledger, and while analyze_run may write its report.       *)
(*                                                                         *)
(* The ledger file and its WAL are a number that each commit increases,    *)
(* and so is the original report; that number stands for their hashes.     *)
(* The logs of cases that succeeded do not change any more.                *)
(***************************************************************************)
EXTENDS Results

CONSTANTS Jobs,        \* the cases, numbered by seq
          Group,       \* Group[j]: model and workload of the case
          Logs,        \* the functions from cases to logs to begin with
          Readers,     \* the commands, all told to write to the same directory
          MaxChanges   \* commits and writes of the report while they read

ASSUME CasesAssumption == IsFiniteSet(Jobs) /\ Jobs = 1..Cardinality(Jobs) /\ DOMAIN Group = Jobs
ASSUME LogsAssumption == Logs \subseteq [Jobs -> Seq(Lines)] /\ MaxChanges \in Nat

VARIABLES logs,        \* logs[j]
          done,        \* the cases whose row says success
          ledger, report,   \* the states of the ledger and the original report
          owner,       \* who has created the new directory
          written,     \* the reports in it, by the command that wrote them
          proc         \* the commands
vars == <<logs, done, ledger, report, owner, written, proc>>

Idle == [pc |-> "start", before |-> <<0, 0>>, after |-> <<0, 0>>, version |-> 0,
         jobs |-> {}, results |-> <<>>]

Init == /\ logs \in Logs
        /\ done \in {Jobs, Jobs \ {Cardinality(Jobs)}}
        /\ ledger = 1 /\ report = 1 /\ owner = {} /\ written = <<>>
        /\ proc = [r \in Readers |-> Idle]

Goto(r, pc) == proc' = [proc EXCEPT ![r].pc = pc]

-----------------------------------------------------------------------------
(* The run goes on *)

(* A commit to the ledger may be the success of a case. *)
Commit == /\ ledger + report < MaxChanges + 2 /\ ledger' = ledger + 1
          /\ done' \in {done, Jobs}
          /\ UNCHANGED <<logs, report, owner, written, proc>>

WriteOriginal == /\ ledger + report < MaxChanges + 2 /\ report' = report + 1
                 /\ UNCHANGED <<logs, done, ledger, owner, written, proc>>

-----------------------------------------------------------------------------
(* reanalyze *)

(* The directory is created, or the command fails. *)
MakeDir(r) ==
  /\ proc[r].pc = "start"
  /\ IF owner = {} THEN owner' = {r} /\ Goto(r, "hash ledger")
                   ELSE Goto(r, "failed") /\ UNCHANGED owner
  /\ UNCHANGED <<logs, done, ledger, report, written>>

HashBefore(r) ==
  /\ \/ /\ proc[r].pc = "hash ledger"
        /\ proc' = [proc EXCEPT ![r].pc = "hash report", ![r].before[1] = ledger]
     \/ /\ proc[r].pc = "hash report"
        /\ proc' = [proc EXCEPT ![r].pc = "read", ![r].before[2] = report]
  /\ UNCHANGED <<logs, done, ledger, report, owner, written>>

(* One read transaction. *)
ReadLedger(r) ==
  /\ proc[r].pc = "read"
  /\ proc' = [proc EXCEPT ![r].pc = "logs", ![r].version = ledger, ![r].jobs = done]
  /\ UNCHANGED <<logs, done, ledger, report, owner, written>>

(* A log without a result of this case is an error of its own. *)
ReadLogs(r) ==
  /\ proc[r].pc = "logs"
  /\ proc' = [proc EXCEPT ![r].pc = "hash again",
                ![r].results = [j \in proc[r].jobs |-> Parse(FinalAttempt(logs[j], j))]]
  /\ UNCHANGED <<logs, done, ledger, report, owner, written>>

HashAfter(r) ==
  /\ \/ /\ proc[r].pc = "hash again"
        /\ proc' = [proc EXCEPT ![r].pc = "hash report again", ![r].after[1] = ledger]
     \/ /\ proc[r].pc = "hash report again"
        /\ proc' = [proc EXCEPT ![r].pc = "compare", ![r].after[2] = report]
  /\ UNCHANGED <<logs, done, ledger, report, owner, written>>

BySeq(jobs) == CHOOSE order \in [1..Cardinality(jobs) -> jobs] :
                 \A i, k \in DOMAIN order : i < k => order[i] < order[k]
Parsed(r, key) == BySeq({j \in proc[r].jobs : Group[j] = key /\ proc[r].results[j] # Nothing})
Found(r) ==
  LET keys == {Group[j] : j \in {i \in proc[r].jobs : proc[r].results[i] # Nothing}}
      entries(key) == [i \in DOMAIN Parsed(r, key) |-> proc[r].results[Parsed(r, key)[i]]]
  IN  [before |-> proc[r].before, version |-> proc[r].version, jobs |-> proc[r].jobs,
       errors |-> {j \in proc[r].jobs : proc[r].results[j] = Nothing},
       groups |-> [key \in keys |-> [jobs |-> Parsed(r, key), entries |-> entries(key),
                                     judged |-> Judge(entries(key))]]]

(* Mutant: the hashes are not compared. *)
WriteReportUnchecked(r) ==
  /\ proc[r].pc = "compare" /\ Goto(r, "done")
  /\ written' = Append(written, Found(r))
  /\ UNCHANGED <<logs, done, ledger, report, owner>>

(* RuntimeError, or the report; git failing has the effect of the former. *)
WriteReport(r) ==
  /\ proc[r].pc = "compare"
  /\ \/ proc[r].before = proc[r].after /\ Goto(r, "done") /\ written' = Append(written, Found(r))
     \/ Goto(r, "failed") /\ UNCHANGED written
  /\ UNCHANGED <<logs, done, ledger, report, owner>>

Next == \/ Commit \/ WriteOriginal
        \/ \E r \in Readers : MakeDir(r) \/ HashBefore(r) \/ ReadLedger(r) \/ ReadLogs(r)
                              \/ HashAfter(r) \/ WriteReport(r)

Spec == Init /\ [][Next]_vars

-----------------------------------------------------------------------------
(* Properties *)

Reports == {written[w] : w \in DOMAIN written}
Groups == UNION {{found.groups[key] : key \in DOMAIN found.groups} : found \in Reports}

Entries(found) ==
  UNION {{[job |-> found.groups[key].jobs[i], key |-> key, result |-> found.groups[key].entries[i]] :
            i \in DOMAIN found.groups[key].jobs} : key \in DOMAIN found.groups}

(* The results that are compared have both of their matrices, of one shape. *)
TypeOK ==
  /\ done \subseteq Jobs /\ ledger \in Nat /\ report \in Nat /\ owner \subseteq Readers
  /\ \A r \in Readers : proc[r].pc \in {"start", "hash ledger", "hash report", "read", "logs",
       "hash again", "hash report again", "compare", "done", "failed"}
  /\ \A found \in Reports : \A entry \in Entries(found) :
       /\ None \notin {entry.result.first, entry.result.sum}
       /\ entry.result.first.shape = entry.result.sum.shape

(* The data of a report were read from the ledger whose hash it records,    *)
(* although neither hashing nor reading keeps the run from committing.      *)
ReportIsOfOneLedger == \A found \in Reports : found.version = found.before[1]

(* The reference: the last header of a kind in the last attempt, and the    *)
(* first line after it that is a header or a matrix.                        *)
Headers(log, kind) ==
  {i \in DOMAIN log : log[i].kind = kind /\ \A a \in Attempts(log) : a < i}
Section(log, kind) ==
  LET next == LastOf(Headers(log, kind)) + 1
  IN  IF Headers(log, kind) # {} /\ next \in DOMAIN log /\ log[next].kind = "matrix"
      THEN log[next].value ELSE None
Reference(log, j) ==
  LET first == Section(log, "first")
      sum == Section(log, "sum")
  IN  IF Attempts(log) = {} \/ log[LastOf(Attempts(log))].value # j THEN Nothing
      ELSE IF None \in {first, sum} \/ first.shape # sum.shape THEN Nothing
           ELSE [first |-> first, sum |-> sum]

(* Every case that succeeded is in the report once, with the result its     *)
(* final attempt printed last, or as an error if that attempt printed none: *)
(* nothing of an earlier attempt or an earlier section gets into it         *)
(* (final_attempt, parse_summary).                                          *)
FinalAttemptOnly ==
  \A found \in Reports :
    LET printed == {j \in found.jobs : Reference(logs[j], j) # Nothing}
    IN  /\ Entries(found) = {[job |-> j, key |-> Group[j], result |-> Reference(logs[j], j)] :
                                j \in printed}
        /\ found.errors = found.jobs \ printed

(* Results that more than half of a group agree on are not anomalies,       *)
(* whatever stands before them, although closeness is not transitive and    *)
(* the groups depend on the order (_modal_result).                          *)
MajorityIsNoAnomaly ==
  \A group \in Groups : \A i \in DOMAIN group.entries :
    2 * Cardinality({k \in DOMAIN group.entries : group.entries[k] = group.entries[i]})
      > Len(group.entries) => i \notin group.judged.anomalies

(* Where closeness is transitive, the order does not matter: the mode is a  *)
(* largest class of results and the anomalies are all the others.           *)
Class(entries, i) == {k \in DOMAIN entries : Close(entries[k], entries[i])}
Transitive(entries) ==
  \A i, j \in DOMAIN entries : j \in Class(entries, i) => Class(entries, j) = Class(entries, i)
TransitiveIsClasses ==
  \A group \in Groups : Transitive(group.entries) =>
    \E i \in DOMAIN group.entries :
      /\ group.judged.anomalies = DOMAIN group.entries \ Class(group.entries, i)
      /\ group.judged.count = Cardinality(Class(group.entries, i))
      /\ \A k \in DOMAIN group.entries :
           Cardinality(Class(group.entries, k)) <= group.judged.count
=============================================================================
