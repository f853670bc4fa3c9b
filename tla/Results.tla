------------------------------- MODULE Results -------------------------------
(***************************************************************************)
(* The result of a case in its log, and the comparison of the results of a *)
(* group of cases (matrix_common.py, matrix_analyze.py).                   *)
(*                                                                         *)
(* A log is a sequence of lines [kind, value].  A line of kind "first",    *)
(* "sum" or "outputs" is one of the three headers a solver prints, a       *)
(* "matrix" is a line that starts with [[, its value None when it is       *)
(* malformed, and an "attempt" is the header of the wrapper, its value the *)
(* case it names.  Other lines are skipped by the code and left out.       *)
(* A matrix is [shape, type, number]: one number stands for its entries,   *)
(* all of one type.                                                        *)
(***************************************************************************)
EXTENDS Integers, SequencesExt

CONSTANT Tolerance   \* rel_tol and abs_tol, as a distance of numbers

ASSUME ToleranceAssumption == Tolerance \in Nat

None == [shape |-> 0, type |-> "none", number |-> 0]
Nothing == [first |-> None, sum |-> None]   \* "N/A"

Matrices == [shape : Nat, type : {"int", "float"}, number : Int]
Lines == [kind : {"first", "sum", "outputs"}, value : {None}]
           \union [kind : {"matrix"}, value : Matrices \union {None}]
           \union [kind : {"attempt"}, value : Nat]

-----------------------------------------------------------------------------
(* parse_summary *)

(* Mutant: the result of an earlier section is kept. *)
HeaderKept(state, kind) ==
  [state EXCEPT !.section = IF kind = "outputs" THEN "none" ELSE kind]

(* A header opens its section and forgets what an earlier one has given.    *)
Header(state, kind) ==
  IF kind = "outputs" THEN [state EXCEPT !.section = "none"]
  ELSE [state EXCEPT !.section = kind, ![kind] = None]

(* The first matrix of a section is its only candidate. *)
Candidate(state, value) ==
  IF state.section = "none" THEN state
  ELSE [state EXCEPT !.section = "none",
                     ![state.section] = IF value = None THEN @ ELSE value]

ReadLine(state, line) ==
  CASE line.kind \in {"first", "sum", "outputs"} -> Header(state, line.kind)
    [] line.kind = "matrix" -> Candidate(state, line.value)
    [] OTHER -> state

ReadAll(lines) ==
  LET after[n \in 0..Len(lines)] ==
        IF n = 0 THEN [section |-> "none", first |-> None, sum |-> None]
        ELSE ReadLine(after[n - 1], lines[n])
  IN  after[Len(lines)]

(* Mutant: one of the two matrices is enough. *)
ParseEither(lines) ==
  LET end == ReadAll(lines)
  IN  IF end.first = None /\ end.sum = None THEN Nothing
      ELSE [first |-> end.first, sum |-> end.sum]

Parse(lines) ==
  LET end == ReadAll(lines)
  IN  IF None \in {end.first, end.sum} \/ end.first.shape # end.sum.shape THEN Nothing
      ELSE [first |-> end.first, sum |-> end.sum]

(* final_attempt: what follows the last header of a wrapper, if it is of    *)
(* this case.                                                               *)
Attempts(log) == {i \in DOMAIN log : log[i].kind = "attempt"}
LastOf(places) == CHOOSE i \in places : \A k \in places : k <= i

FinalAttempt(log, case) ==
  IF Attempts(log) = {} \/ log[LastOf(Attempts(log))].value # case THEN <<>>
  ELSE SubSeq(log, LastOf(Attempts(log)) + 1, Len(log))

-----------------------------------------------------------------------------
(* compare_results *)

CloseMatrix(a, b) ==
  a.shape = b.shape /\ a.type = b.type /\ a.number - b.number \in -Tolerance..Tolerance
Close(a, b) == CloseMatrix(a.first, b.first) /\ CloseMatrix(a.sum, b.sum)

-----------------------------------------------------------------------------
(* _modal_result: each result joins the first of the groups so far whose    *)
(* base it is close to, or is the base of a new one; the first of the       *)
(* largest groups is the mode.                                              *)
Home(bases, result) == {g \in DOMAIN bases : Close(result, bases[g].base)}
FirstOf(places) == CHOOSE g \in places : \A k \in places : g <= k

(* Mutant: a result is only compared with the newest base. *)
JoinNewest(bases, result) ==
  IF bases = <<>> \/ ~Close(result, Last(bases).base)
  THEN Append(bases, [base |-> result, count |-> 1])
  ELSE [bases EXCEPT ![Len(bases)].count = @ + 1]

Join(bases, result) ==
  IF Home(bases, result) = {} THEN Append(bases, [base |-> result, count |-> 1])
  ELSE [bases EXCEPT ![FirstOf(Home(bases, result))].count = @ + 1]

Bases(results) ==
  LET after[n \in 0..Len(results)] == IF n = 0 THEN <<>> ELSE Join(after[n - 1], results[n])
  IN  after[Len(results)]

(* Mutant: the first group is taken for the largest. *)
OldestBase(bases) == bases[1]

LargestBase(bases) ==
  bases[FirstOf({g \in DOMAIN bases : \A k \in DOMAIN bases : bases[k].count <= bases[g].count})]

(* What analyze_run and reanalyze make of the results of a group. *)
Judge(results) ==
  LET mode == LargestBase(Bases(results))
  IN  [mode |-> mode.base, count |-> mode.count,
       anomalies |-> {i \in DOMAIN results : ~Close(results[i], mode.base)}]
=============================================================================
