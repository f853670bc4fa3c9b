---------------------------- MODULE MCReanalysis ----------------------------
(* An instance of Reanalysis for TLC: four cases, three of them in a group. *)
EXTENDS Reanalysis

MCJobs == 1..4
MCGroup == <<"a", "a", "a", "b">>

Matrix(number) == [shape |-> 1, type |-> "float", number |-> number]
Line(kind, value) == [kind |-> kind, value |-> value]
Printed(number) == <<Line("first", None), Line("matrix", Matrix(number)),
                     Line("sum", None), Line("matrix", Matrix(number))>>
Good(j, number) == <<Line("attempt", j)>> \o Printed(number)

(* What a log may hold beyond one good attempt. *)
Alphabet(j) ==
  {Line("attempt", j), Line("first", None), Line("sum", None), Line("outputs", None),
   Line("matrix", None), Line("matrix", Matrix(1)),
   Line("matrix", [shape |-> 2, type |-> "float", number |-> 1])}
OddLogs(j) ==
  {Good(j, 0) \o tail : tail \in UNION {[1..n -> Alphabet(j)] : n \in 1..4}}
  \union {<<>>, Good(j, 0) \o <<Line("attempt", j + 1)>> \o Printed(0),
          Good(j, 0) \o <<Line("attempt", j)>> \o Printed(1)}

(* Every combination of results in the group, integers among them, or one   *)
(* odd log.                                                                 *)
Whole(number) == [shape |-> 1, type |-> "int", number |-> number]
Clean(results) ==
  [j \in MCJobs |-> <<Line("attempt", j), Line("first", None), Line("matrix", results[j]),
                      Line("sum", None), Line("matrix", results[j])>>]
MCLogs ==
  {Clean(results) : results \in
     {<<a, b, c, Matrix(0)>> : a, b, c \in {Matrix(0), Matrix(1), Matrix(2), Whole(0)}}}
  \union {[Clean(<<Matrix(0), Matrix(0), Matrix(1), Matrix(0)>>) EXCEPT ![3] = log] :
            log \in OddLogs(3)}
=============================================================================
