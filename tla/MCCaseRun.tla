----------------------------- MODULE MCCaseRun ------------------------------
(* An instance of CaseRun for TLC: a result, half of one, or nothing. *)
EXTENDS CaseRun

Line(kind, value) == [kind |-> kind, value |-> value]
Whole == LET matrix == Line("matrix", [shape |-> 1, type |-> "float", number |-> 1])
         IN  <<Line("first", None), matrix, Line("sum", None), matrix>>
MCOutputs == {<<>>, SubSeq(Whole, 1, 2), Whole}
=============================================================================
