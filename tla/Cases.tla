-------------------------------- MODULE Cases --------------------------------
(***************************************************************************)
(* The universe of test cases and the selection of a run (matrix_common.py *)
(* and the first part of matrix_jobs.py).                                  *)
(*                                                                         *)
(* A case is a record with one value per axis.  iter_cases enumerates the  *)
(* cases in ten nested loops, one per axis; the position of a case in the  *)
(* enumeration without filters is its job_id.  A hash of the case stands   *)
(* for the case (params_hash), and a selection is the sequence of its job  *)
(* ids, which is what insert_jobs writes in the order of seq.              *)
(***************************************************************************)
EXTENDS Integers, SequencesExt

CONSTANT Axis   \* Axis[field]: the values of an axis, in the order of the source

AXIS_ORDER == <<"provider", "device", "model", "dl_mode", "layout", "scorep", "api_mode",
                "api_lang", "workload", "batch_size">>
ASSUME AxisAssumption ==
  /\ DOMAIN Axis = ToSet(AXIS_ORDER)
  /\ \A field \in DOMAIN Axis :
       Axis[field] \in Seq(ToSet(Axis[field])) /\ IsInjective(Axis[field])

MultiModes == {"ORDERED_MULTI", "KEYED_MULTI"}

(* [item for item in items if item in wanted] *)
Keep(items, wanted) ==
  LET kept[n \in 0..Len(items)] ==
        IF n = 0 THEN <<>>
        ELSE IF items[n] \in wanted THEN Append(kept[n - 1], items[n]) ELSE kept[n - 1]
  IN  kept[Len(items)]

(* A filter maps some of the axes to the values asked for.  All but the     *)
(* workloads and batch sizes are put in the order of the axis; these two    *)
(* are taken as they were given.                                            *)
AsGiven == {"workload", "batch_size"}
PickAsGiven(wanted, allowed) == wanted   \* Mutant: in the order of the command line.
Pick(wanted, allowed) == Keep(allowed, ToSet(wanted))

Wanted(filter, field) ==
  IF field \notin DOMAIN filter THEN Axis[field]
  ELSE IF field \in AsGiven THEN filter[field] ELSE Pick(filter[field], Axis[field])

(* The applicability rules: only PHYDLL has a mode of its client and a      *)
(* layout, and the MMCP transformer needs an API for several models.        *)
Applicable(filter, case, field) ==
  CASE field \in {"dl_mode", "layout"} /\ case.provider # "PHYDLL" -> <<"-">>
    [] field = "api_mode" /\ case.model = "mmcp_transformer" ->
         Keep(Wanted(filter, field), MultiModes)
    [] OTHER -> Wanted(filter, field)

With(case, field, value) ==
  [f \in DOMAIN case \union {field} |-> IF f = field THEN value ELSE case[f]]
Branches(filter, case, field) ==
  LET values == Applicable(filter, case, field)
  IN  [v \in DOMAIN values |-> With(case, field, values[v])]
Nested(filter, cases, field) ==
  FlattenSeq([i \in DOMAIN cases |-> Branches(filter, cases[i], field)])

IterCases(filter) ==
  LET loop[n \in 0..Len(AXIS_ORDER)] ==
        IF n = 0 THEN << <<>> >> ELSE Nested(filter, loop[n - 1], AXIS_ORDER[n])
  IN  loop[Len(AXIS_ORDER)]

NoFilter == [field \in {} |-> <<>>]
Universe == IterCases(NoFilter)                          \* case_index
JobId(case) == CHOOSE id \in DOMAIN Universe : Universe[id] = case

(* select_cases: the job ids of the filtered cases; a workload or a batch   *)
(* size that is not on the axis is a KeyError.                              *)
Known(filter) == ToSet(IterCases(filter)) \subseteq ToSet(Universe)
SelectCases(filter) == LET cases == IterCases(filter)
                       IN  [i \in DOMAIN cases |-> JobId(cases[i])]

-----------------------------------------------------------------------------
(* apply_selection and cmd_rerun *)

Unique(ids) ==
  LET ordered[n \in 0..Len(ids)] ==
        IF n = 0 THEN <<>>
        ELSE IF Contains(ordered[n - 1], ids[n]) THEN ordered[n - 1]
             ELSE Append(ordered[n - 1], ids[n])
  IN  ordered[Len(ids)]

(* What --job-ids, --sample and --max-cases make of the filtered ids: the   *)
(* set of sequences that may come out, none if the command is refused.      *)
Narrow(selected, how) ==
  CASE how.mode = "all" -> {selected}
    [] how.mode = "job_ids" ->
         {ids \in {Unique(how.ids)} : ToSet(ids) \subseteq ToSet(selected)}
    [] how.mode = "sample" ->
         LET m == Min({how.n, Len(selected)})
         IN  {[i \in 1..m |-> selected[at[i]]] :
                at \in {f \in [1..m -> DOMAIN selected] : how.n > 0 /\ IsInjective(f)}}
    [] how.mode = "max_cases" ->
         {SubSeq(selected, 1, Min({n, Len(selected)})) : n \in {how.n} \cap (Nat \ {0})}

(* The cases of a finished run that ended in one of the statuses, by seq.   *)
Again(source, statuses) ==
  LET chosen == Keep(source, {row \in ToSet(source) : row.status \in statuses})
  IN  [i \in DOMAIN chosen |-> chosen[i].job]

-----------------------------------------------------------------------------
(* The reference: a case is selected if it has a wanted value on each axis. *)
Matches(case, filter) ==
  \A field \in DOMAIN filter :
    \/ case[field] \in ToSet(filter[field])
    \/ field \in {"dl_mode", "layout"} /\ case.provider # "PHYDLL"
Filtered(filter) == Keep([id \in DOMAIN Universe |-> id],
                         {id \in DOMAIN Universe : Matches(Universe[id], filter)})
(* What is taken as it was given is in the order of the axis. *)
InAxisOrder(filter) ==
  \A field \in AsGiven \cap DOMAIN filter : filter[field] = Pick(filter[field], Axis[field])
=============================================================================
