---------------------------- MODULE MCRunRecord ----------------------------
(* An instance of RunRecord for TLC: a universe of eighteen cases. *)
EXTENDS RunRecord

MCAxis ==
  [provider |-> <<"AIX", "PHYDLL">>, device |-> <<"CPU">>,
   model |-> <<"perfect", "mmcp_transformer">>, dl_mode |-> <<"cpp", "python">>,
   layout |-> <<"packed">>, scorep |-> <<"off">>, api_mode |-> <<"STATIC", "KEYED_MULTI">>,
   api_lang |-> <<"cpp">>, workload |-> << <<1, 1>>, <<5, 2>> >>, batch_size |-> <<1>>]

Submit(executor, filter, how) ==
  [kind |-> "submit", executor |-> executor, filter |-> filter, how |-> how]

MCArgs ==
  {Submit("slurm", [provider |-> <<"AIX">>, api_mode |-> <<"KEYED_MULTI", "STATIC">>],
          [mode |-> "max_cases", n |-> 2]),
   Submit("local", [provider |-> <<"PHYDLL">>, model |-> <<"mmcp_transformer">>,
                    dl_mode |-> <<"python">>, workload |-> << <<5, 2>> >>], [mode |-> "all"]),
   Submit("local", [provider |-> <<"PHYDLL">>, workload |-> << <<5, 2>>, <<1, 1>> >>],
          [mode |-> "max_cases", n |-> 1]),
   Submit("local", [provider |-> <<"AIX">>], [mode |-> "job_ids", ids |-> <<2, 2>>]),
   Submit("local", [provider |-> <<"SMARTSIM">>], [mode |-> "all"]),
   Submit("local", [provider |-> <<"AIX">>, model |-> <<"mmcp_transformer">>,
                    workload |-> << <<1, 1>> >>],
          [mode |-> "sample", n |-> 2]),
   [kind |-> "rerun", executor |-> "local", statuses |-> {"failed", "timeout"}]}

MCSource == << [job |-> 11, status |-> "success"], [job |-> 2, status |-> "failed"],
               [job |-> 7, status |-> "cancelled"], [job |-> 6, status |-> "success"] >>

MCResults == {[status |-> "success", result_valid |-> valid] : valid \in BOOLEAN}
=============================================================================
