-------------------------- MODULE MCTraceInspector --------------------------
(* Rounds of one and of two calls, for every column of the report. *)
EXTENDS TraceInspector

MCAnswers == {
    <<"bash_async">>,
    <<"wait_and_tail">>,
    <<"kill_process", "bash_async">>,
    <<"run_bash_with_truncation", "run_bash_with_truncation">>}

Symmetry == Permutations(Nodes)

=============================================================================
