---------------------------- MODULE MCToolCalls ----------------------------
(* Texts to look for that are there once, twice, overlapping or never, and the *)
(* symmetry of the tasks.                                                      *)
EXTENDS ToolCalls, TLC

CONSTANT a \* a chunk that does not end a line

MCSearches == {<<>>, <<a>>, <<LF>>, <<CRLF>>, <<LF, LF>>, <<a, LF>>}
MCReplacements == {<<>>, <<a>>, <<CRLF>>}

Symmetry == Permutations(TaskIds)

=============================================================================
