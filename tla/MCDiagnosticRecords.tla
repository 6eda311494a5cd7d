------------------------- MODULE MCDiagnosticRecords -------------------------
(* Commands that may end at the same time.                                  *)
EXTENDS DiagnosticRecords, TLC

Symmetry == Permutations(Runs)

=============================================================================
