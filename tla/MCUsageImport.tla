--------------------------- MODULE MCUsageImport ---------------------------
(* Model checking UsageImport: the statistics are interchangeable model values. *)
EXTENDS UsageImportProperties, TLC

Symmetry == Permutations(Stat)
=============================================================================
