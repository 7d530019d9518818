-------------------------- MODULE MCAppendCompact --------------------------
(* Runs of one source that overlap, beside compaction. *)
EXTENDS AppendCompact, TLC

Symmetry == Permutations(Compactors)
=============================================================================
