---------------------------- MODULE MCLifecycle ----------------------------
(* Catalogs that capture, copy, pin and delete the same few snapshots. *)
EXTENDS Lifecycle, TLC

Symmetry == Permutations(Catalogs) \cup Permutations(Ids)
=============================================================================
