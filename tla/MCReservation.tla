--------------------------- MODULE MCReservation ---------------------------
(* Two catalogs that contend for one archive. *)
EXTENDS Reservation, TLC

Symmetry == Permutations(Catalogs)
=============================================================================
