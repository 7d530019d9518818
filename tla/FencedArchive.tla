---------------------------- MODULE FencedArchive ----------------------------
(***************************************************************************)
(* What the reservation of one snapshot archive promises, with neither     *)
(* time nor retries: at most one catalog holds the archive, every grant    *)
(* raises the fence, and only the catalog that holds it at the current     *)
(* fence changes the lifecycle records.  Reservation implements this.      *)
(***************************************************************************)
EXTENDS Integers

CONSTANTS Catalogs,  \* the Catalog objects that may claim the archive
          NoOne      \* the holder of an unreserved archive

VARIABLES fence,     \* how many grants there have been
          holder,    \* the catalog of the latest grant, until it releases it
          author     \* who last changed the lifecycle records, at which fence

vars == <<fence, holder, author>>

Nobody == [by |-> NoOne, at |-> 0]

Init == fence = 0 /\ holder = NoOne /\ author = Nobody

\* A grant may displace a holder: its lease ran out.
Grant(c) ==
  /\ fence' = fence + 1
  /\ holder' = c
  /\ UNCHANGED author

Release ==
  /\ holder' = NoOne
  /\ UNCHANGED <<fence, author>>

Change(c) ==
  /\ holder = c
  /\ author' = [by |-> c, at |-> fence]
  /\ UNCHANGED <<fence, holder>>

Next == Release \/ \E c \in Catalogs : Grant(c) \/ Change(c)

Spec == Init /\ [][Next]_vars
=============================================================================
