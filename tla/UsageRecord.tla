------------------------------ MODULE UsageRecord ------------------------------
(***************************************************************************)
(* What a history of usage promises, whatever stores it: it never invents  *)
(* usage and never forgets any.  On every day it shows some of what was    *)
(* used, and shows no less later.                                          *)
(***************************************************************************)
EXTENDS Naturals

CONSTANT Days

VARIABLES used,     \* per day: the tokens used
          recorded  \* per day: the tokens that the history shows

Init == used \in [Days -> {0}] /\ recorded \in [Days -> {0}]

Use(d) ==
  /\ used' = [used EXCEPT ![d] = used'[d]]
  /\ used'[d] \in Nat /\ used'[d] > used[d]
  /\ UNCHANGED recorded

\* A publication changes any number of days at once.
Record ==
  /\ recorded' \in [Days -> Nat]
  /\ \A d \in Days : recorded[d] <= recorded'[d] /\ recorded'[d] <= used[d]
  /\ UNCHANGED used

Next == Record \/ \E d \in Days : Use(d)

Spec == Init /\ [][Next]_<<used, recorded>>
=============================================================================
