--------------------------- MODULE RecoveryPoints ---------------------------
(***************************************************************************)
(* What an archive promises about its snapshots, whoever works on it and   *)
(* however that work is interrupted: a snapshot is published only when it  *)
(* is whole, a published one stays whole and stays pinned, and one that    *)
(* was retired never comes back.  Lifecycle implements this.               *)
(***************************************************************************)
CONSTANT Ids       \* the identities of snapshots

VARIABLES phase,   \* "none", "staged", "published" or "retired"
          pinned,  \* is it exempt from rotation?
          whole    \* are all its objects there?

vars == <<phase, pinned, whole>>

Init ==
  /\ phase = [i \in Ids |-> "none"]
  /\ pinned = [i \in Ids |-> FALSE]
  /\ whole = [i \in Ids |-> FALSE]

Stage(i) ==
  /\ phase[i] = "none"
  /\ phase' = [phase EXCEPT ![i] = "staged"]
  /\ \E pin \in BOOLEAN : pinned' = [pinned EXCEPT ![i] = pin]
  /\ UNCHANGED whole

\* Objects come and go, but not those of a published snapshot.
Fill(i) ==
  /\ phase[i] # "published"
  /\ \E full \in BOOLEAN : whole' = [whole EXCEPT ![i] = full]
  /\ UNCHANGED <<phase, pinned>>

Publish(i) ==
  /\ phase[i] = "staged" /\ whole[i]
  /\ phase' = [phase EXCEPT ![i] = "published"]
  /\ UNCHANGED <<pinned, whole>>

Pin(i) ==
  /\ phase[i] \in {"staged", "published"}
  /\ pinned' = [pinned EXCEPT ![i] = TRUE]
  /\ UNCHANGED <<phase, whole>>

Retire(i) ==
  /\ phase[i] \in {"staged", "published"}
  /\ phase' = [phase EXCEPT ![i] = "retired"]
  /\ UNCHANGED <<pinned, whole>>

Forget(i) ==
  /\ phase[i] = "retired"
  /\ phase' = [phase EXCEPT ![i] = "none"]
  /\ pinned' = [pinned EXCEPT ![i] = FALSE]
  /\ UNCHANGED whole

Next == \E i \in Ids : Stage(i) \/ Fill(i) \/ Publish(i) \/ Pin(i) \/ Retire(i) \/ Forget(i)

Spec == Init /\ [][Next]_vars
=============================================================================
