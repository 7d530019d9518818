--------------------------- MODULE VersionedObject ---------------------------
(***************************************************************************)
(* What SnapshotBucket promises of one object (buckets/base.py): version-  *)
(* aware reads, compare-and-swap publication and exact-version deletion,   *)
(* so that reading, changing and writing is one step.  The reservation and *)
(* the catalog rest on it.                                                 *)
(***************************************************************************)
EXTENDS Naturals, Sequences

CONSTANT Calls   \* the calls that read the object and then write or delete it

VARIABLES
  history,   \* every content the object has had, by version
  current,   \* its version, 0 when there is no object
  effected    \* the calls that replaced or deleted what they had read

ovars == <<history, current, effected>>

ObjectInit == history = <<>> /\ current = 0 /\ effected = {}

Content == IF current = 0 THEN {} ELSE history[current]

Publish(content) ==
  /\ history' = Append(history, content) /\ current' = Len(history')

\* A create may be repeated once its object has been deleted.
Create(c) == current = 0 /\ Publish({c}) /\ UNCHANGED effected

Change(c) ==
  /\ current # 0 /\ c \notin effected /\ effected' = effected \cup {c}
  /\ \/ Publish(Content \cup {c})
     \/ current' = 0 /\ UNCHANGED history

ObjectNext == \E c \in Calls : Create(c) \/ Change(c)
ObjectSpec == ObjectInit /\ [][ObjectNext]_ovars
=============================================================================
