----------------------------- MODULE MCArchive -----------------------------
(***************************************************************************)
(* The archive where something must happen in the end: the loops over      *)
(* control.json (Reservation), and the life of snapshots (Lifecycle) where *)
(* processes only die, and where requests raise.  Each moves in behaviours *)
(* of its own.                                                             *)
(***************************************************************************)
EXTENDS Reservation

CONSTANTS Ids, NoState, MaxTasks       \* of Lifecycle, MaxTasks its MaxFence

VARIABLES
  part,                                \* which of them moves
  epoch,                               \* `fence` of Lifecycle
  holder, live, records, sidecar, objects, used, session

reservation == vars
lifecycle == <<epoch, holder, live, records, sidecar, objects, used, session>>
archivevars == <<part, reservation, lifecycle>>

\* The catalogs that are at work on snapshots, and whose loops are followed.
Followed == {CHOOSE c \in Catalogs : TRUE}

Crashing == INSTANCE Lifecycle WITH
  Catalogs <- Followed, Tasks <- {"write", "copy"}, Repeats <- {1, 2}, Faults <- {},
  MaxFence <- MaxTasks, fence <- epoch

Failing == INSTANCE Lifecycle WITH
  Catalogs <- Followed, Tasks <- {"write", "copy"}, Repeats <- {1}, Faults <- {"raise"},
  MaxFence <- MaxTasks, fence <- epoch

ArchiveInit ==
  /\ part \in {"contended", "crashing", "failing"}
  /\ Init
  /\ Crashing!Init

\* Bound: catalogs are alike, so what follows a successful claim is looked at for one
\* of them; the others contend with their claims, their renewal threads and deaths.
OneGoesOn == \A c \in Catalogs \ Followed : main'[c] \in {"idle", "claim", "held"}

\* Bound: no snapshot is pinned.
Unpinned ==
  \A c \in Followed : session'[c].draft # NoState => ~session'[c].draft.pinned

\* Bound: where requests raise nobody dies, and the last task is a capture, which
\* cleans up after the copies before it.
CopiesFirst ==
  \A c \in Followed :
    LET s == session'[c] IN
    /\ session[c].at = "out" /\ s.at # "out" =>
         s.task = IF epoch' = MaxTasks THEN "write" ELSE "copy"
    /\ session[c].at # "out" /\ s.at = "out" => session[c].at = "leave"

ArchiveNext ==
  \/ part = "contended" /\ Next /\ OneGoesOn /\ UNCHANGED <<part, lifecycle>>
  \/ part = "crashing" /\ Crashing!Next /\ Unpinned /\ UNCHANGED <<part, reservation>>
  \/ part = "failing" /\ Failing!Next /\ Unpinned /\ CopiesFirst
     /\ UNCHANGED <<part, reservation>>

ArchiveSpec == ArchiveInit /\ [][ArchiveNext]_archivevars

-----------------------------------------------------------------------------
\* Every claim, check, mutation and release of a catalog whose own threads are
\* scheduled ends, whatever the other catalogs do: contention, lost replies and
\* renewals, the one that check() makes included, never keep the main thread in a
\* compare-and-swap loop, nor in a join of a renewal thread that does not stop.
LoopsEnd ==
  \A c \in Followed :
    WF_vars(MainLoops(c)) /\ WF_vars(RenewerLoops(c)) =>
      (main[c] \in Looping \cup {"check", "join"} ~> main[c] \in {"held", "idle"})

\* Crashes leave nothing that the next capture does not account for and clean up,
\* where processes only die.
CrashesHeal == part = "crashing" => Crashing!CrashesHeal

\* Every task of a process that goes on ends, though requests raise: neither cleanup
\* that keeps failing and then turns to the next record, nor rotation, nor a rollback
\* that fails keeps a catalog at work for ever.
TasksEnd ==
  \A c \in Followed :
    WF_lifecycle(part = "failing" /\ Failing!Works(c)) =>
      (part = "failing" /\ session[c].at # "out" ~> session[c].at = "out")
=============================================================================
