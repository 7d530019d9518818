------------------------------ MODULE Lifecycle ------------------------------
(***************************************************************************)
(* The life of the snapshots of one archive (snapshot/catalog.py and the   *)
(* operations of archiver.py that drive it): the records in control.json,  *)
(* the sidecar state.json of each snapshot and its immutable objects.      *)
(*                                                                         *)
(* Catalogs work on the archive one operation at a time, inside hold().    *)
(* The reservation is what Reservation shows it to be: fences only grow    *)
(* and records change only at the fence of the reservation.  A catalog     *)
(* whose lease ran out does not know it until it checks: it may be         *)
(* anywhere, with a request about to be sent, while others go on.          *)
(*                                                                         *)
(* A version of an object is the fence of the operation that created it:   *)
(* an operation creates each object at most once.                          *)
(***************************************************************************)
EXTENDS Naturals

CONSTANTS Ids,       \* snapshot identities
          Catalogs,  \* concurrent Catalog objects
          NoOne,     \* the absent holder
          NoState,   \* the absent lifecycle state
          Tasks,     \* the tasks that are begun, of "write", "copy", "pin", "delete"
          Repeats,   \* how often mutate() applies a change: {1}, {1, 2} if replies are lost
          Faults,    \* "raise": requests fail; "overtaken": leases lapse under living holders
          MaxFence   \* bound: no task begins once the fence is here

ASSUME LifecycleAssumption ==
  /\ Ids # {} /\ NoOne \notin Catalogs
  /\ Tasks \subseteq {"write", "copy", "pin", "delete"}
  /\ Repeats \subseteq Nat \ {0}
  /\ Faults \subseteq {"raise", "overtaken"}
  /\ MaxFence \in Nat

\* The objects of a snapshot: the tables with their manifest, and the marker.
Names == {"data", "COMPLETE"}
Absent == 0
Version == Nat \ {Absent}
Refs == Names \X Version

State ==
  [fence: Version, published: BOOLEAN, retired: BOOLEAN, pinned: BOOLEAN,
   revision: Nat, cleanup: SUBSET Refs]
States == State \cup {NoState}

ASSUME NoStateAssumption == NoState \notin State

VARIABLES
  fence, holder, live,  \* the reservation: is its lease still running?
  records,              \* the lifecycle records of control.json
  sidecar,              \* <id>/state.json
  objects,              \* the version of each object, or Absent
  used,                 \* the identities that captures have drawn
  session               \* what each catalog is doing

reservation == <<fence, holder, live>>
archive == <<records, sidecar, objects>>
vars == <<fence, holder, live, records, sidecar, objects, used, session>>

\* The part of its task that a catalog is in decides where it goes on when a
\* transition or a retirement ends or fails.
Part == {"resume", "stage", "make", "rotate", "pin", "end"}

At == {"out", "resume", "complete?", "stage", "check data", "put data",
       "check COMPLETE", "put COMPLETE", "verify", "publish", "rotate", "pin",
       "rollback", "list", "commit", "project", "authorise", "write sidecar",
       "delete", "delete one", "remaining", "drop sidecar", "forget", "forgetting",
       "leave"}

Session ==
  [task: Tasks \cup {"pin"}, at: At, part: Part,
   own: Ids,                    \* the snapshot the task is about
   id: Ids,                     \* the snapshot a transition or retirement is about
   fence: Nat,
   draft: States,               \* the state read, then committed, then projected
   seen: States,                \* the version of the sidecar when it was read
   refs: SUBSET Refs,           \* what retirement has still to delete
   todo: SUBSET Ids]            \* what resume_cleanup has still to look at

TypeOK ==
  /\ fence \in Nat /\ holder \in Catalogs \cup {NoOne} /\ live \in BOOLEAN
  /\ records \in [Ids -> States]
  /\ sidecar \in [Ids -> States]
  /\ objects \in [Ids -> [Names -> Nat]]
  /\ used \in SUBSET Ids
  /\ session \in [Catalogs -> Session]

Idle ==
  [task |-> "pin", at |-> "out", part |-> "end", own |-> CHOOSE i \in Ids : TRUE,
   id |-> CHOOSE i \in Ids : TRUE, fence |-> 0, draft |-> NoState, seen |-> NoState,
   refs |-> {}, todo |-> {}]

Init ==
  /\ fence = 0 /\ holder = NoOne /\ live = FALSE
  /\ records = [i \in Ids |-> NoState]
  /\ sidecar = [i \in Ids |-> NoState]
  /\ objects = [i \in Ids |-> [n \in Names |-> Absent]]
  /\ used = {}
  /\ session = [c \in Catalogs |-> Idle]

-----------------------------------------------------------------------------
(* The reservation, as the operations see it.                              *)

\* What decides a compare-and-swap of control.json: nobody claimed since.
Owner(c) == holder = c /\ fence = session[c].fence

\* check(): the reservation is one's own and its lease runs.
Authority(c) == Owner(c) /\ live

\* The lease runs out: its holder died, was suspended, or failed to renew it.
Lapse ==
  /\ live
  /\ "overtaken" \in Faults \/ ~\E c \in Catalogs : Owner(c)
  /\ live' = FALSE
  /\ UNCHANGED <<fence, holder, archive, used, session>>

\* hold() for a new task.  A capture draws a fresh identity.
Begin(c) ==
  /\ session[c].at = "out" /\ ~live /\ fence < MaxFence
  /\ fence' = fence + 1 /\ holder' = c /\ live' = TRUE
  /\ \E task \in Tasks, i \in Ids :
       /\ task = "write" => i \notin used
       /\ used' = IF task = "write" THEN used \cup {i} ELSE used
       /\ session' = [session EXCEPT ![c] =
            [Idle EXCEPT !.task = task, !.own = i, !.id = i, !.fence = fence + 1,
               !.at = CASE task = "write" -> "resume" [] task = "copy" -> "stage"
                        [] task = "pin" -> "pin" [] task = "delete" -> "list",
               !.part = CASE task = "write" -> "resume" [] task = "copy" -> "stage"
                        [] task = "pin" -> "pin" [] task = "delete" -> "end",
               !.todo = IF task = "write" THEN {j \in Ids : records[j] # NoState} ELSE {}]]
  /\ UNCHANGED archive

\* hold() ends.
Leave(c) ==
  /\ session[c].at = "leave"
  /\ session' = [session EXCEPT ![c] = Idle]
  /\ IF Owner(c)
     THEN holder' = NoOne /\ live' = FALSE /\ UNCHANGED fence
     ELSE UNCHANGED reservation
  /\ UNCHANGED <<archive, used>>

\* The process dies, or its release fails: the reservation is left to lapse.
Crash(c) ==
  /\ session[c].at # "out"
  /\ session' = [session EXCEPT ![c] = Idle]
  /\ UNCHANGED <<reservation, archive, used>>

-----------------------------------------------------------------------------
(* Moving through a task.                                                  *)

Goes(c, at) == session' = [session EXCEPT ![c].at = at]

GoesIn(c, at, part) ==
  session' = [session EXCEPT ![c].at = at, ![c].part = part,
    ![c].draft = NoState, ![c].seen = NoState, ![c].refs = {}]

\* Where an exception leads: cleanup that fails before the work is logged; work
\* that fails once its staging is under way is rolled back, except that a copy
\* stages outside its `try`; all else ends the task.
Fails(c) ==
  LET s == session[c] IN
  IF s.part = "resume" THEN GoesIn(c, "resume", "resume")
  ELSE IF \/ s.part \in {"make", "rotate"}
          \/ s.part = "stage" /\ s.task = "write"
       THEN GoesIn(c, "rollback", "end")
       ELSE GoesIn(c, "leave", "end")

\* A request that took effect may still raise: its reply was lost.
ReplyLost(c) == "raise" \in Faults /\ Fails(c)

\* After a transition: its retirement goes on, or the task does.
Projected(c) ==
  LET s == session[c] IN
  CASE s.part = "stage" -> GoesIn(c, "check data", "make")
    [] s.part = "make" /\ s.task = "write" -> GoesIn(c, "rotate", "rotate")
    [] s.part = "make" /\ s.task = "copy" -> GoesIn(c, "leave", "end")
    [] s.part = "pin" -> GoesIn(c, "leave", "end")
    [] OTHER -> Goes(c, "delete")

Retired(c) ==
  IF session[c].part \in {"resume", "rotate"}
  THEN GoesIn(c, session[c].part, session[c].part)
  ELSE GoesIn(c, "leave", "end")

\* The catalog goes on to `at` if `guard` holds, and fails otherwise.
Demands(c, guard, at) ==
  /\ IF guard THEN Goes(c, at) ELSE Fails(c)
  /\ UNCHANGED <<reservation, archive, used>>

\* Any request may raise without effect.
Raise(c) ==
  /\ session[c].at \notin {"out", "leave"}
  /\ "raise" \in Faults
  /\ Fails(c)
  /\ UNCHANGED <<reservation, archive, used>>

-----------------------------------------------------------------------------
(* transition(): commit to control.json, then project to the sidecar.      *)

\* A retired identity is not brought back.  If the reply to the write is lost the
\* store refuses its repetition: mutate() reads again and applies the change to
\* the result, or the task fails with the change made.
Commit(c) ==
  LET s == session[c]  previous == records[s.id]
      base == IF previous = NoState THEN 0 ELSE previous.revision
      refused == previous # NoState /\ previous.retired /\ ~s.draft.retired
  IN /\ s.at = "commit"
     /\ IF Owner(c) /\ ~refused
        THEN \E applied \in Repeats :
               LET new == [s.draft EXCEPT !.revision = base + applied] IN
               /\ records' = [records EXCEPT ![s.id] = new]
               /\ \/ session' = [session EXCEPT ![c].at = "project", ![c].draft = new]
                  \/ ReplyLost(c)
        ELSE Fails(c) /\ UNCHANGED records
     /\ UNCHANGED <<reservation, sidecar, objects, used>>

Project(c) ==
  /\ session[c].at = "project"
  /\ session' = [session EXCEPT ![c].at = "authorise", ![c].seen = sidecar[session[c].id]]
  /\ UNCHANGED <<reservation, archive, used>>

\* MUTANT: what was committed is projected without another look.
AuthoriseNothing(c) == session[c].at = "authorise" /\ Demands(c, TRUE, "write sidecar")

\* check() again, and that the record is still the one committed.
Authorise(c) ==
  LET s == session[c] IN
  /\ s.at = "authorise"
  /\ Demands(c, /\ Authority(c) /\ records[s.id] = s.draft
                /\ \/ s.seen \in {NoState, s.draft}
                   \/ s.seen.revision # s.draft.revision,
             "write sidecar")

\* MUTANT: the version of the sidecar is read when it is written.
WriteSidecarBlindly(c) ==
  LET s == session[c] IN
  /\ s.at = "write sidecar"
  /\ sidecar' = [sidecar EXCEPT ![s.id] = s.draft]
  /\ Projected(c)
  /\ UNCHANGED <<reservation, records, objects, used>>

WriteSidecar(c) ==
  LET s == session[c] IN
  /\ s.at = "write sidecar"
  /\ IF sidecar[s.id] = s.seen
     THEN sidecar' = [sidecar EXCEPT ![s.id] = s.draft] /\ (Projected(c) \/ ReplyLost(c))
     ELSE Fails(c) /\ UNCHANGED sidecar
  /\ UNCHANGED <<reservation, records, objects, used>>

-----------------------------------------------------------------------------
(* Capture and copy.                                                       *)

NoObjects(i) == \A n \in Names : objects[i][n] = Absent

Empty(i) == sidecar[i] = NoState /\ NoObjects(i)

\* MUTANT: the identity is recorded only when it is published.
StageUnrecorded(c) ==
  /\ session[c].at = "stage"
  /\ IF records[session[c].own] = NoState /\ Empty(session[c].own)
     THEN GoesIn(c, "check data", "make")
     ELSE Fails(c)
  /\ UNCHANGED <<reservation, archive, used>>

\* stage() of an identity the archive does not know.  A capture and a copy choose
\* whether the snapshot is pinned.
Stage(c) ==
  LET s == session[c] IN
  /\ s.at = "stage"
  /\ IF records[s.own] = NoState /\ Empty(s.own)
     THEN \E pin \in BOOLEAN :
            session' = [session EXCEPT ![c].at = "commit", ![c].id = s.own,
              ![c].draft = [fence |-> s.fence, published |-> FALSE, retired |-> FALSE,
                            pinned |-> pin, revision |-> 0, cleanup |-> {}]]
     ELSE Fails(c)
  /\ UNCHANGED <<reservation, archive, used>>

CheckData(c) == session[c].at = "check data" /\ Demands(c, Authority(c), "put data")

\* MUTANT: an upload replaces an object of the same name.
PutOver(c, n, next) ==
  /\ objects' = [objects EXCEPT ![session[c].own][n] = session[c].fence]
  /\ Goes(c, next)

\* upload_file() and the creation of COMPLETE by a copy: create-only.  When the
\* reply is lost the repetition is refused, and the task fails.
Put(c, n, next) ==
  LET i == session[c].own IN
  IF objects[i][n] = Absent
  THEN objects' = [objects EXCEPT ![i][n] = session[c].fence] /\ (Goes(c, next) \/ ReplyLost(c))
  ELSE Fails(c) /\ UNCHANGED objects

\* A capture goes on to COMPLETE at once, a copy checks again.
PutData(c) ==
  /\ session[c].at = "put data"
  /\ Put(c, "data", IF session[c].task = "copy" THEN "check COMPLETE" ELSE "put COMPLETE")
  /\ UNCHANGED <<reservation, records, sidecar, used>>

CheckComplete(c) ==
  session[c].at = "check COMPLETE" /\ Demands(c, Authority(c), "put COMPLETE")

PutComplete(c) ==
  /\ session[c].at = "put COMPLETE"
  /\ Put(c, "COMPLETE", "verify")
  /\ UNCHANGED <<reservation, records, sidecar, used>>

\* The copy is downloaded and compared with its digests.
Verify(c) ==
  /\ session[c].at = "verify"
  /\ Demands(c, \A n \in Names : objects[session[c].own][n] # Absent, "publish")

\* publish() of what one has staged oneself.
Publish(c) ==
  LET s == session[c]  state == records[s.own] IN
  /\ s.at = "publish"
  /\ IF Authority(c) /\ state # NoState /\ state.fence = s.fence
     THEN session' = [session EXCEPT
            ![c].at = "commit", ![c].draft = [state EXCEPT !.published = TRUE]]
     ELSE Fails(c)
  /\ UNCHANGED <<reservation, archive, used>>

\* _rollback() of a capture keeps what was published; a copy retires even that.
Rollback(c) ==
  LET s == session[c]  state == records[s.own] IN
  /\ s.at = "rollback"
  /\ IF Authority(c) /\ ~(s.task = "write" /\ state # NoState /\ state.published)
     THEN session' = [session EXCEPT ![c].at = "list", ![c].id = s.own]
     ELSE Fails(c)
  /\ UNCHANGED <<reservation, archive, used>>

Pin(c) ==
  LET s == session[c]  state == records[s.own] IN
  /\ s.at = "pin"
  /\ IF state # NoState /\ ~state.retired
     THEN session' = [session EXCEPT
            ![c].at = "commit", ![c].draft = [state EXCEPT !.pinned = TRUE]]
     ELSE Fails(c)
  /\ UNCHANGED <<reservation, archive, used>>

-----------------------------------------------------------------------------
(* Which snapshots are retired.                                            *)

\* MUTANT: only what was retired is resumed.
ResumeRetired(c) ==
  LET s == session[c] IN
  /\ s.at = "resume"
  /\ IF s.todo = {}
     THEN GoesIn(c, "stage", "stage")
     ELSE \E i \in s.todo :
            session' = [session EXCEPT ![c].todo = @ \ {i}, ![c].id = i, ![c].at =
              IF records[i] # NoState /\ records[i].retired THEN "list" ELSE "resume"]
  /\ UNCHANGED <<reservation, archive, used>>

\* MUTANT: what is left to clean up is looked up again after each of them.
ResumeForever(c) ==
  LET s == session[c]
      left == {i \in Ids : records[i] # NoState /\
                 (records[i].retired \/ (~records[i].published /\ records[i].fence < s.fence))}
  IN /\ s.at = "resume"
     /\ IF left = {}
        THEN GoesIn(c, "stage", "stage")
        ELSE \E i \in left : session' = [session EXCEPT ![c].id = i,
               ![c].at = IF records[i].retired THEN "list" ELSE "complete?"]
     /\ UNCHANGED <<reservation, archive, used>>

\* resume_cleanup(): tombstones, and stages of an earlier fence.
Resume(c) ==
  LET s == session[c] IN
  /\ s.at = "resume"
  /\ IF s.todo = {}
     THEN GoesIn(c, "stage", "stage")
     ELSE \E i \in s.todo :
            session' = [session EXCEPT ![c].todo = @ \ {i}, ![c].id = i, ![c].at =
              IF records[i] = NoState THEN "resume"
              ELSE IF records[i].retired THEN "list"
              ELSE IF ~records[i].published /\ records[i].fence < s.fence THEN "complete?"
              ELSE "resume"]
  /\ UNCHANGED <<reservation, archive, used>>

\* An abandoned stage that was completed is kept.
LookForComplete(c) ==
  /\ session[c].at = "complete?"
  /\ Goes(c, IF objects[session[c].id]["COMPLETE"] = Absent THEN "list" ELSE "resume")
  /\ UNCHANGED <<reservation, archive, used>>

\* MUTANT: rotation does not look at pins.
RotateAny(c) ==
  /\ session[c].at = "rotate"
  /\ \/ Goes(c, "leave")
     \/ \E i \in Ids :
          /\ records[i] # NoState /\ records[i].published /\ ~records[i].retired
          /\ session' = [session EXCEPT ![c].at = "list", ![c].id = i]
  /\ UNCHANGED <<reservation, archive, used>>

\* rotate(): the next snapshot that is neither pinned nor within its limits, if
\* there is one.  The limits themselves are abstracted.
Rotate(c) ==
  /\ session[c].at = "rotate"
  /\ \/ Goes(c, "leave")
     \/ \E i \in Ids :
          /\ records[i] # NoState /\ records[i].published /\ ~records[i].retired
          /\ ~records[i].pinned
          /\ session' = [session EXCEPT ![c].at = "list", ![c].id = i]
  /\ UNCHANGED <<reservation, archive, used>>

-----------------------------------------------------------------------------
(* retire(): tombstone, delete what was observed, forget.                  *)

\* MUTANT: objects that are not there are listed too.
ObservedAll(i) == {<<n, objects[i][n]>> : n \in Names}

Observed(i) == {<<n, objects[i][n]>> : n \in {m \in Names : objects[i][m] # Absent}}

\* A snapshot that is retired already keeps the list of its tombstone.  There is
\* nothing to retire if the snapshot is not known.
List(c) ==
  LET s == session[c]  state == records[s.id] IN
  /\ s.at = "list"
  /\ IF state = NoState
     THEN Fails(c)
     ELSE session' = [session EXCEPT
            ![c].at = IF state.retired THEN "delete" ELSE "commit",
            ![c].draft = IF state.retired THEN state
                         ELSE [state EXCEPT !.retired = TRUE, !.cleanup = Observed(s.id)],
            ![c].refs = IF state.retired THEN state.cleanup ELSE Observed(s.id)]
  /\ UNCHANGED <<reservation, archive, used>>

\* Before each deletion the reservation is checked.
CheckDelete(c) ==
  LET s == session[c] IN
  /\ s.at = "delete"
  /\ IF s.refs = {}
     THEN Goes(c, "remaining")
     ELSE IF Authority(c) THEN Goes(c, "delete one") ELSE Fails(c)
  /\ UNCHANGED <<reservation, archive, used>>

\* MUTANT: deletion by name, whatever the version.
DeleteByName(c) ==
  LET s == session[c] IN
  /\ s.at = "delete one"
  /\ \E r \in s.refs :
       /\ objects' = [objects EXCEPT ![s.id][r[1]] = Absent]
       /\ session' = [session EXCEPT ![c].at = "delete", ![c].refs = @ \ {r}]
  /\ UNCHANGED <<reservation, records, sidecar, used>>

\* Exactly the observed version is deleted; an object that is gone is skipped.
Delete(c) ==
  LET s == session[c] IN
  /\ s.at = "delete one"
  /\ \E r \in s.refs :
       LET next == [session EXCEPT ![c].at = "delete", ![c].refs = @ \ {r}] IN
       \/ objects[s.id][r[1]] = Absent /\ session' = next /\ UNCHANGED objects
       \/ /\ objects[s.id][r[1]] = r[2]
          /\ objects' = [objects EXCEPT ![s.id][r[1]] = Absent]
          /\ session' = next \/ ReplyLost(c)
       \/ objects[s.id][r[1]] \notin {Absent, r[2]} /\ Fails(c) /\ UNCHANGED objects
  /\ UNCHANGED <<reservation, records, sidecar, used>>

\* An object that nobody observed keeps the tombstone.
Remaining(c) ==
  LET s == session[c]  there == sidecar[s.id] # NoState IN
  /\ s.at = "remaining"
  /\ IF NoObjects(s.id) /\ (there => Authority(c))
     THEN session' = [session EXCEPT ![c].at = IF there THEN "drop sidecar" ELSE "forget",
                                    ![c].seen = sidecar[s.id]]
     ELSE Fails(c)
  /\ UNCHANGED <<reservation, archive, used>>

DropSidecar(c) ==
  LET s == session[c] IN
  /\ s.at = "drop sidecar"
  /\ IF sidecar[s.id] = s.seen
     THEN sidecar' = [sidecar EXCEPT ![s.id] = NoState] /\ (Goes(c, "forget") \/ ReplyLost(c))
     ELSE Fails(c) /\ UNCHANGED sidecar
  /\ UNCHANGED <<reservation, records, objects, used>>

\* The change of the last mutate(): nothing may be left of the snapshot.
CheckForget(c) ==
  LET s == session[c] IN
  /\ s.at = "forget"
  /\ Demands(c, Authority(c) /\ records[s.id] = s.draft /\ Empty(s.id), "forgetting")

Forget(c) ==
  LET s == session[c] IN
  /\ s.at = "forgetting"
  /\ IF Owner(c)
     THEN records' = [records EXCEPT ![s.id] = NoState] /\ (Retired(c) \/ ReplyLost(c))
     ELSE Fails(c) /\ UNCHANGED records
  /\ UNCHANGED <<reservation, sidecar, objects, used>>

-----------------------------------------------------------------------------
Works(c) ==
  \/ Leave(c) \/ Commit(c) \/ Project(c) \/ Authorise(c) \/ WriteSidecar(c)
  \/ Stage(c) \/ CheckData(c) \/ PutData(c) \/ CheckComplete(c) \/ PutComplete(c)
  \/ Verify(c) \/ Publish(c) \/ Rollback(c) \/ Pin(c)
  \/ Resume(c) \/ LookForComplete(c) \/ Rotate(c)
  \/ List(c) \/ CheckDelete(c) \/ Delete(c) \/ Remaining(c)
  \/ DropSidecar(c) \/ CheckForget(c) \/ Forget(c)

Next == Lapse \/ \E c \in Catalogs : Begin(c) \/ Works(c) \/ Raise(c) \/ Crash(c)

Spec == Init /\ [][Next]_vars

-----------------------------------------------------------------------------
(* Correctness.                                                            *)

Known(i) == records[i] # NoState
Published(i) == Known(i) /\ records[i].published /\ ~records[i].retired
Whole(i) == \A n \in Names : objects[i][n] # Absent

\* The archive keeps the promises of RecoveryPoints: what is published is whole
\* and stays so until it is retired, pins and tombstones are never undone, and
\* only a retired snapshot is forgotten, whichever operations are interrupted or
\* overtaken on the way.
Promise == INSTANCE RecoveryPoints WITH
  phase <- [i \in Ids |->
    IF ~Known(i) THEN "none"
    ELSE IF records[i].retired THEN "retired"
    ELSE IF records[i].published THEN "published" ELSE "staged"],
  pinned <- [i \in Ids |-> Known(i) /\ records[i].pinned],
  whole <- [i \in Ids |-> Whole(i)]
KeepsRecoveryPoints == Promise!Spec

\* Every object of a published snapshot was created by the operation that
\* published it: nothing that a slow writer left or added is ever published.
PublishedIsOwnWork ==
  \A i \in Ids : Published(i) => \A n \in Names : objects[i][n] = records[i].fence

\* A sidecar is never ahead of its record, agrees with it at the same revision,
\* and tells of no publication if it outlives its record: a directory that is
\* relocated after a deletion does not bring the snapshot back.
SidecarFollows ==
  \A i \in Ids : sidecar[i] # NoState =>
    IF Known(i) /\ records[i].fence = sidecar[i].fence
    THEN /\ sidecar[i].revision <= records[i].revision
         /\ sidecar[i].revision = records[i].revision => sidecar[i] = records[i]
    ELSE ~sidecar[i].published

\* "A stale owner cannot authorize old state against a newer projected version":
\* what replaces a sidecar is newer, however late the write arrives.
SidecarNeverBack ==
  [][\A i \in Ids :
       LET old == sidecar[i]  new == sidecar'[i] IN
       NoState \notin {old, new} /\ new # old =>
         \/ new.fence > old.fence
         \/ new.fence = old.fence /\ new.revision > old.revision]_vars

\* A pinned snapshot that was published is retired only by an explicit deletion,
\* or by the copy that published it and then failed: never by rotation, cleanup
\* or rollback, even if it is pinned while others work.
PinnedSpared ==
  [][\A i \in Ids : Published(i) /\ records[i].pinned /\ ~Published(i)' =>
       \E c \in Catalogs :
         /\ Owner(c)
         /\ \/ session[c].task = "delete"
            \/ session[c].task = "copy" /\ records[i].fence = session[c].fence]_vars

\* If processes only ever crash, no crash leaves an object or a sidecar behind
\* that no record accounts for.
NothingLeftBehind == \A i \in Ids : Known(i) \/ Empty(i)

\* If processes only ever crash, the next capture puts the archive in order before
\* it stages its own snapshot: every tombstone is gone, and every abandoned stage
\* that was not completed.
CleanStart ==
  \A c \in Catalogs : session[c].at = "stage" /\ session[c].task = "write" =>
    \A i \in Ids : Known(i) =>
      Published(i) \/ (~records[i].retired /\ objects[i]["COMPLETE"] # Absent)

\* Crashes leave nothing that the next capture does not account for and clean up.
CrashesHeal == NothingLeftBehind /\ CleanStart
=============================================================================
