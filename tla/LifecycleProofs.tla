---------------------------- MODULE LifecycleProofs ----------------------------
(***************************************************************************)
(* Proofs about the life of snapshots (Lifecycle), for any identities,     *)
(* catalogs, faults and number of tasks.                                   *)
(***************************************************************************)
EXTENDS Lifecycle, TLAPS

-----------------------------------------------------------------------------
(* Fences: whatever is in the archive, or in a catalog's hands, was made   *)
(* at or before the present fence, and every task has its own.             *)

Active(c) == session[c].at # "out"

RefsUpTo(refs, f) == \A r \in refs : r[2] <= f
StateUpTo(state, f) == state # NoState => state.fence <= f /\ RefsUpTo(state.cleanup, f)

SessionUpTo(c) ==
  /\ session[c].fence \in IF Active(c) THEN 1 .. fence ELSE {0}
  /\ StateUpTo(session[c].draft, fence) /\ StateUpTo(session[c].seen, fence)
  /\ RefsUpTo(session[c].refs, fence)
  /\ \A e \in Catalogs : Active(c) /\ Active(e) /\ session[e].fence = session[c].fence => e = c

ArchiveUpTo(i) ==
  /\ StateUpTo(records[i], fence) /\ StateUpTo(sidecar[i], fence)
  /\ \A n \in Names : objects[i][n] <= fence

FenceInv ==
  /\ holder # NoOne => fence > 0
  /\ \A c \in Catalogs : SessionUpTo(c)
  /\ \A i \in Ids : ArchiveUpTo(i)

-----------------------------------------------------------------------------
(* Places: the part of its task that a catalog is in says where it can be. *)

Transit == {"commit", "project", "authorise", "write sidecar"}
Clearing == {"delete", "delete one", "remaining", "drop sidecar", "forget", "forgetting"}
Retiring == {"list"} \cup Transit \cup Clearing
Making == {"check data", "put data", "check COMPLETE", "put COMPLETE", "verify", "publish"}

InPlace(s) ==
  /\ s.part = "resume" => s.task = "write" /\ s.at \in {"resume", "complete?"} \cup Retiring
  /\ s.part = "stage" =>
       /\ s.task \in {"write", "copy"} /\ s.at \in {"stage"} \cup Transit
       /\ s.at # "stage" => s.id = s.own
  /\ s.part = "make" => s.task \in {"write", "copy"} /\ s.at \in Making \cup Transit /\ s.id = s.own
  /\ s.part = "rotate" => s.task = "write" /\ s.at \in {"rotate", "leave"} \cup Retiring
  /\ s.part = "pin" => s.task = "pin" /\ s.at \in {"pin"} \cup Transit /\ s.id = s.own
  /\ s.part = "end" =>
       /\ s.at \in {"out", "leave", "rollback"} \cup Retiring
       /\ s.at \notin {"out", "leave"} => s.task \in {"write", "copy", "delete"}
       /\ s.at \in Retiring => s.id = s.own
  /\ s.at = "out" => s.part = "end"

-----------------------------------------------------------------------------
(* What a catalog that still owns the archive knows of it.                 *)

\* The draft of a transition is the record, changed as the task requires.
Drafted(s, r) ==
  /\ s.draft # NoState
  /\ s.part = "stage" => r = NoState
  /\ s.part # "stage" => r # NoState /\ ~r.retired
  /\ s.part = "make" => ~r.published /\ s.draft = [r EXCEPT !.published = TRUE]
  /\ s.part = "pin" => s.draft = [r EXCEPT !.pinned = TRUE]
  /\ s.part \in {"resume", "rotate", "end"} =>
       s.draft = [r EXCEPT !.retired = TRUE, !.cleanup = s.refs]

\* Which snapshots are retired.
Spared(s, r) ==
  /\ s.part = "resume" /\ s.at \in {"complete?", "list", "commit"} =>
       r = NoState \/ r.retired \/ ~r.published
  /\ s.part = "rotate" /\ s.at \in {"list", "commit"} => r = NoState \/ ~r.pinned
  /\ s.part = "end" /\ s.task = "write" /\ s.at \in {"list", "commit"} =>
       r = NoState \/ ~r.published

Staged(s) ==
  s.part = "stage" /\ s.at \in Transit =>
    s.draft # NoState /\ s.draft.fence = s.fence /\ ~s.draft.published /\ ~s.draft.retired

\* A snapshot that is being made is one's own, and so are its objects.
Made(s) ==
  /\ s.part = "make" =>
       /\ records[s.own] # NoState /\ records[s.own].fence = s.fence
       /\ ~records[s.own].retired
       /\ s.at \in Making => ~records[s.own].published
       /\ s.at \notin {"check data", "put data"} => objects[s.own]["data"] = s.fence
       /\ s.at \in {"verify", "publish"} \cup Transit => objects[s.own]["COMPLETE"] = s.fence
  /\ s.part = "end" /\ s.task = "copy" /\ s.at \in {"rollback", "list", "commit"} =>
       records[s.own] = NoState \/ records[s.own].fence = s.fence

Knows(c) ==
  LET s == session[c]  r == records[s.id] IN
  Owner(c) => /\ s.at = "commit" => Drafted(s, r)
              /\ s.at \in {"project", "authorise", "write sidecar"} =>
                   /\ r = s.draft /\ r # NoState
                   /\ s.part \in {"resume", "rotate", "end"} => r.retired
              /\ s.at \in Clearing => r = s.draft /\ r # NoState /\ r.retired
              /\ Spared(s, r) /\ Made(s)

\* A catalog that has been overtaken may still delete what it observed, which is of no
\* later snapshot.
Observes(c) ==
  LET s == session[c]  r == records[s.id] IN
  s.at = "delete one" =>
    RefsUpTo(s.refs, s.fence) /\ (r = NoState \/ r.retired \/ r.fence > s.fence)

WorkInv ==
  /\ \A c \in Catalogs : InPlace(session[c]) /\ Staged(session[c]) /\ Knows(c) /\ Observes(c)
  /\ PublishedIsOwnWork

LifecycleInv == TypeOK /\ FenceInv /\ WorkInv
-----------------------------------------------------------------------------
(* Sessions.                                                               *)

\* A catalog keeps its task: the snapshot, and the fence.
KeepsTask(c) ==
  /\ \A e \in Catalogs \ {c} : session'[e] = session[e]
  /\ session'[c].task = session[c].task /\ session'[c].own = session[c].own
  /\ session'[c].fence = session[c].fence

\* The parts of a session, by type.
LEMMA SessionIs ==
  ASSUME TypeOK, NEW c \in Catalogs
  PROVE  /\ session[c] \in Session /\ session[c].id \in Ids /\ session[c].own \in Ids
         /\ session[c].draft \in States /\ session[c].seen \in States
         /\ session[c].refs \in SUBSET Refs /\ session[c].fence \in Nat
         /\ session[c].todo \in SUBSET Ids /\ session[c].at \in At /\ session[c].part \in Part
         /\ records[session[c].id] \in States /\ records[session[c].own] \in States
  BY DEF TypeOK, Session

\* A session is replaced by another one.
LEMMA SessionChanges ==
  ASSUME TypeOK, NEW c \in Catalogs, NEW next \in Session, session' = [session EXCEPT ![c] = next]
  PROVE  /\ session' \in [Catalogs -> Session] /\ session'[c] = next
         /\ \A e \in Catalogs \ {c} : session'[e] = session[e]
  BY DEF TypeOK

\* A catalog moves on, with all it has in hand.
LEMMA GoesIs ==
  ASSUME TypeOK, NEW c \in Catalogs, NEW at \in At, Goes(c, at)
  PROVE  /\ session' \in [Catalogs -> Session] /\ KeepsTask(c)
         /\ session'[c].at = at /\ session'[c].part = session[c].part
         /\ session'[c].id = session[c].id /\ session'[c].draft = session[c].draft
         /\ session'[c].seen = session[c].seen /\ session'[c].refs = session[c].refs
         /\ session'[c].todo = session[c].todo
  <1> DEFINE next == [session[c] EXCEPT !.at = at]
  <1>1. session[c] \in Session
    BY SessionIs
  <1>2. /\ next \in Session /\ next.at = at /\ next.part = session[c].part
        /\ next.task = session[c].task /\ next.own = session[c].own
        /\ next.fence = session[c].fence /\ next.id = session[c].id
        /\ next.draft = session[c].draft /\ next.seen = session[c].seen
        /\ next.refs = session[c].refs /\ next.todo = session[c].todo
    BY <1>1 DEF Session
  <1>3. session' = [session EXCEPT ![c] = next]
    BY DEF Goes, TypeOK
  <1> HIDE DEF next
  <1> QED
    BY <1>2, <1>3, SessionChanges DEF KeepsTask

\* A catalog moves on to another part of its task, with nothing in hand.
LEMMA GoesInIs ==
  ASSUME TypeOK, NEW c \in Catalogs, NEW at \in At, NEW part \in Part, GoesIn(c, at, part)
  PROVE  /\ session' \in [Catalogs -> Session] /\ KeepsTask(c)
         /\ session'[c].at = at /\ session'[c].part = part
         /\ session'[c].id = session[c].id /\ session'[c].todo = session[c].todo
         /\ session'[c].draft = NoState /\ session'[c].seen = NoState /\ session'[c].refs = {}
  <1> DEFINE next == [session[c] EXCEPT !.at = at, !.part = part, !.draft = NoState,
                                        !.seen = NoState, !.refs = {}]
  <1>1. session[c] \in Session
    BY SessionIs
  <1>2. /\ next \in Session /\ next.at = at /\ next.part = part
        /\ next.task = session[c].task /\ next.own = session[c].own
        /\ next.fence = session[c].fence /\ next.id = session[c].id
        /\ next.draft = NoState /\ next.seen = NoState
        /\ next.refs = {} /\ next.todo = session[c].todo
    BY <1>1 DEF Session, States
  <1>3. session' = [session EXCEPT ![c] = next]
    BY DEF GoesIn, TypeOK
  <1> HIDE DEF next
  <1> QED
    BY <1>2, <1>3, SessionChanges DEF KeepsTask

\* An exception drops what the catalog had in hand.
LEMMA FailsIs ==
  ASSUME TypeOK, NEW c \in Catalogs, Fails(c)
  PROVE  /\ session' \in [Catalogs -> Session] /\ KeepsTask(c)
         /\ session'[c].id = session[c].id /\ session'[c].todo = session[c].todo
         /\ session'[c].draft = NoState /\ session'[c].seen = NoState /\ session'[c].refs = {}
         /\ \/ /\ session[c].part = "resume"
               /\ session'[c].at = "resume" /\ session'[c].part = "resume"
            \/ /\ \/ session[c].part \in {"make", "rotate"}
                  \/ session[c].part = "stage" /\ session[c].task = "write"
               /\ session'[c].at = "rollback" /\ session'[c].part = "end"
            \/ /\ session[c].part \in {"stage", "pin", "end"}
               /\ session[c].part = "stage" => session[c].task # "write"
               /\ session'[c].at = "leave" /\ session'[c].part = "end"
  <1>1. session[c].part \in Part /\ "resume" \in Part /\ "end" \in Part
        /\ "resume" \in At /\ "rollback" \in At /\ "leave" \in At
    BY SessionIs DEF Part, At
  <1>2. CASE session[c].part = "resume"
    <2>1. GoesIn(c, "resume", "resume")
      BY <1>2 DEF Fails
    <2> QED
      BY <1>1, <1>2, <2>1, GoesInIs
  <1>3. CASE \/ session[c].part \in {"make", "rotate"}
             \/ session[c].part = "stage" /\ session[c].task = "write"
    <2>1. GoesIn(c, "rollback", "end")
      BY <1>3 DEF Fails
    <2> QED
      BY <1>1, <1>3, <2>1, GoesInIs
  <1>4. CASE /\ session[c].part # "resume"
             /\ ~ \/ session[c].part \in {"make", "rotate"}
                  \/ session[c].part = "stage" /\ session[c].task = "write"
    <2>1. GoesIn(c, "leave", "end")
      BY <1>4 DEF Fails
    <2>2. session[c].part \in {"stage", "pin", "end"}
      BY <1>1, <1>4 DEF Part
    <2>3. session[c].part = "stage" => session[c].task # "write"
      BY <1>4
    <2> QED
      BY <1>1, <2>1, <2>2, <2>3, GoesInIs
  <1> QED
    BY <1>2, <1>3, <1>4

-----------------------------------------------------------------------------
(* The frame of a step.                                                    *)

\* Who owns the archive is active, and no fence is later than its.
LEMMA OwnerIs ==
  ASSUME TypeOK, FenceInv, NEW c \in Catalogs, Owner(c)
  PROVE  /\ Active(c) /\ session[c].fence = fence /\ fence \in Nat /\ fence > 0
         /\ \A e \in Catalogs \ {c} : ~Owner(e) /\ (Active(e) => session[e].fence < fence)
  <1>1. fence \in Nat /\ holder = c /\ holder # NoOne /\ session[c].fence = fence
    BY LifecycleAssumption DEF TypeOK, Owner
  <1>2. fence > 0 /\ Active(c)
    BY <1>1 DEF FenceInv, SessionUpTo
  <1>3. ASSUME NEW e \in Catalogs \ {c}, Active(e) PROVE session[e].fence < fence
    BY <1>1, <1>2, <1>3 DEF FenceInv, SessionUpTo
  <1> QED
    BY <1>1, <1>2, <1>3 DEF Owner

\* Records change at the hand of their owner: to a state that no slow deletion concerns.
RecordsMove(c) ==
  \A i \in Ids :
    \/ records'[i] = records[i]
    \/ /\ Owner(c)
       /\ \/ records'[i] = NoState
          \/ records'[i].retired
          \/ records'[i].fence = session[c].fence
          \/ /\ records[i] # NoState /\ ~records[i].retired
             /\ records'[i].fence = records[i].fence

\* Objects that a later task made do not change.
ObjectsMove(c) ==
  \A i \in Ids, n \in Names :
    objects'[i][n] = objects[i][n] \/ objects[i][n] <= session[c].fence

ReservationStays == UNCHANGED <<reservation, used>>

\* What a step of one catalog may do to the archive.
ArchiveMoves(c) ==
  /\ RecordsMove(c) /\ ObjectsMove(c)
  /\ records' \in [Ids -> States] /\ sidecar' \in [Ids -> States]
  /\ objects' \in [Ids -> [Names -> Nat]]
  /\ \A i \in Ids : ArchiveUpTo(i)'
  /\ PublishedIsOwnWork'

\* What the others know stays so.
LEMMA OthersKept ==
  ASSUME LifecycleInv, NEW c \in Catalogs, Active(c), ReservationStays, KeepsTask(c),
         ArchiveMoves(c), NEW e \in Catalogs \ {c}
  PROVE  Knows(e)' /\ Observes(e)'
  <1>0. /\ TypeOK /\ FenceInv /\ Knows(e) /\ Observes(e)
        /\ RecordsMove(c) /\ ObjectsMove(c) /\ records' \in [Ids -> States]
    BY DEF LifecycleInv, WorkInv, ArchiveMoves
  <1>1. session'[e] = session[e] /\ UNCHANGED <<fence, holder, live>>
    BY DEF KeepsTask, ReservationStays, reservation
  <1>2. /\ fence \in Nat /\ session[e].fence \in Nat /\ session[c].fence \in Nat
        /\ session[e].id \in Ids /\ session[e].own \in Ids
    BY <1>0, SessionIs DEF TypeOK
  <1>3. session[c].fence <= fence
    BY <1>0, <1>2 DEF FenceInv, SessionUpTo
  <1>4. Knows(e)'
    <2> SUFFICES ASSUME Owner(e) PROVE Knows(e)'
      BY <1>1 DEF Knows, Owner
    <2>1. /\ ~Owner(c) /\ session[c].fence < session[e].fence /\ session[e].fence = fence
      BY <1>0, OwnerIs
    <2>2. \A i \in Ids : records'[i] = records[i]
      BY <1>0, <2>1 DEF RecordsMove
    <2>3. \A i \in Ids, n \in Names : objects[i][n] = session[e].fence =>
                                        objects'[i][n] = session[e].fence
      BY <1>0, <1>2, <2>1 DEF ObjectsMove, TypeOK
    <2>4. Made(session[e])'
      <3>1. Made(session[e])
        BY <1>0 DEF Knows
      <3> QED
        BY <1>1, <1>2, <2>2, <2>3, <3>1 DEF Made, Names
    <2>5. records'[session[e].id] = records[session[e].id]
      BY <1>2, <2>2
    <2> QED
      BY <1>0, <1>1, <2>4, <2>5 DEF Knows, Drafted, Spared
  <1>5. Observes(e)'
    <2> SUFFICES ASSUME session[e].at = "delete one" PROVE Observes(e)'
      BY <1>1 DEF Observes
    <2> DEFINE i == session[e].id
    <2>1. /\ RefsUpTo(session[e].refs, session[e].fence) /\ Active(e)
          /\ records[i] = NoState \/ records[i].retired \/ records[i].fence > session[e].fence
      BY <1>0 DEF Observes, Active
    <2>2. records'[i] = NoState \/ records'[i].retired \/ records'[i].fence > session[e].fence
      <3>1. CASE records'[i] = records[i]
        BY <2>1, <3>1
      <3>2. CASE Owner(c) /\ records'[i].fence = session[c].fence
        <4>1. session[e].fence < session[c].fence
          BY <1>0, <2>1, <3>2, OwnerIs
        <4> QED
          BY <1>2, <3>2, <4>1
      <3>3. CASE records[i] # NoState /\ ~records[i].retired
                   /\ records'[i].fence = records[i].fence
        BY <2>1, <3>3
      <3> QED
        BY <1>0, <1>2, <3>1, <3>2, <3>3 DEF RecordsMove
    <2> QED
      BY <1>1, <2>1, <2>2 DEF Observes, RefsUpTo
  <1> QED
    BY <1>4, <1>5
\* The invariant after a step of one catalog, from what the step does to the archive and to
\* what the catalog has in hand.
LEMMA Frame ==
  ASSUME LifecycleInv, NEW c \in Catalogs, Active(c), Active(c)', ReservationStays,
         KeepsTask(c), ArchiveMoves(c), session' \in [Catalogs -> Session],
         StateUpTo(session'[c].draft, fence), StateUpTo(session'[c].seen, fence),
         RefsUpTo(session'[c].refs, fence),
         InPlace(session'[c]), Staged(session'[c]), Knows(c)', Observes(c)'
  PROVE  LifecycleInv'
  <1>1. TypeOK /\ FenceInv /\ WorkInv
    BY DEF LifecycleInv
  <1>2. UNCHANGED <<fence, holder, live, used>>
    BY DEF ReservationStays, reservation
  <1>3. TypeOK'
    BY <1>1, <1>2 DEF TypeOK, ArchiveMoves
  <1>4. FenceInv'
    <2>1. \A e \in Catalogs : /\ session'[e].fence = session[e].fence
                              /\ Active(e)' <=> Active(e)
      BY DEF KeepsTask, Active
    <2>2. ASSUME NEW e \in Catalogs PROVE SessionUpTo(e)'
      <3>1. SessionUpTo(e)
        BY <1>1 DEF FenceInv
      <3>2. /\ StateUpTo(session'[e].draft, fence) /\ StateUpTo(session'[e].seen, fence)
            /\ RefsUpTo(session'[e].refs, fence)
        BY <3>1 DEF SessionUpTo, KeepsTask
      <3>3. /\ StateUpTo(session[e].draft, fence)' /\ StateUpTo(session[e].seen, fence)'
            /\ RefsUpTo(session[e].refs, fence)'
        BY <1>2, <3>2 DEF StateUpTo, RefsUpTo
      <3> QED
        BY <1>2, <2>1, <3>1, <3>3 DEF SessionUpTo
    <2> QED
      BY <1>1, <1>2, <2>2 DEF FenceInv, ArchiveMoves
  <1>5. WorkInv'
    <2>1. ASSUME NEW e \in Catalogs, e # c
          PROVE  (InPlace(session[e]) /\ Staged(session[e]) /\ Knows(e) /\ Observes(e))'
      <3>1. InPlace(session[e]) /\ Staged(session[e]) /\ session'[e] = session[e]
        BY <1>1, <2>1 DEF WorkInv, KeepsTask
      <3> QED
        BY <2>1, <3>1, OthersKept DEF InPlace, Staged
    <2>2. (InPlace(session[c]) /\ Staged(session[c]))'
      BY DEF InPlace, Staged
    <2> QED
      BY <2>1, <2>2 DEF WorkInv, ArchiveMoves
  <1> QED
    BY <1>3, <1>4, <1>5 DEF LifecycleInv

\* An archive that does not change gives no one anything to notice.
LEMMA QuietArchive ==
  ASSUME LifecycleInv, UNCHANGED <<archive, fence>>, NEW c \in Catalogs
  PROVE  ArchiveMoves(c)
  <1>1. TypeOK /\ FenceInv /\ PublishedIsOwnWork
    BY DEF LifecycleInv, WorkInv
  <1>2. UNCHANGED <<records, sidecar, objects, fence>>
    BY DEF archive
  <1>3. \A i \in Ids : ArchiveUpTo(i)'
    BY <1>1, <1>2 DEF FenceInv, ArchiveUpTo, StateUpTo, RefsUpTo
  <1>4. PublishedIsOwnWork'
    BY <1>1, <1>2 DEF PublishedIsOwnWork, Published, Known
  <1> QED
    BY <1>1, <1>2, <1>3, <1>4 DEF TypeOK, RecordsMove, ObjectsMove, ArchiveMoves

\* A step that leaves the archive alone concerns only the catalog that takes it.
LEMMA QuietFrame ==
  ASSUME LifecycleInv, NEW c \in Catalogs, Active(c), Active(c)', ReservationStays,
         UNCHANGED archive, KeepsTask(c), session' \in [Catalogs -> Session],
         StateUpTo(session'[c].draft, fence), StateUpTo(session'[c].seen, fence),
         RefsUpTo(session'[c].refs, fence),
         InPlace(session'[c]), Staged(session'[c]), Knows(c)', Observes(c)'
  PROVE  LifecycleInv'
  <1>1. UNCHANGED fence
    BY DEF ReservationStays, reservation
  <1> QED
    BY <1>1, QuietArchive, Frame

\* What a catalog may have done before a request raised does not matter, provided that it is
\* sound.
LEMMA FailFrame ==
  ASSUME LifecycleInv, NEW c \in Catalogs, Active(c), ReservationStays, Fails(c),
         ArchiveMoves(c),
         Owner(c) /\ session[c].part = "make" =>
           \/ records'[session[c].own] = NoState
           \/ records'[session[c].own].fence = session[c].fence
  PROVE  LifecycleInv'
  <1>1. TypeOK /\ InPlace(session[c])
    BY DEF LifecycleInv, WorkInv
  <1>2. /\ session' \in [Catalogs -> Session] /\ KeepsTask(c)
        /\ session'[c].id = session[c].id
        /\ session'[c].draft = NoState /\ session'[c].seen = NoState /\ session'[c].refs = {}
        /\ \/ /\ session[c].part = "resume"
              /\ session'[c].at = "resume" /\ session'[c].part = "resume"
           \/ /\ \/ session[c].part \in {"make", "rotate"}
                 \/ session[c].part = "stage" /\ session[c].task = "write"
              /\ session'[c].at = "rollback" /\ session'[c].part = "end"
           \/ session'[c].at = "leave" /\ session'[c].part = "end"
    BY <1>1, FailsIs
  <1>3. StateUpTo(NoState, fence) /\ RefsUpTo({}, fence)
    BY DEF StateUpTo, RefsUpTo
  <1>4. InPlace(session'[c])
    <2>1. session'[c].task = session[c].task /\ session'[c].own = session[c].own
      BY <1>2 DEF KeepsTask
    <2>2. session[c].part \in {"make", "stage"} => session[c].task \in {"write", "copy"}
      BY <1>1 DEF InPlace
    <2>3. session[c].part \in {"resume", "rotate"} => session[c].task = "write"
      BY <1>1 DEF InPlace
    <2> QED
      BY <1>2, <2>1, <2>2, <2>3 DEF InPlace, Retiring, Transit, Clearing, Making
  <1>5. Staged(session'[c]) /\ Active(c)' /\ Observes(c)'
    BY <1>2 DEF Staged, Active, Observes
  <1>6. Knows(c)'
    <2> SUFFICES ASSUME Owner(c)' PROVE Knows(c)'
      BY DEF Knows
    <2>1. Owner(c) /\ session'[c].task = session[c].task /\ session'[c].own = session[c].own
          /\ session'[c].fence = session[c].fence
      BY <1>2 DEF Owner, ReservationStays, reservation, KeepsTask
    <2>2. session'[c].at \notin {"commit", "project", "authorise", "write sidecar", "list",
                                 "complete?"} \cup Clearing
      BY <1>2 DEF Clearing
    <2>3. session'[c].part = "end" /\ session'[c].task = "copy" /\ session'[c].at = "rollback" =>
            session[c].part = "make"
      BY <1>1, <1>2, <2>1 DEF InPlace
    <2>4. Made(session[c])'
      BY <1>2, <2>1, <2>2, <2>3 DEF Made
    <2> QED
      BY <2>2, <2>4 DEF Knows, Spared
  <1> QED
    BY <1>2, <1>3, <1>4, <1>5, <1>6, Frame

\* A request that raises without effect.
LEMMA QuietFail ==
  ASSUME LifecycleInv, NEW c \in Catalogs, Active(c), ReservationStays, UNCHANGED archive,
         Fails(c)
  PROVE  LifecycleInv'
  <1>1. UNCHANGED <<fence, records>>
    BY DEF ReservationStays, reservation, archive
  <1>2. Owner(c) /\ session[c].part = "make" => records[session[c].own].fence = session[c].fence
    BY DEF LifecycleInv, WorkInv, Knows, Made
  <1> QED
    BY <1>1, <1>2, QuietArchive, FailFrame
\* Where a catalog is tells the part of its task.
LEMMA PlaceIs ==
  ASSUME TypeOK, NEW c \in Catalogs, InPlace(session[c])
  PROVE  LET s == session[c] IN
         /\ s.at \in Making => s.part = "make" /\ s.id = s.own
         /\ s.at = "stage" => s.part = "stage"
         /\ s.at = "pin" => s.part = "pin" /\ s.id = s.own
         /\ s.at = "rotate" => s.part = "rotate"
         /\ s.at = "rollback" => s.part = "end" /\ s.task \in {"write", "copy", "delete"}
         /\ s.at \in {"resume", "complete?"} => s.part = "resume"
         /\ s.at \in {"list"} \cup Clearing => s.part \in {"resume", "rotate", "end"}
  <1>1. session[c].part \in Part
    BY SessionIs
  <1> QED
    BY <1>1 DEF InPlace, Part, Making, Clearing, Retiring, Transit

\* A move from one place to the next, with what is in hand.
LEMMA GoFrame ==
  ASSUME LifecycleInv, NEW c \in Catalogs, Active(c), ReservationStays, UNCHANGED archive,
         NEW at \in At \ {"out"}, Goes(c, at),
         InPlace(session'[c]), Staged(session'[c]), Knows(c)', Observes(c)'
  PROVE  LifecycleInv'
  <1>1. TypeOK /\ SessionUpTo(c)
    BY DEF LifecycleInv, FenceInv
  <1>2. /\ session' \in [Catalogs -> Session] /\ KeepsTask(c) /\ Active(c)'
        /\ StateUpTo(session'[c].draft, fence) /\ StateUpTo(session'[c].seen, fence)
        /\ RefsUpTo(session'[c].refs, fence)
    BY <1>1, GoesIs DEF SessionUpTo, Active
  <1> QED
    BY <1>2, QuietFrame

\* The catalog goes on, or fails.
LEMMA DemandsFrame ==
  ASSUME LifecycleInv, NEW c \in Catalogs, Active(c), NEW guard, NEW at \in At \ {"out"},
         Demands(c, guard, at),
         guard /\ Goes(c, at) /\ UNCHANGED <<reservation, archive, used>> =>
           InPlace(session'[c]) /\ Staged(session'[c]) /\ Knows(c)' /\ Observes(c)'
  PROVE  LifecycleInv'
  <1>1. ReservationStays /\ UNCHANGED archive
    BY DEF Demands, ReservationStays
  <1>2. CASE guard
    <2>1. Goes(c, at)
      BY <1>2 DEF Demands
    <2>2. InPlace(session'[c]) /\ Staged(session'[c]) /\ Knows(c)' /\ Observes(c)'
      BY <1>1, <1>2, <2>1 DEF ReservationStays
    <2> QED
      BY <1>1, <2>1, <2>2, GoFrame
  <1>3. CASE ~guard
    <2>1. Fails(c)
      BY <1>3 DEF Demands
    <2> QED
      BY <1>1, <2>1, QuietFail
  <1> QED
    BY <1>2, <1>3

\* Between two places in the making of a snapshot that ask for no more of its objects.
LEMMA MakingGoes ==
  ASSUME LifecycleInv, NEW c \in Catalogs, NEW at \in Making, Goes(c, at),
         session[c].at \in Making, UNCHANGED <<reservation, archive, used>>,
         Owner(c) => /\ at \notin {"check data", "put data"} =>
                          objects[session[c].own]["data"] = session[c].fence
                     /\ at \in {"verify", "publish"} =>
                          objects[session[c].own]["COMPLETE"] = session[c].fence
  PROVE  InPlace(session'[c]) /\ Staged(session'[c]) /\ Knows(c)' /\ Observes(c)'
  <1>1. /\ TypeOK /\ InPlace(session[c]) /\ Staged(session[c]) /\ Knows(c)
        /\ session[c].part = "make"
    BY PlaceIs DEF LifecycleInv, WorkInv
  <1>2. at \in At
    BY DEF Making, At
  <1>3. /\ KeepsTask(c) /\ session'[c].at = at /\ session'[c].part = "make"
        /\ session'[c].id = session[c].id
    BY <1>1, <1>2, GoesIs
  <1>4. InPlace(session'[c]) /\ Staged(session'[c]) /\ Observes(c)'
    BY <1>1, <1>3 DEF InPlace, Staged, Observes, KeepsTask, Making
  <1>5. Knows(c)'
    <2> SUFFICES ASSUME Owner(c)' PROVE Knows(c)'
      BY DEF Knows
    <2>1. Owner(c) /\ UNCHANGED <<records, objects>>
      BY <1>3 DEF Owner, reservation, archive, KeepsTask
    <2>2. Made(session[c])
      BY <1>1, <2>1 DEF Knows
    <2>3. Made(session[c])'
      BY <1>1, <1>3, <2>1, <2>2 DEF Made, KeepsTask, Making, Transit
    <2> QED
      BY <1>3, <2>3 DEF Knows, Spared, Making, Clearing
  <1> QED
    BY <1>4, <1>5

\* check() before the upload of the tables keeps what the catalog knows.
LEMMA CheckDataStep ==
  ASSUME LifecycleInv, NEW c \in Catalogs, CheckData(c)
  PROVE  LifecycleInv'
  <1>1. /\ Active(c) /\ session[c].at \in Making /\ "put data" \in Making
        /\ "put data" \in At \ {"out"} /\ Demands(c, Authority(c), "put data")
    BY DEF CheckData, Active, Making, At
  <1> QED
    BY <1>1, MakingGoes, DemandsFrame

\* check() before the creation of COMPLETE keeps what the catalog knows.
LEMMA CheckCompleteStep ==
  ASSUME LifecycleInv, NEW c \in Catalogs, CheckComplete(c)
  PROVE  LifecycleInv'
  <1>1. /\ Active(c) /\ session[c].at \in Making /\ "put COMPLETE" \in Making
        /\ "put COMPLETE" \in At \ {"out"} /\ Demands(c, Authority(c), "put COMPLETE")
    BY DEF CheckComplete, Active, Making, At
  <1>2. Owner(c) => objects[session[c].own]["data"] = session[c].fence
    <2>1. session[c].at = "check COMPLETE" /\ session[c].part = "make" /\ Knows(c)
      BY <1>1, PlaceIs DEF CheckComplete, LifecycleInv, WorkInv
    <2> QED
      BY <2>1 DEF Knows, Made
  <1> QED
    BY <1>1, <1>2, MakingGoes, DemandsFrame

\* The comparison of a copy with its digests keeps what the catalog knows.
LEMMA VerifyStep ==
  ASSUME LifecycleInv, NEW c \in Catalogs, Verify(c)
  PROVE  LifecycleInv'
  <1> DEFINE guard == \A n \in Names : objects[session[c].own][n] # Absent
  <1>1. /\ Active(c) /\ session[c].at = "verify" /\ session[c].at \in Making
        /\ "publish" \in Making /\ "publish" \in At \ {"out"}
        /\ Demands(c, guard, "publish")
    BY DEF Verify, Active, Making, At
  <1> HIDE DEF guard
  <1>2. Owner(c) => /\ objects[session[c].own]["data"] = session[c].fence
                    /\ objects[session[c].own]["COMPLETE"] = session[c].fence
    <2>1. session[c].part = "make" /\ Knows(c)
      BY <1>1, PlaceIs DEF LifecycleInv, WorkInv
    <2> QED
      BY <1>1, <2>1 DEF Knows, Made
  <1> QED
    BY <1>1, <1>2, MakingGoes, DemandsFrame
\* What a step puts in the hands of a catalog, which stays in its part of the task.
Hands(c, at, id, draft, seen, refs) ==
  /\ session' \in [Catalogs -> Session] /\ KeepsTask(c)
  /\ session'[c].part = session[c].part
  /\ session'[c].at = at /\ session'[c].id = id /\ session'[c].draft = draft
  /\ session'[c].seen = seen /\ session'[c].refs = refs

\* A draft, and whose.
LEMMA DraftIs ==
  ASSUME TypeOK, NEW c \in Catalogs, NEW at \in At, NEW id \in Ids, NEW draft \in States,
         session' = [session EXCEPT ![c].at = at, ![c].id = id, ![c].draft = draft]
  PROVE  Hands(c, at, id, draft, session[c].seen, session[c].refs) /\ session'[c].todo = session[c].todo
  <1> DEFINE next == [session[c] EXCEPT !.at = at, !.id = id, !.draft = draft]
  <1>1. session[c] \in Session
    BY SessionIs
  <1>2. /\ next \in Session /\ next.part = session[c].part
        /\ next.task = session[c].task /\ next.own = session[c].own
        /\ next.fence = session[c].fence
        /\ next.at = at
        /\ next.id = id
        /\ next.draft = draft
        /\ next.seen = session[c].seen
        /\ next.refs = session[c].refs
        /\ next.todo = session[c].todo
    BY <1>1 DEF Session
  <1>3. session' = [session EXCEPT ![c] = next]
    BY DEF TypeOK
  <1> HIDE DEF next
  <1> QED
    BY <1>2, <1>3, SessionChanges DEF KeepsTask, Hands

\* A draft of the same snapshot.
LEMMA DraftOfIs ==
  ASSUME TypeOK, NEW c \in Catalogs, NEW at \in At, NEW draft \in States,
         session' = [session EXCEPT ![c].at = at, ![c].draft = draft]
  PROVE  Hands(c, at, session[c].id, draft, session[c].seen, session[c].refs) /\ session'[c].todo = session[c].todo
  <1> DEFINE next == [session[c] EXCEPT !.at = at, !.draft = draft]
  <1>1. session[c] \in Session
    BY SessionIs
  <1>2. /\ next \in Session /\ next.part = session[c].part
        /\ next.task = session[c].task /\ next.own = session[c].own
        /\ next.fence = session[c].fence
        /\ next.at = at
        /\ next.id = session[c].id
        /\ next.draft = draft
        /\ next.seen = session[c].seen
        /\ next.refs = session[c].refs
        /\ next.todo = session[c].todo
    BY <1>1 DEF Session
  <1>3. session' = [session EXCEPT ![c] = next]
    BY DEF TypeOK
  <1> HIDE DEF next
  <1> QED
    BY <1>2, <1>3, SessionChanges DEF KeepsTask, Hands

\* Another snapshot to look at.
LEMMA IdIs ==
  ASSUME TypeOK, NEW c \in Catalogs, NEW at \in At, NEW id \in Ids,
         session' = [session EXCEPT ![c].at = at, ![c].id = id]
  PROVE  Hands(c, at, id, session[c].draft, session[c].seen, session[c].refs) /\ session'[c].todo = session[c].todo
  <1> DEFINE next == [session[c] EXCEPT !.at = at, !.id = id]
  <1>1. session[c] \in Session
    BY SessionIs
  <1>2. /\ next \in Session /\ next.part = session[c].part
        /\ next.task = session[c].task /\ next.own = session[c].own
        /\ next.fence = session[c].fence
        /\ next.at = at
        /\ next.id = id
        /\ next.draft = session[c].draft
        /\ next.seen = session[c].seen
        /\ next.refs = session[c].refs
        /\ next.todo = session[c].todo
    BY <1>1 DEF Session
  <1>3. session' = [session EXCEPT ![c] = next]
    BY DEF TypeOK
  <1> HIDE DEF next
  <1> QED
    BY <1>2, <1>3, SessionChanges DEF KeepsTask, Hands

\* The sidecar as it was read.
LEMMA SeenIs ==
  ASSUME TypeOK, NEW c \in Catalogs, NEW at \in At, NEW seen \in States,
         session' = [session EXCEPT ![c].at = at, ![c].seen = seen]
  PROVE  Hands(c, at, session[c].id, session[c].draft, seen, session[c].refs) /\ session'[c].todo = session[c].todo
  <1> DEFINE next == [session[c] EXCEPT !.at = at, !.seen = seen]
  <1>1. session[c] \in Session
    BY SessionIs
  <1>2. /\ next \in Session /\ next.part = session[c].part
        /\ next.task = session[c].task /\ next.own = session[c].own
        /\ next.fence = session[c].fence
        /\ next.at = at
        /\ next.id = session[c].id
        /\ next.draft = session[c].draft
        /\ next.seen = seen
        /\ next.refs = session[c].refs
        /\ next.todo = session[c].todo
    BY <1>1 DEF Session
  <1>3. session' = [session EXCEPT ![c] = next]
    BY DEF TypeOK
  <1> HIDE DEF next
  <1> QED
    BY <1>2, <1>3, SessionChanges DEF KeepsTask, Hands

\* What has still to be deleted.
LEMMA RefsAre ==
  ASSUME TypeOK, NEW c \in Catalogs, NEW at \in At, NEW refs \in SUBSET Refs,
         session' = [session EXCEPT ![c].at = at, ![c].refs = refs]
  PROVE  Hands(c, at, session[c].id, session[c].draft, session[c].seen, refs) /\ session'[c].todo = session[c].todo
  <1> DEFINE next == [session[c] EXCEPT !.at = at, !.refs = refs]
  <1>1. session[c] \in Session
    BY SessionIs
  <1>2. /\ next \in Session /\ next.part = session[c].part
        /\ next.task = session[c].task /\ next.own = session[c].own
        /\ next.fence = session[c].fence
        /\ next.at = at
        /\ next.id = session[c].id
        /\ next.draft = session[c].draft
        /\ next.seen = session[c].seen
        /\ next.refs = refs
        /\ next.todo = session[c].todo
    BY <1>1 DEF Session
  <1>3. session' = [session EXCEPT ![c] = next]
    BY DEF TypeOK
  <1> HIDE DEF next
  <1> QED
    BY <1>2, <1>3, SessionChanges DEF KeepsTask, Hands

\* A tombstone, and what it lists.
LEMMA TombstoneIs ==
  ASSUME TypeOK, NEW c \in Catalogs, NEW at \in At, NEW draft \in States, NEW refs \in SUBSET Refs,
         session' = [session EXCEPT ![c].at = at, ![c].draft = draft, ![c].refs = refs]
  PROVE  Hands(c, at, session[c].id, draft, session[c].seen, refs) /\ session'[c].todo = session[c].todo
  <1> DEFINE next == [session[c] EXCEPT !.at = at, !.draft = draft, !.refs = refs]
  <1>1. session[c] \in Session
    BY SessionIs
  <1>2. /\ next \in Session /\ next.part = session[c].part
        /\ next.task = session[c].task /\ next.own = session[c].own
        /\ next.fence = session[c].fence
        /\ next.at = at
        /\ next.id = session[c].id
        /\ next.draft = draft
        /\ next.seen = session[c].seen
        /\ next.refs = refs
        /\ next.todo = session[c].todo
    BY <1>1 DEF Session
  <1>3. session' = [session EXCEPT ![c] = next]
    BY DEF TypeOK
  <1> HIDE DEF next
  <1> QED
    BY <1>2, <1>3, SessionChanges DEF KeepsTask, Hands

\* The next of the snapshots to look at, of those left.
LEMMA TodoIs ==
  ASSUME TypeOK, NEW c \in Catalogs, NEW todo \in SUBSET Ids, NEW id \in Ids, NEW at \in At,
         session' = [session EXCEPT ![c].todo = todo, ![c].id = id, ![c].at = at]
  PROVE  Hands(c, at, id, session[c].draft, session[c].seen, session[c].refs) /\ session'[c].todo = todo
  <1> DEFINE next == [session[c] EXCEPT !.todo = todo, !.id = id, !.at = at]
  <1>1. session[c] \in Session
    BY SessionIs
  <1>2. /\ next \in Session /\ next.part = session[c].part
        /\ next.task = session[c].task /\ next.own = session[c].own
        /\ next.fence = session[c].fence
        /\ next.at = at
        /\ next.id = id
        /\ next.draft = session[c].draft
        /\ next.seen = session[c].seen
        /\ next.refs = session[c].refs
        /\ next.todo = todo
    BY <1>1 DEF Session
  <1>3. session' = [session EXCEPT ![c] = next]
    BY DEF TypeOK
  <1> HIDE DEF next
  <1> QED
    BY <1>2, <1>3, SessionChanges DEF KeepsTask, Hands
-----------------------------------------------------------------------------
(* Steps that leave the archive alone.                                     *)

\* A step that leaves the archive alone, by what the catalog then has in hand.
LEMMA HandsFrame ==
  ASSUME LifecycleInv, NEW c \in Catalogs, Active(c), ReservationStays, UNCHANGED archive,
         NEW at, NEW id, NEW draft, NEW seen, NEW refs, at # "out",
         Hands(c, at, id, draft, seen, refs),
         StateUpTo(draft, fence), StateUpTo(seen, fence), RefsUpTo(refs, fence),
         InPlace(session'[c]), Staged(session'[c]), Knows(c)', Observes(c)'
  PROVE  LifecycleInv'
  <1>1. Active(c)'
    BY DEF Hands, Active
  <1> QED
    BY <1>1, QuietFrame DEF Hands

\* What the invariant says of a catalog, of what it has in hand, and of the records.
LEMMA CatalogIs ==
  ASSUME LifecycleInv, NEW c \in Catalogs
  PROVE  /\ TypeOK /\ FenceInv /\ fence \in Nat
         /\ InPlace(session[c]) /\ Staged(session[c]) /\ Knows(c) /\ Observes(c)
         /\ StateUpTo(session[c].draft, fence) /\ StateUpTo(session[c].seen, fence)
         /\ RefsUpTo(session[c].refs, fence)
         /\ Active(c) => session[c].fence \in 1 .. fence
         /\ StateUpTo(records[session[c].id], fence) /\ StateUpTo(records[session[c].own], fence)
         /\ StateUpTo(sidecar[session[c].id], fence)
  <1>1. TypeOK /\ FenceInv
    BY DEF LifecycleInv
  <1> QED
    BY <1>1, SessionIs DEF LifecycleInv, WorkInv, FenceInv, SessionUpTo, ArchiveUpTo, TypeOK

\* Between two places that tell the same of the record.
LEMMA ClassKept ==
  ASSUME LifecycleInv, NEW c \in Catalogs, ReservationStays, UNCHANGED archive,
         NEW at, NEW seen,
         Hands(c, at, session[c].id, session[c].draft, seen, session[c].refs),
         \/ /\ session[c].at \in {"project", "authorise", "write sidecar"}
            /\ at \in {"project", "authorise", "write sidecar"}
         \/ session[c].at \in Clearing /\ at \in Clearing \ {"delete one"}
  PROVE  InPlace(session'[c]) /\ Staged(session'[c]) /\ Knows(c)' /\ Observes(c)'
  <1>1. /\ TypeOK /\ InPlace(session[c]) /\ Staged(session[c]) /\ Knows(c)
        /\ session[c].part \in Part
    BY CatalogIs, SessionIs
  <1>2. /\ KeepsTask(c) /\ session'[c].at = at /\ session'[c].part = session[c].part
        /\ session'[c].id = session[c].id /\ session'[c].draft = session[c].draft
        /\ session'[c].refs = session[c].refs
    BY DEF Hands
  <1>3. InPlace(session'[c])
    BY <1>1, <1>2 DEF InPlace, KeepsTask, Retiring, Transit, Clearing, Making
  <1>4. Staged(session'[c]) /\ Observes(c)'
    BY <1>1, <1>2 DEF Staged, Observes, KeepsTask, Transit, Clearing
  <1>5. Knows(c)'
    <2> SUFFICES ASSUME Owner(c)' PROVE Knows(c)'
      BY DEF Knows
    <2>1. Owner(c) /\ UNCHANGED <<records, objects>>
      BY <1>2 DEF Owner, ReservationStays, reservation, archive, KeepsTask
    <2>2. Made(session[c])
      BY <1>1, <2>1 DEF Knows
    <2>3. Made(session[c])'
      <3>1. session[c].part = "make" => session[c].at \in {"project", "authorise", "write sidecar"}
        BY <1>1 DEF InPlace, Making, Transit, Clearing
      <3> QED
        BY <1>2, <2>1, <2>2, <3>1 DEF Made, KeepsTask, Making, Transit, Clearing
    <2>4. Spared(session'[c], records'[session'[c].id])
      BY <1>2 DEF Spared, Clearing
    <2>5. /\ at \in {"project", "authorise", "write sidecar"} =>
               /\ records[session[c].id] = session[c].draft /\ records[session[c].id] # NoState
               /\ session[c].part \in {"resume", "rotate", "end"} =>
                    records[session[c].id].retired
          /\ at \in Clearing => /\ records[session[c].id] = session[c].draft
                                /\ records[session[c].id] # NoState
                                /\ records[session[c].id].retired
      BY <1>1, <2>1 DEF Knows, Clearing
    <2> QED
      BY <1>2, <2>1, <2>3, <2>4, <2>5 DEF Knows, Clearing
  <1> QED
    BY <1>3, <1>4, <1>5

\* project() reads the sidecar as it is.
LEMMA ProjectStep ==
  ASSUME LifecycleInv, NEW c \in Catalogs, Project(c)
  PROVE  LifecycleInv'
  <1> DEFINE seen == sidecar[session[c].id]
  <1>1. /\ session[c].at = "project" /\ Active(c) /\ ReservationStays /\ UNCHANGED archive
        /\ session' = [session EXCEPT ![c].at = "authorise", ![c].seen = seen]
    BY DEF Project, Active, ReservationStays
  <1>2. TypeOK /\ seen \in States /\ "authorise" \in At
    BY CatalogIs, SessionIs DEF TypeOK, At
  <1>3. /\ StateUpTo(session[c].draft, fence) /\ StateUpTo(seen, fence)
        /\ RefsUpTo(session[c].refs, fence)
    BY CatalogIs
  <1> HIDE DEF seen
  <1>4. Hands(c, "authorise", session[c].id, session[c].draft, seen, session[c].refs)
    BY <1>1, <1>2, SeenIs
  <1>5. InPlace(session'[c]) /\ Staged(session'[c]) /\ Knows(c)' /\ Observes(c)'
    BY <1>1, <1>4, ClassKept
  <1> QED
    BY <1>1, <1>3, <1>4, <1>5, HandsFrame

\* A move between two such places.
LEMMA ClassGoes ==
  ASSUME LifecycleInv, NEW c \in Catalogs, ReservationStays, UNCHANGED archive,
         NEW at \in At, Goes(c, at),
         \/ /\ session[c].at \in {"project", "authorise", "write sidecar"}
            /\ at \in {"project", "authorise", "write sidecar"}
         \/ session[c].at \in Clearing /\ at \in Clearing \ {"delete one"}
  PROVE  InPlace(session'[c]) /\ Staged(session'[c]) /\ Knows(c)' /\ Observes(c)'
  <1>1. Hands(c, at, session[c].id, session[c].draft, session[c].seen, session[c].refs)
    BY CatalogIs, GoesIs DEF Hands
  <1> QED
    BY <1>1, ClassKept

\* The second look at control.json, by who still owns the archive.
LEMMA AuthoriseStep ==
  ASSUME LifecycleInv, NEW c \in Catalogs, Authorise(c)
  PROVE  LifecycleInv'
  <1> DEFINE guard == /\ Authority(c) /\ records[session[c].id] = session[c].draft
                      /\ \/ session[c].seen \in {NoState, session[c].draft}
                         \/ session[c].seen.revision # session[c].draft.revision
  <1>1. /\ session[c].at = "authorise" /\ Active(c)
        /\ Demands(c, guard, "write sidecar") /\ "write sidecar" \in At \ {"out"}
    BY DEF Authorise, Active, At
  <1> HIDE DEF guard
  <1>2. Goes(c, "write sidecar") /\ UNCHANGED <<reservation, archive, used>> =>
          InPlace(session'[c]) /\ Staged(session'[c]) /\ Knows(c)' /\ Observes(c)'
    BY <1>1, ClassGoes DEF ReservationStays
  <1> QED
    BY <1>1, <1>2, DemandsFrame

\* The change of the last mutate(): what is forgotten is retired and empty.
LEMMA CheckForgetStep ==
  ASSUME LifecycleInv, NEW c \in Catalogs, CheckForget(c)
  PROVE  LifecycleInv'
  <1> DEFINE guard == /\ Authority(c) /\ records[session[c].id] = session[c].draft
                      /\ Empty(session[c].id)
  <1>1. /\ session[c].at = "forget" /\ Active(c)
        /\ Demands(c, guard, "forgetting") /\ "forgetting" \in At \ {"out"}
        /\ "forget" \in Clearing /\ "forgetting" \in Clearing \ {"delete one"}
    BY DEF CheckForget, Active, At, Clearing
  <1> HIDE DEF guard
  <1>2. Goes(c, "forgetting") /\ UNCHANGED <<reservation, archive, used>> =>
          InPlace(session'[c]) /\ Staged(session'[c]) /\ Knows(c)' /\ Observes(c)'
    BY <1>1, ClassGoes DEF ReservationStays
  <1> QED
    BY <1>1, <1>2, DemandsFrame

\* The look at what retirement has left.
LEMMA RemainingStep ==
  ASSUME LifecycleInv, NEW c \in Catalogs, Remaining(c)
  PROVE  LifecycleInv'
  <1> DEFINE seen == sidecar[session[c].id]
             next == IF seen # NoState THEN "drop sidecar" ELSE "forget"
  <1>1. session[c].at = "remaining" /\ Active(c) /\ ReservationStays /\ UNCHANGED archive
    BY DEF Remaining, Active, ReservationStays
  <1>2. CASE Fails(c)
    BY <1>1, <1>2, QuietFail
  <1>3. CASE session' = [session EXCEPT ![c].at = next, ![c].seen = seen]
    <2>1. TypeOK /\ seen \in States /\ next \in At /\ next # "out"
      BY CatalogIs, SessionIs DEF TypeOK, At
    <2>2. session[c].at \in Clearing /\ next \in Clearing \ {"delete one"}
      BY <1>1 DEF Clearing
    <2>3. /\ StateUpTo(session[c].draft, fence) /\ StateUpTo(seen, fence)
          /\ RefsUpTo(session[c].refs, fence)
      BY CatalogIs
    <2> HIDE DEF seen, next
    <2>4. Hands(c, next, session[c].id, session[c].draft, seen, session[c].refs)
      BY <1>3, <2>1, SeenIs
    <2>5. InPlace(session'[c]) /\ Staged(session'[c]) /\ Knows(c)' /\ Observes(c)'
      BY <1>1, <2>2, <2>4, ClassKept
    <2> QED
      BY <1>1, <2>1, <2>3, <2>4, <2>5, HandsFrame
  <1> QED
    BY <1>2, <1>3 DEF Remaining

\* check() before each deletion: what is deleted is of the tombstone.
LEMMA CheckDeleteStep ==
  ASSUME LifecycleInv, NEW c \in Catalogs, CheckDelete(c)
  PROVE  LifecycleInv'
  <1>1. /\ session[c].at = "delete" /\ session[c].at \in Clearing
        /\ Active(c) /\ ReservationStays /\ UNCHANGED archive
    BY DEF CheckDelete, Active, ReservationStays, Clearing
  <1>2. CASE Fails(c)
    BY <1>1, <1>2, QuietFail
  <1>3. CASE Goes(c, "remaining")
    <2>1. "remaining" \in At \ {"out"} /\ "remaining" \in Clearing \ {"delete one"}
      BY DEF At, Clearing
    <2>2. InPlace(session'[c]) /\ Staged(session'[c]) /\ Knows(c)' /\ Observes(c)'
      BY <1>1, <1>3, <2>1, ClassGoes
    <2> QED
      BY <1>1, <1>3, <2>1, <2>2, GoFrame
  <1>4. CASE Authority(c) /\ Goes(c, "delete one")
    <2>1. "delete one" \in At \ {"out"}
      BY DEF At
    <2>2. /\ TypeOK /\ InPlace(session[c]) /\ Knows(c) /\ RefsUpTo(session[c].refs, fence)
          /\ session[c].part \in {"resume", "rotate", "end"}
      BY <1>1, CatalogIs, PlaceIs
    <2>3. /\ KeepsTask(c) /\ session'[c].at = "delete one"
          /\ session'[c].part = session[c].part
          /\ session'[c].id = session[c].id /\ session'[c].draft = session[c].draft
          /\ session'[c].refs = session[c].refs
      BY <1>4, <2>1, <2>2, GoesIs
    <2>4. /\ Owner(c) /\ session[c].fence = fence
          /\ records[session[c].id] = session[c].draft /\ records[session[c].id] # NoState
          /\ records[session[c].id].retired /\ UNCHANGED <<records, objects>>
      BY <1>1, <1>4, <2>2 DEF Authority, Owner, Knows, archive
    <2>5. Observes(c)'
      BY <2>2, <2>3, <2>4 DEF Observes, KeepsTask
    <2>6. InPlace(session'[c]) /\ Staged(session'[c])
      BY <1>1, <2>2, <2>3 DEF InPlace, Staged, KeepsTask, Retiring, Transit, Clearing, Making
    <2>7. Knows(c)'
      <3>1. Made(session[c])' /\ Spared(session'[c], records'[session'[c].id])
        BY <2>2, <2>3 DEF Made, Spared, KeepsTask
      <3> QED
        BY <2>3, <2>4, <3>1 DEF Knows
    <2> QED
      BY <1>1, <1>4, <2>1, <2>5, <2>6, <2>7, GoFrame
  <1> QED
    BY <1>2, <1>3, <1>4 DEF CheckDelete

\* A draft is begun, or an identity chosen.
LEMMA StageStep ==
  ASSUME LifecycleInv, NEW c \in Catalogs, Stage(c)
  PROVE  LifecycleInv'
  <1>1. session[c].at = "stage" /\ Active(c) /\ ReservationStays /\ UNCHANGED archive
    BY DEF Stage, Active, ReservationStays
  <1>2. CASE Fails(c)
    BY <1>1, <1>2, QuietFail
  <1>3. ASSUME NEW pin \in BOOLEAN, records[session[c].own] = NoState,
               session' = [session EXCEPT ![c].at = "commit", ![c].id = session[c].own,
                 ![c].draft = [fence |-> session[c].fence, published |-> FALSE, retired |-> FALSE,
                               pinned |-> pin, revision |-> 0, cleanup |-> {}]]
        PROVE  LifecycleInv'
    <2> DEFINE draft == [fence |-> session[c].fence, published |-> FALSE, retired |-> FALSE,
                         pinned |-> pin, revision |-> 0, cleanup |-> {}]
    <2>1. /\ TypeOK /\ InPlace(session[c]) /\ fence \in Nat /\ session[c].part = "stage"
          /\ session[c].fence \in 1 .. fence /\ session[c].own \in Ids
          /\ StateUpTo(session[c].seen, fence) /\ RefsUpTo(session[c].refs, fence)
      BY <1>1, CatalogIs, PlaceIs, SessionIs
    <2>2. /\ draft \in State /\ draft \in States /\ draft # NoState
          /\ draft.fence = session[c].fence /\ ~draft.published /\ ~draft.retired
          /\ draft.cleanup = {}
      <3>1. session[c].fence \in Version /\ {} \in SUBSET Refs /\ 0 \in Nat
        BY <2>1 DEF Version, Absent
      <3>2. draft \in State
        BY <3>1 DEF State
      <3> QED
        BY <3>2, NoStateAssumption DEF States
    <2>3. StateUpTo(draft, fence)
      BY <2>1, <2>2 DEF StateUpTo, RefsUpTo
    <2> HIDE DEF draft
    <2>4. "commit" \in At
      BY DEF At
    <2>5. Hands(c, "commit", session[c].own, draft, session[c].seen, session[c].refs)
      BY <1>3, <2>1, <2>2, <2>4, DraftIs DEF draft
    <2>6. /\ KeepsTask(c) /\ session'[c].at = "commit" /\ session'[c].part = "stage"
          /\ session'[c].id = session[c].own /\ session'[c].draft = draft
      BY <2>1, <2>5 DEF Hands
    <2>7. InPlace(session'[c]) /\ Staged(session'[c]) /\ Observes(c)'
      BY <2>1, <2>2, <2>6 DEF InPlace, Staged, Observes, KeepsTask, Transit
    <2>8. Knows(c)'
      <3>1. records'[session'[c].id] = NoState
        BY <1>1, <1>3, <2>6 DEF archive
      <3>2. Drafted(session'[c], records'[session'[c].id])
        BY <2>2, <2>6, <3>1 DEF Drafted
      <3>3. Spared(session'[c], records'[session'[c].id]) /\ Made(session[c])'
        BY <2>6 DEF Spared, Made
      <3> QED
        BY <2>6, <3>2, <3>3 DEF Knows, Clearing
    <2> QED
      BY <1>1, <2>1, <2>3, <2>5, <2>7, <2>8, HandsFrame
  <1> QED
    BY <1>2, <1>3 DEF Stage

\* A draft that marks its record as published, pinned, or retired.
LEMMA MarkIs ==
  ASSUME NEW r \in State
  PROVE  /\ [r EXCEPT !.published = TRUE] \in State /\ [r EXCEPT !.pinned = TRUE] \in State
         /\ \A f : StateUpTo(r, f) => /\ StateUpTo([r EXCEPT !.published = TRUE], f)
                                      /\ StateUpTo([r EXCEPT !.pinned = TRUE], f)
         /\ \A refs \in SUBSET Refs :
              /\ [r EXCEPT !.retired = TRUE, !.cleanup = refs] \in State
              /\ \A f : StateUpTo(r, f) /\ RefsUpTo(refs, f) =>
                          StateUpTo([r EXCEPT !.retired = TRUE, !.cleanup = refs], f)
  <1>1. /\ [r EXCEPT !.published = TRUE] \in State
        /\ [r EXCEPT !.published = TRUE].fence = r.fence
        /\ [r EXCEPT !.published = TRUE].cleanup = r.cleanup
    BY DEF State
  <1>2. /\ [r EXCEPT !.pinned = TRUE] \in State
        /\ [r EXCEPT !.pinned = TRUE].fence = r.fence
        /\ [r EXCEPT !.pinned = TRUE].cleanup = r.cleanup
    BY DEF State
  <1>3. ASSUME NEW refs \in SUBSET Refs
        PROVE  /\ [r EXCEPT !.retired = TRUE, !.cleanup = refs] \in State
               /\ [r EXCEPT !.retired = TRUE, !.cleanup = refs].fence = r.fence
               /\ [r EXCEPT !.retired = TRUE, !.cleanup = refs].cleanup = refs
    BY DEF State
  <1>4. r # NoState
    BY NoStateAssumption
  <1> QED
    BY <1>1, <1>2, <1>3, <1>4 DEF StateUpTo

\* publish() drafts the record of what the catalog made itself, with both objects there.
LEMMA PublishStep ==
  ASSUME LifecycleInv, NEW c \in Catalogs, Publish(c)
  PROVE  LifecycleInv'
  <1> DEFINE state == records[session[c].own]
             draft == [state EXCEPT !.published = TRUE]
  <1>1. session[c].at = "publish" /\ Active(c) /\ ReservationStays /\ UNCHANGED archive
    BY DEF Publish, Active, ReservationStays
  <1>2. CASE Fails(c)
    BY <1>1, <1>2, QuietFail
  <1>3. CASE /\ Authority(c) /\ state # NoState /\ state.fence = session[c].fence
             /\ session' = [session EXCEPT ![c].at = "commit", ![c].draft = draft]
    <2>1. /\ TypeOK /\ InPlace(session[c]) /\ Knows(c) /\ StateUpTo(state, fence)
          /\ StateUpTo(session[c].seen, fence) /\ RefsUpTo(session[c].refs, fence)
          /\ session[c].part = "make" /\ session[c].id = session[c].own
          /\ state \in States /\ Owner(c) /\ "commit" \in At
      BY <1>1, <1>3, CatalogIs, PlaceIs, SessionIs DEF Making, Authority, At
    <2>2. state \in State
      BY <1>3, <2>1 DEF States
    <2>3. draft \in States /\ draft # NoState /\ StateUpTo(draft, fence)
      BY <2>1, <2>2, MarkIs, NoStateAssumption DEF States
    <2>4. Hands(c, "commit", session[c].id, draft, session[c].seen, session[c].refs)
      BY <1>3, <2>1, <2>3, DraftOfIs
    <2>5. /\ KeepsTask(c) /\ session'[c].at = "commit" /\ session'[c].part = "make"
          /\ session'[c].id = session[c].own /\ session'[c].draft = draft
          /\ UNCHANGED <<records, objects>>
      BY <1>1, <2>1, <2>4 DEF Hands, archive
    <2>6. InPlace(session'[c]) /\ Staged(session'[c]) /\ Observes(c)'
      BY <2>1, <2>5 DEF InPlace, Staged, Observes, KeepsTask, Transit
    <2>7. Knows(c)'
      <3>1. Made(session[c])
        BY <2>1 DEF Knows
      <3>2. ~state.published /\ ~state.retired
        BY <1>1, <2>1, <3>1 DEF Made, Making
      <3>3. Made(session[c])'
        BY <1>1, <2>1, <2>5, <3>1 DEF Made, KeepsTask, Making
      <3>4. Drafted(session'[c], records'[session'[c].id])
        BY <1>3, <2>3, <2>5, <3>2 DEF Drafted
      <3>5. Spared(session'[c], records'[session'[c].id])
        BY <2>5 DEF Spared
      <3> QED
        BY <2>5, <3>3, <3>4, <3>5 DEF Knows, Clearing
    <2> QED
      BY <1>1, <2>1, <2>3, <2>4, <2>6, <2>7, HandsFrame
  <1> QED
    BY <1>2, <1>3 DEF Publish

\* pin() drafts the record with its pin.
LEMMA PinStep ==
  ASSUME LifecycleInv, NEW c \in Catalogs, Pin(c)
  PROVE  LifecycleInv'
  <1> DEFINE state == records[session[c].own]
             draft == [state EXCEPT !.pinned = TRUE]
  <1>1. session[c].at = "pin" /\ Active(c) /\ ReservationStays /\ UNCHANGED archive
    BY DEF Pin, Active, ReservationStays
  <1>2. CASE Fails(c)
    BY <1>1, <1>2, QuietFail
  <1>3. CASE /\ state # NoState /\ ~state.retired
             /\ session' = [session EXCEPT ![c].at = "commit", ![c].draft = draft]
    <2>1. /\ TypeOK /\ InPlace(session[c]) /\ StateUpTo(state, fence)
          /\ StateUpTo(session[c].seen, fence) /\ RefsUpTo(session[c].refs, fence)
          /\ session[c].part = "pin" /\ session[c].id = session[c].own
          /\ state \in States /\ "commit" \in At
      BY <1>1, <1>3, CatalogIs, PlaceIs, SessionIs DEF At
    <2>2. state \in State
      BY <1>3, <2>1 DEF States
    <2>3. draft \in States /\ draft # NoState /\ StateUpTo(draft, fence)
      BY <2>1, <2>2, MarkIs, NoStateAssumption DEF States
    <2>4. Hands(c, "commit", session[c].id, draft, session[c].seen, session[c].refs)
      BY <1>3, <2>1, <2>3, DraftOfIs
    <2>5. /\ KeepsTask(c) /\ session'[c].at = "commit" /\ session'[c].part = "pin"
          /\ session'[c].id = session[c].own /\ session'[c].draft = draft
          /\ UNCHANGED <<records, objects>>
      BY <1>1, <2>1, <2>4 DEF Hands, archive
    <2>6. InPlace(session'[c]) /\ Staged(session'[c]) /\ Observes(c)'
      BY <2>1, <2>5 DEF InPlace, Staged, Observes, KeepsTask, Transit
    <2>7. Knows(c)'
      <3>1. Drafted(session'[c], records'[session'[c].id])
        BY <1>3, <2>3, <2>5 DEF Drafted
      <3>2. Spared(session'[c], records'[session'[c].id]) /\ Made(session[c])'
        BY <2>5 DEF Spared, Made
      <3> QED
        BY <2>5, <3>1, <3>2 DEF Knows, Clearing
    <2> QED
      BY <1>1, <2>1, <2>3, <2>4, <2>6, <2>7, HandsFrame
  <1> QED
    BY <1>2, <1>3 DEF Pin

\* _rollback() looks at the catalog's own snapshot.
LEMMA RollbackStep ==
  ASSUME LifecycleInv, NEW c \in Catalogs, Rollback(c)
  PROVE  LifecycleInv'
  <1> DEFINE state == records[session[c].own]
  <1>1. session[c].at = "rollback" /\ Active(c) /\ ReservationStays /\ UNCHANGED archive
    BY DEF Rollback, Active, ReservationStays
  <1>2. CASE Fails(c)
    BY <1>1, <1>2, QuietFail
  <1>3. CASE /\ Authority(c)
             /\ ~(session[c].task = "write" /\ state # NoState /\ state.published)
             /\ session' = [session EXCEPT ![c].at = "list", ![c].id = session[c].own]
    <2>1. /\ TypeOK /\ InPlace(session[c]) /\ Knows(c) /\ StateUpTo(session[c].draft, fence)
          /\ StateUpTo(session[c].seen, fence) /\ RefsUpTo(session[c].refs, fence)
          /\ session[c].part = "end" /\ session[c].task \in {"write", "copy", "delete"}
          /\ session[c].own \in Ids /\ Owner(c) /\ "list" \in At
      BY <1>1, <1>3, CatalogIs, PlaceIs, SessionIs DEF Authority, At
    <2>2. Hands(c, "list", session[c].own, session[c].draft, session[c].seen, session[c].refs)
      BY <1>3, <2>1, IdIs
    <2>3. /\ KeepsTask(c) /\ session'[c].at = "list" /\ session'[c].part = "end"
          /\ session'[c].id = session[c].own /\ UNCHANGED <<records, objects>>
      BY <1>1, <2>1, <2>2 DEF Hands, archive
    <2>4. InPlace(session'[c]) /\ Staged(session'[c]) /\ Observes(c)'
      BY <2>1, <2>3 DEF InPlace, Staged, Observes, KeepsTask, Retiring
    <2>5. Knows(c)'
      <3>1. Made(session[c])
        BY <2>1 DEF Knows
      <3>2. Made(session[c])'
        BY <1>1, <2>1, <2>3, <3>1 DEF Made, KeepsTask
      <3>3. Spared(session'[c], records'[session'[c].id])
        BY <1>3, <2>3 DEF Spared, KeepsTask
      <3> QED
        BY <2>3, <3>2, <3>3 DEF Knows, Clearing
    <2> QED
      BY <1>1, <2>1, <2>2, <2>4, <2>5, HandsFrame
  <1> QED
    BY <1>2, <1>3 DEF Rollback


\* Cleanup that is over gives way to the capture.
LEMMA ResumeStep ==
  ASSUME LifecycleInv, NEW c \in Catalogs, Resume(c)
  PROVE  LifecycleInv'
  <1>1. session[c].at = "resume" /\ Active(c) /\ ReservationStays /\ UNCHANGED archive
    BY DEF Resume, Active, ReservationStays
  <1>2. /\ TypeOK /\ InPlace(session[c]) /\ session[c].part = "resume"
        /\ session[c].task = "write" /\ session[c].todo \in SUBSET Ids
        /\ StateUpTo(session[c].draft, fence) /\ StateUpTo(session[c].seen, fence)
        /\ RefsUpTo(session[c].refs, fence)
    BY <1>1, CatalogIs, PlaceIs, SessionIs DEF InPlace
  <1>3. CASE GoesIn(c, "stage", "stage")
    <2>1. "stage" \in At /\ "stage" \in Part
      BY DEF At, Part
    <2>2. /\ session' \in [Catalogs -> Session] /\ KeepsTask(c)
          /\ session'[c].at = "stage" /\ session'[c].part = "stage"
          /\ session'[c].draft = NoState /\ session'[c].seen = NoState /\ session'[c].refs = {}
      BY <1>2, <1>3, <2>1, GoesInIs
    <2>3. /\ StateUpTo(session'[c].draft, fence) /\ StateUpTo(session'[c].seen, fence)
          /\ RefsUpTo(session'[c].refs, fence) /\ Active(c)'
      BY <2>2 DEF StateUpTo, RefsUpTo, Active
    <2>4. InPlace(session'[c]) /\ Staged(session'[c]) /\ Observes(c)'
      BY <1>2, <2>2 DEF InPlace, Staged, Observes, KeepsTask, Transit
    <2>5. Spared(session'[c], records'[session'[c].id]) /\ Made(session[c])'
      BY <2>2 DEF Spared, Made
    <2>6. Knows(c)'
      BY <2>2, <2>5 DEF Knows, Clearing
    <2> QED
      BY <1>1, <2>2, <2>3, <2>4, <2>6, QuietFrame
  <1>4. ASSUME NEW i \in session[c].todo, NEW at \in {"resume", "list", "complete?"},
               at # "resume" => records[i].retired \/ ~records[i].published,
               session' = [session EXCEPT ![c].todo = session[c].todo \ {i}, ![c].id = i,
                                          ![c].at = at]
        PROVE  LifecycleInv'
    <2>1. i \in Ids /\ session[c].todo \ {i} \in SUBSET Ids /\ at \in At
      BY <1>2 DEF At
    <2>2. Hands(c, at, i, session[c].draft, session[c].seen, session[c].refs)
      BY <1>2, <1>4, <2>1, TodoIs
    <2>3. /\ KeepsTask(c) /\ session'[c].at = at /\ session'[c].part = "resume"
          /\ session'[c].id = i /\ UNCHANGED <<records, objects>>
      BY <1>1, <1>2, <2>2 DEF Hands, archive
    <2>4. InPlace(session'[c]) /\ Staged(session'[c]) /\ Observes(c)'
      BY <1>2, <2>3 DEF InPlace, Staged, Observes, KeepsTask, Retiring
    <2>5. Spared(session'[c], records'[session'[c].id]) /\ Made(session[c])'
      BY <1>4, <2>3 DEF Spared, Made
    <2>6. Knows(c)'
      BY <2>3, <2>5 DEF Knows, Clearing
    <2> QED
      BY <1>1, <1>2, <2>2, <2>4, <2>6, HandsFrame
  <1>5. CASE session[c].todo # {} /\ ~GoesIn(c, "stage", "stage")
    <2> DEFINE at(i) == IF records[i] = NoState THEN "resume"
                        ELSE IF records[i].retired THEN "list"
                        ELSE IF ~records[i].published /\ records[i].fence < session[c].fence
                             THEN "complete?" ELSE "resume"
    <2>1. PICK i \in session[c].todo :
            session' = [session EXCEPT ![c].todo = session[c].todo \ {i}, ![c].id = i,
                                       ![c].at = at(i)]
      BY <1>2, <1>5 DEF Resume, TypeOK
    <2>2. at(i) \in {"resume", "list", "complete?"}
          /\ (at(i) # "resume" => records[i].retired \/ ~records[i].published)
      OBVIOUS
    <2> HIDE DEF at
    <2> QED
      BY <1>4, <2>1, <2>2
  <1> QED
    BY <1>3, <1>5 DEF Resume

\* An abandoned stage is retired only if it was not completed.
LEMMA LookForCompleteStep ==
  ASSUME LifecycleInv, NEW c \in Catalogs, LookForComplete(c)
  PROVE  LifecycleInv'
  <1> DEFINE at == IF objects[session[c].id]["COMPLETE"] = Absent THEN "list" ELSE "resume"
  <1>1. /\ session[c].at = "complete?" /\ Active(c) /\ ReservationStays /\ UNCHANGED archive
        /\ Goes(c, at) /\ at \in At \ {"out"} /\ at \in {"list", "resume"}
    BY DEF LookForComplete, Active, ReservationStays, At
  <1> HIDE DEF at
  <1>2. /\ TypeOK /\ InPlace(session[c]) /\ Knows(c) /\ session[c].part = "resume"
    BY <1>1, CatalogIs, PlaceIs
  <1>3. /\ KeepsTask(c) /\ session'[c].at = at /\ session'[c].part = "resume"
        /\ session'[c].id = session[c].id /\ UNCHANGED <<records, objects>>
    BY <1>1, <1>2, GoesIs DEF archive
  <1>4. InPlace(session'[c]) /\ Staged(session'[c]) /\ Observes(c)'
    BY <1>1, <1>2, <1>3 DEF InPlace, Staged, Observes, KeepsTask, Retiring
  <1>5. Knows(c)'
    <2> SUFFICES ASSUME Owner(c)' PROVE Knows(c)'
      BY DEF Knows
    <2>1. Owner(c)
      BY <1>1, <1>3 DEF Owner, ReservationStays, reservation, KeepsTask
    <2>2. Spared(session[c], records[session[c].id])
      BY <1>2, <2>1 DEF Knows
    <2>3. Spared(session'[c], records'[session'[c].id]) /\ Made(session[c])'
      BY <1>1, <1>2, <1>3, <2>2 DEF Spared, Made
    <2> QED
      BY <1>1, <1>3, <2>3 DEF Knows, Clearing
  <1> QED
    BY <1>1, <1>4, <1>5, GoFrame

\* rotate() picks a snapshot that is not pinned.
LEMMA RotateStep ==
  ASSUME LifecycleInv, NEW c \in Catalogs, Rotate(c)
  PROVE  LifecycleInv'
  <1>1. session[c].at = "rotate" /\ Active(c) /\ ReservationStays /\ UNCHANGED archive
    BY DEF Rotate, Active, ReservationStays
  <1>2. /\ TypeOK /\ InPlace(session[c]) /\ session[c].part = "rotate"
        /\ session[c].task = "write"
        /\ StateUpTo(session[c].draft, fence) /\ StateUpTo(session[c].seen, fence)
        /\ RefsUpTo(session[c].refs, fence) /\ "leave" \in At \ {"out"} /\ "list" \in At
    BY <1>1, CatalogIs, PlaceIs, SessionIs DEF InPlace, At
  <1>3. CASE Goes(c, "leave")
    <2>1. /\ KeepsTask(c) /\ session'[c].at = "leave" /\ session'[c].part = "rotate"
      BY <1>2, <1>3, GoesIs
    <2>2. InPlace(session'[c]) /\ Staged(session'[c]) /\ Observes(c)'
      BY <1>2, <2>1 DEF InPlace, Staged, Observes, KeepsTask
    <2>3. Spared(session'[c], records'[session'[c].id]) /\ Made(session[c])'
      BY <2>1 DEF Spared, Made
    <2>4. Knows(c)'
      BY <2>1, <2>3 DEF Knows, Clearing
    <2> QED
      BY <1>1, <1>2, <1>3, <2>2, <2>4, GoFrame
  <1>4. ASSUME NEW i \in Ids, ~records[i].pinned,
               session' = [session EXCEPT ![c].at = "list", ![c].id = i]
        PROVE  LifecycleInv'
    <2>1. Hands(c, "list", i, session[c].draft, session[c].seen, session[c].refs)
      BY <1>2, <1>4, IdIs
    <2>2. /\ KeepsTask(c) /\ session'[c].at = "list" /\ session'[c].part = "rotate"
          /\ session'[c].id = i /\ UNCHANGED <<records, objects>>
      BY <1>1, <1>2, <2>1 DEF Hands, archive
    <2>3. InPlace(session'[c]) /\ Staged(session'[c]) /\ Observes(c)'
      BY <1>2, <2>2 DEF InPlace, Staged, Observes, KeepsTask, Retiring
    <2>4. Spared(session'[c], records'[session'[c].id]) /\ Made(session[c])'
      BY <1>4, <2>2 DEF Spared, Made
    <2>5. Knows(c)'
      BY <2>2, <2>4 DEF Knows, Clearing
    <2> QED
      BY <1>1, <1>2, <2>1, <2>3, <2>5, HandsFrame
  <1> QED
    BY <1>3, <1>4 DEF Rotate

\* What is observed of a snapshot was made by now.
LEMMA ObservedIs ==
  ASSUME TypeOK, FenceInv, NEW i \in Ids
  PROVE  Observed(i) \in SUBSET Refs /\ RefsUpTo(Observed(i), fence)
  <1>1. \A n \in Names : objects[i][n] \in Nat /\ objects[i][n] <= fence
    BY DEF TypeOK, FenceInv, ArchiveUpTo
  <1>2. ASSUME NEW r \in Observed(i) PROVE r \in Refs /\ r[2] <= fence
    <2>1. PICK n \in Names : objects[i][n] # Absent /\ r = <<n, objects[i][n]>>
      BY DEF Observed
    <2> QED
      BY <1>1, <2>1 DEF Refs, Version
  <1> QED
    BY <1>2 DEF RefsUpTo

\* retire() drafts a tombstone of what it observes, or takes up the one there is.
LEMMA ListStep ==
  ASSUME LifecycleInv, NEW c \in Catalogs, List(c)
  PROVE  LifecycleInv'
  <1> DEFINE state == records[session[c].id]
             observed == Observed(session[c].id)
             tombstone == [state EXCEPT !.retired = TRUE, !.cleanup = observed]
  <1>1. session[c].at = "list" /\ Active(c) /\ ReservationStays /\ UNCHANGED archive
    BY DEF List, Active, ReservationStays
  <1>2. /\ TypeOK /\ InPlace(session[c]) /\ Knows(c) /\ StateUpTo(state, fence)
        /\ session[c].part \in {"resume", "rotate", "end"}
        /\ state \in States /\ StateUpTo(session[c].seen, fence)
        /\ observed \in SUBSET Refs /\ RefsUpTo(observed, fence)
        /\ "delete" \in At /\ "commit" \in At
    BY <1>1, CatalogIs, PlaceIs, SessionIs, ObservedIs DEF At
  <1>3. CASE Fails(c)
    BY <1>1, <1>3, QuietFail
  <1>4. CASE /\ state # NoState /\ state.retired
             /\ session' = [session EXCEPT ![c].at = "delete", ![c].draft = state,
                                           ![c].refs = state.cleanup]
    <2>1. state.cleanup \in SUBSET Refs /\ RefsUpTo(state.cleanup, fence)
      BY <1>2, <1>4 DEF States, State, StateUpTo
    <2>2. Hands(c, "delete", session[c].id, state, session[c].seen, state.cleanup)
      BY <1>2, <1>4, <2>1, TombstoneIs
    <2>3. /\ KeepsTask(c) /\ session'[c].at = "delete" /\ session'[c].part = session[c].part
          /\ session'[c].id = session[c].id /\ session'[c].draft = state
          /\ UNCHANGED <<records, objects>>
      BY <1>1, <2>2 DEF Hands, archive
    <2>4. InPlace(session'[c]) /\ Staged(session'[c]) /\ Observes(c)'
      BY <1>1, <1>2, <2>3 DEF InPlace, Staged, Observes, KeepsTask, Retiring, Clearing, Transit
    <2>5. Spared(session'[c], records'[session'[c].id]) /\ Made(session[c])'
      BY <1>2, <2>3 DEF Spared, Made
    <2>6. Knows(c)'
      BY <1>4, <2>3, <2>5 DEF Knows, Clearing
    <2> QED
      BY <1>1, <1>2, <2>1, <2>2, <2>4, <2>6, HandsFrame
  <1>5. CASE /\ state # NoState /\ ~state.retired
             /\ session' = [session EXCEPT ![c].at = "commit", ![c].draft = tombstone,
                                           ![c].refs = observed]
    <2>1. state \in State
      BY <1>2, <1>5 DEF States
    <2>2. tombstone \in States /\ tombstone # NoState /\ StateUpTo(tombstone, fence)
      BY <1>2, <2>1, MarkIs, NoStateAssumption DEF States
    <2>3. Hands(c, "commit", session[c].id, tombstone, session[c].seen, observed)
      BY <1>2, <1>5, <2>2, TombstoneIs
    <2>4. /\ KeepsTask(c) /\ session'[c].at = "commit" /\ session'[c].part = session[c].part
          /\ session'[c].id = session[c].id /\ session'[c].draft = tombstone
          /\ session'[c].refs = observed /\ UNCHANGED <<records, objects>>
      BY <1>1, <2>3 DEF Hands, archive
    <2>5. InPlace(session'[c]) /\ Staged(session'[c]) /\ Observes(c)'
      BY <1>1, <1>2, <2>4 DEF InPlace, Staged, Observes, KeepsTask, Retiring, Clearing, Transit
    <2>6. Knows(c)'
      <3> SUFFICES ASSUME Owner(c)' PROVE Knows(c)'
        BY DEF Knows
      <3>1. Owner(c)
        BY <1>1, <2>4 DEF Owner, ReservationStays, reservation, KeepsTask
      <3>2. Spared(session[c], state) /\ Made(session[c])
        BY <1>2, <3>1 DEF Knows
      <3>3. Spared(session'[c], records'[session'[c].id])
        BY <1>1, <2>4, <3>2 DEF Spared, KeepsTask
      <3>4. Made(session[c])'
        BY <1>1, <1>2, <2>4, <3>2 DEF Made, KeepsTask
      <3>5. Drafted(session'[c], records'[session'[c].id])
        BY <1>2, <1>5, <2>2, <2>4 DEF Drafted
      <3> QED
        BY <2>4, <3>3, <3>4, <3>5 DEF Knows, Clearing
    <2> QED
      BY <1>1, <1>2, <2>2, <2>3, <2>5, <2>6, HandsFrame
  <1> QED
    BY <1>3, <1>4, <1>5 DEF List

\* A request that raises without effect.
LEMMA RaiseStep ==
  ASSUME LifecycleInv, NEW c \in Catalogs, Raise(c)
  PROVE  LifecycleInv'
  BY QuietFail DEF Raise, Active, ReservationStays

-----------------------------------------------------------------------------
(* Steps that change the archive.                                          *)

\* A catalog that goes back to the work it has left to do, with nothing in hand.
LEMMA RestFrame ==
  ASSUME LifecycleInv, NEW c \in Catalogs, Active(c), ReservationStays, ArchiveMoves(c),
         NEW at, NEW part, GoesIn(c, at, part),
         <<at, part>> \in {<<"leave", "end">>, <<"resume", "resume">>, <<"rotate", "rotate">>},
         at # "leave" => session[c].task = "write"
  PROVE  LifecycleInv'
  <1>1. TypeOK /\ at \in At /\ part \in Part /\ at # "out"
    BY CatalogIs DEF At, Part
  <1>2. /\ session' \in [Catalogs -> Session] /\ KeepsTask(c)
        /\ session'[c].at = at /\ session'[c].part = part
        /\ session'[c].draft = NoState /\ session'[c].seen = NoState /\ session'[c].refs = {}
    BY <1>1, GoesInIs
  <1>3. /\ StateUpTo(session'[c].draft, fence) /\ StateUpTo(session'[c].seen, fence)
        /\ RefsUpTo(session'[c].refs, fence) /\ Active(c)'
    BY <1>1, <1>2 DEF StateUpTo, RefsUpTo, Active
  <1>4. InPlace(session'[c]) /\ Staged(session'[c]) /\ Observes(c)'
    BY <1>2 DEF InPlace, Staged, Observes, KeepsTask, Retiring, Transit, Clearing
  <1>5. Spared(session'[c], records'[session'[c].id]) /\ Made(session[c])'
    BY <1>2 DEF Spared, Made
  <1>6. Knows(c)'
    BY <1>2, <1>5 DEF Knows, Clearing
  <1> QED
    BY <1>2, <1>3, <1>4, <1>6, Frame

\* What a commit leaves in the archive, whether its catalog learns of it or not.
LEMMA CommitMoves ==
  ASSUME LifecycleInv, NEW c \in Catalogs, session[c].at = "commit", Owner(c),
         NEW new \in State, session[c].draft \in State,
         new.fence = session[c].draft.fence, new.published = session[c].draft.published,
         new.retired = session[c].draft.retired, new.cleanup = session[c].draft.cleanup,
         records' = [records EXCEPT ![session[c].id] = new],
         UNCHANGED <<reservation, sidecar, objects, used>>
  PROVE  /\ ArchiveMoves(c) /\ StateUpTo(new, fence)
         /\ session[c].part = "make" => /\ session[c].id = session[c].own
                                        /\ new.fence = session[c].fence /\ ~new.retired
         /\ session[c].part \in {"resume", "rotate", "end"} => new.retired
         /\ records' \in [Ids -> States] /\ records'[session[c].id] = new
  <1> DEFINE s == session[c]
             r == records[session[c].id]
  <1>1. /\ TypeOK /\ FenceInv /\ InPlace(s) /\ Staged(s) /\ Drafted(s, r) /\ Made(s)
        /\ StateUpTo(s.draft, fence) /\ s.part \in Part /\ s.id \in Ids /\ r \in States
        /\ PublishedIsOwnWork
    BY CatalogIs, SessionIs DEF Knows, LifecycleInv, WorkInv
  <1>2. /\ new # NoState /\ s.draft # NoState /\ new \in States
    BY NoStateAssumption DEF States
  <1>3. StateUpTo(new, fence)
    BY <1>1, <1>2 DEF StateUpTo
  <1>4. /\ records' \in [Ids -> States] /\ records'[s.id] = new
        /\ \A i \in Ids \ {s.id} : records'[i] = records[i]
    BY <1>1, <1>2 DEF TypeOK
  <1>5. r # NoState => r \in State
    BY <1>1 DEF States
  <1>6. s.part = "stage" => new.fence = s.fence /\ ~new.published
    BY <1>1, <1>2 DEF Staged, Transit
  <1>7. s.part = "make" => /\ s.id = s.own /\ new.fence = s.fence /\ new.fence = r.fence
                           /\ r # NoState /\ ~r.retired /\ ~new.retired
                           /\ \A n \in Names : objects[s.own][n] = s.fence
    <2> SUFFICES ASSUME s.part = "make"
                 PROVE  /\ s.id = s.own /\ new.fence = s.fence /\ new.fence = r.fence
                        /\ r # NoState /\ ~r.retired /\ ~new.retired
                        /\ \A n \in Names : objects[s.own][n] = s.fence
      OBVIOUS
    <2>1. /\ s.id = s.own /\ r # NoState /\ r.fence = s.fence /\ ~r.retired
          /\ objects[s.own]["data"] = s.fence /\ objects[s.own]["COMPLETE"] = s.fence
      BY <1>1 DEF InPlace, Made, Transit
    <2>2. s.draft = [r EXCEPT !.published = TRUE] /\ r \in State
      BY <1>1, <1>5 DEF Drafted
    <2>3. s.draft.fence = r.fence /\ s.draft.retired = r.retired
      BY <2>2 DEF State
    <2> QED
      BY <2>1, <2>3 DEF Names
  <1>8. s.part = "pin" => /\ r # NoState /\ ~r.retired /\ new.fence = r.fence
                          /\ new.published = r.published
    <2> SUFFICES ASSUME s.part = "pin"
                 PROVE  /\ r # NoState /\ ~r.retired /\ new.fence = r.fence
                        /\ new.published = r.published
      OBVIOUS
    <2>1. /\ s.draft = [r EXCEPT !.pinned = TRUE] /\ r # NoState /\ ~r.retired /\ r \in State
      BY <1>1, <1>5 DEF Drafted
    <2>2. s.draft.fence = r.fence /\ s.draft.published = r.published
      BY <2>1 DEF State
    <2> QED
      BY <2>1, <2>2
  <1>9. s.part \in {"resume", "rotate", "end"} => new.retired
    <2> SUFFICES ASSUME s.part \in {"resume", "rotate", "end"} PROVE new.retired
      OBVIOUS
    <2>1. /\ s.draft = [r EXCEPT !.retired = TRUE, !.cleanup = s.refs] /\ r \in State
      BY <1>1, <1>5 DEF Drafted
    <2>2. s.draft.retired
      BY <2>1 DEF State
    <2> QED
      BY <2>2
  <1>10. RecordsMove(c)
    <2>1. \/ new.retired \/ new.fence = s.fence
          \/ r # NoState /\ ~r.retired /\ new.fence = r.fence
      BY <1>1, <1>6, <1>7, <1>8, <1>9 DEF Part
    <2> QED
      BY <1>4, <2>1 DEF RecordsMove
  <1>11. PublishedIsOwnWork'
    <2> SUFFICES ASSUME NEW i \in Ids, Published(i)', NEW n \in Names
                 PROVE  objects'[i][n] = records'[i].fence
      BY DEF PublishedIsOwnWork
    <2>1. CASE i # s.id
      BY <1>1, <1>4, <2>1 DEF PublishedIsOwnWork, Published, Known
    <2>2. CASE i = s.id
      <3>1. new.published /\ ~new.retired
        BY <1>4, <2>2 DEF Published
      <3>2. CASE s.part = "make"
        BY <1>4, <1>7, <2>2, <3>2
      <3>3. CASE s.part = "pin"
        <4>1. Published(i)
          BY <1>8, <2>2, <3>1, <3>3 DEF Published, Known
        <4> QED
          BY <1>1, <1>4, <1>8, <2>2, <3>3, <4>1 DEF PublishedIsOwnWork
      <3> QED
        BY <1>1, <1>6, <1>9, <3>1, <3>2, <3>3 DEF Part
    <2> QED
      BY <2>1, <2>2
  <1>12. \A i \in Ids : ArchiveUpTo(i)'
    <2>1. UNCHANGED <<fence, sidecar, objects>>
      BY DEF reservation
    <2>2. ASSUME NEW i \in Ids PROVE ArchiveUpTo(i)'
      <3>1. ArchiveUpTo(i)
        BY <1>1 DEF FenceInv
      <3>2. StateUpTo(records'[i], fence)
        BY <1>3, <1>4, <3>1 DEF ArchiveUpTo
      <3> QED
        BY <2>1, <3>1, <3>2 DEF ArchiveUpTo, StateUpTo, RefsUpTo
    <2> QED
      BY <2>2
  <1>13. ObjectsMove(c) /\ sidecar' \in [Ids -> States] /\ objects' \in [Ids -> [Names -> Nat]]
    BY <1>1 DEF ObjectsMove, TypeOK
  <1> QED
    BY <1>3, <1>4, <1>7, <1>9, <1>10, <1>11, <1>12, <1>13 DEF ArchiveMoves

\* The write of a record to control.json.
LEMMA CommitStep ==
  ASSUME LifecycleInv, NEW c \in Catalogs, Commit(c)
  PROVE  LifecycleInv'
  <1> DEFINE s == session[c]
             previous == records[session[c].id]
             base == IF previous = NoState THEN 0 ELSE previous.revision
             refused == previous # NoState /\ previous.retired /\ ~s.draft.retired
  <1>1. /\ s.at = "commit" /\ Active(c) /\ ReservationStays
        /\ UNCHANGED <<reservation, sidecar, objects, used>>
    BY DEF Commit, Active, ReservationStays
  <1>2. /\ TypeOK /\ InPlace(s) /\ Staged(s) /\ Knows(c) /\ s.id \in Ids
        /\ previous \in States /\ s.draft \in States /\ s.part \in Part
        /\ StateUpTo(s.seen, fence) /\ RefsUpTo(s.refs, fence)
    BY CatalogIs, SessionIs
  <1>3. CASE Fails(c) /\ UNCHANGED records
    BY <1>1, <1>3, QuietFail DEF archive
  <1>4. ASSUME Owner(c), NEW applied \in Repeats, NEW new,
               new = [s.draft EXCEPT !.revision = base + applied],
               records' = [records EXCEPT ![s.id] = new],
               \/ session' = [session EXCEPT ![c].at = "project", ![c].draft = new]
               \/ Fails(c)
        PROVE  LifecycleInv'
    <2>1. s.draft \in State
      BY <1>1, <1>2, <1>4 DEF Knows, Drafted, States
    <2>2. base + applied \in Nat
      <3>1. applied \in Nat
        BY <1>4, LifecycleAssumption
      <3>2. base \in Nat
        BY <1>2 DEF States, State
      <3> QED
        BY <3>1, <3>2
    <2>3. /\ new \in State /\ new.fence = s.draft.fence /\ new.published = s.draft.published
          /\ new.retired = s.draft.retired /\ new.cleanup = s.draft.cleanup
      <3> HIDE DEF base
      <3> QED
        BY <1>4, <2>1, <2>2 DEF State
    <2>4. new \in States /\ new # NoState
      BY <2>3, NoStateAssumption DEF States
    <2>5. /\ ArchiveMoves(c) /\ StateUpTo(new, fence)
          /\ s.part = "make" => s.id = s.own /\ new.fence = s.fence /\ ~new.retired
          /\ s.part \in {"resume", "rotate", "end"} => new.retired
          /\ records'[s.id] = new
      BY <1>1, <1>4, <2>1, <2>3, CommitMoves
    <2>6. CASE Fails(c)
      BY <1>1, <2>5, <2>6, FailFrame
    <2>7. CASE session' = [session EXCEPT ![c].at = "project", ![c].draft = new]
      <3>1. "project" \in At
        BY DEF At
      <3>2. Hands(c, "project", s.id, new, s.seen, s.refs)
        BY <1>2, <2>4, <2>7, <3>1, DraftOfIs
      <3>3. /\ session' \in [Catalogs -> Session] /\ KeepsTask(c)
            /\ session'[c].at = "project" /\ session'[c].part = s.part
            /\ session'[c].id = s.id /\ session'[c].draft = new
            /\ session'[c].seen = s.seen /\ session'[c].refs = s.refs
        BY <3>2 DEF Hands
      <3>4. InPlace(session'[c]) /\ Observes(c)' /\ Active(c)'
        BY <1>1, <1>2, <3>3 DEF InPlace, Observes, Active, KeepsTask, Retiring, Transit,
                                Clearing, Making
      <3>5. Staged(session'[c])
        BY <1>1, <1>2, <2>3, <2>4, <3>3 DEF Staged, KeepsTask, Transit
      <3>6. Knows(c)'
        <4>1. Made(s)
          BY <1>2, <1>4 DEF Knows
        <4>2. Made(session[c])'
          BY <1>1, <2>4, <2>5, <3>3, <4>1 DEF Made, KeepsTask, Making, Transit
        <4>3. Spared(session'[c], records'[session'[c].id])
          BY <3>3 DEF Spared
        <4> QED
          BY <2>4, <2>5, <3>3, <4>2, <4>3 DEF Knows, Clearing
      <3> QED
        BY <1>1, <1>2, <2>5, <3>3, <3>4, <3>5, <3>6, Frame
    <2> QED
      BY <1>4, <2>6, <2>7
  <1>5. CASE Owner(c) /\ ~refused
    <2>1. PICK applied \in Repeats :
            /\ records' = [records EXCEPT ![s.id] = [s.draft EXCEPT !.revision = base + applied]]
            /\ \/ session' = [session EXCEPT ![c].at = "project",
                                ![c].draft = [s.draft EXCEPT !.revision = base + applied]]
               \/ Fails(c)
      BY <1>5 DEF Commit, ReplyLost
    <2> HIDE DEF base
    <2> QED
      BY <1>4, <1>5, <2>1
  <1>6. CASE ~(Owner(c) /\ ~refused)
    BY <1>3, <1>6 DEF Commit
  <1> QED
    BY <1>5, <1>6

\* A sidecar is written or deleted.
LEMMA SidecarMoves ==
  ASSUME LifecycleInv, NEW c \in Catalogs, NEW i \in Ids, NEW state \in States,
         StateUpTo(state, fence), sidecar' = [sidecar EXCEPT ![i] = state],
         UNCHANGED <<reservation, records, objects, used>>
  PROVE  ArchiveMoves(c)
  <1>1. TypeOK /\ FenceInv /\ PublishedIsOwnWork /\ UNCHANGED fence
    BY DEF LifecycleInv, WorkInv, reservation
  <1>2. /\ sidecar' \in [Ids -> States]
        /\ \A j \in Ids : sidecar'[j] = IF j = i THEN state ELSE sidecar[j]
    BY <1>1 DEF TypeOK
  <1>3. ASSUME NEW j \in Ids PROVE ArchiveUpTo(j)'
    <2>1. ArchiveUpTo(j)
      BY <1>1 DEF FenceInv
    <2>2. StateUpTo(sidecar'[j], fence)
      BY <1>2, <2>1 DEF ArchiveUpTo
    <2> QED
      BY <1>1, <2>1, <2>2 DEF ArchiveUpTo, StateUpTo, RefsUpTo
  <1>4. PublishedIsOwnWork'
    BY <1>1 DEF PublishedIsOwnWork, Published, Known
  <1> QED
    BY <1>1, <1>2, <1>3, <1>4 DEF ArchiveMoves, RecordsMove, ObjectsMove, TypeOK

\* After a projection: the making begins, the retirement goes on, or the task does.
LEMMA ProjectedFrame ==
  ASSUME LifecycleInv, NEW c \in Catalogs, session[c].at = "write sidecar", Projected(c),
         ArchiveMoves(c), UNCHANGED <<reservation, records, objects, used>>
  PROVE  LifecycleInv'
  <1> DEFINE s == session[c]
  <1>1. /\ TypeOK /\ InPlace(s) /\ Staged(s) /\ Knows(c) /\ Active(c) /\ ReservationStays
        /\ s.part \in Part /\ s.task \in Tasks \cup {"pin"}
        /\ StateUpTo(s.draft, fence) /\ StateUpTo(s.seen, fence) /\ RefsUpTo(s.refs, fence)
    BY CatalogIs, SessionIs DEF Active, ReservationStays, TypeOK, Session
  <1>2. CASE s.part = "stage"
    <2>1. GoesIn(c, "check data", "make") /\ "check data" \in At /\ "make" \in Part
      BY <1>2 DEF Projected, At, Part
    <2>2. /\ session' \in [Catalogs -> Session] /\ KeepsTask(c)
          /\ session'[c].at = "check data" /\ session'[c].part = "make"
          /\ session'[c].id = s.id
          /\ session'[c].draft = NoState /\ session'[c].seen = NoState /\ session'[c].refs = {}
      BY <1>1, <2>1, GoesInIs
    <2>3. /\ StateUpTo(session'[c].draft, fence) /\ StateUpTo(session'[c].seen, fence)
          /\ RefsUpTo(session'[c].refs, fence) /\ Active(c)'
      BY <2>2 DEF StateUpTo, RefsUpTo, Active
    <2>4. InPlace(session'[c]) /\ Staged(session'[c]) /\ Observes(c)'
      BY <1>1, <1>2, <2>2 DEF InPlace, Staged, Observes, KeepsTask, Transit, Making
    <2>5. Knows(c)'
      <3> SUFFICES ASSUME Owner(c)' PROVE Knows(c)'
        BY DEF Knows
      <3>1. Owner(c)
        BY <2>2 DEF Owner, reservation, KeepsTask
      <3>2. s.id = s.own /\ records[s.own] = s.draft
        BY <1>1, <1>2, <3>1 DEF Knows, InPlace
      <3>3. /\ s.draft # NoState /\ s.draft.fence = s.fence /\ ~s.draft.published
            /\ ~s.draft.retired
        BY <1>1, <1>2 DEF Staged, Transit
      <3>4. Made(session[c])'
        BY <2>2, <3>2, <3>3 DEF Made, KeepsTask, Transit
      <3>5. Spared(session'[c], records'[session'[c].id])
        BY <2>2 DEF Spared
      <3> QED
        BY <2>2, <3>4, <3>5 DEF Knows, Clearing
    <2> QED
      BY <1>1, <2>2, <2>3, <2>4, <2>5, Frame
  <1>3. CASE s.part \in {"make", "pin"}
    <2>1. s.part = "make" => s.task \in {"write", "copy"}
      BY <1>1 DEF InPlace
    <2>2. CASE GoesIn(c, "rotate", "rotate") /\ s.task = "write"
      BY <1>1, <2>2, RestFrame
    <2>3. CASE GoesIn(c, "leave", "end")
      BY <1>1, <2>3, RestFrame
    <2> QED
      BY <1>3, <2>1, <2>2, <2>3 DEF Projected
  <1>4. CASE s.part \in {"resume", "rotate", "end"}
    <2>1. Goes(c, "delete") /\ "delete" \in At
      BY <1>4 DEF Projected, At
    <2>2. /\ session' \in [Catalogs -> Session] /\ KeepsTask(c) /\ Active(c)'
          /\ session'[c].at = "delete" /\ session'[c].part = s.part
          /\ session'[c].id = s.id /\ session'[c].draft = s.draft
          /\ session'[c].seen = s.seen /\ session'[c].refs = s.refs
      BY <1>1, <2>1, GoesIs DEF Active
    <2>3. InPlace(session'[c]) /\ Staged(session'[c]) /\ Observes(c)'
      BY <1>1, <1>4, <2>2 DEF InPlace, Staged, Observes, KeepsTask, Retiring, Transit, Clearing
    <2>4. Knows(c)'
      <3> SUFFICES ASSUME Owner(c)' PROVE Knows(c)'
        BY DEF Knows
      <3>1. Owner(c)
        BY <2>2 DEF Owner, reservation, KeepsTask
      <3>2. records[s.id] = s.draft /\ records[s.id] # NoState /\ records[s.id].retired
        BY <1>1, <1>4, <3>1 DEF Knows
      <3>3. Spared(session'[c], records'[session'[c].id]) /\ Made(session[c])'
        BY <1>4, <2>2 DEF Spared, Made
      <3> QED
        BY <2>2, <3>2, <3>3 DEF Knows, Clearing
    <2> QED
      BY <1>1, <2>2, <2>3, <2>4, Frame
  <1> QED
    BY <1>1, <1>2, <1>3, <1>4 DEF Part

\* A failure while the records stay as they are.
LEMMA FailsApart ==
  ASSUME LifecycleInv, NEW c \in Catalogs, Active(c), ReservationStays, Fails(c),
         ArchiveMoves(c), UNCHANGED records
  PROVE  LifecycleInv'
  <1>1. Owner(c) /\ session[c].part = "make" => records[session[c].own].fence = session[c].fence
    BY DEF LifecycleInv, WorkInv, Knows, Made
  <1> QED
    BY <1>1, FailFrame

\* The write of a sidecar concerns neither records nor objects.
LEMMA WriteSidecarStep ==
  ASSUME LifecycleInv, NEW c \in Catalogs, WriteSidecar(c)
  PROVE  LifecycleInv'
  <1> DEFINE s == session[c]
  <1>1. /\ s.at = "write sidecar" /\ Active(c) /\ ReservationStays
        /\ UNCHANGED <<reservation, records, objects, used>>
    BY DEF WriteSidecar, Active, ReservationStays
  <1>2. s.id \in Ids /\ s.draft \in States /\ StateUpTo(s.draft, fence)
    BY CatalogIs, SessionIs
  <1>3. CASE Fails(c) /\ UNCHANGED sidecar
    BY <1>1, <1>3, QuietFail DEF archive
  <1>4. CASE sidecar' = [sidecar EXCEPT ![s.id] = s.draft] /\ (Projected(c) \/ Fails(c))
    <2>1. ArchiveMoves(c)
      BY <1>1, <1>2, <1>4, SidecarMoves
    <2> QED
      BY <1>1, <1>4, <2>1, ProjectedFrame, FailsApart
  <1> QED
    BY <1>3, <1>4 DEF WriteSidecar, ReplyLost

\* The deletion of a sidecar concerns neither records nor objects.
LEMMA DropSidecarStep ==
  ASSUME LifecycleInv, NEW c \in Catalogs, DropSidecar(c)
  PROVE  LifecycleInv'
  <1> DEFINE s == session[c]
  <1>1. /\ s.at = "drop sidecar" /\ Active(c) /\ ReservationStays
        /\ UNCHANGED <<reservation, records, objects, used>>
    BY DEF DropSidecar, Active, ReservationStays
  <1>2. /\ TypeOK /\ InPlace(s) /\ Knows(c) /\ s.id \in Ids /\ NoState \in States
        /\ StateUpTo(NoState, fence) /\ s.part \in {"resume", "rotate", "end"}
        /\ StateUpTo(s.draft, fence) /\ StateUpTo(s.seen, fence) /\ RefsUpTo(s.refs, fence)
    BY <1>1, CatalogIs, SessionIs, PlaceIs DEF States, StateUpTo, Clearing
  <1>3. CASE Fails(c) /\ UNCHANGED sidecar
    BY <1>1, <1>3, QuietFail DEF archive
  <1>4. ASSUME sidecar' = [sidecar EXCEPT ![s.id] = NoState] PROVE ArchiveMoves(c)
    BY <1>1, <1>2, <1>4, SidecarMoves
  <1>5. CASE sidecar' = [sidecar EXCEPT ![s.id] = NoState] /\ Fails(c)
    BY <1>1, <1>4, <1>5, FailsApart
  <1>6. CASE sidecar' = [sidecar EXCEPT ![s.id] = NoState] /\ Goes(c, "forget")
    <2>1. "forget" \in At
      BY DEF At
    <2>2. /\ session' \in [Catalogs -> Session] /\ KeepsTask(c) /\ Active(c)'
          /\ session'[c].at = "forget" /\ session'[c].part = s.part
          /\ session'[c].id = s.id /\ session'[c].draft = s.draft
          /\ session'[c].seen = s.seen /\ session'[c].refs = s.refs
      BY <1>2, <1>6, <2>1, GoesIs DEF Active
    <2>3. InPlace(session'[c]) /\ Staged(session'[c]) /\ Observes(c)'
      BY <1>1, <1>2, <2>2 DEF InPlace, Staged, Observes, KeepsTask, Retiring, Transit, Clearing
    <2>4. Knows(c)'
      <3> SUFFICES ASSUME Owner(c)' PROVE Knows(c)'
        BY DEF Knows
      <3>1. Owner(c)
        BY <1>1, <2>2 DEF Owner, reservation, KeepsTask
      <3>2. records[s.id] = s.draft /\ records[s.id] # NoState /\ records[s.id].retired
        BY <1>1, <1>2, <3>1 DEF Knows, Clearing
      <3>3. Spared(session'[c], records'[session'[c].id]) /\ Made(session[c])'
        BY <1>2, <2>2 DEF Spared, Made
      <3> QED
        BY <1>1, <2>2, <3>2, <3>3 DEF Knows, Clearing
    <2> QED
      BY <1>1, <1>2, <1>4, <1>6, <2>2, <2>3, <2>4, Frame
  <1> QED
    BY <1>3, <1>5, <1>6 DEF DropSidecar, ReplyLost

\* The record is dropped; whoever is slow learns of it from control.json.
LEMMA ForgetStep ==
  ASSUME LifecycleInv, NEW c \in Catalogs, Forget(c)
  PROVE  LifecycleInv'
  <1> DEFINE s == session[c]
  <1>1. /\ s.at = "forgetting" /\ Active(c) /\ ReservationStays
        /\ UNCHANGED <<reservation, sidecar, objects, used>>
    BY DEF Forget, Active, ReservationStays
  <1>2. /\ TypeOK /\ FenceInv /\ InPlace(s) /\ s.id \in Ids /\ NoState \in States
        /\ s.part \in {"resume", "rotate", "end"} /\ PublishedIsOwnWork /\ UNCHANGED fence
    BY <1>1, CatalogIs, SessionIs, PlaceIs DEF States, Clearing, LifecycleInv, WorkInv, reservation
  <1>3. CASE Fails(c) /\ UNCHANGED records
    BY <1>1, <1>3, QuietFail DEF archive
  <1>4. CASE /\ Owner(c) /\ records' = [records EXCEPT ![s.id] = NoState]
             /\ Retired(c) \/ Fails(c)
    <2>1. /\ records' \in [Ids -> States]
          /\ \A i \in Ids : records'[i] = IF i = s.id THEN NoState ELSE records[i]
      BY <1>2, <1>4 DEF TypeOK
    <2>2. RecordsMove(c)
      BY <1>4, <2>1 DEF RecordsMove
    <2>3. ASSUME NEW i \in Ids PROVE ArchiveUpTo(i)'
      <3>1. ArchiveUpTo(i)
        BY <1>2 DEF FenceInv
      <3>2. StateUpTo(records'[i], fence)
        BY <2>1, <3>1 DEF ArchiveUpTo, StateUpTo
      <3> QED
        BY <1>1, <1>2, <3>1, <3>2 DEF ArchiveUpTo, StateUpTo, RefsUpTo
    <2>4. PublishedIsOwnWork'
      BY <1>1, <1>2, <2>1 DEF PublishedIsOwnWork, Published, Known
    <2>5. ArchiveMoves(c)
      BY <1>1, <1>2, <2>1, <2>2, <2>3, <2>4 DEF ArchiveMoves, ObjectsMove, TypeOK
    <2>6. CASE Fails(c)
      BY <1>1, <1>2, <2>5, <2>6, FailFrame
    <2>7. CASE Retired(c)
      <3>1. s.part # "end" => s.task = "write"
        BY <1>2 DEF InPlace
      <3>2. \/ s.part = "resume" /\ GoesIn(c, "resume", "resume")
            \/ s.part = "rotate" /\ GoesIn(c, "rotate", "rotate")
            \/ GoesIn(c, "leave", "end")
        BY <2>7 DEF Retired
      <3> QED
        BY <1>1, <2>5, <3>1, <3>2, RestFrame
    <2> QED
      BY <1>4, <2>6, <2>7
  <1> QED
    BY <1>3, <1>4 DEF Forget, ReplyLost

\* An object is created or deleted.
LEMMA ObjectMoves ==
  ASSUME LifecycleInv, NEW c \in Catalogs, Active(c), NEW i \in Ids, NEW n \in Names,
         NEW version \in 0 .. fence, objects[i][n] <= session[c].fence,
         Published(i) => objects[i][n] # records[i].fence,
         objects' = [objects EXCEPT ![i][n] = version],
         UNCHANGED <<reservation, records, sidecar, used>>
  PROVE  ArchiveMoves(c) /\ objects'[i][n] = version
         /\ \A m \in Names \ {n} : objects'[i][m] = objects[i][m]
  <1>1. /\ TypeOK /\ FenceInv /\ PublishedIsOwnWork /\ UNCHANGED fence /\ fence \in Nat
    BY DEF LifecycleInv, WorkInv, reservation, TypeOK
  <1>2. /\ objects' \in [Ids -> [Names -> Nat]]
        /\ \A j \in Ids, m \in Names :
             objects'[j][m] = IF j = i /\ m = n THEN version ELSE objects[j][m]
    BY <1>1 DEF TypeOK
  <1>3. ASSUME NEW j \in Ids PROVE ArchiveUpTo(j)'
    <2>1. ArchiveUpTo(j)
      BY <1>1 DEF FenceInv
    <2>2. \A m \in Names : objects'[j][m] <= fence
      BY <1>1, <1>2, <2>1 DEF ArchiveUpTo
    <2> QED
      BY <1>1, <2>1, <2>2 DEF ArchiveUpTo, StateUpTo, RefsUpTo
  <1>4. ~Published(i)
    BY <1>1 DEF PublishedIsOwnWork
  <1>5. PublishedIsOwnWork'
    BY <1>1, <1>2, <1>4 DEF PublishedIsOwnWork, Published, Known
  <1>6. ObjectsMove(c) /\ RecordsMove(c)
    BY <1>2 DEF ObjectsMove, RecordsMove
  <1> QED
    BY <1>1, <1>2, <1>3, <1>5, <1>6 DEF ArchiveMoves, TypeOK

\* What is made, where, and where it leads.
PutAt(at, n, next) ==
  \/ at = "put data" /\ n = "data" /\ next \in {"put COMPLETE", "check COMPLETE"}
  \/ at = "put COMPLETE" /\ n = "COMPLETE" /\ next = "verify"

\* An object that is made is one's own, or the making ends.
LEMMA PutFrame ==
  ASSUME LifecycleInv, NEW c \in Catalogs, NEW n \in Names, NEW next \in At, Put(c, n, next),
         UNCHANGED <<reservation, records, sidecar, used>>, PutAt(session[c].at, n, next)
  PROVE  LifecycleInv'
  <1> DEFINE s == session[c]
  <1>1. /\ TypeOK /\ FenceInv /\ InPlace(s) /\ Knows(c) /\ Active(c) /\ ReservationStays
        /\ s.part = "make" /\ s.id = s.own /\ s.own \in Ids
        /\ s.fence \in 1 .. fence /\ fence \in Nat /\ s.at \in Making
        /\ StateUpTo(s.draft, fence) /\ StateUpTo(s.seen, fence) /\ RefsUpTo(s.refs, fence)
    BY CatalogIs, SessionIs, PlaceIs DEF Active, ReservationStays, Making, PutAt
  <1>2. CASE Fails(c) /\ UNCHANGED objects
    BY <1>1, <1>2, QuietFail DEF archive
  <1>3. ASSUME objects[s.own][n] = Absent,
               objects' = [objects EXCEPT ![s.own][n] = s.fence]
        PROVE  /\ ArchiveMoves(c) /\ objects'[s.own][n] = s.fence
               /\ \A m \in Names \ {n} : objects'[s.own][m] = objects[s.own][m]
    <2>1. objects[s.own][n] <= s.fence /\ s.fence \in 0 .. fence
      <3>1. fence \in Nat /\ s.fence \in Nat /\ s.fence <= fence
        BY <1>1
      <3> QED
        BY <1>3, <3>1 DEF Absent
    <2>2. Published(s.own) => objects[s.own][n] # records[s.own].fence
      <3>1. Known(s.own) => records[s.own] \in State
        BY <1>1, SessionIs DEF Known, States
      <3> QED
        BY <1>3, <3>1 DEF Published, State, Version
    <2>3. s.own \in Ids /\ Active(c)
      BY <1>1
    <2> HIDE DEF s
    <2>4. s.fence = session[c].fence
      BY DEF s
    <2> QED
      BY <1>3, <2>1, <2>2, <2>3, <2>4, ObjectMoves
  <1>4. CASE /\ objects[s.own][n] = Absent
             /\ objects' = [objects EXCEPT ![s.own][n] = s.fence] /\ Fails(c)
    BY <1>1, <1>3, <1>4, FailsApart
  <1>5. CASE /\ objects[s.own][n] = Absent
             /\ objects' = [objects EXCEPT ![s.own][n] = s.fence] /\ Goes(c, next)
    <2>1. next # "out" /\ next \in Making \ {"check data", "put data", "publish"}
      BY DEF PutAt, Making
    <2>2. /\ session' \in [Catalogs -> Session] /\ KeepsTask(c) /\ Active(c)'
          /\ session'[c].at = next /\ session'[c].part = "make"
          /\ session'[c].id = s.id /\ session'[c].draft = s.draft
          /\ session'[c].seen = s.seen /\ session'[c].refs = s.refs
      BY <1>1, <1>5, <2>1, GoesIs DEF Active
    <2>3. InPlace(session'[c]) /\ Staged(session'[c]) /\ Observes(c)'
      BY <1>1, <2>1, <2>2 DEF InPlace, Staged, Observes, KeepsTask, Making
    <2>4. Knows(c)'
      <3> SUFFICES ASSUME Owner(c)' PROVE Knows(c)'
        BY DEF Knows
      <3>1. Owner(c)
        BY <2>2 DEF Owner, reservation, KeepsTask
      <3>2. Made(s)
        BY <1>1, <3>1 DEF Knows
      <3>3. /\ objects'[s.own]["data"] = s.fence
            /\ next = "verify" => objects'[s.own]["COMPLETE"] = s.fence
        BY <1>1, <1>3, <1>5, <3>2 DEF Made, Names, PutAt
      <3>4. Made(session[c])'
        BY <1>1, <2>1, <2>2, <3>2, <3>3 DEF Made, KeepsTask, Making, Transit
      <3>5. Spared(session'[c], records'[session'[c].id])
        BY <2>2 DEF Spared
      <3> QED
        BY <2>1, <2>2, <3>4, <3>5 DEF Knows, Clearing, Making
    <2> QED
      BY <1>1, <1>3, <1>5, <2>2, <2>3, <2>4, Frame
  <1> QED
    BY <1>2, <1>4, <1>5 DEF Put, ReplyLost

\* The upload of the tables.
LEMMA PutDataStep ==
  ASSUME LifecycleInv, NEW c \in Catalogs, PutData(c)
  PROVE  LifecycleInv'
  <1> DEFINE next == IF session[c].task = "copy" THEN "check COMPLETE" ELSE "put COMPLETE"
  <1>1. /\ "data" \in Names /\ Put(c, "data", next) /\ session[c].at = "put data"
        /\ next \in {"put COMPLETE", "check COMPLETE"}
        /\ UNCHANGED <<reservation, records, sidecar, used>>
    BY DEF PutData, Names
  <1>2. next \in At /\ PutAt(session[c].at, "data", next)
    BY <1>1 DEF At, PutAt
  <1> QED
    BY <1>1, <1>2, PutFrame

\* The creation of COMPLETE.
LEMMA PutCompleteStep ==
  ASSUME LifecycleInv, NEW c \in Catalogs, PutComplete(c)
  PROVE  LifecycleInv'
  <1>1. /\ "COMPLETE" \in Names /\ Put(c, "COMPLETE", "verify") /\ session[c].at = "put COMPLETE"
        /\ UNCHANGED <<reservation, records, sidecar, used>>
    BY DEF PutComplete, Names
  <1>2. "verify" \in At /\ PutAt(session[c].at, "COMPLETE", "verify")
    BY <1>1 DEF At, PutAt
  <1> QED
    BY <1>1, <1>2, PutFrame

\* One less to delete.
LEMMA DeletedFrame ==
  ASSUME LifecycleInv, NEW c \in Catalogs, session[c].at = "delete one", NEW r,
         session' = [session EXCEPT ![c].at = "delete", ![c].refs = @ \ {r}],
         ArchiveMoves(c), UNCHANGED <<reservation, records, sidecar, used>>
  PROVE  LifecycleInv'
  <1> DEFINE s == session[c]
             refs == s.refs \ {r}
  <1>1. /\ TypeOK /\ InPlace(s) /\ Knows(c) /\ Active(c) /\ ReservationStays
        /\ s.part \in {"resume", "rotate", "end"} /\ refs \in SUBSET Refs /\ "delete" \in At
        /\ StateUpTo(s.draft, fence) /\ StateUpTo(s.seen, fence) /\ RefsUpTo(s.refs, fence)
    BY CatalogIs, SessionIs, PlaceIs DEF Active, ReservationStays, Clearing, At
  <1>2. RefsUpTo(refs, fence)
    BY <1>1 DEF RefsUpTo
  <1>3. session' = [session EXCEPT ![c].at = "delete", ![c].refs = refs]
    BY <1>1 DEF TypeOK
  <1> HIDE DEF refs
  <1>4. Hands(c, "delete", s.id, s.draft, s.seen, refs)
    BY <1>1, <1>3, RefsAre
  <1>5. /\ session' \in [Catalogs -> Session] /\ KeepsTask(c) /\ Active(c)'
        /\ session'[c].at = "delete" /\ session'[c].part = s.part
        /\ session'[c].id = s.id /\ session'[c].draft = s.draft
        /\ session'[c].seen = s.seen /\ session'[c].refs = refs
    BY <1>4 DEF Hands, Active
  <1>6. InPlace(session'[c]) /\ Staged(session'[c]) /\ Observes(c)'
    BY <1>1, <1>5 DEF InPlace, Staged, Observes, KeepsTask, Retiring, Transit, Clearing
  <1>7. Knows(c)'
    <2> SUFFICES ASSUME Owner(c)' PROVE Knows(c)'
      BY DEF Knows
    <2>1. Owner(c)
      BY <1>5 DEF Owner, reservation, KeepsTask
    <2>2. records[s.id] = s.draft /\ records[s.id] # NoState /\ records[s.id].retired
      BY <1>1, <2>1 DEF Knows, Clearing
    <2>3. Spared(session'[c], records'[session'[c].id]) /\ Made(session[c])'
      BY <1>1, <1>5 DEF Spared, Made
    <2> QED
      BY <1>5, <2>2, <2>3 DEF Knows, Clearing
  <1> QED
    BY <1>1, <1>2, <1>5, <1>6, <1>7, Frame

\* A deletion, however late, takes no object of a published snapshot.
LEMMA DeleteStep ==
  ASSUME LifecycleInv, NEW c \in Catalogs, Delete(c)
  PROVE  LifecycleInv'
  <1> DEFINE s == session[c]
  <1>1. /\ s.at = "delete one" /\ Active(c) /\ ReservationStays
        /\ UNCHANGED <<reservation, records, sidecar, used>>
    BY DEF Delete, Active, ReservationStays
  <1>2. /\ TypeOK /\ fence \in Nat /\ s.id \in Ids /\ s.refs \in SUBSET Refs
        /\ RefsUpTo(s.refs, s.fence) /\ records[s.id] \in States
        /\ records[s.id] = NoState \/ records[s.id].retired \/ records[s.id].fence > s.fence
        /\ s.fence \in 1 .. fence
    BY <1>1, CatalogIs, SessionIs DEF Observes
  <1>3. PICK r \in s.refs :
          \/ /\ session' = [session EXCEPT ![c].at = "delete", ![c].refs = @ \ {r}]
             /\ UNCHANGED objects
          \/ /\ objects[s.id][r[1]] = r[2]
             /\ objects' = [objects EXCEPT ![s.id][r[1]] = Absent]
             /\ \/ session' = [session EXCEPT ![c].at = "delete", ![c].refs = @ \ {r}]
                \/ Fails(c)
          \/ Fails(c) /\ UNCHANGED objects
    BY DEF Delete, ReplyLost
  <1>4. r \in Refs /\ r[1] \in Names /\ r[2] \in Nat /\ r[2] <= s.fence
    BY <1>2 DEF RefsUpTo, Refs, Version
  <1>5. CASE Fails(c) /\ UNCHANGED objects
    BY <1>1, <1>5, QuietFail DEF archive
  <1>6. CASE /\ session' = [session EXCEPT ![c].at = "delete", ![c].refs = @ \ {r}]
             /\ UNCHANGED objects
    <2>1. ArchiveMoves(c)
      BY <1>1, <1>6, QuietArchive DEF archive, reservation
    <2> QED
      BY <1>1, <1>6, <2>1, DeletedFrame
  <1>7. CASE /\ objects[s.id][r[1]] = r[2]
             /\ objects' = [objects EXCEPT ![s.id][r[1]] = Absent]
             /\ \/ session' = [session EXCEPT ![c].at = "delete", ![c].refs = @ \ {r}]
                \/ Fails(c)
    <2>1. Published(s.id) => objects[s.id][r[1]] # records[s.id].fence
      <3>1. Published(s.id) => records[s.id].fence > s.fence /\ records[s.id].fence \in Nat
        BY <1>2 DEF Published, Known, States, State, Version
      <3> QED
        BY <1>2, <1>4, <1>7, <3>1
    <2>2. Absent \in 0 .. fence /\ objects[s.id][r[1]] <= s.fence
      BY <1>2, <1>4, <1>7 DEF Absent
    <2>3. ArchiveMoves(c)
      BY <1>1, <1>2, <1>4, <1>7, <2>1, <2>2, ObjectMoves
    <2> QED
      BY <1>1, <1>7, <2>3, DeletedFrame, FailsApart
  <1> QED
    BY <1>3, <1>5, <1>6, <1>7

-----------------------------------------------------------------------------
(* Steps of the reservation.                                               *)

\* What is up to a fence is up to a later one.
LEMMA UpToLater ==
  ASSUME NEW f \in Nat, NEW g \in Nat, f <= g
  PROVE  /\ \A refs \in SUBSET Refs : RefsUpTo(refs, f) => RefsUpTo(refs, g)
         /\ \A state \in States : StateUpTo(state, f) => StateUpTo(state, g)
  <1>1. ASSUME NEW refs \in SUBSET Refs, RefsUpTo(refs, f) PROVE RefsUpTo(refs, g)
    <2> SUFFICES ASSUME NEW r \in refs PROVE r[2] <= g
      BY DEF RefsUpTo
    <2>1. r[2] \in Nat /\ r[2] <= f
      BY <1>1 DEF RefsUpTo, Refs, Version
    <2> QED
      BY <2>1
  <1>2. ASSUME NEW state \in States, StateUpTo(state, f), state # NoState
        PROVE  state.fence <= g /\ RefsUpTo(state.cleanup, g)
    <2>1. state.fence \in Nat /\ state.cleanup \in SUBSET Refs
      BY <1>2 DEF States, State, Version
    <2>2. state.fence <= f /\ RefsUpTo(state.cleanup, f)
      BY <1>2 DEF StateUpTo
    <2> QED
      BY <1>1, <2>1, <2>2
  <1> QED
    BY <1>1, <1>2 DEF StateUpTo

\* Who is at nothing asks for nothing.
LEMMA IdleIs ==
  /\ Idle \in Session /\ Idle.at = "out" /\ Idle.fence = 0 /\ Idle.part = "end"
  /\ Idle.draft = NoState /\ Idle.seen = NoState /\ Idle.refs = {}
  <1>1. (CHOOSE i \in Ids : TRUE) \in Ids
    BY LifecycleAssumption
  <1>2. NoState \in States /\ {} \in SUBSET Refs /\ {} \in SUBSET Ids /\ 0 \in Nat
    BY DEF States
  <1> QED
    BY <1>1, <1>2 DEF Idle, Session, At, Part

\* A step that concerns one catalog and the reservation, and lets no other one own it.
LEMMA ClaimFrame ==
  ASSUME LifecycleInv, NEW c \in Catalogs, UNCHANGED archive,
         \A e \in Catalogs \ {c} : session'[e] = session[e] /\ (Owner(e)' => Owner(e)),
         TypeOK', FenceInv',
         InPlace(session'[c]), Staged(session'[c]), Knows(c)', Observes(c)'
  PROVE  LifecycleInv'
  <1>1. WorkInv /\ UNCHANGED <<records, sidecar, objects>>
    BY DEF LifecycleInv, archive
  <1>2. ASSUME NEW e \in Catalogs, e # c
        PROVE  InPlace(session'[e]) /\ Staged(session'[e]) /\ Knows(e)' /\ Observes(e)'
    <2>1. /\ InPlace(session[e]) /\ Staged(session[e]) /\ Knows(e) /\ Observes(e)
          /\ session'[e] = session[e] /\ (Owner(e)' => Owner(e))
      BY <1>1, <1>2 DEF WorkInv
    <2>2. Made(session[e]) => Made(session[e])'
      BY <1>1, <2>1 DEF Made
    <2>3. Knows(e)'
      BY <1>1, <2>1, <2>2 DEF Knows
    <2>4. Observes(e)'
      BY <1>1, <2>1 DEF Observes
    <2> QED
      BY <2>1, <2>3, <2>4
  <1>3. PublishedIsOwnWork'
    BY <1>1 DEF WorkInv, PublishedIsOwnWork, Published, Known
  <1>4. \A e \in Catalogs : (InPlace(session[e]) /\ Staged(session[e]))'
    BY <1>2 DEF InPlace, Staged
  <1> QED
    BY <1>2, <1>3, <1>4 DEF LifecycleInv, WorkInv

\* A task that ends, or dies.
LEMMA IdleFrame ==
  ASSUME LifecycleInv, NEW c \in Catalogs, session' = [session EXCEPT ![c] = Idle],
         UNCHANGED <<fence, archive, used>>, holder' \in {holder, NoOne}, live' \in BOOLEAN
  PROVE  LifecycleInv'
  <1>1. TypeOK /\ FenceInv /\ fence \in Nat
    BY DEF LifecycleInv, TypeOK
  <1>2. UNCHANGED <<records, sidecar, objects>>
    BY DEF archive
  <1>3. /\ session' \in [Catalogs -> Session] /\ session'[c] = Idle
        /\ \A e \in Catalogs \ {c} : session'[e] = session[e]
    BY <1>1, IdleIs, SessionChanges
  <1>4. TypeOK'
    BY <1>1, <1>2, <1>3 DEF TypeOK
  <1>5. FenceInv'
    <2>1. \A e \in Catalogs \ {c} : Active(e)' = Active(e)
      BY <1>3 DEF Active
    <2>2. ~Active(c)' /\ SessionUpTo(c)'
      BY <1>3, IdleIs DEF Active, SessionUpTo, StateUpTo, RefsUpTo
    <2>3. ASSUME NEW e \in Catalogs, e # c PROVE SessionUpTo(e)'
      <3>1. SessionUpTo(e) /\ session'[e] = session[e]
        BY <1>1, <1>3, <2>3 DEF FenceInv
      <3>2. \A d \in Catalogs : Active(d)' => session'[d] = session[d] /\ Active(d)
        BY <1>3, <2>1, <2>2
      <3>3. /\ StateUpTo(session[e].draft, fence)' /\ StateUpTo(session[e].seen, fence)'
            /\ RefsUpTo(session[e].refs, fence)'
        BY <3>1 DEF SessionUpTo, StateUpTo, RefsUpTo
      <3>4. session'[e].fence \in IF Active(e)' THEN 1 .. fence ELSE {0}
        BY <2>1, <2>3, <3>1 DEF SessionUpTo
      <3> QED
        BY <3>1, <3>2, <3>3, <3>4 DEF SessionUpTo
    <2>4. \A i \in Ids : ArchiveUpTo(i)'
      BY <1>1, <1>2 DEF FenceInv, ArchiveUpTo, StateUpTo, RefsUpTo
    <2> QED
      BY <1>1, <2>2, <2>3, <2>4 DEF FenceInv
  <1>6. ASSUME NEW e \in Catalogs \ {c}, Owner(e)' PROVE Owner(e)
    BY <1>3, <1>6, LifecycleAssumption DEF Owner
  <1>7. InPlace(session'[c]) /\ Staged(session'[c]) /\ Observes(c)'
    BY <1>3, IdleIs DEF InPlace, Staged, Observes, Transit, Retiring, Clearing
  <1>8. Knows(c)'
    <2>1. Made(session[c])' /\ Spared(session'[c], records'[session'[c].id])
      BY <1>3, IdleIs DEF Made, Spared
    <2> QED
      BY <1>3, <2>1, IdleIs DEF Knows, Clearing
  <1> QED
    BY <1>3, <1>4, <1>5, <1>6, <1>7, <1>8, ClaimFrame

\* hold() ends.
LEMMA LeaveStep ==
  ASSUME LifecycleInv, NEW c \in Catalogs, Leave(c)
  PROVE  LifecycleInv'
  <1>1. live \in BOOLEAN
    BY DEF LifecycleInv, TypeOK
  <1> QED
    BY <1>1, IdleFrame DEF Leave, reservation

\* A process dies.
LEMMA CrashStep ==
  ASSUME LifecycleInv, NEW c \in Catalogs, Crash(c)
  PROVE  LifecycleInv'
  <1>1. live \in BOOLEAN
    BY DEF LifecycleInv, TypeOK
  <1> QED
    BY <1>1, IdleFrame DEF Crash, reservation

\* A lease that runs out changes nothing that is known.
LEMMA LapseStep ==
  ASSUME LifecycleInv, Lapse \/ UNCHANGED vars
  PROVE  LifecycleInv'
  <1>1. /\ UNCHANGED <<fence, holder, records, sidecar, objects, used, session>>
        /\ live' \in BOOLEAN
    BY DEF Lapse, vars, archive, LifecycleInv, TypeOK
  <1>2. TypeOK'
    BY <1>1 DEF LifecycleInv, TypeOK
  <1>3. FenceInv'
    BY <1>1 DEF LifecycleInv, FenceInv, SessionUpTo, ArchiveUpTo, StateUpTo, RefsUpTo, Active
  <1>4. ASSUME NEW e \in Catalogs
        PROVE  (InPlace(session[e]) /\ Staged(session[e]) /\ Knows(e) /\ Observes(e))'
    <2>1. InPlace(session[e]) /\ Staged(session[e]) /\ Knows(e) /\ Observes(e)
      BY DEF LifecycleInv, WorkInv
    <2>2. Made(session[e]) => Made(session[e])'
      BY <1>1 DEF Made
    <2>3. (InPlace(session[e]) /\ Staged(session[e]))'
      BY <1>1, <2>1 DEF InPlace, Staged
    <2>4. Owner(e)' = Owner(e)
      BY <1>1 DEF Owner
    <2>5. Knows(e)'
      BY <1>1, <2>1, <2>2, <2>4 DEF Knows
    <2>6. Observes(e)'
      BY <1>1, <2>1 DEF Observes
    <2> QED
      BY <2>3, <2>5, <2>6
  <1>5. PublishedIsOwnWork'
    BY <1>1 DEF LifecycleInv, WorkInv, PublishedIsOwnWork, Published, Known
  <1> QED
    BY <1>2, <1>3, <1>4, <1>5 DEF LifecycleInv, WorkInv


\* A task that begins.
Begun(c, task, i, at, part, todo) ==
  [Idle EXCEPT !.task = task, !.own = i, !.id = i, !.fence = fence + 1, !.at = at,
               !.part = part, !.todo = todo]

\* The first place of a task.
First(task, at, part) ==
  <<task, at, part>> \in {<<"write", "resume", "resume">>, <<"copy", "stage", "stage">>,
                          <<"pin", "pin", "pin">>, <<"delete", "list", "end">>}

\* A catalog has started a task, and nothing else has changed in the sessions.
Started(c, task, i, at, part, todo) ==
  /\ session' \in [Catalogs -> Session]
  /\ \A e \in Catalogs \ {c} : session'[e] = session[e]
  /\ session'[c].task = task /\ session'[c].own = i /\ session'[c].id = i
  /\ session'[c].fence = fence + 1 /\ session'[c].at = at /\ session'[c].part = part
  /\ session'[c].draft = NoState /\ session'[c].seen = NoState /\ session'[c].refs = {}
  /\ session'[c].todo = todo

\* What a catalog starts a task with.
LEMMA BegunIs ==
  ASSUME TypeOK, NEW c \in Catalogs, NEW task \in Tasks, NEW i \in Ids, NEW at, NEW part,
         First(task, at, part), NEW todo \in SUBSET Ids,
         session' = [session EXCEPT ![c] = Begun(c, task, i, at, part, todo)]
  PROVE  Started(c, task, i, at, part, todo)
  <1> DEFINE next == Begun(c, task, i, at, part, todo)
  <1>1. at \in At /\ part \in Part /\ fence + 1 \in Nat
    <2>1. fence + 1 \in Nat
      BY DEF TypeOK
    <2>2. at \in At
      BY DEF First, At
    <2>3. part \in Part
      BY DEF First, Part
    <2> QED
      BY <2>1, <2>2, <2>3
  <1>2. /\ next \in Session /\ next.task = task /\ next.own = i /\ next.id = i
        /\ next.fence = fence + 1 /\ next.at = at /\ next.part = part
        /\ next.draft = NoState /\ next.seen = NoState /\ next.refs = {} /\ next.todo = todo
    BY <1>1, IdleIs DEF Begun, Session
  <1> HIDE DEF next
  <1>3. session' = [session EXCEPT ![c] = next]
    BY DEF next
  <1>4. /\ session' \in [Catalogs -> Session] /\ session'[c] = next
        /\ \A e \in Catalogs \ {c} : session'[e] = session[e]
    BY <1>2, <1>3, SessionChanges
  <1> QED
    BY <1>2, <1>4 DEF Started

\* hold() for a new task: its fence is later than all there are.
LEMMA BeginStep ==
  ASSUME LifecycleInv, NEW c \in Catalogs, Begin(c)
  PROVE  LifecycleInv'
  <1>1. /\ TypeOK /\ FenceInv /\ fence \in Nat
        /\ fence' = fence + 1 /\ holder' = c /\ live' = TRUE
        /\ UNCHANGED <<records, sidecar, objects>>
    BY DEF LifecycleInv, TypeOK, Begin, archive
  <1>2. PICK task \in Tasks, i \in Ids :
          /\ used' = IF task = "write" THEN used \cup {i} ELSE used
          /\ session' = [session EXCEPT ![c] =
               Begun(c, task, i,
                 CASE task = "write" -> "resume" [] task = "copy" -> "stage"
                   [] task = "pin" -> "pin" [] task = "delete" -> "list",
                 CASE task = "write" -> "resume" [] task = "copy" -> "stage"
                   [] task = "pin" -> "pin" [] task = "delete" -> "end",
                 IF task = "write" THEN {j \in Ids : records[j] # NoState} ELSE {})]
    BY DEF Begin, Begun
  <1> DEFINE at == CASE task = "write" -> "resume" [] task = "copy" -> "stage"
                     [] task = "pin" -> "pin" [] task = "delete" -> "list"
             part == CASE task = "write" -> "resume" [] task = "copy" -> "stage"
                       [] task = "pin" -> "pin" [] task = "delete" -> "end"
             todo == IF task = "write" THEN {j \in Ids : records[j] # NoState} ELSE {}
  <1>3. First(task, at, part)
    BY LifecycleAssumption DEF First
  <1>4. todo \in SUBSET Ids
    OBVIOUS
  <1>5. session' = [session EXCEPT ![c] = Begun(c, task, i, at, part, todo)]
    BY <1>2
  <1> HIDE DEF at, part, todo
  <1>6. /\ session' \in [Catalogs -> Session]
        /\ \A e \in Catalogs \ {c} : session'[e] = session[e]
        /\ session'[c].task = task /\ session'[c].own = i /\ session'[c].id = i
        /\ session'[c].fence = fence + 1 /\ session'[c].at = at /\ session'[c].part = part
        /\ session'[c].draft = NoState /\ session'[c].seen = NoState /\ session'[c].refs = {}
    <2>1. Started(c, task, i, at, part, todo)
      BY <1>1, <1>3, <1>4, <1>5, BegunIs
    <2> QED
      BY <2>1 DEF Started
  <1>7. TypeOK'
    <2>1. used' \in SUBSET Ids
      BY <1>1, <1>2 DEF TypeOK
    <2>2. fence' \in Nat /\ holder' \in Catalogs \cup {NoOne} /\ live' \in BOOLEAN
      BY <1>1
    <2> QED
      BY <1>1, <1>6, <2>1, <2>2 DEF TypeOK
  <1>8. FenceInv'
    <2>1. fence + 1 \in Nat /\ fence <= fence + 1 /\ fence + 1 > 0
      BY <1>1
    <2>2. \A e \in Catalogs \ {c} : /\ Active(e)' = Active(e)
                                    /\ Active(e) => session[e].fence < fence + 1
      <3>1. ASSUME NEW e \in Catalogs, Active(e) PROVE session[e].fence < fence + 1
        <4>1. session[e].fence \in 1 .. fence
          BY <1>1, <3>1 DEF FenceInv, SessionUpTo
        <4> QED
          BY <1>1, <4>1
      <3> QED
        BY <1>6, <3>1 DEF Active
    <2>3. SessionUpTo(c)'
      <3>1. session'[c].fence \in 1 .. fence' /\ session'[c].fence \in Nat
        BY <1>1, <1>6
      <3>2. \A e \in Catalogs : Active(e)' /\ session'[e].fence = session'[c].fence => e = c
        <4>1. \A e \in Catalogs \ {c} : session[e].fence \in Nat /\ session'[e] = session[e]
          BY <1>1, <1>6, SessionIs
        <4> QED
          BY <1>1, <1>6, <2>2, <4>1
      <3>3. StateUpTo(NoState, fence') /\ RefsUpTo({}, fence')
        BY DEF StateUpTo, RefsUpTo
      <3>4. Active(c)'
        BY <1>3, <1>6 DEF Active, First
      <3> QED
        BY <1>6, <3>1, <3>2, <3>3, <3>4 DEF SessionUpTo, StateUpTo, RefsUpTo
    <2>4. ASSUME NEW e \in Catalogs, e # c PROVE SessionUpTo(e)'
      <3>1. /\ SessionUpTo(e) /\ session'[e] = session[e]
            /\ session[e].draft \in States /\ session[e].seen \in States
            /\ session[e].refs \in SUBSET Refs
        BY <1>1, <1>6, <2>4, SessionIs DEF FenceInv
      <3>2. /\ StateUpTo(session[e].draft, fence + 1) /\ StateUpTo(session[e].seen, fence + 1)
            /\ RefsUpTo(session[e].refs, fence + 1)
        BY <1>1, <2>1, <3>1, UpToLater DEF SessionUpTo
      <3>3. session[e].fence \in IF Active(e) THEN 1 .. fence + 1 ELSE {0}
        BY <1>1, <3>1 DEF SessionUpTo
      <3>4. \A d \in Catalogs : Active(e)' /\ Active(d)' /\ session'[d].fence = session'[e].fence
                                 => d = e
        BY <1>1, <1>6, <2>2, <2>4, <3>1, SessionIs DEF SessionUpTo
      <3> QED
        BY <1>1, <2>2, <2>4, <3>1, <3>2, <3>3, <3>4 DEF SessionUpTo, StateUpTo, RefsUpTo
    <2>5. ASSUME NEW j \in Ids PROVE ArchiveUpTo(j)'
      <3>1. /\ ArchiveUpTo(j) /\ records[j] \in States /\ sidecar[j] \in States
            /\ \A n \in Names : objects[j][n] \in Nat
        BY <1>1 DEF FenceInv, TypeOK
      <3>2. StateUpTo(records[j], fence + 1) /\ StateUpTo(sidecar[j], fence + 1)
        BY <1>1, <2>1, <3>1, UpToLater DEF ArchiveUpTo
      <3>3. \A n \in Names : objects[j][n] <= fence + 1
        BY <1>1, <3>1 DEF ArchiveUpTo
      <3> QED
        BY <1>1, <3>2, <3>3 DEF ArchiveUpTo, StateUpTo, RefsUpTo
    <2>6. fence' > 0
      BY <1>1, <2>1
    <2> QED
      BY <2>3, <2>4, <2>5, <2>6 DEF FenceInv
  <1>9. \A e \in Catalogs \ {c} : Owner(e)' => Owner(e)
    BY <1>1 DEF Owner
  <1>10. InPlace(session'[c]) /\ Staged(session'[c]) /\ Observes(c)'
    BY <1>3, <1>6 DEF First, InPlace, Staged, Observes, Transit, Retiring, Clearing
  <1>11. Knows(c)'
    <2>1. Made(session[c])' /\ Spared(session'[c], records'[session'[c].id])
      BY <1>3, <1>6 DEF Made, Spared, First
    <2> QED
      BY <1>3, <1>6, <2>1 DEF Knows, Clearing, First
  <1> QED
    BY <1>1, <1>6, <1>7, <1>8, <1>9, <1>10, <1>11, ClaimFrame DEF archive

-----------------------------------------------------------------------------
(* The invariant.                                                          *)

\* The empty archive.
LEMMA InitLifecycle == Init => LifecycleInv
  <1> SUFFICES ASSUME Init PROVE LifecycleInv
    OBVIOUS
  <1>1. TypeOK
    BY IdleIs DEF Init, TypeOK, States, Absent
  <1>2. ASSUME NEW c \in Catalogs
        PROVE  /\ SessionUpTo(c) /\ InPlace(session[c]) /\ Staged(session[c])
               /\ Knows(c) /\ Observes(c)
    <2>1. session[c] = Idle /\ ~Active(c) /\ \A e \in Catalogs : ~Active(e)
      BY <1>2, IdleIs DEF Init, Active
    <2>2. SessionUpTo(c)
      BY <2>1, IdleIs DEF SessionUpTo, StateUpTo, RefsUpTo
    <2>3. InPlace(session[c]) /\ Staged(session[c]) /\ Observes(c)
      BY <2>1, IdleIs DEF InPlace, Staged, Observes, Transit, Retiring, Clearing
    <2>4. Knows(c)
      BY LifecycleAssumption DEF Knows, Owner, Init
    <2> QED
      BY <2>2, <2>3, <2>4
  <1>3. ASSUME NEW i \in Ids PROVE ArchiveUpTo(i)
    BY DEF Init, ArchiveUpTo, StateUpTo, Absent
  <1>4. FenceInv
    BY <1>2, <1>3 DEF FenceInv, Init
  <1>5. PublishedIsOwnWork
    BY DEF PublishedIsOwnWork, Published, Known, Init
  <1> QED
    BY <1>1, <1>2, <1>4, <1>5 DEF LifecycleInv, WorkInv

\* Every operation of a catalog keeps the invariant.
LEMMA WorksStep ==
  ASSUME LifecycleInv, NEW c \in Catalogs, Works(c)
  PROVE  LifecycleInv'
  BY LeaveStep, CommitStep, ProjectStep, AuthoriseStep, WriteSidecarStep, StageStep,
     CheckDataStep, PutDataStep, CheckCompleteStep, PutCompleteStep, VerifyStep, PublishStep,
     RollbackStep, PinStep, ResumeStep, LookForCompleteStep, RotateStep, ListStep,
     CheckDeleteStep, DeleteStep, RemainingStep, DropSidecarStep, CheckForgetStep, ForgetStep
     DEF Works

\* Every step keeps the invariant.
LEMMA NextLifecycle == LifecycleInv /\ [Next]_vars => LifecycleInv'
  <1> SUFFICES ASSUME LifecycleInv, [Next]_vars PROVE LifecycleInv'
    OBVIOUS
  <1>1. CASE Lapse \/ UNCHANGED vars
    BY <1>1, LapseStep
  <1>2. ASSUME NEW c \in Catalogs, Begin(c) \/ Works(c) \/ Raise(c) \/ Crash(c)
        PROVE  LifecycleInv'
    BY <1>2, BeginStep, WorksStep, RaiseStep, CrashStep
  <1> QED
    BY <1>1, <1>2 DEF Next

\* The invariant of the archive and of what every catalog has in hand, however many catalogs
\* work on however many snapshots, die, or are overtaken.
THEOREM LifecycleInvariant == Spec => []LifecycleInv
  BY InitLifecycle, NextLifecycle, PTL DEF Spec

\* Every variable has its type, whatever the catalogs do.
THEOREM TypeCorrect == Spec => []TypeOK
  <1>1. LifecycleInv => TypeOK
    BY DEF LifecycleInv
  <1> QED
    BY <1>1, LifecycleInvariant, PTL

\* What is published is the work of the operation that published it.
THEOREM OnlyOwnWorkIsPublished == Spec => []PublishedIsOwnWork
  <1>1. LifecycleInv => PublishedIsOwnWork
    BY DEF LifecycleInv, WorkInv
  <1> QED
    BY <1>1, LifecycleInvariant, PTL

-----------------------------------------------------------------------------
(* What a step does to the records and objects.                            *)

\* Only a transition and a forgetting change records, only captures, copies and deletions
\* objects.
LEMMA ChangesBy ==
  ASSUME NEW c \in Catalogs, Begin(c) \/ Works(c) \/ Raise(c) \/ Crash(c)
  PROVE  /\ UNCHANGED records \/ Commit(c) \/ Forget(c)
         /\ UNCHANGED objects \/ PutData(c) \/ PutComplete(c) \/ Delete(c)
  <1>1. CASE Begin(c) \/ Raise(c) \/ Crash(c)
    BY <1>1 DEF Begin, Raise, Crash, archive
  <1>2. CASE Works(c)
    BY <1>2 DEF Works, Leave, Commit, Project, Authorise, WriteSidecar, Stage, CheckData,
                PutData, CheckComplete, PutComplete, Verify, Publish, Rollback, Pin, Resume,
                LookForComplete, Rotate, List, CheckDelete, Delete, Remaining, DropSidecar,
                CheckForget, Forget, Demands, archive
  <1> QED
    BY <1>1, <1>2, SMTT(30)

\* One record changes.
OnlyRecord(i) == i \in Ids /\ UNCHANGED objects /\ \A j \in Ids \ {i} : records'[j] = records[j]

\* A transition, by the part of the task of its catalog.
Transitions(c) ==
  LET s == session[c]  r == records[session[c].id]  new == records'[session[c].id] IN
  /\ new \in State
  /\ s.part = "stage" => r = NoState /\ ~new.published /\ ~new.retired /\ new.fence = s.fence
  /\ s.part # "stage" => /\ r \in State /\ ~r.retired
                         /\ new.fence = r.fence /\ new.revision > r.revision
  /\ s.part = "make" => /\ ~r.published /\ new.published /\ ~new.retired
                        /\ new.pinned = r.pinned /\ new.fence = s.fence /\ Whole(s.id)
  /\ s.part = "pin" => new.published = r.published /\ ~new.retired /\ new.pinned = TRUE
  /\ s.part \in {"resume", "rotate", "end"} =>
       /\ new.retired /\ new.pinned = r.pinned /\ new.published = r.published
       /\ Spared(s, r) /\ Made(s)
  /\ \/ Fails(c)
     \/ session' = [session EXCEPT ![c].at = "project", ![c].draft = new]

\* transition() either fails without effect, or changes the one record as its task requires.
LEMMA CommitIs ==
  ASSUME LifecycleInv, NEW c \in Catalogs, Commit(c)
  PROVE  \/ Fails(c) /\ UNCHANGED <<records, objects>>
         \/ Owner(c) /\ OnlyRecord(session[c].id) /\ Transitions(c)
  <1> DEFINE s == session[c]
             r == records[session[c].id]
             base == IF r = NoState THEN 0 ELSE r.revision
             refused == r # NoState /\ r.retired /\ ~s.draft.retired
  <1>1. /\ s.at = "commit" /\ TypeOK /\ InPlace(s) /\ Staged(s) /\ Knows(c) /\ s.id \in Ids
        /\ r \in States /\ s.draft \in States /\ s.fence \in Nat /\ UNCHANGED objects
    BY CatalogIs, SessionIs DEF Commit
  <1>2. CASE ~(Owner(c) /\ ~refused)
    <2>1. Fails(c) /\ UNCHANGED <<records, objects>>
      BY <1>2 DEF Commit
    <2> QED
      BY <2>1
  <1>3. CASE Owner(c) /\ ~refused
    <2>1. PICK applied \in Repeats :
            /\ records' = [records EXCEPT ![s.id] = [s.draft EXCEPT !.revision = base + applied]]
            /\ \/ session' = [session EXCEPT ![c].at = "project",
                                ![c].draft = [s.draft EXCEPT !.revision = base + applied]]
               \/ Fails(c)
      BY <1>3 DEF Commit, ReplyLost
    <2>2. Drafted(s, r) /\ Made(s) /\ Spared(s, r) /\ s.draft \in State /\ (r # NoState => r \in State)
      BY <1>1, <1>3 DEF Knows, Drafted, States
    <2> DEFINE new == [s.draft EXCEPT !.revision = base + applied]
    <2>3. base + applied \in Nat /\ (r # NoState => base + applied > r.revision)
      <3>1. applied \in Nat \ {0}
        BY LifecycleAssumption
      <3>2. base \in Nat /\ (r # NoState => base = r.revision)
        BY <1>1 DEF States, State
      <3> QED
        BY <3>1, <3>2
    <2>4. /\ new \in State /\ new.published = s.draft.published /\ new.retired = s.draft.retired
          /\ new.pinned = s.draft.pinned /\ new.fence = s.draft.fence
          /\ new.revision = base + applied
      <3> HIDE DEF base
      <3> QED
        BY <2>2, <2>3 DEF State
    <2>5. records'[s.id] = new /\ \A j \in Ids \ {s.id} : records'[j] = records[j]
      BY <1>1, <2>1 DEF TypeOK
    <2> HIDE DEF new
    <2>6. s.part = "stage" =>
            r = NoState /\ ~new.published /\ ~new.retired /\ new.fence = s.fence
      BY <1>1, <2>2, <2>4 DEF Drafted, Staged, Transit
    <2>7. s.part # "stage" => r \in State /\ ~r.retired /\ r # NoState
      BY <2>2 DEF Drafted
    <2>8. s.part = "make" => /\ ~r.published /\ new.published /\ ~new.retired
                             /\ new.pinned = r.pinned /\ Whole(s.id)
                             /\ new.fence = s.fence /\ new.fence = r.fence
      <3> SUFFICES ASSUME s.part = "make"
                   PROVE  /\ ~r.published /\ new.published /\ ~new.retired
                          /\ new.pinned = r.pinned /\ Whole(s.id)
                          /\ new.fence = s.fence /\ new.fence = r.fence
        OBVIOUS
      <3>1. s.draft = [r EXCEPT !.published = TRUE] /\ ~r.published /\ r \in State /\ ~r.retired
        BY <2>2, <2>7 DEF Drafted
      <3>2. /\ s.draft.published /\ s.draft.retired = r.retired /\ s.draft.pinned = r.pinned
            /\ s.draft.fence = r.fence
        BY <3>1 DEF State
      <3>3. /\ s.id = s.own /\ records[s.own].fence = s.fence
            /\ objects[s.own]["data"] = s.fence /\ objects[s.own]["COMPLETE"] = s.fence
        BY <1>1, <2>2 DEF Made, InPlace, Transit
      <3>4. s.fence # Absent
        BY <1>3, <1>1, CatalogIs, OwnerIs DEF Absent
      <3> QED
        BY <2>4, <3>1, <3>2, <3>3, <3>4 DEF Whole, Names
    <2>9. s.part = "pin" => /\ new.published = r.published /\ ~new.retired
                            /\ new.pinned = TRUE /\ new.fence = r.fence
      <3> SUFFICES ASSUME s.part = "pin"
                   PROVE  /\ new.published = r.published /\ ~new.retired
                          /\ new.pinned = TRUE /\ new.fence = r.fence
        OBVIOUS
      <3>1. s.draft = [r EXCEPT !.pinned = TRUE] /\ r \in State /\ ~r.retired
        BY <2>2, <2>7 DEF Drafted
      <3>2. /\ s.draft.published = r.published /\ s.draft.retired = r.retired
            /\ s.draft.pinned = TRUE /\ s.draft.fence = r.fence
        BY <3>1 DEF State
      <3> QED
        BY <2>4, <3>1, <3>2
    <2>10. s.part \in {"resume", "rotate", "end"} =>
             /\ new.retired /\ new.pinned = r.pinned
             /\ new.published = r.published /\ new.fence = r.fence
      <3> SUFFICES ASSUME s.part \in {"resume", "rotate", "end"}
                   PROVE  /\ new.retired /\ new.pinned = r.pinned
                          /\ new.published = r.published /\ new.fence = r.fence
        OBVIOUS
      <3>1. s.draft = [r EXCEPT !.retired = TRUE, !.cleanup = s.refs] /\ r \in State
        BY <2>2, <2>7 DEF Drafted
      <3>2. /\ s.draft.retired /\ s.draft.pinned = r.pinned
            /\ s.draft.published = r.published /\ s.draft.fence = r.fence
        BY <3>1 DEF State
      <3> QED
        BY <2>4, <3>2
    <2>11. s.part # "stage" => new.fence = r.fence /\ new.revision > r.revision
      BY <1>1, <2>3, <2>4, <2>7, <2>8, <2>9, <2>10, SessionIs DEF Part
    <2>12. \/ Fails(c)
           \/ session' = [session EXCEPT ![c].at = "project", ![c].draft = records'[s.id]]
      BY <2>1, <2>5 DEF new
    <2>13. Transitions(c)
      BY <2>2, <2>4, <2>5, <2>6, <2>7, <2>8, <2>9, <2>10, <2>11, <2>12 DEF Transitions
    <2> QED
      BY <1>1, <1>3, <2>5, <2>13 DEF OnlyRecord
  <1> QED
    BY <1>2, <1>3

\* What is forgotten was retired.
LEMMA ForgetIs ==
  ASSUME LifecycleInv, NEW c \in Catalogs, Forget(c)
  PROVE  \/ UNCHANGED <<records, objects>>
         \/ /\ OnlyRecord(session[c].id) /\ Known(session[c].id)
            /\ records[session[c].id].retired /\ records'[session[c].id] = NoState
  <1> DEFINE s == session[c]
  <1>1. s.at = "forgetting" /\ TypeOK /\ Knows(c) /\ s.id \in Ids /\ UNCHANGED objects
    BY CatalogIs, SessionIs DEF Forget
  <1>2. CASE UNCHANGED records
    BY <1>1, <1>2
  <1>3. CASE Owner(c) /\ records' = [records EXCEPT ![s.id] = NoState]
    <2>1. Known(s.id) /\ records[s.id].retired
      BY <1>1, <1>3 DEF Knows, Clearing, Known
    <2>2. records'[s.id] = NoState /\ \A j \in Ids \ {s.id} : records'[j] = records[j]
      BY <1>1, <1>3 DEF TypeOK
    <2> QED
      BY <1>1, <2>1, <2>2 DEF OnlyRecord
  <1> QED
    BY <1>2, <1>3 DEF Forget

\* Objects come and go, but not those of a published snapshot.
OnlyObjects(i) ==
  i \in Ids /\ UNCHANGED records /\ ~Published(i) /\ \A j \in Ids \ {i} : objects'[j] = objects[j]

\* Captures, copies and deletions touch one snapshot, which is not published.
LEMMA PublishedKept ==
  ASSUME LifecycleInv, NEW c \in Catalogs, PutData(c) \/ PutComplete(c) \/ Delete(c)
  PROVE  UNCHANGED <<records, objects>> \/ \E i \in Ids : OnlyObjects(i)
  <1> DEFINE s == session[c]
  <1>1. /\ TypeOK /\ PublishedIsOwnWork /\ s.id \in Ids /\ s.own \in Ids /\ fence \in Nat
        /\ s.refs \in SUBSET Refs /\ s.fence \in Nat
        /\ UNCHANGED records
    BY CatalogIs, SessionIs DEF LifecycleInv, WorkInv, PutData, PutComplete, Delete
  <1>2. \A i \in Ids : Published(i) => records[i].fence \in Version
    BY <1>1 DEF TypeOK, Published, Known, States, State
  <1>3. CASE PutData(c) \/ PutComplete(c)
    <2>1. PICK n \in Names :
            \/ UNCHANGED objects
            \/ /\ objects[s.own][n] = Absent
               /\ objects' = [objects EXCEPT ![s.own][n] = s.fence]
      BY <1>3 DEF PutData, PutComplete, Put, Names
    <2>2. CASE /\ objects[s.own][n] = Absent
               /\ objects' = [objects EXCEPT ![s.own][n] = s.fence]
      <3>1. ~Published(s.own)
        BY <1>1, <1>2, <2>2 DEF PublishedIsOwnWork, Version
      <3>2. \A j \in Ids \ {s.own} : objects'[j] = objects[j]
        BY <1>1, <2>2 DEF TypeOK
      <3> QED
        BY <1>1, <3>1, <3>2 DEF OnlyObjects
    <2> QED
      BY <1>1, <2>1, <2>2
  <1>4. CASE Delete(c)
    <2>1. s.at = "delete one" /\ Observes(c)
      BY <1>4, CatalogIs DEF Delete
    <2>2. PICK r \in s.refs :
            \/ UNCHANGED objects
            \/ /\ objects[s.id][r[1]] = r[2]
               /\ objects' = [objects EXCEPT ![s.id][r[1]] = Absent]
      BY <1>4 DEF Delete
    <2>3. CASE /\ objects[s.id][r[1]] = r[2]
               /\ objects' = [objects EXCEPT ![s.id][r[1]] = Absent]
      <3>1. r[1] \in Names /\ r[2] \in Nat /\ r[2] <= s.fence
        BY <1>1, <2>1 DEF Observes, RefsUpTo, Refs, Version
      <3>2. ASSUME Published(s.id) PROVE FALSE
        <4>1. records[s.id].fence > s.fence
          BY <2>1, <3>2 DEF Observes, Published, Known
        <4>2. r[2] = records[s.id].fence /\ records[s.id].fence \in Nat
          BY <1>1, <1>2, <2>3, <3>1, <3>2 DEF PublishedIsOwnWork, Version
        <4> QED
          BY <1>1, <3>1, <4>1, <4>2
      <3>3. \A j \in Ids \ {s.id} : objects'[j] = objects[j]
        BY <1>1, <2>3 DEF TypeOK
      <3> QED
        BY <1>1, <3>2, <3>3 DEF OnlyObjects
    <2> QED
      BY <1>1, <2>2, <2>3, SMTT(30)
  <1> QED
    BY <1>3, <1>4

-----------------------------------------------------------------------------
(* The promises.                                                           *)

Phase == [i \in Ids |->
  IF ~Known(i) THEN "none"
  ELSE IF records[i].retired THEN "retired"
  ELSE IF records[i].published THEN "published" ELSE "staged"]
Pinned == [i \in Ids |-> Known(i) /\ records[i].pinned]
Wholes == [i \in Ids |-> Whole(i)]

\* Where neither record nor objects change, nothing is seen of the step.
LEMMA PhaseSame ==
  ASSUME NEW i \in Ids
  PROVE  /\ records'[i] = records[i] => Phase'[i] = Phase[i] /\ Pinned'[i] = Pinned[i]
         /\ objects'[i] = objects[i] => Wholes'[i] = Wholes[i]
  BY DEF Phase, Pinned, Wholes, Known, Whole

\* The phase of a record, and what follows from a change of one record.
LEMMA PhaseOnly ==
  ASSUME NEW i \in Ids, OnlyRecord(i)
  PROVE  /\ Wholes' = Wholes
         /\ \A phase : Phase'[i] = phase => Phase' = [Phase EXCEPT ![i] = phase]
         /\ \A pin : Pinned'[i] = pin => Pinned' = [Pinned EXCEPT ![i] = pin]
         /\ Pinned'[i] = Pinned[i] => Pinned' = Pinned
  <1>1. Wholes' = Wholes
    BY DEF Wholes, Whole, OnlyRecord
  <1>2. \A j \in Ids \ {i} : Phase'[j] = Phase[j] /\ Pinned'[j] = Pinned[j]
    BY PhaseSame DEF OnlyRecord
  <1>3. /\ Phase = [j \in Ids |-> Phase[j]] /\ Phase' = [j \in Ids |-> Phase'[j]]
        /\ Pinned = [j \in Ids |-> Pinned[j]] /\ Pinned' = [j \in Ids |-> Pinned'[j]]
    BY DEF Phase, Pinned
  <1> HIDE DEF Phase, Pinned
  <1> QED
    BY <1>1, <1>2, <1>3

PhaseReads(i) ==
  /\ records[i] = NoState => Phase[i] = "none" /\ Pinned[i] = FALSE
  /\ records[i] \in State =>
       /\ Pinned[i] = records[i].pinned
       /\ records[i].retired => Phase[i] = "retired"
       /\ ~records[i].retired /\ records[i].published => Phase[i] = "published"
       /\ ~records[i].retired /\ ~records[i].published => Phase[i] = "staged"
  /\ Phase[i] = "published" => Published(i)
  /\ Wholes[i] = Whole(i)

\* The phases of the refinement, snapshot by snapshot.
LEMMA PhaseIs == \A i \in Ids : PhaseReads(i)
  <1> SUFFICES ASSUME NEW i \in Ids PROVE PhaseReads(i)
    OBVIOUS
  <1>1. records[i] \in State => Known(i) /\ records[i].pinned \in BOOLEAN
    BY NoStateAssumption DEF Known, State
  <1>2. Wholes[i] = Whole(i)
    BY DEF Wholes
  <1>3. /\ records[i] = NoState => Pinned[i] = FALSE
        /\ records[i] \in State => Pinned[i] = records[i].pinned
    BY <1>1 DEF Pinned, Known
  <1>4. /\ records[i] = NoState => Phase[i] = "none"
        /\ Known(i) /\ records[i].retired => Phase[i] = "retired"
        /\ Known(i) /\ ~records[i].retired /\ records[i].published => Phase[i] = "published"
        /\ Known(i) /\ ~records[i].retired /\ ~records[i].published => Phase[i] = "staged"
        /\ Phase[i] = "published" => Published(i)
    BY DEF Phase, Known, Published
  <1> QED
    BY <1>1, <1>2, <1>3, <1>4 DEF PhaseReads

\* The same after a step.
LEMMA PhaseWillBe == \A i \in Ids : PhaseReads(i)'
  <1>1. (\A i \in Ids : PhaseReads(i))'
    BY PhaseIs, PTL
  <1> QED
    BY <1>1

\* A transition is a step of the promise.
LEMMA CommitPromised ==
  ASSUME LifecycleInv, NEW c \in Catalogs, NEW i \in Ids, i = session[c].id,
         OnlyRecord(i), Transitions(c)
  PROVE  Promise!Next
  <1> DEFINE s == session[c]
             r == records[i]
             new == records'[i]
  <1>1. s.part \in Part
    BY CatalogIs, SessionIs
  <1>2. /\ Wholes' = Wholes
        /\ \A phase : Phase'[i] = phase => Phase' = [Phase EXCEPT ![i] = phase]
        /\ \A pin : Pinned'[i] = pin => Pinned' = [Pinned EXCEPT ![i] = pin]
        /\ Pinned'[i] = Pinned[i] => Pinned' = Pinned
    BY <1>1, PhaseOnly
  <1>3. /\ new \in State /\ new.pinned \in BOOLEAN /\ Pinned'[i] = new.pinned
        /\ new.retired => Phase'[i] = "retired"
        /\ ~new.retired /\ new.published => Phase'[i] = "published"
        /\ ~new.retired /\ ~new.published => Phase'[i] = "staged"
    BY <1>1, PhaseWillBe DEF PhaseReads, Transitions, State
  <1>4. /\ r = NoState => Phase[i] = "none" /\ Pinned[i] = FALSE
        /\ r \in State => /\ Pinned[i] = r.pinned
                          /\ ~r.retired /\ r.published => Phase[i] = "published"
                          /\ ~r.retired /\ ~r.published => Phase[i] = "staged"
        /\ Wholes[i] = Whole(i)
    BY <1>1, PhaseIs DEF PhaseReads
  <1>5. Phase = [j \in Ids |-> Phase[j]]
    BY DEF Phase
  <1>6. CASE s.part = "stage"
    <2>1. Phase[i] = "none" /\ Phase'[i] = "staged"
      BY <1>3, <1>4, <1>6 DEF Transitions
    <2>2. Promise!Stage(i)
      BY <1>2, <1>3, <2>1 DEF Promise!Stage, Phase, Pinned, Wholes
    <2> QED
      BY <1>1, <2>2 DEF Promise!Next
  <1>7. CASE s.part = "make"
    <2>1. /\ Phase[i] = "staged" /\ Phase'[i] = "published" /\ Pinned'[i] = Pinned[i]
          /\ Wholes[i]
      BY <1>3, <1>4, <1>7 DEF Transitions
    <2>2. Promise!Publish(i)
      BY <1>2, <2>1 DEF Promise!Publish, Phase, Pinned, Wholes
    <2> QED
      BY <1>1, <2>2 DEF Promise!Next
  <1>8. CASE s.part = "pin"
    <2>1. /\ Phase[i] \in {"staged", "published"} /\ Phase'[i] = Phase[i]
          /\ Pinned'[i] = TRUE
      BY <1>3, <1>4, <1>8 DEF Transitions
    <2>2. Phase' = Phase
      BY <1>1, <1>2, <1>5, <2>1
    <2>3. Promise!Pin(i)
      BY <1>2, <2>1, <2>2 DEF Promise!Pin, Phase, Pinned, Wholes
    <2> QED
      BY <1>1, <2>3 DEF Promise!Next
  <1>9. CASE s.part \in {"resume", "rotate", "end"}
    <2>1. /\ Phase[i] \in {"staged", "published"} /\ Phase'[i] = "retired"
          /\ Pinned'[i] = Pinned[i]
      BY <1>3, <1>4, <1>9 DEF Transitions
    <2>2. Promise!Retire(i)
      BY <1>2, <2>1 DEF Promise!Retire, Phase, Pinned, Wholes
    <2> QED
      BY <1>1, <2>2 DEF Promise!Next
  <1> QED
    BY <1>1, <1>6, <1>7, <1>8, <1>9 DEF Part

\* So is the forgetting of a tombstone.
LEMMA ForgetPromised ==
  ASSUME LifecycleInv, NEW i \in Ids, OnlyRecord(i), Known(i), records[i].retired,
         records'[i] = NoState
  PROVE  Promise!Next
  <1>1. /\ Wholes' = Wholes
        /\ \A phase : Phase'[i] = phase => Phase' = [Phase EXCEPT ![i] = phase]
        /\ \A pin : Pinned'[i] = pin => Pinned' = [Pinned EXCEPT ![i] = pin]
    BY PhaseOnly
  <1>2. Phase'[i] = "none" /\ Pinned'[i] = FALSE
    BY PhaseWillBe DEF PhaseReads
  <1>3. Phase[i] = "retired"
    <2>1. records[i] \in State
      BY DEF LifecycleInv, TypeOK, Known, States
    <2> QED
      BY <2>1, PhaseIs DEF PhaseReads
  <1>4. Promise!Forget(i)
    BY <1>1, <1>2, <1>3 DEF Promise!Forget, Phase, Pinned, Wholes
  <1> QED
    BY <1>4 DEF Promise!Next

\* And whatever happens to the objects of a snapshot that is not published.
LEMMA FillPromised ==
  ASSUME LifecycleInv, NEW i \in Ids, OnlyObjects(i)
  PROVE  Promise!Next
  <1>1. Phase' = Phase /\ Pinned' = Pinned
    BY DEF Phase, Pinned, Known, OnlyObjects
  <1>2. \A j \in Ids \ {i} : Wholes'[j] = Wholes[j]
    BY PhaseSame DEF OnlyObjects
  <1>3. /\ Wholes = [j \in Ids |-> Wholes[j]] /\ Wholes' = [j \in Ids |-> Wholes'[j]]
        /\ Wholes'[i] \in BOOLEAN
    BY DEF Wholes, Whole
  <1>4. Phase[i] # "published"
    BY PhaseIs DEF PhaseReads, OnlyObjects
  <1> DEFINE full == Wholes'[i]
  <1>5. Wholes' = [Wholes EXCEPT ![i] = full]
    <2> HIDE DEF Wholes
    <2> QED
      BY <1>2, <1>3
  <1> HIDE DEF full
  <1>6. full \in BOOLEAN
    BY <1>3 DEF full
  <1>7. Promise!Fill(i)
    BY <1>1, <1>4, <1>5, <1>6 DEF Promise!Fill, Phase, Pinned, Wholes
  <1> QED
    BY <1>7 DEF Promise!Next

\* Every step of the archive is a step of the promise, or not seen there.
LEMMA StepPromised ==
  ASSUME LifecycleInv, [Next]_vars
  PROVE  [Promise!Next]_<<Phase, Pinned, Wholes>>
  <1>1. ASSUME UNCHANGED <<records, objects>> PROVE UNCHANGED <<Phase, Pinned, Wholes>>
    BY <1>1 DEF Phase, Pinned, Wholes, Known, Whole
  <1>2. CASE Lapse \/ UNCHANGED vars
    BY <1>1, <1>2 DEF Lapse, vars, archive
  <1>3. ASSUME NEW c \in Catalogs, Begin(c) \/ Works(c) \/ Raise(c) \/ Crash(c)
        PROVE  [Promise!Next]_<<Phase, Pinned, Wholes>>
    <2>1. /\ \/ UNCHANGED records \/ Commit(c) \/ Forget(c)
          /\ \/ UNCHANGED objects \/ PutData(c) \/ PutComplete(c) \/ Delete(c)
      BY <1>3, ChangesBy
    <2>2. CASE UNCHANGED <<records, objects>>
      BY <1>1, <2>2
    <2>3. CASE Commit(c)
      <3>1. session[c].id \in Ids
        BY CatalogIs, SessionIs
      <3> QED
        BY <1>1, <2>3, <3>1, CommitIs, CommitPromised
    <2>4. CASE Forget(c)
      <3>1. session[c].id \in Ids
        BY CatalogIs, SessionIs
      <3> QED
        BY <1>1, <2>4, <3>1, ForgetIs, ForgetPromised
    <2>5. CASE PutData(c) \/ PutComplete(c) \/ Delete(c)
      BY <1>1, <2>5, PublishedKept, FillPromised DEF OnlyObjects
    <2> QED
      BY <2>1, <2>2, <2>3, <2>4, <2>5
  <1> QED
    BY <1>2, <1>3 DEF Next

\* The archive implements RecoveryPoints: what is published is whole and stays so until it is
\* retired, pins and tombstones are never undone, and only what was retired is forgotten,
\* whichever operations die or are overtaken on the way.
THEOREM ImplementsPromise == Spec => KeepsRecoveryPoints
  <1>1. Init => Promise!Init
    <2> SUFFICES ASSUME Init PROVE Promise!Init
      OBVIOUS
    <2>1. \A i \in Ids : Known(i) = FALSE /\ Whole(i) = FALSE
      BY DEF Init, Known, Whole, Names
    <2>2. /\ Phase = [i \in Ids |-> "none"] /\ Wholes = [i \in Ids |-> FALSE]
          /\ Pinned = [i \in Ids |-> FALSE]
      BY <2>1 DEF Phase, Wholes, Pinned
    <2> QED
      BY <2>2 DEF Promise!Init, Phase, Wholes, Pinned
  <1>2. LifecycleInv /\ [Next]_vars => [Promise!Next]_<<Phase, Pinned, Wholes>>
    BY StepPromised
  <1> QED
    BY LifecycleInvariant, <1>1, <1>2, PTL
    DEF Spec, KeepsRecoveryPoints, Promise!Spec, Promise!vars, Phase, Pinned, Wholes

\* A pinned snapshot that is published is retired only by an explicit deletion, or by the copy
\* that published it and then failed.
THEOREM PinsHold == Spec => PinnedSpared
  <1> DEFINE Spares == \A i \in Ids : Published(i) /\ records[i].pinned /\ ~Published(i)' =>
               \E c \in Catalogs :
                 /\ Owner(c)
                 /\ \/ session[c].task = "delete"
                    \/ session[c].task = "copy" /\ records[i].fence = session[c].fence
  <1>1. ASSUME LifecycleInv, [Next]_vars PROVE [Spares]_vars
    <2> SUFFICES ASSUME NEW i \in Ids, Published(i), records[i].pinned, ~Published(i)'
                 PROVE  \E c \in Catalogs :
                          /\ Owner(c)
                          /\ \/ session[c].task = "delete"
                             \/ /\ session[c].task = "copy"
                                /\ records[i].fence = session[c].fence
      OBVIOUS
    <2>1. records'[i] # records[i]
      BY DEF Published, Known
    <2>2. ~UNCHANGED records /\ ~Lapse /\ ~UNCHANGED vars
      BY <2>1 DEF Lapse, archive, vars
    <2>3. PICK c \in Catalogs : Commit(c) \/ Forget(c)
      BY <1>1, <2>2, ChangesBy DEF Next
    <2>4. CASE Forget(c)
      <3>1. OnlyRecord(session[c].id) /\ records[session[c].id].retired
        BY <1>1, <2>2, <2>4, ForgetIs
      <3>2. i = session[c].id
        BY <2>1, <3>1 DEF OnlyRecord
      <3> QED
        BY <3>1, <3>2 DEF Published
    <2>5. CASE Commit(c)
      <3>1. Owner(c) /\ OnlyRecord(session[c].id) /\ Transitions(c)
        BY <1>1, <2>2, <2>5, CommitIs
      <3>2. i = session[c].id
        BY <2>1, <3>1 DEF OnlyRecord
      <3>3. /\ records[i] # NoState /\ records[i].published /\ ~records[i].retired
            /\ ~(records'[i] # NoState /\ records'[i].published /\ ~records'[i].retired)
        BY DEF Published, Known
      <3>4. /\ session[c].part \in Part /\ InPlace(session[c]) /\ session[c].at = "commit"
            /\ records'[i] # NoState
        BY <1>1, <2>5, <3>1, <3>2, CatalogIs, SessionIs, NoStateAssumption DEF Commit, Transitions
      <3>5. session[c].part \in {"resume", "rotate", "end"}
        BY <3>1, <3>2, <3>3, <3>4 DEF Part, Transitions
      <3>6. Spared(session[c], records[i]) /\ Made(session[c])
        BY <3>1, <3>2, <3>5 DEF Transitions
      <3>7. session[c].part = "end"
        BY <3>3, <3>4, <3>5, <3>6 DEF Spared
      <3>8. session[c].task \in {"copy", "delete"} /\ session[c].own = i
        BY <3>2, <3>3, <3>4, <3>6, <3>7 DEF InPlace, Spared, Retiring, Transit
      <3> QED
        BY <3>1, <3>3, <3>4, <3>6, <3>7, <3>8 DEF Made
    <2> QED
      BY <2>3, <2>4, <2>5
  <1> QED
    BY LifecycleInvariant, <1>1, PTL DEF Spec, PinnedSpared

===============================================================================
