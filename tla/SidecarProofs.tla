----------------------------- MODULE SidecarProofs -----------------------------
(***************************************************************************)
(* Proofs about the sidecars of Lifecycle: that none is ahead of its       *)
(* record, none replaces a newer one, and none brings a snapshot back      *)
(* after its record is gone, however late a projection arrives; and about  *)
(* archives whose catalogs fail only by dying: that nothing is left behind *)
(* that the next capture does not find and clean up.                       *)
(***************************************************************************)
EXTENDS LifecycleProofs

-----------------------------------------------------------------------------
(* What holds of a projection, from its commit until it is written.        *)

Projecting == {"project", "authorise", "write sidecar"}

Newer(new, old) ==
  new.fence > old.fence \/ (new.fence = old.fence /\ new.revision > old.revision)

ThereFor(x, f) == x # NoState /\ x.fence = f
NotFor(x, f) == x = NoState \/ x.fence # f
Before(x, f) == x = NoState \/ x.fence < f

\* The record is the one that was committed, or later than it.
Behind(c) ==
  LET s == session[c]  d == session[c].draft  r == records[session[c].id] IN
  /\ d # NoState /\ d.fence <= s.fence
  /\ \/ r = d \/ r = NoState \/ r.fence > s.fence
     \/ r.fence = d.fence /\ r.revision > d.revision
  /\ r # NoState /\ r.fence = d.fence => r.published = d.published

\* What is projected replaces an older sidecar of the same snapshot, if it is of one that
\* was published.
Succeeds(c) ==
  LET d == session[c].draft  x == session[c].seen IN
  /\ d.published => ThereFor(x, d.fence)
  /\ x # NoState => x = d \/ Newer(d, x)

\* The snapshot is gone, or going.
Gone(c) ==
  LET i == session[c].id IN
  \/ NotFor(records[i], session[c].draft.fence)
  \/ \E e \in Catalogs : Owner(e) /\ session[e].at = "forgetting" /\ session[e].id = i

Projects(c) ==
  LET s == session[c]  d == session[c].draft  x == sidecar[session[c].id] IN
  /\ s.at \in Projecting => Behind(c)
  /\ Owner(c) /\ s.at \in {"project", "authorise"} /\ d.published => ThereFor(x, d.fence)
  /\ (Owner(c) /\ s.at = "authorise") \/ s.at = "write sidecar" => Succeeds(c)
  /\ s.at = "write sidecar" =>
       /\ s.seen # NoState => s.seen.fence <= s.fence
       /\ d.published /\ Gone(c) => NotFor(x, d.fence)

\* What a catalog knows of sidecars otherwise.
Minds(c) ==
  LET s == session[c]  d == session[c].draft  r == records[session[c].id] IN
  /\ s.at = "drop sidecar" =>
       /\ s.seen # NoState => s.seen.fence <= s.fence
       /\ d # NoState /\ d.retired
       /\ r = d \/ r = NoState \/ r.fence > s.fence
  /\ Owner(c) /\ s.part = "make" => ThereFor(sidecar[s.own], s.fence)
  /\ Owner(c) /\ s.part = "stage" /\ s.at = "commit" => Before(sidecar[s.own], s.fence)
  /\ Owner(c) /\ s.at = "forgetting" =>
       sidecar[s.id] = NoState \/ ~sidecar[s.id].published

\* Two catalogs at the same snapshot: they agree whether it was published, and a deletion of
\* the sidecar that is late is of an earlier snapshot.
Agree(c, e) ==
  session[c].id = session[e].id =>
    /\ session[c].at \in Projecting /\ session[e].at \in Projecting
       /\ session[c].draft.fence = session[e].draft.fence =>
         session[c].draft.published = session[e].draft.published
    /\ Owner(c) /\ session[c].at \in {"project", "authorise"}
       /\ session[e].at = "drop sidecar" =>
         records[session[c].id].fence > session[e].fence

\* The sidecar and the record of a snapshot.
Follows(i) ==
  /\ sidecar[i] # NoState =>
       IF Known(i) /\ records[i].fence = sidecar[i].fence
       THEN /\ sidecar[i].revision <= records[i].revision
            /\ sidecar[i].revision = records[i].revision => sidecar[i] = records[i]
       ELSE ~sidecar[i].published
  /\ Published(i) => ThereFor(sidecar[i], records[i].fence)
  /\ Known(i) /\ sidecar[i] # NoState => sidecar[i].fence <= records[i].fence

SidecarInv ==
  /\ \A c \in Catalogs : Projects(c) /\ Minds(c)
  /\ \A c, e \in Catalogs : Agree(c, e)
  /\ \A i \in Ids : Follows(i)
-----------------------------------------------------------------------------
(* Steps that change neither records nor sidecars.                         *)

\* The parts of a state that is there.
LEMMA StateIs ==
  ASSUME NEW x \in States, x # NoState
  PROVE  /\ x \in State /\ x.fence \in Nat /\ x.fence > 0 /\ x.revision \in Nat
         /\ x.published \in BOOLEAN /\ x.retired \in BOOLEAN
  BY DEF States, State, Version, Absent

\* A step of one catalog that does not own more than before.
Alone(c) ==
  \A e \in Catalogs \ {c} : session'[e] = session[e] /\ (Owner(e)' => Owner(e))

\* The catalogs apart from the one that moves keep what they know.
LEMMA SideFrame ==
  ASSUME SidecarInv, NEW c \in Catalogs, UNCHANGED <<records, sidecar>>, Alone(c),
         Projects(c)', Minds(c)', \A e \in Catalogs : Agree(c, e)' /\ Agree(e, c)',
         session'[c].at = "forgetting" => sidecar[session'[c].id] = NoState
  PROVE  SidecarInv'
  <1>1. ASSUME NEW i \in Ids PROVE Follows(i)'
    <2>1. Follows(i)
      BY DEF SidecarInv
    <2> QED
      BY <2>1 DEF Follows, Known, Published, ThereFor
  <1>2. ASSUME NEW e \in Catalogs, e # c PROVE Projects(e)'
    <2>1. Projects(e) /\ session'[e] = session[e] /\ (Owner(e)' => Owner(e))
      BY <1>2 DEF SidecarInv, Alone
    <2>2. Behind(e) => Behind(e)'
      BY <2>1 DEF Behind
    <2>3. Succeeds(e) => Succeeds(e)'
      BY <2>1 DEF Succeeds
    <2>4. Gone(e)' => Gone(e) \/ sidecar[session[e].id] = NoState
      <3> SUFFICES ASSUME NEW d \in Catalogs, Owner(d)', session'[d].at = "forgetting",
                          session'[d].id = session[e].id
                   PROVE  Gone(e) \/ sidecar[session[e].id] = NoState
        BY <2>1 DEF Gone, NotFor
      <3>1. CASE d = c
        BY <3>1
      <3>2. CASE d # c
        BY <3>2 DEF Gone, Alone
      <3> QED
        BY <3>1, <3>2
    <2> QED
      BY <2>1, <2>2, <2>3, <2>4 DEF Projects, NotFor, ThereFor
  <1>3. ASSUME NEW e \in Catalogs, e # c PROVE Minds(e)'
    <2>1. Minds(e) /\ session'[e] = session[e] /\ (Owner(e)' => Owner(e))
      BY <1>3 DEF SidecarInv, Alone
    <2> QED
      BY <2>1 DEF Minds, ThereFor, Before
  <1>4. ASSUME NEW d \in Catalogs, NEW e \in Catalogs, d # c, e # c PROVE Agree(d, e)'
    <2>1. /\ Agree(d, e) /\ session'[e] = session[e] /\ session'[d] = session[d]
          /\ (Owner(d)' => Owner(d))
      BY <1>4 DEF SidecarInv, Alone
    <2> QED
      BY <2>1 DEF Agree
  <1> QED
    BY <1>1, <1>2, <1>3, <1>4 DEF SidecarInv

Busy == Projecting \cup {"drop sidecar", "forgetting"}

\* A catalog that has nothing to do with sidecars.
LEMMA RestSide ==
  ASSUME SidecarInv, NEW c \in Catalogs, UNCHANGED <<records, sidecar>>, Alone(c),
         session'[c].at \notin Busy,
         Owner(c)' /\ session'[c].part = "make" =>
           ThereFor(sidecar[session'[c].own], session'[c].fence),
         Owner(c)' /\ session'[c].part = "stage" /\ session'[c].at = "commit" =>
           Before(sidecar[session'[c].own], session'[c].fence)
  PROVE  SidecarInv'
  <1>1. Projects(c)'
    BY DEF Projects, Busy, Projecting
  <1>2. Minds(c)'
    BY DEF Minds, Busy, Projecting, ThereFor, Before
  <1>3. \A e \in Catalogs : Agree(c, e)' /\ Agree(e, c)'
    BY DEF Agree, Busy, Projecting
  <1>4. session'[c].at # "forgetting"
    BY DEF Busy
  <1> QED
    BY <1>1, <1>2, <1>3, <1>4, SideFrame

\* Within a task.
LEMMA TaskSide ==
  ASSUME LifecycleInv, SidecarInv, NEW c \in Catalogs, ReservationStays, KeepsTask(c),
         UNCHANGED <<records, sidecar>>,
         session'[c].at \notin Busy,
         session'[c].part = "make" => session[c].part = "make",
         session'[c].part = "stage" /\ session'[c].at = "commit" =>
           sidecar[session[c].own] = NoState
  PROVE  SidecarInv'
  <1>1. \A e \in Catalogs : Owner(e)' = Owner(e)
    BY DEF Owner, ReservationStays, reservation, KeepsTask
  <1>2. Alone(c)
    BY <1>1 DEF Alone, KeepsTask
  <1>3. session'[c].own = session[c].own /\ session'[c].fence = session[c].fence
    BY DEF KeepsTask
  <1>4. Owner(c) /\ session[c].part = "make" => ThereFor(sidecar[session[c].own], session[c].fence)
    BY DEF SidecarInv, Minds
  <1> QED
    BY <1>1, <1>2, <1>3, <1>4, RestSide DEF Before

\* An exception.
LEMMA FailsSide ==
  ASSUME LifecycleInv, SidecarInv, NEW c \in Catalogs, ReservationStays, Fails(c),
         UNCHANGED <<records, sidecar>>
  PROVE  SidecarInv'
  <1>1. TypeOK
    BY DEF LifecycleInv
  <1>2. KeepsTask(c) /\ session'[c].at \in {"resume", "rollback", "leave"}
        /\ session'[c].part \in {"resume", "end"}
    BY <1>1, FailsIs
  <1> QED
    BY <1>2, TaskSide DEF Busy, Projecting

\* A step that changes what a catalog has in hand, within its part of the task.
HandStep(c, at) ==
  /\ KeepsTask(c) /\ session'[c].part = session[c].part /\ session'[c].at = at

\* The steps of a task that are not about sidecars.
LEMMA OtherSteps ==
  ASSUME LifecycleInv, SidecarInv, NEW c \in Catalogs,
         \/ Stage(c) \/ CheckData(c) \/ PutData(c) \/ CheckComplete(c) \/ PutComplete(c)
         \/ Verify(c) \/ Publish(c) \/ Rollback(c) \/ Pin(c) \/ Resume(c)
         \/ LookForComplete(c) \/ Rotate(c) \/ List(c) \/ CheckDelete(c) \/ Delete(c)
         \/ Raise(c)
  PROVE  SidecarInv'
  <1> DEFINE s == session[c]
  <1>1. /\ TypeOK /\ InPlace(s) /\ s \in Session /\ s.part \in Part
        /\ session \in [Catalogs -> Session]
    BY CatalogIs, SessionIs, SMTT(30) DEF TypeOK
  <1>2. ReservationStays /\ UNCHANGED <<records, sidecar>>
    BY DEF Stage, CheckData, PutData, CheckComplete, PutComplete, Verify, Publish, Rollback,
           Pin, Resume, LookForComplete, Rotate, List, CheckDelete, Delete, Raise, Demands,
           ReservationStays, archive
  <1>3. CASE Fails(c)
    BY <1>2, <1>3, FailsSide
  <1>4. ASSUME NEW at \in At \ Busy, HandStep(c, at), s.part # "stage" \/ at # "commit"
        PROVE  SidecarInv'
    BY <1>2, <1>4, TaskSide DEF HandStep
  <1>5. ASSUME NEW at \in At \ (Busy \cup {"commit"}), Goes(c, at) PROVE SidecarInv'
    <2>1. HandStep(c, at)
      BY <1>1, <1>5, GoesIs DEF HandStep
    <2> QED
      BY <1>4, <1>5, <2>1
  <1>6. /\ {"put data", "put COMPLETE", "check COMPLETE", "verify", "publish", "list", "resume",
            "leave", "remaining", "delete one", "delete"} \subseteq At \ (Busy \cup {"commit"})
        /\ "commit" \in At \ Busy
    BY DEF At, Busy, Projecting
  <1>7. CASE CheckData(c) \/ CheckComplete(c) \/ Verify(c)
    <2>1. \/ Fails(c) \/ Goes(c, "put data") \/ Goes(c, "put COMPLETE") \/ Goes(c, "publish")
      BY <1>7 DEF CheckData, CheckComplete, Verify, Demands
    <2> QED
      BY <1>3, <1>5, <1>6, <2>1
  <1>8. CASE PutData(c) \/ PutComplete(c)
    <2>1. \/ Fails(c) \/ Goes(c, "put COMPLETE") \/ Goes(c, "check COMPLETE") \/ Goes(c, "verify")
      BY <1>8 DEF PutData, PutComplete, Put, ReplyLost
    <2> QED
      BY <1>3, <1>5, <1>6, <2>1
  <1>9. CASE LookForComplete(c) \/ CheckDelete(c) \/ Raise(c)
    <2>1. \/ Fails(c) \/ Goes(c, "list") \/ Goes(c, "resume") \/ Goes(c, "remaining")
          \/ Goes(c, "delete one")
      BY <1>9 DEF LookForComplete, CheckDelete, Raise
    <2> QED
      BY <1>3, <1>5, <1>6, <2>1
  <1>10. CASE Stage(c)
    <2>1. CASE ~Fails(c)
      <3>1. sidecar[s.own] = NoState /\ KeepsTask(c) /\ session'[c].at = "commit"
            /\ session'[c].part = "stage"
        <4>1. s.part = "stage"
          BY <1>1, <1>10, PlaceIs DEF Stage
        <4> QED
          BY <1>1, <1>10, <2>1, <4>1 DEF Stage, Empty, KeepsTask, Session
      <3> QED
        BY <1>2, <1>6, <3>1, TaskSide
    <2> QED
      BY <1>3, <2>1
  <1>11. CASE Publish(c) \/ Pin(c)
    <2>1. CASE ~Fails(c)
      <3>1. HandStep(c, "commit")
        BY <1>1, <1>11, <2>1 DEF Publish, Pin, KeepsTask, Session, HandStep
      <3>2. s.part # "stage"
        BY <1>1, <1>11, PlaceIs DEF Publish, Pin, Making
      <3> QED
        BY <1>4, <1>6, <3>1, <3>2
    <2> QED
      BY <1>3, <2>1
  <1>12. CASE Rollback(c) \/ Rotate(c)
    <2>1. CASE ~Fails(c) /\ ~Goes(c, "leave")
      <3>1. HandStep(c, "list")
        BY <1>1, <1>12, <2>1 DEF Rollback, Rotate, KeepsTask, Session, HandStep
      <3> QED
        BY <1>4, <1>6, <3>1
    <2> QED
      BY <1>3, <1>5, <1>6, <2>1
  <1>13. CASE Resume(c)
    <2>1. CASE GoesIn(c, "stage", "stage")
      <3>1. KeepsTask(c) /\ session'[c].at = "stage" /\ session'[c].part = "stage"
        BY <1>1, <2>1, GoesInIs DEF At, Part
      <3> QED
        BY <1>2, <3>1, TaskSide DEF Busy, Projecting
    <2>2. CASE ~GoesIn(c, "stage", "stage")
      <3>1. PICK at \in {"resume", "list", "complete?"} : HandStep(c, at)
        <4> DEFINE to(i) == IF records[i] = NoState THEN "resume"
                            ELSE IF records[i].retired THEN "list"
                            ELSE IF ~records[i].published /\ records[i].fence < s.fence
                                 THEN "complete?" ELSE "resume"
        <4>1. PICK i \in s.todo :
                session' = [session EXCEPT ![c].todo = s.todo \ {i}, ![c].id = i, ![c].at = to(i)]
          BY <1>1, <1>13, <2>2 DEF Resume
        <4>2. to(i) \in {"resume", "list", "complete?"}
          OBVIOUS
        <4> HIDE DEF to
        <4>3. HandStep(c, to(i))
          BY <1>1, <4>1 DEF KeepsTask, Session, HandStep
        <4> QED
          BY <4>2, <4>3
      <3>2. at \in At \ Busy /\ at # "commit"
        BY DEF At, Busy, Projecting
      <3> QED
        BY <1>4, <3>1, <3>2
    <2> QED
      BY <2>1, <2>2
  <1>14. CASE List(c)
    <2>1. CASE ~Fails(c)
      <3>1. HandStep(c, "commit") \/ HandStep(c, "delete")
        BY <1>1, <1>14, <2>1 DEF List, KeepsTask, Session, HandStep
      <3>2. s.part # "stage"
        BY <1>1, <1>14, PlaceIs DEF List
      <3> QED
        BY <1>4, <1>6, <3>1, <3>2
    <2> QED
      BY <1>3, <2>1
  <1>15. CASE Delete(c)
    <2>1. CASE ~Fails(c)
      <3>1. HandStep(c, "delete")
        <4>1. PICK r : session' = [session EXCEPT ![c].at = "delete", ![c].refs = @ \ {r}]
          BY <1>15, <2>1 DEF Delete, ReplyLost
        <4> QED
          BY <1>1, <4>1 DEF KeepsTask, Session, HandStep
      <3> QED
        BY <1>4, <1>6, <3>1
    <2> QED
      BY <1>3, <2>1
  <1> QED
    BY <1>7, <1>8, <1>9, <1>10, <1>11, <1>12, <1>13, <1>14, <1>15

\* Steps of the reservation.
LEMMA ClaimSide ==
  ASSUME LifecycleInv, SidecarInv, NEW c \in Catalogs, Begin(c) \/ Leave(c) \/ Crash(c)
  PROVE  SidecarInv'
  <1>1. TypeOK /\ UNCHANGED <<records, sidecar>>
    BY DEF LifecycleInv, Begin, Leave, Crash, archive
  <1>2. Alone(c) /\ session'[c].at \notin Busy /\ session'[c].part # "make"
        /\ session'[c].at # "commit"
    <2>1. CASE Leave(c) \/ Crash(c)
      <3>1. session' = [session EXCEPT ![c] = Idle] /\ fence' = fence /\ holder' \in {holder, NoOne}
        BY <2>1 DEF Leave, Crash, reservation
      <3>2. session'[c] = Idle /\ \A e \in Catalogs \ {c} : session'[e] = session[e]
        BY <1>1, <3>1 DEF TypeOK
      <3>3. \A e \in Catalogs \ {c} : Owner(e)' => Owner(e)
        BY <3>1, <3>2, LifecycleAssumption DEF Owner
      <3> QED
        BY <3>2, <3>3, IdleIs DEF Alone, Busy, Projecting
    <2>2. CASE Begin(c)
      <3>1. PICK task \in Tasks, i \in Ids, todo \in SUBSET Ids :
              session' = [session EXCEPT ![c] =
                Begun(c, task, i,
                  CASE task = "write" -> "resume" [] task = "copy" -> "stage"
                    [] task = "pin" -> "pin" [] task = "delete" -> "list",
                  CASE task = "write" -> "resume" [] task = "copy" -> "stage"
                    [] task = "pin" -> "pin" [] task = "delete" -> "end", todo)]
        <4>1. PICK task \in Tasks, i \in Ids :
                session' = [session EXCEPT ![c] =
                  Begun(c, task, i,
                    CASE task = "write" -> "resume" [] task = "copy" -> "stage"
                      [] task = "pin" -> "pin" [] task = "delete" -> "list",
                    CASE task = "write" -> "resume" [] task = "copy" -> "stage"
                      [] task = "pin" -> "pin" [] task = "delete" -> "end",
                    IF task = "write" THEN {j \in Ids : records[j] # NoState} ELSE {})]
          BY <2>2 DEF Begin, Begun
        <4>2. (IF task = "write" THEN {j \in Ids : records[j] # NoState} ELSE {}) \in SUBSET Ids
          OBVIOUS
        <4> QED
          BY <4>1, <4>2
      <3> DEFINE at == CASE task = "write" -> "resume" [] task = "copy" -> "stage"
                         [] task = "pin" -> "pin" [] task = "delete" -> "list"
                 part == CASE task = "write" -> "resume" [] task = "copy" -> "stage"
                           [] task = "pin" -> "pin" [] task = "delete" -> "end"
      <3>2. First(task, at, part)
        BY LifecycleAssumption DEF First
      <3>3. session' = [session EXCEPT ![c] = Begun(c, task, i, at, part, todo)]
        BY <3>1
      <3> HIDE DEF at, part
      <3>4. /\ \A e \in Catalogs \ {c} : session'[e] = session[e]
            /\ session'[c].at = at /\ session'[c].part = part
        <4>1. Started(c, task, i, at, part, todo)
          BY <1>1, <3>2, <3>3, BegunIs
        <4> QED
          BY <4>1 DEF Started
      <3>5. holder' = c
        BY <2>2 DEF Begin
      <3> QED
        BY <3>2, <3>4, <3>5 DEF Alone, Owner, Busy, Projecting, First
    <2> QED
      BY <2>1, <2>2
  <1> QED
    BY <1>1, <1>2, RestSide

\* A lease that runs out changes nothing here: only who owns the archive counts.
LEMMA LapseSide ==
  ASSUME SidecarInv, Lapse \/ UNCHANGED vars
  PROVE  SidecarInv'
  <1>1. UNCHANGED <<fence, holder, records, sidecar, session>>
    BY DEF Lapse, vars, archive
  <1>2. \A c \in Catalogs : Owner(c)' = Owner(c)
    BY <1>1 DEF Owner
  <1>3. ASSUME NEW c \in Catalogs PROVE Projects(c)' /\ Minds(c)'
    <2>1. Projects(c) /\ Minds(c)
      BY DEF SidecarInv
    <2>2. Behind(c)' = Behind(c) /\ Succeeds(c)' = Succeeds(c)
      BY <1>1 DEF Behind, Succeeds, Newer, ThereFor
    <2>3. Gone(c)' => Gone(c)
      BY <1>1, <1>2 DEF Gone, NotFor
    <2> QED
      BY <1>1, <1>2, <2>1, <2>2, <2>3 DEF Projects, Minds, NotFor, ThereFor, Before
  <1>4. ASSUME NEW c \in Catalogs, NEW e \in Catalogs PROVE Agree(c, e)'
    BY <1>1, <1>2 DEF SidecarInv, Agree
  <1>5. ASSUME NEW i \in Ids PROVE Follows(i)'
    BY <1>1 DEF SidecarInv, Follows, Known, Published, ThereFor
  <1> QED
    BY <1>3, <1>4, <1>5 DEF SidecarInv

-----------------------------------------------------------------------------
(* Steps on the way to a sidecar.                                          *)

\* What a projection has in hand stays.
LEMMA AgreeKept ==
  ASSUME SidecarInv, NEW c \in Catalogs, UNCHANGED records, Alone(c), Owner(c)' => Owner(c),
         session'[c].id = session[c].id, session'[c].draft = session[c].draft,
         session[c].at \in Projecting, session'[c].at \in Projecting,
         session'[c].at \in {"project", "authorise"} =>
           session[c].at \in {"project", "authorise"},
         NEW e \in Catalogs
  PROVE  Agree(c, e)' /\ Agree(e, c)'
  <1>1. CASE e = c
    BY <1>1 DEF Agree, Projecting
  <1>2. CASE e # c
    <2>1. session'[e] = session[e] /\ (Owner(e)' => Owner(e)) /\ Agree(c, e) /\ Agree(e, c)
      BY <1>2 DEF SidecarInv, Alone
    <2>2. session'[c].at # "drop sidecar"
      BY DEF Projecting
    <2>3. Agree(c, e)'
      BY <2>1, <2>2 DEF Agree
    <2>4. Agree(e, c)'
      BY <2>1, <2>2 DEF Agree
    <2> QED
      BY <2>3, <2>4
  <1> QED
    BY <1>1, <1>2

\* A sidecar that a projection finds is of the same snapshot, and older, or just the same.
LEMMA ProjectSide ==
  ASSUME LifecycleInv, SidecarInv, NEW c \in Catalogs, Project(c)
  PROVE  SidecarInv'
  <1> DEFINE s == session[c]
             d == session[c].draft
             i == session[c].id
             x == sidecar[session[c].id]
  <1>1. /\ s.at = "project" /\ ReservationStays /\ UNCHANGED <<records, sidecar>>
        /\ session' = [session EXCEPT ![c].at = "authorise", ![c].seen = x]
    BY DEF Project, ReservationStays, archive
  <1>2. /\ TypeOK /\ Knows(c) /\ i \in Ids /\ x \in States /\ d \in States /\ "authorise" \in At
        /\ Projects(c) /\ Minds(c) /\ Follows(i)
    BY CatalogIs, SessionIs DEF TypeOK, SidecarInv, At
  <1> HIDE DEF x
  <1>3. Hands(c, "authorise", i, d, x, s.refs)
    BY <1>1, <1>2, SeenIs
  <1>4. /\ KeepsTask(c) /\ session'[c].at = "authorise" /\ session'[c].part = s.part
        /\ session'[c].id = i /\ session'[c].draft = d /\ session'[c].seen = x
        /\ session'[c].own = s.own /\ session'[c].fence = s.fence
    BY <1>3 DEF Hands, KeepsTask
  <1>5. \A e \in Catalogs : Owner(e)' = Owner(e)
    BY <1>1, <1>4 DEF Owner, ReservationStays, reservation, KeepsTask
  <1>6. Alone(c)
    BY <1>4, <1>5 DEF Alone, KeepsTask
  <1>7. Behind(c) /\ Behind(c)'
    <2>1. Behind(c)
      BY <1>1, <1>2 DEF Projects, Projecting
    <2> QED
      BY <1>1, <1>4, <2>1 DEF Behind
  <1>8. Owner(c) /\ d.published => ThereFor(x, d.fence)
    BY <1>1, <1>2 DEF Projects, x
  <1>9. ASSUME Owner(c) PROVE Succeeds(c)'
    <2>1. records[i] = d /\ d # NoState
      BY <1>1, <1>2, <1>9 DEF Knows
    <2>2. ASSUME x # NoState PROVE x = d \/ Newer(d, x)
      <3>1. /\ d.fence \in Nat /\ d.revision \in Nat /\ x.fence \in Nat /\ x.revision \in Nat
        BY <1>2, <2>1, <2>2, StateIs
      <3>2. /\ x.fence <= d.fence
            /\ x.fence = d.fence => /\ x.revision <= d.revision
                                    /\ x.revision = d.revision => x = d
        BY <1>2, <2>1, <2>2 DEF Follows, Known, x
      <3> QED
        BY <3>1, <3>2 DEF Newer
    <2> QED
      BY <1>4, <1>8, <1>9, <2>2 DEF Succeeds
  <1>10. Projects(c)'
    <2>1. sidecar'[session'[c].id] = x
      BY <1>1, <1>4 DEF x
    <2> QED
      BY <1>1, <1>4, <1>5, <1>7, <1>8, <1>9, <2>1 DEF Projects, ThereFor
  <1>11. Minds(c)'
    BY <1>1, <1>2, <1>4, <1>5 DEF Minds, ThereFor
  <1>12. \A e \in Catalogs : Agree(c, e)' /\ Agree(e, c)'
    BY <1>1, <1>4, <1>5, <1>6, AgreeKept DEF Projecting
  <1> QED
    BY <1>1, <1>4, <1>6, <1>10, <1>11, <1>12, SideFrame

\* Who is authorised owns the archive: the record is the draft, and no one is forgetting it.
LEMMA AuthoriseSide ==
  ASSUME LifecycleInv, SidecarInv, NEW c \in Catalogs, Authorise(c)
  PROVE  SidecarInv'
  <1> DEFINE s == session[c]
             d == session[c].draft
             i == session[c].id
  <1>1. s.at = "authorise" /\ ReservationStays /\ UNCHANGED <<records, sidecar>>
    BY DEF Authorise, Demands, ReservationStays, archive
  <1>2. CASE Fails(c)
    BY <1>1, <1>2, FailsSide
  <1>3. CASE Authority(c) /\ records[i] = d /\ Goes(c, "write sidecar")
    <2>1. /\ TypeOK /\ FenceInv /\ Projects(c) /\ Minds(c) /\ Owner(c) /\ "write sidecar" \in At
          /\ StateUpTo(s.seen, fence)
      BY <1>3, CatalogIs DEF SidecarInv, Authority, At
    <2>2. /\ KeepsTask(c) /\ session'[c].at = "write sidecar" /\ session'[c].part = s.part
          /\ session'[c].id = i /\ session'[c].draft = d /\ session'[c].seen = s.seen
          /\ session'[c].own = s.own /\ session'[c].fence = s.fence
      BY <1>3, <2>1, GoesIs DEF KeepsTask
    <2>3. \A e \in Catalogs : Owner(e)' = Owner(e)
      BY <1>1, <2>2 DEF Owner, ReservationStays, reservation, KeepsTask
    <2>4. Alone(c)
      BY <2>2, <2>3 DEF Alone, KeepsTask
    <2>5. Behind(c) /\ Behind(c)'
      <3>1. Behind(c)
        BY <1>1, <2>1 DEF Projects, Projecting
      <3> QED
        BY <1>1, <2>2, <3>1 DEF Behind
    <2>6. Succeeds(c)'
      <3>1. Succeeds(c)
        BY <1>1, <2>1 DEF Projects
      <3> QED
        BY <2>2, <3>1 DEF Succeeds
    <2>7. s.seen # NoState => s.seen.fence <= s.fence
      BY <2>1 DEF StateUpTo, Owner
    <2>8. ~Gone(c)'
      <3>1. ~NotFor(records'[i], d.fence)
        BY <1>1, <1>3, <2>5 DEF NotFor, Behind
      <3>2. \A e \in Catalogs : Owner(e)' => session'[e].at # "forgetting"
        BY <2>1, <2>2, <2>3 DEF Owner
      <3> QED
        BY <2>2, <3>1, <3>2 DEF Gone
    <2>9. Projects(c)'
      BY <2>2, <2>5, <2>6, <2>7, <2>8 DEF Projects
    <2>10. Minds(c)'
      BY <1>1, <2>1, <2>2, <2>3 DEF Minds, ThereFor
    <2>11. \A e \in Catalogs : Agree(c, e)' /\ Agree(e, c)'
      BY <1>1, <2>2, <2>3, <2>4, AgreeKept DEF Projecting
    <2> QED
      BY <1>1, <2>2, <2>4, <2>9, <2>10, <2>11, SideFrame
  <1> QED
    BY <1>2, <1>3 DEF Authorise, Demands

\* Who deletes a sidecar, or is about to forget its record, owns the archive.
LEMMA RemainingSide ==
  ASSUME LifecycleInv, SidecarInv, NEW c \in Catalogs, Remaining(c)
  PROVE  SidecarInv'
  <1> DEFINE s == session[c]
             x == sidecar[session[c].id]
  <1>1. s.at = "remaining" /\ ReservationStays /\ UNCHANGED <<records, sidecar>>
    BY DEF Remaining, ReservationStays, archive
  <1>2. /\ TypeOK /\ FenceInv /\ Knows(c) /\ s.part \in {"resume", "rotate", "end"}
        /\ x \in States /\ s.id \in Ids /\ {"forget", "drop sidecar"} \subseteq At
        /\ StateUpTo(x, fence)
    BY <1>1, CatalogIs, SessionIs, PlaceIs DEF TypeOK, At, Clearing
  <1>3. CASE Fails(c)
    BY <1>1, <1>3, FailsSide
  <1>4. CASE x = NoState /\ session' = [session EXCEPT ![c].at = "forget", ![c].seen = x]
    <2>1. KeepsTask(c) /\ session'[c].at = "forget" /\ session'[c].part = s.part
      BY <1>2, <1>4, SeenIs DEF Hands
    <2> QED
      BY <1>1, <1>2, <2>1, TaskSide DEF Busy, Projecting
  <1>5. CASE Authority(c) /\ session' = [session EXCEPT ![c].at = "drop sidecar", ![c].seen = x]
    <2>1. /\ KeepsTask(c) /\ session'[c].at = "drop sidecar" /\ session'[c].part = s.part
          /\ session'[c].id = s.id /\ session'[c].draft = s.draft /\ session'[c].seen = x
          /\ session'[c].fence = s.fence
      <3> HIDE DEF x
      <3>1. Hands(c, "drop sidecar", s.id, s.draft, x, s.refs)
        BY <1>2, <1>5, SeenIs
      <3> QED
        BY <3>1 DEF Hands, KeepsTask
    <2>2. \A e \in Catalogs : Owner(e)' = Owner(e)
      BY <1>1, <2>1 DEF Owner, ReservationStays, reservation, KeepsTask
    <2>3. Alone(c)
      BY <2>1, <2>2 DEF Alone, KeepsTask
    <2>4. Owner(c) /\ \A e \in Catalogs \ {c} : ~Owner(e)
      BY <1>2, <1>5, OwnerIs DEF Authority
    <2>5. Minds(c)'
      <3>1. records[s.id] = s.draft /\ s.draft # NoState /\ s.draft.retired
        BY <1>1, <1>2, <2>4 DEF Knows, Clearing
      <3>2. x # NoState => x.fence <= s.fence
        BY <1>2, <2>4 DEF StateUpTo, Owner
      <3> QED
        BY <1>1, <1>2, <2>1, <3>1, <3>2 DEF Minds
    <2>6. Projects(c)'
      BY <2>1 DEF Projects, Projecting
    <2>7. \A e \in Catalogs : Agree(c, e)' /\ Agree(e, c)'
      BY <2>1, <2>2, <2>4 DEF Agree, Projecting
    <2> QED
      BY <1>1, <2>1, <2>3, <2>5, <2>6, <2>7, SideFrame
  <1> QED
    BY <1>3, <1>4, <1>5 DEF Remaining

\* Who is about to forget a record has seen that it has no sidecar.
LEMMA CheckForgetSide ==
  ASSUME LifecycleInv, SidecarInv, NEW c \in Catalogs, CheckForget(c)
  PROVE  SidecarInv'
  <1> DEFINE s == session[c]
  <1>1. s.at = "forget" /\ ReservationStays /\ UNCHANGED <<records, sidecar>>
    BY DEF CheckForget, Demands, ReservationStays, archive
  <1>2. /\ TypeOK /\ s.part \in {"resume", "rotate", "end"} /\ "forgetting" \in At
    BY <1>1, CatalogIs, PlaceIs DEF At, Clearing
  <1>3. CASE Fails(c)
    BY <1>1, <1>3, FailsSide
  <1>4. CASE Empty(s.id) /\ Goes(c, "forgetting")
    <2>1. /\ KeepsTask(c) /\ session'[c].at = "forgetting" /\ session'[c].part = s.part
          /\ session'[c].id = s.id
      BY <1>2, <1>4, GoesIs
    <2>2. \A e \in Catalogs : Owner(e)' = Owner(e)
      BY <1>1, <2>1 DEF Owner, ReservationStays, reservation, KeepsTask
    <2>3. Alone(c)
      BY <2>1, <2>2 DEF Alone, KeepsTask
    <2>4. sidecar[s.id] = NoState
      BY <1>4 DEF Empty
    <2>5. Minds(c)' /\ Projects(c)'
      BY <1>1, <1>2, <2>1, <2>4 DEF Minds, Projects, Projecting
    <2>6. \A e \in Catalogs : Agree(c, e)' /\ Agree(e, c)'
      BY <2>1 DEF Agree, Projecting
    <2> QED
      BY <1>1, <2>1, <2>3, <2>4, <2>5, <2>6, SideFrame
  <1> QED
    BY <1>3, <1>4 DEF CheckForget, Demands

-----------------------------------------------------------------------------
(* Steps that change a record or a sidecar.                                *)

\* A step about one snapshot says nothing of the others.
LEMMA OneSide ==
  ASSUME SidecarInv, NEW c \in Catalogs, NEW i \in Ids, Alone(c),
         \A j \in Ids \ {i} : records'[j] = records[j] /\ sidecar'[j] = sidecar[j],
         \A e \in Catalogs : session[e].id \in Ids /\ session[e].own \in Ids,
         UNCHANGED records \/ \A e \in Catalogs \ {c} : ~Owner(e)',
         session'[c].at # "forgetting",
         Follows(i)', Projects(c)', Minds(c)',
         \A e \in Catalogs : Agree(c, e)' /\ Agree(e, c)',
         \A e \in Catalogs \ {c} : session[e].id = i => Projects(e)' /\ Minds(e)',
         \A e \in Catalogs \ {c} : Owner(e)' /\ session[e].own = i => Minds(e)'
  PROVE  SidecarInv'
  <1>1. ASSUME NEW j \in Ids, j # i PROVE Follows(j)'
    BY <1>1 DEF SidecarInv, Follows, Known, Published, ThereFor
  <1>2. ASSUME NEW e \in Catalogs, e # c, session[e].id # i PROVE Projects(e)'
    <2>1. /\ Projects(e) /\ session'[e] = session[e] /\ (Owner(e)' => Owner(e))
          /\ records'[session[e].id] = records[session[e].id]
          /\ sidecar'[session[e].id] = sidecar[session[e].id]
      BY <1>2 DEF SidecarInv, Alone
    <2>2. Behind(e) => Behind(e)'
      BY <2>1 DEF Behind
    <2>3. Succeeds(e) => Succeeds(e)'
      BY <2>1 DEF Succeeds
    <2>4. Gone(e)' => Gone(e)
      <3>1. \A d \in Catalogs : Owner(d)' /\ session'[d].at = "forgetting" => d # c
        OBVIOUS
      <3> QED
        BY <2>1, <3>1 DEF Gone, NotFor, Alone
    <2> QED
      BY <2>1, <2>2, <2>3, <2>4 DEF Projects, NotFor, ThereFor
  <1>3. ASSUME NEW e \in Catalogs, e # c, session[e].id # i, Owner(e)' => session[e].own # i
        PROVE  Minds(e)'
    <2>1. /\ Minds(e) /\ session'[e] = session[e] /\ (Owner(e)' => Owner(e))
          /\ records'[session[e].id] = records[session[e].id]
          /\ sidecar'[session[e].id] = sidecar[session[e].id]
          /\ Owner(e)' => sidecar'[session[e].own] = sidecar[session[e].own]
      BY <1>3 DEF SidecarInv, Alone
    <2>2. session'[e].at = "drop sidecar" =>
            /\ session'[e].seen # NoState => session'[e].seen.fence <= session'[e].fence
            /\ session'[e].draft # NoState /\ session'[e].draft.retired
            /\ \/ records'[session'[e].id] = session'[e].draft
               \/ records'[session'[e].id] = NoState
               \/ records'[session'[e].id].fence > session'[e].fence
      BY <2>1 DEF Minds
    <2>3. Owner(e)' => ~(session'[e].at = "forgetting") \/ sidecar'[session'[e].id] = NoState
                       \/ ~sidecar'[session'[e].id].published
      BY <2>1 DEF Minds
    <2>4. Owner(e)' =>
            /\ session'[e].part = "make" => ThereFor(sidecar'[session'[e].own], session'[e].fence)
            /\ session'[e].part = "stage" /\ session'[e].at = "commit" =>
                 Before(sidecar'[session'[e].own], session'[e].fence)
      BY <2>1, ZenonT(60) DEF Minds, ThereFor, Before
    <2> QED
      BY <2>2, <2>3, <2>4 DEF Minds, ThereFor, Before
  <1>4. ASSUME NEW d \in Catalogs, NEW e \in Catalogs, d # c, e # c PROVE Agree(d, e)'
    <2>1. /\ Agree(d, e) /\ session'[e] = session[e] /\ session'[d] = session[d]
          /\ (Owner(d)' => Owner(d)) /\ (UNCHANGED records \/ ~Owner(d)')
      BY <1>4 DEF SidecarInv, Alone
    <2> QED
      BY <2>1 DEF Agree
  <1> QED
    BY <1>1, <1>2, <1>3, <1>4 DEF SidecarInv

\* A transition: what its catalog projects is the record, which is no stage of the snapshot's
\* past, and the others' projections are left behind.
LEMMA CommittedSide ==
  ASSUME LifecycleInv, SidecarInv, NEW c \in Catalogs, NEW i \in Ids, i = session[c].id,
         session[c].at = "commit", Owner(c), OnlyRecord(i), Transitions(c), UNCHANGED <<reservation, sidecar>>
  PROVE  SidecarInv'
  <1> DEFINE s == session[c]
             r == records[i]
             new == records'[i]
             x == sidecar[i]
  <1>1. /\ TypeOK /\ FenceInv /\ s.part \in Part /\ i \in Ids /\ r \in States /\ x \in States
        /\ new \in State /\ s.fence \in Nat /\ InPlace(s) /\ StateUpTo(r, fence)
        /\ Projects(c) /\ Minds(c) /\ Follows(i) /\ "project" \in At
    BY CatalogIs, SessionIs DEF TypeOK, SidecarInv, Transitions, At
  <1>2. s.fence = fence /\ \A e \in Catalogs \ {c} : ~Owner(e) /\ (Active(e) => session[e].fence < s.fence)
    BY <1>1, OwnerIs
  <1>3. /\ KeepsTask(c) /\ session'[c].id = i
        /\ \/ session'[c].at = "project" /\ session'[c].draft = new /\ session'[c].part = s.part
           \/ session'[c].at \in {"resume", "rollback", "leave"} /\ session'[c].part \in {"resume", "end"}
    <2>1. CASE Fails(c)
      BY <1>1, <2>1, FailsIs
    <2>2. CASE session' = [session EXCEPT ![c].at = "project", ![c].draft = new]
      <3> HIDE DEF new
      <3>1. new \in States
        BY <1>1 DEF States
      <3>2. Hands(c, "project", i, new, s.seen, s.refs)
        BY <1>1, <2>2, <3>1, DraftOfIs
      <3> QED
        BY <3>2 DEF Hands, KeepsTask
    <2> QED
      BY <2>1, <2>2 DEF Transitions
  <1>4. \A e \in Catalogs : Owner(e)' = Owner(e)
    BY <1>3 DEF Owner, reservation, KeepsTask
  <1>5. Alone(c)
    BY <1>3, <1>4 DEF Alone, KeepsTask
  <1>6. /\ new # NoState /\ new.fence \in Nat /\ new.revision \in Nat
        /\ s.part = "stage" => r = NoState /\ ~new.published /\ new.fence = s.fence
        /\ s.part = "make" => ~r.published /\ new.published /\ new.fence = s.fence
        /\ s.part \notin {"stage", "make"} => new.published = r.published
        /\ s.part \notin {"stage", "make", "pin"} => new.retired
        /\ s.part # "stage" => /\ r # NoState /\ ~r.retired /\ new.fence = r.fence
                               /\ r.revision \in Nat /\ new.revision > r.revision
    BY <1>1, NoStateAssumption DEF Transitions, State, Version, Part
  <1> DEFINE own == s.own = i
  <1>7. s.part \in {"stage", "make"} => own
    BY <1>1 DEF InPlace, Transit
  <1>8. new.fence <= s.fence
    BY <1>1, <1>2, <1>6 DEF StateUpTo
  <1>9. new.published => ThereFor(x, new.fence)
    <2> SUFFICES ASSUME new.published PROVE ThereFor(x, new.fence)
      OBVIOUS
    <2>1. CASE s.part = "make"
      BY <1>1, <1>6, <1>7, <2>1 DEF Minds
    <2>2. CASE s.part # "make"
      <3>1. r # NoState /\ r.published /\ ~r.retired /\ new.fence = r.fence
        BY <1>6, <2>2
      <3> QED
        BY <1>1, <3>1 DEF Follows, Published, Known
    <2> QED
      BY <2>1, <2>2
  <1> DEFINE Other(e) == e \in Catalogs \ {c} /\ session[e].id = i
  <1>10. ASSUME NEW e, Other(e)
         PROVE  /\ e \in Catalogs \ {c} /\ session'[e] = session[e] /\ ~Owner(e)' /\ Minds(e)
                /\ Projects(e) /\ session[e].fence \in Nat
                /\ session[e].at # "out" => session[e].fence < s.fence
                /\ session[e].draft \in States
    BY <1>1, <1>2, <1>3, <1>4, <1>10, SessionIs DEF SidecarInv, KeepsTask, Active
  <1>11. ASSUME NEW e, Other(e), session[e].at \in Projecting
         PROVE  /\ Behind(e)' /\ session[e].draft.fence \in Nat
                /\ new.fence = session[e].draft.fence => new.published = session[e].draft.published
    <2> DEFINE d == session[e].draft
    <2>1. Behind(e) /\ session[e].fence < s.fence /\ session'[e] = session[e]
      BY <1>10, <1>11 DEF Projects, Projecting
    <2>2. /\ d # NoState /\ d.fence <= session[e].fence /\ d.fence \in Nat /\ d.revision \in Nat
          /\ session[e].fence \in Nat
      BY <1>10, <1>11, <2>1, StateIs DEF Behind
    <2>3. new.fence = d.fence => new.published = d.published
      BY <1>1, <1>6, <1>11, <2>1, <2>2 DEF Behind
    <2>4. \/ new = d \/ new.fence > session[e].fence
          \/ new.fence = d.fence /\ new.revision > d.revision
      <3>1. CASE s.part = "stage"
        BY <1>6, <2>1, <3>1
      <3>2. CASE s.part # "stage"
        BY <1>6, <1>11, <2>1, <2>2, <3>2 DEF Behind
      <3> QED
        BY <3>1, <3>2
    <2> QED
      BY <1>6, <1>11, <2>1, <2>2, <2>3, <2>4 DEF Behind
  <1>12. ASSUME NEW e, Other(e), session[e].at = "drop sidecar"
         PROVE  new.fence > session[e].fence
    <2>1. r = session[e].draft \/ r = NoState \/ r.fence > session[e].fence
      BY <1>10, <1>12 DEF Minds
    <2>2. session[e].draft # NoState /\ session[e].draft.retired
      BY <1>10, <1>12 DEF Minds
    <2>3. session[e].fence < s.fence
      BY <1>10, <1>12
    <2> QED
      BY <1>6, <2>1, <2>2, <2>3
  <1>13. ASSUME NEW e, Other(e) PROVE Projects(e)' /\ Minds(e)'
    <2>1. Succeeds(e) => Succeeds(e)'
      BY <1>10, <1>13 DEF Succeeds
    <2>2. Gone(e)' => Gone(e)
      <3>1. \A d \in Catalogs : ~(Owner(d)' /\ session'[d].at = "forgetting")
        BY <1>2, <1>3, <1>4
      <3>2. NotFor(new, session[e].draft.fence) => NotFor(r, session[e].draft.fence)
        BY <1>6 DEF NotFor
      <3> QED
        BY <1>10, <1>13, <3>1, <3>2 DEF Gone
    <2>3. Projects(e)'
      BY <1>10, <1>11, <1>13, <2>1, <2>2 DEF Projects, NotFor
    <2>4. Minds(e)'
      BY <1>10, <1>12, <1>13 DEF Minds
    <2> QED
      BY <2>3, <2>4
  <1>14. Projects(c)'
    <2>1. session'[c].at = "project" => Behind(c)'
      BY <1>3, <1>6, <1>8 DEF Behind, KeepsTask
    <2> QED
      BY <1>3, <1>9, <2>1 DEF Projects, Projecting, ThereFor
  <1>15. Minds(c)'
    BY <1>1, <1>3, <1>4 DEF Minds, KeepsTask, ThereFor
  <1>16. ASSUME NEW e \in Catalogs PROVE Agree(c, e)' /\ Agree(e, c)'
    <2>1. CASE e = c
      BY <1>3, <2>1 DEF Agree, Projecting
    <2>2. CASE e # c /\ session[e].id # i
      BY <1>3, <2>2 DEF Agree, KeepsTask
    <2>3. CASE Other(e)
      <3>1. session'[c].at \in Projecting /\ session'[e].at \in Projecting =>
              /\ session'[c].draft = new
              /\ new.fence = session'[e].draft.fence => new.published = session'[e].draft.published
        <4>1. session'[e] = session[e]
          BY <1>10, <2>3
        <4>2. session[e].at \in Projecting =>
                (new.fence = session[e].draft.fence => new.published = session[e].draft.published)
          BY <1>11, <2>3
        <4> QED
          BY <1>3, <4>1, <4>2 DEF Projecting
      <3>2. session'[e].at = "drop sidecar" => records'[i].fence > session'[e].fence
        BY <1>10, <1>12, <2>3
      <3>3. Agree(c, e)'
        BY <1>3, <3>1, <3>2 DEF Agree
      <3>4. Agree(e, c)'
        BY <1>3, <1>10, <2>3, <3>1 DEF Agree
      <3> QED
        BY <3>3, <3>4
    <2> QED
      BY <2>1, <2>2, <2>3
  <1>17. Follows(i)'
    <2>1. Published(i)' => ThereFor(x, new.fence)
      BY <1>9 DEF Published, Known
    <2>2. ASSUME x # NoState
          PROVE  /\ x.fence <= new.fence
                 /\ IF new.fence = x.fence THEN x.revision < new.revision ELSE ~x.published
      <3>1. x.fence \in Nat /\ x.revision \in Nat
        BY <1>1, <2>2, StateIs
      <3>2. CASE s.part = "stage"
        <4>1. x.fence < s.fence
          BY <1>1, <1>7, <2>2, <3>2 DEF Minds, Before
        <4>2. ~x.published
          BY <1>1, <1>6, <2>2, <3>2 DEF Follows, Known
        <4> QED
          BY <1>1, <1>6, <3>1, <3>2, <4>1, <4>2
      <3>3. CASE s.part # "stage"
        BY <1>1, <1>6, <2>2, <3>1, <3>3 DEF Follows, Known
      <3> QED
        BY <3>2, <3>3
    <2>3. x # NoState => x.revision \in Nat
      BY <1>1, StateIs
    <2>4. x # NoState /\ new.fence = x.fence => x.revision <= new.revision /\ x.revision # new.revision
      BY <1>6, <2>2, <2>3
    <2> QED
      BY <1>6, <2>1, <2>2, <2>4 DEF Follows, Known, ThereFor
  <1>18. \A e \in Catalogs : session[e].id \in Ids /\ session[e].own \in Ids
    BY <1>1, SessionIs
  <1>19. /\ \A j \in Ids \ {i} : records'[j] = records[j] /\ sidecar'[j] = sidecar[j]
         /\ session'[c].at # "forgetting"
         /\ \A e \in Catalogs \ {c} : ~Owner(e)'
    BY <1>2, <1>3, <1>4 DEF OnlyRecord
  <1>20. \A e \in Catalogs \ {c} : session[e].id = i => Projects(e)' /\ Minds(e)'
    BY <1>13
  <1> QED
    BY <1>1, <1>5, <1>14, <1>15, <1>16, <1>17, <1>18, <1>19, <1>20, OneSide
\* transition(): its write to control.json.
LEMMA CommitSide ==
  ASSUME LifecycleInv, SidecarInv, NEW c \in Catalogs, Commit(c)
  PROVE  SidecarInv'
  <1>1. session[c].at = "commit" /\ ReservationStays /\ UNCHANGED sidecar /\ session[c].id \in Ids
    BY CatalogIs, SessionIs DEF Commit, ReservationStays, reservation
  <1>2. CASE Fails(c) /\ UNCHANGED records
    BY <1>1, <1>2, FailsSide
  <1>3. CASE Owner(c) /\ OnlyRecord(session[c].id) /\ Transitions(c)
    <2> DEFINE i == session[c].id
    <2>1. i \in Ids /\ i = session[c].id /\ OnlyRecord(i)
      BY <1>1, <1>3
    <2> HIDE DEF i
    <2> QED
      BY <1>1, <1>3, <2>1, CommittedSide DEF ReservationStays
  <1> QED
    BY <1>2, <1>3, CommitIs

\* A catalog goes on, to nothing that is about sidecars.
Onward(c) ==
  /\ KeepsTask(c) /\ session'[c].at \notin Busy \cup {"commit"}
  /\ session'[c].part = "make" => session[c].part = "stage"

\* So it does after a projection, after the deletion of a sidecar, when a record is forgotten,
\* and after an exception.
LEMMA OnwardIs ==
  ASSUME TypeOK, NEW c \in Catalogs, InPlace(session[c]),
         \/ Fails(c)
         \/ Projected(c) /\ session[c].at = "write sidecar"
         \/ Retired(c) /\ session[c].at = "forgetting"
         \/ Goes(c, "forget") /\ session[c].at = "drop sidecar"
  PROVE  Onward(c)
  <1> DEFINE s == session[c]
  <1>1. s.part \in Part /\ At \ (Busy \cup {"commit"}) \subseteq At
        /\ {"check data", "rotate", "leave", "delete", "resume", "rollback", "forget"}
             \subseteq At \ (Busy \cup {"commit"})
        /\ {"make", "rotate", "end", "resume"} \subseteq Part
    BY SessionIs DEF At, Busy, Projecting, Part
  <1>2. ASSUME NEW at \in At \ (Busy \cup {"commit"}), NEW part \in Part, GoesIn(c, at, part),
               part = "make" => s.part = "stage"
        PROVE  Onward(c)
    BY <1>2, GoesInIs, ZenonT(60) DEF Onward
  <1>3. ASSUME NEW at \in At \ (Busy \cup {"commit"}), Goes(c, at), s.part # "make"
        PROVE  Onward(c)
    BY <1>3, GoesIs DEF Onward
  <1>4. CASE Fails(c)
    <2>1. KeepsTask(c) /\ session'[c].at \in {"resume", "rollback", "leave"}
          /\ session'[c].part \in {"resume", "end"}
      BY <1>4, FailsIs
    <2> QED
      BY <1>1, <2>1 DEF Onward
  <1>5. CASE Projected(c) /\ s.at = "write sidecar"
    <2>1. s.part = "make" => s.task \in {"write", "copy"}
      BY DEF InPlace
    <2>2. \/ GoesIn(c, "check data", "make") /\ s.part = "stage"
          \/ GoesIn(c, "rotate", "rotate") \/ GoesIn(c, "leave", "end")
          \/ Goes(c, "delete") /\ s.part # "make"
      BY <1>5, <2>1 DEF Projected
    <2> QED
      BY <1>1, <1>2, <1>3, <2>2
  <1>6. CASE Retired(c) /\ s.at = "forgetting"
    <2>1. \/ GoesIn(c, "resume", "resume") \/ GoesIn(c, "rotate", "rotate")
          \/ GoesIn(c, "leave", "end")
      BY <1>6 DEF Retired
    <2> QED
      BY <1>1, <1>2, <2>1
  <1>7. CASE Goes(c, "forget") /\ s.at = "drop sidecar"
    <2>1. s.part \in {"resume", "rotate", "end"}
      BY <1>7, PlaceIs DEF Clearing
    <2> QED
      BY <1>1, <1>3, <1>7, <2>1
  <1> QED
    BY <1>4, <1>5, <1>6, <1>7

\* One sidecar changes, at the hand of a catalog that writes it, or of one that deletes it.
OnlySidecar(i, state) ==
  sidecar'[i] = state /\ \A j \in Ids \ {i} : sidecar'[j] = sidecar[j]

Writing(c) == session[c].at = "write sidecar"
Dropping(c) == session[c].at = "drop sidecar"

\* A write of a sidecar, however late: it follows the record, unless that has been deleted, and
\* then it is not of a published snapshot.
LEMMA WrittenSide ==
  ASSUME LifecycleInv, SidecarInv, NEW c \in Catalogs, NEW i \in Ids, i = session[c].id,
         Writing(c), sidecar[i] = session[c].seen, OnlySidecar(i, session[c].draft), UNCHANGED <<reservation, records>>, Onward(c)
  PROVE  SidecarInv'
  <1> DEFINE s == session[c]
             d == session[c].draft
             r == records[i]
             x == sidecar[i]
  <1>1. /\ TypeOK /\ FenceInv /\ s.part \in Part /\ r \in States /\ x \in States /\ d \in States
        /\ s.fence \in Nat /\ InPlace(s) /\ Staged(s) /\ Active(c)
        /\ Projects(c) /\ Minds(c) /\ Follows(i)
    BY CatalogIs, SessionIs DEF TypeOK, SidecarInv, Active, Writing
  <1>2. sidecar'[i] = d /\ \A j \in Ids \ {i} : sidecar'[j] = sidecar[j]
    BY DEF OnlySidecar
  <1>3. /\ KeepsTask(c) /\ session'[c].own = s.own /\ session'[c].fence = s.fence
        /\ session'[c].at \notin Busy \cup {"commit"}
        /\ session'[c].part = "make" => s.part = "stage"
    BY DEF Onward, KeepsTask
  <1>4. \A e \in Catalogs : Owner(e)' = Owner(e)
    BY <1>3 DEF Owner, reservation, KeepsTask
  <1>5. Alone(c)
    BY <1>3, <1>4 DEF Alone, KeepsTask
  <1>6. /\ Behind(c) /\ Succeeds(c)
        /\ d.published => ~Gone(c)
    BY <1>1 DEF Projects, Projecting, Succeeds, ThereFor, NotFor, Writing
  <1>7. /\ d # NoState /\ d.fence \in Nat /\ d.revision \in Nat /\ d.fence <= s.fence
        /\ r # NoState => r.fence \in Nat /\ r.revision \in Nat
        /\ x # NoState => x.fence \in Nat /\ x.revision \in Nat /\ x.fence <= d.fence
    <2>1. d # NoState /\ d.fence <= s.fence
      BY <1>6 DEF Behind
    <2>2. d.fence \in Nat /\ d.revision \in Nat
      BY <1>1, <2>1, StateIs
    <2>3. x # NoState => x.fence \in Nat /\ x.revision \in Nat
      BY <1>1, StateIs
    <2>4. x # NoState => x = d \/ Newer(d, x)
      BY <1>6 DEF Succeeds
    <2>5. x # NoState => x.fence <= d.fence
      <3> HIDE DEF d, x
      <3> QED
        BY <2>2, <2>3, <2>4 DEF Newer
    <2>6. r # NoState => r.fence \in Nat /\ r.revision \in Nat
      BY <1>1, StateIs
    <2> QED
      BY <2>1, <2>2, <2>3, <2>5, <2>6
  <1>8. \/ r = d \/ r = NoState \/ r.fence > s.fence
        \/ r.fence = d.fence /\ r.revision > d.revision
    BY <1>6 DEF Behind
  <1>9. r # NoState /\ ThereFor(x, r.fence) => ThereFor(d, r.fence)
    <2> SUFFICES ASSUME r # NoState, x # NoState, x.fence = r.fence PROVE d.fence = r.fence
      BY <1>7 DEF ThereFor
    <2>1. r.fence <= d.fence /\ d.fence <= s.fence /\ d.fence \in Nat /\ r.fence \in Nat
      BY <1>7
    <2>2. ~(r.fence > s.fence)
      BY <1>1, <2>1
    <2> QED
      BY <1>8, <2>2
  <1>10. ASSUME NEW e \in Catalogs \ {c}
         PROVE  /\ session'[e] = session[e] /\ Owner(e)' = Owner(e) /\ Minds(e) /\ Projects(e)
                /\ Knows(e) /\ InPlace(session[e]) /\ session[e].own \in Ids
                /\ Owner(e) => session[e].fence \in Nat /\ d.fence < session[e].fence
    <2>1. Owner(e) => s.fence < session[e].fence /\ session[e].fence \in Nat
      BY <1>1, OwnerIs
    <2>2. Owner(e) => d.fence < session[e].fence
      BY <1>1, <1>7, <2>1
    <2> QED
      BY <1>1, <1>3, <1>4, <2>1, <2>2, CatalogIs, SessionIs DEF SidecarInv, KeepsTask
  <1>11. ASSUME NEW e \in Catalogs \ {c}, session[e].id = i PROVE Projects(e)'
    <2> DEFINE f == session[e].draft
    <2>1. Behind(e) => Behind(e)'
      BY <1>10, <1>11 DEF Behind
    <2>2. Succeeds(e) => Succeeds(e)'
      BY <1>10, <1>11 DEF Succeeds
    <2>3. ASSUME Owner(e), session[e].at \in {"project", "authorise"}, f.published
          PROVE  ThereFor(d, f.fence)
      <3>1. ThereFor(x, f.fence)
        BY <1>10, <1>11, <2>3 DEF Projects
      <3>2. r = f /\ r # NoState
        BY <1>10, <1>11, <2>3 DEF Knows
      <3> QED
        BY <1>9, <3>1, <3>2
    <2>4. Gone(e)' => Gone(e)
      <3>1. session'[c].at # "forgetting"
        BY <1>3 DEF Busy
      <3> QED
        BY <1>4, <1>10, <1>11, <3>1 DEF Gone
    <2>5. ASSUME session[e].at = "write sidecar", f.published, Gone(e) PROVE NotFor(d, f.fence)
      <3> SUFFICES ASSUME d.fence = f.fence PROVE FALSE
        BY DEF NotFor
      <3>1. Agree(c, e)
        BY DEF SidecarInv
      <3>2. d.published
        BY <1>11, <2>5, <3>1 DEF Agree, Projecting, Writing
      <3>3. Gone(c)
        BY <1>11, <2>5 DEF Gone
      <3> QED
        BY <1>6, <3>2, <3>3
    <2> QED
      BY <1>2, <1>10, <1>11, <2>1, <2>2, <2>3, <2>4, <2>5 DEF Projects
  <1>12. ASSUME NEW e \in Catalogs \ {c} PROVE Minds(e)'
    <2>1. ASSUME Owner(e), session[e].part = "make", session[e].own = i
          PROVE  ThereFor(d, session[e].fence)
      <3>1. ThereFor(x, session[e].fence)
        BY <1>10, <2>1 DEF Minds
      <3>2. r # NoState /\ r.fence = session[e].fence
        <4>1. Made(session[e])
          BY <1>10, <2>1 DEF Knows
        <4> QED
          BY <2>1, <4>1 DEF Made
      <3> QED
        BY <1>9, <3>1, <3>2
    <2>2. ASSUME Owner(e) PROVE Before(d, session[e].fence)
      BY <1>10, <2>2 DEF Before
    <2>3. ASSUME Owner(e), session[e].at = "forgetting", session[e].id = i PROVE ~d.published
      BY <1>6, <2>3 DEF Gone
    <2>4. session[e].own = i \/ sidecar'[session[e].own] = sidecar[session[e].own]
      BY <1>2, <1>10
    <2>5. session[e].id = i \/ sidecar'[session[e].id] = sidecar[session[e].id]
      BY <1>1, <1>2, SessionIs
    <2>6. session'[e].at = "drop sidecar" =>
            /\ session'[e].seen # NoState => session'[e].seen.fence <= session'[e].fence
            /\ session'[e].draft # NoState /\ session'[e].draft.retired
            /\ \/ records'[session'[e].id] = session'[e].draft
               \/ records'[session'[e].id] = NoState
               \/ records'[session'[e].id].fence > session'[e].fence
      BY <1>10 DEF Minds
    <2>7. Owner(e)' /\ session'[e].part = "make" =>
            ThereFor(sidecar'[session'[e].own], session'[e].fence)
      <3> SUFFICES ASSUME Owner(e), session[e].part = "make"
                   PROVE  ThereFor(sidecar'[session[e].own], session[e].fence)
        BY <1>10
      <3>1. CASE session[e].own = i
        BY <1>2, <2>1, <3>1
      <3>2. CASE session[e].own # i
        <4>1. ThereFor(sidecar[session[e].own], session[e].fence)
          BY <1>10 DEF Minds
        <4> QED
          BY <2>4, <3>2, <4>1
      <3> QED
        BY <3>1, <3>2
    <2>8. Owner(e)' /\ session'[e].part = "stage" /\ session'[e].at = "commit" =>
            Before(sidecar'[session'[e].own], session'[e].fence)
      <3> SUFFICES ASSUME Owner(e), session[e].part = "stage", session[e].at = "commit"
                   PROVE  Before(sidecar'[session[e].own], session[e].fence)
        BY <1>10
      <3>1. CASE session[e].own = i
        BY <1>2, <2>2, <3>1
      <3>2. CASE session[e].own # i
        <4>1. Before(sidecar[session[e].own], session[e].fence)
          BY <1>10 DEF Minds
        <4> QED
          BY <2>4, <3>2, <4>1
      <3> QED
        BY <3>1, <3>2
    <2>9. Owner(e)' /\ session'[e].at = "forgetting" =>
            sidecar'[session'[e].id] = NoState \/ ~sidecar'[session'[e].id].published
      <3> SUFFICES ASSUME Owner(e), session[e].at = "forgetting"
                   PROVE  \/ sidecar'[session[e].id] = NoState
                          \/ ~sidecar'[session[e].id].published
        BY <1>10
      <3>1. CASE session[e].id = i
        BY <1>2, <2>3, <3>1
      <3>2. CASE session[e].id # i
        <4>1. sidecar[session[e].id] = NoState \/ ~sidecar[session[e].id].published
          BY <1>10 DEF Minds
        <4> QED
          BY <2>5, <3>2, <4>1
      <3> QED
        BY <3>1, <3>2
    <2> QED
      BY <2>6, <2>7, <2>8, <2>9 DEF Minds, ThereFor, Before
  <1>13. Projects(c)'
    BY <1>3 DEF Projects, Busy, Projecting
  <1>14. Minds(c)'
    <2>1. s.part = "stage" => d.fence = s.fence /\ s.own = i
      BY <1>1 DEF Staged, InPlace, Transit, Writing
    <2> QED
      BY <1>2, <1>3, <1>7, <2>1 DEF Minds, Busy, ThereFor
  <1>15. \A e \in Catalogs : Agree(c, e)' /\ Agree(e, c)'
    BY <1>3 DEF Agree, Busy, Projecting
  <1>16. Follows(i)'
    <2>5. r # NoState => ~(r.fence > s.fence) \/ r.fence > d.fence
      BY <1>1, <1>7
    <2>1. r # NoState /\ r.fence = d.fence =>
            /\ d.revision <= r.revision
            /\ d.revision = r.revision => d = r
      <3> SUFFICES ASSUME r # NoState, r.fence = d.fence
                   PROVE  r = d \/ d.revision < r.revision
        BY <1>7
      <3> QED
        BY <1>7, <1>8, <2>5
    <2>2. r = NoState \/ r.fence # d.fence => ~d.published
      BY <1>6 DEF Gone, NotFor
    <2>3. Published(i) => ThereFor(d, r.fence)
      BY <1>1, <1>9 DEF Follows, Published, Known
    <2>4. r # NoState => d.fence <= r.fence
      <3> SUFFICES ASSUME r # NoState PROVE d.fence <= r.fence
        OBVIOUS
      <3>1. r = d \/ r.fence > d.fence \/ r.fence = d.fence
        BY <1>8, <2>5
      <3> QED
        BY <1>7, <3>1
    <2> QED
      BY <1>2, <2>1, <2>2, <2>3, <2>4 DEF Follows, Known, Published, ThereFor
  <1>17. \A e \in Catalogs : session[e].id \in Ids /\ session[e].own \in Ids
    BY <1>1, SessionIs
  <1>18. session'[c].at # "forgetting" /\ \A j \in Ids \ {i} : records'[j] = records[j]
    BY <1>3 DEF Busy
  <1> QED
    BY <1>2, <1>5, <1>11, <1>12, <1>13, <1>14, <1>15, <1>16, <1>17, <1>18, OneSide

\* The write of a sidecar, which is conditional on the version that was read.
LEMMA WriteSidecarSide ==
  ASSUME LifecycleInv, SidecarInv, NEW c \in Catalogs, WriteSidecar(c)
  PROVE  SidecarInv'
  <1>1. /\ session[c].at = "write sidecar" /\ UNCHANGED <<reservation, records, used>>
        /\ TypeOK /\ InPlace(session[c]) /\ session[c].id \in Ids
    BY CatalogIs, SessionIs DEF WriteSidecar
  <1>2. CASE Fails(c) /\ UNCHANGED sidecar
    BY <1>1, <1>2, FailsSide DEF ReservationStays
  <1>3. CASE /\ sidecar[session[c].id] = session[c].seen
             /\ sidecar' = [sidecar EXCEPT ![session[c].id] = session[c].draft]
             /\ Projected(c) \/ Fails(c)
    <2>1. Onward(c)
      BY <1>1, <1>3, OnwardIs
    <2>2. OnlySidecar(session[c].id, session[c].draft)
      BY <1>1, <1>3 DEF TypeOK, OnlySidecar
    <2> DEFINE i == session[c].id
    <2>3. i \in Ids /\ i = session[c].id /\ sidecar[i] = session[c].seen
      BY <1>1, <1>3
    <2> HIDE DEF i
    <2> QED
      BY <1>1, <2>1, <2>2, <2>3, WrittenSide DEF Writing
  <1> QED
    BY <1>2, <1>3 DEF WriteSidecar, ReplyLost

\* A deletion of a sidecar, however late, is not of one that a later task wrote, nor of a
\* published snapshot.
LEMMA DroppedSide ==
  ASSUME LifecycleInv, SidecarInv, NEW c \in Catalogs, NEW i \in Ids, i = session[c].id,
         Dropping(c), sidecar[i] = session[c].seen, OnlySidecar(i, NoState),
         UNCHANGED <<reservation, records>>, Onward(c)
  PROVE  SidecarInv'
  <1> DEFINE s == session[c]
             d == session[c].draft
             r == records[i]
             x == sidecar[i]
  <1>1. /\ TypeOK /\ FenceInv /\ s.part \in Part /\ r \in States /\ x \in States
        /\ s.fence \in Nat /\ InPlace(s) /\ Active(c)
        /\ Minds(c) /\ Follows(i) /\ s.part # "stage"
    BY CatalogIs, SessionIs, PlaceIs DEF TypeOK, SidecarInv, Active, Dropping, Clearing
  <1>2. sidecar'[i] = NoState /\ \A j \in Ids \ {i} : sidecar'[j] = sidecar[j]
    BY DEF OnlySidecar
  <1>3. /\ KeepsTask(c) /\ session'[c].at \notin Busy \cup {"commit"}
        /\ session'[c].part # "make"
    BY <1>1 DEF Onward
  <1>4. \A e \in Catalogs : Owner(e)' = Owner(e)
    BY <1>3 DEF Owner, reservation, KeepsTask
  <1>5. Alone(c)
    BY <1>3, <1>4 DEF Alone, KeepsTask
  <1>6. /\ d # NoState /\ d.retired
        /\ r = d \/ r = NoState \/ r.fence > s.fence
        /\ x # NoState => x.fence <= s.fence /\ x.fence \in Nat
        /\ r # NoState => r.fence \in Nat
    BY <1>1, StateIs DEF Minds, Dropping
  <1>7. ASSUME NEW e \in Catalogs \ {c}
         PROVE  /\ session'[e] = session[e] /\ Owner(e)' = Owner(e) /\ Minds(e) /\ Projects(e)
                /\ Knows(e) /\ InPlace(session[e]) /\ session[e].own \in Ids
                /\ Owner(e) => session[e].fence \in Nat /\ s.fence < session[e].fence
    <2>1. Owner(e) => s.fence < session[e].fence /\ session[e].fence \in Nat
      BY <1>1, OwnerIs
    <2> QED
      BY <1>1, <1>3, <1>4, <2>1, CatalogIs, SessionIs DEF SidecarInv, KeepsTask
  <1>8. ASSUME NEW e \in Catalogs \ {c}, session[e].id = i PROVE Projects(e)'
    <2> DEFINE f == session[e].draft
    <2>1. Behind(e) => Behind(e)'
      BY <1>7, <1>8 DEF Behind
    <2>2. Succeeds(e) => Succeeds(e)'
      BY <1>7, <1>8 DEF Succeeds
    <2>3. ASSUME Owner(e), session[e].at \in {"project", "authorise"}, f.published PROVE FALSE
      <3>1. ThereFor(x, f.fence)
        BY <1>7, <1>8, <2>3 DEF Projects
      <3>2. r = f /\ r # NoState
        BY <1>7, <1>8, <2>3 DEF Knows
      <3>3. Agree(e, c)
        BY DEF SidecarInv
      <3>4. r.fence > s.fence
        BY <1>8, <2>3, <3>3 DEF Agree, Dropping
      <3> QED
        BY <1>1, <1>6, <3>1, <3>2, <3>4 DEF ThereFor
    <2> QED
      BY <1>2, <1>7, <1>8, <2>1, <2>2, <2>3 DEF Projects, NotFor
  <1>9. ASSUME NEW e \in Catalogs \ {c} PROVE Minds(e)'
    <2>1. ASSUME Owner(e), session[e].part = "make", session[e].own = i PROVE FALSE
      <3>1. ThereFor(x, session[e].fence)
        BY <1>7, <2>1 DEF Minds
      <3> QED
        BY <1>1, <1>6, <1>7, <2>1, <3>1 DEF ThereFor
    <2>2. session[e].own = i \/ sidecar'[session[e].own] = sidecar[session[e].own]
      BY <1>2, <1>7
    <2>3. session[e].id = i \/ sidecar'[session[e].id] = sidecar[session[e].id]
      BY <1>1, <1>2, SessionIs
    <2>4. session'[e].at = "drop sidecar" =>
            /\ session'[e].seen # NoState => session'[e].seen.fence <= session'[e].fence
            /\ session'[e].draft # NoState /\ session'[e].draft.retired
            /\ \/ records'[session'[e].id] = session'[e].draft
               \/ records'[session'[e].id] = NoState
               \/ records'[session'[e].id].fence > session'[e].fence
      BY <1>7 DEF Minds
    <2>5. Owner(e)' /\ session'[e].part = "make" =>
            ThereFor(sidecar'[session'[e].own], session'[e].fence)
      BY <1>7, <2>1, <2>2 DEF Minds
    <2>6. Owner(e)' /\ session'[e].part = "stage" /\ session'[e].at = "commit" =>
            Before(sidecar'[session'[e].own], session'[e].fence)
      BY <1>2, <1>7, <2>2 DEF Minds, Before
    <2>7. Owner(e)' /\ session'[e].at = "forgetting" =>
            sidecar'[session'[e].id] = NoState \/ ~sidecar'[session'[e].id].published
      BY <1>2, <1>7, <2>3 DEF Minds
    <2> QED
      BY <2>4, <2>5, <2>6, <2>7 DEF Minds, ThereFor, Before
  <1>10. Projects(c)'
    BY <1>3 DEF Projects, Busy, Projecting
  <1>11. Minds(c)'
    BY <1>3 DEF Minds, Busy, ThereFor, Before
  <1>12. \A e \in Catalogs : Agree(c, e)' /\ Agree(e, c)'
    BY <1>3 DEF Agree, Busy, Projecting
  <1>13. Follows(i)'
    <2>1. ~Published(i)
      <3> SUFFICES ASSUME Published(i) PROVE FALSE
        OBVIOUS
      <3>1. r # NoState /\ ~r.retired /\ ThereFor(x, r.fence)
        BY <1>1 DEF Follows, Published, Known
      <3>2. r.fence > s.fence
        BY <1>6, <3>1
      <3> QED
        BY <1>1, <1>6, <3>1, <3>2 DEF ThereFor
    <2> QED
      BY <1>2, <2>1 DEF Follows, Known, Published
  <1>14. \A e \in Catalogs : session[e].id \in Ids /\ session[e].own \in Ids
    BY <1>1, SessionIs
  <1>15. session'[c].at # "forgetting" /\ \A j \in Ids \ {i} : records'[j] = records[j]
    BY <1>3 DEF Busy
  <1> QED
    BY <1>2, <1>5, <1>8, <1>9, <1>10, <1>11, <1>12, <1>13, <1>14, <1>15, OneSide

\* The deletion of a sidecar, of exactly the version that was read.
LEMMA DropSidecarSide ==
  ASSUME LifecycleInv, SidecarInv, NEW c \in Catalogs, DropSidecar(c)
  PROVE  SidecarInv'
  <1>1. /\ session[c].at = "drop sidecar" /\ UNCHANGED <<reservation, records, used>>
        /\ TypeOK /\ InPlace(session[c]) /\ session[c].id \in Ids
    BY CatalogIs, SessionIs DEF DropSidecar
  <1>2. CASE Fails(c) /\ UNCHANGED sidecar
    BY <1>1, <1>2, FailsSide DEF ReservationStays
  <1>3. CASE /\ sidecar[session[c].id] = session[c].seen
             /\ sidecar' = [sidecar EXCEPT ![session[c].id] = NoState]
             /\ Goes(c, "forget") \/ Fails(c)
    <2>1. Onward(c)
      BY <1>1, <1>3, OnwardIs
    <2>2. OnlySidecar(session[c].id, NoState)
      BY <1>1, <1>3 DEF TypeOK, OnlySidecar
    <2> DEFINE i == session[c].id
    <2>3. i \in Ids /\ i = session[c].id /\ sidecar[i] = session[c].seen
      BY <1>1, <1>3
    <2> HIDE DEF i
    <2> QED
      BY <1>1, <2>1, <2>2, <2>3, DroppedSide DEF Dropping
  <1> QED
    BY <1>2, <1>3 DEF DropSidecar, ReplyLost

\* A record is forgotten when its sidecar is not of a published snapshot, whatever comes late.
LEMMA ForgottenSide ==
  ASSUME LifecycleInv, SidecarInv, NEW c \in Catalogs, NEW i \in Ids, i = session[c].id,
         session[c].at = "forgetting", Owner(c), OnlyRecord(i), records'[i] = NoState,
         UNCHANGED <<reservation, sidecar>>, Onward(c)
  PROVE  SidecarInv'
  <1> DEFINE s == session[c]
             x == sidecar[i]
  <1>1. /\ TypeOK /\ FenceInv /\ InPlace(s) /\ Minds(c) /\ s.part # "stage"
    BY CatalogIs, SessionIs, PlaceIs DEF TypeOK, SidecarInv, Clearing
  <1>2. /\ KeepsTask(c) /\ session'[c].at \notin Busy \cup {"commit"}
        /\ session'[c].part # "make"
    BY <1>1 DEF Onward
  <1>3. \A e \in Catalogs : Owner(e)' = Owner(e)
    BY <1>2 DEF Owner, reservation, KeepsTask
  <1>4. Alone(c)
    BY <1>2, <1>3 DEF Alone, KeepsTask
  <1>5. ASSUME NEW e \in Catalogs \ {c}
         PROVE  session'[e] = session[e] /\ ~Owner(e)' /\ Minds(e) /\ Projects(e)
    BY <1>1, <1>2, <1>3, OwnerIs DEF SidecarInv, KeepsTask
  <1>6. ASSUME NEW e \in Catalogs \ {c}, session[e].id = i PROVE Projects(e)' /\ Minds(e)'
    <2>1. Behind(e) => Behind(e)'
      BY <1>5, <1>6 DEF Behind
    <2>2. Succeeds(e) => Succeeds(e)'
      BY <1>5, <1>6 DEF Succeeds
    <2>3. Gone(e)
      BY <1>6 DEF Gone
    <2>4. Projects(e)'
      BY <1>5, <1>6, <2>1, <2>2, <2>3 DEF Projects, NotFor
    <2>5. Minds(e)'
      BY <1>5, <1>6 DEF Minds
    <2> QED
      BY <2>4, <2>5
  <1>7. Projects(c)'
    BY <1>2 DEF Projects, Busy, Projecting
  <1>8. Minds(c)'
    BY <1>2 DEF Minds, Busy, ThereFor, Before
  <1>9. \A e \in Catalogs : Agree(c, e)' /\ Agree(e, c)'
    BY <1>2 DEF Agree, Busy, Projecting
  <1>10. Follows(i)'
    <2>1. x = NoState \/ ~x.published
      BY <1>1 DEF Minds
    <2> QED
      BY <2>1 DEF Follows, Known, Published
  <1>11. \A e \in Catalogs : session[e].id \in Ids /\ session[e].own \in Ids
    BY <1>1, SessionIs
  <1>12. /\ session'[c].at # "forgetting" /\ \A e \in Catalogs \ {c} : ~Owner(e)'
         /\ \A j \in Ids \ {i} : records'[j] = records[j] /\ sidecar'[j] = sidecar[j]
    BY <1>2, <1>5 DEF Busy, OnlyRecord
  <1> QED
    BY <1>4, <1>5, <1>6, <1>7, <1>8, <1>9, <1>10, <1>11, <1>12, OneSide

\* The last mutate() of a retirement.
LEMMA ForgetSide ==
  ASSUME LifecycleInv, SidecarInv, NEW c \in Catalogs, Forget(c)
  PROVE  SidecarInv'
  <1>1. /\ session[c].at = "forgetting" /\ UNCHANGED <<reservation, sidecar, objects, used>>
        /\ TypeOK /\ InPlace(session[c]) /\ session[c].id \in Ids
    BY CatalogIs, SessionIs DEF Forget
  <1>2. CASE Fails(c) /\ UNCHANGED records
    BY <1>1, <1>2, FailsSide DEF ReservationStays
  <1>3. CASE /\ Owner(c) /\ records' = [records EXCEPT ![session[c].id] = NoState]
             /\ Retired(c) \/ Fails(c)
    <2>1. Onward(c)
      BY <1>1, <1>3, OnwardIs
    <2> DEFINE i == session[c].id
    <2>2. OnlyRecord(i) /\ records'[i] = NoState
      BY <1>1, <1>3 DEF TypeOK, OnlyRecord
    <2>3. i \in Ids /\ i = session[c].id
      BY <1>1
    <2> HIDE DEF i
    <2> QED
      BY <1>1, <1>3, <2>1, <2>2, <2>3, ForgottenSide
  <1> QED
    BY <1>2, <1>3 DEF Forget, ReplyLost

-----------------------------------------------------------------------------
\* The empty archive.
LEMMA InitSidecar == Init => SidecarInv
  <1> SUFFICES ASSUME Init PROVE SidecarInv
    OBVIOUS
  <1>1. /\ \A i \in Ids : records[i] = NoState /\ sidecar[i] = NoState
        /\ \A c \in Catalogs : session[c] = Idle
    BY DEF Init
  <1>2. \A c \in Catalogs : session[c].at = "out" /\ session[c].part = "end"
    BY <1>1, IdleIs
  <1>3. \A c \in Catalogs : Projects(c) /\ Minds(c)
    BY <1>2 DEF Projects, Minds, Projecting
  <1>4. \A c, e \in Catalogs : Agree(c, e)
    BY <1>2 DEF Agree, Projecting
  <1>5. \A i \in Ids : Follows(i)
    BY <1>1 DEF Follows, Known, Published
  <1> QED
    BY <1>3, <1>4, <1>5 DEF SidecarInv

\* Every step keeps the invariant.
LEMMA NextSidecar == LifecycleInv /\ SidecarInv /\ [Next]_vars => SidecarInv'
  <1> SUFFICES ASSUME LifecycleInv, SidecarInv, [Next]_vars PROVE SidecarInv'
    OBVIOUS
  <1>1. CASE Lapse \/ UNCHANGED vars
    BY <1>1, LapseSide
  <1>2. ASSUME NEW c \in Catalogs, Begin(c) \/ Works(c) \/ Raise(c) \/ Crash(c)
        PROVE  SidecarInv'
    BY <1>2, ClaimSide, OtherSteps, CommitSide, ProjectSide, AuthoriseSide, WriteSidecarSide,
       RemainingSide, DropSidecarSide, CheckForgetSide, ForgetSide DEF Works
  <1> QED
    BY <1>1, <1>2 DEF Next

\* What holds of records, sidecars and the projections on their way to them, at any time.
THEOREM SidecarInvariant == Spec => []SidecarInv
  BY InitSidecar, NextSidecar, LifecycleInvariant, PTL DEF Spec

\* No sidecar is ahead of its record, none disagrees with it at the same revision, and none
\* that outlives its record says that the snapshot was published.
THEOREM SidecarsFollow == Spec => []SidecarFollows
  <1>1. SidecarInv => SidecarFollows
    BY DEF SidecarInv, SidecarFollows, Follows
  <1> QED
    BY <1>1, SidecarInvariant, PTL

\* Only a projection replaces a sidecar.
LEMMA ReplacesBy ==
  ASSUME NEW c \in Catalogs, Begin(c) \/ Works(c) \/ Raise(c) \/ Crash(c)
  PROVE  UNCHANGED sidecar \/ WriteSidecar(c) \/ DropSidecar(c)
  <1>1. CASE Begin(c) \/ Raise(c) \/ Crash(c)
    BY <1>1 DEF Begin, Raise, Crash, archive
  <1>2. CASE Works(c)
    BY <1>2 DEF Works, Leave, Commit, Project, Authorise, WriteSidecar, Stage, CheckData,
                PutData, CheckComplete, PutComplete, Verify, Publish, Rollback, Pin, Resume,
                LookForComplete, Rotate, List, CheckDelete, Delete, Remaining, DropSidecar,
                CheckForget, Forget, Demands, archive
  <1> QED
    BY <1>1, <1>2, SMTT(30)

\* What replaces a sidecar is of a later task, or a later revision, however late it is written.
THEOREM SidecarsNeverBack == Spec => SidecarNeverBack
  <1> DEFINE NeverBack == \A i \in Ids :
               LET old == sidecar[i]  new == sidecar'[i] IN
               NoState \notin {old, new} /\ new # old =>
                 \/ new.fence > old.fence
                 \/ new.fence = old.fence /\ new.revision > old.revision
  <1>1. ASSUME LifecycleInv, SidecarInv, [Next]_vars PROVE [NeverBack]_vars
    <2> SUFFICES ASSUME NEW i \in Ids, sidecar[i] # NoState, sidecar'[i] # NoState,
                        sidecar'[i] # sidecar[i]
                 PROVE  Newer(sidecar'[i], sidecar[i])
      BY DEF Newer
    <2>1. ~UNCHANGED sidecar /\ ~Lapse /\ ~UNCHANGED vars
      BY DEF Lapse, archive, vars
    <2>2. PICK c \in Catalogs : WriteSidecar(c) \/ DropSidecar(c)
      BY <1>1, <2>1, ReplacesBy DEF Next
    <2>3. /\ session[c].id \in Ids /\ TypeOK /\ Projects(c)
      BY <1>1, CatalogIs, SessionIs DEF SidecarInv
    <2>4. CASE WriteSidecar(c)
      <3>1. /\ session[c].at = "write sidecar"
            /\ sidecar[session[c].id] = session[c].seen
            /\ sidecar' = [sidecar EXCEPT ![session[c].id] = session[c].draft]
        BY <2>1, <2>4 DEF WriteSidecar
      <3>2. i = session[c].id /\ sidecar'[i] = session[c].draft
        BY <2>3, <3>1 DEF TypeOK
      <3>3. Succeeds(c)
        BY <2>3, <3>1 DEF Projects
      <3> QED
        BY <3>1, <3>2, <3>3 DEF Succeeds
    <2>5. CASE DropSidecar(c)
      <3>1. sidecar' = [sidecar EXCEPT ![session[c].id] = NoState]
        BY <2>1, <2>5 DEF DropSidecar
      <3>2. sidecar'[i] = NoState \/ sidecar'[i] = sidecar[i]
        BY <2>3, <3>1 DEF TypeOK
      <3> QED
        BY <3>2
    <2> QED
      BY <2>2, <2>4, <2>5
  <1> QED
    BY LifecycleInvariant, SidecarInvariant, <1>1, PTL DEF Spec, SidecarNeverBack

-----------------------------------------------------------------------------
(* Crashes alone: when requests do not fail and no lease lapses under a    *)
(* living holder, catalogs follow one another.                             *)

\* Who is active owns the archive, and its lease runs.
Alive == \A c \in Catalogs : Active(c) => Owner(c) /\ live

\* A snapshot that is known has its sidecar no later than its record, and if it is retired,
\* nothing but what its tombstone lists; of others there is nothing.
Tidy(i) ==
  /\ sidecar[i] # NoState => Known(i) /\ sidecar[i].revision <= records[i].revision
  /\ ~Known(i) => NoObjects(i)
  /\ Known(i) /\ records[i].retired =>
       /\ Observed(i) \subseteq records[i].cleanup
       /\ \A r \in records[i].cleanup : objects[i][r[1]] \in {Absent, r[2]}

\* What a catalog retires is what it found, and goes: first the objects, then the sidecar.
Clears(c) ==
  LET s == session[c]  i == session[c].id IN
  /\ s.at = "commit" /\ s.part \in {"resume", "rotate", "end"} => s.refs = Observed(i)
  /\ s.at \in {"project", "authorise", "write sidecar"} =>
       sidecar[i] = NoState \/ sidecar[i].revision < records[i].revision
  /\ s.at \in {"authorise", "write sidecar", "drop sidecar"} => s.seen = sidecar[i]
  /\ s.at \in {"project", "authorise", "write sidecar"}
     /\ s.part \in {"resume", "rotate", "end"} => Observed(i) \subseteq s.refs /\ s.refs \subseteq records[i].cleanup
  /\ s.at \in {"delete", "delete one"} => Observed(i) \subseteq s.refs /\ s.refs \subseteq records[i].cleanup
  /\ s.at \in {"remaining", "drop sidecar", "forget", "forgetting"} => NoObjects(i)
  /\ s.at \in {"forget", "forgetting"} => sidecar[i] = NoState

\* A snapshot that the next capture leaves alone.
Settled(i) == Published(i) \/ (~records[i].retired /\ objects[i]["COMPLETE"] # Absent)

\* Before a capture stages its own, it has looked, or has still to look, at every snapshot.
Sweeps(c) ==
  LET s == session[c] IN
  /\ s.part = "resume" => \A i \in Ids : Known(i) =>
       /\ records[i].fence < s.fence
       /\ Settled(i) \/ i \in s.todo \/ (s.at # "resume" /\ i = s.id)
  /\ s.part = "resume" /\ s.at \in {"complete?", "list"} => Known(s.id)
  /\ s.at = "complete?" => ~records[s.id].retired
  /\ s.at = "stage" /\ s.task = "write" => \A i \in Ids : Known(i) => Settled(i)

CrashInv ==
  /\ Alive /\ \A i \in Ids : Tidy(i)
  /\ \A c \in Catalogs : Clears(c) /\ Sweeps(c)
-----------------------------------------------------------------------------
(* Frames. *)

\* What a catalog at work knows, when it is alone.
LEMMA CrashIs ==
  ASSUME LifecycleInv, CrashInv, NEW c \in Catalogs, Active(c)
  PROVE  /\ TypeOK /\ FenceInv /\ Owner(c) /\ Authority(c) /\ InPlace(session[c]) /\ Staged(session[c]) /\ Knows(c)
         /\ Clears(c) /\ Sweeps(c) /\ \A i \in Ids : Tidy(i)
         /\ \A e \in Catalogs \ {c} : session[e].at = "out" /\ session[e].part = "end"
  <1>1. TypeOK /\ FenceInv /\ WorkInv /\ Alive /\ Owner(c) /\ live
    BY DEF LifecycleInv, CrashInv, Alive
  <1>2. \A e \in Catalogs \ {c} : ~Owner(e)
    BY <1>1, OwnerIs
  <1>3. \A e \in Catalogs \ {c} : session[e].at = "out" /\ session[e].part = "end"
    BY <1>1, <1>2 DEF Alive, Active, WorkInv, InPlace
  <1> QED
    BY <1>1, <1>3 DEF Authority, WorkInv, CrashInv

\* A catalog that is out.
LEMMA OutIs ==
  ASSUME NEW c \in Catalogs, session[c].at = "out", session[c].part = "end"
  PROVE  Clears(c) /\ Sweeps(c) /\ ~Active(c)
  BY DEF Clears, Sweeps, Active

\* A step of a catalog that stays at work.
LEMMA CrashFrame ==
  ASSUME LifecycleInv, CrashInv, NEW c \in Catalogs, Active(c), ReservationStays, KeepsTask(c),
         \A i \in Ids : Tidy(i)', Clears(c)', Sweeps(c)'
  PROVE  CrashInv'
  <1>1. Owner(c) /\ Authority(c)
        /\ \A e \in Catalogs \ {c} : session[e].at = "out" /\ session[e].part = "end"
    BY CrashIs
  <1>2. \A e \in Catalogs \ {c} : session'[e].at = "out" /\ session'[e].part = "end"
    BY <1>1 DEF KeepsTask
  <1>3. \A e \in Catalogs \ {c} : Clears(e)' /\ Sweeps(e)' /\ ~Active(e)'
    BY <1>2 DEF Clears, Sweeps, Active
  <1>4. Owner(c)' /\ live'
    BY <1>1 DEF Owner, Authority, KeepsTask, ReservationStays, reservation
  <1>5. Alive'
    BY <1>3, <1>4 DEF Alive
  <1> QED
    BY <1>3, <1>5 DEF CrashInv

\* What is tidy stays so while the archive does.
LEMMA TidyKept ==
  ASSUME CrashInv, UNCHANGED archive
  PROVE  \A i \in Ids : Tidy(i)'
  BY DEF CrashInv, Tidy, Known, NoObjects, Observed, archive

\* Nobody is at work.
LEMMA RestCrash ==
  ASSUME CrashInv, UNCHANGED archive,
         \A c \in Catalogs : session'[c].at = "out" /\ session'[c].part = "end"
  PROVE  CrashInv'
  <1>1. \A i \in Ids : Tidy(i)'
    BY TidyKept
  <1>2. \A c \in Catalogs : Clears(c)' /\ Sweeps(c)' /\ ~Active(c)'
    BY DEF Clears, Sweeps, Active
  <1> QED
    BY <1>1, <1>2 DEF CrashInv, Alive

\* Outside its cleanup a task may fail.
LEMMA FailCrash ==
  ASSUME LifecycleInv, CrashInv, NEW c \in Catalogs, Active(c), ReservationStays, Fails(c),
         session[c].part # "resume", \A i \in Ids : Tidy(i)'
  PROVE  CrashInv'
  <1>1. TypeOK /\ session[c].part \in Part
    BY CrashIs, SessionIs
  <1>2. KeepsTask(c) /\ session'[c].at \in {"rollback", "leave"} /\ session'[c].part = "end"
    BY <1>1, FailsIs
  <1>3. Clears(c)' /\ Sweeps(c)'
    BY <1>2 DEF Clears, Sweeps
  <1> QED
    BY <1>2, <1>3, CrashFrame

\* So it may when it has changed nothing.
LEMMA QuietFailCrash ==
  ASSUME LifecycleInv, CrashInv, NEW c \in Catalogs, Active(c), ReservationStays, Fails(c),
         session[c].part # "resume", UNCHANGED archive
  PROVE  CrashInv'
  BY TidyKept, FailCrash

\* Places that ask nothing of the archive.
LEMMA PlainCrash ==
  ASSUME LifecycleInv, CrashInv, NEW c \in Catalogs, Active(c), ReservationStays, KeepsTask(c),
         \A i \in Ids : Tidy(i)', session'[c].part # "resume",
         \/ session'[c].at \in Making \cup {"rollback", "leave", "rotate", "pin", "list"}
         \/ session'[c].at = "commit" /\ session'[c].part \in {"stage", "make", "pin"}
  PROVE  CrashInv'
  <1>1. Clears(c)' /\ Sweeps(c)'
    BY DEF Clears, Sweeps, Making
  <1> QED
    BY <1>1, CrashFrame

\* A transition or a retirement goes on, in cleanup as elsewhere.
LEMMA SweepsOn ==
  ASSUME CrashInv, NEW c \in Catalogs, KeepsTask(c),
         session'[c].part = session[c].part, session'[c].id = session[c].id,
         session'[c].todo = session[c].todo,
         session[c].at # "resume", session'[c].at \in Transit \cup Clearing,
         \A i \in Ids \ {session[c].id} : records'[i] = records[i] /\ objects'[i] = objects[i],
         session[c].part = "resume" /\ Known(session[c].id)' =>
           Known(session[c].id) /\ records'[session[c].id].fence = records[session[c].id].fence
  PROVE  Sweeps(c)'
  <1>1. Sweeps(c) /\ session'[c].fence = session[c].fence
    BY DEF CrashInv, KeepsTask
  <1>2. ASSUME session'[c].part = "resume", NEW i \in Ids, Known(i)'
        PROVE  records'[i].fence < session'[c].fence
               /\ (Settled(i)' \/ i \in session'[c].todo \/ (session'[c].at # "resume" /\ i = session'[c].id))
    <2>1. CASE i = session[c].id
      BY <1>1, <1>2, <2>1 DEF Sweeps, Transit, Clearing
    <2>2. CASE i # session[c].id
      <3>1. records'[i] = records[i] /\ objects'[i] = objects[i]
        BY <2>2
      <3>2. Settled(i) => Settled(i)'
        BY <3>1 DEF Settled, Published, Known
      <3>3. Known(i)
        BY <1>2, <3>1 DEF Known
      <3> QED
        BY <1>1, <1>2, <2>2, <3>1, <3>2, <3>3 DEF Sweeps
    <2> QED
      BY <2>1, <2>2
  <1>3. session'[c].at \notin {"complete?", "list", "stage"}
    BY DEF Transit, Clearing
  <1> QED
    BY <1>2, <1>3 DEF Sweeps

\* Requests do not fail.
LEMMA NoFaults ==
  ASSUME Faults = {}, NEW c \in Catalogs
  PROVE  ~ReplyLost(c) /\ ~Raise(c)
  BY DEF ReplyLost, Raise

\* Where a place is in a task.
LEMMA PartOf ==
  ASSUME NEW s \in Session, InPlace(s)
  PROVE  /\ s.at = "stage" => s.part = "stage"
         /\ s.at \in Making => s.part = "make"
         /\ s.at \in {"resume", "complete?"} => s.part = "resume"
         /\ s.at = "rotate" => s.part = "rotate"
         /\ s.at = "pin" => s.part = "pin"
         /\ s.at = "rollback" => s.part = "end"
         /\ s.at \in {"list"} \cup Clearing => s.part \in {"resume", "rotate", "end"}
  <1>1. s.part \in Part
    BY DEF Session
  <1>2. s.part \in {"resume", "stage", "make", "rotate", "pin", "end"}
    BY <1>1 DEF Part
  <1> QED
    BY <1>2 DEF InPlace, Retiring, Clearing, Transit, Making

-----------------------------------------------------------------------------
(* Transitions. *)

\* The sidecar that is read is the one to replace.
LEMMA ProjectCrash ==
  ASSUME LifecycleInv, CrashInv, NEW c \in Catalogs, Project(c)
  PROVE  CrashInv'
  <1>1. /\ session[c].at = "project" /\ ReservationStays /\ UNCHANGED archive
        /\ session' = [session EXCEPT ![c].at = "authorise", ![c].seen = sidecar[session[c].id]]
    BY DEF Project, ReservationStays
  <1>2. Active(c)
    BY <1>1 DEF Active
  <1>3. /\ TypeOK /\ Clears(c) /\ session[c].id \in Ids /\ "authorise" \in At
        /\ sidecar[session[c].id] \in States
    BY <1>2, CrashIs, SessionIs DEF TypeOK, At
  <1>4. /\ Hands(c, "authorise", session[c].id, session[c].draft, sidecar[session[c].id], session[c].refs)
        /\ session'[c].todo = session[c].todo
    BY <1>1, <1>3, SeenIs
  <1>5. UNCHANGED <<records, sidecar, objects>>
    BY <1>1 DEF archive
  <1>6. Sweeps(c)'
    BY <1>1, <1>4, <1>5, SweepsOn DEF Hands, Transit, Known
  <1>7. Clears(c)'
    BY <1>1, <1>3, <1>4, <1>5 DEF Clears, Hands, Observed
  <1>8. KeepsTask(c)
    BY <1>4 DEF Hands
  <1> QED
    BY <1>1, <1>2, <1>6, <1>7, <1>8, TidyKept, CrashFrame

\* A catalog that is alone is never refused.
LEMMA AuthoriseCrash ==
  ASSUME LifecycleInv, CrashInv, NEW c \in Catalogs, Authorise(c)
  PROVE  CrashInv'
  <1> DEFINE s == session[c]
  <1>1. s.at = "authorise" /\ ReservationStays /\ UNCHANGED archive
    BY DEF Authorise, Demands, ReservationStays
  <1>2. Active(c)
    BY <1>1 DEF Active
  <1>3. /\ TypeOK /\ Clears(c) /\ Knows(c) /\ Authority(c) /\ Owner(c) /\ "write sidecar" \in At
    BY <1>2, CrashIs DEF At
  <1>4. /\ records[s.id] = s.draft
        /\ s.seen = NoState \/ s.seen.revision < s.draft.revision
    BY <1>1, <1>3 DEF Knows, Clears
  <1>5. s.seen = NoState \/ s.seen.revision # s.draft.revision
    <2>1. s.seen \in States /\ s.draft \in States /\ s.draft # NoState
      BY <1>1, <1>3, SessionIs DEF Knows
    <2> QED
      BY <1>4, <2>1 DEF States, State
  <1>6. Goes(c, "write sidecar")
    BY <1>1, <1>3, <1>4, <1>5 DEF Authorise, Demands
  <1>7. /\ KeepsTask(c)
        /\ session'[c].at = "write sidecar" /\ session'[c].part = session[c].part
        /\ session'[c].id = session[c].id /\ session'[c].draft = session[c].draft
        /\ session'[c].seen = session[c].seen /\ session'[c].refs = session[c].refs
        /\ session'[c].todo = session[c].todo
    BY <1>3, <1>6, GoesIs
  <1>8. UNCHANGED <<records, sidecar, objects>>
    BY <1>1 DEF archive
  <1>9. Sweeps(c)'
    BY <1>1, <1>7, <1>8, SweepsOn DEF Transit, Known
  <1>10. Clears(c)'
    BY <1>1, <1>3, <1>7, <1>8 DEF Clears, Observed
  <1> QED
    BY <1>1, <1>2, <1>7, <1>9, <1>10, TidyKept, CrashFrame

\* A transition is recorded, and its sidecar is behind.
LEMMA CommitCrash ==
  ASSUME Faults = {}, LifecycleInv, CrashInv, NEW c \in Catalogs, Commit(c)
  PROVE  CrashInv'
  <1> DEFINE s == session[c]
             r == records[session[c].id]
             base == IF r = NoState THEN 0 ELSE r.revision
  <1>0. PICK i : i = session[c].id
    OBVIOUS
  <1>1. s.at = "commit" /\ ReservationStays /\ UNCHANGED <<sidecar, objects>> /\ Active(c)
    BY DEF Commit, ReservationStays, Active
  <1>2. /\ TypeOK /\ Clears(c) /\ Sweeps(c) /\ Knows(c) /\ Owner(c) /\ InPlace(s)
        /\ \A j \in Ids : Tidy(j)
    BY <1>1, CrashIs
  <1>3. /\ s.id \in Ids /\ s.draft \in States /\ r \in States /\ "project" \in At /\ s.part \in Part
        /\ s \in Session
    BY <1>2, SessionIs DEF At
  <1>4. Drafted(s, r) /\ s.draft \in State
    BY <1>0, <1>1, <1>2, <1>3 DEF Knows, Drafted, States
  <1>5. ~(r # NoState /\ r.retired /\ ~s.draft.retired)
    BY <1>4 DEF Drafted
  <1>6. PICK applied \in Repeats :
          /\ records' = [records EXCEPT ![s.id] = [s.draft EXCEPT !.revision = base + applied]]
          /\ session' = [session EXCEPT ![c].at = "project",
                           ![c].draft = [s.draft EXCEPT !.revision = base + applied]]
    BY <1>2, <1>5, NoFaults DEF Commit
  <1> DEFINE new == [s.draft EXCEPT !.revision = base + applied]
  <1>7. base + applied \in Nat /\ (r # NoState => r.revision < base + applied)
    <2>1. applied \in Nat \ {0}
      BY LifecycleAssumption
    <2>2. base \in Nat /\ (r # NoState => base = r.revision)
      BY <1>3 DEF States, State
    <2> QED
      BY <2>1, <2>2
  <1>8. /\ new \in State /\ new.revision = base + applied /\ new.cleanup = s.draft.cleanup
        /\ new.fence = s.draft.fence /\ new.retired = s.draft.retired
    <2> HIDE DEF base
    <2> QED
      BY <1>4, <1>7 DEF State
  <1>9. records'[i] = new /\ \A j \in Ids \ {i} : records'[j] = records[j]
    BY <1>0, <1>2, <1>3, <1>6 DEF TypeOK
  <1>10. session' = [session EXCEPT ![c].at = "project", ![c].draft = new]
    BY <1>6
  <1> HIDE DEF new, base
  <1>11. /\ Hands(c, "project", i, new, s.seen, s.refs) /\ session'[c].todo = s.todo
    BY <1>0, <1>2, <1>3, <1>8, <1>10, DraftOfIs DEF States
  <1>12. /\ r # NoState => new.fence = r.fence
         /\ s.part \in {"resume", "rotate", "end"} =>
              new.cleanup = Observed(i) /\ new.retired
         /\ s.part \notin {"resume", "rotate", "end"} => ~new.retired
    <2>1. CASE s.part = "stage"
      <3>1. r = NoState /\ ~s.draft.retired
        BY <1>0, <1>1, <1>2, <1>4, <2>1, CrashIs DEF Drafted, Staged, Transit
      <3> QED
        BY <1>8, <2>1, <3>1
    <2>2. CASE s.part \in {"resume", "rotate", "end"}
      <3>1. s.draft = [r EXCEPT !.retired = TRUE, !.cleanup = s.refs] /\ r \in State
            /\ s.refs = Observed(i)
        BY <1>0, <1>1, <1>2, <1>3, <1>4, <2>2 DEF Drafted, Clears, States
      <3>2. s.draft.fence = r.fence /\ s.draft.cleanup = s.refs /\ s.draft.retired
        BY <3>1 DEF State
      <3> QED
        BY <1>8, <2>2, <3>1, <3>2
    <2>3. CASE s.part = "make"
      <3>1. s.draft = [r EXCEPT !.published = TRUE] /\ r \in State /\ ~r.retired
        BY <1>3, <1>4, <2>3 DEF Drafted, States
      <3>2. s.draft.fence = r.fence /\ ~s.draft.retired
        BY <3>1 DEF State
      <3> QED
        BY <1>8, <2>3, <3>2
    <2>4. CASE s.part = "pin"
      <3>1. s.draft = [r EXCEPT !.pinned = TRUE] /\ r \in State /\ ~r.retired
        BY <1>3, <1>4, <2>4 DEF Drafted, States
      <3>2. s.draft.fence = r.fence /\ ~s.draft.retired
        BY <3>1 DEF State
      <3> QED
        BY <1>8, <2>4, <3>2
    <2> QED
      BY <1>3, <2>1, <2>2, <2>3, <2>4 DEF Part
  <1>13. new # NoState /\ (sidecar[i] = NoState \/ sidecar[i].revision < new.revision)
    <2>1. sidecar[i] # NoState => r # NoState /\ sidecar[i].revision <= r.revision
      BY <1>0, <1>2, <1>3 DEF Tidy, Known
    <2>2. sidecar[i] # NoState => sidecar[i].revision \in Nat /\ r.revision \in Nat
      BY <1>0, <1>2, <1>3, <2>1 DEF TypeOK, States, State
    <2> QED
      BY <1>7, <1>8, <2>1, <2>2, NoStateAssumption
  <1>14. ASSUME NEW j \in Ids PROVE Tidy(j)'
    <2>1. CASE j # i
      <3>1. records'[j] = records[j] /\ Tidy(j)
        BY <1>2, <1>9, <2>1
      <3> QED
        BY <1>1, <3>1 DEF Tidy, Known, NoObjects, Observed
    <2>2. CASE j = i
      <3>1. Known(i)' /\ records'[i] = new
        BY <1>9, <1>13 DEF Known
      <3>2. sidecar'[i] # NoState => sidecar'[i].revision <= records'[i].revision
        <4>1. sidecar[i] # NoState => sidecar[i].revision \in Nat /\ new.revision \in Nat
          BY <1>0, <1>2, <1>3, <1>7, <1>8 DEF TypeOK, States, State
        <4> QED
          BY <1>1, <1>13, <3>1, <4>1
      <3>3. new.retired => new.cleanup = Observed(i)
        BY <1>12
      <3>4. \A q \in Observed(i) : objects[i][q[1]] = q[2]
        BY DEF Observed
      <3>5. Observed(i)' = Observed(i)
        BY <1>1 DEF Observed
      <3> QED
        BY <1>1, <2>2, <3>1, <3>2, <3>3, <3>4, <3>5 DEF Tidy
    <2> QED
      BY <2>1, <2>2
  <1>15. Sweeps(c)'
    <2>1. /\ KeepsTask(c) /\ session'[c].part = s.part /\ session'[c].id = s.id
          /\ session'[c].todo = s.todo /\ session'[c].at = "project"
      BY <1>0, <1>11 DEF Hands
    <2>2. \A j \in Ids \ {s.id} : records'[j] = records[j] /\ objects'[j] = objects[j]
      BY <1>0, <1>1, <1>9
    <2>3. s.part = "resume" => r # NoState
      BY <1>4 DEF Drafted
    <2>4. s.part = "resume" => Known(s.id) /\ records'[s.id].fence = records[s.id].fence
      BY <1>0, <1>9, <1>12, <2>3 DEF Known
    <2> HIDE DEF s, r
    <2>5. s.at # "resume" /\ session'[c].at \in Transit \cup Clearing
      BY <1>1, <2>1 DEF Transit
    <2> QED
      BY <1>2, <2>1, <2>2, <2>4, <2>5, SweepsOn DEF s
  <1>16. Clears(c)'
    <2>1. /\ session'[c].at = "project" /\ session'[c].id = i /\ session'[c].refs = s.refs
          /\ session'[c].part = s.part
      BY <1>11 DEF Hands
    <2>2. sidecar'[i] = NoState \/ sidecar'[i].revision < records'[i].revision
      BY <1>0, <1>1, <1>9, <1>13
    <2>3. s.part \in {"resume", "rotate", "end"} =>
            Observed(i)' \subseteq s.refs /\ s.refs \subseteq records'[i].cleanup
      BY <1>0, <1>1, <1>2, <1>9, <1>12 DEF Clears, Observed
    <2> QED
      BY <2>1, <2>2, <2>3 DEF Clears
  <1>17. KeepsTask(c)
    BY <1>11 DEF Hands
  <1> QED
    BY <1>1, <1>14, <1>15, <1>16, <1>17, CrashFrame

\* The sidecar follows its record.
LEMMA WriteSidecarCrash ==
  ASSUME Faults = {}, LifecycleInv, CrashInv, NEW c \in Catalogs, WriteSidecar(c)
  PROVE  CrashInv'
  <1> DEFINE s == session[c]
             i == session[c].id
  <1>1. s.at = "write sidecar" /\ ReservationStays /\ UNCHANGED <<records, objects>> /\ Active(c)
    BY DEF WriteSidecar, ReservationStays, Active
  <1>2. /\ TypeOK /\ Clears(c) /\ Sweeps(c) /\ Knows(c) /\ Owner(c) /\ InPlace(s)
        /\ \A j \in Ids : Tidy(j)
    BY <1>1, CrashIs
  <1>3. /\ i \in Ids /\ s.draft \in States /\ s.part \in Part /\ s.draft = records[i]
        /\ records[i] # NoState /\ s.seen = sidecar[i]
    BY <1>1, <1>2, SessionIs DEF Clears, Knows
  <1>4. sidecar' = [sidecar EXCEPT ![i] = records[i]] /\ Projected(c)
    BY <1>1, <1>3, NoFaults DEF WriteSidecar
  <1>5. sidecar'[i] = records[i] /\ \A j \in Ids \ {i} : sidecar'[j] = sidecar[j]
    BY <1>2, <1>3, <1>4 DEF TypeOK
  <1>6. ASSUME NEW j \in Ids PROVE Tidy(j)'
    <2>1. sidecar'[j] # NoState => Known(j) /\ sidecar'[j].revision <= records[j].revision
      <3>1. records[j] \in States
        BY <1>2 DEF TypeOK
      <3>2. CASE j = i
        BY <1>3, <1>5, <3>1, <3>2 DEF Known, States, State
      <3>3. CASE j # i
        BY <1>2, <1>5, <3>3 DEF Tidy
      <3> QED
        BY <3>2, <3>3
    <2>2. Tidy(j) /\ (Known(j)' <=> Known(j)) /\ (NoObjects(j)' <=> NoObjects(j)) /\ Observed(j)' = Observed(j)
      BY <1>1, <1>2 DEF Known, NoObjects, Observed
    <2> QED
      BY <1>1, <2>1, <2>2 DEF Tidy
  <1>7. \/ GoesIn(c, "check data", "make")
        \/ GoesIn(c, "rotate", "rotate")
        \/ GoesIn(c, "leave", "end")
        \/ s.part \in {"resume", "rotate", "end"} /\ Goes(c, "delete")
    <2>1. s.part = "make" => s.task \in {"write", "copy"}
      BY <1>2 DEF InPlace
    <2>2. CASE s.part = "stage"
      BY <1>4, <2>2 DEF Projected
    <2>3. CASE s.part = "make"
      BY <1>4, <2>1, <2>3 DEF Projected
    <2>4. CASE s.part = "pin"
      BY <1>4, <2>4 DEF Projected
    <2>5. CASE s.part \in {"resume", "rotate", "end"}
      BY <1>4, <2>5 DEF Projected
    <2> QED
      BY <1>3, <2>2, <2>3, <2>4, <2>5 DEF Part
  <1>8. CASE \/ GoesIn(c, "check data", "make")
             \/ GoesIn(c, "rotate", "rotate")
             \/ GoesIn(c, "leave", "end")
    <2>1. PICK at \in At, part \in Part :
            /\ GoesIn(c, at, part)
            /\ <<at, part>> \in {<<"check data", "make">>, <<"rotate", "rotate">>, <<"leave", "end">>}
      <3>1. /\ "check data" \in At /\ "rotate" \in At /\ "leave" \in At
            /\ "make" \in Part /\ "rotate" \in Part /\ "end" \in Part
        BY DEF At, Part
      <3> QED
        BY <1>8, <3>1
    <2>2. KeepsTask(c) /\ session'[c].at = at /\ session'[c].part = part
      BY <1>2, <2>1, GoesInIs
    <2> QED
      BY <1>1, <1>6, <2>1, <2>2, PlainCrash DEF Making
  <1>9. CASE s.part \in {"resume", "rotate", "end"} /\ Goes(c, "delete")
    <2>1. /\ KeepsTask(c)
          /\ session'[c].at = "delete" /\ session'[c].part = s.part
          /\ session'[c].id = i /\ session'[c].refs = s.refs
          /\ session'[c].todo = s.todo
      BY <1>2, <1>9, GoesIs DEF At
    <2>2. Sweeps(c)'
      BY <1>1, <2>1, SweepsOn DEF Clearing, Known
    <2>3. Observed(i) \subseteq s.refs /\ s.refs \subseteq records[i].cleanup
      BY <1>1, <1>2, <1>9 DEF Clears
    <2>4. Clears(c)'
      BY <1>1, <2>1, <2>3 DEF Clears, Observed
    <2> QED
      BY <1>1, <1>6, <2>1, <2>2, <2>4, CrashFrame
  <1> QED
    BY <1>7, <1>8, <1>9

-----------------------------------------------------------------------------
(* Capture, copy and pins. *)

\* The places of a capture, a copy and a pin: they go on, or they fail.
LEMMA MakesCrash ==
  ASSUME LifecycleInv, CrashInv, NEW c \in Catalogs, Stage(c) \/ Publish(c) \/ Pin(c) \/ Rollback(c)
  PROVE  CrashInv'
  <1> DEFINE s == session[c]
  <1>1. /\ s.at \in {"stage", "publish", "pin", "rollback"} /\ ReservationStays /\ UNCHANGED archive
        /\ Active(c)
    BY DEF Stage, Publish, Pin, Rollback, ReservationStays, Active
  <1>2. /\ TypeOK /\ InPlace(s) /\ s \in Session /\ s.own \in Ids /\ s.fence \in Version
        /\ records[s.own] \in States
    <2>1. TypeOK /\ InPlace(s) /\ s.fence \in 1 .. fence /\ fence \in Nat
      BY <1>1, CrashIs, CatalogIs
    <2> QED
      BY <2>1, SessionIs DEF Version, Absent
  <1>3. /\ s.part \in {"stage", "make", "pin", "end"}
        /\ s.at = "stage" => s.part = "stage"
        /\ s.at = "publish" => s.part = "make"
        /\ s.at = "pin" => s.part = "pin"
        /\ s.at = "rollback" => s.part = "end"
    BY <1>1, <1>2, PartOf DEF Making
  <1>4. CASE Fails(c)
    BY <1>1, <1>3, <1>4, QuietFailCrash
  <1>5. CASE ~Fails(c)
    <2>1. /\ KeepsTask(c) /\ session'[c].part = s.part
          /\ session'[c].at = IF s.at = "rollback" THEN "list" ELSE "commit"
      <3>1. "commit" \in At /\ "list" \in At
        BY DEF At
      <3>2. CASE Stage(c)
        <4>1. PICK draft \in State :
                session' = [session EXCEPT ![c].at = "commit", ![c].id = s.own, ![c].draft = draft]
          <5>1. PICK pin \in BOOLEAN :
                  session' = [session EXCEPT ![c].at = "commit", ![c].id = s.own,
                    ![c].draft = [fence |-> s.fence, published |-> FALSE, retired |-> FALSE,
                                  pinned |-> pin, revision |-> 0, cleanup |-> {}]]
            BY <1>5, <3>2 DEF Stage
          <5>2. [fence |-> s.fence, published |-> FALSE, retired |-> FALSE,
                 pinned |-> pin, revision |-> 0, cleanup |-> {}] \in State
            BY <1>2 DEF State
          <5> QED
            BY <5>1, <5>2
        <4>2. Hands(c, "commit", s.own, draft, s.seen, s.refs)
          BY <1>2, <3>1, <4>1, DraftIs DEF States
        <4> QED
          BY <3>2, <4>2 DEF Hands, Stage
      <3>3. CASE Publish(c)
        <4>1. records[s.own] \in State
          BY <1>2, <1>5, <3>3 DEF Publish, States
        <4>2. session' = [session EXCEPT ![c].at = "commit",
                            ![c].draft = [records[s.own] EXCEPT !.published = TRUE]]
          BY <1>5, <3>3 DEF Publish
        <4>3. [records[s.own] EXCEPT !.published = TRUE] \in States
          BY <4>1, MarkIs DEF States
        <4>4. Hands(c, "commit", s.id, [records[s.own] EXCEPT !.published = TRUE], s.seen, s.refs)
          BY <1>2, <3>1, <4>2, <4>3, DraftOfIs
        <4> QED
          BY <3>3, <4>4 DEF Hands, Publish
      <3>4. CASE Pin(c)
        <4>1. records[s.own] \in State
          BY <1>2, <1>5, <3>4 DEF Pin, States
        <4>2. session' = [session EXCEPT ![c].at = "commit",
                            ![c].draft = [records[s.own] EXCEPT !.pinned = TRUE]]
          BY <1>5, <3>4 DEF Pin
        <4>3. [records[s.own] EXCEPT !.pinned = TRUE] \in States
          BY <4>1, MarkIs DEF States
        <4>4. Hands(c, "commit", s.id, [records[s.own] EXCEPT !.pinned = TRUE], s.seen, s.refs)
          BY <1>2, <3>1, <4>2, <4>3, DraftOfIs
        <4> QED
          BY <3>4, <4>4 DEF Hands, Pin
      <3>5. CASE Rollback(c)
        <4>1. session' = [session EXCEPT ![c].at = "list", ![c].id = s.own]
          BY <1>5, <3>5 DEF Rollback
        <4>2. Hands(c, "list", s.own, s.draft, s.seen, s.refs)
          BY <1>2, <3>1, <4>1, IdIs
        <4> QED
          BY <3>5, <4>2 DEF Hands, Rollback
      <3> QED
        BY <3>2, <3>3, <3>4, <3>5
    <2>2. \A j \in Ids : Tidy(j)'
      BY <1>1, TidyKept
    <2>3. session'[c].part # "resume"
      BY <1>3, <2>1
    <2>4. \/ session'[c].at = "list"
          \/ session'[c].at = "commit" /\ session'[c].part \in {"stage", "make", "pin"}
      BY <1>1, <1>3, <2>1
    <2> QED
      BY <1>1, <2>1, <2>2, <2>3, <2>4, PlainCrash
  <1> QED
    BY <1>4, <1>5

\* A check, passed or not.
LEMMA ChecksCrash ==
  ASSUME LifecycleInv, CrashInv, NEW c \in Catalogs, CheckData(c) \/ CheckComplete(c) \/ Verify(c)
  PROVE  CrashInv'
  <1> DEFINE s == session[c]
  <1>1. /\ s.at \in Making /\ ReservationStays /\ UNCHANGED archive /\ Active(c)
        /\ Fails(c) \/ \E at \in Making : Goes(c, at)
    BY DEF CheckData, CheckComplete, Verify, Demands, ReservationStays, Active, Making
  <1>2. TypeOK /\ s.part = "make"
    <2>1. TypeOK /\ InPlace(s)
      BY <1>1, CrashIs
    <2> QED
      BY <1>1, <2>1, SessionIs, PartOf
  <1>3. CASE Fails(c)
    BY <1>1, <1>2, <1>3, QuietFailCrash
  <1>4. ASSUME NEW at \in Making, Goes(c, at) PROVE CrashInv'
    <2>1. KeepsTask(c) /\ session'[c].at = at /\ session'[c].part = "make"
      BY <1>2, <1>4, GoesIs DEF Making, At
    <2>2. \A j \in Ids : Tidy(j)'
      BY <1>1, TidyKept
    <2> QED
      BY <1>1, <2>1, <2>2, PlainCrash
  <1> QED
    BY <1>1, <1>3, <1>4

\* What is uploaded belongs to a snapshot that is known and not retired.
LEMMA PutCrash ==
  ASSUME Faults = {}, LifecycleInv, CrashInv, NEW c \in Catalogs, PutData(c) \/ PutComplete(c)
  PROVE  CrashInv'
  <1> DEFINE s == session[c]
             i == session[c].own
  <1>1. /\ s.at \in Making /\ ReservationStays /\ UNCHANGED <<records, sidecar>> /\ Active(c)
        /\ \E n \in Names, next \in Making : Put(c, n, next)
    BY DEF PutData, PutComplete, ReservationStays, Active, Making, Names
  <1>2. TypeOK /\ InPlace(s) /\ Knows(c) /\ Owner(c) /\ s \in Session /\ i \in Ids
        /\ \A j \in Ids : Tidy(j)
    BY <1>1, CrashIs, SessionIs
  <1>3. s.part = "make" /\ Known(i) /\ ~records[i].retired
    <2>1. s.part = "make"
      BY <1>1, <1>2, PartOf
    <2> QED
      BY <1>2, <2>1 DEF Knows, Made, Known
  <1>4. PICK n \in Names, next \in Making : Put(c, n, next)
    BY <1>1
  <1>5. CASE Fails(c) /\ UNCHANGED objects
    BY <1>1, <1>3, <1>5, QuietFailCrash DEF archive
  <1>6. CASE objects' = [objects EXCEPT ![i][n] = s.fence] /\ Goes(c, next)
    <2>1. \A j \in Ids \ {i} : objects'[j] = objects[j]
      BY <1>2, <1>6 DEF TypeOK
    <2>2. ASSUME NEW j \in Ids PROVE Tidy(j)'
      <3>1. CASE j = i
        BY <1>1, <1>2, <1>3, <3>1 DEF Tidy, Known
      <3>2. CASE j # i
        <4>1. objects'[j] = objects[j] /\ Tidy(j)
          BY <1>2, <2>1, <3>2
        <4> QED
          BY <1>1, <4>1 DEF Tidy, Known, NoObjects, Observed
      <3> QED
        BY <3>1, <3>2
    <2>3. KeepsTask(c) /\ session'[c].at = next /\ session'[c].part = "make"
      BY <1>2, <1>3, <1>6, GoesIs DEF Making, At
    <2> QED
      BY <1>1, <2>2, <2>3, PlainCrash
  <1> QED
    BY <1>4, <1>5, <1>6, NoFaults DEF Put

-----------------------------------------------------------------------------
(* Which snapshots are retired. *)

\* Rotation chooses, or is done.
LEMMA RotateCrash ==
  ASSUME LifecycleInv, CrashInv, NEW c \in Catalogs, Rotate(c)
  PROVE  CrashInv'
  <1>1. session[c].at = "rotate" /\ ReservationStays /\ UNCHANGED archive /\ Active(c)
    BY DEF Rotate, ReservationStays, Active
  <1>2. TypeOK /\ session[c].part = "rotate"
    BY <1>1, CrashIs, SessionIs, PartOf
  <1>3. \A j \in Ids : Tidy(j)'
    BY <1>1, TidyKept
  <1>4. CASE Goes(c, "leave")
    BY <1>1, <1>2, <1>3, <1>4, GoesIs, PlainCrash DEF At
  <1>5. ASSUME NEW i \in Ids, session' = [session EXCEPT ![c].at = "list", ![c].id = i]
        PROVE  CrashInv'
    <2>1. Hands(c, "list", i, session[c].draft, session[c].seen, session[c].refs)
      BY <1>2, <1>5, IdIs DEF At
    <2> QED
      BY <1>1, <1>2, <1>3, <2>1, PlainCrash, SMTT(30) DEF Hands
  <1> QED
    BY <1>4, <1>5 DEF Rotate

\* What is left to look at shrinks by one, which is settled, unknown, or taken up.
LEMMA ResumeCrash ==
  ASSUME LifecycleInv, CrashInv, NEW c \in Catalogs, Resume(c)
  PROVE  CrashInv'
  <1> DEFINE s == session[c]
  <1>1. s.at = "resume" /\ ReservationStays /\ UNCHANGED archive /\ Active(c)
    BY DEF Resume, ReservationStays, Active
  <1>2. TypeOK /\ Sweeps(c) /\ InPlace(s) /\ s \in Session /\ s.todo \in SUBSET Ids
    BY <1>1, CrashIs, SessionIs
  <1>3. s.part = "resume"
    BY <1>1, <1>2, PartOf
  <1>4. UNCHANGED <<records, sidecar, objects>>
    BY <1>1 DEF archive
  <1>5. \A j \in Ids : Tidy(j)' /\ (Known(j)' <=> Known(j)) /\ (Settled(j)' <=> Settled(j))
    BY <1>1, <1>4, TidyKept DEF Known, Settled, Published
  <1>6. CASE s.todo = {} /\ GoesIn(c, "stage", "stage")
    <2>1. KeepsTask(c) /\ session'[c].at = "stage" /\ session'[c].part = "stage"
      BY <1>2, <1>6, GoesInIs DEF At, Part
    <2>2. \A j \in Ids : Known(j) => Settled(j)
      BY <1>1, <1>2, <1>3, <1>6 DEF Sweeps
    <2>3. Sweeps(c)'
      BY <1>5, <2>1, <2>2 DEF Sweeps
    <2>4. Clears(c)'
      BY <2>1 DEF Clears
    <2> QED
      BY <1>1, <1>5, <2>1, <2>3, <2>4, CrashFrame
  <1>7. ASSUME NEW i \in s.todo, NEW at \in At,
               at = IF records[i] = NoState THEN "resume"
                    ELSE IF records[i].retired THEN "list"
                    ELSE IF ~records[i].published /\ records[i].fence < s.fence THEN "complete?"
                    ELSE "resume",
               session' = [session EXCEPT ![c].todo = s.todo \ {i}, ![c].id = i, ![c].at = at]
        PROVE  CrashInv'
    <2>1. i \in Ids
      BY <1>2, <1>7
    <2>2. Hands(c, at, i, s.draft, s.seen, s.refs) /\ session'[c].todo = s.todo \ {i}
      BY <1>2, <1>7, <2>1, TodoIs
    <2>3. /\ KeepsTask(c) /\ session'[c].at = at /\ session'[c].part = "resume" /\ session'[c].id = i
          /\ session'[c].fence = s.fence
      BY <1>3, <2>2 DEF Hands, KeepsTask
    <2>4. at = "resume" /\ Known(i) => Settled(i)
      <3> SUFFICES ASSUME at = "resume", Known(i) PROVE Settled(i)
        OBVIOUS
      <3>1. ~records[i].retired /\ (records[i].published \/ ~(records[i].fence < s.fence))
        BY <1>7 DEF Known
      <3>2. records[i].fence < s.fence
        BY <1>2, <1>3, <2>1 DEF Sweeps
      <3> QED
        BY <3>1, <3>2 DEF Settled, Published
    <2>5. ASSUME NEW j \in Ids, Known(j)
          PROVE  /\ records[j].fence < s.fence
                 /\ Settled(j) \/ j \in s.todo \ {i} \/ (at # "resume" /\ j = i)
      <3>1. records[j].fence < s.fence /\ (Settled(j) \/ j \in s.todo)
        BY <1>1, <1>2, <1>3, <2>5 DEF Sweeps
      <3> QED
        BY <2>4, <2>5, <3>1
    <2>6. at \in {"complete?", "list"} => Known(i)
      BY <1>7 DEF Known
    <2>7. at = "complete?" => ~records[i].retired
      BY <1>7
    <2>8. at \in {"resume", "list", "complete?"}
      BY <1>7
    <2>9. Sweeps(c)'
      <3>1. ASSUME NEW j \in Ids, Known(j)'
            PROVE  /\ records'[j].fence < session'[c].fence
                   /\ Settled(j)' \/ j \in session'[c].todo
                      \/ (session'[c].at # "resume" /\ j = session'[c].id)
        BY <1>4, <1>5, <2>2, <2>3, <2>5, <3>1
      <3>2. session'[c].at \in {"complete?", "list"} => Known(session[c].id)'
        BY <1>4, <2>3, <2>6 DEF Known
      <3>3. session'[c].at = "complete?" => ~records'[session'[c].id].retired
        BY <1>4, <2>3, <2>7
      <3>4. session'[c].at # "stage"
        BY <2>3, <2>8
      <3> QED
        BY <3>1, <3>2, <3>3, <3>4 DEF Sweeps
    <2>10. Clears(c)'
      BY <2>3, <2>8 DEF Clears
    <2> QED
      BY <1>1, <1>5, <2>3, <2>9, <2>10, CrashFrame
  <1>8. \A i \in Ids :
          (IF records[i] = NoState THEN "resume"
           ELSE IF records[i].retired THEN "list"
           ELSE IF ~records[i].published /\ records[i].fence < s.fence THEN "complete?"
           ELSE "resume") \in At
    BY DEF At
  <1>9. CASE s.todo # {}
    <2>1. PICK i \in s.todo :
            session' = [session EXCEPT ![c].todo = s.todo \ {i}, ![c].id = i, ![c].at =
              IF records[i] = NoState THEN "resume"
              ELSE IF records[i].retired THEN "list"
              ELSE IF ~records[i].published /\ records[i].fence < s.fence THEN "complete?"
              ELSE "resume"]
      BY <1>2, <1>9 DEF Resume, TypeOK
    <2> QED
      BY <1>2, <1>7, <1>8, <2>1
  <1> QED
    BY <1>6, <1>9 DEF Resume

\* A stage that was completed is settled.
LEMMA LookForCompleteCrash ==
  ASSUME LifecycleInv, CrashInv, NEW c \in Catalogs, LookForComplete(c)
  PROVE  CrashInv'
  <1> DEFINE s == session[c]
  <1>1. s.at = "complete?" /\ ReservationStays /\ UNCHANGED archive /\ Active(c)
    BY DEF LookForComplete, ReservationStays, Active
  <1>2. TypeOK /\ Sweeps(c) /\ InPlace(s) /\ s \in Session
    BY <1>1, CrashIs, SessionIs
  <1>3. s.part = "resume"
    BY <1>1, <1>2, PartOf
  <1>4. UNCHANGED <<records, sidecar, objects>>
    BY <1>1 DEF archive
  <1>5. \A j \in Ids : Tidy(j)' /\ (Known(j)' <=> Known(j)) /\ (Settled(j)' <=> Settled(j))
    BY <1>1, <1>4, TidyKept DEF Known, Settled, Published
  <1>6. PICK at \in {"list", "resume"} :
          /\ at = IF objects[s.id]["COMPLETE"] = Absent THEN "list" ELSE "resume"
          /\ Goes(c, at)
    BY DEF LookForComplete
  <1>7. /\ KeepsTask(c) /\ session'[c].at = at /\ session'[c].part = "resume"
        /\ session'[c].id = s.id /\ session'[c].todo = s.todo /\ session'[c].fence = s.fence
    BY <1>2, <1>3, <1>6, GoesIs DEF At, KeepsTask
  <1>8. Known(s.id) /\ ~records[s.id].retired
    BY <1>1, <1>2, <1>3 DEF Sweeps
  <1>9. at = "resume" => Settled(s.id)
    BY <1>6, <1>8 DEF Settled
  <1>10. Sweeps(c)'
    <2>1. ASSUME NEW j \in Ids, Known(j)'
          PROVE  /\ records'[j].fence < session'[c].fence
                 /\ Settled(j)' \/ j \in session'[c].todo
                    \/ (session'[c].at # "resume" /\ j = session'[c].id)
      <3>1. records[j].fence < s.fence /\ (Settled(j) \/ j \in s.todo \/ j = s.id)
        BY <1>2, <1>3, <1>5, <2>1 DEF Sweeps
      <3> QED
        BY <1>4, <1>5, <1>6, <1>7, <1>9, <3>1
    <2>2. session'[c].at # "complete?" /\ session'[c].at # "stage"
      BY <1>7
    <2>3. Known(session[c].id)'
      BY <1>4, <1>7, <1>8 DEF Known
    <2> QED
      BY <2>1, <2>2, <2>3 DEF Sweeps
  <1>11. Clears(c)'
    BY <1>7 DEF Clears
  <1> QED
    BY <1>1, <1>5, <1>7, <1>10, <1>11, CrashFrame

-----------------------------------------------------------------------------
(* Retirement. *)

\* The tombstone lists what is there, or has listed it.
LEMMA ListCrash ==
  ASSUME LifecycleInv, CrashInv, NEW c \in Catalogs, List(c)
  PROVE  CrashInv'
  <1> DEFINE s == session[c]
             state == records[session[c].id]
  <1>1. s.at = "list" /\ ReservationStays /\ UNCHANGED archive /\ Active(c)
    BY DEF List, ReservationStays, Active
  <1>2. /\ TypeOK /\ FenceInv /\ Sweeps(c) /\ InPlace(s) /\ s \in Session /\ s.id \in Ids /\ state \in States
        /\ \A j \in Ids : Tidy(j)
    BY <1>1, CrashIs, SessionIs
  <1>3. s.part \in {"resume", "rotate", "end"}
    BY <1>1, <1>2, PartOf
  <1>4. \A j \in Ids : Tidy(j)'
    BY <1>1, TidyKept
  <1>5. CASE state = NoState
    <2>1. Fails(c)
      BY <1>5 DEF List
    <2>2. s.part # "resume"
      BY <1>1, <1>2, <1>5 DEF Sweeps, Known
    <2> QED
      BY <1>1, <2>1, <2>2, QuietFailCrash
  <1>6. CASE state # NoState
    <2> DEFINE at == IF state.retired THEN "delete" ELSE "commit"
               draft == IF state.retired THEN state
                        ELSE [state EXCEPT !.retired = TRUE, !.cleanup = Observed(s.id)]
               refs == IF state.retired THEN state.cleanup ELSE Observed(s.id)
    <2>1. session' = [session EXCEPT ![c].at = at, ![c].draft = draft, ![c].refs = refs]
      BY <1>6 DEF List
    <2>2. at \in At /\ draft \in States /\ refs \in SUBSET Refs
      <3>1. Observed(s.id) \in SUBSET Refs /\ state \in State
        BY <1>2, <1>6, ObservedIs DEF States
      <3>2. [state EXCEPT !.retired = TRUE, !.cleanup = Observed(s.id)] \in State
        BY <3>1, MarkIs
      <3>3. state.cleanup \in SUBSET Refs
        BY <3>1 DEF State
      <3> QED
        BY <3>1, <3>2, <3>3 DEF At, States
    <2>3. Hands(c, at, s.id, draft, s.seen, refs) /\ session'[c].todo = s.todo
      <3> HIDE DEF at, draft, refs
      <3> QED
        BY <1>2, <2>1, <2>2, TombstoneIs
    <2>4. /\ KeepsTask(c) /\ session'[c].at = at /\ session'[c].part = s.part
          /\ session'[c].id = s.id /\ session'[c].refs = refs
      BY <2>3 DEF Hands
    <2>5. Sweeps(c)'
      BY <1>1, <1>2, <2>3, <2>4, SweepsOn DEF archive, Transit, Clearing, Known
    <2>6. UNCHANGED <<records, sidecar, objects>>
      BY <1>1 DEF archive
    <2>7. Observed(s.id) \subseteq refs /\ (state.retired => refs \subseteq state.cleanup)
          /\ (~state.retired => refs = Observed(s.id))
      BY <1>2, <1>6 DEF Tidy, Known
    <2>8. Clears(c)'
      <3>1. PICK i : i = s.id
        OBVIOUS
      <3>2. Observed(i)' = Observed(i)
        BY <2>6 DEF Observed
      <3>3. session'[c].id = i /\ session'[c].at \in {"delete", "commit"}
            /\ (session'[c].at = "delete" <=> state.retired)
        BY <2>4, <3>1
      <3>4. PICK q : q = refs
        OBVIOUS
      <3>5. session'[c].refs = q
        BY <2>4, <3>4
      <3>6. Observed(i)' \subseteq q /\ (state.retired => q \subseteq records'[i].cleanup)
            /\ (~state.retired => q = Observed(i)')
        BY <2>6, <2>7, <3>1, <3>2, <3>4
      <3> HIDE DEF at, draft, refs, state, s
      <3> QED
        BY <3>3, <3>5, <3>6 DEF Clears
    <2> QED
      BY <1>1, <1>4, <2>4, <2>5, <2>8, CrashFrame
  <1> QED
    BY <1>5, <1>6

\* When nothing is left of the list, nothing is left of the objects.
LEMMA CheckDeleteCrash ==
  ASSUME LifecycleInv, CrashInv, NEW c \in Catalogs, CheckDelete(c)
  PROVE  CrashInv'
  <1> DEFINE s == session[c]
  <1>1. s.at = "delete" /\ ReservationStays /\ UNCHANGED archive /\ Active(c)
    BY DEF CheckDelete, ReservationStays, Active
  <1>2. /\ TypeOK /\ Authority(c) /\ Clears(c) /\ CrashInv
        /\ \A j \in Ids : Tidy(j)'
    BY <1>1, CrashIs, TidyKept
  <1>3. UNCHANGED <<records, sidecar, objects>>
    BY <1>1 DEF archive
  <1>4. PICK at \in {"remaining", "delete one"} :
          /\ at = IF s.refs = {} THEN "remaining" ELSE "delete one"
          /\ Goes(c, at)
    BY <1>2 DEF CheckDelete
  <1>5. /\ KeepsTask(c)
        /\ session'[c].at = at /\ session'[c].part = s.part
        /\ session'[c].id = s.id /\ session'[c].refs = s.refs
        /\ session'[c].todo = s.todo
    BY <1>2, <1>4, GoesIs DEF At
  <1>6. Sweeps(c)'
    BY <1>1, <1>3, <1>4, <1>5, SweepsOn DEF Clearing, Known
  <1>7. Observed(s.id) \subseteq s.refs /\ s.refs \subseteq records[s.id].cleanup
    BY <1>1, <1>2 DEF Clears
  <1>8. Observed(s.id) = {} => NoObjects(s.id)
    <2>1. ASSUME NEW n \in Names, objects[s.id][n] # Absent
          PROVE  <<n, objects[s.id][n]>> \in Observed(s.id)
      BY <2>1 DEF Observed
    <2> QED
      BY <2>1 DEF NoObjects
  <1>9. at = "remaining" => NoObjects(s.id)
    BY <1>4, <1>7, <1>8
  <1>10. Clears(c)'
    BY <1>3, <1>5, <1>7, <1>9 DEF Clears, Observed, NoObjects
  <1> QED
    BY <1>1, <1>2, <1>5, <1>6, <1>10, CrashFrame

\* What is deleted is off the list, and what is not there was no reason to stay on it.
LEMMA DeleteCrash ==
  ASSUME Faults = {}, LifecycleInv, CrashInv, NEW c \in Catalogs, Delete(c)
  PROVE  CrashInv'
  <1> DEFINE s == session[c]
  <1>0. PICK i : i = session[c].id
    OBVIOUS
  <1>1. s.at = "delete one" /\ ReservationStays /\ UNCHANGED <<records, sidecar>> /\ Active(c)
    BY DEF Delete, ReservationStays, Active
  <1>2. /\ TypeOK /\ Owner(c) /\ Knows(c) /\ Clears(c) /\ i \in Ids /\ s.refs \in SUBSET Refs
        /\ \A j \in Ids : Tidy(j)
    BY <1>0, <1>1, CrashIs, SessionIs
  <1>3. Known(i) /\ records[i].retired
    BY <1>0, <1>1, <1>2 DEF Knows, Clearing, Known
  <1>4. Observed(i) \subseteq s.refs /\ s.refs \subseteq records[i].cleanup
    BY <1>0, <1>1, <1>2 DEF Clears
  <1>5. \A r \in s.refs : objects[i][r[1]] \in {Absent, r[2]} /\ r[1] \in Names /\ r = <<r[1], r[2]>>
                          /\ r[2] # Absent
    BY <1>2, <1>3, <1>4 DEF Tidy, Refs, Version
  <1>6. PICK r \in s.refs :
          /\ session' = [session EXCEPT ![c].at = "delete", ![c].refs = s.refs \ {r}]
          /\ \/ objects[i][r[1]] = Absent /\ UNCHANGED objects
             \/ objects' = [objects EXCEPT ![i][r[1]] = Absent]
    BY <1>0, <1>2, <1>5, NoFaults DEF Delete, TypeOK
  <1>7. /\ objects'[i][r[1]] = Absent
        /\ \A n \in Names \ {r[1]} : objects'[i][n] = objects[i][n]
        /\ \A j \in Ids \ {i} : objects'[j] = objects[j]
    BY <1>2, <1>5, <1>6 DEF TypeOK
  <1>8. Hands(c, "delete", i, s.draft, s.seen, s.refs \ {r}) /\ session'[c].todo = s.todo
    <2>1. "delete" \in At /\ s.refs \ {r} \in SUBSET Refs
      BY <1>2 DEF At
    <2> QED
      BY <1>0, <1>2, <1>6, <2>1, RefsAre
  <1>9. /\ KeepsTask(c)
        /\ session'[c].at = "delete" /\ session'[c].part = s.part
        /\ session'[c].id = i /\ session'[c].refs = s.refs \ {r}
        /\ session'[c].todo = s.todo
    BY <1>8 DEF Hands
  <1>10. Observed(i)' \subseteq Observed(i) \ {r}
    <2> SUFFICES ASSUME NEW q \in Observed(i)' PROVE q \in Observed(i) \ {r}
      OBVIOUS
    <2>1. PICK n \in Names : objects'[i][n] # Absent /\ q = <<n, objects'[i][n]>>
      BY DEF Observed
    <2>2. n # r[1] /\ objects'[i][n] = objects[i][n]
      BY <1>7, <2>1
    <2> QED
      BY <1>5, <2>1, <2>2 DEF Observed
  <1>11. ASSUME NEW j \in Ids PROVE Tidy(j)'
    <2>1. CASE j # i
      <3>1. objects'[j] = objects[j] /\ Tidy(j)
        BY <1>2, <1>7, <2>1
      <3> QED
        BY <1>1, <3>1 DEF Tidy, Known, NoObjects, Observed
    <2>2. CASE j = i
      <3>1. /\ records'[i] = records[i] /\ sidecar'[i] = sidecar[i] /\ Known(i)' /\ Tidy(i)
        BY <1>1, <1>2, <1>3 DEF Known
      <3>2. Observed(i)' \subseteq records'[i].cleanup
        BY <1>4, <1>10, <3>1
      <3>3. ASSUME NEW q \in records[i].cleanup PROVE objects'[i][q[1]] \in {Absent, q[2]}
        <4>1. objects[i][q[1]] \in {Absent, q[2]}
          BY <1>3, <3>1, <3>3 DEF Tidy
        <4>2. q[1] \in Names
          <5>1. records[i] \in State
            BY <1>2, <1>3 DEF TypeOK, States, Known
          <5> QED
            BY <3>3, <5>1 DEF State, Refs
        <4> QED
          BY <1>7, <4>1, <4>2
      <3> QED
        BY <1>3, <2>2, <3>1, <3>2, <3>3 DEF Tidy
    <2> QED
      BY <2>1, <2>2
  <1>12. Sweeps(c)'
    BY <1>0, <1>1, <1>7, <1>9, SweepsOn DEF Clearing, Known
  <1>13. Clears(c)'
    BY <1>1, <1>4, <1>9, <1>10 DEF Clears
  <1> QED
    BY <1>1, <1>9, <1>11, <1>12, <1>13, CrashFrame

\* Nothing remains but the sidecar, if it was ever written.
LEMMA RemainingCrash ==
  ASSUME LifecycleInv, CrashInv, NEW c \in Catalogs, Remaining(c)
  PROVE  CrashInv'
  <1> DEFINE s == session[c]
  <1>1. s.at = "remaining" /\ ReservationStays /\ UNCHANGED archive /\ Active(c)
    BY DEF Remaining, ReservationStays, Active
  <1>2. /\ TypeOK /\ Authority(c) /\ Clears(c) /\ s.id \in Ids /\ sidecar[s.id] \in States
    BY <1>1, CrashIs, SessionIs DEF TypeOK
  <1>3. NoObjects(s.id) /\ UNCHANGED <<records, sidecar, objects>>
    BY <1>1, <1>2 DEF Clears, archive
  <1>4. PICK at \in {"drop sidecar", "forget"} :
          /\ at = IF sidecar[s.id] # NoState THEN "drop sidecar" ELSE "forget"
          /\ session' = [session EXCEPT ![c].at = at, ![c].seen = sidecar[s.id]]
    BY <1>2, <1>3 DEF Remaining
  <1>5. Hands(c, at, s.id, s.draft, sidecar[s.id], s.refs) /\ session'[c].todo = s.todo
    BY <1>2, <1>4, SeenIs DEF At
  <1>6. /\ KeepsTask(c)
        /\ session'[c].at = at /\ session'[c].part = s.part
        /\ session'[c].id = s.id /\ session'[c].seen = sidecar[s.id]
        /\ session'[c].todo = s.todo
    BY <1>5 DEF Hands
  <1>7. Sweeps(c)'
    BY <1>1, <1>3, <1>4, <1>6, SweepsOn DEF Clearing, Known
  <1>8. Clears(c)'
    BY <1>3, <1>4, <1>6 DEF Clears, NoObjects
  <1> QED
    BY <1>1, <1>6, <1>7, <1>8, TidyKept, CrashFrame

\* The sidecar goes last.
LEMMA DropSidecarCrash ==
  ASSUME Faults = {}, LifecycleInv, CrashInv, NEW c \in Catalogs, DropSidecar(c)
  PROVE  CrashInv'
  <1> DEFINE s == session[c]
  <1>0. PICK i : i = session[c].id
    OBVIOUS
  <1>1. s.at = "drop sidecar" /\ ReservationStays /\ UNCHANGED <<records, objects>> /\ Active(c)
    BY DEF DropSidecar, ReservationStays, Active
  <1>2. /\ TypeOK /\ Clears(c) /\ i \in Ids /\ \A j \in Ids : Tidy(j)
    BY <1>0, <1>1, CrashIs, SessionIs
  <1>3. NoObjects(i) /\ sidecar[i] = s.seen
    BY <1>0, <1>1, <1>2 DEF Clears
  <1>4. sidecar' = [sidecar EXCEPT ![i] = NoState] /\ Goes(c, "forget")
    BY <1>0, <1>3, NoFaults DEF DropSidecar
  <1>5. sidecar'[i] = NoState /\ \A j \in Ids \ {i} : sidecar'[j] = sidecar[j]
    BY <1>2, <1>4 DEF TypeOK
  <1>6. ASSUME NEW j \in Ids PROVE Tidy(j)'
    <2>1. sidecar'[j] # NoState => Known(j) /\ sidecar'[j].revision <= records[j].revision
      BY <1>2, <1>5 DEF Tidy
    <2>2. Tidy(j) /\ (Known(j)' <=> Known(j)) /\ (NoObjects(j)' <=> NoObjects(j)) /\ Observed(j)' = Observed(j)
      BY <1>1, <1>2 DEF Known, NoObjects, Observed
    <2> QED
      BY <1>1, <2>1, <2>2 DEF Tidy
  <1>7. /\ KeepsTask(c)
        /\ session'[c].at = "forget" /\ session'[c].part = s.part
        /\ session'[c].id = i /\ session'[c].todo = s.todo
    BY <1>0, <1>2, <1>4, GoesIs DEF At
  <1>8. Sweeps(c)'
    BY <1>0, <1>1, <1>7, SweepsOn DEF Clearing, Known
  <1>9. Clears(c)'
    BY <1>1, <1>3, <1>5, <1>7 DEF Clears, NoObjects
  <1> QED
    BY <1>1, <1>6, <1>7, <1>8, <1>9, CrashFrame

\* Nothing is left that would keep the record.
LEMMA CheckForgetCrash ==
  ASSUME LifecycleInv, CrashInv, NEW c \in Catalogs, CheckForget(c)
  PROVE  CrashInv'
  <1> DEFINE s == session[c]
  <1>1. s.at = "forget" /\ ReservationStays /\ UNCHANGED archive /\ Active(c)
    BY DEF CheckForget, Demands, ReservationStays, Active
  <1>2. TypeOK /\ Authority(c) /\ Owner(c) /\ Knows(c) /\ Clears(c)
    BY <1>1, CrashIs
  <1>3. Empty(s.id) /\ NoObjects(s.id) /\ sidecar[s.id] = NoState /\ records[s.id] = s.draft
    BY <1>1, <1>2 DEF Clears, Empty, Knows, Clearing
  <1>4. Goes(c, "forgetting")
    BY <1>1, <1>2, <1>3 DEF CheckForget, Demands
  <1>5. /\ KeepsTask(c)
        /\ session'[c].at = "forgetting" /\ session'[c].part = s.part
        /\ session'[c].id = s.id /\ session'[c].todo = s.todo
    BY <1>2, <1>4, GoesIs DEF At
  <1>6. UNCHANGED <<records, sidecar, objects>>
    BY <1>1 DEF archive
  <1>7. Sweeps(c)'
    BY <1>1, <1>5, <1>6, SweepsOn DEF Clearing, Known
  <1>8. Clears(c)'
    BY <1>3, <1>5, <1>6 DEF Clears, NoObjects
  <1> QED
    BY <1>1, <1>5, <1>7, <1>8, TidyKept, CrashFrame

\* Of what is forgotten nothing is left.
LEMMA ForgetCrash ==
  ASSUME Faults = {}, LifecycleInv, CrashInv, NEW c \in Catalogs, Forget(c)
  PROVE  CrashInv'
  <1> DEFINE s == session[c]
  <1>0. PICK i : i = session[c].id
    OBVIOUS
  <1>1. s.at = "forgetting" /\ ReservationStays /\ UNCHANGED <<sidecar, objects>> /\ Active(c)
    BY DEF Forget, ReservationStays, Active
  <1>2. /\ TypeOK /\ Owner(c) /\ Clears(c) /\ Sweeps(c) /\ i \in Ids /\ InPlace(s) /\ s \in Session
        /\ \A j \in Ids : Tidy(j)
    BY <1>0, <1>1, CrashIs, SessionIs
  <1>3. NoObjects(i) /\ sidecar[i] = NoState
    BY <1>0, <1>1, <1>2 DEF Clears
  <1>4. records' = [records EXCEPT ![i] = NoState] /\ Retired(c)
    BY <1>0, <1>2, NoFaults DEF Forget
  <1>5. records'[i] = NoState /\ \A j \in Ids \ {i} : records'[j] = records[j]
    BY <1>2, <1>4 DEF TypeOK
  <1>6. ASSUME NEW j \in Ids PROVE Tidy(j)'
    <2>1. CASE j = i
      BY <1>1, <1>3, <1>5, <2>1 DEF Tidy, Known, NoObjects
    <2>2. CASE j # i
      <3>1. records'[j] = records[j] /\ Tidy(j)
        BY <1>2, <1>5, <2>2
      <3> QED
        BY <1>1, <3>1 DEF Tidy, Known, NoObjects, Observed
    <2> QED
      BY <2>1, <2>2
  <1>7. CASE s.part = "resume"
    <2>1. GoesIn(c, "resume", "resume")
      BY <1>4, <1>7, SMTT(30) DEF Retired
    <2>2. /\ KeepsTask(c) /\ session'[c].at = "resume" /\ session'[c].part = "resume"
          /\ session'[c].todo = s.todo /\ session'[c].fence = s.fence
      BY <1>2, <2>1, GoesInIs DEF At, Part, KeepsTask
    <2>3. ASSUME NEW j \in Ids, Known(j)'
          PROVE  records'[j].fence < s.fence /\ (Settled(j)' \/ j \in s.todo)
      <3>1. j # i /\ records'[j] = records[j] /\ Known(j)
        BY <1>5, <2>3 DEF Known
      <3>2. records[j].fence < s.fence /\ (Settled(j) \/ j \in s.todo)
        BY <1>0, <1>2, <1>7, <3>1 DEF Sweeps
      <3>3. Settled(j) => Settled(j)'
        BY <1>1, <3>1 DEF Settled, Published, Known
      <3> QED
        BY <3>1, <3>2, <3>3
    <2>4. Sweeps(c)'
      BY <2>2, <2>3 DEF Sweeps
    <2>5. Clears(c)'
      BY <2>2 DEF Clears
    <2> QED
      BY <1>1, <1>6, <2>2, <2>4, <2>5, CrashFrame
  <1>8. CASE s.part # "resume"
    <2>1. s.part \in {"rotate", "end"}
      BY <1>1, <1>2, <1>8, PartOf DEF Clearing
    <2>2. GoesIn(c, "rotate", "rotate") \/ GoesIn(c, "leave", "end")
      BY <1>4, <2>1 DEF Retired
    <2>3. KeepsTask(c) /\ session'[c].at \in {"rotate", "leave"} /\ session'[c].part # "resume"
      BY <1>2, <2>2, GoesInIs, ZenonT(60) DEF At, Part
    <2> QED
      BY <1>1, <1>6, <2>3, PlainCrash
  <1> QED
    BY <1>7, <1>8

-----------------------------------------------------------------------------
(* Tasks begin and end. *)

\* Who begins is alone, and what it is to look at is all there is.
LEMMA BeginCrash ==
  ASSUME LifecycleInv, CrashInv, NEW c \in Catalogs, Begin(c)
  PROVE  CrashInv'
  <1>1. /\ ~live /\ fence' = fence + 1 /\ holder' = c /\ live' = TRUE /\ UNCHANGED archive
        /\ TypeOK /\ FenceInv /\ fence \in Nat /\ WorkInv
    BY DEF Begin, LifecycleInv, TypeOK
  <1>2. \A e \in Catalogs : session[e].at = "out" /\ session[e].part = "end"
    BY <1>1 DEF CrashInv, Alive, Active, WorkInv, InPlace
  <1>3. PICK task \in Tasks, i \in Ids :
          session' = [session EXCEPT ![c] =
               Begun(c, task, i,
                 CASE task = "write" -> "resume" [] task = "copy" -> "stage"
                   [] task = "pin" -> "pin" [] task = "delete" -> "list",
                 CASE task = "write" -> "resume" [] task = "copy" -> "stage"
                   [] task = "pin" -> "pin" [] task = "delete" -> "end",
                 IF task = "write" THEN {j \in Ids : records[j] # NoState} ELSE {})]
    BY DEF Begin, Begun
  <1> DEFINE at == CASE task = "write" -> "resume" [] task = "copy" -> "stage"
                     [] task = "pin" -> "pin" [] task = "delete" -> "list"
             part == CASE task = "write" -> "resume" [] task = "copy" -> "stage"
                       [] task = "pin" -> "pin" [] task = "delete" -> "end"
             todo == IF task = "write" THEN {j \in Ids : records[j] # NoState} ELSE {}
  <1>4. First(task, at, part)
    BY LifecycleAssumption DEF First
  <1>5. todo \in SUBSET Ids /\ (task = "write" => todo = {j \in Ids : Known(j)})
    BY DEF Known
  <1>6. session' = [session EXCEPT ![c] = Begun(c, task, i, at, part, todo)]
    BY <1>3
  <1> HIDE DEF at, part, todo
  <1>7. /\ \A e \in Catalogs \ {c} : session'[e] = session[e]
        /\ session'[c].task = task /\ session'[c].fence = fence + 1
        /\ session'[c].at = at /\ session'[c].part = part /\ session'[c].todo = todo
    <2>1. Started(c, task, i, at, part, todo)
      BY <1>1, <1>4, <1>5, <1>6, BegunIs
    <2> QED
      BY <2>1 DEF Started
  <1>8. UNCHANGED <<records, sidecar, objects>>
    BY <1>1 DEF archive
  <1>9. \A e \in Catalogs \ {c} : Clears(e)' /\ Sweeps(e)' /\ ~Active(e)'
    BY <1>2, <1>7 DEF Clears, Sweeps, Active
  <1>10. Owner(c)'
    BY <1>1, <1>7 DEF Owner
  <1>11. Alive'
    BY <1>1, <1>9, <1>10 DEF Alive
  <1>12. Clears(c)'
    BY <1>4, <1>7 DEF First, Clears
  <1>13. ASSUME part = "resume", NEW j \in Ids, Known(j)
         PROVE  records[j].fence < fence + 1 /\ j \in todo
    <2>1. task = "write"
      BY <1>4, <1>13 DEF First
    <2>2. records[j].fence \in Nat /\ records[j].fence <= fence
      BY <1>1, <1>13 DEF FenceInv, ArchiveUpTo, StateUpTo, Known, TypeOK, States, State, Version
    <2> QED
      BY <1>1, <1>5, <1>13, <2>1, <2>2
  <1>14. Sweeps(c)'
    <2>1. \A j \in Ids : Known(j)' <=> Known(j)
      BY <1>8 DEF Known
    <2> QED
      BY <1>4, <1>7, <1>8, <1>13, <2>1 DEF Sweeps, First
  <1>15. \A j \in Ids : Tidy(j)'
    BY <1>1, TidyKept
  <1> QED
    BY <1>9, <1>11, <1>12, <1>14, <1>15 DEF CrashInv

\* A catalog is out, as are all the others.
LEMMA OutCrash ==
  ASSUME LifecycleInv, CrashInv, NEW c \in Catalogs, Leave(c) \/ Crash(c)
  PROVE  CrashInv'
  <1>1. Active(c) /\ session' = [session EXCEPT ![c] = Idle] /\ UNCHANGED archive
    BY DEF Leave, Crash, Active
  <1>2. TypeOK /\ \A e \in Catalogs \ {c} : session[e].at = "out" /\ session[e].part = "end"
    BY <1>1, CrashIs
  <1>3. \A e \in Catalogs : session'[e].at = "out" /\ session'[e].part = "end"
    BY <1>1, <1>2, IdleIs DEF TypeOK
  <1> QED
    BY <1>1, <1>3, RestCrash

\* A lease runs out when nobody is at work.
LEMMA LapseCrash ==
  ASSUME Faults = {}, LifecycleInv, CrashInv, Lapse
  PROVE  CrashInv'
  <1>1. (\A c \in Catalogs : ~Owner(c)) /\ UNCHANGED <<archive, session>>
    BY DEF Lapse
  <1>2. \A c \in Catalogs : session'[c].at = "out" /\ session'[c].part = "end"
    BY <1>1 DEF CrashInv, Alive, Active, LifecycleInv, WorkInv, InPlace
  <1> QED
    BY <1>1, <1>2, RestCrash

-----------------------------------------------------------------------------
(* The invariant. *)

\* An archive that nobody has used is in order.
LEMMA InitCrash == Init => CrashInv
  <1> SUFFICES ASSUME Init PROVE CrashInv
    OBVIOUS
  <1>1. \A c \in Catalogs : session[c].at = "out" /\ session[c].part = "end"
    BY IdleIs DEF Init
  <1>2. \A c \in Catalogs : Clears(c) /\ Sweeps(c) /\ ~Active(c)
    BY <1>1, OutIs
  <1>3. \A i \in Ids : Tidy(i)
    BY DEF Init, Tidy, Known, NoObjects
  <1> QED
    BY <1>2, <1>3 DEF CrashInv, Alive

\* No step of a catalog that is alone leaves the archive in disorder.
LEMMA NextCrash ==
  ASSUME Faults = {}, LifecycleInv, CrashInv, [Next]_vars
  PROVE  CrashInv'
  <1>1. CASE UNCHANGED vars
    <2>1. /\ UNCHANGED archive /\ UNCHANGED session /\ UNCHANGED <<records, sidecar, objects>>
          /\ UNCHANGED <<fence, holder, live>>
      BY <1>1 DEF vars, archive
    <2>2. Alive'
      BY <2>1 DEF CrashInv, Alive, Active, Owner
    <2>3. \A i \in Ids : Tidy(i)'
      BY <2>1, TidyKept
    <2>4. \A i \in Ids : Observed(i)' = Observed(i) /\ (NoObjects(i)' <=> NoObjects(i))
                         /\ (Known(i)' <=> Known(i)) /\ (Settled(i)' <=> Settled(i))
      BY <2>1 DEF Observed, NoObjects, Known, Settled, Published
    <2>5. ASSUME NEW c \in Catalogs PROVE Clears(c)'
      <3>1. Clears(c) /\ session[c].id \in Ids /\ session'[c] = session[c]
        BY <2>1, SessionIs DEF CrashInv, LifecycleInv
      <3>2. Observed(session[c].id)' = Observed(session[c].id)
            /\ (NoObjects(session[c].id)' <=> NoObjects(session[c].id))
        BY <2>1 DEF Observed, NoObjects
      <3> QED
        BY <2>1, <3>1, <3>2 DEF Clears
    <2>6. ASSUME NEW c \in Catalogs PROVE Sweeps(c)'
      <3>1. Sweeps(c) /\ session'[c] = session[c]
        BY <2>1 DEF CrashInv
      <3>2. Known(session[c].id)' <=> Known(session[c].id)
        BY <2>1 DEF Known
      <3> QED
        BY <2>1, <2>4, <3>1, <3>2 DEF Sweeps
    <2> QED
      BY <2>2, <2>3, <2>5, <2>6 DEF CrashInv
  <1>2. CASE Lapse
    BY <1>2, LapseCrash
  <1>3. ASSUME NEW c \in Catalogs, Begin(c) \/ Works(c) \/ Raise(c) \/ Crash(c)
        PROVE  CrashInv'
    <2>1. ~Raise(c)
      BY NoFaults
    <2> QED
      BY <1>3, <2>1, BeginCrash, OutCrash, CommitCrash, ProjectCrash, AuthoriseCrash,
         WriteSidecarCrash, MakesCrash, ChecksCrash, PutCrash, RotateCrash, ResumeCrash,
         LookForCompleteCrash, ListCrash, CheckDeleteCrash, DeleteCrash, RemainingCrash,
         DropSidecarCrash, CheckForgetCrash, ForgetCrash
         DEF Works
  <1> QED
    BY <1>1, <1>2, <1>3 DEF Next

\* When processes only ever crash, however many, however often and wherever in their tasks,
\* no object and no sidecar is left that no record accounts for, and a capture stages its
\* own snapshot only once every tombstone and every abandoned stage is gone (catalog.py
\* retire() and resume_cleanup(), archiver.py snapshot()).
THEOREM CrashesAreHealed ==
  ASSUME Faults = {}
  PROVE  Spec => []CrashesHeal
  <1>1. Init => LifecycleInv /\ CrashInv
    BY InitLifecycle, InitCrash
  <1>2. LifecycleInv /\ CrashInv /\ [Next]_vars => LifecycleInv' /\ CrashInv'
    BY NextLifecycle, NextCrash
  <1>3. LifecycleInv /\ CrashInv => CrashesHeal
    <2> SUFFICES ASSUME LifecycleInv, CrashInv PROVE CrashesHeal
      OBVIOUS
    <2>1. NothingLeftBehind
      BY DEF CrashInv, Tidy, NothingLeftBehind, Empty
    <2>2. CleanStart
      BY DEF CrashInv, Sweeps, Settled, CleanStart
    <2> QED
      BY <2>1, <2>2 DEF CrashesHeal
  <1> QED
    BY <1>1, <1>2, <1>3, PTL DEF Spec
===============================================================================
