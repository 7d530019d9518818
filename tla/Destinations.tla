----------------------------- MODULE Destinations -----------------------------
(***************************************************************************)
(* SnapshotArchiver.write() with several destinations (archiver.py): which *)
(* snapshots are due where, claims held together, one capture published at *)
(* one destination after the other, rotation (Catalog.rotate), and what    *)
(* the caller is told.                                                     *)
(*                                                                         *)
(* A transition at one destination is one step here: Lifecycle has its     *)
(* requests, Reservation the claim.  Days are as fine as intervals need;   *)
(* what is captured on one day is ordered by its place on the shelf.       *)
(***************************************************************************)
EXTENDS Naturals, FiniteSets, Sequences, SequencesExt, FiniteSetsExt

CONSTANTS Hosts,
          NoHost,        \* the absent holder of a claim
          DeadHost,      \* a holder that has died or could not release its claim
          Locations,     \* destinations are 1 .. Locations, in the order of their locations
          Weekly,        \* the destinations of weekly snapshots
          Interval,      \* the configured interval, in days
          WeekLength,    \* days of a week
          MaxSnapshots,  \* max_snapshots
          WeeklySlots,   \* the weeks that are kept: 4 in the code
          MaxWrites,     \* bound: writes
          MaxUpsets,     \* bound: failures, lapses, pins and deletions
          LastDate       \* bound: the last day

Destinations == 1 .. Locations
Roles == {"manual", "scheduled", "weekly"}

ASSUME DestinationsAssumption ==
  /\ NoHost \notin Hosts /\ DeadHost \notin Hosts \cup {NoHost}
  /\ Weekly \subseteq Destinations
  /\ {Locations, Interval, WeekLength, MaxSnapshots, WeeklySlots} \subseteq Nat \ {0}
  /\ {MaxWrites, MaxUpsets, LastDate} \subseteq Nat

VARIABLES
  calendar,  \* the day
  shelf,     \* per destination: what is published and not retired, in order of capture
  claimed,   \* per destination: the host whose reservation runs
  writer,    \* the calls of write()
  writes,    \* how many there were
  upsets

xvars == <<calendar, shelf, claimed, writer, writes, upsets>>
bounds == <<writes, upsets>>

Week(day) == day \div WeekLength
Copy(id, day, roles, week, pin) ==
  [id |-> id, captured |-> day, roles |-> roles, week |-> week, pinned |-> pin]

NotWriting ==
  [at |-> "away", id |-> 0, manual |-> FALSE, pin |-> FALSE, created |-> 0, loc |-> 1,
   due |-> {}, roles |-> [d \in Destinations |-> {}], held |-> {}, captured |-> 0,
   left |-> {}, retires |-> <<>>, published |-> {}, failures |-> {}, quiet |-> TRUE,
   result |-> "none"]

\* What earlier writes may have left, of which rotation may have failed: a snapshot of an
\* earlier week, and one of this week, when the next is due after the first.
Later == Max({Interval, WeekLength})
Earlier ==
  LET Of(id, day, roles) ==
        Copy(id, day, roles, IF "weekly" \in roles THEN Week(day) ELSE 0, roles = {"manual"})
      Both == {"scheduled", "weekly"}
  IN {<<>>, <<Of(1, 0, Both), Of(2, Later, Both)>>}
     \cup {<<Of(1, 0, roles), Of(2, Later, {"scheduled"})>> : roles \in {{"manual"}, {"weekly"}}}

DestinationsInit ==
  /\ calendar = Later + 1
  /\ \E s \in Earlier : shelf = [d \in Destinations |-> s]
  /\ claimed = [d \in Destinations |-> NoHost]
  /\ writer = [h \in Hosts |-> NotWriting]
  /\ writes = 0 /\ upsets = 0

WriterAt(h, where) == writer[h].at = where
Upset == upsets < MaxUpsets /\ upsets' = upsets + 1

-----------------------------------------------------------------------------
(* What is due.                                                            *)

\* _roles(): after the newest scheduled snapshot and its interval, and once a week.
RolesDue(d, created, manual) ==
  LET scheduled == {i \in DOMAIN shelf[d] : "scheduled" \in shelf[d][i].roles}
      hasWeek == \E i \in DOMAIN shelf[d] :
                   "weekly" \in shelf[d][i].roles /\ shelf[d][i].week = Week(created)
  IN IF manual THEN {"manual"}
     ELSE (IF \A i \in scheduled : created >= shelf[d][i].captured + Interval
           THEN {"scheduled"} ELSE {})
          \cup (IF d \in Weekly /\ ~hasWeek THEN {"weekly"} ELSE {})

\* Only snapshots that are taken by hand are pinned.
BeginWrite(h) ==
  /\ WriterAt(h, "away") /\ writes < MaxWrites /\ writes' = writes + 1
  /\ \E manual, pin \in BOOLEAN :
       /\ pin => manual
       /\ writer' = [writer EXCEPT ![h] = [NotWriting EXCEPT !.at = "look", !.id = writes + 3,
            !.manual = manual, !.pin = pin, !.created = calendar]]
  /\ UNCHANGED <<calendar, shelf, claimed, upsets>>

NextLocation(w) ==
  [w EXCEPT !.loc = @ + 1, !.at = IF w.loc < Locations THEN "look"
                                  ELSE IF w.due = {} THEN "release" ELSE "capture"]
FailedAt(w, d, busy) == [w EXCEPT !.failures = @ \cup {d}, !.quiet = @ /\ busy]

\* The destinations, one by one: what is not due is passed over before it is claimed.
LookForDue(h) ==
  LET w == writer[h] IN
  /\ WriterAt(h, "look")
  /\ writer' = [writer EXCEPT ![h] =
       IF RolesDue(w.loc, w.created, w.manual) = {} THEN NextLocation(w)
       ELSE [w EXCEPT !.at = "claim"]]
  /\ UNCHANGED <<calendar, shelf, claimed, bounds>>

ClaimDestination(h) ==
  LET w == writer[h] IN
  /\ WriterAt(h, "claim")
  /\ IF claimed[w.loc] = NoHost
     THEN /\ claimed' = [claimed EXCEPT ![w.loc] = h]
          /\ writer' = [writer EXCEPT ![h].at = "stage"]
     ELSE /\ writer' = [writer EXCEPT ![h] = NextLocation(FailedAt(w, w.loc, TRUE))]
          /\ UNCHANGED claimed
  /\ UNCHANGED <<calendar, shelf, bounds>>

ReleaseHold(h, d) == claimed' = IF claimed[d] = h THEN [claimed EXCEPT ![d] = NoHost] ELSE claimed

\* MUTANT: what was due before the claim is taken to be due.
StageAtOnce(h) ==
  LET w == writer[h] IN
  /\ WriterAt(h, "stage") /\ claimed[w.loc] = h
  /\ writer' = [writer EXCEPT ![h] = NextLocation([w EXCEPT !.due = @ \cup {w.loc},
       !.held = @ \cup {w.loc},
       !.roles[w.loc] = IF w.manual THEN {"manual"} ELSE {"scheduled"}])]
  /\ UNCHANGED <<calendar, shelf, claimed, bounds>>

\* With the claim it looks again, and stages the snapshot if it is still due.
StageDestination(h) ==
  LET w == writer[h]  roles == RolesDue(w.loc, w.created, w.manual) IN
  /\ WriterAt(h, "stage")
  /\ IF roles = {}
     THEN ReleaseHold(h, w.loc) /\ writer' = [writer EXCEPT ![h] = NextLocation(
            IF claimed[w.loc] = h THEN w ELSE FailedAt(w, w.loc, TRUE))]
     ELSE IF claimed[w.loc] = h
     THEN /\ writer' = [writer EXCEPT ![h] = NextLocation([w EXCEPT
               !.due = @ \cup {w.loc}, !.held = @ \cup {w.loc}, !.roles[w.loc] = roles])]
          /\ UNCHANGED claimed
     ELSE /\ writer' = [writer EXCEPT ![h] = NextLocation(FailedAt(w, w.loc, TRUE))]
          /\ UNCHANGED claimed
  /\ UNCHANGED <<calendar, shelf, bounds>>

\* A destination fails: what was staged is retired, and a claim released.
StagingFails(h) ==
  LET w == writer[h] IN
  /\ w.at \in {"look", "claim", "stage"} /\ Upset
  /\ ReleaseHold(h, w.loc)
  /\ writer' = [writer EXCEPT ![h] = NextLocation(FailedAt(w, w.loc, FALSE))]
  /\ UNCHANGED <<calendar, shelf, writes>>

-----------------------------------------------------------------------------
(* One capture, published at one destination after the other.              *)

CaptureOnce(h) ==
  /\ WriterAt(h, "capture")
  /\ writer' = [writer EXCEPT ![h].at = "publish", ![h].captured = calendar,
                              ![h].left = writer[h].due]
  /\ UNCHANGED <<calendar, shelf, claimed, bounds>>

\* The stages are retired, the claims released, and the error is raised.
CaptureFails(h) ==
  /\ WriterAt(h, "capture") /\ Upset
  /\ writer' = [writer EXCEPT ![h].at = "release", ![h].result = "raised"]
  /\ UNCHANGED <<calendar, shelf, claimed, writes>>

Here(h) == Min(writer[h].left)
NextCopy(w) ==
  LET left == w.left \ {Min(w.left)} IN
  [w EXCEPT !.left = left, !.at = IF left = {} THEN "release" ELSE "publish",
            !.retires = <<>>]

Shelved(h) ==
  LET w == writer[h]  d == Here(h) IN
  [shelf EXCEPT ![d] = Append(@, Copy(w.id, w.captured, w.roles[d],
     IF "weekly" \in w.roles[d] THEN Week(w.created) ELSE 0, w.pin))]

\* Uploaded, verified and published, with the reservation.
PublishCopy(h) ==
  LET w == writer[h]  d == Here(h) IN
  /\ WriterAt(h, "publish")
  /\ IF claimed[d] = h
     THEN /\ shelf' = Shelved(h)
          /\ writer' = [writer EXCEPT ![h].published = @ \cup {d}, ![h].at = "rotate"]
     ELSE writer' = [writer EXCEPT ![h] = NextCopy(FailedAt(w, d, TRUE))] /\ UNCHANGED shelf
  /\ UNCHANGED <<calendar, claimed, bounds>>

\* It fails before publication, and the copy is retired; or after it, and the copy is kept
\* and reported, unless the rollback fails to see it.
PublicationFails(h) ==
  LET w == writer[h]  d == Here(h) IN
  /\ WriterAt(h, "publish") /\ Upset
  /\ \/ writer' = [writer EXCEPT ![h] = NextCopy(FailedAt(w, d, FALSE))] /\ UNCHANGED shelf
     \/ /\ claimed[d] = h /\ shelf' = Shelved(h)
        /\ \E seen \in BOOLEAN : writer' = [writer EXCEPT ![h] = NextCopy(FailedAt(
             IF seen THEN [w EXCEPT !.published = @ \cup {d}] ELSE w, d, FALSE))]
  /\ UNCHANGED <<calendar, claimed, writes>>

-----------------------------------------------------------------------------
(* rotate()                                                                *)

Counts(copy) == copy.roles \cap {"scheduled", "manual"} # {}

\* The loop over the entries, newest first: how many it has counted, the weeks it has seen,
\* and what it retires.
LoopStart == [counted |-> 0, weeks |-> {}, retires |-> <<>>]

\* MUTANT: the limit is reached one too early.
WithinCountShort(loop, copy) == Counts(copy) /\ loop.counted + 1 < MaxSnapshots

WithinCount(loop, copy) == Counts(copy) /\ loop.counted < MaxSnapshots

NewWeek(loop, copy) ==
  /\ "weekly" \in copy.roles /\ copy.week \notin loop.weeks
  /\ Cardinality(loop.weeks) < WeeklySlots

Visit(loop, copy) ==
  IF copy.pinned THEN loop
  ELSE [counted |-> loop.counted + (IF Counts(copy) THEN 1 ELSE 0),
        weeks |-> loop.weeks \cup (IF NewWeek(loop, copy) THEN {copy.week} ELSE {}),
        retires |-> IF NewWeek(loop, copy) \/ WithinCount(loop, copy)
                    THEN loop.retires ELSE Append(loop.retires, copy.id)]

ToRetire(s) ==
  LET loop[i \in 1 .. Len(s) + 1] == IF i > Len(s) THEN LoopStart ELSE Visit(loop[i + 1], s[i])
  IN loop[1].retires

\* The outcome is recorded, and the entries are read.
StartRotation(h) ==
  LET w == writer[h]  d == Here(h) IN
  /\ WriterAt(h, "rotate")
  /\ writer' = [writer EXCEPT ![h] =
       IF claimed[d] # h THEN NextCopy(FailedAt(w, d, TRUE))
       ELSE IF ToRetire(shelf[d]) = <<>> THEN NextCopy(w)
       ELSE [w EXCEPT !.at = "retire", !.retires = ToRetire(shelf[d])]]
  /\ UNCHANGED <<calendar, shelf, claimed, bounds>>

\* The next of them is retired, if the reservation is still its own.
RetireEntry(h) ==
  LET w == writer[h]  d == Here(h)  rest == Tail(w.retires) IN
  /\ WriterAt(h, "retire")
  /\ IF claimed[d] = h
     THEN /\ \E i \in DOMAIN shelf[d] :
               shelf[d][i].id = Head(w.retires) /\ shelf' = [shelf EXCEPT ![d] = RemoveAt(@, i)]
          /\ writer' = [writer EXCEPT ![h] =
               IF rest = <<>> THEN NextCopy(w) ELSE [w EXCEPT !.retires = rest]]
     ELSE writer' = [writer EXCEPT ![h] = NextCopy(FailedAt(w, d, TRUE))] /\ UNCHANGED shelf
  /\ UNCHANGED <<calendar, claimed, bounds>>

\* Bookkeeping or a retirement fails: what was published stays so.
RotationFails(h) ==
  /\ writer[h].at \in {"rotate", "retire"} /\ Upset
  /\ writer' = [writer EXCEPT ![h] = NextCopy(FailedAt(writer[h], Here(h), FALSE))]
  /\ UNCHANGED <<calendar, shelf, claimed, writes>>

-----------------------------------------------------------------------------
(* The end.                                                                *)

\* The claims are released, the last first; a claim that was lost is a failure.
ReleaseClaim(h) ==
  LET w == writer[h]  d == Max(w.held)  rest == [w EXCEPT !.held = @ \ {d}] IN
  /\ WriterAt(h, "release") /\ w.held # {}
  /\ ReleaseHold(h, d)
  /\ writer' = [writer EXCEPT ![h] = IF claimed[d] = h THEN rest ELSE FailedAt(rest, d, TRUE)]
  /\ UNCHANGED <<calendar, shelf, bounds>>

\* A release that does not get through, as when earlier failures have used up the time for
\* cleanup, is not a failure: the claim is left to lapse.
ReleaseFails(h) ==
  LET w == writer[h]  d == Max(w.held) IN
  /\ WriterAt(h, "release") /\ w.held # {} /\ claimed[d] = h /\ Upset
  /\ claimed' = [claimed EXCEPT ![d] = DeadHost]
  /\ writer' = [writer EXCEPT ![h].held = @ \ {d}]
  /\ UNCHANGED <<calendar, shelf, writes>>

\* MUTANT: an automatic write is silent however it failed.
ResultSilent(w) ==
  IF w.result = "raised" THEN "raised"
  ELSE IF w.published = {} /\ ~w.manual THEN "nothing"
  ELSE IF w.failures # {} THEN "failed" ELSE "done"

\* An automatic write is silent when it failed only because others were at work.
Result(w) ==
  IF w.result = "raised" THEN "raised"
  ELSE IF w.failures # {}
  THEN IF w.published = {} /\ ~w.manual /\ w.quiet THEN "nothing" ELSE "failed"
  ELSE IF w.published = {} THEN "nothing" ELSE "done"

FinishWrite(h) ==
  /\ WriterAt(h, "release") /\ writer[h].held = {}
  /\ writer' = [writer EXCEPT ![h] = NotWriting]
  /\ UNCHANGED <<calendar, shelf, claimed, bounds>>

\* The process ends: its claims are left to lapse.
HostDies(h) ==
  /\ Upset /\ writer[h].at # "away"
  /\ writer' = [writer EXCEPT ![h] = NotWriting]
  /\ claimed' = [d \in Destinations |-> IF claimed[d] = h THEN DeadHost ELSE claimed[d]]
  /\ UNCHANGED <<calendar, shelf, writes>>

\* A lease runs out: its host died, or was suspended.
ClaimLapses(d) ==
  /\ claimed[d] # NoHost
  /\ IF claimed[d] = DeadHost THEN UNCHANGED upsets ELSE Upset
  /\ claimed' = [claimed EXCEPT ![d] = NoHost]
  /\ UNCHANGED <<calendar, shelf, writer, writes>>

\* pin and delete, with a claim of their own.
PinCopy(d) ==
  /\ claimed[d] = NoHost /\ Upset
  /\ \E i \in DOMAIN shelf[d] : ~shelf[d][i].pinned /\ shelf' = [shelf EXCEPT ![d][i].pinned = TRUE]
  /\ UNCHANGED <<calendar, claimed, writer, writes>>

DeleteCopy(d) ==
  /\ claimed[d] = NoHost /\ Upset
  /\ \E i \in DOMAIN shelf[d] : shelf' = [shelf EXCEPT ![d] = RemoveAt(@, i)]
  /\ UNCHANGED <<calendar, claimed, writer, writes>>

DayPasses ==
  /\ calendar < LastDate /\ calendar' = calendar + 1
  /\ UNCHANGED <<shelf, claimed, writer, bounds>>

HostWrites(h) ==
  \/ BeginWrite(h) \/ LookForDue(h) \/ ClaimDestination(h) \/ StageDestination(h)
  \/ CaptureOnce(h) \/ PublishCopy(h) \/ StartRotation(h) \/ RetireEntry(h)
  \/ ReleaseClaim(h) \/ FinishWrite(h)

DestinationsNext ==
  \/ \E h \in Hosts : \/ HostWrites(h) \/ StagingFails(h) \/ CaptureFails(h)
                      \/ PublicationFails(h) \/ RotationFails(h) \/ ReleaseFails(h)
                      \/ HostDies(h)
  \/ \E d \in Destinations : ClaimLapses(d) \/ PinCopy(d) \/ DeleteCopy(d)
  \/ DayPasses

DestinationsSpec == DestinationsInit /\ [][DestinationsNext]_xvars

-----------------------------------------------------------------------------
(* Correctness.                                                            *)

Pairs(d) == {p \in (DOMAIN shelf[d]) \X (DOMAIN shelf[d]) : p[1] < p[2]}

\* However many hosts find a snapshot due at once, those of the configured interval are an
\* interval apart at each destination, and there is one for a week.
EvenlySpaced ==
  \A d \in Destinations : \A p \in Pairs(d) :
    LET a == shelf[d][p[1]]  b == shelf[d][p[2]] IN
    /\ "scheduled" \in a.roles \cap b.roles => b.captured >= a.captured + Interval
    /\ "weekly" \in a.roles \cap b.roles => a.week # b.week

\* What is to be retained: pinned copies; of the others, the newest max_snapshots that are
\* scheduled or manual, and the newest of each of the four newest weeks that have one.
Retained(s) ==
  LET others == {i \in DOMAIN s : ~s[i].pinned}
      counting == {i \in others : Counts(s[i])}
      ofWeek(w) == {i \in others : "weekly" \in s[i].roles /\ s[i].week = w}
      weeks == {s[i].week : i \in {j \in others : "weekly" \in s[j].roles}}
      newer(w) == {v \in weeks : Max(ofWeek(v)) > Max(ofWeek(w))}
  IN (DOMAIN s \ others)
     \cup {i \in counting : Cardinality({j \in counting : j > i}) < MaxSnapshots}
     \cup {Max(ofWeek(w)) : w \in {v \in weeks : Cardinality(newer(v)) < WeeklySlots}}

\* Rotation retires nothing that is to be retained, whatever roles it has, and leaves
\* nothing else when it ends.
RotatesExactly ==
  [][\A d \in Destinations :
       /\ claimed[d] # NoHost =>
            \A i \in Retained(shelf[d]) :
              \E j \in DOMAIN shelf'[d] : shelf'[d][j].id = shelf[d][i].id
       /\ \A h \in Hosts : RetireEntry(h) /\ Here(h) = d /\ Len(writer[h].retires) = 1
                          /\ claimed[d] = h =>
            Retained(shelf'[d]) = DOMAIN shelf'[d]]_xvars

\* Whoever is told nothing of a snapshot has published none, and each destination that was due
\* has its copy, or is told of as failed.
ToldTrue ==
  [][\A h \in Hosts : FinishWrite(h) =>
       LET w == writer[h] IN
       /\ Result(w) = "nothing" =>
            \A d \in Destinations : \A i \in DOMAIN shelf[d] : shelf[d][i].id # w.id
       /\ Result(w) \in {"done", "failed"} => w.due \subseteq w.published \cup w.failures]_xvars
=============================================================================
