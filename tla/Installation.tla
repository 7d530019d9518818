----------------------------- MODULE Installation -----------------------------
(***************************************************************************)
(* bassoon init: the schema of the warehouse and its nightly schedule      *)
(* (cli/init.py, apply_ddl and preflight of the backends,                  *)
(* bigquery_compaction.py).                                                *)
(*                                                                         *)
(* A direct backend installs in one transaction.  BigQuery has no such     *)
(* transaction: labels of the marker table say how far an init came, and a *)
(* repeated init goes on from there.  Jobs of BigQuery run statement by    *)
(* statement and may outlive the command that submitted them.              *)
(***************************************************************************)
EXTENDS Naturals, Sequences

CONSTANTS Installs,    \* "bigquery", "direct"
          Admins,      \* shells that run bassoon init
          MaxHitches,  \* bound: what goes wrong
          Overlap      \* what may still run when an init begins: "none", "jobs", "commands"

ASSUME InstallationAssumption ==
  Installs \subseteq {"bigquery", "direct"} /\ MaxHitches \in Nat
  /\ Overlap \subseteq {"none", "jobs", "commands"}

VARIABLES
  install,    \* the kind of the warehouse
  marker,     \* schema_marker: its label, "absent" before it exists
  made,       \* the other tables
  expiring,   \* the tables that are to expire by the default of the dataset
  locks,      \* compaction_ledger: the control rows
  views,      \* are the views installed?
  schedules,  \* how many schedules of nightly compaction there are
  admin,      \* the commands in progress
  job,        \* their last job
  overlap,    \* how inits overlap in this behaviour
  hitches

schema == <<marker, made, expiring, locks, views>>
ivars == <<install, overlap, schema, schedules, admin, job, hitches>>

\* The tables up to compaction_ledger, and those that follow its control row.
BaseTables == {"ledger", "migrations"}

\* What a command has read: the label and, as its etag says, is it still the marker; the tables;
\* is there a schedule.
AtRest == [at |-> "idle", seen |-> "none", fresh |-> FALSE, existing |-> {}, provided |-> FALSE]
NoScript == [todo |-> <<>>, inserts |-> FALSE, state |-> "none"]

InstallInit ==
  /\ install \in Installs /\ overlap \in Overlap
  /\ marker = "absent" /\ made = {} /\ expiring = {}
  /\ locks = 0 /\ views = FALSE /\ schedules = 0
  /\ admin = [a \in Admins |-> AtRest] /\ job = [a \in Admins |-> NoScript]
  /\ hitches = 0

\* preflight(), of every command but init.
Opens == marker = "ready"

AdminAt(a, where) == admin[a].at = where
Onward(a, where) == admin' = [admin EXCEPT ![a].at = where]
GivesUp(a) == admin' = [admin EXCEPT ![a] = AtRest]
\* a reads the marker, or writes it: what others read is then stale.
ReadsMarker(a, next) == admin' = [admin EXCEPT ![a].at = next, ![a].seen = marker, ![a].fresh = TRUE]
WritesMarker(a, label, next) ==
  /\ marker' = label
  /\ admin' = [b \in Admins |->
       IF b = a THEN [admin[a] EXCEPT !.at = next, !.seen = label, !.fresh = TRUE]
       ELSE [admin[b] EXCEPT !.fresh = FALSE]]
Submits(a, statements) ==
  job' = [job EXCEPT ![a] = [todo |-> statements, inserts |-> FALSE, state |-> "running"]]
AwaitsJob(a) == admin[a].at \in {"making", "script"}
Hitch == hitches < MaxHitches /\ hitches' = hitches + 1
rest == <<install, overlap, schedules, hitches>>

-----------------------------------------------------------------------------
\* init(): apply_ddl() begins.
BeginInit(a) ==
  /\ AdminAt(a, "idle") /\ job[a].state # "running"
  /\ overlap # "commands" => \A b \in Admins : AdminAt(b, "idle")
  /\ overlap = "none" => \A b \in Admins : job[b].state # "running"
  /\ Onward(a, "marker")
  /\ UNCHANGED <<rest, schema, job>>

\* A schema that is ready is checked, and left alone.
ReadMarker(a) ==
  /\ AdminAt(a, "marker")
  /\ ReadsMarker(a, IF Opens THEN "schedule" ELSE IF install = "bigquery" THEN "list" ELSE "transaction")
  /\ UNCHANGED <<rest, schema, job>>

\* The transaction of a direct backend: two that create the schema conflict.
Install(a) ==
  /\ AdminAt(a, "transaction")
  /\ IF marker # "absent" THEN GivesUp(a) /\ UNCHANGED schema
     ELSE /\ WritesMarker(a, "ready", "schedule")
          /\ made' = BaseTables /\ locks' = 1 /\ views' = TRUE /\ UNCHANGED expiring
  /\ UNCHANGED <<rest, job>>

\* Tables that no init has claimed are not ours.
ListTables(a) ==
  /\ AdminAt(a, "list")
  /\ IF admin[a].seen # "initializing" /\ made # {}
       THEN GivesUp(a)
       ELSE admin' = [admin EXCEPT ![a].existing = made,
                        ![a].at = IF admin[a].seen = "absent" THEN "create" ELSE "claim"]
  /\ UNCHANGED <<rest, schema, job>>

\* A job of its own creates the marker, and a request reads it back.
SubmitMarker(a) ==
  /\ AdminAt(a, "create") /\ Onward(a, "making") /\ Submits(a, <<"marker">>)
  /\ UNCHANGED <<rest, schema>>

FetchMarker(a) ==
  /\ AdminAt(a, "fetch")
  /\ ReadsMarker(a, "claim")
  /\ UNCHANGED <<rest, schema, job>>

\* MUTANT: whatever happened to the marker since it was read.
LabelsBlindly(a, label, next) ==
  WritesMarker(a, label, next) /\ UNCHANGED <<rest, made, expiring, locks, views, job>>

\* update_table() writes only what has the etag that was read.
Labels(a, label, next) ==
  /\ IF admin[a].fresh THEN WritesMarker(a, label, next) ELSE GivesUp(a) /\ UNCHANGED marker
  /\ UNCHANGED <<rest, made, expiring, locks, views, job>>

\* MUTANT: the marker is claimed once the tables are there.
ClaimLate(a) == AdminAt(a, "claim") /\ Onward(a, "submit")
  /\ UNCHANGED <<rest, schema, job>>

Claim(a) == AdminAt(a, "claim") /\ Labels(a, "initializing", "submit")

\* The statements of the baseline, in the order of ddl.sql, but those that create what exists.
Creates(t, existing) == IF t \in existing THEN <<>> ELSE <<t>>
Baseline(existing) == Creates("ledger", existing) \o <<"lock">> \o Creates("migrations", existing)

\* MUTANT: the control row is inserted as the baseline says.
Inserts == TRUE

\* INSERT ... WHERE NOT EXISTS: the statement reads before it writes.
InsertsRow == locks = 0

\* One script with what is missing.
SubmitScript(a) ==
  /\ AdminAt(a, "submit") /\ Onward(a, "script") /\ Submits(a, Baseline(admin[a].existing))
  /\ UNCHANGED <<rest, schema>>

\* _wait_for_job()
JobReturns(a) ==
  /\ AwaitsJob(a) /\ job[a].state \in {"done", "failed"}
  /\ IF job[a].state = "done" THEN Onward(a, IF AdminAt(a, "making") THEN "fetch" ELSE "retain")
     ELSE GivesUp(a)
  /\ UNCHANGED <<rest, schema, job>>

\* _wait_for_job() gives up, and asks for the job to be cancelled.
JobTimesOut(a) ==
  /\ Hitch /\ AwaitsJob(a) /\ GivesUp(a)
  /\ UNCHANGED <<install, overlap, schema, job, schedules>>

\* _apply_retention() of every table, the marker included.
Retain(a) ==
  /\ AdminAt(a, "retain") /\ expiring' = {}
  /\ IF "marker" \in expiring THEN WritesMarker(a, marker, "views")
     ELSE Onward(a, "views") /\ UNCHANGED marker
  /\ UNCHANGED <<rest, made, locks, views, job>>

CreateViews(a) ==
  /\ AdminAt(a, "views") /\ views' = TRUE /\ Onward(a, "reread")
  /\ UNCHANGED <<rest, marker, made, expiring, locks, job>>

Reread(a) ==
  /\ AdminAt(a, "reread")
  /\ ReadsMarker(a, "finish")
  /\ UNCHANGED <<rest, schema, job>>

\* MUTANT: the schema is declared ready before the views are there.
FinishEarly(a) == AdminAt(a, "views") /\ Labels(a, "ready", "reread")

Finish(a) == AdminAt(a, "finish") /\ Labels(a, "ready", "schedule")

-----------------------------------------------------------------------------
(* configure_maintenance(): install_compaction() of BigQuery. *)

ListSchedules(a) ==
  /\ AdminAt(a, "schedule")
  /\ IF install = "direct" \/ schedules > 1 THEN GivesUp(a)
     ELSE admin' = [admin EXCEPT ![a].at = "provision", ![a].provided = schedules = 1]
  /\ UNCHANGED <<rest, schema, job>>

Provision(a) ==
  /\ AdminAt(a, "provision") /\ GivesUp(a)
  /\ schedules' = IF admin[a].provided THEN schedules ELSE schedules + 1
  /\ UNCHANGED <<install, overlap, schema, job, hitches>>

\* A request fails for good, or the process ends.
InitFails(a) ==
  /\ Hitch /\ ~AdminAt(a, "idle") /\ GivesUp(a)
  /\ UNCHANGED <<install, overlap, schema, job, schedules>>

-----------------------------------------------------------------------------
(* A job of BigQuery: the marker, or the script. *)

Ran(a) == job' = [job EXCEPT ![a].todo = Tail(@), ![a].inserts = FALSE,
                             ![a].state = IF Len(job[a].todo) = 1 THEN "done" ELSE @]

CreatesMarker(a) ==
  /\ job[a].state = "running" /\ Head(job[a].todo) = "marker"
  /\ IF marker # "absent"
       THEN job' = [job EXCEPT ![a].state = "failed"] /\ UNCHANGED <<marker, admin, expiring>>
       ELSE /\ marker' = "none" /\ expiring' = expiring \cup {"marker"} /\ Ran(a)
            /\ admin' = [b \in Admins |-> [admin[b] EXCEPT !.fresh = FALSE]]
  /\ UNCHANGED <<rest, made, locks, views>>

CreatesTable(a) ==
  /\ job[a].state = "running"
  /\ \E t \in BaseTables :
       /\ t = Head(job[a].todo)
       /\ IF t \in made THEN job' = [job EXCEPT ![a].state = "failed"] /\ UNCHANGED <<made, expiring>>
          ELSE made' = made \cup {t} /\ expiring' = expiring \cup {t} /\ Ran(a)
  /\ UNCHANGED <<rest, marker, admin, locks, views>>

ReadsLock(a) ==
  /\ job[a].state = "running" /\ Head(job[a].todo) = "lock" /\ ~job[a].inserts
  /\ IF InsertsRow THEN job' = [job EXCEPT ![a].inserts = TRUE] ELSE Ran(a)
  /\ UNCHANGED <<rest, marker, admin, made, expiring, locks, views>>

WritesLock(a) ==
  /\ job[a].state = "running" /\ job[a].inserts
  /\ locks' = locks + 1 /\ Ran(a)
  /\ UNCHANGED <<rest, marker, admin, made, expiring, views>>

\* The job fails, or a cancellation reaches it.
JobStops(a) ==
  /\ job[a].state = "running" /\ Hitch
  /\ job' = [job EXCEPT ![a].state = "failed"]
  /\ UNCHANGED <<install, overlap, schema, admin, schedules>>

Script(a) == CreatesMarker(a) \/ CreatesTable(a) \/ ReadsLock(a) \/ WritesLock(a)

InitProceeds(a) ==
  \/ ReadMarker(a) \/ Install(a) \/ ListTables(a) \/ SubmitMarker(a) \/ FetchMarker(a)
  \/ Claim(a) \/ SubmitScript(a) \/ JobReturns(a) \/ Retain(a) \/ CreateViews(a) \/ Reread(a) \/ Finish(a)
  \/ ListSchedules(a) \/ Provision(a)

InstallNext ==
  \E a \in Admins :
    \/ BeginInit(a) \/ InitProceeds(a) \/ JobTimesOut(a) \/ InitFails(a)
    \/ Script(a) \/ JobStops(a)

\* A user whose init failed repeats it, a command goes on, and a job ends.
InstallFairness ==
  /\ WF_ivars(\E a \in Admins : BeginInit(a))
  /\ \A a \in Admins : WF_ivars(InitProceeds(a)) /\ WF_ivars(Script(a))

InstallSpec == InstallInit /\ [][InstallNext]_ivars /\ InstallFairness

-----------------------------------------------------------------------------
\* A command that passes preflight finds every table, none of which will expire, the views and
\* a control row, wherever an earlier init was cut off.
ReadyIsWhole ==
  Opens => made = BaseTables /\ expiring = {} /\ views /\ locks >= 1

\* A warehouse in use is taken back to initialising, which preflight refuses, in one case only:
\* inits overlap, and one that created the marker reads it back for its etag, and not for its
\* labels, once another has finished.  No init that read the marker earlier does.
ReadyStands ==
  [][Opens /\ ~Opens' =>
       /\ overlap = "commands"
       /\ \E a \in Admins : AdminAt(a, "claim") /\ admin[a].seen = "ready" /\ admin[a].fresh]_ivars

\* README.md: init is safe to repeat.  However often it is cut off and repeated, there is one
\* control row, which compaction and restore insist on, and one schedule.
OneOfEach == locks <= 1 /\ schedules <= 1

\* This much holds: so it is if every init begins after the last, and its jobs, have ended.
OneOfEachInTurn == overlap = "none" => OneOfEach

\* An init that is cut off, and the job it leaves, are not in the way of the next: the schema
\* gets ready.  Not so when commands overlap, which can take the marker from each other for ever.
InitFinishes ==
  overlap # "commands" /\ (\E a \in Admins : ~AdminAt(a, "idle")) ~> Opens

\* What is ready is whole, is taken back in one case only, and has one of each when inits take
\* turns.
InitHolds == [](ReadyIsWhole /\ OneOfEachInTurn) /\ ReadyStands
=============================================================================
