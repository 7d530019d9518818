---------------------------- MODULE NativeSchedule ----------------------------
(***************************************************************************)
(* The schedules of the platform (scheduling.py): a job that collects and  *)
(* one that captures snapshots, as systemd timers or launchd agents.       *)
(*                                                                         *)
(* A command is a list of steps, on the files of the jobs and on the       *)
(* manager that runs them.  A step that is checked ends the command when   *)
(* it fails; the failure of another is passed over.  The process may end   *)
(* between two steps.  The managers are external: a definition is loaded   *)
(* when systemd reloads or starts what it did not know, or launchd         *)
(* bootstraps, and what is loaded is what runs.                            *)
(***************************************************************************)
EXTENDS Naturals, Sequences

CONSTANTS Platforms,    \* "linux", "darwin"
          Editions,     \* bound: how many configurations there are, counted from 1
          MaxCommands,  \* bound: how many commands are run
          MaxRefusals    \* bound: how many steps fail

ASSUME ScheduleAssumption ==
  /\ Platforms \subseteq {"linux", "darwin"}
  /\ Editions \in Nat \ {0} /\ MaxCommands \in Nat /\ MaxRefusals \in Nat

VARIABLES
  platform,
  edition,   \* the configuration, which the user edits
  wanted,    \* does it ask for snapshots?
  file,      \* per job: the edition its file was written from; 0 when there is none
  loaded,    \* per job: the edition the manager runs it with
  active,    \* the jobs that the manager runs
  todo,      \* the steps left of the command in progress
  doing,     \* the command, with the configuration it has loaded
  commands, refusals,
  passed     \* for the properties: did a step of this command fail unchecked?

nvars == <<platform, edition, wanted, file, loaded, active, todo, doing, commands, refusals, passed>>

Jobs == {"collection", "snapshots"}
Idling == [name |-> "none", edition |-> 0, wanted |-> FALSE]

ScheduleInit ==
  /\ platform \in Platforms /\ edition = 1 /\ wanted \in BOOLEAN
  /\ file = [j \in Jobs |-> 0] /\ loaded = [j \in Jobs |-> 0] /\ active = {}
  /\ todo = <<>> /\ doing = Idling /\ commands = 0 /\ refusals = 0 /\ passed = FALSE

Step(act, job, checked) == [act |-> act, job |-> job, checked |-> checked]
Must(act, job) == Step(act, job, TRUE)
May(act, job) == Step(act, job, FALSE)

\* MUTANT: the manager is not told that the files have changed.
EnableOnly(job) == <<Must("write", job), Must("enable", job)>>

\* Write and enable a timer.
Enable(job) == <<Must("write", job), Must("reload", job), Must("enable", job)>>

\* _install_snapshot_schedule()
SnapshotSteps(want) ==
  IF platform = "linux"
    THEN IF want THEN Enable("snapshots")
         ELSE <<May("disable", "snapshots"), Must("unlink", "snapshots")>>
    ELSE <<May("bootout", "snapshots")>>
           \o (IF want THEN <<Must("write", "snapshots"), Must("bootstrap", "snapshots")>>
               ELSE <<Must("unlink", "snapshots")>>)

\* MUTANT: removal knows of one job.
RemoveCollection ==
  IF platform = "linux"
    THEN <<May("disable", "collection"), Must("unlink", "collection"), Must("reload", "collection")>>
    ELSE <<May("bootout", "collection"), Must("unlink", "collection")>>

\* remove_native_schedule()
RemoveSchedule ==
  IF platform = "linux"
    THEN <<May("disable", "collection"), Must("unlink", "collection"),
           May("disable", "snapshots"), Must("unlink", "snapshots"), Must("reload", "collection")>>
    ELSE <<May("bootout", "collection"), Must("unlink", "collection"),
           May("bootout", "snapshots"), Must("unlink", "snapshots")>>

\* install_native_schedule(), start_native_schedule(), stop_native_schedule()
Steps(name, want) ==
  IF platform = "linux"
    THEN CASE name = "install" -> Enable("collection") \o SnapshotSteps(want)
           [] name = "start" -> <<Must("enable", "collection")>> \o SnapshotSteps(want)
           [] name = "stop" -> <<May("stop", "collection"), May("stop", "snapshots")>>
           [] name = "remove" -> RemoveSchedule
    ELSE CASE name = "install" ->
                <<Must("write", "collection"), May("bootout", "collection"),
                  Must("bootstrap", "collection")>> \o SnapshotSteps(want)
           [] name = "start" ->
                <<May("bootout", "collection"), Must("bootstrap", "collection")>>
                  \o SnapshotSteps(want)
           [] name = "stop" -> <<May("bootout", "collection"), May("bootout", "snapshots")>>
           [] name = "remove" -> RemoveSchedule

-----------------------------------------------------------------------------
Reconfigure ==
  /\ edition < Editions /\ edition' = edition + 1 /\ wanted' \in BOOLEAN
  /\ UNCHANGED <<platform, file, loaded, active, todo, doing, commands, refusals, passed>>

ScheduleCommand(name) ==
  /\ doing = Idling /\ commands < MaxCommands /\ commands' = commands + 1
  /\ name = "start" => file["collection"] # 0
  /\ doing' = [name |-> name, edition |-> edition, wanted |-> wanted]
  /\ todo' = Steps(name, wanted) /\ passed' = FALSE
  /\ UNCHANGED <<platform, edition, wanted, file, loaded, active, refusals>>

\* What the step does, when it can.
Does(step) ==
  LET j == step.job IN
  CASE step.act = "write" ->
         file' = [file EXCEPT ![j] = doing.edition] /\ UNCHANGED <<loaded, active>>
    [] step.act = "unlink" -> file' = [file EXCEPT ![j] = 0] /\ UNCHANGED <<loaded, active>>
    [] step.act = "reload" -> loaded' = file /\ UNCHANGED <<file, active>>
    [] step.act = "enable" ->
         /\ file[j] # 0 /\ active' = active \cup {j}
         /\ loaded' = [loaded EXCEPT ![j] = IF @ = 0 THEN file[j] ELSE @] /\ UNCHANGED file
    [] step.act \in {"disable", "stop"} -> active' = active \ {j} /\ UNCHANGED <<file, loaded>>
    [] step.act = "bootout" ->
         active' = active \ {j} /\ loaded' = [loaded EXCEPT ![j] = 0] /\ UNCHANGED file
    [] step.act = "bootstrap" ->
         /\ file[j] # 0 /\ j \notin active /\ active' = active \cup {j}
         /\ loaded' = [loaded EXCEPT ![j] = file[j]] /\ UNCHANGED file

Possible(step) ==
  CASE step.act = "enable" -> file[step.job] # 0
    [] step.act = "bootstrap" -> file[step.job] # 0 /\ step.job \notin active
    [] OTHER -> TRUE

Ended == doing' = Idling /\ todo' = <<>>

Advances ==
  IF Len(todo) = 1 THEN Ended ELSE todo' = Tail(todo) /\ UNCHANGED doing

StepDone ==
  /\ todo # <<>> /\ Does(Head(todo)) /\ Advances
  /\ UNCHANGED <<platform, edition, wanted, commands, refusals, passed>>

\* _run(): an error of the manager, or of the file system.
StepFails ==
  /\ todo # <<>>
  /\ IF Possible(Head(todo)) THEN refusals < MaxRefusals /\ refusals' = refusals + 1
     ELSE UNCHANGED refusals
  /\ IF Head(todo).checked THEN Ended /\ UNCHANGED passed
     ELSE Advances /\ passed' = TRUE
  /\ UNCHANGED <<platform, edition, wanted, file, loaded, active, commands>>

Interrupted ==
  /\ todo # <<>> /\ refusals < MaxRefusals /\ refusals' = refusals + 1 /\ Ended
  /\ UNCHANGED <<platform, edition, wanted, file, loaded, active, commands, passed>>

ScheduleNext ==
  \/ Reconfigure \/ StepDone \/ StepFails \/ Interrupted
  \/ \E name \in {"install", "start", "stop", "remove"} : ScheduleCommand(name)

ScheduleSpec == ScheduleInit /\ [][ScheduleNext]_nvars

-----------------------------------------------------------------------------
CommandReturns(name) == doing.name = name /\ Len(todo) = 1 /\ StepDone

\* However earlier commands failed or were cut short, an install that returns leaves both jobs
\* running what the configuration it read says, and a snapshot job that is not wanted stopped,
\* unless the manager refused to stop it.
InstallHeals ==
  [][CommandReturns("install") =>
       /\ "collection" \in active' /\ loaded'["collection"] = doing.edition
       /\ doing.wanted => "snapshots" \in active' /\ loaded'["snapshots"] = doing.edition
       /\ ~doing.wanted /\ ~passed => "snapshots" \notin active']_nvars

\* remove_native_schedule(): a removal that returns, and during which the manager refused
\* nothing, leaves no job running and no file, whatever was there.
RemovalLeavesNothing ==
  [][CommandReturns("remove") /\ ~passed => active' = {} /\ \A j \in Jobs : file'[j] = 0]_nvars

\* Whatever earlier commands left, an install and a removal that return did their work.
SchedulesHeal == InstallHeals /\ RemovalLeavesNothing
=============================================================================
