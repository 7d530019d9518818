-------------------------------- MODULE MCHost --------------------------------
(***************************************************************************)
(* The parts that run beside the data on a host and in a warehouse:        *)
(* settings, schedules, the worker, supervised resources, commands,        *)
(* installation and restore.  They share no state: each behaviour is one   *)
(* of one part, the others resting where they begin.                       *)
(***************************************************************************)
EXTENDS Worker, NativeSchedule, Supervised, Capture, Restore, Installation, Settings,
        Budgets

CONSTANTS z1, z2  \* threads with budgets

VARIABLE part  \* the part that moves

Systems ==
  {"worker", "native", "supervised", "capture", "restore", "installation", "settings",
   "budgets"}

HostInit ==
  /\ part \in Systems
  /\ WorkerInit
  /\ ScheduleInit /\ (part # "native" => platform = "linux" /\ wanted)
  /\ SupervisedInit
  /\ CaptureInit /\ (part # "capture" => strays)
  /\ RestoreInit /\ (part # "restore" => warehouse = "duckdb")
  /\ InstallInit /\ (part # "installation" => install = "direct" /\ overlap = "none")
  /\ SettingsInit /\ (part # "settings" => ~config.exists)
  /\ BudgetsInit

HostNext ==
  /\ UNCHANGED part
  /\ \/ part = "worker" /\ WorkerNext
     \/ part = "native" /\ ScheduleNext
     \/ part = "supervised" /\ SupervisedNext
     \/ part = "capture" /\ CaptureNext
     \/ part = "restore" /\ RestoreNext
     \/ part = "installation" /\ InstallNext
     \/ part = "settings" /\ SettingsNext
     \/ part = "budgets" /\ BudgetsNext
  /\ part # "worker" => UNCHANGED wvars
  /\ part # "native" => UNCHANGED nvars
  /\ part # "supervised" => UNCHANGED svars
  /\ part # "capture" => UNCHANGED kvars
  /\ part # "restore" => UNCHANGED rvars
  /\ part # "installation" => UNCHANGED ivars
  /\ part # "settings" => UNCHANGED tvars
  /\ part # "budgets" => UNCHANGED zvars

hostvars == <<part, wvars, nvars, svars, kvars, rvars, ivars, tvars, zvars>>
HostSpec == HostInit /\ [][HostNext]_hostvars

\* Bounds on what is explored together: three commands of the worker, the first of whose
\* processes has a snapshot thread; the user who goes on restores one snapshot on BigQuery, and
\* meets one mishap beside the restore of another; what is asked for is not the default, users
\* give either; inits that overlap as a whole meet one mishap; one operation has budgets, whose
\* second thread copies the context of the first, which has at most two scopes meanwhile, and
\* may leave them: one when the second waits.
One(set) == CHOOSE x \in set : TRUE
Bounds ==
  /\ starts + stops <= 3
  /\ \A w \in Pids : snapshots[w] # "none" => \A v \in Pids : w <= v
  /\ warehouse = "bigquery" =>
       /\ operator[Main].snapshot \in {NoSnapshot, One(Snapshots)}
       /\ mishaps <= 1 \/ \A o \in Operators : operator[o].snapshot \in {NoSnapshot, One(Snapshots)}
  /\ \A c \in Shells, d \in Domains : shell[c].wants[d] # "default"
  /\ overlap = "commands" => hitches <= 1
  /\ deadlines # <<>> => task[z1].scopes # <<>>
  /\ ~TaskAt(z2, "rest") => task[z2].scopes # <<>> /\ Head(task[z2].scopes).kind = "copied"
  /\ ~TaskAt(z2, "rest") => Len(task[z1].scopes) <= 2 /\ Len(task[z2].scopes) <= 2
                           /\ task[z1].at \in {"works", "rest"}
  /\ task[z2].at \in {"limits", "waits", "connects"} =>
       TaskAt(z1, "works") /\ Len(task[z1].scopes) = 1

-----------------------------------------------------------------------------
\* Deadlines hold: the exchanges with a resource stay apart, no wait goes past a budget around
\* it, and all cleanup of an operation shares one allowance.
DeadlinesHold == []ExchangesApart /\ [](WaitsWithinBudget /\ OneAllowance) /\ LeavesInTime

(* The liveness of each part, in the behaviours in which it moves, under its own fairness. *)

\* What runs in another process or thread ends: a worker that is asked to stop or leaves its
\* loop; every exchange of a living owner, though the child may stall; a child whose owner is
\* gone; the capture of a command's output.
HostProcessesEnd ==
  /\ part = "worker" /\ WorkerFairness => WorkersStop
  /\ part = "supervised" /\ SupervisedFairness => ExchangesEnd /\ OrphansGo
  /\ part = "capture" /\ CaptureFairness => CaptureEnds

\* What a command left half done is not in the way of the next: a snapshot is restored in the
\* end, the schema gets ready, and a change of the configuration is reported.
HostCommandsSucceed ==
  /\ part = "restore" /\ RestoreFairness => RetriesRestore
  /\ part = "installation" /\ InstallFairness => InitFinishes
  /\ part = "settings" /\ SettingsFairness => ChangesReported
=============================================================================
