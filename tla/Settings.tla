------------------------------- MODULE Settings -------------------------------
(***************************************************************************)
(* config.toml, and who writes it (config.py): init gives it a source      *)
(* identity under a lock, schedule install and the worker rewrite one      *)
(* interval at a time without one, the user edits it; the worker keeps the *)
(* settings of its start and reports that the file changed                 *)
(* (scheduling.run_worker).                                                *)
(***************************************************************************)
EXTENDS Naturals, FiniteSets

CONSTANTS Shells,      \* processes of bassoon
          Intervals,   \* the durations a command may ask for
          MaxWishes    \* bound: commands, edits and ends of processes

ASSUME SettingsAssumption == MaxWishes \in Nat /\ "default" \in Intervals

VARIABLES
  config,    \* config.toml: its source id, 0 when it has none, the intervals and their form
  minted,    \* how many source ids have been generated
  shell,     \* the command of each process
  keeper,    \* the scheduled worker
  wishes

tvars == <<config, minted, shell, keeper, wishes>>

Domains == {"collection", "snapshots"}
\* What a command asks for: an interval, one that does not parse, or none.
Wants == [Domains -> Intervals \cup {"keep", "bad"}]
NoWants == [d \in Domains |-> "keep"]

\* How the file gives an interval: not at all, in a table of its own, inline or by a dotted key
\* of the domain, or so and in a table too, which no parser takes.
Forms == {"none", "table", "inline", "doubled"}
Absent == [exists |-> FALSE, sid |-> 0, of |-> [d \in Domains |-> "default"],
           form |-> [d \in Domains |-> "none"]]
Parses(file) == \A d \in Domains : file.form[d] # "doubled"

\* For the properties, found: the file as the command loaded it, if it is alone, that is if
\* nobody else began or wrote since.
Quiet == [at |-> "idle", wants |-> NoWants, left |-> {}, found |-> Absent, read |-> Absent, runs |-> FALSE,
          alone |-> FALSE]
NoWorker == [at |-> "none", current |-> FALSE, reported |-> FALSE]

SettingsInit ==
  /\ config \in {Absent} \cup
       {[Absent EXCEPT !.exists = TRUE, !.form = f] : f \in [Domains -> {"none", "inline"}]}
  /\ minted = 0 /\ shell = [c \in Shells |-> Quiet] /\ keeper = NoWorker /\ wishes = 0

ShellAt(c, where) == shell[c].at = where
Wish == wishes < MaxWishes /\ wishes' = wishes + 1

\* os.replace(): the file gets a new stamp, whatever its content.
Replace(content) ==
  config' = content /\ keeper' = [keeper EXCEPT !.current = FALSE]

\* c changes, and those that were alone no longer are.
Disturbed(x) == [shell[x] EXCEPT !.alone = FALSE, !.found = Absent]
Disturbs(c, new) == shell' = [x \in Shells |-> IF x = c THEN new ELSE Disturbed(x)]

-----------------------------------------------------------------------------
(* write_initial_config() *)

BeginSetup(c) ==
  /\ Wish /\ ShellAt(c, "idle") /\ Disturbs(c, [Quiet EXCEPT !.at = "lock"])
  /\ UNCHANGED <<config, minted, keeper>>

\* MUTANT: the lock is not awaited.
EntersSetup(c) ==
  /\ ShellAt(c, "lock") /\ shell' = [shell EXCEPT ![c].at = "inside"]
  /\ UNCHANGED <<config, minted, keeper, wishes>>

LocksSetup(c) ==
  /\ ShellAt(c, "lock") /\ \A x \in Shells : shell[x].at \notin {"inside", "identify"}
  /\ shell' = [shell EXCEPT ![c].at = "inside"]
  /\ UNCHANGED <<config, minted, keeper, wishes>>

\* A file that has a source id is left alone, and so is one that does not parse.
ReadsForSetup(c) ==
  /\ ShellAt(c, "inside")
  /\ shell' = [shell EXCEPT ![c] = IF config.sid # 0 \/ ~Parses(config) THEN Quiet
                                   ELSE [@ EXCEPT !.at = "identify", !.read = config]]
  /\ UNCHANGED <<config, minted, keeper, wishes>>

Identifies(c) ==
  /\ ShellAt(c, "identify")
  /\ minted' = minted + 1
  /\ Replace([shell[c].read EXCEPT !.exists = TRUE, !.sid = minted'])
  /\ Disturbs(c, Quiet) /\ UNCHANGED wishes

-----------------------------------------------------------------------------
(* schedule install and schedule worker: load(), update_schedule_interval() *)

\* The domains still to be written, collection first.
Asked(wants) == {d \in Domains : wants[d] # "keep"}
NextOf(left) ==
  IF "collection" \in left THEN "collection" ELSE IF "snapshots" \in left THEN "snapshots" ELSE "reload"

\* MUTANT: only the interval that is written first is parsed.
LoadsLoosely(wants) ==
  config.sid # 0 /\ Parses(config) /\ (Asked(wants) # {} => wants[NextOf(Asked(wants))] # "bad")

\* load() parses the file and, in memory, all that is asked for.
Loads(wants) == config.sid # 0 /\ Parses(config) /\ \A d \in Domains : wants[d] # "bad"

\* Before an interval is written, the scheduler of the platform must be available.
BeginUpdate(c, wants, runs) ==
  LET alone == \A x \in Shells : ShellAt(x, "idle") IN
  /\ Wish /\ ShellAt(c, "idle")
  /\ \E available \in {TRUE, runs \/ Asked(wants) = {}} :
       Disturbs(c,
         [Quiet EXCEPT !.at = IF ~(Loads(wants) /\ available) THEN "refused"
                              ELSE IF Asked(wants) = {} THEN "apply" ELSE NextOf(Asked(wants)),
                       !.wants = wants, !.left = Asked(wants), !.runs = runs,
                       !.found = IF alone THEN config ELSE Absent, !.alone = alone])
  /\ UNCHANGED <<config, minted, keeper>>

\* MUTANT: the file is read once for both intervals.
ReadsOnce(c, d) ==
  /\ ShellAt(c, d)
  /\ shell' = [shell EXCEPT ![c].at = "replace", ![c].read = IF @.exists THEN @ ELSE config]
  /\ UNCHANGED <<config, minted, keeper, wishes>>

ReadsToUpdate(c, d) ==
  /\ ShellAt(c, d) /\ shell' = [shell EXCEPT ![c].at = "replace", ![c].read = config]
  /\ UNCHANGED <<config, minted, keeper, wishes>>

\* The rewriter knows a table by its header alone: without one it appends it.
Rewritten(file, d, interval) ==
  [file EXCEPT !.of[d] = interval,
               !.form[d] = CASE @ = "none" -> "table" [] @ = "inline" -> "doubled" [] OTHER -> @]

Updates(c) ==
  LET d == NextOf(shell[c].left)
      left == shell[c].left \ {d}
  IN /\ ShellAt(c, "replace") /\ shell[c].wants[d] # "bad"
     /\ Replace(Rewritten(shell[c].read, d, shell[c].wants[d]))
     /\ Disturbs(c, [shell[c] EXCEPT !.at = NextOf(left), !.left = left])
     /\ UNCHANGED <<minted, wishes>>

\* What was written is loaded again.
Reloads(c) ==
  /\ ShellAt(c, "reload")
  /\ shell' = [shell EXCEPT ![c].at = IF Parses(config) THEN "apply" ELSE "failed"]
  /\ UNCHANGED <<config, minted, keeper, wishes>>

\* The schedule is installed, or a worker begins, with what was loaded.
Applies(c) ==
  /\ ShellAt(c, "apply") /\ shell' = [shell EXCEPT ![c] = Quiet]
  /\ keeper' = IF shell[c].runs /\ keeper.at = "none" THEN [NoWorker EXCEPT !.at = "stat"] ELSE keeper
  /\ UNCHANGED <<config, minted, wishes>>

\* The file cannot be read or replaced, an interval is refused, or the schedule is.
UpdateFails(c) ==
  /\ shell[c].at \in Domains \cup {"replace", "apply"} /\ shell' = [shell EXCEPT ![c].at = "failed"]
  /\ UNCHANGED <<config, minted, keeper, wishes>>

Leave(c) ==
  /\ shell[c].at \in {"refused", "failed"} /\ shell' = [shell EXCEPT ![c] = Quiet]
  /\ UNCHANGED <<config, minted, keeper, wishes>>

\* A process ends anywhere; the system frees its lock.
CommandDies(c) ==
  /\ Wish /\ ~ShellAt(c, "idle") /\ shell' = [shell EXCEPT ![c] = Quiet]
  /\ UNCHANGED <<config, minted, keeper>>

\* The user keeps the source id, as the file asks, and gives an interval anew, where it was if
\* it was in one place.
UserEdits ==
  /\ Wish /\ config.exists
  /\ \E d \in Domains, i \in Intervals, f \in {"table", "inline"} :
       /\ config.form[d] \in {"table", "inline"} => f = config.form[d]
       /\ Replace([config EXCEPT !.of[d] = i, !.form[d] = f])
  /\ shell' = [c \in Shells |-> Disturbed(c)]
  /\ UNCHANGED minted

-----------------------------------------------------------------------------
(* run_worker() *)

WorkerStamps ==
  /\ keeper.at = "stat" /\ keeper' = [keeper EXCEPT !.at = "cycle", !.current = TRUE]
  /\ UNCHANGED <<config, minted, shell, wishes>>

\* MUTANT: each cycle takes the stamp that the next one compares.
CyclesAfresh ==
  /\ keeper.at = "cycle" /\ keeper' = [keeper EXCEPT !.current = TRUE]
  /\ UNCHANGED <<config, minted, shell, wishes>>

WorkerCycles ==
  /\ keeper.at = "cycle" /\ keeper' = [keeper EXCEPT !.reported = @ \/ ~keeper.current]
  /\ UNCHANGED <<config, minted, shell, wishes>>

WorkerEnds ==
  /\ Wish /\ keeper.at # "none" /\ keeper' = NoWorker
  /\ UNCHANGED <<config, minted, shell>>

-----------------------------------------------------------------------------
CommandProceeds(c) ==
  \/ LocksSetup(c) \/ ReadsForSetup(c) \/ Identifies(c)
  \/ (\E d \in Domains : ReadsToUpdate(c, d)) \/ Updates(c) \/ Reloads(c)
  \/ Applies(c) \/ UpdateFails(c) \/ Leave(c)

SettingsNext ==
  \/ \E c \in Shells :
       \/ BeginSetup(c) \/ CommandProceeds(c) \/ CommandDies(c)
       \/ \E wants \in Wants, runs \in BOOLEAN : BeginUpdate(c, wants, runs)
  \/ UserEdits \/ WorkerStamps \/ WorkerCycles \/ WorkerEnds

\* The loop of the worker goes on; a command takes its steps.
SettingsFairness == WF_tvars(WorkerStamps) /\ WF_tvars(WorkerCycles)

SettingsSpec == SettingsInit /\ [][SettingsNext]_tvars /\ SettingsFairness

-----------------------------------------------------------------------------
\* README.md: init generates a source_id that is unique to the environment.  Whatever inits,
\* updates and edits overlap, and wherever they are cut off, it is generated once: a second
\* would split the history of the source.
SourceStands == minted <= 1 /\ (minted = 1 => config.sid = 1)

\* The intervals that c has written.
Written(c) == Asked(shell[c].wants) \ shell[c].left

\* A command that runs alone and is refused leaves the file as it found it.  Otherwise all that
\* it asks for parses; it has written a first part of that, collection first, and changed
\* nothing else, wherever it fails; and it is applied once all is there.  The file still parses,
\* but for an interval that was given inline.
AskedInOrder ==
  \A c \in Shells : shell[c].alone =>
    /\ ShellAt(c, "refused") => config = shell[c].found
    /\ shell[c].at \in Domains \cup {"replace", "reload", "apply", "failed"} =>
         /\ "bad" \notin {shell[c].wants[d] : d \in Domains}
         /\ "collection" \in shell[c].left => Written(c) = {}
         /\ config.exists = shell[c].found.exists /\ config.sid = shell[c].found.sid
         /\ \A d \in Domains :
              config.of[d] = IF d \in Written(c) THEN shell[c].wants[d] ELSE shell[c].found.of[d]
         /\ Parses(config) <=> \A d \in Written(c) : shell[c].found.form[d] # "inline"
    /\ ShellAt(c, "apply") => shell[c].left = {} /\ Parses(config)

\* Configuration file changes are reported, once the worker has taken the stamp of the file.
ChangesReported ==
  keeper.at = "cycle" /\ ~keeper.current ~> keeper.reported \/ keeper.at = "none"

\* Writers of config.toml never give it a second identity, and one that is alone writes what it
\* was asked for, in order, and nothing else.
SettingsHold == SourceStands /\ AskedInOrder
=============================================================================
