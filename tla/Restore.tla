------------------------------ MODULE Restore ------------------------------
(***************************************************************************)
(* The restore of a snapshot into an empty warehouse: bassoon restore,     *)
(* snapshot/restore.py and the backends.                                   *)
(*                                                                         *)
(* BigQuery stages the files by load jobs and publishes them with a query  *)
(* job, one transaction that also writes the receipt; a job outlives its   *)
(* client.  DuckDB and MotherDuck insert them and the receipt in one       *)
(* transaction; the file of a local DuckDB is open in one process at a     *)
(* time.  A user runs the command until it reports success.                *)
(***************************************************************************)
EXTENDS Naturals, FiniteSets

CONSTANTS Warehouses, \* among "duckdb", "motherduck" and "bigquery"
          Snapshots,
          Operators,  \* those who run the command
          Main,       \* the one who goes on until it succeeds
          Attempts,   \* the identifiers of an attempt, used again once nothing is left of it
          MaxMishaps  \* bound: lost replies, deaths, failures and commands of the others

ASSUME RestoreAssumption ==
  Warehouses \subseteq {"duckdb", "motherduck", "bigquery"} /\ Main \in Operators /\ MaxMishaps \in Nat

VARIABLES
  warehouse,  \* the backend
  shared,     \* the pairs of snapshots that have rows of the same primary key
  restored,   \* how many times the rows of a snapshot are in the tables
  receipts,   \* restore_receipts: the snapshots it names
  compaction, \* the scheduled query: on, running, off, or running though disabled (ending)
  attempt,    \* the stage and the last job of an attempt
  operator,   \* the commands in progress
  told,       \* for the properties: the snapshots reported as restored
  mishaps

rvars == <<warehouse, shared, restored, receipts, compaction, attempt, operator, told, mishaps>>

NoAttempt == "none"
NoSnapshot == "none"
\* A job is sent once its request has left, and active while BigQuery lists it.  since: what has
\* committed since its transaction began.  lists: the stages of others that the script asserts
\* to be empty.
NoJob == [kind |-> "none", state |-> "none", since |-> {}, lists |-> {}]
Nothing(s) == [snapshot |-> s, stage |-> "none", job |-> NoJob]
IdleOperator == [at |-> "idle", snapshot |-> NoSnapshot, attempt |-> NoAttempt, sees |-> {}]

RestoreInit ==
  /\ warehouse \in Warehouses
  /\ shared \in SUBSET {pair \in SUBSET Snapshots : Cardinality(pair) = 2}
  /\ warehouse # "motherduck" => shared = {}  \* not asked elsewhere
  /\ restored = [s \in Snapshots |-> 0] /\ receipts = {}
  /\ compaction = IF warehouse = "bigquery" THEN "on" ELSE "off"
  /\ attempt = [a \in Attempts |-> Nothing(NoSnapshot)]
  /\ operator = [o \in Operators |-> IdleOperator]
  /\ told = {} /\ mishaps = 0

Direct == warehouse \in {"duckdb", "motherduck"}
EmptyWarehouse == \A s \in Snapshots : restored[s] = 0
Active == {a \in Attempts : attempt[a].job.state \in {"pending", "running"}}
ActiveFor(s) == warehouse = "bigquery" /\ \E a \in Active : attempt[a].snapshot = s
Staged == {a \in Attempts : attempt[a].stage # "none"}
Unused(a) ==
  /\ a \notin Staged /\ attempt[a].job.state \notin {"sent", "pending", "running"}
  /\ \A o \in Operators : operator[o].attempt # a
\* A new identifier: one that is not in use is as good as another.
Fresh == LET free == {a \in Attempts : Unused(a)} IN
         IF free = {} THEN {} ELSE {CHOOSE a \in free : TRUE}

At(o, where) == operator[o].at = where
Goes(o, where) == operator' = [operator EXCEPT ![o].at = where]
\* The command ends; what it says is in told.
Returns(o) == operator' = [operator EXCEPT ![o] = IdleOperator]
Mishap == mishaps < MaxMishaps /\ mishaps' = mishaps + 1
Calm == mishaps' = mishaps
tables == <<restored, receipts>>
backend == <<warehouse, shared>>

-----------------------------------------------------------------------------
(* restore() and restore_prepared() *)

\* Without --cleanup-stages the receipt is the first thing read.  duckdb.connect() locks the file
\* of a local warehouse until the command ends.
Command(o) ==
  /\ At(o, "idle") /\ (IF o = Main THEN told = {} /\ Calm ELSE Mishap)
  /\ warehouse = "duckdb" => \A p \in Operators : At(p, "idle")
  /\ \E s \in Snapshots, clean \in BOOLEAN :
       operator' = [operator EXCEPT ![o].snapshot = s,
                      ![o].at = IF clean /\ warehouse = "bigquery" THEN "cleaning"
                                ELSE "inspecting"]
  /\ UNCHANGED <<backend, tables, compaction, attempt, told>>

\* MUTANT: the rows of a stage that was left count as contents of the warehouse.
InspectStages(o) ==
  LET s == operator[o].snapshot IN
  /\ At(o, "inspecting") /\ Calm
  /\ told' = IF s \in receipts THEN told \cup {s} ELSE told
  /\ IF s \notin receipts /\ ~ ActiveFor(s) /\ EmptyWarehouse
           /\ \A a \in Staged : attempt[a].stage # "loaded"
       THEN Goes(o, "preparing") ELSE Returns(o)
  /\ UNCHANGED <<backend, tables, compaction, attempt>>

\* restore_committed() and check_restore_empty(), which passes over the stages.
Inspect(o) ==
  LET s == operator[o].snapshot IN
  /\ At(o, "inspecting") /\ Calm
  /\ told' = IF s \in receipts THEN told \cup {s} ELSE told
  /\ IF s \notin receipts /\ ~ ActiveFor(s) /\ EmptyWarehouse
       THEN Goes(o, "preparing") ELSE Returns(o)
  /\ UNCHANGED <<backend, tables, compaction, attempt>>

\* MUTANT: the schedule is disabled, and a run in progress is left to end.
DisableOnly(o) ==
  /\ At(o, "preparing") /\ Calm
  /\ compaction' = CASE compaction = "on" -> "off" [] compaction = "running" -> "ending"
                     [] OTHER -> compaction
  /\ Goes(o, "entering")
  /\ UNCHANGED <<backend, tables, attempt, told>>

\* pause_compaction(): the schedule is disabled, and a run in progress is an error.
Prepare(o) ==
  /\ At(o, "preparing") /\ Calm
  /\ compaction' = CASE compaction = "on" -> "off" [] compaction = "running" -> "ending"
                     [] OTHER -> compaction
  /\ IF compaction \in {"running", "ending"} THEN Returns(o) ELSE Goes(o, "entering")
  /\ UNCHANGED <<backend, tables, attempt, told>>

\* restore_snapshot() of BigQuery, to the first clean-up of its own.
Enter(o) ==
  LET s == operator[o].snapshot IN
  /\ At(o, "entering") /\ warehouse = "bigquery" /\ Calm
  /\ told' = IF s \in receipts THEN told \cup {s} ELSE told
  /\ IF s \in receipts THEN Returns(o)
     ELSE IF ActiveFor(s) THEN Goes(o, "asking") ELSE Goes(o, "clearing")
  /\ UNCHANGED <<backend, tables, compaction, attempt>>

\* The handler of restore_prepared(): the receipt decides, unless it cannot be read.
Ask(o) ==
  LET s == operator[o].snapshot IN
  /\ At(o, "asking") /\ Calm /\ Returns(o)
  /\ told' = IF s \in receipts THEN told \cup {s} ELSE told
  /\ UNCHANGED <<backend, tables, compaction, attempt>>

-----------------------------------------------------------------------------
(* cleanup_restore_stages(): from the command, and from restore_snapshot() *)

\* _restore_jobs(): the owned jobs BigQuery lists, of any attempt.
ListJobs(o) ==
  /\ operator[o].at \in {"cleaning", "clearing", "tidying", "tidyingFailed"} /\ Calm
  /\ operator' = [operator EXCEPT ![o].sees = Active,
                    ![o].at = CASE At(o, "cleaning") -> "draining"
                                [] At(o, "clearing") -> "drainingFirst"
                                [] At(o, "tidying") -> "drainingLast"
                                [] OTHER -> "drainingFailed"]
  /\ UNCHANGED <<backend, tables, compaction, attempt, told>>

Draining == {"draining", "drainingFirst", "drainingLast", "drainingFailed"}
Drained(o) == operator[o].at \in Draining /\ operator[o].sees \cap Active = {}
WithoutStages(as) ==
  [a \in Attempts |-> IF a \in as THEN [attempt[a] EXCEPT !.stage = "none"] ELSE attempt[a]]

\* job.cancel(): a request the job may still outrun.
Cancel(o) ==
  /\ Calm
  /\ \E a \in Active :
       /\ \/ operator[o].at \in Draining /\ a \in operator[o].sees
          \/ At(o, "settling") /\ a = operator[o].attempt
       /\ attempt' = [attempt EXCEPT ![a].job.state = "failed"]
  /\ UNCHANGED <<backend, tables, compaction, operator, told>>

Discard(o) ==
  /\ Drained(o) /\ operator[o].at \in {"draining", "drainingFirst"} /\ Calm
  /\ attempt' = WithoutStages(Staged)
  /\ Goes(o, IF At(o, "draining") THEN "inspecting" ELSE "staging")
  /\ UNCHANGED <<backend, tables, compaction, told>>

-----------------------------------------------------------------------------
(* The attempt on BigQuery *)

CreateStage(o) ==
  /\ At(o, "staging") /\ Calm
  /\ \E a \in Fresh :
       /\ attempt' = [attempt EXCEPT
            ![a] = [snapshot |-> operator[o].snapshot, stage |-> "empty", job |-> NoJob]]
       /\ operator' = [operator EXCEPT ![o].at = "loading", ![o].attempt = a]
  /\ UNCHANGED <<backend, tables, compaction, told>>

\* _submit_load() and the query of _commit_restore(), which names the other stages it lists.
Submit(o, kind, from) ==
  LET a == operator[o].attempt
      Sent(state) == attempt' = [attempt EXCEPT
        ![a].job = [kind |-> kind, state |-> state, since |-> {},
                    lists |-> IF kind = "commit" THEN Staged \ {a} ELSE {}]]
      \* A clean-up in progress watches the jobs it listed, not the next one of the attempt.
      Moves(where) == operator' = [p \in Operators |->
        [operator[p] EXCEPT !.sees = @ \ {a}, !.at = IF p = o THEN where ELSE @]] IN
  /\ At(o, from)
  /\ \/ Calm /\ Sent("pending") /\ Moves("awaiting")
     \/ Mishap /\ Sent("sent") /\ Moves("asking")  \* the client gives up the request
  /\ UNCHANGED <<backend, tables, compaction, told>>
SubmitLoad(o) == Submit(o, "load", "loading")
SubmitCommit(o) == Submit(o, "commit", "committing")

\* _wait_restore_job(): a request the service refused allows the clean-up, another failure
\* does not.
Await(o) ==
  LET job == attempt[operator[o].attempt].job IN
  /\ At(o, "awaiting") /\ warehouse = "bigquery" /\ Calm
  /\ job.state \in {"done", "refused", "failed"}
  /\ Goes(o, CASE job.state = "failed" -> "asking" [] job.state = "refused" -> "tidyingFailed"
               [] job.state = "done" /\ job.kind = "load" -> "committing" [] OTHER -> "tidying")
  /\ UNCHANGED <<backend, tables, compaction, attempt, told>>

WaitFails(o) ==
  /\ At(o, "awaiting") /\ warehouse = "bigquery" /\ Mishap /\ Goes(o, "settling")
  /\ UNCHANGED <<backend, tables, compaction, attempt, told>>

\* _drain_restore_job(); the wait raises whatever the job has come to.
Settle(o) ==
  /\ At(o, "settling") /\ Calm
  /\ operator[o].attempt \notin Active
  /\ Goes(o, "asking")
  /\ UNCHANGED <<backend, tables, compaction, attempt, told>>

\* The finally clause of restore_snapshot(): its own stages alone.
Tidy(o) ==
  /\ Drained(o) /\ operator[o].at \in {"drainingLast", "drainingFailed"} /\ Calm
  /\ attempt' = WithoutStages({operator[o].attempt})
  /\ IF At(o, "drainingLast")
       THEN Returns(o) /\ told' = told \cup {operator[o].snapshot}
       ELSE Goes(o, "asking") /\ UNCHANGED told
  /\ UNCHANGED <<backend, tables, compaction>>

-----------------------------------------------------------------------------
(* The attempt on DuckDB and MotherDuck *)

Begin(o) ==
  LET s == operator[o].snapshot IN
  /\ At(o, "entering") /\ Direct /\ Calm
  /\ told' = IF s \in receipts THEN told \cup {s} ELSE told
  /\ IF s \in receipts THEN Returns(o) /\ UNCHANGED attempt
     ELSE IF ~ EmptyWarehouse THEN Goes(o, "asking") /\ UNCHANGED attempt
     ELSE \E a \in Fresh :
            /\ attempt' = [attempt EXCEPT ![a] = [Nothing(s) EXCEPT
                 !.job = [kind |-> "commit", state |-> "running", since |-> {}, lists |-> {}]]]
            /\ operator' = [operator EXCEPT ![o].at = "awaiting", ![o].attempt = a]
  /\ UNCHANGED <<backend, tables, compaction>>

\* COMMIT is answered.
Answered(o) ==
  LET a == operator[o].attempt IN
  /\ At(o, "awaiting") /\ Direct /\ Calm /\ a \notin Active
  /\ IF attempt[a].job.state = "done"
       THEN Returns(o) /\ told' = told \cup {operator[o].snapshot}
       ELSE Goes(o, "asking") /\ UNCHANGED told
  /\ UNCHANGED <<backend, tables, compaction, attempt>>

\* The deadline passes before COMMIT, and ROLLBACK undoes the transaction, or after it.
Expires(o) ==
  LET a == operator[o].attempt IN
  /\ At(o, "awaiting") /\ Direct /\ Mishap /\ Goes(o, "asking")
  /\ attempt' = IF a \in Active THEN [attempt EXCEPT ![a].job.state = "failed"] ELSE attempt
  /\ UNCHANGED <<backend, tables, compaction, told>>

-----------------------------------------------------------------------------
(* The warehouse *)

Job(a, kind, state) == attempt[a].job.kind = kind /\ attempt[a].job.state = state
Becomes(a, state) == attempt' = [attempt EXCEPT ![a].job.state = state]
others == <<backend, operator, told, mishaps>>

Arrives(a) ==
  /\ attempt[a].job.state = "sent" /\ Becomes(a, "pending")
  /\ UNCHANGED <<tables, compaction, others>>

Load(a) ==
  /\ Job(a, "load", "pending")
  /\ attempt' = IF a \in Staged
                THEN [attempt EXCEPT ![a].stage = "loaded", ![a].job.state = "done"]
                ELSE [attempt EXCEPT ![a].job.state = "failed"]
  /\ UNCHANGED <<tables, compaction, others>>

\* The script begins: its assertions are read as of now, as are the stages.
StartCommit(a) ==
  LET lists == attempt[a].job.lists IN
  /\ Job(a, "commit", "pending")
  /\ Becomes(a, IF a \notin Staged \/ ~ lists \subseteq Staged THEN "failed"
                ELSE IF ~ EmptyWarehouse \/ \E b \in lists : attempt[b].stage = "loaded"
                       THEN "refused"
                ELSE "running")
  /\ UNCHANGED <<tables, compaction, others>>

\* MUTANT: the script does not take the control row.
Unrelated(s, t) == FALSE

\* The update of the control row makes two scripts conflict.  On a direct backend two
\* transactions that insert the same key conflict: that of the receipt of one snapshot, or of
\* its rows.
Conflicts(s, t) == warehouse = "bigquery" \/ s = t \/ {s, t} \in shared

Commit(a) ==
  LET s == attempt[a].snapshot IN
  /\ Job(a, "commit", "running")
  /\ IF \E t \in attempt[a].job.since : Conflicts(s, t)
       THEN Becomes(a, "refused") /\ UNCHANGED tables
     ELSE /\ restored' = [restored EXCEPT ![s] = @ + 1] /\ receipts' = receipts \cup {s}
          /\ attempt' = [b \in Attempts |->
               IF b = a THEN [attempt[b] EXCEPT !.job.state = "done"]
               ELSE IF Job(b, "commit", "running")
                 THEN [attempt[b] EXCEPT !.job.since = @ \cup {s}]
               ELSE attempt[b]]
  /\ UNCHANGED <<compaction, others>>

JobFails(a) ==
  /\ a \in Active /\ Mishap /\ Becomes(a, "failed")
  /\ UNCHANGED <<backend, tables, compaction, operator, told>>

\* The nightly script takes the control row too.
CompactionRuns ==
  /\ compaction = "on" /\ compaction' = "running"
  /\ UNCHANGED <<tables, attempt, others>>
CompactionEnds ==
  /\ compaction \in {"running", "ending"}
  /\ compaction' = IF compaction = "running" THEN "on" ELSE "off"
  /\ attempt' = [a \in Attempts |->
       IF Job(a, "commit", "running") THEN [attempt[a] EXCEPT !.job.since = @ \cup {"compaction"}]
       ELSE attempt[a]]
  /\ UNCHANGED <<tables, others>>

\* An error that no handler resolves, or the death of the command: its jobs go on, but for a
\* transaction in its own process.
Dies(o) ==
  /\ ~ At(o, "idle") /\ Mishap /\ Returns(o)
  /\ attempt' = [a \in Attempts |->
       IF warehouse = "duckdb" /\ a = operator[o].attempt /\ a \in Active
         THEN [attempt[a] EXCEPT !.job.state = "failed"] ELSE attempt[a]]
  /\ UNCHANGED <<backend, tables, compaction, told>>

-----------------------------------------------------------------------------
Restores(o) ==
  \/ Inspect(o) \/ Prepare(o) \/ Enter(o) \/ Ask(o)
  \/ ListJobs(o) \/ Discard(o) \/ CreateStage(o) \/ SubmitLoad(o) \/ SubmitCommit(o)
  \/ Await(o) \/ Settle(o) \/ Tidy(o) \/ Begin(o) \/ Answered(o)
Proceeds(a) == Arrives(a) \/ Load(a) \/ StartCommit(a) \/ Commit(a)
RestoreNext ==
  \/ \E o \in Operators :
       Command(o) \/ Restores(o) \/ Cancel(o) \/ WaitFails(o) \/ Expires(o) \/ Dies(o)
  \/ \E a \in Attempts : Proceeds(a) \/ JobFails(a)
  \/ CompactionRuns \/ CompactionEnds

\* A user tries again, a command goes on, a job and a run of the compaction end.
RestoreFairness ==
  /\ WF_rvars(Command(Main)) /\ WF_rvars(CompactionEnds)
  /\ \A o \in Operators : WF_rvars(Restores(o))
  /\ \A a \in Attempts : WF_rvars(Proceeds(a))
RestoreSpec == RestoreInit /\ [][RestoreNext]_rvars /\ RestoreFairness

-----------------------------------------------------------------------------
\* The rows of a snapshot are in the tables once if a receipt names it and else not at all,
\* however attempts were cut, repeated or run side by side, and a success that was reported is
\* there.  Two snapshots are never mixed, but on MotherDuck those that have no key in common;
\* even there, what has been restored when a transaction begins is seen by it.
RestoredWhole ==
  /\ \A s \in Snapshots : restored[s] = IF s \in receipts THEN 1 ELSE 0
  /\ told \subseteq receipts
  /\ \A s, t \in receipts : s = t \/ (warehouse = "motherduck" /\ {s, t} \notin shared)
  /\ \A a \in Attempts : Job(a, "commit", "running") => receipts \subseteq attempt[a].job.since

\* No run of the compaction meets the rows of a restore: from the first stage or insert on
\* the schedule is off and its last run has ended.
CompactionIsQuiet ==
  \A o \in Operators :
    operator[o].attempt # NoAttempt => compaction = "off"

\* What an attempt left behind, stages, jobs or a disabled schedule, never stands in the way
\* of the next: as long as the user goes on, a snapshot is restored in the end.
RetriesRestore == <>(receipts # {})

\* A restore takes effect once, and no compaction meets it.
RestoresOnce == RestoredWhole /\ CompactionIsQuiet
=============================================================================
