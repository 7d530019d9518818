# UsageBassoon in TLA+

UsageBassoon turns the JSON that the `tokscale` command prints about local AI-agent
sessions into a durable history of token usage. A collector runs `tokscale`, validates
and normalises the result, and persists it in DuckDB, MotherDuck or BigQuery. An
archiver captures the history in portable snapshots kept in a local directory or a
Google Cloud Storage bucket, from which it can be restored. The program may run by hand,
from launchd or systemd, or as a worker of its own, in several processes and on several
hosts at once.

This directory holds TLA+ modules that model the parts of the program in which order,
interruption and concurrency matter, the TLC configurations that check them, and proofs
about them that TLAPS checks. `PROJECT.json` maps each definition to the lines it models,
each property to a change of the code that breaks it, and each hazard of the code to the
properties that watch it.

## The system and its parts

Paths are relative to `src/src/usagebassoon/`.

| Part | State it keeps | Operations | Hard behaviours | Correct when |
| --- | --- | --- | --- | --- |
| Snapshot reservation (`snapshot/catalog.py`: `hold`, `check`, `mutate`, `_update_reservation`) | `control.json`: fence, owner, expiry; per object `fence`, `_failure` | claim, renew (by a thread), check, mutate, release | compare-and-swap against other processes, lost replies, expiry under a holder that is still alive, a renewal thread that outlives its join | one holder at a time; fences only grow; only the holder changes records; a live lease is respected; loops end |
| Snapshot lifecycle (`snapshot/catalog.py`: `stage`, `publish`, `pin`, `retire`, `rotate`, `resume_cleanup`) | records in `control.json`, `<id>/state.json`, the objects of `<id>` | transitions committed to `control.json`, then projected to the sidecar; tombstone, exact deletion, forgetting | a crash or a lapsed lease between any two requests | published snapshots are whole and stay whole; pins hold; nothing is lost or left behind |
| Archiver (`archiver.py`) | a workspace on disk | capture, copy, pin, delete, roll back, several destinations | partial failure, rollback of work whose fate is unknown; tables read one by one while runs are published | a failed capture does no harm to what was published; a snapshot is of one instant |
| Buckets (`buckets/`) | objects with versions, gates that pace changes | create-only upload, compare-and-swap, exact deletion, listing | requests lost, late or repeated after they took effect; locks and renames | nothing is written over a version that was not read; answers are true |
| Snapshot reader (`snapshot/reader.py`) | none | choose, verify, download | copies damaged, archives closed, rotation meanwhile | the latest readable snapshot, or a notice |
| Restore (`snapshot/restore.py`, `cli/restore.py`) | receipts, stages and jobs in the warehouse | stage, commit, clean up, inspect | a commit whose acknowledgement is lost, jobs that outlive the command, two restores at once, of one snapshot or of two | a restore takes effect once, and in the end; snapshots are not mixed |
| Collection (`collector.py`, `orchestrator.py`, `ingest.py`, `reconcile.py`) | status of days, issues, sessions, drift; prices and their checkpoint | plan the days, ask `tokscale`, judge, publish | midnight and late usage between reading and publishing, contradictory answers, failed reports | what is complete is final; nothing is forgotten or hidden |
| Contracts (`contracts.py`) | none | compare an answer with its pinned shape | arrays within arrays, empty or null or absent | what is accepted has what is required in every member |
| Persistence (`persistence.py`, `storage_model.py`) | rows of the history | preserve counts, persist with retries | acknowledgement lost, late batches, other collectors | counts never go down, a run is recorded once |
| DuckDB and MotherDuck (`backends/base.py`, `duckdb_local.py`, `motherduck.py`) | current tables, runs | transactional upsert, curated writes, restore, init | retry after an unknown outcome | as above |
| BigQuery and compaction (`backends/bigquery.py`, `sql/bigquery/`) | raw tables, ledger, compacted tables, views, labels | concurrent appends, then the run; nightly compaction; init in steps; restore by jobs | partial appends, duplicates, compaction beside appends, jobs without their client | what views show is independent of when compaction ran |
| Scheduling (`scheduling.py`) | process file, unit files, what the platform has loaded | install, start, stop, remove, worker loop | signals before handlers, commands cut short or side by side, a worker that dies or is overlooked while it is recorded | a running worker can be found and stopped; the next command heals |
| Deadlines (`deadlines.py`, `process.py`) | a resource in a child process, its pipes and timers | call, discard at the deadline, capture output | a call that outlives its budget, late replies, a dead owner | an answer belongs to its request; everything ends |
| Curation (`curation.py`) | tags and notes | add, rename, remove, set, edit | users who cross each other | no assignment is lost, the newest note stands |
| Configuration (`config.py`) | `config.toml` | source identity, intervals | writers with and without a lock, commands that fail between two writes | one identity; what was asked for, in order, and nothing else |
| Logging, privacy, diagnostics, parsers, command line, other SQL | none between calls | validation, parsing, printing | - | - |

The parts meet in these places. The collector reads the history's state from a backend,
hands a batch to persistence, and persistence calls the backend until it has an answer.
The archiver captures the history through a backend, holds the reservation of one archive
per destination while it works there, and moves every record through the lifecycle, whose
every change is a `mutate` under that reservation; reservation and lifecycle store
everything in a bucket. `deadlines.limited` puts a budget on each of these calls. Nothing
but the bucket and the database is shared between processes; within a process the renewal
thread shares one `Catalog` object with the main thread.

## Modules

| Module | Models |
| --- | --- |
| `FencedArchive` | what the reservation of an archive promises, without time or retries; `Reservation` implements it (`KeepsPromise`) |
| `Reservation` | `Catalog.hold`, `check`, `mutate`, `_update_reservation` and the renewal thread |
| `MCReservation` | its instance for TLC, for safety |
| `ReservationProofs` | theorems about `Reservation` |
| `LifecycleProofs`, `SidecarProofs` | theorems about `Lifecycle`: its records and objects, its sidecars |
| `ObservationProofs` | theorems about `Observation`: the order of rows, what a fold of rows yields |
| `AppendCompactProofs`, `CollectionProofs` | theorems about `AppendCompact` and `Collection` |
| `DataProofs` | theorems about `Bucket`, `Pacing`, `PinnedRead`, `RecoveryRead`, `Curation`, `Sessions`, `Contract`, `PriceCheckpoint` and `Destinations`, and of these within `MCData` |
| `HostProofs` | theorems about `Worker`, `Supervised`, `Budgets`, `Capture`, `NativeSchedule`, `Restore`, `Installation` and `Settings`, and of these within `MCHost` |
| `RecoveryPoints` | what an archive promises about its snapshots; `Lifecycle` implements it (`KeepsRecoveryPoints`) |
| `Lifecycle` | `stage`, `transition`, `publish`, `pin`, `retire`, `rotate`, `resume_cleanup`, and `write`, `copy`, `pin`, `delete`, `_rollback` of the archiver |
| `MCLifecycle` | its instance for TLC, for safety |
| `MCArchive` | `Reservation`, and `Lifecycle` twice, where something must happen in the end |
| `Observation` | the order of daily observations, `preserve_daily_tokens`, and the fold of `current_daily_stats`; operators only |
| `AppendCompact` | a run of `collect` into BigQuery: preflight, `persist_with_retries`, `persist_batch`, its load jobs; nightly compaction, the expiry of raw partitions |
| `MCAppendCompact` | its instance for TLC |
| `UsageRecord` | what a history of usage promises: none invented, none forgotten; `Collection` implements it (`RecordsUsage`) |
| `Collection` | a run into DuckDB or MotherDuck: plan of days, answers, completeness, issues, the publication transaction and its retries |
| `PriceCheckpoint` | prices of models, `custom-pricing.json`, the checkpoint that says which presence the prices answer to |
| `Sessions` | what is known of sessions: usage by day, `report` and the days it is asked for, its statuses; payload drift |
| `Contract` | `diff_contract` on payloads with arrays in arrays, against a definition by members of the outer one and what its docstring says |
| `Curation` | tags and the note of a session under several users, on both kinds of stores |
| `PinnedRead` | `stream_snapshot`: tables read as of one instant beside publications |
| `RecoveryRead` | `SnapshotReader.candidates` and `prepare` over several archives |
| `VersionedObject`, `Bucket` | one object with versions; the local and the GCS adapter implement it (`KeepsVersions`) |
| `Pacing` | the gates that keep changes of one GCS object an interval apart |
| `Destinations` | `SnapshotArchiver.write` with several destinations: what is due, claims, one capture, `rotate` with its limits, what the caller is told |
| `MCData` | the parts above from `Collection` on, side by side, for TLC |
| `Worker` | the detached worker, its snapshot thread, signals and process file; `schedule start` and `stop` |
| `NativeSchedule` | `install`, `start`, `stop`, `remove` as lists of steps over systemd or launchd |
| `Supervised` | a resource in a child process: exchanges, timers, termination, orphans |
| `Budgets` | how budgets nest, pass to threads and end: `operation`, `limited`, `cleanup_budget`, and the waits they bound |
| `Capture` | the bounded capture of a command's output |
| `Restore` | `bassoon restore`: receipts, stages, jobs, clean-up, repetition |
| `Installation` | `bassoon init`: labels, script jobs, schedule, repetition and overlap |
| `Settings` | who writes `config.toml`, and what the worker makes of it |
| `MCHost` | the parts from `Worker` on, side by side, for TLC |

### Reservation

`control` is the document `control.json`: fence, holder, what is left of the lease, and the
author of the latest change of its records (their content is `Lifecycle`'s). `current` is
the set of threads whose last read is still what is stored: every write empties it, which
is what a compare-and-swap on a version that is never reused can tell. `main`, `goal` and
`renewer` say where the two threads of each `Catalog` are, `sent`, `tries` and `age` belong
to the compare-and-swap loop each is in, `fence` and `failed` are `Catalog.fence` and
`Catalog._failure`.

Each loop is a read (`ClaimRead`, `AuthorisedRead`, `ReleaseRead`, `RenewerRead`) and then
one of three ends: the write is applied and answered (`...Commits`); it is refused, or
applied with its reply lost, so that the client's repetition is refused (`...Conflicts`);
or it raises, applied or not (`...Raises`). Everything between two requests to the store
is one step. `Check` renews, from the main thread, when a third of the lease is gone. `Join` may end while the
renewal thread still runs (`JoinMayTimeOut`); the release then runs without the lock
and drops `Catalog.fence`, which the renewal thread reads when it writes: `Reserved` takes
the fence as the thread finds it. Time is a countdown of the lease and an age of every
write under way; `Tick` is not bound to anything, so a process may be suspended anywhere.
`limited` bounds what the caller waits for (`InTime`), not when the store applies a write
whose caller has given up (`MainRaises` may apply it).

### Lifecycle

One archive with its records, sidecars and objects; each `Catalog` does one task at a time
inside `hold`. A step is one request to the store, or one decision between two of them.
`session[c].at` is the request about to be made, `part` decides where the task goes on when
a transition or a retirement ends or fails, `draft` is the state being moved through
`transition`, `seen` the version of the sidecar, `refs` what retirement still has to delete,
`todo` what `resume_cleanup` still has to look at. From `Reservation` it takes that fences
grow and that a change of the records commits only while the fence is one's own (`Owner`);
a lease may lapse under a living holder (`Lapse`), who finds out only where the code checks
(`Authority`). An object's version is the fence of the operation that created it. The
tables of a snapshot and their manifest are one object, `data`; `COMPLETE` is the other.
Which snapshots the limits of `rotate` spare is left open here (`Rotate` may pick any that is
published and not pinned); `Destinations` has them.

### AppendCompact

One source and one daily fact. A run (`run[r]`) reads what the history shows of the fact
(`Preflight`, the view `collection_preflight`), asks `tokscale` later (`Observe`), and
publishes an observation in which the token counts are at least those it read. Its loads
run side by side: each is answered (`Loaded`), fails (`LoadFails`), or is given up by its
client, which tries to cancel it but cannot be sure (`_wait_for_job`), and may land at any
later time (`late`, `LandsLate`), also after its process died (`Abort`). When all have been
answered, a batch without errors goes on to the ledger (`Certify`); any other is loaded
again in full or given up, so `raw` holds duplicates: what the view reads is a set of rows,
what compaction compares is their number. `Others` are the tables beside `daily_stats`,
of which only the landing matters. Runs of a source overlap freely: outside DuckDB
`collection_lock` does nothing. A compaction is a transaction: it reads the rows, the
compacted fact and its own progress as of one instant (`BeginCompaction`) and commits them
together, upon which the others under way are bound to abort, since each updates the same
singleton row (`CommitCompaction`, `AbortCompaction`). `Expire` drops a raw partition that
has been processed: ninety days of retention against a compaction every night; that
expiry never comes first is assumed, not shown.

### Collection and UsageRecord

A collector (`coll[c]`) goes through `Start`, `Lock` (only DuckDB's lock excludes), `Preflight`,
one `Fetch` per planned day, `Build`, and `Publish`, which is one transaction. `Plan` is the plan of
days of `orchestrator.py`: days that are not complete, the latest days of usage, or the
range asked for. `used` is what `tokscale` would report and grows until `Midnight` and,
for the day before, some time after it; `closed` is what it was when the day ended.
`NewState`, `Says` and `RowsOf` judge the answers (complete, provisional, partial, failed;
an issue found or resolved; rows published or not). `PublishUnheard` applies the transaction and
loses the answer; `PublishFails` loses the request; `Again` is the bounded retry, and
`Apply` does nothing when `collection_runs` has the run. `Merged` and `NewerStatus` are the
conditional upserts. `UsageRecord` is the promise: the history shows no more than was used and no
less than it showed.

### PriceCheckpoint

`prices` are the current rows of `price_versions`, `checkpoint` is `state.json`, `custom` the
user's `custom-pricing.json`. A run loads what is stored (`Load`), opens its profile
(`OpenProfile`), prepares (`Recovered`, `Prepare`), drops what did not change
(`FetchPrices`), publishes (`PublishPrices`) and acknowledges (`Acknowledged`, `Acknowledge`); any of
these may be the last (`GiveUp`), the file may change (`Edit`) or the checkpoint be lost
(`LoseCheckpoint`) in between.

### Sessions

`turns`, `born` and `listed` are `tokscale`'s sessions: how far each has come, the UTC day of
its creation, and the day `tokscale` counts it to, which may be the one before or after. A run plans
(`PlanReport`: `Missing`, `Wanted`), asks (`Ask`, with the window `Window` adds to both sides),
and publishes rows, statuses and drift (`PublishReport`: `Outcome`, `Failed`, `Resolved`,
`NewRows`, `NewEvents`). A report may be unanswered, refused by its contract or its parser,
or leave out sessions.

### Contract

Every payload of the bounded shape and every choice of required paths is an initial state;
`Check` gives the verdict of `diff_contract`. `Types`, `Everywhere` and
`EmptyArrayAncestor` are its gathering of types over members: of the outer array these are told apart, while
`TypesIn` one of them the members of the inner array are not. `Good` says what that gathering can tell, member by member;
`MissingIsFatal` is what the docstring says, which is more (see Findings).

### Curation

A command takes its stamp (`Issue`) and then goes statement by statement: `AddTag` looks and
inserts, `RenameTag` finds, checks and writes, `SetNote` looks, compares and writes.
`observations` is a table with one row per key on DuckDB and MotherDuck (`Upserted`, `Deleted`) and the
log of all writes on BigQuery, of which the view shows the newest (`NewestRows`, `CurrentRows`).

### PinnedRead and RecoveryRead

`log` has a version of the warehouse for each commit: of how many runs each table has the rows.
`TakeReadPoint` fixes the version, `QueryTable` runs a query per table as of it, `TakeBatch` and
`Resume` read its stream with the row count that a broken stream is resumed from.

`copies` says what each archive has of each snapshot. `Discover` lists one archive after
another, or passes it over with a notice; `reader.todo` is the set of candidates still to be
tried, the next of which is the first by `CandidateOrder`: `Hold` takes the reservation, `Read` verifies and downloads object by object, `Reject` goes on to the next,
`Yield` returns. `Rotate` deletes copies that no reservation protects.

### VersionedObject, Bucket and Pacing

`history` holds every content of one object by version. The local adapter reads under a lock,
compares, replaces and stats (`ReadLocal`, `LockLocal`, `Compare`, `ReplaceLocal`, `StatLocal`).
The GCS adapter reads metadata and content, sends a request with a generation precondition, which the server
may serve at any later time, heard or not (`Serve`), retries, and reads the version of what it wrote
(`Reload`). A content is the set of calls merged into it, so that a lost update shows.
`VersionedObject` promises that reading, changing and writing is one step.

`KeepsVersions` is the refinement; `BucketsHold` joins it with the other properties of buckets.

`Pacing` has the table of gates, their users and times, and threads between looking a gate
up (`Joins`), taking it (`Acquires`), the request (`Requests`, `Returns`) and giving it back
(`Releases`, `Parts`); `Forgotten` is the condition under which an idle gate is dropped.

### Destinations

`shelf[d]` is what destination `d` has published and not retired, in order of capture, `claimed[d]`
whose reservation runs there, `writer[h]` the call of `write` on a host. It goes through the
destinations in order (`LookForDue`, `ClaimDestination`, `StageDestination`, which looks again with
the claim), captures once (`CaptureOnce`), publishes (`PublishCopy`) and rotates (`StartRotation`,
`RetireEntry`) at one destination after the other, and releases its claims (`ReleaseClaim`).
`RolesDue` is `_roles`, `Visit` one turn of the loop of `rotate`, `Result` what the caller is
told. Any of these may fail (`StagingFails`, `PublicationFails`, ...), the host die, a lease lapse, and
snapshots be pinned or deleted in between. One transition at one destination is one step: `Lifecycle`
has its requests, `Reservation` the claim. All hosts have one retention policy, since a claim with
another one than the archive's is refused. `Retained` states what is to be kept, without the loop.

### Worker and NativeSchedule

`worker[w]` and `snapshots[w]` are the two threads of each worker process, `stopping` its
event, `command` the shells that run `schedule start` and `stop`, side by side. Before its handlers are
installed SIGTERM kills a worker; after that it sets the event (`Signal`) which each loop tests.
A command reads `worker.pid` (`saw`) and changes it in later steps; it spawns a worker and records its number in a
second step, before which the worker may die, and which may fail. A command may end anywhere (`CommandEnds`).
`lost` are the workers no command can find: their start was cut off before it recorded them or could
not tell them to go, or a command changed the file over a number it had not read (`Overlooks`). `WorkerRecorded`
says that there are no others.

A native command is a list of steps (`Steps`), each on a file or on systemd or launchd. `Must`
steps end the command when they fail, `May` steps are passed over. `Interrupted` ends
a command between two steps.

### Supervised, Budgets and Capture

`thread` is where each caller is in an exchange, `inbox` and `outbox` are the pipes, `child` the loop
of the child process, `timers` its interrupts. A bounded wait may run out at any moment
(`AcquireTimesOut`, `WaitTimesOut`), upon which the child is killed and the resource closed (`Terminate`). The
owner may die (`OwnerDies`): the child finds the end of its pipe (`EndOfRequests`).

`Budgets` takes the waits' durations, which `Supervised` leaves open: `instant` is the clock, `deadlines`
the `Deadline` objects with their parents and allowances, `task[t].scopes` the scopes a thread is in. Time may
pass between `limited`'s reading of what is left (`ReadLimit`) and the deadline it makes of it
(`EnterLimited`). A thread may begin with a copy of another's context (`BeginTask`), whose scopes the other may leave
first. `BeginSend` and `Connects` are `DeadlineAdapter.send`.

`Capture` counts bytes per pipe: written, read and kept up to the limit. The command may exit, leave
processes that hold the pipes (`strays`), a read may fail, the deadline and then the cleanup
deadline may pass.

### Restore, Installation, Settings

`operator[o]` is a command, `attempt[a]` the stage and the last job of an attempt, which outlive it. A
command looks for receipts and for stages left behind (`Inspect`), disables compaction and waits
(`Prepare`, `Drained`), lists and cancels jobs, discards stages, creates its own, loads
(`SubmitLoad`) and commits (`SubmitCommit`) by jobs, and settles what it heard (`Settle`,
`Tidy`). On DuckDB and MotherDuck the restore is one transaction. The file of a DuckDB is open in one process
at a time (`Command`); on the others any commands may be in progress, of any snapshots. `Conflicts` is the
conflict of transactions: on BigQuery two that update the control row, on MotherDuck two that insert a common
primary key, that of the receipt or of a row. `shared` are the pairs of snapshots that have such a row.

`admin[a]` is an `init`, `job[a]` its last job: the one that creates the marker (`SubmitMarker`), whose table
the command reads back with a request of its own (`FetchMarker`), or the script, which the warehouse runs
statement by statement. `marker` carries the label that says how far an init came; `Labels` is the conditional
update by etag. `overlap` fixes what a behaviour allows: inits one after the other, inits beside
jobs of earlier ones, or inits beside each other.

`config` has the identity, the intervals and the form each is given in; `shell[c]` is a command that sets the
file up or rewrites it, `left` the intervals it has yet to write, `keeper` the worker, whose
stamp of the file is taken after it was loaded. A command reads and replaces the file once per interval
(`ReadsToUpdate`, `Updates`), loads it again (`Reloads`) and installs or begins (`Applies`); each of these may
fail (`UpdateFails`, `Reloads`). `Rewritten` knows a table by its header alone, as the code does.

## Runs

| Run | Question | Result |
| --- | --- | --- |
| `reservation_fencing` | Does fencing survive renewal threads that outlive their join? | yes: distinct fences, fenced changes, live leases kept |
| `archive_progress` | Does the reservation implement `FencedArchive` when renewal threads end before their join, and do all its loops end under contention and lost replies? Does every task end though requests fail? If processes only die: is everything stored accounted for, and does the next capture clean up? | yes |
| `reservation_expiry` | "claim will expire", says the message of a failed release. | no, see Findings |
| `lifecycle_safety` | Does the lifecycle implement `RecoveryPoints`, publish only what its owner made, spare what is pinned, and keep sidecars in order, under failures, lost replies and overtaken owners? | yes |
| `append_certified` | Does the collection ledger hold only runs whose tables have all landed, and is every row compacted in the end, also one that lands during compaction? | yes |
| `append_shown` | Can retries, late loads, loads in any order, overlapping compactions or expiry lose an observation, show an older one, or lower the usage shown? | no; usage falls only when a run lands whose preflight was overtaken |
| `append_usage` | Token usage "can never be reduced", says `CONTRIBUTING.md`. Is that so on BigQuery? | no, see Findings |
| `data` | Of each part through which data comes in and goes out: is what is complete final, are prices, sessions, tags and notes what they should be, is a snapshot of one instant, is the latest readable one restored, does a bucket lose no update, are snapshots at several destinations spaced, retained and reported as they should be? | yes |
| `collection_resolved` | Are issues that a run resolves proven clear? | no, see Findings |
| `contract_members` | A required field "missing from an array member" is fatal, says `diff_contract`. | not in a nested array, see Findings |
| `init_repeat` | "`init` is safe to repeat", says `README.md`. | not while a job of the last one runs, see Findings |
| `host` | Of each part that runs beside the data: can a worker be found, unless its start was cut off or overlooked, do answers belong to their requests, does no wait outlast a budget around it, is output whole, does a restore take effect once and in the end, do schedules, init and settings heal after commands cut short? | yes |

Several properties are conjunctions, one conjunct per fact; each conjunct is a definition of its
own with its comment. `CrashesHeal` joins `NothingLeftBehind` and `CleanStart`;
`HistoryStands` a type invariant, `CompleteIsFinal`, `AppendedOnce` and `DoubtIsReported`; `SessionsStand` a
type invariant, `SessionsKnown`, `StaleIsShown` and `DriftStands`; and so on. `PROJECT.json` gives the
conjunctions a mutant for each conjunct that is not a type.

### Bounds

Every bound is a constant or part of the constraint `Bounds` of an MC module. `Reservation`: two
catalogs (four threads), which is what it takes for a stale owner, a fresh one and their renewal
threads to meet; `Lease` is two ticks, so a lease can be untouched, past its renewal point, or
over; `Tries` is two, so a loop can succeed at once, go round, and give up (the code has eight
iterations, and every further one repeats the same steps); `MaxFence` stops new claims once a
claim has been granted, while claims that were under way go on, so two catalogs are granted the
archive in turn, with the first still at work. `Lifecycle`: in
`lifecycle_safety` one identity and two catalogs with faults of all kinds. `MaxFence = 3` allows three tasks, so that
an interrupted or overtaken task, the one that overtakes it and a third that cleans up all meet. `Repeats` is how
often a change is applied when the reply to its write is lost: once, or twice. `Faults` turns failing requests
and lapsing leases on.

`archive_progress` has three parts, of which `part`, chosen at the start, says which moves. Where the
reservation is `contended`, two catalogs claim, renew, release and die, and one of them, whose loops are followed, also
checks and changes records (`OneGoesOn`): catalogs are alike, and a second that went on would write what the
first already meets from its own renewal thread. `Lease` is two ticks there too, so `check` comes upon a lease that is
to be renewed. The other two are `Lifecycle` with two identities, so cleanup and rotation pass from one record to
another, with one catalog, captures and copies; nothing is pinned (`Unpinned`). Where it is `crashing`, processes die and changes are
applied once or twice; a lease lapses only after a death there, so a second catalog would take the same turns.
Where it is `failing`, any request may raise and no process dies: copies may leave a stage or a tombstone
each, and the last task is a capture (`CopiesFirst`), whose cleanup meets both and may fail at each. `MaxTasks = 3`
is the `MaxFence` of both.

`AppendCompact`: two runs, which can overlap in every order; two
executions of compaction, where one has to overtake the other, otherwise one; two arrival days,
so that one partition can expire beside rows that arrive; two values of the clock and of the
token count, so that observations tie, rise and fall; two attempts where retries are the
question. In `append_shown` `LogsMayShrink` lets `tokscale` report less than before, as it
does once logs are deleted.

`data` and `host` each run several parts that share no state. `part`, chosen at the start,
says which of them moves; the others rest in an initial state, and each behaviour of a part is explored
as if it were alone. In `data`: `Collection` has two collectors, two runs and two days, of which one is overlap
(`_HISTORICAL_OVERLAP_DAYS` is longer; what matters is that a day can leave it), and at most
three units of usage and faults together (`Bounds`), with MotherDuck, whose runs overlap, one fault and usage of one day; this is
enough for a reading before midnight, late usage, a retry and a second run. `PriceCheckpoint` has two models,
three runs in turn and two edits, or one and a failure, so that a price can be overtaken and set
back. `Sessions` has two sessions, two runs, two days, two versions of `tokscale` and one failure;
`Bounds` begins them in order, and limits how often they go on before the second day, more so after a failure.
`Contract` has arrays of up to two members, enough for one to stand in for another. `Curation` has two users, three
commands, two tags and two texts. `PinnedRead` has three runs and two breaks, `RecoveryRead` two archives, two
snapshots and two glitches (the latest is asked for, or an older one by name), `Bucket` three calls, two attempts and two losses, `Pacing` three
threads and four gates. `Destinations` has two hosts and two destinations, one of them weekly, two writes and one
upset; a week has two days and an interval is two days, so a weekly snapshot falls due between
scheduled ones; `max_snapshots` is one and the earlier shelves hold two copies, so rotation has something to
retire and to spare; `Bounds` lets two writes overlap with an upset on one day only, and one of them at most by hand. In `host`: two worker processes and two shells over three starts and stops; three
schedule commands over two configurations; two threads and four requests; two pipes of up to three
bytes with a limit of two; two threads, three deadlines and three scopes within five instants, which is enough
for an inherited budget that ends before the one around it, and for two callers of one allowance (`Bounds`: the
second thread begins with the first's context); two operators, one of them going on until it succeeds, two snapshots, two attempt identifiers,
and two mishaps, on BigQuery one when both snapshots are restored (`Bounds`); two inits and two hitches, one where commands overlap (`Bounds`); two shells and
three wishes, two intervals and every form of them. `Fresh` picks one unused attempt identifier, as they are interchangeable.
`collection_resolved` needs three runs; `contract_members` arrays of two, `init_repeat` two inits.

Runs whose bounds end them set `CHECK_DEADLOCK FALSE`; in `Reservation` the clock always
runs. Symmetry is used only in runs without liveness properties.

### Fairness

Where parts move by themselves, in `MCArchive` and `MCHost`, the specification has no fairness; a
liveness property has that of its part as its premise. `LoopsEnd` follows one catalog and assumes weak fairness of its
main thread and of its renewal thread, and nothing of the other: one that can go on does. A thread that
waits for the lock, the store's answer or the join goes on when it has it; the code puts a
budget on each request, so an answer or an exception always comes. Nothing is assumed of the
clock, of new claims or of crashes. `TasksEnd` assumes weak fairness of the work of the process
for the same reason; failing and dying are never forced. `AppendCompact!FairSpec`
assumes that compaction is started again and again (it is scheduled every night) and that not
every execution of it fails: strong fairness of its commit, since executions may doom each
other. Nothing is assumed of collection.

In `HostProcessesEnd` and `HostCommandsSucceed` fairness is given to the
threads of a worker (`WorkerFairness`), to exchanges, timers and the child, except
that an operation may stall for ever (`SupervisedFairness`), to the capture and its deadlines, not to the
command whose output it reads (`CaptureFairness`), to the steps of commands and to the jobs the warehouse
runs (`RestoreFairness`, `InstallFairness`), and to the worker's look at its configuration (`SettingsFairness`). That a
user runs `restore` or `init` again is assumed where the property is about repetition; dying,
losing and failing never are, and are bounded. The collection parts of `data` have safety properties only.

## Proofs

TLC explores the instances above; the theorems hold for every value of the constants that the
modules' assumptions admit, the bounds included. These assumptions say of what kind a constant is,
and a few facts the code rests on: in `Collection` runs are numbered from 1, in `RecoveryRead` there are
finitely many archives and snapshots, whose names are ordered, in `Curation` tags and notes are kept apart. Where a
theorem needs more, its statement says so. No module declares a `RECURSIVE` operator.

The properties are not inductive as they stand. Each module below has an inductive invariant,
a conjunction of named facts with a comment each; its lemmas go through the actions one by one. For
`Lifecycle`, its sidecars and `Bucket`, where the invariant is longest, it was first checked by TLC on
the instances of the runs, and so was that of `Destinations`. Some attempts failed for a reason, and the model was put
right. `ShownOnlySuperseded` named the run that is shown, which a compaction may change among runs of one
instant. `DoubtIsReported` was asked of MotherDuck too, where overlapping runs can resolve each other's
issues. `PinnedRead` kept a history of commits that no longer said what each table had. The shelves `Destinations` begins with
were an interval apart only where an interval is no longer than a week, so `Later` is the longer of the two. `Result`
and `Await` chose among cases that overlap, whose order TLC follows and the logic does not.

### `ReservationProofs`

For any catalogs and any `Lease`, `Tries`, `MaxFence` and `JoinMayTimeOut`: `TypeCorrect`
(`TypeOK`), `FencesDistinct` (`HeldFencesDistinct`), `OnlyHolderChanges` (`ChangesFenced`),
`LeaseRespected` (`LiveLeaseKept`), and `ImplementsPromise`: `Spec => KeepsPromise` if `~JoinMayTimeOut`.

The invariant is `TypeOK /\ Safe`. `WhatIsRead`: a thread whose read is still current knows what it
was authorised by - a claimant that the lease is over and its fence is the next one,
everybody else that the reservation is its own; this is what makes the compare-and-swap
enough. `FencesBehind`: no fence in use is ahead of the document's, so the next one is
fresh. `RenewerAfterClaim`: a renewal thread exists only where a claim has succeeded, so a
claimant's fence changes under nobody. For the refinement,
`Joined` adds that a renewal thread that has not ended implies that its `hold` has not come
to the release, so the fence it writes is the claim's; without it the statement is false,
as `reservation_expiry` shows.

### `LifecycleProofs` and `SidecarProofs`

For any number of snapshots and of catalogs that work on them, die, fail and overtake one
another: `TypeCorrect`, `OnlyOwnWorkIsPublished` (`PublishedIsOwnWork`), `PinsHold` (`PinnedSpared`),
`ImplementsPromise`: `Spec => KeepsRecoveryPoints`, and of sidecars `SidecarsFollow` (`SidecarFollows`) and
`SidecarsNeverBack` (`SidecarNeverBack`).

The invariant joins three layers. `FenceInv`: nothing stored or in hand is of a later fence than
the present one, and each task has its own; so a comparison of fences tells who was there first.
`WorkInv`: where in its task a catalog can be (`InPlace`), that a stage begins unpublished (`Staged`),
and what it knows of the archive while it owns it (`Knows`): the draft is the record with the one change of its
task (`Drafted`), what is made has been uploaded by itself (`Made`), what is retired may be (`Spared`).
An owner that was overtaken knows only that what it goes on deleting is of no later snapshot
(`Observes`), which is why late deletions do no harm. On top of it `SidecarInv` follows a projection
from its commit to its write, by whoever it is made: the record is the one committed or later (`Behind`),
the sidecar it replaces is older (`Succeeds`), two projections of one snapshot agree on whether it was
published (`Agree`), and a snapshot that is forgotten, or about to be, leaves no sidecar that says
published (`Gone`, `Follows`).

`CrashesAreHealed`, with `Faults = {}`, is `CrashesHeal`. A lease then lapses only after a death, so one catalog is at work
at a time (`Alive`); what is stored has a record, and a tombstone or an incomplete stage is in nobody's way (`Tidy`); a
retirement has deleted all but what it still lists (`Clears`), and `resume_cleanup` has been through every record but
those it still has to look at (`Sweeps`).

### `ObservationProofs` and `AppendCompactProofs`

`NewerIsOrder`: `Newer` is a strict total order of observations, so a set of rows shows one, in
whatever order they land; lemmas say what a fold over a finite set of them yields. With it, for any
number of runs, compactions, tables, days and attempts: `TypeCorrect`, `CertifiedHasLanded` (`LedgerCertifies`),
`ExpiryLosesNothing` (`ProcessedIsCompacted`), `HistoryAdvances` (`ShownOnlySuperseded`) and `UsageFallsByRace`
(`FallsOnlyOnRace`).

`LedgerInv` says what the loads of a run stand for: those it no longer waits for have landed while it
has met no error, or has loaded everything again. `RawInv`: raw rows are finitely many, each of its run's observation,
and the count is none only if they are. `GoldInv`: more was processed than is there only of a day that has expired. The heart is `MayCommit` in `JobInv`: a transaction
that may still commit has read what is compacted now, and its fold supersedes every row it counted; so a commit
cannot take the compacted fact back, and a row that lands meanwhile is counted by a later one.

### `CollectionProofs`

For any runs, collectors, days, `Overlap` and attempts: `HistoryIsSafe` (`HistoryStands`, all of
its conjuncts), `ImplementsRecord`: `CSpec => RecordsUsage`, and `CleanRunsSettle`: `SettlesDays`.

`OwnInv`: a run is one collector's, and recorded once. `UsageInv`: nothing read,
remembered or recorded exceeds what was used, which with the conditional upsert is the refinement.
`FinalInv`: an answer about a day gone by shows all of it, and the row it gives is published unless a
later run's has been; hence `CompleteIsFinal`, though runs overtake one another. `DoubtInv`, on DuckDB and without
refreshes: what the run with the lock has read of the history is still so, it reads every day in
doubt, and says what it found.

For `CleanRunsSettle`, `SettleInv` joins what the status of a day stands for (`StatusOfRuns`) with what a run
that is active knows (`Settling`): it reads no less than it was asked for (`Saw`), what it does not read is recorded already
(`Unplanned`), and who started later found no less and leaves the day no further back (`Precedes`, `Overtaken`).

### `DataProofs`

For any values of their constants:

- `BucketKeepsVersions` and, of `MCData`, `BucketsAreSafe`: `BucketsHold`, the refinement of
  `VersionedObject` included. `InHand`: a call that is ready has the content of the version its request is fenced by,
  also if its caller gave up; `Effects`: the versions a call says it made are its own; `Locks`: one process is
  past the comparison.
- `RequestsArePaced`: `Paced`. A gate counts the threads that use it and is forgotten only when there
  are none, and the time of the last change is in the gate or gone by (`PacingInv`).
- `CaptureIsOfOneInstant` and `SnapshotsAreSafe`: `IsOfOneInstant`. In no version of the warehouse is a run certified
  without its rows (`WarehouseInv`), and a stream has delivered the first rows of its table, as many as
  its reader has counted (`StreamInv`).
- `LatestIsRestored`: `RestoresLatest`. While no notice was given, a sound copy has yet to be found
  or tried (`RecoveryInv`).
- `CuratedIsKept` and `CurationIsSafe`: `CurationStands`. The time of every command is its own
  (`TimesDiffer`), so of two writes one is newer; a direct backend has one row of a key (`OneRowOfKey`);
  on BigQuery the newest row of all tags is no deletion, since a rename writes both its rows with one time
  (`TagStands`); what is stored of the note is what was written, or the newest of it (`NoteStands`).
- `SessionsAreKnown` and `SessionsAreSafe`: `SessionsStand`. A listed session began on a day next to the one it is listed
  at (`Listings`), a run asks for the days of all it does not know (`Asks`), so what a whole report answered is known as it was asked
  (`KnownAnswers`, `KnownAsAsked`), and otherwise a status or an issue says so (`LackShown`).
- `VerdictsAreRight` and `ContractsAreRight`: `VerdictIsRight`, for arrays of any length. What the gathering of types over all members
  of the outer array says of a path is what is true of each of them; a verdict is given once (`ContractInv`). That it does not
  tell the members of an inner array apart is in `Good`, and refuted as `MissingIsFatal`.
- `PricesFollowCustom` and `PricesAreSafe`: `PricesFollow`, if runs take turns (`InTurn`, the lock of DuckDB): without it
  `AppearanceSettles` is false. A checkpoint that says which presence the prices answer to tells the truth of all models priced before it
  (`Tells`), and a run knows what it loaded, what it is to price and what it has published (`PricerInv`).
- `WritesAreSafe` and `DestinationsAreSafe`: `DestinationsHold`. What a host has staged under its claim is due until it is published,
  since nobody else changes the shelf it has claimed (`HoldsAs`, `DueStill`), so a shelf stays spaced (`ShelfAs`). `Retained` counts over
  the whole shelf; it is the same as what follows each entry (`RetainedIsKept`), which is what the loop has seen when it comes to it
  (`VisitSees`), so the loop lists exactly the rest (`RetiresSuperfluous`), and each retirement leaves the rest of the
  list to be retired (`RetirementIs`). What a call has published is on its record, or it is not silent (`PlacesAs`).

### `HostProofs`

- `SettingsAreSafe`: `SettingsHold`, for commands that fail at any step. One `init` at a time looks for an identity and writes one
  (`InitLocked`); who rewrites the file has read the identity there is, and knows what it has yet to write (`Knows`); and while nobody
  else writes, the file is the one a command found, rewritten in the intervals it has written so far, and in
  their form (`KeepsWhatItFound`, `RewrittenIn`).
- `OutputIsWhole`: `ReturnsWhole`. Without a failure all that was read is kept, and a pipe read to its end
  is closed by everybody (`CaptureInv`).
- `RestoreIsSafe`: `RestoresOnce`, for any operators, attempts and snapshots. A commit that runs on the
  state it began with began in an empty warehouse: what has been restored since is in `since`, where `Conflicts` finds it
  (`JobInv`); the compaction is off before anything is staged, a command awaits a job of its own snapshot and has seen its
  commit before it tidies up (`OperatorInv`), the file of a DuckDB is one command's (`OneAtATime`), and two snapshots
  that were restored have no key in common, on MotherDuck (`ReceiptsInv`).
- `WorkersAreFound`: `WorkerRecorded`, for any commands side by side, which may die anywhere. A command about to change
  `worker.pid` knows that the worker it has read of does not run (`CommandInv`), so if the change costs one its
  record, another command had recorded it since, which is what `lost` says.
- `ExchangesStayApart`: `ExchangesApart`. While the child lives, what is in the pipes, in its hands
  and on its timers is the one exchange whose thread has the lock (`PipesInv`, `TimersInv`); hence killing
  the child with every wait that runs out is enough.
- `BudgetsHold` and `DeadlinesAreKept`: `DeadlinesHold`. A deadline ends no later than its parent and belongs to the same
  operation, which is cleaned up after within one deadline (`Nested`); the scopes of a thread are of one operation and end in order up to
  its cleanup, also when it began with another's (`Stacked`); a wait ends in time for the innermost (`WaitsInTime`). The outermost budget is found by
  climbing from a deadline to the one before it, which is always an earlier one.
- `SchedulesAreHealed` and `SchedulesAreSafe`: `SchedulesHeal`. What is left of a command is the end of its list of steps, and
  files, units and what runs are as the steps before it leave them (`InstallUnderway`, `RemovalUnderway`).
- `InitIsSafe` and `InitsAreSafe`: `InitHolds`. What an `init` has seen is there still (`KnowsAs`), what its job has yet to do
  makes the marker, or the rest of the warehouse (`MakesAs`), and has been made when the job is done (`Awaits`), so `ready` is
  written when it is whole; the label goes back only by a command that found no marker and, while others finished, created it and
  read it back, which needs two commands at a time (`OneCommand`); and while
  inits and jobs take turns each makes its row and its schedule once (`InTurns`).
- `HostIsSafe` and `HostWorkersAreFound`: the same of `MCHost` for the earlier ones.

### Only model-checked

Liveness under fairness is out of this prover's reach: `LoopsEnd`, `TasksEnd`, `AllProcessed`, `HostProcessesEnd` and
`HostCommandsSucceed` stay with TLC. Every invariant and every action property that a run finds to hold is a theorem.
Three have a hypothesis: `KeepsPromise` that renewal threads end before their join times out, `PricesFollow` that runs
take turns, and `CrashesHeal` that processes only die. Each is how the run that checks the property sets the
constants; `CrashesHeal` is checked of `MCArchive!Crashing`, the instance of `Lifecycle` in which they do.

Induction over data is out of its reach as well, in general. Where the model computes by recursion over numbers, the
chain of deadlines (`Root`) and the loop of `rotate` (`ToRetire`), the proofs go by a least counterexample instead: the
entries at which the claim fails are a finite set of numbers, so one of them comes first, and its neighbour refutes it.

## Findings

1. `ClaimWillExpire` (`reservation_expiry`). `hold` drops `Catalog.fence` without the lock
   (`snapshot/catalog.py:552`) even if the join of the renewal thread timed out
   (`:514-520`). A renewal thread between its ownership test (`:389-394`) and the document it
   builds (`:405`) then writes a control document whose fence is null, if the release did
   not get through first; `control` refuses that document for ever (`:86-87`). The message of
   a failed release says the opposite: "claim will expire" (`:547`). The window is narrow: a
   pre-emption between two statements, as long as the join and the release.
2. `UsageNeverFalls` (`append_usage`). On BigQuery a run preserves token counts against what
   its preflight read (`storage_model.py:45-82`), and the view against what is compacted
   (`sql/bigquery/views.sql:15-24`); among raw observations the newest wins. Two runs of one
   source may overlap: the one that started later may have asked `tokscale` earlier, or on
   a host whose logs hold less, and when both have landed the usage shown is lower than it
   was. Compaction makes that permanent. `CONTRIBUTING.md:208` says that usage "can *never* be
   reduced", and `:233` that collectors sharing a source are safe. `FallsOnlyOnRace` shows
   that nothing else lowers it.
3. `ResolvedIsProven` (`collection_resolved`). A run finds that a day contradicts itself: an issue, and a status `partial`
   whose failure code is `reconciliation` (`ingest.py:444-461`). A refresh of that day fails to read it, which makes the status `failed` with
   another code (`:462-476`). A refresh of another day succeeds: `pending_prior_days` (`:478-484`) holds back only for days whose
   prior status has the code `reconciliation`, so all issues the run has not found again are resolved (`:485-494`), while the last
   answer for the first day still contradicts itself. `reconcile.py:62` says
   "Previously recorded assertion identities proven clear." On DuckDB, whose lock lets runs only
   take turns, and without refreshes, no day stays in doubt without an open issue
   (`DoubtIsReported`).
4. `MissingIsFatal` (`contract_members`). `diff_contract` refuses a required field that some member of an array lacks
   (`contracts.py:298`), but what a member has is gathered over everything within it (`collect_member`, `:146-160`): in an
   array within an array a field counts as present once one member of the inner array has it. Its docstring says that one
   "missing from an array member" is fatal (`:254`), and the contracts shipped require such fields, as
   `contributions[].clients[].client` (`contracts/graph.json:28-98`). Likewise an answer is refused whose inner arrays are empty
   in one outer member and not in another. That no more than this is lost is `VerdictIsRight`.
5. `OneOfEach` (`init_repeat`). A script job outlives an `init` that gave up waiting for it
   (`backends/bigquery.py:490-504`). The repeated `init` submits the script again, both find
   no control row (`:728-734`), and the warehouse has two, which compaction and restore
   refuse. `README.md:94` says "`init` is safe to repeat." It is once the jobs of the last one have ended
   (`OneOfEachInTurn`).

### Remarks

What follows was met while modelling; no run is about it, or a property excepts it.

- Cleanup looks for `COMPLETE` and retires the stage in a later request that does not look
  again (`snapshot/catalog.py:684-693`): a whole unit, never published, may be retired. An object
  created late in a retired snapshot keeps its tombstone until it is removed by hand (`:644`).
- Uploads carry no fence, and `COMPLETE` is uploaded without a check after the last table
  (`archiver.py:427-438`): an overtaken owner still creates objects, which
  `CONTRIBUTING.md:277` says reservations prevent. It is never published (`PublishedIsOwnWork`).
- `repair` marks records as indexed without raising their revision (`snapshot/catalog.py:804`).
- When custom pricing goes away, models priced for the first time since the checkpoint was
  last settled may keep their custom price (`unsettled` in `RemovalSettles`; `CONTRIBUTING.md:222`), and
  when it appears, runs that do not take turns may acknowledge each other's work
  (`AppearanceSettles` is checked with `InTurn`).
- A day whose report failed stays failed while runs read all history; a `partial` of an earlier
  day is not rewritten; a drift is resolved by a bounded or empty report, and never once its version of `tokscale` is gone.
- `rename_tag` whose acknowledgement is lost reports that the tag is not there; `edit_note` may bring back a
  note deleted meanwhile; a direct backend's deletion leaves nothing for an older write to lose against.
- Two `schedule start` at once may start two workers, `worker.pid` naming one of them; a start that is cut off between
  `Popen` and the write of `worker.pid` (`scheduling.py:852-870`) leaves a worker that no command finds, and so does one whose
  SIGTERM fails (`:875-884`). These are the workers in `lost`, which `WorkerRecorded` excepts.
- `init` commands that overlap can take the marker from each other for ever, and provision two
  schedules (`InitFinishes` excepts them). One that created the marker reads it back (`backends/bigquery.py:697-701`)
  and labels it `initializing` without a look at its labels (`:703-713`): if another `init` finished in between, a warehouse in use
  refuses commands until the first has finished too (`ReadyStands` excepts it).
- A change of `config.toml` between the worker's load and its stamp is not reported; two unlocked
  rewrites of intervals may lose one (`AskedInOrder` is about a command that runs alone).
- `schedule install` with two intervals is not all or nothing: the second write, the reload or the installation may fail after the
  first was written. An interval that the file gives inline or by a dotted key gets a table beside it (`config.py:950-955`), and
  the file can no longer be parsed (`AskedInOrder` says so of no other).
- Two restores of different snapshots into an empty MotherDuck database may both succeed if they share no primary key, which
  no transaction of theirs would notice (`backends/duckdb_local.py:306-328`). `RestoredWhole` excepts it; `CONTRIBUTING.md:302` asks that
  everybody who writes be stopped, and counts on the check that the warehouse is empty.
- `write` publishes at a destination and rotates there at once, before the copies at later destinations are verified
  (`archiver.py:451`); when one of these fails, the published copies stay and are reported, as its docstring
  says. `CONTRIBUTING.md:280` has retention begin only after every copy verifies.
- All cleanup of an operation shares one allowance of time, from when it is first asked for (`OneAllowance`). After a
  destination that failed early, the rollbacks and releases of later ones may find it used up: their claims
  are left to lapse, without a failure that the caller is told of (`ReleaseFails`).
- A create on GCS whose answer was lost is repeated with the precondition that there is no
  object, and makes it anew if it was deleted meanwhile.
- `BEGIN TRANSACTION` stands outside the `try` that rolls back (`backends/duckdb_local.py:583`).

## Plan

Done: the models of the reservation, the lifecycle, the append-only history, and, in this
order, collection, prices, sessions, contracts, curation, capture, reading, buckets, several
destinations, schedules, supervised resources, budgets, restore, init and settings; the proofs above.

No property that a run finds to hold is left to prove but liveness.

Next, models: `repair` and the derived index; the other tables of the history.

## Not modelled

- `repair` and the derived index of an archive: planned.
- Tables of the history other than the daily facts, sessions, prices, statuses and drift: they
  use the same upsert and the same landing.
- Process numbers that are reused: a `worker.pid` that names another process by now.
- That two transactions on MotherDuck which insert one key conflict, and that a DuckDB file is open in one process, is assumed of DuckDB.
- How long work takes: outside `Budgets` a bounded wait may run out at any moment, whatever the budget. That a wait with
  a timeout does not outlast it is assumed. An interrupt between the statements of one transaction is DuckDB's to handle.
- Parsers, normalisation of values, privacy, logging, reports, `doctor`'s text, the command line: functions of their
  input without state between calls.
- Paths, permissions, credentials, `fsync`, Windows' job objects, the formats of manifests and Parquet files.
