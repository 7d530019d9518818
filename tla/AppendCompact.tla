---------------------------- MODULE AppendCompact ----------------------------
(***************************************************************************)
(* Collection into BigQuery (orchestrator.py, persistence.py,              *)
(* backends/bigquery.py) beside nightly compaction                         *)
(* (sql/bigquery/compaction.sql) and the expiry of raw partitions.         *)
(*                                                                         *)
(* A run reads the history, asks tokscale, and appends to the raw tables   *)
(* by load jobs that end in any order, fail, or land after the client gave *)
(* up; then it appends its line to the collection ledger.  Nothing keeps   *)
(* two runs of one source apart.  The history shows one daily fact.        *)
(***************************************************************************)
EXTENDS Observation

CONSTANTS Others,         \* the raw tables beside daily_stats
          Attempts,       \* max_retries + 1
          Compactors,     \* executions of compaction that may overlap
          LastDay,        \* bound: the last day of arrival
          MaxTokens,      \* bound: what tokscale may report
          MaxTime,        \* bound: the clocks of the hosts
          LogsMayShrink   \* may tokscale report less than it did?

ASSUME AppendCompactAssumption ==
  /\ "daily_stats" \notin Others
  /\ Attempts \in Nat \ {0}
  /\ LastDay \in Nat \ {0}
  /\ MaxTokens \in Nat
  /\ MaxTime \in Nat
  /\ LogsMayShrink \in BOOLEAN

Tables == Others \cup {"daily_stats"}
Days == 1 .. LastDay

VARIABLES
  logs,       \* the tokens that tokscale reports now
  run,        \* the collection runs
  late,       \* per <<run, table>>: loads given up by their client that may still land
  landed,     \* <<run, table>> pairs of which some load has landed
  raw,        \* per arrival day: the raw observations, and how many rows there are
  gold,       \* the compacted observation
  processed,  \* per arrival day: the rows that compaction has processed
  ledger,     \* the runs in collection_ledger that certify coverage
  job,        \* compaction transactions
  today

warehouse == <<landed, raw, ledger>>
compacted == <<gold, processed>>
vars == <<logs, run, late, landed, raw, gold, processed, ledger, job, today>>

RunState == {"out", "started", "planned", "loading", "certifying", "done", "failed"}

Run ==
  [state: RunState, at: Nat,
   prior: Rows,             \* what the history showed at preflight
   row: Rows,               \* the observation that is published
   waiting: SUBSET Tables,  \* loads of this attempt without an answer
   error: BOOLEAN,          \* has a load of this attempt failed?
   attempt: 1 .. Attempts]

Job == [state: {"idle", "running", "doomed"}, fold: Rows, counts: [Days -> Nat]]

TypeOK ==
  /\ logs \in 0 .. MaxTokens /\ today \in Days
  /\ run \in [Runs -> Run]
  /\ late \in [Runs \X Tables -> 0 .. Attempts]
  /\ landed \in SUBSET (Runs \X Tables)
  /\ raw \in [Days -> [rows: SUBSET Row, count: Nat]]
  /\ gold \in Rows
  /\ processed \in [Days -> Nat]
  /\ ledger \in SUBSET Runs
  /\ job \in [Compactors -> Job]

NotStarted ==
  [state |-> "out", at |-> 0, prior |-> NoRow, row |-> NoRow, waiting |-> {},
   error |-> FALSE, attempt |-> 1]
NoJob == [state |-> "idle", fold |-> NoRow, counts |-> [d \in Days |-> 0]]

Init ==
  /\ logs = 0 /\ today = 1
  /\ run = [r \in Runs |-> NotStarted]
  /\ late = [p \in Runs \X Tables |-> 0] /\ landed = {}
  /\ raw = [d \in Days |-> [rows |-> {}, count |-> 0]]
  /\ gold = NoRow /\ processed = [d \in Days |-> 0]
  /\ ledger = {}
  /\ job = [k \in Compactors |-> NoJob]

-----------------------------------------------------------------------------
RawRows == UNION {raw[d].rows : d \in Days}

\* current_daily_stats.
View == Folded(gold, RawRows)

\* The source is used, or tokscale forgets.
Use ==
  /\ logs' \in 0 .. MaxTokens \ {logs}
  /\ LogsMayShrink \/ logs' > logs
  /\ UNCHANGED <<run, late, warehouse, compacted, job, today>>

\* collect().  The hosts of a source need not agree on the time.
Start(r) ==
  /\ run[r].state = "out"
  /\ \E now \in 1 .. MaxTime : run' = [run EXCEPT ![r].state = "started", ![r].at = now]
  /\ UNCHANGED <<logs, late, warehouse, compacted, job, today>>

\* load_ingest_status()
Preflight(r) ==
  /\ run[r].state = "started"
  /\ run' = [run EXCEPT ![r].state = "planned", ![r].prior = View]
  /\ UNCHANGED <<logs, late, warehouse, compacted, job, today>>

\* Tables without rows are not loaded.
Loads(row) == {t \in Tables : t = "daily_stats" => row # NoRow}
Written(r) == Loads(run[r].row)

\* tokscale answers; the batch is prepared once and its first attempt begins.
Observe(r) ==
  LET row == Preserved([at |-> run[r].at, tokens |-> logs, run |-> r], run[r].prior) IN
  /\ run[r].state = "planned"
  /\ run' = [run EXCEPT ![r].state = "loading", ![r].row = row, ![r].waiting = Loads(row)]
  /\ UNCHANGED <<logs, late, warehouse, compacted, job, today>>

\* A physical row arrives.  Only daily_stats is looked into.
Lands(r, t) ==
  /\ landed' = landed \cup {<<r, t>>}
  /\ IF t = "daily_stats"
     THEN raw' = [raw EXCEPT ![today].rows = @ \cup {run[r].row}, ![today].count = @ + 1]
     ELSE UNCHANGED raw
  /\ UNCHANGED ledger

Answered(r, t, failed) ==
  run' = [run EXCEPT ![r].waiting = @ \ {t}, ![r].error = @ \/ failed]

Loaded(r) ==
  /\ run[r].state = "loading"
  /\ \E t \in run[r].waiting : Lands(r, t) /\ Answered(r, t, FALSE)
  /\ UNCHANGED <<logs, late, compacted, job, today>>

GivenUp(r, tables) ==
  [p \in Runs \X Tables |-> IF p[1] = r /\ p[2] \in tables THEN late[p] + 1 ELSE late[p]]

\* A load fails, or its client gives up on it.
LoadFails(r) ==
  /\ run[r].state = "loading"
  /\ \E t \in run[r].waiting :
       /\ Answered(r, t, TRUE)
       /\ late' \in {late, GivenUp(r, {t})}
  /\ UNCHANGED <<logs, warehouse, compacted, job, today>>

\* A load that its client has given up lands all the same.
LandsLate(r) ==
  /\ \E t \in Tables :
       /\ late[<<r, t>>] > 0
       /\ late' = [late EXCEPT ![<<r, t>>] = @ - 1]
       /\ Lands(r, t)
  /\ UNCHANGED <<logs, run, compacted, job, today>>

\* The next attempt loads every table again.
NextAttempt(r) ==
  run' = [run EXCEPT ![r].state = "loading", ![r].error = FALSE,
            ![r].waiting = Written(r), ![r].attempt = @ + 1]

GivesUp(r) == run' = [run EXCEPT ![r].state = "failed", ![r].waiting = {}]

\* MUTANT: the ledger is appended with the other tables.
LoadsEndAnyhow(r) ==
  /\ run[r].state = "loading" /\ run[r].waiting = {}
  /\ run' = [run EXCEPT ![r].state = "certifying"]
  /\ UNCHANGED <<logs, late, warehouse, compacted, job, today>>

\* MUTANT: one attempt too many.
LoadsEndOnceMore(r) ==
  /\ run[r].state = "loading" /\ run[r].waiting = {}
  /\ IF ~run[r].error
     THEN run' = [run EXCEPT ![r].state = "certifying"]
     ELSE GivesUp(r) \/ (run[r].attempt <= Attempts /\ NextAttempt(r))
  /\ UNCHANGED <<logs, late, warehouse, compacted, job, today>>

\* persist_batch() raises if any load failed; the error may be retried.
LoadsEnd(r) ==
  /\ run[r].state = "loading" /\ run[r].waiting = {}
  /\ IF ~run[r].error
     THEN run' = [run EXCEPT ![r].state = "certifying"]
     ELSE GivesUp(r) \/ (run[r].attempt < Attempts /\ NextAttempt(r))
  /\ UNCHANGED <<logs, late, warehouse, compacted, job, today>>

\* The append to collection_ledger.  Its reply may be lost: then all is loaded again.
Certify(r) ==
  /\ run[r].state = "certifying"
  /\ ledger' \in {ledger, ledger \cup {r}}
  /\ \/ r \in ledger' /\ run' = [run EXCEPT ![r].state = "done"]
     \/ GivesUp(r)
     \/ run[r].attempt < Attempts /\ NextAttempt(r)
  /\ UNCHANGED <<logs, late, landed, raw, compacted, job, today>>

\* tokscale fails, or the process dies: a run that recorded its failure certifies
\* nothing.  Loads under way may still land.
Abort(r) ==
  /\ run[r].state \notin {"out", "done", "failed"}
  /\ GivesUp(r)
  /\ late' \in {late, GivenUp(r, run[r].waiting)}
  /\ UNCHANGED <<logs, warehouse, compacted, job, today>>

-----------------------------------------------------------------------------
(* Compaction.                                                             *)

\* MUTANT: only days that were never compacted.
CandidatesNewDays == {d \in Days : raw[d].count > 0 /\ processed[d] = 0}

\* Days whose rows are more than were processed.
Candidates == {d \in Days : raw[d].count > processed[d]}

\* The transaction reads everything, its progress too, as of one instant.
BeginCompaction(k) ==
  /\ job[k].state = "idle"
  /\ job' = [job EXCEPT ![k] =
       [state |-> "running", fold |-> View,
        counts |-> [d \in Days |-> IF d \in Candidates THEN raw[d].count ELSE 0]]]
  /\ UNCHANGED <<logs, run, late, warehouse, compacted, today>>

\* Without candidates, nothing is rewritten.
Rewrites(k) ==
  /\ gold' = IF job[k].counts = NoJob.counts THEN gold ELSE job[k].fold
  /\ processed' = [d \in Days |-> Greater(processed[d], job[k].counts[d])]

\* MUTANT: the singleton of the compaction ledger is not updated.
CommitUnlocked(k) ==
  /\ job[k].state = "running"
  /\ Rewrites(k)
  /\ job' = [job EXCEPT ![k] = NoJob]
  /\ UNCHANGED <<logs, run, late, warehouse, today>>

\* Compacted facts and progress are committed together, and every other
\* transaction under way, which updates the same singleton, will abort.
CommitCompaction(k) ==
  /\ job[k].state = "running"
  /\ Rewrites(k)
  /\ job' = [i \in Compactors |->
       IF i = k THEN NoJob
       ELSE IF job[i].state = "running" THEN [NoJob EXCEPT !.state = "doomed"] ELSE job[i]]
  /\ UNCHANGED <<logs, run, late, warehouse, today>>

AbortCompaction(k) ==
  /\ job[k].state # "idle"
  /\ job' = [job EXCEPT ![k] = NoJob]
  /\ UNCHANGED <<logs, run, late, warehouse, compacted, today>>

Midnight ==
  /\ today < LastDay
  /\ today' = today + 1
  /\ UNCHANGED <<logs, run, late, warehouse, compacted, job>>

\* A raw partition is dropped ninety days after its arrival: long enough for
\* a nightly compaction to have processed it.
Expire(d) ==
  /\ d < today /\ raw[d].count > 0 /\ processed[d] = raw[d].count
  /\ raw' = [raw EXCEPT ![d] = [rows |-> {}, count |-> 0]]
  /\ UNCHANGED <<logs, run, late, landed, compacted, ledger, job, today>>
-----------------------------------------------------------------------------
RunSteps(r) ==
  \/ Start(r) \/ Preflight(r) \/ Observe(r) \/ Loaded(r) \/ LoadFails(r) \/ LandsLate(r)
  \/ LoadsEnd(r) \/ Certify(r) \/ Abort(r)

Maintenance == \/ \E k \in Compactors : CommitCompaction(k)
               \/ \E d \in Days : Expire(d)

Next ==
  \/ Use \/ Midnight \/ Maintenance
  \/ \E r \in Runs : RunSteps(r)
  \/ \E k \in Compactors : BeginCompaction(k) \/ AbortCompaction(k)

Spec == Init /\ [][Next]_vars

\* Compaction is started every night, and not every execution of it fails.
FairSpec ==
  /\ Spec
  /\ \A k \in Compactors :
       /\ WF_vars(BeginCompaction(k))
       /\ WF_vars(job[k].state = "doomed" /\ AbortCompaction(k))
       /\ SF_vars(CommitCompaction(k))
-----------------------------------------------------------------------------
(* Correctness.                                                            *)

\* A run certifies its coverage only when each of its tables has landed, whichever
\* loads failed, were repeated, or landed after their client had given up.
LedgerCertifies ==
  \A r \in ledger : \A t \in Written(r) : <<r, t>> \in landed

\* Rows that compaction has processed are superseded by what it committed: when
\* their partition expires, nothing is lost.
ProcessedIsCompacted ==
  \A d \in Days : processed[d] >= raw[d].count =>
    \A row \in raw[d].rows : gold # NoRow /\ AtLeast(gold, row)

NotOlder(r, s) == r.at > s.at \/ (r.at = s.at /\ r.tokens >= s.tokens)

\* An observation that is shown is never superseded by an older one, nor lost:
\* neither by loads that land out of order, nor by compaction beside them, nor
\* by the expiry of what was compacted.  Which of several runs of one instant is
\* named, when what was compacted shows more than each of them, may change.
ShownOnlySuperseded ==
  [][LET before == View  after == View' IN
     before # NoRow => after # NoRow /\ NotOlder(after, before)]_vars

\* Usage that is shown falls only when a run lands whose preflight came before it:
\* compaction, expiry, retries and late loads of other runs never reduce it.
FallsOnlyOnRace ==
  [][LET before == View  after == View' IN
     Tokens(after) < Tokens(before) =>
       /\ after # NoRow /\ after.run # before.run
       /\ Tokens(run[after.run].prior) < Tokens(before)]_vars

\* "Append loads committed after cutoff ... are detected by the next arrival-bucket
\* count": in the end compaction has processed every row there is.
AllProcessed == <>[](\A d \in Days : processed[d] >= raw[d].count)

\* CONTRIBUTING.md: "Token usage is never deleted once persisted and can never be
\* reduced, only increase."
UsageNeverFalls == [][Tokens(View') >= Tokens(View)]_vars
=============================================================================
