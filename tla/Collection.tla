------------------------------ MODULE Collection ------------------------------
(***************************************************************************)
(* Collection into a transactional warehouse: DuckDB, or MotherDuck        *)
(* (orchestrator.py, ingest.py, reconcile.py, normalizer.py,               *)
(* persistence.py, backends/duckdb_local.py).                              *)
(*                                                                         *)
(* A run takes its time, reads what the warehouse knows, plans the days to *)
(* read, asks tokscale for each, checks the answers, and publishes facts,  *)
(* the status of every day and the reconciliation issues in one            *)
(* transaction, which it retries when it hears nothing.  A day that is     *)
(* complete leaves the plan once it is not among the latest days of usage. *)
(*                                                                         *)
(* One source, and one fact a day.  Runs are numbered in the order of      *)
(* their start, so the number of a run is its collected_at.                *)
(***************************************************************************)
EXTENDS Observation, FiniteSets, FiniteSetsExt

CONSTANTS Collectors,  \* processes that collect for the source
          Backends,    \* "duckdb", "motherduck"
          LastDay,     \* bound: the last day
          MaxTokens,   \* bound: the tokens of one day
          Overlap,     \* _HISTORICAL_OVERLAP_DAYS
          Attempts,    \* max_retries + 1
          MaxFaults,   \* bound: what goes wrong in a history
          Refreshes    \* may a run be asked for a range of days?

Days == 1 .. LastDay

ASSUME CollectionAssumption ==
  /\ IsFiniteSet(Runs) /\ Runs = 1 .. Cardinality(Runs)
  /\ Backends \subseteq {"duckdb", "motherduck"}
  /\ LastDay \in Nat \ {0} /\ MaxTokens \in Nat
  /\ Overlap \in Nat /\ Attempts \in Nat \ {0} /\ MaxFaults \in Nat
  /\ Refreshes \in BOOLEAN

VARIABLES
  backend,   \* the configured backend
  today,
  used,      \* per day: the tokens used, which tokscale reports
  closed,    \* per day: the tokens used when the day ended
  fact,      \* daily_stats: the row of each day
  status,    \* collection_status: of each day, the newest row of the domain "models"
  issue,     \* per run: what its row in reconciliation_issues says
  finished,  \* per run: its place in the order of finished_at; 0 is none yet
  lastRun,   \* the number of runs that have started
  applied,   \* per run: how many transactions published it
  coll,      \* the collectors
  faults,    \* how many things went wrong
  doubted    \* for the properties: the days that their newest run found inconsistent, and
             \* of which no answer has been good since

world == <<backend, today, used, closed>>
warehouse == <<fact, status, issue, applied, doubted>>
cvars == <<world, warehouse, finished, lastRun, coll, faults>>

\* What one day's answer is worth: read, read but against its own totals (a partial
\* day), with two entries for one key (partial, and not published), or not read.
Verdict == {"none", "ok", "mismatch", "duplicate", "failed"}
Answer == [verdict: Verdict, tokens: Nat]

Saying == {"none", "found", "resolved"}
State == {"none", "complete", "provisional", "partial", "failed"}
Status == [state: State, reconciliation: BOOLEAN, run: Runs \cup {0}]
NoStatus == [state |-> "none", reconciliation |-> FALSE, run |-> 0]

Phase == {"idle", "started", "locked", "reading", "publishing"}
Collector ==
  [phase: Phase, run: Runs \cup {0}, day: Days, range: SUBSET Days,
   prior: [Days -> Status], facts: [Days -> Rows], open: BOOLEAN,
   plan: SUBSET Days, got: [Days -> Answer],
   rows: [Days -> Rows], says: Saying, attempt: 1 .. Attempts,
   asked: [Days -> Nat]]  \* for the properties: the tokens used when the run started

NoFacts == [d \in Days |-> NoRow]
Unasked == [d \in Days |-> [verdict |-> "none", tokens |-> 0]]
Idle ==
  [phase |-> "idle", run |-> 0, day |-> 1, range |-> {},
   prior |-> [d \in Days |-> NoStatus], facts |-> NoFacts, open |-> FALSE,
   plan |-> {}, got |-> Unasked, rows |-> NoFacts, says |-> "none", attempt |-> 1,
   asked |-> [d \in Days |-> 0]]

CTypeOK ==
  /\ backend \in Backends /\ today \in Days
  /\ used \in [Days -> Nat] /\ closed \in [Days -> Nat]
  /\ fact \in [Days -> Rows] /\ status \in [Days -> Status]
  /\ issue \in [Runs -> Saying] /\ finished \in [Runs -> Nat]
  /\ applied \in [Runs -> Nat] /\ lastRun \in Runs \cup {0}
  /\ faults \in 0 .. MaxFaults
  /\ coll \in [Collectors -> Collector]
  /\ doubted \in SUBSET Days

CInit ==
  /\ backend \in Backends /\ today = 1
  /\ used = [d \in Days |-> 0] /\ closed = [d \in Days |-> 0]
  /\ fact = NoFacts /\ status = [d \in Days |-> NoStatus]
  /\ issue = [r \in Runs |-> "none"] /\ finished = [r \in Runs |-> 0]
  /\ applied = [r \in Runs |-> 0] /\ lastRun = 0 /\ faults = 0
  /\ coll = [c \in Collectors |-> Idle]
  /\ doubted = {}

-----------------------------------------------------------------------------
(* What the views of the warehouse show (sql/duckdb/views.sql). *)

\* current_reconciliation_issues: the row of the run that finished last.
Open ==
  LET rows == {r \in Runs : issue[r] # "none"} IN
  \E r \in rows : issue[r] = "found" /\ \A q \in rows : finished[q] <= finished[r]

\* The n latest of some days.
Latest(days, n) == {d \in days : Cardinality({e \in days : e > d}) < n}

-----------------------------------------------------------------------------
(* The world: the source is used, today and, reported late, on a recent day. *)

Use(d) ==
  /\ used[d] < MaxTokens
  /\ d = today \/ d \in Latest({e \in Days : e < today /\ used[e] > 0}, Overlap)
  /\ used' = [used EXCEPT ![d] = @ + 1]
  /\ UNCHANGED <<backend, today, closed, warehouse, finished, lastRun, coll, faults>>

Midnight ==
  /\ today < LastDay
  /\ today' = today + 1
  /\ closed' = [closed EXCEPT ![today] = used[today]]
  /\ UNCHANGED <<backend, used, warehouse, finished, lastRun, coll, faults>>

-----------------------------------------------------------------------------
(* One collection. *)

\* The days that a refresh may ask for; a collection of the whole history asks for none.
Ranges == {{}} \cup IF Refreshes THEN {a .. b : a, b \in 1 .. today} ELSE {}

\* collect(): the run takes its time, and its range when it is a refresh.
Start(c) ==
  /\ coll[c].phase = "idle"
  /\ \E r \in Runs, range \in Ranges :
       /\ lastRun = r - 1
       /\ lastRun' = r
       /\ coll' = [coll EXCEPT ![c] = [Idle EXCEPT !.phase = "started", !.run = r,
                     !.day = today, !.range = range, !.asked = used]]
  /\ UNCHANGED <<world, warehouse, finished, faults>>

Fault == faults < MaxFaults /\ faults' = faults + 1

Stops(c) == coll' = [coll EXCEPT ![c] = Idle]

\* collection_lock(): a lock of the operating system, for DuckDB alone.
Holding(c) == coll[c].phase \notin {"idle", "started"}
Lock(c) ==
  /\ coll[c].phase = "started"
  /\ IF backend = "duckdb" /\ \E o \in Collectors : Holding(o)
       THEN Stops(c)
       ELSE coll' = [coll EXCEPT ![c].phase = "locked"]
  /\ UNCHANGED <<world, warehouse, finished, lastRun, faults>>

\* MUTANT: only the days of the graph are candidates.
PlanOfGraph(c) ==
  LET run == coll[c]
      graph == {d \in Days : used[d] > 0} IN
  IF run.range # {} THEN run.range
  ELSE {d \in graph : d >= run.day \/ status[d].state = "none"}

\* The days to read: those of a refresh; else the open day, the latest days of usage, and
\* every other day that has usage or was tried before, unless it is complete.
Plan(c) ==
  LET run == coll[c]
      graph == {d \in Days : used[d] > 0}
      tried == {d \in Days : status[d].state \notin {"none", "complete"}} IN
  IF run.range # {} THEN run.range
  ELSE {d \in graph \cup tried :
          \/ d >= run.day
          \/ d \in Latest({e \in graph : e < run.day}, Overlap)
          \/ status[d].state # "complete"}

\* load_ingest_status(), and tokscale's graph.  Nothing that happens between the two is seen
\* by both, so they are one step.
Preflight(c) ==
  /\ coll[c].phase = "locked"
  /\ coll' = [coll EXCEPT ![c].phase = "reading", ![c].prior = status,
                           ![c].facts = fact, ![c].open = Open, ![c].plan = Plan(c)]
  /\ UNCHANGED <<world, warehouse, finished, lastRun, faults>>

\* One answer of tokscale.  One that contradicts itself may show less than was used.
Answers(d) ==
  [verdict: {"ok"}, tokens: {used[d]}]
    \cup [verdict: {"mismatch"}, tokens: {0, used[d]}]
    \cup [verdict: {"duplicate", "failed"}, tokens: {0}]

\* _fetch_daily_models(), plan_models(): day after day.
Fetch(c) ==
  LET d == Min(coll[c].plan) IN
  /\ coll[c].phase = "reading" /\ coll[c].plan # {}
  /\ \E a \in Answers(d) :
       /\ coll' = [coll EXCEPT ![c].plan = @ \ {d},
                               ![c].got[d] = a]
       /\ IF a.verdict = "ok" THEN UNCHANGED faults ELSE Fault
  /\ UNCHANGED <<world, warehouse, finished, lastRun>>

With(c, verdicts) == {d \in Days : coll[c].got[d].verdict \in verdicts}
Asked(c) == With(c, Verdict \ {"none"})
Inconsistent(c) == With(c, {"mismatch", "duplicate"})

\* MUTANT: an issue is resolved whenever no answer shows it.
SaysOfAnswers(c) ==
  IF Inconsistent(c) # {} THEN "found"
  ELSE IF coll[c].open /\ Asked(c) # {} THEN "resolved"
  ELSE "none"

\* reconcile_all(), build_collection_bundle(): an issue that was open is resolved by answers
\* that do not show it, unless one is missing or a day that showed it is not read again.
Says(c) ==
  LET pending == {d \in Days : coll[c].prior[d].reconciliation /\ d \notin With(c, {"ok"})} IN
  IF Inconsistent(c) # {} THEN "found"
  ELSE IF /\ coll[c].open
          /\ With(c, {"ok"}) # {} /\ With(c, {"failed"}) = {}
          /\ pending = {}
    THEN "resolved"
  ELSE "none"

\* normalize(), preserve_daily_tokens(): the rows to publish.  A day whose keys are
\* ambiguous has none.
RowsOf(c) ==
  [d \in Days |-> IF d \in With(c, {"ok", "mismatch"})
     THEN Preserved([at |-> coll[c].run, tokens |-> coll[c].got[d].tokens, run |-> coll[c].run],
                    coll[c].facts[d])
     ELSE NoRow]

\* The batch is prepared once, before the first attempt.
Build(c) ==
  /\ coll[c].phase = "reading" /\ coll[c].plan = {}
  /\ finished' = [finished EXCEPT ![coll[c].run] = Max({finished[r] : r \in Runs}) + 1]
  /\ coll' = [coll EXCEPT ![c].phase = "publishing", ![c].rows = RowsOf(c), ![c].says = Says(c)]
  /\ UNCHANGED <<world, warehouse, lastRun, faults>>

\* failed_collection(): tokscale, or a step after it, failed; the run publishes that it did.
Fail(c) ==
  /\ Fault
  /\ coll[c].phase = "reading"
  /\ coll' = [coll EXCEPT ![c].phase = "publishing", ![c].plan = {}, ![c].got = Unasked]
  /\ UNCHANGED <<world, warehouse, finished, lastRun>>

\* MUTANT: a successful answer finalises the day, be it over or not.
StateOfAnswer(c, d) ==
  CASE coll[c].got[d].verdict = "ok" -> "complete"
    [] coll[c].got[d].verdict = "failed" -> "failed"
    [] OTHER -> "partial"

\* The status of a day that was asked for.  An answer about an open day is provisional.
NewState(c, d) ==
  CASE coll[c].got[d].verdict = "ok" -> IF d >= coll[c].day THEN "provisional" ELSE "complete"
    [] coll[c].got[d].verdict = "failed" -> "failed"
    [] OTHER -> "partial"

\* MUTANT: the newer row replaces the tokens.
MergedAsNewer(old, row) ==
  IF row = NoRow THEN old ELSE IF old = NoRow \/ Newer(row, old) THEN row ELSE old

\* upsert(): MERGE into daily_stats.
Merged(old, row) ==
  IF row = NoRow THEN old
  ELSE IF old = NoRow THEN row
  ELSE IF Newer(row, old) THEN [row EXCEPT !.tokens = Greater(@, old.tokens)]
  ELSE old

\* The row of collection_ledger that is newest by collected_at.
NewerStatus(c, d) ==
  IF d \in Asked(c) /\ coll[c].run > status[d].run
    THEN [state |-> NewState(c, d), reconciliation |-> d \in Inconsistent(c), run |-> coll[c].run]
    ELSE status[d]

\* An answer counts unless a run that started later has read the day before.
Doubted(c) == (doubted \ With(c, {"ok"})) \cup {d \in Inconsistent(c) : coll[c].run > status[d].run}

\* MUTANT: a retry does not ask whether the run is in the ledger.
ApplyAgain(c) ==
  /\ fact' = [d \in Days |-> Merged(fact[d], coll[c].rows[d])]
  /\ status' = [d \in Days |-> NewerStatus(c, d)]
  /\ issue' = [issue EXCEPT ![coll[c].run] = coll[c].says]
  /\ applied' = [applied EXCEPT ![coll[c].run] = @ + 1]
  /\ doubted' = Doubted(c)

\* persist_batch(): one transaction, which does nothing when the ledger has the run.
Apply(c) ==
  IF applied[coll[c].run] > 0 THEN UNCHANGED warehouse
  ELSE /\ fact' = [d \in Days |-> Merged(fact[d], coll[c].rows[d])]
       /\ status' = [d \in Days |-> NewerStatus(c, d)]
       /\ issue' = [issue EXCEPT ![coll[c].run] = coll[c].says]
       /\ applied' = [applied EXCEPT ![coll[c].run] = @ + 1]
       /\ doubted' = Doubted(c)

\* The next attempt, or the error of the last.
Again(c) ==
  IF coll[c].attempt < Attempts
    THEN coll' = [coll EXCEPT ![c].attempt = @ + 1]
    ELSE Stops(c)

Publish(c) ==
  /\ coll[c].phase = "publishing"
  /\ Apply(c) /\ Stops(c)
  /\ UNCHANGED <<world, finished, lastRun, faults>>

\* The commit takes effect, and the time of the operation runs out before its return.
PublishUnheard(c) ==
  /\ Fault
  /\ coll[c].phase = "publishing"
  /\ Apply(c) /\ Again(c)
  /\ UNCHANGED <<world, finished, lastRun>>

\* A conflict of transactions, or an early end of the operation's time.
PublishFails(c) ==
  /\ Fault
  /\ coll[c].phase = "publishing"
  /\ Again(c)
  /\ UNCHANGED <<world, warehouse, finished, lastRun>>

\* An error that is not retried, or the end of the process: the lock goes with it.
Abort(c) ==
  /\ Fault
  /\ coll[c].phase \notin {"idle"}
  /\ Stops(c)
  /\ UNCHANGED <<world, warehouse, finished, lastRun>>

Step(c) ==
  \/ Start(c) \/ Lock(c) \/ Preflight(c) \/ Fetch(c) \/ Build(c) \/ Fail(c)
  \/ Publish(c) \/ PublishUnheard(c) \/ PublishFails(c) \/ Abort(c)

CNext == Midnight \/ (\E d \in Days : Use(d)) \/ \E c \in Collectors : Step(c)

CSpec == CInit /\ [][CNext]_cvars

-----------------------------------------------------------------------------
\* A day that is complete, and so leaves the plan, is recorded in full: no interleaving of
\* runs, clocks and midnights lets a day be closed on a reading made while it was open.
CompleteIsFinal ==
  \A d \in Days : status[d].state = "complete" => Tokens(fact[d]) >= closed[d]

\* The history shows, day by day, no more than was used and never less than before, although
\* runs publish out of order and retry what they published.
History == INSTANCE UsageRecord WITH recorded <- [d \in Days |-> Tokens(fact[d])]
RecordsUsage == History!Spec

\* However often a batch is sent, its run is in the ledger once.
AppendedOnce == \A r \in Runs : applied[r] <= 1

\* On DuckDB, where runs exclude one another, a day that its newest run found inconsistent
\* leaves an issue open for doctor to report, until an answer about it is good (runs of
\* whole history, no refreshes).
DoubtIsReported == backend = "duckdb" /\ ~Refreshes /\ doubted # {} => Open

\* What a run resolves is proven clear: no day's last answer still contradicts itself.
ResolvedIsProven ==
  [][\A r \in Runs : issue[r] = "none" /\ issue'[r] = "resolved" => doubted' = {}]_cvars

\* A run all of whose answers were good leaves no earlier day behind: each is
\* recorded in full, the recent ones as they were when the run started, or is known to need
\* another attempt.
CleanRunSettles ==
  \A c \in Collectors :
    coll[c].phase = "publishing" /\ applied'[coll[c].run] > applied[coll[c].run]
      /\ coll[c].range = {} /\ Asked(c) # {} /\ Asked(c) = With(c, {"ok"})
    => \A d \in 1 .. coll[c].day :
         \/ Tokens(fact'[d]) >= IF d \in Latest({e \in Days : e < coll[c].day /\ coll[c].asked[e] > 0}, Overlap)
                                    \/ d = coll[c].day
                                  THEN coll[c].asked[d] ELSE closed[d]
         \/ status'[d].state \in {"partial", "failed"}
SettlesDays == [][CleanRunSettles]_cvars

\* What is recorded stands: values have their types, days are closed in full, runs
\* recorded once and doubt is reported.
HistoryStands == CTypeOK /\ CompleteIsFinal /\ AppendedOnce /\ DoubtIsReported
=============================================================================
