------------------------- MODULE AppendCompactProofs -------------------------
(***************************************************************************)
(* Proofs about collection beside compaction (AppendCompact), for every    *)
(* number of runs, of tables, of attempts and of days.                     *)
(***************************************************************************)
EXTENDS AppendCompact, ObservationProofs

-----------------------------------------------------------------------------
(* Runs.                                                                   *)

Unobserved(r) == run[r].state \in {"out", "started", "planned"}

\* A client waits only for loads of its attempt, each of a table with rows, and the loads
\* that it gave up are no more than its attempts.
LoadsCounted(r) ==
  /\ run[r].state # "loading" => run[r].waiting = {}
  /\ run[r].waiting \subseteq Written(r)
  /\ \A t \in Tables :
       /\ late[<<r, t>>] > 0 => t \in Written(r)
       /\ late[<<r, t>>] <= run[r].attempt
       /\ t \in run[r].waiting => late[<<r, t>>] < run[r].attempt
       /\ Unobserved(r) => late[<<r, t>>] = 0

\* A run has one observation from the answer of tokscale on, and certifies no sooner.
Observes(r) ==
  /\ Unobserved(r) => run[r].row = NoRow /\ r \notin ledger
  /\ run[r].row # NoRow =>
       run[r].row.run = r /\ run[r].row.tokens >= Tokens(run[r].prior)

\* A load without error has landed when its client stops to wait for it.
LoadsLanded(r) ==
  (run[r].state = "loading" /\ ~run[r].error) \/ run[r].state = "certifying" =>
    \A t \in Written(r) \ run[r].waiting : <<r, t>> \in landed

RunsInv == \A r \in Runs : LoadsCounted(r) /\ Observes(r) /\ LoadsLanded(r)

LedgerInv == TypeOK /\ RunsInv /\ LedgerCertifies

-----------------------------------------------------------------------------
(* Rows.                                                                   *)

\* An observation is that of its run, raised perhaps.
IsOfRun(row) ==
  run[row.run].row # NoRow /\ row.tokens >= run[row.run].row.tokens

Superseded(rows, by) == \A row \in rows : by # NoRow /\ AtLeast(by, row)

\* Raw rows are finitely many, each the observation of its run, and counted; none has
\* arrived yet on the days to come.
RawInv ==
  \A d \in Days :
    /\ IsFiniteSet(raw[d].rows)
    /\ \A row \in raw[d].rows : run[row.run].row = row
    /\ raw[d].count = 0 => raw[d].rows = {}
    /\ d > today => raw[d].count = 0

\* Rows that were counted, and are no more, have expired on a day gone by.
Expired(d, n) == n > raw[d].count => d < today /\ raw[d].rows = {}

GoldInv ==
  /\ gold # NoRow => IsOfRun(gold)
  /\ \A d \in Days : Expired(d, processed[d])

\* A transaction that may commit has read what is compacted now, and supersedes the rows
\* that it counted.
MayCommit(fold, counts) ==
  /\ fold # NoRow => IsOfRun(fold)
  /\ gold # NoRow => fold # NoRow /\ AtLeast(fold, gold)
  /\ Tokens(fold) >= Tokens(gold)
  /\ \A d \in Days :
       /\ Expired(d, counts[d])
       /\ raw[d].count <= counts[d] => Superseded(raw[d].rows, fold)

JobInv ==
  \A k \in Compactors : job[k].state = "running" => MayCommit(job[k].fold, job[k].counts)

HistoryInv == RawInv /\ GoldInv /\ JobInv /\ ProcessedIsCompacted
-----------------------------------------------------------------------------
(* What is certified has landed.                                           *)

\* The tables of a run are tables; with an observation, all of them.
LEMMA WrittenIs ==
  ASSUME TypeOK, NEW r \in Runs
  PROVE  /\ run[r] \in Run /\ run[r].row \in Rows
         /\ Written(r) \in SUBSET Tables /\ Others \subseteq Written(r)
         /\ run[r].row # NoRow => Written(r) = Tables
         /\ "daily_stats" \in Written(r) => run[r].row \in Row
  BY AppendCompactAssumption DEF TypeOK, Run, Written, Loads, Tables, Rows

\* What is changed of a run, and that the others stay as they were.

\* An answer takes one table from those waited for.
LEMMA AnsweredIs ==
  ASSUME TypeOK, NEW r \in Runs, NEW t, NEW failed \in BOOLEAN, Answered(r, t, failed)
  PROVE  /\ run' \in [Runs -> Run]
         /\ run'[r].waiting = run[r].waiting \ {t} /\ run'[r].error = (run[r].error \/ failed)
         /\ run'[r].state = run[r].state /\ run'[r].prior = run[r].prior
         /\ run'[r].row = run[r].row /\ run'[r].attempt = run[r].attempt
         /\ \A q \in Runs \ {r} : run'[q] = run[q]
  BY DEF TypeOK, Answered, Run

\* The next attempt waits for every table again, without error.
LEMMA NextAttemptIs ==
  ASSUME TypeOK, NEW r \in Runs, run[r].attempt < Attempts, NextAttempt(r)
  PROVE  /\ run' \in [Runs -> Run]
         /\ run'[r].state = "loading" /\ run'[r].waiting = Written(r) /\ ~run'[r].error
         /\ run'[r].attempt = run[r].attempt + 1
         /\ run'[r].row = run[r].row /\ run'[r].prior = run[r].prior
         /\ \A q \in Runs \ {r} : run'[q] = run[q]
  <1>1. Written(r) \in SUBSET Tables
    BY WrittenIs
  <1> QED
    BY <1>1, AppendCompactAssumption DEF TypeOK, NextAttempt, Run, RunState

\* A run that gives up waits for nothing more.
LEMMA GivesUpIs ==
  ASSUME TypeOK, NEW r \in Runs, GivesUp(r)
  PROVE  /\ run' \in [Runs -> Run]
         /\ run'[r].state = "failed" /\ run'[r].waiting = {}
         /\ run'[r].row = run[r].row /\ run'[r].prior = run[r].prior
         /\ run'[r].attempt = run[r].attempt
         /\ \A q \in Runs \ {r} : run'[q] = run[q]
  BY DEF TypeOK, GivesUp, Run, RunState

\* A run goes on to another state.
LEMMA StateIs ==
  ASSUME TypeOK, NEW r \in Runs, NEW s \in RunState, run' = [run EXCEPT ![r].state = s]
  PROVE  /\ run' \in [Runs -> Run]
         /\ run'[r].state = s /\ run'[r].waiting = run[r].waiting
         /\ run'[r].row = run[r].row /\ run'[r].prior = run[r].prior
         /\ run'[r].attempt = run[r].attempt
         /\ \A q \in Runs \ {r} : run'[q] = run[q]
  BY DEF TypeOK, Run

\* No load is given up more often than there are attempts.
LEMMA GivenUpIs ==
  ASSUME TypeOK, NEW r \in Runs, NEW tables \in SUBSET run[r].waiting, LoadsCounted(r),
         late' \in {late, GivenUp(r, tables)}
  PROVE  /\ late' \in [Runs \X Tables -> 0 .. Attempts]
         /\ \A q \in Runs \ {r}, t \in Tables : late'[<<q, t>>] = late[<<q, t>>]
         /\ \A t \in Tables \ tables : late'[<<r, t>>] = late[<<r, t>>]
         /\ \A t \in tables : late'[<<r, t>>] <= run[r].attempt
  <1>1. /\ late \in [Runs \X Tables -> 0 .. Attempts] /\ tables \in SUBSET Tables
        /\ run[r].attempt \in 1 .. Attempts /\ Attempts \in Nat
    BY AppendCompactAssumption DEF TypeOK, Run
  <1>2. \A t \in tables : late[<<r, t>>] \in Nat /\ late[<<r, t>>] < run[r].attempt
    BY <1>1 DEF LoadsCounted
  <1>3. CASE late' = late
    BY <1>1, <1>2, <1>3
  <1>4. CASE late' = GivenUp(r, tables)
    <2>1. \A q \in Runs, t \in Tables :
            late'[<<q, t>>] = IF q = r /\ t \in tables THEN late[<<q, t>>] + 1
                              ELSE late[<<q, t>>]
      BY <1>4 DEF GivenUp
    <2>2. \A q \in Runs, t \in Tables : late[<<q, t>>] \in 0 .. Attempts
      BY <1>1
    <2>3. \A t \in tables : late'[<<r, t>>] \in 0 .. Attempts /\ late'[<<r, t>>] <= run[r].attempt
      BY <1>1, <1>2, <2>1
    <2>4. \A q \in Runs, t \in Tables : late'[<<q, t>>] \in 0 .. Attempts
      BY <2>1, <2>2, <2>3
    <2>5. \A p \in Runs \X Tables : late'[p] \in 0 .. Attempts
      BY <2>4
    <2>6. late' \in [Runs \X Tables -> 0 .. Attempts]
      <3> DEFINE f(p) == IF p[1] = r /\ p[2] \in tables THEN late[p] + 1 ELSE late[p]
      <3>1. late' = [p \in Runs \X Tables |-> f(p)]
        BY <1>4 DEF GivenUp
      <3> HIDE DEF f
      <3> QED
        BY <2>5, <3>1
    <2>7. \A q \in Runs \ {r}, t \in Tables : late'[<<q, t>>] = late[<<q, t>>]
      BY <2>1
    <2>8. \A t \in Tables \ tables : late'[<<r, t>>] = late[<<r, t>>]
      BY <2>1
    <2> QED
      BY <2>3, <2>6, <2>7, <2>8
  <1> QED
    BY <1>3, <1>4

\* A step of one run leaves the others as they were, and what has landed stays.
LEMMA OneRun ==
  ASSUME LedgerInv, TypeOK', NEW r \in Runs,
         \A q \in Runs \ {r} : run'[q] = run[q],
         \A q \in Runs \ {r}, t \in Tables : late'[<<q, t>>] = late[<<q, t>>],
         landed \subseteq landed', ledger' \subseteq ledger \cup {r},
         LoadsCounted(r)', Observes(r)', LoadsLanded(r)',
         r \in ledger' => \A t \in Written(r)' : <<r, t>> \in landed'
  PROVE  LedgerInv'
  <1> SUFFICES ASSUME NEW q \in Runs, q # r
               PROVE  /\ LoadsCounted(q)' /\ Observes(q)' /\ LoadsLanded(q)'
                      /\ q \in ledger' => \A t \in Written(q)' : <<q, t>> \in landed'
    BY DEF LedgerInv, RunsInv, LedgerCertifies, TypeOK
  <1>1. run'[q] = run[q] /\ \A t \in Tables : late'[<<q, t>>] = late[<<q, t>>]
    OBVIOUS
  <1>2. LoadsCounted(q) /\ Observes(q) /\ LoadsLanded(q)
    BY DEF LedgerInv, RunsInv
  <1>3. LoadsCounted(q)'
    BY <1>1, <1>2 DEF LoadsCounted, Unobserved, Written
  <1>4. Observes(q)'
    BY <1>1, <1>2 DEF Observes, Unobserved
  <1>5. LoadsLanded(q)'
    BY <1>1, <1>2 DEF LoadsLanded, Written
  <1>6. q \in ledger' => \A t \in Written(q)' : <<q, t>> \in landed'
    BY <1>1 DEF LedgerInv, LedgerCertifies, Written
  <1> QED
    BY <1>3, <1>4, <1>5, <1>6

\* A step that changes no run and no load.
LEMMA NoRun ==
  ASSUME LedgerInv, TypeOK', run' = run, late' = late, landed' = landed, ledger' = ledger
  PROVE  LedgerInv'
  BY DEF LedgerInv, RunsInv, LedgerCertifies, LoadsCounted, Observes, LoadsLanded,
     Unobserved, Written

\* What is shown is an observation, or none.
LEMMA ViewType ==
  ASSUME TypeOK, RawInv
  PROVE  /\ RawRows \in SUBSET Row /\ IsFiniteSet(RawRows) /\ gold \in Rows
         /\ View \in Rows
  <1>1. RawRows \in SUBSET Row /\ gold \in Rows
    BY DEF TypeOK, RawRows
  <1>2. IsFiniteSet(RawRows)
    <2> DEFINE rows == [d \in Days |-> raw[d].rows]
    <2>1. IsFiniteSet(Days)
      BY AppendCompactAssumption, FS_Interval DEF Days
    <2>2. rows \in Surjection(Days, {raw[d].rows : d \in Days})
      BY DEF Surjection
    <2>3. IsFiniteSet({raw[d].rows : d \in Days})
      BY <2>1, <2>2, FS_Surjection
    <2>4. \A S \in {raw[d].rows : d \in Days} : IsFiniteSet(S)
      BY DEF RawInv
    <2> QED
      BY <2>3, <2>4, FS_UNION DEF RawRows
  <1> QED
    BY <1>1, <1>2, FoldedIs DEF View
\* Each step of a run keeps the invariant of runs and the ledger.

\* collect(): nothing has been observed yet.
LEMMA StartLedger ==
  ASSUME LedgerInv, NEW r \in Runs, Start(r)
  PROVE  LedgerInv'
  <1>1. TypeOK /\ LoadsCounted(r) /\ Observes(r) /\ LoadsLanded(r)
    BY DEF LedgerInv, RunsInv
  <1>2. PICK now \in 1 .. MaxTime :
          run' = [run EXCEPT ![r].state = "started", ![r].at = now]
    BY DEF Start
  <1>3. now \in Nat
    BY AppendCompactAssumption
  <1>4. /\ run' \in [Runs -> Run] /\ \A q \in Runs \ {r} : run'[q] = run[q]
        /\ run'[r].state = "started" /\ run'[r].waiting = run[r].waiting
        /\ run'[r].row = run[r].row /\ run'[r].attempt = run[r].attempt
    BY <1>1, <1>2, <1>3 DEF TypeOK, Run, RunState
  <1>5. UNCHANGED <<logs, late, landed, raw, ledger, gold, processed, job, today>>
    BY DEF Start, warehouse, compacted
  <1>6. TypeOK'
    BY <1>1, <1>4, <1>5 DEF TypeOK
  <1>7. run[r].state = "out"
    BY DEF Start
  <1>8. LoadsCounted(r)' /\ Observes(r)' /\ LoadsLanded(r)'
    BY <1>1, <1>4, <1>5, <1>7 DEF LoadsCounted, Observes, LoadsLanded, Unobserved, Written
  <1> QED
    BY <1>1, <1>4, <1>5, <1>6, <1>7, <1>8, OneRun DEF Observes, Unobserved

\* load_ingest_status(): what is remembered is an observation that was shown.
LEMMA PreflightLedger ==
  ASSUME LedgerInv, RawInv, NEW r \in Runs, Preflight(r)
  PROVE  LedgerInv'
  <1>1. TypeOK /\ LoadsCounted(r) /\ Observes(r) /\ LoadsLanded(r)
    BY DEF LedgerInv, RunsInv
  <1>2. run' = [run EXCEPT ![r].state = "planned", ![r].prior = View] /\ View \in Rows
    BY <1>1, ViewType DEF Preflight
  <1>3. /\ run' \in [Runs -> Run] /\ \A q \in Runs \ {r} : run'[q] = run[q]
        /\ run'[r].state = "planned" /\ run'[r].waiting = run[r].waiting
        /\ run'[r].row = run[r].row /\ run'[r].attempt = run[r].attempt
    BY <1>1, <1>2, ZenonT(60) DEF TypeOK, Run, RunState
  <1>4. UNCHANGED <<logs, late, landed, raw, ledger, gold, processed, job, today>>
    BY DEF Preflight, warehouse, compacted
  <1>5. TypeOK'
    BY <1>1, <1>3, <1>4 DEF TypeOK
  <1>6. run[r].state = "started"
    BY DEF Preflight
  <1>7. LoadsCounted(r)' /\ Observes(r)' /\ LoadsLanded(r)'
    BY <1>1, <1>3, <1>4, <1>6 DEF LoadsCounted, Observes, LoadsLanded, Unobserved, Written
  <1> QED
    BY <1>1, <1>3, <1>4, <1>5, <1>6, <1>7, OneRun DEF Observes, Unobserved

\* An observation is set once, with the tables to load.
LEMMA ObservedIs ==
  ASSUME TypeOK, NEW r \in Runs, NEW row \in Rows, NEW loads \in SUBSET Tables,
         run' = [run EXCEPT ![r].state = "loading", ![r].row = row, ![r].waiting = loads]
  PROVE  /\ run' \in [Runs -> Run] /\ \A q \in Runs \ {r} : run'[q] = run[q]
         /\ run'[r].state = "loading" /\ run'[r].waiting = loads
         /\ run'[r].row = row /\ run'[r].attempt = run[r].attempt
         /\ run'[r].prior = run[r].prior
  <1>1. run'[r] \in Run
    BY DEF TypeOK, Run, RunState
  <1>2. \A q \in Runs : run'[q] \in Run
    BY <1>1 DEF TypeOK
  <1>3. run' = [q \in Runs |-> run'[q]]
    BY DEF TypeOK
  <1>4. run' \in [Runs -> Run]
    BY <1>2, <1>3
  <1> QED
    BY <1>4 DEF TypeOK, Run

\* The observation of a run shows no less than the history did before it.
LEMMA ObserveLedger ==
  ASSUME LedgerInv, NEW r \in Runs, Observe(r)
  PROVE  LedgerInv'
  <1> DEFINE read == [at |-> run[r].at, tokens |-> logs, run |-> r]
             row == Preserved(read, run[r].prior)
  <1>1. TypeOK /\ LoadsCounted(r) /\ Observes(r) /\ LoadsLanded(r)
    BY DEF LedgerInv, RunsInv
  <1>2. read \in Row /\ run[r].prior \in Rows /\ read.run = r
    BY <1>1, AppendCompactAssumption DEF TypeOK, Run, Row
  <1>3. /\ row \in Rows
        /\ row # NoRow => row.run = r /\ row.tokens >= Tokens(run[r].prior)
    BY <1>2, PreservedIs
  <1>4. /\ run[r].state = "planned"
        /\ run' = [run EXCEPT ![r].state = "loading", ![r].row = row, ![r].waiting = Loads(row)]
    BY DEF Observe
  <1> HIDE DEF row, read
  <1>5. Loads(row) \in SUBSET Tables /\ Loads(NoRow) \subseteq Loads(row)
    BY DEF Loads
  <1>6. /\ run' \in [Runs -> Run] /\ \A q \in Runs \ {r} : run'[q] = run[q]
        /\ run'[r].state = "loading" /\ run'[r].waiting = Loads(row)
        /\ run'[r].row = row /\ run'[r].attempt = run[r].attempt
        /\ run'[r].prior = run[r].prior
    BY <1>1, <1>3, <1>4, <1>5, ObservedIs
  <1>7. UNCHANGED <<logs, late, landed, raw, ledger, gold, processed, job, today>>
    BY DEF Observe, warehouse, compacted
  <1>8. TypeOK'
    BY <1>1, <1>6, <1>7 DEF TypeOK
  <1>9. run[r].row = NoRow /\ r \notin ledger
    BY <1>1, <1>4 DEF Observes, Unobserved
  <1>10. Written(r)' = Loads(row) /\ Written(r) \subseteq Written(r)'
    BY <1>5, <1>6, <1>9 DEF Written
  <1>11. LoadsCounted(r)'
    <2>1. \A t \in Tables : late[<<r, t>>] > 0 => t \in Written(r)'
      BY <1>1, <1>10 DEF LoadsCounted
    <2>2. run[r].attempt \in Nat /\ run[r].attempt >= 1
      BY <1>1, AppendCompactAssumption DEF TypeOK, Run
    <2>3. \A t \in Tables : late[<<r, t>>] = 0
      BY <1>1, <1>4 DEF LoadsCounted, Unobserved
    <2> QED
      BY <1>6, <1>7, <1>10, <2>1, <2>2, <2>3 DEF LoadsCounted, Unobserved
  <1>12. Observes(r)' /\ LoadsLanded(r)'
    BY <1>1, <1>3, <1>6, <1>7, <1>10 DEF Observes, LoadsLanded, Unobserved
  <1> QED
    BY <1>6, <1>7, <1>8, <1>9, <1>11, <1>12, OneRun
\* A row arrives today, and on no other day.
LEMMA LandingType ==
  ASSUME TypeOK, NEW r \in Runs, NEW t \in Tables, t \in Written(r), Lands(r, t)
  PROVE  /\ landed' = landed \cup {<<r, t>>} /\ landed' \in SUBSET (Runs \X Tables)
         /\ ledger' = ledger
         /\ raw' \in [Days -> [rows: SUBSET Row, count: Nat]]
         /\ t # "daily_stats" => raw' = raw
         /\ t = "daily_stats" =>
              /\ run[r].row \in Row
              /\ \A d \in Days : d # today => raw'[d] = raw[d]
              /\ raw'[today].rows = raw[today].rows \cup {run[r].row}
              /\ raw'[today].count = raw[today].count + 1
  <1>1. landed' = landed \cup {<<r, t>>} /\ landed' \in SUBSET (Runs \X Tables) /\ ledger' = ledger
    BY DEF TypeOK, Lands
  <1>2. CASE t = "daily_stats"
    <2>1. run[r].row \in Row
      BY <1>2, WrittenIs
    <2>2. raw' = [raw EXCEPT ![today].rows = @ \cup {run[r].row}, ![today].count = @ + 1]
      BY <1>2 DEF Lands
    <2> QED
      BY <1>1, <1>2, <2>1, <2>2 DEF TypeOK
  <1>3. CASE t # "daily_stats"
    BY <1>1, <1>3 DEF TypeOK, Lands
  <1> QED
    BY <1>2, <1>3

\* A load that is answered without error has landed.
LEMMA LoadedLedger ==
  ASSUME LedgerInv, NEW r \in Runs, Loaded(r)
  PROVE  LedgerInv'
  <1>1. TypeOK /\ LoadsCounted(r) /\ Observes(r) /\ LoadsLanded(r)
    BY DEF LedgerInv, RunsInv
  <1>2. PICK t \in run[r].waiting : Lands(r, t) /\ Answered(r, t, FALSE)
    BY DEF Loaded
  <1>3. /\ run' \in [Runs -> Run] /\ \A q \in Runs \ {r} : run'[q] = run[q]
        /\ run'[r].waiting = run[r].waiting \ {t} /\ run'[r].error = (run[r].error \/ FALSE)
        /\ run'[r].state = run[r].state /\ run'[r].prior = run[r].prior
        /\ run'[r].row = run[r].row /\ run'[r].attempt = run[r].attempt
    BY <1>1, <1>2, AnsweredIs
  <1>4. UNCHANGED <<logs, late, gold, processed, job, today>>
    BY DEF Loaded, compacted
  <1>5. t \in Written(r) /\ t \in Tables
    BY <1>1, <1>2, WrittenIs DEF LoadsCounted
  <1>6. /\ landed' = landed \cup {<<r, t>>} /\ landed' \in SUBSET (Runs \X Tables)
        /\ ledger' = ledger /\ raw' \in [Days -> [rows: SUBSET Row, count: Nat]]
    BY <1>1, <1>2, <1>5, LandingType
  <1>7. TypeOK'
    BY <1>1, <1>3, <1>4, <1>6 DEF TypeOK
  <1>8. run[r].state = "loading"
    BY DEF Loaded
  <1>9. LoadsCounted(r)' /\ Observes(r)'
    BY <1>1, <1>3, <1>4, <1>6, <1>8 DEF LoadsCounted, Observes, Unobserved, Written
  <1>10. LoadsLanded(r)'
    BY <1>1, <1>3, <1>6, <1>8 DEF LoadsLanded, Written
  <1>11. r \in ledger' => \A u \in Written(r)' : <<r, u>> \in landed'
    BY <1>3, <1>6 DEF LedgerInv, LedgerCertifies, Written
  <1> QED
    BY <1>3, <1>4, <1>6, <1>7, <1>9, <1>10, <1>11, OneRun

\* A load that fails leaves an error, given up or not.
LEMMA LoadFailsLedger ==
  ASSUME LedgerInv, NEW r \in Runs, LoadFails(r)
  PROVE  LedgerInv'
  <1>1. TypeOK /\ LoadsCounted(r) /\ Observes(r) /\ LoadsLanded(r)
    BY DEF LedgerInv, RunsInv
  <1>2. PICK t \in run[r].waiting : Answered(r, t, TRUE) /\ late' \in {late, GivenUp(r, {t})}
    BY DEF LoadFails
  <1>3. /\ run' \in [Runs -> Run] /\ \A q \in Runs \ {r} : run'[q] = run[q]
        /\ run'[r].waiting = run[r].waiting \ {t} /\ run'[r].error
        /\ run'[r].state = run[r].state /\ run'[r].prior = run[r].prior
        /\ run'[r].row = run[r].row /\ run'[r].attempt = run[r].attempt
    BY <1>1, <1>2, AnsweredIs
  <1>4. /\ late' \in [Runs \X Tables -> 0 .. Attempts]
        /\ \A q \in Runs \ {r}, u \in Tables : late'[<<q, u>>] = late[<<q, u>>]
        /\ \A u \in Tables \ {t} : late'[<<r, u>>] = late[<<r, u>>]
        /\ late'[<<r, t>>] <= run[r].attempt
    BY <1>1, <1>2, GivenUpIs
  <1>5. UNCHANGED <<logs, landed, raw, ledger, gold, processed, job, today>>
    BY DEF LoadFails, warehouse, compacted
  <1>6. TypeOK'
    BY <1>1, <1>3, <1>4, <1>5 DEF TypeOK
  <1>7. run[r].state = "loading"
    BY DEF LoadFails
  <1>8. t \in Written(r) /\ Written(r)' = Written(r)
    BY <1>1, <1>2, <1>3 DEF LoadsCounted, Written
  <1>9. LoadsCounted(r)'
    <2>1. run'[r].state = "loading" /\ ~Unobserved(r)'
      BY <1>3, <1>7 DEF Unobserved
    <2>2. ASSUME NEW u \in Tables
          PROVE  /\ late'[<<r, u>>] > 0 => u \in Written(r)
                 /\ late'[<<r, u>>] <= run[r].attempt
                 /\ u \in run[r].waiting \ {t} => late'[<<r, u>>] < run[r].attempt
      BY <1>1, <1>4, <1>8 DEF LoadsCounted
    <2> QED
      BY <1>1, <1>3, <1>8, <2>1, <2>2 DEF LoadsCounted
  <1>10. Observes(r)' /\ LoadsLanded(r)'
    BY <1>1, <1>3, <1>5, <1>7 DEF Observes, LoadsLanded, Unobserved
  <1>11. r \in ledger' => \A u \in Written(r)' : <<r, u>> \in landed'
    BY <1>5, <1>8 DEF LedgerInv, LedgerCertifies
  <1> QED
    BY <1>3, <1>4, <1>5, <1>6, <1>9, <1>10, <1>11, OneRun

\* A load that lands late lands for its run, whatever that does now.
LEMMA LandsLateLedger ==
  ASSUME LedgerInv, NEW r \in Runs, LandsLate(r)
  PROVE  LedgerInv'
  <1>1. TypeOK /\ LoadsCounted(r) /\ Observes(r) /\ LoadsLanded(r)
    BY DEF LedgerInv, RunsInv
  <1>2. PICK t \in Tables : /\ late[<<r, t>>] > 0 /\ Lands(r, t)
                            /\ late' = [late EXCEPT ![<<r, t>>] = @ - 1]
    BY DEF LandsLate
  <1>3. t \in Written(r)
    BY <1>1, <1>2 DEF LoadsCounted
  <1>4. /\ landed' = landed \cup {<<r, t>>} /\ landed' \in SUBSET (Runs \X Tables)
        /\ ledger' = ledger /\ raw' \in [Days -> [rows: SUBSET Row, count: Nat]]
    BY <1>1, <1>2, <1>3, LandingType
  <1>5. UNCHANGED <<logs, run, gold, processed, job, today>>
    BY DEF LandsLate, compacted
  <1>6. late[<<r, t>>] \in 0 .. Attempts /\ Attempts \in Nat
    BY <1>1, AppendCompactAssumption DEF TypeOK
  <1>7. /\ late' \in [Runs \X Tables -> 0 .. Attempts]
        /\ \A q \in Runs \ {r}, u \in Tables : late'[<<q, u>>] = late[<<q, u>>]
        /\ \A u \in Tables \ {t} : late'[<<r, u>>] = late[<<r, u>>]
        /\ late'[<<r, t>>] = late[<<r, t>>] - 1
    BY <1>1, <1>2, <1>6 DEF TypeOK
  <1>8. TypeOK'
    BY <1>1, <1>4, <1>5, <1>7 DEF TypeOK
  <1>9. LoadsCounted(r)'
    <2>1. run[r].attempt \in Nat
      BY <1>1 DEF TypeOK, Run
    <2>2. ~Unobserved(r)
      BY <1>1, <1>2 DEF LoadsCounted
    <2>3. ASSUME NEW u \in Tables
          PROVE  /\ late'[<<r, u>>] > 0 => u \in Written(r)
                 /\ late'[<<r, u>>] <= run[r].attempt
                 /\ u \in run[r].waiting => late'[<<r, u>>] < run[r].attempt
      BY <1>1, <1>3, <1>6, <1>7, <2>1 DEF LoadsCounted
    <2> QED
      BY <1>1, <1>5, <2>2, <2>3 DEF LoadsCounted, Unobserved, Written
  <1>10. Observes(r)' /\ LoadsLanded(r)'
    BY <1>1, <1>4, <1>5 DEF Observes, LoadsLanded, Unobserved, Written
  <1>11. r \in ledger' => \A u \in Written(r)' : <<r, u>> \in landed'
    BY <1>4, <1>5 DEF LedgerInv, LedgerCertifies, Written
  <1> QED
    BY <1>4, <1>5, <1>7, <1>8, <1>9, <1>10, <1>11, OneRun
\* A step that gives up a run, or begins its next attempt.

\* A run that gives up may have been certified, but only if it had landed.
LEMMA GivesUpLedger ==
  ASSUME LedgerInv, NEW r \in Runs, GivesUp(r),
         late' \in {late, GivenUp(r, run[r].waiting)},
         ledger' \subseteq ledger \cup {r},
         r \in ledger' => \A t \in Written(r) : <<r, t>> \in landed,
         UNCHANGED <<logs, landed, raw, gold, processed, job, today>>
  PROVE  LedgerInv'
  <1>1. TypeOK /\ LoadsCounted(r) /\ Observes(r)
    BY DEF LedgerInv, RunsInv
  <1>2. /\ run' \in [Runs -> Run] /\ \A q \in Runs \ {r} : run'[q] = run[q]
        /\ run'[r].state = "failed" /\ run'[r].waiting = {}
        /\ run'[r].row = run[r].row /\ run'[r].prior = run[r].prior
        /\ run'[r].attempt = run[r].attempt
    BY <1>1, GivesUpIs
  <1>3. run[r].waiting \in SUBSET run[r].waiting /\ run[r].waiting \in SUBSET Tables
    BY <1>1 DEF TypeOK, Run
  <1>4. /\ late' \in [Runs \X Tables -> 0 .. Attempts]
        /\ \A q \in Runs \ {r}, t \in Tables : late'[<<q, t>>] = late[<<q, t>>]
        /\ \A t \in Tables \ run[r].waiting : late'[<<r, t>>] = late[<<r, t>>]
        /\ \A t \in run[r].waiting : late'[<<r, t>>] <= run[r].attempt
    BY <1>1, <1>3, GivenUpIs
  <1>5. TypeOK'
    BY <1>1, <1>2, <1>4 DEF TypeOK
  <1>6. ~Unobserved(r)' /\ Written(r)' = Written(r)
    BY <1>2 DEF Unobserved, Written
  <1>7. LoadsCounted(r)'
    <2>1. \A t \in Tables : /\ late'[<<r, t>>] > 0 => t \in Written(r)
                            /\ late'[<<r, t>>] <= run[r].attempt
      BY <1>1, <1>4 DEF LoadsCounted
    <2> QED
      BY <1>2, <1>6, <2>1 DEF LoadsCounted
  <1>8. Observes(r)' /\ LoadsLanded(r)'
    BY <1>1, <1>2, <1>6 DEF Observes, LoadsLanded
  <1> QED
    BY <1>2, <1>4, <1>5, <1>6, <1>7, <1>8, OneRun

\* A run that begins again keeps what landed of its earlier attempts.
LEMMA NextAttemptLedger ==
  ASSUME LedgerInv, NEW r \in Runs, ~Unobserved(r), run[r].waiting = {},
         run[r].attempt < Attempts, NextAttempt(r),
         ledger' \subseteq ledger \cup {r},
         r \in ledger' => \A t \in Written(r) : <<r, t>> \in landed,
         UNCHANGED <<logs, late, landed, raw, gold, processed, job, today>>
  PROVE  LedgerInv'
  <1>1. TypeOK /\ LoadsCounted(r) /\ Observes(r)
    BY DEF LedgerInv, RunsInv
  <1>2. /\ run' \in [Runs -> Run] /\ \A q \in Runs \ {r} : run'[q] = run[q]
        /\ run'[r].state = "loading" /\ run'[r].waiting = Written(r) /\ ~run'[r].error
        /\ run'[r].attempt = run[r].attempt + 1
        /\ run'[r].row = run[r].row /\ run'[r].prior = run[r].prior
    BY <1>1, NextAttemptIs
  <1>3. TypeOK'
    BY <1>1, <1>2 DEF TypeOK
  <1>4. ~Unobserved(r)' /\ Written(r)' = Written(r)
    BY <1>2 DEF Unobserved, Written
  <1>5. LoadsCounted(r)'
    <2>1. run[r].attempt \in Nat /\ \A t \in Tables : late[<<r, t>>] \in Nat
      BY <1>1, AppendCompactAssumption DEF TypeOK, Run
    <2>2. \A t \in Tables : /\ late[<<r, t>>] > 0 => t \in Written(r)
                            /\ late[<<r, t>>] <= run[r].attempt
      BY <1>1 DEF LoadsCounted
    <2>3. \A t \in Tables : /\ late[<<r, t>>] <= run[r].attempt + 1
                            /\ late[<<r, t>>] < run[r].attempt + 1
      BY <2>1, <2>2
    <2> QED
      BY <1>2, <1>4, <2>2, <2>3 DEF LoadsCounted
  <1>6. Observes(r)'
    BY <1>1, <1>2, <1>4 DEF Observes
  <1>7. LoadsLanded(r)'
    BY <1>2, <1>4 DEF LoadsLanded
  <1> QED
    BY <1>2, <1>3, <1>4, <1>5, <1>6, <1>7, OneRun

\* LedgerCertifies, of one run.
LEMMA LedgerStands ==
  ASSUME LedgerInv, NEW r \in Runs
  PROVE  r \in ledger => \A t \in Written(r) : <<r, t>> \in landed
  BY DEF LedgerInv, LedgerCertifies

\* persist_batch(): without error, all that was loaded has landed.
LEMMA LoadsEndLedger ==
  ASSUME LedgerInv, NEW r \in Runs, LoadsEnd(r)
  PROVE  LedgerInv'
  <1>1. TypeOK /\ LoadsCounted(r) /\ Observes(r) /\ LoadsLanded(r)
    BY DEF LedgerInv, RunsInv
  <1>2. /\ run[r].state = "loading" /\ run[r].waiting = {}
        /\ UNCHANGED <<logs, late, landed, raw, ledger, gold, processed, job, today>>
    BY DEF LoadsEnd, warehouse, compacted
  <1>3. ~Unobserved(r)
    BY <1>2 DEF Unobserved
  <1>4. CASE ~run[r].error
    <2>1. run' = [run EXCEPT ![r].state = "certifying"]
      BY <1>4 DEF LoadsEnd
    <2>2. /\ run' \in [Runs -> Run] /\ \A q \in Runs \ {r} : run'[q] = run[q]
          /\ run'[r].state = "certifying" /\ run'[r].waiting = {}
          /\ run'[r].row = run[r].row /\ run'[r].prior = run[r].prior
          /\ run'[r].attempt = run[r].attempt
      BY <1>1, <1>2, <2>1, StateIs DEF RunState
    <2>3. TypeOK'
      BY <1>1, <1>2, <2>2 DEF TypeOK
    <2>4. ~Unobserved(r)' /\ Written(r)' = Written(r)
      BY <2>2 DEF Unobserved, Written
    <2>5. LoadsCounted(r)' /\ Observes(r)'
      BY <1>1, <1>2, <2>2, <2>4 DEF LoadsCounted, Observes
    <2>6. LoadsLanded(r)'
      BY <1>1, <1>2, <1>4, <2>2, <2>4 DEF LoadsLanded
    <2>7. r \in ledger' => \A t \in Written(r)' : <<r, t>> \in landed'
      BY <1>2, <2>4, LedgerStands
    <2> QED
      BY <1>2, <2>2, <2>3, <2>5, <2>6, <2>7, OneRun
  <1>5. CASE run[r].error
    <2>1. GivesUp(r) \/ (run[r].attempt < Attempts /\ NextAttempt(r))
      BY <1>5 DEF LoadsEnd
    <2> QED
      BY <1>2, <1>3, <2>1, LedgerStands, GivesUpLedger, NextAttemptLedger
  <1> QED
    BY <1>4, <1>5

\* The append to the ledger, whether its reply comes or not.
LEMMA CertifyLedger ==
  ASSUME LedgerInv, NEW r \in Runs, Certify(r)
  PROVE  LedgerInv'
  <1>1. TypeOK /\ LoadsCounted(r) /\ Observes(r) /\ LoadsLanded(r)
    BY DEF LedgerInv, RunsInv
  <1>2. /\ run[r].state = "certifying" /\ ledger' \in {ledger, ledger \cup {r}}
        /\ UNCHANGED <<logs, late, landed, raw, gold, processed, job, today>>
    BY DEF Certify, compacted
  <1>3. ~Unobserved(r) /\ run[r].waiting = {}
    BY <1>1, <1>2 DEF Unobserved, LoadsCounted
  <1>4. \A t \in Written(r) : <<r, t>> \in landed
    BY <1>1, <1>2, <1>3 DEF LoadsLanded
  <1>5. CASE r \in ledger' /\ run' = [run EXCEPT ![r].state = "done"]
    <2>1. /\ run' \in [Runs -> Run] /\ \A q \in Runs \ {r} : run'[q] = run[q]
          /\ run'[r].state = "done" /\ run'[r].waiting = {}
          /\ run'[r].row = run[r].row /\ run'[r].prior = run[r].prior
          /\ run'[r].attempt = run[r].attempt
      BY <1>1, <1>3, <1>5, StateIs DEF RunState
    <2>2. TypeOK'
      BY <1>1, <1>2, <2>1 DEF TypeOK
    <2>3. ~Unobserved(r)' /\ Written(r)' = Written(r)
      BY <2>1 DEF Unobserved, Written
    <2>4. LoadsCounted(r)' /\ Observes(r)' /\ LoadsLanded(r)'
      BY <1>1, <1>2, <2>1, <2>3 DEF LoadsCounted, Observes, LoadsLanded
    <2> QED
      BY <1>2, <1>4, <2>1, <2>2, <2>3, <2>4, OneRun
  <1>6. CASE GivesUp(r)
    BY <1>2, <1>3, <1>4, <1>6, GivesUpLedger
  <1>7. CASE run[r].attempt < Attempts /\ NextAttempt(r)
    BY <1>2, <1>3, <1>4, <1>7, NextAttemptLedger
  <1> QED
    BY <1>5, <1>6, <1>7 DEF Certify

\* The end of a run at any time.
LEMMA AbortLedger ==
  ASSUME LedgerInv, NEW r \in Runs, Abort(r)
  PROVE  LedgerInv'
  BY LedgerStands, GivesUpLedger DEF Abort, warehouse, compacted

\* Every step of a run.
LEMMA RunLedger ==
  ASSUME LedgerInv, RawInv, NEW r \in Runs, RunSteps(r)
  PROVE  LedgerInv'
  BY StartLedger, PreflightLedger, ObserveLedger, LoadedLedger, LoadFailsLedger,
     LandsLateLedger, LoadsEndLedger, CertifyLedger, AbortLedger DEF RunSteps
\* The steps of compaction, of the source and of the days.

\* What a transaction has read has its type.
LEMMA JobType ==
  ASSUME TypeOK, NEW k \in Compactors
  PROVE  /\ job[k] \in Job /\ job[k].fold \in Rows /\ job[k].counts \in [Days -> Nat]
         /\ NoJob \in Job /\ [NoJob EXCEPT !.state = "doomed"] \in Job
  BY DEF TypeOK, Job, NoJob, Rows

\* A transaction reads what is shown, and counts.
LEMMA BeginType ==
  ASSUME TypeOK, RawInv, NEW k \in Compactors, BeginCompaction(k)
  PROVE  TypeOK'
  <1> DEFINE counts == [d \in Days |-> IF d \in Candidates THEN raw[d].count ELSE 0]
             begun == [state |-> "running", fold |-> View, counts |-> counts]
  <1>1. counts \in [Days -> Nat]
    BY DEF TypeOK
  <1>2. begun \in Job
    BY <1>1, ViewType DEF Job
  <1>3. job' = [job EXCEPT ![k] = begun]
    BY DEF BeginCompaction
  <1> HIDE DEF begun
  <1>4. job' \in [Compactors -> Job]
    BY <1>2, <1>3 DEF TypeOK
  <1> QED
    BY <1>4 DEF TypeOK, BeginCompaction, warehouse, compacted

\* What a commit changes: after it, no transaction is left that may commit.
LEMMA CommitIs ==
  ASSUME TypeOK, NEW k \in Compactors, CommitCompaction(k)
  PROVE  /\ TypeOK' /\ job[k].state = "running"
         /\ gold' = IF job[k].counts = NoJob.counts THEN gold ELSE job[k].fold
         /\ \A d \in Days : processed'[d] = Greater(processed[d], job[k].counts[d])
         /\ \A i \in Compactors : job'[i].state # "running"
         /\ UNCHANGED <<logs, run, late, landed, raw, ledger, today>>
  <1>1. /\ job[k].state = "running"
        /\ gold' = IF job[k].counts = NoJob.counts THEN gold ELSE job[k].fold
        /\ processed' = [d \in Days |-> Greater(processed[d], job[k].counts[d])]
        /\ UNCHANGED <<logs, run, late, landed, raw, ledger, today>>
    BY DEF CommitCompaction, Rewrites, warehouse
  <1>2. gold' \in Rows
    BY <1>1, JobType DEF TypeOK
  <1>3. \A d \in Days : processed[d] \in Nat /\ job[k].counts[d] \in Nat
    BY JobType DEF TypeOK
  <1>4. processed' \in [Days -> Nat]
    BY <1>1, <1>3, GreaterIs
  <1>5. \A i \in Compactors : job'[i] =
          IF i = k THEN NoJob
          ELSE IF job[i].state = "running" THEN [NoJob EXCEPT !.state = "doomed"] ELSE job[i]
    BY DEF CommitCompaction
  <1>6. \A i \in Compactors : job'[i] \in Job
    BY <1>5, JobType
  <1>7. job' \in [Compactors -> Job]
    BY <1>6 DEF CommitCompaction
  <1>8. \A i \in Compactors : job'[i].state # "running"
    BY <1>5 DEF NoJob
  <1>9. TypeOK'
    BY <1>1, <1>2, <1>4, <1>7 DEF TypeOK
  <1> QED
    BY <1>1, <1>8, <1>9

\* An aborted transaction leaves nothing.
LEMMA AbortCompactionType ==
  ASSUME TypeOK, NEW k \in Compactors, AbortCompaction(k)
  PROVE  TypeOK'
  <1>1. job' \in [Compactors -> Job]
    BY JobType DEF TypeOK, AbortCompaction
  <1> QED
    BY <1>1 DEF TypeOK, AbortCompaction, warehouse, compacted

\* What an expiry changes: one day that has gone by, and was processed.
LEMMA ExpireIs ==
  ASSUME TypeOK, NEW d \in Days, Expire(d)
  PROVE  /\ TypeOK' /\ d < today /\ processed[d] = raw[d].count
         /\ raw'[d].rows = {} /\ raw'[d].count = 0
         /\ \A e \in Days : e # d => raw'[e] = raw[e]
         /\ UNCHANGED <<logs, run, late, landed, gold, processed, ledger, job, today>>
  <1>1. /\ d < today /\ processed[d] = raw[d].count
        /\ raw' = [raw EXCEPT ![d] = [rows |-> {}, count |-> 0]]
        /\ UNCHANGED <<logs, run, late, landed, gold, processed, ledger, job, today>>
    BY DEF Expire, compacted
  <1>2. raw' \in [Days -> [rows: SUBSET Row, count: Nat]]
    BY <1>1 DEF TypeOK
  <1> QED
    BY <1>1, <1>2 DEF TypeOK

\* The next day is a day.
LEMMA MidnightType ==
  ASSUME TypeOK, Midnight
  PROVE  TypeOK'
  BY AppendCompactAssumption DEF TypeOK, Midnight, Days, warehouse, compacted

\* The source reports within its bound.
LEMMA UseType ==
  ASSUME TypeOK, Use
  PROVE  TypeOK'
  BY DEF TypeOK, Use, warehouse, compacted

\* Every step keeps the invariant of runs and the ledger.
LEMMA NextLedger ==
  ASSUME LedgerInv, RawInv, [Next]_vars
  PROVE  LedgerInv'
  <1> USE DEF LedgerInv
  <1>1. CASE Use
    BY <1>1, UseType, NoRun DEF Use, warehouse
  <1>2. CASE Midnight
    BY <1>2, MidnightType, NoRun DEF Midnight, warehouse
  <1>3. ASSUME NEW k \in Compactors, CommitCompaction(k)
        PROVE  LedgerInv'
    BY <1>3, CommitIs, NoRun
  <1>4. ASSUME NEW d \in Days, Expire(d)
        PROVE  LedgerInv'
    BY <1>4, ExpireIs, NoRun
  <1>5. ASSUME NEW k \in Compactors, BeginCompaction(k)
        PROVE  LedgerInv'
    BY <1>5, BeginType, NoRun DEF BeginCompaction, warehouse
  <1>6. ASSUME NEW k \in Compactors, AbortCompaction(k)
        PROVE  LedgerInv'
    BY <1>6, AbortCompactionType, NoRun DEF AbortCompaction, warehouse
  <1>7. CASE UNCHANGED vars
    <2>1. TypeOK'
      BY <1>7 DEF TypeOK, vars
    <2> QED
      BY <1>7, <2>1, NoRun DEF vars
  <1> QED
    BY <1>1, <1>2, <1>3, <1>4, <1>5, <1>6, <1>7, RunLedger DEF Next, Maintenance

\* Nothing has started, nothing is certified.
LEMMA InitLedger ==
  ASSUME Init
  PROVE  LedgerInv
  <1>1. NotStarted \in Run
    BY AppendCompactAssumption DEF NotStarted, Run, RunState, Rows
  <1>2. NoJob \in Job
    BY DEF NoJob, Job, Rows
  <1>3. 1 \in Days /\ 0 \in 0 .. MaxTokens /\ 0 \in 0 .. Attempts
    BY AppendCompactAssumption DEF Days
  <1>4. /\ logs = 0 /\ today = 1 /\ ledger = {} /\ landed = {} /\ gold = NoRow
        /\ run = [r \in Runs |-> NotStarted]
        /\ late = [p \in Runs \X Tables |-> 0]
        /\ raw = [d \in Days |-> [rows |-> {}, count |-> 0]]
        /\ processed = [d \in Days |-> 0]
        /\ job = [k \in Compactors |-> NoJob]
    BY DEF Init
  <1>5. /\ run \in [Runs -> Run] /\ late \in [Runs \X Tables -> 0 .. Attempts]
        /\ processed \in [Days -> Nat] /\ job \in [Compactors -> Job]
        /\ raw \in [Days -> [rows: SUBSET Row, count: Nat]]
    BY <1>1, <1>2, <1>3, <1>4
  <1>6. TypeOK
    BY <1>3, <1>4, <1>5 DEF TypeOK, Rows
  <1>7. ASSUME NEW r \in Runs
        PROVE  LoadsCounted(r) /\ Observes(r) /\ LoadsLanded(r)
    <2>1. /\ run[r].state = "out" /\ run[r].row = NoRow /\ run[r].waiting = {}
          /\ run[r].attempt = 1 /\ \A t \in Tables : late[<<r, t>>] = 0
      BY <1>4 DEF NotStarted
    <2> QED
      BY <1>4, <2>1 DEF LoadsCounted, Observes, LoadsLanded, Unobserved
  <1> QED
    BY <1>4, <1>6, <1>7 DEF LedgerInv, RunsInv, LedgerCertifies
-----------------------------------------------------------------------------
(* What was shown stays superseded.                                        *)

\* A run that has an observation keeps it, and what the history showed before it.
LEMMA RowsKept ==
  ASSUME LedgerInv, [Next]_vars
  PROVE  \A q \in Runs : run[q].row # NoRow =>
           run'[q].row = run[q].row /\ run'[q].prior = run[q].prior
  <1> SUFFICES ASSUME NEW q \in Runs, run[q].row # NoRow
               PROVE  run'[q].row = run[q].row /\ run'[q].prior = run[q].prior
    OBVIOUS
  <1>1. TypeOK /\ ~Unobserved(q)
    BY DEF LedgerInv, RunsInv, Observes
  <1>2. ASSUME NEW r \in Runs, RunSteps(r)
        PROVE  run'[q].row = run[q].row /\ run'[q].prior = run[q].prior
    <2>1. r = q => ~Start(r) /\ ~Preflight(r) /\ ~Observe(r)
      BY <1>1 DEF Unobserved, Start, Preflight, Observe
    <2>2. CASE r # q /\ (Start(r) \/ Preflight(r) \/ Observe(r))
      BY <1>1, <2>2 DEF Start, Preflight, Observe, TypeOK
    <2>3. CASE Loaded(r) \/ LoadFails(r)
      <3>1. PICK t \in run[r].waiting, failed \in BOOLEAN : Answered(r, t, failed)
        BY <2>3 DEF Loaded, LoadFails
      <3> QED
        BY <1>1, <3>1, AnsweredIs
    <2>4. CASE LandsLate(r)
      BY <2>4 DEF LandsLate
    <2>5. CASE LoadsEnd(r) \/ Certify(r) \/ Abort(r)
      <3>1. \/ run' = [run EXCEPT ![r].state = "certifying"]
            \/ run' = [run EXCEPT ![r].state = "done"]
            \/ GivesUp(r)
            \/ run[r].attempt < Attempts /\ NextAttempt(r)
        BY <2>5 DEF LoadsEnd, Certify, Abort
      <3>2. "certifying" \in RunState /\ "done" \in RunState
        BY DEF RunState
      <3> QED
        BY <1>1, <3>1, <3>2, StateIs, GivesUpIs, NextAttemptIs
    <2> QED
      BY <1>2, <2>1, <2>2, <2>3, <2>4, <2>5 DEF RunSteps
  <1>3. CASE run' = run
    BY <1>3
  <1> QED
    BY <1>2, <1>3 DEF Next, Maintenance, Use, Midnight, CommitCompaction, Expire,
       BeginCompaction, AbortCompaction, vars

\* Nothing has arrived.
LEMMA InitHistory ==
  ASSUME Init
  PROVE  HistoryInv
  <1>1. /\ today = 1 /\ gold = NoRow
        /\ raw = [d \in Days |-> [rows |-> {}, count |-> 0]]
        /\ processed = [d \in Days |-> 0]
        /\ job = [k \in Compactors |-> NoJob]
    BY DEF Init
  <1>2. RawInv
    BY <1>1, FS_EmptySet DEF RawInv
  <1>3. GoldInv /\ ProcessedIsCompacted
    BY <1>1 DEF GoldInv, ProcessedIsCompacted, Expired
  <1>4. JobInv
    BY <1>1 DEF JobInv, NoJob
  <1> QED
    BY <1>2, <1>3, <1>4 DEF HistoryInv

\* A step that changes neither rows nor what is compacted.
LEMMA HistoryKept ==
  ASSUME TypeOK, HistoryInv, today' \in Days, today' >= today,
         \A q \in Runs : run[q].row # NoRow => run'[q].row = run[q].row,
         \A k \in Compactors : job'[k].state = "running" => job'[k] = job[k],
         UNCHANGED <<raw, gold, processed>>
  PROVE  HistoryInv'
  <1> USE DEF HistoryInv
  <1>1. \A row \in Row : IsOfRun(row) => IsOfRun(row)'
    BY RowParts DEF IsOfRun
  <1>2. \A d \in Days : raw[d].rows \subseteq Row /\ d \in Nat /\ today \in Nat /\ today' \in Nat
    BY AppendCompactAssumption DEF TypeOK, Days
  <1>3. RawInv'
    <2>1. ASSUME NEW d \in Days, NEW row \in raw[d].rows
          PROVE  run'[row.run].row = row
      BY <1>2, RowParts DEF RawInv
    <2> QED
      BY <1>2, <2>1 DEF RawInv
  <1>4. \A d \in Days, n \in Nat : Expired(d, n) => Expired(d, n)'
    BY <1>2 DEF Expired
  <1>5. GoldInv'
    <2>1. gold # NoRow => gold \in Row
      BY DEF TypeOK, Rows
    <2>2. \A d \in Days : processed[d] \in Nat
      BY DEF TypeOK
    <2> QED
      BY <1>1, <1>4, <2>1, <2>2 DEF GoldInv
  <1>6. JobInv'
    <2>1. ASSUME NEW fold \in Rows, NEW counts \in [Days -> Nat], MayCommit(fold, counts)
          PROVE  MayCommit(fold, counts)'
      <3>1. fold # NoRow => fold \in Row
        BY DEF Rows
      <3>2. \A d \in Days : counts[d] \in Nat
        OBVIOUS
      <3> QED
        BY <1>1, <1>4, <2>1, <3>1, <3>2 DEF MayCommit
    <2>2. \A k \in Compactors : job'[k].state = "running" =>
            /\ job'[k] = job[k] /\ MayCommit(job[k].fold, job[k].counts)
            /\ job[k].fold \in Rows /\ job[k].counts \in [Days -> Nat]
      BY JobType DEF JobInv
    <2> QED
      BY <2>1, <2>2 DEF JobInv
  <1>7. ProcessedIsCompacted'
    BY DEF ProcessedIsCompacted
  <1> QED
    BY <1>3, <1>5, <1>6, <1>7
\* A row that lands is one more than was counted of its day.
LEMMA LandingHistory ==
  ASSUME LedgerInv, HistoryInv, NEW r \in Runs, NEW t \in Written(r), Lands(r, t),
         \A q \in Runs : run[q].row # NoRow => run'[q].row = run[q].row,
         UNCHANGED <<gold, processed, job, today>>
  PROVE  HistoryInv'
  <1> USE DEF HistoryInv
  <1>1. TypeOK /\ t \in Tables /\ today \in Days
    BY WrittenIs DEF LedgerInv, TypeOK
  <1>2. CASE t # "daily_stats"
    <2>1. raw' = raw /\ today >= today
      BY <1>1, <1>2, LandingType, AppendCompactAssumption DEF Days
    <2> QED
      BY <1>1, <2>1, HistoryKept
  <1>3. CASE t = "daily_stats"
    <2> DEFINE new == run[r].row
    <2>1. /\ new \in Row
          /\ \A d \in Days : d # today => raw'[d] = raw[d]
          /\ raw'[today].rows = raw[today].rows \cup {new}
          /\ raw'[today].count = raw[today].count + 1
      BY <1>1, <1>3, LandingType
    <2>2. new.run = r /\ run'[r].row = new
      BY <2>1, RowParts DEF LedgerInv, RunsInv, Observes
    <2>3. \A d \in Days : raw[d].rows \subseteq Row /\ raw[d].count \in Nat /\ d \in Nat
      BY <1>1 DEF TypeOK, Days
    <2> HIDE DEF new
    <2>4. \A row \in Row : IsOfRun(row) => IsOfRun(row)'
      BY RowParts DEF IsOfRun
    <2>5. RawInv'
      <3>1. ASSUME NEW d \in Days
            PROVE  /\ IsFiniteSet(raw'[d].rows)
                   /\ raw'[d].count = 0 => raw'[d].rows = {}
                   /\ d > today => raw'[d].count = 0
        <4>1. CASE d # today
          BY <2>1, <4>1 DEF RawInv
        <4>2. CASE d = today
          <5>1. IsFiniteSet(raw[today].rows)
            BY <1>1 DEF RawInv
          <5>2. IsFiniteSet(raw[today].rows \cup {new})
            BY <5>1, FS_AddElement
          <5>3. raw'[today].count # 0 /\ ~(today > today)
            BY <1>1, <2>1, <2>3
          <5> QED
            BY <2>1, <4>2, <5>2, <5>3
        <4> QED
          BY <4>1, <4>2
      <3>2. ASSUME NEW d \in Days, NEW row \in raw'[d].rows
            PROVE  run'[row.run].row = row
        <4>1. CASE row \in raw[d].rows
          <5>1. row \in Row /\ run[row.run].row = row
            BY <2>3, <4>1 DEF RawInv
          <5> QED
            BY <5>1, RowParts
        <4>2. CASE row = new
          BY <2>2, <4>2
        <4> QED
          BY <2>1, <4>1, <4>2
      <3> QED
        BY <3>1, <3>2 DEF RawInv
    <2>6. ASSUME NEW d \in Days, NEW n \in Nat, Expired(d, n)
          PROVE  /\ Expired(d, n)'
                 /\ raw'[d].count <= n => raw'[d] = raw[d]
      <3>1. CASE d # today
        BY <2>1, <2>6, <3>1 DEF Expired
      <3>2. CASE d = today
        <4>1. ~(n > raw[d].count)
          BY <2>3, <2>6, <3>2 DEF Expired
        <4> QED
          BY <2>1, <2>3, <3>2, <4>1 DEF Expired
      <3> QED
        BY <3>1, <3>2
    <2>7. GoldInv'
      <3>1. gold # NoRow => gold \in Row
        BY <1>1 DEF TypeOK, Rows
      <3>2. \A d \in Days : processed[d] \in Nat /\ Expired(d, processed[d])
        BY <1>1 DEF TypeOK, GoldInv
      <3> QED
        BY <2>4, <2>6, <3>1, <3>2 DEF GoldInv
    <2>8. JobInv'
      <3>1. ASSUME NEW fold \in Rows, NEW counts \in [Days -> Nat], MayCommit(fold, counts)
            PROVE  MayCommit(fold, counts)'
        <4>1. fold # NoRow => fold \in Row
          BY DEF Rows
        <4>2. \A d \in Days : counts[d] \in Nat
          OBVIOUS
        <4>3. \A d \in Days : raw'[d].count <= counts[d] => Superseded(raw'[d].rows, fold)
          BY <2>6, <3>1, <4>2 DEF MayCommit
        <4> QED
          BY <2>4, <2>6, <3>1, <4>1, <4>2, <4>3 DEF MayCommit, Superseded
      <3>2. \A k \in Compactors : job'[k].state = "running" =>
              /\ job'[k] = job[k] /\ MayCommit(job[k].fold, job[k].counts)
              /\ job[k].fold \in Rows /\ job[k].counts \in [Days -> Nat]
        BY <1>1, JobType DEF JobInv
      <3> QED
        BY <3>1, <3>2 DEF JobInv
    <2>9. ProcessedIsCompacted'
      <3>1. \A d \in Days : processed[d] \in Nat /\ Expired(d, processed[d])
        BY <1>1 DEF TypeOK, GoldInv
      <3>2. \A d \in Days : processed[d] >= raw'[d].count => raw'[d] = raw[d]
        BY <2>1, <2>3, <2>6, <3>1
      <3> QED
        BY <3>2 DEF ProcessedIsCompacted
    <2> QED
      BY <2>5, <2>7, <2>8, <2>9
  <1> QED
    BY <1>2, <1>3

\* What the history shows is of its run, and supersedes every row there is.
LEMMA ViewIs ==
  ASSUME TypeOK, RawInv, gold # NoRow => IsOfRun(gold)
  PROVE  /\ View \in Rows
         /\ View # NoRow => IsOfRun(View)
         /\ gold # NoRow => View # NoRow /\ AtLeast(View, gold)
         /\ Tokens(View) >= Tokens(gold)
         /\ Superseded(RawRows, View)
  <1> DEFINE all == RawRows \cup ({gold} \ {NoRow})
  <1>1. RawRows \in SUBSET Row /\ IsFiniteSet(RawRows) /\ gold \in Rows /\ View \in Rows
    BY ViewType
  <1>2. /\ View = NoRow <=> RawRows = {} /\ gold = NoRow
        /\ View # NoRow =>
             \E newest \in all :
               /\ \A s \in all : AtLeast(newest, s)
               /\ View \in Row /\ View.at = newest.at /\ View.run = newest.run
               /\ View.tokens = Greater(newest.tokens, Tokens(gold))
               /\ View.tokens >= newest.tokens /\ View.tokens >= Tokens(gold)
        /\ \A s \in all : AtLeast(View, s)
    BY <1>1, FoldedIs DEF View
  <1>3. View # NoRow => IsOfRun(View)
    <2> SUFFICES ASSUME View # NoRow
                 PROVE  IsOfRun(View)
      OBVIOUS
    <2>1. PICK newest \in all :
            View \in Row /\ View.run = newest.run /\ View.tokens >= newest.tokens
      BY <1>2
    <2>2. CASE newest \in RawRows
      <3>1. newest \in Row /\ run[newest.run].row = newest
        BY <1>1, <2>2 DEF RawInv, RawRows
      <3> QED
        BY <2>1, <3>1, RowParts DEF IsOfRun
    <2>3. CASE newest = gold /\ gold # NoRow
      <3>1. /\ run[gold.run].row # NoRow /\ gold.tokens >= run[gold.run].row.tokens
            /\ gold \in Row
        BY <1>1, <2>3 DEF IsOfRun, Rows
      <3>2. run[gold.run].row \in Row
        BY <3>1, RowParts, WrittenIs DEF Rows
      <3> QED
        BY <2>1, <2>3, <3>1, <3>2, RowParts DEF IsOfRun
    <2> QED
      BY <2>2, <2>3
  <1>4. gold # NoRow => View # NoRow /\ AtLeast(View, gold)
    BY <1>2
  <1>5. Tokens(View) >= Tokens(gold)
    <2>1. CASE View = NoRow
      BY <1>2, <2>1 DEF Tokens
    <2>2. CASE View # NoRow
      BY <1>2, <2>2 DEF Tokens
    <2> QED
      BY <2>1, <2>2
  <1>6. Superseded(RawRows, View)
    BY <1>2 DEF Superseded
  <1> QED
    BY <1>1, <1>3, <1>4, <1>5, <1>6

\* A transaction that begins has counted what it supersedes.
LEMMA BeginHistory ==
  ASSUME LedgerInv, HistoryInv, NEW k \in Compactors, BeginCompaction(k)
  PROVE  HistoryInv'
  <1> USE DEF HistoryInv
  <1> DEFINE counts == [d \in Days |-> IF d \in Candidates THEN raw[d].count ELSE 0]
  <1>1. TypeOK /\ \A d \in Days : raw[d].count \in Nat /\ raw[d].rows \subseteq RawRows
    BY DEF LedgerInv, TypeOK, RawRows
  <1>2. /\ UNCHANGED <<run, raw, gold, processed, today>>
        /\ job' = [job EXCEPT ![k] = [state |-> "running", fold |-> View, counts |-> counts]]
    BY DEF BeginCompaction, warehouse, compacted
  <1>3. /\ View # NoRow => IsOfRun(View)
        /\ gold # NoRow => View # NoRow /\ AtLeast(View, gold)
        /\ Tokens(View) >= Tokens(gold) /\ Superseded(RawRows, View)
    BY <1>1, ViewIs DEF GoldInv
  <1>4. MayCommit(View, counts)
    <2>1. \A d \in Days : counts[d] \in Nat /\ counts[d] <= raw[d].count
      BY <1>1
    <2>2. \A d \in Days : Expired(d, counts[d])
      BY <1>1, <2>1 DEF Expired
    <2>3. \A d \in Days : Superseded(raw[d].rows, View)
      BY <1>1, <1>3 DEF Superseded
    <2> QED
      BY <1>3, <2>2, <2>3 DEF MayCommit
  <1> HIDE DEF counts
  <1>5. \A i \in Compactors : job'[i].state = "running" =>
          \/ job'[i].fold = View /\ job'[i].counts = counts
          \/ job'[i] = job[i]
    BY <1>1, <1>2 DEF TypeOK
  <1>6. \A i \in Compactors : job'[i].state = "running" =>
          MayCommit(job'[i].fold, job'[i].counts)
    BY <1>4, <1>5 DEF JobInv
  <1>7. JobInv'
    BY <1>2, <1>6 DEF JobInv, MayCommit, Expired, Superseded, IsOfRun
  <1>8. RawInv' /\ GoldInv' /\ ProcessedIsCompacted'
    BY <1>2 DEF RawInv, GoldInv, ProcessedIsCompacted, Expired, IsOfRun
  <1> QED
    BY <1>7, <1>8

\* What is committed supersedes what was compacted, and all that is now processed.
LEMMA CommitHistory ==
  ASSUME LedgerInv, HistoryInv, NEW k \in Compactors, CommitCompaction(k)
  PROVE  HistoryInv'
  <1> USE DEF HistoryInv
  <1> DEFINE fold == job[k].fold
             counts == job[k].counts
  <1>1. TypeOK /\ TypeOK'
    BY CommitIs DEF LedgerInv
  <1>2. /\ job[k].state = "running"
        /\ gold' = IF counts = NoJob.counts THEN gold ELSE fold
        /\ \A d \in Days : processed'[d] = Greater(processed[d], counts[d])
        /\ \A i \in Compactors : job'[i].state # "running"
        /\ UNCHANGED <<run, raw, today>>
    BY <1>1, CommitIs
  <1>3. /\ fold \in Rows /\ gold \in Rows
        /\ \A d \in Days : /\ processed[d] \in Nat /\ counts[d] \in Nat
                           /\ processed'[d] \in {processed[d], counts[d]}
                           /\ raw[d].rows \subseteq Row
    BY <1>1, <1>2, JobType, GreaterIs DEF TypeOK
  <1>4. MayCommit(fold, counts)
    BY <1>2 DEF JobInv
  <1> HIDE DEF fold, counts
  <1>5. CASE counts = NoJob.counts
    <2>1. \A d \in Days : processed'[d] = processed[d]
      BY <1>2, <1>3, <1>5 DEF NoJob, Greater
    <2>2. processed' = processed
      BY <1>1, <2>1 DEF TypeOK
    <2>3. gold' = gold /\ today' >= today /\ today' \in Days
      BY <1>1, <1>2, <1>5 DEF TypeOK, Days
    <2> QED
      BY <1>1, <1>2, <2>2, <2>3, HistoryKept
  <1>6. CASE counts # NoJob.counts
    <2>1. gold' = fold
      BY <1>2, <1>6
    <2>2. RawInv'
      BY <1>2 DEF RawInv
    <2>3. GoldInv'
      <3>1. \A d \in Days : Expired(d, processed[d]) /\ Expired(d, counts[d])
        BY <1>4 DEF GoldInv, MayCommit
      <3>2. fold # NoRow => IsOfRun(fold)
        BY <1>4 DEF MayCommit
      <3> QED
        BY <1>2, <1>3, <2>1, <3>1, <3>2 DEF GoldInv, Expired, IsOfRun
    <2>4. JobInv'
      BY <1>2 DEF JobInv
    <2>5. ASSUME NEW d \in Days, processed'[d] >= raw[d].count, NEW row \in raw[d].rows
          PROVE  fold # NoRow /\ AtLeast(fold, row)
      <3>1. CASE counts[d] >= raw[d].count
        <4>1. raw[d].count \in Nat
          BY <1>1 DEF TypeOK
        <4> QED
          BY <1>3, <1>4, <3>1, <4>1 DEF MayCommit, Superseded
      <3>2. CASE processed[d] >= raw[d].count
        <4>1. gold # NoRow /\ AtLeast(gold, row)
          BY <3>2 DEF ProcessedIsCompacted
        <4>2. fold # NoRow /\ AtLeast(fold, gold)
          BY <1>4, <4>1 DEF MayCommit
        <4>3. gold \in Row /\ fold \in Row /\ row \in Row
          BY <1>3, <4>1, <4>2 DEF Rows
        <4> QED
          BY <4>1, <4>2, <4>3, AtLeastTransitive
      <3> QED
        BY <1>3, <2>5, <3>1, <3>2
    <2>6. ProcessedIsCompacted'
      BY <1>2, <2>1, <2>5 DEF ProcessedIsCompacted
    <2> QED
      BY <2>2, <2>3, <2>4, <2>6
  <1> QED
    BY <1>5, <1>6

\* What expires is superseded, and no transaction has counted more of it.
LEMMA ExpireHistory ==
  ASSUME LedgerInv, HistoryInv, NEW d \in Days, Expire(d)
  PROVE  HistoryInv'
  <1> USE DEF HistoryInv
  <1>1. /\ TypeOK /\ d < today /\ raw'[d].rows = {} /\ raw'[d].count = 0
        /\ \A e \in Days : e # d => raw'[e] = raw[e]
        /\ UNCHANGED <<run, gold, processed, job, today>>
    BY ExpireIs DEF LedgerInv
  <1>2. RawInv'
    BY <1>1, FS_EmptySet DEF RawInv
  <1>3. \A e \in Days, n \in Nat : Expired(e, n) => Expired(e, n)'
    BY <1>1 DEF Expired
  <1>4. \A row : IsOfRun(row) => IsOfRun(row)'
    BY <1>1 DEF IsOfRun
  <1>5. GoldInv'
    <2>1. \A e \in Days : processed[e] \in Nat
      BY <1>1 DEF TypeOK
    <2> QED
      BY <1>1, <1>3, <1>4, <2>1 DEF GoldInv
  <1>6. JobInv'
    <2>1. ASSUME NEW fold \in Rows, NEW counts \in [Days -> Nat], MayCommit(fold, counts)
          PROVE  MayCommit(fold, counts)'
      <3>1. \A e \in Days : counts[e] \in Nat
        OBVIOUS
      <3>2. \A e \in Days : raw'[e].count <= counts[e] => Superseded(raw'[e].rows, fold)
        BY <1>1, <2>1 DEF MayCommit, Superseded
      <3> QED
        BY <1>1, <1>3, <1>4, <2>1, <3>1, <3>2 DEF MayCommit, Superseded
    <2>2. \A k \in Compactors : job'[k].state = "running" =>
            /\ job'[k] = job[k] /\ MayCommit(job[k].fold, job[k].counts)
            /\ job[k].fold \in Rows /\ job[k].counts \in [Days -> Nat]
      BY <1>1, JobType DEF JobInv
    <2> QED
      BY <2>1, <2>2 DEF JobInv
  <1>7. ProcessedIsCompacted'
    BY <1>1 DEF ProcessedIsCompacted
  <1> QED
    BY <1>2, <1>5, <1>6, <1>7

\* Every step keeps the invariant of what is shown.
LEMMA NextHistory ==
  ASSUME LedgerInv, HistoryInv, [Next]_vars
  PROVE  HistoryInv'
  <1>1. /\ TypeOK /\ today \in Days /\ today >= today /\ today \in Nat
        /\ \A q \in Runs : run[q].row # NoRow => run'[q].row = run[q].row
    BY RowsKept DEF LedgerInv, TypeOK, Days
  <1>2. CASE UNCHANGED <<raw, gold, processed, job, today>>
    BY <1>1, <1>2, HistoryKept
  <1>3. ASSUME NEW r \in Runs, RunSteps(r)
        PROVE  HistoryInv'
    <2>1. ASSUME NEW t \in Written(r), Lands(r, t), UNCHANGED <<gold, processed, job, today>>
          PROVE  HistoryInv'
      BY <1>1, <2>1, LandingHistory
    <2>2. CASE Loaded(r)
      <3>1. run[r].waiting \subseteq Written(r)
        BY DEF LedgerInv, RunsInv, LoadsCounted
      <3> QED
        BY <2>1, <2>2, <3>1 DEF Loaded, compacted
    <2>3. CASE LandsLate(r)
      <3>1. \A t \in Tables : late[<<r, t>>] > 0 => t \in Written(r)
        BY DEF LedgerInv, RunsInv, LoadsCounted
      <3> QED
        BY <2>1, <2>3, <3>1 DEF LandsLate, compacted
    <2>4. CASE \/ Start(r) \/ Preflight(r) \/ Observe(r) \/ LoadFails(r) \/ LoadsEnd(r)
               \/ Certify(r) \/ Abort(r)
      BY <1>2, <2>4 DEF Start, Preflight, Observe, LoadFails, LoadsEnd, Certify, Abort,
         warehouse, compacted
    <2> QED
      BY <1>3, <2>2, <2>3, <2>4 DEF RunSteps
  <1>4. CASE Use
    BY <1>2, <1>4 DEF Use, warehouse, compacted
  <1>5. CASE Midnight
    <2>1. /\ today' \in Days /\ today' >= today
          /\ UNCHANGED <<raw, gold, processed, job>>
      BY <1>1, <1>5, AppendCompactAssumption DEF Midnight, Days, warehouse, compacted
    <2> QED
      BY <1>1, <2>1, HistoryKept
  <1>6. ASSUME NEW k \in Compactors, AbortCompaction(k)
        PROVE  HistoryInv'
    <2>1. /\ UNCHANGED <<raw, gold, processed, today>>
          /\ \A i \in Compactors : job'[i].state = "running" => job'[i] = job[i]
      BY <1>1, <1>6 DEF AbortCompaction, NoJob, warehouse, compacted, TypeOK
    <2> QED
      BY <1>1, <2>1, HistoryKept
  <1>7. CASE UNCHANGED vars
    BY <1>2, <1>7 DEF vars
  <1> QED
    BY <1>3, <1>4, <1>5, <1>6, <1>7, BeginHistory, CommitHistory, ExpireHistory
    DEF Next, Maintenance
-----------------------------------------------------------------------------
(* What is shown.                                                          *)

Shown == RawRows \cup ({gold} \ {NoRow})

ShowsNewest ==
  /\ Shown \in SUBSET Row /\ gold \in Rows /\ View \in Rows
  /\ View = NoRow <=> Shown = {}
  /\ View # NoRow =>
       \E newest \in Shown :
         /\ \A s \in Shown : AtLeast(newest, s)
         /\ View \in Row /\ View.at = newest.at /\ View.run = newest.run
         /\ View.tokens = Greater(newest.tokens, Tokens(gold))
         /\ View.tokens >= newest.tokens /\ View.tokens >= Tokens(gold)

\* The history shows the newest observation there is, if there is any.
LEMMA ShownIs == TypeOK /\ RawInv => ShowsNewest
  <1> SUFFICES ASSUME TypeOK, RawInv
               PROVE  ShowsNewest
    OBVIOUS
  <1>1. RawRows \in SUBSET Row /\ IsFiniteSet(RawRows) /\ gold \in Rows /\ View \in Rows
    BY ViewType
  <1>2. Shown \in SUBSET Row
    BY <1>1 DEF Shown, Rows
  <1>3. Shown = {} <=> RawRows = {} /\ gold = NoRow
    BY DEF Shown
  <1> QED
    BY <1>1, <1>2, <1>3, FoldedIs DEF View, Shown, ShowsNewest

\* ViewIs, as a formula of one state.
LEMMA ViewOfRun == TypeOK /\ HistoryInv => (View # NoRow => IsOfRun(View))
  BY ViewIs DEF HistoryInv, GoldInv

\* A step leaves each observation that may be shown superseded by one that may be shown
\* after it, of a run that had observed before it, and compaction never shows less.
LEMMA ShownAdvances ==
  ASSUME LedgerInv, HistoryInv, HistoryInv', [Next]_vars
  PROVE  /\ \A s \in Shown : \E n \in Shown' : AtLeast(n, s)
         /\ \A n \in Shown' : run[n.run].row # NoRow
         /\ Tokens(gold') >= Tokens(gold)
  <1> USE DEF HistoryInv
  <1>1. /\ TypeOK /\ Tokens(gold) \in Nat /\ Tokens(gold) >= Tokens(gold)
        /\ \A d \in Days : raw[d].rows \subseteq Row
    BY TokensType DEF LedgerInv, TypeOK
  <1>2. \A n \in Shown : n \in Row /\ run[n.run].row # NoRow
    <2>1. \A n \in RawRows : n \in Row /\ run[n.run].row = n
      BY <1>1 DEF RawRows, RawInv
    <2>2. gold # NoRow => gold \in Row /\ run[gold.run].row # NoRow
      BY <1>1 DEF GoldInv, IsOfRun, TypeOK, Rows
    <2> QED
      BY <2>1, <2>2, RowParts DEF Shown
  <1>3. CASE UNCHANGED <<raw, gold>>
    <2>1. Shown' = Shown
      BY <1>3 DEF Shown, RawRows
    <2> QED
      BY <1>1, <1>2, <1>3, <2>1 DEF AtLeast
  <1>4. ASSUME NEW r \in Runs, NEW t \in Written(r), Lands(r, t), gold' = gold
        PROVE  /\ \A s \in Shown : \E n \in Shown' : AtLeast(n, s)
               /\ \A n \in Shown' : run[n.run].row # NoRow
               /\ Tokens(gold') >= Tokens(gold)
    <2>1. t \in Tables /\ today \in Days
      BY <1>1, WrittenIs DEF TypeOK
    <2>2. CASE t # "daily_stats"
      BY <1>1, <1>3, <1>4, <2>1, <2>2, LandingType
    <2>3. CASE t = "daily_stats"
      <3>1. /\ run[r].row \in Row
            /\ \A d \in Days : d # today => raw'[d] = raw[d]
            /\ raw'[today].rows = raw[today].rows \cup {run[r].row}
        BY <1>1, <1>4, <2>1, <2>3, LandingType
      <3>2. RawRows' = RawRows \cup {run[r].row}
        BY <2>1, <3>1 DEF RawRows
      <3>3. Shown' = Shown \cup {run[r].row}
        BY <1>4, <3>2 DEF Shown
      <3>4. run[run[r].row.run].row # NoRow
        BY <3>1, RowParts DEF LedgerInv, RunsInv, Observes
      <3> QED
        BY <1>1, <1>2, <1>4, <3>3, <3>4 DEF AtLeast
    <2> QED
      BY <2>2, <2>3
  <1>5. ASSUME NEW r \in Runs, Loaded(r) \/ LandsLate(r)
        PROVE  gold' = gold /\ \E t \in Written(r) : Lands(r, t)
    BY <1>5 DEF LedgerInv, RunsInv, LoadsCounted, Loaded, LandsLate, compacted
  <1>6. ASSUME NEW k \in Compactors, CommitCompaction(k)
        PROVE  /\ \A s \in Shown : \E n \in Shown' : AtLeast(n, s)
               /\ \A n \in Shown' : run[n.run].row # NoRow
               /\ Tokens(gold') >= Tokens(gold)
    <2>1. /\ job[k].state = "running" /\ UNCHANGED <<run, raw>>
          /\ gold' = IF job[k].counts = NoJob.counts THEN gold ELSE job[k].fold
      BY <1>1, <1>6, CommitIs
    <2>2. CASE gold' = gold
      BY <1>3, <2>1, <2>2
    <2>3. CASE gold' = job[k].fold
      <3>1. MayCommit(gold', job[k].counts)
        BY <2>1, <2>3 DEF JobInv
      <3>2. RawRows' = RawRows
        BY <2>1 DEF RawRows
      <3>3. /\ gold' # NoRow => run[gold'.run].row # NoRow
            /\ gold # NoRow => gold' # NoRow /\ AtLeast(gold', gold)
            /\ Tokens(gold') >= Tokens(gold)
        BY <3>1 DEF MayCommit, IsOfRun
      <3>4. \A s \in Shown : \E n \in Shown' : AtLeast(n, s)
        BY <3>2, <3>3 DEF Shown, AtLeast
      <3>5. \A n \in Shown' : n \in Shown \/ (n = gold' /\ gold' # NoRow)
        BY <3>2 DEF Shown
      <3> QED
        BY <1>2, <3>3, <3>4, <3>5
    <2> QED
      BY <2>1, <2>2, <2>3
  <1>7. ASSUME NEW d \in Days, Expire(d)
        PROVE  /\ \A s \in Shown : \E n \in Shown' : AtLeast(n, s)
               /\ \A n \in Shown' : run[n.run].row # NoRow
               /\ Tokens(gold') >= Tokens(gold)
    <2>1. /\ processed[d] = raw[d].count /\ gold' = gold /\ raw'[d].rows = {}
          /\ \A e \in Days : e # d => raw'[e] = raw[e]
      BY <1>1, <1>7, ExpireIs
    <2>2. \A s \in raw[d].rows : gold # NoRow /\ AtLeast(gold, s)
      <3>1. processed[d] >= raw[d].count
        BY <1>1, <2>1 DEF TypeOK
      <3> QED
        BY <3>1 DEF ProcessedIsCompacted
    <2>3. RawRows' \subseteq RawRows /\ RawRows \subseteq RawRows' \cup raw[d].rows
      BY <2>1 DEF RawRows
    <2>4. \A s \in Shown : s \in Shown' \/ s \in raw[d].rows
      BY <2>1, <2>3 DEF Shown
    <2>5. \A s \in Shown : \E n \in Shown' : AtLeast(n, s)
      BY <2>1, <2>2, <2>4 DEF Shown, AtLeast
    <2>6. Shown' \subseteq Shown
      BY <2>1, <2>3 DEF Shown
    <2> QED
      BY <1>1, <1>2, <2>1, <2>5, <2>6
  <1>8. CASE \E r \in Runs : RunSteps(r)
    <2>1. PICK r \in Runs : RunSteps(r)
      BY <1>8
    <2>2. CASE Loaded(r) \/ LandsLate(r)
      BY <1>4, <1>5, <2>2
    <2>3. CASE ~(Loaded(r) \/ LandsLate(r))
      BY <1>3, <2>1, <2>3 DEF RunSteps, Start, Preflight, Observe, LoadFails, LoadsEnd,
         Certify, Abort, warehouse, compacted
    <2> QED
      BY <2>2, <2>3
  <1>9. CASE \/ Use \/ Midnight \/ UNCHANGED vars
             \/ \E k \in Compactors : BeginCompaction(k) \/ AbortCompaction(k)
    BY <1>3, <1>9 DEF Use, Midnight, vars, BeginCompaction, AbortCompaction, warehouse, compacted
  <1> QED
    BY <1>6, <1>7, <1>8, <1>9 DEF Next, Maintenance

\* ShownOnlySuperseded, of one step.
LEMMA NeverOlder ==
  ASSUME LedgerInv, HistoryInv, LedgerInv', HistoryInv', [Next]_vars, View # NoRow
  PROVE  View' # NoRow /\ NotOlder(View', View)
  <1> USE DEF HistoryInv, LedgerInv
  <1>0. ShowsNewest /\ ShowsNewest'
    <2>1. (TypeOK /\ RawInv => ShowsNewest)'
      BY ShownIs, PTL
    <2> QED
      BY <2>1, ShownIs
  <1>1. PICK old \in Shown :
          /\ \A s \in Shown : AtLeast(old, s)
          /\ View \in Row /\ View.at = old.at
          /\ View.tokens = Greater(old.tokens, Tokens(gold))
    BY <1>0 DEF ShowsNewest
  <1>2. PICK step \in Shown' : AtLeast(step, old)
    BY <1>1, ShownAdvances
  <1>3. View' # NoRow /\ Shown' \in SUBSET Row /\ gold' \in Rows
    BY <1>0, <1>2 DEF ShowsNewest
  <1>4. PICK new \in Shown' :
          /\ AtLeast(new, step)
          /\ View' \in Row /\ View'.at = new.at
          /\ View'.tokens >= new.tokens /\ View'.tokens >= Tokens(gold')
    BY <1>0, <1>2, <1>3 DEF ShowsNewest
  <1>5. old \in Row /\ step \in Row /\ new \in Row /\ gold \in Rows
    BY <1>0, <1>1, <1>2, <1>3, <1>4 DEF ShowsNewest
  <1>6. AtLeast(new, old)
    BY <1>2, <1>4, <1>5, AtLeastTransitive
  <1>7. Tokens(gold') >= Tokens(gold)
    BY ShownAdvances
  <1>8. /\ old.at \in Nat /\ new.at \in Nat /\ old.tokens \in Nat /\ new.tokens \in Nat
        /\ Tokens(gold) \in Nat /\ Tokens(gold') \in Nat /\ View.tokens \in Nat
        /\ View'.tokens \in Nat
    BY <1>1, <1>3, <1>4, <1>5, RowParts, TokensType
  <1>9. new.at > old.at \/ (new.at = old.at /\ new.tokens >= old.tokens)
    BY <1>5, <1>6, <1>8 DEF AtLeast, Newer
  <1>10. View.tokens = old.tokens \/ View.tokens = Tokens(gold)
    BY <1>1, <1>8, GreaterIs
  <1> QED
    BY <1>1, <1>3, <1>4, <1>7, <1>8, <1>9, <1>10 DEF NotOlder

\* FallsOnlyOnRace, of one step.
LEMMA FallsByRace ==
  ASSUME LedgerInv, HistoryInv, LedgerInv', HistoryInv', [Next]_vars,
         Tokens(View') < Tokens(View)
  PROVE  /\ View' # NoRow /\ View'.run # View.run
         /\ Tokens(run[View'.run].prior) < Tokens(View)
  <1> USE DEF HistoryInv, LedgerInv
  <1>0. ShowsNewest /\ ShowsNewest'
    <2>1. (TypeOK /\ RawInv => ShowsNewest)'
      BY ShownIs, PTL
    <2> QED
      BY <2>1, ShownIs
  <1>1. /\ View \in Rows /\ View' \in Rows
        /\ Tokens(View) \in Nat /\ Tokens(View') \in Nat
    BY <1>0, TokensType DEF ShowsNewest
  <1>2. View # NoRow
    BY <1>1 DEF Tokens
  <1>3. View' # NoRow /\ View' \in Row /\ View \in Row
    BY <1>1, <1>2, NeverOlder DEF Rows
  <1> DEFINE q == View'.run
  <1>4. PICK new \in Shown' : q = new.run
    BY <1>0, <1>3 DEF ShowsNewest
  <1>5. q \in Runs /\ run[q].row # NoRow
    BY <1>3, <1>4, ShownAdvances, RowParts
  <1>6. run'[q].row = run[q].row
    BY <1>5, RowsKept
  <1>7. Tokens(View') >= run[q].row.tokens
    <2>1. (TypeOK /\ HistoryInv => (View # NoRow => IsOfRun(View)))'
      BY ViewOfRun, PTL
    <2> QED
      BY <1>3, <1>6, <2>1, RowParts DEF IsOfRun
  <1>8. /\ run[q].row \in Row /\ run[q].prior \in Rows
        /\ run[q].row.tokens >= Tokens(run[q].prior)
    BY <1>5, WrittenIs DEF RunsInv, Observes, Run, Rows
  <1>9. Tokens(run[q].prior) < Tokens(View)
    BY <1>1, <1>7, <1>8, RowParts, TokensType
  <1>10. q # View.run
    <2> SUFFICES ASSUME q = View.run
                 PROVE  FALSE
      OBVIOUS
    <2>1. PICK old \in Shown : /\ View.run = old.run
                               /\ View.tokens = Greater(old.tokens, Tokens(gold))
      BY <1>0, <1>2 DEF ShowsNewest
    <2>2. /\ Tokens(gold') >= Tokens(gold) /\ View'.tokens >= Tokens(gold')
          /\ Tokens(View') = View'.tokens /\ Tokens(View) = View.tokens
          /\ Tokens(gold) \in Nat /\ Tokens(gold') \in Nat
      BY <1>0, <1>3, ShownAdvances, RowParts, TokensType DEF ShowsNewest
    <2>3. old.tokens <= Tokens(View')
      <3>1. CASE old \in RawRows
        <4>1. old = run[q].row
          BY <2>1, <3>1 DEF RawRows, RawInv
        <4> QED
          BY <1>1, <1>7, <1>8, <4>1, RowParts
      <3>2. CASE old = gold /\ gold # NoRow
        BY <1>1, <2>2, <3>2 DEF Tokens
      <3> QED
        BY <3>1, <3>2 DEF Shown
    <2>4. old.tokens \in Nat
      BY <1>0, RowParts DEF ShowsNewest
    <2>5. View.tokens = old.tokens \/ View.tokens = Tokens(gold)
      BY <2>1, <2>2, <2>4, GreaterIs
    <2> QED
      BY <1>1, <2>2, <2>3, <2>4, <2>5
  <1> QED
    BY <1>3, <1>9, <1>10
-----------------------------------------------------------------------------
(* The theorems.                                                           *)

AppendInv == LedgerInv /\ HistoryInv

\* The invariant is inductive: no interleaving of runs, of their loads, of compaction and
\* of the expiry of raw partitions leaves it.
THEOREM AppendInvariant == Spec => []AppendInv
  <1>1. Init => AppendInv
    BY InitLedger, InitHistory DEF AppendInv
  <1>2. AppendInv /\ [Next]_vars => AppendInv'
    BY NextLedger, NextHistory DEF AppendInv, HistoryInv
  <1> QED
    BY <1>1, <1>2, PTL DEF Spec

\* Each value stays in its range; so a load is given up no more often than it is attempted.
THEOREM TypeCorrect == Spec => []TypeOK
  BY AppendInvariant, PTL DEF AppendInv, LedgerInv

\* A run is certified only when every table of it has landed, however often its loads fail,
\* are repeated, or land when nobody waits for them any more (persist_batch()).
THEOREM CertifiedHasLanded == Spec => []LedgerCertifies
  BY AppendInvariant, PTL DEF AppendInv, LedgerInv

\* What compaction has processed, it supersedes: a row that lands while a transaction runs,
\* or after it, is counted by the next one (compaction.sql).
THEOREM ExpiryLosesNothing == Spec => []ProcessedIsCompacted
  BY AppendInvariant, PTL DEF AppendInv, HistoryInv

\* What is shown is superseded only by what is no older, and is never lost.
THEOREM HistoryAdvances == Spec => ShownOnlySuperseded
  <1>1. AppendInv /\ AppendInv' /\ [Next]_vars =>
          [LET before == View  after == View' IN
           before # NoRow => after # NoRow /\ NotOlder(after, before)]_vars
    BY NeverOlder DEF AppendInv
  <1> QED
    BY <1>1, AppendInvariant, PTL DEF Spec, ShownOnlySuperseded

\* Usage that is shown falls only when a run lands that had read the history when it showed
\* less.
THEOREM UsageFallsByRace == Spec => FallsOnlyOnRace
  <1>1. AppendInv /\ AppendInv' /\ [Next]_vars =>
          [LET before == View  after == View' IN
           Tokens(after) < Tokens(before) =>
             /\ after # NoRow /\ after.run # before.run
             /\ Tokens(run[after.run].prior) < Tokens(before)]_vars
    BY FallsByRace DEF AppendInv
  <1> QED
    BY <1>1, AppendInvariant, PTL DEF Spec, FallsOnlyOnRace
==============================================================================
