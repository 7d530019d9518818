--------------------------- MODULE CollectionProofs ---------------------------
(***************************************************************************)
(* Proofs about collection into a transactional warehouse (Collection),    *)
(* for every number of collectors, of runs, of days and of faults.         *)
(***************************************************************************)
EXTENDS Collection, ObservationProofs

-----------------------------------------------------------------------------
(* What belongs to whom.                                                   *)

Active(c) == coll[c].phase # "idle"

\* A run belongs to one collector, and has recorded nothing before it is built.
Owned(c) ==
  /\ Active(c) => /\ coll[c].run \in Runs /\ coll[c].run <= lastRun
                  /\ coll[c].day <= today
                  /\ \A e \in Collectors : Active(e) /\ coll[e].run = coll[c].run => e = c
  /\ coll[c].phase \in {"started", "locked", "reading"} =>
       applied[coll[c].run] = 0 /\ coll[c].rows = NoFacts /\ coll[c].says = "none"

\* The ledger has each run once, and issues are of runs in it.
RecordedInv ==
  \A r \in Runs : /\ applied[r] <= 1
                  /\ applied[r] > 0 => r <= lastRun
                  /\ issue[r] # "none" => applied[r] > 0

OwnInv == CTypeOK /\ RecordedInv /\ \A c \in Collectors : Owned(c)

-----------------------------------------------------------------------------
(* Usage: nothing that is read, remembered or recorded exceeds what was    *)
(* used.                                                                   *)

Within(c, d) ==
  /\ coll[c].got[d].tokens <= used[d]
  /\ Tokens(coll[c].facts[d]) <= used[d]
  /\ Tokens(coll[c].rows[d]) <= used[d]

UsageInv ==
  \A d \in Days : Tokens(fact[d]) <= used[d] /\ \A c \in Collectors : Within(c, d)

-----------------------------------------------------------------------------
(* Closed days: an answer about a day gone by shows all of it, and is      *)
(* published unless a run that started later has published the day.        *)

Recorded(d) ==
  /\ status[d].state = "complete" => d < today /\ Tokens(fact[d]) >= closed[d]
  /\ fact[d] # NoRow => fact[d].at <= status[d].run
  /\ d < today => closed[d] <= used[d]

Reads(c, d) ==
  /\ coll[c].facts[d] # NoRow => coll[c].facts[d].at <= status[d].run
  /\ coll[c].got[d].verdict = "ok" /\ d < coll[c].day => coll[c].got[d].tokens >= closed[d]
  /\ coll[c].rows[d] # NoRow =>
       coll[c].rows[d].at = coll[c].run /\ coll[c].got[d].verdict \in {"ok", "mismatch"}
  /\ coll[c].phase = "publishing" /\ coll[c].got[d].verdict = "ok" =>
       \/ coll[c].rows[d] # NoRow /\ coll[c].rows[d].tokens >= coll[c].got[d].tokens
       \/ status[d].run >= coll[c].run

FinalInv ==
  \A d \in Days : Recorded(d) /\ \A c \in Collectors : Active(c) => Reads(c, d)

-----------------------------------------------------------------------------
(* Doubt, on DuckDB and without refreshes: what the one run that holds the *)
(* lock has read of the history is still so, it reads every day in doubt,  *)
(* and it says what it found.                                              *)

InDoubt(s) == s.state \notin {"none", "complete"}

SaysFound(c) ==
  /\ Inconsistent(c) # {} => coll[c].says = "found"
  /\ coll[c].says = "resolved" =>
       \A d \in Days : InDoubt(coll[c].prior[d]) => coll[c].got[d].verdict = "ok"
  /\ coll[c].says # "none" =>
       \A q \in Runs \ {coll[c].run} : finished[q] < finished[coll[c].run]

Holds(c) ==
  /\ \A e \in Collectors : Holding(c) /\ Holding(e) => e = c
  /\ coll[c].range = {}
  /\ coll[c].phase \in {"reading", "publishing"} /\ applied[coll[c].run] = 0 =>
       coll[c].prior = status /\ coll[c].open = Open
  /\ coll[c].phase = "reading" =>
       \A d \in Days : InDoubt(coll[c].prior[d]) => d \in coll[c].plan \cup Asked(c)
  /\ coll[c].phase = "publishing" => SaysFound(c)

DoubtInv ==
  backend = "duckdb" /\ ~Refreshes =>
    /\ \A c \in Collectors : Holds(c)
    /\ \A d \in doubted : InDoubt(status[d])
    /\ doubted # {} => Open

CollectionInv == OwnInv /\ UsageInv /\ FinalInv /\ DoubtInv
-----------------------------------------------------------------------------
(* What the steps of a collector change.                                   *)

\* The days are finitely many.
LEMMA DaysAre == Days \subseteq Nat /\ IsFiniteSet(Days) /\ 1 \in Days
  BY CollectionAssumption, FS_Interval DEF Days

\* Runs are numbered.
LEMMA RunsAre == Runs \subseteq Nat /\ IsFiniteSet(Runs) /\ 0 \notin Runs
  <1>1. Cardinality(Runs) \in Nat
    BY CollectionAssumption, FS_CardinalityType
  <1> QED
    BY <1>1, CollectionAssumption, ObservationAssumption

\* An idle collector has no run, no answers and no rows.
LEMMA IdleIs ==
  /\ Idle \in Collector /\ NoStatus \in Status
  /\ Idle.phase = "idle" /\ Idle.rows = NoFacts /\ Idle.facts = NoFacts /\ Idle.got = Unasked
  /\ Idle.says = "none" /\ Idle.range = {}
  BY CollectionAssumption, DaysAre
  DEF Idle, Collector, NoStatus, Status, State, Unasked, Answer, Verdict, NoFacts, Rows, Phase,
      Saying

\* Only the collector that steps changes.
LEMMA CollChanges ==
  ASSUME CTypeOK, NEW c \in Collectors, NEW next \in Collector, coll' = [coll EXCEPT ![c] = next]
  PROVE  /\ coll' \in [Collectors -> Collector] /\ coll'[c] = next
         /\ \A e \in Collectors \ {c} : coll'[e] = coll[e]
  BY DEF CTypeOK

\* A collector that stops is idle.
LEMMA StopsIs ==
  ASSUME CTypeOK, NEW c \in Collectors, Stops(c)
  PROVE  /\ coll' \in [Collectors -> Collector] /\ coll'[c] = Idle
         /\ \A e \in Collectors \ {c} : coll'[e] = coll[e]
  BY CollChanges, IdleIs DEF Stops

\* A run that starts has the next number, the day it is, and nothing read.
LEMMA StartIs ==
  ASSUME CTypeOK, NEW c \in Collectors, Start(c)
  PROVE  /\ CTypeOK'
         /\ lastRun' = lastRun + 1 /\ lastRun' \in Runs
         /\ \A e \in Collectors \ {c} : coll'[e] = coll[e]
         /\ coll'[c].phase = "started" /\ coll'[c].run = lastRun' /\ coll'[c].day = today
         /\ coll'[c].rows = NoFacts /\ coll'[c].facts = NoFacts /\ coll'[c].got = Unasked
         /\ coll'[c].says = "none" /\ (~Refreshes => coll'[c].range = {})
         /\ coll'[c].asked = used
         /\ UNCHANGED <<world, warehouse, finished, faults>>
  <1>1. PICK r \in Runs, range \in Ranges :
          /\ lastRun = r - 1 /\ lastRun' = r
          /\ coll' = [coll EXCEPT ![c] = [Idle EXCEPT !.phase = "started", !.run = r,
                        !.day = today, !.range = range, !.asked = used]]
    BY DEF Start
  <1>2. range \in SUBSET Days /\ (~Refreshes => range = {})
    <2>1. today \in 1 .. LastDay /\ LastDay \in Nat
      BY CollectionAssumption DEF CTypeOK, Days
    <2>2. \A a, b \in 1 .. today : a .. b \in SUBSET Days
      BY <2>1 DEF Days
    <2> QED
      BY <2>2 DEF Ranges
  <1> DEFINE next == [Idle EXCEPT !.phase = "started", !.run = r, !.day = today,
                                  !.range = range, !.asked = used]
  <1>3. /\ next \in Collector /\ next.phase = "started" /\ next.run = r /\ next.day = today
        /\ next.rows = NoFacts /\ next.facts = NoFacts /\ next.got = Unasked
        /\ next.says = "none" /\ next.range = range /\ next.asked = used
    <2>1. today \in Days /\ used \in [Days -> Nat]
      BY DEF CTypeOK
    <2> QED
      BY <1>2, <2>1, IdleIs DEF Collector, Phase
  <1>4. coll' = [coll EXCEPT ![c] = next]
    BY <1>1
  <1> HIDE DEF next
  <1>5. /\ coll' \in [Collectors -> Collector] /\ coll'[c] = next
        /\ \A e \in Collectors \ {c} : coll'[e] = coll[e]
    BY <1>3, <1>4, CollChanges
  <1>6. UNCHANGED <<world, warehouse, finished, faults>>
    BY DEF Start
  <1>7. CTypeOK'
    BY <1>1, <1>5, <1>6 DEF CTypeOK, world, warehouse
  <1>8. r \in Nat /\ lastRun + 1 = r
    BY <1>1, RunsAre
  <1> QED
    BY <1>1, <1>2, <1>3, <1>5, <1>6, <1>7, <1>8

\* The lock changes the phase alone.
LEMMA LockIs ==
  ASSUME CTypeOK, NEW c \in Collectors, coll' = [coll EXCEPT ![c].phase = "locked"]
  PROVE  /\ coll' \in [Collectors -> Collector] /\ coll'[c].phase = "locked"
         /\ \A e \in Collectors \ {c} : coll'[e] = coll[e]
         /\ coll'[c].run = coll[c].run /\ coll'[c].day = coll[c].day
         /\ coll'[c].range = coll[c].range /\ coll'[c].facts = coll[c].facts
         /\ coll'[c].got = coll[c].got /\ coll'[c].rows = coll[c].rows
         /\ coll'[c].says = coll[c].says /\ coll'[c].asked = coll[c].asked
  <1> DEFINE next == [coll[c] EXCEPT !.phase = "locked"]
  <1>1. coll[c] \in Collector
    BY DEF CTypeOK
  <1>2. /\ next \in Collector /\ next.phase = "locked" /\ next.run = coll[c].run
        /\ next.day = coll[c].day /\ next.range = coll[c].range
        /\ next.facts = coll[c].facts /\ next.got = coll[c].got
        /\ next.rows = coll[c].rows /\ next.says = coll[c].says /\ next.asked = coll[c].asked
    BY <1>1 DEF Collector, Phase
  <1>3. coll' = [coll EXCEPT ![c] = next]
    BY DEF CTypeOK
  <1> HIDE DEF next
  <1> QED
    BY <1>2, <1>3, CollChanges

\* The days of the plan are days.
LEMMA PlanIs ==
  ASSUME CTypeOK, NEW c \in Collectors
  PROVE  /\ Plan(c) \in SUBSET Days
         /\ coll[c].range = {} => \A d \in Days : InDoubt(status[d]) => d \in Plan(c)
  BY DEF CTypeOK, Collector, Plan, InDoubt

\* What a collector knows of the history is what the warehouse has at that time.
LEMMA PreflightIs ==
  ASSUME CTypeOK, NEW c \in Collectors, Preflight(c)
  PROVE  /\ CTypeOK' /\ coll[c].phase = "locked" /\ coll'[c].phase = "reading"
         /\ \A e \in Collectors \ {c} : coll'[e] = coll[e]
         /\ coll'[c].run = coll[c].run /\ coll'[c].day = coll[c].day
         /\ coll'[c].range = coll[c].range /\ coll'[c].got = coll[c].got
         /\ coll'[c].rows = coll[c].rows /\ coll'[c].says = coll[c].says
         /\ coll'[c].facts = fact /\ coll'[c].prior = status /\ coll'[c].open = Open
         /\ coll'[c].plan = Plan(c) /\ coll'[c].asked = coll[c].asked
         /\ UNCHANGED <<world, warehouse, finished, lastRun, faults>>
  <1> DEFINE next == [coll[c] EXCEPT !.phase = "reading", !.prior = status, !.facts = fact,
                                     !.open = Open, !.plan = Plan(c)]
  <1>1. /\ coll[c].phase = "locked"
        /\ coll' = [coll EXCEPT ![c].phase = "reading", ![c].prior = status,
                                ![c].facts = fact, ![c].open = Open, ![c].plan = Plan(c)]
        /\ UNCHANGED <<world, warehouse, finished, lastRun, faults>>
    BY DEF Preflight
  <1>2. Open \in BOOLEAN
    BY DEF Open
  <1>3. coll[c] \in Collector /\ status \in [Days -> Status] /\ fact \in [Days -> Rows]
    BY DEF CTypeOK
  <1>4. /\ next \in Collector /\ next.phase = "reading" /\ next.prior = status
        /\ next.facts = fact /\ next.open = Open /\ next.plan = Plan(c)
        /\ next.run = coll[c].run /\ next.day = coll[c].day /\ next.range = coll[c].range
        /\ next.got = coll[c].got /\ next.rows = coll[c].rows /\ next.says = coll[c].says
        /\ next.asked = coll[c].asked
    BY <1>2, <1>3, PlanIs DEF Collector, Phase
  <1>5. coll' = [coll EXCEPT ![c] = next]
    BY <1>1 DEF CTypeOK
  <1> HIDE DEF next
  <1>6. /\ coll' \in [Collectors -> Collector] /\ coll'[c] = next
        /\ \A e \in Collectors \ {c} : coll'[e] = coll[e]
    BY <1>4, <1>5, CollChanges
  <1>7. CTypeOK'
    BY <1>1, <1>6 DEF CTypeOK, world, warehouse
  <1> QED
    BY <1>1, <1>4, <1>6, <1>7
\* A plan that is not empty has a first day.
LEMMA MinIs ==
  ASSUME NEW S \in SUBSET Days, S # {}
  PROVE  Min(S) \in S
  <1>1. S \subseteq Nat /\ IsFiniteSet(S)
    BY DaysAre, FS_Subset
  <1>2. PICK m \in S : \A n \in S : m <= n
    BY <1>1, FiniteLeast
  <1> QED
    BY <1>2 DEF Min

\* No answer shows more than was used, and a good one shows all of it.
LEMMA AnswersAre ==
  ASSUME CTypeOK, NEW d \in Days, NEW a \in Answers(d)
  PROVE  /\ a \in Answer /\ a.verdict # "none" /\ a.tokens <= used[d]
         /\ a.verdict = "ok" => a.tokens = used[d]
  <1>1. used[d] \in Nat
    BY DEF CTypeOK
  <1> QED
    BY <1>1 DEF Answers, Answer, Verdict

\* One day leaves the plan, with an answer.
LEMMA FetchIs ==
  ASSUME CTypeOK, NEW c \in Collectors, Fetch(c)
  PROVE  /\ CTypeOK' /\ coll[c].phase = "reading" /\ coll'[c].phase = "reading"
         /\ \A e \in Collectors \ {c} : coll'[e] = coll[e]
         /\ coll'[c].run = coll[c].run /\ coll'[c].day = coll[c].day
         /\ coll'[c].range = coll[c].range /\ coll'[c].prior = coll[c].prior
         /\ coll'[c].facts = coll[c].facts /\ coll'[c].open = coll[c].open
         /\ coll'[c].rows = coll[c].rows /\ coll'[c].says = coll[c].says
         /\ coll'[c].asked = coll[c].asked
         /\ \E d \in Days : \E a \in Answers(d) :
              /\ coll'[c].plan = coll[c].plan \ {d}
              /\ coll'[c].got = [coll[c].got EXCEPT ![d] = a]
         /\ UNCHANGED <<world, warehouse, finished, lastRun>>
  <1> DEFINE d == Min(coll[c].plan)
  <1>1. coll[c] \in Collector /\ faults \in 0 .. MaxFaults /\ MaxFaults \in Nat
    BY CollectionAssumption DEF CTypeOK
  <1>2. d \in Days
    <2>1. coll[c].plan \in SUBSET Days /\ coll[c].plan # {}
      BY <1>1 DEF Collector, Fetch
    <2> QED
      BY <2>1, MinIs
  <1>3. PICK a \in Answers(d) :
          /\ coll' = [coll EXCEPT ![c].plan = @ \ {d}, ![c].got[d] = a]
          /\ IF a.verdict = "ok" THEN UNCHANGED faults ELSE Fault
    BY DEF Fetch
  <1>4. faults' \in 0 .. MaxFaults
    BY <1>1, <1>3 DEF Fault
  <1> HIDE DEF d
  <1> DEFINE got == [coll[c].got EXCEPT ![d] = a]
             next == [coll[c] EXCEPT !.plan = coll[c].plan \ {d}, !.got = got]
  <1>5. got \in [Days -> Answer]
    BY <1>1, <1>2, <1>3, AnswersAre DEF Collector
  <1> HIDE DEF got
  <1>6. /\ next \in Collector /\ next.phase = coll[c].phase /\ next.run = coll[c].run
        /\ next.day = coll[c].day /\ next.range = coll[c].range /\ next.prior = coll[c].prior
        /\ next.facts = coll[c].facts /\ next.open = coll[c].open
        /\ next.rows = coll[c].rows /\ next.says = coll[c].says /\ next.asked = coll[c].asked
        /\ next.plan = coll[c].plan \ {d} /\ next.got = got
    BY <1>1, <1>5 DEF Collector
  <1>7. coll' = [coll EXCEPT ![c] = next]
    BY <1>1, <1>3 DEF CTypeOK, Collector, got
  <1> HIDE DEF next
  <1>8. /\ coll' \in [Collectors -> Collector] /\ coll'[c] = next
        /\ \A e \in Collectors \ {c} : coll'[e] = coll[e]
    BY <1>6, <1>7, CollChanges
  <1>9. coll[c].phase = "reading" /\ UNCHANGED <<world, warehouse, finished, lastRun>>
    BY DEF Fetch
  <1>10. CTypeOK'
    BY <1>4, <1>8, <1>9 DEF CTypeOK, world, warehouse
  <1> QED
    BY <1>2, <1>3, <1>6, <1>8, <1>9, <1>10 DEF got

\* The rows to publish: of an answer, or nothing if the history already showed more.
LEMMA RowsOfIs ==
  ASSUME CTypeOK, NEW c \in Collectors, coll[c].run \in Runs
  PROVE  /\ RowsOf(c) \in [Days -> Rows]
         /\ \A d \in Days : LET row == RowsOf(c)[d]  seen == coll[c].got[d] IN
              /\ row # NoRow =>
                   /\ row.at = coll[c].run /\ row.tokens >= seen.tokens
                   /\ row.tokens \in {seen.tokens, Tokens(coll[c].facts[d])}
                   /\ seen.verdict \in {"ok", "mismatch"}
              /\ row = NoRow /\ seen.verdict = "ok" =>
                   coll[c].facts[d] # NoRow /\ coll[c].facts[d].at >= coll[c].run
  <1> SUFFICES ASSUME NEW d \in Days
               PROVE  LET row == RowsOf(c)[d]  seen == coll[c].got[d] IN
              /\ row \in Rows
              /\ row # NoRow =>
                   /\ row.at = coll[c].run /\ row.tokens >= seen.tokens
                   /\ row.tokens \in {seen.tokens, Tokens(coll[c].facts[d])}
                   /\ seen.verdict \in {"ok", "mismatch"}
              /\ row = NoRow /\ seen.verdict = "ok" =>
                   coll[c].facts[d] # NoRow /\ coll[c].facts[d].at >= coll[c].run
    BY DEF RowsOf
  <1>1. /\ coll[c].got[d] \in Answer /\ coll[c].facts[d] \in Rows
        /\ coll[c].run \in Nat
    <2>1. coll[c] \in Collector
      BY DEF CTypeOK
    <2> QED
      BY <2>1, RunsAre DEF Collector
  <1> DEFINE new == [at |-> coll[c].run, tokens |-> coll[c].got[d].tokens, run |-> coll[c].run]
             prior == coll[c].facts[d]
             p == Preserved(new, prior)
  <1>2. new \in Row /\ new.at = coll[c].run /\ new.tokens = coll[c].got[d].tokens
    BY <1>1 DEF Row, Answer
  <1>3. /\ p \in Rows
        /\ p # NoRow => /\ p.at = new.at /\ p.tokens >= new.tokens
                        /\ p.tokens \in {new.tokens, Tokens(prior)}
        /\ p = NoRow => prior \in Row /\ AtLeast(prior, new)
    BY <1>1, <1>2, PreservedIs
  <1>4. RowsOf(c)[d] = IF coll[c].got[d].verdict \in {"ok", "mismatch"} THEN p ELSE NoRow
    BY DEF RowsOf, With
  <1>5. p = NoRow => prior # NoRow /\ prior.at >= coll[c].run
    BY <1>2, <1>3, RowParts DEF AtLeast, Newer
  <1> HIDE DEF p, prior, new
  <1> QED
    BY <1>2, <1>3, <1>4, <1>5 DEF Rows, prior

\* A run that finds an inconsistent day says so; it resolves when every answer is good.
LEMMA SaysIs ==
  ASSUME NEW c \in Collectors
  PROVE  /\ Says(c) \in Saying
         /\ Inconsistent(c) # {} => Says(c) = "found"
         /\ Says(c) = "resolved" =>
              /\ Inconsistent(c) = {} /\ With(c, {"failed"}) = {}
              /\ \A d \in Days : coll[c].prior[d].reconciliation => d \in With(c, {"ok"})
  BY DEF Says, Saying

\* The place of a run that is built comes after all others.
LEMMA LastPlace ==
  ASSUME CTypeOK, NEW r \in Runs
  PROVE  LET last == Max({finished[q] : q \in Runs}) IN
         last \in Nat /\ \A q \in Runs : finished[q] <= last
  <1> DEFINE places == {finished[q] : q \in Runs}
  <1>1. finished \in Surjection(Runs, places)
    BY DEF CTypeOK, Surjection
  <1>2. IsFiniteSet(places) /\ places \in SUBSET Nat /\ finished[r] \in places
    BY <1>1, RunsAre, FS_Surjection DEF CTypeOK
  <1>3. PICK m \in places : \A n \in places : n <= m
    BY <1>2, FiniteGreatest
  <1>4. Max(places) \in places /\ \A n \in places : n <= Max(places)
    BY <1>3 DEF Max
  <1> QED
    BY <1>2, <1>4

\* The batch is made of what was read, and the run takes the last place.
LEMMA BuildIs ==
  ASSUME CTypeOK, NEW c \in Collectors, coll[c].run \in Runs, Build(c)
  PROVE  /\ CTypeOK' /\ coll[c].phase = "reading" /\ coll'[c].phase = "publishing"
         /\ coll[c].plan = {}
         /\ \A e \in Collectors \ {c} : coll'[e] = coll[e]
         /\ coll'[c].run = coll[c].run /\ coll'[c].day = coll[c].day
         /\ coll'[c].range = coll[c].range /\ coll'[c].prior = coll[c].prior
         /\ coll'[c].facts = coll[c].facts /\ coll'[c].open = coll[c].open
         /\ coll'[c].got = coll[c].got /\ coll'[c].asked = coll[c].asked /\ coll'[c].plan = {}
         /\ coll'[c].rows = RowsOf(c) /\ coll'[c].says = Says(c)
         /\ \A q \in Runs \ {coll[c].run} :
              finished'[q] = finished[q] /\ finished'[q] < finished'[coll[c].run]
         /\ UNCHANGED <<world, warehouse, lastRun>>
  <1> DEFINE r == coll[c].run
             last == Max({finished[q] : q \in Runs})
             next == [coll[c] EXCEPT !.phase = "publishing", !.rows = RowsOf(c), !.says = Says(c)]
  <1>1. coll[c] \in Collector /\ finished \in [Runs -> Nat]
    BY DEF CTypeOK
  <1>2. /\ coll[c].phase = "reading" /\ coll[c].plan = {}
        /\ finished' = [finished EXCEPT ![r] = last + 1]
        /\ coll' = [coll EXCEPT ![c].phase = "publishing", ![c].rows = RowsOf(c),
                                ![c].says = Says(c)]
        /\ UNCHANGED <<world, warehouse, lastRun, faults>>
    BY DEF Build
  <1>3. last \in Nat /\ \A q \in Runs : finished[q] <= last
    BY LastPlace
  <1> HIDE DEF last
  <1>4. /\ finished' \in [Runs -> Nat] /\ finished'[r] = last + 1
        /\ \A q \in Runs \ {r} : finished'[q] = finished[q]
    BY <1>1, <1>2, <1>3
  <1>5. \A q \in Runs \ {r} : finished'[q] < finished'[r]
    BY <1>1, <1>3, <1>4
  <1>6. RowsOf(c) \in [Days -> Rows] /\ Says(c) \in Saying
    BY RowsOfIs, SaysIs
  <1>7. /\ next \in Collector /\ next.phase = "publishing" /\ next.run = coll[c].run
        /\ next.day = coll[c].day /\ next.range = coll[c].range /\ next.prior = coll[c].prior
        /\ next.facts = coll[c].facts /\ next.open = coll[c].open /\ next.got = coll[c].got
        /\ next.rows = RowsOf(c) /\ next.says = Says(c) /\ next.asked = coll[c].asked
        /\ next.plan = {}
    BY <1>1, <1>2, <1>6 DEF Collector, Phase
  <1>8. coll' = [coll EXCEPT ![c] = next]
    BY <1>2 DEF CTypeOK
  <1> HIDE DEF next
  <1>9. /\ coll' \in [Collectors -> Collector] /\ coll'[c] = next
        /\ \A e \in Collectors \ {c} : coll'[e] = coll[e]
    BY <1>7, <1>8, CollChanges
  <1>10. CTypeOK'
    BY <1>2, <1>4, <1>9 DEF CTypeOK, world, warehouse
  <1> QED
    BY <1>2, <1>4, <1>5, <1>7, <1>9, <1>10

\* A run that fails publishes no rows and says nothing.
LEMMA FailIs ==
  ASSUME CTypeOK, NEW c \in Collectors, Fail(c)
  PROVE  /\ CTypeOK' /\ coll[c].phase = "reading" /\ coll'[c].phase = "publishing"
         /\ \A e \in Collectors \ {c} : coll'[e] = coll[e]
         /\ coll'[c].run = coll[c].run /\ coll'[c].day = coll[c].day
         /\ coll'[c].range = coll[c].range /\ coll'[c].prior = coll[c].prior
         /\ coll'[c].facts = coll[c].facts /\ coll'[c].open = coll[c].open
         /\ coll'[c].got = Unasked /\ coll'[c].rows = coll[c].rows
         /\ coll'[c].says = coll[c].says /\ coll'[c].asked = coll[c].asked /\ coll'[c].plan = {}
         /\ UNCHANGED <<world, warehouse, finished, lastRun>>
  <1> DEFINE next == [coll[c] EXCEPT !.phase = "publishing", !.plan = {}, !.got = Unasked]
  <1>1. coll[c] \in Collector /\ Unasked \in [Days -> Answer]
    BY DEF CTypeOK, Unasked, Answer, Verdict
  <1>2. /\ coll[c].phase = "reading" /\ Fault
        /\ coll' = [coll EXCEPT ![c].phase = "publishing", ![c].plan = {}, ![c].got = Unasked]
        /\ UNCHANGED <<world, warehouse, finished, lastRun>>
    BY DEF Fail
  <1>3. /\ next \in Collector /\ next.phase = "publishing" /\ next.run = coll[c].run
        /\ next.day = coll[c].day /\ next.range = coll[c].range /\ next.prior = coll[c].prior
        /\ next.facts = coll[c].facts /\ next.open = coll[c].open /\ next.got = Unasked
        /\ next.rows = coll[c].rows /\ next.says = coll[c].says /\ next.asked = coll[c].asked
        /\ next.plan = {}
    BY <1>1 DEF Collector, Phase
  <1>4. coll' = [coll EXCEPT ![c] = next]
    BY <1>2 DEF CTypeOK
  <1> HIDE DEF next
  <1>5. /\ coll' \in [Collectors -> Collector] /\ coll'[c] = next
        /\ \A e \in Collectors \ {c} : coll'[e] = coll[e]
    BY <1>3, <1>4, CollChanges
  <1>6. faults' \in 0 .. MaxFaults
    BY <1>2, CollectionAssumption DEF CTypeOK, Fault
  <1>7. CTypeOK'
    BY <1>2, <1>5, <1>6 DEF CTypeOK, world, warehouse
  <1> QED
    BY <1>2, <1>3, <1>5, <1>7

\* A collector that goes on with its next attempt has what it had.
Keeps(c) ==
  /\ coll'[c].phase = coll[c].phase /\ coll'[c].run = coll[c].run
  /\ coll'[c].day = coll[c].day /\ coll'[c].range = coll[c].range
  /\ coll'[c].prior = coll[c].prior /\ coll'[c].facts = coll[c].facts
  /\ coll'[c].open = coll[c].open /\ coll'[c].plan = coll[c].plan
  /\ coll'[c].got = coll[c].got /\ coll'[c].rows = coll[c].rows
  /\ coll'[c].says = coll[c].says /\ coll'[c].asked = coll[c].asked

\* A collector stops, or makes its next attempt with the same batch.
LEMMA AgainIs ==
  ASSUME CTypeOK, NEW c \in Collectors, Stops(c) \/ Again(c)
  PROVE  /\ coll' \in [Collectors -> Collector]
         /\ \A e \in Collectors \ {c} : coll'[e] = coll[e]
         /\ coll'[c] = Idle \/ Keeps(c)
  <1>1. CASE Stops(c)
    BY <1>1, StopsIs
  <1>2. CASE coll[c].attempt < Attempts /\ coll' = [coll EXCEPT ![c].attempt = @ + 1]
    <2> DEFINE next == [coll[c] EXCEPT !.attempt = coll[c].attempt + 1]
    <2>1. coll[c] \in Collector
      BY DEF CTypeOK
    <2>2. coll[c].attempt + 1 \in 1 .. Attempts
      BY <1>2, <2>1, CollectionAssumption DEF Collector
    <2>3. /\ next \in Collector /\ next.phase = coll[c].phase /\ next.run = coll[c].run
          /\ next.day = coll[c].day /\ next.range = coll[c].range
          /\ next.prior = coll[c].prior /\ next.facts = coll[c].facts
          /\ next.open = coll[c].open /\ next.plan = coll[c].plan
          /\ next.got = coll[c].got /\ next.rows = coll[c].rows
          /\ next.says = coll[c].says /\ next.asked = coll[c].asked
      BY <2>1, <2>2 DEF Collector
    <2>4. coll' = [coll EXCEPT ![c] = next]
      BY <1>2 DEF CTypeOK
    <2> HIDE DEF next
    <2> QED
      BY <2>3, <2>4, CollChanges DEF Keeps
  <1> QED
    BY <1>1, <1>2 DEF Again
-----------------------------------------------------------------------------
(* What a publication changes.                                             *)

\* A merge keeps the tokens of what it replaces, and keeps the row unless the other is newer.
LEMMA MergedIs ==
  ASSUME NEW old \in Rows, NEW row \in Rows
  PROVE  LET m == Merged(old, row) IN
         /\ m \in Rows /\ Tokens(m) >= Tokens(old)
         /\ Tokens(m) \in {Tokens(old), Tokens(row)}
         /\ row = NoRow => m = old
         /\ row # NoRow =>
              /\ m # NoRow
              /\ \/ m.at = row.at /\ Tokens(m) >= row.tokens
                 \/ m = old /\ old # NoRow /\ old.at >= row.at
  <1>1. CASE row = NoRow
    <2>1. Tokens(old) \in Nat
      BY TokensType
    <2> QED
      BY <1>1, <2>1 DEF Merged
  <1>2. CASE row # NoRow /\ old = NoRow
    <2>1. row \in Row /\ Tokens(row) = row.tokens /\ row.tokens \in Nat /\ Tokens(old) = 0
      BY <1>2, RowParts DEF Rows, Tokens
    <2>2. Merged(old, row) = row
      BY <1>2 DEF Merged
    <2> QED
      BY <1>2, <2>1, <2>2
  <1>3. CASE row # NoRow /\ old # NoRow /\ Newer(row, old)
    <2>1. /\ row \in Row /\ old \in Row /\ Tokens(row) = row.tokens /\ Tokens(old) = old.tokens
          /\ row.tokens \in Nat /\ old.tokens \in Nat
      BY <1>3, RowParts DEF Rows
    <2> DEFINE n == Greater(row.tokens, old.tokens)
               m == [row EXCEPT !.tokens = n]
    <2>2. n \in Nat /\ n >= row.tokens /\ n >= old.tokens /\ n \in {row.tokens, old.tokens}
      BY <2>1, GreaterIs
    <2>3. Merged(old, row) = m
      BY <1>3, <2>1 DEF Merged, Row
    <2> HIDE DEF n
    <2>4. m \in Row /\ m.at = row.at /\ m.tokens = n
      BY <2>1, <2>2 DEF Row
    <2>5. m # NoRow /\ Tokens(m) = n
      BY <2>4, RowParts
    <2> HIDE DEF m
    <2> QED
      BY <1>3, <2>1, <2>2, <2>3, <2>4, <2>5 DEF Rows
  <1>4. CASE row # NoRow /\ old # NoRow /\ ~Newer(row, old)
    <2>1. /\ row \in Row /\ old \in Row /\ Tokens(old) \in Nat
      BY <1>4, TokensType DEF Rows
    <2>2. old.at >= row.at
      BY <1>4, <2>1, RowParts DEF Newer
    <2>3. Merged(old, row) = old
      BY <1>4 DEF Merged
    <2> QED
      BY <1>4, <2>1, <2>2, <2>3
  <1> QED
    BY <1>1, <1>2, <1>3, <1>4

\* Run numbers, and the zero of no run, are numbers.
LEMMA RunNumbers == \A r \in Runs \cup {0} : r \in Nat
  <1> SUFFICES ASSUME NEW r \in Runs \cup {0} PROVE r \in Nat
    OBVIOUS
  <1>1. r = 0 \/ r \in Runs
    OBVIOUS
  <1>2. r \in Runs => r \in Nat
    BY RunsAre
  <1> QED
    BY <1>1, <1>2

\* The newest status of a day is the old one, or the run's when that started later.
LEMMA NewerStatusIs ==
  ASSUME CTypeOK, NEW c \in Collectors, coll[c].run \in Runs, NEW d \in Days
  PROVE  /\ NewerStatus(c, d) \in Status
         /\ NewerStatus(c, d).run >= status[d].run
         /\ d \in Asked(c) => NewerStatus(c, d).run >= coll[c].run
         /\ \/ NewerStatus(c, d) = status[d]
            \/ /\ d \in Asked(c) /\ coll[c].run > status[d].run
               /\ NewerStatus(c, d).state = NewState(c, d)
  <1>1. status[d] \in Status /\ status[d].run \in Nat /\ coll[c].run \in Nat
    <2>1. status[d] \in Status
      BY DEF CTypeOK
    <2>2. status[d].run \in Runs \cup {0}
      BY <2>1 DEF Status
    <2> QED
      BY <2>1, <2>2, RunNumbers
  <1>2. NewState(c, d) \in State
    BY DEF NewState, State
  <1> QED
    BY <1>1, <1>2 DEF NewerStatus, Status

\* A publication that takes effect.
Applies(c) ==
  /\ applied[coll[c].run] = 0
  /\ applied' = [applied EXCEPT ![coll[c].run] = 1]
  /\ issue' = [issue EXCEPT ![coll[c].run] = coll[c].says]
  /\ \A d \in Days : fact'[d] = Merged(fact[d], coll[c].rows[d])
  /\ \A d \in Days : status'[d] = NewerStatus(c, d)
  /\ doubted' = Doubted(c)

\* A run that the ledger has is not published again.
LEMMA ApplyIs ==
  ASSUME CTypeOK, NEW c \in Collectors, coll[c].run \in Runs, Apply(c)
  PROVE  /\ fact' \in [Days -> Rows] /\ status' \in [Days -> Status]
         /\ issue' \in [Runs -> Saying] /\ applied' \in [Runs -> Nat]
         /\ doubted' \in SUBSET Days
         /\ UNCHANGED warehouse \/ Applies(c)
  <1>1. coll[c] \in Collector /\ applied \in [Runs -> Nat]
    BY DEF CTypeOK
  <1>2. CASE applied[coll[c].run] > 0
    <2>1. UNCHANGED warehouse
      BY <1>2 DEF Apply
    <2> QED
      BY <2>1 DEF CTypeOK, warehouse
  <1>3. CASE ~(applied[coll[c].run] > 0)
    <2>1. /\ fact' = [d \in Days |-> Merged(fact[d], coll[c].rows[d])]
          /\ status' = [d \in Days |-> NewerStatus(c, d)]
          /\ issue' = [issue EXCEPT ![coll[c].run] = coll[c].says]
          /\ applied' = [applied EXCEPT ![coll[c].run] = @ + 1]
          /\ doubted' = Doubted(c)
      BY <1>3 DEF Apply
    <2>2. applied[coll[c].run] = 0
      BY <1>1, <1>3
    <2>3. fact' \in [Days -> Rows]
      BY <1>1, <2>1, MergedIs DEF CTypeOK, Collector
    <2>4. status' \in [Days -> Status]
      BY <2>1, NewerStatusIs
    <2>5. coll[c].says \in Saying
      BY <1>1 DEF Collector
    <2>6. issue' \in [Runs -> Saying] /\ applied' \in [Runs -> Nat]
      BY <1>1, <2>1, <2>2, <2>5 DEF CTypeOK
    <2>7. doubted' \in SUBSET Days
      BY <2>1 DEF CTypeOK, Doubted, Inconsistent, With
    <2>8. Applies(c)
      BY <1>1, <2>1, <2>2 DEF Applies
    <2> QED
      BY <2>3, <2>4, <2>6, <2>7, <2>8
  <1> QED
    BY <1>2, <1>3

Sends(c) == Publish(c) \/ PublishUnheard(c) \/ PublishFails(c) \/ Abort(c)

\* However an attempt ends, the collector stops or goes on as it was.
LEMMA SendsIs ==
  ASSUME CTypeOK, NEW c \in Collectors, Active(c) => coll[c].run \in Runs, Sends(c)
  PROVE  /\ CTypeOK' /\ UNCHANGED <<world, finished, lastRun>> /\ Active(c)
         /\ \A e \in Collectors \ {c} : coll'[e] = coll[e]
         /\ coll'[c] = Idle \/ Keeps(c)
         /\ \/ UNCHANGED warehouse
            \/ coll[c].phase = "publishing" /\ Applies(c)
  <1>1. /\ Active(c) /\ UNCHANGED <<world, finished, lastRun>>
        /\ faults' = faults \/ Fault
        /\ Stops(c) \/ Again(c)
        /\ UNCHANGED warehouse \/ (coll[c].phase = "publishing" /\ Apply(c))
    BY DEF Sends, Publish, PublishUnheard, PublishFails, Abort, Active
  <1>2. /\ coll' \in [Collectors -> Collector]
        /\ \A e \in Collectors \ {c} : coll'[e] = coll[e]
        /\ coll'[c] = Idle \/ Keeps(c)
    BY <1>1, AgainIs
  <1>3. /\ fact' \in [Days -> Rows] /\ status' \in [Days -> Status]
        /\ issue' \in [Runs -> Saying] /\ applied' \in [Runs -> Nat]
        /\ doubted' \in SUBSET Days
        /\ \/ UNCHANGED warehouse
           \/ coll[c].phase = "publishing" /\ Applies(c)
    <2>1. CASE UNCHANGED warehouse
      BY <2>1 DEF CTypeOK, warehouse
    <2>2. CASE coll[c].phase = "publishing" /\ Apply(c)
      BY <1>1, <2>2, ApplyIs
    <2> QED
      BY <1>1, <2>1, <2>2
  <1>4. faults' \in 0 .. MaxFaults
    BY <1>1, CollectionAssumption DEF CTypeOK, Fault
  <1>5. CTypeOK'
    BY <1>1, <1>2, <1>3, <1>4 DEF CTypeOK, world
  <1> QED
    BY <1>1, <1>2, <1>3, <1>5

\* Only midnight closes a day, with what was used of it; usage only grows.
LEMMA WorldIs ==
  ASSUME CTypeOK, Midnight \/ \E d \in Days : Use(d)
  PROVE  /\ CTypeOK' /\ UNCHANGED <<backend, warehouse, finished, lastRun, coll, faults>>
         /\ \A d \in Days : used'[d] >= used[d]
         /\ today' >= today
         /\ \A d \in Days : \/ closed'[d] = closed[d] /\ (d < today' => d < today)
                            \/ d = today /\ closed'[d] = used[d] /\ used'[d] = used[d]
  <1>1. /\ today \in Nat /\ LastDay \in Nat /\ today \in Days
        /\ used \in [Days -> Nat] /\ closed \in [Days -> Nat]
    BY DaysAre, CollectionAssumption DEF CTypeOK
  <1>2. CASE Midnight
    <2>1. /\ today < LastDay /\ today' = today + 1
          /\ closed' = [closed EXCEPT ![today] = used[today]]
          /\ UNCHANGED <<backend, used, warehouse, finished, lastRun, coll, faults>>
      BY <1>2 DEF Midnight
    <2>2. today' \in Days /\ closed' \in [Days -> Nat]
      BY <1>1, <2>1 DEF Days
    <2>3. CTypeOK'
      BY <2>1, <2>2 DEF CTypeOK, warehouse
    <2>4. \A d \in Days : d < today + 1 => d < today \/ d = today
      BY <1>1, DaysAre
    <2>5. \A d \in Days : used'[d] >= used[d]
      BY <1>1, <2>1
    <2>6. \A d \in Days \ {today} : closed'[d] = closed[d]
      BY <1>1, <2>1
    <2>7. closed'[today] = used[today]
      BY <1>1, <2>1
    <2> QED
      BY <1>1, <2>1, <2>3, <2>4, <2>5, <2>6, <2>7
  <1>3. CASE \E d \in Days : Use(d)
    <2>1. PICK d \in Days : Use(d)
      BY <1>3
    <2>2. /\ used' = [used EXCEPT ![d] = used[d] + 1]
          /\ UNCHANGED <<backend, today, closed, warehouse, finished, lastRun, coll, faults>>
      BY <2>1 DEF Use
    <2>3. used' \in [Days -> Nat] /\ \A e \in Days : used'[e] >= used[e]
      BY <1>1, <2>2
    <2>4. CTypeOK'
      BY <2>2, <2>3 DEF CTypeOK, warehouse
    <2> QED
      BY <1>1, <2>2, <2>3, <2>4
  <1> QED
    BY <1>2, <1>3

-----------------------------------------------------------------------------
(* The steps.                                                              *)

\* What belongs to whom, when the collector goes on with its run, starts one or stops.
LEMMA OwnStep ==
  ASSUME OwnInv, CNext
  PROVE  OwnInv'
  <1>0. CTypeOK /\ RecordedInv /\ \A e \in Collectors : Owned(e)
    BY DEF OwnInv
  <1>1. /\ lastRun \in Nat /\ today \in Nat
        /\ \A e \in Collectors : Active(e) => coll[e].run \in Runs /\ coll[e].run \in Nat
    <2>1. lastRun \in Runs \cup {0} /\ today \in Days
      BY <1>0 DEF CTypeOK
    <2>2. \A e \in Collectors : Active(e) => coll[e].run \in Runs
      BY <1>0 DEF Owned
    <2> QED
      BY <2>1, <2>2, RunNumbers, DaysAre
  \* A step of one collector that leaves the ledger alone, and keeps its run and day.
  <1>2. ASSUME NEW c \in Collectors, CTypeOK', UNCHANGED <<world, warehouse, lastRun>>,
               \A e \in Collectors \ {c} : coll'[e] = coll[e],
               Active(c)' => /\ Active(c) /\ coll'[c].run = coll[c].run
                             /\ coll'[c].day = coll[c].day
                             /\ coll[c].phase \in {"started", "locked", "reading"}
                                  \/ coll'[c].phase = "publishing",
               coll'[c].phase \in {"started", "locked", "reading"} =>
                 coll'[c].rows = coll[c].rows /\ coll'[c].says = coll[c].says
        PROVE  OwnInv'
    <2>1. RecordedInv'
      BY <1>0, <1>2 DEF RecordedInv, warehouse
    <2>2. ASSUME NEW e \in Collectors PROVE Owned(e)'
      <3>1. Active(e)' => Active(e) /\ coll'[e].run = coll[e].run /\ coll'[e].day = coll[e].day
        BY <1>2 DEF Active
      <3>2. \A f \in Collectors : Active(f)' => Active(f) /\ coll'[f].run = coll[f].run
        BY <1>2 DEF Active
      <3>3. Owned(e)
        BY <1>0
      <3>4. coll'[e].phase \in {"started", "locked", "reading"} =>
              /\ coll[e].phase \in {"started", "locked", "reading"} /\ Active(e)'
              /\ coll'[e].rows = coll[e].rows /\ coll'[e].says = coll[e].says
        BY <1>2 DEF Active
      <3> QED
        BY <1>2, <3>1, <3>2, <3>3, <3>4 DEF Owned, warehouse, world
    <2> QED
      BY <1>2, <2>1, <2>2 DEF OwnInv
  <1>3. CASE Midnight \/ \E d \in Days : Use(d)
    <2>1. /\ CTypeOK' /\ UNCHANGED <<backend, warehouse, finished, lastRun, coll, faults>>
          /\ today' >= today /\ today' \in Nat
      BY <1>0, <1>3, WorldIs, DaysAre DEF CTypeOK
    <2>2. ASSUME NEW e \in Collectors PROVE Owned(e)'
      <3>1. Owned(e) /\ coll[e].day \in Nat
        BY <1>0, DaysAre DEF CTypeOK, Collector
      <3> QED
        BY <1>1, <2>1, <3>1 DEF Owned, Active, warehouse
    <2>3. RecordedInv'
      BY <1>0, <2>1 DEF RecordedInv, warehouse
    <2> QED
      BY <2>1, <2>2, <2>3 DEF OwnInv
  <1>4. ASSUME NEW c \in Collectors, Step(c) PROVE OwnInv'
    <2>1. CASE Start(c)
      <3>1. /\ CTypeOK' /\ lastRun' = lastRun + 1 /\ lastRun' \in Runs /\ lastRun' \in Nat
            /\ \A e \in Collectors \ {c} : coll'[e] = coll[e]
            /\ coll'[c].run = lastRun' /\ coll'[c].day = today
            /\ coll'[c].rows = NoFacts /\ coll'[c].says = "none"
            /\ UNCHANGED <<world, warehouse, finished, faults>>
        BY <1>0, <2>1, StartIs, RunsAre
      <3>2. RecordedInv'
        BY <1>0, <1>1, <3>1, RunsAre DEF RecordedInv, warehouse
      <3>3. \A e \in Collectors \ {c} : Active(e) => coll[e].run # lastRun'
        BY <1>0, <1>1, <3>1 DEF Owned
      <3>4. applied[lastRun'] = 0
        BY <1>0, <1>1, <3>1 DEF RecordedInv, CTypeOK
      <3>5. ASSUME NEW e \in Collectors PROVE Owned(e)'
        <4>1. CASE e = c
          BY <1>1, <3>1, <3>3, <3>4, <4>1 DEF Owned, Active, world, warehouse
        <4>2. CASE e # c
          <5>1. Owned(e) /\ coll'[e] = coll[e]
            BY <1>0, <3>1, <4>2
          <5>2. Active(e) => coll[e].run \in Nat /\ coll[e].run # lastRun'
            BY <1>1, <3>3, <4>2
          <5> QED
            BY <1>1, <3>1, <4>2, <5>1, <5>2 DEF Owned, Active, world, warehouse
        <4> QED
          BY <4>1, <4>2
      <3> QED
        BY <3>1, <3>2, <3>5 DEF OwnInv
    <2>2. CASE Lock(c) /\ Stops(c)
      <3>1. /\ coll' \in [Collectors -> Collector] /\ coll'[c] = Idle
            /\ \A e \in Collectors \ {c} : coll'[e] = coll[e]
            /\ UNCHANGED <<world, warehouse, finished, lastRun, faults>>
        BY <1>0, <2>2, StopsIs DEF Lock
      <3>2. CTypeOK'
        BY <1>0, <3>1 DEF CTypeOK, world, warehouse
      <3> QED
        BY <1>2, <3>1, <3>2, IdleIs DEF Active
    <2>3. CASE Lock(c) /\ coll' = [coll EXCEPT ![c].phase = "locked"]
      <3>1. /\ coll' \in [Collectors -> Collector] /\ coll'[c].phase = "locked"
            /\ \A e \in Collectors \ {c} : coll'[e] = coll[e]
            /\ coll'[c].run = coll[c].run /\ coll'[c].day = coll[c].day
            /\ coll'[c].rows = coll[c].rows /\ coll'[c].says = coll[c].says
            /\ UNCHANGED <<world, warehouse, finished, lastRun, faults>>
            /\ coll[c].phase = "started"
        BY <1>0, <2>3, LockIs DEF Lock
      <3>2. CTypeOK'
        BY <1>0, <3>1 DEF CTypeOK, world, warehouse
      <3> QED
        BY <1>2, <3>1, <3>2 DEF Active
    <2>4. CASE Preflight(c)
      BY <1>0, <1>2, <2>4, PreflightIs DEF Active
    <2>5. CASE Fetch(c)
      BY <1>0, <1>2, <2>5, FetchIs DEF Active
    <2>6. CASE Build(c)
      <3>1. coll[c].run \in Runs
        BY <1>1, <2>6 DEF Build, Active
      <3> QED
        BY <1>0, <1>2, <2>6, <3>1, BuildIs DEF Active
    <2>7. CASE Fail(c)
      BY <1>0, <1>2, <2>7, FailIs DEF Active
    <2>8. CASE Sends(c)
      <3>1. /\ CTypeOK' /\ UNCHANGED <<world, finished, lastRun>> /\ Active(c)
            /\ \A e \in Collectors \ {c} : coll'[e] = coll[e]
            /\ coll'[c] = Idle \/ Keeps(c)
            /\ \/ UNCHANGED warehouse
               \/ coll[c].phase = "publishing" /\ Applies(c)
        BY <1>0, <1>1, <2>8, SendsIs
      <3>2. CASE UNCHANGED warehouse
        <4>1. Active(c)' => Keeps(c)
          BY <3>1, IdleIs DEF Active
        <4>2. coll'[c].phase \in {"started", "locked", "reading"} => Active(c)'
          BY DEF Active
        <4>3. Active(c)' => /\ Active(c) /\ coll'[c].run = coll[c].run
                            /\ coll'[c].day = coll[c].day
                            /\ coll'[c].phase = coll[c].phase
                            /\ coll'[c].rows = coll[c].rows /\ coll'[c].says = coll[c].says
          BY <3>1, <4>1 DEF Keeps
        <4>4. coll[c].phase \in {"started", "locked", "reading"} \/ coll[c].phase = "publishing"
          <5>1. coll[c].phase \in Phase
            BY <1>0 DEF CTypeOK, Collector
          <5> QED
            BY <3>1, <5>1 DEF Phase, Active
        <4> QED
          BY <1>2, <3>1, <3>2, <4>2, <4>3, <4>4
      <3>3. CASE coll[c].phase = "publishing" /\ Applies(c)
        <4> DEFINE r == coll[c].run
        <4>1. r \in Runs /\ r <= lastRun
          BY <1>0, <3>1 DEF Owned
        <4>2. /\ applied' = [applied EXCEPT ![r] = 1]
              /\ issue' = [issue EXCEPT ![r] = coll[c].says]
          BY <3>3 DEF Applies
        <4>3. RecordedInv'
          BY <1>0, <3>1, <4>1, <4>2 DEF RecordedInv, CTypeOK
        <4>4. ASSUME NEW e \in Collectors PROVE Owned(e)'
          <5>1. CASE e = c
            <6>1. Owned(c)
              BY <1>0
            <6>2. \A f \in Collectors : Active(f)' => Active(f) /\ coll'[f].run = coll[f].run
              BY <3>1, IdleIs DEF Active, Keeps
            <6>3. Active(c)' => /\ coll'[c].phase = "publishing" /\ coll'[c].run = coll[c].run
                                /\ coll'[c].day = coll[c].day
              BY <3>1, <3>3, IdleIs DEF Active, Keeps
            <6>4. coll'[c].phase \notin {"started", "locked", "reading"}
              BY <6>3 DEF Active
            <6> QED
              BY <3>1, <5>1, <6>1, <6>2, <6>3, <6>4 DEF Owned, world
          <5>2. CASE e # c
            <6>1. Owned(e) /\ coll'[e] = coll[e]
              BY <1>0, <3>1, <5>2
            <6>2. \A f \in Collectors : Active(f)' => Active(f) /\ coll'[f].run = coll[f].run
              BY <3>1, IdleIs DEF Active, Keeps
            <6>3. Active(e) => coll[e].run # r
              BY <3>1, <5>2, <6>1 DEF Owned
            <6>4. coll[e].phase \in {"started", "locked", "reading"} =>
                    Active(e) /\ applied'[coll[e].run] = applied[coll[e].run]
              BY <1>0, <1>1, <4>2, <6>3 DEF Active, CTypeOK
            <6> QED
              BY <3>1, <6>1, <6>2, <6>4 DEF Owned, world, Active
          <5> QED
            BY <5>1, <5>2
        <4> QED
          BY <3>1, <4>3, <4>4 DEF OwnInv
      <3> QED
        BY <3>1, <3>2, <3>3
    <2> QED
      BY <1>4, <2>1, <2>2, <2>3, <2>4, <2>5, <2>6, <2>7, <2>8 DEF Step, Sends, Lock
  <1> QED
    BY <1>3, <1>4 DEF CNext
\* Of a run that is not idle, the number is one.
LEMMA RunIs ==
  ASSUME OwnInv, NEW c \in Collectors, Active(c)
  PROVE  coll[c].run \in Runs /\ coll[c].run \in Nat /\ coll[c].day \in Nat /\ today \in Nat
  <1>1. CTypeOK /\ Owned(c)
    BY DEF OwnInv
  <1>2. coll[c].day \in Days /\ today \in Days
    BY <1>1 DEF CTypeOK, Collector
  <1> QED
    BY <1>1, <1>2, RunNumbers, DaysAre DEF Owned

\* No collector has more than was used, if the one that steps has not.
LEMMA WithinKept ==
  ASSUME CTypeOK, UsageInv, NEW c \in Collectors, NEW d \in Days,
         UNCHANGED <<world, fact>>,
         \A e \in Collectors \ {c} : coll'[e] = coll[e],
         Within(c, d)'
  PROVE  Tokens(fact'[d]) <= used'[d] /\ \A e \in Collectors : Within(e, d)'
  BY DEF UsageInv, Within, world

\* An idle collector has nothing.
LEMMA IdleWithin ==
  ASSUME CTypeOK, NEW c \in Collectors, NEW d \in Days, used' = used, coll'[c] = Idle
  PROVE  Within(c, d)'
  <1>1. used[d] \in Nat
    BY DEF CTypeOK
  <1>2. NoRow = NoRow /\ Tokens(NoRow) = 0
    BY DEF Tokens
  <1>3. Idle.facts[d] = NoRow /\ Idle.rows[d] = NoRow /\ Idle.got[d].tokens = 0
    BY IdleIs DEF NoFacts, Unasked
  <1> QED
    BY <1>1, <1>2, <1>3 DEF Within

\* Nothing exceeds what was used.
LEMMA UsageStep ==
  ASSUME OwnInv, UsageInv, CNext
  PROVE  UsageInv'
  <1> SUFFICES ASSUME NEW d \in Days
               PROVE  Tokens(fact'[d]) <= used'[d] /\ \A e \in Collectors : Within(e, d)'
    BY DEF UsageInv
  <1>0. CTypeOK
    BY DEF OwnInv
  <1>1. /\ used[d] \in Nat /\ fact[d] \in Rows /\ Tokens(fact[d]) \in Nat
        /\ Tokens(fact[d]) <= used[d]
        /\ \A e \in Collectors : /\ coll[e] \in Collector /\ Within(e, d)
                                 /\ Tokens(coll[e].facts[d]) \in Nat
                                 /\ Tokens(coll[e].rows[d]) \in Nat
                                 /\ coll[e].got[d].tokens \in Nat
    <2>1. used[d] \in Nat /\ fact[d] \in Rows /\ \A e \in Collectors : coll[e] \in Collector
      BY <1>0 DEF CTypeOK
    <2>2. \A e \in Collectors : /\ coll[e].facts[d] \in Rows /\ coll[e].rows[d] \in Rows
                                /\ coll[e].got[d] \in Answer
      BY <2>1 DEF Collector
    <2> QED
      BY <2>1, <2>2, TokensType DEF UsageInv, Answer
  <1>2. CASE Midnight \/ \E e \in Days : Use(e)
    <2>1. /\ UNCHANGED <<warehouse, coll>> /\ used'[d] >= used[d] /\ used'[d] \in Nat
      BY <1>0, <1>2, WorldIs DEF CTypeOK
    <2> QED
      BY <1>1, <2>1 DEF Within, warehouse
  <1>3. ASSUME NEW c \in Collectors, Step(c)
        PROVE  Tokens(fact'[d]) <= used'[d] /\ \A e \in Collectors : Within(e, d)'
    <2>1. CASE Start(c)
      <3>1. /\ \A e \in Collectors \ {c} : coll'[e] = coll[e]
            /\ coll'[c].rows = NoFacts /\ coll'[c].facts = NoFacts /\ coll'[c].got = Unasked
            /\ UNCHANGED <<world, warehouse>>
        BY <1>0, <2>1, StartIs
      <3>2. NoFacts[d] = NoRow /\ Unasked[d].tokens = 0 /\ Tokens(NoRow) = 0
        BY DEF NoFacts, Unasked, Tokens
      <3>3. Within(c, d)'
        BY <1>1, <3>1, <3>2 DEF Within, world
      <3> QED
        BY <1>0, <3>1, <3>3, WithinKept DEF warehouse
    <2>2. CASE Lock(c) /\ Stops(c)
      <3>1. /\ coll'[c] = Idle /\ UNCHANGED <<world, warehouse>>
            /\ \A e \in Collectors \ {c} : coll'[e] = coll[e]
        BY <1>0, <2>2, StopsIs DEF Lock
      <3> QED
        BY <1>0, <3>1, WithinKept, IdleWithin DEF warehouse, world
    <2>3. CASE Lock(c) /\ coll' = [coll EXCEPT ![c].phase = "locked"]
      <3>1. /\ \A e \in Collectors \ {c} : coll'[e] = coll[e]
            /\ coll'[c].facts = coll[c].facts
            /\ coll'[c].got = coll[c].got /\ coll'[c].rows = coll[c].rows
            /\ UNCHANGED <<world, warehouse>>
        BY <1>0, <2>3, LockIs DEF Lock
      <3>2. Within(c, d)'
        BY <1>1, <3>1 DEF Within, world
      <3> QED
        BY <1>0, <3>1, <3>2, WithinKept DEF warehouse
    <2>4. CASE Preflight(c)
      <3>1. /\ \A e \in Collectors \ {c} : coll'[e] = coll[e]
            /\ coll'[c].got = coll[c].got /\ coll'[c].rows = coll[c].rows
            /\ coll'[c].facts = fact
            /\ UNCHANGED <<world, warehouse>>
        BY <1>0, <2>4, PreflightIs
      <3>2. Within(c, d)'
        BY <1>1, <3>1 DEF Within, world
      <3> QED
        BY <1>0, <3>1, <3>2, WithinKept DEF warehouse
    <2>5. CASE Fetch(c)
      <3>1. /\ \A e \in Collectors \ {c} : coll'[e] = coll[e]
            /\ coll'[c].facts = coll[c].facts /\ coll'[c].rows = coll[c].rows
            /\ UNCHANGED <<world, warehouse>>
            /\ \E f \in Days : \E a \in Answers(f) : coll'[c].got = [coll[c].got EXCEPT ![f] = a]
        BY <1>0, <2>5, FetchIs
      <3>2. PICK f \in Days : \E a \in Answers(f) : coll'[c].got = [coll[c].got EXCEPT ![f] = a]
        BY <3>1
      <3>3. PICK a \in Answers(f) : coll'[c].got = [coll[c].got EXCEPT ![f] = a]
        BY <3>2
      <3>4. a.tokens <= used[f]
        BY <1>0, AnswersAre
      <3>5. coll'[c].got[d].tokens <= used[d]
        <4>1. coll[c].got \in [Days -> Answer]
          BY <1>1 DEF Collector
        <4> QED
          BY <1>1, <3>3, <3>4, <4>1 DEF Within
      <3>6. Within(c, d)'
        BY <1>1, <3>1, <3>5 DEF Within, world
      <3> QED
        BY <1>0, <3>1, <3>6, WithinKept DEF warehouse
    <2>6. CASE Build(c)
      <3>1. coll[c].run \in Runs
        BY <2>6, RunIs DEF Build, Active
      <3>2. /\ \A e \in Collectors \ {c} : coll'[e] = coll[e]
            /\ coll'[c].facts = coll[c].facts /\ coll'[c].got = coll[c].got
            /\ coll'[c].rows = RowsOf(c)
            /\ UNCHANGED <<world, warehouse>>
        BY <1>0, <2>6, <3>1, BuildIs
      <3>3. Tokens(RowsOf(c)[d]) <= used[d]
        <4> DEFINE row == RowsOf(c)[d]
        <4>1. /\ row \in Rows
              /\ row # NoRow => row.tokens \in {coll[c].got[d].tokens, Tokens(coll[c].facts[d])}
          BY <1>0, <3>1, RowsOfIs
        <4> HIDE DEF row
        <4>2. Tokens(row) = 0 \/ Tokens(row) \in {coll[c].got[d].tokens, Tokens(coll[c].facts[d])}
          BY <4>1 DEF Tokens
        <4> QED
          BY <1>1, <4>2 DEF Within, row
      <3>4. Within(c, d)'
        BY <1>1, <3>2, <3>3 DEF Within, world
      <3> QED
        BY <1>0, <3>2, <3>4, WithinKept DEF warehouse
    <2>7. CASE Fail(c)
      <3>1. /\ \A e \in Collectors \ {c} : coll'[e] = coll[e]
            /\ coll'[c].facts = coll[c].facts /\ coll'[c].rows = coll[c].rows
            /\ coll'[c].got = Unasked
            /\ UNCHANGED <<world, warehouse>>
        BY <1>0, <2>7, FailIs
      <3>2. Unasked[d].tokens = 0
        BY DEF Unasked
      <3>3. Within(c, d)'
        BY <1>1, <3>1, <3>2 DEF Within, world
      <3> QED
        BY <1>0, <3>1, <3>3, WithinKept DEF warehouse
    <2>8. CASE Sends(c)
      <3>1. /\ UNCHANGED world /\ Active(c)
            /\ \A e \in Collectors \ {c} : coll'[e] = coll[e]
            /\ coll'[c] = Idle \/ Keeps(c)
            /\ UNCHANGED warehouse \/ Applies(c)
        BY <1>0, <2>8, SendsIs, RunIs
      <3>2. Within(c, d)'
        BY <1>0, <1>1, <3>1, IdleWithin DEF Within, world, Keeps
      <3>3. \A e \in Collectors : Within(e, d)'
        BY <1>1, <3>1, <3>2 DEF Within, world
      <3>4. Tokens(fact'[d]) <= used'[d]
        <4>1. CASE UNCHANGED warehouse
          BY <1>1, <3>1, <4>1 DEF warehouse, world
        <4>2. CASE Applies(c)
          <5>1. fact'[d] = Merged(fact[d], coll[c].rows[d]) /\ coll[c].rows[d] \in Rows
            BY <1>1, <4>2 DEF Applies, Collector
          <5>2. Tokens(fact'[d]) \in {Tokens(fact[d]), Tokens(coll[c].rows[d])}
            BY <1>1, <5>1, MergedIs
          <5> QED
            BY <1>1, <3>1, <5>2 DEF Within, world
        <4> QED
          BY <3>1, <4>1, <4>2
      <3> QED
        BY <3>3, <3>4
    <2> QED
      BY <1>3, <2>1, <2>2, <2>3, <2>4, <2>5, <2>6, <2>7, <2>8 DEF Step, Sends, Lock
  <1> QED
    BY <1>2, <1>3 DEF CNext
\* What a collector has read stays right as it publishes, and as other runs do.
LEMMA ReadsKept ==
  ASSUME CTypeOK, CTypeOK', NEW e \in Collectors, NEW d \in Days, Reads(e, d),
         status'[d].run >= status[d].run, d < coll[e].day => closed'[d] = closed[d],
         coll'[e].run = coll[e].run, coll'[e].day = coll[e].day,
         coll'[e].facts = coll[e].facts, coll'[e].got = coll[e].got,
         coll'[e].rows = coll[e].rows,
         coll'[e].phase = "publishing" => coll[e].phase = "publishing"
  PROVE  Reads(e, d)'
  <1>1. /\ coll[e].facts[d] \in Rows /\ coll[e].run \in Runs \cup {0}
        /\ status[d] \in Status /\ status'[d] \in Status
    BY DEF CTypeOK, Collector
  <1>2. /\ status[d].run \in Nat /\ status'[d].run \in Nat /\ coll[e].run \in Nat
        /\ coll[e].facts[d] # NoRow => coll[e].facts[d].at \in Nat
    <2>1. status[d].run \in Runs \cup {0} /\ status'[d].run \in Runs \cup {0}
      BY <1>1 DEF Status
    <2> QED
      BY <1>1, <2>1, RunNumbers, RowParts DEF Rows
  <1>3. coll[e].facts[d] # NoRow => coll[e].facts[d].at <= status'[d].run
    BY <1>2 DEF Reads
  <1>4. status[d].run >= coll[e].run => status'[d].run >= coll[e].run
    BY <1>2
  <1> QED
    BY <1>3, <1>4 DEF Reads

\* A complete day is recorded in full, and what is recorded is known to be.
LEMMA RecordedKept ==
  ASSUME NEW d \in Days, Recorded(d), UNCHANGED <<world, warehouse>>
  PROVE  Recorded(d)'
  BY DEF Recorded, world, warehouse

\* An answer about a day gone by closes it in full.
LEMMA FinalStep ==
  ASSUME OwnInv, UsageInv, FinalInv, CNext
  PROVE  FinalInv'
  <1>0. CTypeOK /\ CTypeOK' /\ \A e \in Collectors : Owned(e)
    BY OwnStep DEF OwnInv
  <1> SUFFICES ASSUME NEW d \in Days
               PROVE  Recorded(d)' /\ \A e \in Collectors : Active(e)' => Reads(e, d)'
    BY DEF FinalInv
  <1>1. Recorded(d) /\ \A e \in Collectors : Active(e) => Reads(e, d)
    BY DEF FinalInv
  <1>2. /\ used[d] \in Nat /\ closed[d] \in Nat /\ status[d] \in Status /\ fact[d] \in Rows
        /\ status[d].run \in Nat /\ d \in Nat /\ today \in Nat /\ Tokens(fact[d]) \in Nat
        /\ fact[d] # NoRow => fact[d].at \in Nat
    <2>1. /\ used[d] \in Nat /\ closed[d] \in Nat /\ status[d] \in Status /\ fact[d] \in Rows
          /\ today \in Days
      BY <1>0 DEF CTypeOK
    <2>2. status[d].run \in Runs \cup {0}
      BY <2>1 DEF Status
    <2> QED
      BY <2>1, <2>2, RunNumbers, DaysAre, TokensType, RowParts DEF Rows
  <1>3. CASE Midnight \/ \E e \in Days : Use(e)
    <2>1. /\ UNCHANGED <<warehouse, coll>> /\ today' >= today /\ used'[d] >= used[d]
          /\ today' \in Nat /\ used'[d] \in Nat
          /\ \/ closed'[d] = closed[d] /\ (d < today' => d < today)
             \/ d = today /\ closed'[d] = used[d] /\ used'[d] = used[d]
      <3>1. today' \in Days /\ used'[d] \in Nat
        BY <1>0 DEF CTypeOK
      <3> QED
        BY <1>0, <1>3, <3>1, WorldIs, DaysAre
    <2>2. Recorded(d)'
      <3>1. status'[d] = status[d] /\ fact'[d] = fact[d]
        BY <2>1 DEF warehouse
      <3>2. status[d].state = "complete" => d < today' /\ Tokens(fact[d]) >= closed'[d]
        BY <1>1, <1>2, <2>1 DEF Recorded
      <3>3. d < today' => closed'[d] <= used'[d]
        BY <1>1, <1>2, <2>1 DEF Recorded
      <3> QED
        BY <1>1, <3>1, <3>2, <3>3 DEF Recorded
    <2>3. ASSUME NEW e \in Collectors, Active(e)' PROVE Reads(e, d)'
      <3>1. Active(e) /\ Reads(e, d) /\ coll[e].day \in Nat /\ coll[e].day <= today
        BY <1>0, <1>1, <2>1, <2>3, RunIs DEF Active, Owned
      <3>2. d < coll[e].day => closed'[d] = closed[d]
        BY <1>2, <2>1, <3>1
      <3>3. status'[d].run >= status[d].run
        BY <1>2, <2>1 DEF warehouse
      <3> QED
        BY <1>0, <2>1, <3>1, <3>2, <3>3, ReadsKept
    <2> QED
      BY <2>2, <2>3
  <1>4. ASSUME NEW c \in Collectors, Step(c)
        PROVE  Recorded(d)' /\ \A e \in Collectors : Active(e)' => Reads(e, d)'
    \* A step that publishes nothing concerns what the collector has read.
    <2>1. ASSUME UNCHANGED <<world, warehouse>>,
                 \A e \in Collectors \ {c} : coll'[e] = coll[e],
                 Active(c)' => Reads(c, d)'
          PROVE  Recorded(d)' /\ \A e \in Collectors : Active(e)' => Reads(e, d)'
      <3>1. status'[d].run >= status[d].run /\ closed' = closed
        BY <1>2, <2>1 DEF warehouse, world
      <3>2. ASSUME NEW e \in Collectors, e # c, Active(e)' PROVE Reads(e, d)'
        <4>1. coll'[e] = coll[e]
          BY <2>1, <3>2
        <4> QED
          BY <1>0, <1>1, <3>1, <3>2, <4>1, ReadsKept DEF Active
      <3> QED
        BY <1>1, <2>1, <3>2, RecordedKept
    <2>2. CASE Start(c)
      <3>1. /\ \A e \in Collectors \ {c} : coll'[e] = coll[e]
            /\ coll'[c].rows = NoFacts /\ coll'[c].facts = NoFacts /\ coll'[c].got = Unasked
            /\ UNCHANGED <<world, warehouse>>
        BY <1>0, <2>2, StartIs
      <3>2. NoFacts[d] = NoRow /\ Unasked[d].verdict = "none"
        BY DEF NoFacts, Unasked
      <3>3. Reads(c, d)'
        BY <3>1, <3>2 DEF Reads
      <3> QED
        BY <2>1, <3>1, <3>3
    <2>3. CASE Lock(c) /\ Stops(c)
      <3>1. /\ coll'[c] = Idle /\ UNCHANGED <<world, warehouse>>
            /\ \A e \in Collectors \ {c} : coll'[e] = coll[e]
        BY <1>0, <2>3, StopsIs DEF Lock
      <3> QED
        BY <2>1, <3>1, IdleIs DEF Active
    <2>4. CASE Lock(c) /\ coll' = [coll EXCEPT ![c].phase = "locked"]
      <3>1. /\ \A e \in Collectors \ {c} : coll'[e] = coll[e]
            /\ coll'[c].facts = coll[c].facts /\ coll'[c].phase = "locked"
            /\ coll'[c].got = coll[c].got /\ coll'[c].rows = coll[c].rows
            /\ coll'[c].run = coll[c].run /\ coll'[c].day = coll[c].day
            /\ UNCHANGED <<world, warehouse>> /\ Active(c)
        BY <1>0, <2>4, LockIs DEF Lock, Active
      <3>2. status'[d].run >= status[d].run /\ closed' = closed /\ Reads(c, d)
        BY <1>1, <1>2, <3>1 DEF warehouse, world
      <3>3. Reads(c, d)'
        BY <1>0, <3>1, <3>2, ReadsKept
      <3> QED
        BY <2>1, <3>1, <3>3
    <2>5. CASE Preflight(c)
      <3>1. /\ \A e \in Collectors \ {c} : coll'[e] = coll[e]
            /\ coll'[c].got = coll[c].got /\ coll'[c].rows = coll[c].rows
            /\ coll'[c].run = coll[c].run /\ coll'[c].day = coll[c].day
            /\ coll'[c].facts = fact /\ coll'[c].phase = "reading"
            /\ UNCHANGED <<world, warehouse>> /\ Active(c)
        BY <1>0, <2>5, PreflightIs DEF Active
      <3>2. Reads(c, d)'
        BY <1>1, <3>1 DEF Reads, Recorded, warehouse, world
      <3> QED
        BY <2>1, <3>1, <3>2
    <2>6. CASE Fetch(c)
      <3>1. /\ \A e \in Collectors \ {c} : coll'[e] = coll[e]
            /\ coll'[c].facts = coll[c].facts /\ coll'[c].rows = coll[c].rows
            /\ coll'[c].run = coll[c].run /\ coll'[c].day = coll[c].day
            /\ coll[c].phase = "reading" /\ coll'[c].phase = "reading"
            /\ UNCHANGED <<world, warehouse>>
            /\ \E f \in Days : \E a \in Answers(f) : coll'[c].got = [coll[c].got EXCEPT ![f] = a]
        BY <1>0, <2>6, FetchIs
      <3>2. PICK f \in Days : \E a \in Answers(f) : coll'[c].got = [coll[c].got EXCEPT ![f] = a]
        BY <3>1
      <3>3. PICK a \in Answers(f) : coll'[c].got = [coll[c].got EXCEPT ![f] = a]
        BY <3>2
      <3>4. /\ coll[c].got \in [Days -> Answer] /\ Active(c) /\ Reads(c, d)
            /\ coll[c].rows = NoFacts /\ coll[c].day \in Nat /\ coll[c].day <= today
        <4>1. coll[c] \in Collector
          BY <1>0 DEF CTypeOK
        <4>2. Active(c) /\ Owned(c)
          BY <1>0, <3>1 DEF Active
        <4> QED
          BY <1>1, <3>1, <4>1, <4>2, RunIs DEF Collector, Owned
      <3>5. ASSUME coll'[c].got[d].verdict = "ok", d < coll[c].day
            PROVE  coll'[c].got[d].tokens >= closed[d]
        <4>1. CASE d = f
          <5>1. coll'[c].got[d] = a
            BY <3>3, <3>4, <4>1
          <5>2. a.tokens = used[d]
            BY <1>0, <3>5, <4>1, <5>1, AnswersAre
          <5>3. closed[d] <= used[d]
            BY <1>1, <1>2, <3>4, <3>5 DEF Recorded
          <5> QED
            BY <1>2, <5>1, <5>2, <5>3
        <4>2. CASE d # f
          BY <3>3, <3>4, <3>5, <4>2 DEF Reads
        <4> QED
          BY <4>1, <4>2
      <3>6. coll'[c].rows[d] = NoRow
        BY <3>1, <3>4 DEF NoFacts
      <3>7. Reads(c, d)'
        BY <3>1, <3>4, <3>5, <3>6 DEF Reads, world, warehouse
      <3> QED
        BY <2>1, <3>1, <3>7
    <2>7. CASE Build(c)
      <3>1. Active(c) /\ coll[c].run \in Runs /\ coll[c].run \in Nat /\ Reads(c, d)
        BY <1>1, <2>7, RunIs DEF Build, Active
      <3>2. /\ \A e \in Collectors \ {c} : coll'[e] = coll[e]
            /\ coll'[c].facts = coll[c].facts /\ coll'[c].got = coll[c].got
            /\ coll'[c].run = coll[c].run /\ coll'[c].day = coll[c].day
            /\ coll'[c].rows = RowsOf(c)
            /\ UNCHANGED <<world, warehouse>>
        BY <1>0, <2>7, <3>1, BuildIs
      <3> DEFINE row == RowsOf(c)[d]  seen == coll[c].got[d]
      <3>3. /\ row # NoRow => /\ row.at = coll[c].run /\ row.tokens >= seen.tokens
                              /\ seen.verdict \in {"ok", "mismatch"}
            /\ row = NoRow /\ seen.verdict = "ok" =>
                 coll[c].facts[d] # NoRow /\ coll[c].facts[d].at >= coll[c].run
        BY <1>0, <3>1, RowsOfIs
      <3>4. coll[c].facts[d] # NoRow => coll[c].facts[d].at \in Nat
        <4>1. coll[c].facts[d] \in Rows
          BY <1>0 DEF CTypeOK, Collector
        <4> QED
          BY <4>1, RowParts DEF Rows
      <3>5. row = NoRow /\ seen.verdict = "ok" => status[d].run >= coll[c].run
        BY <1>2, <3>1, <3>3, <3>4 DEF Reads
      <3>6. coll'[c].rows[d] = row /\ coll'[c].got[d] = seen
        BY <3>2
      <3> HIDE DEF row, seen
      <3>7. Reads(c, d)'
        BY <3>1, <3>2, <3>3, <3>5, <3>6 DEF Reads, world, warehouse, seen
      <3> QED
        BY <2>1, <3>2, <3>7
    <2>8. CASE Fail(c)
      <3>1. /\ \A e \in Collectors \ {c} : coll'[e] = coll[e]
            /\ coll[c].phase = "reading"
            /\ coll'[c].facts = coll[c].facts /\ coll'[c].rows = coll[c].rows
            /\ coll'[c].got = Unasked
            /\ UNCHANGED <<world, warehouse>>
        BY <1>0, <2>8, FailIs
      <3>2. coll'[c].rows[d] = NoRow /\ Unasked[d].verdict = "none"
        BY <1>0, <3>1 DEF Unasked, Owned, NoFacts
      <3>3. Reads(c, d)
        BY <1>1, <3>1 DEF Active
      <3>4. Reads(c, d)'
        BY <3>1, <3>2, <3>3 DEF Reads, warehouse, world
      <3> QED
        BY <2>1, <3>1, <3>4
    <2>9. CASE Sends(c)
      <3>1. /\ UNCHANGED world /\ Active(c)
            /\ \A e \in Collectors \ {c} : coll'[e] = coll[e]
            /\ coll'[c] = Idle \/ Keeps(c)
            /\ UNCHANGED warehouse \/ (coll[c].phase = "publishing" /\ Applies(c))
        BY <1>0, <2>9, SendsIs, RunIs
      <3>2. coll[c].run \in Runs /\ coll[c].run \in Nat /\ Reads(c, d)
        BY <1>1, <3>1, RunIs
      <3>3. status'[d].run >= status[d].run
        BY <1>0, <1>2, <3>1, <3>2, NewerStatusIs DEF warehouse, Applies
      <3>4. ASSUME NEW e \in Collectors, Active(e)' PROVE Reads(e, d)'
        <4>1. Active(e)
          BY <3>1, <3>4, IdleIs DEF Active
        <4>2. /\ coll'[e].run = coll[e].run /\ coll'[e].day = coll[e].day
              /\ coll'[e].facts = coll[e].facts /\ coll'[e].got = coll[e].got
              /\ coll'[e].rows = coll[e].rows /\ coll'[e].phase = coll[e].phase
          BY <3>1, <3>4, IdleIs DEF Active, Keeps
        <4>3. closed' = closed
          BY <3>1 DEF world
        <4> QED
          BY <1>0, <1>1, <3>3, <4>1, <4>2, <4>3, ReadsKept
      <3>5. Recorded(d)'
        <4>1. CASE UNCHANGED warehouse
          BY <1>1, <3>1, <4>1, RecordedKept
        <4>2. CASE coll[c].phase = "publishing" /\ Applies(c)
          <5> DEFINE row == coll[c].rows[d]
                     m == Merged(fact[d], row)
                     s == NewerStatus(c, d)
          <5>1. fact'[d] = m /\ status'[d] = s
            BY <4>2 DEF Applies
          <5>2. /\ row \in Rows /\ (row # NoRow => row.tokens \in Nat)
                /\ coll[c].day \in Nat /\ coll[c].day <= today
                /\ coll[c].got[d].tokens \in Nat
            <6>1. row \in Rows /\ coll[c].got[d] \in Answer
              BY <1>0 DEF CTypeOK, Collector
            <6> QED
              BY <1>0, <3>1, <6>1, RunIs, RowParts DEF Rows, Answer, Owned
          <5>3. /\ m \in Rows /\ Tokens(m) >= Tokens(fact[d])
                /\ row = NoRow => m = fact[d]
                /\ row # NoRow => \/ m.at = row.at /\ Tokens(m) >= row.tokens
                                  \/ m = fact[d] /\ fact[d] # NoRow /\ fact[d].at >= row.at
            BY <1>2, <5>2, MergedIs
          <5>4. /\ s \in Status /\ s.run >= status[d].run
                /\ d \in Asked(c) => s.run >= coll[c].run
                /\ \/ s = status[d]
                   \/ /\ d \in Asked(c) /\ coll[c].run > status[d].run
                      /\ s.state = NewState(c, d)
            BY <1>0, <3>2, NewerStatusIs
          <5>5. s.run \in Nat /\ Tokens(m) \in Nat
            <6>1. s.run \in Runs \cup {0}
              BY <5>4 DEF Status
            <6> QED
              BY <5>3, <6>1, RunNumbers, TokensType
          <5>6. row # NoRow => row.at = coll[c].run /\ d \in Asked(c)
            BY <3>2 DEF Reads, Asked, With, Verdict
          <5> HIDE DEF row, m, s
          <5>7. m # NoRow => m.at <= s.run
            <6>1. CASE m = fact[d]
              BY <1>1, <1>2, <5>4, <5>5, <6>1 DEF Recorded
            <6>2. CASE row # NoRow /\ m.at = row.at
              BY <3>2, <5>4, <5>5, <5>6, <6>2
            <6> QED
              BY <5>3, <6>1, <6>2
          <5>8. s.state = "complete" => d < today /\ Tokens(m) >= closed[d]
            <6>1. CASE s = status[d]
              BY <1>1, <1>2, <5>3, <5>5, <6>1 DEF Recorded
            <6>2. CASE coll[c].run > status[d].run /\ s.state = NewState(c, d)
              <7> SUFFICES ASSUME s.state = "complete"
                           PROVE  d < today /\ Tokens(m) >= closed[d]
                OBVIOUS
              <7>1. coll[c].got[d].verdict = "ok" /\ ~(d >= coll[c].day)
                BY <6>2 DEF NewState
              <7>2. d < coll[c].day /\ d < today
                BY <1>2, <5>2, <7>1
              <7>3. coll[c].got[d].tokens >= closed[d]
                BY <3>2, <7>1, <7>2 DEF Reads
              <7>4. ~(status[d].run >= coll[c].run)
                BY <1>2, <3>2, <6>2
              <7>5. row # NoRow /\ row.tokens >= coll[c].got[d].tokens
                BY <3>2, <4>2, <7>1, <7>4 DEF Reads, row
              <7>6. ~(fact[d] # NoRow /\ fact[d].at >= row.at)
                BY <1>1, <1>2, <3>2, <5>6, <6>2, <7>5 DEF Recorded
              <7>7. Tokens(m) >= row.tokens
                BY <5>3, <7>5, <7>6
              <7> QED
                BY <1>2, <5>2, <5>5, <7>2, <7>3, <7>5, <7>7
            <6> QED
              BY <5>4, <6>1, <6>2
          <5> QED
            BY <1>1, <3>1, <5>1, <5>7, <5>8 DEF Recorded, world
        <4> QED
          BY <3>1, <4>1, <4>2
      <3> QED
        BY <3>4, <3>5
    <2> QED
      BY <1>4, <2>2, <2>3, <2>4, <2>5, <2>6, <2>7, <2>8, <2>9 DEF Step, Sends, Lock
  <1> QED
    BY <1>3, <1>4 DEF CNext
\* The issue of the run that finished last is open or not, whatever place a run without
\* issues takes.
LEMMA OpenKept ==
  ASSUME NEW r, issue' = issue, issue[r] = "none",
         \A q \in Runs \ {r} : finished'[q] = finished[q]
  PROVE  Open' = Open
  <1> DEFINE rows == {q \in Runs : issue[q] # "none"}
  <1>1. r \notin rows /\ \A q \in rows : q \in Runs \ {r}
    OBVIOUS
  <1>2. \A q \in rows : finished'[q] = finished[q]
    BY <1>1
  <1>3. Open <=> \E q \in rows : issue[q] = "found" /\ \A p \in rows : finished[p] <= finished[q]
    BY DEF Open
  <1>4. Open' <=> \E q \in rows : issue[q] = "found" /\ \A p \in rows : finished'[p] <= finished'[q]
    BY DEF Open
  <1> HIDE DEF rows
  <1>5. Open' <=> Open
    BY <1>2, <1>3, <1>4
  <1>6. Open' \in BOOLEAN /\ Open \in BOOLEAN
    BY DEF Open
  <1> QED
    BY <1>5, <1>6

\* The issues of the history are open or not until one is published or a place is taken.
LEMMA OpenSame ==
  ASSUME issue' = issue, finished' = finished
  PROVE  Open' = Open
  BY DEF Open

\* What a run says stays so.
LEMMA SaysKept ==
  ASSUME NEW c \in Collectors, SaysFound(c), coll'[c].got = coll[c].got,
         coll'[c].prior = coll[c].prior, coll'[c].says = coll[c].says,
         coll'[c].run = coll[c].run, finished' = finished
  PROVE  SaysFound(c)'
  BY DEF SaysFound, Inconsistent, With

\* Where runs exclude one another, the days in doubt are known to be, and an issue is open.
LEMMA DoubtStep ==
  ASSUME OwnInv, DoubtInv, CNext
  PROVE  DoubtInv'
  <1>0. CTypeOK /\ CTypeOK' /\ RecordedInv /\ \A e \in Collectors : Owned(e)
    BY OwnStep DEF OwnInv
  <1>1. backend' = backend
    <2>1. CASE Midnight \/ \E d \in Days : Use(d)
      BY <1>0, <2>1, WorldIs, SMTT(30)
    <2>2. ASSUME NEW c \in Collectors, Step(c) PROVE backend' = backend
      BY <2>2 DEF Step, Start, Lock, Preflight, Fetch, Build, Fail, Publish, PublishUnheard,
                  PublishFails, Abort, world
    <2> QED
      BY <2>1, <2>2 DEF CNext
  <1> SUFFICES ASSUME backend = "duckdb", ~Refreshes
               PROVE  /\ \A e \in Collectors : Holds(e)'
                      /\ \A d \in doubted' : InDoubt(status'[d])
                      /\ doubted' # {} => Open'
    BY <1>1 DEF DoubtInv
  <1>2. /\ \A e \in Collectors : Holds(e)
        /\ \A d \in doubted : InDoubt(status[d])
        /\ doubted # {} => Open
    BY DEF DoubtInv
  \* A step of one collector that leaves the warehouse, and whether an issue is open, alone.
  <1>3. ASSUME NEW c \in Collectors, UNCHANGED warehouse, Open' = Open,
               \A e \in Collectors \ {c} : coll'[e] = coll[e],
               \A e \in Collectors \ {c} : finished' = finished \/ ~Holding(e),
               Holding(c)' => Holding(c) \/ \A e \in Collectors : ~Holding(e),
               coll'[c].range = {},
               /\ coll'[c].phase \in {"reading", "publishing"} /\ applied[coll'[c].run] = 0 =>
                    coll'[c].prior = status /\ coll'[c].open = Open
               /\ coll'[c].phase = "reading" =>
                    \A d \in Days : InDoubt(coll'[c].prior[d]) =>
                                      d \in coll'[c].plan \cup Asked(c)'
               /\ coll'[c].phase = "publishing" => SaysFound(c)'
        PROVE  /\ \A e \in Collectors : Holds(e)'
               /\ \A d \in doubted' : InDoubt(status'[d])
               /\ doubted' # {} => Open'
    <2>1. \A e, f \in Collectors : Holding(e)' /\ Holding(f)' => e = f
      <3>1. \A e \in Collectors \ {c} : Holding(e)' <=> Holding(e)
        BY <1>3 DEF Holding
      <3>2. \A e, f \in Collectors : Holding(e) /\ Holding(f) => e = f
        BY <1>2 DEF Holds
      <3> QED
        BY <1>3, <3>1, <3>2
    <2>2. ASSUME NEW e \in Collectors PROVE Holds(e)'
      <3>1. CASE e = c
        <4>1. status' = status /\ applied' = applied
          BY <1>3 DEF warehouse
        <4>2. \A f \in Collectors : Holding(c)' /\ Holding(f)' => f = c
          BY <2>1
        <4>3. Holds(c)'
          BY <1>3, <4>1, <4>2 DEF Holds
        <4> QED
          BY <3>1, <4>3
      <3>2. CASE e # c
        <4>1. coll'[e] = coll[e] /\ Holds(e)
          BY <1>2, <1>3, <3>2
        <4>2. Asked(e)' = Asked(e)
          BY <4>1 DEF Asked, With
        <4>3. coll[e].phase = "publishing" => SaysFound(e)'
          <5>1. coll[e].phase = "publishing" => Holding(e) /\ SaysFound(e)
            BY <4>1 DEF Holds, Holding
          <5> QED
            BY <1>3, <3>2, <4>1, <5>1, SaysKept
        <4>4. status' = status /\ applied' = applied
          BY <1>3 DEF warehouse
        <4>5. \A f \in Collectors : Holding(e)' /\ Holding(f)' => f = e
          BY <2>1
        <4> QED
          BY <1>3, <4>1, <4>2, <4>3, <4>4, <4>5 DEF Holds
      <3> QED
        BY <3>1, <3>2
    <2> QED
      BY <1>2, <1>3, <2>2 DEF warehouse
  <1>5. CASE Midnight \/ \E d \in Days : Use(d)
    <2>1. UNCHANGED <<warehouse, finished, coll>>
      BY <1>0, <1>5, WorldIs
    <2>2. Open' = Open
      BY <2>1, OpenSame DEF warehouse
    <2>3. ASSUME NEW e \in Collectors PROVE Holds(e)'
      <3>1. Holds(e) /\ UNCHANGED <<coll, status, applied, finished>>
        BY <1>2, <2>1 DEF warehouse
      <3>2. Asked(e)' = Asked(e) /\ (SaysFound(e) => SaysFound(e)')
        BY <3>1, SaysKept DEF Asked, With
      <3> QED
        BY <2>2, <3>1, <3>2 DEF Holds, Holding
    <2> QED
      BY <1>2, <2>1, <2>2, <2>3 DEF warehouse
  <1>6. ASSUME NEW c \in Collectors, Step(c)
        PROVE  /\ \A e \in Collectors : Holds(e)'
               /\ \A d \in doubted' : InDoubt(status'[d])
               /\ doubted' # {} => Open'
    <2>1. CASE Start(c)
      <3>1. /\ \A e \in Collectors \ {c} : coll'[e] = coll[e]
            /\ coll'[c].phase = "started" /\ coll'[c].range = {}
            /\ UNCHANGED <<warehouse, finished>>
        BY <1>0, <2>1, StartIs
      <3>2. ~Holding(c)'
        BY <3>1 DEF Holding
      <3>3. Open' = Open
        BY <3>1, OpenSame DEF warehouse
      <3> QED
        BY <1>3, <3>1, <3>2, <3>3
    <2>2. CASE Lock(c) /\ Stops(c)
      <3>1. /\ \A e \in Collectors \ {c} : coll'[e] = coll[e]
            /\ coll'[c] = Idle
            /\ UNCHANGED <<warehouse, finished>>
        BY <1>0, <2>2, StopsIs DEF Lock
      <3>2. ~Holding(c)' /\ coll'[c].phase = "idle" /\ coll'[c].range = {}
        BY <3>1, IdleIs DEF Holding
      <3>3. Open' = Open
        BY <3>1, OpenSame DEF warehouse
      <3> QED
        BY <1>3, <3>1, <3>2, <3>3
    <2>3. CASE Lock(c) /\ ~Stops(c)
      <3>1. /\ coll' = [coll EXCEPT ![c].phase = "locked"]
            /\ \A e \in Collectors : ~Holding(e)
            /\ UNCHANGED <<warehouse, finished>>
        BY <2>3 DEF Lock
      <3>2. /\ \A e \in Collectors \ {c} : coll'[e] = coll[e]
            /\ coll'[c].phase = "locked" /\ coll'[c].range = coll[c].range
        BY <1>0, <3>1, LockIs
      <3>3. Open' = Open
        BY <3>1, OpenSame DEF warehouse
      <3>4. coll[c].range = {}
        BY <1>2 DEF Holds
      <3> QED
        BY <1>3, <3>1, <3>2, <3>3, <3>4
    <2>4. CASE Preflight(c)
      <3>1. /\ coll[c].phase = "locked" /\ coll'[c].phase = "reading"
            /\ \A e \in Collectors \ {c} : coll'[e] = coll[e]
            /\ coll'[c].range = coll[c].range
            /\ coll'[c].prior = status /\ coll'[c].open = Open
            /\ coll'[c].plan = Plan(c)
            /\ UNCHANGED <<warehouse, finished>>
        BY <1>0, <2>4, PreflightIs
      <3>2. Open' = Open
        BY <3>1, OpenSame DEF warehouse
      <3>3. coll[c].range = {} /\ Holding(c)
        BY <1>2, <3>1 DEF Holds, Holding
      <3>4. \A d \in Days : InDoubt(coll'[c].prior[d]) => d \in coll'[c].plan
        BY <1>0, <3>1, <3>3, PlanIs
      <3> QED
        BY <1>3, <3>1, <3>2, <3>3, <3>4
    <2>5. CASE Fetch(c)
      <3>1. /\ coll[c].phase = "reading" /\ coll'[c].phase = "reading"
            /\ \A e \in Collectors \ {c} : coll'[e] = coll[e]
            /\ coll'[c].range = coll[c].range /\ coll'[c].run = coll[c].run
            /\ coll'[c].prior = coll[c].prior /\ coll'[c].open = coll[c].open
            /\ UNCHANGED <<warehouse, finished>>
            /\ \E d \in Days : \E a \in Answers(d) :
                 /\ coll'[c].plan = coll[c].plan \ {d}
                 /\ coll'[c].got = [coll[c].got EXCEPT ![d] = a]
        BY <1>0, <2>5, FetchIs
      <3>2. Open' = Open
        BY <3>1, OpenSame DEF warehouse
      <3>3. Holding(c) /\ Holds(c)
        BY <1>2, <3>1 DEF Holding
      <3>4. PICK f \in Days : \E a \in Answers(f) :
              /\ coll'[c].plan = coll[c].plan \ {f}
              /\ coll'[c].got = [coll[c].got EXCEPT ![f] = a]
        BY <3>1
      <3>5. PICK a \in Answers(f) :
              /\ coll'[c].plan = coll[c].plan \ {f}
              /\ coll'[c].got = [coll[c].got EXCEPT ![f] = a]
        BY <3>4
      <3>6. a.verdict \in Verdict \ {"none"} /\ coll[c].got \in [Days -> Answer]
        BY <1>0, <3>5, AnswersAre DEF Answer, CTypeOK, Collector
      <3>7. \A d \in Asked(c) \cup {f} : d \in Asked(c)'
        BY <3>5, <3>6 DEF Asked, With
      <3>8. \A d \in Days : InDoubt(coll'[c].prior[d]) => d \in coll'[c].plan \cup Asked(c)'
        BY <3>1, <3>3, <3>5, <3>7 DEF Holds
      <3> QED
        BY <1>3, <3>1, <3>2, <3>3, <3>8 DEF Holds
    <2>6. CASE Build(c)
      <3>1. /\ Active(c) /\ coll[c].run \in Runs /\ Holding(c) /\ Holds(c)
            /\ applied[coll[c].run] = 0
        BY <1>0, <1>2, <2>6, RunIs DEF Build, Active, Holding, Owned
      <3>2. /\ coll[c].phase = "reading" /\ coll'[c].phase = "publishing"
            /\ coll[c].plan = {}
            /\ \A e \in Collectors \ {c} : coll'[e] = coll[e]
            /\ coll'[c].run = coll[c].run /\ coll'[c].got = coll[c].got
            /\ coll'[c].range = coll[c].range /\ coll'[c].prior = coll[c].prior
            /\ coll'[c].open = coll[c].open /\ coll'[c].says = Says(c)
            /\ \A q \in Runs \ {coll[c].run} :
                 finished'[q] = finished[q] /\ finished'[q] < finished'[coll[c].run]
            /\ UNCHANGED warehouse
        BY <1>0, <2>6, <3>1, BuildIs
      <3>3. issue[coll[c].run] = "none"
        BY <1>0, <3>1 DEF RecordedInv, CTypeOK
      <3>4. Open' = Open
        BY <3>2, <3>3, OpenKept DEF warehouse
      <3>5. \A e \in Collectors \ {c} : ~Holding(e)
        BY <3>1 DEF Holds
      <3>6. SaysFound(c)'
        <4>1. Inconsistent(c)' = Inconsistent(c)
          BY <3>2 DEF Inconsistent, With
        <4>2. ASSUME coll'[c].says = "resolved", NEW d \in Days, InDoubt(coll'[c].prior[d])
              PROVE  coll'[c].got[d].verdict = "ok"
          <5>1. d \in Asked(c)
            BY <3>1, <3>2, <4>2 DEF Holds
          <5>2. Inconsistent(c) = {} /\ With(c, {"failed"}) = {}
            BY <3>2, <4>2, SaysIs
          <5>3. coll[c].got[d].verdict \in Verdict \ {"none"}
            BY <5>1 DEF Asked, With
          <5>4. coll[c].got[d].verdict \notin {"mismatch", "duplicate", "failed"}
            BY <5>2 DEF Inconsistent, With
          <5> QED
            BY <3>2, <5>3, <5>4 DEF Verdict
        <4> QED
          BY <3>2, <4>1, <4>2, SaysIs DEF SaysFound
      <3> QED
        BY <1>3, <3>1, <3>2, <3>4, <3>5, <3>6 DEF Holds
    <2>7. CASE Fail(c)
      <3>1. /\ coll[c].phase = "reading" /\ coll'[c].phase = "publishing"
            /\ \A e \in Collectors \ {c} : coll'[e] = coll[e]
            /\ coll'[c].run = coll[c].run
            /\ coll'[c].range = coll[c].range /\ coll'[c].prior = coll[c].prior
            /\ coll'[c].open = coll[c].open
            /\ coll'[c].got = Unasked /\ coll'[c].says = coll[c].says
            /\ UNCHANGED <<warehouse, finished>>
        BY <1>0, <2>7, FailIs
      <3>2. Holding(c) /\ Holds(c) /\ coll[c].says = "none"
        BY <1>0, <1>2, <3>1 DEF Holding, Owned
      <3>3. Open' = Open
        BY <3>1, OpenSame DEF warehouse
      <3>4. SaysFound(c)'
        <4>1. Inconsistent(c)' = {}
          BY <3>1 DEF Inconsistent, With, Unasked
        <4> QED
          BY <3>1, <3>2, <4>1 DEF SaysFound
      <3> QED
        BY <1>3, <3>1, <3>2, <3>3, <3>4 DEF Holds
    <2>8. CASE Sends(c)
      <3>1. /\ UNCHANGED finished /\ Active(c)
            /\ \A e \in Collectors \ {c} : coll'[e] = coll[e]
            /\ coll'[c] = Idle \/ Keeps(c)
            /\ UNCHANGED warehouse \/ (coll[c].phase = "publishing" /\ Applies(c))
        BY <1>0, <2>8, SendsIs, RunIs
      <3>2. Holds(c)
        BY <1>2
      <3>3. CASE UNCHANGED warehouse
        <4>1. Open' = Open
          BY <3>1, <3>3, OpenSame DEF warehouse
        <4>2. CASE coll'[c] = Idle
          <5>1. ~Holding(c)' /\ coll'[c].phase = "idle" /\ coll'[c].range = {}
            BY <4>2, IdleIs DEF Holding
          <5> QED
            BY <1>3, <3>1, <3>3, <4>1, <5>1
        <4>3. CASE Keeps(c)
          <5>1. Asked(c)' = Asked(c)
            BY <4>3 DEF Asked, With, Keeps
          <5>2. Holding(c)' <=> Holding(c)
            BY <4>3 DEF Holding, Keeps
          <5>3. coll'[c].phase = "publishing" => SaysFound(c)'
            BY <3>1, <3>2, <4>3, SaysKept DEF Keeps, Holds
          <5> QED
            BY <1>3, <3>1, <3>2, <3>3, <4>1, <4>3, <5>1, <5>2, <5>3 DEF Holds, Keeps
        <4> QED
          BY <3>1, <4>2, <4>3
      <3>4. CASE coll[c].phase = "publishing" /\ Applies(c)
        <4> DEFINE r == coll[c].run
        <4>1. /\ r \in Runs /\ Holding(c) /\ SaysFound(c)
              /\ applied[r] = 0 /\ issue[r] = "none" /\ coll[c].prior = status
          <5>1. r \in Runs
            BY <3>1, RunIs
          <5>2. applied[r] = 0
            BY <3>4 DEF Applies
          <5> QED
            BY <1>0, <3>2, <3>4, <5>1, <5>2 DEF Holds, Holding, RecordedInv
        <4>2. /\ applied' = [applied EXCEPT ![r] = 1]
              /\ issue' = [issue EXCEPT ![r] = coll[c].says]
              /\ \A d \in Days : status'[d] = NewerStatus(c, d)
              /\ doubted' = Doubted(c)
          BY <3>4 DEF Applies
        <4>3. \A e \in Collectors \ {c} : ~Holding(e) /\ ~Holding(e)'
          BY <3>1, <4>1, <3>2 DEF Holds, Holding
        <4>4. ASSUME NEW e \in Collectors PROVE Holds(e)'
          <5>1. CASE e # c
            <6>1. coll'[e] = coll[e] /\ coll[e].range = {}
              BY <1>2, <3>1, <5>1 DEF Holds
            <6>2. ~Holding(e)'
              BY <4>3, <5>1
            <6> QED
              BY <6>1, <6>2 DEF Holds, Holding
          <5>2. CASE e = c /\ coll'[c] = Idle
            <6>1. ~Holding(c)' /\ coll'[c].phase = "idle" /\ coll'[c].range = {}
              BY <5>2, IdleIs DEF Holding
            <6> QED
              BY <5>2, <6>1 DEF Holds
          <5>3. CASE e = c /\ Keeps(c)
            <6>1. \A f \in Collectors : Holding(f)' => f = c
              BY <4>3
            <6>2. coll'[c].phase = "publishing" /\ coll'[c].range = {} /\ coll'[c].run = r
              BY <3>2, <3>4, <5>3 DEF Keeps, Holds
            <6>3. applied'[r] = 1
              BY <1>0, <4>1, <4>2 DEF CTypeOK
            <6>4. SaysFound(c)'
              BY <3>1, <4>1, <5>3, SaysKept DEF Keeps
            <6> QED
              BY <5>3, <6>1, <6>2, <6>3, <6>4 DEF Holds
          <5> QED
            BY <3>1, <5>1, <5>2, <5>3
        <4>5. ASSUME NEW d \in doubted' PROVE InDoubt(status'[d])
          <5>1. d \in Days /\ d \in (doubted \ With(c, {"ok"}))
                               \cup {e \in Inconsistent(c) : r > status[e].run}
            BY <1>0, <4>2, <4>5 DEF Doubted, CTypeOK
          <5>2. status'[d] = NewerStatus(c, d)
            BY <4>2, <5>1
          <5>3. CASE d \in Asked(c) /\ r > status[d].run
            <6>1. status'[d].state = NewState(c, d)
              BY <5>2, <5>3 DEF NewerStatus
            <6>2. coll[c].got[d].verdict # "ok"
              BY <5>1 DEF With, Inconsistent
            <6> QED
              BY <6>1, <6>2 DEF NewState, InDoubt
          <5>4. CASE ~(d \in Asked(c) /\ r > status[d].run)
            <6>1. d \in doubted
              BY <5>1, <5>4 DEF Inconsistent, Asked, With, Verdict
            <6> QED
              BY <1>2, <5>2, <5>4, <6>1 DEF NewerStatus
          <5> QED
            BY <5>3, <5>4
        <4>6. ASSUME doubted' # {} PROVE Open'
          <5>1. issue \in [Runs -> Saying] /\ coll[c].says \in Saying /\ finished \in [Runs -> Nat]
            BY <1>0 DEF CTypeOK, Collector
          <5>2. CASE coll[c].says = "found"
            <6>1. issue'[r] = "found"
              BY <4>1, <4>2, <5>1, <5>2
            <6>2. \A q \in Runs : finished'[q] <= finished'[r]
              BY <3>1, <4>1, <5>1, <5>2 DEF SaysFound
            <6> QED
              BY <4>1, <6>1, <6>2 DEF Open
          <5>3. CASE coll[c].says # "found"
            <6>1. Inconsistent(c) = {}
              BY <4>1, <5>3 DEF SaysFound
            <6>2. PICK d \in doubted : d \notin With(c, {"ok"})
              BY <4>2, <4>6, <6>1 DEF Doubted
            <6>3. coll[c].says # "resolved"
              BY <1>0, <1>2, <4>1, <6>2 DEF SaysFound, With, CTypeOK
            <6>4. issue' = issue
              BY <4>1, <4>2, <5>1, <5>3, <6>3 DEF Saying
            <6> QED
              BY <1>2, <3>1, <6>2, <6>4, OpenSame
          <5> QED
            BY <5>2, <5>3
        <4> QED
          BY <4>4, <4>5, <4>6
      <3> QED
        BY <3>1, <3>3, <3>4
    <2> QED
      BY <1>6, <2>1, <2>2, <2>3, <2>4, <2>5, <2>6, <2>7, <2>8 DEF Step, Sends
  <1> QED
    BY <1>5, <1>6 DEF CNext
-----------------------------------------------------------------------------
(* What is recorded stands.                                                *)

\* The invariant holds of an empty warehouse.
LEMMA InitInv == CInit => CollectionInv
  <1> SUFFICES ASSUME CInit PROVE CollectionInv
    OBVIOUS
  <1>1. /\ today = 1 /\ today \in Days /\ backend \in Backends
        /\ used = [d \in Days |-> 0] /\ closed = [d \in Days |-> 0]
        /\ fact = NoFacts /\ status = [d \in Days |-> NoStatus]
        /\ issue = [r \in Runs |-> "none"] /\ finished = [r \in Runs |-> 0]
        /\ applied = [r \in Runs |-> 0] /\ lastRun = 0 /\ faults = 0
        /\ coll = [c \in Collectors |-> Idle] /\ doubted = {}
    BY DaysAre DEF CInit
  <1>2. CTypeOK
    <2>1. faults \in 0 .. MaxFaults
      BY <1>1, CollectionAssumption
    <2>2. NoFacts \in [Days -> Rows]
      BY DEF NoFacts, Rows
    <2>3. status \in [Days -> Status] /\ coll \in [Collectors -> Collector]
      BY <1>1, IdleIs
    <2> QED
      BY <1>1, <2>1, <2>2, <2>3 DEF CTypeOK, Saying
  <1>3. \A c \in Collectors : coll[c] = Idle /\ ~Active(c) /\ ~Holding(c)
    BY <1>1, IdleIs DEF Active, Holding
  <1>4. OwnInv
    BY <1>1, <1>2, <1>3, IdleIs DEF OwnInv, RecordedInv, Owned
  <1>5. \A d \in Days : used[d] = 0 /\ closed[d] = 0 /\ fact[d] = NoRow /\ Tokens(fact[d]) = 0
    BY <1>1 DEF NoFacts, Tokens
  <1>6. UsageInv
    <2>1. ASSUME NEW d \in Days, NEW c \in Collectors PROVE Within(c, d)
      <3>1. coll[c] = Idle /\ Idle.facts[d] = NoRow /\ Idle.rows[d] = NoRow
            /\ Idle.got[d].tokens = 0 /\ Tokens(NoRow) = 0
        BY <1>3, <2>1, IdleIs DEF NoFacts, Unasked, Tokens
      <3> QED
        BY <1>5, <3>1 DEF Within
    <2> QED
      BY <1>5, <2>1 DEF UsageInv
  <1>7. FinalInv
    BY <1>1, <1>3, <1>5 DEF FinalInv, Recorded, NoStatus
  <1>8. DoubtInv
    BY <1>1, <1>3, IdleIs DEF DoubtInv, Holds, Holding
  <1> QED
    BY <1>4, <1>6, <1>7, <1>8 DEF CollectionInv

\* The invariant is about the state alone.
LEMMA UnchangedInv ==
  ASSUME CollectionInv, UNCHANGED cvars
  PROVE  CollectionInv'
  <1>1. UNCHANGED <<backend, today, used, closed, fact, status, issue, applied, doubted,
                    finished, lastRun, coll, faults>>
    BY DEF cvars, world, warehouse
  <1>2. OwnInv'
    BY <1>1 DEF CollectionInv, OwnInv, CTypeOK, RecordedInv, Owned, Active
  <1>3. UsageInv'
    BY <1>1 DEF CollectionInv, UsageInv, Within
  <1>4. FinalInv'
    BY <1>1 DEF CollectionInv, FinalInv, Recorded, Reads, Active
  <1>5. DoubtInv'
    <2>1. Open' = Open
      BY <1>1, OpenSame
    <2>2. \A c \in Collectors : (SaysFound(c) => SaysFound(c)') /\ Asked(c)' = Asked(c)
      BY <1>1, SaysKept DEF Asked, With
    <2>3. ASSUME NEW c \in Collectors, Holds(c) PROVE Holds(c)'
      BY <1>1, <2>1, <2>2, <2>3 DEF Holds, Holding
    <2> QED
      BY <1>1, <2>1, <2>3 DEF CollectionInv, DoubtInv
  <1> QED
    BY <1>2, <1>3, <1>4, <1>5 DEF CollectionInv

\* The inductive invariant of a collection: the ledger (RecordedInv, Owned), usage, closed days
\* and doubt hold together in every state, however runs interleave, fail, repeat and cross midnight.
THEOREM CollectionInvariant == CSpec => []CollectionInv
  <1>1. CollectionInv /\ [CNext]_cvars => CollectionInv'
    <2> SUFFICES ASSUME CollectionInv, CNext PROVE CollectionInv'
      BY UnchangedInv
    <2> QED
      BY OwnStep, UsageStep, FinalStep, DoubtStep DEF CollectionInv
  <1> QED
    BY InitInv, <1>1, PTL DEF CSpec

\* The conclusions that the invariant was made for.
LEMMA CollectionInvImplies == CollectionInv => HistoryStands
  <1> SUFFICES ASSUME CollectionInv PROVE HistoryStands
    OBVIOUS
  <1>1. CTypeOK /\ AppendedOnce
    BY DEF CollectionInv, OwnInv, RecordedInv, AppendedOnce
  <1>2. CompleteIsFinal
    BY DEF CollectionInv, FinalInv, Recorded, CompleteIsFinal
  <1>3. DoubtIsReported
    BY DEF CollectionInv, DoubtInv, DoubtIsReported
  <1> QED
    BY <1>1, <1>2, <1>3 DEF HistoryStands

\* What a warehouse records stands: a complete day is recorded in full, a run is in the ledger
\* once however often its transaction is sent, and on DuckDB doubt is reported.
THEOREM HistoryIsSafe == CSpec => []HistoryStands
  BY CollectionInvariant, CollectionInvImplies, PTL

-----------------------------------------------------------------------------
(* Collection implements the record of usage.                              *)

shown == [d \in Days |-> Tokens(fact[d])]

\* A publication changes what is recorded to no less than before and no more than was used;
\* the other steps do not change it.
LEMMA RecordStep ==
  ASSUME CollectionInv, CollectionInv', [CNext]_cvars
  PROVE  [History!Next]_<<used, shown>>
  <1>0. /\ CTypeOK /\ CTypeOK' /\ OwnInv /\ UsageInv /\ UsageInv'
    BY DEF CollectionInv, OwnInv
  <1>1. /\ used \in [Days -> Nat] /\ used' \in [Days -> Nat]
        /\ \A d \in Days : /\ fact[d] \in Rows /\ fact'[d] \in Rows
                           /\ Tokens(fact[d]) \in Nat /\ Tokens(fact'[d]) \in Nat
    <2>1. /\ fact \in [Days -> Rows] /\ fact' \in [Days -> Rows]
          /\ used \in [Days -> Nat] /\ used' \in [Days -> Nat]
      BY <1>0 DEF CTypeOK
    <2> QED
      BY <2>1, TokensType
  <1>2. fact' = fact => shown' = shown
    BY DEF shown
  <1>3. CASE UNCHANGED cvars
    BY <1>2, <1>3 DEF cvars, world, warehouse
  <1>4. CASE Midnight
    BY <1>2, <1>4 DEF Midnight, warehouse
  <1>5. ASSUME NEW d \in Days, Use(d) PROVE History!Next
    <2>1. used' = [used EXCEPT ![d] = used[d] + 1] /\ fact' = fact
      BY <1>5 DEF Use, warehouse
    <2>2. used'[d] = used[d] + 1 /\ used[d] \in Nat
      BY <1>1, <2>1
    <2>3. History!Use(d)
      <3>1. used' = [used EXCEPT ![d] = used'[d]]
        BY <1>1, <2>1, <2>2
      <3>2. used'[d] \in Nat /\ used'[d] > used[d]
        BY <2>2
      <3>3. UNCHANGED [e \in Days |-> Tokens(fact[e])]
        BY <2>1
      <3> QED
        BY <3>1, <3>2, <3>3 DEF History!Use
    <2> QED
      BY <2>3 DEF History!Next
  <1>6. ASSUME NEW c \in Collectors, Step(c) PROVE [History!Next]_<<used, shown>>
    <2>1. CASE Sends(c)
      <3>1. /\ used' = used
            /\ UNCHANGED warehouse \/ Applies(c)
        BY <1>0, <2>1, SendsIs, RunIs DEF world
      <3>2. CASE UNCHANGED warehouse
        BY <1>2, <3>1, <3>2 DEF warehouse
      <3>3. CASE Applies(c)
        <4>1. \A d \in Days : Tokens(fact[d]) <= Tokens(fact'[d])
          <5> SUFFICES ASSUME NEW d \in Days PROVE Tokens(fact[d]) <= Tokens(fact'[d])
            OBVIOUS
          <5>1. coll[c].rows[d] \in Rows /\ fact'[d] = Merged(fact[d], coll[c].rows[d])
            BY <1>0, <3>3 DEF CTypeOK, Collector, Applies
          <5>2. Tokens(fact'[d]) >= Tokens(fact[d])
            BY <1>1, <5>1, MergedIs
          <5> QED
            BY <1>1, <5>2
        <4>2. \A d \in Days : Tokens(fact'[d]) <= used[d]
          BY <1>0, <3>1 DEF UsageInv
        <4>3. shown' \in [Days -> Nat]
          BY <1>1 DEF shown
        <4>4. \A d \in Days : shown[d] = Tokens(fact[d]) /\ shown'[d] = Tokens(fact'[d])
          BY DEF shown
        <4>5. History!Record
          BY <3>1, <4>1, <4>2, <4>3, <4>4 DEF History!Record, shown
        <4> QED
          BY <4>5 DEF History!Next
      <3> QED
        BY <3>1, <3>2, <3>3
    <2>2. CASE ~Sends(c)
      <3>1. used' = used /\ fact' = fact
        BY <1>6, <2>2 DEF Step, Sends, Start, Lock, Preflight, Fetch, Build, Fail, world, warehouse
      <3> QED
        BY <1>2, <3>1, SMTT(30)
    <2> QED
      BY <2>1, <2>2
  <1> QED
    BY <1>3, <1>4, <1>5, <1>6 DEF CNext

\* The warehouse implements a record of usage: what it shows of a day never falls and never
\* exceeds what was used, although batches overtake one another and are sent again.
THEOREM ImplementsRecord == CSpec => RecordsUsage
  <1>1. CInit => History!Init
    BY DEF CInit, History!Init, NoFacts, Tokens
  <1>2. CollectionInv /\ CollectionInv' /\ [CNext]_cvars => [History!Next]_<<used, shown>>
    BY RecordStep
  <1>3. <<used, shown>> = <<used, [d \in Days |-> Tokens(fact[d])]>>
    BY DEF shown
  <1> QED
    BY CollectionInvariant, <1>1, <1>2, PTL DEF CSpec, RecordsUsage, History!Spec, shown

-----------------------------------------------------------------------------
(* What a clean run leaves behind (SettlesDays).                           *)

\* What is to be recorded of a day when a clean run has published.
Target(c, d) ==
  IF \/ d \in Latest({e \in Days : e < coll[c].day /\ coll[c].asked[e] > 0}, Overlap)
     \/ d = coll[c].day
    THEN coll[c].asked[d] ELSE closed[d]

\* A run knows of every day gone by that it was used at its start, and reads no less.
Saw(c, d) ==
  /\ coll[c].asked[d] <= used[d]
  /\ d < coll[c].day /\ used[d] > 0 => coll[c].asked[d] > 0
  /\ coll[c].got[d].verdict = "ok" => coll[c].got[d].tokens >= coll[c].asked[d]

\* A run that started later has a later clock and found no less usage.
Precedes(c, e) ==
  Active(e) /\ coll[e].run > coll[c].run =>
    coll[e].day >= coll[c].day /\ \A d \in Days : coll[e].asked[d] >= coll[c].asked[d]

\* A day that a later run has read is recorded as it was, or needs another attempt.
Overtaken(c, d) ==
  status[d].run > coll[c].run =>
    /\ status[d].state \in {"complete", "provisional"} => Tokens(fact[d]) >= coll[c].asked[d]
    /\ status[d].state = "provisional" => d >= coll[c].day

\* What a run does not read is recorded already.
Unplanned(c) ==
  /\ coll[c].phase = "publishing" => coll[c].plan = {}
  /\ /\ coll[c].phase \in {"reading", "publishing"} /\ coll[c].range = {}
     /\ coll[c].phase = "publishing" => Asked(c) # {}
     => \A d \in (1 .. coll[c].day) \ (coll[c].plan \cup Asked(c)) : Tokens(fact[d]) >= Target(c, d)

\* The status of a day is that of a run in the ledger.
StatusOfRuns ==
  \A d \in Days : status[d].run # 0 => status[d].state # "none" /\ applied[status[d].run] > 0

Settling(c) ==
  /\ \A d \in Days : Saw(c, d) /\ Overtaken(c, d)
  /\ \A e \in Collectors : Precedes(c, e)
  /\ Unplanned(c)

SettleInv == StatusOfRuns /\ \A c \in Collectors : Active(c) => Settling(c)

\* The values of a collector that is active.
LEMMA ActiveIs ==
  ASSUME OwnInv, NEW c \in Collectors, Active(c)
  PROVE  /\ coll[c].run \in Runs /\ coll[c].run \in Nat /\ coll[c].run > 0
         /\ coll[c].day \in Nat /\ coll[c].day <= today /\ coll[c].day \in Days
         /\ \A d \in Days : coll[c].asked[d] \in Nat
         /\ \A d \in Days : coll[c].got[d] \in Answer /\ coll[c].got[d].tokens \in Nat
  <1>1. Owned(c) /\ CTypeOK /\ coll[c] \in Collector
    BY DEF OwnInv, CTypeOK
  <1>2. coll[c].run \in Runs /\ coll[c].run \in Nat /\ coll[c].run > 0
    <2>1. coll[c].run \in Runs
      BY <1>1 DEF Owned
    <2>2. coll[c].run \in Nat /\ coll[c].run # 0
      BY <2>1, RunsAre
    <2> QED
      BY <2>1, <2>2
  <1>3. /\ \A d \in Days : coll[c].asked[d] \in Nat
        /\ \A d \in Days : coll[c].got[d] \in Answer /\ coll[c].got[d].tokens \in Nat
        /\ coll[c].day \in Days
    BY <1>1 DEF Collector, Answer
  <1> QED
    BY <1>1, <1>2, <1>3, DaysAre DEF Owned

\* The values of a day.
LEMMA DayIs ==
  ASSUME CTypeOK, NEW d \in Days
  PROVE  /\ d \in Nat /\ used[d] \in Nat /\ closed[d] \in Nat /\ today \in Nat
         /\ fact[d] \in Rows /\ Tokens(fact[d]) \in Nat
         /\ status[d] \in Status /\ status[d].run \in Nat /\ status[d].run \in Runs \cup {0}
         /\ status[d].state \in State
         /\ fact[d] # NoRow => fact[d].at \in Nat
  <1>1. /\ used[d] \in Nat /\ closed[d] \in Nat /\ status[d] \in Status /\ fact[d] \in Rows
        /\ today \in Days
    BY DEF CTypeOK
  <1>2. status[d].run \in Runs \cup {0} /\ status[d].state \in State
    BY <1>1 DEF Status
  <1> QED
    BY <1>1, <1>2, RunNumbers, DaysAre, TokensType, RowParts DEF Rows

\* A good answer of the newest run that has read a day is recorded, all of it.
LEMMA RecordedInFull ==
  ASSUME OwnInv, FinalInv, NEW c \in Collectors, coll[c].phase = "publishing", Applies(c),
         NEW d \in Days, coll[c].got[d].verdict = "ok", coll[c].run > status[d].run
  PROVE  Tokens(fact'[d]) >= coll[c].got[d].tokens
  <1>1. CTypeOK /\ Active(c) /\ Recorded(d) /\ Reads(c, d)
    BY DEF OwnInv, FinalInv, Active
  <1>2. /\ coll[c].run \in Nat /\ coll[c].got[d].tokens \in Nat /\ status[d].run \in Nat
        /\ fact[d] \in Rows /\ Tokens(fact[d]) \in Nat
        /\ fact[d] # NoRow => fact[d].at \in Nat
    BY <1>1, ActiveIs, DayIs
  <1> DEFINE row == coll[c].rows[d]
             m == Merged(fact[d], row)
  <1>3. row \in Rows /\ (row # NoRow => row.tokens \in Nat)
    <2>1. row \in Rows
      BY <1>1 DEF CTypeOK, Collector
    <2> QED
      BY <2>1, RowParts DEF Rows
  <1>4. row # NoRow /\ row.tokens >= coll[c].got[d].tokens /\ row.at = coll[c].run
    BY <1>1, <1>2 DEF Reads
  <1>5. ~(fact[d] # NoRow /\ fact[d].at >= row.at)
    BY <1>1, <1>2, <1>4 DEF Recorded
  <1>6. m \in Rows /\ Tokens(m) >= row.tokens
    <2> HIDE DEF row
    <2> QED
      BY <1>2, <1>3, <1>4, <1>5, MergedIs
  <1>7. Tokens(m) \in Nat /\ fact'[d] = m
    BY <1>6, TokensType DEF Applies
  <1> HIDE DEF row, m
  <1> QED
    BY <1>2, <1>3, <1>4, <1>6, <1>7

\* Only a publication changes the warehouse.
LEMMA PublishedOrNot ==
  ASSUME OwnInv, CNext
  PROVE  \/ UNCHANGED warehouse
         \/ \E c \in Collectors : /\ Step(c) /\ Sends(c)
                                  /\ coll[c].phase = "publishing" /\ Applies(c)
  <1>1. CTypeOK
    BY DEF OwnInv
  <1>2. CASE Midnight \/ \E d \in Days : Use(d)
    BY <1>1, <1>2, WorldIs, SMTT(30)
  <1>3. ASSUME NEW c \in Collectors, Step(c), ~Sends(c)
        PROVE  UNCHANGED warehouse
    BY <1>3 DEF Step, Sends, Start, Lock, Preflight, Fetch, Build, Fail
  <1>4. ASSUME NEW c \in Collectors, Step(c), Sends(c)
        PROVE  UNCHANGED warehouse \/ (coll[c].phase = "publishing" /\ Applies(c))
    BY <1>1, <1>4, SendsIs, RunIs DEF OwnInv
  <1> QED
    BY <1>2, <1>3, <1>4 DEF CNext

\* What is recorded of a day does not get less, and its status not older.
LEMMA RecordGrows ==
  ASSUME OwnInv, CNext, NEW d \in Days
  PROVE  /\ Tokens(fact'[d]) \in Nat /\ Tokens(fact'[d]) >= Tokens(fact[d])
         /\ \A r \in Runs : applied[r] > 0 => applied'[r] > 0
         /\ \/ status'[d] = status[d]
            \/ \E c \in Collectors :
                 /\ coll[c].phase = "publishing" /\ Applies(c)
                 /\ d \in Asked(c) /\ coll[c].run > status[d].run
                 /\ status'[d].run = coll[c].run /\ status'[d].state = NewState(c, d)
  <1>1. CTypeOK /\ CTypeOK'
    BY OwnStep DEF OwnInv
  <1>2. Tokens(fact'[d]) \in Nat /\ Tokens(fact[d]) \in Nat /\ fact[d] \in Rows
    <2>1. fact[d] \in Rows /\ fact'[d] \in Rows
      BY <1>1 DEF CTypeOK
    <2> QED
      BY <2>1, TokensType
  <1>3. CASE UNCHANGED warehouse
    BY <1>2, <1>3 DEF warehouse
  <1>4. ASSUME NEW c \in Collectors, coll[c].phase = "publishing", Applies(c)
        PROVE  /\ Tokens(fact'[d]) >= Tokens(fact[d])
               /\ \A r \in Runs : applied[r] > 0 => applied'[r] > 0
               /\ \/ status'[d] = status[d]
                  \/ /\ d \in Asked(c) /\ coll[c].run > status[d].run
                     /\ status'[d].run = coll[c].run /\ status'[d].state = NewState(c, d)
    <2>1. fact'[d] = Merged(fact[d], coll[c].rows[d]) /\ coll[c].rows[d] \in Rows
      BY <1>1, <1>4 DEF Applies, CTypeOK, Collector
    <2>2. Tokens(fact'[d]) >= Tokens(fact[d])
      BY <1>2, <2>1, MergedIs
    <2>3. \A r \in Runs : applied[r] > 0 => applied'[r] > 0
      BY <1>1, <1>4 DEF Applies, CTypeOK
    <2>4. status'[d] = NewerStatus(c, d)
      BY <1>4 DEF Applies
    <2> QED
      BY <2>2, <2>3, <2>4 DEF NewerStatus
  <1> QED
    BY <1>2, <1>3, <1>4, PublishedOrNot

\* A status is written with the run, in one transaction.
LEMMA StatusStep ==
  ASSUME OwnInv, StatusOfRuns, CNext
  PROVE  StatusOfRuns'
  <1> SUFFICES ASSUME NEW d \in Days, status'[d].run # 0
               PROVE  status'[d].state # "none" /\ applied'[status'[d].run] > 0
    BY DEF StatusOfRuns
  <1>1. CTypeOK
    BY DEF OwnInv
  <1>2. CASE status'[d] = status[d]
    <2>1. status[d].run \in Runs
      BY <1>1, <1>2, DayIs
    <2> QED
      BY <1>2, <2>1, RecordGrows DEF StatusOfRuns
  <1>3. ASSUME NEW c \in Collectors, coll[c].phase = "publishing", Applies(c),
               status'[d].run = coll[c].run, status'[d].state = NewState(c, d)
        PROVE  status'[d].state # "none" /\ applied'[status'[d].run] > 0
    <2>1. coll[c].run \in Runs
      BY <1>3, ActiveIs DEF Active
    <2>2. applied'[coll[c].run] = 1
      BY <1>1, <1>3, <2>1 DEF Applies, CTypeOK
    <2>3. NewState(c, d) # "none"
      BY DEF NewState
    <2> QED
      BY <1>3, <2>2, <2>3
  <1> QED
    BY <1>2, <1>3, RecordGrows

\* A collector becomes idle, goes on with its run, or starts one.
GoesOn(c) ==
  /\ Active(c) /\ Active(c)'
  /\ coll'[c].run = coll[c].run /\ coll'[c].day = coll[c].day
  /\ coll'[c].asked = coll[c].asked /\ coll'[c].range = coll[c].range

\* These are the ways of every collector in a step.
LEMMA RunGoesOn ==
  ASSUME OwnInv, CNext, NEW e \in Collectors
  PROVE  ~Active(e)' \/ GoesOn(e) \/ Start(e)
  <1>1. CTypeOK /\ \A c \in Collectors : Active(c) => coll[c].run \in Runs
    BY RunIs DEF OwnInv
  <1>2. CASE coll'[e] = coll[e]
    BY <1>2 DEF GoesOn, Active
  <1>3. CASE Midnight \/ \E d \in Days : Use(d)
    BY <1>1, <1>2, <1>3, WorldIs
  <1>4. ASSUME NEW c \in Collectors, Step(c), coll'[e] # coll[e]
        PROVE  ~Active(e)' \/ GoesOn(e) \/ Start(e)
    <2>1. CASE Start(c)
      BY <1>1, <1>4, <2>1, StartIs
    <2>2. CASE Lock(c) /\ Stops(c)
      BY <1>1, <1>4, <2>2, StopsIs, IdleIs DEF Active
    <2>3. CASE Lock(c) /\ coll' = [coll EXCEPT ![c].phase = "locked"]
      <3>1. coll[c].phase = "started"
        BY <2>3 DEF Lock
      <3> QED
        BY <1>1, <1>4, <2>3, <3>1, LockIs DEF Active, GoesOn
    <2>4. CASE Preflight(c)
      BY <1>1, <1>4, <2>4, PreflightIs DEF Active, GoesOn
    <2>5. CASE Fetch(c)
      BY <1>1, <1>4, <2>5, FetchIs DEF Active, GoesOn
    <2>6. CASE Build(c)
      <3>1. Active(c)
        BY <2>6 DEF Build, Active
      <3> QED
        BY <1>1, <1>4, <2>6, <3>1, BuildIs DEF Active, GoesOn
    <2>7. CASE Fail(c)
      BY <1>1, <1>4, <2>7, FailIs DEF Active, GoesOn
    <2>8. CASE Sends(c)
      BY <1>1, <1>4, <2>8, SendsIs, IdleIs DEF Active, GoesOn, Keeps
    <2> QED
      BY <1>4, <2>1, <2>2, <2>3, <2>4, <2>5, <2>6, <2>7, <2>8 DEF Step, Sends, Lock
  <1> QED
    BY <1>2, <1>3, <1>4 DEF CNext

\* A day gone by is used only if it was, and is closed once.
LEMMA UsedGrows ==
  ASSUME OwnInv, CNext, NEW d \in Days
  PROVE  /\ used'[d] \in Nat /\ used'[d] >= used[d]
         /\ d < today => closed'[d] = closed[d] /\ (used'[d] > 0 => used[d] > 0)
  <1>1. CTypeOK /\ CTypeOK' /\ used'[d] \in Nat /\ used[d] \in Nat /\ today \in Nat /\ d \in Nat
    <2>1. CTypeOK /\ CTypeOK'
      BY OwnStep DEF OwnInv
    <2>2. used'[d] \in Nat
      BY <2>1 DEF CTypeOK
    <2> QED
      BY <2>1, <2>2, DayIs
  <1>2. CASE Midnight
    <2>1. used' = used /\ closed' = [closed EXCEPT ![today] = used[today]]
      BY <1>2 DEF Midnight
    <2>2. d < today => closed'[d] = closed[d]
      BY <1>1, <2>1 DEF CTypeOK
    <2> QED
      BY <1>1, <2>1, <2>2
  <1>3. ASSUME NEW e \in Days, Use(e)
        PROVE  /\ used'[d] >= used[d]
               /\ d < today => closed'[d] = closed[d] /\ (used'[d] > 0 => used[d] > 0)
    <2>1. used' = [used EXCEPT ![e] = used[e] + 1] /\ closed' = closed
      BY <1>3 DEF Use
    <2>2. CASE d = e
      <3>1. d = today \/ d \in {f \in Days : f < today /\ used[f] > 0}
        BY <1>3, <2>2 DEF Use, Latest
      <3> QED
        BY <1>1, <2>1, <2>2, <3>1 DEF CTypeOK
    <2>3. CASE d # e
      BY <1>1, <2>1, <2>3, SMTT(30) DEF CTypeOK
    <2> QED
      BY <2>2, <2>3
  <1>4. ASSUME NEW c \in Collectors, Step(c) PROVE UNCHANGED world
    <2>1. CASE Sends(c)
      BY <1>1, <1>4, <2>1, SendsIs, RunIs
    <2> QED
      BY <1>4, <2>1 DEF Step, Sends, Start, Lock, Preflight, Fetch, Build, Fail
  <1>5. UNCHANGED world => used'[d] = used[d] /\ closed'[d] = closed[d]
    BY DEF world
  <1> QED
    BY <1>1, <1>2, <1>3, <1>4, <1>5 DEF CNext

\* What a run knows of a day stays so, if its answers are about what was used.
LEMMA SawKept ==
  ASSUME OwnInv, CNext, NEW c \in Collectors, NEW d \in Days, GoesOn(c), Saw(c, d),
         coll'[c].got[d].verdict = "ok" => coll'[c].got[d].tokens >= coll[c].asked[d]
  PROVE  Saw(c, d)'
  <1>1. /\ d \in Nat /\ used[d] \in Nat /\ today \in Nat
        /\ coll[c].day \in Nat /\ coll[c].day <= today /\ coll[c].asked[d] \in Nat
    BY ActiveIs, DayIs DEF GoesOn, OwnInv
  <1>2. /\ used'[d] \in Nat /\ used'[d] >= used[d]
        /\ d < today /\ used'[d] > 0 => used[d] > 0
    BY UsedGrows
  <1> QED
    BY <1>1, <1>2 DEF Saw, GoesOn

\* A run that starts later sees no less, later.
LEMMA PrecedesKept ==
  ASSUME OwnInv, CNext, NEW c \in Collectors, NEW e \in Collectors, GoesOn(c),
         \A d \in Days : Saw(c, d), Precedes(c, e)
  PROVE  Precedes(c, e)'
  <1>1. CASE ~Active(e)'
    BY <1>1 DEF Precedes
  <1>2. CASE GoesOn(e)
    BY <1>2 DEF Precedes, GoesOn
  <1>3. CASE Start(e)
    <2>1. CTypeOK
      BY DEF OwnInv
    <2>2. coll'[e].day = today /\ coll'[e].asked = used
      BY <1>3, <2>1, StartIs
    <2>3. today >= coll[c].day
      BY <2>1, ActiveIs, DayIs, DaysAre DEF GoesOn
    <2>4. \A d \in Days : used[d] >= coll[c].asked[d]
      BY <2>1, ActiveIs, DayIs DEF GoesOn, Saw
    <2> QED
      BY <2>2, <2>3, <2>4 DEF Precedes, GoesOn
  <1> QED
    BY <1>1, <1>2, <1>3, RunGoesOn

\* Runs that started later publish what is no less.
LEMMA OvertakenKept ==
  ASSUME OwnInv, FinalInv, SettleInv, CNext, NEW c \in Collectors, GoesOn(c), NEW d \in Days
  PROVE  Overtaken(c, d)'
  <1>1. Active(c) /\ CTypeOK /\ Settling(c) /\ coll'[c].run = coll[c].run
        /\ coll'[c].day = coll[c].day /\ coll'[c].asked = coll[c].asked
    BY DEF GoesOn, SettleInv, OwnInv
  <1>2. /\ d \in Nat /\ coll[c].run \in Nat /\ coll[c].day \in Nat /\ coll[c].asked[d] \in Nat
        /\ status[d].run \in Nat /\ Tokens(fact[d]) \in Nat
    BY <1>1, ActiveIs, DayIs
  <1>3. Tokens(fact'[d]) \in Nat /\ Tokens(fact'[d]) >= Tokens(fact[d])
    BY RecordGrows
  <1>4. CASE status'[d] = status[d]
    BY <1>1, <1>2, <1>3, <1>4 DEF Overtaken, Settling
  <1>5. ASSUME NEW e \in Collectors, coll[e].phase = "publishing", Applies(e),
               d \in Asked(e), coll[e].run > status[d].run,
               status'[d].run = coll[e].run, status'[d].state = NewState(e, d)
        PROVE  Overtaken(c, d)'
    <2> SUFFICES ASSUME coll[e].run > coll[c].run
                 PROVE  /\ status'[d].state \in {"complete", "provisional"} =>
                             Tokens(fact'[d]) >= coll[c].asked[d]
                        /\ status'[d].state = "provisional" => d >= coll[c].day
      BY <1>1, <1>5 DEF Overtaken
    <2>1. Active(e) /\ Settling(e) /\ Precedes(c, e)
      BY <1>1, <1>5 DEF Active, SettleInv, Settling
    <2>2. coll[e].day \in Nat /\ coll[e].asked[d] \in Nat /\ coll[e].got[d].tokens \in Nat
      BY <2>1, ActiveIs
    <2>3. coll[e].day >= coll[c].day /\ coll[e].asked[d] >= coll[c].asked[d]
      BY <2>1 DEF Precedes
    <2>4. ASSUME status'[d].state \in {"complete", "provisional"}
          PROVE  Tokens(fact'[d]) >= coll[c].asked[d]
      <3>1. coll[e].got[d].verdict = "ok"
        BY <1>5, <2>4 DEF NewState
      <3>2. Tokens(fact'[d]) >= coll[e].got[d].tokens
        BY <1>5, <3>1, RecordedInFull
      <3>3. coll[e].got[d].tokens >= coll[e].asked[d]
        BY <2>1, <3>1 DEF Settling, Saw
      <3> QED
        BY <1>2, <1>3, <2>2, <2>3, <3>2, <3>3
    <2>5. ASSUME status'[d].state = "provisional"
          PROVE  d >= coll[c].day
      <3>1. d >= coll[e].day
        BY <1>5, <2>5 DEF NewState
      <3> QED
        BY <1>2, <2>2, <2>3, <3>1
    <2> QED
      BY <2>4, <2>5
  <1> QED
    BY <1>4, <1>5, RecordGrows

\* What is recorded of the days that are not read suffices.
LEMMA UnplannedKept ==
  ASSUME OwnInv, CNext, NEW c \in Collectors, GoesOn(c), Unplanned(c),
         coll[c].phase \in {"reading", "publishing"},
         coll'[c].phase = "publishing" => coll'[c].plan = {},
         coll[c].phase = "publishing" => coll'[c].phase = "publishing" /\ Asked(c)' = Asked(c),
         coll'[c].phase \in {"reading", "publishing"} /\ (coll'[c].phase = "publishing" => Asked(c)' # {}) =>
           coll[c].plan \cup Asked(c) \subseteq coll'[c].plan \cup Asked(c)'
  PROVE  Unplanned(c)'
  <1> SUFFICES ASSUME coll'[c].phase \in {"reading", "publishing"}, coll'[c].range = {},
                      coll'[c].phase = "publishing" => Asked(c)' # {},
                      NEW d \in (1 .. coll'[c].day) \ (coll'[c].plan \cup Asked(c)')
               PROVE  Tokens(fact'[d]) >= Target(c, d)'
    BY DEF Unplanned
  <1>1. Active(c) /\ CTypeOK /\ coll'[c].day = coll[c].day /\ coll'[c].asked = coll[c].asked
        /\ coll[c].range = {}
    BY DEF GoesOn, OwnInv
  <1>2. coll[c].day \in Days /\ coll[c].day \in Nat /\ coll[c].day <= today /\ d \in Days
        /\ d <= coll[c].day
    <2>1. coll[c].day \in Days /\ coll[c].day \in Nat /\ coll[c].day <= today
      BY <1>1, ActiveIs
    <2> QED
      BY <1>1, <2>1, CollectionAssumption DEF Days
  <1>3. d \in (1 .. coll[c].day) \ (coll[c].plan \cup Asked(c))
    BY <1>1
  <1>4. coll[c].phase = "publishing" => Asked(c) # {}
    OBVIOUS
  <1>5. Tokens(fact[d]) >= Target(c, d)
    BY <1>1, <1>3, <1>4 DEF Unplanned
  <1>6. Target(c, d)' = Target(c, d)
    <2>1. d # coll[c].day => closed'[d] = closed[d]
      BY <1>1, <1>2, UsedGrows, DayIs
    <2> QED
      BY <1>1, <2>1 DEF Target
  <1>7. Target(c, d) \in Nat
    BY <1>1, <1>2, ActiveIs, DayIs DEF Target
  <1> QED
    BY <1>1, <1>2, <1>5, <1>6, <1>7, RecordGrows, DayIs

\* When the plan is made, every day left out is recorded, all that was used of it.
LEMMA PlannedInFull ==
  ASSUME OwnInv, FinalInv, CNext, NEW c \in Collectors, Settling(c), Preflight(c)
  PROVE  Unplanned(c)'
  <1>1. /\ CTypeOK /\ coll[c].phase = "locked" /\ coll'[c].phase = "reading" /\ Active(c)
        /\ coll'[c].day = coll[c].day /\ coll'[c].range = coll[c].range
        /\ coll'[c].plan = Plan(c) /\ coll'[c].asked = coll[c].asked
        /\ UNCHANGED <<world, warehouse>>
    BY PreflightIs DEF OwnInv, Active
  <1> SUFFICES ASSUME coll[c].range = {}, NEW d \in 1 .. coll[c].day, d \notin Plan(c)
               PROVE  Tokens(fact[d]) >= Target(c, d)'
    BY <1>1 DEF Unplanned, warehouse
  <1>2. Target(c, d)' = Target(c, d)
    BY <1>1 DEF Target, world
  <1>3. /\ coll[c].day \in Days /\ coll[c].day \in Nat /\ coll[c].day <= today /\ d \in Days
        /\ d <= coll[c].day
    <2>1. coll[c].day \in Days /\ coll[c].day \in Nat /\ coll[c].day <= today
      BY <1>1, ActiveIs
    <2> QED
      BY <2>1, CollectionAssumption DEF Days
  <1>4. /\ used[d] \in Nat /\ closed[d] \in Nat /\ coll[c].asked[d] \in Nat /\ today \in Nat
        /\ Tokens(fact[d]) \in Nat /\ d \in Nat /\ Recorded(d)
    BY <1>1, <1>3, ActiveIs, DayIs DEF FinalInv
  <1>5. coll[c].asked[d] <= used[d] /\ (d < coll[c].day => closed[d] <= used[d])
    BY <1>1, <1>3, <1>4 DEF Settling, Saw, Recorded
  <1> DEFINE graph == {e \in Days : used[e] > 0}
             before == {e \in graph : e < coll[c].day}
             known == {e \in Days : e < coll[c].day /\ coll[c].asked[e] > 0}
  <1>6. before = known
    <2>1. ASSUME NEW e \in Days, e < coll[c].day PROVE used[e] > 0 <=> coll[c].asked[e] > 0
      <3>1. used[e] \in Nat /\ coll[c].asked[e] \in Nat
        BY <1>1, ActiveIs, DayIs
      <3> QED
        BY <2>1, <3>1 DEF Settling, Saw
    <2> QED
      BY <2>1
  <1>7. CASE used[d] = 0
    <2>1. Target(c, d) = 0
      BY <1>3, <1>4, <1>5, <1>7 DEF Target
    <2> QED
      BY <1>2, <1>4, <2>1
  <1>8. CASE used[d] # 0
    <2>1. d \in graph
      BY <1>3, <1>4, <1>8
    <2>2. d < coll[c].day /\ status[d].state = "complete" /\ d \notin Latest(before, Overlap)
      BY <1>3, <1>4, <2>1 DEF Plan
    <2>3. d \notin Latest(known, Overlap)
      BY <1>6, <2>2
    <2>4. Target(c, d) = closed[d]
      BY <1>3, <1>4, <2>2, <2>3 DEF Target
    <2> QED
      BY <1>2, <1>4, <2>2, <2>4 DEF Recorded
  <1> QED
    BY <1>7, <1>8

\* A run that starts is the last, and has seen what was used.
LEMMA StartSettles ==
  ASSUME OwnInv, SettleInv, CNext, NEW c \in Collectors, Start(c)
  PROVE  Settling(c)'
  <1>1. CTypeOK /\ CTypeOK' /\ RecordedInv /\ OwnInv'
    BY OwnStep DEF OwnInv
  <1>2. /\ coll'[c].phase = "started" /\ coll'[c].run = lastRun' /\ coll'[c].day = today
        /\ coll'[c].asked = used /\ coll'[c].got = Unasked
        /\ lastRun' = lastRun + 1 /\ lastRun' \in Runs
        /\ \A e \in Collectors \ {c} : coll'[e] = coll[e]
        /\ UNCHANGED <<world, warehouse>>
    BY <1>1, StartIs
  <1>3. lastRun \in Nat /\ lastRun' \in Nat
    <2>1. lastRun \in Runs \cup {0} /\ lastRun' \in Runs \cup {0}
      BY <1>1 DEF CTypeOK
    <2> QED
      BY <2>1, RunNumbers
  <1>4. ASSUME NEW d \in Days PROVE Saw(c, d)' /\ Overtaken(c, d)'
    <2>1. used'[d] = used[d] /\ used[d] \in Nat /\ status'[d] = status[d]
      BY <1>1, <1>2, DayIs DEF world, warehouse
    <2>2. Unasked[d].verdict = "none"
      BY DEF Unasked
    <2>3. Saw(c, d)'
      BY <1>2, <2>1, <2>2 DEF Saw
    <2>4. ~(status[d].run > lastRun')
      <3>1. /\ status[d].run \in Nat /\ status[d].run \in Runs \cup {0}
            /\ status[d].run # 0 => applied[status[d].run] > 0
        BY <1>1, DayIs DEF SettleInv, StatusOfRuns
      <3> QED
        BY <1>1, <1>2, <1>3, <3>1 DEF RecordedInv
    <2>5. Overtaken(c, d)'
      BY <1>2, <2>1, <2>4 DEF Overtaken
    <2> QED
      BY <2>3, <2>5
  <1>5. ASSUME NEW e \in Collectors PROVE Precedes(c, e)'
    <2>1. CASE e = c
      BY <1>2, <1>3, <2>1 DEF Precedes
    <2>2. CASE e # c /\ Active(e)
      <3>1. coll[e].run \in Nat /\ coll[e].run <= lastRun
        BY <2>2, ActiveIs DEF OwnInv, Owned
      <3> QED
        BY <1>2, <1>3, <2>2, <3>1 DEF Precedes
    <2>3. CASE e # c /\ ~Active(e)
      BY <1>2, <2>3 DEF Precedes, Active
    <2> QED
      BY <2>1, <2>2, <2>3
  <1>6. Unplanned(c)'
    BY <1>2 DEF Unplanned
  <1> QED
    BY <1>4, <1>5, <1>6 DEF Settling

\* The answers of a collector that goes on are its old ones, or one about what is used now.
LEMMA AnswersGrow ==
  ASSUME OwnInv, CNext, NEW c \in Collectors, GoesOn(c), NEW d \in Days, Saw(c, d),
         coll'[c].got[d].verdict = "ok"
  PROVE  coll'[c].got[d].tokens >= coll[c].asked[d]
  <1>1. CTypeOK /\ Active(c) /\ coll[c].got \in [Days -> Answer]
        /\ used[d] \in Nat /\ coll[c].asked[d] \in Nat
    <2>1. CTypeOK /\ Active(c)
      BY DEF OwnInv, GoesOn
    <2>2. coll[c].got \in [Days -> Answer]
      BY <2>1 DEF CTypeOK, Collector
    <2> QED
      BY <2>1, <2>2, ActiveIs, DayIs
  <1>2. CASE coll'[c].got = coll[c].got
    BY <1>2 DEF Saw
  <1>3. CASE coll'[c].got = Unasked
    BY <1>3 DEF Unasked
  <1>4. CASE Fetch(c)
    <2>0. PICK f \in Days : \E a \in Answers(f) : coll'[c].got = [coll[c].got EXCEPT ![f] = a]
      BY <1>1, <1>4, FetchIs
    <2>1. PICK a \in Answers(f) : coll'[c].got = [coll[c].got EXCEPT ![f] = a]
      BY <2>0
    <2>2. CASE d = f
      <3>1. coll'[c].got[d] = a /\ a.verdict = "ok"
        BY <1>1, <2>1, <2>2
      <3>2. a.tokens = used[d]
        BY <1>1, <2>2, <3>1, AnswersAre
      <3> QED
        BY <3>1, <3>2 DEF Saw
    <2>3. CASE d # f
      BY <1>1, <2>1, <2>3 DEF Saw
    <2> QED
      BY <2>2, <2>3
  <1>5. ASSUME NEW e \in Collectors, Step(e), e # c
        PROVE  coll'[c] = coll[c]
    <2>1. CASE Lock(e)
      BY <1>1, <1>5, <2>1, StopsIs, LockIs DEF Lock
    <2>2. CASE Build(e)
      <3>1. Active(e)
        BY <2>2 DEF Build, Active
      <3> QED
        BY <1>1, <1>5, <2>2, <3>1, RunIs, BuildIs
    <2>3. CASE Sends(e)
      BY <1>1, <1>5, <2>3, SendsIs, RunIs
    <2> QED
      BY <1>1, <1>5, <2>1, <2>2, <2>3, StartIs, PreflightIs, FetchIs, FailIs DEF Step, Sends
  <1>6. CASE Step(c)
    <2>1. CASE Start(c)
      BY <1>1, <2>1 DEF Start, Active
    <2>2. CASE Lock(c)
      BY <1>1, <1>2, <1>3, <2>2, StopsIs, LockIs, IdleIs DEF Lock
    <2>3. CASE Preflight(c)
      BY <1>1, <1>2, <2>3, PreflightIs
    <2>4. CASE Build(c)
      BY <1>1, <1>2, <2>4, RunIs, BuildIs
    <2>5. CASE Fail(c)
      BY <1>1, <1>3, <2>5, FailIs
    <2>6. CASE Sends(c)
      BY <1>1, <1>2, <1>3, <2>6, SendsIs, RunIs, IdleIs DEF Keeps
    <2> QED
      BY <1>4, <1>6, <2>1, <2>2, <2>3, <2>4, <2>5, <2>6 DEF Step, Sends
  <1>7. CASE Midnight \/ \E e \in Days : Use(e)
    BY <1>1, <1>2, <1>7, WorldIs
  <1> QED
    BY <1>2, <1>5, <1>6, <1>7 DEF CNext

\* The days that a run left out of its plan stay recorded while it reads and publishes.
LEMMA UnplannedStep ==
  ASSUME OwnInv, FinalInv, SettleInv, CNext, NEW c \in Collectors, GoesOn(c)
  PROVE  Unplanned(c)'
  <1>1. CTypeOK /\ Active(c) /\ Active(c)' /\ Settling(c) /\ Unplanned(c)
    BY DEF OwnInv, GoesOn, SettleInv, Settling
  <1>2. ASSUME coll'[c].phase = coll[c].phase, coll'[c].plan = coll[c].plan,
               coll'[c].got = coll[c].got
        PROVE  Unplanned(c)'
    <2>1. Asked(c)' = Asked(c)
      BY <1>2 DEF Asked, With
    <2>2. CASE coll[c].phase \in {"reading", "publishing"}
      <3>1. coll'[c].phase = "publishing" => coll'[c].plan = {}
        BY <1>1, <1>2 DEF Unplanned
      <3> QED
        BY <1>1, <1>2, <2>1, <2>2, <3>1, UnplannedKept
    <2>3. CASE coll[c].phase \notin {"reading", "publishing"}
      BY <1>2, <2>3 DEF Unplanned
    <2> QED
      BY <2>2, <2>3
  <1>3. CASE coll'[c] = coll[c]
    BY <1>2, <1>3
  <1>4. CASE Midnight \/ \E e \in Days : Use(e)
    BY <1>1, <1>3, <1>4, WorldIs
  <1>5. ASSUME NEW e \in Collectors, Step(e), e # c
        PROVE  coll'[c] = coll[c]
    <2>1. CASE Lock(e)
      BY <1>1, <1>5, <2>1, StopsIs, LockIs DEF Lock
    <2>2. CASE Build(e)
      <3>1. Active(e)
        BY <2>2 DEF Build, Active
      <3> QED
        BY <1>1, <1>5, <2>2, <3>1, RunIs, BuildIs
    <2>3. CASE Sends(e)
      BY <1>1, <1>5, <2>3, SendsIs, RunIs
    <2> QED
      BY <1>1, <1>5, <2>1, <2>2, <2>3, StartIs, PreflightIs, FetchIs, FailIs DEF Step, Sends
  <1>6. CASE Step(c)
    <2>1. CASE Start(c)
      BY <1>1, <2>1 DEF Start, Active
    <2>2. CASE Lock(c)
      <3>1. coll'[c].phase = "locked"
        BY <1>1, <2>2, StopsIs, LockIs, IdleIs DEF Lock, Active
      <3> QED
        BY <3>1 DEF Unplanned
    <2>3. CASE Preflight(c)
      BY <1>1, <2>3, PlannedInFull
    <2>4. CASE Fetch(c)
      <3>0. /\ coll[c].phase = "reading" /\ coll'[c].phase = "reading"
            /\ coll[c].got \in [Days -> Answer]
            /\ \E d \in Days : \E a \in Answers(d) :
                 /\ coll'[c].plan = coll[c].plan \ {d}
                 /\ coll'[c].got = [coll[c].got EXCEPT ![d] = a]
        BY <1>1, <2>4, FetchIs DEF CTypeOK, Collector
      <3>1. PICK d \in Days : \E a \in Answers(d) :
              /\ coll'[c].plan = coll[c].plan \ {d}
              /\ coll'[c].got = [coll[c].got EXCEPT ![d] = a]
        BY <3>0
      <3>2. PICK a \in Answers(d) :
              /\ coll'[c].plan = coll[c].plan \ {d}
              /\ coll'[c].got = [coll[c].got EXCEPT ![d] = a]
        BY <3>1
      <3>3. a \in Answer /\ a.verdict # "none"
        BY <1>1, AnswersAre
      <3>4. coll[c].plan \cup Asked(c) \subseteq coll'[c].plan \cup Asked(c)'
        <4>1. ASSUME NEW e \in Asked(c) PROVE e \in Asked(c)'
          <5>1. CASE e = d
            BY <3>0, <3>2, <3>3, <5>1 DEF Asked, With, Answer
          <5>2. CASE e # d
            BY <3>0, <3>2, <4>1, <5>2 DEF Asked, With
          <5> QED
            BY <5>1, <5>2
        <4>2. d \in Asked(c)'
          BY <3>0, <3>2, <3>3 DEF Asked, With, Answer
        <4> QED
          BY <3>2, <4>1, <4>2
      <3> QED
        BY <1>1, <3>0, <3>4, UnplannedKept
    <2>5. CASE Build(c)
      <3>1. /\ coll[c].phase = "reading" /\ coll'[c].phase = "publishing"
            /\ coll'[c].got = coll[c].got /\ coll[c].plan = {} /\ coll'[c].plan = {}
        BY <1>1, <2>5, RunIs, BuildIs
      <3>2. Asked(c)' = Asked(c)
        BY <3>1 DEF Asked, With
      <3> QED
        BY <1>1, <3>1, <3>2, UnplannedKept
    <2>6. CASE Fail(c)
      <3>1. coll'[c].phase = "publishing" /\ coll'[c].got = Unasked /\ coll'[c].plan = {}
        BY <1>1, <2>6, FailIs
      <3>2. Asked(c)' = {}
        BY <3>1 DEF Asked, With, Unasked
      <3> QED
        BY <3>1, <3>2 DEF Unplanned
    <2>7. CASE Sends(c)
      BY <1>1, <1>2, <2>7, SendsIs, RunIs, IdleIs DEF Keeps, Active
    <2> QED
      BY <1>6, <2>1, <2>2, <2>3, <2>4, <2>5, <2>6, <2>7 DEF Step, Sends
  <1> QED
    BY <1>3, <1>4, <1>5, <1>6 DEF CNext

\* What clean runs rest on holds after every step.
LEMMA SettleStep ==
  ASSUME CollectionInv, SettleInv, CNext
  PROVE  SettleInv'
  <1>1. OwnInv /\ FinalInv
    BY DEF CollectionInv
  <1>2. ASSUME NEW c \in Collectors, GoesOn(c) PROVE Settling(c)'
    <2>1. Settling(c)
      BY <1>2 DEF SettleInv, GoesOn
    <2>2. \A d \in Days : Saw(c, d)'
      BY <1>1, <1>2, <2>1, AnswersGrow, SawKept DEF Settling
    <2>3. \A d \in Days : Overtaken(c, d)'
      BY <1>1, <1>2, OvertakenKept
    <2>4. \A e \in Collectors : Precedes(c, e)'
      BY <1>1, <1>2, <2>1, PrecedesKept DEF Settling
    <2>5. Unplanned(c)'
      BY <1>1, <1>2, UnplannedStep
    <2> QED
      BY <2>2, <2>3, <2>4, <2>5 DEF Settling
  <1>3. \A c \in Collectors : Active(c)' => Settling(c)'
    BY <1>1, <1>2, RunGoesOn, StartSettles
  <1>4. StatusOfRuns'
    BY <1>1, StatusStep DEF SettleInv
  <1> QED
    BY <1>3, <1>4 DEF SettleInv

\* A clean run settles the days: one that it read is recorded, or a later run has recorded it
\* or knows that it did not; one that it left out was recorded before.
LEMMA SettlesStep ==
  ASSUME CollectionInv, SettleInv, CNext
  PROVE  CleanRunSettles
  <1> SUFFICES ASSUME NEW c \in Collectors, coll[c].phase = "publishing",
                      applied'[coll[c].run] > applied[coll[c].run],
                      coll[c].range = {}, Asked(c) # {}, Asked(c) = With(c, {"ok"}),
                      NEW d \in 1 .. coll[c].day
               PROVE  \/ Tokens(fact'[d]) >= Target(c, d)
                      \/ status'[d].state \in {"partial", "failed"}
    BY DEF CleanRunSettles, Target
  <1>1. OwnInv /\ FinalInv /\ CTypeOK /\ Active(c) /\ Settling(c) /\ StatusOfRuns
    BY DEF CollectionInv, OwnInv, Active, SettleInv
  <1>2. /\ coll[c].run \in Runs /\ coll[c].run \in Nat /\ coll[c].run > 0
        /\ coll[c].day \in Nat /\ d \in Days /\ d <= coll[c].day
    <2>1. /\ coll[c].run \in Runs /\ coll[c].run \in Nat /\ coll[c].run > 0
          /\ coll[c].day \in Nat /\ coll[c].day \in Days
      BY <1>1, ActiveIs
    <2> QED
      BY <2>1, CollectionAssumption DEF Days
  <1>3. /\ closed[d] \in Nat /\ coll[c].asked[d] \in Nat /\ coll[c].got[d].tokens \in Nat
        /\ coll[c].got[d] \in Answer
        /\ Tokens(fact[d]) \in Nat /\ d \in Nat /\ Recorded(d) /\ Reads(c, d)
        /\ status[d].run \in Nat /\ status[d].state \in State
    BY <1>1, <1>2, ActiveIs, DayIs DEF FinalInv
  <1>4. Tokens(fact'[d]) \in Nat /\ Tokens(fact'[d]) >= Tokens(fact[d])
    BY <1>1, <1>2, RecordGrows
  <1>5. Applies(c)
    <2>1. PICK e \in Collectors : coll[e].phase = "publishing" /\ Applies(e)
      <3>1. ~UNCHANGED warehouse
        BY <1>1, <1>2 DEF warehouse, CTypeOK
      <3> QED
        BY <1>1, <3>1, PublishedOrNot
    <2>2. coll[e].run = coll[c].run
      BY <1>1, <1>2, <2>1 DEF Applies, CTypeOK
    <2>3. e = c
      BY <1>1, <2>1, <2>2 DEF OwnInv, Owned, Active
    <2> QED
      BY <2>1, <2>3
  <1>6. Target(c, d) \in {coll[c].asked[d], closed[d]}
        /\ (d = coll[c].day => Target(c, d) = coll[c].asked[d])
    BY DEF Target
  <1>7. CASE coll[c].got[d].verdict = "ok" /\ coll[c].run > status[d].run
    <2>1. Tokens(fact'[d]) >= coll[c].got[d].tokens
      BY <1>1, <1>2, <1>5, <1>7, RecordedInFull
    <2>2. coll[c].got[d].tokens >= coll[c].asked[d]
      BY <1>1, <1>2, <1>7 DEF Settling, Saw
    <2>3. d < coll[c].day => coll[c].got[d].tokens >= closed[d]
      BY <1>3, <1>7 DEF Reads
    <2> QED
      BY <1>2, <1>3, <1>4, <1>6, <2>1, <2>2, <2>3
  <1>8. CASE ~(coll[c].run > status[d].run)
    <2>1. applied[coll[c].run] = 0
      BY <1>5 DEF Applies
    <2>2. status[d].run # 0 /\ status[d].run # coll[c].run
      BY <1>1, <1>2, <1>3, <1>8, <2>1 DEF StatusOfRuns
    <2>3. status[d].run > coll[c].run /\ status[d].state # "none"
      BY <1>1, <1>2, <1>3, <1>8, <2>2 DEF StatusOfRuns
    <2>4. status'[d] = status[d]
      BY <1>2, <1>5, <1>8 DEF Applies, NewerStatus
    <2>5. Overtaken(c, d)
      BY <1>1, <1>2 DEF Settling
    <2>6. CASE status[d].state = "complete"
      <3>1. Tokens(fact[d]) >= coll[c].asked[d] /\ Tokens(fact[d]) >= closed[d]
        BY <1>3, <2>3, <2>5, <2>6 DEF Overtaken, Recorded
      <3> QED
        BY <1>3, <1>4, <1>6, <3>1
    <2>7. CASE status[d].state = "provisional"
      <3>1. Tokens(fact[d]) >= coll[c].asked[d] /\ d >= coll[c].day
        BY <2>3, <2>5, <2>7 DEF Overtaken
      <3>2. Target(c, d) = coll[c].asked[d]
        BY <1>2, <1>3, <1>6, <3>1
      <3> QED
        BY <1>3, <1>4, <3>1, <3>2
    <2> QED
      BY <1>3, <2>3, <2>4, <2>6, <2>7 DEF State
  <1>9. CASE coll[c].got[d].verdict # "ok"
    <2>1. d \notin Asked(c)
      BY <1>9 DEF With
    <2>2. d \in (1 .. coll[c].day) \ (coll[c].plan \cup Asked(c))
      BY <1>1, <2>1 DEF Settling, Unplanned
    <2>3. Tokens(fact[d]) >= Target(c, d)
      BY <1>1, <2>2 DEF Settling, Unplanned
    <2> QED
      BY <1>3, <1>4, <1>6, <2>3
  <1> QED
    BY <1>7, <1>8, <1>9

\* What clean runs rest on holds of an empty warehouse.
LEMMA InitSettles == CInit => SettleInv
  <1> SUFFICES ASSUME CInit PROVE SettleInv
    OBVIOUS
  <1>1. \A c \in Collectors : ~Active(c)
    BY IdleIs DEF CInit, Active
  <1>2. StatusOfRuns
    BY DEF CInit, StatusOfRuns, NoStatus
  <1> QED
    BY <1>1, <1>2 DEF SettleInv

\* What clean runs rest on is about the state alone.
LEMMA UnchangedSettles ==
  ASSUME SettleInv, UNCHANGED cvars
  PROVE  SettleInv'
  <1>1. UNCHANGED <<backend, today, used, closed, fact, status, issue, applied, doubted,
                    finished, lastRun, coll, faults>>
    BY DEF cvars, world, warehouse
  <1>2. StatusOfRuns'
    BY <1>1 DEF SettleInv, StatusOfRuns
  <1>3. ASSUME NEW c \in Collectors, Active(c)' PROVE Settling(c)'
    <2>1. Settling(c)
      BY <1>1, <1>3 DEF SettleInv, Active
    <2>2. \A d \in Days : Saw(c, d)' /\ Overtaken(c, d)'
      BY <1>1, <2>1 DEF Settling, Saw, Overtaken
    <2>3. \A e \in Collectors : Precedes(c, e)'
      BY <1>1, <2>1 DEF Settling, Precedes, Active
    <2>4. Asked(c)' = Asked(c) /\ \A d : Target(c, d)' = Target(c, d)
      BY <1>1 DEF Asked, With, Target
    <2>5. Unplanned(c)'
      BY <1>1, <2>1, <2>4 DEF Settling, Unplanned
    <2> QED
      BY <2>2, <2>3, <2>5 DEF Settling
  <1> QED
    BY <1>2, <1>3 DEF SettleInv

\* A run all of whose answers were good leaves no earlier day behind, however other runs overtake
\* it: each is recorded in full, or a later run knows that it must be read again.
THEOREM CleanRunsSettle == CSpec => SettlesDays
  <1>1. CInit => CollectionInv /\ SettleInv
    BY InitInv, InitSettles
  <1>2. CollectionInv /\ CollectionInv' /\ SettleInv /\ [CNext]_cvars => SettleInv' /\ [CleanRunSettles]_cvars
    BY SettleStep, SettlesStep, UnchangedSettles
  <1> QED
    BY CollectionInvariant, <1>1, <1>2, PTL DEF CSpec, SettlesDays
===============================================================================
