------------------------------- MODULE Sessions -------------------------------
(***************************************************************************)
(* What a source's warehouse knows of its sessions, and of the drift in    *)
(* tokscale's answers (orchestrator.py, collector.py, ingest.py,           *)
(* parsers/report.py, normalizer.py, persistence.py, diagnostics.py).      *)
(*                                                                         *)
(* Usage comes by the day and names its sessions.  What a session is comes *)
(* from another command, `report`, which a run asks for the days on which  *)
(* the active sessions were created, or for all history when it does not   *)
(* know them.  An answer with fields nobody knows is drift: it is recorded *)
(* and counts as resolved once an answer of the same tokscale is without.  *)
(*                                                                         *)
(* Runs of a source follow one another (CollectionLock).  The answers for  *)
(* graph, models and prices are left out, and so are times of creation     *)
(* that are unknown: the contract refuses a report with one.               *)
(***************************************************************************)
EXTENDS Naturals, FiniteSets, Functions

CONSTANTS Names,        \* sessions
          SessionRuns,  \* bound: collection runs
          SessionDays,  \* bound: the last day
          MaxTurns,     \* bound: how often a session begins or goes on
          Versions,     \* bound: the last version of tokscale
          MaxSlumps     \* bound: what goes wrong in a history

Dates == 1 .. SessionDays
AllHistory == 0              \* date.min, the target of a report on all history
Targets == Dates \cup {AllHistory}

ASSUME SessionsAssumption ==
  /\ SessionRuns \in Nat /\ SessionDays \in Nat \ {0} /\ MaxTurns \in Nat \ {0}
  /\ Versions \in Nat \ {0} /\ MaxSlumps \in Nat

VARIABLES
  date,      \* today
  version,   \* of tokscale
  turns,     \* per session: how far it has come; 0 is not begun
  born,      \* per session: the day, in UTC, of its creation
  listed,    \* per session: the day tokscale counts it to
  row,       \* current_sessions: per session, how far it was; 0 is no row
  usage,     \* the sessions with a row in daily_stats
  failed,    \* collection_status: the days, and all history, whose report failed
  covered,   \* collection_status: has a report on all history been complete?
  partial,   \* collection_status: the days whose session_metadata is partial
  event,     \* current_payload_drift_events: per version, the state of the drift
  troubled,  \* collection_runs: is there a run that is not "ok", and no "ok" after it?
  run,       \* the run under way
  newest,      \* for the properties: of the run published last, the answer and what it asked
  shown,     \* for the properties: per version, how the last report looked that was seen
  slumps     \* how many things went wrong

tokscale == <<date, version, turns, born, listed>>
stored == <<row, usage, failed, covered, partial, event, troubled, newest, shown>>
yvars == <<tokscale, stored, run, slumps>>

Begun == {s \in Names : turns[s] > 0}

\* How the report went: not asked for, no answer, refused by its contract or by its
\* parser, read, or read while tokscale left out sessions.
ReportAnswers == {"unasked", "fetch", "contract", "parse", "read", "short"}
Unseen == [s \in Names |-> 0]
Only(S, f) == [s \in Names |-> IF s \in S THEN f[s] ELSE 0]
Resting ==
  [phase |-> "idle", at |-> 0, day |-> 1, version |-> 1, active |-> {}, wanted |-> {},
   days |-> {}, answer |-> "unasked", found |-> Unseen, drift |-> FALSE,
   asked |-> Unseen]
Running ==
  [phase : {"idle", "planned", "answered"}, at : 0 .. SessionRuns, day : Dates,
   version : 1 .. Versions, active : SUBSET Names, wanted : SUBSET Dates,
   days : SUBSET Targets, answer : ReportAnswers,
   found : [Names -> Nat], drift : BOOLEAN,
   asked : [Names -> Nat]]  \* for the properties: how far those active were then

\* Every variable keeps its type.
SessionsTypeOK ==
  /\ date \in Dates /\ version \in 1 .. Versions
  /\ turns \in [Names -> Nat] /\ born \in [Names -> Dates]
  /\ listed \in [Names -> 0 .. SessionDays + 1]
  /\ row \in [Names -> Nat]
  /\ usage \in SUBSET Names
  /\ failed \in SUBSET Targets /\ covered \in BOOLEAN /\ partial \in SUBSET Dates
  /\ event \in [1 .. Versions -> {"none", "active", "resolved"}]
  /\ troubled \in BOOLEAN
  /\ run \in Running /\ newest \in [answer : ReportAnswers, asked : [Names -> Nat]]
  /\ slumps \in 0 .. MaxSlumps
  /\ shown \in [1 .. Versions -> {"none", "with", "without"}]

SessionsInit ==
  /\ date = 1 /\ version = 1
  /\ turns = Unseen /\ born = [s \in Names |-> 1]
  /\ listed = Unseen
  /\ row = Unseen /\ usage = {}
  /\ failed = {} /\ covered = FALSE /\ partial = {}
  /\ event = [v \in 1 .. Versions |-> "none"]
  /\ troubled = FALSE
  /\ run = Resting /\ newest = [answer |-> "unasked", asked |-> Unseen] /\ slumps = 0
  /\ shown = [v \in 1 .. Versions |-> "none"]

-----------------------------------------------------------------------------
(* The source.  What it does while a run publishes makes no difference to the run. *)

Turns == FoldFunction(+, 0, turns)
SourceMoves == run.phase # "answered"

\* A session begins.  A tokscale that does not take the UTC setting of its profile counts
\* it to a local day, the one before or after.
Begin(s) ==
  /\ SourceMoves /\ turns[s] = 0 /\ Turns < MaxTurns
  /\ turns' = [turns EXCEPT ![s] = 1]
  /\ born' = [born EXCEPT ![s] = date]
  /\ \E d \in {date - 1, date + 1} : listed' = [listed EXCEPT ![s] = d]
  /\ UNCHANGED <<date, version, stored, run, slumps>>

GoesOn(s) ==
  /\ SourceMoves /\ turns[s] > 0 /\ Turns < MaxTurns
  /\ turns' = [turns EXCEPT ![s] = @ + 1]
  /\ UNCHANGED <<date, version, born, listed, stored, run, slumps>>

Upgrade ==
  /\ SourceMoves /\ version < Versions
  /\ version' = version + 1
  /\ UNCHANGED <<date, turns, born, listed, stored, run, slumps>>

Overnight ==
  /\ SourceMoves /\ date < SessionDays
  /\ date' = date + 1
  /\ UNCHANGED <<version, turns, born, listed, stored, run, slumps>>

-----------------------------------------------------------------------------
(* A run. *)

Known == {s \in Names : row[s] > 0}

\* The sessions to find out about: active ones, and any that has usage.
Missing(active) == (active \cup usage) \ Known

\* The days to ask for: those the active sessions were created on, and those that failed.
Wanted(active) ==
  {born[s] : s \in active \cap Known} \cup (failed \cap Dates)

\* load_ingest_status(), the daily models, and what to ask `report` for.  A refresh of
\* everything asks for all history.
PlanReport(active, everything) ==
  /\ run.phase = "idle" /\ run.at < SessionRuns /\ active \subseteq Begun
  /\ run' = [Resting EXCEPT !.phase = "planned", !.at = run.at + 1, !.day = date,
               !.version = version, !.active = active, !.asked = Only(active, turns),
               !.wanted = Wanted(active),
               !.days = IF everything \/ ~covered \/ Missing(active) # {}
                        THEN {AllHistory} ELSE Wanted(active)]
  /\ UNCHANGED <<tokscale, stored, slumps>>

\* MUTANT: from the first of the days to the last.
ExactWindow(days) ==
  IF AllHistory \in days THEN Begun
  ELSE {s \in Begun : \E a, b \in days : a <= listed[s] /\ listed[s] <= b}

\* What a report on the days lists: one request, from the day before the first of them
\* to the day after the last.
Window(days) ==
  IF AllHistory \in days THEN Begun
  ELSE {s \in Begun : \E a, b \in days : a <= listed[s] + 1 /\ listed[s] <= b + 1}

\* _fetch_reports(), and the check and parse of the answer.  One entry that is refused
\* is enough to lose it, and any unknown field has been seen all the same.
Answered(answer, entries, drift) ==
  run' = [run EXCEPT !.phase = "answered", !.answer = answer,
            !.found = Only(entries, turns),
            !.drift = drift]

Ask ==
  /\ run.phase = "planned"
  /\ LET entries == Window(run.days) IN
     \/ run.days = {} /\ Answered("unasked", {}, FALSE) /\ UNCHANGED slumps
     \/ /\ run.days # {} /\ UNCHANGED slumps
        /\ \E drift \in BOOLEAN : Answered("read", entries, drift /\ entries # {})
     \/ /\ run.days # {} /\ slumps < MaxSlumps /\ slumps' = slumps + 1
        /\ \/ Answered("fetch", {}, FALSE)
           \/ \E how \in {"contract", "parse"}, drift \in BOOLEAN : Answered(how, {}, drift)
           \/ \E s \in entries : Answered("short", entries \ {s}, FALSE)
  /\ UNCHANGED <<tokscale, stored>>

\* MUTANT: only sessions not known before are looked for.
ExpectedMissing == Missing(run.active)

\* The sessions this run should learn of.
ExpectedSessions == Missing(run.active) \cup {s \in run.active \cap Known : born[s] \in run.wanted}

IsRead == run.answer \in {"read", "short"}

Failed == run.answer \in {"fetch", "contract", "parse"}

AllFound == \A s \in ExpectedSessions : run.found[s] > 0

\* The status of the run.
Outcome ==
  IF run.drift \/ run.answer = "contract" THEN "payload_drift"
  ELSE IF Failed \/ ~AllFound THEN "partial"
  ELSE "ok"

\* MUTANT: the drift of any version is resolved.
ResolvedOfAll(v) == event[v] = "active" /\ ~run.drift /\ IsRead

\* The drift of this tokscale is resolved when the report was read and is without.
Resolved(v) == event[v] = "active" /\ ~run.drift /\ IsRead /\ v = run.version

\* A row is for a session of the report, and newer than any other.
NewRows == [s \in Names |-> IF run.found[s] > 0 THEN run.found[s] ELSE row[s]]

NewEvents ==
  [v \in 1 .. Versions |->
     IF v = run.version /\ run.drift THEN "active"
     ELSE IF Resolved(v) THEN "resolved" ELSE event[v]]

\* build_collection_bundle(), normalize() and the transaction that publishes it.  Usage
\* that contradicts itself is not published.
PublishReport ==
  /\ run.phase = "answered"
  /\ \E kept \in SUBSET run.active : usage' = usage \cup kept
  /\ row' = NewRows
  /\ failed' = IF Failed THEN failed \cup run.days ELSE failed \ run.days
  /\ covered' = IF AllHistory \in run.days THEN ~Failed ELSE covered
  /\ partial' = IF ExpectedSessions = {} THEN partial
                ELSE IF AllFound THEN partial \ {run.day} ELSE partial \cup {run.day}
  /\ event' = NewEvents
  /\ troubled' = (Outcome # "ok")
  /\ newest' = [answer |-> run.answer, asked |-> run.asked]
  /\ shown' = [shown EXCEPT ![run.version] =
                 IF run.drift THEN "with" ELSE IF IsRead THEN "without" ELSE @]
  /\ run' = [Resting EXCEPT !.at = run.at]
  /\ UNCHANGED <<tokscale, slumps>>

\* Another command fails, and the ledger is all that is written (failed_collection());
\* or the process goes, and nothing is.
Fails ==
  /\ run.phase # "idle" /\ slumps < MaxSlumps /\ slumps' = slumps + 1
  /\ troubled' \in {troubled, TRUE}
  /\ run' = [Resting EXCEPT !.at = run.at]
  /\ UNCHANGED <<tokscale, row, usage, failed, covered, partial, event, newest, shown>>

-----------------------------------------------------------------------------
(* What `doctor` shows (diagnostics.py). *)

CollectionIssues == failed # {} \/ partial # {} \/ troubled

SessionsNext ==
  \/ \E s \in Names : Begin(s) \/ GoesOn(s)
  \/ Upgrade \/ Overnight
  \/ \E active \in SUBSET Names, everything \in BOOLEAN : PlanReport(active, everything)
  \/ Ask \/ PublishReport \/ Fails

SessionsSpec == SessionsInit /\ [][SessionsNext]_yvars

-----------------------------------------------------------------------------
\* When the report of the run published last was read whole, every session with usage is
\* known, and the sessions the run found active are known as they were at its start, or
\* later: no session stays behind a run that failed, and none falls outside the days
\* that were asked for (orchestrator.py, collector.py _fetch_reports()).
SessionsKnown ==
  run.phase = "idle" /\ newest.answer = "read" =>
    /\ usage \subseteq Known
    /\ \A s \in Names : row[s] >= newest.asked[s]

\* While a session the last published run found active is less known than it could be,
\* `doctor` has something to show: the loss of a report is not hidden by the statuses of
\* other days, of other runs, or of the run itself (ingest.py, diagnostics.py).
StaleIsShown ==
  run.phase = "idle" /\ (\E s \in Names : row[s] < newest.asked[s]) =>
    CollectionIssues

\* Drift is shown as unresolved exactly while the last report seen of the same tokscale
\* had it; reports that were lost, and other versions, change nothing.
DriftStands ==
  \A v \in 1 .. Versions : event[v] = "active" <=> shown[v] = "with"

\* Values have their types, sessions are known or their lack is shown, and so is drift.
SessionsStand == SessionsTypeOK /\ SessionsKnown /\ StaleIsShown /\ DriftStands
=============================================================================
