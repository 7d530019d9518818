------------------------------- MODULE Budgets -------------------------------
(***************************************************************************)
(* The budgets of deadlines.py: operation, limited and cleanup_budget, how *)
(* they nest and are inherited by threads, and the waits they bound.       *)
(*                                                                         *)
(* Instants count up; a step takes no time, and any time may pass between  *)
(* two.  That what waits with a timeout does not wait longer is assumed.   *)
(***************************************************************************)
EXTENDS Naturals, Sequences, SequencesExt, FiniteSetsExt

CONSTANTS Tasks,           \* threads
          BudgetSeconds,   \* the budget of an operation
          Allowances,      \* what limited() may be asked for
          Caps,            \* the caps of single waits
          CleanupSeconds,  \* CLEANUP_SECONDS
          MaxScopes,       \* bound: scopes of a thread within one another
          MaxDeadlines,    \* bound: deadlines
          LastInstant      \* bound: the last instant

ASSUME BudgetsAssumption ==
  /\ {BudgetSeconds, CleanupSeconds} \cup Allowances \cup Caps \subseteq Nat \ {0}
  /\ {MaxScopes, MaxDeadlines, LastInstant} \subseteq Nat

VARIABLES
  instant,    \* monotonic()
  deadlines,  \* the Deadline objects, in order of creation
  task        \* the threads, each with the scopes it is in

zvars == <<instant, deadlines, task>>

\* "within" and "cleaning" are for the properties: the outermost deadline of the operation
\* that created this one, and whether it was for cleanup.
Deadline(expires, parent, within, cleaning) ==
  [expires |-> expires, parent |-> parent, grace |-> 0, within |-> within,
   cleaning |-> cleaning]

Scope(kind, id, raising) == [kind |-> kind, id |-> id, raising |-> raising]

TaskRests == [at |-> "rest", scopes |-> <<>>, raising |-> FALSE, until |-> 0, seconds |-> 0]

BudgetsInit ==
  /\ instant = 1 /\ deadlines = <<>>
  /\ task = [t \in Tasks |-> TaskRests]

TaskAt(t, where) == task[t].at = where
TaskWorks(t) == TaskAt(t, "works") /\ ~task[t].raising
CanEnter(t) == Len(task[t].scopes) < MaxScopes /\ Len(deadlines) < MaxDeadlines
Left(id) == deadlines[id].expires - instant
IsOver(id) == instant >= deadlines[id].expires

\* current_deadline(): 0 is None.
Current(t) == IF task[t].scopes = <<>> THEN 0 ELSE Last(task[t].scopes).id

Outermost(t) ==
  IF task[t].scopes = <<>> THEN 0
  ELSE LET first == Head(task[t].scopes).id IN
       IF deadlines[first].within = 0 THEN first ELSE deadlines[first].within

Raising(w) == [w EXCEPT !.at = "works", !.raising = TRUE]
Entered(w, kind, id) ==
  [w EXCEPT !.at = "works", !.scopes = Append(@, Scope(kind, id, w.raising)), !.raising = FALSE]
Popped(w, raising) == [w EXCEPT !.scopes = Front(@), !.raising = raising]

-----------------------------------------------------------------------------
(* Scopes.                                                                 *)

\* A thread begins without a deadline, or with a copy of another's context.
BeginTask(t) ==
  /\ TaskAt(t, "rest")
  /\ \/ task' = [task EXCEPT ![t] = [TaskRests EXCEPT !.at = "works"]]
     \/ \E u \in Tasks \ {t} : /\ TaskWorks(u) /\ Current(u) # 0
          /\ task' = [task EXCEPT ![t] = Entered(TaskRests, "copied", Current(u))]
  /\ UNCHANGED <<instant, deadlines>>

EndTask(t) ==
  /\ TaskAt(t, "works") /\ \A i \in DOMAIN task[t].scopes : task[t].scopes[i].kind = "copied"
  /\ task' = [task EXCEPT ![t] = TaskRests]
  /\ UNCHANGED <<instant, deadlines>>

\* An enclosing deadline is used again, if it is not over.
EnterOperation(t) ==
  /\ TaskWorks(t) /\ CanEnter(t)
  /\ IF Current(t) = 0
     THEN /\ deadlines' = Append(deadlines, Deadline(instant + BudgetSeconds, 0, 0, FALSE))
          /\ task' = [task EXCEPT ![t] = Entered(task[t], "operation", Len(deadlines) + 1)]
     ELSE /\ task' = [task EXCEPT ![t] = IF IsOver(Current(t)) THEN Raising(task[t])
                                         ELSE Entered(task[t], "operation", Current(t))]
          /\ UNCHANGED deadlines
  /\ UNCHANGED instant

\* limited() reads what the enclosing deadline leaves, and then begins its own.
ReadLimit(t) ==
  /\ TaskWorks(t) /\ CanEnter(t)
  /\ \E s \in Allowances :
       task' = [task EXCEPT ![t] =
         IF Current(t) # 0 /\ IsOver(Current(t)) THEN Raising(task[t])
         ELSE [task[t] EXCEPT !.at = "limits",
                 !.seconds = IF Current(t) = 0 THEN s ELSE Min({s, Left(Current(t))})]]
  /\ UNCHANGED <<instant, deadlines>>

\* MUTANT: the time between the two readings is forgotten.
ExpiresAfter(seconds, parent) == instant + seconds

ExpiresAt(seconds, parent) ==
  IF parent = 0 THEN instant + seconds
  ELSE Min({instant + seconds, deadlines[parent].expires})

EnterLimited(t) ==
  LET parent == Current(t) IN
  /\ TaskAt(t, "limits") /\ Len(deadlines) < MaxDeadlines
  /\ deadlines' = Append(deadlines,
       Deadline(ExpiresAt(task[t].seconds, parent), parent, Outermost(t), FALSE))
  /\ task' = [task EXCEPT ![t] = [Entered(task[t], "limited", Len(deadlines) + 1)
                                   EXCEPT !.seconds = 0]]
  /\ UNCHANGED instant

\* MUTANT: a tightened deadline has an allowance of its own.
NoRoot(id) == id

\* cleanup() asks the deadline that has no parent.
Root(id) ==
  LET up[n \in DOMAIN deadlines] ==
        IF deadlines[n].parent = 0 THEN n ELSE up[deadlines[n].parent]
  IN up[id]

\* The one allowance of the operation begins when it is first asked for.
EnterCleanup(t) ==
  LET root == IF Current(t) = 0 THEN 0 ELSE Root(Current(t))
      next == Len(deadlines) + 1
      new == Deadline(instant + CleanupSeconds, 0, Outermost(t), TRUE)
  IN
  /\ TaskAt(t, "works") /\ CanEnter(t)
  /\ IF root = 0 THEN deadlines' = Append(deadlines, new)
     ELSE IF deadlines[root].grace # 0 THEN UNCHANGED deadlines
     ELSE deadlines' = Append([deadlines EXCEPT ![root].grace = next],
                              [new EXCEPT !.grace = next])
  /\ task' = [task EXCEPT ![t] = Entered(task[t], "cleanup",
       IF root # 0 /\ deadlines[root].grace # 0 THEN deadlines[root].grace ELSE next)]
  /\ UNCHANGED instant

\* A scope is left well only in time; cleanup goes back to the error it was called for.
LeaveScope(t) ==
  LET scope == Last(task[t].scopes) IN
  /\ TaskWorks(t) /\ task[t].scopes # <<>> /\ scope.kind # "copied"
  /\ task' = [task EXCEPT ![t] =
       Popped(task[t], IF scope.kind = "cleanup" THEN scope.raising ELSE IsOver(scope.id))]
  /\ UNCHANGED <<instant, deadlines>>

\* An error leaves a scope, or is caught.
Unwind(t) ==
  /\ TaskAt(t, "works") /\ task[t].raising
  /\ \/ /\ task[t].scopes # <<>> /\ Last(task[t].scopes).kind # "copied"
        /\ task' = [task EXCEPT ![t] = Popped(task[t], TRUE)]
     \/ task' = [task EXCEPT ![t].raising = FALSE]
  /\ UNCHANGED <<instant, deadlines>>

-----------------------------------------------------------------------------
(* Waits.                                                                  *)

\* remaining_seconds(cap)
Remaining(t, cap) == IF Current(t) = 0 THEN cap ELSE Min({cap, Left(Current(t))})
InBudget(t) == Current(t) = 0 \/ ~IsOver(Current(t))

BeginWait(t) ==
  /\ TaskWorks(t)
  /\ \E cap \in Caps :
       task' = [task EXCEPT ![t] =
         IF InBudget(t) THEN [task[t] EXCEPT !.at = "waits", !.until = instant + Remaining(t, cap)]
         ELSE Raising(task[t])]
  /\ UNCHANGED <<instant, deadlines>>

\* MUTANT: connecting is not counted.
ReadShareWhole(budget) == budget

\* DeadlineAdapter.send(): a quarter of the budget to connect, the rest to read.
ReadShare(budget) == (budget * 3) \div 4

BeginSend(t) ==
  /\ TaskWorks(t)
  /\ \E cap \in Caps :
       task' = [task EXCEPT ![t] =
         IF InBudget(t)
         THEN [task[t] EXCEPT !.at = "connects", !.until = instant + (Remaining(t, cap) \div 4),
                              !.seconds = ReadShare(Remaining(t, cap))]
         ELSE Raising(task[t])]
  /\ UNCHANGED <<instant, deadlines>>

Connects(t) ==
  /\ TaskAt(t, "connects")
  /\ task' = [task EXCEPT ![t].at = "waits", ![t].until = instant + task[t].seconds,
                          ![t].seconds = 0]
  /\ UNCHANGED <<instant, deadlines>>

\* What was waited for came, or failed, or the time is over.
EndWait(t) ==
  /\ task[t].at \in {"waits", "connects"}
  /\ \E failed \in BOOLEAN :
       /\ TaskAt(t, "connects") => failed
       /\ task' = [task EXCEPT ![t] = [task[t] EXCEPT !.at = "works", !.raising = failed,
                                                      !.until = 0, !.seconds = 0]]
  /\ UNCHANGED <<instant, deadlines>>

InstantPasses ==
  /\ instant < LastInstant
  /\ \A t \in Tasks : task[t].at \in {"waits", "connects"} => instant < task[t].until
  /\ instant' = instant + 1
  /\ UNCHANGED <<deadlines, task>>

BudgetsNext ==
  \/ \E t \in Tasks :
       \/ BeginTask(t) \/ EndTask(t) \/ EnterOperation(t) \/ ReadLimit(t) \/ EnterLimited(t)
       \/ EnterCleanup(t) \/ LeaveScope(t) \/ Unwind(t)
       \/ BeginWait(t) \/ BeginSend(t) \/ Connects(t) \/ EndWait(t)
  \/ InstantPasses

BudgetsSpec == BudgetsInit /\ [][BudgetsNext]_zvars

-----------------------------------------------------------------------------
(* Correctness.                                                            *)

\* The scopes that bound what a thread does: those within the cleanup it is in, if it is.
Binding(t) ==
  LET cleaning == {i \in DOMAIN task[t].scopes : deadlines[task[t].scopes[i].id].cleaning}
  IN {i \in DOMAIN task[t].scopes : \A c \in cleaning : i >= c}

\* Nothing waits past an enclosing budget, whatever passes between reading the clock and
\* beginning to wait, in whichever thread.
WaitsWithinBudget ==
  \A t \in Tasks : task[t].at \in {"waits", "connects"} =>
    \A i \in Binding(t) :
      task[t].until + (IF TaskAt(t, "connects") THEN task[t].seconds ELSE 0)
        <= deadlines[task[t].scopes[i].id].expires

\* An operation has one allowance for cleanup, however often and from however many threads
\* and scopes it is asked for.
OneAllowance ==
  \A i \in DOMAIN deadlines :
    deadlines[i].cleaning /\ deadlines[i].within # 0 =>
      deadlines[deadlines[i].within].grace = i

\* Whoever leaves a scope without an error is within every budget around it.
LeavesInTime ==
  [][\A t \in Tasks :
       LeaveScope(t) /\ ~task'[t].raising /\ Last(task[t].scopes).kind # "cleanup" =>
         \A i \in Binding(t) : ~IsOver(task[t].scopes[i].id)]_zvars
=============================================================================
