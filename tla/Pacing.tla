-------------------------------- MODULE Pacing --------------------------------
(***************************************************************************)
(* How one process paces its changes of a GCS object (buckets/gcs.py,      *)
(* _mutation): a gate for each object, shared by the threads that use it   *)
(* and forgotten when idle.  A thread holds the gate it looked up, whether *)
(* or not it is still the one in the table.                                *)
(***************************************************************************)
EXTENDS Naturals, FiniteSets

CONSTANTS Threads,
          MaxGates,   \* bound: gates that are made
          MaxTime     \* bound: the clock, in units of _MUTATION_INTERVAL

ASSUME PacingAssumption == MaxGates \in Nat /\ MaxTime \in Nat

VARIABLES
  now,      \* the clock
  table,    \* _MUTATION_GATES: the gate of the object, 0 when there is none
  gates,    \* every gate that was made: its users, its holder, and when it opens
  thread,   \* the threads: their step, their gate, their deadline
  last      \* for the property: when the last request to the object ended, 0 before the first

gvars == <<now, table, gates, thread, last>>

Gate == 1..MaxGates
Closed == [users |-> 0, held |-> FALSE, next |-> 0]
Away == [at |-> "away", gate |-> 0]

PacingInit ==
  /\ now = 1 /\ table = 0 /\ gates = [g \in Gate |-> Closed]
  /\ thread = [t \in Threads |-> Away] /\ last = 0

ThreadAt(t, where) == thread[t].at = where
GateOf(t) == thread[t].gate
ThreadSteps(t, where) == thread' = [thread EXCEPT ![t].at = where]

\* MUTANT: a gate that has opened is forgotten, whoever waits for it.
Forgotten(g) == gates[g].next <= now

\* A gate is forgotten when it has opened and nobody uses it.
Expired(g) == gates[g].users = 0 /\ gates[g].next <= now

\* Under _MUTATION_LOCK.
Joins(t) ==
  /\ ThreadAt(t, "away")
  /\ \E g \in Gate :
       /\ IF table = 0 \/ Expired(table)
            THEN gates[g] = Closed /\ \A x \in Threads : GateOf(x) # g
            ELSE g = table
       /\ table' = g /\ gates' = [gates EXCEPT ![g].users = @ + 1]
       /\ thread' = [thread EXCEPT ![t] = [at |-> "acquire", gate |-> g]]
  /\ UNCHANGED <<now, last>>

Acquires(t) ==
  /\ ThreadAt(t, "acquire") /\ ~gates[GateOf(t)].held
  /\ gates' = [gates EXCEPT ![GateOf(t)].held = TRUE] /\ ThreadSteps(t, "pause")
  /\ UNCHANGED <<now, table, last>>

\* The budget of the operation does not last until the gate is free, or open.
GivesUpGate(t) ==
  /\ thread[t].at \in {"acquire", "pause"}
  /\ gates' = [gates EXCEPT ![GateOf(t)].held = @ /\ ThreadAt(t, "acquire"),
                            ![GateOf(t)].users = @ - 1]
  /\ thread' = [thread EXCEPT ![t] = Away]
  /\ UNCHANGED <<now, table, last>>

Requests(t) ==
  /\ ThreadAt(t, "pause") /\ gates[GateOf(t)].next <= now /\ ThreadSteps(t, "request")
  /\ UNCHANGED <<now, table, gates, last>>

\* Whether the request succeeds or fails.
Returns(t) ==
  /\ ThreadAt(t, "request") /\ last' = now /\ ThreadSteps(t, "release")
  /\ gates' = [gates EXCEPT ![GateOf(t)].next = now + 1]
  /\ UNCHANGED <<now, table>>

Releases(t) ==
  /\ ThreadAt(t, "release") /\ ThreadSteps(t, "part")
  /\ gates' = [gates EXCEPT ![GateOf(t)].held = FALSE]
  /\ UNCHANGED <<now, table, last>>

Parts(t) ==
  /\ ThreadAt(t, "part") /\ thread' = [thread EXCEPT ![t] = Away]
  /\ gates' = [gates EXCEPT ![GateOf(t)].users = @ - 1]
  /\ UNCHANGED <<now, table, last>>

\* sleep() and the requests take time.
Passes ==
  /\ now < MaxTime /\ now' = now + 1 /\ UNCHANGED <<table, gates, thread, last>>

PacingNext ==
  \/ \E t \in Threads : \/ Joins(t) \/ Acquires(t) \/ GivesUpGate(t) \/ Requests(t)
                        \/ Returns(t) \/ Releases(t) \/ Parts(t)
  \/ Passes

PacingSpec == PacingInit /\ [][PacingNext]_gvars

-----------------------------------------------------------------------------
\* The requests of one process to change one object do not overlap, and are an interval apart,
\* retries and failures included: GCS refuses more than about one a second.
Paced ==
  [][\A t \in Threads : ThreadAt(t, "pause") /\ ThreadAt(t, "request")' =>
       /\ last # 0 => last + 1 <= now
       /\ \A x \in Threads : ~ThreadAt(x, "request")]_gvars
=============================================================================
