----------------------------- MODULE Observation -----------------------------
(***************************************************************************)
(* The observations of one daily fact: what one source used of one model   *)
(* in one session on one day.  Each collection run makes at most one.      *)
(* The five token components and their total are all treated alike, each   *)
(* as a recorded maximum, so one number stands for them.  An observation   *)
(* has the start of its run as its time, and its event identity, a random  *)
(* number, breaks ties: runs are numbered by it.                           *)
(***************************************************************************)
EXTENDS Naturals

CONSTANTS Runs,   \* collection runs, by event identity
          NoRow   \* the absent observation

Row == [at: Nat, tokens: Nat, run: Runs]
Rows == Row \cup {NoRow}

ASSUME ObservationAssumption ==
  /\ Runs \subseteq Nat
  /\ NoRow \notin Row

Greater(m, n) == IF m > n THEN m ELSE n

Tokens(r) == IF r = NoRow THEN 0 ELSE r.tokens

\* The order of observations: collected_at, total_tokens, event_id.
Newer(r, s) ==
  \/ r.at > s.at
  \/ r.at = s.at /\ r.tokens > s.tokens
  \/ r.at = s.at /\ r.tokens = s.tokens /\ r.run > s.run

AtLeast(r, s) == r = s \/ Newer(r, s)

\* MUTANT: rows are published as they were read.
AsRead(row, prior) == row

\* What is published of an observation, given what the history showed before:
\* nothing if that is newer, else no fewer tokens than that.
Preserved(row, prior) ==
  IF prior = NoRow THEN row
  ELSE IF Newer(row, prior) THEN [row EXCEPT !.tokens = Greater(@, prior.tokens)]
  ELSE NoRow

\* The newest of some observations.
Newest(rows) == CHOOSE r \in rows : \A s \in rows : AtLeast(r, s)

\* MUTANT: what was compacted before takes no part.
FoldedAnew(gold, rows) == IF rows = {} THEN NoRow ELSE Newest(rows)

\* The newest of the compacted and the raw observations, with no fewer tokens than
\* the compacted one.
Folded(gold, rows) ==
  LET all == rows \cup ({gold} \ {NoRow}) IN
  IF all = {} THEN NoRow
  ELSE [Newest(all) EXCEPT !.tokens = Greater(@, Tokens(gold))]
=============================================================================
