----------------------------- MODULE PinnedRead -----------------------------
(***************************************************************************)
(* The consistent capture of the warehouse for a snapshot:                 *)
(* stream_snapshot() of the backends, consumed by the archiver while other *)
(* clients publish runs.                                                   *)
(*                                                                         *)
(* BigQuery asks for the time first and runs one query per table as of     *)
(* that time; each result is read as a stream, resumed by its row number.  *)
(* DuckDB and MotherDuck read in one transaction.                          *)
(***************************************************************************)
EXTENDS Naturals, Sequences

CONSTANTS Engines,   \* among "direct" and "bigquery"
          MaxRuns,   \* bound: runs published before and during the capture
          MaxBreaks  \* bound: interruptions of a stream

ASSUME PinnedReadAssumption ==
  Engines \subseteq {"direct", "bigquery"} /\ MaxRuns \in Nat /\ MaxBreaks \in Nat

VARIABLES
  engine,
  log,      \* the warehouse after each commit: of how many runs each table has the rows
  pinned,   \* the version at the read point, once there is one
  result,   \* the result of the query of a table
  taken,    \* the rows of a table that the archiver has written
  offset,   \* the rows of a table that its reader has counted
  served,   \* the row its stream has reached
  breaks

fvars == <<engine, log, pinned, result, taken, offset, served, breaks>>
streams == <<taken, offset, served>>

\* The tables are captured in this order; the ledger certifies the rows of its runs.
Tables == {"facts", "ledger"}
NotPinned == 0
NoRows == <<0>>

PinnedInit ==
  /\ engine \in Engines /\ log = <<[t \in Tables |-> 0]>> /\ pinned = NotPinned /\ breaks = 0
  /\ result = [t \in Tables |-> NoRows] /\ taken = [t \in Tables |-> <<>>]
  /\ offset = [t \in Tables |-> 0] /\ served = [t \in Tables |-> 0]

\* A row is its run.
RowsOfTable(t, at) == [i \in 1 .. log[at][t] |-> i]

-----------------------------------------------------------------------------
(* Other clients, which publish the rows of a run and then its ledger row *)

\* persist_batch(): one transaction, or load jobs of which the ledger's is the last.
OthersPublish ==
  /\ LET newest == log[Len(log)] IN
     \/ newest["facts"] < MaxRuns
        /\ log' = Append(log, IF engine = "direct" THEN [t \in Tables |-> newest[t] + 1]
                              ELSE [newest EXCEPT !["facts"] = @ + 1])
     \/ engine = "bigquery" /\ newest["ledger"] < newest["facts"]
        /\ log' = Append(log, [newest EXCEPT !["ledger"] = @ + 1])
  /\ UNCHANGED <<engine, pinned, result, streams, breaks>>

-----------------------------------------------------------------------------
(* The capture *)

\* The time of the capture, or the first read of the transaction.
TakeReadPoint ==
  /\ pinned = NotPinned /\ pinned' = Len(log)
  /\ UNCHANGED <<engine, log, result, streams, breaks>>

\* MUTANT: the query of a table reads it as it is.
AsItIs(t) == RowsOfTable(t, Len(log))

\* FOR SYSTEM_TIME AS OF the capture, in the query of every physical table; the snapshot of
\* the transaction.
AtCapture(t) == RowsOfTable(t, pinned)

\* One job per table on BigQuery, before anything is read; the cursor of a table otherwise.
QueryTable(t) ==
  /\ pinned # NotPinned /\ result[t] = NoRows
  /\ result' = [result EXCEPT ![t] = AtCapture(t)]
  /\ UNCHANGED <<engine, log, pinned, streams, breaks>>

Finished(t) == result[t] # NoRows /\ served[t] = Len(result[t])
Reading(t) ==
  /\ result[t] # NoRows /\ ~ Finished(t)
  /\ engine = "bigquery" => \A u \in Tables : result[u] # NoRows
  /\ t = "ledger" => Finished("facts")

\* MUTANT: the reader counts batches.
BatchCounted(batch) == 1

Counted(batch) == Len(batch)

\* A batch of the stream, which may be empty, is counted and handed on.
TakeBatch(t) ==
  /\ Reading(t)
  /\ \E n \in 0 .. Len(result[t]) - served[t] :
       LET batch == SubSeq(result[t], served[t] + 1, served[t] + n) IN
       /\ offset' = [offset EXCEPT ![t] = @ + Counted(batch)]
       /\ served' = [served EXCEPT ![t] = @ + n]
       /\ taken' = [taken EXCEPT ![t] = @ \o batch]
  /\ UNCHANGED <<engine, log, pinned, result, breaks>>

\* _read_stream_batches(): a broken stream is opened again at the count.  On a direct backend
\* the capture fails with its cursor.
Resume(t) ==
  /\ Reading(t) /\ engine = "bigquery" /\ breaks < MaxBreaks /\ breaks' = breaks + 1
  /\ served' = [served EXCEPT ![t] = offset[t]]
  /\ UNCHANGED <<engine, log, pinned, result, taken, offset>>

PinnedNext ==
  \/ OthersPublish \/ TakeReadPoint
  \/ \E t \in Tables : QueryTable(t) \/ TakeBatch(t) \/ Resume(t)
PinnedSpec == PinnedInit /\ [][PinnedNext]_fvars

-----------------------------------------------------------------------------
\* The ledger of a snapshot certifies no run whose rows are not in it, though its tables
\* are read one after the other while runs are published.
SnapshotIsCertified ==
  (\A t \in Tables : Finished(t)) =>
    \A i \in DOMAIN taken["ledger"] :
      \E j \in DOMAIN taken["facts"] : taken["facts"][j] = taken["ledger"][i]

\* What is captured of a table is its contents at the read point, each row once, however
\* often the stream broke.
CapturedOnce == \A t \in Tables : Finished(t) => taken[t] = RowsOfTable(t, pinned)

\* A snapshot is the warehouse of one instant, each row once.
IsOfOneInstant == SnapshotIsCertified /\ CapturedOnce
=============================================================================
