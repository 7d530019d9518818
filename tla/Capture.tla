------------------------------- MODULE Capture -------------------------------
(***************************************************************************)
(* One tokscale command (collector.py, process.py): its output is read     *)
(* from two pipes, within limits of size and time, while the command, and  *)
(* processes it left behind, may go on writing.                            *)
(*                                                                         *)
(* Bytes are counted.  Time is left out: the deadline, and the deadline of *)
(* the cleanup after it, may pass at any moment of their turn.             *)
(***************************************************************************)
EXTENDS Naturals, FiniteSets

CONSTANTS Limit,    \* max_stdout_bytes, max_stderr_bytes
          MaxBytes  \* bound: what is written to one pipe

ASSUME CaptureAssumption == Limit \in Nat /\ MaxBytes \in Nat

VARIABLES
  process,   \* the command: "runs", "exited" (with success or not), "killed"
  strays,    \* does another process of it hold the pipes open?
  written,   \* per pipe: bytes written
  taken,     \* per pipe: bytes read
  kept,      \* per pipe: bytes kept in the output
  complete,  \* pipes that were read to their end, or cannot be read
  failure,   \* has the capture failed?
  cleaning,  \* was the cleanup deadline set, and the command terminated?
  capturing, \* "loop", "close", "returned", "raised"
  torn       \* for the properties: pipes whose reading failed

kvars == <<process, strays, written, taken, kept, complete, failure, cleaning, capturing, torn>>

Pipes == {"stdout", "stderr"}

CaptureInit ==
  /\ process = "runs" /\ strays \in BOOLEAN
  /\ written = [p \in Pipes |-> 0] /\ taken = [p \in Pipes |-> 0] /\ kept = [p \in Pipes |-> 0]
  /\ complete = {} /\ failure = FALSE /\ cleaning = FALSE /\ capturing = "loop" /\ torn = {}

-----------------------------------------------------------------------------
(* The command. *)

WriterOpen == process = "runs" \/ strays
ours == <<taken, kept, complete, failure, cleaning, capturing, torn>>

Writes(p) ==
  /\ WriterOpen /\ written[p] < MaxBytes
  /\ written' = [written EXCEPT ![p] = @ + 1]
  /\ UNCHANGED <<process, strays, ours>>
Exits == process = "runs" /\ process' = "exited" /\ UNCHANGED <<strays, written, ours>>
StraysEnd == strays /\ strays' = FALSE /\ UNCHANGED <<process, written, ours>>

-----------------------------------------------------------------------------
(* _capture_process() *)

\* _terminate_process(): the group is killed, and with it the strays that did not leave it.
Kill ==
  /\ process' = IF process = "runs" THEN "killed" ELSE process
  /\ strays' \in {strays, FALSE}

theirs == <<process, strays, written>>
Capturing == capturing = "loop" /\ ~(complete = Pipes /\ process # "runs")

\* A part of what is there; the output is cut at its limit, and that is a failure.
Reads(p) ==
  /\ Capturing /\ p \notin complete /\ taken[p] < written[p]
  /\ \E n \in 1 .. written[p] - taken[p] :
       /\ taken' = [taken EXCEPT ![p] = @ + n]
       /\ kept' = [kept EXCEPT ![p] = IF @ + n > Limit THEN Limit ELSE @ + n]
       /\ failure' = (failure \/ kept[p] + n > Limit)
  /\ UNCHANGED <<theirs, complete, cleaning, capturing, torn>>

ReadsEnd(p) ==
  /\ Capturing /\ p \notin complete /\ taken[p] = written[p] /\ ~WriterOpen
  /\ complete' = complete \cup {p}
  /\ UNCHANGED <<theirs, taken, kept, failure, cleaning, capturing, torn>>

\* MUTANT: a pipe that cannot be read counts as one that has ended.
ReadFailsQuietly(p) ==
  /\ Capturing /\ p \notin complete
  /\ complete' = complete \cup {p} /\ torn' = torn \cup {p}
  /\ UNCHANGED <<theirs, taken, kept, failure, cleaning, capturing>>

ReadFails(p) ==
  /\ Capturing /\ p \notin complete
  /\ complete' = complete \cup {p} /\ failure' = TRUE /\ torn' = torn \cup {p}
  /\ UNCHANGED <<theirs, taken, kept, cleaning, capturing>>

DeadlinePasses ==
  /\ Capturing /\ ~cleaning /\ ~failure /\ failure' = TRUE
  /\ UNCHANGED <<theirs, taken, kept, complete, cleaning, capturing, torn>>

\* The first turn after a failure.
StartsCleanup ==
  /\ Capturing /\ failure /\ ~cleaning /\ cleaning' = TRUE /\ Kill
  /\ UNCHANGED <<written, taken, kept, complete, failure, capturing, torn>>

\* MUTANT: the cleanup waits for the pipes to end.
CleanupPatient ==
  /\ Capturing /\ cleaning /\ ~WriterOpen /\ capturing' = "close"
  /\ UNCHANGED <<theirs, taken, kept, complete, failure, cleaning, torn>>

CleanupPasses ==
  /\ Capturing /\ cleaning /\ capturing' = "close"
  /\ UNCHANGED <<theirs, taken, kept, complete, failure, cleaning, torn>>

\* The user interrupts: the command is terminated, and the interrupt goes on.
CaptureInterrupted ==
  /\ Capturing /\ failure' = TRUE /\ cleaning' = TRUE /\ capturing' = "close"
  /\ IF cleaning THEN UNCHANGED <<process, strays>> ELSE Kill
  /\ UNCHANGED <<written, taken, kept, complete, torn>>

\* Both pipes have ended, and so has the command.
LoopEnds ==
  /\ capturing = "loop" /\ ~Capturing /\ capturing' = "close"
  /\ IF failure /\ ~cleaning THEN cleaning' = TRUE /\ Kill ELSE UNCHANGED <<cleaning, process, strays>>
  /\ UNCHANGED <<written, taken, kept, complete, failure, torn>>

\* The pipes are closed, the command is reaped and its scope closed; each may fail.
Closes ==
  /\ capturing = "close"
  /\ \E fails \in BOOLEAN :
       /\ process = "runs" => fails
       /\ failure' = (failure \/ fails)
       /\ capturing' = IF failure' THEN "raised" ELSE "returned"
  /\ UNCHANGED <<theirs, taken, kept, complete, cleaning, torn>>

Captures ==
  \/ \E p \in Pipes : Reads(p) \/ ReadsEnd(p)
  \/ StartsCleanup \/ CleanupPasses \/ LoopEnds \/ Closes

CaptureNext ==
  \/ \E p \in Pipes : Writes(p) \/ ReadFails(p)
  \/ Exits \/ StraysEnd \/ Captures \/ DeadlinePasses \/ CaptureInterrupted

\* The loop is scheduled, and its deadlines pass.  The command need never end or close its pipes.
CaptureFairness == WF_kvars(Captures) /\ WF_kvars(DeadlinePasses) /\ WF_kvars(CleanupPasses)

CaptureSpec == CaptureInit /\ [][CaptureNext]_kvars /\ CaptureFairness

-----------------------------------------------------------------------------
\* incomplete or unreadable output always fails: what is returned is all that was written, by
\* the command and whoever holds its pipes, and the command has ended by itself.
ReturnsWhole ==
  capturing = "returned" =>
    /\ \A p \in Pipes : kept[p] = written[p]
    /\ torn = {} /\ ~WriterOpen /\ process = "exited"

\* Capture output within a command deadline and a fixed cleanup allowance: a command that
\* never ends, or leaves its pipes to others, does not hold the capture up.
CaptureEnds == <>(capturing \in {"returned", "raised"})
=============================================================================
