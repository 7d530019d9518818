------------------------------- MODULE Worker -------------------------------
(***************************************************************************)
(* The detached schedule worker and the commands that start and stop it    *)
(* (scheduling.py).                                                        *)
(*                                                                         *)
(* A worker collects, waits and collects again; a thread of it checks the  *)
(* snapshots on a cadence of its own.  SIGTERM asks it to stop once its    *)
(* handler is installed, and ends it at once before.  The commands know a  *)
(* worker by the process number in worker.pid alone.                       *)
(***************************************************************************)
EXTENDS Naturals

CONSTANTS Pids,       \* process numbers, each used once
          Commands,   \* the shells that run schedule commands
          MaxStarts,  \* bound: how many start commands are run
          MaxStops    \* bound: how many stop commands are run

ASSUME WorkerAssumption == MaxStarts \in Nat /\ MaxStops \in Nat /\ 0 \notin Pids

VARIABLES
  pidFile,   \* worker.pid: a number, or 0 when there is none
  worker,    \* the main threads
  snapshots, \* their snapshot threads
  stopping,  \* their stop_requested
  command,   \* the commands in progress
  starts, stops,
  dismissed, \* for the properties: the workers that a start could not record and told to go
  lost       \* for the properties: the workers that no command can find

wvars == <<pidFile, worker, snapshots, stopping, command, starts, stops, dismissed, lost>>

\* starting: before the handlers are installed; top: at the head of the loop; ending: in the
\* finally clause, once stop_requested is set.
WorkerStates == {"none", "starting", "top", "collecting", "waiting", "leaving", "ending", "exited"}
SnapshotStates == {"none", "checking", "waiting", "done"}
\* pid: the worker it deals with; saw: what worker.pid held when it last read or wrote it.
WorkerCommand == [op: {"none", "unlink", "spawn", "record", "signal", "await", "forget"},
                  pid: Pids \cup {0}, saw: Pids \cup {0}]
NoCommand == [op |-> "none", pid |-> 0, saw |-> 0]

WorkerInit ==
  /\ pidFile = 0 /\ starts = 0 /\ stops = 0
  /\ worker = [w \in Pids |-> "none"] /\ snapshots = [w \in Pids |-> "none"]
  /\ stopping = [w \in Pids |-> FALSE]
  /\ command = [c \in Commands |-> NoCommand]
  /\ dismissed = {} /\ lost = {}

Runs(w) == w # 0 /\ worker[w] \notin {"none", "exited"}

-----------------------------------------------------------------------------
(* run_worker() *)

Works(w, from, to) == worker[w] = from /\ worker' = [worker EXCEPT ![w] = to]
controls == <<pidFile, command, starts, stops, dismissed, lost>>

\* The thread is started when snapshots are configured, then tokscale is probed.
StartsSnapshots(w) ==
  /\ worker[w] = "starting" /\ snapshots[w] = "none"
  /\ snapshots' = [snapshots EXCEPT ![w] = "checking"]
  /\ UNCHANGED <<worker, stopping, controls>>

InstallsHandlers(w) == Works(w, "starting", "top") /\ UNCHANGED <<snapshots, stopping, controls>>

\* The configuration does not load, the interval is none, or the probe raises: the snapshot
\* thread is a daemon and goes with the process.
FailsToStart(w) == Works(w, "starting", "exited") /\ UNCHANGED <<snapshots, stopping, controls>>

Loops(w) ==
  /\ worker[w] = "top"
  /\ worker' = [worker EXCEPT ![w] = IF stopping[w] THEN "leaving" ELSE "collecting"]
  /\ UNCHANGED <<snapshots, stopping, controls>>

Collects(w) ==
  /\ worker[w] = "collecting"
  /\ worker' = [worker EXCEPT ![w] = IF stopping[w] THEN "leaving" ELSE "waiting"]
  /\ UNCHANGED <<snapshots, stopping, controls>>

\* stop_requested.wait(interval)
Wakes(w) == Works(w, "waiting", "top") /\ UNCHANGED <<snapshots, stopping, controls>>

\* An error that the loop does not catch, such as one in writing its diagnostics.
Breaks(w) ==
  /\ worker[w] \in {"top", "collecting"}
  /\ worker' = [worker EXCEPT ![w] = "leaving"]
  /\ UNCHANGED <<snapshots, stopping, controls>>

\* MUTANT: the snapshot thread is joined without being told to stop.
LeavesQuietly(w) == Works(w, "leaving", "ending") /\ UNCHANGED <<snapshots, stopping, controls>>

\* finally: the snapshot thread is told to stop, and joined.
Leaves(w) ==
  /\ Works(w, "leaving", "ending")
  /\ stopping' = [stopping EXCEPT ![w] = TRUE]
  /\ UNCHANGED <<snapshots, controls>>

Ends(w) ==
  /\ snapshots[w] \in {"none", "done"} /\ Works(w, "ending", "exited")
  /\ UNCHANGED <<snapshots, stopping, controls>>

\* _snapshot_worker()
ChecksSnapshots(w) ==
  /\ Runs(w) /\ snapshots[w] = "checking"
  /\ snapshots' = [snapshots EXCEPT ![w] = IF stopping[w] THEN "done" ELSE "waiting"]
  /\ UNCHANGED <<worker, stopping, controls>>
SnapshotsWake(w) ==
  /\ Runs(w) /\ snapshots[w] = "waiting"
  /\ snapshots' = [snapshots EXCEPT ![w] = IF stopping[w] THEN "done" ELSE "checking"]
  /\ UNCHANGED <<worker, stopping, controls>>

\* The process is killed, or the machine restarts.
WorkerDies(w) ==
  /\ Runs(w) /\ worker' = [worker EXCEPT ![w] = "exited"]
  /\ UNCHANGED <<snapshots, stopping, controls>>

-----------------------------------------------------------------------------
(* start_worker() and stop_worker() *)

\* SIGTERM.
Signal(w) ==
  IF worker[w] = "starting"
    THEN worker' = [worker EXCEPT ![w] = "exited"] /\ UNCHANGED stopping
  ELSE IF Runs(w)
    THEN stopping' = [stopping EXCEPT ![w] = TRUE] /\ UNCHANGED worker
  ELSE UNCHANGED <<worker, stopping>>

CommandBecomes(c, op, pid, saw) ==
  command' = [command EXCEPT ![c] = [op |-> op, pid |-> pid, saw |-> saw]]
Done(c) == command' = [command EXCEPT ![c] = NoCommand]
Op(c, op) == command[c].op = op

\* What another command has recorded since c read the file is lost when c changes it.
Overlooks(c) == lost' = lost \cup ({pidFile} \ {command[c].saw, 0})

\* start_worker(): a worker that runs is an error.
CheckStart(c) ==
  /\ Op(c, "none") /\ starts < MaxStarts /\ starts' = starts + 1
  /\ IF Runs(pidFile) THEN Done(c) ELSE CommandBecomes(c, "unlink", 0, pidFile)
  /\ UNCHANGED <<pidFile, worker, snapshots, stopping, stops, dismissed, lost>>

Unlink(c) ==
  /\ Op(c, "unlink") /\ pidFile' = 0 /\ Overlooks(c) /\ CommandBecomes(c, "spawn", 0, 0)
  /\ UNCHANGED <<worker, snapshots, stopping, starts, stops, dismissed>>

\* subprocess.Popen(): a new process, or an error.
Spawn(c) ==
  /\ Op(c, "spawn")
  /\ \E w \in Pids :
       /\ worker[w] = "none" /\ \A v \in Pids : v < w => worker[v] # "none"
       /\ worker' = [worker EXCEPT ![w] = "starting"]
       /\ CommandBecomes(c, "record", w, 0)
  /\ UNCHANGED <<pidFile, snapshots, stopping, starts, stops, dismissed, lost>>
SpawnFails(c) == Op(c, "spawn") /\ Done(c)
  /\ UNCHANGED <<pidFile, worker, snapshots, stopping, starts, stops, dismissed, lost>>

\* MUTANT: a worker whose number cannot be written is left running.
AbandonWorker(c) == Op(c, "record") /\ Done(c)
  /\ UNCHANGED <<pidFile, worker, snapshots, stopping, starts, stops, dismissed, lost>>

\* _write_atomic() fails: the worker is told to go, or else only a warning is logged.
RecordFails(c) ==
  /\ Op(c, "record") /\ Done(c)
  /\ \/ /\ Signal(command[c].pid) /\ dismissed' = dismissed \cup {command[c].pid}
        /\ UNCHANGED lost
     \/ /\ lost' = lost \cup {command[c].pid}
        /\ UNCHANGED <<worker, stopping, dismissed>>
  /\ UNCHANGED <<pidFile, snapshots, starts, stops>>
Record(c) ==
  /\ Op(c, "record") /\ pidFile' = command[c].pid /\ Overlooks(c) /\ Done(c)
  /\ UNCHANGED <<worker, snapshots, stopping, starts, stops, dismissed>>

\* stop_worker(): without a worker that runs, the file goes.
CheckStop(c) ==
  /\ Op(c, "none") /\ stops < MaxStops /\ stops' = stops + 1
  /\ CommandBecomes(c, IF Runs(pidFile) THEN "signal" ELSE "forget", pidFile, pidFile)
  /\ UNCHANGED <<pidFile, worker, snapshots, stopping, starts, dismissed, lost>>

SendSignal(c) ==
  /\ Op(c, "signal") /\ CommandBecomes(c, "await", command[c].pid, command[c].saw)
  /\ Signal(command[c].pid)
  /\ UNCHANGED <<pidFile, snapshots, starts, stops, dismissed, lost>>

\* MUTANT: after ten seconds the worker is taken to have gone.
StopsWaiting(c) ==
  /\ Op(c, "await") /\ CommandBecomes(c, "forget", command[c].pid, command[c].saw)
  /\ UNCHANGED <<pidFile, worker, snapshots, stopping, starts, stops, dismissed, lost>>

\* Within ten seconds the worker is seen to have gone, or the command gives up.
AwaitExit(c) ==
  /\ Op(c, "await")
  /\ IF Runs(command[c].pid) THEN Done(c)
     ELSE CommandBecomes(c, "forget", command[c].pid, command[c].saw)
  /\ UNCHANGED <<pidFile, worker, snapshots, stopping, starts, stops, dismissed, lost>>

Forget(c) ==
  /\ Op(c, "forget") /\ pidFile' = 0 /\ Overlooks(c) /\ Done(c)
  /\ UNCHANGED <<worker, snapshots, stopping, starts, stops, dismissed>>

\* The command is killed or interrupted, or a file cannot be removed; a worker it has started
\* goes on.
CommandEnds(c) ==
  /\ ~Op(c, "none") /\ Done(c)
  /\ lost' = IF Op(c, "record") THEN lost \cup {command[c].pid} ELSE lost
  /\ UNCHANGED <<pidFile, worker, snapshots, stopping, starts, stops, dismissed>>

WorkerStep(w) ==
  \/ InstallsHandlers(w) \/ Loops(w) \/ Collects(w) \/ Wakes(w)
  \/ Leaves(w) \/ Ends(w) \/ ChecksSnapshots(w) \/ SnapshotsWake(w)

WorkerNext ==
  \/ \E w \in Pids :
       WorkerStep(w) \/ StartsSnapshots(w) \/ FailsToStart(w) \/ Breaks(w) \/ WorkerDies(w)
  \/ \E c \in Commands :
       \/ CheckStart(c) \/ Unlink(c) \/ Spawn(c) \/ SpawnFails(c) \/ Record(c) \/ RecordFails(c)
       \/ CheckStop(c) \/ SendSignal(c) \/ AwaitExit(c) \/ Forget(c) \/ CommandEnds(c)

\* The threads of a worker are scheduled, its collections and snapshot checks end, since
\* their operations are bounded by deadlines, and its waits run out.
WorkerFairness ==
  \A w \in Pids :
    /\ WF_wvars(InstallsHandlers(w) \/ Loops(w) \/ Collects(w) \/ Wakes(w) \/ Leaves(w) \/ Ends(w))
    /\ WF_wvars(ChecksSnapshots(w) \/ SnapshotsWake(w))

WorkerSpec == WorkerInit /\ [][WorkerNext]_wvars /\ WorkerFairness

-----------------------------------------------------------------------------
\* A worker that runs is in worker.pid, so stop reaches it and start refuses a second one, even
\* while a stop that it outlasts waits or has given up.  Else a start is about to record it, or
\* could not and told it to go; or it is lost: that start was cut off or its signal failed, or a
\* command has since changed the file that had read it before.
WorkerRecorded ==
  \A w \in Pids : Runs(w) =>
    \/ pidFile = w \/ w \in dismissed \/ w \in lost
    \/ \E c \in Commands : Op(c, "record") /\ command[c].pid = w

\* A worker that is asked to stop, or leaves its loop for whatever reason, is gone in the end:
\* the join of the snapshot thread never waits for ever.
WorkersStop ==
  \A w \in Pids : (stopping[w] \/ w \in dismissed \/ worker[w] = "leaving") ~> ~Runs(w)
=============================================================================
