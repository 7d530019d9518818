-------------------------------- MODULE Bucket --------------------------------
(***************************************************************************)
(* One object of a snapshot bucket: the local adapter, with its lock and   *)
(* its atomic replacement (buckets/local.py), and the GCS adapter, with    *)
(* generation preconditions, requests that are lost or late, and retries   *)
(* (buckets/gcs.py).                                                       *)
(***************************************************************************)
EXTENDS Naturals, Sequences

CONSTANTS Calls,      \* the calls, of any processes
          Providers,  \* "local", "gcs"
          Tries,   \* _RETRY_ATTEMPTS
          MaxLosses   \* bound: requests, replies and processes that are lost

ASSUME BucketAssumption ==
  Providers \subseteq {"local", "gcs"} /\ Tries \in Nat \ {0} /\ MaxLosses \in Nat

VARIABLES
  provider,  \* the adapter of the bucket
  history,   \* every content the object has had, by version: the calls merged into it
  current,   \* its version, 0 when there is no object
  call,      \* the calls
  flight,    \* gcs: requests on their way
  losses,
  effected    \* for the properties: the calls that replaced or deleted what they had read

bvars == <<provider, history, current, call, flight, losses, effected>>

Kinds == {"create", "update", "delete"}
\* n: the attempt; own: the versions it made; result: what the caller is told, with got.
Unborn == [kind |-> "create", at |-> "unborn", seen |-> 0, read |-> {}, n |-> 0, own |-> {},
           result |-> "none", got |-> 0]

BucketInit ==
  /\ provider \in Providers /\ history = <<>> /\ current = 0
  /\ call = [c \in Calls |-> Unborn] /\ flight = {} /\ losses = 0 /\ effected = {}

CallAt(c, where) == call[c].at = where
Moves(c, where) == call' = [call EXCEPT ![c].at = where]
CallEnds(c, result, got) ==
  call' = [call EXCEPT ![c].at = "ended", ![c].result = result, ![c].got = got]
Lose == losses < MaxLosses /\ losses' = losses + 1
object == <<history, current, effected>>
Present(v) == IF v = 0 THEN {} ELSE history[v]

\* The object is replaced or deleted by c, from what c read.
Takes(c, kind, read) ==
  /\ effected' = IF kind = "create" THEN effected ELSE effected \cup {c}
  /\ IF kind = "delete" THEN current' = 0 /\ UNCHANGED history
     ELSE history' = Append(history, read \cup {c}) /\ current' = Len(history')

-----------------------------------------------------------------------------
\* An upload reads nothing: its name is to be new.  write_json_cas() and delete() are
\* called with the version of an earlier read.
BeginCall(c) ==
  /\ CallAt(c, "unborn")
  /\ \E kind \in Kinds :
       call' = [call EXCEPT ![c].kind = kind,
                            ![c].at = IF kind = "create" THEN "ready" ELSE "read"]
  /\ UNCHANGED <<provider, object, flight, losses>>

\* Reads that find no object: an update will create it, a delete is not called.
Found(c, v) ==
  IF v = 0 /\ call[c].kind = "delete" THEN CallEnds(c, "nothing", 0)
  ELSE call' = [call EXCEPT ![c].seen = v, ![c].read = Present(v),
                            ![c].kind = IF v = 0 THEN "create" ELSE @, ![c].at = "ready"]

-----------------------------------------------------------------------------
(* local *)

Local(c, where) == provider = "local" /\ CallAt(c, where)

\* One open descriptor gives content and version.
ReadLocal(c) ==
  /\ Local(c, "read") /\ Found(c, current)
  /\ UNCHANGED <<provider, object, flight, losses>>

LockLocal(c) ==
  /\ Local(c, "ready")
  /\ \A x \in Calls : call[x].at \notin {"compare", "replace", "stat"}
  /\ Moves(c, "compare")
  /\ UNCHANGED <<provider, object, flight, losses>>

Compare(c) ==
  /\ Local(c, "compare")
  /\ IF current = call[c].seen THEN Moves(c, "replace") ELSE CallEnds(c, "conflict", 0)
  /\ UNCHANGED <<provider, object, flight, losses>>

ReplaceLocal(c) ==
  /\ Local(c, "replace") /\ Takes(c, call[c].kind, call[c].read)
  /\ call' = [call EXCEPT ![c].at = "stat", ![c].own = @ \cup {current'}]
  /\ UNCHANGED <<provider, flight, losses>>

StatLocal(c) ==
  /\ Local(c, "stat") /\ CallEnds(c, "done", current)
  /\ UNCHANGED <<provider, object, flight, losses>>

\* An error, or the end of the process, which frees the lock.
FailLocal(c) ==
  /\ Lose /\ provider = "local" /\ call[c].at \notin {"unborn", "ended"} /\ CallEnds(c, "error", 0)
  /\ UNCHANGED <<provider, object, flight>>

-----------------------------------------------------------------------------
(* gcs *)

Gcs(c, where) == provider = "gcs" /\ CallAt(c, where)

ReadMetadata(c) ==
  /\ Gcs(c, "read")
  /\ IF current = 0 THEN Found(c, 0)
     ELSE call' = [call EXCEPT ![c].seen = current, ![c].at = "content"]
  /\ UNCHANGED <<provider, object, flight, losses>>

\* MUTANT: the content is that of the latest generation.
DownloadLatest(c) ==
  /\ Gcs(c, "content") /\ current # 0
  /\ call' = [call EXCEPT ![c].read = Present(current), ![c].at = "ready"]
  /\ UNCHANGED <<provider, object, flight, losses>>

\* if_generation_match: the content is that of the metadata, or none.
Download(c) ==
  /\ Gcs(c, "content")
  /\ IF current = call[c].seen THEN Found(c, current) ELSE CallEnds(c, "conflict", 0)
  /\ UNCHANGED <<provider, object, flight, losses>>

Send(c) ==
  /\ Gcs(c, "ready")
  /\ call' = [call EXCEPT ![c].n = @ + 1, ![c].at = "wait"]
  /\ flight' = flight \cup {[c |-> c, n |-> call[c].n + 1]}
  /\ UNCHANGED <<provider, object, losses>>

\* MUTANT: the precondition is left out.
Replaceable(c) == TRUE

\* The precondition of a request: the generation that was read, 0 for a new name.
Matches(c) == current = call[c].seen

Waits(r) == CallAt(r.c, "wait") /\ call[r.c].n = r.n

\* The service takes a request, however late.  The answer is heard unless it is lost, or its
\* attempt has been given up.
Serve(r, heard) ==
  /\ r \in flight /\ flight' = flight \ {r}
  /\ IF heard THEN Waits(r) /\ UNCHANGED losses
     ELSE IF Waits(r) THEN Lose ELSE UNCHANGED losses
  /\ IF Matches(r.c)
       THEN /\ Takes(r.c, call[r.c].kind, call[r.c].read)
            /\ call' = [call EXCEPT ![r.c].own = @ \cup {current'},
                          ![r.c].got = IF heard THEN current' ELSE @,
                          ![r.c].at = IF ~heard THEN @ ELSE IF call[r.c].kind = "delete" THEN "told"
                                      ELSE "reload"]
       ELSE /\ UNCHANGED object
            /\ IF heard THEN CallEnds(r.c, "conflict", 0) ELSE UNCHANGED call
  /\ UNCHANGED provider

\* No answer within the time of a request: the next attempt has the same precondition.
RequestTimesOut(c) ==
  /\ Gcs(c, "wait")
  /\ IF [c |-> c, n |-> call[c].n] \in flight THEN Lose ELSE UNCHANGED losses
  /\ IF call[c].n < Tries THEN Moves(c, "ready") ELSE CallEnds(c, "error", 0)
  /\ UNCHANGED <<provider, object, flight>>

LosesRequest(r) ==
  /\ Lose /\ r \in flight /\ flight' = flight \ {r}
  /\ UNCHANGED <<provider, object, call>>

Told(c) ==
  /\ Gcs(c, "told") /\ CallEnds(c, "done", 0)
  /\ UNCHANGED <<provider, object, flight, losses>>

\* MUTANT: the metadata is that of the latest generation.
ReloadLatest(c) ==
  /\ Gcs(c, "reload") /\ CallEnds(c, "done", current)
  /\ UNCHANGED <<provider, object, flight, losses>>

\* reload() asks for the generation that the upload returned.
Reload(c) ==
  /\ Gcs(c, "reload")
  /\ IF current = call[c].got THEN CallEnds(c, "done", current) ELSE CallEnds(c, "error", 0)
  /\ UNCHANGED <<provider, object, flight, losses>>

-----------------------------------------------------------------------------
CallProceeds(c) ==
  \/ ReadLocal(c) \/ LockLocal(c) \/ Compare(c) \/ ReplaceLocal(c) \/ StatLocal(c)
  \/ ReadMetadata(c) \/ Download(c) \/ Send(c) \/ Told(c) \/ Reload(c)

BucketNext ==
  \/ \E c \in Calls : BeginCall(c) \/ CallProceeds(c) \/ FailLocal(c) \/ RequestTimesOut(c)
  \/ \E r \in flight : LosesRequest(r) \/ \E heard \in BOOLEAN : Serve(r, heard)

BucketSpec == BucketInit /\ [][BucketNext]_bvars

-----------------------------------------------------------------------------
(* The adapters implement the object that SnapshotBucket promises: nothing   *)
(* is written over a version that was not read, whatever is late or retried. *)
Object == INSTANCE VersionedObject
KeepsVersions == Object!ObjectSpec

\* A caller that is told of success gets the version it wrote itself, to fence its next write
\* with; a caller of the local adapter that is told of a conflict has changed nothing.
AnswersTrue ==
  \A c \in Calls :
    /\ call[c].result = "done" => call[c].got \in call[c].own
    /\ call[c].result = "conflict" /\ provider = "local" => c \notin effected

\* What is read is the content of the version it is read with, which is what it will be fenced by.
ReadsVersion == \A c \in Calls : CallAt(c, "ready") => call[c].read = Present(call[c].seen)
=============================================================================
