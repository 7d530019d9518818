----------------------------- MODULE Reservation -----------------------------
(***************************************************************************)
(* The fenced reservation of one archive (snapshot/catalog.py).  Catalog   *)
(* objects, in any number of processes, share the object control.json,     *)
(* which changes only by compare-and-swap.  Each has a main thread that    *)
(* runs hold() and the operations of its body, and a renewal thread; the   *)
(* two share `_control_lock`, except that hold() releases without it.      *)
(*                                                                         *)
(* Time is a countdown: control.left is what remains of the lease.         *)
(* Object versions are never reused, so a version is represented by the    *)
(* set `current` of the threads whose last read is still what is stored.   *)
(***************************************************************************)
EXTENDS Integers

CONSTANTS Catalogs,        \* Catalog objects
          NoOne,           \* the absent owner
          Lease,           \* LEASE_SECONDS, in ticks
          Tries,           \* the iterations of a compare-and-swap loop (8)
          MaxFence,        \* bound: no claim starts once the fence is here
          JoinMayTimeOut   \* whether the renewal thread may outlive its join

ASSUME ReservationAssumption ==
  /\ NoOne \notin Catalogs
  /\ Lease \in Nat \ {0}
  /\ Tries \in Nat \ {0}
  /\ MaxFence \in Nat
  /\ JoinMayTimeOut \in BOOLEAN

VARIABLES
  control,  \* control.json: fence, holder and left of its reservation, and
            \* the author of its lifecycle records (their content abstracted)
  current,  \* the <<catalog, thread>> pairs whose last read is still stored
  main,     \* what the main thread of a catalog is doing
  goal,     \* what the check() in progress is for
  renewer,  \* what the renewal thread of a catalog is doing
  sent,     \* has the thread read and been authorised to write?
  tries,    \* iterations of the thread's loop that met a conflict
  age,      \* ticks since the thread read the document it will replace
  fence,    \* Catalog.fence
  failed    \* Catalog._failure is set

store == <<control, current>>
loops == <<sent, tries, age>>
vars == <<control, current, main, goal, renewer, sent, tries, age, fence, failed>>

Thread == {"main", "renewer"}
None == -1                       \* Catalog.fence before a claim and after a hold
Nobody == [by |-> NoOne, at |-> 0]

MainState == {"idle", "claim", "held", "check", "renew", "mutate", "join", "release"}
RenewerState == {"off", "wait", "due", "renew", "failing"}
Looping == {"claim", "renew", "mutate", "release"}     \* loops of the main thread

ControlType ==
  [fence: Int, holder: Catalogs \cup {NoOne}, left: 0 .. Lease,
   author: [by: Catalogs \cup {NoOne}, at: Int]]

TypeOK ==
  /\ control \in ControlType
  /\ current \in SUBSET (Catalogs \X Thread)
  /\ main \in [Catalogs -> MainState]
  /\ goal \in [Catalogs -> {"check", "mutate"}]
  /\ renewer \in [Catalogs -> RenewerState]
  /\ sent \in [Catalogs -> [Thread -> BOOLEAN]]
  /\ tries \in [Catalogs -> [Thread -> 0 .. Tries]]
  /\ age \in [Catalogs -> [Thread -> 0 .. Lease]]
  /\ fence \in [Catalogs -> Int]
  /\ failed \in [Catalogs -> BOOLEAN]

Init ==
  /\ control = [fence |-> 0, holder |-> NoOne, left |-> 0, author |-> Nobody]
  /\ current = {}
  /\ main = [c \in Catalogs |-> "idle"]
  /\ goal = [c \in Catalogs |-> "check"]
  /\ renewer = [c \in Catalogs |-> "off"]
  /\ sent = [c \in Catalogs |-> [t \in Thread |-> FALSE]]
  /\ tries = [c \in Catalogs |-> [t \in Thread |-> 0]]
  /\ age = [c \in Catalogs |-> [t \in Thread |-> 0]]
  /\ fence = [c \in Catalogs |-> None]
  /\ failed = [c \in Catalogs |-> FALSE]

-----------------------------------------------------------------------------
(* The control document.                                                   *)

\* control() refuses a document whose fence is not a natural number.
Readable == control.fence # None

\* The reservation that check(), mutate() and a renewal demand.
Authority(c) ==
  /\ Readable
  /\ control.holder = c
  /\ control.fence = fence[c]
  /\ control.left > 0

\* MUTANT: the expiry counts from the write and not from the read, twice over.
ReservedTooLong(c, t) ==
  [control EXCEPT !.fence = fence[c], !.holder = c, !.left = Lease + age[c][t]]

\* The document a claim or a renewal writes: it expires a lease after its read,
\* and takes Catalog.fence, which the two threads share, as it finds it after the
\* thread was authorised.
Reserved(c, t) ==
  [control EXCEPT !.fence = fence[c], !.holder = c, !.left = Lease - age[c][t]]

MainDocument(c) ==
  CASE main[c] \in {"claim", "renew"} -> Reserved(c, "main")
    [] main[c] = "mutate" -> [control EXCEPT !.author = [by |-> c, at |-> fence[c]]]
    [] main[c] = "release" -> [control EXCEPT !.holder = NoOne, !.left = 0]

\* MUTANT: the write does not compare versions.
AppliedBlindly(c, t, document) == control' = document /\ current' = {}

\* The store replaces the document only if the version read is still stored.
Applied(c, t, document) ==
  /\ <<c, t>> \in current
  /\ control' = document
  /\ current' = {}

Refused(c, t) == <<c, t>> \notin current /\ UNCHANGED store

\* The thread forgets what it read.
Abandoned(c, t) ==
  /\ current' = current \ {<<c, t>>}
  /\ UNCHANGED control

\* The thread reads the document and is authorised to replace it.
Observe(c, t) ==
  /\ sent' = [sent EXCEPT ![c][t] = TRUE]
  /\ age' = [age EXCEPT ![c][t] = 0]
  /\ current' = current \cup {<<c, t>>}
  /\ UNCHANGED <<control, tries>>

\* The thread leaves its loop.
EndLoop(c, t) ==
  /\ sent' = [sent EXCEPT ![c][t] = FALSE]
  /\ age' = [age EXCEPT ![c][t] = 0]
  /\ tries' = [tries EXCEPT ![c][t] = 0]

\* MUTANT: `while True` in place of eight iterations.
RetryForever(c, t) ==
  /\ sent' = [sent EXCEPT ![c][t] = FALSE]
  /\ age' = [age EXCEPT ![c][t] = 0]
  /\ UNCHANGED tries

\* It goes round the loop once more.
Retry(c, t) ==
  /\ sent' = [sent EXCEPT ![c][t] = FALSE]
  /\ age' = [age EXCEPT ![c][t] = 0]
  /\ tries' = [tries EXCEPT ![c][t] = @ + 1]

LastTry(c, t) == tries[c][t] + 1 >= Tries

\* Who holds `_control_lock`.
MainLocks(c) == main[c] \in {"claim", "check", "renew", "mutate"}
RenewerLocks(c) == renewer[c] = "renew"

-----------------------------------------------------------------------------
(* The main thread: hold(), check(), mutate().                             *)

\* An operation that raises returns to the body of hold(); a failed claim and a
\* failed release leave the catalog unreserved, and release drops the fence.
Fails(c) ==
  /\ main' = [main EXCEPT ![c] = IF main[c] \in {"claim", "release"} THEN "idle" ELSE "held"]
  /\ fence' = [fence EXCEPT ![c] = IF main[c] = "release" THEN None ELSE @]
  /\ goal' = [goal EXCEPT ![c] = "check"]
  /\ EndLoop(c, "main")
  /\ UNCHANGED <<renewer, failed>>

Goto(c, state) ==
  /\ main' = [main EXCEPT ![c] = state]
  /\ goal' = [goal EXCEPT ![c] = IF state = "renew" THEN @ ELSE "check"]
  /\ UNCHANGED <<renewer, fence, failed>>

\* hold() of a fresh Catalog.
StartClaim(c) ==
  /\ main[c] = "idle" /\ renewer[c] = "off"
  /\ Readable => control.fence < MaxFence
  /\ main' = [main EXCEPT ![c] = "claim"]
  /\ failed' = [failed EXCEPT ![c] = FALSE]
  /\ UNCHANGED <<store, loops, goal, renewer, fence>>

\* MUTANT: a claim keeps the fence of the lapsed reservation it replaces.
ClaimReadSameFence(c) ==
  /\ main[c] = "claim" /\ ~sent[c]["main"]
  /\ IF Readable /\ control.left = 0
     THEN /\ fence' = [fence EXCEPT ![c] = IF control.fence = 0 THEN 1 ELSE control.fence]
          /\ Observe(c, "main")
          /\ UNCHANGED <<main, goal, renewer, failed>>
     ELSE Fails(c) /\ UNCHANGED store

\* A live reservation of anyone, oneself included, is ArchiveBusy.
ClaimRead(c) ==
  /\ main[c] = "claim" /\ ~sent[c]["main"]
  /\ IF Readable /\ control.left = 0
     THEN /\ fence' = [fence EXCEPT ![c] = control.fence + 1]
          /\ Observe(c, "main")
          /\ UNCHANGED <<main, goal, renewer, failed>>
     ELSE Fails(c) /\ UNCHANGED store

\* The body calls check(), or an operation that calls mutate().
StartOperation(c) ==
  /\ main[c] = "held" /\ ~RenewerLocks(c)
  /\ main' = [main EXCEPT ![c] = "check"]
  /\ \E g \in {"check", "mutate"} : goal' = [goal EXCEPT ![c] = g]
  /\ UNCHANGED <<store, loops, renewer, fence, failed>>

AfterCheck(c) == IF goal[c] = "mutate" THEN "mutate" ELSE "held"

\* check() renews once a third of the lease is gone.
Check(c) ==
  /\ main[c] = "check"
  /\ IF ~failed[c] /\ Authority(c)
     THEN Goto(c, IF 3 * control.left <= 2 * Lease THEN "renew" ELSE AfterCheck(c))
          /\ UNCHANGED loops
     ELSE Fails(c)
  /\ UNCHANGED store

\* MUTANT: mutate() relies on the check() before it.
UnauthorisedRead(c) ==
  /\ main[c] \in {"renew", "mutate"} /\ ~sent[c]["main"]
  /\ Observe(c, "main") /\ UNCHANGED <<main, goal, renewer, fence, failed>>

\* One iteration of a renewal, or of mutate(), up to its write.
AuthorisedRead(c) ==
  /\ main[c] \in {"renew", "mutate"} /\ ~sent[c]["main"]
  /\ IF Authority(c)
     THEN Observe(c, "main") /\ UNCHANGED <<main, goal, renewer, fence, failed>>
     ELSE Fails(c) /\ UNCHANGED store

\* hold() ends: stop is set and the renewal thread is joined, within a budget.
Leave(c) == main[c] = "held" /\ Goto(c, "join") /\ UNCHANGED <<store, loops>>

Join(c) ==
  /\ main[c] = "join"
  /\ renewer[c] = "off" \/ JoinMayTimeOut
  /\ Goto(c, "release")
  /\ UNCHANGED <<store, loops>>

\* MUTANT: release does not look whose reservation it clears.
ReleaseReadAny(c) ==
  /\ main[c] = "release" /\ ~sent[c]["main"]
  /\ Observe(c, "main") /\ UNCHANGED <<main, goal, renewer, fence, failed>>

\* Only one's own reservation is released, whether or not it has run out.
ReleaseRead(c) ==
  /\ main[c] = "release" /\ ~sent[c]["main"]
  /\ IF Readable /\ control.holder = c /\ control.fence = fence[c]
     THEN Observe(c, "main") /\ UNCHANGED <<main, goal, renewer, fence, failed>>
     ELSE Fails(c) /\ UNCHANGED store

\* `limited`: the caller gives up when the lease it relied on has run out.
InTime(c) ==
  CASE main[c] = "claim" -> age[c]["main"] < Lease
    [] main[c] \in {"renew", "mutate"} -> control.left > 0
    [] OTHER -> TRUE

\* The write is applied and the reply arrives.
MainCommits(c) ==
  /\ main[c] \in Looping /\ sent[c]["main"] /\ InTime(c)
  /\ Applied(c, "main", MainDocument(c))
  /\ EndLoop(c, "main")
  /\ main' = [main EXCEPT ![c] =
       IF @ = "renew" THEN AfterCheck(c) ELSE IF @ = "release" THEN "idle" ELSE "held"]
  /\ renewer' = [renewer EXCEPT ![c] = IF main[c] = "claim" THEN "wait" ELSE @]
  /\ goal' = [goal EXCEPT ![c] = "check"]
  /\ fence' = [fence EXCEPT ![c] = IF main[c] = "release" THEN None ELSE @]
  /\ UNCHANGED failed

\* The write is refused, or it was applied, its reply was lost and the store's
\* client repeated it and was refused: the loop reads again.
MainConflicts(c) ==
  /\ main[c] \in Looping /\ sent[c]["main"]
  /\ Refused(c, "main") \/ Applied(c, "main", MainDocument(c))
  /\ IF LastTry(c, "main")
     THEN Fails(c)
     ELSE Retry(c, "main") /\ UNCHANGED <<main, goal, renewer, fence, failed>>

\* A read or a write raises; a write that raises may have been applied.
MainRaises(c) ==
  /\ main[c] \in Looping \cup {"check"}
  /\ \/ Abandoned(c, "main")
     \/ main[c] \in Looping /\ sent[c]["main"] /\ Applied(c, "main", MainDocument(c))
  /\ Fails(c)

-----------------------------------------------------------------------------
(* The renewal thread.                                                     *)

Renewal(c, state) ==
  /\ renewer' = [renewer EXCEPT ![c] = state]
  /\ UNCHANGED <<main, goal, fence>>

Stopped(c) == main[c] \in {"idle", "join", "release"}

\* stop.wait() returns: the interval is over, or stop was set.
RenewerWakes(c) ==
  /\ renewer[c] = "wait"
  /\ Renewal(c, IF Stopped(c) THEN "off" ELSE "due")
  /\ UNCHANGED <<store, loops, failed>>

RenewerLocked(c) ==
  /\ renewer[c] = "due" /\ ~MainLocks(c)
  /\ Renewal(c, "renew")
  /\ UNCHANGED <<store, loops, failed>>

RenewerRead(c) ==
  /\ renewer[c] = "renew" /\ ~sent[c]["renewer"]
  /\ IF Authority(c)
     THEN Observe(c, "renewer") /\ UNCHANGED <<main, goal, renewer, fence>>
     ELSE Renewal(c, "failing") /\ EndLoop(c, "renewer") /\ UNCHANGED store
  /\ UNCHANGED failed

RenewerCommits(c) ==
  /\ renewer[c] = "renew" /\ sent[c]["renewer"] /\ control.left > 0
  /\ Applied(c, "renewer", Reserved(c, "renewer"))
  /\ Renewal(c, "wait")
  /\ EndLoop(c, "renewer")
  /\ UNCHANGED failed

RenewerConflicts(c) ==
  /\ renewer[c] = "renew" /\ sent[c]["renewer"]
  /\ Refused(c, "renewer") \/ Applied(c, "renewer", Reserved(c, "renewer"))
  /\ IF LastTry(c, "renewer")
     THEN Renewal(c, "failing") /\ EndLoop(c, "renewer")
     ELSE Renewal(c, "renew") /\ Retry(c, "renewer")
  /\ UNCHANGED failed

RenewerRaises(c) ==
  /\ renewer[c] = "renew"
  /\ \/ Abandoned(c, "renewer")
     \/ sent[c]["renewer"] /\ Applied(c, "renewer", Reserved(c, "renewer"))
  /\ Renewal(c, "failing")
  /\ EndLoop(c, "renewer")
  /\ UNCHANGED failed

\* The lock is released before the failure is recorded and the thread ends.
RenewerFails(c) ==
  /\ renewer[c] = "failing"
  /\ failed' = [failed EXCEPT ![c] = TRUE]
  /\ Renewal(c, "off")
  /\ UNCHANGED <<store, loops>>

-----------------------------------------------------------------------------
\* The process dies; a fresh Catalog takes its place.
Crash(c) ==
  /\ main[c] # "idle" \/ renewer[c] # "off"
  /\ main' = [main EXCEPT ![c] = "idle"]
  /\ renewer' = [renewer EXCEPT ![c] = "off"]
  /\ fence' = [fence EXCEPT ![c] = None]
  /\ sent' = [sent EXCEPT ![c] = [t \in Thread |-> FALSE]]
  /\ tries' = [tries EXCEPT ![c] = [t \in Thread |-> 0]]
  /\ age' = [age EXCEPT ![c] = [t \in Thread |-> 0]]
  /\ current' = current \ ({c} \X Thread)
  /\ goal' = [goal EXCEPT ![c] = "check"]
  /\ failed' = [failed EXCEPT ![c] = FALSE]
  /\ UNCHANGED control

\* Time passes for the lease and for every write under way.
Tick ==
  /\ control' = [control EXCEPT !.left = IF @ > 0 THEN @ - 1 ELSE 0]
  /\ age' = [c \in Catalogs |-> [t \in Thread |->
       IF sent[c][t] /\ age[c][t] < Lease THEN age[c][t] + 1 ELSE age[c][t]]]
  /\ UNCHANGED <<current, main, goal, renewer, sent, tries, fence, failed>>

MainLoops(c) ==
  \/ ClaimRead(c) \/ Check(c) \/ AuthorisedRead(c) \/ Join(c) \/ ReleaseRead(c)
  \/ MainCommits(c) \/ MainConflicts(c) \/ MainRaises(c)

RenewerLoops(c) ==
  \/ RenewerWakes(c) \/ RenewerLocked(c) \/ RenewerRead(c) \/ RenewerCommits(c)
  \/ RenewerConflicts(c) \/ RenewerRaises(c) \/ RenewerFails(c)

Next ==
  \/ Tick
  \/ \E c \in Catalogs :
       StartClaim(c) \/ StartOperation(c) \/ Leave(c) \/ MainLoops(c) \/ RenewerLoops(c) \/ Crash(c)

Spec == Init /\ [][Next]_vars
-----------------------------------------------------------------------------
(* Correctness.                                                            *)

\* The catalogs whose hold() has been granted and has not ended.
Established(c) == main[c] \in {"held", "check", "renew", "mutate", "join", "release"}

\* Two catalogs inside hold() never have the same fence, however their claims
\* raced and whether or not their leases still run: what a stale owner stamps
\* on a record is never taken for the work of the present one.
HeldFencesDistinct ==
  \A c, d \in Catalogs :
    c # d /\ Established(c) /\ Established(d) => fence[c] # fence[d]

\* Whatever mutate() commits is the work of the catalog that holds the
\* reservation at the instant of the commit, at the fence of that reservation:
\* a catalog overtaken between its check and its write changes nothing.
ChangesFenced ==
  [][control'.author # control.author =>
       control'.author = [by |-> control.holder, at |-> control.fence]]_vars

\* A reservation whose lease still runs is taken away by nobody: it changes
\* hands only after it ran out, and ends early only by its own holder's release.
LiveLeaseKept ==
  [][control.left > 0 /\ control'.holder # control.holder =>
       /\ control'.holder = NoOne
       /\ main[control.holder] = "release"]_vars

\* The message of a failed release says "claim will expire": once the lease of
\* a reservation has run out, the document can be read and so be claimed.
ClaimWillExpire == control.holder # NoOne /\ control.left = 0 => Readable

\* The reservation implements the promise of FencedArchive.
Promise == INSTANCE FencedArchive WITH
  fence <- control.fence, holder <- control.holder, author <- control.author
KeepsPromise == Promise!Spec
=============================================================================
