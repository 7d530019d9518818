------------------------------ MODULE Supervised ------------------------------
(***************************************************************************)
(* A resource in a child process (deadlines.py), which MotherDuck uses.    *)
(*                                                                         *)
(* Threads of the owner exchange requests and replies with the child over  *)
(* a pair of pipes, one at a time, under a lock.  The child gives each     *)
(* operation a timer that interrupts it at its deadline.  An owner that    *)
(* has waited for the deadline and the cleanup grace kills the child and   *)
(* declares the resource closed.  Time is left out: a wait that is bounded *)
(* may run out at any moment.                                              *)
(***************************************************************************)
EXTENDS Naturals, Sequences, Functions

CONSTANTS Threads,     \* threads of the owner that share the resource
          MaxRequests  \* bound: the requests, numbered from 1; the first constructs

ASSUME SupervisedAssumption == MaxRequests \in Nat \ {0}

VARIABLES
  thread,    \* per thread: where it is in an exchange, for which request
  lock,      \* the threads inside the lock: none, or one
  shut,      \* _closed
  owner,     \* is the owning process alive?
  inbox, outbox,  \* the pipes
  child,     \* the child: what it does, for which request
  timers,    \* per request: its timer
  released,  \* how often the adapter's close has run
  sent,      \* how many requests were made
  answer,    \* for the properties: per request, the request its caller got a reply to
  struck     \* for the properties: <<request of the timer, request that was interrupted>>

sidecars == <<answer, struck>>
svars == <<thread, lock, shut, owner, inbox, outbox, child, timers, released, sent, sidecars>>

Requests == 1 .. MaxRequests
Kinds == {"start", "call", "close"}
Resting == [at |-> "idle", request |-> 0, kind |-> "call"]

SupervisedInit ==
  /\ thread = [t \in Threads |-> Resting]
  /\ lock = {} /\ shut = FALSE /\ owner = TRUE
  /\ inbox = <<>> /\ outbox = <<>>
  /\ child = [does |-> "reads", request |-> 0, kind |-> "call", ready |-> FALSE, broken |-> FALSE]
  /\ timers = [r \in Requests |-> "none"] /\ released = 0 /\ sent = 0
  /\ answer = [r \in Requests |-> 0] /\ struck = {}

-----------------------------------------------------------------------------
(* The owner: SupervisedResource. *)

ThreadAt(t, place) == owner /\ thread[t].at = place
GoesTo(t, place) == thread' = [thread EXCEPT ![t].at = place]
ThreadReturns(t) == thread' = [thread EXCEPT ![t] = Resting]
Release(t) == lock' = lock \ {t}

\* _terminate(): the child is killed and reaped, and the pipes are closed.
Terminate ==
  /\ shut' = TRUE /\ child' = [child EXCEPT !.does = "dead"]
  /\ inbox' = <<>> /\ outbox' = <<>>

\* __init__() makes the first exchange; then call() and close() each make one, unless the
\* resource is known to be closed.
MakeRequest(t) ==
  /\ ThreadAt(t, "idle") /\ sent < MaxRequests /\ ~shut
  /\ sent = 0 \/ child.ready
  /\ \E kind \in IF sent = 0 THEN {"start"} ELSE {"call", "close"} :
       thread' = [thread EXCEPT ![t] = [at |-> "locks", request |-> sent + 1, kind |-> kind]]
  /\ sent' = sent + 1
  /\ UNCHANGED <<lock, shut, owner, inbox, outbox, child, timers, released, sidecars>>

\* The lock, or no lock in time; close() terminates the child all the same.
Acquire(t) ==
  /\ ThreadAt(t, "locks") /\ lock = {} /\ lock' = {t} /\ GoesTo(t, "sends")
  /\ UNCHANGED <<shut, owner, inbox, outbox, child, timers, released, sent, sidecars>>
AcquireTimesOut(t) ==
  /\ ThreadAt(t, "locks") /\ lock # {} /\ ThreadReturns(t)
  /\ IF thread[t].kind = "close" THEN Terminate ELSE UNCHANGED <<shut, child, inbox, outbox>>
  /\ UNCHANGED <<lock, owner, timers, released, sent, sidecars>>

\* The request is written, unless another thread has closed the resource, or the child is gone.
Send(t) ==
  /\ ThreadAt(t, "sends")
  /\ IF shut \/ child.does = "dead"
       THEN /\ Terminate /\ ThreadReturns(t) /\ Release(t)
       ELSE /\ inbox' = Append(inbox, [request |-> thread[t].request, kind |-> thread[t].kind])
            /\ GoesTo(t, "waits")
            /\ UNCHANGED <<lock, shut, outbox, child>>
  /\ UNCHANGED <<owner, timers, released, sent, sidecars>>

\* The reply: the resource goes on after an error or an operation that expired, and is
\* terminated when the child says it is invalid, or was to be closed, or did not start.
Receive(t) ==
  /\ ThreadAt(t, "waits") /\ outbox # <<>>
  /\ answer' = [answer EXCEPT ![thread[t].request] = Head(outbox).request]
  /\ ThreadReturns(t) /\ Release(t)
  /\ IF \/ Head(outbox).outcome = "invalid" \/ thread[t].kind = "close"
        \/ thread[t].kind = "start" /\ Head(outbox).outcome # "value"
       THEN Terminate
       ELSE outbox' = Tail(outbox) /\ UNCHANGED <<shut, child, inbox>>
  /\ UNCHANGED <<owner, timers, released, sent, struck>>

\* MUTANT: a call that has waited long enough leaves the child alone.
WaitTimesOutQuietly(t) ==
  /\ ThreadAt(t, "waits") /\ ThreadReturns(t) /\ Release(t)
  /\ UNCHANGED <<shut, owner, inbox, outbox, child, timers, released, sent, sidecars>>

\* MUTANT: a call waits for as long as the child lives.
WaitTimesOutOnDeath(t) ==
  /\ ThreadAt(t, "waits") /\ child.does = "dead" /\ Terminate /\ ThreadReturns(t) /\ Release(t)
  /\ UNCHANGED <<owner, timers, released, sent, sidecars>>

\* The wait runs out, the pipe ends in the middle, or the user interrupts.
WaitTimesOut(t) ==
  /\ ThreadAt(t, "waits") /\ Terminate /\ ThreadReturns(t) /\ Release(t)
  /\ UNCHANGED <<owner, timers, released, sent, sidecars>>

OwnerDies ==
  /\ owner /\ owner' = FALSE
  /\ UNCHANGED <<thread, lock, shut, inbox, outbox, child, timers, released, sent, sidecars>>

-----------------------------------------------------------------------------
(* The child: _resource_worker(). *)

Doing(what) == child.does = what
ChildDoes(what) == child' = [child EXCEPT !.does = what]

TakeRequest ==
  /\ Doing("reads") /\ inbox # <<>> /\ inbox' = Tail(inbox)
  /\ child' = [child EXCEPT !.does = "executes", !.request = Head(inbox).request,
                            !.kind = Head(inbox).kind, !.broken = FALSE]
  /\ timers' = IF Head(inbox).kind = "start" THEN timers
               ELSE [timers EXCEPT ![Head(inbox).request] = "armed"]
  /\ UNCHANGED <<thread, lock, shut, owner, outbox, released, sent, sidecars>>

\* The operation does not come back by itself.
Stall ==
  /\ Doing("executes") /\ ChildDoes("stalls")
  /\ UNCHANGED <<thread, lock, shut, owner, inbox, outbox, timers, released, sent, sidecars>>

\* The operation ends, well or not.  Once it has run, close is done with the resource.
Execute ==
  /\ Doing("executes")
  /\ \E broken \in BOOLEAN :
       child' = [child EXCEPT !.does = IF child.kind = "start" THEN "replies" ELSE "cancels",
                   !.broken = broken, !.ready = @ \/ (child.kind = "start" /\ ~broken)]
  /\ released' = IF child.kind = "close" THEN released + 1 ELSE released
  /\ UNCHANGED <<thread, lock, shut, owner, inbox, outbox, timers, sent, sidecars>>

\* The deadline: the timer's thread starts, and interrupts whatever the resource then does.
Fire(r) ==
  /\ child.does # "dead" /\ timers[r] = "armed" /\ timers' = [timers EXCEPT ![r] = "fires"]
  /\ UNCHANGED <<thread, lock, shut, owner, inbox, outbox, child, released, sent, sidecars>>
Strike(r) ==
  /\ child.does # "dead" /\ timers[r] = "fires" /\ timers' = [timers EXCEPT ![r] = "done"]
  /\ IF child.does \in {"executes", "stalls"}
       THEN /\ struck' = struck \cup {<<r, child.request>>}
            /\ child' = [child EXCEPT !.does = "cancels", !.broken = TRUE]
       ELSE UNCHANGED <<struck, child>>
  /\ UNCHANGED <<thread, lock, shut, owner, inbox, outbox, released, sent, answer>>

\* MUTANT: the reply does not wait for a timer that fires.
CancelQuickly ==
  /\ Doing("cancels") /\ ChildDoes("replies")
  /\ timers' = [timers EXCEPT ![child.request] = IF @ = "armed" THEN "done" ELSE @]
  /\ UNCHANGED <<thread, lock, shut, owner, inbox, outbox, released, sent, sidecars>>

\* The timer is cancelled.  When it fires already it is joined, and when that takes too long
\* the resource is invalid.
CancelTimer ==
  /\ Doing("cancels")
  /\ timers' = [timers EXCEPT ![child.request] = IF @ = "armed" THEN "done" ELSE @]
  /\ ChildDoes(IF timers[child.request] = "fires" THEN "invalidates" ELSE "replies")
  /\ UNCHANGED <<thread, lock, shut, owner, inbox, outbox, released, sent, sidecars>>

\* MUTANT: the resource is closed at the end, although it was closed on request.
LeavesClosing(closing) ==
  /\ ChildDoes("dead")
  /\ released' = IF child.ready THEN released + 1 ELSE released

\* The loop ends; unless it was closed, the resource is closed now.
ChildLeaves(closing) ==
  /\ ChildDoes("dead")
  /\ released' = IF closing /\ child.ready THEN released + 1 ELSE released

Respond ==
  /\ child.does \in {"replies", "invalidates"}
  /\ outbox' = IF owner
       THEN Append(outbox, [request |-> child.request,
              outcome |-> IF Doing("invalidates") THEN "invalid"
                          ELSE IF child.broken THEN "error" ELSE "value"])
       ELSE outbox
  /\ IF child.kind = "close" THEN ChildLeaves(FALSE)
     ELSE IF Doing("invalidates") \/ ~owner \/ (child.kind = "start" /\ child.broken)
       THEN ChildLeaves(TRUE)
     ELSE ChildDoes("reads") /\ UNCHANGED released
  /\ UNCHANGED <<thread, lock, shut, owner, inbox, timers, sent, sidecars>>

\* MUTANT: the pipe of requests does not end with the owner, as the child has inherited it.
EndUnseen ==
  /\ Doing("reads") /\ ~owner /\ inbox = <<>> /\ ChildDoes("reads")
  /\ UNCHANGED <<thread, lock, shut, owner, inbox, outbox, timers, released, sent, sidecars>>

\* The pipe of requests ends with the owner.
EndOfRequests ==
  /\ Doing("reads") /\ ~owner /\ inbox = <<>> /\ ChildLeaves(TRUE)
  /\ UNCHANGED <<thread, lock, shut, owner, inbox, outbox, timers, sent, sidecars>>

Exchange(t) == Acquire(t) \/ AcquireTimesOut(t) \/ Send(t) \/ Receive(t) \/ WaitTimesOut(t)
Child == TakeRequest \/ Execute \/ CancelTimer \/ Respond \/ EndOfRequests
Timers == \E r \in Requests : Fire(r) \/ Strike(r)

SupervisedNext ==
  \/ \E t \in Threads : MakeRequest(t) \/ Exchange(t)
  \/ Child \/ Timers \/ Stall \/ OwnerDies

\* The owner's threads are scheduled, and the waits they make run out.  The child is scheduled
\* too, but an operation that stalls comes back only when it is interrupted.
SupervisedFairness ==
  /\ \A t \in Threads : WF_svars(Exchange(t))
  /\ WF_svars(Child) /\ WF_svars(Timers)

SupervisedSpec == SupervisedInit /\ [][SupervisedNext]_svars /\ SupervisedFairness

-----------------------------------------------------------------------------
\* A caller gets the reply to its own request: an exchange that was given up never leaves a
\* late reply in the pipe for the next.
AnswersOwnRequest == \A r \in Requests : answer[r] \in {0, r}

\* The interrupt of an operation that ends as its deadline passes never lands on the next one.
InterruptsOwnOperation == \A s \in struck : s[1] = s[2]

\* The adapter's close runs once at most, whoever asks for it and however the child ends.
ReleasedOnce == released <= 1

\* Every exchange of an owner that lives ends, though the child may stall at any point.
ExchangesEnd == \A t \in Threads : thread[t].at # "idle" ~> ~owner \/ thread[t].at = "idle"

\* A child whose owner is gone goes too, unless it stalls in constructing the resource, for
\* which it has no timer.
OrphansGo == ~owner ~> child.does = "dead" \/ (child.does = "stalls" /\ child.kind = "start")

\* What threads share in a child stays apart: answers, interrupts, and the one close.
ExchangesApart == AnswersOwnRequest /\ InterruptsOwnOperation /\ ReleasedOnce
=============================================================================
