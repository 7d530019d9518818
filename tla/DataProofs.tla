------------------------------ MODULE DataProofs ------------------------------
(***************************************************************************)
(* Proofs about the parts of MCData, for all values of their constants.    *)
(***************************************************************************)
EXTENDS MCData, ObservationProofs, SequenceTheorems

-----------------------------------------------------------------------------
(* Buckets: what a call has in hand.                                       *)

Unread == {"unborn", "read", "content"}
Guarded == {"compare", "replace", "stat"}
Places == Unread \cup Guarded \cup {"ready", "wait", "told", "reload", "ended"}

BucketTypeOK ==
  /\ provider \in {"local", "gcs"} /\ losses \in Nat
  /\ history \in Seq(SUBSET Calls) /\ current \in {0, Len(history)}
  /\ effected \in SUBSET Calls
  /\ call \in [Calls -> [kind : Kinds, at : Places, seen : Nat, read : SUBSET Calls, n : Nat,
                         own : SUBSET Nat, got : Nat,
                         result : {"none", "done", "nothing", "conflict", "error"}]]
  /\ flight \in SUBSET [c : Calls, n : Nat]

\* A call that is ready has the content of the version that it will be fenced by, and creates
\* if there was none; so has every request that was sent, also when its caller has gone.
InHand(c) ==
  /\ call[c].at = "unborn" => call[c] = Unborn
  /\ call[c].at \in {"read", "content"} => call[c].kind # "create"
  /\ call[c].at \in Unread => call[c].n = 0
  /\ call[c].at # "ended" => call[c].result = "none"
  /\ call[c].at \notin Unread \cup {"ended"} \/ call[c].n > 0 =>
       /\ call[c].kind = "create" <=> call[c].seen = 0
       /\ call[c].seen <= Len(history) /\ call[c].read = Present(call[c].seen)
  /\ call[c].at = "told" => 0 \in call[c].own
  /\ call[c].at = "reload" => call[c].got \in call[c].own
  /\ call[c].result = "done" => call[c].got \in call[c].own

\* A version that has been replaced or deleted is never the current one again, so the same
\* call, retried or late, does not take effect twice.
Effects(c) ==
  c \in effected =>
    /\ call[c].at \notin Unread /\ call[c].seen \in 1 .. Len(history) /\ call[c].seen # current
    /\ provider = "local" =>
         call[c].at = "stat" \/ (call[c].at = "ended" /\ call[c].result # "conflict")

\* The lock of the local adapter covers comparison, replacement and stat.
Locks ==
  IF provider = "local"
  THEN /\ flight = {}
       /\ \A c, e \in Calls : call[c].at \in Guarded /\ call[e].at \in Guarded => c = e
       /\ \A c \in Calls : /\ CallAt(c, "replace") => current = call[c].seen
                           /\ CallAt(c, "stat") => current \in call[c].own
                           /\ call[c].n = 0
  ELSE /\ \A c \in Calls : call[c].at \notin Guarded
       /\ \A r \in flight : call[r.c].n > 0

BucketInv == BucketTypeOK /\ Locks /\ \A c \in Calls : InHand(c) /\ Effects(c)

\* The bucket holds one version, which no call has seen.
LEMMA BucketBegins == BucketInit => BucketInv
  BY BucketAssumption, EmptySeq DEF BucketInit, BucketInv, BucketTypeOK, Locks, InHand, Effects, Unborn, Unread, Guarded, Places, Kinds, CallAt

\* The calls' values are of their type.
CallType == [kind : Kinds, at : Places, seen : Nat, read : SUBSET Calls, n : Nat,
             own : SUBSET Nat, got : Nat,
             result : {"none", "done", "nothing", "conflict", "error"}]

\* What a step has to show when it changes only what one call has in hand.
LEMMA CallStep ==
  ASSUME BucketInv, NEW c \in Calls, NEW next \in CallType, call' = [call EXCEPT ![c] = next],
         UNCHANGED <<provider, history, current, effected>>, losses' \in Nat,
         InHand(c)', Effects(c)', flight' \in SUBSET [c : Calls, n : Nat],
         \A r \in flight' : r \in flight \/ (provider # "local" /\ r.c = c /\ next.n > 0),
         next.n >= call[c].n, provider = "local" => next.n = 0,
         next.at \in Guarded =>
           /\ provider = "local" /\ \A e \in Calls \ {c} : call[e].at \notin Guarded
           /\ next.at = "replace" => current = next.seen
           /\ next.at = "stat" => current \in next.own
  PROVE  BucketInv'
  <1>1. BucketTypeOK'
    BY DEF BucketInv, BucketTypeOK, CallType
  <1>2. Locks'
    <2>1. \A e \in Calls : call'[e] = IF e = c THEN next ELSE call[e]
      BY DEF BucketInv, BucketTypeOK
    <2>2. CASE provider = "local"
      <3>1. flight' = {}
        BY <2>2 DEF BucketInv, BucketTypeOK, Locks
      <3>2. \A d, e \in Calls : call'[d].at \in Guarded /\ call'[e].at \in Guarded => d = e
        BY <2>1, <2>2 DEF BucketInv, Locks
      <3>3. ASSUME NEW d \in Calls
            PROVE  /\ CallAt(d, "replace")' => current = call'[d].seen
                   /\ CallAt(d, "stat")' => current \in call'[d].own
                   /\ call'[d].n = 0
        BY <2>1, <2>2 DEF BucketInv, Locks, CallAt, Guarded
      <3> QED
        BY <2>2, <3>1, <3>2, <3>3 DEF Locks
    <2>3. CASE provider # "local"
      <3>1. \A d \in Calls : call'[d].at \notin Guarded
        BY <2>1, <2>3 DEF BucketInv, Locks
      <3>2. \A d \in Calls : call'[d].n >= call[d].n /\ call[d].n \in Nat /\ call'[d].n \in Nat
        BY <2>1 DEF BucketInv, BucketTypeOK, CallType
      <3>3. \A r \in flight : r.c \in Calls /\ call[r.c].n > 0
        BY <2>3 DEF BucketInv, BucketTypeOK, Locks
      <3>4. \A r \in flight' : r.c \in Calls /\ call'[r.c].n > 0
        <4> SUFFICES ASSUME NEW r \in flight' PROVE r.c \in Calls /\ call'[r.c].n > 0
          OBVIOUS
        <4>1. CASE r \in flight
          BY <4>1, <3>2, <3>3
        <4>2. CASE r.c = c /\ next.n > 0
          BY <4>2, <2>1
        <4> QED
          BY <4>1, <4>2
      <3> QED
        BY <2>3, <3>1, <3>4 DEF Locks
    <2> QED
      BY <2>2, <2>3
  <1>3. ASSUME NEW e \in Calls PROVE InHand(e)' /\ Effects(e)'
    <2>1. CASE e = c
      BY <2>1
    <2>2. CASE e # c
      <3>1. call'[e] = call[e]
        BY <2>2 DEF BucketInv, BucketTypeOK
      <3>2. InHand(e) /\ Effects(e)
        BY DEF BucketInv
      <3> QED
        BY <3>1, <3>2 DEF InHand, Effects, Present
    <2> QED
      BY <2>1, <2>2
  <1> QED
    BY <1>1, <1>2, <1>3 DEF BucketInv

\* A call that begins to create holds the absence of the object; others have nothing in hand.
LEMMA BeginCallStep ==
  ASSUME BucketInv, NEW c \in Calls, BeginCall(c) PROVE BucketInv'
  <1>1. PICK kind \in Kinds :
          call' = [call EXCEPT ![c].kind = kind,
                               ![c].at = IF kind = "create" THEN "ready" ELSE "read"]
    BY DEF BeginCall
  <1> DEFINE next == [Unborn EXCEPT !.kind = kind,
                                    !.at = IF kind = "create" THEN "ready" ELSE "read"]
  <1>2. call[c] = Unborn /\ c \notin effected
    BY DEF BeginCall, CallAt, BucketInv, InHand, Effects, Unread
  <1>3. call' = [call EXCEPT ![c] = next]
    BY <1>1, <1>2 DEF BucketInv, BucketTypeOK, Unborn
  <1>4. next \in CallType
    BY DEF CallType, Unborn, Places, Unread, Kinds
  <1>5. call'[c] = next
    BY <1>3, <1>4 DEF BucketInv, BucketTypeOK
  <1>6. InHand(c)'
    BY <1>5 DEF InHand, Unborn, Present, Kinds, Unread
  <1>7. Effects(c)'
    BY <1>2 DEF Effects, BeginCall, object
  <1>8. next.n >= call[c].n /\ next.n = 0 /\ next.at \notin Guarded
    BY <1>2 DEF Unborn, Guarded
  <1> HIDE DEF next
  <1> QED
    BY <1>3, <1>4, <1>6, <1>7, <1>8, CallStep DEF BeginCall, object, BucketInv, BucketTypeOK

\* A call ends, having changed nothing.
LEMMA EndStep ==
  ASSUME BucketInv, NEW c \in Calls, NEW answer, NEW v, CallEnds(c, answer, v),
         answer \in {"done", "nothing", "conflict", "error"}, v \in Nat,
         call[c].at \notin {"unborn", "ended"},
         answer = "done" => v \in call[c].own,
         provider = "local" /\ c \in effected => answer # "conflict",
         UNCHANGED <<provider, object>>, flight' \in SUBSET flight, losses' \in Nat
  PROVE  BucketInv'
  <1> DEFINE next == [call[c] EXCEPT !.at = "ended", !.result = answer, !.got = v]
  <1>1. call[c] \in CallType
    BY DEF BucketInv, BucketTypeOK, CallType
  <1>2. next \in CallType /\ next.at = "ended" /\ next.result = answer /\ next.got = v
        /\ next.n = call[c].n /\ next.own = call[c].own /\ next.seen = call[c].seen
        /\ next.read = call[c].read /\ next.kind = call[c].kind
    BY <1>1 DEF CallType, Places
  <1>3. call' = [call EXCEPT ![c] = next]
    BY <1>1 DEF BucketInv, BucketTypeOK, CallEnds
  <1> HIDE DEF next
  <1>4. call'[c] = next
    BY <1>3 DEF BucketInv, BucketTypeOK
  <1>5. InHand(c)'
    BY <1>2, <1>4 DEF BucketInv, InHand, Present, Unread, object
  <1>6. Effects(c)'
    BY <1>2, <1>4 DEF BucketInv, Effects, Unread, object
  <1>7. next.n >= call[c].n /\ (provider = "local" => next.n = 0) /\ next.at \notin Guarded
    BY <1>1, <1>2 DEF CallType, BucketInv, Locks, Guarded
  <1>8. flight' \in SUBSET [c : Calls, n : Nat] /\ \A r \in flight' : r \in flight
    BY DEF BucketInv, BucketTypeOK
  <1> QED
    BY <1>2, <1>3, <1>5, <1>6, <1>7, <1>8, CallStep DEF object

\* A call goes on, having changed nothing.
LEMMA MoveStep ==
  ASSUME BucketInv, NEW c \in Calls, NEW where \in {"ready", "compare", "replace"},
         Moves(c, where), call[c].at \notin Unread \cup {"ended", "stat"},
         where \in Guarded =>
           /\ provider = "local" /\ \A e \in Calls \ {c} : call[e].at \notin Guarded
           /\ where = "replace" => current = call[c].seen,
         UNCHANGED <<provider, object, flight>>, losses' \in Nat
  PROVE  BucketInv'
  <1> DEFINE next == [call[c] EXCEPT !.at = where]
  <1>1. call[c] \in CallType
    BY DEF BucketInv, BucketTypeOK, CallType
  <1>2. next \in CallType /\ next.at = where /\ next.result = call[c].result
        /\ next.got = call[c].got
        /\ next.n = call[c].n /\ next.own = call[c].own /\ next.seen = call[c].seen
        /\ next.read = call[c].read /\ next.kind = call[c].kind
    BY <1>1 DEF CallType, Places, Guarded
  <1>3. call' = [call EXCEPT ![c] = next]
    BY <1>1 DEF BucketInv, BucketTypeOK, Moves
  <1> HIDE DEF next
  <1>4. call'[c] = next
    BY <1>3 DEF BucketInv, BucketTypeOK
  <1>5. InHand(c)'
    BY <1>2, <1>4 DEF BucketInv, InHand, Present, Unread, object
  <1>6. Effects(c)'
    BY <1>2, <1>4 DEF BucketInv, Effects, Unread, object
  <1>7. next.n >= call[c].n /\ (provider = "local" => next.n = 0)
    BY <1>1, <1>2 DEF CallType, BucketInv, Locks, Guarded
  <1>8. flight' \in SUBSET [c : Calls, n : Nat] /\ flight' = flight
    BY DEF BucketInv, BucketTypeOK
  <1> QED
    BY <1>2, <1>3, <1>5, <1>6, <1>7, <1>8, CallStep DEF object

\* A call has read the object.
LEMMA FoundStep ==
  ASSUME BucketInv, NEW c \in Calls, call[c].at \in {"read", "content"}, Found(c, current),
         UNCHANGED <<provider, object, flight, losses>>
  PROVE  BucketInv'
  <1>1. CASE current = 0 /\ call[c].kind = "delete"
    <2>1. CallEnds(c, "nothing", 0) /\ losses' \in Nat
      BY <1>1 DEF Found, BucketInv, BucketTypeOK
    <2> QED
      BY <2>1, EndStep DEF object
  <1>2. CASE ~(current = 0 /\ call[c].kind = "delete")
    <2> DEFINE kind == IF current = 0 THEN "create" ELSE call[c].kind
               next == [call[c] EXCEPT !.seen = current, !.read = Present(current),
                                       !.kind = kind, !.at = "ready"]
    <2>1. call[c] \in CallType /\ current \in Nat /\ Present(current) \in SUBSET Calls
          /\ current <= Len(history)
      BY DEF BucketInv, BucketTypeOK, CallType, Present
    <2>2. next \in CallType /\ next.at = "ready" /\ next.result = call[c].result
          /\ next.got = call[c].got
          /\ next.n = call[c].n /\ next.own = call[c].own /\ next.seen = current
          /\ next.read = Present(current) /\ next.kind = kind
      BY <2>1 DEF CallType, Places, Kinds
    <2>3. call' = [call EXCEPT ![c] = next]
      BY <1>2 DEF BucketInv, BucketTypeOK, Found
    <2>4. kind = "create" <=> current = 0
      BY DEF BucketInv, InHand
    <2> HIDE DEF next, kind
    <2>5. call'[c] = next
      BY <2>3 DEF BucketInv, BucketTypeOK
    <2>6. call[c].n = 0 /\ call[c].result = "none" /\ c \notin effected
      BY DEF BucketInv, InHand, Effects, Unread
    <2>7. InHand(c)'
      BY <2>1, <2>2, <2>4, <2>5, <2>6 DEF InHand, Present, Unread, object
    <2>8. Effects(c)'
      BY <2>6 DEF Effects, object
    <2>9. next.n >= call[c].n /\ next.n = 0 /\ next.at \notin Guarded
      BY <2>2, <2>6 DEF Guarded
    <2>10. flight' \in SUBSET [c : Calls, n : Nat] /\ flight' = flight /\ losses' \in Nat
      BY DEF BucketInv, BucketTypeOK
    <2> QED
      BY <2>2, <2>3, <2>7, <2>8, <2>9, <2>10, CallStep DEF object
  <1> QED
    BY <1>1, <1>2

\* The object is replaced or deleted, from what was read of its present version: one step of
\* the object that is promised.
LEMMA TakesStep ==
  ASSUME BucketInv, NEW c \in Calls, Takes(c, call[c].kind, call[c].read),
         current = call[c].seen,
         call[c].at \notin Unread \cup {"ended"} \/ call[c].n > 0
  PROVE  /\ history' \in Seq(SUBSET Calls) /\ current' \in {0, Len(history')}
         /\ effected' \in SUBSET Calls /\ current' \in Nat
         /\ call[c].kind = "delete" => current' = 0
         /\ Len(history') >= Len(history)
         /\ \A v \in 0 .. Len(history) : Present(v)' = Present(v)
         /\ effected' \subseteq effected \cup {c}
         /\ c \in effected' => call[c].seen \in 1 .. Len(history) /\ call[c].seen # current'
         /\ \A e \in effected : call[e].seen # current'
         /\ c \notin effected
         /\ Object!ObjectNext
  <1>1. /\ call[c].kind = "create" <=> call[c].seen = 0
        /\ call[c].seen <= Len(history) /\ call[c].read = Present(call[c].seen)
    BY DEF BucketInv, InHand
  <1>2. call[c].read \in SUBSET Calls /\ call[c].seen \in Nat /\ Len(history) \in Nat
        /\ history \in Seq(SUBSET Calls) /\ effected \in SUBSET Calls
    BY DEF BucketInv, BucketTypeOK
  <1>3. c \notin effected /\ \A e \in effected : call[e].seen \in 1 .. Len(history)
    BY DEF BucketInv, BucketTypeOK, Effects
  <1>4. CASE call[c].kind = "delete"
    <2>1. current' = 0 /\ history' = history /\ effected' = effected \cup {c}
      BY <1>4 DEF Takes
    <2>2. Object!Change(c)
      BY <1>1, <1>3, <1>4, <2>1 DEF Object!Change
    <2> QED
      BY <1>1, <1>2, <1>3, <1>4, <2>1, <2>2 DEF Object!ObjectNext, Present
  <1>5. CASE call[c].kind # "delete"
    <2> DEFINE content == call[c].read \cup {c}
    <2>1. history' = Append(history, content) /\ current' = Len(history')
      BY <1>5 DEF Takes
    <2>2. effected' = IF call[c].kind = "create" THEN effected ELSE effected \cup {c}
      BY DEF Takes
    <2>3. content \in SUBSET Calls
      BY <1>2
    <2> HIDE DEF content
    <2>4. history' \in Seq(SUBSET Calls) /\ Len(history') = Len(history) + 1
          /\ \A i \in 1 .. Len(history) : history'[i] = history[i]
      BY <1>2, <2>1, <2>3
    <2>5. \A v \in 0 .. Len(history) : Present(v)' = Present(v)
      BY <2>4 DEF Present
    <2>6. CASE call[c].kind = "create"
      <3>1. content = {c} /\ current = 0
        BY <1>1, <2>6 DEF Present, content
      <3>2. Object!Create(c)
        BY <2>1, <2>2, <2>6, <3>1 DEF Object!Create, Object!Publish
      <3> QED
        BY <1>1, <1>2, <1>3, <1>5, <2>1, <2>2, <2>4, <2>5, <2>6, <3>2 DEF Object!ObjectNext
    <2>7. CASE call[c].kind # "create"
      <3>1. content = Object!Content \cup {c} /\ current # 0
        BY <1>1, <2>7 DEF Present, content, Object!Content
      <3>2. Object!Change(c)
        BY <1>3, <2>1, <2>2, <2>7, <3>1 DEF Object!Change, Object!Publish
      <3> QED
        BY <1>1, <1>2, <1>3, <1>5, <2>1, <2>2, <2>4, <2>5, <2>7, <3>2 DEF Object!ObjectNext
    <2> QED
      BY <2>6, <2>7
  <1> QED
    BY <1>4, <1>5

\* What the step has to show of the call that takes effect.
LEMMA EffectStep ==
  ASSUME BucketInv, NEW c \in Calls, Takes(c, call[c].kind, call[c].read),
         current = call[c].seen,
         call[c].at \notin Unread \cup {"ended"} \/ call[c].n > 0,
         NEW next \in CallType, call' = [call EXCEPT ![c] = next], provider' = provider,
         losses' \in Nat, flight' \in SUBSET flight,
         next.kind = call[c].kind, next.seen = call[c].seen, next.read = call[c].read,
         next.n = call[c].n, next.own = call[c].own \cup {current'},
         next.at \notin Unread, next.at = "ended" => call[c].at = "ended",
         next.at # "ended" => next.result = "none",
         next.at = "told" => call[c].at = "told" \/ current' = 0,
         next.at = "reload" => next.got \in next.own,
         next.result = "done" => next.got \in next.own,
         provider = "local" => call[c].at = "replace" /\ next.at = "stat",
         provider # "local" => next.at \notin Guarded
  PROVE  BucketInv'
  <1>1. /\ history' \in Seq(SUBSET Calls) /\ current' \in {0, Len(history')}
        /\ effected' \in SUBSET Calls /\ current' \in Nat
        /\ Len(history') >= Len(history)
        /\ \A v \in 0 .. Len(history) : Present(v)' = Present(v)
        /\ effected' \subseteq effected \cup {c}
        /\ c \in effected' => call[c].seen \in 1 .. Len(history) /\ call[c].seen # current'
        /\ \A e \in effected : call[e].seen # current'
    BY TakesStep
  <1>2. BucketTypeOK'
    BY <1>1 DEF BucketInv, BucketTypeOK, CallType
  <1>3. \A e \in Calls : call'[e] = IF e = c THEN next ELSE call[e]
    BY DEF BucketInv, BucketTypeOK
  <1>4. Len(history) \in Nat /\ Len(history') \in Nat
    BY <1>2 DEF BucketInv, BucketTypeOK
  <1>5. InHand(c)'
    <2>1. call'[c] = next
      BY <1>3
    <2>2. /\ next.kind = "create" <=> next.seen = 0
          /\ next.seen <= Len(history) /\ next.read = Present(next.seen)
      BY DEF BucketInv, InHand
    <2>3. next.seen <= Len(history') /\ next.read = Present(next.seen)'
      <3>1. next.seen \in 0 .. Len(history)
        BY <2>2, <1>4 DEF CallType
      <3>2. next.seen' = next.seen
        BY <2>1
      <3>3. Present(next.seen)' = Present(next.seen)
        BY <3>1, <1>1
      <3> QED
        BY <3>1, <3>3, <2>2, <1>1, <1>4
    <2>4. next.at = "told" => 0 \in next.own
      BY DEF BucketInv, InHand
    <2> QED
      BY <2>1, <2>2, <2>3, <2>4 DEF InHand, Present, Unread
  <1>6. ASSUME NEW e \in Calls, e # c PROVE InHand(e)'
    <2>1. InHand(e) /\ call'[e] = call[e] /\ call[e].seen \in Nat
      BY <1>3, <1>6 DEF BucketInv, BucketTypeOK
    <2>2. call[e].seen <= Len(history) =>
            call[e].seen <= Len(history') /\ Present(call[e].seen)' = Present(call[e].seen)
      BY <2>1, <1>1, <1>4 DEF Present
    <2> QED
      BY <2>1, <2>2 DEF InHand, Present
  <1>7. ASSUME NEW e \in Calls PROVE Effects(e)'
    <2>1. CASE e = c
      BY <2>1, <1>1, <1>3, <1>4 DEF Effects
    <2>2. CASE e # c
      <3>1. Effects(e) /\ call'[e] = call[e] /\ call[e].seen \in Nat
        BY <2>2, <1>3 DEF BucketInv, BucketTypeOK
      <3> QED
        BY <2>2, <3>1, <1>1, <1>4 DEF Effects
    <2> QED
      BY <2>1, <2>2
  <1>8. Locks'
    <2>1. CASE provider = "local"
      <3>1. flight' = {}
        BY <2>1 DEF BucketInv, Locks
      <3>2. \A e \in Calls : call'[e].at \in Guarded => e = c
        BY <1>3, <2>1 DEF BucketInv, Locks, Guarded
      <3>3. \A d \in Calls : call'[d].n = 0
        BY <1>3, <2>1 DEF BucketInv, Locks
      <3>4. next.at = "stat" /\ current' \in next.own
        BY <2>1
      <3> QED
        BY <1>3, <2>1, <3>1, <3>2, <3>3, <3>4 DEF Locks, CallAt, Guarded
    <2>2. CASE provider # "local"
      <3>1. \A e \in Calls : call'[e].at \notin Guarded /\ call'[e].n = call[e].n
        BY <1>3, <2>2 DEF BucketInv, Locks
      <3>2. \A r \in flight' : r.c \in Calls /\ call[r.c].n > 0
        BY <2>2 DEF BucketInv, BucketTypeOK, Locks
      <3> QED
        BY <2>2, <3>1, <3>2 DEF Locks
    <2> QED
      BY <2>1, <2>2
  <1> QED
    BY <1>2, <1>5, <1>6, <1>7, <1>8 DEF BucketInv

\* A request is lost, or refused with nobody to hear it.
LEMMA LossStep ==
  ASSUME BucketInv, UNCHANGED <<provider, object, call>>, flight' \in SUBSET flight,
         losses' \in Nat
  PROVE  BucketInv'
  <1>1. BucketTypeOK'
    BY DEF BucketInv, BucketTypeOK, object
  <1>2. Locks'
    BY DEF BucketInv, Locks, CallAt, object
  <1>3. \A c \in Calls : (InHand(c) /\ Effects(c))'
    BY DEF BucketInv, InHand, Effects, Present, object
  <1> QED
    BY <1>1, <1>2, <1>3 DEF BucketInv

\* What an adapter of the file system does before and after the replacement is not seen outside.
LEMMA LocalSteps ==
  ASSUME BucketInv, NEW c \in Calls,
         ReadLocal(c) \/ LockLocal(c) \/ Compare(c) \/ StatLocal(c) \/ FailLocal(c)
  PROVE  BucketInv' /\ UNCHANGED object
  <1>1. UNCHANGED <<provider, object, flight>> /\ losses' \in Nat
    BY DEF ReadLocal, LockLocal, Compare, StatLocal, FailLocal, Lose, BucketInv, BucketTypeOK
  <1>2. CASE ReadLocal(c)
    BY <1>1, <1>2, FoundStep DEF ReadLocal, Local, CallAt
  <1>3. CASE LockLocal(c)
    <2>1. Moves(c, "compare") /\ provider = "local" /\ call[c].at = "ready"
          /\ \A e \in Calls : call[e].at \notin Guarded
      BY <1>3 DEF LockLocal, Local, CallAt, Guarded
    <2> QED
      BY <1>1, <2>1, MoveStep DEF Unread
  <1>4. CASE Compare(c)
    <2>1. provider = "local" /\ call[c].at = "compare"
      BY <1>4 DEF Compare, Local, CallAt
    <2>2. \A e \in Calls \ {c} : call[e].at \notin Guarded
      BY <2>1 DEF BucketInv, Locks, Guarded
    <2>3. c \notin effected
      BY <2>1 DEF BucketInv, Effects
    <2>4. CASE current = call[c].seen
      <3>1. Moves(c, "replace")
        BY <1>4, <2>4 DEF Compare
      <3> QED
        BY <1>1, <2>1, <2>2, <2>4, <3>1, MoveStep DEF Unread
    <2>5. CASE current # call[c].seen
      <3>1. CallEnds(c, "conflict", 0)
        BY <1>4, <2>5 DEF Compare
      <3> QED
        BY <1>1, <2>1, <2>3, <3>1, EndStep
    <2> QED
      BY <2>4, <2>5
  <1>5. CASE StatLocal(c)
    <2>1. CallEnds(c, "done", current) /\ call[c].at = "stat" /\ provider = "local"
      BY <1>5 DEF StatLocal, Local, CallAt
    <2>2. current \in call[c].own /\ current \in Nat
      BY <2>1 DEF BucketInv, BucketTypeOK, Locks, CallAt
    <2> QED
      BY <1>1, <2>1, <2>2, EndStep
  <1>6. CASE FailLocal(c)
    <2>1. CallEnds(c, "error", 0) /\ call[c].at \notin {"unborn", "ended"}
      BY <1>6 DEF FailLocal
    <2> QED
      BY <1>1, <2>1, EndStep
  <1>7. BucketInv'
    BY <1>2, <1>3, <1>4, <1>5, <1>6
  <1> QED
    BY <1>1, <1>7 DEF object

\* Under the lock, what was compared is still current when it is replaced.
LEMMA ReplaceLocalStep ==
  ASSUME BucketInv, NEW c \in Calls, ReplaceLocal(c) PROVE BucketInv' /\ Object!ObjectNext
  <1> DEFINE next == [call[c] EXCEPT !.at = "stat", !.own = @ \cup {current'}]
  <1>1. provider = "local" /\ call[c].at = "replace" /\ current = call[c].seen
        /\ Takes(c, call[c].kind, call[c].read) /\ UNCHANGED <<provider, flight, losses>>
    BY DEF ReplaceLocal, Local, CallAt, BucketInv, Locks
  <1>2. Object!ObjectNext /\ current' \in Nat
    BY <1>1, TakesStep DEF Unread
  <1>3. call[c] \in CallType /\ call[c].result = "none"
    BY <1>1 DEF BucketInv, BucketTypeOK, CallType, InHand
  <1>4. next \in CallType /\ next.at = "stat" /\ next.result = call[c].result
        /\ next.n = call[c].n /\ next.own = call[c].own \cup {current'}
        /\ next.seen = call[c].seen /\ next.read = call[c].read /\ next.kind = call[c].kind
    BY <1>2, <1>3 DEF CallType, Places, Guarded
  <1>5. call' = [call EXCEPT ![c] = next]
    BY <1>3 DEF ReplaceLocal, BucketInv, BucketTypeOK
  <1> HIDE DEF next
  <1>6. BucketInv'
    BY <1>1, <1>3, <1>4, <1>5, EffectStep DEF Unread, BucketInv, BucketTypeOK
  <1> QED
    BY <1>2, <1>6

\* What a client of GCS does between its requests is not seen outside.
LEMMA GcsSteps ==
  ASSUME BucketInv, NEW c \in Calls,
         ReadMetadata(c) \/ Download(c) \/ Send(c) \/ Told(c) \/ Reload(c) \/ RequestTimesOut(c)
  PROVE  BucketInv' /\ UNCHANGED object
  <1>1. UNCHANGED <<provider, object>> /\ losses' \in Nat
    BY DEF ReadMetadata, Download, Send, Told, Reload, RequestTimesOut, Lose, BucketInv,
           BucketTypeOK
  <1>2. call[c] \in CallType /\ provider # "local" /\ flight \in SUBSET [c : Calls, n : Nat]
    BY DEF BucketInv, BucketTypeOK, CallType, ReadMetadata, Download, Send, Told, Reload,
           RequestTimesOut, Gcs
  <1>3. CASE ReadMetadata(c)
    <2>1. call[c].at = "read" /\ UNCHANGED <<flight, losses>>
      BY <1>3 DEF ReadMetadata, Gcs, CallAt
    <2>2. CASE current = 0
      BY <1>1, <1>3, <2>1, <2>2, FoundStep DEF ReadMetadata
    <2>3. CASE current # 0
      <3> DEFINE next == [call[c] EXCEPT !.seen = current, !.at = "content"]
      <3>1. call' = [call EXCEPT ![c] = next]
        BY <1>2, <1>3, <2>3 DEF ReadMetadata, BucketInv, BucketTypeOK
      <3>2. current \in Nat
        BY DEF BucketInv, BucketTypeOK
      <3>3. next \in CallType /\ next.at = "content" /\ next.result = call[c].result
            /\ next.n = call[c].n /\ next.kind = call[c].kind
        BY <1>2, <3>2 DEF CallType, Places, Unread
      <3> HIDE DEF next
      <3>4. call'[c] = next
        BY <3>1 DEF BucketInv, BucketTypeOK
      <3>5. c \notin effected /\ call[c].kind # "create" /\ call[c].n = 0
            /\ call[c].result = "none"
        BY <2>1 DEF BucketInv, Effects, InHand, Unread
      <3>6. InHand(c)' /\ Effects(c)'
        BY <1>1, <3>3, <3>4, <3>5 DEF InHand, Effects, Unread, object
      <3>7. next.n >= call[c].n /\ next.n = 0 /\ next.at \notin Guarded
        BY <3>3, <3>5 DEF Guarded
      <3> QED
        BY <1>1, <1>2, <2>1, <3>1, <3>3, <3>6, <3>7, CallStep DEF object
    <2> QED
      BY <2>2, <2>3
  <1>4. CASE Download(c)
    <2>1. call[c].at = "content" /\ UNCHANGED <<flight, losses>>
      BY <1>4 DEF Download, Gcs, CallAt
    <2>2. CASE current = call[c].seen
      BY <1>1, <1>4, <2>1, <2>2, FoundStep DEF Download
    <2>3. CASE current # call[c].seen
      <3>1. CallEnds(c, "conflict", 0)
        BY <1>4, <2>3 DEF Download
      <3> QED
        BY <1>1, <1>2, <2>1, <3>1, EndStep
    <2> QED
      BY <2>2, <2>3
  <1>5. CASE Send(c)
    <2> DEFINE next == [call[c] EXCEPT !.n = call[c].n + 1, !.at = "wait"]
    <2>1. call[c].at = "ready" /\ flight' = flight \cup {[c |-> c, n |-> call[c].n + 1]}
      BY <1>5 DEF Send, Gcs, CallAt
    <2>2. call' = [call EXCEPT ![c] = next]
      BY <1>2, <1>5 DEF Send, BucketInv, BucketTypeOK
    <2>3. call[c].n \in Nat
      BY <1>2 DEF CallType
    <2>4. next \in CallType /\ next.at = "wait" /\ next.result = call[c].result
          /\ next.got = call[c].got
          /\ next.n = call[c].n + 1 /\ next.own = call[c].own /\ next.seen = call[c].seen
          /\ next.read = call[c].read /\ next.kind = call[c].kind
      <3>1. call[c].n + 1 \in Nat /\ "wait" \in Places
        BY <2>3 DEF Places
      <3> QED
        BY <1>2, <3>1 DEF CallType
    <2> HIDE DEF next
    <2>5. call'[c] = next
      BY <2>2 DEF BucketInv, BucketTypeOK
    <2>6. InHand(c)' /\ Effects(c)'
      BY <1>1, <1>2, <2>1, <2>4, <2>5 DEF BucketInv, InHand, Effects, Present, Unread, object
    <2>7. next.n >= call[c].n /\ next.n > 0 /\ next.at \notin Guarded
      BY <2>3, <2>4 DEF Guarded
    <2>8. flight' \in SUBSET [c : Calls, n : Nat]
      BY <1>2, <2>1, <2>3
    <2> QED
      BY <1>1, <1>2, <2>1, <2>2, <2>4, <2>6, <2>7, <2>8, CallStep DEF object
  <1>6. CASE Told(c)
    <2>1. CallEnds(c, "done", 0) /\ call[c].at = "told" /\ UNCHANGED flight
      BY <1>6 DEF Told, Gcs, CallAt
    <2>2. 0 \in call[c].own
      BY <2>1 DEF BucketInv, InHand
    <2> QED
      BY <1>1, <1>2, <2>1, <2>2, EndStep
  <1>7. CASE Reload(c)
    <2>1. call[c].at = "reload" /\ UNCHANGED flight
          /\ ((CallEnds(c, "done", current) /\ current = call[c].got) \/ CallEnds(c, "error", 0))
      BY <1>7 DEF Reload, Gcs, CallAt
    <2>2. call[c].got \in call[c].own /\ current \in Nat
      BY <2>1 DEF BucketInv, BucketTypeOK, InHand
    <2> QED
      BY <1>1, <1>2, <2>1, <2>2, EndStep
  <1>8. CASE RequestTimesOut(c)
    <2>1. call[c].at = "wait" /\ UNCHANGED flight
          /\ (Moves(c, "ready") \/ CallEnds(c, "error", 0))
      BY <1>8 DEF RequestTimesOut, Gcs, CallAt
    <2>2. CASE Moves(c, "ready")
      BY <1>1, <1>2, <2>1, <2>2, MoveStep DEF Unread, Guarded
    <2>3. CASE CallEnds(c, "error", 0)
      BY <1>1, <1>2, <2>1, <2>3, EndStep
    <2> QED
      BY <2>1, <2>2, <2>3
  <1>9. BucketInv'
    BY <1>3, <1>4, <1>5, <1>6, <1>7, <1>8
  <1> QED
    BY <1>1, <1>9 DEF object

\* A request is served if the version it names is current: it then writes over what it read.
LEMMA ServeStep ==
  ASSUME BucketInv, NEW r \in flight, NEW heard \in BOOLEAN, Serve(r, heard)
  PROVE  BucketInv' /\ [Object!ObjectNext]_object
  <1> DEFINE c == r.c
             next == [call[c] EXCEPT
                        !.own = @ \cup {current'}, !.got = IF heard THEN current' ELSE @,
                        !.at = IF ~heard THEN @ ELSE IF call[c].kind = "delete" THEN "told"
                                                     ELSE "reload"]
  <1>1. c \in Calls /\ call[c].n > 0 /\ provider # "local" /\ call[c] \in CallType
    BY DEF BucketInv, BucketTypeOK, Locks, CallType
  <1>2. flight' \in SUBSET flight /\ losses' \in Nat /\ provider' = provider
        /\ flight' \in SUBSET [c : Calls, n : Nat]
    BY DEF Serve, Lose, BucketInv, BucketTypeOK
  <1>3. call[c].at \notin Unread \cup Guarded /\ (heard => call[c].at = "wait")
    BY <1>1 DEF BucketInv, InHand, Locks, Serve, Waits, CallAt, CallType
  <1>4. CASE current = call[c].seen
    <2>1. Takes(c, call[c].kind, call[c].read) /\
          call' = [call EXCEPT ![c].own = @ \cup {current'},
                          ![c].got = IF heard THEN current' ELSE @,
                          ![c].at = IF ~heard THEN @ ELSE IF call[c].kind = "delete" THEN "told"
                                      ELSE "reload"]
      BY <1>4 DEF Serve, Matches
    <2>2. Object!ObjectNext /\ current' \in Nat /\ (call[c].kind = "delete" => current' = 0)
      BY <1>1, <1>4, <2>1, TakesStep
    <2>3. next \in CallType /\ next.result = call[c].result
          /\ next.n = call[c].n /\ next.own = call[c].own \cup {current'}
          /\ next.seen = call[c].seen /\ next.read = call[c].read /\ next.kind = call[c].kind
      BY <1>1, <2>2 DEF CallType, Places
    <2>4. next.at = (IF ~heard THEN call[c].at ELSE IF call[c].kind = "delete" THEN "told"
                                                   ELSE "reload")
          /\ next.got = IF heard THEN current' ELSE call[c].got
      BY <1>1 DEF CallType
    <2>5. call' = [call EXCEPT ![c] = next]
      BY <1>1, <2>1 DEF BucketInv, BucketTypeOK
    <2> HIDE DEF next
    <2>6. InHand(c)
      BY <1>1 DEF BucketInv
    <2>7. /\ next.at \notin Unread \cup Guarded /\ (next.at = "ended" => call[c].at = "ended")
          /\ next.at # "ended" => next.result = "none"
          /\ next.at = "told" => call[c].at = "told" \/ current' = 0
          /\ next.at = "reload" => next.got \in next.own
          /\ next.result = "done" => next.got \in next.own
      BY <1>3, <2>2, <2>3, <2>4, <2>6 DEF InHand, Unread, Guarded
    <2>8. BucketInv'
      BY <1>1, <1>2, <1>4, <2>1, <2>3, <2>5, <2>7, EffectStep
    <2> QED
      BY <2>2, <2>8
  <1>5. CASE current # call[c].seen
    <2>1. UNCHANGED object
      BY <1>5 DEF Serve, Matches
    <2>2. BucketInv'
      <3>1. CASE heard
        <4>1. CallEnds(c, "conflict", 0)
          BY <1>5, <3>1 DEF Serve, Matches
        <4> QED
          BY <1>1, <1>2, <1>3, <2>1, <3>1, <4>1, EndStep
      <3>2. CASE ~heard
        <4>1. UNCHANGED call
          BY <1>5, <3>2 DEF Serve, Matches
        <4> QED
          BY <1>2, <2>1, <4>1, LossStep DEF object
      <3> QED
        BY <3>1, <3>2
    <2> QED
      BY <2>1, <2>2 DEF object
  <1> QED
    BY <1>4, <1>5

\* A step of a bucket's callers keeps the invariant and is a step of the object, or none.
LEMMA BucketSteps == BucketInv /\ [BucketNext]_bvars => BucketInv' /\ [Object!ObjectNext]_object
  <1> SUFFICES ASSUME BucketInv, [BucketNext]_bvars
               PROVE  BucketInv' /\ [Object!ObjectNext]_object
    OBVIOUS
  <1>1. ASSUME NEW c \in Calls, BeginCall(c) PROVE BucketInv' /\ UNCHANGED object
    BY <1>1, BeginCallStep DEF BeginCall
  <1>2. ASSUME NEW r \in flight, LosesRequest(r) PROVE BucketInv' /\ UNCHANGED object
    <2>1. losses' \in Nat
      BY <1>2 DEF LosesRequest, Lose, BucketInv, BucketTypeOK
    <2> QED
      BY <1>2, <2>1, LossStep DEF LosesRequest
  <1>3. CASE UNCHANGED bvars
    <2>1. losses' \in Nat
      BY <1>3 DEF bvars, BucketInv, BucketTypeOK
    <2> QED
      BY <1>3, <2>1, LossStep DEF bvars, object
  <1>4. CASE BucketNext
    BY <1>1, <1>2, <1>4, LocalSteps, ReplaceLocalStep, GcsSteps, ServeStep
       DEF BucketNext, CallProceeds
  <1> QED
    BY <1>3, <1>4

\* The adapters of a bucket implement the object that SnapshotBucket promises, whatever requests
\* are lost, late or sent again; a caller is told the truth, and reads the version it is
\* fenced by.
THEOREM BucketKeepsVersions == BucketSpec => KeepsVersions /\ [](AnswersTrue /\ ReadsVersion)
  <1>1. BucketInit => Object!ObjectInit
    BY DEF BucketInit, Object!ObjectInit
  <1>2. BucketInv => AnswersTrue
    BY DEF BucketInv, InHand, Effects, AnswersTrue
  <1>3. BucketInv => ReadsVersion
    BY DEF BucketInv, InHand, ReadsVersion, CallAt, Unread
  <1>4. BucketInv /\ [BucketNext]_bvars =>
          BucketInv' /\ [Object!ObjectNext]_<<history, current, effected>>
    BY BucketSteps DEF object
  <1> QED
    BY <1>1, <1>2, <1>3, <1>4, BucketBegins, PTL
       DEF BucketSpec, KeepsVersions, Object!ObjectSpec, Object!ovars

-----------------------------------------------------------------------------
(* Pacing: the threads that use the object.                                *)

Pacers == {t \in Threads : thread[t].at # "away"}
Entered(t) == thread[t].at \in {"pause", "request", "release"}

PacingTypeOK ==
  /\ now \in Nat /\ last \in Nat /\ table \in Gate \cup {0}
  /\ gates \in [Gate -> [users : Nat, held : BOOLEAN, next : Nat]]
  /\ thread \in [Threads -> [at : {"away", "acquire", "pause", "request", "release", "part"},
                             gate : Gate \cup {0}]]

\* All threads that use the object use the gate in the table: it counts them, and is forgotten
\* only when there are none.  What was done last, it or the clock remembers.
PacingInv ==
  /\ PacingTypeOK /\ IsFiniteSet(Pacers)
  /\ \A t \in Pacers : thread[t].gate = table /\ table # 0
  /\ table # 0 => gates[table].users = Cardinality(Pacers)
  /\ \A t \in Threads : Entered(t) => gates[table].held
  /\ \A t, x \in Threads : Entered(t) /\ Entered(x) => t = x
  /\ last # 0 => last + 1 <= now \/ (table # 0 /\ last + 1 <= gates[table].next)

\* No thread uses the object, and there is no gate.
LEMMA PacingBegins == PacingInit => PacingInv
  <1> SUFFICES ASSUME PacingInit PROVE PacingInv
    OBVIOUS
  <1>1. Pacers = {}
    BY DEF PacingInit, Pacers, Away
  <1> QED
    BY <1>1, FS_EmptySet DEF PacingInit, PacingInv, PacingTypeOK, Pacers, Entered, Away, Closed

\* A thread that uses the object goes on.
LEMMA PacerSteps ==
  ASSUME PacingInv, NEW t \in Pacers,
         NEW where \in {"acquire", "pause", "request", "release", "part"},
         ThreadSteps(t, where), UNCHANGED <<now, table>>, last' \in Nat,
         gates' \in [Gate -> [users : Nat, held : BOOLEAN, next : Nat]],
         gates'[table].users = gates[table].users,
         Entered(t)' => gates'[table].held /\ \A x \in Threads \ {t} : ~Entered(x),
         Entered(t) \/ Entered(t)' \/ gates'[table].held = gates[table].held,
         last' # 0 => last' + 1 <= now \/ last' + 1 <= gates'[table].next
  PROVE  PacingInv'
  <1>1. \A x \in Threads : thread'[x] = IF x = t THEN [thread[t] EXCEPT !.at = where] ELSE thread[x]
    BY DEF ThreadSteps, PacingInv, PacingTypeOK
  <1>2. thread[t] \in [at : {"away", "acquire", "pause", "request", "release", "part"},
                       gate : Gate \cup {0}]
    BY DEF PacingInv, PacingTypeOK, Pacers
  <1>3. PacingTypeOK'
    BY <1>2 DEF PacingInv, PacingTypeOK, ThreadSteps, Pacers
  <1>4. Pacers' = Pacers
    BY <1>1, <1>2 DEF Pacers
  <1>5. \A x \in Pacers : thread'[x].gate = table /\ table # 0
    BY <1>1, <1>2 DEF PacingInv, Pacers
  <1>6. \A x \in Threads : x # t => (Entered(x)' <=> Entered(x))
    BY <1>1 DEF Entered
  <1>7. ASSUME NEW x \in Threads, Entered(x)' PROVE gates'[table].held
    <2>1. CASE x = t
      BY <1>7, <2>1
    <2>2. CASE x # t
      <3>1. Entered(x) /\ gates[table].held /\ ~Entered(t) /\ ~Entered(t)'
        BY <1>6, <1>7, <2>2 DEF PacingInv, Pacers
      <3> QED
        BY <3>1
    <2> QED
      BY <2>1, <2>2
  <1>8. \A x, y \in Threads : Entered(x)' /\ Entered(y)' => x = y
    BY <1>6 DEF PacingInv
  <1> QED
    BY <1>3, <1>4, <1>5, <1>7, <1>8 DEF PacingInv

\* A thread leaves, with or without having had the gate.
LEMMA PacerLeaves ==
  ASSUME PacingInv, NEW t \in Pacers,
         thread[t].at \in {"acquire", "pause", "part"},
         thread' = [thread EXCEPT ![t] = Away], UNCHANGED <<now, table, last>>,
         gates' \in [Gate -> [users : Nat \cup {gates[table].users - 1}, held : BOOLEAN, next : Nat]],
         gates'[table].users = gates[table].users - 1,
         gates'[table].next = gates[table].next,
         thread[t].at \in {"acquire", "part"} => gates'[table].held = gates[table].held
  PROVE  PacingInv'
  <1>1. \A x \in Threads : thread'[x] = IF x = t THEN Away ELSE thread[x]
    BY DEF PacingInv, PacingTypeOK
  <1>2. Pacers' = Pacers \ {t}
    BY <1>1 DEF Pacers, Away
  <1>3. IsFiniteSet(Pacers') /\ Cardinality(Pacers') = Cardinality(Pacers) - 1
        /\ Cardinality(Pacers) \in Nat /\ Cardinality(Pacers') \in Nat
    BY <1>2, FS_RemoveElement, FS_CardinalityType DEF PacingInv
  <1>4. table # 0 /\ gates[table].users = Cardinality(Pacers)
    BY DEF PacingInv
  <1>5. PacingTypeOK'
    <2>1. gates[table].users - 1 \in Nat
      BY <1>3, <1>4
    <2>2. Nat \cup {gates[table].users - 1} = Nat
      BY <2>1
    <2>3. gates' \in [Gate -> [users : Nat, held : BOOLEAN, next : Nat]]
      BY <2>2
    <2> QED
      BY <2>3 DEF PacingInv, PacingTypeOK, Away
  <1>6. \A x \in Threads : Entered(x)' => Entered(x) /\ x # t
    BY <1>1 DEF Entered, Away
  <1>7. \A x \in Threads : Entered(x)' => gates'[table].held
    <2> SUFFICES ASSUME NEW x \in Threads, Entered(x)' PROVE gates'[table].held
      OBVIOUS
    <2>1. Entered(x) /\ x # t /\ gates[table].held
      BY <1>6 DEF PacingInv
    <2>2. ~Entered(t)
      BY <2>1 DEF PacingInv, Pacers
    <2> QED
      BY <2>1, <2>2 DEF Entered
  <1>8. \A x \in Pacers' : thread'[x].gate = table
    BY <1>1, <1>2 DEF PacingInv, Pacers
  <1> QED
    BY <1>2, <1>3, <1>4, <1>5, <1>6, <1>7, <1>8 DEF PacingInv

\* A gate that is forgotten has no thread, so a thread that finds none is the first of its own.
LEMMA JoinsStep ==
  ASSUME PacingInv, NEW t \in Threads, Joins(t) PROVE PacingInv'
  <1>1. PICK g \in Gate :
          /\ IF table = 0 \/ Expired(table)
               THEN gates[g] = Closed /\ \A x \in Threads : GateOf(x) # g
               ELSE g = table
          /\ table' = g /\ gates' = [gates EXCEPT ![g].users = @ + 1]
          /\ thread' = [thread EXCEPT ![t] = [at |-> "acquire", gate |-> g]]
    BY DEF Joins
  <1>2. t \notin Pacers /\ UNCHANGED <<now, last>>
    BY DEF Joins, ThreadAt, Pacers
  <1>3. \A x \in Threads : thread'[x] = IF x = t THEN [at |-> "acquire", gate |-> g] ELSE thread[x]
    BY <1>1 DEF PacingInv, PacingTypeOK
  <1>4. Pacers' = Pacers \cup {t}
    BY <1>3 DEF Pacers
  <1>5. IsFiniteSet(Pacers') /\ Cardinality(Pacers') = Cardinality(Pacers) + 1
        /\ Cardinality(Pacers) \in Nat
    BY <1>2, <1>4, FS_AddElement, FS_CardinalityType DEF PacingInv
  <1>6. gates[g] \in [users : Nat, held : BOOLEAN, next : Nat]
        /\ gates'[g] = [gates[g] EXCEPT !.users = @ + 1]
    BY <1>1 DEF PacingInv, PacingTypeOK
  <1>7. PacingTypeOK'
    <2>1. gates[g].users + 1 \in Nat
      BY <1>6
    <2> QED
      BY <1>1, <1>2, <2>1 DEF PacingInv, PacingTypeOK
  <1>8. \A x \in Threads : Entered(x)' <=> Entered(x) /\ x # t
    BY <1>3 DEF Entered
  <1>9. 0 \notin Gate
    BY DEF Gate
  <1>10. CASE table # 0 /\ ~Expired(table)
    <2>1. g = table /\ gates'[g].users = gates[table].users + 1
          /\ gates'[g].held = gates[table].held /\ gates'[g].next = gates[table].next
      BY <1>1, <1>6, <1>10
    <2>2. \A x \in Pacers' : thread'[x].gate = g
      BY <1>2, <1>3, <1>4, <2>1 DEF PacingInv, Pacers
    <2> QED
      BY <1>1, <1>2, <1>5, <1>7, <1>8, <1>9, <2>1, <2>2, <1>10 DEF PacingInv
  <1>11. CASE table = 0 \/ Expired(table)
    <2>1. Pacers = {}
      <3>1. CASE table = 0
        BY <3>1 DEF PacingInv
      <3>2. CASE table # 0 /\ Expired(table)
        <4>1. Cardinality(Pacers) = 0
          BY <3>2 DEF PacingInv, Expired
        <4> QED
          BY <4>1, FS_EmptySet DEF PacingInv
      <3> QED
        BY <3>1, <3>2, <1>11
    <2>2. gates[g] = Closed
      BY <1>1, <1>11
    <2>3. gates'[g].users = 1 /\ Cardinality(Pacers) = 0
      BY <1>6, <2>1, <2>2, FS_EmptySet DEF Closed
    <2>4. \A x \in Threads : ~Entered(x)'
      BY <1>8, <2>1 DEF Entered, Pacers
    <2>5. last # 0 => last + 1 <= now
      BY <1>11, PacingAssumption DEF PacingInv, PacingTypeOK, Expired, Gate
    <2>6. \A x \in Pacers' : thread'[x].gate = g
      BY <1>3, <1>4, <2>1
    <2> QED
      BY <1>1, <1>2, <1>5, <1>7, <1>9, <2>3, <2>4, <2>5, <2>6 DEF PacingInv
  <1> QED
    BY <1>10, <1>11

\* A step of the threads that change an object.
LEMMA PacingSteps == PacingInv /\ [PacingNext]_gvars => PacingInv'
  <1> SUFFICES ASSUME PacingInv, [PacingNext]_gvars PROVE PacingInv'
    OBVIOUS
  <1>1. CASE UNCHANGED gvars
    BY <1>1 DEF gvars, PacingInv, PacingTypeOK, Pacers, Entered
  <1>2. CASE Passes
    <2>1. now' = now + 1 /\ UNCHANGED <<table, gates, thread, last>> /\ now \in Nat /\ last \in Nat
      BY <1>2 DEF Passes, PacingInv, PacingTypeOK
    <2>2. PacingTypeOK'
      BY <2>1 DEF PacingInv, PacingTypeOK
    <2>3. Pacers' = Pacers /\ \A t \in Threads : Entered(t)' = Entered(t)
      BY <2>1 DEF Pacers, Entered
    <2> QED
      BY <2>1, <2>2, <2>3 DEF PacingInv
  <1>3. ASSUME NEW t \in Threads, thread[t].at # "away"
        PROVE  /\ t \in Pacers /\ GateOf(t) = table /\ table \in Gate
               /\ gates[table] \in [users : Nat, held : BOOLEAN, next : Nat]
               /\ now \in Nat /\ last \in Nat
               /\ last # 0 => last + 1 <= now \/ last + 1 <= gates[table].next
               /\ gates \in [Gate -> [users : Nat, held : BOOLEAN, next : Nat]]
               /\ \A x \in Threads : Entered(x) => gates[table].held
               /\ \A x \in Threads : Entered(t) /\ Entered(x) => t = x
    BY <1>3 DEF PacingInv, PacingTypeOK, Pacers, GateOf
  <1>4. ASSUME NEW t \in Threads, Acquires(t) PROVE PacingInv'
    <2>1. thread[t].at = "acquire" /\ ~gates[table].held
      BY <1>4, <1>3 DEF Acquires, ThreadAt
    <2> DEFINE g == table
    <2>2. gates' = [gates EXCEPT ![table].held = TRUE]
      BY <1>4, <2>1, <1>3 DEF Acquires
    <2>3. /\ gates' \in [Gate -> [users : Nat, held : BOOLEAN, next : Nat]]
          /\ gates'[table].users = gates[table].users /\ gates'[table].held
          /\ gates'[table].next = gates[table].next
      BY <2>1, <2>2, <1>3
    <2>4. (\A x \in Threads : ~Entered(x)) /\ Entered(t)'
      BY <1>4, <2>1, <1>3 DEF Acquires, ThreadSteps, Entered, PacingInv, PacingTypeOK
    <2> QED
      BY <1>3, <1>4, <2>1, <2>3, <2>4, PacerSteps DEF Acquires
  <1>5. ASSUME NEW t \in Threads, GivesUpGate(t) PROVE PacingInv'
    <2>1. thread[t].at \in {"acquire", "pause"}
      BY <1>5 DEF GivesUpGate
    <2> DEFINE keeps == gates[table].held /\ ThreadAt(t, "acquire")
               next == [users |-> gates[table].users - 1, held |-> keeps, next |-> gates[table].next]
    <2>2. gates' = [gates EXCEPT ![table] = next]
      BY <1>5, <2>1, <1>3 DEF GivesUpGate
    <2>3. keeps \in BOOLEAN /\ (ThreadAt(t, "acquire") => keeps = gates[table].held)
      BY <2>1, <1>3 
    <2> HIDE DEF keeps
    <2>4. next \in [users : Nat \cup {gates[table].users - 1}, held : BOOLEAN, next : Nat]
      BY <2>1, <2>3, <1>3
    <2>5. next.users = gates[table].users - 1 /\ next.next = gates[table].next
          /\ next.held = keeps
      OBVIOUS
    <2> HIDE DEF next
    <2>6. /\ gates' \in [Gate -> [users : Nat \cup {gates[table].users - 1}, held : BOOLEAN,
                                  next : Nat]]
          /\ gates'[table].users = gates[table].users - 1
          /\ gates'[table].next = gates[table].next
          /\ ThreadAt(t, "acquire") => gates'[table].held = gates[table].held
      BY <2>1, <2>2, <2>3, <2>4, <2>5, <1>3
    <2> QED
      BY <1>3, <1>5, <2>1, <2>6, PacerLeaves DEF GivesUpGate, ThreadAt
  <1>6. ASSUME NEW t \in Threads, Requests(t) PROVE PacingInv'
    <2>1. thread[t].at = "pause" /\ UNCHANGED gates
      BY <1>6 DEF Requests, ThreadAt
    <2>2. \A x \in Threads \ {t} : ~Entered(x)
      BY <2>1, <1>3 DEF Entered
    <2>3. Entered(t) /\ gates[table].held
      BY <2>1, <1>3 DEF Entered
    <2> QED
      BY <1>3, <1>6, <2>1, <2>2, <2>3, PacerSteps DEF Requests
  <1>7. ASSUME NEW t \in Threads, Returns(t) PROVE PacingInv'
    <2>1. thread[t].at = "request"
      BY <1>7 DEF Returns, ThreadAt
    <2>2. gates' = [gates EXCEPT ![table].next = now + 1] /\ last' = now
      BY <1>7, <2>1, <1>3 DEF Returns
    <2>3. /\ gates' \in [Gate -> [users : Nat, held : BOOLEAN, next : Nat]]
          /\ gates'[table].users = gates[table].users
          /\ gates'[table].held = gates[table].held
          /\ gates'[table].next = now + 1
      <3>1. now + 1 \in Nat
        BY <2>1, <1>3
      <3> QED
        BY <2>1, <2>2, <3>1, <1>3
    <2>4. Entered(t) /\ gates[table].held /\ \A x \in Threads \ {t} : ~Entered(x)
      BY <2>1, <1>3 DEF Entered
    <2>5. t \in Pacers /\ ThreadSteps(t, "release") /\ UNCHANGED <<now, table>> /\ last' \in Nat
          /\ last' + 1 <= gates'[table].next
      BY <1>3, <1>7, <2>1, <2>2, <2>3 DEF Returns
    <2> QED
      BY <2>3, <2>4, <2>5, PacerSteps
  <1>8. ASSUME NEW t \in Threads, Releases(t) PROVE PacingInv'
    <2>1. thread[t].at = "release"
      BY <1>8 DEF Releases, ThreadAt
    <2>2. gates' = [gates EXCEPT ![table].held = FALSE]
      BY <1>8, <2>1, <1>3 DEF Releases
    <2>3. /\ gates' \in [Gate -> [users : Nat, held : BOOLEAN, next : Nat]]
          /\ gates'[table].users = gates[table].users
          /\ gates'[table].next = gates[table].next
      BY <2>1, <2>2, <1>3
    <2>4. ~Entered(t)' /\ Entered(t)
      BY <1>8, <2>1 DEF Releases, ThreadSteps, Entered, PacingInv, PacingTypeOK
    <2> QED
      BY <1>3, <1>8, <2>1, <2>3, <2>4, PacerSteps DEF Releases
  <1>9. ASSUME NEW t \in Threads, Parts(t) PROVE PacingInv'
    <2>1. thread[t].at = "part"
      BY <1>9 DEF Parts, ThreadAt
    <2>2. gates' = [gates EXCEPT ![table].users = gates[table].users - 1]
      BY <1>9, <2>1, <1>3 DEF Parts
    <2>3. /\ gates' \in [Gate -> [users : Nat \cup {gates[table].users - 1}, held : BOOLEAN,
                                  next : Nat]]
          /\ gates'[table].users = gates[table].users - 1
          /\ gates'[table].held = gates[table].held
          /\ gates'[table].next = gates[table].next
      BY <2>1, <2>2, <1>3
    <2> QED
      BY <1>3, <1>9, <2>1, <2>3, PacerLeaves DEF Parts
  <1> QED
    BY <1>1, <1>2, <1>4, <1>5, <1>6, <1>7, <1>8, <1>9, JoinsStep DEF PacingNext

\* However threads come, wait, give up and go, the requests of one process to change one object
\* do not overlap, and are an interval apart.
THEOREM RequestsArePaced == PacingSpec => Paced
  <1> DEFINE Paces == \A t \in Threads : ThreadAt(t, "pause") /\ ThreadAt(t, "request")' =>
                /\ last # 0 => last + 1 <= now
                /\ \A x \in Threads : ~ThreadAt(x, "request")
  <1>1. PacingInv /\ [PacingNext]_gvars => [Paces]_gvars
    <2> SUFFICES ASSUME PacingInv, PacingNext, NEW t \in Threads,
                        ThreadAt(t, "pause"), ThreadAt(t, "request")'
                 PROVE  /\ last # 0 => last + 1 <= now
                        /\ \A x \in Threads : ~ThreadAt(x, "request")
      OBVIOUS
    <2>1. Requests(t)
      <3>1. thread \in [Threads -> [at : {"away", "acquire", "pause", "request", "release", "part"},
                                    gate : Gate \cup {0}]]
            /\ thread[t].at = "pause" /\ thread'[t].at = "request"
        BY DEF PacingInv, PacingTypeOK, ThreadAt
      <3>2. ~Passes
        BY <3>1 DEF Passes
      <3>3. ASSUME NEW x \in Threads, Joins(x) \/ GivesUpGate(x) \/ Parts(x) PROVE FALSE
        BY <3>1, <3>3 DEF Joins, GivesUpGate, Parts, Away
      <3>4. ASSUME NEW x \in Threads, Acquires(x) \/ Returns(x) \/ Releases(x) PROVE FALSE
        BY <3>1, <3>4 DEF Acquires, Returns, Releases, ThreadSteps
      <3>5. ASSUME NEW x \in Threads, Requests(x) PROVE x = t
        BY <3>1, <3>5 DEF Requests, ThreadSteps
      <3> QED
        BY <3>2, <3>3, <3>4, <3>5 DEF PacingNext
    <2>2. gates[table].next <= now /\ t \in Pacers
      BY <2>1 DEF Requests, GateOf, PacingInv, Pacers, ThreadAt
    <2>3. now \in Nat /\ last \in Nat /\ gates[table].next \in Nat
      BY <2>2 DEF PacingInv, PacingTypeOK
    <2>4. \A x \in Threads : ~ThreadAt(x, "request")
      BY DEF PacingInv, Entered, ThreadAt
    <2> QED
      BY <2>2, <2>3, <2>4 DEF PacingInv
  <1> QED
    BY <1>1, PacingBegins, PacingSteps, PTL DEF PacingSpec, Paced

-----------------------------------------------------------------------------
(* Capture: what has been read of a table is the beginning of what it held *)
(* at the read point.                                                      *)

\* In no version of the warehouse does the ledger certify a run whose rows are not there.
WarehouseInv ==
  /\ log \in Seq([Tables -> Nat]) /\ Len(log) > 0
  /\ \A v \in 1 .. Len(log) : log[v]["ledger"] <= log[v]["facts"]
  /\ pinned \in 0 .. Len(log)

\* A stream is resumed where its reader has counted to.
StreamInv(t) ==
  /\ result[t] = NoRows \/ (pinned # NotPinned /\ result[t] = RowsOfTable(t, pinned))
  /\ served[t] \in Nat /\ offset[t] = served[t]
  /\ result[t] = NoRows => served[t] = 0
  /\ pinned # NotPinned /\ result[t] # NoRows => served[t] <= log[pinned][t]
  /\ taken[t] = [k \in 1 .. served[t] |-> k]

PinnedInv ==
  /\ result \in [Tables -> Seq(Nat)] /\ taken \in [Tables -> Seq(Nat)]
  /\ offset \in [Tables -> Nat] /\ served \in [Tables -> Nat]
  /\ WarehouseInv /\ \A t \in Tables : StreamInv(t)

\* The rows of a table are numbered, so none is NoRows.
LEMMA RowsAre ==
  ASSUME WarehouseInv, pinned # NotPinned, NEW t \in Tables
  PROVE  /\ log[pinned][t] \in Nat
         /\ RowsOfTable(t, pinned) \in Seq(Nat)
         /\ Len(RowsOfTable(t, pinned)) = log[pinned][t]
         /\ RowsOfTable(t, pinned) # NoRows
         /\ \A k \in 1 .. log[pinned][t] : RowsOfTable(t, pinned)[k] = k
  <1>1. pinned \in 1 .. Len(log) /\ log[pinned][t] \in Nat
    BY DEF WarehouseInv, NotPinned
  <1> DEFINE rows == RowsOfTable(t, pinned)
  <1>2. rows = [k \in 1 .. log[pinned][t] |-> k]
    BY DEF RowsOfTable
  <1>3. \A k \in 1 .. log[pinned][t] : rows[k] = k
    BY <1>2
  <1>4. rows \in Seq(Nat) /\ Len(rows) = log[pinned][t]
    BY <1>1, <1>2
  <1>5. rows # NoRows
    <2>1. rows[1] # NoRows[1] \/ Len(rows) # Len(NoRows)
      BY <1>1, <1>3, <1>4 DEF NoRows
    <2> QED
      BY <2>1
  <1> QED
    BY <1>1, <1>3, <1>4, <1>5

\* Nothing has been captured.
LEMMA PinnedBegins == PinnedInit => PinnedInv
  <1> SUFFICES ASSUME PinnedInit PROVE PinnedInv
    OBVIOUS
  <1>1. log = <<[t \in Tables |-> 0]>> /\ [t \in Tables |-> 0] \in [Tables -> Nat] /\ pinned = 0
    BY DEF PinnedInit, NotPinned
  <1>2. WarehouseInv
    BY <1>1 DEF WarehouseInv, Tables
  <1>3. /\ result \in [Tables -> Seq(Nat)] /\ taken \in [Tables -> Seq(Nat)]
        /\ offset \in [Tables -> Nat] /\ served \in [Tables -> Nat]
    BY DEF PinnedInit, NoRows
  <1>4. [k \in 1 .. 0 |-> k] = <<>>
    OBVIOUS
  <1>5. \A t \in Tables : StreamInv(t)
    BY <1>1, <1>4 DEF PinnedInit, StreamInv, NotPinned
  <1> QED
    BY <1>2, <1>3, <1>5 DEF PinnedInv

\* A commit, the read point, or a step of a stream.
LEMMA PinnedSteps == PinnedInv /\ [PinnedNext]_fvars => PinnedInv'
  <1> SUFFICES ASSUME PinnedInv, [PinnedNext]_fvars PROVE PinnedInv'
    OBVIOUS
  <1>1. CASE UNCHANGED fvars
    BY <1>1 DEF fvars, PinnedInv, WarehouseInv, StreamInv, RowsOfTable
  <1>2. CASE OthersPublish
    <2>1. UNCHANGED <<pinned, result, taken, offset, served>>
      BY <1>2 DEF OthersPublish, streams
    <2>2. log[Len(log)] \in [Tables -> Nat]
          /\ log[Len(log)]["ledger"] <= log[Len(log)]["facts"]
          /\ Len(log) \in Nat
      BY DEF PinnedInv, WarehouseInv
    <2>3. PICK next \in [Tables -> Nat] :
            log' = Append(log, next) /\ next["ledger"] <= next["facts"]
      <3> DEFINE latest == log[Len(log)]
                 both == [t \in Tables |-> latest[t] + 1]
                 facts == [latest EXCEPT !["facts"] = @ + 1]
                 ledger == [latest EXCEPT !["ledger"] = @ + 1]
      <3>1. both \in [Tables -> Nat] /\ both["ledger"] <= both["facts"]
        BY <2>2 DEF Tables
      <3>2. facts \in [Tables -> Nat] /\ facts["ledger"] <= facts["facts"]
        BY <2>2 DEF Tables
      <3>3. latest["ledger"] < latest["facts"] =>
              ledger \in [Tables -> Nat] /\ ledger["ledger"] <= ledger["facts"]
        BY <2>2 DEF Tables
      <3>4. \/ log' = Append(log, both) \/ log' = Append(log, facts)
            \/ latest["ledger"] < latest["facts"] /\ log' = Append(log, ledger)
        BY <1>2 DEF OthersPublish
      <3> HIDE DEF both, facts, ledger
      <3> QED
        BY <3>1, <3>2, <3>3, <3>4
    <2>4. log' \in Seq([Tables -> Nat]) /\ Len(log') = Len(log) + 1
          /\ \A v \in 1 .. Len(log) : log'[v] = log[v]
          /\ log'[Len(log) + 1] = next
      BY <2>2, <2>3, SMTT(30) DEF PinnedInv, WarehouseInv
    <2>5. WarehouseInv'
      <3>1. \A v \in 1 .. Len(log') : log'[v]["ledger"] <= log'[v]["facts"]
        <4>1. \A v \in 1 .. Len(log) : log[v]["ledger"] <= log[v]["facts"]
          BY DEF PinnedInv, WarehouseInv
        <4>2. Len(log) \in Nat
          BY DEF PinnedInv, WarehouseInv
        <4>3. \A v \in 1 .. Len(log') : v \in 1 .. Len(log) \/ v = Len(log) + 1
          BY <2>4, <4>2
        <4>4. \A v \in 1 .. Len(log) : log'[v]["ledger"] <= log'[v]["facts"]
          BY <2>4, <4>1
        <4> QED
          BY <2>3, <2>4, <4>3, <4>4
      <3>2. pinned \in 0 .. Len(log)
        BY DEF PinnedInv, WarehouseInv
      <3>3. pinned' \in 0 .. Len(log') /\ Len(log') > 0
        BY <2>1, <2>2, <2>4, <3>2
      <3> QED
        BY <2>4, <3>1, <3>3 DEF WarehouseInv
    <2>6. pinned # NotPinned => log'[pinned] = log[pinned]
      BY <2>2, <2>4 DEF PinnedInv, WarehouseInv, NotPinned
    <2>7. \A t \in Tables : StreamInv(t)'
      BY <2>1, <2>6 DEF PinnedInv, StreamInv, RowsOfTable
    <2> QED
      BY <2>1, <2>5, <2>7 DEF PinnedInv
  <1>3. CASE TakeReadPoint
    <2>1. pinned = NotPinned /\ pinned' = Len(log) /\ UNCHANGED <<log, result, taken, offset, served>>
      BY <1>3 DEF TakeReadPoint, streams
    <2>2. WarehouseInv'
      BY <2>1 DEF PinnedInv, WarehouseInv
    <2>3. \A t \in Tables : StreamInv(t)'
      BY <2>1 DEF PinnedInv, StreamInv
    <2> QED
      BY <2>1, <2>2, <2>3 DEF PinnedInv
  <1>4. ASSUME NEW t \in Tables, QueryTable(t) PROVE PinnedInv'
    <2>1. pinned # NotPinned /\ result[t] = NoRows
          /\ result' = [result EXCEPT ![t] = RowsOfTable(t, pinned)]
          /\ UNCHANGED <<log, pinned, taken, offset, served>>
      BY <1>4 DEF QueryTable, AtCapture, streams
    <2>2. RowsOfTable(t, pinned) \in Seq(Nat) /\ log[pinned][t] \in Nat
      BY <2>1, RowsAre DEF PinnedInv
    <2>3. result' \in [Tables -> Seq(Nat)]
          /\ \A u \in Tables : result'[u] = IF u = t THEN RowsOfTable(t, pinned) ELSE result[u]
      BY <2>1, <2>2 DEF PinnedInv
    <2>4. WarehouseInv'
      BY <2>1 DEF PinnedInv, WarehouseInv
    <2>5. ASSUME NEW u \in Tables PROVE StreamInv(u)'
      <3>1. StreamInv(u) /\ RowsOfTable(u, pinned)' = RowsOfTable(u, pinned)
        BY <2>1 DEF PinnedInv, RowsOfTable
      <3>2. CASE u = t
        <4>1. served[t] = 0 /\ result'[u] = RowsOfTable(t, pinned)
          BY <2>1, <2>3, <3>1, <3>2 DEF StreamInv
        <4> QED
          BY <2>1, <2>2, <3>1, <3>2, <4>1 DEF StreamInv
      <3>3. CASE u # t
        BY <2>1, <2>3, <3>1, <3>3 DEF StreamInv
      <3> QED
        BY <3>2, <3>3
    <2> QED
      BY <2>1, <2>3, <2>4, <2>5 DEF PinnedInv
  <1>5. ASSUME NEW t \in Tables, TakeBatch(t) PROVE PinnedInv'
    <2> DEFINE rows == RowsOfTable(t, pinned)
    <2>1. PICK n \in 0 .. Len(result[t]) - served[t] :
            LET batch == SubSeq(result[t], served[t] + 1, served[t] + n) IN
            /\ offset' = [offset EXCEPT ![t] = @ + Len(batch)]
            /\ served' = [served EXCEPT ![t] = @ + n]
            /\ taken' = [taken EXCEPT ![t] = @ \o batch]
      BY <1>5 DEF TakeBatch, Counted
    <2>2. result[t] # NoRows /\ UNCHANGED <<log, pinned, result>>
      BY <1>5 DEF TakeBatch, Reading
    <2>3. pinned # NotPinned /\ result[t] = rows
          /\ served[t] \in Nat /\ offset[t] = served[t] /\ served[t] <= log[pinned][t]
          /\ taken[t] = [k \in 1 .. served[t] |-> k]
      BY <2>2 DEF PinnedInv, StreamInv
    <2>4. /\ log[pinned][t] \in Nat /\ rows \in Seq(Nat) /\ Len(rows) = log[pinned][t]
          /\ \A k \in 1 .. log[pinned][t] : rows[k] = k
      BY <2>3, RowsAre DEF PinnedInv
    <2> HIDE DEF rows
    <2>5. n \in Nat /\ served[t] + n <= log[pinned][t]
      <3>1. n \in 0 .. log[pinned][t] - served[t]
        <4>1. Len(result[t]) = log[pinned][t]
          BY <2>3, <2>4
        <4> QED
          BY <4>1
      <3> QED
        BY <3>1, <2>3, <2>4
    <2> DEFINE batch == SubSeq(rows, served[t] + 1, served[t] + n)
               more == taken[t] \o batch
    <2>6. batch \in Seq(Nat) /\ Len(batch) = n /\ \A i \in 1 .. n : batch[i] = served[t] + i
      <3> DEFINE first == served[t] + 1
                 final == served[t] + n
      <3>1. first \in Int /\ final \in Int /\ final - first + 1 = n
            /\ (IF first <= final THEN final - first + 1 ELSE 0) = n
        BY <2>3, <2>5
      <3>2. \A i \in first .. final : i \in 1 .. log[pinned][t]
        BY <2>3, <2>4, <2>5
      <3>3. \A i \in first .. final : rows[i] \in Nat
        BY <2>4, <3>2
      <3>4. \A i \in 1 .. n : first + i - 1 = served[t] + i /\ first + i - 1 \in 1 .. log[pinned][t]
        BY <2>3, <2>4, <2>5, SMTT(30)
      <3>5. batch = SubSeq(rows, first, final)
        OBVIOUS
      <3> HIDE DEF first, final, batch
      <3>6. /\ batch \in Seq(Nat) /\ Len(batch) = IF first <= final THEN final - first + 1 ELSE 0
            /\ \A i \in 1 .. final - first + 1 : batch[i] = rows[first + i - 1]
        BY <3>1, <3>3, <3>5, SubSeqProperties
      <3>7. \A i \in 1 .. n : batch[i] = served[t] + i
        BY <2>4, <3>1, <3>4, <3>6
      <3> QED
        BY <3>1, <3>6, <3>7
    <2>7. taken[t] \in Seq(Nat) /\ Len(taken[t]) = served[t]
          /\ \A k \in 1 .. served[t] : taken[t][k] = k
      BY <2>3
    <2>8. more = [k \in 1 .. served[t] + n |-> k] /\ more \in Seq(Nat)
      <3> HIDE DEF batch
      <3>1. more \in Seq(Nat) /\ Len(more) = served[t] + n
        BY <2>3, <2>5, <2>6, <2>7
      <3>2. \A k \in 1 .. served[t] + n : more[k] = k
        <4> SUFFICES ASSUME NEW k \in 1 .. served[t] + n PROVE more[k] = k
          OBVIOUS
        <4>1. CASE k <= served[t]
          BY <4>1, <2>3, <2>5, <2>6, <2>7
        <4>2. CASE k > served[t]
          <5>1. k - served[t] \in 1 .. n
            BY <4>2, <2>3, <2>5
          <5>2. more[k] = batch[k - served[t]]
            BY <4>2, <5>1, <2>3, <2>5, <2>6, <2>7
          <5>3. batch[k - served[t]] = served[t] + (k - served[t])
            BY <5>1, <2>6
          <5> QED
            BY <5>2, <5>3, <2>3, <2>5
        <4>3. k <= served[t] \/ k > served[t]
          BY <2>3, <2>5
        <4> QED
          BY <4>1, <4>2, <4>3, Zenon
      <3> HIDE DEF more
      <3> QED
        BY <3>1, <3>2
    <2>9. /\ offset' = [offset EXCEPT ![t] = served[t] + n]
          /\ served' = [served EXCEPT ![t] = served[t] + n]
          /\ taken' = [taken EXCEPT ![t] = more]
      BY <2>1, <2>3, <2>6 DEF PinnedInv
    <2> HIDE DEF more, batch
    <2>10. /\ taken' \in [Tables -> Seq(Nat)]
           /\ offset' \in [Tables -> Nat] /\ served' \in [Tables -> Nat]
           /\ \A u \in Tables : u # t =>
                taken'[u] = taken[u] /\ offset'[u] = offset[u] /\ served'[u] = served[u]
           /\ taken'[t] = more /\ offset'[t] = served[t] + n /\ served'[t] = served[t] + n
      BY <2>3, <2>5, <2>8, <2>9 DEF PinnedInv
    <2>11. WarehouseInv'
      BY <2>2 DEF PinnedInv, WarehouseInv
    <2>12. ASSUME NEW u \in Tables PROVE StreamInv(u)'
      <3>1. CASE u = t
        <4>1. rows' = rows
          BY <2>2 DEF rows, RowsOfTable
        <4> QED
          BY <3>1, <4>1, <2>2, <2>3, <2>4, <2>5, <2>8, <2>10 DEF StreamInv, rows
      <3>2. CASE u # t
        <4>1. StreamInv(u)
          BY DEF PinnedInv
        <4> QED
          BY <3>2, <4>1, <2>2, <2>10 DEF StreamInv, RowsOfTable
      <3> QED
        BY <3>1, <3>2
    <2> QED
      BY <2>2, <2>10, <2>11, <2>12 DEF PinnedInv
  <1>6. ASSUME NEW t \in Tables, Resume(t) PROVE PinnedInv'
    <2>1. UNCHANGED <<log, pinned, result, taken, offset>> /\ offset[t] = served[t]
          /\ served' = [served EXCEPT ![t] = offset[t]]
      BY <1>6 DEF Resume, PinnedInv, StreamInv
    <2>2. served' = served
      BY <2>1 DEF PinnedInv
    <2> QED
      BY <2>1, <2>2 DEF PinnedInv, WarehouseInv, StreamInv, RowsOfTable
  <1> QED
    BY <1>1, <1>2, <1>3, <1>4, <1>5, <1>6 DEF PinnedNext

\* What is captured, table by table and resumed wherever a stream broke, is the warehouse at
\* the read point: each row once, and no run certified without its rows.
THEOREM CaptureIsOfOneInstant == PinnedSpec => []IsOfOneInstant
  <1>1. PinnedInv => IsOfOneInstant
    <2> SUFFICES ASSUME PinnedInv PROVE IsOfOneInstant
      OBVIOUS
    <2>1. ASSUME NEW t \in Tables, Finished(t)
          PROVE  /\ pinned # NotPinned /\ served[t] = log[pinned][t]
                 /\ taken[t] = RowsOfTable(t, pinned)
      <3>1. pinned # NotPinned /\ result[t] = RowsOfTable(t, pinned)
            /\ taken[t] = [k \in 1 .. served[t] |-> k] /\ served[t] = Len(result[t])
        BY <2>1 DEF Finished, PinnedInv, StreamInv
      <3>2. Len(RowsOfTable(t, pinned)) = log[pinned][t]
        BY <3>1, RowsAre DEF PinnedInv
      <3> QED
        BY <3>1, <3>2 DEF RowsOfTable
    <2>2. CapturedOnce
      BY <2>1 DEF CapturedOnce
    <2>3. SnapshotIsCertified
      <3> SUFFICES ASSUME \A t \in Tables : Finished(t), NEW i \in DOMAIN taken["ledger"]
                   PROVE  \E j \in DOMAIN taken["facts"] : taken["facts"][j] = taken["ledger"][i]
        BY DEF SnapshotIsCertified
      <3>1. pinned \in 1 .. Len(log) /\ "facts" \in Tables /\ "ledger" \in Tables
        BY <2>1 DEF PinnedInv, WarehouseInv, NotPinned, Tables
      <3>2. log[pinned]["ledger"] <= log[pinned]["facts"]
            /\ log[pinned]["ledger"] \in Nat /\ log[pinned]["facts"] \in Nat
        <4>1. log[pinned] \in [Tables -> Nat]
          <5>1. log \in Seq([Tables -> Nat])
            BY DEF PinnedInv, WarehouseInv
          <5> QED
            BY <3>1, <5>1
        <4>2. log[pinned]["ledger"] <= log[pinned]["facts"]
          BY <3>1 DEF PinnedInv, WarehouseInv
        <4> QED
          BY <3>1, <4>1, <4>2
      <3>3. taken["ledger"] = [k \in 1 .. log[pinned]["ledger"] |-> k]
            /\ taken["facts"] = [k \in 1 .. log[pinned]["facts"] |-> k]
        BY <2>1, <3>1 DEF RowsOfTable
      <3> QED
        BY <3>2, <3>3
    <2> QED
      BY <2>2, <2>3 DEF IsOfOneInstant
  <1> QED
    BY <1>1, PinnedBegins, PinnedSteps, PTL DEF PinnedSpec

-----------------------------------------------------------------------------
(* Recovery: a copy that stays sound is not passed over.                   *)

ReaderType ==
  [at : {"discover", "hold", "read", "done"}, left : SUBSET Archives, found : SUBSET Copies,
   todo : SUBSET Copies, read : Nat, held : BOOLEAN, notices : BOOLEAN,
   result : Copies \cup {Pending, NoResult}]

\* A sound copy has yet to be found, or tried, when the latest is asked for; without a notice
\* none has been passed over or tried in vain.
RecoveryInv ==
  /\ reader \in ReaderType /\ copies \in [Copies -> {"absent", "incomplete", "damaged", "whole", "going"}]
  /\ sound \in SUBSET Copies
  /\ \A c \in sound : copies[c] = "whole" /\ archives[c[1]] # "closed"
  /\ reader.at # "done" => reader.result = Pending
  /\ reader.at = "discover" /\ Automatic =>
       \A c \in sound : c[1] \in reader.left \/ c \in reader.found
  /\ reader.at \in {"hold", "read"} =>
       /\ reader.todo # {}
       /\ Automatic => sound \subseteq reader.todo
       /\ ~reader.notices => reader.todo = reader.found
  /\ RestoresLatest

\* A copy is an archive and a snapshot.
LEMMA CopyIs ==
  ASSUME NEW c \in Copies
  PROVE  c[1] \in Archives /\ c[1] \in Nat /\ c[2] \in Nat /\ c = <<c[1], c[2]>>
  <1>1. PICK a \in Archives, s \in Snapshots : c = <<a, s>>
    BY DEF Copies
  <1> QED
    BY <1>1, RecoveryReadAssumption

\* Of finitely many copies one comes first, for the order is total.
LEMMA CandidateIs ==
  ASSUME NEW S \in SUBSET Copies, S # {}
  PROVE  \E c \in S : \A d \in S \ {c} : CandidateOrder(c, d)
  <1> DEFINE R == {p \in Copies \X Copies : CandidateOrder(p[2], p[1])}
  <1>1. IsFiniteSet(Copies)
    BY RecoveryReadAssumption, FS_Product DEF Copies
  <1>2. IsFiniteSet(S)
    BY <1>1, FS_Subset
  <1>3. \A c \in Copies : c[1] \in Nat /\ c[2] \in Nat /\ c = <<c[1], c[2]>>
    BY CopyIs
  <1>4. \A c, d \in Copies : <<c, d>> \in R <=> CandidateOrder(d, c)
    OBVIOUS
  <1> HIDE DEF R
  <1>5. \A c \in S : <<c, c>> \notin R
    BY <1>3, <1>4 DEF CandidateOrder
  <1>6. \A c, d, e \in S : <<c, d>> \in R /\ <<d, e>> \in R => <<c, e>> \in R
    BY <1>3, <1>4 DEF CandidateOrder
  <1>7. PICK c \in S : \A d \in S : <<c, d>> \notin R
    BY <1>2, <1>5, <1>6, FiniteMaximal
  <1>8. ASSUME NEW d \in S \ {c} PROVE CandidateOrder(c, d)
    <2>1. ~CandidateOrder(d, c)
      BY <1>4, <1>7
    <2>2. c[1] # d[1] \/ c[2] # d[2]
      BY <1>3
    <2> QED
      BY <1>3, <2>1, <2>2 DEF CandidateOrder
  <1> QED
    BY <1>8

\* The candidate is the latest that is left to try.
LEMMA CandidateFirst ==
  ASSUME RecoveryInv, reader.at \in {"hold", "read"}
  PROVE  /\ Candidate \in reader.todo /\ Candidate \in Copies
         /\ \A d \in reader.todo \ {Candidate} : CandidateOrder(Candidate, d)
  <1>1. reader.todo \in SUBSET Copies /\ reader.todo # {}
    BY DEF RecoveryInv, ReaderType
  <1> QED
    BY <1>1, CandidateIs DEF Candidate

\* No archive has been searched.
LEMMA RecoveryBegins == RecoveryInit => RecoveryInv
  <1> SUFFICES ASSUME RecoveryInit PROVE RecoveryInv
    OBVIOUS
  <1>1. Pending \notin Copies /\ Pending # NoResult
    BY DEF Pending, NoResult, Copies
  <1>2. reader \in ReaderType
    BY DEF RecoveryInit, ReaderType
  <1>3. RestoresLatest
    BY <1>1 DEF RecoveryInit, RestoresLatest, YieldsLatest, FailsForCause, FallbackIsTold
  <1>4. \A c \in Copies : c[1] \in Archives
    BY DEF Copies
  <1> QED
    BY <1>2, <1>3, <1>4 DEF RecoveryInit, RecoveryInv

\* What holds is not disturbed by a step that takes copies away, once it is told of them.
LEMMA ReaderStep ==
  ASSUME RecoveryInv, reader' \in ReaderType, archives' = archives, choice' = choice,
         sound' \in SUBSET sound, reader.at # "done", copies' = copies,
         reader'.at # "done" => reader'.result = Pending,
         reader'.at = "discover" /\ Automatic =>
           \A c \in sound' : c[1] \in reader'.left \/ c \in reader'.found,
         reader'.at \in {"hold", "read"} =>
           /\ reader'.todo # {}
           /\ Automatic => sound' \subseteq reader'.todo
           /\ ~reader'.notices => reader'.todo = reader'.found,
         reader'.at = "done" => RestoresLatest'
  PROVE  RecoveryInv'
  <1>1. Automatic' = Automatic
    BY DEF Automatic
  <1>2. RestoresLatest'
    <2>1. Pending \notin Copies /\ Pending # NoResult
      BY DEF Pending, NoResult, Copies
    <2>2. reader'.at # "done" => reader'.result \notin Copies \cup {NoResult}
      BY <2>1
    <2>3. Copies' = Copies
      BY DEF Copies
    <2> QED
      BY <2>2, <2>3 DEF RestoresLatest, YieldsLatest, FailsForCause, FallbackIsTold, NoResult
  <1>3. sound' \in SUBSET Copies
    BY DEF RecoveryInv
  <1> QED
    BY <1>1, <1>2, <1>3 DEF RecoveryInv

\* An archive that has been searched has given what is sound in it.
LEMMA DiscoverStep ==
  ASSUME RecoveryInv, NEW a \in Archives, Discover(a) PROVE RecoveryInv'
  <1>1. reader \in ReaderType /\ reader.at = "discover" /\ reader.result = Pending
        /\ UNCHANGED <<copies, archives, choice>> /\ sound \in SUBSET Copies
    BY DEF Discover, ReaderAt, RecoveryInv, outside
  <1>2. NoResult \notin Copies
    BY DEF NoResult, Copies
  <1>3. ASSUME Ends(NoResult), ~Automatic PROVE RecoveryInv'
    <2> DEFINE next == [reader EXCEPT !.at = "done", !.held = FALSE, !.result = NoResult]
    <2>1. next \in ReaderType /\ next.at = "done" /\ next.result = NoResult
      BY <1>1 DEF ReaderType
    <2>2. reader' = next
      BY <1>3 DEF Ends
    <2> HIDE DEF next
    <2>3. sound' \in SUBSET sound
      BY DEF Discover, Smooth, Glitch
    <2>4. RestoresLatest'
      BY <1>1, <1>2, <1>3, <2>1, <2>2
         DEF RestoresLatest, YieldsLatest, FailsForCause, FallbackIsTold, Automatic, Copies,
             NoResult
    <2> QED
      BY <1>1, <2>1, <2>2, <2>3, <2>4, ReaderStep
  <1>4. CASE \E still \in SUBSET {c \in Copies : copies[c] = "going"} :
               LET found == {c \in Copies : Complete(c)} \cup still IN
               /\ archives[a] # "closed"
               /\ reader' = [reader EXCEPT !.left = @ \ {a},
                    !.found = @ \cup {c \in found : c[1] = a /\ choice \in {0, c[2]}}]
               /\ Smooth
    <2>1. PICK still \in SUBSET {c \in Copies : copies[c] = "going"} :
            LET found == {c \in Copies : Complete(c)} \cup still IN
            /\ reader' = [reader EXCEPT !.left = @ \ {a},
                 !.found = @ \cup {c \in found : c[1] = a /\ choice \in {0, c[2]}}]
            /\ Smooth
      BY <1>4
    <2> DEFINE finds == {c \in {c \in Copies : Complete(c)} \cup still :
                           c[1] = a /\ choice \in {0, c[2]}}
               next == [reader EXCEPT !.left = @ \ {a}, !.found = @ \cup finds]
    <2>2. reader' = next /\ sound' = sound
      BY <2>1 DEF Smooth
    <2>3. finds \in SUBSET Copies
      OBVIOUS
    <2>4. Automatic => \A c \in sound : c[1] = a => c \in finds
      BY <1>1 DEF Automatic, Complete, RecoveryInv
    <2> HIDE DEF finds
    <2>5. next \in ReaderType /\ next.at = "discover" /\ next.result = Pending
          /\ next.left = reader.left \ {a} /\ next.found = reader.found \cup finds
      BY <1>1, <2>3 DEF ReaderType
    <2> HIDE DEF next
    <2>6. Automatic => \A c \in sound' : c[1] \in reader'.left \/ c \in reader'.found
      BY <1>1, <2>2, <2>4, <2>5 DEF RecoveryInv
    <2> QED
      BY <1>1, <2>2, <2>5, <2>6, ReaderStep, SMTT(30)
  <1>5. ASSUME PassOver(a), Automatic, sound' \in SUBSET sound,
               \A c \in sound' : c[1] # a
        PROVE RecoveryInv'
    <2> DEFINE next == [reader EXCEPT !.left = @ \ {a}, !.notices = TRUE]
    <2>1. reader' = next
      BY <1>5 DEF PassOver
    <2>2. next \in ReaderType /\ next.at = "discover" /\ next.result = Pending
          /\ next.left = reader.left \ {a} /\ next.found = reader.found
      BY <1>1 DEF ReaderType
    <2> HIDE DEF next
    <2>3. \A c \in sound' : c[1] \in reader'.left \/ c \in reader'.found
      BY <1>1, <1>5, <2>1, <2>2 DEF RecoveryInv
    <2> QED
      BY <1>1, <1>5, <2>1, <2>2, <2>3, ReaderStep
  <1>6. CASE PassOver(a) /\ ~Automatic
    BY <1>3, <1>6 DEF PassOver
  <1>7. CASE archives[a] = "closed" /\ PassOver(a) /\ Smooth /\ Automatic
    BY <1>5, <1>7 DEF Smooth, RecoveryInv
  <1>8. CASE PassOver(a) /\ Glitch({a} \X Snapshots) /\ Automatic
    <2>1. sound' = sound \ ({a} \X Snapshots)
      BY <1>8 DEF Glitch
    <2>2. \A c \in Copies : c[1] = a => c \in {a} \X Snapshots
      BY DEF Copies
    <2>3. \A c \in sound' : c[1] # a
      BY <1>1, <2>1, <2>2
    <2> QED
      BY <1>5, <1>8, <2>1, <2>3
  <1> QED
    BY <1>4, <1>6, <1>7, <1>8 DEF Discover

\* The copies that were found are the ones to try.
LEMMA RankStep ==
  ASSUME RecoveryInv, Rank PROVE RecoveryInv'
  <1>1. reader \in ReaderType /\ reader.at = "discover" /\ reader.result = Pending
        /\ UNCHANGED <<copies, archives, choice, sound>> /\ reader.left = {}
        /\ sound \in SUBSET Copies
    BY DEF Rank, ReaderAt, RecoveryInv, outside, Smooth
  <1>2. NoResult \notin Copies
    BY DEF NoResult, Copies
  <1>3. Automatic => sound \subseteq reader.found
    BY <1>1 DEF RecoveryInv
  <1>4. CASE reader.found = {}
    <2> DEFINE next == [reader EXCEPT !.at = "done", !.held = FALSE, !.result = NoResult]
    <2>1. next \in ReaderType /\ next.at = "done" /\ next.result = NoResult
      BY <1>1 DEF ReaderType
    <2>2. reader' = next
      BY <1>4 DEF Rank, Ends
    <2> HIDE DEF next
    <2>3. RestoresLatest'
      BY <1>1, <1>2, <1>3, <1>4, <2>1, <2>2
         DEF RestoresLatest, YieldsLatest, FailsForCause, FallbackIsTold, Automatic, Copies,
             NoResult
    <2> QED
      BY <1>1, <2>1, <2>2, <2>3, ReaderStep
  <1>5. CASE reader.found # {}
    <2> DEFINE next == [reader EXCEPT !.at = "hold", !.todo = reader.found]
    <2>1. next \in ReaderType /\ next.at = "hold" /\ next.result = Pending
          /\ next.todo = reader.found /\ next.found = reader.found
      BY <1>1 DEF ReaderType
    <2>2. reader' = next
      BY <1>5 DEF Rank
    <2> HIDE DEF next
    <2> QED
      BY <1>1, <1>3, <1>5, <2>1, <2>2, ReaderStep
  <1> QED
    BY <1>4, <1>5

\* The reservation changes nothing that is to be tried.
LEMMA HoldStep ==
  ASSUME RecoveryInv, Hold PROVE RecoveryInv'
  <1>1. reader \in ReaderType /\ reader.at = "hold" /\ reader.result = Pending
        /\ UNCHANGED <<copies, archives, choice, sound>> /\ sound \in SUBSET Copies
    BY DEF Hold, ReaderAt, RecoveryInv, outside, Smooth
  <1>2. PICK held \in BOOLEAN, told \in BOOLEAN :
          /\ reader' = [reader EXCEPT !.at = "read", !.held = held, !.read = 0, !.notices = told]
          /\ reader.notices => told
    <2>1. PICK noticed \in BOOLEAN : reader' =
            IF archives[Candidate[1]] = "open"
              THEN [reader EXCEPT !.at = "read", !.held = TRUE, !.read = 0,
                                  !.notices = @ \/ noticed]
              ELSE [reader EXCEPT !.at = "read", !.read = 0, !.notices = TRUE]
      BY DEF Hold
    <2>2. CASE archives[Candidate[1]] = "open"
      <3>1. (reader.notices \/ noticed) \in BOOLEAN
        BY <1>1 DEF ReaderType
      <3>2. reader' = [reader EXCEPT !.at = "read", !.held = TRUE, !.read = 0,
                                     !.notices = reader.notices \/ noticed]
        BY <2>1, <2>2
      <3> QED
        BY <3>1, <3>2
    <2>3. CASE archives[Candidate[1]] # "open"
      <3>1. reader.held \in BOOLEAN
        BY <1>1 DEF ReaderType
      <3>2. reader' = [reader EXCEPT !.at = "read", !.held = reader.held, !.read = 0,
                                     !.notices = TRUE]
        BY <1>1, <2>1, <2>3 DEF ReaderType
      <3> QED
        BY <3>1, <3>2
    <2> QED
      BY <2>2, <2>3
  <1> DEFINE next == [reader EXCEPT !.at = "read", !.held = held, !.read = 0, !.notices = told]
  <1>3. next \in ReaderType /\ next.at = "read" /\ next.result = Pending
        /\ next.todo = reader.todo /\ next.found = reader.found /\ next.notices = told
    BY <1>1 DEF ReaderType
  <1>4. reader' = next
    BY <1>2
  <1> HIDE DEF next
  <1>5. /\ reader.todo # {}
        /\ Automatic => sound \subseteq reader.todo
        /\ ~told => reader.todo = reader.found
    BY <1>1, <1>2 DEF RecoveryInv
  <1> QED
    BY <1>1, <1>3, <1>4, <1>5, ReaderStep

\* A candidate that is rejected is not sound.
LEMMA RejectStep ==
  ASSUME RecoveryInv, reader.at = "read", Reject, UNCHANGED outside,
         sound' \in SUBSET sound, Candidate \notin sound'
  PROVE  RecoveryInv'
  <1>1. reader \in ReaderType /\ reader.result = Pending /\ sound \in SUBSET Copies
        /\ UNCHANGED <<copies, archives, choice>>
    BY DEF RecoveryInv, outside
  <1>2. Candidate \in reader.todo
    BY CandidateFirst
  <1>3. Automatic => sound' \subseteq reader.todo \ {Candidate}
    BY DEF RecoveryInv
  <1>4. NoResult \notin Copies
    BY DEF NoResult, Copies
  <1>5. CASE ~Automatic \/ reader.todo = {Candidate}
    <2> DEFINE next == [reader EXCEPT !.at = "done", !.held = FALSE, !.result = NoResult]
    <2>1. next \in ReaderType /\ next.at = "done" /\ next.result = NoResult
      BY <1>1 DEF ReaderType
    <2>2. reader' = next
      BY <1>5 DEF Reject, Ends
    <2> HIDE DEF next
    <2>3. Automatic => sound' = {}
      BY <1>3, <1>5
    <2>4. RestoresLatest'
      BY <1>1, <1>4, <2>1, <2>2, <2>3
         DEF RestoresLatest, YieldsLatest, FailsForCause, FallbackIsTold, Automatic, Copies,
             NoResult
    <2> QED
      BY <1>1, <2>1, <2>2, <2>4, ReaderStep
  <1>6. CASE ~(~Automatic \/ reader.todo = {Candidate})
    <2> DEFINE next == [reader EXCEPT !.at = "hold", !.held = FALSE,
                                      !.todo = reader.todo \ {Candidate}, !.notices = TRUE]
    <2>1. next \in ReaderType /\ next.at = "hold" /\ next.result = Pending
          /\ next.todo = reader.todo \ {Candidate} /\ next.notices = TRUE
      BY <1>1 DEF ReaderType
    <2>2. reader' = next
      BY <1>6 DEF Reject
    <2> HIDE DEF next
    <2>3. reader.todo \ {Candidate} # {}
      BY <1>2, <1>6
    <2> QED
      BY <1>1, <1>3, <2>1, <2>2, <2>3, ReaderStep
  <1> QED
    BY <1>5, <1>6

\* A candidate that is rejected is not sound, or no longer.
LEMMA ReadStep ==
  ASSUME RecoveryInv, Read PROVE RecoveryInv'
  <1>1. reader \in ReaderType /\ reader.at = "read" /\ reader.result = Pending
        /\ UNCHANGED <<copies, archives, choice>> /\ sound \in SUBSET Copies /\ UNCHANGED outside
    BY DEF Read, ReaderAt, RecoveryInv, outside
  <1>2. ASSUME reader' = [reader EXCEPT !.read = @ + 1], Smooth PROVE RecoveryInv'
    <2> DEFINE next == [reader EXCEPT !.read = @ + 1]
    <2>1. reader.read + 1 \in Nat
      BY <1>1 DEF ReaderType
    <2>2. next \in ReaderType /\ next.at = "read" /\ next.result = Pending
          /\ next.todo = reader.todo /\ next.found = reader.found
          /\ next.notices = reader.notices
      BY <1>1, <2>1 DEF ReaderType
    <2>3. reader' = next /\ sound' = sound
      BY <1>2 DEF Smooth
    <2> HIDE DEF next
    <2> QED
      BY <1>1, <2>2, <2>3, ReaderStep DEF RecoveryInv
  <1>3. CASE copies[Candidate] # "whole" /\ Reject /\ Smooth
    <2>1. Candidate \notin sound /\ sound' = sound
      BY <1>3 DEF RecoveryInv, Smooth
    <2> QED
      BY <1>1, <1>3, <2>1, RejectStep
  <1>4. CASE Reject /\ Glitch({Candidate})
    BY <1>1, <1>4, RejectStep DEF Glitch
  <1> QED
    BY <1>2, <1>3, <1>4 DEF Read

\* The candidate is the latest that is left, and what was left out is not sound.
LEMMA YieldStep ==
  ASSUME RecoveryInv, Yield PROVE RecoveryInv'
  <1>1. reader \in ReaderType /\ reader.at = "read" /\ sound \in SUBSET Copies
        /\ UNCHANGED <<copies, archives, choice, sound>>
    BY DEF Yield, ReaderAt, RecoveryInv, outside, Smooth
  <1>2. Candidate \in Copies /\ \A d \in reader.todo \ {Candidate} : CandidateOrder(Candidate, d)
    BY <1>1, CandidateFirst
  <1> DEFINE next == [reader EXCEPT !.at = "done", !.held = FALSE, !.result = Candidate]
  <1>3. next \in ReaderType /\ next.at = "done" /\ next.result = Candidate
        /\ next.found = reader.found /\ next.notices = reader.notices
    BY <1>1, <1>2 DEF ReaderType
  <1>4. reader' = next
    BY DEF Yield, Ends
  <1> HIDE DEF next
  <1>5. \A c \in Copies : c[1] \in Nat /\ c[2] \in Nat
    BY CopyIs
  <1>6. YieldsLatest'
    <2>1. Automatic => \A c \in sound : c[2] <= Candidate[2]
      BY <1>1, <1>2, <1>5 DEF RecoveryInv, CandidateOrder
    <2> QED
      BY <1>1, <1>3, <1>4, <2>1 DEF YieldsLatest, Automatic
  <1>7. FailsForCause'
    <2>1. Candidate # NoResult
      BY <1>2 DEF Copies, NoResult
    <2> QED
      BY <1>3, <1>4, <2>1 DEF FailsForCause, NoResult
  <1>8. FallbackIsTold'
    <2>1. ~reader.notices => reader.todo = reader.found
      BY <1>1 DEF RecoveryInv
    <2>2. ASSUME ~reader.notices, NEW c \in reader.found PROVE ~CandidateOrder(c, Candidate)
      <3>1. c \in Copies /\ c \in reader.todo
        BY <1>1, <2>1, <2>2 DEF ReaderType
      <3>2. c = Candidate \/ CandidateOrder(Candidate, c)
        BY <1>2, <3>1
      <3> QED
        BY <1>2, <1>5, <3>1, <3>2 DEF CandidateOrder
    <2> QED
      BY <1>3, <1>4, <2>2 DEF FallbackIsTold, CandidateOrder
  <1> QED
    BY <1>1, <1>3, <1>4, <1>6, <1>7, <1>8, ReaderStep DEF RestoresLatest

\* A copy that is deleted meanwhile has not stayed readable.
LEMMA RotateStep ==
  ASSUME RecoveryInv, NEW c \in Copies, Rotate(c) PROVE RecoveryInv'
  <1>1. UNCHANGED <<archives, choice, reader>> /\ sound' = sound \ {c}
        /\ copies' = [copies EXCEPT ![c] = "going"] /\ reader.at # "done"
    BY DEF Rotate, Glitch, ReaderAt
  <1>2. copies' \in [Copies -> {"absent", "incomplete", "damaged", "whole", "going"}]
        /\ \A d \in sound' : copies'[d] = copies[d]
    BY <1>1 DEF RecoveryInv
  <1>3. RestoresLatest'
    BY <1>1 DEF RecoveryInv, RestoresLatest, YieldsLatest, FailsForCause, FallbackIsTold, Automatic,
                Copies, CandidateOrder, NoResult
  <1> QED
    BY <1>1, <1>2, <1>3 DEF RecoveryInv, Automatic

\* A step of a restore, or a deletion by another process.
LEMMA RecoverySteps == RecoveryInv /\ [RecoveryNext]_dvars => RecoveryInv'
  <1> SUFFICES ASSUME RecoveryInv, [RecoveryNext]_dvars PROVE RecoveryInv'
    OBVIOUS
  <1>1. CASE UNCHANGED dvars
    BY <1>1 DEF dvars, RecoveryInv, RestoresLatest, YieldsLatest, FailsForCause, FallbackIsTold,
                Automatic, CandidateOrder, NoResult, Copies
  <1>2. CASE DiskFull
    <2>1. reader \in ReaderType /\ reader.at = "read" /\ sound' = {}
          /\ UNCHANGED <<copies, archives, choice>>
      BY <1>2 DEF DiskFull, ReaderAt, RecoveryInv, outside, Glitch
    <2> DEFINE next == [reader EXCEPT !.at = "done", !.held = FALSE, !.result = NoResult]
    <2>2. next \in ReaderType /\ next.at = "done" /\ next.result = NoResult
      BY <2>1 DEF ReaderType
    <2>3. reader' = next
      BY <1>2 DEF DiskFull, Ends
    <2> HIDE DEF next
    <2>4. NoResult \notin Copies
      BY DEF NoResult, Copies
    <2>5. RestoresLatest'
      BY <2>1, <2>2, <2>3, <2>4
         DEF RestoresLatest, YieldsLatest, FailsForCause, FallbackIsTold, Copies, NoResult
    <2> QED
      BY <2>1, <2>2, <2>3, <2>5, ReaderStep
  <1> QED
    BY <1>1, <1>2, DiscoverStep, RankStep, HoldStep, ReadStep, YieldStep, RotateStep
       DEF RecoveryNext

\* Whatever is damaged, closed, deleted or fails meanwhile, the latest snapshot that stayed
\* readable is restored, or the caller is told.
THEOREM LatestIsRestored == RecoverySpec => []RestoresLatest
  <1>1. RecoveryInv => RestoresLatest
    BY DEF RecoveryInv
  <1> QED
    BY <1>1, RecoveryBegins, RecoverySteps, PTL DEF RecoverySpec

-----------------------------------------------------------------------------
(* Curation: which rows stand, and that no two writes of a note have one   *)
(* time.                                                                   *)

CuratedKeys == Tags \cup {NoteKey}
CuratedRows ==
  [key : CuratedKeys, op : {"upsert", "delete"}, stamp : Nat, text : Texts \cup {NoText}]
Renaming == {"finding", "checking", "renaming"}
Tagging == Renaming \cup {"adding", "inserting"}
EditType ==
  [at : Tagging \cup {"idle", "removing", "deleting", "setting", "looking", "noting"},
   stamp : Nat, from : CuratedKeys, to : CuratedKeys, text : Texts \cup {NoText}]

NamesTags(edit) == (edit.at \in Tagging => edit.to \in Tags) /\ (edit.at \in Renaming => edit.from \in Tags)

CurationTypeOK ==
  /\ store \in {"direct", "bigquery"} /\ clock \in Nat \ {0} /\ removed \in BOOLEAN
  /\ observations \subseteq CuratedRows /\ written \subseteq CuratedRows
  /\ editing \in [Users -> EditType] /\ \A u \in Users : NamesTags(editing[u])

\* The time of a command is its own.
TimesDiffer ==
  /\ \A w \in written : w.key = NoteKey /\ w.stamp < clock
  /\ \A w, v \in written : w.stamp = v.stamp => w = v
  /\ \A u \in Users : editing[u].at # "idle" =>
       /\ editing[u].stamp < clock
       /\ \A w \in written : w.stamp # editing[u].stamp
       /\ \A v \in Users \ {u} : editing[v].at # "idle" => editing[v].stamp # editing[u].stamp

\* A direct backend has one row of a key, and none that deletes.
OneRowOfKey ==
  store = "direct" =>
    \A r \in observations : r.op = "upsert" /\ \A q \in observations : q.key = r.key => q = r

\* On BigQuery the newest row of a tag is no deletion, until someone removes a tag.
NewestTag(r) ==
  r.key \in Tags /\ r.op = "upsert" /\ \A q \in observations : q.key \in Tags => q.stamp <= r.stamp
TagStands ==
  ~removed => \E r \in observations : IF store = "direct" THEN r.key \in Tags ELSE NewestTag(r)

\* BigQuery keeps every write of the note, a direct backend the newest, while none deletes it.
NoteStands ==
  /\ store = "bigquery" => \A r : r \in written <=> r \in observations /\ r.key = NoteKey
  /\ store = "direct" /\ (\A w \in written : w.op = "upsert") =>
       /\ \A r \in observations : r.key = NoteKey => r \in written /\ \A w \in written : w.stamp <= r.stamp
       /\ written # {} => \E r \in observations : r.key = NoteKey

CurationInv ==
  /\ CurationTypeOK /\ TimesDiffer /\ OneRowOfKey /\ TagStands /\ NoteStands
  /\ \A u \in Users : editing[u].at \in {"checking", "renaming"} => store = "bigquery"

\* There is one tag, and no command is in progress.
LEMMA CurationBegins == CurationInit => CurationInv
  <1> SUFFICES ASSUME CurationInit PROVE CurationInv
    OBVIOUS
  <1>1. PICK t \in Tags : observations = {CuratedRow(t, "upsert", 0, NoText)}
    BY DEF CurationInit
  <1>2. /\ store \in {"direct", "bigquery"} /\ clock = 1 /\ removed = FALSE /\ written = {}
        /\ editing = [u \in Users |-> NoEdit] /\ NoteKey \notin Tags
    BY CurationAssumption DEF CurationInit, NoteKey
  <1> DEFINE first == CuratedRow(t, "upsert", 0, NoText)
  <1>3. first \in CuratedRows /\ first.key = t /\ first.op = "upsert" /\ first.stamp = 0
    BY DEF CuratedRow, CuratedRows, CuratedKeys
  <1>4. NoEdit \in EditType /\ NoEdit.at = "idle"
    BY DEF NoEdit, EditType, CuratedKeys
  <1>5. observations = {first}
    BY <1>1
  <1> HIDE DEF first
  <1>9. NamesTags(NoEdit)
    BY <1>4 DEF NamesTags, Tagging, Renaming
  <1>10. editing \in [Users -> EditType] /\ \A u \in Users : editing[u] = NoEdit
    BY <1>2, <1>4
  <1>11. \A u \in Users : NamesTags(editing[u])
    BY <1>9, <1>10
  <1>12. observations \subseteq CuratedRows /\ written \subseteq CuratedRows
    BY <1>2, <1>3, <1>5
  <1>13. clock \in Nat \ {0}
    BY <1>2
  <1>14. removed \in BOOLEAN
    BY <1>2
  <1>15. store \in {"direct", "bigquery"}
    BY <1>2
  <1>6. CurationTypeOK
    BY <1>10, <1>11, <1>12, <1>13, <1>14, <1>15 DEF CurationTypeOK
  <1>7. TimesDiffer /\ OneRowOfKey /\ NoteStands
    BY <1>2, <1>3, <1>4, <1>5 DEF TimesDiffer, OneRowOfKey, NoteStands
  <1>8. TagStands
    BY <1>3, <1>5 DEF TagStands, NewestTag
  <1> QED
    BY <1>4, <1>6, <1>7, <1>8, <1>10 DEF CurationInv

\* A command begins, reads or ends; when it takes the time it moves the clock on.
LEMMA EditStep ==
  ASSUME CurationInv, NEW u \in Users, NEW edit \in EditType, NamesTags(edit),
         edit.at \in {"checking", "renaming"} => store = "bigquery",
         editing' = [editing EXCEPT ![u] = edit],
         \/ clock' = clock /\ (edit.at = "idle" \/ (editing[u].at # "idle" /\ edit.stamp = editing[u].stamp))
         \/ clock' = clock + 1 /\ (edit.at = "idle" \/ edit.stamp = clock),
         UNCHANGED <<store, observations, removed, written>>
  PROVE  CurationInv'
  <1>1. /\ editing \in [Users -> EditType] /\ editing' \in [Users -> EditType] /\ editing'[u] = edit
        /\ (\A v \in Users \ {u} : editing'[v] = editing[v])
        /\ clock \in Nat \ {0} /\ clock' \in Nat \ {0} /\ clock <= clock' /\ written' = written
        /\ written \subseteq CuratedRows
    BY DEF CurationInv, CurationTypeOK
  <1>2. CurationTypeOK'
    BY <1>1 DEF CurationInv, CurationTypeOK, NamesTags
  <1>3. \A v \in Users : editing[v].stamp \in Nat
    BY <1>1 DEF EditType
  <1>4. \A w \in written : w.stamp \in Nat
    BY <1>1 DEF CuratedRows
  <1>5. TimesDiffer'
    <2>1. \A w \in written' : w.key = NoteKey /\ w.stamp < clock'
      BY <1>1, <1>4 DEF CurationInv, TimesDiffer
    <2>2. \A w, v \in written' : w.stamp = v.stamp => w = v
      BY <1>1 DEF CurationInv, TimesDiffer
    <2>3. edit.at # "idle" =>
            /\ edit.stamp < clock'
            /\ \A w \in written : w.stamp # edit.stamp
            /\ \A v \in Users \ {u} : editing[v].at # "idle" => editing[v].stamp # edit.stamp
      BY <1>1, <1>3, <1>4 DEF CurationInv, TimesDiffer
    <2>4. \A v \in Users : editing'[v].at # "idle" =>
            /\ editing'[v].stamp < clock'
            /\ \A w \in written' : w.stamp # editing'[v].stamp
      BY <1>1, <1>3, <2>3 DEF CurationInv, TimesDiffer
    <2>5. \A v \in Users : \A q \in Users \ {v} :
            editing'[v].at # "idle" /\ editing'[q].at # "idle" => editing'[q].stamp # editing'[v].stamp
      BY <1>1, <2>3 DEF CurationInv, TimesDiffer
    <2> QED
      BY <2>1, <2>2, <2>4, <2>5 DEF TimesDiffer
  <1> QED
    BY <1>2, <1>5 DEF CurationInv, OneRowOfKey, TagStands, NewestTag, NoteStands

\* A command writes, and ends.
LEMMA CuratesStep ==
  ASSUME CurationInv, NEW u \in Users, editing[u].at # "idle", Finish(u),
         UNCHANGED <<store, clock>>, removed' \in BOOLEAN, observations' \subseteq CuratedRows,
         \/ written' = written
         \/ \E new \in CuratedRows : /\ new.key = NoteKey /\ new.stamp = editing[u].stamp
                                     /\ written' = written \cup {new},
         OneRowOfKey', TagStands', NoteStands'
  PROVE  CurationInv'
  <1>1. NoEdit \in EditType /\ NoEdit.at = "idle" /\ NamesTags(NoEdit)
    BY DEF NoEdit, EditType, CuratedKeys, NamesTags, Tagging, Renaming
  <1>2. /\ editing \in [Users -> EditType] /\ editing' \in [Users -> EditType] /\ editing'[u] = NoEdit
        /\ \A v \in Users \ {u} : editing'[v] = editing[v]
    BY <1>1 DEF CurationInv, CurationTypeOK, Finish
  <1>3. CurationTypeOK'
    BY <1>1, <1>2 DEF CurationInv, CurationTypeOK
  <1>4. CASE written' = written
    BY <1>1, <1>2, <1>3, <1>4 DEF CurationInv, TimesDiffer
  <1>5. CASE \E new \in CuratedRows : /\ new.key = NoteKey /\ new.stamp = editing[u].stamp
                                      /\ written' = written \cup {new}
    <2>1. PICK new \in CuratedRows : /\ new.key = NoteKey /\ new.stamp = editing[u].stamp
                                     /\ written' = written \cup {new}
      BY <1>5
    <2>2. new.stamp < clock' /\ \A w \in written : w.stamp # new.stamp
      BY <2>1 DEF CurationInv, TimesDiffer
    <2>3. TimesDiffer'
      BY <1>1, <1>2, <2>1, <2>2 DEF CurationInv, TimesDiffer
    <2> QED
      BY <1>1, <1>2, <1>3, <2>3 DEF CurationInv
  <1> QED
    BY <1>4, <1>5

\* What an upsert leaves: the new row, or on a direct backend one of its key that is newer.
LEMMA UpsertLeaves ==
  ASSUME CurationInv, NEW new \in CuratedRows, new.op = "upsert",
         observations' = Upserted(observations, new), store' = store
  PROVE  /\ observations' \subseteq CuratedRows /\ OneRowOfKey'
         /\ \A r : r.key # new.key => (r \in observations' <=> r \in observations)
         /\ store = "bigquery" => observations' = observations \cup {new}
         /\ store = "direct" =>
              \/ /\ new \in observations'
                 /\ \A r \in observations : r.key = new.key => r.stamp <= new.stamp
              \/ /\ observations' = observations
                 /\ \E r \in observations : r.key = new.key /\ r.stamp > new.stamp
  <1>1. store \in {"direct", "bigquery"} /\ observations \subseteq CuratedRows
    BY DEF CurationInv, CurationTypeOK
  <1>2. CASE store = "bigquery"
    BY <1>1, <1>2 DEF Upserted, OneRowOfKey
  <1>3. CASE store = "direct"
    <2>1. observations' = Merge(observations, new)
      BY <1>3 DEF Upserted
    <2>2. CASE \E r \in observations : r.key = new.key /\ r.stamp > new.stamp
      <3>1. observations' = observations
        BY <2>1, <2>2 DEF Merge
      <3> QED
        BY <1>1, <1>3, <2>2, <3>1 DEF CurationInv, OneRowOfKey
    <2>3. CASE ~ \E r \in observations : r.key = new.key /\ r.stamp > new.stamp
      <3>1. observations' = {r \in observations : r.key # new.key} \cup {new}
        BY <2>1, <2>3 DEF Merge
      <3>2. \A r \in observations : r.key = new.key => r.stamp <= new.stamp
        <4>1. \A r \in observations : r.stamp \in Nat
          BY <1>1 DEF CuratedRows
        <4>2. new.stamp \in Nat
          BY DEF CuratedRows
        <4> QED
          BY <2>3, <4>1, <4>2
      <3>3. OneRowOfKey'
        BY <1>3, <3>1 DEF CurationInv, OneRowOfKey
      <3> QED
        BY <1>1, <1>3, <3>1, <3>2, <3>3
    <2> QED
      BY <2>2, <2>3
  <1> QED
    BY <1>1, <1>2, <1>3

\* A tag of a session is added where there is none, in its own time.
LEMMA TagUpserts ==
  ASSUME CurationInv, NEW u \in Users, InsertsTag(u) \/ RenamesTag(u)
  PROVE  CurationInv'
  <1>1. /\ store \in {"direct", "bigquery"} /\ observations \subseteq CuratedRows
        /\ editing[u] \in EditType /\ NamesTags(editing[u]) /\ NoteKey \notin Tags
    BY CurationAssumption DEF CurationInv, CurationTypeOK, NoteKey
  <1> DEFINE new == CuratedRow(editing[u].to, "upsert", editing[u].stamp, NoText)
             gone == CuratedRow(editing[u].from, "delete", editing[u].stamp, NoText)
  <1>2. new.key = editing[u].to /\ new.op = "upsert" /\ new.stamp = editing[u].stamp
        /\ gone.key = editing[u].from /\ gone.op = "delete" /\ gone.stamp = editing[u].stamp
    BY DEF CuratedRow
  <1>3. new \in CuratedRows /\ gone \in CuratedRows
    BY <1>1 DEF CuratedRow, CuratedRows, EditType
  <1>4. \A r \in observations : r.stamp \in Nat
    BY <1>1 DEF CuratedRows
  <1>5. CASE InsertsTag(u)
    <2>1. observations' = Upserted(observations, new)
      BY <1>5 DEF InsertsTag, Writes
    <2> HIDE DEF new, gone
    <2>2. /\ editing[u].at = "inserting" /\ Finish(u) /\ UNCHANGED <<store, clock, removed, written>>
          /\ new.key \in Tags
      BY <1>1, <1>2, <1>5 DEF InsertsTag, Writes, only, NamesTags, Tagging
    <2>3. /\ observations' \subseteq CuratedRows /\ OneRowOfKey'
          /\ \A r : r.key # new.key => (r \in observations' <=> r \in observations)
          /\ store = "bigquery" => observations' = observations \cup {new}
          /\ store = "direct" =>
               \/ /\ new \in observations'
                  /\ \A r \in observations : r.key = new.key => r.stamp <= new.stamp
               \/ /\ observations' = observations
                  /\ \E r \in observations : r.key = new.key /\ r.stamp > new.stamp
      BY <1>2, <1>3, <2>1, <2>2, UpsertLeaves
    <2>4. NoteStands'
      BY <1>1, <2>2, <2>3 DEF CurationInv, NoteStands
    <2>5. TagStands'
      <3> SUFFICES ASSUME ~removed
                   PROVE  \E r \in observations' : IF store = "direct" THEN r.key \in Tags ELSE NewestTag(r)'
        BY <2>2 DEF TagStands
      <3>1. PICK r \in observations : IF store = "direct" THEN r.key \in Tags ELSE NewestTag(r)
        BY DEF CurationInv, TagStands
      <3>2. CASE store = "direct"
        BY <2>2, <2>3, <3>1, <3>2
      <3>3. CASE store = "bigquery"
        <4>1. NewestTag(r) /\ observations' = observations \cup {new}
          BY <2>3, <3>1, <3>3
        <4>2. CASE new.stamp <= r.stamp
          <5>1. NewestTag(r)'
            BY <4>1, <4>2 DEF NewestTag
          <5> QED
            BY <3>3, <4>1, <5>1
        <4>3. CASE ~(new.stamp <= r.stamp)
          <5>1. \A q \in observations' : q.key \in Tags => q.stamp <= new.stamp
            BY <1>3, <1>4, <4>1, <4>3 DEF NewestTag, CuratedRows
          <5>2. PICK n \in observations' : n = new
            BY <4>1
          <5>3. NewestTag(n)'
            BY <1>2, <2>2, <5>1, <5>2 DEF NewestTag
          <5> QED
            BY <3>3, <5>3
        <4> QED
          BY <4>2, <4>3
      <3> QED
        BY <1>1, <3>2, <3>3
    <2> QED
      BY <2>2, <2>3, <2>4, <2>5, CuratesStep DEF CurationInv, CurationTypeOK
  <1>6. CASE RenamesTag(u)
    <2>1. observations' = observations \cup {gone, new}
      BY <1>6 DEF RenamesTag, Writes, Renamed
    <2> HIDE DEF new, gone
    <2>2. /\ editing[u].at = "renaming" /\ Finish(u) /\ UNCHANGED <<store, clock, removed, written>>
          /\ new.key \in Tags /\ gone.key \in Tags
      BY <1>1, <1>2, <1>6 DEF RenamesTag, Writes, only, NamesTags, Tagging, Renaming
    <2>3. store = "bigquery"
      BY <1>1, <2>2 DEF CurationInv
    <2>4. observations' \subseteq CuratedRows /\ OneRowOfKey'
      BY <1>1, <1>3, <2>1, <2>2, <2>3 DEF OneRowOfKey
    <2>5. NoteStands'
      BY <1>1, <2>1, <2>2, <2>3 DEF CurationInv, NoteStands
    <2>6. TagStands'
      <3> SUFFICES ASSUME ~removed
                   PROVE  \E r \in observations' : NewestTag(r)'
        BY <2>2, <2>3 DEF TagStands
      <3>1. PICK r \in observations : NewestTag(r)
        BY <2>3 DEF CurationInv, TagStands
      <3>2. CASE new.stamp <= r.stamp
        <4>1. NewestTag(r)'
          BY <1>2, <2>1, <3>1, <3>2 DEF NewestTag
        <4> QED
          BY <2>1, <4>1
      <3>3. CASE ~(new.stamp <= r.stamp)
        <4>1. \A q \in observations' : q.key \in Tags => q.stamp <= new.stamp
          BY <1>2, <1>3, <1>4, <2>1, <3>1, <3>3 DEF NewestTag, CuratedRows
        <4>2. PICK n \in observations' : n = new
          BY <2>1
        <4>3. NewestTag(n)'
          BY <1>2, <2>2, <4>1, <4>2 DEF NewestTag
        <4> QED
          BY <4>3
      <3> QED
        BY <3>2, <3>3
    <2> QED
      BY <2>2, <2>4, <2>5, <2>6, CuratesStep DEF CurationInv, CurationTypeOK
  <1> QED
    BY <1>5, <1>6

\* A direct backend finds the tag, and renames it in one transaction.
LEMMA FindsStep == ASSUME CurationInv, NEW u \in Users, FindsTag(u) PROVE CurationInv'
  <1>0. FindsTag(u)
    OBVIOUS
  <1>1. /\ store \in {"direct", "bigquery"} /\ observations \subseteq CuratedRows
        /\ editing \in [Users -> EditType] /\ editing[u] \in EditType /\ NamesTags(editing[u])
        /\ NoteKey \notin Tags
    BY CurationAssumption DEF CurationInv, CurationTypeOK, NoteKey
  <1>2. /\ editing[u].at = "finding" /\ UNCHANGED <<store, clock, removed, written>>
        /\ editing[u].from \in Tags /\ editing[u].to \in Tags
    BY <1>1, <1>0 DEF FindsTag, only, NamesTags, Tagging, Renaming
  <1>3. NoEdit \in EditType /\ NoEdit.at = "idle" /\ NamesTags(NoEdit)
    BY DEF NoEdit, EditType, CuratedKeys, NamesTags, Tagging, Renaming
  <1>4. CASE ~Has(editing[u].from)
    <2>1. editing' = [editing EXCEPT ![u] = NoEdit] /\ observations' = observations
      BY <1>0, <1>4 DEF FindsTag, Finish
    <2> QED
      BY <1>2, <1>3, <2>1, EditStep
  <1>5. CASE Has(editing[u].from) /\ store = "bigquery"
    <2> DEFINE edit == [editing[u] EXCEPT !.at = "checking"]
    <2>1. editing' = [editing EXCEPT ![u] = edit] /\ observations' = observations
      BY <1>0, <1>1, <1>5 DEF FindsTag, Steps
    <2>2. edit \in EditType /\ NamesTags(edit) /\ edit.stamp = editing[u].stamp
      BY <1>1, <1>2 DEF EditType, NamesTags, Tagging, Renaming
    <2> HIDE DEF edit
    <2> QED
      BY <1>2, <1>5, <2>1, <2>2, EditStep
  <1>6. CASE Has(editing[u].from) /\ store = "direct"
    <2>1. Finish(u) /\ observations' = IF Has(editing[u].to) THEN observations
            ELSE {r \in observations : r.key # editing[u].from}
                   \cup {CuratedRow(editing[u].to, "upsert", editing[u].stamp, NoText)}
      BY <1>0, <1>6 DEF FindsTag, Writes
    <2> DEFINE new == CuratedRow(editing[u].to, "upsert", editing[u].stamp, NoText)
    <2>2. new.key = editing[u].to /\ new.op = "upsert" /\ new \in CuratedRows
      BY <1>1 DEF CuratedRow, CuratedRows, EditType
    <2>3. CASE Has(editing[u].to)
      <3>1. observations' = observations
        BY <2>1, <2>3
      <3>2. OneRowOfKey' /\ TagStands' /\ NoteStands'
        BY <1>2, <3>1 DEF CurationInv, OneRowOfKey, TagStands, NewestTag, NoteStands
      <3> QED
        BY <1>1, <1>2, <2>1, <3>1, <3>2, CuratesStep DEF CurationInv, CurationTypeOK
    <2>4. CASE ~Has(editing[u].to)
      <3>1. observations' = {r \in observations : r.key # editing[u].from} \cup {new}
        BY <2>1, <2>4
      <3> HIDE DEF new
      <3>2. \A r \in observations : r.key # editing[u].to
        <4> SUFFICES ASSUME NEW r \in observations, r.key = editing[u].to PROVE FALSE
          OBVIOUS
        <4>1. r.op = "upsert" /\ (\A q \in observations : q.key = r.key => q = r) /\ r.stamp \in Nat
          BY <1>1, <1>6 DEF CurationInv, OneRowOfKey, CuratedRows
        <4> QED
          BY <2>4, <4>1 DEF Has, CurrentRows, NewestRows
      <3>3. OneRowOfKey'
        BY <1>2, <2>2, <3>1, <3>2 DEF CurationInv, OneRowOfKey
      <3>4. TagStands'
        BY <1>2, <1>6, <2>2, <3>1 DEF TagStands
      <3>5. \A r : r.key = NoteKey => (r \in observations' <=> r \in observations)
        BY <1>1, <1>2, <2>2, <3>1
      <3>6. NoteStands'
        BY <1>2, <1>6, <3>5 DEF CurationInv, NoteStands
      <3>7. observations' \subseteq CuratedRows
        BY <1>1, <2>2, <3>1
      <3> QED
        BY <1>2, <2>1, <3>3, <3>4, <3>6, <3>7, CuratesStep DEF CurationInv, CurationTypeOK
    <2> QED
      BY <2>3, <2>4
  <1> QED
    BY <1>1, <1>4, <1>5, <1>6

\* A tag or the note is removed.
LEMMA DeletesStep == ASSUME CurationInv, NEW u \in Users, Deletes(u) PROVE CurationInv'
  <1>0. Deletes(u)
    OBVIOUS
  <1>1. /\ store \in {"direct", "bigquery"} /\ observations \subseteq CuratedRows
        /\ editing[u] \in EditType /\ NoteKey \notin Tags /\ removed \in BOOLEAN
    BY CurationAssumption DEF CurationInv, CurationTypeOK, NoteKey
  <1> DEFINE gone == CuratedRow(editing[u].from, "delete", editing[u].stamp, NoText)
  <1>2. gone.key = editing[u].from /\ gone.op = "delete" /\ gone.stamp = editing[u].stamp
        /\ gone \in CuratedRows
    BY <1>1 DEF CuratedRow, CuratedRows, EditType
  <1>3. /\ editing[u].at = "deleting" /\ Finish(u) /\ UNCHANGED <<store, clock>>
        /\ removed' = (removed \/ editing[u].from # NoteKey)
        /\ observations' = Deleted(observations, editing[u].from, editing[u].stamp)
    BY <1>0 DEF Deletes, Writes, only
  <1>4. written' = IF gone.key = NoteKey THEN written \cup {gone} ELSE written
    <2>1. CASE editing[u].from = NoteKey
      BY <1>0, <1>2, <2>1 DEF Deletes
    <2>2. CASE editing[u].from # NoteKey
      BY <1>0, <1>2, <2>2 DEF Deletes
    <2> QED
      BY <2>1, <2>2
  <1>5. store = "bigquery" => observations' = observations \cup {gone}
    BY <1>3 DEF Deleted
  <1>6. store = "direct" => observations' = {r \in observations : r.key # gone.key}
    BY <1>2, <1>3 DEF Deleted
  <1> HIDE DEF gone
  <1>7. observations' \subseteq CuratedRows /\ OneRowOfKey'
    BY <1>1, <1>2, <1>3, <1>5, <1>6 DEF CurationInv, OneRowOfKey
  <1>8. TagStands'
    <2> SUFFICES ASSUME ~removed'
                 PROVE  \E r \in observations' : IF store = "direct" THEN r.key \in Tags ELSE NewestTag(r)'
      BY <1>3 DEF TagStands
    <2>1. ~removed /\ gone.key = NoteKey
      BY <1>1, <1>2, <1>3
    <2>2. PICK r \in observations : IF store = "direct" THEN r.key \in Tags ELSE NewestTag(r)
      BY <2>1 DEF CurationInv, TagStands
    <2>3. CASE store = "direct"
      BY <1>1, <1>6, <2>1, <2>2, <2>3
    <2>4. CASE store = "bigquery"
      <3>1. NewestTag(r) /\ observations' = observations \cup {gone}
        BY <1>5, <2>2, <2>4
      <3>2. NewestTag(r)'
        BY <1>1, <2>1, <3>1 DEF NewestTag
      <3> QED
        BY <2>4, <3>1, <3>2
    <2> QED
      BY <1>1, <2>3, <2>4
  <1>9. NoteStands'
    <2>1. CASE store = "bigquery"
      BY <1>2, <1>3, <1>4, <1>5, <2>1 DEF CurationInv, NoteStands
    <2>2. CASE store = "direct" /\ gone.key = NoteKey
      BY <1>2, <1>3, <1>4, <2>2 DEF NoteStands
    <2>3. CASE store = "direct" /\ gone.key # NoteKey
      <3>1. written' = written /\ \A r : r.key = NoteKey => (r \in observations' <=> r \in observations)
        BY <1>4, <1>6, <2>3
      <3> QED
        BY <1>3, <2>3, <3>1 DEF CurationInv, NoteStands
    <2> QED
      BY <1>1, <2>1, <2>2, <2>3
  <1> QED
    BY <1>1, <1>2, <1>3, <1>4, <1>7, <1>8, <1>9, CuratesStep

\* The note is written.
LEMMA NotesStep == ASSUME CurationInv, NEW u \in Users, WritesNote(u) PROVE CurationInv'
  <1>0. WritesNote(u)
    OBVIOUS
  <1>1. /\ store \in {"direct", "bigquery"} /\ observations \subseteq CuratedRows
        /\ editing[u] \in EditType /\ NoteKey \notin Tags /\ written \subseteq CuratedRows
    BY CurationAssumption DEF CurationInv, CurationTypeOK, NoteKey
  <1> DEFINE new == CuratedRow(NoteKey, "upsert", editing[u].stamp, editing[u].text)
  <1>2. new.key = NoteKey /\ new.op = "upsert" /\ new.stamp = editing[u].stamp /\ new \in CuratedRows
    BY <1>1 DEF CuratedRow, CuratedRows, CuratedKeys, EditType
  <1>3. /\ editing[u].at = "noting" /\ Finish(u) /\ UNCHANGED <<store, clock, removed>>
        /\ observations' = Upserted(observations, new) /\ written' = written \cup {new}
    BY <1>0 DEF WritesNote, Writes, only
  <1> HIDE DEF new
  <1>4. /\ observations' \subseteq CuratedRows /\ OneRowOfKey'
        /\ \A r : r.key # new.key => (r \in observations' <=> r \in observations)
        /\ store = "bigquery" => observations' = observations \cup {new}
        /\ store = "direct" =>
             \/ /\ new \in observations'
                /\ \A r \in observations : r.key = new.key => r.stamp <= new.stamp
             \/ /\ observations' = observations
                /\ \E r \in observations : r.key = new.key /\ r.stamp > new.stamp
    BY <1>2, <1>3, UpsertLeaves
  <1>5. TagStands'
    <2>1. \A r : r.key \in Tags => (r \in observations' <=> r \in observations)
      BY <1>1, <1>2, <1>4
    <2>2. \A r \in observations : NewestTag(r) => NewestTag(r)'
      BY <2>1 DEF NewestTag
    <2>3. \A r \in observations : NewestTag(r) => r.key \in Tags
      BY DEF NewestTag
    <2> QED
      BY <1>3, <2>1, <2>2, <2>3 DEF CurationInv, TagStands
  <1>6. NoteStands'
    <2>1. CASE store = "bigquery"
      BY <1>2, <1>3, <1>4, <2>1 DEF CurationInv, NoteStands
    <2>2. CASE store = "direct"
      <3> SUFFICES ASSUME \A w \in written' : w.op = "upsert"
                   PROVE  /\ \A r \in observations' : r.key = NoteKey =>
                               r \in written' /\ \A w \in written' : w.stamp <= r.stamp
                          /\ \E r \in observations' : r.key = NoteKey
        BY <1>3, <2>2 DEF NoteStands
      <3>1. /\ \A r \in observations : r.key = NoteKey => r \in written /\ \A w \in written : w.stamp <= r.stamp
            /\ written # {} => \E r \in observations : r.key = NoteKey
        BY <1>3, <2>2 DEF CurationInv, NoteStands
      <3>2. \A r \in CuratedRows : r.stamp \in Nat
        BY DEF CuratedRows
      <3>3. CASE new \in observations' /\ \A r \in observations : r.key = new.key => r.stamp <= new.stamp
        <4>1. \A r \in observations' : r.key = NoteKey => r = new
          BY <1>2, <1>3, <1>4, <2>2, <3>3 DEF OneRowOfKey
        <4>2. \A w \in written' : w.stamp <= new.stamp
          BY <1>1, <1>2, <1>3, <3>1, <3>2, <3>3
        <4> QED
          BY <1>2, <1>3, <3>3, <4>1, <4>2
      <3>4. CASE observations' = observations /\ \E r \in observations : r.key = new.key /\ r.stamp > new.stamp
        <4>1. PICK q \in observations : q.key = NoteKey /\ q.stamp > new.stamp
          BY <1>2, <3>4
        <4>2. \A r \in observations : r.key = NoteKey => r = q
          BY <2>2, <4>1 DEF CurationInv, OneRowOfKey
        <4>3. q \in written /\ \A w \in written : w.stamp <= q.stamp
          BY <3>1, <4>1
        <4>4. \A w \in written' : w.stamp <= q.stamp
          BY <1>1, <1>2, <1>3, <3>2, <4>1, <4>3
        <4> QED
          BY <1>3, <3>4, <4>1, <4>2, <4>3, <4>4
      <3> QED
        BY <1>4, <2>2, <3>3, <3>4
    <2> QED
      BY <1>1, <2>1, <2>2
  <1>7. CurationTypeOK => removed' \in BOOLEAN
    BY <1>3 DEF CurationTypeOK
  <1> QED
    BY <1>2, <1>3, <1>4, <1>5, <1>6, <1>7, CuratesStep DEF CurationInv

\* The steps of a command that only read.
LEMMA ReadsSteps ==
  ASSUME CurationInv, NEW u \in Users,
         \/ AddTag(u) \/ RenameTag(u) \/ RemoveTag(u) \/ SetNote(u)
         \/ LooksForTag(u) \/ ChecksTag(u) \/ FindsRow(u) \/ LooksForNote(u) \/ ComparesNote(u)
  PROVE  CurationInv'
  <1>1. /\ editing[u] \in EditType /\ editing \in [Users -> EditType] /\ NamesTags(editing[u])
        /\ clock \in Nat
    BY DEF CurationInv, CurationTypeOK
  <1>2. NoEdit \in EditType /\ NoEdit.at = "idle" /\ NamesTags(NoEdit)
    BY DEF NoEdit, EditType, CuratedKeys, NamesTags, Tagging, Renaming
  <1>3. ASSUME NEW command \in EditType, NamesTags(command), Issue(u, command),
               command.at \notin {"checking", "renaming"}
        PROVE  CurationInv'
    <2> DEFINE edit == [command EXCEPT !.stamp = clock]
    <2>1. edit \in EditType /\ edit.at = command.at /\ edit.stamp = clock /\ NamesTags(edit)
      BY <1>1, <1>3 DEF EditType, NamesTags
    <2>2. editing' = [editing EXCEPT ![u] = edit] /\ clock' = clock + 1
          /\ UNCHANGED <<store, observations, removed, written>>
      BY <1>3 DEF Issue
    <2> HIDE DEF edit
    <2> QED
      BY <1>3, <2>1, <2>2, EditStep
  <1>4. CASE AddTag(u)
    <2>1. PICK t \in Tags : Issue(u, [NoEdit EXCEPT !.at = "adding", !.to = t])
      BY <1>4 DEF AddTag
    <2> DEFINE command == [NoEdit EXCEPT !.at = "adding", !.to = t]
    <2>2. command \in EditType /\ command.at = "adding" /\ NamesTags(command)
      BY <1>2 DEF EditType, CuratedKeys, NamesTags, Tagging, Renaming
    <2>3. Issue(u, command)
      BY <2>1
    <2> HIDE DEF command
    <2> QED
      BY <1>3, <2>2, <2>3
  <1>5. CASE RenameTag(u)
    <2>1. PICK s \in Tags, t \in Tags :
            Issue(u, [NoEdit EXCEPT !.at = "finding", !.from = s, !.to = t])
      BY <1>5 DEF RenameTag
    <2> DEFINE command == [NoEdit EXCEPT !.at = "finding", !.from = s, !.to = t]
    <2>2. command \in EditType /\ command.at = "finding" /\ NamesTags(command)
      BY <1>2 DEF EditType, CuratedKeys, NamesTags, Tagging, Renaming
    <2>3. Issue(u, command)
      BY <2>1
    <2> HIDE DEF command
    <2> QED
      BY <1>3, <2>2, <2>3
  <1>6. CASE RemoveTag(u)
    <2>1. PICK k \in Tags \cup {NoteKey} :
            Issue(u, [NoEdit EXCEPT !.at = "removing", !.from = k])
      BY <1>6 DEF RemoveTag
    <2> DEFINE command == [NoEdit EXCEPT !.at = "removing", !.from = k]
    <2>2. command \in EditType /\ command.at = "removing" /\ NamesTags(command)
      BY <1>2 DEF EditType, CuratedKeys, NamesTags, Tagging, Renaming
    <2>3. Issue(u, command)
      BY <2>1
    <2> HIDE DEF command
    <2> QED
      BY <1>3, <2>2, <2>3
  <1>7. CASE SetNote(u)
    <2>1. PICK x \in Texts, at \in {"setting", "looking"} :
            Issue(u, [NoEdit EXCEPT !.at = at, !.text = x])
      BY <1>7 DEF SetNote
    <2> DEFINE command == [NoEdit EXCEPT !.at = at, !.text = x]
    <2>2. command \in EditType /\ command.at = at /\ NamesTags(command)
      BY <1>2 DEF EditType, CuratedKeys, NamesTags, Tagging, Renaming
    <2>3. Issue(u, command)
      BY <2>1
    <2> HIDE DEF command
    <2> QED
      BY <1>3, <2>2, <2>3
  <1>8. ASSUME Finish(u), clock' \in {clock, clock + 1}, UNCHANGED <<store, observations, removed, written>>
        PROVE  CurationInv'
    BY <1>2, <1>8, EditStep DEF Finish
  <1>9. ASSUME NEW to \in {"inserting", "renaming", "setting", "noting"}, Steps(u, to),
               editing[u].at # "idle", to = "inserting" => editing[u].at = "adding",
               to = "renaming" => editing[u].at = "checking",
               UNCHANGED <<store, clock, observations, removed, written>>
        PROVE  CurationInv'
    <2> DEFINE edit == [editing[u] EXCEPT !.at = to]
    <2>1. edit \in EditType /\ edit.at = to /\ edit.stamp = editing[u].stamp /\ NamesTags(edit)
      BY <1>1, <1>9 DEF EditType, NamesTags, Tagging, Renaming
    <2>2. editing' = [editing EXCEPT ![u] = edit]
      BY <1>1, <1>9 DEF Steps
    <2> HIDE DEF edit
    <2>3. to = "renaming" => store = "bigquery"
      BY <1>9 DEF CurationInv
    <2> QED
      BY <1>9, <2>1, <2>2, <2>3, EditStep
  <1>10. CASE LooksForTag(u)
    BY <1>8, <1>9, <1>10 DEF LooksForTag, only
  <1>11. CASE ChecksTag(u)
    BY <1>8, <1>9, <1>11 DEF ChecksTag, only
  <1>12. CASE LooksForNote(u)
    BY <1>8, <1>9, <1>12 DEF LooksForNote, only
  <1>13. CASE ComparesNote(u)
    BY <1>8, <1>9, <1>13 DEF ComparesNote, only
  <1>14. CASE FindsRow(u)
    <2>1. clock' = clock + 1 /\ UNCHANGED <<store, observations, removed, written>>
          /\ editing' = [editing EXCEPT ![u] = IF Has(editing[u].from)
               THEN [editing[u] EXCEPT !.at = "deleting", !.stamp = clock] ELSE NoEdit]
      BY <1>14 DEF FindsRow
    <2>2. CASE ~Has(editing[u].from)
      BY <1>8, <2>1, <2>2 DEF Finish
    <2>3. CASE Has(editing[u].from)
      <3> DEFINE edit == [editing[u] EXCEPT !.at = "deleting", !.stamp = clock]
      <3>1. edit \in EditType /\ edit.at = "deleting" /\ edit.stamp = clock /\ NamesTags(edit)
        BY <1>1 DEF EditType, NamesTags, Tagging, Renaming
      <3>2. editing' = [editing EXCEPT ![u] = edit]
        BY <2>1, <2>3
      <3> HIDE DEF edit
      <3> QED
        BY <2>1, <3>1, <3>2, EditStep
    <2> QED
      BY <2>2, <2>3
  <1> QED
    BY <1>4, <1>5, <1>6, <1>7, <1>10, <1>11, <1>12, <1>13, <1>14

\* Every command keeps what the others wrote.
LEMMA CurationSteps == CurationInv /\ [CurationNext]_uvars => CurationInv'
  <1> SUFFICES ASSUME CurationInv, [CurationNext]_uvars PROVE CurationInv'
    OBVIOUS
  <1>1. CASE UNCHANGED uvars
    BY <1>1 DEF uvars, CurationInv, CurationTypeOK, TimesDiffer, OneRowOfKey, TagStands, NewestTag,
                NoteStands
  <1> QED
    BY <1>1, ReadsSteps, TagUpserts, FindsStep, DeletesStep, NotesStep DEF CurationNext

\* Renames that cross keep the assignment, and the newest note stands, whatever users do side
\* by side.
THEOREM CuratedIsKept == CurationSpec => []CurationStands
  <1>1. CurationInv => RenamesKeepTag
    <2> SUFFICES ASSUME CurationInv, ~removed PROVE \E t \in Tags : Has(t)
      BY DEF RenamesKeepTag
    <2>1. PICK r \in observations : IF store = "direct" THEN r.key \in Tags ELSE NewestTag(r)
      BY DEF CurationInv, TagStands
    <2>2. r.stamp \in Nat
      BY DEF CurationInv, CurationTypeOK, CuratedRows
    <2>3. r.key \in Tags /\ r.op = "upsert" /\ \A q \in observations : q.key = r.key => q.stamp <= r.stamp
      <3>1. CASE store = "direct"
        BY <2>1, <2>2, <3>1 DEF CurationInv, OneRowOfKey
      <3>2. CASE store # "direct"
        BY <2>1, <3>2 DEF NewestTag
      <3> QED
        BY <3>1, <3>2
    <2>4. r \in CurrentRows(r.key)
      BY <2>3 DEF CurrentRows, NewestRows
    <2> QED
      BY <2>3, <2>4 DEF Has
  <1>2. CurationInv => NewestNoteStands
    <2> SUFFICES ASSUME CurationInv, store = "bigquery" \/ \A w \in written : w.op = "upsert"
                 PROVE  CurrentRows(NoteKey) = {w \in NewestRows(NoteKey, written) : w.op = "upsert"}
      BY DEF NewestNoteStands
    <2>1. /\ \A w \in written : w.key = NoteKey
          /\ \A w, v \in written : w.stamp = v.stamp => w = v
          /\ \A w \in written : w.stamp \in Nat
          /\ store \in {"direct", "bigquery"}
      BY DEF CurationInv, TimesDiffer, CurationTypeOK, CuratedRows
    <2>2. CASE store = "bigquery"
      <3>1. \A r : r \in written <=> r \in observations /\ r.key = NoteKey
        BY <2>2 DEF CurationInv, NoteStands
      <3>2. NewestRows(NoteKey, observations) = NewestRows(NoteKey, written)
        BY <3>1 DEF NewestRows
      <3> QED
        BY <3>2 DEF CurrentRows
    <2>3. CASE store = "direct"
      <3>1. /\ \A r \in observations : r.key = NoteKey =>
                 r \in written /\ \A w \in written : w.stamp <= r.stamp
            /\ written # {} => \E r \in observations : r.key = NoteKey
            /\ \A w \in written : w.op = "upsert"
        BY <2>3 DEF CurationInv, NoteStands
      <3>2. CASE written = {}
        <4>1. CurrentRows(NoteKey) = {} /\ NewestRows(NoteKey, written) = {}
          BY <3>1, <3>2 DEF CurrentRows, NewestRows
        <4> QED
          BY <4>1
      <3>3. CASE written # {}
        <4>1. PICK r \in observations : r.key = NoteKey
          BY <3>1, <3>3
        <4>2. \A q \in observations : q.key = NoteKey => q = r
          BY <2>3, <4>1 DEF CurationInv, OneRowOfKey
        <4>3. r \in written /\ r.op = "upsert" /\ r.stamp \in Nat /\ \A w \in written : w.stamp <= r.stamp
          BY <2>1, <3>1, <4>1
        <4>4. CurrentRows(NoteKey) = {r}
          BY <4>1, <4>2, <4>3 DEF CurrentRows, NewestRows
        <4>5. \A w \in NewestRows(NoteKey, written) : w = r
          <5> SUFFICES ASSUME NEW w \in NewestRows(NoteKey, written) PROVE w = r
            OBVIOUS
          <5>1. w \in written /\ r.stamp <= w.stamp
            BY <4>1, <4>3 DEF NewestRows
          <5>2. w.stamp = r.stamp
            BY <2>1, <4>3, <5>1
          <5> QED
            BY <2>1, <4>3, <5>1, <5>2
        <4>6. r \in NewestRows(NoteKey, written)
          BY <2>1, <4>1, <4>3 DEF NewestRows
        <4> QED
          BY <4>3, <4>4, <4>5, <4>6
      <3> QED
        BY <3>2, <3>3
    <2> QED
      BY <2>1, <2>2, <2>3
  <1>3. CurationInv => CurationStands
    BY <1>1, <1>2 DEF CurationStands
  <1> QED
    BY <1>3, CurationBegins, CurationSteps, PTL DEF CurationSpec

-----------------------------------------------------------------------------
(* Sessions: what a run asks for covers those it found active.             *)

\* A session is listed on a day next to that of its creation.
Listings == \A s \in Names : turns[s] > 0 => listed[s] \in {born[s] - 1, born[s] + 1}

\* A run asks for the days of the active sessions, if they are known, and for all history if
\* they are not.
Asks ==
  run.phase # "idle" =>
    /\ run.active \subseteq Begun
    /\ \A s \in Names : run.asked[s] <= turns[s] /\ (run.asked[s] > 0 => s \in run.active)
    /\ \A s \in run.active \cap Known : born[s] \in run.wanted
    /\ AllHistory \notin run.days =>
         Missing(run.active) = {} /\ \A s \in run.active : born[s] \in run.days

\* A session that the answer has is in it as it is, and one that was asked for is in it, if
\* the answer is whole.
KnownAnswers ==
  run.phase = "answered" =>
    /\ \A s \in Names : run.found[s] \in {0, turns[s]}
    /\ run.answer = "read" =>
         \A s \in Begun : AllHistory \in run.days \/ born[s] \in run.days => run.found[s] = turns[s]
    /\ run.answer = "unasked" => run.days = {}

\* What is known of the sessions that were asked for last.
KnownAsAsked ==
  newest.answer = "read" => usage \subseteq Known /\ \A s \in Names : row[s] >= newest.asked[s]
LackShown == (\E s \in Names : row[s] < newest.asked[s]) => CollectionIssues

SessionsInv ==
  /\ SessionsTypeOK /\ usage \subseteq Begun /\ Listings /\ Asks /\ KnownAnswers
  /\ KnownAsAsked /\ LackShown /\ DriftStands

\* The parts of a run, by type.
LEMMA RunIs ==
  ASSUME SessionsTypeOK
  PROVE  /\ run.phase \in {"idle", "planned", "answered"} /\ run.at \in 0 .. SessionRuns
         /\ run.day \in Dates /\ run.version \in 1 .. Versions /\ run.active \in SUBSET Names
         /\ run.wanted \in SUBSET Dates /\ run.days \in SUBSET Targets
         /\ run.answer \in ReportAnswers /\ run.found \in [Names -> Nat] /\ run.drift \in BOOLEAN
         /\ run.asked \in [Names -> Nat]
  BY DEF SessionsTypeOK, Running

\* A run that rests.
LEMMA RestingIs ==
  ASSUME NEW at \in 0 .. SessionRuns
  PROVE  [Resting EXCEPT !.at = at] \in Running /\ [Resting EXCEPT !.at = at].phase = "idle"
  <1>1. 1 \in Dates /\ 1 \in 1 .. Versions /\ Unseen \in [Names -> Nat] /\ "unasked" \in ReportAnswers
    BY SessionsAssumption DEF Dates, Unseen, ReportAnswers
  <1> QED
    BY <1>1 DEF Resting, Running

\* No run, no usage, and no drift.
LEMMA SessionsBegin == SessionsInit => SessionsInv
  <1> SUFFICES ASSUME SessionsInit PROVE SessionsInv
    OBVIOUS
  <1>1. run.phase = "idle" /\ run \in Running
    BY SessionsAssumption DEF SessionsInit, Resting, Running, Unseen, Dates, Targets, ReportAnswers
  <1>2. SessionsTypeOK
    <2>1. /\ 1 \in Dates /\ 1 \in 1 .. Versions /\ Unseen \in [Names -> Nat] /\ "unasked" \in ReportAnswers
          /\ Unseen \in [Names -> 0 .. SessionDays + 1] /\ 0 \in 0 .. MaxSlumps
      BY SessionsAssumption DEF Dates, Unseen, ReportAnswers
    <2> QED
      BY <1>1, <2>1 DEF SessionsInit, SessionsTypeOK
  <1>3. \A s \in Names : turns[s] = 0 /\ row[s] = 0 /\ newest.asked[s] = 0
    BY DEF SessionsInit, Unseen
  <1>4. DriftStands
    BY DEF SessionsInit, DriftStands
  <1>5. usage = {} /\ newest.answer = "unasked"
    BY DEF SessionsInit
  <1> QED
    BY <1>1, <1>2, <1>3, <1>4, <1>5 DEF SessionsInv, Listings, Asks, KnownAnswers, KnownAsAsked, LackShown

\* What is stored stays as it is, and so does a run that has its answer.
LEMMA SourceFrame ==
  ASSUME SessionsInv, SessionsTypeOK', UNCHANGED <<stored, run>>,
         \A s \in Names : /\ turns'[s] >= turns[s] /\ (turns[s] > 0 => born'[s] = born[s])
                          /\ run.phase = "answered" => turns'[s] = turns[s],
         Listings'
  PROVE  SessionsInv'
  <1>1. /\ SessionsTypeOK /\ turns \in [Names -> Nat] /\ turns' \in [Names -> Nat]
        /\ UNCHANGED <<row, usage, failed, covered, partial, event, troubled, newest, shown, run>>
    BY DEF SessionsInv, SessionsTypeOK, stored
  <1>2. Begun \subseteq Begun'
    BY <1>1 DEF Begun
  <1>3. usage' \subseteq Begun'
    BY <1>1, <1>2 DEF SessionsInv
  <1>4. Asks'
    <2> SUFFICES ASSUME run.phase # "idle" PROVE Asks'
      BY <1>1 DEF Asks
    <2>1. Asks /\ run.active \subseteq Begun
      BY DEF SessionsInv, Asks
    <2>2. run.asked \in [Names -> Nat] /\ run.active \subseteq Names
      BY <1>1, RunIs
    <2>3. \A s \in run.active : born'[s] = born[s]
      BY <2>1, <2>2 DEF Begun
    <2>4. \A s \in Names : run.asked[s] <= turns'[s] /\ (run.asked[s] > 0 => s \in run.active)
      BY <1>1, <2>1, <2>2 DEF Asks
    <2>5. Known' = Known /\ Missing(run.active)' = Missing(run.active)
      BY <1>1 DEF Known, Missing
    <2> QED
      BY <1>1, <1>2, <2>1, <2>3, <2>4, <2>5 DEF Asks
  <1>5. KnownAnswers'
    <2> SUFFICES ASSUME run.phase = "answered" PROVE KnownAnswers'
      BY <1>1 DEF KnownAnswers
    <2>1. Begun' = Begun
      BY <1>1 DEF Begun
    <2>2. \A s \in Begun : born'[s] = born[s]
      BY DEF Begun
    <2> QED
      BY <1>1, <2>1, <2>2 DEF SessionsInv, KnownAnswers, Begun
  <1>6. KnownAsAsked' /\ LackShown' /\ DriftStands'
    BY <1>1 DEF SessionsInv, KnownAsAsked, LackShown, DriftStands, CollectionIssues, Known
  <1> QED
    BY <1>3, <1>4, <1>5, <1>6 DEF SessionsInv

\* The source moves, but not between a run's question and its answer.
LEMMA SourceSteps ==
  ASSUME SessionsInv, \/ \E s \in Names : Begin(s) \/ GoesOn(s)
                      \/ Upgrade \/ Overnight
  PROVE  SessionsInv'
  <1>1. SessionsTypeOK /\ Listings /\ UNCHANGED <<stored, run>> /\ run.phase # "answered"
        /\ UNCHANGED slumps
    BY DEF SessionsInv, Begin, GoesOn, Upgrade, Overnight, SourceMoves
  <1>2. UNCHANGED <<row, usage, failed, covered, partial, event, troubled, newest, shown, run>>
    BY <1>1 DEF stored
  <1>3. /\ turns \in [Names -> Nat] /\ born \in [Names -> Dates] /\ date \in Dates
        /\ listed \in [Names -> 0 .. SessionDays + 1] /\ SessionDays \in Nat
        /\ version \in 1 .. Versions /\ Versions \in Nat
    BY <1>1, SessionsAssumption DEF SessionsTypeOK
  <1>4. ASSUME NEW s \in Names, Begin(s) PROVE SessionsInv'
    <2>1. PICK d \in {date - 1, date + 1} : listed' = [listed EXCEPT ![s] = d]
      BY <1>4 DEF Begin
    <2>2. /\ turns[s] = 0 /\ turns' = [turns EXCEPT ![s] = 1] /\ born' = [born EXCEPT ![s] = date]
          /\ UNCHANGED <<date, version>>
      BY <1>4 DEF Begin
    <2>3. d \in 0 .. SessionDays + 1
      BY <1>3 DEF Dates
    <2>4. /\ turns' \in [Names -> Nat] /\ born' \in [Names -> Dates]
          /\ listed' \in [Names -> 0 .. SessionDays + 1]
      BY <1>3, <2>1, <2>2, <2>3
    <2>5. SessionsTypeOK'
      BY <1>1, <1>2, <2>2, <2>4 DEF SessionsTypeOK
    <2>6. \A t \in Names : /\ turns'[t] >= turns[t] /\ (turns[t] > 0 => born'[t] = born[t])
      BY <1>3, <2>2
    <2>7. Listings'
      BY <1>1, <1>3, <2>1, <2>2 DEF Listings
    <2> QED
      BY <1>1, <2>5, <2>6, <2>7, SourceFrame
  <1>5. ASSUME NEW s \in Names, GoesOn(s) PROVE SessionsInv'
    <2>1. /\ turns[s] > 0 /\ turns' = [turns EXCEPT ![s] = turns[s] + 1]
          /\ UNCHANGED <<date, version, born, listed>>
      BY <1>5 DEF GoesOn
    <2>2. turns' \in [Names -> Nat] /\ \A t \in Names : turns'[t] >= turns[t]
      BY <1>3, <2>1
    <2>3. SessionsTypeOK'
      BY <1>1, <1>2, <2>1, <2>2 DEF SessionsTypeOK
    <2>4. Listings'
      BY <1>1, <1>3, <2>1 DEF Listings
    <2> QED
      BY <1>1, <2>1, <2>2, <2>3, <2>4, SourceFrame
  <1>6. CASE Upgrade \/ Overnight
    <2>1. /\ UNCHANGED <<turns, born, listed>>
          /\ date' \in Dates /\ version' \in 1 .. Versions
      BY <1>3, <1>6 DEF Upgrade, Overnight, Dates
    <2>2. SessionsTypeOK'
      BY <1>1, <1>2, <2>1 DEF SessionsTypeOK
    <2>3. Listings'
      BY <1>1, <2>1 DEF Listings
    <2> QED
      BY <1>1, <1>3, <2>1, <2>2, <2>3, SourceFrame
  <1> QED
    BY <1>4, <1>5, <1>6

\* A run is planned, answered, or given up: what was published stays.
LEMMA RunFrame ==
  ASSUME SessionsInv, UNCHANGED <<tokscale, row, usage, failed, covered, partial, event, newest, shown>>,
         run' \in Running, slumps' \in 0 .. MaxSlumps, troubled' \in {troubled, TRUE},
         Asks', KnownAnswers'
  PROVE  SessionsInv'
  <1>1. UNCHANGED <<date, version, turns, born, listed>> /\ SessionsTypeOK
    BY DEF tokscale, SessionsInv
  <1>2. SessionsTypeOK'
    BY <1>1 DEF SessionsTypeOK
  <1>3. Listings' /\ usage' \subseteq Begun' /\ KnownAsAsked' /\ LackShown' /\ DriftStands'
    BY <1>1 DEF SessionsInv, Listings, Begun, KnownAsAsked, LackShown, CollectionIssues, Known, DriftStands
  <1> QED
    BY <1>2, <1>3 DEF SessionsInv

\* What is asked for follows from what is known.
LEMMA PlanStep ==
  ASSUME SessionsInv, NEW active \in SUBSET Names, NEW everything \in BOOLEAN,
         PlanReport(active, everything)
  PROVE  SessionsInv'
  <1>1. /\ SessionsTypeOK /\ UNCHANGED <<tokscale, stored, slumps>>
        /\ active \subseteq Begun /\ run.at < SessionRuns /\ run.at \in 0 .. SessionRuns
    BY RunIs DEF SessionsInv, PlanReport
  <1>2. UNCHANGED <<date, version, turns, born, listed, row, usage, failed, covered, partial,
                    event, troubled, newest, shown>>
    BY <1>1 DEF tokscale, stored
  <1>3. Wanted(active) \in SUBSET Dates /\ Only(active, turns) \in [Names -> Nat]
        /\ date \in Dates /\ version \in 1 .. Versions /\ run.at + 1 \in 0 .. SessionRuns
    <2>1. born \in [Names -> Dates] /\ turns \in [Names -> Nat] /\ SessionRuns \in Nat
      BY <1>1, SessionsAssumption DEF SessionsTypeOK
    <2>2. Wanted(active) \in SUBSET Dates
      BY <2>1 DEF Wanted
    <2>3. Only(active, turns) \in [Names -> Nat]
      BY <2>1 DEF Only
    <2>4. run.at + 1 \in 0 .. SessionRuns
      BY <1>1, <2>1
    <2> QED
      BY <1>1, <2>2, <2>3, <2>4 DEF SessionsTypeOK
  <1>4. PICK days \in SUBSET Targets :
          /\ days = IF everything \/ ~covered \/ Missing(active) # {}
                    THEN {AllHistory} ELSE Wanted(active)
          /\ run' = [Resting EXCEPT !.phase = "planned", !.at = run.at + 1, !.day = date,
                       !.version = version, !.active = active, !.asked = Only(active, turns),
                       !.wanted = Wanted(active), !.days = days]
    <2>1. (IF everything \/ ~covered \/ Missing(active) # {}
           THEN {AllHistory} ELSE Wanted(active)) \in SUBSET Targets
      BY <1>3 DEF Targets
    <2> QED
      BY <2>1 DEF PlanReport
  <1>5. /\ run' \in Running /\ run'.phase = "planned" /\ run'.active = active
        /\ run'.asked = Only(active, turns) /\ run'.wanted = Wanted(active) /\ run'.days = days
    BY <1>3, <1>4 DEF Resting, Running, Unseen, ReportAnswers
  <1>6. Asks'
    <2>1. Begun' = Begun /\ Known' = Known /\ Missing(active)' = Missing(active)
      BY <1>2 DEF Begun, Known, Missing
    <2>2. \A s \in Names : /\ Only(active, turns)[s] <= turns[s]
                           /\ Only(active, turns)[s] > 0 => s \in active
      BY <1>1 DEF Only, SessionsTypeOK
    <2>3. \A s \in active \cap Known : born[s] \in Wanted(active)
      BY DEF Wanted
    <2>4. AllHistory \notin days => Missing(active) = {} /\ days = Wanted(active)
      BY <1>4
    <2>5. Missing(active) = {} => active \subseteq Known
      BY DEF Missing
    <2>6. AllHistory \notin days => \A s \in active : born[s] \in days
      BY <2>3, <2>4, <2>5
    <2>7. \A s \in Names : run'.asked[s] <= turns'[s] /\ (run'.asked[s] > 0 => s \in run'.active)
      BY <1>2, <1>5, <2>2
    <2>8. \A s \in run'.active \cap Known' : born'[s] \in run'.wanted
      BY <1>2, <1>5, <2>1, <2>3
    <2>9. AllHistory \notin run'.days =>
            Missing(run.active)' = {} /\ \A s \in run'.active : born'[s] \in run'.days
      BY <1>2, <1>5, <2>1, <2>4, <2>6 DEF Missing
    <2> QED
      BY <1>1, <1>5, <2>1, <2>7, <2>8, <2>9 DEF Asks
  <1>7. KnownAnswers'
    BY <1>5 DEF KnownAnswers
  <1> QED
    BY <1>1, <1>2, <1>5, <1>6, <1>7, RunFrame DEF SessionsTypeOK, stored

\* A session that was asked for is among the days of the report.
LEMMA InWindow ==
  ASSUME SessionsInv, NEW s \in Begun, AllHistory \in run.days \/ born[s] \in run.days
  PROVE  s \in Window(run.days)
  <1>1. s \in Names /\ turns[s] > 0 /\ SessionsTypeOK /\ Listings
    BY DEF Begun, SessionsInv
  <1>2. CASE AllHistory \notin run.days
    <2>1. born[s] \in Nat /\ listed[s] \in Nat /\ listed[s] \in {born[s] - 1, born[s] + 1}
      BY <1>1, SessionsAssumption DEF SessionsTypeOK, Listings, Dates
    <2>2. born[s] <= listed[s] + 1 /\ listed[s] <= born[s] + 1
      BY <2>1
    <2> QED
      BY <1>2, <2>2 DEF Window
  <1> QED
    BY <1>2 DEF Window

\* The answer is about the sessions as they are.
LEMMA AskStep ==
  ASSUME SessionsInv, Ask
  PROVE  SessionsInv'
  <1>1. /\ SessionsTypeOK /\ UNCHANGED <<tokscale, stored>> /\ run.phase = "planned"
        /\ run \in Running /\ turns \in [Names -> Nat] /\ slumps \in 0 .. MaxSlumps
    BY DEF SessionsInv, Ask, SessionsTypeOK
  <1>2. UNCHANGED <<date, version, turns, born, listed, row, usage, failed, covered, partial,
                    event, troubled, newest, shown>>
    BY <1>1 DEF tokscale, stored
  <1>3. slumps' \in 0 .. MaxSlumps
    <2>1. slumps' = slumps \/ (slumps < MaxSlumps /\ slumps' = slumps + 1)
      BY DEF Ask
    <2> QED
      BY <1>1, <2>1, SessionsAssumption
  <1>4. PICK answer \in ReportAnswers, entries \in SUBSET Names, drift \in BOOLEAN :
          /\ Answered(answer, entries, drift)
          /\ answer = "read" => entries = Window(run.days)
          /\ answer = "unasked" => run.days = {}
    <2>0. Window(run.days) \in SUBSET Names
      BY DEF Window, Begun
    <2>1. CASE run.days = {} /\ Answered("unasked", {}, FALSE)
      BY <2>1 DEF ReportAnswers
    <2>2. ASSUME NEW drift \in BOOLEAN, Answered("read", Window(run.days), drift /\ Window(run.days) # {})
          PROVE  \E answer \in ReportAnswers, entries \in SUBSET Names, d \in BOOLEAN :
                   /\ Answered(answer, entries, d)
                   /\ answer = "read" => entries = Window(run.days)
                   /\ answer = "unasked" => run.days = {}
      BY <2>0, <2>2 DEF ReportAnswers
    <2>3. CASE Answered("fetch", {}, FALSE)
      BY <2>3 DEF ReportAnswers
    <2>4. ASSUME NEW how \in {"contract", "parse"}, NEW drift \in BOOLEAN, Answered(how, {}, drift)
          PROVE  \E answer \in ReportAnswers, entries \in SUBSET Names, d \in BOOLEAN :
                   /\ Answered(answer, entries, d)
                   /\ answer = "read" => entries = Window(run.days)
                   /\ answer = "unasked" => run.days = {}
      BY <2>4 DEF ReportAnswers
    <2>5. ASSUME NEW s \in Window(run.days), Answered("short", Window(run.days) \ {s}, FALSE)
          PROVE  \E answer \in ReportAnswers, entries \in SUBSET Names, d \in BOOLEAN :
                   /\ Answered(answer, entries, d)
                   /\ answer = "read" => entries = Window(run.days)
                   /\ answer = "unasked" => run.days = {}
      <3>1. Window(run.days) \ {s} \in SUBSET Names
        BY <2>0
      <3> QED
        BY <2>5, <3>1 DEF ReportAnswers
    <2> QED
      BY <2>1, <2>2, <2>3, <2>4, <2>5 DEF Ask
  <1>5. Only(entries, turns) \in [Names -> Nat]
    BY <1>1 DEF Only
  <1>6. /\ run' \in Running /\ run'.phase = "answered" /\ run'.answer = answer
        /\ run'.found = Only(entries, turns) /\ run'.active = run.active
        /\ run'.asked = run.asked /\ run'.wanted = run.wanted /\ run'.days = run.days
    BY <1>1, <1>4, <1>5 DEF Answered, Running
  <1>7. Asks'
    <2>1. Begun' = Begun /\ Known' = Known /\ Missing(run.active)' = Missing(run.active)
      BY <1>2, <1>6 DEF Begun, Known, Missing
    <2> QED
      BY <1>1, <1>2, <1>6, <2>1 DEF SessionsInv, Asks
  <1>8. KnownAnswers'
    <2>1. Begun' = Begun
      BY <1>2 DEF Begun
    <2>2. \A s \in Names : Only(entries, turns)[s] \in {0, turns[s]}
      BY DEF Only
    <2>3. answer = "read" =>
            \A s \in Begun : AllHistory \in run.days \/ born[s] \in run.days =>
                               Only(entries, turns)[s] = turns[s]
      BY <1>4, InWindow DEF Only, Begun
    <2> QED
      BY <1>2, <1>4, <1>6, <2>1, <2>2, <2>3 DEF KnownAnswers
  <1> QED
    BY <1>1, <1>2, <1>3, <1>6, <1>7, <1>8, RunFrame DEF SessionsTypeOK, stored

\* A run that found all it expected is short of none of the active sessions.
LEMMA FoundAll ==
  ASSUME SessionsInv, run.phase = "answered", ~Failed,
         run.answer # "read" => AllFound
  PROVE  \A s \in Names : NewRows[s] >= run.asked[s]
  <1> SUFFICES ASSUME NEW s \in Names, run.asked[s] > 0 PROVE NewRows[s] >= run.asked[s]
    <2>1. run.asked \in [Names -> Nat] /\ run.found \in [Names -> Nat] /\ row \in [Names -> Nat]
      BY RunIs DEF SessionsInv, SessionsTypeOK
    <2>2. \A s \in Names : NewRows[s] \in Nat
      BY <2>1 DEF NewRows
    <2> QED
      BY <2>1, <2>2
  <1>1. /\ SessionsTypeOK /\ Asks /\ KnownAnswers
        /\ s \in run.active /\ run.asked[s] <= turns[s] /\ s \in Begun
    BY DEF SessionsInv, Asks
  <1>2. run.answer \in {"unasked", "read", "short"} /\ turns[s] \in Nat /\ run.asked[s] \in Nat
        /\ turns[s] > 0 /\ run.found \in [Names -> Nat]
    BY <1>1, RunIs DEF Failed, ReportAnswers, SessionsTypeOK, Begun
  <1>3. AllHistory \in run.days \/ born[s] \in run.days
    BY <1>1 DEF Asks
  <1>4. run.found[s] = turns[s]
    <2>1. CASE run.answer = "read"
      BY <1>1, <1>3, <2>1 DEF KnownAnswers
    <2>2. CASE run.answer # "read"
      <3>1. s \in ExpectedSessions
        BY <1>1 DEF ExpectedSessions, Missing, Asks
      <3>2. run.found[s] > 0
        BY <2>2, <3>1 DEF AllFound
      <3> QED
        BY <1>1, <1>2, <3>2 DEF KnownAnswers
    <2> QED
      BY <2>1, <2>2
  <1> QED
    BY <1>1, <1>2, <1>4 DEF NewRows

\* What is published is as new as what was asked for, or its lack is shown.
LEMMA PublishStep ==
  ASSUME SessionsInv, PublishReport
  PROVE  SessionsInv'
  <1>1. /\ SessionsTypeOK /\ run.phase = "answered" /\ UNCHANGED <<tokscale, slumps>> /\ Asks /\ KnownAnswers
        /\ run.active \subseteq Begun
    BY DEF SessionsInv, PublishReport, Asks
  <1>2. UNCHANGED <<date, version, turns, born, listed>>
    BY <1>1 DEF tokscale
  <1>3. PICK kept \in SUBSET run.active : usage' = usage \cup kept
    BY DEF PublishReport
  <1>4. /\ row' = NewRows /\ event' = NewEvents
        /\ failed' = IF Failed THEN failed \cup run.days ELSE failed \ run.days
        /\ covered' = IF AllHistory \in run.days THEN ~Failed ELSE covered
        /\ partial' = IF ExpectedSessions = {} THEN partial
                      ELSE IF AllFound THEN partial \ {run.day} ELSE partial \cup {run.day}
        /\ troubled' = (Outcome # "ok")
        /\ newest' = [answer |-> run.answer, asked |-> run.asked]
        /\ shown' = [shown EXCEPT ![run.version] =
                 IF run.drift THEN "with" ELSE IF IsRead THEN "without" ELSE shown[run.version]]
        /\ run' = [Resting EXCEPT !.at = run.at]
    BY <1>1 DEF PublishReport, SessionsTypeOK
  <1>5. /\ run.day \in Dates /\ run.version \in 1 .. Versions /\ run.active \in SUBSET Names
        /\ run.days \in SUBSET Targets /\ run.answer \in ReportAnswers
        /\ run.found \in [Names -> Nat] /\ run.drift \in BOOLEAN /\ run.asked \in [Names -> Nat]
        /\ run' \in Running /\ run'.phase = "idle"
    BY <1>1, <1>4, RunIs, RestingIs
  <1>6. SessionsTypeOK'
    <2>1. row' \in [Names -> Nat] /\ usage' \in SUBSET Names
      BY <1>1, <1>3, <1>4, <1>5 DEF NewRows, SessionsTypeOK
    <2>2. failed' \in SUBSET Targets /\ covered' \in BOOLEAN /\ partial' \in SUBSET Dates
      <3>1. failed' \in SUBSET Targets
        BY <1>1, <1>4, <1>5 DEF SessionsTypeOK
      <3>2. covered' \in BOOLEAN
        BY <1>1, <1>4 DEF SessionsTypeOK, Failed
      <3>3. partial' \in SUBSET Dates
        BY <1>1, <1>4, <1>5 DEF SessionsTypeOK
      <3> QED
        BY <3>1, <3>2, <3>3
    <2>3. event' \in [1 .. Versions -> {"none", "active", "resolved"}]
      BY <1>1, <1>4 DEF NewEvents, SessionsTypeOK
    <2>4. shown' \in [1 .. Versions -> {"none", "with", "without"}]
      BY <1>1, <1>4, <1>5 DEF SessionsTypeOK
    <2>5. newest' \in [answer : ReportAnswers, asked : [Names -> Nat]] /\ troubled' \in BOOLEAN
      BY <1>4, <1>5
    <2> QED
      BY <1>1, <1>2, <1>5, <2>1, <2>2, <2>3, <2>4, <2>5 DEF SessionsTypeOK
  <1>7. usage' \subseteq Begun' /\ Listings'
    BY <1>1, <1>2, <1>3 DEF SessionsInv, Begun, Listings
  <1>8. Asks' /\ KnownAnswers'
    BY <1>5 DEF Asks, KnownAnswers
  <1>9. newest'.answer = run.answer /\ newest'.asked = run.asked
    BY <1>4
  <1>10. KnownAsAsked'
    <2> SUFFICES ASSUME run.answer = "read"
                 PROVE  usage' \subseteq Known' /\ \A s \in Names : row'[s] >= run.asked[s]
      BY <1>9 DEF KnownAsAsked
    <2>1. \A s \in Names : row'[s] >= run.asked[s]
      BY <1>1, <1>4, FoundAll DEF Failed
    <2>2. ASSUME NEW s \in usage' PROVE s \in Known'
      <3>1. s \in Names /\ s \in Begun /\ turns[s] > 0
        BY <1>1, <1>2, <1>7, <2>2 DEF Begun
      <3>2. CASE AllHistory \in run.days
        <4>1. run.found[s] = turns[s]
          BY <1>1, <3>1, <3>2 DEF KnownAnswers
        <4> QED
          BY <1>4, <3>1, <4>1 DEF NewRows, Known
      <3>3. CASE AllHistory \notin run.days
        <4>1. s \in Known
          BY <1>1, <1>3, <2>2, <3>3 DEF Asks, Missing
        <4> QED
          BY <1>4, <3>1, <4>1 DEF NewRows, Known
      <3> QED
        BY <3>2, <3>3
    <2> QED
      BY <2>1, <2>2
  <1>11. LackShown'
    <2> SUFFICES ASSUME troubled' = FALSE, NEW s \in Names PROVE ~(row'[s] < run.asked[s])
      BY <1>6, <1>9 DEF LackShown, CollectionIssues, SessionsTypeOK
    <2>1. Outcome = "ok"
      BY <1>4
    <2>2. ~Failed /\ AllFound
      BY <2>1 DEF Outcome
    <2>3. NewRows[s] >= run.asked[s]
      BY <1>1, <2>2, FoundAll
    <2>4. row'[s] \in Nat /\ run.asked[s] \in Nat
      BY <1>5, <1>6 DEF SessionsTypeOK
    <2> QED
      BY <1>4, <2>3, <2>4
  <1>12. DriftStands'
    <2> SUFFICES ASSUME NEW v \in 1 .. Versions PROVE event'[v] = "active" <=> shown'[v] = "with"
      BY DEF DriftStands
    <2>1. event[v] = "active" <=> shown[v] = "with"
      BY DEF SessionsInv, DriftStands
    <2>2. event'[v] = IF v = run.version /\ run.drift THEN "active"
                      ELSE IF Resolved(v) THEN "resolved" ELSE event[v]
      BY <1>4 DEF NewEvents
    <2>3. shown'[v] = IF v = run.version
                      THEN IF run.drift THEN "with" ELSE IF IsRead THEN "without" ELSE shown[v]
                      ELSE shown[v]
      BY <1>1, <1>4 DEF SessionsTypeOK
    <2> QED
      BY <2>1, <2>2, <2>3 DEF Resolved
  <1> QED
    BY <1>6, <1>7, <1>8, <1>10, <1>11, <1>12 DEF SessionsInv

\* A run that fails leaves all but the ledger.
LEMMA FailsStep ==
  ASSUME SessionsInv, Fails
  PROVE  SessionsInv'
  <1>1. /\ SessionsTypeOK /\ run' = [Resting EXCEPT !.at = run.at] /\ run.at \in 0 .. SessionRuns
    BY RunIs DEF SessionsInv, Fails
  <1>2. run' \in Running /\ run'.phase = "idle"
    BY <1>1, RestingIs
  <1>3. slumps' \in 0 .. MaxSlumps
    BY <1>1, SessionsAssumption DEF Fails, SessionsTypeOK
  <1>4. Asks' /\ KnownAnswers'
    BY <1>2 DEF Asks, KnownAnswers
  <1> QED
    BY <1>2, <1>3, <1>4, RunFrame DEF Fails

\* Every step keeps the invariant.
LEMMA SessionsSteps == SessionsInv /\ [SessionsNext]_yvars => SessionsInv'
  <1> SUFFICES ASSUME SessionsInv, [SessionsNext]_yvars PROVE SessionsInv'
    OBVIOUS
  <1>1. CASE UNCHANGED yvars
    <2>1. UNCHANGED <<tokscale, row, usage, failed, covered, partial, event, troubled, newest, shown, run, slumps>>
      BY <1>1 DEF yvars, stored
    <2>2. UNCHANGED <<date, version, turns, born, listed>>
      BY <2>1 DEF tokscale
    <2>3. Asks' /\ KnownAnswers'
      BY <2>1, <2>2 DEF SessionsInv, Asks, KnownAnswers, Begun, Known, Missing
    <2> QED
      BY <2>1, <2>3, RunFrame DEF SessionsInv, SessionsTypeOK
  <1> QED
    BY <1>1, SourceSteps, PlanStep, AskStep, PublishStep, FailsStep DEF SessionsNext

\* However many sessions there are, and however they come, go on and are listed: what the
\* last whole report asked for is known as it was then; what is known less is shown to be
\* lacking; and drift stands as long as the last report seen had it (orchestrator.py,
\* collector.py _fetch_reports(), ingest.py, diagnostics.py).
THEOREM SessionsAreKnown == SessionsSpec => []SessionsStand
  <1>1. SessionsInv => SessionsStand
    BY DEF SessionsInv, SessionsStand, SessionsKnown, StaleIsShown, KnownAsAsked, LackShown
  <1> QED
    BY <1>1, SessionsBegin, SessionsSteps, PTL DEF SessionsSpec

-----------------------------------------------------------------------------
(* Contracts: the verdict of the types of all members together, and what   *)
(* is true of each of them.                                                *)

\* The answer has the shape of its kind, and the verdict is that of diff_contract().
ContractInv ==
  /\ payload \in Payload /\ required \subseteq Paths
  /\ verdict \in {"none", "accepted", "fatal"}
  /\ verdict # "none" => {"entries", "cost", "clients"} \subseteq required
  /\ verdict = "accepted" => \A p \in Paths : ~Fatal(p)
  /\ verdict = "fatal" => \E p \in Paths : Fatal(p)

\* An array is a sequence.
LEMMA ArrayIs ==
  ASSUME NEW S, NEW a \in Arrays(S)
  PROVE  a \in Seq(S) /\ DOMAIN a = 1 .. Len(a) /\ (a = <<>> <=> DOMAIN a = {})
         /\ \A i \in DOMAIN a : a[i] \in S
  <1>1. PICK n \in 0 .. MaxMembers : a \in [1 .. n -> S]
    BY DEF Arrays
  <1>2. n \in Nat
    BY ContractAssumption
  <1>3. a \in Seq(S)
    BY <1>1, <1>2 DEF Seq
  <1>4. DOMAIN a = 1 .. Len(a) /\ Len(a) \in Nat /\ (a = <<>> <=> Len(a) = 0)
    BY <1>3
  <1>5. \A i \in DOMAIN a : a[i] \in S
    BY <1>1
  <1>6. a = <<>> <=> DOMAIN a = {}
    BY <1>4
  <1> QED
    BY <1>3, <1>4, <1>5, <1>6

\* What a path can be.
LEMMA ExpectedIs ==
  /\ Expected["entries"] = {"array"} /\ Expected["clients"] = {"array"}
  /\ Expected["cost"] = {"float"} /\ Expected["name"] = {"str"}
  BY DEF Expected, Paths

\* The answer, its members and theirs.
LEMMA PayloadIs ==
  ASSUME payload \in Payload
  PROVE  /\ payload.entries.kind \in {"array", "null", Absent}
         /\ Members = <<>> <=> DOMAIN Members = {}
         /\ \A i \in DOMAIN Members :
              /\ Members[i].cost \in {"float", "int", "str", Absent}
              /\ Members[i].clients.kind \in {"array", "null", Absent}
              /\ Members[i].clients.members = <<>> <=> DOMAIN Members[i].clients.members = {}
              /\ \A k \in DOMAIN Members[i].clients.members :
                   Members[i].clients.members[k].name \in {"str", "null", Absent}
  <1>1. \A S : \A h \in Holder(S) : h.kind \in {"array", "null", Absent} /\ h.members \in Arrays(S)
    <2> SUFFICES ASSUME NEW S, NEW h \in Holder(S)
                 PROVE  h.kind \in {"array", "null", Absent} /\ h.members \in Arrays(S)
      OBVIOUS
    <2>1. <<>> \in Arrays(S)
      <3>1. <<>> \in [1 .. 0 -> S] /\ 0 \in 0 .. MaxMembers
        BY ContractAssumption
      <3> QED
        BY <3>1 DEF Arrays
    <2> QED
      BY <2>1 DEF Holder
  <1>2. payload.entries \in Holder(Outer)
    BY DEF Payload
  <1>3. payload.entries.kind \in {"array", "null", Absent} /\ Members \in Arrays(Outer)
    BY <1>1, <1>2 DEF Members
  <1>4. /\ Members = <<>> <=> DOMAIN Members = {}
        /\ \A i \in DOMAIN Members : Members[i] \in Outer
    BY <1>3, ArrayIs
  <1>5. ASSUME NEW m \in Outer
        PROVE  /\ m.cost \in {"float", "int", "str", Absent}
               /\ m.clients.kind \in {"array", "null", Absent}
               /\ m.clients.members = <<>> <=> DOMAIN m.clients.members = {}
               /\ \A k \in DOMAIN m.clients.members :
                    m.clients.members[k].name \in {"str", "null", Absent}
    <2>1. m.cost \in {"float", "int", "str", Absent} /\ m.clients \in Holder(Inner)
      BY DEF Outer
    <2>2. m.clients.kind \in {"array", "null", Absent} /\ m.clients.members \in Arrays(Inner)
      BY <1>1, <2>1
    <2>3. /\ m.clients.members = <<>> <=> DOMAIN m.clients.members = {}
          /\ \A k \in DOMAIN m.clients.members : m.clients.members[k] \in Inner
      BY <2>2, ArrayIs
    <2> QED
      BY <2>1, <2>2, <2>3 DEF Inner
  <1> QED
    BY <1>3, <1>4, <1>5

\* The types of a path are those it has in the members.
LEMMA TypesAre ==
  ASSUME NEW p \in {"cost", "clients", "name"}
  PROVE  /\ \A i \in DOMAIN Members : TypesIn(Members[i], p) \subseteq Types(p)
         /\ \A t \in Types(p) : \E i \in DOMAIN Members : t \in TypesIn(Members[i], p)
         /\ Everywhere(p) <=> \A i \in DOMAIN Members : TypesIn(Members[i], p) # {}
  BY DEF Types, Everywhere

\* A path that does not refuse the answer is in every member, unless it lies within an empty
\* array, and of the type the contract wants.
LEMMA NotFatal ==
  ASSUME NEW p \in {"cost", "clients", "name"}, p \in required, ~Fatal(p)
  PROVE  /\ \A i \in DOMAIN Members :
              TypesIn(Members[i], p) \subseteq Expected[p] \cup (IF "float" \in Expected[p] THEN {"int"} ELSE {})
         /\ ~EmptyArrayAncestor(p) => \A i \in DOMAIN Members : TypesIn(Members[i], p) # {}
  <1>1. /\ Types(p) = {} => EmptyArrayAncestor(p)
        /\ Types(p) # {} => Everywhere(p)
        /\ Types(p) \subseteq Expected[p] \cup (IF "float" \in Expected[p] THEN {"int"} ELSE {})
    BY DEF Fatal, Unexpected
  <1> QED
    BY <1>1, TypesAre

\* And conversely.
LEMMA FatalIs ==
  ASSUME NEW p \in {"cost", "clients", "name"},
         \A i \in DOMAIN Members :
           TypesIn(Members[i], p) \subseteq Expected[p] \cup (IF "float" \in Expected[p] THEN {"int"} ELSE {}),
         \/ \A i \in DOMAIN Members : TypesIn(Members[i], p) = {} /\ EmptyArrayAncestor(p)
         \/ DOMAIN Members # {} /\ \A i \in DOMAIN Members : TypesIn(Members[i], p) # {},
         DOMAIN Members = {} => EmptyArrayAncestor(p)
  PROVE  ~Fatal(p)
  <1>1. Types(p) \subseteq Expected[p] \cup (IF "float" \in Expected[p] THEN {"int"} ELSE {})
    BY TypesAre
  <1>2. Types(p) = {} => EmptyArrayAncestor(p)
    BY TypesAre
  <1>3. Types(p) # {} => Everywhere(p)
    BY TypesAre
  <1> QED
    BY <1>1, <1>2, <1>3 DEF Fatal, Unexpected

\* The names of a member are its types and, if one is missing, Absent.
LEMMA NamesAre ==
  ASSUME NEW i \in DOMAIN Members
  PROVE  TypesIn(Members[i], "name") = NamesOf(Members[i]) \ {Absent}
  BY DEF TypesIn, NamesOf

\* What no path refuses has its arrays, costs and names.
LEMMA AcceptedIsGood ==
  ASSUME payload \in Payload, {"entries", "cost", "clients"} \subseteq required,
         \A p \in Paths : ~Fatal(p)
  PROVE  Good
  <1>1. IsArray(payload.entries)
    <2>1. ~Fatal("entries")
      BY DEF Paths
    <2>2. ~EmptyArrayAncestor("entries") /\ Types("entries") = {payload.entries.kind} \ {Absent}
      BY DEF EmptyArrayAncestor, Types
    <2>3. Types("entries") # {} /\ Types("entries") \subseteq {"array"}
      BY <2>1, <2>2, ExpectedIs DEF Fatal, Unexpected
    <2> QED
      BY <2>2, <2>3 DEF IsArray
  <1>2. ASSUME NEW i \in DOMAIN Members
        PROVE  CostGood(Members[i]) /\ IsArray(Members[i].clients)
    <2>1. Members # <<>>
      BY PayloadIs
    <2>2. ~EmptyArrayAncestor("cost") /\ ~EmptyArrayAncestor("clients")
      BY <2>1 DEF EmptyArrayAncestor
    <2>3. ~Fatal("cost") /\ ~Fatal("clients")
      BY DEF Paths
    <2>4. TypesIn(Members[i], "cost") # {} /\ TypesIn(Members[i], "cost") \subseteq {"float", "int"}
      BY <2>2, <2>3, NotFatal, ExpectedIs
    <2>5. TypesIn(Members[i], "clients") # {} /\ TypesIn(Members[i], "clients") \subseteq {"array"}
      BY <2>2, <2>3, NotFatal, ExpectedIs
    <2> QED
      BY <2>4, <2>5 DEF CostGood, IsArray, TypesIn
  <1>3. ASSUME "name" \in required PROVE NamesGood
    <2>1. ~Fatal("name")
      BY DEF Paths
    <2>2. \A i \in DOMAIN Members : TypesIn(Members[i], "name") \subseteq {"str"}
      BY <1>3, <2>1, NotFatal, ExpectedIs
    <2>3. ASSUME NEW k \in DOMAIN Members, Members[k].clients.members # <<>>,
                 NEW i \in DOMAIN Members
          PROVE  TypesIn(Members[i], "name") # {}
      <3>1. Members # <<>>
        BY PayloadIs
      <3>2. ~EmptyArrayAncestor("name")
        BY <2>3, <3>1 DEF EmptyArrayAncestor
      <3> QED
        BY <1>3, <2>1, <3>2, NotFatal
    <2> QED
      BY <2>2, <2>3, NamesAre DEF NamesGood
  <1> QED
    BY <1>1, <1>2, <1>3 DEF Good

\* And no path refuses what has them.
LEMMA GoodIsAccepted ==
  ASSUME payload \in Payload, Good, NEW p \in Paths
  PROVE  ~Fatal(p)
  <1>1. /\ IsArray(payload.entries)
        /\ \A i \in DOMAIN Members : CostGood(Members[i]) /\ IsArray(Members[i].clients)
        /\ "name" \in required => NamesGood
    BY DEF Good
  <1>2. CASE p = "entries"
    <2>1. Types("entries") = {"array"}
      BY <1>1 DEF Types, IsArray, Absent
    <2> QED
      BY <1>2, <2>1, ExpectedIs DEF Fatal, Unexpected, Everywhere
  <1>3. DOMAIN Members = {} => /\ EmptyArrayAncestor("cost") /\ EmptyArrayAncestor("clients")
                               /\ EmptyArrayAncestor("name")
    BY <1>1, PayloadIs DEF EmptyArrayAncestor
  <1>4. CASE p = "cost"
    <2>1. \A i \in DOMAIN Members : /\ TypesIn(Members[i], "cost") # {}
                                    /\ TypesIn(Members[i], "cost") \subseteq {"float", "int"}
      BY <1>1 DEF TypesIn, CostGood, Absent
    <2> QED
      BY <1>3, <1>4, <2>1, FatalIs, ExpectedIs
  <1>5. CASE p = "clients"
    <2>1. \A i \in DOMAIN Members : TypesIn(Members[i], "clients") = {"array"}
      BY <1>1 DEF TypesIn, IsArray, Absent
    <2> QED
      BY <1>3, <1>5, <2>1, FatalIs, ExpectedIs
  <1>6. CASE p = "name" /\ "name" \in required
    <2>1. \A i \in DOMAIN Members : TypesIn(Members[i], "name") \subseteq {"str"}
      BY <1>1, <1>6, NamesAre DEF NamesGood
    <2>2. \A i \in DOMAIN Members : Members[i].clients.members = <<>> => TypesIn(Members[i], "name") = {}
      BY PayloadIs DEF TypesIn
    <2>3. CASE \A i \in DOMAIN Members : Members[i].clients.members = <<>>
      <3>1. EmptyArrayAncestor("name")
        BY <1>1, <2>3 DEF EmptyArrayAncestor
      <3> QED
        BY <1>6, <2>1, <2>2, <2>3, <3>1, FatalIs, ExpectedIs
    <2>4. CASE \A i \in DOMAIN Members : NamesOf(Members[i]) \ {Absent} # {}
      <3>1. \A i \in DOMAIN Members : TypesIn(Members[i], "name") # {}
        BY <2>4, NamesAre
      <3> QED
        BY <1>3, <1>6, <2>1, <3>1, FatalIs, ExpectedIs
    <2> QED
      BY <1>1, <1>6, <2>3, <2>4 DEF NamesGood
  <1>7. CASE p \notin required
    BY <1>7 DEF Fatal
  <1> QED
    BY <1>2, <1>4, <1>5, <1>6, <1>7 DEF Paths

\* A check gives the verdict.
LEMMA ContractSteps ==
  ASSUME ContractInv, verdict = "none" => {"entries", "cost", "clients"} \subseteq required, [ContractNext]_hvars
  PROVE  ContractInv' /\ (verdict' = "none" => {"entries", "cost", "clients"} \subseteq required')
  <1>1. CASE UNCHANGED hvars
    <2>1. \A p : Fatal(p)' <=> Fatal(p)
      BY <1>1 DEF hvars, Fatal, Types, EmptyArrayAncestor, Everywhere, Unexpected, Members, Expected
    <2> QED
      BY <1>1, <2>1 DEF hvars, ContractInv
  <1>2. CASE Check
    <2>1. \A p : Fatal(p)' <=> Fatal(p)
      BY <1>2 DEF Check, Fatal, Types, EmptyArrayAncestor, Everywhere, Unexpected, Members
    <2> QED
      BY <1>2, <2>1 DEF Check, ContractInv
  <1> QED
    BY <1>1, <1>2 DEF ContractNext

\* A verdict that follows from the types is right.
LEMMA CheckedIsRight == ContractInv => VerdictIsRight
  <1> SUFFICES ASSUME ContractInv PROVE VerdictIsRight
    OBVIOUS
  <1>1. verdict = "fatal" => ~Good
    BY GoodIsAccepted DEF ContractInv
  <1>2. verdict = "accepted" => Good
    BY AcceptedIsGood DEF ContractInv
  <1> QED
    BY <1>1, <1>2 DEF ContractInv, VerdictIsRight

\* Whatever the length of the arrays and whatever is in them, an answer is accepted exactly if
\* it is good read member by member of the outer array (contracts.py diff_contract(),
\* validate_payloads()).
THEOREM VerdictsAreRight == ContractSpec => []VerdictIsRight
  <1> DEFINE Inv == ContractInv /\ (verdict = "none" => {"entries", "cost", "clients"} \subseteq required)
  <1>1. ContractInit => Inv
    BY DEF ContractInit, ContractInv, Paths
  <1>2. Inv /\ [ContractNext]_hvars => Inv'
    BY ContractSteps
  <1>3. Inv => VerdictIsRight
    BY CheckedIsRight
  <1> QED
    BY <1>1, <1>2, <1>3, PTL DEF ContractSpec

-----------------------------------------------------------------------------
(* Prices: what the checkpoint says of the prices, whatever was lost.      *)

PricesTypeOK ==
  /\ priceDay \in 1 .. PricingDays /\ custom \in Custom
  /\ prices \in [1 .. PricingDays -> [Models -> Price]]
  /\ seen \in SUBSET Models /\ checkpoint \in Checkpoint
  /\ pricer \in [Pricers -> Pricer] /\ priced \in 0 .. PricingRuns
  /\ unsettled \in SUBSET Models

PricedOn(d) == {m \in Models : prices[d][m].source # "none"}
Persisted == [d \in 1 .. PricingDays |-> PricedOn(d)]

\* The models that go by a custom price which the checkpoint is to know of.
Lingering == {m \in Models \ unsettled : GoesBy(m) = "Custom"}

\* What a checkpoint tells of them.
Tells(state) ==
  /\ state.present = "no" => Lingering \subseteq state.pending
  /\ state.present = "yes" /\ state.pending = {} => Lingering \subseteq state.models

Planned(p) == pricer[p].stage \in {"prepared", "filtered", "published"}
Informed(p) == pricer[p].stage \in {"loaded", "profiled", "prepared", "filtered"}

\* What a run has loaded is still so until it publishes.
LoadedHolds(p) ==
  /\ pricer[p].stage # "idle" => pricer[p].run = priced
  /\ Informed(p) =>
       pricer[p].persisted = Persisted /\ pricer[p].seen = seen
  /\ pricer[p].stage \notin {"idle", "published"} =>
       \A d \in 1 .. PricingDays, m \in Models : prices[d][m].run < priced
  /\ pricer[p].custom.present \/ pricer[p].custom.covers = {}
  /\ pricer[p].day <= priceDay

\* The checkpoint is what the run wrote, or lost, and the run knows of every model that goes
\* by a custom price.
RunTells(p) ==
  LET mine == pricer[p] IN
  /\ mine.stage = "profiled" \/ Planned(p) => mine.state.at = mine.run /\ Tells(mine.state)
  /\ Planned(p) =>
       /\ checkpoint \in {mine.state, NoCheckpoint}
       /\ IF mine.custom.present THEN Lingering \subseteq mine.state.models
          ELSE Lingering \subseteq mine.state.pending

\* A run that finds custom pricing anew is to price every model with usage.
Awaited(p) ==
  LET mine == pricer[p] IN
  mine.custom.present /\ mine.state.present # "yes" =>
    /\ mine.stage = "prepared" => seen \cup mine.active \subseteq mine.state.pending
    /\ mine.stage = "filtered" =>
         (seen \cup mine.active) \cap mine.custom.covers \subseteq mine.state.pending
    /\ mine.stage = "published" => seen \cap mine.custom.covers \subseteq mine.state.pending

\* What was observed is what custom pricing says, and, published, what the model goes by.
Gets(p) ==
  LET mine == pricer[p] IN
  /\ mine.stage \in {"filtered", "published"} =>
       \A m \in Observed(p) :
         mine.got[m] = IF m \in mine.custom.covers THEN "Custom" ELSE "automatic"
  /\ mine.stage = "filtered" => \A d \in 1 .. PricingDays : PricedOn(d) # {} => d <= mine.day
  /\ mine.stage = "published" =>
       \A m \in Observed(p) : GoesBy(m) = mine.got[m] /\ m \notin Lingering

PricerInv(p) == LoadedHolds(p) /\ RunTells(p) /\ Awaited(p) /\ Gets(p)

PricesInv ==
  /\ PricesTypeOK
  /\ custom.present \/ custom.covers = {}
  /\ checkpoint.at <= priced
  /\ \A d \in 1 .. PricingDays : PricedOn(d) # {} => d <= priceDay
  /\ \A d \in 1 .. PricingDays, m \in Models : prices[d][m].run <= priced
  /\ \A p, q \in Pricers : ~PricerAt(p, "idle") /\ ~PricerAt(q, "idle") => p = q
  /\ Tells(checkpoint)
  /\ \A p \in Pricers : PricerInv(p)

-----------------------------------------------------------------------------
(* What a model goes by.                                                   *)

\* The latest of some days is one of them.
LEMMA LatestOfDays ==
  ASSUME NEW S \in SUBSET (1 .. PricingDays), S # {}
  PROVE  Max(S) \in S /\ \A d \in S : d <= Max(S)
  <1>1. S \subseteq Nat /\ IsFiniteSet(S)
    <2>1. IsFiniteSet(1 .. PricingDays)
      BY PricingAssumption, FS_Interval
    <2> QED
      <3>1. IsFiniteSet(S)
        BY <2>1, FS_Subset
      <3>2. S \subseteq Nat
        BY PricingAssumption
      <3> QED
        BY <3>1, <3>2
  <1>2. PICK m \in S : \A n \in S : n <= m
    BY <1>1, FiniteGreatest
  <1> QED
    BY <1>2 DEF Max

\* A model goes by the price of its latest day.
LEMMA GoesByLatest ==
  ASSUME NEW m \in Models, NEW d \in 1 .. PricingDays, prices[d][m].source # "none",
         \A e \in 1 .. PricingDays : prices[e][m].source # "none" => e <= d
  PROVE  GoesBy(m) = prices[d][m].source
  <1> DEFINE days == {e \in 1 .. PricingDays : prices[e][m].source # "none"}
  <1>1. days # {} /\ days \in SUBSET (1 .. PricingDays) /\ d \in days
    OBVIOUS
  <1>2. Max(days) \in days /\ d <= Max(days) /\ Max(days) <= d
    BY <1>1, LatestOfDays
  <1>3. Max(days) = d
    BY <1>1, <1>2, PricingAssumption
  <1> QED
    BY <1>1, <1>3 DEF GoesBy

\* A model that goes by a custom price has had one.
LEMMA GoesByHas ==
  ASSUME NEW m \in Models, GoesBy(m) = "Custom"
  PROVE  \E d \in 1 .. PricingDays : prices[d][m].source = "Custom"
  <1> DEFINE days == {e \in 1 .. PricingDays : prices[e][m].source # "none"}
  <1>1. days # {}
    BY DEF GoesBy
  <1>2. Max(days) \in 1 .. PricingDays
    BY <1>1, LatestOfDays
  <1> QED
    BY <1>1, <1>2 DEF GoesBy

\* Prices that are the same are gone by.
LEMMA GoesBySame ==
  ASSUME NEW m \in Models, \A d \in 1 .. PricingDays : prices'[d][m] = prices[d][m]
  PROVE  GoesBy(m)' = GoesBy(m)
  <1> DEFINE days == {e \in 1 .. PricingDays : prices[e][m].source # "none"}
             later == {e \in 1 .. PricingDays : prices'[e][m].source # "none"}
  <1>1. days = later
    OBVIOUS
  <1>2. days # {} => Max(days) \in 1 .. PricingDays
    BY LatestOfDays
  <1> QED
    BY <1>1, <1>2 DEF GoesBy

-----------------------------------------------------------------------------
(* What the steps of a run change.                                         *)

\* Days are numbers from one, and runs from zero.
LEMMA PriceNumbers ==
  ASSUME PricesTypeOK
  PROVE  /\ PricingDays \in Nat \ {0} /\ PricingRuns \in Nat /\ priceDay \in Nat /\ priced \in Nat
         /\ checkpoint.at \in Nat /\ checkpoint \in Checkpoint
         /\ 1 \in 1 .. PricingDays
         /\ \A d \in 1 .. PricingDays, m \in Models : prices[d][m] \in Price /\ prices[d][m].run \in Nat
         /\ \A p \in Pricers : pricer[p] \in Pricer /\ pricer[p].day \in Nat /\ pricer[p].run \in Nat
  <1>1. /\ PricingDays \in Nat \ {0} /\ PricingRuns \in Nat /\ priceDay \in Nat /\ priced \in Nat
        /\ 1 \in 1 .. PricingDays
    BY PricingAssumption DEF PricesTypeOK
  <1>2. checkpoint.at \in Nat /\ checkpoint \in Checkpoint
    BY PricingAssumption DEF PricesTypeOK, Checkpoint
  <1>3. \A d \in 1 .. PricingDays, m \in Models : prices[d][m] \in Price /\ prices[d][m].run \in Nat
    BY PricingAssumption DEF PricesTypeOK, Price
  <1>4. \A p \in Pricers : pricer[p] \in Pricer /\ pricer[p].day \in Nat /\ pricer[p].run \in Nat
    BY PricingAssumption DEF PricesTypeOK, Pricer
  <1> QED
    BY <1>1, <1>2, <1>3, <1>4

\* The entry of a checkpoint that was never written, and the run that is not in progress.
LEMMA NothingIs ==
  /\ NoCheckpoint \in Checkpoint /\ NoCheckpoint.present = "unknown" /\ NoCheckpoint.at = 0
  /\ NoPricer \in Pricer /\ NoPricer.stage = "idle" /\ NoPricer.custom.covers = {} /\ NoPricer.day = 1
  <1>1. NoCheckpoint \in Checkpoint /\ NoCheckpoint.present = "unknown" /\ NoCheckpoint.at = 0
    BY PricingAssumption DEF NoCheckpoint, Checkpoint, Presence
  <1>2. NoPricer \in Pricer /\ NoPricer.stage = "idle" /\ NoPricer.custom.covers = {} /\ NoPricer.day = 1
    BY <1>1, PricingAssumption DEF NoPricer, Pricer, Custom, Stage, Source
  <1> QED
    BY <1>1, <1>2

\* Only the run that steps changes.
LEMMA PricerChanges ==
  ASSUME PricesTypeOK, NEW p \in Pricers, NEW next \in Pricer, pricer' = [pricer EXCEPT ![p] = next]
  PROVE  /\ pricer' \in [Pricers -> Pricer] /\ pricer'[p] = next
         /\ \A q \in Pricers \ {p} : pricer'[q] = pricer[q]
  BY DEF PricesTypeOK

\* A run that is not in progress has nothing to keep.
LEMMA IdleHolds ==
  ASSUME NEW p \in Pricers, pricer[p].stage = "idle",
         pricer[p].custom.present \/ pricer[p].custom.covers = {}, pricer[p].day <= priceDay
  PROVE  PricerInv(p)
  BY DEF PricerInv, LoadedHolds, RunTells, Awaited, Gets, Planned, Informed

\* What models go by does not change with the checkpoint.
LEMMA LingeringSame ==
  ASSUME UNCHANGED <<prices, unsettled>>
  PROVE  Lingering' = Lingering /\ \A m : GoesBy(m)' = GoesBy(m)
  BY DEF Lingering, GoesBy

\* A step of one run that publishes nothing concerns that run and the checkpoint.
LEMMA QuietStep ==
  ASSUME PricesInv, PricesTypeOK', UNCHANGED <<shop, prices, unsettled>>, priced' >= priced,
         NEW p \in Pricers,
         \A q \in Pricers \ {p} : pricer'[q] = pricer[q] /\ pricer[q].stage = "idle",
         checkpoint'.at <= priced', Tells(checkpoint)', PricerInv(p)'
  PROVE  PricesInv'
  <1>1. priceDay' = priceDay /\ custom' = custom /\ prices' = prices
        /\ priced \in Nat /\ priced' \in Nat
    BY PriceNumbers DEF shop, PricesInv, PricesTypeOK
  <1>2. \A d : PricedOn(d)' = PricedOn(d)
    BY <1>1 DEF PricedOn
  <1>3. ASSUME NEW q \in Pricers \ {p} PROVE PricerInv(q)'
    <2>1. /\ pricer'[q].stage = "idle" /\ pricer'[q].day <= priceDay'
          /\ pricer'[q].custom.present \/ pricer'[q].custom.covers = {}
      BY <1>1 DEF PricesInv, PricerInv, LoadedHolds
    <2> QED
      BY <2>1 DEF PricerInv, LoadedHolds, RunTells, Awaited, Gets, Planned, Informed
  <1>4. \A d \in 1 .. PricingDays, m \in Models : prices'[d][m].run <= priced'
    BY <1>1, PriceNumbers DEF PricesInv
  <1>5. \A q, r \in Pricers : ~PricerAt(q, "idle")' /\ ~PricerAt(r, "idle")' => q = r
    BY DEF PricerAt
  <1> QED
    BY <1>1, <1>2, <1>3, <1>4, <1>5 DEF PricesInv

\* While a run is in progress there is no other.
LEMMA AloneIs ==
  ASSUME PricesInv, NEW p \in Pricers, pricer[p].stage # "idle"
  PROVE  /\ PricesTypeOK /\ PricerInv(p) /\ pricer[p].run = priced
         /\ \A q \in Pricers \ {p} : pricer[q].stage = "idle"
  BY DEF PricesInv, PricerAt, PricerInv, LoadedHolds

\* A run that starts is the newest, and knows nothing yet.
LEMMA StartPricingIs ==
  ASSUME PricesTypeOK, NEW p \in Pricers, StartPricing(p)
  PROVE  /\ PricesTypeOK' /\ pricer[p].stage = "idle" /\ pricer'[p].stage = "started"
         /\ pricer'[p].run = priced' /\ priced' = priced + 1
         /\ pricer'[p].custom.covers = {} /\ pricer'[p].day = 1
         /\ \A q \in Pricers \ {p} : pricer'[q] = pricer[q]
         /\ InTurn => \A q \in Pricers : pricer[q].stage = "idle"
         /\ UNCHANGED <<shop, prices, seen, checkpoint, slips, unsettled>>
  <1> DEFINE next == [NoPricer EXCEPT !.stage = "started", !.run = priced + 1]
  <1>1. priced' = priced + 1 /\ priced' \in 0 .. PricingRuns
    BY PricingAssumption DEF StartPricing, PricesTypeOK
  <1>2. /\ next \in Pricer /\ next.stage = "started" /\ next.run = priced + 1
        /\ next.custom.covers = {} /\ next.day = 1
    BY <1>1, NothingIs DEF Pricer, Stage
  <1>3. pricer' = [pricer EXCEPT ![p] = next]
    BY DEF StartPricing
  <1> HIDE DEF next
  <1>4. /\ pricer' \in [Pricers -> Pricer] /\ pricer'[p] = next
        /\ \A q \in Pricers \ {p} : pricer'[q] = pricer[q]
    BY <1>2, <1>3, PricerChanges
  <1>5. UNCHANGED <<shop, prices, seen, checkpoint, slips, unsettled>>
    BY DEF StartPricing
  <1>6. PricesTypeOK'
    BY <1>1, <1>4, <1>5 DEF PricesTypeOK, shop
  <1> QED
    BY <1>1, <1>2, <1>4, <1>5, <1>6 DEF StartPricing, PricerAt

\* A run loads what the warehouse has.
LEMMA LoadIs ==
  ASSUME PricesTypeOK, NEW p \in Pricers, Load(p)
  PROVE  /\ PricesTypeOK' /\ pricer[p].stage = "started" /\ pricer'[p].stage = "loaded"
         /\ pricer'[p].run = pricer[p].run /\ pricer'[p].day = pricer[p].day
         /\ pricer'[p].custom = pricer[p].custom
         /\ pricer'[p].seen = seen /\ pricer'[p].persisted = Persisted
         /\ \A q \in Pricers \ {p} : pricer'[q] = pricer[q]
         /\ UNCHANGED <<shop, prices, seen, checkpoint, priced, slips, unsettled>>
  <1> DEFINE next == [pricer[p] EXCEPT !.stage = "loaded", !.seen = seen, !.persisted = Persisted]
  <1>1. pricer[p] \in Pricer /\ seen \in SUBSET Models
        /\ Persisted \in [1 .. PricingDays -> SUBSET Models]
    BY DEF PricesTypeOK, Persisted, PricedOn
  <1>2. /\ next \in Pricer /\ next.stage = "loaded" /\ next.run = pricer[p].run
        /\ next.day = pricer[p].day /\ next.custom = pricer[p].custom
        /\ next.seen = seen /\ next.persisted = Persisted
    BY <1>1 DEF Pricer, Stage
  <1>3. pricer' = [pricer EXCEPT ![p] = next]
    BY DEF Load, PricesTypeOK, Persisted, PricedOn
  <1> HIDE DEF next
  <1>4. /\ pricer' \in [Pricers -> Pricer] /\ pricer'[p] = next
        /\ \A q \in Pricers \ {p} : pricer'[q] = pricer[q]
    BY <1>2, <1>3, PricerChanges
  <1>5. UNCHANGED <<shop, prices, seen, checkpoint, priced, slips, unsettled>>
    BY DEF Load
  <1>6. PricesTypeOK'
    BY <1>4, <1>5 DEF PricesTypeOK, shop
  <1> QED
    BY <1>2, <1>4, <1>5, <1>6 DEF Load, PricerAt

\* A run takes the copy of custom-pricing.json and the entry of the checkpoint.
LEMMA OpenProfileIs ==
  ASSUME PricesTypeOK, NEW p \in Pricers, OpenProfile(p)
  PROVE  /\ PricesTypeOK' /\ pricer[p].stage = "loaded" /\ pricer'[p].stage = "profiled"
         /\ pricer'[p].run = pricer[p].run /\ pricer'[p].day = pricer[p].day
         /\ pricer'[p].seen = pricer[p].seen /\ pricer'[p].persisted = pricer[p].persisted
         /\ pricer'[p].custom = custom
         /\ pricer'[p].state.at = pricer[p].run
         /\ pricer'[p].state.present = checkpoint.present
         /\ pricer'[p].state.models = checkpoint.models
         /\ pricer'[p].state.pending = checkpoint.pending
         /\ \A q \in Pricers \ {p} : pricer'[q] = pricer[q]
         /\ UNCHANGED <<shop, prices, seen, checkpoint, priced, slips, unsettled>>
  <1> DEFINE entry == [checkpoint EXCEPT !.at = pricer[p].run]
             next == [pricer[p] EXCEPT !.stage = "profiled", !.custom = custom, !.state = entry]
  <1>1. pricer[p] \in Pricer /\ custom \in Custom /\ checkpoint \in Checkpoint
    BY DEF PricesTypeOK
  <1>2. /\ entry \in Checkpoint /\ entry.at = pricer[p].run
        /\ entry.present = checkpoint.present /\ entry.models = checkpoint.models
        /\ entry.pending = checkpoint.pending
    BY <1>1 DEF Checkpoint, Pricer
  <1> HIDE DEF entry
  <1>3. /\ next \in Pricer /\ next.stage = "profiled" /\ next.run = pricer[p].run
        /\ next.day = pricer[p].day /\ next.custom = custom /\ next.state = entry
        /\ next.seen = pricer[p].seen /\ next.persisted = pricer[p].persisted
    BY <1>1, <1>2 DEF Pricer, Stage
  <1>4. pricer' = [pricer EXCEPT ![p] = next]
    BY DEF OpenProfile, PricesTypeOK, entry
  <1> HIDE DEF next
  <1>5. /\ pricer' \in [Pricers -> Pricer] /\ pricer'[p] = next
        /\ \A q \in Pricers \ {p} : pricer'[q] = pricer[q]
    BY <1>3, <1>4, PricerChanges
  <1>6. UNCHANGED <<shop, prices, seen, checkpoint, priced, slips, unsettled>>
    BY DEF OpenProfile
  <1>7. PricesTypeOK'
    BY <1>5, <1>6 DEF PricesTypeOK, shop
  <1> QED
    BY <1>2, <1>3, <1>5, <1>6, <1>7 DEF OpenProfile, PricerAt

\* A run whose lock is its own writes what it has.
LEMMA WriteIs ==
  ASSUME checkpoint.at \in Nat, NEW entry \in Checkpoint, entry.at \in Nat,
         checkpoint.at <= entry.at, Write(entry)
  PROVE  checkpoint' = entry
  BY DEF Write

\* What is going to be observed again is written down.
LEMMA PrepareIs ==
  ASSUME PricesTypeOK, NEW p \in Pricers, Prepare(p),
         checkpoint.at <= pricer[p].run, pricer[p].state.at = pricer[p].run
  PROVE  LET mine == pricer[p]
             next == pricer'[p]
             known == UNION {mine.persisted[d] : d \in 1 .. PricingDays}
             models == mine.state.models \cup Recovered(p)
             needed == next.active \cup (mine.seen \ known)
             again == mine.state.pending \cup
                        (IF Agrees(mine.state.present, mine.custom.present) THEN {}
                         ELSE IF mine.custom.present THEN known \cup needed ELSE models) IN
         /\ PricesTypeOK' /\ mine.stage = "profiled" /\ next.stage = "prepared"
         /\ next.run = mine.run /\ next.day = priceDay /\ next.seen = mine.seen
         /\ next.persisted = mine.persisted /\ next.custom = mine.custom
         /\ next.needed = needed /\ next.refresh = again
         /\ next.state.at = mine.run /\ next.state.present = mine.state.present
         /\ next.state.models = models /\ next.state.pending = mine.state.pending \cup again
         /\ checkpoint' = next.state
         /\ \A q \in Pricers \ {p} : pricer'[q] = pricer[q]
         /\ UNCHANGED <<shop, prices, seen, priced, slips, unsettled>>
  <1> DEFINE mine == pricer[p]
             known == UNION {mine.persisted[d] : d \in 1 .. PricingDays}
             models == mine.state.models \cup Recovered(p)
             needed(active) == active \cup (mine.seen \ known)
             again(active) ==
               mine.state.pending \cup
                 (IF Agrees(mine.state.present, mine.custom.present) THEN {}
                  ELSE IF mine.custom.present THEN known \cup needed(active) ELSE models)
             entry(active) == [mine.state EXCEPT !.models = models, !.pending = @ \cup again(active)]
  <1>1. PICK active \in SUBSET Models :
          /\ Write(entry(active))
          /\ pricer' = [pricer EXCEPT ![p].stage = "prepared", ![p].day = priceDay,
                          ![p].active = active, ![p].needed = needed(active),
                          ![p].refresh = again(active), ![p].state = entry(active)]
    BY DEF Prepare
  <1>2. mine \in Pricer /\ mine.state \in Checkpoint /\ priceDay \in 1 .. PricingDays
    BY DEF PricesTypeOK, Pricer
  <1>3. known \in SUBSET Models /\ models \in SUBSET Models
    <2>1. mine.persisted \in [1 .. PricingDays -> SUBSET Models] /\ mine.state.models \in SUBSET Models
      BY <1>2 DEF Pricer, Checkpoint
    <2>2. \A d \in 1 .. PricingDays : mine.persisted[d] \in SUBSET Models
      BY <2>1
    <2>3. known \in SUBSET Models
      BY <2>2
    <2>4. Recovered(p) \in SUBSET Models
      BY DEF Recovered
    <2> QED
      BY <2>1, <2>3, <2>4
  <1>4. needed(active) \in SUBSET Models /\ again(active) \in SUBSET Models
    BY <1>2, <1>3, SMTT(30) DEF Pricer, Checkpoint
  <1> DEFINE e == entry(active)
  <1>5. /\ e \in Checkpoint /\ e.at = mine.state.at /\ e.present = mine.state.present
        /\ e.models = models /\ e.pending = mine.state.pending \cup again(active)
    BY <1>2, <1>3, <1>4 DEF Checkpoint
  <1> DEFINE n == needed(active)
             g == again(active)
             next == [mine EXCEPT !.stage = "prepared", !.day = priceDay, !.active = active,
                                  !.needed = n, !.refresh = g, !.state = e]
  <1>6. pricer' = [pricer EXCEPT ![p] = next]
    BY <1>1 DEF PricesTypeOK
  <1>7. Write(e)
    BY <1>1
  <1>8. n = active \cup (mine.seen \ known) /\ n \in SUBSET Models /\ g \in SUBSET Models
        /\ g = mine.state.pending \cup
                 (IF Agrees(mine.state.present, mine.custom.present) THEN {}
                  ELSE IF mine.custom.present THEN known \cup n ELSE models)
        /\ e.pending = mine.state.pending \cup g
    BY <1>4, <1>5
  <1> HIDE DEF e, n, g, models, known
  <1>9. /\ next \in Pricer /\ next.stage = "prepared" /\ next.run = mine.run
        /\ next.day = priceDay /\ next.seen = mine.seen /\ next.persisted = mine.persisted
        /\ next.custom = mine.custom /\ next.active = active /\ next.needed = n
        /\ next.refresh = g /\ next.state = e
    BY <1>2, <1>5, <1>8 DEF Pricer, Stage
  <1> HIDE DEF next
  <1>10. /\ pricer' \in [Pricers -> Pricer] /\ pricer'[p] = next
         /\ \A q \in Pricers \ {p} : pricer'[q] = pricer[q]
    BY <1>6, <1>9, PricerChanges
  <1>11. checkpoint' = e
    <2>1. checkpoint.at \in Nat /\ e.at \in Nat
      BY <1>2, <1>5, PriceNumbers, SMTT(30)
    <2> QED
      BY <1>5, <1>7, <2>1, WriteIs
  <1>12. UNCHANGED <<shop, prices, seen, priced, slips, unsettled>> /\ mine.stage = "profiled"
    BY DEF Prepare, PricerAt
  <1>13. PricesTypeOK'
    BY <1>5, <1>10, <1>11, <1>12 DEF PricesTypeOK, shop
  <1> QED
    BY <1>5, <1>8, <1>9, <1>10, <1>11, <1>12, <1>13, SMTT(30) DEF known, models

\* Prices come, and those that custom pricing does not touch are left out.
LEMMA FetchPricesIs ==
  ASSUME PricesTypeOK, NEW p \in Pricers, FetchPrices(p),
         checkpoint.at <= pricer[p].run, pricer[p].state.at = pricer[p].run
  PROVE  /\ PricesTypeOK' /\ pricer[p].stage = "prepared" /\ pricer'[p].stage = "filtered"
         /\ pricer'[p].run = pricer[p].run /\ pricer'[p].day = priceDay
         /\ pricer'[p].seen = pricer[p].seen /\ pricer'[p].active = pricer[p].active
         /\ pricer'[p].persisted = pricer[p].persisted /\ pricer'[p].custom = pricer[p].custom
         /\ \E ignored \in SUBSET Models :
              /\ ignored \cap pricer[p].state.models = {}
              /\ ignored # {} => pricer[p].custom.present
              /\ ignored \cap pricer[p].custom.covers = {}
              /\ pricer'[p].state.pending = pricer[p].state.pending \ ignored
         /\ pricer'[p].state.at = pricer[p].run
         /\ pricer'[p].state.present = pricer[p].state.present
         /\ pricer'[p].state.models = pricer[p].state.models
         /\ \A m \in Models : pricer'[p].got[m] # "none" =>
              pricer'[p].got[m] = IF m \in pricer[p].custom.covers THEN "Custom" ELSE "automatic"
         /\ checkpoint' = pricer'[p].state
         /\ \A q \in Pricers \ {p} : pricer'[q] = pricer[q]
         /\ UNCHANGED <<shop, prices, seen, priced, unsettled>>
  <1> DEFINE mine == pricer[p]
  <1>1. PICK fetched \in SUBSET ToFetch(p) :
          LET kept == fetched \ Ignored(p, fetched)
              entry == [mine.state EXCEPT !.pending = @ \ Ignored(p, fetched)] IN
          /\ Write(entry)
          /\ pricer' = [pricer EXCEPT ![p].stage = "filtered", ![p].day = priceDay, ![p].state = entry,
               ![p].got = [m \in Models |->
                             IF m \notin kept THEN "none"
                             ELSE IF m \in mine.custom.covers THEN "Custom" ELSE "automatic"]]
    BY DEF FetchPrices
  <1> DEFINE ignored == Ignored(p, fetched)
             kept == fetched \ ignored
             e == [mine.state EXCEPT !.pending = @ \ ignored]
             got == [m \in Models |-> IF m \notin kept THEN "none"
                                      ELSE IF m \in mine.custom.covers THEN "Custom" ELSE "automatic"]
             next == [mine EXCEPT !.stage = "filtered", !.day = priceDay, !.state = e, !.got = got]
  <1>2. mine \in Pricer /\ mine.state \in Checkpoint /\ priceDay \in 1 .. PricingDays
    BY DEF PricesTypeOK, Pricer
  <1>3. /\ ignored \in SUBSET Models
        /\ ignored \cap mine.state.models = {}
        /\ ignored # {} => mine.custom.present
        /\ ignored \cap mine.custom.covers = {}
    <2>1. mine.refresh \in SUBSET Models
      BY <1>2 DEF Pricer
    <2>2. \A m \in ignored : m \in mine.refresh \ mine.state.models /\ mine.custom.present /\ m \notin mine.custom.covers
      BY DEF Ignored
    <2> HIDE DEF ignored
    <2> QED
      BY <2>1, <2>2
  <1>4. pricer' = [pricer EXCEPT ![p] = next] /\ Write(e)
    BY <1>1 DEF PricesTypeOK
  <1> HIDE DEF ignored
  <1>5. /\ e \in Checkpoint /\ e.at = mine.state.at /\ e.present = mine.state.present
        /\ e.models = mine.state.models /\ e.pending = mine.state.pending \ ignored
    BY <1>2 DEF Checkpoint
  <1>6. /\ got \in [Models -> Source]
        /\ \A m \in Models : got[m] # "none" =>
             got[m] = IF m \in mine.custom.covers THEN "Custom" ELSE "automatic"
    BY DEF Source
  <1> HIDE DEF e, got
  <1>7. /\ next \in Pricer /\ next.stage = "filtered" /\ next.run = mine.run
        /\ next.day = priceDay /\ next.seen = mine.seen /\ next.active = mine.active
        /\ next.persisted = mine.persisted /\ next.custom = mine.custom
        /\ next.state = e /\ next.got = got
    BY <1>2, <1>5, <1>6 DEF Pricer, Stage
  <1> HIDE DEF next
  <1>8. /\ pricer' \in [Pricers -> Pricer] /\ pricer'[p] = next
        /\ \A q \in Pricers \ {p} : pricer'[q] = pricer[q]
    BY <1>4, <1>7, PricerChanges
  <1>9. checkpoint' = e
    <2>1. checkpoint.at \in Nat /\ e.at \in Nat
      BY <1>2, <1>5, PriceNumbers
    <2> QED
      BY <1>4, <1>5, <2>1, WriteIs
  <1>10. UNCHANGED <<shop, prices, seen, priced, unsettled>> /\ mine.stage = "prepared"
    BY DEF FetchPrices, PricerAt
  <1>11. PricesTypeOK'
    BY <1>5, <1>8, <1>9, <1>10 DEF PricesTypeOK, shop
  <1> QED
    BY <1>3, <1>5, <1>6, <1>7, <1>8, <1>9, <1>10, <1>11, SMTT(30)

\* A run that publishes is the newest, so what it observed is the price of its day.
LEMMA PublishPricesIs ==
  ASSUME PricesTypeOK, NEW p \in Pricers, PublishPrices(p),
         \A d \in 1 .. PricingDays, m \in Models : prices[d][m].run < pricer[p].run
  PROVE  /\ PricesTypeOK' /\ pricer[p].stage = "filtered" /\ pricer'[p].stage = "published"
         /\ pricer'[p].run = pricer[p].run /\ pricer'[p].day = pricer[p].day
         /\ pricer'[p].custom = pricer[p].custom /\ pricer'[p].state = pricer[p].state
         /\ pricer'[p].got = pricer[p].got /\ pricer'[p].active = pricer[p].active
         /\ seen' = seen \cup pricer[p].active
         /\ unsettled' = unsettled \cup ObservedCustom(p)
         /\ \A d \in 1 .. PricingDays, m \in Models :
              prices'[d][m] = IF d = pricer[p].day /\ m \in Observed(p)
                                THEN [source |-> pricer[p].got[m], run |-> pricer[p].run]
                                ELSE prices[d][m]
         /\ \A q \in Pricers \ {p} : pricer'[q] = pricer[q]
         /\ UNCHANGED <<shop, checkpoint, priced, slips>>
  <1> DEFINE mine == pricer[p]
             next == [mine EXCEPT !.stage = "published"]
  <1>1. mine \in Pricer /\ mine.day \in 1 .. PricingDays /\ mine.run \in 0 .. PricingRuns
        /\ mine.got \in [Models -> Source] /\ mine.active \in SUBSET Models
    BY DEF PricesTypeOK, Pricer
  <1>2. /\ next \in Pricer /\ next.stage = "published" /\ next.run = mine.run
        /\ next.day = mine.day /\ next.custom = mine.custom /\ next.state = mine.state
        /\ next.got = mine.got /\ next.active = mine.active
    BY <1>1 DEF Pricer, Stage
  <1>3. pricer' = [pricer EXCEPT ![p] = next]
    BY DEF PublishPrices, PricesTypeOK
  <1> HIDE DEF next
  <1>4. /\ pricer' \in [Pricers -> Pricer] /\ pricer'[p] = next
        /\ \A q \in Pricers \ {p} : pricer'[q] = pricer[q]
    BY <1>2, <1>3, PricerChanges
  <1>5. /\ prices' = [prices EXCEPT ![mine.day] = [m \in Models |->
                        IF m \in Observed(p) /\ mine.run > prices[mine.day][m].run
                          THEN [source |-> mine.got[m], run |-> mine.run]
                          ELSE prices[mine.day][m]]]
        /\ seen' = seen \cup mine.active
        /\ unsettled' = unsettled \cup ObservedCustom(p)
        /\ UNCHANGED <<shop, checkpoint, priced, slips>>
        /\ mine.stage = "filtered"
    BY DEF PublishPrices, PricerAt
  <1>6. \A m \in Models : mine.run > prices[mine.day][m].run
    BY <1>1, PriceNumbers, PricingAssumption
  <1> DEFINE new == [m \in Models |-> IF m \in Observed(p)
                                        THEN [source |-> mine.got[m], run |-> mine.run]
                                        ELSE prices[mine.day][m]]
  <1>7. prices' = [prices EXCEPT ![mine.day] = new]
    BY <1>5, <1>6
  <1>8. new \in [Models -> Price]
    BY <1>1 DEF Price, PricesTypeOK
  <1>9. prices' \in [1 .. PricingDays -> [Models -> Price]]
    BY <1>7, <1>8 DEF PricesTypeOK
  <1>10. \A d \in 1 .. PricingDays : prices'[d] = IF d = mine.day THEN new ELSE prices[d]
    BY <1>7 DEF PricesTypeOK
  <1>11. \A d \in 1 .. PricingDays, m \in Models :
           prices'[d][m] = IF d = mine.day /\ m \in Observed(p)
                             THEN [source |-> mine.got[m], run |-> mine.run] ELSE prices[d][m]
    <2> SUFFICES ASSUME NEW d \in 1 .. PricingDays, NEW m \in Models
                 PROVE  prices'[d][m] = IF d = mine.day /\ m \in Observed(p)
                          THEN [source |-> mine.got[m], run |-> mine.run] ELSE prices[d][m]
      OBVIOUS
    <2>1. new[m] = IF m \in Observed(p) THEN [source |-> mine.got[m], run |-> mine.run]
                                        ELSE prices[mine.day][m]
      OBVIOUS
    <2>2. prices'[d] = IF d = mine.day THEN new ELSE prices[d]
      BY <1>10
    <2> HIDE DEF new
    <2> QED
      BY <2>1, <2>2
  <1>12. PricesTypeOK'
    BY <1>1, <1>4, <1>5, <1>9 DEF PricesTypeOK, shop, ObservedCustom
  <1> QED
    BY <1>2, <1>4, <1>5, <1>11, <1>12

\* A run that acknowledges writes down what is left.
LEMMA AcknowledgeIs ==
  ASSUME PricesTypeOK, NEW p \in Pricers, Acknowledge(p),
         checkpoint.at <= pricer[p].run, pricer[p].state.at = pricer[p].run
  PROVE  LET mine == pricer[p]
             left == mine.state.pending \ Observed(p)
             models == mine.state.models \cup ObservedCustom(p) IN
         /\ PricesTypeOK' /\ mine.stage = "published" /\ pricer'[p] = NoPricer
         /\ checkpoint' = Acknowledged(p) /\ checkpoint'.at = mine.run
         /\ checkpoint'.pending = left
         /\ left # {} => checkpoint'.models = models /\ checkpoint'.present = mine.state.present
         /\ left = {} => IF mine.custom.present
                           THEN checkpoint'.models = models /\ checkpoint'.present = "yes"
                           ELSE checkpoint'.present = "no"
         /\ unsettled' = IF checkpoint'.present = "yes" THEN unsettled \ checkpoint'.models
                                                        ELSE unsettled
         /\ \A q \in Pricers \ {p} : pricer'[q] = pricer[q]
         /\ UNCHANGED <<shop, prices, seen, priced, slips>>
  <1> DEFINE mine == pricer[p]
             left == mine.state.pending \ Observed(p)
             models == mine.state.models \cup ObservedCustom(p)
             e == Acknowledged(p)
  <1>1. mine \in Pricer /\ mine.state \in Checkpoint
    BY DEF PricesTypeOK, Pricer
  <1>2. models \in SUBSET Models /\ left \in SUBSET Models
    BY <1>1 DEF Checkpoint, ObservedCustom
  <1>3. e = IF left # {} THEN [mine.state EXCEPT !.pending = left, !.models = models]
            ELSE [mine.state EXCEPT !.pending = {},
                    !.present = IF mine.custom.present THEN "yes" ELSE "no",
                    !.models = IF mine.custom.present THEN models ELSE {}]
    BY DEF Acknowledged
  <1> HIDE DEF left, models, e
  <1>4. /\ e \in Checkpoint /\ e.at = mine.state.at /\ e.pending = left
        /\ left # {} => e.models = models /\ e.present = mine.state.present
        /\ left = {} => IF mine.custom.present THEN e.models = models /\ e.present = "yes"
                                               ELSE e.present = "no"
    BY <1>1, <1>2, <1>3 DEF Checkpoint, Presence
  <1>5. /\ Write(e) /\ pricer' = [pricer EXCEPT ![p] = NoPricer] /\ mine.stage = "published"
        /\ unsettled' = IF e.present = "yes" THEN unsettled \ e.models ELSE unsettled
        /\ UNCHANGED <<shop, prices, seen, priced, slips>>
    BY DEF Acknowledge, PricerAt, e
  <1>6. checkpoint' = e
    <2>1. checkpoint.at \in Nat /\ e.at \in Nat
      BY <1>1, <1>4, PriceNumbers
    <2> QED
      BY <1>4, <1>5, <2>1, WriteIs
  <1>7. /\ pricer' \in [Pricers -> Pricer] /\ pricer'[p] = NoPricer
        /\ \A q \in Pricers \ {p} : pricer'[q] = pricer[q]
    BY <1>5, NothingIs, PricerChanges
  <1>8. PricesTypeOK'
    BY <1>4, <1>5, <1>6, <1>7 DEF PricesTypeOK, shop
  <1> QED
    BY <1>4, <1>5, <1>6, <1>7, <1>8 DEF left, models, e

-----------------------------------------------------------------------------
(* The steps keep the invariant.                                           *)

\* The world changes, or the checkpoint is lost, which tells nothing.
LEMMA WorldStep ==
  ASSUME PricesInv, Edit \/ NextDay \/ LoseCheckpoint
  PROVE  PricesInv'
  <1>1. PricesTypeOK /\ priceDay \in Nat /\ PricingDays \in Nat \ {0} /\ priced \in Nat
    BY PriceNumbers DEF PricesInv
  <1>2. /\ UNCHANGED <<prices, seen, pricer, priced, unsettled>>
        /\ priceDay' \in {priceDay, priceDay + 1} /\ priceDay' \in 1 .. PricingDays
        /\ custom' \in Custom /\ (custom'.present \/ custom'.covers = {})
        /\ checkpoint' \in {checkpoint, NoCheckpoint}
    <2>1. CASE Edit
      <3>1. custom' \in [present: {TRUE}, covers: SUBSET Models] \cup [present: {FALSE}, covers: {{}}]
        BY <2>1 DEF Edit
      <3>2. custom' \in Custom /\ (custom'.present \/ custom'.covers = {})
        BY <3>1 DEF Custom
      <3> QED
        BY <1>1, <2>1, <3>2 DEF Edit, PricesTypeOK
    <2>2. CASE NextDay
      BY <1>1, <2>2 DEF NextDay, PricesTypeOK, PricesInv
    <2>3. CASE LoseCheckpoint
      BY <1>1, <2>3 DEF LoseCheckpoint, shop, PricesTypeOK, PricesInv
    <2> QED
      BY <2>1, <2>2, <2>3
  <1>3. PricesTypeOK'
    BY <1>1, <1>2, NothingIs DEF PricesTypeOK
  <1>4. priceDay' >= priceDay /\ priceDay' \in Nat
    BY <1>1, <1>2
  <1>5. /\ Lingering' = Lingering /\ \A m : GoesBy(m)' = GoesBy(m)
        /\ \A d : PricedOn(d)' = PricedOn(d)
        /\ Persisted' = Persisted
    BY <1>2, LingeringSame DEF PricedOn, Persisted
  <1>6. Tells(checkpoint)'
    BY <1>2, <1>5, NothingIs DEF PricesInv, Tells
  <1>7. checkpoint'.at <= priced'
    BY <1>1, <1>2, NothingIs DEF PricesInv
  <1>8. ASSUME NEW p \in Pricers PROVE PricerInv(p)'
    <2>1. PricerInv(p) /\ pricer[p].day \in Nat
      BY <1>1, PriceNumbers DEF PricesInv
    <2>2. LoadedHolds(p)'
      BY <1>1, <1>2, <1>4, <1>5, <2>1 DEF PricerInv, LoadedHolds, Informed
    <2>3. RunTells(p)'
      BY <1>2, <1>5, <2>1 DEF PricerInv, RunTells, Planned, Tells
    <2>4. Awaited(p)' /\ Gets(p)'
      BY <1>2, <1>5, <2>1 DEF PricerInv, Awaited, Gets, Observed
    <2> QED
      BY <2>2, <2>3, <2>4 DEF PricerInv
  <1>9. \A d \in 1 .. PricingDays : PricedOn(d)' # {} => d <= priceDay'
    BY <1>1, <1>4, <1>5 DEF PricesInv
  <1> QED
    BY <1>2, <1>3, <1>6, <1>7, <1>8, <1>9 DEF PricesInv, PricerAt

\* A run starts, alone where runs exclude one another.
LEMMA StartPricingStep ==
  ASSUME InTurn, PricesInv, NEW p \in Pricers, StartPricing(p)
  PROVE  PricesInv'
  <1>1. /\ PricesTypeOK /\ PricesTypeOK' /\ pricer'[p].stage = "started"
        /\ pricer'[p].run = priced' /\ priced' = priced + 1
        /\ pricer'[p].custom.covers = {} /\ pricer'[p].day = 1
        /\ \A q \in Pricers \ {p} : pricer'[q] = pricer[q] /\ pricer[q].stage = "idle"
        /\ UNCHANGED <<shop, prices, seen, checkpoint, slips, unsettled>>
    BY StartPricingIs DEF PricesInv
  <1>2. priced \in Nat /\ priceDay \in Nat /\ checkpoint.at \in Nat /\ priceDay \in 1 .. PricingDays
    BY <1>1, PriceNumbers DEF PricesTypeOK
  <1>3. Lingering' = Lingering
    BY <1>1, LingeringSame
  <1>4. Tells(checkpoint)' /\ checkpoint'.at <= priced'
    BY <1>1, <1>2, <1>3 DEF PricesInv, Tells
  <1>5. \A d \in 1 .. PricingDays, m \in Models : prices[d][m].run < priced + 1
    <2>1. \A d \in 1 .. PricingDays, m \in Models : prices[d][m].run \in Nat
      BY <1>1, PriceNumbers
    <2> QED
      BY <1>2, <2>1 DEF PricesInv
  <1>6. PricerInv(p)'
    BY <1>1, <1>2, <1>5 DEF PricerInv, LoadedHolds, RunTells, Awaited, Gets, Planned, Informed, shop
  <1> QED
    BY <1>1, <1>2, <1>4, <1>6, QuietStep

\* A run that loads knows the prices and the models with usage.
LEMMA LoadStep ==
  ASSUME PricesInv, NEW p \in Pricers, Load(p)
  PROVE  PricesInv'
  <1>1. PricesTypeOK
    BY DEF PricesInv
  <1>2. /\ PricesTypeOK' /\ pricer[p].stage = "started" /\ pricer'[p].stage = "loaded"
        /\ pricer'[p].run = pricer[p].run /\ pricer'[p].day = pricer[p].day
        /\ pricer'[p].custom = pricer[p].custom
        /\ pricer'[p].seen = seen /\ pricer'[p].persisted = Persisted
        /\ \A q \in Pricers \ {p} : pricer'[q] = pricer[q]
        /\ UNCHANGED <<shop, prices, seen, checkpoint, priced, slips, unsettled>>
    BY <1>1, LoadIs
  <1>3. Lingering' = Lingering /\ Persisted' = Persisted
    BY <1>2, LingeringSame DEF Persisted, PricedOn
  <1>4. Tells(checkpoint)' /\ checkpoint'.at <= priced' /\ priced' >= priced
    BY <1>1, <1>2, <1>3, PriceNumbers DEF PricesInv, Tells
  <1>5. PricerInv(p) /\ \A q \in Pricers \ {p} : pricer[q].stage = "idle"
    BY <1>2, AloneIs
  <1>6. \A d \in 1 .. PricingDays, m \in Models : prices[d][m].run < priced
    BY <1>2, <1>5 DEF PricerInv, LoadedHolds
  <1>7. LoadedHolds(p)'
    BY <1>2, <1>3, <1>5, <1>6 DEF PricerInv, LoadedHolds, Informed, shop
  <1>8. PricerInv(p)'
    BY <1>2, <1>7 DEF PricerInv, RunTells, Awaited, Gets, Planned
  <1> QED
    BY <1>2, <1>4, <1>5, <1>8, QuietStep

\* A run that takes the entry of the checkpoint knows what it tells.
LEMMA OpenProfileStep ==
  ASSUME PricesInv, NEW p \in Pricers, OpenProfile(p)
  PROVE  PricesInv'
  <1>1. PricesTypeOK
    BY DEF PricesInv
  <1>2. /\ PricesTypeOK' /\ pricer[p].stage = "loaded" /\ pricer'[p].stage = "profiled"
        /\ pricer'[p].run = pricer[p].run /\ pricer'[p].day = pricer[p].day
        /\ pricer'[p].seen = pricer[p].seen /\ pricer'[p].persisted = pricer[p].persisted
        /\ pricer'[p].custom = custom
        /\ pricer'[p].state.at = pricer[p].run
        /\ pricer'[p].state.present = checkpoint.present
        /\ pricer'[p].state.models = checkpoint.models
        /\ pricer'[p].state.pending = checkpoint.pending
        /\ \A q \in Pricers \ {p} : pricer'[q] = pricer[q]
        /\ UNCHANGED <<shop, prices, seen, checkpoint, priced, slips, unsettled>>
    BY <1>1, OpenProfileIs
  <1>3. Lingering' = Lingering /\ Persisted' = Persisted
    BY <1>2, LingeringSame DEF Persisted, PricedOn
  <1>4. Tells(checkpoint)' /\ checkpoint'.at <= priced' /\ priced' >= priced
    BY <1>1, <1>2, <1>3, PriceNumbers DEF PricesInv, Tells
  <1>5. PricerInv(p) /\ \A q \in Pricers \ {p} : pricer[q].stage = "idle"
    BY <1>2, AloneIs
  <1>6. LoadedHolds(p)'
    BY <1>2, <1>3, <1>5 DEF PricesInv, PricerInv, LoadedHolds, Informed, shop
  <1>7. RunTells(p)'
    BY <1>2, <1>3, <1>4 DEF RunTells, Planned, Tells
  <1>8. PricerInv(p)'
    BY <1>2, <1>6, <1>7 DEF PricerInv, Awaited, Gets, Planned
  <1> QED
    BY <1>2, <1>4, <1>5, <1>8, QuietStep

\* A run that knows which models have had a custom price knows those that go by one.
LEMMA RecoveredIs ==
  ASSUME PricesTypeOK, NEW p \in Pricers, pricer[p].persisted = Persisted,
         pricer[p].state.present = "unknown" \/ pricer[p].state.pending # {}
  PROVE  Lingering \subseteq Recovered(p)
  <1> SUFFICES ASSUME NEW m \in Lingering PROVE m \in Recovered(p)
    OBVIOUS
  <1>1. PICK d \in 1 .. PricingDays : prices[d][m].source = "Custom"
    BY GoesByHas DEF Lingering
  <1>2. m \in Models /\ m \in Persisted[d]
    BY <1>1 DEF Lingering, Persisted, PricedOn
  <1>3. UNION {pricer[p].persisted[e] : e \in 1 .. PricingDays} # {}
    BY <1>2
  <1> QED
    BY <1>1, <1>2, <1>3 DEF Recovered

\* What a run writes down before it observes prices is enough to go on from.
LEMMA PrepareStep ==
  ASSUME PricesInv, NEW p \in Pricers, Prepare(p)
  PROVE  PricesInv'
  <1>1. PricesTypeOK /\ pricer[p].stage = "profiled"
    BY DEF PricesInv, Prepare, PricerAt
  <1>2. PricerInv(p) /\ pricer[p].run = priced /\ \A q \in Pricers \ {p} : pricer[q].stage = "idle"
    BY <1>1, AloneIs
  <1>3. /\ pricer[p].persisted = Persisted /\ pricer[p].seen = seen
        /\ pricer[p].state.at = pricer[p].run /\ Tells(pricer[p].state)
        /\ pricer[p].custom.present \/ pricer[p].custom.covers = {}
    BY <1>1, <1>2 DEF PricerInv, LoadedHolds, RunTells, Informed
  <1>4. checkpoint.at <= pricer[p].run
    BY <1>2 DEF PricesInv
  <1> DEFINE known == UNION {pricer[p].persisted[d] : d \in 1 .. PricingDays}
             models == pricer[p].state.models \cup Recovered(p)
             needed == pricer'[p].active \cup (pricer[p].seen \ known)
             again == pricer[p].state.pending \cup
                        (IF Agrees(pricer[p].state.present, pricer[p].custom.present) THEN {}
                         ELSE IF pricer[p].custom.present THEN known \cup needed ELSE models)
  <1>5. /\ PricesTypeOK' /\ pricer'[p].stage = "prepared"
        /\ pricer'[p].run = pricer[p].run /\ pricer'[p].day = priceDay /\ pricer'[p].seen = pricer[p].seen
        /\ pricer'[p].persisted = pricer[p].persisted /\ pricer'[p].custom = pricer[p].custom
        /\ pricer'[p].state.at = pricer[p].run /\ pricer'[p].state.present = pricer[p].state.present
        /\ pricer'[p].state.models = models
        /\ pricer'[p].state.pending = pricer[p].state.pending \cup again
        /\ checkpoint' = pricer'[p].state
        /\ \A q \in Pricers \ {p} : pricer'[q] = pricer[q]
        /\ UNCHANGED <<shop, prices, seen, priced, slips, unsettled>>
    BY <1>1, <1>3, <1>4, PrepareIs
  <1>6. Lingering' = Lingering /\ Persisted' = Persisted
    BY <1>5, LingeringSame DEF Persisted, PricedOn
  <1>7. Lingering \subseteq models
    <2>1. CASE pricer[p].state.present = "unknown" \/ pricer[p].state.pending # {}
      BY <1>1, <1>3, <2>1, RecoveredIs
    <2>2. CASE pricer[p].state.present = "yes" /\ pricer[p].state.pending = {}
      BY <1>3, <2>2 DEF Tells
    <2>3. CASE pricer[p].state.present = "no" /\ pricer[p].state.pending = {}
      BY <1>3, <2>3 DEF Tells
    <2>4. pricer[p].state.present \in Presence
      BY <1>1 DEF PricesTypeOK, Pricer, Checkpoint
    <2> QED
      BY <2>1, <2>2, <2>3, <2>4 DEF Presence
  <1>8. ~pricer[p].custom.present => Lingering \subseteq pricer'[p].state.pending
    <2>1. CASE pricer[p].state.present = "no"
      BY <1>3, <1>5, <2>1 DEF Tells
    <2>2. CASE pricer[p].state.present # "no" /\ ~pricer[p].custom.present
      <3>1. models \subseteq again
        BY <2>2 DEF Agrees
      <3> QED
        BY <1>5, <1>7, <3>1
    <2> QED
      BY <2>1, <2>2
  <1>9. pricer[p].custom.present /\ pricer[p].state.present # "yes" =>
          seen \cup pricer'[p].active \subseteq pricer'[p].state.pending
    <2> SUFFICES ASSUME pricer[p].custom.present, pricer[p].state.present # "yes"
                 PROVE  seen \cup pricer'[p].active \subseteq again
      BY <1>5
    <2>1. known \cup needed \subseteq again
      BY DEF Agrees
    <2>2. seen \cup pricer'[p].active \subseteq known \cup needed
      BY <1>3
    <2> HIDE DEF known, needed, again
    <2> QED
      BY <2>1, <2>2
  <1> HIDE DEF known, models, needed, again
  <1>10. /\ pricer'[p].state.present = "no" => Lingering \subseteq pricer'[p].state.pending
         /\ pricer'[p].state.present = "yes" /\ pricer'[p].state.pending = {} =>
              Lingering \subseteq pricer'[p].state.models
    BY <1>3, <1>5, <1>7 DEF Tells
  <1>11. Tells(checkpoint)' /\ checkpoint'.at <= priced' /\ priced' >= priced
    <2>1. priced \in Nat /\ priced' = priced
      BY <1>1, <1>5, PriceNumbers
    <2> QED
      BY <1>2, <1>5, <1>6, <1>10, <2>1 DEF Tells
  <1>12. LoadedHolds(p)'
    <2>1. priceDay \in Nat /\ priceDay' = priceDay
      BY <1>1, <1>5, PriceNumbers DEF shop
    <2> QED
      BY <1>1, <1>2, <1>3, <1>5, <1>6, <2>1 DEF PricerInv, LoadedHolds, Informed
  <1>13. RunTells(p)'
    BY <1>5, <1>6, <1>7, <1>8, <1>10 DEF RunTells, Planned, Tells
  <1>14. Awaited(p)'
    BY <1>5, <1>9 DEF Awaited
  <1>15. PricerInv(p)'
    BY <1>5, <1>12, <1>13, <1>14 DEF PricerInv, Gets
  <1> QED
    BY <1>2, <1>5, <1>11, <1>15, QuietStep, SMTT(30)

\* A run that has its prices still knows of those that it left out on purpose.
LEMMA FetchPricesStep ==
  ASSUME PricesInv, NEW p \in Pricers, FetchPrices(p)
  PROVE  PricesInv'
  <1>1. PricesTypeOK /\ pricer[p].stage = "prepared"
    BY DEF PricesInv, FetchPrices, PricerAt
  <1>2. PricerInv(p) /\ pricer[p].run = priced /\ \A q \in Pricers \ {p} : pricer[q].stage = "idle"
    BY <1>1, AloneIs
  <1>3. /\ pricer[p].state.at = pricer[p].run /\ Tells(pricer[p].state)
        /\ IF pricer[p].custom.present THEN Lingering \subseteq pricer[p].state.models
           ELSE Lingering \subseteq pricer[p].state.pending
        /\ checkpoint.at <= pricer[p].run
    BY <1>1, <1>2 DEF PricerInv, RunTells, Planned, PricesInv
  <1>4. /\ PricesTypeOK' /\ pricer'[p].stage = "filtered"
        /\ pricer'[p].run = pricer[p].run /\ pricer'[p].day = priceDay
        /\ pricer'[p].seen = pricer[p].seen /\ pricer'[p].active = pricer[p].active
        /\ pricer'[p].persisted = pricer[p].persisted /\ pricer'[p].custom = pricer[p].custom
        /\ \E ignored \in SUBSET Models :
             /\ ignored \cap pricer[p].state.models = {}
             /\ ignored # {} => pricer[p].custom.present
             /\ ignored \cap pricer[p].custom.covers = {}
             /\ pricer'[p].state.pending = pricer[p].state.pending \ ignored
        /\ pricer'[p].state.at = pricer[p].run
        /\ pricer'[p].state.present = pricer[p].state.present
        /\ pricer'[p].state.models = pricer[p].state.models
        /\ \A m \in Models : pricer'[p].got[m] # "none" =>
             pricer'[p].got[m] = IF m \in pricer[p].custom.covers THEN "Custom" ELSE "automatic"
        /\ checkpoint' = pricer'[p].state
        /\ \A q \in Pricers \ {p} : pricer'[q] = pricer[q]
        /\ UNCHANGED <<shop, prices, seen, priced, unsettled>>
    BY <1>1, <1>3, FetchPricesIs
  <1>5. PICK ignored \in SUBSET Models :
          /\ ignored \cap pricer[p].state.models = {}
          /\ ignored # {} => pricer[p].custom.present
          /\ ignored \cap pricer[p].custom.covers = {}
          /\ pricer'[p].state.pending = pricer[p].state.pending \ ignored
    BY <1>4
  <1>6. Lingering' = Lingering /\ Persisted' = Persisted /\ \A d : PricedOn(d)' = PricedOn(d)
    BY <1>4, LingeringSame DEF Persisted, PricedOn
  <1>7. /\ pricer'[p].state.present = "no" => Lingering \subseteq pricer'[p].state.pending
        /\ pricer'[p].state.present = "yes" /\ pricer'[p].state.pending = {} =>
             Lingering \subseteq pricer'[p].state.models
        /\ IF pricer[p].custom.present THEN Lingering \subseteq pricer'[p].state.models
           ELSE Lingering \subseteq pricer'[p].state.pending
    <2>1. CASE pricer[p].custom.present
      BY <1>3, <1>4, <1>5, <2>1 DEF Tells
    <2>2. CASE ~pricer[p].custom.present
      <3>1. pricer'[p].state.pending = pricer[p].state.pending
        BY <1>5, <2>2
      <3> QED
        BY <1>3, <1>4, <2>2, <3>1 DEF Tells
    <2> QED
      BY <2>1, <2>2
  <1>8. Tells(checkpoint)' /\ checkpoint'.at <= priced' /\ priced' >= priced
    <2>1. priced \in Nat /\ priced' = priced
      BY <1>1, <1>4, PriceNumbers
    <2> QED
      BY <1>2, <1>4, <1>6, <1>7, <2>1 DEF Tells
  <1>9. LoadedHolds(p)'
    <2>1. priceDay \in Nat /\ priceDay' = priceDay
      BY <1>1, <1>4, PriceNumbers DEF shop
    <2> QED
      BY <1>1, <1>2, <1>4, <1>6, <2>1 DEF PricerInv, LoadedHolds, Informed
  <1>10. RunTells(p)'
    BY <1>4, <1>6, <1>7 DEF RunTells, Planned, Tells
  <1>11. Awaited(p)'
    <2> SUFFICES ASSUME pricer[p].custom.present, pricer[p].state.present # "yes"
                 PROVE  (seen \cup pricer[p].active) \cap pricer[p].custom.covers
                          \subseteq pricer'[p].state.pending
      BY <1>4 DEF Awaited
    <2>1. seen \cup pricer[p].active \subseteq pricer[p].state.pending
      BY <1>1, <1>2 DEF PricerInv, Awaited
    <2> QED
      BY <1>5, <2>1
  <1>12. Gets(p)'
    <2>1. \A m \in Observed(p)' :
            pricer'[p].got[m] = IF m \in pricer'[p].custom.covers THEN "Custom" ELSE "automatic"
      BY <1>4 DEF Observed
    <2>2. \A d \in 1 .. PricingDays : PricedOn(d)' # {} => d <= pricer'[p].day
      BY <1>4, <1>6 DEF PricesInv
    <2> QED
      BY <1>4, <2>1, <2>2 DEF Gets
  <1> QED
    BY <1>2, <1>4, <1>8, <1>9, <1>10, <1>11, <1>12, QuietStep DEF PricerInv

\* What a run publishes is what the models go by, and what was custom is remembered to be.
LEMMA PublishPricesStep ==
  ASSUME PricesInv, NEW p \in Pricers, PublishPrices(p)
  PROVE  PricesInv'
  <1>1. PricesTypeOK /\ pricer[p].stage = "filtered"
    BY DEF PricesInv, PublishPrices, PricerAt
  <1>2. PricerInv(p) /\ pricer[p].run = priced /\ \A q \in Pricers \ {p} : pricer[q].stage = "idle"
    BY <1>1, AloneIs
  <1>3. /\ pricer[p].state.at = pricer[p].run /\ Tells(pricer[p].state)
        /\ IF pricer[p].custom.present THEN Lingering \subseteq pricer[p].state.models
           ELSE Lingering \subseteq pricer[p].state.pending
        /\ checkpoint \in {pricer[p].state, NoCheckpoint}
        /\ pricer[p].custom.present \/ pricer[p].custom.covers = {}
        /\ \A d \in 1 .. PricingDays, m \in Models : prices[d][m].run < priced
        /\ \A d \in 1 .. PricingDays : PricedOn(d) # {} => d <= pricer[p].day
        /\ \A m \in Observed(p) :
             pricer[p].got[m] = IF m \in pricer[p].custom.covers THEN "Custom" ELSE "automatic"
        /\ pricer[p].day <= priceDay
    BY <1>1, <1>2 DEF PricerInv, LoadedHolds, RunTells, Planned, Gets
  <1>4. /\ PricesTypeOK' /\ pricer'[p].stage = "published"
        /\ pricer'[p].run = pricer[p].run /\ pricer'[p].day = pricer[p].day
        /\ pricer'[p].custom = pricer[p].custom /\ pricer'[p].state = pricer[p].state
        /\ pricer'[p].got = pricer[p].got /\ pricer'[p].active = pricer[p].active
        /\ seen' = seen \cup pricer[p].active
        /\ unsettled' = unsettled \cup ObservedCustom(p)
        /\ \A d \in 1 .. PricingDays, m \in Models :
             prices'[d][m] = IF d = pricer[p].day /\ m \in Observed(p)
                               THEN [source |-> pricer[p].got[m], run |-> pricer[p].run]
                               ELSE prices[d][m]
        /\ \A q \in Pricers \ {p} : pricer'[q] = pricer[q]
        /\ UNCHANGED <<shop, checkpoint, priced, slips>>
    BY <1>1, <1>2, <1>3, PublishPricesIs
  <1>5. /\ pricer[p].day \in 1 .. PricingDays /\ priced \in Nat
        /\ Observed(p) \subseteq Models /\ Observed(p)' = Observed(p)
        /\ priceDay' = priceDay /\ custom' = custom /\ priced' = priced
        /\ checkpoint' = checkpoint
    <2>1. pricer[p] \in Pricer /\ priced \in Nat
      BY <1>1, PriceNumbers
    <2> QED
      BY <1>4, <2>1 DEF Pricer, Observed, shop
  <1>6. ASSUME NEW m \in Observed(p) PROVE GoesBy(m)' = pricer[p].got[m]
    <2>1. prices'[pricer[p].day][m].source = pricer[p].got[m] /\ pricer[p].got[m] # "none"
      <3>1. m \in Models /\ pricer[p].got[m] # "none"
        BY DEF Observed
      <3>2. prices'[pricer[p].day][m] = [source |-> pricer[p].got[m], run |-> pricer[p].run]
        BY <1>4, <1>5, <3>1
      <3> QED
        BY <3>1, <3>2
    <2>2. \A e \in 1 .. PricingDays : prices'[e][m].source # "none" => e <= pricer[p].day
      <3> SUFFICES ASSUME NEW e \in 1 .. PricingDays, prices'[e][m].source # "none", e # pricer[p].day
                   PROVE  e <= pricer[p].day
        BY <1>5
      <3>1. prices[e][m].source # "none"
        BY <1>4, <1>5
      <3> QED
        BY <1>3, <1>5, <3>1 DEF PricedOn
    <2> DEFINE days == {e \in 1 .. PricingDays : prices'[e][m].source # "none"}
    <2>3. days # {} /\ days \in SUBSET (1 .. PricingDays) /\ pricer[p].day \in days
      BY <1>5, <2>1
    <2>4. Max(days) \in days /\ pricer[p].day <= Max(days) /\ Max(days) <= pricer[p].day
      BY <2>2, <2>3, LatestOfDays
    <2>5. Max(days) = pricer[p].day
      BY <1>5, <2>3, <2>4, PricingAssumption
    <2> QED
      BY <2>1, <2>3, <2>5 DEF GoesBy
  <1>7. ASSUME NEW m \in Models \ Observed(p) PROVE GoesBy(m)' = GoesBy(m)
    BY <1>4, <1>7, GoesBySame
  <1>8. Lingering' \subseteq Lingering \ Observed(p)
    <2> SUFFICES ASSUME NEW m \in Lingering' PROVE m \in Lingering \ Observed(p)
      OBVIOUS
    <2>1. m \in Models /\ m \notin unsettled /\ m \notin ObservedCustom(p) /\ GoesBy(m)' = "Custom"
      BY <1>4 DEF Lingering
    <2>2. m \notin Observed(p)
      BY <1>6, <2>1 DEF ObservedCustom
    <2> QED
      BY <1>7, <2>1, <2>2 DEF Lingering
  <1>9. Tells(checkpoint)' /\ checkpoint'.at <= priced'
    BY <1>5, <1>8 DEF PricesInv, Tells
  <1>10. LoadedHolds(p)'
    BY <1>2, <1>3, <1>4, <1>5 DEF LoadedHolds, Informed
  <1>11. RunTells(p)'
    BY <1>3, <1>4, <1>5, <1>8 DEF RunTells, Planned, Tells
  <1>12. Awaited(p)'
    BY <1>1, <1>2, <1>4 DEF PricerInv, Awaited
  <1>13. Gets(p)'
    BY <1>3, <1>4, <1>5, <1>6, <1>8 DEF Gets
  <1>14. \A q \in Pricers \ {p} : PricerInv(q)'
    <2> SUFFICES ASSUME NEW q \in Pricers \ {p} PROVE PricerInv(q)'
      OBVIOUS
    <2>1. /\ pricer'[q].stage = "idle" /\ pricer'[q].day <= priceDay'
          /\ pricer'[q].custom.present \/ pricer'[q].custom.covers = {}
      BY <1>2, <1>4, <1>5 DEF PricesInv, PricerInv, LoadedHolds
    <2> QED
      BY <2>1 DEF PricerInv, LoadedHolds, RunTells, Awaited, Gets, Planned, Informed
  <1>15. \A d \in 1 .. PricingDays, m \in Models : prices'[d][m].run <= priced'
    <2> SUFFICES ASSUME NEW d \in 1 .. PricingDays, NEW m \in Models PROVE prices'[d][m].run <= priced
      BY <1>5
    <2>1. CASE d = pricer[p].day /\ m \in Observed(p)
      <3>1. prices'[d][m] = [source |-> pricer[p].got[m], run |-> pricer[p].run]
        BY <1>4, <2>1
      <3> QED
        BY <1>2, <1>5, <3>1
    <2>2. CASE ~(d = pricer[p].day /\ m \in Observed(p))
      <3>1. prices'[d][m] = prices[d][m]
        BY <1>4, <2>2
      <3> QED
        BY <3>1 DEF PricesInv
    <2> QED
      BY <2>1, <2>2
  <1>16. \A d \in 1 .. PricingDays : PricedOn(d)' # {} => d <= priceDay'
    <2> SUFFICES ASSUME NEW d \in 1 .. PricingDays, NEW m \in Models, prices'[d][m].source # "none"
                 PROVE  d <= priceDay
      BY <1>5 DEF PricedOn
    <2>1. CASE d = pricer[p].day
      BY <1>3, <2>1
    <2>2. CASE d # pricer[p].day
      BY <1>4, <2>2 DEF PricesInv, PricedOn
    <2> QED
      BY <2>1, <2>2
  <1>17. \A q, r \in Pricers : ~PricerAt(q, "idle")' /\ ~PricerAt(r, "idle")' => q = r
    BY <1>2, <1>4 DEF PricerAt
  <1> QED
    BY <1>4, <1>5, <1>9, <1>10, <1>11, <1>12, <1>13, <1>14, <1>15, <1>16, <1>17
       DEF PricesInv, PricerInv

\* What a run acknowledges is what the prices answer to.
LEMMA AcknowledgeStep ==
  ASSUME PricesInv, NEW p \in Pricers, Acknowledge(p)
  PROVE  /\ PricesInv'
         /\ pricer[p].state.present # "yes" /\ checkpoint'.present = "yes" =>
              \A m \in seen \cap pricer[p].custom.covers : GoesBy(m) = "Custom"
  <1>1. PricesTypeOK /\ pricer[p].stage = "published"
    BY DEF PricesInv, Acknowledge, PricerAt
  <1>2. PricerInv(p) /\ pricer[p].run = priced /\ \A q \in Pricers \ {p} : pricer[q].stage = "idle"
    BY <1>1, AloneIs
  <1>3. /\ pricer[p].state.at = pricer[p].run /\ Tells(pricer[p].state)
        /\ IF pricer[p].custom.present THEN Lingering \subseteq pricer[p].state.models
           ELSE Lingering \subseteq pricer[p].state.pending
        /\ \A m \in Observed(p) :
             /\ pricer[p].got[m] = IF m \in pricer[p].custom.covers THEN "Custom" ELSE "automatic"
             /\ GoesBy(m) = pricer[p].got[m] /\ m \notin Lingering
        /\ checkpoint.at <= pricer[p].run
    BY <1>1, <1>2 DEF PricerInv, RunTells, Planned, Gets, PricesInv
  <1> DEFINE left == pricer[p].state.pending \ Observed(p)
             models == pricer[p].state.models \cup ObservedCustom(p)
  <1>4. /\ PricesTypeOK' /\ pricer'[p] = NoPricer
        /\ checkpoint'.at = pricer[p].run /\ checkpoint'.pending = left
        /\ left # {} => checkpoint'.models = models /\ checkpoint'.present = pricer[p].state.present
        /\ left = {} => IF pricer[p].custom.present
                          THEN checkpoint'.models = models /\ checkpoint'.present = "yes"
                          ELSE checkpoint'.present = "no"
        /\ unsettled' = IF checkpoint'.present = "yes" THEN unsettled \ checkpoint'.models
                                                       ELSE unsettled
        /\ \A q \in Pricers \ {p} : pricer'[q] = pricer[q]
        /\ UNCHANGED <<shop, prices, seen, priced, slips>>
    BY <1>1, <1>3, AcknowledgeIs
  <1>5. /\ priceDay' = priceDay /\ custom' = custom /\ priced' = priced /\ prices' = prices
        /\ priced \in Nat /\ priceDay \in Nat /\ priceDay >= 1
    BY <1>1, <1>4, PriceNumbers DEF shop, PricesTypeOK
  <1>6. \A m : GoesBy(m)' = GoesBy(m)
    BY <1>5 DEF GoesBy
  <1>7. Lingering \cap Observed(p) = {}
    BY <1>3
  <1> HIDE DEF models
  <1>8. Tells(checkpoint)'
    <2>1. ASSUME checkpoint'.present = "no" PROVE Lingering' \subseteq checkpoint'.pending
      <3>1. Lingering' = Lingering
        BY <1>4, <1>6, <2>1 DEF Lingering
      <3>2. CASE left = {}
        <4>1. ~pricer[p].custom.present
          BY <1>4, <2>1, <3>2
        <4> QED
          BY <1>3, <1>4, <1>7, <3>1, <4>1
      <3>3. CASE left # {}
        <4>1. pricer[p].state.present = "no"
          BY <1>4, <2>1, <3>3
        <4>2. Lingering \subseteq pricer[p].state.pending
          BY <1>3, <4>1 DEF Tells
        <4> QED
          BY <1>4, <1>7, <3>1, <4>2
      <3> QED
        BY <3>2, <3>3
    <2>2. ASSUME checkpoint'.present = "yes", checkpoint'.pending = {}
          PROVE  Lingering' \subseteq checkpoint'.models
      <3>1. left = {} /\ pricer[p].custom.present /\ checkpoint'.models = models
        BY <1>4, <2>2
      <3>2. Lingering \subseteq models
        BY <1>3, <3>1 DEF models
      <3>3. Lingering' \subseteq Lingering \cup checkpoint'.models
        BY <1>4, <1>6, <2>2 DEF Lingering
      <3> QED
        BY <3>1, <3>2, <3>3
    <2> QED
      BY <2>1, <2>2 DEF Tells
  <1>9. ASSUME pricer[p].state.present # "yes", checkpoint'.present = "yes",
               NEW m \in seen \cap pricer[p].custom.covers
        PROVE  GoesBy(m) = "Custom"
    <2>1. left = {} /\ pricer[p].custom.present
      BY <1>4, <1>9
    <2>2. m \in pricer[p].state.pending
      BY <1>1, <1>2, <1>9, <2>1 DEF PricerInv, Awaited
    <2>3. m \in Observed(p)
      BY <2>1, <2>2
    <2> QED
      BY <1>3, <2>3
  <1>10. ASSUME NEW q \in Pricers PROVE PricerInv(q)'
    <2>1. /\ pricer'[q].stage = "idle" /\ pricer'[q].day <= priceDay'
          /\ pricer'[q].custom.present \/ pricer'[q].custom.covers = {}
      <3>1. CASE q = p
        BY <1>4, <1>5, <3>1, NothingIs
      <3>2. CASE q # p
        BY <1>2, <1>4, <1>5, <3>2 DEF PricesInv, PricerInv, LoadedHolds
      <3> QED
        BY <3>1, <3>2
    <2> QED
      BY <2>1 DEF PricerInv, LoadedHolds, RunTells, Awaited, Gets, Planned, Informed
  <1>11. \A q, r \in Pricers : ~PricerAt(q, "idle")' /\ ~PricerAt(r, "idle")' => q = r
    BY <1>2, <1>4, NothingIs DEF PricerAt
  <1>12. checkpoint'.at <= priced'
    BY <1>2, <1>4, <1>5
  <1>13. PricesInv'
    BY <1>4, <1>5, <1>8, <1>10, <1>11, <1>12 DEF PricesInv, PricedOn
  <1> QED
    BY <1>9, <1>13

\* A run that ends early leaves what it wrote.
LEMMA GiveUpStep ==
  ASSUME PricesInv, NEW p \in Pricers, GiveUp(p)
  PROVE  PricesInv' /\ (checkpoint'.present = "yes" /\ pricer[p].stage = "published" =>
                          pricer[p].state.present = "yes")
  <1>1. PricesTypeOK /\ pricer[p].stage # "idle"
    BY DEF PricesInv, GiveUp, PricerAt
  <1>2. PricerInv(p) /\ \A q \in Pricers \ {p} : pricer[q].stage = "idle"
    BY <1>1, AloneIs
  <1>3. /\ pricer' \in [Pricers -> Pricer] /\ pricer'[p] = NoPricer
        /\ \A q \in Pricers \ {p} : pricer'[q] = pricer[q]
        /\ UNCHANGED <<shop, prices, seen, checkpoint, priced, unsettled>>
    BY <1>1, NothingIs, PricerChanges DEF GiveUp
  <1>4. PricesTypeOK'
    BY <1>1, <1>3 DEF PricesTypeOK, shop
  <1>5. Lingering' = Lingering
    BY <1>3, LingeringSame
  <1>6. Tells(checkpoint)' /\ checkpoint'.at <= priced' /\ priced' >= priced
    BY <1>1, <1>3, <1>5, PriceNumbers DEF PricesInv, Tells
  <1>7. priceDay' \in Nat /\ priceDay' >= 1
    BY <1>4 DEF PricesTypeOK
  <1>8. PricerInv(p)'
    BY <1>3, <1>7, NothingIs DEF PricerInv, LoadedHolds, RunTells, Awaited, Gets, Planned, Informed
  <1>9. PricesInv'
    BY <1>2, <1>3, <1>4, <1>6, <1>8, QuietStep
  <1>10. checkpoint'.present = "yes" /\ pricer[p].stage = "published" => pricer[p].state.present = "yes"
    BY <1>2, <1>3, NothingIs DEF PricerInv, RunTells, Planned
  <1> QED
    BY <1>9, <1>10

\* Nothing is known of the prices at the beginning.
LEMMA PricesBegin == PricesInit => PricesInv
  <1> SUFFICES ASSUME PricesInit PROVE PricesInv
    OBVIOUS
  <1>1. /\ priceDay = 1 /\ custom.present = FALSE /\ custom.covers = {} /\ custom \in Custom
        /\ prices = [d \in 1 .. PricingDays |-> Unpriced]
        /\ seen = {} /\ checkpoint = NoCheckpoint
        /\ pricer = [p \in Pricers |-> NoPricer] /\ priced = 0 /\ unsettled = {}
    BY DEF PricesInit, Custom
  <1>2. /\ PricingDays \in Nat \ {0} /\ PricingRuns \in Nat
        /\ \A d \in 1 .. PricingDays, m \in Models :
             prices[d][m].source = "none" /\ prices[d][m].run = 0
        /\ Unpriced \in [Models -> Price]
    BY <1>1, PricingAssumption DEF Unpriced, Price, Source
  <1>3. PricesTypeOK
    <2>1. priceDay \in 1 .. PricingDays /\ priced \in 0 .. PricingRuns
      BY <1>1, <1>2
    <2>2. prices \in [1 .. PricingDays -> [Models -> Price]] /\ pricer \in [Pricers -> Pricer]
      BY <1>1, <1>2, NothingIs
    <2> QED
      BY <1>1, <2>1, <2>2, NothingIs DEF PricesTypeOK
  <1>4. \A p \in Pricers : PricerInv(p)
    BY <1>1, NothingIs, IdleHolds
  <1>5. \A d \in 1 .. PricingDays : PricedOn(d) = {}
    BY <1>2 DEF PricedOn
  <1>6. Tells(checkpoint)
    BY <1>1, NothingIs DEF Tells
  <1>7. \A p \in Pricers : PricerAt(p, "idle")
    BY <1>1, NothingIs DEF PricerAt
  <1> QED
    BY <1>1, <1>2, <1>3, <1>4, <1>5, <1>6, <1>7, NothingIs DEF PricesInv

\* The action property, of one step.
Appears(p) ==
  pricer[p].stage = "published" /\ pricer'[p].stage = "idle"
    /\ pricer[p].state.present # "yes" /\ checkpoint'.present = "yes"
  => \A m \in seen \cap pricer[p].custom.covers : GoesBy(m) = "Custom"

\* The invariant is kept, and prices appear as custom pricing says, where runs exclude one
\* another.
LEMMA PricesStep ==
  ASSUME InTurn, PricesInv, PricesNext
  PROVE  PricesInv' /\ \A p \in Pricers : Appears(p)
  <1>1. CASE Edit \/ NextDay \/ LoseCheckpoint
    <2>1. pricer' = pricer
      BY <1>1 DEF Edit, NextDay, LoseCheckpoint
    <2> QED
      BY <1>1, <2>1, WorldStep DEF Appears
  <1>2. ASSUME NEW p \in Pricers,
               \/ StartPricing(p) \/ Load(p) \/ OpenProfile(p) \/ Prepare(p) \/ FetchPrices(p)
               \/ PublishPrices(p) \/ Acknowledge(p) \/ GiveUp(p)
        PROVE  PricesInv' /\ \A q \in Pricers : Appears(q)
    <2>1. PricesTypeOK
      BY DEF PricesInv
    <2>2. ASSUME NEW q \in Pricers, q # p PROVE Appears(q)
      <3>1. pricer'[q] = pricer[q]
        BY <1>2, <2>1, <2>2 DEF PricesTypeOK, StartPricing, Load, OpenProfile, Prepare, FetchPrices,
                                PublishPrices, Acknowledge, GiveUp
      <3> QED
        BY <3>1, SMTT(30) DEF Appears
    <2>3. CASE Acknowledge(p)
      BY <2>2, <2>3, AcknowledgeStep DEF Appears
    <2>4. CASE GiveUp(p)
      BY <2>2, <2>4, GiveUpStep DEF Appears
    <2>5. CASE ~Acknowledge(p) /\ ~GiveUp(p)
      <3>1. PricesInv'
        BY <1>2, <2>5, StartPricingStep, LoadStep, OpenProfileStep, PrepareStep, FetchPricesStep,
           PublishPricesStep, SMTT(30)
      <3>2. pricer[p].stage # "published"
        BY <1>2, <2>5 DEF StartPricing, Load, OpenProfile, Prepare, FetchPrices, PublishPrices, PricerAt
      <3> QED
        BY <2>2, <3>1, <3>2 DEF Appears
    <2> QED
      BY <2>3, <2>4, <2>5
  <1> QED
    BY <1>1, <1>2 DEF PricesNext

\* The invariant is about the state alone.
LEMMA PricesStutter ==
  ASSUME PricesInv, UNCHANGED pvars
  PROVE  PricesInv' /\ \A p \in Pricers : Appears(p)
  <1>1. UNCHANGED <<priceDay, custom, prices, seen, checkpoint, pricer, priced, unsettled>>
    BY DEF pvars, shop
  <1>2. Lingering' = Lingering /\ Persisted' = Persisted /\ \A d : PricedOn(d)' = PricedOn(d)
    BY <1>1, LingeringSame DEF Persisted, PricedOn
  <1>3. \A m : GoesBy(m)' = GoesBy(m)
    BY <1>1, LingeringSame
  <1>4. Tells(checkpoint)' /\ PricesTypeOK'
    BY <1>1, <1>2 DEF PricesInv, Tells, PricesTypeOK
  <1>5. ASSUME NEW p \in Pricers PROVE PricerInv(p)'
    <2>1. PricerInv(p)
      BY DEF PricesInv
    <2>2. LoadedHolds(p)' /\ Awaited(p)'
      BY <1>1, <1>2, <2>1 DEF PricerInv, LoadedHolds, Informed, Awaited
    <2>3. RunTells(p)' /\ Gets(p)'
      BY <1>1, <1>2, <1>3, <2>1 DEF PricerInv, RunTells, Planned, Tells, Gets, Observed
    <2> QED
      BY <2>2, <2>3 DEF PricerInv
  <1>6. \A p \in Pricers : Appears(p)
    BY <1>1 DEF Appears
  <1> QED
    BY <1>1, <1>2, <1>4, <1>5, <1>6 DEF PricesInv, PricerAt

\* Where runs exclude one another, as the lock of DuckDB makes them, prices follow
\* custom-pricing.json, when it goes away and when it appears, whatever fails, is lost or is
\* edited between two steps of a run (collector.py TokscaleProfile, orchestrator.py).
THEOREM PricesFollowCustom ==
  ASSUME InTurn
  PROVE  PricesSpec => PricesFollow
  <1>1. PricesInv /\ [PricesNext]_pvars
          => /\ PricesInv'
             /\ [\A p \in Pricers :
                   /\ pricer[p].stage = "published" /\ pricer'[p].stage = "idle"
                   /\ pricer[p].state.present # "yes" /\ checkpoint'.present = "yes"
                 => \A m \in seen \cap pricer[p].custom.covers : GoesBy(m) = "Custom"]_pvars
    BY PricesStep, PricesStutter DEF Appears
  <1>2. PricesInv => RemovalSettles
    <2> SUFFICES ASSUME PricesInv, checkpoint.present = "no", checkpoint.pending = {}
                 PROVE  Lingering = {}
      BY DEF RemovalSettles, Settled, Lingering
    <2> QED
      BY DEF PricesInv, Tells
  <1> QED
    BY <1>1, <1>2, PricesBegin, PTL DEF PricesSpec, PricesFollow, AppearanceSettles

-----------------------------------------------------------------------------
(* Destinations: what rotation retires is what is not to be retained.       *)

CopyType == [id : Nat, captured : Nat, roles : SUBSET Roles, week : Nat, pinned : BOOLEAN]

\* The copies that rotation counts, those of weeks, and what follows a place on the shelf.
Others(s) == {i \in DOMAIN s : ~s[i].pinned}
Counting(s) == {i \in Others(s) : Counts(s[i])}
Weeklies(s) == {i \in Others(s) : "weekly" \in s[i].roles}
CountingFrom(s, n) == {i \in Counting(s) : n <= i}
WeeksFrom(s, n) == {s[i].week : i \in {j \in Weeklies(s) : n <= j}}

\* Why a copy is kept.
ByCount(s, i) == Counts(s[i]) /\ Cardinality(CountingFrom(s, i + 1)) < MaxSnapshots
ByWeek(s, i) ==
  /\ "weekly" \in s[i].roles /\ s[i].week \notin WeeksFrom(s, i + 1)
  /\ Cardinality(WeeksFrom(s, i + 1)) < WeeklySlots
Kept(s) == {i \in DOMAIN s : s[i].pinned \/ ByCount(s, i) \/ ByWeek(s, i)}

\* A shelf is finite.
LEMMA ShelfIsFinite ==
  ASSUME NEW s \in Seq(CopyType), NEW n
  PROVE  /\ DOMAIN s = 1 .. Len(s) /\ Len(s) \in Nat
         /\ IsFiniteSet(CountingFrom(s, n)) /\ Cardinality(CountingFrom(s, n)) \in Nat
         /\ IsFiniteSet(WeeksFrom(s, n)) /\ Cardinality(WeeksFrom(s, n)) \in Nat
  <1>1. DOMAIN s = 1 .. Len(s) /\ Len(s) \in Nat
    OBVIOUS
  <1>2. IsFiniteSet(1 .. Len(s))
    BY <1>1, FS_Interval
  <1> DEFINE T == {j \in Weeklies(s) : n <= j}
  <1>3. CountingFrom(s, n) \subseteq 1 .. Len(s) /\ T \subseteq 1 .. Len(s)
    BY <1>1 DEF CountingFrom, Counting, Weeklies, Others
  <1>4. IsFiniteSet(CountingFrom(s, n)) /\ IsFiniteSet(T)
    BY <1>2, <1>3, FS_Subset
  <1> DEFINE f == [i \in T |-> s[i].week]
  <1>5. f \in Surjection(T, WeeksFrom(s, n))
    BY DEF Surjection, WeeksFrom
  <1> HIDE DEF T, f
  <1>6. IsFiniteSet(WeeksFrom(s, n))
    BY <1>4, <1>5, FS_Surjection
  <1> QED
    BY <1>1, <1>4, <1>6, FS_CardinalityType

\* The newest of some copies is one of them.
LEMMA NewestOf ==
  ASSUME NEW s \in Seq(CopyType), NEW T \in SUBSET (DOMAIN s), T # {}
  PROVE  Max(T) \in T /\ \A i \in T : i <= Max(T)
  <1>1. T \subseteq 1 .. Len(s) /\ Len(s) \in Nat
    OBVIOUS
  <1>2. IsFiniteSet(1 .. Len(s))
    BY <1>1, FS_Interval
  <1>3. IsFiniteSet(T) /\ T \in SUBSET Nat
    BY <1>1, <1>2, FS_Subset
  <1>4. \E m \in T : \A n \in T : n <= m
    BY <1>3, FiniteGreatest
  <1>5. \E m \in T : \A n \in T : m >= n
    BY <1>1, <1>4
  <1>6. Max(T) \in T /\ \A n \in T : Max(T) >= n
    BY <1>5 DEF Max
  <1> QED
    BY <1>1, <1>6

\* What is to be retained, copy by copy.
LEMMA RetainedIsKept ==
  ASSUME NEW s \in Seq(CopyType)
  PROVE  Retained(s) = Kept(s)
  <1> DEFINE OfWeek(w) == {i \in Others(s) : "weekly" \in s[i].roles /\ s[i].week = w}
             weeks == {s[i].week : i \in Weeklies(s)}
             newer(w) == {v \in weeks : Max(OfWeek(v)) > Max(OfWeek(w))}
             few(i) == Cardinality({j \in Counting(s) : j > i}) < MaxSnapshots
             newestOnes == {Max(OfWeek(w)) : w \in {v \in weeks : Cardinality(newer(v)) < WeeklySlots}}
  <1>1. Retained(s) = (DOMAIN s \ Others(s)) \cup {i \in Counting(s) : few(i)} \cup newestOnes
    BY DEF Retained, Others, Counting, Weeklies
  <1>2. DOMAIN s = 1 .. Len(s) /\ Len(s) \in Nat
    OBVIOUS
  <1>3. ASSUME NEW w \in weeks
        PROVE  /\ Max(OfWeek(w)) \in OfWeek(w) /\ \A i \in OfWeek(w) : i <= Max(OfWeek(w))
               /\ OfWeek(w) \subseteq Weeklies(s)
    <2>1. OfWeek(w) \subseteq DOMAIN s /\ OfWeek(w) # {} /\ OfWeek(w) \subseteq Weeklies(s)
      BY DEF Others, Weeklies
    <2> QED
      BY <2>1, NewestOf
  <1>4. \A i \in Weeklies(s) : s[i].week \in weeks /\ i \in OfWeek(s[i].week) /\ i \in 1 .. Len(s)
    BY <1>2 DEF Weeklies, Others
  <1>5. ASSUME NEW i \in DOMAIN s
        PROVE  {j \in Counting(s) : j > i} = CountingFrom(s, i + 1)
    BY <1>2 DEF CountingFrom, Counting, Others
  <1>6. ASSUME NEW w \in weeks PROVE newer(w) = WeeksFrom(s, Max(OfWeek(w)) + 1)
    <2> DEFINE m == Max(OfWeek(w))
    <2>1. m \in 1 .. Len(s)
      BY <1>2, <1>3 DEF Weeklies, Others
    <2>2. ASSUME NEW v \in newer(w) PROVE v \in WeeksFrom(s, m + 1)
      <3>1. v \in weeks /\ Max(OfWeek(v)) > m
        OBVIOUS
      <3>2. PICK i : i = Max(OfWeek(v))
        OBVIOUS
      <3>3. i \in OfWeek(v) /\ i \in Weeklies(s)
        BY <1>3, <3>1, <3>2
      <3>4. s[i].week = v /\ i \in 1 .. Len(s)
        BY <1>4, <3>3
      <3>5. m + 1 <= i
        BY <1>2, <2>1, <3>1, <3>2, <3>4
      <3> QED
        BY <3>3, <3>4, <3>5 DEF WeeksFrom
    <2>3. ASSUME NEW v \in WeeksFrom(s, m + 1) PROVE v \in newer(w)
      <3>1. PICK i \in Weeklies(s) : m + 1 <= i /\ s[i].week = v
        BY DEF WeeksFrom
      <3>2. v \in weeks /\ i \in OfWeek(v) /\ i \in 1 .. Len(s)
        BY <1>4, <3>1
      <3>3. PICK n : n = Max(OfWeek(v))
        OBVIOUS
      <3>4. i <= n /\ n \in 1 .. Len(s)
        BY <1>3, <1>4, <3>2, <3>3
      <3>5. n > m
        <4>1. m \in Nat /\ n \in Nat /\ i \in Nat /\ m + 1 <= i /\ i <= n
          BY <1>2, <2>1, <3>1, <3>2, <3>4
        <4> HIDE DEF m
        <4> QED
          BY <4>1
      <3> QED
        BY <3>2, <3>3, <3>5
    <2> QED
      BY <2>2, <2>3
  <1>7. ASSUME NEW i \in Others(s) PROVE i \in newestOnes <=> ByWeek(s, i)
    <2>1. i \in 1 .. Len(s)
      BY <1>2 DEF Others
    <2>2. ASSUME i \in newestOnes PROVE ByWeek(s, i)
      <3>1. PICK w \in weeks : i = Max(OfWeek(w)) /\ Cardinality(newer(w)) < WeeklySlots
        BY <2>2
      <3>2. i \in OfWeek(w) /\ \A j \in OfWeek(w) : j <= i
        BY <1>3, <3>1
      <3>3. Cardinality(WeeksFrom(s, i + 1)) < WeeklySlots
        BY <1>6, <3>1
      <3>4. ASSUME w \in WeeksFrom(s, i + 1) PROVE FALSE
        <4>1. PICK j \in Weeklies(s) : i + 1 <= j /\ s[j].week = w
          BY <3>4 DEF WeeksFrom
        <4>2. j \in OfWeek(w) /\ j \in 1 .. Len(s)
          BY <1>4, <4>1
        <4> QED
          BY <1>2, <2>1, <3>2, <4>1, <4>2
      <3> QED
        BY <3>2, <3>3, <3>4 DEF ByWeek
    <2>3. ASSUME ByWeek(s, i) PROVE i \in newestOnes
      <3>1. PICK w : w = s[i].week
        OBVIOUS
      <3>2. i \in Weeklies(s) /\ w \in weeks /\ i \in OfWeek(w)
        BY <1>4, <2>3, <3>1 DEF ByWeek, Weeklies
      <3>3. PICK m : m = Max(OfWeek(w))
        OBVIOUS
      <3>4. m \in OfWeek(w) /\ i <= m /\ m \in Weeklies(s)
        BY <1>3, <3>2, <3>3
      <3>5. m \in 1 .. Len(s) /\ s[m].week = w
        BY <1>4, <3>4
      <3>6. ~(i + 1 <= m)
        BY <2>3, <3>1, <3>4, <3>5 DEF ByWeek, WeeksFrom
      <3>7. i = m
        BY <1>2, <2>1, <3>4, <3>5, <3>6
      <3>8. newer(w) = WeeksFrom(s, i + 1)
        BY <1>6, <3>2, <3>3, <3>7
      <3>9. Cardinality(newer(w)) < WeeklySlots
        BY <2>3, <3>8 DEF ByWeek
      <3> QED
        BY <3>2, <3>3, <3>7, <3>9
    <2> QED
      BY <2>2, <2>3
  <1>8. ASSUME NEW i \in newestOnes PROVE i \in Others(s)
    BY <1>3 DEF Weeklies
  <1>9. ASSUME NEW i \in Others(s) PROVE i \in {j \in Counting(s) : few(j)} <=> ByCount(s, i)
    <2>1. i \in DOMAIN s
      BY DEF Others
    <2>2. few(i) <=> Cardinality(CountingFrom(s, i + 1)) < MaxSnapshots
      BY <1>5, <2>1
    <2> QED
      BY <2>2 DEF ByCount, Counting
  <1> HIDE DEF OfWeek, weeks, newer, few, newestOnes
  <1>10. Others(s) \subseteq DOMAIN s /\ \A i \in DOMAIN s : i \in Others(s) <=> ~s[i].pinned
    BY DEF Others
  <1>11. ASSUME NEW i PROVE i \in Retained(s) <=> i \in Kept(s)
    <2>1. CASE i \in Others(s)
      BY <1>1, <1>7, <1>9, <1>10, <2>1 DEF Kept
    <2>2. CASE i \notin Others(s)
      <3>1. i \notin newestOnes /\ i \notin {j \in Counting(s) : few(j)}
        BY <1>8, <2>2 DEF Counting
      <3> QED
        BY <1>1, <1>10, <2>2, <3>1 DEF Kept
    <2> QED
      BY <2>1, <2>2
  <1> QED
    BY <1>11

\* The loop over the entries, from the newest: there is one function that follows it.
LoopOf(s, f, n) ==
  f = [i \in n .. (Len(s) + 1) |-> IF i > Len(s) THEN LoopStart ELSE Visit(f[i + 1], s[i])]

\* The loop's function is what its definition says, entry by entry.
LEMMA LoopExists ==
  ASSUME NEW s \in Seq(CopyType)
  PROVE  \E f : LoopOf(s, f, 1) /\ ToRetire(s) = f[1].retires
  <1> DEFINE N == Len(s)
             Follows(k) == \E f : LoopOf(s, f, N + 1 - k)
             all == CHOOSE f : f = [i \in 1 .. (N + 1) |->
                                IF i > N THEN LoopStart ELSE Visit(f[i + 1], s[i])]
             S == {k \in 0 .. N : ~Follows(k)}
  <1>1. N \in Nat
    OBVIOUS
  <1>2. ToRetire(s) = all[1].retires
    BY DEF ToRetire
  <1>3. Follows(0)
    <2> DEFINE g == [i \in (N + 1) .. (N + 1) |-> LoopStart]
    <2>1. \A i \in (N + 1) .. (N + 1) : i > N
      BY <1>1
    <2>2. LoopOf(s, g, N + 1)
      BY <2>1 DEF LoopOf
    <2> QED
      BY <1>1, <2>2
  <1>4. ASSUME NEW k \in Nat, k < N, Follows(k) PROVE Follows(k + 1)
    <2> DEFINE n == N - k
    <2>1. n \in 1 .. N /\ n + 1 = N + 1 - k /\ n = N + 1 - (k + 1)
      BY <1>1, <1>4
    <2>2. PICK f : LoopOf(s, f, n + 1)
      BY <1>4, <2>1
    <2> HIDE DEF n, N
    <2> DEFINE g == [i \in n .. (N + 1) |-> IF i = n THEN Visit(f[n + 1], s[n]) ELSE f[i]]
    <2>3. f = [i \in (n + 1) .. (N + 1) |->
                IF i > N THEN LoopStart ELSE Visit(f[i + 1], s[i])]
      BY <2>2 DEF LoopOf, N
    <2>4. ASSUME NEW i \in n .. (N + 1)
          PROVE  g[i] = IF i > N THEN LoopStart ELSE Visit(g[i + 1], s[i])
      <3>1. CASE i > N
        <4>1. i # n /\ i \in (n + 1) .. (N + 1)
          BY <1>1, <2>1, <3>1
        <4> QED
          BY <2>3, <3>1, <4>1
      <3>2. CASE ~(i > N)
        <4>1. i + 1 \in (n + 1) .. (N + 1) /\ i + 1 \in n .. (N + 1) /\ i + 1 # n
          BY <1>1, <2>1, <3>2
        <4>2. g[i + 1] = f[i + 1]
          BY <4>1
        <4>3. CASE i = n
          BY <3>2, <4>2, <4>3
        <4>4. CASE i # n
          <5>1. i \in (n + 1) .. (N + 1)
            BY <1>1, <2>1, <4>4
          <5> QED
            BY <2>3, <3>2, <4>2, <4>4, <5>1
        <4> QED
          BY <4>3, <4>4
      <3> QED
        BY <3>1, <3>2
    <2>5. LoopOf(s, g, n)
      BY <2>4 DEF LoopOf, N
    <2> QED
      BY <2>1, <2>5
  <1>5. Follows(N)
    <2> SUFFICES ASSUME ~Follows(N) PROVE FALSE
      OBVIOUS
    <2>1. N \in S /\ S \subseteq 0 .. N
      BY <1>1
    <2>2. IsFiniteSet(0 .. N)
      BY <1>1, FS_Interval
    <2>3. IsFiniteSet(S) /\ S \in SUBSET Nat /\ S # {}
      BY <1>1, <2>1, <2>2, FS_Subset
    <2>4. \E m \in S : \A n \in S : m <= n
      BY <2>3, FiniteLeast
    <2>5. PICK m \in S : \A n \in S : m <= n
      BY <2>4
    <2>6. m \in 0 .. N /\ ~Follows(m)
      OBVIOUS
    <2>7. m # 0
      BY <1>3, <2>6
    <2>8. m - 1 \in 0 .. N /\ m - 1 \in Nat /\ m - 1 < N /\ (m - 1) + 1 = m /\ ~(m <= m - 1)
      BY <1>1, <2>6, <2>7
    <2>9. Follows(m - 1)
      BY <2>5, <2>8
    <2> QED
      BY <1>4, <2>6, <2>8, <2>9
  <1>6. N + 1 - N = 1
    BY <1>1
  <1>7. \E f : LoopOf(s, f, 1)
    BY <1>5, <1>6
  <1>8. LoopOf(s, all, 1)
    BY <1>7 DEF LoopOf
  <1> QED
    BY <1>2, <1>8

\* What one entry adds to what is counted after it.
LEMMA FromNext ==
  ASSUME NEW s \in Seq(CopyType), NEW i \in DOMAIN s
  PROVE  /\ i \in Counting(s) => CountingFrom(s, i) = CountingFrom(s, i + 1) \cup {i}
         /\ i \notin Counting(s) => CountingFrom(s, i) = CountingFrom(s, i + 1)
         /\ i \notin CountingFrom(s, i + 1)
         /\ i \in Weeklies(s) => WeeksFrom(s, i) = WeeksFrom(s, i + 1) \cup {s[i].week}
         /\ i \notin Weeklies(s) => WeeksFrom(s, i) = WeeksFrom(s, i + 1)
  <1>1. DOMAIN s = 1 .. Len(s) /\ Len(s) \in Nat
    OBVIOUS
  <1>2. \A j \in DOMAIN s : i <= j <=> i + 1 <= j \/ j = i
    BY <1>1
  <1>3. ~(i + 1 <= i) /\ i <= i
    BY <1>1
  <1>4. Counting(s) \subseteq DOMAIN s /\ Weeklies(s) \subseteq DOMAIN s
    BY DEF Counting, Weeklies, Others
  <1> HIDE DEF Counting, Weeklies
  <1>5. \A j \in Weeklies(s) : i <= j <=> i + 1 <= j \/ j = i
    BY <1>2, <1>4
  <1>6. \A j \in Counting(s) : i <= j <=> i + 1 <= j \/ j = i
    BY <1>2, <1>4
  <1> QED
    BY <1>3, <1>5, <1>6 DEF CountingFrom, WeeksFrom

\* The entries that are not to be kept, from a place on.
Spare(s, n) == {s[i].id : i \in {j \in DOMAIN s : n <= j /\ j \notin Kept(s)}}
Listed(q) == {q[i] : i \in DOMAIN q}
OnceEach(q) == \A i, j \in DOMAIN q : q[i] = q[j] => i = j
Distinct(s) == \A i, j \in DOMAIN s : s[i].id = s[j].id => i = j

\* What the loop has counted and seen when it comes to an entry.
Seen(s, loop, n) ==
  /\ loop.counted = Cardinality(CountingFrom(s, n))
  /\ loop.weeks \subseteq WeeksFrom(s, n) /\ Cardinality(loop.weeks) <= WeeklySlots
  /\ Cardinality(loop.weeks) < WeeklySlots => loop.weeks = WeeksFrom(s, n)
  /\ loop.retires \in Seq(Nat) /\ Listed(loop.retires) = Spare(s, n) /\ OnceEach(loop.retires)

\* A visit of the loop sees one entry more.
LEMMA VisitSees ==
  ASSUME DestinationsAssumption, NEW s \in Seq(CopyType), NEW i \in DOMAIN s, NEW loop,
         Distinct(s), Seen(s, loop, i + 1)
  PROVE  Seen(s, Visit(loop, s[i]), i)
  <1>1. DOMAIN s = 1 .. Len(s) /\ Len(s) \in Nat /\ s[i] \in CopyType
    OBVIOUS
  <1>2. CASE s[i].pinned
    <2>1. i \notin Counting(s) /\ i \notin Weeklies(s) /\ i \in Kept(s)
      BY <1>2 DEF Counting, Weeklies, Others, Kept
    <2>2. CountingFrom(s, i) = CountingFrom(s, i + 1) /\ WeeksFrom(s, i) = WeeksFrom(s, i + 1)
      BY <2>1, FromNext
    <2>3. \A j \in DOMAIN s : j \notin Kept(s) => (i <= j <=> i + 1 <= j)
      BY <1>1, <2>1
    <2>4. Visit(loop, s[i]) = loop
      BY <1>2 DEF Visit
    <2>5. Spare(s, i) = Spare(s, i + 1)
      BY <2>3 DEF Spare
    <2> QED
      BY <2>2, <2>4, <2>5 DEF Seen
  <1>3. CASE ~s[i].pinned
    <2> DEFINE v == Visit(loop, s[i])
               counts == Counts(s[i])
               new == NewWeek(loop, s[i])
               within == WithinCount(loop, s[i])
    <2>1. v.counted = loop.counted + (IF counts THEN 1 ELSE 0)
      BY <1>3 DEF Visit
    <2>2. v.weeks = loop.weeks \cup (IF new THEN {s[i].week} ELSE {})
      BY <1>3 DEF Visit
    <2>3. v.retires = IF new \/ within THEN loop.retires ELSE Append(loop.retires, s[i].id)
      BY <1>3 DEF Visit
    <2>4. /\ i \in Counting(s) <=> counts
          /\ i \in Weeklies(s) <=> "weekly" \in s[i].roles
      BY <1>3 DEF Counting, Weeklies, Others
    <2>5. /\ IsFiniteSet(CountingFrom(s, i + 1)) /\ Cardinality(CountingFrom(s, i + 1)) \in Nat
          /\ IsFiniteSet(WeeksFrom(s, i + 1)) /\ Cardinality(WeeksFrom(s, i + 1)) \in Nat
      BY ShelfIsFinite
    <2>6. /\ IsFiniteSet(loop.weeks) /\ Cardinality(loop.weeks) \in Nat
          /\ Cardinality(loop.weeks) <= Cardinality(WeeksFrom(s, i + 1))
      BY <2>5, FS_Subset, FS_CardinalityType DEF Seen
    <2>7. WeeklySlots \in Nat
      BY DEF DestinationsAssumption
    <2>8. v.counted = Cardinality(CountingFrom(s, i))
      <3>1. CASE counts
        <4>1. CountingFrom(s, i) = CountingFrom(s, i + 1) \cup {i} /\ i \notin CountingFrom(s, i + 1)
          BY <2>4, <3>1, FromNext
        <4>2. Cardinality(CountingFrom(s, i)) = Cardinality(CountingFrom(s, i + 1)) + 1
          BY <2>5, <4>1, FS_AddElement
        <4> QED
          BY <2>1, <3>1, <4>2 DEF Seen
      <3>2. CASE ~counts
        <4>1. CountingFrom(s, i) = CountingFrom(s, i + 1)
          BY <2>4, <3>2, FromNext
        <4> QED
          BY <2>1, <2>5, <3>2, <4>1 DEF Seen
      <3> QED
        BY <3>1, <3>2
    <2>9. within <=> ByCount(s, i)
      BY DEF WithinCount, ByCount, Seen
    <2>10. new <=> ByWeek(s, i)
      <3>1. ASSUME new PROVE ByWeek(s, i)
        <4>1. loop.weeks = WeeksFrom(s, i + 1)
          BY <3>1 DEF Seen, NewWeek
        <4> QED
          BY <3>1, <4>1 DEF NewWeek, ByWeek
      <3>2. ASSUME ByWeek(s, i) PROVE new
        <4>1. Cardinality(loop.weeks) < WeeklySlots
          BY <2>5, <2>6, <2>7, <3>2 DEF ByWeek
        <4> QED
          BY <3>2, <4>1 DEF Seen, NewWeek, ByWeek
      <3> QED
        BY <3>1, <3>2
    <2>11. i \in Kept(s) <=> new \/ within
      BY <1>3, <2>9, <2>10 DEF Kept
    <2>12. v.weeks \subseteq WeeksFrom(s, i)
      <3>1. new => i \in Weeklies(s)
        BY <2>4 DEF NewWeek
      <3>2. loop.weeks \subseteq WeeksFrom(s, i + 1)
        BY DEF Seen
      <3> QED
        BY <2>2, <3>1, <3>2, FromNext
    <2>13. /\ Cardinality(v.weeks) <= WeeklySlots
           /\ Cardinality(v.weeks) < WeeklySlots => v.weeks = WeeksFrom(s, i)
      <3>1. CASE new
        <4>1. /\ s[i].week \notin loop.weeks /\ Cardinality(loop.weeks) < WeeklySlots
              /\ "weekly" \in s[i].roles /\ v.weeks = loop.weeks \cup {s[i].week}
          BY <2>2, <3>1 DEF NewWeek
        <4>2. Cardinality(v.weeks) = Cardinality(loop.weeks) + 1
          BY <2>6, <4>1, FS_AddElement
        <4>3. v.weeks = WeeksFrom(s, i)
          BY <2>4, <4>1, FromNext DEF Seen
        <4>4. Cardinality(loop.weeks) + 1 <= WeeklySlots
          BY <2>6, <2>7, <4>1
        <4> QED
          BY <4>2, <4>3, <4>4
      <3>2. CASE ~new
        <4>1. v.weeks = loop.weeks
          BY <2>2, <3>2
        <4>2. ASSUME Cardinality(loop.weeks) < WeeklySlots PROVE loop.weeks = WeeksFrom(s, i)
          <5>1. loop.weeks = WeeksFrom(s, i + 1)
            BY <4>2 DEF Seen
          <5>2. i \in Weeklies(s) => s[i].week \in loop.weeks
            BY <2>4, <3>2, <4>2 DEF NewWeek
          <5>3. CASE i \in Weeklies(s)
            <6>1. WeeksFrom(s, i) = WeeksFrom(s, i + 1) \cup {s[i].week}
              BY <5>3, FromNext
            <6> QED
              BY <5>1, <5>2, <5>3, <6>1
          <5>4. CASE i \notin Weeklies(s)
            BY <5>1, <5>4, FromNext
          <5> QED
            BY <5>3, <5>4
        <4> QED
          BY <4>1, <4>2 DEF Seen
      <3> QED
        BY <3>1, <3>2
    <2>14. v.retires \in Seq(Nat)
      BY <1>1, <2>3 DEF Seen, CopyType
    <2>15. Listed(v.retires) = Spare(s, i)
      <3>1. \A j \in DOMAIN s : i <= j <=> i + 1 <= j \/ j = i
        BY <1>1
      <3>2. Spare(s, i) = Spare(s, i + 1) \cup (IF i \in Kept(s) THEN {} ELSE {s[i].id})
        <4>1. CASE i \in Kept(s)
          BY <3>1, <4>1 DEF Spare
        <4>2. CASE i \notin Kept(s)
          BY <3>1, <4>2 DEF Spare
        <4> QED
          BY <4>1, <4>2
      <3>3. CASE new \/ within
        <4>1. v.retires = loop.retires /\ i \in Kept(s)
          BY <2>3, <2>11, <3>3
        <4> QED
          BY <3>2, <4>1 DEF Seen
      <3>4. CASE ~(new \/ within)
        <4> DEFINE q == loop.retires
        <4>1. /\ q \in Seq(Nat) /\ s[i].id \in Nat /\ v.retires = Append(q, s[i].id)
              /\ i \notin Kept(s) /\ Listed(q) = Spare(s, i + 1)
          BY <1>1, <2>3, <2>11, <3>4 DEF Seen, CopyType
        <4>2. Listed(v.retires) = Listed(q) \cup {s[i].id}
          <5> HIDE DEF q, v
          <5>1. DOMAIN q = 1 .. Len(q) /\ Len(q) \in Nat
            BY <4>1
          <5>2. /\ DOMAIN v.retires = 1 .. (Len(q) + 1) /\ v.retires[Len(q) + 1] = s[i].id
                /\ \A j \in 1 .. Len(q) : v.retires[j] = q[j]
            BY <4>1, AppendProperties
          <5>3. DOMAIN v.retires = DOMAIN q \cup {Len(q) + 1}
            BY <5>1, <5>2
          <5>4. \A x \in Listed(v.retires) : x \in Listed(q) \/ x = s[i].id
            BY <5>1, <5>2, <5>3 DEF Listed
          <5>5. \A x \in Listed(q) : x \in Listed(v.retires)
            BY <5>1, <5>2, <5>3 DEF Listed
          <5>6. s[i].id \in Listed(v.retires)
            BY <5>2, <5>3 DEF Listed
          <5> QED
            BY <5>4, <5>5, <5>6
        <4> QED
          BY <3>2, <4>1, <4>2
      <3> QED
        BY <3>3, <3>4
    <2>16. OnceEach(v.retires)
      <3>1. CASE new \/ within
        BY <2>3, <3>1 DEF Seen
      <3>2. CASE ~(new \/ within)
        <4> DEFINE q == loop.retires
        <4>1. /\ q \in Seq(Nat) /\ s[i].id \in Nat /\ v.retires = Append(q, s[i].id)
              /\ Listed(q) = Spare(s, i + 1) /\ OnceEach(q)
          BY <1>1, <2>3, <3>2 DEF Seen, CopyType
        <4>2. s[i].id \notin Listed(q)
          <5>1. \A j \in DOMAIN s : i + 1 <= j => j # i
            BY <1>1
          <5> QED
            BY <4>1, <5>1 DEF Spare, Distinct
        <4>3. \A j \in DOMAIN q : q[j] # s[i].id
          BY <4>2 DEF Listed
        <4> HIDE DEF q, v
        <4>4. DOMAIN q = 1 .. Len(q) /\ Len(q) \in Nat
          BY <4>1
        <4>5. /\ DOMAIN v.retires = 1 .. (Len(q) + 1) /\ v.retires[Len(q) + 1] = s[i].id
              /\ \A j \in 1 .. Len(q) : v.retires[j] = q[j]
          BY <4>1, AppendProperties
        <4>6. DOMAIN v.retires = DOMAIN q \cup {Len(q) + 1}
          BY <4>4, <4>5
        <4> QED
          BY <4>1, <4>3, <4>4, <4>5, <4>6 DEF OnceEach
      <3> QED
        BY <3>1, <3>2
    <2> QED
      BY <2>8, <2>12, <2>13, <2>14, <2>15, <2>16 DEF Seen
  <1> QED
    BY <1>2, <1>3

\* It retires each of the entries that are not to be retained, once.
Superfluous(s) == {s[i].id : i \in DOMAIN s \ Retained(s)}

\* The list has each of them once, and nothing else.
LEMMA RetiresSuperfluous ==
  ASSUME DestinationsAssumption, NEW s \in Seq(CopyType), Distinct(s)
  PROVE  /\ ToRetire(s) \in Seq(Nat) /\ OnceEach(ToRetire(s))
         /\ Listed(ToRetire(s)) = Superfluous(s)
  <1>1. DOMAIN s = 1 .. Len(s) /\ Len(s) \in Nat
    OBVIOUS
  <1>2. PICK f : LoopOf(s, f, 1) /\ ToRetire(s) = f[1].retires
    BY LoopExists
  <1>3. \A i \in 1 .. (Len(s) + 1) : f[i] = IF i > Len(s) THEN LoopStart ELSE Visit(f[i + 1], s[i])
    BY <1>2 DEF LoopOf
  <1> DEFINE N == Len(s)
             Sees(k) == Seen(s, f[N + 1 - k], N + 1 - k)
             S == {k \in 0 .. N : ~Sees(k)}
  <1>4. Sees(0)
    <2>1. f[N + 1] = LoopStart
      BY <1>1, <1>3
    <2>2. CountingFrom(s, N + 1) = {} /\ WeeksFrom(s, N + 1) = {} /\ Spare(s, N + 1) = {}
      <3>1. \A i \in DOMAIN s : ~(N + 1 <= i)
        BY <1>1
      <3> QED
        BY <3>1 DEF CountingFrom, WeeksFrom, Counting, Weeklies, Others, Spare
    <2>3. /\ LoopStart.counted = 0 /\ LoopStart.weeks = {} /\ LoopStart.retires = <<>>
          /\ Listed(<<>>) = {} /\ OnceEach(<<>>) /\ <<>> \in Seq(Nat)
      BY DEF LoopStart, Listed, OnceEach
    <2>4. Cardinality({}) = 0 /\ 0 <= WeeklySlots
      BY FS_EmptySet DEF DestinationsAssumption
    <2>5. Seen(s, LoopStart, N + 1)
      BY <2>2, <2>3, <2>4 DEF Seen
    <2> QED
      BY <1>1, <2>1, <2>5
  <1>5. ASSUME NEW k \in Nat, k < N, Sees(k) PROVE Sees(k + 1)
    <2> DEFINE n == N - k
    <2>1. n \in 1 .. N /\ n + 1 = N + 1 - k /\ n = N + 1 - (k + 1) /\ n \in 1 .. (N + 1) /\ ~(n > N)
      <3>1. N \in Nat /\ k < N
        BY <1>1, <1>5
      <3> HIDE DEF N
      <3> QED
        BY <3>1
    <2>2. Seen(s, f[n + 1], n + 1)
      BY <1>5, <2>1
    <2> HIDE DEF n
    <2>3. f[n] = Visit(f[n + 1], s[n])
      BY <1>3, <2>1
    <2>4. n \in DOMAIN s
      BY <1>1, <2>1
    <2>5. Seen(s, Visit(f[n + 1], s[n]), n)
      BY <2>2, <2>4, VisitSees
    <2> QED
      BY <2>1, <2>3, <2>5
  <1>6. Sees(N)
    <2> SUFFICES ASSUME ~Sees(N) PROVE FALSE
      OBVIOUS
    <2> HIDE DEF Sees
    <2>1. N \in S /\ S \subseteq 0 .. N
      BY <1>1
    <2>2. IsFiniteSet(0 .. N)
      BY <1>1, FS_Interval
    <2>3. IsFiniteSet(S) /\ S \in SUBSET Nat /\ S # {}
      BY <1>1, <2>1, <2>2, FS_Subset
    <2>4. \E m \in S : \A n \in S : m <= n
      BY <2>3, FiniteLeast
    <2>5. PICK m \in S : \A n \in S : m <= n
      BY <2>4
    <2>6. m \in 0 .. N /\ ~Sees(m)
      OBVIOUS
    <2>7. m # 0
      BY <1>4, <2>6
    <2>8. m - 1 \in 0 .. N /\ m - 1 \in Nat /\ m - 1 < N /\ (m - 1) + 1 = m /\ ~(m <= m - 1)
      BY <1>1, <2>6, <2>7
    <2>9. Sees(m - 1)
      BY <2>5, <2>8
    <2> QED
      BY <1>5, <2>6, <2>8, <2>9
  <1>7. N + 1 - N = 1
    BY <1>1
  <1>8. Seen(s, f[1], 1)
    BY <1>6, <1>7
  <1>9. Spare(s, 1) = Superfluous(s)
    <2>1. \A i \in DOMAIN s : 1 <= i
      BY <1>1
    <2>2. Retained(s) = Kept(s)
      BY RetainedIsKept
    <2> QED
      BY <2>1, <2>2 DEF Spare, Superfluous
  <1> QED
    BY <1>2, <1>8, <1>9 DEF Seen

\* What is left when one entry is retired, and where it was before.
Before(k, i) == IF i < k THEN i ELSE i + 1

\* A sequence without one of its entries.
LEMMA RemovedIs ==
  ASSUME NEW s \in Seq(CopyType), NEW k \in DOMAIN s
  PROVE  /\ RemoveAt(s, k) \in Seq(CopyType)
         /\ DOMAIN RemoveAt(s, k) = 1 .. (Len(s) - 1)
         /\ \A i \in DOMAIN RemoveAt(s, k) : RemoveAt(s, k)[i] = s[Before(k, i)]
  <1> DEFINE a == SubSeq(s, 1, k - 1)
             b == SubSeq(s, k + 1, Len(s))
  <1>1. DOMAIN s = 1 .. Len(s) /\ Len(s) \in Nat /\ k \in 1 .. Len(s)
    OBVIOUS
  <1>2. \A i \in 1 .. Len(s) : s[i] \in CopyType
    OBVIOUS
  <1>3. /\ a \in Seq(CopyType) /\ Len(a) = k - 1
        /\ \A i \in 1 .. (k - 1) : a[i] = s[i]
    <2>1. \A i \in 1 .. (k - 1) : s[i] \in CopyType
      BY <1>1, <1>2
    <2>2. /\ a \in Seq(CopyType) /\ Len(a) = IF 1 <= k - 1 THEN (k - 1) - 1 + 1 ELSE 0
          /\ \A i \in 1 .. ((k - 1) - 1 + 1) : a[i] = s[1 + i - 1]
      BY <1>1, <2>1, SubSeqProperties
    <2> HIDE DEF a
    <2>3. (k - 1) - 1 + 1 = k - 1 /\ \A i \in 1 .. (k - 1) : 1 + i - 1 = i
      BY <1>1
    <2> QED
      BY <1>1, <2>2, <2>3
  <1>4. /\ b \in Seq(CopyType) /\ Len(b) = Len(s) - k
        /\ \A i \in 1 .. (Len(s) - k) : b[i] = s[k + i]
    <2>1. \A i \in (k + 1) .. Len(s) : s[i] \in CopyType
      BY <1>1, <1>2
    <2>2. /\ b \in Seq(CopyType) /\ Len(b) = IF k + 1 <= Len(s) THEN Len(s) - (k + 1) + 1 ELSE 0
          /\ \A i \in 1 .. (Len(s) - (k + 1) + 1) : b[i] = s[(k + 1) + i - 1]
      BY <1>1, <2>1, SubSeqProperties
    <2> HIDE DEF b
    <2>3. Len(s) - (k + 1) + 1 = Len(s) - k /\ \A i \in 1 .. (Len(s) - k) : (k + 1) + i - 1 = k + i
      BY <1>1
    <2> QED
      BY <1>1, <2>2, <2>3
  <1>5. RemoveAt(s, k) = a \o b
    BY DEF RemoveAt
  <1> HIDE DEF a, b
  <1>6. /\ a \o b \in Seq(CopyType) /\ Len(a \o b) = Len(a) + Len(b)
        /\ \A i \in 1 .. Len(a) + Len(b) :
             (a \o b)[i] = IF i <= Len(a) THEN a[i] ELSE b[i - Len(a)]
    BY <1>3, <1>4, ConcatProperties
  <1>7. Len(a) + Len(b) = Len(s) - 1
    BY <1>1, <1>3, <1>4
  <1>8. DOMAIN (a \o b) = 1 .. (Len(s) - 1)
    BY <1>6, <1>7
  <1>9. ASSUME NEW i \in 1 .. (Len(s) - 1) PROVE (a \o b)[i] = s[Before(k, i)]
    <2>1. (a \o b)[i] = IF i <= k - 1 THEN a[i] ELSE b[i - (k - 1)]
      BY <1>3, <1>6, <1>7
    <2>2. CASE i < k
      <3>1. i \in 1 .. (k - 1) /\ i <= k - 1
        BY <1>1, <2>2
      <3> QED
        BY <1>3, <2>1, <2>2, <3>1 DEF Before
    <2>3. CASE ~(i < k)
      <3>1. i - (k - 1) \in 1 .. (Len(s) - k) /\ ~(i <= k - 1) /\ k + (i - (k - 1)) = i + 1
        BY <1>1, <2>3
      <3>2. b[i - (k - 1)] = s[k + (i - (k - 1))]
        BY <1>4, <3>1
      <3> QED
        BY <2>1, <2>3, <3>1, <3>2 DEF Before
    <2> QED
      BY <2>2, <2>3
  <1> QED
    BY <1>5, <1>6, <1>8, <1>9

\* The places of what is left.
LEMMA BeforeIs ==
  ASSUME NEW n \in Nat, NEW k \in 1 .. n
  PROVE  /\ \A i \in 1 .. (n - 1) : Before(k, i) \in 1 .. n /\ Before(k, i) # k
         /\ \A i, j \in 1 .. (n - 1) : i < j <=> Before(k, i) < Before(k, j)
         /\ \A i, j \in 1 .. (n - 1) : Before(k, i) = Before(k, j) => i = j
         /\ \A m \in 1 .. n : m # k => \E i \in 1 .. (n - 1) : Before(k, i) = m
  <1>1. ASSUME NEW m \in 1 .. n, m # k PROVE \E i \in 1 .. (n - 1) : Before(k, i) = m
    <2>1. CASE m < k
      <3>1. m \in 1 .. (n - 1) /\ Before(k, m) = m
        BY <2>1 DEF Before
      <3> QED
        BY <3>1
    <2>2. CASE ~(m < k)
      <3>1. m - 1 \in 1 .. (n - 1) /\ ~(m - 1 < k) /\ (m - 1) + 1 = m
        BY <1>1, <2>2
      <3>2. Before(k, m - 1) = m
        BY <3>1 DEF Before
      <3> QED
        BY <3>1, <3>2
    <2> QED
      BY <2>1, <2>2
  <1> QED
    BY <1>1 DEF Before

\* When an entry that is not to be kept is retired, the others are to be kept as before.
LEMMA RemovalKeeps ==
  ASSUME DestinationsAssumption, NEW s \in Seq(CopyType), NEW k \in DOMAIN s, k \notin Kept(s),
         NEW i \in DOMAIN RemoveAt(s, k)
  PROVE  i \in Kept(RemoveAt(s, k)) <=> Before(k, i) \in Kept(s)
  <1> DEFINE t == RemoveAt(s, k)
             o == Before(k, i)
             N == Len(s)
  <1>1. /\ N \in Nat /\ DOMAIN s = 1 .. N /\ DOMAIN t = 1 .. (N - 1) /\ k \in 1 .. N
        /\ t \in Seq(CopyType) /\ i \in 1 .. (N - 1)
        /\ \A j \in 1 .. (N - 1) : t[j] = s[Before(k, j)]
    <2>1. N \in Nat /\ DOMAIN s = 1 .. N /\ k \in 1 .. N
      OBVIOUS
    <2>2. /\ t \in Seq(CopyType) /\ DOMAIN t = 1 .. (N - 1)
          /\ \A j \in DOMAIN t : t[j] = s[Before(k, j)]
      BY RemovedIs
    <2>3. i \in DOMAIN t
      OBVIOUS
    <2> HIDE DEF t, N
    <2> QED
      BY <2>1, <2>2, <2>3
  <1>2. /\ \A j \in 1 .. (N - 1) : Before(k, j) \in 1 .. N /\ Before(k, j) # k
        /\ \A j \in 1 .. (N - 1) : i < j <=> o < Before(k, j)
        /\ \A j, m \in 1 .. (N - 1) : Before(k, j) = Before(k, m) => j = m
        /\ \A m \in 1 .. N : m # k => \E j \in 1 .. (N - 1) : Before(k, j) = m
    BY <1>1, BeforeIs
  <1>3. /\ MaxSnapshots \in Nat /\ WeeklySlots \in Nat
    BY DEF DestinationsAssumption
  <1> HIDE DEF t, o, N
  <1>4. o \in 1 .. N /\ t[i] = s[o] /\ o # k
    BY <1>1, <1>2 DEF o
  <1>5. ASSUME NEW j \in 1 .. (N - 1) PROVE i + 1 <= j <=> o + 1 <= Before(k, j)
    <2>1. PICK b : b = Before(k, j)
      OBVIOUS
    <2>2. b \in 1 .. N /\ (i < j <=> o < b)
      BY <1>2, <2>1
    <2>3. i + 1 <= j <=> o + 1 <= b
      BY <1>1, <1>4, <2>2
    <2> QED
      BY <2>1, <2>3
  <1>6. \A j \in 1 .. (N - 1) :
          /\ j \in Counting(t) <=> Before(k, j) \in Counting(s)
          /\ j \in Weeklies(t) <=> Before(k, j) \in Weeklies(s)
    BY <1>1, <1>2 DEF Counting, Weeklies, Others
  <1>7. /\ Counting(t) \subseteq 1 .. (N - 1) /\ Weeklies(t) \subseteq 1 .. (N - 1)
        /\ Counting(s) \subseteq 1 .. N /\ Weeklies(s) \subseteq 1 .. N
    BY <1>1 DEF Counting, Weeklies, Others
  <1>8. k \in 1 .. N /\ ~ByCount(s, k) /\ ~ByWeek(s, k) /\ ~s[k].pinned
    BY <1>1 DEF Kept
  <1> DEFINE C == CountingFrom(s, o + 1)
             D == CountingFrom(t, i + 1)
             V == WeeksFrom(s, o + 1)
             W == WeeksFrom(t, i + 1)
  <1>9. /\ IsFiniteSet(C) /\ Cardinality(C) \in Nat /\ IsFiniteSet(D) /\ Cardinality(D) \in Nat
        /\ IsFiniteSet(V) /\ Cardinality(V) \in Nat /\ IsFiniteSet(W) /\ Cardinality(W) \in Nat
        /\ Cardinality(CountingFrom(s, k + 1)) \in Nat /\ Cardinality(WeeksFrom(s, k + 1)) \in Nat
    BY <1>1, ShelfIsFinite
  <1>10. IsFiniteSet(C \ {k}) /\ Cardinality(C \ {k}) \in Nat /\ Cardinality(C \ {k}) = Cardinality(D)
    <2> DEFINE f == [j \in D |-> Before(k, j)]
    <2>1. ASSUME NEW j \in D PROVE Before(k, j) \in C \ {k}
      <3>1. j \in Counting(t) /\ i + 1 <= j /\ j \in 1 .. (N - 1)
        BY <1>7 DEF CountingFrom
      <3> QED
        BY <1>2, <1>5, <1>6, <3>1 DEF CountingFrom
    <2>2. ASSUME NEW m \in C \ {k} PROVE \E j \in D : Before(k, j) = m
      <3>1. m \in Counting(s) /\ o + 1 <= m /\ m \in 1 .. N /\ m # k
        BY <1>7 DEF CountingFrom
      <3>2. PICK j \in 1 .. (N - 1) : Before(k, j) = m
        BY <1>2, <3>1
      <3> QED
        BY <1>5, <1>6, <3>1, <3>2 DEF CountingFrom
    <2>3. \A j, m \in D : Before(k, j) = Before(k, m) => j = m
      BY <1>2, <1>7 DEF CountingFrom
    <2> HIDE DEF C, D
    <2>4. f \in Bijection(D, C \ {k})
      <3>1. f \in [D -> C \ {k}]
        BY <2>1
      <3>2. \A j, m \in D : f[j] = f[m] => j = m
        BY <2>3
      <3>3. \A m \in C \ {k} : \E j \in D : f[j] = m
        BY <2>2
      <3> HIDE DEF f
      <3> QED
        BY <3>1, <3>2, <3>3 DEF Bijection, Injection, IsInjective, Surjection
    <2>5. ExistsBijection(D, C \ {k})
      BY <2>4 DEF ExistsBijection
    <2> QED
      BY <1>9, <2>5, FS_Bijection, FS_CardinalityType
  <1>11. Cardinality(C) < MaxSnapshots <=> Cardinality(D) < MaxSnapshots
    <2>1. CASE k \notin C
      <3>1. C \ {k} = C
        BY <2>1
      <3> QED
        BY <1>10, <3>1
    <2>2. CASE k \in C
      <3>1. k \in Counting(s) /\ o + 1 <= k
        BY <2>2 DEF CountingFrom
      <3>2. ~(Cardinality(CountingFrom(s, k + 1)) < MaxSnapshots)
        BY <1>8, <3>1 DEF ByCount, Counting
      <3>3. CountingFrom(s, k + 1) \subseteq C \ {k}
        <4>1. \A m \in Counting(s) : k + 1 <= m => o + 1 <= m /\ m # k
          BY <1>4, <1>7, <1>8, <3>1, SMTT(30)
        <4> QED
          BY <4>1 DEF CountingFrom
      <3>4. Cardinality(CountingFrom(s, k + 1)) <= Cardinality(C \ {k})
        BY <1>10, <3>3, FS_Subset
      <3>5. Cardinality(C \ {k}) <= Cardinality(C)
        <4>1. C \ {k} \in SUBSET C
          OBVIOUS
        <4> QED
          BY <1>9, <4>1, FS_Subset
      <3> HIDE DEF C, D
      <3> QED
        BY <1>3, <1>9, <1>10, <3>2, <3>4, <3>5
    <2> QED
      BY <2>1, <2>2
  <1>12. W = {s[m].week : m \in {j \in Weeklies(s) : o + 1 <= j /\ j # k}}
    <2>1. ASSUME NEW w \in W
          PROVE  \E m \in Weeklies(s) : o + 1 <= m /\ m # k /\ s[m].week = w
      <3>1. PICK j \in Weeklies(t) : i + 1 <= j /\ t[j].week = w
        BY DEF WeeksFrom
      <3>2. j \in 1 .. (N - 1)
        BY <1>7
      <3> QED
        BY <1>1, <1>2, <1>5, <1>6, <3>1, <3>2
    <2>2. ASSUME NEW m \in Weeklies(s), o + 1 <= m, m # k PROVE s[m].week \in W
      <3>1. PICK j \in 1 .. (N - 1) : Before(k, j) = m
        BY <1>2, <1>7, <2>2
      <3>2. j \in Weeklies(t) /\ i + 1 <= j /\ t[j] = s[m]
        BY <1>1, <1>5, <1>6, <2>2, <3>1
      <3> QED
        BY <3>2 DEF WeeksFrom
    <2> HIDE DEF W
    <2> QED
      BY <2>1, <2>2
  <1>13. W \subseteq V /\ (o + 1 <= k => WeeksFrom(s, k + 1) \subseteq W)
    <2>1. ASSUME o + 1 <= k PROVE WeeksFrom(s, k + 1) \subseteq W
      <3>1. \A m \in Weeklies(s) : k + 1 <= m => o + 1 <= m /\ m # k
        BY <1>4, <1>7, <1>8, <2>1, SMTT(30)
      <3> HIDE DEF W
      <3> QED
        BY <1>12, <3>1 DEF WeeksFrom
    <2>2. W \subseteq V
      BY <1>12 DEF WeeksFrom
    <2> QED
      BY <2>1, <2>2
  <1>14. V = W \/ (~(Cardinality(V) < WeeklySlots) /\ ~(Cardinality(W) < WeeklySlots))
    <2>1. CASE ~(o + 1 <= k /\ k \in Weeklies(s))
      <3>1. \A m \in Weeklies(s) : o + 1 <= m => m # k
        BY <2>1
      <3>2. V \subseteq W
        BY <1>12, <3>1 DEF WeeksFrom
      <3> QED
        BY <1>13, <3>2
    <2>2. CASE o + 1 <= k /\ k \in Weeklies(s)
      <3>1. \/ s[k].week \in WeeksFrom(s, k + 1)
            \/ ~(Cardinality(WeeksFrom(s, k + 1)) < WeeklySlots)
        BY <1>8, <2>2 DEF ByWeek, Weeklies
      <3>2. CASE s[k].week \in WeeksFrom(s, k + 1)
        <4>1. s[k].week \in W
          BY <1>13, <2>2, <3>2
        <4>2. V \subseteq W \cup {s[k].week}
          BY <1>12 DEF WeeksFrom
        <4> HIDE DEF V, W
        <4> QED
          BY <1>13, <4>1, <4>2
      <3>3. CASE ~(Cardinality(WeeksFrom(s, k + 1)) < WeeklySlots)
        <4> HIDE DEF V, W
        <4>1. Cardinality(WeeksFrom(s, k + 1)) <= Cardinality(W)
          BY <1>9, <1>13, <2>2, FS_Subset
        <4>2. Cardinality(W) <= Cardinality(V)
          BY <1>9, <1>13, FS_Subset
        <4> QED
          BY <1>3, <1>9, <3>3, <4>1, <4>2
      <3> QED
        BY <3>1, <3>2, <3>3
    <2> QED
      BY <2>1, <2>2
  <1>15. ByCount(t, i) <=> ByCount(s, o)
    BY <1>4, <1>11 DEF ByCount
  <1>16. ByWeek(t, i) <=> ByWeek(s, o)
    <2> HIDE DEF V, W
    <2>1. /\ ByWeek(t, i) <=> ("weekly" \in t[i].roles /\ t[i].week \notin W
                               /\ Cardinality(W) < WeeklySlots)
          /\ ByWeek(s, o) <=> ("weekly" \in s[o].roles /\ s[o].week \notin V
                               /\ Cardinality(V) < WeeklySlots)
      BY DEF ByWeek, V, W
    <2> QED
      BY <1>4, <1>14, <2>1
  <1>17. i \in Kept(t) <=> o \in Kept(s)
    BY <1>1, <1>4, <1>15, <1>16 DEF Kept
  <1> QED
    BY <1>17 DEF t, o

\* Each retirement leaves the rest of what is to be retired, and all that is to be retained.
LEMMA RetirementIs ==
  ASSUME DestinationsAssumption, NEW s \in Seq(CopyType), Distinct(s),
         NEW k \in DOMAIN s, k \notin Retained(s)
  PROVE  /\ Superfluous(RemoveAt(s, k)) = Superfluous(s) \ {s[k].id}
         /\ \A i \in DOMAIN s : i # k => \E j \in DOMAIN RemoveAt(s, k) : RemoveAt(s, k)[j] = s[i]
  <1> DEFINE t == RemoveAt(s, k)
             N == Len(s)
  <1>1. /\ N \in Nat /\ DOMAIN s = 1 .. N /\ DOMAIN t = 1 .. (N - 1) /\ k \in 1 .. N
        /\ t \in Seq(CopyType)
        /\ \A j \in 1 .. (N - 1) : t[j] = s[Before(k, j)]
    BY RemovedIs
  <1>2. /\ \A j \in 1 .. (N - 1) : Before(k, j) \in 1 .. N /\ Before(k, j) # k
        /\ \A m \in 1 .. N : m # k => \E j \in 1 .. (N - 1) : Before(k, j) = m
    BY <1>1, BeforeIs
  <1>3. Retained(s) = Kept(s) /\ Retained(t) = Kept(t)
    BY <1>1, RetainedIsKept
  <1>4. \A j \in 1 .. (N - 1) : j \in Kept(t) <=> Before(k, j) \in Kept(s)
    BY <1>1, <1>3, RemovalKeeps
  <1> HIDE DEF t, N
  <1>5. ASSUME NEW x \in Superfluous(t) PROVE x \in Superfluous(s) /\ x # s[k].id
    <2>1. PICK j \in 1 .. (N - 1) : j \notin Kept(t) /\ t[j].id = x
      BY <1>1, <1>3 DEF Superfluous
    <2>2. PICK m : m = Before(k, j)
      OBVIOUS
    <2>3. m \in DOMAIN s /\ m \notin Kept(s) /\ s[m].id = x /\ m # k
      BY <1>1, <1>2, <1>4, <2>1, <2>2
    <2> QED
      BY <1>1, <1>3, <2>3 DEF Superfluous, Distinct
  <1>6. ASSUME NEW x \in Superfluous(s), x # s[k].id PROVE x \in Superfluous(t)
    <2>1. PICK m \in 1 .. N : m \notin Kept(s) /\ s[m].id = x
      BY <1>1, <1>3 DEF Superfluous
    <2>2. PICK j \in 1 .. (N - 1) : Before(k, j) = m
      BY <1>2, <1>6, <2>1
    <2>3. j \in DOMAIN t /\ j \notin Kept(t) /\ t[j].id = x
      BY <1>1, <1>4, <2>1, <2>2
    <2> QED
      BY <1>3, <2>3 DEF Superfluous
  <1>7. Superfluous(t) = Superfluous(s) \ {s[k].id}
    BY <1>5, <1>6
  <1>8. \A i \in DOMAIN s : i # k => \E j \in DOMAIN t : t[j] = s[i]
    BY <1>1, <1>2
  <1> QED
    BY <1>7, <1>8 DEF t

-----------------------------------------------------------------------------
(* Destinations: what a host has claimed, staged, published and is to retire. *)

Staging == {"look", "claim", "stage"}
Publishing == {"publish", "rotate", "retire"}
WriterType ==
  [at : {"away", "capture", "release"} \cup Staging \cup Publishing, id : Nat, manual : BOOLEAN,
   pin : BOOLEAN, created : Nat, loc : Nat, due : SUBSET Destinations,
   roles : [Destinations -> SUBSET Roles], held : SUBSET Destinations, captured : Nat,
   left : SUBSET Destinations, retires : Seq(Nat), published : SUBSET Destinations,
   failures : SUBSET Destinations, quiet : BOOLEAN, result : {"none", "raised"}]

DestTypeOK ==
  /\ calendar \in Nat /\ writes \in Nat
  /\ shelf \in [Destinations -> Seq(CopyType)]
  /\ claimed \in [Destinations -> Hosts \cup {NoHost, DeadHost}]
  /\ writer \in [Hosts -> WriterType]

\* What a call of write() knows: the destination it looks at comes after those that it staged;
\* what it is done with is published or has failed.
WritesAs(w) ==
  w.at # "away" =>
    /\ w.id \in 3 .. (writes + 2) /\ w.created <= calendar
    /\ w.at \in Staging => w.loc \in Destinations /\ \A d \in w.due : d < w.loc
    /\ w.at = "capture" => w.due # {}
    /\ w.at \in Publishing => /\ w.left # {} /\ w.left \subseteq w.due /\ w.created <= w.captured
                              /\ w.due \ w.left \subseteq w.published \cup w.failures
    /\ w.at \in {"rotate", "retire"} => Min(w.left) \in w.published
    /\ w.at = "retire" => w.retires # <<>>
    /\ w.at = "release" /\ w.result = "none" => w.due \subseteq w.published \cup w.failures
    /\ ~w.quiet => w.failures # {}

\* Its copies are where it has published, or was told that it failed.
Placed(w, d) == \E i \in DOMAIN shelf[d] : shelf[d][i].id = w.id
Ahead(w, d) ==
  \/ w.at \in {"capture"} \cup Staging
  \/ w.at \in Publishing /\ d \in w.left /\ (w.at # "publish" => d # Min(w.left))
PlacesAs(w) ==
  w.at # "away" =>
    \A d \in Destinations : Placed(w, d) => ~Ahead(w, d) /\ (d \in w.published \/ ~w.quiet)

\* What it is still to publish under its claim is due, and what it retires is not to be kept.
DueStill(s, w, d) ==
  /\ "scheduled" \in w.roles[d] =>
       \A i \in DOMAIN s : "scheduled" \in s[i].roles => w.created >= s[i].captured + Interval
  /\ "weekly" \in w.roles[d] =>
       \A i \in DOMAIN s : "weekly" \in s[i].roles => s[i].week # Week(w.created)

HoldsAs(s, w, d) ==
  /\ d \in w.due /\ Ahead(w, d) => DueStill(s, w, d)
  /\ w.at = "retire" /\ d = Min(w.left) =>
       OnceEach(w.retires) /\ Listed(w.retires) = Superfluous(s)

\* Of each two copies, the later is due after the other.
Spaced(s) ==
  \A i, j \in DOMAIN s : i < j =>
    /\ "scheduled" \in s[i].roles \cap s[j].roles => s[j].captured >= s[i].captured + Interval
    /\ "weekly" \in s[i].roles \cap s[j].roles => s[i].week # s[j].week

\* Each copy is there once, made by an earlier write or by one of these; and they are spaced.
ShelfAs(s) == Distinct(s) /\ Spaced(s) /\ \A i \in DOMAIN s : s[i].id <= writes + 2

DestInv ==
  /\ DestTypeOK
  /\ \A h \in Hosts : WritesAs(writer[h]) /\ PlacesAs(writer[h])
  /\ \A h, k \in Hosts :
       writer[h].at # "away" /\ writer[k].at # "away" /\ writer[h].id = writer[k].id => h = k
  /\ \A d \in Destinations : ShelfAs(shelf[d])
  /\ \A h \in Hosts : \A d \in Destinations : claimed[d] = h => HoldsAs(shelf[d], writer[h], d)

\* The first of some destinations is one of them.
LEMMA FirstOf ==
  ASSUME DestinationsAssumption, NEW T \in SUBSET Destinations, T # {}
  PROVE  Min(T) \in T
  <1>1. Locations \in Nat /\ T \subseteq 1 .. Locations
    BY DEF DestinationsAssumption, Destinations
  <1>2. IsFiniteSet(1 .. Locations)
    BY <1>1, FS_Interval
  <1>3. T \in SUBSET (1 .. Locations) /\ T \in SUBSET Nat
    BY <1>1
  <1>4. IsFiniteSet(T)
    BY <1>2, <1>3, FS_Subset
  <1>5. \E m \in T : \A n \in T : m =< n
    BY <1>3, <1>4, FiniteLeast
  <1> QED
    BY <1>5 DEF Min

\* Weeks are numbers, and a week later is another.
LEMMA WeekIs ==
  ASSUME DestinationsAssumption
  PROVE  /\ \A day \in Nat : Week(day) \in Nat
         /\ Later \in Nat /\ Later >= Interval /\ Week(0) # Week(Later)
  <1>1. Interval \in Nat /\ WeekLength \in Nat \ {0}
    BY DEF DestinationsAssumption
  <1>2. \A day \in Nat : day \div WeekLength \in Nat
    BY <1>1
  <1>3. \E x \in {Interval, WeekLength} : \A y \in {Interval, WeekLength} : x >= y
    BY <1>1, SMT
  <1>4. Later \in Nat /\ Later >= Interval /\ Later >= WeekLength
    BY <1>1, <1>3 DEF Later, Max
  <1>5. 0 \div WeekLength = 0
    BY <1>1
  <1>6. \A day \in Nat : day >= WeekLength => day \div WeekLength >= 1
    BY <1>1
  <1> QED
    BY <1>2, <1>4, <1>5, <1>6 DEF Week

\* A step of one host at the archive's other parts unchanged: what it knows then is to be shown.
LEMMA WriterStep ==
  ASSUME DestInv, NEW h \in Hosts, NEW q \in WriterType,
         writer' = [writer EXCEPT ![h] = q], UNCHANGED <<calendar, shelf, writes>>,
         claimed' \in [Destinations -> Hosts \cup {NoHost, DeadHost}],
         \A d \in Destinations : claimed'[d] = claimed[d] \/ claimed'[d] \in {h, NoHost, DeadHost},
         {NoHost, DeadHost} \cap Hosts = {},
         q.at # "away" => q.id = writer[h].id /\ writer[h].at # "away",
         WritesAs(q), PlacesAs(q),
         \A d \in Destinations : claimed'[d] = h => HoldsAs(shelf[d], q, d)
  PROVE  DestInv'
  <1>1. DestTypeOK'
    BY DEF DestInv, DestTypeOK
  <1>2. writer'[h] = q /\ \A k \in Hosts : k # h => writer'[k] = writer[k]
    BY DEF DestInv, DestTypeOK
  <1>3. ASSUME NEW k \in Hosts PROVE (WritesAs(writer[k]) /\ PlacesAs(writer[k]))'
    <2>1. PICK r : r = writer'[k]
      OBVIOUS
    <2>2. WritesAs(r) /\ PlacesAs(r)
      BY <1>2, <2>1 DEF DestInv
    <2>3. WritesAs(r)' /\ PlacesAs(r)'
      BY <2>2 DEF WritesAs, PlacesAs, Placed
    <2> QED
      BY <2>1, <2>3
  <1>4. ASSUME NEW k \in Hosts, NEW l \in Hosts,
               writer'[k].at # "away", writer'[l].at # "away", writer'[k].id = writer'[l].id
        PROVE  k = l
    <2>1. \A m \in Hosts : writer'[m].at # "away" =>
             writer[m].at # "away" /\ writer'[m].id = writer[m].id
      BY <1>2
    <2> QED
      BY <1>4, <2>1 DEF DestInv
  <1>5. \A d \in Destinations : ShelfAs(shelf[d])'
    BY DEF DestInv, ShelfAs
  <1>6. ASSUME NEW k \in Hosts, NEW d \in Destinations, claimed'[d] = k
        PROVE  HoldsAs(shelf[d], writer[k], d)'
    <2>1. HoldsAs(shelf[d], writer'[k], d)
      <3>1. CASE k = h
        BY <1>2, <1>6, <3>1
      <3>2. CASE k # h
        <4>1. claimed[d] = k
          BY <1>6, <3>2
        <4> QED
          BY <1>2, <3>2, <4>1 DEF DestInv
      <3> QED
        BY <3>1, <3>2
    <2> QED
      BY <2>1 DEF HoldsAs, Ahead, DueStill
  <1> QED
    BY <1>1, <1>3, <1>4, <1>5, <1>6 DEF DestInv

\* A step of the holder of a claim that changes the shelf it has claimed.
LEMMA ShelfStep ==
  ASSUME DestInv, NEW h \in Hosts, NEW d \in Destinations, claimed[d] = h,
         NEW q \in WriterType, NEW t \in Seq(CopyType),
         writer' = [writer EXCEPT ![h] = q], shelf' = [shelf EXCEPT ![d] = t],
         UNCHANGED <<calendar, claimed, writes>>,
         writer[h].at # "away", q.id = writer[h].id, WritesAs(q), PlacesAs(q)', ShelfAs(t),
         \A i \in DOMAIN t : \/ t[i].id = writer[h].id
                             \/ \E j \in DOMAIN shelf[d] : shelf[d][j].id = t[i].id,
         HoldsAs(t, q, d),
         \A e \in Destinations : claimed[e] = h /\ e # d => HoldsAs(shelf[e], q, e)
  PROVE  DestInv'
  <1>1. DestTypeOK'
    BY DEF DestInv, DestTypeOK
  <1>2. /\ writer'[h] = q /\ \A k \in Hosts : k # h => writer'[k] = writer[k]
        /\ shelf'[d] = t /\ \A e \in Destinations : e # d => shelf'[e] = shelf[e]
    BY DEF DestInv, DestTypeOK
  <1>3. ASSUME NEW k \in Hosts PROVE (WritesAs(writer[k]) /\ PlacesAs(writer[k]))'
    <2>1. PICK r : r = writer'[k]
      OBVIOUS
    <2>2. WritesAs(r)
      BY <1>2, <2>1 DEF DestInv
    <2>3. WritesAs(r)'
      BY <2>2 DEF WritesAs
    <2>4. PlacesAs(r)'
      <3>1. CASE k = h
        <4>1. r = q
          BY <1>2, <2>1, <3>1
        <4> QED
          BY <4>1
      <3>2. CASE k # h
        <4>1. r = writer[k] /\ PlacesAs(r)
          BY <1>2, <2>1, <3>2 DEF DestInv
        <4>2. r.at # "away" => r.id # writer[h].id
          BY <3>2, <4>1 DEF DestInv
        <4>3. \A e \in Destinations : r.at # "away" /\ Placed(r, e)' => Placed(r, e)
          BY <1>2, <4>2 DEF Placed
        <4>4. \A e \in Destinations : Ahead(r, e)' <=> Ahead(r, e)
          BY DEF Ahead
        <4> QED
          BY <4>1, <4>3, <4>4 DEF PlacesAs
      <3> QED
        BY <3>1, <3>2
    <2> QED
      BY <2>1, <2>3, <2>4
  <1>4. ASSUME NEW k \in Hosts, NEW l \in Hosts,
               writer'[k].at # "away", writer'[l].at # "away", writer'[k].id = writer'[l].id
        PROVE  k = l
    <2>1. \A m \in Hosts : writer'[m].at # "away" =>
             writer[m].at # "away" /\ writer'[m].id = writer[m].id
      BY <1>2
    <2> QED
      BY <1>4, <2>1 DEF DestInv
  <1>5. ASSUME NEW e \in Destinations PROVE ShelfAs(shelf[e])'
    <2>1. ShelfAs(shelf'[e])
      BY <1>2 DEF DestInv
    <2> QED
      BY <2>1 DEF ShelfAs
  <1>6. ASSUME NEW k \in Hosts, NEW e \in Destinations, claimed'[e] = k
        PROVE  HoldsAs(shelf[e], writer[k], e)'
    <2>1. HoldsAs(shelf'[e], writer'[k], e)
      <3>1. CASE k = h
        BY <1>2, <1>6, <3>1
      <3>2. CASE k # h
        <4>1. e # d /\ claimed[e] = k
          BY <1>6, <3>2
        <4> QED
          BY <1>2, <3>2, <4>1 DEF DestInv
      <3> QED
        BY <3>1, <3>2
    <2> QED
      BY <2>1 DEF HoldsAs, Ahead, DueStill
  <1> QED
    BY <1>1, <1>3, <1>4, <1>5, <1>6 DEF DestInv

\* What is known of a call stays so when it has no more ahead of it.
LEMMA PlacesOn ==
  ASSUME NEW w, NEW q, w.at # "away", PlacesAs(w), q.id = w.id,
         w.published \subseteq q.published, ~w.quiet => ~q.quiet,
         \A d \in Destinations : Ahead(q, d) => Ahead(w, d)
  PROVE  PlacesAs(q)
  <1>1. \A d \in Destinations : Placed(q, d) <=> Placed(w, d)
    BY DEF Placed
  <1> QED
    BY <1>1 DEF PlacesAs

\* A host goes on to the next location.
LEMMA StagingStep ==
  ASSUME DestinationsAssumption, DestInv, NEW h \in Hosts, NEW v \in WriterType,
         writer[h].at \in Staging, v.at \in Staging,
         v.id = writer[h].id, v.created = writer[h].created, v.loc = writer[h].loc,
         v.published = writer[h].published,
         ~writer[h].quiet => ~v.quiet, ~v.quiet => v.failures # {},
         v.due \subseteq writer[h].due \cup {v.loc},
         writer' = [writer EXCEPT ![h] = NextLocation(v)], UNCHANGED <<calendar, shelf, writes>>,
         claimed' \in [Destinations -> Hosts \cup {NoHost, DeadHost}],
         \A d \in Destinations : claimed'[d] = claimed[d] \/ claimed'[d] \in {h, NoHost, DeadHost},
         \A d \in v.due : claimed'[d] = h => DueStill(shelf[d], v, d)
  PROVE  DestInv'
  <1> DEFINE w == writer[h]
             q == NextLocation(v)
  <1>1. /\ w \in WriterType /\ WritesAs(w) /\ PlacesAs(w) /\ w.at # "away"
        /\ w.loc \in Destinations /\ \A d \in w.due : d < w.loc
    BY DEF DestInv, DestTypeOK, WritesAs, Staging
  <1>2. Locations \in Nat \ {0} /\ Destinations = 1 .. Locations /\ {NoHost, DeadHost} \cap Hosts = {}
    BY SMTT(30) DEF DestinationsAssumption, Destinations
  <1>3. /\ q \in WriterType /\ q.loc = v.loc + 1 /\ q.id = v.id /\ q.due = v.due
        /\ q.created = v.created /\ q.roles = v.roles /\ q.published = v.published
        /\ q.quiet = v.quiet /\ q.failures = v.failures
        /\ q.at = IF v.loc < Locations THEN "look" ELSE IF v.due = {} THEN "release" ELSE "capture"
    <2>1. PICK x : x = IF v.loc < Locations THEN "look" ELSE IF v.due = {} THEN "release" ELSE "capture"
      OBVIOUS
    <2>2. x \in {"look", "release", "capture"}
      BY <2>1
    <2>3. q = [v EXCEPT !.loc = v.loc + 1, !.at = x]
      BY <2>1 DEF NextLocation
    <2> HIDE DEF q, w
    <2>5. x \in {"away", "capture", "release"} \cup Staging \cup Publishing
      BY <2>2 DEF Staging
    <2>6. v.loc + 1 \in Nat
      BY DEF WriterType
    <2>4. q \in WriterType
      BY <2>3, <2>5, <2>6 DEF WriterType
    <2> QED
      BY <2>1, <2>3, <2>4 DEF WriterType
  <1> HIDE DEF q, w
  <1>4. q.at \in {"look", "release", "capture"}
    BY <1>3
  <1>5. q.at = "look" => q.loc \in Destinations /\ \A d \in q.due : d < q.loc
    <2> SUFFICES ASSUME q.at = "look" PROVE q.loc \in Destinations /\ \A d \in q.due : d < q.loc
      OBVIOUS
    <2>1. v.loc < Locations
      BY <1>3
    <2>2. v.loc \in 1 .. Locations /\ v.loc = w.loc
      BY <1>1, <1>2 DEF w
    <2>3. q.loc \in Destinations
      BY <1>2, <1>3, <2>1, <2>2
    <2>4. ASSUME NEW d \in q.due PROVE d < q.loc
      <3>1. (d \in w.due \/ d = v.loc) /\ d \in 1 .. Locations
        BY <1>2, <1>3, <2>2 DEF w, WriterType
      <3>2. d < v.loc \/ d = v.loc
        BY <1>1, <2>2, <3>1
      <3> QED
        BY <1>2, <1>3, <2>2, <3>1, <3>2
    <2> QED
      BY <2>3, <2>4
  <1>6. WritesAs(q)
    <2>1. q.id \in 3 .. (writes + 2) /\ q.created <= calendar
      BY <1>1, <1>3 DEF WritesAs, w
    <2>2. q.at = "capture" => q.due # {}
      BY <1>3
    <2>3. q.at = "release" => q.due = {}
      BY <1>3
    <2> QED
      BY <1>3, <1>4, <1>5, <2>1, <2>2, <2>3 DEF WritesAs, Publishing, Staging
  <1>7. PlacesAs(q)
    <2>1. \A d \in Destinations : Ahead(w, d)
      BY DEF Ahead, w
    <2> QED
      BY <1>1, <1>3, <2>1, PlacesOn DEF w
  <1>8. ASSUME NEW d \in Destinations, claimed'[d] = h PROVE HoldsAs(shelf[d], q, d)
    BY <1>3, <1>4, <1>8 DEF HoldsAs, DueStill
  <1>9. writer' = [writer EXCEPT ![h] = q]
    BY DEF q
  <1>10. q.id = writer[h].id /\ writer[h].at # "away"
    BY <1>1, <1>3 DEF w
  <1> QED
    BY <1>2, <1>3, <1>6, <1>7, <1>8, <1>9, <1>10, WriterStep

\* A host goes on to the next of the destinations that were due.
LEMMA NextCopyIs ==
  ASSUME DestinationsAssumption, DestInv, NEW h \in Hosts, NEW v \in WriterType,
         writer[h].at \in Publishing,
         v.id = writer[h].id, v.created = writer[h].created, v.captured = writer[h].captured,
         v.due = writer[h].due, v.roles = writer[h].roles, v.left = writer[h].left,
         writer[h].published \subseteq v.published, writer[h].failures \subseteq v.failures,
         ~v.quiet => v.failures # {},
         Min(v.left) \in v.published \cup v.failures
  PROVE  /\ NextCopy(v) \in WriterType /\ WritesAs(NextCopy(v)) /\ NextCopy(v).id = writer[h].id
         /\ NextCopy(v).published = v.published /\ NextCopy(v).quiet = v.quiet
         /\ \A e \in Destinations :
              Ahead(NextCopy(v), e) => Ahead(writer[h], e) /\ e # Min(writer[h].left)
         /\ Min(v.left) \in v.left
         /\ \A e \in Destinations : HoldsAs(shelf[e], writer[h], e) => HoldsAs(shelf[e], NextCopy(v), e)
         /\ NextCopy(v).at # "retire"
  <1> DEFINE w == writer[h]
             q == NextCopy(v)
             left == v.left \ {Min(v.left)}
  <1>1. /\ w \in WriterType /\ WritesAs(w) /\ w.left # {} /\ w.left \subseteq w.due
        /\ w.created <= w.captured /\ w.due \ w.left \subseteq w.published \cup w.failures
        /\ w.id \in 3 .. (writes + 2) /\ w.created <= calendar
    BY DEF DestInv, DestTypeOK, WritesAs, Publishing
  <1>2. w.left \in SUBSET Destinations /\ w.left = v.left
    BY <1>1 DEF WriterType
  <1>3. Min(v.left) \in v.left
    BY <1>1, <1>2, FirstOf, SMTT(30)
  <1>4. /\ q \in WriterType /\ q.id = v.id /\ q.due = v.due
        /\ q.created = v.created /\ q.roles = v.roles /\ q.published = v.published
        /\ q.captured = v.captured
        /\ q.quiet = v.quiet /\ q.failures = v.failures /\ q.left = left
        /\ q.at = IF left = {} THEN "release" ELSE "publish"
    <2>1. PICK x : x = IF left = {} THEN "release" ELSE "publish"
      OBVIOUS
    <2>2. x \in {"release", "publish"} /\ left \in SUBSET Destinations /\ <<>> \in Seq(Nat)
      BY <1>2, <2>1
    <2>3. q = [v EXCEPT !.left = left, !.at = x, !.retires = <<>>]
      BY <2>1 DEF NextCopy
    <2> HIDE DEF q, w, left
    <2>4. q \in WriterType
      BY <2>2, <2>3 DEF WriterType, Publishing
    <2> QED
      BY <2>1, <2>3, <2>4, ZenonT(60) DEF WriterType
  <1> HIDE DEF q, w
  <1>5. q.at \in {"release", "publish"} /\ (q.at = "publish" => left # {})
    BY <1>4
  <1>6. q.due \ q.left \subseteq q.published \cup q.failures
    BY <1>1, <1>2, <1>4 DEF w
  <1>7. q.at = "release" => q.due \subseteq q.published \cup q.failures
    BY <1>4, <1>6
  <1>8. WritesAs(q)
    BY <1>1, <1>2, <1>4, <1>5, <1>6, <1>7 DEF WritesAs, Publishing, Staging, w
  <1>9. ASSUME NEW e \in Destinations, Ahead(q, e) PROVE Ahead(w, e) /\ e # Min(w.left)
    <2>1. e \in left
      BY <1>4, <1>5, <1>9 DEF Ahead, Staging
    <2> QED
      BY <1>2, <2>1 DEF Ahead, w
  <1>10. ASSUME NEW e \in Destinations, HoldsAs(shelf[e], w, e) PROVE HoldsAs(shelf[e], q, e)
    BY <1>4, <1>5, <1>9, <1>10 DEF HoldsAs, DueStill, w
  <1>11. q.id = w.id /\ q.published = v.published /\ q.quiet = v.quiet /\ q.at # "retire"
    BY <1>4, <1>5 DEF w
  <1> QED
    BY <1>3, <1>4, <1>8, <1>9, <1>10, <1>11 DEF q, w

\* The next copy comes, and the shelves stay as they are.
LEMMA CopyStep ==
  ASSUME DestinationsAssumption, DestInv, NEW h \in Hosts, NEW v \in WriterType,
         writer[h].at \in Publishing,
         v.id = writer[h].id, v.created = writer[h].created, v.captured = writer[h].captured,
         v.due = writer[h].due, v.roles = writer[h].roles, v.left = writer[h].left,
         writer[h].published \subseteq v.published, writer[h].failures \subseteq v.failures,
         ~v.quiet => v.failures # {}, ~writer[h].quiet => ~v.quiet,
         Min(v.left) \in v.published \cup v.failures,
         writer' = [writer EXCEPT ![h] = NextCopy(v)], UNCHANGED <<calendar, shelf, claimed, writes>>
  PROVE  DestInv'
  <1> DEFINE q == NextCopy(v)
  <1>1. /\ q \in WriterType /\ WritesAs(q) /\ q.id = writer[h].id
        /\ q.published = v.published /\ q.quiet = v.quiet
        /\ \A e \in Destinations : Ahead(q, e) => Ahead(writer[h], e)
        /\ \A e \in Destinations : HoldsAs(shelf[e], writer[h], e) => HoldsAs(shelf[e], q, e)
    BY NextCopyIs
  <1>2. writer' = [writer EXCEPT ![h] = q]
    OBVIOUS
  <1> HIDE DEF q
  <1>3. PlacesAs(writer[h]) /\ writer[h].at # "away"
    BY DEF DestInv, Publishing
  <1>4. PlacesAs(q)
    BY <1>1, <1>3, PlacesOn
  <1>5. \A d \in Destinations : claimed'[d] = h => HoldsAs(shelf[d], q, d)
    BY <1>1 DEF DestInv
  <1>6. claimed' \in [Destinations -> Hosts \cup {NoHost, DeadHost}]
    BY DEF DestInv, DestTypeOK
  <1>7. {NoHost, DeadHost} \cap Hosts = {}
    BY DEF DestinationsAssumption
  <1> QED
    BY <1>1, <1>2, <1>3, <1>4, <1>5, <1>6, <1>7, WriterStep

\* A failure is noted.
LEMMA FailedIs ==
  ASSUME NEW w \in WriterType, NEW d \in Destinations, NEW busy \in BOOLEAN
  PROVE  /\ FailedAt(w, d, busy) \in WriterType
         /\ FailedAt(w, d, busy).failures = w.failures \cup {d}
         /\ ~FailedAt(w, d, busy).quiet => FailedAt(w, d, busy).failures # {}
         /\ ~w.quiet => ~FailedAt(w, d, busy).quiet
         /\ ~busy => ~FailedAt(w, d, busy).quiet
         /\ FailedAt(w, d, busy).at = w.at /\ FailedAt(w, d, busy).id = w.id
         /\ FailedAt(w, d, busy).created = w.created /\ FailedAt(w, d, busy).loc = w.loc
         /\ FailedAt(w, d, busy).due = w.due /\ FailedAt(w, d, busy).roles = w.roles
         /\ FailedAt(w, d, busy).captured = w.captured /\ FailedAt(w, d, busy).left = w.left
         /\ FailedAt(w, d, busy).published = w.published
  <1> DEFINE q == FailedAt(w, d, busy)
  <1>1. PICK b \in BOOLEAN : b = (w.quiet /\ busy)
    BY DEF WriterType
  <1>2. q = [w EXCEPT !.failures = w.failures \cup {d}, !.quiet = b]
    BY <1>1 DEF FailedAt
  <1>3. w.failures \cup {d} \in SUBSET Destinations
    BY DEF WriterType
  <1> HIDE DEF q
  <1>4. q \in WriterType
    BY <1>2, <1>3 DEF WriterType
  <1>5. /\ q.failures = w.failures \cup {d} /\ q.quiet = b /\ q.at = w.at /\ q.id = w.id
        /\ q.created = w.created /\ q.loc = w.loc /\ q.due = w.due /\ q.roles = w.roles
        /\ q.captured = w.captured /\ q.left = w.left /\ q.published = w.published
    BY <1>2 DEF WriterType
  <1>6. (~w.quiet => ~q.quiet) /\ (~busy => ~q.quiet)
    BY <1>1, <1>5
  <1>7. q.failures # {}
    BY <1>5
  <1> QED
    BY <1>4, <1>5, <1>6, <1>7 DEF q

\* The claim of a host is given up, or is not its own.
LEMMA ReleasedIs ==
  ASSUME DestInv, NEW h \in Hosts, NEW d \in Destinations, ReleaseHold(h, d)
  PROVE  /\ claimed' \in [Destinations -> Hosts \cup {NoHost, DeadHost}]
         /\ \A e \in Destinations : claimed'[e] = claimed[e] \/ claimed'[e] \in {h, NoHost, DeadHost}
         /\ \A e \in Destinations : claimed'[e] = h => claimed[e] = h \/ h = NoHost
  BY DEF ReleaseHold, DestInv, DestTypeOK

\* What one has staged before is due still.
LEMMA StagedStill ==
  ASSUME DestInv, NEW h \in Hosts, writer[h].at \in Staging, NEW d \in writer[h].due, claimed[d] = h
  PROVE  DueStill(shelf[d], writer[h], d)
  <1>1. d \in Destinations
    BY DEF DestInv, DestTypeOK, WriterType
  <1>2. Ahead(writer[h], d)
    BY DEF Ahead
  <1> QED
    BY <1>1, <1>2 DEF DestInv, HoldsAs

\* A host that does not write.
LEMMA NotWritingIs ==
  /\ NotWriting \in WriterType /\ NotWriting.at = "away" /\ NotWriting.due = {}
  /\ NotWriting.loc = 1 /\ NotWriting.quiet = TRUE
  <1>1. [d \in Destinations |-> {}] \in [Destinations -> SUBSET Roles] /\ <<>> \in Seq(Nat)
    OBVIOUS
  <1>2. NotWriting \in WriterType
    BY <1>1 DEF NotWriting, WriterType
  <1> QED
    BY <1>2 DEF NotWriting

\* A write begins: it has a number of its own, and nothing is claimed or placed.
LEMMA BeginWriteStep == ASSUME DestinationsAssumption, DestInv, NEW h \in Hosts, BeginWrite(h) PROVE DestInv'
  <1> USE DEF BeginWrite, WriterAt
  <1>1. PICK manual \in BOOLEAN, pin \in BOOLEAN :
          writer' = [writer EXCEPT ![h] = [NotWriting EXCEPT !.at = "look", !.id = writes + 3,
                       !.manual = manual, !.pin = pin, !.created = calendar]]
    OBVIOUS
  <1>14. PICK q : q = [NotWriting EXCEPT !.at = "look", !.id = writes + 3,
                     !.manual = manual, !.pin = pin, !.created = calendar]
    OBVIOUS
  <1>15. writer' = [writer EXCEPT ![h] = q] /\ UNCHANGED <<shelf, claimed>>
    BY <1>1, <1>14
  <1>2. calendar \in Nat /\ writes \in Nat /\ writes' = writes + 1 /\ calendar' = calendar
    BY DEF DestInv, DestTypeOK
  <1>3. 1 \in Destinations
    BY DEF DestinationsAssumption, Destinations
  <1>4. /\ q \in WriterType /\ q.at = "look" /\ q.id = writes + 3 /\ q.created = calendar
        /\ q.loc = 1 /\ q.due = {} /\ q.quiet = TRUE
    <2>1. "look" \in {"away", "capture", "release"} \cup Staging \cup Publishing
      BY DEF Staging
    <2>2. writes + 3 \in Nat
      BY <1>2
    <2> QED
      BY <1>2, <1>14, <2>1, <2>2, NotWritingIs DEF WriterType
  <1>5. /\ writer'[h] = q /\ \A k \in Hosts : k # h => writer'[k] = writer[k]
        /\ shelf' = shelf /\ claimed' = claimed
    BY <1>15 DEF DestInv, DestTypeOK
  <1>6. DestTypeOK'
    BY <1>2, <1>4, <1>15 DEF DestInv, DestTypeOK
  <1>7. WritesAs(q)'
    <2>1. q.id \in 3 .. (writes' + 2) /\ q.created <= calendar'
      BY <1>2, <1>4
    <2> QED
      BY <1>3, <1>4, <2>1 DEF WritesAs, Staging, Publishing
  <1>8. PlacesAs(q)'
    <2>1. ASSUME NEW d \in Destinations, NEW i \in DOMAIN shelf[d] PROVE shelf[d][i].id # q.id
      <3>1. shelf[d][i].id <= writes + 2 /\ shelf[d][i] \in CopyType
        BY DEF DestInv, DestTypeOK, ShelfAs
      <3> QED
        BY <1>2, <1>4, <3>1 DEF CopyType
    <2>2. \A d \in Destinations : ~Placed(q, d)'
      BY <1>5, <2>1 DEF Placed
    <2> QED
      BY <2>2 DEF PlacesAs
  <1>9. ASSUME NEW k \in Hosts, k # h PROVE (WritesAs(writer[k]) /\ PlacesAs(writer[k]))'
    <2>1. PICK r : r = writer'[k]
      OBVIOUS
    <2>2. WritesAs(r) /\ PlacesAs(r) /\ r \in WriterType
      BY <1>5, <1>9, <2>1 DEF DestInv, DestTypeOK
    <2>3. r.id \in 3 .. (writes + 2) => r.id \in 3 .. (writes' + 2)
      BY <1>2
    <2>4. WritesAs(r)' /\ PlacesAs(r)'
      BY <1>2, <1>5, <2>2, <2>3 DEF WritesAs, PlacesAs, Placed
    <2> QED
      BY <2>1, <2>4
  <1>10. ASSUME NEW k \in Hosts PROVE (WritesAs(writer[k]) /\ PlacesAs(writer[k]))'
    <2>1. CASE k = h
      <3>1. PICK r : r = writer'[k]
        OBVIOUS
      <3>2. r = q
        BY <1>5, <2>1, <3>1
      <3>3. WritesAs(r)' /\ PlacesAs(r)'
        BY <1>7, <1>8, <3>2
      <3> QED
        BY <3>1, <3>3
    <2> QED
      BY <1>9, <2>1
  <1>11. ASSUME NEW k \in Hosts, NEW l \in Hosts,
               writer'[k].at # "away", writer'[l].at # "away", writer'[k].id = writer'[l].id
        PROVE  k = l
    <2>1. \A m \in Hosts : m # h /\ writer[m].at # "away" => writer[m].id # writes + 3
      <3>1. \A m \in Hosts : writer[m].at # "away" => writer[m].id \in 3 .. (writes + 2)
        BY DEF DestInv, WritesAs
      <3> QED
        BY <1>2, <3>1
    <2> QED
      BY <1>4, <1>5, <1>11, <2>1 DEF DestInv
  <1>12. ASSUME NEW d \in Destinations PROVE ShelfAs(shelf[d])'
    <2>1. ShelfAs(shelf[d]) /\ shelf[d] \in Seq(CopyType)
      BY DEF DestInv, DestTypeOK
    <2>2. ASSUME NEW i \in DOMAIN shelf[d] PROVE shelf[d][i].id \in Nat
      <3>1. shelf[d][i] \in CopyType
        BY <2>1
      <3> QED
        BY <3>1 DEF CopyType
    <2>3. \A i \in DOMAIN shelf[d] : shelf[d][i].id <= writes' + 2
      BY <1>2, <2>1, <2>2, SMTT(30) DEF ShelfAs
    <2> QED
      BY <1>5, <2>1, <2>3 DEF ShelfAs
  <1>13. ASSUME NEW k \in Hosts, NEW d \in Destinations, claimed'[d] = k
        PROVE  HoldsAs(shelf[d], writer[k], d)'
    <2>1. HoldsAs(shelf[d], writer'[k], d)
      <3>1. CASE k = h
        BY <1>4, <1>5, <3>1 DEF HoldsAs
      <3>2. CASE k # h
        BY <1>5, <1>13, <3>2 DEF DestInv
      <3> QED
        BY <3>1, <3>2
    <2> QED
      BY <1>5, <2>1 DEF HoldsAs, Ahead, DueStill
  <1> QED
    BY <1>6, <1>10, <1>11, <1>12, <1>13 DEF DestInv

\* A destination where nothing is due is passed over.
LEMMA LookForDueStep == ASSUME DestinationsAssumption, DestInv, NEW h \in Hosts, LookForDue(h) PROVE DestInv'
  <1> USE DEF LookForDue, WriterAt, bounds
  <1> DEFINE w == writer[h]
  <1>1. w \in WriterType /\ w.at = "look" /\ WritesAs(w) /\ PlacesAs(w) /\ w.at # "away"
    BY DEF DestInv, DestTypeOK
  <1>2. ~w.quiet => w.failures # {}
    BY <1>1 DEF WritesAs
  <1>3. /\ claimed' \in [Destinations -> Hosts \cup {NoHost, DeadHost}] /\ claimed' = claimed
        /\ UNCHANGED <<calendar, shelf, writes>>
    BY DEF DestInv, DestTypeOK
  <1>4. CASE RolesDue(w.loc, w.created, w.manual) = {}
    <2>1. writer' = [writer EXCEPT ![h] = NextLocation(w)]
      BY <1>4
    <2>2. \A d \in w.due : claimed'[d] = h => DueStill(shelf[d], w, d)
      BY <1>1, <1>3, StagedStill DEF Staging
    <2>3. w.at \in Staging
      BY <1>1 DEF Staging
    <2> QED
      BY <1>1, <1>2, <1>3, <2>1, <2>2, <2>3, StagingStep
  <1>5. CASE RolesDue(w.loc, w.created, w.manual) # {}
    <2> DEFINE q == [w EXCEPT !.at = "claim"]
    <2>1. writer' = [writer EXCEPT ![h] = q]
      BY <1>5
    <2>2. q \in WriterType /\ q.at = "claim" /\ q.id = w.id
      BY <1>1 DEF WriterType, Staging
    <2>3. /\ q.created = w.created /\ q.loc = w.loc /\ q.due = w.due /\ q.roles = w.roles
          /\ q.published = w.published /\ q.failures = w.failures /\ q.quiet = w.quiet
      BY <1>1 DEF WriterType
    <2> HIDE DEF q, w
    <2>4. WritesAs(q)
      BY <1>1, <2>2, <2>3 DEF WritesAs, Staging, Publishing
    <2>5. \A d \in Destinations : Ahead(w, d)
      BY <1>1 DEF Ahead, Staging
    <2>6. PlacesAs(q)
      BY <1>1, <2>2, <2>3, <2>5, PlacesOn
    <2>7. \A d \in Destinations : claimed'[d] = h => HoldsAs(shelf[d], q, d)
      BY <1>3, <2>2, <2>3, <2>5 DEF HoldsAs, DestInv, DueStill, w
    <2>8. {NoHost, DeadHost} \cap Hosts = {} /\ q.id = writer[h].id /\ writer[h].at # "away"
      BY <1>1, <2>2 DEF DestinationsAssumption, w
    <2> QED
      BY <1>3, <2>1, <2>2, <2>4, <2>6, <2>7, <2>8, WriterStep
  <1> QED
    BY <1>4, <1>5

\* A destination has failed while one was staging, and another host may have its claim.
LEMMA StagingFailsStep ==
  ASSUME DestinationsAssumption, DestInv, NEW h \in Hosts, NEW busy \in BOOLEAN,
         writer[h].at \in Staging,
         writer' = [writer EXCEPT ![h] = NextLocation(FailedAt(writer[h], writer[h].loc, busy))],
         UNCHANGED <<calendar, shelf, writes>>, claimed' = claimed \/ ReleaseHold(h, writer[h].loc)
  PROVE  DestInv'
  <1> DEFINE w == writer[h]
             v == FailedAt(w, w.loc, busy)
  <1>1. w \in WriterType /\ WritesAs(w) /\ w.loc \in Destinations
    BY DEF DestInv, DestTypeOK, WritesAs, Staging
  <1>2. h \notin {NoHost, DeadHost}
    BY DEF DestinationsAssumption
  <1>3. /\ claimed' \in [Destinations -> Hosts \cup {NoHost, DeadHost}]
        /\ \A d \in Destinations : claimed'[d] = claimed[d] \/ claimed'[d] \in {h, NoHost, DeadHost}
        /\ \A d \in Destinations : claimed'[d] = h => claimed[d] = h
    BY <1>1, <1>2, ReleasedIs DEF DestInv, DestTypeOK
  <1>4. /\ v \in WriterType /\ v.at = w.at /\ v.id = w.id /\ v.created = w.created /\ v.loc = w.loc
        /\ v.published = w.published /\ (~w.quiet => ~v.quiet) /\ (~v.quiet => v.failures # {})
        /\ v.due = w.due /\ v.roles = w.roles
    <2>1. /\ v \in WriterType /\ v.at = w.at /\ v.id = w.id /\ v.created = w.created
          /\ v.loc = w.loc /\ v.published = w.published /\ v.due = w.due /\ v.roles = w.roles
      BY <1>1, FailedIs
    <2>2. ~w.quiet => ~v.quiet
      BY <1>1, FailedIs
    <2>3. ~v.quiet => v.failures # {}
      BY <1>1, FailedIs
    <2> QED
      BY <2>1, <2>2, <2>3
  <1>5. writer' = [writer EXCEPT ![h] = NextLocation(v)]
    OBVIOUS
  <1> HIDE DEF v
  <1>6. ASSUME NEW d \in v.due, claimed'[d] = h PROVE DueStill(shelf[d], v, d)
    <2>1. d \in Destinations /\ d \in w.due
      BY <1>4 DEF WriterType
    <2>2. DueStill(shelf[d], w, d)
      BY <1>3, <1>6, <2>1, StagedStill
    <2> QED
      BY <1>4, <2>2 DEF DueStill
  <1>7. v.due \subseteq w.due \cup {v.loc} /\ v.at \in Staging
    BY <1>4
  <1> QED
    BY <1>1, <1>3, <1>4, <1>5, <1>6, <1>7, StagingStep

\* A destination is claimed, or is busy.
LEMMA ClaimDestinationStep ==
  ASSUME DestinationsAssumption, DestInv, NEW h \in Hosts, ClaimDestination(h)
  PROVE  DestInv'
  <1> USE DEF ClaimDestination, WriterAt, bounds
  <1> DEFINE w == writer[h]
  <1>1. /\ w \in WriterType /\ w.at = "claim" /\ w.at \in Staging /\ WritesAs(w) /\ PlacesAs(w)
        /\ w.at # "away"
    BY DEF DestInv, DestTypeOK, Staging
  <1>2. CASE claimed[w.loc] = NoHost
    <2>1. PICK q : q = [w EXCEPT !.at = "stage"]
      OBVIOUS
    <2>2. writer' = [writer EXCEPT ![h] = q] /\ claimed' = [claimed EXCEPT ![w.loc] = h]
      BY <1>2, <2>1 DEF DestInv, DestTypeOK
    <2>3. q \in WriterType /\ q.at = "stage" /\ q.id = w.id
      BY <1>1, <2>1 DEF WriterType, Staging
    <2>4. /\ q.created = w.created /\ q.loc = w.loc /\ q.due = w.due /\ q.roles = w.roles
          /\ q.published = w.published /\ q.failures = w.failures /\ q.quiet = w.quiet
      BY <1>1, <2>1 DEF WriterType
    <2>5. WritesAs(q)
      BY <1>1, <2>3, <2>4 DEF WritesAs, Staging, Publishing
    <2>6. \A d \in Destinations : Ahead(w, d)
      BY <1>1 DEF Ahead
    <2>7. PlacesAs(q)
      BY <1>1, <2>3, <2>4, <2>6, PlacesOn
    <2>8. ASSUME NEW d \in Destinations, claimed'[d] = h PROVE HoldsAs(shelf[d], q, d)
      <3>1. \A e \in w.due : e < w.loc /\ w.loc \in 1 .. Locations
        BY <1>1 DEF WritesAs, Destinations
      <3>2. \A e \in w.due : e # w.loc
        BY <3>1 DEF DestinationsAssumption, WriterType, Destinations
      <3>3. CASE d \in w.due
        <4>1. claimed[d] = h
          BY <2>2, <2>8, <3>2, <3>3 DEF DestInv, DestTypeOK
        <4>2. DueStill(shelf[d], w, d)
          BY <1>1, <3>3, <4>1, StagedStill
        <4> QED
          BY <2>3, <2>4, <4>2 DEF HoldsAs, DueStill
      <3>4. CASE d \notin w.due
        BY <2>3, <2>4, <3>4 DEF HoldsAs
      <3> QED
        BY <3>3, <3>4
    <2>9. /\ claimed' \in [Destinations -> Hosts \cup {NoHost, DeadHost}]
          /\ \A d \in Destinations : claimed'[d] = claimed[d] \/ claimed'[d] \in {h, NoHost, DeadHost}
      BY <2>2 DEF DestInv, DestTypeOK
    <2>10. {NoHost, DeadHost} \cap Hosts = {} /\ q.id = writer[h].id /\ writer[h].at # "away"
      BY <1>1, <2>3 DEF DestinationsAssumption
    <2> QED
      BY <2>2, <2>3, <2>5, <2>7, <2>8, <2>9, <2>10, WriterStep
  <1>3. CASE claimed[w.loc] # NoHost
    <2>1. /\ writer' = [writer EXCEPT ![h] = NextLocation(FailedAt(w, w.loc, TRUE))]
          /\ claimed' = claimed /\ UNCHANGED <<calendar, shelf, writes>>
      BY <1>3
    <2> QED
      BY <1>1, <2>1, StagingFailsStep
  <1> QED
    BY <1>2, <1>3

\* With the claim, what is due is due until it is published.
LEMMA StageDestinationStep ==
  ASSUME DestinationsAssumption, DestInv, NEW h \in Hosts, StageDestination(h)
  PROVE  DestInv'
  <1> DEFINE w == writer[h]
             due == RolesDue(w.loc, w.created, w.manual)
  <1>1. /\ w \in WriterType /\ w.at = "stage" /\ w.at \in Staging /\ WritesAs(w) /\ w.loc \in Destinations
        /\ (~w.quiet => w.failures # {}) /\ UNCHANGED <<calendar, shelf, writes>>
    BY DEF StageDestination, WriterAt, bounds, DestInv, DestTypeOK, WritesAs, Staging
  <1>2. h \notin {NoHost, DeadHost}
    BY DEF DestinationsAssumption
  <1>3. CASE /\ claimed' = claimed \/ ReleaseHold(h, w.loc)
             /\ writer' = [writer EXCEPT ![h] = NextLocation(FailedAt(w, w.loc, TRUE))]
    BY <1>1, <1>3, StagingFailsStep
  <1>4. CASE ReleaseHold(h, w.loc) /\ writer' = [writer EXCEPT ![h] = NextLocation(w)]
    <2>1. /\ claimed' \in [Destinations -> Hosts \cup {NoHost, DeadHost}]
          /\ \A d \in Destinations : claimed'[d] = claimed[d] \/ claimed'[d] \in {h, NoHost, DeadHost}
          /\ \A d \in Destinations : claimed'[d] = h => claimed[d] = h
      BY <1>1, <1>2, <1>4, ReleasedIs
    <2>2. ASSUME NEW d \in w.due, claimed'[d] = h PROVE DueStill(shelf[d], w, d)
      <3>1. d \in Destinations
        BY <1>1 DEF WriterType
      <3> QED
        BY <1>1, <2>1, <2>2, <3>1, StagedStill
    <2> QED
      BY <1>1, <1>4, <2>1, <2>2, StagingStep
  <1>5. CASE /\ due # {} /\ claimed[w.loc] = h /\ claimed' = claimed
             /\ writer' = [writer EXCEPT ![h] = NextLocation([w EXCEPT
                   !.due = @ \cup {w.loc}, !.held = @ \cup {w.loc}, !.roles[w.loc] = due])]
    <2>1. PICK v : v = [w EXCEPT !.due = @ \cup {w.loc}, !.held = @ \cup {w.loc},
                                 !.roles[w.loc] = due]
      OBVIOUS
    <2>2. due \in SUBSET Roles
      BY DEF RolesDue, Roles
    <2>3. /\ w.due \cup {w.loc} \in SUBSET Destinations /\ w.held \cup {w.loc} \in SUBSET Destinations
          /\ [w.roles EXCEPT ![w.loc] = due] \in [Destinations -> SUBSET Roles]
      BY <1>1, <2>2 DEF WriterType
    <2> HIDE DEF due
    <2>4. v = [w EXCEPT !.due = w.due \cup {w.loc}, !.held = w.held \cup {w.loc},
                        !.roles = [w.roles EXCEPT ![w.loc] = due]]
      BY <1>1, <2>1 DEF WriterType
    <2>5. v \in WriterType
      BY <1>1, <2>3, <2>4 DEF WriterType
    <2>6. /\ v.at = w.at /\ v.id = w.id /\ v.created = w.created /\ v.loc = w.loc
          /\ v.published = w.published /\ v.quiet = w.quiet /\ v.failures = w.failures
          /\ v.due = w.due \cup {w.loc} /\ v.roles = [w.roles EXCEPT ![w.loc] = due]
      BY <1>1, <2>4 DEF WriterType
    <2>7. /\ v.roles[w.loc] = due
          /\ \A d \in Destinations : d # w.loc => v.roles[d] = w.roles[d]
      BY <1>1, <2>6 DEF WriterType
    <2>8. DueStill(shelf[w.loc], v, w.loc)
      <3>1. "scheduled" \in due =>
               \A i \in DOMAIN shelf[w.loc] : "scheduled" \in shelf[w.loc][i].roles =>
                 w.created >= shelf[w.loc][i].captured + Interval
        BY DEF RolesDue, due
      <3>2. "weekly" \in due =>
               \A i \in DOMAIN shelf[w.loc] : "weekly" \in shelf[w.loc][i].roles =>
                 shelf[w.loc][i].week # Week(w.created)
        BY DEF RolesDue, due
      <3> QED
        BY <2>6, <2>7, <3>1, <3>2 DEF DueStill
    <2>9. ASSUME NEW d \in v.due, claimed'[d] = h PROVE DueStill(shelf[d], v, d)
      <3>1. CASE d = w.loc
        BY <2>8, <3>1
      <3>2. CASE d # w.loc
        <4>1. d \in w.due /\ d \in Destinations /\ claimed[d] = h
          BY <1>1, <1>5, <2>6, <2>9, <3>2 DEF WriterType
        <4>2. DueStill(shelf[d], w, d)
          BY <1>1, <4>1, StagedStill
        <4> QED
          BY <2>6, <2>7, <3>2, <4>1, <4>2 DEF DueStill
      <3> QED
        BY <3>1, <3>2
    <2>10. writer' = [writer EXCEPT ![h] = NextLocation(v)]
      BY <1>5, <2>1
    <2>11. /\ claimed' \in [Destinations -> Hosts \cup {NoHost, DeadHost}]
           /\ \A d \in Destinations : claimed'[d] = claimed[d] \/ claimed'[d] \in {h, NoHost, DeadHost}
      BY <1>5 DEF DestInv, DestTypeOK
    <2> QED
      BY <1>1, <2>5, <2>6, <2>9, <2>10, <2>11, StagingStep
  <1>6. CASE due = {}
    <2>1. ReleaseHold(h, w.loc) /\ writer' = [writer EXCEPT ![h] = NextLocation(
            IF claimed[w.loc] = h THEN w ELSE FailedAt(w, w.loc, TRUE))]
      BY <1>6 DEF StageDestination
    <2> QED
      BY <1>3, <1>4, <2>1
  <1>7. CASE due # {}
    <2>1. CASE claimed[w.loc] = h
      BY <1>5, <1>7, <2>1 DEF StageDestination
    <2>2. CASE claimed[w.loc] # h
      BY <1>3, <1>7, <2>2 DEF StageDestination
    <2> QED
      BY <2>1, <2>2
  <1> QED
    BY <1>6, <1>7

\* One capture for all, or none.
LEMMA CaptureSteps ==
  ASSUME DestinationsAssumption, DestInv, NEW h \in Hosts, CaptureOnce(h) \/ CaptureFails(h)
  PROVE  DestInv'
  <1> DEFINE w == writer[h]
  <1>1. /\ w \in WriterType /\ w.at = "capture" /\ WritesAs(w) /\ PlacesAs(w) /\ w.at # "away"
        /\ UNCHANGED <<calendar, shelf, claimed, writes>>
    BY DEF CaptureOnce, CaptureFails, WriterAt, bounds, DestInv, DestTypeOK
  <1>2. PICK q : \/ /\ q = [w EXCEPT !.at = "publish", !.captured = calendar, !.left = w.due]
                    /\ writer' = [writer EXCEPT ![h] = q]
                 \/ /\ q = [w EXCEPT !.at = "release", !.result = "raised"]
                    /\ writer' = [writer EXCEPT ![h] = q]
    <2>1. CASE CaptureOnce(h)
      BY <2>1 DEF CaptureOnce, DestInv, DestTypeOK
    <2>2. CASE CaptureFails(h)
      BY <2>2 DEF CaptureFails, DestInv, DestTypeOK
    <2> QED
      BY <2>1, <2>2
  <1>3. writer' = [writer EXCEPT ![h] = q]
    BY <1>2
  <1>4. calendar \in Nat
    BY DEF DestInv, DestTypeOK
  <1>5. q \in WriterType
    <2>1. "publish" \in {"away", "capture", "release"} \cup Staging \cup Publishing
      BY DEF Publishing
    <2>2. "release" \in {"away", "capture", "release"} \cup Staging \cup Publishing
      OBVIOUS
    <2>3. w.due \in SUBSET Destinations
      BY <1>1 DEF WriterType
    <2>4. CASE q = [w EXCEPT !.at = "publish", !.captured = calendar, !.left = w.due]
      BY <1>1, <1>4, <2>1, <2>3, <2>4 DEF WriterType
    <2>5. CASE q = [w EXCEPT !.at = "release", !.result = "raised"]
      BY <1>1, <2>2, <2>5 DEF WriterType
    <2> QED
      BY <1>2, <2>4, <2>5
  <1>6. /\ q.id = w.id /\ q.created = w.created /\ q.due = w.due /\ q.roles = w.roles
        /\ q.published = w.published /\ q.failures = w.failures /\ q.quiet = w.quiet
        /\ \/ q.at = "publish" /\ q.captured = calendar /\ q.left = w.due
           \/ q.at = "release" /\ q.result = "raised"
    BY <1>1, <1>2, ZenonT(60) DEF WriterType
  <1>7. w.due # {} /\ w.created <= calendar /\ w.id \in 3 .. (writes + 2) /\ (~w.quiet => w.failures # {})
    BY <1>1 DEF WritesAs
  <1>8. WritesAs(q)
    BY <1>6, <1>7 DEF WritesAs, Staging, Publishing
  <1>9. \A d \in Destinations : Ahead(w, d)
    BY <1>1 DEF Ahead
  <1>10. PlacesAs(q)
    BY <1>1, <1>6, <1>9, PlacesOn
  <1>11. ASSUME NEW d \in Destinations, claimed'[d] = h PROVE HoldsAs(shelf[d], q, d)
    <2>1. HoldsAs(shelf[d], w, d)
      BY <1>1, <1>11 DEF DestInv
    <2>2. q.at # "retire"
      BY <1>6
    <2> QED
      BY <1>6, <1>9, <2>1, <2>2 DEF HoldsAs, DueStill
  <1>12. {NoHost, DeadHost} \cap Hosts = {} /\ q.id = writer[h].id /\ writer[h].at # "away"
    BY <1>1, <1>6 DEF DestinationsAssumption
  <1>13. claimed' \in [Destinations -> Hosts \cup {NoHost, DeadHost}]
    BY <1>1 DEF DestInv, DestTypeOK
  <1> QED
    BY <1>1, <1>3, <1>5, <1>8, <1>10, <1>11, <1>12, <1>13, WriterStep

\* The copy that is published.
TheCopy(w, d) == Copy(w.id, w.captured, w.roles[d],
                      IF "weekly" \in w.roles[d] THEN Week(w.created) ELSE 0, w.pin)

\* With its copy the shelf stays spaced, and what was there is there.
LEMMA ShelvedIs ==
  ASSUME DestinationsAssumption, DestInv, NEW h \in Hosts, writer[h].at = "publish",
         claimed[Here(h)] = h
  PROVE  LET d == Here(h)  t == Append(shelf[Here(h)], TheCopy(writer[h], Here(h))) IN
         /\ d \in Destinations /\ t \in Seq(CopyType) /\ ShelfAs(t)
         /\ Shelved(h) = [shelf EXCEPT ![d] = t]
         /\ \A i \in DOMAIN t : \/ t[i].id = writer[h].id
                                \/ \E j \in DOMAIN shelf[d] : shelf[d][j].id = t[i].id
  <1> DEFINE w == writer[h]
             d == Here(h)
             c == TheCopy(w, d)
             s == shelf[d]
             t == Append(s, c)
  <1>1. /\ w \in WriterType /\ WritesAs(w) /\ PlacesAs(w) /\ w.at = "publish"
    BY DEF DestInv, DestTypeOK
  <1>2. /\ w.left # {} /\ w.left \subseteq w.due /\ w.created <= w.captured
        /\ w.id \in 3 .. (writes + 2)
    BY <1>1 DEF WritesAs, Publishing
  <1>3. w.left \in SUBSET Destinations
    BY <1>1 DEF WriterType
  <1>4. d \in w.left
    BY <1>2, <1>3, FirstOf DEF Here
  <1>5. d \in Destinations /\ d \in w.due
    BY <1>2, <1>3, <1>4
  <1> HIDE DEF d
  <1>6. s \in Seq(CopyType) /\ Distinct(s) /\ Spaced(s) /\ \A i \in DOMAIN s : s[i].id <= writes + 2
    BY <1>5 DEF DestInv, DestTypeOK, ShelfAs
  <1>7. Shelved(h) = [shelf EXCEPT ![d] = t]
    BY <1>5 DEF Shelved, TheCopy, d, DestInv, DestTypeOK
  <1>8. Ahead(w, d)
    BY <1>1, <1>4 DEF Ahead, Publishing
  <1>9. DueStill(s, w, d)
    BY <1>5, <1>8 DEF DestInv, HoldsAs, d
  <1>10. \A i \in DOMAIN s : s[i].id # w.id
    BY <1>1, <1>5, <1>8 DEF PlacesAs, Placed
  <1>11. c \in CopyType
    <2>1. w.roles[d] \in SUBSET Roles
      BY <1>1, <1>5 DEF WriterType
    <2>2. Week(w.created) \in Nat
      BY <1>1, WeekIs DEF WriterType
    <2> QED
      BY <1>1, <2>1, <2>2 DEF TheCopy, Copy, CopyType, WriterType
  <1>12. /\ c.id = w.id /\ c.captured = w.captured /\ c.roles = w.roles[d]
         /\ "weekly" \in w.roles[d] => c.week = Week(w.created)
    BY DEF TheCopy, Copy
  <1> HIDE DEF s, c
  <1>13. /\ DOMAIN s = 1 .. Len(s) /\ Len(s) \in Nat
         /\ t \in Seq(CopyType) /\ DOMAIN t = 1 .. (Len(s) + 1) /\ t[Len(s) + 1] = c
         /\ \A i \in 1 .. Len(s) : t[i] = s[i]
    BY <1>6, <1>11, AppendProperties
  <1>14. DOMAIN t = DOMAIN s \cup {Len(s) + 1} /\ Len(s) + 1 \notin DOMAIN s
    BY <1>13
  <1> HIDE DEF t, w
  <1>15. Distinct(t)
    BY <1>6, <1>10, <1>12, <1>13, <1>14 DEF Distinct
  <1>16. \A i \in DOMAIN t : t[i].id <= writes + 2
    <2>1. w.id <= writes + 2
      BY <1>2 DEF DestInv, DestTypeOK
    <2> QED
      BY <1>6, <1>12, <1>13, <1>14, <2>1
  <1>17. ASSUME NEW i \in DOMAIN t, NEW j \in DOMAIN t, i < j
         PROVE  /\ "scheduled" \in t[i].roles \cap t[j].roles => t[j].captured >= t[i].captured + Interval
                /\ "weekly" \in t[i].roles \cap t[j].roles => t[i].week # t[j].week
    <2>1. i \in 1 .. Len(s) /\ t[i] = s[i]
      BY <1>13, <1>17
    <2>2. CASE j \in 1 .. Len(s)
      BY <1>6, <1>13, <1>17, <2>1, <2>2 DEF Spaced
    <2>3. CASE j = Len(s) + 1
      <3>1. t[j] = c /\ i \in DOMAIN s
        BY <1>13, <2>1, <2>3
      <3>2. "scheduled" \in s[i].roles /\ "scheduled" \in c.roles => w.created >= s[i].captured + Interval
        BY <1>9, <1>12, <3>1 DEF DueStill
      <3>3. "weekly" \in s[i].roles /\ "weekly" \in c.roles => s[i].week # Week(w.created)
        BY <1>9, <1>12, <3>1 DEF DueStill
      <3>4. s[i] \in CopyType
        BY <1>6, <3>1
      <3>5. s[i].captured \in Nat /\ w.created \in Nat /\ w.captured \in Nat /\ Interval \in Nat
        BY <1>1, <3>4 DEF CopyType, WriterType, DestinationsAssumption
      <3>6. "scheduled" \in s[i].roles /\ "scheduled" \in c.roles => c.captured >= s[i].captured + Interval
        BY <1>2, <1>12, <3>2, <3>5
      <3> QED
        BY <1>12, <2>1, <3>1, <3>3, <3>6
    <2> QED
      BY <1>13, <2>2, <2>3
  <1>18. ShelfAs(t)
    BY <1>15, <1>16, <1>17 DEF ShelfAs, Spaced
  <1>19. \A i \in DOMAIN t : t[i].id = w.id \/ \E j \in DOMAIN s : s[j].id = t[i].id
    BY <1>12, <1>13, <1>14
  <1> QED
    BY <1>5, <1>7, <1>13, <1>18, <1>19 DEF d, w, s, t, c

\* A copy is published: its host is told so or, it may be, that it failed.
LEMMA PublicationStep ==
  ASSUME DestinationsAssumption, DestInv, NEW h \in Hosts, writer[h].at = "publish",
         claimed[Here(h)] = h, NEW q \in WriterType, WritesAs(q),
         writer' = [writer EXCEPT ![h] = q], shelf' = Shelved(h),
         UNCHANGED <<calendar, claimed, writes>>,
         q.id = writer[h].id, writer[h].published \subseteq q.published,
         Here(h) \in q.published \/ ~q.quiet, ~writer[h].quiet => ~q.quiet,
         \A e \in Destinations : Ahead(q, e) => Ahead(writer[h], e) /\ e # Here(h),
         q.at # "retire", q.created = writer[h].created, q.roles = writer[h].roles,
         q.due = writer[h].due
  PROVE  DestInv'
  <1> DEFINE w == writer[h]
  <1>1. PICK d : d = Here(h)
    OBVIOUS
  <1>2. PICK t : t = Append(shelf[d], TheCopy(w, d))
    OBVIOUS
  <1>3. /\ d \in Destinations /\ t \in Seq(CopyType) /\ ShelfAs(t)
        /\ shelf' = [shelf EXCEPT ![d] = t]
        /\ \A i \in DOMAIN t : t[i].id = w.id \/ \E j \in DOMAIN shelf[d] : shelf[d][j].id = t[i].id
    BY <1>1, <1>2, ShelvedIs
  <1>4. PlacesAs(w) /\ w.at # "away" /\ claimed[d] = h
    BY <1>1 DEF DestInv
  <1>5. PlacesAs(q)'
    <2>1. \A e \in Destinations : Ahead(q, e)' <=> Ahead(q, e)
      BY DEF Ahead
    <2>2. ASSUME NEW e \in Destinations, Placed(q, e)', e # d PROVE Placed(w, e)
      <3>1. shelf'[e] = shelf[e]
        BY <1>3, <2>2 DEF DestInv, DestTypeOK
      <3> QED
        BY <2>2, <3>1 DEF Placed
    <2>3. ASSUME NEW e \in Destinations, Placed(q, e)'
          PROVE  ~Ahead(q, e) /\ (e \in q.published \/ ~q.quiet)
      <3>1. CASE e = d
        BY <1>1, <3>1
      <3>2. CASE e # d
        BY <1>4, <2>2, <2>3, <3>2 DEF PlacesAs
      <3> QED
        BY <3>1, <3>2
    <2> QED
      BY <2>1, <2>3 DEF PlacesAs
  <1>6. HoldsAs(t, q, d)
    BY <1>1, <1>3 DEF HoldsAs
  <1>7. ASSUME NEW e \in Destinations, claimed[e] = h PROVE HoldsAs(shelf[e], q, e)
    <2>1. HoldsAs(shelf[e], w, e)
      BY <1>7 DEF DestInv
    <2> QED
      BY <2>1 DEF HoldsAs, DueStill
  <1> QED
    BY <1>3, <1>4, <1>5, <1>6, <1>7, ShelfStep

\* A copy is published, or fails before or after it.
LEMMA PublishSteps ==
  ASSUME DestinationsAssumption, DestInv, NEW h \in Hosts, PublishCopy(h) \/ PublicationFails(h)
  PROVE  DestInv'
  <1> DEFINE w == writer[h]
             d == Here(h)
  <1>1. /\ w \in WriterType /\ WritesAs(w) /\ w.at = "publish" /\ w.at \in Publishing
        /\ UNCHANGED <<calendar, claimed, writes>>
    BY DEF PublishCopy, PublicationFails, WriterAt, bounds, DestInv, DestTypeOK, Publishing
  <1>2. /\ w.left # {} /\ w.left \in SUBSET Destinations /\ w.left \subseteq w.due
        /\ (~w.quiet => w.failures # {})
    BY <1>1 DEF WritesAs, WriterType
  <1>3. d \in w.left /\ d \in Destinations
    BY <1>2, FirstOf DEF Here
  <1>4. ASSUME NEW busy \in BOOLEAN, shelf' = shelf,
               writer' = [writer EXCEPT ![h] = NextCopy(FailedAt(w, d, busy))]
        PROVE  DestInv'
    <2>1. PICK v : v = FailedAt(w, d, busy)
      OBVIOUS
    <2>2. /\ v \in WriterType /\ v.id = w.id /\ v.created = w.created /\ v.captured = w.captured
          /\ v.due = w.due /\ v.roles = w.roles /\ v.left = w.left /\ v.published = w.published
          /\ v.failures = w.failures \cup {d}
      BY <1>1, <1>3, <2>1, FailedIs
    <2>3. (~v.quiet => v.failures # {}) /\ (~w.quiet => ~v.quiet)
      BY <1>1, <1>3, <2>1, FailedIs
    <2>4. Min(v.left) \in v.published \cup v.failures
      BY <2>2 DEF Here
    <2>5. writer' = [writer EXCEPT ![h] = NextCopy(v)]
      BY <1>4, <2>1
    <2>6. /\ w.published \subseteq v.published /\ w.failures \subseteq v.failures
      BY <2>2
    <2> QED
      BY <1>1, <1>4, <2>2, <2>3, <2>4, <2>5, <2>6, CopyStep
  <1>5. CASE PublishCopy(h) /\ claimed[d] = h
    <2>1. PICK q : q = [w EXCEPT !.published = w.published \cup {d}, !.at = "rotate"]
      OBVIOUS
    <2>2. writer' = [writer EXCEPT ![h] = q] /\ shelf' = Shelved(h)
      BY <1>5, <2>1 DEF PublishCopy, DestInv, DestTypeOK
    <2>3. w.published \cup {d} \in SUBSET Destinations
      BY <1>1, <1>3 DEF WriterType
    <2>4. "rotate" \in {"away", "capture", "release"} \cup Staging \cup Publishing
      BY DEF Publishing
    <2>5. q \in WriterType
      BY <1>1, <2>1, <2>3, <2>4 DEF WriterType
    <2>6. /\ q.id = w.id /\ q.created = w.created /\ q.captured = w.captured /\ q.at = "rotate"
          /\ q.due = w.due /\ q.roles = w.roles /\ q.left = w.left /\ q.published = w.published \cup {d}
          /\ q.failures = w.failures /\ q.quiet = w.quiet
      BY <1>1, <2>1 DEF WriterType
    <2>7. d = Min(w.left)
      BY DEF Here
    <2> HIDE DEF d
    <2>8. WritesAs(q)
      <3>1. /\ w.id \in 3 .. (writes + 2) /\ w.created <= calendar /\ w.created <= w.captured
            /\ w.due \ w.left \subseteq w.published \cup w.failures
        BY <1>1 DEF WritesAs
      <3> QED
        BY <1>2, <2>6, <2>7, <3>1 DEF WritesAs, Staging, Publishing
    <2>9. \A e \in Destinations : Ahead(q, e) => Ahead(w, e) /\ e # d
      BY <1>1, <2>6, <2>7 DEF Ahead, Staging, Publishing
    <2>10. d \in q.published /\ w.published \subseteq q.published /\ q.at # "retire"
      BY <2>6
    <2>11. ~w.quiet => ~q.quiet
      BY <2>6
    <2> QED
      BY <1>1, <1>5, <2>2, <2>5, <2>6, <2>8, <2>9, <2>10, <2>11, PublicationStep DEF d
  <1>6. CASE PublishCopy(h) /\ claimed[d] # h
    BY <1>4, <1>6 DEF PublishCopy
  <1>7. CASE PublicationFails(h)
    <2>1. CASE shelf' = shelf /\ writer' = [writer EXCEPT ![h] = NextCopy(FailedAt(w, d, FALSE))]
      BY <1>4, <2>1
    <2>2. ASSUME claimed[d] = h, shelf' = Shelved(h),
                 NEW x \in WriterType, x = w \/ x = [w EXCEPT !.published = w.published \cup {d}],
                 writer' = [writer EXCEPT ![h] = NextCopy(FailedAt(x, d, FALSE))]
          PROVE  DestInv'
      <3>1. /\ x.id = w.id /\ x.created = w.created /\ x.captured = w.captured
            /\ x.due = w.due /\ x.roles = w.roles /\ x.left = w.left
            /\ w.published \subseteq x.published
            /\ x.failures = w.failures /\ x.quiet = w.quiet
        <4>1. CASE x = w
          BY <4>1
        <4>2. CASE x = [w EXCEPT !.published = w.published \cup {d}]
          <5> HIDE DEF d
          <5> QED
            BY <1>1, <4>2 DEF WriterType
        <4> QED
          BY <2>2, <4>1, <4>2
      <3>2. PICK v : v = FailedAt(x, d, FALSE)
        OBVIOUS
      <3>3. /\ v \in WriterType /\ v.id = x.id /\ v.created = x.created /\ v.captured = x.captured
            /\ v.due = x.due /\ v.roles = x.roles /\ v.left = x.left /\ v.published = x.published
            /\ v.failures = x.failures \cup {d}
        BY <1>3, <3>2, FailedIs
      <3>4. ~v.quiet /\ v.failures # {}
        BY <1>3, <3>2, FailedIs
      <3>5. Min(v.left) = d /\ d \in v.published \cup v.failures
        BY <3>1, <3>3 DEF Here
      <3>6. PICK q : q = NextCopy(v)
        OBVIOUS
      <3>7. /\ w.published \subseteq v.published /\ w.failures \subseteq v.failures
            /\ v.id = w.id /\ v.created = w.created /\ v.captured = w.captured
            /\ v.due = w.due /\ v.roles = w.roles /\ v.left = w.left
        BY <3>1, <3>3
      <3>8. /\ q \in WriterType /\ WritesAs(q) /\ q.id = w.id
            /\ q.published = v.published /\ q.quiet = v.quiet
            /\ \A e \in Destinations : Ahead(q, e) => Ahead(w, e) /\ e # Min(w.left)
            /\ q.at # "retire"
        BY <1>1, <3>3, <3>4, <3>5, <3>6, <3>7, NextCopyIs
      <3>9. q.created = w.created /\ q.roles = w.roles /\ q.due = w.due
        BY <3>3, <3>6, <3>7 DEF NextCopy, WriterType
      <3>10. \A e \in Destinations : Ahead(q, e) => Ahead(w, e) /\ e # d
        BY <3>8 DEF Here
      <3>11. ~q.quiet /\ w.published \subseteq q.published
        BY <3>4, <3>7, <3>8
      <3>12. writer' = [writer EXCEPT ![h] = q]
        BY <2>2, <3>2, <3>6
      <3> QED
        BY <1>1, <2>2, <3>8, <3>9, <3>10, <3>11, <3>12, PublicationStep
    <2>3. [w EXCEPT !.published = w.published \cup {d}] \in WriterType
      <3>1. w.published \cup {d} \in SUBSET Destinations
        BY <1>1, <1>3 DEF WriterType
      <3> QED
        BY <1>1, <3>1 DEF WriterType
    <2>4. CASE /\ claimed[d] = h /\ shelf' = Shelved(h)
               /\ \E noticed \in BOOLEAN : writer' = [writer EXCEPT ![h] = NextCopy(FailedAt(
                    IF noticed THEN [w EXCEPT !.published = @ \cup {d}] ELSE w, d, FALSE))]
      <3>1. PICK noticed \in BOOLEAN : writer' = [writer EXCEPT ![h] = NextCopy(FailedAt(
                    IF noticed THEN [w EXCEPT !.published = @ \cup {d}] ELSE w, d, FALSE))]
        BY <2>4
      <3>2. CASE noticed
        BY <2>2, <2>3, <2>4, <3>1, <3>2
      <3>3. CASE ~noticed
        BY <1>1, <2>2, <2>4, <3>1, <3>3
      <3> QED
        BY <3>2, <3>3
    <2> QED
      BY <1>7, <2>1, <2>4 DEF PublicationFails
  <1> QED
    BY <1>5, <1>6, <1>7

\* What it is to retire is what is not to be retained.
LEMMA StartRotationStep ==
  ASSUME DestinationsAssumption, DestInv, NEW h \in Hosts, StartRotation(h)
  PROVE  DestInv'
  <1> DEFINE w == writer[h]
  <1>1. /\ w \in WriterType /\ WritesAs(w) /\ PlacesAs(w) /\ w.at = "rotate" /\ w.at \in Publishing
        /\ w.at # "away" /\ UNCHANGED <<calendar, shelf, claimed, writes>>
    BY DEF StartRotation, WriterAt, bounds, DestInv, DestTypeOK, Publishing
  <1>2. PICK d : d = Here(h)
    OBVIOUS
  <1>3. /\ w.left # {} /\ w.left \in SUBSET Destinations /\ w.left \subseteq w.due
        /\ Min(w.left) \in w.published /\ (~w.quiet => w.failures # {}) /\ d = Min(w.left)
    BY <1>1, <1>2 DEF WritesAs, WriterType, Here
  <1>4. d \in w.left /\ d \in Destinations
    BY <1>3, FirstOf
  <1>9. PICK f : f = FailedAt(w, d, TRUE)
    OBVIOUS
  <1>10. /\ f.id = w.id /\ f.created = w.created /\ f.captured = w.captured
         /\ f.due = w.due /\ f.roles = w.roles /\ f.left = w.left /\ f.published = w.published
         /\ f.failures = w.failures \cup {d}
    BY <1>1, <1>4, <1>9, FailedIs, ZenonT(60)
  <1>5. ASSUME NEW v \in WriterType, v = w \/ v = FailedAt(w, d, TRUE),
               writer' = [writer EXCEPT ![h] = NextCopy(v)]
        PROVE  DestInv'
    <2>1. /\ v.id = w.id /\ v.created = w.created /\ v.captured = w.captured
          /\ v.due = w.due /\ v.roles = w.roles /\ v.left = w.left /\ v.published = w.published
          /\ w.failures \subseteq v.failures
      <3>1. CASE v = w
        BY <3>1
      <3>2. CASE v = FailedAt(w, d, TRUE)
        BY <1>9, <1>10, <3>2
      <3> QED
        BY <1>5, <3>1, <3>2
    <2>2. (~v.quiet => v.failures # {}) /\ (~w.quiet => ~v.quiet)
      <3>1. CASE v = w
        BY <1>3, <3>1
      <3>2. CASE v = FailedAt(w, d, TRUE)
        <4>1. ~FailedAt(w, d, TRUE).quiet => FailedAt(w, d, TRUE).failures # {}
          BY <1>1, <1>4, FailedIs
        <4>2. ~w.quiet => ~FailedAt(w, d, TRUE).quiet
          BY <1>1, <1>4, FailedIs
        <4> QED
          BY <3>2, <4>1, <4>2
      <3> QED
        BY <1>5, <3>1, <3>2
    <2>3. Min(v.left) \in v.published \cup v.failures /\ w.published \subseteq v.published
      BY <1>3, <2>1
    <2> QED
      BY <1>1, <1>5, <2>1, <2>2, <2>3, CopyStep
  <1>6. CASE claimed[d] # h
    <2>1. writer' = [writer EXCEPT ![h] = NextCopy(FailedAt(w, d, TRUE))]
      BY <1>2, <1>6 DEF StartRotation
    <2>2. FailedAt(w, d, TRUE) \in WriterType
      BY <1>1, <1>4, FailedIs
    <2> QED
      BY <1>5, <2>1, <2>2
  <1>7. CASE claimed[d] = h /\ ToRetire(shelf[d]) = <<>>
    <2>1. writer' = [writer EXCEPT ![h] = NextCopy(w)]
      BY <1>2, <1>7 DEF StartRotation
    <2> QED
      BY <1>1, <1>5, <2>1
  <1>8. CASE claimed[d] = h /\ ToRetire(shelf[d]) # <<>>
    <2>1. PICK r : r = ToRetire(shelf[d])
      OBVIOUS
    <2>2. shelf[d] \in Seq(CopyType) /\ Distinct(shelf[d])
      BY <1>4 DEF DestInv, DestTypeOK, ShelfAs
    <2>3. r \in Seq(Nat) /\ OnceEach(r) /\ Listed(r) = Superfluous(shelf[d]) /\ r # <<>>
      BY <1>8, <2>1, <2>2, RetiresSuperfluous
    <2>4. PICK q : q = [w EXCEPT !.at = "retire", !.retires = r]
      OBVIOUS
    <2>5. writer' = [writer EXCEPT ![h] = q]
      BY <1>2, <1>8, <2>1, <2>4 DEF StartRotation
    <2>6. "retire" \in {"away", "capture", "release"} \cup Staging \cup Publishing
      BY DEF Publishing
    <2>7. q \in WriterType
      BY <1>1, <2>3, <2>4, <2>6 DEF WriterType
    <2>8. /\ q.id = w.id /\ q.created = w.created /\ q.captured = w.captured /\ q.at = "retire"
          /\ q.due = w.due /\ q.roles = w.roles /\ q.left = w.left /\ q.published = w.published
          /\ q.failures = w.failures /\ q.quiet = w.quiet /\ q.retires = r
      BY <1>1, <2>4 DEF WriterType
    <2>9. WritesAs(q)
      <3>1. /\ w.id \in 3 .. (writes + 2) /\ w.created <= calendar /\ w.created <= w.captured
            /\ w.due \ w.left \subseteq w.published \cup w.failures
        BY <1>1 DEF WritesAs
      <3> QED
        BY <1>3, <2>3, <2>8, <3>1 DEF WritesAs, Staging, Publishing
    <2>10. \A e \in Destinations : Ahead(q, e) => Ahead(w, e)
      BY <1>1, <2>8 DEF Ahead, Staging, Publishing
    <2>11. PlacesAs(q)
      BY <1>1, <2>8, <2>10, PlacesOn
    <2>12. ASSUME NEW e \in Destinations, claimed'[e] = h PROVE HoldsAs(shelf[e], q, e)
      <3>1. HoldsAs(shelf[e], w, e)
        BY <1>1, <2>12 DEF DestInv
      <3>2. e \in q.due /\ Ahead(q, e) => DueStill(shelf[e], q, e)
        BY <2>8, <2>10, <3>1 DEF HoldsAs, DueStill
      <3>3. e = Min(q.left) => OnceEach(q.retires) /\ Listed(q.retires) = Superfluous(shelf[e])
        BY <1>3, <2>3, <2>8
      <3> QED
        BY <3>2, <3>3 DEF HoldsAs
    <2>13. {NoHost, DeadHost} \cap Hosts = {} /\ q.id = writer[h].id /\ writer[h].at # "away"
      BY <1>1, <2>8 DEF DestinationsAssumption
    <2>14. claimed' \in [Destinations -> Hosts \cup {NoHost, DeadHost}]
      BY <1>1 DEF DestInv, DestTypeOK
    <2> QED
      BY <1>1, <2>5, <2>7, <2>9, <2>11, <2>12, <2>13, <2>14, WriterStep
  <1> QED
    BY <1>6, <1>7, <1>8

\* What is left of a list without its first.
LEMMA RestIs ==
  ASSUME NEW r \in Seq(Nat), r # <<>>, OnceEach(r)
  PROVE  /\ Tail(r) \in Seq(Nat) /\ OnceEach(Tail(r)) /\ Listed(Tail(r)) = Listed(r) \ {Head(r)}
         /\ Head(r) \in Listed(r) /\ (Tail(r) = <<>> => Len(r) = 1)
         /\ (Len(r) = 1 => Listed(Tail(r)) = {})
  <1>1. /\ Tail(r) \in Seq(Nat) /\ Len(Tail(r)) = Len(r) - 1
        /\ \A i \in 1 .. Len(Tail(r)) : Tail(r)[i] = r[i + 1]
    BY HeadTailProperties
  <1>2. Len(r) \in Nat \ {0} /\ DOMAIN r = 1 .. Len(r) /\ Head(r) = r[1]
    OBVIOUS
  <1>3. PICK t : t = Tail(r)
    OBVIOUS
  <1>4. /\ t \in Seq(Nat) /\ DOMAIN t = 1 .. (Len(r) - 1) /\ Len(t) = Len(r) - 1
        /\ \A i \in 1 .. (Len(r) - 1) : t[i] = r[i + 1]
    BY <1>1, <1>2, <1>3
  <1>5. \A i \in 1 .. (Len(r) - 1) : i + 1 \in DOMAIN r /\ i + 1 # 1
    BY <1>2
  <1>6. \A i, j \in 1 .. (Len(r) - 1) : i + 1 = j + 1 => i = j
    BY <1>2
  <1>7. ASSUME NEW i \in DOMAIN t, NEW j \in DOMAIN t, t[i] = t[j] PROVE i = j
    <2>1. i \in 1 .. (Len(r) - 1) /\ j \in 1 .. (Len(r) - 1)
      BY <1>4
    <2>2. r[i + 1] = r[j + 1] /\ i + 1 \in DOMAIN r /\ j + 1 \in DOMAIN r
      BY <1>4, <1>5, <1>7, <2>1
    <2>3. i + 1 = j + 1
      BY <2>2 DEF OnceEach
    <2> QED
      BY <1>6, <2>1, <2>3
  <1>8. 1 \in DOMAIN r /\ \A i \in DOMAIN r : i # 1 => i - 1 \in 1 .. (Len(r) - 1) /\ (i - 1) + 1 = i
    BY <1>2
  <1>9. ASSUME NEW x \in Listed(t) PROVE x \in Listed(r) /\ x # r[1]
    <2>1. PICK i \in 1 .. (Len(r) - 1) : t[i] = x
      BY <1>4 DEF Listed
    <2>2. i + 1 \in DOMAIN r /\ r[i + 1] = x /\ i + 1 # 1
      BY <1>4, <1>5, <2>1
    <2> QED
      BY <1>8, <2>2 DEF Listed, OnceEach
  <1>10. ASSUME NEW x \in Listed(r), x # r[1] PROVE x \in Listed(t)
    <2>1. PICK i \in DOMAIN r : r[i] = x
      BY DEF Listed
    <2>2. i - 1 \in 1 .. (Len(r) - 1) /\ (i - 1) + 1 = i
      BY <1>8, <1>10, <2>1
    <2>3. i - 1 \in DOMAIN t /\ t[i - 1] = x
      BY <1>4, <2>1, <2>2
    <2> QED
      BY <2>3 DEF Listed
  <1>11. Listed(t) = Listed(r) \ {r[1]}
    BY <1>9, <1>10
  <1>12. r[1] \in Listed(r)
    BY <1>8 DEF Listed
  <1>13. t = <<>> => Len(r) = 1
    <2>1. t = <<>> => Len(t) = 0
      OBVIOUS
    <2>2. Len(t) = Len(r) - 1 /\ Len(r) \in Nat
      BY <1>2, <1>4
    <2> QED
      BY <2>1, <2>2
  <1>14. Len(r) = 1 => Listed(t) = {}
    BY <1>4 DEF Listed
  <1> QED
    BY <1>2, <1>3, <1>4, <1>7, <1>11, <1>12, <1>13, <1>14 DEF OnceEach

\* A copy that is gone leaves the shelf as it was without it.
LEMMA ShelfWithout ==
  ASSUME NEW s \in Seq(CopyType), NEW k \in DOMAIN s, ShelfAs(s)
  PROVE  /\ ShelfAs(RemoveAt(s, k))
         /\ \A i \in DOMAIN RemoveAt(s, k) : \E j \in DOMAIN s : s[j] = RemoveAt(s, k)[i]
  <1> DEFINE N == Len(s)
  <1>1. PICK t : t = RemoveAt(s, k)
    OBVIOUS
  <1>2. N \in Nat /\ DOMAIN s = 1 .. N /\ k \in 1 .. N
    OBVIOUS
  <1>3. /\ t \in Seq(CopyType) /\ DOMAIN t = 1 .. (N - 1)
        /\ \A i \in 1 .. (N - 1) : t[i] = s[Before(k, i)]
    BY <1>1, RemovedIs
  <1>4. /\ \A i \in 1 .. (N - 1) : Before(k, i) \in 1 .. N
        /\ \A i, j \in 1 .. (N - 1) : i < j => Before(k, i) < Before(k, j)
        /\ \A i, j \in 1 .. (N - 1) : Before(k, i) = Before(k, j) => i = j
    BY <1>2, BeforeIs
  <1> HIDE DEF N
  <1>5. Distinct(t)
    BY <1>2, <1>3, <1>4 DEF Distinct, ShelfAs
  <1>6. Spaced(t)
    BY <1>2, <1>3, <1>4 DEF Spaced, ShelfAs
  <1>7. \A i \in DOMAIN t : t[i].id <= writes + 2
    BY <1>2, <1>3, <1>4 DEF ShelfAs
  <1>8. \A i \in DOMAIN t : \E j \in DOMAIN s : s[j] = t[i]
    BY <1>2, <1>3, <1>4
  <1> QED
    BY <1>1, <1>5, <1>6, <1>7, <1>8 DEF ShelfAs

\* The entry that is retired is there, is one of those not to be kept, and the list says so.
LEMMA RetireeIs ==
  ASSUME DestinationsAssumption, DestInv, NEW h \in Hosts, writer[h].at = "retire",
         claimed[Here(h)] = h, NEW i \in DOMAIN shelf[Here(h)],
         shelf[Here(h)][i].id = Head(writer[h].retires)
  PROVE  /\ Here(h) \in Destinations /\ i \notin Retained(shelf[Here(h)])
         /\ OnceEach(writer[h].retires) /\ writer[h].retires \in Seq(Nat) /\ writer[h].retires # <<>>
         /\ Listed(writer[h].retires) = Superfluous(shelf[Here(h)])
         /\ shelf[Here(h)] \in Seq(CopyType) /\ Distinct(shelf[Here(h)]) /\ ShelfAs(shelf[Here(h)])
  <1> DEFINE w == writer[h]
             s == shelf[Here(h)]
  <1>1. w \in WriterType /\ WritesAs(w)
    BY DEF DestInv, DestTypeOK
  <1>2. w.left # {} /\ w.left \in SUBSET Destinations /\ w.retires # <<>> /\ w.retires \in Seq(Nat)
    BY <1>1 DEF WritesAs, WriterType, Publishing
  <1>3. Here(h) \in Destinations
    BY <1>2, FirstOf DEF Here
  <1>4. OnceEach(w.retires) /\ Listed(w.retires) = Superfluous(s)
    BY <1>3 DEF DestInv, HoldsAs, Here
  <1>5. s \in Seq(CopyType) /\ ShelfAs(s)
    BY <1>3 DEF DestInv, DestTypeOK
  <1>6. Distinct(s)
    BY <1>5 DEF ShelfAs
  <1>7. Head(w.retires) \in Superfluous(s)
    BY <1>2, <1>4, RestIs
  <1>8. i \notin Retained(s)
    <2>1. PICK j \in DOMAIN s \ Retained(s) : s[j].id = Head(w.retires)
      BY <1>7 DEF Superfluous
    <2>2. i = j
      BY <1>6, <2>1 DEF Distinct
    <2> QED
      BY <2>1, <2>2
  <1> QED
    BY <1>2, <1>3, <1>4, <1>5, <1>6, <1>8

\* What is on a shelf was on another, what is ahead of a call, and what it holds.
TakenFrom(t, s) == \A j \in DOMAIN t : \E k \in DOMAIN s : s[k].id = t[j].id
NoMoreAhead(q, w) == \A e \in Destinations : Ahead(q, e) => Ahead(w, e)
HoldsElsewhere(h, d, q) ==
  \A e \in Destinations : claimed[e] = h /\ e # d => HoldsAs(shelf[e], q, e)

\* The holder of a claim has taken a copy from the shelf.
LEMMA RetiredStep ==
  ASSUME DestInv, NEW h \in Hosts, NEW d \in Destinations, claimed[d] = h,
         NEW q \in WriterType, NEW t \in Seq(CopyType),
         writer' = [writer EXCEPT ![h] = q], shelf' = [shelf EXCEPT ![d] = t],
         UNCHANGED <<calendar, claimed, writes>>,
         writer[h].at # "away", q.id = writer[h].id, WritesAs(q), ShelfAs(t),
         TakenFrom(t, shelf[d]),
         writer[h].published \subseteq q.published, q.quiet = writer[h].quiet,
         NoMoreAhead(q, writer[h]), HoldsAs(t, q, d), HoldsElsewhere(h, d, q)
  PROVE  DestInv'
  <1>1. PlacesAs(writer[h])
    BY DEF DestInv
  <1>2. shelf'[d] = t /\ \A e \in Destinations : e # d => shelf'[e] = shelf[e]
    BY DEF DestInv, DestTypeOK
  <1>3. \A e \in Destinations : Ahead(q, e)' <=> Ahead(q, e)
    BY DEF Ahead
  <1>4. ASSUME NEW e \in Destinations, Placed(q, e)' PROVE Placed(writer[h], e)
    <2>1. PICK j \in DOMAIN shelf'[e] : shelf'[e][j].id = q.id
      BY <1>4 DEF Placed
    <2>2. \E k \in DOMAIN shelf[e] : shelf[e][k].id = writer[h].id
      BY <1>2, <2>1 DEF TakenFrom
    <2> QED
      BY <2>2 DEF Placed
  <1>5. PlacesAs(q)'
    BY <1>1, <1>3, <1>4 DEF PlacesAs, NoMoreAhead
  <1>6. \A i \in DOMAIN t : \/ t[i].id = writer[h].id
                           \/ \E j \in DOMAIN shelf[d] : shelf[d][j].id = t[i].id
    BY DEF TakenFrom
  <1>7. \A e \in Destinations : claimed[e] = h /\ e # d => HoldsAs(shelf[e], q, e)
    BY DEF HoldsElsewhere
  <1> QED
    BY <1>5, <1>6, <1>7, ShelfStep

\* One entry is retired, and the others are still to be.
LEMMA RetireEntryStep ==
  ASSUME DestinationsAssumption, DestInv, NEW h \in Hosts, RetireEntry(h)
  PROVE  DestInv'
  <1> DEFINE w == writer[h]
  <1>1. /\ w \in WriterType /\ WritesAs(w) /\ PlacesAs(w) /\ w.at = "retire" /\ w.at \in Publishing
        /\ w.at # "away" /\ UNCHANGED <<calendar, claimed, writes>>
    BY DEF RetireEntry, WriterAt, bounds, DestInv, DestTypeOK, Publishing
  <1>2. PICK d : d = Here(h)
    OBVIOUS
  <1>3. /\ w.left # {} /\ w.left \in SUBSET Destinations /\ w.left \subseteq w.due
        /\ Min(w.left) \in w.published /\ (~w.quiet => w.failures # {}) /\ d = Min(w.left)
    BY <1>1, <1>2 DEF WritesAs, WriterType, Here
  <1>4. d \in w.left /\ d \in Destinations
    BY <1>3, FirstOf
  <1>5. CASE claimed[d] # h
    <2>1. PICK v : v = FailedAt(w, d, TRUE)
      OBVIOUS
    <2>2. /\ v \in WriterType /\ v.id = w.id /\ v.created = w.created /\ v.captured = w.captured
          /\ v.due = w.due /\ v.roles = w.roles /\ v.left = w.left /\ v.published = w.published
          /\ v.failures = w.failures \cup {d}
      BY <1>1, <1>4, <2>1, FailedIs, ZenonT(60)
    <2>3. ~v.quiet => v.failures # {}
      BY <1>1, <1>4, <2>1, FailedIs
    <2>4. ~w.quiet => ~v.quiet
      BY <1>1, <1>4, <2>1, FailedIs
    <2>5. Min(v.left) \in v.published \cup v.failures
      BY <1>3, <2>2
    <2>6. writer' = [writer EXCEPT ![h] = NextCopy(v)] /\ shelf' = shelf
      BY <1>2, <1>5, <2>1 DEF RetireEntry
    <2>7. /\ w.published \subseteq v.published /\ w.failures \subseteq v.failures
      BY <2>2
    <2> QED
      BY <1>1, <2>2, <2>3, <2>4, <2>5, <2>6, <2>7, CopyStep
  <1>6. CASE claimed[d] = h
    <2>1. PICK i \in DOMAIN shelf[d] : /\ shelf[d][i].id = Head(w.retires)
                                       /\ shelf' = [shelf EXCEPT ![d] = RemoveAt(@, i)]
      BY <1>2, <1>6 DEF RetireEntry
    <2>2. /\ i \notin Retained(shelf[d]) /\ OnceEach(w.retires) /\ w.retires \in Seq(Nat)
          /\ w.retires # <<>> /\ Listed(w.retires) = Superfluous(shelf[d])
          /\ shelf[d] \in Seq(CopyType) /\ Distinct(shelf[d]) /\ ShelfAs(shelf[d])
      BY <1>1, <1>2, <1>6, <2>1, RetireeIs
    <2>3. PICK t : t = RemoveAt(shelf[d], i)
      OBVIOUS
    <2>4. t \in Seq(CopyType) /\ Superfluous(t) = Superfluous(shelf[d]) \ {shelf[d][i].id}
      BY <2>1, <2>2, <2>3, RemovedIs, RetirementIs
    <2>5. ShelfAs(t) /\ \A j \in DOMAIN t : \E k \in DOMAIN shelf[d] : shelf[d][k] = t[j]
      BY <2>2, <2>3, ShelfWithout
    <2>6. TakenFrom(t, shelf[d])
      BY <2>5 DEF TakenFrom
    <2>7. shelf' = [shelf EXCEPT ![d] = t]
      BY <1>4, <2>1, <2>3 DEF DestInv, DestTypeOK
    <2>8. PICK rest : rest = Tail(w.retires)
      OBVIOUS
    <2>9. /\ rest \in Seq(Nat) /\ OnceEach(rest) /\ Listed(rest) = Superfluous(t)
      BY <2>1, <2>2, <2>4, <2>8, RestIs
    <2>10. \A e \in Destinations : claimed[e] = h => HoldsAs(shelf[e], w, e)
      BY DEF DestInv
    <2>11. shelf'[d] = t /\ \A e \in Destinations : e # d => shelf'[e] = shelf[e]
      BY <1>4, <2>7 DEF DestInv, DestTypeOK
    <2>12. ASSUME NEW q \in WriterType, q.id = w.id, w.published \subseteq q.published,
                  q.quiet = w.quiet, WritesAs(q), writer' = [writer EXCEPT ![h] = q],
                  \A e \in Destinations : Ahead(q, e) => Ahead(w, e),
                  HoldsAs(t, q, d),
                  \A e \in Destinations : claimed[e] = h /\ e # d => HoldsAs(shelf[e], q, e)
           PROVE  DestInv'
      <3>1. ShelfAs(t) /\ t \in Seq(CopyType)
        BY <2>4, <2>5
      <3>2. /\ writer[h].at # "away" /\ q.id = writer[h].id /\ claimed[d] = h /\ WritesAs(q)
            /\ writer[h].published \subseteq q.published /\ HoldsAs(t, q, d)
            /\ UNCHANGED <<calendar, claimed, writes>> /\ writer' = [writer EXCEPT ![h] = q]
        BY <1>1, <1>6, <2>12
      <3>3. q.quiet = writer[h].quiet
        BY <2>12
      <3>4. NoMoreAhead(q, writer[h])
        BY <2>12 DEF NoMoreAhead
      <3>5. HoldsElsewhere(h, d, q)
        BY <2>12 DEF HoldsElsewhere
      <3>6. d \in Destinations
        BY <1>4
      <3> QED
        BY <2>6, <2>7, <3>1, <3>2, <3>3, <3>4, <3>5, <3>6, RetiredStep
    <2>13. CASE rest # <<>>
      <3>1. PICK q : q = [w EXCEPT !.retires = rest]
        OBVIOUS
      <3>2. writer' = [writer EXCEPT ![h] = q]
        BY <1>2, <1>6, <2>8, <2>13, <3>1 DEF RetireEntry
      <3>3. q \in WriterType
        BY <1>1, <2>9, <3>1 DEF WriterType
      <3>4. /\ q.id = w.id /\ q.created = w.created /\ q.captured = w.captured /\ q.at = "retire"
            /\ q.due = w.due /\ q.roles = w.roles /\ q.left = w.left /\ q.published = w.published
            /\ q.failures = w.failures /\ q.quiet = w.quiet /\ q.retires = rest
        BY <1>1, <3>1 DEF WriterType
      <3>5. WritesAs(q)
        <4>1. /\ w.id \in 3 .. (writes + 2) /\ w.created <= calendar /\ w.created <= w.captured
              /\ w.due \ w.left \subseteq w.published \cup w.failures
          BY <1>1 DEF WritesAs
        <4> QED
          BY <1>3, <2>13, <3>4, <4>1 DEF WritesAs, Staging, Publishing
      <3>6. \A e \in Destinations : Ahead(q, e) => Ahead(w, e)
        BY <1>1, <3>4 DEF Ahead
      <3>7. d = Min(q.left) /\ ~Ahead(q, d)
        BY <1>3, <3>4 DEF Ahead, Staging
      <3>8. HoldsAs(t, q, d)
        BY <2>9, <3>4, <3>7 DEF HoldsAs
      <3>9. ASSUME NEW e \in Destinations, claimed[e] = h, e # d PROVE HoldsAs(shelf[e], q, e)
        BY <2>10, <3>4, <3>6, <3>7, <3>9 DEF HoldsAs, DueStill
      <3>10. q.quiet = w.quiet /\ w.published \subseteq q.published
        BY <3>4
      <3> QED
        BY <2>12, <3>2, <3>3, <3>4, <3>5, <3>6, <3>8, <3>9, <3>10
    <2>14. CASE rest = <<>>
      <3>1. PICK q : q = NextCopy(w)
        OBVIOUS
      <3>2. writer' = [writer EXCEPT ![h] = q]
        BY <1>2, <1>6, <2>8, <2>14, <3>1 DEF RetireEntry
      <3>3. Min(w.left) \in w.published \cup w.failures
        BY <1>3
      <3>4. /\ q \in WriterType /\ WritesAs(q) /\ q.id = w.id /\ q.published = w.published
            /\ q.quiet = w.quiet /\ q.at # "retire"
            /\ \A e \in Destinations : Ahead(q, e) => Ahead(w, e) /\ e # Min(w.left)
            /\ \A e \in Destinations : HoldsAs(shelf[e], w, e) => HoldsAs(shelf[e], q, e)
        BY <1>1, <1>3, <3>1, <3>3, NextCopyIs
      <3>5. HoldsAs(t, q, d)
        BY <1>3, <1>4, <3>4 DEF HoldsAs
      <3>6. \A e \in Destinations : claimed[e] = h /\ e # d => HoldsAs(shelf[e], q, e)
        BY <2>10, <3>4
      <3>7. q.quiet = w.quiet /\ w.published \subseteq q.published
        BY <3>4
      <3> QED
        BY <2>12, <3>2, <3>4, <3>5, <3>6, <3>7
    <2> QED
      BY <2>13, <2>14
  <1> QED
    BY <1>5, <1>6

\* A rotation that fails leaves what it published.
LEMMA RotationFailsStep ==
  ASSUME DestinationsAssumption, DestInv, NEW h \in Hosts, RotationFails(h)
  PROVE  DestInv'
  <1> DEFINE w == writer[h]
  <1>1. /\ w \in WriterType /\ WritesAs(w) /\ w.at \in {"rotate", "retire"} /\ w.at \in Publishing
        /\ UNCHANGED <<calendar, shelf, claimed, writes>>
    BY DEF RotationFails, DestInv, DestTypeOK, Publishing
  <1>2. PICK d : d = Here(h)
    OBVIOUS
  <1>3. w.left # {} /\ w.left \in SUBSET Destinations /\ Min(w.left) \in w.published /\ d = Min(w.left)
    BY <1>1, <1>2 DEF WritesAs, WriterType, Here
  <1>4. d \in Destinations
    BY <1>3, FirstOf
  <1>5. PICK v : v = FailedAt(w, d, FALSE)
    OBVIOUS
  <1>6. /\ v \in WriterType /\ v.id = w.id /\ v.created = w.created /\ v.captured = w.captured
        /\ v.due = w.due /\ v.roles = w.roles /\ v.left = w.left /\ v.published = w.published
        /\ v.failures = w.failures \cup {d}
    BY <1>1, <1>4, <1>5, FailedIs
  <1>7. ~v.quiet => v.failures # {}
    BY <1>1, <1>4, <1>5, FailedIs
  <1>8. ~w.quiet => ~v.quiet
    BY <1>1, <1>4, <1>5, FailedIs
  <1>9. Min(v.left) \in v.published \cup v.failures
    BY <1>3, <1>6
  <1>10. writer' = [writer EXCEPT ![h] = NextCopy(v)]
    BY <1>2, <1>5 DEF RotationFails
  <1>11. w.published \subseteq v.published /\ w.failures \subseteq v.failures
    BY <1>6
  <1> QED
    BY <1>1, <1>6, <1>7, <1>8, <1>9, <1>10, <1>11, CopyStep

\* The last of some destinations is one of them.
LEMMA LastOf ==
  ASSUME DestinationsAssumption, NEW T \in SUBSET Destinations, T # {}
  PROVE  Max(T) \in T
  <1>1. Locations \in Nat /\ T \subseteq 1 .. Locations
    BY DEF DestinationsAssumption, Destinations
  <1>2. IsFiniteSet(1 .. Locations)
    BY <1>1, FS_Interval
  <1>3. T \in SUBSET (1 .. Locations) /\ T \in SUBSET Nat
    BY <1>1
  <1>4. IsFiniteSet(T)
    BY <1>2, <1>3, FS_Subset
  <1>5. \E m \in T : \A n \in T : n =< m
    BY <1>3, <1>4, FiniteGreatest
  <1> QED
    BY <1>5 DEF Max

\* At the end of a call nothing is ahead of it: what it knows does not rest on its claims.
LEMMA LeavingStep ==
  ASSUME DestinationsAssumption, DestInv, NEW h \in Hosts, NEW v \in WriterType,
         writer[h].at = "release", v.at = "release", v.id = writer[h].id,
         v.created = writer[h].created, v.due = writer[h].due, v.result = writer[h].result,
         v.published = writer[h].published, writer[h].failures \subseteq v.failures,
         ~v.quiet => v.failures # {}, ~writer[h].quiet => ~v.quiet,
         writer' = [writer EXCEPT ![h] = v], UNCHANGED <<calendar, shelf, writes>>,
         claimed' \in [Destinations -> Hosts \cup {NoHost, DeadHost}],
         \A d \in Destinations : claimed'[d] = claimed[d] \/ claimed'[d] \in {h, NoHost, DeadHost}
  PROVE  DestInv'
  <1> DEFINE w == writer[h]
  <1>1. w \in WriterType /\ WritesAs(w) /\ PlacesAs(w) /\ w.at # "away"
    BY DEF DestInv, DestTypeOK
  <1>2. /\ w.id \in 3 .. (writes + 2) /\ w.created <= calendar
        /\ w.result = "none" => w.due \subseteq w.published \cup w.failures
    BY <1>1 DEF WritesAs
  <1>3. WritesAs(v)
    BY <1>2 DEF WritesAs, Staging, Publishing
  <1>4. \A d \in Destinations : ~Ahead(v, d)
    BY DEF Ahead, Staging, Publishing
  <1>5. PlacesAs(v)
    BY <1>1, <1>4, PlacesOn
  <1>6. \A d \in Destinations : HoldsAs(shelf[d], v, d)
    BY <1>4 DEF HoldsAs
  <1>7. {NoHost, DeadHost} \cap Hosts = {}
    BY DEF DestinationsAssumption
  <1> QED
    BY <1>1, <1>3, <1>5, <1>6, <1>7, WriterStep

\* A claim is released, is found lost, or is left behind.
LEMMA ReleaseSteps ==
  ASSUME DestinationsAssumption, DestInv, NEW h \in Hosts, ReleaseClaim(h) \/ ReleaseFails(h)
  PROVE  DestInv'
  <1> DEFINE w == writer[h]
  <1>1. /\ w \in WriterType /\ WritesAs(w) /\ w.at = "release" /\ w.held # {}
        /\ UNCHANGED <<calendar, shelf, writes>>
    BY DEF ReleaseClaim, ReleaseFails, WriterAt, bounds, DestInv, DestTypeOK
  <1>2. ~w.quiet => w.failures # {}
    BY <1>1 DEF WritesAs
  <1>3. PICK d : d = Max(w.held)
    OBVIOUS
  <1>4. d \in Destinations
    BY <1>1, <1>3, LastOf DEF WriterType
  <1>5. PICK rest : rest = [w EXCEPT !.held = w.held \ {d}]
    OBVIOUS
  <1>6. /\ rest \in WriterType /\ rest.at = "release" /\ rest.id = w.id /\ rest.created = w.created
        /\ rest.due = w.due /\ rest.result = w.result /\ rest.published = w.published
        /\ rest.failures = w.failures /\ rest.quiet = w.quiet
    BY <1>1, <1>5 DEF WriterType
  <1>7. ASSUME writer' = [writer EXCEPT ![h] = rest],
               claimed' \in [Destinations -> Hosts \cup {NoHost, DeadHost}],
               \A e \in Destinations : claimed'[e] = claimed[e] \/ claimed'[e] \in {h, NoHost, DeadHost}
        PROVE  DestInv'
    <2>1. ~rest.quiet => rest.failures # {}
      BY <1>2, <1>6
    <2>2. ~w.quiet => ~rest.quiet
      BY <1>6
    <2>3. w.failures \subseteq rest.failures
      BY <1>6
    <2> QED
      BY <1>1, <1>6, <1>7, <2>1, <2>2, <2>3, LeavingStep
  <1>8. CASE ReleaseFails(h)
    <2>1. /\ writer' = [writer EXCEPT ![h] = rest]
          /\ claimed' = [claimed EXCEPT ![d] = DeadHost]
      BY <1>3, <1>5, <1>8 DEF ReleaseFails
    <2>2. /\ claimed' \in [Destinations -> Hosts \cup {NoHost, DeadHost}]
          /\ \A e \in Destinations : claimed'[e] = claimed[e] \/ claimed'[e] \in {h, NoHost, DeadHost}
      BY <2>1 DEF DestInv, DestTypeOK
    <2> QED
      BY <1>7, <2>1, <2>2
  <1>9. CASE ReleaseClaim(h)
    <2>1. ReleaseHold(h, d)
      BY <1>3, <1>9 DEF ReleaseClaim
    <2>2. /\ claimed' \in [Destinations -> Hosts \cup {NoHost, DeadHost}]
          /\ \A e \in Destinations : claimed'[e] = claimed[e] \/ claimed'[e] \in {h, NoHost, DeadHost}
      BY <1>4, <2>1, ReleasedIs
    <2>3. CASE claimed[d] = h
      <3>1. writer' = [writer EXCEPT ![h] = rest]
        BY <1>3, <1>5, <1>9, <2>3 DEF ReleaseClaim
      <3> QED
        BY <1>7, <2>2, <3>1
    <2>4. CASE claimed[d] # h
      <3>1. PICK v : v = FailedAt(rest, d, TRUE)
        OBVIOUS
      <3>2. writer' = [writer EXCEPT ![h] = v]
        BY <1>3, <1>5, <1>9, <2>4, <3>1 DEF ReleaseClaim
      <3>3. /\ v \in WriterType /\ v.at = "release" /\ v.id = w.id /\ v.created = w.created
            /\ v.due = w.due /\ v.published = w.published /\ v.failures = w.failures \cup {d}
        <4>1. rest \in WriterType
          BY <1>6
        <4>2. /\ v \in WriterType /\ v.at = rest.at /\ v.id = rest.id
              /\ v.created = rest.created /\ v.due = rest.due
              /\ v.published = rest.published /\ v.failures = rest.failures \cup {d}
          BY <1>4, <3>1, <4>1, FailedIs
        <4> QED
          BY <1>6, <4>2
      <3>4. ~v.quiet => v.failures # {}
        BY <3>3
      <3>5. ~rest.quiet => ~v.quiet
        <4>1. rest \in WriterType
          BY <1>6
        <4> QED
          BY <1>4, <3>1, <4>1, FailedIs
      <3>6. ~w.quiet => ~v.quiet
        BY <1>6, <3>5
      <3>7. v.result = w.result
        BY <1>6, <3>1 DEF FailedAt, WriterType
      <3>8. w.failures \subseteq v.failures
        BY <3>3
      <3> QED
        BY <1>1, <2>2, <3>2, <3>3, <3>4, <3>6, <3>7, <3>8, LeavingStep
    <2> QED
      BY <2>3, <2>4
  <1> QED
    BY <1>8, <1>9

\* A call ends, or its process does.
LEMMA EndSteps ==
  ASSUME DestinationsAssumption, DestInv, NEW h \in Hosts, FinishWrite(h) \/ HostDies(h)
  PROVE  DestInv'
  <1>1. /\ writer' = [writer EXCEPT ![h] = NotWriting] /\ UNCHANGED <<calendar, shelf, writes>>
    BY DEF FinishWrite, HostDies, bounds
  <1>2. /\ claimed' \in [Destinations -> Hosts \cup {NoHost, DeadHost}]
        /\ \A d \in Destinations : claimed'[d] = claimed[d] \/ claimed'[d] \in {h, NoHost, DeadHost}
    BY DEF FinishWrite, HostDies, DestInv, DestTypeOK
  <1>3. NotWriting \in WriterType /\ NotWriting.at = "away"
    BY NotWritingIs
  <1>4. /\ WritesAs(NotWriting) /\ PlacesAs(NotWriting)
        /\ \A d \in Destinations : HoldsAs(shelf[d], NotWriting, d)
    BY <1>3 DEF WritesAs, PlacesAs, HoldsAs, Ahead, Staging, Publishing
  <1>5. {NoHost, DeadHost} \cap Hosts = {}
    BY DEF DestinationsAssumption
  <1> QED
    BY <1>1, <1>2, <1>3, <1>4, <1>5, WriterStep

\* A claim lapses, or a day passes: what is known stays known.
LEMMA TimeSteps ==
  ASSUME DestinationsAssumption, DestInv,
         DayPasses \/ (\E d \in Destinations : ClaimLapses(d)) \/ UNCHANGED xvars
  PROVE  DestInv'
  <1>1. /\ writer' = writer /\ shelf' = shelf /\ writes' = writes
        /\ calendar' \in Nat /\ calendar <= calendar'
        /\ claimed' \in [Destinations -> Hosts \cup {NoHost, DeadHost}]
        /\ \A d \in Destinations : claimed'[d] = claimed[d] \/ claimed'[d] = NoHost
    BY DEF DayPasses, ClaimLapses, xvars, bounds, DestInv, DestTypeOK
  <1>2. DestTypeOK'
    BY <1>1 DEF DestInv, DestTypeOK
  <1>3. ASSUME NEW k \in Hosts PROVE (WritesAs(writer[k]) /\ PlacesAs(writer[k]))'
    <2>1. PICK r : r = writer[k]
      OBVIOUS
    <2>2. WritesAs(r) /\ PlacesAs(r) /\ r \in WriterType /\ calendar \in Nat
      BY <2>1 DEF DestInv, DestTypeOK
    <2>3. r.created <= calendar => r.created <= calendar'
      BY <1>1, <2>2 DEF WriterType
    <2>4. WritesAs(r)' /\ PlacesAs(r)'
      BY <1>1, <2>2, <2>3 DEF WritesAs, PlacesAs, Placed
    <2> QED
      BY <1>1, <2>1, <2>4
  <1>4. \A k, l \in Hosts :
          writer'[k].at # "away" /\ writer'[l].at # "away" /\ writer'[k].id = writer'[l].id => k = l
    BY <1>1 DEF DestInv
  <1>5. \A d \in Destinations : ShelfAs(shelf[d])'
    BY <1>1 DEF DestInv, ShelfAs
  <1>6. ASSUME NEW k \in Hosts, NEW d \in Destinations, claimed'[d] = k
        PROVE  HoldsAs(shelf[d], writer[k], d)'
    <2>1. claimed[d] = k
      BY <1>1, <1>6 DEF DestinationsAssumption
    <2>2. HoldsAs(shelf'[d], writer'[k], d)
      BY <1>1, <2>1 DEF DestInv
    <2> QED
      BY <2>2 DEF HoldsAs, Ahead, DueStill
  <1> QED
    BY <1>2, <1>3, <1>4, <1>5, <1>6 DEF DestInv

\* Without a claim on it, a shelf may lose copies, and only that.
LEMMA UnclaimedStep ==
  ASSUME DestinationsAssumption, DestInv, NEW d \in Destinations, claimed[d] = NoHost,
         NEW t \in Seq(CopyType), ShelfAs(t), TakenFrom(t, shelf[d]),
         shelf' = [shelf EXCEPT ![d] = t], UNCHANGED <<calendar, claimed, writer, writes>>
  PROVE  DestInv'
  <1>1. shelf'[d] = t /\ \A e \in Destinations : e # d => shelf'[e] = shelf[e]
    BY DEF DestInv, DestTypeOK
  <1>2. DestTypeOK'
    BY DEF DestInv, DestTypeOK
  <1>3. ASSUME NEW k \in Hosts PROVE (WritesAs(writer[k]) /\ PlacesAs(writer[k]))'
    <2>1. PICK r : r = writer[k]
      OBVIOUS
    <2>2. WritesAs(r) /\ PlacesAs(r)
      BY <2>1 DEF DestInv
    <2>3. ASSUME NEW e \in Destinations, Placed(r, e)' PROVE Placed(r, e)
      <3>1. PICK j \in DOMAIN shelf'[e] : shelf'[e][j].id = r.id
        BY <2>3 DEF Placed
      <3>2. \E i \in DOMAIN shelf[e] : shelf[e][i].id = r.id
        BY <1>1, <3>1 DEF TakenFrom
      <3> QED
        BY <3>2 DEF Placed
    <2>4. \A e \in Destinations : Ahead(r, e)' <=> Ahead(r, e)
      BY DEF Ahead
    <2>5. PlacesAs(r)'
      BY <2>2, <2>3, <2>4 DEF PlacesAs
    <2>6. WritesAs(r)'
      BY <2>2 DEF WritesAs
    <2> QED
      BY <2>1, <2>5, <2>6
  <1>4. \A k, l \in Hosts :
          writer'[k].at # "away" /\ writer'[l].at # "away" /\ writer'[k].id = writer'[l].id => k = l
    BY DEF DestInv
  <1>5. ASSUME NEW e \in Destinations PROVE ShelfAs(shelf[e])'
    <2>1. ShelfAs(shelf'[e])
      BY <1>1 DEF DestInv
    <2> QED
      BY <2>1 DEF ShelfAs
  <1>6. ASSUME NEW k \in Hosts, NEW e \in Destinations, claimed'[e] = k
        PROVE  HoldsAs(shelf[e], writer[k], e)'
    <2>1. e # d
      BY <1>6 DEF DestinationsAssumption
    <2>2. HoldsAs(shelf'[e], writer'[k], e)
      BY <1>1, <1>6, <2>1 DEF DestInv
    <2> QED
      BY <2>2 DEF HoldsAs, Ahead, DueStill
  <1> QED
    BY <1>2, <1>3, <1>4, <1>5, <1>6 DEF DestInv

\* A copy is pinned or deleted, where nobody has a claim.
LEMMA HandSteps ==
  ASSUME DestinationsAssumption, DestInv, NEW d \in Destinations, PinCopy(d) \/ DeleteCopy(d)
  PROVE  DestInv'
  <1>1. claimed[d] = NoHost /\ UNCHANGED <<calendar, claimed, writer, writes>>
    BY DEF PinCopy, DeleteCopy
  <1>2. PICK s : s = shelf[d]
    OBVIOUS
  <1>3. s \in Seq(CopyType) /\ ShelfAs(s)
    BY <1>2 DEF DestInv, DestTypeOK
  <1>4. CASE PinCopy(d)
    <2>1. PICK i \in DOMAIN s : shelf' = [shelf EXCEPT ![d][i].pinned = TRUE]
      BY <1>2, <1>4 DEF PinCopy
    <2>2. PICK c : c = [s[i] EXCEPT !.pinned = TRUE]
      OBVIOUS
    <2>3. /\ c \in CopyType /\ c.id = s[i].id /\ c.roles = s[i].roles
          /\ c.captured = s[i].captured /\ c.week = s[i].week
      <3>1. s[i] \in CopyType
        BY <1>3
      <3>2. c \in CopyType
        BY <2>2, <3>1 DEF CopyType
      <3>3. /\ c.id = s[i].id /\ c.roles = s[i].roles
            /\ c.captured = s[i].captured /\ c.week = s[i].week
        BY <2>2, <3>1 DEF CopyType
      <3> QED
        BY <3>2, <3>3
    <2>4. PICK t : t = [s EXCEPT ![i] = c]
      OBVIOUS
    <2>5. shelf' = [shelf EXCEPT ![d] = t]
      BY <1>2, <2>1, <2>2, <2>4 DEF DestInv, DestTypeOK
    <2>6. t \in Seq(CopyType) /\ DOMAIN t = DOMAIN s
      BY <1>3, <2>3, <2>4
    <2>7. \A j \in DOMAIN s : /\ t[j].id = s[j].id /\ t[j].roles = s[j].roles
                              /\ t[j].captured = s[j].captured /\ t[j].week = s[j].week
      BY <1>3, <2>3, <2>4
    <2>8. ShelfAs(t)
      BY <1>3, <2>6, <2>7 DEF ShelfAs, Distinct, Spaced
    <2>9. TakenFrom(t, shelf[d])
      BY <1>2, <2>6, <2>7 DEF TakenFrom
    <2> QED
      BY <1>1, <2>5, <2>6, <2>8, <2>9, UnclaimedStep
  <1>5. CASE DeleteCopy(d)
    <2>1. PICK i \in DOMAIN s : shelf' = [shelf EXCEPT ![d] = RemoveAt(@, i)]
      BY <1>2, <1>5 DEF DeleteCopy
    <2>2. PICK t : t = RemoveAt(s, i)
      OBVIOUS
    <2>3. shelf' = [shelf EXCEPT ![d] = t]
      BY <1>2, <2>1, <2>2 DEF DestInv, DestTypeOK
    <2>4. t \in Seq(CopyType)
      BY <1>3, <2>2, RemovedIs
    <2>5. ShelfAs(t) /\ \A j \in DOMAIN t : \E k \in DOMAIN s : s[k] = t[j]
      BY <1>3, <2>2, ShelfWithout
    <2>6. TakenFrom(t, shelf[d])
      BY <1>2, <2>5 DEF TakenFrom
    <2> QED
      BY <1>1, <2>3, <2>4, <2>5, <2>6, UnclaimedStep
  <1> QED
    BY <1>4, <1>5

\* A destination fails before its snapshot is staged.
LEMMA StagingFailsHere ==
  ASSUME DestinationsAssumption, DestInv, NEW h \in Hosts, StagingFails(h)
  PROVE  DestInv'
  <1>1. /\ writer[h].at \in Staging /\ UNCHANGED <<calendar, shelf, writes>>
        /\ writer' = [writer EXCEPT ![h] = NextLocation(FailedAt(writer[h], writer[h].loc, FALSE))]
        /\ ReleaseHold(h, writer[h].loc)
    BY DEF StagingFails, Staging
  <1> QED
    BY <1>1, StagingFailsStep

\* The shelves that earlier writes may have left.
LEMMA EarlierIs ==
  ASSUME DestinationsAssumption, NEW s \in Earlier
  PROVE  s \in Seq(CopyType) /\ Distinct(s) /\ Spaced(s) /\ \A i \in DOMAIN s : s[i].id <= 2
  <1> DEFINE Of(id, day, roles) ==
               Copy(id, day, roles, IF "weekly" \in roles THEN Week(day) ELSE 0, roles = {"manual"})
  <1>1. /\ Later \in Nat /\ Later >= Interval /\ Week(0) # Week(Later) /\ Week(0) \in Nat
        /\ Week(Later) \in Nat /\ Interval \in Nat /\ 0 \in Nat
    BY WeekIs DEF DestinationsAssumption
  <1>2. CASE s = <<>>
    BY <1>2 DEF Distinct, Spaced
  <1>3. ASSUME NEW first \in CopyType, NEW second \in CopyType, s = <<first, second>>,
               first.id = 1, second.id = 2, first.captured = 0, second.captured = Later,
               "weekly" \in second.roles => first.week = Week(0) /\ second.week = Week(Later)
        PROVE  s \in Seq(CopyType) /\ Distinct(s) /\ Spaced(s) /\ \A i \in DOMAIN s : s[i].id <= 2
    <2>1. s \in Seq(CopyType) /\ DOMAIN s = {1, 2} /\ s[1] = first /\ s[2] = second
      BY <1>3
    <2>2. Distinct(s) /\ \A i \in DOMAIN s : s[i].id <= 2
      BY <1>3, <2>1 DEF Distinct
    <2>3. ASSUME NEW i \in DOMAIN s, NEW j \in DOMAIN s, i < j PROVE i = 1 /\ j = 2
      BY <2>1, <2>3
    <2>4. second.captured >= first.captured + Interval
      BY <1>1, <1>3
    <2>5. "weekly" \in first.roles \cap second.roles => first.week # second.week
      BY <1>1, <1>3
    <2>6. Spaced(s)
      BY <2>1, <2>3, <2>4, <2>5 DEF Spaced
    <2> QED
      BY <2>1, <2>2, <2>6
  <1>4. ASSUME NEW id \in Nat, NEW day \in Nat, NEW roles \in SUBSET Roles, Week(day) \in Nat
        PROVE  /\ Of(id, day, roles) \in CopyType /\ Of(id, day, roles).id = id
               /\ Of(id, day, roles).captured = day /\ Of(id, day, roles).roles = roles
               /\ "weekly" \in roles => Of(id, day, roles).week = Week(day)
    <2>1. PICK pin \in BOOLEAN : pin = (roles = {"manual"})
      OBVIOUS
    <2>2. PICK week \in Nat : week = IF "weekly" \in roles THEN Week(day) ELSE 0
      BY <1>4
    <2>3. Of(id, day, roles) = [id |-> id, captured |-> day, roles |-> roles, week |-> week, pinned |-> pin]
      BY <2>1, <2>2 DEF Copy
    <2>4. [id |-> id, captured |-> day, roles |-> roles, week |-> week, pinned |-> pin] \in CopyType
      BY DEF CopyType
    <2> HIDE DEF Of
    <2> QED
      BY <2>2, <2>3, <2>4
  <1>5. \/ s = <<>> \/ s = <<Of(1, 0, {"scheduled", "weekly"}), Of(2, Later, {"scheduled", "weekly"})>>
        \/ \E roles \in {{"manual"}, {"weekly"}} : s = <<Of(1, 0, roles), Of(2, Later, {"scheduled"})>>
    BY DEF Earlier
  <1> HIDE DEF Of
  <1>6. /\ {"scheduled", "weekly"} \in SUBSET Roles /\ {"manual"} \in SUBSET Roles
        /\ {"weekly"} \in SUBSET Roles /\ {"scheduled"} \in SUBSET Roles
    BY DEF Roles
  <1>7. ASSUME NEW a \in SUBSET Roles, NEW b \in SUBSET Roles, "weekly" \in b => "weekly" \in a,
               s = <<Of(1, 0, a), Of(2, Later, b)>>
        PROVE  s \in Seq(CopyType) /\ Distinct(s) /\ Spaced(s) /\ \A i \in DOMAIN s : s[i].id <= 2
    <2>1. /\ Of(1, 0, a) \in CopyType /\ Of(1, 0, a).id = 1 /\ Of(1, 0, a).captured = 0
          /\ "weekly" \in a => Of(1, 0, a).week = Week(0)
      <3>1. PICK x \in Nat : x = 0
        OBVIOUS
      <3>2. Week(x) \in Nat
        BY <1>1, <3>1
      <3>3. /\ Of(1, x, a) \in CopyType /\ Of(1, x, a).id = 1 /\ Of(1, x, a).captured = x
            /\ "weekly" \in a => Of(1, x, a).week = Week(x)
        BY <1>4, <3>2
      <3> QED
        BY <3>1, <3>3
    <2>2. /\ Of(2, Later, b) \in CopyType /\ Of(2, Later, b).id = 2
          /\ Of(2, Later, b).captured = Later /\ Of(2, Later, b).roles = b
          /\ "weekly" \in b => Of(2, Later, b).week = Week(Later)
      BY <1>1, <1>4
    <2> QED
      BY <1>3, <1>7, <2>1, <2>2
  <1>8. "weekly" \notin {"scheduled"}
    OBVIOUS
  <1> QED
    BY <1>2, <1>5, <1>6, <1>7, <1>8

\* It is so at first.
LEMMA DestStarts ==
  ASSUME DestinationsAssumption, DestinationsInit
  PROVE  DestInv
  <1>1. PICK s \in Earlier : shelf = [d \in Destinations |-> s]
    BY DEF DestinationsInit
  <1>2. s \in Seq(CopyType) /\ Distinct(s) /\ Spaced(s) /\ \A i \in DOMAIN s : s[i].id <= 2
    BY EarlierIs
  <1>3. /\ claimed = [d \in Destinations |-> NoHost] /\ writer = [h \in Hosts |-> NotWriting]
        /\ writes = 0 /\ calendar = Later + 1
    BY DEF DestinationsInit
  <1>4. Later \in Nat /\ NotWriting \in WriterType /\ NotWriting.at = "away"
    BY WeekIs, NotWritingIs
  <1>5. DestTypeOK
    BY <1>1, <1>2, <1>3, <1>4 DEF DestTypeOK
  <1>6. \A h \in Hosts : writer[h].at = "away" /\ WritesAs(writer[h]) /\ PlacesAs(writer[h])
    BY <1>3, <1>4 DEF WritesAs, PlacesAs
  <1>7. writes + 2 = 2
    BY <1>3
  <1>8. \A d \in Destinations : ShelfAs(shelf[d])
    BY <1>1, <1>2, <1>7 DEF ShelfAs
  <1>9. \A h \in Hosts : \A d \in Destinations : claimed[d] # h
    BY <1>3 DEF DestinationsAssumption
  <1> QED
    BY <1>5, <1>6, <1>8, <1>9 DEF DestInv

\* Every step of a write, of time and of others keeps it.
LEMMA DestKept ==
  ASSUME DestinationsAssumption, DestInv, [DestinationsNext]_xvars
  PROVE  DestInv'
  <1>1. ASSUME NEW h \in Hosts, HostWrites(h) PROVE DestInv'
    <2>1. CASE BeginWrite(h)
      BY <2>1, BeginWriteStep
    <2>2. CASE LookForDue(h)
      BY <2>2, LookForDueStep
    <2>3. CASE ClaimDestination(h)
      BY <2>3, ClaimDestinationStep
    <2>4. CASE StageDestination(h)
      BY <2>4, StageDestinationStep
    <2>5. CASE CaptureOnce(h)
      BY <2>5, CaptureSteps
    <2>6. CASE PublishCopy(h)
      BY <2>6, PublishSteps
    <2>7. CASE StartRotation(h)
      BY <2>7, StartRotationStep
    <2>8. CASE RetireEntry(h)
      BY <2>8, RetireEntryStep
    <2>9. CASE ReleaseClaim(h)
      BY <2>9, ReleaseSteps
    <2>10. CASE FinishWrite(h)
      BY <2>10, EndSteps
    <2> QED
      BY <1>1, <2>1, <2>2, <2>3, <2>4, <2>5, <2>6, <2>7, <2>8, <2>9, <2>10 DEF HostWrites
  <1>2. ASSUME NEW h \in Hosts, StagingFails(h) PROVE DestInv'
    BY <1>2, StagingFailsHere
  <1>3. ASSUME NEW h \in Hosts, CaptureFails(h) PROVE DestInv'
    BY <1>3, CaptureSteps
  <1>4. ASSUME NEW h \in Hosts, PublicationFails(h) PROVE DestInv'
    BY <1>4, PublishSteps
  <1>5. ASSUME NEW h \in Hosts, RotationFails(h) PROVE DestInv'
    BY <1>5, RotationFailsStep
  <1>6. ASSUME NEW h \in Hosts, ReleaseFails(h) PROVE DestInv'
    BY <1>6, ReleaseSteps
  <1>7. ASSUME NEW h \in Hosts, HostDies(h) PROVE DestInv'
    BY <1>7, EndSteps
  <1>8. ASSUME NEW d \in Destinations, PinCopy(d) \/ DeleteCopy(d) PROVE DestInv'
    BY <1>8, HandSteps
  <1>9. CASE DayPasses \/ (\E d \in Destinations : ClaimLapses(d)) \/ UNCHANGED xvars
    BY <1>9, TimeSteps
  <1> QED
    BY <1>1, <1>2, <1>3, <1>4, <1>5, <1>6, <1>7, <1>8, <1>9 DEF DestinationsNext

\* A day and a week of a copy are a day and a week apart from the others'.
LEMMA SpacedIs ==
  ASSUME DestInv
  PROVE  EvenlySpaced
  <1>1. ASSUME NEW d \in Destinations, NEW i \in DOMAIN shelf[d], NEW j \in DOMAIN shelf[d], i < j
        PROVE  /\ "scheduled" \in shelf[d][i].roles \cap shelf[d][j].roles =>
                    shelf[d][j].captured >= shelf[d][i].captured + Interval
               /\ "weekly" \in shelf[d][i].roles \cap shelf[d][j].roles =>
                    shelf[d][i].week # shelf[d][j].week
    BY <1>1 DEF DestInv, ShelfAs, Spaced
  <1> QED
    BY <1>1 DEF EvenlySpaced, Pairs

\* What is to be retained of a shelf is on another.
Stays(s, t) == \A i \in Retained(s) : \E j \in DOMAIN t : t[j].id = s[i].id

\* It is, if all is.
LEMMA StaysIs ==
  ASSUME DestinationsAssumption, NEW s \in Seq(CopyType)
  PROVE  Retained(s) \subseteq DOMAIN s /\ Stays(s, s)
  <1>1. Retained(s) = Kept(s)
    BY RetainedIsKept
  <1>2. Retained(s) \subseteq DOMAIN s
    BY <1>1 DEF Kept
  <1> QED
    BY <1>2 DEF Stays

\* A publication takes nothing from its shelf.
LEMMA PublicationStays ==
  ASSUME DestinationsAssumption, DestInv, NEW h \in Hosts, writer[h].at = "publish",
         claimed[Here(h)] = h, shelf' = Shelved(h), NEW d \in Destinations
  PROVE  Stays(shelf[d], shelf'[d])
  <1>1. PICK e : e = Here(h)
    OBVIOUS
  <1>2. PICK c : c = TheCopy(writer[h], e)
    OBVIOUS
  <1>3. PICK t : t = Append(shelf[e], c)
    OBVIOUS
  <1>4. e \in Destinations /\ shelf' = [shelf EXCEPT ![e] = t]
    BY <1>1, <1>2, <1>3, ShelvedIs
  <1>5. \A x \in Destinations : shelf[x] \in Seq(CopyType)
    BY DEF DestInv, DestTypeOK
  <1>6. shelf'[e] = t /\ (d # e => shelf'[d] = shelf[d])
    BY <1>4 DEF DestInv, DestTypeOK
  <1>7. CASE d = e
    <2>1. PICK s : s = shelf[e]
      OBVIOUS
    <2>2. s \in Seq(CopyType) /\ Retained(s) \subseteq DOMAIN s /\ t = Append(s, c)
      BY <1>3, <1>4, <1>5, <2>1, StaysIs
    <2>3. c \in CopyType \cup {c} /\ s \in Seq(CopyType \cup {c})
      BY <2>2
    <2>4. Len(t) = Len(s) + 1 /\ \A i \in 1 .. Len(s) : t[i] = s[i]
      BY <2>2, <2>3, AppendProperties
    <2>5. DOMAIN s = 1 .. Len(s) /\ Len(s) \in Nat
      BY <2>2
    <2>6. DOMAIN t = 1 .. (Len(s) + 1)
      BY <2>2, <2>3, <2>4, AppendProperties
    <2>7. \A i \in Retained(s) : i \in DOMAIN t /\ t[i].id = s[i].id
      BY <2>2, <2>4, <2>5, <2>6
    <2>8. Stays(s, t)
      BY <2>7 DEF Stays
    <2> QED
      BY <1>6, <1>7, <2>1, <2>8
  <1>8. CASE d # e
    BY <1>5, <1>6, <1>8, StaysIs
  <1> QED
    BY <1>7, <1>8

\* A retirement takes from its shelf what is not to be retained.
LEMMA RetirementStays ==
  ASSUME DestinationsAssumption, DestInv, NEW h \in Hosts, RetireEntry(h), claimed[Here(h)] = h
  PROVE  /\ \A d \in Destinations : Stays(shelf[d], shelf'[d])
         /\ Len(writer[h].retires) = 1 => Retained(shelf'[Here(h)]) = DOMAIN shelf'[Here(h)]
  <1>1. PICK d : d = Here(h)
    OBVIOUS
  <1>2. PICK r : r = writer[h].retires
    OBVIOUS
  <1>3. PICK k \in DOMAIN shelf[d] : /\ shelf[d][k].id = Head(r)
                                     /\ shelf' = [shelf EXCEPT ![d] = RemoveAt(@, k)]
    BY <1>1, <1>2 DEF RetireEntry
  <1>4. PICK s : s = shelf[d]
    OBVIOUS
  <1>5. writer[h].at = "retire"
    BY DEF RetireEntry, WriterAt
  <1>6. /\ d \in Destinations /\ k \notin Retained(s) /\ k \in DOMAIN s
        /\ OnceEach(r) /\ r \in Seq(Nat) /\ r # <<>> /\ Listed(r) = Superfluous(s)
        /\ s \in Seq(CopyType) /\ Distinct(s)
    BY <1>1, <1>2, <1>3, <1>4, <1>5, RetireeIs
  <1>7. PICK t : t = RemoveAt(s, k)
    OBVIOUS
  <1>8. /\ t \in Seq(CopyType) /\ Superfluous(t) = Superfluous(s) \ {s[k].id}
        /\ \A i \in DOMAIN s : i # k => \E j \in DOMAIN t : t[j] = s[i]
    BY <1>6, <1>7, RemovedIs, RetirementIs
  <1>9. shelf'[d] = t /\ \A e \in Destinations : e # d => shelf'[e] = shelf[e]
    BY <1>3, <1>4, <1>6, <1>7 DEF DestInv, DestTypeOK
  <1>10. Retained(s) \subseteq DOMAIN s /\ Retained(t) \subseteq DOMAIN t
    BY <1>6, <1>8, StaysIs
  <1>11. Stays(s, t)
    BY <1>6, <1>8, <1>10 DEF Stays
  <1>12. \A e \in Destinations : shelf[e] \in Seq(CopyType) /\ Stays(shelf[e], shelf[e])
    BY StaysIs DEF DestInv, DestTypeOK
  <1>13. \A e \in Destinations : Stays(shelf[e], shelf'[e])
    BY <1>4, <1>9, <1>11, <1>12
  <1>14. ASSUME Len(r) = 1 PROVE Retained(t) = DOMAIN t
    <2>1. Listed(Tail(r)) = {} /\ Listed(Tail(r)) = Listed(r) \ {Head(r)}
      BY <1>6, <1>14, RestIs
    <2>2. Superfluous(t) = {}
      BY <1>3, <1>4, <1>6, <1>8, <2>1
    <2> QED
      BY <1>10, <2>2 DEF Superfluous
  <1> QED
    BY <1>1, <1>2, <1>9, <1>13, <1>14

\* Whoever rotates retires nothing that is to be retained, and when it is done nothing else is left.
LEMMA RotationIs ==
  ASSUME DestinationsAssumption, DestInv, [DestinationsNext]_xvars, NEW d \in Destinations
  PROVE  /\ claimed[d] # NoHost => Stays(shelf[d], shelf'[d])
         /\ \A h \in Hosts : RetireEntry(h) /\ Here(h) = d /\ Len(writer[h].retires) = 1
                            /\ claimed[d] = h => Retained(shelf'[d]) = DOMAIN shelf'[d]
  <1>1. shelf[d] \in Seq(CopyType) /\ Stays(shelf[d], shelf[d])
    BY StaysIs DEF DestInv, DestTypeOK
  <1>2. ASSUME shelf' = shelf PROVE Stays(shelf[d], shelf'[d])
    BY <1>1, <1>2
  <1>3. ASSUME NEW h \in Hosts, PublishCopy(h) PROVE Stays(shelf[d], shelf'[d])
    <2>1. shelf' = shelf \/ (writer[h].at = "publish" /\ claimed[Here(h)] = h /\ shelf' = Shelved(h))
      BY <1>3 DEF PublishCopy, WriterAt
    <2> QED
      BY <1>2, <2>1, PublicationStays
  <1>4. ASSUME NEW h \in Hosts, PublicationFails(h) PROVE Stays(shelf[d], shelf'[d])
    <2>1. shelf' = shelf \/ (writer[h].at = "publish" /\ claimed[Here(h)] = h /\ shelf' = Shelved(h))
      BY <1>4 DEF PublicationFails, WriterAt
    <2> QED
      BY <1>2, <2>1, PublicationStays
  <1>5. ASSUME NEW h \in Hosts, RetireEntry(h) PROVE Stays(shelf[d], shelf'[d])
    <2>1. shelf' = shelf \/ claimed[Here(h)] = h
      BY <1>5 DEF RetireEntry
    <2> QED
      BY <1>2, <1>5, <2>1, RetirementStays
  <1>6. ASSUME NEW e \in Destinations, PinCopy(e) \/ DeleteCopy(e), claimed[d] # NoHost
        PROVE  Stays(shelf[d], shelf'[d])
    <2>1. e # d
      BY <1>6 DEF PinCopy, DeleteCopy
    <2>2. shelf'[d] = shelf[d]
      BY <1>6, <2>1, SMTT(30) DEF PinCopy, DeleteCopy, DestInv, DestTypeOK
    <2> QED
      BY <1>1, <2>2
  <1>7. \/ shelf' = shelf
        \/ \E h \in Hosts : PublishCopy(h) \/ PublicationFails(h) \/ RetireEntry(h)
        \/ \E e \in Destinations : PinCopy(e) \/ DeleteCopy(e)
    BY DEF DestinationsNext, HostWrites, xvars, BeginWrite, LookForDue, ClaimDestination,
           StageDestination, CaptureOnce, StartRotation, ReleaseClaim, FinishWrite, StagingFails,
           CaptureFails, RotationFails, ReleaseFails, HostDies, ClaimLapses, DayPasses
  <1>8. claimed[d] # NoHost => Stays(shelf[d], shelf'[d])
    BY <1>2, <1>3, <1>4, <1>5, <1>6, <1>7
  <1> QED
    BY <1>8, RetirementStays

\* What a write tells its caller at the end is so.
LEMMA ToldIs ==
  ASSUME DestInv, NEW h \in Hosts, FinishWrite(h)
  PROVE  LET w == writer[h] IN
         /\ Result(w) = "nothing" =>
              \A d \in Destinations : \A i \in DOMAIN shelf[d] : shelf[d][i].id # w.id
         /\ Result(w) \in {"done", "failed"} => w.due \subseteq w.published \cup w.failures
  <1>1. PICK w : w = writer[h]
    OBVIOUS
  <1>2. /\ w \in WriterType /\ WritesAs(w) /\ PlacesAs(w) /\ w.at = "release"
    BY <1>1 DEF FinishWrite, WriterAt, DestInv, DestTypeOK
  <1>3. /\ w.result = "none" => w.due \subseteq w.published \cup w.failures
        /\ ~w.quiet => w.failures # {}
    BY <1>2 DEF WritesAs
  <1>4. w.result \in {"none", "raised"}
    BY <1>2 DEF WriterType
  <1>5. Result(w) # "raised" => w.result = "none"
    BY <1>4 DEF Result
  <1>6. ASSUME Result(w) = "nothing", NEW d \in Destinations, NEW i \in DOMAIN shelf[d],
               shelf[d][i].id = w.id
        PROVE  FALSE
    <2>1. Placed(w, d)
      BY <1>6 DEF Placed
    <2>2. d \in w.published \/ ~w.quiet
      BY <1>2, <2>1 DEF PlacesAs
    <2>3. w.published = {} /\ (w.failures # {} => w.quiet)
      BY <1>4, <1>6 DEF Result
    <2> QED
      BY <1>3, <2>2, <2>3
  <1>7. Result(w) \in {"done", "failed"} => w.due \subseteq w.published \cup w.failures
    BY <1>3, <1>5
  <1> QED
    BY <1>1, <1>6, <1>7

\* However hosts write at once, fail or die at the destinations: what is there is spaced, rotation
\* retires what is not to be retained and nothing else, and no caller is told what is not so.
THEOREM WritesAreSafe == DestinationsSpec => []EvenlySpaced /\ RotatesExactly /\ ToldTrue
  <1>1. DestinationsInit => DestInv
    BY DestinationsAssumption, DestStarts
  <1>2. DestInv /\ [DestinationsNext]_xvars => DestInv'
    BY DestinationsAssumption, DestKept
  <1>3. DestInv => EvenlySpaced
    BY SpacedIs
  <1>4. DestInv /\ [DestinationsNext]_xvars =>
          [\A d \in Destinations :
             /\ claimed[d] # NoHost =>
                  \A i \in Retained(shelf[d]) :
                    \E j \in DOMAIN shelf'[d] : shelf'[d][j].id = shelf[d][i].id
             /\ \A h \in Hosts : RetireEntry(h) /\ Here(h) = d /\ Len(writer[h].retires) = 1
                                /\ claimed[d] = h =>
                  Retained(shelf'[d]) = DOMAIN shelf'[d]]_xvars
    BY DestinationsAssumption, RotationIs DEF Stays
  <1>5. DestInv /\ [DestinationsNext]_xvars =>
          [\A h \in Hosts : FinishWrite(h) =>
             LET w == writer[h] IN
             /\ Result(w) = "nothing" =>
                  \A d \in Destinations : \A i \in DOMAIN shelf[d] : shelf[d][i].id # w.id
             /\ Result(w) \in {"done", "failed"} => w.due \subseteq w.published \cup w.failures]_xvars
    BY ToldIs
  <1> QED
    BY <1>1, <1>2, <1>3, <1>4, <1>5, PTL DEF DestinationsSpec, RotatesExactly, ToldTrue

-----------------------------------------------------------------------------
(* The parts together: a behaviour of MCData is one of each of its parts.  *)

\* The buckets of an archive, among the other parts, keep what they promise.
THEOREM BucketsAreSafe == DataSpec => BucketsHold
  <1>1. DataInit => BucketInit /\ PacingInit
    BY DEF DataInit
  <1>2. [DataNext]_datavars => [BucketNext]_bvars /\ [PacingNext]_gvars
    BY DEF DataNext, datavars
  <1> QED
    BY <1>1, <1>2, BucketKeepsVersions, RequestsArePaced, PTL
       DEF DataSpec, BucketSpec, PacingSpec, BucketsHold

\* What users curate is kept, among the other parts.
THEOREM CurationIsSafe == DataSpec => []CurationStands
  <1>1. DataInit => CurationInit
    BY DEF DataInit
  <1>2. [DataNext]_datavars => [CurationNext]_uvars
    BY DEF DataNext, datavars
  <1> QED
    BY <1>1, <1>2, CuratedIsKept, PTL DEF DataSpec, CurationSpec

\* A snapshot is taken of one instant, and the latest that is readable is restored.
THEOREM SnapshotsAreSafe == DataSpec => [](IsOfOneInstant /\ RestoresLatest)
  <1>1. DataInit => PinnedInit /\ RecoveryInit
    BY DEF DataInit
  <1>2. [DataNext]_datavars => [PinnedNext]_fvars /\ [RecoveryNext]_dvars
    BY DEF DataNext, datavars
  <1> QED
    BY <1>1, <1>2, CaptureIsOfOneInstant, LatestIsRestored, PTL
       DEF DataSpec, PinnedSpec, RecoverySpec

\* What a source's sessions are known to be stands, among the other parts.
THEOREM SessionsAreSafe == DataSpec => []SessionsStand
  <1>1. DataInit => SessionsInit
    BY DEF DataInit
  <1>2. [DataNext]_datavars => [SessionsNext]_yvars
    BY DEF DataNext, datavars
  <1> QED
    BY <1>1, <1>2, SessionsAreKnown, PTL DEF DataSpec, SessionsSpec

\* The verdict of a contract is right among the other parts; where no answer is checked there
\* is none.
THEOREM ContractsAreRight == DataSpec => []VerdictIsRight
  <1> DEFINE Checked == ContractInv /\ (verdict = "none" => {"entries", "cost", "clients"} \subseteq required)
             Inv == IF part = "contract" THEN Checked ELSE verdict = "none"
  <1>1. DataInit => Inv
    BY DEF DataInit, ContractInit, ContractInv, Paths
  <1>2. Inv /\ [DataNext]_datavars => Inv'
    <2> SUFFICES ASSUME Inv, [DataNext]_datavars PROVE Inv'
      OBVIOUS
    <2>1. part' = part
      BY DEF DataNext, datavars
    <2>2. CASE part = "contract"
      <3>1. [ContractNext]_hvars
        BY <2>2 DEF DataNext, datavars
      <3> QED
        BY <2>1, <2>2, <3>1, ContractSteps
    <2>3. CASE part # "contract"
      <3>1. UNCHANGED hvars
        BY <2>3 DEF DataNext, datavars
      <3> QED
        BY <2>1, <2>3, <3>1 DEF hvars
    <2> QED
      BY <2>2, <2>3
  <1>3. Inv => VerdictIsRight
    <2>1. Checked => VerdictIsRight
      BY CheckedIsRight
    <2>2. verdict = "none" => VerdictIsRight
      BY DEF VerdictIsRight
    <2> QED
      BY <2>1, <2>2
  <1> QED
    BY <1>1, <1>2, <1>3, PTL DEF DataSpec

\* Prices follow custom-pricing.json, among the other parts.
THEOREM PricesAreSafe ==
  ASSUME InTurn
  PROVE  DataSpec => PricesFollow
  <1>1. DataInit => PricesInit
    BY DEF DataInit
  <1>2. [DataNext]_datavars => [PricesNext]_pvars
    BY DEF DataNext, datavars
  <1> QED
    BY <1>1, <1>2, PricesFollowCustom, PTL DEF DataSpec, PricesSpec

\* Snapshots are where and when they are due, among the other parts.
THEOREM DestinationsAreSafe == DataSpec => DestinationsHold
  <1>1. DataInit => DestinationsInit
    BY DEF DataInit
  <1>2. [DataNext]_datavars => [DestinationsNext]_xvars
    BY DEF DataNext, datavars
  <1> QED
    BY <1>1, <1>2, WritesAreSafe, PTL DEF DataSpec, DestinationsSpec, DestinationsHold
=============================================================================
