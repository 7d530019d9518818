-------------------------- MODULE ReservationProofs --------------------------
(***************************************************************************)
(* Proofs about Reservation, for any catalogs, lease, number of tries and  *)
(* bound on the fence.                                                     *)
(***************************************************************************)
EXTENDS Reservation, TLAPS

\* What a thread knows whose last read is still what is stored: a claimant that
\* the lease has run out and its fence is the next; everyone else that the
\* reservation is its own.  The renewal thread may find its fence dropped.
MainKnows(c) ==
  <<c, "main">> \in current =>
    /\ sent[c]["main"]
    /\ main[c] \in Looping
    /\ Readable
    /\ main[c] = "claim" => control.left = 0 /\ fence[c] = control.fence + 1
    /\ main[c] # "claim" => control.holder = c /\ fence[c] = control.fence

RenewerKnows(c) ==
  <<c, "renewer">> \in current =>
    /\ sent[c]["renewer"]
    /\ renewer[c] = "renew"
    /\ Readable
    /\ control.holder = c
    /\ fence[c] \in {control.fence, None}

WhatIsRead == \A c \in Catalogs : MainKnows(c) /\ RenewerKnows(c)

\* No fence in use is ahead of the document's.
FencesBehind ==
  /\ control.fence \in Nat \cup {None}
  /\ Readable => \A c \in Catalogs : Established(c) => fence[c] \in 0 .. control.fence

\* A renewal thread lives only where a claim has succeeded.
RenewerAfterClaim == \A c \in Catalogs : renewer[c] # "off" => main[c] # "claim"

-----------------------------------------------------------------------------
(* The documents that are written.                                         *)

\* What a claim or a renewal writes.
LEMMA ReservedType ==
  ASSUME TypeOK, NEW c \in Catalogs, NEW t \in Thread
  PROVE  /\ Reserved(c, t) \in ControlType
         /\ Reserved(c, t).fence = fence[c]
         /\ Reserved(c, t).holder = c
         /\ Reserved(c, t).author = control.author
  <1>1. age[c][t] \in 0 .. Lease
    BY DEF TypeOK
  <1>2. Lease - age[c][t] \in 0 .. Lease
    BY <1>1, ReservationAssumption
  <1>3. fence[c] \in Int
    BY DEF TypeOK
  <1>4. control \in ControlType
    BY DEF TypeOK
  <1>5. Reserved(c, t) \in ControlType
    BY <1>2, <1>3, <1>4 DEF Reserved, ControlType
  <1>6. /\ Reserved(c, t).fence = fence[c]
        /\ Reserved(c, t).holder = c
        /\ Reserved(c, t).author = control.author
    BY <1>4 DEF Reserved, ControlType
  <1> QED
    BY <1>5, <1>6

\* What each loop of the main thread writes.
LEMMA MainDocumentType ==
  ASSUME TypeOK, NEW c \in Catalogs, main[c] \in Looping
  PROVE  /\ MainDocument(c) \in ControlType
         /\ main[c] \in {"claim", "renew"} =>
              /\ MainDocument(c).fence = fence[c]
              /\ MainDocument(c).holder = c
              /\ MainDocument(c).author = control.author
         /\ main[c] = "mutate" =>
              /\ MainDocument(c).fence = control.fence
              /\ MainDocument(c).holder = control.holder
              /\ MainDocument(c).author = [by |-> c, at |-> fence[c]]
         /\ main[c] = "release" =>
              /\ MainDocument(c).fence = control.fence
              /\ MainDocument(c).holder = NoOne
              /\ MainDocument(c).author = control.author
  <1>1. "main" \in Thread /\ control \in ControlType /\ fence[c] \in Int
    BY DEF Thread, TypeOK
  <1>2. CASE main[c] \in {"claim", "renew"}
    <2>1. MainDocument(c) = Reserved(c, "main")
      BY <1>2 DEF MainDocument
    <2> QED
      BY <1>1, <1>2, <2>1, ReservedType
  <1>3. CASE main[c] = "mutate"
    <2>1. MainDocument(c) = [control EXCEPT !.author = [by |-> c, at |-> fence[c]]]
      BY <1>3 DEF MainDocument
    <2> QED
      BY <1>1, <1>3, <2>1 DEF ControlType
  <1>4. CASE main[c] = "release"
    <2>1. MainDocument(c) = [control EXCEPT !.holder = NoOne, !.left = 0]
      BY <1>4 DEF MainDocument
    <2>2. 0 \in 0 .. Lease
      BY ReservationAssumption
    <2> QED
      BY <1>1, <1>4, <2>1, <2>2 DEF ControlType
  <1> QED
    BY <1>2, <1>3, <1>4 DEF Looping

-----------------------------------------------------------------------------
(* Types.                                                                  *)

LoopTypes ==
  /\ sent \in [Catalogs -> [Thread -> BOOLEAN]]
  /\ tries \in [Catalogs -> [Thread -> 0 .. Tries]]
  /\ age \in [Catalogs -> [Thread -> 0 .. Lease]]

StoreTypes ==
  /\ control \in ControlType
  /\ current \in SUBSET (Catalogs \X Thread)

ThreadTypes ==
  /\ main \in [Catalogs -> MainState]
  /\ goal \in [Catalogs -> {"check", "mutate"}]
  /\ renewer \in [Catalogs -> RenewerState]
  /\ fence \in [Catalogs -> Int]
  /\ failed \in [Catalogs -> BOOLEAN]

\* The type invariant, in three groups of variables.
LEMMA TypeParts ==
  /\ TypeOK <=> StoreTypes /\ ThreadTypes /\ LoopTypes
  /\ TypeOK' <=> StoreTypes' /\ ThreadTypes' /\ LoopTypes'
  BY DEF TypeOK, StoreTypes, ThreadTypes, LoopTypes

\* A step that leaves a group alone keeps its type.
LEMMA UnchangedTypes ==
  ASSUME TypeOK
  PROVE  /\ UNCHANGED store => StoreTypes'
         /\ UNCHANGED loops => LoopTypes'
         /\ UNCHANGED <<main, goal, renewer, fence, failed>> => ThreadTypes'
  BY DEF TypeOK, StoreTypes, ThreadTypes, LoopTypes, store, loops

\* A read takes what control.json holds.
LEMMA ObserveType ==
  ASSUME TypeOK, NEW c \in Catalogs, NEW t \in Thread, Observe(c, t)
  PROVE  StoreTypes' /\ LoopTypes'
  BY ReservationAssumption DEF TypeOK, StoreTypes, LoopTypes, Observe

\* The end of an attempt keeps the types.
LEMMA EndLoopType ==
  ASSUME TypeOK, NEW c \in Catalogs, NEW t \in Thread, EndLoop(c, t)
  PROVE  LoopTypes'
  BY ReservationAssumption DEF TypeOK, LoopTypes, EndLoop

\* So does another attempt.
LEMMA RetryType ==
  ASSUME TypeOK, NEW c \in Catalogs, NEW t \in Thread, Retry(c, t), ~LastTry(c, t)
  PROVE  LoopTypes'
  <1>1. tries[c][t] + 1 \in 0 .. Tries
    BY ReservationAssumption DEF TypeOK, LastTry
  <1> QED
    BY <1>1, ReservationAssumption DEF TypeOK, LoopTypes, Retry

\* So does an exception.
LEMMA FailsType ==
  ASSUME TypeOK, NEW c \in Catalogs, Fails(c)
  PROVE  ThreadTypes' /\ LoopTypes'
  <1>1. LoopTypes'
    BY EndLoopType DEF Fails, Thread
  <1>2. ThreadTypes'
    BY DEF TypeOK, ThreadTypes, Fails, MainState, None
  <1> QED
    BY <1>1, <1>2

\* The main thread's write is of a document.
LEMMA MainWriteType ==
  ASSUME TypeOK, NEW c \in Catalogs, main[c] \in Looping, Applied(c, "main", MainDocument(c))
  PROVE  StoreTypes'
  BY MainDocumentType DEF StoreTypes, Applied

\* The renewer's write is of a document.
LEMMA RenewerWriteType ==
  ASSUME TypeOK, NEW c \in Catalogs, Applied(c, "renewer", Reserved(c, "renewer"))
  PROVE  StoreTypes'
  BY ReservedType DEF StoreTypes, Applied, Thread

\* The loops of the main thread preserve the types.
LEMMA MainType ==
  ASSUME TypeOK, NEW c \in Catalogs, MainLoops(c)
  PROVE  TypeOK'
  <1> USE DEF Thread
  <1>1. CASE ClaimRead(c)
    <2>1. CASE Fails(c) /\ UNCHANGED store
      BY <2>1, FailsType, UnchangedTypes, TypeParts
    <2>2. CASE /\ fence' = [fence EXCEPT ![c] = control.fence + 1]
               /\ Observe(c, "main")
               /\ UNCHANGED <<main, goal, renewer, failed>>
      <3>1. control.fence + 1 \in Int
        BY DEF TypeOK, ControlType
      <3> QED
        <4>1. ThreadTypes'
          BY <2>2, <3>1 DEF ThreadTypes, TypeOK
        <4> QED
          BY <2>2, <4>1, ObserveType, TypeParts
    <2> QED
      BY <1>1, <2>1, <2>2 DEF ClaimRead
  <1>2. CASE Check(c)
    <2>1. CASE Fails(c)
      BY <1>2, <2>1, FailsType, UnchangedTypes, TypeParts DEF Check
    <2>2. CASE ~Fails(c)
      <3>1. AfterCheck(c) \in MainState
        BY DEF AfterCheck, MainState
      <3>2. ThreadTypes'
        BY <1>2, <2>2, <3>1 DEF Check, Goto, TypeOK, ThreadTypes, MainState
      <3> QED
        BY <1>2, <2>2, <3>2, UnchangedTypes, TypeParts DEF Check
    <2> QED
      BY <2>1, <2>2
  <1>3. CASE AuthorisedRead(c)
    <2>1. CASE Fails(c) /\ UNCHANGED store
      BY <2>1, FailsType, UnchangedTypes, TypeParts
    <2>2. CASE Observe(c, "main") /\ UNCHANGED <<main, goal, renewer, fence, failed>>
      BY <2>2, ObserveType, UnchangedTypes, TypeParts
    <2> QED
      BY <1>3, <2>1, <2>2 DEF AuthorisedRead
  <1>4. CASE Join(c)
    <2>1. ThreadTypes'
      BY <1>4 DEF Join, Goto, TypeOK, ThreadTypes, MainState
    <2> QED
      BY <1>4, <2>1, UnchangedTypes, TypeParts DEF Join
  <1>5. CASE ReleaseRead(c)
    <2>1. CASE Fails(c) /\ UNCHANGED store
      BY <2>1, FailsType, UnchangedTypes, TypeParts
    <2>2. CASE Observe(c, "main") /\ UNCHANGED <<main, goal, renewer, fence, failed>>
      BY <2>2, ObserveType, UnchangedTypes, TypeParts
    <2> QED
      BY <1>5, <2>1, <2>2 DEF ReleaseRead
  <1>6. CASE MainCommits(c)
    <2>1. StoreTypes' /\ LoopTypes'
      BY <1>6, MainWriteType, EndLoopType DEF MainCommits
    <2>2. AfterCheck(c) \in MainState
      BY DEF AfterCheck, MainState
    <2>3. ThreadTypes'
      BY <1>6, <2>2 DEF MainCommits, TypeOK, ThreadTypes, MainState, RenewerState, None
    <2> QED
      BY <2>1, <2>3, TypeParts
  <1>7. CASE MainConflicts(c)
    <2>1. StoreTypes'
      BY <1>7, MainWriteType, UnchangedTypes DEF MainConflicts, Refused
    <2>2. CASE Fails(c)
      BY <2>1, <2>2, FailsType, TypeParts
    <2>3. CASE ~Fails(c)
      <3>1. LoopTypes'
        BY <1>7, <2>3, RetryType DEF MainConflicts
      <3>2. ThreadTypes'
        BY <1>7, <2>3 DEF MainConflicts, TypeOK, ThreadTypes
      <3> QED
        BY <2>1, <3>1, <3>2, TypeParts
    <2> QED
      BY <2>2, <2>3
  <1>8. CASE MainRaises(c)
    <2>1. ThreadTypes' /\ LoopTypes'
      BY <1>8, FailsType DEF MainRaises
    <2>2. CASE Abandoned(c, "main")
      <3>1. StoreTypes'
        BY <2>2, TypeParts DEF Abandoned, StoreTypes
      <3> QED
        BY <2>1, <3>1, TypeParts
    <2>3. CASE main[c] \in Looping /\ sent[c]["main"] /\ Applied(c, "main", MainDocument(c))
      <3>1. StoreTypes'
        BY <2>3, MainWriteType
      <3> QED
        BY <2>1, <3>1, TypeParts
    <2> QED
      BY <1>8, <2>2, <2>3 DEF MainRaises
  <1> QED
    BY <1>1, <1>2, <1>3, <1>4, <1>5, <1>6, <1>7, <1>8 DEF MainLoops

\* So do those of the renewal thread.
LEMMA RenewerType ==
  ASSUME TypeOK, NEW c \in Catalogs, RenewerLoops(c)
  PROVE  TypeOK'
  <1> USE DEF Thread
  <1>1. ASSUME NEW r \in RenewerState, Renewal(c, r), UNCHANGED failed
        PROVE  ThreadTypes'
    BY <1>1 DEF Renewal, ThreadTypes, TypeOK
  <1>2. CASE RenewerWakes(c) \/ RenewerLocked(c)
    <2>1. PICK r \in RenewerState : Renewal(c, r)
      BY <1>2 DEF RenewerWakes, RenewerLocked, RenewerState
    <2> QED
      BY <1>1, <1>2, <2>1, UnchangedTypes, TypeParts DEF RenewerWakes, RenewerLocked
  <1>3. CASE RenewerRead(c)
    <2>1. CASE Observe(c, "renewer") /\ UNCHANGED <<main, goal, renewer, fence>>
      BY <1>3, <2>1, ObserveType, UnchangedTypes, TypeParts DEF RenewerRead
    <2>2. CASE Renewal(c, "failing") /\ EndLoop(c, "renewer") /\ UNCHANGED store
      BY <1>1, <1>3, <2>2, EndLoopType, UnchangedTypes, TypeParts DEF RenewerRead, RenewerState
    <2> QED
      BY <1>3, <2>1, <2>2 DEF RenewerRead
  <1>4. CASE RenewerCommits(c)
    BY <1>1, <1>4, RenewerWriteType, EndLoopType, TypeParts DEF RenewerCommits, RenewerState
  <1>5. CASE RenewerConflicts(c)
    <2>1. StoreTypes'
      BY <1>5, RenewerWriteType, UnchangedTypes DEF RenewerConflicts, Refused
    <2>2. CASE LastTry(c, "renewer")
      BY <1>1, <1>5, <2>1, <2>2, EndLoopType, TypeParts DEF RenewerConflicts, RenewerState
    <2>3. CASE ~LastTry(c, "renewer")
      BY <1>1, <1>5, <2>1, <2>3, RetryType, TypeParts DEF RenewerConflicts, RenewerState
    <2> QED
      BY <2>2, <2>3
  <1>6. CASE RenewerRaises(c)
    <2>1. StoreTypes'
      <3>1. CASE Abandoned(c, "renewer")
        BY <3>1, TypeParts DEF Abandoned, StoreTypes
      <3> QED
        BY <1>6, <3>1, RenewerWriteType DEF RenewerRaises
    <2> QED
      BY <1>1, <1>6, <2>1, EndLoopType, TypeParts DEF RenewerRaises, RenewerState
  <1>7. CASE RenewerFails(c)
    <2>1. ThreadTypes'
      BY <1>7 DEF RenewerFails, Renewal, ThreadTypes, TypeOK, RenewerState
    <2> QED
      BY <1>7, <2>1, UnchangedTypes, TypeParts DEF RenewerFails
  <1> QED
    BY <1>2, <1>3, <1>4, <1>5, <1>6, <1>7 DEF RenewerLoops

\* Time passes.
LEMMA TickType ==
  ASSUME TypeOK, Tick
  PROVE  TypeOK'
  <1>1. StoreTypes'
    <2>1. control.left \in 0 .. Lease
      BY DEF TypeOK, ControlType
    <2>2. (IF control.left > 0 THEN control.left - 1 ELSE 0) \in 0 .. Lease
      BY <2>1, ReservationAssumption
    <2> QED
      BY <2>2 DEF Tick, StoreTypes, TypeOK, ControlType
  <1>2. age' \in [Catalogs -> [Thread -> 0 .. Lease]]
    BY ReservationAssumption DEF Tick, TypeOK
  <1>3. LoopTypes'
    BY <1>2 DEF Tick, LoopTypes, TypeOK
  <1> QED
    BY <1>1, <1>3, UnchangedTypes, TypeParts DEF Tick

\* Every step preserves the types.
LEMMA StepType == TypeOK /\ [Next]_vars => TypeOK'
  <1> SUFFICES ASSUME TypeOK, [Next]_vars
               PROVE  TypeOK'
    OBVIOUS
  <1>1. CASE Tick
    BY <1>1, TickType
  <1>2. ASSUME NEW c \in Catalogs, StartClaim(c)
        PROVE  TypeOK'
    <2>1. ThreadTypes'
      BY <1>2 DEF StartClaim, ThreadTypes, TypeOK, MainState
    <2> QED
      BY <1>2, <2>1, UnchangedTypes, TypeParts DEF StartClaim
  <1>3. ASSUME NEW c \in Catalogs, StartOperation(c)
        PROVE  TypeOK'
    <2>1. ThreadTypes'
      BY <1>3 DEF StartOperation, ThreadTypes, TypeOK, MainState
    <2> QED
      BY <1>3, <2>1, UnchangedTypes, TypeParts DEF StartOperation
  <1>4. ASSUME NEW c \in Catalogs, Leave(c)
        PROVE  TypeOK'
    <2>1. ThreadTypes'
      BY <1>4 DEF Leave, Goto, ThreadTypes, TypeOK, MainState
    <2> QED
      BY <1>4, <2>1, UnchangedTypes, TypeParts DEF Leave
  <1>5. ASSUME NEW c \in Catalogs, Crash(c)
        PROVE  TypeOK'
    BY <1>5, ReservationAssumption DEF Crash, TypeOK, MainState, RenewerState, None
  <1>6. CASE UNCHANGED vars
    BY <1>6 DEF vars, TypeOK
  <1> QED
    BY <1>1, <1>2, <1>3, <1>4, <1>5, <1>6, MainType, RenewerType DEF Next

\* The initial state has its type.
LEMMA InitType == Init => TypeOK
  BY ReservationAssumption DEF Init, TypeOK, ControlType, Nobody, None, MainState, RenewerState

\* Type correctness: every variable of the reservation keeps its type, whatever
\* the catalogs, the lease and the number of tries.
THEOREM TypeCorrect == Spec => []TypeOK
  BY InitType, StepType, PTL DEF Spec

-----------------------------------------------------------------------------
(* The inductive invariant.                                                *)

Safe == WhatIsRead /\ FencesBehind /\ RenewerAfterClaim /\ HeldFencesDistinct

\* The initial state is safe.
LEMMA InitSafe == Init => Safe
  BY DEF Init, Safe, WhatIsRead, MainKnows, RenewerKnows, FencesBehind, RenewerAfterClaim, HeldFencesDistinct,
         Established, Readable, None

\* A step of c alone, in which c neither reads nor writes: c may drop its fence
\* as it leaves hold(), and what it still has read it was about to replace.
Quiet(c) ==
  /\ UNCHANGED control
  /\ current' \subseteq current
  /\ \A d \in Catalogs \ {c} :
       /\ main'[d] = main[d] /\ renewer'[d] = renewer[d]
       /\ sent'[d] = sent[d] /\ fence'[d] = fence[d]
  /\ Established(c)' => Established(c) /\ fence'[c] = fence[c]
  /\ fence'[c] \in {fence[c], None}
  /\ <<c, "main">> \in current' =>
       main'[c] = main[c] /\ sent'[c]["main"] /\ fence'[c] = fence[c]
  /\ <<c, "renewer">> \in current' => renewer'[c] = "renew" /\ sent'[c]["renewer"]
  /\ renewer'[c] # "off" => main'[c] # "claim"

\* A step of one catalog that writes nothing and releases nothing.
LEMMA QuietStep ==
  ASSUME TypeOK, Safe, TypeOK', NEW c \in Catalogs, Quiet(c)
  PROVE  Safe'
  <1> USE DEF Quiet
  <1>1. WhatIsRead'
    <2> SUFFICES ASSUME NEW d \in Catalogs
                 PROVE  MainKnows(d)' /\ RenewerKnows(d)'
      BY DEF WhatIsRead
    <2>1. MainKnows(d) /\ RenewerKnows(d)
      BY DEF Safe, WhatIsRead
    <2>2. CASE d = c
      <3>1. MainKnows(c)'
        BY <2>1, <2>2 DEF MainKnows, Readable
      <3>2. RenewerKnows(c)'
        BY <2>1, <2>2 DEF RenewerKnows, Readable, None
      <3> QED
        BY <2>2, <3>1, <3>2
    <2>3. CASE d # c
      BY <2>1, <2>3 DEF MainKnows, RenewerKnows, Readable
    <2> QED
      BY <2>2, <2>3
  <1>2. FencesBehind'
    BY DEF Safe, FencesBehind, Readable, Established
  <1>3. RenewerAfterClaim'
    BY DEF Safe, RenewerAfterClaim
  <1>4. HeldFencesDistinct'
    <2> SUFFICES ASSUME NEW d \in Catalogs, NEW e \in Catalogs, d # e,
                        Established(d)', Established(e)'
                 PROVE  fence'[d] # fence'[e]
      BY DEF HeldFencesDistinct
    <2>1. Established(d) /\ Established(e) /\ fence'[d] = fence[d] /\ fence'[e] = fence[e]
      BY DEF Established
    <2> QED
      BY <2>1 DEF Safe, HeldFencesDistinct
  <1> QED
    BY <1>1, <1>2, <1>3, <1>4 DEF Safe

\* A step in which the main thread of c reads and is authorised.
LEMMA MainReadStep ==
  ASSUME TypeOK, Safe, TypeOK', NEW c \in Catalogs,
         Observe(c, "main"), main[c] \in Looping, Readable,
         UNCHANGED <<main, renewer>>,
         \/ /\ main[c] = "claim" /\ control.left = 0
            /\ fence' = [fence EXCEPT ![c] = control.fence + 1]
         \/ /\ main[c] # "claim" /\ control.holder = c /\ fence[c] = control.fence
            /\ UNCHANGED fence
  PROVE  Safe'
  <1>1. /\ sent'[c]["main"]
        /\ sent'[c]["renewer"] = sent[c]["renewer"]
        /\ \A d \in Catalogs \ {c} : sent'[d] = sent[d] /\ fence'[d] = fence[d]
        /\ main[c] # "claim" => fence'[c] = fence[c]
        /\ main[c] = "claim" => fence'[c] = control.fence + 1
    BY DEF Observe, TypeOK, Thread
  <1>2. UNCHANGED <<control, main, renewer>> /\ current' = current \cup {<<c, "main">>}
    BY DEF Observe
  <1>3. WhatIsRead'
    <2> SUFFICES ASSUME NEW d \in Catalogs
                 PROVE  MainKnows(d)' /\ RenewerKnows(d)'
      BY DEF WhatIsRead
    <2>1. MainKnows(d) /\ RenewerKnows(d)
      BY DEF Safe, WhatIsRead
    <2>2. CASE d = c
      <3>1. MainKnows(c)'
        BY <1>1, <1>2 DEF MainKnows, Readable
      <3>2. <<c, "renewer">> \in current => main[c] # "claim"
        BY <2>1, <2>2 DEF Safe, RenewerKnows, RenewerAfterClaim
      <3>3. RenewerKnows(c)'
        BY <1>1, <1>2, <2>1, <2>2, <3>2 DEF RenewerKnows, Readable
      <3> QED
        BY <2>2, <3>1, <3>3
    <2>3. CASE d # c
      BY <1>1, <1>2, <2>1, <2>3 DEF MainKnows, RenewerKnows, Readable
    <2> QED
      BY <2>2, <2>3
  <1>4. FencesBehind'
    BY <1>1, <1>2 DEF Safe, FencesBehind, Readable, Established
  <1>5. RenewerAfterClaim'
    BY <1>2 DEF Safe, RenewerAfterClaim
  <1>6. HeldFencesDistinct'
    BY <1>1, <1>2 DEF Safe, HeldFencesDistinct, Established
  <1> QED
    BY <1>3, <1>4, <1>5, <1>6 DEF Safe

\* A step in which the renewal thread of c reads and is authorised.
LEMMA RenewerReadStep ==
  ASSUME TypeOK, Safe, TypeOK', NEW c \in Catalogs,
         Observe(c, "renewer"), renewer[c] = "renew", Authority(c),
         UNCHANGED <<main, renewer, fence>>
  PROVE  Safe'
  <1>1. /\ sent'[c]["renewer"]
        /\ sent'[c]["main"] = sent[c]["main"]
        /\ \A d \in Catalogs \ {c} : sent'[d] = sent[d]
    BY DEF Observe, TypeOK, Thread
  <1>2. UNCHANGED control /\ current' = current \cup {<<c, "renewer">>}
    BY DEF Observe
  <1>3. WhatIsRead'
    <2> SUFFICES ASSUME NEW d \in Catalogs
                 PROVE  MainKnows(d)' /\ RenewerKnows(d)'
      BY DEF WhatIsRead
    <2>1. MainKnows(d) /\ RenewerKnows(d)
      BY DEF Safe, WhatIsRead
    <2>2. MainKnows(d)'
      BY <1>1, <1>2, <2>1 DEF MainKnows, Readable
    <2>3. RenewerKnows(d)'
      BY <1>1, <1>2, <2>1 DEF RenewerKnows, Readable, Authority
    <2> QED
      BY <2>2, <2>3
  <1> QED
    BY <1>2, <1>3 DEF Safe, FencesBehind, Readable, Established, RenewerAfterClaim,
                      HeldFencesDistinct

\* A step in which a write of c's main thread is applied.  A claim that succeeds
\* makes c established, with a fence ahead of every other.
LEMMA MainWriteStep ==
  ASSUME TypeOK, Safe, TypeOK', NEW c \in Catalogs,
         main[c] \in Looping, Applied(c, "main", MainDocument(c)),
         \A d \in Catalogs \ {c} :
           main'[d] = main[d] /\ renewer'[d] = renewer[d] /\ fence'[d] = fence[d],
         Established(c)' => fence'[c] = fence[c] /\ (Established(c) \/ main[c] = "claim"),
         renewer'[c] # "off" => main'[c] # "claim"
  PROVE  Safe'
  <1>1. /\ <<c, "main">> \in current
        /\ MainKnows(c)
        /\ current' = {}
    BY DEF Safe, WhatIsRead, Applied
  <1>2. control'.fence = IF main[c] = "claim" THEN control.fence + 1 ELSE control.fence
    BY <1>1, MainDocumentType DEF MainKnows, Applied, Looping
  <1>3. Readable /\ control.fence \in Nat /\ control'.fence \in Nat
    BY <1>1, <1>2 DEF MainKnows, Safe, FencesBehind, Readable
  <1>4. main[c] = "claim" => fence[c] = control.fence + 1
    BY <1>1 DEF MainKnows
  <1>5. WhatIsRead'
    BY <1>1 DEF WhatIsRead, MainKnows, RenewerKnows
  <1>6. FencesBehind'
    <2>1. ASSUME NEW d \in Catalogs, Established(d)'
          PROVE  fence'[d] \in 0 .. control'.fence
      <3>1. CASE Established(d)
        <4>1. fence[d] \in 0 .. control.fence /\ fence'[d] = fence[d]
          BY <1>3, <2>1, <3>1 DEF Safe, FencesBehind
        <4> QED
          BY <1>2, <1>3, <4>1
      <3>2. CASE ~Established(d)
        <4>1. d = c /\ main[c] = "claim" /\ fence'[c] = fence[c]
          BY <2>1, <3>2 DEF Established
        <4> QED
          BY <1>2, <1>3, <1>4, <4>1
      <3> QED
        BY <3>1, <3>2
    <2> QED
      BY <1>3, <2>1 DEF FencesBehind
  <1>7. RenewerAfterClaim'
    BY DEF Safe, RenewerAfterClaim
  <1>8. HeldFencesDistinct'
    <2> SUFFICES ASSUME NEW d \in Catalogs, NEW e \in Catalogs, d # e,
                        Established(d)', Established(e)'
                 PROVE  fence'[d] # fence'[e]
      BY DEF HeldFencesDistinct
    <2>1. fence'[d] = fence[d] /\ fence'[e] = fence[e]
      OBVIOUS
    <2>2. CASE Established(d) /\ Established(e)
      BY <2>1, <2>2 DEF Safe, HeldFencesDistinct
    <2>3. ASSUME NEW f \in Catalogs, f # c, Established(f)'
          PROVE  fence[f] \in 0 .. control.fence
      <3>1. Established(f)
        BY <2>3 DEF Established
      <3> QED
        BY <1>3, <3>1 DEF Safe, FencesBehind
    <2>4. CASE ~Established(d) \/ ~Established(e)
      <3>1. main[c] = "claim" /\ c \in {d, e}
        BY <2>4 DEF Established
      <3> QED
        BY <1>3, <1>4, <2>1, <2>3, <3>1
    <2> QED
      BY <2>2, <2>4
  <1> QED
    BY <1>5, <1>6, <1>7, <1>8 DEF Safe

\* A step in which a renewal is applied: the fence it writes is the document's,
\* unless the main thread has dropped it.
LEMMA RenewerWriteStep ==
  ASSUME TypeOK, Safe, TypeOK', NEW c \in Catalogs,
         Applied(c, "renewer", Reserved(c, "renewer")), renewer[c] = "renew",
         UNCHANGED <<main, fence>>,
         \A d \in Catalogs \ {c} : renewer'[d] = renewer[d]
  PROVE  Safe'
  <1>1. /\ <<c, "renewer">> \in current
        /\ RenewerKnows(c)
        /\ current' = {}
    BY DEF Safe, WhatIsRead, Applied
  <1>2. control'.fence \in {control.fence, None} /\ Readable
    BY <1>1, ReservedType DEF RenewerKnows, Applied, Thread
  <1>3. WhatIsRead'
    BY <1>1 DEF WhatIsRead, MainKnows, RenewerKnows
  <1>4. FencesBehind'
    BY <1>2 DEF Safe, FencesBehind, Readable, Established
  <1>5. RenewerAfterClaim'
    BY DEF Safe, RenewerAfterClaim
  <1>6. HeldFencesDistinct'
    BY DEF Safe, HeldFencesDistinct, Established
  <1> QED
    BY <1>3, <1>4, <1>5, <1>6 DEF Safe

\* Failing leaves the catalog quiet, when what it had read is gone or stale.
LEMMA FailsQuiet ==
  ASSUME TypeOK, Safe, NEW c \in Catalogs, Fails(c), UNCHANGED control,
         main[c] \in Looping \cup {"check"},
         current' \subseteq current, <<c, "main">> \notin current'
  PROVE  Quiet(c)
  <1>1. /\ \A d \in Catalogs \ {c} :
             main'[d] = main[d] /\ sent'[d] = sent[d] /\ fence'[d] = fence[d]
        /\ sent'[c]["renewer"] = sent[c]["renewer"]
        /\ main'[c] = IF main[c] \in {"claim", "release"} THEN "idle" ELSE "held"
        /\ fence'[c] = IF main[c] = "release" THEN None ELSE fence[c]
        /\ UNCHANGED renewer
    BY DEF Fails, EndLoop, TypeOK, Thread
  <1>2. Established(c)' => Established(c) /\ fence'[c] = fence[c]
    BY <1>1 DEF Established, Looping
  <1>3. RenewerKnows(c)
    BY DEF Safe, WhatIsRead
  <1> QED
    BY <1>1, <1>2, <1>3 DEF Quiet, RenewerKnows

\* The same for the steps of the renewal thread that write nothing.
LEMMA RenewalQuiet ==
  ASSUME TypeOK, Safe, NEW c \in Catalogs, NEW r \in RenewerState, Renewal(c, r),
         renewer[c] # "off", UNCHANGED control,
         current' \subseteq current,
         <<c, "renewer">> \in current' => r = "renew" /\ sent'[c]["renewer"],
         sent'[c]["main"] = sent[c]["main"],
         \A d \in Catalogs \ {c} : sent'[d] = sent[d]
  PROVE  Quiet(c)
  <1>1. /\ renewer'[c] = r
        /\ \A d \in Catalogs \ {c} : renewer'[d] = renewer[d]
        /\ UNCHANGED <<main, fence>>
    BY DEF Renewal, TypeOK
  <1>2. MainKnows(c) /\ main[c] # "claim"
    BY DEF Safe, WhatIsRead, RenewerAfterClaim
  <1> QED
    BY <1>1, <1>2 DEF Quiet, MainKnows, Established

\* The loops of the main thread keep the invariant.
LEMMA MainSafe ==
  ASSUME TypeOK, Safe, TypeOK', NEW c \in Catalogs, MainLoops(c)
  PROVE  Safe'
  <1> USE DEF Thread
  <1>1. MainKnows(c) /\ RenewerKnows(c) /\ (renewer[c] # "off" => main[c] # "claim")
    BY DEF Safe, WhatIsRead, RenewerAfterClaim
  <1>2. ASSUME Fails(c), UNCHANGED store, ~sent[c]["main"], main[c] \in Looping
        PROVE  Safe'
    BY <1>1, <1>2, FailsQuiet, QuietStep DEF store, MainKnows
  <1>3. ASSUME NEW d \in MainState \ {"claim"}, Goto(c, d), UNCHANGED <<store, loops>>,
               main[c] \in {"check", "join"}, Established(c)' => Established(c)
        PROVE  Safe'
    <2>1. /\ main'[c] = d
          /\ \A e \in Catalogs \ {c} : main'[e] = main[e]
          /\ UNCHANGED <<renewer, fence, control, current, sent>>
      BY <1>3 DEF Goto, TypeOK, store, loops
    <2>2. Quiet(c)
      BY <1>1, <1>3, <2>1 DEF Quiet, MainKnows, RenewerKnows, Looping
    <2> QED
      BY <2>2, QuietStep
  <1>4. CASE ClaimRead(c)
    <2>1. CASE Readable /\ control.left = 0
      <3>1. /\ main[c] \in Looping
            /\ fence' = [fence EXCEPT ![c] = control.fence + 1]
            /\ Observe(c, "main")
            /\ UNCHANGED <<main, renewer>>
        BY <1>4, <2>1 DEF ClaimRead, Looping
      <3> QED
        BY <1>4, <2>1, <3>1, MainReadStep DEF ClaimRead
    <2>2. CASE ~(Readable /\ control.left = 0)
      BY <1>2, <1>4, <2>2 DEF ClaimRead, Looping
    <2> QED
      BY <2>1, <2>2
  <1>5. CASE Check(c)
    <2>1. CASE Fails(c)
      BY <1>1, <1>5, <2>1, FailsQuiet, QuietStep DEF Check, store, MainKnows, Looping
    <2>2. CASE ~Fails(c)
      <3>1. PICK d \in {"renew", "mutate", "held"} : Goto(c, d) /\ UNCHANGED loops
        BY <1>5, <2>2 DEF Check, AfterCheck
      <3>2. d \in MainState \ {"claim"} /\ Established(c) /\ UNCHANGED store
        BY <1>5 DEF Check, MainState, Established
      <3> QED
        BY <1>3, <1>5, <3>1, <3>2 DEF Check
    <2> QED
      BY <2>1, <2>2
  <1>6. CASE AuthorisedRead(c)
    <2>1. CASE Authority(c)
      <3>1. /\ main[c] \in Looping /\ main[c] # "claim"
            /\ Observe(c, "main")
            /\ UNCHANGED <<main, renewer, fence>>
            /\ Readable /\ control.holder = c /\ fence[c] = control.fence
        BY <1>6, <2>1 DEF AuthorisedRead, Looping, Authority
      <3> QED
        BY <3>1, MainReadStep
    <2>2. CASE ~Authority(c)
      BY <1>2, <1>6, <2>2 DEF AuthorisedRead, Looping
    <2> QED
      BY <2>1, <2>2
  <1>7. CASE Join(c)
    <2>1. "release" \in MainState \ {"claim"} /\ Established(c) /\ main[c] = "join"
      BY <1>7 DEF Join, MainState, Established
    <2> QED
      BY <1>3, <1>7, <2>1 DEF Join
  <1>8. CASE ReleaseRead(c)
    <2>1. CASE Readable /\ control.holder = c /\ control.fence = fence[c]
      <3>1. /\ main[c] \in Looping /\ main[c] # "claim"
            /\ Observe(c, "main")
            /\ UNCHANGED <<main, renewer, fence>>
        BY <1>8, <2>1 DEF ReleaseRead, Looping
      <3> QED
        BY <2>1, <3>1, MainReadStep
    <2>2. CASE ~(Readable /\ control.holder = c /\ control.fence = fence[c])
      BY <1>2, <1>8, <2>2 DEF ReleaseRead, Looping
    <2> QED
      BY <2>1, <2>2
  <1>9. CASE MainCommits(c)
    <2>1. AfterCheck(c) \in {"mutate", "held"}
      BY DEF AfterCheck
    <2>2. /\ main'[c] = (IF main[c] = "renew" THEN AfterCheck(c)
                         ELSE IF main[c] = "release" THEN "idle" ELSE "held")
          /\ fence'[c] = IF main[c] = "release" THEN None ELSE fence[c]
          /\ \A d \in Catalogs \ {c} :
               main'[d] = main[d] /\ renewer'[d] = renewer[d] /\ fence'[d] = fence[d]
          /\ main[c] \in Looping /\ Applied(c, "main", MainDocument(c))
      BY <1>9 DEF MainCommits, TypeOK
    <2>3. Established(c)' => fence'[c] = fence[c] /\ (Established(c) \/ main[c] = "claim")
      BY <2>1, <2>2 DEF Established, Looping
    <2>4. main'[c] # "claim"
      BY <2>1, <2>2
    <2> QED
      BY <2>2, <2>3, <2>4, MainWriteStep
  <1>10. ASSUME Fails(c), main[c] \in Looping, Applied(c, "main", MainDocument(c))
         PROVE  Safe'
    <2>1. /\ main'[c] = IF main[c] \in {"claim", "release"} THEN "idle" ELSE "held"
          /\ fence'[c] = IF main[c] = "release" THEN None ELSE fence[c]
          /\ \A d \in Catalogs \ {c} : main'[d] = main[d] /\ fence'[d] = fence[d]
          /\ UNCHANGED renewer
      BY <1>10 DEF Fails, TypeOK
    <2>2. Established(c)' => fence'[c] = fence[c] /\ (Established(c) \/ main[c] = "claim")
      BY <1>10, <2>1 DEF Established, Looping
    <2>3. main'[c] # "claim"
      BY <2>1
    <2> QED
      BY <1>10, <2>1, <2>2, <2>3, MainWriteStep
  <1>11. CASE MainConflicts(c)
    <2>1. CASE Refused(c, "main") /\ Fails(c)
      BY <1>11, <2>1, FailsQuiet, QuietStep DEF MainConflicts, Refused, store
    <2>2. CASE Applied(c, "main", MainDocument(c)) /\ Fails(c)
      BY <1>10, <1>11, <2>2 DEF MainConflicts
    <2>3. CASE ~Fails(c)
      <3>1. /\ UNCHANGED <<main, goal, renewer, fence, failed>>
            /\ sent'[c]["renewer"] = sent[c]["renewer"]
            /\ \A d \in Catalogs \ {c} : sent'[d] = sent[d]
        BY <1>11, <2>3 DEF MainConflicts, Retry, TypeOK
      <3>2. CASE Refused(c, "main")
        <4>1. Quiet(c)
          BY <1>1, <3>1, <3>2 DEF Quiet, Refused, store, Established, RenewerKnows
        <4> QED
          BY <4>1, QuietStep
      <3>3. CASE Applied(c, "main", MainDocument(c))
        <4>1. Established(c)' => fence'[c] = fence[c] /\ (Established(c) \/ main[c] = "claim")
          BY <3>1 DEF Established
        <4>2. main[c] \in Looping
          BY <1>11 DEF MainConflicts
        <4> QED
          BY <1>1, <3>1, <3>3, <4>1, <4>2, MainWriteStep
      <3> QED
        BY <1>11, <3>2, <3>3 DEF MainConflicts
    <2> QED
      BY <1>11, <2>1, <2>2, <2>3 DEF MainConflicts
  <1>12. CASE MainRaises(c)
    <2>1. CASE Abandoned(c, "main")
      BY <1>12, <2>1, FailsQuiet, QuietStep DEF MainRaises, Abandoned
    <2> QED
      BY <1>10, <1>12, <2>1 DEF MainRaises
  <1> QED
    BY <1>4, <1>5, <1>6, <1>7, <1>8, <1>9, <1>11, <1>12 DEF MainLoops

\* So do those of the renewal thread.
LEMMA RenewerSafe ==
  ASSUME TypeOK, Safe, TypeOK', NEW c \in Catalogs, RenewerLoops(c)
  PROVE  Safe'
  <1> USE DEF Thread
  <1>1. RenewerKnows(c)
    BY DEF Safe, WhatIsRead
  <1>2. ASSUME NEW r \in RenewerState, Renewal(c, r), renewer[c] # "off",
               <<c, "renewer">> \notin current', current' \subseteq current,
               UNCHANGED control,
               UNCHANGED loops \/ EndLoop(c, "renewer") \/ Retry(c, "renewer")
        PROVE  Safe'
    <2>1. /\ sent'[c]["main"] = sent[c]["main"]
          /\ \A d \in Catalogs \ {c} : sent'[d] = sent[d]
      BY <1>2 DEF EndLoop, Retry, TypeOK, loops
    <2> QED
      BY <1>2, <2>1, RenewalQuiet, QuietStep
  <1>3. ASSUME NEW r \in RenewerState, Renewal(c, r), renewer[c] = "renew",
               Applied(c, "renewer", Reserved(c, "renewer"))
        PROVE  Safe'
    <2>1. UNCHANGED <<main, fence>> /\ \A d \in Catalogs \ {c} : renewer'[d] = renewer[d]
      BY <1>3 DEF Renewal, TypeOK
    <2> QED
      BY <1>3, <2>1, RenewerWriteStep
  <1>4. CASE RenewerWakes(c) \/ RenewerLocked(c) \/ RenewerFails(c)
    <2>1. PICK r \in RenewerState : Renewal(c, r)
      BY <1>4 DEF RenewerWakes, RenewerLocked, RenewerFails, RenewerState
    <2>2. <<c, "renewer">> \notin current /\ renewer[c] # "off"
      BY <1>1, <1>4 DEF RenewerWakes, RenewerLocked, RenewerFails, RenewerKnows
    <2>3. UNCHANGED <<store, loops>>
      BY <1>4 DEF RenewerWakes, RenewerLocked, RenewerFails
    <2> QED
      BY <1>2, <2>1, <2>2, <2>3 DEF store
  <1>5. CASE RenewerRead(c)
    <2>1. CASE Observe(c, "renewer") /\ UNCHANGED <<main, goal, renewer, fence>>
      <3>1. CASE Authority(c)
        BY <1>5, <2>1, <3>1, RenewerReadStep DEF RenewerRead
      <3>2. CASE ~Authority(c)
        BY <1>1, <1>2, <1>5, <3>2 DEF RenewerRead, RenewerKnows, store, RenewerState
      <3> QED
        BY <3>1, <3>2
    <2>2. CASE Renewal(c, "failing") /\ EndLoop(c, "renewer") /\ UNCHANGED store
      BY <1>1, <1>2, <1>5, <2>2 DEF RenewerRead, RenewerKnows, store, RenewerState
    <2> QED
      BY <1>5, <2>1, <2>2 DEF RenewerRead
  <1>6. CASE RenewerCommits(c)
    BY <1>3, <1>6 DEF RenewerCommits, RenewerState
  <1>7. CASE RenewerConflicts(c)
    <2>1. PICK r \in RenewerState :
            Renewal(c, r) /\ (EndLoop(c, "renewer") \/ Retry(c, "renewer"))
      BY <1>7 DEF RenewerConflicts, RenewerState
    <2>2. CASE Refused(c, "renewer")
      BY <1>2, <1>7, <2>1, <2>2 DEF RenewerConflicts, Refused, store
    <2>3. CASE Applied(c, "renewer", Reserved(c, "renewer"))
      BY <1>3, <1>7, <2>1, <2>3 DEF RenewerConflicts
    <2> QED
      BY <1>7, <2>2, <2>3 DEF RenewerConflicts
  <1>8. CASE RenewerRaises(c)
    <2>1. CASE Abandoned(c, "renewer")
      BY <1>2, <1>8, <2>1 DEF RenewerRaises, Abandoned, RenewerState
    <2>2. CASE Applied(c, "renewer", Reserved(c, "renewer"))
      BY <1>3, <1>8, <2>2 DEF RenewerRaises, RenewerState
    <2> QED
      BY <1>8, <2>1, <2>2 DEF RenewerRaises
  <1> QED
    BY <1>4, <1>5, <1>6, <1>7, <1>8 DEF RenewerLoops

\* Time only runs the lease down, and a lease that has run out stays so.
LEMMA TickSafe ==
  ASSUME TypeOK, Safe, Tick
  PROVE  Safe'
  <1>1. /\ control'.fence = control.fence
        /\ control'.holder = control.holder
        /\ control.left = 0 => control'.left = 0
        /\ UNCHANGED <<current, main, renewer, sent, fence>>
    BY DEF Tick, TypeOK, ControlType
  <1>2. WhatIsRead'
    BY <1>1 DEF Safe, WhatIsRead, MainKnows, RenewerKnows, Readable
  <1> QED
    BY <1>1, <1>2 DEF Safe, FencesBehind, Readable, Established, RenewerAfterClaim,
                      HeldFencesDistinct

\* Every step keeps the invariant.
LEMMA StepSafe == TypeOK /\ Safe /\ [Next]_vars => Safe'
  <1> SUFFICES ASSUME TypeOK, Safe, [Next]_vars
               PROVE  Safe'
    OBVIOUS
  <1>1. TypeOK'
    BY StepType
  <1>2. ASSUME NEW c \in Catalogs
        PROVE  MainKnows(c) /\ RenewerKnows(c) /\ (renewer[c] # "off" => main[c] # "claim")
    BY DEF Safe, WhatIsRead, RenewerAfterClaim
  <1>3. ASSUME NEW c \in Catalogs, StartClaim(c)
        PROVE  Safe'
    <2>1. Quiet(c)
      BY <1>2, <1>3 DEF StartClaim, Quiet, MainKnows, RenewerKnows, Established, Looping,
                        store, loops, TypeOK
    <2> QED
      BY <1>1, <2>1, QuietStep
  <1>4. ASSUME NEW c \in Catalogs, StartOperation(c)
        PROVE  Safe'
    <2>1. Quiet(c)
      BY <1>2, <1>4 DEF StartOperation, Quiet, MainKnows, RenewerKnows, Established, Looping,
                        store, loops, TypeOK
    <2> QED
      BY <1>1, <2>1, QuietStep
  <1>5. ASSUME NEW c \in Catalogs, Leave(c)
        PROVE  Safe'
    <2>1. Quiet(c)
      BY <1>2, <1>5 DEF Leave, Goto, Quiet, MainKnows, RenewerKnows, Established, Looping,
                        store, loops, TypeOK
    <2> QED
      BY <1>1, <2>1, QuietStep
  <1>6. ASSUME NEW c \in Catalogs, Crash(c)
        PROVE  Safe'
    <2>1. <<c, "main">> \notin current' /\ <<c, "renewer">> \notin current'
      BY <1>6 DEF Crash, Thread
    <2>2. Quiet(c)
      BY <1>6, <2>1 DEF Crash, Quiet, Established, TypeOK
    <2> QED
      BY <1>1, <2>2, QuietStep
  <1>7. CASE UNCHANGED vars
    BY <1>7 DEF vars, store, loops, Safe, WhatIsRead, MainKnows, RenewerKnows, FencesBehind,
                Readable, Established, RenewerAfterClaim, HeldFencesDistinct
  <1> QED
    BY <1>1, <1>3, <1>4, <1>5, <1>6, <1>7, MainSafe, RenewerSafe, TickSafe DEF Next

\* The types and the invariant hold at any time.
LEMMA InductiveInvariant == Spec => [](TypeOK /\ Safe)
  <1>1. Init => TypeOK /\ Safe
    BY InitType, InitSafe
  <1>2. (TypeOK /\ Safe) /\ [Next]_vars => (TypeOK /\ Safe)'
    BY StepType, StepSafe
  <1> QED
    BY <1>1, <1>2, PTL DEF Spec

\* How a step may change the document.
LEMMA DocumentSteps ==
  ASSUME [Next]_vars
  PROVE  \/ UNCHANGED control
         \/ Tick
         \/ \E c \in Catalogs : main[c] \in Looping /\ Applied(c, "main", MainDocument(c))
         \/ \E c \in Catalogs : Applied(c, "renewer", Reserved(c, "renewer"))
  <1>1. ASSUME NEW c \in Catalogs, MainLoops(c)
        PROVE  UNCHANGED control \/ (main[c] \in Looping /\ Applied(c, "main", MainDocument(c)))
    <2>1. CASE ClaimRead(c) \/ Check(c) \/ AuthorisedRead(c) \/ Join(c) \/ ReleaseRead(c)
      BY <2>1 DEF ClaimRead, Check, AuthorisedRead, Join, ReleaseRead, Observe, store
    <2>2. CASE MainCommits(c) \/ MainConflicts(c) \/ MainRaises(c)
      BY <2>2 DEF MainCommits, MainConflicts, MainRaises, Refused, Abandoned, store
    <2> QED
      BY <1>1, <2>1, <2>2 DEF MainLoops
  <1>2. ASSUME NEW c \in Catalogs, RenewerLoops(c)
        PROVE  UNCHANGED control \/ Applied(c, "renewer", Reserved(c, "renewer"))
    <2>1. CASE RenewerWakes(c) \/ RenewerLocked(c) \/ RenewerRead(c) \/ RenewerFails(c)
      BY <2>1 DEF RenewerWakes, RenewerLocked, RenewerRead, RenewerFails, Observe, store
    <2>2. CASE RenewerCommits(c) \/ RenewerConflicts(c) \/ RenewerRaises(c)
      BY <2>2 DEF RenewerCommits, RenewerConflicts, RenewerRaises, Refused, Abandoned, store
    <2> QED
      BY <1>2, <2>1, <2>2 DEF RenewerLoops
  <1>3. ASSUME NEW c \in Catalogs, StartClaim(c) \/ StartOperation(c) \/ Leave(c) \/ Crash(c)
        PROVE  UNCHANGED control
    BY <1>3 DEF StartClaim, StartOperation, Leave, Crash, store
  <1> QED
    BY <1>1, <1>2, <1>3 DEF Next, vars

\* What is written when the last read is still what is stored.
LEMMA MainWrites ==
  ASSUME TypeOK, Safe, NEW c \in Catalogs, main[c] \in Looping,
         Applied(c, "main", MainDocument(c))
  PROVE  /\ main[c] = "claim" =>
              /\ control.left = 0
              /\ control'.fence = control.fence + 1
              /\ control'.holder = c
              /\ control'.author = control.author
         /\ main[c] # "claim" => control.holder = c /\ control'.fence = control.fence
         /\ main[c] = "renew" => control'.holder = c /\ control'.author = control.author
         /\ main[c] = "mutate" =>
              /\ control'.holder = c
              /\ control'.author = [by |-> control.holder, at |-> control.fence]
         /\ main[c] = "release" => control'.holder = NoOne /\ control'.author = control.author
  <1>1. control' = MainDocument(c) /\ MainKnows(c) /\ <<c, "main">> \in current
    BY DEF Applied, Safe, WhatIsRead
  <1>2. /\ main[c] = "claim" => control.left = 0 /\ fence[c] = control.fence + 1
        /\ main[c] # "claim" => control.holder = c /\ fence[c] = control.fence
    BY <1>1 DEF MainKnows
  <1> QED
    BY <1>1, <1>2, MainDocumentType DEF Looping

\* A renewal keeps fence, holder and author.
LEMMA RenewerWrites ==
  ASSUME TypeOK, Safe, NEW c \in Catalogs, Applied(c, "renewer", Reserved(c, "renewer"))
  PROVE  /\ control.holder = c /\ control'.holder = c
         /\ control'.author = control.author
         /\ control'.fence = fence[c]
         /\ fence[c] \in {control.fence, None}
  <1>1. control' = Reserved(c, "renewer") /\ RenewerKnows(c) /\ <<c, "renewer">> \in current
    BY DEF Applied, Safe, WhatIsRead
  <1> QED
    BY <1>1, ReservedType DEF RenewerKnows, Thread

\* Time changes none of them.
LEMMA TickWrites ==
  ASSUME TypeOK, Tick
  PROVE  /\ control'.fence = control.fence
         /\ control'.holder = control.holder
         /\ control'.author = control.author
  BY DEF Tick, TypeOK, ControlType

-----------------------------------------------------------------------------
(* A renewal thread that is joined before the release.                     *)

\* Whoever has a renewal thread is inside hold(), and not releasing.
Joined ==
  \A c \in Catalogs : renewer[c] # "off" => Established(c) /\ main[c] # "release"

\* If the join cannot time out, no renewal thread outlives the holding of its catalog.
LEMMA StepJoined ==
  ASSUME ~JoinMayTimeOut, TypeOK, Joined, [Next]_vars
  PROVE  Joined'
  <1> SUFFICES ASSUME NEW d \in Catalogs, renewer'[d] # "off"
               PROVE  Established(d)' /\ main'[d] # "release"
    BY DEF Joined
  <1>1. renewer[d] # "off" => Established(d) /\ main[d] # "release"
    BY DEF Joined
  <1>2. ASSUME NEW c \in Catalogs, MainLoops(c)
        PROVE  Established(d)' /\ main'[d] # "release"
    <2>1. ASSUME Fails(c), main[c] \in Looping \cup {"check"}
          PROVE  Established(d)' /\ main'[d] # "release"
      BY <1>1, <2>1 DEF Fails, TypeOK, Established, Looping
    <2>2. ASSUME UNCHANGED <<main, renewer>>
          PROVE  Established(d)' /\ main'[d] # "release"
      BY <1>1, <2>2 DEF Established
    <2>3. CASE ClaimRead(c) \/ AuthorisedRead(c) \/ ReleaseRead(c)
      BY <2>1, <2>2, <2>3 DEF ClaimRead, AuthorisedRead, ReleaseRead, Looping
    <2>4. CASE Check(c)
      <3>1. AfterCheck(c) \in {"held", "mutate"}
        BY DEF AfterCheck
      <3>2. CASE ~Fails(c)
        BY <1>1, <2>4, <3>1, <3>2 DEF Check, Goto, TypeOK, Established
      <3> QED
        BY <2>1, <2>4, <3>2 DEF Check
    <2>5. CASE Join(c)
      BY <1>1, <2>5 DEF Join, Goto, TypeOK, Established
    <2>6. CASE MainCommits(c)
      <3>1. AfterCheck(c) \in {"held", "mutate"}
        BY DEF AfterCheck
      <3> QED
        BY <1>1, <2>6, <3>1 DEF MainCommits, TypeOK, Established
    <2>7. CASE MainConflicts(c) \/ MainRaises(c)
      BY <2>1, <2>2, <2>7 DEF MainConflicts, MainRaises
    <2> QED
      BY <1>2, <2>3, <2>4, <2>5, <2>6, <2>7 DEF MainLoops
  <1>3. ASSUME NEW c \in Catalogs, RenewerLoops(c)
        PROVE  Established(d)' /\ main'[d] # "release"
    <2>1. UNCHANGED main /\ (renewer[c] = "off" => FALSE)
      BY <1>3 DEF RenewerLoops, RenewerWakes, RenewerLocked, RenewerRead, RenewerCommits,
                  RenewerConflicts, RenewerRaises, RenewerFails, Renewal
    <2>2. \A e \in Catalogs \ {c} : renewer'[e] = renewer[e]
      BY <1>3 DEF RenewerLoops, RenewerWakes, RenewerLocked, RenewerRead, RenewerCommits,
                  RenewerConflicts, RenewerRaises, RenewerFails, Renewal, TypeOK
    <2> QED
      BY <1>1, <2>1, <2>2 DEF Established
  <1>4. ASSUME NEW c \in Catalogs, StartClaim(c) \/ StartOperation(c) \/ Leave(c) \/ Crash(c)
        PROVE  Established(d)' /\ main'[d] # "release"
    BY <1>1, <1>4 DEF StartClaim, StartOperation, Leave, Goto, Crash, TypeOK, Established
  <1>5. CASE Tick \/ UNCHANGED vars
    BY <1>1, <1>5 DEF Tick, vars, Established
  <1> QED
    BY <1>2, <1>3, <1>4, <1>5 DEF Next

\* So it is at any time.
LEMMA JoinedInvariant ==
  ASSUME ~JoinMayTimeOut
  PROVE  Spec => []Joined
  <1>1. Init => Joined
    BY DEF Init, Joined
  <1>2. TypeOK /\ Joined /\ [Next]_vars => Joined'
    BY StepJoined
  <1> QED
    BY <1>1, <1>2, TypeCorrect, PTL DEF Spec

\* Then every step is a step of the promise, or changes nothing that it sees.
LEMMA PromiseStep ==
  ASSUME TypeOK, Safe, Joined, [Next]_vars
  PROVE  [Promise!Next]_(Promise!vars)
  <1>1. CASE UNCHANGED control
    BY <1>1 DEF Promise!vars
  <1>2. CASE Tick
    BY <1>2, TickWrites DEF Promise!vars
  <1>3. ASSUME NEW c \in Catalogs, main[c] \in Looping, Applied(c, "main", MainDocument(c))
        PROVE  [Promise!Next]_(Promise!vars)
    <2>1. CASE main[c] = "claim"
      BY <1>3, <2>1, MainWrites DEF Promise!Next, Promise!Grant
    <2>2. CASE main[c] = "renew"
      BY <1>3, <2>2, MainWrites DEF Promise!vars
    <2>3. CASE main[c] = "mutate"
      BY <1>3, <2>3, MainWrites DEF Promise!Next, Promise!Change
    <2>4. CASE main[c] = "release"
      BY <1>3, <2>4, MainWrites DEF Promise!Next, Promise!Release
    <2> QED
      BY <1>3, <2>1, <2>2, <2>3, <2>4 DEF Looping
  <1>4. ASSUME NEW c \in Catalogs, Applied(c, "renewer", Reserved(c, "renewer"))
        PROVE  [Promise!Next]_(Promise!vars)
    <2>1. renewer[c] = "renew" /\ Readable
      BY <1>4 DEF Safe, WhatIsRead, RenewerKnows, Applied
    <2>2. fence[c] \in 0 .. control.fence
      BY <2>1 DEF Joined, Safe, FencesBehind
    <2>3. fence[c] # None
      BY <2>2 DEF None
    <2> QED
      BY <1>4, <2>3, RenewerWrites DEF Promise!vars
  <1> QED
    BY <1>1, <1>2, <1>3, <1>4, DocumentSteps

-----------------------------------------------------------------------------
(* The theorems.                                                           *)

\* Two catalogs inside hold() never share a fence.
THEOREM FencesDistinct == Spec => []HeldFencesDistinct
  BY InductiveInvariant, PTL DEF Safe

\* What mutate() commits is the work of the holder of the reservation, at its
\* fence.
THEOREM OnlyHolderChanges == Spec => ChangesFenced
  <1> DEFINE Fenced == control'.author # control.author =>
                         control'.author = [by |-> control.holder, at |-> control.fence]
  <1>1. TypeOK /\ Safe /\ [Next]_vars => [Fenced]_vars
    <2> SUFFICES ASSUME TypeOK, Safe, [Next]_vars
                 PROVE  Fenced
      OBVIOUS
    <2>1. ASSUME NEW c \in Catalogs, main[c] \in Looping, Applied(c, "main", MainDocument(c))
          PROVE  Fenced
      BY <2>1, MainWrites DEF Looping
    <2> QED
      BY <2>1, DocumentSteps, RenewerWrites, TickWrites
  <1> QED
    BY <1>1, InductiveInvariant, PTL DEF Spec, ChangesFenced

\* Nobody takes away a reservation whose lease still runs.
THEOREM LeaseRespected == Spec => LiveLeaseKept
  <1> DEFINE Kept == control.left > 0 /\ control'.holder # control.holder =>
                       control'.holder = NoOne /\ main[control.holder] = "release"
  <1>1. TypeOK /\ Safe /\ [Next]_vars => [Kept]_vars
    <2> SUFFICES ASSUME TypeOK, Safe, [Next]_vars
                 PROVE  Kept
      OBVIOUS
    <2>1. ASSUME NEW c \in Catalogs, main[c] \in Looping, Applied(c, "main", MainDocument(c))
          PROVE  Kept
      BY <2>1, MainWrites DEF Looping
    <2> QED
      BY <2>1, DocumentSteps, RenewerWrites, TickWrites
  <1> QED
    BY <1>1, InductiveInvariant, PTL DEF Spec, LiveLeaseKept

\* A reservation whose renewal thread always ends before its join times out
\* keeps the promise of FencedArchive: fences only grow, one step at each grant,
\* and only the holder at the current fence changes the records.
THEOREM ImplementsPromise ==
  ASSUME ~JoinMayTimeOut
  PROVE  Spec => KeepsPromise
  <1>1. Init => Promise!Init
    BY DEF Init, Promise!Init, Nobody, Promise!Nobody
  <1>2. TypeOK /\ Safe /\ Joined /\ [Next]_vars => [Promise!Next]_(Promise!vars)
    BY PromiseStep
  <1> QED
    BY <1>1, <1>2, InductiveInvariant, JoinedInvariant, PTL DEF Spec, KeepsPromise, Promise!Spec
=============================================================================
