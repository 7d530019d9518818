---------------------------- MODULE RecoveryRead ----------------------------
(***************************************************************************)
(* The choice and the download of the snapshot to restore:                 *)
(* SnapshotReader.candidates() and prepare() (snapshot/reader.py).         *)
(*                                                                         *)
(* Copies of snapshots lie in several archives.  Some are damaged, some    *)
(* archives cannot be opened or written, and the rotation of another       *)
(* process deletes copies meanwhile.  A snapshot is its capture point, a   *)
(* copy an archive and a snapshot.                                         *)
(***************************************************************************)
EXTENDS Naturals, FiniteSets

CONSTANTS Archives, Snapshots,
          Objects,     \* how many objects a copy has
          MaxGlitches  \* bound: passing failures of a request, and copies rotation deletes

ASSUME RecoveryReadAssumption ==
  /\ Archives \subseteq Nat /\ Snapshots \subseteq Nat \ {0}
  /\ IsFiniteSet(Archives) /\ IsFiniteSet(Snapshots)
  /\ Objects \in Nat \ {0} /\ MaxGlitches \in Nat

VARIABLES
  copies,    \* what each archive holds of each snapshot
  archives,  \* open, readonly (no reservation can be taken) or closed (it cannot be read)
  choice,    \* the snapshot asked for, or 0 for the latest
  reader,    \* the call
  sound,     \* for the properties: copies that were and stayed whole, and never failed a read
  glitches

dvars == <<copies, archives, choice, reader, sound, glitches>>

Copies == Archives \X Snapshots
Pending == <<"pending">>
NoResult == <<"none">>

RecoveryInit ==
  /\ copies \in [Copies -> {"absent", "incomplete", "damaged", "whole"}]
  /\ archives \in [Archives -> {"open", "readonly", "closed"}]
  /\ choice \in Snapshots \cup {0}
  /\ reader = [at |-> "discover", left |-> Archives, found |-> {}, todo |-> {}, read |-> 0,
               held |-> FALSE, notices |-> FALSE, result |-> Pending]
  /\ sound = {c \in Copies : copies[c] = "whole" /\ archives[c[1]] # "closed"}
  /\ glitches = 0

Automatic == choice = 0
ReaderAt(where) == reader.at = where
Ends(result) == reader' = [reader EXCEPT !.at = "done", !.held = FALSE, !.result = result]
outside == <<copies, archives, choice>>
Smooth == UNCHANGED <<sound, glitches>>
\* A request fails though the copies it concerns are sound.
Glitch(concerned) ==
  /\ glitches < MaxGlitches /\ glitches' = glitches + 1 /\ sound' = sound \ concerned

\* COMPLETE and the manifest it names; of a copy that is going, perhaps still.
Complete(c) == copies[c] \in {"damaged", "whole"}

-----------------------------------------------------------------------------
(* candidates() *)

\* MUTANT: an archive that cannot be read ends the search for the latest.
Unreadable(a) == Ends(NoResult)

\* For the latest it is passed over with a notice, for one snapshot it is an error.
PassOver(a) ==
  IF Automatic
    THEN reader' = [reader EXCEPT !.left = @ \ {a}, !.notices = TRUE]
    ELSE Ends(NoResult)

\* One archive: Catalog.discover(recovery=True), or the manifest of the snapshot asked for.
\* An incomplete copy beside complete ones is passed over.
Discover(a) ==
  /\ ReaderAt("discover") /\ a \in reader.left
  /\ \/ \E still \in SUBSET {c \in Copies : copies[c] = "going"} :
        LET seen == {c \in Copies : Complete(c)} \cup still IN
        /\ archives[a] # "closed"
        /\ reader' = [reader EXCEPT !.left = @ \ {a},
             !.found = @ \cup {c \in seen : c[1] = a /\ choice \in {0, c[2]}}]
        /\ Smooth
     \/ archives[a] = "closed" /\ PassOver(a) /\ Smooth
     \/ ~ Automatic /\ copies[<<a, choice>>] \in {"incomplete", "going"} /\ PassOver(a) /\ Smooth
     \/ archives[a] # "closed" /\ PassOver(a) /\ Glitch({a} \X Snapshots)
  /\ UNCHANGED outside

\* MUTANT: the oldest snapshot first.
OldestFirst(c, d) == c[2] < d[2] \/ (c[2] = d[2] /\ c[1] > d[1])

\* _candidate_order(), reversed.
CandidateOrder(c, d) == c[2] > d[2] \/ (c[2] = d[2] /\ c[1] > d[1])
Candidate == CHOOSE c \in reader.todo : \A d \in reader.todo \ {c} : CandidateOrder(c, d)

Rank ==
  /\ ReaderAt("discover") /\ reader.left = {} /\ Smooth
  /\ IF reader.found = {} THEN Ends(NoResult)
     ELSE reader' = [reader EXCEPT !.at = "hold", !.todo = reader.found]
  /\ UNCHANGED outside

-----------------------------------------------------------------------------
(* prepare() *)

\* The download reservation, and the lifecycle metadata it does not depend on.
Hold ==
  /\ ReaderAt("hold") /\ Smooth
  /\ \E noticed \in BOOLEAN : reader' =
       IF archives[Candidate[1]] = "open"
         THEN [reader EXCEPT !.at = "read", !.held = TRUE, !.read = 0,
                             !.notices = @ \/ noticed]
         ELSE [reader EXCEPT !.at = "read", !.read = 0, !.notices = TRUE]
  /\ UNCHANGED outside

\* MUTANT: a candidate is passed over without a word.
RejectQuietly ==
  IF ~ Automatic \/ reader.todo = {Candidate} THEN Ends(NoResult)
  ELSE reader' = [reader EXCEPT !.at = "hold", !.held = FALSE, !.todo = @ \ {Candidate}]

Reject ==
  IF ~ Automatic \/ reader.todo = {Candidate} THEN Ends(NoResult)
  ELSE reader' = [reader EXCEPT !.at = "hold", !.held = FALSE, !.todo = @ \ {Candidate},
                                !.notices = TRUE]

\* download(): the completion and the manifest, then one object after the other, each
\* checked against its digest.  A damaged copy is damaged in one of its objects.
Read ==
  /\ ReaderAt("read") /\ reader.read < Objects
  /\ \/ copies[Candidate] \in {"whole", "going"}
          /\ reader' = [reader EXCEPT !.read = @ + 1] /\ Smooth
     \/ copies[Candidate] = "damaged" /\ reader.read + 1 < Objects
          /\ reader' = [reader EXCEPT !.read = @ + 1] /\ Smooth
     \/ copies[Candidate] # "whole" /\ Reject /\ Smooth
     \/ copies[Candidate] = "whole" /\ Reject /\ Glitch({Candidate})
  /\ UNCHANGED outside

\* No room for the files: the destination is not to blame, nor another candidate tried.
DiskFull ==
  /\ ReaderAt("read") /\ Glitch(Copies) /\ Ends(NoResult)
  /\ UNCHANGED outside

Yield ==
  /\ ReaderAt("read") /\ reader.read = Objects /\ Ends(Candidate) /\ Smooth
  /\ UNCHANGED outside

-----------------------------------------------------------------------------
\* The rotation of another process deletes the objects of a copy one by one, in an order that
\* is the bucket's.  It waits for the reservation.
Rotate(c) ==
  /\ Complete(c) /\ ~ ReaderAt("done") /\ archives[c[1]] # "closed"
  /\ ~ (reader.held /\ Candidate[1] = c[1])
  /\ Glitch({c})
  /\ copies' = [copies EXCEPT ![c] = "going"]
  /\ UNCHANGED <<archives, choice, reader>>

RecoveryNext ==
  \/ \E a \in Archives : Discover(a)
  \/ Rank \/ Hold \/ Read \/ DiskFull \/ Yield
  \/ \E c \in Copies : Rotate(c)
RecoverySpec == RecoveryInit /\ [][RecoveryNext]_dvars

-----------------------------------------------------------------------------
\* The latest is the latest there was to read: no copy of a later snapshot stayed readable
\* throughout, whatever else was damaged, closed or deleted meanwhile.
YieldsLatest ==
  Automatic /\ reader.result \in Copies => \A c \in sound : c[2] <= reader.result[2]

\* A restore of the latest fails only when no copy of any snapshot stayed readable.
FailsForCause == Automatic /\ reader.result = NoResult => sound = {}

\* An older snapshot is never restored in silence: where a later complete copy was found and
\* rejected, or an archive was passed over, there is a notice.
FallbackIsTold ==
  reader.result \in Copies /\ ~ reader.notices =>
    \A c \in reader.found : ~ CandidateOrder(c, reader.result)

\* The latest readable snapshot is restored, or a reason is given.
RestoresLatest == YieldsLatest /\ FailsForCause /\ FallbackIsTold
=============================================================================
