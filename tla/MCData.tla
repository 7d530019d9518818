-------------------------------- MODULE MCData --------------------------------
(***************************************************************************)
(* The parts through which data comes into a warehouse and out of an       *)
(* archive, side by side: they share no state, so each behaviour is one of *)
(* one part, the others resting where they begin.                          *)
(***************************************************************************)
EXTENDS Collection, PriceCheckpoint, Sessions, Contract, Curation, PinnedRead,
        RecoveryRead, Bucket, Pacing, Destinations

CONSTANTS n1, n2  \* the sessions

VARIABLE part  \* the part that moves

Components ==
  {"collection", "prices", "sessions", "contract", "curation", "pinned", "recovery",
   "bucket", "pacing", "destinations"}

DataInit ==
  /\ part \in Components
  /\ CInit /\ (part # "collection" => backend = "duckdb")
  /\ PricesInit
  /\ SessionsInit
  /\ CurationInit /\ (part # "curation" => store = "direct" /\ CurrentRows("a") # {})
  /\ PinnedInit /\ (part # "pinned" => engine = "direct")
  /\ RecoveryInit
  /\ part # "recovery" => choice = 0 /\ archives = [a \in Archives |-> "open"]
       /\ copies = [c \in Copies |-> "absent"]
  /\ BucketInit /\ (part # "bucket" => provider = "local")
  /\ PacingInit
  /\ DestinationsInit /\ (part # "destinations" => \A d \in Destinations : shelf[d] = <<>>)
  /\ IF part = "contract" THEN ContractInit
     ELSE payload = [entries |-> [kind |-> "null", members |-> <<>>]] /\ required = {}
          /\ verdict = "none"

DataNext ==
  /\ UNCHANGED part
  /\ \/ part = "collection" /\ CNext
     \/ part = "prices" /\ PricesNext
     \/ part = "sessions" /\ SessionsNext
     \/ part = "contract" /\ ContractNext
     \/ part = "curation" /\ CurationNext
     \/ part = "pinned" /\ PinnedNext
     \/ part = "recovery" /\ RecoveryNext
     \/ part = "bucket" /\ BucketNext
     \/ part = "pacing" /\ PacingNext
     \/ part = "destinations" /\ DestinationsNext
  /\ part # "collection" => UNCHANGED cvars
  /\ part # "prices" => UNCHANGED pvars
  /\ part # "sessions" => UNCHANGED yvars
  /\ part # "contract" => UNCHANGED hvars
  /\ part # "curation" => UNCHANGED uvars
  /\ part # "pinned" => UNCHANGED fvars
  /\ part # "recovery" => UNCHANGED dvars
  /\ part # "bucket" => UNCHANGED bvars
  /\ part # "pacing" => UNCHANGED gvars
  /\ part # "destinations" => UNCHANGED xvars

datavars == <<part, cvars, pvars, yvars, hvars, uvars, fvars, dvars, bvars, gvars,
             xvars>>
DataSpec == DataInit /\ [][DataNext]_datavars

Writing == {h \in Hosts : writer[h] # NotWriting}

\* Bounds on what is explored together.  While collecting, three among tokens used and things
\* that go wrong; without DuckDB's lock one of these, and tokens of one day.  Of edits and slips
\* two, and after a slip the day does not end.  Sessions that begin in the order of their
\* names, which are alike, and go on less on later days, the least after a slump.  A snapshot that is asked for
\* by name is not the newest.  Of two hosts that write at once, which are alike, one does so by
\* hand at most, none pins, and on one day a claim may lapse meanwhile, or a snapshot be pinned
\* or deleted.
Bounds ==
  /\ used[1] + used[2] + faults <= 3
  /\ backend = "motherduck" => faults <= 1 /\ 0 \in {used[1], used[2]}
  /\ edits + slips <= 2 /\ (slips = 0 \/ priceDay = 1)
  /\ date = 1 \/ Turns <= 1 \/ (Turns = 2 /\ slumps = 0)
  /\ turns[n1] = 0 => turns[n2] = 0
  /\ choice # 2
  /\ writes = 1 => writer[2] = NotWriting
  /\ Cardinality(Writing) > 1 =>
       /\ \E h \in Hosts : ~writer[h].manual
       /\ \A h \in Hosts : ~writer[h].pin
       /\ upsets > 0 => /\ calendar = Later + 1
                        /\ \A h \in Hosts : writer[h].quiet /\ writer[h].result = "none"
                        /\ \A d \in Destinations : claimed[d] # DeadHost

-----------------------------------------------------------------------------
\* The adapters of buckets keep what they have not been asked to replace, give true answers
\* and versions, and GCS's paces its changes.
BucketsHold == KeepsVersions /\ [](AnswersTrue /\ ReadsVersion) /\ Paced

\* Destinations get the snapshots that are due, keep those that are to be retained, and the
\* caller is told of each.
DestinationsHold == []EvenlySpaced /\ RotatesExactly /\ ToldTrue
=============================================================================
