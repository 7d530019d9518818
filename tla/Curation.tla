------------------------------ MODULE Curation ------------------------------
(***************************************************************************)
(* The tags and the note of one session, curated by several users          *)
(* (curation.py and the curated writes of the backends).                   *)
(*                                                                         *)
(* A command takes its time stamp, reads, and writes.  DuckDB and          *)
(* MotherDuck keep one row per tag and one for the note, BigQuery appends  *)
(* observations of which the view shows the newest that is no deletion.    *)
(***************************************************************************)
EXTENDS Naturals, FiniteSets, FiniteSetsExt

CONSTANTS Stores,     \* among "direct" and "bigquery"
          Users, Tags, Texts,
          MaxCommands \* bound: commands in all

\* Tags and notes are in tables of their own.
ASSUME CurationAssumption ==
  Stores \subseteq {"direct", "bigquery"} /\ MaxCommands \in Nat /\ "note" \notin Tags

VARIABLES
  store,
  observations, \* the rows: the assignments, and on BigQuery all that was ever written
  editing,      \* the commands in progress
  clock,        \* the time, which every command moves on
  removed,      \* for the properties: someone removed a tag
  written       \* for the properties: every write of the note, the deletions included

uvars == <<store, observations, editing, clock, removed, written>>

\* What a row is about: a tag, or the note.
NoteKey == "note"
CuratedRow(key, op, stamp, text) == [key |-> key, op |-> op, stamp |-> stamp, text |-> text]
NoText == "none"
NoEdit == [at |-> "idle", stamp |-> 0, from |-> NoteKey, to |-> NoteKey, text |-> NoText]

CurationInit ==
  /\ store \in Stores /\ clock = 1 /\ removed = FALSE /\ written = {}
  /\ \E t \in Tags : observations = {CuratedRow(t, "upsert", 0, NoText)}
  /\ editing = [u \in Users |-> NoEdit]

-----------------------------------------------------------------------------
(* What is current *)

\* current_tags and current_notes: the newest observation of a key, unless it deletes.
NewestRows(key, rows) ==
  {r \in rows : r.key = key /\ \A q \in rows : q.key = key => q.stamp <= r.stamp}
CurrentRows(key) == {r \in NewestRows(key, observations) : r.op = "upsert"}
Has(key) == CurrentRows(key) # {}

\* MUTANT: the MERGE updates the row whatever its age.
MergeBlindly(rows, new) == {r \in rows : r.key # new.key} \cup {new}

\* newer_observation(): the MERGE updates a row that is older.
Merge(rows, new) ==
  IF \E r \in rows : r.key = new.key /\ r.stamp > new.stamp THEN rows
  ELSE {r \in rows : r.key # new.key} \cup {new}

\* upsert(): a MERGE, or an observation more.
Upserted(rows, new) == IF store = "bigquery" THEN rows \cup {new} ELSE Merge(rows, new)
\* delete_curated()
Deleted(rows, key, stamp) ==
  IF store = "bigquery" THEN rows \cup {CuratedRow(key, "delete", stamp, NoText)}
  ELSE {r \in rows : r.key # key}

-----------------------------------------------------------------------------
(* The commands *)

Issue(u, command) ==
  /\ editing[u].at = "idle" /\ clock <= MaxCommands /\ clock' = clock + 1
  /\ editing' = [editing EXCEPT ![u] = [command EXCEPT !.stamp = clock]]
  /\ UNCHANGED <<store, observations, removed, written>>
Steps(u, at) == editing' = [editing EXCEPT ![u].at = at]
Finish(u) == editing' = [editing EXCEPT ![u] = NoEdit]
Writes(u, rows) == observations' = rows /\ Finish(u)
only == <<store, clock>>

\* add_tag(): nothing is written for a tag that is there.
AddTag(u) == \E t \in Tags : Issue(u, [NoEdit EXCEPT !.at = "adding", !.to = t])
LooksForTag(u) ==
  /\ editing[u].at = "adding"
  /\ IF Has(editing[u].to) THEN Finish(u) ELSE Steps(u, "inserting")
  /\ UNCHANGED <<only, observations, removed, written>>
InsertsTag(u) ==
  LET c == editing[u] IN
  /\ c.at = "inserting"
  /\ Writes(u, Upserted(observations, CuratedRow(c.to, "upsert", c.stamp, NoText)))
  /\ UNCHANGED <<only, removed, written>>

\* MUTANT: the tombstone takes the time of the write.
RenamedLate(rows, c) ==
  rows \cup {CuratedRow(c.from, "delete", clock, NoText), CuratedRow(c.to, "upsert", c.stamp, NoText)}

\* rename_curated() of BigQuery: the tombstone and the new tag, of one time, in one load.
Renamed(rows, c) ==
  rows \cup {CuratedRow(c.from, "delete", c.stamp, NoText), CuratedRow(c.to, "upsert", c.stamp, NoText)}

RenameTag(u) ==
  \E s, t \in Tags :
    s # t /\ Issue(u, [NoEdit EXCEPT !.at = "finding", !.from = s, !.to = t])
FindsTag(u) ==
  LET c == editing[u] IN
  /\ c.at = "finding"
  /\ IF ~ Has(c.from) THEN Finish(u) /\ UNCHANGED observations
     ELSE IF store = "bigquery" THEN Steps(u, "checking") /\ UNCHANGED observations
     ELSE \* one transaction: the destination, the insertion and the deletion
          Writes(u, IF Has(c.to) THEN observations
                    ELSE {r \in observations : r.key # c.from}
                           \cup {CuratedRow(c.to, "upsert", c.stamp, NoText)})
  /\ UNCHANGED <<only, removed, written>>
ChecksTag(u) ==
  /\ editing[u].at = "checking"
  /\ IF Has(editing[u].to) THEN Finish(u) ELSE Steps(u, "renaming")
  /\ UNCHANGED <<only, observations, removed, written>>
RenamesTag(u) ==
  /\ editing[u].at = "renaming" /\ Writes(u, Renamed(observations, editing[u]))
  /\ UNCHANGED <<only, removed, written>>

\* remove_tag() and remove_note(): the deletion is stamped once the row was found.
RemoveTag(u) ==
  \E k \in Tags \cup {NoteKey} : Issue(u, [NoEdit EXCEPT !.at = "removing", !.from = k])
FindsRow(u) ==
  LET c == editing[u] IN
  /\ c.at = "removing" /\ clock' = clock + 1
  /\ editing' = [editing EXCEPT ![u] =
       IF Has(c.from) THEN [c EXCEPT !.at = "deleting", !.stamp = clock] ELSE NoEdit]
  /\ UNCHANGED <<store, observations, removed, written>>
Deletes(u) ==
  LET c == editing[u] IN
  /\ c.at = "deleting" /\ Writes(u, Deleted(observations, c.from, c.stamp))
  /\ removed' = (removed \/ c.from # NoteKey)
  /\ written' = IF c.from = NoteKey
                THEN written \cup {CuratedRow(NoteKey, "delete", c.stamp, NoText)} ELSE written
  /\ UNCHANGED only

\* set_note() and edit_note(), which wants the note to exist.
SetNote(u) ==
  \E x \in Texts, at \in {"setting", "looking"} : Issue(u, [NoEdit EXCEPT !.at = at, !.text = x])
LooksForNote(u) ==
  /\ editing[u].at = "looking"
  /\ IF Has(NoteKey) THEN Steps(u, "setting") ELSE Finish(u)
  /\ UNCHANGED <<only, observations, removed, written>>
ComparesNote(u) ==
  /\ editing[u].at = "setting"
  /\ IF \E r \in CurrentRows(NoteKey) : r.text = editing[u].text THEN Finish(u)
     ELSE Steps(u, "noting")
  /\ UNCHANGED <<only, observations, removed, written>>
WritesNote(u) ==
  LET c == editing[u]
      new == CuratedRow(NoteKey, "upsert", c.stamp, c.text) IN
  /\ c.at = "noting" /\ Writes(u, Upserted(observations, new))
  /\ written' = written \cup {new}
  /\ UNCHANGED <<only, removed>>

CurationNext ==
  \E u \in Users :
    \/ AddTag(u) \/ LooksForTag(u) \/ InsertsTag(u)
    \/ RenameTag(u) \/ FindsTag(u) \/ ChecksTag(u) \/ RenamesTag(u)
    \/ RemoveTag(u) \/ FindsRow(u) \/ Deletes(u)
    \/ SetNote(u) \/ LooksForNote(u) \/ ComparesNote(u) \/ WritesNote(u)
CurationSpec == CurationInit /\ [][CurationNext]_uvars

-----------------------------------------------------------------------------
\* Renames that cross each other never lose the assignment: as long as nobody removes one,
\* the session has a tag.
RenamesKeepTag == ~ removed => \E t \in Tags : Has(t)

\* The note is the newest that was written, in whatever order the writes arrive; on BigQuery
\* a deletion is such a write, on a direct backend it leaves nothing to compare with.
NewestNoteStands ==
  (store = "bigquery" \/ \A w \in written : w.op = "upsert") =>
    CurrentRows(NoteKey) = {w \in NewestRows(NoteKey, written) : w.op = "upsert"}

\* What users curate side by side is neither lost nor overwritten by what is older.
CurationStands == RenamesKeepTag /\ NewestNoteStands
=============================================================================
