---------------------------- MODULE NoteVersions ----------------------------
(***************************************************************************)
(* One note and its history: NoteFacadeImpl.insert, update and delete over *)
(* NoteContentPostgresRepo and NoteVersionPostgresRepo, and the restore of *)
(* GrpcNoteVersionService.  A caller is one gRPC request; it gives way at  *)
(* every await, each statement is a transaction of its own, and whatever   *)
(* raises ends the request where it is.                                    *)
(*                                                                         *)
(* Abstractions.  A text is a partial function from line positions to      *)
(* words: an edit changes, removes or adds lines in their places, and no   *)
(* line occurs twice, so that difflib matches exactly the common lines.    *)
(* The empty text and the presence of a final newline are left out.        *)
(* Authors, times, tags, embeddings and permission checks are left out,    *)
(* and the parents of an update (they do not touch the history).           *)
(* MaxVersions bounds the versions ever made.                              *)
(***************************************************************************)
EXTENDS Naturals, FiniteSets, FiniteSetsExt

CONSTANTS Caller,       \* requests in flight
          Line, Word,   \* line positions, and what may stand there
          Title,
          Drafts,       \* what clients write: documents, possibly partial
          MaxDeltas,    \* max_deltas_per_snapshot
          MaxVersions,  \* bound on the versions
          Keep,         \* UNDEFINED in an update: the field is left alone
          NoChange,     \* the patch "" of two equal texts
          CanFail       \* may a statement raise, or the service die?

Text == UNION {[S -> Word] : S \in SUBSET Line}
Doc == [title : Title, text : Text]

Draft == [title : Title \cup {Keep}, text : Text \cup {Keep}]

NoRow == [title |-> "no row"]

ASSUME VersionsAssumption ==
  /\ Line \subseteq Nat /\ IsFiniteSet(Line)
  /\ Title # {}
  /\ Keep \notin Title \cup Text /\ NoChange \notin Title \cup Text
  /\ Drafts \subseteq Draft
  /\ MaxDeltas \in Nat /\ MaxVersions \in Nat /\ CanFail \in BOOLEAN

Index == 1..MaxVersions

\* Rows of note.version_snapshot and note.version_delta.  `meant` is what the
\* version was made for; only the properties read it.
Snapshot == [index : Index, doc : Doc, meant : Doc]
Delta == [index : Index, base : Index, title : Title \cup {NoChange},
          text : Text \cup {NoChange}, meant : Doc]

VARIABLES
  row,        \* the row of note.content, or NoRow
  links,      \* the SpiceDB tuples of the note: its parents, its owner
  inserted,   \* was the note ever inserted?
  snapshots,
  deltas,
  req,        \* the request of each caller
  raced,      \* history: requests overlapped, or one ended midway
  early       \* history: an update found no snapshot to refer to

noteVars == <<row, links, inserted, snapshots, deltas, req, raced, early>>

Step == {"idle", "content", "parent", "owner", "read", "write", "load", "index",
         "append"}

\* A request: where it is, what it was asked to write, the document it read
\* before it wrote, the index of the version it is about to append, and the
\* snapshot its delta refers to (0: a snapshot is to be appended).
Request == [pc : Step, ask : Draft, seen : Doc, n : 0..MaxVersions + 1,
            base : 0..MaxVersions]

NoteTypeOK ==
  /\ row \in Doc \cup {NoRow}
  /\ links \subseteq {"parent", "owner"}
  /\ inserted \in BOOLEAN /\ raced \in BOOLEAN /\ early \in BOOLEAN
  /\ snapshots \subseteq Snapshot
  /\ deltas \subseteq Delta
  /\ req \in [Caller -> Request]

\* Any document will do where none was read yet.
NoDoc == CHOOSE d \in Doc : TRUE
Idle == [pc |-> "idle", ask |-> NoDoc, seen |-> NoDoc, n |-> 0, base |-> 0]

NoteInit ==
  /\ row = NoRow /\ links = {} /\ inserted = FALSE
  /\ snapshots = {} /\ deltas = {}
  /\ req = [c \in Caller |-> Idle]
  /\ raced = FALSE /\ early = FALSE

-----------------------------------------------------------------------------
(* Patches *)

ContextLines == 2

\* Seeded fault: the patch has no context lines.
NoContext(old, new) ==
  {l \in DOMAIN new : l \in DOMAIN old => old[l] # new[l]}

\* The lines of the new text that a unified diff against the old one carries: those
\* that changed, and those with less than ContextLines common lines between
\* them and a change.
Carried(old, new) ==
  LET common == {l \in DOMAIN old \cap DOMAIN new : old[l] = new[l]}
      changed == (DOMAIN old \cup DOMAIN new) \ common
      between(k, l) == {m \in common : (k < m /\ m < l) \/ (l < m /\ m < k)}
  IN  {l \in DOMAIN new :
         \/ l \in changed
         \/ \E k \in changed : Cardinality(between(k, l)) < ContextLines}

\* _build_patch, reduced to the lines that _apply_patch will put together.
TextPatch(old, new) ==
  IF old = new THEN NoChange ELSE [l \in Carried(old, new) |-> new[l]]

\* A title is one line.
TitlePatch(old, new) == IF old = new THEN NoChange ELSE new

\* _apply_patch: what is kept is what the patch carries.
Apply(patch, base) == IF patch = NoChange THEN base ELSE patch

-----------------------------------------------------------------------------
(* The history *)

IndexesOf(S) == {v.index : v \in S}
Indexes == IndexesOf(snapshots) \cup IndexesOf(deltas)

\* Seeded fault: the next index is taken from the deltas alone.
NextIndexOfDeltas == 1 + Max(IndexesOf(deltas) \cup {0})

NextIndex == 1 + Max(Indexes \cup {0})

\* The latest snapshot at or before i.
SnapshotFor(i) ==
  CHOOSE s \in snapshots :
    s.index <= i /\ \A t \in snapshots : t.index <= i => t.index <= s.index

\* get_content_at_version, where there is a snapshot to begin with.
ContentAt(i) ==
  LET s == SnapshotFor(i)
      replay[k \in s.index..i] ==
        IF k = s.index THEN s.doc
        ELSE IF k \notin IndexesOf(deltas) THEN replay[k - 1]
        ELSE LET d == CHOOSE d \in deltas : d.index = k
             IN  [title |-> Apply(d.title, replay[k - 1].title),
                  text |-> Apply(d.text, replay[k - 1].text)]
  IN  replay[i]

\* Seeded fault: a title that is not mentioned is written too.
MergeBlindly(doc, ask) ==
  [title |-> ask.title, text |-> IF ask.text = Keep THEN doc.text ELSE ask.text]

\* What an update leaves in a document.
Merge(doc, ask) ==
  [title |-> IF ask.title = Keep THEN doc.title ELSE ask.title,
   text |-> IF ask.text = Keep THEN doc.text ELSE ask.text]

Meant(r) == Merge(r.seen, r.ask)

-----------------------------------------------------------------------------
(* Requests *)

At(c, a) == req[c].pc = a
Goto(c, a) == req' = [req EXCEPT ![c].pc = a]
End(c) == req' = [req EXCEPT ![c] = Idle]
Busy == {c \in Caller : ~At(c, "idle")}

Begin(c, first, ask) ==
  /\ At(c, "idle")
  /\ Max(Indexes \cup {0}) + Cardinality(Busy) < MaxVersions
  /\ req' = [req EXCEPT ![c] = [Idle EXCEPT !.pc = first, !.ask = ask]]
  /\ raced' = (raced \/ Busy # {})
  /\ early' = early

BeginInsert(c, doc) ==
  /\ ~inserted /\ doc \in Doc
  /\ Begin(c, "content", doc)
  /\ inserted' = TRUE
  /\ UNCHANGED <<row, links, snapshots, deltas>>

\* update_note asks for write permission, which a parent or an owner gives.
BeginUpdate(c, ask) ==
  /\ links # {}
  /\ Begin(c, "read", ask)
  /\ UNCHANGED <<row, links, inserted, snapshots, deltas>>

\* RestoreNoteVersion up to the update it makes of the version.  Its two reads
\* are of versions that are there for good, so they are one step.
BeginRestore(c, i) ==
  /\ i \in Indexes
  /\ \E s \in snapshots : s.index <= i
  /\ Begin(c, "read", ContentAt(i))
  /\ UNCHANGED <<row, links, inserted, snapshots, deltas>>

\* delete: the history goes with the row, the tuples stay.
DeleteNote(c) ==
  /\ At(c, "idle") /\ links # {} /\ row # NoRow
  /\ row' = NoRow /\ snapshots' = {} /\ deltas' = {}
  /\ UNCHANGED <<links, inserted, req, raced, early>>

(* insert *)

InsertContent(c) ==
  /\ At(c, "content")
  /\ row' = req[c].ask
  /\ Goto(c, "parent")
  /\ UNCHANGED <<links, inserted, snapshots, deltas, raced, early>>

AddToParents(c) ==
  /\ At(c, "parent")
  /\ links' = links \cup {"parent"}
  /\ Goto(c, "owner")
  /\ UNCHANGED <<row, inserted, snapshots, deltas, raced, early>>

InsertOwner(c) ==
  /\ At(c, "owner")
  /\ links' = links \cup {"owner"}
  /\ Goto(c, "index")
  /\ UNCHANGED <<row, inserted, snapshots, deltas, raced, early>>

(* update *)

ReadCurrent(c) ==
  /\ At(c, "read")
  /\ IF row = NoRow THEN End(c)
                    ELSE req' = [req EXCEPT ![c].pc = "write", ![c].seen = row]
  /\ UNCHANGED <<row, links, inserted, snapshots, deltas, raced, early>>

\* append_version stops here if its two documents are the same.
WriteContent(c) ==
  /\ At(c, "write")
  /\ IF row = NoRow
       THEN row' = row /\ End(c)
       ELSE /\ row' = Merge(row, req[c].ask)
            /\ IF Meant(req[c]) = req[c].seen THEN End(c) ELSE Goto(c, "load")
  /\ UNCHANGED <<links, inserted, snapshots, deltas, raced, early>>

\* Seeded fault: the threshold is passed before it is noticed.
FullLate == Cardinality(deltas) > MaxDeltas

\* delta_count >= max: of all deltas of the note, whatever they refer to.
Full == Cardinality(deltas) >= MaxDeltas

LoadAppendContext(c) ==
  /\ At(c, "load")
  /\ \/ snapshots = {} /\ Goto(c, "index") /\ early' = TRUE
     \/ /\ snapshots # {}
        /\ req' = [req EXCEPT ![c].pc = "append", ![c].n = NextIndex,
                     ![c].base = IF Full THEN 0 ELSE Max(IndexesOf(snapshots))]
        /\ early' = early
  /\ UNCHANGED <<row, links, inserted, snapshots, deltas, raced>>

(* record_initial_snapshot, of insert and of an update that finds no snapshot *)

GetNextVersionIndex(c) ==
  /\ At(c, "index")
  /\ req' = [req EXCEPT ![c].pc = "append", ![c].n = NextIndex, ![c].base = 0]
  /\ UNCHANGED <<row, links, inserted, snapshots, deltas, raced, early>>

\* _insert_snapshot and _insert_delta raise where the table has the index already
\* or the note is gone.
NewDelta(r) ==
  [index |-> r.n, base |-> r.base, meant |-> Meant(r),
   title |-> TitlePatch(r.seen.title, Meant(r).title),
   text |-> TextPatch(r.seen.text, Meant(r).text)]

NewSnapshot(r) == [index |-> r.n, doc |-> Meant(r), meant |-> Meant(r)]

Append(c) ==
  /\ At(c, "append")
  /\ \/ /\ req[c].base = 0
        /\ row # NoRow /\ req[c].n \notin IndexesOf(snapshots)
        /\ snapshots' = snapshots \cup {NewSnapshot(req[c])}
        /\ UNCHANGED <<deltas, raced>>
     \/ /\ req[c].base # 0
        /\ row # NoRow /\ req[c].n \notin IndexesOf(deltas)
        /\ deltas' = deltas \cup {NewDelta(req[c])}
        /\ UNCHANGED <<snapshots, raced>>
     \/ /\ \/ row = NoRow
           \/ req[c].base = 0 /\ req[c].n \in IndexesOf(snapshots)
           \/ req[c].base # 0 /\ req[c].n \in IndexesOf(deltas)
        /\ raced' = TRUE
        /\ UNCHANGED <<snapshots, deltas>>
  /\ End(c)
  /\ UNCHANGED <<row, links, inserted, early>>

\* A statement raised, the client went away, or the service died.
Fail(c) ==
  /\ CanFail
  /\ c \in Busy
  /\ End(c)
  /\ raced' = TRUE
  /\ UNCHANGED <<row, links, inserted, snapshots, deltas, early>>

NoteNext ==
  \E c \in Caller :
    \/ \E ask \in Drafts : BeginInsert(c, ask) \/ BeginUpdate(c, ask)
    \/ \E i \in Index : BeginRestore(c, i)
    \/ DeleteNote(c)
    \/ InsertContent(c)
    \/ AddToParents(c)
    \/ InsertOwner(c)
    \/ ReadCurrent(c)
    \/ WriteContent(c)
    \/ LoadAppendContext(c)
    \/ GetNextVersionIndex(c)
    \/ Append(c)
    \/ Fail(c)

NoteSpec == NoteInit /\ [][NoteNext]_noteVars

-----------------------------------------------------------------------------
(* Properties *)

\* Every version can be reconstructed, whatever raced or failed: the indexes have
\* no gap and begin with a snapshot.  If no update came before the first snapshot,
\* an index names one version, and a delta is replayed onto the snapshot it
\* refers to.
HistoryComplete ==
  /\ Indexes = 1..Cardinality(Indexes)
  /\ Indexes # {} => 1 \in IndexesOf(snapshots)
  /\ ~early =>
       /\ IndexesOf(snapshots) \cap IndexesOf(deltas) = {}
       /\ \A d \in deltas :
            d.base = Max({i \in IndexesOf(snapshots) : i < d.index})

\* Maximum deltas before forcing a new snapshot: no version takes more than
\* MaxDeltas deltas to reconstruct, even when updates overlap.
ReplayBounded ==
  \A i \in Indexes :
    Cardinality({d \in deltas : SnapshotFor(i).index < d.index /\ d.index <= i})
      <= MaxDeltas

\* versioning.py on get_content_at_version: it reconstructs the note's content
\* at a version.  Each version gives back the document it was made for, as long
\* as requests come one after the other and none fails.
Reconstructs ==
  ~raced => \A v \in snapshots \cup deltas : ContentAt(v.index) = v.meant

\* The same, and the last version is what the note says.  Texts have at most
\* three lines here: Reconstructs is false of longer ones.
HistoryIsFaithful ==
  /\ Reconstructs
  /\ ~raced /\ Busy = {} /\ row # NoRow => ContentAt(Max(Indexes)) = row
=============================================================================
