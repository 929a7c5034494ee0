--------------------------- MODULE DirectoryTree ---------------------------
(***************************************************************************)
(* The directory hierarchy, kept twice: rows in Postgres                   *)
(* (note.directory, directory_subdirectory, directory_note) and relation   *)
(* tuples in SpiceDB (directory#parent, note#parent_directory).            *)
(* DirectoryServiceImpl and NoteServiceImpl write both through             *)
(* DirectoryFacadeImpl, one statement per await and no transaction: a      *)
(* request is a small state machine, and others run between its steps.     *)
(*                                                                         *)
(* Abstractions: a user has one request at a time; a walk over one store   *)
(* is one step, and so is a permission check with the statement it guards; *)
(* the only relations of users are the owner tuples the code itself        *)
(* inserts; slugs, tags, shelves, attachments and activity entries are     *)
(* left out.                                                               *)
(***************************************************************************)
EXTENDS Naturals, FiniteSets, Sequences

CONSTANTS User, Dir, Note,  \* users, and the ids of directories and notes
          None,             \* SQL NULL
          MaxDepth,         \* the depth of every walk (10 in the code)
          MaxStack,         \* how deep delete_directory may call itself
          MaxOpen,          \* how many requests may be open at once
          MaxRequests,      \* how many requests are made in all
          CanFail           \* whether a statement may raise

ASSUME BoundsAssumption ==
  /\ MaxDepth \in Nat \ {0} /\ MaxStack \in Nat \ {0}
  /\ MaxOpen \in Nat /\ MaxRequests \in Nat /\ CanFail \in BOOLEAN
ASSUME IdsAssumption ==
  /\ None \notin User \cup Dir \cup Note
  /\ Dir \cap Note = {} /\ IsFiniteSet(Dir)

VARIABLES
  row,        \* the rows of note.directory and note.content
  sub,        \* note.directory_subdirectory: <<directory_id, child_directory_id>>
  filed,      \* note.directory_note: <<directory_id, note_id>>
  readme,     \* note.directory.readme_note_id
  spSub,      \* SpiceDB directory:child#parent@directory:p, as <<p, child>>
  spFiled,    \* SpiceDB note:n#parent_directory@directory:p, as <<p, n>>
  owner,      \* SpiceDB directory:_#owner@user:_ and note:_#owner@user:_
  req,        \* the request of each user
  made,       \* how many requests were made
  raced,      \* history: two requests were open at once
  disturbed   \* history: raced, or a request raised

pgVars == <<row, sub, filed, readme>>
spVars == <<spSub, spFiled, owner>>
histVars == <<made, raced, disturbed>>
dirVars == <<pgVars, spVars, req, histVars>>

Pc == {"insertDir", "readParents", "mirror", "cycleCheck", "rows", "owner",
       "insertNote", "fileNote", "mirrorNote", "noteOwner", "bind", "bindTuple",
       "readNoteRows", "noteRows", "unmirrorNote", "mirrorNotes",
       "resolve", "cascade"}

\* One call of delete_directory: what it still has to delete.
Frame == [dir : Dir, notes : SUBSET Note, subs : SUBSET Dir]

\* dir, note: what the request is about; want: the parents it asks for; drop, add:
\* what it still has to delete and to insert; stack: the calls of delete_directory.
Request == [pc : Pc, dir : Dir \cup {None}, note : Note \cup {None}, want : SUBSET Dir,
            drop : SUBSET Dir, add : SUBSET Dir, stack : Seq(Frame)]

Idle == [pc |-> "idle"]

DirectoryTypeOK ==
  /\ row \in [Dir \cup Note -> {"unused", "live", "gone"}]
  /\ sub \subseteq Dir \X Dir /\ spSub \subseteq Dir \X Dir
  /\ filed \subseteq Dir \X Note /\ spFiled \subseteq Dir \X Note
  /\ readme \in [Dir -> Note \cup {None}]
  /\ owner \in [Dir \cup Note -> User \cup {None}]
  /\ \A u \in User : req[u] = Idle \/ (req[u] \in Request /\ Len(req[u].stack) <= MaxStack)
  /\ made \in 0..MaxRequests /\ raced \in BOOLEAN /\ disturbed \in BOOLEAN
  \* the foreign keys
  /\ \A e \in sub : row[e[1]] = "live" /\ row[e[2]] = "live"
  /\ \A e \in filed : row[e[1]] = "live" /\ row[e[2]] = "live"
  /\ \A d \in Dir : readme[d] # None => row[readme[d]] = "live"

DirectoryInit ==
  /\ row = [x \in Dir \cup Note |-> "unused"]
  /\ sub = {} /\ filed = {} /\ spSub = {} /\ spFiled = {}
  /\ readme = [d \in Dir |-> None]
  /\ owner = [x \in Dir \cup Note |-> None]
  /\ req = [u \in User |-> Idle]
  /\ made = 0 /\ raced = FALSE /\ disturbed = FALSE

-----------------------------------------------------------------------------
(* Graphs *)

Live(x) == row[x] = "live"
Parents(edges, x) == {e[1] : e \in {f \in edges : f[2] = x}}
Children(edges, S) == {e[2] : e \in {f \in edges : f[1] \in S}}

\* Everything at most depth steps below d: get_children_of, resolve_children.
Below(edges, d, depth) ==
  LET Level[i \in 0..depth] ==
        IF i = 0 THEN {} ELSE Level[i-1] \cup Children(edges, {d} \cup Level[i-1])
  IN  Level[depth]

-----------------------------------------------------------------------------
(* Requests *)

Open(u) == req[u] # Idle
At(u, pc) == req[u].pc = pc
Goto(u, pc) == req' = [req EXCEPT ![u].pc = pc]
End(u) == req' = [req EXCEPT ![u] = Idle] /\ UNCHANGED histVars
Raise(u) == req' = [req EXCEPT ![u] = Idle] /\ disturbed' = TRUE /\ UNCHANGED <<made, raced>>
Calm == \A u \in User : ~Open(u)

Begin(u, pc, d, n, want, stack) ==
  LET others == {v \in User \ {u} : Open(v)}
  IN  /\ ~Open(u)
      /\ Cardinality(others) < MaxOpen
      /\ made < MaxRequests /\ made' = made + 1
      /\ req' = [req EXCEPT ![u] = [pc |-> pc, dir |-> d, note |-> n, want |-> want,
                                    drop |-> {}, add |-> {}, stack |-> stack]]
      /\ raced' = (raced \/ others # {})
      /\ disturbed' = (disturbed \/ others # {})

\* schema.zed: write and delete of a directory are for its owner, those of a note for
\* its owner and for whoever has them on a directory it is in.
MayDirectory(u, d) == owner[d] = u
MayNote(u, n) == owner[n] = u \/ \E p \in Parents(spFiled, n) : MayDirectory(u, p)

-----------------------------------------------------------------------------
(* create_directory: the row, the parents, the owner, the README *)

\* n: the README given, or the one _create_readme is going to insert.
BeginCreate(u, d, want, n) ==
  /\ row[d] = "unused" /\ row[n] # "gone"
  /\ \A v \in User : Open(v) => req[v].dir # d /\ req[v].note # n
  /\ \A p \in want : MayDirectory(u, p)
  /\ Begin(u, "insertDir", d, n, want, <<>>)
  /\ UNCHANGED <<pgVars, spVars>>

\* insert_directory, with readme_note_id if one was given.
InsertDir(u) ==
  LET d == req[u].dir
      n == req[u].note
  IN  /\ At(u, "insertDir")
      /\ IF row[n] = "gone"
           THEN Raise(u) /\ UNCHANGED <<row, readme>>
           ELSE /\ row' = [row EXCEPT ![d] = "live"]
                /\ readme' = [readme EXCEPT ![d] = IF Live(n) THEN n ELSE None]
                /\ Goto(u, IF req[u].want = {} THEN "owner" ELSE "readParents")
                /\ UNCHANGED histVars
      /\ UNCHANGED <<sub, filed, spVars>>

InsertOwner(u) ==
  /\ At(u, "owner")
  /\ owner' = [owner EXCEPT ![req[u].dir] = u]
  /\ Goto(u, IF readme[req[u].dir] = None THEN "insertNote" ELSE "bind")
  /\ UNCHANGED <<pgVars, spSub, spFiled, histVars>>

\* _create_readme: the note, its directory in both stores, its owner.
InsertNote(u) ==
  /\ At(u, "insertNote")
  /\ IF row[req[u].note] = "unused"
       THEN /\ row' = [row EXCEPT ![req[u].note] = "live"]
            /\ Goto(u, "fileNote") /\ UNCHANGED histVars
       ELSE Raise(u) /\ UNCHANGED row
  /\ UNCHANGED <<sub, filed, readme, spVars>>

FileNote(u) ==
  /\ At(u, "fileNote")
  /\ IF Live(req[u].dir) /\ Live(req[u].note)
       THEN /\ filed' = filed \cup {<<req[u].dir, req[u].note>>}
            /\ Goto(u, "mirrorNote") /\ UNCHANGED histVars
       ELSE Raise(u) /\ UNCHANGED filed
  /\ UNCHANGED <<row, sub, readme, spVars>>

MirrorNote(u) ==
  /\ At(u, "mirrorNote")
  /\ spFiled' = spFiled \cup {<<req[u].dir, req[u].note>>}
  /\ Goto(u, "noteOwner")
  /\ UNCHANGED <<pgVars, spSub, owner, histVars>>

InsertNoteOwner(u) ==
  /\ At(u, "noteOwner")
  /\ owner' = [owner EXCEPT ![req[u].note] = u]
  /\ Goto(u, "bind")
  /\ UNCHANGED <<pgVars, spSub, spFiled, histVars>>

\* _bind_readme: the pointer, and the tuple if it is missing (the row of
\* directory_note is not its business).
BindReadme(u) ==
  LET d == req[u].dir
      n == req[u].note
  IN  /\ At(u, "bind")
      /\ IF Live(d) /\ ~Live(n)
           THEN Raise(u) /\ UNCHANGED readme
           ELSE /\ readme' = [readme EXCEPT ![d] = IF Live(d) THEN n ELSE @]
                /\ Goto(u, "bindTuple") /\ UNCHANGED histVars
      /\ UNCHANGED <<row, sub, filed, spVars>>

BindTuple(u) ==
  /\ At(u, "bindTuple")
  /\ spFiled' = spFiled \cup {<<req[u].dir, req[u].note>>}
  /\ End(u)
  /\ UNCHANGED <<pgVars, spSub, owner>>

\* get_directory_notes of a directory without a live README: it makes one.  (Every
\* note here was once the README of a directory.)
BeginList(u, d, n) ==
  /\ MayDirectory(u, d)
  /\ ~\E e \in spFiled : e[1] = d /\ Live(e[2])
  /\ row[n] = "unused" /\ \A v \in User : Open(v) => req[v].note # n
  /\ Begin(u, "insertNote", d, n, {}, <<>>)
  /\ UNCHANGED <<pgVars, spVars>>

-----------------------------------------------------------------------------
(* patch_directory, and the parents of a new directory: _replace_parents *)

BeginPatch(u, d, want) ==
  /\ MayDirectory(u, d)
  /\ Begin(u, "readParents", d, None, want, <<>>)
  /\ UNCHANGED <<pgVars, spVars>>

\* A patch of a directory that is gone is answered with None.
ReadParents(u) ==
  LET r == req[u]
      existing == Parents(sub, r.dir)
  IN  /\ At(u, "readParents")
      /\ IF Live(r.dir)
           THEN /\ req' = [req EXCEPT ![u].pc = "mirror", ![u].drop = existing \ r.want,
                                      ![u].add = r.want \ existing]
                /\ UNCHANGED histVars
           ELSE End(u)
      /\ UNCHANGED <<pgVars, spVars>>

\* Seeded fault: the tuples of parents that go are left.
MirrorNewOnly(u) ==
  LET r == req[u]
  IN  /\ At(u, "mirror")
      /\ spSub' = spSub \cup {<<p, r.dir>> : p \in r.add}
      /\ Goto(u, "cycleCheck")
      /\ UNCHANGED <<pgVars, spFiled, owner, histVars>>

\* SpiceDB first, tuple by tuple: what goes, then what comes.
Mirror(u) ==
  LET r == req[u]
  IN  /\ At(u, "mirror")
      /\ \/ \E p \in r.drop :
              /\ spSub' = spSub \ {<<p, r.dir>>}
              /\ req' = [req EXCEPT ![u].drop = @ \ {p}]
         \/ /\ r.drop = {}
            /\ \E p \in r.add :
                 /\ spSub' = spSub \cup {<<p, r.dir>>}
                 /\ req' = [req EXCEPT ![u].add = @ \ {p}]
         \/ /\ r.drop = {} /\ r.add = {}
            /\ Goto(u, "cycleCheck")
            /\ UNCHANGED spSub
      /\ UNCHANGED <<pgVars, spFiled, owner, histVars>>

\* Seeded fault: only the directory itself is looked for.
ClosesOwnCycle(d, want) == d \in want

\* Would a parent in want close a cycle?  The walk starts at the child.
ClosesCycle(d, want) == want \cap ({d} \cup Below(sub, d, MaxDepth)) # {}

\* set_parents_of of the Postgres repository: its check, and what it compares with.
CycleCheck(u) ==
  LET r == req[u]
      current == Parents(sub, r.dir)
  IN  /\ At(u, "cycleCheck")
      /\ IF ClosesCycle(r.dir, r.want)
           THEN Raise(u)
           ELSE /\ req' = [req EXCEPT ![u].pc = "rows", ![u].drop = current \ r.want,
                                      ![u].add = r.want \ current]
                /\ UNCHANGED histVars
      /\ UNCHANGED <<pgVars, spVars>>

\* The rows, one by one; an insert for a directory that is gone raises.
ReplaceRows(u) ==
  LET r == req[u]
  IN  /\ At(u, "rows")
      /\ \/ \E p \in r.drop :
              /\ sub' = sub \ {<<p, r.dir>>}
              /\ req' = [req EXCEPT ![u].drop = @ \ {p}]
              /\ UNCHANGED histVars
         \/ /\ r.drop = {}
            /\ \E p \in r.add :
                 IF Live(p) /\ Live(r.dir)
                   THEN /\ sub' = sub \cup {<<p, r.dir>>}
                        /\ req' = [req EXCEPT ![u].add = @ \ {p}]
                        /\ UNCHANGED histVars
                   ELSE Raise(u) /\ UNCHANGED sub
         \/ /\ r.drop = {} /\ r.add = {}
            /\ IF r.note = None
                 THEN End(u)
                 ELSE Goto(u, "owner") /\ UNCHANGED histVars
            /\ UNCHANGED sub
      /\ UNCHANGED <<row, filed, readme, spVars>>

-----------------------------------------------------------------------------
(* update_note with directory_ids: set_parents_of for a note *)

BeginFile(u, n, want) ==
  /\ want # {}
  /\ Live(n) /\ MayNote(u, n)
  /\ Begin(u, "readNoteRows", None, n, want, <<>>)
  /\ UNCHANGED <<pgVars, spVars>>

ReadNoteRows(u) ==
  LET r == req[u]
      current == Parents(filed, r.note)
  IN  /\ At(u, "readNoteRows")
      /\ req' = [req EXCEPT ![u].pc = "noteRows", ![u].drop = current \ r.want,
                            ![u].add = r.want \ current]
      /\ UNCHANGED <<pgVars, spVars, histVars>>

ReplaceNoteRows(u) ==
  LET r == req[u]
  IN  /\ At(u, "noteRows")
      /\ \/ \E p \in r.drop :
              /\ filed' = filed \ {<<p, r.note>>}
              /\ req' = [req EXCEPT ![u].drop = @ \ {p}]
              /\ UNCHANGED histVars
         \/ /\ r.drop = {}
            /\ \E p \in r.add :
                 IF Live(p) /\ Live(r.note)
                   THEN /\ filed' = filed \cup {<<p, r.note>>}
                        /\ req' = [req EXCEPT ![u].add = @ \ {p}]
                        /\ UNCHANGED histVars
                   ELSE Raise(u) /\ UNCHANGED filed
         \/ /\ r.drop = {} /\ r.add = {}
            /\ Goto(u, "unmirrorNote")
            /\ UNCHANGED <<filed, histVars>>
      /\ UNCHANGED <<row, sub, readme, spVars>>

\* SpiceDB second: every tuple goes, then the wanted ones come, one by one.
UnmirrorNote(u) ==
  LET r == req[u]
  IN  /\ At(u, "unmirrorNote")
      /\ spFiled' = {e \in spFiled : e[2] # r.note}
      /\ req' = [req EXCEPT ![u].pc = "mirrorNotes", ![u].add = r.want]
      /\ UNCHANGED <<pgVars, spSub, owner, histVars>>

MirrorNotes(u) ==
  LET r == req[u]
  IN  /\ At(u, "mirrorNotes")
      /\ \/ \E p \in r.add :
              /\ spFiled' = spFiled \cup {<<p, r.note>>}
              /\ req' = [req EXCEPT ![u].add = @ \ {p}]
              /\ UNCHANGED histVars
         \/ /\ r.add = {}
            /\ End(u)
            /\ UNCHANGED spFiled
      /\ UNCHANGED <<pgVars, spSub, owner>>

-----------------------------------------------------------------------------
(* delete_note and delete_directory *)

\* Seeded fault: readme_note_id is no foreign key.
DeleteRowLeavesPointer(x) ==
  /\ row' = [row EXCEPT ![x] = IF @ = "live" THEN "gone" ELSE @]
  /\ sub' = {e \in sub : x \notin {e[1], e[2]}}
  /\ filed' = {e \in filed : x \notin {e[1], e[2]}}
  /\ readme' = [d \in Dir |-> IF d = x THEN None ELSE readme[d]]

\* The row of x, with what the foreign keys take along.  Tuples stay.
DeleteRow(x) ==
  /\ row' = [row EXCEPT ![x] = IF @ = "live" THEN "gone" ELSE @]
  /\ sub' = {e \in sub : x \notin {e[1], e[2]}}
  /\ filed' = {e \in filed : x \notin {e[1], e[2]}}
  /\ readme' = [d \in Dir |-> IF readme[d] = x \/ d = x THEN None ELSE readme[d]]

DeleteNote(u, n) ==
  /\ ~Open(u) /\ (~Calm => MaxOpen > 1)
  /\ made < MaxRequests /\ made' = made + 1
  /\ Live(n) /\ MayNote(u, n)
  /\ DeleteRow(n)
  /\ raced' = (raced \/ ~Calm)
  /\ disturbed' = (disturbed \/ ~Calm)
  /\ UNCHANGED <<spVars, req>>

Call(d) == [dir |-> d, notes |-> {}, subs |-> {}]

BeginDelete(u, d) ==
  /\ MayDirectory(u, d)
  /\ Begin(u, "resolve", d, None, {}, <<Call(d)>>)
  /\ UNCHANGED <<pgVars, spVars>>

Top(u) == Head(req[u].stack)
SetTop(u, f) == req' = [req EXCEPT ![u].stack = <<f>> \o Tail(@)]

\* Seeded fault: every note of the subtree.
AnyNotes(S) == Children(spFiled, S)

\* resolve_children: the subtree, and the notes whose tuples all point into it.
Subtree(d) == {d} \cup Below(spSub, d, MaxDepth)
ExclusiveNotes(S) == {n \in Children(spFiled, S) : Parents(spFiled, n) \subseteq S}

\* Seeded fault: only the first call checks the permission.
ResolveUnchecked(u) ==
  LET d == Top(u).dir
      S == Subtree(d)
  IN  /\ At(u, "resolve")
      /\ req' = [req EXCEPT ![u].pc = "cascade",
                            ![u].stack = <<[dir |-> d, notes |-> ExclusiveNotes(S),
                                            subs |-> S \ {d}]>> \o Tail(@)]
      /\ UNCHANGED <<pgVars, spVars, histVars>>

\* The permission is checked again for every directory of the recursion.
Resolve(u) ==
  LET d == Top(u).dir
      S == Subtree(d)
  IN  /\ At(u, "resolve")
      /\ IF MayDirectory(u, d)
           THEN /\ req' = [req EXCEPT
                             ![u].pc = "cascade",
                             ![u].stack = <<[dir |-> d, notes |-> ExclusiveNotes(S),
                                             subs |-> S \ {d}]>> \o Tail(@)]
                /\ UNCHANGED histVars
           ELSE Raise(u)
      /\ UNCHANGED <<pgVars, spVars>>

\* Notes first, best effort: one that may not be deleted is skipped.
CascadeNote(u) ==
  /\ At(u, "cascade")
  /\ \E n \in Top(u).notes :
       /\ IF MayNote(u, n) THEN DeleteRow(n) ELSE UNCHANGED pgVars
       /\ SetTop(u, [Top(u) EXCEPT !.notes = @ \ {n}])
  /\ UNCHANGED <<spVars, histVars>>

\* Seeded fault: the sub-directories are left alone.
CascadeSubNot(u) ==
  /\ At(u, "cascade") /\ Top(u).notes = {} /\ Top(u).subs # {}
  /\ SetTop(u, [Top(u) EXCEPT !.subs = {}])
  /\ UNCHANGED <<pgVars, spVars, histVars>>

\* Then each sub-directory, by a call of delete_directory (RecursionError when it
\* calls itself too often).
CascadeSub(u) ==
  /\ At(u, "cascade") /\ Top(u).notes = {}
  /\ \E s \in Top(u).subs :
       IF Len(req[u].stack) < MaxStack
         THEN /\ req' = [req EXCEPT
                           ![u].pc = "resolve",
                           ![u].stack = <<Call(s), [Top(u) EXCEPT !.subs = @ \ {s}]>>
                                          \o Tail(@)]
              /\ UNCHANGED histVars
         ELSE Raise(u)
  /\ UNCHANGED <<pgVars, spVars>>

\* Last the row itself, and the call returns.
CascadeRow(u) ==
  /\ At(u, "cascade") /\ Top(u).notes = {} /\ Top(u).subs = {}
  /\ DeleteRow(Top(u).dir)
  /\ IF Len(req[u].stack) = 1
       THEN End(u)
       ELSE /\ req' = [req EXCEPT ![u].stack = Tail(@)]
            /\ UNCHANGED histVars
  /\ UNCHANGED spVars

-----------------------------------------------------------------------------

\* A statement raises, the client goes away, or the service dies: the request ends
\* where it is and nothing is undone.
Fail(u) ==
  /\ CanFail /\ Open(u) /\ ~disturbed
  /\ Raise(u)
  /\ UNCHANGED <<pgVars, spVars>>

\* A client names only directories it can have heard of.
Known == {d \in Dir : row[d] # "unused"}

BeginRequest(u) ==
  \/ \E d \in Dir, want \in SUBSET Known, n \in Note : BeginCreate(u, d, want, n)
  \/ \E d \in Known, n \in Note : BeginList(u, d, n)
  \/ \E d \in Known, want \in SUBSET Known : BeginPatch(u, d, want)
  \/ \E n \in Note, want \in SUBSET Known : BeginFile(u, n, want)
  \/ \E n \in Note : DeleteNote(u, n)
  \/ \E d \in Dir : BeginDelete(u, d)

Continue(u) ==
  \/ InsertDir(u)
  \/ InsertOwner(u)
  \/ InsertNote(u)
  \/ FileNote(u)
  \/ MirrorNote(u)
  \/ InsertNoteOwner(u)
  \/ BindReadme(u)
  \/ BindTuple(u)
  \/ ReadParents(u)
  \/ Mirror(u)
  \/ CycleCheck(u)
  \/ ReplaceRows(u)
  \/ ReadNoteRows(u)
  \/ ReplaceNoteRows(u)
  \/ UnmirrorNote(u)
  \/ MirrorNotes(u)
  \/ Resolve(u)
  \/ CascadeNote(u)
  \/ CascadeSub(u)
  \/ CascadeRow(u)

DirectoryNext == \E u \in User : BeginRequest(u) \/ Continue(u) \/ Fail(u)

DirectorySpec == DirectoryInit /\ [][DirectoryNext]_dirVars

-----------------------------------------------------------------------------
(* Properties *)

\* The cycle check of set_parents_of: the directories of Postgres form no cycle,
\* wherever requests were refused or cut short.  Two requests at once may close one,
\* and so may a hierarchy deeper than the walk.
Acyclic ==
  ~raced => \A d \in Dir : d \notin Below(sub, d, Cardinality(Dir))

\* The two stores: between requests, SpiceDB has a parent tuple for two live
\* directories exactly where Postgres has the row, and one for a note wherever
\* Postgres has the row (and for the README of a directory without).
StoresAgree ==
  Calm /\ ~disturbed =>
    LET Alive(edges) == {e \in edges : Live(e[1]) /\ Live(e[2])}
    IN  /\ sub = Alive(spSub)
        /\ filed \subseteq spFiled
        /\ \A e \in Alive(spFiled) \ filed : readme[e[1]] = e[2]

\* delete_directory takes the whole subtree: no live directory is left below a
\* deleted one.
NoDeadParents ==
  Calm /\ ~disturbed => \A e \in spSub : Live(e[2]) => Live(e[1])

\* delete_directory: content shared with a sibling tree is never destroyed: a note the
\* cascade deletes has, in Postgres, no live parent outside the subtree.
SharedNotesSurvive ==
  [][\A u \in User, n \in Note :
       At(u, "cascade") /\ req'[u] # req[u] /\ Live(n) /\ row'[n] # "live" /\ ~disturbed =>
         LET root == req[u].stack[Len(req[u].stack)].dir
         IN  Parents(filed, n) \subseteq {root} \cup Below(sub, root, Cardinality(Dir))
    ]_dirVars

\* HasDirectoryDeletePerm for every nested call: whoever runs the cascade and
\* whatever else goes on, a directory is only ever deleted for its owner.
OnlyOwnersDelete ==
  [][\A u \in User, d \in Dir :
       req'[u] # req[u] /\ Live(d) /\ row'[d] # "live" => owner[d] = u]_dirVars

\* A call of delete_directory deletes the sub-directories, which are others.
CascadeDescends ==
  \A u \in User : Open(u) =>
    \A i, j \in 1..Len(req[u].stack) :
      i # j => req[u].stack[i].dir # req[u].stack[j].dir

\* delete_directory deletes every note whose only parents are in the subtree: between
\* requests no live note that once was in a directory is without a live one.
NotesKeepAParent ==
  Calm /\ ~disturbed =>
    \A n \in Note : Live(n) /\ Parents(spFiled, n) # {} =>
      \E p \in Parents(spFiled, n) : Live(p)
=============================================================================
