------------------------------ MODULE BookImport ------------------------------
(***************************************************************************)
(* The import of a BookStack book (BookstackBookImport._import_book): its  *)
(* files, the book's directory, the chapters', a note per page, the links  *)
(* to the files each note refers to, and the cross-references rewritten in *)
(* a second pass.  Everything but the book's directory is best effort: what *)
(* fails is left out, and the import goes on.  What a failed call leaves   *)
(* behind in another service is modelled with that service.  An attachment *)
(* key is named by the file it was issued for.                             *)
(***************************************************************************)
EXTENDS Naturals, Sequences, FiniteSets

CONSTANTS
    Exports,        \* the books imported: [files, chapters, pages]
    Literal,        \* in the place of a key: the reference stands as it was written
    BookDir         \* in the place of a chapter: the directory of the book

(* chapters is a sequence of ids; a page has an id, the chapter it is in     *)
(* (0: none), images and attachments declared with an id and a file, and the *)
(* references of its body: how ("file", "image", "attachment", "page"), to   *)
(* what (a file or an id) and whether as an inline image.                    *)

VARIABLES
    export,         \* the book being imported
    importStage, pos,
    uploaded,       \* file_index
    chapterDirs,    \* ids of the chapters whose directory was made
    tally,          \* ImportedChapter.pages_imported
    imported,       \* the notes made, in order: page, dir, text, links, whole
    firstPass       \* page id -> its note (0: none)

importVars == <<export, importStage, pos, uploaded, chapterDirs, tally, imported, firstPass>>

PagesOf(b) == {b.pages[k] : k \in DOMAIN b.pages}
ChapterIds(b) == {b.chapters[k] : k \in DOMAIN b.chapters}
Declared(b, kind) == UNION {IF kind = "image" THEN p.images ELSE p.attachments : p \in PagesOf(b)}
Ids(b) == {p.id : p \in PagesOf(b)}
RefsOf(b) == UNION {p.refs : p \in PagesOf(b)}

\* In one export an id names one image, or one attachment.
ASSUME ExportsConsistent ==
    \A b \in Exports, kind \in {"image", "attachment"} :
        \A x, y \in Declared(b, kind) : x.id = y.id => x.file = y.file

\* The shape of an export: a chapter has a number that is not 0, and a reference that
\* is to no file is to an image, an attachment or a page (a chapter or a book).
ASSUME ExportsAssumption ==
    \A b \in Exports :
        /\ b.chapters \in Seq(Nat \ {0}) /\ BookDir \notin ChapterIds(b)
        /\ b.pages \in Seq(PagesOf(b)) /\ Literal \notin b.files
        /\ \A p \in PagesOf(b) : \A r \in p.refs :
              r.how \in {"file", "image", "attachment", "page"}

\* id_index: what an id of a kind was uploaded as; nothing else is in it.
Known(kind) == {x \in Declared(export, kind) : x.id # 0 /\ x.file \in uploaded}
HasKey(kind, id) == \E x \in Known(kind) : x.id = id
KeyOf(kind, id) == (CHOOSE x \in Known(kind) : x.id = id).file
\* flat_id_index: kinds thrown together, attachments last.
InFlat(id) == HasKey("image", id) \/ HasKey("attachment", id)
Flat(id) == IF HasKey("attachment", id) THEN KeyOf("attachment", id) ELSE KeyOf("image", id)

Page == export.pages[pos]
Ref(r, key) == [ref |-> r, key |-> key]

ImportInit ==
    /\ export \in Exports
    /\ importStage = "files" /\ pos = 0
    /\ uploaded = {} /\ chapterDirs = {} /\ tally = [c \in ChapterIds(export) |-> 0]
    /\ imported = <<>> /\ firstPass = [id \in Ids(export) |-> 0]

Goto(stage) == importStage' = stage /\ pos' = 1

\* Any of the uploads may fail.
UploadFiles ==
    /\ importStage = "files"
    /\ uploaded' \in SUBSET export.files
    /\ Goto("book")
    /\ UNCHANGED <<export, chapterDirs, tally, imported, firstPass>>

\* The one failure that ends the import.
CreateBookDirectory ==
    /\ importStage = "book"
    /\ Goto("chapters") \/ Goto("aborted")
    /\ UNCHANGED <<export, uploaded, chapterDirs, tally, imported, firstPass>>

CreateChapterDirectory ==
    /\ importStage = "chapters"
    /\ IF pos > Len(export.chapters) THEN Goto("pages") /\ UNCHANGED chapterDirs
       ELSE /\ chapterDirs' \in {chapterDirs, chapterDirs \cup {export.chapters[pos]}}
            /\ pos' = pos + 1 /\ UNCHANGED importStage
    /\ UNCHANGED <<export, uploaded, tally, imported, firstPass>>

\* convert_content: files by their names; ids by the flat index, as far as the page
\* declares an image of that id, and only where they stand for an inline image.
Converted(p) ==
    LET own == {i.id : i \in {x \in p.images : x.id # 0 /\ InFlat(x.id)}}
    IN {Ref(r, IF r.how = "file" /\ r.to \in uploaded THEN r.to
               ELSE IF r.how \in {"image", "attachment"} /\ r.inline /\ r.to \in own
                    THEN Flat(r.to) ELSE Literal) : r \in p.refs}

\* _create_page_note, and its place in the first pass and the counts.
ImportPage ==
    /\ importStage = "pages" /\ pos \in DOMAIN export.pages
    /\ pos' = pos + 1
    /\ LET n == [page |-> pos, text |-> Converted(Page), links |-> {}, whole |-> TRUE,
                 dir |-> IF Page.chapter \in chapterDirs \ {0} THEN Page.chapter ELSE BookDir]
       IN \/ UNCHANGED <<imported, firstPass, tally>>
          \/ /\ imported' = Append(imported, n)
             /\ firstPass' = [firstPass EXCEPT ![Page.id] = Len(imported) + 1]
             /\ tally' = IF n.dir = BookDir THEN tally ELSE [tally EXCEPT ![n.dir] = @ + 1]
    /\ UNCHANGED <<export, importStage, uploaded, chapterDirs>>

PagesDone ==
    /\ importStage = "pages" /\ pos \notin DOMAIN export.pages
    /\ Goto("links")
    /\ UNCHANGED <<export, uploaded, chapterDirs, tally, imported, firstPass>>

\* Seeded fault: the references that are still placeholders are not looked at.
ReferencedInline(p, text) ==
    {t.key : t \in {s \in text : s.key # Literal}}
    \cup {i.file : i \in {x \in p.images : x.file \in uploaded}}

\* The keys a note is linked to: placeholders by the flat index, whatever their
\* kind, keys in the text, and the images the page declares.
Referenced(p, text) ==
    {Flat(t.ref.to) : t \in {s \in text : /\ s.key = Literal
                                          /\ s.ref.how \in {"image", "attachment"}
                                          /\ InFlat(s.ref.to)}}
    \cup {t.key : t \in {s \in text : s.key # Literal}}
    \cup {i.file : i \in {x \in p.images : x.file \in uploaded}}

\* _link_attachments_for_note: each link may fail by itself.
LinkPage ==
    /\ importStage = "links" /\ pos \in DOMAIN export.pages
    /\ pos' = pos + 1
    /\ LET k == firstPass[Page.id]
       IN IF k = 0 THEN UNCHANGED imported
          ELSE \E done \in SUBSET Referenced(Page, imported[k].text) :
                 imported' = [imported EXCEPT
                     ![k].links = @ \cup done,
                     ![k].whole = @ /\ done = Referenced(Page, imported[k].text)]
    /\ UNCHANGED <<export, importStage, uploaded, chapterDirs, tally, firstPass>>

LinksDone ==
    /\ importStage = "links" /\ pos \notin DOMAIN export.pages
    /\ Goto("rewrite")
    /\ UNCHANGED <<export, uploaded, chapterDirs, tally, imported, firstPass>>

\* CrossRefStrategy: images and attachments by their kind; pages stay as they are.
Rewritten(text) ==
    {IF t.key = Literal /\ t.ref.how \in {"image", "attachment"} /\ HasKey(t.ref.how, t.ref.to)
     THEN Ref(t.ref, KeyOf(t.ref.how, t.ref.to)) ELSE t : t \in text}

\* _rewrite_cross_references, of the notes the first pass remembers.  An update that
\* fails may have written the content before.
RewritePage ==
    /\ importStage = "rewrite" /\ pos \in DOMAIN imported
    /\ pos' = pos + 1
    /\ LET new == Rewritten(imported[pos].text)
           old == imported[pos].text
       IN IF new = old \/ \A id \in Ids(export) : firstPass[id] # pos
          THEN UNCHANGED imported
          ELSE \/ imported' = [imported EXCEPT ![pos].text = new]
               \/ \E text \in {old, new} :
                     imported' = [imported EXCEPT ![pos].text = text, ![pos].whole = FALSE]
    /\ UNCHANGED <<export, importStage, uploaded, chapterDirs, tally, firstPass>>

ImportEnds ==
    /\ importStage = "rewrite" /\ pos \notin DOMAIN imported
    /\ Goto("done")
    /\ UNCHANGED <<export, uploaded, chapterDirs, tally, imported, firstPass>>

\* The service dies or the client leaves.
ImportDies ==
    /\ importStage \notin {"done", "aborted"}
    /\ Goto("aborted")
    /\ UNCHANGED <<export, uploaded, chapterDirs, tally, imported, firstPass>>

ImportNext ==
    \/ UploadFiles \/ CreateBookDirectory \/ CreateChapterDirectory
    \/ ImportPage \/ PagesDone \/ LinkPage \/ LinksDone \/ RewritePage
    \/ ImportEnds \/ ImportDies

ImportSpec == ImportInit /\ [][ImportNext]_importVars

-----------------------------------------------------------------------------
TextOf == [ref : RefsOf(export), key : uploaded \cup {Literal}]
NoteOf == [page : DOMAIN export.pages, dir : chapterDirs \cup {BookDir},
           text : SUBSET TextOf, links : SUBSET uploaded, whole : BOOLEAN]

ImportTypeOK ==
    /\ export \in Exports /\ uploaded \subseteq export.files
    /\ importStage \in {"files", "book", "chapters", "pages", "links", "rewrite", "done", "aborted"}
    /\ chapterDirs \subseteq ChapterIds(export)
    /\ tally \in [ChapterIds(export) -> 0..Len(export.pages)]
    /\ firstPass \in [Ids(export) -> 0..Len(imported)]
    /\ imported \in Seq(NoteOf)

\* The file a reference is about, as a set of at most one.
Meant(r) == IF r.how = "file" THEN {r.to}
            ELSE {x.file : x \in {y \in Declared(export, r.how) : y.id = r.to /\ y.id # 0}}

\* An id that is an image's and an attachment's too (or said to be, by a reference to
\* an attachment that is not there), or the id of two pages.
Clash == \/ \E x \in Declared(export, "image") :
               \/ \E y \in Declared(export, "attachment") : x.id = y.id
               \/ \E p \in PagesOf(export) : \E r \in p.refs : r.how = "attachment" /\ r.to = x.id
         \/ Cardinality(Ids(export)) # Len(export.pages)

(* An import that ends with a result has done what the result says           *)
(* (bookstack.py, migrate): every chapter counts the notes that lie in its   *)
(* directory, a page whose chapter failed lies in the book's, and a note     *)
(* none of whose calls failed shows every file it means that was uploaded,   *)
(* and is linked to it, however the page referred to it.                     *)
ImportComplete ==
    importStage = "done" =>
        /\ \A k \in DOMAIN imported :
              LET p == export.pages[imported[k].page]
              IN imported[k].dir = IF p.chapter \in chapterDirs THEN p.chapter ELSE BookDir
        /\ \A c \in chapterDirs :
              tally[c] = Cardinality({k \in DOMAIN imported : imported[k].dir = c})
        /\ \A k \in DOMAIN imported : imported[k].whole /\ ~Clash =>
              \A t \in imported[k].text : t.ref.how # "page" =>
                  LET shown == Meant(t.ref) \cap uploaded
                  IN shown \subseteq imported[k].links /\ {t.key} \ {Literal} = shown
=============================================================================
