------------------------------ MODULE ShelfBooks ------------------------------
(***************************************************************************)
(* A shelf and its books: the rows of note.shelf and note.shelf_book, and  *)
(* their mirror in SpiceDB, the owner of the shelf and the edge            *)
(* directory:<book>#parent@shelf.  The decorator writes the mirror after   *)
(* the row and drops what fails.  Permission checks stand before these     *)
(* calls and change nothing.                                               *)
(***************************************************************************)
EXTENDS Naturals, FiniteSets

CONSTANTS
    Books,          \* directories that can stand on the shelf
    ShelfCalls,     \* requests in flight
    MaxShelfCalls   \* bound: requests begun

ASSUME MaxShelfCallsNat == MaxShelfCalls \in Nat

VARIABLES
    shelf,          \* "none", "row", "deleted"
    owned,          \* the tuple shelf#owner is there
    alive,          \* books that exist
    onShelf,        \* rows of shelf_book
    edges,          \* tuples directory#parent@shelf
    shelfCall, shelfBegun,
    askew           \* history: books whose edge was lost, or written by
                    \* requests that overlapped or were cut short

shelfVars == <<shelf, owned, alive, onShelf, edges, shelfCall, shelfBegun, askew>>

NoShelfCall == [op |-> "none", stage |-> "idle", want |-> {}, prior |-> {},
                out |-> {}, in |-> {}, added |-> {}, alone |-> TRUE]
ShelfOps == {"none", "insert", "set", "add", "remove", "delete"}
ShelfStages == {"idle", "prior", "read", "rows", "edges", "mirror"}

ShelfInit ==
    /\ shelf = "none" /\ owned = FALSE
    /\ alive = Books /\ onShelf = {} /\ edges = {}
    /\ shelfCall = [c \in ShelfCalls |-> NoShelfCall]
    /\ shelfBegun = 0
    /\ askew = {}

\* The books whose row or edge a request may write.
Handles(r) == CASE r.op \in {"add", "remove"} -> r.want
                [] r.op \in {"set", "delete"} -> Books
                [] OTHER -> {}
HandledByOthers(c) == UNION {Handles(shelfCall[d]) : d \in ShelfCalls \ {c}}

ShelfBegin(c, op, stage, want) ==
    /\ shelfCall[c].stage = "idle"
    /\ shelfBegun < MaxShelfCalls
    /\ shelfBegun' = shelfBegun + 1
    /\ LET r == [NoShelfCall EXCEPT !.op = op, !.stage = stage, !.want = want]
           meets(d) == Handles(shelfCall[d]) \cap Handles(r) # {}
       IN /\ shelfCall' = [d \in ShelfCalls |->
                IF d = c THEN [r EXCEPT !.alone = \A e \in ShelfCalls \ {c} : ~meets(e)]
                         ELSE [shelfCall[d] EXCEPT !.alone = @ /\ ~meets(d)]]
          /\ askew' = askew \cup (Handles(r) \cap HandledByOthers(c))
    /\ UNCHANGED <<shelf, owned, alive, onShelf, edges>>

\* The id is new: one insert, and the other requests name a shelf that has one.
BeginInsertShelf(c) ==
    /\ shelf = "none" /\ \A d \in ShelfCalls : shelfCall[d].op # "insert"
    /\ ShelfBegin(c, "insert", "rows", {})
BeginSetBooks(c, want) == shelf # "none" /\ ShelfBegin(c, "set", "prior", want)
BeginAddBook(c, b) == shelf # "none" /\ ShelfBegin(c, "add", "rows", {b})
BeginRemoveBook(c, b) == shelf # "none" /\ ShelfBegin(c, "remove", "rows", {b})
BeginDeleteShelf(c) == shelf # "none" /\ ShelfBegin(c, "delete", "rows", {})

\* insert_shelf: the row (under a slug not yet taken), then the owner.
InsertShelfRow(c) ==
    /\ shelfCall[c].op = "insert" /\ shelfCall[c].stage = "rows"
    /\ shelf' = "row"
    /\ shelfCall' = [shelfCall EXCEPT ![c].stage = "mirror"]
    /\ UNCHANGED <<owned, alive, onShelf, edges, shelfBegun, askew>>

\* delete_shelf: the row with its shelf_book rows, then every tuple of the shelf;
\* the edges of the books are tuples of the books, and stay.
DeleteShelfRow(c) ==
    /\ shelfCall[c].op = "delete" /\ shelfCall[c].stage = "rows"
    /\ shelf' = "deleted"
    /\ onShelf' = {}
    /\ shelfCall' = IF shelf = "row" THEN [shelfCall EXCEPT ![c].stage = "mirror"]
                                     ELSE [shelfCall EXCEPT ![c] = NoShelfCall]
    /\ UNCHANGED <<owned, alive, edges, shelfBegun, askew>>

\* _grant_owner, _revoke_all_shelf_edges: best effort.
MirrorShelf(c, written) ==
    /\ shelfCall[c].stage = "mirror"
    /\ owned' = IF written THEN shelfCall[c].op = "insert" ELSE owned
    /\ shelfCall' = [shelfCall EXCEPT ![c] = NoShelfCall]
    /\ UNCHANGED <<shelf, alive, onShelf, edges, shelfBegun, askew>>

\* Seeded fault: set_books_of looks for the books to take off behind the write.
ReadNoPrior(c) ==
    /\ shelfCall[c].stage = "prior"
    /\ shelfCall' = [shelfCall EXCEPT ![c].stage = "read"]
    /\ UNCHANGED <<shelf, owned, alive, onShelf, edges, shelfBegun, askew>>

\* SpicedbShelfRepoDecorator.set_books_of: the diff for the edges to remove ...
ReadPrior(c) ==
    /\ shelfCall[c].stage = "prior"
    /\ shelfCall' = [shelfCall EXCEPT ![c].stage = "read",
                                      ![c].prior = onShelf \ shelfCall[c].want]
    /\ UNCHANGED <<shelf, owned, alive, onShelf, edges, shelfBegun, askew>>

\* ... and the inner repo's own, for the rows and for the edges to add.
ReadShelf(c) ==
    /\ shelfCall[c].stage = "read"
    /\ shelfCall' = [shelfCall EXCEPT ![c].stage = "rows",
                                      ![c].out = onShelf \ shelfCall[c].want,
                                      ![c].in = shelfCall[c].want \ onShelf]
    /\ UNCHANGED <<shelf, owned, alive, onShelf, edges, shelfBegun, askew>>

DropRow(c, b) ==
    /\ shelfCall[c].op = "set" /\ shelfCall[c].stage = "rows"
    /\ b \in shelfCall[c].out
    /\ onShelf' = onShelf \ {b}
    /\ shelfCall' = [shelfCall EXCEPT ![c].out = @ \ {b}]
    /\ UNCHANGED <<shelf, owned, alive, edges, shelfBegun, askew>>

\* A request that raises behind its reads may have done part of its books.
ShelfRaises(c) ==
    /\ shelfCall' = [shelfCall EXCEPT ![c] = NoShelfCall]
    /\ askew' = IF shelfCall[c].stage \in {"prior", "read"} THEN askew
                                                           ELSE askew \cup Handles(shelfCall[c])
    /\ UNCHANGED <<shelf, owned, alive, onShelf, edges, shelfBegun>>

\* ON CONFLICT DO NOTHING; the foreign keys refuse a shelf or a book that is gone.
AddRow(c, b) ==
    /\ shelfCall[c].op = "set" /\ shelfCall[c].stage = "rows"
    /\ shelfCall[c].out = {} /\ b \in shelfCall[c].in
    /\ IF shelf = "row" /\ b \in alive
       THEN /\ onShelf' = onShelf \cup {b}
            /\ shelfCall' = [shelfCall EXCEPT ![c].in = @ \ {b}, ![c].added = @ \cup {b}]
            /\ UNCHANGED <<shelf, owned, alive, edges, shelfBegun, askew>>
       ELSE ShelfRaises(c)

RowsDone(c) ==
    /\ shelfCall[c].op = "set" /\ shelfCall[c].stage = "rows"
    /\ shelfCall[c].out = {} /\ shelfCall[c].in = {}
    /\ shelfCall' = [shelfCall EXCEPT ![c].stage = "edges"]
    /\ UNCHANGED <<shelf, owned, alive, onShelf, edges, shelfBegun, askew>>

\* add_book and remove_book write the row whether or not it is there ...
BookRow(c, b) ==
    /\ shelfCall[c].stage = "rows" /\ shelfCall[c].want = {b}
    /\ \/ /\ shelfCall[c].op = "add" /\ shelf = "row" /\ b \in alive
          /\ onShelf' = onShelf \cup {b}
          /\ shelfCall' = [shelfCall EXCEPT ![c].stage = "edges", ![c].added = {b}]
          /\ UNCHANGED <<shelf, owned, alive, edges, shelfBegun, askew>>
       \/ /\ shelfCall[c].op = "add" /\ ~(shelf = "row" /\ b \in alive)
          /\ ShelfRaises(c)
       \/ /\ shelfCall[c].op = "remove"
          /\ onShelf' = onShelf \ {b}
          /\ shelfCall' = [shelfCall EXCEPT ![c].stage = "edges", ![c].prior = {b}]
          /\ UNCHANGED <<shelf, owned, alive, edges, shelfBegun, askew>>

\* ... and the edge, too: an edge that was lost comes back by adding again,
\* if nobody else was at the book meanwhile.
Settled(c, b) == IF shelfCall[c].op \in {"add", "remove"} /\ shelfCall[c].alone
                 THEN askew \ {b} ELSE askew

\* _write_book_to_shelf_edge for each book added, then for each removed.
AddEdge(c, b, written) ==
    /\ shelfCall[c].stage = "edges" /\ b \in shelfCall[c].added
    /\ edges' = IF written THEN edges \cup {b} ELSE edges
    /\ askew' = IF written THEN Settled(c, b) ELSE askew \cup {b}
    /\ shelfCall' = [shelfCall EXCEPT ![c].added = @ \ {b}]
    /\ UNCHANGED <<shelf, owned, alive, onShelf, shelfBegun>>

DropEdge(c, b, written) ==
    /\ shelfCall[c].stage = "edges" /\ shelfCall[c].added = {} /\ b \in shelfCall[c].prior
    /\ edges' = IF written THEN edges \ {b} ELSE edges
    /\ askew' = IF written THEN Settled(c, b) ELSE askew \cup {b}
    /\ shelfCall' = [shelfCall EXCEPT ![c].prior = @ \ {b}]
    /\ UNCHANGED <<shelf, owned, alive, onShelf, shelfBegun>>

EdgesDone(c) ==
    /\ shelfCall[c].stage = "edges"
    /\ shelfCall[c].added = {} /\ shelfCall[c].prior = {}
    /\ shelfCall' = [shelfCall EXCEPT ![c] = NoShelfCall]
    /\ UNCHANGED <<shelf, owned, alive, onShelf, edges, shelfBegun, askew>>

\* Postgres raises, or the service dies.
ShelfFails(c) == shelfCall[c].stage # "idle" /\ ShelfRaises(c)

\* A book is deleted as a directory: its rows cascade, its tuples stay.
BookGone(b) ==
    /\ b \in alive
    /\ alive' = alive \ {b}
    /\ onShelf' = onShelf \ {b}
    /\ UNCHANGED <<shelf, owned, edges, shelfCall, shelfBegun, askew>>

ShelfNext ==
    \/ \E c \in ShelfCalls :
          \/ BeginInsertShelf(c) \/ BeginDeleteShelf(c)
          \/ \E want \in SUBSET Books : BeginSetBooks(c, want)
          \/ InsertShelfRow(c) \/ DeleteShelfRow(c)
          \/ ReadPrior(c) \/ ReadShelf(c) \/ RowsDone(c) \/ EdgesDone(c) \/ ShelfFails(c)
          \/ \E written \in BOOLEAN : MirrorShelf(c, written)
          \/ \E b \in Books :
                \/ BeginAddBook(c, b) \/ BeginRemoveBook(c, b)
                \/ DropRow(c, b) \/ AddRow(c, b) \/ BookRow(c, b)
                \/ \E written \in BOOLEAN : AddEdge(c, b, written) \/ DropEdge(c, b, written)
    \/ \E b \in Books : BookGone(b)

ShelfSpec == ShelfInit /\ [][ShelfNext]_shelfVars

-----------------------------------------------------------------------------
(* Stores and requests have their types. *)
ShelfTypeOK ==
    /\ shelf \in {"none", "row", "deleted"} /\ owned \in BOOLEAN
    /\ alive \subseteq Books /\ onShelf \subseteq alive /\ edges \subseteq Books
    /\ shelfCall \in [ShelfCalls ->
          [op : ShelfOps, stage : ShelfStages, want : SUBSET Books, prior : SUBSET Books,
           out : SUBSET Books, in : SUBSET Books, added : SUBSET Books, alone : BOOLEAN]]
    /\ shelfBegun \in 0..MaxShelfCalls
    /\ askew \subseteq Books

(* The mirror agrees (spicedb_decorator.py): while a shelf stands, a book    *)
(* that nobody is working at has its edge in SpiceDB exactly when it has its *)
(* row, unless the last edge write was lost, overlapped or cut short; and    *)
(* adding or removing that one book again undisturbed makes them agree.      *)
EdgesFollowRows ==
    shelf = "row" =>
        \A b \in alive \ askew :
            (\A c \in ShelfCalls : b \notin Handles(shelfCall[c])) => (b \in edges <=> b \in onShelf)
=============================================================================
