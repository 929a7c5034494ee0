----------------------------- MODULE Attachments -----------------------------
(***************************************************************************)
(* One attachment in its stores: the object in the bucket, the metadata    *)
(* row and the link rows in Postgres, the parent tuples in SpiceDB.  The   *)
(* facade writes them one after the other; requests overlap and may be     *)
(* cut short.  A target is a user or a note; note views and writes are     *)
(* those of the note, given by CONSTANTS.                                  *)
(***************************************************************************)
EXTENDS Naturals, FiniteSets

CONSTANTS
    People,         \* the callers, and the users an attachment is linked to
    Papers,         \* the notes it is linked to
    Sees, Edits,    \* note permissions: sets of <<person, note>>
    AttCalls,       \* requests in flight
    MaxAttCalls,    \* bound: requests begun
    Nobody

Parents == People \cup Papers

ASSUME TargetsDistinct == People \cap Papers = {} /\ {Nobody, "object"} \cap Parents = {}
ASSUME MaxAttCallsNat == MaxAttCalls \in Nat

VARIABLES
    object,         \* the bucket holds the object
    metadata,       \* "none" before the post, "row", "deleted"
    links,          \* link rows
    parents,        \* tuples parent_note and parent_user
    papers,         \* notes that exist
    attCall,        \* requests in flight
    attBegun,
    unsettled       \* history: links whose last writers overlapped or were cut,
                    \* and "object" once a delete stopped behind the object

attVars == <<object, metadata, links, parents, papers, attCall, attBegun, unsettled>>

Rest == [op |-> "none", stage |-> "idle", by |-> Nobody, target |-> Nobody]
AttStages == {"idle", "object", "row", "tuple"}

\* schema.zed, definition attachment: through a parent note, or as parent user.
\* The tuples of a note outlive it, and so do the rights through it.
EditsAttachment(u) == u \in parents \/ \E n \in Papers \cap parents : <<u, n>> \in Edits

\* _check_link_permission: the chain it builds is asked through the link that
\* set_next returned, whose get_first is itself, so that the view of the
\* attachment is not asked for: only the note counts, or being the user.
MayLink(u, target) == IF target \in People THEN target = u ELSE <<u, target>> \in Sees

AttInit ==
    /\ object = FALSE /\ metadata = "none"
    /\ links = {} /\ parents = {} /\ papers = Papers
    /\ attCall = [c \in AttCalls |-> Rest]
    /\ attBegun = 0
    /\ unsettled = {}

\* What a request writes: a delete writes every link.
Touches(r) == CASE r.op \in {"link", "unlink"} -> {r.target}
                [] r.op = "delete" -> Parents
                [] OTHER -> {}

\* An unlink removes row and tuple whatever is there, so it settles its link.
AttBegin(c, op, stage, u, target) ==
    /\ attCall[c].stage = "idle"
    /\ attBegun < MaxAttCalls
    /\ attBegun' = attBegun + 1
    /\ LET r == [op |-> op, stage |-> stage, by |-> u, target |-> target]
       IN /\ attCall' = [attCall EXCEPT ![c] = r]
          /\ unsettled' = (unsettled \ {x \in {target} : op = "unlink"}) \cup
                (Touches(r) \cap UNION {Touches(attCall[d]) : d \in AttCalls \ {c}})
    /\ UNCHANGED <<object, metadata, links, parents, papers>>

\* Seeded fault: the post starts with the metadata row.
BeginPostAtRow(c, u) ==
    /\ metadata = "none" /\ ~object
    /\ \A d \in AttCalls : attCall[d].op # "post"
    /\ AttBegin(c, "post", "row", u, Nobody)

\* post_attachment without a key, as the import has it: the key is made anew, so
\* that there is one such post.
BeginPost(c, u) ==
    /\ metadata = "none" /\ ~object
    /\ \A d \in AttCalls : attCall[d].op # "post"
    /\ AttBegin(c, "post", "object", u, Nobody)

\* The REST gateway stores the object itself and posts the row under its key.
Upload ==
    /\ metadata = "none" /\ ~object
    /\ object' = TRUE
    /\ UNCHANGED <<metadata, links, parents, papers, attCall, attBegun, unsettled>>

BeginPostUploaded(c, u) ==
    /\ metadata = "none" /\ object
    /\ AttBegin(c, "post", "row", u, Nobody)

PutObject(c) ==
    /\ attCall[c].op = "post" /\ attCall[c].stage = "object"
    /\ object' = TRUE
    /\ attCall' = [attCall EXCEPT ![c].stage = "row"]
    /\ UNCHANGED <<metadata, links, parents, papers, attBegun, unsettled>>

PostMetadata(c) ==
    /\ attCall[c].op = "post" /\ attCall[c].stage = "row"
    /\ metadata' = IF metadata = "none" THEN "row" ELSE metadata
    /\ attCall' = [attCall EXCEPT ![c] = Rest]
    /\ UNCHANGED <<object, links, parents, papers, attBegun, unsettled>>

\* link_attachment and unlink_attachment: the check, then the row.  The keys in
\* requests are those of attachments that were posted.
BeginLink(c, u, target) ==
    /\ metadata # "none" /\ MayLink(u, target)
    /\ AttBegin(c, "link", "row", u, target)

BeginUnlink(c, u, target) ==
    /\ metadata # "none" /\ MayLink(u, target)
    /\ AttBegin(c, "unlink", "row", u, target)

\* The insert raises on a row that is there and on a missing attachment or note.
LinkRow(c) ==
    /\ attCall[c].op = "link" /\ attCall[c].stage = "row"
    /\ LET t == attCall[c].target
       IN IF t \notin links /\ metadata = "row" /\ t \in People \cup papers
          THEN /\ links' = links \cup {t}
               /\ attCall' = [attCall EXCEPT ![c].stage = "tuple"]
          ELSE /\ attCall' = [attCall EXCEPT ![c] = Rest]
               /\ UNCHANGED links
    /\ UNCHANGED <<object, metadata, parents, papers, attBegun, unsettled>>

LinkTuple(c) ==
    /\ attCall[c].op = "link" /\ attCall[c].stage = "tuple"
    /\ parents' = parents \cup {attCall[c].target}
    /\ attCall' = [attCall EXCEPT ![c] = Rest]
    /\ UNCHANGED <<object, metadata, links, papers, attBegun, unsettled>>

UnlinkRow(c) ==
    /\ attCall[c].op = "unlink" /\ attCall[c].stage = "row"
    /\ links' = links \ {attCall[c].target}
    /\ attCall' = [attCall EXCEPT ![c].stage = "tuple"]
    /\ UNCHANGED <<object, metadata, parents, papers, attBegun, unsettled>>

UnlinkTuple(c) ==
    /\ attCall[c].op = "unlink" /\ attCall[c].stage = "tuple"
    /\ parents' = parents \ {attCall[c].target}
    /\ attCall' = [attCall EXCEPT ![c] = Rest]
    /\ UNCHANGED <<object, metadata, links, papers, attBegun, unsettled>>

\* delete_attachment: object, row (link rows cascade), then every tuple.
BeginDeleteAttachment(c, u) ==
    /\ metadata # "none" /\ EditsAttachment(u)
    /\ AttBegin(c, "delete", "object", u, Nobody)

\* Seeded fault: the tuples go first.
DeleteObjectAndParents(c) ==
    /\ attCall[c].op = "delete" /\ attCall[c].stage = "object"
    /\ object' = FALSE
    /\ parents' = {}
    /\ attCall' = [attCall EXCEPT ![c].stage = "row"]
    /\ UNCHANGED <<metadata, links, papers, attBegun, unsettled>>

DeleteObject(c) ==
    /\ attCall[c].op = "delete" /\ attCall[c].stage = "object"
    /\ object' = FALSE
    /\ attCall' = [attCall EXCEPT ![c].stage = "row"]
    /\ UNCHANGED <<metadata, links, parents, papers, attBegun, unsettled>>

DeleteMetadata(c) ==
    /\ attCall[c].op = "delete" /\ attCall[c].stage = "row"
    /\ metadata' = "deleted"
    /\ links' = {}
    /\ attCall' = [attCall EXCEPT ![c].stage = "tuple"]
    /\ UNCHANGED <<object, parents, papers, attBegun, unsettled>>

\* Seeded fault: the parent notes are forgotten.
DeletePeopleOnly(c) ==
    /\ attCall[c].op = "delete" /\ attCall[c].stage = "tuple"
    /\ parents' = parents \cap Papers
    /\ unsettled' = unsettled \ {"object"}
    /\ attCall' = [attCall EXCEPT ![c] = Rest]
    /\ UNCHANGED <<object, metadata, links, papers, attBegun>>

DeleteParents(c) ==
    /\ attCall[c].op = "delete" /\ attCall[c].stage = "tuple"
    /\ parents' = {}
    /\ unsettled' = unsettled \ {"object"}
    /\ attCall' = [attCall EXCEPT ![c] = Rest]
    /\ UNCHANGED <<object, metadata, links, papers, attBegun>>

\* A store raises or the service dies; the request is not taken up again.
AttFails(c) ==
    /\ attCall[c].stage # "idle"
    /\ unsettled' = unsettled
          \cup (IF attCall[c].stage = "tuple" \/ attCall[c].op = "unlink" THEN Touches(attCall[c]) ELSE {})
          \cup {x \in {"object"} : attCall[c].op = "delete" /\ attCall[c].stage # "object"}
    /\ attCall' = [attCall EXCEPT ![c] = Rest]
    /\ UNCHANGED <<object, metadata, links, parents, papers, attBegun>>

\* A note goes: its link rows cascade, the tuples of the attachment stay.
PaperGone(n) ==
    /\ n \in papers
    /\ papers' = papers \ {n}
    /\ links' = links \ {n}
    /\ UNCHANGED <<object, metadata, parents, attCall, attBegun, unsettled>>

AttNext ==
    \/ \E c \in AttCalls :
          \/ \E u \in People :
                \/ BeginPost(c, u) \/ BeginPostUploaded(c, u) \/ BeginDeleteAttachment(c, u)
                \/ \E t \in Parents : BeginLink(c, u, t) \/ BeginUnlink(c, u, t)
          \/ PutObject(c) \/ PostMetadata(c)
          \/ LinkRow(c) \/ LinkTuple(c) \/ UnlinkRow(c) \/ UnlinkTuple(c)
          \/ DeleteObject(c) \/ DeleteMetadata(c) \/ DeleteParents(c)
          \/ AttFails(c)
    \/ Upload
    \/ \E n \in Papers : PaperGone(n)

AttSpec == AttInit /\ [][AttNext]_attVars

-----------------------------------------------------------------------------
(* Stores and requests have their types. *)
AttTypeOK ==
    /\ object \in BOOLEAN /\ metadata \in {"none", "row", "deleted"}
    /\ links \subseteq Parents /\ parents \subseteq Parents /\ papers \subseteq Papers
    /\ attCall \in [AttCalls -> [op : {"none", "post", "link", "unlink", "delete"},
                                 stage : AttStages, by : People \cup {Nobody},
                                 target : Parents \cup {Nobody}]]
    /\ attBegun \in 0..MaxAttCalls
    /\ unsettled \subseteq Parents \cup {"object"}

(* A metadata row has its object (attachment_facade.py: the object is stored *)
(* first, by the post or before it), whatever overlaps; only a delete under  *)
(* way, or one that was cut between the two stores, leaves a row without.    *)
RowHasObject ==
    metadata = "row" =>
        \/ object \/ "object" \in unsettled
        \/ \E c \in AttCalls : attCall[c].op = "delete" /\ attCall[c].stage = "row"

(* Rights follow the links: with nobody writing it, and its last writer      *)
(* neither overlapped nor cut, a target is linked in Postgres exactly when   *)
(* SpiceDB has its parent tuple; of a note that is gone the tuple may stay.  *)
LinksAreRights ==
    \A t \in (People \cup papers) \ unsettled :
        (\A c \in AttCalls : t \notin Touches(attCall[c])) => (t \in links <=> t \in parents)

(* A delete gives up the rights it runs under last: at every point before    *)
(* its end its caller may still write the attachment, and so run it again    *)
(* after a failure, unless other requests take the rights away meanwhile.    *)
DeleteCanBeRepeated ==
    \A c \in AttCalls :
        /\ attCall[c].op = "delete"
        /\ \A d \in AttCalls \ {c} : attCall[d].stage = "idle"
        /\ Parents \cap unsettled = {}
        => EditsAttachment(attCall[c].by)
=============================================================================
